---------------------------- MODULE LaunchProofs ----------------------------
(* What runs is what the command line says, for lines of any length.  The  *)
(* invariant relates the parser's variables to the arguments before the    *)
(* one in hand; the parser's mode (a flag that waits for its value) is     *)
(* what the line's reading as a whole says of the argument before.         *)
EXTENDS Launch, SequenceFacts

-----------------------------------------------------------------------------
(* The table of flags.                                                     *)

LEMMA TableOfFlags ==
  /\ \A f : f \in DOMAIN commands /\ commands[f] \in TakesValue <=> f \in ValueFlags
  /\ \A f : f \in DOMAIN commands /\ commands[f] = "main" <=> f \in MainFlags
  /\ \A f \in DOMAIN commands : commands[f] # None
  /\ "--" \notin DOMAIN commands /\ MainFlags \subseteq ValueFlags
BY DEF commands, TakesValue, ValueFlags, MainFlags, None

-----------------------------------------------------------------------------
(* Reading a line.                                                         *)

Values(line) ==
    LET values[n \in 0 .. Len(line)] ==
          IF n = 0 THEN {} ELSE MarksValue(line, n, values[n - 1])
    IN  values

LEMMA ValuesDef ==
  ASSUME NEW S, NEW line \in Seq(S)
  PROVE  /\ Values(line) = [n \in 0 .. Len(line) |->
              IF n = 0 THEN {} ELSE MarksValue(line, n, Values(line)[n - 1])]
         /\ ValuePlaces(line) = Values(line)[Len(line)]
<1> DEFINE D(m, f) == f = [n \in 0 .. m |->
                             IF n = 0 THEN {} ELSE MarksValue(line, n, f[n - 1])]
           T == {m \in Nat : \E f : D(m, f)}
<1>1. D(0, [n \in 0 .. 0 |-> {}])
  OBVIOUS
<1>2. ASSUME NEW m \in Nat, NEW f, D(m, f) PROVE \E g : D(m + 1, g)
  <2> DEFINE g == [n \in 0 .. m + 1 |->
                     IF n = m + 1 THEN MarksValue(line, m + 1, f[m]) ELSE f[n]]
  <2>1. ASSUME NEW n \in 0 .. m + 1
        PROVE  g[n] = IF n = 0 THEN {} ELSE MarksValue(line, n, g[n - 1])
    <3>1. CASE n = m + 1
      <4>1. n # 0 /\ n - 1 = m /\ m \in 0 .. m + 1 /\ m # m + 1
        BY <3>1
      <4>2. g[n] = MarksValue(line, n, f[m]) /\ g[m] = f[m]
        BY <3>1, <4>1
      <4> HIDE DEF g
      <4> QED
        BY <4>1, <4>2
    <3>2. CASE n # m + 1
      <4>1. n \in 0 .. m /\ g[n] = f[n]
        BY <3>2
      <4>2. f[n] = IF n = 0 THEN {} ELSE MarksValue(line, n, f[n - 1])
        BY <1>2, <4>1
      <4>3. n # 0 => g[n - 1] = f[n - 1]
        BY <4>1
      <4> HIDE DEF g
      <4> QED
        BY <4>1, <4>2, <4>3
    <3> QED
      BY <3>1, <3>2
  <2>2. g = [n \in 0 .. m + 1 |-> g[n]]
    OBVIOUS
  <2> HIDE DEF g
  <2>3. D(m + 1, g)
    BY <2>1, <2>2
  <2> HIDE DEF D
  <2> QED
    BY <2>3
<1>3. Nat \subseteq T
  <2>1. 0 \in T
    BY <1>1
  <2>2. ASSUME NEW m \in Nat, m \in T PROVE m + 1 \in T
    <3>1. PICK f : D(m, f)
      BY <2>2
    <3>2. \E g : D(m + 1, g)
      BY <1>2, <3>1
    <3> HIDE DEF D
    <3> QED
      BY <3>2
  <2> HIDE DEF T
  <2> QED
    BY <2>1, <2>2, NatSetInduction
<1>4. \E f : D(Len(line), f)
  <2> HIDE DEF D
  <2> QED
    BY <1>3, LenProperties
<1> QED
  BY <1>4 DEF Values, ValuePlaces

(* A value follows a flag that takes one and is no value itself.           *)
LEMMA ValuesAre ==
  ASSUME NEW S, NEW line \in Seq(S)
  PROVE  /\ ValuePlaces(line) \subseteq 1 .. Len(line)
         /\ \A n \in 1 .. Len(line) :
              n \in ValuePlaces(line) <=>
                n > 1 /\ n - 1 \notin ValuePlaces(line) /\ line[n - 1] \in ValueFlags
<1> DEFINE v == Values(line)
           m == Len(line)
           Takes(n, before) == n > 1 /\ n - 1 \notin before /\ line[n - 1] \in ValueFlags
           Good(n) == /\ v[n] \subseteq 1 .. n
                      /\ \A k \in 1 .. n : k \in v[n] <=> Takes(k, v[n])
           T == {n \in Nat : n <= m => Good(n)}
<1>1. m \in Nat
  BY LenProperties
<1>2. v = [n \in 0 .. m |-> IF n = 0 THEN {} ELSE MarksValue(line, n, v[n - 1])]
  BY ValuesDef
<1> HIDE DEF v, m
<1>3. 0 \in T
  BY <1>1, <1>2
<1>4. ASSUME NEW n \in Nat, n \in T PROVE n + 1 \in T
  <2> SUFFICES ASSUME n + 1 <= m PROVE Good(n + 1)
    OBVIOUS
  <2>1. Good(n) /\ n + 1 \in 0 .. m /\ n + 1 # 0 /\ n + 1 - 1 = n
    BY <1>1, <1>4
  <2>2. v[n + 1] = IF Takes(n + 1, v[n]) THEN v[n] \cup {n + 1} ELSE v[n]
    <3>1. \A k \in 0 .. m : v[k] = IF k = 0 THEN {} ELSE MarksValue(line, k, v[k - 1])
      BY <1>2
    <3>2. PICK k \in 0 .. m : k = n + 1
      BY <2>1
    <3>3. v[k] = MarksValue(line, k, v[k - 1]) /\ k - 1 = n
      BY <3>1, <3>2
    <3>4. v[k] = IF Takes(k, v[n]) THEN v[n] \cup {k} ELSE v[n]
      BY <3>3 DEF MarksValue
    <3> QED
      BY <3>2, <3>4
  <2>3. v[n + 1] \subseteq 1 .. n + 1
    BY <2>1, <2>2
  <2>4. ASSUME NEW k \in 1 .. n + 1 PROVE k \in v[n + 1] <=> Takes(k, v[n + 1])
    <3>1. k - 1 # n + 1 /\ k - 1 \in Int
      OBVIOUS
    <3>2. k - 1 \in v[n + 1] <=> k - 1 \in v[n]
      BY <2>2, <3>1
    <3>3. CASE k = n + 1
      BY <2>1, <2>2, <3>2, <3>3
    <3>4. CASE k # n + 1
      <4>1. k \in 1 .. n
        BY <3>4
      <4>2. k \in v[n] <=> Takes(k, v[n])
        BY <2>1, <4>1
      <4>3. k \in v[n + 1] <=> k \in v[n]
        BY <2>2, <3>4
      <4> QED
        BY <3>2, <4>2, <4>3
    <3> QED
      BY <3>3, <3>4
  <2> QED
    BY <2>3, <2>4
<1>5. Good(m)
  <2>1. Nat \subseteq T
    <3> HIDE DEF T
    <3> QED
      BY <1>3, <1>4, NatSetInduction
  <2> QED
    BY <1>1, <2>1
<1>6. ValuePlaces(line) = v[m]
  BY ValuesDef DEF v, m
<1> QED
  BY <1>5, <1>6 DEF m

LEMMA EndIs ==
  ASSUME NEW S, NEW line \in Seq(S)
  PROVE  /\ End(line) \in 1 .. Len(line) + 1 /\ Len(line) \in Nat
         /\ End(line) <= Len(line) => line[End(line)] = "--"
         /\ \A n \in 1 .. End(line) - 1 : n \in 1 .. Len(line) /\ line[n] # "--"
<1> DEFINE E == {n \in DOMAIN line : line[n] = "--"} \cup {Len(line) + 1}
<1>1. Len(line) \in Nat /\ DOMAIN line = 1 .. Len(line)
  BY LenProperties
<1>2. E \in SUBSET Nat /\ E # {}
  BY <1>1
<1>3. Min(E) \in E /\ \A k \in E : Min(E) <= k
  BY <1>2, MinIs
<1>4. End(line) = Min(E)
  BY DEF End
<1> HIDE DEF E
<1>5. End(line) \in 1 .. Len(line) + 1
  BY <1>1, <1>3, <1>4 DEF E
<1>6. End(line) <= Len(line) => line[End(line)] = "--"
  BY <1>1, <1>3, <1>4 DEF E
<1>7. ASSUME NEW n \in 1 .. End(line) - 1 PROVE n \in 1 .. Len(line) /\ line[n] # "--"
  <2>1. n \in 1 .. Len(line)
    BY <1>1, <1>5
  <2>2. n \notin E
    BY <1>3, <1>4, <1>5, <2>1
  <2> QED
    BY <1>1, <2>1, <2>2 DEF E
<1> QED
  BY <1>1, <1>5, <1>6, <1>7

-----------------------------------------------------------------------------
(* The invariant.                                                          *)

\* Where a flag waits for its value.
Openers(line) == {n \in (1 .. Len(line)) \ ValuePlaces(line) : line[n] \in ValueFlags}

WordsUpTo(line, p) == Words(line) \cap 1 .. p

\* What the parser knows after p arguments, none of them "--".
ReadUpTo(p) ==
    /\ p \in 0 .. End(args) - 1
    /\ key = IF p \in Openers(args) THEN commands[args[p]] ELSE None
    /\ DOMAIN options = {commands[args[m]] : m \in FlagPlaces(args, p)} \ {key}
    /\ \A n \in Mains(args) : n <= p => "main" \in DOMAIN options /\ options["main"] = args[n]
    /\ "main" \in DOMAIN options => \E n \in Mains(args) : n <= p
    /\ \A n \in (1 .. p) \ ValuePlaces(args) :
         /\ args[n] \notin UnknownFlags
         /\ args[n] \in DOMAIN commands =>
              \A m \in FlagPlaces(args, n - 1) : commands[args[m]] # commands[args[n]]

\* What "--" has made of the rest of the line.
RestTaken ==
    \/ /\ Words(args) # {} /\ ListOf(bundles, Words(args), args)
       /\ appArgs = Rest(args)
    \/ /\ Words(args) = {} /\ Rest(args) # <<>>
       /\ bundles = <<Head(Rest(args))>> /\ appArgs = Tail(Rest(args))
    \/ Words(args) = {} /\ Rest(args) = <<>> /\ bundles = <<>>

ParseInv ==
    /\ i \in 0 .. Len(args) /\ bundles \in Seq(Tokens)
    /\ \/ /\ i < End(args) /\ ReadUpTo(i)
          /\ ListOf(bundles, WordsUpTo(args, i), args) /\ appArgs = <<>>
       \/ /\ i = Len(args) /\ End(args) <= Len(args)
          /\ ReadUpTo(End(args) - 1) /\ RestTaken

Nothing == /\ i = 0 /\ key = None /\ options = [c \in {} |-> None]
           /\ bundles = <<>> /\ appArgs = <<>>

OwnRun == [bundles |-> <<"exe">>, main |-> "main.lua", args |-> args]

RunInv ==
    IF exeZip THEN bundles = <<"exe">> /\ appArgs = args /\ Main = "main.lua"
    ELSE Told([bundles |-> bundles, main |-> Main, args |-> appArgs], args)

LaunchInv ==
    /\ args \in Seq(Tokens) /\ exeZip \in BOOLEAN
    /\ pc \in {"main", "detect", "parse", "build", "run", "app", "exit"}
    /\ pc \in {"main", "detect"} => Nothing
    /\ pc \in {"parse", "build"} => ~exeZip
    /\ pc = "parse" => ParseInv
    /\ pc \in {"build", "run", "app"} /\ ~exeZip => ~BadLine(args)
    /\ pc = "run" => RunInv
    /\ pc = "app" => IF exeZip THEN ran = OwnRun ELSE Told(ran, args)
    /\ pc \notin {"app", "exit"} => ran = NoRun
    /\ pc # "exit" => printed = {}
    /\ RunsAsTold /\ BadLineFails

-----------------------------------------------------------------------------
(* One argument more.                                                      *)

LEMMA NextArgument ==
  ASSUME NEW line \in Seq(Tokens), NEW n \in Nat, NEW p, p = n + 1, p < End(line)
  PROVE  /\ p \in 1 .. Len(line) /\ line[p] \in Tokens /\ line[p] # "--"
         /\ p \in ValuePlaces(line) <=> n \in Openers(line)
         /\ FlagPlaces(line, p) = FlagPlaces(line, n) \cup
              {m \in {p} \ ValuePlaces(line) : line[m] \in DOMAIN commands}
         /\ WordsUpTo(line, p) = WordsUpTo(line, n) \cup
              {m \in {p} \ ValuePlaces(line) : line[m] \notin DOMAIN commands}
         /\ \A m \in FlagPlaces(line, n) : m \in 1 .. n
<1>1. p \in 1 .. Len(line) /\ line[p] # "--" /\ Len(line) \in Nat /\ End(line) \in Nat
  BY EndIs
<1>2. line[p] \in Tokens
  BY <1>1, ElementOfSeq
<1>3. p \in ValuePlaces(line) <=> n \in Openers(line)
  <2>1. p > 1 <=> n \in 1 .. Len(line)
    BY <1>1
  <2>2. p \in ValuePlaces(line) <=>
          p > 1 /\ p - 1 \notin ValuePlaces(line) /\ line[p - 1] \in ValueFlags
    BY <1>1, ValuesAre
  <2>3. p - 1 = n
    OBVIOUS
  <2> QED
    BY <2>1, <2>2, <2>3 DEF Openers
<1>4. 1 .. p = (1 .. n) \cup {p}
  OBVIOUS
<1>5. FlagPlaces(line, p) = FlagPlaces(line, n) \cup
        {m \in {p} \ ValuePlaces(line) : line[m] \in DOMAIN commands}
  BY <1>4 DEF FlagPlaces
<1>6. p \in 1 .. End(line) - 1 /\ 1 .. n \subseteq 1 .. End(line) - 1
  BY <1>1
<1>7. WordsUpTo(line, p) = WordsUpTo(line, n) \cup
        {m \in {p} \ ValuePlaces(line) : line[m] \notin DOMAIN commands}
  BY <1>4, <1>6 DEF WordsUpTo, Words
<1> QED
  BY <1>1, <1>2, <1>3, <1>5, <1>7 DEF FlagPlaces

LEMMA MainPlaces ==
  ASSUME NEW line \in Seq(Tokens), NEW n \in Mains(line)
  PROVE  /\ n \in 1 .. Len(line) /\ n - 1 \in Openers(line) /\ n - 1 \in 1 .. n
         /\ n \in ValuePlaces(line) /\ commands[line[n - 1]] = "main"
         /\ \A k \in Nat : n <= k => n - 1 \in FlagPlaces(line, k)
<1>1. n \in ValuePlaces(line) /\ line[n - 1] \in MainFlags
  BY DEF Mains
<1>2. n \in 1 .. Len(line) /\ Len(line) \in Nat
  BY <1>1, ValuesAre, LenProperties
<1>3. n > 1 /\ n - 1 \notin ValuePlaces(line) /\ line[n - 1] \in ValueFlags
  BY <1>1, <1>2, ValuesAre
<1>4. n - 1 \in 1 .. Len(line) /\ n - 1 \in 1 .. n
  BY <1>2, <1>3
<1>5. line[n - 1] \in DOMAIN commands /\ commands[line[n - 1]] = "main"
  BY <1>1, TableOfFlags
<1>6. ASSUME NEW k \in Nat, n <= k PROVE n - 1 \in 1 .. k
  BY <1>2, <1>4, <1>6
<1> QED
  BY <1>1, <1>2, <1>3, <1>4, <1>5, <1>6 DEF Openers, FlagPlaces

\* The value of a flag.
LEMMA ValueRead ==
  ASSUME args \in Seq(Tokens), NEW p, i \in Nat, p = i + 1, p < End(args), ReadUpTo(i),
         key # None, ParseValue(args[p]), args' = args
  PROVE  ReadUpTo(p)' /\ WordsUpTo(args, p) = WordsUpTo(args, i)
<1> DEFINE L == args  V == ValuePlaces(L)
<1>1. /\ p \in 1 .. Len(L) /\ (p \in V <=> i \in Openers(L))
      /\ FlagPlaces(L, p) = FlagPlaces(L, i) \cup {m \in {p} \ V : L[m] \in DOMAIN commands}
      /\ WordsUpTo(L, p) = WordsUpTo(L, i) \cup {m \in {p} \ V : L[m] \notin DOMAIN commands}
      /\ \A m \in FlagPlaces(L, i) : m \in 1 .. i
  BY NextArgument
<1>2. i \in Openers(L) /\ key = commands[L[i]]
  BY DEF ReadUpTo
<1>3. p \in V /\ FlagPlaces(L, p) = FlagPlaces(L, i) /\ WordsUpTo(L, p) = WordsUpTo(L, i)
  BY <1>1, <1>2
<1>4. p \notin Openers(L) /\ key' = None
  BY <1>3 DEF Openers, ParseValue
<1>5. /\ DOMAIN options' = DOMAIN options \cup {key}
      /\ options'[key] = L[p] /\ \A c \in DOMAIN options : c # key => options'[c] = options[c]
  BY DEF ParseValue, Given
<1>6. i \in FlagPlaces(L, i) /\ key # None /\ i \in 1 .. Len(L) /\ i \notin V
  <2>1. i \in 1 .. Len(L) /\ i \notin V /\ L[i] \in ValueFlags
    BY <1>2 DEF Openers
  <2>2. L[i] \in DOMAIN commands
    BY <2>1, TableOfFlags
  <2> QED
    BY <2>1, <2>2 DEF FlagPlaces
<1>7. \A m \in FlagPlaces(L, i) : commands[L[m]] # None
  BY TableOfFlags DEF FlagPlaces
<1>8. DOMAIN options' = {commands[L[m]] : m \in FlagPlaces(L, p)} \ {None}
  <2>1. DOMAIN options = {commands[L[m]] : m \in FlagPlaces(L, i)} \ {key}
    BY DEF ReadUpTo
  <2> QED
    BY <1>2, <1>3, <1>5, <1>6, <1>7, <2>1
<1>9. ASSUME NEW n \in Mains(L), n <= p
      PROVE  "main" \in DOMAIN options' /\ options'["main"] = L[n]
  <2>1. /\ n - 1 \in Openers(L) /\ commands[L[n - 1]] = "main" /\ n \in 1 .. Len(L) /\ n \in V
        /\ \A k \in Nat : n <= k => n - 1 \in FlagPlaces(L, k)
    BY MainPlaces
  <2>2. CASE n = p
    <3>1. key = "main"
      BY <1>2, <2>1, <2>2
    <3> QED
      BY <1>5, <2>2, <3>1
  <2>3. CASE n # p
    <3>1. n <= i /\ n \in Nat
      BY <1>9, <2>1, <2>3
    <3>2. "main" \in DOMAIN options /\ options["main"] = L[n]
      BY <3>1 DEF ReadUpTo
    <3>3. key # "main"
      BY <3>2 DEF ReadUpTo
    <3> QED
      BY <1>5, <3>2, <3>3
  <2> QED
    BY <2>2, <2>3
<1>10. ASSUME "main" \in DOMAIN options' PROVE \E n \in Mains(L) : n <= p
  <2>1. CASE key = "main"
    <3>1. L[i] \in MainFlags
      BY <1>2, <1>6, <2>1, TableOfFlags DEF FlagPlaces
    <3>2. p \in Mains(L)
      BY <1>3, <3>1 DEF Mains
    <3> QED
      BY <3>2
  <2>2. CASE key # "main"
    <3>1. "main" \in DOMAIN options
      BY <1>5, <1>10, <2>2
    <3>2. PICK n \in Mains(L) : n <= i
      BY <3>1 DEF ReadUpTo
    <3>3. n \in Nat
      BY MainPlaces
    <3> QED
      BY <3>2, <3>3
  <2> QED
    BY <2>1, <2>2
<1>11. ASSUME NEW n \in (1 .. p) \ V
       PROVE  /\ L[n] \notin UnknownFlags
              /\ L[n] \in DOMAIN commands =>
                   \A m \in FlagPlaces(L, n - 1) : commands[L[m]] # commands[L[n]]
  <2>1. n \in (1 .. i) \ V
    BY <1>3, <1>11
  <2> QED
    BY <2>1 DEF ReadUpTo
<1>12. p \in 0 .. End(L) - 1
  BY EndIs
<1> HIDE DEF V
<1>13. ReadUpTo(p)'
  BY <1>4, <1>8, <1>9, <1>10, <1>11, <1>12 DEF ReadUpTo, V
<1> QED
  BY <1>3, <1>13

\* A flag that is given for the first time.
LEMMA FlagRead ==
  ASSUME args \in Seq(Tokens), NEW p, i \in Nat, p = i + 1, p < End(args), ReadUpTo(i),
         key = None, args[p] \in DOMAIN commands, commands[args[p]] \notin DOMAIN options,
         ParseFlag(commands[args[p]]), args' = args
  PROVE  ReadUpTo(p)' /\ WordsUpTo(args, p) = WordsUpTo(args, i)
<1> DEFINE L == args  V == ValuePlaces(L)  c == commands[L[p]]
<1>1. /\ p \in 1 .. Len(L) /\ (p \in V <=> i \in Openers(L))
      /\ FlagPlaces(L, p) = FlagPlaces(L, i) \cup {m \in {p} \ V : L[m] \in DOMAIN commands}
      /\ WordsUpTo(L, p) = WordsUpTo(L, i) \cup {m \in {p} \ V : L[m] \notin DOMAIN commands}
      /\ \A m \in FlagPlaces(L, i) : m \in 1 .. i
  BY NextArgument
<1>2. i \notin Openers(L)
  <2>1. i \in Openers(L) => L[i] \in DOMAIN commands
    BY TableOfFlags DEF Openers
  <2> QED
    BY <2>1, TableOfFlags DEF ReadUpTo
<1>3. /\ p \notin V /\ FlagPlaces(L, p) = FlagPlaces(L, i) \cup {p}
      /\ WordsUpTo(L, p) = WordsUpTo(L, i)
  BY <1>1, <1>2
<1>4. c # None /\ (c \in TakesValue <=> L[p] \in ValueFlags) /\ "main" \in TakesValue
  BY TableOfFlags DEF TakesValue
<1>5. p \in Openers(L) <=> c \in TakesValue
  BY <1>1, <1>3, <1>4 DEF Openers
<1>6. DOMAIN options = {commands[L[m]] : m \in FlagPlaces(L, i)} \ {None}
  BY DEF ReadUpTo
<1>7. \A m \in FlagPlaces(L, i) : commands[L[m]] # None
  BY TableOfFlags DEF FlagPlaces
<1>8. /\ key' = IF p \in Openers(L) THEN c ELSE None
      /\ DOMAIN options' = {commands[L[m]] : m \in FlagPlaces(L, p)} \ {key'}
      /\ "main" \in DOMAIN options' <=> "main" \in DOMAIN options
      /\ "main" \in DOMAIN options => options'["main"] = options["main"]
  <2>1. CASE c \in TakesValue
    <3>1. key' = c /\ options' = options
      BY <2>1 DEF ParseFlag
    <3> QED
      BY <1>3, <1>5, <1>6, <1>7, <2>1, <3>1
  <2>2. CASE c \notin TakesValue
    <3>1. key' = None /\ options' = Given(c, "true")
      BY <2>2 DEF ParseFlag
    <3>2. /\ DOMAIN options' = DOMAIN options \cup {c} /\ c # "main"
          /\ \A o \in DOMAIN options : o # c => options'[o] = options[o]
      BY <1>4, <2>2, <3>1 DEF Given
    <3>3. {commands[L[m]] : m \in FlagPlaces(L, p)}
            = {commands[L[m]] : m \in FlagPlaces(L, i)} \cup {c}
      BY <1>3
    <3>4. DOMAIN options' = {commands[L[m]] : m \in FlagPlaces(L, p)} \ {None}
      BY <1>4, <1>6, <3>2, <3>3
    <3>5. p \notin Openers(L)
      BY <1>5, <2>2
    <3> QED
      BY <3>1, <3>2, <3>4, <3>5
  <2> QED
    BY <2>1, <2>2
<1>9. ASSUME NEW n \in Mains(L)
      PROVE  n <= p <=> n <= i
  <2>1. n \in 1 .. Len(L) /\ n \in V
    BY MainPlaces
  <2> QED
    BY <1>3, <2>1
<1>10. ASSUME NEW n \in (1 .. p) \ V
       PROVE  /\ L[n] \notin UnknownFlags
              /\ L[n] \in DOMAIN commands =>
                   \A m \in FlagPlaces(L, n - 1) : commands[L[m]] # commands[L[n]]
  <2>1. CASE n = p
    <3>1. L[p] \notin UnknownFlags
      BY LaunchAssumption
    <3>2. \A m \in FlagPlaces(L, i) : commands[L[m]] # c
      BY <1>6, <1>7
    <3>3. n - 1 = i
      BY <2>1
    <3> QED
      BY <2>1, <3>1, <3>2, <3>3
  <2>2. CASE n # p
    <3>1. n \in (1 .. i) \ V
      BY <1>10, <2>2
    <3> QED
      BY <3>1 DEF ReadUpTo
  <2> QED
    BY <2>1, <2>2
<1>11. p \in 0 .. End(L) - 1
  BY EndIs
<1>12. /\ \A n \in Mains(L) : n <= p => "main" \in DOMAIN options' /\ options'["main"] = L[n]
       /\ "main" \in DOMAIN options' => \E n \in Mains(L) : n <= p
  BY <1>8, <1>9 DEF ReadUpTo
<1>13. ReadUpTo(p)'
  BY <1>8, <1>10, <1>11, <1>12 DEF ReadUpTo
<1> QED
  BY <1>3, <1>13

\* A bundle.
LEMMA BundleRead ==
  ASSUME args \in Seq(Tokens), NEW p, i \in Nat, p = i + 1, p < End(args), ReadUpTo(i),
         key = None, args[p] \notin DOMAIN commands, args[p] \notin UnknownFlags,
         ParseBundle(args[p]), args' = args
  PROVE  /\ ReadUpTo(p)' /\ p \in WordsUpTo(args, p)
         /\ WordsUpTo(args, p) = WordsUpTo(args, i) \cup {p}
<1> DEFINE L == args  V == ValuePlaces(L)
<1>1. /\ p \in 1 .. Len(L) /\ (p \in V <=> i \in Openers(L))
      /\ FlagPlaces(L, p) = FlagPlaces(L, i) \cup {m \in {p} \ V : L[m] \in DOMAIN commands}
      /\ WordsUpTo(L, p) = WordsUpTo(L, i) \cup {m \in {p} \ V : L[m] \notin DOMAIN commands}
      /\ \A m \in FlagPlaces(L, i) : m \in 1 .. i
  BY NextArgument
<1>2. i \notin Openers(L)
  <2>1. i \in Openers(L) => L[i] \in DOMAIN commands
    BY TableOfFlags DEF Openers
  <2> QED
    BY <2>1, TableOfFlags DEF ReadUpTo
<1>3. /\ p \notin V /\ FlagPlaces(L, p) = FlagPlaces(L, i)
      /\ WordsUpTo(L, p) = WordsUpTo(L, i) \cup {p}
  BY <1>1, <1>2
<1>4. p \notin Openers(L)
  BY TableOfFlags DEF Openers
<1>5. key' = key /\ options' = options
  BY DEF ParseBundle
<1>6. ASSUME NEW n \in Mains(L)
      PROVE  n <= p <=> n <= i
  <2>1. n \in 1 .. Len(L) /\ n \in V
    BY MainPlaces
  <2> QED
    BY <1>3, <2>1
<1>7. ASSUME NEW n \in (1 .. p) \ V
      PROVE  /\ L[n] \notin UnknownFlags
             /\ L[n] \in DOMAIN commands =>
                  \A m \in FlagPlaces(L, n - 1) : commands[L[m]] # commands[L[n]]
  <2>1. CASE n # p
    <3>1. n \in (1 .. i) \ V
      BY <1>7, <2>1
    <3> QED
      BY <3>1 DEF ReadUpTo
  <2> QED
    BY <2>1
<1>8. p \in 0 .. End(L) - 1
  BY EndIs
<1>9. ReadUpTo(p)'
  BY <1>3, <1>4, <1>5, <1>6, <1>7, <1>8 DEF ReadUpTo
<1> QED
  BY <1>3, <1>9

-----------------------------------------------------------------------------
(* Every step keeps the invariant.                                         *)

LEMMA WordsBefore ==
  ASSUME NEW line \in Seq(Tokens), NEW p \in Nat
  PROVE  /\ Words(line) \in SUBSET Nat
         /\ p = End(line) - 1 => WordsUpTo(line, p) = Words(line)
         /\ WordsUpTo(line, 0) = {}
         /\ \A list \in Seq(Tokens) :
              ListOf(list, WordsUpTo(line, p), line) => (list = <<>> <=> WordsUpTo(line, p) = {})
<1>1. End(line) \in Nat
  BY EndIs
<1>2. Words(line) \in SUBSET Nat /\ (p = End(line) - 1 => WordsUpTo(line, p) = Words(line))
  BY <1>1 DEF Words, WordsUpTo
<1>3. IsFiniteSet(WordsUpTo(line, p))
  <2>1. IsFiniteSet(1 .. p)
    BY FS_Interval
  <2> QED
    BY <2>1, FS_Subset DEF WordsUpTo
<1>4. Cardinality(WordsUpTo(line, p)) = 0 <=> WordsUpTo(line, p) = {}
  BY <1>3, FS_EmptySet
<1>5. ASSUME NEW list \in Seq(Tokens), ListOf(list, WordsUpTo(line, p), line)
      PROVE  list = <<>> <=> WordsUpTo(line, p) = {}
  BY <1>4, <1>5, EmptySeq DEF ListOf
<1>6. WordsUpTo(line, 0) = {}
  BY <1>2 DEF WordsUpTo
<1> QED
  BY <1>2, <1>5, <1>6

\* A bundle is put behind those before it.
LEMMA ListsOneMore ==
  ASSUME NEW line \in Seq(Tokens), NEW list \in Seq(Tokens), NEW n \in Nat, NEW p, p = n + 1,
         p <= Len(line), NEW W \in SUBSET Nat, p \in W, ListOf(list, W \cap 1 .. n, line)
  PROVE  ListOf(Append(list, line[p]), W \cap 1 .. p, line)
<1> DEFINE more == Append(list, line[p])
<1>1. Place(W, n) \in Nat /\ Place(W, p) = Place(W, n) + 1
  BY PlaceNext
<1>2. line[p] \in Tokens /\ Len(list) = Place(W, n)
  <2>1. p \in 1 .. Len(line)
    BY LenProperties
  <2> QED
    BY <2>1, ElementOfSeq DEF ListOf, Place
<1>3. /\ Len(more) = Len(list) + 1 /\ more[Len(list) + 1] = line[p]
      /\ \A k \in 1 .. Len(list) : more[k] = list[k]
  BY <1>2, AppendProperties
<1>4. ASSUME NEW k \in W \cap 1 .. p
      PROVE  more[Cardinality((W \cap 1 .. p) \cap 1 .. k)] = line[k]
  <2>1. (W \cap 1 .. p) \cap 1 .. k = W \cap 1 .. k
    OBVIOUS
  <2>2. CASE k = p
    BY <1>1, <1>2, <1>3, <2>1, <2>2 DEF Place
  <2>3. CASE k # p
    <3>1. k \in W \cap 1 .. n /\ (W \cap 1 .. n) \cap 1 .. k = W \cap 1 .. k
      BY <2>3
    <3>2. list[Place(W, k)] = line[k]
      BY <3>1 DEF ListOf, Place
    <3>3. Place(W, k) \in 1 .. Place(W, n)
      <4>1. k \in Nat /\ k <= n
        BY <3>1
      <4>2. IsFiniteSet(1 .. n) /\ IsFiniteSet(1 .. k)
        BY <4>1, FS_Interval
      <4>3. IsFiniteSet(W \cap 1 .. n) /\ IsFiniteSet(W \cap 1 .. k)
        BY <4>2, FS_Subset
      <4>4. Place(W, k) <= Place(W, n)
        <5>1. W \cap 1 .. k \subseteq W \cap 1 .. n
          BY <4>1
        <5> QED
          BY <4>3, <5>1, FS_Subset DEF Place
      <4>5. Place(W, k) # 0 /\ Place(W, k) \in Nat
        <5>1. k \in W \cap 1 .. k
          BY <3>1
        <5> QED
          BY <4>3, <5>1, FS_EmptySet, FS_CardinalityType DEF Place
      <4> QED
        BY <1>1, <4>4, <4>5
    <3> QED
      BY <1>2, <1>3, <2>1, <3>2, <3>3 DEF Place
  <2> QED
    BY <2>2, <2>3
<1> QED
  BY <1>1, <1>2, <1>3, <1>4 DEF ListOf, Place

LEMMA DashesTaken ==
  ASSUME args \in Seq(Tokens), i \in 0 .. Len(args), bundles \in Seq(Tokens),
         i < Len(args), args[i + 1] = "--", i < End(args), ReadUpTo(i),
         ListOf(bundles, WordsUpTo(args, i), args), ParseDashes, args' = args
  PROVE  ParseInv'
<1> DEFINE L == args  R == Rest(L)  len == Len(L)
<1>1. End(L) \in 1 .. len + 1 /\ len \in Nat
  BY EndIs
<1>2. End(L) = i + 1
  <2>1. i + 1 \notin 1 .. End(L) - 1
    BY EndIs
  <2> QED
    BY <1>1, <2>1
<1>3. ReadUpTo(End(L) - 1)'
  BY <1>2 DEF ReadUpTo, ParseDashes
<1>4. WordsUpTo(L, i) = Words(L) /\ (bundles = <<>> <=> Words(L) = {})
  BY <1>2, WordsBefore
<1>5. R = SubSeq(L, i + 2, len)
  BY <1>2 DEF Rest
<1>6. /\ R \in Seq(Tokens) /\ (R = <<>> <=> i + 2 > len)
      /\ i + 2 <= len => Head(R) = L[i + 2] /\ L[i + 2] \in Tokens
                         /\ Tail(R) = SubSeq(L, i + 3, len)
  <2>1. CASE i + 2 <= len
    <3>1. /\ R \in Seq(Tokens) /\ Len(R) = len - (i + 2) + 1
          /\ \A k \in 1 .. Len(R) : R[k] = L[i + 2 + k - 1]
      <4>1. \A k \in i + 2 .. len : L[k] \in Tokens
        BY <1>1, ElementOfSeq
      <4>2. i + 2 \in Int /\ len \in Int
        BY <1>1
      <4>3. /\ R \in Seq(Tokens)
            /\ Len(R) = IF i + 2 <= len THEN len - (i + 2) + 1 ELSE 0
            /\ \A k \in 1 .. len - (i + 2) + 1 : R[k] = L[i + 2 + k - 1]
        BY <1>5, <4>1, <4>2, SubSeqProperties
      <4> QED
        BY <2>1, <4>3
    <3>2. R # <<>> /\ Len(R) \in Nat
      BY <1>1, <2>1, <3>1, EmptySeq
    <3>3. /\ Head(R) = R[1] /\ Tail(R) \in Seq(Tokens) /\ Len(Tail(R)) = Len(R) - 1
          /\ \A k \in 1 .. Len(Tail(R)) : Tail(R)[k] = R[k + 1]
      BY <3>2, <3>1, HeadTailProperties
    <3>4. Head(R) = L[i + 2] /\ L[i + 2] \in Tokens
      <4>1. i + 2 + 1 - 1 = i + 2 /\ i + 2 \in 1 .. len /\ 1 \in 1 .. Len(R)
        BY <1>1, <2>1, <3>1
      <4> QED
        BY <3>1, <3>3, <4>1, ElementOfSeq
    <3>5. /\ SubSeq(L, i + 3, len) \in Seq(Tokens)
          /\ Len(SubSeq(L, i + 3, len)) = Len(Tail(R))
          /\ \A k \in 1 .. Len(Tail(R)) : SubSeq(L, i + 3, len)[k] = L[i + 3 + k - 1]
      <4>1. \A k \in i + 3 .. len : L[k] \in Tokens
        BY <1>1, ElementOfSeq
      <4>2. i + 3 \in Int /\ len \in Int
        BY <1>1
      <4>3. /\ SubSeq(L, i + 3, len) \in Seq(Tokens)
            /\ Len(SubSeq(L, i + 3, len)) = IF i + 3 <= len THEN len - (i + 3) + 1 ELSE 0
            /\ \A k \in 1 .. len - (i + 3) + 1 : SubSeq(L, i + 3, len)[k] = L[i + 3 + k - 1]
        BY <4>1, <4>2, SubSeqProperties
      <4>4. Len(Tail(R)) = len - (i + 3) + 1 /\ i \in Nat
        BY <1>1, <2>1, <3>1, <3>3
      <4>5. (IF i + 3 <= len THEN len - (i + 3) + 1 ELSE 0) = len - (i + 3) + 1
        BY <1>1, <2>1, <4>4
      <4> QED
        BY <4>3, <4>4, <4>5
    <3>6. \A k \in 1 .. Len(Tail(R)) : Tail(R)[k] = SubSeq(L, i + 3, len)[k]
      <4> SUFFICES ASSUME NEW k \in 1 .. Len(Tail(R))
                   PROVE  Tail(R)[k] = SubSeq(L, i + 3, len)[k]
        OBVIOUS
      <4>1. k + 1 \in 1 .. Len(R) /\ i + 2 + (k + 1) - 1 = i + 3 + k - 1
        BY <1>1, <3>2, <3>3
      <4> QED
        BY <3>1, <3>3, <3>5, <4>1
    <3>7. Tail(R) = SubSeq(L, i + 3, len)
      BY <3>3, <3>5, <3>6, SeqEqual
    <3> QED
      BY <2>1, <3>1, <3>2, <3>4, <3>7
  <2>2. CASE i + 2 > len
    BY <1>1, <1>5, <2>2, SubSeqEmpty, EmptySeq
  <2> QED
    BY <1>1, <2>1, <2>2
<1>7. i' = len
  BY DEF ParseDashes
<1> HIDE DEF R
<1>8. /\ bundles' = IF bundles = <<>> /\ i + 2 <= len THEN <<L[i + 2]>> ELSE bundles
      /\ appArgs' = IF bundles = <<>> THEN SubSeq(L, i + 3, len) ELSE SubSeq(L, i + 2, len)
  BY DEF ParseDashes, FirstAppArg
<1>9. CASE bundles = <<>> /\ i + 2 <= len
  <2>1. bundles' = <<Head(R)>> /\ appArgs' = Tail(R) /\ R # <<>> /\ Words(L) = {}
    <3>1. Head(R) = L[i + 2] /\ Tail(R) = SubSeq(L, i + 3, len) /\ R # <<>>
      BY <1>1, <1>6, <1>9
    <3> QED
      BY <1>4, <1>8, <1>9, <3>1
  <2>2. bundles' \in Seq(Tokens)
    BY <1>6, <1>8, <1>9
  <2>3. RestTaken'
    BY <2>1 DEF RestTaken, R
  <2> QED
    BY <1>1, <1>2, <1>3, <1>7, <2>2, <2>3 DEF ParseInv
<1>10. CASE bundles = <<>> /\ ~(i + 2 <= len)
  <2>1. bundles' = <<>> /\ R = <<>> /\ Words(L) = {}
    BY <1>1, <1>4, <1>6, <1>8, <1>10
  <2>2. RestTaken'
    BY <2>1 DEF RestTaken, R
  <2> QED
    BY <1>1, <1>2, <1>3, <1>7, <1>8, <1>10, <2>2 DEF ParseInv
<1>11. CASE bundles # <<>>
  <2>1. bundles' = bundles /\ appArgs' = R /\ Words(L) # {} /\ ListOf(bundles, Words(L), L)
    BY <1>4, <1>5, <1>8, <1>11
  <2>2. RestTaken'
    BY <2>1 DEF RestTaken, R
  <2> QED
    BY <1>1, <1>2, <1>3, <1>7, <2>1, <2>2 DEF ParseInv
<1> QED
  BY <1>9, <1>10, <1>11

LEMMA StartRead ==
  ASSUME args \in Seq(Tokens), Nothing
  PROVE  ParseInv
<1>1. End(args) \in 1 .. Len(args) + 1 /\ Len(args) \in Nat
  BY EndIs
<1>2. FlagPlaces(args, 0) = {} /\ 0 \notin Openers(args)
  BY DEF FlagPlaces, Openers
<1>3. DOMAIN options = {}
  BY DEF Nothing
<1>4. \A n \in Mains(args) : n \in Nat /\ ~(n <= 0)
  BY MainPlaces
<1>5. 1 .. 0 = {}
  OBVIOUS
<1>6. ReadUpTo(0)
  BY <1>1, <1>2, <1>3, <1>4, <1>5 DEF ReadUpTo, Nothing
<1>7. ListOf(<<>>, WordsUpTo(args, 0), args)
  BY WordsBefore, FS_EmptySet, EmptySeq DEF ListOf
<1> QED
  BY <1>1, <1>6, <1>7, EmptySeq DEF ParseInv, Nothing

\* A turn of the loop that goes on.
LEMMA TurnKeepsParse ==
  ASSUME args \in Seq(Tokens), ParseInv, i < Len(args), args' = args,
         NEW p, p = i + 1, NEW arg, arg = args[p],
         \/ IsDashes(arg) /\ ParseDashes
         \/ ~IsDashes(arg) /\ key # None /\ ParseValue(arg)
         \/ /\ ~IsDashes(arg) /\ key = None /\ arg \in DOMAIN commands
            /\ commands[arg] \notin DOMAIN options /\ ParseFlag(commands[arg])
         \/ /\ ~IsDashes(arg) /\ key = None /\ arg \notin DOMAIN commands
            /\ arg \notin UnknownFlags /\ ParseBundle(arg)
  PROVE  ParseInv'
<1>1. /\ i \in Nat /\ i \in 0 .. Len(args) /\ bundles \in Seq(Tokens) /\ i < End(args)
      /\ ReadUpTo(i) /\ ListOf(bundles, WordsUpTo(args, i), args) /\ appArgs = <<>>
  BY LenProperties DEF ParseInv
<1>2. End(args) \in 1 .. Len(args) + 1 /\ Len(args) \in Nat
      /\ (End(args) <= Len(args) => args[End(args)] = "--")
  BY EndIs
<1>3. CASE IsDashes(arg) /\ ParseDashes
  BY <1>1, <1>3, DashesTaken DEF IsDashes
<1>4. ASSUME ~IsDashes(arg) PROVE i + 1 < End(args)
  BY <1>1, <1>2, <1>4 DEF IsDashes
<1>5. p \in 0 .. Len(args)
  BY <1>1, <1>2
<1>6. CASE ~IsDashes(arg) /\ key # None /\ ParseValue(arg)
  <2>1. ReadUpTo(p)' /\ WordsUpTo(args, p) = WordsUpTo(args, i)
    BY <1>1, <1>4, <1>6, ValueRead
  <2>2. i' = p /\ bundles' = bundles /\ appArgs' = appArgs
    BY <1>6 DEF ParseValue
  <2>3. ReadUpTo(i)' /\ i' < End(args)
    BY <1>4, <1>6, <2>1, <2>2 DEF ReadUpTo
  <2> QED
    BY <1>1, <1>5, <2>1, <2>2, <2>3 DEF ParseInv
<1>7. CASE /\ ~IsDashes(arg) /\ key = None /\ arg \in DOMAIN commands
           /\ commands[arg] \notin DOMAIN options /\ ParseFlag(commands[arg])
  <2>1. ReadUpTo(p)' /\ WordsUpTo(args, p) = WordsUpTo(args, i)
    BY <1>1, <1>4, <1>7, FlagRead
  <2>2. i' = p /\ bundles' = bundles /\ appArgs' = appArgs
    BY <1>7 DEF ParseFlag
  <2>3. ReadUpTo(i)' /\ i' < End(args)
    BY <1>4, <1>7, <2>1, <2>2 DEF ReadUpTo
  <2> QED
    BY <1>1, <1>5, <2>1, <2>2, <2>3 DEF ParseInv
<1>8. CASE /\ ~IsDashes(arg) /\ key = None /\ arg \notin DOMAIN commands
           /\ arg \notin UnknownFlags /\ ParseBundle(arg)
  <2>1. /\ ReadUpTo(p)' /\ p \in WordsUpTo(args, p)
        /\ WordsUpTo(args, p) = WordsUpTo(args, i) \cup {p}
    BY <1>1, <1>4, <1>8, BundleRead
  <2>2. i' = p /\ bundles' = Append(bundles, args[p]) /\ appArgs' = appArgs
    BY <1>8 DEF ParseBundle
  <2>3. ListOf(Append(bundles, args[p]), WordsUpTo(args, p), args)
    <3>1. Words(args) \in SUBSET Nat
      BY WordsBefore
    <3>2. p \in Words(args) /\ p <= Len(args)
      BY <1>5, <2>1 DEF WordsUpTo
    <3> QED
      BY <1>1, <3>1, <3>2, ListsOneMore DEF WordsUpTo
  <2>4. args[p] \in Tokens
    BY <1>1, <1>2, ElementOfSeq
  <2>5. bundles' \in Seq(Tokens)
    BY <1>1, <2>2, <2>4, AppendProperties
  <2>6. ReadUpTo(i)' /\ i' < End(args)
    BY <1>4, <1>8, <2>1, <2>2 DEF ReadUpTo
  <2> QED
    BY <1>1, <1>5, <2>1, <2>2, <2>3, <2>5, <2>6 DEF ParseInv
<1> QED
  BY <1>3, <1>6, <1>7, <1>8

\* When the line is read without an error, it is a good one.
LEMMA ReadIsGood ==
  ASSUME args \in Seq(Tokens), ReadUpTo(End(args) - 1), key = None
  PROVE  ~BadLine(args)
<1>1. End(args) \in 1 .. Len(args) + 1 /\ Len(args) \in Nat
  BY EndIs
<1>2. End(args) - 1 \notin Openers(args)
  <2>1. \A n \in Openers(args) : args[n] \in DOMAIN commands
    BY TableOfFlags DEF Openers
  <2> QED
    BY <2>1, TableOfFlags DEF ReadUpTo
<1>3. ASSUME NEW n \in (1 .. End(args) - 1) \ ValuePlaces(args),
             n = End(args) - 1, args[n] \in ValueFlags
      PROVE  FALSE
  BY <1>1, <1>2, <1>3 DEF Openers
<1> QED
  BY <1>3 DEF BadLine, ReadUpTo

LEMMA ReadIsTold ==
  ASSUME args \in Seq(Tokens), ParseInv, i = Len(args)
  PROVE  /\ ReadUpTo(End(args) - 1)
         /\ bundles # <<>> => Told([bundles |-> bundles, main |-> Main, args |-> appArgs], args)
<1>1. End(args) \in 1 .. Len(args) + 1 /\ Len(args) \in Nat
  BY EndIs
<1>2. bundles \in Seq(Tokens)
  BY DEF ParseInv
<1>3. /\ ReadUpTo(End(args) - 1)
      /\ Words(args) # {} =>
           ListOf(bundles, Words(args), args) /\ appArgs = Rest(args)
  <2>1. CASE /\ i < End(args) /\ ReadUpTo(i)
             /\ ListOf(bundles, WordsUpTo(args, i), args) /\ appArgs = <<>>
    <3>1. End(args) = i + 1 /\ End(args) - 1 = i
      BY <1>1, <2>1
    <3>2. WordsUpTo(args, i) = Words(args) /\ (bundles = <<>> <=> Words(args) = {})
      BY <1>1, <1>2, <2>1, <3>1, WordsBefore
    <3>3. Rest(args) = <<>>
      BY <1>1, <3>1, SubSeqEmpty DEF Rest
    <3> QED
      BY <2>1, <3>1, <3>2, <3>3
  <2>2. CASE /\ i = Len(args) /\ End(args) <= Len(args)
             /\ ReadUpTo(End(args) - 1) /\ RestTaken
    BY <2>2 DEF RestTaken
  <2> QED
    BY <2>1, <2>2 DEF ParseInv
<1>4. /\ \A n \in Mains(args) : Main = args[n]
      /\ Mains(args) = {} => Main = "main.lua"
  <2>1. ASSUME NEW n \in Mains(args) PROVE Main = args[n]
    <3>1. n <= End(args) - 1
      <4>1. n < End(args) /\ n \in Nat
        BY MainPlaces DEF Mains
      <4> QED
        BY <1>1, <4>1
    <3> QED
      BY <1>3, <3>1 DEF ReadUpTo, Main
  <2>2. ASSUME Mains(args) = {} PROVE Main = "main.lua"
    BY <1>3, <2>2 DEF ReadUpTo, Main
  <2> QED
    BY <2>1, <2>2
<1> QED
  BY <1>3, <1>4 DEF Told

\* Any error ends the program with the error code.
LEMMA ErrorKeeps ==
  ASSUME LaunchInv, LuaError, args' = args, exeZip' = exeZip, pc \notin {"app", "exit"}
  PROVE  LaunchInv'
<1>1. pc' = "exit" /\ exit' = -1 /\ ran' = NoRun /\ printed' = {}
  BY DEF LaunchInv, LuaError, ExitWith, ErrorCode
<1>2. RunsAsTold' /\ BadLineFails'
  BY <1>1 DEF RunsAsTold, BadLineFails
<1> QED
  BY <1>1, <1>2 DEF LaunchInv

LEMMA ParseArgKeeps ==
  ASSUME LaunchInv, ParseArg
  PROVE  LaunchInv'
<1> DEFINE arg == args[i + 1]
<1>1. /\ pc = "parse" /\ i < Len(args) /\ args' = args /\ exeZip' = exeZip
      /\ args \in Seq(Tokens) /\ ParseInv /\ ~exeZip
  BY DEF LaunchInv, ParseArg
<1>2. CASE LuaError
  BY <1>1, <1>2, ErrorKeeps
<1>3. CASE /\ Proceeds
           /\ \/ IsDashes(arg) /\ ParseDashes
              \/ ~IsDashes(arg) /\ key # None /\ ParseValue(arg)
              \/ /\ ~IsDashes(arg) /\ key = None /\ arg \in DOMAIN commands
                 /\ commands[arg] \notin DOMAIN options /\ ParseFlag(commands[arg])
              \/ /\ ~IsDashes(arg) /\ key = None /\ arg \notin DOMAIN commands
                 /\ arg \notin UnknownFlags /\ ParseBundle(arg)
  <2>1. ParseInv'
    BY <1>1, <1>3, TurnKeepsParse
  <2>2. /\ pc' = pc /\ ran' = ran /\ printed' = printed /\ exit' = exit
        /\ ran = NoRun /\ printed = {}
    BY <1>1, <1>3 DEF Proceeds, LaunchInv
  <2>3. RunsAsTold' /\ BadLineFails'
    BY <1>1, <2>2 DEF RunsAsTold, BadLineFails
  <2> QED
    BY <1>1, <2>1, <2>2, <2>3 DEF LaunchInv
<1> QED
  BY <1>2, <1>3 DEF ParseArg

LEMMA DispatchKeeps ==
  ASSUME LaunchInv, Dispatch
  PROVE  LaunchInv'
<1>1. /\ pc = "parse" /\ i = Len(args) /\ args' = args /\ exeZip' = exeZip
      /\ args \in Seq(Tokens) /\ exeZip \in BOOLEAN /\ ParseInv /\ ~exeZip
      /\ ran = NoRun /\ printed = {}
  BY DEF LaunchInv, Dispatch
<1>2. CASE LuaError
  BY <1>1, <1>2, ErrorKeeps
<1>3. CASE key = None /\ ~LuaError
  <2>1. ~BadLine(args)
    BY <1>1, <1>3, ReadIsTold, ReadIsGood
  <2>2. CASE \E pages : printed' = pages /\ ExitWith(0) /\ UNCHANGED <<parsed, ran>>
    <3>1. pc' = "exit" /\ ran' = NoRun
      BY <1>1, <2>2 DEF ExitWith
    <3>2. RunsAsTold' /\ BadLineFails'
      BY <1>1, <2>1, <3>1 DEF RunsAsTold, BadLineFails
    <3> QED
      BY <1>1, <3>1, <3>2 DEF LaunchInv
  <2>3. CASE /\ bundles # <<>>
             /\ pc' = IF "output" \in DOMAIN options THEN "build" ELSE "run"
             /\ UNCHANGED <<parsed, ran, printed, exit>>
    <3>1. Told([bundles |-> bundles, main |-> Main, args |-> appArgs], args)
      BY <1>1, <2>3, ReadIsTold
    <3>2. /\ bundles' = bundles /\ appArgs' = appArgs /\ options' = options
          /\ ran' = NoRun /\ printed' = {} /\ pc' \in {"build", "run"}
      BY <1>1, <2>3 DEF parsed
    <3>3. RunInv'
      BY <1>1, <3>1, <3>2 DEF RunInv, Main
    <3>4. RunsAsTold' /\ BadLineFails'
      BY <1>1, <2>1, <3>2 DEF RunsAsTold, BadLineFails
    <3> QED
      BY <1>1, <2>1, <3>2, <3>3, <3>4 DEF LaunchInv
  <2>4. \/ \E pages : printed' = pages /\ ExitWith(0) /\ UNCHANGED <<parsed, ran>>
        \/ /\ bundles # <<>>
           /\ pc' = IF "output" \in DOMAIN options THEN "build" ELSE "run"
           /\ UNCHANGED <<parsed, ran, printed, exit>>
    <3> DEFINE pages == IF bundles = <<>> /\ Asked = {} THEN {"version", "help"} ELSE Asked
    <3>1. pages = {} => bundles # <<>>
      OBVIOUS
    <3>2. \/ printed' = pages /\ ExitWith(0) /\ UNCHANGED <<parsed, ran>>
          \/ /\ pages = {}
             /\ pc' = IF "output" \in DOMAIN options THEN "build" ELSE "run"
             /\ UNCHANGED <<parsed, ran, printed, exit>>
      BY <1>3 DEF Dispatch
    <3> HIDE DEF pages
    <3> QED
      BY <3>1, <3>2
  <2> QED
    BY <2>2, <2>3, <2>4
<1> QED
  BY <1>2, <1>3 DEF Dispatch

LEMMA LaunchInitially == Init => LaunchInv
<1> SUFFICES ASSUME Init PROVE LaunchInv
  OBVIOUS
<1>1. args \in Seq(Tokens)
  BY BoundedSeqIsSeq, LaunchAssumption DEF Init
<1>2. pc = "main" /\ ran = NoRun /\ printed = {} /\ exeZip \in BOOLEAN /\ Nothing
  BY DEF Init, Nothing
<1>3. RunsAsTold /\ BadLineFails
  BY <1>2 DEF RunsAsTold, BadLineFails
<1> QED
  BY <1>1, <1>2, <1>3 DEF LaunchInv

LEMMA LaunchStep == LaunchInv /\ [Next]_vars => LaunchInv'
<1> SUFFICES ASSUME LaunchInv, [Next]_vars PROVE LaunchInv'
  OBVIOUS
<1>1. CASE StartLua
  <2>1. /\ pc = "main" /\ args' = args /\ exeZip' = exeZip /\ ran' = ran /\ printed' = printed
        /\ UNCHANGED parsed /\ ran = NoRun /\ printed = {}
        /\ (pc' = "exit" /\ exit' = 1) \/ pc' = "detect"
    BY <1>1 DEF StartLua, ExitWith, LaunchInv
  <2>2. RunsAsTold' /\ BadLineFails'
    BY <2>1 DEF RunsAsTold, BadLineFails
  <2>3. Nothing' /\ args \in Seq(Tokens) /\ exeZip \in BOOLEAN
    BY <2>1 DEF LaunchInv, Nothing, parsed
  <2> QED
    BY <2>1, <2>2, <2>3 DEF LaunchInv
<1>2. CASE DetectZip
  <2>1. /\ pc = "detect" /\ args' = args /\ exeZip' = exeZip /\ ran' = ran /\ printed' = printed
        /\ ran = NoRun /\ printed = {} /\ Nothing /\ args \in Seq(Tokens) /\ exeZip \in BOOLEAN
    BY <1>2 DEF DetectZip, LaunchInv
  <2>2. CASE exeZip
    <3>1. pc' = "run" /\ bundles' = <<"exe">> /\ appArgs' = args /\ options' = options
      BY <1>2, <2>2 DEF DetectZip, TakesOwnZip
    <3>2. RunInv'
      BY <2>1, <2>2, <3>1 DEF RunInv, Main, Nothing
    <3>3. RunsAsTold' /\ BadLineFails'
      BY <2>1, <2>2, <3>1 DEF RunsAsTold, BadLineFails
    <3> QED
      BY <2>1, <2>2, <3>1, <3>2, <3>3 DEF LaunchInv
  <2>3. CASE ~exeZip
    <3>1. pc' = "parse" /\ UNCHANGED parsed
      BY <1>2, <2>3 DEF DetectZip, TakesOwnZip
    <3>2. ParseInv
      BY <2>1, StartRead
    <3>3. ParseInv'
      BY <2>1, <3>1, <3>2 DEF ParseInv, ReadUpTo, RestTaken, parsed
    <3>4. RunsAsTold' /\ BadLineFails'
      BY <2>1, <2>3, <3>1 DEF RunsAsTold, BadLineFails
    <3> QED
      BY <2>1, <2>3, <3>1, <3>3, <3>4 DEF LaunchInv
  <2> QED
    BY <2>2, <2>3
<1>3. CASE ParseArg
  BY <1>3, ParseArgKeeps
<1>4. CASE Dispatch
  BY <1>4, DispatchKeeps
<1>5. CASE Build
  <2>1. /\ pc = "build" /\ args' = args /\ exeZip' = exeZip /\ ~exeZip /\ ~BadLine(args)
        /\ ran = NoRun /\ args \in Seq(Tokens) /\ exeZip \in BOOLEAN
    BY <1>5 DEF Build, LaunchInv
  <2>2. pc' = "exit" /\ ran' = NoRun
    BY <1>5, <2>1 DEF Build, ExitWith, LuaError
  <2>3. RunsAsTold' /\ BadLineFails'
    BY <2>1, <2>2 DEF RunsAsTold, BadLineFails
  <2> QED
    BY <2>1, <2>2, <2>3 DEF LaunchInv
<1>6. CASE FindMain
  <2>1. /\ pc = "run" /\ args' = args /\ exeZip' = exeZip /\ (~exeZip => ~BadLine(args))
        /\ ran = NoRun /\ printed = {} /\ RunInv /\ args \in Seq(Tokens) /\ exeZip \in BOOLEAN
    BY <1>6 DEF FindMain, LaunchInv
  <2>2. CASE LuaError
    BY <2>1, <2>2, ErrorKeeps
  <2>3. CASE /\ ran' = [bundles |-> bundles, main |-> Main, args |-> appArgs]
             /\ pc' = "app" /\ UNCHANGED <<parsed, printed, exit>>
    <3>1. IF exeZip THEN ran' = OwnRun ELSE Told(ran', args)
      BY <2>1, <2>3 DEF RunInv, OwnRun
    <3>2. RunsAsTold'
      BY <2>1, <3>1 DEF RunsAsTold, OwnRun
    <3>3. BadLineFails'
      BY <2>1 DEF BadLineFails
    <3>4. printed' = {} /\ OwnRun' = OwnRun
      BY <2>1, <2>3 DEF OwnRun
    <3> QED
      BY <2>1, <2>3, <3>1, <3>2, <3>3, <3>4 DEF LaunchInv
  <2> QED
    BY <1>6, <2>2, <2>3 DEF FindMain
<1>7. CASE AppEnds
  <2>1. /\ pc = "app" /\ args' = args /\ exeZip' = exeZip /\ (~exeZip => ~BadLine(args))
        /\ (IF exeZip THEN ran = OwnRun ELSE Told(ran, args))
        /\ args \in Seq(Tokens) /\ exeZip \in BOOLEAN
    BY <1>7 DEF AppEnds, LaunchInv
  <2>2. pc' = "exit" /\ ran' = ran
    BY <1>7 DEF AppEnds, ExitWith, LuaError
  <2>3. RunsAsTold' /\ BadLineFails'
    BY <2>1, <2>2 DEF RunsAsTold, BadLineFails, OwnRun
  <2> QED
    BY <2>1, <2>2, <2>3 DEF LaunchInv
<1>8. CASE UNCHANGED vars
  BY <1>8 DEF vars, LaunchInv, Nothing, ParseInv, ReadUpTo, RestTaken, RunInv, Main, OwnRun,
              RunsAsTold, BadLineFails
<1> QED
  BY <1>1, <1>2, <1>3, <1>4, <1>5, <1>6, <1>7, <1>8 DEF Next

(* What runs is what the command line says (init.lua:114-171,              *)
(* luvibundle.lua:304-364), however long it is.                            *)
THEOREM RunsAsToldAlways == Spec => []RunsAsTold
<1>1. LaunchInv => RunsAsTold
  BY DEF LaunchInv
<1> QED
  BY <1>1, LaunchInitially, LaunchStep, PTL DEF Spec

(* A bad line runs and builds nothing, and ends in an error                *)
(* (init.lua:131-150, main.c:165-188).                                     *)
THEOREM BadLineAlwaysFails == Spec => []BadLineFails
<1>1. LaunchInv => BadLineFails
  BY DEF LaunchInv
<1> QED
  BY <1>1, LaunchInitially, LaunchStep, PTL DEF Spec
=============================================================================
