---------------------------- MODULE BundleProofs ----------------------------
(* Paths, bundles and builds, for any paths, trees of any depth, folders   *)
(* of any number, builds with any flags and changes to the folders at any  *)
(* time.  First what pathJoin makes of its paths: the reverse evaluation   *)
(* of the code is a walk from the front, by induction on sequences in the  *)
(* form of a set that is closed under Append or under one more element at  *)
(* the front.  Then what a bundle of folders answers, and what buildBundle *)
(* packs: the folders are trees all the while, and the walk of copyFolder  *)
(* over them leaves the entries in an order a listing can be read from,    *)
(* whatever it meets.                                                      *)
EXTENDS BuildBundle, PathCalls, SequenceFacts, FiniteSetTheorems, TLAPS

-----------------------------------------------------------------------------
(* The recursive functions are what their definitions say.                 *)

LEMMA ScanDef ==
  ASSUME NEW parts \in Seq(Parts)
  PROVE  Scan(parts) =
           [n \in 0 .. Len(parts) |->
              IF n = 0 THEN [kept |-> <<>>, skip |-> 0]
              ELSE Visit(parts[Len(parts) - n + 1], Scan(parts)[n - 1])]
<1> DEFINE D(m, f) == f = [n \in 0 .. m |->
              IF n = 0 THEN [kept |-> <<>>, skip |-> 0]
              ELSE Visit(parts[Len(parts) - n + 1], f[n - 1])]
           S == {m \in Nat : \E f : D(m, f)}
<1>1. D(0, [n \in 0 .. 0 |-> [kept |-> <<>>, skip |-> 0]])
  OBVIOUS
<1>2. ASSUME NEW m \in Nat, NEW f, D(m, f) PROVE \E g : D(m + 1, g)
  <2> DEFINE g == [n \in 0 .. m + 1 |->
                     IF n = m + 1 THEN Visit(parts[Len(parts) - m], f[m]) ELSE f[n]]
  <2>1. D(m + 1, g)
    BY <1>2
  <2> QED
    BY <2>1
<1>3. Nat \subseteq S
  <2>1. 0 \in S
    BY <1>1
  <2>2. ASSUME NEW m \in Nat, m \in S PROVE m + 1 \in S
    <3>1. PICK f : D(m, f)
      BY <2>2
    <3>2. \E g : D(m + 1, g)
      BY <1>2, <3>1
    <3> HIDE DEF D
    <3> QED
      BY <3>2
  <2> HIDE DEF S
  <2> QED
    BY <2>1, <2>2, NatSetInduction
<1>4. \E f : D(Len(parts), f)
  <2> HIDE DEF D
  <2> QED
    BY <1>3, LenProperties
<1> QED
  BY <1>4 DEF Scan

LEMMA StepsDef ==
  ASSUME NEW parts \in Seq(Parts), NEW from
  PROVE  Steps(from, parts) =
           [n \in 0 .. Len(parts) |->
              IF n = 0 THEN from ELSE Enter(Steps(from, parts)[n - 1], parts[n])]
<1> DEFINE D(m, f) == f = [n \in 0 .. m |->
                             IF n = 0 THEN from ELSE Enter(f[n - 1], parts[n])]
           S == {m \in Nat : \E f : D(m, f)}
<1>1. D(0, [n \in 0 .. 0 |-> from])
  OBVIOUS
<1>2. ASSUME NEW m \in Nat, NEW f, D(m, f) PROVE \E g : D(m + 1, g)
  <2> DEFINE g == [n \in 0 .. m + 1 |->
                     IF n = m + 1 THEN Enter(f[m], parts[m + 1]) ELSE f[n]]
  <2>1. D(m + 1, g)
    BY <1>2
  <2> QED
    BY <2>1
<1>3. Nat \subseteq S
  <2>1. 0 \in S
    BY <1>1
  <2>2. ASSUME NEW m \in Nat, m \in S PROVE m + 1 \in S
    <3>1. PICK f : D(m, f)
      BY <2>2
    <3>2. \E g : D(m + 1, g)
      BY <1>2, <3>1
    <3> HIDE DEF D
    <3> QED
      BY <3>2
  <2> HIDE DEF S
  <2> QED
    BY <2>1, <2>2, NatSetInduction
<1>4. \E f : D(Len(parts), f)
  <2> HIDE DEF D
  <2> QED
    BY <1>3, LenProperties
<1> QED
  BY <1>4 DEF Steps

-----------------------------------------------------------------------------
(* A walk, one part at a time, at the end and at the front.                *)

LEMMA WalkNowhere == \A from : Walk(from, <<>>) = from
<1> TAKE from
<1> DEFINE s == <<>>
<1>1. s \in Seq(Parts) /\ Len(s) = 0
  BY EmptySeq
<1> HIDE DEF s
<1>2. Steps(from, s) = [n \in 0 .. Len(s) |->
                          IF n = 0 THEN from ELSE Enter(Steps(from, s)[n - 1], s[n])]
  BY <1>1, StepsDef
<1>3. Steps(from, s)[Len(s)] = from
  BY <1>1, <1>2
<1> QED
  BY <1>3 DEF Walk, s

LEMMA WalkAppend ==
  ASSUME NEW s \in Seq(Parts), NEW part \in Parts, NEW from
  PROVE  Walk(from, Append(s, part)) = Enter(Walk(from, s), part)
<1> DEFINE t == Append(s, part)
           f == Steps(from, s)
           g == Steps(from, t)
<1>1. /\ t \in Seq(Parts) /\ Len(s) \in Nat /\ Len(t) = Len(s) + 1
      /\ t[Len(s) + 1] = part /\ \A n \in 1 .. Len(s) : t[n] = s[n]
  BY AppendProperties, LenProperties
<1>2. /\ f = [n \in 0 .. Len(s) |-> IF n = 0 THEN from ELSE Enter(f[n - 1], s[n])]
      /\ g = [n \in 0 .. Len(t) |-> IF n = 0 THEN from ELSE Enter(g[n - 1], t[n])]
  BY <1>1, StepsDef
<1> HIDE DEF f, g, t
<1> DEFINE S == {n \in Nat : n <= Len(s) => g[n] = f[n]}
<1>3. 0 \in S
  BY <1>1, <1>2
<1>4. ASSUME NEW n \in Nat, n \in S PROVE n + 1 \in S
  <2> SUFFICES ASSUME n + 1 <= Len(s) PROVE g[n + 1] = f[n + 1]
    OBVIOUS
  <2>1. g[n] = f[n] /\ t[n + 1] = s[n + 1]
    BY <1>1, <1>4
  <2> QED
    BY <1>1, <1>2, <2>1
<1>5. g[Len(s)] = f[Len(s)]
  <2> HIDE DEF S
  <2>1. Nat \subseteq S
    BY <1>3, <1>4, NatSetInduction
  <2> QED
    BY <1>1, <2>1 DEF S
<1>6. g[Len(t)] = Enter(g[Len(s)], part)
  BY <1>1, <1>2
<1> QED
  BY <1>5, <1>6 DEF Walk, f, g, t

LEMMA WalkCons ==
  ASSUME NEW s \in Seq(Parts), NEW part \in Parts, NEW from
  PROVE  Walk(from, <<part>> \o s) = Walk(Enter(from, part), s)
<1> DEFINE t == <<part>> \o s
           f == Steps(Enter(from, part), s)
           g == Steps(from, t)
<1>1. /\ t \in Seq(Parts) /\ Len(s) \in Nat /\ Len(t) = Len(s) + 1
      /\ t[1] = part /\ \A n \in 1 .. Len(s) : t[n + 1] = s[n]
  <2>1. <<part>> \in Seq(Parts) /\ Len(<<part>>) = 1 /\ Len(s) \in Nat
    BY LenProperties
  <2> QED
    BY <2>1, ConcatProperties
<1>2. /\ f = [n \in 0 .. Len(s) |->
                IF n = 0 THEN Enter(from, part) ELSE Enter(f[n - 1], s[n])]
      /\ g = [n \in 0 .. Len(t) |-> IF n = 0 THEN from ELSE Enter(g[n - 1], t[n])]
  BY <1>1, StepsDef
<1> HIDE DEF f, g, t
<1> DEFINE S == {n \in Nat : n <= Len(s) => g[n + 1] = f[n]}
<1>3. 0 \in S
  BY <1>1, <1>2
<1>4. ASSUME NEW n \in Nat, n \in S PROVE n + 1 \in S
  <2> SUFFICES ASSUME n + 1 <= Len(s) PROVE g[n + 2] = f[n + 1]
    OBVIOUS
  <2>1. g[n + 1] = f[n] /\ t[n + 2] = s[n + 1]
    BY <1>1, <1>4
  <2> QED
    BY <1>1, <1>2, <2>1
<1>5. g[Len(t)] = f[Len(s)]
  <2> HIDE DEF S
  <2>1. Nat \subseteq S
    BY <1>3, <1>4, NatSetInduction
  <2> QED
    BY <1>1, <2>1 DEF S
<1> QED
  BY <1>5 DEF Walk, f, g, t

-----------------------------------------------------------------------------
(* The walk of several parts.                                              *)

(* The parts of a directory are names.                                     *)
LEMMA EnterType ==
  ASSUME NEW dir \in Seq(Names), NEW part \in Parts
  PROVE  Enter(dir, part) \in Seq(Names)
<1>1. CASE part = "."
  BY <1>1 DEF Enter
<1>2. CASE part = ".."
  <2>1. CASE dir = <<>>
    BY <1>2, <2>1 DEF Enter
  <2>2. CASE dir # <<>>
    <3>1. Len(dir) \in Nat \ {0} /\ \A i \in 1 .. Len(dir) : dir[i] \in Names
      BY <2>2, EmptySeq, ElementOfSeq
    <3>2. SubSeq(dir, 1, Len(dir) - 1) \in Seq(Names)
      BY <3>1, SubSeqProperties
    <3> QED
      BY <1>2, <2>2, <3>2 DEF Enter, Front
  <2> QED
    BY <2>1, <2>2
<1>3. CASE part \in Names
  <2>1. part # "." /\ part # ".."
    BY <1>3, NamesAreNoDots
  <2> QED
    BY <1>3, <2>1, AppendProperties DEF Enter
<1> QED
  BY <1>1, <1>2, <1>3 DEF Parts

LEMMA WalkType ==
  ASSUME NEW from \in Seq(Names), NEW s \in Seq(Parts)
  PROVE  Walk(from, s) \in Seq(Names)
<1> DEFINE T == {p \in Seq(Parts) : Walk(from, p) \in Seq(Names)}
<1>1. <<>> \in T
  BY EmptySeq, WalkNowhere
<1>2. \A p \in Seq(Parts), part \in Parts : p \in T => Append(p, part) \in T
  BY AppendProperties, WalkAppend, EnterType
<1> QED
  <2> HIDE DEF T
  <2>1. Seq(Parts) \subseteq T
    BY <1>1, <1>2, AppendInduction
  <2> QED
    BY <2>1 DEF T

(* A walk may stop anywhere and go on from there.                          *)
LEMMA WalkConcat ==
  ASSUME NEW from, NEW s \in Seq(Parts), NEW t \in Seq(Parts)
  PROVE  Walk(from, s \o t) = Walk(Walk(from, s), t)
<1> DEFINE T == {p \in Seq(Parts) : Walk(from, s \o p) = Walk(Walk(from, s), p)}
<1>1. <<>> \in T
  BY EmptySeq, WalkNowhere, ConcatEmptySeq
<1>2. ASSUME NEW p \in Seq(Parts), NEW part \in Parts, p \in T
      PROVE  Append(p, part) \in T
  <2>1. s \o Append(p, part) = Append(s \o p, part)
    BY ConcatAppend
  <2>2. s \o p \in Seq(Parts) /\ Append(p, part) \in Seq(Parts)
    BY ConcatProperties, AppendProperties
  <2>3. Walk(from, Append(s \o p, part)) = Enter(Walk(from, s \o p), part)
    BY <2>2, WalkAppend
  <2>4. Walk(Walk(from, s), Append(p, part)) = Enter(Walk(Walk(from, s), p), part)
    BY WalkAppend
  <2> QED
    BY <1>2, <2>1, <2>2, <2>3, <2>4
<1> QED
  <2> HIDE DEF T
  <2>1. Seq(Parts) \subseteq T
    BY <1>1, <1>2, AppendInduction
  <2> QED
    BY <2>1 DEF T

(* Names lead down.                                                        *)
LEMMA WalkDown ==
  ASSUME NEW from \in Seq(Names), NEW names \in Seq(Names)
  PROVE  Walk(from, names) = from \o names
<1> DEFINE T == {p \in Seq(Names) : Walk(from, p) = from \o p}
<1>1. <<>> \in T
  BY EmptySeq, WalkNowhere, ConcatEmptySeq
<1>2. ASSUME NEW p \in Seq(Names), NEW name \in Names, p \in T
      PROVE  Append(p, name) \in T
  <2>1. p \in Seq(Parts) /\ name \in Parts /\ name # "." /\ name # ".."
    BY SeqMonotonic, NamesAreNoDots DEF Parts
  <2>2. Walk(from, Append(p, name)) = Enter(Walk(from, p), name)
    BY <2>1, WalkAppend
  <2>3. Enter(Walk(from, p), name) = Append(from \o p, name)
    BY <1>2, <2>1 DEF Enter
  <2>4. from \o Append(p, name) = Append(from \o p, name)
    BY ConcatAppend
  <2>5. Append(p, name) \in Seq(Names)
    BY AppendProperties
  <2> QED
    BY <2>2, <2>3, <2>4, <2>5
<1> QED
  <2> HIDE DEF T
  <2>1. Seq(Names) \subseteq T
    BY <1>1, <1>2, AppendInduction
  <2> QED
    BY <2>1 DEF T

-----------------------------------------------------------------------------
(* The reverse evaluation is a walk from the front.                        *)

(* What is left when all parts were visited.                               *)
Seen(parts) == Scan(parts)[Len(parts)]

(* A directory without its last k names, the root when it has no more.     *)
Without(dir, k) == SubSeq(dir, 1, Len(dir) - k)

LEMMA SeenNothing == Seen(<<>>) = [kept |-> <<>>, skip |-> 0]
<1> DEFINE s == <<>>
           z == [kept |-> <<>>, skip |-> 0]
<1>1. s \in Seq(Parts) /\ Len(s) = 0
  BY EmptySeq
<1> HIDE DEF s, z
<1>2. Scan(s) = [n \in 0 .. Len(s) |->
                   IF n = 0 THEN z ELSE Visit(s[Len(s) - n + 1], Scan(s)[n - 1])]
  BY <1>1, ScanDef DEF z
<1>3. Scan(s)[Len(s)] = z
  BY <1>1, <1>2
<1> QED
  BY <1>3 DEF Seen, s, z

LEMMA SeenCons ==
  ASSUME NEW s \in Seq(Parts), NEW part \in Parts
  PROVE  Seen(<<part>> \o s) = Visit(part, Seen(s))
<1> DEFINE t == <<part>> \o s
           z == [kept |-> <<>>, skip |-> 0]
           f == Scan(s)
           g == Scan(t)
<1>1. /\ t \in Seq(Parts) /\ Len(s) \in Nat /\ Len(t) = Len(s) + 1
      /\ t[1] = part /\ \A n \in 1 .. Len(s) : t[n + 1] = s[n]
  <2>1. <<part>> \in Seq(Parts) /\ Len(<<part>>) = 1 /\ Len(s) \in Nat
    BY LenProperties
  <2> QED
    BY <2>1, ConcatProperties
<1>2. /\ f = [n \in 0 .. Len(s) |->
                IF n = 0 THEN z ELSE Visit(s[Len(s) - n + 1], f[n - 1])]
      /\ g = [n \in 0 .. Len(t) |->
                IF n = 0 THEN z ELSE Visit(t[Len(t) - n + 1], g[n - 1])]
  BY <1>1, ScanDef
<1> HIDE DEF f, g, t, z
<1> DEFINE S == {n \in Nat : n <= Len(s) => g[n] = f[n]}
<1>3. 0 \in S
  BY <1>1, <1>2
<1>4. ASSUME NEW n \in Nat, n \in S PROVE n + 1 \in S
  <2> SUFFICES ASSUME n + 1 <= Len(s) PROVE g[n + 1] = f[n + 1]
    OBVIOUS
  <2>1. PICK i : /\ i = n + 1 /\ i \in 0 .. Len(s) /\ i \in 0 .. Len(t)
                 /\ i # 0 /\ i - 1 = n
    BY <1>1
  <2>2. g[n] = f[n] /\ t[Len(t) - i + 1] = s[Len(s) - i + 1]
    <3>1. PICK l \in Nat : l = Len(s) /\ Len(t) = l + 1 /\ i >= 1 /\ i <= l
      BY <1>1, <2>1
    <3>2. l - i + 1 \in 1 .. l /\ l - i + 1 + 1 = l + 1 - i + 1
      BY <2>1, <3>1
    <3>3. t[l - i + 1 + 1] = s[l - i + 1]
      BY <1>1, <3>1, <3>2
    <3>4. g[n] = f[n]
      BY <1>4, <2>1, <3>1
    <3>5. t[l + 1 - i + 1] = s[l - i + 1]
      BY <3>2, <3>3, Zenon
    <3>6. t[Len(t) - i + 1] = t[l + 1 - i + 1] /\ s[Len(s) - i + 1] = s[l - i + 1]
      BY <1>1, <2>1, <3>1
    <3> QED
      BY <3>4, <3>5, <3>6
  <2>3. f[i] = Visit(s[Len(s) - i + 1], f[i - 1])
    BY <1>2, <2>1
  <2>4. g[i] = Visit(t[Len(t) - i + 1], g[i - 1])
    BY <1>2, <2>1
  <2> QED
    BY <2>1, <2>2, <2>3, <2>4
<1>5. g[Len(s)] = f[Len(s)]
  <2> HIDE DEF S
  <2>1. Nat \subseteq S
    BY <1>3, <1>4, NatSetInduction
  <2> QED
    BY <1>1, <2>1 DEF S
<1>6. g[Len(t)] = Visit(t[1], g[Len(s)])
  <2>1. Len(t) \in 0 .. Len(t) /\ Len(t) # 0 /\ Len(t) - Len(t) + 1 = 1 /\ Len(t) - 1 = Len(s)
    BY <1>1
  <2> QED
    BY <1>2, <2>1
<1> QED
  BY <1>1, <1>5, <1>6 DEF Seen, f, g, t

(* ".." leaves one name more, a name that is skipped makes up for one.     *)
LEMMA WithoutProperties ==
  ASSUME NEW dir \in Seq(Names), NEW k \in Nat
  PROVE  /\ Without(dir, k) \in Seq(Names)
         /\ Without(dir, 0) = dir
         /\ Without(<<>>, k) = <<>>
         /\ Without(Enter(dir, ".."), k) = Without(dir, k + 1)
         /\ \A name \in Names : Without(Append(dir, name), k + 1) = Without(dir, k)
<1>1. /\ Len(dir) \in Nat /\ \A i \in 1 .. Len(dir) : dir[i] \in Names
      /\ Len(<<>>) = 0
  BY LenProperties, ElementOfSeq, EmptySeq
<1>2. Without(dir, k) \in Seq(Names)
  BY <1>1, SubSeqProperties DEF Without
<1>3. Without(dir, 0) = dir
  BY <1>1, SubSeqFull DEF Without
<1>4. Without(<<>>, k) = <<>>
  <2>1. Len(<<>>) - k \in Int /\ Len(<<>>) - k < 1
    BY <1>1
  <2> QED
    BY <2>1, SubSeqEmpty DEF Without
<1>5. Without(Enter(dir, ".."), k) = Without(dir, k + 1)
  <2>1. CASE dir = <<>>
    <3>1. Enter(dir, "..") = <<>> /\ Len(dir) - (k + 1) \in Int /\ Len(dir) - (k + 1) < 1
      BY <1>1, <2>1 DEF Enter
    <3> QED
      BY <1>4, <2>1, <3>1, SubSeqEmpty DEF Without
  <2>2. CASE dir # <<>>
    <3> DEFINE up == SubSeq(dir, 1, Len(dir) - 1)
    <3>1. Len(dir) \in Nat \ {0} /\ Enter(dir, "..") = up
      BY <2>2, EmptySeq DEF Enter, Front
    <3>2. /\ Len(up) = Len(dir) - 1
          /\ \A i \in 1 .. Len(dir) - 1 : up[i] = dir[i]
          /\ up \in Seq(Names)
      <4>1. \A i \in 1 .. Len(dir) - 1 : dir[i] \in Names
        BY <1>1
      <4>2. /\ up \in Seq(Names)
            /\ Len(up) = IF 1 <= Len(dir) - 1 THEN Len(dir) - 1 - 1 + 1 ELSE 0
            /\ \A i \in 1 .. Len(dir) - 1 - 1 + 1 : up[i] = dir[1 + i - 1]
        BY <1>1, <4>1, SubSeqProperties
      <4> HIDE DEF up
      <4>3. Len(up) = Len(dir) - 1
        <5>1. PICK n \in Nat : n = Len(dir) /\ n # 0
          BY <3>1
        <5>2. n - 1 = IF 1 <= n - 1 THEN n - 1 - 1 + 1 ELSE 0
          BY <5>1
        <5> QED
          BY <4>2, <5>1, <5>2
      <4>4. ASSUME NEW i \in 1 .. Len(dir) - 1 PROVE up[i] = dir[i]
        <5>1. i \in 1 .. Len(dir) - 1 - 1 + 1 /\ 1 + i - 1 = i
          BY <3>1
        <5> QED
          BY <4>2, <5>1
      <4> QED
        BY <4>2, <4>3, <4>4
    <3> HIDE DEF up
    <3> DEFINE a == SubSeq(up, 1, Len(up) - k)
               b == SubSeq(dir, 1, Len(dir) - (k + 1))
    <3>3. CASE Len(dir) - (k + 1) < 1
      <4>1. a = <<>> /\ b = <<>>
        BY <1>1, <3>2, <3>3, SubSeqEmpty
      <4> QED
        BY <3>1, <4>1 DEF Without
    <3>4. CASE Len(dir) - (k + 1) >= 1
      <4>1. /\ a \in Seq(Names) /\ Len(a) = Len(dir) - (k + 1)
            /\ \A i \in 1 .. Len(a) : a[i] = dir[i]
        BY <1>1, <3>2, <3>4, SubSeqProperties
      <4>2. /\ b \in Seq(Names) /\ Len(b) = Len(dir) - (k + 1)
            /\ \A i \in 1 .. Len(b) : b[i] = dir[i]
        BY <1>1, <3>4, SubSeqProperties
      <4>3. a = b
        <5> HIDE DEF a, b
        <5>1. Len(a) = Len(b) /\ \A i \in 1 .. Len(a) : a[i] = b[i]
          BY <4>1, <4>2
        <5> QED
          BY <4>1, <4>2, <5>1, SeqEqual
      <4> QED
        BY <3>1, <4>3 DEF Without
    <3> QED
      BY <1>1, <3>3, <3>4
  <2> QED
    BY <2>1, <2>2
<1>6. ASSUME NEW name \in Names PROVE Without(Append(dir, name), k + 1) = Without(dir, k)
  <2> DEFINE more == Append(dir, name)
             a == SubSeq(more, 1, Len(more) - (k + 1))
             b == SubSeq(dir, 1, Len(dir) - k)
  <2>1. /\ more \in Seq(Names) /\ Len(more) = Len(dir) + 1
        /\ \A i \in 1 .. Len(dir) : more[i] = dir[i]
    BY AppendProperties
  <2> HIDE DEF more
  <2>2. CASE Len(dir) - k < 1
    <3>1. a = <<>> /\ b = <<>>
      BY <1>1, <2>1, <2>2, SubSeqEmpty
    <3> QED
      BY <3>1 DEF Without, more
  <2>3. CASE Len(dir) - k >= 1
    <3>1. /\ a \in Seq(Names) /\ Len(a) = Len(dir) - k
          /\ \A i \in 1 .. Len(a) : a[i] = dir[i]
      BY <1>1, <2>1, <2>3, SubSeqProperties
    <3>2. /\ b \in Seq(Names) /\ Len(b) = Len(dir) - k
          /\ \A i \in 1 .. Len(b) : b[i] = dir[i]
      BY <1>1, <2>3, SubSeqProperties
    <3>3. a = b
      <4> HIDE DEF a, b
      <4>1. Len(a) = Len(b) /\ \A i \in 1 .. Len(a) : a[i] = b[i]
        BY <3>1, <3>2
      <4> QED
        BY <3>1, <3>2, <4>1, SeqEqual
    <3> QED
      BY <3>3 DEF Without, more
  <2> QED
    BY <1>1, <2>2, <2>3
<1> QED
  BY <1>2, <1>3, <1>4, <1>5, <1>6

(* Visiting the parts from the last to the first says what a walk does to  *)
(* any directory: it leaves so many names and enters those that were kept. *)
LEMMA ReverseIsWalk ==
  ASSUME NEW parts \in Seq(Parts)
  PROVE  /\ Seen(parts) \in [kept : Seq(Names), skip : Nat]
         /\ \A from \in Seq(Names) :
              Walk(from, parts) = Without(from, Seen(parts).skip) \o Seen(parts).kept
<1> DEFINE T == {p \in Seq(Parts) :
                   /\ Seen(p) \in [kept : Seq(Names), skip : Nat]
                   /\ \A from \in Seq(Names) :
                        Walk(from, p) = Without(from, Seen(p).skip) \o Seen(p).kept}
<1>1. <<>> \in T
  <2>1. <<>> \in Seq(Parts) /\ Seen(<<>>) = [kept |-> <<>>, skip |-> 0] /\ <<>> \in Seq(Names)
    BY SeenNothing, EmptySeq
  <2>2. ASSUME NEW from \in Seq(Names)
        PROVE  Walk(from, <<>>) = Without(from, 0) \o <<>>
    BY WalkNowhere, WithoutProperties, ConcatEmptySeq
  <2>3. /\ Seen(<<>>) \in [kept : Seq(Names), skip : Nat]
        /\ Seen(<<>>).skip = 0 /\ Seen(<<>>).kept = <<>>
    <3> DEFINE root == <<>>
    <3>1. root \in Seq(Names) /\ Seen(root) = [kept |-> root, skip |-> 0]
      BY <2>1
    <3> HIDE DEF root
    <3>2. /\ Seen(root) \in [kept : Seq(Names), skip : Nat]
          /\ Seen(root).skip = 0 /\ Seen(root).kept = root
      BY <3>1
    <3> QED
      BY <3>2 DEF root
  <2> QED
    BY <2>1, <2>2, <2>3
<1>2. ASSUME NEW p \in Seq(Parts), NEW part \in Parts, p \in T
      PROVE  <<part>> \o p \in T
  <2> DEFINE e == Seen(p)
             v == Seen(<<part>> \o p)
  <2>1. e \in [kept : Seq(Names), skip : Nat] /\ e.kept \in Seq(Names) /\ e.skip \in Nat
    BY <1>2
  <2>2. \A from \in Seq(Names) : Walk(from, p) = Without(from, e.skip) \o e.kept
    BY <1>2
  <2>3. v = Visit(part, e)
    BY SeenCons
  <2>4. <<part>> \o p \in Seq(Parts)
    BY ConcatProperties
  <2>5. ASSUME NEW from \in Seq(Names)
        PROVE  /\ Enter(from, part) \in Seq(Names)
               /\ Walk(from, <<part>> \o p) = Without(Enter(from, part), e.skip) \o e.kept
    BY <2>2, WalkCons, EnterType
  <2> HIDE DEF e, v
  <2> SUFFICES /\ v \in [kept : Seq(Names), skip : Nat]
               /\ \A from \in Seq(Names) :
                    Without(Enter(from, part), e.skip) \o e.kept
                      = Without(from, v.skip) \o v.kept
    BY <2>4, <2>5 DEF v
  <2>6. CASE part = "."
    <3>1. v = e /\ \A from : Enter(from, part) = from
      BY <2>3, <2>6, NamesAreNoDots DEF Visit, Enter
    <3> QED
      BY <2>1, <3>1
  <2>7. CASE part = ".."
    <3>1. v = [e EXCEPT !.skip = @ + 1]
      BY <2>3, <2>7, NamesAreNoDots DEF Visit
    <3>2. v \in [kept : Seq(Names), skip : Nat] /\ v.skip = e.skip + 1 /\ v.kept = e.kept
      BY <2>1, <3>1
    <3>3. \A from \in Seq(Names) :
             Without(Enter(from, ".."), e.skip) = Without(from, e.skip + 1)
      BY <2>1, WithoutProperties
    <3> QED
      BY <2>7, <3>2, <3>3
  <2>8. CASE part \in Names /\ e.skip > 0
    <3>1. part # "." /\ part # ".."
      BY <2>8, NamesAreNoDots
    <3>2. v = [e EXCEPT !.skip = @ - 1] /\ \A from : Enter(from, part) = Append(from, part)
      BY <2>3, <2>8, <3>1 DEF Visit, Enter
    <3>3. /\ v \in [kept : Seq(Names), skip : Nat] /\ v.skip \in Nat
          /\ e.skip = v.skip + 1 /\ v.kept = e.kept
      <4>1. e.skip - 1 \in Nat /\ e.skip = (e.skip - 1) + 1
        BY <2>1, <2>8
      <4>2. v = [e EXCEPT !.skip = e.skip - 1]
        BY <3>2
      <4>3. v \in [kept : Seq(Names), skip : Nat] /\ v.skip = e.skip - 1 /\ v.kept = e.kept
        BY <2>1, <4>1, <4>2
      <4> QED
        BY <4>1, <4>3
    <3>4. \A from \in Seq(Names) :
             Without(Append(from, part), v.skip + 1) = Without(from, v.skip)
      BY <2>8, <3>3, WithoutProperties
    <3> QED
      BY <3>2, <3>3, <3>4
  <2>9. CASE part \in Names /\ e.skip = 0
    <3>1. part # "." /\ part # ".." /\ ~(e.skip > 0)
      BY <2>9, NamesAreNoDots
    <3>2. v = [e EXCEPT !.kept = <<part>> \o @] /\ \A from : Enter(from, part) = Append(from, part)
      BY <2>3, <2>9, <3>1 DEF Visit, Enter
    <3>3. <<part>> \in Seq(Names) /\ <<part>> \o e.kept \in Seq(Names)
      BY <2>1, <2>9, ConcatProperties
    <3>4. v \in [kept : Seq(Names), skip : Nat] /\ v.skip = 0 /\ v.kept = <<part>> \o e.kept
      BY <2>1, <2>9, <3>2, <3>3
    <3>5. ASSUME NEW from \in Seq(Names)
          PROVE  Without(Append(from, part), 0) \o e.kept
                   = Without(from, 0) \o (<<part>> \o e.kept)
      <4>1. Append(from, part) \in Seq(Names) /\ Append(from, part) = from \o <<part>>
        BY <2>9, AppendProperties, AppendIsConcat
      <4>2. Without(Append(from, part), 0) = from \o <<part>> /\ Without(from, 0) = from
        BY <4>1, WithoutProperties
      <4>3. (from \o <<part>>) \o e.kept = from \o (<<part>> \o e.kept)
        BY <2>1, <3>3, ConcatAssociative
      <4> QED
        BY <4>2, <4>3
    <3> QED
      BY <2>9, <3>2, <3>4, <3>5
  <2> QED
    <3>1. part \in Names => (e.skip > 0 \/ e.skip = 0)
      BY <2>1
    <3> QED
      BY <2>6, <2>7, <2>8, <2>9, <3>1 DEF Parts
<1> QED
  <2> HIDE DEF T
  <2>1. Seq(Parts) \subseteq T
    BY <1>1, <1>2, ConsInduction
  <2> QED
    BY <2>1 DEF T

(* The special parts evaluated in reverse order (luvipath.lua:83-97) leave *)
(* the names of the directory that the parts lead to from the root.        *)
THEOREM EvaluateIsWalk ==
  ASSUME NEW parts \in Seq(Parts)
  PROVE  Evaluate(parts) = Walk(<<>>, parts) /\ Evaluate(parts) \in Seq(Names)
<1> DEFINE e == Seen(parts)
<1>1. e.kept \in Seq(Names) /\ e.skip \in Nat /\ <<>> \in Seq(Names)
  BY ReverseIsWalk, EmptySeq
<1>2. Walk(<<>>, parts) = Without(<<>>, e.skip) \o e.kept
  BY <1>1, ReverseIsWalk
<1>3. Without(<<>>, e.skip) = <<>>
  BY <1>1, WithoutProperties
<1>4. <<>> \o e.kept = e.kept
  BY <1>1, ConcatEmptySeq
<1> QED
  BY <1>1, <1>2, <1>3, <1>4 DEF Evaluate, Seen

-----------------------------------------------------------------------------
(* Joining one path more.                                                  *)

Input == [prefix : PathPrefixes \cup {None}, parts : Seq(Parts)]

(* Where the last absolute path is, told apart from every other place.     *)
IsLastPrefix(paths, k) ==
    /\ k \in 1 .. Len(paths)
    /\ k = 1 \/ paths[k].prefix # None
    /\ \A i \in k + 1 .. Len(paths) : paths[i].prefix = None

LEMMA GreatestExists ==
  ASSUME NEW S \in SUBSET Nat, NEW n \in Nat, n \in S, NEW m \in Nat, \A i \in S : i <= m
  PROVE  \E k \in S : \A i \in S : i <= k
<1> DEFINE B == {j \in Nat : (\A i \in S : i <= j) => \E k \in S : \A i \in S : i <= k}
<1>1. 0 \in B
  <2> SUFFICES ASSUME \A i \in S : i <= 0 PROVE \E k \in S : \A i \in S : i <= k
    OBVIOUS
  <2>1. n = 0
    OBVIOUS
  <2> QED
    BY <2>1
<1>2. ASSUME NEW j \in Nat, j \in B PROVE j + 1 \in B
  <2> SUFFICES ASSUME \A i \in S : i <= j + 1 PROVE \E k \in S : \A i \in S : i <= k
    OBVIOUS
  <2>1. CASE j + 1 \in S
    BY <2>1
  <2>2. CASE j + 1 \notin S
    <3>1. \A i \in S : i <= j
      BY <2>2
    <3> QED
      BY <1>2, <3>1
  <2> QED
    BY <2>1, <2>2
<1>3. Nat \subseteq B
  <2> HIDE DEF B
  <2> QED
    BY <1>1, <1>2, NatSetInduction
<1> QED
  BY <1>3

LEMMA LastPrefixIs ==
  ASSUME NEW paths \in Seq(Input), paths # <<>>
  PROVE  /\ IsLastPrefix(paths, LastPrefix(paths))
         /\ \A k : IsLastPrefix(paths, k) => k = LastPrefix(paths)
<1> DEFINE S == {i \in DOMAIN paths : paths[i].prefix # None} \cup {1}
<1>1. Len(paths) \in Nat /\ Len(paths) # 0 /\ DOMAIN paths = 1 .. Len(paths)
  BY EmptySeq, LenProperties
<1>2. S \in SUBSET Nat /\ 1 \in S /\ \A i \in S : i \in 1 .. Len(paths)
  BY <1>1
<1>3. \E k \in S : \A i \in S : k >= i
  <2>1. \A i \in S : i <= Len(paths)
    BY <1>1, <1>2
  <2> HIDE DEF S
  <2>2. \E k \in S : \A i \in S : i <= k
    BY <1>1, <1>2, <2>1, GreatestExists
  <2> QED
    BY <1>2, <2>2
<1> DEFINE L == LastPrefix(paths)
<1>4. L \in S /\ \A i \in S : L >= i
  BY <1>3 DEF LastPrefix, Max
<1> HIDE DEF L
<1>5. IsLastPrefix(paths, L)
  BY <1>1, <1>2, <1>4 DEF IsLastPrefix
<1>6. ASSUME NEW k, IsLastPrefix(paths, k) PROVE k = L
  <2>1. k \in S /\ k \in 1 .. Len(paths)
    BY <1>1, <1>6 DEF IsLastPrefix
  <2>2. L >= k /\ L \in 1 .. Len(paths)
    BY <1>2, <1>4, <2>1
  <2>3. CASE L > k
    <3>1. L \in k + 1 .. Len(paths) /\ L # 1
      BY <2>1, <2>2, <2>3
    <3> QED
      BY <1>5, <1>6, <3>1 DEF IsLastPrefix
  <2> QED
    BY <2>1, <2>2, <2>3
<1> QED
  BY <1>5, <1>6 DEF L

LEMMA PartsFromAppend ==
  ASSUME NEW paths \in Seq(Input), NEW x \in Input, NEW first \in 1 .. Len(paths)
  PROVE  /\ PartsFrom(paths, first) \in Seq(Parts)
         /\ PartsFrom(Append(paths, x), first) = PartsFrom(paths, first) \o x.parts
<1> DEFINE l == Len(paths) - first + 1
           more == Append(paths, x)
           ss == [n \in 1 .. l |-> paths[first + n - 1].parts]
           tt == [n \in 1 .. Len(more) - first + 1 |-> more[first + n - 1].parts]
<1>1. /\ Len(paths) \in Nat /\ first \in Nat /\ first >= 1 /\ first <= Len(paths)
      /\ l \in Nat /\ l >= 1 /\ \A n \in 1 .. l : first + n - 1 \in 1 .. Len(paths)
  BY LenProperties
<1>2. /\ more \in Seq(Input) /\ Len(more) = Len(paths) + 1
      /\ more[Len(paths) + 1] = x /\ \A i \in 1 .. Len(paths) : more[i] = paths[i]
  BY AppendProperties
<1>3. \A i \in 1 .. Len(paths) : paths[i].parts \in Seq(Parts)
  <2>1. \A i \in 1 .. Len(paths) : paths[i] \in Input
    BY ElementOfSeq
  <2> QED
    BY <2>1 DEF Input
<1>4. x.parts \in Seq(Parts)
  BY DEF Input
<1> HIDE DEF more
<1>5. ss \in Seq(Seq(Parts)) /\ Len(ss) = l
  <2>1. ss \in [1 .. l -> Seq(Parts)]
    BY <1>1, <1>3
  <2> HIDE DEF ss, l
  <2> QED
    BY <1>1, <2>1
<1>6. ss # <<>>
  <2> HIDE DEF ss
  <2> QED
    BY <1>1, <1>5, EmptySeq
<1>7. tt = Append(ss, x.parts)
  <2>1. Len(more) - first + 1 = l + 1
    BY <1>1, <1>2
  <2>2. tt \in [1 .. l + 1 -> Seq(Parts)] /\ Len(tt) = l + 1
    <3>1. \A n \in 1 .. l + 1 : first + n - 1 \in 1 .. Len(more)
      BY <1>1, <1>2
    <3>2. \A i \in 1 .. Len(more) : more[i].parts \in Seq(Parts)
      BY <1>1, <1>2, <1>3, <1>4
    <3>3. tt \in [1 .. l + 1 -> Seq(Parts)]
      BY <2>1, <3>1, <3>2
    <3> HIDE DEF tt, l
    <3> QED
      BY <1>1, <3>3
  <2>3. tt \in Seq(Seq(Parts))
    <3> HIDE DEF tt, l
    <3> QED
      BY <1>1, <2>2
  <2>4. /\ Append(ss, x.parts) \in Seq(Seq(Parts)) /\ Len(Append(ss, x.parts)) = l + 1
        /\ Append(ss, x.parts)[l + 1] = x.parts
        /\ \A n \in 1 .. l : Append(ss, x.parts)[n] = ss[n]
    <3> HIDE DEF ss, l
    <3> QED
      BY <1>4, <1>5, AppendProperties
  <2>5. ASSUME NEW n \in 1 .. l + 1 PROVE tt[n] = Append(ss, x.parts)[n]
    <3>1. CASE n = l + 1
      <4>1. first + n - 1 = Len(paths) + 1 /\ n \in 1 .. Len(more) - first + 1
        BY <1>1, <2>1, <3>1
      <4>2. tt[n] = x.parts
        BY <1>2, <4>1
      <4> QED
        BY <2>4, <3>1, <4>2
    <3>2. CASE n # l + 1
      <4>1. n \in 1 .. l /\ first + n - 1 \in 1 .. Len(paths) /\ n \in 1 .. Len(more) - first + 1
        BY <1>1, <2>1, <3>2
      <4>2. tt[n] = paths[first + n - 1].parts /\ ss[n] = paths[first + n - 1].parts
        BY <1>2, <4>1
      <4> QED
        BY <2>4, <4>1, <4>2
    <3> QED
      BY <3>1, <3>2
  <2> HIDE DEF ss, tt, l
  <2> QED
    BY <2>2, <2>3, <2>4, <2>5, SeqEqual
<1>8. FlattenSeq(tt) = FlattenSeq(ss) \o x.parts
  <2> HIDE DEF ss, tt
  <2> QED
    BY <1>4, <1>5, <1>6, <1>7, FlattenAppend
<1>9. FlattenSeq(ss) \in Seq(Parts)
  <2> HIDE DEF ss
  <2> QED
    BY <1>5, FlattenType
<1> QED
  BY <1>8, <1>9 DEF PartsFrom, more

LEMMA PartsFromLast ==
  ASSUME NEW paths \in Seq(Input), paths # <<>>
  PROVE  PartsFrom(paths, Len(paths)) = paths[Len(paths)].parts
<1> DEFINE s == paths[Len(paths)].parts
           ss == [n \in 1 .. Len(paths) - Len(paths) + 1 |-> paths[Len(paths) + n - 1].parts]
<1>1. Len(paths) \in Nat /\ Len(paths) # 0
  BY EmptySeq
<1>2. s \in Seq(Parts)
  <2>1. paths[Len(paths)] \in Input
    BY <1>1, ElementOfSeq
  <2> QED
    BY <2>1 DEF Input
<1>3. ss = <<s>>
  <2>1. Len(paths) - Len(paths) + 1 = 1 /\ Len(paths) + 1 - 1 = Len(paths)
    BY <1>1
  <2>2. ss \in [1 .. 1 -> Seq(Parts)] /\ ss[1] = s
    BY <1>2, <2>1
  <2>3. ss \in Seq(Seq(Parts)) /\ Len(ss) = 1
    <3> HIDE DEF ss
    <3> QED
      BY <2>2, FunctionIsSeq
  <2>4. <<s>> \in Seq(Seq(Parts)) /\ Len(<<s>>) = 1 /\ <<s>>[1] = s
    <3> HIDE DEF s
    <3> QED
      BY <1>2
  <2> HIDE DEF s, ss
  <2> QED
    BY <2>2, <2>3, <2>4, SeqEqual
<1> QED
  <2>1. FlattenSeq(<<s>>) = s
    BY <1>2, FlattenOne
  <2> QED
    BY <1>3, <2>1 DEF PartsFrom

LEMMA FollowType ==
  ASSUME NEW dir \in [prefix : PathPrefixes \cup {None}, parts : Seq(Names)], NEW x \in Input
  PROVE  Follow(dir, x) \in [prefix : PathPrefixes \cup {None}, parts : Seq(Names)]
<1> DEFINE from == IF x.prefix = None THEN dir.parts ELSE <<>>
           new == IF x.prefix = None THEN dir.prefix ELSE x.prefix
<1>1. from \in Seq(Names) /\ x.parts \in Seq(Parts) /\ new \in PathPrefixes \cup {None}
  BY EmptySeq DEF Input
<1>2. Walk(from, x.parts) \in Seq(Names)
  BY <1>1, WalkType
<1>3. Follow(dir, x) = [prefix |-> new, parts |-> Walk(from, x.parts)]
  BY DEF Follow
<1> HIDE DEF from, new
<1> QED
  BY <1>1, <1>2, <1>3

LEMMA PathJoinOne ==
  ASSUME NEW x \in Input
  PROVE  pathJoin(<<x>>) = Follow(Rel(<<>>), x)
<1> DEFINE one == <<x>>
<1>1. one \in Seq(Input) /\ one # <<>> /\ Len(one) = 1 /\ one[1] = x /\ x.parts \in Seq(Parts)
  BY DEF Input
<1> HIDE DEF one
<1>2. LastPrefix(one) = 1
  BY <1>1, LastPrefixIs DEF IsLastPrefix
<1>3. AllParts(one) = x.parts
  BY <1>1, <1>2, PartsFromLast DEF AllParts
<1>4. Evaluate(x.parts) = Walk(<<>>, x.parts)
  BY <1>1, EvaluateIsWalk
<1>5. pathJoin(one) = [prefix |-> x.prefix, parts |-> Walk(<<>>, x.parts)]
  BY <1>1, <1>2, <1>3, <1>4 DEF pathJoin
<1>6. Follow(Rel(<<>>), x) = [prefix |-> x.prefix, parts |-> Walk(<<>>, x.parts)]
  BY DEF Follow, Rel
<1> QED
  BY <1>5, <1>6 DEF one

(* pathJoin of one path more (luvipath.lua:54-108) goes on from what it    *)
(* made of the paths before.                                               *)
THEOREM PathJoinAppend ==
  ASSUME NEW paths \in Seq(Input), paths # <<>>, NEW x \in Input
  PROVE  pathJoin(Append(paths, x)) = Follow(pathJoin(paths), x)
<1> DEFINE more == Append(paths, x)
           l == LastPrefix(paths)
<1>1. /\ more \in Seq(Input) /\ more # <<>> /\ Len(more) = Len(paths) + 1
      /\ more[Len(paths) + 1] = x /\ \A i \in 1 .. Len(paths) : more[i] = paths[i]
      /\ Len(paths) \in Nat /\ Len(paths) # 0
  BY AppendProperties, EmptySeq
<1>2. x.parts \in Seq(Parts)
  BY DEF Input
<1>3. IsLastPrefix(paths, l)
  BY LastPrefixIs
<1>4. l \in 1 .. Len(paths)
  BY <1>3 DEF IsLastPrefix
<1>5. CASE x.prefix # None
  <2>1. LastPrefix(more) = Len(more)
    <3>1. IsLastPrefix(more, Len(more))
      BY <1>1, <1>5 DEF IsLastPrefix
    <3> HIDE DEF more
    <3> QED
      BY <1>1, <3>1, LastPrefixIs
  <2>2. more[Len(more)] = x
    BY <1>1
  <2>3. AllParts(more) = x.parts
    <3> HIDE DEF more
    <3> QED
      BY <1>1, <2>1, <2>2, PartsFromLast DEF AllParts
  <2>4. Evaluate(x.parts) = Walk(<<>>, x.parts)
    BY <1>2, EvaluateIsWalk
  <2>5. pathJoin(more) = [prefix |-> x.prefix, parts |-> Walk(<<>>, x.parts)]
    <3> HIDE DEF more
    <3> QED
      BY <2>1, <2>2, <2>3, <2>4 DEF pathJoin
  <2> QED
    BY <1>5, <2>5 DEF Follow
<1>6. CASE x.prefix = None
  <2>1. LastPrefix(more) = l
    <3> HIDE DEF more, l
    <3>1. IsLastPrefix(more, l)
      BY <1>1, <1>3, <1>6 DEF IsLastPrefix
    <3> QED
      BY <1>1, <3>1, LastPrefixIs
  <2>2. more[l] = paths[l]
    BY <1>1, <1>4
  <2>3. AllParts(paths) \in Seq(Parts) /\ AllParts(more) = AllParts(paths) \o x.parts
    BY <1>4, <2>1, PartsFromAppend DEF AllParts
  <2> DEFINE a == AllParts(paths)
  <2> HIDE DEF more, l
  <2>4. Evaluate(a \o x.parts) = Walk(Evaluate(a), x.parts)
    <3>1. a \in Seq(Parts) /\ a \o x.parts \in Seq(Parts)
      BY <1>2, <2>3, ConcatProperties
    <3> HIDE DEF a
    <3>2. Evaluate(a \o x.parts) = Walk(<<>>, a \o x.parts) /\ Evaluate(a) = Walk(<<>>, a)
      BY <3>1, EvaluateIsWalk
    <3>3. Walk(<<>>, a \o x.parts) = Walk(Walk(<<>>, a), x.parts)
      BY <1>2, <3>1, WalkConcat
    <3> QED
      BY <3>2, <3>3
  <2>5. pathJoin(more) = [prefix |-> paths[l].prefix, parts |-> Walk(Evaluate(a), x.parts)]
    BY <2>1, <2>2, <2>3, <2>4 DEF pathJoin
  <2>6. pathJoin(paths) = [prefix |-> paths[l].prefix, parts |-> Evaluate(a)]
    BY DEF pathJoin, l
  <2>7. Follow(pathJoin(paths), x)
          = [prefix |-> paths[l].prefix, parts |-> Walk(Evaluate(a), x.parts)]
    <3> HIDE DEF a
    <3> QED
      BY <1>6, <2>6 DEF Follow
  <2> QED
    BY <2>5, <2>7 DEF more
<1> QED
  BY <1>5, <1>6

(* The result of pathJoin is a path without "." and "..".                  *)
THEOREM PathJoinClean ==
  ASSUME NEW paths \in Seq(Input), paths # <<>>
  PROVE  pathJoin(paths) \in [prefix : PathPrefixes \cup {None}, parts : Seq(Names)]
<1> DEFINE Dirs == [prefix : PathPrefixes \cup {None}, parts : Seq(Names)]
           T == {p \in Seq(Input) : p = <<>> \/ pathJoin(p) \in Dirs}
<1>1. <<>> \in T
  BY EmptySeq
<1>2. ASSUME NEW p \in Seq(Input), NEW x \in Input, p \in T PROVE Append(p, x) \in T
  <2>1. Append(p, x) \in Seq(Input)
    BY AppendProperties
  <2>2. CASE p = <<>>
    <3>1. Append(p, x) = <<x>>
      BY <2>2
    <3>2. Rel(<<>>) \in Dirs
      BY EmptySeq DEF Rel
    <3>3. Follow(Rel(<<>>), x) \in Dirs
      BY <3>2, FollowType
    <3>4. pathJoin(<<x>>) \in Dirs
      BY <3>3, PathJoinOne
    <3> QED
      BY <2>1, <3>1, <3>4
  <2>3. CASE p # <<>>
    <3>1. pathJoin(p) \in Dirs
      BY <1>2, <2>3
    <3>2. Follow(pathJoin(p), x) \in Dirs
      BY <3>1, FollowType
    <3>3. pathJoin(Append(p, x)) \in Dirs
      BY <2>3, <3>2, PathJoinAppend
    <3> QED
      BY <2>1, <3>3
  <2> QED
    BY <2>2, <2>3
<1> QED
  <2> HIDE DEF T
  <2>1. Seq(Input) \subseteq T
    BY <1>1, <1>2, AppendInduction
  <2> QED
    BY <2>1 DEF T

-----------------------------------------------------------------------------
(* What the bundles join: a relative path to a directory.                  *)

LEMMA WalkHere ==
  ASSUME NEW dir, NEW path \in Seq(Parts)
  PROVE  <<".">> \o path \in Seq(Parts) /\ Walk(dir, <<".">> \o path) = Walk(dir, path)
<1>1. "." \in Parts
  BY DEF Parts
<1>2. <<".">> \in Seq(Parts)
  BY <1>1
<1>3. Walk(dir, <<".">> \o path) = Walk(Enter(dir, "."), path)
  BY <1>1, WalkCons
<1>4. Enter(dir, ".") = dir
  BY NamesAreNoDots DEF Enter
<1> QED
  BY <1>2, <1>3, <1>4, ConcatProperties

LEMMA JoinBelow ==
  ASSUME NEW prefix \in PathPrefixes \cup {None}, NEW dir \in Seq(Names),
         NEW path \in Seq(Parts)
  PROVE  pathJoin(<<[prefix |-> prefix, parts |-> dir], Rel(path)>>)
           = [prefix |-> prefix, parts |-> Walk(dir, path)]
<1> DEFINE base == [prefix |-> prefix, parts |-> dir]
           rel == Rel(path)
<1>1. base \in Input /\ base.prefix = prefix /\ base.parts = dir
  <2>1. dir \in Seq(Parts)
    BY SeqMonotonic DEF Parts
  <2> QED
    BY <2>1 DEF Input
<1>2. rel \in Input /\ rel.prefix = None /\ rel.parts = path
  BY DEF Rel, Input
<1> HIDE DEF base, rel
<1>3. pathJoin(<<base, rel>>) = Follow(pathJoin(<<base>>), rel)
  <2>1. <<base>> \in Seq(Input) /\ <<base>> # <<>> /\ <<base, rel>> = Append(<<base>>, rel)
    BY <1>1
  <2> QED
    BY <1>2, <2>1, PathJoinAppend
<1>4. pathJoin(<<base>>) = [prefix |-> prefix, parts |-> dir]
  <2>1. pathJoin(<<base>>) = Follow(Rel(<<>>), base)
    BY <1>1, PathJoinOne
  <2>2. Walk(<<>>, dir) = <<>> \o dir /\ <<>> \o dir = dir
    BY EmptySeq, WalkDown, ConcatEmptySeq
  <2> DEFINE start == Rel(<<>>)
  <2>3. start.prefix = None /\ start.parts = <<>>
    BY DEF Rel
  <2> HIDE DEF start
  <2>4. Follow(start, base) = [prefix |-> prefix, parts |-> Walk(<<>>, dir)]
    BY <1>1, <2>3 DEF Follow
  <2> QED
    BY <2>1, <2>2, <2>4 DEF start
<1>5. Follow(pathJoin(<<base>>), rel) = [prefix |-> prefix, parts |-> Walk(dir, path)]
  <2>1. Follow(pathJoin(<<base>>), rel)
          = [prefix |-> pathJoin(<<base>>).prefix,
             parts |-> Walk(pathJoin(<<base>>).parts, rel.parts)]
    BY <1>2 DEF Follow
  <2>2. pathJoin(<<base>>).prefix = prefix /\ pathJoin(<<base>>).parts = dir
    BY <1>4
  <2> QED
    BY <1>2, <2>1, <2>2
<1> QED
  BY <1>3, <1>5 DEF base, rel

-----------------------------------------------------------------------------
(* Paths that stay below where they start.                                 *)

(* How many of the first n parts are in S.                                 *)
Count(parts, n, S) == Cardinality({i \in 1 .. n : parts[i] \in S})

LEMMA CountStep ==
  ASSUME NEW parts, NEW n \in Nat, NEW S
  PROVE  /\ Count(parts, n, S) \in Nat
         /\ Count(parts, n + 1, S)
              = IF parts[n + 1] \in S THEN Count(parts, n, S) + 1 ELSE Count(parts, n, S)
<1> DEFINE A == {i \in 1 .. n : parts[i] \in S}
           B == {i \in 1 .. n + 1 : parts[i] \in S}
<1>1. IsFiniteSet(A) /\ Cardinality(A) \in Nat
  <2>1. IsFiniteSet(1 .. n) /\ A \in SUBSET (1 .. n)
    BY FS_Interval
  <2> HIDE DEF A
  <2> QED
    BY <2>1, FS_Subset, FS_CardinalityType
<1>2. CASE parts[n + 1] \in S
  <2>1. B = A \cup {n + 1} /\ n + 1 \notin A
    BY <1>2
  <2> HIDE DEF A, B
  <2>2. Cardinality(B) = Cardinality(A) + 1
    BY <1>1, <2>1, FS_AddElement
  <2> QED
    BY <1>1, <1>2, <2>2 DEF Count, A, B
<1>3. CASE parts[n + 1] \notin S
  <2>1. B = A
    BY <1>3
  <2> QED
    BY <1>1, <1>3, <2>1 DEF Count
<1> QED
  BY <1>2, <1>3

LEMMA CountSame ==
  ASSUME NEW s, NEW t, NEW n \in Nat, NEW S, \A i \in 1 .. n : s[i] = t[i]
  PROVE  Count(s, n, S) = Count(t, n, S)
<1>1. {i \in 1 .. n : s[i] \in S} = {i \in 1 .. n : t[i] \in S}
  OBVIOUS
<1> QED
  BY <1>1 DEF Count

LEMMA CountNone == ASSUME NEW s, NEW S PROVE Count(s, 0, S) = 0
<1>1. {i \in 1 .. 0 : s[i] \in S} = {}
  OBVIOUS
<1> QED
  BY <1>1, FS_EmptySet DEF Count

LEMMA StaysBelowCounts ==
  ASSUME NEW parts
  PROVE  StaysBelow(parts) <=>
           \A n \in 1 .. Len(parts) : Count(parts, n, {".."}) <= Count(parts, n, Names)
<1>1. \A n \in 1 .. Len(parts) :
         {i \in 1 .. n : parts[i] = ".."} = {i \in 1 .. n : parts[i] \in {".."}}
  OBVIOUS
<1> QED
  BY <1>1 DEF StaysBelow, Count

(* A walk that never has more ".." than names behind it leads to the same  *)
(* place below any directory.                                              *)
THEOREM StaysInside ==
  ASSUME NEW dir \in Seq(Names), NEW parts \in Seq(Parts), StaysBelow(parts)
  PROVE  Walk(dir, parts) = dir \o Walk(<<>>, parts)
<1> DEFINE Down(p) == Walk(<<>>, p)
           T == {p \in Seq(Parts) : StaysBelow(p) =>
                   /\ Walk(dir, p) = dir \o Down(p)
                   /\ Len(Down(p)) = Count(p, Len(p), Names) - Count(p, Len(p), {".."})}
<1>1. <<>> \in T
  <2>1. <<>> \in Seq(Parts) /\ <<>> \in Seq(Names) /\ Len(<<>>) = 0
    BY EmptySeq
  <2>2. Walk(dir, <<>>) = dir /\ Down(<<>>) = <<>> /\ dir \o <<>> = dir
    BY WalkNowhere, ConcatEmptySeq
  <2>3. Count(<<>>, Len(<<>>), Names) = 0 /\ Count(<<>>, Len(<<>>), {".."}) = 0
    BY <2>1, CountNone
  <2> QED
    BY <2>1, <2>2, <2>3
<1>2. ASSUME NEW p \in Seq(Parts), NEW part \in Parts, p \in T
      PROVE  Append(p, part) \in T
  <2> DEFINE q == Append(p, part)
             n == Len(p)
  <2>1. /\ q \in Seq(Parts) /\ Len(q) = n + 1 /\ n \in Nat /\ q[n + 1] = part
        /\ \A i \in 1 .. n : q[i] = p[i]
    BY AppendProperties, LenProperties
  <2>2. /\ Walk(dir, q) = Enter(Walk(dir, p), part)
        /\ Down(q) = Enter(Down(p), part)
    BY WalkAppend
  <2>3. Down(p) \in Seq(Names) /\ Walk(dir, p) \in Seq(Names) /\ Len(Down(p)) \in Nat
    BY EmptySeq, WalkType, LenProperties
  <2> HIDE DEF q, n
  <2> SUFFICES ASSUME StaysBelow(q)
               PROVE  /\ Walk(dir, q) = dir \o Down(q)
                      /\ Len(Down(q)) = Count(q, n + 1, Names) - Count(q, n + 1, {".."})
    BY <2>1 DEF q
  <2>4. \A m \in 0 .. n : /\ Count(q, m, {".."}) = Count(p, m, {".."})
                          /\ Count(q, m, Names) = Count(p, m, Names)
    BY <2>1, CountSame
  <2>5. StaysBelow(p)
    <3>1. \A m \in 1 .. n : Count(q, m, {".."}) <= Count(q, m, Names)
      BY <2>1, StaysBelowCounts
    <3>2. \A m \in 1 .. n : Count(p, m, {".."}) <= Count(p, m, Names)
      BY <2>1, <2>4, <3>1
    <3> QED
      BY <3>2, StaysBelowCounts DEF n
  <2>6. /\ Walk(dir, p) = dir \o Down(p)
        /\ Len(Down(p)) = Count(q, n, Names) - Count(q, n, {".."})
    <3>1. /\ Walk(dir, p) = dir \o Down(p)
          /\ Len(Down(p)) = Count(p, n, Names) - Count(p, n, {".."})
      BY <1>2, <2>5 DEF n
    <3>2. n \in 0 .. n
      BY <2>1
    <3> HIDE DEF Down
    <3> QED
      BY <2>4, <3>1, <3>2
  <2>7. /\ Count(q, n, Names) \in Nat /\ Count(q, n, {".."}) \in Nat
        /\ Count(q, n + 1, Names) = IF part \in Names THEN Count(q, n, Names) + 1
                                    ELSE Count(q, n, Names)
        /\ Count(q, n + 1, {".."}) = IF part \in {".."} THEN Count(q, n, {".."}) + 1
                                     ELSE Count(q, n, {".."})
    BY <2>1, CountStep
  <2> HIDE DEF Down
  <2>8. CASE part = "."
    <3>1. part \notin Names /\ part \notin {".."} /\ \A d : Enter(d, part) = d
      BY <2>8, NamesAreNoDots DEF Enter
    <3> QED
      BY <2>2, <2>6, <2>7, <3>1
  <2>9. CASE part = ".."
    <3>1. part \notin Names /\ part \in {".."}
      BY <2>9, NamesAreNoDots
    <3>2. Count(q, n + 1, {".."}) <= Count(q, n + 1, Names)
      BY <2>1, StaysBelowCounts
    <3>3. Len(Down(p)) >= 1
      BY <2>6, <2>7, <3>1, <3>2
    <3>4. Down(p) # <<>>
      BY <3>3, EmptySeq
    <3>5. PICK d \in Seq(Names), e \in Names : Down(p) = Append(d, e)
      BY <2>3, <3>4, SequenceEmptyOrAppend
    <3>6. Len(d) \in Nat /\ Len(Down(p)) = Len(d) + 1
      BY <3>5, AppendProperties, LenProperties
    <3>7. ASSUME NEW s \in Seq(Names) PROVE Enter(Append(s, e), part) = s
      <4>1. /\ Append(s, e) \in Seq(Names) /\ Len(Append(s, e)) = Len(s) + 1
            /\ Append(s, e) # <<>> /\ Len(s) \in Nat
            /\ \A i \in 1 .. Len(s) : Append(s, e)[i] = s[i]
        BY AppendProperties, LenProperties
      <4>2. Enter(Append(s, e), part) = SubSeq(Append(s, e), 1, Len(s))
        BY <2>9, <4>1, NamesAreNoDots DEF Enter, Front
      <4>3. Without(Append(s, e), 1) = Without(s, 0) /\ Without(s, 0) = s
        BY WithoutProperties
      <4>4. Len(Append(s, e)) - 1 = Len(s)
        BY <4>1
      <4>5. Without(Append(s, e), 1) = SubSeq(Append(s, e), 1, Len(s))
        BY <4>4 DEF Without
      <4> QED
        BY <4>2, <4>3, <4>5
    <3>8. dir \o Append(d, e) = Append(dir \o d, e) /\ dir \o d \in Seq(Names)
      BY ConcatProperties, ConcatAppend
    <3>9. Down(q) = d /\ Walk(dir, q) = dir \o d
      BY <2>2, <2>6, <3>5, <3>7, <3>8
    <3> QED
      BY <2>6, <2>7, <3>1, <3>6, <3>9
  <2>10. CASE part \in Names
    <3>1. part \notin {".."} /\ \A d : Enter(d, part) = Append(d, part)
      BY <2>10, NamesAreNoDots DEF Enter
    <3>2. dir \o Append(Down(p), part) = Append(dir \o Down(p), part)
      BY <2>3, <2>10, ConcatAppend
    <3>3. Len(Append(Down(p), part)) = Len(Down(p)) + 1
      BY <2>3, <2>10, AppendProperties
    <3>4. Walk(dir, q) = dir \o Down(q)
      BY <2>2, <2>6, <3>1, <3>2
    <3>5. Len(Down(q)) = Len(Down(p)) + 1
      BY <2>2, <3>1, <3>3
    <3> QED
      BY <2>6, <2>7, <2>10, <3>1, <3>4, <3>5
  <2> QED
    BY <2>8, <2>9, <2>10 DEF Parts
<1> QED
  <2> HIDE DEF T
  <2>1. Seq(Parts) \subseteq T
    BY <1>1, <1>2, AppendInduction
  <2> QED
    BY <2>1 DEF T

-----------------------------------------------------------------------------
(* The calls.                                                              *)

InputsOK == inputs \in Seq(Input) /\ inputs # <<>>

(* Every call is one with a list of paths that is not empty                *)
(* (luvipath.lua:54-56).                                                   *)
THEOREM PathTypes == PathSpec => []InputsOK
<1>1. FirstInput => InputsOK
  <2> SUFFICES ASSUME NEW prefix \in PathPrefixes \cup {None},
                      NEW parts \in BoundedSeq(Parts, MaxParts),
                      inputs = <<[prefix |-> prefix, parts |-> parts]>>
               PROVE  InputsOK
    BY DEF FirstInput
  <2>1. [prefix |-> prefix, parts |-> parts] \in Input
    BY BoundedSeqIsSeq, PathAssumption DEF Input
  <2> QED
    BY <2>1 DEF InputsOK
<1>2. InputsOK /\ [AddInput]_inputs => InputsOK'
  <2> SUFFICES ASSUME InputsOK, [AddInput]_inputs PROVE InputsOK'
    OBVIOUS
  <2>1. CASE AddInput
    <3>1. PICK prefix \in PathPrefixes \cup {None}, parts \in BoundedSeq(Parts, MaxParts) :
             inputs' = Append(inputs, [prefix |-> prefix, parts |-> parts])
      BY <2>1 DEF AddInput
    <3>2. [prefix |-> prefix, parts |-> parts] \in Input
      BY BoundedSeqIsSeq, PathAssumption DEF Input
    <3> QED
      BY <3>1, <3>2, AppendProperties DEF InputsOK
  <2>2. CASE UNCHANGED inputs
    BY <2>2 DEF InputsOK
  <2> QED
    BY <2>1, <2>2
<1> QED
  BY <1>1, <1>2, PTL DEF PathSpec

(* Joining stepwise: the join of all paths (luvipath.lua:54-108) is that   *)
(* of the result for all but the last with the last one.                   *)
THEOREM JoinsStepwiseAlways == PathSpec => []JoinsStepwise
<1>1. InputsOK => JoinsStepwise
  <2> SUFFICES ASSUME InputsOK, Len(inputs) > 1
               PROVE  pathJoin(inputs) = pathJoin(<<pathJoin(Front(inputs)), Last(inputs)>>)
    BY DEF JoinsStepwise
  <2>1. PICK s \in Seq(Input), x \in Input : inputs = Append(s, x)
    BY SequenceEmptyOrAppend DEF InputsOK
  <2>2. /\ Len(s) \in Nat /\ Len(inputs) = Len(s) + 1 /\ inputs[Len(s) + 1] = x
        /\ \A i \in 1 .. Len(s) : inputs[i] = s[i] /\ inputs[i] \in Input
    BY <2>1, AppendProperties, LenProperties, ElementOfSeq DEF InputsOK
  <2>3. s # <<>>
    BY <2>2, EmptySeq
  <2>4. Last(inputs) = x
    BY <2>2 DEF Last
  <2>5. Front(inputs) = s
    <3>1. Len(inputs) - 1 = Len(s) /\ Len(s) - 1 + 1 = Len(s) /\ Len(s) >= 1
      BY <2>2, <2>3, EmptySeq
    <3>2. /\ Front(inputs) \in Seq(Input) /\ Len(Front(inputs)) = Len(s)
          /\ \A i \in 1 .. Len(s) : Front(inputs)[i] = inputs[i]
      BY <2>2, <3>1, SubSeqProperties DEF Front
    <3> QED
      BY <2>2, <3>2, SeqEqual
  <2> DEFINE y == pathJoin(s)
  <2>6. y \in [prefix : PathPrefixes \cup {None}, parts : Seq(Names)]
    BY <2>3, PathJoinClean
  <2>7. y \in Input /\ y.parts \in Seq(Names)
    <3> HIDE DEF y
    <3>1. y.parts \in Seq(Parts)
      BY <2>6, SeqMonotonic DEF Parts
    <3> QED
      BY <2>6, <3>1 DEF Input
  <2>8. pathJoin(inputs) = Follow(y, x)
    BY <2>1, <2>3, PathJoinAppend
  <2> HIDE DEF y
  <2>9. pathJoin(<<y>>) = y
    <3>1. pathJoin(<<y>>) = Follow(Rel(<<>>), y)
      BY <2>7, PathJoinOne
    <3>2. <<>> \in Seq(Names) /\ Walk(<<>>, y.parts) = <<>> \o y.parts /\ <<>> \o y.parts = y.parts
      BY <2>7, EmptySeq, WalkDown, ConcatEmptySeq
    <3>3. Follow(Rel(<<>>), y) = [prefix |-> y.prefix, parts |-> y.parts]
      BY <3>2 DEF Follow, Rel
    <3>4. y = [prefix |-> y.prefix, parts |-> y.parts]
      BY <2>6
    <3> QED
      BY <3>1, <3>3, <3>4
  <2>10. pathJoin(<<y, x>>) = Follow(pathJoin(<<y>>), x)
    <3>1. <<y>> \in Seq(Input) /\ <<y>> # <<>> /\ <<y, x>> = Append(<<y>>, x)
      BY <2>7
    <3>2. pathJoin(Append(<<y>>, x)) = Follow(pathJoin(<<y>>), x)
      BY <3>1, PathJoinAppend
    <3> QED
      BY <3>1, <3>2
  <2> QED
    BY <2>4, <2>5, <2>8, <2>9, <2>10 DEF y
<1> QED
  BY <1>1, PathTypes, PTL

LEMMA ReachedDef ==
  ASSUME NEW paths \in Seq(Input)
  PROVE  Reached(paths) =
           [n \in 0 .. Len(paths) |->
              IF n = 0 THEN Rel(<<>>) ELSE Follow(Reached(paths)[n - 1], paths[n])]
<1> DEFINE D(m, f) == f = [n \in 0 .. m |->
                             IF n = 0 THEN Rel(<<>>) ELSE Follow(f[n - 1], paths[n])]
           S == {m \in Nat : \E f : D(m, f)}
<1>1. D(0, [n \in 0 .. 0 |-> Rel(<<>>)])
  OBVIOUS
<1>2. ASSUME NEW m \in Nat, NEW f, D(m, f) PROVE \E g : D(m + 1, g)
  <2> DEFINE g == [n \in 0 .. m + 1 |->
                     IF n = m + 1 THEN Follow(f[m], paths[m + 1]) ELSE f[n]]
  <2>1. D(m + 1, g)
    BY <1>2
  <2> QED
    BY <2>1
<1>3. Nat \subseteq S
  <2>1. 0 \in S
    BY <1>1
  <2>2. ASSUME NEW m \in Nat, m \in S PROVE m + 1 \in S
    <3>1. PICK f : D(m, f)
      BY <2>2
    <3>2. \E g : D(m + 1, g)
      BY <1>2, <3>1
    <3> HIDE DEF D
    <3> QED
      BY <3>2
  <2> HIDE DEF S
  <2> QED
    BY <2>1, <2>2, NatSetInduction
<1>4. \E f : D(Len(paths), f)
  <2> HIDE DEF D
  <2> QED
    BY <1>3, LenProperties
<1> QED
  BY <1>4 DEF Reached

LEMMA ReachedAppend ==
  ASSUME NEW s \in Seq(Input), NEW x \in Input
  PROVE  Reached(Append(s, x))[Len(Append(s, x))] = Follow(Reached(s)[Len(s)], x)
<1> DEFINE t == Append(s, x)
           f == Reached(s)
           g == Reached(t)
<1>1. /\ t \in Seq(Input) /\ Len(s) \in Nat /\ Len(t) = Len(s) + 1
      /\ t[Len(s) + 1] = x /\ \A n \in 1 .. Len(s) : t[n] = s[n]
  BY AppendProperties, LenProperties
<1>2. /\ f = [n \in 0 .. Len(s) |-> IF n = 0 THEN Rel(<<>>) ELSE Follow(f[n - 1], s[n])]
      /\ g = [n \in 0 .. Len(t) |-> IF n = 0 THEN Rel(<<>>) ELSE Follow(g[n - 1], t[n])]
  BY <1>1, ReachedDef
<1> HIDE DEF f, g, t
<1> DEFINE S == {n \in Nat : n <= Len(s) => g[n] = f[n]}
<1>3. 0 \in S
  BY <1>1, <1>2
<1>4. ASSUME NEW n \in Nat, n \in S PROVE n + 1 \in S
  <2> SUFFICES ASSUME n + 1 <= Len(s) PROVE g[n + 1] = f[n + 1]
    OBVIOUS
  <2>1. g[n] = f[n] /\ t[n + 1] = s[n + 1]
    BY <1>1, <1>4
  <2> QED
    BY <1>1, <1>2, <2>1
<1>5. g[Len(s)] = f[Len(s)]
  <2> HIDE DEF S
  <2>1. Nat \subseteq S
    BY <1>3, <1>4, NatSetInduction
  <2> QED
    BY <1>1, <2>1 DEF S
<1>6. g[Len(t)] = Follow(g[Len(s)], x)
  <2>1. \A n \in 0 .. Len(t) : g[n] = IF n = 0 THEN Rel(<<>>) ELSE Follow(g[n - 1], t[n])
    BY <1>2
  <2>2. PICK n \in 0 .. Len(t) : n = Len(s) + 1
    BY <1>1
  <2>3. n # 0 /\ n - 1 = Len(s) /\ t[n] = x /\ n = Len(t)
    BY <1>1, <2>2
  <2>4. g[n] = Follow(g[n - 1], t[n])
    BY <2>1, <2>3
  <2> QED
    BY <2>3, <2>4
<1> QED
  BY <1>5, <1>6 DEF f, g, t

LEMMA ReachedNothing == Reached(<<>>)[0] = Rel(<<>>)
<1> DEFINE s == <<>>
<1>1. s \in Seq(Input) /\ Len(s) = 0
  BY EmptySeq
<1> HIDE DEF s
<1>2. Reached(s) = [n \in 0 .. Len(s) |->
                      IF n = 0 THEN Rel(<<>>) ELSE Follow(Reached(s)[n - 1], s[n])]
  BY <1>1, ReachedDef
<1>3. Reached(s)[0] = Rel(<<>>)
  <2> DEFINE z == Rel(<<>>)
  <2> HIDE DEF z
  <2> QED
    BY <1>1, <1>2
<1> QED
  BY <1>3 DEF s

(* The reverse evaluation of pathJoin (luvipath.lua:83-108) reaches the    *)
(* directory of a walk from the front, for paths of any number and length. *)
THEOREM WalksForwardAlways == PathSpec => []WalksForward
<1> DEFINE T == {p \in Seq(Input) : p = <<>> \/ pathJoin(p) = Reached(p)[Len(p)]}
<1>1. <<>> \in T
  BY EmptySeq
<1>2. ASSUME NEW p \in Seq(Input), NEW x \in Input, p \in T PROVE Append(p, x) \in T
  <2>1. Append(p, x) \in Seq(Input)
    BY AppendProperties
  <2>2. Reached(Append(p, x))[Len(Append(p, x))] = Follow(Reached(p)[Len(p)], x)
    BY ReachedAppend
  <2>3. CASE p = <<>>
    <3>1. Append(p, x) = <<x>>
      BY <2>3
    <3>2. Len(p) = 0 /\ Reached(p)[Len(p)] = Rel(<<>>)
      BY <2>3, EmptySeq, ReachedNothing
    <3>3. pathJoin(<<x>>) = Follow(Rel(<<>>), x)
      BY PathJoinOne
    <3> QED
      BY <2>1, <2>2, <3>1, <3>2, <3>3
  <2>4. CASE p # <<>>
    <3>1. pathJoin(p) = Reached(p)[Len(p)]
      BY <1>2, <2>4
    <3>2. pathJoin(Append(p, x)) = Follow(pathJoin(p), x)
      BY <2>4, PathJoinAppend
    <3> QED
      BY <2>1, <2>2, <3>1, <3>2
  <2> QED
    BY <2>3, <2>4
<1>3. InputsOK => WalksForward
  <2> HIDE DEF T
  <2>1. Seq(Input) \subseteq T
    BY <1>1, <1>2, AppendInduction
  <2> QED
    BY <2>1 DEF T, InputsOK, WalksForward
<1> QED
  BY <1>3, PathTypes, PTL

(* What every bundle operation writes, "./" .. path below a base           *)
(* (luvibundle.lua:18, 29, 46): a path whose ".." never outnumber its  *)
(* names stays in the base, whatever prefix the caller gave it.            *)
THEOREM RelativeStaysInBaseAlways == PathSpec => []RelativeStaysInBase
<1>1. InputsOK => RelativeStaysInBase
  <2> SUFFICES ASSUME InputsOK, StaysBelow(AllParts(inputs)),
                      NEW prefix \in PathPrefixes, NEW dir \in BoundedSeq(Names, 1)
               PROVE  pathJoin(<<[prefix |-> prefix, parts |-> dir],
                                 Rel(<<".">> \o AllParts(inputs))>>)
                        = [prefix |-> prefix, parts |-> dir \o Walk(<<>>, AllParts(inputs))]
    BY DEF RelativeStaysInBase
  <2> DEFINE path == AllParts(inputs)
             base == [prefix |-> prefix, parts |-> dir]
             rel == Rel(<<".">> \o path)
  <2>1. path \in Seq(Parts)
    <3>1. LastPrefix(inputs) \in 1 .. Len(inputs)
      BY LastPrefixIs DEF InputsOK, IsLastPrefix
    <3>2. PICK x : x \in Input
      <4>1. [prefix |-> None, parts |-> <<>>] \in Input
        BY EmptySeq DEF Input
      <4> QED
        BY <4>1
    <3> QED
      BY <3>1, <3>2, PartsFromAppend DEF InputsOK, AllParts
  <2> HIDE DEF path
  <2>2. dir \in Seq(Names) /\ <<".">> \o path \in Seq(Parts)
    BY <2>1, BoundedSeqIsSeq, WalkHere
  <2>3. pathJoin(<<base, rel>>) = [prefix |-> prefix, parts |-> Walk(dir, <<".">> \o path)]
    BY <2>2, JoinBelow
  <2>4. Walk(dir, <<".">> \o path) = dir \o Walk(<<>>, path)
    BY <2>1, <2>2, WalkHere, StaysInside DEF path
  <2> QED
    BY <2>3, <2>4 DEF base, rel, path
<1> QED
  BY <1>1, PathTypes, PTL

-----------------------------------------------------------------------------
(* Paths in folders.                                                       *)

LEMMA NamesPath ==
  ASSUME NEW p \in Seq(Names)
  PROVE  p \in Seq(Parts) /\ StaysBelow(p) /\ Walk(<<>>, p) = p
<1>1. p \in Seq(Parts)
  BY SeqMonotonic DEF Parts
<1>2. Walk(<<>>, p) = p
  BY EmptySeq, WalkDown, ConcatEmptySeq
<1>3. StaysBelow(p)
  <2> SUFFICES ASSUME NEW n \in 1 .. Len(p)
               PROVE  Count(p, n, {".."}) <= Count(p, n, Names)
    BY StaysBelowCounts
  <2>1. \A i \in 1 .. Len(p) : p[i] \in Names /\ p[i] # ".."
    BY ElementOfSeq, NamesAreNoDots
  <2>2. n \in Nat /\ \A i \in 1 .. n : i \in 1 .. Len(p)
    BY LenProperties
  <2>3. {i \in 1 .. n : p[i] \in {".."}} = {}
    BY <2>1, <2>2
  <2>4. Count(p, n, {".."}) = 0
    BY <2>3, FS_EmptySet DEF Count
  <2>5. Count(p, n - 1, Names) \in Nat /\ Count(p, n, Names) \in Nat
    <3>1. n - 1 \in Nat /\ n - 1 + 1 = n
      BY <2>2
    <3> QED
      BY <2>2, <3>1, CountStep
  <2> QED
    BY <2>4, <2>5
<1> QED
  BY <1>1, <1>2, <1>3

(* "./" .. path below a base (luvibundle.lua:18) leads into the base.      *)
LEMMA FolderPathIs ==
  ASSUME NEW base \in Seq(Names), NEW p \in Seq(Parts), StaysBelow(p)
  PROVE  FolderPath(base, p) = base \o Walk(<<>>, p)
<1>1. /\ <<".">> \o p \in Seq(Parts)
      /\ Walk(base, <<".">> \o p) = base \o Walk(<<>>, p)
  BY WalkHere, StaysInside
<1>2. "/" \in PathPrefixes \cup {None}
  BY DEF PathPrefixes
<1>3. pathJoin(<<[prefix |-> "/", parts |-> base], Rel(<<".">> \o p)>>)
        = [prefix |-> "/", parts |-> Walk(base, <<".">> \o p)]
  BY <1>1, <1>2, JoinBelow
<1>4. pathJoin(<<Abs(base), Rel(<<".">> \o p)>>).parts = Walk(base, <<".">> \o p)
  BY <1>3 DEF Abs
<1> QED
  BY <1>1, <1>4 DEF FolderPath

(* The path copyFolder makes of a name (luvibundle.lua:185).               *)
LEMMA ChildPath ==
  ASSUME NEW p \in Seq(Names), NEW name \in Names
  PROVE  pathJoin(<<Rel(p), Rel(<<name>>)>>).parts = Append(p, name)
<1>1. <<name>> \in Seq(Names)
  OBVIOUS
<1>2. <<name>> \in Seq(Parts) /\ Walk(p, <<name>>) = p \o <<name>>
  BY <1>1, NamesPath, WalkDown
<1>3. None \in PathPrefixes \cup {None}
  OBVIOUS
<1>4. pathJoin(<<[prefix |-> None, parts |-> p], Rel(<<name>>)>>)
        = [prefix |-> None, parts |-> Walk(p, <<name>>)]
  BY <1>2, <1>3, JoinBelow
<1>5. Append(p, name) = p \o <<name>>
  BY AppendIsConcat
<1> QED
  BY <1>2, <1>4, <1>5 DEF Rel

(* The paths of files and directories below a base, and of the base.       *)
Folders == TreePaths \cup {<<>>}

LEMMA FoldersAre ==
  /\ Folders \subseteq Seq(Names) /\ Folders \subseteq Paths
  /\ \A p \in Folders : p \in Seq(Parts) /\ StaysBelow(p) /\ Walk(<<>>, p) = p
<1>1. Folders \subseteq Seq(Names) /\ Folders \subseteq Paths
  BY EmptySeq, LayersAssumption DEF Folders
<1> QED
  BY <1>1, NamesPath

LEMMA BasesAre ==
  /\ BasePaths \subseteq Seq(Names)
  /\ Len(Bases) \in Nat \ {0} /\ DOMAIN Bases = 1 .. Len(Bases)
  /\ \A i \in 1 .. Len(Bases) : Bases[i] \in BasePaths
<1>1. Len(Bases) \in Nat \ {0} /\ DOMAIN Bases = 1 .. Len(Bases)
  BY LayersAssumption, EmptySeq, LenProperties
<1>2. \A i \in 1 .. Len(Bases) : Bases[i] \in Seq(Names)
  BY LayersAssumption, ElementOfSeq
<1> QED
  BY <1>1, <1>2 DEF BasePaths

(* What is below a base has a path of the tree.                            *)
LEMMA BelowBase ==
  ASSUME NEW base \in BasePaths, NEW q \in Seq(Names), base \o q \in BasePaths \cup Nodes
  PROVE  q \in Folders
<1> DEFINE s == base \o q
<1>1. \E other \in BasePaths, p \in Folders : s = other \o p
  <2>1. CASE s \in BasePaths
    <3>1. s = s \o <<>>
      BY <2>1, BasesAre, ConcatEmptySeq
    <3> HIDE DEF s
    <3> QED
      BY <2>1, <3>1, Zenon DEF Folders
  <2>2. CASE s \in Nodes
    <3> HIDE DEF s
    <3>1. \E b \in BasePaths, p \in TreePaths : s = b \o p
      BY <2>2 DEF Nodes
    <3> QED
      BY <3>1, Zenon DEF Folders
  <2> QED
    BY <2>1, <2>2
<1>2. base \in Seq(Names) /\ IsPrefix(base, s)
  BY BasesAre, PrefixConcat
<1>3. \A b, c \in BasePaths, t \in Folders :
         IsPrefix(b, c \o t) => \E r \in Folders : c \o t = b \o r
  BY LayersAssumption DEF Folders
<1>4. PICK r \in Folders : s = base \o r
  <2>1. PICK c \in BasePaths, t \in Folders : s = c \o t
    BY <1>1
  <2>2. IsPrefix(base, c \o t)
    BY <1>2, <2>1
  <2>3. \E r \in Folders : c \o t = base \o r
    BY <1>3, <2>2
  <2> QED
    BY <2>1, <2>3
<1>5. q = r
  BY <1>2, <1>4, FoldersAre, ConcatSimplifications
<1> QED
  BY <1>5

-----------------------------------------------------------------------------
(* The folders on disk stay trees.                                         *)

FoldersInv ==
    /\ fs = [p \in DOMAIN fs |-> fs[p]]
    /\ DOMAIN fs \subseteq BasePaths \cup Nodes
    /\ \A p \in DOMAIN fs : fs[p] \in Contents \cup {Directory}
    /\ \A base \in BasePaths : base \in DOMAIN fs /\ fs[base] = Directory
    /\ \A p \in DOMAIN fs \cap Nodes : Lookup(fs, Front(p)) = Directory

LEMMA NodesAre ==
  /\ Nodes \subseteq Seq(Names)
  /\ \A p \in Nodes : p # <<>> /\ Front(p) # p
<1> SUFFICES ASSUME NEW node \in Nodes
             PROVE  node \in Seq(Names) /\ node # <<>> /\ Front(node) # node
  OBVIOUS
<1>1. PICK base \in BasePaths, p \in TreePaths : node = base \o p
  BY DEF Nodes
<1>2. base \in Seq(Names) /\ p \in Seq(Names) /\ p # <<>>
  BY BasesAre, LayersAssumption
<1>3. node \in Seq(Names) /\ node # <<>>
  BY <1>1, <1>2, ConcatProperties, ConcatEqualIffEmpty
<1>4. Front(node) \in Seq(Names) /\ Len(node) = Len(Front(node)) + 1
  BY <1>3, FrontProperties
<1>5. Len(Front(node)) \in Nat
  BY <1>4, LenProperties
<1> QED
  BY <1>3, <1>4, <1>5

LEMMA InitFolders == ASSUME fs \in Trees PROVE FoldersInv
<1> DEFINE Partial(f) == [p \in BasePaths \cup {q \in Nodes : f[q] # Nil} |->
                            IF p \in BasePaths THEN Directory ELSE f[p]]
<1>1. PICK f \in [Nodes -> Contents \cup {Directory, Nil}] : fs = Partial(f)
  BY DEF Trees
<1>2. \A p \in DOMAIN fs \cap Nodes : Lookup(fs, Front(p)) = Directory
  BY DEF Trees
<1>3. /\ DOMAIN fs = BasePaths \cup {q \in Nodes : f[q] # Nil}
      /\ fs = [p \in DOMAIN fs |-> fs[p]]
      /\ \A p \in DOMAIN fs : fs[p] = IF p \in BasePaths THEN Directory ELSE f[p]
  BY <1>1
<1>4. \A p \in DOMAIN fs : fs[p] \in Contents \cup {Directory}
  BY <1>3
<1>5. \A base \in BasePaths : base \in DOMAIN fs /\ fs[base] = Directory
  BY <1>3
<1> QED
  BY <1>2, <1>3, <1>4, <1>5 DEF FoldersInv

LEMMA RewriteFolders ==
  ASSUME FoldersInv, NEW path \in Nodes \ BasePaths,
         NEW node \in Contents \cup {Directory, Nil}, Rewrite(path, node)
  PROVE  FoldersInv'
<1>1. ASSUME NEW p \in DOMAIN fs, p # <<>> PROVE Front(p) # path
  <2>1. Scandir(fs, path) = {}
    BY DEF Rewrite
  <2> SUFFICES ASSUME Front(p) = path PROVE FALSE
    OBVIOUS
  <2>2. p \in {q \in DOMAIN fs : q # <<>> /\ Front(q) = path}
    BY <1>1
  <2>3. Last(p) \in Scandir(fs, path)
    BY <2>2 DEF Scandir
  <2> QED
    BY <2>1, <2>3
<1>2. Front(path) # path /\ Lookup(fs, Front(path)) = Directory
  BY NodesAre DEF Rewrite
<1>3. \A p \in Nodes : p # <<>>
  BY NodesAre
<1>4. Directory # Nil /\ \A p : Lookup(fs, p) = Directory => p \in DOMAIN fs /\ fs[p] = Directory
  BY BundleAssumption DEF Lookup
<1>5. CASE node = Nil
  <2>1. fs' = Restrict(fs, DOMAIN fs \ {path})
    BY <1>5 DEF Rewrite
  <2>2. /\ fs' = [p \in DOMAIN fs \ {path} |-> fs[p]]
        /\ DOMAIN fs' = DOMAIN fs \ {path}
        /\ \A p \in DOMAIN fs \ {path} : fs'[p] = fs[p]
    BY <2>1 DEF Restrict
  <2>3. fs' = [p \in DOMAIN fs' |-> fs'[p]]
    BY <2>2
  <2>4. \A p \in DOMAIN fs' \cap Nodes : Lookup(fs', Front(p)) = Directory
    <3> SUFFICES ASSUME NEW p \in DOMAIN fs' \cap Nodes PROVE Lookup(fs', Front(p)) = Directory
      OBVIOUS
    <3>1. p \in DOMAIN fs \cap Nodes /\ Front(p) # path
      BY <1>1, <1>3, <2>2
    <3>2. Front(p) \in DOMAIN fs /\ fs[Front(p)] = Directory
      BY <1>4, <3>1 DEF FoldersInv
    <3> QED
      BY <2>2, <3>1, <3>2 DEF Lookup
  <2> QED
    BY <2>2, <2>3, <2>4 DEF FoldersInv
<1>6. CASE node # Nil
  <2>1. fs' = [p \in DOMAIN fs \cup {path} |-> IF p = path THEN node ELSE fs[p]]
    BY <1>6 DEF Rewrite
  <2>2. DOMAIN fs' = DOMAIN fs \cup {path}
    BY <2>1
  <2>3. /\ fs' = [p \in DOMAIN fs' |-> fs'[p]]
        /\ fs'[path] = node /\ \A p \in DOMAIN fs : p # path => fs'[p] = fs[p]
    BY <2>1
  <2>4. \A p \in DOMAIN fs' \cap Nodes : Lookup(fs', Front(p)) = Directory
    <3> SUFFICES ASSUME NEW p \in DOMAIN fs' \cap Nodes PROVE Lookup(fs', Front(p)) = Directory
      OBVIOUS
    <3>1. Front(p) # path /\ Lookup(fs, Front(p)) = Directory
      <4>1. CASE p = path
        BY <1>2, <4>1
      <4>2. CASE p # path
        BY <1>1, <1>3, <2>2, <4>2 DEF FoldersInv
      <4> QED
        BY <4>1, <4>2
    <3>2. Front(p) \in DOMAIN fs /\ fs[Front(p)] = Directory
      BY <1>4, <3>1
    <3> QED
      BY <2>2, <2>3, <3>1, <3>2 DEF Lookup
  <2>5. \A p \in DOMAIN fs' : fs'[p] \in Contents \cup {Directory}
    BY <1>6, <2>2, <2>3 DEF FoldersInv
  <2>6. \A base \in BasePaths : base \in DOMAIN fs' /\ fs'[base] = Directory
    BY <2>2, <2>3 DEF FoldersInv
  <2> QED
    BY <2>2, <2>3, <2>4, <2>5, <2>6 DEF FoldersInv
<1> QED
  BY <1>5, <1>6

(* Every edit of a folder keeps it a tree; the build itself changes none.  *)
THEOREM FoldersStayTrees == Spec => []FoldersInv
<1>1. Init => FoldersInv
  BY InitFolders DEF Init
<1>2. FoldersInv /\ [Next]_vars => FoldersInv'
  <2> SUFFICES ASSUME FoldersInv, [Next]_vars PROVE FoldersInv'
    OBVIOUS
  <2>1. CASE Build
    <3>1. fs' = fs
      BY <2>1 DEF Build, OpenTarget, CopyRuntime, ReadFolder, CopyFolderReturns,
                  NextName, StatName, SizeFile, OpenFile, AddFile, WriteArchive
    <3> QED
      BY <3>1 DEF FoldersInv, Lookup
  <2>2. CASE Edit
    <3>1. PICK path \in Nodes \ BasePaths, node \in Contents \cup {Directory, Nil} :
             Rewrite(path, node)
      BY <2>2 DEF Edit
    <3> QED
      BY <3>1, RewriteFolders
  <2>3. CASE UNCHANGED vars
    <3>1. fs' = fs
      BY <2>3 DEF vars
    <3> QED
      BY <3>1 DEF FoldersInv, Lookup
  <2> QED
    BY <2>1, <2>2, <2>3 DEF Next
<1> QED
  BY <1>1, <1>2, PTL DEF Spec

-----------------------------------------------------------------------------
(* What the bundle of these folders answers.                               *)

LEMMA NilIsNothing ==
  /\ Nil \notin Contents \cup {Directory} /\ Directory \notin Contents
  /\ Unreadable \subseteq Contents
  /\ \A node : node \in Readable <=> node \in Contents /\ node \notin Unreadable
  /\ \A node : /\ TypeOf(node) = Nil <=> node = Nil
               /\ TypeOf(node) = "directory" <=> node = Directory
               /\ TypeOf(node) = "file" <=> node \notin {Nil, Directory}
  /\ \A names \in SUBSET Names : names # Nil
<1>1. /\ Nil \notin Contents \cup {Directory} /\ Directory \notin Contents
      /\ Unreadable \subseteq Contents
      /\ Nil # "file" /\ Nil # "directory"
      /\ \A names \in SUBSET Names : names # Nil
  BY BundleAssumption
<1> QED
  BY <1>1 DEF TypeOf, Readable

\* The first of the results that is not nil.
LEMMA FirstOfIs ==
  ASSUME NEW n \in Nat, NEW results, DOMAIN results = 1 .. n
  PROVE  \/ FirstOf(results) = Nil /\ \A i \in 1 .. n : results[i] = Nil
         \/ \E i \in 1 .. n : /\ results[i] # Nil /\ FirstOf(results) = results[i]
                              /\ \A j \in 1 .. i - 1 : results[j] = Nil
<1> DEFINE S == {i \in DOMAIN results : results[i] # Nil}
<1>1. CASE S = {}
  BY <1>1 DEF FirstOf
<1>2. CASE S # {}
  <2>1. S \in SUBSET Nat
    OBVIOUS
  <2> DEFINE m == Min(S)
  <2>2. m \in S /\ \A i \in S : m <= i
    <3> HIDE DEF S
    <3> QED
      BY <1>2, <2>1, MinIs
  <2>3. FirstOf(results) = results[m]
    BY <1>2 DEF FirstOf
  <2> HIDE DEF m
  <2>4. m \in 1 .. n /\ results[m] # Nil
    BY <2>2
  <2>5. ASSUME NEW j \in 1 .. m - 1 PROVE results[j] = Nil
    <3>1. j \in 1 .. n /\ ~(m <= j)
      BY <2>4
    <3> QED
      BY <2>2, <3>1
  <2> QED
    BY <2>3, <2>4, <2>5
<1> QED
  BY <1>1, <1>2

\* What the i-th folder has at a path.
Node(i, q) == Lookup(fs, Bases[i] \o q)

LEMMA NodeIs ==
  ASSUME FoldersInv, NEW i \in 1 .. Len(Bases), NEW q \in Seq(Names)
  PROVE  /\ Node(i, q) \in Contents \cup {Directory, Nil}
         /\ Node(i, q) # Nil <=> Bases[i] \o q \in DOMAIN fs
         /\ Node(i, q) # Nil => q \in Folders
<1>1. /\ Node(i, q) \in Contents \cup {Directory, Nil}
      /\ Node(i, q) # Nil <=> Bases[i] \o q \in DOMAIN fs
  BY NilIsNothing DEF FoldersInv, Node, Lookup
<1>2. ASSUME Bases[i] \o q \in DOMAIN fs PROVE q \in Folders
  <2>1. Bases[i] \in BasePaths /\ Bases[i] \o q \in BasePaths \cup Nodes
    BY <1>2, BasesAre DEF FoldersInv
  <2> QED
    BY <2>1, BelowBase
<1> QED
  BY <1>1, <1>2

LEMMA ScandirIs ==
  ASSUME FoldersInv, NEW i \in 1 .. Len(Bases), NEW q \in Seq(Names)
  PROVE  Scandir(fs, Bases[i] \o q) = {name \in Names : Node(i, Append(q, name)) # Nil}
<1>1. Bases[i] \in Seq(Names) /\ Bases[i] \o q \in Seq(Names)
  BY BasesAre, ConcatProperties
<1>2. \A name \in Names : /\ Append(q, name) \in Seq(Names)
                          /\ Bases[i] \o Append(q, name) = Append(Bases[i] \o q, name)
  <2> TAKE name \in Names
  <2>1. Append(q, name) \in Seq(Names)
    BY AppendProperties
  <2>2. \A s, t \in Seq(Names) : s \o Append(t, name) = Append(s \o t, name)
    BY ConcatAppend
  <2> QED
    BY <1>1, <2>1, <2>2, Zenon
<1>3. \A name \in Names : Node(i, Append(q, name)) # Nil
                            <=> Append(Bases[i] \o q, name) \in DOMAIN fs
  BY <1>2, NodeIs
<1> DEFINE dir == Bases[i] \o q
<1> HIDE DEF dir
<1>4. ASSUME NEW c \in DOMAIN fs, c # <<>>, Front(c) = dir
      PROVE  Last(c) \in Names /\ Append(dir, Last(c)) \in DOMAIN fs
  <2>1. c \in Seq(Names)
    BY BasesAre, NodesAre DEF FoldersInv
  <2> QED
    BY <1>4, <2>1, FrontProperties
<1>5. ASSUME NEW name \in Names, Append(dir, name) \in DOMAIN fs
      PROVE  name \in Scandir(fs, dir)
  <2>1. dir \in Seq(Names)
    BY <1>1 DEF dir
  <2>2. Append(dir, name) # <<>> /\ Front(Append(dir, name)) = dir /\ Last(Append(dir, name)) = name
    BY <2>1, AppendProperties, FrontAppend
  <2>3. Append(dir, name) \in {c \in DOMAIN fs : c # <<>> /\ Front(c) = dir}
    BY <1>5, <2>2
  <2> QED
    BY <2>2, <2>3 DEF Scandir
<1>6. ASSUME NEW name \in Scandir(fs, dir) PROVE name \in Names /\ Append(dir, name) \in DOMAIN fs
  <2>1. PICK c \in {p \in DOMAIN fs : p # <<>> /\ Front(p) = dir} : name = Last(c)
    BY <1>6 DEF Scandir
  <2> QED
    BY <1>4, <2>1
<1>7. \A name \in Names : Node(i, Append(q, name)) # Nil <=> Append(dir, name) \in DOMAIN fs
  BY <1>3 DEF dir
<1>8. Scandir(fs, dir) = {name \in Names : Node(i, Append(q, name)) # Nil}
  BY <1>5, <1>6, <1>7
<1> QED
  BY <1>8 DEF dir

\* The names that some folder lists at a path.
Listed(q) == {name \in Names : \E i \in 1 .. Len(Bases) : /\ Node(i, q) = Directory
                                                         /\ Node(i, Append(q, name)) # Nil}

LEMMA FolderAnswers ==
  ASSUME FoldersInv, NEW i \in 1 .. Len(Bases), NEW p \in Paths, StaysBelow(p)
  PROVE  LET q == Walk(<<>>, p)
             one == folderBundle(fs, Bases[i])
         IN  /\ q \in Seq(Names)
             /\ one.stat[p] = TypeOf(Node(i, q))
             /\ one.readfile[p] = IF Node(i, q) \in Readable THEN Node(i, q) ELSE Nil
             /\ one.readdir[p] = IF Node(i, q) = Directory
                                 THEN {name \in Names : Node(i, Append(q, name)) # Nil}
                                 ELSE Nil
<1> DEFINE q == Walk(<<>>, p)
<1>1. p \in Seq(Parts) /\ q \in Seq(Names) /\ Bases[i] \in Seq(Names)
  BY BundleAssumption, BasesAre, EmptySeq, WalkType
<1>2. FolderPath(Bases[i], p) = Bases[i] \o q
  BY <1>1, FolderPathIs
<1> HIDE DEF q
<1>3. Lookup(fs, FolderPath(Bases[i], p)) = Node(i, q)
  BY <1>2 DEF Node
<1>4. Scandir(fs, FolderPath(Bases[i], p)) = {name \in Names : Node(i, Append(q, name)) # Nil}
  BY <1>1, <1>2, ScandirIs
<1>5. folderBundle(fs, Bases[i]).stat[p] = TypeOf(Node(i, q))
  BY <1>3 DEF folderBundle
<1>6. folderBundle(fs, Bases[i]).readfile[p] = IF Node(i, q) \in Readable THEN Node(i, q) ELSE Nil
  BY <1>3 DEF folderBundle
<1>7. folderBundle(fs, Bases[i]).readdir[p]
        = IF Node(i, q) = Directory THEN Scandir(fs, FolderPath(Bases[i], p)) ELSE Nil
  BY <1>3 DEF folderBundle
<1> QED
  BY <1>1, <1>4, <1>5, <1>6, <1>7 DEF q

\* r is what the first folder that has something at q says.
StatIs(q, r) ==
    \/ r = Nil /\ \A i \in 1 .. Len(Bases) : Node(i, q) = Nil
    \/ \E i \in 1 .. Len(Bases) : /\ Node(i, q) # Nil /\ r = TypeOf(Node(i, q))
                                  /\ \A j \in 1 .. i - 1 : Node(j, q) = Nil

\* r is what the first folder with a file to be read at q has in it.
ReadIs(q, r) ==
    \/ r = Nil /\ \A i \in 1 .. Len(Bases) : Node(i, q) \notin Readable
    \/ \E i \in 1 .. Len(Bases) : /\ Node(i, q) \in Readable /\ r = Node(i, q)
                                  /\ \A j \in 1 .. i - 1 : Node(j, q) \notin Readable

\* r names what is in the directories at q; several folders list no nothing.
ListIs(q, r) ==
    r = IF \/ \A i \in 1 .. Len(Bases) : Node(i, q) # Directory
           \/ Len(Bases) > 1 /\ Listed(q) = {}
        THEN Nil
        ELSE Listed(q)

LEMMA BundleAnswers ==
  ASSUME FoldersInv, NEW p \in Paths, StaysBelow(p)
  PROVE  LET q == Walk(<<>>, p)
         IN  /\ q \in Seq(Names)
             /\ StatIs(q, bundle.stat[p])
             /\ ReadIs(q, bundle.readfile[p])
             /\ ListIs(q, bundle.readdir[p])
<1> DEFINE q == Walk(<<>>, p)
           n == Len(Bases)
           folders == [i \in DOMAIN Bases |-> folderBundle(fs, Bases[i])]
           names(i) == {name \in Names : Node(i, Append(q, name)) # Nil}
<1>1. n \in Nat \ {0} /\ DOMAIN Bases = 1 .. n
  BY BasesAre
<1>2. q \in Seq(Names)
  <2>1. 1 \in 1 .. n
    BY <1>1
  <2> QED
    BY <2>1, FolderAnswers
<1> HIDE DEF q
<1>3. \A i \in 1 .. n :
         /\ folders[i].stat[p] = TypeOf(Node(i, q))
         /\ folders[i].readfile[p] = IF Node(i, q) \in Readable THEN Node(i, q) ELSE Nil
         /\ folders[i].readdir[p] = IF Node(i, q) = Directory THEN names(i) ELSE Nil
  BY <1>1, FolderAnswers DEF q
<1>4. DOMAIN folders = 1 .. n /\ Len(folders) = n
  <2>1. folders \in [1 .. n -> {folders[i] : i \in 1 .. n}]
    BY <1>1
  <2> HIDE DEF folders
  <2> QED
    BY <1>1, <2>1, FunctionIsSeq, LenProperties
<1>5. bundle = IF n = 1 THEN folders[1] ELSE combinedBundle(folders)
  BY <1>4 DEF bundle, makeBundle
<1>6. /\ \A i : names(i) \in SUBSET Names
      /\ \A name : name \in Listed(q)
            <=> \E i \in 1 .. n : Node(i, q) = Directory /\ name \in names(i)
  BY DEF Listed
<1> HIDE DEF folders, names, n
<1>7. CASE n = 1
  <2>1. bundle = folders[1] /\ 1 \in 1 .. n
    BY <1>5, <1>7
  <2>2. /\ bundle.stat[p] = TypeOf(Node(1, q))
        /\ bundle.readfile[p] = IF Node(1, q) \in Readable THEN Node(1, q) ELSE Nil
        /\ bundle.readdir[p] = IF Node(1, q) = Directory THEN names(1) ELSE Nil
    BY <1>3, <2>1
  <2>3. \A i : i \in 1 .. n <=> i = 1
    BY <1>7
  <2>4. \A i : i \notin 1 .. 1 - 1
    OBVIOUS
  <2>5. StatIs(q, bundle.stat[p])
    BY <2>2, <2>3, <2>4, NilIsNothing DEF StatIs, n
  <2>6. ReadIs(q, bundle.readfile[p])
    BY <2>2, <2>3, <2>4 DEF ReadIs, n
  <2>7. ListIs(q, bundle.readdir[p])
    <3>1. Node(1, q) = Directory => Listed(q) = names(1)
      BY <1>6, <2>3
    <3> QED
      BY <1>7, <2>2, <2>3, <3>1 DEF ListIs, n
  <2> QED
    BY <1>2, <2>5, <2>6, <2>7 DEF q
<1>8. CASE n # 1
  <2>1. bundle = combinedBundle(folders)
    BY <1>5, <1>8
  <2>2. StatIs(q, bundle.stat[p])
    <3> DEFINE r == [i \in DOMAIN folders |-> folders[i].stat[p]]
    <3>1. bundle.stat[p] = FirstOf(r)
      BY <2>1 DEF combinedBundle, FirstAnswer
    <3>2. DOMAIN r = 1 .. n /\ \A i \in 1 .. n : r[i] = TypeOf(Node(i, q))
      BY <1>3, <1>4
    <3>3. \A i \in 1 .. n : \A j \in 1 .. i - 1 : j \in 1 .. n
      BY <1>1
    <3> HIDE DEF r
    <3>4. \/ FirstOf(r) = Nil /\ \A i \in 1 .. n : r[i] = Nil
          \/ \E i \in 1 .. n : /\ r[i] # Nil /\ FirstOf(r) = r[i]
                               /\ \A j \in 1 .. i - 1 : r[j] = Nil
      BY <1>1, <3>2, FirstOfIs
    <3> QED
      BY <3>1, <3>2, <3>3, <3>4, NilIsNothing DEF StatIs, n
  <2>3. ReadIs(q, bundle.readfile[p])
    <3> DEFINE r == [i \in DOMAIN folders |-> folders[i].readfile[p]]
    <3>1. bundle.readfile[p] = FirstOf(r)
      BY <2>1 DEF combinedBundle, FirstAnswer
    <3>2. DOMAIN r = 1 .. n
          /\ \A i \in 1 .. n : r[i] = IF Node(i, q) \in Readable THEN Node(i, q) ELSE Nil
      BY <1>3, <1>4
    <3>3. \A i \in 1 .. n : \A j \in 1 .. i - 1 : j \in 1 .. n
      BY <1>1
    <3> HIDE DEF r
    <3>4. \/ FirstOf(r) = Nil /\ \A i \in 1 .. n : r[i] = Nil
          \/ \E i \in 1 .. n : /\ r[i] # Nil /\ FirstOf(r) = r[i]
                               /\ \A j \in 1 .. i - 1 : r[j] = Nil
      BY <1>1, <3>2, FirstOfIs
    <3> QED
      BY <3>1, <3>2, <3>3, <3>4, NilIsNothing DEF ReadIs, n
  <2>4. ListIs(q, bundle.readdir[p])
    <3> DEFINE r == [i \in DOMAIN folders |-> folders[i].readdir[p]]
               all == UNION {r[i] : i \in {j \in DOMAIN r : r[j] # Nil}}
    <3>1. bundle.readdir[p] = IF all = {} THEN Nil ELSE all
      BY <2>1 DEF combinedBundle, MergedList
    <3>2. DOMAIN r = 1 .. n
          /\ \A i \in 1 .. n : r[i] = IF Node(i, q) = Directory THEN names(i) ELSE Nil
      BY <1>3, <1>4
    <3> HIDE DEF r
    <3>3. \A i \in 1 .. n : r[i] # Nil <=> Node(i, q) = Directory
      BY <1>6, <3>2, NilIsNothing
    <3>4. \A name : name \in all
                      <=> \E i \in 1 .. n : Node(i, q) = Directory /\ name \in names(i)
      BY <3>2, <3>3
    <3> HIDE DEF all
    <3>5. all = Listed(q)
      BY <1>6, <3>4
    <3>6. (\A i \in 1 .. n : Node(i, q) # Directory) => Listed(q) = {}
      BY DEF Listed, n
    <3>7. n > 1
      BY <1>1, <1>8
    <3> QED
      BY <3>1, <3>5, <3>6, <3>7 DEF ListIs, n
  <2> QED
    BY <1>2, <2>2, <2>3, <2>4 DEF q
<1> QED
  BY <1>7, <1>8

-----------------------------------------------------------------------------
(* The layers.                                                             *)

\* What is in a folder is in one of its directories.
LEMMA ParentIs ==
  ASSUME FoldersInv, NEW i \in 1 .. Len(Bases), NEW q \in Seq(Names), NEW name \in Names,
         Node(i, Append(q, name)) # Nil
  PROVE  Node(i, q) = Directory /\ Append(q, name) \in TreePaths
<1> DEFINE r == Append(q, name)
<1>1. r \in Seq(Names) /\ r # <<>>
  BY AppendProperties
<1>2. r \in TreePaths /\ Bases[i] \o r \in DOMAIN fs
  BY <1>1, NodeIs DEF Folders
<1>3. Bases[i] \in BasePaths /\ Bases[i] \in Seq(Names)
  BY BasesAre
<1>4. Front(Bases[i] \o r) = Bases[i] \o q
  <2>1. \A s, t \in Seq(Names) : s \o Append(t, name) = Append(s \o t, name)
                                 /\ s \o t \in Seq(Names)
    BY ConcatAppend, ConcatProperties
  <2>2. Bases[i] \o r = Append(Bases[i] \o q, name) /\ Bases[i] \o q \in Seq(Names)
    BY <1>3, <2>1
  <2> QED
    BY <2>2, FrontAppend
<1> HIDE DEF r
<1>5. Bases[i] \o r \in Nodes
  <2>1. \A base \in BasePaths, p \in TreePaths : base \o p \in Nodes
    BY DEF Nodes
  <2> QED
    BY <1>2, <1>3, <2>1
<1>6. Lookup(fs, Front(Bases[i] \o r)) = Directory
  BY <1>2, <1>5 DEF FoldersInv
<1> QED
  BY <1>2, <1>4, <1>6 DEF Node, r

\* combinedBundle asks the folders in turn (luvibundle.lua:228, 267).
THEOREM UpperFileWinsAlways == Spec => []UpperFileWins
<1>1. FoldersInv => UpperFileWins
  <2> SUFFICES ASSUME FoldersInv, NEW p \in TreePaths, Node(1, p) \in Contents
               PROVE  /\ bundle.stat[p] = "file"
                      /\ Node(1, p) \in Readable => bundle.readfile[p] = Node(1, p)
    BY NilIsNothing DEF UpperFileWins, Node
  <2>1. p \in Paths /\ StaysBelow(p) /\ Walk(<<>>, p) = p /\ 1 \in 1 .. Len(Bases)
    BY FoldersAre, BasesAre DEF Folders
  <2>2. StatIs(p, bundle.stat[p]) /\ ReadIs(p, bundle.readfile[p])
    BY <2>1, BundleAnswers
  <2>3. Node(1, p) \notin {Nil, Directory}
    BY NilIsNothing
  <2>4. \A i \in 1 .. Len(Bases) : i # 1 => 1 \in 1 .. i - 1
    OBVIOUS
  <2>5. bundle.stat[p] = TypeOf(Node(1, p))
    BY <2>1, <2>2, <2>3, <2>4 DEF StatIs
  <2>6. Node(1, p) \in Readable => bundle.readfile[p] = Node(1, p)
    BY <2>1, <2>2, <2>4 DEF ReadIs
  <2> QED
    BY <2>3, <2>5, <2>6, NilIsNothing
<1> QED
  BY <1>1, FoldersStayTrees, PTL

\* A listing names what stat finds, and nothing else.
LEMMA ListedThere ==
  ASSUME FoldersInv, NEW p \in Folders, NEW name \in Names
  PROVE  /\ name \in Listed(p) <=> \E i \in 1 .. Len(Bases) : Node(i, Append(p, name)) # Nil
         /\ bundle.readdir[p] # Nil /\ name \in bundle.readdir[p] <=> name \in Listed(p)
         /\ bundle.readdir[p] # Nil => bundle.readdir[p] = Listed(p)
<1>1. p \in Paths /\ p \in Seq(Names) /\ StaysBelow(p) /\ Walk(<<>>, p) = p
  BY FoldersAre
<1>2. ListIs(p, bundle.readdir[p])
  BY <1>1, BundleAnswers
<1>3. name \in Listed(p) <=> \E i \in 1 .. Len(Bases) : Node(i, Append(p, name)) # Nil
  BY <1>1, ParentIs DEF Listed
<1>4. /\ Listed(p) # Nil
      /\ (\A i \in 1 .. Len(Bases) : Node(i, p) # Directory) => Listed(p) = {}
  <2>1. Listed(p) \in SUBSET Names
    BY DEF Listed
  <2>2. Listed(p) # Nil
    BY <2>1, NilIsNothing
  <2> QED
    BY <2>2 DEF Listed
<1>5. bundle.readdir[p] # Nil /\ name \in bundle.readdir[p] <=> name \in Listed(p)
  BY <1>2, <1>4 DEF ListIs
<1>6. bundle.readdir[p] # Nil => bundle.readdir[p] = Listed(p)
  BY <1>2 DEF ListIs
<1> QED
  BY <1>3, <1>5, <1>6

LEMMA StatThere ==
  ASSUME FoldersInv, NEW p \in Folders
  PROVE  bundle.stat[p] # Nil <=> \E i \in 1 .. Len(Bases) : Node(i, p) # Nil
<1>1. p \in Paths /\ StaysBelow(p) /\ Walk(<<>>, p) = p
  BY FoldersAre
<1>2. StatIs(p, bundle.stat[p])
  BY <1>1, BundleAnswers
<1> QED
  BY <1>2, NilIsNothing DEF StatIs

\* A walk over the listings of the merged folders finds all that is there
\* (luvibundle.lua:244).
THEOREM ListedIsThereAlways == Spec => []ListedIsThere
<1>1. FoldersInv => ListedIsThere
  <2> SUFFICES ASSUME FoldersInv, NEW p \in TreePaths
               PROVE  bundle.stat[p] # Nil
                        <=> /\ bundle.readdir[Front(p)] # Nil
                            /\ Last(p) \in bundle.readdir[Front(p)]
    BY DEF ListedIsThere
  <2>1. p \in Seq(Names) /\ p # <<>> /\ Front(p) \in Folders /\ p \in Folders
    BY LayersAssumption DEF Folders
  <2>2. Last(p) \in Names /\ p = Append(Front(p), Last(p))
    BY <2>1, FrontProperties
  <2>3. (\E i \in 1 .. Len(Bases) : Node(i, p) # Nil)
          <=> /\ bundle.readdir[Front(p)] # Nil
              /\ Last(p) \in bundle.readdir[Front(p)]
    BY <2>1, <2>2, ListedThere
  <2> QED
    BY <2>1, <2>2, StatThere, ListedThere
<1> QED
  BY <1>1, FoldersStayTrees, PTL

\* The folder the layers stand for has what the first of them has.
LEMMA OverlayIs ==
  ASSUME FoldersInv, NEW q \in Seq(Names)
  PROVE  LET node == Lookup(Overlay, q)
         IN  /\ \A i \in 1 .. Len(Bases) :
                  Node(i, q) # Nil /\ (\A j \in 1 .. i - 1 : Node(j, q) = Nil)
                    => node = Node(i, q)
             /\ (\A i \in 1 .. Len(Bases) : Node(i, q) = Nil) => node = Nil
<1> DEFINE n == Len(Bases)
           S == {j \in DOMAIN Bases : Bases[j] \o q \in DOMAIN fs}
           There == {<<>>} \cup {p \in TreePaths : \E base \in BasePaths : base \o p \in DOMAIN fs}
<1>1. n \in Nat \ {0} /\ DOMAIN Bases = 1 .. n
  BY BasesAre
<1>2. \A i \in 1 .. n : i \in S <=> Node(i, q) # Nil
  BY <1>1, NodeIs
<1>3. DOMAIN Overlay = There
  BY DEF Overlay
<1>4. q \in There => Overlay[q] = fs[Bases[Min(S)] \o q]
  BY DEF Overlay
<1>5. S \in SUBSET Nat
  BY <1>1
<1>6. ASSUME NEW i \in 1 .. n, Node(i, q) # Nil, \A j \in 1 .. i - 1 : Node(j, q) = Nil
      PROVE  Lookup(Overlay, q) = Node(i, q)
  <2>1. i \in S /\ Bases[i] \o q \in DOMAIN fs
    BY <1>2, <1>6
  <2>2. q \in There
    <3>1. q \in Folders /\ Bases[i] \in BasePaths
      BY <1>6, NodeIs, BasesAre
    <3>2. q # <<>> => \E base \in BasePaths : base \o q \in DOMAIN fs
      BY <2>1, <3>1, Zenon
    <3> QED
      BY <3>1, <3>2 DEF Folders
  <2> HIDE DEF S, There
  <2> DEFINE m == Min(S)
  <2>3. m \in S /\ \A j \in S : m <= j
    BY <1>5, <2>1, MinIs
  <2> HIDE DEF m
  <2>4. m = i
    <3>1. m \in 1 .. n /\ Node(m, q) # Nil /\ m <= i
      BY <1>1, <1>2, <2>1, <2>3 DEF S
    <3>2. m \notin 1 .. i - 1
      BY <1>6, <3>1
    <3> QED
      BY <1>1, <3>1, <3>2
  <2>5. Overlay[q] = fs[Bases[i] \o q]
    BY <1>4, <2>2, <2>4 DEF m
  <2> QED
    BY <1>3, <2>1, <2>2, <2>5 DEF Lookup, Node
<1>7. ASSUME \A i \in 1 .. n : Node(i, q) = Nil PROVE Lookup(Overlay, q) = Nil
  <2>1. \A base \in BasePaths : base \o q \notin DOMAIN fs
    <3> SUFFICES ASSUME NEW i \in 1 .. n PROVE Bases[i] \o q \notin DOMAIN fs
      BY <1>1 DEF BasePaths
    <3> QED
      BY <1>7, NodeIs
  <2>2. q # <<>>
    <3> SUFFICES ASSUME q = <<>> PROVE FALSE
      OBVIOUS
    <3>1. 1 \in 1 .. n
      BY <1>1
    <3>2. Bases[1] \in BasePaths /\ Bases[1] \in Seq(Names)
      BY <3>1, BasesAre
    <3>3. Bases[1] \o q = Bases[1]
      BY <3>2, ConcatEmptySeq
    <3> QED
      BY <2>1, <3>2, <3>3 DEF FoldersInv
  <2>3. q \notin There
    BY <2>1, <2>2
  <2> QED
    BY <1>3, <2>3 DEF Lookup
<1> QED
  BY <1>6, <1>7

\* The answers of a folder at the root of a tree.
LEMMA OverlayAnswers ==
  ASSUME FoldersInv, NEW p \in Paths, StaysBelow(p)
  PROVE  LET q == Walk(<<>>, p)
             node == Lookup(Overlay, q)
             one == folderBundle(Overlay, <<>>)
         IN  /\ one.stat[p] = TypeOf(node)
             /\ one.readfile[p] = IF node \in Readable THEN node ELSE Nil
             /\ one.readdir[p] = IF node = Directory
                                 THEN {name \in Names : Append(q, name) \in DOMAIN Overlay}
                                 ELSE Nil
<1> DEFINE q == Walk(<<>>, p)
           node == Lookup(Overlay, q)
           one == folderBundle(Overlay, <<>>)
<1>1. p \in Seq(Parts) /\ q \in Seq(Names) /\ <<>> \in Seq(Names) /\ <<>> \o q = q
  <2>1. p \in Seq(Parts) /\ <<>> \in Seq(Names)
    BY BundleAssumption, EmptySeq
  <2> QED
    BY <2>1, WalkType, ConcatEmptySeq
<1>2. FolderPath(<<>>, p) = q
  BY <1>1, FolderPathIs
<1> HIDE DEF q
<1>3. /\ one.stat[p] = TypeOf(node)
      /\ one.readfile[p] = IF node \in Readable THEN node ELSE Nil
      /\ one.readdir[p] = IF node = Directory THEN Scandir(Overlay, q) ELSE Nil
  BY <1>2 DEF folderBundle
<1>4. DOMAIN Overlay \subseteq Seq(Names)
  BY FoldersAre DEF Overlay, Folders
<1>5. Scandir(Overlay, q) = {name \in Names : Append(q, name) \in DOMAIN Overlay}
  <2> DEFINE D == DOMAIN Overlay
  <2> HIDE DEF D
  <2>1. ASSUME NEW c \in D, c # <<>>, Front(c) = q
        PROVE  Last(c) \in Names /\ Append(q, Last(c)) \in D
    BY <1>4, <2>1, FrontProperties DEF D
  <2>2. ASSUME NEW name \in Names, Append(q, name) \in D
        PROVE  name \in {Last(c) : c \in {x \in D : x # <<>> /\ Front(x) = q}}
    <3>1. Append(q, name) # <<>> /\ Front(Append(q, name)) = q /\ Last(Append(q, name)) = name
      BY <1>1, AppendProperties, FrontAppend
    <3>2. Append(q, name) \in {x \in D : x # <<>> /\ Front(x) = q}
      BY <2>2, <3>1
    <3> QED
      BY <3>1, <3>2
  <2>3. {Last(c) : c \in {x \in D : x # <<>> /\ Front(x) = q}}
          = {name \in Names : Append(q, name) \in D}
    BY <2>1, <2>2
  <2> QED
    BY <2>3 DEF Scandir, D
<1> QED
  BY <1>3, <1>5 DEF q

\* Where folders agree, what they have is of the same kind.
LEMMA SameNode ==
  ASSUME FoldersInv, NEW q \in Seq(Names), Agree(q),
         NEW i \in 1 .. Len(Bases), NEW j \in 1 .. Len(Bases),
         Node(i, q) # Nil, Node(j, q) # Nil
  PROVE  /\ TypeOf(Node(i, q)) = TypeOf(Node(j, q))
         /\ Node(i, q) \in Readable <=> Node(j, q) \in Readable
<1> DEFINE node == Node(i, q)
           rest == Node(j, q)
<1>1. Bases[i] \in BasePaths /\ Bases[j] \in BasePaths
  BY BasesAre
<1>2. \/ Nil \in {node, rest}
      \/ node = rest
      \/ \E files \in {Readable, Unreadable} : {node, rest} \subseteq files
  BY <1>1 DEF Agree, Node
<1> HIDE DEF node, rest
<1>3. node # Nil /\ rest # Nil
  BY DEF node, rest
<1>4. \A m : m \in Contents => TypeOf(m) = "file"
  BY NilIsNothing
<1>5. TypeOf(node) = TypeOf(rest) /\ (node \in Readable <=> rest \in Readable)
  BY <1>2, <1>3, <1>4, NilIsNothing
<1> QED
  BY <1>5 DEF node, rest

\* A path is a prefix of itself, and those above it have fewer prefixes.
LEMMA UnmixedIs ==
  ASSUME NEW q \in Seq(Names), Unmixed(q)
  PROVE  Agree(q) /\ \A r \in Seq(Names) : IsPrefix(r, q) => Unmixed(r)
<1>1. \A s, t \in Seq(Names) : s \in Prefixes(t) <=> IsPrefix(s, t)
  BY PrefixesAre
<1>2. \A s \in Prefixes(q) : Agree(s)
  BY DEF Unmixed
<1>3. Agree(q)
  BY <1>1, <1>2, PrefixReflexive
<1>4. ASSUME NEW r \in Seq(Names), IsPrefix(r, q) PROVE Unmixed(r)
  <2>1. ASSUME NEW s \in Prefixes(r) PROVE Agree(s)
    <3>1. s \in Seq(Names)
      BY <2>1, PrefixesAre
    <3>2. IsPrefix(s, r)
      BY <1>1, <2>1, <3>1
    <3>3. IsPrefix(s, q)
      BY <1>4, <3>1, <3>2, PrefixTransitive
    <3> QED
      BY <1>1, <1>2, <3>1, <3>3
  <2> QED
    BY <2>1 DEF Unmixed
<1> QED
  BY <1>3, <1>4

LEMMA LayersMatch ==
  ASSUME FoldersInv, NEW p \in Paths, StaysBelow(p), Agree(Walk(<<>>, p))
  PROVE  LET one == folderBundle(Overlay, <<>>)
         IN  /\ bundle.stat[p] = one.stat[p]
             /\ bundle.readfile[p] = one.readfile[p]
             /\ bundle.readdir[p]
                  = IF Len(Bases) > 1 /\ one.readdir[p] = {} THEN Nil
                    ELSE one.readdir[p]
<1> DEFINE n == Len(Bases)
           q == Walk(<<>>, p)
           node == Lookup(Overlay, q)
           one == folderBundle(Overlay, <<>>)
           names == {name \in Names : Append(q, name) \in DOMAIN Overlay}
<1>1. n \in Nat \ {0}
  BY BasesAre
<1>2. /\ q \in Seq(Names)
      /\ StatIs(q, bundle.stat[p]) /\ ReadIs(q, bundle.readfile[p])
      /\ ListIs(q, bundle.readdir[p])
  BY BundleAnswers
<1>3. /\ one.stat[p] = TypeOf(node)
      /\ one.readfile[p] = IF node \in Readable THEN node ELSE Nil
      /\ one.readdir[p] = IF node = Directory THEN names ELSE Nil
      /\ Agree(q)
  BY OverlayAnswers
<1> HIDE DEF q
<1>4. /\ \A i \in 1 .. n :
           Node(i, q) # Nil /\ (\A j \in 1 .. i - 1 : Node(j, q) = Nil) => node = Node(i, q)
      /\ (\A i \in 1 .. n : Node(i, q) = Nil) => node = Nil
  BY <1>2, OverlayIs
<1> HIDE DEF node, one
<1>5. \/ node = Nil /\ \A i \in 1 .. n : Node(i, q) = Nil
      \/ \E i \in 1 .. n : /\ Node(i, q) # Nil /\ node = Node(i, q)
                           /\ \A j \in 1 .. i - 1 : Node(j, q) = Nil
  BY <1>2, <1>4 DEF StatIs
<1>6. \A i, j \in 1 .. n : Node(i, q) # Nil /\ Node(j, q) # Nil
                             => /\ TypeOf(Node(i, q)) = TypeOf(Node(j, q))
                                /\ Node(i, q) \in Readable <=> Node(j, q) \in Readable
  BY <1>2, <1>3, SameNode
<1>7. \A i \in 1 .. n : /\ Node(i, q) \in Contents \cup {Directory, Nil}
                        /\ Node(i, q) # Nil => TypeOf(Node(i, q)) = TypeOf(node)
  BY <1>2, <1>5, <1>6, NodeIs
<1>8. \A i \in 1 .. n : \A j \in 1 .. i - 1 : j \in 1 .. n
  BY <1>1
<1>9. bundle.stat[p] = one.stat[p]
  <2>1. CASE \A i \in 1 .. n : Node(i, q) = Nil
    BY <1>2, <1>3, <1>4, <2>1, NilIsNothing DEF StatIs
  <2>2. ASSUME NEW i \in 1 .. n, Node(i, q) # Nil, bundle.stat[p] = TypeOf(Node(i, q)),
               \A j \in 1 .. i - 1 : Node(j, q) = Nil
        PROVE  bundle.stat[p] = one.stat[p]
    BY <1>3, <1>4, <2>2
  <2> QED
    BY <1>2, <2>1, <2>2 DEF StatIs
<1>10. bundle.readfile[p] = one.readfile[p]
  <2>1. CASE \A i \in 1 .. n : Node(i, q) \notin Readable
    <3>1. bundle.readfile[p] = Nil
      BY <1>2, <2>1 DEF ReadIs
    <3>2. node \notin Readable
      BY <1>5, <2>1, NilIsNothing
    <3> QED
      BY <1>3, <3>1, <3>2
  <2>2. ASSUME NEW i \in 1 .. n, Node(i, q) \in Readable, bundle.readfile[p] = Node(i, q),
               \A j \in 1 .. i - 1 : Node(j, q) \notin Readable
        PROVE  bundle.readfile[p] = one.readfile[p]
    <3>1. Node(i, q) # Nil
      BY <2>2, NilIsNothing
    <3>2. ASSUME NEW j \in 1 .. i - 1 PROVE Node(j, q) = Nil
      BY <1>6, <1>8, <2>2, <3>1
    <3>3. node = Node(i, q)
      BY <1>4, <3>1, <3>2
    <3> QED
      BY <1>3, <2>2, <3>3
  <2> QED
    BY <1>2, <2>1, <2>2 DEF ReadIs
<1>11. bundle.readdir[p] = IF n > 1 /\ one.readdir[p] = {} THEN Nil ELSE one.readdir[p]
  <2>1. CASE node = Directory
    <3>1. \A name \in Names : Append(q, name) \in DOMAIN Overlay
                                <=> \E i \in 1 .. n : Node(i, Append(q, name)) # Nil
      <4> TAKE name \in Names
      <4>1. Append(q, name) \in Seq(Names) /\ Append(q, name) # <<>>
        BY <1>2, AppendProperties
      <4> DEFINE r == Append(q, name)
      <4> HIDE DEF r
      <4>2. r \in DOMAIN Overlay
              <=> r \in TreePaths /\ \E base \in BasePaths : base \o r \in DOMAIN fs
        BY <4>1 DEF Overlay, r
      <4>3. \A i \in 1 .. n : Node(i, r) # Nil <=> Bases[i] \o r \in DOMAIN fs
        BY <4>1, NodeIs DEF r
      <4>4. ASSUME NEW i \in 1 .. n, Node(i, r) # Nil PROVE r \in DOMAIN Overlay
        <5>1. r \in TreePaths
          BY <4>1, <4>4, NodeIs DEF Folders, r
        <5>2. Bases[i] \in BasePaths
          BY BasesAre
        <5>3. \E base \in BasePaths : base \o r \in DOMAIN fs
          BY <4>3, <4>4, <5>2, Zenon
        <5> QED
          BY <4>2, <5>1, <5>3
      <4>5. ASSUME NEW base \in BasePaths, base \o r \in DOMAIN fs
            PROVE  \E i \in 1 .. n : Node(i, r) # Nil
        <5>1. PICK i \in 1 .. n : base = Bases[i]
          BY BasesAre DEF BasePaths
        <5> QED
          BY <4>3, <4>5, <5>1
      <4>6. r \in DOMAIN Overlay <=> \E i \in 1 .. n : Node(i, r) # Nil
        BY <4>2, <4>4, <4>5
      <4> QED
        BY <4>6 DEF r
    <3>2. Listed(q) = names
      <4>1. \A name \in Names, i \in 1 .. n :
               Node(i, Append(q, name)) # Nil => Node(i, q) = Directory
        BY <1>2, ParentIs
      <4> QED
        BY <3>1, <4>1 DEF Listed
    <3>3. \E i \in 1 .. n : Node(i, q) = Directory
      BY <1>5, <2>1, NilIsNothing
    <3>4. bundle.readdir[p] = IF n > 1 /\ Listed(q) = {} THEN Nil ELSE Listed(q)
      BY <1>2, <3>3 DEF ListIs
    <3> QED
      BY <1>3, <2>1, <3>2, <3>4
  <2>2. CASE node # Directory
    <3>1. \A i \in 1 .. n : Node(i, q) # Directory
      BY <1>7, <2>2, NilIsNothing
    <3>2. bundle.readdir[p] = Nil
      BY <1>2, <3>1 DEF ListIs
    <3> QED
      BY <1>3, <2>2, <3>2
  <2> QED
    BY <2>1, <2>2
<1> QED
  BY <1>9, <1>10, <1>11 DEF one

\* combinedBundle is one virtual file system (luvibundle.lua:219), also for
\* paths that take detours through "..".
THEOREM LayersAreOneFolderAlways == Spec => []LayersAreOneFolder
<1>1. FoldersInv => LayersAreOneFolder
  <2> SUFFICES ASSUME FoldersInv, NEW p \in Paths, StaysBelow(p), Unmixed(Walk(<<>>, p))
               PROVE  LET one == folderBundle(Overlay, <<>>)
                      IN  /\ bundle.stat[p] = one.stat[p]
                          /\ bundle.readfile[p] = one.readfile[p]
                          /\ Len(Bases) = 1 \/ one.readdir[p] # {}
                                => bundle.readdir[p] = one.readdir[p]
    BY DEF LayersAreOneFolder
  <2>1. Walk(<<>>, p) \in Seq(Names)
    BY BundleAnswers
  <2>2. Agree(Walk(<<>>, p))
    BY <2>1, UnmixedIs
  <2> QED
    BY <2>2, LayersMatch
<1> QED
  BY <1>1, FoldersStayTrees, PTL

-----------------------------------------------------------------------------
(* What the build has in its hands.                                        *)

EntryData == LET files == Seq(Blocks)
             IN  files \cup {bytecode(ctx) : ctx \in files} \cup {Nil}

EntryType == [name : TreePaths, slash : BOOLEAN, data : EntryData]

Frame == [path : Folders, left : SUBSET Names]

Answer == [layer : 1 .. Len(Bases), names : SUBSET Names, size : Nat,
           opened : Contents \cup {Nil}]

\* The calls that are made for a name on a list.
Handling == {"stat", "size", "file", "read"}

BuildTypes ==
    /\ frames \in Seq(Frame)
    /\ \A k \in 1 .. Len(frames), name \in Names :
          name \in frames[k].left => Append(frames[k].path, name) \in TreePaths
    /\ child \in Folders
    /\ pc \in Handling => child \in TreePaths
    /\ asked \in Answer
    /\ pc = "readdir" => \A name \in asked.names : Append(child, name) \in TreePaths
    /\ pc = "read" => asked.opened \in Contents
    /\ pc \in {"open", "runtime"} => asked = Asking(1)
    /\ entries \in Seq(EntryType)
    /\ seen \in [Nodes -> SUBSET Contents]

\* The name taken from the list, and the path made of it.
Taken(name) ==
    /\ frames # <<>>
    /\ name \in Last(frames).left
    /\ frames' = [frames EXCEPT ![Len(frames)].left = @ \ {name}]

LEMMA TakenTypes ==
  ASSUME BuildTypes, NEW name, Taken(name)
  PROVE  LET n == Len(frames)
         IN  /\ n \in Nat /\ n >= 1 /\ Last(frames) = frames[n]
             /\ name \in Names /\ frames[n].path \in Folders /\ frames[n].path \in Seq(Names)
             /\ Append(frames[n].path, name) \in TreePaths
             /\ frames' \in Seq(Frame) /\ Len(frames') = n
             /\ \A k \in 1 .. n : /\ frames'[k].path = frames[k].path
                                  /\ frames'[k].left = IF k = n THEN frames[k].left \ {name}
                                                       ELSE frames[k].left
<1> DEFINE n == Len(frames)
<1>1. frames \in Seq(Frame) /\ n \in Nat \ {0} /\ n \in 1 .. n
  BY EmptySeq DEF BuildTypes, Taken
<1>2. \A k \in 1 .. n : frames[k] \in Frame
  BY <1>1, ElementOfSeq
<1>3. frames[n].path \in Folders /\ frames[n].left \in SUBSET Names /\ Last(frames) = frames[n]
  BY <1>1, <1>2 DEF Frame, Last
<1>4. name \in frames[n].left /\ name \in Names
  BY <1>3 DEF Taken
<1>5. Append(frames[n].path, name) \in TreePaths
  BY <1>1, <1>4 DEF BuildTypes
<1> DEFINE top == [frames[n] EXCEPT !.left = @ \ {name}]
<1>6. /\ top \in Frame /\ top.path = frames[n].path /\ top.left = frames[n].left \ {name}
  BY <1>1, <1>2 DEF Frame
<1>7. frames' = [frames EXCEPT ![n] = top]
  BY DEF Taken
<1> HIDE DEF top, n
<1>8. /\ frames' \in Seq(Frame) /\ Len(frames') = n
      /\ \A k \in 1 .. n : frames'[k] = IF k = n THEN top ELSE frames[k]
  BY <1>1, <1>6, <1>7, ExceptSeq DEF n
<1>9. \A k \in 1 .. n : /\ frames'[k].path = frames[k].path
                        /\ frames'[k].left = IF k = n THEN frames[k].left \ {name}
                                             ELSE frames[k].left
  BY <1>6, <1>8
<1>10. frames[n].path \in Seq(Names)
  BY <1>3, FoldersAre
<1>11. n \in Nat /\ n >= 1
  BY <1>1
<1> QED
  BY <1>3, <1>4, <1>5, <1>8, <1>9, <1>10, <1>11 DEF n

\* What the call under way is about.
LEMMA HereIs ==
  ASSUME BuildTypes
  PROVE  /\ asked.layer \in 1 .. Len(Bases) /\ Bases[asked.layer] \in BasePaths
         /\ child \in Folders /\ child \in Seq(Names)
         /\ Where = Bases[asked.layer] \o child
         /\ Here = Node(asked.layer, child)
         /\ child \in TreePaths => Where \in Nodes
<1>1. /\ asked.layer \in 1 .. Len(Bases) /\ child \in Folders
  BY DEF BuildTypes, Answer
<1>2. /\ Bases[asked.layer] \in BasePaths /\ Bases[asked.layer] \in Seq(Names)
      /\ child \in Seq(Names) /\ child \in Seq(Parts) /\ Walk(<<>>, child) = child
      /\ StaysBelow(child)
  BY <1>1, BasesAre, FoldersAre
<1>3. Where = Bases[asked.layer] \o child
  BY <1>2, FolderPathIs DEF Where
<1>4. child \in TreePaths => Bases[asked.layer] \o child \in Nodes
  <2>1. \A base \in BasePaths, p \in TreePaths : base \o p \in Nodes
    BY DEF Nodes
  <2> QED
    BY <1>2, <2>1
<1> QED
  BY <1>1, <1>2, <1>3, <1>4 DEF Here, Node

\* A file's contents are in the history of its path.
HeldInv == \A p \in Nodes : Held[p] \subseteq seen[p]

LEMMA HereHeld ==
  ASSUME FoldersInv, BuildTypes, HeldInv, child \in TreePaths, TypeOf(Here) = "file"
  PROVE  /\ Here \in Contents /\ Here \in Seq(Blocks) /\ Len(Here) \in Nat
         /\ Here \in seen[Bases[asked.layer] \o child]
<1>1. /\ Where = Bases[asked.layer] \o child /\ Where \in Nodes
      /\ Here = Node(asked.layer, child) /\ asked.layer \in 1 .. Len(Bases)
      /\ child \in Seq(Names)
  BY HereIs
<1>2. Here \in Contents \cup {Directory, Nil}
  BY <1>1, NodeIs
<1>3. Here \in Contents
  BY <1>2, NilIsNothing
<1>4. Here \in Seq(Blocks) /\ Len(Here) \in Nat
  BY <1>3, BundleAssumption, LenProperties
<1>5. Here \in Held[Where]
  BY <1>1, <1>3 DEF Held, Here
<1> QED
  BY <1>1, <1>3, <1>4, <1>5 DEF HeldInv

\* The builder's steps, by what they do to the lists and the entries.

TakesName ==
    \E name \in Names :
        /\ Taken(name) /\ pc = "next" /\ UNCHANGED entries
        /\ \/ Skipped(name) /\ UNCHANGED <<pc, child, asked>>
           \/ /\ ~Skipped(name) /\ child' = Append(Last(frames).path, name)
              /\ pc' = "stat" /\ asked' = Asking(1)

Enters ==
    /\ pc = "readdir" /\ pc' = "next" /\ UNCHANGED <<child, entries, asked>>
    /\ \E left \in SUBSET Names :
          /\ frames' = Append(frames, [path |-> child, left |-> left])
          /\ \A name \in left : Append(child, name) \in TreePaths

Returns ==
    /\ pc = "next" /\ frames # <<>> /\ frames' = Front(frames)
    /\ UNCHANGED <<pc, child, entries, asked>>

AddsDirectory ==
    /\ pc = "stat" /\ pc' = "readdir" /\ UNCHANGED <<frames, child>>
    /\ asked' = Asking(1)
    /\ entries' = Append(entries, Entry(child, TRUE, Nil))

AddsData ==
    /\ pc = "read" /\ pc' = "next" /\ UNCHANGED <<frames, child, asked>>
    /\ \E data \in EntryData :
          /\ LET ctx == FirstBytes(asked.opened, asked.size)
             IN  data \in {ctx, bytecode(ctx)}
          /\ entries' = Append(entries, Entry(child, FALSE, data))

OnlyAsks ==
    /\ UNCHANGED <<frames, child, entries>>
    /\ \/ pc' = pc
       \/ pc' \in {"error", "done"}
       \/ pc \in {"open", "runtime"} /\ pc' \in {"runtime", "readdir"}
       \/ pc \in Handling /\ pc' \in Handling

LEMMA NextNameIs == ASSUME BuildTypes, NextName PROVE TakesName
<1>1. pc = "next" /\ frames # <<>>
  BY DEF NextName
<1>2. PICK name \in Last(frames).left :
         /\ frames' = [frames EXCEPT ![Len(frames)].left = @ \ {name}]
         /\ IF Skipped(name)
            THEN UNCHANGED <<pc, child, asked>>
            ELSE /\ child' = pathJoin(<<Rel(Last(frames).path), Rel(<<name>>)>>).parts
                 /\ pc' = "stat" /\ asked' = Asking(1)
  BY DEF NextName
<1>3. Taken(name)
  BY <1>1, <1>2 DEF Taken
<1>4. name \in Names /\ Last(frames).path \in Seq(Names)
  BY <1>3, TakenTypes
<1>5. pathJoin(<<Rel(Last(frames).path), Rel(<<name>>)>>).parts = Append(Last(frames).path, name)
  BY <1>4, ChildPath
<1>6. UNCHANGED entries
  BY DEF NextName
<1> QED
  BY <1>1, <1>2, <1>3, <1>4, <1>5, <1>6 DEF TakesName

\* What a folder lists is in the tree.
LEMMA ListsTree ==
  ASSUME FoldersInv, BuildTypes, pc = "readdir"
  PROVE  /\ AddedNames \in SUBSET Names /\ asked.names \in SUBSET Names
         /\ \A name \in AddedNames : Append(child, name) \in TreePaths
         /\ Scandir(fs, Where) = {name \in Names : Node(asked.layer, Append(child, name)) # Nil}
<1>1. /\ Where = Bases[asked.layer] \o child /\ asked.layer \in 1 .. Len(Bases)
      /\ child \in Seq(Names)
  BY HereIs
<1>2. Scandir(fs, Where) = {name \in Names : Node(asked.layer, Append(child, name)) # Nil}
  BY <1>1, ScandirIs
<1>3. \A name \in Scandir(fs, Where) : Append(child, name) \in TreePaths
  BY <1>1, <1>2, ParentIs
<1>4. /\ asked.names \in SUBSET Names
      /\ \A name \in asked.names : Append(child, name) \in TreePaths
  BY DEF BuildTypes, Answer
<1> QED
  BY <1>2, <1>3, <1>4 DEF AddedNames

LEMMA ReadFolderIs ==
  ASSUME FoldersInv, BuildTypes, ReadFolder
  PROVE  /\ UNCHANGED <<fs, child, entries, edits, seen>> /\ pc = "readdir"
         /\ \E names \in {asked.names, AddedNames} :
               \/ /\ LastAsked /\ pc' = "next" /\ UNCHANGED asked
                  /\ frames' = Append(frames, [path |-> child, left |-> names])
               \/ /\ ~LastAsked /\ UNCHANGED <<pc, frames>>
                  /\ asked' = [layer |-> asked.layer + 1, names |-> names, size |-> 0,
                               opened |-> Nil]
<1>1. /\ UNCHANGED <<fs, child, entries, edits, seen>> /\ pc = "readdir"
  BY DEF ReadFolder
<1>2. Lists(asked.names) \/ Lists(AddedNames)
  BY DEF ReadFolder
<1>3. \A n, names : [Asking(n) EXCEPT !.names = names]
                      = [layer |-> n, names |-> names, size |-> 0, opened |-> Nil]
  BY DEF Asking
<1> QED
  BY <1>1, <1>2, <1>3 DEF Lists

LEMMA FirstBytesIs ==
  ASSUME NEW text \in Seq(Blocks)
  PROVE  /\ \A size \in Nat : FirstBytes(text, size) \in Seq(Blocks)
         /\ FirstBytes(text, Len(text)) = text
<1>1. Len(text) \in Nat
  BY LenProperties
<1>2. \A size \in Nat : size < Len(text) => SubSeq(text, 1, size) \in Seq(Blocks)
  BY <1>1
<1> QED
  BY <1>1, <1>2 DEF FirstBytes

LEMMA AddFileIs ==
  ASSUME BuildTypes, AddFile
  PROVE  \/ AddsData
         \/ OnlyAsks /\ pc' \in {"size", "error"}
<1>1. pc = "read"
  BY DEF AddFile
<1> DEFINE ctx == FirstBytes(asked.opened, asked.size)
           data == Packed(ctx, Last(child))
<1>2. \/ /\ pc' = "next" /\ UNCHANGED <<frames, child, asked>>
         /\ entries' = Append(entries, Entry(child, FALSE, data))
      \/ pc' \in {"size", "error"} /\ UNCHANGED <<frames, child, entries>>
  BY DEF AddFile, LuaError, ReadsNothing, NilIsError, AsksNext
<1>3. data \in {ctx, bytecode(ctx)}
  BY DEF Packed
<1>4. asked.opened \in Contents /\ asked.size \in Nat
  BY <1>1 DEF BuildTypes, Answer
<1>5. ctx \in Seq(Blocks)
  BY <1>4, BundleAssumption, FirstBytesIs
<1> HIDE DEF data, ctx
<1>6. data \in EntryData
  BY <1>3, <1>5 DEF EntryData
<1>7. data \in {ctx, bytecode(ctx)} /\ ctx = FirstBytes(asked.opened, asked.size)
  BY <1>3 DEF ctx
<1>8. CASE /\ pc' = "next" /\ UNCHANGED <<frames, child, asked>>
           /\ entries' = Append(entries, Entry(child, FALSE, data))
  <2>1. \E d \in EntryData :
           /\ d \in {FirstBytes(asked.opened, asked.size),
                     bytecode(FirstBytes(asked.opened, asked.size))}
           /\ entries' = Append(entries, Entry(child, FALSE, d))
    BY <1>6, <1>7, <1>8
  <2> QED
    BY <1>1, <1>8, <2>1 DEF AddsData
<1> QED
  BY <1>1, <1>2, <1>8 DEF OnlyAsks, Handling

\* What each step is.
LEMMA StepIs ==
  ASSUME FoldersInv, BuildTypes, [Next]_vars
  PROVE  \/ TakesName \/ Enters \/ Returns \/ AddsDirectory \/ AddsData
         \/ OnlyAsks
<1>1. CASE ReadFolder
  <2>1. PICK names \in {asked.names, AddedNames} :
           \/ /\ LastAsked /\ pc' = "next" /\ UNCHANGED asked
              /\ frames' = Append(frames, [path |-> child, left |-> names])
           \/ /\ ~LastAsked /\ UNCHANGED <<pc, frames>>
    BY <1>1, ReadFolderIs
  <2>2. UNCHANGED <<child, entries>> /\ pc = "readdir"
    BY <1>1, ReadFolderIs
  <2>3. names \in SUBSET Names /\ \A name \in names : Append(child, name) \in TreePaths
    BY <2>2, ListsTree DEF BuildTypes
  <2>4. CASE frames' = Append(frames, [path |-> child, left |-> names]) /\ pc' = "next"
             /\ UNCHANGED asked
    BY <2>2, <2>3, <2>4 DEF Enters
  <2> QED
    BY <2>1, <2>2, <2>4 DEF OnlyAsks
<1>2. CASE CopyFolderReturns
  BY <1>2 DEF CopyFolderReturns, Returns
<1>3. CASE NextName
  BY <1>3, NextNameIs
<1>4. CASE StatName
  BY <1>4 DEF StatName, AddsFolder, AddsDirectory, OnlyAsks, Handling, LuaError, AsksNext
<1>5. CASE SizeFile \/ OpenFile
  BY <1>5 DEF SizeFile, OpenFile, ReadsNothing, NilIsError, OnlyAsks, Handling, LuaError, AsksNext
<1>6. CASE AddFile
  BY <1>6, AddFileIs
<1>7. CASE OpenTarget \/ CopyRuntime \/ WriteArchive
  BY <1>7 DEF OpenTarget, CopyRuntime, WriteArchive, OnlyAsks, LuaError
<1>8. CASE Edit \/ UNCHANGED vars
  BY <1>8 DEF Edit, OnlyAsks, vars
<1> QED
  BY <1>1, <1>2, <1>3, <1>4, <1>5, <1>6, <1>7, <1>8 DEF Next, Build

\* The history grows, with each edit by what the files then hold.
LEMMA SeenTypes ==
  ASSUME BuildTypes, [Next]_vars
  PROVE  /\ seen' \in [Nodes -> SUBSET Contents]
         /\ \A p \in Nodes : seen[p] \subseteq seen'[p]
         /\ HeldInv => HeldInv'
<1>1. CASE Edit
  <2>1. seen' = [p \in Nodes |-> seen[p] \cup Held[p]']
    BY <1>1 DEF Edit
  <2>2. \A p \in Nodes : (Held[p])' \in SUBSET Contents
    BY DEF Held
  <2> QED
    BY <2>1, <2>2 DEF BuildTypes, HeldInv
<1>2. CASE Build \/ UNCHANGED vars
  <2>1. seen' = seen /\ fs' = fs
    BY <1>2 DEF Build, OpenTarget, CopyRuntime, ReadFolder, CopyFolderReturns, NextName,
                StatName, SizeFile, OpenFile, AddFile, WriteArchive, vars
  <2>2. Held' = Held
    BY <2>1 DEF Held, Lookup
  <2> QED
    BY <2>1, <2>2 DEF BuildTypes, HeldInv
<1> QED
  BY <1>1, <1>2 DEF Next

\* An entry is added for what is in the builder's hands.
LEMMA AddsTypes ==
  ASSUME BuildTypes, AddsDirectory \/ AddsData
  PROVE  /\ child \in TreePaths /\ UNCHANGED <<frames, child>>
         /\ \E new \in EntryType : new.name = child /\ entries' = Append(entries, new)
         /\ entries' \in Seq(EntryType)
<1>1. child \in TreePaths /\ UNCHANGED <<frames, child>>
  BY DEF AddsDirectory, AddsData, BuildTypes, Handling
<1>2. \A slash \in BOOLEAN, data \in EntryData :
         /\ Entry(child, slash, data) \in EntryType
         /\ Entry(child, slash, data).name = child
  BY <1>1 DEF Entry, EntryType
<1>3. \E slash \in BOOLEAN, data \in EntryData : entries' = Append(entries, Entry(child, slash, data))
  BY DEF AddsDirectory, AddsData, EntryData
<1>4. PICK new \in EntryType : new.name = child /\ entries' = Append(entries, new)
  BY <1>2, <1>3
<1>5. entries' \in Seq(EntryType)
  BY <1>4, AppendProperties DEF BuildTypes
<1> QED
  BY <1>1, <1>4, <1>5

\* What the call under way has got so far, and what it is about.
LEMMA AskedStep ==
  ASSUME FoldersInv, BuildTypes, [Next]_vars
  PROVE  /\ asked' \in Answer
         /\ pc' = "readdir" => \A name \in asked'.names : Append(child', name) \in TreePaths
         /\ pc' \in {"open", "runtime"} => asked' = Asking(1)
         /\ pc' = "read" => asked'.opened \in Contents
<1>1. Len(Bases) \in Nat \ {0} /\ \A n \in 1 .. Len(Bases) : Asking(n) \in Answer
  BY BasesAre DEF Asking, Answer
<1>2. 1 \in 1 .. Len(Bases) /\ Asking(1) \in Answer /\ \A n : Asking(n).names = {}
  BY <1>1 DEF Asking
<1>3. asked \in Answer /\ asked.layer \in 1 .. Len(Bases)
  BY DEF BuildTypes, Answer
<1>4. ~LastAsked => asked.layer + 1 \in 1 .. Len(Bases)
  BY <1>1, <1>3 DEF LastAsked
<1>5. ASSUME NEW at, AsksNext(at) PROVE asked' \in Answer /\ asked'.names = {} /\ pc' = at
  BY <1>1, <1>2, <1>4, <1>5 DEF AsksNext
<1>6. CASE ReadFolder
  <2>1. PICK names \in {asked.names, AddedNames} :
           \/ LastAsked /\ pc' = "next" /\ UNCHANGED asked
           \/ /\ ~LastAsked /\ UNCHANGED <<pc, frames>>
              /\ asked' = [layer |-> asked.layer + 1, names |-> names, size |-> 0, opened |-> Nil]
    BY <1>6, ReadFolderIs
  <2>2. UNCHANGED child /\ pc = "readdir"
    BY <1>6, ReadFolderIs
  <2>3. names \in SUBSET Names /\ \A name \in names : Append(child, name) \in TreePaths
    BY <2>2, ListsTree DEF BuildTypes
  <2>4. CASE ~LastAsked /\ asked' = [layer |-> asked.layer + 1, names |-> names, size |-> 0,
                                     opened |-> Nil]
    <3>1. asked' \in Answer /\ asked'.names = names
      BY <1>4, <2>3, <2>4 DEF Answer
    <3> QED
      BY <2>1, <2>2, <2>3, <3>1
  <2> QED
    BY <1>3, <2>1, <2>4
<1>7. CASE CopyFolderReturns
  BY <1>3, <1>7 DEF CopyFolderReturns
<1>8. CASE NextName
  <2>1. TakesName /\ pc = "next"
    BY <1>8, NextNameIs DEF TakesName
  <2> QED
    BY <1>2, <1>3, <2>1 DEF TakesName
<1>9. CASE StatName
  <2>1. \/ pc' = "readdir" /\ asked' = Asking(1)
        \/ pc' = "size" /\ asked' = Asking(1)
        \/ AsksNext("stat")
        \/ pc' = "error" /\ asked' = asked
    BY <1>9 DEF StatName, LuaError
  <2> QED
    BY <1>2, <1>3, <1>5, <2>1
<1>10. ASSUME ReadsNothing
       PROVE  asked' \in Answer /\ pc' \in {"size", "error"}
  BY <1>3, <1>5, <1>10 DEF ReadsNothing, NilIsError, LuaError
<1>11. CASE SizeFile
  <2>1. CASE ReadsNothing
    BY <1>10, <2>1
  <2>2. CASE TypeOf(Here) = "file" /\ asked' = [asked EXCEPT !.size = Len(Here)] /\ pc' = "file"
    <3>1. Here \in Contents \cup {Directory, Nil}
      BY HereIs, NodeIs
    <3>2. Here \in Seq(Blocks) /\ Len(Here) \in Nat
      BY <2>2, <3>1, NilIsNothing, BundleAssumption, LenProperties
    <3>3. asked' \in Answer
      BY <1>3, <2>2, <3>2 DEF Answer
    <3> QED
      BY <2>2, <3>3
  <2> QED
    BY <1>11, <2>1, <2>2 DEF SizeFile
<1>12. CASE OpenFile
  <2>1. CASE ReadsNothing
    BY <1>10, <2>1
  <2>2. CASE Here \in Readable /\ asked' = [asked EXCEPT !.opened = Here] /\ pc' = "read"
    <3>1. Here \in Contents
      BY <2>2, NilIsNothing
    <3>2. asked' \in Answer /\ asked'.opened = Here
      BY <1>3, <2>2, <3>1 DEF Answer
    <3> QED
      BY <2>2, <3>1, <3>2
  <2> QED
    BY <1>12, <2>1, <2>2 DEF OpenFile
<1>13. CASE AddFile
  <2>1. \/ pc' = "next" /\ UNCHANGED asked
        \/ pc' = "error" /\ UNCHANGED asked
        \/ ReadsNothing
    BY <1>13 DEF AddFile, LuaError
  <2> QED
    BY <1>3, <1>10, <2>1
<1>14. CASE OpenTarget \/ CopyRuntime \/ WriteArchive
  <2>1. /\ UNCHANGED asked
        /\ \/ pc' \in {"error", "done"}
           \/ pc \in {"open", "runtime"} /\ pc' \in {"runtime", "readdir"}
    BY <1>14 DEF OpenTarget, CopyRuntime, WriteArchive, LuaError
  <2> QED
    BY <1>2, <1>3, <2>1 DEF BuildTypes
<1>15. CASE Edit
  <2>1. PICK path \in Nodes \ BasePaths, node \in Contents \cup {Directory, Nil} :
           OpenFileShows(path, node)
    BY <1>15 DEF Edit
  <2>2. UNCHANGED <<pc, child>>
    BY <1>15 DEF Edit
  <2>3. CASE UNCHANGED asked
    BY <2>2, <2>3 DEF BuildTypes
  <2>4. CASE pc = "read" /\ node \in Contents /\ asked' = [asked EXCEPT !.opened = node]
    <3>1. asked' \in Answer /\ asked'.opened = node
      BY <1>3, <2>4 DEF Answer
    <3> QED
      BY <2>2, <2>4, <3>1
  <2> QED
    BY <2>1, <2>3, <2>4 DEF OpenFileShows
<1>16. CASE UNCHANGED vars
  BY <1>16 DEF BuildTypes, vars
<1> QED
  BY <1>6, <1>7, <1>8, <1>9, <1>11, <1>12, <1>13, <1>14, <1>15, <1>16 DEF Next, Build

LEMMA BuildTypesStep ==
  ASSUME FoldersInv, BuildTypes, [Next]_vars
  PROVE  BuildTypes'
<1> DEFINE Rest == /\ frames' \in Seq(Frame)
                   /\ \A k \in 1 .. Len(frames'), name \in Names :
                        name \in frames'[k].left => Append(frames'[k].path, name) \in TreePaths
                   /\ child' \in Folders
                   /\ pc' \in Handling => child' \in TreePaths
                   /\ entries' \in Seq(EntryType)
<1> SUFFICES Rest
  BY AskedStep, SeenTypes DEF BuildTypes
<1>1. CASE Enters
  <2>1. PICK left \in SUBSET Names :
           /\ frames' = Append(frames, [path |-> child, left |-> left])
           /\ \A name \in left : Append(child, name) \in TreePaths
    BY <1>1 DEF Enters
  <2> DEFINE new == [path |-> child, left |-> left]
             n == Len(frames)
  <2>2. new \in Frame /\ new.path = child /\ new.left = left
    BY DEF BuildTypes, Frame
  <2> HIDE DEF new
  <2>3. /\ frames' \in Seq(Frame) /\ Len(frames') = n + 1 /\ frames'[n + 1] = new
        /\ \A k \in 1 .. n : frames'[k] = frames[k]
        /\ n \in Nat
    BY <2>1, <2>2, AppendProperties, LenProperties DEF BuildTypes, new
  <2>4. ASSUME NEW k \in 1 .. n + 1, NEW name \in Names, name \in frames'[k].left
        PROVE  Append(frames'[k].path, name) \in TreePaths
    <3>1. CASE k = n + 1
      BY <2>1, <2>2, <2>3, <2>4, <3>1
    <3>2. CASE k # n + 1
      <4>1. k \in 1 .. n /\ frames'[k] = frames[k]
        BY <2>3, <3>2
      <4> QED
        BY <2>4, <4>1 DEF BuildTypes
    <3> QED
      BY <3>1, <3>2
  <2>5. pc' \notin Handling /\ UNCHANGED <<child, entries>>
    BY <1>1 DEF Enters, Handling
  <2> QED
    BY <2>3, <2>4, <2>5 DEF BuildTypes
<1>2. CASE Returns
  <2>1. /\ frames # <<>> /\ frames' = Front(frames) /\ pc = "next"
        /\ UNCHANGED <<pc, child, entries>>
    BY <1>2 DEF Returns
  <2>2. /\ frames \in Seq(Frame) /\ frames' \in Seq(Frame)
        /\ frames = Append(frames', Last(frames)) /\ Last(frames) \in Frame
    BY <2>1, FrontProperties DEF BuildTypes
  <2>3. /\ Len(frames') \in Nat /\ Len(frames) = Len(frames') + 1
        /\ \A k \in 1 .. Len(frames') : k \in 1 .. Len(frames) /\ frames[k] = frames'[k]
    BY <2>2, AppendProperties, LenProperties
  <2>4. \A k \in 1 .. Len(frames'), name \in Names :
           name \in frames'[k].left => Append(frames'[k].path, name) \in TreePaths
    BY <2>3 DEF BuildTypes
  <2> QED
    BY <2>1, <2>2, <2>4 DEF BuildTypes
<1>3. CASE TakesName
  <2>1. PICK name \in Names :
           /\ Taken(name) /\ pc = "next" /\ UNCHANGED entries
           /\ \/ UNCHANGED <<pc, child>>
              \/ child' = Append(Last(frames).path, name)
    BY <1>3 DEF TakesName
  <2>2. /\ Append(Last(frames).path, name) \in TreePaths
        /\ frames' \in Seq(Frame) /\ Len(frames') = Len(frames)
        /\ \A k \in 1 .. Len(frames) : /\ frames'[k].path = frames[k].path
                                       /\ frames'[k].left \subseteq frames[k].left
    BY <2>1, TakenTypes
  <2>3. ASSUME NEW k \in 1 .. Len(frames'), NEW e \in Names, e \in frames'[k].left
        PROVE  Append(frames'[k].path, e) \in TreePaths
    <3>1. k \in 1 .. Len(frames) /\ e \in frames[k].left /\ frames'[k].path = frames[k].path
      BY <2>2, <2>3
    <3> QED
      BY <3>1 DEF BuildTypes
  <2>4. child' \in Folders /\ (pc' \in Handling => child' \in TreePaths)
    <3> HIDE DEF Handling
    <3> QED
      BY <2>1, <2>2 DEF BuildTypes, Folders
  <2> QED
    BY <2>1, <2>2, <2>3, <2>4 DEF BuildTypes
<1>4. CASE AddsDirectory \/ AddsData
  <2>1. pc' \notin Handling
    BY <1>4 DEF AddsDirectory, AddsData, Handling
  <2> QED
    BY <1>4, <2>1, AddsTypes DEF BuildTypes
<1>5. CASE OnlyAsks
  <2>1. pc' \in Handling => pc \in Handling
    BY <1>5 DEF OnlyAsks, Handling
  <2> QED
    BY <1>5, <2>1 DEF OnlyAsks, BuildTypes
<1> QED
  BY <1>1, <1>2, <1>3, <1>4, <1>5, StepIs

\* The builder's variables have their types, and the history has all that
\* the files hold.
THEOREM BuildTypeCorrect == Spec => [](FoldersInv /\ BuildTypes /\ HeldInv)
<1>1. Init => BuildTypes /\ HeldInv
  <2> SUFFICES ASSUME Init PROVE BuildTypes /\ HeldInv
    OBVIOUS
  <2>1. /\ frames = <<>> /\ child = <<>> /\ entries = <<>> /\ pc = "open" /\ seen = Held
        /\ asked = Asking(1)
    BY DEF Init
  <2>2. Held \in [Nodes -> SUBSET Contents]
    BY DEF Held
  <2>3. Len(frames) = 0 /\ child \in Folders /\ frames \in Seq(Frame)
        /\ entries \in Seq(EntryType)
    BY <2>1, EmptySeq DEF Folders
  <2>4. asked \in Answer
    BY <2>1, BasesAre DEF Asking, Answer
  <2> QED
    BY <2>1, <2>2, <2>3, <2>4 DEF BuildTypes, HeldInv, Handling
<1>2. FoldersInv /\ BuildTypes /\ HeldInv /\ [Next]_vars => (BuildTypes /\ HeldInv)'
  BY BuildTypesStep, SeenTypes
<1> QED
  BY <1>1, <1>2, FoldersStayTrees, PTL DEF Spec

\* What was stat'ed and opened is in the history of the file asked for.
AskedInv ==
    /\ pc \in {"file", "read"} =>
         \E before \in seen[Bases[asked.layer] \o child] : asked.size = Len(before)
    /\ pc = "read" => asked.opened \in seen[Bases[asked.layer] \o child]

LEMMA AskedInvStep ==
  ASSUME FoldersInv, BuildTypes, HeldInv, AskedInv, [Next]_vars
  PROVE  AskedInv'
<1> DEFINE at == Bases[asked.layer] \o child
<1>1. CASE SizeFile
  <2>1. CASE pc' \notin {"file", "read"}
    BY <2>1 DEF AskedInv
  <2>2. CASE /\ TypeOf(Here) = "file" /\ pc' = "file" /\ UNCHANGED <<child, seen>>
             /\ asked' = [asked EXCEPT !.size = Len(Here)]
    <3>1. child \in TreePaths
      BY <1>1 DEF SizeFile, BuildTypes, Handling
    <3>2. Here \in seen[at]
      BY <2>2, <3>1, HereHeld
    <3>3. asked'.size = Len(Here) /\ asked'.layer = asked.layer
      BY <2>2 DEF BuildTypes, Answer
    <3> QED
      BY <2>2, <3>2, <3>3 DEF AskedInv
  <2> QED
    BY <1>1, <2>1, <2>2 DEF SizeFile, ReadsNothing, NilIsError, AsksNext, LuaError
<1>2. CASE OpenFile
  <2>1. CASE pc' \notin {"file", "read"}
    BY <2>1 DEF AskedInv
  <2>2. CASE /\ Here \in Readable /\ pc' = "read" /\ UNCHANGED <<child, seen>>
             /\ asked' = [asked EXCEPT !.opened = Here]
    <3>1. pc = "file" /\ child \in TreePaths
      BY <1>2 DEF OpenFile, BuildTypes, Handling
    <3>2. TypeOf(Here) = "file"
      BY <2>2, NilIsNothing
    <3>3. Here \in seen[at]
      BY <3>1, <3>2, HereHeld
    <3>4. asked'.size = asked.size /\ asked'.layer = asked.layer /\ asked'.opened = Here
      BY <2>2 DEF BuildTypes, Answer
    <3> QED
      BY <2>2, <3>1, <3>3, <3>4 DEF AskedInv
  <2> QED
    BY <1>2, <2>1, <2>2 DEF OpenFile, ReadsNothing, NilIsError, AsksNext, LuaError
<1>3. CASE Edit
  <2>1. CASE pc \notin {"file", "read"}
    BY <1>3, <2>1 DEF Edit, AskedInv
  <2>2. CASE pc \in {"file", "read"}
    <3>1. UNCHANGED <<pc, child>>
      BY <1>3 DEF Edit
    <3>2. child \in TreePaths
      BY <2>2 DEF BuildTypes, Handling
    <3>3. at \in Nodes /\ Where = at
      BY <3>2, HereIs
    <3>4. seen[at] \subseteq seen'[at]
      BY <3>3, SeenTypes
    <3>5. PICK path \in Nodes \ BasePaths, node \in Contents \cup {Directory, Nil} :
             Rewrite(path, node) /\ OpenFileShows(path, node)
      BY <1>3 DEF Edit
    <3>6. CASE UNCHANGED asked
      BY <3>1, <3>4, <3>6 DEF AskedInv
    <3>7. CASE /\ pc = "read" /\ path = Where /\ node \in Contents
               /\ asked' = [asked EXCEPT !.opened = node]
      <4>1. /\ asked'.size = asked.size /\ asked'.layer = asked.layer
            /\ asked'.opened = node
        BY <3>7 DEF BuildTypes, Answer
      <4>2. node # Nil
        BY <3>7, NilIsNothing
      <4>3. fs' = [p \in DOMAIN fs \cup {path} |-> IF p = path THEN node ELSE fs[p]]
        BY <3>5, <4>2 DEF Rewrite
      <4>4. Lookup(fs', path) = node
        BY <4>3 DEF Lookup
      <4>5. node \in Held[path]'
        BY <3>7, <4>4 DEF Held
      <4>6. seen' = [p \in Nodes |-> seen[p] \cup Held[p]']
        BY <1>3 DEF Edit
      <4>7. node \in seen'[at]
        BY <3>3, <3>7, <4>5, <4>6
      <4> QED
        BY <3>1, <3>4, <3>7, <4>1, <4>7 DEF AskedInv
    <3> QED
      BY <3>5, <3>6, <3>7 DEF OpenFileShows
  <2> QED
    BY <2>1, <2>2
<1>4. CASE UNCHANGED vars
  BY <1>4 DEF vars, AskedInv
<1>5. CASE Build /\ ~SizeFile /\ ~OpenFile
  <2>1. pc' \notin {"file", "read"}
    BY <1>5 DEF Build, OpenTarget, CopyRuntime, ReadFolder, Lists, CopyFolderReturns, NextName,
                StatName, AddFile, ReadsNothing, NilIsError, AsksNext, LuaError, WriteArchive
  <2> QED
    BY <2>1 DEF AskedInv
<1> QED
  BY <1>1, <1>2, <1>3, <1>4, <1>5 DEF Next

\* What is stat'ed, opened and read, in one folder after another, may be
\* another file each time or nothing at all (luvibundle.lua:45-58, 182-203):
\* it is packed only if it is what the file of one folder held at some time
\* in the build, cut off at the most at a length that this file had.
THEOREM EntriesTrueAlways == Spec => []EntriesTrue
<1> DEFINE WasHeld(new, history) ==
             \E base \in BasePaths : \E text, before \in history[base \o new.name] :
                LET ctx == FirstBytes(text, Len(before))
                IN  new.data \in {ctx, bytecode(ctx)}
<1>1. Init => EntriesTrue /\ AskedInv
  <2> SUFFICES ASSUME Init PROVE EntriesTrue /\ AskedInv
    OBVIOUS
  <2>1. entries = <<>> /\ pc = "open"
    BY DEF Init
  <2>2. DOMAIN entries = {}
    BY <2>1
  <2> QED
    BY <2>1, <2>2 DEF EntriesTrue, AskedInv
<1>2. ASSUME FoldersInv, BuildTypes, HeldInv, AskedInv, EntriesTrue, [Next]_vars
      PROVE  EntriesTrue'
  <2> DEFINE n == Len(entries)
  <2>1. /\ \A p \in Nodes : seen[p] \subseteq seen'[p]
        /\ n \in Nat /\ DOMAIN entries = 1 .. n /\ entries \in Seq(EntryType)
        /\ \A i \in 1 .. n : entries[i].name \in TreePaths
    <3>1. \A i \in 1 .. n : entries[i] \in EntryType
      BY <1>2, ElementOfSeq DEF BuildTypes
    <3>2. n \in Nat /\ DOMAIN entries = 1 .. n /\ entries \in Seq(EntryType)
      BY <1>2, LenProperties DEF BuildTypes
    <3> QED
      BY <1>2, <3>1, <3>2, SeenTypes DEF EntryType
  <2>2. ASSUME NEW i \in 1 .. n, ~entries[i].slash PROVE WasHeld(entries[i], seen')
    <3>1. PICK base \in BasePaths : \E text, before \in seen[base \o entries[i].name] :
             LET ctx == FirstBytes(text, Len(before))
             IN  entries[i].data \in {ctx, bytecode(ctx)}
      BY <1>2, <2>1, <2>2 DEF EntriesTrue
    <3>2. base \o entries[i].name \in Nodes
      <4>1. \A b \in BasePaths, p \in TreePaths : b \o p \in Nodes
        BY DEF Nodes
      <4> QED
        BY <2>1, <4>1
    <3> QED
      BY <2>1, <3>1, <3>2
  <2>3. ASSUME NEW new \in EntryType, entries' = Append(entries, new),
               ~new.slash => WasHeld(new, seen')
        PROVE  EntriesTrue'
    <3>1. /\ DOMAIN entries' = 1 .. n + 1 /\ entries'[n + 1] = new
          /\ \A i \in 1 .. n : entries'[i] = entries[i]
      BY <2>1, <2>3, AppendProperties, LenProperties
    <3>2. ASSUME NEW i \in 1 .. n + 1, ~entries'[i].slash PROVE WasHeld(entries'[i], seen')
      <4>1. CASE i = n + 1
        BY <2>3, <3>1, <3>2, <4>1
      <4>2. CASE i # n + 1
        <5>1. i \in 1 .. n /\ entries'[i] = entries[i]
          BY <2>1, <3>1, <4>2
        <5> QED
          BY <2>2, <3>2, <5>1
      <4> QED
        BY <4>1, <4>2
    <3> QED
      BY <3>1, <3>2 DEF EntriesTrue, FirstBytes, bytecode
  <2>4. CASE UNCHANGED entries
    <3>1. DOMAIN entries' = 1 .. n /\ \A i \in 1 .. n : entries'[i] = entries[i]
      BY <2>1, <2>4
    <3>2. \A i \in 1 .. n : ~entries[i].slash => WasHeld(entries[i], seen')
      BY <2>2
    <3> QED
      BY <3>1, <3>2 DEF EntriesTrue, FirstBytes, bytecode
  <2>5. CASE AddsDirectory
    <3> DEFINE new == Entry(child, TRUE, Nil)
    <3>1. child \in TreePaths /\ entries' = Append(entries, new)
      BY <1>2, <2>5, AddsTypes DEF AddsDirectory
    <3>2. new \in EntryType /\ new.slash
      BY <3>1 DEF Entry, EntryType, EntryData
    <3> HIDE DEF new
    <3> QED
      BY <2>3, <3>1, <3>2
  <2>6. CASE AddsData
    <3>1. pc = "read" /\ child \in TreePaths
      BY <1>2, <2>6, AddsTypes DEF AddsData
    <3>2. PICK data \in EntryData :
             /\ data \in {FirstBytes(asked.opened, asked.size),
                          bytecode(FirstBytes(asked.opened, asked.size))}
             /\ entries' = Append(entries, Entry(child, FALSE, data))
      BY <2>6 DEF AddsData
    <3> DEFINE new == Entry(child, FALSE, data)
    <3>3. new \in EntryType /\ new.name = child /\ new.data = data
      BY <3>1 DEF Entry, EntryType
    <3>4. /\ Bases[asked.layer] \in BasePaths /\ Bases[asked.layer] \o child \in Nodes
      BY <1>2, <3>1, HereIs
    <3>5. PICK before \in seen[Bases[asked.layer] \o child] : asked.size = Len(before)
      BY <1>2, <3>1 DEF AskedInv
    <3>6. asked.opened \in seen[Bases[asked.layer] \o child]
      BY <1>2, <3>1 DEF AskedInv
    <3>7. before \in seen'[Bases[asked.layer] \o child]
          /\ asked.opened \in seen'[Bases[asked.layer] \o child]
      BY <2>1, <3>4, <3>5, <3>6
    <3>8. WasHeld(new, seen')
      <4> HIDE DEF new
      <4> QED
        BY <3>2, <3>3, <3>4, <3>5, <3>7
    <3> HIDE DEF new
    <3>9. entries' = Append(entries, new)
      BY <3>2 DEF new
    <3> HIDE DEF WasHeld
    <3> QED
      BY <2>3, <3>3, <3>8, <3>9
  <2>7. CASE TakesName \/ Enters \/ Returns \/ OnlyAsks
    BY <2>4, <2>7 DEF TakesName, Enters, Returns, OnlyAsks
  <2> QED
    BY <1>2, <2>5, <2>6, <2>7, StepIs
<1>3. FoldersInv /\ BuildTypes /\ HeldInv /\ AskedInv /\ [Next]_vars => AskedInv'
  BY AskedInvStep
<1> QED
  BY <1>1, <1>2, <1>3, BuildTypeCorrect, PTL DEF Spec

-----------------------------------------------------------------------------
(* The order of the entries.                                               *)

\* The directory at path has its entry, and all entries since are below it.
Opened(path) ==
    \E i \in 1 .. Len(entries) :
        /\ entries[i].slash /\ entries[i].name = path
        /\ \A j \in i .. Len(entries) : IsPrefix(path, entries[j].name)

\* path is, or is below, a name that is still on the list of a directory.
Pending(path) ==
    \E k \in 1 .. Len(frames), name \in Names :
        name \in frames[k].left /\ IsPrefix(Append(frames[k].path, name), path)

\* Nothing at path or below it has an entry.
Fresh(path) == \A i \in 1 .. Len(entries) : ~IsPrefix(path, entries[i].name)

\* Each copyFolder under way is for a directory inside that of its caller.
Nested ==
    \A k, l \in 1 .. Len(frames) :
        k < l => IsPrefix(frames[k].path, frames[l].path) /\ frames[k].path # frames[l].path

AllOpened == \A k \in 1 .. Len(frames) : frames[k].path # <<>> => Opened(frames[k].path)

NothingPending == \A i \in 1 .. Len(entries) : ~Pending(entries[i].name)

\* The first copyFolder, of the root, comes before all entries.
AtRoot == frames = <<>> /\ entries = <<>>

\* A directory's entry was added and its copyFolder is next.
Entering ==
    /\ Opened(child)
    /\ \A i \in 1 .. Len(entries) :
          IsPrefix(child, entries[i].name) => entries[i].name = child
    /\ \A k \in 1 .. Len(frames) : IsPrefix(frames[k].path, child) /\ frames[k].path # child

\* A name of the innermost list is looked at.
Reading == /\ frames # <<>> /\ Front(child) = Last(frames).path
           /\ Fresh(child) /\ ~Pending(child)

OrderInv ==
    /\ EntriesListable
    /\ Nested /\ AllOpened /\ NothingPending
    /\ pc \in {"open", "runtime"} => child = <<>> /\ AtRoot
    /\ pc = "readdir" => IF child = <<>> THEN AtRoot ELSE Entering
    /\ pc \in Handling => Reading

LEMMA BuildIs ==
  ASSUME BuildTypes
  PROVE  /\ Len(entries) \in Nat /\ DOMAIN entries = 1 .. Len(entries)
         /\ \A i \in 1 .. Len(entries) : /\ entries[i].name \in TreePaths
                                         /\ entries[i].name \in Seq(Names)
         /\ Len(frames) \in Nat /\ DOMAIN frames = 1 .. Len(frames)
         /\ \A k \in 1 .. Len(frames) : /\ frames[k].path \in Seq(Names)
                                        /\ frames[k].left \in SUBSET Names
         /\ child \in Seq(Names)
<1>1. /\ Len(entries) \in Nat /\ DOMAIN entries = 1 .. Len(entries)
      /\ Len(frames) \in Nat /\ DOMAIN frames = 1 .. Len(frames)
  BY LenProperties DEF BuildTypes
<1>2. \A i \in 1 .. Len(entries) : entries[i].name \in TreePaths
  <2> TAKE i \in 1 .. Len(entries)
  <2>1. entries[i] \in EntryType
    BY ElementOfSeq DEF BuildTypes
  <2> QED
    BY <2>1 DEF EntryType
<1>3. \A k \in 1 .. Len(frames) : frames[k].path \in Folders /\ frames[k].left \in SUBSET Names
  <2> TAKE k \in 1 .. Len(frames)
  <2>1. frames[k] \in Frame
    BY ElementOfSeq DEF BuildTypes
  <2> QED
    BY <2>1 DEF Frame
<1>4. child \in Folders /\ \A p \in Folders : p \in Seq(Names)
  BY FoldersAre DEF BuildTypes
<1> QED
  BY <1>1, <1>2, <1>3, <1>4 DEF Folders

LEMMA EntryAdded ==
  ASSUME BuildTypes, BuildTypes', NEW new, entries' = Append(entries, new)
  PROVE  LET n == Len(entries)
         IN  /\ Len(entries') = n + 1 /\ entries'[n + 1] = new
             /\ \A i \in 1 .. n : entries'[i] = entries[i]
             /\ new.name \in Seq(Names) /\ new.name \in TreePaths
<1> DEFINE n == Len(entries)
<1>1. entries \in Seq({entries[i] : i \in 1 .. n} \cup {new})
  <2>1. n \in Nat /\ entries \in [1 .. n -> {entries[i] : i \in 1 .. n} \cup {new}]
    BY LenProperties DEF BuildTypes
  <2> QED
    BY <2>1, FunctionIsSeq
<1>2. /\ Len(entries') = n + 1 /\ entries'[n + 1] = new
      /\ \A i \in 1 .. n : entries'[i] = entries[i]
  BY <1>1, AppendProperties
<1>3. n + 1 \in 1 .. Len(entries')
  BY <1>2, BuildIs
<1>4. entries'[n + 1].name \in TreePaths /\ entries'[n + 1].name \in Seq(Names)
  <2>1. entries' \in Seq(EntryType)
    BY DEF BuildTypes
  <2>2. entries'[n + 1] \in EntryType
    BY <1>3, <2>1, ElementOfSeq
  <2> QED
    BY <2>2, LayersAssumption DEF EntryType
<1> QED
  BY <1>2, <1>4

LEMMA OpenedAppend ==
  ASSUME BuildTypes, BuildTypes', NEW new, entries' = Append(entries, new),
         NEW path, Opened(path), IsPrefix(path, new.name)
  PROVE  Opened(path)'
<1> DEFINE n == Len(entries)
<1>1. /\ n \in Nat /\ Len(entries') = n + 1 /\ entries'[n + 1] = new
      /\ \A i \in 1 .. n : entries'[i] = entries[i]
  BY BuildIs, EntryAdded
<1>2. PICK i \in 1 .. n : /\ entries[i].slash /\ entries[i].name = path
                          /\ \A j \in i .. n : IsPrefix(path, entries[j].name)
  BY DEF Opened
<1>3. ASSUME NEW j \in i .. n + 1 PROVE IsPrefix(path, entries'[j].name)
  <2>1. CASE j = n + 1
    BY <1>1, <2>1
  <2>2. CASE j # n + 1
    <3>1. j \in 1 .. n /\ j \in i .. n
      BY <1>1, <2>2
    <3> QED
      BY <1>1, <1>2, <3>1
  <2> QED
    BY <2>1, <2>2
<1>4. i \in 1 .. n + 1 /\ entries'[i].slash /\ entries'[i].name = path
  BY <1>1, <1>2
<1> QED
  BY <1>1, <1>3, <1>4 DEF Opened

\* An entry added for something new in an open directory keeps the order.
LEMMA ListableAppend ==
  ASSUME BuildTypes, BuildTypes', EntriesListable, NEW new, entries' = Append(entries, new),
         Fresh(new.name), Front(new.name) # <<>> => Opened(Front(new.name))
  PROVE  EntriesListable'
<1> DEFINE n == Len(entries)
           dir == Front(new.name)
<1>1. /\ n \in Nat /\ Len(entries') = n + 1 /\ entries'[n + 1] = new
      /\ \A i \in 1 .. n : entries'[i] = entries[i]
      /\ new.name \in Seq(Names) /\ new.name # <<>>
      /\ \A i \in 1 .. n : entries[i].name \in Seq(Names)
      /\ DOMAIN entries = 1 .. n /\ DOMAIN entries' = 1 .. n + 1
  BY BuildIs, EntryAdded, LayersAssumption
<1>2. ASSUME NEW i \in 1 .. n + 1, NEW j \in 1 .. n + 1, entries'[i].name = entries'[j].name
      PROVE  i = j
  <2>1. \A k \in 1 .. n : entries[k].name # new.name
    BY <1>1, PrefixReflexive DEF Fresh
  <2>2. CASE i = n + 1
    <3>1. j \notin 1 .. n
      BY <1>1, <1>2, <2>1, <2>2
    <3> QED
      BY <1>1, <2>2, <3>1
  <2>3. CASE j = n + 1
    <3>1. i \notin 1 .. n
      BY <1>1, <1>2, <2>1, <2>3
    <3> QED
      BY <1>1, <2>3, <3>1
  <2>4. CASE i \in 1 .. n /\ j \in 1 .. n
    BY <1>1, <1>2, <2>4 DEF EntriesListable
  <2> QED
    BY <1>1, <2>2, <2>3, <2>4
<1>3. ASSUME NEW j \in 1 .. n + 1, Len(entries'[j].name) > 1
      PROVE  \E i \in 1 .. j - 1 :
                /\ entries'[i].slash /\ entries'[i].name = Front(entries'[j].name)
                /\ \A k \in i .. j : IsPrefix(entries'[i].name, entries'[k].name)
  <2>1. CASE j \in 1 .. n
    <3>1. entries'[j] = entries[j]
      BY <1>1, <2>1
    <3>2. PICK i \in 1 .. j - 1 :
             /\ entries[i].slash /\ entries[i].name = Front(entries[j].name)
             /\ \A k \in i .. j : IsPrefix(entries[i].name, entries[k].name)
      BY <1>1, <1>3, <2>1, <3>1 DEF EntriesListable
    <3>3. \A k \in i .. j : k \in 1 .. n /\ entries'[k] = entries[k]
      BY <1>1, <2>1, <3>2
    <3>4. i \in i .. j
      BY <2>1
    <3> QED
      BY <3>1, <3>2, <3>3, <3>4
  <2>2. CASE j = n + 1
    <3>1. dir \in Seq(Names) /\ Len(new.name) = Len(dir) + 1 /\ Last(new.name) \in Names
          /\ new.name = Append(dir, Last(new.name))
      BY <1>1, FrontProperties
    <3>2. Opened(dir)
      <4>1. Len(dir) > 0
        BY <1>1, <1>3, <2>2, <3>1, LenProperties
      <4>2. dir # <<>>
        BY <4>1, EmptySeq
      <4> QED
        BY <4>2
    <3> HIDE DEF dir
    <3>3. IsPrefix(dir, new.name)
      BY <3>1, PrefixOfAppend, PrefixReflexive
    <3>4. PICK i \in 1 .. n : /\ entries[i].slash /\ entries[i].name = dir
                              /\ \A k \in i .. n : IsPrefix(dir, entries[k].name)
      BY <3>2 DEF Opened
    <3>5. ASSUME NEW k \in i .. j PROVE IsPrefix(dir, entries'[k].name)
      <4>1. CASE k = n + 1
        BY <1>1, <3>3, <4>1
      <4>2. CASE k # n + 1
        <5>1. k \in 1 .. n /\ k \in i .. n
          BY <1>1, <2>2, <4>2
        <5> QED
          BY <1>1, <3>4, <5>1
      <4> QED
        BY <4>1, <4>2
    <3>6. i \in 1 .. j - 1 /\ entries'[i] = entries[i]
      BY <1>1, <2>2
    <3>7. entries'[j] = new
      BY <1>1, <2>2
    <3> QED
      BY <3>4, <3>5, <3>6, <3>7 DEF dir
  <2>3. j \in 1 .. n \/ j = n + 1
    BY <1>1
  <2> QED
    BY <2>1, <2>2, <2>3
<1> QED
  BY <1>1, <1>2, <1>3 DEF EntriesListable

\* What is still pending when a name was taken was pending before.
LEMMA PendingLess ==
  ASSUME BuildTypes, NEW name, Taken(name), NEW path, Pending(path)'
  PROVE  Pending(path)
<1>1. /\ Len(frames') = Len(frames)
      /\ \A k \in 1 .. Len(frames) : /\ frames'[k].path = frames[k].path
                                     /\ frames'[k].left \subseteq frames[k].left
  BY TakenTypes
<1> QED
  BY <1>1 DEF Pending

\* The name taken from the innermost list: nothing there has an entry yet,
\* and it is pending no longer.
LEMMA TakenFresh ==
  ASSUME BuildTypes, Nested, AllOpened, NothingPending, NEW name, Taken(name),
         NEW path, path = Append(Last(frames).path, name)
  PROVE  /\ Fresh(path) /\ ~Pending(path)'
         /\ Front(path) = Last(frames).path
         /\ \A k \in 1 .. Len(frames) :
               IsPrefix(frames[k].path, path) /\ frames[k].path # path
<1> DEFINE n == Len(frames)
           dir == frames[n].path
<1>0. path = Append(dir, name)
  BY TakenTypes
<1>1. /\ n \in Nat /\ n >= 1 /\ Last(frames) = frames[n]
      /\ name \in Names /\ name \in frames[n].left
      /\ dir \in Seq(Names) /\ path \in Seq(Names) /\ Len(path) = Len(dir) + 1
      /\ Front(path) = dir /\ n \in 1 .. n /\ Len(dir) \in Nat
  <2>1. /\ n \in Nat /\ n >= 1 /\ Last(frames) = frames[n] /\ name \in Names
        /\ dir \in Seq(Names)
    BY TakenTypes
  <2>2. n \in 1 .. n /\ name \in frames[n].left
    BY <2>1 DEF Taken
  <2>3. path \in Seq(Names) /\ Len(path) = Len(dir) + 1 /\ Front(path) = dir
    BY <1>0, <2>1, AppendProperties, FrontAppend
  <2>4. Len(dir) \in Nat
    BY <2>1, LenProperties
  <2> QED
    BY <2>1, <2>2, <2>3, <2>4
<1>2. Fresh(path)
  <2> SUFFICES ASSUME NEW i \in 1 .. Len(entries), IsPrefix(path, entries[i].name) PROVE FALSE
    BY DEF Fresh
  <2>1. Pending(entries[i].name)
    BY <1>0, <1>1 DEF Pending
  <2> QED
    BY <2>1 DEF NothingPending
<1>3. ASSUME NEW k \in 1 .. n
      PROVE  IsPrefix(frames[k].path, dir) /\ (k # n => frames[k].path # dir)
  <2>1. CASE k = n
    BY <1>1, <2>1, PrefixReflexive
  <2>2. CASE k # n
    <3>1. k < n
      BY <1>1, <2>2
    <3> QED
      BY <1>1, <3>1 DEF Nested
  <2> QED
    BY <2>1, <2>2
<1>4. \A k \in 1 .. n : frames[k].path \in Seq(Names) /\ Len(frames[k].path) \in Nat
  BY BuildIs, LenProperties
<1>5. ASSUME NEW k \in 1 .. n
      PROVE  IsPrefix(frames[k].path, path) /\ frames[k].path # path
  <2>1. IsPrefix(frames[k].path, path)
    BY <1>0, <1>1, <1>3, <1>4, PrefixOfAppend
  <2>2. Len(frames[k].path) <= Len(dir)
    BY <1>3 DEF IsPrefix
  <2>3. frames[k].path # path
    <3> HIDE DEF dir
    <3> QED
      BY <1>1, <1>4, <2>2
  <2> QED
    BY <2>1, <2>3
<1>6. ~Pending(path)'
  <2> SUFFICES ASSUME Pending(path)' PROVE FALSE
    OBVIOUS
  <2>1. /\ Len(frames') = n
        /\ \A k \in 1 .. n : /\ frames'[k].path = frames[k].path
                             /\ frames'[k].left = IF k = n THEN frames[k].left \ {name}
                                                  ELSE frames[k].left
    BY TakenTypes
  <2>2. PICK k \in 1 .. n, x \in Names :
           x \in frames'[k].left /\ IsPrefix(Append(frames[k].path, x), path)
    BY <2>1 DEF Pending
  <2>3. /\ Append(frames[k].path, x) \in Seq(Names)
        /\ Len(Append(frames[k].path, x)) = Len(frames[k].path) + 1
    BY <1>4, AppendProperties
  <2>4. CASE k = n
    <3>1. x # name /\ Append(dir, x) \in Seq(Names) /\ Len(Append(dir, x)) = Len(path)
          /\ IsPrefix(Append(dir, x), path)
      BY <1>1, <2>1, <2>2, <2>3, <2>4
    <3>2. Len(path) <= Len(Append(dir, x))
      BY <1>1, <3>1
    <3>3. Append(dir, x) = Append(dir, name)
      BY <1>0, <1>1, <3>1, <3>2, PrefixAntisymmetric
    <3> QED
      BY <1>1, <3>1, <3>3, AppendInjective
  <2>5. CASE k # n
    <3>1. x \in frames[k].left
      BY <2>1, <2>2, <2>5
    <3>2. IsPrefix(Append(frames[k].path, x), dir)
      <4>1. Append(frames[k].path, x) # path
        <5>1. frames[k].path # dir
          BY <1>3, <2>5
        <5>2. \A s, t \in Seq(Names) : Append(s, x) = Append(t, name) => s = t
          BY <1>1, AppendInjective
        <5> QED
          BY <1>0, <1>1, <1>4, <5>1, <5>2
      <4> DEFINE below == Append(frames[k].path, x)
      <4>2. below \in Seq(Names) /\ below # path /\ IsPrefix(below, path)
        BY <2>2, <2>3, <4>1
      <4> HIDE DEF below
      <4>3. IsPrefix(below, dir)
        BY <1>0, <1>1, <4>2, PrefixOfAppend
      <4> QED
        BY <4>3 DEF below
    <3>3. Opened(dir)
      <4>1. dir # <<>>
        <5>1. Len(frames[k].path) + 1 <= Len(dir)
          BY <2>3, <3>2 DEF IsPrefix
        <5>2. Len(dir) # 0
          <6> HIDE DEF dir
          <6> QED
            BY <1>1, <1>4, <5>1
        <5> QED
          BY <5>2, EmptySeq
      <4> QED
        BY <1>1, <4>1 DEF AllOpened
    <3>4. PICK i \in 1 .. Len(entries) : entries[i].name = dir
      BY <3>3 DEF Opened
    <3>5. Pending(entries[i].name)
      BY <3>1, <3>2, <3>4 DEF Pending
    <3> QED
      BY <3>5 DEF NothingPending
  <2> QED
    BY <2>4, <2>5
<1> QED
  BY <1>1, <1>2, <1>5, <1>6

LEMMA EntriesKept ==
  ASSUME UNCHANGED entries
  PROVE  /\ EntriesListable => EntriesListable'
         /\ \A path : Opened(path) => Opened(path)'
BY DEF EntriesListable, Opened

\* An entry was added, inside each directory under way.
LEMMA AllOpenedAppend ==
  ASSUME BuildTypes, BuildTypes', AllOpened, NEW new, entries' = Append(entries, new),
         Len(frames') = Len(frames),
         \A k \in 1 .. Len(frames) : /\ frames'[k].path = frames[k].path
                                     /\ IsPrefix(frames[k].path, new.name)
  PROVE  AllOpened'
<1> SUFFICES ASSUME NEW k \in 1 .. Len(frames), NEW path, path = frames[k].path, path # <<>>
             PROVE  Opened(path)'
  BY DEF AllOpened
<1>1. Opened(path) /\ IsPrefix(path, new.name)
  BY DEF AllOpened
<1> QED
  BY <1>1, OpenedAppend

\* copyFolder goes into child.
LEMMA EnterKeepsOrder ==
  ASSUME FoldersInv, BuildTypes, BuildTypes', OrderInv, pc = "readdir", pc' = "next",
         UNCHANGED <<child, entries>>, NEW left \in SUBSET Names,
         frames' = Append(frames, [path |-> child, left |-> left])
  PROVE  OrderInv'
<1> DEFINE n == Len(frames)
           new == [path |-> child, left |-> left]
<1>1. new.path = child /\ new.left = left
  OBVIOUS
<1>2. /\ n \in Nat /\ Len(frames') = n + 1 /\ frames'[n + 1] = new
      /\ \A k \in 1 .. n : frames'[k] = frames[k]
      /\ child \in Seq(Names)
      /\ \A i \in 1 .. Len(entries) : entries[i].name \in Seq(Names)
  <2>1. frames \in Seq(Frame) /\ new \in Frame
    BY DEF BuildTypes, Frame
  <2> HIDE DEF new
  <2>2. frames' = Append(frames, new)
    BY DEF new
  <2> QED
    BY <2>1, <2>2, BuildIs, AppendProperties
<1> HIDE DEF new
<1>3. IF child = <<>> THEN AtRoot ELSE Entering
  BY DEF OrderInv
<1>4. \A k \in 1 .. n : IsPrefix(frames[k].path, child) /\ frames[k].path # child
  <2>1. CASE child = <<>>
    BY <1>3, <2>1, EmptySeq DEF AtRoot
  <2>2. CASE child # <<>>
    BY <1>3, <2>2 DEF Entering
  <2> QED
    BY <2>1, <2>2
<1>5. Nested'
  <2> SUFFICES ASSUME NEW k \in 1 .. n + 1, NEW l \in 1 .. n + 1, k < l
               PROVE  IsPrefix(frames'[k].path, frames'[l].path) /\ frames'[k].path # frames'[l].path
    <3>1. Len(frames') = n + 1
      BY <1>2
    <3> QED
      BY <3>1 DEF Nested
  <2>1. k \in 1 .. n
    BY <1>2
  <2>2. CASE l = n + 1
    BY <1>1, <1>2, <1>4, <2>1, <2>2
  <2>3. CASE l # n + 1
    <3>1. l \in 1 .. n
      BY <1>2, <2>3
    <3> QED
      BY <1>2, <2>1, <3>1 DEF OrderInv, Nested
  <2> QED
    BY <2>2, <2>3
<1>6. AllOpened'
  <2> SUFFICES ASSUME NEW k \in 1 .. n + 1, NEW path, path = frames'[k].path, path # <<>>
               PROVE  Opened(path)'
    BY <1>2 DEF AllOpened
  <2>1. Opened(path)
    <3>1. CASE k = n + 1
      BY <1>1, <1>2, <1>3, <3>1 DEF Entering
    <3>2. CASE k # n + 1
      <4>1. k \in 1 .. n
        BY <1>2, <3>2
      <4> QED
        BY <1>2, <4>1 DEF OrderInv, AllOpened
    <3> QED
      BY <3>1, <3>2
  <2> QED
    BY <2>1, EntriesKept
<1>7. NothingPending'
  <2> SUFFICES ASSUME NEW i \in 1 .. Len(entries), NEW k \in 1 .. n + 1, NEW name \in Names,
                      name \in frames'[k].left,
                      IsPrefix(Append(frames'[k].path, name), entries[i].name)
               PROVE  FALSE
    BY <1>2 DEF NothingPending, Pending
  <2>1. CASE k = n + 1
    <3> DEFINE e == entries[i].name
               p == Append(child, name)
    <3>1. IsPrefix(p, e) /\ e \in Seq(Names) /\ p \in Seq(Names) /\ Len(p) = Len(child) + 1
          /\ Len(child) \in Nat /\ Len(e) \in Nat
      BY <1>1, <1>2, <2>1, AppendProperties, LenProperties
    <3>2. IsPrefix(child, p)
      BY <1>2, PrefixOfAppend, PrefixReflexive
    <3> HIDE DEF p, e
    <3>3. IsPrefix(child, e)
      BY <1>2, <3>1, <3>2, PrefixTransitive
    <3>4. Len(p) <= Len(e)
      BY <3>1 DEF IsPrefix
    <3>5. e = child
      <4>1. CASE child = <<>>
        BY <1>3, <4>1, EmptySeq DEF AtRoot
      <4>2. CASE child # <<>>
        BY <1>3, <3>3, <4>2 DEF Entering, e
      <4> QED
        BY <4>1, <4>2
    <3> QED
      BY <3>1, <3>4, <3>5
  <2>2. CASE k # n + 1
    <3>1. k \in 1 .. n /\ frames'[k] = frames[k]
      BY <1>2, <2>2
    <3>2. Pending(entries[i].name)
      BY <3>1 DEF Pending
    <3> QED
      BY <3>2 DEF OrderInv, NothingPending
  <2> QED
    BY <2>1, <2>2
<1>8. EntriesListable'
  BY EntriesKept DEF OrderInv
<1> QED
  BY <1>5, <1>6, <1>7, <1>8 DEF OrderInv, Handling

\* A turn of copyFolder's loop begins.
LEMMA NextNameKeepsOrder ==
  ASSUME BuildTypes, OrderInv, TakesName
  PROVE  OrderInv'
<1>1. PICK name \in Names :
         /\ Taken(name) /\ pc = "next" /\ UNCHANGED entries
         /\ \/ UNCHANGED <<pc, child>>
            \/ child' = Append(Last(frames).path, name) /\ pc' = "stat"
  BY DEF TakesName
<1> DEFINE n == Len(frames)
<1>2. /\ n \in Nat /\ n >= 1 /\ Last(frames) = frames[n] /\ Len(frames') = n
      /\ \A k \in 1 .. n : frames'[k].path = frames[k].path
      /\ frames' \in Seq(Frame)
  BY <1>1, TakenTypes
<1>3. Last(frames').path = Last(frames).path /\ frames' # <<>>
  BY <1>2, EmptySeq DEF Last
<1>4. Nested'
  BY <1>2 DEF OrderInv, Nested
<1>5. EntriesListable'
  BY <1>1, EntriesKept DEF OrderInv
<1>6. AllOpened'
  BY <1>1, <1>2 DEF OrderInv, AllOpened, Opened
<1>7. NothingPending'
  <2> SUFFICES ASSUME NEW i \in 1 .. Len(entries), NEW e, e = entries[i].name PROVE ~Pending(e)'
    BY <1>1 DEF NothingPending, Pending
  <2> QED
    BY <1>1, PendingLess DEF OrderInv, NothingPending
<1>8. CASE UNCHANGED <<pc, child>>
  BY <1>1, <1>4, <1>5, <1>6, <1>7, <1>8 DEF OrderInv, Handling
<1>9. ASSUME NEW path, path = Append(Last(frames).path, name), child' = path, pc' = "stat"
      PROVE  OrderInv'
  <2>1. Fresh(path) /\ ~Pending(path)' /\ Front(path) = Last(frames).path
    BY <1>1, <1>9, TakenFresh DEF OrderInv
  <2>2. Fresh(path)'
    BY <1>1, <2>1 DEF Fresh
  <2>3. Reading'
    BY <1>3, <1>9, <2>1, <2>2 DEF Reading, Fresh, Pending
  <2> QED
    BY <1>4, <1>5, <1>6, <1>7, <1>9, <2>3 DEF OrderInv
<1> QED
  BY <1>1, <1>8, <1>9

\* An entry for child goes into the directory under way.
LEMMA AddKeepsOrder ==
  ASSUME BuildTypes, BuildTypes', OrderInv, pc \in Handling, UNCHANGED <<frames, child>>,
         child \in TreePaths, NEW new, new.name = child, entries' = Append(entries, new)
  PROVE  /\ EntriesListable' /\ Nested' /\ AllOpened' /\ NothingPending'
         /\ \A k \in 1 .. Len(frames) :
               IsPrefix(frames[k].path, child) /\ frames[k].path # child
<1> DEFINE n == Len(frames)
           m == Len(entries)
<1>1. Nested'
  BY DEF OrderInv, Nested
<1>2. /\ m \in Nat /\ Len(entries') = m + 1 /\ entries'[m + 1] = new
      /\ \A i \in 1 .. m : entries'[i] = entries[i]
      /\ child \in Seq(Names) /\ child # <<>>
  BY EntryAdded, BuildIs, LayersAssumption
<1>3. Reading
  BY DEF OrderInv
<1>4. /\ n \in Nat /\ n \in 1 .. n /\ Last(frames) = frames[n]
      /\ \A k \in 1 .. n : frames[k].path \in Seq(Names)
  <2>1. frames \in Seq(Frame) /\ n \in Nat \ {0}
    BY <1>3, EmptySeq DEF Reading, BuildTypes
  <2> QED
    BY <2>1, BuildIs DEF Last
<1>5. EntriesListable'
  <2>1. Front(child) # <<>> => Opened(Front(child))
    BY <1>3, <1>4 DEF OrderInv, AllOpened, Reading
  <2> QED
    BY <1>3, <2>1, ListableAppend DEF OrderInv, Reading
<1>6. child = Append(frames[n].path, Last(child)) /\ Last(child) \in Names
  BY <1>2, <1>3, <1>4, FrontProperties DEF Reading
<1>7. ASSUME NEW k \in 1 .. n PROVE IsPrefix(frames[k].path, child) /\ frames[k].path # child
  <2>1. IsPrefix(frames[k].path, frames[n].path)
    <3>1. CASE k = n
      BY <1>4, <3>1, PrefixReflexive
    <3>2. CASE k # n
      <4>1. k < n
        BY <1>4, <3>2
      <4> QED
        BY <1>4, <4>1 DEF OrderInv, Nested
    <3> QED
      BY <3>1, <3>2
  <2>2. IsPrefix(frames[k].path, child)
    <3> DEFINE p == frames[n].path
               last == Last(child)
    <3>1. frames[k].path \in Seq(Names) /\ p \in Seq(Names) /\ last \in Names
      BY <1>4, <1>6
    <3>2. child = Append(p, last)
      BY <1>6
    <3> HIDE DEF p, last
    <3>3. IsPrefix(frames[k].path, Append(p, last))
      BY <2>1, <3>1, PrefixOfAppend DEF p
    <3> QED
      BY <3>2, <3>3
  <2>3. Len(child) = Len(frames[n].path) + 1 /\ Len(frames[n].path) \in Nat
    BY <1>4, <1>6, AppendProperties, LenProperties
  <2>4. Len(frames[k].path) <= Len(frames[n].path)
    BY <2>1 DEF IsPrefix
  <2>5. frames[k].path # child
    BY <2>3, <2>4
  <2> QED
    BY <2>2, <2>5
<1>8. AllOpened'
  BY <1>7, AllOpenedAppend DEF OrderInv
<1>9. NothingPending'
  <2> SUFFICES ASSUME NEW i \in 1 .. m + 1 PROVE ~Pending(entries'[i].name)
    BY <1>2 DEF NothingPending, Pending
  <2>1. CASE i = m + 1
    BY <1>2, <1>3, <2>1 DEF Reading
  <2>2. CASE i # m + 1
    <3>1. i \in 1 .. m /\ entries'[i] = entries[i]
      BY <1>2, <2>2
    <3> QED
      BY <3>1 DEF OrderInv, NothingPending
  <2> QED
    BY <2>1, <2>2
<1> QED
  BY <1>1, <1>5, <1>7, <1>8, <1>9

LEMMA AddDirectoryKeepsOrder ==
  ASSUME BuildTypes, BuildTypes', OrderInv, AddsDirectory
  PROVE  OrderInv'
<1> DEFINE m == Len(entries)
           new == Entry(child, TRUE, Nil)
<1>1. /\ pc \in Handling /\ pc' = "readdir" /\ UNCHANGED <<frames, child>>
      /\ new.name = child /\ new.slash /\ entries' = Append(entries, new)
      /\ child \in TreePaths
  BY DEF AddsDirectory, Entry, Handling, BuildTypes
<1> HIDE DEF new
<1>2. /\ EntriesListable' /\ Nested' /\ AllOpened' /\ NothingPending'
      /\ \A k \in 1 .. Len(frames) :
            IsPrefix(frames[k].path, child) /\ frames[k].path # child
  BY <1>1, AddKeepsOrder
<1>3. /\ m \in Nat /\ Len(entries') = m + 1 /\ entries'[m + 1] = new
      /\ \A i \in 1 .. m : entries'[i] = entries[i]
      /\ child \in Seq(Names) /\ child # <<>>
  BY <1>1, EntryAdded, BuildIs, LayersAssumption
<1>4. Fresh(child)
  BY <1>1 DEF OrderInv, Reading
<1>5. Entering'
  <2>1. Opened(child)'
    <3>1. \A j \in m + 1 .. m + 1 : IsPrefix(child, entries'[j].name)
      <4>1. \A j \in m + 1 .. m + 1 : j = m + 1
        BY <1>3
      <4>2. entries'[m + 1].name = child /\ IsPrefix(child, child)
        BY <1>1, <1>3, PrefixReflexive
      <4> QED
        BY <4>1, <4>2
    <3>2. m + 1 \in 1 .. m + 1 /\ entries'[m + 1].slash /\ entries'[m + 1].name = child
      BY <1>1, <1>3
    <3> QED
      BY <1>1, <1>3, <3>1, <3>2 DEF Opened
  <2>2. ASSUME NEW i \in 1 .. m + 1, IsPrefix(child, entries'[i].name)
        PROVE  entries'[i].name = child
    <3>1. i \notin 1 .. m
      BY <1>3, <1>4, <2>2 DEF Fresh
    <3> QED
      BY <1>1, <1>3, <3>1
  <2> QED
    BY <1>1, <1>2, <1>3, <2>1, <2>2 DEF Entering, Opened
<1> QED
  BY <1>1, <1>2, <1>3, <1>5 DEF OrderInv, Handling

LEMMA AddDataKeepsOrder ==
  ASSUME BuildTypes, BuildTypes', OrderInv, AddsData
  PROVE  OrderInv'
<1>1. PICK data \in EntryData : entries' = Append(entries, Entry(child, FALSE, data))
  BY DEF AddsData
<1> DEFINE new == Entry(child, FALSE, data)
<1>2. /\ pc \in Handling /\ pc' = "next" /\ UNCHANGED <<frames, child>>
      /\ new.name = child /\ entries' = Append(entries, new) /\ child \in TreePaths
  BY <1>1 DEF AddsData, Entry, Handling, BuildTypes
<1> HIDE DEF new
<1>3. EntriesListable' /\ Nested' /\ AllOpened' /\ NothingPending'
  BY <1>2, AddKeepsOrder
<1> QED
  BY <1>2, <1>3 DEF OrderInv, Handling

LEMMA OrderStep ==
  ASSUME FoldersInv, BuildTypes, BuildTypes', OrderInv, [Next]_vars
  PROVE  OrderInv'
<1>1. CASE Enters
  <2>1. /\ pc = "readdir" /\ pc' = "next" /\ UNCHANGED <<child, entries>>
        /\ \E left \in SUBSET Names : frames' = Append(frames, [path |-> child, left |-> left])
    BY <1>1 DEF Enters
  <2> QED
    BY <2>1, EnterKeepsOrder
<1>2. CASE Returns
  <2>1. /\ pc = "next" /\ frames # <<>> /\ frames' = Front(frames)
        /\ UNCHANGED <<pc, child, entries>>
    BY <1>2 DEF Returns
  <2>2. /\ frames \in Seq(Frame) /\ frames' \in Seq(Frame)
        /\ frames = Append(frames', Last(frames)) /\ Last(frames) \in Frame
    BY <2>1, FrontProperties DEF BuildTypes
  <2>3. /\ Len(frames') \in Nat /\ Len(frames) = Len(frames') + 1
        /\ \A k \in 1 .. Len(frames') : k \in 1 .. Len(frames) /\ frames[k] = frames'[k]
    BY <2>2, AppendProperties, LenProperties
  <2>4. EntriesListable'
    BY <2>1, EntriesKept DEF OrderInv
  <2>5. Nested'
    BY <2>3 DEF OrderInv, Nested
  <2>6. AllOpened'
    BY <2>1, <2>3 DEF OrderInv, AllOpened, Opened
  <2>7. NothingPending'
    BY <2>1, <2>3 DEF OrderInv, NothingPending, Pending
  <2> QED
    BY <2>1, <2>4, <2>5, <2>6, <2>7 DEF OrderInv, Handling
<1>3. CASE OnlyAsks
  <2>1. /\ UNCHANGED <<frames, child, entries>>
        /\ \/ pc' = pc
           \/ pc' \in {"error", "done"}
           \/ pc \in {"open", "runtime"} /\ pc' \in {"runtime", "readdir"}
           \/ pc \in Handling /\ pc' \in Handling
    BY <1>3 DEF OnlyAsks
  <2>2. EntriesListable' /\ Nested' /\ AllOpened' /\ NothingPending'
    BY <2>1, EntriesKept DEF OrderInv, Nested, AllOpened, NothingPending, Pending, Opened
  <2>3. (AtRoot => AtRoot') /\ (Entering => Entering') /\ (Reading => Reading')
    BY <2>1 DEF AtRoot, Entering, Reading, Opened, Fresh, Pending
  <2> QED
    BY <2>1, <2>2, <2>3 DEF OrderInv, Handling
<1> QED
  BY <1>1, <1>2, <1>3, NextNameKeepsOrder, AddDirectoryKeepsOrder, AddDataKeepsOrder, StepIs

\* The entries keep the order that zipBundle's readdir and stat rely on,
\* whatever the folders hold or become while copyFolder (luvibundle.lua:175)
\* goes through them, and wherever the build stops.
THEOREM EntriesListableAlways == Spec => []EntriesListable
<1>1. Init => OrderInv
  <2> SUFFICES ASSUME Init PROVE OrderInv
    OBVIOUS
  <2>1. frames = <<>> /\ child = <<>> /\ entries = <<>> /\ pc = "open"
    BY DEF Init
  <2>2. DOMAIN entries = {} /\ Len(entries) = 0 /\ Len(frames) = 0
    BY <2>1, EmptySeq
  <2>3. EntriesListable
    BY <2>2 DEF EntriesListable
  <2>4. Nested /\ AllOpened /\ NothingPending /\ AtRoot
    BY <2>1, <2>2 DEF Nested, AllOpened, NothingPending, AtRoot
  <2> QED
    BY <2>1, <2>3, <2>4 DEF OrderInv, Handling
<1>2. FoldersInv /\ BuildTypes /\ BuildTypes' /\ OrderInv /\ [Next]_vars => OrderInv'
  BY OrderStep
<1>3. OrderInv => EntriesListable
  BY DEF OrderInv
<1> QED
  BY <1>1, <1>2, <1>3, BuildTypeCorrect, PTL DEF Spec

-----------------------------------------------------------------------------
(* The layers as one folder, and what its bundle answers.                  *)

\* What is at q, below whichever base has it first.
Merged(q) == Lookup(Overlay, q)

MergedNames(q) == {name \in Names : Merged(Append(q, name)) # Nil}

LEMMA MergedIs ==
  ASSUME FoldersInv, NEW q \in Seq(Names)
  PROVE  /\ q \in DOMAIN Overlay <=> Merged(q) # Nil
         /\ \A i \in 1 .. Len(Bases) : Node(i, q) # Nil => Merged(q) # Nil
         /\ Merged(q) # Nil => \E i \in 1 .. Len(Bases) : Merged(q) = Node(i, q)
         /\ Merged(q) \in Contents \cup {Directory, Nil}
         /\ Merged(q) # Nil => q \in Folders
<1> DEFINE n == Len(Bases)
           S == {i \in 1 .. n : Node(i, q) # Nil}
<1>1. n \in Nat \ {0}
  BY BasesAre
<1>2. /\ \A i \in 1 .. n :
            Node(i, q) # Nil /\ (\A j \in 1 .. i - 1 : Node(j, q) = Nil)
              => Merged(q) = Node(i, q)
      /\ (\A i \in 1 .. n : Node(i, q) = Nil) => Merged(q) = Nil
  BY OverlayIs DEF Merged
<1>3. ASSUME S # {} PROVE \E i \in 1 .. n : Merged(q) = Node(i, q) /\ Merged(q) # Nil
  <2>1. S \in SUBSET Nat
    OBVIOUS
  <2>2. Min(S) \in S /\ \A i \in S : Min(S) <= i
    BY <1>3, <2>1, MinIs
  <2>3. ASSUME NEW j \in 1 .. Min(S) - 1 PROVE Node(j, q) = Nil
    <3>1. Min(S) \in 1 .. n
      BY <2>2
    <3> HIDE DEF S
    <3>2. j \in 1 .. n /\ ~(Min(S) <= j)
      BY <1>1, <3>1
    <3>3. j \notin S
      BY <2>2, <3>2
    <3> QED
      BY <3>2, <3>3 DEF S
  <2>4. Min(S) \in 1 .. n /\ Node(Min(S), q) # Nil
    BY <2>2
  <2> HIDE DEF S
  <2> QED
    BY <1>2, <2>3, <2>4
<1>4. \A i \in 1 .. n : /\ Node(i, q) \in Contents \cup {Directory, Nil}
                        /\ Node(i, q) # Nil => q \in Folders
                        /\ Node(i, q) # Nil <=> Bases[i] \o q \in DOMAIN fs
  BY NodeIs
<1>5. Merged(q) # Nil <=> \E i \in 1 .. n : Node(i, q) # Nil
  BY <1>2, <1>3
<1>6. q \in DOMAIN Overlay <=> \E i \in 1 .. n : Node(i, q) # Nil
  <2>1. q \in DOMAIN Overlay
          <=> \/ q = <<>>
              \/ q \in TreePaths /\ \E base \in BasePaths : base \o q \in DOMAIN fs
    BY DEF Overlay
  <2>2. (\E base \in BasePaths : base \o q \in DOMAIN fs)
          <=> \E i \in 1 .. n : Bases[i] \o q \in DOMAIN fs
    BY BasesAre DEF BasePaths
  <2>3. q = <<>> => Node(1, q) # Nil
    <3> SUFFICES ASSUME q = <<>> PROVE Node(1, q) # Nil
      OBVIOUS
    <3>1. 1 \in 1 .. n /\ Bases[1] \in BasePaths
      BY <1>1, BasesAre
    <3>2. Bases[1] \o q = Bases[1]
      BY <3>1, BasesAre, ConcatEmptySeq
    <3> QED
      BY <1>4, <3>1, <3>2 DEF FoldersInv
  <2>4. 1 \in 1 .. n
    BY <1>1
  <2> QED
    BY <1>4, <2>1, <2>2, <2>3, <2>4 DEF Folders
<1> QED
  BY <1>1, <1>2, <1>3, <1>4, <1>5, <1>6

LEMMA MergedRoot == FoldersInv => Merged(<<>>) = Directory
<1> SUFFICES ASSUME FoldersInv PROVE Merged(<<>>) = Directory
  OBVIOUS
<1>1. <<>> \in Seq(Names) /\ <<>> \in DOMAIN Overlay
  BY EmptySeq DEF Overlay
<1>2. PICK i \in 1 .. Len(Bases) : Merged(<<>>) = Node(i, <<>>)
  BY <1>1, MergedIs
<1>3. Bases[i] \in BasePaths /\ Bases[i] \o <<>> = Bases[i]
  BY BasesAre, ConcatEmptySeq
<1> QED
  BY <1>2, <1>3 DEF FoldersInv, Node, Lookup

LEMMA MergedReads ==
  ASSUME FoldersInv, NEW p \in Paths, StaysBelow(p), Agree(Walk(<<>>, p))
  PROVE  LET q == Walk(<<>>, p)
         IN  /\ q \in Seq(Names)
             /\ bundle.stat[p] = TypeOf(Merged(q))
             /\ bundle.readfile[p] = IF Merged(q) \in Readable THEN Merged(q) ELSE Nil
             /\ Merged(q) # Directory => bundle.readdir[p] = Nil
             /\ Merged(q) = Directory =>
                  \/ bundle.readdir[p] = MergedNames(q)
                  \/ Len(Bases) > 1 /\ bundle.readdir[p] = Nil
<1> DEFINE q == Walk(<<>>, p)
           one == folderBundle(Overlay, <<>>)
           names == {name \in Names : Append(q, name) \in DOMAIN Overlay}
<1>1. q \in Seq(Names)
  BY BundleAnswers
<1>2. /\ one.stat[p] = TypeOf(Merged(q))
      /\ one.readfile[p] = IF Merged(q) \in Readable THEN Merged(q) ELSE Nil
      /\ one.readdir[p] = IF Merged(q) = Directory THEN names ELSE Nil
  BY OverlayAnswers DEF Merged
<1>3. names = MergedNames(q)
  <2>1. \A name \in Names : Append(q, name) \in Seq(Names)
    BY <1>1, AppendProperties
  <2> HIDE DEF q
  <2> QED
    BY <2>1, MergedIs DEF MergedNames
<1>4. /\ bundle.stat[p] = one.stat[p]
      /\ bundle.readfile[p] = one.readfile[p]
      /\ bundle.readdir[p] = IF Len(Bases) > 1 /\ one.readdir[p] = {} THEN Nil
                             ELSE one.readdir[p]
  BY LayersMatch
<1>5. names \in SUBSET Names /\ {} \in SUBSET Names
  OBVIOUS
<1>6. Nil # {}
  BY <1>5, NilIsNothing
<1> HIDE DEF q, one, names
<1> QED
  BY <1>1, <1>2, <1>3, <1>4, <1>6 DEF q

LEMMA AncestorIs ==
  ASSUME FoldersInv, NEW i \in 1 .. Len(Bases), NEW q \in Seq(Names), NEW t \in Seq(Names),
         t # <<>>, Node(i, q \o t) # Nil
  PROVE  Node(i, q) = Directory
<1> DEFINE T == {s \in Seq(Names) : s # <<>> /\ Node(i, q \o s) # Nil => Node(i, q) = Directory}
<1>1. <<>> \in T
  BY EmptySeq
<1>2. ASSUME NEW s \in Seq(Names), NEW name \in Names, s \in T PROVE Append(s, name) \in T
  <2>1. Append(s, name) \in Seq(Names) /\ q \o Append(s, name) = Append(q \o s, name)
        /\ q \o s \in Seq(Names)
    BY ConcatAppend, AppendProperties, ConcatProperties
  <2>2. ASSUME Node(i, q \o Append(s, name)) # Nil PROVE Node(i, q) = Directory
    <3>1. Node(i, q \o s) = Directory
      BY <2>1, <2>2, ParentIs
    <3>2. CASE s = <<>>
      <4>1. q \o s = q
        BY <3>2, ConcatEmptySeq
      <4> QED
        BY <3>1, <4>1
    <3>3. CASE s # <<>>
      BY <1>2, <3>1, <3>3, NilIsNothing
    <3> QED
      BY <3>2, <3>3
  <2> QED
    BY <2>1, <2>2
<1> HIDE DEF T
<1>3. Seq(Names) \subseteq T
  BY <1>1, <1>2, AppendInduction
<1> QED
  BY <1>3 DEF T

\* A file has nothing below it.
LEMMA AboveIsDirectory ==
  ASSUME FoldersInv, NEW s \in Seq(Names), NEW t \in Seq(Names),
         IsPrefix(s, t), s # t, Merged(t) # Nil, Agree(s)
  PROVE  Merged(s) = Directory
<1>1. PICK u \in Seq(Names) : t = s \o u
  BY PrefixRest
<1>2. u # <<>>
  BY <1>1, ConcatEmptySeq
<1>3. PICK i \in 1 .. Len(Bases) : Merged(t) = Node(i, t)
  BY MergedIs
<1>4. Node(i, s) = Directory
  BY <1>1, <1>2, <1>3, AncestorIs
<1>5. Merged(s) # Nil
  BY <1>4, MergedIs, NilIsNothing
<1>6. PICK j \in 1 .. Len(Bases) : Merged(s) = Node(j, s)
  BY <1>5, MergedIs
<1>7. TypeOf(Node(i, s)) = TypeOf(Node(j, s))
  BY <1>4, <1>5, <1>6, SameNode, NilIsNothing
<1> QED
  BY <1>4, <1>6, <1>7, NilIsNothing

-----------------------------------------------------------------------------
(* Nothing is left out.                                                    *)

HasEntry(p) == \E i \in 1 .. Len(entries) : entries[i].name = p

\* All that p is in are directories of the layers' folder.
Reachable(p) == \A s \in Seq(Names) : IsPrefix(s, p) /\ s # p => Merged(s) = Directory

\* p has an entry, or copyFolder will come to it.
Coming(p) ==
    \/ HasEntry(p)
    \/ Pending(p)
    \/ pc \in {"open", "runtime", "readdir"} /\ IsPrefix(child, p) /\ child # p
    \/ pc = "stat" /\ IsPrefix(child, p)
    \/ pc \in {"size", "file", "read"} /\ child = p

\* The layers have p, and no part of it is hidden.
Shown(p) == Merged(p) # Nil /\ Reachable(p) /\ \A n \in DOMAIN p : p[n] \notin Dotted

NothingLeftOut == pc # "error" => \A p \in TreePaths : Shown(p) => Coming(p)

\* The entry is what the layers have there.
Right(new) ==
    IF new.slash THEN Merged(new.name) = Directory
    ELSE /\ Merged(new.name) \in Contents
         /\ ~options.compile /\ Agree(new.name) =>
              new.data = Merged(new.name) /\ new.data \in Readable

EntriesRight == \A i \in 1 .. Len(entries) : Right(entries[i])

\* What is in a directory in the first n folders.
Found(path, n) == {name \in Names : \E i \in 1 .. n : Node(i, Append(path, name)) # Nil}

\* What the folders asked so far did not have, and this one has.
AskedRight(at, got, path) ==
    LET before == 1 .. got.layer - 1
        node   == Node(got.layer, path)
    IN  /\ at = "readdir" => got.names = Found(path, got.layer - 1)
        /\ at = "stat" => \A i \in before : Node(i, path) = Nil
        /\ at \in {"size", "file", "read"} =>
             Merged(path) \in Contents /\ \A i \in before : Node(i, path) \notin Readable
        /\ at \in {"file", "read"} => node \in Contents /\ got.size = Len(node)
        /\ at = "read" => node \in Readable /\ got.opened = node

\* What a build does while nothing fails and nobody changes the folders.
WholeInv ==
    /\ edits \in Nat /\ faults \in Nat
    /\ pc = "done" => frames = <<>>
    /\ edits = 0 /\ faults = 0 => /\ EntriesRight /\ NothingLeftOut
                                /\ AskedRight(pc, asked, child)

LEMMA BuildKeeps ==
  ASSUME Build \/ UNCHANGED vars
  PROVE  /\ UNCHANGED <<fs, options, edits>>
         /\ \A q : Merged(q)' = Merged(q)
         /\ \A i, q : Node(i, q)' = Node(i, q)
         /\ \A p : Shown(p)' <=> Shown(p)
         /\ \A new : Right(new)' <=> Right(new)
<1>1. UNCHANGED <<fs, options, edits>>
  BY DEF Build, OpenTarget, CopyRuntime, ReadFolder, CopyFolderReturns, NextName, StatName,
         SizeFile, OpenFile, AddFile, WriteArchive, vars
<1>2. Overlay' = Overlay
  BY <1>1 DEF Overlay
<1>3. \A q : Merged(q)' = Merged(q)
  BY <1>2 DEF Merged, Lookup
<1>4. \A i, q : Node(i, q)' = Node(i, q)
  BY <1>1 DEF Node, Lookup
<1>5. \A q : Agree(q)' <=> Agree(q)
  BY <1>1 DEF Agree, Lookup
<1>6. \A p : Reachable(p)' <=> Reachable(p)
  BY <1>3 DEF Reachable
<1> QED
  BY <1>1, <1>3, <1>4, <1>5, <1>6 DEF Shown, Right

LEMMA ShownIs ==
  ASSUME NEW p \in TreePaths, Shown(p)
  PROVE  /\ p \in Seq(Names) /\ p # <<>> /\ Merged(p) # Nil
         /\ \A s \in Seq(Names) : IsPrefix(s, p) /\ s # p => Merged(s) = Directory
         /\ \A s \in Seq(Names), name \in Names :
               IsPrefix(Append(s, name), p) => name \notin Dotted
<1>1. p \in Seq(Names) /\ p # <<>>
  BY LayersAssumption
<1>2. ASSUME NEW s \in Seq(Names), NEW name \in Names, IsPrefix(Append(s, name), p)
      PROVE  name \notin Dotted
  <2>1. Len(s) + 1 \in DOMAIN p /\ p[Len(s) + 1] = name
    BY <1>1, <1>2, StepOfPrefix
  <2> QED
    BY <2>1 DEF Shown
<1> QED
  BY <1>1, <1>2 DEF Shown, Reachable

LEMMA EntryStays ==
  ASSUME BuildTypes, BuildTypes', NEW p, HasEntry(p),
         UNCHANGED entries \/ \E new : entries' = Append(entries, new)
  PROVE  HasEntry(p)'
<1>1. CASE UNCHANGED entries
  BY <1>1 DEF HasEntry
<1>2. ASSUME NEW new, entries' = Append(entries, new) PROVE HasEntry(p)'
  <2>1. /\ Len(entries) \in Nat /\ Len(entries') = Len(entries) + 1
        /\ \A i \in 1 .. Len(entries) : entries'[i] = entries[i]
    BY <1>2, EntryAdded, BuildIs
  <2>2. PICK i \in 1 .. Len(entries) : entries[i].name = p
    BY DEF HasEntry
  <2>3. i \in 1 .. Len(entries') /\ entries'[i].name = p
    BY <2>1, <2>2
  <2> QED
    BY <2>3 DEF HasEntry
<1> QED
  BY <1>1, <1>2

LEMMA EntryComes ==
  ASSUME BuildTypes, BuildTypes', NEW p, NEW new, entries' = Append(entries, new), new.name = p
  PROVE  HasEntry(p)'
<1>1. /\ Len(entries) \in Nat /\ Len(entries') = Len(entries) + 1
      /\ entries'[Len(entries) + 1] = new
  BY EntryAdded, BuildIs
<1>2. Len(entries) + 1 \in 1 .. Len(entries')
  BY <1>1
<1> QED
  BY <1>1, <1>2 DEF HasEntry

\* What a call gets that does not fail although something is there.
LEMMA NoFault ==
  ASSUME faults \in Nat, faults' = 0
  PROVE  ~Fails /\ \A there : Misses(there) => ~there
<1>1. ~Fails
  BY DEF Fails
<1> QED
  BY <1>1 DEF Misses

\* One folder more was listed.
LEMMA FoundIs ==
  ASSUME FoldersInv, BuildTypes, ReadFolder, faults \in Nat, faults' = 0,
         asked.names = Found(child, asked.layer - 1)
  PROVE  LET names == Found(child, asked.layer)
         IN  \/ /\ LastAsked /\ pc' = "next"
                /\ frames' = Append(frames, [path |-> child, left |-> names])
             \/ /\ ~LastAsked /\ UNCHANGED <<pc, frames>>
                /\ asked'.names = names /\ asked'.layer = asked.layer + 1
<1> DEFINE n == asked.layer
<1>1. /\ n \in 1 .. Len(Bases) /\ Len(Bases) \in Nat /\ child \in Seq(Names)
      /\ Here = Node(n, child) /\ pc = "readdir"
  BY HereIs, BasesAre, ReadFolderIs
<1> DEFINE there == {name \in Names : Node(n, Append(child, name)) # Nil}
<1>2. Found(child, n) = asked.names \cup there
  <2>1. \A i : i \in 1 .. n <=> i \in 1 .. n - 1 \/ i = n
    BY <1>1
  <2> HIDE DEF n
  <2> QED
    BY <2>1 DEF Found, n
<1>3. Scandir(fs, Where) = there
  BY <1>1, ListsTree
<1>4. Here # Directory => there = {}
  BY <1>1, ParentIs
<1>5. Lists(Found(child, n))
  <2>1. CASE Lists(AddedNames)
    BY <1>2, <1>3, <2>1 DEF AddedNames
  <2>2. CASE Misses(Here = Directory) /\ Lists(asked.names)
    <3>1. Here # Directory
      BY <2>2, NoFault
    <3>2. Found(child, n) = asked.names
      BY <1>2, <1>4, <3>1
    <3> QED
      BY <2>2, <3>2
  <2> QED
    BY <2>1, <2>2 DEF ReadFolder
<1>6. \A names : LET next == [Asking(n + 1) EXCEPT !.names = names]
                 IN  next.names = names /\ next.layer = n + 1
  BY DEF Asking
<1> HIDE DEF n
<1> QED
  BY <1>1, <1>5, <1>6 DEF Lists, n

\* The list of child has the next name on the way to p.
LEMMA ReadFolderComes ==
  ASSUME FoldersInv, BuildTypes, BuildTypes', ReadFolder, faults \in Nat, faults' = 0,
         asked.names = Found(child, asked.layer - 1),
         NEW p \in TreePaths, Shown(p), Coming(p)
  PROVE  Coming(p)'
<1>1. pc = "readdir" /\ UNCHANGED <<child, entries>>
  BY ReadFolderIs
<1> DEFINE new == [path |-> child, left |-> Found(child, asked.layer)]
<1>2. \/ LastAsked /\ pc' = "next" /\ frames' = Append(frames, new)
      \/ UNCHANGED <<pc, frames>>
  BY FoundIs
<1>3. CASE UNCHANGED <<pc, frames>>
  BY <1>1, <1>3 DEF Coming, HasEntry, Pending
<1>4. CASE LastAsked /\ pc' = "next" /\ frames' = Append(frames, new)
  <2>1. asked.layer = Len(Bases)
    BY <1>4 DEF LastAsked
  <2>2. frames \in Seq(Frame) /\ new \in Frame
    BY DEF BuildTypes, Frame, Found
  <2> HIDE DEF new
  <2>3. /\ Len(frames) \in Nat /\ Len(frames') = Len(frames) + 1
        /\ frames'[Len(frames) + 1] = new
        /\ \A k \in 1 .. Len(frames) : frames'[k] = frames[k]
    BY <1>4, <2>2, AppendProperties, LenProperties
  <2>4. CASE HasEntry(p)
    BY <1>1, <2>4, EntryStays DEF Coming
  <2>5. CASE Pending(p)
    <3>1. \A k \in 1 .. Len(frames) : k \in 1 .. Len(frames') /\ frames'[k] = frames[k]
      BY <2>3
    <3>2. Pending(p)'
      BY <2>5, <3>1 DEF Pending
    <3> QED
      BY <3>2 DEF Coming
  <2>6. CASE IsPrefix(child, p) /\ child # p
    <3> DEFINE name == p[Len(child) + 1]
    <3>1. child \in Seq(Names) /\ p \in Seq(Names) /\ Merged(p) # Nil
      BY BuildIs, ShownIs
    <3>2. name \in Names /\ IsPrefix(Append(child, name), p)
      BY <2>6, <3>1, PrefixStep
    <3> HIDE DEF name
    <3> DEFINE s == Append(child, name)
    <3>3. s \in Seq(Names)
      BY <3>1, <3>2, AppendProperties
    <3>4. Merged(s) # Nil
      <4>1. IsPrefix(s, p)
        BY <3>2
      <4> HIDE DEF s
      <4>2. CASE s = p
        BY <3>1, <4>2
      <4>3. CASE s # p
        <5>1. Merged(s) = Directory
          BY <3>3, <4>1, <4>3, ShownIs
        <5> QED
          BY <5>1, NilIsNothing
      <4> QED
        BY <4>2, <4>3
    <3>5. \E i \in 1 .. Len(Bases) : Node(i, s) # Nil
      BY <3>3, <3>4, MergedIs
    <3>6. new.path = child /\ name \in new.left
      BY <2>1, <3>2, <3>5 DEF new, Found
    <3>7. Len(frames') \in 1 .. Len(frames')
      BY <2>3
    <3>8. Pending(p)'
      BY <2>3, <3>2, <3>6, <3>7 DEF Pending
    <3> QED
      BY <3>8 DEF Coming
  <2> QED
    BY <1>1, <2>4, <2>5, <2>6 DEF Coming
<1> QED
  BY <1>2, <1>3, <1>4

\* A name is looked at and goes to stat, or is hidden.
LEMMA NextNameComes ==
  ASSUME FoldersInv, BuildTypes, BuildTypes', NextName,
         NEW p \in TreePaths, Shown(p), Coming(p)
  PROVE  Coming(p)'
<1>1. PICK name \in Names :
        /\ Taken(name) /\ pc = "next" /\ UNCHANGED entries
        /\ \/ Skipped(name) /\ UNCHANGED <<pc, child, asked>>
           \/ /\ ~Skipped(name) /\ child' = Append(Last(frames).path, name)
              /\ pc' = "stat" /\ asked' = Asking(1)
  BY NextNameIs DEF TakesName
<1> DEFINE n == Len(frames)
           path == Append(Last(frames).path, name)
<1>2. /\ n \in Nat /\ n >= 1 /\ Last(frames) = frames[n]
      /\ frames[n].path \in Seq(Names)
      /\ Len(frames') = n
      /\ \A k \in 1 .. n : /\ frames'[k].path = frames[k].path
                           /\ frames'[k].left = IF k = n THEN frames[k].left \ {name}
                                                ELSE frames[k].left
  BY <1>1, TakenTypes
<1>3. CASE HasEntry(p)
  BY <1>1, <1>3, EntryStays DEF Coming
<1>4. CASE Pending(p)
  <2>1. PICK k \in 1 .. n, x \in Names :
           x \in frames[k].left /\ IsPrefix(Append(frames[k].path, x), p)
    BY <1>4 DEF Pending
  <2>2. CASE k # n \/ x # name
    <3>1. k \in 1 .. Len(frames') /\ x \in frames'[k].left
          /\ IsPrefix(Append(frames'[k].path, x), p)
      BY <1>2, <2>1, <2>2
    <3>2. Pending(p)'
      BY <3>1 DEF Pending
    <3> QED
      BY <3>2 DEF Coming
  <2>3. CASE k = n /\ x = name
    <3>1. IsPrefix(path, p)
      BY <1>2, <2>1, <2>3
    <3>2. ~Skipped(name)
      BY <1>2, <3>1, ShownIs DEF Skipped
    <3> QED
      BY <1>1, <3>1, <3>2 DEF Coming
  <2> QED
    BY <2>2, <2>3
<1> QED
  BY <1>1, <1>3, <1>4 DEF Coming

\* What has a type is an entry, or the next to be read.
LEMMA StatNameComes ==
  ASSUME FoldersInv, BuildTypes, BuildTypes', StatName, pc' # "error",
         \A i \in 1 .. asked.layer - 1 : Node(i, child) = Nil,
         NEW p \in TreePaths, Shown(p), Coming(p)
  PROVE  Coming(p)'
<1>1. pc = "stat" /\ UNCHANGED <<frames, child>>
  BY DEF StatName, LuaError, AsksNext
<1>2. Pending(p) => Pending(p)'
  BY <1>1 DEF Pending
<1>3. CASE Here = Directory /\ pc' = "readdir"
           /\ entries' = Append(entries, Entry(child, TRUE, Nil))
  <2> DEFINE new == Entry(child, TRUE, Nil)
  <2>1. new.name = child
    BY DEF Entry
  <2> HIDE DEF new
  <2>2. child = p => HasEntry(p)'
    BY <1>3, <2>1, EntryComes DEF new
  <2>3. HasEntry(p) => HasEntry(p)'
    BY <1>3, EntryStays
  <2> QED
    BY <1>1, <1>2, <1>3, <2>2, <2>3 DEF Coming
<1>4. CASE TypeOf(Here) = "file" /\ pc' = "size" /\ UNCHANGED entries
  <2>1. asked.layer \in 1 .. Len(Bases) /\ child \in Seq(Names)
        /\ Here = Node(asked.layer, child)
    BY HereIs
  <2>2. Merged(child) = Here /\ Here # Directory
    BY <1>4, <2>1, OverlayIs, NilIsNothing DEF Merged
  <2>3. IsPrefix(child, p) => child = p
    BY <2>1, <2>2, ShownIs
  <2>4. HasEntry(p) => HasEntry(p)'
    BY <1>4, EntryStays
  <2> QED
    BY <1>1, <1>2, <1>4, <2>3, <2>4 DEF Coming
<1>5. CASE pc' = "stat" /\ UNCHANGED entries
  <2>1. HasEntry(p) => HasEntry(p)'
    BY <1>5, EntryStays
  <2> QED
    BY <1>1, <1>2, <1>5, <2>1 DEF Coming
<1> QED
  BY <1>3, <1>4, <1>5, NilIsNothing DEF StatName, AddsFolder, LuaError, AsksNext

LEMMA ReadsComes ==
  ASSUME BuildTypes, BuildTypes', SizeFile \/ OpenFile \/ AddFile, pc' # "error",
         NEW p \in TreePaths, Coming(p)
  PROVE  Coming(p)'
<1>1. /\ pc \in {"size", "file", "read"} /\ UNCHANGED <<frames, child>>
      /\ \/ pc' \in {"size", "file", "read"} /\ UNCHANGED entries
         \/ \E data : /\ entries' = Append(entries, Entry(child, FALSE, data))
                      /\ pc' = "next"
  BY DEF SizeFile, OpenFile, AddFile, ReadsNothing, NilIsError, LuaError, AsksNext
<1>2. Pending(p) => Pending(p)'
  BY <1>1 DEF Pending
<1>3. HasEntry(p) => HasEntry(p)'
  BY <1>1, EntryStays
<1>4. CASE pc' \in {"size", "file", "read"}
  BY <1>1, <1>2, <1>3, <1>4 DEF Coming
<1>5. ASSUME NEW data, entries' = Append(entries, Entry(child, FALSE, data)), child = p
      PROVE  HasEntry(p)'
  <2> DEFINE new == Entry(child, FALSE, data)
  <2>1. new.name = child
    BY DEF Entry
  <2> HIDE DEF new
  <2> QED
    BY <1>5, <2>1, EntryComes DEF new
<1> QED
  BY <1>1, <1>2, <1>3, <1>4, <1>5 DEF Coming

LEMMA CopyFolderReturnsComes ==
  ASSUME BuildTypes, CopyFolderReturns, NEW p, Coming(p)
  PROVE  Coming(p)'
<1>1. /\ pc = "next" /\ frames # <<>> /\ Last(frames).left = {} /\ frames' = Front(frames)
      /\ UNCHANGED <<pc, child, entries>>
  BY DEF CopyFolderReturns
<1>2. /\ frames \in Seq(Frame) /\ frames' \in Seq(Frame)
      /\ frames = Append(frames', Last(frames)) /\ Last(frames) \in Frame
  BY <1>1, FrontProperties DEF BuildTypes
<1>3. /\ Len(frames') \in Nat /\ Len(frames) = Len(frames') + 1
      /\ frames[Len(frames)] = Last(frames)
      /\ \A k \in 1 .. Len(frames') : frames[k] = frames'[k]
  BY <1>2, AppendProperties, LenProperties
<1>4. HasEntry(p) => HasEntry(p)'
  BY <1>1 DEF HasEntry
<1>5. ASSUME NEW k \in 1 .. Len(frames), NEW name \in Names, name \in frames[k].left,
             IsPrefix(Append(frames[k].path, name), p)
      PROVE  Pending(p)'
  <2>1. k # Len(frames)
    BY <1>1, <1>3, <1>5
  <2>2. k \in 1 .. Len(frames') /\ frames'[k] = frames[k]
    BY <1>3, <2>1
  <2> QED
    BY <1>5, <2>2 DEF Pending
<1>6. Pending(p) => Pending(p)'
  BY <1>5 DEF Pending
<1> QED
  BY <1>1, <1>4, <1>6 DEF Coming

LEMMA ComingStep ==
  ASSUME FoldersInv, BuildTypes, BuildTypes', Build \/ UNCHANGED vars, pc' # "error",
         faults \in Nat, faults' = 0, AskedRight(pc, asked, child),
         NEW p \in TreePaths, Shown(p), Coming(p)
  PROVE  Coming(p)'
<1>1. CASE OpenTarget \/ CopyRuntime \/ WriteArchive \/ UNCHANGED vars
  <2>1. /\ UNCHANGED <<frames, child, entries>>
        /\ \/ pc' = pc
           \/ pc = "next" /\ pc' = "done"
           \/ pc \in {"open", "runtime"} /\ pc' \in {"runtime", "readdir"}
    BY <1>1 DEF OpenTarget, CopyRuntime, WriteArchive, LuaError, vars
  <2>2. (HasEntry(p) => HasEntry(p)') /\ (Pending(p) => Pending(p)')
    BY <2>1 DEF HasEntry, Pending
  <2> QED
    BY <2>1, <2>2 DEF Coming
<1>2. CASE ReadFolder
  <2>1. asked.names = Found(child, asked.layer - 1)
    BY <1>2, ReadFolderIs DEF AskedRight
  <2> QED
    BY <1>2, <2>1, ReadFolderComes
<1>3. CASE StatName
  <2>1. \A i \in 1 .. asked.layer - 1 : Node(i, child) = Nil
    BY <1>3 DEF AskedRight, StatName
  <2> QED
    BY <1>3, <2>1, StatNameComes
<1> QED
  BY <1>1, <1>2, <1>3, CopyFolderReturnsComes, NextNameComes, ReadsComes DEF Build

LEMMA AskedRightStep ==
  ASSUME FoldersInv, BuildTypes, Build \/ UNCHANGED vars, faults \in Nat, faults' = 0,
         AskedRight(pc, asked, child)
  PROVE  AskedRight(pc', asked', child')
<1> DEFINE n == asked.layer
<1>1. /\ n \in 1 .. Len(Bases) /\ n \in Nat /\ asked \in Answer
      /\ child \in Seq(Names) /\ Here = Node(n, child)
      /\ Node(n, child) \in Contents \cup {Directory, Nil}
  <2>1. n \in 1 .. Len(Bases) /\ child \in Seq(Names) /\ Here = Node(n, child)
    BY HereIs
  <2> QED
    BY <2>1, BasesAre, NodeIs DEF BuildTypes
<1>2. ASSUME pc' \notin {"readdir", "stat", "size", "file", "read"}
      PROVE  AskedRight(pc', asked', child')
  BY <1>2 DEF AskedRight
<1>3. ASSUME NEW at \in {"readdir", "stat"}, NEW path PROVE AskedRight(at, Asking(1), path)
  <2>1. Asking(1).layer = 1 /\ Asking(1).names = {} /\ 1 .. 1 - 1 = {}
    BY DEF Asking
  <2>2. Found(path, 1 - 1) = {}
    BY <2>1 DEF Found
  <2> QED
    BY <2>1, <2>2 DEF AskedRight
<1>4. ASSUME NEW at, AsksNext(at), at \in {"stat", "size"},
             at = "stat" => Node(n, child) = Nil /\ \A i \in 1 .. n - 1 : Node(i, child) = Nil,
             at = "size" => /\ Merged(child) \in Contents /\ Node(n, child) \notin Readable
                            /\ \A i \in 1 .. n - 1 : Node(i, child) \notin Readable
      PROVE  AskedRight(pc', asked', child')
  <2>1. pc' = at /\ child' = child /\ asked'.layer = n + 1
    BY <1>4 DEF AsksNext, Asking
  <2>2. \A i : i \in 1 .. (n + 1) - 1 => i \in 1 .. n - 1 \/ i = n
    BY <1>1
  <2> HIDE DEF n
  <2> QED
    BY <1>4, <2>1, <2>2 DEF AskedRight
<1>5. CASE OpenTarget \/ CopyRuntime \/ WriteArchive
  <2>1. \/ pc' \in {"runtime", "done", "error"}
        \/ pc \in {"open", "runtime"} /\ pc' = "readdir" /\ asked' = asked
    BY <1>5 DEF OpenTarget, CopyRuntime, WriteArchive, LuaError
  <2>2. pc \in {"open", "runtime"} => asked = Asking(1)
    BY DEF BuildTypes
  <2> QED
    BY <1>2, <1>3, <2>1, <2>2
<1>6. CASE ReadFolder
  <2>1. pc = "readdir" /\ child' = child
    BY <1>6, ReadFolderIs
  <2>2. asked.names = Found(child, n - 1)
    BY <2>1 DEF AskedRight
  <2>3. \/ pc' = "next"
        \/ pc' = pc /\ asked'.names = Found(child, n) /\ asked'.layer = n + 1
    BY <1>6, <2>2, FoundIs
  <2>4. (n + 1) - 1 = n
    BY <1>1
  <2> HIDE DEF n
  <2> QED
    BY <1>2, <2>1, <2>3, <2>4 DEF AskedRight
<1>7. CASE NextName \/ CopyFolderReturns
  <2>1. pc' = "next" \/ (pc' = "stat" /\ asked' = Asking(1))
    <3>1. CASE NextName
      BY <3>1, NextNameIs DEF TakesName
    <3>2. CASE CopyFolderReturns
      BY <3>2 DEF CopyFolderReturns
    <3> QED
      BY <1>7, <3>1, <3>2
  <2> QED
    BY <1>2, <1>3, <2>1
<1>8. CASE StatName
  <2>1. pc = "stat" /\ \A i \in 1 .. n - 1 : Node(i, child) = Nil
    BY <1>8 DEF StatName, AskedRight
  <2>2. CASE TypeOf(Here) = "directory" /\ pc' = "readdir" /\ asked' = Asking(1)
    BY <1>3, <2>2
  <2>3. CASE TypeOf(Here) = "file" /\ pc' = "size" /\ asked' = Asking(1) /\ child' = child
    <3>1. Node(n, child) \in Contents
      BY <1>1, <2>3, NilIsNothing
    <3>2. Merged(child) = Node(n, child)
      BY <1>1, <2>1, <3>1, OverlayIs, NilIsNothing DEF Merged
    <3>3. asked'.layer = 1 /\ 1 .. 1 - 1 = {}
      BY <2>3 DEF Asking
    <3> QED
      BY <2>3, <3>1, <3>2, <3>3 DEF AskedRight
  <2>4. CASE Misses(TypeOf(Here) # Nil) /\ AsksNext("stat")
    <3>1. Node(n, child) = Nil
      BY <1>1, <2>4, NoFault, NilIsNothing
    <3> QED
      BY <1>4, <2>1, <2>4, <3>1
  <2>5. CASE pc' = "error"
    BY <1>2, <2>5
  <2> QED
    BY <1>8, <2>2, <2>3, <2>4, <2>5 DEF StatName, LuaError
<1>9. ASSUME ReadsNothing, pc \in {"size", "file", "read"}, Node(n, child) \notin Readable
      PROVE  AskedRight(pc', asked', child')
  <2>1. Merged(child) \in Contents /\ \A i \in 1 .. n - 1 : Node(i, child) \notin Readable
    BY <1>9 DEF AskedRight
  <2>2. AsksNext("size") \/ pc' = "error"
    BY <1>9 DEF ReadsNothing, NilIsError, LuaError
  <2> QED
    BY <1>2, <1>4, <1>9, <2>1, <2>2
<1>10. CASE SizeFile
  <2>1. /\ pc = "size" /\ Merged(child) \in Contents
        /\ \A i \in 1 .. n - 1 : Node(i, child) \notin Readable
    BY <1>10 DEF SizeFile, AskedRight
  <2>2. CASE /\ TypeOf(Here) = "file" /\ pc' = "file" /\ child' = child
             /\ asked' = [asked EXCEPT !.size = Len(Here)]
    <3>1. asked'.layer = n /\ asked'.size = Len(Node(n, child))
      BY <1>1, <2>2 DEF Answer
    <3>2. Node(n, child) \in Contents
      BY <1>1, <2>2, NilIsNothing
    <3> HIDE DEF n
    <3> QED
      BY <2>1, <2>2, <3>1, <3>2 DEF AskedRight
  <2>3. CASE Misses(TypeOf(Here) = "file") /\ ReadsNothing
    <3>1. TypeOf(Node(n, child)) # "file"
      BY <1>1, <2>3, NoFault
    <3>2. Node(n, child) \notin Readable
      BY <3>1, NilIsNothing
    <3> QED
      BY <1>9, <2>1, <2>3, <3>2
  <2> QED
    BY <1>10, <2>2, <2>3 DEF SizeFile
<1>11. CASE OpenFile
  <2>1. /\ pc = "file" /\ Merged(child) \in Contents
        /\ \A i \in 1 .. n - 1 : Node(i, child) \notin Readable
        /\ Node(n, child) \in Contents /\ asked.size = Len(Node(n, child))
    BY <1>11 DEF OpenFile, AskedRight
  <2>2. CASE /\ Here \in Readable /\ pc' = "read" /\ child' = child
             /\ asked' = [asked EXCEPT !.opened = Here]
    <3>1. asked'.layer = n /\ asked'.size = asked.size /\ asked'.opened = Node(n, child)
      BY <1>1, <2>2 DEF Answer
    <3>2. Node(n, child) \in Readable
      BY <1>1, <2>2
    <3> HIDE DEF n
    <3> QED
      BY <2>1, <2>2, <3>1, <3>2 DEF AskedRight
  <2>3. CASE Misses(Here \in Readable) /\ ReadsNothing
    <3>1. Node(n, child) \notin Readable
      BY <1>1, <2>3, NoFault
    <3> QED
      BY <1>9, <2>1, <2>3, <3>1
  <2> QED
    BY <1>11, <2>2, <2>3 DEF OpenFile
<1>12. CASE AddFile
  <2>1. pc' \in {"next", "error"}
    BY <1>12, NoFault DEF AddFile, LuaError
  <2> QED
    BY <1>2, <2>1
<1>13. CASE UNCHANGED vars
  BY <1>13 DEF vars
<1> QED
  BY <1>5, <1>6, <1>7, <1>8, <1>10, <1>11, <1>12, <1>13 DEF Build

LEMMA RightStays ==
  ASSUME BuildTypes, BuildTypes', EntriesRight, Build \/ UNCHANGED vars,
         UNCHANGED entries \/ \E new : (Right(new) /\ entries' = Append(entries, new))
  PROVE  EntriesRight'
<1>1. \A new : Right(new)' <=> Right(new)
  BY BuildKeeps
<1>2. CASE UNCHANGED entries
  <2> SUFFICES ASSUME NEW i \in 1 .. Len(entries), NEW e, e = entries[i] PROVE Right(e)'
    BY <1>2 DEF EntriesRight, Right
  <2> QED
    BY <1>1 DEF EntriesRight
<1>3. ASSUME NEW new, Right(new), entries' = Append(entries, new) PROVE EntriesRight'
  <2>1. /\ Len(entries) \in Nat /\ Len(entries') = Len(entries) + 1
        /\ entries'[Len(entries) + 1] = new
        /\ \A i \in 1 .. Len(entries) : entries'[i] = entries[i]
    BY <1>3, EntryAdded, BuildIs
  <2> SUFFICES ASSUME NEW i \in 1 .. Len(entries) + 1, NEW e, e = entries'[i] PROVE Right(e)'
    BY <2>1 DEF EntriesRight, Right
  <2>2. CASE i = Len(entries) + 1
    BY <1>1, <1>3, <2>1, <2>2
  <2>3. CASE i # Len(entries) + 1
    <3>1. i \in 1 .. Len(entries) /\ e = entries[i]
      BY <2>1, <2>3
    <3> QED
      BY <1>1, <3>1 DEF EntriesRight
  <2> QED
    BY <2>2, <2>3
<1> QED
  BY <1>2, <1>3

\* What is added is what the layers have.
LEMMA AddsRight ==
  ASSUME FoldersInv, BuildTypes, Build \/ UNCHANGED vars, faults \in Nat, faults' = 0,
         AskedRight(pc, asked, child)
  PROVE  UNCHANGED entries \/ \E new : (Right(new) /\ entries' = Append(entries, new))
<1> DEFINE n == asked.layer
<1>1. /\ n \in 1 .. Len(Bases) /\ Len(Bases) \in Nat /\ child \in Seq(Names)
      /\ Here = Node(n, child)
  BY HereIs, BasesAre
<1>2. CASE StatName
  <2>1. pc = "stat" /\ \A i \in 1 .. n - 1 : Node(i, child) = Nil
    BY <1>2 DEF StatName, AskedRight
  <2>2. CASE TypeOf(Here) = "directory" /\ entries' = Append(entries, Entry(child, TRUE, Nil))
    <3>1. Node(n, child) = Directory
      BY <1>1, <2>2, NilIsNothing
    <3>2. Merged(child) = Directory
      BY <1>1, <2>1, <3>1, OverlayIs, NilIsNothing DEF Merged
    <3>3. Right(Entry(child, TRUE, Nil))
      BY <3>2 DEF Right, Entry
    <3> QED
      BY <2>2, <3>3
  <2> QED
    BY <1>2, <2>2 DEF StatName, AddsFolder, LuaError, AsksNext
<1>3. CASE AddFile
  <2> DEFINE ctx == FirstBytes(asked.opened, asked.size)
             data == Packed(ctx, Last(child))
  <2>1. /\ Merged(child) \in Contents
        /\ \A i \in 1 .. n - 1 : Node(i, child) \notin Readable
        /\ Node(n, child) \in Readable /\ asked.opened = Node(n, child)
        /\ asked.size = Len(Node(n, child))
    BY <1>3 DEF AddFile, AskedRight
  <2>2. Node(n, child) \in Contents /\ Node(n, child) \in Seq(Blocks)
    BY <2>1, NilIsNothing, BundleAssumption
  <2>3. ctx = Node(n, child)
    BY <2>1, <2>2, FirstBytesIs
  <2>4. ~options.compile => data = Node(n, child)
    BY <2>3 DEF Packed, Compiles
  <2>5. ASSUME Agree(child) PROVE Merged(child) = Node(n, child)
    <3>1. Node(n, child) # Nil
      BY <2>2, NilIsNothing
    <3>2. \A i \in 1 .. n - 1 : i \in 1 .. Len(Bases)
      BY <1>1
    <3>3. ASSUME NEW i \in 1 .. n - 1, Node(i, child) # Nil PROVE FALSE
      BY <1>1, <2>1, <2>5, <3>1, <3>2, <3>3, SameNode
    <3> QED
      BY <1>1, <3>1, <3>3, OverlayIs DEF Merged
  <2> HIDE DEF data
  <2>6. Right(Entry(child, FALSE, data))
    BY <2>1, <2>4, <2>5 DEF Right, Entry
  <2>7. UNCHANGED entries \/ entries' = Append(entries, Entry(child, FALSE, data))
    BY <1>3 DEF AddFile, LuaError, ReadsNothing, NilIsError, AsksNext, data
  <2> QED
    BY <2>6, <2>7
<1>4. CASE ~StatName /\ ~AddFile
  BY <1>4 DEF Build, OpenTarget, CopyRuntime, ReadFolder, CopyFolderReturns, NextName, SizeFile,
              OpenFile, ReadsNothing, NilIsError, AsksNext, LuaError, WriteArchive, vars
<1> QED
  BY <1>2, <1>3, <1>4

LEMMA WholeStep ==
  ASSUME FoldersInv, BuildTypes, BuildTypes', WholeInv, [Next]_vars
  PROVE  WholeInv'
<1>1. CASE Edit
  <2>1. edits' = edits + 1 /\ faults' = faults /\ pc \notin {"done", "error"} /\ pc' = pc
    BY <1>1 DEF Edit
  <2> QED
    BY <2>1 DEF WholeInv
<1>2. CASE Build \/ UNCHANGED vars
  <2>1. edits' = edits
    BY <1>2, BuildKeeps
  <2>2. faults' = faults \/ faults' = faults + 1
    BY <1>2 DEF Build, OpenTarget, CopyRuntime, ReadFolder, CopyFolderReturns, NextName, StatName,
                SizeFile, OpenFile, AddFile, WriteArchive, Misses, Fails, Succeeds, vars
  <2>3. ASSUME pc' = "done" PROVE frames' = <<>>
    <3>1. WriteArchive \/ UNCHANGED vars
      BY <1>2, <2>3 DEF Build, OpenTarget, CopyRuntime, ReadFolder, Lists, CopyFolderReturns,
                        NextName, StatName, SizeFile, OpenFile, AddFile, ReadsNothing, NilIsError,
                        AsksNext, LuaError
    <3> QED
      BY <2>3, <3>1 DEF WholeInv, WriteArchive, LuaError, vars
  <2> SUFFICES ASSUME edits = 0, faults' = 0
               PROVE  EntriesRight' /\ NothingLeftOut' /\ AskedRight(pc, asked, child)'
    BY <2>1, <2>2, <2>3 DEF WholeInv
  <2>4. /\ faults \in Nat /\ EntriesRight /\ NothingLeftOut /\ AskedRight(pc, asked, child)
    BY <2>2 DEF WholeInv
  <2>5. EntriesRight'
    BY <1>2, <2>4, AddsRight, RightStays
  <2>6. AskedRight(pc, asked, child)'
    <3>1. AskedRight(pc', asked', child')
      BY <1>2, <2>4, AskedRightStep
    <3>2. (\A q : Merged(q)' = Merged(q)) /\ \A i, q : Node(i, q)' = Node(i, q)
      BY <1>2, BuildKeeps
    <3> QED
      BY <3>1, <3>2 DEF AskedRight, Found
  <2>7. NothingLeftOut'
    <3>1. \A p : Shown(p)' <=> Shown(p)
      BY <1>2, BuildKeeps
    <3> SUFFICES ASSUME pc' # "error", NEW p \in TreePaths, Shown(p)
                 PROVE  Coming(p)'
      BY <3>1 DEF NothingLeftOut
    <3>2. pc # "error"
      BY <1>2 DEF Build, OpenTarget, CopyRuntime, ReadFolder, CopyFolderReturns, NextName,
                  StatName, SizeFile, OpenFile, AddFile, WriteArchive, vars
    <3>3. Coming(p)
      BY <2>4, <3>2 DEF NothingLeftOut
    <3> QED
      BY <1>2, <2>4, <3>3, ComingStep
  <2> QED
    BY <2>5, <2>6, <2>7
<1> QED
  BY <1>1, <1>2 DEF Next

LEMMA WholeInit == Init => WholeInv
<1> SUFFICES ASSUME Init PROVE WholeInv
  OBVIOUS
<1>1. pc = "open" /\ child = <<>> /\ entries = <<>> /\ edits = 0 /\ faults = 0
  BY DEF Init
<1>2. EntriesRight
  <2>1. Len(entries) = 0
    BY <1>1, EmptySeq
  <2> QED
    BY <2>1 DEF EntriesRight
<1>3. ASSUME NEW p \in TreePaths PROVE Coming(p)
  <2>1. p \in Seq(Names) /\ p # <<>> /\ <<>> \in Seq(Names) /\ Len(<<>>) = 0
    BY LayersAssumption, EmptySeq
  <2>2. <<>> \o p = p
    BY <2>1, ConcatEmptySeq
  <2>3. IsPrefix(<<>>, <<>> \o p)
    BY <2>1, PrefixConcat
  <2>4. IsPrefix(<<>>, p)
    BY <2>2, <2>3
  <2> QED
    BY <1>1, <2>1, <2>4 DEF Coming
<1>4. AskedRight(pc, asked, child)
  BY <1>1 DEF AskedRight
<1> QED
  BY <1>1, <1>2, <1>3, <1>4 DEF WholeInv, NothingLeftOut

\* While no call fails and nobody writes, copyFolder (luvibundle.lua:175)
\* comes to all that the merged folders hold outside hidden names, and each
\* entry has what the layers have there.
THEOREM NothingLeftOutAlways == Spec => []WholeInv
<1>1. FoldersInv /\ BuildTypes /\ BuildTypes' /\ WholeInv /\ [Next]_vars => WholeInv'
  BY WholeStep
<1> QED
  BY <1>1, WholeInit, BuildTypeCorrect, PTL DEF Spec

-----------------------------------------------------------------------------
(* What the zip made of the entries answers.                               *)

\* The entries are the files and directories of the layers' folder, as far
\* as it is made of what the folders agree on.
Faithful ==
    /\ \A i \in 1 .. Len(entries) :
          LET e == entries[i]
          IN  IF e.slash THEN Merged(e.name) = Directory
              ELSE /\ Merged(e.name) \in Contents
                   /\ Agree(e.name) => Merged(e.name) \in Readable /\ e.data = Merged(e.name)
    /\ \A q \in Seq(Names) : q # <<>> /\ Merged(q) # Nil /\ Reachable(q) => HasEntry(q)

LEMMA ComparableIsFaithful ==
  ASSUME FoldersInv, BuildTypes, WholeInv, Comparable
  PROVE  Faithful
<1>1. /\ pc = "done" /\ ~options.compile /\ frames = <<>>
      /\ EntriesRight /\ NothingLeftOut
  BY DEF Comparable, WholeInv
<1>2. ASSUME NEW i \in 1 .. Len(entries), NEW e, e = entries[i]
      PROVE  IF e.slash THEN Merged(e.name) = Directory
             ELSE /\ Merged(e.name) \in Contents
                  /\ Agree(e.name) => Merged(e.name) \in Readable /\ e.data = Merged(e.name)
  <2>1. Right(e)
    BY <1>1, <1>2 DEF EntriesRight
  <2> QED
    BY <1>1, <2>1 DEF Right
<1>3. ASSUME NEW q \in Seq(Names), q # <<>>, Merged(q) # Nil, Reachable(q) PROVE HasEntry(q)
  <2>1. q \in Folders /\ q \in TreePaths
    BY <1>3, MergedIs DEF Folders
  <2>2. PICK i \in 1 .. Len(Bases) : Node(i, q) # Nil
    BY <1>3, MergedIs
  <2>3. Bases[i] \in BasePaths /\ Bases[i] \o q \in DOMAIN fs
    BY <2>2, NodeIs, BasesAre
  <2>4. \A n \in DOMAIN q : q[n] \notin Dotted
    BY <2>1, <2>3 DEF Comparable
  <2>5. Coming(q)
    BY <1>1, <1>3, <2>1, <2>4 DEF NothingLeftOut, Shown
  <2>6. ~Pending(q)
    <3>1. Len(frames) = 0
      BY <1>1, EmptySeq
    <3> QED
      BY <3>1 DEF Pending
  <2> QED
    BY <1>1, <2>5, <2>6 DEF Coming
<1> QED
  BY <1>2, <1>3 DEF Faithful

\* What is below a directory that all folders agree on can be reached.
LEMMA ReachableIs ==
  ASSUME FoldersInv, NEW q \in Seq(Names), Unmixed(q)
  PROVE  /\ Merged(q) # Nil => Reachable(q)
         /\ Merged(q) = Directory => \A name \in Names : Reachable(Append(q, name))
<1>1. \A s \in Seq(Names) : IsPrefix(s, q) => Agree(s)
  BY UnmixedIs
<1>2. Merged(q) # Nil => Reachable(q)
  BY <1>1, AboveIsDirectory DEF Reachable
<1>3. ASSUME Merged(q) = Directory, NEW name \in Names PROVE Reachable(Append(q, name))
  <2>1. Reachable(q)
    BY <1>2, <1>3, NilIsNothing
  <2> SUFFICES ASSUME NEW s \in Seq(Names), IsPrefix(s, Append(q, name)), s # Append(q, name)
               PROVE  Merged(s) = Directory
    BY DEF Reachable
  <2>2. IsPrefix(s, q)
    BY PrefixOfAppend
  <2> QED
    BY <1>3, <2>1, <2>2 DEF Reachable
<1> QED
  BY <1>2, <1>3

LEMMA LocateIs ==
  ASSUME BuildTypes, NEW q, NEW slash
  PROVE  LET k == locate_file(entries, q, slash)
         IN  \/ k = 0 /\ \A i \in 1 .. Len(entries) :
                            ~(entries[i].name = q /\ entries[i].slash = slash)
             \/ k \in 1 .. Len(entries) /\ entries[k].name = q /\ entries[k].slash = slash
<1> DEFINE found == {i \in DOMAIN entries : entries[i].name = q /\ entries[i].slash = slash}
<1>1. DOMAIN entries = 1 .. Len(entries) /\ Len(entries) \in Nat
  BY BuildIs
<1>2. locate_file(entries, q, slash) = IF found = {} THEN 0 ELSE Min(found)
  BY DEF locate_file
<1>3. CASE found = {}
  BY <1>1, <1>2, <1>3
<1>4. CASE found # {}
  <2>1. found \in SUBSET Nat
    BY <1>1
  <2> HIDE DEF found
  <2>2. Min(found) \in found
    BY <1>4, <2>1, MinIs
  <2>3. locate_file(entries, q, slash) \in found
    BY <1>2, <1>4, <2>2
  <2> QED
    BY <1>1, <2>3 DEF found
<1> QED
  BY <1>3, <1>4

LEMMA RunIs ==
  ASSUME BuildTypes, NEW q, NEW index \in 0 .. Len(entries), NEW j
  PROVE  j \in index + 1 .. RunEnd(entries, q, index) - 1
           <=> /\ j \in index + 1 .. Len(entries)
               /\ \A k \in index + 1 .. j : Below(q, entries[k])
<1> DEFINE n == Len(entries)
           S == {i \in index + 1 .. n : ~Below(q, entries[i])} \cup {n + 1}
<1>1. n \in Nat /\ index \in Nat
  BY BuildIs
<1>2. S \in SUBSET Nat /\ S # {}
  BY <1>1
<1>3. RunEnd(entries, q, index) = Min(S)
  BY DEF RunEnd
<1>4. Min(S) \in S /\ \A i \in S : Min(S) <= i
  BY <1>2, MinIs
<1> DEFINE m == Min(S)
<1>5. /\ m \in index + 1 .. n + 1
      /\ m # n + 1 => ~Below(q, entries[m])
      /\ \A i \in index + 1 .. n : ~Below(q, entries[i]) => m <= i
      /\ m <= n + 1
  BY <1>1, <1>4
<1> HIDE DEF m, S
<1>6. ASSUME j \in index + 1 .. m - 1
      PROVE  /\ j \in index + 1 .. n
             /\ \A k \in index + 1 .. j : Below(q, entries[k])
  BY <1>1, <1>5, <1>6
<1>7. ASSUME j \in index + 1 .. n, \A k \in index + 1 .. j : Below(q, entries[k])
      PROVE  j \in index + 1 .. m - 1
  BY <1>1, <1>5, <1>7
<1> QED
  BY <1>3, <1>6, <1>7 DEF m

LEMMA ZipPathIs ==
  ASSUME NEW r \in Seq(Parts)
  PROVE  ZipPath(r) = Walk(<<>>, r) /\ Walk(<<>>, r) \in Seq(Names)
<1>1. <<".">> \o r \in Seq(Parts) /\ Walk(<<>>, <<".">> \o r) = Walk(<<>>, r)
  BY WalkHere
<1>2. Rel(<<".">> \o r) \in Input
  BY <1>1 DEF Rel, Input
<1>3. pathJoin(<<Rel(<<".">> \o r)>>) = Follow(Rel(<<>>), Rel(<<".">> \o r))
  BY <1>2, PathJoinOne
<1>4. pathJoin(<<Rel(<<".">> \o r)>>).parts = Walk(<<>>, <<".">> \o r)
  BY <1>3 DEF Follow, Rel
<1> QED
  BY <1>1, <1>4, WalkType, EmptySeq DEF ZipPath

LEMMA BelowIs ==
  ASSUME BuildTypes, NEW q \in Seq(Names), NEW i \in 1 .. Len(entries),
         Below(q, entries[i]), Len(entries[i].name) = Len(q) + 1
  PROVE  /\ Last(entries[i].name) \in Names
         /\ entries[i].name = Append(q, Last(entries[i].name))
<1> DEFINE e == entries[i].name
<1>1. e \in Seq(Names) /\ Len(q) \in Nat /\ Len(e) = Len(q) + 1
  BY BuildIs, LenProperties
<1>2. IsPrefix(q, e) /\ q # e
  <2>1. q # e
    BY <1>1
  <2>2. CASE q = <<>>
    <3>1. q \o e = e /\ IsPrefix(q, q \o e)
      BY <1>1, <2>2, ConcatEmptySeq, PrefixConcat
    <3> QED
      BY <2>1, <3>1
  <2>3. CASE q # <<>>
    <3>1. IsStrictPrefix(q, e)
      BY <2>1, <2>3 DEF Below
    <3> QED
      BY <3>1 DEF IsStrictPrefix
  <2> QED
    BY <2>2, <2>3
<1> HIDE DEF e
<1>3. PICK name \in Names : IsPrefix(Append(q, name), e)
  BY <1>1, <1>2, PrefixStep
<1>4. Append(q, name) \in Seq(Names) /\ Len(Append(q, name)) = Len(q) + 1
  BY <1>3, AppendProperties
<1>5. Len(e) <= Len(Append(q, name))
  BY <1>1, <1>4
<1>6. Append(q, name) = e
  BY <1>1, <1>3, <1>4, <1>5, PrefixAntisymmetric
<1>7. Last(e) = name
  BY <1>3, <1>6, FrontAppend
<1> QED
  BY <1>3, <1>6, <1>7 DEF e

\* A directory's entries are found in one run after its own.
LEMMA RunHolds ==
  ASSUME BuildTypes, EntriesListable, NEW q \in Seq(Names), NEW name \in Names,
         NEW index \in 0 .. Len(entries),
         IF q = <<>> THEN index = 0
         ELSE index # 0 /\ entries[index].slash /\ entries[index].name = q,
         NEW j \in 1 .. Len(entries), entries[j].name = Append(q, name)
  PROVE  j \in index + 1 .. RunEnd(entries, q, index) - 1
<1>1. /\ Len(entries) \in Nat /\ DOMAIN entries = 1 .. Len(entries) /\ index \in Nat
      /\ Len(q) \in Nat
  BY BuildIs, LenProperties
<1>2. CASE q = <<>>
  <2>1. j \in index + 1 .. Len(entries)
    BY <1>1, <1>2
  <2>2. \A k \in index + 1 .. j : Below(q, entries[k])
    BY <1>2 DEF Below
  <2> QED
    BY <2>1, <2>2, RunIs
<1>3. CASE q # <<>>
  <2>1. /\ Front(entries[j].name) = q /\ Len(entries[j].name) = Len(q) + 1
        /\ Len(q) # 0
    BY <1>1, <1>3, AppendProperties, FrontAppend, EmptySeq
  <2>2. Len(entries[j].name) > 1
    BY <1>1, <2>1
  <2>3. PICK i \in 1 .. j - 1 :
           /\ entries[i].slash /\ entries[i].name = Front(entries[j].name)
           /\ \A k \in i .. j : IsPrefix(entries[i].name, entries[k].name)
    BY <1>1, <2>2 DEF EntriesListable
  <2>4. i \in 1 .. Len(entries) /\ index \in 1 .. Len(entries)
    BY <1>1, <1>3
  <2>5. i = index
    BY <1>1, <1>3, <2>1, <2>3, <2>4 DEF EntriesListable
  <2>6. j \in index + 1 .. Len(entries)
    BY <1>1, <2>3, <2>5
  <2>7. ASSUME NEW k \in index + 1 .. j PROVE Below(q, entries[k])
    <3>1. k \in i .. j /\ k \in 1 .. Len(entries) /\ k # index
      BY <1>1, <2>5, <2>7
    <3>2. IsPrefix(q, entries[k].name)
      BY <2>1, <2>3, <3>1
    <3>3. entries[k].name # q
      BY <1>1, <1>3, <2>4, <3>1 DEF EntriesListable
    <3> QED
      BY <3>2, <3>3 DEF Below, IsStrictPrefix
  <2> QED
    BY <2>6, <2>7, RunIs
<1> QED
  BY <1>2, <1>3

LEMMA ZipLists ==
  ASSUME FoldersInv, BuildTypes, EntriesListable, Faithful,
         NEW q \in Seq(Names), Unmixed(q), Merged(q) = Directory,
         NEW index \in 0 .. Len(entries),
         IF q = <<>> THEN index = 0
         ELSE index # 0 /\ entries[index].slash /\ entries[index].name = q
  PROVE  {Last(entries[i].name) :
             i \in {j \in index + 1 .. RunEnd(entries, q, index) - 1 :
                      Len(entries[j].name) = Len(q) + 1}} = MergedNames(q)
<1> DEFINE run == {j \in index + 1 .. RunEnd(entries, q, index) - 1 :
                      Len(entries[j].name) = Len(q) + 1}
<1>1. Len(entries) \in Nat /\ index \in Nat
  BY BuildIs
<1>2. ASSUME NEW j \in run PROVE Last(entries[j].name) \in MergedNames(q)
  <2>1. /\ j \in index + 1 .. RunEnd(entries, q, index) - 1
        /\ Len(entries[j].name) = Len(q) + 1
    BY <1>2
  <2>2. /\ j \in index + 1 .. Len(entries)
        /\ \A k \in index + 1 .. j : Below(q, entries[k])
    BY <2>1, RunIs
  <2>3. j \in 1 .. Len(entries) /\ Below(q, entries[j])
    BY <1>1, <2>2
  <2>4. /\ Last(entries[j].name) \in Names
        /\ entries[j].name = Append(q, Last(entries[j].name))
    BY <2>1, <2>3, BelowIs
  <2>5. Merged(entries[j].name) # Nil
    BY <2>3, NilIsNothing DEF Faithful
  <2> QED
    BY <2>4, <2>5 DEF MergedNames
<1>3. ASSUME NEW name \in MergedNames(q) PROVE \E j \in run : Last(entries[j].name) = name
  <2>1. name \in Names /\ Merged(Append(q, name)) # Nil
    BY <1>3 DEF MergedNames
  <2>2. /\ Append(q, name) \in Seq(Names) /\ Append(q, name) # <<>>
        /\ Len(Append(q, name)) = Len(q) + 1 /\ Last(Append(q, name)) = name
    BY <2>1, AppendProperties, FrontAppend
  <2>3. PICK j \in 1 .. Len(entries) : entries[j].name = Append(q, name)
    <3>1. \A x \in Names : Reachable(Append(q, x))
      BY ReachableIs
    <3>2. HasEntry(Append(q, name))
      BY <2>1, <2>2, <3>1 DEF Faithful
    <3> QED
      BY <3>2 DEF HasEntry
  <2>4. j \in index + 1 .. RunEnd(entries, q, index) - 1
    BY <2>1, <2>3, RunHolds
  <2> QED
    BY <2>2, <2>3, <2>4
<1> HIDE DEF run
<1>4. {Last(entries[i].name) : i \in run} = MergedNames(q)
  BY <1>2, <1>3
<1> QED
  BY <1>4 DEF run

LEMMA ZipAnswers ==
  ASSUME FoldersInv, BuildTypes, EntriesListable, Faithful, NEW r \in Seq(Parts),
         Unmixed(Walk(<<>>, r))
  PROVE  LET q == Walk(<<>>, r)
         IN  /\ ZipStat(entries, r) = TypeOf(Merged(q))
             /\ ZipReadfile(entries, r) = IF Merged(q) \in Readable THEN Merged(q) ELSE Nil
             /\ ZipReaddir(entries, r) = IF Merged(q) = Directory THEN MergedNames(q) ELSE Nil
<1> DEFINE q == Walk(<<>>, r)
           n == Len(entries)
           file == locate_file(entries, q, FALSE)
           dir == locate_file(entries, q, TRUE)
<1>1. ZipPath(r) = q /\ q \in Seq(Names)
  BY ZipPathIs
<1>2. /\ ZipStat(entries, r) = CASE q = <<>> -> "directory"
                                 [] q # <<>> /\ file # 0 -> "file"
                                 [] q # <<>> /\ file = 0 /\ dir # 0 -> "directory"
                                 [] OTHER -> Nil
      /\ ZipReadfile(entries, r) = IF file = 0 THEN Nil ELSE entries[file].data
  BY <1>1 DEF ZipStat, ZipReadfile
<1> DEFINE index == IF q = <<>> THEN 0 ELSE dir
           list == {Last(entries[i].name) :
                       i \in {j \in index + 1 .. RunEnd(entries, q, index) - 1 :
                                Len(entries[j].name) = Len(q) + 1}}
<1>3. ZipReaddir(entries, r) = IF q # <<>> /\ index = 0 THEN Nil ELSE list
  BY <1>1 DEF ZipReaddir
<1>4. Unmixed(q)
  OBVIOUS
<1> HIDE DEF q
<1>5. Agree(q) /\ (Merged(q) # Nil => Reachable(q))
  BY <1>1, <1>4, UnmixedIs, ReachableIs
<1>6. /\ n \in Nat /\ DOMAIN entries = 1 .. n
      /\ \A i \in 1 .. n : /\ entries[i].slash \in BOOLEAN
                           /\ entries[i].name # <<>>
  <2>1. n \in Nat /\ DOMAIN entries = 1 .. n /\ \A i \in 1 .. n : entries[i].name \in TreePaths
    BY BuildIs
  <2>2. ASSUME NEW i \in 1 .. n PROVE entries[i].slash \in BOOLEAN
    <3>1. entries[i] \in EntryType
      BY <2>1, <2>2, ElementOfSeq DEF BuildTypes
    <3> QED
      BY <3>1 DEF EntryType
  <2> QED
    BY <2>1, <2>2, LayersAssumption
<1>7. \/ file = 0 /\ \A i \in 1 .. n : ~(entries[i].name = q /\ entries[i].slash = FALSE)
      \/ file \in 1 .. n /\ entries[file].name = q /\ entries[file].slash = FALSE
  BY <1>6, LocateIs
<1>8. \/ dir = 0 /\ \A i \in 1 .. n : ~(entries[i].name = q /\ entries[i].slash = TRUE)
      \/ dir \in 1 .. n /\ entries[dir].name = q /\ entries[dir].slash = TRUE
  BY LocateIs
<1> HIDE DEF file, dir
<1>9. /\ Merged(q) \in Contents \cup {Directory, Nil}
      /\ q = <<>> => Merged(q) = Directory
  BY <1>1, MergedIs, MergedRoot
<1>10. file # 0 => /\ file \in 1 .. n /\ q # <<>> /\ Merged(q) \in Contents
                  /\ entries[file].data = Merged(q) /\ Merged(q) \in Readable
  BY <1>7, <1>6, <1>5 DEF Faithful
<1>11. dir # 0 => /\ dir \in 1 .. n /\ q # <<>> /\ Merged(q) = Directory
                 /\ entries[dir].slash /\ entries[dir].name = q
  BY <1>8, <1>6 DEF Faithful
<1>12. q # <<>> /\ Merged(q) # Nil => file # 0 \/ dir # 0
  <2> SUFFICES ASSUME q # <<>>, Merged(q) # Nil PROVE file # 0 \/ dir # 0
    OBVIOUS
  <2>1. PICK i \in 1 .. n : entries[i].name = q
    BY <1>1, <1>5 DEF Faithful, HasEntry
  <2>2. entries[i].slash = TRUE \/ entries[i].slash = FALSE
    BY <1>6
  <2> QED
    BY <1>7, <1>8, <1>6, <2>1, <2>2
<1>13. /\ file # 0 <=> q # <<>> /\ Merged(q) \in Contents
       /\ dir # 0 <=> q # <<>> /\ Merged(q) = Directory
  BY <1>10, <1>11, <1>12, NilIsNothing
<1>14. ZipStat(entries, r) = TypeOf(Merged(q))
  BY <1>2, <1>9, <1>13, NilIsNothing
<1>15. ZipReadfile(entries, r) = IF Merged(q) \in Readable THEN Merged(q) ELSE Nil
  BY <1>2, <1>9, <1>10, <1>13, NilIsNothing
<1>16. ZipReaddir(entries, r) = IF Merged(q) = Directory THEN MergedNames(q) ELSE Nil
  <2>1. CASE Merged(q) = Directory
    <3>1. /\ index \in 0 .. n
          /\ IF q = <<>> THEN index = 0
             ELSE index # 0 /\ entries[index].slash /\ entries[index].name = q
      BY <1>6, <1>11, <1>13, <2>1
    <3>2. list = MergedNames(q)
      BY <1>1, <1>4, <2>1, <3>1, ZipLists
    <3> QED
      BY <1>3, <2>1, <3>1, <3>2
  <2>2. CASE Merged(q) # Directory
    BY <1>3, <1>9, <1>13, <2>2
  <2> QED
    BY <2>1, <2>2
<1> QED
  BY <1>14, <1>15, <1>16 DEF q

LEMMA RootUnmixed == FoldersInv => Unmixed(<<>>)
<1> SUFFICES ASSUME FoldersInv, NEW s \in Prefixes(<<>>) PROVE Agree(s)
  BY DEF Unmixed
<1>1. <<>> \in Seq(Names) /\ Len(<<>>) = 0
  BY EmptySeq
<1>2. s \in Seq(Names) /\ IsPrefix(s, <<>>)
  BY <1>1, PrefixesAre
<1>3. Len(s) \in Nat
  BY <1>2, LenProperties
<1>4. s = <<>>
  <2>1. ASSUME NEW t \in Seq(Names), Len(t) = 0, IsPrefix(s, t) PROVE s = t
    <3>1. Len(t) <= Len(s)
      BY <1>3, <2>1
    <3> QED
      BY <1>2, <2>1, <3>1, PrefixAntisymmetric
  <2> QED
    BY <1>1, <1>2, <2>1
<1>5. \A base \in BasePaths : Lookup(fs, base \o s) = Directory
  <2>1. \A base \in BasePaths : base \o s = base
    BY <1>4, BasesAre, ConcatEmptySeq
  <2> QED
    BY <2>1 DEF FoldersInv, Lookup
<1> QED
  BY <1>5 DEF Agree

LEMMA RootIs ==
  ASSUME FoldersInv, BuildTypes, EntriesListable, Faithful
  PROVE  chrootPrefix(entries) = <<>>
           \/ \E name \in Names : chrootPrefix(entries) = <<name>>
<1> SUFFICES ASSUME SingleFolder(entries)
             PROVE  \E name \in Names : chrootPrefix(entries) = <<name>>
  BY DEF chrootPrefix
<1> DEFINE names == ZipReaddir(entries, <<>>)
<1>1. chrootPrefix(entries) = <<CHOOSE name \in names : TRUE>>
  BY DEF chrootPrefix
<1>2. names \in SUBSET Names
  <2>1. <<>> \in Seq(Parts) /\ Walk(<<>>, <<>>) = <<>>
    BY EmptySeq, WalkNowhere
  <2>2. names = MergedNames(<<>>)
    BY <2>1, ZipAnswers, MergedRoot, RootUnmixed
  <2> QED
    BY <2>2 DEF MergedNames
<1>3. Cardinality(names) = 1
  BY DEF SingleFolder
<1> HIDE DEF names
<1>4. names # {}
  BY <1>3, FS_EmptySet
<1>5. (CHOOSE name \in names : TRUE) \in names
  BY <1>4
<1> QED
  BY <1>1, <1>2, <1>5

LEMMA StaysBelowCons ==
  ASSUME NEW p \in Seq(Parts), StaysBelow(p), NEW name \in Names
  PROVE  <<name>> \o p \in Seq(Parts) /\ StaysBelow(<<name>> \o p)
<1> DEFINE r == <<name>> \o p
           n == Len(p)
<1>1. /\ r \in Seq(Parts) /\ Len(r) = n + 1 /\ n \in Nat /\ r[1] = name
      /\ \A i \in 1 .. n : r[i + 1] = p[i]
  <2>1. name \in Parts /\ <<name>> \in Seq(Parts) /\ Len(<<name>>) = 1 /\ <<name>>[1] = name
    BY DEF Parts
  <2> DEFINE one == <<name>>
  <2>2. one \in Seq(Parts) /\ Len(one) = 1 /\ one[1] = name /\ n \in Nat
    BY <2>1, LenProperties
  <2> HIDE DEF one
  <2>3. /\ one \o p \in Seq(Parts) /\ Len(one \o p) = 1 + n
        /\ \A i \in 1 .. 1 + n : (one \o p)[i] = IF i <= 1 THEN one[i] ELSE p[i - 1]
    <3>1. /\ one \o p \in Seq(Parts) /\ Len(one \o p) = Len(one) + n
          /\ \A i \in 1 .. Len(one) + n :
                (one \o p)[i] = IF i <= Len(one) THEN one[i] ELSE p[i - Len(one)]
      BY <2>2, ConcatProperties
    <3> QED
      BY <2>2, <3>1
  <2>4. (one \o p)[1] = name
    BY <2>2, <2>3
  <2>5. ASSUME NEW i \in 1 .. n PROVE (one \o p)[i + 1] = p[i]
    <3>1. i + 1 \in 1 .. 1 + n /\ ~(i + 1 <= 1) /\ (i + 1) - 1 = i
      BY <2>2
    <3> QED
      BY <2>3, <3>1
  <2> QED
    BY <2>2, <2>3, <2>4, <2>5 DEF one
<1> HIDE DEF r
<1> DEFINE Shift(S) == {m \in Nat : m <= n =>
                          Count(r, m + 1, S) = Count(p, m, S) + (IF name \in S THEN 1 ELSE 0)}
<1>2. ASSUME NEW S PROVE Nat \subseteq Shift(S)
  <2>1. 0 \in Shift(S)
    <3>1. Count(r, 0, S) = 0 /\ Count(p, 0, S) = 0
      BY CountNone
    <3>2. Count(r, 0 + 1, S) = IF r[0 + 1] \in S THEN Count(r, 0, S) + 1 ELSE Count(r, 0, S)
      BY CountStep
    <3> QED
      BY <1>1, <3>1, <3>2
  <2>2. ASSUME NEW m \in Nat, m \in Shift(S) PROVE m + 1 \in Shift(S)
    <3> SUFFICES ASSUME m + 1 <= n
                 PROVE  Count(r, (m + 1) + 1, S)
                          = Count(p, m + 1, S) + (IF name \in S THEN 1 ELSE 0)
      OBVIOUS
    <3>1. Count(r, m + 1, S) = Count(p, m, S) + (IF name \in S THEN 1 ELSE 0)
      BY <1>1, <2>2
    <3>2. /\ Count(p, m, S) \in Nat
          /\ Count(p, m + 1, S) = IF p[m + 1] \in S THEN Count(p, m, S) + 1
                                  ELSE Count(p, m, S)
      BY CountStep
    <3>3. Count(r, (m + 1) + 1, S) = IF r[(m + 1) + 1] \in S THEN Count(r, m + 1, S) + 1
                                     ELSE Count(r, m + 1, S)
      BY CountStep
    <3>4. r[(m + 1) + 1] = p[m + 1]
      BY <1>1
    <3> QED
      BY <3>1, <3>2, <3>3, <3>4
  <2> HIDE DEF Shift
  <2> QED
    BY <2>1, <2>2, NatSetInduction
<1>3. name \notin {".."}
  BY NamesAreNoDots
<1>4. ASSUME NEW m \in 1 .. n + 1 PROVE Count(r, m, {".."}) <= Count(r, m, Names)
  <2> DEFINE k == m - 1
  <2>1. k \in Nat /\ k <= n /\ m = k + 1
    BY <1>1
  <2>2. Count(r, m, {".."}) = Count(p, k, {".."}) + 0 /\ Count(r, m, Names) = Count(p, k, Names) + 1
    BY <1>2, <1>3, <2>1
  <2>3. Count(p, k, {".."}) \in Nat /\ Count(p, k, Names) \in Nat
    BY <2>1, CountStep
  <2>4. Count(p, k, {".."}) <= Count(p, k, Names)
    <3>1. CASE k = 0
      <4>1. Count(p, 0, {".."}) = 0
        BY CountNone
      <4> QED
        BY <2>3, <3>1, <4>1
    <3>2. CASE k # 0
      <4>1. k \in 1 .. n
        BY <1>1, <2>1, <3>2
      <4> QED
        BY <4>1, StaysBelowCounts
    <3> QED
      BY <3>1, <3>2
  <2> HIDE DEF k
  <2> QED
    BY <2>2, <2>3, <2>4
<1>5. StaysBelow(r)
  BY <1>1, <1>4, StaysBelowCounts
<1> QED
  BY <1>1, <1>5 DEF r

LEMMA AnswersMatch ==
  ASSUME FoldersInv, BuildTypes, EntriesListable, Faithful, NEW p \in Paths,
         NEW r \in Paths, StaysBelow(r), Unmixed(Walk(<<>>, r)), r = chrootPrefix(entries) \o p
  PROVE  LET packed == zipBundle(entries)
         IN  /\ packed.stat[p] = bundle.stat[r]
             /\ packed.readfile[p] = bundle.readfile[r]
             /\ \/ packed.readdir[p] = bundle.readdir[r]
                \/ Len(Bases) > 1 /\ bundle.stat[r] = "directory" /\ bundle.readdir[r] = Nil
<1> DEFINE packed == zipBundle(entries)
           q == Walk(<<>>, r)
<1>1. r \in Seq(Parts) /\ q \in Seq(Names)
  BY BundleAssumption, BundleAnswers
<1>2. /\ packed.stat[p] = ZipStat(entries, r)
      /\ packed.readfile[p] = ZipReadfile(entries, r)
      /\ packed.readdir[p] = ZipReaddir(entries, r)
  BY DEF zipBundle
<1>3. /\ ZipStat(entries, r) = TypeOf(Merged(q))
      /\ ZipReadfile(entries, r) = IF Merged(q) \in Readable THEN Merged(q) ELSE Nil
      /\ ZipReaddir(entries, r) = IF Merged(q) = Directory THEN MergedNames(q) ELSE Nil
  BY <1>1, ZipAnswers
<1>4. Agree(q)
  BY <1>1, UnmixedIs
<1>5. /\ bundle.stat[r] = TypeOf(Merged(q))
      /\ bundle.readfile[r] = IF Merged(q) \in Readable THEN Merged(q) ELSE Nil
      /\ Merged(q) # Directory => bundle.readdir[r] = Nil
      /\ Merged(q) = Directory =>
           \/ bundle.readdir[r] = MergedNames(q)
           \/ Len(Bases) > 1 /\ bundle.readdir[r] = Nil
  BY <1>4, MergedReads
<1> HIDE DEF packed, q
<1>6. /\ packed.stat[p] = bundle.stat[r] /\ packed.readfile[p] = bundle.readfile[r]
      /\ \/ packed.readdir[p] = bundle.readdir[r]
         \/ Len(Bases) > 1 /\ bundle.stat[r] = "directory" /\ bundle.readdir[r] = Nil
  <2>1. CASE Merged(q) = Directory
    BY <1>2, <1>3, <1>5, <2>1, NilIsNothing
  <2>2. CASE Merged(q) # Directory
    BY <1>2, <1>3, <1>5, <2>2
  <2> QED
    BY <2>1, <2>2
<1> QED
  BY <1>6 DEF packed

\* What is read from a bundle that was packed is what was read from its
\* folders (README.md:102, luvibundle.lua:80-151), for all paths that stay
\* in the bundle: unless what is at the top is a single folder.
THEOREM PackedReadsTheSameAlways == Spec => []PackedReadsTheSame
<1>1. ASSUME FoldersInv, BuildTypes, EntriesListable, WholeInv PROVE PackedReadsTheSame
  <2> SUFFICES ASSUME Comparable, chrootPrefix(entries) = <<>>, NEW p \in Paths, StaysBelow(p),
                      Unmixed(Walk(<<>>, p))
               PROVE  LET packed == zipBundle(entries)
                      IN  /\ packed.stat[p] = bundle.stat[p]
                          /\ packed.readfile[p] = bundle.readfile[p]
                          /\ \/ packed.readdir[p] = bundle.readdir[p]
                             \/ /\ Len(Bases) > 1 /\ bundle.stat[p] = "directory"
                                /\ bundle.readdir[p] = Nil
    BY DEF PackedReadsTheSame, SameAnswers
  <2>1. Faithful
    BY <1>1, ComparableIsFaithful
  <2>2. p = chrootPrefix(entries) \o p
    BY BundleAssumption, ConcatEmptySeq
  <2> QED
    BY <1>1, <2>1, <2>2, AnswersMatch
<1> QED
  BY <1>1, BuildTypeCorrect, EntriesListableAlways, NothingLeftOutAlways, PTL

\* A single folder at the top becomes the root (luvibundle.lua:144-148): each
\* path answers what the folders answer below it.
THEOREM RerootedReadsBelowAlways == Spec => []RerootedReadsBelow
<1>1. ASSUME FoldersInv, BuildTypes, EntriesListable, WholeInv PROVE RerootedReadsBelow
  <2> DEFINE root == chrootPrefix(entries)
  <2> SUFFICES ASSUME Comparable, root # <<>>, NEW p \in Paths, StaysBelow(p), root \o p \in Paths,
                      Unmixed(Walk(<<>>, root \o p))
               PROVE  LET packed == zipBundle(entries)
                      IN  /\ packed.stat[p] = bundle.stat[root \o p]
                          /\ packed.readfile[p] = bundle.readfile[root \o p]
                          /\ \/ packed.readdir[p] = bundle.readdir[root \o p]
                             \/ /\ Len(Bases) > 1 /\ bundle.stat[root \o p] = "directory"
                                /\ bundle.readdir[root \o p] = Nil
    BY DEF RerootedReadsBelow, SameAnswers
  <2>1. Faithful
    BY <1>1, ComparableIsFaithful
  <2> HIDE DEF root
  <2>2. PICK name \in Names : root = <<name>>
    BY <1>1, <2>1, RootIs DEF root
  <2>3. StaysBelow(root \o p)
    BY <2>2, BundleAssumption, StaysBelowCons
  <2> QED
    BY <1>1, <2>1, <2>3, AnswersMatch DEF root
<1> QED
  BY <1>1, BuildTypeCorrect, EntriesListableAlways, NothingLeftOutAlways, PTL
=============================================================================
