---------------------------- MODULE SequenceFacts ----------------------------
(* What the proofs need of sequences: induction, in the form of a set of   *)
(* numbers or sequences that is closed under the next one, and the         *)
(* sequence that several are joined to.                                    *)
EXTENDS Integers, SequencesExt, SequenceTheorems, FiniteSetTheorems,
        WellFoundedInduction, TLAPS

-----------------------------------------------------------------------------
(* Induction.                                                              *)

LEMMA NatSetInduction ==
  ASSUME NEW S, 0 \in S, \A n \in Nat : n \in S => n + 1 \in S
  PROVE  Nat \subseteq S
<1> DEFINE R == OpToRel(<, Nat)
           T == Nat \ S
<1> SUFFICES ASSUME T # {} PROVE FALSE
  OBVIOUS
<1>1. \A i, j \in Nat : i < j => <<i, j>> \in R
  BY DEF OpToRel
<1>2. IsWellFoundedOn(R, Nat)
  BY NatLessThanWellFounded
<1> HIDE DEF R
<1>3. PICK x \in T : \A y \in T : ~(<<y, x>> \in R)
  BY <1>2, WFMin
<1>4. x \in Nat /\ x - 1 \in Nat /\ x - 1 \notin S /\ x - 1 < x
  OBVIOUS
<1>5. <<x - 1, x>> \in R
  BY <1>1, <1>4
<1> QED
  BY <1>3, <1>4, <1>5

(* A set of sequences that has the empty one and grows at the end.         *)
LEMMA AppendInduction ==
  ASSUME NEW S, NEW T, <<>> \in T,
         \A s \in Seq(S), e \in S : s \in T => Append(s, e) \in T
  PROVE  Seq(S) \subseteq T
<1> DEFINE L == {n \in Nat : \A s \in Seq(S) : Len(s) = n => s \in T}
<1>1. 0 \in L
  BY EmptySeq
<1>2. ASSUME NEW n \in Nat, n \in L PROVE n + 1 \in L
  <2> SUFFICES ASSUME NEW s \in Seq(S), Len(s) = n + 1 PROVE s \in T
    OBVIOUS
  <2>1. s # <<>>
    BY EmptySeq
  <2>2. PICK r \in Seq(S), e \in S : s = Append(r, e)
    BY <2>1, SequenceEmptyOrAppend
  <2>3. Len(r) = n
    BY <2>2, AppendProperties, LenProperties
  <2> QED
    BY <1>2, <2>2, <2>3
<1>3. Nat \subseteq L
  <2> HIDE DEF L
  <2> QED
    BY <1>1, <1>2, NatSetInduction
<1> QED
  BY <1>3, LenProperties

(* ... and one that grows at the front.                                    *)
LEMMA ConsInduction ==
  ASSUME NEW S, NEW T, <<>> \in T,
         \A s \in Seq(S), e \in S : s \in T => <<e>> \o s \in T
  PROVE  Seq(S) \subseteq T
<1> DEFINE L == {n \in Nat : \A s \in Seq(S) : Len(s) = n => s \in T}
<1>1. 0 \in L
  BY EmptySeq
<1>2. ASSUME NEW n \in Nat, n \in L PROVE n + 1 \in L
  <2> SUFFICES ASSUME NEW s \in Seq(S), Len(s) = n + 1 PROVE s \in T
    OBVIOUS
  <2>1. s # <<>>
    BY EmptySeq
  <2>2. /\ Head(s) \in S /\ Tail(s) \in Seq(S) /\ Len(Tail(s)) = n
        /\ s = <<Head(s)>> \o Tail(s)
    BY <2>1, HeadTailProperties
  <2> QED
    BY <1>2, <2>2
<1>3. Nat \subseteq L
  <2> HIDE DEF L
  <2> QED
    BY <1>1, <1>2, NatSetInduction
<1> QED
  BY <1>3, LenProperties

LEMMA ConcatAppend ==
  ASSUME NEW S, NEW s \in Seq(S), NEW t \in Seq(S), NEW e \in S
  PROVE  s \o Append(t, e) = Append(s \o t, e)
<1>1. <<e>> \in Seq(S) /\ s \o t \in Seq(S)
  BY ConcatProperties
<1>2. Append(t, e) = t \o <<e>> /\ Append(s \o t, e) = (s \o t) \o <<e>>
  BY <1>1, AppendIsConcat
<1> QED
  BY <1>1, <1>2, ConcatAssociative

LEMMA FunctionIsSeq ==
  ASSUME NEW S, NEW n \in Nat, NEW f \in [1 .. n -> S]
  PROVE  f \in Seq(S) /\ Len(f) = n
  OBVIOUS

LEMMA BoundedSeqIsSeq ==
  ASSUME NEW S, NEW n \in Nat
  PROVE  BoundedSeq(S, n) \subseteq Seq(S)
<1> SUFFICES ASSUME NEW s \in BoundedSeq(S, n) PROVE s \in Seq(S)
  OBVIOUS
<1>1. s \in UNION {[1 .. m -> S] : m \in 0 .. n}
  BY DEF BoundedSeq, SeqOf
<1>2. PICK m \in 0 .. n : s \in [1 .. m -> S]
  BY <1>1
<1> QED
  BY <1>2, FunctionIsSeq

-----------------------------------------------------------------------------
(* Sequences of sequences.                                                 *)

LEMMA FlattenDef ==
  ASSUME NEW S, NEW ss \in Seq(Seq(S)), ss # <<>>
  PROVE  \E f : /\ \A n \in 1 .. Len(ss) :
                     f[n] = IF n = 1 THEN ss[n] ELSE f[n - 1] \o ss[n]
                /\ FlattenSeq(ss) = f[Len(ss)]
<1> DEFINE D(m, f) == f = [n \in 1 .. m |-> IF n = 1 THEN ss[n] ELSE f[n - 1] \o ss[n]]
           M == {m \in Nat : \E f : D(m, f)}
<1>1. 0 \in M
  <2>1. D(0, [n \in 1 .. 0 |-> ss[n]])
    OBVIOUS
  <2> QED
    BY <2>1
<1>2. ASSUME NEW m \in Nat, m \in M PROVE m + 1 \in M
  <2>1. PICK f : D(m, f)
    BY <1>2
  <2> DEFINE g == [n \in 1 .. m + 1 |->
                     IF n = m + 1 THEN IF n = 1 THEN ss[n] ELSE f[m] \o ss[n] ELSE f[n]]
  <2>2. ASSUME NEW n \in 1 .. m + 1
        PROVE  g[n] = IF n = 1 THEN ss[n] ELSE g[n - 1] \o ss[n]
    <3>1. CASE n = m + 1
      <4>1. n # 1 => n - 1 = m /\ n - 1 \in 1 .. m + 1 /\ n - 1 # m + 1
        BY <3>1
      <4>2. n # 1 => g[n - 1] = f[m]
        BY <4>1
      <4> QED
        BY <3>1, <4>2
    <3>2. CASE n # m + 1
      <4>1. n \in 1 .. m /\ g[n] = f[n]
        BY <3>2
      <4>2. f[n] = IF n = 1 THEN ss[n] ELSE f[n - 1] \o ss[n]
        BY <2>1, <4>1
      <4>3. n # 1 => n - 1 \in 1 .. m + 1 /\ n - 1 # m + 1
        BY <4>1
      <4>4. n # 1 => g[n - 1] = f[n - 1]
        BY <4>3
      <4> QED
        BY <4>1, <4>2, <4>4
    <3> QED
      BY <3>1, <3>2
  <2>3. g = [n \in 1 .. m + 1 |-> g[n]]
    OBVIOUS
  <2>4. D(m + 1, g)
    <3> HIDE DEF g
    <3> QED
      BY <2>2, <2>3
  <2> HIDE DEF D, g
  <2>5. \E h : D(m + 1, h)
    BY <2>4
  <2> QED
    BY <2>5
<1>3. Nat \subseteq M
  <2> HIDE DEF M
  <2> QED
    BY <1>1, <1>2, NatSetInduction
<1>4. Len(ss) \in Nat /\ Len(ss) # 0
  BY EmptySeq
<1>5. \E f : D(Len(ss), f)
  <2> HIDE DEF D
  <2> QED
    BY <1>3, <1>4
<1> DEFINE F == CHOOSE f : D(Len(ss), f)
<1>6. D(Len(ss), F)
  <2> HIDE DEF D
  <2> QED
    BY <1>5
<1>7. FlattenSeq(ss) = F[Len(ss)]
  BY <1>4 DEF FlattenSeq
<1> HIDE DEF F
<1>8. \A n \in 1 .. Len(ss) : F[n] = IF n = 1 THEN ss[n] ELSE F[n - 1] \o ss[n]
  BY <1>6
<1> QED
  BY <1>7, <1>8

LEMMA FlattenOne ==
  ASSUME NEW S, NEW s \in Seq(S)
  PROVE  FlattenSeq(<<s>>) = s
<1> DEFINE ss == <<s>>
<1>1. ss \in Seq(Seq(S)) /\ Len(ss) = 1 /\ ss[1] = s /\ ss # <<>>
  OBVIOUS
<1> HIDE DEF ss
<1>2. PICK f : /\ \A n \in 1 .. Len(ss) :
                    f[n] = IF n = 1 THEN ss[n] ELSE f[n - 1] \o ss[n]
               /\ FlattenSeq(ss) = f[Len(ss)]
  BY <1>1, FlattenDef
<1>3. FlattenSeq(ss) = s
  BY <1>1, <1>2
<1> QED
  BY <1>3 DEF ss

LEMMA FlattenAppend ==
  ASSUME NEW S, NEW ss \in Seq(Seq(S)), NEW s \in Seq(S), ss # <<>>
  PROVE  FlattenSeq(Append(ss, s)) = FlattenSeq(ss) \o s
<1> DEFINE tt == Append(ss, s)
<1>1. /\ tt \in Seq(Seq(S)) /\ tt # <<>> /\ Len(tt) = Len(ss) + 1
      /\ tt[Len(ss) + 1] = s /\ \A n \in 1 .. Len(ss) : tt[n] = ss[n]
      /\ Len(ss) \in Nat /\ Len(ss) # 0
  <2>1. Len(ss) \in Nat /\ Len(ss) # 0
    BY EmptySeq
  <2> QED
    BY <2>1, AppendProperties
<1> HIDE DEF tt
<1>2. PICK f : /\ \A n \in 1 .. Len(ss) :
                    f[n] = IF n = 1 THEN ss[n] ELSE f[n - 1] \o ss[n]
               /\ FlattenSeq(ss) = f[Len(ss)]
  BY FlattenDef
<1>3. PICK g : /\ \A n \in 1 .. Len(tt) :
                    g[n] = IF n = 1 THEN tt[n] ELSE g[n - 1] \o tt[n]
               /\ FlattenSeq(tt) = g[Len(tt)]
  BY <1>1, FlattenDef
<1> DEFINE M == {n \in Nat : n >= 1 /\ n <= Len(ss) => g[n] = f[n]}
<1>4. 0 \in M
  OBVIOUS
<1>5. ASSUME NEW n \in Nat, n \in M PROVE n + 1 \in M
  <2> SUFFICES ASSUME n + 1 <= Len(ss) PROVE g[n + 1] = f[n + 1]
    OBVIOUS
  <2>1. tt[n + 1] = ss[n + 1]
    BY <1>1
  <2>2. CASE n = 0
    BY <1>1, <1>2, <1>3, <2>1, <2>2
  <2>3. CASE n >= 1
    <3>1. g[n] = f[n]
      BY <1>5, <2>3
    <3>2. f[n + 1] = f[n] \o ss[n + 1] /\ g[n + 1] = g[n] \o tt[n + 1]
      <4>1. PICK i \in 1 .. Len(ss) : i = n + 1 /\ i # 1 /\ i - 1 = n /\ i \in 1 .. Len(tt)
        BY <1>1, <2>3
      <4>2. f[i] = f[i - 1] \o ss[i]
        BY <1>2, <4>1
      <4>3. g[i] = g[i - 1] \o tt[i]
        BY <1>3, <4>1
      <4> QED
        BY <4>1, <4>2, <4>3
    <3> QED
      BY <2>1, <3>1, <3>2
  <2> QED
    BY <2>2, <2>3
<1>6. g[Len(ss)] = f[Len(ss)]
  <2> HIDE DEF M
  <2>1. Nat \subseteq M
    BY <1>4, <1>5, NatSetInduction
  <2> QED
    BY <1>1, <2>1 DEF M
<1>7. g[Len(tt)] = g[Len(ss)] \o s
  <2>1. Len(tt) \in 1 .. Len(tt) /\ Len(tt) # 1 /\ Len(tt) - 1 = Len(ss) /\ tt[Len(tt)] = s
    BY <1>1
  <2>2. g[Len(tt)] = g[Len(tt) - 1] \o tt[Len(tt)]
    BY <1>3, <2>1
  <2> QED
    BY <2>1, <2>2
<1> QED
  BY <1>2, <1>3, <1>6, <1>7 DEF tt

LEMMA FlattenType ==
  ASSUME NEW S, NEW ss \in Seq(Seq(S))
  PROVE  FlattenSeq(ss) \in Seq(S)
<1> DEFINE T == {u \in Seq(Seq(S)) : FlattenSeq(u) \in Seq(S)}
<1>1. <<>> \in T
  <2>1. <<>> \in Seq(Seq(S)) /\ <<>> \in Seq(S) /\ Len(<<>>) = 0
    BY EmptySeq
  <2> QED
    BY <2>1 DEF FlattenSeq
<1>2. ASSUME NEW u \in Seq(Seq(S)), NEW s \in Seq(S), u \in T
      PROVE  Append(u, s) \in T
  <2>1. Append(u, s) \in Seq(Seq(S))
    BY AppendProperties
  <2>2. CASE u = <<>>
    <3>1. Append(u, s) = <<s>>
      BY <2>2
    <3> QED
      BY <2>1, <3>1, FlattenOne
  <2>3. CASE u # <<>>
    <3>1. FlattenSeq(Append(u, s)) = FlattenSeq(u) \o s
      BY <2>3, FlattenAppend
    <3> QED
      BY <1>2, <2>1, <3>1, ConcatProperties
  <2> QED
    BY <2>2, <2>3
<1> QED
  <2> HIDE DEF T
  <2>1. Seq(Seq(S)) \subseteq T
    BY <1>1, <1>2, AppendInduction
  <2> QED
    BY <2>1 DEF T

LEMMA FlattenNothing == FlattenSeq(<<>>) = <<>>
<1>1. Len(<<>>) = 0
  BY EmptySeq
<1> QED
  BY <1>1 DEF FlattenSeq

(* The last sequence comes last.                                           *)
LEMMA FlattenLonger ==
  ASSUME NEW S, NEW ss \in Seq(Seq(S)), NEW s \in Seq(S)
  PROVE  FlattenSeq(ss) \in Seq(S) /\ FlattenSeq(Append(ss, s)) = FlattenSeq(ss) \o s
<1>1. CASE ss = <<>>
  <2>1. Append(ss, s) = <<s>>
    BY <1>1
  <2>2. FlattenSeq(<<s>>) = s /\ <<>> \o s = s
    BY FlattenOne, ConcatEmptySeq
  <2> QED
    BY <1>1, <2>1, <2>2, FlattenNothing, FlattenType
<1>2. CASE ss # <<>>
  BY <1>2, FlattenAppend, FlattenType
<1> QED
  BY <1>1, <1>2

(* Two sequences of sequences, one after the other.                        *)
LEMMA FlattenConcat ==
  ASSUME NEW S, NEW ss \in Seq(Seq(S)), NEW tt \in Seq(Seq(S))
  PROVE  FlattenSeq(ss \o tt) = FlattenSeq(ss) \o FlattenSeq(tt)
<1> DEFINE T == {u \in Seq(Seq(S)) : FlattenSeq(ss \o u) = FlattenSeq(ss) \o FlattenSeq(u)}
<1>1. <<>> \in T
  <2>1. <<>> \in Seq(Seq(S)) /\ ss \o <<>> = ss /\ FlattenSeq(ss) \in Seq(S)
    BY EmptySeq, ConcatEmptySeq, FlattenType
  <2>2. FlattenSeq(ss) \o <<>> = FlattenSeq(ss)
    BY <2>1, ConcatEmptySeq
  <2> QED
    BY <2>1, <2>2, FlattenNothing
<1>2. ASSUME NEW u \in Seq(Seq(S)), NEW s \in Seq(S), u \in T
      PROVE  Append(u, s) \in T
  <2>1. ss \o u \in Seq(Seq(S)) /\ ss \o Append(u, s) = Append(ss \o u, s)
    BY ConcatProperties, ConcatAppend
  <2>2. FlattenSeq(Append(ss \o u, s)) = FlattenSeq(ss \o u) \o s
    BY <2>1, FlattenLonger
  <2>3. /\ FlattenSeq(Append(u, s)) = FlattenSeq(u) \o s
        /\ FlattenSeq(u) \in Seq(S) /\ FlattenSeq(ss) \in Seq(S)
    BY FlattenLonger
  <2>4. (FlattenSeq(ss) \o FlattenSeq(u)) \o s = FlattenSeq(ss) \o (FlattenSeq(u) \o s)
    <3>1. \A x, y, z \in Seq(S) : (x \o y) \o z = x \o (y \o z)
      BY ConcatAssociative, SMTT(60)
    <3> QED
      BY <2>3, <3>1
  <2>5. Append(u, s) \in Seq(Seq(S))
    BY AppendProperties
  <2> QED
    BY <1>2, <2>1, <2>2, <2>3, <2>4, <2>5
<1> QED
  <2> HIDE DEF T
  <2>1. Seq(Seq(S)) \subseteq T
    BY <1>1, <1>2, AppendInduction
  <2> QED
    BY <2>1 DEF T

-----------------------------------------------------------------------------
(* The last element, and prefixes.                                         *)

LEMMA FrontAppend ==
  ASSUME NEW S, NEW s \in Seq(S), NEW e \in S
  PROVE  Front(Append(s, e)) = s /\ Last(Append(s, e)) = e
<1> DEFINE t == Append(s, e)
<1>1. /\ t \in Seq(S) /\ Len(t) = Len(s) + 1 /\ Len(s) \in Nat
      /\ t[Len(s) + 1] = e /\ \A i \in 1 .. Len(s) : t[i] = s[i] /\ s[i] \in S
  BY AppendProperties, LenProperties, ElementOfSeq
<1> HIDE DEF t
<1> DEFINE f == SubSeq(t, 1, Len(s))
<1>2. \A i \in 1 .. Len(s) : t[i] \in S
  BY <1>1
<1>3. /\ f \in Seq(S) /\ Len(f) = Len(s)
      /\ \A i \in 1 .. Len(s) - 1 + 1 : f[i] = t[1 + i - 1]
  <2>1. 1 \in Int /\ Len(s) \in Int
    BY <1>1
  <2>2. Len(f) = IF 1 <= Len(s) THEN Len(s) - 1 + 1 ELSE 0
    BY <1>2, <2>1, SubSeqProperties
  <2> QED
    BY <1>1, <1>2, <2>1, <2>2, SubSeqProperties
<1>4. \A i \in 1 .. Len(s) : f[i] = s[i]
  BY <1>1, <1>3
<1> HIDE DEF f
<1>5. f = s
  BY <1>3, <1>4, SeqEqual
<1>6. Front(t) = f
  BY <1>1 DEF Front, f
<1>7. Last(t) = e
  BY <1>1 DEF Last
<1> QED
  BY <1>5, <1>6, <1>7 DEF t

LEMMA FrontProperties ==
  ASSUME NEW S, NEW s \in Seq(S), s # <<>>
  PROVE  /\ Front(s) \in Seq(S) /\ Last(s) \in S
         /\ s = Append(Front(s), Last(s))
         /\ Len(s) = Len(Front(s)) + 1
<1>1. PICK r \in Seq(S), e \in S : s = Append(r, e)
  BY SequenceEmptyOrAppend
<1>2. Front(s) = r /\ Last(s) = e
  BY <1>1, FrontAppend
<1>3. Len(s) = Len(r) + 1
  BY <1>1, AppendProperties
<1> QED
  BY <1>1, <1>2, <1>3

LEMMA PrefixIs ==
  ASSUME NEW S, NEW s \in Seq(S), NEW t \in Seq(S)
  PROVE  IsPrefix(s, t) <=> Len(s) <= Len(t) /\ \A i \in 1 .. Len(s) : s[i] = t[i]
<1>1. Len(s) \in Nat /\ Len(t) \in Nat
  BY LenProperties
<1> SUFFICES ASSUME Len(s) <= Len(t)
             PROVE  SubSeq(s, 1, Len(s)) = SubSeq(t, 1, Len(s))
                      <=> \A i \in 1 .. Len(s) : s[i] = t[i]
  BY DEF IsPrefix
<1>2. SubSeq(s, 1, Len(s)) = s
  BY SubSeqFull
<1> DEFINE f == SubSeq(t, 1, Len(s))
<1>3. f \in Seq(S) /\ Len(f) = Len(s) /\ \A i \in 1 .. Len(s) : f[i] = t[i]
  <2>1. \A i \in 1 .. Len(s) : t[i] \in S
    BY <1>1, ElementOfSeq
  <2>2. 1 \in Int /\ Len(s) \in Int
    BY <1>1
  <2>3. /\ f \in Seq(S)
        /\ Len(f) = IF 1 <= Len(s) THEN Len(s) - 1 + 1 ELSE 0
        /\ \A i \in 1 .. Len(s) - 1 + 1 : f[i] = t[1 + i - 1]
    BY <2>1, <2>2, SubSeqProperties
  <2> HIDE DEF f
  <2> QED
    BY <1>1, <2>3
<1> HIDE DEF f
<1>4. f = s <=> \A i \in 1 .. Len(s) : s[i] = t[i]
  BY <1>3, SeqEqual
<1> QED
  BY <1>2, <1>4 DEF f

LEMMA PrefixConcat ==
  ASSUME NEW S, NEW s \in Seq(S), NEW t \in Seq(S)
  PROVE  IsPrefix(s, s \o t)
<1>1. Len(s) \in Nat /\ Len(t) \in Nat
  BY LenProperties
<1>2. /\ s \o t \in Seq(S) /\ Len(s \o t) = Len(s) + Len(t)
      /\ \A i \in 1 .. Len(s) + Len(t) :
           (s \o t)[i] = IF i <= Len(s) THEN s[i] ELSE t[i - Len(s)]
  BY ConcatProperties
<1> DEFINE u == s \o t
<1>3. u \in Seq(S) /\ Len(s) <= Len(u) /\ \A i \in 1 .. Len(s) : s[i] = u[i]
  BY <1>1, <1>2
<1> HIDE DEF u
<1>4. IsPrefix(s, u)
  BY <1>3, PrefixIs
<1> QED
  BY <1>4 DEF u

(* A prefix of a sequence with one more element is one of the sequence, or *)
(* all of it.                                                              *)
LEMMA PrefixOfAppend ==
  ASSUME NEW S, NEW s \in Seq(S), NEW t \in Seq(S), NEW e \in S
  PROVE  IsPrefix(s, Append(t, e)) <=> IsPrefix(s, t) \/ s = Append(t, e)
<1> DEFINE u == Append(t, e)
<1>1. /\ u \in Seq(S) /\ Len(u) = Len(t) + 1 /\ u[Len(t) + 1] = e
      /\ \A i \in 1 .. Len(t) : u[i] = t[i]
      /\ Len(s) \in Nat /\ Len(t) \in Nat
  BY AppendProperties, LenProperties
<1> HIDE DEF u
<1>2. /\ IsPrefix(s, u) <=> Len(s) <= Len(u) /\ \A i \in 1 .. Len(s) : s[i] = u[i]
      /\ IsPrefix(s, t) <=> Len(s) <= Len(t) /\ \A i \in 1 .. Len(s) : s[i] = t[i]
  BY <1>1, PrefixIs
<1>3. ASSUME IsPrefix(s, u), ~(Len(s) <= Len(t)) PROVE s = u
  <2>1. Len(s) = Len(u) /\ \A i \in 1 .. Len(s) : s[i] = u[i]
    BY <1>1, <1>2, <1>3
  <2> QED
    BY <1>1, <2>1, SeqEqual
<1>4. ASSUME IsPrefix(s, u), Len(s) <= Len(t) PROVE IsPrefix(s, t)
  <2>1. \A i \in 1 .. Len(s) : i \in 1 .. Len(t)
    BY <1>1, <1>4
  <2> QED
    BY <1>1, <1>2, <1>4, <2>1
<1>5. ASSUME IsPrefix(s, t) PROVE IsPrefix(s, u)
  <2>1. \A i \in 1 .. Len(s) : i \in 1 .. Len(t)
    BY <1>1, <1>2, <1>5
  <2> QED
    BY <1>1, <1>2, <1>5, <2>1
<1>6. ASSUME s = u PROVE IsPrefix(s, u)
  BY <1>2, <1>6, <1>1
<1> QED
  BY <1>3, <1>4, <1>5, <1>6 DEF u

LEMMA PrefixTransitive ==
  ASSUME NEW S, NEW s \in Seq(S), NEW t \in Seq(S), NEW u \in Seq(S),
         IsPrefix(s, t), IsPrefix(t, u)
  PROVE  IsPrefix(s, u)
<1>1. /\ Len(s) \in Nat /\ Len(t) \in Nat /\ Len(u) \in Nat
      /\ Len(s) <= Len(t) /\ \A i \in 1 .. Len(s) : s[i] = t[i]
      /\ Len(t) <= Len(u) /\ \A i \in 1 .. Len(t) : t[i] = u[i]
  BY PrefixIs, LenProperties
<1>2. Len(s) <= Len(u) /\ \A i \in 1 .. Len(s) : s[i] = u[i]
  BY <1>1
<1> QED
  BY <1>2, PrefixIs

(* Two prefixes of each other are the same.                                *)
LEMMA PrefixAntisymmetric ==
  ASSUME NEW S, NEW s \in Seq(S), NEW t \in Seq(S), IsPrefix(s, t), Len(t) <= Len(s)
  PROVE  s = t
<1>1. /\ Len(s) \in Nat /\ Len(t) \in Nat
      /\ Len(s) <= Len(t) /\ \A i \in 1 .. Len(s) : s[i] = t[i]
  BY PrefixIs, LenProperties
<1>2. Len(s) = Len(t)
  BY <1>1
<1> QED
  BY <1>1, <1>2, SeqEqual

LEMMA PrefixReflexive == ASSUME NEW S, NEW s \in Seq(S) PROVE IsPrefix(s, s)
BY PrefixIs, LenProperties

\* The set of prefixes.
LEMMA PrefixesAre ==
  ASSUME NEW S, NEW t \in Seq(S)
  PROVE  \A s : s \in Prefixes(t) <=> s \in Seq(S) /\ IsPrefix(s, t)
<1>1. ASSUME NEW s \in Prefixes(t) PROVE s \in Seq(S) /\ IsPrefix(s, t)
  <2>1. PICK n \in 0 .. Len(t) : s = SubSeq(t, 1, n)
    BY <1>1 DEF Prefixes
  <2>2. Len(t) \in Nat /\ n \in Nat /\ n <= Len(t)
    BY LenProperties
  <2>3. s \in Seq(S) /\ Len(s) = n
    BY <2>1, <2>2
  <2> QED
    BY <2>1, <2>2, <2>3 DEF IsPrefix
<1>2. ASSUME NEW s \in Seq(S), IsPrefix(s, t) PROVE s \in Prefixes(t)
  <2>1. Len(s) \in 0 .. Len(t)
    BY <1>2, LenProperties DEF IsPrefix
  <2>2. s = SubSeq(t, 1, Len(s))
    <3>1. SubSeq(s, 1, Len(s)) = s
      BY SubSeqFull, LenProperties
    <3> QED
      BY <1>2, <3>1 DEF IsPrefix
  <2> QED
    BY <2>1, <2>2 DEF Prefixes
<1> QED
  BY <1>1, <1>2

LEMMA PrefixRest ==
  ASSUME NEW S, NEW s \in Seq(S), NEW t \in Seq(S), IsPrefix(s, t)
  PROVE  \E u \in Seq(S) : t = s \o u
<1> DEFINE m == Len(s)
           n == Len(t)
           u == [i \in 1 .. n - m |-> t[m + i]]
<1>1. m \in Nat /\ n \in Nat /\ m <= n /\ \A i \in 1 .. m : s[i] = t[i]
  BY PrefixIs, LenProperties
<1>2. n - m \in Nat /\ u \in [1 .. n - m -> S]
  <2>1. \A i \in 1 .. n - m : m + i \in 1 .. n
    BY <1>1
  <2>2. \A i \in 1 .. n : t[i] \in S
    BY ElementOfSeq
  <2> QED
    BY <1>1, <2>1, <2>2
<1>3. u \in Seq(S) /\ Len(u) = n - m
  BY <1>2, FunctionIsSeq
<1> HIDE DEF u
<1>4. /\ s \o u \in Seq(S) /\ Len(s \o u) = n
      /\ \A i \in 1 .. n : (s \o u)[i] = IF i <= m THEN s[i] ELSE u[i - m]
  BY <1>1, <1>3, ConcatProperties
<1>5. \A i \in 1 .. n : (s \o u)[i] = t[i]
  <2> TAKE i \in 1 .. n
  <2>1. CASE i <= m
    BY <1>1, <1>4, <2>1
  <2>2. CASE ~(i <= m)
    <3>1. i - m \in 1 .. n - m /\ m + (i - m) = i
      BY <1>1, <2>2
    <3>2. u[i - m] = t[m + (i - m)]
      BY <3>1 DEF u
    <3> QED
      BY <1>4, <2>2, <3>1, <3>2
  <2> QED
    BY <2>1, <2>2
<1>6. s \o u = t
  BY <1>4, <1>5, SeqEqual
<1> QED
  BY <1>3, <1>6

\* The next step on the way from s to t.
LEMMA PrefixStep ==
  ASSUME NEW S, NEW s \in Seq(S), NEW t \in Seq(S), IsPrefix(s, t), s # t
  PROVE  /\ Len(s) + 1 \in DOMAIN t /\ t[Len(s) + 1] \in S
         /\ IsPrefix(Append(s, t[Len(s) + 1]), t)
<1> DEFINE m == Len(s)
           n == Len(t)
           e == t[m + 1]
<1>1. m \in Nat /\ n \in Nat /\ m <= n /\ \A i \in 1 .. m : s[i] = t[i]
  BY PrefixIs, LenProperties
<1>2. m # n
  BY <1>1, SeqEqual
<1>3. m + 1 \in 1 .. n /\ DOMAIN t = 1 .. n
  BY <1>1, <1>2, LenProperties
<1>4. e \in S
  BY <1>3, ElementOfSeq
<1> HIDE DEF e
<1>5. /\ Append(s, e) \in Seq(S) /\ Len(Append(s, e)) = m + 1
      /\ Append(s, e)[m + 1] = e /\ \A i \in 1 .. m : Append(s, e)[i] = s[i]
  BY <1>4, AppendProperties
<1>6. \A i \in 1 .. m + 1 : Append(s, e)[i] = t[i]
  <2> TAKE i \in 1 .. m + 1
  <2>1. CASE i = m + 1
    BY <1>5, <2>1 DEF e
  <2>2. CASE i # m + 1
    <3>1. i \in 1 .. m
      BY <1>1, <2>2
    <3> QED
      BY <1>1, <1>5, <3>1
  <2> QED
    BY <2>1, <2>2
<1>7. IsPrefix(Append(s, e), t)
  <2> DEFINE x == Append(s, e)
  <2>1. x \in Seq(S) /\ Len(x) = m + 1 /\ \A i \in 1 .. m + 1 : x[i] = t[i]
    BY <1>5, <1>6
  <2> HIDE DEF x
  <2>2. Len(x) <= n /\ \A i \in 1 .. Len(x) : x[i] = t[i]
    BY <1>1, <1>3, <2>1
  <2>3. IsPrefix(x, t)
    BY <2>1, <2>2, PrefixIs
  <2> QED
    BY <2>3 DEF x
<1> QED
  BY <1>3, <1>4, <1>7 DEF e

LEMMA StepOfPrefix ==
  ASSUME NEW S, NEW s \in Seq(S), NEW t \in Seq(S), NEW e \in S, IsPrefix(Append(s, e), t)
  PROVE  Len(s) + 1 \in DOMAIN t /\ t[Len(s) + 1] = e /\ IsPrefix(s, t) /\ s # t
<1>1. /\ Len(s) \in Nat /\ Append(s, e) \in Seq(S) /\ Len(Append(s, e)) = Len(s) + 1
      /\ Append(s, e)[Len(s) + 1] = e /\ IsPrefix(s, Append(s, e))
  BY AppendProperties, LenProperties, PrefixOfAppend, PrefixReflexive
<1>2. /\ Len(s) + 1 <= Len(t) /\ Len(t) \in Nat /\ DOMAIN t = 1 .. Len(t)
      /\ \A i \in 1 .. Len(s) + 1 : Append(s, e)[i] = t[i]
  <2> DEFINE x == Append(s, e)
  <2>1. x \in Seq(S) /\ Len(x) = Len(s) + 1 /\ IsPrefix(x, t)
    BY <1>1
  <2> HIDE DEF x
  <2>2. Len(x) <= Len(t) /\ \A i \in 1 .. Len(x) : x[i] = t[i]
    BY <2>1, PrefixIs
  <2>3. Len(t) \in Nat /\ DOMAIN t = 1 .. Len(t)
    BY LenProperties
  <2> QED
    BY <2>1, <2>2, <2>3 DEF x
<1>3. Len(s) + 1 \in 1 .. Len(s) + 1 /\ Len(s) + 1 \in 1 .. Len(t)
  BY <1>1, <1>2
<1>4. IsPrefix(s, t)
  BY <1>1, PrefixTransitive
<1>5. s # t
  BY <1>1, <1>2
<1> QED
  BY <1>1, <1>2, <1>3, <1>4, <1>5

-----------------------------------------------------------------------------
LEMMA MinIs ==
  ASSUME NEW S \in SUBSET Nat, S # {}
  PROVE  Min(S) \in S /\ \A i \in S : Min(S) <= i
<1> DEFINE R == OpToRel(<, Nat)
<1>1. \A i, j \in Nat : i < j => <<i, j>> \in R
  BY DEF OpToRel
<1>2. IsWellFoundedOn(R, Nat)
  BY NatLessThanWellFounded
<1> HIDE DEF R
<1>3. PICK n \in S : \A i \in S : ~(<<i, n>> \in R)
  BY <1>2, WFMin
<1>4. ASSUME NEW i \in S PROVE n <= i
  <2>1. n \in Nat /\ i \in Nat /\ ~(<<i, n>> \in R)
    BY <1>3
  <2>2. ~(i < n)
    BY <1>1, <2>1
  <2> QED
    BY <2>1, <2>2
<1> QED
  BY <1>4 DEF Min

-----------------------------------------------------------------------------
\* How many of a set of positions are among the first n.
Place(S, n) == Cardinality(S \cap 1 .. n)

LEMMA PlaceNext ==
  ASSUME NEW S \in SUBSET Nat, NEW n \in Nat
  PROVE  /\ Place(S, 0) = 0 /\ Place(S, n) \in Nat
         /\ Place(S, n + 1) = IF n + 1 \in S THEN Place(S, n) + 1 ELSE Place(S, n)
<1>1. IsFiniteSet(1 .. n)
  BY FS_Interval
<1>2. IsFiniteSet(S \cap 1 .. n)
  BY <1>1, FS_Subset
<1>3. Place(S, n) \in Nat
  BY <1>2, FS_CardinalityType DEF Place
<1>4. Place(S, 0) = 0
  <2>1. S \cap 1 .. 0 = {}
    OBVIOUS
  <2> QED
    BY <2>1, FS_EmptySet DEF Place
<1>5. CASE n + 1 \in S
  <2>1. S \cap 1 .. n + 1 = (S \cap 1 .. n) \cup {n + 1} /\ n + 1 \notin S \cap 1 .. n
    BY <1>5
  <2> QED
    BY <1>2, <1>3, <1>4, <1>5, <2>1, FS_AddElement DEF Place
<1>6. CASE n + 1 \notin S
  <2>1. S \cap 1 .. n + 1 = S \cap 1 .. n
    BY <1>6
  <2> QED
    BY <1>3, <1>4, <1>6, <2>1 DEF Place
<1> QED
  BY <1>5, <1>6

=============================================================================
