--------------------------- MODULE SnapshotProofs ---------------------------
(* The walk of snapshot.c is correct for every heap: proofs for Snapshot.  *)
EXTENDS Snapshot, SequenceTheorems, FiniteSetTheorems, TLAPS

(* The innermost call, and the calls that remain when it returns.          *)
LEMMA FramesTop ==
  ASSUME NEW f \in Seq(Frame), f # <<>>
  PROVE  /\ Len(f) \in DOMAIN f
         /\ f[Len(f)] \in Frame
         /\ SubSeq(f, 1, Len(f) - 1) \in Seq(Frame)
         /\ DOMAIN SubSeq(f, 1, Len(f) - 1) = DOMAIN f \ {Len(f)}
         /\ \A k \in DOMAIN f \ {Len(f)} : SubSeq(f, 1, Len(f) - 1)[k] = f[k]
<1> DEFINE rest == SubSeq(f, 1, Len(f) - 1)
<1>1. Len(f) \in Nat \ {0} /\ DOMAIN f = 1 .. Len(f)
  BY EmptySeq, LenProperties
<1>2. \A i \in 1 .. Len(f) : f[i] \in Frame
  BY ElementOfSeq
<1>3. /\ rest \in Seq(Frame)
      /\ Len(rest) = IF 1 <= Len(f) - 1 THEN Len(f) - 1 ELSE 0
      /\ \A i \in 1 .. Len(f) - 1 : rest[i] = f[i]
  <2>1. \A i \in 1 .. Len(f) - 1 : f[i] \in Frame
    BY <1>1, <1>2
  <2> QED
    BY <1>1, <2>1, SubSeqProperties
<1>4. DOMAIN rest = 1 .. Len(rest)
  BY <1>3, LenProperties
<1>5. DOMAIN rest = DOMAIN f \ {Len(f)}
  BY <1>1, <1>3, <1>4
<1>6. \A k \in DOMAIN f \ {Len(f)} : k \in 1 .. Len(f) - 1
  BY <1>1
<1> QED
  BY <1>1, <1>2, <1>3, <1>5, <1>6

(* The calls when one more object is entered.                              *)
LEMMA FramesPush ==
  ASSUME NEW f \in Seq(Frame), NEW e \in Frame
  PROVE  /\ Append(f, e) \in Seq(Frame)
         /\ DOMAIN Append(f, e) = DOMAIN f \cup {Len(f) + 1}
         /\ Append(f, e)[Len(f) + 1] = e
         /\ \A k \in DOMAIN f : Append(f, e)[k] = f[k]
<1>1. Len(f) \in Nat /\ DOMAIN f = 1 .. Len(f)
  BY LenProperties
<1>2. /\ Append(f, e) \in Seq(Frame)
      /\ Len(Append(f, e)) = Len(f) + 1
      /\ \A i \in 1 .. Len(f) : Append(f, e)[i] = f[i]
      /\ Append(f, e)[Len(f) + 1] = e
  BY AppendProperties
<1>3. DOMAIN Append(f, e) = 1 .. Len(f) + 1
  BY <1>2, LenProperties
<1> QED
  BY <1>1, <1>2, <1>3

(* The calls when the innermost one takes a child off what it has left.    *)
LEMMA FramesChild ==
  ASSUME NEW f \in Seq(Frame), f # <<>>, NEW c,
         NEW g, g = [f EXCEPT ![Len(f)].left = @ \ {c}]
  PROVE  /\ g \in Seq(Frame)
         /\ DOMAIN g = DOMAIN f
         /\ g[Len(f)].object = f[Len(f)].object
         /\ g[Len(f)].left = f[Len(f)].left \ {c}
         /\ \A k \in DOMAIN f \ {Len(f)} : g[k] = f[k]
<1> DEFINE e == [f[Len(f)] EXCEPT !.left = @ \ {c}]
<1>1. Len(f) \in DOMAIN f /\ f[Len(f)] \in Frame /\ DOMAIN f = 1 .. Len(f)
  BY FramesTop, LenProperties
<1>2. /\ e \in Frame
      /\ e.object = f[Len(f)].object /\ e.left = f[Len(f)].left \ {c}
  BY <1>1 DEF Frame
<1>3. g = [f EXCEPT ![Len(f)] = e]
  OBVIOUS
<1>4. g \in Seq(Frame)
  BY <1>1, <1>2, <1>3, ExceptSeq
<1>5. g[Len(f)] = e /\ DOMAIN g = DOMAIN f
  BY <1>1, <1>3
<1>6. \A k \in DOMAIN f \ {Len(f)} : g[k] = f[k]
  BY <1>1, <1>3
<1> QED
  BY <1>2, <1>4, <1>5, <1>6

(* Every reachable state is well typed.                                    *)
THEOREM TypeCorrect == Spec => []TypeOK
<1>1. Init => TypeOK
  BY SnapshotAssumption, EmptySeq DEF Init, TypeOK
<1>2. TypeOK /\ [Next]_vars => TypeOK'
  <2> SUFFICES ASSUME TypeOK, [Next]_vars PROVE TypeOK'
    OBVIOUS
  <2> USE DEF TypeOK
  <2>0. ASSUME UNCHANGED heap PROVE Heaps'
    BY <2>0 DEF heap, Heaps
  <2>1. CASE MarkAgain
    <3>1. Heaps'
      BY <2>0, <2>1 DEF MarkAgain
    <3>2. parents' \in [Objects -> SUBSET (Objects \cup {None})]
      BY <2>1 DEF MarkAgain, Remembers
    <3>3. called' \in [object : Objects \cup {None}, parent : Objects \cup {None}]
      BY <2>1 DEF MarkAgain, NoCall
    <3> QED
      BY <2>1, <3>1, <3>2, <3>3 DEF MarkAgain
  <2>2. CASE MarkNew
    <3>1. Heaps'
      BY <2>0, <2>2 DEF MarkNew, Children
    <3>2. called.object \in Objects
      BY <2>2 DEF MarkNew, Children
    <3>3. Visited(called.object) \subseteq Objects
      BY <3>2 DEF Visited, Heaps
    <3>4. frames' \in Seq(Frame)
      BY <2>2, <3>2, <3>3, FramesPush DEF MarkNew, Children, Frame
    <3>5. parents' \in [Objects -> SUBSET (Objects \cup {None})]
      BY <2>2, <3>2 DEF MarkNew, Children
    <3> QED
      BY <2>2, <3>1, <3>2, <3>4, <3>5 DEF MarkNew, Children, NoCall
  <2>3. CASE MarkChild
    <3>1. Heaps'
      BY <2>0, <2>3 DEF MarkChild
    <3>2. Top \in Frame
      BY <2>3, FramesTop DEF MarkChild, Top
    <3>3. PICK child \in Top.left :
             /\ called' = [object |-> child, parent |-> Top.object]
             /\ frames' = [frames EXCEPT ![Len(frames)].left = @ \ {child}]
      BY <2>3 DEF MarkChild
    <3>4. frames' \in Seq(Frame)
      BY <2>3, <3>3, FramesChild DEF MarkChild
    <3>5. called' \in [object : Objects \cup {None}, parent : Objects \cup {None}]
      BY <3>2, <3>3 DEF Frame
    <3>6. UNCHANGED <<marked, recorded, parents, source>>
      BY <2>3 DEF MarkChild, scratch
    <3> QED
      BY <3>1, <3>4, <3>5, <3>6
  <2>4. CASE MarkReturns
    <3>1. Heaps'
      BY <2>0, <2>4 DEF MarkReturns
    <3>2. Top \in Frame
      BY <2>4, FramesTop DEF MarkReturns, Top
    <3>3. frames' \in Seq(Frame)
      BY <2>4, FramesTop DEF MarkReturns, PopsFrame
    <3>4. recorded' \subseteq Objects
      BY <2>4 DEF MarkReturns, Dropped
    <3>5. source' \subseteq Objects
      BY <2>4, <3>2 DEF MarkReturns, SourceOf, Frame
    <3>6. UNCHANGED <<called, marked, parents>>
      BY <2>4 DEF MarkReturns
    <3> QED
      BY <3>1, <3>3, <3>4, <3>5, <3>6
  <2>5. CASE GenResult
    BY <2>0, <2>5 DEF GenResult, scratch
  <2>6. CASE UNCHANGED vars
    BY <2>0, <2>6 DEF vars, scratch
  <2> QED
    BY <2>1, <2>2, <2>3, <2>4, <2>5, <2>6 DEF Next
<1> QED
  BY <1>1, <1>2, PTL DEF Spec

(* The heap is what it was: so are the children and what is alive.         *)
LEMMA HeapFixed ==
  ASSUME UNCHANGED heap
  PROVE  /\ \A o : Visited(o)' = Visited(o)
         /\ \A o : Alive(o)' = Alive(o)
         /\ kind' = kind
<1>1. UNCHANGED <<kind, refs, keys, values, mode>>
  BY DEF heap
<1>2. \A o : Visited(o)' = Visited(o)
  BY <1>1 DEF Visited
<1>3. \A S : Closed(S)' = Closed(S)
  BY <1>2 DEF Closed
<1>4. \A o : Alive(o)' = Alive(o)
  BY <1>3 DEF Alive
<1> QED
  BY <1>1, <1>2, <1>4

(* The registry is alive, and so is all that something alive refers to.    *)
LEMMA AliveClosed ==
  /\ Alive(Registry)
  /\ \A p, o : Alive(p) /\ o \in Visited(p) => Alive(o)
BY DEF Alive, Closed

LEMMA VisitedObjects ==
  ASSUME TypeOK
  PROVE  \A p \in Objects : Visited(p) \subseteq Objects
BY DEF TypeOK, Heaps, Visited

LEMMA AgainKeepsInv ==
  ASSUME TypeOK, WalkInv, MarkAgain
  PROVE  WalkInv'
<1>0. PICK o0 : o0 = called.object
  OBVIOUS
<1>1. /\ o0 \in marked /\ o0 # None /\ o0 \in Objects
      /\ called'.object = None
      /\ UNCHANGED <<frames, marked, recorded, source, result, heap>>
  BY <1>0 DEF MarkAgain, TypeOK, NoCall
<1>2. /\ \A o : Visited(o)' = Visited(o)
      /\ \A o : Alive(o)' = Alive(o)
      /\ kind' = kind
  BY <1>1, HeapFixed
<1>3. /\ parents \in [Objects -> SUBSET (Objects \cup {None})]
      /\ \A o \in Objects : parents'[o] =
            IF o = o0 /\ o0 \in recorded THEN parents[o] \cup {called.parent}
            ELSE parents[o]
  BY <1>0, <1>1 DEF MarkAgain, Remembers, TypeOK
<1>4. marked \subseteq Objects /\ recorded \subseteq Objects
  BY DEF TypeOK
<1>5. HandsAlive'
  BY <1>1, <1>2 DEF WalkInv, HandsAlive
<1>6. \A p, o : Pending(p, o) => Pending(p, o)' \/ (o = o0 /\ p = called.parent)
  BY <1>0, <1>1 DEF Pending
<1>7. NothingForgotten'
  BY <1>0, <1>1, <1>2, <1>6 DEF WalkInv, NothingForgotten
<1>8. EntriesKept'
  <2>1. \A o \in marked' : kind'[o] # "lightc" => o \in recorded'
    BY <1>1, <1>2 DEF WalkInv, EntriesKept
  <2>2. \A o \in recorded' : kind'[o] = "lightc" =>
           \E k \in DOMAIN frames' : frames'[k].object = o
    BY <1>1, <1>2 DEF WalkInv, EntriesKept
  <2>3. recorded' \subseteq marked'
    BY <1>1 DEF WalkInv, EntriesKept
  <2>4. \A o \in Objects \ marked' : parents'[o] = {}
    BY <1>1, <1>3 DEF WalkInv, EntriesKept
  <2>5. ASSUME NEW o \in recorded', NEW p \in parents'[o] \ {None}
        PROVE  p \in marked' /\ o \in Visited(p)'
    <3>1. o \in Objects
      BY <1>1, <1>4
    <3>2. CASE o = o0 /\ p = called.parent
      <4>1. p \in marked /\ o \in Visited(p)
        BY <1>0, <1>1, <2>5, <3>2 DEF WalkInv, HandsAlive
      <4> QED
        BY <1>1, <1>2, <4>1
    <3>3. CASE o \in recorded /\ p \in parents[o]
      <4>1. p \in marked /\ o \in Visited(p)
        BY <2>5, <3>3 DEF WalkInv, EntriesKept
      <4> QED
        BY <1>1, <1>2, <4>1
    <3> QED
      BY <1>1, <1>3, <2>5, <3>1, <3>2, <3>3
  <2>6. ASSUME NEW p \in marked, NEW o \in Visited(p)
        PROVE  kind[o] = "lightc" \/ p \in parents'[o] \/ Pending(p, o)'
    <3>1. o \in Objects
      BY <1>4, <2>6, VisitedObjects
    <3>2. kind[o] = "lightc" \/ p \in parents[o] \/ Pending(p, o)
      BY <2>6 DEF WalkInv, EntriesKept
    <3>3. o = o0 /\ kind[o] # "lightc" => o0 \in recorded
      BY <1>1 DEF WalkInv, EntriesKept
    <3> QED
      BY <1>3, <1>6, <3>1, <3>2, <3>3
  <2>7. \A p \in marked' : \A o \in Visited(p)' :
           kind'[o] = "lightc" \/ p \in parents'[o] \/ Pending(p, o)'
    BY <1>1, <1>2, <2>6
  <2> QED
    BY <2>1, <2>2, <2>3, <2>4, <2>5, <2>7 DEF EntriesKept
<1>9. SourcesKept'
  BY <1>1, <1>2 DEF WalkInv, SourcesKept
<1>10. ResultLast'
  BY <1>0, <1>1 DEF WalkInv, ResultLast
<1> QED
  BY <1>5, <1>7, <1>8, <1>9, <1>10 DEF WalkInv

LEMMA NewKeepsInv ==
  ASSUME TypeOK, WalkInv, MarkNew
  PROVE  WalkInv'
<1>0. PICK o0, n : o0 = called.object /\ n = Len(frames) + 1
  OBVIOUS
<1>1. /\ o0 \notin marked /\ o0 # None /\ o0 \in Objects
      /\ called'.object = None
      /\ marked' = marked \cup {o0} /\ recorded' = recorded \cup {o0}
      /\ UNCHANGED <<source, result, heap>>
  BY <1>0 DEF MarkNew, Children, TypeOK, NoCall
<1>2. /\ \A o : Visited(o)' = Visited(o)
      /\ \A o : Alive(o)' = Alive(o)
      /\ kind' = kind
  BY <1>1, HeapFixed
<1>3. /\ parents \in [Objects -> SUBSET (Objects \cup {None})]
      /\ \A o \in Objects : parents'[o] =
            IF o = o0 THEN {called.parent} ELSE parents[o]
  BY <1>0, <1>1 DEF MarkNew, Children, TypeOK
<1>4. marked \subseteq Objects /\ recorded \subseteq Objects
  BY DEF TypeOK
<1>5. /\ DOMAIN frames' = DOMAIN frames \cup {n}
      /\ frames'[n] = [object |-> o0, left |-> Visited(o0)]
      /\ \A k \in DOMAIN frames : frames'[k] = frames[k]
  <2>1. [object |-> o0, left |-> Visited(o0)] \in Frame
    BY <1>1, VisitedObjects DEF Frame
  <2> QED
    BY <1>0, <2>1, FramesPush DEF MarkNew, Children, TypeOK
<1>6. HandsAlive'
  <2>1. Alive(o0)
    BY <1>0, <1>1 DEF WalkInv, HandsAlive
  <2>2. \A k \in DOMAIN frames' : /\ frames'[k].object \in marked'
                                  /\ frames'[k].left \subseteq Visited(frames'[k].object)
    BY <1>1, <1>5 DEF WalkInv, HandsAlive
  <2>3. \A o \in marked' : Alive(o)'
    BY <1>1, <1>2, <2>1 DEF WalkInv, HandsAlive
  <2> QED
    BY <1>1, <1>2, <2>2, <2>3 DEF HandsAlive
<1>7. \A p, o : Pending(p, o) => Pending(p, o)' \/ (o = o0 /\ p = called.parent)
  BY <1>0, <1>1, <1>5 DEF Pending
<1>8. \A o \in Visited(o0) : Pending(o0, o)'
  BY <1>5 DEF Pending
<1>9. NothingForgotten'
  <2>1. Registry \in marked'
    BY <1>0, <1>1 DEF WalkInv, NothingForgotten
  <2>2. \A p \in marked' : \A o \in Visited(p) : o \in marked' \/ Pending(p, o)'
    BY <1>1, <1>7, <1>8 DEF WalkInv, NothingForgotten
  <2> QED
    BY <1>2, <2>1, <2>2 DEF NothingForgotten
<1>10. EntriesKept'
  <2>1. \A o \in marked' : kind'[o] # "lightc" => o \in recorded'
    BY <1>1, <1>2 DEF WalkInv, EntriesKept
  <2>2. \A o \in recorded' : kind'[o] = "lightc" =>
           \E k \in DOMAIN frames' : frames'[k].object = o
    BY <1>1, <1>2, <1>5 DEF WalkInv, EntriesKept
  <2>3. recorded' \subseteq marked'
    BY <1>1 DEF WalkInv, EntriesKept
  <2>4. \A o \in Objects \ marked' : parents'[o] = {}
    BY <1>1, <1>3 DEF WalkInv, EntriesKept
  <2>5. ASSUME NEW o \in recorded', NEW p \in parents'[o] \ {None}
        PROVE  p \in marked' /\ o \in Visited(p)'
    <3>1. o \in Objects
      BY <1>1, <1>4
    <3>2. CASE o = o0 /\ p = called.parent
      <4>1. p \in marked /\ o \in Visited(p)
        BY <1>0, <1>1, <2>5, <3>2 DEF WalkInv, HandsAlive
      <4> QED
        BY <1>1, <1>2, <4>1
    <3>3. CASE o \in recorded /\ p \in parents[o]
      <4>1. p \in marked /\ o \in Visited(p)
        BY <2>5, <3>3 DEF WalkInv, EntriesKept
      <4> QED
        BY <1>1, <1>2, <4>1
    <3> QED
      BY <1>1, <1>3, <2>5, <3>1, <3>2, <3>3
  <2>6. ASSUME NEW p \in marked', NEW o \in Visited(p)
        PROVE  kind[o] = "lightc" \/ p \in parents'[o] \/ Pending(p, o)'
    <3>1. o \in Objects
      BY <1>1, <1>4, <2>6, VisitedObjects
    <3>2. CASE p = o0
      BY <1>8, <2>6, <3>2
    <3>3. CASE p \in marked
      <4>1. kind[o] = "lightc" \/ p \in parents[o] \/ Pending(p, o)
        BY <2>6, <3>3 DEF WalkInv, EntriesKept
      <4>2. parents[o0] = {}
        BY <1>1 DEF WalkInv, EntriesKept
      <4> QED
        BY <1>3, <1>7, <3>1, <4>1, <4>2
    <3> QED
      BY <1>1, <3>2, <3>3
  <2>7. \A p \in marked' : \A o \in Visited(p)' :
           kind'[o] = "lightc" \/ p \in parents'[o] \/ Pending(p, o)'
    BY <1>2, <2>6
  <2> QED
    BY <2>1, <2>2, <2>3, <2>4, <2>5, <2>7 DEF EntriesKept
<1>11. SourcesKept'
  BY <1>1, <1>2, <1>5 DEF WalkInv, SourcesKept
<1>12. ResultLast'
  BY <1>0, <1>1 DEF WalkInv, ResultLast
<1> QED
  BY <1>6, <1>9, <1>10, <1>11, <1>12 DEF WalkInv

LEMMA ChildKeepsInv ==
  ASSUME TypeOK, WalkInv, MarkChild
  PROVE  WalkInv'
<1>0. PICK n, c, t : /\ n = Len(frames) /\ t = Top.object /\ c \in Top.left
                     /\ called' = [object |-> c, parent |-> t]
                     /\ frames' = [frames EXCEPT ![n].left = @ \ {c}]
  BY DEF MarkChild
<1>1. /\ called.object = None
      /\ UNCHANGED <<marked, recorded, parents, source, result, heap>>
  BY DEF MarkChild, scratch
<1>2. /\ \A o : Visited(o)' = Visited(o)
      /\ \A o : Alive(o)' = Alive(o)
      /\ kind' = kind
  BY <1>1, HeapFixed
<1>3. marked \subseteq Objects /\ recorded \subseteq Objects
  BY DEF TypeOK
<1>4. /\ n \in DOMAIN frames
      /\ frames[n].object = t /\ c \in frames[n].left
      /\ DOMAIN frames' = DOMAIN frames
      /\ frames'[n].object = t
      /\ frames'[n].left = frames[n].left \ {c}
      /\ \A k \in DOMAIN frames \ {n} : frames'[k] = frames[k]
  <2>1. frames \in Seq(Frame) /\ frames # <<>>
    BY DEF TypeOK, MarkChild
  <2> QED
    BY <1>0, <2>1, FramesTop, FramesChild DEF Top
<1>5. t \in marked /\ c \in Visited(t) /\ Alive(c) /\ c \in Objects /\ t \in Objects
  <2>1. t \in marked /\ c \in Visited(t)
    BY <1>4 DEF WalkInv, HandsAlive
  <2>2. Alive(t)
    BY <2>1 DEF WalkInv, HandsAlive
  <2> QED
    BY <1>3, <2>1, <2>2, AliveClosed, VisitedObjects
<1>6. HandsAlive'
  <2>1. called'.object = c /\ called'.parent = t /\ t # None
    BY <1>0, <1>5, SnapshotAssumption
  <2>2. \A k \in DOMAIN frames' : /\ frames'[k].object \in marked'
                                  /\ frames'[k].left \subseteq Visited(frames'[k].object)
    BY <1>1, <1>4 DEF WalkInv, HandsAlive
  <2>3. \A o \in marked' : Alive(o)'
    BY <1>1, <1>2 DEF WalkInv, HandsAlive
  <2> QED
    BY <1>1, <1>2, <1>5, <2>1, <2>2, <2>3 DEF HandsAlive
<1>7. \A p : \A o \in Objects : Pending(p, o) => Pending(p, o)'
  <2>1. \A o \in Objects : called.object # o
    BY <1>1, SnapshotAssumption
  <2> QED
    BY <1>0, <1>4, <2>1 DEF Pending
<1>8. NothingForgotten'
  <2>1. Registry \in marked'
    BY <1>1, SnapshotAssumption DEF WalkInv, NothingForgotten
  <2>2. \A p \in marked' : \A o \in Visited(p) : o \in marked' \/ Pending(p, o)'
    BY <1>1, <1>3, <1>7, VisitedObjects DEF WalkInv, NothingForgotten
  <2> QED
    BY <1>2, <2>1, <2>2 DEF NothingForgotten
<1>9. \A k \in DOMAIN frames : k \in DOMAIN frames' /\ frames'[k].object = frames[k].object
  BY <1>4
<1>10. EntriesKept'
  <2>1. \A o \in recorded' : kind'[o] = "lightc" =>
           \E k \in DOMAIN frames' : frames'[k].object = o
    BY <1>1, <1>2, <1>9 DEF WalkInv, EntriesKept
  <2>2. \A p \in marked' : \A o \in Visited(p)' :
           kind'[o] = "lightc" \/ p \in parents'[o] \/ Pending(p, o)'
    BY <1>1, <1>2, <1>3, <1>7, VisitedObjects DEF WalkInv, EntriesKept
  <2>3. \A o \in recorded' : \A p \in parents'[o] \ {None} :
           p \in marked' /\ o \in Visited(p)'
    BY <1>1, <1>2 DEF WalkInv, EntriesKept
  <2> QED
    BY <1>1, <1>2, <2>1, <2>2, <2>3 DEF WalkInv, EntriesKept
<1>11. SourcesKept'
  BY <1>1, <1>2, <1>9 DEF WalkInv, SourcesKept
<1>12. ResultLast'
  BY <1>1 DEF WalkInv, ResultLast, MarkChild
<1> QED
  BY <1>6, <1>8, <1>10, <1>11, <1>12 DEF WalkInv

LEMMA ReturnKeepsInv ==
  ASSUME TypeOK, WalkInv, MarkReturns
  PROVE  WalkInv'
<1>0. PICK n, t : n = Len(frames) /\ t = Top.object
  OBVIOUS
<1>1. /\ called.object = None /\ frames # <<>>
      /\ UNCHANGED <<called, marked, parents, result, heap>>
      /\ recorded' = recorded \ Dropped(t)
      /\ source' = source \cup SourceOf(t)
  BY <1>0 DEF MarkReturns
<1>2. /\ \A o : Visited(o)' = Visited(o)
      /\ \A o : Alive(o)' = Alive(o)
      /\ kind' = kind
  BY <1>1, HeapFixed
<1>3. marked \subseteq Objects /\ recorded \subseteq Objects
  BY DEF TypeOK
<1>4. /\ n \in DOMAIN frames
      /\ frames[n].object = t /\ frames[n].left = {}
      /\ DOMAIN frames' = DOMAIN frames \ {n}
      /\ \A k \in DOMAIN frames \ {n} : frames'[k] = frames[k]
  <2>1. frames \in Seq(Frame) /\ frames # <<>>
    BY <1>1 DEF TypeOK
  <2> QED
    BY <1>0, <2>1, FramesTop DEF Top, MarkReturns, PopsFrame
<1>5. HandsAlive'
  <2>1. \A k \in DOMAIN frames' : /\ frames'[k].object \in marked'
                                  /\ frames'[k].left \subseteq Visited(frames'[k].object)
    BY <1>1, <1>4 DEF WalkInv, HandsAlive
  <2>2. \A o \in marked' : Alive(o)'
    BY <1>1, <1>2 DEF WalkInv, HandsAlive
  <2> QED
    BY <1>1, <1>2, <2>1, <2>2 DEF HandsAlive
<1>6. \A p, o : Pending(p, o) => Pending(p, o)'
  BY <1>1, <1>4 DEF Pending
<1>7. NothingForgotten'
  BY <1>1, <1>2, <1>6 DEF WalkInv, NothingForgotten
<1>8. EntriesKept'
  <2>1. \A o \in marked' : kind'[o] # "lightc" => o \in recorded'
    BY <1>1, <1>2 DEF WalkInv, EntriesKept, Dropped
  <2>2. \A o \in recorded' : kind'[o] = "lightc" =>
           \E k \in DOMAIN frames' : frames'[k].object = o
    BY <1>1, <1>2, <1>4 DEF WalkInv, EntriesKept, Dropped
  <2>3. \A p \in marked' : \A o \in Visited(p)' :
           kind'[o] = "lightc" \/ p \in parents'[o] \/ Pending(p, o)'
    BY <1>1, <1>2, <1>6 DEF WalkInv, EntriesKept
  <2>4. \A o \in recorded' : \A p \in parents'[o] \ {None} :
           p \in marked' /\ o \in Visited(p)'
    BY <1>1, <1>2 DEF WalkInv, EntriesKept
  <2> QED
    BY <1>1, <2>1, <2>2, <2>3, <2>4 DEF WalkInv, EntriesKept
<1>9. SourcesKept'
  BY <1>1, <1>2, <1>4 DEF WalkInv, SourcesKept, SourceOf
<1>10. ResultLast'
  BY <1>1 DEF WalkInv, ResultLast
<1> QED
  BY <1>5, <1>7, <1>8, <1>9, <1>10 DEF WalkInv

LEMMA ResultKeepsInv ==
  ASSUME WalkInv, UNCHANGED <<heap, called, frames, scratch>>,
         GenResult \/ UNCHANGED result
  PROVE  WalkInv'
<1>1. UNCHANGED <<called, frames, marked, recorded, parents, source>>
  BY DEF scratch
<1>2. /\ \A o : Visited(o)' = Visited(o)
      /\ \A o : Alive(o)' = Alive(o)
      /\ kind' = kind
  BY HeapFixed
<1>3. HandsAlive'
  BY <1>1, <1>2 DEF WalkInv, HandsAlive
<1>4. NothingForgotten'
  BY <1>1, <1>2 DEF WalkInv, NothingForgotten, Pending
<1>5. EntriesKept'
  BY <1>1, <1>2 DEF WalkInv, EntriesKept, Pending
<1>6. SourcesKept'
  BY <1>1, <1>2 DEF WalkInv, SourcesKept
<1>7. ResultLast'
  BY <1>1 DEF WalkInv, ResultLast, GenResult
<1> QED
  BY <1>3, <1>4, <1>5, <1>6, <1>7 DEF WalkInv

(* What mark_object and its callees keep, at every depth of the recursion: *)
(* the inductive invariant.                                                *)
THEOREM WalkInvariant == Spec => []WalkInv
<1>1. Init => WalkInv
  <2> SUFFICES ASSUME Init PROVE WalkInv
    OBVIOUS
  <2>1. /\ called.object = Registry /\ called.parent = None
        /\ frames = <<>> /\ marked = {} /\ recorded = {} /\ result = <<>>
        /\ parents = [o \in Objects |-> {}]
    BY DEF Init
  <2>2. HandsAlive
    BY <2>1, AliveClosed DEF HandsAlive
  <2>3. NothingForgotten /\ EntriesKept /\ SourcesKept /\ ResultLast
    BY <2>1 DEF NothingForgotten, EntriesKept, SourcesKept, ResultLast
  <2> QED
    BY <2>2, <2>3 DEF WalkInv
<1>2. TypeOK /\ WalkInv /\ [Next]_vars => WalkInv'
  <2> SUFFICES ASSUME TypeOK, WalkInv, [Next]_vars PROVE WalkInv'
    OBVIOUS
  <2>1. CASE GenResult
    BY <2>1, ResultKeepsInv DEF GenResult
  <2>2. CASE UNCHANGED vars
    BY <2>2, ResultKeepsInv DEF vars
  <2> QED
    BY <2>1, <2>2, AgainKeepsInv, NewKeepsInv, ChildKeepsInv, ReturnKeepsInv DEF Next
<1> QED
  BY <1>1, <1>2, TypeCorrect, PTL DEF Spec

LEMMA NothingLeft ==
  ASSUME TypeOK, WalkInv, Finished
  PROVE  /\ \A p : \A o \in Objects : ~Pending(p, o)
         /\ DOMAIN frames = {}
         /\ result[1] = [o \in recorded |-> [source  |-> o \in source,
                                             parents |-> parents[o]]]
<1>1. /\ called.object = None /\ frames = <<>>
      /\ result = <<[o \in recorded |-> [source  |-> o \in source,
                                          parents |-> parents[o]]]>>
  BY DEF WalkInv, ResultLast, Finished
<1>2. DOMAIN frames = {}
  BY <1>1
<1> QED
  BY <1>1, <1>2, SnapshotAssumption DEF Pending

LEMMA FinishedIsAlive ==
  ASSUME TypeOK, WalkInv, Finished
  PROVE  \A o \in Objects : o \in marked <=> Alive(o)
<1>1. marked \subseteq Objects
  BY DEF TypeOK
<1>2. Registry \in marked
  BY SnapshotAssumption DEF WalkInv, NothingForgotten, ResultLast, Finished
<1>3. \A p \in marked : Visited(p) \subseteq marked
  BY <1>1, VisitedObjects, NothingLeft DEF WalkInv, NothingForgotten
<1>4. Closed(marked)
  BY <1>2, <1>3 DEF Closed
<1>5. \A o : Alive(o) => o \in marked
  BY <1>1, <1>4 DEF Alive
<1> QED
  BY <1>5 DEF WalkInv, HandsAlive

(* A finished snapshot has marked exactly what the registry keeps alive.   *)
THEOREM MarkedIsAlive == Spec => []MarksAlive
<1>1. TypeOK /\ WalkInv => MarksAlive
  BY FinishedIsAlive DEF MarksAlive
<1> QED
  BY <1>1, TypeCorrect, WalkInvariant, PTL

(* Its result has every live object but the light C functions, each with   *)
(* all the live objects that refer to it.                                  *)
THEOREM ResultComplete == Spec => []ReferrersComplete
<1>1. ASSUME TypeOK, WalkInv, Finished
      PROVE  /\ DOMAIN result[1] = {o \in Objects : Alive(o) /\ kind[o] # "lightc"}
             /\ \A o \in DOMAIN result[1] :
                   result[1][o].parents \ {None}
                     = {p \in Objects : Alive(p) /\ o \in Visited(p)}
  <2>1. marked \subseteq Objects /\ recorded \subseteq Objects
    BY <1>1 DEF TypeOK
  <2>2. \A o \in Objects : o \in marked <=> Alive(o)
    BY <1>1, FinishedIsAlive
  <2>3. DOMAIN result[1] = recorded
        /\ \A o \in recorded : result[1][o].parents = parents[o]
    BY <1>1, NothingLeft
  <2>4. \A o \in recorded : kind[o] # "lightc"
    BY <1>1, NothingLeft DEF WalkInv, EntriesKept
  <2>5. recorded = {o \in Objects : Alive(o) /\ kind[o] # "lightc"}
    BY <1>1, <2>1, <2>2, <2>4 DEF WalkInv, EntriesKept
  <2>6. ASSUME NEW o \in recorded
        PROVE  parents[o] \ {None} = {p \in Objects : Alive(p) /\ o \in Visited(p)}
    <3>1. \A p \in parents[o] \ {None} : p \in marked /\ o \in Visited(p)
      BY <1>1, <2>6 DEF WalkInv, EntriesKept
    <3>2. \A p \in marked : o \in Visited(p) => p \in parents[o]
      BY <1>1, <2>1, <2>4, <2>6, NothingLeft DEF WalkInv, EntriesKept
    <3> QED
      BY <2>1, <2>2, <3>1, <3>2, SnapshotAssumption
  <2> QED
    BY <2>3, <2>5, <2>6
<1>2. TypeOK /\ WalkInv => ReferrersComplete
  BY <1>1 DEF ReferrersComplete
<1> QED
  BY <1>2, TypeCorrect, WalkInvariant, PTL

(* pdesc finds a source string for every thread of the result.             *)
THEOREM SourcesThere == Spec => []ThreadsHaveSource
<1>1. ASSUME TypeOK, WalkInv, Finished
      PROVE  \A o \in DOMAIN result[1] : kind[o] = "thread" => result[1][o].source
  <2>1. DOMAIN result[1] = recorded
        /\ \A o \in recorded : result[1][o].source = (o \in source)
    BY <1>1, NothingLeft
  <2>2. \A o \in recorded : kind[o] = "thread" => o \in source
    BY <1>1, NothingLeft DEF WalkInv, EntriesKept, SourcesKept
  <2> QED
    BY <2>1, <2>2
<1>2. TypeOK /\ WalkInv => ThreadsHaveSource
  BY <1>1 DEF ThreadsHaveSource
<1> QED
  BY <1>2, TypeCorrect, WalkInvariant, PTL

-----------------------------------------------------------------------------
(* The walk comes to an end: with every step less of it is left.           *)

(* The visits to come: from an object to one that it refers to.            *)
Ahead == {e \in Objects \X Objects :
            \/ e[1] \notin marked
            \/ \E k \in DOMAIN frames : frames[k].object = e[1] /\ e[2] \in frames[k].left}

(* A bound on the steps left.  A visit to come counts twice, for it leaves *)
(* a call behind; so does an object to enter, for it leaves a frame.       *)
One(condition) == IF condition THEN 1 ELSE 0

Work == 2 * Cardinality(Ahead) + 2 * Cardinality(Objects \ marked) + Len(frames)
          + One(called.object # None) + One(result = <<>>)

(* The recursion is never in the same object twice.                        *)
OneCallEach ==
    \A k, l \in DOMAIN frames : frames[k].object = frames[l].object => k = l

LEMMA OneCallStep ==
  ASSUME TypeOK, WalkInv, OneCallEach, [Next]_vars
  PROVE  OneCallEach'
<1>1. CASE MarkNew
  <2> DEFINE new == [object |-> called.object, left |-> Children(called.object)]
  <2>1. called.object \in Objects /\ called.object \notin marked /\ frames' = Append(frames, new)
    BY <1>1 DEF MarkNew, TypeOK
  <2>2. new \in Frame /\ new.object = called.object
    BY <2>1, VisitedObjects DEF Children, Frame
  <2> HIDE DEF new
  <2>3. /\ DOMAIN frames' = DOMAIN frames \cup {Len(frames) + 1}
        /\ frames'[Len(frames) + 1] = new
        /\ \A k \in DOMAIN frames : frames'[k] = frames[k]
    BY <2>1, <2>2, FramesPush DEF TypeOK
  <2>4. \A k \in DOMAIN frames : frames[k].object # called.object
    BY <2>1 DEF WalkInv, HandsAlive
  <2> QED
    BY <2>2, <2>3, <2>4 DEF OneCallEach
<1>2. CASE MarkChild
  <2>1. PICK child : frames' = [frames EXCEPT ![Len(frames)].left = @ \ {child}]
    BY <1>2 DEF MarkChild
  <2>2. /\ frames \in Seq(Frame) /\ frames # <<>>
    BY <1>2 DEF MarkChild, TypeOK
  <2>3. /\ DOMAIN frames' = DOMAIN frames
        /\ frames'[Len(frames)].object = frames[Len(frames)].object
        /\ \A k \in DOMAIN frames \ {Len(frames)} : frames'[k] = frames[k]
    BY <2>1, <2>2, FramesChild
  <2>4. \A k \in DOMAIN frames : frames'[k].object = frames[k].object
    BY <2>3
  <2> QED
    BY <2>3, <2>4 DEF OneCallEach
<1>3. CASE MarkReturns
  <2>1. /\ frames \in Seq(Frame) /\ frames # <<>>
        /\ frames' = SubSeq(frames, 1, Len(frames) - 1)
    BY <1>3 DEF MarkReturns, PopsFrame, TypeOK
  <2>2. /\ DOMAIN frames' \subseteq DOMAIN frames
        /\ \A k \in DOMAIN frames' : frames'[k] = frames[k]
    BY <2>1, FramesTop
  <2> QED
    BY <2>2 DEF OneCallEach
<1>4. CASE MarkAgain \/ GenResult \/ UNCHANGED vars
  BY <1>4 DEF OneCallEach, MarkAgain, GenResult, vars
<1> QED
  BY <1>1, <1>2, <1>3, <1>4 DEF Next

LEMMA CountedSets ==
  ASSUME IsFiniteSet(Objects), TypeOK
  PROVE  /\ IsFiniteSet(Ahead) /\ Cardinality(Ahead) \in Nat
         /\ IsFiniteSet(Objects \ marked) /\ Cardinality(Objects \ marked) \in Nat
         /\ Len(frames) \in Nat
         /\ Work \in Nat
<1>1. IsFiniteSet(Objects \X Objects) /\ Ahead \subseteq Objects \X Objects
  BY FS_Product DEF Ahead
<1>2. IsFiniteSet(Ahead) /\ Cardinality(Ahead) \in Nat
  BY <1>1, FS_Subset, FS_CardinalityType
<1>3. IsFiniteSet(Objects \ marked) /\ Cardinality(Objects \ marked) \in Nat
  BY FS_Difference, FS_CardinalityType
<1>4. Len(frames) \in Nat
  BY LenProperties DEF TypeOK
<1> QED
  BY <1>2, <1>3, <1>4 DEF Work, One

LEMMA WorkShrinks ==
  ASSUME IsFiniteSet(Objects), TypeOK, TypeOK', WalkInv, OneCallEach, Next
  PROVE  Work' < Work
<1>1. /\ Cardinality(Ahead) \in Nat /\ Cardinality(Objects \ marked) \in Nat
      /\ Len(frames) \in Nat
      /\ Cardinality(Ahead)' \in Nat /\ Cardinality(Objects \ marked)' \in Nat
      /\ Len(frames)' \in Nat
  <2>1. (Cardinality(Ahead) \in Nat)' /\ (Cardinality(Objects \ marked) \in Nat)'
        /\ (Len(frames) \in Nat)'
    BY CountedSets, PTL
  <2> QED
    BY <2>1, CountedSets
<1>2. PICK a \in Nat, u \in Nat, n \in Nat, c \in Nat, r \in Nat :
         /\ a = Cardinality(Ahead) /\ u = Cardinality(Objects \ marked)
         /\ n = Len(frames)
         /\ c = One(called.object # None) /\ r = One(result = <<>>)
  BY <1>1 DEF One
<1>3. PICK a1 \in Nat, u1 \in Nat, n1 \in Nat, c1 \in Nat, r1 \in Nat :
         /\ a1 = Cardinality(Ahead)' /\ u1 = Cardinality(Objects \ marked)'
         /\ n1 = Len(frames)'
         /\ c1 = One(called.object # None)' /\ r1 = One(result = <<>>)'
  BY <1>1 DEF One
<1>4. Work = 2 * a + 2 * u + n + c + r /\ Work' = 2 * a1 + 2 * u1 + n1 + c1 + r1
  BY <1>2, <1>3 DEF Work
<1> USE <1>2, <1>3
<1>5. CASE MarkAgain
  <2>1. a1 = a /\ u1 = u /\ n1 = n /\ r1 = r
    BY <1>5 DEF MarkAgain, Ahead
  <2>2. c = 1 /\ c1 = 0
    BY <1>5 DEF MarkAgain, NoCall, One
  <2> HIDE <1>2, <1>3
  <2> QED
    BY <1>4, <2>1, <2>2
<1>6. CASE MarkNew
  <2> DEFINE o == called.object
             new == [object |-> o, left |-> Children(o)]
  <2>1. /\ o \in Objects /\ o \notin marked /\ marked' = marked \cup {o}
        /\ frames' = Append(frames, new) /\ result' = result /\ called' = NoCall
    BY <1>6 DEF MarkNew, TypeOK
  <2>2. c = 1 /\ c1 = 0 /\ r1 = r
    BY <1>6, <2>1 DEF NoCall, One, MarkNew
  <2> HIDE DEF o
  <2>3. u1 = u - 1
    <3>1. Objects \ marked' = (Objects \ marked) \ {o} /\ o \in Objects \ marked
      BY <2>1
    <3>2. Cardinality((Objects \ marked) \ {o}) = Cardinality(Objects \ marked) - 1
      BY <3>1, CountedSets, FS_RemoveElement
    <3> QED
      BY <3>1, <3>2
  <2>4. new \in Frame /\ new.object = o
    BY <2>1, VisitedObjects DEF Children, Frame
  <2> HIDE DEF new
  <2>5. /\ n1 = n + 1
        /\ DOMAIN frames' = DOMAIN frames \cup {Len(frames) + 1}
        /\ frames'[Len(frames) + 1] = new
        /\ \A k \in DOMAIN frames : frames'[k] = frames[k]
    BY <2>1, <2>4, FramesPush, AppendProperties DEF TypeOK
  <2>6. a1 <= a
    <3>1. Ahead' \subseteq Ahead
      <4> SUFFICES ASSUME NEW e \in Objects \X Objects,
                          \/ e[1] \notin marked'
                          \/ \E k \in DOMAIN frames' : /\ frames'[k].object = e[1]
                                                       /\ e[2] \in frames'[k].left
                   PROVE  \/ e[1] \notin marked
                          \/ \E k \in DOMAIN frames : /\ frames[k].object = e[1]
                                                      /\ e[2] \in frames[k].left
        BY DEF Ahead
      <4> QED
        BY <2>1, <2>4, <2>5
    <3>2. Cardinality(Ahead') <= Cardinality(Ahead)
      <4> HIDE <1>2, <1>3
      <4> QED
        BY <3>1, CountedSets, FS_Subset
    <3> QED
      BY <3>2
  <2> HIDE <1>2, <1>3
  <2> QED
    BY <1>4, <2>2, <2>3, <2>5, <2>6
<1>7. CASE MarkChild
  <2>1. PICK child \in Top.left :
           /\ called' = [object |-> child, parent |-> Top.object]
           /\ frames' = [frames EXCEPT ![Len(frames)].left = @ \ {child}]
    BY <1>7 DEF MarkChild
  <2>2. /\ frames \in Seq(Frame) /\ frames # <<>> /\ called.object = None
        /\ marked' = marked /\ result' = result
    BY <1>7 DEF MarkChild, TypeOK, scratch
  <2>3. /\ Len(frames) \in DOMAIN frames /\ frames[Len(frames)] \in Frame
        /\ DOMAIN frames' = DOMAIN frames /\ frames' \in Seq(Frame)
        /\ frames'[Len(frames)].object = frames[Len(frames)].object
        /\ frames'[Len(frames)].left = frames[Len(frames)].left \ {child}
        /\ \A k \in DOMAIN frames \ {Len(frames)} : frames'[k] = frames[k]
    <3> HIDE <1>2, <1>3
    <3>1. Len(frames) \in DOMAIN frames /\ frames[Len(frames)] \in Frame
      BY <2>2, FramesTop
    <3>2. frames' = [frames EXCEPT ![Len(frames)].left = @ \ {child}]
      BY <2>1
    <3>3. frames \in Seq(Frame) /\ frames # <<>>
      BY <2>2
    <3>4. /\ DOMAIN frames' = DOMAIN frames
          /\ frames'[Len(frames)].object = frames[Len(frames)].object
          /\ frames'[Len(frames)].left = frames[Len(frames)].left \ {child}
          /\ \A k \in DOMAIN frames \ {Len(frames)} : frames'[k] = frames[k]
      BY <3>2, <3>3, FramesChild
    <3>5. frames' \in Seq(Frame)
      BY <3>2, <3>3, FramesChild
    <3> QED
      BY <3>1, <3>4, <3>5
  <2>4. n1 = n /\ u1 = u /\ r1 = r /\ c = 0
    BY <2>2, <2>3, LenProperties DEF One
  <2>5. c1 = 1
    <3>1. child \in Objects
      BY <2>1, <2>3 DEF Top, Frame
    <3> QED
      BY <2>1, <3>1, SnapshotAssumption DEF One
  <2>6. a1 <= a - 1
    <3> DEFINE e == <<Top.object, child>>
    <3>1. e \in Ahead
      BY <2>1, <2>3 DEF Ahead, Top, Frame
    <3>2. Top.object \in marked
      BY <2>3 DEF Top, WalkInv, HandsAlive
    <3>3. e \notin Ahead'
      BY <2>2, <2>3, <3>2 DEF Ahead, Top, OneCallEach
    <3>4. Ahead' \subseteq Ahead
      BY <2>2, <2>3 DEF Ahead
    <3> HIDE DEF e
    <3>5. Ahead' \subseteq Ahead \ {e}
      BY <3>3, <3>4
    <3>6. IsFiniteSet(Ahead \ {e}) /\ Cardinality(Ahead \ {e}) = Cardinality(Ahead) - 1
      BY <3>1, CountedSets, FS_RemoveElement
    <3>7. Cardinality(Ahead') <= Cardinality(Ahead \ {e})
      <4> HIDE <1>2, <1>3
      <4> QED
        BY <3>5, <3>6, FS_Subset
    <3> QED
      BY <3>6, <3>7
  <2> HIDE <1>2, <1>3
  <2> QED
    BY <1>4, <2>4, <2>5, <2>6
<1>8. CASE MarkReturns
  <2>1. /\ frames \in Seq(Frame) /\ frames # <<>>
        /\ frames' = SubSeq(frames, 1, Len(frames) - 1)
        /\ called' = called /\ marked' = marked /\ result' = result
    BY <1>8 DEF MarkReturns, PopsFrame, TypeOK
  <2>2. /\ DOMAIN frames' = DOMAIN frames \ {Len(frames)}
        /\ \A k \in DOMAIN frames' : frames'[k] = frames[k]
        /\ Len(frames) \in DOMAIN frames
    BY <2>1, FramesTop
  <2>3. n1 = n - 1
    <3>1. frames' \in Seq(Frame)
      BY <2>1, FramesTop
    <3>2. DOMAIN frames = 1 .. n /\ DOMAIN frames' = 1 .. n1
      BY <2>1, <3>1, LenProperties
    <3> HIDE <1>2, <1>3
    <3>3. n \in 1 .. n /\ 1 .. n1 = (1 .. n) \ {n}
      BY <2>2, <3>2, <1>2
    <3>4. n1 < n
      <4>1. n \notin 1 .. n1
        BY <3>3
      <4> QED
        BY <3>3, <4>1
    <3>5. n - 1 <= n1
      <4>1. CASE n = 1
        BY <4>1
      <4>2. CASE n # 1
        <5>1. n - 1 \in (1 .. n) \ {n}
          BY <3>3, <4>2
        <5>2. n - 1 \in 1 .. n1
          BY <3>3, <5>1
        <5> QED
          BY <5>2
      <4> QED
        BY <4>1, <4>2
    <3> QED
      BY <3>4, <3>5
  <2>4. u1 = u /\ c1 = c /\ r1 = r
    BY <2>1
  <2>5. a1 <= a
    <3>1. Ahead' \subseteq Ahead
      BY <2>1, <2>2 DEF Ahead
    <3>2. Cardinality(Ahead') <= Cardinality(Ahead)
      <4> HIDE <1>2, <1>3
      <4> QED
        BY <3>1, CountedSets, FS_Subset
    <3> QED
      BY <3>2
  <2> HIDE <1>2, <1>3
  <2> QED
    BY <1>4, <2>3, <2>4, <2>5
<1>9. CASE GenResult
  <2>1. a1 = a /\ u1 = u /\ n1 = n /\ c1 = c
    BY <1>9 DEF GenResult, Ahead, scratch
  <2>2. r = 1 /\ r1 = 0
    BY <1>9 DEF GenResult, One
  <2> HIDE <1>2, <1>3
  <2> QED
    BY <1>4, <2>1, <2>2
<1> QED
  BY <1>5, <1>6, <1>7, <1>8, <1>9 DEF Next

(* mark_object goes round in no cycle of the heap for ever                 *)
(* (snapshot.c:308): each step leaves less to do than there was, so a walk *)
(* takes no more steps than Work says at its start.                        *)
THEOREM WalkEnds ==
  ASSUME IsFiniteSet(Objects)
  PROVE  Spec => [][Work' < Work]_vars /\ [](Work \in Nat)
<1>1. Init => OneCallEach
  BY EmptySeq DEF Init, OneCallEach
<1>2. TypeOK /\ WalkInv /\ OneCallEach /\ [Next]_vars => OneCallEach'
  BY OneCallStep
<1>3. TypeOK /\ TypeOK' /\ WalkInv /\ OneCallEach /\ [Next]_vars => [Work' < Work]_vars
  BY WorkShrinks
<1>4. TypeOK => Work \in Nat
  BY CountedSets
<1> QED
  BY <1>1, <1>2, <1>3, <1>4, TypeCorrect, WalkInvariant, PTL DEF Spec

=============================================================================
