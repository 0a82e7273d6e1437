----------------------------- MODULE MCSnapshot -----------------------------
(* Snapshot on heaps of three objects: the registry, a table that may be   *)
(* weak, and an object of any kind but a table.  The registry holds the    *)
(* table, which has one metatable at most; the object is alive if the      *)
(* table keeps it so, and refers to what it likes.                         *)
EXTENDS Snapshot, FiniteSets

CONSTANTS Weak, Other

(* What each object holds, from the sets given for them.                   *)
Holding(ofRegistry, ofWeak, ofOther) ==
    {[o \in Objects |-> CASE o = Registry -> r [] o = Weak -> w [] OTHER -> x] :
        r \in ofRegistry, w \in ofWeak, x \in ofOther}

MCInit ==
    /\ kind \in {[o \in Objects |-> IF o = Other THEN k ELSE "table"] :
                  k \in Kinds \ {"table"}}
    /\ refs \in Holding({{}}, {S \in SUBSET Objects : Cardinality(S) < 2}, SUBSET Objects)
    /\ values \in Holding({{Weak}}, SUBSET Objects, {{}})
    /\ keys \in Holding({{}}, SUBSET (Objects \ {Registry}), {{}})
    /\ mode \in Holding({{}}, SUBSET {"k", "v"}, {{}})
    /\ Init

(* snapshot is one C function that runs until it returns.                  *)
MCFairSpec == MCInit /\ [][Next]_vars /\ WF_vars(Next)
=============================================================================
