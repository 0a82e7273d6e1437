------------------------------ MODULE Snapshot ------------------------------
(* snapshot.c: every object of a Lua state that the registry keeps alive,  *)
(* with the objects that refer to it.  The recursion of mark_object is a   *)
(* sequence of frames, and the tables of the scratch state dL (TABLE,      *)
(* FUNCTION, THREAD, USERDATA, SOURCE and MARK) are functions and sets.    *)
(* Nothing else runs meanwhile: the heap does not change.                  *)
EXTENDS Naturals, Sequences

CONSTANTS Objects,      \* tables, functions, userdata and threads
          Registry,     \* the table the walk starts from
          None

ASSUME SnapshotAssumption == Registry \in Objects /\ None \notin Objects

(* A light C function has no upvalues; a C closure has.                    *)
Kinds == {"table", "userdata", "thread", "function", "cclosure", "lightc"}

VARIABLES kind,         \* the heap: what each object is,
          refs,         \*   its metatable, environment, upvalues, locals,
          keys, values, \*   the keys and values of a table,
          mode,         \*   the weakness of tables (__mode)
          called,       \* the object on top of the stack and its referrer
          frames,       \* the calls under way, innermost last
          marked,       \* MARK
          recorded,     \* the keys of TABLE, FUNCTION, THREAD and USERDATA
          parents,      \* for each of them, the keys of its table
          source,       \* the keys of SOURCE
          result        \* the table returned, <<>> until then

heap == <<kind, refs, keys, values, mode>>
scratch == <<marked, recorded, parents, source>>
vars == <<heap, called, frames, scratch, result>>

Heaps ==
    /\ kind \in [Objects -> Kinds]
    /\ refs \in [Objects -> SUBSET Objects]
    /\ keys \in [Objects -> SUBSET Objects]
    /\ values \in [Objects -> SUBSET Objects]
    /\ mode \in [Objects -> SUBSET {"k", "v"}]
    /\ \A o \in Objects : /\ kind[o] # "table" => keys[o] = {} /\ values[o] = {}
                          /\ mode[o] # {} => kind[o] = "table" /\ refs[o] # {}
    /\ kind[Registry] = "table" /\ mode[Registry] = {}

(* What the walk visits from an object.  The values of a table are left    *)
(* out if it has weak values, its keys if it has weak keys; its metatable  *)
(* never is.                                                               *)
Visited(o) == refs[o] \cup (IF "v" \in mode[o] THEN {} ELSE values[o])
                      \cup (IF "k" \in mode[o] THEN {} ELSE keys[o])

NoCall == [object |-> None, parent |-> None]

(* The walk is called for the registry, with no referrer.                  *)
Init == /\ Heaps
        /\ called = [object |-> Registry, parent |-> None]
        /\ frames = <<>>
        /\ marked = {} /\ recorded = {} /\ source = {}
        /\ parents = [o \in Objects |-> {}]
        /\ result = <<>>

Forgets(p) == parents' = parents

Remembers(p) == parents' = [parents EXCEPT ![p] = @ \cup {called.parent}]

(* readobject for an object seen before: one referrer more, if the object  *)
(* has a table of referrers still.                                         *)
MarkAgain ==
    /\ called.object # None /\ called.object \in marked
    /\ IF called.object \in recorded
       THEN Remembers(called.object)
       ELSE UNCHANGED parents
    /\ called' = NoCall
    /\ UNCHANGED <<heap, frames, marked, recorded, source, result>>

NoKeys(o) == refs[o] \cup values[o]

Held(o) == refs[o] \cup keys[o] \cup values[o]

Children(o) == Visited(o)

(* readobject for a new object; its children are visited next.             *)
MarkNew ==
    /\ called.object # None /\ called.object \notin marked
    /\ marked' = marked \cup {called.object}
    /\ recorded' = recorded \cup {called.object}
    /\ parents' = [parents EXCEPT ![called.object] = {called.parent}]
    /\ frames' = Append(frames, [object |-> called.object,
                                 left   |-> Children(called.object)])
    /\ called' = NoCall
    /\ UNCHANGED <<heap, source, result>>

Top == frames[Len(frames)]

(* mark_object for one child of the innermost call.                        *)
MarkChild ==
    /\ called.object = None /\ frames # <<>>
    /\ \E child \in Top.left :
         /\ called' = [object |-> child, parent |-> Top.object]
         /\ frames' = [frames EXCEPT ![Len(frames)].left = @ \ {child}]
    /\ UNCHANGED <<heap, scratch, result>>

FunctionSource(o) == IF kind[o] = "function" THEN {o} ELSE {}

SourceOf(o) == IF kind[o] \in {"function", "thread"} THEN {o} ELSE {}

KeepsFrame == frames' = frames

PopsFrame == frames' = SubSeq(frames, 1, Len(frames) - 1)

Dropped(o) == IF kind[o] = "lightc" THEN {o} ELSE {}

(* The innermost call returns: a function or thread gets its source, a     *)
(* light C function loses its table of referrers.                          *)
MarkReturns ==
    /\ called.object = None /\ frames # <<>> /\ Top.left = {}
    /\ recorded' = recorded \ Dropped(Top.object)
    /\ source' = source \cup SourceOf(Top.object)
    /\ PopsFrame
    /\ UNCHANGED <<heap, called, marked, parents, result>>

(* gen_result: a description of each recorded object, with its source if   *)
(* it is a function that has one, or a thread.                             *)
GenResult ==
    /\ called.object = None /\ frames = <<>> /\ result = <<>>
    /\ result' = <<[o \in recorded |-> [source  |-> o \in source,
                                        parents |-> parents[o]]]>>
    /\ UNCHANGED <<heap, called, frames, scratch>>

Next == MarkAgain \/ MarkNew \/ MarkChild \/ MarkReturns \/ GenResult

Spec == Init /\ [][Next]_vars

-----------------------------------------------------------------------------
Frame == [object : Objects, left : SUBSET Objects]

TypeOK ==
    /\ Heaps
    /\ called \in [object : Objects \cup {None}, parent : Objects \cup {None}]
    /\ frames \in Seq(Frame)
    /\ marked \subseteq Objects /\ recorded \subseteq Objects
    /\ source \subseteq Objects
    /\ parents \in [Objects -> SUBSET (Objects \cup {None})]

(* A set that the walk cannot leave.                                       *)
Closed(S) == Registry \in S /\ \A o \in S : Visited(o) \subseteq S

(* The objects kept alive by the registry: in every closed set.            *)
Alive(o) == \A S \in SUBSET Objects : Closed(S) => o \in S

(* What the walk still has to do for a referrer and its child.             *)
Pending(p, o) == \/ called.object = o /\ called.parent = p
                 \/ \E k \in DOMAIN frames :
                       frames[k].object = p /\ o \in frames[k].left

(* The inductive invariant.  All that is in hand is alive ...              *)
HandsAlive ==
    /\ called.object # None =>
         /\ Alive(called.object)
         /\ IF called.parent = None THEN called.object = Registry
            ELSE /\ called.parent \in marked
                 /\ called.object \in Visited(called.parent)
    /\ \A k \in DOMAIN frames : /\ frames[k].object \in marked
                               /\ frames[k].left \subseteq Visited(frames[k].object)
    /\ \A o \in marked : Alive(o)

(* ... what a marked object refers to is marked, or still to do ...        *)
NothingForgotten ==
    /\ Registry \in marked \/ called.object = Registry
    /\ \A p \in marked : \A o \in Visited(p) : o \in marked \/ Pending(p, o)

(* ... and so are the entries for referrers.  A light C function has a     *)
(* table of them during its own call only.                                 *)
EntriesKept ==
    /\ \A o \in marked : kind[o] # "lightc" => o \in recorded
    /\ \A o \in recorded : kind[o] = "lightc" =>
          \E k \in DOMAIN frames : frames[k].object = o
    /\ recorded \subseteq marked
    /\ \A o \in Objects \ marked : parents[o] = {}
    /\ \A o \in recorded : \A p \in parents[o] \ {None} :
          p \in marked /\ o \in Visited(p)
    /\ \A p \in marked : \A o \in Visited(p) :
          kind[o] = "lightc" \/ p \in parents[o] \/ Pending(p, o)

(* A thread has its source once its call has returned.                     *)
SourcesKept ==
    \A o \in marked : kind[o] = "thread" =>
        o \in source \/ \E k \in DOMAIN frames : frames[k].object = o

(* Only a walk with nothing left to do has a result.                       *)
ResultLast ==
    result # <<>> =>
        /\ called.object = None /\ frames = <<>>
        /\ result = <<[o \in recorded |-> [source  |-> o \in source,
                                          parents |-> parents[o]]]>>

WalkInv == HandsAlive /\ NothingForgotten /\ EntriesKept /\ SourcesKept /\ ResultLast

Finished == result # <<>>

(* A finished walk has marked all that is alive and nothing else, whatever *)
(* cycles, shared objects and weak tables the heap has.                    *)
MarksAlive == Finished => \A o \in Objects : o \in marked <=> Alive(o)

(* The result describes what is alive, light C functions excepted, each    *)
(* with all its referrers: a leak can be traced back along any of them.    *)
ReferrersComplete ==
    Finished =>
        /\ DOMAIN result[1] = {o \in Objects : Alive(o) /\ kind[o] # "lightc"}
        /\ \A o \in DOMAIN result[1] :
              result[1][o].parents \ {None}
                = {p \in Objects : Alive(p) /\ o \in Visited(p)}

(* pdesc reads the source of a thread as a string without looking whether  *)
(* there is one.                                                           *)
ThreadsHaveSource ==
    Finished => \A o \in DOMAIN result[1] : kind[o] = "thread" => result[1][o].source

(* The walk ends.                                                          *)
Ends == <>Finished
=============================================================================
