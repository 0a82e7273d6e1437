---------------------------- MODULE PathCalls ----------------------------
(* Every call of pathJoin with few and short arguments: a caller builds    *)
(* its argument list one path at a time.                                   *)
EXTENDS LuviPath

CONSTANTS MaxInputs,    \* paths in one call
          MaxParts      \* parts in one path

ASSUME PathAssumption == MaxInputs \in Nat /\ MaxParts \in Nat

VARIABLE inputs

FirstInput ==
    \E prefix \in PathPrefixes \cup {None}, parts \in BoundedSeq(Parts, MaxParts) :
        inputs = <<[prefix |-> prefix, parts |-> parts]>>

AddInput == /\ Len(inputs) < MaxInputs
            /\ \E prefix \in PathPrefixes \cup {None}, parts \in BoundedSeq(Parts, MaxParts) :
                 inputs' = Append(inputs, [prefix |-> prefix, parts |-> parts])

PathSpec == FirstInput /\ [][AddInput]_inputs

(* A caller can add one path at a time: joining the result of a call with  *)
(* one path more is the join of them all.                                  *)
JoinsStepwise ==
    Len(inputs) > 1 =>
        pathJoin(inputs) = pathJoin(<<pathJoin(Front(inputs)), Last(inputs)>>)

(* From a directory to where a path leads: one with a prefix starts anew.  *)
Follow(dir, input) ==
    [prefix |-> IF input.prefix = None THEN dir.prefix ELSE input.prefix,
     parts  |-> Walk(IF input.prefix = None THEN dir.parts ELSE <<>>, input.parts)]

(* The directory reached after each of the paths.                          *)
Reached(paths) ==
    LET dir[n \in 0 .. Len(paths)] ==
          IF n = 0 THEN Rel(<<>>) ELSE Follow(dir[n - 1], paths[n])
    IN  dir

(* The reverse evaluation reaches the directory that a walk from the front *)
(* would reach, whatever order of names, "." and ".." the parts have, below *)
(* the prefix of the last path that has one.                               *)
WalksForward == pathJoin(inputs) = Reached(inputs)[Len(inputs)]

(* "./" .. path, as every bundle operation writes it, keeps an absolute    *)
(* path of the caller inside the base; only ".." leads out of it.          *)
RelativeStaysInBase ==
    LET path == AllParts(inputs)
    IN  StaysBelow(path) =>
          \A prefix \in PathPrefixes, dir \in BoundedSeq(Names, 1) :
             pathJoin(<<[prefix |-> prefix, parts |-> dir], Rel(<<".">> \o path)>>)
               = [prefix |-> prefix, parts |-> dir \o Walk(<<>>, path)]
=============================================================================
