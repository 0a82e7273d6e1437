--------------------------- MODULE MCBundleReads ---------------------------
(* The paths that bundles are asked for, and what bundles of small folders *)
(* answer: calls of pathJoin where there are no folders, and builds that   *)
(* do not compile, onto a disk that is not full.                           *)
EXTENDS MCBuildBundle, PathCalls

Texts3 == Texts \cup {<<y>>}

NoFolders ==
    /\ FirstInput
    /\ fs = <<>> /\ seen = <<>> /\ pc = "error"
    /\ options = [compile |-> FALSE, force |-> FALSE]
    /\ frames = <<>> /\ child = <<>> /\ asked = Asking(1) /\ entries = <<>>
    /\ target = Absent /\ edits = 0 /\ faults = 0

PlainBuild ==
    /\ Init /\ options = [compile |-> FALSE, force |-> FALSE]
    /\ inputs = <<Rel(<<>>)>>

ReadsInit == NoFolders \/ PlainBuild

JoinsMore == fs = <<>> /\ AddInput /\ UNCHANGED vars

Builds == /\ Next /\ UNCHANGED inputs
          /\ \A part \in DOMAIN target : target'[part] \in {target[part], "whole"}
          /\ pc = "runtime" /\ pc' = "readdir" => target'.runtime = "whole"

ReadsSpec == ReadsInit /\ [][JoinsMore \/ Builds]_<<vars, inputs>>
=============================================================================
