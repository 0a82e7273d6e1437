---------------------------- MODULE BundleAction ----------------------------
(***************************************************************************)
(* bundle.action of luvibundle.lua: it lends an action a file of the       *)
(* bundle, as a file on disk.  Every thread of the process has the bundle  *)
(* in its own Lua state; they share the environment, which says where      *)
(* temporary files go, and the file system.                                *)
(***************************************************************************)
EXTENDS Env

CONSTANTS
    TMPDIR,       \* the variable that names the base, one of Names
    MaxDirs       \* bound: directories below one base

ASSUME ActionAssumption == TMPDIR \in Valid /\ MaxDirs \in Nat

Default   == MaxValue + 1       \* where files go without TMPDIR: "/tmp"
Dirs      == (Values \cup {Default}) \X (1 .. MaxDirs)
NoDir     == <<-1, 0>>
NotLoaded == -3

VARIABLES
    initial,      \* environ as the process got it: what os.getenv sees on Windows
    tmpBase,      \* the base of each thread's luvibundle
    dirOf,        \* the temporary directory a thread works in
    file,         \* what is in a temporary directory
    others,       \* directories an action has put files of its own in
    threw,        \* the action raised an error
    wrote,        \* history: what the thread's own write put in the file
    failed        \* history: directories that a call failed in: fs_open, fs_unlink,
                  \* or fs_rmdir of an empty one

actionVars == <<initial, tmpBase, dirOf, file, others, threw, wrote, failed>>
vars == <<envVars, actionVars>>

Contents == {"cut", "whole"}            \* an empty file is cut, too
Working(t) == at[t] \in {"open", "write", "run", "unlink", "rmdir"}

ActionInit ==
    /\ initial = environ
    /\ tmpBase = [t \in Threads |-> NotLoaded]
    /\ dirOf = [t \in Threads |-> NoDir]
    /\ file = [d \in Dirs |-> "no directory"]
    /\ wrote = [t \in Threads |-> "cut"]
    /\ threw = [t \in Threads |-> FALSE]
    /\ others = {} /\ failed = {}

Init == EnvInit /\ ActionInit

\* A thread's Lua state loads luvibundle and reads the base once.
Loads(t) ==
    LET v == ValueIn(IF platform = "windows" THEN initial ELSE environ, TMPDIR) IN
    /\ NoFault /\ at[t] \in Ended
    /\ tmpBase[t] = NotLoaded
    /\ tmpBase' = [tmpBase EXCEPT ![t] = IF v = Unset THEN Default ELSE v]
    /\ UNCHANGED <<envVars, initial, dirOf, file, others, threw, wrote, failed>>

\* No such file in the bundle, no temporary directory; or a real path, on which
\* the action runs directly, without the further arguments.
ActionElsewhere(t) ==
    /\ tmpBase[t] # NotLoaded
    /\ \E end \in {"idle", "raised"} : Calls(t, end)
    /\ Reads(t)
    /\ UNCHANGED actionVars

SameDir(t, d) == d = <<tmpBase[t], 1>>  \* mutant: one directory for all
FreshDir(t, d) ==
    /\ d[1] = tmpBase[t]
    /\ file[d] = "no directory"
    /\ \A i \in 1 .. d[2] - 1 : file[<<d[1], i>>] # "no directory"

\* fs_mkdtemp makes a directory with a name nobody has; names being alike, the
\* first of them.
MakesDir(t) ==
    /\ tmpBase[t] # NotLoaded
    /\ Calls(t, "open")
    /\ \E d \in Dirs :
        /\ FreshDir(t, d)
        /\ dirOf' = [dirOf EXCEPT ![t] = d]
        /\ file' = [file EXCEPT ![d] = "no file"]
    /\ Reads(t)
    /\ UNCHANGED <<initial, tmpBase, others, threw, wrote, failed>>

Does(t, from, to) ==
    Goes(t, from, to) /\ UNCHANGED <<size, keys, value, seen, initial, tmpBase>>

\* The call is over: its locals are gone.
Leaves(t, from, end) ==
    /\ Does(t, from, end)
    /\ dirOf' = [dirOf EXCEPT ![t] = NoDir]
    /\ threw' = [threw EXCEPT ![t] = FALSE]
    /\ wrote' = [wrote EXCEPT ![t] = "cut"]

Puts(t, content) == file' = [file EXCEPT ![dirOf[t]] = content]
Fails(t) == failed' = failed \cup {dirOf[t]}

\* fs_open; without a descriptor fs_write raises an error, and all stays.
Opens(t) ==
    /\ \/ /\ Does(t, "open", "write")
          /\ Puts(t, "cut")
          /\ UNCHANGED <<dirOf, threw, wrote, failed>>
       \/ Leaves(t, "open", "raised") /\ Fails(t) /\ UNCHANGED file
    /\ UNCHANGED others

\* fs_write, whose result is not looked at, and fs_close.
WritesFile(t) ==
    /\ Does(t, "write", "run")
    /\ \E content \in Contents :
        Puts(t, content) /\ wrote' = [wrote EXCEPT ![t] = content]
    /\ UNCHANGED <<dirOf, others, threw, failed>>

Unprotected(t, err) == IF err THEN "raised" ELSE "unlink"  \* mutant: no pcall
AfterAction(t, err) == "unlink"

\* The action runs in a pcall; it may leave files of its own in the directory.
RunsAction(t) ==
    /\ \E err \in BOOLEAN :
        Does(t, "run", AfterAction(t, err)) /\ threw' = [threw EXCEPT ![t] = err]
    /\ others' \in {others, others \cup {dirOf[t]}}
    /\ UNCHANGED <<dirOf, file, wrote, failed>>

\* fs_unlink, which fails on Windows while the file is in use.
Unlinks(t) ==
    /\ Does(t, "unlink", "rmdir")
    /\ \/ Puts(t, "no file") /\ UNCHANGED failed
       \/ Fails(t) /\ UNCHANGED file
    /\ UNCHANGED <<dirOf, others, threw, wrote>>

\* fs_rmdir, whose result is not looked at: it removes an empty directory, or fails,
\* as one that is in use does on Windows, and it leaves one that is not empty. Then
\* the caller gets the action's result or its error.
RemovesDir(t) ==
    /\ Leaves(t, "rmdir", IF threw[t] THEN "raised" ELSE "idle")
    /\ IF file[dirOf[t]] = "no file" /\ dirOf[t] \notin others
       THEN \/ Puts(t, "no directory") /\ UNCHANGED failed
            \/ Fails(t) /\ UNCHANGED file
       ELSE UNCHANGED <<file, failed>>
    /\ UNCHANGED others

ActionStep(t) ==
    \/ Loads(t) \/ ActionElsewhere(t) \/ MakesDir(t) \/ Opens(t) \/ WritesFile(t)
    \/ RunsAction(t) \/ Unlinks(t) \/ RemovesDir(t)

Next == \E t \in Threads : ActionStep(t) \/ (EnvStep(t) /\ UNCHANGED actionVars)

Spec == Init /\ [][Next]_vars

\* While the action of a thread runs, the file at its path holds what that
\* thread's write put there: no other thread's action has the same path, or
\* unlinks it (luvibundle.lua:322-330).
ActionFile ==
    \A t \in Threads : at[t] = "run" =>
        /\ file[dirOf[t]] = wrote[t]
        /\ \A u \in Threads \ {t} : Working(u) => dirOf[u] # dirOf[t]

\* A temporary directory that nobody works in is one that the action left files in,
\* or that fs_open or fs_unlink failed in, or fs_rmdir although it was empty: one
\* whose action raised an error is cleaned up like any other (luvibundle.lua:319-332).
NothingLeft ==
    \A d \in Dirs :
        \/ file[d] = "no directory" \/ d \in others \cup failed
        \/ \E t \in Threads : Working(t) /\ dirOf[t] = d
=============================================================================
