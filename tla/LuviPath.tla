----------------------------- MODULE LuviPath -----------------------------
(* luvipath.lua: how pathJoin makes one path of several.                   *)
(*                                                                         *)
(* A path string is what the code reads in it: its prefix, if it has one,  *)
(* and the parts between the separators.  Repeated and trailing separators *)
(* never reach a part, since splitPath takes the runs of other characters; *)
(* that is also why it does no harm that `sub(#prefix)` leaves the last    *)
(* character of the prefix, a separator, where it is.  A part is a name,   *)
(* "." or "..".  joinParts writes a string in which the same is read: a    *)
(* relative path gets slashes, so that a first part "C:" stays a part.     *)
EXTENDS Integers, SequencesExt, FiniteSetsExt

CONSTANT Names          \* the names of files and directories

ASSUME NamesAreNoDots == {".", ".."} \cap Names = {}

Parts == Names \cup {".", ".."}

(* What getPrefix finds: a slash, and on Windows a drive with a backslash  *)
(* after it, or the backslashes of a share.                                *)
None == ""
PathPrefixes == {"/", "C:\\", "\\\\"}

(* The Lua strings "/a/b" and "a/b".                                       *)
Abs(parts) == [prefix |-> "/", parts |-> parts]
Rel(parts) == [prefix |-> None, parts |-> parts]

(* The last input that is an absolute path, the first one if all are       *)
(* relative: what is before it does not count.                             *)
LastPrefix(inputs) ==
    Max({i \in DOMAIN inputs : inputs[i].prefix # None} \cup {1})

(* The parts of the inputs from the one at first on, in one list.          *)
PartsFrom(inputs, first) ==
    FlattenSeq([n \in 1 .. Len(inputs) - first + 1 |-> inputs[first + n - 1].parts])

PartsAfter(inputs) == PartsFrom(inputs, LastPrefix(inputs) + 1)

AllParts(inputs) == PartsFrom(inputs, LastPrefix(inputs))

VisitUnreversed(part, seen) ==
    CASE part = "." -> seen
      [] part = ".." -> [seen EXCEPT !.skip = @ + 1]
      [] part \in Names /\ seen.skip > 0 -> [seen EXCEPT !.skip = @ - 1]
      [] OTHER -> [seen EXCEPT !.kept = Append(@, part)]

VisitSkipping(part, seen) ==
    CASE part = "." -> seen
      [] part = ".." -> [seen EXCEPT !.skip = @ + 1]
      [] part \in Names /\ seen.skip > 0 -> seen
      [] OTHER -> [seen EXCEPT !.kept = <<part>> \o @]

(* One step of the walk from the last part to the first: ".." asks to skip *)
(* one more name, a name is skipped or kept.                               *)
Visit(part, seen) ==
    CASE part = "." -> seen
      [] part = ".." -> [seen EXCEPT !.skip = @ + 1]
      [] part \in Names /\ seen.skip > 0 -> [seen EXCEPT !.skip = @ - 1]
      [] OTHER -> [seen EXCEPT !.kept = <<part>> \o @]

(* What is left of the parts after the last n were visited.                *)
Scan(parts) ==
    LET seen[n \in 0 .. Len(parts)] ==
          IF n = 0 THEN [kept |-> <<>>, skip |-> 0]
          ELSE Visit(parts[Len(parts) - n + 1], seen[n - 1])
    IN  seen

(* The special parts evaluated in reverse order.  The skips that are left  *)
(* at the front are dropped, for a relative path too.                      *)
Evaluate(parts) == Scan(parts)[Len(parts)].kept

pathJoin(inputs) ==
    [prefix |-> inputs[LastPrefix(inputs)].prefix,
     parts  |-> Evaluate(AllParts(inputs))]

(* The reference: parts are walked from the first to the last, ".." leaves *)
(* the directory reached so far, and cannot leave the root.                *)
Enter(dir, part) ==
    CASE part = "." -> dir
      [] part = ".." -> IF dir = <<>> THEN dir ELSE Front(dir)
      [] OTHER -> Append(dir, part)

Steps(from, parts) ==
    LET at[n \in 0 .. Len(parts)] ==
          IF n = 0 THEN from ELSE Enter(at[n - 1], parts[n])
    IN  at

Walk(from, parts) == Steps(from, parts)[Len(parts)]

(* ".." never climbs above the directory the walk started in.              *)
StaysBelow(parts) ==
    \A n \in 1 .. Len(parts) :
        Cardinality({i \in 1 .. n : parts[i] = ".."})
          <= Cardinality({i \in 1 .. n : parts[i] \in Names})
=============================================================================
