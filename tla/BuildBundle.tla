---------------------------- MODULE BuildBundle ----------------------------
(* buildBundle of luvibundle.lua: `luvi app -o target`.  The folders of    *)
(* the bundle are on a disk that others may change between two calls of    *)
(* the build.  A step is a call of libuv, those of the bundle's functions  *)
(* in each of its folders included; it may fail where its result is        *)
(* checked, or do less than asked where it is not.                         *)
EXTENDS LayeredBundle

CONSTANTS Dotted,       \* the names that begin with a dot
          LuaNames,     \* the names that end in .lua, package.lua excepted
          BadLua,       \* the texts that do not compile
          MaxEdits,     \* changes made to the folders during a build
          MaxFaults     \* calls that fail on what is there, during a build

ASSUME BuildAssumption ==
    /\ Dotted \subseteq Names /\ LuaNames \subseteq Names
    /\ BadLua \subseteq Seq(Blocks)
    /\ MaxEdits \in Nat /\ MaxFaults \in Nat

VARIABLES options,      \* compile (or strip) and force
          pc,           \* the call the build makes next
          frames,       \* the calls of copyFolder under way, outermost first
          child,        \* the path in the hands of the innermost one
          asked,        \* the locals of the bundle's function under way
          entries,      \* what writer:add was given
          target,       \* the runtime and the archive in the output file
          edits, faults,
          seen          \* what the file at a path held during the build

vars == <<fs, options, pc, frames, child, asked, entries, target, edits, faults, seen>>

bytecode(ctx) == <<"bytecode", ctx>>

Absent == [runtime |-> "none", archive |-> "none"]
Sizes == {"none", "cut", "whole"}

(* The n-th folder is about to be asked: no name listed, no stat.size, no  *)
(* descriptor of an open file yet.                                         *)
Asking(n) == [layer |-> n, names |-> {}, size |-> 0, opened |-> Nil]

Held == [path \in Nodes |-> {Lookup(fs, path)} \cap Contents]

Init == /\ fs \in Trees
        /\ options \in [compile : BOOLEAN, force : BOOLEAN]
        /\ pc = "open" /\ frames = <<>> /\ child = <<>> /\ asked = Asking(1)
        /\ entries = <<>> /\ target = Absent /\ edits = 0 /\ faults = 0
        /\ seen = Held

-----------------------------------------------------------------------------
(* error() or a failed assert: luvi reports it and exits with -1.          *)
LuaError == /\ pc' = "error"
            /\ UNCHANGED <<frames, child, asked, entries, target>>

(* A call fails on something that it could have had: access, memory, I/O.  *)
Fails == faults < MaxFaults /\ faults' = faults + 1

Succeeds == UNCHANGED faults

OpenTarget ==
    /\ pc = "open"
    /\ \/ /\ pc' = "runtime"
          /\ UNCHANGED <<frames, child, asked, entries, target>>
       \/ LuaError
    /\ UNCHANGED <<fs, options, edits, faults, seen>>

(* The runtime without a zip of its own; what fs_sendfile returns is not   *)
(* looked at.                                                              *)
CopyRuntime ==
    /\ pc = "runtime"
    /\ \/ /\ \E size \in Sizes : target' = [target EXCEPT !.runtime = size]
          /\ pc' = "readdir"
          /\ UNCHANGED <<frames, child, asked, entries>>
       \/ LuaError
    /\ UNCHANGED <<fs, options, edits, faults, seen>>

-----------------------------------------------------------------------------
(* The bundle's functions ask one folder after another.                    *)

Where == FolderPath(Bases[asked.layer], child)
Here == Lookup(fs, Where)

LastAsked == asked.layer = Len(Bases)

(* This folder has no answer; the next one is asked from the call `at` on. *)
AsksNext(at) == /\ ~LastAsked
                /\ asked' = Asking(asked.layer + 1) /\ pc' = at
                /\ UNCHANGED <<frames, child, entries, target>>

(* A call gets nothing: there is nothing, or it fails.                     *)
Misses(there) == IF there THEN Fails ELSE Succeeds

Lists(names) ==
    IF LastAsked
    THEN /\ frames' = Append(frames, [path |-> child, left |-> names])
         /\ pc' = "next" /\ UNCHANGED asked
    ELSE /\ asked' = [Asking(asked.layer + 1) EXCEPT !.names = names]
         /\ UNCHANGED <<pc, frames>>

OnlyTheseNames == Scandir(fs, Where)

AddedNames == asked.names \cup Scandir(fs, Where)

(* copyFolder(child) begins: fs_scandir in one folder.  Without a list, or *)
(* with an empty one, it has no name to go through.                        *)
ReadFolder ==
    /\ pc = "readdir"
    /\ LET there == Here = Directory
       IN  \/ there /\ Succeeds /\ Lists(AddedNames)
           \/ Misses(there) /\ Lists(asked.names)
    /\ UNCHANGED <<fs, options, child, entries, target, edits, seen>>

CopyFolderReturns ==
    /\ pc = "next" /\ frames # <<>> /\ Last(frames).left = {}
    /\ frames' = Front(frames)
    /\ UNCHANGED <<fs, options, pc, child, asked, entries, target, edits, faults, seen>>

Skipped(name) == name \in Dotted

(* A turn of the loop over a list begins.                                  *)
NextName ==
    /\ pc = "next" /\ frames # <<>>
    /\ \E name \in Last(frames).left :
         /\ frames' = [frames EXCEPT ![Len(frames)].left = @ \ {name}]
         /\ IF Skipped(name)
            THEN UNCHANGED <<pc, child, asked>>
            ELSE /\ child' = pathJoin(<<Rel(Last(frames).path), Rel(<<name>>)>>).parts
                 /\ pc' = "stat" /\ asked' = Asking(1)
    /\ UNCHANGED <<fs, options, entries, target, edits, faults, seen>>

AddsNoFolder(path) == entries' = entries

AddsFolder(path) == entries' = Append(entries, Entry(path, TRUE, Nil))

(* fs_stat in one folder.  What no folder has, has no type: an error.      *)
StatName ==
    /\ pc = "stat"
    /\ LET type == TypeOf(Here)
       IN  \/ /\ type = "directory" /\ Succeeds
              /\ AddsFolder(child)
              /\ pc' = "readdir" /\ asked' = Asking(1)
              /\ UNCHANGED <<frames, child, target>>
           \/ /\ type = "file" /\ Succeeds
              /\ pc' = "size" /\ asked' = Asking(1)
              /\ UNCHANGED <<frames, child, entries, target>>
           \/ /\ Misses(type # Nil)
              /\ \/ AsksNext("stat")
                 \/ LastAsked /\ LuaError
    /\ UNCHANGED <<fs, options, edits, seen>>

-----------------------------------------------------------------------------
(* bundle.readfile: fs_stat, fs_open and fs_read in one folder.            *)

PacksNil == /\ entries' = Append(entries, Entry(child, FALSE, Nil))
            /\ pc' = "next" /\ UNCHANGED <<frames, child, asked, target>>

(* writer:add and load take a string; nil in its place is an error.        *)
NilIsError == LuaError

ReadsNothing == \/ AsksNext("size")
                \/ LastAsked /\ NilIsError

SizeFile ==
    /\ pc = "size"
    /\ LET there == TypeOf(Here) = "file"
       IN  \/ /\ there /\ Succeeds
              /\ asked' = [asked EXCEPT !.size = Len(Here)] /\ pc' = "file"
              /\ UNCHANGED <<frames, child, entries, target>>
           \/ Misses(there) /\ ReadsNothing
    /\ UNCHANGED <<fs, options, edits, seen>>

OpenFile ==
    /\ pc = "file"
    /\ LET there == Here \in Readable
       IN  \/ /\ there /\ Succeeds
              /\ asked' = [asked EXCEPT !.opened = Here] /\ pc' = "read"
              /\ UNCHANGED <<frames, child, entries, target>>
           \/ Misses(there) /\ ReadsNothing
    /\ UNCHANGED <<fs, options, edits, seen>>

(* fs_read(fd, size): not more than the file had when it was stat'ed.      *)
FirstBytes(text, size) == IF size < Len(text) THEN SubSeq(text, 1, size) ELSE text

Compiles(name) == options.compile /\ name \in LuaNames

Packed(ctx, name) ==
    IF Compiles(name) /\ ctx \notin BadLua THEN bytecode(ctx) ELSE ctx

(* The file is read, compiled if asked, and added.                         *)
AddFile ==
    /\ pc = "read"
    /\ LET ctx  == FirstBytes(asked.opened, asked.size)
           good == Compiles(Last(child)) /\ ctx \in BadLua => options.force
       IN  \/ /\ good /\ Succeeds
              /\ entries' = Append(entries, Entry(child, FALSE, Packed(ctx, Last(child))))
              /\ pc' = "next" /\ UNCHANGED <<frames, child, asked, target>>
           \/ ~good /\ Succeeds /\ LuaError
           \/ Fails /\ ReadsNothing
    /\ UNCHANGED <<fs, options, edits, seen>>

(* The outermost copyFolder is back.  Neither the count nor the error of   *)
(* fs_write is looked at.                                                  *)
WriteArchive ==
    /\ pc = "next" /\ frames = <<>>
    /\ \/ /\ \E size \in Sizes : target' = [target EXCEPT !.archive = size]
          /\ pc' = "done"
          /\ UNCHANGED <<frames, child, asked, entries>>
       \/ LuaError
    /\ UNCHANGED <<fs, options, edits, faults, seen>>

-----------------------------------------------------------------------------
(* A file that is open shows what is written into it, not what is put in   *)
(* its place.                                                              *)
OpenFileShows(path, node) ==
    \/ UNCHANGED asked
    \/ /\ pc = "read" /\ path = Where /\ Here = asked.opened /\ node \in Contents
       /\ asked' = [asked EXCEPT !.opened = node]

(* Another program changes what is in one of the folders of the bundle.    *)
Edit ==
    /\ edits < MaxEdits /\ pc \notin {"done", "error"}
    /\ edits' = edits + 1
    /\ \E path \in Nodes \ BasePaths, node \in Contents \cup {Directory, Nil} :
         Rewrite(path, node) /\ OpenFileShows(path, node)
    /\ seen' = [p \in Nodes |-> seen[p] \cup Held[p]']
    /\ UNCHANGED <<options, pc, frames, child, entries, target, faults>>

Build == \/ OpenTarget \/ CopyRuntime \/ ReadFolder \/ CopyFolderReturns \/ NextName
         \/ StatName \/ SizeFile \/ OpenFile \/ AddFile \/ WriteArchive

Next == Build \/ Edit

Spec == Init /\ [][Next]_vars

-----------------------------------------------------------------------------
(* What zipBundle's readdir and stat rely on: no name twice, a directory's *)
(* entry before all that is below it, and nothing else in between.  It     *)
(* holds whatever happens to the folders meanwhile.                        *)
EntriesListable ==
    LET Under(i, j) == IsPrefix(entries[i].name, entries[j].name)
    IN  /\ \A i, j \in DOMAIN entries : entries[i].name = entries[j].name => i = j
        /\ \A j \in DOMAIN entries : Len(entries[j].name) > 1 =>
             \E i \in 1 .. j - 1 : /\ entries[i].slash
                                   /\ entries[i].name = Front(entries[j].name)
                                   /\ \A k \in i .. j : Under(i, k)

(* A file of the archive, compiled or not, holds what the file of one of   *)
(* the folders held during the build, cut off at the most at a length that *)
(* this file also had: it is never packed empty because it went away, was  *)
(* replaced or could not be read, nor with what another layer has.         *)
EntriesTrue ==
    \A i \in DOMAIN entries :
        ~entries[i].slash =>
            \E base \in BasePaths :
                \E text, before \in seen[base \o entries[i].name] :
                    LET ctx == FirstBytes(text, Len(before))
                    IN  entries[i].data \in {ctx, bytecode(ctx)}

-----------------------------------------------------------------------------
(* The same bundle from folders and packed.                                *)

(* The answers can be compared: nothing failed, was edited, hidden or      *)
(* compiled, and the archive has entries.                                  *)
Comparable ==
    /\ pc = "done" /\ target = [runtime |-> "whole", archive |-> "whole"]
    /\ edits = 0 /\ faults = 0 /\ ~options.compile /\ entries # <<>>
    /\ \A base \in BasePaths, p \in TreePaths :
          base \o p \in DOMAIN fs => \A n \in DOMAIN p : p[n] \notin Dotted

(* An answer from the folders at q is the packed one at p.  Left out are   *)
(* paths at or below a directory of one layer that is a file of another,   *)
(* and the list of a directory of several layers that holds nothing, which *)
(* is nil before it is packed.                                             *)
SameAnswers(packed, p, read, q) ==
    Unmixed(Walk(<<>>, q)) =>
        /\ packed.stat[p] = read.stat[q]
        /\ packed.readfile[p] = read.readfile[q]
        /\ \/ packed.readdir[p] = read.readdir[q]
           \/ Len(Bases) > 1 /\ read.stat[q] = "directory" /\ read.readdir[q] = Nil

(* README.md:102: reading from a folder and from a zip appended to the     *)
(* binary is the same, for the paths that stay in the bundle, unless all   *)
(* that the application has at its top is a single folder.                 *)
PackedReadsTheSame ==
    Comparable /\ chrootPrefix(entries) = <<>> =>
        LET packed == zipBundle(entries)
            read   == bundle
        IN  \A p \in {q \in Paths : StaysBelow(q)} : SameAnswers(packed, p, read, p)

(* luvibundle.lua:144: a single folder at the top becomes the root of the  *)
(* packed bundle, and what was below it is found there.                    *)
RerootedReadsBelow ==
    Comparable /\ chrootPrefix(entries) # <<>> =>
        LET packed == zipBundle(entries)
            read   == bundle
            root   == chrootPrefix(entries)
        IN  \A p \in {q \in Paths : StaysBelow(q) /\ root \o q \in Paths} :
                SameAnswers(packed, p, read, root \o p)

(* README.md:102 "the I/O to read from this is the same": any answer, as   *)
(* the folders give it.  It is not with a single folder at the top.        *)
PackedReadsAsFolders ==
    Comparable =>
        LET packed == zipBundle(entries)
            read   == bundle
        IN  \A p \in {q \in Paths : StaysBelow(q)} :
                /\ packed.stat[p] = read.stat[p]
                /\ packed.readfile[p] = read.readfile[p]
                /\ packed.readdir[p] = read.readdir[p]

(* luvibundle.lua:215 "Done building": the target is then complete.        *)
DoneMeansWhole ==
    pc = "done" => target = [runtime |-> "whole", archive |-> "whole"]
=============================================================================
