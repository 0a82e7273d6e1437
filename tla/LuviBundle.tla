---------------------------- MODULE LuviBundle ----------------------------
(* The bundles of luvibundle.lua.  A bundle is, as in the code, a table of *)
(* functions: stat, readdir and readfile, here functions on Paths, the     *)
(* paths callers ask for, each the parts of a relative path.  A result nil *)
(* is Nil; stat is reduced to its type, a directory listing to a set.      *)
(*                                                                         *)
(* A folder is a partial function from paths to Directory or to the        *)
(* contents of a file, blocks of bytes in a row.  A zip is the sequence of *)
(* its entries; the name of an entry is its parts and whether it ends in a *)
(* slash.                                                                  *)
EXTENDS LuviPath

CONSTANTS Blocks,       \* what contents are made of
          Contents,     \* what a file can hold
          Unreadable,   \* the contents of files that luvi may not open
          Directory,    \* what a folder has at the path of a directory
          Nil,          \* Lua's nil
          Paths         \* the paths asked for

ASSUME BundleAssumption ==
    /\ Contents \subseteq Seq(Blocks) /\ Unreadable \subseteq Contents
    /\ {Directory, Nil} \cap Contents = {}
    /\ Nil \notin {Directory, "file", "directory"}
    /\ \A names \in SUBSET Names : Nil # names
    /\ Paths \subseteq Seq(Parts)

TypeOf(node) == CASE node = Nil -> Nil
                  [] node = Directory -> "directory"
                  [] OTHER -> "file"

-----------------------------------------------------------------------------
(* Files on disk: uv.fs_stat, fs_scandir and fs_open with fs_read.         *)

Lookup(fs, path) == IF path \in DOMAIN fs THEN fs[path] ELSE Nil

Scandir(fs, path) ==
    {Last(child) : child \in {p \in DOMAIN fs : p # <<>> /\ Front(p) = path}}

(* "./" .. path, joined to the base.                                       *)
FolderPath(base, path) == pathJoin(<<Abs(base), Rel(<<".">> \o path)>>).parts

Readable == Contents \ Unreadable

(* What each function returns while nothing changes; its calls of libuv,   *)
(* one by one, are in BuildBundle.                                         *)
folderBundle(fs, base) ==
    LET At(path) == Lookup(fs, FolderPath(base, path))
    IN  [stat     |-> [p \in Paths |-> TypeOf(At(p))],
         readdir  |-> [p \in Paths |-> IF At(p) = Directory
                                       THEN Scandir(fs, FolderPath(base, p))
                                       ELSE Nil],
         readfile |-> [p \in Paths |-> IF At(p) \in Readable THEN At(p) ELSE Nil]]

-----------------------------------------------------------------------------
(* Entries of a zip: what miniz answers, through lminiz.c.  0 is not found.*)

Entry(name, slash, data) == [name |-> name, slash |-> slash, data |-> data]

locate_file(zip, name, slash) ==
    LET found == {i \in DOMAIN zip : zip[i].name = name /\ zip[i].slash = slash}
    IN  IF found = {} THEN 0 ELSE Min(found)

ZipPath(path) == pathJoin(<<Rel(<<".">> \o path)>>).parts

ZipStat(zip, path) ==
    LET name == ZipPath(path)
    IN  CASE name = <<>> -> "directory"
          [] name # <<>> /\ locate_file(zip, name, FALSE) # 0 -> "file"
          [] name # <<>> /\ locate_file(zip, name, FALSE) = 0
                         /\ locate_file(zip, name, TRUE) # 0 -> "directory"
          [] OTHER -> Nil

(* The entry's filename starts with the name and a slash.                  *)
Below(name, entry) == \/ name = <<>>
                      \/ IsStrictPrefix(name, entry.name)
                      \/ entry.name = name /\ entry.slash

(* The listing reads the entries after that of the directory, and breaks   *)
(* at the first one that is not below it.                                  *)
RunEnd(zip, name, index) ==
    Min({i \in index + 1 .. Len(zip) : ~Below(name, zip[i])} \cup {Len(zip) + 1})

ZipReaddir(zip, path) ==
    LET name  == ZipPath(path)
        index == IF name = <<>> THEN 0 ELSE locate_file(zip, name, TRUE)
        run   == index + 1 .. RunEnd(zip, name, index) - 1
    IN  IF name # <<>> /\ index = 0
        THEN Nil
        ELSE {Last(zip[i].name) :
                i \in {j \in run : Len(zip[j].name) = Len(name) + 1}}

ZipReadfile(zip, path) ==
    LET index == locate_file(zip, ZipPath(path), FALSE)
    IN  IF index = 0 THEN Nil ELSE zip[index].data

(* A single folder at the top becomes the root: the prefix of every path.  *)
SingleFolder(zip) ==
    LET entries == ZipReaddir(zip, <<>>)
    IN  Cardinality(entries) = 1
          /\ ZipStat(zip, <<CHOOSE name \in entries : TRUE>>) = "directory"

chrootPrefix(zip) ==
    IF SingleFolder(zip) THEN <<CHOOSE name \in ZipReaddir(zip, <<>>) : TRUE>> ELSE <<>>

zipBundle(zip) ==
    LET prefix == chrootPrefix(zip)
    IN  [stat     |-> [p \in Paths |-> ZipStat(zip, prefix \o p)],
         readdir  |-> [p \in Paths |-> ZipReaddir(zip, prefix \o p)],
         readfile |-> [p \in Paths |-> ZipReadfile(zip, prefix \o p)]]

-----------------------------------------------------------------------------
(* Several bundles: the first that has an answer gives it; listings are    *)
(* merged, and a list that no name was put into is nil.                    *)

FirstOf(results) == IF \E i \in DOMAIN results : results[i] # Nil
                    THEN results[Min({i \in DOMAIN results : results[i] # Nil})]
                    ELSE Nil

LastOf(results) == IF \E i \in DOMAIN results : results[i] # Nil
                   THEN results[Max({i \in DOMAIN results : results[i] # Nil})]
                   ELSE Nil

OnlyFirst(results) == results[1]

FirstAnswer(results) == FirstOf(results)

FirstList(lists) == LET list == FirstOf(lists)
                    IN  IF list = {} THEN Nil ELSE list

MergedList(lists) ==
    LET names == UNION {lists[i] : i \in {j \in DOMAIN lists : lists[j] # Nil}}
    IN  IF names = {} THEN Nil ELSE names

combinedBundle(bundles) ==
    [stat     |-> [p \in Paths |->
                     FirstAnswer([i \in DOMAIN bundles |-> bundles[i].stat[p]])],
     readdir  |-> [p \in Paths |->
                     MergedList([i \in DOMAIN bundles |-> bundles[i].readdir[p]])],
     readfile |-> [p \in Paths |->
                     FirstAnswer([i \in DOMAIN bundles |-> bundles[i].readfile[p]])]]

makeBundle(parts) == IF Len(parts) = 1 THEN parts[1] ELSE combinedBundle(parts)
=============================================================================
