--------------------------- MODULE LayeredBundle ---------------------------
(* `luvi path/to/app path/to/luvit`: the folders of a command line, on a   *)
(* disk that other programs write, and the bundle made of them.            *)
EXTENDS LuviBundle

CONSTANTS Bases,        \* the folders, the first one on top
          TreePaths     \* the paths a folder may have a file or directory at

BasePaths == {Bases[i] : i \in DOMAIN Bases}

(* What is in a directory of a tree has a path of the tree, and so has,    *)
(* below each base, what is in a base that is inside of it.                *)
ASSUME LayersAssumption ==
    /\ Bases \in Seq(Seq(Names)) /\ Bases # <<>>
    /\ <<>> \in Paths
    /\ \A p \in TreePaths : /\ p \in Paths /\ p \in Seq(Names) /\ p # <<>>
                            /\ Front(p) \in TreePaths \cup {<<>>}
    /\ \A base, other \in BasePaths, p \in TreePaths \cup {<<>>} :
          IsPrefix(base, other \o p) =>
              \E q \in TreePaths \cup {<<>>} : other \o p = base \o q

VARIABLE fs             \* the folders of Bases on disk

Nodes == {base \o p : base \in BasePaths, p \in TreePaths}

(* Below each base, which exists, a node is in a directory.                *)
Trees ==
    LET Partial(f) == [p \in BasePaths \cup {q \in Nodes : f[q] # Nil} |->
                          IF p \in BasePaths THEN Directory ELSE f[p]]
    IN  {tree \in {Partial(f) : f \in [Nodes -> Contents \cup {Directory, Nil}]} :
            \A p \in DOMAIN tree \cap Nodes : Lookup(tree, Front(p)) = Directory}

bundle == makeBundle([i \in DOMAIN Bases |-> folderBundle(fs, Bases[i])])

(* A file is written, removed or replaced, or an empty directory is.       *)
Rewrite(path, node) ==
    /\ Lookup(fs, path) # node
    /\ Lookup(fs, Front(path)) = Directory /\ Scandir(fs, path) = {}
    /\ fs' = IF node = Nil THEN Restrict(fs, DOMAIN fs \ {path})
             ELSE [p \in DOMAIN fs \cup {path} |-> IF p = path THEN node ELSE fs[p]]

-----------------------------------------------------------------------------
(* The folder that the layers stand for: the upper one's node where both   *)
(* have one.                                                               *)
Overlay == [p \in {<<>>} \cup {q \in TreePaths : \E base \in BasePaths :
                                  base \o q \in DOMAIN fs} |->
              LET i == Min({j \in DOMAIN Bases : Bases[j] \o p \in DOMAIN fs})
              IN  fs[Bases[i] \o p]]

(* Of the nodes that the folders have at a path, none is a directory where *)
(* another is a file, or a file that can be read where another cannot.     *)
Agree(path) ==
    \A base, other \in BasePaths :
        LET node == Lookup(fs, base \o path)
            rest == Lookup(fs, other \o path)
        IN  \/ Nil \in {node, rest}
            \/ node = rest
            \/ \E files \in {Readable, Unreadable} : {node, rest} \subseteq files

(* ... neither at the path nor at a directory on the way to it.            *)
Unmixed(path) == \A above \in Prefixes(path) : Agree(above)

(* For a base that is no folder, makeBundle raises an error.               *)
AreFolders == \A base \in BasePaths : Lookup(fs, base) = Directory

(* luvibundle.lua:219: the layers are one virtual file system, the one of  *)
(* a folder in which the upper layers were copied over the lower ones.     *)
(* Left out are paths at or below a directory of one layer that is a file  *)
(* of another, and the list of a directory of several layers that holds    *)
(* nothing: there the code does not do what :220 and README.md:121 say.    *)
LayersAreOneFolder ==
    AreFolders =>
        LET all == bundle
            one == folderBundle(Overlay, <<>>)
        IN  \A p \in {q \in Paths : StaysBelow(q) /\ Unmixed(Walk(<<>>, q))} :
              /\ all.stat[p] = one.stat[p]
              /\ all.readfile[p] = one.readfile[p]
              /\ Len(Bases) = 1 \/ one.readdir[p] # {}
                    => all.readdir[p] = one.readdir[p]

(* A file of the first folder is what the program gets at its path,        *)
(* whatever the folders below have there, unless it cannot be read.        *)
UpperFileWins ==
    LET all == bundle
    IN  \A p \in TreePaths :
            LET node == Lookup(fs, Bases[1] \o p)
            IN  /\ node \in Contents => all.stat[p] = "file"
                /\ node \in Readable => all.readfile[p] = node

(* What a listing names can be stat'ed, and what can be stat'ed is named   *)
(* by the listing of where it is, also between a file and a directory of   *)
(* the same name: a walk over the bundle finds all of it.                  *)
ListedIsThere ==
    AreFolders =>
        LET all == bundle
        IN  \A p \in TreePaths :
                all.stat[p] # Nil
                  <=> all.readdir[Front(p)] # Nil /\ Last(p) \in all.readdir[Front(p)]
=============================================================================
