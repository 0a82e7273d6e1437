--------------------------- MODULE MCBuildBundle ---------------------------
(* Small folders for BuildBundle.                                          *)
EXTENDS BuildBundle

CONSTANTS x, y, z       \* blocks

OneBase == <<<<"app">>>>
TwoBases == <<<<"a">>, <<"b">>>>

WideTree == {<<"a">>, <<"b">>, <<"a", "b">>}

(* "c" is dotted; a directory of two levels, with names on both sides.     *)
DeepTree == {<<"a">>, <<"b">>, <<"a", "a">>, <<"a", "c">>, <<"a", "a", "b">>}

(* Contents of two lengths.  What is cut off at the length of the other    *)
(* does not compile, and neither does the other.                           *)
Texts == {<<x, y>>, <<z>>}
BadTexts == {<<x>>, <<z>>}

LockedTexts == {<<x, y>>}

(* The paths asked for: those of the trees, and detours to them.           *)
Detours(tree) == {<<>>, <<".">>, <<"..">>}
                   \cup tree
                   \cup {<<"a", "..">> \o p : p \in tree}
                   \cup {p \o <<"..", "b">> : p \in tree}
                   \cup {<<"..">> \o p : p \in tree}
WidePaths == Detours(WideTree)
DeepPaths == Detours(DeepTree)
=============================================================================
