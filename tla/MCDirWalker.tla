---------------------------- MODULE MCDirWalker ----------------------------
(***************************************************************************)
(* A tree three directories deep, read in two orders, for TLC.             *)
(***************************************************************************)
EXTENDS DirWalker

MCDirs == {<<>>, <<"a">>, <<"a", "b">>, <<"c">>}
MCFiles == {<<"x">>, <<"y">>, <<"a", "f">>, <<"a", "b", "g">>, <<"c", "h">>}

Tree(root, a) ==
    [d \in MCDirs |-> CASE d = <<>> -> root
                        [] d = <<"a">> -> a
                        [] d = <<"a", "b">> -> <<"g">>
                        [] d = <<"c">> -> <<"h">>]

MCTrees ==
    {Tree(<<"x", "a", "c", "y">>, <<"b", "f">>), Tree(<<"c", "x", "y", "a">>, <<"f", "b">>)}
=============================================================================
