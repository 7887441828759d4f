----------------------------- MODULE MCPipeShell -----------------------------
(***************************************************************************)
(* PipeShell with two directories, a history of two entries that is full   *)
(* in the first of them, its last line torn, and a pipeline of four        *)
(* commands, cut to three, for two items. A torn line is a command or, of a*)
(* single character, nothing to eval.                                      *)
(***************************************************************************)
EXTENDS PipeShell

MCLines == {<<>>, <<"&">>, <<"exit">>, <<"!!">>, <<"!1">>, <<"history">>, <<"x!">>,
            <<"ls", "&">>, <<"cd", "d1">>, <<"cd", "d2", "&x">>,
            <<"ls", "|", "cat", "|", "sort", "|", "cat">>, <<"cat", "|">>}
MCDirs == {"d1", "d2"}
MCFragments == {<<"l">>, <<"&x">>}
MCFused == {<<"llhistory">>}
MCEarlier == [d \in MCDirs |-> IF d = "d1" THEN <<<<"ls", "&">>, <<"l">>>> ELSE <<>>]
===============================================================================
