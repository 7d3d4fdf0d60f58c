------------------------------ MODULE MCWsServer ------------------------------
(***************************************************************************)
(* An instance of WsServer for TLC.  The forms of a frame's length change  *)
(* at 2 and 4; a text of three characters does not fit into the buffer;    *)
(* one text holds a Nul; a line of five is cut in two by fgets().  The     *)
(* digests have five bytes, as 20 and 5 both leave 2 when divided by 3.    *)
(***************************************************************************)
EXTENDS WsServer

SomeTexts == {<<>>, <<"b">>, <<"b", "nul">>, <<"a", "b", "c">>}
SomeLines == {<<"exit", "nl">>, <<"a", "exit", "a", "exit", "nl">>}

NoZero == <<15, 15, 0, 1, 8, 0, 4, 13, 7, 15>>
OneZero == <<4, 13, 6, 1, 6, 14, 0, 0, 15, 15>>
FewFrames == [p \in {"echo", "chat"} |-> IF p = "echo" THEN 2 ELSE 1]

SomeDigests == {NoZero, OneZero}
=============================================================================
