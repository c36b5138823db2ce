--------------------------- MODULE MC_OutputPipeline ---------------------------
(* OutputPipeline with writes that cut the credentials and a rune anywhere. *)
EXTENDS OutputPipeline

MCLiterals == {<<"a", "b", "a">>, <<"b", "b">>}
MCTexts    == {<<"a">>, <<"b", "n">>, <<"s", "b">>}
MCPieces   == {<<"a">>, <<"b", "s">>, <<"u">>, <<"v", "a">>, <<"b", "b">>}
MCAsked    == {<<"u", "a", "s", "b", "a", "n">>}
=============================================================================
