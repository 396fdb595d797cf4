----------------------------- MODULE MCWyoming ------------------------------
(* Values for the constants of Wyoming.                                    *)
EXTENDS Wyoming

\* Nothing, a short sentence, a long one, and three that _split_sentences merges.
SomeTexts == {<<>>, <<1>>, <<3>>, <<3, 1, 3>>}
=============================================================================
