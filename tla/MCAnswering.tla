---------------------------- MODULE MCAnswering ----------------------------
(***************************************************************************)
(* Answering on a small instance: two chunks are wanted, three candidates  *)
(* are fetched; scores are 0 and 0.5, so that a chunk that passes through  *)
(* with its similarity and one with a blended score both meet the          *)
(* threshold exactly.                                                      *)
(***************************************************************************)
EXTENDS Answering

Scores == {0, 1}

=============================================================================
