--------------------------- MODULE MCOpenAiStream ---------------------------
(***************************************************************************)
(* Instances of OpenAiStream for TLC.                                      *)
(***************************************************************************)
EXTENDS OpenAiStream

CONSTANTS a, b, id1, id2, f

(* The ids are interchangeable, and nothing tells them apart but equality; *)
(* so are the pieces.                                                      *)
Symmetry == Permutations({a, b}) \cup Permutations({id1, id2})

==============================================================================
