----------------------------- MODULE MCHttpBody -----------------------------
(***************************************************************************)
(* A document for TLC, with characters of every width.                     *)
(***************************************************************************)
EXTENDS HttpBody

Mixed == <<1, 3, 1, 2, 4, 1>>

==============================================================================
