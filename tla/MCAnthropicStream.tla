-------------------------- MODULE MCAnthropicStream --------------------------
(***************************************************************************)
(* Instances of AnthropicStream for TLC.                                   *)
(***************************************************************************)
EXTENDS AnthropicStream

CONSTANTS a, b, id1, id2, f, sig1, sig2

==============================================================================
