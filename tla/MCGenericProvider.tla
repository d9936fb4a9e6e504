-------------------------- MODULE MCGenericProvider --------------------------
(***************************************************************************)
(* Instances of GenericProvider for TLC.                                   *)
(***************************************************************************)
EXTENDS GenericProvider

(* The extremes of the jitter. *)
MCJitters == {0, 99}

(* The statuses at the edges of the classes the retry loop tells apart.    *)
EdgeStatuses == {200, 299, 300, 428, 429, 430, 499, 500}

==============================================================================
