----------------------------- MODULE RetriedCall -----------------------------
(***************************************************************************)
(* What one call of the provider promises its caller, whatever the retry   *)
(* loop, the wait between two tries and the way the body is read: a call   *)
(* makes at most 1 + MaxRetries exchanges with the server, makes another   *)
(* one only when every one before it failed in a way a retry may cure, and *)
(* reports exactly one verdict, which is that of its last exchange.        *)
(***************************************************************************)
EXTENDS CallOutcomes

VARIABLES
  outcomes,     \* outcomes[k]: how the exchange of attempt k ended
  verdict       \* what the caller has been given

(* The verdicts the last exchange, of attempt k, allows.                   *)
VerdictsOf(k, o) ==
  IF Succeeded(o)
    THEN {Answer(k), Live(k), Failure(LlmGeneralError), Failure(StreamError)}
  ELSE IF o.kind = "NoResponse"
    THEN {Failure(LlmGeneralError)}
  ELSE {Failure(ApiError(o.status))}

vars == <<outcomes, verdict>>

Init ==
  /\ outcomes = [k \in Attempts |-> NotMade]
  /\ verdict = Pending

(* k is the next exchange to make.                                         *)
IsNext(k) ==
  /\ ~ Made(outcomes[k])
  /\ \A j \in 0 .. k-1 : Curable(outcomes[j])

(* The call makes another exchange; a failed one may also end the call.    *)
Try(k, o) ==
  /\ verdict = Pending
  /\ IsNext(k)
  /\ Made(o)
  /\ outcomes' = [outcomes EXCEPT ![k] = o]
  /\ verdict' \in {Pending} \cup (IF k = MaxRetries THEN VerdictsOf(k, o) ELSE {})

(* The call ends with what its last exchange k allows: one that succeeded, *)
(* one that no retry can cure, or the last one the configuration grants.   *)
Conclude(k) ==
  /\ verdict = Pending
  /\ Made(outcomes[k])
  /\ k = MaxRetries \/ ~ Curable(outcomes[k])
  /\ verdict' \in VerdictsOf(k, outcomes[k])
  /\ UNCHANGED outcomes

(* The call is refused before any exchange.                                *)
Refuse ==
  /\ verdict = Pending
  /\ \A k \in Attempts : ~ Made(outcomes[k])
  /\ verdict' \in {Failure(LlmGeneralError), Failure(ConfigError)}
  /\ UNCHANGED outcomes

Abandon ==
  /\ verdict = Pending
  /\ verdict' = Abandoned
  /\ UNCHANGED outcomes

Next ==
  \/ \E k \in Attempts : \E o \in Outcome : Try(k, o)
  \/ \E k \in Attempts : Conclude(k)
  \/ Refuse
  \/ Abandon

Spec == Init /\ [][Next]_vars

==============================================================================
