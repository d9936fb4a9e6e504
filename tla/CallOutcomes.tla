----------------------------- MODULE CallOutcomes -----------------------------
(***************************************************************************)
(* The vocabulary of one call: the attempts it may make, how the exchange  *)
(* of an attempt ends, and what the caller is given.                       *)
(***************************************************************************)
EXTENDS LlmErrors

CONSTANTS
  MaxRetries,   \* ProviderConfig::max_retries
  Statuses      \* the HTTP statuses the server may answer with

ASSUME CallAssumption ==
  /\ MaxRetries \in Nat
  /\ Statuses \subseteq 100 .. 599

Attempts == 0 .. MaxRetries

(* How an exchange ended: not made, no response at all, or a response.     *)
NotMade == [kind |-> "NotMade", status |-> 0]
NoResponse == [kind |-> "NoResponse", status |-> 0]
Responded(s) == [kind |-> "Responded", status |-> s]
Outcome == {NotMade, NoResponse} \cup {Responded(s) : s \in Statuses}

Made(o) == o.kind # "NotMade"
Succeeded(o) == o.kind = "Responded" /\ IsSuccess(o.status)

(* What a retry may cure: a request that got no response, a rate limit, a  *)
(* failing server.                                                         *)
Curable(o) ==
  o.kind = "NoResponse" \/ (o.kind = "Responded" /\ o.status \in {429} \cup (500 .. 599))

(* The verdict: nothing yet, an answer or a live stream made from the body *)
(* of exchange "from", an error, or nothing ever (the future was dropped,  *)
(* or the task panicked).                                                  *)
Pending == [tag |-> "pending", from |-> 0, error |-> NoError]
Abandoned == [tag |-> "abandoned", from |-> 0, error |-> NoError]
Answer(k) == [tag |-> "answer", from |-> k, error |-> NoError]
Live(k) == [tag |-> "live", from |-> k, error |-> NoError]
Failure(e) == [tag |-> "error", from |-> 0, error |-> e]
Verdict ==
  {Pending, Abandoned} \cup {Answer(k) : k \in Attempts} \cup {Live(k) : k \in Attempts}
    \cup {Failure(e) : e \in LlmError(Statuses)}

==============================================================================
