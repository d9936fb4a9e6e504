------------------------- MODULE StreamedCompletion -------------------------
(***************************************************************************)
(* What the streamed completions of all protocols share: the record of     *)
(* what the server has said, the connection that carries its events and    *)
(* may break, and what must hold between the two ends.  A protocol module  *)
(* adds the events of its server and the adapter that converts them.  An   *)
(* adapter is stateless (flat_map over the events), so converting an event *)
(* when it is written instead of when it is polled makes no difference to  *)
(* the consumer.                                                           *)
(***************************************************************************)
EXTENDS ChatStream

CONSTANTS
  Reason,      \* the reasons a server may finish with
  Tokens,      \* the token counts it may report
  MaxEvents    \* bound on the events before the finishing ones

ASSUME FinishAssumption == None \notin Reason
ASSUME TokensAssumption == Tokens \subseteq Nat

VARIABLES
  said,        \* what the server has said so far
  stage,       \* how far the server is, "done" at the end of the completion
  fault,       \* the first thing that went wrong, "none" if nothing did
  early,       \* the fault came before the finish reason
  events       \* number of events, for the bound

serverVars == <<said, stage, fault, early, events>>

(* calls: the tool calls by their index in the protocol; usage: as         *)
(* reported up to the finish reason, late: as reported behind it; finish:  *)
(* the finish reason, None also for one the protocol does not list.        *)
NothingSaid ==
  [text |-> <<>>, reasoning |-> <<>>, calls |-> << >>,
   usage |-> NoUsage, late |-> NoUsage, finish |-> None]

(* flaws: how the server itself may be, "none" for a sound one.            *)
CompletionInit(first, flaws) ==
  /\ StreamInit
  /\ said = NothingSaid
  /\ stage = first
  /\ fault \in flaws
  /\ early = (fault # "none")
  /\ events = 0

(* The adapter's items for an event the server writes.                     *)
Write(items) ==
  /\ ~ closed
  /\ queue' = queue \o items
  /\ events' = events + 1
  /\ UNCHANGED <<consumer, closed, polled, acc, outcome>>

WithinBound == events < MaxEvents

(* The calls with another one begun at the index i.                        *)
Begun(calls, i, id, name) ==
  [j \in DOMAIN calls \cup {i} |->
     IF j = i THEN [id |-> id, name |-> name, args |-> <<>>] ELSE calls[j]]

If(cond, chunk) == IF cond THEN <<chunk>> ELSE <<>>

-----------------------------------------------------------------------------
(* Events and accidents common to the protocols. *)

(* A comment-style heartbeat makes no item.                                *)
Heartbeat ==
  /\ WithinBound
  /\ Write(<<>>)
  /\ UNCHANGED <<said, stage, fault, early>>

Fails(what) ==
  /\ fault = "none"
  /\ fault' = what
  /\ early' = (said.finish = None)
  /\ UNCHANGED <<said, stage>>

(* Mutants of ErrorEvent and MalformedEvent: the event is logged, and no   *)
(* more.                                                                   *)
ErrorEventLogged == WithinBound /\ Fails("error") /\ Write(<<>>)
MalformedEventLogged == WithinBound /\ Fails("malformed") /\ Write(<<>>)

(* An error event of the server; it may go on writing behind it.           *)
ErrorEvent == WithinBound /\ Fails("error") /\ Write(<<Err(LlmGeneralError)>>)

(* An event that is not JSON or, to the Anthropic adapter, lacks what an   *)
(* event of its type has.  The OpenAI adapter makes nothing of JSON it     *)
(* does not find its fields in: that is a Heartbeat.                       *)
MalformedEvent == WithinBound /\ Fails("malformed") /\ Write(<<Err(StreamError)>>)

(* The connection breaks, or stays silent for the read timeout: the body   *)
(* ends with an error, which the event parser passes on.                   *)
Cut ==
  /\ ~ closed
  /\ Fails("cut")
  /\ closed' = TRUE
  /\ queue' = Append(queue, Err(StreamError))
  /\ UNCHANGED <<consumer, polled, acc, outcome, events>>

(* The body ends in good order: at the end of the completion, or before it *)
(* (a proxy or a server that goes down); what was of an event is dropped.  *)
EndOfBody ==
  /\ ~ closed
  /\ IF stage = "done" THEN UNCHANGED <<said, stage, fault, early>> ELSE Fails("eof")
  /\ closed' = TRUE
  /\ UNCHANGED <<consumer, queue, polled, acc, outcome, events>>

Connection == Cut \/ EndOfBody

Client == Consume /\ UNCHANGED serverVars

-----------------------------------------------------------------------------
(* Properties of every protocol. *)

Answered == outcome = Collected
Whole == consumer = "collect_response"
Finished == said.finish # None

(* What has been collected is a beginning of what the server said: no      *)
(* piece of text, reasoning or arguments is invented, lost in the middle,  *)
(* doubled, put into another call or out of order.                         *)
CollectedWasSaid ==
  /\ IsPrefix(acc.content, said.text)
  /\ IsPrefix(acc.reasoning, said.reasoning)
  /\ \A i \in DOMAIN acc.calls :
       /\ i \in DOMAIN said.calls
       /\ acc.calls[i].id = said.calls[i].id
       /\ acc.calls[i].name = said.calls[i].name
       /\ IsPrefix(acc.calls[i].args, said.calls[i].args)

(* Where the server finished, an answer is the whole completion with the   *)
(* server's own reason, whatever it wrote behind the reason; where it said *)
(* all it had to say without a reason, the answer is whole as well.        *)
AnswerIsWhole ==
  (Answered /\ (Finished \/ stage = "done")) =>
    /\ acc.content = said.text
    /\ Whole => /\ acc.reasoning = said.reasoning
                /\ acc.calls = said.calls
                /\ acc.finish = IF Finished THEN FinishReason(said.finish) ELSE "Stop"

(* An error event, a null error, a malformed event and a broken            *)
(* connection, each before the finish reason, end in an error and never in *)
(* an answer made of what had come so far.                                 *)
BrokenStreamIsNoAnswer ==
  (fault \in {"error", "null", "malformed", "cut"} /\ early) => ~ Answered

(* What happens behind the finish reason does not cost the answer.         *)
LateFaultIsHarmless ==
  (fault # "none" /\ ~ early) => outcome.tag # "err"

(* The usage the server had reported when it finished is in the answer.    *)
UsageIsKept == (Answered /\ Whole /\ Finished) => acc.usage = said.usage

(* Every stream is collected in the end.                                   *)
AlwaysCollected == <>(outcome # Reading)

==============================================================================
