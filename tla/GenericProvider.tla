--------------------------- MODULE GenericProvider ---------------------------
(***************************************************************************)
(* GenericProvider: one call of chat() or stream(), from the mode check    *)
(* to the answer, the live stream or the error the caller is given, with   *)
(* the retry loop and its waits, the HTTP exchange below it and the server *)
(* at the far end of the wire.  The provider keeps no state between calls  *)
(* (every method takes &self), so one call is the whole of it.             *)
(*                                                                         *)
(* The server is a process of its own.  A request it has received may be   *)
(* answered at any time, also after the client has given the exchange up:  *)
(* this is what makes a retried POST run twice.                            *)
(***************************************************************************)
EXTENDS Backoff, CallOutcomes

CONSTANTS
  Jitters,         \* the jitters that may be drawn
  OverflowChecks   \* TRUE: a build that panics on integer overflow

ASSUME ProviderAssumption ==
  /\ Jitters # {} /\ Jitters \subseteq 0 .. MaxJitter
  /\ OverflowChecks \in BOOLEAN

VARIABLES
  modes,     \* RawAdapter::supported_modes, fixed
  route,     \* how the response will be consumed
  pc,        \* where the call is
  attempt,   \* counter of the retry loop
  lastErr,   \* last_err: Option<LlmError>
  wait,      \* the latest wait before a retry
  outcomes,  \* how the exchange of each attempt ended, as the client saw it
  result,    \* what the caller was given
  server,    \* what became of the request of each attempt
  answer     \* the status each attempt was answered with, 0 if none

clientVars == <<modes, route, pc, attempt, lastErr, wait, outcomes, result>>
serverVars == <<server, answer>>
vars == <<modes, route, pc, attempt, lastErr, wait, outcomes, result, server, answer>>

CallMode == {"Stream", "Once"}
Route == {"none", "once", "stream", "collect"}

(* idle: not called; top: at the top of the retry loop; sleeping; sending: *)
(* awaiting the response head; draining: reading the body of an error      *)
(* response; body: reading the body of a success; open: handing a success  *)
(* to the SSE parser; collecting: chat() reading the stream to its end.    *)
Running == {"top", "sleeping", "sending", "draining", "body", "open", "collecting"}
Ended == {"returned", "dropped", "panicked"}
Location == {"idle"} \cup Running \cup Ended

Max2(a, b) == IF a >= b THEN a ELSE b
MaxWait == Max2(BackoffCap, RateLimitCap)

TypeOK ==
  /\ modes \subseteq CallMode
  /\ route \in Route
  /\ pc \in Location
  /\ attempt \in Attempts
  /\ lastErr \in {NoError} \cup LlmError(Statuses)
  /\ wait \in 0 .. MaxWait
  /\ outcomes \in [Attempts -> Outcome]
  /\ result \in Verdict
  /\ server \in [Attempts -> {"unsent", "inflight", "lost", "answered"}]
  /\ answer \in [Attempts -> Statuses \cup {0}]

Init ==
  /\ modes \in SUBSET CallMode
  /\ route = "none"
  /\ pc = "idle"
  /\ attempt = 0
  /\ lastErr = NoError
  /\ wait = 0
  /\ outcomes = [k \in Attempts |-> NotMade]
  /\ result = Pending
  /\ server = [k \in Attempts |-> "unsent"]
  /\ answer = [k \in Attempts |-> 0]

-----------------------------------------------------------------------------
(* The client: GenericProvider. *)

Return(v) == pc' = "returned" /\ result' = v

(* build_request may refuse the request; otherwise the retry loop starts.  *)
BuildAndRun ==
  \/ /\ \E e \in {ConfigError, LlmGeneralError} : Return(Failure(e))
  \/ /\ pc' = "top"
     /\ UNCHANGED result

Stream ==
  /\ pc = "idle"
  /\ route' = "stream"
  /\ IF "Stream" \in modes THEN BuildAndRun ELSE Return(Failure(LlmGeneralError))
  /\ UNCHANGED <<modes, attempt, lastErr, wait, outcomes, serverVars>>

Chat ==
  /\ pc = "idle"
  /\ route' = IF "Once" \in modes THEN "once" ELSE "collect"
  /\ IF modes # {} THEN BuildAndRun ELSE Return(Failure(LlmGeneralError))
  /\ UNCHANGED <<modes, attempt, lastErr, wait, outcomes, serverVars>>

(* attempt > 0: compute the wait from the last failure and sleep.          *)
Sleep ==
  /\ pc = "top"
  /\ attempt > 0
  /\ \E jitter \in Jitters :
       IF OverflowChecks /\ Overflows(BaseFor(lastErr), attempt, jitter)
         THEN /\ pc' = "panicked"
              /\ result' = Abandoned
              /\ UNCHANGED wait
         ELSE /\ pc' = "sleeping"
              /\ wait' = BackoffForLastFailure(attempt, lastErr, jitter)
              /\ UNCHANGED result
  /\ UNCHANGED <<modes, route, attempt, lastErr, outcomes, serverVars>>

(* Mutant of Send: the retries run in a task of their own, which goes on   *)
(* when the caller has dropped the call.                                   *)
SendDetached ==
  /\ pc \in {"sleeping", "dropped"} \/ (pc = "top" /\ attempt = 0)
  /\ server[attempt] = "unsent"
  /\ pc' = "sending"
  /\ server' = [server EXCEPT ![attempt] = "inflight"]
  /\ UNCHANGED <<modes, route, attempt, lastErr, wait, outcomes, result, answer>>

Send ==
  /\ pc = "sleeping" \/ (pc = "top" /\ attempt = 0)
  /\ pc' = "sending"
  /\ server' = [server EXCEPT ![attempt] = "inflight"]
  /\ UNCHANGED <<modes, route, attempt, lastErr, wait, outcomes, result, answer>>

(* The head of the response arrives: the retry loop branches on it.        *)
ReceiveHead ==
  /\ pc = "sending"
  /\ server[attempt] = "answered"
  /\ outcomes' = [outcomes EXCEPT ![attempt] = Responded(answer[attempt])]
  /\ pc' = IF ~ IsSuccess(answer[attempt]) THEN "draining"
           ELSE IF route = "once" THEN "body"
           ELSE "open"
  /\ UNCHANGED <<modes, route, attempt, lastErr, wait, result, serverVars>>

(* Mutants of RetryOrReturn: last_err keeps the first failure; the failure *)
(* of the attempt before is returned; the attempts are not counted.        *)
RetryWithFirstError(retryable, e) ==
  IF retryable /\ attempt < MaxRetries
    THEN /\ pc' = "top"
         /\ attempt' = attempt + 1
         /\ lastErr' = IF lastErr = NoError THEN e ELSE lastErr
         /\ UNCHANGED result
    ELSE /\ Return(Failure(e))
         /\ UNCHANGED <<attempt, lastErr>>

ReturnLastErr(retryable, e) ==
  IF retryable /\ attempt < MaxRetries
    THEN /\ pc' = "top"
         /\ attempt' = attempt + 1
         /\ lastErr' = e
         /\ UNCHANGED result
    ELSE /\ Return(Failure(IF lastErr = NoError THEN e ELSE lastErr))
         /\ UNCHANGED <<attempt, lastErr>>

RetryUncounted(retryable, e) ==
  IF retryable /\ attempt < MaxRetries
    THEN /\ pc' = "top"
         /\ lastErr' = e
         /\ UNCHANGED <<attempt, result>>
    ELSE /\ Return(Failure(e))
         /\ UNCHANGED <<attempt, lastErr>>

(* The end of a failed iteration: go round again with last_err = Some(e),  *)
(* or give the caller e.                                                   *)
RetryOrReturn(retryable, e) ==
  IF retryable /\ attempt < MaxRetries
    THEN /\ pc' = "top"
         /\ attempt' = attempt + 1
         /\ lastErr' = e
         /\ UNCHANGED result
    ELSE /\ Return(Failure(e))
         /\ UNCHANGED <<attempt, lastErr>>

(* client.send fails: no connection, connection lost, timeout.  Whatever   *)
(* the server has made of the request, the client cannot tell.             *)
TransportFailure ==
  /\ pc = "sending"
  /\ outcomes' = [outcomes EXCEPT ![attempt] = NoResponse]
  /\ RetryOrReturn(TRUE, LlmGeneralError)
  /\ UNCHANGED <<modes, route, wait, serverVars>>

(* response.text() of an error response never fails: a body that breaks    *)
(* off is used as far as it came, and only the status decides.             *)
DrainErrorBody ==
  /\ pc = "draining"
  /\ RetryOrReturn(IsRetryable(answer[attempt]), ApiError(answer[attempt]))
  /\ UNCHANGED <<modes, route, wait, outcomes, serverVars>>

(* Mutant of ReadBody: a body that does not parse is asked for again.      *)
ReadBodyOrRetry ==
  /\ pc = "body"
  /\ \/ Return(Answer(attempt)) /\ UNCHANGED <<attempt, lastErr>>
     \/ RetryOrReturn(TRUE, LlmGeneralError)
  /\ UNCHANGED <<modes, route, wait, outcomes, serverVars>>

(* execute_once: the body, whole or as far as it came, goes to             *)
(* parse_response, which answers or refuses it.                            *)
ReadBody ==
  /\ pc = "body"
  /\ \E v \in {Answer(attempt), Failure(LlmGeneralError)} : Return(v)
  /\ UNCHANGED <<modes, route, attempt, lastErr, wait, outcomes, serverVars>>

(* parse_sse_stream: refused by the trait's default, granted by adapters   *)
(* that implement it.  stream() returns it, chat() goes on to collect it.  *)
OpenStream ==
  /\ pc = "open"
  /\ \/ Return(Failure(LlmGeneralError))
     \/ /\ route = "stream"
        /\ Return(Live(attempt))
     \/ /\ route = "collect"
        /\ pc' = "collecting"
        /\ UNCHANGED result
  /\ UNCHANGED <<modes, route, attempt, lastErr, wait, outcomes, serverVars>>

(* collect_response, of which module ChatStream has the detail.            *)
Collect ==
  /\ pc = "collecting"
  /\ \E v \in {Answer(attempt), Failure(LlmGeneralError), Failure(StreamError)} : Return(v)
  /\ UNCHANGED <<modes, route, attempt, lastErr, wait, outcomes, serverVars>>

(* The caller drops the future at an await point, e.g. under a timeout of  *)
(* its own.                                                                *)
DropFuture ==
  /\ pc \in Running \ {"top", "open"}
  /\ pc' = "dropped"
  /\ result' = Abandoned
  /\ UNCHANGED <<modes, route, attempt, lastErr, wait, outcomes, serverVars>>

-----------------------------------------------------------------------------
(* The network and the server. *)

Lose(k) ==
  /\ server[k] = "inflight"
  /\ server' = [server EXCEPT ![k] = "lost"]
  /\ UNCHANGED <<clientVars, answer>>

AnswerWith(k, status) ==
  /\ server[k] = "inflight"
  /\ server' = [server EXCEPT ![k] = "answered"]
  /\ answer' = [answer EXCEPT ![k] = status]
  /\ UNCHANGED clientVars

-----------------------------------------------------------------------------

Call == Stream \/ Chat

Progress ==
  \/ Sleep \/ Send \/ ReceiveHead \/ TransportFailure
  \/ DrainErrorBody \/ ReadBody \/ OpenStream \/ Collect

Server == \E k \in Attempts : Lose(k) \/ \E status \in Statuses : AnswerWith(k, status)

Next == Call \/ Progress \/ DropFuture \/ Server

Spec == Init /\ [][Next]_vars

(* A call that has started is driven on: every sleep ends, the connect and *)
(* read timeouts of the client that with_config builds end every send, and *)
(* bodies are finite.  A client of the caller's own, in config.client or   *)
(* with_http_client, may have no timeouts and is left out here.  Nothing   *)
(* is assumed of the server, the network or the caller.                    *)
FairSpec == Spec /\ WF_vars(Progress)

-----------------------------------------------------------------------------
(* Properties. *)

Sent(k) == server[k] # "unsent"
Executed(k) == server[k] = "answered" /\ IsSuccess(answer[k])

(* The caller is given what the last exchange of the call came to: an      *)
(* answer or a stream is made from a success after which nothing was sent; *)
(* an API error carries the status of the last response, and is reported   *)
(* only when no retry could cure it or none was left.  (The return points  *)
(* of both retry loops.)                                                   *)
VerdictIsOfLastExchange ==
  LET last == result.from IN
  /\ result.tag \in {"answer", "live"} =>
       /\ Succeeded(outcomes[last])
       /\ \A k \in Attempts : k > last => ~ Sent(k)
  /\ result.error.kind = "LlmApi" =>
       \E k \in Attempts :
         /\ outcomes[k] = Responded(result.error.status)
         /\ ~ Succeeded(outcomes[k])
         /\ k = MaxRetries \/ ~ Curable(outcomes[k])
         /\ \A j \in Attempts : j > k => ~ Sent(j)

(* A request leaves only after every one before it failed in a way that a  *)
(* retry may cure; above all, once a success has begun to arrive nothing   *)
(* is sent again, however its body or its stream then ends ("once          *)
(* streaming starts, errors cannot be retried").                           *)
ResendOnlyAfterCurable ==
  \A k \in Attempts : Sent(k) => \A j \in 0 .. k-1 : Curable(outcomes[j])

(* The completion is a POST that is not idempotent.  The server runs it    *)
(* twice only where the client never saw the first answer: a retry after a *)
(* response always follows a response that refused the work.               *)
RunTwiceOnlyIfUnseen ==
  \A j, k \in Attempts :
    (j < k /\ Executed(j) /\ Executed(k)) => outcomes[j] = NoResponse

(* While the call sleeps before a retry, the wait is the one the failure   *)
(* just seen on the wire asks for: base * 2^(attempt-1) plus the jitter,   *)
(* capped, on the patient schedule after a 429 and the regular one after   *)
(* anything else, a lost connection included.                              *)
WaitFitsLastFailure ==
  pc = "sleeping" =>
    LET o == outcomes[attempt - 1]
        limited == o = Responded(429)
        base == IF limited THEN RateLimitRetryDelay ELSE RetryDelay
        cap == IF limited THEN RateLimitCap ELSE BackoffCap
        full == Exponential(base, attempt)
    IN  /\ wait >= Shorter(full, cap)
        /\ wait <= Shorter(full + MaxJitter, cap)

(* When the call has returned, was dropped by its caller or panicked, the  *)
(* client sends nothing more and the verdict stays what it is.             *)
SendsNothing == \A k \in Attempts : Sent(k)' => Sent(k)
QuietAfterEnd == [][(pc \in Ended) => (result' = result /\ SendsNothing)]_vars

(* The inductive invariant behind the theorems: where the call is fixes    *)
(* how the exchange of the current attempt stands, every earlier one       *)
(* failed curably, no later one was begun, and last_err is the failure of  *)
(* the exchange before the current one.                                    *)
ErrorOf(o) == IF o = NoResponse THEN LlmGeneralError ELSE ApiError(o.status)

CurrentExchange ==
  /\ pc \in Ended <=> result # Pending
  /\ pc = "idle" => attempt = 0
  /\ pc \in {"idle", "top", "sleeping"} => ~ Sent(attempt)
  /\ pc = "sending" => Sent(attempt)
  /\ pc \in {"idle", "top", "sleeping", "sending"} => outcomes[attempt] = NotMade
  /\ pc = "draining" => outcomes[attempt].kind = "Responded" /\ ~ Succeeded(outcomes[attempt])
  /\ pc \in {"body", "open", "collecting"} => Succeeded(outcomes[attempt])

PastAndFuture ==
  /\ \A k \in Attempts : k < attempt => Curable(outcomes[k])
  /\ \A k \in Attempts : k > attempt => outcomes[k] = NotMade /\ ~ Sent(k)
  /\ attempt > 0 => lastErr = ErrorOf(outcomes[attempt - 1])

SeenIsAnswered ==
  /\ \A k \in Attempts : server[k] = "answered" => answer[k] # 0
  /\ \A k \in Attempts : outcomes[k].kind = "Responded" =>
       server[k] = "answered" /\ outcomes[k] = Responded(answer[k])

VerdictFromCurrent ==
  /\ result.tag \in {"answer", "live"} => result.from = attempt /\ Succeeded(outcomes[attempt])
  /\ result.error.kind = "LlmApi" =>
       /\ outcomes[attempt] = Responded(result.error.status)
       /\ ~ Succeeded(outcomes[attempt])
       /\ attempt = MaxRetries \/ ~ Curable(outcomes[attempt])

IInv == TypeOK /\ CurrentExchange /\ PastAndFuture /\ SeenIsAnswered /\ VerdictFromCurrent

(* A call that is not dropped ends: the loop is bounded, also when every   *)
(* single exchange fails.                                                  *)
Termination == (pc \in Running) ~> (pc \in Ended)

(* GenericProvider implements the abstract call.                           *)
AbstractCall == INSTANCE RetriedCall WITH verdict <- result
ImplementsRetriedCall == AbstractCall!Spec

==============================================================================
