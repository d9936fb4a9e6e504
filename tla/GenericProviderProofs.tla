------------------------ MODULE GenericProviderProofs ------------------------
(***************************************************************************)
(* Theorems about the transport: about GenericProvider, for every retry    *)
(* budget, every set of statuses, every configured delay and every word    *)
(* width; and about HttpBody, which it reads an answer with, for every     *)
(* document and every way the network cuts it into chunks.                 *)
(***************************************************************************)
EXTENDS GenericProvider, HttpBody, Foundations

(* What fits into the word is kept by it.                                  *)
LEMMA WrapType ==
  ASSUME NEW n \in Nat
  PROVE  Wrap(n) \in Nat /\ (n < 2^WordBits => Wrap(n) = n)
<1> DEFINE word == 2^WordBits
<1>1. word \in Nat /\ word >= 1
  BY PowerType, BackoffAssumption
<1> HIDE DEF word
<1>2. n % word \in Nat /\ (n < word => n % word = n)
  BY <1>1, Remainder
<1> QED
  BY <1>2 DEF Wrap, word

(* The exponential and its wrapped form are numbers.                       *)
LEMMA ExponentialType ==
  ASSUME NEW base \in Nat, NEW n \in Nat
  PROVE  /\ Exponent(n) \in Nat
         /\ 2^Exponent(n) \in Nat
         /\ Exponential(base, n) \in Nat
         /\ WrappedExponential(base, n) \in Nat
<1>1. Exponent(n) \in Nat
  BY DEF Exponent
<1>2. 2^Exponent(n) \in Nat
  BY <1>1, PowerType
<1>3. Wrap(2^Exponent(n)) \in Nat
  BY <1>2, WrapType
<1>4. base * 2^Exponent(n) \in Nat
  BY <1>2
<1>5. base * Wrap(2^Exponent(n)) \in Nat
  BY <1>3
<1> QED
  BY <1>1, <1>2, <1>4, <1>5, WrapType DEF Exponential, WrappedExponential

(* A wait never exceeds its cap, whatever the arithmetic does.             *)
LEMMA WaitBounded ==
  ASSUME NEW base \in Nat, NEW cap \in Nat, NEW n \in Nat, NEW j \in 0 .. MaxJitter
  PROVE  BackoffWith(base, cap, n, j) \in 0 .. cap
<1>0. WrappedExponential(base, n) \in Nat
  BY ExponentialType
<1>1. WrappedExponential(base, n) + j \in Nat
  BY <1>0 DEF MaxJitter
<1>2. Wrap(WrappedExponential(base, n) + j) \in Nat
  BY <1>1, WrapType
<1> QED
  BY <1>2 DEF BackoffWith, Shorter

(* Where nothing overflows, the wait is the one exact arithmetic gives.    *)
LEMMA WaitExact ==
  ASSUME NEW base \in Nat, NEW cap \in Nat, NEW n \in Nat, NEW j \in 0 .. MaxJitter,
         ~ Overflows(base, n, j)
  PROVE  BackoffWith(base, cap, n, j) = Shorter(Exponential(base, n) + j, cap)
<1> DEFINE e == Exponential(base, n)
           p == 2^Exponent(n)
           word == 2^WordBits
<1>0. e \in Nat /\ p \in Nat /\ word \in Nat
  BY ExponentialType, PowerType, BackoffAssumption
<1>1. e \in Nat /\ p \in Nat /\ j \in Nat /\ word \in Nat
  BY <1>0 DEF MaxJitter
<1>2. p < word /\ e + j < word
  BY <1>1 DEF Overflows
<1>3. e = base * p
  BY DEF Exponential
<1>4. Wrap(p) = p
  BY <1>1, <1>2, WrapType
<1> HIDE DEF e, p, word
<1>5. e < word
  BY <1>1, <1>2
<1>6. Wrap(e) = e /\ Wrap(e + j) = e + j
  BY <1>1, <1>2, <1>5, WrapType DEF word
<1>7. WrappedExponential(base, n) = e
  BY <1>3, <1>4, <1>6 DEF WrappedExponential, p
<1> QED
  BY <1>6, <1>7 DEF BackoffWith, e

-----------------------------------------------------------------------------

(* The cap of a wait depends on the failure, and is below the larger one.  *)
LEMMA CapForInMaxWait ==
  MaxWait \in Nat /\ \A e : CapFor(e) \in Nat /\ CapFor(e) <= MaxWait
BY DEF CapFor, MaxWait, Max2, BackoffCap, RateLimitCap

(* The delay a failure starts from is a number.                            *)
LEMMA BaseForNat == \A e : BaseFor(e) \in Nat
BY BackoffAssumption DEF BaseFor

(* Every way a call returns is a verdict.                                  *)
LEMMA VerdictType ==
  /\ Pending \in Verdict /\ Abandoned \in Verdict
  /\ \A k \in Attempts : Answer(k) \in Verdict /\ Live(k) \in Verdict
  /\ \A e \in LlmError(Statuses) : Failure(e) \in Verdict
BY DEF Verdict

(* The errors the code makes itself, and those of a status.                *)
LEMMA ErrorType ==
  /\ {ConfigError, LlmGeneralError, StreamError} \subseteq LlmError(Statuses)
  /\ \A s \in Statuses : ApiError(s) \in LlmError(Statuses)
BY DEF LlmError

(* Every way an exchange can end is an outcome.                            *)
LEMMA OutcomeType ==
  /\ NotMade \in Outcome /\ NoResponse \in Outcome
  /\ \A s \in Statuses : Responded(s) \in Outcome
BY DEF Outcome

(* Every variable keeps its type; an answered request has a status.        *)
AnsweredHasStatus == \A k \in Attempts : server[k] = "answered" => answer[k] # 0
TypeInv == TypeOK /\ AnsweredHasStatus /\ (pc = "draining" => server[attempt] = "answered")

(* Types hold at first, and every step keeps them.                         *)
LEMMA TypeInit == Init => TypeInv
<1> SUFFICES ASSUME Init PROVE TypeInv
  OBVIOUS
<1> QED
  BY CallAssumption, VerdictType, OutcomeType
  DEF Init, TypeInv, TypeOK, AnsweredHasStatus, Attempts, Route, Location, MaxWait, Max2,
      BackoffCap, RateLimitCap

(* No step leaves the types.                                               *)
LEMMA TypeStep == TypeInv /\ [Next]_vars => TypeInv'
<1> SUFFICES ASSUME TypeInv, [Next]_vars PROVE TypeInv'
  OBVIOUS
<1> USE DEF TypeInv, TypeOK, AnsweredHasStatus
<1>a. /\ ConfigError \in LlmError(Statuses) /\ LlmGeneralError \in LlmError(Statuses)
      /\ StreamError \in LlmError(Statuses)
      /\ Failure(ConfigError) \in Verdict /\ Failure(LlmGeneralError) \in Verdict
      /\ Failure(StreamError) \in Verdict
  BY VerdictType, ErrorType
<1>b. "once" \in Route /\ "stream" \in Route /\ "collect" \in Route
  BY DEF Route
<1>c. Running \subseteq Location /\ Ended \subseteq Location
  BY DEF Location
<1>1. CASE Stream
  BY <1>1, <1>a, <1>b, <1>c DEF Stream, BuildAndRun, Return, serverVars, Running, Ended
<1>2. CASE Chat
  BY <1>2, <1>a, <1>b, <1>c DEF Chat, BuildAndRun, Return, serverVars, Running, Ended
<1>3. CASE Sleep
  <2>1. PICK jitter \in Jitters :
          IF OverflowChecks /\ Overflows(BaseFor(lastErr), attempt, jitter)
            THEN pc' = "panicked" /\ result' = Abandoned /\ UNCHANGED wait
            ELSE /\ pc' = "sleeping"
                 /\ wait' = BackoffForLastFailure(attempt, lastErr, jitter)
                 /\ UNCHANGED result
    BY <1>3 DEF Sleep
  <2>2. attempt \in Nat /\ jitter \in 0 .. MaxJitter
    BY CallAssumption, ProviderAssumption DEF Attempts
  <2>3. BackoffForLastFailure(attempt, lastErr, jitter) \in 0 .. CapFor(lastErr)
    BY <2>2, WaitBounded, BaseForNat, CapForInMaxWait DEF BackoffForLastFailure
  <2>4. BackoffForLastFailure(attempt, lastErr, jitter) \in 0 .. MaxWait
    BY <2>3, CapForInMaxWait
  <2> QED
    BY <1>3, <1>c, <2>1, <2>4, VerdictType DEF Sleep, serverVars, Running, Ended
<1>4. CASE Send
  BY <1>4, <1>c DEF Send, Running
<1>5. CASE ReceiveHead
  <2>1. answer[attempt] \in Statuses
    BY <1>5 DEF ReceiveHead
  <2> QED
    BY <1>5, <1>c, <2>1, OutcomeType DEF ReceiveHead, serverVars, Running
<1>6. CASE TransportFailure
  <2>1. attempt < MaxRetries => attempt + 1 \in Attempts
    BY CallAssumption DEF Attempts
  <2> QED
    BY <1>6, <1>a, <1>c, <2>1, OutcomeType
    DEF TransportFailure, RetryOrReturn, Return, serverVars, Running, Ended
<1>7. CASE DrainErrorBody
  <2>1. attempt < MaxRetries => attempt + 1 \in Attempts
    BY CallAssumption DEF Attempts
  <2>2. answer[attempt] \in Statuses
    BY <1>7 DEF DrainErrorBody
  <2>3. /\ ApiError(answer[attempt]) \in LlmError(Statuses)
        /\ Failure(ApiError(answer[attempt])) \in Verdict
    BY <2>2, ErrorType, VerdictType
  <2> QED
    BY <1>7, <1>c, <2>1, <2>3
    DEF DrainErrorBody, RetryOrReturn, Return, serverVars, Running, Ended
<1>8. CASE ReadBody
  BY <1>8, <1>a, <1>c, VerdictType DEF ReadBody, Return, serverVars, Ended
<1>9. CASE OpenStream
  BY <1>9, <1>a, <1>c, VerdictType DEF OpenStream, Return, serverVars, Running, Ended
<1>10. CASE Collect
  BY <1>10, <1>a, <1>c, VerdictType DEF Collect, Return, serverVars, Ended
<1>11. CASE DropFuture
  BY <1>11, <1>c, VerdictType DEF DropFuture, serverVars, Ended
<1>12. ASSUME NEW k \in Attempts, Lose(k)
       PROVE  TypeInv'
  BY <1>12 DEF Lose, clientVars
<1>13. ASSUME NEW k \in Attempts, NEW status \in Statuses, AnswerWith(k, status)
       PROVE  TypeInv'
  BY <1>13, CallAssumption DEF AnswerWith, clientVars
<1>14. CASE UNCHANGED vars
  BY <1>14 DEF vars
<1> QED
  BY <1>1, <1>2, <1>3, <1>4, <1>5, <1>6, <1>7, <1>8, <1>9, <1>10, <1>11, <1>12, <1>13, <1>14
  DEF Next, Call, Progress, Server

(* Every variable keeps its type in every state of every call.             *)
THEOREM TypeCorrect == Spec => []TypeOK
<1>1. Spec => []TypeInv
  BY TypeInit, TypeStep, PTL DEF Spec
<1>2. TypeInv => TypeOK
  BY DEF TypeInv
<1> QED
  BY <1>1, <1>2, PTL

-----------------------------------------------------------------------------

(* The ways a call may return, told apart.                                 *)
LEMMA VerdictFacts ==
  /\ Pending.tag = "pending" /\ Pending.error.kind = "None"
  /\ Abandoned.tag = "abandoned" /\ Abandoned.error.kind = "None" /\ Abandoned # Pending
  /\ \A k : /\ Answer(k).tag = "answer" /\ Answer(k).from = k
            /\ Answer(k).error.kind = "None" /\ Answer(k) # Pending
  /\ \A k : /\ Live(k).tag = "live" /\ Live(k).from = k
            /\ Live(k).error.kind = "None" /\ Live(k) # Pending
  /\ \A e : /\ Failure(e).tag = "error" /\ Failure(e).error = e /\ Failure(e) # Pending
  /\ ConfigError.kind = "Config" /\ LlmGeneralError.kind = "Llm" /\ StreamError.kind = "Stream"
  /\ \A s : ApiError(s).kind = "LlmApi" /\ ApiError(s).status = s
BY DEF Pending, Abandoned, Answer, Live, Failure, ConfigError, LlmGeneralError, StreamError,
       ApiError, NoError

(* What an outcome says of the exchange.                                   *)
LEMMA OutcomeFacts ==
  /\ NotMade.kind = "NotMade" /\ ~ Succeeded(NotMade) /\ ~ Curable(NotMade)
  /\ NoResponse.kind = "NoResponse" /\ Curable(NoResponse) /\ ~ Succeeded(NoResponse)
  /\ \A s : /\ Responded(s).kind = "Responded" /\ Responded(s).status = s
            /\ Responded(s) # NoResponse /\ Responded(s) # NotMade
            /\ Succeeded(Responded(s)) <=> IsSuccess(s)
            /\ ErrorOf(Responded(s)) = ApiError(s)
  /\ \A s \in Statuses : Curable(Responded(s)) <=> IsRetryable(s)
  /\ ErrorOf(NoResponse) = LlmGeneralError
  /\ \A o \in Outcome : Curable(o) => ~ Succeeded(o)
<1>1. \A s \in Statuses : Curable(Responded(s)) <=> IsRetryable(s)
  BY CallAssumption DEF Curable, Responded, IsRetryable
<1>2. \A o \in Outcome : Curable(o) => ~ Succeeded(o)
  BY CallAssumption DEF Outcome, Curable, Succeeded, IsSuccess, NotMade, NoResponse, Responded
<1> QED
  BY <1>1, <1>2
  DEF NotMade, NoResponse, Responded, Succeeded, Curable, ErrorOf

(* A call that has not begun has no past.                                  *)
LEMMA InvInit == Init => IInv
<1> SUFFICES ASSUME Init PROVE IInv
  OBVIOUS
<1>1. TypeOK
  BY TypeInit DEF TypeInv
<1>2. CurrentExchange
  BY CallAssumption DEF Init, CurrentExchange, Ended, Running, Sent, Attempts
<1>3. PastAndFuture
  BY CallAssumption DEF Init, PastAndFuture, Attempts, Sent
<1>4. SeenIsAnswered
  BY OutcomeFacts DEF Init, SeenIsAnswered
<1>5. VerdictFromCurrent
  BY VerdictFacts DEF Init, VerdictFromCurrent
<1> QED
  BY <1>1, <1>2, <1>3, <1>4, <1>5 DEF IInv

(* A failed iteration: the loop goes round again with the failure, or      *)
(* returns it.                                                             *)
LEMMA RetryStep ==
  ASSUME IInv, NEW e, NEW retryable \in BOOLEAN,
         RetryOrReturn(retryable, e),
         outcomes' \in [Attempts -> Outcome],
         \A k \in Attempts \ {attempt} : outcomes'[k] = outcomes[k],
         e = ErrorOf(outcomes'[attempt]),
         retryable => Curable(outcomes'[attempt]),
         ~ retryable => ~ Curable(outcomes'[attempt]),
         ~ Succeeded(outcomes'[attempt]),
         \/ outcomes'[attempt] = NoResponse
         \/ \E s \in Statuses : outcomes'[attempt] = Responded(s),
         pc \in {"sending", "draining"}, Sent(attempt), UNCHANGED serverVars
  PROVE  CurrentExchange' /\ PastAndFuture' /\ VerdictFromCurrent'
<1> USE DEF IInv
<1>0. attempt \in 0 .. MaxRetries /\ MaxRetries \in Nat /\ Attempts = 0 .. MaxRetries
  BY CallAssumption DEF TypeOK, Attempts
<1>1. CASE retryable /\ attempt < MaxRetries
  <2>1. pc' = "top" /\ attempt' = attempt + 1 /\ lastErr' = e /\ result' = result
    BY <1>1 DEF RetryOrReturn
  <2>2. attempt + 1 \in Attempts /\ attempt' - 1 = attempt
    BY <1>0, <1>1, <2>1
  <2>3. outcomes'[attempt + 1] = NotMade /\ server'[attempt + 1] = "unsent"
    BY <1>0, <2>2 DEF PastAndFuture, Sent, serverVars
  <2>4. result' = Pending
    BY <2>1 DEF CurrentExchange, Ended
  <2>5. CurrentExchange'
    BY <2>1, <2>3, <2>4 DEF CurrentExchange, Ended, Sent
  <2>6. PastAndFuture'
    BY <1>0, <1>1, <2>1, <2>2 DEF PastAndFuture, Sent, serverVars
  <2>7. VerdictFromCurrent'
    BY <2>4, VerdictFacts DEF VerdictFromCurrent
  <2> QED
    BY <2>5, <2>6, <2>7
<1>2. CASE ~ (retryable /\ attempt < MaxRetries)
  <2>1. pc' = "returned" /\ result' = Failure(e) /\ attempt' = attempt /\ lastErr' = lastErr
    BY <1>2 DEF RetryOrReturn, Return
  <2>2. CurrentExchange'
    BY <2>1, VerdictFacts DEF CurrentExchange, Ended
  <2>3. PastAndFuture'
    BY <1>0, <2>1 DEF PastAndFuture, Sent, serverVars
  <2>4. VerdictFromCurrent'
    <3>1. result'.tag = "error" /\ result'.error = e
      BY <2>1, VerdictFacts
    <3>2. ASSUME e.kind = "LlmApi"
          PROVE  outcomes'[attempt] = Responded(e.status)
      BY <3>2, VerdictFacts, OutcomeFacts
    <3>3. attempt = MaxRetries \/ ~ Curable(outcomes'[attempt])
      BY <1>0, <1>2
    <3> QED
      BY <2>1, <3>1, <3>2, <3>3 DEF VerdictFromCurrent
  <2> QED
    BY <2>2, <2>3, <2>4
<1> QED
  BY <1>1, <1>2

(* Steps that neither change what the server has nor go round the loop.    *)
LEMMA InvStep == IInv /\ [Next]_vars => IInv'
<1> SUFFICES ASSUME IInv, [Next]_vars PROVE IInv'
  OBVIOUS
<1> USE DEF IInv
<1>0. /\ attempt \in 0 .. MaxRetries /\ MaxRetries \in Nat /\ Attempts = 0 .. MaxRetries
      /\ attempt \in Attempts
  BY CallAssumption DEF TypeOK, Attempts
<1>t. TypeOK'
  BY TypeStep, <1>0, OutcomeFacts DEF TypeInv, AnsweredHasStatus, SeenIsAnswered, CurrentExchange
<1>1. CASE Stream
  <2>1. /\ UNCHANGED <<attempt, lastErr, outcomes, serverVars>>
        /\ \/ pc' = "top" /\ result' = result
           \/ pc' = "returned" /\ \E e \in {ConfigError, LlmGeneralError} : result' = Failure(e)
    BY <1>1 DEF Stream, BuildAndRun, Return
  <2>2. CurrentExchange'
    BY <1>1, <2>1, VerdictFacts DEF Stream, CurrentExchange, Ended, Sent, serverVars
  <2>3. VerdictFromCurrent'
    BY <1>1, <2>1, VerdictFacts DEF Stream, CurrentExchange, VerdictFromCurrent, Ended
  <2> QED
    BY <1>t, <2>1, <2>2, <2>3 DEF PastAndFuture, SeenIsAnswered, Sent, serverVars
<1>2. CASE Chat
  <2>1. /\ UNCHANGED <<attempt, lastErr, outcomes, serverVars>>
        /\ \/ pc' = "top" /\ result' = result
           \/ pc' = "returned" /\ \E e \in {ConfigError, LlmGeneralError} : result' = Failure(e)
    BY <1>2 DEF Chat, BuildAndRun, Return
  <2>2. CurrentExchange'
    BY <1>2, <2>1, VerdictFacts DEF Chat, CurrentExchange, Ended, Sent, serverVars
  <2>3. VerdictFromCurrent'
    BY <1>2, <2>1, VerdictFacts DEF Chat, CurrentExchange, VerdictFromCurrent, Ended
  <2> QED
    BY <1>t, <2>1, <2>2, <2>3 DEF PastAndFuture, SeenIsAnswered, Sent, serverVars
<1>3. CASE Sleep
  <2>1. /\ UNCHANGED <<attempt, lastErr, outcomes, serverVars>>
        /\ \/ pc' = "panicked" /\ result' = Abandoned
           \/ pc' = "sleeping" /\ result' = result
    BY <1>3 DEF Sleep
  <2>2. CurrentExchange'
    BY <1>3, <2>1, VerdictFacts DEF Sleep, CurrentExchange, Ended, Sent, serverVars
  <2>3. VerdictFromCurrent'
    BY <2>1, VerdictFacts DEF VerdictFromCurrent
  <2> QED
    BY <1>t, <2>1, <2>2, <2>3 DEF PastAndFuture, SeenIsAnswered, Sent, serverVars
<1>4. CASE Send
  <2>1. /\ pc' = "sending" /\ UNCHANGED <<attempt, lastErr, outcomes, result, answer>>
        /\ server' = [server EXCEPT ![attempt] = "inflight"]
        /\ pc \in {"top", "sleeping"}
    BY <1>4 DEF Send
  <2>2. CurrentExchange'
    BY <1>0, <2>1 DEF CurrentExchange, Ended, Sent, TypeOK
  <2>3. PastAndFuture'
    BY <1>0, <2>1 DEF PastAndFuture, Sent, TypeOK
  <2>4. SeenIsAnswered'
    BY <1>0, <2>1, OutcomeFacts DEF SeenIsAnswered, CurrentExchange, TypeOK
  <2> QED
    BY <1>t, <2>1, <2>2, <2>3, <2>4 DEF VerdictFromCurrent
<1>5. CASE ReceiveHead
  <2>1. /\ UNCHANGED <<attempt, lastErr, result, serverVars>>
        /\ outcomes' = [outcomes EXCEPT ![attempt] = Responded(answer[attempt])]
        /\ pc = "sending" /\ server[attempt] = "answered"
        /\ pc' \in {"draining", "body", "open"}
        /\ pc' = "draining" <=> ~ IsSuccess(answer[attempt])
    BY <1>5 DEF ReceiveHead
  <2>2. CurrentExchange'
    BY <1>0, <2>1, OutcomeFacts DEF CurrentExchange, Ended, TypeOK
  <2>3. PastAndFuture'
    BY <1>0, <2>1 DEF PastAndFuture, Sent, serverVars, TypeOK
  <2>4. SeenIsAnswered'
    BY <1>0, <2>1 DEF SeenIsAnswered, serverVars, TypeOK
  <2>5. VerdictFromCurrent'
    BY <2>1, VerdictFacts DEF VerdictFromCurrent, CurrentExchange, Ended
  <2> QED
    BY <1>t, <2>2, <2>3, <2>4, <2>5
<1>6. CASE TransportFailure
  <2>1. /\ pc = "sending" /\ UNCHANGED serverVars
        /\ outcomes' = [outcomes EXCEPT ![attempt] = NoResponse]
        /\ RetryOrReturn(TRUE, LlmGeneralError)
    BY <1>6 DEF TransportFailure
  <2>2. /\ outcomes'[attempt] = NoResponse
        /\ \A k \in Attempts \ {attempt} : outcomes'[k] = outcomes[k]
        /\ outcomes' \in [Attempts -> Outcome]
    BY <1>0, <2>1, OutcomeType DEF TypeOK
  <2>3. Sent(attempt)
    BY <2>1 DEF CurrentExchange
  <2>4. CurrentExchange' /\ PastAndFuture' /\ VerdictFromCurrent'
    BY <2>1, <2>2, <2>3, OutcomeFacts, RetryStep
  <2>5. SeenIsAnswered'
    BY <1>0, <2>1, <2>2, OutcomeFacts DEF SeenIsAnswered, serverVars
  <2> QED
    BY <1>t, <2>4, <2>5
<1>7. CASE DrainErrorBody
  <2>1. /\ pc = "draining" /\ UNCHANGED <<outcomes, serverVars>>
        /\ RetryOrReturn(IsRetryable(answer[attempt]), ApiError(answer[attempt]))
    BY <1>7 DEF DrainErrorBody
  <2>2. /\ outcomes[attempt] = Responded(answer[attempt])
        /\ ~ Succeeded(outcomes[attempt])
        /\ Sent(attempt)
    BY <1>0, <2>1 DEF CurrentExchange, SeenIsAnswered, Sent
  <2>3. answer[attempt] \in Statuses
    BY <1>0, <2>2, OutcomeFacts DEF TypeOK, Outcome, SeenIsAnswered
  <2> DEFINE retryable == IsRetryable(answer[attempt])
             e == ApiError(answer[attempt])
  <2>a. /\ retryable \in BOOLEAN
        /\ retryable <=> Curable(outcomes'[attempt])
        /\ e = ErrorOf(outcomes'[attempt])
    BY <2>1, <2>2, <2>3, OutcomeFacts DEF IsRetryable
  <2>b. /\ outcomes' \in [Attempts -> Outcome]
        /\ \A k \in Attempts \ {attempt} : outcomes'[k] = outcomes[k]
        /\ ~ Succeeded(outcomes'[attempt])
        /\ \E s \in Statuses : outcomes'[attempt] = Responded(s)
    BY <2>1, <2>2, <2>3 DEF TypeOK
  <2> HIDE DEF e, retryable
  <2>c. RetryOrReturn(retryable, e) /\ pc \in {"sending", "draining"} /\ UNCHANGED serverVars
    BY <2>1 DEF e, retryable
  <2>4. CurrentExchange' /\ PastAndFuture' /\ VerdictFromCurrent'
    BY <2>2, <2>a, <2>b, <2>c, RetryStep
  <2>5. SeenIsAnswered'
    BY <2>1 DEF SeenIsAnswered, serverVars
  <2> QED
    BY <1>t, <2>4, <2>5
<1>8. CASE ReadBody \/ OpenStream \/ Collect
  <2>1. /\ UNCHANGED <<attempt, lastErr, outcomes, serverVars>>
        /\ pc \in {"body", "open", "collecting"}
        /\ \/ /\ pc' = "returned"
              /\ result' \in {Answer(attempt), Live(attempt), Failure(LlmGeneralError),
                              Failure(StreamError)}
           \/ pc' = "collecting" /\ result' = result
    BY <1>8 DEF ReadBody, OpenStream, Collect, Return
  <2>2. CurrentExchange'
    BY <2>1, VerdictFacts DEF CurrentExchange, Ended, Sent, serverVars
  <2>3. VerdictFromCurrent'
    BY <2>1, VerdictFacts DEF VerdictFromCurrent, CurrentExchange
  <2> QED
    BY <1>t, <2>1, <2>2, <2>3 DEF PastAndFuture, SeenIsAnswered, Sent, serverVars
<1>9. CASE DropFuture
  <2>1. /\ UNCHANGED <<attempt, lastErr, outcomes, serverVars>>
        /\ pc' = "dropped" /\ result' = Abandoned
    BY <1>9 DEF DropFuture
  <2>2. CurrentExchange' /\ VerdictFromCurrent'
    BY <2>1, VerdictFacts DEF CurrentExchange, VerdictFromCurrent, Ended
  <2> QED
    BY <1>t, <2>1, <2>2 DEF PastAndFuture, SeenIsAnswered, Sent, serverVars
<1>10. ASSUME NEW k \in Attempts, server[k] = "inflight",
              \/ Lose(k)
              \/ \E status \in Statuses : AnswerWith(k, status)
       PROVE  IInv'
  <2>1. /\ UNCHANGED <<pc, attempt, lastErr, outcomes, result>>
        /\ \A j \in Attempts \ {k} : server'[j] = server[j] /\ answer'[j] = answer[j]
        /\ server'[k] \in {"lost", "answered"}
        /\ server'[k] = "answered" => answer'[k] \in Statuses
    BY <1>10 DEF Lose, AnswerWith, clientVars, TypeOK
  <2>2. outcomes[k].kind # "Responded"
    BY <1>10 DEF SeenIsAnswered
  <2>3. CurrentExchange'
    BY <1>0, <1>10, <2>1 DEF CurrentExchange, Sent
  <2>4. PastAndFuture'
    BY <1>0, <1>10, <2>1 DEF PastAndFuture, Sent
  <2>5. SeenIsAnswered'
    BY <2>1, <2>2, CallAssumption DEF SeenIsAnswered
  <2> QED
    BY <1>t, <2>1, <2>3, <2>4, <2>5 DEF VerdictFromCurrent
<1>11. CASE UNCHANGED vars
  BY <1>t, <1>11 DEF vars, CurrentExchange, PastAndFuture, SeenIsAnswered, VerdictFromCurrent, Sent
<1>12. CASE Server
  BY <1>10, <1>12 DEF Server, Lose, AnswerWith
<1> QED
  BY <1>1, <1>2, <1>3, <1>4, <1>5, <1>6, <1>7, <1>8, <1>9, <1>11, <1>12 DEF Next, Call, Progress

(* The inductive invariant: what every earlier exchange was, how the       *)
(* current one stands and what last_err is (send_request, execute_stream). *)
THEOREM Invariance == Spec => []IInv
BY InvInit, InvStep, PTL DEF Spec

(* The caller is given what the last exchange of its call came to.         *)
THEOREM VerdictOfLastExchange == Spec => []VerdictIsOfLastExchange
<1>1. IInv => VerdictIsOfLastExchange
  <2> SUFFICES ASSUME IInv PROVE VerdictIsOfLastExchange
    OBVIOUS
  <2>1. \A k \in Attempts : k > attempt => ~ Sent(k)
    BY DEF IInv, PastAndFuture
  <2>2. attempt \in Attempts
    BY DEF IInv, TypeOK
  <2> QED
    BY <2>1, <2>2 DEF IInv, VerdictFromCurrent, VerdictIsOfLastExchange
<1> QED
  BY <1>1, Invariance, PTL

(* Nothing is sent but after exchanges that all failed curably: a success  *)
(* that began to arrive, an answer whose body broke off or a stream that   *)
(* died midway included, is never followed by another request.             *)
THEOREM NoResendAfterSuccess == Spec => []ResendOnlyAfterCurable
<1>1. IInv => ResendOnlyAfterCurable
  <2> SUFFICES ASSUME IInv, NEW k \in Attempts, Sent(k), NEW j \in 0 .. k-1
               PROVE  Curable(outcomes[j])
    BY DEF ResendOnlyAfterCurable
  <2>1. attempt \in Nat /\ k \in Nat /\ j \in Attempts /\ j < k
    BY CallAssumption DEF IInv, TypeOK, Attempts
  <2>2. ~ (k > attempt)
    BY DEF IInv, PastAndFuture
  <2> QED
    BY <2>1, <2>2 DEF IInv, PastAndFuture
<1> QED
  BY <1>1, Invariance, PTL

(* The server runs the completion twice only where its first answer was    *)
(* never seen.                                                             *)
THEOREM NoRepeatOfSeenSuccess == Spec => []RunTwiceOnlyIfUnseen
<1>1. IInv => RunTwiceOnlyIfUnseen
  <2> SUFFICES ASSUME IInv, NEW j \in Attempts, NEW k \in Attempts,
                      j < k, Executed(j), Executed(k)
               PROVE  outcomes[j] = NoResponse
    BY DEF RunTwiceOnlyIfUnseen
  <2>1. ~ (k > attempt)
    BY DEF IInv, PastAndFuture, Executed, Sent
  <2>2. attempt \in Nat /\ k \in Nat /\ j \in Nat
    BY CallAssumption DEF IInv, TypeOK, Attempts
  <2>3. Curable(outcomes[j])
    BY <2>1, <2>2 DEF IInv, PastAndFuture
  <2>4. outcomes[j] \in Outcome
    BY DEF IInv, TypeOK
  <2>5. ASSUME outcomes[j].kind = "Responded"
        PROVE  FALSE
    <3>1. outcomes[j] = Responded(answer[j])
      BY <2>5 DEF IInv, SeenIsAnswered
    <3> QED
      BY <2>3, <2>4, <3>1, OutcomeFacts DEF Executed
  <2> QED
    BY <2>3, <2>4, <2>5, OutcomeFacts DEF Outcome
<1> QED
  BY <1>1, Invariance, PTL

-----------------------------------------------------------------------------

(* The base and the cap of the schedule are chosen by the failure that was *)
(* seen on the wire last.                                                  *)
LEMMA ScheduleOfLastFailure ==
  ASSUME NEW o \in Outcome, Curable(o)
  PROVE  RateLimited(ErrorOf(o)) <=> o = Responded(429)
<1>1. CASE o = NoResponse
  BY <1>1, OutcomeFacts DEF ErrorOf, RateLimited, StatusOf, LlmGeneralError
<1>2. CASE \E s \in Statuses : o = Responded(s)
  BY <1>2, OutcomeFacts DEF RateLimited, StatusOf, ApiError
<1> QED
  BY <1>1, <1>2, OutcomeFacts DEF Outcome

(* In a build that checks overflow, every wait is the one the documented   *)
(* schedule gives, whatever the delays, the retry budget and the word      *)
(* width: the build panics before it would sleep for another time.         *)
THEOREM CheckedWaits ==
  ASSUME OverflowChecks
  PROVE  Spec => []WaitFitsLastFailure
<1>1. Init => WaitFitsLastFailure
  BY DEF Init, WaitFitsLastFailure
<1>2. IInv /\ WaitFitsLastFailure /\ [Next]_vars => WaitFitsLastFailure'
  <2> SUFFICES ASSUME IInv, WaitFitsLastFailure, [Next]_vars, pc' = "sleeping"
               PROVE  WaitFitsLastFailure'
    BY DEF WaitFitsLastFailure
  <2>1. CASE Sleep
    <3>1. PICK jitter \in Jitters :
            /\ ~ Overflows(BaseFor(lastErr), attempt, jitter)
            /\ wait' = BackoffForLastFailure(attempt, lastErr, jitter)
      BY <2>1 DEF Sleep
    <3> DEFINE o == outcomes[attempt - 1]
               base == BaseFor(lastErr)
               cap == CapFor(lastErr)
               full == Exponential(base, attempt)
    <3>2. attempt \in Nat /\ attempt > 0 /\ attempt - 1 \in Attempts /\ attempt - 1 < attempt
      BY <2>1, CallAssumption DEF Sleep, IInv, TypeOK, Attempts
    <3>3. o \in Outcome /\ Curable(o) /\ lastErr = ErrorOf(o)
      BY <3>2 DEF IInv, TypeOK, PastAndFuture
    <3>4. /\ base = IF o = Responded(429) THEN RateLimitRetryDelay ELSE RetryDelay
          /\ cap = IF o = Responded(429) THEN RateLimitCap ELSE BackoffCap
      BY <3>3, ScheduleOfLastFailure DEF BaseFor, CapFor
    <3>5. base \in Nat /\ cap \in Nat /\ full \in Nat /\ jitter \in 0 .. MaxJitter
      BY <3>2, BaseForNat, CapForInMaxWait, ExponentialType, ProviderAssumption
    <3>6. wait' = Shorter(full + jitter, cap)
      BY <3>1, <3>2, <3>5, WaitExact DEF BackoffForLastFailure
    <3>7. UNCHANGED <<outcomes, attempt>>
      BY <2>1 DEF Sleep
    <3> HIDE DEF o, base, cap, full
    <3>8. wait' >= Shorter(full, cap) /\ wait' <= Shorter(full + MaxJitter, cap)
      BY <3>5, <3>6 DEF Shorter, MaxJitter
    <3> QED
      BY <3>4, <3>7, <3>8 DEF WaitFitsLastFailure, o, base, cap, full
  <2>2. CASE UNCHANGED <<pc, wait, outcomes, attempt>>
    BY <2>2 DEF WaitFitsLastFailure
  <2> QED
    BY <2>1, <2>2
    DEF Next, Call, Stream, Chat, BuildAndRun, Return, Progress, Send, ReceiveHead,
        TransportFailure, DrainErrorBody, RetryOrReturn, ReadBody, OpenStream, Collect,
        DropFuture, Server, Lose, AnswerWith, clientVars, vars
<1> QED
  BY <1>1, <1>2, Invariance, PTL DEF Spec

(* A call that has ended sends nothing and keeps its verdict.              *)
THEOREM QuietCall == Spec => QuietAfterEnd
<1>1. TypeOK /\ [Next]_vars => [(pc \in Ended) => (result' = result /\ SendsNothing)]_vars
  <2> SUFFICES ASSUME TypeOK, [Next]_vars, pc \in Ended
               PROVE  result' = result /\ SendsNothing
    OBVIOUS
  <2>1. CASE Server
    BY <2>1 DEF TypeOK, Server, Lose, AnswerWith, clientVars, SendsNothing, Sent
  <2>2. CASE UNCHANGED vars
    BY <2>2 DEF vars, SendsNothing, Sent
  <2> QED
    BY <2>1, <2>2
    DEF Next, Call, Stream, Chat, Progress, Sleep, Send, ReceiveHead, TransportFailure,
        DrainErrorBody, ReadBody, OpenStream, Collect, DropFuture, Running, Ended
<1> QED
  BY <1>1, TypeCorrect, PTL DEF Spec, QuietAfterEnd

-----------------------------------------------------------------------------

(* GenericProvider implements RetriedCall: sleeping, sending and reading   *)
(* are invisible there, a response head or a lost connection is a try, and *)
(* every return is a conclusion drawn from the last exchange.              *)
LEMMA SameVocabulary ==
  /\ AbstractCall!Attempts = Attempts /\ AbstractCall!Outcome = Outcome
  /\ AbstractCall!NotMade = NotMade /\ AbstractCall!Pending = Pending
  /\ AbstractCall!Abandoned = Abandoned
  /\ \A o : /\ AbstractCall!Made(o) <=> Made(o)
            /\ AbstractCall!Curable(o) <=> Curable(o)
            /\ AbstractCall!Succeeded(o) <=> Succeeded(o)
  /\ \A k : AbstractCall!Answer(k) = Answer(k) /\ AbstractCall!Live(k) = Live(k)
  /\ \A e : AbstractCall!Failure(e) = Failure(e)
  /\ \A st : AbstractCall!ApiError(st) = ApiError(st)
  /\ AbstractCall!ConfigError = ConfigError /\ AbstractCall!LlmGeneralError = LlmGeneralError
  /\ AbstractCall!StreamError = StreamError
<1>1. AbstractCall!Attempts = Attempts
  BY DEF AbstractCall!Attempts, Attempts
<1>2. AbstractCall!Outcome = Outcome /\ AbstractCall!NotMade = NotMade
  BY DEF AbstractCall!Outcome, Outcome, AbstractCall!NotMade, NotMade, AbstractCall!NoResponse,
         NoResponse, AbstractCall!Responded, Responded
<1>3. \A o : /\ AbstractCall!Made(o) <=> Made(o)
             /\ AbstractCall!Curable(o) <=> Curable(o)
             /\ AbstractCall!Succeeded(o) <=> Succeeded(o)
  BY DEF AbstractCall!Made, Made, AbstractCall!Curable, Curable, AbstractCall!Succeeded,
         Succeeded, AbstractCall!IsSuccess, IsSuccess
<1>4. AbstractCall!NoError = NoError
  BY DEF AbstractCall!NoError, NoError
<1> QED
  BY <1>1, <1>2, <1>3, <1>4
  DEF AbstractCall!Pending, Pending, AbstractCall!Abandoned, Abandoned, AbstractCall!Answer,
      Answer, AbstractCall!Live, Live, AbstractCall!Failure, Failure, AbstractCall!ApiError,
      ApiError, AbstractCall!ConfigError, ConfigError, AbstractCall!LlmGeneralError,
      LlmGeneralError, AbstractCall!StreamError, StreamError

(* The verdicts the abstract call allows after an exchange.                *)
LEMMA AbstractVerdicts ==
  ASSUME NEW k, NEW o
  PROVE  /\ Succeeded(o) =>
              AbstractCall!VerdictsOf(k, o) =
                {Answer(k), Live(k), Failure(LlmGeneralError), Failure(StreamError)}
         /\ o = NoResponse => AbstractCall!VerdictsOf(k, o) = {Failure(LlmGeneralError)}
         /\ \A st : o = Responded(st) /\ ~ Succeeded(o) =>
              AbstractCall!VerdictsOf(k, o) = {Failure(ApiError(st))}
BY SameVocabulary, OutcomeFacts DEF AbstractCall!VerdictsOf

(* A call that has not begun is one of the abstract call.                  *)
LEMMA AbstractInit == Init => AbstractCall!Init
BY SameVocabulary DEF Init, AbstractCall!Init

(* Every step is one of the abstract call, or leaves it alone.             *)
LEMMA AbstractStep == IInv /\ [Next]_vars => [AbstractCall!Next]_<<outcomes, result>>
<1> SUFFICES ASSUME IInv, [Next]_vars, ~ UNCHANGED <<outcomes, result>>
             PROVE  AbstractCall!Next
  BY DEF AbstractCall!vars
<1>0. attempt \in Attempts /\ Attempts = 0 .. MaxRetries /\ MaxRetries \in Nat
  BY CallAssumption DEF IInv, TypeOK, Attempts
<1>p. ASSUME pc \notin Ended PROVE result = Pending
  BY <1>p DEF IInv, CurrentExchange
<1>n. ASSUME pc = "idle" PROVE \A k \in Attempts : outcomes[k] = NotMade
  BY <1>n, <1>0 DEF IInv, CurrentExchange, PastAndFuture
<1>1. CASE Stream \/ Chat
  <2>1. /\ pc = "idle" /\ UNCHANGED outcomes
        /\ result' \in {Failure(LlmGeneralError), Failure(ConfigError)}
    BY <1>1 DEF Stream, Chat, BuildAndRun, Return
  <2>2. AbstractCall!Refuse
    BY <2>1, <1>p, <1>n, OutcomeFacts, SameVocabulary DEF AbstractCall!Refuse, Ended, Made
  <2> QED
    BY <2>2, SameVocabulary DEF AbstractCall!Next
<1>2. CASE Sleep \/ DropFuture
  <2>1. pc \in Running /\ UNCHANGED outcomes /\ result' = Abandoned
    BY <1>2 DEF Sleep, DropFuture, Running
  <2>2. AbstractCall!Abandon
    BY <2>1, <1>p, SameVocabulary DEF AbstractCall!Abandon, Ended, Running
  <2> QED
    BY <2>2, SameVocabulary DEF AbstractCall!Next
<1>3. ASSUME pc = "sending", NEW o \in Outcome, Made(o),
             outcomes' = [outcomes EXCEPT ![attempt] = o],
             result' \in {Pending} \cup
               (IF attempt = MaxRetries THEN AbstractCall!VerdictsOf(attempt, o) ELSE {})
      PROVE  AbstractCall!Next
  <2>1. AbstractCall!IsNext(attempt)
    BY <1>0, <1>3, OutcomeFacts, SameVocabulary
    DEF IInv, TypeOK, CurrentExchange, PastAndFuture, AbstractCall!IsNext, Made
  <2>2. AbstractCall!Try(attempt, o)
    BY <1>3, <1>p, <2>1, SameVocabulary DEF AbstractCall!Try, Ended
  <2> QED
    BY <1>0, <2>2, SameVocabulary DEF AbstractCall!Next
<1>4. CASE ReceiveHead
  <2> DEFINE o == Responded(answer[attempt])
  <2>1. pc = "sending" /\ outcomes' = [outcomes EXCEPT ![attempt] = o] /\ result' = Pending
    BY <1>4, <1>p DEF ReceiveHead, Ended
  <2>2. answer[attempt] \in Statuses
    BY <1>4, <1>0 DEF ReceiveHead, IInv, TypeOK, SeenIsAnswered
  <2>3. o \in Outcome /\ Made(o)
    BY <2>2, OutcomeType, OutcomeFacts DEF Made
  <2> QED
    BY <1>3, <2>1, <2>3
<1>5. CASE TransportFailure
  <2>1. /\ pc = "sending" /\ outcomes' = [outcomes EXCEPT ![attempt] = NoResponse]
        /\ RetryOrReturn(TRUE, LlmGeneralError)
    BY <1>5 DEF TransportFailure
  <2>2. NoResponse \in Outcome /\ Made(NoResponse)
    BY OutcomeType, OutcomeFacts DEF Made
  <2>3. AbstractCall!VerdictsOf(attempt, NoResponse) = {Failure(LlmGeneralError)}
    BY OutcomeFacts, AbstractVerdicts
  <2>4. \/ result' = Pending
        \/ attempt = MaxRetries /\ result' = Failure(LlmGeneralError)
    BY <1>0, <1>p, <2>1 DEF RetryOrReturn, Return, Ended
  <2> QED
    BY <1>3, <2>1, <2>2, <2>3, <2>4
<1>6. ASSUME pc \in Running, UNCHANGED outcomes,
             Made(outcomes[attempt]),
             attempt = MaxRetries \/ ~ Curable(outcomes[attempt]),
             result' \in AbstractCall!VerdictsOf(attempt, outcomes[attempt])
      PROVE  AbstractCall!Next
  <2>1. AbstractCall!Conclude(attempt)
    BY <1>6, <1>p, SameVocabulary DEF AbstractCall!Conclude, Running, Ended
  <2> QED
    BY <1>0, <2>1, SameVocabulary DEF AbstractCall!Next
<1>7. CASE DrainErrorBody
  <2>1. /\ pc = "draining" /\ UNCHANGED outcomes
        /\ RetryOrReturn(IsRetryable(answer[attempt]), ApiError(answer[attempt]))
    BY <1>7 DEF DrainErrorBody
  <2>2. outcomes[attempt] = Responded(answer[attempt]) /\ ~ Succeeded(outcomes[attempt])
    BY <1>0, <2>1 DEF IInv, CurrentExchange, SeenIsAnswered
  <2>3. answer[attempt] \in Statuses
    BY <1>0, <2>2, OutcomeFacts DEF IInv, TypeOK, Outcome, SeenIsAnswered
  <2>4. AbstractCall!VerdictsOf(attempt, outcomes[attempt]) = {Failure(ApiError(answer[attempt]))}
    BY <2>2, AbstractVerdicts
  <2>5. /\ result' = Failure(ApiError(answer[attempt]))
        /\ attempt = MaxRetries \/ ~ IsRetryable(answer[attempt])
    BY <1>0, <2>1 DEF RetryOrReturn, Return
  <2> QED
    BY <1>6, <2>1, <2>2, <2>3, <2>4, <2>5, OutcomeFacts DEF Running, Made
<1>8. CASE ReadBody \/ OpenStream \/ Collect
  <2>1. /\ pc \in {"body", "open", "collecting"} /\ UNCHANGED outcomes
        /\ result' \in {Answer(attempt), Live(attempt), Failure(LlmGeneralError),
                        Failure(StreamError)}
    BY <1>8 DEF ReadBody, OpenStream, Collect, Return
  <2>2. Succeeded(outcomes[attempt]) /\ outcomes[attempt] \in Outcome
    BY <1>0, <2>1 DEF IInv, CurrentExchange, TypeOK
  <2>3. result' \in AbstractCall!VerdictsOf(attempt, outcomes[attempt])
    BY <2>1, <2>2, AbstractVerdicts
  <2>4. Made(outcomes[attempt]) /\ ~ Curable(outcomes[attempt])
    BY <2>2, OutcomeFacts DEF Made, Succeeded
  <2> QED
    BY <1>6, <2>1, <2>3, <2>4 DEF Running
<1> QED
  BY <1>1, <1>2, <1>4, <1>5, <1>7, <1>8
  DEF Next, Call, Progress, Send, Server, Lose, AnswerWith, clientVars, vars

(* The retry loops do what RetriedCall promises: at most one exchange more *)
(* than there are retries, and one verdict.                                *)
THEOREM Implementation == Spec => ImplementsRetriedCall
BY AbstractInit, AbstractStep, Invariance, PTL
DEF Spec, ImplementsRetriedCall, AbstractCall!Spec, AbstractCall!vars

-----------------------------------------------------------------------------
(* The body of an answer. *)

(* The bytes of a document of m characters: they stand in their order,     *)
(* each character from its first byte to its last.                         *)
Byte == [char : Nat, place : Nat]
BytesOf(c) == [k \in 1 .. Width[c] |-> [char |-> c, place |-> k]]
Follows(b, a) ==
  IF a.place < Width[a.char] THEN b.char = a.char /\ b.place = a.place + 1
  ELSE b.char = a.char + 1 /\ b.place = 1

Spells(s, m) ==
  /\ s \in Seq(Byte) /\ s # <<>>
  /\ s[1].char = 1 /\ s[1].place = 1
  /\ \A i \in 1 .. Len(s) : s[i].char \in 1 .. m /\ s[i].place \in 1 .. Width[s[i].char]
  /\ \A i \in 1 .. Len(s) - 1 : Follows(s[i + 1], s[i])
  /\ s[Len(s)].char = m /\ s[Len(s)].place = Width[m]
  /\ \A c \in 1 .. m : \E i \in 1 .. Len(s) : s[i].char = c

(* Every character has a width.                                            *)
LEMMA WidthType ==
  /\ Len(Width) \in Nat /\ Len(Width) >= 1 /\ DOMAIN Width = 1 .. Len(Width)
  /\ \A c \in 1 .. Len(Width) : Width[c] \in Nat /\ Width[c] >= 1
  /\ Width[1] = 1 /\ Width[Len(Width)] = 1
BY BodyAssumption

(* The bytes of one character are as many as its width.                    *)
LEMMA BytesOfType ==
  ASSUME NEW c \in 1 .. Len(Width)
  PROVE  /\ BytesOf(c) \in Seq(Byte) /\ Len(BytesOf(c)) = Width[c]
         /\ \A k \in 1 .. Width[c] : BytesOf(c)[k].char = c /\ BytesOf(c)[k].place = k
<1>1. Width[c] \in Nat /\ c \in Nat
  BY WidthType
<1>2. BytesOf(c) \in [1 .. Width[c] -> Byte]
  BY <1>1 DEF BytesOf, Byte
<1>3. BytesOf(c) \in Seq(Byte) /\ Len(BytesOf(c)) = Width[c]
  BY <1>1, <1>2, SeqOfPositions
<1> QED
  BY <1>1, <1>3 DEF BytesOf

(* The first character alone.                                              *)
LEMMA SpellsFirst == Spells(BytesOf(1), 1)
<1>1. 1 \in 1 .. Len(Width) /\ Width[1] = 1
  BY WidthType
<1>2. /\ BytesOf(1) \in Seq(Byte) /\ Len(BytesOf(1)) = 1
      /\ BytesOf(1)[1].char = 1 /\ BytesOf(1)[1].place = 1
  <2>1. /\ BytesOf(1) \in Seq(Byte) /\ Len(BytesOf(1)) = Width[1]
        /\ \A k \in 1 .. Width[1] : BytesOf(1)[k].char = 1 /\ BytesOf(1)[k].place = k
    BY <1>1, BytesOfType
  <2> HIDE DEF BytesOf
  <2> QED
    BY <1>1, <2>1
<1> HIDE DEF BytesOf
<1> QED
  BY <1>1, <1>2 DEF Spells

(* The next character's bytes behind.                                      *)
LEMMA SpellsOneMore ==
  ASSUME NEW m \in 1 .. Len(Width) - 1, NEW s, Spells(s, m)
  PROVE  Spells(s \o BytesOf(m + 1), m + 1)
<1> DEFINE t == BytesOf(m + 1)
           w == Width[m + 1]
           z == s \o t
<1>1. m \in Nat /\ m + 1 \in 1 .. Len(Width) /\ w \in Nat /\ w >= 1
  BY WidthType
<1>2. /\ t \in Seq(Byte) /\ Len(t) = w
      /\ \A k \in 1 .. w : t[k].char = m + 1 /\ t[k].place = k
  BY <1>1, BytesOfType
<1>3. s \in Seq(Byte) /\ Len(s) \in Nat /\ Len(s) >= 1
  BY DEF Spells
<1> HIDE DEF t
<1>4. /\ z \in Seq(Byte) /\ Len(z) = Len(s) + w /\ z # <<>>
      /\ \A i \in 1 .. Len(s) : z[i] = s[i]
      /\ \A i \in Len(s) + 1 .. Len(s) + w : z[i] = t[i - Len(s)]
  BY <1>1, <1>2, <1>3
<1>5. \A i \in Len(s) + 1 .. Len(s) + w : z[i].char = m + 1 /\ z[i].place = i - Len(s)
  <2> SUFFICES ASSUME NEW i \in Len(s) + 1 .. Len(s) + w
               PROVE  z[i].char = m + 1 /\ z[i].place = i - Len(s)
    OBVIOUS
  <2>1. i - Len(s) \in 1 .. w
    BY <1>1, <1>3
  <2> QED
    BY <1>2, <1>4, <2>1
<1> DEFINE l == Len(s)
<1>6. l \in Nat /\ l >= 1 /\ Len(z) = l + w
  BY <1>3, <1>4
<1> HIDE DEF z
<1>7. z[1].char = 1 /\ z[1].place = 1
  BY <1>4, <1>6 DEF Spells
<1>8. \A i \in 1 .. Len(z) : z[i].char \in 1 .. m + 1 /\ z[i].place \in 1 .. Width[z[i].char]
  <2> SUFFICES ASSUME NEW i \in 1 .. Len(z)
               PROVE  z[i].char \in 1 .. m + 1 /\ z[i].place \in 1 .. Width[z[i].char]
    OBVIOUS
  <2>1. CASE i <= l
    <3>1. i \in 1 .. l
      BY <1>6, <2>1
    <3>2. z[i] = s[i] /\ s[i].char \in 1 .. m /\ s[i].place \in 1 .. Width[s[i].char]
      BY <1>4, <3>1 DEF Spells
    <3> QED
      BY <1>1, <3>2
  <2>2. CASE i > l
    <3>1. i \in l + 1 .. l + w
      BY <1>1, <1>6, <2>2
    <3>2. z[i].char = m + 1 /\ z[i].place = i - l
      BY <1>5, <3>1
    <3> QED
      BY <1>1, <1>6, <3>1, <3>2
  <2> QED
    BY <1>6, <2>1, <2>2
<1>9. \A i \in 1 .. Len(z) - 1 : Follows(z[i + 1], z[i])
  <2> SUFFICES ASSUME NEW i \in 1 .. Len(z) - 1
               PROVE  Follows(z[i + 1], z[i])
    OBVIOUS
  <2>1. CASE i < l
    <3>1. i \in 1 .. l - 1 /\ i \in 1 .. l /\ i + 1 \in 1 .. l
      BY <1>6, <2>1
    <3> QED
      BY <1>4, <3>1 DEF Spells
  <2>2. CASE i = l
    <3>1. i \in 1 .. l /\ i + 1 \in l + 1 .. l + w
      BY <1>1, <1>6, <2>2
    <3>2. z[i] = s[l] /\ s[l].char = m /\ s[l].place = Width[m]
      BY <1>4, <2>2, <3>1 DEF Spells
    <3>3. z[i + 1].char = m + 1 /\ z[i + 1].place = 1
      BY <1>5, <1>6, <2>2, <3>1
    <3>4. Width[m] \in Nat
      BY <1>1, WidthType
    <3> QED
      BY <3>2, <3>3, <3>4 DEF Follows
  <2>3. CASE i > l
    <3>1. i \in l + 1 .. l + w /\ i + 1 \in l + 1 .. l + w
      BY <1>1, <1>6, <2>3
    <3>2. z[i].char = m + 1 /\ z[i].place = i - l /\ z[i + 1].char = m + 1 /\ z[i + 1].place = (i + 1) - l
      BY <1>5, <3>1
    <3>3. i - l < w /\ (i + 1) - l = (i - l) + 1
      BY <1>1, <1>6, <2>3
    <3> QED
      BY <3>2, <3>3 DEF Follows
  <2> QED
    BY <1>6, <2>1, <2>2, <2>3
<1>10. z[Len(z)].char = m + 1 /\ z[Len(z)].place = w
  <2>1. Len(z) \in l + 1 .. l + w /\ Len(z) - l = w
    BY <1>1, <1>6
  <2> QED
    BY <1>5, <2>1
<1>11. \A c \in 1 .. m + 1 : \E i \in 1 .. Len(z) : z[i].char = c
  <2> SUFFICES ASSUME NEW c \in 1 .. m + 1
               PROVE  \E i \in 1 .. Len(z) : z[i].char = c
    OBVIOUS
  <2>1. CASE c <= m
    <3>1. PICK i \in 1 .. l : s[i].char = c
      BY <1>1, <2>1 DEF Spells
    <3>2. i \in 1 .. Len(z) /\ z[i] = s[i]
      BY <1>1, <1>4, <1>6
    <3> QED
      BY <3>1, <3>2
  <2>2. CASE c = m + 1
    <3>1. Len(z) \in 1 .. Len(z)
      BY <1>1, <1>6
    <3> QED
      BY <1>10, <2>2, <3>1
  <2> QED
    BY <1>1, <2>1, <2>2
<1> QED
  BY <1>4, <1>7, <1>8, <1>9, <1>10, <1>11 DEF Spells, z, t

(* The body is the document, byte by byte.                                 *)
LEMMA BodySpells == Spells(Body, Len(Width))
<1> DEFINE s == [c \in 1 .. Len(Width) |-> BytesOf(c)]
<1>1. Len(Width) \in Nat /\ Len(Width) >= 1 /\ DOMAIN Width = 1 .. Len(Width)
  BY WidthType
<1>2. s \in Seq(Seq(Byte)) /\ Len(s) = Len(Width)
  <2>1. s \in [1 .. Len(Width) -> Seq(Byte)]
    BY BytesOfType
  <2> HIDE DEF s
  <2> QED
    BY <1>1, <2>1, SeqOfPositions
<1>3. Body = FlattenSeq(s)
  BY <1>1 DEF Body, BytesOf
<1>4. \A c \in 1 .. Len(Width) : s[c] = BytesOf(c)
  OBVIOUS
<1> HIDE DEF s
<1>5. PICK g \in [1 .. Len(s) -> Seq(Byte)] : Flattens(g, s, Len(s))
  BY <1>2, FlattenExists
<1> DEFINE G == {m \in Nat : m \in 1 .. Len(Width) => Spells(g[m], m)}
<1>6. 0 \in G
  OBVIOUS
<1>7. \A m \in Nat : m \in G => m + 1 \in G
  <2> SUFFICES ASSUME NEW m \in Nat, m \in G, m + 1 \in 1 .. Len(Width)
               PROVE  Spells(g[m + 1], m + 1)
    BY SMTT(40)
  <2>1. g[m + 1] = IF m + 1 = 1 THEN BytesOf(1) ELSE g[m] \o BytesOf(m + 1)
    <3>1. m + 1 \in 1 .. Len(s) /\ (m + 1) - 1 = m
      BY <1>2
    <3>2. g[m + 1] = IF m + 1 = 1 THEN s[m + 1] ELSE g[(m + 1) - 1] \o s[m + 1]
      BY <1>5, <3>1 DEF Flattens
    <3>3. s[m + 1] = BytesOf(m + 1)
      BY <1>4
    <3> HIDE DEF G
    <3> QED
      BY <3>1, <3>2, <3>3
  <2>2. CASE m = 0
    BY <2>1, <2>2, SpellsFirst
  <2>3. CASE m # 0
    <3>1. m \in 1 .. Len(Width) - 1 /\ m \in 1 .. Len(Width) /\ m + 1 # 1
      BY <1>1, <2>3
    <3>2. Spells(g[m], m)
      BY <3>1
    <3> HIDE DEF G
    <3> QED
      BY <2>1, <3>1, <3>2, SpellsOneMore
  <2> QED
    BY <2>2, <2>3
<1> HIDE DEF G
<1>8. Nat \subseteq G
  BY <1>6, <1>7, Induction
<1>9. Spells(g[Len(Width)], Len(Width))
  BY <1>1, <1>8 DEF G
<1>10. s # <<>>
  BY <1>1, <1>2
<1>11. FlattenSeq(s) = g[Len(s)]
  BY <1>2, <1>5, <1>10, FlattenIs
<1> QED
  BY <1>2, <1>3, <1>9, <1>11

Size == Len(Body)

(* Every byte is one of a character of the document.                       *)
LEMMA BodyType ==
  /\ Size \in Nat /\ Size >= 1 /\ Body \in Seq(Byte)
  /\ \A i \in 1 .. Size : /\ Body[i].char \in 1 .. Len(Width) /\ Body[i].char \in Nat
                         /\ Body[i].place \in 1 .. Width[Body[i].char] /\ Body[i].place \in Nat
                         /\ Width[Body[i].char] \in Nat
<1>1. Spells(Body, Len(Width))
  BY BodySpells
<1>2. Body \in Seq(Byte) /\ Body # <<>>
  BY <1>1 DEF Spells
<1>3. Size \in Nat /\ Size >= 1
  BY <1>2 DEF Size
<1>4. ASSUME NEW i \in 1 .. Size
      PROVE  /\ Body[i].char \in 1 .. Len(Width) /\ Body[i].char \in Nat
             /\ Body[i].place \in 1 .. Width[Body[i].char] /\ Body[i].place \in Nat
             /\ Width[Body[i].char] \in Nat
  <2>1. Body[i].char \in 1 .. Len(Width) /\ Body[i].place \in 1 .. Width[Body[i].char]
    BY <1>1 DEF Spells, Size
  <2>2. Width[Body[i].char] \in Nat
    BY <2>1, WidthType
  <2> QED
    BY <2>1, <2>2, WidthType
<1> QED
  BY <1>2, <1>3, <1>4

(* Each byte follows the one before.                                       *)
LEMMA BodyFollows ==
  ASSUME NEW i \in 1 .. Size - 1
  PROVE  Follows(Body[i + 1], Body[i])
BY BodySpells DEF Spells, Size

(* Characters come in their order: where one begins, those before are      *)
(* smaller.                                                                *)
Before(i, j) ==
  /\ Body[i].char <= Body[j].char
  /\ Body[j].place = 1 => Body[i].char < Body[j].char

(* Of two bytes the earlier one is before.                                 *)
LEMMA BodyInOrder ==
  ASSUME NEW i \in 1 .. Size, NEW j \in 1 .. Size, i < j
  PROVE  Before(i, j)
<1> DEFINE S == {d \in Nat : i + d + 1 <= Size => Before(i, i + d + 1)}
<1>0. Size \in Nat
  BY BodyType
<1>1. ASSUME NEW k \in 1 .. Size - 1
      PROVE  Before(k, k + 1)
  <2>1. k \in 1 .. Size /\ k + 1 \in 1 .. Size
    BY <1>0
  <2>2. Follows(Body[k + 1], Body[k])
    BY BodyFollows
  <2> QED
    BY <2>1, <2>2, BodyType, SMTT(40) DEF Follows, Before
<1>2. 0 \in S
  <2>1. i + 1 <= Size => i \in 1 .. Size - 1
    BY <1>0
  <2> QED
    BY <1>1, <2>1
<1>3. \A d \in Nat : d \in S => d + 1 \in S
  <2> SUFFICES ASSUME NEW d \in Nat, d \in S, i + (d + 1) + 1 <= Size
               PROVE  Before(i, i + (d + 1) + 1)
    OBVIOUS
  <2> DEFINE k == i + d + 1
  <2>1. k \in 1 .. Size - 1 /\ k \in 1 .. Size /\ k + 1 \in 1 .. Size /\ k + 1 = i + (d + 1) + 1
    BY <1>0
  <2>2. Before(i, k)
    BY <2>1
  <2> HIDE DEF k, S
  <2>3. Before(k, k + 1)
    BY <1>1, <2>1
  <2>4. Body[i].char \in Nat /\ Body[k].char \in Nat /\ Body[k + 1].char \in Nat
    BY <2>1, BodyType
  <2>5. Before(i, k + 1)
    BY <2>2, <2>3, <2>4 DEF Before
  <2> QED
    BY <2>1, <2>5
<1> HIDE DEF S
<1>4. Nat \subseteq S
  BY <1>2, <1>3, Induction
<1>5. j - i - 1 \in Nat /\ i + (j - i - 1) + 1 = j
  BY <1>0
<1> QED
  BY <1>0, <1>4, <1>5 DEF S

(* From its first byte on, the bytes of a character follow each other.     *)
LEMMA BodyRuns ==
  ASSUME NEW i \in 1 .. Size, Body[i].place = 1, NEW k \in Nat, k < Width[Body[i].char], i + k <= Size
  PROVE  Body[i + k].char = Body[i].char /\ Body[i + k].place = k + 1
<1> DEFINE w == Width[Body[i].char]
           S == {d \in Nat : d < w /\ i + d <= Size =>
                   Body[i + d].char = Body[i].char /\ Body[i + d].place = d + 1}
<1>0. Size \in Nat /\ w \in Nat
  BY BodyType
<1>1. 0 \in S
  OBVIOUS
<1>2. \A d \in Nat : d \in S => d + 1 \in S
  <2> SUFFICES ASSUME NEW d \in Nat, d \in S, d + 1 < w, i + (d + 1) <= Size
               PROVE  Body[i + (d + 1)].char = Body[i].char /\ Body[i + (d + 1)].place = (d + 1) + 1
    OBVIOUS
  <2>1. i + d \in 1 .. Size - 1 /\ (i + d) + 1 = i + (d + 1) /\ d < w /\ i + d <= Size
    BY <1>0
  <2>2. Body[i + d].char = Body[i].char /\ Body[i + d].place = d + 1
    BY <2>1
  <2> HIDE DEF S
  <2>3. Follows(Body[i + (d + 1)], Body[i + d])
    BY <2>1, BodyFollows
  <2> QED
    BY <2>2, <2>3 DEF Follows
<1> HIDE DEF S
<1>3. Nat \subseteq S
  BY <1>1, <1>2, Induction
<1> QED
  BY <1>3 DEF S

(* What begins before the end of a character also ends there, or before.   *)
LEMMA WholeBeforeEnd ==
  ASSUME NEW i \in 1 .. Size, NEW j \in 1 .. Size, i <= j, Body[i].place = 1,
         Body[j].place = Width[Body[j].char]
  PROVE  i + Width[Body[i].char] - 1 <= j
<1>1. Size \in Nat /\ Width[Body[i].char] \in Nat
  BY BodyType
<1>2. SUFFICES ASSUME j - i < Width[Body[i].char] - 1
               PROVE  FALSE
  BY <1>1
<1>3. j - i \in Nat /\ i + (j - i) = j /\ j - i < Width[Body[i].char]
  BY <1>1, <1>2
<1>4. Body[j].char = Body[i].char /\ Body[j].place = (j - i) + 1
  BY <1>1, <1>3, BodyRuns
<1> QED
  BY <1>1, <1>2, <1>4

(* The last character is its last byte.                                    *)
LEMMA LastByte ==
  ASSUME NEW i \in 1 .. Size, Body[i].char = Len(Width)
  PROVE  i = Size
<1>1. Size \in Nat /\ Size \in 1 .. Size
  BY BodyType
<1>2. Body[Size].char = Len(Width) /\ Body[Size].place = 1
  BY BodySpells, WidthType DEF Spells, Size
<1>3. i < Size => Body[i].char < Body[Size].char
  BY <1>1, <1>2, BodyInOrder DEF Before
<1> QED
  BY <1>1, <1>2, <1>3, WidthType

-----------------------------------------------------------------------------
(* Decoding. *)

Segment(bytes, at) ==
  /\ bytes \in Seq(Byte) /\ at \in Nat /\ at + Len(bytes) <= Size
  /\ \A n \in 1 .. Len(bytes) : bytes[n] = Body[at + n]

Rising == {pair \in Nat \X Nat : (pair[1] # Replacement /\ pair[2] # Replacement) => pair[1] < pair[2]}
Begins(bytes) == {bytes[n].char : n \in {k \in 1 .. Len(bytes) : bytes[k].place = 1}}
Pieces(bytes) == [n \in DOMAIN bytes |-> Makes(bytes, n, Len(bytes))]

(* Some bytes of the body that stand together.                             *)
LEMMA SegmentType ==
  ASSUME NEW bytes, NEW at, Segment(bytes, at)
  PROVE  /\ Len(bytes) \in Nat /\ DOMAIN bytes = 1 .. Len(bytes)
         /\ \A n \in 1 .. Len(bytes) :
              /\ at + n \in 1 .. Size /\ bytes[n] = Body[at + n]
              /\ bytes[n].char \in Nat /\ bytes[n].char >= 1 /\ bytes[n].place \in Nat
              /\ bytes[n].char \in 1 .. Len(Width)
              /\ Width[bytes[n].char] \in Nat /\ bytes[n].place \in 1 .. Width[bytes[n].char]
<1>1. Len(bytes) \in Nat /\ DOMAIN bytes = 1 .. Len(bytes) /\ Size \in Nat /\ at \in Nat
  BY BodyType DEF Segment
<1>2. ASSUME NEW n \in 1 .. Len(bytes)
      PROVE  at + n \in 1 .. Size /\ bytes[n] = Body[at + n]
  BY <1>1 DEF Segment
<1> QED
  BY <1>1, <1>2, BodyType

(* What the bytes make is replacements and the characters that begin among *)
(* them.                                                                   *)
LEMMA PiecesType ==
  ASSUME NEW bytes, NEW at, Segment(bytes, at)
  PROVE  /\ Pieces(bytes) \in Seq(Seq(Begins(bytes) \cup {Replacement}))
         /\ Len(Pieces(bytes)) = Len(bytes)
         /\ \A n \in 1 .. Len(bytes) : Pieces(bytes)[n] = Makes(bytes, n, Len(bytes))
<1> DEFINE T == Begins(bytes) \cup {Replacement}
<1>1. Len(bytes) \in Nat /\ DOMAIN bytes = 1 .. Len(bytes)
  BY SegmentType
<1>2. ASSUME NEW n \in 1 .. Len(bytes)
      PROVE  Makes(bytes, n, Len(bytes)) \in Seq(T)
  <2> DEFINE b == bytes[n]
             whole == n + Width[b.char] - 1 <= Len(bytes)
             c == IF whole THEN b.char ELSE Replacement
  <2>1. \A x \in T : <<x>> \in Seq(T)
    OBVIOUS
  <2>2. <<>> \in Seq(T)
    OBVIOUS
  <2>3. CASE b.place = 1
    <3>1. c \in T
      BY <2>3 DEF Begins
    <3>2. Makes(bytes, n, Len(bytes)) = <<c>>
      BY <2>3 DEF Makes
    <3> HIDE DEF c, T
    <3> QED
      BY <2>1, <3>1, <3>2
  <2>4. CASE b.place # 1
    <3>1. Makes(bytes, n, Len(bytes)) \in {<<Replacement>>, <<>>}
      BY <2>4 DEF Makes
    <3>2. Replacement \in T
      OBVIOUS
    <3> HIDE DEF T
    <3> QED
      BY <2>1, <2>2, <3>1, <3>2
  <2> QED
    BY <2>3, <2>4
<1>3. Pieces(bytes) \in [1 .. Len(bytes) -> Seq(T)]
  BY <1>1, <1>2 DEF Pieces
<1> HIDE DEF T
<1>4. Pieces(bytes) \in Seq(Seq(T)) /\ Len(Pieces(bytes)) = Len(bytes)
  BY <1>1, <1>3, SeqOfPositions
<1> QED
  BY <1>1, <1>4 DEF Pieces, T

(* So is the text they make.                                               *)
LEMMA LossyType ==
  ASSUME NEW bytes, NEW at, Segment(bytes, at)
  PROVE  Lossy(bytes) \in Seq(Begins(bytes) \cup {Replacement})
<1>1. Lossy(bytes) = FlattenSeq(Pieces(bytes))
  BY DEF Lossy, Pieces
<1> QED
  BY <1>1, PiecesType, FlattenType

(* The characters it makes rise.                                           *)
LEMMA LossyRises ==
  ASSUME NEW bytes, NEW at, Segment(bytes, at)
  PROVE  Ordered(Rising, Lossy(bytes))
<1> DEFINE T == Begins(bytes) \cup {Replacement}
           s == Pieces(bytes)
<1>1. s \in Seq(Seq(T)) /\ Len(s) = Len(bytes) /\ Len(bytes) \in Nat
      /\ \A n \in 1 .. Len(bytes) : s[n] = Makes(bytes, n, Len(bytes))
  BY PiecesType, SegmentType
<1>2. \A x \in T : x \in Nat
  BY SegmentType DEF Begins, Replacement
<1>3. \A n \in 1 .. Len(bytes) :
        \/ s[n] \in {<<>>, <<Replacement>>}
        \/ s[n] = <<bytes[n].char>> /\ bytes[n].place = 1
  BY <1>1 DEF Makes
<1>4. ASSUME NEW i \in 1 .. Len(s)
      PROVE  Ordered(Rising, s[i])
  <2>1. s[i] = <<>> \/ \E x : s[i] = <<x>>
    BY <1>1, <1>3
  <2>2. Len(s[i]) \in {0, 1}
    BY <2>1, SMTT(40)
  <2> HIDE DEF s
  <2> QED
    BY <2>2 DEF Ordered
<1>5. ASSUME NEW i \in 1 .. Len(s), NEW j \in 1 .. Len(s), i < j
      PROVE  AllBefore(Rising, s[i], s[j])
  <2> SUFFICES ASSUME NEW m \in 1 .. Len(s[i]), NEW n \in 1 .. Len(s[j])
               PROVE  <<s[i][m], s[j][n]>> \in Rising
    BY DEF AllBefore
  <2> DEFINE x == s[i][m]
             y == s[j][n]
  <2>1. x \in T /\ y \in T
    <3> HIDE DEF s, T
    <3>1. s[i] \in Seq(T) /\ s[j] \in Seq(T)
      BY <1>1
    <3> QED
      BY <3>1
  <2>2. x \in Nat /\ y \in Nat
    BY <1>2, <2>1
  <2>3. x = Replacement \/ (x = bytes[i].char /\ bytes[i].place = 1)
    <3>1. s[i] = <<>> \/ s[i] = <<Replacement>> \/ (s[i] = <<bytes[i].char>> /\ bytes[i].place = 1)
      BY <1>1, <1>3
    <3>2. \A z, k : k \in 1 .. Len(<<z>>) => <<z>>[k] = z
      OBVIOUS
    <3>3. Len(<<>>) = 0
      OBVIOUS
    <3> HIDE DEF s
    <3> QED
      BY <3>1, <3>2, <3>3
  <2>4. y = Replacement \/ (y = bytes[j].char /\ bytes[j].place = 1)
    <3>1. s[j] = <<>> \/ s[j] = <<Replacement>> \/ (s[j] = <<bytes[j].char>> /\ bytes[j].place = 1)
      BY <1>1, <1>3
    <3>2. \A z, k : k \in 1 .. Len(<<z>>) => <<z>>[k] = z
      OBVIOUS
    <3>3. Len(<<>>) = 0
      OBVIOUS
    <3> HIDE DEF s
    <3> QED
      BY <3>1, <3>2, <3>3
  <2>5. bytes[j].place = 1 => bytes[i].char < bytes[j].char
    <3>1. /\ at + i \in 1 .. Size /\ at + j \in 1 .. Size /\ at \in Nat
          /\ bytes[i] = Body[at + i] /\ bytes[j] = Body[at + j]
      BY <1>1, SegmentType DEF Segment
    <3>2. at + i < at + j
      BY <1>1, <1>5, <3>1
    <3>3. Before(at + i, at + j)
      BY <3>1, <3>2, BodyInOrder
    <3> QED
      BY <3>1, <3>3 DEF Before
  <2>6. (x # Replacement /\ y # Replacement) => x < y
    BY <2>3, <2>4, <2>5
  <2> HIDE DEF x, y
  <2> QED
    BY <2>2, <2>6 DEF Rising, x, y
<1>6. Lossy(bytes) = FlattenSeq(s)
  BY DEF Lossy, Pieces
<1> HIDE DEF s, T
<1> QED
  BY <1>1, <1>4, <1>5, <1>6, FlattenOrdered

(* The characters from the one behind a to the one numbered b.             *)
UpFrom(a, b) == [k \in 1 .. b - a |-> a + k]

(* The bytes up to `at` are those of the first a characters.               *)
Aligned(at, a) ==
  a \in Nat /\ IF at = 0 THEN a = 0 ELSE Body[at].char = a /\ Body[at].place = Width[a]

(* One character.                                                          *)
LEMMA UpFromOne ==
  ASSUME NEW a \in Nat
  PROVE  UpFrom(a, a + 1) = <<a + 1>>
BY DEF UpFrom

(* A character more, or none.                                              *)
LEMMA UpFromMore ==
  ASSUME NEW a \in Nat, NEW b \in Nat, a <= b
  PROVE  /\ UpFrom(a, b) \in Seq(Nat) /\ Len(UpFrom(a, b)) = b - a
         /\ UpFrom(a, b + 1) = UpFrom(a, b) \o <<b + 1>>
         /\ UpFrom(a, b) = UpFrom(a, b) \o <<>>
<1>1. UpFrom(a, b) \in Seq(Nat) /\ Len(UpFrom(a, b)) = b - a
  BY DEF UpFrom
<1>2. UpFrom(a, b + 1) = UpFrom(a, b) \o <<b + 1>>
  <2> DEFINE s == UpFrom(a, b + 1)
             t == UpFrom(a, b) \o <<b + 1>>
  <2>1. s \in Seq(Nat) /\ t \in Seq(Nat) /\ Len(s) = (b + 1) - a /\ Len(t) = (b - a) + 1
    BY <1>1 DEF UpFrom
  <2>2. ASSUME NEW k \in 1 .. Len(s)
        PROVE  s[k] = t[k]
    <3>1. s[k] = a + k
      BY <2>1 DEF UpFrom
    <3>2. CASE k <= b - a
      <4>1. k \in 1 .. b - a
        BY <2>1, <3>2
      <4>2. t[k] = UpFrom(a, b)[k]
        BY <1>1, <4>1
      <4>3. UpFrom(a, b)[k] = a + k
        BY <4>1 DEF UpFrom
      <4> QED
        BY <3>1, <4>2, <4>3
    <3>3. CASE k > b - a
      <4>1. k = (b - a) + 1 /\ a + k = b + 1
        BY <2>1, <3>3
      <4>2. t[k] = b + 1
        BY <1>1, <4>1
      <4> QED
        BY <3>1, <4>1, <4>2
    <3> QED
      BY <2>1, <3>2, <3>3
  <2> HIDE DEF s, t
  <2>3. Len(s) = Len(t)
    BY <2>1
  <2>4. s = t
    BY <2>1, <2>2, <2>3
  <2> QED
    BY <2>4 DEF s, t
<1>3. UpFrom(a, b) = UpFrom(a, b) \o <<>>
  BY <1>1
<1> QED
  BY <1>1, <1>2, <1>3

(* Bytes that begin and end where characters do make those characters.     *)
LEMMA LossyWhole ==
  ASSUME NEW bytes, NEW at, Segment(bytes, at), bytes # <<>>, NEW a, Aligned(at, a),
         NEW b, b = Body[at + Len(bytes)].char, Body[at + Len(bytes)].place = Width[b]
  PROVE  b \in Nat /\ a < b /\ Lossy(bytes) = UpFrom(a, b)
<1> DEFINE len == Len(bytes)
           s == Pieces(bytes)
           T == Begins(bytes) \cup {Replacement}
<1>1. /\ len \in Nat /\ len >= 1 /\ DOMAIN bytes = 1 .. len /\ at \in Nat /\ a \in Nat /\ Size \in Nat
      /\ at + len <= Size
  BY SegmentType, BodyType DEF Segment, Aligned
<1>2. \A n \in 1 .. len :
        /\ at + n \in 1 .. Size /\ bytes[n] = Body[at + n]
        /\ bytes[n].char \in Nat /\ bytes[n].place \in Nat /\ Width[bytes[n].char] \in Nat
        /\ bytes[n].place \in 1 .. Width[bytes[n].char]
  BY SegmentType
<1>3. bytes[1].char = a + 1 /\ bytes[1].place = 1
  <2>0. bytes[1] = Body[at + 1] /\ at + 1 \in 1 .. Size
    BY <1>1, <1>2
  <2>1. CASE at = 0
    BY <1>1, <2>0, <2>1, BodySpells DEF Spells, Aligned
  <2>2. CASE at # 0
    <3>1. at \in 1 .. Size - 1
      BY <1>1, <2>2
    <3>2. Body[at].char = a /\ Body[at].place = Width[a] /\ at \in 1 .. Size
      BY <1>1, <2>2, <3>1 DEF Aligned
    <3>3. Follows(Body[at + 1], Body[at]) /\ Width[a] \in Nat
      BY <3>1, <3>2, BodyFollows, BodyType
    <3> QED
      BY <2>0, <3>2, <3>3 DEF Follows
  <2> QED
    BY <2>1, <2>2
<1>4. ASSUME NEW n \in 1 .. len
      PROVE  s[n] = IF bytes[n].place = 1 THEN <<bytes[n].char>> ELSE <<>>
  <2>1. s[n] = Makes(bytes, n, len)
    BY PiecesType
  <2>2. CASE bytes[n].place = 1
    <3>1. at + n \in 1 .. Size /\ at + len \in 1 .. Size /\ at + n <= at + len
      BY <1>1, <1>2
    <3>2. at + n + Width[Body[at + n].char] - 1 <= at + len
      BY <1>2, <2>2, <3>1, WholeBeforeEnd
    <3>3. n + Width[bytes[n].char] - 1 <= len
      BY <1>1, <1>2, <3>2, SMTT(40)
    <3> QED
      BY <2>1, <2>2, <3>3 DEF Makes
  <2>3. CASE bytes[n].place # 1
    BY <1>3, <2>1, <2>3 DEF Makes
  <2> QED
    BY <2>2, <2>3
<1>5. \A n \in 1 .. len : a < bytes[n].char
  <2> SUFFICES ASSUME NEW n \in 1 .. len
               PROVE  a < bytes[n].char
    OBVIOUS
  <2>1. CASE n = 1
    BY <1>1, <1>3, <2>1
  <2>2. CASE n # 1
    <3>1. at + 1 \in 1 .. Size /\ at + n \in 1 .. Size /\ at + 1 < at + n /\ bytes[1] = Body[at + 1]
          /\ bytes[n] = Body[at + n]
      BY <1>1, <1>2, <2>2
    <3>2. Body[at + 1].char <= Body[at + n].char
      BY <3>1, BodyInOrder DEF Before
    <3> QED
      BY <1>1, <1>2, <1>3, <3>1, <3>2
  <2> QED
    BY <2>1, <2>2
<1> DEFINE g == [n \in 1 .. len |-> UpFrom(a, bytes[n].char)]
<1>6. s \in Seq(Seq(Nat)) /\ Len(s) = len
  <2>1. s \in Seq(Seq(T)) /\ Len(s) = len
    BY PiecesType
  <2>2. \A n \in 1 .. len : s[n] \in Seq(Nat)
    <3> SUFFICES ASSUME NEW n \in 1 .. len
                 PROVE  s[n] \in Seq(Nat)
      OBVIOUS
    <3>1. bytes[n].char \in Nat
      BY <1>2
    <3>2. <<bytes[n].char>> \in Seq(Nat) /\ <<>> \in Seq(Nat)
      BY <3>1
    <3> HIDE DEF s
    <3> QED
      BY <1>4, <3>2
  <2>3. s \in [1 .. len -> Seq(Nat)]
    BY <1>1, <2>2 DEF Pieces
  <2> HIDE DEF s
  <2> QED
    BY <1>1, <2>3, SeqOfPositions
<1>7. g \in [1 .. len -> Seq(Nat)]
  <2>1. ASSUME NEW n \in 1 .. len
        PROVE  UpFrom(a, bytes[n].char) \in Seq(Nat)
    <3> DEFINE c == bytes[n].char
    <3>1. a \in Nat /\ c \in Nat /\ a <= c
      BY <1>1, <1>2, <1>5
    <3> HIDE DEF c
    <3>2. UpFrom(a, c) \in Seq(Nat)
      BY <3>1, UpFromMore
    <3> QED
      BY <3>2 DEF c
  <2> QED
    BY <2>1
<1>8. Flattens(g, s, len)
  <2> SUFFICES ASSUME NEW n \in 1 .. len
               PROVE  g[n] = IF n = 1 THEN s[n] ELSE g[n - 1] \o s[n]
    BY DEF Flattens
  <2>1. CASE n = 1
    <3>1. s[n] = <<a + 1>> /\ g[n] = UpFrom(a, a + 1)
      BY <1>3, <1>4, <2>1
    <3>2. UpFrom(a, a + 1) = <<a + 1>>
      BY <1>1, UpFromOne
    <3> HIDE DEF g, s
    <3> QED
      BY <2>1, <3>1, <3>2
  <2>2. CASE n # 1
    <3> DEFINE m == n - 1
    <3>1. m \in 1 .. len /\ at + m \in 1 .. Size - 1 /\ (at + m) + 1 = at + n
      BY <1>1, <2>2
    <3>2. Follows(bytes[n], bytes[m])
      <4>1. Follows(Body[(at + m) + 1], Body[at + m])
        BY <3>1, BodyFollows
      <4>2. bytes[n] = Body[at + n] /\ bytes[m] = Body[at + m]
        BY <1>2, <3>1
      <4> QED
        BY <3>1, <4>1, <4>2
    <3>3. g[m] = UpFrom(a, bytes[m].char) /\ g[n] = UpFrom(a, bytes[n].char)
      BY <3>1
    <3>4. bytes[m].char \in Nat /\ a <= bytes[m].char /\ bytes[m].place \in Nat /\ bytes[m].place >= 1
      BY <1>1, <1>2, <1>5, <3>1
    <3> HIDE DEF m, g, s
    <3>5. CASE bytes[n].place = 1
      <4>1. bytes[n].char = bytes[m].char + 1
        BY <3>2, <3>4, <3>5 DEF Follows
      <4>2. s[n] = <<bytes[m].char + 1>>
        BY <1>4, <3>5, <4>1
      <4>3. UpFrom(a, bytes[m].char + 1) = UpFrom(a, bytes[m].char) \o <<bytes[m].char + 1>>
        BY <1>1, <3>4, UpFromMore
      <4> QED
        BY <2>2, <3>3, <4>1, <4>2, <4>3 DEF m
    <3>6. CASE bytes[n].place # 1
      <4>1. bytes[n].char = bytes[m].char
        BY <3>2, <3>4, <3>6 DEF Follows
      <4>2. s[n] = <<>>
        BY <1>4, <3>6
      <4>3. UpFrom(a, bytes[m].char) = UpFrom(a, bytes[m].char) \o <<>>
        BY <1>1, <3>4, UpFromMore
      <4> QED
        BY <2>2, <3>3, <4>1, <4>2, <4>3 DEF m
    <3> QED
      BY <3>5, <3>6
  <2> QED
    BY <2>1, <2>2
<1>9. s # <<>>
  <2> HIDE DEF s
  <2> QED
    BY <1>1, <1>6
<1>10. FlattenSeq(s) = g[len]
  <2> HIDE DEF s, g
  <2> QED
    BY <1>1, <1>6, <1>7, <1>8, <1>9, FlattenIs
<1>11. Lossy(bytes) = FlattenSeq(s)
  BY DEF Lossy, Pieces
<1>12. len \in 1 .. len /\ bytes[len] = Body[at + len]
  BY <1>1, <1>2
<1> QED
  BY <1>2, <1>5, <1>10, <1>11, <1>12

(* A text that goes up to b, and further up to c.                          *)
LEMMA UpFromJoined ==
  ASSUME NEW b \in Nat, NEW c \in Nat, b <= c
  PROVE  UpFrom(0, b) \o UpFrom(b, c) = UpFrom(0, c)
<1> DEFINE s == UpFrom(0, b)
           t == UpFrom(b, c)
           u == UpFrom(0, c)
<1>1. /\ s \in Seq(Nat) /\ Len(s) = b /\ t \in Seq(Nat) /\ Len(t) = c - b
      /\ u \in Seq(Nat) /\ Len(u) = c
  BY DEF UpFrom
<1>2. /\ \A k \in 1 .. b : s[k] = k
      /\ \A k \in 1 .. c - b : t[k] = b + k
      /\ \A k \in 1 .. c : u[k] = k
  BY DEF UpFrom
<1> HIDE DEF s, t, u
<1>3. s \o t \in Seq(Nat) /\ Len(s \o t) = c
  BY <1>1
<1> DEFINE v == s \o t
<1>4. ASSUME NEW k \in 1 .. c
      PROVE  v[k] = u[k]
  <2>0. u[k] = k /\ k \in Nat /\ k >= 1 /\ k <= c
    BY <1>2
  <2>1. CASE k <= b
    <3>1. k \in 1 .. b
      BY <2>0, <2>1
    <3>2. v[k] = s[k]
      BY <1>1, <3>1
    <3>3. s[k] = k
      BY <1>2, <3>1
    <3> QED
      BY <2>0, <3>2, <3>3
  <2>2. CASE k > b
    <3>1. k - b \in 1 .. c - b
      BY <2>0, <2>2
    <3>2. v[k] = t[k - b]
      BY <1>1, <2>0, <2>2, SMTT(40)
    <3>3. t[k - b] = b + (k - b)
      BY <1>2, <3>1
    <3> QED
      BY <2>0, <3>2, <3>3
  <2>3. k <= b \/ k > b
    BY <2>0
  <2> HIDE DEF v
  <2> QED
    BY <2>1, <2>2, <2>3
<1> HIDE DEF v
<1>5. v = u
  <2>1. v \in Seq(Nat) /\ Len(v) = c
    BY <1>3 DEF v
  <2>2. Len(v) = Len(u)
    BY <1>1, <2>1
  <2> QED
    BY <1>1, <1>4, <2>1, <2>2
<1> QED
  BY <1>5 DEF s, t, u, v

-----------------------------------------------------------------------------
(* The invariant.  What has been decoded is a beginning of the body, and   *)
(* the chunk at hand comes next in it; the characters of the text rise and *)
(* have begun; while no chunk has cut a character the text is all that     *)
(* came, and ends where a character does.                                  *)
Taken == sent - Len(chunk)

BodyInv ==
  /\ sent \in Nat /\ Segment(chunk, Taken)
  /\ text \in Seq(Nat) /\ Ordered(Rising, text)
  /\ \A n \in 1 .. Len(text) :
       text[n] # Replacement =>
         \E k \in 1 .. Taken : Body[k].char = text[n] /\ Body[k].place = 1
  /\ ~ split => /\ text = UpFrom(0, Len(text)) /\ Len(text) <= Len(Width)
                /\ Aligned(Taken, Len(text))
                /\ chunk # <<>> => Body[sent].place = Width[Body[sent].char]
  /\ outcome = Parsed => Parse(text) = Parsed

(* Nothing has come at first.                                              *)
LEMMA BodyInvInit == BodyInit => BodyInv
<1> SUFFICES ASSUME BodyInit
             PROVE  BodyInv
  OBVIOUS
<1>1. Len(<<>>) = 0 /\ <<>> \in Seq(Nat) /\ <<>> \in Seq(Byte)
  OBVIOUS
<1>2. sent = 0 /\ chunk = <<>> /\ text = <<>> /\ Taken = 0 /\ Len(text) = 0 /\ Len(chunk) = 0
  <2>1. sent = 0 /\ chunk = <<>> /\ text = <<>>
    BY DEF BodyInit
  <2>2. Len(text) = 0 /\ Len(chunk) = 0
    BY <1>1, <2>1
  <2> DEFINE l == Len(chunk)
  <2>3. sent = 0 /\ l = 0
    BY <2>1, <2>2
  <2> HIDE DEF l
  <2>4. sent - l = 0
    BY <2>3
  <2>5. Taken = 0
    BY <2>4 DEF Taken, l
  <2> QED
    BY <2>1, <2>2, <2>5
<1>3. Segment(chunk, Taken)
  BY <1>1, <1>2, BodyType DEF Segment
<1>4. Ordered(Rising, text)
  BY <1>2 DEF Ordered
<1>5. text = UpFrom(0, Len(text))
  BY <1>2 DEF UpFrom
<1>6. outcome # Parsed
  BY DEF BodyInit, Reading, Parsed
<1> QED
  BY <1>1, <1>2, <1>3, <1>4, <1>5, <1>6, WidthType DEF BodyInv, Aligned

(* A chunk that comes is the next of the body.                             *)
LEMMA DeliverKeeps ==
  ASSUME BodyInv, NEW n \in 1 .. MaxChunk, Deliver(n)
  PROVE  BodyInv'
<1>1. /\ chunk = <<>> /\ sent + n <= Size /\ chunk' = SubSeq(Body, sent + 1, sent + n)
      /\ sent' = sent + n /\ UNCHANGED <<text, outcome>>
      /\ split' = (split \/ Last(chunk').place < Width[Last(chunk').char])
  BY DEF Deliver, Size
<1>2. sent \in Nat /\ n \in Nat /\ n >= 1 /\ Size \in Nat /\ Body \in Seq(Byte) /\ Len(Body) = Size
  BY BodyType, BodyAssumption DEF BodyInv, Size
<1>3. /\ chunk' \in Seq(Byte) /\ Len(chunk') = n
      /\ \A k \in 1 .. n : chunk'[k] = Body[sent + k]
  BY <1>1, <1>2
<1>4. Taken = sent /\ Taken' = sent
  BY <1>1, <1>2, <1>3 DEF Taken
<1>5. Segment(chunk', sent)
  BY <1>1, <1>2, <1>3 DEF Segment
<1>6. sent' \in Nat /\ Segment(chunk', Taken')
  BY <1>1, <1>2, <1>4, <1>5
<1>7. Last(chunk') = Body[sent']
  <2>1. Last(chunk') = chunk'[n]
    BY <1>3 DEF Last
  <2> QED
    BY <1>1, <1>2, <1>3, <2>1
<1>8. ~ split' => ~ split /\ Body[sent'].place = Width[Body[sent'].char]
  <2>1. sent' \in 1 .. Size
    BY <1>1, <1>2
  <2>2. Body[sent'].place \in 1 .. Width[Body[sent'].char] /\ Width[Body[sent'].char] \in Nat
    BY <2>1, BodyType
  <2> DEFINE l == Last(chunk')
             q == Body[sent']
  <2>3. l = q /\ q.place \in 1 .. Width[q.char] /\ Width[q.char] \in Nat
        /\ split' = (split \/ l.place < Width[l.char])
    BY <1>1, <1>7, <2>2
  <2> HIDE DEF l, q
  <2>4. ~ (q.place < Width[q.char]) => q.place = Width[q.char]
    BY <2>3
  <2>5. ~ split' => ~ split /\ ~ (q.place < Width[q.char])
    BY <2>3
  <2> QED
    BY <2>4, <2>5 DEF q
<1>9. Parse(text)' = Parse(text)
  BY <1>1 DEF Parse
<1>10. /\ text' \in Seq(Nat) /\ Ordered(Rising, text')
       /\ \A k \in 1 .. Len(text') :
             text'[k] # Replacement =>
               \E j \in 1 .. Taken' : Body[j].char = text'[k] /\ Body[j].place = 1
  BY <1>1, <1>4 DEF BodyInv
<1>11. ~ split' => /\ text' = UpFrom(0, Len(text')) /\ Len(text') <= Len(Width)
                  /\ Aligned(Taken', Len(text'))
                  /\ Body[sent'].place = Width[Body[sent'].char]
  BY <1>1, <1>4, <1>8 DEF BodyInv
<1>12. outcome' = Parsed => Parse(text)' = Parsed
  BY <1>1, <1>9 DEF BodyInv
<1> QED
  BY <1>6, <1>10, <1>11, <1>12 DEF BodyInv

(* A chunk that is decoded adds the characters it has, in their order.     *)
LEMMA DecodeKeeps ==
  ASSUME BodyInv, DecodeChunk
  PROVE  BodyInv'
<1> DEFINE more == Lossy(chunk)
<1>1. /\ outcome = Reading /\ chunk # <<>> /\ text' = text \o more /\ chunk' = <<>>
      /\ UNCHANGED <<sent, split, outcome>>
  BY DEF DecodeChunk
<1>2. /\ sent \in Nat /\ Segment(chunk, Taken) /\ text \in Seq(Nat) /\ Ordered(Rising, text)
      /\ Taken \in Nat /\ Len(chunk) \in Nat /\ Taken + Len(chunk) = sent /\ sent <= Size
  <2>1. sent \in Nat /\ Segment(chunk, Taken) /\ text \in Seq(Nat) /\ Ordered(Rising, text)
    BY DEF BodyInv
  <2>2. Taken \in Nat /\ Len(chunk) \in Nat /\ Taken + Len(chunk) <= Size
    BY <2>1, SegmentType DEF Segment
  <2>3. Taken + Len(chunk) = sent
    BY <2>1, <2>2 DEF Taken
  <2> QED
    BY <2>1, <2>2, <2>3
<1>3. Taken' = sent
  <2>1. Len(<<>>) = 0
    OBVIOUS
  <2> QED
    BY <1>1, <1>2, <2>1 DEF Taken
<1>4. Segment(chunk', Taken')
  BY <1>1, <1>2, <1>3, BodyType DEF Segment
<1>5. \A x \in Begins(chunk) : x \in Nat /\ \E k \in Taken + 1 .. sent : Body[k].char = x /\ Body[k].place = 1
  <2> SUFFICES ASSUME NEW x \in Begins(chunk)
               PROVE  x \in Nat /\ \E k \in Taken + 1 .. sent : Body[k].char = x /\ Body[k].place = 1
    OBVIOUS
  <2>1. PICK n \in 1 .. Len(chunk) : chunk[n].place = 1 /\ x = chunk[n].char
    BY DEF Begins
  <2>2. chunk[n] = Body[Taken + n] /\ Taken + n \in Taken + 1 .. sent /\ chunk[n].char \in Nat
    BY <1>2, SegmentType
  <2> QED
    BY <2>1, <2>2
<1>6. more \in Seq(Begins(chunk) \cup {Replacement}) /\ Ordered(Rising, more)
  BY <1>2, LossyType, LossyRises
<1>7. /\ Len(more) \in Nat /\ more \in Seq(Nat)
      /\ \A n \in 1 .. Len(more) :
           more[n] # Replacement => \E k \in Taken + 1 .. sent : Body[k].char = more[n] /\ Body[k].place = 1
  <2> HIDE DEF more
  <2>1. \A x \in Begins(chunk) \cup {Replacement} : x \in Nat
    BY <1>5 DEF Replacement
  <2>2. \A n \in 1 .. Len(more) : more[n] \in Begins(chunk) \cup {Replacement}
    BY <1>6
  <2>3. Len(more) \in Nat
    BY <1>6
  <2>4. more \in Seq(Nat)
    BY <1>6, <2>1, <2>2, <2>3
  <2> QED
    BY <1>5, <2>2, <2>3, <2>4
<1> HIDE DEF more
<1>8. AllBefore(Rising, text, more)
  <2> SUFFICES ASSUME NEW m \in 1 .. Len(text), NEW n \in 1 .. Len(more)
               PROVE  <<text[m], more[n]>> \in Rising
    BY DEF AllBefore
  <2>1. text[m] \in Nat /\ more[n] \in Nat
    BY <1>2, <1>7
  <2>2. ASSUME text[m] # Replacement, more[n] # Replacement
        PROVE  text[m] < more[n]
    <3>1. PICK j \in 1 .. Taken : Body[j].char = text[m] /\ Body[j].place = 1
      BY <2>2 DEF BodyInv
    <3>2. PICK k \in Taken + 1 .. sent : Body[k].char = more[n] /\ Body[k].place = 1
      BY <1>7, <2>2
    <3>3. j \in 1 .. Size /\ k \in 1 .. Size /\ j < k
      BY <1>2, BodyType
    <3> QED
      BY <3>1, <3>2, <3>3, BodyInOrder DEF Before
  <2> QED
    BY <2>1, <2>2 DEF Rising
<1>9. text' \in Seq(Nat) /\ Ordered(Rising, text')
  <2>1. Ordered(Rising, text \o more)
    BY <1>2, <1>6, <1>7, <1>8, OrderedJoined
  <2> QED
    BY <1>1, <1>2, <1>7, <2>1
<1>10. \A n \in 1 .. Len(text') :
         text'[n] # Replacement =>
           \E k \in 1 .. Taken' : Body[k].char = text'[n] /\ Body[k].place = 1
  <2> SUFFICES ASSUME NEW n \in 1 .. Len(text'), text'[n] # Replacement
               PROVE  \E k \in 1 .. sent : Body[k].char = text'[n] /\ Body[k].place = 1
    BY <1>3
  <2>0. Len(text) \in Nat /\ Len(text') = Len(text) + Len(more)
    BY <1>1, <1>2, <1>7
  <2>1. CASE n <= Len(text)
    <3>1. text'[n] = text[n] /\ n \in 1 .. Len(text)
      BY <1>1, <1>2, <1>7, <2>0, <2>1
    <3>2. PICK k \in 1 .. Taken : Body[k].char = text[n] /\ Body[k].place = 1
      BY <3>1 DEF BodyInv
    <3>3. k \in 1 .. sent
      BY <1>2
    <3> QED
      BY <3>1, <3>2, <3>3
  <2>2. CASE n > Len(text)
    <3>1. text'[n] = more[n - Len(text)] /\ n - Len(text) \in 1 .. Len(more)
      BY <1>1, <1>2, <1>7, <2>0, <2>2
    <3>2. PICK k \in Taken + 1 .. sent : Body[k].char = text'[n] /\ Body[k].place = 1
      BY <1>7, <3>1
    <3>3. k \in 1 .. sent
      BY <1>2
    <3> QED
      BY <3>2, <3>3
  <2> QED
    BY <2>0, <2>1, <2>2
<1>11. ASSUME ~ split'
       PROVE  text' = UpFrom(0, Len(text')) /\ Len(text') <= Len(Width) /\ Aligned(Taken', Len(text'))
  <2> DEFINE a == Len(text)
             b == Body[Taken + Len(chunk)].char
  <2>1. /\ text = UpFrom(0, a) /\ Aligned(Taken, a) /\ Body[sent].place = Width[Body[sent].char]
        /\ a \in Nat
    BY <1>1, <1>2, <1>11 DEF BodyInv
  <2>2. Taken + Len(chunk) = sent /\ Body[Taken + Len(chunk)].place = Width[b] /\ b = Body[sent].char
    BY <1>2, <2>1
  <2> HIDE DEF a, b
  <2>3. b \in Nat /\ a < b /\ more = UpFrom(a, b)
    BY <1>1, <1>2, <2>1, <2>2, LossyWhole DEF b, more
  <2>4. text' = UpFrom(0, b)
    <3>1. a <= b
      BY <2>1, <2>3
    <3>2. UpFrom(0, a) \o UpFrom(a, b) = UpFrom(0, b)
      BY <2>1, <2>3, <3>1, UpFromJoined
    <3> QED
      BY <1>1, <2>1, <2>3, <3>2
  <2>5. Len(UpFrom(0, b)) = b
    BY <2>3 DEF UpFrom
  <2>6. sent \in 1 .. Size /\ sent # 0
    <3>1. Len(chunk) # 0
      BY <1>1, <1>2 DEF Segment
    <3> QED
      BY <1>2, <3>1, BodyType
  <2>7. b \in 1 .. Len(Width)
    BY <2>2, <2>6, BodyType
  <2>8. Aligned(sent, b)
    BY <2>2, <2>3, <2>6 DEF Aligned
  <2> QED
    BY <1>3, <2>4, <2>5, <2>7, <2>8, WidthType
<1>12. outcome' # Parsed
  BY <1>1 DEF Reading, Parsed
<1> QED
  BY <1>1, <1>2, <1>4, <1>9, <1>10, <1>11, <1>12 DEF BodyInv

(* What has been decoded is what came (BodyInv), however the network cuts  *)
(* the body up and wherever it breaks off.                                 *)
THEOREM Decoding == BodySpec => []BodyInv
<1>1. BodyInv /\ [BodyNext]_bodyVars => BodyInv'
  <2> SUFFICES ASSUME BodyInv, [BodyNext]_bodyVars
               PROVE  BodyInv'
    OBVIOUS
  <2>1. ASSUME NEW n \in 1 .. MaxChunk, Deliver(n)
        PROVE  BodyInv'
    BY <2>1, DeliverKeeps
  <2>2. CASE DecodeChunk
    BY <2>2, DecodeKeeps
  <2>3. CASE End \/ Break \/ UNCHANGED bodyVars
    <3>1. UNCHANGED <<sent, chunk, text, split, outcome>>
      BY <2>3 DEF End, Break, bodyVars
    <3> QED
      BY <3>1 DEF BodyInv, Taken, Segment, Parse
  <2>4. CASE FinishReading
    <3>1. UNCHANGED <<sent, chunk, text, split>> /\ outcome' = Parse(text)
      BY <2>4 DEF FinishReading
    <3> QED
      BY <3>1 DEF BodyInv, Taken, Segment, Parse
  <2> QED
    BY <2>1, <2>2, <2>3, <2>4 DEF BodyNext, Reader, Network
<1> QED
  BY BodyInvInit, <1>1, PTL DEF BodySpec

(* For every document and every way to cut it: as long as no chunk ends    *)
(* inside a character, the text is the beginning of the document           *)
(* (TextIsPrefix).                                                         *)
THEOREM TextComesInOrder == BodySpec => []TextIsPrefix
<1>1. BodyInv => TextIsPrefix
  <2> SUFFICES ASSUME BodyInv, ~ split
               PROVE  IsPrefix(text, Document)
    BY DEF TextIsPrefix
  <2>1. text = UpFrom(0, Len(text)) /\ Len(text) \in Nat /\ Len(text) <= Len(Width) /\ text \in Seq(Nat)
    BY DEF BodyInv
  <2>2. Len(Width) \in Nat /\ DOMAIN Width = 1 .. Len(Width)
    BY WidthType
  <2>3. Document \in Seq(Nat) /\ Len(Document) = Len(Width) /\ \A k \in 1 .. Len(Width) : Document[k] = k
    <3>1. Document \in [1 .. Len(Width) -> Nat]
      BY <2>2 DEF Document
    <3> QED
      BY <2>2, <3>1, SeqOfPositions DEF Document
  <2>4. \A k \in 1 .. Len(text) : text[k] = k
    BY <2>1 DEF UpFrom
  <2> QED
    BY <2>1, <2>2, <2>3, <2>4 DEF IsPrefix
<1> QED
  BY Decoding, <1>1, PTL

(* And whatever the chunks, characters that survive the decoding keep      *)
(* their order and are not repeated (SurvivorsInOrder).                    *)
THEOREM CharactersKeepOrder == BodySpec => []SurvivorsInOrder
<1>1. BodyInv => SurvivorsInOrder
  <2> SUFFICES ASSUME BodyInv, NEW m \in DOMAIN text, NEW n \in DOMAIN text, m < n,
                      text[m] # Replacement, text[n] # Replacement
               PROVE  text[m] < text[n]
    BY DEF SurvivorsInOrder
  <2>1. Ordered(Rising, text) /\ DOMAIN text = 1 .. Len(text)
    BY DEF BodyInv
  <2>2. <<text[m], text[n]>> \in Rising
    BY <2>1 DEF Ordered
  <2> DEFINE x == text[m]
             y == text[n]
  <2>3. x # Replacement /\ y # Replacement /\ <<x, y>> \in Rising
    BY <2>2
  <2> HIDE DEF x, y
  <2>4. x < y
    BY <2>3 DEF Rising
  <2> QED
    BY <2>4 DEF x, y
<1> QED
  BY Decoding, <1>1, PTL

(* A body that broke off is never taken for an answer                      *)
(* (AnswerNeedsWholeBody): an answer needs the last character, and that    *)
(* comes last.                                                             *)
THEOREM NoAnswerOfFragment == BodySpec => []AnswerNeedsWholeBody
<1>1. BodyInv => AnswerNeedsWholeBody
  <2> SUFFICES ASSUME BodyInv, outcome = Parsed
               PROVE  Received = DOMAIN Width
    BY DEF AnswerNeedsWholeBody
  <2>1. text # <<>> /\ Last(text) = Len(Width) /\ text \in Seq(Nat)
    BY DEF BodyInv, Parse, Parsed, Failed
  <2>2. Len(text) \in 1 .. Len(text) /\ text[Len(text)] = Len(Width) /\ Len(Width) # Replacement
    BY <2>1, WidthType DEF Last, Replacement
  <2>3. PICK k \in 1 .. Taken : Body[k].char = Len(Width)
    BY <2>2 DEF BodyInv
  <2>4. Taken \in Nat /\ Taken <= Size /\ Size \in Nat
    BY SegmentType, BodyType DEF BodyInv, Segment
  <2>5. k = Size
    BY <2>3, <2>4, LastByte
  <2>6. Taken = Size
    BY <2>4, <2>5
  <2>7. \A c \in 1 .. Len(Width) : \E n \in 1 .. Size : Body[n].char = c
    BY BodySpells DEF Spells, Size
  <2> QED
    BY <2>6, <2>7, WidthType DEF Received, Taken
<1> QED
  BY Decoding, <1>1, PTL

==============================================================================
