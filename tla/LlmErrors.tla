------------------------------ MODULE LlmErrors ------------------------------
(***************************************************************************)
(* The error type of the LLM layer and the classification of HTTP statuses *)
(* the retry loops are built on.  An error message carries no control, so  *)
(* an error is its variant and, for an API error, the HTTP status.         *)
(***************************************************************************)
EXTENDS Integers

(* LlmError: one value per variant; status is 0 in the variants that have none. *)
ConfigError == [kind |-> "Config", status |-> 0]
LlmGeneralError == [kind |-> "Llm", status |-> 0]
StreamError == [kind |-> "Stream", status |-> 0]
ApiError(s) == [kind |-> "LlmApi", status |-> s]

(* Option<LlmError>::None, and LlmError::status(): 0 stands for None. *)
NoError == [kind |-> "None", status |-> 0]
StatusOf(e) == e.status

LlmError(Statuses) ==
  {ConfigError, LlmGeneralError, StreamError} \cup {ApiError(s) : s \in Statuses}

(* HttpResponse::is_success and the retry predicate of both retry loops. *)
IsSuccess(s) == 200 <= s /\ s < 300

(* Mutants of IsRetryable: every client error, and a boundary taken wrong. *)
RetryableFrom400(s) == s >= 400
RetryableFrom429(s) == s >= 429

IsRetryable(s) == s = 429 \/ s >= 500

==============================================================================
