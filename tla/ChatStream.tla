----------------------------- MODULE ChatStream -----------------------------
(***************************************************************************)
(* ChatStream and its consumers: the methods collect_response and          *)
(* collect_text, and the loop of the command line tool, driven by whatever *)
(* an adapter yields: any sequence of chunks and errors, ended or not.  A  *)
(* call of GenericProvider::chat on an adapter without non-streaming       *)
(* support ends in collect_response.                                       *)
(***************************************************************************)
EXTENDS StreamChunks, SequencesExt

CONSTANT Consumers   \* those of interest

ASSUME ConsumerAssumption == Consumers \subseteq {"collect_response", "collect_text", "llm-cli"}

VARIABLES
  consumer,   \* who reads the stream, fixed
  queue,      \* items yielded by the adapter and not polled yet
  closed,     \* the adapter yields nothing more: after queue comes None
  polled,     \* history: the items the consumer has taken
  acc,        \* the local variables of the consuming method
  outcome     \* what it returned

streamVars == <<consumer, queue, closed, polled, acc, outcome>>

(* calls is tool_call_buf, a BTreeMap<usize, ToolCall>.                    *)
EmptyAcc ==
  [content |-> <<>>, reasoning |-> <<>>, signature |-> None,
   calls |-> << >>, usage |-> NoUsage, finish |-> "Stop"]

Reading == [tag |-> "reading", error |-> NoError]
Collected == [tag |-> "ok", error |-> NoError]
Failed(e) == [tag |-> "err", error |-> e]

(* Mutant of MergeUsage: the latest report is all there is.                *)
LatestUsage(old, new) == new

(* usage: every count that is present overwrites, an absent one does not.  *)
MergeUsage(old, new) == [f \in UsageField |-> IF new[f] = None THEN old[f] ELSE new[f]]

(* Mutants of ApplyToolCallDelta: a start without arguments leaves them    *)
(* absent; a call once started is not started anew.                        *)
StartWithAbsentArgs(calls, c) ==
  IF c.id # None /\ c.name # None
    THEN [i \in DOMAIN calls \cup {c.index} |->
            IF i = c.index THEN [id |-> c.id, name |-> c.name, args |-> c.args] ELSE calls[i]]
  ELSE IF c.args # None /\ c.index \in DOMAIN calls /\ calls[c.index].args # None
    THEN [calls EXCEPT ![c.index].args = @ \o c.args]
  ELSE calls

KeepFirstStart(calls, c) ==
  IF c.id # None /\ c.name # None /\ c.index \notin DOMAIN calls
    THEN [i \in DOMAIN calls \cup {c.index} |->
            IF i = c.index
              THEN [id |-> c.id, name |-> c.name,
                    args |-> IF c.args = None THEN <<>> ELSE c.args]
              ELSE calls[i]]
  ELSE IF c.args # None /\ c.index \in DOMAIN calls
    THEN [calls EXCEPT ![c.index].args = @ \o c.args]
  ELSE calls

(* apply_tool_call_delta: an item with an id and a name starts the call of *)
(* its index, also over one that is there; any other item appends its      *)
(* arguments, if it has some, to the call of its index, if there is one.   *)
ApplyToolCallDelta(calls, c) ==
  IF c.id # None /\ c.name # None
    THEN [i \in DOMAIN calls \cup {c.index} |->
            IF i = c.index
              THEN [id |-> c.id, name |-> c.name,
                    args |-> IF c.args = None THEN <<>> ELSE c.args]
              ELSE calls[i]]
  ELSE IF c.args # None /\ c.index \in DOMAIN calls
    THEN [calls EXCEPT ![c.index].args = @ \o c.args]
  ELSE calls

(* tool_call_buf.into_values(): the calls in the order of their indices.   *)
InOrder(calls) ==
  LET end == IF DOMAIN calls = {} THEN 0 ELSE Max(DOMAIN calls) + 1
  IN  FlattenSeq([n \in 1 .. end |-> IF n - 1 \in DOMAIN calls THEN <<calls[n - 1]>> ELSE <<>>])

ToolCalls(a) == InOrder(a.calls)

Absorb(a, c) ==
  CASE c.kind = "Text" -> [a EXCEPT !.content = @ \o c.text]
    [] c.kind = "Thought" -> [a EXCEPT !.reasoning = @ \o c.text]
    [] c.kind = "ThinkingSignature" -> [a EXCEPT !.signature = c.signature]
    [] c.kind = "ToolCall" -> [a EXCEPT !.calls = ApplyToolCallDelta(@, c)]
    [] c.kind = "Usage" -> [a EXCEPT !.usage = MergeUsage(@, c.usage)]
    [] c.kind = "Stop" -> [a EXCEPT !.finish = IF c.reason = None THEN @ ELSE FinishReason(c.reason)]
    [] OTHER -> a

StreamTypeOK ==
  /\ consumer \in Consumers
  /\ closed \in BOOLEAN
  /\ acc.content \in Seq(Piece) /\ acc.reasoning \in Seq(Piece)
  /\ acc.signature \in Opt(Signature)
  /\ DOMAIN acc.calls \subseteq Index
  /\ \A i \in DOMAIN acc.calls :
       acc.calls[i] \in [id : CallId, name : ToolName, args : Seq(Piece)]
  /\ acc.usage \in [UsageField -> Opt(Nat)]
  /\ acc.finish # None
  /\ outcome \in {Reading, Collected, Failed(StreamError), Failed(LlmGeneralError)}

StreamInit ==
  /\ consumer \in Consumers
  /\ queue = <<>>
  /\ closed = FALSE
  /\ polled = <<>>
  /\ acc = EmptyAcc
  /\ outcome = Reading

-----------------------------------------------------------------------------
(* The consumer. *)

Polls(kinds) ==
  /\ outcome = Reading
  /\ queue # <<>>
  /\ Head(queue).kind \in kinds
  /\ queue' = Tail(queue)
  /\ polled' = Append(polled, Head(queue))
  /\ UNCHANGED <<consumer, closed>>

(* `chunk?`: an error item ends every consumer with that error.            *)
TakeErr ==
  /\ Polls({"Err"})
  /\ outcome' = Failed(Head(queue).error)
  /\ UNCHANGED acc

(* Chunks that add to the answer; collect_text keeps the text only, and    *)
(* the tool prints it, all else going to its diagnostics.                  *)
TakeContent ==
  /\ Polls({"Text", "Thought", "ThinkingSignature", "ToolCall", "Usage"})
  /\ acc' = IF consumer = "collect_response" \/ Head(queue).kind = "Text"
              THEN Absorb(acc, Head(queue))
              ELSE acc
  /\ UNCHANGED outcome

(* Mutant of TakeErrorChunk: an error chunk is passed over.                *)
PassErrorChunk ==
  /\ Polls({"Error"})
  /\ UNCHANGED <<acc, outcome>>

(* StreamChunk::Error is an error to collect_response; collect_text passes *)
(* over it (`_ => {}`); the tool reports it, stops and ends well.          *)
TakeErrorChunk ==
  /\ Polls({"Error"})
  /\ outcome' = CASE consumer = "collect_response" -> Failed(LlmGeneralError)
                  [] consumer = "collect_text" -> outcome
                  [] consumer = "llm-cli" -> Collected
  /\ UNCHANGED acc

(* Mutant of TakeStop: the loop goes on behind a Stop.                     *)
TakeStopAndGoOn ==
  /\ Polls({"Stop"})
  /\ acc' = IF consumer = "collect_response" THEN Absorb(acc, Head(queue)) ELSE acc
  /\ UNCHANGED outcome

(* The first Stop ends every consumer, whatever the adapter has behind it. *)
TakeStop ==
  /\ Polls({"Stop"})
  /\ acc' = IF consumer = "collect_response" THEN Absorb(acc, Head(queue)) ELSE acc
  /\ outcome' = Collected

(* Mutant of TakeEnd: the end of a stream without items is not seen.       *)
TakeEndOfItems ==
  /\ outcome = Reading
  /\ queue = <<>>
  /\ polled # <<>>
  /\ closed
  /\ outcome' = Collected
  /\ UNCHANGED <<consumer, queue, closed, polled, acc>>

(* The stream ends without a Stop: every consumer has what it has.         *)
TakeEnd ==
  /\ outcome = Reading
  /\ queue = <<>>
  /\ closed
  /\ outcome' = Collected
  /\ UNCHANGED <<consumer, queue, closed, polled, acc>>

Consume == TakeErr \/ TakeContent \/ TakeErrorChunk \/ TakeStop \/ TakeEnd

==============================================================================
