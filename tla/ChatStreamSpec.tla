--------------------------- MODULE ChatStreamSpec ---------------------------
(***************************************************************************)
(* The consumers of a ChatStream over an arbitrary adapter, and the answer *)
(* they should give, defined over the whole sequence of items they took    *)
(* instead of item by item.                                                *)
(***************************************************************************)
EXTENDS ChatStream

CONSTANTS
  Items,       \* the items an adapter may yield
  MaxItems     \* bound on the number of items of a stream

(* What an item may be: a chunk with the fields of its kind, or an error   *)
(* of one of the two kinds adapters make.                                  *)
Item ==
  [kind : {"Text", "Thought"}, text : Seq(Piece)]
    \cup [kind : {"ThinkingSignature"}, signature : Signature]
    \cup [kind : {"ToolCall"}, index : Index, id : Opt(CallId), name : Opt(ToolName),
          args : Opt(Seq(Piece))]
    \cup [kind : {"Usage"}, usage : [UsageField -> Opt(Nat)]]
    \cup [kind : {"Error"}]
    \cup {item \in Items : item.kind = "Stop" /\ DOMAIN item = {"kind", "reason"}}
    \cup [kind : {"Err"}, error : {StreamError, LlmGeneralError}]

ASSUME ItemAssumption ==
  /\ Items \subseteq Item
  /\ None \notin {"Stop", "Length", "ToolCalls", "ContentFilter"}

yielded == Len(polled) + Len(queue)

(* The adapter yields another item once the previous one was polled, also  *)
(* when nobody is to poll it; it may end the stream at any point.          *)
Yield(item) ==
  /\ ~ closed
  /\ yielded < MaxItems
  /\ queue = <<>>
  /\ queue' = Append(queue, item)
  /\ UNCHANGED <<consumer, closed, polled, acc, outcome>>

Close ==
  /\ ~ closed
  /\ closed' = TRUE
  /\ UNCHANGED <<consumer, queue, polled, acc, outcome>>

Init == StreamInit
Next == Consume \/ (\E item \in Items : Yield(item)) \/ Close

(* The consumer is polled for as long as the caller awaits it; an adapter  *)
(* that neither yields nor ends keeps it waiting.                          *)
Spec == Init /\ [][Next]_streamVars /\ WF_streamVars(Consume)

-----------------------------------------------------------------------------
(* The answer, defined over the items taken. *)

TextOf(kind, items) ==
  FlattenSeq([n \in DOMAIN items |-> IF items[n].kind = kind THEN items[n].text ELSE <<>>])

Greatest(S) == CHOOSE n \in S : \A m \in S : m <= n

(* The value that comes last, None if there is none.                       *)
LastOf(values) == IF DOMAIN values = {} THEN None ELSE values[Greatest(DOMAIN values)]

SignatureOf(items) ==
  LastOf([n \in {m \in DOMAIN items : items[m].kind = "ThinkingSignature"} |-> items[n].signature])

UsageOf(items) ==
  [f \in UsageField |->
     LastOf([n \in {m \in DOMAIN items : items[m].kind = "Usage" /\ items[m].usage[f] # None} |->
               items[n].usage[f]])]

(* The call at an index is what its last start and the fragments of that   *)
(* index behind it say.                                                    *)
Starts(items, i) ==
  {n \in DOMAIN items : items[n].kind = "ToolCall" /\ items[n].index = i
                        /\ items[n].id # None /\ items[n].name # None}
Fragment(c, i) == IF c.kind = "ToolCall" /\ c.index = i /\ c.args # None THEN c.args ELSE <<>>
ArgsFrom(items, i, first) ==
  FlattenSeq([n \in DOMAIN items |-> IF n >= first THEN Fragment(items[n], i) ELSE <<>>])
CallsOf(items) ==
  [i \in {j \in Index : Starts(items, j) # {}} |->
     LET first == Greatest(Starts(items, i))
     IN  [id |-> items[first].id, name |-> items[first].name, args |-> ArgsFrom(items, i, first)]]

(* What a consumer has at hand is, at every moment, what all the items it  *)
(* took say together: texts in order and, in collect_response, the last    *)
(* signature, every call with all its fragments and each count as last     *)
(* reported (apply_one and the usage arm of collect_response).             *)
AnswerIsSumOfItems ==
  /\ acc.content = TextOf("Text", polled)
  /\ consumer = "collect_response" =>
       /\ acc.reasoning = TextOf("Thought", polled)
       /\ acc.signature = SignatureOf(polled)
       /\ acc.usage = UsageOf(polled)
       /\ acc.calls = CallsOf(polled)

(* An error is never followed by an answer, nor to collect_response an     *)
(* error chunk; the tool takes nothing behind one; and an answer is given  *)
(* only at a Stop, at the end of the stream or, by the tool, at an error   *)
(* chunk.                                                                  *)
FailureIsReported ==
  LET errors(kinds) == {n \in DOMAIN polled : polled[n].kind \in kinds} IN
  /\ errors({"Err"}) # {} => outcome.tag = "err"
  /\ (errors({"Error"}) # {} /\ consumer = "collect_response") => outcome.tag = "err"
  /\ consumer = "llm-cli" => errors({"Error"}) \subseteq {Len(polled)}
  /\ outcome = Collected =>
       \/ closed /\ queue = <<>>
       \/ polled # <<>> /\ Last(polled).kind = "Stop"
       \/ consumer = "llm-cli" /\ errors({"Error"}) # {}

(* The reason reported is that of the first Stop of the stream, whatever   *)
(* Stops the adapter yields behind it, and "Stop" when the stream had none *)
(* or one without a reason.                                                *)
FirstStopWins ==
  (consumer = "collect_response" /\ outcome = Collected) =>
    LET items == polled \o queue
        stops == {n \in DOMAIN items : items[n].kind = "Stop"}
        first == CHOOSE n \in stops : \A m \in stops : n <= m
    IN  acc.finish = IF stops = {} \/ items[first].reason = None
                       THEN "Stop" ELSE FinishReason(items[first].reason)

(* If the adapter ends the stream, the consumer returns.                   *)
ClosedStreamIsCollected == closed ~> outcome # Reading

==============================================================================
