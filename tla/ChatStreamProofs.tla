--------------------------- MODULE ChatStreamProofs ---------------------------
(***************************************************************************)
(* Theorems about the consumers of a ChatStream, over adapters that yield  *)
(* any number of items in any order.                                       *)
(***************************************************************************)
EXTENDS ChatStreamSpec, Foundations

(* The consumer has taken no item of these kinds.                          *)
NoneTaken(kinds) == \A n \in 1 .. Len(polled) : polled[n].kind \notin kinds

(* The item it took last, and what it took before.                         *)
LastTaken(kind) == Len(polled) > 0 /\ polled[Len(polled)].kind = kind
FirstTaken(kind) ==
  LastTaken(kind) /\ \A n \in 1 .. Len(polled) - 1 : polled[n].kind # kind

CallType == [id : CallId, name : ToolName, args : Seq(Piece)]

AccTyped(a) ==
  /\ DOMAIN a = {"content", "reasoning", "signature", "calls", "usage", "finish"}
  /\ a.content \in Seq(Piece) /\ a.reasoning \in Seq(Piece)
  /\ a.signature \in Opt(Signature)
  /\ DOMAIN a.calls \subseteq Index
  /\ \A i \in DOMAIN a.calls : a.calls[i] \in CallType
  /\ a.usage \in [UsageField -> Opt(Nat)]
  /\ a.finish # None

(* Types, with those of the items.                                         *)
Typed ==
  /\ consumer \in Consumers
  /\ closed \in BOOLEAN
  /\ AccTyped(acc)
  /\ queue \in Seq(Items)
  /\ polled \in Seq(Items)
  /\ outcome \in {Reading, Collected, Failed(StreamError), Failed(LlmGeneralError)}

(* What a consumer that goes on reading can have taken.                    *)
WhileReading ==
  outcome = Reading =>
    /\ NoneTaken({"Err", "Stop"})
    /\ consumer # "collect_text" => NoneTaken({"Error"})
    /\ acc.finish = "Stop"

(* The three ways to an answer, and what was taken on each.                *)
AtAnEnd ==
  \/ closed /\ queue = <<>> /\ NoneTaken({"Stop"}) /\ acc.finish = "Stop"
  \/ /\ FirstTaken("Stop")
     /\ consumer = "collect_response" =>
          acc.finish = IF polled[Len(polled)].reason = None
                         THEN "Stop" ELSE FinishReason(polled[Len(polled)].reason)
  \/ consumer = "llm-cli" /\ LastTaken("Error")

WhenCollected ==
  outcome = Collected =>
    /\ NoneTaken({"Err"})
    /\ consumer = "collect_response" => NoneTaken({"Error"})
    /\ consumer = "llm-cli" => NoneTaken({"Error"}) \/ FirstTaken("Error")
    /\ AtAnEnd

WhenFailed ==
  outcome \in {Failed(StreamError), Failed(LlmGeneralError)} =>
    (consumer = "llm-cli" => NoneTaken({"Error"}))

ConsumerInv == Typed /\ WhileReading /\ WhenCollected /\ WhenFailed

-----------------------------------------------------------------------------

(* The three kinds of outcome differ.                                      *)
LEMMA Outcomes ==
  /\ Reading # Collected /\ Reading.tag = "reading" /\ Collected.tag = "ok"
  /\ \A e : Failed(e).tag = "err" /\ Failed(e) # Reading /\ Failed(e) # Collected
BY DEF Reading, Collected, Failed

(* A delta of a tool call keeps the calls typed.                           *)
LEMMA CallsTyped ==
  ASSUME NEW calls, DOMAIN calls \subseteq Index, \A i \in DOMAIN calls : calls[i] \in CallType,
         NEW c \in Item, c.kind = "ToolCall"
  PROVE  LET new == ApplyToolCallDelta(calls, c)
         IN  DOMAIN new \subseteq Index /\ \A i \in DOMAIN new : new[i] \in CallType
<1> DEFINE new == ApplyToolCallDelta(calls, c)
<1>1. c.index \in Index /\ c.id \in Opt(CallId) /\ c.name \in Opt(ToolName) /\ c.args \in Opt(Seq(Piece))
  BY DEF Item
<1>2. CASE c.id # None /\ c.name # None
  <2> DEFINE args == IF c.args = None THEN <<>> ELSE c.args
             start == [id |-> c.id, name |-> c.name, args |-> args]
  <2>1. args \in Seq(Piece)
    BY <1>1 DEF Opt
  <2>2. start \in CallType
    BY <1>1, <1>2, <2>1 DEF Opt, CallType
  <2> HIDE DEF start
  <2>3. new = [i \in DOMAIN calls \cup {c.index} |-> IF i = c.index THEN start ELSE calls[i]]
    BY <1>2 DEF ApplyToolCallDelta, start
  <2> QED
    BY <1>1, <2>2, <2>3
<1>3. CASE ~ (c.id # None /\ c.name # None) /\ c.args # None /\ c.index \in DOMAIN calls
  <2>1. new = [calls EXCEPT ![c.index].args = @ \o c.args]
    BY <1>3 DEF ApplyToolCallDelta
  <2>2. c.args \in Seq(Piece) /\ calls[c.index] \in CallType
    BY <1>1, <1>3 DEF Opt
  <2>3. calls[c.index].args \o c.args \in Seq(Piece)
    BY <2>2 DEF CallType
  <2>4. DOMAIN new = DOMAIN calls /\ new[c.index] = [calls[c.index] EXCEPT !.args = @ \o c.args]
        /\ \A i \in DOMAIN calls : i # c.index => new[i] = calls[i]
    BY <1>3, <2>1
  <2>5. new[c.index] \in CallType
    BY <2>2, <2>3, <2>4 DEF CallType
  <2> QED
    BY <2>4, <2>5
<1>4. CASE ~ (c.id # None /\ c.name # None) /\ ~ (c.args # None /\ c.index \in DOMAIN calls)
  BY <1>4 DEF ApplyToolCallDelta
<1> QED
  BY <1>2, <1>3, <1>4

(* An item of any kind keeps the accumulator typed and, unless it is a     *)
(* Stop, the reason.                                                       *)
LEMMA AbsorbTyped ==
  ASSUME NEW a, AccTyped(a), NEW c \in Item
  PROVE  /\ AccTyped(Absorb(a, c))
         /\ c.kind # "Stop" => Absorb(a, c).finish = a.finish
         /\ c.kind = "Stop" =>
              Absorb(a, c).finish = IF c.reason = None THEN a.finish ELSE FinishReason(c.reason)
<1>0. c.kind \in {"Text", "Thought", "ThinkingSignature", "ToolCall", "Usage", "Error", "Stop", "Err"}
  BY DEF Item
<1>1. CASE c.kind = "Text"
  <2>1. c.text \in Seq(Piece)
    BY <1>1 DEF Item
  <2>2. a.content \o c.text \in Seq(Piece)
    BY <2>1 DEF AccTyped
  <2> QED
    BY <1>1, <2>2 DEF AccTyped, Absorb
<1>2. CASE c.kind = "Thought"
  <2>1. c.text \in Seq(Piece)
    BY <1>2 DEF Item
  <2>2. a.reasoning \o c.text \in Seq(Piece)
    BY <2>1 DEF AccTyped
  <2> QED
    BY <1>2, <2>2 DEF AccTyped, Absorb
<1>3. CASE c.kind = "ThinkingSignature"
  <2>1. c.signature \in Opt(Signature)
    BY <1>3 DEF Item, Opt
  <2> QED
    BY <1>3, <2>1 DEF AccTyped, Absorb
<1>4. CASE c.kind = "ToolCall"
  <2> DEFINE new == ApplyToolCallDelta(a.calls, c)
  <2>1. DOMAIN new \subseteq Index /\ \A i \in DOMAIN new : new[i] \in CallType
    BY <1>4, CallsTyped DEF AccTyped
  <2>2. Absorb(a, c) = [a EXCEPT !.calls = new]
    BY <1>4 DEF Absorb
  <2> HIDE DEF new
  <2> QED
    BY <1>4, <2>1, <2>2 DEF AccTyped
<1>5. CASE c.kind = "Usage"
  <2> DEFINE new == MergeUsage(a.usage, c.usage)
  <2>1. c.usage \in [UsageField -> Opt(Nat)]
    BY <1>5 DEF Item
  <2>2. new \in [UsageField -> Opt(Nat)]
    BY <2>1 DEF AccTyped, MergeUsage
  <2>3. Absorb(a, c) = [a EXCEPT !.usage = new]
    BY <1>5 DEF Absorb
  <2> HIDE DEF new
  <2> QED
    BY <1>5, <2>2, <2>3 DEF AccTyped
<1>6. CASE c.kind = "Stop"
  <2>3. c.reason # None => FinishReason(c.reason) # None
    BY ItemAssumption DEF FinishReason
  <2>4. Absorb(a, c) = [a EXCEPT !.finish = IF c.reason = None THEN a.finish ELSE FinishReason(c.reason)]
    BY <1>6 DEF Absorb
  <2> QED
    BY <1>6, <2>3, <2>4 DEF AccTyped
<1>7. CASE c.kind \in {"Error", "Err"}
  BY <1>7 DEF Absorb
<1> QED
  BY <1>0, <1>1, <1>2, <1>3, <1>4, <1>5, <1>6, <1>7

(* A poll takes the head of the queue and adds it to what was taken.       *)
LEMMA PollTakes ==
  ASSUME Typed, NEW kinds, Polls(kinds)
  PROVE  /\ outcome = Reading /\ UNCHANGED <<consumer, closed>>
         /\ queue' \in Seq(Items) /\ polled' \in Seq(Items)
         /\ Head(queue) \in Item /\ Head(queue).kind \in kinds
         /\ Len(polled) \in Nat /\ Len(polled') = Len(polled) + 1
         /\ polled'[Len(polled')] = Head(queue)
         /\ \A n \in 1 .. Len(polled) : polled'[n] = polled[n]
<1>1. outcome = Reading /\ UNCHANGED <<consumer, closed>> /\ queue # <<>> /\ Head(queue).kind \in kinds
      /\ queue' = Tail(queue) /\ polled' = Append(polled, Head(queue))
  BY DEF Polls
<1>2. Head(queue) \in Items /\ queue' \in Seq(Items)
  BY <1>1 DEF Typed
<1>3. Head(queue) \in Item
  BY <1>2, ItemAssumption
<1> HIDE DEF Typed
<1>4. polled \in Seq(Items)
  BY DEF Typed
<1>5. /\ polled' \in Seq(Items)
      /\ Len(polled) \in Nat /\ Len(polled') = Len(polled) + 1
      /\ polled'[Len(polled')] = Head(queue)
      /\ \A n \in 1 .. Len(polled) : polled'[n] = polled[n]
  BY <1>1, <1>2, <1>4
<1> QED
  BY <1>1, <1>2, <1>3, <1>5

(* What then has been taken.                                               *)
LEMMA PollCounts ==
  ASSUME Typed, NEW kinds, Polls(kinds)
  PROVE  /\ \A S : NoneTaken(S) /\ Head(queue).kind \notin S => NoneTaken(S)'
         /\ \A k : NoneTaken({k}) /\ Head(queue).kind = k => FirstTaken(k)'
         /\ \A k : Head(queue).kind = k => LastTaken(k)'
<1>1. /\ Len(polled) \in Nat /\ Len(polled') = Len(polled) + 1
      /\ polled'[Len(polled')] = Head(queue)
      /\ \A n \in 1 .. Len(polled) : polled'[n] = polled[n]
  BY PollTakes
<1>2. \A n \in 1 .. Len(polled') : n = Len(polled') \/ n \in 1 .. Len(polled)
  BY <1>1
<1>3. \A n \in 1 .. Len(polled') - 1 : n \in 1 .. Len(polled)
  BY <1>1
<1> QED
  BY <1>1, <1>2, <1>3 DEF NoneTaken, FirstTaken, LastTaken

-----------------------------------------------------------------------------

(* Each arm of the consumers keeps the invariant.                          *)
LEMMA ArmsKeep ==
  ASSUME ConsumerInv, Consume
  PROVE  ConsumerInv'
<1>0. Typed /\ AccTyped(acc)
  BY DEF ConsumerInv, Typed
<1> DEFINE c == Head(queue)
<1>1. CASE TakeErr
  <2>1. Polls({"Err"}) /\ outcome' = Failed(c.error) /\ acc' = acc
    BY <1>1 DEF TakeErr
  <2>2. c \in Item /\ c.kind = "Err" /\ outcome = Reading /\ UNCHANGED <<consumer, closed>>
        /\ queue' \in Seq(Items) /\ polled' \in Seq(Items)
    BY <1>0, <2>1, PollTakes
  <2>3. c.error \in {StreamError, LlmGeneralError}
    BY <2>2 DEF Item
  <2>4. outcome' \in {Failed(StreamError), Failed(LlmGeneralError)}
    BY <2>1, <2>3
  <2>5. Typed'
    BY <1>0, <2>1, <2>2, <2>4 DEF Typed
  <2>6. NoneTaken({"Error"}) => NoneTaken({"Error"})'
    BY <1>0, <2>1, <2>2, PollCounts
  <2>7. consumer = "llm-cli" => NoneTaken({"Error"})'
    BY <2>2, <2>6 DEF ConsumerInv, WhileReading
  <2> QED
    BY <2>2, <2>4, <2>5, <2>7, Outcomes DEF ConsumerInv, WhileReading, WhenCollected, WhenFailed
<1>2. CASE TakeContent
  <2>1. /\ Polls({"Text", "Thought", "ThinkingSignature", "ToolCall", "Usage"})
        /\ acc' = Absorb(acc, c) \/ acc' = acc
        /\ outcome' = outcome
    BY <1>2 DEF TakeContent
  <2>2. c \in Item /\ c.kind \in {"Text", "Thought", "ThinkingSignature", "ToolCall", "Usage"}
        /\ outcome = Reading /\ UNCHANGED <<consumer, closed>>
        /\ queue' \in Seq(Items) /\ polled' \in Seq(Items)
    BY <1>0, <2>1, PollTakes
  <2>3. AccTyped(acc') /\ acc'.finish = acc.finish
    BY <1>0, <2>1, <2>2, AbsorbTyped
  <2>4. Typed'
    BY <1>0, <2>1, <2>2, <2>3 DEF Typed
  <2>5. /\ NoneTaken({"Error"}) => NoneTaken({"Error"})'
        /\ NoneTaken({"Err", "Stop"}) => NoneTaken({"Err", "Stop"})'
    BY <1>0, <2>1, <2>2, PollCounts
  <2> QED
    BY <2>1, <2>2, <2>3, <2>4, <2>5, Outcomes
    DEF ConsumerInv, WhileReading, WhenCollected, WhenFailed
<1>3. CASE TakeErrorChunk
  <2>1. Polls({"Error"}) /\ acc' = acc
    BY <1>3 DEF TakeErrorChunk
  <2>2. c \in Item /\ c.kind = "Error" /\ outcome = Reading /\ UNCHANGED <<consumer, closed>>
        /\ queue' \in Seq(Items) /\ polled' \in Seq(Items)
    BY <1>0, <2>1, PollTakes
  <2>3. /\ consumer = "collect_response" => outcome' = Failed(LlmGeneralError)
        /\ consumer = "collect_text" => outcome' = Reading
        /\ consumer = "llm-cli" => outcome' = Collected
    BY <1>3, <2>2 DEF TakeErrorChunk
  <2>4. consumer \in {"collect_response", "collect_text", "llm-cli"}
    BY <1>0, ConsumerAssumption DEF Typed
  <2>5. Typed'
    BY <1>0, <2>1, <2>2, <2>3, <2>4 DEF Typed
  <2>6. /\ NoneTaken({"Err", "Stop"}) => NoneTaken({"Err", "Stop"})'
        /\ NoneTaken({"Error"}) => FirstTaken("Error")'
        /\ LastTaken("Error")'
    BY <1>0, <2>1, <2>2, PollCounts
  <2>7. NoneTaken({"Err", "Stop"})' => NoneTaken({"Err"})'
    BY DEF NoneTaken
  <2> QED
    BY <2>1, <2>2, <2>3, <2>4, <2>5, <2>6, <2>7, Outcomes
    DEF ConsumerInv, WhileReading, WhenCollected, WhenFailed, AtAnEnd
<1>4. CASE TakeStop
  <2>1. /\ Polls({"Stop"})
        /\ acc' = IF consumer = "collect_response" THEN Absorb(acc, c) ELSE acc
        /\ outcome' = Collected
    BY <1>4 DEF TakeStop
  <2>2. /\ c \in Item /\ c.kind = "Stop" /\ outcome = Reading /\ UNCHANGED <<consumer, closed>>
        /\ queue' \in Seq(Items) /\ polled' \in Seq(Items) /\ polled'[Len(polled')] = c
    BY <1>0, <2>1, PollTakes
  <2>3. AccTyped(acc')
    BY <1>0, <2>1, <2>2, AbsorbTyped
  <2>4. Typed'
    BY <1>0, <2>1, <2>2, <2>3 DEF Typed
  <2>5. acc.finish = "Stop" /\ NoneTaken({"Err", "Stop"})
        /\ (consumer # "collect_text" => NoneTaken({"Error"}))
    BY <2>2 DEF ConsumerInv, WhileReading
  <2>6. NoneTaken({"Err"}) /\ NoneTaken({"Stop"})
    BY <2>5 DEF NoneTaken
  <2>7. /\ NoneTaken({"Err"})' /\ FirstTaken("Stop")'
        /\ NoneTaken({"Error"}) => NoneTaken({"Error"})'
    BY <1>0, <2>1, <2>2, <2>6, PollCounts
  <2>8. consumer = "collect_response" =>
          acc'.finish = IF c.reason = None THEN "Stop" ELSE FinishReason(c.reason)
    BY <1>0, <2>1, <2>2, <2>5, AbsorbTyped
  <2> QED
    BY <2>1, <2>2, <2>4, <2>5, <2>7, <2>8, Outcomes
    DEF ConsumerInv, WhileReading, WhenCollected, WhenFailed, AtAnEnd
<1>5. CASE TakeEnd
  <2>1. /\ outcome = Reading /\ queue = <<>> /\ closed /\ outcome' = Collected
        /\ UNCHANGED <<consumer, queue, closed, polled, acc>>
    BY <1>5 DEF TakeEnd
  <2>2. NoneTaken({"Err", "Stop"}) => NoneTaken({"Err"}) /\ NoneTaken({"Stop"})
    BY DEF NoneTaken
  <2>3. UNCHANGED <<NoneTaken({"Err"}), NoneTaken({"Stop"}), NoneTaken({"Error"})>>
    BY <2>1 DEF NoneTaken
  <2>4. Typed'
    BY <1>0, <2>1 DEF Typed
  <2> QED
    BY <2>1, <2>2, <2>3, <2>4, Outcomes
    DEF ConsumerInv, WhileReading, WhenCollected, WhenFailed, AtAnEnd
<1> QED
  BY <1>1, <1>2, <1>3, <1>4, <1>5 DEF Consume

(* The invariant holds over every adapter.                                 *)
THEOREM Invariance == Spec => []ConsumerInv
<1>1. Init => ConsumerInv
  <2> SUFFICES ASSUME Init
               PROVE  ConsumerInv
    OBVIOUS
  <2>1. /\ consumer \in Consumers /\ queue = <<>> /\ closed = FALSE /\ polled = <<>>
        /\ acc = EmptyAcc /\ outcome = Reading
    BY DEF Init, StreamInit
  <2>2. <<>> \in Seq(Items) /\ Len(<<>>) = 0 /\ <<>> \in Seq(Piece)
    OBVIOUS
  <2>3. AccTyped(EmptyAcc)
    <3>1. NoUsage \in [UsageField -> Opt(Nat)]
      BY DEF NoUsage, Opt
    <3>2. DOMAIN <<>> = {}
      OBVIOUS
    <3>3. "Stop" # None
      BY ItemAssumption
    <3> QED
      BY <2>2, <3>1, <3>2, <3>3 DEF EmptyAcc, AccTyped, Opt
  <2>4. EmptyAcc.finish = "Stop"
    BY DEF EmptyAcc
  <2>5. \A S : NoneTaken(S)
    BY <2>1, <2>2 DEF NoneTaken
  <2>6. Typed
    BY <2>1, <2>2, <2>3 DEF Typed
  <2> QED
    BY <2>1, <2>4, <2>5, <2>6, Outcomes DEF ConsumerInv, WhileReading, WhenCollected, WhenFailed
<1>2. ConsumerInv /\ [Next]_streamVars => ConsumerInv'
  <2> SUFFICES ASSUME ConsumerInv, [Next]_streamVars
               PROVE  ConsumerInv'
    OBVIOUS
  <2>1. CASE Consume
    BY <2>1, ArmsKeep
  <2>2. ASSUME NEW item \in Items, Yield(item)
        PROVE  ConsumerInv'
    <3>1. /\ ~ closed /\ queue' = Append(queue, item)
          /\ UNCHANGED <<consumer, closed, polled, acc, outcome>>
      BY <2>2 DEF Yield
    <3>2. queue' \in Seq(Items)
      BY <3>1 DEF ConsumerInv, Typed
    <3> QED
      BY <3>1, <3>2
      DEF ConsumerInv, Typed, WhileReading, WhenCollected, WhenFailed, AtAnEnd, NoneTaken,
          FirstTaken, LastTaken
  <2>3. CASE Close
    <3>1. ~ closed /\ closed' = TRUE /\ UNCHANGED <<consumer, queue, polled, acc, outcome>>
      BY <2>3 DEF Close
    <3> QED
      BY <3>1
      DEF ConsumerInv, Typed, WhileReading, WhenCollected, WhenFailed, AtAnEnd, NoneTaken,
          FirstTaken, LastTaken
  <2>4. CASE UNCHANGED streamVars
    BY <2>4
    DEF streamVars, ConsumerInv, Typed, WhileReading, WhenCollected, WhenFailed, AtAnEnd, NoneTaken,
        FirstTaken, LastTaken
  <2> QED
    BY <2>1, <2>2, <2>3, <2>4 DEF Next
<1> QED
  BY <1>1, <1>2, PTL DEF Spec

-----------------------------------------------------------------------------

(* Every call that is collected has an id, a name and all its arguments,   *)
(* every count is absent or a number, and the reason is never absent.      *)
THEOREM TypeCorrect == Spec => []StreamTypeOK
<1>1. ConsumerInv => StreamTypeOK
  BY DEF ConsumerInv, Typed, AccTyped, CallType, StreamTypeOK
<1> QED
  BY <1>1, Invariance, PTL

(* An error among the items always comes out as one, and an answer only    *)
(* where the stream gave leave to.                                         *)
THEOREM ErrorsComeOut == Spec => []FailureIsReported
<1>1. ConsumerInv => FailureIsReported
  <2> SUFFICES ASSUME ConsumerInv
               PROVE  FailureIsReported
    OBVIOUS
  <2> DEFINE errors(kinds) == {n \in DOMAIN polled : polled[n].kind \in kinds}
  <2>0. polled \in Seq(Items) /\ consumer \in Consumers
        /\ outcome \in {Reading, Collected, Failed(StreamError), Failed(LlmGeneralError)}
    BY DEF ConsumerInv, Typed
  <2>1. DOMAIN polled = 1 .. Len(polled) /\ Len(polled) \in Nat
    BY <2>0
  <2>2. \A kinds : NoneTaken(kinds) => errors(kinds) = {}
    BY <2>1 DEF NoneTaken
  <2>3. NoneTaken({"Err", "Stop"}) => NoneTaken({"Err"})
    BY DEF NoneTaken
  <2>4. FirstTaken("Error") => errors({"Error"}) \subseteq {Len(polled)}
    BY <2>1 DEF FirstTaken
  <2>5. LastTaken("Error") => errors({"Error"}) # {}
    BY <2>1 DEF LastTaken
  <2>6. \A k : LastTaken(k) => polled # <<>> /\ Last(polled).kind = k
    BY <2>0, <2>1 DEF LastTaken, Last
  <2>7. errors({"Err"}) # {} => outcome.tag = "err"
    BY <2>0, <2>2, <2>3, Outcomes DEF ConsumerInv, WhileReading, WhenCollected
  <2>8. (errors({"Error"}) # {} /\ consumer = "collect_response") => outcome.tag = "err"
    BY <2>0, <2>2, Outcomes DEF ConsumerInv, WhileReading, WhenCollected
  <2>9. consumer = "llm-cli" => errors({"Error"}) \subseteq {Len(polled)}
    BY <2>0, <2>2, <2>4, Outcomes DEF ConsumerInv, WhileReading, WhenCollected, WhenFailed
  <2>10. outcome = Collected =>
           \/ closed /\ queue = <<>>
           \/ polled # <<>> /\ Last(polled).kind = "Stop"
           \/ consumer = "llm-cli" /\ errors({"Error"}) # {}
    BY <2>5, <2>6 DEF ConsumerInv, WhenCollected, AtAnEnd, FirstTaken
  <2> QED
    BY <2>7, <2>8, <2>9, <2>10 DEF FailureIsReported
<1> QED
  BY <1>1, Invariance, PTL

(* Whatever an adapter yields behind its first Stop, another Stop too, the *)
(* reason of the answer is the first one's.                                *)
THEOREM FirstStopDecides == Spec => []FirstStopWins
<1>1. ConsumerInv => FirstStopWins
  <2> SUFFICES ASSUME ConsumerInv, consumer = "collect_response", outcome = Collected
               PROVE  FirstStopWins
    BY DEF FirstStopWins
  <2> DEFINE items == polled \o queue
             stops == {n \in DOMAIN items : items[n].kind = "Stop"}
             first == CHOOSE n \in stops : \A m \in stops : n <= m
  <2>0. polled \in Seq(Items) /\ queue \in Seq(Items) /\ AtAnEnd
    BY DEF ConsumerInv, Typed, WhenCollected
  <2>1. /\ Len(polled) \in Nat /\ Len(queue) \in Nat /\ Len(items) = Len(polled) + Len(queue)
        /\ DOMAIN items = 1 .. Len(items)
        /\ \A n \in 1 .. Len(polled) : items[n] = polled[n]
    BY <2>0
  <2>2. CASE closed /\ queue = <<>> /\ NoneTaken({"Stop"}) /\ acc.finish = "Stop"
    <3>1. Len(items) = Len(polled)
      BY <2>1, <2>2
    <3>2. stops = {}
      BY <2>1, <2>2, <3>1 DEF NoneTaken
    <3> QED
      BY <2>2, <3>2 DEF FirstStopWins
  <2>3. CASE /\ FirstTaken("Stop")
             /\ acc.finish = IF polled[Len(polled)].reason = None
                               THEN "Stop" ELSE FinishReason(polled[Len(polled)].reason)
    <3> DEFINE len == Len(polled)
    <3>1. len \in stops /\ stops # {}
      BY <2>1, <2>3 DEF FirstTaken, LastTaken
    <3>2. \A n \in stops : n \in Nat /\ len <= n
      BY <2>1, <2>3 DEF FirstTaken
    <3>3. items[len] = polled[len]
      BY <2>1, <2>3 DEF FirstTaken, LastTaken
    <3> HIDE DEF stops, len
    <3>4. first = len
      BY <3>1, <3>2
    <3>5. items[first] = polled[len]
      BY <3>4, <3>3
    <3> QED
      BY <2>3, <3>1, <3>5 DEF FirstStopWins, len, stops
  <2> QED
    BY <2>0, <2>2, <2>3 DEF AtAnEnd
<1> QED
  BY <1>1, Invariance, PTL

-----------------------------------------------------------------------------
(* What one item more does to the answer defined over all the items. *)

(* The greatest of a set of positions is one of them.                      *)
LEMMA GreatestIn ==
  ASSUME NEW len \in Nat, NEW S \in SUBSET (1 .. len), S # {}
  PROVE  Greatest(S) \in S /\ \A m \in S : m <= Greatest(S)
BY GreatestExists DEF Greatest

(* The greatest position is the new one, if there is one.                  *)
LEMMA GreatestOf ==
  ASSUME NEW len \in Nat, NEW S \in SUBSET (1 .. len)
  PROVE  Greatest(S \cup {len + 1}) = len + 1
<1> DEFINE new == S \cup {len + 1}
<1>1. len + 1 \in new /\ \A m \in new : m \in Nat /\ m <= len + 1
  OBVIOUS
<1> HIDE DEF new
<1>2. \A n \in new : (\A m \in new : m <= n) => n = len + 1
  BY <1>1
<1>3. Greatest(new) \in new /\ \A m \in new : m <= Greatest(new)
  BY <1>1 DEF Greatest
<1> QED
  BY <1>2, <1>3 DEF new

(* An item more.                                                           *)
More(items, c, more) ==
  /\ items \in Seq(Item) /\ c \in Item /\ more \in Seq(Item)
  /\ Len(items) \in Nat /\ Len(more) = Len(items) + 1
  /\ DOMAIN items = 1 .. Len(items) /\ DOMAIN more = 1 .. Len(items) + 1
  /\ more[Len(items) + 1] = c
  /\ \A n \in 1 .. Len(items) : more[n] = items[n]

(* Lists, one for each item, put together.                                 *)
LEMMA FlattenMore ==
  ASSUME NEW T, NEW len \in Nat, NEW s \in [1 .. len -> Seq(T)], NEW t \in [1 .. len + 1 -> Seq(T)],
         \A n \in 1 .. len : t[n] = s[n]
  PROVE  FlattenSeq(t) = FlattenSeq(s) \o t[len + 1] /\ FlattenSeq(s) \in Seq(T)
<1>1. s \in Seq(Seq(T)) /\ Len(s) = len
  OBVIOUS
<1>2. t \in Seq(Seq(T)) /\ Len(t) = len + 1
  OBVIOUS
<1> QED
  BY <1>1, <1>2, FlattenOneMore, FlattenType

(* One item more adds its text to the text of its kind.                    *)
LEMMA TextOfMore ==
  ASSUME NEW items, NEW c, NEW more, More(items, c, more), NEW kind \in {"Text", "Thought"}
  PROVE  /\ TextOf(kind, items) \in Seq(Piece)
         /\ c.kind = kind => TextOf(kind, more) = TextOf(kind, items) \o c.text
         /\ c.kind # kind => TextOf(kind, more) = TextOf(kind, items)
<1> DEFINE text(x) == IF x.kind = kind THEN x.text ELSE <<>>
           s == [n \in DOMAIN items |-> text(items[n])]
           t == [n \in DOMAIN more |-> text(more[n])]
           len == Len(items)
<1>1. \A x \in Item : text(x) \in Seq(Piece)
  <2>1. <<>> \in Seq(Piece)
    OBVIOUS
  <2>2. \A x \in Item : x.kind \in {"Text", "Thought"} => x.text \in Seq(Piece)
    BY DEF Item
  <2> QED
    BY <2>1, <2>2
<1>2. TextOf(kind, items) = FlattenSeq(s) /\ TextOf(kind, more) = FlattenSeq(t)
  BY DEF TextOf
<1>x. (c.kind = kind => text(c) = c.text) /\ (c.kind # kind => text(c) = <<>>)
  OBVIOUS
<1> HIDE DEF text
<1>3. /\ len \in Nat /\ s \in [1 .. len -> Seq(Piece)] /\ t \in [1 .. len + 1 -> Seq(Piece)]
      /\ \A n \in 1 .. len : t[n] = s[n]
      /\ t[len + 1] = text(c)
  BY <1>1 DEF More
<1> HIDE DEF s, t, len
<1>4. FlattenSeq(t) = FlattenSeq(s) \o text(c) /\ FlattenSeq(s) \in Seq(Piece)
  BY <1>3, FlattenMore
<1>5. FlattenSeq(s) \o <<>> = FlattenSeq(s)
  BY <1>4
<1> QED
  BY <1>2, <1>4, <1>5, <1>x

(* The value that comes last is the new one, if it is one.                 *)
LEMMA LastOfMore ==
  ASSUME NEW len \in Nat, NEW S \in SUBSET (1 .. len), NEW g, DOMAIN g = S \cup {len + 1}
  PROVE  LastOf(g) = g[len + 1]
<1>1. Greatest(DOMAIN g) = len + 1
  BY GreatestOf
<1> QED
  BY <1>1 DEF LastOf

(* It takes the signature's place if it is one.                            *)
LEMMA SignatureOfMore ==
  ASSUME NEW items, NEW c, NEW more, More(items, c, more)
  PROVE  SignatureOf(more) = IF c.kind = "ThinkingSignature" THEN c.signature ELSE SignatureOf(items)
<1> DEFINE Of(l) == {m \in DOMAIN l : l[m].kind = "ThinkingSignature"}
           f(l) == [n \in Of(l) |-> l[n].signature]
           len == Len(items)
<1>1. SignatureOf(items) = LastOf(f(items)) /\ SignatureOf(more) = LastOf(f(more))
  BY DEF SignatureOf
<1>2. len \in Nat /\ Of(items) \subseteq 1 .. len
  BY DEF More
<1>3. CASE c.kind = "ThinkingSignature"
  <2>1. Of(more) = Of(items) \cup {len + 1}
    BY <1>3 DEF More
  <2>2. DOMAIN f(more) = Of(items) \cup {len + 1} /\ f(more)[len + 1] = c.signature
    BY <2>1 DEF More
  <2> HIDE DEF f, Of
  <2> QED
    BY <1>1, <1>2, <1>3, <2>2, LastOfMore
<1>4. CASE c.kind # "ThinkingSignature"
  <2>1. Of(more) = Of(items)
    BY <1>4 DEF More
  <2>2. f(more) = f(items)
    BY <2>1 DEF More
  <2> QED
    BY <1>1, <1>4, <2>2
<1> QED
  BY <1>3, <1>4

(* It is merged into the usage if it is one.                               *)
LEMMA UsageOfMore ==
  ASSUME NEW items, NEW c, NEW more, More(items, c, more)
  PROVE  UsageOf(more) = IF c.kind = "Usage" THEN MergeUsage(UsageOf(items), c.usage) ELSE UsageOf(items)
<1> DEFINE Of(l, k) == {m \in DOMAIN l : l[m].kind = "Usage" /\ l[m].usage[k] # None}
           f(l, k) == [n \in Of(l, k) |-> l[n].usage[k]]
           len == Len(items)
<1>1. ASSUME NEW k \in UsageField
      PROVE  LastOf(f(more, k)) = IF c.kind = "Usage" /\ c.usage[k] # None
                                    THEN c.usage[k] ELSE LastOf(f(items, k))
  <2>2. len \in Nat /\ Of(items, k) \subseteq 1 .. len
    BY DEF More
  <2>3. CASE c.kind = "Usage" /\ c.usage[k] # None
    <3>1. Of(more, k) = Of(items, k) \cup {len + 1}
      BY <2>3 DEF More
    <3>2. DOMAIN f(more, k) = Of(items, k) \cup {len + 1} /\ f(more, k)[len + 1] = c.usage[k]
      BY <3>1 DEF More
    <3> HIDE DEF f, Of
    <3> QED
      BY <2>2, <2>3, <3>2, LastOfMore
  <2>4. CASE ~ (c.kind = "Usage" /\ c.usage[k] # None)
    <3>1. Of(more, k) = Of(items, k)
      BY <2>4 DEF More
    <3>2. f(more, k) = f(items, k)
      BY <3>1 DEF More
    <3> QED
      BY <2>4, <3>2
  <2> QED
    BY <2>3, <2>4
<1>2. /\ UsageOf(items) = [k \in UsageField |-> LastOf(f(items, k))]
      /\ UsageOf(more) = [k \in UsageField |-> LastOf(f(more, k))]
  BY DEF UsageOf
<1> HIDE DEF f
<1>3. CASE c.kind = "Usage"
  BY <1>1, <1>2, <1>3 DEF MergeUsage
<1>4. CASE c.kind # "Usage"
  BY <1>1, <1>2, <1>4
<1> QED
  BY <1>3, <1>4

(* The starts and the fragments of a call.                                 *)
IsStart(c, i) == c.kind = "ToolCall" /\ c.index = i /\ c.id # None /\ c.name # None

(* It is a start of the call or it is not.                                 *)
LEMMA StartsMore ==
  ASSUME NEW items, NEW c, NEW more, More(items, c, more), NEW i
  PROVE  /\ Starts(items, i) \subseteq 1 .. Len(items)
         /\ IsStart(c, i) => Starts(more, i) = Starts(items, i) \cup {Len(items) + 1}
         /\ ~ IsStart(c, i) => Starts(more, i) = Starts(items, i)
BY DEF More, Starts, IsStart

(* What an item gives to a call's arguments is a list of pieces.           *)
LEMMA FragmentType ==
  ASSUME NEW c \in Item, NEW i
  PROVE  Fragment(c, i) \in Seq(Piece)
<1>1. <<>> \in Seq(Piece)
  OBVIOUS
<1>2. c.kind = "ToolCall" => c.args \in Opt(Seq(Piece))
  BY DEF Item
<1> QED
  BY <1>1, <1>2 DEF Fragment, Opt

(* It adds its fragment to the arguments.                                  *)
LEMMA ArgsFromMore ==
  ASSUME NEW items, NEW c, NEW more, More(items, c, more), NEW i, NEW first \in 1 .. Len(items) + 1
  PROVE  /\ ArgsFrom(items, i, first) \in Seq(Piece)
         /\ ArgsFrom(more, i, first) = ArgsFrom(items, i, first) \o Fragment(c, i)
         /\ first = Len(items) + 1 => ArgsFrom(items, i, first) = <<>>
<1> DEFINE args(n, x) == IF n >= first THEN Fragment(x, i) ELSE <<>>
           s == [n \in DOMAIN items |-> args(n, items[n])]
           t == [n \in DOMAIN more |-> args(n, more[n])]
           len == Len(items)
<1>1. \A n, x : x \in Item => args(n, x) \in Seq(Piece)
  <2>1. <<>> \in Seq(Piece)
    OBVIOUS
  <2> QED
    BY <2>1, FragmentType
<1>2. ArgsFrom(items, i, first) = FlattenSeq(s) /\ ArgsFrom(more, i, first) = FlattenSeq(t)
  BY DEF ArgsFrom
<1>3. args(len + 1, c) = Fragment(c, i) /\ (first = len + 1 => \A n \in 1 .. len : \A x : args(n, x) = <<>>)
  BY DEF More
<1> HIDE DEF args
<1>4. /\ len \in Nat /\ s \in [1 .. len -> Seq(Piece)] /\ t \in [1 .. len + 1 -> Seq(Piece)]
      /\ \A n \in 1 .. len : t[n] = s[n]
      /\ t[len + 1] = Fragment(c, i)
  BY <1>1, <1>3 DEF More
<1>e. first = len + 1 => \A n \in 1 .. len : s[n] = <<>>
  BY <1>3 DEF More
<1> HIDE DEF s, t, len
<1>5. FlattenSeq(t) = FlattenSeq(s) \o Fragment(c, i) /\ FlattenSeq(s) \in Seq(Piece)
  <2>1. FlattenSeq(t) = FlattenSeq(s) \o t[len + 1] /\ FlattenSeq(s) \in Seq(Piece)
    BY <1>4, FlattenMore
  <2> QED
    BY <1>4, <2>1
<1>6. ASSUME first = len + 1
      PROVE  FlattenSeq(s) = <<>>
  <2>1. s \in Seq(Seq(Piece)) /\ Len(s) = len /\ 0 \in 0 .. Len(s) /\ SubSeq(s, 1, 0) = <<>>
    BY <1>4
  <2>2. \A n \in 0 + 1 .. Len(s) : s[n] = <<>>
    BY <1>4, <1>e, <1>6, <2>1
  <2>3. FlattenSeq(s) = FlattenSeq(SubSeq(s, 1, 0))
    BY <2>1, <2>2, FlattenEmptyEnd
  <2> QED
    BY <2>1, <2>3, FlattenEmpty
<1> QED
  BY <1>2, <1>5, <1>6 DEF len

(* The call at an index: begun anew, or with a fragment more, or as it was.*)
BegunAnew(i, c, new) ==
  i \in DOMAIN new /\ new[i] = [id |-> c.id, name |-> c.name, args |-> Fragment(c, i)]
GoneOn(i, c, old, new) ==
  /\ i \in DOMAIN new <=> i \in DOMAIN old
  /\ i \in DOMAIN old =>
       /\ new[i] = [id |-> old[i].id, name |-> old[i].name, args |-> old[i].args \o Fragment(c, i)]
       /\ old[i] = [id |-> old[i].id, name |-> old[i].name, args |-> old[i].args]
       /\ old[i].args \in Seq(Piece)

(* So it begins the call anew, or the call goes on.                        *)
LEMMA CallOfMore ==
  ASSUME NEW items, NEW c, NEW more, More(items, c, more), NEW i \in Index
  PROVE  /\ IsStart(c, i) => BegunAnew(i, c, CallsOf(more))
         /\ ~ IsStart(c, i) => GoneOn(i, c, CallsOf(items), CallsOf(more))
<1> DEFINE call(l) == LET first == Greatest(Starts(l, i))
                      IN  [id |-> l[first].id, name |-> l[first].name, args |-> ArgsFrom(l, i, first)]
           len == Len(items)
<1>1. \A l : /\ i \in DOMAIN CallsOf(l) <=> Starts(l, i) # {}
             /\ i \in DOMAIN CallsOf(l) => CallsOf(l)[i] = call(l)
  BY DEF CallsOf
<1>2. len \in Nat /\ Starts(items, i) \subseteq 1 .. len /\ more[len + 1] = c
      /\ \A n \in 1 .. len : more[n] = items[n]
  BY StartsMore DEF More
<1>3. CASE IsStart(c, i)
  <2>1. Starts(more, i) = Starts(items, i) \cup {len + 1}
    BY <1>3, StartsMore
  <2>2. Greatest(Starts(more, i)) = len + 1
    BY <1>2, <2>1, GreatestOf
  <2>0. len + 1 \in 1 .. Len(items) + 1 /\ len + 1 = Len(items) + 1
    BY <1>2
  <2> DEFINE k == len + 1
  <2> HIDE DEF k
  <2>k. k \in 1 .. Len(items) + 1 /\ k = Len(items) + 1
    BY <2>0 DEF k
  <2>a. ArgsFrom(items, i, k) = <<>> /\ ArgsFrom(more, i, k) = ArgsFrom(items, i, k) \o Fragment(c, i)
    BY <2>k, ArgsFromMore
  <2>3. ArgsFrom(more, i, len + 1) = <<>> \o Fragment(c, i)
    BY <2>a DEF k
  <2>4. Fragment(c, i) \in Seq(Piece)
    BY FragmentType DEF More
  <2>5. ArgsFrom(more, i, len + 1) = Fragment(c, i)
    BY <2>3, <2>4
  <2>6. call(more) = [id |-> c.id, name |-> c.name, args |-> Fragment(c, i)]
    BY <1>2, <2>2, <2>5
  <2>7. i \in DOMAIN CallsOf(more)
    BY <1>1, <2>1
  <2> HIDE DEF call
  <2> QED
    BY <1>1, <1>3, <2>6, <2>7 DEF BegunAnew
<1>4. CASE ~ IsStart(c, i)
  <2>1. Starts(more, i) = Starts(items, i)
    BY <1>4, StartsMore
  <2>2. CASE Starts(items, i) = {}
    BY <1>1, <1>4, <2>1, <2>2 DEF GoneOn
  <2>3. CASE Starts(items, i) # {}
    <3> DEFINE first == Greatest(Starts(items, i))
               args == ArgsFrom(items, i, first)
    <3>1. first \in Starts(items, i)
      BY <1>2, <2>3, GreatestIn
    <3> HIDE DEF first
    <3>2. first \in 1 .. len /\ more[first] = items[first]
      BY <1>2, <3>1
    <3>3. ArgsFrom(more, i, first) = args \o Fragment(c, i) /\ args \in Seq(Piece)
      BY <1>2, <3>2, ArgsFromMore
    <3> HIDE DEF args
    <3>4. call(items) = [id |-> items[first].id, name |-> items[first].name, args |-> args]
      BY DEF first, args
    <3>5. call(more) = [id |-> items[first].id, name |-> items[first].name, args |-> args \o Fragment(c, i)]
      BY <2>1, <3>2, <3>3 DEF first
    <3>6. i \in DOMAIN CallsOf(items) /\ i \in DOMAIN CallsOf(more)
      BY <1>1, <2>1, <2>3
    <3> HIDE DEF call
    <3>7. CallsOf(items)[i] = call(items) /\ CallsOf(more)[i] = call(more)
      BY <1>1, <3>6
    <3> QED
      BY <1>4, <3>3, <3>4, <3>5, <3>6, <3>7 DEF GoneOn
  <2> QED
    BY <2>2, <2>3
<1> QED
  BY <1>3, <1>4

(* A call with more arguments is the same call otherwise.                  *)
LEMMA Lengthened ==
  ASSUME NEW call, NEW args, call = [id |-> call.id, name |-> call.name, args |-> call.args]
  PROVE  [call EXCEPT !.args = @ \o args] = [id |-> call.id, name |-> call.name, args |-> call.args \o args]
<1> DEFINE id == call.id
           name == call.name
           old == call.args
           new == old \o args
<1>1. call = [id |-> id, name |-> name, args |-> old]
  OBVIOUS
<1> HIDE DEF id, name, old, new
<1>2. [call EXCEPT !.args = new] = [id |-> id, name |-> name, args |-> new]
  BY <1>1
<1> QED
  BY <1>2 DEF id, name, old, new

(* What apply_tool_call_delta makes of the calls is what the items say with *)
(* the delta behind them.                                                  *)
LEMMA CallsOfMore ==
  ASSUME NEW items, NEW c, NEW more, More(items, c, more)
  PROVE  CallsOf(more) = IF c.kind = "ToolCall" THEN ApplyToolCallDelta(CallsOf(items), c)
                                                ELSE CallsOf(items)
<1> DEFINE old == CallsOf(items)
           new == CallsOf(more)
<1>1. /\ DOMAIN old \subseteq Index /\ old = [i \in DOMAIN old |-> old[i]]
      /\ DOMAIN new \subseteq Index /\ new = [i \in DOMAIN new |-> new[i]]
  BY DEF CallsOf
<1> HIDE DEF old, new
<1>2. ASSUME NEW i \in Index, IsStart(c, i)
      PROVE  i \in DOMAIN new /\ new[i] = [id |-> c.id, name |-> c.name, args |-> Fragment(c, i)]
  <2>1. BegunAnew(i, c, new)
    BY <1>2, CallOfMore DEF new
  <2> QED
    BY <2>1 DEF BegunAnew
<1>3. ASSUME NEW i \in Index, ~ IsStart(c, i)
      PROVE  /\ i \in DOMAIN new <=> i \in DOMAIN old
             /\ i \in DOMAIN old =>
                  /\ new[i] = [id |-> old[i].id, name |-> old[i].name,
                               args |-> old[i].args \o Fragment(c, i)]
                  /\ old[i] = [id |-> old[i].id, name |-> old[i].name, args |-> old[i].args]
                  /\ old[i].args \in Seq(Piece)
  <2>1. GoneOn(i, c, old, new)
    BY <1>3, CallOfMore DEF old, new
  <2> QED
    BY <2>1 DEF GoneOn
<1>4. ASSUME NEW i \in Index, ~ IsStart(c, i), Fragment(c, i) = <<>>, i \in DOMAIN old
      PROVE  new[i] = old[i]
  <2>1. old[i].args \o <<>> = old[i].args
    BY <1>3, <1>4
  <2> QED
    BY <1>3, <1>4, <2>1
<1>5. CASE c.kind # "ToolCall"
  <2>1. \A i \in Index : ~ IsStart(c, i) /\ Fragment(c, i) = <<>>
    BY <1>5 DEF IsStart, Fragment
  <2>2. DOMAIN new = DOMAIN old /\ \A i \in DOMAIN old : new[i] = old[i]
    BY <1>1, <1>3, <1>4, <2>1
  <2>3. new = old
    BY <1>1, <2>2
  <2> QED
    BY <1>5, <2>3 DEF old, new
<1>6. CASE c.kind = "ToolCall"
  <2>0. c.index \in Index
    BY <1>6 DEF More, Item
  <2> DEFINE applied == ApplyToolCallDelta(old, c)
  <2>o. \A i \in Index : i # c.index => ~ IsStart(c, i) /\ Fragment(c, i) = <<>>
    BY DEF IsStart, Fragment
  <2>1. CASE c.id # None /\ c.name # None
    <3> DEFINE start == [id |-> c.id, name |-> c.name, args |-> IF c.args = None THEN <<>> ELSE c.args]
    <3>1. applied = [i \in DOMAIN old \cup {c.index} |-> IF i = c.index THEN start ELSE old[i]]
      BY <2>1 DEF ApplyToolCallDelta
    <3>2. IsStart(c, c.index) /\ Fragment(c, c.index) = IF c.args = None THEN <<>> ELSE c.args
      BY <1>6, <2>1 DEF IsStart, Fragment
    <3>3. c.index \in DOMAIN new /\ new[c.index] = start
      BY <1>2, <2>0, <3>2
    <3> HIDE DEF start, applied
    <3>4. \A i \in Index : i # c.index => /\ i \in DOMAIN new <=> i \in DOMAIN old
                                          /\ i \in DOMAIN old => new[i] = old[i]
      BY <1>3, <1>4, <2>o
    <3>5. DOMAIN new = DOMAIN old \cup {c.index}
      BY <1>1, <2>0, <3>3, <3>4
    <3>6. \A i \in DOMAIN new : new[i] = applied[i]
      BY <1>1, <3>1, <3>3, <3>4, <3>5
    <3>7. new = applied
      BY <1>1, <3>1, <3>5, <3>6
    <3> QED
      BY <1>6, <3>7 DEF applied, old, new
  <2>2. CASE ~ (c.id # None /\ c.name # None) /\ c.args # None /\ c.index \in DOMAIN old
    <3> DEFINE call == old[c.index]
               next == [call EXCEPT !.args = @ \o c.args]
    <3>1. applied = [old EXCEPT ![c.index] = next]
      BY <2>2 DEF ApplyToolCallDelta
    <3>2. Fragment(c, c.index) = c.args
      BY <1>6, <2>2 DEF Fragment
    <3>3. \A i \in Index : ~ IsStart(c, i)
      BY <2>2 DEF IsStart
    <3>4. /\ new[c.index] = [id |-> call.id, name |-> call.name, args |-> call.args \o c.args]
          /\ call = [id |-> call.id, name |-> call.name, args |-> call.args]
      BY <1>3, <2>0, <2>2, <3>2, <3>3
    <3> HIDE DEF call
    <3>5. next = [id |-> call.id, name |-> call.name, args |-> call.args \o c.args]
      BY <3>4, Lengthened
    <3>6. new[c.index] = next
      BY <3>4, <3>5
    <3> HIDE DEF applied, next
    <3>7. DOMAIN new = DOMAIN old
      BY <1>1, <1>3, <3>3
    <3>8. \A i \in DOMAIN old : i # c.index => new[i] = old[i]
      BY <1>1, <1>4, <2>o
    <3>9. applied = [i \in DOMAIN old |-> IF i = c.index THEN next ELSE old[i]]
      BY <1>1, <3>1
    <3>10. new = applied
      BY <1>1, <3>6, <3>7, <3>8, <3>9
    <3> QED
      BY <1>6, <3>10 DEF applied, old, new
  <2>3. CASE ~ (c.id # None /\ c.name # None) /\ ~ (c.args # None /\ c.index \in DOMAIN old)
    <3>1. applied = old
      BY <2>3 DEF ApplyToolCallDelta
    <3>2. \A i \in Index : ~ IsStart(c, i)
      BY <2>3 DEF IsStart
    <3>3. \A i \in DOMAIN old : Fragment(c, i) = <<>>
      BY <2>3 DEF Fragment
    <3>4. DOMAIN new = DOMAIN old
      BY <1>1, <1>3, <3>2
    <3>5. \A i \in DOMAIN old : new[i] = old[i]
      BY <1>1, <1>4, <3>2, <3>3
    <3>6. new = old
      BY <1>1, <3>4, <3>5
    <3> QED
      BY <1>6, <3>1, <3>6 DEF applied, old, new
  <2> QED
    BY <2>1, <2>2, <2>3
<1> QED
  BY <1>5, <1>6

-----------------------------------------------------------------------------

(* What a consumer knows is what the items it took say.                    *)
Sum(a, items) ==
  /\ a.content = TextOf("Text", items)
  /\ consumer = "collect_response" =>
       /\ a.reasoning = TextOf("Thought", items)
       /\ a.signature = SignatureOf(items)
       /\ a.usage = UsageOf(items)
       /\ a.calls = CallsOf(items)

(* A poll takes an item more.                                              *)
LEMMA PollMore ==
  ASSUME Typed, NEW kinds, Polls(kinds)
  PROVE  /\ More(polled, Head(queue), polled') /\ Head(queue).kind \in kinds
         /\ AccTyped(acc) /\ consumer' = consumer
<1>1. /\ polled' \in Seq(Items) /\ Head(queue) \in Item /\ Head(queue).kind \in kinds
      /\ Len(polled) \in Nat /\ Len(polled') = Len(polled) + 1
      /\ polled'[Len(polled')] = Head(queue)
      /\ \A n \in 1 .. Len(polled) : polled'[n] = polled[n]
      /\ consumer' = consumer
  BY PollTakes
<1>2. polled \in Seq(Items) /\ AccTyped(acc)
  BY DEF Typed
<1>3. \A l \in Seq(Items) : l \in Seq(Item) /\ DOMAIN l = 1 .. Len(l)
  BY ItemAssumption
<1> HIDE DEF Typed
<1> QED
  BY <1>1, <1>2, <1>3 DEF More

(* One arm: absorbing an item adds what it says.                           *)
LEMMA AbsorbSum ==
  ASSUME NEW a, NEW items, NEW c, NEW more, More(items, c, more), AccTyped(a),
         consumer = "collect_response", Sum(a, items)
  PROVE  Sum(Absorb(a, c), more)
<1>0. c.kind \in {"Text", "Thought", "ThinkingSignature", "ToolCall", "Usage", "Error", "Stop", "Err"}
  BY DEF More, Item
<1> DEFINE b == Absorb(a, c)
<1>1. /\ c.kind = "Text" => TextOf("Text", more) = TextOf("Text", items) \o c.text
      /\ c.kind # "Text" => TextOf("Text", more) = TextOf("Text", items)
  BY TextOfMore
<1>2. /\ c.kind = "Thought" => TextOf("Thought", more) = TextOf("Thought", items) \o c.text
      /\ c.kind # "Thought" => TextOf("Thought", more) = TextOf("Thought", items)
  BY TextOfMore
<1>3. SignatureOf(more) = IF c.kind = "ThinkingSignature" THEN c.signature ELSE SignatureOf(items)
  BY SignatureOfMore
<1>4. UsageOf(more) = IF c.kind = "Usage" THEN MergeUsage(UsageOf(items), c.usage) ELSE UsageOf(items)
  BY UsageOfMore
<1>5. CallsOf(more) = IF c.kind = "ToolCall" THEN ApplyToolCallDelta(CallsOf(items), c)
                                             ELSE CallsOf(items)
  BY CallsOfMore
<1>6. /\ a.content = TextOf("Text", items) /\ a.reasoning = TextOf("Thought", items)
      /\ a.signature = SignatureOf(items) /\ a.usage = UsageOf(items) /\ a.calls = CallsOf(items)
  BY DEF Sum
<1>7. /\ b.content = IF c.kind = "Text" THEN a.content \o c.text ELSE a.content
      /\ b.reasoning = IF c.kind = "Thought" THEN a.reasoning \o c.text ELSE a.reasoning
      /\ b.signature = IF c.kind = "ThinkingSignature" THEN c.signature ELSE a.signature
      /\ b.usage = IF c.kind = "Usage" THEN MergeUsage(a.usage, c.usage) ELSE a.usage
      /\ b.calls = IF c.kind = "ToolCall" THEN ApplyToolCallDelta(a.calls, c) ELSE a.calls
  <2>1. CASE c.kind = "Text"
    BY <2>1 DEF Absorb, AccTyped
  <2>2. CASE c.kind = "Thought"
    BY <2>2 DEF Absorb, AccTyped
  <2>3. CASE c.kind = "ThinkingSignature"
    BY <2>3 DEF Absorb, AccTyped
  <2>4. CASE c.kind = "ToolCall"
    BY <2>4 DEF Absorb, AccTyped
  <2>5. CASE c.kind = "Usage"
    BY <2>5 DEF Absorb, AccTyped
  <2>6. CASE c.kind = "Stop"
    <3>1. b = [a EXCEPT !.finish = IF c.reason = None THEN a.finish ELSE FinishReason(c.reason)]
      BY <2>6 DEF Absorb
    <3> QED
      BY <2>6, <3>1 DEF AccTyped
  <2>7. CASE c.kind \in {"Error", "Err"}
    BY <2>7 DEF Absorb
  <2> QED
    BY <1>0, <2>1, <2>2, <2>3, <2>4, <2>5, <2>6, <2>7
<1> HIDE DEF b
<1>8. b.content = TextOf("Text", more) /\ b.reasoning = TextOf("Thought", more)
  BY <1>1, <1>2, <1>6, <1>7
<1>9. b.signature = SignatureOf(more) /\ b.usage = UsageOf(more) /\ b.calls = CallsOf(more)
  BY <1>3, <1>4, <1>5, <1>6, <1>7
<1> QED
  BY <1>8, <1>9 DEF Sum, b

(* What a consumer does not absorb adds nothing to what it keeps.          *)
LEMMA PassSum ==
  ASSUME NEW a, NEW items, NEW c, NEW more, More(items, c, more), Sum(a, items),
         \/ c.kind \in {"Error", "Err"}
         \/ consumer # "collect_response" /\ c.kind # "Text"
  PROVE  Sum(a, more)
<1>1. c.kind # "Text" => TextOf("Text", more) = TextOf("Text", items)
  BY TextOfMore
<1>2. c.kind # "Thought" => TextOf("Thought", more) = TextOf("Thought", items)
  BY TextOfMore
<1>3. /\ c.kind # "ThinkingSignature" => SignatureOf(more) = SignatureOf(items)
      /\ c.kind # "Usage" => UsageOf(more) = UsageOf(items)
      /\ c.kind # "ToolCall" => CallsOf(more) = CallsOf(items)
  BY SignatureOfMore, UsageOfMore, CallsOfMore
<1>4. CASE c.kind \in {"Error", "Err"}
  BY <1>1, <1>2, <1>3, <1>4 DEF Sum
<1>5. CASE consumer # "collect_response" /\ c.kind # "Text"
  BY <1>1, <1>5 DEF Sum
<1> QED
  BY <1>4, <1>5

(* The other consumers keep the text.                                      *)
LEMMA TextSum ==
  ASSUME NEW a, NEW items, NEW c, NEW more, More(items, c, more), AccTyped(a),
         consumer # "collect_response", c.kind = "Text", Sum(a, items)
  PROVE  Sum(Absorb(a, c), more)
<1>1. TextOf("Text", more) = TextOf("Text", items) \o c.text
  BY TextOfMore
<1>2. Absorb(a, c).content = a.content \o c.text
  BY DEF Absorb, AccTyped
<1> QED
  BY <1>1, <1>2 DEF Sum

(* At every moment, what a consumer has is what the items say that it took,*)
(* whatever an adapter yields: no text is lost or comes twice, a call has  *)
(* all the fragments behind its last start, a count is the last reported.  *)
THEOREM AnswerIsSum == Spec => []AnswerIsSumOfItems
<1> DEFINE Inv == Sum(acc, polled)
<1>1. Init => Inv
  <2> SUFFICES ASSUME Init
               PROVE  Inv
    OBVIOUS
  <2>1. polled = <<>> /\ acc = EmptyAcc
    BY DEF Init, StreamInit
  <2>2. DOMAIN polled = {}
    BY <2>1
  <2>3. \A kind : TextOf(kind, polled) = <<>>
    <3> SUFFICES ASSUME NEW kind
                 PROVE  TextOf(kind, polled) = <<>>
      OBVIOUS
    <3> DEFINE s == [n \in DOMAIN polled |-> IF polled[n].kind = kind THEN polled[n].text ELSE <<>>]
    <3>1. s = <<>>
      BY <2>2
    <3> QED
      BY <3>1, FlattenEmpty DEF TextOf
  <2>4. SignatureOf(polled) = None
    BY <2>2 DEF SignatureOf, LastOf
  <2>5. UsageOf(polled) = NoUsage
    BY <2>2 DEF UsageOf, LastOf, NoUsage
  <2>6. CallsOf(polled) = << >>
    <3>1. \A i : Starts(polled, i) = {}
      BY <2>2 DEF Starts
    <3>2. DOMAIN CallsOf(polled) = {}
      BY <3>1 DEF CallsOf
    <3>3. CallsOf(polled) = [i \in {} |-> i]
      BY <3>1 DEF CallsOf
    <3>4. << >> = [i \in {} |-> i]
      OBVIOUS
    <3> QED
      BY <3>3, <3>4
  <2> QED
    BY <2>1, <2>3, <2>4, <2>5, <2>6 DEF Sum, EmptyAcc
<1>2. ConsumerInv /\ Inv /\ [Next]_streamVars => Inv'
  <2> SUFFICES ASSUME Typed, Inv, [Next]_streamVars
               PROVE  Inv'
    BY DEF ConsumerInv
  <2>1. ASSUME UNCHANGED <<consumer, polled, acc>>
        PROVE  Inv'
    BY <2>1 DEF Sum
  <2> DEFINE c == Head(queue)
  <2>2. ASSUME Sum(acc', polled'), consumer' = consumer
        PROVE  Inv'
    BY <2>2 DEF Sum
  <2>3. CASE TakeErr
    <3>1. Polls({"Err"}) /\ acc' = acc
      BY <2>3 DEF TakeErr
    <3>2. More(polled, c, polled') /\ c.kind \in {"Err"} /\ consumer' = consumer
      BY <3>1, PollMore
    <3> QED
      BY <2>2, <3>1, <3>2, PassSum
  <2>4. CASE TakeContent
    <3>1. /\ Polls({"Text", "Thought", "ThinkingSignature", "ToolCall", "Usage"})
          /\ acc' = IF consumer = "collect_response" \/ c.kind = "Text" THEN Absorb(acc, c) ELSE acc
      BY <2>4 DEF TakeContent
    <3>2. More(polled, c, polled') /\ AccTyped(acc) /\ consumer' = consumer
      BY <3>1, PollMore
    <3>3. CASE consumer = "collect_response"
      BY <2>2, <3>1, <3>2, <3>3, AbsorbSum
    <3>4. CASE consumer # "collect_response" /\ c.kind = "Text"
      BY <2>2, <3>1, <3>2, <3>4, TextSum
    <3>5. CASE consumer # "collect_response" /\ c.kind # "Text"
      BY <2>2, <3>1, <3>2, <3>5, PassSum
    <3> QED
      BY <3>3, <3>4, <3>5
  <2>5. CASE TakeErrorChunk
    <3>1. Polls({"Error"}) /\ acc' = acc
      BY <2>5 DEF TakeErrorChunk
    <3>2. More(polled, c, polled') /\ c.kind \in {"Error"} /\ consumer' = consumer
      BY <3>1, PollMore
    <3> QED
      BY <2>2, <3>1, <3>2, PassSum
  <2>6. CASE TakeStop
    <3>1. Polls({"Stop"}) /\ acc' = IF consumer = "collect_response" THEN Absorb(acc, c) ELSE acc
      BY <2>6 DEF TakeStop
    <3>2. More(polled, c, polled') /\ c.kind \in {"Stop"} /\ AccTyped(acc) /\ consumer' = consumer
      BY <3>1, PollMore
    <3>3. CASE consumer = "collect_response"
      BY <2>2, <3>1, <3>2, <3>3, AbsorbSum
    <3>4. CASE consumer # "collect_response"
      BY <2>2, <3>1, <3>2, <3>4, PassSum
    <3> QED
      BY <3>3, <3>4
  <2>7. CASE TakeEnd
    BY <2>1, <2>7 DEF TakeEnd
  <2>8. ASSUME NEW item \in Items, Yield(item)
        PROVE  Inv'
    BY <2>1, <2>8 DEF Yield
  <2>9. CASE Close
    BY <2>1, <2>9 DEF Close
  <2>10. CASE UNCHANGED streamVars
    BY <2>1, <2>10 DEF streamVars
  <2> QED
    BY <2>3, <2>4, <2>5, <2>6, <2>7, <2>8, <2>9, <2>10 DEF Next, Consume
<1>3. Inv => AnswerIsSumOfItems
  BY DEF Sum, AnswerIsSumOfItems
<1> QED
  BY <1>1, <1>2, <1>3, Invariance, PTL DEF Spec

==============================================================================
