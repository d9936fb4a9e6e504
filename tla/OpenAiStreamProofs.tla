-------------------------- MODULE OpenAiStreamProofs --------------------------
(***************************************************************************)
(* Theorems about the OpenAI adapter: of completions of any length, with   *)
(* any number of tool calls, indexed or not, and any accident.             *)
(***************************************************************************)
EXTENDS OpenAiStream, StreamedCompletionProofs

(* The items of a delta end no consumer.                                   *)
LEMMA DeltaTame ==
  ASSUME NEW delta, IsItems(delta.tools)
  PROVE  Tame(ConvertDelta(delta))
<1> DEFINE item(n) == LET t == delta.tools[n]
                      IN  ToolCall(IF t.index = None THEN 0 ELSE t.index, t.id, t.name, t.args)
           calls == [n \in DOMAIN delta.tools |-> item(n)]
           content == If(delta.content # None, Text(delta.content))
           reasoning == If(delta.reasoning # None, Thought(delta.reasoning))
<1>1. Tame(content) /\ Tame(reasoning)
  BY IfTame DEF Text, Thought, ContentKind
<1>2. Tame(calls)
  <2>1. PICK S : delta.tools \in Seq(S)
    BY DEF IsItems
  <2>2. Len(delta.tools) \in Nat /\ DOMAIN delta.tools = 1 .. Len(delta.tools)
    BY <2>1
  <2> DEFINE len == Len(delta.tools)
             Entries == {item(n) : n \in 1 .. len}
  <2> HIDE DEF item
  <2>3. calls = [n \in 1 .. len |-> item(n)]
    BY <2>2
  <2>4. calls \in [1 .. len -> Entries]
    BY <2>3
  <2>5. calls \in Seq(Entries) /\ Len(calls) = len
    BY <2>2, <2>4
  <2>6. ASSUME NEW n \in 1 .. Len(calls)
        PROVE  calls[n].kind \in ContentKind
    <3>1. calls[n] = item(n)
      BY <2>3, <2>5
    <3> QED
      BY <3>1 DEF item, ToolCall, ContentKind
  <2> QED
    BY <2>5, <2>6 DEF Tame, IsItems
<1>3. ConvertDelta(delta) = content \o reasoning \o calls
  BY DEF ConvertDelta
<1> HIDE DEF content, reasoning, calls
<1>4. Tame(content \o reasoning)
  BY <1>1, TameThenTame
<1> QED
  BY <1>2, <1>3, <1>4, TameThenTame

(* The items of a data event: nothing that ends a consumer without a       *)
(* finish reason, the Stop behind all else with one, and an error where    *)
(* errors are null.                                                        *)
LEMMA DataItemsEnd ==
  ASSUME NEW usage, NEW delta, NEW finish, IsItems(delta.tools)
  PROVE  LET items == DataItems(usage, delta, finish)
         IN  /\ IsItems(items)
             /\ fault # "null" /\ finish = None => Tame(items)
             /\ fault # "null" /\ finish # None => EndsIn(items, "Stop")
             /\ fault = "null" => EndsIn(items, "Err")
<1> DEFINE items == DataItems(usage, delta, finish)
           first == If(usage # None, Usage(usage)) \o ConvertDelta(delta)
           last == If(finish # None, Stop(finish))
<1>1. CASE fault = "null"
  <2>1. items = <<Err(LlmGeneralError)>>
    BY <1>1 DEF DataItems
  <2> QED
    BY <1>1, <2>1, Single DEF Err
<1>2. CASE fault # "null"
  <2>1. Tame(first)
    <3>1. Tame(If(usage # None, Usage(usage)))
      BY IfTame DEF Usage, ContentKind
    <3> QED
      BY <3>1, DeltaTame, TameThenTame
  <2>2. items = first \o last
    BY <1>2 DEF DataItems, Chunks
  <2> HIDE DEF first
  <2>3. CASE finish = None
    <3>1. last = <<>>
      BY <2>3 DEF If
    <3>2. Tame(items)
      BY <2>1, <2>2, <3>1, Nothing, TameThenTame
    <3> QED
      BY <1>2, <2>3, <3>2 DEF Tame
  <2>4. CASE finish # None
    <3>1. last = <<Stop(finish)>>
      BY <2>4 DEF If
    <3>2. EndsIn(last, "Stop")
      BY <3>1, Single DEF Stop
    <3>3. EndsIn(items, "Stop")
      BY <2>1, <2>2, <3>2, TameThenEnd
    <3> QED
      BY <1>2, <2>4, <3>3 DEF EndsIn
  <2> QED
    BY <2>3, <2>4
<1> QED
  BY <1>1, <1>2

(* Every delta of the server is one.                                       *)
LEMMA DeltasAreItems ==
  /\ IsItems(NoDelta.tools)
  /\ \A p : IsItems(ContentDelta(p).tools) /\ IsItems(ReasoningDelta(p).tools)
  /\ \A i, id, name, args : IsItems(ToolDelta(i, id, name, args).tools)
<1>1. NoDelta.tools = <<>>
  BY DEF NoDelta
<1>2. \A p : ContentDelta(p).tools = <<>> /\ ReasoningDelta(p).tools = <<>>
  BY DEF NoDelta, ContentDelta, ReasoningDelta
<1>3. ASSUME NEW i, NEW id, NEW name, NEW args
      PROVE  \E t : ToolDelta(i, id, name, args).tools = <<t>>
  BY DEF NoDelta, ToolDelta
<1> QED
  BY <1>1, <1>2, <1>3, Nothing, Single

-----------------------------------------------------------------------------

(* The inductive invariant: before the finish reason there is none.        *)
OpenAiInv ==
  /\ StreamInv
  /\ stage \in {"deltas", "finished", "done"}
  /\ stage = "deltas" <=> said.finish = None

(* An event between the first and the finish reason.                       *)
LEMMA StreamsKeeps ==
  ASSUME OpenAiInv, Streams, NEW usage, NEW delta, IsItems(delta.tools),
         Write(DataItems(usage, delta, None)),
         DOMAIN said' = SaidField, said'.finish = said.finish
  PROVE  OpenAiInv'
<1>1. UNCHANGED <<stage, fault, early>> /\ stage = "deltas" /\ said.finish = None
  BY DEF Streams, OpenAiInv
<1>2. StreamInv'
  BY <1>1, DataItemsEnd, WriteKeeps DEF OpenAiInv
<1> QED
  BY <1>1, <1>2 DEF OpenAiInv

(* The invariant holds of every completion.                                *)
THEOREM Invariance == Spec => []OpenAiInv
<1>1. Init => OpenAiInv
  <2>1. DOMAIN NothingSaid = SaidField /\ NothingSaid.finish = None
    BY DEF NothingSaid, SaidField
  <2>2. Reading.tag # "err" /\ Reading # Collected
    BY DEF Reading, Collected
  <2> QED
    BY <2>1, <2>2, Nothing
    DEF Init, CompletionInit, StreamInit, OpenAiInv, StreamInv, Broken, Answering
<1>2. OpenAiInv /\ [Next]_vars => OpenAiInv'
  <2> SUFFICES ASSUME OpenAiInv, [Next]_vars
               PROVE  OpenAiInv'
    OBVIOUS
  <2>0. StreamInv /\ DOMAIN said = SaidField
    BY DEF OpenAiInv, StreamInv
  <2>1. CASE Client
    <3>1. UNCHANGED <<said, stage>>
      BY <2>1 DEF Client, serverVars
    <3> QED
      BY <2>0, <2>1, <3>1, ClientKeeps DEF OpenAiInv
  <2>2. CASE Connection
    <3>1. UNCHANGED <<said, stage>>
      BY <2>2 DEF Connection, Cut, EndOfBody, Fails
    <3> QED
      BY <2>0, <2>2, <3>1, ConnectionKeeps DEF OpenAiInv
  <2>3. CASE Heartbeat \/ ErrorEvent \/ MalformedEvent
    <3>1. UNCHANGED <<said, stage>>
      BY <2>3 DEF Heartbeat, ErrorEvent, MalformedEvent, Fails
    <3> QED
      BY <2>0, <2>3, <3>1, AccidentKeeps DEF OpenAiInv
  <2>4. ASSUME NEW p \in Piece, SayText(p)
        PROVE  OpenAiInv'
    <3>1. DOMAIN said' = SaidField /\ said'.finish = said.finish
      BY <2>0, <2>4 DEF SayText, SaidField
    <3> QED
      BY <2>4, <3>1, DeltasAreItems, StreamsKeeps DEF SayText
  <2>5. ASSUME NEW p \in Piece, SayThought(p)
        PROVE  OpenAiInv'
    <3>1. DOMAIN said' = SaidField /\ said'.finish = said.finish
      BY <2>0, <2>5 DEF SayThought, SaidField
    <3> QED
      BY <2>5, <3>1, DeltasAreItems, StreamsKeeps DEF SayThought
  <2>6. ASSUME NEW id \in CallId, NEW name \in ToolName, StartCall(id, name)
        PROVE  OpenAiInv'
    <3>1. DOMAIN said' = SaidField /\ said'.finish = said.finish
      BY <2>0, <2>6 DEF StartCall, SaidField
    <3> QED
      BY <2>6, <3>1, DeltasAreItems, StreamsKeeps DEF StartCall
  <2>7. ASSUME NEW n \in DOMAIN said.calls, NEW p \in Piece, SayArgs(n, p)
        PROVE  OpenAiInv'
    <3>1. DOMAIN said' = SaidField /\ said'.finish = said.finish
      BY <2>0, <2>7 DEF SayArgs, SaidField
    <3> QED
      BY <2>7, <3>1, DeltasAreItems, StreamsKeeps DEF SayArgs
  <2>8. ASSUME NEW reason \in Reason, NEW last \in Opt(Piece), NEW t \in Tokens,
               Finish(reason, last, t)
        PROVE  OpenAiInv'
    <3> DEFINE usage == IF trailing THEN NoUsage ELSE Counts(t)
               delta == IF last = None THEN NoDelta ELSE ContentDelta(last)
    <3>1. /\ Write(DataItems(usage, delta, reason))
          /\ UNCHANGED <<fault, early>>
          /\ stage = "deltas" /\ stage' = "finished"
      BY <2>8 DEF Finish
    <3>2. DOMAIN said' = SaidField /\ said'.finish = reason
      BY <2>0, <2>8 DEF Finish, SaidField
    <3>3. said.finish = None /\ reason # None
      BY <3>1, FinishAssumption DEF OpenAiInv
    <3>4. IsItems(delta.tools)
      BY DeltasAreItems
    <3> HIDE DEF usage, delta
    <3>5. StreamInv'
      BY <2>0, <3>1, <3>2, <3>3, <3>4, DataItemsEnd, WriteKeeps
    <3> QED
      BY <3>1, <3>2, <3>3, <3>5 DEF OpenAiInv
  <2>9. ASSUME NEW t \in Tokens, ReportUsage(t)
        PROVE  OpenAiInv'
    <3>1. /\ Write(DataItems(Counts(t), NoDelta, None))
          /\ UNCHANGED <<stage, fault, early>> /\ stage = "finished"
      BY <2>9 DEF ReportUsage
    <3>2. DOMAIN said' = SaidField /\ said'.finish = said.finish
      BY <2>0, <2>9 DEF ReportUsage, SaidField
    <3>3. StreamInv'
      BY <2>0, <3>1, <3>2, DeltasAreItems, DataItemsEnd, WriteKeeps
    <3> QED
      BY <3>1, <3>2, <3>3 DEF OpenAiInv
  <2>10. CASE Done
    <3>1. /\ Write(<<Stop("stop")>>)
          /\ UNCHANGED <<said, fault, early>> /\ stage = "finished" /\ stage' = "done"
      BY <2>10 DEF Done, DoneItems
    <3>2. IsItems(<<Stop("stop")>>)
      BY Single
    <3>3. said.finish # None
      BY <3>1 DEF OpenAiInv
    <3>4. StreamInv'
      BY <2>0, <3>1, <3>2, <3>3, WriteKeeps
    <3> QED
      BY <3>1, <3>3, <3>4 DEF OpenAiInv
  <2>11. CASE UNCHANGED vars
    BY <2>11 DEF vars, streamVars, serverVars, OpenAiInv, StreamInv, Broken, Answering
  <2> QED
    BY <2>1, <2>2, <2>3, <2>4, <2>5, <2>6, <2>7, <2>8, <2>9, <2>10, <2>11 DEF Next, Server
<1> QED
  BY <1>1, <1>2, PTL DEF Spec

(* An error event, a null error, a malformed event and a broken connection *)
(* before the finish reason never end in an answer, however much had come  *)
(* and wherever it is between server, adapter and consumer                 *)
(* (parse_sse_stream, collect_response).                                   *)
THEOREM NoAnswerOfBrokenStream == Spec => []BrokenStreamIsNoAnswer
<1>1. OpenAiInv => BrokenStreamIsNoAnswer
  BY StreamInvSuffices DEF OpenAiInv
<1> QED
  BY <1>1, Invariance, PTL

(* Nothing that happens behind the finish reason makes an error of the     *)
(* answer, not even one of the trailing usage or of [DONE].                *)
THEOREM AnswerOutlivesLateFault == Spec => []LateFaultIsHarmless
<1>1. OpenAiInv => LateFaultIsHarmless
  BY StreamInvSuffices DEF OpenAiInv
<1> QED
  BY <1>1, Invariance, PTL

-----------------------------------------------------------------------------
(* The deltas the server sends, as items. *)
LEMMA ItemsOfDeltas ==
  /\ ConvertDelta(NoDelta) = <<>>
  /\ \A p \in Piece : /\ ConvertDelta(ContentDelta(p)) = <<Text(<<p>>)>>
                      /\ ConvertDelta(ReasoningDelta(p)) = <<Thought(<<p>>)>>
  /\ \A i \in Nat : \A id, name, args :
       ConvertDelta(ToolDelta(i, id, name, args)) =
         <<ToolCall(IF indexed THEN i ELSE 0, id, name, args)>>
<1>1. NoDelta.content = None /\ NoDelta.reasoning = None /\ NoDelta.tools = <<>>
  BY DEF NoDelta
<1>2. ConvertDelta(NoDelta) = <<>>
  BY <1>1 DEF ConvertDelta, If
<1>3. ASSUME NEW p \in Piece
      PROVE  /\ ConvertDelta(ContentDelta(p)) = <<Text(<<p>>)>>
             /\ ConvertDelta(ReasoningDelta(p)) = <<Thought(<<p>>)>>
  <2>1. <<p>> # None
    <3>1. <<p>> \in Seq(Piece)
      OBVIOUS
    <3> QED
      BY <3>1, NoneAssumption
  <2> DEFINE c == ContentDelta(p)
             r == ReasoningDelta(p)
  <2>2. /\ c.content = <<p>> /\ c.reasoning = None /\ c.tools = <<>>
        /\ r.content = None /\ r.reasoning = <<p>> /\ r.tools = <<>>
    BY DEF NoDelta, ContentDelta, ReasoningDelta
  <2> HIDE DEF c, r
  <2>3. ConvertDelta(c) = <<Text(<<p>>)>> /\ ConvertDelta(r) = <<Thought(<<p>>)>>
    BY <2>1, <2>2 DEF ConvertDelta, If
  <2> QED
    BY <2>3 DEF c, r
<1>4. ASSUME NEW i \in Nat, NEW id, NEW name, NEW args
      PROVE  ConvertDelta(ToolDelta(i, id, name, args)) =
               <<ToolCall(IF indexed THEN i ELSE 0, id, name, args)>>
  <2> DEFINE d == ToolDelta(i, id, name, args)
             tool == [index |-> IF indexed THEN i ELSE None, id |-> id, name |-> name, args |-> args]
             call == ToolCall(IF indexed THEN i ELSE 0, id, name, args)
  <2>1. d.content = None /\ d.reasoning = None /\ d.tools = <<tool>>
    BY DEF NoDelta, ToolDelta
  <2>2. /\ tool.id = id /\ tool.name = name /\ tool.args = args
        /\ (IF tool.index = None THEN 0 ELSE tool.index) = (IF indexed THEN i ELSE 0)
    BY NoneAssumption
  <2> HIDE DEF tool, d
  <2>3. [n \in DOMAIN <<tool>> |->
           LET t == <<tool>>[n]
           IN  ToolCall(IF t.index = None THEN 0 ELSE t.index, t.id, t.name, t.args)] = <<call>>
    <3>1. DOMAIN <<tool>> = {1} /\ <<tool>>[1] = tool
      OBVIOUS
    <3>2. <<call>> = [n \in {1} |-> call]
      OBVIOUS
    <3> QED
      BY <2>2, <3>1, <3>2 DEF ToolCall
  <2>4. ConvertDelta(d) = <<>> \o <<>> \o <<call>>
    BY <2>1, <2>3 DEF ConvertDelta, If
  <2> HIDE DEF call
  <2>5. ConvertDelta(d) = <<call>>
    BY <2>4
  <2> QED
    BY <2>5 DEF d, call
<1> QED
  BY <1>2, <1>3, <1>4

(* The items of the server's events, where errors are not null.            *)
LEMMA ItemsOfEvents ==
  ASSUME fault # "null"
  PROVE  /\ \A p \in Piece :
              /\ DataItems(NoUsage, ContentDelta(p), None) = <<Usage(NoUsage)>> \o <<Text(<<p>>)>>
              /\ DataItems(None, ReasoningDelta(p), None) = <<Thought(<<p>>)>>
         /\ \A i \in Nat : \A id, name, args :
              DataItems(None, ToolDelta(i, id, name, args), None) =
                <<ToolCall(IF indexed THEN i ELSE 0, id, name, args)>>
         /\ \A u \in [UsageField -> Opt(Nat)] : \A reason : reason # None =>
              /\ DataItems(u, NoDelta, reason) = <<Usage(u)>> \o <<Stop(reason)>>
              /\ \A p \in Piece : DataItems(u, ContentDelta(p), reason) =
                                   (<<Usage(u)>> \o <<Text(<<p>>)>>) \o <<Stop(reason)>>
<1>1. NoUsage \in [UsageField -> Opt(Nat)] /\ NoUsage # None
  <2>1. NoUsage \in [UsageField -> Opt(Nat)]
    BY DEF NoUsage, Opt
  <2> QED
    BY <2>1, NoneAssumption
<1>2. \A u \in [UsageField -> Opt(Nat)] : u # None
  BY NoneAssumption
<1>3. \A p \in Piece :
        /\ DataItems(NoUsage, ContentDelta(p), None) = <<Usage(NoUsage)>> \o <<Text(<<p>>)>>
        /\ DataItems(None, ReasoningDelta(p), None) = <<Thought(<<p>>)>>
  <2> SUFFICES ASSUME NEW p \in Piece
               PROVE  /\ DataItems(NoUsage, ContentDelta(p), None) = <<Usage(NoUsage)>> \o <<Text(<<p>>)>>
                      /\ DataItems(None, ReasoningDelta(p), None) = <<Thought(<<p>>)>>
    OBVIOUS
  <2>1. DataItems(NoUsage, ContentDelta(p), None) = (<<Usage(NoUsage)>> \o <<Text(<<p>>)>>) \o <<>>
    BY <1>1, ItemsOfDeltas DEF DataItems, Chunks, If
  <2>2. DataItems(None, ReasoningDelta(p), None) = (<<>> \o <<Thought(<<p>>)>>) \o <<>>
    BY ItemsOfDeltas DEF DataItems, Chunks, If
  <2> QED
    BY <2>1, <2>2
<1>4. ASSUME NEW i \in Nat, NEW id, NEW name, NEW args
      PROVE  DataItems(None, ToolDelta(i, id, name, args), None) =
               <<ToolCall(IF indexed THEN i ELSE 0, id, name, args)>>
  <2> DEFINE call == ToolCall(IF indexed THEN i ELSE 0, id, name, args)
  <2>1. DataItems(None, ToolDelta(i, id, name, args), None) = (<<>> \o <<call>>) \o <<>>
    BY ItemsOfDeltas DEF DataItems, Chunks, If
  <2> HIDE DEF call
  <2>2. (<<>> \o <<call>>) \o <<>> = <<call>>
    OBVIOUS
  <2> QED
    BY <2>1, <2>2 DEF call
<1>5. ASSUME NEW u \in [UsageField -> Opt(Nat)], NEW reason, reason # None
      PROVE  /\ DataItems(u, NoDelta, reason) = <<Usage(u)>> \o <<Stop(reason)>>
             /\ \A p \in Piece : DataItems(u, ContentDelta(p), reason) =
                                  (<<Usage(u)>> \o <<Text(<<p>>)>>) \o <<Stop(reason)>>
  <2>1. DataItems(u, NoDelta, reason) = (<<Usage(u)>> \o <<>>) \o <<Stop(reason)>>
    BY <1>2, <1>5, ItemsOfDeltas DEF DataItems, Chunks, If
  <2>2. \A p \in Piece : DataItems(u, ContentDelta(p), reason) =
                         (<<Usage(u)>> \o <<Text(<<p>>)>>) \o <<Stop(reason)>>
    BY <1>2, <1>5, ItemsOfDeltas DEF DataItems, Chunks, If
  <2>3. <<Usage(u)>> \o <<>> = <<Usage(u)>>
    OBVIOUS
  <2> QED
    BY <2>1, <2>2, <2>3
<1> QED
  BY <1>3, <1>4, <1>5

(* The calls are numbered as they were begun, and without indices there is *)
(* at most one; the usage is not counted before the finish reason; and of  *)
(* a server with null errors nothing is taken but an error.                *)
CallsInOrder(s) == \E m \in Nat : DOMAIN s.calls = 0 .. m - 1 /\ (indexed \/ m <= 1)

OpenAiFlow ==
  /\ SaidTyped(said)
  /\ CallsInOrder(said)
  /\ stage = "deltas" => said.usage = NoUsage
  /\ fault # "null" => Flow(Whole, acc, queue, outcome, closed, said, None)
  /\ fault = "null" => /\ acc = EmptyAcc
                       /\ outcome = Reading => queue = <<>> \/ Head(queue).kind = "Err"

(* An event up to the finish reason.                                       *)
LEMMA EventFlows ==
  ASSUME OpenAiInv, OpenAiFlow, stage = "deltas", NEW items, Write(items), IsItems(items),
         UNCHANGED <<fault, indexed>>, SaidTyped(said'), CallsInOrder(said)',
         stage' = "deltas" => said'.usage = NoUsage,
         fault # "null" => Grows(said, said') /\ Carries(Whole, items, said, None, said', None),
         fault = "null" => items = <<Err(LlmGeneralError)>>
  PROVE  OpenAiFlow'
<1>1. ~ closed /\ ~ closed' /\ queue' = queue \o items /\ UNCHANGED <<consumer, acc, outcome>>
  BY DEF Write
<1>2. said.finish = None
  BY DEF OpenAiInv
<1>3. ASSUME fault # "null"
      PROVE  Flow(Whole', acc', queue', outcome', closed', said', None)
  <2>1. Flow(Whole, acc, queue, outcome, FALSE, said, None)
    <3>1. closed = FALSE \/ closed \notin BOOLEAN
      BY <1>1
    <3> QED
      BY <1>1, <1>2, <1>3 DEF OpenAiFlow, Flow
  <2>2. Flow(Whole, acc, queue \o items, outcome, FALSE, said', None)
    BY <1>2, <1>3, <2>1, FlowOn
  <2>3. Whole' = Whole
    BY <1>1 DEF Whole
  <2> QED
    BY <1>1, <2>2, <2>3 DEF Flow
<1>4. ASSUME fault = "null"
      PROVE  /\ acc' = EmptyAcc
             /\ outcome' = Reading => queue' = <<>> \/ Head(queue').kind = "Err"
  <2>1. Err(LlmGeneralError).kind = "Err"
    BY DEF Err
  <2>2. PICK S : queue \in Seq(S)
    BY DEF OpenAiInv, StreamInv, IsItems
  <2> DEFINE e == Err(LlmGeneralError)
  <2> HIDE DEF e
  <2>3. queue \in Seq(S \cup {e}) /\ <<e>> \in Seq(S \cup {e})
    BY <2>2
  <2>4. queue' = queue \o <<e>>
    BY <1>1, <1>4 DEF e
  <2>5. queue = <<>> => Head(queue') = e
    BY <2>3, <2>4
  <2>6. queue # <<>> => Head(queue') = Head(queue)
    BY <2>3, <2>4
  <2> QED
    BY <1>1, <1>4, <2>1, <2>5, <2>6 DEF OpenAiFlow, e
<1> QED
  BY <1>3, <1>4 DEF OpenAiFlow

(* How many calls were begun.                                              *)
LEMMA CountOfCalls ==
  ASSUME OpenAiFlow
  PROVE  /\ CallsBegun \in Nat /\ DOMAIN said.calls = 0 .. CallsBegun - 1
         /\ indexed \/ CallsBegun <= 1
<1>1. PICK m \in Nat : DOMAIN said.calls = 0 .. m - 1 /\ (indexed \/ m <= 1)
  BY DEF OpenAiFlow, CallsInOrder
<1>2. Cardinality(0 .. m - 1) = m
  <2>1. \A x, y \in Int : x <= y => Cardinality(x .. y) = y - x + 1
    BY FS_Interval
  <2>2. CASE m = 0
    <3>1. 0 .. m - 1 = {}
      BY <2>2
    <3> QED
      BY <2>2, <3>1, FS_EmptySet
  <2>3. CASE m # 0
    BY <2>1, <2>3
  <2> QED
    BY <2>2, <2>3
<1> QED
  BY <1>1, <1>2 DEF CallsBegun

(* Every step keeps it, unless a server makes several calls without index. *)
LEMMA StepFlows ==
  ASSUME UnindexedCalls \in {0, 1}, OpenAiInv, OpenAiFlow, [Next]_vars
  PROVE  OpenAiFlow'
<1>0. /\ StreamInv /\ DOMAIN said = SaidField /\ SaidTyped(said)
      /\ stage = "deltas" <=> said.finish = None
  BY DEF OpenAiInv, StreamInv, OpenAiFlow
<1>n. /\ IsItems(<<Err(LlmGeneralError)>>)
      /\ fault = "null" => \A u, d, r : DataItems(u, d, r) = <<Err(LlmGeneralError)>>
  BY Single DEF DataItems
<1>u. /\ NoUsage \in [UsageField -> Opt(Nat)]
      /\ \A u \in [UsageField -> Opt(Nat)] : MergeUsage(NoUsage, u) = u
  BY DEF NoUsage, Opt, MergeUsage
<1>w. consumer' = consumer => Whole' = Whole
  BY DEF Whole
<1>i. CASE UNCHANGED vars
  BY <1>i, <1>w DEF vars, streamVars, serverVars, style, OpenAiFlow, CallsInOrder
<1> SUFFICES ASSUME Next
             PROVE  OpenAiFlow'
  BY <1>i
<1>x. UNCHANGED indexed
  BY DEF Next, style
<1>1. CASE Client
  <2>1. UNCHANGED <<said, stage, fault, closed, consumer>>
    BY <1>1 DEF Client, serverVars, Consume, TakeErr, TakeContent, TakeErrorChunk, TakeStop, TakeEnd, Polls
  <2>2. CASE fault # "null"
    <3>1. Flow(Whole, acc', queue', outcome', closed, said, None)
      BY <1>1, <2>2, ClientFlows DEF OpenAiFlow
    <3> QED
      BY <1>w, <1>x, <2>1, <2>2, <3>1 DEF OpenAiFlow, CallsInOrder
  <2>3. CASE fault = "null"
    <3>1. acc' = acc /\ outcome' # Reading
      <4>1. outcome = Reading
        BY <1>1 DEF Client, Consume, TakeErr, TakeContent, TakeErrorChunk, TakeStop, TakeEnd, Polls
      <4>2. CASE queue = <<>>
        <5>1. TakeEnd
          BY <1>1, <4>2 DEF Client, Consume, TakeErr, TakeContent, TakeErrorChunk, TakeStop, Polls
        <5> QED
          BY <5>1 DEF TakeEnd, Reading, Collected
      <4>3. CASE queue # <<>>
        <5>1. Head(queue).kind = "Err"
          BY <2>3, <4>1, <4>3 DEF OpenAiFlow
        <5>2. TakeErr
          BY <1>1, <4>3, <5>1 DEF Client, Consume, TakeContent, TakeErrorChunk, TakeStop, TakeEnd, Polls
        <5> QED
          BY <5>2 DEF TakeErr, Failed, Reading
      <4> QED
        BY <4>2, <4>3
    <3> QED
      BY <1>x, <2>1, <2>3, <3>1 DEF OpenAiFlow, CallsInOrder
  <2> QED
    BY <2>2, <2>3
<1>2. CASE Connection \/ ErrorEvent \/ MalformedEvent \/ Heartbeat
  <2>1. UNCHANGED <<said, stage, consumer, acc, outcome>> /\ ~ closed
    BY <1>2 DEF Connection, Cut, EndOfBody, Heartbeat, ErrorEvent, MalformedEvent, Fails, Write
  <2>2. \/ fault = "none" /\ fault' # "null" /\ \E e : queue' = queue \o <<Err(e)>>
        \/ UNCHANGED <<fault, queue>>
        \/ fault = "none" /\ fault' # "null" /\ UNCHANGED queue
    <3>1. CASE Cut
      <4>1. queue' = queue \o <<Err(StreamError)>>
        <5>1. PICK S : queue \in Seq(S)
          BY <1>0 DEF StreamInv, IsItems
        <5>2. queue \in Seq(S \cup {Err(StreamError)}) /\ Err(StreamError) \in S \cup {Err(StreamError)}
          BY <5>1
        <5> QED
          BY <3>1, <5>2 DEF Cut
      <4> QED
        BY <3>1, <4>1 DEF Cut, Fails
    <3>2. CASE EndOfBody
      BY <3>2 DEF EndOfBody, Fails
    <3>3. CASE Heartbeat
      <4>1. PICK S : queue \in Seq(S)
        BY <1>0 DEF StreamInv, IsItems
      <4>2. queue \o <<>> = queue
        BY <4>1
      <4> QED
        BY <3>3, <4>2 DEF Heartbeat, Write
    <3>4. CASE ErrorEvent \/ MalformedEvent
      BY <3>4 DEF ErrorEvent, MalformedEvent, Fails, Write
    <3> QED
      BY <1>2, <3>1, <3>2, <3>3, <3>4 DEF Connection
  <2>3. ASSUME fault # "null"
        PROVE  Flow(Whole, acc, queue', outcome, closed', said, None)
    <3>1. Flow(Whole, acc, queue, outcome, closed, said, None)
      BY <2>3 DEF OpenAiFlow
    <3>2. Flow(Whole, acc, queue, outcome, FALSE, said, None)
      BY <2>1, <3>1 DEF Flow
    <3>3. Flow(Whole, acc, queue', outcome, FALSE, said, None)
      BY <2>2, <3>2, FlowFails
    <3>4. closed' = TRUE \/ closed' = closed
      BY <1>2 DEF Connection, Cut, EndOfBody, Heartbeat, ErrorEvent, MalformedEvent, Write
    <3> QED
      BY <2>1, <3>3, <3>4 DEF Flow
  <2>4. fault' = "null" => fault = "null" /\ queue' = queue
    BY <2>2
  <2>5. SaidTyped(said') /\ CallsInOrder(said)' /\ (stage' = "deltas" => said'.usage = NoUsage)
    BY <1>x, <2>1 DEF OpenAiFlow, CallsInOrder
  <2>6. fault' # "null" => Flow(Whole', acc', queue', outcome', closed', said', None)
    <3>1. Whole' = Whole /\ acc' = acc /\ outcome' = outcome /\ said' = said
      BY <1>w, <2>1
    <3>2. fault' # "null" => fault # "null"
      BY <2>2
    <3> QED
      BY <2>3, <3>1, <3>2
  <2>7. fault' = "null" => /\ acc' = EmptyAcc
                           /\ outcome' = Reading => queue' = <<>> \/ Head(queue').kind = "Err"
    BY <2>1, <2>4 DEF OpenAiFlow
  <2> QED
    BY <2>5, <2>6, <2>7 DEF OpenAiFlow
<1>3. ASSUME NEW p \in Piece, SayText(p)
      PROVE  OpenAiFlow'
  <2> DEFINE items == DataItems(NoUsage, ContentDelta(p), None)
  <2>1. /\ stage = "deltas" /\ UNCHANGED <<stage, fault>> /\ Write(items)
        /\ said' = [said EXCEPT !.text = Append(@, p)]
    BY <1>3 DEF SayText, Streams
  <2>2. said.finish = None /\ said.usage = NoUsage
    BY <1>0, <2>1 DEF OpenAiFlow
  <2>3. /\ DOMAIN said' = SaidField /\ said'.text = Append(said.text, p)
        /\ said'.reasoning = said.reasoning /\ said'.calls = said.calls
        /\ said'.usage = said.usage /\ said'.finish = None
    BY <1>0, <2>1, <2>2 DEF SaidField
  <2>4. SaidTyped(said') /\ Grows(said, said') /\ Carries(Whole, <<Text(<<p>>)>>, said, None, said', None)
    BY <1>0, <2>2, <2>3, TextCarried
  <2>5. Grows(said, said) /\ Carries(Whole, <<Usage(NoUsage)>>, said, None, said, None)
    BY <1>0, <1>u, <2>2, UsageCarried
  <2>6. IsItems(<<Usage(NoUsage)>>) /\ IsItems(<<Text(<<p>>)>>)
    BY Single
  <2>7. fault # "null" => items = <<Usage(NoUsage)>> \o <<Text(<<p>>)>>
    BY ItemsOfEvents
  <2>8. IsItems(items)
    BY <1>n, <2>6, <2>7, Concatenation
  <2>9. fault # "null" => Carries(Whole, items, said, None, said', None)
    BY <2>2, <2>4, <2>5, <2>6, <2>7, CarryOn
  <2>10. CallsInOrder(said)'
    BY <1>x, <2>3 DEF OpenAiFlow, CallsInOrder
  <2> HIDE DEF items
  <2> QED
    BY <1>n, <1>x, <2>1, <2>2, <2>3, <2>4, <2>8, <2>9, <2>10, EventFlows DEF items
<1>4. ASSUME NEW p \in Piece, SayThought(p)
      PROVE  OpenAiFlow'
  <2> DEFINE items == DataItems(None, ReasoningDelta(p), None)
  <2>1. /\ stage = "deltas" /\ UNCHANGED <<stage, fault>> /\ Write(items)
        /\ said' = [said EXCEPT !.reasoning = Append(@, p)]
    BY <1>4 DEF SayThought, Streams
  <2>2. said.finish = None /\ said.usage = NoUsage
    BY <1>0, <2>1 DEF OpenAiFlow
  <2>3. /\ DOMAIN said' = SaidField /\ said'.text = said.text
        /\ said'.reasoning = Append(said.reasoning, p) /\ said'.calls = said.calls
        /\ said'.usage = said.usage /\ said'.finish = None
    BY <1>0, <2>1, <2>2 DEF SaidField
  <2>4. SaidTyped(said') /\ Grows(said, said') /\ Carries(Whole, <<Thought(<<p>>)>>, said, None, said', None)
    BY <1>0, <2>2, <2>3, ThoughtCarried
  <2>5. fault # "null" => items = <<Thought(<<p>>)>>
    BY ItemsOfEvents
  <2>6. IsItems(items)
    BY <1>n, <2>5, Single
  <2>7. CallsInOrder(said)'
    BY <1>x, <2>3 DEF OpenAiFlow, CallsInOrder
  <2> HIDE DEF items
  <2> QED
    BY <1>n, <1>x, <2>1, <2>2, <2>3, <2>4, <2>5, <2>6, <2>7, EventFlows DEF items
<1>5. ASSUME NEW id \in CallId, NEW name \in ToolName, StartCall(id, name)
      PROVE  OpenAiFlow'
  <2> DEFINE n == CallsBegun
             items == DataItems(None, ToolDelta(n, id, name, <<>>), None)
  <2>1. /\ stage = "deltas" /\ UNCHANGED <<stage, fault>> /\ Write(items)
        /\ said' = [said EXCEPT !.calls = Begun(@, n, id, name)]
        /\ n \in Index /\ (indexed \/ n < UnindexedCalls)
    BY <1>5 DEF StartCall, Streams
  <2>2. said.finish = None /\ said.usage = NoUsage
    BY <1>0, <2>1 DEF OpenAiFlow
  <2>3. n \in Nat /\ DOMAIN said.calls = 0 .. n - 1
    BY CountOfCalls
  <2> HIDE DEF n
  <2>4. n \notin DOMAIN said.calls
    BY <2>3
  <2>5. said'.calls = Begun(said.calls, n, id, name) /\ said'.usage = said.usage
    BY <1>0, <2>1 DEF SaidField
  <2>6. /\ SaidTyped(said') /\ Grows(said, said')
        /\ Carries(Whole, <<ToolCall(n, id, name, <<>>)>>, said, None, said', None)
    BY <1>0, <2>1, <2>2, <2>4, StartCarried
  <2>7. indexed \/ n = 0
    BY <2>1, <2>3
  <2>8. fault # "null" => items = <<ToolCall(n, id, name, <<>>)>>
    BY <2>3, <2>7, ItemsOfEvents
  <2>9. IsItems(items)
    BY <1>n, <2>8, Single
  <2>10. CallsInOrder(said)'
    <3>1. DOMAIN said'.calls = 0 .. (n + 1) - 1
      BY <2>3, <2>5 DEF Begun
    <3> QED
      BY <1>x, <2>3, <2>7, <3>1 DEF CallsInOrder
  <2> HIDE DEF items
  <2> QED
    BY <1>n, <1>x, <2>1, <2>2, <2>5, <2>6, <2>8, <2>9, <2>10, EventFlows DEF items
<1>6. ASSUME NEW n \in DOMAIN said.calls, NEW p \in Piece, SayArgs(n, p)
      PROVE  OpenAiFlow'
  <2> DEFINE items == DataItems(None, ToolDelta(n, None, None, <<p>>), None)
  <2>1. /\ stage = "deltas" /\ UNCHANGED <<stage, fault>> /\ Write(items)
        /\ said' = [said EXCEPT !.calls[n].args = Append(@, p)]
        /\ (indexed \/ n = CallsBegun - 1)
    BY <1>6 DEF SayArgs, Streams
  <2>2. said.finish = None /\ said.usage = NoUsage
    BY <1>0, <2>1 DEF OpenAiFlow
  <2>3. n \in Nat /\ (indexed \/ n = 0)
    BY <1>6, <2>1, CountOfCalls
  <2>5. DOMAIN said'.calls = DOMAIN said.calls /\ said'.usage = said.usage
    BY <1>0, <2>1 DEF SaidField
  <2>6. /\ SaidTyped(said') /\ Grows(said, said')
        /\ Carries(Whole, <<ToolCall(n, None, None, <<p>>)>>, said, None, said', None)
    BY <1>0, <1>6, <2>1, <2>2, ArgsCarried
  <2>8. fault # "null" => items = <<ToolCall(n, None, None, <<p>>)>>
    BY <2>3, ItemsOfEvents
  <2>9. IsItems(items)
    BY <1>n, <2>8, Single
  <2>10. CallsInOrder(said)'
    BY <1>x, <2>5 DEF OpenAiFlow, CallsInOrder
  <2> HIDE DEF items
  <2> QED
    BY <1>n, <1>x, <2>1, <2>2, <2>5, <2>6, <2>8, <2>9, <2>10, EventFlows DEF items
<1>7. ASSUME NEW reason \in Reason, NEW last \in Opt(Piece), NEW t \in Tokens, Finish(reason, last, t)
      PROVE  OpenAiFlow'
  <2> DEFINE u == IF trailing THEN NoUsage ELSE Counts(t)
             delta == IF last = None THEN NoDelta ELSE ContentDelta(last)
             items == DataItems(u, delta, reason)
             used == [said EXCEPT !.usage = u]
             full == [used EXCEPT !.text = IF last = None THEN @ ELSE Append(@, last)]
  <2>1. /\ stage = "deltas" /\ stage' = "finished" /\ UNCHANGED fault /\ Write(items)
        /\ said' = [said EXCEPT !.finish = reason,
                                !.text = IF last = None THEN @ ELSE Append(@, last),
                                !.usage = IF trailing THEN @ ELSE Counts(t)]
    BY <1>7 DEF Finish
  <2>2. said.finish = None /\ said.usage = NoUsage /\ reason # None
    BY <1>0, <2>1, FinishAssumption DEF OpenAiFlow
  <2>3. u \in [UsageField -> Opt(Nat)]
    BY <1>u, TokensAssumption DEF Counts, Opt
  <2> HIDE DEF u, delta
  <2>4. /\ DOMAIN used = SaidField /\ used.text = said.text
        /\ used.reasoning = said.reasoning /\ used.calls = said.calls
        /\ used.usage = u /\ used.finish = None
    BY <1>0, <2>2 DEF SaidField
  <2> HIDE DEF used
  <2>5. /\ DOMAIN full = SaidField
        /\ full.text = (IF last = None THEN said.text ELSE Append(said.text, last))
        /\ full.reasoning = said.reasoning /\ full.calls = said.calls
        /\ full.usage = u /\ full.finish = None
    BY <2>4 DEF SaidField
  <2> HIDE DEF full
  <2>6. /\ DOMAIN said' = SaidField /\ said'.text = full.text
        /\ said'.reasoning = full.reasoning /\ said'.calls = full.calls
        /\ said'.usage = full.usage /\ said'.finish = reason
    BY <1>0, <2>1, <2>2, <2>5 DEF SaidField, u
  <2>7. /\ SaidTyped(used) /\ Grows(said, used)
        /\ Carries(Whole, <<Usage(u)>>, said, None, used, None)
    BY <1>0, <1>u, <2>2, <2>3, <2>4, UsageCarried
  <2>8. ASSUME last # None
        PROVE  /\ SaidTyped(full) /\ Grows(used, full)
               /\ Carries(Whole, <<Text(<<last>>)>>, used, None, full, None)
    <3>1. last \in Piece
      BY <2>8 DEF Opt
    <3> QED
      BY <2>4, <2>5, <2>7, <2>8, <3>1, TextCarried
  <2>9. SaidTyped(full) /\ Grows(used, full)
    BY <2>4, <2>5, <2>7, <2>8 DEF SaidTyped, Grows, Sound, WasSaid
  <2>10. /\ SaidTyped(said') /\ Grows(full, said')
         /\ Carries(Whole, <<Stop(reason)>>, full, None, said', None)
    BY <2>2, <2>6, <2>9, CarryStop
  <2>11. Grows(said, said') /\ Grows(used, said')
    BY <2>7, <2>9, <2>10 DEF Grows
  <2>12. /\ IsItems(<<Usage(u)>>) /\ IsItems(<<Text(<<last>>)>>) /\ IsItems(<<Stop(reason)>>)
         /\ IsItems(<<Usage(u)>> \o <<Text(<<last>>)>>)
    BY Single, Concatenation
  <2>17. fault = "null" => items = <<Err(LlmGeneralError)>>
    BY <1>n
  <2>13. ASSUME last = None
         PROVE  IsItems(items) /\ (fault # "null" => Carries(Whole, items, said, None, said', None))
    <3>1. fault # "null" => items = <<Usage(u)>> \o <<Stop(reason)>>
      BY <2>2, <2>3, <2>13, ItemsOfEvents DEF delta
    <3>2. Carries(Whole, <<Stop(reason)>>, used, None, said', None)
      BY <2>2, <2>4, <2>5, <2>6, <2>7, <2>13, CarryStop
    <3>3. Carries(Whole, <<Usage(u)>> \o <<Stop(reason)>>, said, None, said', None)
      BY <2>4, <2>7, <2>11, <2>12, <3>2, CarryOn
    <3>4. IsItems(<<Usage(u)>> \o <<Stop(reason)>>)
      BY <2>12, Concatenation
    <3> HIDE DEF items
    <3> QED
      BY <1>n, <2>17, <3>1, <3>3, <3>4
  <2>14. ASSUME last # None
         PROVE  IsItems(items) /\ (fault # "null" => Carries(Whole, items, said, None, said', None))
    <3>0. last \in Piece
      BY <2>14 DEF Opt
    <3> DEFINE three == (<<Usage(u)>> \o <<Text(<<last>>)>>) \o <<Stop(reason)>>
    <3>1. fault # "null" => items = three
      BY <2>2, <2>3, <2>14, <3>0, ItemsOfEvents DEF delta
    <3>2. Carries(Whole, <<Usage(u)>> \o <<Text(<<last>>)>>, said, None, full, None)
      BY <2>4, <2>7, <2>8, <2>12, <2>14, CarryOn
    <3>3. Carries(Whole, three, said, None, said', None)
      BY <2>5, <2>10, <2>12, <3>2, CarryOn
    <3>4. IsItems(three)
      BY <2>12, Concatenation
    <3> HIDE DEF items, three
    <3> QED
      BY <1>n, <2>17, <3>1, <3>3, <3>4
  <2>15. IsItems(items) /\ (fault # "null" => Carries(Whole, items, said, None, said', None))
    <3> HIDE DEF items
    <3> QED
      BY <2>13, <2>14
  <2>16. CallsInOrder(said)'
    BY <1>x, <2>5, <2>6 DEF OpenAiFlow, CallsInOrder
  <2> HIDE DEF items
  <2> QED
    BY <1>x, <2>1, <2>10, <2>11, <2>15, <2>16, <2>17, EventFlows
<1>8. ASSUME NEW items, IsItems(items), Write(items), UNCHANGED fault, said.finish # None, stage' # "deltas",
             DOMAIN said' = SaidField, said'.text = said.text, said'.reasoning = said.reasoning,
             said'.calls = said.calls, said'.usage = said.usage, said'.finish = said.finish
      PROVE  OpenAiFlow'
  <2>1. queue' = queue \o items /\ UNCHANGED <<consumer, acc, outcome>>
    BY <1>8 DEF Write
  <2>2. fault # "null" => Flow(Whole', acc', queue', outcome', closed', said', None)
    BY <1>w, <1>8, <2>1, FlowBehind DEF OpenAiFlow
  <2>3. ASSUME fault = "null", outcome = Reading
        PROVE  Head(queue').kind = "Err"
    <3>1. EndsIn(queue, "Err")
      BY <1>0, <1>8, <2>3 DEF StreamInv, Reading
    <3>2. queue # <<>> /\ Head(queue).kind = "Err"
      BY <2>3, <3>1, EndParts DEF OpenAiFlow
    <3>3. Head(queue') = Head(queue)
      <4>1. PICK S, T : queue \in Seq(S) /\ items \in Seq(T)
        BY <1>0, <1>8 DEF StreamInv, IsItems
      <4>2. queue \in Seq(S \cup T) /\ items \in Seq(S \cup T)
        BY <4>1
      <4> QED
        BY <2>1, <3>2, <4>2
    <3> QED
      BY <3>2, <3>3
  <2>4. SaidTyped(said') /\ CallsInOrder(said)'
    BY <1>0, <1>x, <1>8 DEF SaidTyped, OpenAiFlow, CallsInOrder
  <2> QED
    BY <1>8, <2>1, <2>2, <2>3, <2>4 DEF OpenAiFlow
<1>9. ASSUME NEW t \in Tokens, ReportUsage(t)
      PROVE  OpenAiFlow'
  <2>1. /\ Write(DataItems(Counts(t), NoDelta, None)) /\ UNCHANGED <<stage, fault>>
        /\ stage = "finished" /\ said' = [said EXCEPT !.late = Counts(t)]
    BY <1>9 DEF ReportUsage
  <2>2. IsItems(DataItems(Counts(t), NoDelta, None))
    BY DataItemsEnd, DeltasAreItems
  <2>3. /\ DOMAIN said' = SaidField /\ said'.text = said.text /\ said'.reasoning = said.reasoning
        /\ said'.calls = said.calls /\ said'.usage = said.usage /\ said'.finish = said.finish
    BY <1>0, <2>1 DEF SaidField
  <2> QED
    BY <1>0, <1>8, <2>1, <2>2, <2>3
<1>10. CASE Done
  <2>1. Write(<<Stop("stop")>>) /\ UNCHANGED <<said, fault>> /\ stage = "finished" /\ stage' = "done"
    BY <1>10 DEF Done, DoneItems
  <2> QED
    BY <1>0, <1>8, <2>1, Single
<1> QED
  BY <1>1, <1>2, <1>3, <1>4, <1>5, <1>6, <1>7, <1>9, <1>10 DEF Next, Server

(* What has been collected and what is under way make up what was said,    *)
(* along every behaviour in which at most one call is without an index.    *)
THEOREM FlowInvariance ==
  ASSUME UnindexedCalls \in {0, 1}
  PROVE  Spec => []OpenAiFlow
<1>1. Init => OpenAiFlow
  <2> SUFFICES ASSUME Init
               PROVE  OpenAiFlow
    OBVIOUS
  <2>1. /\ acc = EmptyAcc /\ queue = <<>> /\ outcome = Reading /\ said = NothingSaid
    BY DEF Init, CompletionInit, StreamInit
  <2>2. Flow(Whole, acc, queue, outcome, closed, said, None)
    BY <2>1, FlowStarts
  <2>3. DOMAIN said.calls = 0 .. 0 - 1 /\ said.usage = NoUsage
    BY <2>1 DEF NothingSaid
  <2>4. CallsInOrder(said)
    BY <2>3 DEF CallsInOrder
  <2>5. SaidTyped(said)
    BY <2>2 DEF Flow
  <2> QED
    BY <2>1, <2>2, <2>3, <2>4, <2>5 DEF OpenAiFlow
<1>2. OpenAiInv /\ OpenAiFlow /\ [Next]_vars => OpenAiFlow'
  BY StepFlows
<1> QED
  BY <1>1, <1>2, Invariance, PTL DEF Spec

(* What has been collected, at any moment and whoever collects it, is a    *)
(* beginning of what the server said: convert_delta and the consumers lose *)
(* no piece in the middle, double none, invent none and put none into      *)
(* another call.  Of a server that sends no index this is so only for one  *)
(* call: all calls without index are taken for the call of index 0.        *)
THEOREM CollectedIsSaid ==
  ASSUME UnindexedCalls \in {0, 1}
  PROVE  Spec => []CollectedWasSaid
<1>1. OpenAiFlow => CollectedWasSaid
  <2> SUFFICES ASSUME OpenAiFlow
               PROVE  CollectedWasSaid
    OBVIOUS
  <2>1. CASE fault # "null"
    BY <2>1 DEF OpenAiFlow, Flow, Sound, WasSaid, CollectedWasSaid
  <2>2. CASE fault = "null"
    <3>1. acc.content = <<>> /\ acc.reasoning = <<>> /\ DOMAIN acc.calls = {}
      BY <2>2 DEF OpenAiFlow, EmptyAcc
    <3>2. IsPrefix(<<>>, said.text) /\ IsPrefix(<<>>, said.reasoning)
      BY PrefixRefl DEF OpenAiFlow, SaidTyped
    <3> QED
      BY <3>1, <3>2 DEF CollectedWasSaid
  <2> QED
    BY <2>1, <2>2
<1> QED
  BY <1>1, FlowInvariance, PTL

(* Whoever has an answer has the answer to all that was said.              *)
LEMMA AnsweredInFull ==
  ASSUME OpenAiInv, OpenAiFlow, Answered
  PROVE  Answer(Whole, acc, said, None)
<1>1. Collected.tag # "err" /\ Reading # Collected
  BY DEF Reading, Collected
<1>2. fault # "null"
  BY <1>1 DEF OpenAiInv, StreamInv, Answered
<1> QED
  BY <1>2 DEF OpenAiFlow, Flow, Answered

(* An answer is the whole completion: all text and, of collect_response,   *)
(* all reasoning, every call with all its arguments, and the server's own  *)
(* reason, however the events were cut into reads, and whatever failed or  *)
(* was written behind the finish reason.                                   *)
THEOREM WholeAnswer ==
  ASSUME UnindexedCalls \in {0, 1}
  PROVE  Spec => []AnswerIsWhole
<1>1. OpenAiInv /\ OpenAiFlow => AnswerIsWhole
  BY AnsweredInFull DEF AnswerIsWhole, Answer, Finished
<1> QED
  BY <1>1, Invariance, FlowInvariance, PTL

(* The usage attached to the finish reason is in the answer, since the     *)
(* adapter yields it before the Stop that ends the consumer.               *)
THEOREM KeptUsage ==
  ASSUME UnindexedCalls \in {0, 1}
  PROVE  Spec => []UsageIsKept
<1>1. OpenAiInv /\ OpenAiFlow => UsageIsKept
  BY AnsweredInFull DEF UsageIsKept, Answer
<1> QED
  BY <1>1, Invariance, FlowInvariance, PTL

-----------------------------------------------------------------------------
(* The two routes. *)

(* The server's reason is one of Reason.                                   *)
LEMMA ReasonGiven == Spec => [](said.finish \in Reason \cup {None})
<1>1. Init => said.finish \in Reason \cup {None}
  BY DEF Init, CompletionInit, NothingSaid
<1>2. OpenAiInv /\ said.finish \in Reason \cup {None} /\ [Next]_vars => (said.finish \in Reason \cup {None})'
  <2> SUFFICES ASSUME OpenAiInv, said.finish \in Reason \cup {None}, [Next]_vars
               PROVE  said'.finish \in Reason \cup {None}
    OBVIOUS
  <2>0. DOMAIN said = SaidField
    BY DEF OpenAiInv, StreamInv
  <2>1. CASE UNCHANGED said
    BY <2>1
  <2>2. ASSUME NEW p \in Piece, SayText(p) \/ SayThought(p)
        PROVE  said'.finish = said.finish
    BY <2>0, <2>2 DEF SayText, SayThought, SaidField
  <2>3. ASSUME NEW id \in CallId, NEW name \in ToolName, StartCall(id, name)
        PROVE  said'.finish = said.finish
    BY <2>0, <2>3 DEF StartCall, SaidField
  <2>4. ASSUME NEW n \in DOMAIN said.calls, NEW p \in Piece, SayArgs(n, p)
        PROVE  said'.finish = said.finish
    BY <2>0, <2>4 DEF SayArgs, SaidField
  <2>5. ASSUME NEW reason \in Reason, NEW last \in Opt(Piece), NEW t \in Tokens, Finish(reason, last, t)
        PROVE  said'.finish = reason
    BY <2>0, <2>5 DEF Finish, SaidField
  <2>6. ASSUME NEW t \in Tokens, ReportUsage(t)
        PROVE  said'.finish = said.finish
    BY <2>0, <2>6 DEF ReportUsage, SaidField
  <2>7. Client \/ Connection \/ Done \/ Heartbeat \/ ErrorEvent \/ MalformedEvent \/ UNCHANGED vars
          => UNCHANGED said
    BY DEF Client, Connection, Cut, EndOfBody, Fails, Done, Heartbeat, ErrorEvent, MalformedEvent,
           vars, serverVars
  <2> QED
    BY <2>1, <2>2, <2>3, <2>4, <2>5, <2>6, <2>7 DEF Next, Server
<1> QED
  BY <1>1, <1>2, Invariance, PTL DEF Spec

(* Calls that have an id, a name and arguments go through                  *)
(* parse_openai_response as they are.                                      *)
LEMMA SameCalls ==
  ASSUME SaidTyped(said), CallsInOrder(said)
  PROVE  CallsIn(ToolCalls(said)) = ToolCalls(said) /\ ToolCalls(said) \in Seq(CallType)
<1>1. PICK m \in Nat : DOMAIN said.calls = 0 .. m - 1
  BY DEF CallsInOrder
<1>2. \A i \in DOMAIN said.calls : said.calls[i] \in CallType
  BY DEF SaidTyped
<1> DEFINE calls == ToolCalls(said)
<1>3. calls \in Seq(CallType)
  <2>1. calls = InOrder(said.calls)
    BY DEF ToolCalls
  <2> HIDE DEF calls
  <2>2. DOMAIN said.calls \subseteq 0 .. m - 1
    BY <1>1
  <2> QED
    BY <1>2, <2>1, <2>2, InOrderIs
<1> HIDE DEF calls
<1> DEFINE call(c) == [id |-> c.id, name |-> c.name, args |-> IF c.args = None THEN EmptyObject ELSE c.args]
           kept(c) == IF c.id # None /\ c.name # None THEN <<call(c)>> ELSE <<>>
           s == [n \in DOMAIN calls |-> kept(calls[n])]
<1>4. ASSUME NEW c \in CallType
      PROVE  kept(c) = <<c>>
  <2>1. c.id # None /\ c.name # None /\ c.args # None
    BY NoneAssumption DEF CallType
  <2>2. call(c) = c
    BY <2>1 DEF CallType
  <2> HIDE DEF call
  <2> QED
    BY <2>1, <2>2
<1>5. CallsIn(calls) = FlattenSeq(s)
  BY DEF CallsIn
<1> HIDE DEF kept
<1>6. s = [n \in 1 .. Len(calls) |-> <<calls[n]>>]
  <2>1. DOMAIN calls = 1 .. Len(calls) /\ \A n \in 1 .. Len(calls) : calls[n] \in CallType
    BY <1>3
  <2> QED
    BY <1>4, <2>1
<1> HIDE DEF s
<1>7. FlattenSeq(s) = calls
  BY <1>3, <1>6, FlattenSingles
<1> QED
  BY <1>3, <1>5, <1>7 DEF calls

(* The reasons of the other protocol that FinishReason::from_str also      *)
(* translates, parse_openai_response does not.                             *)
ForeignReason == {"end_turn", "max_tokens", "tool_use"}

(* Every other reason is translated alike.                                 *)
LEMMA SameReason ==
  ASSUME NEW reason, reason # None, reason \notin ForeignReason
  PROVE  FinishReason(reason) = OnceReason(reason)
BY DEF FinishReason, OnceReason, ForeignReason

(* A completion makes the same answer whether parse_sse_stream and         *)
(* collect_response make it of the events or parse_response of the one     *)
(* document: the same text, reasoning, calls in the same order, reason     *)
(* and usage; and one with a null error is refused on both routes.  Of     *)
(* servers that finish with one of their own reasons, not with one of the  *)
(* other protocol.                                                         *)
THEOREM RoutesMakeOneAnswer ==
  ASSUME UnindexedCalls \in {0, 1}, Reason \cap ForeignReason = {}
  PROVE  Spec => []RoutesAgree
<1>1. OpenAiInv /\ OpenAiFlow /\ said.finish \in Reason \cup {None} => RoutesAgree
  <2> SUFFICES ASSUME OpenAiInv, OpenAiFlow, said.finish \in Reason \cup {None},
                      Whole, Finished, fault \in {"none", "null"}, outcome # Reading
               PROVE  LET once == ParseOpenAiResponse(Document)
                      IN  /\ Answered <=> once.tag = "ok"
                          /\ Answered => /\ acc.content = once.content
                                         /\ acc.reasoning = once.reasoning
                                         /\ acc.signature = once.signature
                                         /\ ToolCalls(acc) = once.calls
                                         /\ trailing \/ acc.usage = once.usage
                                         /\ acc.finish = once.finish
    BY DEF RoutesAgree
  <2> DEFINE once == ParseOpenAiResponse(Document)
  <2>1. CASE fault = "null"
    <3>1. once = Refused
      BY <2>1 DEF ParseOpenAiResponse, Document
    <3>2. once.tag # "ok"
      BY <3>1 DEF Refused
    <3>3. ~ Answered
      BY <2>1 DEF OpenAiInv, StreamInv, Answered, Collected
    <3> HIDE DEF once
    <3> QED
      BY <3>2, <3>3 DEF once
  <2>2. CASE fault = "none"
    <3>1. Answered
      BY <2>2 DEF OpenAiInv, StreamInv, Answering, Answered, Finished
    <3>2. /\ acc.content = said.text /\ acc.reasoning = said.reasoning
          /\ acc.calls = said.calls /\ acc.usage = said.usage
          /\ acc.signature = None /\ acc.finish = FinishReason(said.finish)
      BY <3>1, AnsweredInFull DEF Answer, Finished
    <3>3. /\ once.tag = "ok" /\ once.content = said.text /\ once.reasoning = said.reasoning
          /\ once.signature = None /\ once.calls = CallsIn(ToolCalls(said))
          /\ once.usage = (IF trailing THEN said.late ELSE said.usage)
          /\ once.finish = OnceReason(said.finish)
      <4> DEFINE message == [content |-> said.text, reasoning |-> said.reasoning,
                             tool_calls |-> ToolCalls(said)]
      <4>1. Document.error = FALSE /\ Document.choices = <<[message |-> message, finish_reason |-> said.finish]>>
            /\ Document.usage = IF trailing THEN said.late ELSE said.usage
        BY <2>2 DEF Document
      <4>2. message # None
        <5>1. SaidTyped(said) /\ CallsInOrder(said)
          BY DEF OpenAiFlow
        <5>2. ToolCalls(said) \in Seq(CallType) /\ said.text \in Seq(Piece) /\ said.reasoning \in Seq(Piece)
          BY <5>1, SameCalls DEF SaidTyped
        <5>3. CallType \subseteq WireCall
          BY DEF CallType, WireCall, Opt
        <5>4. ToolCalls(said) \in Seq(WireCall)
          BY <5>2, <5>3
        <5> QED
          BY <5>2, <5>4, MessageAssumption DEF Message
      <4> QED
        BY <4>1, <4>2 DEF ParseOpenAiResponse, Response
    <3>4. once.calls = ToolCalls(acc)
      <4>1. SaidTyped(said) /\ CallsInOrder(said)
        BY DEF OpenAiFlow
      <4>2. ToolCalls(acc) = ToolCalls(said)
        BY <3>2 DEF ToolCalls
      <4> QED
        BY <3>3, <4>1, <4>2, SameCalls
    <3>5. once.finish = acc.finish
      BY <3>2, <3>3, SameReason DEF Finished
    <3> HIDE DEF once
    <3> QED
      BY <3>1, <3>2, <3>3, <3>4, <3>5 DEF once
  <2> QED
    BY <2>1, <2>2
<1> QED
  BY <1>1, Invariance, FlowInvariance, ReasonGiven, PTL

==============================================================================
