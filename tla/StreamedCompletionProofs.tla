----------------------- MODULE StreamedCompletionProofs -----------------------
(***************************************************************************)
(* What the proofs about all streamed protocols share: an invariant of the *)
(* queue between adapter and consumer, and that the consumer, the          *)
(* connection and every event of the right kind keep it.  Of the items of  *)
(* a queue only their kinds matter: which comes first of those that end a  *)
(* consumer.                                                               *)
(***************************************************************************)
EXTENDS StreamedCompletion, Foundations

ContentKind == {"Text", "Thought", "ThinkingSignature", "ToolCall", "Usage"}

IsItems(q) == \E S : q \in Seq(S)

(* Items that end no consumer.                                             *)
Tame(q) == IsItems(q) /\ \A n \in 1 .. Len(q) : q[n].kind \in ContentKind

(* The first item that ends a consumer is there, and of that kind.         *)
EndsIn(q, kind) ==
  /\ IsItems(q)
  /\ \E n \in 1 .. Len(q) : /\ q[n].kind = kind
                            /\ \A m \in 1 .. n - 1 : q[m].kind \in ContentKind

-----------------------------------------------------------------------------
(* Such queues, put together and taken apart. *)

(* Concatenation, by position.                                             *)
LEMMA Concatenation ==
  ASSUME NEW p, NEW q, IsItems(p), IsItems(q)
  PROVE  /\ IsItems(p \o q)
         /\ Len(p) \in Nat /\ Len(q) \in Nat /\ Len(p \o q) = Len(p) + Len(q)
         /\ \A n \in 1 .. Len(p) : (p \o q)[n] = p[n]
         /\ \A n \in 1 .. Len(q) : (p \o q)[Len(p) + n] = q[n]
<1>1. PICK S : p \in Seq(S)
  BY DEF IsItems
<1>2. PICK T : q \in Seq(T)
  BY DEF IsItems
<1>3. p \in Seq(S \cup T) /\ q \in Seq(S \cup T)
  BY <1>1, <1>2
<1>4. p \o q \in Seq(S \cup T)
  BY <1>3
<1>5. IsItems(p \o q)
  BY <1>4 DEF IsItems
<1> QED
  BY <1>3, <1>5

(* Items that end no consumer, put behind such items.                      *)
LEMMA TameThenTame ==
  ASSUME NEW p, NEW q, Tame(p), Tame(q)
  PROVE  Tame(p \o q)
<1>1. IsItems(p) /\ IsItems(q)
  BY DEF Tame
<1> DEFINE r == p \o q
<1>2. /\ IsItems(r)
      /\ Len(p) \in Nat /\ Len(q) \in Nat /\ Len(r) = Len(p) + Len(q)
      /\ \A n \in 1 .. Len(p) : r[n] = p[n]
      /\ \A n \in 1 .. Len(q) : r[Len(p) + n] = q[n]
  BY <1>1, Concatenation
<1> HIDE DEF r
<1>3. ASSUME NEW n \in 1 .. Len(r)
      PROVE  r[n].kind \in ContentKind
  <2>1. CASE n \in 1 .. Len(p)
    BY <1>2, <2>1 DEF Tame
  <2>2. CASE n \notin 1 .. Len(p)
    <3>1. n - Len(p) \in 1 .. Len(q) /\ n = Len(p) + (n - Len(p))
      BY <1>2, <2>2
    <3>2. r[n] = q[n - Len(p)]
      BY <1>2, <3>1
    <3> QED
      BY <3>1, <3>2 DEF Tame
  <2> QED
    BY <2>1, <2>2
<1> QED
  BY <1>2, <1>3 DEF Tame, r

(* The end of a consumer stays the first one behind items that end none.   *)
LEMMA TameThenEnd ==
  ASSUME NEW p, NEW q, NEW kind, Tame(p), EndsIn(q, kind)
  PROVE  EndsIn(p \o q, kind)
<1>1. IsItems(p) /\ IsItems(q)
  BY DEF Tame, EndsIn
<1> DEFINE r == p \o q
<1>2. /\ IsItems(r)
      /\ Len(p) \in Nat /\ Len(q) \in Nat /\ Len(r) = Len(p) + Len(q)
      /\ \A n \in 1 .. Len(p) : r[n] = p[n]
      /\ \A n \in 1 .. Len(q) : r[Len(p) + n] = q[n]
  BY <1>1, Concatenation
<1> HIDE DEF r
<1>3. PICK k \in 1 .. Len(q) : q[k].kind = kind /\ \A m \in 1 .. k - 1 : q[m].kind \in ContentKind
  BY DEF EndsIn
<1>4. Len(p) + k \in 1 .. Len(r) /\ r[Len(p) + k].kind = kind
  BY <1>2, <1>3
<1>5. ASSUME NEW n \in 1 .. Len(p) + k - 1
      PROVE  r[n].kind \in ContentKind
  <2>1. CASE n \in 1 .. Len(p)
    BY <1>2, <2>1 DEF Tame
  <2>2. CASE n \notin 1 .. Len(p)
    <3>1. /\ n - Len(p) \in 1 .. k - 1 /\ n - Len(p) \in 1 .. Len(q)
          /\ n = Len(p) + (n - Len(p))
      BY <1>2, <2>2
    <3>2. r[n] = q[n - Len(p)]
      BY <1>2, <3>1
    <3> QED
      BY <1>3, <3>1, <3>2
  <2> QED
    BY <2>1, <2>2
<1> QED
  BY <1>2, <1>4, <1>5 DEF EndsIn, r

(* What is put behind the end of a consumer does not matter.               *)
LEMMA EndThenAny ==
  ASSUME NEW p, NEW q, NEW kind, EndsIn(p, kind), IsItems(q)
  PROVE  EndsIn(p \o q, kind)
<1>1. IsItems(p)
  BY DEF EndsIn
<1> DEFINE r == p \o q
<1>2. /\ IsItems(r)
      /\ Len(p) \in Nat /\ Len(q) \in Nat /\ Len(r) = Len(p) + Len(q)
      /\ \A n \in 1 .. Len(p) : r[n] = p[n]
  BY <1>1, Concatenation
<1> HIDE DEF r
<1>3. PICK k \in 1 .. Len(p) : p[k].kind = kind /\ \A m \in 1 .. k - 1 : p[m].kind \in ContentKind
  BY DEF EndsIn
<1>4. k \in 1 .. Len(r) /\ r[k].kind = kind
  BY <1>2, <1>3
<1>5. \A n \in 1 .. k - 1 : n \in 1 .. Len(p)
  BY <1>2
<1>6. \A n \in 1 .. k - 1 : r[n].kind \in ContentKind
  BY <1>2, <1>3, <1>5
<1> QED
  BY <1>2, <1>4, <1>6 DEF EndsIn, r

(* A list of one item, and of none.                                        *)
LEMMA Single ==
  ASSUME NEW x
  PROVE  /\ IsItems(<<x>>)
         /\ x.kind \in ContentKind => Tame(<<x>>)
         /\ \A kind : x.kind = kind => EndsIn(<<x>>, kind)
<1>1. <<x>> \in Seq({x}) /\ Len(<<x>>) = 1 /\ <<x>>[1] = x
  OBVIOUS
<1>2. IsItems(<<x>>)
  BY <1>1 DEF IsItems
<1> QED
  BY <1>1, <1>2 DEF Tame, EndsIn

(* No items at all end no consumer.                                        *)
LEMMA Nothing == Tame(<<>>) /\ IsItems(<<>>)
<1>1. << >> \in Seq({}) /\ Len(<< >>) = 0
  OBVIOUS
<1> QED
  BY <1>1 DEF Tame, IsItems

(* An item that is there only in some cases.                               *)
LEMMA IfTame ==
  ASSUME NEW cond, NEW x, x.kind \in ContentKind
  PROVE  Tame(If(cond, x))
<1>1. CASE cond
  BY <1>1, Single DEF If
<1>2. CASE ~ cond
  BY <1>2, Nothing DEF If
<1> QED
  BY <1>1, <1>2

(* The head and the tail.                                                  *)
LEMMA Parts ==
  ASSUME NEW q, IsItems(q), q # <<>>
  PROVE  /\ IsItems(Tail(q))
         /\ Len(q) \in Nat /\ Len(q) > 0 /\ Len(Tail(q)) = Len(q) - 1
         /\ Head(q) = q[1]
         /\ \A n \in 1 .. Len(q) - 1 : Tail(q)[n] = q[n + 1]
<1>1. PICK S : q \in Seq(S)
  BY DEF IsItems
<1>2. Tail(q) \in Seq(S)
  BY <1>1
<1>3. IsItems(Tail(q))
  BY <1>2 DEF IsItems
<1> QED
  BY <1>1, <1>3

(* Of items that end no consumer, neither the head nor the tail does.      *)
LEMMA TameParts ==
  ASSUME NEW q, Tame(q), q # <<>>
  PROVE  Head(q).kind \in ContentKind /\ Tame(Tail(q))
<1> DEFINE t == Tail(q)
<1>1. /\ IsItems(t)
      /\ Len(q) \in Nat /\ Len(q) > 0 /\ Len(t) = Len(q) - 1
      /\ Head(q) = q[1]
      /\ \A n \in 1 .. Len(q) - 1 : t[n] = q[n + 1]
  BY Parts DEF Tame
<1> HIDE DEF t
<1>2. ASSUME NEW n \in 1 .. Len(t)
      PROVE  t[n].kind \in ContentKind
  <2>1. n \in 1 .. Len(q) - 1 /\ n + 1 \in 1 .. Len(q)
    BY <1>1
  <2> QED
    BY <1>1, <2>1 DEF Tame
<1>3. 1 \in 1 .. Len(q)
  BY <1>1
<1> QED
  BY <1>1, <1>2, <1>3 DEF Tame, t

(* The end of a consumer is the head, or still in the tail.                *)
LEMMA EndParts ==
  ASSUME NEW q, NEW kind, EndsIn(q, kind)
  PROVE  /\ q # <<>>
         /\ Head(q).kind = kind \/ (Head(q).kind \in ContentKind /\ EndsIn(Tail(q), kind))
<1>1. PICK k \in 1 .. Len(q) : q[k].kind = kind /\ \A m \in 1 .. k - 1 : q[m].kind \in ContentKind
  BY DEF EndsIn
<1>2. q # <<>>
  BY <1>1
<1> DEFINE t == Tail(q)
<1>3. /\ IsItems(t)
      /\ Len(q) \in Nat /\ Len(q) > 0 /\ Len(t) = Len(q) - 1
      /\ Head(q) = q[1]
      /\ \A n \in 1 .. Len(q) - 1 : t[n] = q[n + 1]
  BY <1>2, Parts DEF EndsIn
<1> HIDE DEF t
<1>4. CASE k = 1
  BY <1>1, <1>2, <1>3, <1>4
<1>5. CASE k # 1
  <2>1. 1 \in 1 .. k - 1 /\ k - 1 \in 1 .. Len(t) /\ k - 1 \in 1 .. Len(q) - 1
    BY <1>3, <1>5
  <2>2. Head(q).kind \in ContentKind
    BY <1>1, <1>3, <2>1
  <2>3. t[k - 1].kind = kind
    BY <1>1, <1>3, <2>1
  <2>4. ASSUME NEW m \in 1 .. (k - 1) - 1
        PROVE  t[m].kind \in ContentKind
    <3>1. m \in 1 .. Len(q) - 1 /\ m + 1 \in 1 .. k - 1
      BY <1>3
    <3> QED
      BY <1>1, <1>3, <3>1
  <2>5. EndsIn(t, kind)
    BY <1>3, <2>1, <2>3, <2>4 DEF EndsIn
  <2> QED
    BY <1>2, <2>2, <2>5 DEF t
<1> QED
  BY <1>4, <1>5

-----------------------------------------------------------------------------
(* The invariant. *)

(* The parts of the record of what the server said.                        *)
SaidField == {"text", "reasoning", "calls", "usage", "late", "finish"}
Broken == fault \in {"error", "malformed", "cut"} /\ early
Answering == said.finish # None /\ (fault = "none" \/ ~ early)

(* Until the server finishes or fails, nothing in the queue ends a         *)
(* consumer.  Once it has failed before the finish reason, an error is the *)
(* first thing that does; once it has finished before it failed, the Stop  *)
(* is.  Of a server with null errors there is nothing or an error first.   *)
StreamInv ==
  /\ DOMAIN said = SaidField
  /\ consumer \in Consumers
  /\ IsItems(queue)
  /\ outcome = Reading \/ outcome = Collected \/ outcome.tag = "err"
  /\ fault = "none" /\ said.finish = None =>
       Tame(queue) /\ (outcome = Reading \/ (outcome = Collected /\ closed))
  /\ Broken => outcome.tag = "err" \/ (outcome = Reading /\ EndsIn(queue, "Err"))
  /\ fault = "null" =>
       /\ early
       /\ \/ outcome.tag = "err"
          \/ outcome = Reading /\ EndsIn(queue, "Err")
          \/ outcome = Reading /\ queue = <<>> /\ ~ closed /\ stage # "done" /\ said.finish = None
  /\ Answering => outcome = Collected \/ (outcome = Reading /\ EndsIn(queue, "Stop"))
  /\ fault # "none" /\ ~ early => said.finish # None

(* A consumer that polls a queue of either kind.                           *)
LEMMA ClientKeeps ==
  ASSUME StreamInv, Client
  PROVE  StreamInv'
<1>0. /\ UNCHANGED <<said, stage, fault, early, closed, consumer>>
      /\ outcome = Reading
  BY DEF Client, serverVars, Consume, TakeErr, TakeContent, TakeErrorChunk, TakeStop, TakeEnd, Polls
<1>t. Reading.tag # "err" /\ Collected.tag # "err" /\ Reading # Collected /\ \A e : Failed(e).tag = "err"
  BY DEF Reading, Collected, Failed
<1>1. CASE TakeEnd
  <2>1. queue' = queue /\ queue = <<>> /\ closed /\ outcome' = Collected
    BY <1>1 DEF TakeEnd
  <2>2. \A kind : ~ EndsIn(queue, kind)
    BY <2>1, EndParts
  <2> QED
    BY <1>0, <1>t, <2>1, <2>2 DEF StreamInv, Broken, Answering
<1>2. CASE ~ TakeEnd
  <2>1. queue # <<>> /\ queue' = Tail(queue)
    BY <1>2 DEF Client, Consume, TakeErr, TakeContent, TakeErrorChunk, TakeStop, Polls
  <2>2. IsItems(queue')
    BY <2>1, Parts DEF StreamInv
  <2>3. Head(queue).kind \in ContentKind => outcome' = Reading
    BY <1>0, <1>2 DEF Client, Consume, TakeErr, TakeContent, TakeErrorChunk, TakeStop, Polls, ContentKind
  <2>4. Head(queue).kind = "Err" => outcome'.tag = "err"
    BY <1>2, <1>t DEF Client, Consume, TakeErr, TakeContent, TakeErrorChunk, TakeStop, Polls
  <2>5. Head(queue).kind = "Stop" => outcome' = Collected
    BY <1>2 DEF Client, Consume, TakeErr, TakeContent, TakeErrorChunk, TakeStop, Polls
  <2>6. outcome' = Reading \/ outcome' = Collected \/ outcome'.tag = "err"
    BY <1>0, <1>2, <1>t, ConsumerAssumption
    DEF StreamInv, Client, Consume, TakeErr, TakeContent, TakeErrorChunk, TakeStop, Polls
  <2>7. Tame(queue) => Tame(queue') /\ outcome' = Reading
    BY <2>1, <2>3, TameParts
  <2>8. EndsIn(queue, "Err") => outcome'.tag = "err" \/ (outcome' = Reading /\ EndsIn(queue', "Err"))
    BY <2>1, <2>3, <2>4, EndParts
  <2>9. EndsIn(queue, "Stop") => outcome' = Collected \/ (outcome' = Reading /\ EndsIn(queue', "Stop"))
    BY <2>1, <2>3, <2>5, EndParts
  <2> QED
    BY <1>0, <1>t, <2>1, <2>2, <2>6, <2>7, <2>8, <2>9 DEF StreamInv, Broken, Answering
<1> QED
  BY <1>1, <1>2

(* An event: before the finish reason it makes no item that ends a         *)
(* consumer, with it the Stop first, and an error whatever it is when      *)
(* errors are null.                                                        *)
LEMMA WriteKeeps ==
  ASSUME StreamInv, NEW items, Write(items), IsItems(items),
         UNCHANGED <<fault, early>>, DOMAIN said' = SaidField,
         said'.finish = said.finish \/ said.finish = None,
         fault = "none" /\ said'.finish = None => Tame(items),
         fault = "none" /\ said.finish = None /\ said'.finish # None => EndsIn(items, "Stop"),
         fault = "null" => 
           EndsIn(items, "Err") \/ said.finish # None \/ (items = <<>> /\ UNCHANGED <<said, stage>>)
  PROVE  StreamInv'
<1>t. Reading.tag # "err" /\ Collected.tag # "err" /\ Reading # Collected
  BY DEF Reading, Collected
<1>1. ~ closed /\ ~ closed' /\ UNCHANGED <<consumer, outcome>> /\ queue' = queue \o items
  BY DEF Write
<1>2. IsItems(queue) /\ IsItems(queue')
  BY <1>1, Concatenation DEF StreamInv
<1>3. \A kind : EndsIn(queue, kind) => EndsIn(queue', kind)
  BY <1>1, EndThenAny
<1>4. Tame(queue) /\ Tame(items) => Tame(queue')
  BY <1>1, TameThenTame
<1>5. \A kind : Tame(queue) /\ EndsIn(items, kind) => EndsIn(queue', kind)
  BY <1>1, TameThenEnd
<1>6. queue = <<>> => Tame(queue) /\ (items = <<>> => queue' = <<>>)
  BY <1>1, Nothing
<1>7. fault = "none" /\ said'.finish = None => Tame(queue') /\ outcome' = Reading
  BY <1>1, <1>4 DEF StreamInv
<1>8. Broken' => outcome'.tag = "err" \/ (outcome' = Reading /\ EndsIn(queue', "Err"))
  BY <1>1, <1>3 DEF StreamInv, Broken
<1>9. fault' = "null" =>
        /\ early'
        /\ \/ outcome'.tag = "err"
           \/ outcome' = Reading /\ EndsIn(queue', "Err")
           \/ outcome' = Reading /\ queue' = <<>> /\ ~ closed' /\ stage' # "done" /\ said'.finish = None
  BY <1>1, <1>3, <1>5, <1>6 DEF StreamInv
<1>10. Answering' => outcome' = Collected \/ (outcome' = Reading /\ EndsIn(queue', "Stop"))
  <2>1. CASE said.finish # None
    BY <1>1, <1>3, <2>1 DEF StreamInv, Answering
  <2>2. CASE said.finish = None
    BY <1>1, <1>5, <2>2 DEF StreamInv, Answering
  <2> QED
    BY <2>1, <2>2
<1> QED
  BY <1>1, <1>2, <1>7, <1>8, <1>9, <1>10 DEF StreamInv

(* A fault: an error for the consumer, behind whatever is there.           *)
LEMMA FailureKeeps ==
  ASSUME StreamInv, NEW what \in {"error", "malformed", "cut"}, Fails(what), NEW e,
         ~ closed, queue' = queue \o <<Err(e)>>, UNCHANGED <<consumer, outcome>>
  PROVE  StreamInv'
<1>1. fault = "none" /\ fault' = what /\ early' = (said.finish = None) /\ UNCHANGED <<said, stage>>
  BY DEF Fails
<1>2. IsItems(<<Err(e)>>) /\ EndsIn(<<Err(e)>>, "Err")
  BY Single DEF Err
<1>3. IsItems(queue')
  BY <1>2, Concatenation DEF StreamInv
<1>4. Tame(queue) => EndsIn(queue', "Err")
  BY <1>2, TameThenEnd
<1>5. EndsIn(queue, "Stop") => EndsIn(queue', "Stop")
  BY <1>2, EndThenAny
<1> QED
  BY <1>1, <1>3, <1>4, <1>5 DEF StreamInv, Broken, Answering

(* Accidents and heartbeats.                                               *)
LEMMA AccidentKeeps ==
  ASSUME StreamInv, Heartbeat \/ ErrorEvent \/ MalformedEvent
  PROVE  StreamInv'
<1>1. CASE Heartbeat
  <2>1. Write(<<>>) /\ UNCHANGED <<said, stage, fault, early>>
    BY <1>1 DEF Heartbeat
  <2> QED
    BY <2>1, Nothing, WriteKeeps DEF StreamInv
<1>2. CASE ErrorEvent
  BY <1>2, FailureKeeps DEF ErrorEvent, Write
<1>3. CASE MalformedEvent
  BY <1>3, FailureKeeps DEF MalformedEvent, Write
<1> QED
  BY <1>1, <1>2, <1>3

(* A cut fails the body of the response, an early end closes it.           *)
LEMMA ConnectionKeeps ==
  ASSUME StreamInv, Connection
  PROVE  StreamInv'
<1>1. CASE Cut
  <2>1. /\ ~ closed /\ Fails("cut") /\ UNCHANGED <<consumer, outcome>>
        /\ queue' = Append(queue, Err(StreamError))
    BY <1>1 DEF Cut
  <2>2. queue' = queue \o <<Err(StreamError)>>
    <3>1. PICK S : queue \in Seq(S)
      BY DEF StreamInv, IsItems
    <3>2. queue \in Seq(S \cup {Err(StreamError)}) /\ Err(StreamError) \in S \cup {Err(StreamError)}
      BY <3>1
    <3> QED
      BY <2>1, <3>2
  <2> QED
    BY <2>1, <2>2, FailureKeeps
<1>2. CASE EndOfBody
  <2>1. ~ closed /\ UNCHANGED <<consumer, queue, outcome>>
    BY <1>2 DEF EndOfBody
  <2>2. CASE stage = "done"
    <3>1. UNCHANGED <<said, stage, fault, early>>
      BY <1>2, <2>2 DEF EndOfBody
    <3> QED
      BY <2>1, <2>2, <3>1 DEF StreamInv, Broken, Answering
  <2>3. CASE stage # "done"
    <3>1. fault = "none" /\ fault' = "eof" /\ early' = (said.finish = None) /\ UNCHANGED <<said, stage>>
      BY <1>2, <2>3 DEF EndOfBody, Fails
    <3> QED
      BY <2>1, <3>1 DEF StreamInv, Broken, Answering
  <2> QED
    BY <2>2, <2>3
<1> QED
  BY <1>1, <1>2 DEF Connection

(* What follows from the invariant.                                        *)
LEMMA StreamInvSuffices ==
  ASSUME StreamInv
  PROVE  BrokenStreamIsNoAnswer /\ LateFaultIsHarmless
<1>1. Reading.tag # "err" /\ Collected.tag # "err" /\ Reading # Collected
  BY DEF Reading, Collected
<1> QED
  BY <1>1 DEF StreamInv, Broken, Answering, BrokenStreamIsNoAnswer, LateFaultIsHarmless, Answered

-----------------------------------------------------------------------------
CallType == [id : CallId, name : ToolName, args : Seq(Piece)]

(* What an answer in the making is, and what a server can have said.       *)
AnswerTyped(a) ==
  /\ DOMAIN a = {"content", "reasoning", "signature", "calls", "usage", "finish"}
  /\ a.content \in Seq(Piece) /\ a.reasoning \in Seq(Piece)
  /\ \A i \in DOMAIN a.calls : a.calls[i] \in CallType

SaidTyped(s) ==
  /\ DOMAIN s = SaidField
  /\ s.text \in Seq(Piece) /\ s.reasoning \in Seq(Piece)
  /\ s.calls = [i \in DOMAIN s.calls |-> s.calls[i]]
  /\ DOMAIN s.calls \subseteq Index
  /\ \A i \in DOMAIN s.calls : s.calls[i] \in CallType
  /\ s.usage \in [UsageField -> Opt(Nat)]

(* CollectedWasSaid, of any answer and any record.                         *)
WasSaid(a, s) ==
  /\ IsPrefix(a.content, s.text)
  /\ IsPrefix(a.reasoning, s.reasoning)
  /\ \A i \in DOMAIN a.calls :
       /\ i \in DOMAIN s.calls
       /\ a.calls[i].id = s.calls[i].id
       /\ a.calls[i].name = s.calls[i].name
       /\ IsPrefix(a.calls[i].args, s.calls[i].args)

Sound(a, s) == AnswerTyped(a) /\ WasSaid(a, s)

(* What a consumer makes of an item, collect_response if w, another one    *)
(* if not.                                                                 *)
Taken(w, a, c) == IF w \/ c.kind = "Text" THEN Absorb(a, c) ELSE a

(* The answer holds all that was said, and the signature sig.              *)
Full(w, a, s, sig) ==
  /\ AnswerTyped(a)
  /\ a.content = s.text
  /\ a.finish = "Stop"
  /\ IF w THEN a.reasoning = s.reasoning /\ a.calls = s.calls /\ a.usage = s.usage /\ a.signature = sig
          ELSE a.reasoning = <<>> /\ DOMAIN a.calls = {}

(* The first k answers on the way through the items of q, sound ones only, *)
(* over items none of which ends a consumer but an error.                  *)
IsPath(w, path, q, k, s) ==
  /\ \A n \in 1 .. k : Sound(path[n], s)
  /\ \A n \in 1 .. k - 1 : /\ q[n].kind \in ContentKind \cup {"Err"}
                           /\ path[n + 1] = Taken(w, path[n], q[n])

(* From the answer a the items of q before the k-th lead to the answer b.  *)
Leads(w, a, q, k, b, s) ==
  /\ k \in 1 .. Len(q) + 1
  /\ \E path : path[1] = a /\ path[k] = b /\ IsPath(w, path, q, k, s)

(* The k-th item is the Stop of what was said; without a reason there is   *)
(* none, and k is behind the last item.                                    *)
Ending(q, k, s) ==
  IF s.finish = None THEN k = Len(q) + 1 ELSE k <= Len(q) /\ q[k] = Stop(s.finish)

(* The answer given when all is taken.                                     *)
Answer(w, a, s, sig) ==
  /\ a.content = s.text
  /\ w => /\ a.reasoning = s.reasoning /\ a.calls = s.calls /\ a.usage = s.usage /\ a.signature = sig
          /\ a.finish = IF s.finish = None THEN "Stop" ELSE FinishReason(s.finish)

(* What is in the queue q leads from the answer a to a full one, or a      *)
(* consumer that is through has it.                                        *)
Flow(w, a, q, o, c, s, sig) ==
  /\ SaidTyped(s)
  /\ IsItems(q)
  /\ Sound(a, s)
  /\ o = Reading => \E k, b : Leads(w, a, q, k, b, s) /\ Full(w, b, s, sig) /\ Ending(q, k, s)
  /\ o = Collected => Answer(w, a, s, sig) /\ (s.finish = None => c)

(* Items that a full answer to s takes to a full answer to t.              *)
Carries(w, items, s, sig, t, next) ==
  \A a : Full(w, a, s, sig) =>
    \E k, b : Leads(w, a, items, k, b, t) /\ Full(w, b, t, next) /\ Ending(items, k, t)

(* What was sound stays so.                                                *)
Grows(s, t) == \A a : Sound(a, s) => Sound(a, t)

-----------------------------------------------------------------------------

(* A list and the empty one are prefixes of the list.                      *)
LEMMA PrefixRefl ==
  ASSUME NEW t \in Seq(Piece)
  PROVE  IsPrefix(t, t) /\ IsPrefix(<<>>, t)
BY DEF IsPrefix

(* A prefix of a list is a prefix of the list grown by a piece.            *)
LEMMA PrefixGrows ==
  ASSUME NEW t \in Seq(Piece), NEW p \in Piece, NEW r \in Seq(Piece), IsPrefix(r, t)
  PROVE  IsPrefix(r, Append(t, p))
<1>1. Len(r) <= Len(t) /\ Len(r) \in Nat /\ Len(t) \in Nat
  BY DEF IsPrefix
<1>2. SubSeq(Append(t, p), 1, Len(r)) = SubSeq(t, 1, Len(r))
  BY <1>1
<1> QED
  BY <1>1, <1>2 DEF IsPrefix

(* Who has collected all has collected only what was said.                 *)
LEMMA FullIsSound ==
  ASSUME NEW w, NEW a, NEW s, NEW sig, SaidTyped(s), Full(w, a, s, sig)
  PROVE  Sound(a, s)
<1>1. IsPrefix(a.content, s.text) /\ IsPrefix(a.reasoning, s.reasoning)
  BY PrefixRefl DEF Full, SaidTyped
<1>2. ASSUME NEW i \in DOMAIN a.calls
      PROVE  a.calls = s.calls /\ IsPrefix(a.calls[i].args, s.calls[i].args)
  BY PrefixRefl DEF Full, AnswerTyped, CallType
<1> QED
  BY <1>1, <1>2 DEF Full, Sound, WasSaid

-----------------------------------------------------------------------------
(* Paths *)

(* No item leads nowhere.                                                  *)
LEMMA LeadsNowhere ==
  ASSUME NEW w, NEW a, NEW s, NEW q, IsItems(q), Sound(a, s)
  PROVE  Leads(w, a, q, 1, a, s)
<1>1. Len(q) \in Nat
  BY DEF IsItems
<1> DEFINE path == [n \in {1} |-> a]
<1>2. path[1] = a /\ \A n \in 1 .. 1 : Sound(path[n], s)
  OBVIOUS
<1> HIDE DEF path
<1>3. 1 .. 1 - 1 = {}
  OBVIOUS
<1> QED
  BY <1>1, <1>2, <1>3 DEF Leads, IsPath

(* One item is one step of the way.                                        *)
LEMMA LeadsOne ==
  ASSUME NEW w, NEW a, NEW x, NEW s, Sound(a, s), Sound(Taken(w, a, x), s),
         x.kind \in ContentKind \cup {"Err"}
  PROVE  Leads(w, a, <<x>>, 2, Taken(w, a, x), s)
<1> DEFINE b == Taken(w, a, x)
           path == [n \in {1, 2} |-> IF n = 1 THEN a ELSE b]
<1> HIDE DEF b
<1>1. path[1] = a /\ path[2] = b /\ \A n \in 1 .. 2 : Sound(path[n], s)
  BY DEF b
<1> HIDE DEF path
<1>2. \A n \in 1 .. 2 - 1 : n = 1 /\ <<x>>[n] = x /\ path[n] = a /\ path[n + 1] = b
  BY <1>1
<1>3. \A n \in 1 .. 2 - 1 : /\ <<x>>[n].kind \in ContentKind \cup {"Err"}
                            /\ path[n + 1] = Taken(w, path[n], <<x>>[n])
  BY <1>2 DEF b
<1>4. 2 \in 1 .. Len(<<x>>) + 1
  OBVIOUS
<1> QED
  BY <1>1, <1>3, <1>4 DEF Leads, IsPath, b

(* Two ways, one after the other, are one way.                             *)
LEMMA LeadsOn ==
  ASSUME NEW w, NEW a, NEW p, NEW b, NEW q, NEW k, NEW c, NEW s, IsItems(p), IsItems(q),
         Leads(w, a, p, Len(p) + 1, b, s), Leads(w, b, q, k, c, s)
  PROVE  Leads(w, a, p \o q, Len(p) + k, c, s)
<1> DEFINE r == p \o q
           len == Len(p)
<1>1. /\ len \in Nat /\ Len(q) \in Nat /\ Len(r) = len + Len(q)
      /\ \A n \in 1 .. len : r[n] = p[n]
      /\ \A n \in 1 .. Len(q) : r[len + n] = q[n]
  BY Concatenation
<1> HIDE DEF r, len
<1>2. PICK f : /\ f[1] = a /\ f[len + 1] = b
               /\ \A n \in 1 .. len + 1 : Sound(f[n], s)
               /\ \A n \in 1 .. len + 1 - 1 : /\ p[n].kind \in ContentKind \cup {"Err"}
                                              /\ f[n + 1] = Taken(w, f[n], p[n])
  BY DEF Leads, IsPath, len
<1>3. k \in 1 .. Len(q) + 1
  BY DEF Leads
<1>4. PICK g : /\ g[1] = b /\ g[k] = c
               /\ \A n \in 1 .. k : Sound(g[n], s)
               /\ \A n \in 1 .. k - 1 : /\ q[n].kind \in ContentKind \cup {"Err"}
                                        /\ g[n + 1] = Taken(w, g[n], q[n])
  BY DEF Leads, IsPath
<1> DEFINE h == [n \in 1 .. len + k |-> IF n <= len THEN f[n] ELSE g[n - len]]
<1>5. h[1] = a /\ h[len + k] = c
  BY <1>1, <1>2, <1>3, <1>4
<1>6. \A n \in 1 .. len : h[n] = f[n] /\ h[n + 1] = f[n + 1]
  BY <1>1, <1>2, <1>3, <1>4
<1>7. \A n \in 1 .. k : h[len + n] = g[n]
  BY <1>1, <1>3
<1>8. ASSUME NEW n \in 1 .. len + k
      PROVE  Sound(h[n], s)
  <2>1. CASE n \in 1 .. len
    BY <1>1, <1>2, <1>6, <2>1
  <2>2. CASE n \notin 1 .. len
    <3>1. n - len \in 1 .. k /\ n = len + (n - len)
      BY <1>1, <1>3, <2>2
    <3> HIDE DEF h
    <3>2. h[n] = g[n - len]
      BY <1>7, <3>1
    <3> QED
      BY <1>4, <3>1, <3>2
  <2> QED
    BY <2>1, <2>2
<1> HIDE DEF h
<1>9. ASSUME NEW n \in 1 .. len + k - 1
      PROVE  r[n].kind \in ContentKind \cup {"Err"} /\ h[n + 1] = Taken(w, h[n], r[n])
  <2>1. CASE n \in 1 .. len
    <3>1. r[n] = p[n] /\ h[n] = f[n] /\ h[n + 1] = f[n + 1] /\ n \in 1 .. len + 1 - 1
      BY <1>1, <1>6, <2>1
    <3> QED
      BY <1>2, <3>1
  <2>2. CASE n \notin 1 .. len
    <3> DEFINE m == n - len
    <3>1. m \in 1 .. k - 1 /\ m \in 1 .. Len(q) /\ n = len + m /\ m \in 1 .. k /\ m + 1 \in 1 .. k
          /\ n + 1 = len + (m + 1)
      BY <1>1, <1>3, <2>2
    <3> HIDE DEF m
    <3>2. r[n] = q[m] /\ h[n] = g[m] /\ h[n + 1] = g[m + 1]
      BY <1>1, <1>7, <3>1
    <3> QED
      BY <1>4, <3>1, <3>2
  <2> QED
    BY <2>1, <2>2
<1>10. len + k \in 1 .. Len(r) + 1
  BY <1>1, <1>3
<1>11. IsPath(w, h, r, len + k, s)
  BY <1>1, <1>3, <1>8, <1>9 DEF IsPath
<1>12. Leads(w, a, r, len + k, c, s)
  BY <1>1, <1>3, <1>5, <1>10, <1>11 DEF Leads
<1> QED
  BY <1>12 DEF r, len

(* Items behind do not matter.                                             *)
LEMMA LeadsStill ==
  ASSUME NEW w, NEW a, NEW q, NEW k, NEW b, NEW s, NEW r, IsItems(q), IsItems(r), Leads(w, a, q, k, b, s)
  PROVE  Leads(w, a, q \o r, k, b, s)
<1> DEFINE t == q \o r
<1>1. /\ Len(q) \in Nat /\ Len(r) \in Nat /\ Len(t) = Len(q) + Len(r)
      /\ \A n \in 1 .. Len(q) : t[n] = q[n]
  BY Concatenation
<1> HIDE DEF t
<1>2. k \in 1 .. Len(q) + 1
  BY DEF Leads
<1>3. k \in 1 .. Len(t) + 1 /\ \A n \in 1 .. k - 1 : n \in 1 .. Len(q)
  BY <1>1, <1>2
<1>4. \A n \in 1 .. k - 1 : t[n] = q[n]
  BY <1>1, <1>3
<1> QED
  BY <1>3, <1>4 DEF Leads, IsPath, t

(* A way leads to the same place when more has been said.                  *)
LEMMA LeadsMore ==
  ASSUME NEW w, NEW a, NEW q, NEW k, NEW b, NEW s, NEW t, Grows(s, t), Leads(w, a, q, k, b, s)
  PROVE  Leads(w, a, q, k, b, t)
BY DEF Leads, IsPath, Grows

(* The first step. *)
LEMMA LeadsParts ==
  ASSUME NEW w, NEW a, NEW q, NEW k, NEW b, NEW s, IsItems(q), q # <<>>, Leads(w, a, q, k, b, s)
  PROVE  /\ k = 1 => a = b
         /\ k # 1 => /\ Head(q).kind \in ContentKind \cup {"Err"}
                     /\ Sound(Taken(w, a, Head(q)), s)
                     /\ Leads(w, Taken(w, a, Head(q)), Tail(q), k - 1, b, s)
<1> DEFINE t == Tail(q)
           x == Head(q)
<1>1. /\ IsItems(t)
      /\ Len(q) \in Nat /\ Len(q) > 0 /\ Len(t) = Len(q) - 1
      /\ x = q[1]
      /\ \A n \in 1 .. Len(q) - 1 : t[n] = q[n + 1]
  BY Parts
<1> HIDE DEF t, x
<1>2. k \in 1 .. Len(q) + 1
  BY DEF Leads
<1>3. PICK f : /\ f[1] = a /\ f[k] = b
               /\ \A n \in 1 .. k : Sound(f[n], s)
               /\ \A n \in 1 .. k - 1 : /\ q[n].kind \in ContentKind \cup {"Err"}
                                        /\ f[n + 1] = Taken(w, f[n], q[n])
  BY DEF Leads, IsPath
<1>4. CASE k # 1
  <2>1. 1 \in 1 .. k - 1 /\ 2 \in 1 .. k /\ k - 1 \in 1 .. Len(t) + 1
    BY <1>1, <1>2, <1>4
  <2>2. x.kind \in ContentKind \cup {"Err"} /\ f[2] = Taken(w, a, x) /\ Sound(f[2], s)
    BY <1>1, <1>3, <2>1
  <2> DEFINE h == [n \in 1 .. k - 1 |-> f[n + 1]]
  <2>3. h[1] = Taken(w, a, x) /\ h[k - 1] = b
    BY <1>2, <1>3, <2>1, <2>2
  <2>4. \A n \in 1 .. k - 1 : Sound(h[n], s)
    <3>1. \A n \in 1 .. k - 1 : n + 1 \in 1 .. k
      BY <1>2
    <3> QED
      BY <1>3, <3>1
  <2>5. ASSUME NEW n \in 1 .. (k - 1) - 1
        PROVE  t[n].kind \in ContentKind \cup {"Err"} /\ h[n + 1] = Taken(w, h[n], t[n])
    <3>1. n + 1 \in 1 .. k - 1 /\ n \in 1 .. k - 1 /\ n \in 1 .. Len(q) - 1
      BY <1>2
    <3>2. h[n] = f[n + 1] /\ h[n + 1] = f[(n + 1) + 1] /\ t[n] = q[n + 1]
      BY <1>1, <3>1
    <3> HIDE DEF h
    <3> QED
      BY <1>3, <3>1, <3>2
  <2> HIDE DEF h
  <2>6. Leads(w, Taken(w, a, x), t, k - 1, b, s)
    BY <2>1, <2>3, <2>4, <2>5 DEF Leads, IsPath
  <2> QED
    BY <1>4, <2>2, <2>6 DEF t, x
<1> QED
  BY <1>3, <1>4

-----------------------------------------------------------------------------
(* Carrying *)

(* No item carries nothing.                                                *)
LEMMA CarryNothing ==
  ASSUME NEW w, NEW s, NEW sig, SaidTyped(s), s.finish = None
  PROVE  Carries(w, <<>>, s, sig, s, sig)
<1> SUFFICES ASSUME NEW a, Full(w, a, s, sig)
             PROVE  \E k, b : Leads(w, a, <<>>, k, b, s) /\ Full(w, b, s, sig) /\ Ending(<<>>, k, s)
  BY DEF Carries
<1>1. Leads(w, a, <<>>, 1, a, s)
  BY FullIsSound, LeadsNowhere, Nothing
<1> QED
  BY <1>1 DEF Ending

(* One item carries what taking it adds.                                   *)
LEMMA CarryOne ==
  ASSUME NEW w, NEW x, NEW s, NEW sig, NEW t, NEW next, SaidTyped(s), SaidTyped(t), Grows(s, t),
         t.finish = None, x.kind \in ContentKind \cup {"Err"},
         \A a : Full(w, a, s, sig) => Full(w, Taken(w, a, x), t, next)
  PROVE  Carries(w, <<x>>, s, sig, t, next)
<1> SUFFICES ASSUME NEW a, Full(w, a, s, sig)
             PROVE  \E k, b : Leads(w, a, <<x>>, k, b, t) /\ Full(w, b, t, next) /\ Ending(<<x>>, k, t)
  BY DEF Carries
<1> DEFINE b == Taken(w, a, x)
<1>1. Full(w, b, t, next)
  OBVIOUS
<1> HIDE DEF b
<1>2. Sound(a, t)
  BY FullIsSound DEF Grows
<1>3. Sound(b, t)
  BY <1>1, FullIsSound
<1>4. Leads(w, a, <<x>>, 2, b, t)
  BY <1>2, <1>3, LeadsOne DEF b
<1>5. Ending(<<x>>, 2, t)
  BY DEF Ending
<1> QED
  BY <1>1, <1>4, <1>5

(* Items behind items carry what both do.                                  *)
LEMMA CarryOn ==
  ASSUME NEW w, NEW p, NEW q, NEW s, NEW sig, NEW m, NEW mid, NEW t, NEW next, IsItems(p), IsItems(q),
         Carries(w, p, s, sig, m, mid), m.finish = None, Grows(m, t), Carries(w, q, m, mid, t, next)
  PROVE  Carries(w, p \o q, s, sig, t, next)
<1> SUFFICES ASSUME NEW a, Full(w, a, s, sig)
             PROVE  \E k, b : Leads(w, a, p \o q, k, b, t) /\ Full(w, b, t, next) /\ Ending(p \o q, k, t)
  BY DEF Carries
<1>1. PICK b : Leads(w, a, p, Len(p) + 1, b, m) /\ Full(w, b, m, mid)
  BY DEF Carries, Ending
<1>2. PICK k, c : Leads(w, b, q, k, c, t) /\ Full(w, c, t, next) /\ Ending(q, k, t)
  BY <1>1 DEF Carries
<1>3. Leads(w, a, p \o q, Len(p) + k, c, t)
  BY <1>1, <1>2, LeadsMore, LeadsOn
<1>4. Ending(p \o q, Len(p) + k, t)
  <2>1. k \in 1 .. Len(q) + 1
    BY <1>2 DEF Leads
  <2> QED
    BY <1>2, <2>1, Concatenation DEF Ending
<1> QED
  BY <1>2, <1>3, <1>4

(* The Stop with the reason.                                               *)
LEMMA CarryStop ==
  ASSUME NEW w, NEW s, NEW sig, NEW reason, SaidTyped(s), reason # None, NEW t,
         DOMAIN t = SaidField, t.text = s.text, t.reasoning = s.reasoning, t.calls = s.calls,
         t.usage = s.usage, t.finish = reason
  PROVE  /\ SaidTyped(t) /\ Grows(s, t)
         /\ Carries(w, <<Stop(reason)>>, s, sig, t, sig)
<1>1. /\ DOMAIN t = SaidField /\ t.text = s.text /\ t.reasoning = s.reasoning
      /\ t.calls = s.calls /\ t.usage = s.usage /\ t.finish = reason
  OBVIOUS
<1>2. SaidTyped(t) /\ Grows(s, t)
  BY <1>1 DEF SaidTyped, Grows, Sound, WasSaid
<1> SUFFICES ASSUME NEW a, Full(w, a, s, sig)
             PROVE  \E k, b : /\ Leads(w, a, <<Stop(reason)>>, k, b, t) /\ Full(w, b, t, sig)
                              /\ Ending(<<Stop(reason)>>, k, t)
  BY <1>2 DEF Carries
<1>3. Full(w, a, t, sig)
  BY <1>1 DEF Full
<1>4. Leads(w, a, <<Stop(reason)>>, 1, a, t)
  BY <1>2, <1>3, FullIsSound, LeadsNowhere, Single
<1>5. Ending(<<Stop(reason)>>, 1, t)
  BY <1>1 DEF Ending
<1> QED
  BY <1>3, <1>4, <1>5

-----------------------------------------------------------------------------
(* Flow *)

(* At first nothing was said and nothing is under way.                     *)
LEMMA FlowStarts ==
  ASSUME NEW w, NEW o, NEW c, NEW s, s = NothingSaid, o = Reading
  PROVE  Flow(w, EmptyAcc, <<>>, o, c, s, None)
<1>0. /\ s.text = <<>> /\ s.reasoning = <<>> /\ s.calls = << >> /\ s.usage = NoUsage /\ s.finish = None
      /\ DOMAIN s = SaidField
  BY DEF NothingSaid, SaidField
<1>e. <<>> \in Seq(Piece) /\ DOMAIN <<>> = {} /\ Len(<<>>) = 0
  OBVIOUS
<1>1. SaidTyped(s)
  BY <1>0, <1>e DEF SaidTyped, NoUsage, Opt
<1>2. Full(w, EmptyAcc, s, None)
  BY <1>0, <1>e DEF EmptyAcc, Full, AnswerTyped
<1>3. Sound(EmptyAcc, s)
  BY <1>1, <1>2, FullIsSound
<1>4. Leads(w, EmptyAcc, <<>>, 1, EmptyAcc, s) /\ IsItems(<<>>)
  BY <1>3, LeadsNowhere, Nothing
<1>5. Ending(<<>>, 1, s)
  BY <1>0, <1>e DEF Ending
<1>6. Reading # Collected
  BY DEF Reading, Collected
<1> QED
  BY <1>1, <1>2, <1>3, <1>4, <1>5, <1>6 DEF Flow

(* An event before the finish reason, or with it.                          *)
LEMMA FlowOn ==
  ASSUME NEW w, NEW a, NEW q, NEW o, NEW s, NEW sig, NEW items, NEW t, NEW next,
         Flow(w, a, q, o, FALSE, s, sig), IsItems(items), s.finish = None,
         SaidTyped(t), Grows(s, t), Carries(w, items, s, sig, t, next)
  PROVE  Flow(w, a, q \o items, o, FALSE, t, next)
<1>1. IsItems(q \o items) /\ IsItems(q)
  BY Concatenation DEF Flow
<1>2. Sound(a, t)
  BY DEF Flow, Grows
<1>3. o # Collected
  BY DEF Flow
<1>4. ASSUME o = Reading
      PROVE  \E k, b : /\ Leads(w, a, q \o items, k, b, t) /\ Full(w, b, t, next)
                       /\ Ending(q \o items, k, t)
  <2>1. PICK b : Leads(w, a, q, Len(q) + 1, b, s) /\ Full(w, b, s, sig)
    BY <1>4 DEF Flow, Ending
  <2>2. PICK k, c : Leads(w, b, items, k, c, t) /\ Full(w, c, t, next) /\ Ending(items, k, t)
    BY <2>1 DEF Carries
  <2>3. Leads(w, a, q \o items, Len(q) + k, c, t)
    BY <1>1, <2>1, <2>2, LeadsMore, LeadsOn
  <2>4. Ending(q \o items, Len(q) + k, t)
    <3>1. k \in 1 .. Len(items) + 1
      BY <2>2 DEF Leads
    <3> QED
      BY <1>1, <2>2, <3>1, Concatenation DEF Ending
  <2> QED
    BY <2>2, <2>3, <2>4
<1> QED
  BY <1>1, <1>2, <1>3, <1>4 DEF Flow

(* Whatever comes behind the finish reason.                                *)
LEMMA FlowBehind ==
  ASSUME NEW w, NEW a, NEW q, NEW o, NEW c, NEW s, NEW sig, NEW items, NEW t, NEW d,
         Flow(w, a, q, o, c, s, sig), IsItems(items), s.finish # None,
         DOMAIN t = SaidField, t.text = s.text, t.reasoning = s.reasoning, t.calls = s.calls,
         t.usage = s.usage, t.finish = s.finish
  PROVE  Flow(w, a, q \o items, o, d, t, sig)
<1>1. IsItems(q \o items) /\ IsItems(q)
  BY Concatenation DEF Flow
<1>2. SaidTyped(t) /\ Grows(s, t)
  BY DEF Flow, SaidTyped, Grows, Sound, WasSaid
<1>3. \A b : Full(w, b, s, sig) => Full(w, b, t, sig)
  BY DEF Full
<1>4. Answer(w, a, s, sig) => Answer(w, a, t, sig)
  BY DEF Answer
<1>5. \A k, b : Leads(w, a, q, k, b, s) => Leads(w, a, q \o items, k, b, t)
  BY <1>1, <1>2, LeadsMore, LeadsStill
<1>6. \A k, b : Leads(w, a, q, k, b, s) /\ Ending(q, k, s) => Ending(q \o items, k, t)
  BY <1>1, Concatenation DEF Ending, Leads
<1> QED
  BY <1>1, <1>2, <1>3, <1>4, <1>5, <1>6 DEF Flow, Grows

(* The end of the stream. *)
LEMMA FlowCloses ==
  ASSUME NEW w, NEW a, NEW q, NEW o, NEW c, NEW s, NEW sig, Flow(w, a, q, o, c, s, sig)
  PROVE  Flow(w, a, q, o, TRUE, s, sig)
BY DEF Flow

(* An error behind what is there. *)
LEMMA FlowFails ==
  ASSUME NEW w, NEW a, NEW q, NEW o, NEW s, NEW sig, NEW e, Flow(w, a, q, o, FALSE, s, sig)
  PROVE  Flow(w, a, q \o <<Err(e)>>, o, FALSE, s, sig)
<1>1. IsItems(<<Err(e)>>) /\ SaidTyped(s)
  BY Single DEF Flow
<1>2. CASE s.finish = None
  <2>1. Err(e).kind = "Err"
    BY DEF Err
  <2>2. \A b : Taken(w, b, Err(e)) = b
    BY <2>1 DEF Taken, Absorb
  <2>3. Grows(s, s)
    BY DEF Grows
  <2>4. Carries(w, <<Err(e)>>, s, sig, s, sig)
    BY <1>1, <1>2, <2>1, <2>2, <2>3, CarryOne
  <2> QED
    BY <1>1, <1>2, <2>3, <2>4, FlowOn
<1>3. CASE s.finish # None
  BY <1>1, <1>3, FlowBehind DEF SaidTyped
<1> QED
  BY <1>2, <1>3

(* The consumer. *)
LEMMA ClientFlows ==
  ASSUME NEW sig, Flow(Whole, acc, queue, outcome, closed, said, sig), Client
  PROVE  Flow(Whole, acc', queue', outcome', closed, said, sig)
<1>0. outcome = Reading
  BY DEF Client, Consume, TakeErr, TakeContent, TakeErrorChunk, TakeStop, TakeEnd, Polls
<1>t. Reading # Collected /\ \A e : Failed(e) # Reading /\ Failed(e) # Collected
  BY DEF Reading, Collected, Failed
<1>1. PICK k, b : /\ Leads(Whole, acc, queue, k, b, said) /\ Full(Whole, b, said, sig)
                  /\ Ending(queue, k, said)
  BY <1>0 DEF Flow
<1>2. SaidTyped(said) /\ IsItems(queue) /\ Sound(acc, said)
  BY DEF Flow
<1>3. CASE TakeEnd
  <2>1. UNCHANGED <<queue, acc>> /\ queue = <<>> /\ closed /\ outcome' = Collected
    BY <1>3 DEF TakeEnd
  <2>2. k = 1 /\ said.finish = None
    BY <1>1, <2>1 DEF Leads, Ending
  <2>3. acc = b
    BY <1>1, <2>2 DEF Leads
  <2>4. Answer(Whole, acc, said, sig)
    BY <1>1, <2>2, <2>3 DEF Full, Answer
  <2> QED
    BY <1>2, <1>t, <2>1, <2>4 DEF Flow
<1>4. CASE ~ TakeEnd
  <2> DEFINE x == Head(queue)
  <2>1. queue # <<>> /\ queue' = Tail(queue)
    BY <1>4 DEF Client, Consume, TakeErr, TakeContent, TakeErrorChunk, TakeStop, Polls
  <2>2. IsItems(queue')
    BY <1>2, <2>1, Parts
  <2>3. /\ k = 1 => acc = b
        /\ k # 1 => /\ x.kind \in ContentKind \cup {"Err"}
                    /\ Sound(Taken(Whole, acc, x), said)
                    /\ Leads(Whole, Taken(Whole, acc, x), queue', k - 1, b, said)
    BY <1>1, <1>2, <2>1, LeadsParts
  <2>4. k = 1 => x = Stop(said.finish) /\ said.finish # None
    <3>1. /\ IsItems(Tail(queue))
          /\ Len(queue) \in Nat /\ Len(queue) > 0 /\ Len(Tail(queue)) = Len(queue) - 1
          /\ x = queue[1]
      BY <1>2, <2>1, Parts
    <3> QED
      BY <1>1, <3>1 DEF Ending
  <2>5. Ending(queue', k - 1, said) \/ k = 1
    <3>1. /\ Len(queue) \in Nat /\ Len(queue) > 0 /\ Len(queue') = Len(queue) - 1
          /\ \A n \in 1 .. Len(queue) - 1 : queue'[n] = queue[n + 1]
      BY <1>2, <2>1, Parts
    <3>2. k \in 1 .. Len(queue) + 1
      BY <1>1 DEF Leads
    <3> QED
      BY <1>1, <3>1, <3>2 DEF Ending
  <2>6. CASE TakeErr
    <3>1. x.kind = "Err" /\ outcome' = Failed(x.error) /\ acc' = acc
      BY <2>6 DEF TakeErr, Polls
    <3> QED
      BY <1>2, <1>t, <2>2, <3>1 DEF Flow
  <2>7. CASE TakeContent
    <3>1. x.kind \in ContentKind /\ outcome' = outcome
      BY <2>7 DEF TakeContent, Polls, ContentKind
    <3>2. acc' = Taken(Whole, acc, x)
      BY <2>7 DEF TakeContent, Taken, Whole
    <3>3. k # 1
      BY <2>4, <3>1 DEF Stop, ContentKind
    <3> QED
      BY <1>0, <1>1, <1>2, <1>t, <2>2, <2>3, <2>5, <3>1, <3>2, <3>3 DEF Flow
  <2>8. CASE TakeErrorChunk
    <3>1. x.kind = "Error"
      BY <2>8 DEF TakeErrorChunk, Polls
    <3> QED
      BY <2>3, <2>4, <3>1 DEF Stop, ContentKind
  <2>9. CASE TakeStop
    <3>1. /\ x.kind = "Stop" /\ outcome' = Collected
          /\ acc' = IF Whole THEN Absorb(acc, x) ELSE acc
      BY <2>9 DEF TakeStop, Polls, Whole
    <3>2. acc = b /\ x = Stop(said.finish) /\ said.finish # None
      BY <2>3, <2>4, <3>1 DEF ContentKind
    <3>3. x.reason = said.finish
      BY <3>2 DEF Stop
    <3>4. Whole => acc' = [acc EXCEPT !.finish = FinishReason(said.finish)]
      BY <3>1, <3>2, <3>3 DEF Absorb
    <3>5. /\ DOMAIN acc' = DOMAIN acc
          /\ acc'.content = acc.content /\ acc'.reasoning = acc.reasoning
          /\ acc'.signature = acc.signature
          /\ acc'.calls = acc.calls /\ acc'.usage = acc.usage
          /\ Whole => acc'.finish = FinishReason(said.finish)
      BY <1>2, <3>1, <3>4 DEF Sound, AnswerTyped
    <3>6. Sound(acc', said)
      BY <1>2, <3>5 DEF Sound, AnswerTyped, WasSaid
    <3>7. Answer(Whole, acc', said, sig)
      BY <1>1, <3>2, <3>5 DEF Full, Answer
    <3> QED
      BY <1>2, <1>t, <2>2, <3>1, <3>2, <3>6, <3>7 DEF Flow
  <2> QED
    BY <1>4, <2>6, <2>7, <2>8, <2>9 DEF Client, Consume
<1> QED
  BY <1>3, <1>4

-----------------------------------------------------------------------------
(* What the events of the protocols carry. *)

(* An item of text carries the piece that was said.                        *)
LEMMA TextCarried ==
  ASSUME NEW w, NEW s, NEW sig, NEW p \in Piece, NEW t, SaidTyped(s), s.finish = None,
         DOMAIN t = SaidField, t.text = Append(s.text, p), t.reasoning = s.reasoning,
         t.calls = s.calls, t.usage = s.usage, t.finish = None
  PROVE  SaidTyped(t) /\ Grows(s, t) /\ t.finish = None /\ Carries(w, <<Text(<<p>>)>>, s, sig, t, sig)
<1>1. /\ DOMAIN t = SaidField /\ t.text = Append(s.text, p) /\ t.reasoning = s.reasoning
      /\ t.calls = s.calls /\ t.usage = s.usage /\ t.finish = None
  OBVIOUS
<1>2. s.text \in Seq(Piece) /\ t.text \in Seq(Piece) /\ s.text \o <<p>> = t.text
  BY <1>1 DEF SaidTyped
<1>3. SaidTyped(t)
  BY <1>1, <1>2 DEF SaidTyped
<1>4. Grows(s, t)
  <2> SUFFICES ASSUME NEW a, Sound(a, s)
               PROVE  Sound(a, t)
    BY DEF Grows
  <2>1. IsPrefix(a.content, t.text)
    BY <1>1, <1>2, PrefixGrows DEF Sound, AnswerTyped, WasSaid
  <2> QED
    BY <1>1, <2>1 DEF Sound, WasSaid
<1>5. ASSUME NEW a, Full(w, a, s, sig)
      PROVE  Full(w, Taken(w, a, Text(<<p>>)), t, sig)
  <2> DEFINE b == Taken(w, a, Text(<<p>>))
  <2>1. b = [a EXCEPT !.content = @ \o <<p>>]
    BY DEF Taken, Absorb, Text
  <2> HIDE DEF b
  <2>2. /\ DOMAIN b = DOMAIN a /\ b.content = t.text /\ b.reasoning = a.reasoning
        /\ b.calls = a.calls /\ b.usage = a.usage /\ b.signature = a.signature /\ b.finish = a.finish
    BY <1>2, <1>5, <2>1 DEF Full, AnswerTyped
  <2> QED
    BY <1>1, <1>2, <1>5, <2>2 DEF Full, AnswerTyped, b
<1>6. Text(<<p>>).kind \in ContentKind
  BY DEF Text, ContentKind
<1> QED
  BY <1>1, <1>3, <1>4, <1>5, <1>6, CarryOne

(* An item of thinking does too.                                           *)
LEMMA ThoughtCarried ==
  ASSUME NEW w, NEW s, NEW sig, NEW p \in Piece, NEW t, SaidTyped(s), s.finish = None,
         DOMAIN t = SaidField, t.text = s.text, t.reasoning = Append(s.reasoning, p),
         t.calls = s.calls, t.usage = s.usage, t.finish = None
  PROVE  SaidTyped(t) /\ Grows(s, t) /\ t.finish = None /\ Carries(w, <<Thought(<<p>>)>>, s, sig, t, sig)
<1>1. /\ DOMAIN t = SaidField /\ t.text = s.text /\ t.reasoning = Append(s.reasoning, p)
      /\ t.calls = s.calls /\ t.usage = s.usage /\ t.finish = None
  OBVIOUS
<1>2. s.reasoning \in Seq(Piece) /\ t.reasoning \in Seq(Piece) /\ s.reasoning \o <<p>> = t.reasoning
  BY <1>1 DEF SaidTyped
<1>3. SaidTyped(t)
  BY <1>1, <1>2 DEF SaidTyped
<1>4. Grows(s, t)
  <2> SUFFICES ASSUME NEW a, Sound(a, s)
               PROVE  Sound(a, t)
    BY DEF Grows
  <2>1. IsPrefix(a.reasoning, t.reasoning)
    BY <1>1, <1>2, PrefixGrows DEF Sound, AnswerTyped, WasSaid
  <2> QED
    BY <1>1, <2>1 DEF Sound, WasSaid
<1>5. ASSUME NEW a, Full(w, a, s, sig)
      PROVE  Full(w, Taken(w, a, Thought(<<p>>)), t, sig)
  <2> DEFINE b == Taken(w, a, Thought(<<p>>))
  <2>1. b = IF w THEN [a EXCEPT !.reasoning = @ \o <<p>>] ELSE a
    BY DEF Taken, Absorb, Thought
  <2> HIDE DEF b
  <2>2. /\ DOMAIN b = DOMAIN a /\ b.content = a.content
        /\ w => b.reasoning = t.reasoning
        /\ ~ w => b.reasoning = a.reasoning
        /\ b.calls = a.calls /\ b.usage = a.usage /\ b.signature = a.signature /\ b.finish = a.finish
    BY <1>2, <1>5, <2>1 DEF Full, AnswerTyped
  <2> QED
    BY <1>1, <1>2, <1>5, <2>2 DEF Full, AnswerTyped, b
<1>6. Thought(<<p>>).kind \in ContentKind
  BY DEF Thought, ContentKind
<1> QED
  BY <1>1, <1>3, <1>4, <1>5, <1>6, CarryOne

(* The start of a call. *)
LEMMA StartCarried ==
  ASSUME NEW w, NEW s, NEW sig, NEW i \in Index, NEW id \in CallId, NEW name \in ToolName, NEW t,
         SaidTyped(s), s.finish = None, i \notin DOMAIN s.calls,
         t = [s EXCEPT !.calls = Begun(@, i, id, name)]
  PROVE  /\ SaidTyped(t) /\ Grows(s, t) /\ t.finish = None
         /\ Carries(w, <<ToolCall(i, id, name, <<>>)>>, s, sig, t, sig)
<1> DEFINE new == [id |-> id, name |-> name, args |-> <<>>]
<1>1. /\ DOMAIN t = SaidField /\ t.text = s.text /\ t.reasoning = s.reasoning
      /\ t.calls = Begun(s.calls, i, id, name)
      /\ t.usage = s.usage /\ t.finish = None
  BY DEF SaidTyped, SaidField
<1>2. t.calls = [j \in DOMAIN s.calls \cup {i} |-> IF j = i THEN new ELSE s.calls[j]]
  BY <1>1 DEF Begun
<1>n. new \in CallType
  BY DEF CallType
<1> HIDE DEF new
<1>3. SaidTyped(t)
  BY <1>1, <1>2, <1>n DEF SaidTyped
<1>4. Grows(s, t)
  <2>1. \A j \in DOMAIN s.calls : j \in DOMAIN t.calls /\ t.calls[j] = s.calls[j]
    BY <1>2
  <2> QED
    BY <1>1, <2>1 DEF Grows, Sound, WasSaid
<1>5. ASSUME NEW a, Full(w, a, s, sig)
      PROVE  Full(w, Taken(w, a, ToolCall(i, id, name, <<>>)), t, sig)
  <2> DEFINE x == ToolCall(i, id, name, <<>>)
             b == Taken(w, a, x)
  <2>1. b = IF w THEN [a EXCEPT !.calls = ApplyToolCallDelta(@, x)] ELSE a
    BY DEF Taken, Absorb, ToolCall
  <2>2. ApplyToolCallDelta(a.calls, x) =
          [j \in DOMAIN a.calls \cup {i} |-> IF j = i THEN new ELSE a.calls[j]]
    <3>1. <<>> # None /\ id # None /\ name # None
      <4>1. <<>> \in Seq(Piece)
        OBVIOUS
      <4> QED
        BY <4>1, NoneAssumption
    <3>2. x.id = id /\ x.name = name /\ x.index = i /\ x.args = <<>>
      BY DEF ToolCall
    <3> HIDE DEF x
    <3> QED
      BY <3>1, <3>2 DEF ApplyToolCallDelta, new
  <2> HIDE DEF b
  <2>3. /\ DOMAIN b = DOMAIN a /\ b.content = a.content /\ b.reasoning = a.reasoning
        /\ w => b.calls = [j \in DOMAIN a.calls \cup {i} |-> IF j = i THEN new ELSE a.calls[j]]
        /\ ~ w => b.calls = a.calls
        /\ b.usage = a.usage /\ b.signature = a.signature /\ b.finish = a.finish
    BY <1>5, <2>1, <2>2 DEF Full, AnswerTyped
  <2>4. w => b.calls = t.calls
    BY <1>2, <1>5, <2>3 DEF Full
  <2> QED
    BY <1>1, <1>3, <1>5, <2>3, <2>4 DEF Full, AnswerTyped, SaidTyped, b
<1>6. ToolCall(i, id, name, <<>>).kind \in ContentKind
  BY DEF ToolCall, ContentKind
<1> QED
  BY <1>1, <1>3, <1>4, <1>5, <1>6, CarryOne

(* A fragment of the arguments of a call that was begun.                   *)
LEMMA ArgsCarried ==
  ASSUME NEW w, NEW s, NEW sig, NEW p \in Piece, NEW t, SaidTyped(s), s.finish = None,
         NEW i \in DOMAIN s.calls,
         t = [s EXCEPT !.calls[i].args = Append(@, p)]
  PROVE  /\ SaidTyped(t) /\ Grows(s, t) /\ t.finish = None
         /\ Carries(w, <<ToolCall(i, None, None, <<p>>)>>, s, sig, t, sig)
<1> DEFINE old == s.calls[i]
           new == [old EXCEPT !.args = Append(@, p)]
<1>1. /\ DOMAIN t = SaidField /\ t.text = s.text /\ t.reasoning = s.reasoning
      /\ t.calls = [s.calls EXCEPT ![i] = new]
      /\ t.usage = s.usage /\ t.finish = None
  BY DEF SaidTyped, SaidField
<1>2. old \in CallType
  BY DEF SaidTyped
<1>3. new \in CallType /\ new.id = old.id /\ new.name = old.name /\ new.args = Append(old.args, p)
      /\ new = [old EXCEPT !.args = @ \o <<p>>]
  <2>1. old.args \in Seq(Piece)
    BY <1>2 DEF CallType
  <2>2. Append(old.args, p) \in Seq(Piece) /\ old.args \o <<p>> = Append(old.args, p)
    BY <2>1
  <2> HIDE DEF old
  <2> QED
    BY <1>2, <2>2 DEF CallType
<1> HIDE DEF new
<1>4. /\ DOMAIN t.calls = DOMAIN s.calls /\ t.calls[i] = new
      /\ \A j \in DOMAIN s.calls : j # i => t.calls[j] = s.calls[j]
      /\ t.calls = [j \in DOMAIN t.calls |-> t.calls[j]]
  BY <1>1
<1>5. SaidTyped(t)
  BY <1>1, <1>3, <1>4 DEF SaidTyped
<1>6. Grows(s, t)
  <2> SUFFICES ASSUME NEW a, Sound(a, s)
               PROVE  Sound(a, t)
    BY DEF Grows
  <2>1. ASSUME i \in DOMAIN a.calls
        PROVE  IsPrefix(a.calls[i].args, t.calls[i].args)
    <3>1. a.calls[i].args \in Seq(Piece) /\ old.args \in Seq(Piece)
      BY <1>2, <2>1 DEF Sound, AnswerTyped, CallType
    <3>2. IsPrefix(a.calls[i].args, old.args)
      BY <2>1 DEF Sound, WasSaid
    <3> QED
      BY <1>3, <1>4, <3>1, <3>2, PrefixGrows
  <2>2. WasSaid(a, t)
    <3> SUFFICES ASSUME NEW j \in DOMAIN a.calls
                 PROVE  /\ j \in DOMAIN t.calls
                        /\ a.calls[j].id = t.calls[j].id
                        /\ a.calls[j].name = t.calls[j].name
                        /\ IsPrefix(a.calls[j].args, t.calls[j].args)
      BY <1>1 DEF Sound, WasSaid
    <3>1. /\ j \in DOMAIN s.calls
          /\ a.calls[j].id = s.calls[j].id
          /\ a.calls[j].name = s.calls[j].name
          /\ IsPrefix(a.calls[j].args, s.calls[j].args)
      BY DEF Sound, WasSaid
    <3>2. CASE j = i
      BY <1>3, <1>4, <2>1, <3>1, <3>2
    <3>3. CASE j # i
      BY <1>4, <3>1, <3>3
    <3> QED
      BY <3>2, <3>3
  <2> QED
    BY <2>2 DEF Sound
<1>7. ASSUME NEW a, Full(w, a, s, sig)
      PROVE  Full(w, Taken(w, a, ToolCall(i, None, None, <<p>>)), t, sig)
  <2> DEFINE x == ToolCall(i, None, None, <<p>>)
             b == Taken(w, a, x)
  <2>1. b = IF w THEN [a EXCEPT !.calls = ApplyToolCallDelta(@, x)] ELSE a
    BY DEF Taken, Absorb, ToolCall
  <2>2. w => ApplyToolCallDelta(a.calls, x) = t.calls
    <3>1. <<p>> # None
      <4>1. <<p>> \in Seq(Piece)
        OBVIOUS
      <4> QED
        BY <4>1, NoneAssumption
    <3>2. x.id = None /\ x.index = i /\ x.args = <<p>>
      BY DEF ToolCall
    <3> HIDE DEF x
    <3>3. w => ApplyToolCallDelta(a.calls, x) = [s.calls EXCEPT ![i].args = @ \o <<p>>]
      BY <1>7, <3>1, <3>2 DEF ApplyToolCallDelta, Full
    <3>4. [s.calls EXCEPT ![i].args = @ \o <<p>>] = [s.calls EXCEPT ![i] = [old EXCEPT !.args = @ \o <<p>>]]
      OBVIOUS
    <3> HIDE DEF old
    <3> QED
      BY <1>1, <1>3, <3>3, <3>4
  <2> HIDE DEF b
  <2>3. /\ DOMAIN b = DOMAIN a /\ b.content = a.content /\ b.reasoning = a.reasoning
        /\ w => b.calls = t.calls
        /\ ~ w => b.calls = a.calls
        /\ b.usage = a.usage /\ b.signature = a.signature /\ b.finish = a.finish
    BY <1>7, <2>1, <2>2 DEF Full, AnswerTyped
  <2> QED
    BY <1>1, <1>5, <1>7, <2>3 DEF Full, AnswerTyped, SaidTyped, b
<1>8. ToolCall(i, None, None, <<p>>).kind \in ContentKind
  BY DEF ToolCall, ContentKind
<1> QED
  BY <1>1, <1>5, <1>6, <1>7, <1>8, CarryOne

(* Arguments of no call.                                                   *)
LEMMA StrayCarried ==
  ASSUME NEW w, NEW s, NEW sig, NEW i, NEW args, SaidTyped(s), s.finish = None, i \notin DOMAIN s.calls
  PROVE  Grows(s, s) /\ Carries(w, <<ToolCall(i, None, None, args)>>, s, sig, s, sig)
<1> DEFINE x == ToolCall(i, None, None, args)
<1>1. x.kind = "ToolCall" /\ x.id = None /\ x.index = i
  BY DEF ToolCall
<1> HIDE DEF x
<1>2. ASSUME NEW a, Full(w, a, s, sig)
      PROVE  Full(w, Taken(w, a, x), s, sig)
  <2> DEFINE b == Taken(w, a, x)
  <2>1. w => ApplyToolCallDelta(a.calls, x) = a.calls
    BY <1>1, <1>2 DEF ApplyToolCallDelta, Full
  <2>2. b = IF w THEN [a EXCEPT !.calls = ApplyToolCallDelta(@, x)] ELSE a
    BY <1>1 DEF Taken, Absorb
  <2> HIDE DEF b
  <2>3. /\ DOMAIN b = DOMAIN a /\ b.content = a.content /\ b.reasoning = a.reasoning
        /\ b.calls = a.calls /\ b.usage = a.usage /\ b.signature = a.signature /\ b.finish = a.finish
    BY <1>2, <2>1, <2>2 DEF Full, AnswerTyped
  <2> QED
    BY <1>2, <2>3 DEF Full, AnswerTyped, b
<1>3. Grows(s, s)
  BY DEF Grows
<1>4. x.kind \in ContentKind
  BY <1>1 DEF ContentKind
<1> QED
  BY <1>2, <1>3, <1>4, CarryOne DEF x

(* Usage. *)
LEMMA UsageCarried ==
  ASSUME NEW w, NEW s, NEW sig, NEW u \in [UsageField -> Opt(Nat)], NEW t, SaidTyped(s), s.finish = None,
         DOMAIN t = SaidField, t.text = s.text, t.reasoning = s.reasoning, t.calls = s.calls,
         t.usage = MergeUsage(s.usage, u), t.finish = None
  PROVE  SaidTyped(t) /\ Grows(s, t) /\ t.finish = None /\ Carries(w, <<Usage(u)>>, s, sig, t, sig)
<1> DEFINE new == MergeUsage(s.usage, u)
<1>1. /\ DOMAIN t = SaidField /\ t.text = s.text /\ t.reasoning = s.reasoning
      /\ t.calls = s.calls /\ t.usage = new /\ t.finish = None
  OBVIOUS
<1>2. new \in [UsageField -> Opt(Nat)]
  BY DEF SaidTyped, MergeUsage
<1>3. SaidTyped(t)
  BY <1>1, <1>2 DEF SaidTyped
<1>4. Grows(s, t)
  BY <1>1 DEF Grows, Sound, WasSaid
<1>5. ASSUME NEW a, Full(w, a, s, sig)
      PROVE  Full(w, Taken(w, a, Usage(u)), t, sig)
  <2> DEFINE b == Taken(w, a, Usage(u))
  <2>1. b = IF w THEN [a EXCEPT !.usage = MergeUsage(@, u)] ELSE a
    BY DEF Taken, Absorb, Usage
  <2> HIDE DEF b
  <2>2. /\ DOMAIN b = DOMAIN a /\ b.content = a.content /\ b.reasoning = a.reasoning
        /\ b.calls = a.calls /\ b.signature = a.signature /\ b.finish = a.finish
        /\ w => b.usage = new
    BY <1>5, <2>1 DEF Full, AnswerTyped
  <2> QED
    BY <1>1, <1>5, <2>2 DEF Full, AnswerTyped, b
<1>6. Usage(u).kind \in ContentKind
  BY DEF Usage, ContentKind
<1> QED
  BY <1>1, <1>3, <1>4, <1>5, <1>6, CarryOne

(* A signature. *)
LEMMA SignatureCarried ==
  ASSUME NEW w, NEW s, NEW sig, NEW next, SaidTyped(s), s.finish = None
  PROVE  Grows(s, s) /\ Carries(w, <<ThinkingSignature(next)>>, s, sig, s, next)
<1>1. ASSUME NEW a, Full(w, a, s, sig)
      PROVE  Full(w, Taken(w, a, ThinkingSignature(next)), s, next)
  <2> DEFINE b == Taken(w, a, ThinkingSignature(next))
  <2>1. b = IF w THEN [a EXCEPT !.signature = next] ELSE a
    BY DEF Taken, Absorb, ThinkingSignature
  <2> HIDE DEF b
  <2>2. /\ DOMAIN b = DOMAIN a /\ b.content = a.content /\ b.reasoning = a.reasoning
        /\ b.calls = a.calls /\ b.usage = a.usage /\ b.finish = a.finish
        /\ w => b.signature = next
    BY <1>1, <2>1 DEF Full, AnswerTyped
  <2> QED
    BY <1>1, <2>2 DEF Full, AnswerTyped, b
<1>2. Grows(s, s)
  BY DEF Grows
<1>3. ThinkingSignature(next).kind \in ContentKind
  BY DEF ThinkingSignature, ContentKind
<1> QED
  BY <1>1, <1>2, <1>3, CarryOne

-----------------------------------------------------------------------------
(* Tool calls in their order. *)

(* Room for a call of every index below len.                               *)
Slots(calls, len) == [n \in 1 .. len |-> IF n - 1 \in DOMAIN calls THEN <<calls[n - 1]>> ELSE <<>>]

(* InOrder leaves the slots out that are empty.                            *)
LEMMA InOrderIs ==
  ASSUME NEW T, NEW calls, NEW len \in Nat, DOMAIN calls \subseteq 0 .. len - 1,
         \A i \in DOMAIN calls : calls[i] \in T
  PROVE  /\ Slots(calls, len) \in Seq(Seq(T)) /\ Len(Slots(calls, len)) = len
         /\ InOrder(calls) = FlattenSeq(Slots(calls, len))
         /\ InOrder(calls) \in Seq(T)
<1> DEFINE end == IF DOMAIN calls = {} THEN 0 ELSE Max(DOMAIN calls) + 1
           t == Slots(calls, len)
<1>1. InOrder(calls) = FlattenSeq(Slots(calls, end))
  BY DEF InOrder, Slots
<1>2. \A n \in 1 .. len : (IF n - 1 \in DOMAIN calls THEN <<calls[n - 1]>> ELSE <<>>) \in Seq(T)
  <2> SUFFICES ASSUME NEW n \in 1 .. len
               PROVE  (IF n - 1 \in DOMAIN calls THEN <<calls[n - 1]>> ELSE <<>>) \in Seq(T)
    OBVIOUS
  <2>1. CASE n - 1 \in DOMAIN calls
    <3>1. calls[n - 1] \in T
      BY <2>1
    <3>2. <<calls[n - 1]>> \in Seq(T)
      BY <3>1
    <3> QED
      BY <2>1, <3>2
  <2>2. CASE n - 1 \notin DOMAIN calls
    <3>1. <<>> \in Seq(T)
      OBVIOUS
    <3> QED
      BY <2>2, <3>1
  <2> QED
    BY <2>1, <2>2
<1>3. t \in [1 .. len -> Seq(T)]
  BY <1>2 DEF Slots
<1>4. t \in Seq(Seq(T)) /\ Len(t) = len
  <2> HIDE DEF t
  <2> QED
    BY <1>3, SeqOfPositions
<1>5. end \in 0 .. len /\ \A i \in DOMAIN calls : i + 1 <= end
  <2>1. CASE DOMAIN calls = {}
    BY <2>1
  <2>2. CASE DOMAIN calls # {}
    <3> DEFINE S == {i + 1 : i \in DOMAIN calls}
    <3>1. S \in SUBSET (1 .. len) /\ S # {}
      BY <2>2
    <3>2. PICK n \in S : \A m \in S : m <= n
      <4> HIDE DEF S
      <4> QED
        BY <3>1, GreatestExists
    <3>3. PICK k \in DOMAIN calls : n = k + 1
      BY <3>2
    <3>4. \A i \in DOMAIN calls : i \in Nat /\ i <= k
      <4>1. \A i \in DOMAIN calls : i \in Nat /\ i + 1 \in S
        OBVIOUS
      <4> HIDE DEF S
      <4>2. \A i \in DOMAIN calls : i \in Nat /\ i + 1 <= k + 1
        BY <3>2, <3>3, <4>1
      <4> QED
        BY <4>2
    <3>5. Max(DOMAIN calls) = k
      BY <3>4, MaxIs
    <3> QED
      BY <2>2, <3>4, <3>5
  <2> QED
    BY <2>1, <2>2
<1> HIDE DEF end
<1>6. \A i \in end + 1 .. Len(t) : t[i] = <<>>
  <2> SUFFICES ASSUME NEW i \in end + 1 .. len
               PROVE  t[i] = <<>>
    BY <1>4
  <2>1. i \in 1 .. len /\ ~ (i - 1) + 1 <= end
    BY <1>5
  <2> QED
    BY <1>5, <2>1 DEF Slots
<1>7. SubSeq(t, 1, end) = Slots(calls, end)
  <2>1. SubSeq(t, 1, end) = [n \in 1 .. end |-> t[n]]
    BY <1>4, <1>5
  <2>2. \A n \in 1 .. end : t[n] = IF n - 1 \in DOMAIN calls THEN <<calls[n - 1]>> ELSE <<>>
    BY <1>5 DEF Slots
  <2> HIDE DEF t
  <2> QED
    BY <2>1, <2>2 DEF Slots
<1>8. FlattenSeq(t) = FlattenSeq(SubSeq(t, 1, end)) /\ FlattenSeq(t) \in Seq(T)
  <2> HIDE DEF t
  <2> QED
    BY <1>4, <1>5, <1>6, FlattenEmptyEnd, FlattenType
<1> QED
  BY <1>1, <1>4, <1>7, <1>8

==============================================================================
