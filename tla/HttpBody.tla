------------------------------ MODULE HttpBody ------------------------------
(***************************************************************************)
(* Reading the body of a response as text (HttpResponse::text), as         *)
(* execute_once does with an answer before it parses it.  The server       *)
(* writes a document, a sequence of characters of one or more bytes each;  *)
(* the network hands it over in chunks that end wherever they end, and may *)
(* break off.  A byte is named by the character it belongs to and its      *)
(* place in it; the text is decoded from it chunk by chunk.                *)
(***************************************************************************)
EXTENDS LlmErrors, SequencesExt

CONSTANTS
  Width,      \* Width[c]: the number of bytes of the n-th character
  MaxChunk    \* bound on the bytes of a chunk

ASSUME BodyAssumption ==
  /\ Width \in Seq(1 .. 4) /\ Width # <<>>
  /\ Width[1] = 1 /\ Width[Len(Width)] = 1
  /\ MaxChunk \in Nat \ {0}

VARIABLES
  sent,      \* the bytes handed over so far, as a count
  chunk,     \* the chunk handed over and not decoded yet
  ending,    \* "open", "end" or "error": how the byte stream stands
  text,      \* the local variable body: what has been decoded
  split,     \* history: some chunk ended inside a character
  outcome    \* what execute_once returns: "reading", an answer, or an error

bodyVars == <<sent, chunk, ending, text, split, outcome>>

Document == [c \in DOMAIN Width |-> c]
Body == FlattenSeq([c \in DOMAIN Width |-> [k \in 1 .. Width[c] |-> [char |-> c, place |-> k]]])

(* U+FFFD, the replacement character.                                      *)
Replacement == 0

(* What the n-th of some bytes makes, if the last whole character is the   *)
(* one that ends with the byte `end`: the first byte of a character makes  *)
(* it, or a replacement if it is cut off; a byte of a character that has   *)
(* lost its beginning makes a replacement.                                 *)
Makes(bytes, n, end) ==
  LET b == bytes[n]
      whole == n + Width[b.char] - 1 <= end
      orphan == bytes[1].place > 1 /\ b.char = bytes[1].char
  IN  IF b.place = 1 THEN <<IF whole THEN b.char ELSE Replacement>>
      ELSE IF orphan THEN <<Replacement>> ELSE <<>>

(* Mutant of Lossy: a character is cut off by the end of its own bytes.    *)
LossyShort(bytes) == FlattenSeq([n \in DOMAIN bytes |-> Makes(bytes, n, Len(bytes) - 1)])

(* String::from_utf8_lossy of some bytes.                                  *)
Lossy(bytes) == FlattenSeq([n \in DOMAIN bytes |-> Makes(bytes, n, Len(bytes))])

Reading == [tag |-> "reading", error |-> NoError]
Parsed == [tag |-> "answer", error |-> NoError]
Failed(e) == [tag |-> "error", error |-> e]

BodyInit ==
  /\ sent = 0
  /\ chunk = <<>>
  /\ ending = "open"
  /\ text = <<>>
  /\ split = FALSE
  /\ outcome = Reading

-----------------------------------------------------------------------------
(* The network. *)

Deliver(n) ==
  /\ ending = "open"
  /\ chunk = <<>>
  /\ sent + n <= Len(Body)
  /\ chunk' = SubSeq(Body, sent + 1, sent + n)
  /\ sent' = sent + n
  /\ split' = (split \/ Last(chunk').place < Width[Last(chunk').char])
  /\ UNCHANGED <<ending, text, outcome>>

End ==
  /\ ending = "open"
  /\ sent = Len(Body)
  /\ ending' = "end"
  /\ UNCHANGED <<sent, chunk, text, split, outcome>>

(* The connection breaks, or is silent for the read timeout.               *)
Break ==
  /\ ending = "open"
  /\ ending' = "error"
  /\ UNCHANGED <<sent, chunk, text, split, outcome>>

-----------------------------------------------------------------------------
(* The client. *)

(* Mutant of DecodeChunk: a chunk is not taken off the stream.             *)
DecodeChunkAgain ==
  /\ outcome = Reading
  /\ chunk # <<>>
  /\ text' = text \o Lossy(chunk)
  /\ UNCHANGED <<sent, chunk, ending, split, outcome>>

(* Ok(bytes): every chunk is decoded by itself.                            *)
DecodeChunk ==
  /\ outcome = Reading
  /\ chunk # <<>>
  /\ text' = text \o Lossy(chunk)
  /\ chunk' = <<>>
  /\ UNCHANGED <<sent, ending, split, outcome>>

(* Mutant of Parse: any text is an answer.                                 *)
ParseAnything(t) == Parsed

(* parse_response: the document is a JSON object, complete with its last   *)
(* character and not before; inside a string, where alone it has           *)
(* characters of several bytes, a replacement character is as good as any. *)
Parse(t) ==
  IF t # <<>> /\ Last(t) = Len(Width) THEN Parsed ELSE Failed(LlmGeneralError)

(* Mutant of FinishReading: an error does not end the loop.                *)
FinishAtEndOnly ==
  /\ outcome = Reading
  /\ chunk = <<>>
  /\ ending = "end"
  /\ outcome' = Parse(text)
  /\ UNCHANGED <<sent, chunk, ending, text, split>>

(* None and Err(_) end the loop alike; what there is of the text is        *)
(* parsed.                                                                 *)
FinishReading ==
  /\ outcome = Reading
  /\ chunk = <<>>
  /\ ending # "open"
  /\ outcome' = Parse(text)
  /\ UNCHANGED <<sent, chunk, ending, text, split>>

Reader == DecodeChunk \/ FinishReading
Network == (\E n \in 1 .. MaxChunk : Deliver(n)) \/ End \/ Break

BodyNext == Reader \/ Network

(* The reader is polled while the caller awaits it; the read timeout ends  *)
(* a connection that delivers nothing more.                                *)
BodySpec == BodyInit /\ [][BodyNext]_bodyVars /\ WF_bodyVars(Reader) /\ WF_bodyVars(Network)

-----------------------------------------------------------------------------
(* Properties. *)

Received == {c \in DOMAIN Width : \E n \in 1 .. sent - Len(chunk) : Body[n].char = c}

(* As long as no chunk ends inside a character, the text is what the       *)
(* server wrote, as far as it came: the chunks are put together in order   *)
(* and none is lost or doubled.                                            *)
TextIsPrefix == ~ split => IsPrefix(text, Document)

(* Whatever the chunks, the characters that survive are characters of the  *)
(* document in their order, each at most once: decoding a chunk by itself  *)
(* may lose a character but never moves or repeats one.                    *)
SurvivorsInOrder ==
  \A m, n \in DOMAIN text :
    (m < n /\ text[m] # Replacement /\ text[n] # Replacement) => text[m] < text[n]

(* No answer is made of a body of which a character is missing altogether, *)
(* although text() hides the error that ended it.                          *)
AnswerNeedsWholeBody == outcome = Parsed => Received = DOMAIN Width

(* The read always comes to its end.                                       *)
ReadEnds == <>(outcome # Reading)

(* "Read the response body as text" (text()): the text of a body that has  *)
(* been read to its end is what the server wrote.                          *)
BodyIsText == (outcome = Parsed /\ ending = "end") => text = Document

==============================================================================
