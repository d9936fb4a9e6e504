# A TLA+ model of llm-providers

`llm-providers` is a Rust library that gives one interface, `LlmProvider` with
`chat()` and `stream()`, to the chat endpoints of several vendors. This directory
holds TLA+ modules that model how the library is configured, what it sends, and
what it does between a call and its verdict; TLC configurations that check them on
small instances; and TLAPS proofs, for every value of the constants, about the
retry loop, the body of a response, the consumers of streams, both streaming
adapters, the conversion of messages and the configuration.

Paths below are relative to the repository. `PROJECT.json` maps each definition to
the lines it models, and lists the runs, the hazards and the theorems.

- [The system](#the-system)
- [The modules](#the-modules)
- [The runs, and what they show](#the-runs-and-what-they-show)
- [Bounds](#bounds)
- [Fairness](#fairness)
- [What is proved](#what-is-proved)
- [Divergences](#divergences)
- [Not modelled](#not-modelled)
- [Plan](#plan)

## The system

| Component | Source | State | Operations |
|---|---|---|---|
| `GenericProvider` | `src/generic.rs` | the locals of one call: `attempt`, `last_err`; nothing between calls (`&self` throughout) | `chat`, `stream`, the retry loops of `send_request` and `execute_stream`, the backoff functions |
| HTTP client | `llm-trait/src/http_client.rs` | the byte stream of a response | `send`, `is_success`, `text`, `bytes_stream` |
| Errors | `llm-trait/src/error.rs` | none | `status()`; classification in the loops |
| `ChatStream` | `llm-trait/src/response.rs` | the accumulators of a consuming method: text, reasoning, signature, `tool_call_buf`, usage, finish reason | `next`, `collect_text`, `collect_response`, `apply_tool_call_delta` |
| Messages | `llm-trait/src/message.rs` | none; the history is the application's | the constructors of `ChatMessage` |
| OpenAI adapter | `src/protocol/openai/` | none; limit and profile are fixed when it is built | `build_request` with `convert_messages` and `convert_tools`, `parse_sse_stream`, `parse_response` |
| Anthropic adapter | `src/protocol/anthropic/` | as above | as above |
| Model registry | `src/model_registry/` | an immutable table | `lookup` |
| Factory and configuration | `src/factory.rs`, `llm-trait/src/config.rs` | none | `from_env`, `create_provider`, `build_protocol` |
| Reasoning | `llm-trait/src/reasoning.rs` | none | `to_spec` |
| Command line tool | `src/bin/llm-cli.rs` | the loop over a stream, its output | `main` |

How they interact. The factory looks up a profile in the registry and builds an
adapter with it and a `GenericProvider` around the adapter. A call to the provider
asks the adapter for a request, into which the adapter converts the
whole history of the conversation each time, sends it through the HTTP client in the retry loop,
and hands the response back to the adapter: its text to `parse_response`
(non-streaming), or its bytes to `parse_sse_stream`, which yields the items of a
`ChatStream`. `stream()` gives that stream to the caller; `chat()` on an adapter
without non-streaming support reads it itself with `collect_response`. The command
line tool is a caller that reads a stream with a loop of its own. Everything
is a chain of futures and streams polled by the caller, who may drop it at any
await point. There is no task, lock or channel of the library's own. The
concurrency is that of the client with the server and the network.

What is hard about it, and which properties make it correct:

- **Retry.** The request is a POST that costs money and is not idempotent. A
  retry must follow only a failure it may cure, never a success that has begun to
  arrive; it must wait as long as the *latest* failure asks for; the caller must be
  told of the *last* exchange; a dropped call must send nothing more; every call
  must end. (`ResendOnlyAfterCurable`, `RunTwiceOnlyIfUnseen`,
  `WaitFitsLastFailure`, `VerdictIsOfLastExchange`, `QuietAfterEnd`, `Termination`.)
- **Assembly of streams.** Fragments of several tool calls interleave, usage comes
  in parts, errors and a second Stop come behind the first one, the body ends early.
  (`AnswerIsSumOfItems`, `FirstStopWins`, `CollectedWasSaid`, `AnswerIsWhole`,
  `BrokenStreamIsNoAnswer`, `LateFaultIsHarmless`, `UsageIsKept`,
  `FailureIsReported`, `SignatureFitsThinking`, `AlwaysCollected`.)
- **Two routes.** One and the same completion is put together by different code
  when it is streamed and when it is sent in one piece. (`RoutesAgree`.)
- **Conversations.** Each vendor wants the turns arranged in its own way, and the
  adapters merge, split, move and drop messages to that end, whatever the
  application has put into the history. (`OpenAiSaysAll`, `AnthropicSaysAll`,
  `TurnsAlternate`, `ResultsStayWithCalls`, `OnlyNeighboursJoin`.)
- **Bytes.** Chunks end inside characters and bodies break off, and `text()`
  hides both. (`TextIsPrefix`, `SurvivorsInOrder`, `AnswerNeedsWholeBody`.)
- **Configuration.** Names, brands, URLs, explicit protocols, options, profiles,
  tools and per-request reasoning meet in combinations no table of tests lists.
  (`ProtocolIsDecided`, `OnlyFieldsUnderstood`, `ThinkingLeavesRoom`.)

`PROJECT.json` lists the hazards one by one with their lines.

## The modules

```
LlmErrors <- Backoff ------+
LlmErrors <- CallOutcomes -+-> GenericProvider <- GenericProviderProofs
                  |              (refines)
                  +-> RetriedCall <-'

LlmErrors <- StreamChunks <- ChatStream <- ChatStreamSpec <- ChatStreamProofs
                                       <- StreamedCompletion <- StreamedCompletionProofs
StreamedCompletion + OpenAiAnswer    -> OpenAiStream    <- OpenAiStreamProofs
StreamedCompletion + AnthropicAnswer -> AnthropicStream <- AnthropicStreamProofs
StreamChunks + Answers -> OpenAiAnswer, AnthropicAnswer

LlmErrors <- HttpBody <- GenericProviderProofs

Messages <- OpenAiMessages -----+
Messages <- AnthropicMessages --+-> MessageConversion <- MessageConversionProofs

ModelRegistry <- ProviderSetup <- ProviderSetupProofs

Foundations: under all proofs
```

| Module | Models |
|---|---|
| `LlmErrors` | The four variants of `LlmError`, `status()`, `is_success` and the retry predicate of both loops. A message carries no control and is left out. |
| `Backoff` | The backoff functions in machine arithmetic: `WordBits` wide, wrapping, with `Overflows` saying where a build with overflow checks panics. |
| `CallOutcomes` | How an exchange ends and what a caller can be given: shared by the next two. |
| `GenericProvider` | One call from `idle` to `returned`, `dropped` or `panicked`, with the server and the network. |
| `RetriedCall` | What a call promises, without loop, wait or body: at most `1 + MaxRetries` exchanges, another one only when all before failed curably, and exactly one verdict, that of the last exchange. |
| `StreamChunks` | `StreamChunk`, `UsageInfo` and `FinishReason::from_str`. |
| `ChatStream` | The three consumers, `collect_response`, `collect_text` and the loop of `llm-cli`, one action per arm of their loops. |
| `ChatStreamSpec` | An arbitrary adapter in front of them, and the answer defined over the whole sequence of items instead of item by item. |
| `StreamedCompletion` | What all streamed protocols share: the record of what the server said, error and malformed events, a connection that breaks or ends early, and what must hold between the two ends. |
| `OpenAiStream` | The server's events of an OpenAI-compatible endpoint and `parse_sse_stream`/`convert_delta`. |
| `AnthropicStream` | The same for the Messages protocol and `convert_event`. |
| `Answers` | A whole response: what an adapter may make of it. |
| `OpenAiAnswer`, `AnthropicAnswer` | `parse_openai_response` and `parse_anthropic_response`. |
| `HttpBody` | `HttpResponse::text` over a byte stream in arbitrary chunks, and the parser behind it. |
| `ModelRegistry` | The table of profiles and `lookup`. |
| `ProviderSetup` | `from_env` and `create_provider`, adapters built by hand, the endpoint of a request, and what its body says of model, limit, reasoning, tools and streaming. |
| `Messages` | `ChatMessage` and its variants. |
| `OpenAiMessages`, `AnthropicMessages` | `convert_messages` of either adapter, arm by arm, with the merging of consecutive messages. |
| `MessageConversion` | A history taken message by message, through both conversions at once. |
| `*Proofs` | The theorems about the module of that name; `GenericProviderProofs` has those about `HttpBody` too, `StreamedCompletionProofs` what those about the two adapters share. |
| `Foundations` | Lemmas that have nothing to do with this program: induction over the naturals, the greatest of a set, flattened sequences, order, powers of two and remainders. |
| `MC*` | Values for the constants of the module of that name. |

How the state corresponds to the code:

- In `GenericProvider`, `pc` is the await point (or the point between two of
  them) the call is at; `attempt` and `lastErr` are the variables of the loop.
  `send_request` and `execute_stream` have loops that are the same line for line,
  so one loop stands for both and `route` says how a success is consumed. `Sleep`
  is the head of an iteration with `attempt > 0`, `Send` is `client.send`,
  `ReceiveHead` and `TransportFailure` are its two outcomes, `DrainErrorBody` is
  the error branch with its `text().await`, and `ReadBody`, `OpenStream` and
  `Collect` are the ways a success goes on. `server` and `answer` are the far end:
  the server may answer a request the client has given up. `outcomes` is a history
  of what the client saw.
- `chat()` may yet fail while it consumes a success. `ReadBody` and `Collect`
  therefore choose among the outcomes of parsing, of which `HttpBody` and
  `ChatStream` have the detail.
- In `ChatStream`, `acc` is the set of local variables of the method, `queue` the
  items yielded and not polled, `polled` a history.
- Adapters are stateless (`flat_map` over events). Converting an event when it
  is written and not when it is polled makes no difference to the consumer, so
  `Write` puts the items of an event into `queue` in one step.
- `OpenAiStream` and `AnthropicStream` keep in `said` (and `content`, the blocks)
  what the server said, from which they also make the `Document` of the same
  completion sent in one piece; `RoutesAgree` parses it and compares.
- `convert_messages` is a loop over the history, so the state of
  `MessageConversion` is the conversion of the history as far as it has been
  taken, and there is one action for each arm of the `match`. Merging comes after
  the loop in the code and looks at the last message only; merging each message
  as it comes is the same, since it never looks further on.
- In `ProviderSetup` a provider is created once and then asked for a request;
  `config` is the `LlmConfig`, `provider` the fields of the adapter, `request` the
  chat request and `raw` the `RawRequest` made of it.
- In `HttpBody` a byte is the character it belongs to and its place in it; a
  chunk is any number of the bytes that follow.

Text, reasoning and arguments are sequences of opaque pieces, so that loss,
doubling and wrong order show; ids, names and signatures are model values.

## The runs, and what they show

Seven runs in which TLC finds no error:

| Run | What it shows |
|---|---|
| `GenericProvider` | With three retries, overflow checks, and a server that answers with any status at an edge of a class (200, 299, 300, 428, 429, 430, 499, 500), at any time or never: the verdict is that of the last exchange, nothing is sent again after a success or an incurable failure, the server runs a call twice only where the client saw no first answer, every wait that is slept is right, nothing happens after the end, every call that is not dropped ends, and the loop implements `RetriedCall`. Also checks the inductive invariant `IInv` of the proofs. |
| `ChatStream` | Over every sequence of four items out of twenty-one, for each of the three consumers: the answer at hand is at every moment the sum of the items it took, a failure is reported by each in its way and never followed by an answer, the first Stop decides, and a stream that ends is collected. |
| `OpenAiStream` | Over every completion of up to four events before the finish reason: what is collected was said, an answer is whole, a stream that broke before the finish reason is not an answer and one that broke behind it is, usage reported by then is kept, and the same completion sent in one piece gives the same answer, if the server finishes with a reason of its own protocol (`Reason` in the configuration has no other). |
| `AnthropicStream` | The same over up to six events, with blocks of four kinds, tool calls at the index of their block, unknown stop reasons, usage in two parts, and the signature of a single thinking block. Also that every stream is collected in the end. |
| `HttpBody` | Over every division of a document into chunks and a break anywhere: text not cut inside a character is a prefix of the document, no character moves or doubles, a fragment is never an answer, reading ends. |
| `ProviderSetup` | Over every configuration, from a struct or from names, every hand-made adapter and every request for reasoning, tools and streaming: the adapter speaks the protocol that was asked for at that protocol's endpoint, sends no field to an endpoint that does not know it, loses no tool that is written as documented, sends the model it names and the limit it names, if any, and a thinking budget is below the limit. An adapter that the factory made is asked to think only if it says that it can. A hand-made one is made of any profile, also one whose capabilities and reasoning mode contradict each other, and nothing is claimed of what it says of thinking. |
| `MessageConversion` | Over every history of up to five messages in any order: both requests say all that the history says, in order and under the right role; no two turns are left that should be one; results stay behind their calls if the history had them there; nobody's words overtake another's in either request, and of the assistant's messages the OpenAI adapter joins only neighbours that all have a list of calls or all have none. |

Five runs in which TLC finds a statement of the repository violated; see
[Divergences](#divergences): `GenericProviderWrap`, `OpenAiStreamEof`,
`OpenAiStreamUsage`, `AnthropicStreamInterleaved`, `HttpBodyText`.

Every property of a passing run has a mutant in the modules (the operators
commented as such), a form of the code with a plausible mistake: the error of the
*first* failure is kept, the cap is forgotten, the Stop precedes the delta of its
event, and so on. Each one is violated under the run's own configuration.

`CHECK_DEADLOCK FALSE` everywhere: a call that has returned, a stream that has
been collected and a body that has been made are meant to stop.

## Bounds

- `MaxRetries` 3: the first retry has no earlier one, the second follows a
  failure that may differ from the first, the third is the last. The theorems hold
  for any number.
- `RetryDelay` 1000 and `RateLimitRetryDelay` 30000 are the defaults; with them the
  second rate-limited wait reaches its cap of 60 s. The regular schedule (1, 2 and 4 s)
  stays below its cap of 30 s; that cap is reached in no run, and the theorem
  `CheckedWaits` covers it for any delays. `WordBits` stands for 64: 16 bits put
  the overflow within three retries, so that the build with overflow checks panics
  in some behaviours (the wait for the third retry behind a 429 is such a one) and the one without wraps. `Jitters` are the two extremes.
- `MaxItems` 4: two calls can be begun, continued and begun anew, in both orders,
  and an end can come at any place.
- `MaxEvents` counts events before the finishing ones. Four are enough for two
  calls with a fragment each or an accident between them, six for two blocks with
  content and for a thinking block with its signature and a tool call behind it.
- `UnindexedCalls` 1 and `Interleaved` FALSE are restrictions of the *server* in
  the passing runs, not of the code: a server that sends no index makes one
  tool call, and one completion has one thinking block. Both restrictions hide what
  [Divergences](#divergences) says of servers without them.
- `Mixed`, the document of `HttpBody`, has characters of one, two, three and four
  bytes, also next to each other; chunks of up to five bytes split each in every way
  and take several at once. It begins and ends with a single-byte
  character, as a JSON object does.
- `MaxMessages` 5: an assistant's message with two calls, both results, and a
  neighbour of any kind; or three messages that merge, between two that do not.
  Messages have no image or two (`ImageCounts`), one by URL and one inline. The
  assistant's message has one of six shapes, among them one that says nothing, one
  with broken arguments and one with an empty list of calls.
- `WordBits` 18 in `ProviderSetup` is enough for every limit of the table (128000
  at most) and small enough for TLC. Budgets are just below, at and above the
  limits, and 262143, the last number of the word, which `ThinkingLeavesRoom`
  leaves out (see Divergences).
- Reasoning, tools and streaming of a request do not meet in the code, so each is
  varied beside one value of the others, not all with all.

## Fairness

- `GenericProvider`: weak fairness of the client's own steps, `Progress`. A sleep
  ends; `connect_timeout` and `read_timeout`, which `with_config` sets on the client it
  builds (`src/generic.rs:62-67`), end a send; bodies are finite. Nothing is assumed of
  the server, the network or the caller. A client of the caller's own, given to
  `with_http_client` or in `config.client`, which `with_config` takes as it is, may be
  without timeouts, and is outside this assumption. Dropping the call is possible at each
  await, never required.
- `ChatStreamSpec`: weak fairness of the consumer, which is polled as long as the
  caller awaits it, and none of the adapter: hence the property `closed ~> ...`.
- `OpenAiStream`, `AnthropicStream`, `HttpBody`: also weak fairness of the far
  end taken together, i.e. a connection does something or is ended. The read
  timeout ends a silent one; that no server streams for ever is the bound on
  events, and is an assumption about servers.

## What is proved

For every value of the constants that satisfies their assumptions: any number of
retries, items, events, blocks and messages, any delays, statuses, models, URLs,
options and requests.

| Module | Theorem | States |
|---|---|---|
| `GenericProviderProofs` | `TypeCorrect` | `TypeOK`, with the wait below the caps |
| | `Invariance` | `IInv` |
| | `VerdictOfLastExchange` | `VerdictIsOfLastExchange` |
| | `NoResendAfterSuccess` | `ResendOnlyAfterCurable` |
| | `NoRepeatOfSeenSuccess` | `RunTwiceOnlyIfUnseen` |
| | `CheckedWaits` | `WaitFitsLastFailure`, in a build with overflow checks |
| | `QuietCall` | `QuietAfterEnd` |
| | `Implementation` | `ImplementsRetriedCall` |
| | `Decoding` | `BodyInv`, of `HttpBody` |
| | `TextComesInOrder` | `TextIsPrefix` |
| | `CharactersKeepOrder` | `SurvivorsInOrder` |
| | `NoAnswerOfFragment` | `AnswerNeedsWholeBody` |
| `ChatStreamProofs` | `Invariance` | `ConsumerInv` |
| | `TypeCorrect` | `StreamTypeOK` |
| | `ErrorsComeOut` | `FailureIsReported` |
| | `FirstStopDecides` | `FirstStopWins` |
| | `AnswerIsSum` | `AnswerIsSumOfItems` |
| `OpenAiStreamProofs`, `AnthropicStreamProofs` | `Invariance` | `OpenAiInv`, `AnthropicInv` |
| | `NoAnswerOfBrokenStream` | `BrokenStreamIsNoAnswer` |
| | `AnswerOutlivesLateFault` | `LateFaultIsHarmless` |
| | `FlowInvariance` | `OpenAiFlow`, `AnthropicFlow` |
| | `CollectedIsSaid` | `CollectedWasSaid` |
| | `WholeAnswer` | `AnswerIsWhole` |
| | `KeptUsage` | `UsageIsKept` |
| | `RoutesMakeOneAnswer` | `RoutesAgree` |
| `AnthropicStreamProofs` | `SignatureFits` | `SignatureFitsThinking`, of one thinking block |
| `MessageConversionProofs` | `Invariance` | `ConversionInv` |
| | `Alternation` | `TurnsAlternate` |
| | `NeighboursJoin` | `OnlyNeighboursJoin` |
| | `OpenAiIsToldAll` | `OpenAiSaysAll` |
| | `AnthropicIsToldAll` | `AnthropicSaysAll` |
| | `ResultsKeepTheirPlace` | `ResultsStayWithCalls` |
| `ProviderSetupProofs` | `Invariance` | `SetupInv` |
| | `RoomForAnswer` | `ThinkingLeavesRoom` |
| | `FieldsOfReasoning` | `ReasoningUnderstood`, the part of `OnlyFieldsUnderstood` about reasoning |
| | `WhatItSaysOfItself` | `SelfDescriptionHolds`, the part about `capabilities()` and `info()` |
| | `ProtocolOfUrlAndCaller` | `ProtocolIsDecided` |
| | `FieldsFit` | `OnlyFieldsUnderstood` |

The assumptions are those named in the modules, and TLC evaluates them in every
run that has the module. `BackoffAssumption`, `CallAssumption` and
`ProviderAssumption`: retries and delays are naturals, the word has at least one
bit, jitters are `0..99` and there is one, statuses are `100..599`.
`ConsumerAssumption`, `ItemAssumption` and `IndexAssumption`: there are three
consumers, items are those the type `StreamChunk` has, and indices are naturals,
zero among them. `FinishAssumption`, `ReasonAssumption`, `NameAssumption`,
`MessageAssumption` and the `NoneAssumption`s: what stands for `Option::None` is none
of the values that are there, and reasons are those the adapter knows or others.
`TokensAssumption`, `CountAssumption`, `ProfileAssumption`, `UrlAssumption` and
`ToolAssumption`: counts are naturals, those of the limits and profiles of the
library's user among them (a profile's output limit may be absent, and its mode is one
of the four; nothing else is assumed of it), hosts, paths and the tools of a request are sequences, and the path of
a URL has `v1` at most once in a row. `BodyAssumption`: a document is of characters
of one to four bytes and begins and ends with one of a single byte, as a JSON object
does.

Some theorems have a hypothesis of their own beyond these, since without it
the statement is false of the code ([Divergences](#divergences)):

- `CollectedIsSaid`, `WholeAnswer`, `KeptUsage` and `RoutesMakeOneAnswer` of
  `OpenAiStream`: `UnindexedCalls \in {0, 1}`. A server may send indices and make any
  number of calls, in any interleaving; one that sends none makes one call.
- `RoutesMakeOneAnswer` of `OpenAiStream`: `Reason \cap ForeignReason = {}`. The
  server does not finish with `end_turn`, `max_tokens` or `tool_use`, the words of the
  *other* protocol, which `FinishReason::from_str` translates when it is streamed and
  `parse_openai_response` does not. The proof failed without this, which is how
  the difference was found.
- `SignatureFits`: `Interleaved = FALSE`, one thinking block.
- `CheckedWaits`: `OverflowChecks`, as the run has it.

The arguments.

- **Retry.** None of the properties is inductive. That a resend follows only
  curable failures needs that *all* earlier outcomes are curable, which needs to
  know how the current exchange stands at each `pc`; that the server ran nothing
  twice unseen needs that what the client saw is what the server answered; that
  the wait is right needs that `lastErr` is the failure of the exchange just
  before. These are the conjuncts `CurrentExchange`, `PastAndFuture`,
  `SeenIsAnswered` and `VerdictFromCurrent` of `IInv`. One proof step per action
  shows that `IInv` is preserved. The five actions that end an iteration share
  lemma `RetryStep`. Each safety property then follows from `IInv` without further
  induction, except the waits, which hold because `Sleep` alone sets them, together
  with `WaitExact`: where no step of the arithmetic overflows, the machine's result
  is the exact one. `Foundations` gets `2^n` in the naturals from the cardinality of
  sets, because the provers know nothing of exponentiation. The refinement is
  shown action by action; `Send`, `Sleep`, the drop of a call and the server's
  steps map to stutters or to `Abandon`.
- **Consumers.** `ConsumerInv` says, of each consumer, which kinds of items it can
  have taken: while it reads, none that ends it; and there are three ways to an
  answer (the first Stop taken last, the end of the stream without one, and for the
  command line tool an error chunk). Beside it stand the types, which
  make sure that a call that is begun has an id, a name and arguments.
  `AnswerIsSum` shows that each of the functions of the whole sequence of items
  that make up the abstract answer (texts put together, last signature, latest
  counts, last start of a call and the fragments behind it) changes with one item more
  as the accumulator does when it takes it.
- **The body.** The body is the document byte by byte (`Spells`), which is shown by
  induction over its characters. `BodyInv` says that the chunk at hand is the next
  segment of it, that the characters of the text have begun before, and rise; and that while no
  chunk has cut a character, the text is exactly the characters from the first
  to the one the chunk ends with. A segment that begins and ends where
  characters do decodes to those characters (`LossyWhole`), any other to
  rising ones with replacements between (`LossyRises`). An answer needs the last
  character, whose one byte is the last of the body (`LastByte`), so all of it has
  come.
- **Streams.** What the consumer will do with a broken stream is decided by the
  items between adapter and consumer, so `StreamInv` speaks of the *queue*: before
  the server finishes or fails, nothing in it ends a consumer (`Tame`); once the
  server has failed before the finish reason, the first item that does is an `Err`,
  and once it has finished first, it is a `Stop` (`EndsIn`). Every event keeps this,
  because appending to a queue that already ends a consumer changes nothing
  (`EndThenAny`), and appending to a tame one makes it end as the event does
  (`TameThenEnd`). Each adapter adds how the stage of its server fits the reason.
- **What streams carry.** That an answer is whole depends on what the items still in
  the queue will add to it, a fold that the provers cannot unfold. `Flow` states it
  as the existence of a path: from the answer at hand, taking item after item of the
  queue, there is a sequence of answers, each one a beginning of what was said
  (`Sound`), to an answer that has all of it (`Full`) in front of the Stop, or of
  the end of the queue as long as there is no reason. Every event lengthens the
  path by what its items `Carry`; taking an item shortens it at the other end.
  The three properties are what `Flow` says of the two ends of the path. For
  Anthropic, `BlocksSay` ties the record of what was said to the blocks of the
  document, which gives `RoutesMakeOneAnswer`: both routes then make the same lists,
  calls in the order of their indices.
- **Conversion.** The lists are well formed, and of any two neighbours the
  second was not mergeable into the first: merging replaces the last message only,
  and by one of the same role and, for OpenAI, with the same answer to whether it
  has calls. For `NeighboursJoin`, every text, image and call carries the number of the
  message it comes from (`OwnWords`), and `SpokenInv` says that the numbers stand in
  order over the messages of either request and that an assistant's message has a list
  of calls just when all those it is made of had one (`Alike`). A new message has the
  greatest number and goes to the end, into a message of its own or the last one
  (`StaysInPlace`).
- **What conversion says.** Each of the lists that `OpenAiSaysAll` and
  `AnthropicSaysAll` compare is the concatenation of what single messages, or single
  blocks, say (`FlatImage` of a function, in `Foundations`). So it is enough that
  converting one message keeps what it says, which is a case for each kind of
  message, and that merging two messages says what both say. `FlatImageAppend`,
  `FlatImageLonger` and `FlatImageConcat` carry this to whole histories.
- **Where results stand.** `PlacedInv`, given a history whose results follow their
  calls: every call and result of a request is of a call of the history, and as long
  as only results have come behind a call (`Quiet`), only results stand
  behind it in the OpenAI request, and in the Anthropic request its turn is the last,
  or the last but one before a turn of nothing but results (`Awaits`). A new result
  finds its call quiet, by the hypothesis on the history; any other message ends
  the quiet of all calls before it, so nothing more is claimed of them. That a new
  call is none of the answered ones is because calls are numbered with their
  messages (`Numbered`). For Anthropic the roles do the rest: a turn of results is
  the user's, so a result behind it merges into it.
- **Configuration.** `SetupInv`: the adapter's limit and the counts of its profile
  are numbers; where the factory made it from a configuration, a profile that can be
  asked to think says so, its protocol is the one decided by caller and URL and its
  base is the caller's URL; and every request is the one that adapter builds.
  `RowsAgree` goes through the table: a row's profile is one of its own protocol.
  `UrlDecides` and `EndpointBelow` are about the
  last elements of a host and a path of any length.

The prover has no induction over data by its library, whose theorems take an
operator as a parameter. It has induction over the naturals in the form of a
set, though (`Induction` in `Foundations`: a set with 0 and with every successor
holds all of `Nat`), and the definition of `FlattenSeq` as a function, from which
the lemmas about sequences follow. Definitions that summed up sequences by other
means were restated with `FlattenSeq` for this, and checked again.

Only model-checked:

- liveness (`Termination`, `AlwaysCollected`, `ReadEnds`,
  `ClosedStreamIsCollected`), which is out of the prover's reach;
- the waits of a build without overflow checks, which are wrong once
  the word overflows and right as long as it does not.

## Divergences

Where a document, comment or name of the repository and the code disagree. The
first five have a run that exhibits them; `PROJECT.json` quotes the lines.

1. `GenericProviderWrap`: in a build without overflow checks the exponential wraps
   before it is capped (`src/generic.rs:237`), and the wait collapses; a debug build
   panics. With the defaults this needs some 55 retries.
2. `OpenAiStreamUsage`: `collect_response` returns at the Stop of the finish
   reason, but the usage event that `stream_options.include_usage` asks for
   comes behind it.
3. `OpenAiStreamEof`: a body that ends in good order before the finish reason is
   an answer with the reason `Stop`; `docs/architecture.md` says a stream that dies
   surfaces as an error.
4. `AnthropicStreamInterleaved`: with two thinking blocks the texts are joined
   and the last signature is kept: a pair the server never signed.
5. `HttpBodyText`: `text()` decodes each chunk by itself, so that a character
   across two chunks becomes replacement characters.

Met while modelling, and not among the runs:

- The documents say that 429 and 5xx are retried; failed sends are retried too,
  also when the request may have reached the server. `Curable` counts them in.
- `collect_text` passes over `StreamChunk::Error` and goes on.
- `[DONE]` makes a second Stop; the documents say it is skipped. Only a consumer
  that reads on behind the first Stop sees it.
- An OpenAI-compatible server that finishes with `end_turn`, `max_tokens` or
  `tool_use` is understood when it streams and not when it answers in one
  piece (`Other`).
- Four differences between the routes, which `RoutesAgree` leaves room for: usage
  behind the finish reason is in the answer only when it is not streamed (OpenAI);
  a call without input has the arguments `{}` in one piece and none streamed
  (Anthropic); `stop_sequence`, `pause_turn` and `refusal` are translated in one
  piece only, and an unknown reason is `Other` there; blocks are put together in
  order in one piece and as their deltas come when streamed.
- `"error": null` counts as an error, on either route (`OpenAiStream`).
- Tool calls without an index all take the index of their choice, so the second
  one overwrites the first (`OpenAiStream` with `UnindexedCalls` 2).
- An Anthropic stop reason the adapter does not know makes no Stop, and neither
  does `message_stop`: a connection that breaks behind it costs the answer.
- A non-streaming body that breaks off is reported as an `Llm` error; the
  documentation of `text()` speaks of a `Stream` error.
- A comment of the OpenAI adapter (`protocol.rs:316-317`) says that text and calls are
  not put into one message. An assistant's message that has both is sent as one, and
  two that both have both are merged into one, in which each text stands beside the
  calls of the other message too. Merging asks for a *list* of calls on both sides or
  on neither (`is_array`), and an empty list is one: a text that came with an empty list
  is merged with a following message of calls, just what the comment rules out.
  `OnlyNeighboursJoin` states what the code does: with a list and without are kept apart.
- An assistant's message with neither text nor calls is sent to OpenAI as a role
  and nothing else, and dropped by the Anthropic adapter; an empty list of calls
  is sent as an empty array; an empty text of the user's is sent as a block.
- Images of a tool result cannot be sent to OpenAI and become a note; the
  detail of an image is not sent to Anthropic.
- Arguments that are not JSON become an empty object on the way to Anthropic.
- A tool given as `{"function": ...}` without a type is wrapped a second time by the
  OpenAI adapter, which hides its name; the Anthropic adapter drops tools that are
  bare or have no name, without a word.
- A misspelt `LLM_PROTOCOL` is ignored and the protocol inferred.
- `response_format` is sent by neither adapter.
- The command line tool accepts `--max-tokens` and does not use it, ends with
  success when it meets an error chunk, and cuts a signature at byte 20, which
  panics inside a character.
- An Anthropic adapter without a profile says it supports thinking and never asks
  for it.
- The documents give the user's configuration precedence over the profile; an
  explicit limit of 16384 is the default and gives way to the profile's.
- `ModelProfile` ties nothing together: a hand-made profile may say that it does not
  support thinking and have a reasoning mode, and the adapter then asks for thinking,
  as it goes by the mode alone (so do the tests, `openai/protocol.rs:1368-1419`).
- An OpenAI-compatible event that is JSON of another shape is passed over without an
  error; the Anthropic adapter reports one (except for types of events it does not
  know).
- `budget + 1` is `u32` arithmetic: a budget of `u32::MAX` wraps the limit to 0
  or panics.
- A request that overrides the model keeps limit and reasoning of the configured
  model's profile.
- With the mode `Both`, `to_spec` decides without knowing the protocol, and the
  adapter drops what its protocol cannot express.
- `options["max_tokens"]` reaches the body although a comment in the factory
  says it is not used.

## Not modelled

- The adapters' own `execute_stream`, which nothing calls, `extract_tool_calls`,
  the same, and `ProfiledProvider`'s delegation of `chat` and `stream`.
- What no step of the code depends on: the mark `ephemeral`, the media type of an
  image, the raw document of a response, `response_format`, the content of a tool
  beyond its name and form.
- Headers, JSON layout, logging, reading the tools file, printing, fuzz targets,
  examples and CI: input, output and wording. Of endpoints the path is modelled.
- `eventsource_stream`, `reqwest`, `serde_json`, `tokio` and the vendors' servers:
  external; modelled as far as the code depends on them (a stream of events that
  ends or fails, a body in chunks, a send that answers or fails).

## Plan

Done, in this order: the retry loop, since every call goes through it and its
mistakes cost money, with its proofs; the consumers of streams; the two streaming
adapters; the body; the configuration; the conversion of messages; responses in
one piece; the proofs about streams, conversion and configuration; the proofs
of what streams and conversions carry, and of the body.

Next:

1. A composition of `GenericProvider` with `ChatStream` for the route "collect",
   in place of the choice `Collect` makes.
2. A theorem on the waits of a build without overflow checks: right as long as no
   product passes the word.
