---------------------------- MODULE ModelRegistry ----------------------------
(***************************************************************************)
(* The registry of model profiles: the built-in table and lookup().  A     *)
(* model name is its text and the prefixes of the brand table it starts    *)
(* with; a URL is the labels of its host and the segments of its path.     *)
(* Of a profile, what requests and info() are made from is kept.           *)
(***************************************************************************)
EXTENDS Integers, Sequences, SequencesExt

CONSTANTS
  None,            \* Option::None
  AnthropicPaths   \* the path segments that begin with "anthropic"

Protocol == {"OpenAi", "OpenAiResponses", "Anthropic"}
ReasoningMode == {"None", "Effort", "Thinking", "Both"}

(* Of the capabilities: whether the model thinks, and its output limit,    *)
(* which every row of the table has and a profile of one's own may lack.   *)
Profile(protocol, provider, mode, thinks, output) ==
  [protocol |-> protocol, provider |-> provider, mode |-> mode,
   thinks |-> thinks, output |-> output]

(* builtin(): the rows of the five brands, by model and protocol.          *)
GptRows ==
  {"gpt", "gpt-4o", "gpt-4o-mini"} \X {<<"OpenAi", Profile("OpenAi", "openai", "None", FALSE, 16384)>>}
ClaudeRows ==
  {"anthropic", "claude", "claude-sonnet-4-20250514"}
    \X {<<"Anthropic", Profile("Anthropic", "anthropic", "Thinking", TRUE, 16384)>>}
DeepseekRows ==
  {"deepseek", "deepseek-chat", "deepseek-reasoner"}
    \X {<<"OpenAi", Profile("OpenAi", "deepseek", "Effort", TRUE, 16384)>>}
MimoRows ==
  {"mimo"} \X {<<"OpenAi", Profile("OpenAi", "mimo", "None", TRUE, 128000)>>,
               <<"Anthropic", Profile("Anthropic", "mimo", "Thinking", TRUE, 128000)>>}
QwenRows ==
  ({"qwen", "qwen-plus", "qwen-vl"} \X {<<"OpenAi", Profile("OpenAi", "qwen", "None", FALSE, 16384)>>})
    \cup ({"qwen-max"} \X {<<"OpenAi", Profile("OpenAi", "qwen", "None", FALSE, 32768)>>})

Rows == GptRows \cup ClaudeRows \cup DeepseekRows \cup MimoRows \cup QwenRows

BrandPrefixes ==
  <<<<"gpt-", "gpt">>, <<"claude-", "claude">>, <<"anthropic-", "anthropic">>,
    <<"deepseek-", "deepseek">>, <<"mimo-", "mimo">>, <<"qwen-", "qwen">>>>

(* profiles.get("name@protocol").                                          *)
Find(name, protocol) == {row[2][2] : row \in {r \in Rows : r[1] = name /\ r[2][1] = protocol}}

-----------------------------------------------------------------------------

(* infer_brand: the first prefix of the table the name starts with.        *)
InferBrand(model) ==
  LET hits == SelectSeq(BrandPrefixes, LAMBDA b : b[1] \in model.prefixes)
  IN  IF hits = <<>> THEN None ELSE hits[1][2]

(* domain_matches: the host is the domain, or ends in "." and the domain.  *)
DomainMatches(url, domain) == url.scheme /\ IsSuffix(domain, url.host)

(* "/anthropic" in the path: a segment begins with it.                     *)
InferProtocolFromUrl(url) ==
  IF DomainMatches(url, <<"anthropic", "com">>)
     \/ (url.scheme /\ \E n \in DOMAIN url.path : url.path[n] \in AnthropicPaths)
    THEN "Anthropic" ELSE None

DefaultProfile(protocol) ==
  IF protocol = "Anthropic"
    THEN Profile("Anthropic", "anthropic", "Thinking", TRUE, 16384)
    ELSE Profile("OpenAi", "openai", "None", FALSE, 16384)

(* Step 1 of lookup: explicit, inferred from the URL, or OpenAi.           *)
ProtocolFor(url, explicit) ==
  IF explicit # None THEN explicit
  ELSE IF InferProtocolFromUrl(url) # None THEN InferProtocolFromUrl(url)
  ELSE "OpenAi"

(* Mutant of FindProfile: the brand default is taken of any protocol.      *)
FindProfileOfBrand(model, protocol) ==
  LET exact == Find(model.name, protocol)
      brand == UNION {Find(InferBrand(model), p) : p \in Protocol}
  IN  CASE exact # {} -> CHOOSE p \in exact : TRUE
        [] exact = {} /\ brand # {} -> CHOOSE p \in brand : TRUE
        [] OTHER -> DefaultProfile(protocol)

(* Steps 2 to 4: the exact row, the brand's row, the protocol's default.   *)
FindProfile(model, protocol) ==
  LET exact == Find(model.name, protocol)
      brand == Find(InferBrand(model), protocol)
  IN  CASE exact # {} -> CHOOSE p \in exact : TRUE
        [] exact = {} /\ brand # {} -> CHOOSE p \in brand : TRUE
        [] OTHER -> DefaultProfile(protocol)

Lookup(model, url, explicit) == FindProfile(model, ProtocolFor(url, explicit))

==============================================================================
