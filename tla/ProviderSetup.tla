---------------------------- MODULE ProviderSetup ----------------------------
(***************************************************************************)
(* From a configuration to the bodies of the requests: create_provider     *)
(* with the profile of the registry, or an adapter put together by hand    *)
(* (new, with_max_tokens, with_model_profile), then build_request for a    *)
(* chat request.  What the raw request says of the model, the limit,       *)
(* reasoning, tools and streaming is kept, with its path; its messages are *)
(* the concern of MessageConversion.                                       *)
(***************************************************************************)
EXTENDS ModelRegistry

CONSTANTS
  Model,        \* the models a configuration or a request may name
  Url,          \* base URLs
  Option,       \* values of options["max_tokens"], None if not there
  ProtocolName, \* what LLM_PROTOCOL or --protocol may say, in lower case
  Request,      \* chat requests: model, reasoning, tools and call mode
  Limit,        \* limits the library's user gives to with_max_tokens
  OwnProfile,   \* profiles the library's user gives to with_model_profile
  WordBits      \* width of a token count: u32 in the code

(* Token counts are numbers, tools are a list, a profile of the user's own *)
(* has a reasoning mode and perhaps an output limit, whatever else it      *)
(* says, and no base URL says "v1" twice in a row.                         *)
ASSUME CountAssumption ==
  /\ WordBits \in Nat
  /\ Limit \subseteq Nat
  /\ \A option \in Option : option = None \/ option.value \in Nat
  /\ \A req \in Request : req.reasoning = None \/ req.reasoning.budget \in Nat \cup {None}
ASSUME ToolAssumption == \A req \in Request : req.tools \in Seq(Range(req.tools))
ASSUME ProfileAssumption ==
  \A profile \in OwnProfile : profile.mode \in ReasoningMode /\ profile.output \in Nat \cup {None}
ASSUME NameAssumption == None \notin Protocol
ASSUME UrlAssumption ==
  \A url \in Url :
    /\ url.host \in Seq(Range(url.host)) /\ url.path \in Seq(Range(url.path))
    /\ \A n \in 1 .. Len(url.path) - 1 : url.path[n] = "v1" => url.path[n + 1] # "v1"

NoProvider == [tag |-> "none"]
Refused == [tag |-> "config_error"]

VARIABLES
  config,      \* the LlmConfig, None before create_provider
  provider,    \* the adapter: its protocol, model, limit and profile
  request,     \* the latest chat request
  raw          \* the RawRequest made of it

vars == <<config, provider, request, raw>>

Wrap(n) == n % 2^WordBits
DefaultMaxTokens == 16384
Effort == {"None", "Low", "Medium", "High", "XHigh"}

-----------------------------------------------------------------------------
(* Creating the provider. *)

(* from_config: a number is cut to 32 bits, a text must parse as such.     *)
FromOptions(option) ==
  CASE option = None -> DefaultMaxTokens
    [] option # None /\ option.text /\ option.value < 2^WordBits -> option.value
    [] option # None /\ option.text /\ option.value >= 2^WordBits -> DefaultMaxTokens
    [] OTHER -> Wrap(option.value)

Adapter(protocol, model, base, limit, profile) ==
  [tag |-> "adapter", protocol |-> protocol, model |-> model, base |-> base,
   limit |-> limit, profile |-> profile]

(* build_protocol: the profile chooses the adapter.                        *)
BuildProtocol(profile, c) ==
  Adapter(profile.protocol, c.model, c.url.path, FromOptions(c.option), profile)

(* The path of the base URL that new() takes if it is given none.          *)
DefaultBase(protocol) == IF protocol = "OpenAi" THEN <<"v1">> ELSE <<>>

(* capabilities() and info() of an adapter; of a provider made by          *)
(* create_provider (ProfiledProvider) they are those of the same profile.  *)
CapabilitiesOf(p) ==
  IF p.profile # None THEN [thinks |-> p.profile.thinks, output |-> p.profile.output]
  ELSE [thinks |-> p.protocol = "Anthropic", output |-> p.limit]
InfoOf(p) ==
  [name |-> IF p.profile # None THEN p.profile.provider
            ELSE IF p.protocol = "OpenAi" THEN "openai" ELSE "anthropic",
   model |-> p.model]

(* Protocol::from_str; whoever parses a name keeps ok() of the result.     *)
ProtocolOf(name) ==
  CASE name \in {"openai", "openai-chat"} -> "OpenAi"
    [] name \in {"openai-responses", "responses"} -> "OpenAiResponses"
    [] name \in {"anthropic", "claude"} -> "Anthropic"
    [] OTHER -> None

CreateProvider(c) ==
  IF c.incomplete \/ c.protocol = "OpenAiResponses" THEN Refused
  ELSE BuildProtocol(Lookup(c.model, c.url, c.protocol), c)

-----------------------------------------------------------------------------
(* Building a request. *)

NoSpec == [tag |-> "none"]
EffortSpec(e) == [tag |-> "effort", effort |-> e]
ThinkingSpec(b) == [tag |-> "thinking", budget |-> b]

BudgetOr2048(rc) == ThinkingSpec(IF rc.budget = None THEN 2048 ELSE rc.budget)
EffortIsSet(rc) == rc.effort \notin {None, "None"}

(* Mutant of ToSpec: enabled is not looked at.                             *)
ToSpecUnswitched(rc, mode) ==
  CASE mode = "None" -> NoSpec
    [] mode = "Effort" -> IF EffortIsSet(rc) THEN EffortSpec(rc.effort) ELSE NoSpec
    [] mode = "Thinking" -> BudgetOr2048(rc)
    [] mode = "Both" -> IF rc.budget = None /\ EffortIsSet(rc)
                          THEN EffortSpec(rc.effort) ELSE BudgetOr2048(rc)

(* ReasoningConfig::to_spec.                                               *)
ToSpec(rc, mode) ==
  CASE rc.enabled = FALSE \/ mode = "None" -> NoSpec
    [] rc.enabled # FALSE /\ mode = "Effort" ->
         IF EffortIsSet(rc) THEN EffortSpec(rc.effort) ELSE NoSpec
    [] rc.enabled # FALSE /\ mode = "Thinking" -> BudgetOr2048(rc)
    [] rc.enabled # FALSE /\ mode = "Both" ->
         IF rc.budget = None /\ EffortIsSet(rc) THEN EffortSpec(rc.effort) ELSE BudgetOr2048(rc)

(* A limit that is not the default is the user's and wins; a profile that  *)
(* names none leaves it at the default.                                    *)
EffectiveMaxTokens(p) ==
  IF p.limit # DefaultMaxTokens \/ p.profile = None \/ p.profile.output = None
    THEN p.limit ELSE p.profile.output

(* Without a profile nothing is said of reasoning.                         *)
SpecFor(p, req) ==
  IF req.reasoning = None \/ p.profile = None THEN NoSpec
  ELSE ToSpec(req.reasoning, p.profile.mode)

WireEffort(e) ==
  CASE e = "Low" -> "low" [] e = "Medium" -> "medium" [] OTHER -> "high"

EffectiveModel(p, req) == IF req.model = None THEN p.model ELSE req.model

(* A tool is JSON with a "type" or not, a "function" or not, and the name  *)
(* of that function, or its own.  A tool that lacks one of the two is      *)
(* wrapped as a whole, which hides the name of a function inside it.       *)
Tool(typed, nested, name) == [typed |-> typed, nested |-> nested, name |-> name]
OpenAiTools(tools) ==
  [n \in DOMAIN tools |->
    IF tools[n].typed /\ tools[n].nested THEN tools[n]
    ELSE Tool(TRUE, TRUE, IF tools[n].nested THEN None ELSE tools[n].name)]

(* Only what is inside a "function" and has a name is a tool of Anthropic. *)
AnthropicTools(tools) ==
  FlattenSeq([n \in DOMAIN tools |->
    IF tools[n].nested /\ tools[n].name # None THEN <<Tool(FALSE, FALSE, tools[n].name)>> ELSE <<>>])

(* build_openai_request: of the specs, only an effort is sent.             *)
OpenAiBody(p, req) ==
  LET spec == SpecFor(p, req)
  IN  [model |-> EffectiveModel(p, req), max_tokens |-> EffectiveMaxTokens(p),
       effort |-> IF spec.tag = "effort" THEN WireEffort(spec.effort) ELSE None,
       thinking |-> None, tools |-> OpenAiTools(req.tools), tool_choice |-> None,
       include_usage |-> req.mode = "Stream"]

(* Mutant of AnthropicBody: a budget that equals the limit is let through. *)
AnthropicBodyLoose(p, req) ==
  LET spec == SpecFor(p, req)
      budget == IF spec.tag = "thinking" THEN Wrap(spec.budget) ELSE None
      limit == EffectiveMaxTokens(p)
      tools == AnthropicTools(req.tools)
  IN  [model |-> EffectiveModel(p, req),
       max_tokens |-> IF budget # None /\ budget > limit THEN Wrap(budget + 1) ELSE limit,
       effort |-> None, thinking |-> budget, tools |-> tools,
       tool_choice |-> IF tools = <<>> THEN None ELSE "auto", include_usage |-> FALSE]

(* build_anthropic_request: only a budget is sent, in 32 bits, and the     *)
(* limit is raised above it; a release build wraps around.                 *)
AnthropicBody(p, req) ==
  LET spec == SpecFor(p, req)
      budget == IF spec.tag = "thinking" THEN Wrap(spec.budget) ELSE None
      limit == EffectiveMaxTokens(p)
      tools == AnthropicTools(req.tools)
  IN  [model |-> EffectiveModel(p, req),
       max_tokens |-> IF budget # None /\ budget >= limit THEN Wrap(budget + 1) ELSE limit,
       effort |-> None, thinking |-> budget, tools |-> tools,
       tool_choice |-> IF tools = <<>> THEN None ELSE "auto", include_usage |-> FALSE]

(* "/v1" is added unless the base, without slashes behind it, ends so.     *)
Endpoint(base, last) == (IF IsSuffix(<<"v1">>, base) THEN base ELSE Append(base, "v1")) \o last

(* build_request of the two adapters.                                      *)
OpenAiRequest(p, req) ==
  [path |-> Endpoint(p.base, <<"chat", "completions">>), auth |-> "Authorization",
   stream |-> req.mode = "Stream", body |-> OpenAiBody(p, req)]
AnthropicRequest(p, req) ==
  [path |-> Endpoint(p.base, <<"messages">>), auth |-> "x-api-key",
   stream |-> req.mode = "Stream", body |-> AnthropicBody(p, req)]

-----------------------------------------------------------------------------

Init ==
  /\ config = None
  /\ provider = NoProvider
  /\ request = None
  /\ raw = None

Create(incomplete, protocol, model, url, option) ==
  /\ provider = NoProvider
  /\ config' = [incomplete |-> incomplete, protocol |-> protocol, model |-> model,
                url |-> url, option |-> option]
  /\ provider' = CreateProvider(config')
  /\ UNCHANGED <<request, raw>>

(* from_env, and the command line tool, which has no options either: a     *)
(* name that is no protocol's is as good as none.                          *)
CreateFromNames(missing, name, model, url) ==
  Create(missing, IF name = None THEN None ELSE ProtocolOf(name), model, url, None)

(* An adapter of the library's user, with or without a profile.  Nothing   *)
(* ties the parts of such a profile to each other or to the adapter.       *)
CreateByHand(protocol, model, limit, profile) ==
  /\ provider = NoProvider
  /\ provider' = Adapter(protocol, model, DefaultBase(protocol), limit, profile)
  /\ UNCHANGED <<config, request, raw>>

(* The adapter keeps nothing of a request, so one stands for all.          *)
BuildRequest(req) ==
  /\ provider.tag = "adapter"
  /\ raw = None
  /\ request' = req
  /\ raw' = IF provider.protocol = "OpenAi"
              THEN OpenAiRequest(provider, req) ELSE AnthropicRequest(provider, req)
  /\ UNCHANGED <<config, provider>>

Next ==
  \/ \E incomplete \in BOOLEAN, protocol \in Protocol \cup {None}, model \in Model, url \in Url,
        option \in Option : Create(incomplete, protocol, model, url, option)
  \/ \E missing \in BOOLEAN, name \in ProtocolName \cup {None}, model \in Model, url \in Url :
        CreateFromNames(missing, name, model, url)
  \/ \E protocol \in {"OpenAi", "Anthropic"}, model \in Model, 
        limit \in Limit \cup {DefaultMaxTokens}, profile \in OwnProfile \cup {None} :
        CreateByHand(protocol, model, limit, profile)
  \/ \E req \in Request : BuildRequest(req)

Spec == Init /\ [][Next]_vars

-----------------------------------------------------------------------------
(* Properties. *)

Built == raw # None
Configured == config # None /\ provider.tag = "adapter"
NamesOf(tools) == [n \in DOMAIN tools |-> tools[n].name]

(* "Sending reasoning_effort to an endpoint that does not recognise it is  *)
(* a 400": neither protocol is sent the other's field, a profile without   *)
(* reasoning is sent none, nor is one whose caller switched it off, on     *)
(* every way from table, URL and request to the body.  Tools written as    *)
(* the OpenAI API writes them reach either server in their order, neither  *)
(* is told to choose among none, and Anthropic is offered none without a   *)
(* name.  And what a provider says of itself is so: one of the registry's  *)
(* that cannot think is not asked to, the model is the one any provider    *)
(* names, and so is the limit, if it names one, unless the user set        *)
(* another or thinking needs more.  A profile of the user's own may be     *)
(* asked for thinking and say that it cannot: the code goes by its mode.   *)
ReasoningUnderstood ==
  /\ raw.body.effort # None => provider.protocol = "OpenAi" /\ provider.profile.mode \in {"Effort", "Both"}
  /\ raw.body.thinking # None =>
       provider.protocol = "Anthropic" /\ provider.profile.mode \in {"Thinking", "Both"}
  /\ request.reasoning # None /\ request.reasoning.enabled = FALSE =>
       raw.body.effort = None /\ raw.body.thinking = None
ToolsUnderstood ==
  /\ (\A n \in DOMAIN request.tools : request.tools[n].typed /\ request.tools[n].nested
                                        /\ request.tools[n].name # None)
       => NamesOf(raw.body.tools) = NamesOf(request.tools)
  /\ raw.body.tool_choice # None => raw.body.tools # <<>>
  /\ provider.protocol = "Anthropic" => None \notin {raw.body.tools[n].name : n \in DOMAIN raw.body.tools}
SelfDescriptionHolds ==
  /\ Configured /\ (raw.body.effort # None \/ raw.body.thinking # None) =>
       CapabilitiesOf(provider).thinks
  /\ request.model = None => raw.body.model = InfoOf(provider).model
  /\ /\ CapabilitiesOf(provider).output # None
     /\ provider.profile = None \/ (provider.limit = DefaultMaxTokens /\ raw.body.thinking = None)
     => raw.body.max_tokens = CapabilitiesOf(provider).output
OnlyFieldsUnderstood == Built => ReasoningUnderstood /\ ToolsUnderstood /\ SelfDescriptionHolds

(* A request that asks for thinking leaves room for an answer: the limit   *)
(* is above the budget, whichever of option, profile and default it came   *)
(* from.  Only above a budget that is the last 32-bit number is no room.   *)
ThinkingLeavesRoom ==
  (Built /\ raw.body.thinking \notin {None, 2^WordBits - 1}) =>
    raw.body.thinking < raw.body.max_tokens

(* The adapter a provider is built on speaks the protocol the caller named *)
(* or, if none was named, the one the URL stands for: a row found by brand *)
(* or a default never changes it.  Its requests go to that protocol's      *)
(* endpoint below the caller's URL, with "v1" once between the two.        *)
Official(url) == url.scheme /\ Len(url.host) >= 2 /\ SubSeq(url.host, Len(url.host) - 1, Len(url.host)) = <<"anthropic", "com">>
Gateway(url) == url.scheme /\ \E n \in DOMAIN url.path : url.path[n] \in AnthropicPaths
DecidedProtocol ==
  IF config.protocol # None THEN config.protocol
  ELSE IF Official(config.url) \/ Gateway(config.url) THEN "Anthropic"
  ELSE "OpenAi"
EndpointOf(protocol) ==
  <<"v1">> \o (IF protocol = "OpenAi" THEN <<"chat", "completions">> ELSE <<"messages">>)
BelowBase ==
  /\ IsPrefix(config.url.path, raw.path)
  /\ IsSuffix(EndpointOf(DecidedProtocol), raw.path)
  /\ Len(raw.path) <= Len(config.url.path) + Len(EndpointOf(DecidedProtocol))
  /\ \A n \in 1..Len(raw.path) - 1 : raw.path[n] = "v1" => raw.path[n + 1] # "v1"
ProtocolIsDecided ==
  Configured => provider.protocol = DecidedProtocol /\ (Built => BelowBase)

==============================================================================
