--------------------------- MODULE MCProviderSetup ---------------------------
(***************************************************************************)
(* Models, URLs, options and reasoning configurations for TLC.  Token      *)
(* counts are 18 bits wide, enough for every limit of the table.           *)
(***************************************************************************)
EXTENDS ProviderSetup

Named(name, prefix) == [name |-> name, prefixes |-> {prefix}]

(* A row of its own, a brand row, a brand with a row per protocol, and     *)
(* names the table does not know.                                          *)
Models ==
  {Named("gpt-4o", "gpt-"), Named("claude-opus", "claude-"), Named("deepseek-reasoner", "deepseek-"),
   Named("mimo-v2.5-pro", "mimo-"), Named("qwen-max", "qwen-"), [name |-> "llama", prefixes |-> {}]}

Address(host, path) == [scheme |-> TRUE, host |-> host, path |-> path]
Urls ==
  {Address(<<"api", "anthropic", "com">>, <<>>), Address(<<"anthropic", "com">>, <<"v1">>),
   Address(<<"notanthropic", "com">>, <<>>), Address(<<"anthropic", "com", "evil", "com">>, <<"v1">>),
   Address(<<"relay", "com">>, <<"apps", "anthropic">>),
   [scheme |-> FALSE, host |-> <<"api", "anthropic", "com">>, path |-> <<"anthropic">>]}

Options ==
  {None, [text |-> TRUE, value |-> 42], [text |-> FALSE, value |-> 42],
   [text |-> TRUE, value |-> 300000], [text |-> FALSE, value |-> 300000]}

(* Names of the three protocols, of each a short one, and a misspelt one.  *)
Names == {"openai", "claude", "responses", "antropic"}

Asked(enabled, budget, effort) == [enabled |-> enabled, budget |-> budget, effort |-> effort]
SomeReasoning ==
  {None} \cup {Asked(enabled, budget, effort) :
                 enabled \in {None, TRUE, FALSE}, budget \in {None, 42, 16383, 16384, 200000, 262143},
                 effort \in {None, "None", "Low", "XHigh"}}

(* As the OpenAI API writes a tool, the function alone, a function without *)
(* a type, and one without a name.                                         *)
Tools ==
  {Tool(TRUE, TRUE, "look"), Tool(FALSE, FALSE, "read"), Tool(FALSE, TRUE, "draw"), Tool(TRUE, TRUE, None)}

(* Reasoning, tools and streaming do not meet in the code: each is varied  *)
(* beside one value of the others.                                         *)
Ask(model, reasoning, tools, mode) ==
  [model |-> model, reasoning |-> reasoning, tools |-> tools, mode |-> mode]
Requests ==
  {Ask(model, reasoning, <<>>, "Once") :
     model \in {None, Named("mimo-v2.5-pro", "mimo-")}, reasoning \in SomeReasoning}
    \cup {Ask(None, None, tools, mode) : tools \in BoundedSeq(Tools, 2), mode \in {"Stream", "Once"}}

(* Profiles that agree with themselves and profiles that do not, for the   *)
(* adapter's protocol and for another.                                     *)
OwnProfiles ==
  {Profile(protocol, "own", mode, thinks, output) :
     protocol \in {"OpenAi", "Anthropic"}, mode \in ReasoningMode, thinks \in BOOLEAN,
     output \in {None, 42, 128000}}
Limits == {42}

==============================================================================
