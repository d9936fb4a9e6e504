------------------------- MODULE ProviderSetupProofs -------------------------
(***************************************************************************)
(* Theorems about creating providers and building requests: for any models *)
(* and URLs, any options, any requests and any width of a token count.     *)
(***************************************************************************)
EXTENDS ProviderSetup, Foundations

-----------------------------------------------------------------------------
(* Token counts. *)

(* A count is cut to the word; what fits into it is kept.                  *)
LEMMA WrapType ==
  /\ 2^WordBits \in Nat
  /\ \A n \in Nat : Wrap(n) \in 0 .. 2^WordBits - 1 /\ (n < 2^WordBits => Wrap(n) = n)
<1> DEFINE word == 2^WordBits
<1>1. word \in Nat /\ word >= 1
  BY PowerType, CountAssumption
<1> HIDE DEF word
<1>2. \A n \in Nat : n % word \in 0 .. word - 1 /\ (n < word => n % word = n)
  BY <1>1, Remainder
<1> QED
  BY <1>1, <1>2 DEF Wrap, word

(* A limit from the options is a number.                                   *)
LEMMA OptionType ==
  ASSUME NEW option \in Option
  PROVE  FromOptions(option) \in Nat
<1>1. CASE option = None
  BY <1>1 DEF FromOptions, DefaultMaxTokens
<1>2. CASE option # None
  <2>1. option.value \in Nat /\ Wrap(option.value) \in Nat /\ 2^WordBits \in Nat
    BY <1>2, CountAssumption, WrapType
  <2> QED
    BY <1>2, <2>1 DEF FromOptions, DefaultMaxTokens
<1> QED
  BY <1>1, <1>2

(* What is asked of the model: an effort or thinking only where the mode   *)
(* of the profile has it, with a budget that is a number, and nothing of a *)
(* caller who switched reasoning off.                                      *)
LEMMA SpecType ==
  ASSUME NEW p, p.profile = None \/ p.profile.mode \in ReasoningMode, NEW req \in Request
  PROVE  LET spec == SpecFor(p, req)
         IN  /\ spec.tag = "effort" => p.profile.mode \in {"Effort", "Both"}
             /\ spec.tag = "thinking" => spec.budget \in Nat /\ p.profile.mode \in {"Thinking", "Both"}
             /\ req.reasoning # None /\ req.reasoning.enabled = FALSE => spec.tag = "none"
<1> DEFINE rc == req.reasoning
           mode == p.profile.mode
           spec == SpecFor(p, req)
<1>1. /\ NoSpec.tag = "none"
      /\ \A e : EffortSpec(e).tag = "effort"
      /\ \A b : ThinkingSpec(b).tag = "thinking" /\ ThinkingSpec(b).budget = b
  BY DEF NoSpec, EffortSpec, ThinkingSpec
<1>2. CASE rc = None \/ p.profile = None
  BY <1>1, <1>2 DEF SpecFor
<1>3. CASE rc # None /\ p.profile # None
  <2>1. spec = ToSpec(rc, mode) /\ mode \in ReasoningMode
    BY <1>3 DEF SpecFor
  <2>2. rc.budget \in Nat \cup {None}
    BY <1>3, CountAssumption
  <2>3. BudgetOr2048(rc).tag = "thinking" /\ BudgetOr2048(rc).budget \in Nat
    BY <1>1, <2>2 DEF BudgetOr2048
  <2> HIDE DEF rc, mode, spec
  <2>4. CASE rc.enabled = FALSE \/ mode = "None"
    BY <1>1, <2>1, <2>4 DEF ToSpec, rc, mode, spec
  <2>5. CASE rc.enabled # FALSE /\ mode = "Effort"
    BY <1>1, <2>1, <2>5 DEF ToSpec, rc, mode, spec
  <2>6. CASE rc.enabled # FALSE /\ mode = "Thinking"
    BY <1>1, <2>1, <2>3, <2>6 DEF ToSpec, rc, mode, spec
  <2>7. CASE rc.enabled # FALSE /\ mode = "Both"
    BY <1>1, <2>1, <2>3, <2>7 DEF ToSpec, rc, mode, spec
  <2> QED
    BY <2>1, <2>4, <2>5, <2>6, <2>7 DEF ReasoningMode
<1> QED
  BY <1>2, <1>3

(* A body of Anthropic's that asks for thinking leaves room for it.        *)
LEMMA BodyLeavesRoom ==
  ASSUME NEW p, p.profile = None \/ p.profile.mode \in ReasoningMode, NEW req \in Request,
         EffectiveMaxTokens(p) \in Nat,
         AnthropicBody(p, req).thinking \notin {None, 2^WordBits - 1}
  PROVE  AnthropicBody(p, req).thinking < AnthropicBody(p, req).max_tokens
<1> DEFINE spec == SpecFor(p, req)
           budget == IF spec.tag = "thinking" THEN Wrap(spec.budget) ELSE None
           limit == EffectiveMaxTokens(p)
           body == AnthropicBody(p, req)
           word == 2^WordBits
<1>1. /\ body.thinking = budget
      /\ body.max_tokens = IF budget # None /\ budget >= limit THEN Wrap(budget + 1) ELSE limit
  BY DEF AnthropicBody
<1>2. spec.tag = "thinking" /\ budget = Wrap(spec.budget)
  BY <1>1
<1>3. spec.budget \in Nat
  BY <1>2, SpecType
<1>4. budget \in 0 .. word - 1 /\ word \in Nat
  BY <1>2, <1>3, WrapType
<1> HIDE DEF budget, spec
<1>5. budget # None /\ budget \in Nat /\ budget < word - 1 /\ word \in Nat
  BY <1>1, <1>4
<1>6. budget + 1 \in Nat /\ budget + 1 < word
  BY <1>5
<1> HIDE DEF word
<1>7. Wrap(budget + 1) = budget + 1
  BY <1>6, WrapType DEF word
<1> HIDE DEF limit, body
<1>8. limit \in Nat
  BY DEF limit
<1> QED
  BY <1>1, <1>5, <1>7, <1>8 DEF body

-----------------------------------------------------------------------------
(* Tools. *)

(* What a tool of the request becomes for an Anthropic server, if anything. *)
OffersNamed(tools) ==
  [tool \in Range(tools) |->
     IF tool.nested /\ tool.name # None THEN <<Tool(FALSE, FALSE, tool.name)>> ELSE <<>>]
Offered(tools) == {Tool(FALSE, FALSE, tool.name) : tool \in {t \in Range(tools) : t.name # None}}

(* It is a list, and the lists together are the tools of the request.      *)
LEMMA OffersType ==
  ASSUME NEW tools, tools \in Seq(Range(tools))
  PROVE  /\ OffersNamed(tools) \in [Range(tools) -> Seq(Offered(tools))]
         /\ AnthropicTools(tools) = FlatImage(OffersNamed(tools), tools)
<1>1. \A tool \in Range(tools) : OffersNamed(tools)[tool] \in Seq(Offered(tools))
  <2> SUFFICES ASSUME NEW tool \in Range(tools)
               PROVE  OffersNamed(tools)[tool] \in Seq(Offered(tools))
    OBVIOUS
  <2>1. CASE tool.nested /\ tool.name # None
    <3>1. Tool(FALSE, FALSE, tool.name) \in Offered(tools)
      BY <2>1 DEF Offered
    <3>2. OffersNamed(tools)[tool] = <<Tool(FALSE, FALSE, tool.name)>>
      BY <2>1, Zenon DEF OffersNamed
    <3>3. \A offer \in Offered(tools) : <<offer>> \in Seq(Offered(tools))
      OBVIOUS
    <3> QED
      BY <3>1, <3>2, <3>3, Zenon
  <2>2. CASE ~ (tool.nested /\ tool.name # None)
    <3>1. OffersNamed(tools)[tool] = <<>>
      BY <2>2, Zenon DEF OffersNamed
    <3> QED
      BY <3>1
  <2> QED
    BY <2>1, <2>2
<1>2. \A n \in DOMAIN tools : tools[n] \in Range(tools)
  BY DEF Range
<1>3. Mapped(OffersNamed(tools), tools) =
        [n \in DOMAIN tools |-> IF tools[n].nested /\ tools[n].name # None
                                 THEN <<Tool(FALSE, FALSE, tools[n].name)>> ELSE <<>>]
  BY <1>2 DEF Mapped, OffersNamed
<1> QED
  BY <1>1, <1>3 DEF AnthropicTools, FlatImage, OffersNamed

(* A nameless tool is offered to no Anthropic server; tools as the OpenAI  *)
(* API writes them all are, in their order.                                *)
LEMMA AnthropicOffers ==
  ASSUME NEW tools, tools \in Seq(Range(tools))
  PROVE  /\ \A n \in DOMAIN AnthropicTools(tools) : AnthropicTools(tools)[n].name # None
         /\ (\A n \in DOMAIN tools : tools[n].nested /\ tools[n].name # None)
              => NamesOf(AnthropicTools(tools)) = NamesOf(tools)
<1> DEFINE F == OffersNamed(tools)
           S == Range(tools)
           T == Offered(tools)
<1>1. F \in [S -> Seq(T)] /\ AnthropicTools(tools) = FlatImage(F, tools) /\ tools \in Seq(S)
  BY OffersType
<1>2. \A n \in DOMAIN tools : tools[n] \in S
  BY DEF Range
<1>t. \A name : Tool(FALSE, FALSE, name).name = name
  BY DEF Tool
<1>3. \A offer \in T : offer.name # None
  BY <1>t DEF Offered
<1>4. FlatImage(F, tools) \in Seq(T)
  <2> HIDE DEF F, S, T
  <2> QED
    BY <1>1, FlatImageType
<1>5. ASSUME \A n \in DOMAIN tools : tools[n].nested /\ tools[n].name # None
      PROVE  NamesOf(AnthropicTools(tools)) = NamesOf(tools)
  <2> DEFINE c == [n \in 1 .. Len(tools) |-> Tool(FALSE, FALSE, tools[n].name)]
  <2>0. DOMAIN tools = 1 .. Len(tools) /\ Len(tools) \in Nat
    BY <1>1
  <2>1. \A n \in 1 .. Len(tools) : c[n] \in T /\ F[tools[n]] = <<c[n]>>
    BY <1>2, <1>5, <2>0 DEF Offered, OffersNamed
  <2>2. c \in Seq(T) /\ Len(c) = Len(tools)
    <3> c \in [1 .. Len(tools) -> T]
      BY <2>1
    <3> HIDE DEF c, T
    <3> QED
      BY <2>0, SeqOfPositions
  <2>3. MakesEach(F, tools, c)
    BY <2>1, <2>2 DEF MakesEach
  <2>4. FlatImage(F, tools) = c
    <3> HIDE DEF F, S, T, c
    <3> QED
      BY <1>1, <2>2, <2>3, FlatImageSingles
  <2> QED
    BY <1>1, <1>t, <2>0, <2>2, <2>4, ZenonT(40) DEF NamesOf
<1> QED
  BY <1>1, <1>3, <1>4, <1>5

-----------------------------------------------------------------------------
(* Profiles. *)

(* Whoever has a way to be asked for thinking says that it thinks.         *)
ThinksIfAsked(p) == p.mode # "None" => p.thinks = TRUE
ProfileOf(p, protocol) ==
  p.protocol = protocol /\ p.mode \in ReasoningMode /\ p.output \in Nat /\ ThinksIfAsked(p)

(* The entry of a row: a protocol, and a profile of it.                    *)
RowAgrees(entry) == ProfileOf(entry[2], entry[1])

(* Every row of the table has a profile of its own protocol.               *)
LEMMA RowsAgree == \A row \in Rows : RowAgrees(row[2])
<1>1. ASSUME NEW row \in GptRows
      PROVE  RowAgrees(row[2])
  BY DEF GptRows, RowAgrees, ProfileOf, ThinksIfAsked, Profile, ReasoningMode
<1>2. ASSUME NEW row \in ClaudeRows
      PROVE  RowAgrees(row[2])
  BY DEF ClaudeRows, RowAgrees, ProfileOf, ThinksIfAsked, Profile, ReasoningMode
<1>3. ASSUME NEW row \in DeepseekRows
      PROVE  RowAgrees(row[2])
  BY DEF DeepseekRows, RowAgrees, ProfileOf, ThinksIfAsked, Profile, ReasoningMode
<1>4. ASSUME NEW row \in MimoRows
      PROVE  RowAgrees(row[2])
  BY DEF MimoRows, RowAgrees, ProfileOf, ThinksIfAsked, Profile, ReasoningMode
<1>5. ASSUME NEW row \in QwenRows
      PROVE  RowAgrees(row[2])
  BY DEF QwenRows, RowAgrees, ProfileOf, ThinksIfAsked, Profile, ReasoningMode
<1> QED
  BY <1>1, <1>2, <1>3, <1>4, <1>5 DEF Rows

(* So the profile found by model, by brand or by default is one of the     *)
(* protocol it was looked up for.                                          *)
LEMMA ProfileFound ==
  ASSUME NEW model, NEW protocol \in {"OpenAi", "Anthropic"}
  PROVE  ProfileOf(FindProfile(model, protocol), protocol)
<1>1. \A name : \A p \in Find(name, protocol) : ProfileOf(p, protocol)
  BY RowsAgree DEF Find, RowAgrees
<1>2. ProfileOf(DefaultProfile(protocol), protocol)
  BY DEF DefaultProfile, ProfileOf, ThinksIfAsked, Profile, ReasoningMode
<1> DEFINE exact == Find(model.name, protocol)
           brand == Find(InferBrand(model), protocol)
<1>3. /\ \A p \in exact : ProfileOf(p, protocol)
      /\ \A p \in brand : ProfileOf(p, protocol)
  BY <1>1
<1>4. FindProfile(model, protocol) =
        CASE exact # {} -> CHOOSE p \in exact : TRUE
          [] exact = {} /\ brand # {} -> CHOOSE p \in brand : TRUE
          [] OTHER -> DefaultProfile(protocol)
  BY DEF FindProfile
<1> HIDE DEF exact, brand
<1>5. CASE exact # {}
  BY <1>3, <1>4, <1>5
<1>6. CASE exact = {} /\ brand # {}
  BY <1>3, <1>4, <1>6
<1>7. CASE exact = {} /\ brand = {}
  BY <1>2, <1>4, <1>7
<1> QED
  BY <1>5, <1>6, <1>7

-----------------------------------------------------------------------------
(* Hosts and paths. *)

(* Prefixes and suffixes by position, for lists of any kind.               *)
LEMMA Positions ==
  ASSUME NEW S, NEW s \in Seq(S), NEW t \in Seq(S)
  PROVE  /\ IsPrefix(s, t) <=> Len(s) <= Len(t) /\ \A n \in 1 .. Len(s) : s[n] = t[n]
         /\ IsSuffix(s, t) <=> Len(s) <= Len(t) /\ \A n \in 1 .. Len(s) : s[n] = t[Len(t) - Len(s) + n]
<1>1. ASSUME NEW u \in Seq(S), NEW v \in Seq(S)
      PROVE  IsPrefix(u, v) <=> Len(u) <= Len(v) /\ \A n \in 1 .. Len(u) : u[n] = v[n]
  <2>1. Len(u) \in Nat /\ Len(v) \in Nat
    BY <1>1
  <2>2. CASE Len(u) <= Len(v)
    <3> DEFINE p == SubSeq(u, 1, Len(u))
               q == SubSeq(v, 1, Len(u))
    <3>1. p = [n \in 1 .. Len(u) |-> u[n]] /\ q = [n \in 1 .. Len(u) |-> v[n]]
      BY <1>1, <2>1, <2>2
    <3> QED
      BY <2>2, <3>1 DEF IsPrefix
  <2> QED
    BY <2>2 DEF IsPrefix
<1>2. /\ Reverse(s) \in Seq(S) /\ Len(Reverse(s)) = Len(s)
      /\ \A n \in 1 .. Len(s) : Reverse(s)[n] = s[Len(s) - n + 1]
  BY DEF Reverse
<1>3. /\ Reverse(t) \in Seq(S) /\ Len(Reverse(t)) = Len(t)
      /\ \A n \in 1 .. Len(t) : Reverse(t)[n] = t[Len(t) - n + 1]
  BY DEF Reverse
<1>4. IsSuffix(s, t) <=> Len(s) <= Len(t) /\ \A n \in 1 .. Len(s) : Reverse(s)[n] = Reverse(t)[n]
  BY <1>1, <1>2, <1>3 DEF IsSuffix
<1>5. ASSUME Len(s) <= Len(t)
      PROVE  (\A n \in 1 .. Len(s) : Reverse(s)[n] = Reverse(t)[n])
               <=> \A n \in 1 .. Len(s) : s[n] = t[Len(t) - Len(s) + n]
  <2>1. Len(s) \in Nat /\ Len(t) \in Nat
    OBVIOUS
  <2>2. \A n \in 1 .. Len(s) : /\ Reverse(s)[n] = s[Len(s) - n + 1]
                               /\ Reverse(t)[n] = t[Len(t) - n + 1]
    BY <1>2, <1>3, <1>5, <2>1
  <2>3. ASSUME \A n \in 1 .. Len(s) : Reverse(s)[n] = Reverse(t)[n], NEW n \in 1 .. Len(s)
        PROVE  s[n] = t[Len(t) - Len(s) + n]
    <3> DEFINE m == Len(s) - n + 1
    <3>1. /\ m \in 1 .. Len(s)
          /\ Len(s) - m + 1 = n /\ Len(t) - m + 1 = Len(t) - Len(s) + n
      BY <2>1
    <3> HIDE DEF m
    <3>2. s[Len(s) - m + 1] = t[Len(t) - m + 1]
      BY <2>2, <2>3, <3>1
    <3> QED
      BY <3>1, <3>2
  <2>4. ASSUME \A n \in 1 .. Len(s) : s[n] = t[Len(t) - Len(s) + n], NEW n \in 1 .. Len(s)
        PROVE  Reverse(s)[n] = Reverse(t)[n]
    <3> DEFINE m == Len(s) - n + 1
    <3>1. m \in 1 .. Len(s) /\ Len(t) - Len(s) + m = Len(t) - n + 1
      BY <2>1
    <3>2. s[m] = t[Len(t) - Len(s) + m]
      BY <2>4, <3>1
    <3> QED
      BY <2>2, <3>1, <3>2
  <2> QED
    BY <2>3, <2>4
<1> QED
  BY <1>1, <1>4, <1>5

(* A URL stands for Anthropic where the registry takes it to.              *)
LEMMA UrlDecides ==
  ASSUME NEW url \in Url
  PROVE  InferProtocolFromUrl(url) = IF Official(url) \/ Gateway(url) THEN "Anthropic" ELSE None
<1> DEFINE host == url.host
           domain == <<"anthropic", "com">>
           S == Range(host) \cup {"anthropic", "com"}
<1>1. host \in Seq(Range(host))
  BY UrlAssumption
<1> HIDE DEF host
<1>2. host \in Seq(S) /\ domain \in Seq(S) /\ Len(domain) = 2 /\ Len(host) \in Nat
  BY <1>1
<1>3. IsSuffix(domain, host) <=>
        Len(domain) <= Len(host) /\ \A n \in 1 .. Len(domain) : domain[n] = host[Len(host) - Len(domain) + n]
  BY <1>2, Positions, ZenonT(40)
<1>4. IsSuffix(domain, host) <=>
        2 <= Len(host) /\ host[Len(host) - 1] = "anthropic" /\ host[Len(host)] = "com"
  BY <1>2, <1>3
<1>5. ASSUME Len(host) >= 2
      PROVE  SubSeq(host, Len(host) - 1, Len(host)) = domain
               <=> host[Len(host) - 1] = "anthropic" /\ host[Len(host)] = "com"
  <2> DEFINE end == SubSeq(host, Len(host) - 1, Len(host))
  <2>1. end \in Seq(S) /\ Len(end) = 2 /\ end[1] = host[Len(host) - 1] /\ end[2] = host[Len(host)]
    BY <1>2, <1>5
  <2> HIDE DEF end
  <2>2. end = domain <=> end[1] = "anthropic" /\ end[2] = "com"
    BY <1>2, <2>1
  <2> QED
    BY <2>1, <2>2 DEF end
<1>6. DomainMatches(url, domain) <=> Official(url)
  BY <1>2, <1>4, <1>5 DEF DomainMatches, Official, host
<1> QED
  BY <1>6 DEF InferProtocolFromUrl, Gateway

(* An endpoint is that of the protocol, below the base, with "v1" once.    *)
LEMMA EndpointBelow ==
  ASSUME NEW url \in Url, NEW last \in {<<"chat", "completions">>, <<"messages">>}
  PROVE  LET base == url.path
             path == Endpoint(base, last)
             end == <<"v1">> \o last
         IN  /\ IsPrefix(base, path) /\ IsSuffix(end, path)
             /\ Len(path) <= Len(base) + Len(end)
             /\ \A n \in 1 .. Len(path) - 1 : path[n] = "v1" => path[n + 1] # "v1"
<1> DEFINE base == url.path
           path == Endpoint(base, last)
           end == <<"v1">> \o last
           S == Range(base) \cup {"v1", "chat", "completions", "messages"}
           full == IF IsSuffix(<<"v1">>, base) THEN base ELSE Append(base, "v1")
<1>1. /\ base \in Seq(Range(base))
      /\ \A n \in 1 .. Len(base) - 1 : base[n] = "v1" => base[n + 1] # "v1"
  BY UrlAssumption
<1> HIDE DEF base
<1>2. /\ base \in Seq(S) /\ Len(base) \in Nat
      /\ last \in Seq(S) /\ Len(last) \in {1, 2} /\ \A n \in 1 .. Len(last) : last[n] # "v1"
      /\ <<"v1">> \in Seq(S) /\ Len(<<"v1">>) = 1 /\ <<"v1">>[1] = "v1"
  <2>1. base \in Seq(S) /\ Len(base) \in Nat
    BY <1>1
  <2>2. CASE last = <<"chat", "completions">>
    <3>1. last \in Seq(S) /\ Len(last) = 2 /\ last[1] = "chat" /\ last[2] = "completions"
      BY <2>2
    <3> QED
      BY <2>1, <3>1
  <2>3. CASE last = <<"messages">>
    <3>1. last \in Seq(S) /\ Len(last) = 1 /\ last[1] = "messages"
      BY <2>3
    <3> QED
      BY <2>1, <3>1
  <2> QED
    BY <2>2, <2>3
<1>3. /\ end \in Seq(S) /\ Len(end) = Len(last) + 1 /\ end[1] = "v1"
      /\ \A n \in 1 .. Len(last) : end[n + 1] = last[n]
  BY <1>2
<1>4. /\ full \in Seq(S) /\ Len(full) \in {Len(base), Len(base) + 1} /\ Len(full) > 0
      /\ \A n \in 1 .. Len(base) : full[n] = base[n]
      /\ full[Len(full)] = "v1"
      /\ \A n \in 1 .. Len(full) - 1 : full[n] = "v1" => full[n + 1] # "v1"
  <2>0. IsSuffix(<<"v1">>, base) <=> Len(base) > 0 /\ base[Len(base)] = "v1"
    <3> DEFINE one == <<"v1">>
    <3>1. one \in Seq(S) /\ Len(one) = 1 /\ one[1] = "v1"
      BY <1>2
    <3> HIDE DEF one
    <3>2. IsSuffix(one, base) <=>
            Len(one) <= Len(base) /\ \A n \in 1 .. Len(one) : one[n] = base[Len(base) - Len(one) + n]
      BY <1>2, <3>1, Positions, ZenonT(40)
    <3>3. IsSuffix(one, base) <=> Len(base) > 0 /\ base[Len(base)] = "v1"
      BY <1>2, <3>1, <3>2
    <3> QED
      BY <3>3 DEF one
  <2>1. CASE IsSuffix(<<"v1">>, base)
    BY <1>1, <1>2, <2>0, <2>1
  <2>2. CASE ~ IsSuffix(<<"v1">>, base)
    <3>1. /\ full \in Seq(S) /\ Len(full) = Len(base) + 1
          /\ \A n \in 1 .. Len(base) : full[n] = base[n]
          /\ full[Len(full)] = "v1"
      BY <1>2, <2>2
    <3> HIDE DEF full
    <3>2. ASSUME NEW n \in 1 .. Len(full) - 1, full[n] = "v1"
          PROVE  full[n + 1] # "v1"
      <4>1. n \in 1 .. Len(base) /\ base[n] = "v1" /\ n < Len(base)
        BY <1>2, <2>0, <2>2, <3>1, <3>2
      <4>2. n + 1 \in 1 .. Len(base) /\ n \in 1 .. Len(base) - 1
        BY <1>2, <4>1
      <4> QED
        BY <1>1, <3>1, <4>1, <4>2
    <3> QED
      BY <1>2, <3>1, <3>2
  <2> QED
    BY <2>1, <2>2
<1>5. path = full \o last
  BY DEF Endpoint
<1> HIDE DEF full, path
<1>6. /\ path \in Seq(S) /\ Len(path) = Len(full) + Len(last)
      /\ \A n \in 1 .. Len(full) : path[n] = full[n]
      /\ \A n \in 1 .. Len(last) : path[Len(full) + n] = last[n]
  BY <1>2, <1>4, <1>5
<1> HIDE DEF end
<1>7. IsPrefix(base, path)
  <2>1. Len(base) <= Len(path) /\ \A n \in 1 .. Len(base) : base[n] = path[n]
    BY <1>2, <1>4, <1>6
  <2> QED
    BY <1>2, <1>6, <2>1, Positions
<1>8. IsSuffix(end, path)
  <2>1. Len(end) <= Len(path) /\ Len(path) - Len(end) = Len(full) - 1
    BY <1>2, <1>3, <1>4, <1>6
  <2>2. ASSUME NEW n \in 1 .. Len(end)
        PROVE  end[n] = path[Len(path) - Len(end) + n]
    <3>1. CASE n = 1
      <4>1. Len(path) - Len(end) + n = Len(full) /\ Len(full) \in 1 .. Len(full)
        BY <1>2, <1>4, <2>1, <3>1
      <4>2. path[Len(full)] = "v1"
        BY <1>4, <1>6, <4>1
      <4> QED
        BY <1>3, <3>1, <4>1, <4>2
    <3>2. CASE n # 1
      <4>1. n - 1 \in 1 .. Len(last) /\ n = (n - 1) + 1
        BY <1>2, <1>3, <3>2
      <4>2. end[n] = last[n - 1] /\ path[Len(full) + (n - 1)] = last[n - 1]
        BY <1>3, <1>6, <4>1
      <4>3. Len(full) + (n - 1) = Len(path) - Len(end) + n
        BY <1>2, <1>3, <1>4, <1>6
      <4> QED
        BY <4>2, <4>3
    <3> QED
      BY <3>1, <3>2
  <2> QED
    BY <1>3, <1>6, <2>1, <2>2, Positions
<1>9. Len(path) <= Len(base) + Len(end)
  BY <1>2, <1>3, <1>4, <1>6
<1>10. ASSUME NEW n \in 1 .. Len(path) - 1, path[n] = "v1"
       PROVE  path[n + 1] # "v1"
  <2>1. CASE n < Len(full)
    <3>1. n \in 1 .. Len(full) - 1 /\ n \in 1 .. Len(full) /\ n + 1 \in 1 .. Len(full)
      BY <1>2, <1>4, <2>1
    <3>2. path[n] = full[n] /\ path[n + 1] = full[n + 1]
      BY <1>6, <3>1
    <3> QED
      BY <1>4, <1>10, <3>1, <3>2
  <2>2. CASE n >= Len(full)
    <3>1. (n + 1) - Len(full) \in 1 .. Len(last) /\ n + 1 = Len(full) + ((n + 1) - Len(full))
      BY <1>2, <1>4, <1>6, <2>2
    <3> QED
      BY <1>2, <1>6, <3>1, ZenonT(40)
  <2> QED
    BY <1>2, <1>4, <2>1, <2>2
<1> QED
  BY <1>7, <1>8, <1>9, <1>10 DEF path, base, end

-----------------------------------------------------------------------------

(* The invariant.  An adapter has a limit, and a profile with a reasoning  *)
(* mode if any; one made of a configuration has a profile, which says that *)
(* it thinks if it can be asked to, and the protocol and the base URL of   *)
(* the configuration; a request is the one the adapter builds.             *)
AdapterInv ==
  /\ provider.protocol \in {"OpenAi", "Anthropic"}
  /\ provider.limit \in Nat
  /\ provider.profile = None
       \/ /\ provider.profile.mode \in ReasoningMode
          /\ provider.profile.output \in Nat \cup {None}
  /\ config # None => /\ ThinksIfAsked(provider.profile)
                      /\ config.url \in Url
                      /\ provider.protocol = DecidedProtocol
                      /\ provider.base = config.url.path

RequestInv ==
  /\ provider.tag = "adapter"
  /\ request \in Request
  /\ raw = IF provider.protocol = "OpenAi"
             THEN OpenAiRequest(provider, request) ELSE AnthropicRequest(provider, request)

SetupInv ==
  /\ provider = NoProvider => config = None
  /\ provider.tag = "adapter" => AdapterInv
  /\ raw # None => RequestInv

(* Either way to create a provider from a configuration.                   *)
LEMMA CreateKeeps ==
  ASSUME SetupInv, NEW incomplete, NEW protocol \in Protocol \cup {None}, NEW model, NEW url \in Url,
         NEW option, option = None \/ option \in Option, Create(incomplete, protocol, model, url, option)
  PROVE  SetupInv'
<1>1. /\ provider = NoProvider /\ provider' = CreateProvider(config') /\ UNCHANGED <<request, raw>>
      /\ config' = [incomplete |-> incomplete, protocol |-> protocol, model |-> model,
                    url |-> url, option |-> option]
  BY DEF Create
<1>2. NoProvider.tag = "none" /\ Refused.tag = "config_error"
  BY DEF NoProvider, Refused
<1>3. raw' = None
  BY <1>1, <1>2 DEF SetupInv, RequestInv
<1>4. CASE incomplete \/ protocol = "OpenAiResponses"
  <2>1. provider' = Refused
    BY <1>1, <1>4 DEF CreateProvider
  <2> QED
    BY <1>2, <1>3, <2>1 DEF SetupInv
<1>5. CASE ~ (incomplete \/ protocol = "OpenAiResponses")
  <2> DEFINE decided == ProtocolFor(url, protocol)
             profile == Lookup(model, url, protocol)
  <2>1. provider' = Adapter(profile.protocol, model, url.path, FromOptions(option), profile)
    BY <1>1, <1>5 DEF CreateProvider, BuildProtocol
  <2>2. decided = (IF protocol # None THEN protocol
                   ELSE IF Official(url) \/ Gateway(url) THEN "Anthropic" ELSE "OpenAi")
    BY UrlDecides, NameAssumption DEF ProtocolFor, Protocol
  <2>3. decided \in {"OpenAi", "Anthropic"}
    BY <1>5, <2>2 DEF Protocol
  <2>4. decided = DecidedProtocol'
    BY <1>1, <2>2 DEF DecidedProtocol
  <2> HIDE DEF decided
  <2>5. ProfileOf(profile, decided)
    BY <2>3, ProfileFound DEF Lookup, decided
  <2>6. FromOptions(option) \in Nat
    BY OptionType DEF FromOptions, DefaultMaxTokens
  <2> HIDE DEF profile
  <2>7. /\ provider'.tag = "adapter" /\ provider'.protocol = decided /\ provider'.base = url.path
        /\ provider'.limit \in Nat /\ provider'.profile = profile
    BY <2>1, <2>5, <2>6 DEF Adapter, ProfileOf
  <2>8. AdapterInv'
    BY <1>1, <2>3, <2>4, <2>5, <2>7 DEF AdapterInv, ProfileOf
  <2> QED
    BY <1>2, <1>3, <2>7, <2>8 DEF SetupInv
<1> QED
  BY <1>4, <1>5

(* The invariant holds whatever is configured and asked.                   *)
THEOREM Invariance == Spec => []SetupInv
<1>1. Init => SetupInv
  BY DEF Init, SetupInv, NoProvider
<1>2. SetupInv /\ [Next]_vars => SetupInv'
  <2> SUFFICES ASSUME SetupInv, [Next]_vars
               PROVE  SetupInv'
    OBVIOUS
  <2>1. ASSUME NEW incomplete \in BOOLEAN, NEW protocol \in Protocol \cup {None}, NEW model \in Model,
               NEW url \in Url, NEW option \in Option, Create(incomplete, protocol, model, url, option)
        PROVE  SetupInv'
    BY <2>1, CreateKeeps
  <2>2. ASSUME NEW missing \in BOOLEAN, NEW name \in ProtocolName \cup {None}, NEW model \in Model,
               NEW url \in Url, CreateFromNames(missing, name, model, url)
        PROVE  SetupInv'
    <3> DEFINE protocol == IF name = None THEN None ELSE ProtocolOf(name)
    <3>1. protocol \in Protocol \cup {None}
      BY DEF ProtocolOf, Protocol
    <3>2. Create(missing, protocol, model, url, None)
      BY <2>2 DEF CreateFromNames
    <3> HIDE DEF protocol
    <3> QED
      BY <3>1, <3>2, CreateKeeps
  <2>3. ASSUME NEW protocol \in {"OpenAi", "Anthropic"}, NEW model \in Model,
               NEW limit \in Limit \cup {DefaultMaxTokens}, NEW profile \in OwnProfile \cup {None},
               CreateByHand(protocol, model, limit, profile)
        PROVE  SetupInv'
    <3>1. /\ provider = NoProvider /\ UNCHANGED <<config, request, raw>>
          /\ provider' = Adapter(protocol, model, DefaultBase(protocol), limit, profile)
      BY <2>3 DEF CreateByHand
    <3>2. profile = None \/ (profile.mode \in ReasoningMode /\ profile.output \in Nat \cup {None})
      BY ProfileAssumption
    <3>3. NoProvider.tag = "none"
      BY DEF NoProvider
    <3>4. raw' = None /\ config' = None
      BY <3>1, <3>3 DEF SetupInv, RequestInv
    <3>5. /\ provider'.tag = "adapter" /\ provider'.protocol = protocol
          /\ provider'.limit \in Nat /\ provider'.profile = profile
      BY <3>1, CountAssumption DEF Adapter, DefaultMaxTokens
    <3> QED
      BY <3>2, <3>3, <3>4, <3>5 DEF SetupInv, AdapterInv
  <2>4. ASSUME NEW req \in Request, BuildRequest(req)
        PROVE  SetupInv'
    <3>1. /\ provider.tag = "adapter" /\ request' = req /\ UNCHANGED <<config, provider>>
          /\ raw' = IF provider.protocol = "OpenAi"
                      THEN OpenAiRequest(provider, req) ELSE AnthropicRequest(provider, req)
      BY <2>4 DEF BuildRequest
    <3> QED
      BY <3>1 DEF SetupInv, AdapterInv, RequestInv, DecidedProtocol
  <2>5. CASE UNCHANGED vars
    BY <2>5 DEF vars, SetupInv, AdapterInv, RequestInv, DecidedProtocol
  <2> QED
    BY <2>1, <2>2, <2>3, <2>4, <2>5 DEF Next
<1> QED
  BY <1>1, <1>2, PTL DEF Spec

(* What an adapter that was created knows when it builds a request.        *)
LEMMA Requested ==
  ASSUME SetupInv, Built
  PROVE  /\ provider.tag = "adapter" /\ AdapterInv /\ RequestInv
         /\ EffectiveMaxTokens(provider) \in Nat
         /\ provider.profile = None \/ provider.profile.mode \in ReasoningMode
<1>1. provider.tag = "adapter" /\ AdapterInv /\ RequestInv
  BY DEF SetupInv, Built, RequestInv
<1> QED
  BY <1>1 DEF AdapterInv, EffectiveMaxTokens

(* A budget for thinking is below the limit that goes with it, whatever    *)
(* option, profile and default say (build_anthropic_request).              *)
THEOREM RoomForAnswer == Spec => []ThinkingLeavesRoom
<1>1. SetupInv => ThinkingLeavesRoom
  <2> SUFFICES ASSUME SetupInv, Built, raw.body.thinking \notin {None, 2^WordBits - 1}
               PROVE  raw.body.thinking < raw.body.max_tokens
    BY DEF ThinkingLeavesRoom
  <2>1. RequestInv /\ EffectiveMaxTokens(provider) \in Nat /\ request \in Request
        /\ (provider.profile = None \/ provider.profile.mode \in ReasoningMode)
    BY Requested DEF RequestInv
  <2>2. CASE provider.protocol = "OpenAi"
    <3>1. raw.body = OpenAiBody(provider, request)
      BY <2>1, <2>2 DEF RequestInv, OpenAiRequest
    <3>2. raw.body.thinking = None
      BY <3>1 DEF OpenAiBody
    <3> QED
      BY <3>2
  <2>3. CASE provider.protocol # "OpenAi"
    <3>1. raw.body = AnthropicBody(provider, request)
      BY <2>1, <2>3 DEF RequestInv, AnthropicRequest
    <3> QED
      BY <2>1, <3>1, BodyLeavesRoom
  <2> QED
    BY <2>2, <2>3
<1> QED
  BY <1>1, Invariance, PTL

(* Neither endpoint is sent the other's field, or one its profile does not *)
(* have, or any once the caller switched reasoning off (to_spec and both   *)
(* build functions).                                                       *)
THEOREM FieldsOfReasoning == Spec => [](Built => ReasoningUnderstood)
<1>1. SetupInv => (Built => ReasoningUnderstood)
  <2> SUFFICES ASSUME SetupInv, Built
               PROVE  ReasoningUnderstood
    OBVIOUS
  <2> DEFINE spec == SpecFor(provider, request)
             mode == provider.profile.mode
  <2>1. /\ RequestInv /\ request \in Request /\ provider.protocol \in {"OpenAi", "Anthropic"}
        /\ provider.profile = None \/ provider.profile.mode \in ReasoningMode
    BY Requested DEF RequestInv, AdapterInv
  <2>2. /\ spec.tag = "effort" => mode \in {"Effort", "Both"}
        /\ spec.tag = "thinking" => mode \in {"Thinking", "Both"}
        /\ request.reasoning # None /\ request.reasoning.enabled = FALSE => spec.tag = "none"
    BY <2>1, SpecType
  <2>3. CASE provider.protocol = "OpenAi"
    <3>1. raw.body = OpenAiBody(provider, request)
      BY <2>1, <2>3 DEF RequestInv, OpenAiRequest
    <3>2. /\ raw.body.thinking = None
          /\ spec.tag # "effort" => raw.body.effort = None
      BY <3>1 DEF OpenAiBody
    <3> HIDE DEF spec
    <3> QED
      BY <2>2, <2>3, <3>2 DEF ReasoningUnderstood
  <2>4. CASE provider.protocol = "Anthropic"
    <3>1. raw.body = AnthropicBody(provider, request)
      BY <2>1, <2>4 DEF RequestInv, AnthropicRequest
    <3>2. /\ raw.body.effort = None
          /\ spec.tag # "thinking" => raw.body.thinking = None
      BY <3>1 DEF AnthropicBody
    <3> HIDE DEF spec
    <3> QED
      BY <2>2, <2>4, <3>2 DEF ReasoningUnderstood
  <2> QED
    BY <2>1, <2>3, <2>4
<1> QED
  BY <1>1, Invariance, PTL

(* What a provider says of itself is so: of those made of a configuration  *)
(* only one that says it can think is asked to, and the model and, unless  *)
(* it names none, the user set another or thinking needs more, the limit   *)
(* are the ones any provider names (capabilities() and info() against both *)
(* build functions).                                                       *)
THEOREM WhatItSaysOfItself == Spec => [](Built => SelfDescriptionHolds)
<1>1. SetupInv => (Built => SelfDescriptionHolds)
  <2> SUFFICES ASSUME SetupInv, Built
               PROVE  SelfDescriptionHolds
    OBVIOUS
  <2> DEFINE spec == SpecFor(provider, request)
             limit == EffectiveMaxTokens(provider)
  <2>1. /\ RequestInv /\ request \in Request /\ provider.protocol \in {"OpenAi", "Anthropic"}
        /\ Configured => ThinksIfAsked(provider.profile)
    BY Requested DEF RequestInv, AdapterInv, Configured
  <2>2. raw.body = IF provider.protocol = "OpenAi"
                     THEN OpenAiBody(provider, request) ELSE AnthropicBody(provider, request)
    BY <2>1 DEF RequestInv, OpenAiRequest, AnthropicRequest
  <2>3. /\ raw.body.model = EffectiveModel(provider, request)
        /\ raw.body.thinking = None => raw.body.max_tokens = limit
        /\ spec.tag = "none" => raw.body.effort = None /\ raw.body.thinking = None
    <3>1. CASE provider.protocol = "OpenAi"
      <4> HIDE DEF spec, limit
      <4> QED
        BY <2>2, <3>1 DEF OpenAiBody, spec, limit
    <3>2. CASE provider.protocol = "Anthropic"
      BY <2>2, <3>2 DEF AnthropicBody
    <3> QED
      BY <2>1, <3>1, <3>2
  <2>4. spec.tag # "none" => provider.profile # None /\ provider.profile.mode # "None"
    <3>1. CASE provider.profile = None
      BY <3>1 DEF SpecFor, NoSpec
    <3>2. CASE provider.profile # None /\ provider.profile.mode = "None"
      BY <3>2 DEF SpecFor, ToSpec, NoSpec
    <3> QED
      BY <3>1, <3>2
  <2>5. Configured /\ (raw.body.effort # None \/ raw.body.thinking # None) =>
          CapabilitiesOf(provider).thinks
    BY <2>1, <2>3, <2>4 DEF ThinksIfAsked, CapabilitiesOf
  <2>6. request.model = None => raw.body.model = InfoOf(provider).model
    BY <2>3 DEF EffectiveModel, InfoOf
  <2>7. /\ CapabilitiesOf(provider).output # None
        /\ provider.profile = None \/ (provider.limit = DefaultMaxTokens /\ raw.body.thinking = None)
        => raw.body.max_tokens = CapabilitiesOf(provider).output
    <3>1. provider.profile = None => raw.body.thinking = None
      BY <2>3, <2>4
    <3>2. /\ CapabilitiesOf(provider).output # None
          /\ provider.profile = None \/ provider.limit = DefaultMaxTokens
          => limit = CapabilitiesOf(provider).output
      BY DEF EffectiveMaxTokens, CapabilitiesOf
    <3> QED
      BY <2>3, <3>1, <3>2
  <2> QED
    BY <2>5, <2>6, <2>7 DEF SelfDescriptionHolds
<1> QED
  BY <1>1, Invariance, PTL

(* Whatever a tool looks like neither server is told to choose among none, *)
(* and those the OpenAI API would write reach either in their order        *)
(* (convert_tools and tool_choice of both build functions).                *)
LEMMA ToolsArrive ==
  ASSUME SetupInv, Built
  PROVE  ToolsUnderstood
<1> DEFINE tools == request.tools
<1>1. /\ RequestInv /\ request \in Request /\ provider.protocol \in {"OpenAi", "Anthropic"}
      /\ tools \in Seq(Range(tools))
  BY Requested, ToolAssumption DEF RequestInv, AdapterInv
<1>2. CASE provider.protocol = "OpenAi"
  <2>1. raw.body = OpenAiBody(provider, request)
    BY <1>1, <1>2 DEF RequestInv, OpenAiRequest
  <2>2. raw.body.tools = OpenAiTools(tools) /\ raw.body.tool_choice = None
    BY <2>1 DEF OpenAiBody
  <2>3. ASSUME \A n \in DOMAIN tools : tools[n].typed /\ tools[n].nested /\ tools[n].name # None
        PROVE  NamesOf(OpenAiTools(tools)) = NamesOf(tools)
    BY <2>3 DEF NamesOf, OpenAiTools
  <2> QED
    BY <1>2, <2>2, <2>3 DEF ToolsUnderstood
<1>3. CASE provider.protocol = "Anthropic"
  <2>1. raw.body = AnthropicBody(provider, request)
    BY <1>1, <1>3 DEF RequestInv, AnthropicRequest
  <2>2. raw.body.tools = AnthropicTools(tools)
        /\ (raw.body.tool_choice # None => AnthropicTools(tools) # <<>>)
    BY <2>1 DEF AnthropicBody
  <2>3. /\ \A n \in DOMAIN raw.body.tools : raw.body.tools[n].name # None
        /\ (\A n \in DOMAIN tools : tools[n].nested /\ tools[n].name # None)
             => NamesOf(raw.body.tools) = NamesOf(tools)
    BY <1>1, <2>2, AnthropicOffers
  <2> QED
    BY <2>2, <2>3 DEF ToolsUnderstood
<1> QED
  BY <1>1, <1>2, <1>3

(* OnlyFieldsUnderstood, all of it: reasoning, tools and what a provider   *)
(* says of itself.                                                         *)
THEOREM FieldsFit == Spec => []OnlyFieldsUnderstood
<1>1. SetupInv => (Built => ToolsUnderstood)
  BY ToolsArrive
<1>2. (Built => ReasoningUnderstood) /\ (Built => ToolsUnderstood) /\ (Built => SelfDescriptionHolds)
        => OnlyFieldsUnderstood
  BY DEF OnlyFieldsUnderstood
<1> QED
  BY <1>1, <1>2, Invariance, FieldsOfReasoning, WhatItSaysOfItself, PTL

(* Table, brands and defaults never change the protocol the caller or the  *)
(* URL decided, and the requests go to its endpoint below the caller's URL *)
(* (lookup, build_protocol, build_request).                                *)
THEOREM ProtocolOfUrlAndCaller == Spec => []ProtocolIsDecided
<1>1. SetupInv => ProtocolIsDecided
  <2> SUFFICES ASSUME SetupInv, Configured
               PROVE  provider.protocol = DecidedProtocol /\ (Built => BelowBase)
    BY DEF ProtocolIsDecided
  <2>1. AdapterInv /\ config # None
    BY DEF Configured, SetupInv
  <2>2. /\ provider.protocol = DecidedProtocol /\ config.url \in Url
        /\ provider.base = config.url.path /\ provider.protocol \in {"OpenAi", "Anthropic"}
    BY <2>1 DEF AdapterInv
  <2>3. ASSUME Built
        PROVE  BelowBase
    <3> DEFINE last == IF provider.protocol = "OpenAi" THEN <<"chat", "completions">> ELSE <<"messages">>
    <3>1. raw.path = Endpoint(config.url.path, last)
      BY <2>2, <2>3, Requested DEF RequestInv, OpenAiRequest, AnthropicRequest
    <3>2. EndpointOf(DecidedProtocol) = <<"v1">> \o last
      BY <2>2 DEF EndpointOf
    <3>3. last \in {<<"chat", "completions">>, <<"messages">>}
      OBVIOUS
    <3> HIDE DEF last
    <3> QED
      BY <2>2, <3>1, <3>2, <3>3, EndpointBelow DEF BelowBase
  <2> QED
    BY <2>2, <2>3
<1> QED
  BY <1>1, Invariance, PTL

==============================================================================
