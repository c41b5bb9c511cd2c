---------------------------- MODULE RequestOptions ----------------------------
(***************************************************************************)
(* What a request asks for besides its messages, and what of it is sent to *)
(* the upstream (transform.go, PrepareUpstreamRequest up to the cache      *)
(* namespace; server.go, handleModels; store.go,                           *)
(* ComputeReasoningCacheNamespace).                                        *)
(*                                                                         *)
(* The name of a model is its part before the first colon and the tokens   *)
(* behind it.  A tool is its type and its name, "" for none; a tool_choice *)
(* is its kind and the name it demands, "other" being an object that does  *)
(* not demand a function, such as the demand of a custom tool.  Fields     *)
(* that are passed on as they come are left out.                           *)
(***************************************************************************)
EXTENDS Integers, Sequences, FiniteSetsExt

CONSTANTS
  Absent,              \* of a field: not sent
  Folded(_),           \* a token in lower case
  Lower(_),            \* a token in lower case, without blanks around it
  Caps,                \* the number in each token of the form mmN
  DeepSeekNames,       \* names that begin with deepseek-
  V4Names,             \* names that begin with deepseek-v4 or deepseek-flash-
  ConfiguredModel,     \* upstream_model
  ConfiguredThinking,  \* thinking
  ConfiguredEffort     \* reasoning_effort

EffortAliases == {"low", "high", "max"}

ASSUME OptionsAssumption ==
  /\ Caps \in [DOMAIN Caps -> Nat] /\ Absent \notin DOMAIN Caps
  /\ \A token \in DOMAIN Caps : Lower(token) \notin EffortAliases /\ Folded(token) # "nothink"
  /\ V4Names \subseteq DeepSeekNames
  /\ ConfiguredModel # Absent /\ ConfiguredEffort # Absent

-----------------------------------------------------------------------------
(* Names of models *)

Named(base, suffixes) == [base |-> base, suffixes |-> suffixes]
SuffixesOf(name) == {name.suffixes[i] : i \in DOMAIN name.suffixes}

IsKnownEffort(token) == Lower(token) \in EffortAliases
IsMaxMessagesToken(token) == token \in DOMAIN Caps
IsNoThink(token) == Folded(token) = "nothink"

(* The last token of a kind, if there is one. *)
LastOf(Is(_), name) ==
  LET at == {i \in DOMAIN name.suffixes : Is(name.suffixes[i])} IN
  IF at = {} THEN Absent ELSE name.suffixes[Max(at)]

CapOf(token) == IF token = Absent THEN 0 ELSE Caps[token]

(* Mutant of ParseModelSuffixes: a token counts in its place only. *)
ParseByPosition(name) ==
  [base    |-> Named(name.base, <<>>),
   effort  |-> IF Len(name.suffixes) > 0 /\ IsKnownEffort(name.suffixes[1])
               THEN name.suffixes[1] ELSE Absent,
   noThink |-> \E token \in SuffixesOf(name) : IsNoThink(token),
   cap     |-> CapOf(LastOf(IsMaxMessagesToken, name))]

(* One token that is not known, and the name is left as it is. *)
ParseModelSuffixes(name) ==
  IF \E token \in SuffixesOf(name) :
       ~IsNoThink(token) /\ ~IsKnownEffort(token) /\ ~IsMaxMessagesToken(token)
  THEN [base |-> name, effort |-> Absent, noThink |-> FALSE, cap |-> 0]
  ELSE [base    |-> Named(name.base, <<>>),
        effort  |-> LastOf(IsKnownEffort, name),
        noThink |-> \E token \in SuffixesOf(name) : IsNoThink(token),
        cap     |-> CapOf(LastOf(IsMaxMessagesToken, name))]

UpstreamModelFor(name) == IF name.base \in DeepSeekNames THEN name ELSE ConfiguredModel

NormalizeReasoningEffort(value) ==
  IF Lower(value) \in EffortAliases THEN Lower(value) ELSE "high"

(* handleModels: what the client's list of models offers. *)
Announced(bases, efforts, caps) ==
  LET suffixes == {<<>>, <<"nothink">>}
        \cup {<<e>> : e \in efforts} \cup {<<e, "nothink">> : e \in efforts}
        \cup UNION {{<<c>>, <<"low", c>>, <<c, "nothink">>, <<"low", c, "nothink">>} : c \in caps}
  IN {Named(base, s) : base \in bases, s \in suffixes}

-----------------------------------------------------------------------------
(* Tools *)

ToolDef(type, name) == [type |-> type, name |-> name]
LegacyFunctionToTool(name) == ToolDef("function", name)

RawTools(r) ==
  IF r.tools # Absent THEN r.tools
  ELSE IF r.functions # Absent THEN {LegacyFunctionToTool(name) : name \in r.functions}
  ELSE {}

NormalizeTool(tool) == IF tool.type = Absent THEN [tool EXCEPT !.type = "function"] ELSE tool

(* Mutant of NormalizeTools: a function without a name is kept. *)
KeepNameless(raw) == {tool \in {NormalizeTool(t) : t \in raw} : tool.type = "function"}

NormalizeTools(raw) ==
  {tool \in {NormalizeTool(t) : t \in raw} : tool.type = "function" /\ tool.name # ""}

ToolNamesOf(tools) == {tool.name : tool \in tools}

Choice(kind, name) == [kind |-> kind, name |-> name]
Words == {"auto", "none", "required"}

(* "word" is a string that is none of Words. *)
NormalizeToolChoice(choice) == IF choice.kind = "word" THEN Absent ELSE choice

NamedToolChoice(choice) == choice.kind = "function" /\ choice.name # ""

ConvertFunctionCall(call) ==
  IF call.kind \in Words \/ NamedToolChoice(call) THEN call ELSE Absent

RequestedChoice(r) ==
  IF r.tool_choice # Absent THEN r.tool_choice
  ELSE IF r.function_call # Absent THEN ConvertFunctionCall(r.function_call)
  ELSE Absent

(* Mutant of ResolveToolChoice: the mode is asked only for names. *)
ResolveNamesOnly(requested, tools, thinkingEnabled) ==
  LET choice == IF requested = Absent THEN Absent ELSE NormalizeToolChoice(requested) IN
  IF choice = Absent \/ tools = {} THEN Absent
  ELSE IF NamedToolChoice(choice) /\ (thinkingEnabled \/ choice.name \notin ToolNamesOf(tools))
  THEN Choice("auto", "")
  ELSE choice

(* resolveToolChoice *)
ResolveToolChoice(requested, tools, thinkingEnabled) ==
  LET choice == IF requested = Absent THEN Absent ELSE NormalizeToolChoice(requested) IN
  IF choice = Absent \/ tools = {} THEN Absent
  ELSE IF \/ thinkingEnabled /\ (NamedToolChoice(choice) \/ choice.kind = "required")
          \/ NamedToolChoice(choice) /\ choice.name \notin ToolNamesOf(tools)
  THEN Choice("auto", "")
  ELSE choice

-----------------------------------------------------------------------------
(* The namespace of the cache *)

Family(model) ==
  IF model.base \in V4Names \/ model = Named("deepseek-flash", <<>>)
  THEN Named("deepseek-v4", <<>>) ELSE model

(* ComputeReasoningCacheNamespace, for one upstream and one account. *)
CacheNamespace(model, thinking, effort) ==
  [model |-> Family(model), thinking |-> thinking, effort |-> effort]

-----------------------------------------------------------------------------
(* PrepareUpstreamRequest, all but the messages *)

OrElse(value, other) == IF value # Absent THEN value ELSE other

ClientModel(r) == OrElse(r.model, ConfiguredModel)

EffectiveMaxMessages(r, configured) ==
  LET cap == ParseModelSuffixes(ClientModel(r)).cap IN IF cap > 0 THEN cap ELSE configured

ModeOf(r) ==
  IF ParseModelSuffixes(ClientModel(r)).noThink THEN "disabled" ELSE ConfiguredThinking

(* What the upstream is sent, apart from the messages, and the namespace.    *)
Options(r) ==
  LET asked    == ParseModelSuffixes(ClientModel(r))
      model    == UpstreamModelFor(asked.base)
      thinking == ModeOf(r)
      effort   == OrElse(asked.effort, ConfiguredEffort)
      tools    == NormalizeTools(RawTools(r))
  IN [model    |-> model,
      thinking |-> thinking,
      effort   |-> IF thinking = "enabled" THEN NormalizeReasoningEffort(effort)
                   ELSE r.reasoning_effort,
      tools    |-> tools,
      choice   |-> ResolveToolChoice(RequestedChoice(r), tools, thinking = "enabled"),
      namespace |-> CacheNamespace(model, thinking, effort)]

=============================================================================
