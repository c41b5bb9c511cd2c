----------------------- MODULE RequestPreparationProofs -----------------------
(***************************************************************************)
(* For any names, tools, choices, limits and histories: what is sent is    *)
(* accepted, each request keeps to the limit of its own name, and names    *)
(* that differ in order and cap only are sent alike.                       *)
(*                                                                         *)
(* The client's steps are those of HistoryTruncation, so its invariant     *)
(* holds here too; a request that is with the upstream is Payload of the   *)
(* history as it is.                                                       *)
(***************************************************************************)
EXTENDS RequestPreparation, HistoryTruncationProofs

(* The conversation of a client that asks is a conversation.                 *)
THEOREM PreparationConverses == PrepSpec => Spec
<1>1. PrepInit => Init
  BY DEF PrepInit
<1>2. [PrepNext]_prepVars => [Next]_vars
  BY DEF PrepNext, prepVars, Converse, Prepare, Answered
<1>. QED
  BY <1>1, <1>2, PTL DEF PrepSpec, Spec

PrepInv == Inv /\ (Asking => \E r \in Requests : prepared = Payload(r, messages))

LEMMA PrepInvariant == PrepSpec => []PrepInv
<1> DEFINE PayloadInv == Asking => \E r \in Requests : prepared = Payload(r, messages)
<1>1. PrepInit => PayloadInv
  BY DEF PrepInit, Asking
<1>2. PayloadInv /\ [PrepNext]_prepVars => PayloadInv'
  <2> SUFFICES ASSUME PayloadInv, [PrepNext]_prepVars PROVE PayloadInv'
    OBVIOUS
  <2>1. CASE Converse
    BY <2>1 DEF Converse, Asking
  <2>2. CASE Prepare
    <3>1. PICK r \in Requests : prepared' = Payload(r, messages)
      BY <2>2 DEF Prepare
    <3>2. messages' = messages
      BY <2>2 DEF Prepare, vars
    <3>3. prepared' = Payload(r, messages')
      BY <3>1, <3>2
    <3>4. Payload(r, messages') = Payload(r, messages)'
      OBVIOUS
    <3>. QED
      BY <3>3, <3>4
  <2>3. CASE Answered
    BY <2>3 DEF Answered, Asking
  <2>4. CASE UNCHANGED prepVars
    BY <2>4 DEF prepVars, vars, Asking
  <2>. QED
    BY <2>1, <2>2, <2>3, <2>4 DEF PrepNext
<1>3. PrepSpec => []PayloadInv
  BY <1>1, <1>2, PTL DEF PrepSpec
<1>4. PrepSpec => []Inv
  BY PreparationConverses, Invariant, PTL
<1>5. Inv /\ PayloadInv => PrepInv
  BY DEF PrepInv
<1>. QED
  BY <1>3, <1>4, <1>5, PTL

-----------------------------------------------------------------------------
(* Tools and choices *)

LEMMA ToolsAreFunctions ==
  ASSUME NEW raw
  PROVE  \A tool \in NormalizeTools(raw) : tool.type = "function" /\ tool.name # ""
BY DEF NormalizeTools

LEMMA ChoiceIsLegal ==
  ASSUME NEW requested, NEW tools, NEW mode,
         ResolveToolChoice(requested, tools, mode = "enabled") # Absent
  PROVE  LET choice == ResolveToolChoice(requested, tools, mode = "enabled") IN
         /\ tools # {}
         /\ mode = "enabled" => choice.kind # "required" /\ ~NamedToolChoice(choice)
         /\ NamedToolChoice(choice) => choice.name \in ToolNamesOf(tools)
<1> DEFINE wanted == IF requested = Absent THEN Absent ELSE NormalizeToolChoice(requested)
           choice == ResolveToolChoice(requested, tools, mode = "enabled")
           barred == \/ mode = "enabled" /\ (NamedToolChoice(wanted) \/ wanted.kind = "required")
                     \/ NamedToolChoice(wanted) /\ wanted.name \notin ToolNamesOf(tools)
<1>1. choice = IF wanted = Absent \/ tools = {} THEN Absent
               ELSE IF barred THEN Choice("auto", "") ELSE wanted
  BY DEF ResolveToolChoice
<1>2. Choice("auto", "").kind = "auto" /\ ~NamedToolChoice(Choice("auto", ""))
  BY DEF Choice, NamedToolChoice
<1>3. choice # Absent
  OBVIOUS
<1>4. /\ tools # {}
      /\ mode = "enabled" => choice.kind # "required" /\ ~NamedToolChoice(choice)
      /\ NamedToolChoice(choice) => choice.name \in ToolNamesOf(tools)
  <2>. HIDE DEF choice, wanted
  <2>. QED
    BY <1>1, <1>2, <1>3
<1>. QED
  BY <1>4

(* Whatever is asked for, the upstream is sent nothing it refuses a request  *)
(* for, choices of kind "other" apart.                                       *)
THEOREM NothingRefused == PrepSpec => []RequestsAccepted
<1>1. PrepInv => RequestsAccepted
  <2> SUFFICES ASSUME PrepInv, Asking PROVE RequestsAccepted
    BY DEF RequestsAccepted
  <2>1. PICK r \in Requests : prepared = Payload(r, messages)
    BY DEF PrepInv
  <2> DEFINE sent == prepared.options
  <2>2. /\ sent = Options(r)
        /\ prepared.sent = Sending(EffectiveMaxMessages(r, MaxMessages),
                                   ModeOf(r) = "enabled", messages)
    BY <2>1 DEF Payload
  <2>3. /\ sent.tools = NormalizeTools(RawTools(r))
        /\ sent.choice = ResolveToolChoice(RequestedChoice(r), sent.tools, sent.thinking = "enabled")
    BY <2>2 DEF Options
  <2>4. Paired(prepared.sent)
    BY <2>2, PairsStayTogether DEF PrepInv
  <2>5. \A tool \in sent.tools : tool.type = "function" /\ tool.name # ""
    BY <2>3, ToolsAreFunctions
  <2>6. sent.choice # Absent =>
          /\ sent.tools # {}
          /\ sent.thinking = "enabled" =>
               sent.choice.kind # "required" /\ ~NamedToolChoice(sent.choice)
          /\ NamedToolChoice(sent.choice) => sent.choice.name \in ToolNamesOf(sent.tools)
    <3>. HIDE DEF sent
    <3>. QED
      BY <2>3, ChoiceIsLegal
  <2>. QED
    BY <2>4, <2>5, <2>6 DEF RequestsAccepted
<1>. QED
  BY <1>1, PrepInvariant, PTL

-----------------------------------------------------------------------------
(* Names of models *)

LEMMA MaxIs ==
  ASSUME NEW n \in Nat, NEW S \in SUBSET (1..n), S # {}
  PROVE  Max(S) \in S
<1>1. /\ S \in SUBSET Nat /\ \A y \in S : y <= n
  OBVIOUS
<1>2. Greatest(S) \in S
  BY <1>1, GreatestIs
<1>. QED
  BY <1>2 DEF Greatest, Max

(* Of a name without ambiguity the one effort and the one cap count.         *)
LEMMA ParsedIs ==
  ASSUME NEW name \in Name, Unambiguous(name)
  PROVE  LET asked   == ParseModelSuffixes(name)
             efforts == {token \in SuffixesOf(name) : IsKnownEffort(token)}
         IN /\ asked.base = Named(name.base, <<>>)
            /\ asked.noThink = \E token \in SuffixesOf(name) : IsNoThink(token)
            /\ asked.effort = IF efforts = {} THEN Absent ELSE CHOOSE token \in efforts : TRUE
            /\ asked.cap \in Nat
            /\ IF asked.cap = 0 THEN CapsAsked(name) \subseteq {0} ELSE asked.cap \in CapsAsked(name)
<1> DEFINE efforts == {token \in SuffixesOf(name) : IsKnownEffort(token)}
           caps    == {token \in SuffixesOf(name) : IsMaxMessagesToken(token)}
           effort  == LastOf(IsKnownEffort, name)
           capped  == LastOf(IsMaxMessagesToken, name)
           es == {i \in DOMAIN name.suffixes : IsKnownEffort(name.suffixes[i])}
           cs == {i \in DOMAIN name.suffixes : IsMaxMessagesToken(name.suffixes[i])}
<1>1. /\ Len(name.suffixes) \in Nat /\ DOMAIN name.suffixes = 1..Len(name.suffixes)
      /\ AtMostOne(efforts) /\ AtMostOne(caps)
  BY DEF Unambiguous, Name
<1>2. /\ ParseModelSuffixes(name).base = Named(name.base, <<>>)
      /\ ParseModelSuffixes(name).noThink = \E token \in SuffixesOf(name) : IsNoThink(token)
      /\ ParseModelSuffixes(name).effort = effort
      /\ ParseModelSuffixes(name).cap = CapOf(capped)
  BY DEF Unambiguous, ParseModelSuffixes
<1>3. effort = IF efforts = {} THEN Absent ELSE CHOOSE token \in efforts : TRUE
  <2>1. effort = IF es = {} THEN Absent ELSE name.suffixes[Max(es)]
    BY DEF LastOf
  <2>2. es = {} <=> efforts = {}
    BY DEF SuffixesOf
  <2>3. ASSUME es # {} PROVE name.suffixes[Max(es)] = CHOOSE token \in efforts : TRUE
    <3>1. Max(es) \in es
      BY <1>1, <2>3, MaxIs
    <3>2. name.suffixes[Max(es)] \in efforts
      BY <3>1 DEF SuffixesOf
    <3>. QED
      BY <1>1, <3>2 DEF AtMostOne
  <2>. QED
    BY <2>1, <2>2, <2>3
<1>4. /\ CapOf(capped) \in Nat
      /\ IF CapOf(capped) = 0 THEN CapsAsked(name) \subseteq {0} ELSE CapOf(capped) \in CapsAsked(name)
  <2>1. capped = IF cs = {} THEN Absent ELSE name.suffixes[Max(cs)]
    BY DEF LastOf
  <2>2. caps = SuffixesOf(name) \cap DOMAIN Caps
    BY DEF IsMaxMessagesToken
  <2>3. CASE cs = {}
    <3>1. caps = {}
      BY <2>3 DEF SuffixesOf
    <3>. QED
      BY <2>1, <2>2, <2>3, <3>1 DEF CapOf, CapsAsked
  <2>4. CASE cs # {}
    <3>1. Max(cs) \in cs
      BY <1>1, <2>4, MaxIs
    <3>2. capped \in caps /\ capped \in DOMAIN Caps
      BY <2>1, <2>4, <3>1 DEF SuffixesOf, IsMaxMessagesToken
    <3>3. CapOf(capped) = Caps[capped] /\ Caps[capped] \in Nat
      BY <3>2, OptionsAssumption DEF CapOf
    <3>4. \A token \in caps : token = capped
      BY <1>1, <3>2 DEF AtMostOne
    <3>. HIDE DEF caps, capped
    <3>. QED
      BY <2>2, <3>2, <3>3, <3>4 DEF CapsAsked
  <2>. QED
    BY <2>3, <2>4
<1>. QED
  BY <1>2, <1>3, <1>4

(* Every request keeps to the limit of its own name, when that is not mm0.   *)
THEOREM OwnLimitsKept == PrepSpec => []OwnLimitHonoured
<1>1. PrepInv => OwnLimitHonoured
  <2> SUFFICES ASSUME PrepInv, Asking PROVE OwnLimitHonoured
    BY DEF OwnLimitHonoured
  <2>1. PICK r \in Requests : prepared = Payload(r, messages)
    BY DEF PrepInv
  <2> DEFINE name     == ClientModel(r)
             max      == EffectiveMaxMessages(r, MaxMessages)
             thinking == ModeOf(r) = "enabled"
             whole    == thinking /\ Strategy = "recover"
  <2>2. /\ prepared.asked = r /\ prepared.options.thinking = ModeOf(r)
        /\ prepared.sent = Sending(max, thinking, messages)
    BY <2>1 DEF Payload, Options
  <2>3. whole => prepared.sent = DOMAIN messages
    BY <2>2 DEF Sending
  <2>4. ASSUME ~whole, Unambiguous(name), 0 \notin CapsAsked(name)
        PROVE  \/ \E cap \in CapsAsked(name) : KeepsTo(cap, prepared.sent)
               \/ CapsAsked(name) = {} /\ KeepsTo(MaxMessages, prepared.sent)
    <3>1. name \in Name
      BY RequestsAssumption DEF ClientModel, OrElse, Field
    <3>2. KeepsTo(max, prepared.sent)
      BY <2>2, <2>4, LimitsAreKept DEF PrepInv
    <3> DEFINE cap == ParseModelSuffixes(name).cap
    <3>3. max = IF cap > 0 THEN cap ELSE MaxMessages
      BY DEF EffectiveMaxMessages
    <3>4. cap \in Nat /\ IF cap = 0 THEN CapsAsked(name) \subseteq {0} ELSE cap \in CapsAsked(name)
      <4>. HIDE DEF name
      <4>. QED
        BY <2>4, <3>1, ParsedIs
    <3>. HIDE DEF cap, max, name
    <3>. QED
      BY <2>4, <3>2, <3>3, <3>4
  <2>. QED
    BY <2>2, <2>3, <2>4 DEF OwnLimitHonoured
<1>. QED
  BY <1>1, PrepInvariant, PTL

(* Order and cap of a name change neither what is sent nor the cache, and    *)
(* what shares the cache shares mode and effort.                             *)
THEOREM NamesAreAgreed == PrepSpec => []NamesAgree
<1>1. PrepInv => NamesAgree
  <2> SUFFICES ASSUME PrepInv, Asking, NEW name \in Names
               PROVE  LET asked == ClientModel(prepared.asked)
                          other == Options([prepared.asked EXCEPT !.model = name])
                      IN /\ /\ Unambiguous(name) /\ Unambiguous(asked) /\ name.base = asked.base
                            /\ WithoutCaps(name) = WithoutCaps(asked)
                            => other = prepared.options
                         /\ other.namespace = prepared.options.namespace =>
                              /\ other.thinking = prepared.options.thinking
                              /\ other.effort = prepared.options.effort
                              /\ Family(other.model) = Family(prepared.options.model)
    BY DEF NamesAgree
  <2>1. PICK r \in Requests : prepared = Payload(r, messages)
    BY DEF PrepInv
  <2> DEFINE q     == [r EXCEPT !.model = name]
             asked == ClientModel(r)
             other == Options(q)
             same  == Options(r)
  <2>2. prepared.asked = r /\ prepared.options = same
    BY <2>1 DEF Payload
  <2>3. /\ ClientModel(q) = name /\ RawTools(q) = RawTools(r)
        /\ RequestedChoice(q) = RequestedChoice(r) /\ q.reasoning_effort = r.reasoning_effort
    <3>1. /\ q.model = name /\ q.tools = r.tools /\ q.functions = r.functions
          /\ q.tool_choice = r.tool_choice /\ q.function_call = r.function_call
          /\ q.reasoning_effort = r.reasoning_effort
      BY RequestsAssumption
    <3>2. name # Absent
      BY RequestsAssumption
    <3>. HIDE DEF q
    <3>. QED
      BY <3>1, <3>2 DEF ClientModel, OrElse, RawTools, RequestedChoice
  <2>4. ASSUME Unambiguous(name), Unambiguous(asked), name.base = asked.base,
               WithoutCaps(name) = WithoutCaps(asked)
        PROVE  other = same
    <3>1. name \in Name /\ asked \in Name
      BY RequestsAssumption DEF ClientModel, OrElse, Field
    <3>2. \A token \in DOMAIN Caps : ~IsKnownEffort(token) /\ ~IsNoThink(token)
      BY OptionsAssumption DEF IsKnownEffort, IsNoThink
    <3>3. /\ {token \in SuffixesOf(name) : IsKnownEffort(token)}
               = {token \in SuffixesOf(asked) : IsKnownEffort(token)}
          /\ (\E token \in SuffixesOf(name) : IsNoThink(token))
               = (\E token \in SuffixesOf(asked) : IsNoThink(token))
      <4>. HIDE DEF asked
      <4>. QED
        BY <2>4, <3>2 DEF WithoutCaps
    <3>4. LET a == ParseModelSuffixes(name)
              b == ParseModelSuffixes(asked)
          IN a.base = b.base /\ a.noThink = b.noThink /\ a.effort = b.effort
      <4>. HIDE DEF asked
      <4>. QED
        BY <2>4, <3>1, <3>3, ParsedIs
    <3>5. ModeOf(q) = ModeOf(r)
      BY <2>3, <3>4 DEF ModeOf
    <3>. HIDE DEF q
    <3>. QED
      BY <2>3, <3>4, <3>5 DEF Options
  <2>5. ASSUME other.namespace = same.namespace
        PROVE  /\ other.thinking = same.thinking /\ other.effort = same.effort
               /\ Family(other.model) = Family(same.model)
    <3>1. ASSUME NEW x
          PROVE  LET effort == OrElse(ParseModelSuffixes(ClientModel(x)).effort, ConfiguredEffort)
                 IN /\ Options(x).namespace.model = Family(Options(x).model)
                    /\ Options(x).namespace.thinking = Options(x).thinking
                    /\ Options(x).effort = IF Options(x).namespace.thinking = "enabled"
                                           THEN NormalizeReasoningEffort(Options(x).namespace.effort)
                                           ELSE x.reasoning_effort
      BY DEF Options, CacheNamespace
    <3>. HIDE DEF q
    <3>. QED
      BY <2>3, <2>5, <3>1
  <2>. QED
    BY <2>2, <2>4, <2>5
<1>. QED
  BY <1>1, PrepInvariant, PTL

(* Types, whatever is asked for.                                             *)
THEOREM PreparationTyped == PrepSpec => []PrepTypeOK
<1>1. PrepInv => PrepTypeOK
  <2> SUFFICES ASSUME PrepInv PROVE PrepTypeOK
    OBVIOUS
  <2>1. TypeOK
    BY DEF PrepInv, Inv
  <2>2. ASSUME Asking
        PROVE  /\ prepared.asked \in Requests
               /\ prepared.options.thinking \in {"disabled", ConfiguredThinking}
               /\ prepared.sent \subseteq DOMAIN messages
               /\ prepared.options.tools \subseteq [type : {"function"}, name : STRING \ {""}]
    <3>1. PICK r \in Requests : prepared = Payload(r, messages)
      BY <2>2 DEF PrepInv
    <3>2. prepared.asked = r /\ prepared.options.thinking = ModeOf(r)
      BY <3>1 DEF Payload, Options
    <3>3. prepared.sent \subseteq DOMAIN messages
      <4>1. prepared.sent = Sending(EffectiveMaxMessages(r, MaxMessages),
                                    ModeOf(r) = "enabled", messages)
        BY <3>1 DEF Payload
      <4>2. /\ messages \in Seq(Message) /\ Len(messages) \in Nat
            /\ DOMAIN messages = 1..Len(messages)
        BY <2>1 DEF TypeOK
      <4>3. FirstOf(messages) \in 1..(Len(messages) + 1)
        BY <4>2, FirstIs
      <4>4. TruncateAt(EffectiveMaxMessages(r, MaxMessages), messages) \in 1..(Len(messages) + 1)
        BY <4>2, <4>3, TruncateIs, StartsAre
      <4>. QED
        BY <4>1, <4>2, <4>3, <4>4 DEF Sending, Kept
    <3>4. prepared.options.tools \subseteq [type : {"function"}, name : STRING \ {""}]
      <4>1. prepared.options.tools = NormalizeTools(RawTools(r))
        BY <3>1 DEF Payload, Options
      <4> DEFINE Raw == [type : Field(STRING) \cup {"function"}, name : STRING]
      <4>2. RawTools(r) \subseteq Raw
        <5>1. /\ r.tools \in Field(SUBSET [type : Field(STRING), name : STRING])
              /\ r.functions \in Field(SUBSET STRING)
          BY RequestsAssumption
        <5>2. r.tools # Absent => r.tools \subseteq Raw
          BY <5>1 DEF Field
        <5>3. ASSUME r.functions # Absent, NEW name \in r.functions
              PROVE  LegacyFunctionToTool(name) \in Raw
          <6>1. r.functions \subseteq STRING
            BY <5>1, <5>3 DEF Field
          <6>2. name \in STRING
            BY <5>3, <6>1
          <6>. QED
            BY <6>2 DEF LegacyFunctionToTool, ToolDef
        <5>. QED
          BY <5>2, <5>3 DEF RawTools
      <4>. QED
        BY <4>1, <4>2 DEF NormalizeTools, NormalizeTool
    <3>. QED
      BY <3>2, <3>3, <3>4 DEF ModeOf
  <2>. QED
    BY <2>1, <2>2 DEF PrepTypeOK
<1>. QED
  BY <1>1, PrepInvariant, PTL

=============================================================================
