-------------------------- MODULE RequestPreparation --------------------------
(***************************************************************************)
(* A client that goes on with one conversation (HistoryTruncation) and     *)
(* chooses model, tools and tool_choice anew for every request             *)
(* (RequestOptions): what PrepareUpstreamRequest makes of both, the repair *)
(* of reasoning apart.                                                     *)
(***************************************************************************)
EXTENDS HistoryTruncation, RequestOptions

CONSTANTS
  Names,      \* names of models the client may use
  Requests,   \* what it may ask for besides the messages
  NoPayload,  \* no request is with the upstream
  MaxAsked    \* bound: messages of a history that is sent

Field(values) == values \cup {Absent}
Name == [base : STRING, suffixes : Seq(STRING)]
Demand == [kind : STRING, name : STRING]

ASSUME RequestsAssumption ==
  /\ Names \subseteq Name /\ Absent \notin Names /\ ConfiguredModel \in Name
  /\ Requests \subseteq [model : Field(Names),
                         tools : Field(SUBSET [type : Field(STRING), name : STRING]),
                         functions : Field(SUBSET STRING),
                         tool_choice : Field(Demand), function_call : Field(Demand),
                         reasoning_effort : Field(STRING)]
  /\ MaxAsked \in Nat

VARIABLE prepared  \* the request with the upstream: what was asked and what is sent

prepVars == <<vars, prepared>>

PrepInit == Init /\ prepared = NoPayload

(* Mutant of Payload: the cap of the name is not taken over. *)
PayloadIgnoresCap(r, ms) ==
  [asked |-> r, options |-> Options(r),
   sent  |-> Sending(MaxMessages, ModeOf(r) = "enabled", ms)]

(* PrepareUpstreamRequest; max_messages is configured as MaxMessages.        *)
Payload(r, ms) ==
  [asked |-> r, options |-> Options(r),
   sent  |-> Sending(EffectiveMaxMessages(r, MaxMessages), ModeOf(r) = "enabled", ms)]

Prepare ==
  /\ prepared = NoPayload /\ Len(messages) \in 1..MaxAsked
  /\ \E r \in Requests : prepared' = Payload(r, messages)
  /\ UNCHANGED vars

(* The upstream has answered, or has not; the client may go on.              *)
Answered ==
  /\ prepared # NoPayload
  /\ prepared' = NoPayload /\ UNCHANGED vars

Converse == prepared = NoPayload /\ Next /\ UNCHANGED prepared

PrepNext == Converse \/ Prepare \/ Answered

PrepSpec == PrepInit /\ [][PrepNext]_prepVars

-----------------------------------------------------------------------------
(* Properties *)

Asking == prepared # NoPayload

PrepTypeOK ==
  /\ TypeOK
  /\ Asking =>
       /\ prepared.asked \in Requests
       /\ prepared.options.thinking \in {"disabled", ConfiguredThinking}
       /\ prepared.sent \subseteq DOMAIN messages
       /\ prepared.options.tools \subseteq [type : {"function"}, name : STRING \ {""}]

(* transform.go:287-292 and 375-382, TestAllToolsDroppedRemovesToolsAndChoice: *)
(* the upstream refuses a whole request for one tool that is no function, a   *)
(* choice without tools, a choice that demands a call while thinking, a       *)
(* choice of a tool that is not there, and a tool result without its call.    *)
(* Whatever is asked for, under whatever model name, none is sent - except a  *)
(* choice of kind "other", which is passed on whatever it demands.            *)
RequestsAccepted ==
  Asking =>
    LET sent == prepared.options IN
    /\ \A tool \in sent.tools : tool.type = "function" /\ tool.name # ""
    /\ sent.choice # Absent =>
         /\ sent.tools # {}
         /\ sent.thinking = "enabled" =>
              sent.choice.kind # "required" /\ ~NamedToolChoice(sent.choice)
         /\ NamedToolChoice(sent.choice) => sent.choice.name \in ToolNamesOf(sent.tools)
    /\ Paired(prepared.sent)

(* The name consists of tokens the proxy knows, with no two efforts and no    *)
(* two caps to choose between.                                                *)
AtMostOne(S) == \A x, y \in S : x = y
Unambiguous(name) ==
  /\ \A token \in SuffixesOf(name) :
       IsNoThink(token) \/ IsKnownEffort(token) \/ IsMaxMessagesToken(token)
  /\ AtMostOne({token \in SuffixesOf(name) : IsKnownEffort(token)})
  /\ AtMostOne({token \in SuffixesOf(name) : IsMaxMessagesToken(token)})

CapsAsked(name) == {Caps[token] : token \in SuffixesOf(name) \cap DOMAIN Caps}

(* README.md:154-168: the cap in the model's name is the one that counts for  *)
(* this request, and the configured one counts when the name has none.        *)
(* Nothing is said of a name with mm0: README.md:170 and transform.go:173     *)
(* promise it no limit, and the code cuts it by the configured one.  While    *)
(* thinking under the strategy recover the history is sent whole.             *)
OwnLimitHonoured ==
  Asking =>
    LET name  == ClientModel(prepared.asked)
        whole == prepared.options.thinking = "enabled" /\ Strategy = "recover"
    IN /\ whole => prepared.sent = DOMAIN messages
       /\ ~whole /\ Unambiguous(name) /\ 0 \notin CapsAsked(name) =>
            \/ \E cap \in CapsAsked(name) : KeepsTo(cap, prepared.sent)
            \/ CapsAsked(name) = {} /\ KeepsTo(MaxMessages, prepared.sent)

WithoutCaps(name) == SuffixesOf(name) \ DOMAIN Caps

(* transform.go:113-116, README.md:154: the order of the suffixes does not   *)
(* matter.  Names that differ only in their order and in the cap are sent    *)
(* alike and share the cache, so a chat may change them on its way; and      *)
(* whatever shares the cache is sent with the same mode and effort to the    *)
(* same family of models, so no reasoning comes from another mode.           *)
NamesAgree ==
  Asking =>
    \A name \in Names :
      LET asked == ClientModel(prepared.asked)
          other == Options([prepared.asked EXCEPT !.model = name])
      IN /\ /\ Unambiguous(name) /\ Unambiguous(asked) /\ name.base = asked.base
            /\ WithoutCaps(name) = WithoutCaps(asked)
            => other = prepared.options
         /\ other.namespace = prepared.options.namespace =>
              /\ other.thinking = prepared.options.thinking
              /\ other.effort = prepared.options.effort
              /\ Family(other.model) = Family(prepared.options.model)

=============================================================================
