--------------------------- MODULE ReasoningReplay ---------------------------
(***************************************************************************)
(* What the proxy is for: reasoning_content is recorded when an assistant  *)
(* message is answered and put back when the client, which has dropped it, *)
(* sends the message again (transform.go, PrepareUpstreamRequest and       *)
(* RecordResponseReasoning; store.go, the keys and StoreAssistantMessage,  *)
(* LookupForMessage, BackfillPortableAliases).                             *)
(*                                                                         *)
(* Conversations run concurrently over one table of rows.  A reasoning     *)
(* text is the number of the answer it came with, so made tells whose it   *)
(* is.  SHA-256 is injective here: a key is the record that is hashed.     *)
(* A namespace stands for base URL, model family, thinking mode, effort    *)
(* and authorization together.  The keys of one message are written in one *)
(* step; that the code puts them one by one is ReasoningStore's subject.   *)
(***************************************************************************)
EXTENDS Integers, Sequences, FiniteSets

CONSTANTS
  Conversations,
  Namespaces,
  NoNamespace,  \* of a conversation without a request
  Thinking,     \* the namespaces with thinking enabled
  Strategy,     \* missing_reasoning_strategy: "recover" or "reject"
  Streaming,    \* whether answers are streamed
  Tools,        \* what an assistant message may call: [name, args] records
  UserSays,     \* texts of user messages
  Contents,     \* contents of assistant messages
  MaxPrunes,    \* bound: rows pruned in a behaviour
  MaxAnswers,   \* bound: answers in a behaviour
  MaxMessages   \* bound: messages of all conversations and rows pruned, for one more

ASSUME ModesAssumption ==
  /\ Thinking \subseteq Namespaces /\ NoNamespace \notin Namespaces
  /\ Strategy \in {"recover", "reject"}
  /\ Streaming \in BOOLEAN
ASSUME BoundsAssumption ==
  MaxPrunes \in Nat /\ MaxAnswers \in Nat /\ MaxMessages \in Nat

VARIABLES
  history,    \* the client's messages, by conversation
  pc,         \* where the conversation's request is
  namespace,  \* its cache namespace
  sent,       \* its messages normalized and repaired so far
  rows,       \* the cache
  made,       \* history: what each reasoning was generated for
  prunes      \* history: how many rows have been pruned

vars == <<history, pc, namespace, sent, rows, made, prunes>>

(* A message, with the number of the reasoning generated for it and, in a    *)
(* request, of the reasoning it carries.                                     *)
NewMessage(role, content, calls, own) ==
  [role |-> role, content |-> content, calls |-> calls, own |-> own,
   reasoning |-> 0]

-----------------------------------------------------------------------------
(* Normalization *)

(* StripCursorThinkingBlocks is to remove the block the proxy has shown      *)
(* before a content.  It takes more: white space the content begins with,    *)
(* as "indented" does (without a block, line breaks only), and every think   *)
(* or details block in the content's own text, as "quoting" has one.         *)
Strip(content) == IF content \in {"indented", "quoting"} THEN "text" ELSE content

Normalized(m) ==
  IF m.role = "assistant" THEN [m EXCEPT !.content = Strip(@)] ELSE m

(* assistantNeedsReasoningForToolContext: a tool result since the last user  *)
(* or system message.                                                        *)
AfterTool(prior) ==
  \E i \in DOMAIN prior :
    /\ prior[i].role = "tool"
    /\ \A j \in i..Len(prior) : prior[j].role \notin {"user", "system"}

NeedsReasoning(m, prior) == m.calls # <<>> \/ AfterTool(prior)

-----------------------------------------------------------------------------
(* Keys *)

(* What conversationScopeFromMessages hashes besides the namespace.          *)
View(prior) ==
  [i \in DOMAIN prior |-> [role    |-> prior[i].role,
                           content |-> prior[i].content,
                           calls   |-> prior[i].calls]]

StartsTurn(view, i) ==
  \A j \in i..Len(view) :
    view[j].role = "user" => \A l \in i..j : view[l].role = "user"

(* From the last run of user messages on.                                    *)
TurnStart(view) ==
  CHOOSE i \in 1..(Len(view) + 1) :
    StartsTurn(view, i) /\ \A j \in 1..(i - 1) : ~StartsTurn(view, j)

Spoken(view) == SelectSeq(view, LAMBDA m : m.role # "system")

(* What turnContextSignature hashes: role and content of all but the system  *)
(* messages of the turn.                                                     *)
TurnOf(view) ==
  LET turn == Spoken(SubSeq(view, TurnStart(view), Len(view)))
  IN [i \in DOMAIN turn |-> [role |-> turn[i].role, content |-> turn[i].content]]

(* Mutant of Facets: the tool names come first. *)
NamesFirst(m) ==
  [i \in DOMAIN m.calls |-> <<"tool_name", m.calls[i].name>>]
  \o <<<<"signature", <<m.content, m.calls>>>>>>
  \o [i \in DOMAIN m.calls |-> <<"tool_call", m.calls[i].id>>]

(* By what a message can be found, best first.                               *)
Facets(m) ==
  <<<<"signature", <<m.content, m.calls>>>>>>
  \o [i \in DOMAIN m.calls |-> <<"tool_call", m.calls[i].id>>]
  \o [i \in DOMAIN m.calls |->
        <<"tool_call_signature", <<m.calls[i].name, m.calls[i].args>>>>]
  \o [i \in DOMAIN m.calls |-> <<"tool_name", m.calls[i].name>>]

(* What conversationScopeFromMessages returns: without a message, nothing,   *)
(* not even the namespace.                                                   *)
Scope(ns, view) == IF view = <<>> THEN <<>> ELSE <<ns, view>>

(* Mutant of Context: portable keys do not hash the turn. *)
NoTurnContext(kind, ns, view) ==
  IF kind = "scope" THEN Scope(ns, view) ELSE <<ns, <<>>>>

Context(kind, ns, view) ==
  IF kind = "scope" THEN Scope(ns, view) ELSE <<ns, TurnOf(view)>>

Key(kind, ns, view, facet) ==
  [kind |-> kind, context |-> Context(kind, ns, view), facet |-> facet]

(* Mutant of Kinds: no portable keys. *)
ScopeOnly(view) == {"scope"}

(* Portable keys need a prior message.                                       *)
Kinds(view) == IF view = <<>> THEN {"scope"} ELSE {"scope", "turn"}

FacetSet(m) == {Facets(m)[i] : i \in DOMAIN Facets(m)}
Keys(kinds, ns, view, m) ==
  {Key(kind, ns, view, facet) : kind \in kinds, facet \in FacetSet(m)}

-----------------------------------------------------------------------------
(* The bound: a behaviour may still add a message, or lose a row.            *)
Messages == UNION {{c} \X DOMAIN history[c] : c \in Conversations}
Room == Cardinality(Messages) + prunes < MaxMessages

-----------------------------------------------------------------------------
(* The cache *)

Cached(key) == \E row \in rows : row.key = key

(* Mutant of Put: INSERT without a conflict clause and without a unique key. *)
PutBeside(keys, reasoning) ==
  rows' = rows \cup {[key |-> key, reasoning |-> reasoning] : key \in keys}

(* One Put per key; an old row of the same key is overwritten.               *)
Put(keys, reasoning) ==
  rows' = {row \in rows : row.key \notin keys}
          \cup {[key |-> key, reasoning |-> reasoning] : key \in keys}

(* Row by row, as age limit and row cap may take them.                       *)
Prune ==
  /\ prunes < MaxPrunes /\ Room
  /\ \E row \in rows : rows' = rows \ {row}
  /\ prunes' = prunes + 1
  /\ UNCHANGED <<history, pc, namespace, sent, made>>

-----------------------------------------------------------------------------
(* The client *)

Init ==
  /\ history = [c \in Conversations |-> <<>>]
  /\ pc = [c \in Conversations |-> "client"]
  /\ namespace = [c \in Conversations |-> NoNamespace]
  /\ sent = [c \in Conversations |-> <<>>]
  /\ rows = {} /\ made = <<>> /\ prunes = 0

(* The request is over: the handler's locals are gone.                       *)
Return(c) ==
  /\ pc' = [pc EXCEPT ![c] = "client"]
  /\ namespace' = [namespace EXCEPT ![c] = NoNamespace]
  /\ sent' = [sent EXCEPT ![c] = <<>>]

Last(seq) == seq[Len(seq)]
OpenCalls(c) == history[c] # <<>> /\ Last(history[c]).calls # <<>>

ClientSays(c, message) ==
  /\ pc[c] = "client" /\ Room
  /\ history' = [history EXCEPT ![c] = Append(@, message)]
  /\ UNCHANGED <<pc, namespace, sent, rows, made, prunes>>

User(c) ==
  /\ ~OpenCalls(c)
  /\ \E text \in UserSays : ClientSays(c, NewMessage("user", text, <<>>, 0))

ToolResult(c) ==
  /\ OpenCalls(c)
  /\ ClientSays(c, NewMessage("tool", "result", <<>>, 0))

(* The user goes back to an earlier message and continues from there.        *)
Rewind(c) ==
  /\ pc[c] = "client"
  /\ \E n \in 1..(Len(history[c]) - 1) :
       /\ history[c][n].role \in {"user", "tool"}
       /\ history' = [history EXCEPT ![c] = SubSeq(@, 1, n)]
  /\ UNCHANGED <<pc, namespace, sent, rows, made, prunes>>

(* The client forgets the turns before the one that begins at n.             *)
Forget(c) ==
  /\ pc[c] = "client"
  /\ \E n \in 2..Len(history[c]) :
       /\ history[c][n].role = "user" /\ history[c][n - 1].role # "user"
       /\ history' = [history EXCEPT ![c] = SubSeq(@, n, Len(@))]
  /\ UNCHANGED <<pc, namespace, sent, rows, made, prunes>>

-----------------------------------------------------------------------------
(* PrepareUpstreamRequest *)

Ask(c) ==
  /\ pc[c] = "client" /\ history[c] # <<>> /\ Last(history[c]).role \in {"user", "tool"}
  /\ pc' = [pc EXCEPT ![c] = "preparing"]
  /\ \E ns \in Namespaces : namespace' = [namespace EXCEPT ![c] = ns]
  /\ UNCHANGED <<history, sent, rows, made, prunes>>

Unprepared(c) == pc[c] = "preparing" /\ Len(sent[c]) < Len(history[c])

(* The message normalizeMessages is at.                                      *)
Current(c) == Normalized(history[c][Len(sent[c]) + 1])

Emit(c, reasoning) ==
  /\ sent' = [sent EXCEPT ![c] = Append(@, [Current(c) EXCEPT !.reasoning = reasoning])]
  /\ UNCHANGED <<history, pc, namespace, made, prunes>>

Repairs(c) ==
  /\ Current(c).role = "assistant" /\ namespace[c] \in Thinking
  /\ NeedsReasoning(Current(c), sent[c])

PassOn(c) ==
  /\ Unprepared(c) /\ ~Repairs(c)
  /\ Emit(c, 0)
  /\ UNCHANGED rows

KeyAt(c, kind, i) == Key(kind, namespace[c], View(sent[c]), Facets(Current(c))[i])

(* LookupForMessage: scoped keys before portable ones; a hit is back-filled. *)
Patch(c) ==
  /\ Unprepared(c) /\ Repairs(c)
  /\ \E kind \in Kinds(View(sent[c])), i \in DOMAIN Facets(Current(c)), row \in rows :
       /\ row.key = KeyAt(c, kind, i)
       /\ \A j \in 1..(i - 1) : ~Cached(KeyAt(c, kind, j))
       /\ kind = "turn" => \A j \in DOMAIN Facets(Current(c)) : ~Cached(KeyAt(c, "scope", j))
       /\ Emit(c, row.reasoning)
       /\ Put(Keys(Kinds(View(sent[c])) \ {"scope"}, namespace[c], View(sent[c]), Current(c)),
              row.reasoning)

Miss(c) ==
  /\ Unprepared(c) /\ Repairs(c)
  /\ \A key \in Keys(Kinds(View(sent[c])), namespace[c], View(sent[c]), Current(c)) :
       ~Cached(key)
  /\ Emit(c, 0)
  /\ UNCHANGED rows

(* missingIndexes *)
Missing(c) ==
  {i \in DOMAIN sent[c] :
     /\ sent[c][i].role = "assistant" /\ namespace[c] \in Thinking
     /\ NeedsReasoning(sent[c][i], SubSeq(sent[c], 1, i - 1))
     /\ sent[c][i].reasoning = 0}

(* prepareUpstream: 409 to the client, or on to the upstream.                *)
Dispatch(c) ==
  /\ pc[c] = "preparing" /\ ~Unprepared(c)
  /\ IF Strategy = "reject" /\ Missing(c) # {}
     THEN Return(c)
     ELSE pc' = [pc EXCEPT ![c] = "upstream"] /\ UNCHANGED <<namespace, sent>>
  /\ UNCHANGED <<history, rows, made, prunes>>

-----------------------------------------------------------------------------
(* The answer *)

(* What StoreAssistantMessage sees: StreamingChoice.ToMessage hands over     *)
(* tool_calls as []map[string]any, and the key functions assert []any.       *)
Stored(m) == IF Streaming THEN [m EXCEPT !.calls = <<>>] ELSE m

(* RecordResponseReasoning; nothing is stored without reasoning.             *)
Record(c, m) ==
  IF m.own = 0 THEN UNCHANGED rows
  ELSE Put(Keys(Kinds(View(sent[c])), namespace[c], View(sent[c]), Stored(m)), m.own)

(* An answer with at most one tool call.                                     *)
Answer(c) ==
  /\ pc[c] = "upstream" /\ Len(made) < MaxAnswers
  /\ \E content \in Contents, tools \in {<<>>} \cup {<<t>> : t \in Tools} :
       LET n == Len(made) + 1
           m == NewMessage("assistant", content,
                  [i \in DOMAIN tools |-> [id |-> n, name |-> tools[i].name,
                                           args |-> tools[i].args]],
                  IF namespace[c] \in Thinking THEN n ELSE 0)
       IN /\ Record(c, m)
          /\ made' = Append(made, [namespace |-> namespace[c], prior |-> View(sent[c]),
                                   content |-> content, calls |-> m.calls])
          /\ history' = [history EXCEPT ![c] = Append(@, m)]
  /\ Return(c)
  /\ UNCHANGED prunes

(* The upstream fails, or the client gives up: nothing is recorded.          *)
Fail(c) ==
  /\ pc[c] = "upstream"
  /\ Return(c)
  /\ UNCHANGED <<history, rows, made, prunes>>

Request(c) == Ask(c) \/ PassOn(c) \/ Patch(c) \/ Miss(c) \/ Dispatch(c) \/ Answer(c) \/ Fail(c)
Client(c)  == User(c) \/ ToolResult(c) \/ Rewind(c) \/ Forget(c)

Next == (\E c \in Conversations : Client(c) \/ Request(c)) \/ Prune

Spec == Init /\ [][Next]_vars

-----------------------------------------------------------------------------
(* Properties *)

Text == UserSays \cup Contents \cup {"text", "result"}
Call == [id : Nat, name : {t.name : t \in Tools}, args : {t.args : t \in Tools}]
Role == {"user", "assistant", "tool"}
Message ==
  [role : Role, content : Text, calls : Seq(Call), own : Nat, reasoning : Nat]
Made ==
  [namespace : Namespaces, prior : Seq([role : Role, content : Text, calls : Seq(Call)]),
   content : Text, calls : Seq(Call)]

TypeOK ==
  /\ history \in [Conversations -> Seq(Message)]
  /\ sent \in [Conversations -> Seq(Message)]
  /\ pc \in [Conversations -> {"client", "preparing", "upstream"}]
  /\ namespace \in [Conversations -> Namespaces \cup {NoNamespace}]
  /\ \A c \in Conversations :
       IF pc[c] = "client" THEN sent[c] = <<>> ELSE namespace[c] \in Namespaces
  /\ made \in Seq(Made)
  /\ \A row \in rows : row.reasoning \in DOMAIN made
  /\ \A row, other \in rows : row.key = other.key => row = other
  /\ prunes \in 0..MaxPrunes

(* Messages that have gone through the repair of the current request.        *)
Repaired(c) ==
  {i \in DOMAIN sent[c] : sent[c][i].role = "assistant"}

(* README.md:9: the proxy caches reasoning_content and puts it back          *)
(* whenever tools are called.  While nothing is pruned, every assistant      *)
(* message with tool calls, and every one after a tool result whose content  *)
(* stripping leaves as it is, is sent with its reasoning, however the client *)
(* has rewound or shortened the conversation - in the namespace it was       *)
(* generated in.                                                             *)
RecordedIsReplayed ==
  \A c \in Conversations : \A i \in Repaired(c) :
    LET m == sent[c][i] IN
    /\ prunes = 0 /\ m.own # 0
    /\ NeedsReasoning(m, SubSeq(sent[c], 1, i - 1))
    /\ namespace[c] \in Thinking /\ namespace[c] = made[m.own].namespace
    /\ m.calls # <<>> \/ Strip(made[m.own].content) = made[m.own].content
    => m.reasoning # 0

(* README.md:9: what is put back is the reasoning_content that was cached    *)
(* for the message.  Rows of one message are overwritten by others that      *)
(* share a tool or a text, from this conversation or another; still, while   *)
(* nothing is pruned, the user stays in the namespace and the client has not *)
(* shortened the history before it, no tool call is given another message's  *)
(* reasoning.                                                                *)
CallsInPlaceGetTheirOwn ==
  \A c \in Conversations : \A i \in Repaired(c) :
    LET m == sent[c][i] IN
    /\ prunes = 0 /\ m.calls # <<>> /\ m.own # 0
    /\ made[m.own].namespace = namespace[c]
    /\ made[m.own].prior = View(SubSeq(sent[c], 1, i - 1))
    => m.reasoning \in {0, m.own}

(* Whatever was pruned and whichever key hit: the reasoning put back was     *)
(* generated under the same namespace (account, model, effort) and in a turn *)
(* that reads the same up to this message.                                   *)
ReplayStaysInTurn ==
  \A c \in Conversations : \A i \in Repaired(c) :
    LET r == sent[c][i].reasoning IN
    r # 0 => /\ made[r].namespace = namespace[c]
             /\ TurnOf(made[r].prior) = TurnOf(View(SubSeq(sent[c], 1, i - 1)))

=============================================================================
