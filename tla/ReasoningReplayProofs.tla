------------------------ MODULE ReasoningReplayProofs ------------------------
(***************************************************************************)
(* For any number of conversations, namespaces, tools, texts and answers,  *)
(* whatever is pruned and however the client rewinds and shortens its      *)
(* history: the types, that replayed reasoning comes from the same         *)
(* namespace and turn, and that the strategy reject sends nothing          *)
(* incomplete.  While nothing is pruned: that a tool call in place gets    *)
(* the reasoning it was generated with and, with regular answers, that     *)
(* what was recorded is replayed.                                          *)
(***************************************************************************)
EXTENDS ReasoningReplay, SequenceTheorems, WellFoundedInduction, TLAPS

(* Appending changes nothing before the end. *)
LEMMA AppendTail ==
  ASSUME NEW S, NEW s \in Seq(S), NEW e \in S
  PROVE  /\ Append(s, e) \in Seq(S)
         /\ Len(Append(s, e)) = Len(s) + 1
         /\ DOMAIN s = 1..Len(s) /\ Len(s) \in Nat
         /\ DOMAIN Append(s, e) = 1..(Len(s) + 1)
         /\ \A i \in 1..Len(s) : Append(s, e)[i] = s[i]
         /\ Append(s, e)[Len(s) + 1] = e
  OBVIOUS

(* Nor does it change what comes before a message. *)
LEMMA AppendPrefix ==
  ASSUME NEW S, NEW s \in Seq(S), NEW e \in S, NEW n \in 0..Len(s)
  PROVE  SubSeq(Append(s, e), 1, n) = SubSeq(s, 1, n)
<1>1. \A i \in 1..n : s[i] \in S /\ Append(s, e)[i] = s[i]
  BY AppendTail
<1>2. SubSeq(s, 1, n) = [i \in 1..n |-> s[i]]
  BY <1>1
<1>3. SubSeq(Append(s, e), 1, n) = [i \in 1..n |-> Append(s, e)[i]]
  BY <1>1, AppendTail
<1>. QED
  BY <1>1, <1>2, <1>3

LEMMA PrefixType ==
  ASSUME NEW S, NEW s \in Seq(S), NEW n \in 0..Len(s)
  PROVE  SubSeq(s, 1, n) \in Seq(S)
  OBVIOUS

LEMMA SuffixType ==
  ASSUME NEW S, NEW s \in Seq(S), NEW n \in 1..Len(s)
  PROVE  SubSeq(s, n, Len(s)) \in Seq(S)
  OBVIOUS

LEMMA WholePrefix ==
  ASSUME NEW S, NEW s \in Seq(S)
  PROVE  SubSeq(s, 1, Len(s)) = s
  BY SubSeqFull

LEMMA ViewType ==
  ASSUME NEW s \in Seq(Message)
  PROVE  View(s) \in Seq([role : Role, content : Text, calls : Seq(Call)])
<1> DEFINE Entry == [role : Role, content : Text, calls : Seq(Call)]
<1>1. \A i \in 1..Len(s) : s[i] \in Message
  OBVIOUS
<1>2. \A i \in 1..Len(s) :
        [role |-> s[i].role, content |-> s[i].content, calls |-> s[i].calls] \in Entry
  BY <1>1 DEF Message
<1>3. DOMAIN s = 1..Len(s) /\ Len(s) \in Nat
  OBVIOUS
<1>. HIDE DEF Entry
<1>. QED
  BY <1>2, <1>3 DEF View, Entry


-----------------------------------------------------------------------------
(* Types *)

LEMMA NormalizedType ==
  ASSUME NEW m \in Message
  PROVE  Normalized(m) \in Message
<1>1. m.content \in Text
  BY DEF Message
<1>2. Strip(m.content) \in Text
  BY <1>1 DEF Strip, Text
<1>. QED
  BY <1>2 DEF Normalized, Message

LEMMA CurrentType ==
  ASSUME TypeOK, NEW c \in Conversations, Unprepared(c), NEW r \in Nat
  PROVE  /\ Current(c) \in Message
         /\ [Current(c) EXCEPT !.reasoning = r] \in Message
         /\ [Current(c) EXCEPT !.reasoning = r].reasoning = r
<1>1. /\ history[c] \in Seq(Message) /\ sent[c] \in Seq(Message)
      /\ Len(sent[c]) \in Nat /\ Len(history[c]) \in Nat
  BY DEF TypeOK
<1>2. Len(sent[c]) + 1 \in 1..Len(history[c])
  BY <1>1 DEF Unprepared
<1>3. history[c][Len(sent[c]) + 1] \in Message
  BY <1>1, <1>2, ElementOfSeq
<1>4. Current(c) \in Message
  BY <1>3, NormalizedType DEF Current
<1>. QED
  BY <1>4 DEF Message

(* One row per key, and rows of reasoning there is. *)
Table == /\ \A row \in rows : row.reasoning \in DOMAIN made
         /\ \A row, other \in rows : row.key = other.key => row = other

LEMMA PutTable ==
  ASSUME Table, NEW keys, NEW r, Put(keys, r),
         r \in DOMAIN made', DOMAIN made \subseteq DOMAIN made'
  PROVE  Table'
  BY DEF Table, Put

(* What saying something, or forgetting it, leaves of the types. *)
LEMMA SaysType ==
  ASSUME TypeOK, NEW c \in Conversations, NEW m \in Message, ClientSays(c, m)
  PROVE  TypeOK'
<1>1. history[c] \in Seq(Message) /\ Append(history[c], m) \in Seq(Message)
  BY AppendTail DEF TypeOK
<1>2. history' = [history EXCEPT ![c] = Append(history[c], m)]
  BY DEF ClientSays
<1>3. history' \in [Conversations -> Seq(Message)]
  BY <1>1, <1>2 DEF TypeOK
<1>. QED
  BY <1>3 DEF ClientSays, TypeOK

LEMMA ShortenType ==
  ASSUME TypeOK, NEW c \in Conversations, NEW h \in Seq(Message),
         history' = [history EXCEPT ![c] = h],
         UNCHANGED <<pc, namespace, sent, rows, made, prunes>>
  PROVE  TypeOK'
<1>1. history' \in [Conversations -> Seq(Message)]
  BY DEF TypeOK
<1>. QED
  BY <1>1 DEF TypeOK

LEMMA ReturnType ==
  ASSUME TypeOK, NEW c \in Conversations, Return(c)
  PROVE  /\ sent' \in [Conversations -> Seq(Message)]
         /\ pc' \in [Conversations -> {"client", "preparing", "upstream"}]
         /\ namespace' \in [Conversations -> Namespaces \cup {NoNamespace}]
         /\ \A d \in Conversations :
              IF pc'[d] = "client" THEN sent'[d] = <<>> ELSE namespace'[d] \in Namespaces
<1>1. <<>> \in Seq(Message)
  OBVIOUS
<1>. QED
  BY <1>1 DEF TypeOK, Return

LEMMA EmitType ==
  ASSUME TypeOK, NEW c \in Conversations, NEW r \in Nat, Unprepared(c), Emit(c, r)
  PROVE  /\ sent' \in [Conversations -> Seq(Message)]
         /\ \A d \in Conversations :
              IF pc'[d] = "client" THEN sent'[d] = <<>> ELSE namespace'[d] \in Namespaces
         /\ UNCHANGED <<history, pc, namespace, made, prunes>>
<1>1. [Current(c) EXCEPT !.reasoning = r] \in Message
  BY CurrentType
<1>2. sent[c] \in Seq(Message)
  BY DEF TypeOK
<1>3. Append(sent[c], [Current(c) EXCEPT !.reasoning = r]) \in Seq(Message)
  BY <1>1, <1>2, AppendTail
<1>4. sent' = [sent EXCEPT ![c] = Append(sent[c], [Current(c) EXCEPT !.reasoning = r])]
  BY DEF Emit
<1>. QED
  BY <1>3, <1>4 DEF TypeOK, Emit, Unprepared

(* The message of an answer, and what is remembered of it. *)
LEMMA AnswerType ==
  ASSUME TypeOK, NEW c \in Conversations, pc[c] = "upstream",
         NEW content \in Contents, NEW tools \in {<<>>} \cup {<<t>> : t \in Tools},
         NEW own \in Nat
  PROVE  LET calls == [i \in DOMAIN tools |->
                         [id |-> Len(made) + 1, name |-> tools[i].name, args |-> tools[i].args]]
         IN /\ calls \in Seq(Call)
            /\ NewMessage("assistant", content, calls, own) \in Message
            /\ [namespace |-> namespace[c], prior |-> View(sent[c]),
                content |-> content, calls |-> calls] \in Made
<1> DEFINE calls == [i \in DOMAIN tools |->
                       [id |-> Len(made) + 1, name |-> tools[i].name, args |-> tools[i].args]]
<1>1. Len(made) \in Nat /\ sent[c] \in Seq(Message) /\ namespace[c] \in Namespaces
  BY DEF TypeOK
<1>2. content \in Text
  BY DEF Text
<1>3. calls \in Seq(Call)
  <2>1. CASE tools = <<>>
    <3>1. calls = <<>>
      BY <2>1
    <3>. QED
      BY <3>1
  <2>2. CASE \E t \in Tools : tools = <<t>>
    <3>1. PICK t \in Tools : tools = <<t>>
      BY <2>2
    <3>3. [id |-> Len(made) + 1, name |-> t.name, args |-> t.args] \in Call
      BY <1>1 DEF Call
    <3>4. calls = <<[id |-> Len(made) + 1, name |-> t.name, args |-> t.args]>>
      BY <3>1
    <3>. QED
      BY <3>3, <3>4
  <2>. QED
    BY <2>1, <2>2
<1>4. NewMessage("assistant", content, calls, own) \in Message
  BY <1>2, <1>3 DEF NewMessage, Message, Role
<1>5. [namespace |-> namespace[c], prior |-> View(sent[c]),
       content |-> content, calls |-> calls] \in Made
  BY <1>1, <1>2, <1>3, ViewType DEF Made
<1>. QED
  BY <1>3, <1>4, <1>5

LEMMA TypeInit == Init => TypeOK
<1> SUFFICES ASSUME Init PROVE TypeOK
  OBVIOUS
<1>1. <<>> \in Seq(Message) /\ <<>> \in Seq(Made)
  OBVIOUS
<1>. QED
  BY <1>1, BoundsAssumption DEF Init, TypeOK

LEMMA TypeStep == TypeOK /\ [Next]_vars => TypeOK'
<1> SUFFICES ASSUME TypeOK, [Next]_vars PROVE TypeOK'
  OBVIOUS
<1>1. ASSUME NEW c \in Conversations, User(c) PROVE TypeOK'
  <2>1. PICK text \in UserSays : ClientSays(c, NewMessage("user", text, <<>>, 0))
    BY <1>1 DEF User
  <2>2. NewMessage("user", text, <<>>, 0) \in Message
    BY DEF NewMessage, Message, Role, Text
  <2>. QED
    BY <2>1, <2>2, SaysType
<1>2. ASSUME NEW c \in Conversations, ToolResult(c) PROVE TypeOK'
  <2>1. NewMessage("tool", "result", <<>>, 0) \in Message
    BY DEF NewMessage, Message, Role, Text
  <2>. QED
    BY <1>2, <2>1, SaysType DEF ToolResult
<1>3. ASSUME NEW c \in Conversations, Rewind(c) PROVE TypeOK'
  <2>1. history[c] \in Seq(Message) /\ Len(history[c]) \in Nat
    BY DEF TypeOK
  <2>2. PICK n \in 1..(Len(history[c]) - 1) :
          history' = [history EXCEPT ![c] = SubSeq(history[c], 1, n)]
    BY <1>3 DEF Rewind
  <2>3. n \in 0..Len(history[c])
    BY <2>1
  <2>4. SubSeq(history[c], 1, n) \in Seq(Message)
    BY <2>1, <2>3, PrefixType
  <2>. QED
    BY <1>3, <2>2, <2>4, ShortenType DEF Rewind
<1>4. ASSUME NEW c \in Conversations, Forget(c) PROVE TypeOK'
  <2>1. history[c] \in Seq(Message) /\ Len(history[c]) \in Nat
    BY DEF TypeOK
  <2>2. PICK n \in 2..Len(history[c]) :
          history' = [history EXCEPT ![c] = SubSeq(history[c], n, Len(history[c]))]
    BY <1>4 DEF Forget
  <2>3. n \in 1..Len(history[c])
    BY <2>1
  <2>4. SubSeq(history[c], n, Len(history[c])) \in Seq(Message)
    BY <2>1, <2>3, SuffixType
  <2>. QED
    BY <1>4, <2>2, <2>4, ShortenType DEF Forget
<1>5. ASSUME NEW c \in Conversations, Ask(c) PROVE TypeOK'
  BY <1>5 DEF Ask, TypeOK
<1>6. ASSUME NEW c \in Conversations, PassOn(c) PROVE TypeOK'
  <2>1. Unprepared(c) /\ Emit(c, 0) /\ UNCHANGED rows /\ 0 \in Nat
    BY <1>6 DEF PassOn
  <2>. QED
    BY <2>1, EmitType DEF TypeOK
<1>7. ASSUME NEW c \in Conversations, Patch(c) PROVE TypeOK'
  <2>1. PICK row \in rows : /\ Unprepared(c) /\ Emit(c, row.reasoning)
                            /\ \E keys : Put(keys, row.reasoning)
    BY <1>7 DEF Patch
  <2>2. row.reasoning \in DOMAIN made /\ row.reasoning \in Nat
    BY DEF TypeOK
  <2>3. Table'
    <3>1. PICK keys : Put(keys, row.reasoning)
      BY <2>1
    <3>. QED
      BY <2>1, <2>2, <3>1, PutTable DEF TypeOK, Table, Emit
  <2>. QED
    BY <2>1, <2>2, <2>3, EmitType DEF TypeOK, Table
<1>8. ASSUME NEW c \in Conversations, Miss(c) PROVE TypeOK'
  <2>1. Unprepared(c) /\ Emit(c, 0) /\ UNCHANGED rows /\ 0 \in Nat
    BY <1>8 DEF Miss
  <2>. QED
    BY <2>1, EmitType DEF TypeOK
<1>9. ASSUME NEW c \in Conversations, Dispatch(c) PROVE TypeOK'
  <2>1. UNCHANGED <<history, rows, made, prunes>>
    BY <1>9 DEF Dispatch
  <2>2. CASE Return(c)
    BY <2>1, <2>2, ReturnType DEF TypeOK
  <2>3. CASE pc' = [pc EXCEPT ![c] = "upstream"] /\ UNCHANGED <<namespace, sent>>
    BY <1>9, <2>1, <2>3 DEF TypeOK, Dispatch
  <2>. QED
    BY <1>9, <2>2, <2>3 DEF Dispatch
<1>10. ASSUME NEW c \in Conversations, Answer(c) PROVE TypeOK'
  <2>1. pc[c] = "upstream" /\ Return(c) /\ prunes' = prunes
    BY <1>10 DEF Answer
  <2> DEFINE Calls(tools) ==
        [i \in DOMAIN tools |-> [id |-> Len(made) + 1, name |-> tools[i].name,
                                 args |-> tools[i].args]]
             Own == IF namespace[c] \in Thinking THEN Len(made) + 1 ELSE 0
             Kept(content, tools) ==
               [namespace |-> namespace[c], prior |-> View(sent[c]),
                content |-> content, calls |-> Calls(tools)]
  <2>2. PICK content \in Contents, tools \in {<<>>} \cup {<<t>> : t \in Tools} :
          /\ Record(c, NewMessage("assistant", content, Calls(tools), Own))
          /\ made' = Append(made, Kept(content, tools))
          /\ history' = [history EXCEPT ![c] =
               Append(history[c], NewMessage("assistant", content, Calls(tools), Own))]
    BY <1>10 DEF Answer, NewMessage
  <2>3. made \in Seq(Made) /\ history[c] \in Seq(Message) /\ Len(made) \in Nat /\ Own \in Nat
    BY DEF TypeOK
  <2>4. /\ NewMessage("assistant", content, Calls(tools), Own) \in Message
        /\ Kept(content, tools) \in Made
    BY <2>1, <2>3, AnswerType
  <2>5. history' \in [Conversations -> Seq(Message)]
    BY <2>2, <2>3, <2>4, AppendTail DEF TypeOK
  <2>6. made' \in Seq(Made) /\ DOMAIN made' = 1..(Len(made) + 1)
        /\ DOMAIN made = 1..Len(made)
    BY <2>2, <2>3, <2>4, AppendTail
  <2>7. Table'
    <3>1. DOMAIN made \subseteq DOMAIN made' /\ Table
      BY <2>3, <2>6 DEF TypeOK, Table
    <3>2. CASE Own = 0
      <4>1. UNCHANGED rows
        BY <2>2, <3>2 DEF Record, NewMessage
      <4>. QED
        BY <3>1, <4>1 DEF Table
    <3>3. CASE Own # 0
      <4>1. Own \in DOMAIN made'
        BY <2>3, <2>6, <3>3
      <4>2. PICK keys : Put(keys, Own)
        BY <2>2, <3>3 DEF Record, NewMessage
      <4>. QED
        BY <3>1, <4>1, <4>2, PutTable
    <3>. QED
      BY <3>2, <3>3
  <2>. QED
    BY <2>1, <2>5, <2>6, <2>7, ReturnType DEF TypeOK, Table
<1>11. ASSUME NEW c \in Conversations, Fail(c) PROVE TypeOK'
  BY <1>11, ReturnType DEF Fail, TypeOK
<1>12. CASE Prune
  <2>1. UNCHANGED <<history, pc, namespace, sent, made>> /\ rows' \subseteq rows
    BY <1>12 DEF Prune
  <2>2. prunes' \in 0..MaxPrunes
    BY <1>12, BoundsAssumption DEF Prune, TypeOK
  <2>. QED
    BY <2>1, <2>2 DEF TypeOK
<1>13. CASE UNCHANGED vars
  BY <1>13 DEF vars, TypeOK
<1>. QED
  BY <1>1, <1>2, <1>3, <1>4, <1>5, <1>6, <1>7, <1>8, <1>9, <1>10, <1>11, <1>12, <1>13
     DEF Next, Client, Request

(* Every variable keeps its type, and the table one row per key. *)
THEOREM TypeCorrect == Spec => []TypeOK
  BY TypeInit, TypeStep, PTL DEF Spec

-----------------------------------------------------------------------------
(* Replayed reasoning comes from the same namespace and turn *)

(* A row is under a key of the context its reasoning was generated in, which *)
(* has a message.                                                            *)
RowInv ==
  \A row \in rows :
    /\ row.key.kind \in {"scope", "turn"}
    /\ made[row.reasoning].prior # <<>>
    /\ row.key.context =
         Context(row.key.kind, made[row.reasoning].namespace, made[row.reasoning].prior)

InTurn(r, ns, prior) ==
  /\ r \in DOMAIN made
  /\ made[r].namespace = ns
  /\ TurnOf(made[r].prior) = TurnOf(View(prior))

SentInv ==
  \A c \in Conversations : \A i \in 1..Len(sent[c]) :
    sent[c][i].reasoning # 0 =>
      InTurn(sent[c][i].reasoning, namespace[c], SubSeq(sent[c], 1, i - 1))

(* A request has messages, and all of them when it is sent.                  *)
AskedInv ==
  \A c \in Conversations :
    /\ pc[c] # "client" => Len(history[c]) > 0
    /\ pc[c] = "upstream" => Len(sent[c]) > 0

Inv == TypeOK /\ RowInv /\ SentInv

LEMMA KindsOfKeys ==
  ASSUME NEW view
  PROVE  Kinds(view) \subseteq {"scope", "turn"}
  BY DEF Kinds

LEMMA ContextTells ==
  ASSUME NEW kind, NEW ns, NEW view, NEW ns2, NEW view2, view2 # <<>>,
         Context(kind, ns, view) = Context(kind, ns2, view2)
  PROVE  ns = ns2 /\ TurnOf(view) = TurnOf(view2)
<1>1. CASE kind = "scope"
  <2>1. Scope(ns, view) = <<ns2, view2>>
    BY <1>1 DEF Context, Scope
  <2>2. <<ns2, view2>> # <<>>
    OBVIOUS
  <2>3. Scope(ns, view) = <<ns, view>>
    BY <2>1, <2>2 DEF Scope
  <2>4. ns = ns2 /\ view = view2
    BY <2>1, <2>3
  <2>. QED
    BY <2>4
<1>2. CASE kind # "scope"
  BY <1>2 DEF Context
<1>. QED
  BY <1>1, <1>2

(* Rows that are put under keys of the context of their reasoning. *)
LEMMA PutRows ==
  ASSUME RowInv, Table, NEW kinds \in SUBSET {"scope", "turn"}, NEW ns, NEW view, NEW m, NEW r,
         Put(Keys(kinds, ns, view, m), r), made'[r].prior # <<>>,
         \A q \in DOMAIN made : made'[q] = made[q],
         \A kind \in kinds :
           Context(kind, ns, view) = Context(kind, made'[r].namespace, made'[r].prior)
  PROVE  RowInv'
<1> SUFFICES ASSUME NEW row \in rows'
             PROVE  /\ row.key.kind \in {"scope", "turn"}
                    /\ made'[row.reasoning].prior # <<>>
                    /\ row.key.context =
                         Context(row.key.kind, made'[row.reasoning].namespace,
                                 made'[row.reasoning].prior)
  BY DEF RowInv
<1>1. CASE row \in rows
  BY <1>1 DEF RowInv, Table
<1>2. CASE row \notin rows
  <2>1. PICK key \in Keys(kinds, ns, view, m) : row = [key |-> key, reasoning |-> r]
    BY <1>2 DEF Put
  <2>2. PICK kind \in kinds, facet \in FacetSet(m) : key = Key(kind, ns, view, facet)
    BY <2>1 DEF Keys
  <2>3. row.key.kind = kind /\ row.key.context = Context(kind, ns, view) /\ row.reasoning = r
    BY <2>1, <2>2 DEF Key
  <2>. QED
    BY <2>2, <2>3
<1>. QED
  BY <1>1, <1>2

(* A message is added to what is sent. *)
LEMMA EmitSent ==
  ASSUME TypeOK, SentInv, NEW c \in Conversations, NEW r \in Nat, Unprepared(c), Emit(c, r),
         r # 0 => InTurn(r, namespace[c], sent[c])
  PROVE  SentInv'
<1> DEFINE m == [Current(c) EXCEPT !.reasoning = r]
<1>1. m \in Message /\ m.reasoning = r
  BY CurrentType
<1>2. sent[c] \in Seq(Message) /\ Len(sent[c]) \in Nat
  BY DEF TypeOK
<1>3. /\ sent' = [sent EXCEPT ![c] = Append(sent[c], m)]
      /\ UNCHANGED <<namespace, made>>
  BY DEF Emit
<1>. HIDE DEF m
<1> SUFFICES ASSUME NEW d \in Conversations, NEW i \in 1..Len(sent'[d]),
                    sent'[d][i].reasoning # 0
             PROVE  InTurn(sent'[d][i].reasoning, namespace[d], SubSeq(sent'[d], 1, i - 1))
  BY <1>3 DEF SentInv, InTurn
<1>4. CASE d # c
  <2>1. sent'[d] = sent[d]
    BY <1>3, <1>4 DEF TypeOK
  <2>. QED
    BY <2>1 DEF SentInv
<1>5. CASE d = c
  <2>1. sent'[d] = Append(sent[c], m)
    BY <1>3, <1>5 DEF TypeOK
  <2>2. CASE i \in 1..Len(sent[c])
    <3>1. i - 1 \in 0..Len(sent[c])
      BY <1>2, <2>2
    <3>2. SubSeq(sent'[d], 1, i - 1) = SubSeq(sent[c], 1, i - 1)
      BY <1>1, <1>2, <2>1, <3>1, AppendPrefix
    <3>3. sent'[d][i] = sent[c][i]
      BY <1>1, <1>2, <2>1, <2>2, AppendTail
    <3>. QED
      BY <1>5, <2>2, <3>2, <3>3 DEF SentInv
  <2>3. CASE i = Len(sent[c]) + 1
    <3>1. sent'[d][i] = m
      BY <1>1, <1>2, <2>1, <2>3, AppendTail
    <3>2. i - 1 = Len(sent[c]) /\ Len(sent[c]) \in 0..Len(sent[c])
      BY <1>2, <2>3
    <3>3. SubSeq(sent'[d], 1, i - 1) = SubSeq(sent[c], 1, Len(sent[c]))
      BY <1>1, <1>2, <2>1, <3>2, AppendPrefix
    <3>4. SubSeq(sent'[d], 1, i - 1) = sent[c]
      BY <1>2, <3>3, WholePrefix
    <3>. QED
      BY <1>1, <1>5, <3>1, <3>4
  <2>. QED
    BY <1>1, <1>2, <2>1, <2>2, <2>3, AppendTail
<1>. QED
  BY <1>4, <1>5

(* The conversation's request is over. *)
LEMMA ReturnSent ==
  ASSUME TypeOK, SentInv, NEW c \in Conversations, Return(c),
         \A q \in DOMAIN made : q \in DOMAIN made' /\ made'[q] = made[q]
  PROVE  SentInv'
<1>1. sent'[c] = <<>> /\ \A d \in Conversations \ {c} : sent'[d] = sent[d]
  BY DEF Return, TypeOK
<1>2. \A d \in Conversations \ {c} : namespace'[d] = namespace[d]
  BY DEF Return, TypeOK
<1>3. Len(sent'[c]) = 0
  BY <1>1
<1>. QED
  BY <1>1, <1>2, <1>3 DEF SentInv, InTurn

LEMMA InvInit == Init => Inv
<1> SUFFICES ASSUME Init PROVE Inv
  OBVIOUS
<1>1. \A c \in Conversations : Len(sent[c]) = 0
  BY DEF Init
<1>. QED
  BY <1>1, TypeInit DEF Inv, Init, RowInv, SentInv

LEMMA AskedStep == TypeOK /\ AskedInv /\ [Next]_vars => AskedInv'
<1> SUFFICES ASSUME TypeOK, AskedInv, [Next]_vars, NEW c \in Conversations
             PROVE  /\ pc'[c] # "client" => Len(history'[c]) > 0
                    /\ pc'[c] = "upstream" => Len(sent'[c]) > 0
  BY DEF AskedInv
<1>1. /\ history[c] \in Seq(Message) /\ Len(history[c]) \in Nat
      /\ sent[c] \in Seq(Message) /\ Len(sent[c]) \in Nat
      /\ pc[c] # "client" => Len(history[c]) > 0
      /\ pc[c] = "upstream" => Len(sent[c]) > 0
  BY DEF TypeOK, AskedInv
<1>2. CASE UNCHANGED <<history, pc, sent>>
  BY <1>1, <1>2
<1>3. ASSUME NEW d \in Conversations, Client(d)
      PROVE  pc[d] = "client" /\ UNCHANGED <<pc, sent>>
             /\ \A e \in Conversations \ {d} : history'[e] = history[e]
  BY <1>3 DEF Client, User, ToolResult, Rewind, Forget, ClientSays, TypeOK
<1>4. ASSUME NEW d \in Conversations, Client(d) \/ Request(d), d # c
      PROVE  history'[c] = history[c] /\ pc'[c] = pc[c] /\ sent'[c] = sent[c]
  BY <1>3, <1>4 DEF Request, Ask, PassOn, Patch, Miss, Emit, Dispatch, Answer, Fail, Return, TypeOK
<1>5. ASSUME Client(c) PROVE pc'[c] = "client"
  BY <1>3, <1>5
<1>6. ASSUME Ask(c) PROVE Len(history'[c]) > 0 /\ pc'[c] = "preparing"
  <2>1. history[c] # <<>> /\ history' = history /\ pc' = [pc EXCEPT ![c] = "preparing"]
    BY <1>6 DEF Ask
  <2>. QED
    BY <1>1, <2>1 DEF TypeOK
<1>7. ASSUME NEW r, Unprepared(c), Emit(c, r)
      PROVE  pc'[c] = "preparing" /\ history'[c] = history[c]
  BY <1>7 DEF Emit, Unprepared
<1>8. ASSUME Dispatch(c)
      PROVE  /\ pc'[c] # "client" => Len(history'[c]) > 0
             /\ pc'[c] = "upstream" => Len(sent'[c]) > 0
  <2>1. history' = history /\ pc[c] = "preparing" /\ ~(Len(sent[c]) < Len(history[c]))
    BY <1>8 DEF Dispatch, Unprepared
  <2>2. Return(c) => pc'[c] = "client"
    BY DEF Return, TypeOK
  <2>3. Return(c) \/ sent' = sent
    BY <1>8 DEF Dispatch
  <2>. QED
    BY <1>1, <2>1, <2>2, <2>3
<1>9. ASSUME Return(c) PROVE pc'[c] = "client"
  BY <1>9 DEF Return, TypeOK
<1>10. ASSUME Request(c)
       PROVE  /\ pc'[c] # "client" => Len(history'[c]) > 0
              /\ pc'[c] = "upstream" => Len(sent'[c]) > 0
  <2>1. CASE Ask(c)
    BY <1>6, <2>1
  <2>2. CASE PassOn(c) \/ Patch(c) \/ Miss(c)
    <3>1. PICK r : Unprepared(c) /\ Emit(c, r)
      BY <2>2 DEF PassOn, Patch, Miss
    <3>2. pc[c] = "preparing"
      BY <3>1 DEF Unprepared
    <3>. QED
      BY <1>1, <1>7, <3>1, <3>2
  <2>3. CASE Dispatch(c)
    BY <1>8, <2>3
  <2>4. CASE Answer(c) \/ Fail(c)
    <3>1. Return(c)
      BY <2>4 DEF Answer, Fail
    <3>. QED
      BY <1>9, <3>1
  <2>. QED
    BY <1>10, <2>1, <2>2, <2>3, <2>4 DEF Request
<1>11. CASE Prune \/ UNCHANGED vars
  BY <1>2, <1>11 DEF Prune, vars
<1>. QED
  BY <1>1, <1>4, <1>5, <1>10, <1>11 DEF Next

LEMMA InvStep == Inv /\ AskedInv /\ [Next]_vars => Inv'
<1> SUFFICES ASSUME Inv, AskedInv, [Next]_vars PROVE Inv'
  OBVIOUS
<1>1. TypeOK /\ RowInv /\ SentInv /\ TypeOK' /\ Table
  BY TypeStep DEF Inv, TypeOK, Table
<1>2. ASSUME UNCHANGED <<namespace, sent, made>>, rows' \subseteq rows PROVE Inv'
  BY <1>1, <1>2 DEF Inv, RowInv, SentInv, InTurn
<1>3. ASSUME NEW c \in Conversations, Client(c) PROVE Inv'
  BY <1>2, <1>3 DEF Client, User, ToolResult, Rewind, Forget, ClientSays
<1>4. ASSUME NEW c \in Conversations, Ask(c) PROVE Inv'
  <2>1. sent[c] = <<>> /\ Len(sent[c]) = 0
    BY <1>1, <1>4 DEF Ask, TypeOK
  <2>2. /\ UNCHANGED <<sent, rows, made>>
        /\ \A d \in Conversations \ {c} : namespace'[d] = namespace[d]
    BY <1>1, <1>4 DEF Ask, TypeOK
  <2>. QED
    BY <1>1, <2>1, <2>2 DEF Inv, RowInv, SentInv, InTurn
<1>5. ASSUME NEW c \in Conversations, Unprepared(c), Emit(c, 0), UNCHANGED rows PROVE Inv'
  <2>1. SentInv' /\ UNCHANGED made
    BY <1>1, <1>5, EmitSent DEF Emit
  <2>. QED
    BY <1>1, <1>5, <2>1 DEF Inv, RowInv
<1>6. ASSUME NEW c \in Conversations, Patch(c) PROVE Inv'
  <2> DEFINE view == View(sent[c])
  <2>1. PICK kind \in Kinds(view), i \in DOMAIN Facets(Current(c)), row \in rows :
          /\ row.key = KeyAt(c, kind, i)
          /\ Unprepared(c) /\ Emit(c, row.reasoning)
          /\ Put(Keys(Kinds(view) \ {"scope"}, namespace[c], view, Current(c)), row.reasoning)
    BY <1>6 DEF Patch
  <2> DEFINE r == row.reasoning
  <2>2. /\ row.key.kind = kind
        /\ row.key.context = Context(kind, namespace[c], view)
    BY <2>1 DEF KeyAt, Key
  <2>3. r \in DOMAIN made /\ r \in Nat /\ UNCHANGED made
    BY <1>1, <2>1 DEF TypeOK, Emit
  <2>4. /\ made[r].namespace = namespace[c] /\ TurnOf(made[r].prior) = TurnOf(view)
        /\ made[r].prior # <<>>
    BY <1>1, <2>2, ContextTells DEF RowInv
  <2>5. SentInv'
    BY <1>1, <2>1, <2>3, <2>4, EmitSent DEF InTurn
  <2>6. Kinds(view) \ {"scope"} \subseteq {"turn"}
    BY KindsOfKeys
  <2>7. Context("turn", namespace[c], view) = Context("turn", made'[r].namespace, made'[r].prior)
    BY <2>3, <2>4 DEF Context
  <2>8. RowInv'
    BY <1>1, <2>1, <2>3, <2>4, <2>6, <2>7, PutRows
  <2>. QED
    BY <1>1, <2>5, <2>8 DEF Inv
<1>7. ASSUME NEW c \in Conversations, Dispatch(c) PROVE Inv'
  <2>1. CASE Return(c)
    <3>1. UNCHANGED <<rows, made>>
      BY <1>7 DEF Dispatch
    <3>. QED
      BY <1>1, <2>1, <3>1, ReturnSent DEF Inv, RowInv
  <2>2. CASE UNCHANGED <<namespace, sent>>
    BY <1>2, <1>7, <2>2 DEF Dispatch
  <2>. QED
    BY <1>7, <2>1, <2>2 DEF Dispatch
<1>8. ASSUME NEW c \in Conversations, Answer(c) PROVE Inv'
  <2> DEFINE n == Len(made) + 1
             view == View(sent[c])
  <2>1. PICK m, entry : /\ m.own \in {0, n} /\ Record(c, m) /\ made' = Append(made, entry)
                        /\ entry.namespace = namespace[c] /\ entry.prior = view
                        /\ Return(c)
    BY <1>8 DEF Answer, NewMessage
  <2>2. made \in Seq(Made) /\ Len(made) \in Nat /\ made' \in Seq(Made)
    BY <1>1 DEF TypeOK
  <2>3. /\ \A q \in DOMAIN made : q \in DOMAIN made' /\ made'[q] = made[q]
        /\ made'[n] = entry
    BY <2>1, <2>2
  <2>4. SentInv'
    BY <1>1, <2>1, <2>3, ReturnSent
  <2>5. CASE UNCHANGED rows
    <3>1. RowInv'
      BY <1>1, <2>3, <2>5 DEF RowInv, Table
    <3>. QED
      BY <1>1, <2>4, <3>1 DEF Inv
  <2>6. CASE Put(Keys(Kinds(view), namespace[c], view, Stored(m)), m.own) /\ m.own # 0
    <3>1. \A kind \in Kinds(view) : Context(kind, namespace[c], view) =
            Context(kind, made'[m.own].namespace, made'[m.own].prior)
      BY <2>1, <2>3, <2>6
    <3>2. made'[m.own].prior # <<>>
      <4>1. Len(sent[c]) > 0 /\ DOMAIN sent[c] = 1..Len(sent[c])
        BY <1>1, <1>8 DEF AskedInv, Answer, TypeOK
      <4>2. DOMAIN view = 1..Len(sent[c]) /\ 1 \in 1..Len(sent[c])
        BY <4>1 DEF View
      <4>3. DOMAIN <<>> = {}
        OBVIOUS
      <4>4. view # <<>>
        BY <4>2, <4>3
      <4>. QED
        BY <2>1, <2>3, <2>6, <4>4
    <3>4. RowInv'
      BY <1>1, <2>3, <2>6, <3>1, <3>2, PutRows, KindsOfKeys
    <3>. QED
      BY <1>1, <2>4, <3>4 DEF Inv
  <2>. QED
    BY <2>1, <2>5, <2>6 DEF Record
<1>9. ASSUME NEW c \in Conversations, Fail(c) PROVE Inv'
  <2>1. Return(c) /\ UNCHANGED <<rows, made>>
    BY <1>9 DEF Fail
  <2>. QED
    BY <1>1, <2>1, ReturnSent DEF Inv, RowInv
<1>10. CASE Prune
  BY <1>2, <1>10 DEF Prune
<1>11. CASE UNCHANGED vars
  BY <1>2, <1>11 DEF vars
<1>12. ASSUME NEW c \in Conversations, PassOn(c) \/ Miss(c) PROVE Inv'
  BY <1>5, <1>12 DEF PassOn, Miss
<1>. QED
  BY <1>3, <1>4, <1>6, <1>7, <1>8, <1>9, <1>10, <1>11, <1>12 DEF Next, Request

(* Whatever was pruned and whichever key hit: the reasoning put back was     *)
(* generated under the same namespace and in a turn that reads the same.     *)
THEOREM ReplayInTurn == Spec => []ReplayStaysInTurn
<1>1. Inv => ReplayStaysInTurn
  <2> SUFFICES ASSUME Inv, NEW c \in Conversations, NEW i \in Repaired(c),
                      sent[c][i].reasoning # 0
               PROVE  InTurn(sent[c][i].reasoning, namespace[c], SubSeq(sent[c], 1, i - 1))
    BY DEF ReplayStaysInTurn, InTurn
  <2>1. sent[c] \in Seq(Message)
    BY DEF Inv, TypeOK
  <2>2. i \in 1..Len(sent[c])
    BY <2>1 DEF Repaired
  <2>. QED
    BY <2>2 DEF Inv, SentInv
<1>2. Init => Inv /\ AskedInv
  BY InvInit DEF Init, AskedInv
<1>3. Inv /\ AskedInv /\ [Next]_vars => Inv' /\ AskedInv'
  BY InvStep, AskedStep DEF Inv
<1>. QED
  BY <1>1, <1>2, <1>3, PTL DEF Spec

-----------------------------------------------------------------------------
(* What can be found under which key *)

(* One more element, put at the end. *)
LEMMA OneMore ==
  ASSUME NEW S, NEW s \in Seq(S), NEW e \in S, NEW t \in Seq(S),
         Len(t) = Len(s) + 1, \A i \in 1..Len(s) : t[i] = s[i], t[Len(s) + 1] = e
  PROVE  s \o <<e>> = t
<1>1. s \o <<e>> = Append(s, e)
  OBVIOUS
<1>2. /\ Append(s, e) \in Seq(S) /\ Len(Append(s, e)) = Len(s) + 1 /\ Len(s) \in Nat
      /\ \A i \in 1..Len(s) : Append(s, e)[i] = s[i]
      /\ Append(s, e)[Len(s) + 1] = e
  OBVIOUS
<1>3. \A i \in 1..Len(t) : Append(s, e)[i] = t[i]
  BY <1>2
<1>4. Append(s, e) = t
  BY <1>2, <1>3, SeqEqual
<1>. QED
  BY <1>1, <1>4

LEMMA FourInARow ==
  ASSUME NEW a, NEW b, NEW c, NEW d
  PROVE  ((<<a>> \o <<b>>) \o <<c>>) \o <<d>> = <<a, b, c, d>>
<1> DEFINE S == {a, b, c, d}
<1>1. /\ <<a>> \in Seq(S) /\ <<a, b>> \in Seq(S) /\ <<a, b, c>> \in Seq(S)
      /\ <<a, b, c, d>> \in Seq(S) /\ b \in S /\ c \in S /\ d \in S
  OBVIOUS
<1>2. /\ Len(<<a, b>>) = Len(<<a>>) + 1
      /\ \A i \in 1..Len(<<a>>) : <<a, b>>[i] = <<a>>[i]
      /\ <<a, b>>[Len(<<a>>) + 1] = b
  OBVIOUS
<1>3. /\ Len(<<a, b, c>>) = Len(<<a, b>>) + 1
      /\ \A i \in 1..Len(<<a, b>>) : <<a, b, c>>[i] = <<a, b>>[i]
      /\ <<a, b, c>>[Len(<<a, b>>) + 1] = c
  OBVIOUS
<1>4. /\ Len(<<a, b, c, d>>) = Len(<<a, b, c>>) + 1
      /\ \A i \in 1..Len(<<a, b, c>>) : <<a, b, c, d>>[i] = <<a, b, c>>[i]
      /\ <<a, b, c, d>>[Len(<<a, b, c>>) + 1] = d
  OBVIOUS
<1> HIDE DEF S
<1>5. <<a>> \o <<b>> = <<a, b>>
  BY <1>1, <1>2, OneMore, Zenon
<1>6. <<a, b>> \o <<c>> = <<a, b, c>>
  BY <1>1, <1>3, OneMore, Zenon
<1>7. <<a, b, c>> \o <<d>> = <<a, b, c, d>>
  BY <1>1, <1>4, OneMore, Zenon
<1>. QED
  BY <1>5, <1>6, <1>7, Zenon

LEMMA FacetsWithout ==
  ASSUME NEW m, m.calls = <<>>
  PROVE  FacetSet(m) = {<<"signature", <<m.content, <<>>>>>>}
<1>1. DOMAIN m.calls = {}
  OBVIOUS
<1>2. /\ [i \in DOMAIN m.calls |-> <<"tool_call", m.calls[i].id>>] = <<>>
      /\ [i \in DOMAIN m.calls |->
            <<"tool_call_signature", <<m.calls[i].name, m.calls[i].args>>>>] = <<>>
      /\ [i \in DOMAIN m.calls |-> <<"tool_name", m.calls[i].name>>] = <<>>
  BY <1>1
<1>3. Facets(m) = <<<<"signature", <<m.content, <<>>>>>>>>
  BY <1>2 DEF Facets
<1> DEFINE a == <<"signature", <<m.content, <<>>>>>>
<1>4. Facets(m) = <<a>>
  BY <1>3
<1> HIDE DEF a
<1>5. DOMAIN Facets(m) = {1} /\ Facets(m)[1] = a
  BY <1>4
<1>. QED
  BY <1>5 DEF FacetSet, a

LEMMA FacetsWithCall ==
  ASSUME NEW m, NEW k, m.calls = <<k>>
  PROVE  /\ DOMAIN Facets(m) = 1..4
         /\ Facets(m)[1] = <<"signature", <<m.content, <<k>>>>>>
         /\ Facets(m)[2] = <<"tool_call", k.id>>
         /\ Facets(m)[3] = <<"tool_call_signature", <<k.name, k.args>>>>
         /\ Facets(m)[4] = <<"tool_name", k.name>>
<1> DEFINE a == <<"signature", <<m.content, <<k>>>>>>
           b == <<"tool_call", k.id>>
           c == <<"tool_call_signature", <<k.name, k.args>>>>
           d == <<"tool_name", k.name>>
<1>1. DOMAIN m.calls = {1} /\ m.calls[1] = k
  OBVIOUS
<1>2. /\ [i \in DOMAIN m.calls |-> <<"tool_call", m.calls[i].id>>] = <<b>>
      /\ [i \in DOMAIN m.calls |->
            <<"tool_call_signature", <<m.calls[i].name, m.calls[i].args>>>>] = <<c>>
      /\ [i \in DOMAIN m.calls |-> <<"tool_name", m.calls[i].name>>] = <<d>>
  BY <1>1
<1>3. <<"signature", <<m.content, m.calls>>>> = a
  OBVIOUS
<1>4. Facets(m) = ((<<a>> \o <<b>>) \o <<c>>) \o <<d>>
  BY <1>2, <1>3, Zenon DEF Facets
<1> HIDE DEF a, b, c, d
<1>5. Facets(m) = <<a, b, c, d>>
  BY <1>4, FourInARow, Zenon
<1>6. /\ DOMAIN Facets(m) = 1..4 /\ Facets(m)[1] = a /\ Facets(m)[2] = b
      /\ Facets(m)[3] = c /\ Facets(m)[4] = d
  BY <1>5
<1>. QED
  BY <1>6, Zenon DEF a, b, c, d

-----------------------------------------------------------------------------
(* A call gets the reasoning it was generated with *)

(* A message of an answer: at most one call, which carries the number of the *)
(* reasoning it was generated with.                                          *)
Owned ==
  {m \in Message :
     \/ m.calls = <<>>
     \/ \E k \in Call : /\ m.calls = <<k>> /\ m.own \in {0, k.id}
                        /\ k.id \in DOMAIN made /\ made[k.id].calls # <<>>}

CallsOwned ==
  history \in [Conversations -> Seq(Owned)] /\ sent \in [Conversations -> Seq(Owned)]

(* Among the scoped rows, those of a call's id, and of a message with a call, *)
(* keep that call's reasoning: no other message is stored under them.         *)
ScopedRows ==
  \A row \in rows : row.key.kind = "scope" =>
    /\ \A n : row.key.facet = <<"tool_call", n>> => row.reasoning = n
    /\ \A x, k : row.key.facet = <<"signature", <<x, <<k>>>>>> => row.reasoning = k.id

(* Streamed answers are stored as if they had no calls. *)
StreamedRows ==
  Streaming => \A row \in rows : \E x : row.key.facet = <<"signature", <<x, <<>>>>>>

CallKey(n) == Key("scope", made[n].namespace, made[n].prior, <<"tool_call", n>>)

(* While nothing is pruned, the key of a call stays. *)
CallsCached ==
  prunes = 0 /\ ~Streaming =>
    \A n \in DOMAIN made :
      made[n].calls # <<>> /\ made[n].namespace \in Thinking => Cached(CallKey(n))

InPlace(m, ns, prior) ==
  /\ prunes = 0 /\ m.calls # <<>> /\ m.own # 0
  /\ made[m.own].namespace = ns /\ made[m.own].prior = View(prior)

OwnReplayed ==
  \A c \in Conversations : \A i \in 1..Len(sent[c]) :
    InPlace(sent[c][i], namespace[c], SubSeq(sent[c], 1, i - 1)) =>
      sent[c][i].reasoning \in {0, sent[c][i].own}

CallsInv ==
  TypeOK /\ CallsOwned /\ ScopedRows /\ StreamedRows /\ CallsCached /\ OwnReplayed

LEMMA OwnedGrows ==
  ASSUME \A n \in DOMAIN made : n \in DOMAIN made' /\ made'[n] = made[n]
  PROVE  /\ Owned \subseteq Owned'
         /\ \A s \in Seq(Owned) : s \in Seq(Owned')
<1>1. Owned \subseteq Owned'
  BY DEF Owned
<1>2. ASSUME NEW S, NEW T, S \subseteq T, NEW s \in Seq(S) PROVE s \in Seq(T)
  BY <1>2
<1>. QED
  BY <1>1, <1>2, Zenon

LEMMA CurrentOwned ==
  ASSUME TypeOK, CallsOwned, NEW c \in Conversations, Unprepared(c), NEW r \in Nat
  PROVE  /\ Current(c) \in Owned
         /\ [Current(c) EXCEPT !.reasoning = r] \in Owned
         /\ [Current(c) EXCEPT !.reasoning = r].reasoning = r
         /\ [Current(c) EXCEPT !.reasoning = r].own = Current(c).own
         /\ [Current(c) EXCEPT !.reasoning = r].calls = Current(c).calls
<1> DEFINE h == history[c][Len(sent[c]) + 1]
<1>1. /\ history[c] \in Seq(Owned) /\ sent[c] \in Seq(Owned)
      /\ Len(sent[c]) \in Nat /\ Len(history[c]) \in Nat
  BY DEF CallsOwned
<1>2. Len(sent[c]) + 1 \in 1..Len(history[c])
  BY <1>1 DEF Unprepared
<1>3. h \in Owned
  BY <1>1, <1>2, ElementOfSeq
<1>4. Current(c) = Normalized(h)
  BY DEF Current
<1> HIDE DEF h
<1>5. h \in Message
  BY <1>3 DEF Owned
<1>6. Normalized(h) \in Message /\ Normalized(h).calls = h.calls /\ Normalized(h).own = h.own
  BY <1>5, NormalizedType DEF Normalized, Message
<1>7. Current(c) \in Owned
  BY <1>3, <1>4, <1>6 DEF Owned
<1>8. /\ [Current(c) EXCEPT !.reasoning = r] \in Message
      /\ [Current(c) EXCEPT !.reasoning = r].reasoning = r
      /\ [Current(c) EXCEPT !.reasoning = r].own = Current(c).own
      /\ [Current(c) EXCEPT !.reasoning = r].calls = Current(c).calls
  BY <1>4, <1>6 DEF Message
<1>9. [Current(c) EXCEPT !.reasoning = r] \in Owned
  BY <1>7, <1>8 DEF Owned
<1>. QED
  BY <1>7, <1>8, <1>9

(* The repair adds a message to what is sent. *)
LEMMA EmitOwn ==
  ASSUME TypeOK, CallsOwned, OwnReplayed, NEW c \in Conversations, NEW r \in Nat,
         Unprepared(c), Emit(c, r),
         InPlace(Current(c), namespace[c], sent[c]) => r \in {0, Current(c).own}
  PROVE  CallsOwned' /\ OwnReplayed'
<1> DEFINE m == [Current(c) EXCEPT !.reasoning = r]
<1>1. m \in Owned /\ m.reasoning = r /\ m.own = Current(c).own /\ m.calls = Current(c).calls
  BY CurrentOwned
<1>2. sent[c] \in Seq(Owned) /\ Len(sent[c]) \in Nat
  BY DEF CallsOwned
<1>3. /\ sent' = [sent EXCEPT ![c] = Append(sent[c], m)]
      /\ UNCHANGED <<history, namespace, made, prunes>>
  BY DEF Emit
<1>. HIDE DEF m
<1>4. CallsOwned'
  <2>1. Append(sent[c], m) \in Seq(Owned)
    BY <1>1, <1>2, AppendTail
  <2>2. Owned' = Owned
    BY <1>3 DEF Owned
  <2>. QED
    BY <1>3, <2>1, <2>2 DEF CallsOwned
<1>5. OwnReplayed'
  <2> SUFFICES ASSUME NEW d \in Conversations, NEW i \in 1..Len(sent'[d]),
                      InPlace(sent'[d][i], namespace[d], SubSeq(sent'[d], 1, i - 1))
               PROVE  sent'[d][i].reasoning \in {0, sent'[d][i].own}
    <3>1. ASSUME NEW d \in Conversations, NEW i \in 1..Len(sent'[d]),
                 InPlace(sent[d][i], namespace[d], SubSeq(sent[d], 1, i - 1))'
          PROVE  InPlace(sent'[d][i], namespace[d], SubSeq(sent'[d], 1, i - 1))
      BY <1>3, <3>1 DEF InPlace, View
    <3>. QED
      BY <3>1 DEF OwnReplayed
  <2>1. CASE d # c
    <3>1. sent'[d] = sent[d]
      BY <1>3, <2>1 DEF TypeOK
    <3>. QED
      BY <3>1 DEF OwnReplayed
  <2>2. CASE d = c /\ i \in 1..Len(sent[c])
    <3>1. sent'[d] = Append(sent[c], m)
      BY <1>3, <2>2 DEF TypeOK
    <3>2. i - 1 \in 0..Len(sent[c])
      BY <1>2, <2>2
    <3>3. SubSeq(sent'[d], 1, i - 1) = SubSeq(sent[c], 1, i - 1)
      BY <1>1, <1>2, <3>1, <3>2, AppendPrefix
    <3>4. sent'[d][i] = sent[c][i]
      BY <1>1, <1>2, <2>2, <3>1, AppendTail
    <3>. QED
      BY <2>2, <3>3, <3>4 DEF OwnReplayed
  <2>3. CASE d = c /\ i = Len(sent[c]) + 1
    <3>1. sent'[d] = Append(sent[c], m)
      BY <1>3, <2>3 DEF TypeOK
    <3>2. sent'[d][i] = m
      BY <1>1, <1>2, <2>3, <3>1, AppendTail
    <3>3. i - 1 = Len(sent[c]) /\ Len(sent[c]) \in 0..Len(sent[c])
      BY <1>2, <2>3
    <3>4. SubSeq(sent'[d], 1, i - 1) = SubSeq(sent[c], 1, Len(sent[c]))
      BY <1>1, <1>2, <3>1, <3>3, AppendPrefix
    <3>5. SubSeq(sent'[d], 1, i - 1) = sent[c]
      BY <1>2, <3>4, WholePrefix
    <3>6. InPlace(Current(c), namespace[c], sent[c])
      BY <1>1, <2>3, <3>2, <3>5 DEF InPlace
    <3>. QED
      BY <1>1, <3>2, <3>6
  <2>4. i \in 1..Len(sent[c]) \/ i = Len(sent[c]) + 1 \/ d # c
    <3>1. CASE d = c
      <4>1. sent'[d] = Append(sent[c], m)
        BY <1>3, <3>1 DEF TypeOK
      <4>2. Len(sent'[d]) = Len(sent[c]) + 1
        BY <1>1, <1>2, <4>1, AppendTail
      <4>. QED
        BY <1>2, <4>2
    <3>. QED
      BY <3>1
  <2>. QED
    BY <2>1, <2>2, <2>3, <2>4
<1>. QED
  BY <1>4, <1>5

LEMMA ReturnOwn ==
  ASSUME TypeOK, CallsOwned, OwnReplayed, NEW c \in Conversations, Return(c),
         \A n \in DOMAIN made : n \in DOMAIN made' /\ made'[n] = made[n], prunes' = prunes
  PROVE  /\ sent' \in [Conversations -> Seq(Owned')]
         /\ OwnReplayed'
<1>1. sent'[c] = <<>> /\ \A d \in Conversations \ {c} : sent'[d] = sent[d]
  BY DEF Return, TypeOK
<1>2. \A d \in Conversations \ {c} : namespace'[d] = namespace[d]
  BY DEF Return, TypeOK
<1>3. sent' = [sent EXCEPT ![c] = <<>>]
  BY DEF Return
<1>4. <<>> \in Seq(Owned')
  OBVIOUS
<1>5. \A d \in Conversations : sent[d] \in Seq(Owned')
  BY OwnedGrows DEF CallsOwned
<1>6. sent' \in [Conversations -> Seq(Owned')]
  BY <1>3, <1>4, <1>5 DEF CallsOwned
<1>7. OwnReplayed'
  <2> SUFFICES ASSUME NEW d \in Conversations, NEW i \in 1..Len(sent'[d]),
                      InPlace(sent[d][i], namespace[d], SubSeq(sent[d], 1, i - 1))'
               PROVE  sent'[d][i].reasoning \in {0, sent'[d][i].own}
    BY DEF OwnReplayed
  <2>1. d # c
    <3>1. CASE d = c
      <4>1. Len(sent'[d]) = 0
        BY <1>1, <3>1
      <4>. QED
        BY <4>1
    <3>. QED
      BY <3>1
  <2>2. sent'[d] = sent[d] /\ namespace'[d] = namespace[d] /\ i \in 1..Len(sent[d])
    BY <1>1, <1>2, <2>1
  <2>3. sent[d] \in Seq(Owned)
    BY DEF CallsOwned
  <2>4. sent[d][i] \in Owned
    BY <2>2, <2>3, ElementOfSeq
  <2>5. sent[d][i].calls # <<>> /\ sent[d][i].own # 0
    BY <2>2 DEF InPlace
  <2>6. sent[d][i].own \in DOMAIN made
    BY <2>4, <2>5 DEF Owned
  <2>7. InPlace(sent[d][i], namespace[d], SubSeq(sent[d], 1, i - 1))
    BY <2>2, <2>6 DEF InPlace
  <2>. QED
    BY <2>2, <2>7 DEF OwnReplayed
<1>. QED
  BY <1>6, <1>7

(* Nothing that is cached is lost when keys are written. *)
LEMMA PutKeeps ==
  ASSUME NEW keys, NEW r, Put(keys, r)
  PROVE  /\ \A key : Cached(key) => Cached(key)'
         /\ \A key \in keys : Cached(key)'
<1>1. ASSUME NEW key \in keys PROVE Cached(key)'
  <2>1. [key |-> key, reasoning |-> r] \in rows'
    BY DEF Put
  <2>2. [key |-> key, reasoning |-> r].key = key
    OBVIOUS
  <2>. QED
    BY <2>1, <2>2 DEF Cached
<1>2. ASSUME NEW key, Cached(key), key \notin keys PROVE Cached(key)'
  BY <1>2 DEF Cached, Put
<1>. QED
  BY <1>1, <1>2

(* A new row is the row of one of the keys. *)
LEMMA NewRow ==
  ASSUME NEW kinds, NEW ns, NEW view, NEW m, NEW r, Put(Keys(kinds, ns, view, m), r),
         NEW row \in rows', row \notin rows
  PROVE  /\ row.key.kind \in kinds
         /\ row.key.facet \in FacetSet(m)
         /\ row.reasoning = r
<1>1. PICK key \in Keys(kinds, ns, view, m) : row = [key |-> key, reasoning |-> r]
  BY DEF Put
<1>2. PICK kind \in kinds, facet \in FacetSet(m) : key = Key(kind, ns, view, facet)
  BY <1>1 DEF Keys
<1>. QED
  BY <1>1, <1>2 DEF Key

LEMMA CallsInit == Init => CallsInv
<1> SUFFICES ASSUME Init PROVE CallsInv
  OBVIOUS
<1>1. \A c \in Conversations : Len(sent[c]) = 0
  BY DEF Init
<1>2. <<>> \in Seq(Owned) /\ DOMAIN made = {}
  BY DEF Init
<1>3. CallsOwned
  BY <1>2 DEF Init, CallsOwned
<1>. QED
  BY <1>1, <1>2, <1>3, TypeInit
     DEF CallsInv, Init, ScopedRows, StreamedRows, CallsCached, OwnReplayed

LEMMA OneIsSome == ASSUME NEW k PROVE <<k>> # <<>>
  OBVIOUS

(* The repair of a message with a call. *)
LEMMA PatchCalls ==
  ASSUME TypeOK, CallsOwned, ScopedRows, StreamedRows, CallsCached,
         NEW c \in Conversations, Unprepared(c), Repairs(c),
         NEW kind \in Kinds(View(sent[c])), NEW i \in DOMAIN Facets(Current(c)),
         NEW row \in rows, row.key = KeyAt(c, kind, i),
         \A j \in 1..(i - 1) : ~Cached(KeyAt(c, kind, j)),
         kind = "turn" => \A j \in DOMAIN Facets(Current(c)) : ~Cached(KeyAt(c, "scope", j)),
         NEW k \in Call, Current(c).calls = <<k>>
  PROVE  /\ ~Streaming
         /\ InPlace(Current(c), namespace[c], sent[c]) => row.reasoning = Current(c).own
<1> DEFINE m == Current(c)
           view == View(sent[c])
<1>1. /\ DOMAIN Facets(m) = 1..4
      /\ Facets(m)[1] = <<"signature", <<m.content, <<k>>>>>>
      /\ Facets(m)[2] = <<"tool_call", k.id>>
      /\ Facets(m)[3] = <<"tool_call_signature", <<k.name, k.args>>>>
      /\ Facets(m)[4] = <<"tool_name", k.name>>
  BY FacetsWithCall, Zenon
<1>2. row.key.kind = kind /\ row.key.facet = Facets(m)[i] /\ i \in 1..4
  BY <1>1 DEF KeyAt, Key
<1>3. ~Streaming
  <2> SUFFICES ASSUME NEW x, Facets(m)[i] = <<"signature", <<x, <<>>>>>>
               PROVE  FALSE
    BY <1>2 DEF StreamedRows
  <2>1. Facets(m)[i][1] = "signature"
    OBVIOUS
  <2>2. i = 1
    BY <1>1, <1>2, <2>1
  <2>3. <<"signature", <<m.content, <<k>>>>>> = <<"signature", <<x, <<>>>>>>
    BY <1>1, <2>2
  <2>4. <<k>> = <<>>
    BY <2>3
  <2>. QED
    BY <2>4, OneIsSome
<1>4. ASSUME InPlace(m, namespace[c], sent[c]) PROVE row.reasoning = m.own
  <2>1. /\ m \in Owned /\ m.calls = <<k>> /\ m.own # 0 /\ prunes = 0
        /\ made[m.own].namespace = namespace[c] /\ made[m.own].prior = view
    BY <1>4, CurrentOwned DEF InPlace
  <2>2. m.own = k.id /\ k.id \in DOMAIN made /\ made[k.id].calls # <<>>
    <3>1. PICK l \in Call : /\ m.calls = <<l>> /\ m.own \in {0, l.id}
                            /\ l.id \in DOMAIN made /\ made[l.id].calls # <<>>
      BY <2>1, OneIsSome DEF Owned
    <3>2. l = k
      <4>1. <<l>> = <<k>>
        BY <2>1, <3>1
      <4>. QED
        BY <4>1
    <3>. QED
      BY <2>1, <3>1, <3>2
  <2>3. Cached(CallKey(k.id))
    BY <1>3, <2>1, <2>2 DEF CallsCached, Repairs
  <2>4. CallKey(k.id) = KeyAt(c, "scope", 2)
    BY <1>1, <2>1, <2>2 DEF CallKey, KeyAt
  <2>5. kind = "scope"
    <3>1. kind # "turn"
      BY <1>1, <2>3, <2>4
    <3>. QED
      BY <3>1 DEF Kinds
  <2>6. i \in {1, 2}
    <3>1. 2 \notin 1..(i - 1)
      BY <2>3, <2>4, <2>5
    <3>. QED
      BY <1>2, <3>1
  <2>7. CASE i = 1
    BY <1>1, <1>2, <2>2, <2>5, <2>7 DEF ScopedRows
  <2>8. CASE i = 2
    BY <1>1, <1>2, <2>2, <2>5, <2>8 DEF ScopedRows
  <2>. QED
    BY <2>6, <2>7, <2>8
<1>. QED
  BY <1>3, <1>4

(* What an answer writes. *)
LEMMA AnswerRows ==
  ASSUME ScopedRows, StreamedRows, NEW ns, NEW view, NEW m \in Message, NEW n,
         Put(Keys(Kinds(view), ns, view, Stored(m)), n),
         m.calls = <<>> \/ \E k : m.calls = <<k>> /\ k.id = n
  PROVE  /\ ScopedRows' /\ StreamedRows'
         /\ ~Streaming /\ m.calls # <<>> =>
              \E row \in rows' : row.key = Key("scope", ns, view, <<"tool_call", n>>)
<1> DEFINE s == Stored(m)
<1>1. Streaming => s.calls = <<>>
  <2>1. Streaming => s = [m EXCEPT !.calls = <<>>]
    BY DEF Stored
  <2>. QED
    BY <2>1 DEF Message
<1>2. ~Streaming => s = m
  BY DEF Stored
<1>3. ASSUME NEW row \in rows', row \notin rows
      PROVE  row.key.facet \in FacetSet(s) /\ row.reasoning = n
  BY <1>3, NewRow
<1>4. CASE s.calls = <<>>
  <2>1. FacetSet(s) = {<<"signature", <<s.content, <<>>>>>>}
    BY <1>4, FacetsWithout, Zenon
  <2>2. ASSUME NEW row \in rows', row \notin rows
        PROVE  /\ \A x : row.key.facet # <<"tool_call", x>>
               /\ \A x, j : row.key.facet # <<"signature", <<x, <<j>>>>>>
    <3>1. row.key.facet = <<"signature", <<s.content, <<>>>>>>
      BY <1>3, <2>1, <2>2
    <3>2. \A x, j : <<"signature", <<s.content, <<>>>>>> # <<"signature", <<x, <<j>>>>>>
      <4> SUFFICES ASSUME NEW x, NEW j,
                          <<"signature", <<s.content, <<>>>>>> = <<"signature", <<x, <<j>>>>>>
                   PROVE  FALSE
        OBVIOUS
      <4>1. <<>> = <<j>>
        OBVIOUS
      <4>. QED
        BY <4>1, OneIsSome
    <3>3. \A x : <<"signature", <<s.content, <<>>>>>> # <<"tool_call", x>>
      OBVIOUS
    <3>. QED
      BY <3>1, <3>2, <3>3, Zenon
  <2>3. ScopedRows'
    BY <2>2 DEF ScopedRows
  <2>4. StreamedRows'
    BY <1>3, <2>1 DEF StreamedRows
  <2>. QED
    BY <1>2, <1>4, <2>3, <2>4
<1>5. CASE s.calls # <<>>
  <2>1. ~Streaming /\ s = m
    BY <1>1, <1>2, <1>5
  <2>2. PICK k : m.calls = <<k>> /\ k.id = n
    BY <1>5, <2>1
  <2> DEFINE a == <<"signature", <<m.content, <<k>>>>>>
             b == <<"tool_call", k.id>>
             c == <<"tool_call_signature", <<k.name, k.args>>>>
             d == <<"tool_name", k.name>>
  <2>3. FacetSet(s) = {a, b, c, d}
    <3>1. /\ DOMAIN Facets(m) = 1..4 /\ Facets(m)[1] = a /\ Facets(m)[2] = b
          /\ Facets(m)[3] = c /\ Facets(m)[4] = d
      BY <2>2, FacetsWithCall, Zenon
    <3> HIDE DEF a, b, c, d
    <3>2. FacetSet(m) = {Facets(m)[i] : i \in 1..4}
      BY <3>1 DEF FacetSet
    <3>. QED
      BY <2>1, <3>1, <3>2
  <2>4. ScopedRows'
    <3> SUFFICES ASSUME NEW row \in rows', row \notin rows
                 PROVE  /\ \A x : row.key.facet = <<"tool_call", x>> => row.reasoning = x
                        /\ \A x, j : row.key.facet = <<"signature", <<x, <<j>>>>>> =>
                                       row.reasoning = j.id
      BY DEF ScopedRows
    <3>1. row.key.facet \in {a, b, c, d} /\ row.reasoning = k.id
      BY <1>3, <2>2, <2>3
    <3>2. ASSUME NEW x, row.key.facet = <<"tool_call", x>> PROVE x = k.id
      <4>1. row.key.facet[1] = "tool_call"
        BY <3>2
      <4>2. row.key.facet = b
        BY <3>1, <4>1
      <4>. QED
        BY <3>2, <4>2
    <3>3. ASSUME NEW x, NEW j, row.key.facet = <<"signature", <<x, <<j>>>>>> PROVE j = k
      <4>1. row.key.facet[1] = "signature"
        BY <3>3
      <4>2. row.key.facet = a
        BY <3>1, <4>1
      <4>3. <<k>> = <<j>>
        BY <3>3, <4>2
      <4>. QED
        BY <4>3
    <3>. QED
      BY <3>1, <3>2, <3>3
  <2>5. \E row \in rows' : row.key = Key("scope", ns, view, <<"tool_call", n>>)
    <3>1. b \in FacetSet(s) /\ "scope" \in Kinds(view)
      BY <2>3 DEF Kinds
    <3>2. Key("scope", ns, view, b) \in Keys(Kinds(view), ns, view, s)
      BY <3>1 DEF Keys
    <3>3. Cached(Key("scope", ns, view, b))'
      BY <3>2, PutKeeps
    <3>. QED
      BY <2>2, <3>3 DEF Cached
  <2>. QED
    BY <2>1, <2>4, <2>5 DEF StreamedRows
<1>. QED
  BY <1>4, <1>5

LEMMA CallsStep == CallsInv /\ [Next]_vars => CallsInv'
<1> SUFFICES ASSUME CallsInv, [Next]_vars PROVE CallsInv'
  OBVIOUS
<1>1. /\ TypeOK /\ CallsOwned /\ ScopedRows /\ StreamedRows /\ CallsCached /\ OwnReplayed
      /\ TypeOK'
  BY TypeStep DEF CallsInv
<1>2. ASSUME UNCHANGED <<rows, made, prunes>>
      PROVE  ScopedRows' /\ StreamedRows' /\ CallsCached' /\ Owned' = Owned
  BY <1>1, <1>2 DEF ScopedRows, StreamedRows, CallsCached, Cached, CallKey, Owned
<1>3. ASSUME NEW c \in Conversations, NEW h \in Seq(Owned),
             history' = [history EXCEPT ![c] = h],
             UNCHANGED <<namespace, sent, rows, made, prunes>>
      PROVE  CallsInv'
  <2>1. history' \in [Conversations -> Seq(Owned)]
    BY <1>1, <1>3 DEF CallsOwned
  <2>2. OwnReplayed'
    BY <1>1, <1>3 DEF OwnReplayed, InPlace
  <2>. QED
    BY <1>1, <1>2, <1>3, <2>1, <2>2 DEF CallsInv, CallsOwned
<1>4. ASSUME NEW c \in Conversations, NEW m \in Message, m.calls = <<>>, ClientSays(c, m)
      PROVE  CallsInv'
  <2>1. m \in Owned /\ history[c] \in Seq(Owned)
    BY <1>1, <1>4 DEF Owned, CallsOwned
  <2>2. Append(history[c], m) \in Seq(Owned)
    BY <2>1, AppendTail
  <2>. QED
    BY <1>3, <1>4, <2>2 DEF ClientSays
<1>5. ASSUME NEW c \in Conversations, User(c) PROVE CallsInv'
  <2>1. PICK text \in UserSays : ClientSays(c, NewMessage("user", text, <<>>, 0))
    BY <1>5 DEF User
  <2>2. NewMessage("user", text, <<>>, 0) \in Message
    BY DEF NewMessage, Message, Role, Text
  <2>. QED
    BY <1>4, <2>1, <2>2 DEF NewMessage
<1>6. ASSUME NEW c \in Conversations, ToolResult(c) PROVE CallsInv'
  <2>1. NewMessage("tool", "result", <<>>, 0) \in Message
    BY DEF NewMessage, Message, Role, Text
  <2>. QED
    BY <1>4, <1>6, <2>1 DEF ToolResult, NewMessage
<1>7. ASSUME NEW c \in Conversations, Rewind(c) PROVE CallsInv'
  <2>1. history[c] \in Seq(Owned) /\ Len(history[c]) \in Nat
    BY <1>1 DEF CallsOwned
  <2>2. PICK n \in 1..(Len(history[c]) - 1) :
          history' = [history EXCEPT ![c] = SubSeq(history[c], 1, n)]
    BY <1>7 DEF Rewind
  <2>3. n \in 0..Len(history[c])
    BY <2>1
  <2>4. SubSeq(history[c], 1, n) \in Seq(Owned)
    BY <2>1, <2>3, PrefixType
  <2>. QED
    BY <1>3, <1>7, <2>2, <2>4 DEF Rewind
<1>8. ASSUME NEW c \in Conversations, Forget(c) PROVE CallsInv'
  <2>1. history[c] \in Seq(Owned) /\ Len(history[c]) \in Nat
    BY <1>1 DEF CallsOwned
  <2>2. PICK n \in 2..Len(history[c]) :
          history' = [history EXCEPT ![c] = SubSeq(history[c], n, Len(history[c]))]
    BY <1>8 DEF Forget
  <2>3. n \in 1..Len(history[c])
    BY <2>1
  <2>4. SubSeq(history[c], n, Len(history[c])) \in Seq(Owned)
    BY <2>1, <2>3, SuffixType
  <2>. QED
    BY <1>3, <1>8, <2>2, <2>4 DEF Forget
<1>9. ASSUME NEW c \in Conversations, Ask(c) PROVE CallsInv'
  <2>1. sent[c] = <<>> /\ Len(sent[c]) = 0
    BY <1>1, <1>9 DEF Ask, TypeOK
  <2>2. /\ UNCHANGED <<history, sent, rows, made, prunes>>
        /\ \A d \in Conversations \ {c} : namespace'[d] = namespace[d]
    BY <1>1, <1>9 DEF Ask, TypeOK
  <2>3. OwnReplayed'
    BY <1>1, <2>1, <2>2 DEF OwnReplayed, InPlace
  <2>. QED
    BY <1>1, <1>2, <2>2, <2>3 DEF CallsInv, CallsOwned
<1>10. ASSUME NEW c \in Conversations, Unprepared(c), Emit(c, 0), UNCHANGED rows PROVE CallsInv'
  <2>1. CallsOwned' /\ OwnReplayed' /\ UNCHANGED <<made, prunes>>
    BY <1>1, <1>10, EmitOwn DEF Emit
  <2>. QED
    BY <1>1, <1>2, <1>10, <2>1 DEF CallsInv
<1>11. ASSUME NEW c \in Conversations, Patch(c) PROVE CallsInv'
  <2> DEFINE view == View(sent[c])
  <2>1. PICK kind \in Kinds(view), i \in DOMAIN Facets(Current(c)), row \in rows :
          /\ row.key = KeyAt(c, kind, i)
          /\ \A j \in 1..(i - 1) : ~Cached(KeyAt(c, kind, j))
          /\ kind = "turn" => \A j \in DOMAIN Facets(Current(c)) : ~Cached(KeyAt(c, "scope", j))
          /\ Unprepared(c) /\ Repairs(c) /\ Emit(c, row.reasoning)
          /\ Put(Keys(Kinds(view) \ {"scope"}, namespace[c], view, Current(c)), row.reasoning)
    BY <1>11 DEF Patch
  <2>2. row.reasoning \in Nat /\ UNCHANGED <<made, prunes>>
    BY <1>1, <2>1 DEF TypeOK, Emit
  <2>3. Current(c) \in Owned
    BY <1>1, <2>1, CurrentOwned
  <2>4. /\ Streaming => Current(c).calls = <<>>
        /\ InPlace(Current(c), namespace[c], sent[c]) => row.reasoning = Current(c).own
    <3>1. CASE Current(c).calls = <<>>
      BY <3>1 DEF InPlace
    <3>2. CASE Current(c).calls # <<>>
      <4>1. PICK k \in Call : Current(c).calls = <<k>>
        BY <2>3, <3>2 DEF Owned
      <4>. QED
        BY <1>1, <2>1, <4>1, PatchCalls
    <3>. QED
      BY <3>1, <3>2
  <2>5. CallsOwned' /\ OwnReplayed'
    BY <1>1, <2>1, <2>2, <2>4, EmitOwn
  <2>6. ASSUME NEW new \in rows', new \notin rows
        PROVE  new.key.kind # "scope" /\ new.key.facet \in FacetSet(Current(c))
    BY <2>1, <2>6, NewRow
  <2>7. ScopedRows'
    BY <1>1, <2>6 DEF ScopedRows
  <2>8. StreamedRows'
    <3> SUFFICES ASSUME Streaming, NEW new \in rows', new \notin rows
                 PROVE  \E x : new.key.facet = <<"signature", <<x, <<>>>>>>
      BY <1>1 DEF StreamedRows
    <3>1. FacetSet(Current(c)) = {<<"signature", <<Current(c).content, <<>>>>>>}
      BY <2>4, FacetsWithout
    <3>. QED
      BY <2>6, <3>1
  <2>9. CallsCached'
    <3>1. \A key : Cached(key) => Cached(key)'
      BY <2>1, PutKeeps
    <3>. QED
      BY <1>1, <2>2, <3>1 DEF CallsCached, CallKey
  <2>. QED
    BY <1>1, <2>5, <2>7, <2>8, <2>9 DEF CallsInv
<1>12. ASSUME NEW c \in Conversations, Return(c), UNCHANGED <<history, rows, made, prunes>>
       PROVE  CallsInv'
  <2>1. sent' \in [Conversations -> Seq(Owned')] /\ OwnReplayed'
    BY <1>1, <1>12, ReturnOwn
  <2>. QED
    BY <1>1, <1>2, <1>12, <2>1 DEF CallsInv, CallsOwned
<1>13. ASSUME NEW c \in Conversations, Dispatch(c) PROVE CallsInv'
  <2>1. CASE UNCHANGED <<namespace, sent>>
    <3>1. UNCHANGED <<history, namespace, sent, rows, made, prunes>>
      BY <1>13, <2>1 DEF Dispatch
    <3>2. OwnReplayed'
      BY <1>1, <3>1 DEF OwnReplayed, InPlace
    <3>. QED
      BY <1>1, <1>2, <3>1, <3>2 DEF CallsInv, CallsOwned
  <2>. QED
    BY <1>12, <1>13, <2>1 DEF Dispatch
<1>14. ASSUME NEW c \in Conversations, Answer(c) PROVE CallsInv'
  <2> DEFINE n == Len(made) + 1
             view == View(sent[c])
             Own == IF namespace[c] \in Thinking THEN n ELSE 0
             Calls(tools) ==
               [i \in DOMAIN tools |-> [id |-> n, name |-> tools[i].name, args |-> tools[i].args]]
             Kept(content, tools) ==
               [namespace |-> namespace[c], prior |-> view, content |-> content,
                calls |-> Calls(tools)]
             Msg(content, tools) == NewMessage("assistant", content, Calls(tools), Own)
  <2>1. PICK content \in Contents, tools \in {<<>>} \cup {<<t>> : t \in Tools} :
          /\ Record(c, Msg(content, tools))
          /\ made' = Append(made, Kept(content, tools))
          /\ history' = [history EXCEPT ![c] = Append(history[c], Msg(content, tools))]
    BY <1>14 DEF Answer, NewMessage
  <2> DEFINE m == Msg(content, tools)
             entry == Kept(content, tools)
  <2>2. pc[c] = "upstream" /\ Return(c) /\ prunes' = prunes
    BY <1>14 DEF Answer
  <2>3. made \in Seq(Made) /\ Len(made) \in Nat /\ n \in Nat /\ Own \in Nat
    BY <1>1 DEF TypeOK
  <2>4. m \in Message /\ entry \in Made /\ Calls(tools) \in Seq(Call)
    BY <1>1, <2>2, <2>3, AnswerType
  <2>5. /\ m.calls = entry.calls /\ m.own = Own
        /\ entry.namespace = namespace[c] /\ entry.prior = view
    BY DEF NewMessage
  <2>6. m.calls = <<>> \/ \E k \in Call : m.calls = <<k>> /\ k.id = n
    <3>1. CASE tools = <<>>
      BY <3>1 DEF NewMessage
    <3>2. CASE tools # <<>>
      <4>1. PICK t \in Tools : tools = <<t>>
        BY <3>2
      <4>2. Calls(tools) = <<[id |-> n, name |-> t.name, args |-> t.args]>>
        BY <4>1
      <4>3. [id |-> n, name |-> t.name, args |-> t.args] \in Call
        BY <2>3 DEF Call
      <4>. QED
        BY <4>2, <4>3 DEF NewMessage
    <3>. QED
      BY <3>1, <3>2
  <2> HIDE DEF m, entry, n, view, Own, Calls, Kept, Msg
  <2>7. /\ \A q \in DOMAIN made : q \in DOMAIN made' /\ made'[q] = made[q]
        /\ n \in DOMAIN made' /\ made'[n] = entry
        /\ \A q \in DOMAIN made' : q \in DOMAIN made \/ q = n
    BY <2>1, <2>3, <2>4, AppendTail DEF n, entry
  <2>8. m \in Owned'
    <3>1. ASSUME NEW k \in Call, m.calls = <<k>>, k.id = n
          PROVE  m \in Owned'
      <4>1. m.own \in {0, k.id} /\ k.id \in DOMAIN made' /\ made'[k.id].calls # <<>>
        BY <2>5, <2>7, <3>1, OneIsSome DEF Own
      <4>. QED
        BY <2>4, <3>1, <4>1 DEF Owned
    <3>. QED
      BY <2>4, <2>6, <3>1 DEF Owned
  <2>9. history' \in [Conversations -> Seq(Owned')]
    <3>1. \A d \in Conversations : history[d] \in Seq(Owned')
      BY <1>1, <2>7, OwnedGrows DEF CallsOwned
    <3>2. Append(history[c], m) \in Seq(Owned')
      BY <2>8, <3>1, AppendTail
    <3>. QED
      BY <1>1, <2>1, <3>1, <3>2 DEF CallsOwned, m
  <2>10. sent' \in [Conversations -> Seq(Owned')] /\ OwnReplayed'
    BY <1>1, <2>2, <2>7, ReturnOwn
  <2>11. ASSUME Own = 0 PROVE ScopedRows' /\ StreamedRows' /\ CallsCached'
    <3>1. UNCHANGED rows
      BY <2>1, <2>5, <2>11 DEF Record, m
    <3>2. namespace[c] \notin Thinking
      BY <2>3, <2>11 DEF Own, n
    <3>3. CallsCached'
      BY <1>1, <2>2, <2>5, <2>7, <3>1, <3>2 DEF CallsCached, Cached, CallKey
    <3>. QED
      BY <1>1, <3>1, <3>3 DEF ScopedRows, StreamedRows
  <2>12. ASSUME Own = n, Own # 0 PROVE ScopedRows' /\ StreamedRows' /\ CallsCached'
    <3>1. Put(Keys(Kinds(view), namespace[c], view, Stored(m)), n)
      BY <2>1, <2>5, <2>12 DEF Record, m, view
    <3>2. /\ ScopedRows' /\ StreamedRows'
          /\ ~Streaming /\ m.calls # <<>> =>
               \E row \in rows' : row.key = Key("scope", namespace[c], view, <<"tool_call", n>>)
      BY <1>1, <2>4, <2>6, <3>1, AnswerRows
    <3>3. \A key : Cached(key) => Cached(key)'
      BY <3>1, PutKeeps
    <3>4. ASSUME prunes' = 0, ~Streaming, NEW q \in DOMAIN made',
                 made'[q].calls # <<>>, made'[q].namespace \in Thinking
          PROVE  Cached(CallKey(q))'
      <4>1. CASE q \in DOMAIN made
        <5>1. Cached(CallKey(q)) /\ CallKey(q)' = CallKey(q)
          BY <1>1, <2>2, <2>7, <3>4, <4>1 DEF CallsCached, CallKey
        <5>2. Cached(CallKey(q)) => \E row \in rows' : row.key = CallKey(q)
          BY <3>3 DEF Cached
        <5>. QED
          BY <5>1, <5>2 DEF Cached
      <4>2. CASE q = n
        <5>1. CallKey(q)' = Key("scope", namespace[c], view, <<"tool_call", n>>)
          BY <2>5, <2>7, <4>2 DEF CallKey, Key, Context
        <5>2. \E row \in rows' : row.key = Key("scope", namespace[c], view, <<"tool_call", n>>)
          BY <2>5, <2>7, <3>2, <3>4, <4>2
        <5>. QED
          BY <5>1, <5>2 DEF Cached
      <4>. QED
        BY <2>7, <4>1, <4>2
    <3>5. CallsCached'
      BY <3>4 DEF CallsCached
    <3>. QED
      BY <3>2, <3>5
  <2>13. Own = 0 \/ (Own = n /\ Own # 0)
    BY <2>3 DEF Own, n
  <2>. QED
    BY <1>1, <2>9, <2>10, <2>11, <2>12, <2>13 DEF CallsInv, CallsOwned
<1>15. ASSUME NEW c \in Conversations, Fail(c) PROVE CallsInv'
  BY <1>12, <1>15 DEF Fail
<1>16. CASE Prune
  <2>1. UNCHANGED <<history, pc, namespace, sent, made>> /\ rows' \subseteq rows
    BY <1>16 DEF Prune
  <2>2. prunes' # 0
    BY <1>1, <1>16 DEF Prune, TypeOK
  <2>3. CallsOwned'
    BY <1>1, <2>1 DEF CallsOwned, Owned
  <2>. QED
    BY <1>1, <2>1, <2>2, <2>3
       DEF CallsInv, ScopedRows, StreamedRows, CallsCached, OwnReplayed, InPlace
<1>17. CASE UNCHANGED vars
  <2>1. UNCHANGED <<history, namespace, sent, rows, made, prunes>>
    BY <1>17 DEF vars
  <2>2. OwnReplayed'
    BY <1>1, <2>1 DEF OwnReplayed, InPlace
  <2>. QED
    BY <1>1, <1>2, <2>1, <2>2 DEF CallsInv, CallsOwned
<1>18. ASSUME NEW c \in Conversations, PassOn(c) \/ Miss(c) PROVE CallsInv'
  BY <1>10, <1>18 DEF PassOn, Miss
<1>. QED
  BY <1>5, <1>6, <1>7, <1>8, <1>9, <1>11, <1>13, <1>14, <1>15, <1>16, <1>17, <1>18
     DEF Next, Client, Request

(* While nothing is pruned, the user stays in the namespace and the client   *)
(* has not shortened the history before it, no tool call is given another    *)
(* message's reasoning, whoever else shares its tool, its text or its place. *)
THEOREM CallsGetTheirOwn == Spec => []CallsInPlaceGetTheirOwn
<1>1. CallsInv => CallsInPlaceGetTheirOwn
  <2> SUFFICES ASSUME CallsInv, NEW c \in Conversations, NEW i \in Repaired(c),
                      InPlace(sent[c][i], namespace[c], SubSeq(sent[c], 1, i - 1))
               PROVE  sent[c][i].reasoning \in {0, sent[c][i].own}
    BY DEF CallsInPlaceGetTheirOwn, InPlace
  <2>1. sent[c] \in Seq(Message)
    BY DEF CallsInv, TypeOK
  <2>2. i \in 1..Len(sent[c])
    BY <2>1 DEF Repaired
  <2>. QED
    BY <2>2 DEF CallsInv, OwnReplayed
<1>. QED
  BY <1>1, CallsInit, CallsStep, PTL DEF Spec

-----------------------------------------------------------------------------
(* Where a turn begins *)

LEMMA Least ==
  ASSUME NEW T \in SUBSET Nat, T # {}
  PROVE  \E x \in T : \A y \in T : x <= y
<1>1. PICK x \in T : \A y \in T : ~(<<y, x>> \in OpToRel(<, Nat))
  BY NatLessThanWellFounded, WFMin
<1>2. \A y \in T : ~(y < x)
  BY <1>1 DEF OpToRel
<1>. QED
  BY <1>2

(* The turn starts somewhere, if only after the last message. *)
LEMMA TurnStarts ==
  ASSUME NEW view, Len(view) \in Nat
  PROVE  /\ TurnStart(view) \in 1..(Len(view) + 1)
         /\ StartsTurn(view, TurnStart(view))
         /\ \A j \in 1..(TurnStart(view) - 1) : ~StartsTurn(view, j)
<1> DEFINE T == {i \in 1..(Len(view) + 1) : StartsTurn(view, i)}
<1>1. Len(view) + 1 \in T
  BY DEF StartsTurn
<1>2. PICK x \in T : \A y \in T : x <= y
  <2>1. T \in SUBSET Nat /\ T # {}
    BY <1>1
  <2> HIDE DEF T
  <2>. QED
    BY <2>1, Least
<1>3. /\ x \in 1..(Len(view) + 1) /\ StartsTurn(view, x)
      /\ \A j \in 1..(x - 1) : ~StartsTurn(view, j)
  BY <1>2
<1>. QED
  BY <1>3 DEF TurnStart

(* Nor is there a second place with that property. *)
LEMMA TurnStartsOnce ==
  ASSUME NEW view, Len(view) \in Nat, NEW x \in 1..(Len(view) + 1), StartsTurn(view, x),
         \A j \in 1..(x - 1) : ~StartsTurn(view, j)
  PROVE  TurnStart(view) = x
<1> DEFINE s == TurnStart(view)
<1>1. s \in 1..(Len(view) + 1) /\ StartsTurn(view, s) /\ \A j \in 1..(s - 1) : ~StartsTurn(view, j)
  BY TurnStarts
<1> HIDE DEF s
<1>2. ~(s < x) /\ ~(x < s)
  BY <1>1
<1>. QED
  BY <1>1, <1>2 DEF s

(* The turn does not begin before a user message that follows another's. *)
LEMMA TurnUnforgotten ==
  ASSUME NEW S, NEW v \in Seq(S), NEW n \in 2..Len(v),
         v[n].role = "user", v[n - 1].role # "user",
         NEW w \in Seq(S), Len(w) = Len(v) - n + 1,
         \A j \in 1..Len(w) : w[j] = v[j + n - 1]
  PROVE  TurnOf(w) = TurnOf(v)
<1> DEFINE s == TurnStart(v)
           t == s - n + 1
<1>1. s \in 1..(Len(v) + 1) /\ StartsTurn(v, s) /\ \A j \in 1..(s - 1) : ~StartsTurn(v, j)
  BY TurnStarts
<1>2. Len(v) \in Nat /\ Len(w) \in Nat /\ n \in Nat
  OBVIOUS
<1> HIDE DEF s
<1>3. s >= n /\ s \in Nat
  <2> SUFFICES ASSUME s < n PROVE FALSE
    BY <1>1, <1>2
  <2>1. n \in s..Len(v) /\ n - 1 \in s..n
    BY <1>1, <1>2
  <2>. QED
    BY <1>1, <2>1 DEF StartsTurn
<1>4. \A i \in 1..(Len(w) + 1) : StartsTurn(w, i) <=> StartsTurn(v, i + n - 1)
  <2> SUFFICES ASSUME NEW i \in 1..(Len(w) + 1)
               PROVE  StartsTurn(w, i) <=> StartsTurn(v, i + n - 1)
    OBVIOUS
  <2>1. ASSUME StartsTurn(w, i), NEW j \in (i + n - 1)..Len(v), v[j].role = "user",
               NEW l \in (i + n - 1)..j
        PROVE  v[l].role = "user"
    <3>1. /\ j - n + 1 \in i..Len(w) /\ l - n + 1 \in i..(j - n + 1)
          /\ j - n + 1 \in 1..Len(w) /\ l - n + 1 \in 1..Len(w)
          /\ (j - n + 1) + n - 1 = j /\ (l - n + 1) + n - 1 = l
      BY <1>2, <2>1
    <3>2. w[j - n + 1] = v[j] /\ w[l - n + 1] = v[l]
      BY <3>1
    <3>. QED
      BY <2>1, <3>1, <3>2 DEF StartsTurn
  <2>2. ASSUME StartsTurn(v, i + n - 1), NEW j \in i..Len(w), w[j].role = "user",
               NEW l \in i..j
        PROVE  w[l].role = "user"
    <3>0. /\ i \in Nat /\ j \in Nat /\ l \in Nat
          /\ 1 <= i /\ i <= l /\ l <= j /\ j <= Len(w) /\ j + n - 1 <= Len(v)
      BY <1>2, <2>2
    <3>1. /\ j + n - 1 \in (i + n - 1)..Len(v) /\ l + n - 1 \in (i + n - 1)..(j + n - 1)
          /\ j \in 1..Len(w) /\ l \in 1..Len(w)
      BY <1>2, <3>0
    <3>2. w[j] = v[j + n - 1] /\ w[l] = v[l + n - 1]
      BY <3>1
    <3>. QED
      BY <2>2, <3>1, <3>2 DEF StartsTurn
  <2>. QED
    BY <2>1, <2>2 DEF StartsTurn
<1>5. t \in 1..(Len(w) + 1) /\ t + n - 1 = s /\ t \in Nat
  BY <1>1, <1>2, <1>3
<1>6. StartsTurn(w, t) /\ \A j \in 1..(t - 1) : ~StartsTurn(w, j)
  <2>1. StartsTurn(w, t)
    BY <1>1, <1>4, <1>5
  <2>2. ASSUME NEW j \in 1..(t - 1) PROVE ~StartsTurn(w, j)
    <3>1. j \in 1..(Len(w) + 1) /\ j + n - 1 \in 1..(s - 1)
      BY <1>1, <1>2, <1>5, <2>2
    <3>. QED
      BY <1>1, <1>4, <3>1
  <2>. QED
    BY <2>1, <2>2
<1>7. TurnStart(w) = t
  BY <1>2, <1>5, <1>6, TurnStartsOnce
<1>8. SubSeq(w, t, Len(w)) = SubSeq(v, s, Len(v))
  <2>1. SubSeq(w, t, Len(w)) = [i \in 1..(Len(w) - t + 1) |-> w[i + t - 1]]
    BY <1>1, <1>2, <1>5
  <2>2. SubSeq(v, s, Len(v)) = [i \in 1..(Len(v) - s + 1) |-> v[i + s - 1]]
    BY <1>1, <1>2
  <2>3. Len(w) - t + 1 = Len(v) - s + 1
    BY <1>1, <1>2
  <2>4. \A i \in 1..(Len(v) - s + 1) : w[i + t - 1] = v[i + s - 1]
    <3> SUFFICES ASSUME NEW i \in 1..(Len(v) - s + 1) PROVE w[i + t - 1] = v[i + s - 1]
      OBVIOUS
    <3>1. i + t - 1 \in 1..Len(w) /\ i + t - 1 + n - 1 = i + s - 1
      BY <1>1, <1>2, <1>5
    <3>. QED
      BY <3>1
  <2> HIDE DEF t
  <2>. QED
    BY <2>1, <2>2, <2>3, <2>4
<1>. QED
  BY <1>7, <1>8 DEF TurnOf, s

-----------------------------------------------------------------------------
(* What was recorded is replayed *)

Entry == [role : Role, content : Text, calls : Seq(Call)]

EntryOf(m) == [role |-> m.role, content |-> m.content, calls |-> m.calls]

(* The first n messages of a history, as the repair hashes them. *)
Seen(h, n) == [i \in 1..n |-> EntryOf(Normalized(h[i]))]

(* An answer stays behind the turn it was generated in. *)
Remembers(h, answers) ==
  \A i \in 1..Len(h) : h[i].own # 0 =>
    /\ h[i].role = "assistant" /\ i > 1
    /\ h[i].own \in DOMAIN answers
    /\ h[i].content = answers[h[i].own].content /\ h[i].calls = answers[h[i].own].calls
    /\ TurnOf(Seen(h, i - 1)) = TurnOf(answers[h[i].own].prior)

HistoryRemembers == \A c \in Conversations : Remembers(history[c], made)

(* A request sends the history, message by message and normalized. *)
Mirrors(c) ==
  /\ Len(sent[c]) <= Len(history[c])
  /\ \A i \in 1..Len(sent[c]) : /\ EntryOf(sent[c][i]) = EntryOf(Normalized(history[c][i]))
                                /\ sent[c][i].own = history[c][i].own
  /\ pc[c] = "upstream" => Len(sent[c]) = Len(history[c])
  /\ pc[c] # "client" => Len(history[c]) > 0

SentMirrors == \A c \in Conversations : Mirrors(c)

(* The facet under which an answer is found however its content is normalized, *)
(* if it has a call, or if its content stays as it is.                         *)
MainFacet(n) ==
  IF made[n].calls = <<>> THEN <<"signature", <<made[n].content, <<>>>>>> ELSE <<"tool_call", n>>

MainKey(n) == Key("turn", made[n].namespace, made[n].prior, MainFacet(n))

AnswersCached ==
  prunes = 0 /\ ~Streaming =>
    \A n \in DOMAIN made : made[n].namespace \in Thinking => Cached(MainKey(n))

Due(m, ns, prior) ==
  /\ prunes = 0 /\ ~Streaming
  /\ m.role = "assistant" /\ m.own # 0 /\ NeedsReasoning(m, prior)
  /\ ns \in Thinking /\ ns = made[m.own].namespace
  /\ m.calls # <<>> \/ Strip(made[m.own].content) = made[m.own].content

DueReplayed ==
  \A c \in Conversations : \A i \in 1..Len(sent[c]) :
    Due(sent[c][i], namespace[c], SubSeq(sent[c], 1, i - 1)) => sent[c][i].reasoning # 0

RecordInv == CallsInv /\ HistoryRemembers /\ SentMirrors /\ AnswersCached /\ DueReplayed

LEMMA SeenType ==
  ASSUME NEW h \in Seq(Message), NEW n \in 0..Len(h)
  PROVE  /\ Seen(h, n) \in Seq(Entry)
         /\ Len(Seen(h, n)) = n
         /\ \A i \in 1..n : Seen(h, n)[i] = EntryOf(Normalized(h[i]))
<1>1. n \in Nat /\ \A i \in 1..n : h[i] \in Message
  OBVIOUS
<1>2. \A i \in 1..n : EntryOf(Normalized(h[i])) \in Entry
  <2> SUFFICES ASSUME NEW i \in 1..n PROVE EntryOf(Normalized(h[i])) \in Entry
    OBVIOUS
  <2>1. Normalized(h[i]) \in Message
    BY <1>1, NormalizedType
  <2>. QED
    BY <2>1 DEF EntryOf, Entry, Message
<1>. QED
  BY <1>1, <1>2 DEF Seen

LEMMA SeenSame ==
  ASSUME NEW h, NEW g, NEW n \in Nat, \A i \in 1..n : h[i] = g[i]
  PROVE  Seen(h, n) = Seen(g, n)
  BY DEF Seen

(* A message that was generated, and is remembered, may be added, or one that *)
(* was not generated.                                                         *)
LEMMA RemembersMore ==
  ASSUME NEW a, NEW h \in Seq(Message), Remembers(h, a), NEW m \in Message,
         m.own # 0 =>
           /\ m.role = "assistant" /\ Len(h) > 0 /\ m.own \in DOMAIN a
           /\ m.content = a[m.own].content /\ m.calls = a[m.own].calls
           /\ TurnOf(Seen(h, Len(h))) = TurnOf(a[m.own].prior)
  PROVE  Remembers(Append(h, m), a)
<1> DEFINE g == Append(h, m)
<1>1. /\ Len(g) = Len(h) + 1 /\ Len(h) \in Nat
      /\ \A i \in 1..Len(h) : g[i] = h[i]
      /\ g[Len(h) + 1] = m
  BY AppendTail
<1> HIDE DEF g
<1>2. \A n \in 0..Len(h) : Seen(g, n) = Seen(h, n)
  <2> SUFFICES ASSUME NEW n \in 0..Len(h) PROVE Seen(g, n) = Seen(h, n)
    OBVIOUS
  <2>1. n \in Nat /\ \A i \in 1..n : g[i] = h[i]
    BY <1>1
  <2>. QED
    BY <2>1, SeenSame
<1> SUFFICES ASSUME NEW i \in 1..Len(g), g[i].own # 0
             PROVE  /\ g[i].role = "assistant" /\ i > 1
                    /\ g[i].own \in DOMAIN a
                    /\ g[i].content = a[g[i].own].content /\ g[i].calls = a[g[i].own].calls
                    /\ TurnOf(Seen(g, i - 1)) = TurnOf(a[g[i].own].prior)
  BY DEF Remembers, g
<1>3. CASE i \in 1..Len(h)
  <2>1. g[i] = h[i] /\ Seen(g, i - 1) = Seen(h, i - 1)
    BY <1>1, <1>2, <1>3
  <2>. QED
    BY <1>3, <2>1 DEF Remembers
<1>4. CASE i = Len(h) + 1
  <2>1. g[i] = m /\ i - 1 = Len(h) /\ Seen(g, i - 1) = Seen(h, Len(h))
    BY <1>1, <1>2, <1>4
  <2>. QED
    BY <1>1, <1>4, <2>1
<1>. QED
  BY <1>1, <1>3, <1>4

LEMMA RemembersPrefix ==
  ASSUME NEW a, NEW h \in Seq(Message), Remembers(h, a), NEW n \in 0..Len(h)
  PROVE  Remembers(SubSeq(h, 1, n), a)
<1> DEFINE g == SubSeq(h, 1, n)
<1>1. Len(g) = n /\ n \in Nat /\ \A i \in 1..n : g[i] = h[i]
  OBVIOUS
<1> HIDE DEF g
<1> SUFFICES ASSUME NEW i \in 1..n, g[i].own # 0
             PROVE  /\ g[i].role = "assistant" /\ i > 1
                    /\ g[i].own \in DOMAIN a
                    /\ g[i].content = a[g[i].own].content /\ g[i].calls = a[g[i].own].calls
                    /\ TurnOf(Seen(g, i - 1)) = TurnOf(a[g[i].own].prior)
  BY <1>1 DEF Remembers, g
<1>2. g[i] = h[i] /\ i \in 1..Len(h)
  BY <1>1
<1>3. Seen(g, i - 1) = Seen(h, i - 1)
  <2>1. i - 1 \in Nat /\ \A j \in 1..(i - 1) : g[j] = h[j]
    BY <1>1
  <2>. QED
    BY <2>1, SeenSame
<1>. QED
  BY <1>2, <1>3 DEF Remembers

LEMMA RemembersTurn ==
  ASSUME NEW a, NEW h \in Seq(Message), Remembers(h, a), NEW n \in 2..Len(h),
         h[n].role = "user", h[n - 1].role # "user"
  PROVE  Remembers(SubSeq(h, n, Len(h)), a)
<1> DEFINE g == SubSeq(h, n, Len(h))
<1>1. /\ g \in Seq(Message) /\ Len(g) = Len(h) - n + 1 /\ n \in Nat /\ Len(h) \in Nat
      /\ Len(g) \in Nat
      /\ \A i \in 1..Len(g) : g[i] = h[i + n - 1]
  BY SuffixType
<1> HIDE DEF g
<1> SUFFICES ASSUME NEW i \in 1..Len(g), g[i].own # 0
             PROVE  /\ g[i].role = "assistant" /\ i > 1
                    /\ g[i].own \in DOMAIN a
                    /\ g[i].content = a[g[i].own].content /\ g[i].calls = a[g[i].own].calls
                    /\ TurnOf(Seen(g, i - 1)) = TurnOf(a[g[i].own].prior)
  BY DEF Remembers, g
<1>2. g[i] = h[i + n - 1] /\ i + n - 1 \in 1..Len(h)
  BY <1>1
<1>3. /\ g[i].role = "assistant" /\ g[i].own \in DOMAIN a
      /\ g[i].content = a[g[i].own].content /\ g[i].calls = a[g[i].own].calls
      /\ TurnOf(Seen(h, i + n - 1 - 1)) = TurnOf(a[g[i].own].prior)
  <2> DEFINE p == i + n - 1
  <2>1. g[i] = h[p] /\ p \in 1..Len(h)
    BY <1>2
  <2> HIDE DEF p
  <2>2. /\ g[i].role = "assistant" /\ g[i].own \in DOMAIN a
        /\ g[i].content = a[g[i].own].content /\ g[i].calls = a[g[i].own].calls
        /\ TurnOf(Seen(h, p - 1)) = TurnOf(a[g[i].own].prior)
    BY <2>1 DEF Remembers
  <2>. QED
    BY <2>2 DEF p
<1>4. i > 1
  <2> SUFFICES ASSUME i = 1 PROVE FALSE
    BY <1>1
  <2>1. g[i] = h[n]
    BY <1>1, <1>2
  <2>. QED
    BY <1>3, <2>1
<1> DEFINE l == i + n - 1 - 1
           v == Seen(h, l)
           w == Seen(g, i - 1)
<1>5. l \in 0..Len(h) /\ i - 1 \in 0..Len(g) /\ n \in 2..l /\ i - 1 = l - n + 1 /\ l \in Nat
  BY <1>1, <1>4
<1> HIDE DEF l
<1>6. v \in Seq(Entry) /\ Len(v) = l /\ \A j \in 1..l : v[j] = EntryOf(Normalized(h[j]))
  BY <1>5, SeenType
<1>7. w \in Seq(Entry) /\ Len(w) = i - 1 /\ \A j \in 1..(i - 1) : w[j] = EntryOf(Normalized(g[j]))
  BY <1>1, <1>5, SeenType
<1> HIDE DEF v, w
<1>8. \A j \in 1..Len(w) : w[j] = v[j + n - 1]
  <2> SUFFICES ASSUME NEW j \in 1..Len(w) PROVE w[j] = v[j + n - 1]
    OBVIOUS
  <2>1. j \in 1..(i - 1) /\ j \in 1..Len(g) /\ j + n - 1 \in 1..l
    BY <1>1, <1>5, <1>7
  <2>. QED
    BY <1>1, <1>6, <1>7, <2>1
<1>9. v[n].role = "user" /\ v[n - 1].role # "user"
  <2>1. n \in 1..l /\ n - 1 \in 1..l /\ n \in 1..Len(h) /\ n - 1 \in 1..Len(h)
    BY <1>1, <1>5
  <2>2. Normalized(h[n]).role = h[n].role /\ Normalized(h[n - 1]).role = h[n - 1].role
    <3>1. h[n] \in Message /\ h[n - 1] \in Message
      BY <2>1, ElementOfSeq
    <3>. QED
      BY <3>1 DEF Normalized, Message
  <2>. QED
    BY <1>6, <2>1, <2>2 DEF EntryOf
<1>10. TurnOf(w) = TurnOf(v)
  <2>1. Len(w) = Len(v) - n + 1 /\ n \in 2..Len(v)
    BY <1>5, <1>6, <1>7
  <2>. QED
    BY <1>6, <1>7, <1>8, <1>9, <2>1, TurnUnforgotten
<1>. QED
  BY <1>3, <1>4, <1>10 DEF v, w, l

LEMMA MirrorView ==
  ASSUME TypeOK, NEW c \in Conversations, Mirrors(c)
  PROVE  View(sent[c]) = Seen(history[c], Len(sent[c]))
<1>1. sent[c] \in Seq(Message) /\ DOMAIN sent[c] = 1..Len(sent[c])
  BY DEF TypeOK
<1>. QED
  BY <1>1 DEF Mirrors, View, Seen, EntryOf

(* Normalization keeps whose a message is and what it calls. *)
LEMMA CurrentKept ==
  ASSUME TypeOK, NEW c \in Conversations, Unprepared(c)
  PROVE  LET h == history[c][Len(sent[c]) + 1] IN
         /\ Len(sent[c]) + 1 \in 1..Len(history[c]) /\ h \in Message
         /\ Current(c) = Normalized(h) /\ Current(c) \in Message
         /\ Current(c).role = h.role /\ Current(c).calls = h.calls /\ Current(c).own = h.own
         /\ Strip(h.content) = h.content => Current(c).content = h.content
<1> DEFINE h == history[c][Len(sent[c]) + 1]
<1>1. Len(sent[c]) + 1 \in 1..Len(history[c]) /\ history[c] \in Seq(Message)
  BY DEF Unprepared, TypeOK
<1>2. h \in Message
  BY <1>1, ElementOfSeq
<1>3. Current(c) = Normalized(h)
  BY DEF Current
<1> HIDE DEF h
<1>4. /\ Normalized(h).role = h.role /\ Normalized(h).calls = h.calls
      /\ Normalized(h).own = h.own
      /\ Strip(h.content) = h.content => Normalized(h).content = h.content
  BY <1>2 DEF Normalized, Strip, Message
<1>5. Normalized(h) \in Message
  BY <1>2, NormalizedType
<1>. QED
  BY <1>1, <1>2, <1>3, <1>4, <1>5 DEF h

(* A message whose answer is cached is found. *)
LEMMA DueIsFound ==
  ASSUME TypeOK, CallsOwned, HistoryRemembers, SentMirrors, AnswersCached,
         NEW c \in Conversations, Unprepared(c), Due(Current(c), namespace[c], sent[c])
  PROVE  \E key \in Keys(Kinds(View(sent[c])), namespace[c], View(sent[c]), Current(c)) :
           Cached(key)
<1> DEFINE m == Current(c)
           h == history[c]
           l == Len(sent[c])
           view == View(sent[c])
           r == m.own
<1>1. /\ l + 1 \in 1..Len(h) /\ l \in Nat
      /\ m.own = h[l + 1].own /\ m.calls = h[l + 1].calls
      /\ Strip(h[l + 1].content) = h[l + 1].content => m.content = h[l + 1].content
  BY CurrentKept DEF TypeOK
<1>2. /\ prunes = 0 /\ ~Streaming /\ r # 0 /\ namespace[c] \in Thinking
      /\ namespace[c] = made[r].namespace
      /\ m.calls # <<>> \/ Strip(made[r].content) = made[r].content
  BY DEF Due
<1>3. view = Seen(h, l)
  BY MirrorView DEF SentMirrors
<1>4. Remembers(h, made)
  BY DEF HistoryRemembers
<1>5. m \in Owned
  BY CurrentOwned
<1> HIDE DEF m, h, l, view, r
<1>6. /\ l > 0 /\ r \in DOMAIN made
      /\ h[l + 1].content = made[r].content /\ m.calls = made[r].calls
      /\ TurnOf(view) = TurnOf(made[r].prior)
  <2> DEFINE i == l + 1
  <2>1. i \in 1..Len(h) /\ h[i].own = r /\ r # 0 /\ l \in Nat /\ h[i].calls = m.calls
    BY <1>1, <1>2 DEF r
  <2>2. i - 1 = l
    BY <1>1
  <2> HIDE DEF i
  <2>3. /\ i > 1 /\ r \in DOMAIN made
        /\ h[i].content = made[r].content /\ m.calls = made[r].calls
        /\ TurnOf(Seen(h, i - 1)) = TurnOf(made[r].prior)
    BY <1>4, <2>1 DEF Remembers
  <2>. QED
    BY <1>3, <2>1, <2>2, <2>3 DEF i
<1>7. "turn" \in Kinds(view)
  <2>1. Len(view) # 0
    <3>1. view \in Seq(Entry) /\ Len(view) = l
      <4>1. h \in Seq(Message) /\ l \in 0..Len(h)
        BY <1>1 DEF TypeOK, h
      <4>. QED
        BY <1>3, <4>1, SeenType
    <3>. QED
      BY <1>6, <3>1
  <2>2. view # <<>>
    BY <2>1
  <2>. QED
    BY <2>2 DEF Kinds
<1>8. MainFacet(r) \in FacetSet(m)
  <2>1. CASE m.calls = <<>>
    <3>1. FacetSet(m) = {<<"signature", <<m.content, <<>>>>>>}
      BY <2>1, FacetsWithout
    <3>2. m.content = made[r].content
      BY <1>1, <1>2, <1>6, <2>1
    <3>. QED
      BY <1>6, <2>1, <3>1, <3>2 DEF MainFacet
  <2>2. CASE m.calls # <<>>
    <3>1. PICK k \in Call : m.calls = <<k>> /\ m.own \in {0, k.id}
      BY <1>5, <2>2 DEF Owned
    <3>2. k.id = r
      BY <1>2, <3>1 DEF r
    <3>3. DOMAIN Facets(m) = 1..4 /\ Facets(m)[2] = <<"tool_call", k.id>>
      BY <3>1, FacetsWithCall
    <3>4. <<"tool_call", k.id>> \in FacetSet(m)
      BY <3>3 DEF FacetSet
    <3>. QED
      BY <1>6, <2>2, <3>2, <3>4 DEF MainFacet
  <2>. QED
    BY <2>1, <2>2
<1>9. MainKey(r) = Key("turn", namespace[c], view, MainFacet(r))
  BY <1>2, <1>6 DEF MainKey, Key, Context
<1>10. Cached(MainKey(r))
  BY <1>2, <1>6 DEF AnswersCached
<1>11. Key("turn", namespace[c], view, MainFacet(r)) \in Keys(Kinds(view), namespace[c], view, m)
  BY <1>7, <1>8 DEF Keys
<1>. QED
  BY <1>9, <1>10, <1>11 DEF m, view

LEMMA EmitDue ==
  ASSUME TypeOK, HistoryRemembers, SentMirrors, DueReplayed,
         NEW c \in Conversations, NEW r \in Nat, Unprepared(c), Emit(c, r),
         Due(Current(c), namespace[c], sent[c]) => r # 0
  PROVE  HistoryRemembers' /\ SentMirrors' /\ DueReplayed'
<1> DEFINE m == [Current(c) EXCEPT !.reasoning = r]
<1>1. /\ m \in Message /\ m.reasoning = r /\ m.own = Current(c).own
      /\ m.calls = Current(c).calls /\ m.role = Current(c).role
      /\ m.content = Current(c).content
  BY CurrentType DEF Message
<1>2. sent[c] \in Seq(Message) /\ Len(sent[c]) \in Nat
  BY DEF TypeOK
<1>3. /\ sent' = [sent EXCEPT ![c] = Append(sent[c], m)]
      /\ UNCHANGED <<history, pc, namespace, made, prunes>>
  BY DEF Emit
<1>. HIDE DEF m
<1>4. HistoryRemembers'
  BY <1>3 DEF HistoryRemembers, Remembers
<1>5. SentMirrors'
  <2> SUFFICES ASSUME NEW d \in Conversations PROVE Mirrors(d)'
    BY DEF SentMirrors
  <2>1. Mirrors(d)
    BY DEF SentMirrors
  <2>2. CASE d # c
    <3>1. sent'[d] = sent[d]
      BY <1>3, <2>2 DEF TypeOK
    <3>. QED
      BY <1>3, <2>1, <3>1 DEF Mirrors
  <2>3. CASE d = c
    <3>1. /\ sent'[d] = Append(sent[c], m) /\ Len(sent'[d]) = Len(sent[c]) + 1
          /\ \A i \in 1..Len(sent[c]) : sent'[d][i] = sent[c][i]
          /\ sent'[d][Len(sent[c]) + 1] = m
      <4>1. sent'[d] = Append(sent[c], m)
        BY <1>3, <2>3 DEF TypeOK
      <4>. QED
        BY <1>1, <1>2, <4>1, AppendTail
    <3>2. /\ Len(sent[c]) + 1 \in 1..Len(history[c])
          /\ Current(c) = Normalized(history[c][Len(sent[c]) + 1])
          /\ Current(c).own = history[c][Len(sent[c]) + 1].own
      BY CurrentKept
    <3>3. m.own = history[c][Len(sent[c]) + 1].own /\ EntryOf(m) = EntryOf(Normalized(history[c][Len(sent[c]) + 1]))
      BY <1>1, <3>2 DEF EntryOf
    <3>4. pc[c] = "preparing" /\ Len(history[c]) \in Nat
      BY DEF Unprepared, TypeOK
    <3>5. Len(sent'[d]) <= Len(history'[d])
      BY <1>2, <1>3, <2>3, <3>1, <3>2, <3>4
    <3>6. ASSUME NEW i \in 1..Len(sent'[d])
          PROVE  /\ EntryOf(sent'[d][i]) = EntryOf(Normalized(history'[d][i]))
                 /\ sent'[d][i].own = history'[d][i].own
      <4>1. CASE i \in 1..Len(sent[c])
        BY <1>3, <2>1, <2>3, <3>1, <4>1 DEF Mirrors
      <4>2. CASE i = Len(sent[c]) + 1
        BY <1>3, <2>3, <3>1, <3>3, <4>2
      <4>. QED
        BY <1>2, <3>1, <4>1, <4>2
    <3>. QED
      BY <1>3, <2>1, <2>3, <3>4, <3>5, <3>6 DEF Mirrors
  <2>. QED
    BY <2>2, <2>3
<1>6. DueReplayed'
  <2> SUFFICES ASSUME NEW d \in Conversations, NEW i \in 1..Len(sent'[d]),
                      Due(sent'[d][i], namespace[d], SubSeq(sent'[d], 1, i - 1))
               PROVE  sent'[d][i].reasoning # 0
    <3>1. ASSUME NEW d \in Conversations, NEW i \in 1..Len(sent'[d]),
                 Due(sent[d][i], namespace[d], SubSeq(sent[d], 1, i - 1))'
          PROVE  Due(sent'[d][i], namespace[d], SubSeq(sent'[d], 1, i - 1))
      BY <1>3, <3>1 DEF Due, NeedsReasoning, AfterTool
    <3>. QED
      BY <3>1 DEF DueReplayed
  <2>1. CASE d # c
    <3>1. sent'[d] = sent[d]
      BY <1>3, <2>1 DEF TypeOK
    <3>. QED
      BY <3>1 DEF DueReplayed
  <2>2. CASE d = c
    <3>1. sent'[d] = Append(sent[c], m)
      BY <1>3, <2>2 DEF TypeOK
    <3>2. CASE i \in 1..Len(sent[c])
      <4>1. i - 1 \in 0..Len(sent[c])
        BY <1>2, <3>2
      <4>2. SubSeq(sent'[d], 1, i - 1) = SubSeq(sent[c], 1, i - 1)
        BY <1>1, <1>2, <3>1, <4>1, AppendPrefix
      <4>3. sent'[d][i] = sent[c][i]
        BY <1>1, <1>2, <3>1, <3>2, AppendTail
      <4>. QED
        BY <2>2, <3>2, <4>2, <4>3 DEF DueReplayed
    <3>3. CASE i = Len(sent[c]) + 1
      <4>1. sent'[d][i] = m
        BY <1>1, <1>2, <3>1, <3>3, AppendTail
      <4>2. i - 1 = Len(sent[c]) /\ Len(sent[c]) \in 0..Len(sent[c])
        BY <1>2, <3>3
      <4>3. SubSeq(sent'[d], 1, i - 1) = SubSeq(sent[c], 1, Len(sent[c]))
        BY <1>1, <1>2, <3>1, <4>2, AppendPrefix
      <4>4. SubSeq(sent'[d], 1, i - 1) = sent[c]
        BY <1>2, <4>3, WholePrefix
      <4>5. Due(Current(c), namespace[c], sent[c])
        BY <1>1, <2>2, <4>1, <4>4 DEF Due, NeedsReasoning
      <4>. QED
        BY <1>1, <4>1, <4>5
    <3>. QED
      BY <1>1, <1>2, <3>1, <3>2, <3>3, AppendTail
  <2>. QED
    BY <2>1, <2>2
<1>. QED
  BY <1>4, <1>5, <1>6

LEMMA RecordInit == Init => RecordInv
<1> SUFFICES ASSUME Init PROVE RecordInv
  OBVIOUS
<1>1. \A c \in Conversations : /\ Len(sent[c]) = 0 /\ Len(history[c]) = 0
                               /\ pc[c] = "client"
  BY DEF Init
<1>2. DOMAIN made = {}
  BY DEF Init
<1>3. HistoryRemembers /\ SentMirrors /\ AnswersCached /\ DueReplayed
  BY <1>1, <1>2
     DEF HistoryRemembers, Remembers, SentMirrors, Mirrors, AnswersCached, DueReplayed
<1>. QED
  BY <1>3, CallsInit DEF RecordInv

LEMMA RecordStep == RecordInv /\ [Next]_vars => RecordInv'
<1> SUFFICES ASSUME RecordInv, [Next]_vars PROVE RecordInv'
  OBVIOUS
<1>1. /\ TypeOK /\ CallsOwned /\ HistoryRemembers /\ SentMirrors /\ AnswersCached
      /\ DueReplayed /\ CallsInv'
  BY CallsStep DEF RecordInv, CallsInv
<1>2. ASSUME UNCHANGED <<rows, made, prunes>> PROVE AnswersCached'
  BY <1>1, <1>2 DEF AnswersCached, Cached, MainKey, MainFacet
<1>3. ASSUME UNCHANGED <<namespace, sent, made, prunes>> PROVE DueReplayed'
  BY <1>1, <1>3 DEF DueReplayed, Due
<1>4. ASSUME NEW c \in Conversations, pc[c] = "client", NEW h \in Seq(Message), Remembers(h, made),
             history' = [history EXCEPT ![c] = h],
             UNCHANGED <<pc, namespace, sent, rows, made, prunes>>
      PROVE  RecordInv'
  <2>1. \A d \in Conversations : history'[d] = IF d = c THEN h ELSE history[d]
    BY <1>1, <1>4 DEF TypeOK
  <2>2. HistoryRemembers'
    <3> SUFFICES ASSUME NEW d \in Conversations PROVE Remembers(history'[d], made)
      BY <1>4 DEF HistoryRemembers, Remembers
    <3>. QED
      BY <1>1, <1>4, <2>1 DEF HistoryRemembers
  <2>3. SentMirrors'
    <3> SUFFICES ASSUME NEW d \in Conversations PROVE Mirrors(d)'
      BY DEF SentMirrors
    <3>1. CASE d = c
      <4>1. Len(sent'[d]) = 0 /\ pc'[d] = "client" /\ history'[d] = h
        BY <1>1, <1>4, <2>1, <3>1 DEF TypeOK
      <4>2. Len(h) \in Nat
        BY <1>4
      <4>. QED
        BY <4>1, <4>2 DEF Mirrors
    <3>2. CASE d # c
      BY <1>1, <1>4, <2>1, <3>2 DEF SentMirrors, Mirrors
    <3>. QED
      BY <3>1, <3>2
  <2>. QED
    BY <1>1, <1>2, <1>3, <1>4, <2>2, <2>3 DEF RecordInv
<1>5. ASSUME NEW c \in Conversations, NEW m \in Message, m.own = 0, ClientSays(c, m)
      PROVE  RecordInv'
  <2>1. history[c] \in Seq(Message) /\ Remembers(history[c], made)
    BY <1>1 DEF TypeOK, HistoryRemembers
  <2>2. Append(history[c], m) \in Seq(Message) /\ Remembers(Append(history[c], m), made)
    BY <1>5, <2>1, RemembersMore, AppendTail
  <2>. QED
    BY <1>4, <1>5, <2>2 DEF ClientSays
<1>6. ASSUME NEW c \in Conversations, User(c) PROVE RecordInv'
  <2>1. PICK text \in UserSays : ClientSays(c, NewMessage("user", text, <<>>, 0))
    BY <1>6 DEF User
  <2>2. NewMessage("user", text, <<>>, 0) \in Message
    BY DEF NewMessage, Message, Role, Text
  <2>. QED
    BY <1>5, <2>1, <2>2 DEF NewMessage
<1>7. ASSUME NEW c \in Conversations, ToolResult(c) PROVE RecordInv'
  <2>1. NewMessage("tool", "result", <<>>, 0) \in Message
    BY DEF NewMessage, Message, Role, Text
  <2>. QED
    BY <1>5, <1>7, <2>1 DEF ToolResult, NewMessage
<1>8. ASSUME NEW c \in Conversations, Rewind(c) PROVE RecordInv'
  <2>1. history[c] \in Seq(Message) /\ Len(history[c]) \in Nat /\ Remembers(history[c], made)
    BY <1>1 DEF TypeOK, HistoryRemembers
  <2>2. PICK n \in 1..(Len(history[c]) - 1) :
          history' = [history EXCEPT ![c] = SubSeq(history[c], 1, n)]
    BY <1>8 DEF Rewind
  <2>3. n \in 0..Len(history[c])
    BY <2>1
  <2>4. SubSeq(history[c], 1, n) \in Seq(Message) /\ Remembers(SubSeq(history[c], 1, n), made)
    BY <2>1, <2>3, PrefixType, RemembersPrefix
  <2>. QED
    BY <1>4, <1>8, <2>2, <2>4 DEF Rewind
<1>9. ASSUME NEW c \in Conversations, Forget(c) PROVE RecordInv'
  <2>1. history[c] \in Seq(Message) /\ Len(history[c]) \in Nat /\ Remembers(history[c], made)
    BY <1>1 DEF TypeOK, HistoryRemembers
  <2>2. PICK n \in 2..Len(history[c]) :
          /\ history[c][n].role = "user" /\ history[c][n - 1].role # "user"
          /\ history' = [history EXCEPT ![c] = SubSeq(history[c], n, Len(history[c]))]
    BY <1>9 DEF Forget
  <2>3. n \in 1..Len(history[c])
    BY <2>1
  <2>4. /\ SubSeq(history[c], n, Len(history[c])) \in Seq(Message)
        /\ Remembers(SubSeq(history[c], n, Len(history[c])), made)
    BY <2>1, <2>2, <2>3, SuffixType, RemembersTurn
  <2>. QED
    BY <1>4, <1>9, <2>2, <2>4 DEF Forget
<1>10. ASSUME NEW c \in Conversations, Ask(c) PROVE RecordInv'
  <2>1. sent[c] = <<>> /\ Len(sent[c]) = 0 /\ Len(history[c]) > 0 /\ pc'[c] = "preparing"
    <3>1. sent[c] = <<>> /\ pc'[c] = "preparing" /\ history[c] # <<>>
      BY <1>1, <1>10 DEF Ask, TypeOK
    <3>2. history[c] \in Seq(Message)
      BY <1>1 DEF TypeOK
    <3>3. Len(history[c]) > 0
      BY <3>1, <3>2, EmptySeq
    <3>. QED
      BY <3>1, <3>3
  <2>2. /\ UNCHANGED <<history, sent, rows, made, prunes>>
        /\ \A d \in Conversations \ {c} : namespace'[d] = namespace[d] /\ pc'[d] = pc[d]
    BY <1>1, <1>10 DEF Ask, TypeOK
  <2>3. HistoryRemembers'
    BY <1>1, <2>2 DEF HistoryRemembers, Remembers
  <2>4. SentMirrors'
    BY <1>1, <2>1, <2>2 DEF SentMirrors, Mirrors
  <2>5. DueReplayed'
    <3> SUFFICES ASSUME NEW d \in Conversations, NEW i \in 1..Len(sent[d]),
                        Due(sent[d][i], namespace[d], SubSeq(sent[d], 1, i - 1))'
                 PROVE  sent[d][i].reasoning # 0
      BY <2>2 DEF DueReplayed
    <3>1. namespace'[d] = namespace[d]
      BY <2>1, <2>2
    <3>2. Due(sent[d][i], namespace[d], SubSeq(sent[d], 1, i - 1))
      BY <2>2, <3>1 DEF Due, NeedsReasoning, AfterTool
    <3>. QED
      BY <1>1, <3>2 DEF DueReplayed
  <2>. QED
    BY <1>1, <1>2, <2>2, <2>3, <2>4, <2>5 DEF RecordInv
<1>11. ASSUME NEW c \in Conversations, PassOn(c) PROVE RecordInv'
  <2>1. Unprepared(c) /\ ~Repairs(c) /\ Emit(c, 0) /\ UNCHANGED <<rows, made, prunes>>
    BY <1>11 DEF PassOn, Emit
  <2>2. ~Due(Current(c), namespace[c], sent[c])
    BY <2>1 DEF Due, Repairs
  <2>3. HistoryRemembers' /\ SentMirrors' /\ DueReplayed'
    BY <1>1, <2>1, <2>2, EmitDue
  <2>. QED
    BY <1>1, <1>2, <2>1, <2>3 DEF RecordInv
<1>12. ASSUME NEW c \in Conversations, Miss(c) PROVE RecordInv'
  <2>1. Unprepared(c) /\ Emit(c, 0) /\ UNCHANGED <<rows, made, prunes>>
    BY <1>12 DEF Miss, Emit
  <2>2. ~Due(Current(c), namespace[c], sent[c])
    BY <1>1, <1>12, <2>1, DueIsFound DEF Miss
  <2>3. HistoryRemembers' /\ SentMirrors' /\ DueReplayed'
    BY <1>1, <2>1, <2>2, EmitDue
  <2>. QED
    BY <1>1, <1>2, <2>1, <2>3 DEF RecordInv
<1>13. ASSUME NEW c \in Conversations, Patch(c) PROVE RecordInv'
  <2>1. PICK row \in rows :
          /\ Unprepared(c) /\ Emit(c, row.reasoning)
          /\ \E keys : Put(keys, row.reasoning)
    BY <1>13 DEF Patch
  <2>2. row.reasoning \in Nat /\ row.reasoning # 0 /\ UNCHANGED <<made, prunes>>
    BY <1>1, <2>1 DEF TypeOK, Emit
  <2>3. HistoryRemembers' /\ SentMirrors' /\ DueReplayed'
    BY <1>1, <2>1, <2>2, EmitDue
  <2>4. AnswersCached'
    <3>1. \A key : Cached(key) => Cached(key)'
      BY <2>1, PutKeeps
    <3>. QED
      BY <1>1, <2>2, <3>1 DEF AnswersCached, MainKey, MainFacet
  <2>. QED
    BY <1>1, <2>3, <2>4 DEF RecordInv
<1>14. ASSUME NEW c \in Conversations, Return(c),
              \A q \in DOMAIN made : q \in DOMAIN made' /\ made'[q] = made[q],
              prunes' = prunes, \A d \in Conversations \ {c} : history'[d] = history[d]
       PROVE  SentMirrors' /\ DueReplayed'
  <2>1. /\ Len(sent'[c]) = 0 /\ pc'[c] = "client"
        /\ \A d \in Conversations \ {c} :
             sent'[d] = sent[d] /\ namespace'[d] = namespace[d] /\ pc'[d] = pc[d]
    <3>1. sent'[c] = <<>> /\ pc'[c] = "client"
      BY <1>1, <1>14 DEF Return, TypeOK
    <3>. QED
      BY <1>1, <1>14, <3>1 DEF Return, TypeOK
  <2>2. SentMirrors'
    <3> SUFFICES ASSUME NEW d \in Conversations PROVE Mirrors(d)'
      BY DEF SentMirrors
    <3>1. CASE d = c
      <4>1. Len(history'[c]) \in Nat
        BY <1>1 DEF CallsInv, TypeOK
      <4>. QED
        BY <2>1, <3>1, <4>1 DEF Mirrors
    <3>2. CASE d # c
      BY <1>1, <1>14, <2>1, <3>2 DEF SentMirrors, Mirrors
    <3>. QED
      BY <3>1, <3>2
  <2>3. DueReplayed'
    <3> SUFFICES ASSUME NEW d \in Conversations, NEW i \in 1..Len(sent'[d]),
                        Due(sent[d][i], namespace[d], SubSeq(sent[d], 1, i - 1))'
                 PROVE  sent'[d][i].reasoning # 0
      BY DEF DueReplayed
    <3>1. d # c
      BY <2>1
    <3>2. sent'[d] = sent[d] /\ namespace'[d] = namespace[d] /\ i \in 1..Len(sent[d])
      BY <2>1, <3>1
    <3>3. sent[d][i].own \in DOMAIN made
      <4>1. i \in 1..Len(history[d]) /\ sent[d][i].own = history[d][i].own
        <5>1. Len(sent[d]) \in Nat /\ Len(history[d]) \in Nat
          BY <1>1 DEF TypeOK
        <5>. QED
          BY <1>1, <3>2, <5>1 DEF SentMirrors, Mirrors
      <4>2. sent[d][i].own # 0
        BY <3>2 DEF Due
      <4>. QED
        BY <1>1, <4>1, <4>2 DEF HistoryRemembers, Remembers
    <3>4. Due(sent[d][i], namespace[d], SubSeq(sent[d], 1, i - 1))
      BY <1>14, <3>2, <3>3 DEF Due, NeedsReasoning, AfterTool
    <3>. QED
      BY <1>1, <3>2, <3>4 DEF DueReplayed
  <2>. QED
    BY <2>2, <2>3
<1>15. ASSUME NEW c \in Conversations, Return(c), UNCHANGED <<history, rows, made, prunes>>
       PROVE  RecordInv'
  <2>1. SentMirrors' /\ DueReplayed'
    BY <1>14, <1>15
  <2>2. HistoryRemembers'
    BY <1>1, <1>15 DEF HistoryRemembers, Remembers
  <2>. QED
    BY <1>1, <1>2, <1>15, <2>1, <2>2 DEF RecordInv
<1>16. ASSUME NEW c \in Conversations, Dispatch(c) PROVE RecordInv'
  <2>1. CASE Return(c)
    BY <1>15, <1>16, <2>1 DEF Dispatch
  <2>2. CASE pc' = [pc EXCEPT ![c] = "upstream"] /\ UNCHANGED <<namespace, sent>>
    <3>1. UNCHANGED <<history, namespace, sent, rows, made, prunes>>
      BY <1>16, <2>2 DEF Dispatch
    <3>2. pc[c] = "preparing" /\ Len(sent[c]) >= Len(history[c])
      BY <1>1, <1>16 DEF Dispatch, Unprepared, TypeOK
    <3>3. SentMirrors'
      <4> SUFFICES ASSUME NEW d \in Conversations PROVE Mirrors(d)'
        BY DEF SentMirrors
      <4>1. Mirrors(d) /\ Len(sent[d]) \in Nat /\ Len(history[d]) \in Nat
        BY <1>1 DEF SentMirrors, TypeOK
      <4>2. CASE d = c
        BY <3>1, <3>2, <4>1, <4>2 DEF Mirrors
      <4>3. CASE d # c
        <5>1. pc'[d] = pc[d]
          BY <1>1, <2>2, <4>3 DEF TypeOK
        <5>. QED
          BY <3>1, <4>1, <5>1 DEF Mirrors
      <4>. QED
        BY <4>2, <4>3
    <3>4. HistoryRemembers'
      BY <1>1, <3>1 DEF HistoryRemembers, Remembers
    <3>. QED
      BY <1>1, <1>2, <1>3, <3>1, <3>3, <3>4 DEF RecordInv
  <2>. QED
    BY <1>16, <2>1, <2>2 DEF Dispatch
<1>17. ASSUME NEW c \in Conversations, Answer(c) PROVE RecordInv'
  <2> DEFINE n == Len(made) + 1
             view == View(sent[c])
             Own == IF namespace[c] \in Thinking THEN n ELSE 0
             Calls(tools) ==
               [i \in DOMAIN tools |-> [id |-> n, name |-> tools[i].name, args |-> tools[i].args]]
             Kept(content, tools) ==
               [namespace |-> namespace[c], prior |-> view, content |-> content,
                calls |-> Calls(tools)]
             Msg(content, tools) == NewMessage("assistant", content, Calls(tools), Own)
  <2>1. PICK content \in Contents, tools \in {<<>>} \cup {<<t>> : t \in Tools} :
          /\ Record(c, Msg(content, tools))
          /\ made' = Append(made, Kept(content, tools))
          /\ history' = [history EXCEPT ![c] = Append(history[c], Msg(content, tools))]
    BY <1>17 DEF Answer, NewMessage
  <2> DEFINE m == Msg(content, tools)
             entry == Kept(content, tools)
             h == history[c]
  <2>2. pc[c] = "upstream" /\ Return(c) /\ prunes' = prunes
    BY <1>17 DEF Answer
  <2>3. made \in Seq(Made) /\ Len(made) \in Nat /\ n \in Nat /\ n # 0 /\ Own \in Nat
    BY <1>1 DEF TypeOK
  <2>4. m \in Message /\ entry \in Made
    BY <1>1, <2>2, <2>3, AnswerType
  <2>5. /\ m.role = "assistant" /\ m.content = entry.content
        /\ m.calls = entry.calls /\ m.own = Own
        /\ entry.namespace = namespace[c] /\ entry.prior = view
    BY DEF NewMessage
  <2>6. m.calls = <<>> \/ \E k : m.calls = <<k>> /\ k.id = n
    <3>1. CASE tools = <<>>
      BY <3>1 DEF NewMessage
    <3>2. CASE tools # <<>>
      <4>1. PICK t \in Tools : tools = <<t>>
        BY <3>2
      <4> DEFINE k == [id |-> n, name |-> t.name, args |-> t.args]
      <4>2. Calls(tools) = <<k>> /\ k.id = n
        BY <4>1
      <4>3. m.calls = <<k>>
        BY <4>2 DEF NewMessage
      <4> HIDE DEF k, m
      <4>. QED
        BY <4>2, <4>3
    <3>. QED
      BY <3>1, <3>2
  <2>7. h \in Seq(Message) /\ Remembers(h, made) /\ Len(h) > 0 /\ view = Seen(h, Len(h))
    <3>1. Mirrors(c) /\ Len(sent[c]) = Len(h) /\ Len(h) > 0
      BY <1>1, <2>2 DEF SentMirrors, Mirrors
    <3>. QED
      BY <1>1, <3>1, MirrorView DEF TypeOK, HistoryRemembers
  <2>8. history' = [history EXCEPT ![c] = Append(h, m)] /\ made' = Append(made, entry)
        /\ Record(c, m)
    BY <2>1
  <2> HIDE DEF m, entry, n, view, Own, Calls, Kept, Msg, h
  <2>9. /\ \A q \in DOMAIN made : q \in DOMAIN made' /\ made'[q] = made[q]
        /\ n \in DOMAIN made' /\ made'[n] = entry
        /\ \A q \in DOMAIN made' : q \in DOMAIN made \/ q = n
    BY <2>3, <2>4, <2>8, AppendTail DEF n, entry
  <2>10. \A d \in Conversations : history'[d] = IF d = c THEN Append(h, m) ELSE history[d]
    BY <1>1, <2>8 DEF TypeOK
  <2>11. HistoryRemembers'
    <3>1. ASSUME NEW g, Remembers(g, made) PROVE Remembers(g, made')
      BY <2>9, <3>1 DEF Remembers
    <3>2. Own # 0 => Own = n
      BY DEF Own
    <3>3. Remembers(Append(h, m), made')
      <4>1. Remembers(h, made')
        BY <2>7, <3>1
      <4>2. m.own # 0 =>
              /\ m.role = "assistant" /\ Len(h) > 0 /\ m.own \in DOMAIN made'
              /\ m.content = made'[m.own].content /\ m.calls = made'[m.own].calls
              /\ TurnOf(Seen(h, Len(h))) = TurnOf(made'[m.own].prior)
        BY <2>5, <2>7, <2>9, <3>2
      <4>. QED
        BY <2>4, <2>7, <4>1, <4>2, RemembersMore
    <3> SUFFICES ASSUME NEW d \in Conversations PROVE Remembers(history'[d], made')
      BY DEF HistoryRemembers
    <3>4. Remembers(history[d], made')
      BY <1>1, <3>1 DEF HistoryRemembers
    <3>. QED
      BY <2>10, <3>3, <3>4
  <2>12. SentMirrors' /\ DueReplayed'
    BY <1>14, <2>2, <2>9, <2>10
  <2>13. ASSUME Own = 0 PROVE AnswersCached'
    <3>1. UNCHANGED rows
      BY <2>5, <2>8, <2>13 DEF Record
    <3>2. namespace[c] \notin Thinking
      BY <2>3, <2>13 DEF Own
    <3>. QED
      BY <1>1, <2>2, <2>5, <2>9, <3>1, <3>2 DEF AnswersCached, Cached, MainKey, MainFacet
  <2>14. ASSUME Own = n PROVE AnswersCached'
    <3> SUFFICES ASSUME prunes' = 0, ~Streaming, NEW q \in DOMAIN made',
                        made'[q].namespace \in Thinking
                 PROVE  \E row \in rows' : row.key = MainKey(q)'
      BY DEF AnswersCached, Cached
    <3>1. Put(Keys(Kinds(view), namespace[c], view, m), n)
      BY <2>3, <2>5, <2>8, <2>14 DEF Record, Stored, view
    <3>2. CASE q \in DOMAIN made
      <4>1. Cached(MainKey(q)) /\ MainKey(q)' = MainKey(q)
        BY <1>1, <2>2, <2>9, <3>2 DEF AnswersCached, MainKey, MainFacet
      <4>2. \A key : Cached(key) => Cached(key)'
        BY <3>1, PutKeeps
      <4>3. \A key : Cached(key) => \E row \in rows' : row.key = key
        BY <4>2 DEF Cached
      <4>. QED
        BY <4>1, <4>3
    <3>3. CASE q = n
      <4> DEFINE facet == IF m.calls = <<>> THEN <<"signature", <<m.content, <<>>>>>>
                          ELSE <<"tool_call", n>>
      <4>1. MainKey(q)' = Key("turn", namespace[c], view, facet)
        BY <2>5, <2>9, <3>3 DEF MainKey, MainFacet, Key, Context
      <4>2. facet \in FacetSet(m)
        <5>1. CASE m.calls = <<>>
          BY <5>1, FacetsWithout
        <5>2. CASE m.calls # <<>>
          <6>1. PICK k : m.calls = <<k>> /\ k.id = n
            BY <2>6, <5>2
          <6>2. DOMAIN Facets(m) = 1..4 /\ Facets(m)[2] = <<"tool_call", k.id>>
            BY <6>1, FacetsWithCall
          <6>3. <<"tool_call", k.id>> \in FacetSet(m)
            BY <6>2 DEF FacetSet
          <6>. QED
            BY <5>2, <6>1, <6>3
        <5>. QED
          BY <5>1, <5>2
      <4>3. "turn" \in Kinds(view)
        <5>1. Len(view) = Len(h) /\ Len(h) \in Nat
          BY <2>7, SeenType
        <5>2. view # <<>>
          BY <2>7, <5>1
        <5>. QED
          BY <5>2 DEF Kinds
      <4> HIDE DEF facet
      <4>4. Key("turn", namespace[c], view, facet) \in Keys(Kinds(view), namespace[c], view, m)
        BY <4>2, <4>3 DEF Keys
      <4>5. \A key \in Keys(Kinds(view), namespace[c], view, m) :
              [key |-> key, reasoning |-> n] \in rows'
        BY <3>1 DEF Put
      <4>. QED
        BY <4>1, <4>4, <4>5
    <3>. QED
      BY <2>9, <3>2, <3>3
  <2>15. Own = 0 \/ Own = n
    BY DEF Own
  <2>. QED
    BY <1>1, <2>11, <2>12, <2>13, <2>14, <2>15 DEF RecordInv
<1>18. ASSUME NEW c \in Conversations, Fail(c) PROVE RecordInv'
  BY <1>15, <1>18 DEF Fail
<1>19. CASE Prune
  <2>1. UNCHANGED <<history, pc, namespace, sent, made>> /\ prunes' # 0
    BY <1>1, <1>19 DEF Prune, TypeOK
  <2>2. HistoryRemembers' /\ SentMirrors'
    BY <1>1, <2>1 DEF HistoryRemembers, Remembers, SentMirrors, Mirrors
  <2>. QED
    BY <1>1, <2>1, <2>2 DEF RecordInv, AnswersCached, DueReplayed, Due
<1>20. CASE UNCHANGED vars
  <2>1. UNCHANGED <<history, pc, namespace, sent, rows, made, prunes>>
    BY <1>20 DEF vars
  <2>2. HistoryRemembers' /\ SentMirrors'
    BY <1>1, <2>1 DEF HistoryRemembers, Remembers, SentMirrors, Mirrors
  <2>. QED
    BY <1>1, <1>2, <1>3, <2>1, <2>2 DEF RecordInv
<1>. QED
  BY <1>6, <1>7, <1>8, <1>9, <1>10, <1>11, <1>12, <1>13, <1>16, <1>17, <1>18, <1>19, <1>20
     DEF Next, Client, Request

(* With regular answers and while nothing is pruned, every message that      *)
(* needs its reasoning is sent with one, however the client rewinds and      *)
(* shortens its history and whoever shares the cache.                        *)
THEOREM RecordedReplayed == Spec => [](~Streaming => RecordedIsReplayed)
<1>1. RecordInv => (~Streaming => RecordedIsReplayed)
  <2> SUFFICES ASSUME RecordInv, ~Streaming, NEW c \in Conversations, NEW i \in Repaired(c),
                      Due(sent[c][i], namespace[c], SubSeq(sent[c], 1, i - 1))
               PROVE  sent[c][i].reasoning # 0
    BY DEF RecordedIsReplayed, Due, Repaired
  <2>1. sent[c] \in Seq(Message)
    BY DEF RecordInv, CallsInv, TypeOK
  <2>2. i \in 1..Len(sent[c])
    BY <2>1 DEF Repaired
  <2>. QED
    BY <2>2 DEF RecordInv, DueReplayed
<1>. QED
  BY <1>1, RecordInit, RecordStep, PTL DEF Spec

=============================================================================
