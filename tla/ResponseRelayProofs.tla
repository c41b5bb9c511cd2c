-------------------------- MODULE ResponseRelayProofs --------------------------
(***************************************************************************)
(* For any number of choices, contexts, chunks and deltas in any order:    *)
(* the client sees well-formed thinking blocks, the last word of every     *)
(* choice is stored, and what a client strips leaves the content the store *)
(* has it under.                                                           *)
(***************************************************************************)
EXTENDS ResponseRelay, SequenceTheorems, FiniteSetTheorems, WellFoundedInduction, TLAPS

Tokens == Content \cup {"start", "thought", "breach", "end"}

-----------------------------------------------------------------------------
(* Thinking blocks *)

Opened(s) == InBlock(s, Len(s))

(* What one more token does to the blocks of a text.                         *)
LEMMA AppendToken ==
  ASSUME NEW s \in Seq(Tokens), NEW tok \in Tokens, WellFormed(s),
         tok \in {"thought", "breach", "end"} => Opened(s),
         tok \in Content \cup {"start"} => ~Opened(s)
  PROVE  /\ s \o <<tok>> \in Seq(Tokens) /\ WellFormed(s \o <<tok>>)
         /\ Opened(s \o <<tok>>) <=> tok = "start" \/ (Opened(s) /\ tok # "end")
<1> DEFINE t == s \o <<tok>>
<1>1. /\ t \in Seq(Tokens) /\ Len(s) \in Nat /\ Len(t) = Len(s) + 1
      /\ DOMAIN t = 1..Len(t) /\ DOMAIN s = 1..Len(s)
      /\ t[Len(t)] = tok /\ \A n \in 1..Len(s) : t[n] = s[n]
  OBVIOUS
<1> HIDE DEF t
<1>2. \A n \in 0..Len(s) : InBlock(t, n) <=> InBlock(s, n)
  BY <1>1 DEF InBlock
<1>3. WellFormed(t)
  <2> SUFFICES ASSUME NEW n \in DOMAIN t
               PROVE  /\ t[n] \in {"thought", "breach", "end"} => InBlock(t, n - 1)
                      /\ t[n] \in Content \cup {"start"} => ~InBlock(t, n - 1)
    BY DEF WellFormed
  <2>1. CASE n \in 1..Len(s)
    BY <1>1, <1>2, <2>1 DEF WellFormed
  <2>2. CASE n = Len(t)
    BY <1>1, <1>2, <2>2 DEF Opened
  <2>. QED
    BY <1>1, <2>1, <2>2
<1>4. Opened(t) <=> tok = "start" \/ (Opened(s) /\ tok # "end")
  <2>1. InBlock(t, Len(s)) <=> Opened(s)
    BY <1>1, <1>2 DEF Opened
  <2>2. ASSUME NEW a \in 1..Len(s)
        PROVE  (t[a] = "start" /\ \A b \in a..Len(t) : t[b] # "end")
               <=> (t[a] = "start" /\ \A b \in a..Len(s) : t[b] # "end") /\ tok # "end"
    BY <1>1
  <2>3. (t[Len(t)] = "start" /\ \A b \in Len(t)..Len(t) : t[b] # "end") <=> tok = "start"
    BY <1>1
  <2>. QED
    BY <1>1, <2>1, <2>2, <2>3 DEF Opened, InBlock
<1>. QED
  BY <1>1, <1>3, <1>4 DEF t

(* A token that is there or not.                                             *)
LEMMA AppendIf ==
  ASSUME NEW s \in Seq(Tokens), NEW test \in BOOLEAN, NEW tok \in Tokens, WellFormed(s),
         test /\ tok \in {"thought", "breach", "end"} => Opened(s),
         test /\ tok \in Content \cup {"start"} => ~Opened(s)
  PROVE  /\ s \o Token(test, tok) \in Seq(Tokens) /\ WellFormed(s \o Token(test, tok))
         /\ Opened(s \o Token(test, tok)) <=>
              IF test THEN tok = "start" \/ (Opened(s) /\ tok # "end") ELSE Opened(s)
<1>1. CASE test
  BY <1>1, AppendToken DEF Token
<1>2. CASE ~test
  BY <1>2, ConcatEmptySeq DEF Token
<1>. QED
  BY <1>1, <1>2

LEMMA TextsJoin ==
  ASSUME NEW s \in Seq(Tokens), NEW t \in Seq(Tokens)
  PROVE  s \o t \in Seq(Tokens)
BY ConcatProperties

LEMMA TextsAssociate ==
  \A s, t, u \in Seq(Tokens) : s \o (t \o u) = (s \o t) \o u
<1> SUFFICES ASSUME NEW s \in Seq(Tokens), NEW t \in Seq(Tokens), NEW u \in Seq(Tokens)
             PROVE  s \o (t \o u) = (s \o t) \o u
  OBVIOUS
<1>1. (s \o t) \o u = s \o (t \o u)
  BY ConcatAssociative
<1>. QED
  BY <1>1

(* The name keeps the provers from expanding the concatenation.              *)
Joined(t, u) == t \o u

LEMMA OneByOne ==
  ASSUME NEW s \in Seq(Tokens), NEW a \in Seq(Tokens), NEW b \in Seq(Tokens),
         NEW e \in Seq(Tokens), NEW c \in Seq(Tokens)
  PROVE  Joined(s, Joined(Joined(Joined(a, b), e), c)) = Joined(Joined(Joined(Joined(s, a), b), e), c)
<1>1. \A t, u \in Seq(Tokens) : Joined(t, u) \in Seq(Tokens)
  BY TextsJoin DEF Joined
<1>2. \A t, u, v \in Seq(Tokens) : Joined(t, Joined(u, v)) = Joined(Joined(t, u), v)
  BY TextsAssociate DEF Joined
<1>3. Joined(a, b) \in Seq(Tokens) /\ Joined(Joined(a, b), e) \in Seq(Tokens)
  BY <1>1
<1>. QED
  BY <1>2, <1>3

LEMMA TokenTyped ==
  ASSUME NEW test \in BOOLEAN, NEW tok \in Tokens
  PROVE  Token(test, tok) \in Seq(Tokens)
<1>1. <<tok>> \in Seq(Tokens) /\ <<>> \in Seq(Tokens)
  OBVIOUS
<1>. QED
  BY <1>1 DEF Token

(* Content behind a text without an open block.                              *)
LEMMA AppendContent ==
  ASSUME NEW s \in Seq(Tokens), NEW c \in Seq(Content), WellFormed(s),
         c # <<>> => ~Opened(s)
  PROVE  /\ s \o c \in Seq(Tokens) /\ WellFormed(s \o c)
         /\ Opened(s \o c) <=> Opened(s)
<1> DEFINE t == s \o c
<1>1. CASE c = <<>>
  BY <1>1, ConcatEmptySeq
<1>2. CASE c # <<>>
  <2>1. c \in Seq(Tokens)
    BY SeqMonotonic DEF Content, Tokens
  <2>2. /\ t \in Seq(Tokens) /\ Len(s) \in Nat /\ Len(c) \in Nat /\ Len(t) = Len(s) + Len(c)
        /\ DOMAIN t = 1..Len(t) /\ DOMAIN s = 1..Len(s)
        /\ \A n \in 1..Len(s) : t[n] = s[n]
        /\ \A n \in (Len(s) + 1)..Len(t) : t[n] \in Content
    <3>1. \A n \in 1..Len(c) : c[n] \in Content
      BY ElementOfSeq
    <3>. QED
      BY <2>1, <3>1, ConcatProperties, LenProperties
  <2> HIDE DEF t
  <2>3. \A n \in 0..Len(s) : InBlock(t, n) <=> InBlock(s, n)
    <3> SUFFICES ASSUME NEW n \in 0..Len(s) PROVE InBlock(t, n) <=> InBlock(s, n)
      OBVIOUS
    <3>1. Len(s) \in Nat /\ \A b \in 1..n : t[b] = s[b]
      BY <2>2
    <3>. QED
      BY <3>1 DEF InBlock
  <2>4. \A n \in Len(s)..Len(t) : ~InBlock(t, n)
    <3> SUFFICES ASSUME NEW n \in Len(s)..Len(t), InBlock(t, n) PROVE FALSE
      OBVIOUS
    <3>1. PICK a \in 1..n : t[a] = "start" /\ \A b \in a..n : t[b] # "end"
      BY DEF InBlock
    <3>2. a \in 1..Len(s)
      BY <2>2, <3>1 DEF Content
    <3>3. InBlock(t, Len(s))
      BY <2>2, <3>1, <3>2 DEF InBlock
    <3>. QED
      BY <1>2, <2>2, <2>3, <3>3 DEF Opened
  <2>5. WellFormed(t)
    <3> SUFFICES ASSUME NEW n \in DOMAIN t
                 PROVE  /\ t[n] \in {"thought", "breach", "end"} => InBlock(t, n - 1)
                        /\ t[n] \in Content \cup {"start"} => ~InBlock(t, n - 1)
      BY DEF WellFormed
    <3>1. CASE n \in 1..Len(s)
      BY <2>2, <2>3, <3>1 DEF WellFormed
    <3>2. CASE n \in (Len(s) + 1)..Len(t)
      <4>1. t[n] \in Content /\ n - 1 \in Len(s)..Len(t)
        BY <2>2, <3>2
      <4>. QED
        BY <2>4, <4>1 DEF Content
    <3>. QED
      BY <2>2, <3>1, <3>2
  <2>6. ~Opened(t) /\ ~Opened(s)
    BY <1>2, <2>2, <2>4 DEF Opened
  <2>. QED
    BY <2>2, <2>5, <2>6 DEF t
<1>. QED
  BY <1>1, <1>2

-----------------------------------------------------------------------------
(* Types *)

(* A delta in the words of the adapter.                                      *)
LEMMA DeltaTyped ==
  ASSUME NEW d \in Deltas
  PROVE  /\ d.content \in Seq(Content) /\ d.call \in 0..MaxCalls
         /\ d.reasoning \in {"none", "empty", "piece", "breach"}
         /\ d.id \in BOOLEAN /\ d.finish \in BOOLEAN
         /\ Reasons(d) \in BOOLEAN
BY DeltasAssumption DEF Delta, Content, Reasons

LEMMA CallsTyped ==
  ASSUME NEW calls \in Seq(BOOLEAN), NEW d \in Deltas
  PROVE  MergeToolCallDeltas(calls, d) \in Seq(BOOLEAN)
<1> DEFINE n == IF d.call > Len(calls) THEN d.call ELSE Len(calls)
<1>1. n \in Nat
  BY DeltaTyped, BoundsAssumption
<1> HIDE DEF n
<1>2. \A k \in 1..n : ((k \in DOMAIN calls /\ calls[k]) \/ (k = d.call /\ d.id)) \in BOOLEAN
  OBVIOUS
<1>3. [k \in 1..n |-> (k \in DOMAIN calls /\ calls[k]) \/ (k = d.call /\ d.id)] \in [1..n -> BOOLEAN]
  BY <1>2, Zenon
<1>4. [k \in 1..n |-> (k \in DOMAIN calls /\ calls[k]) \/ (k = d.call /\ d.id)] \in Seq(BOOLEAN)
  BY <1>1, <1>3, SeqDef, Zenon
<1>. QED
  BY <1>4 DEF MergeToolCallDeltas, n

LEMMA IngestTyped ==
  ASSUME NEW choice \in Choice, NEW d \in Deltas
  PROVE  Ingest(choice, d) \in Choice
<1>1. /\ choice.content \in Seq(Content) /\ choice.reasoning \in Nat
      /\ choice.has \in BOOLEAN /\ choice.calls \in Seq(BOOLEAN) /\ choice.finished \in BOOLEAN
  BY DEF Choice, Content
<1>2. choice.content \o d.content \in Seq(Content)
  BY <1>1, DeltaTyped, ConcatProperties
<1>3. MergeToolCallDeltas(choice.calls, d) \in Seq(BOOLEAN)
  BY <1>1, CallsTyped
<1>4. /\ (choice.has \/ d.reasoning # "none") \in BOOLEAN
      /\ (choice.finished \/ d.finish) \in BOOLEAN
      /\ (choice.breached \/ d.reasoning = "breach") \in BOOLEAN
  OBVIOUS
<1>5. choice.reasoning + (IF Reasons(d) THEN 1 ELSE 0) \in Nat
  BY <1>1
<1>. QED
  BY <1>2, <1>3, <1>4, <1>5, Zenon DEF Ingest, Choice, Content

LEMMA RankTyped == ASSUME NEW choice PROVE StageRank(choice) \in 0..2
BY DEF StageRank

(* Every row is a choice's, with reasoning.                                  *)
LEMMA RowTyped ==
  ASSUME NEW x \in Contexts, NEW i \in Indices, NEW choice \in Choice, choice.reasoning # 0
  PROVE  IsRow(Row(x, i, choice))
<1>1. choice.content \in Seq(Content) /\ choice.reasoning \in Nat /\ choice.calls \in Seq(BOOLEAN)
  BY DEF Choice, Content
<1>2. <<>> \in Seq(BOOLEAN)
  BY EmptySeq
<1>. QED
  BY <1>1, <1>2 DEF Row, IsRow, Content

LEMMA ThinkingTyped ==
  ASSUME NEW breached
  PROVE  /\ Thinking(breached) \in {"thought", "breach"}
         /\ Thinking(breached) \in Tokens \ Content
BY DEF Thinking, Tokens, Content

(* What is shown after a delta: its tokens come one by one.                  *)
LEMMA ShownAfter ==
  ASSUME NEW s \in Seq(Tokens), NEW i \in Indices, NEW d \in Deltas, WellFormed(s),
         DisplayReasoning => (i \in open <=> Opened(s)),
         ~DisplayReasoning => ~Opened(s)
  PROVE  LET t == s \o Rewritten(i, d) IN
         /\ t \in Seq(Tokens) /\ WellFormed(t)
         /\ DisplayReasoning => (i \in OpenAfter(i, d) <=> Opened(t))
         /\ ~DisplayReasoning => ~Opened(t)
<1>0. /\ d.content \in Seq(Content) /\ Reasons(d) \in BOOLEAN
  BY DeltaTyped
<1>1. CASE ~DisplayReasoning
  BY <1>0, <1>1, AppendContent DEF Rewritten
<1>2. CASE DisplayReasoning
  <2> DEFINE a == Token(Reasons(d) /\ i \notin open, "start")
             b == Token(Reasons(d), Thinking(d.reasoning = "breach"))
             e == Token(Closes(i, d), "end")
  <2>1. /\ s \o a \in Seq(Tokens) /\ WellFormed(s \o a)
        /\ Opened(s \o a) <=> IsOpen(i, d)
    BY <1>0, <1>2, AppendIf DEF IsOpen, Tokens
  <2>2. /\ (s \o a) \o b \in Seq(Tokens) /\ WellFormed((s \o a) \o b)
        /\ Opened((s \o a) \o b) <=> IsOpen(i, d)
    BY <1>0, <2>1, ThinkingTyped, AppendIf DEF IsOpen
  <2>3. Closes(i, d) \in BOOLEAN /\ (Closes(i, d) => IsOpen(i, d))
    BY DEF Closes
  <2>4. /\ ((s \o a) \o b) \o e \in Seq(Tokens) /\ WellFormed(((s \o a) \o b) \o e)
        /\ Opened(((s \o a) \o b) \o e) <=> IsOpen(i, d) /\ ~Closes(i, d)
    <3> DEFINE u == (s \o a) \o b
    <3>1. u \in Seq(Tokens) /\ WellFormed(u) /\ (Opened(u) <=> IsOpen(i, d))
      BY <2>2
    <3> HIDE DEF u
    <3>2. /\ u \o e \in Seq(Tokens) /\ WellFormed(u \o e)
          /\ Opened(u \o e) <=> IsOpen(i, d) /\ ~Closes(i, d)
      <4>1. "end" \in Tokens /\ "end" \notin Content \cup {"start"}
        BY DEF Tokens, Content
      <4>. QED
        BY <2>3, <3>1, <4>1, AppendIf
    <3>. QED
      BY <3>2 DEF u
  <2>5. d.content # <<>> => ~(IsOpen(i, d) /\ ~Closes(i, d))
    BY DEF Closes
  <2>6. /\ (((s \o a) \o b) \o e) \o d.content \in Seq(Tokens)
        /\ WellFormed((((s \o a) \o b) \o e) \o d.content)
        /\ Opened((((s \o a) \o b) \o e) \o d.content) <=> IsOpen(i, d) /\ ~Closes(i, d)
    <3> DEFINE u == ((s \o a) \o b) \o e
    <3>1. u \in Seq(Tokens) /\ WellFormed(u) /\ (Opened(u) <=> IsOpen(i, d) /\ ~Closes(i, d))
      BY <2>4
    <3> HIDE DEF u
    <3>2. /\ u \o d.content \in Seq(Tokens) /\ WellFormed(u \o d.content)
          /\ Opened(u \o d.content) <=> IsOpen(i, d) /\ ~Closes(i, d)
      BY <1>0, <2>5, <3>1, AppendContent
    <3>. QED
      BY <3>2 DEF u
  <2>7. s \o Rewritten(i, d) = (((s \o a) \o b) \o e) \o d.content
    <3>1. a \in Seq(Tokens) /\ b \in Seq(Tokens) /\ e \in Seq(Tokens) /\ d.content \in Seq(Tokens)
      <4>1. d.content \in Seq(Tokens)
        BY <1>0, SeqMonotonic DEF Content, Tokens
      <4>. QED
        BY <1>0, <2>3, <4>1, ThinkingTyped, TokenTyped DEF Tokens
    <3>2. Rewritten(i, d) = a \o b \o e \o d.content
      BY <1>2 DEF Rewritten, Mirrored
    <3> HIDE DEF a, b, e
    <3>3. Joined(s, Joined(Joined(Joined(a, b), e), d.content))
            = Joined(Joined(Joined(Joined(s, a), b), e), d.content)
      BY <3>1, OneByOne
    <3>. QED
      BY <3>2, <3>3 DEF Joined
  <2>8. i \in OpenAfter(i, d) <=> IsOpen(i, d) /\ ~Closes(i, d)
    BY <1>2, <2>3 DEF OpenAfter, IsOpen
  <2>. QED
    BY <1>2, <2>6, <2>7, <2>8
<1>. QED
  BY <1>1, <1>2

-----------------------------------------------------------------------------
(* The inductive invariant *)

(* The adapter's open choices are those whose block the client has seen open. *)
BlocksFollowOpen ==
  /\ \A i \in Indices : WellFormed(shown[i])
  /\ ~DisplayReasoning => open = {}
  /\ pc = "reading" => \A i \in Indices : Opened(shown[i]) <=> DisplayReasoning /\ i \in open
  /\ finalized => pc \notin {"reading", "regular"} /\ \A i \in Indices : ~Opened(shown[i])

Begins(p, c) == \E n \in 0..Len(c) : p = SubSeq(c, 1, n)

Streaming == pc \in {"reading", "cleanup"}

(* What the rank of a choice in a context says about the buffer.             *)
RankTrue(i, x) ==
  /\ choices[i].reasoning # 0 => StageRank(choices[i]) <= stored[<<i, x>>]
  /\ stored[<<i, x>>] = 2 => choices[i].finished

RanksTrue == Streaming => \A i \in Indices, x \in Contexts : RankTrue(i, x)

(* A choice that ended with its finish reason, and that no other resembles,  *)
(* is in the buffer as a whole.                                              *)
FinishedBuffered ==
  Streaming =>
    \A i \in Indices, x \in Contexts :
      choices[i].finished /\ i \notin late /\ choices[i].reasoning # 0 /\ Apart(i) =>
        Row(x, i, choices[i]) \in buffer

NothingCommitted ==
  /\ pc \in {"reading", "regular", "cleanup"} => rows = {}
  /\ pc = "regular" => chunks = 0
  /\ Streaming /\ chunks = 0 => \A i \in Indices : choices[i].reasoning = 0

IInv ==
  /\ TypeOK /\ BlocksFollowOpen /\ RanksTrue /\ FinishedBuffered
  /\ NothingCommitted /\ FinalWordStored

-----------------------------------------------------------------------------
(* Beginnings of a content *)

LEMMA BeginsWithItself ==
  ASSUME NEW c \in Seq(Content) PROVE Begins(c, c)
<1>1. Len(c) \in 0..Len(c) /\ c = SubSeq(c, 1, Len(c))
  BY SubSeqFull, LenProperties
<1>. QED
  BY <1>1, Zenon DEF Begins

LEMMA BeginningStays ==
  ASSUME NEW p, NEW c \in Seq(Content), NEW d \in Seq(Content), Begins(p, c)
  PROVE  Begins(p, c \o d)
<1>1. PICK n \in 0..Len(c) : p = SubSeq(c, 1, n)
  BY DEF Begins
<1>2. /\ c \o d \in Seq(Content) /\ Len(c \o d) = Len(c) + Len(d)
      /\ Len(c) \in Nat /\ Len(d) \in Nat
      /\ \A k \in 1..Len(c) : (c \o d)[k] = c[k]
  BY ConcatProperties, LenProperties
<1>3. SubSeq(c \o d, 1, n) = SubSeq(c, 1, n)
  <2> DEFINE cd == c \o d
  <2>1. n \in 0..Len(c) /\ n \in 0..Len(cd) /\ \A k \in 1..n : cd[k] = c[k]
    BY <1>2
  <2> HIDE DEF cd
  <2>2. SubSeq(cd, 1, n) = SubSeq(c, 1, n)
    BY <2>1
  <2>. QED
    BY <2>2 DEF cd
<1>. QED
  BY <1>1, <1>2, <1>3 DEF Begins

-----------------------------------------------------------------------------
(* What is stored *)

(* A row stays in the buffer unless one with its key replaces it.            *)
LEMMA PutKeeps ==
  ASSUME NEW table, NEW new, NEW r \in table,
         \A q \in new : ~SameKey(r, q)
  PROVE  r \in Put(table, new)
BY DEF Put

LEMMA PutAdds ==
  ASSUME NEW table, NEW new
  PROVE  /\ \A q \in new : q \in Put(table, new)
         /\ \A r \in Put(table, new) : r \in table \/ r \in new
BY DEF Put

LEMMA StoredAfter ==
  ASSUME TypeOK, NEW i \in Indices, NEW choice \in Choice, StoreReady(i, choice)
  PROVE  \A j \in Indices, x \in Contexts :
           stored'[<<j, x>>] = IF j = i /\ x \in Ready(i, choice) THEN StageRank(choice) ELSE stored[<<j, x>>]
<1> SUFFICES ASSUME NEW j \in Indices, NEW x \in Contexts
             PROVE  stored'[<<j, x>>] = IF j = i /\ x \in Ready(i, choice)
                                    THEN StageRank(choice) ELSE stored[<<j, x>>]
  OBVIOUS
<1>1. <<j, x>> \in DOMAIN stored
  BY DEF TypeOK
<1>. QED
  BY <1>1 DEF StoreReady

-----------------------------------------------------------------------------
(* The invariant holds at the start *)

LEMMA InitInv == Init => IInv
<1> SUFFICES ASSUME Init PROVE IInv
  OBVIOUS
<1>1. /\ pc \in {"reading", "regular"} /\ choices = [i \in Indices |-> NewChoice]
      /\ shown = [i \in Indices |-> <<>>] /\ open = {} /\ buffer = {} /\ rows = {} /\ late = {}
      /\ finalized = FALSE /\ cancelled = FALSE /\ chunks = 0
      /\ stored = [e \in Indices \X Contexts |-> 0]
  BY DEF Init
<1>2. NewChoice \in Choice
  <2>1. <<>> \in Seq(Content) /\ <<>> \in Seq(BOOLEAN)
    BY EmptySeq
  <2>. QED
    BY <2>1 DEF NewChoice, Choice
<1>3. stored \in [Indices \X Contexts -> 0..2]
  <2>1. 0 \in 0..2
    OBVIOUS
  <2>. QED
    BY <1>1, <2>1, Zenon
<1>3a. \A i \in Indices, x \in Contexts : stored[<<i, x>>] = 0
  <2>1. \A i \in Indices, x \in Contexts : <<i, x>> \in Indices \X Contexts
    OBVIOUS
  <2>. QED
    BY <1>1, <2>1, Zenon
<1>4. TypeOK
  <2>1. <<>> \in Seq(Tokens)
    BY EmptySeq
  <2>2. shown \in [Indices -> Seq(Tokens)]
    BY <1>1, <2>1, Zenon
  <2>3. choices \in [Indices -> Choice]
    BY <1>1, <1>2, Zenon
  <2>4. \A r \in buffer \cup rows : IsRow(r)
    BY <1>1
  <2>5. 0 \in 0..MaxChunks
    BY BoundsAssumption
  <2>. QED
    BY <1>1, <1>3, <2>2, <2>3, <2>4, <2>5 DEF TypeOK, Tokens
<1>5. \A i \in Indices : WellFormed(shown[i]) /\ ~Opened(shown[i])
  <2>1. WellFormed(<<>>) /\ ~Opened(<<>>)
    BY DEF WellFormed, Opened, InBlock
  <2>. QED
    BY <1>1, <2>1
<1>6. BlocksFollowOpen
  BY <1>1, <1>5 DEF BlocksFollowOpen
<1>7. \A i \in Indices : choices[i].reasoning = 0
  BY <1>1 DEF NewChoice
<1>8. RanksTrue
  <2>1. ASSUME NEW i \in Indices, NEW x \in Contexts
        PROVE  stored[<<i, x>>] = 0 /\ choices[i].reasoning = 0
    BY <1>3a, <1>7
  <2>2. ASSUME NEW i \in Indices, NEW x \in Contexts PROVE RankTrue(i, x)
    <3>1. stored[<<i, x>>] = 0 /\ choices[i].reasoning = 0
      BY <2>1
    <3>. QED
      BY <3>1 DEF RankTrue
  <2>. QED
    BY <2>2 DEF RanksTrue
<1>9. FinishedBuffered /\ NothingCommitted
  BY <1>1, <1>7 DEF FinishedBuffered, NothingCommitted
<1>10. FinalWordStored
  BY <1>1 DEF FinalWordStored
<1>. QED
  BY <1>4, <1>6, <1>8, <1>9, <1>10 DEF IInv

-----------------------------------------------------------------------------
(* A chunk *)

(* A choice apart from the others has a content no other's begins with.      *)
LEMMA ApartMeans ==
  ASSUME NEW i \in Indices
  PROVE  Apart(i) <=> \A j \in Indices \ {i} : choices[j].reasoning # 0 =>
                        ~Begins(choices[i].content, choices[j].content)
BY DEF Apart, Begins

LEMMA ChunkTypes ==
  ASSUME IInv, NEW i \in Indices, NEW d \in Deltas, Chunk(i, d)
  PROVE  /\ pc = "reading" /\ ~finalized
         /\ late' = IF choices[i].finished THEN late \cup {i} ELSE late
         /\ choices[i] \in Choice /\ Ingest(choices[i], d) \in Choice
         /\ choices' = [choices EXCEPT ![i] = Ingest(choices[i], d)]
         /\ StoreReady(i, Ingest(choices[i], d))
         /\ TypeOK' /\ BlocksFollowOpen'
<1> DEFINE c == Ingest(choices[i], d)
<1>0. TypeOK /\ BlocksFollowOpen
  BY DEF IInv
<1>1. /\ pc = "reading" /\ chunks < MaxChunks /\ chunks' = chunks + 1
      /\ late' = IF choices[i].finished THEN late \cup {i} ELSE late
      /\ StoreReady(i, c) /\ choices' = [choices EXCEPT ![i] = c]
      /\ buffer' = Put(buffer, {Row(x, i, c) : x \in Ready(i, c)})
      /\ open' = OpenAfter(i, d) /\ UNCHANGED <<rows, finalized, cancelled>>
      /\ \/ shown' = [shown EXCEPT ![i] = @ \o Rewritten(i, d)] /\ pc' = "reading"
         \/ pc' = "cleanup" /\ UNCHANGED shown
  BY DEF Chunk, StoreReady
<1>2. choices[i] \in Choice /\ c \in Choice /\ finalized = FALSE
  <2>1. choices[i] \in Choice /\ finalized = FALSE
    BY <1>0, <1>1 DEF TypeOK, BlocksFollowOpen
  <2>. QED
    BY <2>1, IngestTyped
<1> HIDE DEF c
<1>3. LET s == shown[i] IN
        /\ s \o Rewritten(i, d) \in Seq(Tokens) /\ WellFormed(s \o Rewritten(i, d))
        /\ DisplayReasoning => (i \in OpenAfter(i, d) <=> Opened(s \o Rewritten(i, d)))
        /\ ~DisplayReasoning => ~Opened(s \o Rewritten(i, d))
  <2>1. shown[i] \in Seq(Tokens)
    BY <1>0 DEF TypeOK, Tokens
  <2>2. /\ WellFormed(shown[i]) /\ (DisplayReasoning => (i \in open <=> Opened(shown[i])))
        /\ ~DisplayReasoning => ~Opened(shown[i])
    BY <1>0, <1>1 DEF BlocksFollowOpen
  <2>. QED
    BY <2>1, <2>2, ShownAfter
<1>4. \A j \in Indices \ {i} : j \in OpenAfter(i, d) <=> j \in open
  BY DEF OpenAfter
<1>5. OpenAfter(i, d) \subseteq Indices /\ (~DisplayReasoning => OpenAfter(i, d) = {})
  BY <1>0 DEF OpenAfter, TypeOK, BlocksFollowOpen
<1>6. TypeOK'
  <2>1. choices' \in [Indices -> Choice]
    BY <1>0, <1>1, <1>2 DEF TypeOK
  <2>2. stored' \in [Indices \X Contexts -> 0..2]
    <3>1. stored' = [e \in DOMAIN stored |->
                       IF e[1] = i /\ e[2] \in Ready(i, c) THEN StageRank(c) ELSE stored[e]]
      BY <1>1 DEF StoreReady
    <3>2. DOMAIN stored = Indices \X Contexts /\ \A e \in DOMAIN stored : stored[e] \in 0..2
      BY <1>0 DEF TypeOK
    <3>3. StageRank(c) \in 0..2
      BY RankTyped
    <3>. QED
      BY <3>1, <3>2, <3>3
  <2>3. shown' \in [Indices -> Seq(Tokens)]
    BY <1>0, <1>1, <1>3 DEF TypeOK, Tokens
  <2>4. ASSUME NEW r \in buffer' \cup rows' PROVE IsRow(r)
    <3>1. \A q \in {Row(x, i, c) : x \in Ready(i, c)} : IsRow(q)
      BY <1>2, RowTyped DEF Ready
    <3>2. r \in buffer \/ r \in rows \/ r \in {Row(x, i, c) : x \in Ready(i, c)}
      BY <1>1, <2>4, PutAdds
    <3>. QED
      BY <1>0, <3>1, <3>2 DEF TypeOK
  <2>5. \A r \in (buffer \cup rows)' : IsRow(r)'
    BY <2>4 DEF IsRow
  <2>6. chunks' \in 0..MaxChunks
    BY <1>0, <1>1, BoundsAssumption DEF TypeOK
  <2>. QED
    BY <1>0, <1>1, <1>5, <2>1, <2>2, <2>3, <2>5, <2>6 DEF TypeOK, Tokens
<1>7. BlocksFollowOpen'
  <2>1. CASE shown' = [shown EXCEPT ![i] = @ \o Rewritten(i, d)] /\ pc' = "reading"
    <3>1. shown'[i] = shown[i] \o Rewritten(i, d) /\ \A j \in Indices \ {i} : shown'[j] = shown[j]
      BY <1>0, <2>1 DEF TypeOK
    <3>2. /\ WellFormed(shown'[i])
          /\ Opened(shown'[i]) <=> DisplayReasoning /\ i \in OpenAfter(i, d)
      BY <1>3, <3>1
    <3>3. ASSUME NEW j \in Indices
          PROVE  /\ WellFormed(shown'[j])
                 /\ Opened(shown'[j]) <=> DisplayReasoning /\ j \in OpenAfter(i, d)
      BY <1>0, <1>1, <1>4, <3>1, <3>2 DEF BlocksFollowOpen
    <3>. QED
      BY <1>1, <1>2, <1>5, <2>1, <3>3 DEF BlocksFollowOpen
  <2>2. CASE pc' = "cleanup" /\ UNCHANGED shown
    BY <1>0, <1>1, <1>2, <1>5, <2>2 DEF BlocksFollowOpen
  <2>. QED
    BY <1>1, <2>1, <2>2
<1>. QED
  BY <1>1, <1>2, <1>6, <1>7 DEF c

LEMMA ChunkRanks ==
  ASSUME IInv, NEW i \in Indices, NEW d \in Deltas, Chunk(i, d)
  PROVE  RanksTrue'
<1> DEFINE c == Ingest(choices[i], d)
           New == {Row(x, i, c) : x \in Ready(i, c)}
<1>1. /\ pc = "reading" /\ TypeOK
      /\ late' = IF choices[i].finished THEN late \cup {i} ELSE late
      /\ choices[i] \in Choice /\ c \in Choice
      /\ choices' = [choices EXCEPT ![i] = c] /\ StoreReady(i, c)
  BY ChunkTypes DEF IInv
<1>2. /\ choices'[i] = c /\ \A j \in Indices \ {i} : choices'[j] = choices[j]
      /\ buffer' = Put(buffer, New)
  BY <1>1 DEF TypeOK, StoreReady
<1>3. choices[i].finished => c.finished
  BY DEF Ingest
<1> HIDE DEF c, New
<1>4. \A j \in Indices, x \in Contexts :
        stored'[<<j, x>>] = IF j = i /\ x \in Ready(i, c) THEN StageRank(c) ELSE stored[<<j, x>>]
  BY <1>1, StoredAfter
<1>5. \A j \in Indices, x \in Contexts : RankTrue(j, x) /\ stored[<<j, x>>] \in 0..2
  BY <1>1 DEF IInv, RanksTrue, Streaming, TypeOK
<1> SUFFICES ASSUME NEW j \in Indices, NEW x \in Contexts
             PROVE  RankTrue(j, x)'
  BY DEF RanksTrue
<1>7. CASE j # i
  <2>1. choices'[j] = choices[j] /\ stored'[<<j, x>>] = stored[<<j, x>>]
    BY <1>2, <1>4, <1>7
  <2>. QED
    BY <1>5, <2>1 DEF RankTrue
<1>8. CASE j = i /\ x \in Ready(i, c)
  <2>1. stored'[<<j, x>>] = StageRank(c) /\ choices'[j] = c
    BY <1>2, <1>4, <1>8
  <2>2. StageRank(c) = 2 => c.finished
    BY DEF StageRank
  <2>3. StageRank(c) <= StageRank(c)
    BY RankTyped
  <2>. QED
    BY <2>1, <2>2, <2>3 DEF RankTrue
<1>9. CASE j = i /\ x \notin Ready(i, c)
  <2>1. stored'[<<j, x>>] = stored[<<i, x>>] /\ choices'[j] = c
    BY <1>2, <1>4, <1>9
  <2>2. c.reasoning # 0 => StageRank(c) <= stored[<<i, x>>]
    <3>1. StageRank(c) \in 0..2 /\ stored[<<i, x>>] \in 0..2
      BY <1>5, RankTyped
    <3>. QED
      BY <1>9, <3>1 DEF Ready
  <2>3. stored[<<i, x>>] = 2 => c.finished
    BY <1>3, <1>5 DEF RankTrue
  <2>. QED
    BY <2>1, <2>2, <2>3 DEF RankTrue
<1>. QED
  BY <1>7, <1>8, <1>9

LEMMA ChunkFinishes ==
  ASSUME IInv, NEW i \in Indices, NEW d \in Deltas, Chunk(i, d)
  PROVE  FinishedBuffered'
<1> DEFINE c == Ingest(choices[i], d)
           New == {Row(x, i, c) : x \in Ready(i, c)}
<1>1. /\ pc = "reading" /\ TypeOK
      /\ late' = IF choices[i].finished THEN late \cup {i} ELSE late
      /\ choices[i] \in Choice /\ c \in Choice
      /\ choices' = [choices EXCEPT ![i] = c] /\ StoreReady(i, c)
  BY ChunkTypes DEF IInv
<1>2. /\ choices'[i] = c /\ \A j \in Indices \ {i} : choices'[j] = choices[j]
      /\ buffer' = Put(buffer, New)
  BY <1>1 DEF TypeOK, StoreReady
<1>3. /\ c.content = choices[i].content \o d.content
      /\ choices[i].reasoning # 0 => c.reasoning # 0
  <2>1. choices[i].reasoning \in Nat
    BY <1>1 DEF Choice
  <2>2. /\ c.content = choices[i].content \o d.content
        /\ c.reasoning = choices[i].reasoning + (IF Reasons(d) THEN 1 ELSE 0)
    BY DEF Ingest
  <2>. QED
    BY <2>1, <2>2
<1> HIDE DEF c, New
<1> SUFFICES ASSUME NEW j \in Indices, NEW x \in Contexts, Streaming', Apart(j)',
                    choices'[j].finished, j \notin late', choices'[j].reasoning # 0
             PROVE  Row(x, j, choices[j])' \in buffer'
  BY DEF FinishedBuffered
<1>4. \A k \in Indices \ {j} : choices'[k].reasoning # 0 =>
        ~Begins(choices'[j].content, choices'[k].content)
  BY DEF Apart, Begins
<1>5. Row(x, j, choices[j])' = Row(x, j, choices'[j])
  BY <1>1 DEF Row, Streaming
<1>6. CASE j = i
  <2>1. stored[<<i, x>>] \in 0..2 /\ stored[<<i, x>>] # 2
    BY <1>1, <1>6 DEF IInv, RanksTrue, RankTrue, Streaming, TypeOK
  <2>2. StageRank(c) = 2
    BY <1>2, <1>6 DEF StageRank
  <2>3. x \in Ready(i, c)
    BY <1>2, <1>6, <2>1, <2>2 DEF Ready
  <2>4. Row(x, i, c) \in New
    BY <2>3 DEF New
  <2>. QED
    BY <1>2, <1>5, <1>6, <2>4, PutAdds
<1>7. CASE j # i
  <2>1. choices'[j] = choices[j]
    BY <1>2, <1>7
  <2>2. Apart(j)
    <3>1. ASSUME NEW k \in Indices \ {j}, choices[k].reasoning # 0,
                 Begins(choices[j].content, choices[k].content)
          PROVE  FALSE
      <4>1. CASE k # i
        BY <1>2, <1>4, <2>1, <3>1, <4>1
      <4>2. CASE k = i
        <5>1. choices[i].content \in Seq(Content) /\ d.content \in Seq(Content)
          BY <1>1, DeltaTyped DEF Choice, Content
        <5>2. Begins(choices[j].content, c.content)
          BY <1>3, <3>1, <4>2, <5>1, BeginningStays
        <5>. QED
          BY <1>2, <1>3, <1>4, <2>1, <3>1, <4>2, <5>2
      <4>. QED
        BY <4>1, <4>2
    <3>. QED
      BY <3>1, ApartMeans
  <2>3. Row(x, j, choices[j]) \in buffer
    <3>1. j \notin late
      BY <1>1
    <3>. QED
      BY <1>1, <2>1, <2>2, <3>1 DEF IInv, FinishedBuffered, Streaming
  <2>4. ASSUME NEW q \in New, SameKey(Row(x, j, choices[j]), q)
        PROVE  FALSE
    <3>1. PICK y \in Ready(i, c) : q = Row(y, i, c)
      BY DEF New
    <3>2. c.reasoning # 0 /\ choices[j].content = c.content
      BY <2>4, <3>1 DEF Ready, Row, SameKey
    <3>3. Begins(c.content, c.content)
      BY <1>1, BeginsWithItself DEF Choice, Content
    <3>. QED
      BY <1>2, <1>4, <1>7, <2>1, <3>2, <3>3
  <2>. QED
    BY <1>2, <1>5, <2>1, <2>3, <2>4, PutKeeps
<1>. QED
  BY <1>6, <1>7

LEMMA ChunkInv ==
  ASSUME IInv, NEW i \in Indices, NEW d \in Deltas, Chunk(i, d)
  PROVE  IInv'
<1>1. pc = "reading" /\ TypeOK' /\ BlocksFollowOpen' /\ RanksTrue' /\ FinishedBuffered'
  BY ChunkTypes, ChunkRanks, ChunkFinishes
<1>2. pc' \in {"reading", "cleanup"} /\ rows' = rows /\ chunks' = chunks + 1
  BY <1>1 DEF Chunk
<1>3. chunks \in Nat /\ rows = {}
  BY <1>1, BoundsAssumption DEF IInv, TypeOK, NothingCommitted
<1>4. NothingCommitted' /\ FinalWordStored'
  BY <1>2, <1>3 DEF NothingCommitted, FinalWordStored
<1>. QED
  BY <1>1, <1>4 DEF IInv

-----------------------------------------------------------------------------
(* The other steps of a stream *)

LEMMA DoneInv == ASSUME IInv, Done PROVE IInv'
<1>1. /\ TypeOK /\ BlocksFollowOpen /\ pc = "reading" /\ finalized = FALSE
      /\ pc' = "cleanup" /\ open' = {}
      /\ UNCHANGED <<choices, stored, buffer, late, rows, cancelled, chunks>>
      /\ \/ shown' = Flushed /\ finalized' = TRUE
         \/ UNCHANGED <<shown, finalized>>
  BY DEF IInv, Done, recording, TypeOK, BlocksFollowOpen
<1>2. ASSUME NEW i \in Indices
      PROVE  /\ Flushed[i] \in Seq(Tokens) /\ WellFormed(Flushed[i]) /\ ~Opened(Flushed[i])
  <2>1. shown[i] \in Seq(Tokens)
    BY <1>1 DEF TypeOK, Tokens
  <2>2. WellFormed(shown[i]) /\ (Opened(shown[i]) <=> i \in open)
    BY <1>1 DEF BlocksFollowOpen
  <2>3. Flushed[i] = shown[i] \o Token(i \in open, "end")
    BY DEF Flushed
  <2>4. (i \in open) \in BOOLEAN /\ "end" \in Tokens /\ "end" \notin Content \cup {"start"}
    BY DEF Tokens, Content
  <2> DEFINE t == shown[i] \o Token(i \in open, "end")
  <2>5. t \in Seq(Tokens) /\ WellFormed(t) /\ ~Opened(t)
    BY <2>1, <2>2, <2>4, AppendIf
  <2> HIDE DEF t
  <2>. QED
    BY <2>3, <2>5 DEF t
<1>3. shown' \in [Indices -> Seq(Tokens)]
  <2>1. Flushed \in [Indices -> Seq(Tokens)]
    <3>1. DOMAIN Flushed = Indices /\ Flushed = [i \in Indices |-> Flushed[i]]
      BY DEF Flushed
    <3>. QED
      BY <1>2, <3>1
  <2>. QED
    BY <1>1, <2>1 DEF TypeOK, Tokens
<1>4. TypeOK'
  BY <1>1, <1>3 DEF TypeOK, Tokens, IsRow
<1>5. BlocksFollowOpen'
  BY <1>1, <1>2 DEF BlocksFollowOpen
<1>6. RanksTrue'
  BY <1>1 DEF IInv, RanksTrue, RankTrue, Streaming
<1>7. FinishedBuffered'
  BY <1>1 DEF IInv, FinishedBuffered, Streaming, Apart, Row
<1>8. NothingCommitted' /\ FinalWordStored'
  BY <1>1 DEF IInv, NothingCommitted, FinalWordStored, Streaming
<1>. QED
  BY <1>4, <1>5, <1>6, <1>7, <1>8 DEF IInv

LEMMA StreamBreaksInv == ASSUME IInv, StreamBreaks PROVE IInv'
<1>1. /\ pc = "reading" /\ pc' = "cleanup"
      /\ UNCHANGED <<choices, stored, buffer, late, open, rows, shown, finalized, cancelled, chunks>>
  BY DEF StreamBreaks, recording
<1>2. TypeOK' /\ BlocksFollowOpen'
  BY <1>1 DEF IInv, TypeOK, IsRow, BlocksFollowOpen
<1>3. RanksTrue'
  BY <1>1 DEF IInv, RanksTrue, RankTrue, Streaming
<1>4. FinishedBuffered'
  BY <1>1 DEF IInv, FinishedBuffered, Streaming, Apart, Row
<1>5. NothingCommitted' /\ FinalWordStored'
  BY <1>1 DEF IInv, NothingCommitted, FinalWordStored, Streaming
<1>. QED
  BY <1>2, <1>3, <1>4, <1>5 DEF IInv

LEMMA DisconnectInv == ASSUME IInv, Disconnect PROVE IInv'
<1>1. /\ pc \in {"reading", "regular", "cleanup"} /\ cancelled' = TRUE
      /\ UNCHANGED <<pc, choices, stored, buffer, late, open, rows, shown, finalized, chunks>>
  BY DEF Disconnect
<1>2. TypeOK' /\ BlocksFollowOpen'
  BY <1>1 DEF IInv, TypeOK, IsRow, BlocksFollowOpen
<1>3. RanksTrue'
  BY <1>1 DEF IInv, RanksTrue, RankTrue, Streaming
<1>4. FinishedBuffered'
  BY <1>1 DEF IInv, FinishedBuffered, Streaming, Apart, Row
<1>5. NothingCommitted' /\ FinalWordStored'
  BY <1>1 DEF IInv, NothingCommitted, FinalWordStored, Streaming
<1>. QED
  BY <1>2, <1>3, <1>4, <1>5 DEF IInv

(* Of the rows with a choice's key only its own is left when it is apart.    *)
LEMMA CleanupInv == ASSUME IInv, CleanupStreamingBatch PROVE IInv'
<1>1. /\ TypeOK /\ BlocksFollowOpen /\ pc = "cleanup" /\ buffer' = {} /\ rows = {}
      /\ UNCHANGED <<choices, stored, open, shown, late, finalized, cancelled, chunks>>
  BY DEF IInv, NothingCommitted, CleanupStreamingBatch
<1>2. PICK final \in (IF finalized THEN {buffer} ELSE StoreReasoning(buffer)) :
        \/ pc' = "failed" /\ rows' = rows
        \/ pc' = "done" /\ rows' = Put(rows, final)
  BY DEF CleanupStreamingBatch
<1>3. \A r \in Unstored : IsRow(r)
  BY <1>1, RowTyped DEF TypeOK, Unstored
<1>4. ~finalized => \E new \in SUBSET Unstored :
         /\ final = Put(buffer, new)
         /\ \A r \in Unstored : \E q \in new : SameKey(r, q)
  BY <1>2 DEF StoreReasoning
<1>5. \A r \in rows' : IsRow(r)
  <2>1. \A r \in final : r \in buffer \/ r \in Unstored
    <3>1. CASE finalized
      BY <1>2, <3>1
    <3>2. CASE ~finalized
      BY <1>4, <3>2, PutAdds
    <3>. QED
      BY <3>1, <3>2
  <2>2. \A r \in rows' : r \in final
    BY <1>1, <1>2, PutAdds
  <2>. QED
    BY <1>1, <1>3, <2>1, <2>2 DEF TypeOK
<1>6. TypeOK' /\ BlocksFollowOpen'
  BY <1>1, <1>2, <1>5 DEF TypeOK, IsRow, BlocksFollowOpen
<1>7. RanksTrue' /\ FinishedBuffered' /\ NothingCommitted'
  BY <1>2 DEF RanksTrue, FinishedBuffered, NothingCommitted, Streaming
<1>8. FinalWordStored'
  <2> SUFFICES ASSUME pc' = "done", NEW i \in Indices, NEW x \in Contexts,
                      finalized => Complete /\ i \notin late,
                      choices[i].reasoning # 0, Apart(i)
               PROVE  Recorded(i, x)'
    BY <1>1 DEF FinalWordStored, Complete, Apart
  <2> DEFINE r == Row(x, i, choices[i])
  <2>1. r = [context |-> x, content |-> choices[i].content, calls |-> <<>>,
             reasoning |-> <<i, choices[i].reasoning>>]
    BY <1>1 DEF Row
  <2>2. chunks # 0
    BY <1>1 DEF IInv, NothingCommitted, Streaming
  <2>3. r \in final
    <3>1. CASE finalized
      <4>1. choices[i].finished
        BY <3>1 DEF Complete, NewChoice
      <4>. QED
        BY <1>1, <1>2, <3>1, <4>1 DEF IInv, FinishedBuffered, Streaming
    <3>2. CASE ~finalized
      <4>1. PICK new \in SUBSET Unstored :
              /\ final = Put(buffer, new)
              /\ \A p \in Unstored : \E q \in new : SameKey(p, q)
        BY <1>4, <3>2
      <4>2. r \in Unstored
        BY DEF Unstored
      <4>3. PICK q \in new : SameKey(r, q)
        BY <4>1, <4>2
      <4>4. PICK y \in Contexts, j \in Indices : choices[j].reasoning # 0 /\ q = Row(y, j, choices[j])
        BY <4>1, <4>3 DEF Unstored
      <4>5. y = x /\ choices[j].content = choices[i].content
        BY <4>3, <4>4 DEF SameKey, Row
      <4>6. Begins(choices[i].content, choices[j].content)
        BY <1>1, <4>5, BeginsWithItself DEF TypeOK, Choice, Content
      <4>7. j = i
        BY <4>4, <4>6, ApartMeans
      <4>. QED
        BY <4>1, <4>3, <4>4, <4>5, <4>7, PutAdds
    <3>. QED
      BY <3>1, <3>2
  <2>4. r \in rows'
    BY <1>1, <1>2, <2>3, PutAdds
  <2> HIDE DEF r
  <2>. QED
    BY <1>1, <2>1, <2>2, <2>4 DEF Recorded, SameKey
<1>. QED
  BY <1>6, <1>7, <1>8 DEF IInv

-----------------------------------------------------------------------------
(* A regular response *)

LEMMA FoldedWellFormed ==
  ASSUME NEW message \in Choice
  PROVE  Folded(message) \in Seq(Tokens) /\ WellFormed(Folded(message))
<1>1. message.content \in Seq(Content)
  BY DEF Choice, Content
<1> DEFINE th == Thinking(message.breached)
           b == <<"start", th, "end">>
<1>1a. th \in {"thought", "breach"} /\ th \in Tokens
  BY ThinkingTyped
<1> HIDE DEF th
<1>2. b \in Seq(Tokens) /\ WellFormed(b) /\ ~Opened(b)
  <2>1. b \in Seq(Tokens) /\ Len(b) = 3 /\ DOMAIN b = 1..3
        /\ b[1] = "start" /\ b[2] \in {"thought", "breach"} /\ b[3] = "end"
    BY <1>1a DEF Tokens
  <2> HIDE DEF b
  <2>2. InBlock(b, 1) /\ InBlock(b, 2) /\ ~InBlock(b, 0) /\ ~InBlock(b, 3)
    BY <2>1 DEF InBlock
  <2>3. ASSUME NEW n \in 1..3
        PROVE  /\ b[n] \in {"thought", "breach", "end"} => InBlock(b, n - 1)
               /\ b[n] \in Content \cup {"start"} => ~InBlock(b, n - 1)
    <3>1. n = 1 \/ n = 2 \/ n = 3
      OBVIOUS
    <3>. QED
      BY <2>1, <2>2, <3>1 DEF Content
  <2>. QED
    BY <2>1, <2>2, <2>3 DEF WellFormed, Opened
<1>3. CASE DisplayReasoning /\ message.reasoning # 0
  <2> HIDE DEF b
  <2> DEFINE t == b \o message.content
  <2>1. t \in Seq(Tokens) /\ WellFormed(t)
    BY <1>1, <1>2, AppendContent
  <2> HIDE DEF t
  <2>2. Folded(message) = t
    BY <1>3 DEF Folded, t, b, th
  <2>. QED
    BY <2>1, <2>2
<1>4. CASE ~(DisplayReasoning /\ message.reasoning # 0)
  <2>1. <<>> \in Seq(Tokens) /\ WellFormed(<<>>) /\ ~Opened(<<>>)
    BY DEF WellFormed, Opened, InBlock
  <2> DEFINE t == <<>> \o message.content
  <2>2. t \in Seq(Tokens) /\ WellFormed(t)
    BY <1>1, <2>1, AppendContent
  <2>3. t = message.content
    BY <1>1, ConcatEmptySeq
  <2>. QED
    BY <1>4, <2>2, <2>3 DEF Folded
<1>. QED
  BY <1>3, <1>4

LEMMA RegularAnswerInv == ASSUME IInv, RegularAnswer PROVE IInv'
<1>1. /\ TypeOK /\ BlocksFollowOpen /\ pc = "regular" /\ rows = {} /\ chunks = 0
      /\ finalized = FALSE
      /\ UNCHANGED <<stored, open, buffer, late, finalized, cancelled, chunks>>
  BY DEF IInv, NothingCommitted, RegularAnswer, BlocksFollowOpen, TypeOK
<1>2. PICK answer \in [Indices -> Messages] :
        /\ choices' = answer
        /\ \/ pc' = "failed" /\ rows' = rows
           \/ pc' = "done" /\ rows' = Put(rows, AnswerRows(answer))
        /\ \/ shown' = [i \in Indices |-> Folded(answer[i])]
           \/ shown' = shown
  BY DEF RegularAnswer
<1>3. \A i \in Indices : answer[i] \in Choice
  BY MessagesAssumption
<1>4. \A r \in rows' : IsRow(r)
  <2>1. ASSUME NEW r \in AnswerRows(answer) PROVE IsRow(r)
    <3>1. PICK x \in Contexts, i \in Indices : r = Row(x, i, answer[i]) /\ answer[i].reasoning # 0
      BY DEF AnswerRows
    <3>. QED
      BY <1>3, <3>1, RowTyped
  <2>. QED
    BY <1>1, <1>2, <2>1, PutAdds
<1>5. \A i \in Indices : shown'[i] \in Seq(Tokens) /\ WellFormed(shown'[i])
  <2>1. \A i \in Indices : shown[i] \in Seq(Tokens) /\ WellFormed(shown[i])
    BY <1>1 DEF TypeOK, BlocksFollowOpen, Tokens
  <2>2. \A i \in Indices : Folded(answer[i]) \in Seq(Tokens) /\ WellFormed(Folded(answer[i]))
    BY <1>3, FoldedWellFormed
  <2>. QED
    BY <1>2, <2>1, <2>2
<1>6. TypeOK'
  <2>1. shown' \in [Indices -> Seq(Tokens)]
    <3>1. shown' = [i \in Indices |-> shown'[i]]
      BY <1>1, <1>2 DEF TypeOK
    <3>. QED
      BY <1>5, <3>1
  <2>2. choices' \in [Indices -> Choice]
    BY <1>2, <1>3
  <2>. QED
    BY <1>1, <1>2, <1>4, <2>1, <2>2 DEF TypeOK, IsRow, Tokens
<1>7. BlocksFollowOpen'
  BY <1>1, <1>2, <1>5 DEF BlocksFollowOpen
<1>8. RanksTrue' /\ FinishedBuffered' /\ NothingCommitted'
  BY <1>2 DEF RanksTrue, FinishedBuffered, NothingCommitted, Streaming
<1>9. FinalWordStored'
  <2> SUFFICES ASSUME pc' = "done", NEW i \in Indices, NEW x \in Contexts,
                      choices'[i].reasoning # 0, Apart(i)'
               PROVE  Recorded(i, x)'
    BY DEF FinalWordStored
  <2> DEFINE r == Row(x, i, answer[i])
  <2>1. r = [context |-> x, content |-> answer[i].content, calls |-> answer[i].calls,
             reasoning |-> <<i, answer[i].reasoning>>]
    BY <1>1 DEF Row
  <2>2. ASSUME NEW j \in Indices, j > i, answer[j].reasoning # 0,
               SameKey(Row(x, j, answer[j]), Row(x, i, answer[i]))
        PROVE  FALSE
    <3>1. answer[j].content = answer[i].content
      BY <2>2 DEF SameKey, Row
    <3>2. Begins(answer[i].content, answer[j].content)
      BY <1>3, <3>1, BeginsWithItself DEF Choice, Content
    <3>3. j # i
      BY <2>2, IndicesAssumption
    <3>. QED
      BY <1>2, <2>2, <3>2, <3>3 DEF Apart, Begins
  <2>3. r \in AnswerRows(answer)
    <3>1. <<x, i>> \in Contexts \X Indices
      OBVIOUS
    <3>. QED
      BY <1>2, <2>2, <3>1 DEF AnswerRows
  <2>4. r \in rows'
    BY <1>1, <1>2, <2>3, PutAdds
  <2> HIDE DEF r
  <2>. QED
    BY <1>1, <1>2, <2>1, <2>4 DEF Recorded, SameKey
<1>. QED
  BY <1>6, <1>7, <1>8, <1>9 DEF IInv

LEMMA RegularReadFailsInv == ASSUME IInv, RegularReadFails PROVE IInv'
<1>1. /\ pc = "regular" /\ pc' = "failed"
      /\ UNCHANGED <<choices, stored, buffer, late, open, rows, shown, finalized, cancelled, chunks>>
  BY DEF RegularReadFails, recording
<1>2. TypeOK' /\ BlocksFollowOpen'
  BY <1>1 DEF IInv, TypeOK, IsRow, BlocksFollowOpen
<1>3. RanksTrue' /\ FinishedBuffered' /\ NothingCommitted' /\ FinalWordStored'
  BY <1>1 DEF RanksTrue, FinishedBuffered, NothingCommitted, FinalWordStored, Streaming
<1>. QED
  BY <1>2, <1>3 DEF IInv

-----------------------------------------------------------------------------
(* The theorems *)

LEMMA StepInv == IInv /\ [Next]_vars => IInv'
<1> SUFFICES ASSUME IInv, [Next]_vars PROVE IInv'
  OBVIOUS
<1>1. ASSUME NEW i \in Indices, NEW d \in Deltas, Chunk(i, d) PROVE IInv'
  BY <1>1, ChunkInv
<1>2. CASE Done
  BY <1>2, DoneInv
<1>3. CASE StreamBreaks
  BY <1>3, StreamBreaksInv
<1>4. CASE CleanupStreamingBatch
  BY <1>4, CleanupInv
<1>5. CASE RegularAnswer
  BY <1>5, RegularAnswerInv
<1>6. CASE RegularReadFails
  BY <1>6, RegularReadFailsInv
<1>7. CASE Disconnect
  BY <1>7, DisconnectInv
<1>8. CASE UNCHANGED vars
  <2>1. TypeOK' /\ BlocksFollowOpen'
    BY <1>8 DEF vars, IInv, TypeOK, IsRow, BlocksFollowOpen
  <2>2. RanksTrue'
    BY <1>8 DEF vars, IInv, RanksTrue, RankTrue, Streaming
  <2>3. FinishedBuffered'
    BY <1>8 DEF vars, IInv, FinishedBuffered, Streaming, Apart, Row
  <2>4. NothingCommitted'
    BY <1>8 DEF vars, IInv, NothingCommitted, Streaming
  <2>5. FinalWordStored'
    BY <1>8 DEF vars, IInv, FinalWordStored, Complete, Apart, Recorded, SameKey
  <2>. QED
    BY <2>1, <2>2, <2>3, <2>4, <2>5 DEF IInv
<1>. QED
  BY <1>1, <1>2, <1>3, <1>4, <1>5, <1>6, <1>7, <1>8 DEF Next

THEOREM InductiveInvariant == Spec => []IInv
<1>1. IInv /\ [Next]_vars => IInv'
  BY StepInv
<1>. QED
  BY InitInv, <1>1, PTL DEF Spec

(* Every variable of the relay keeps its type, and every row that is put     *)
(* into the batch or committed has a context, a content and some reasoning   *)
(* (streaming.go:185-199 skips choices without any).                         *)
THEOREM RelayTypeCorrect == Spec => []TypeOK
<1>1. IInv => TypeOK
  BY DEF IInv
<1>. QED
  BY InductiveInvariant, <1>1, PTL

(* For any deltas of any choices in any order, and a stream that breaks or   *)
(* a client that goes away at any of them: no thought outside a block, no    *)
(* content inside one, no block open behind [DONE] (streaming.go:301-427).   *)
THEOREM BlocksAreWellFormed == Spec => []BlocksWellFormed
<1>1. IInv => BlocksWellFormed
  BY DEF IInv, BlocksFollowOpen, BlocksWellFormed, Opened
<1>. QED
  BY InductiveInvariant, <1>1, PTL

(* What a committed response leaves in the store is, for every choice that   *)
(* no other resembled, the whole reasoning under the whole content, however  *)
(* much of it was stored early and whether [DONE] came or the stream broke;  *)
(* when [DONE] came, of a choice without a delta behind its finish reason    *)
(* (server.go:823-862).                                                      *)
THEOREM FinalWordIsStored == Spec => []FinalWordStored
<1>1. IInv => FinalWordStored
  BY DEF IInv
<1>. QED
  BY InductiveInvariant, <1>1, PTL

-----------------------------------------------------------------------------
(* What the client makes of it *)

(* Induction over the numbers, for a set of them.                            *)
LEMMA AllNumbers ==
  ASSUME NEW G, 0 \in G, \A n \in Nat : n \in G => n + 1 \in G
  PROVE  \A n \in Nat : n \in G
<1> DEFINE Rest == {n \in Nat : n \notin G}
<1> SUFFICES ASSUME Rest # {} PROVE FALSE
  OBVIOUS
<1>1. \E m \in Rest : \A y \in Rest : <<y, m>> \notin OpToRel(<, Nat)
  BY NatLessThanWellFounded, WFMin
<1>2. PICK m \in Rest : \A y \in Rest : ~(y < m)
  BY <1>1 DEF OpToRel
<1>3. m \in Nat /\ m \notin G /\ m # 0
  OBVIOUS
<1>4. m - 1 \in Nat /\ m - 1 \notin Rest
  BY <1>2, <1>3
<1>. QED
  BY <1>3, <1>4

(* The places of a text that are content. *)
Contents(s) == {n \in DOMAIN s : s[n] \in Content}

(* t is what s has at the places S, in that order. *)
Reads(s, S, t) ==
  /\ Len(t) = Cardinality(S)
  /\ \A n \in S : Place(S, n) \in 1..Len(t) /\ t[Place(S, n)] = s[n]
  /\ \A k \in 1..Len(t) : \E n \in S : Place(S, n) = k

LEMMA TextIs ==
  ASSUME NEW s \in Seq(Tokens)
  PROVE  /\ Len(s) \in Nat /\ DOMAIN s = 1..Len(s)
         /\ \A n \in 1..Len(s) : s[n] \in Tokens
         /\ IsFiniteSet(Contents(s)) /\ Contents(s) \subseteq 1..Len(s)
         /\ Cardinality(Contents(s)) \in Nat
<1>1. Len(s) \in Nat /\ DOMAIN s = 1..Len(s) /\ \A n \in 1..Len(s) : s[n] \in Tokens
  BY ElementOfSeq
<1>2. Contents(s) \in SUBSET (1..Len(s)) /\ IsFiniteSet(1..Len(s))
  BY <1>1, FS_Interval DEF Contents
<1>. QED
  BY <1>1, <1>2, FS_Subset, FS_CardinalityType

(* A token of a thinking block adds nothing to the content. *)
LEMMA ReadsToken ==
  ASSUME NEW s \in Seq(Tokens), NEW tok \in Tokens \ Content, NEW t,
         Reads(s, Contents(s), t)
  PROVE  Reads(s \o <<tok>>, Contents(s \o <<tok>>), t)
<1> DEFINE u == s \o <<tok>>
<1>1. /\ Len(s) \in Nat /\ DOMAIN s = 1..Len(s) /\ DOMAIN u = 1..(Len(s) + 1)
      /\ u[Len(s) + 1] = tok /\ \A n \in 1..Len(s) : u[n] = s[n]
  OBVIOUS
<1> HIDE DEF u
<1>2. Contents(u) = Contents(s)
  BY <1>1 DEF Contents
<1>3. \A n \in Contents(s) : u[n] = s[n]
  BY <1>1 DEF Contents
<1>4. Reads(u, Contents(u), t)
  BY <1>2, <1>3 DEF Reads
<1>. QED
  BY <1>4 DEF u

LEMMA ReadsIf ==
  ASSUME NEW s \in Seq(Tokens), NEW test \in BOOLEAN, NEW tok \in Tokens \ Content, NEW t,
         Reads(s, Contents(s), t)
  PROVE  Reads(s \o Token(test, tok), Contents(s \o Token(test, tok)), t)
<1>1. CASE test
  BY <1>1, ReadsToken DEF Token
<1>2. CASE ~test
  BY <1>2, ConcatEmptySeq DEF Token
<1>. QED
  BY <1>1, <1>2

(* Content adds itself. *)
LEMMA ReadsContent ==
  ASSUME NEW s \in Seq(Tokens), NEW c \in Seq(Content), NEW t \in Seq(Content),
         Reads(s, Contents(s), t)
  PROVE  Reads(s \o c, Contents(s \o c), t \o c)
<1> DEFINE u == s \o c
           v == t \o c
           S == Contents(s)
<1>0. c \in Seq(Tokens)
  BY SeqMonotonic DEF Content, Tokens
<1>1. /\ Len(s) \in Nat /\ Len(c) \in Nat /\ Len(t) \in Nat
      /\ DOMAIN s = 1..Len(s) /\ DOMAIN u = 1..(Len(s) + Len(c)) /\ Len(v) = Len(t) + Len(c)
      /\ \A n \in 1..Len(s) : u[n] = s[n]
      /\ \A k \in 1..Len(c) : u[Len(s) + k] = c[k] /\ c[k] \in Content
      /\ \A n \in 1..Len(t) : v[n] = t[n]
      /\ \A k \in 1..Len(c) : v[Len(t) + k] = c[k]
  <2>1. \A k \in 1..Len(c) : c[k] \in Content
    BY ElementOfSeq
  <2>2. /\ \A n \in 1..Len(s) : u[n] = s[n]
        /\ \A k \in 1..Len(c) : u[Len(s) + k] = c[k]
        /\ DOMAIN u = 1..(Len(s) + Len(c))
    BY <1>0, ConcatProperties, LenProperties
  <2>3. /\ \A n \in 1..Len(t) : v[n] = t[n]
        /\ \A k \in 1..Len(c) : v[Len(t) + k] = c[k]
        /\ Len(v) = Len(t) + Len(c)
    BY ConcatProperties, LenProperties
  <2>. QED
    BY <2>1, <2>2, <2>3, LenProperties
<1> HIDE DEF u, v
<1>2. IsFiniteSet(S) /\ S \subseteq 1..Len(s) /\ Cardinality(S) \in Nat
  BY TextIs
<1>3. Contents(u) = S \cup ((Len(s) + 1)..(Len(s) + Len(c)))
  <2>1. \A n \in (Len(s) + 1)..(Len(s) + Len(c)) : u[n] \in Content
    <3> SUFFICES ASSUME NEW n \in (Len(s) + 1)..(Len(s) + Len(c)) PROVE u[n] \in Content
      OBVIOUS
    <3>1. n - Len(s) \in 1..Len(c) /\ n = Len(s) + (n - Len(s))
      BY <1>1
    <3>. QED
      BY <1>1, <3>1
  <2>. QED
    BY <1>1, <2>1 DEF Contents
<1> DEFINE U == Contents(u)
<1>4. \A k \in 0..Len(c) : /\ IsFiniteSet(S \cup ((Len(s) + 1)..(Len(s) + k)))
                          /\ Cardinality(S \cup ((Len(s) + 1)..(Len(s) + k))) = Len(t) + k
  <2> SUFFICES ASSUME NEW k \in 0..Len(c)
               PROVE  /\ IsFiniteSet(S \cup ((Len(s) + 1)..(Len(s) + k)))
                      /\ Cardinality(S \cup ((Len(s) + 1)..(Len(s) + k))) = Len(t) + k
    OBVIOUS
  <2> DEFINE new == (Len(s) + 1)..(Len(s) + k)
  <2>1. IsFiniteSet(new) /\ Cardinality(new) = k
    <3> DEFINE a == Len(s) + 1
               b == Len(s) + k
    <3>1. a \in Int /\ b \in Int /\ b - a + 1 = k /\ (a > b <=> k = 0)
      BY <1>1
    <3>. HIDE DEF a, b
    <3>2. IsFiniteSet(a..b) /\ Cardinality(a..b) = k
      BY <3>1, FS_Interval
    <3>. QED
      BY <3>2 DEF a, b
  <2>2. S \cap new = {}
    BY <1>1, <1>2
  <2>3. Cardinality(S) = Len(t) /\ Cardinality({}) = 0
    BY FS_EmptySet DEF Reads
  <2> HIDE DEF new, S
  <2>4. /\ IsFiniteSet(S \cup new)
        /\ Cardinality(S \cup new) = Cardinality(S) + Cardinality(new) - Cardinality(S \cap new)
    BY <1>2, <2>1, FS_Union
  <2>5. Cardinality(S \cup new) = Len(t) + k
    <3>1. Cardinality(S \cap new) = 0
      BY <2>2, <2>3
    <3>. QED
      BY <1>1, <2>1, <2>3, <2>4, <3>1
  <2>. QED
    BY <2>4, <2>5 DEF new
<1>5. Len(v) = Cardinality(U)
  <2>1. Len(c) \in 0..Len(c) /\ Len(v) = Len(t) + Len(c)
    BY <1>1
  <2>. HIDE DEF S
  <2>. QED
    BY <1>3, <1>4, <2>1
<1>6. ASSUME NEW n \in S PROVE Place(U, n) = Place(S, n)
  <2>1. {m \in U : m <= n} = {m \in S : m <= n}
    BY <1>1, <1>2, <1>3
  <2>. QED
    BY <2>1 DEF Place
<1>7. ASSUME NEW k \in 1..Len(c)
      PROVE  Len(s) + k \in U /\ Place(U, Len(s) + k) = Len(t) + k
  <2>1. {m \in U : m <= Len(s) + k} = S \cup ((Len(s) + 1)..(Len(s) + k))
    BY <1>1, <1>2, <1>3
  <2>. QED
    <3>1. k \in 0..Len(c) /\ Len(s) + k \in U
      BY <1>1, <1>3
    <3>2. Cardinality({m \in U : m <= Len(s) + k}) = Len(t) + k
      <4>. HIDE DEF S, U
      <4>. QED
        BY <1>4, <2>1, <3>1
    <3>. HIDE DEF U
    <3>. QED
      BY <3>1, <3>2 DEF Place
<1>8. ASSUME NEW n \in U PROVE Place(U, n) \in 1..Len(v) /\ v[Place(U, n)] = u[n]
  <2>1. CASE n \in S
    <3>1. Place(S, n) \in 1..Len(t) /\ t[Place(S, n)] = s[n]
      BY <2>1 DEF Reads
    <3>2. n \in 1..Len(s)
      BY <1>2, <2>1
    <3>. QED
      BY <1>1, <1>6, <2>1, <3>1, <3>2
  <2>2. CASE n \notin S
    <3>1. n - Len(s) \in 1..Len(c) /\ n = Len(s) + (n - Len(s))
      BY <1>1, <1>3, <2>2
    <3>2. Place(U, n) = Len(t) + (n - Len(s))
      BY <1>7, <3>1
    <3>. QED
      BY <1>1, <3>1, <3>2
  <2>. QED
    BY <2>1, <2>2
<1>9. ASSUME NEW k \in 1..Len(v) PROVE \E n \in U : Place(U, n) = k
  <2>1. CASE k \in 1..Len(t)
    <3>1. PICK n \in S : Place(S, n) = k
      BY <2>1 DEF Reads
    <3>. QED
      BY <1>3, <1>6, <3>1
  <2>2. CASE k \notin 1..Len(t)
    <3>1. k - Len(t) \in 1..Len(c) /\ k = Len(t) + (k - Len(t))
      BY <1>1, <2>2
    <3>. QED
      BY <1>7, <3>1
  <2>. QED
    BY <2>1, <2>2
<1>10. Reads(u, U, v)
  BY <1>5, <1>8, <1>9 DEF Reads
<1>. QED
  BY <1>10 DEF u, v

(* Where nothing disturbs the pattern its matches are the adapter's blocks.  *)
LEMMA MatchesAreBlocks ==
  ASSUME NEW s \in Seq(Tokens), WellFormed(s), Undisturbed(s)
  PROVE  \A n \in 0..Len(s) : InMatch(s, n) <=> InBlock(s, n)
<1>1. Len(s) \in Nat /\ DOMAIN s = 1..Len(s)
  BY TextIs
<1> SUFFICES ASSUME NEW n \in 0..Len(s) PROVE InMatch(s, n) <=> InBlock(s, n)
  OBVIOUS
<1>2. ASSUME NEW a \in 1..n, s[a] = "start", \A b \in a..n : s[b] # "end"
      PROVE  \A b \in a..n : s[b] \notin Ends
  <2> SUFFICES ASSUME NEW b \in a..n PROVE s[b] # "closing" /\ s[b] # "breach"
    BY <1>2 DEF Ends
  <2>1. b \in DOMAIN s
    BY <1>1
  <2>2. s[b] # "breach"
    BY <2>1 DEF Undisturbed
  <2>3. ASSUME s[b] = "closing" PROVE FALSE
    <3>1. ~InBlock(s, b - 1)
      BY <2>1, <2>3 DEF WellFormed, Content
    <3>2. a \in 1..(b - 1) /\ \A e \in a..(b - 1) : s[e] # "end"
      BY <1>1, <1>2, <2>3
    <3>. QED
      BY <1>2, <3>1, <3>2 DEF InBlock
  <2>. QED
    BY <2>2, <2>3
<1>3. ASSUME NEW a \in 1..n PROVE s[a] \in Starts <=> s[a] = "start"
  BY <1>1 DEF Undisturbed, Starts
<1>. QED
  BY <1>2, <1>3 DEF InMatch, InBlock, Ends

(* Where blocks are well-formed and nothing disturbs the pattern, what is    *)
(* left is the content.                                                      *)
LEMMA LeftIsContent ==
  ASSUME NEW s \in Seq(Tokens), WellFormed(s), Undisturbed(s)
  PROVE  Left(s) = Contents(s)
<1>1. Len(s) \in Nat /\ DOMAIN s = 1..Len(s) /\ \A n \in 1..Len(s) : s[n] \in Tokens
  BY TextIs
<1>1a. \A n \in 0..Len(s) : InMatch(s, n) <=> InBlock(s, n)
  BY MatchesAreBlocks
<1>1b. \A n \in 1..Len(s) : EndsMatch(s, n) <=> s[n] = "end"
  <2> SUFFICES ASSUME NEW n \in 1..Len(s) PROVE EndsMatch(s, n) <=> s[n] = "end"
    OBVIOUS
  <2>1. InMatch(s, n - 1) <=> InBlock(s, n - 1)
    BY <1>1, <1>1a
  <2>2. s[n] = "end" => InBlock(s, n - 1)
    BY <1>1 DEF WellFormed
  <2>3. s[n] = "closing" => ~InBlock(s, n - 1)
    BY <1>1 DEF WellFormed, Content
  <2>4. s[n] # "breach"
    BY <1>1 DEF Undisturbed
  <2>. QED
    BY <2>1, <2>2, <2>3, <2>4 DEF EndsMatch, Ends
<1>2. ASSUME NEW n \in 1..Len(s), s[n] \notin Content PROVE Removed(s, n)
  <2>1. CASE s[n] = "start"
    <3>1. InBlock(s, n)
      BY <2>1 DEF InBlock
    <3>. QED
      BY <1>1a, <3>1 DEF Removed
  <2>2. CASE s[n] = "thought"
    <3>1. InBlock(s, n - 1)
      BY <1>1, <2>2 DEF WellFormed
    <3>2. InBlock(s, n)
      BY <2>2, <3>1 DEF InBlock
    <3>. QED
      BY <1>1a, <3>2 DEF Removed
  <2>3. CASE s[n] = "end"
    BY <1>1b, <2>3 DEF Removed
  <2>4. s[n] # "breach"
    BY <1>1 DEF Undisturbed
  <2>. QED
    BY <1>1, <1>2, <2>1, <2>2, <2>3, <2>4 DEF Tokens
<1>3. ASSUME NEW n \in 1..Len(s), s[n] \in Content PROVE ~Removed(s, n)
  <2>1. ~InBlock(s, n - 1)
    BY <1>1, <1>3 DEF WellFormed
  <2>2. ~InMatch(s, n)
    <3>1. ~InBlock(s, n)
      BY <1>3, <2>1 DEF InBlock, Content
    <3>. QED
      BY <1>1a, <3>1
  <2>3. ASSUME NEW e \in 1..(n - 1), EndsMatch(s, e), \A b \in (e + 1)..n : s[b] \in White
        PROVE  FALSE
    <3>1. e + 1 \in 1..Len(s) /\ s[e + 1] \in White /\ (e + 1) - 1 = e /\ e + 1 # 1
      BY <1>1, <2>3
    <3>2. s[e] = "end"
      BY <1>1b, <2>3
    <3>. QED
      BY <1>1, <3>1, <3>2 DEF Undisturbed
  <2>4. ~EndsMatch(s, n)
    BY <1>1b, <1>3 DEF Content
  <2>. QED
    BY <2>2, <2>3, <2>4 DEF Removed
<1>4. ASSUME NEW n \in 1..Len(s), s[n] = "break"
      PROVE  n - 1 \in 1..Len(s) /\ s[n - 1] \in Content
  <2>1. n - 1 \in 1..Len(s) /\ s[n - 1] # "end" /\ s[n - 1] # "breach"
    <3>1. n # 1 /\ s[n - 1] # "end"
      BY <1>1, <1>4 DEF Undisturbed, White
    <3>2. n - 1 \in 1..Len(s)
      BY <1>1, <3>1
    <3>. QED
      BY <1>1, <3>1, <3>2 DEF Undisturbed
  <2>2. ~InBlock(s, n - 1)
    BY <1>1, <1>4 DEF WellFormed, Content
  <2>3. s[n - 1] # "start"
    BY <1>1, <2>1, <2>2 DEF InBlock
  <2>4. s[n - 1] # "thought"
    <3> SUFFICES ASSUME s[n - 1] = "thought" PROVE FALSE
      OBVIOUS
    <3>1. InBlock(s, (n - 1) - 1)
      BY <1>1, <2>1 DEF WellFormed
    <3>2. InBlock(s, n - 1)
      BY <2>1, <3>1 DEF InBlock
    <3>. QED
      BY <2>2, <3>2
  <2>. QED
    BY <1>1, <2>1, <2>3, <2>4 DEF Tokens
<1>5. ASSUME NEW n \in 1..Len(s), s[n] \in Content
      PROVE  \E b \in 1..n : s[b] # "break" /\ ~Removed(s, b)
  <2> DEFINE Words == {b \in 1..n : s[b] \in Content /\ s[b] # "break"}
  <2>1. Words # {}
    <3> DEFINE G == {k \in Nat : k < n => s[n - k] = "break"}
    <3> SUFFICES ASSUME Words = {} PROVE FALSE
      OBVIOUS
    <3>1. \A b \in 1..n : s[b] \in Content => s[b] = "break"
      OBVIOUS
    <3>2. 0 \in G
      BY <1>5, <3>1
    <3>3. ASSUME NEW k \in Nat, k \in G PROVE k + 1 \in G
      <4> SUFFICES ASSUME k + 1 < n PROVE s[n - (k + 1)] = "break"
        OBVIOUS
      <4>1. n - k \in 1..Len(s) /\ s[n - k] = "break" /\ n - (k + 1) = (n - k) - 1
        BY <1>1, <3>3
      <4>2. s[(n - k) - 1] \in Content
        BY <1>4, <4>1
      <4>3. s[n - (k + 1)] \in Content /\ n - (k + 1) \in 1..n
        BY <1>1, <4>1, <4>2
      <4>. QED
        BY <3>1, <4>3
    <3>4. \A k \in Nat : k \in G
      <4>. HIDE DEF G
      <4>. QED
        BY <3>2, <3>3, AllNumbers
    <3>5. n - 1 \in G /\ n - 1 < n /\ n - (n - 1) = 1
      BY <1>1, <3>4
    <3>6. s[1] = "break" /\ 1 \in 1..Len(s)
      BY <1>1, <3>5
    <3>. QED
      BY <1>1, <1>4, <3>6
  <2>2. PICK b \in 1..n : s[b] \in Content /\ s[b] # "break"
    BY <2>1
  <2>3. b \in 1..Len(s)
    BY <1>1
  <2>. QED
    BY <1>3, <2>2, <2>3
<1>. QED
  BY <1>1, <1>2, <1>3, <1>5 DEF Left, Contents

(* What is read at the places that are left is what stripping gives. *)
LEMMA StrippedIs ==
  ASSUME NEW s \in Seq(Tokens), NEW t \in Seq(Content), WellFormed(s), Undisturbed(s),
         Reads(s, Contents(s), t)
  PROVE  Stripped(s) = t
<1> DEFINE S == Contents(s)
           u == Picked(s, S)
<1>1. Stripped(s) = u
  <2>1. Left(s) = S
    BY LeftIsContent
  <2>. QED
    BY <2>1 DEF Stripped
<1>2. Len(t) \in Nat /\ DOMAIN t = 1..Len(t) /\ Len(t) = Cardinality(S)
  BY DEF Reads
<1>3. ASSUME NEW k \in 1..Len(t) PROVE s[CHOOSE n \in S : Place(S, n) = k] = t[k]
  <2> DEFINE n == CHOOSE n \in S : Place(S, n) = k
  <2>1. n \in S /\ Place(S, n) = k
    BY <1>3 DEF Reads
  <2> HIDE DEF n
  <2>2. t[Place(S, n)] = s[n]
    BY <2>1 DEF Reads
  <2>3. s[n] = t[k]
    BY <2>1, <2>2
  <2>. QED
    BY <2>3 DEF n
<1>4. t = [k \in 1..Len(t) |-> t[k]]
  BY <1>2
<1> HIDE DEF S
<1>5. u = [k \in 1..Len(t) |-> t[k]]
  BY <1>2, <1>3 DEF Picked
<1>. QED
  BY <1>1, <1>4, <1>5

(* A delta adds its content, whatever is mirrored around it. *)
LEMMA DeltaReads ==
  ASSUME NEW s \in Seq(Tokens), NEW t \in Seq(Content), NEW i \in Indices, NEW d \in Deltas,
         Reads(s, Contents(s), t)
  PROVE  Reads(s \o Rewritten(i, d), Contents(s \o Rewritten(i, d)), t \o d.content)
<1>0. d.content \in Seq(Content) /\ Reasons(d) \in BOOLEAN
  BY DeltaTyped
<1>1. CASE ~DisplayReasoning
  BY <1>0, <1>1, ReadsContent DEF Rewritten
<1>2. CASE DisplayReasoning
  <2> DEFINE a == Token(Reasons(d) /\ i \notin open, "start")
             b == Token(Reasons(d), Thinking(d.reasoning = "breach"))
             e == Token(Closes(i, d), "end")
  <2>1. Closes(i, d) \in BOOLEAN
    BY DEF Closes
  <2>2. /\ a \in Seq(Tokens) /\ b \in Seq(Tokens) /\ e \in Seq(Tokens)
        /\ d.content \in Seq(Tokens)
    <3>1. d.content \in Seq(Tokens)
      BY <1>0, SeqMonotonic DEF Content, Tokens
    <3>. QED
      BY <1>0, <2>1, <3>1, ThinkingTyped, TokenTyped DEF Tokens
  <2>3. s \o a \in Seq(Tokens) /\ Reads(s \o a, Contents(s \o a), t)
    <3>1. Reads(s \o a, Contents(s \o a), t)
      BY <1>0, ReadsIf DEF Tokens, Content
    <3>. QED
      BY <2>2, <3>1, TextsJoin
  <2> DEFINE u == s \o a
  <2> HIDE DEF a, b, e
  <2>4. u \o b \in Seq(Tokens) /\ Reads(u \o b, Contents(u \o b), t)
    <3>1. u \in Seq(Tokens) /\ Reads(u, Contents(u), t)
      BY <2>3
    <3> HIDE DEF u
    <3>2. Reads(u \o b, Contents(u \o b), t)
      BY <1>0, <3>1, ThinkingTyped, ReadsIf DEF b
    <3>. QED
      BY <2>2, <3>1, <3>2, TextsJoin
  <2> DEFINE v == u \o b
  <2>5. v \o e \in Seq(Tokens) /\ Reads(v \o e, Contents(v \o e), t)
    <3>1. v \in Seq(Tokens) /\ Reads(v, Contents(v), t)
      BY <2>4
    <3> HIDE DEF v
    <3>2. Reads(v \o e, Contents(v \o e), t)
      BY <2>1, <3>1, ReadsIf DEF Tokens, Content, e
    <3>. QED
      BY <2>2, <3>1, <3>2, TextsJoin
  <2> DEFINE w == v \o e
  <2>6. Reads(w \o d.content, Contents(w \o d.content), t \o d.content)
    <3>1. w \in Seq(Tokens) /\ Reads(w, Contents(w), t)
      BY <2>5
    <3> HIDE DEF w
    <3>. QED
      BY <1>0, <3>1, ReadsContent
  <2>7. s \o Rewritten(i, d) = w \o d.content
    <3>1. Rewritten(i, d) = a \o b \o e \o d.content
      BY <1>2 DEF Rewritten, Mirrored, a, b, e
    <3>2. Joined(s, Joined(Joined(Joined(a, b), e), d.content))
            = Joined(Joined(Joined(Joined(s, a), b), e), d.content)
      BY <2>2, OneByOne
    <3>. QED
      BY <3>1, <3>2 DEF Joined
  <2>. QED
    BY <2>6, <2>7
<1>. QED
  BY <1>1, <1>2

LEMMA NothingReads == Reads(<<>>, Contents(<<>>), <<>>)
<1>1. Contents(<<>>) = {} /\ Cardinality({}) = 0
  BY FS_EmptySet DEF Contents
<1>2. Reads(<<>>, {}, <<>>)
  <2>1. Len(<<>>) = 0 /\ Cardinality({}) = 0
    BY <1>1
  <2>. QED
    BY <2>1 DEF Reads
<1>. QED
  BY <1>1, <1>2

LEMMA FoldedReads ==
  ASSUME NEW message \in Choice
  PROVE  Reads(Folded(message), Contents(Folded(message)), message.content)
<1> DEFINE c == message.content
<1>1. c \in Seq(Content) /\ <<>> \o c = c /\ <<>> \in Seq(Content) /\ <<>> \in Seq(Tokens)
  <2>1. c \in Seq(Content)
    BY DEF Choice, Content
  <2>. QED
    BY <2>1, ConcatEmptySeq
<1>2. CASE DisplayReasoning /\ message.reasoning # 0
  <2> DEFINE th == Thinking(message.breached)
             b == <<"start", th, "end">>
  <2>0. th \in {"thought", "breach"} /\ th \in Tokens
    BY ThinkingTyped
  <2> HIDE DEF th
  <2>1. b \in Seq(Tokens) /\ Reads(b, Contents(b), <<>>)
    <3>1. b \in Seq(Tokens) /\ DOMAIN b = 1..3
          /\ b[1] = "start" /\ b[2] \in {"thought", "breach"} /\ b[3] = "end"
      BY <2>0 DEF Tokens
    <3> HIDE DEF b
    <3>2. Contents(b) = {} /\ Cardinality({}) = 0
      BY <3>1, FS_EmptySet DEF Contents, Content
    <3>. QED
      BY <3>1, <3>2 DEF Reads
  <2>2. Folded(message) = b \o c
    BY <1>2 DEF Folded, th
  <2> HIDE DEF b, c
  <2>3. Reads(b \o c, Contents(b \o c), <<>> \o c)
    BY <1>1, <2>1, ReadsContent
  <2>. QED
    BY <1>1, <2>2, <2>3 DEF c
<1>3. CASE ~(DisplayReasoning /\ message.reasoning # 0)
  <2>1. Folded(message) = c
    BY <1>3 DEF Folded
  <2> HIDE DEF c
  <2>2. Reads(<<>> \o c, Contents(<<>> \o c), <<>> \o c)
    BY <1>1, NothingReads, ReadsContent
  <2>. QED
    BY <1>1, <2>1, <2>2 DEF c
<1>. QED
  BY <1>2, <1>3

(* The content that is shown is the content that is accumulated, unless a    *)
(* client that has gone has missed some.                                     *)
ShownIsContent ==
  pc \in {"reading", "regular"} \/ finalized \/ ~cancelled =>
    \A i \in Indices : Reads(shown[i], Contents(shown[i]), choices[i].content)

LEMMA ShownInit == Init => ShownIsContent
BY NothingReads DEF Init, ShownIsContent, NewChoice

LEMMA ShownStep == IInv /\ ShownIsContent /\ [Next]_vars => ShownIsContent'
<1> SUFFICES ASSUME IInv, ShownIsContent, [Next]_vars PROVE ShownIsContent'
  OBVIOUS
<1>1. /\ shown \in [Indices -> Seq(Tokens)] /\ choices \in [Indices -> Choice]
      /\ finalized \in BOOLEAN /\ cancelled \in BOOLEAN
      /\ finalized => pc \notin {"reading", "regular"}
  BY DEF IInv, TypeOK, Tokens, BlocksFollowOpen
<1>2. ASSUME NEW i \in Indices, NEW d \in Deltas, Chunk(i, d) PROVE ShownIsContent'
  <2>1. /\ pc = "reading" /\ UNCHANGED <<finalized, cancelled>>
        /\ choices' = [choices EXCEPT ![i] = Ingest(choices[i], d)]
        /\ \/ shown' = [shown EXCEPT ![i] = @ \o Rewritten(i, d)] /\ UNCHANGED pc
           \/ cancelled /\ pc' = "cleanup"
    BY <1>2 DEF Chunk, StoreReady
  <2>2. \A j \in Indices : Reads(shown[j], Contents(shown[j]), choices[j].content)
    BY <2>1 DEF ShownIsContent
  <2>3. CASE cancelled /\ pc' = "cleanup"
    BY <1>1, <2>1, <2>3 DEF ShownIsContent
  <2>4. CASE shown' = [shown EXCEPT ![i] = @ \o Rewritten(i, d)]
    <3>1. /\ choices[i].content \in Seq(Content) /\ shown[i] \in Seq(Tokens)
          /\ choices'[i].content = choices[i].content \o d.content
          /\ shown'[i] = shown[i] \o Rewritten(i, d)
      BY <1>1, <2>1, <2>4 DEF Choice, Ingest, Content
    <3>2. Reads(shown'[i], Contents(shown'[i]), choices'[i].content)
      BY <2>2, <3>1, DeltaReads
    <3>3. \A j \in Indices : j # i => shown'[j] = shown[j] /\ choices'[j] = choices[j]
      BY <1>1, <2>1, <2>4
    <3>4. \A j \in Indices : Reads(shown'[j], Contents(shown'[j]), choices'[j].content)
      BY <2>2, <3>2, <3>3
    <3>. QED
      BY <3>4 DEF ShownIsContent, Contents
  <2>. QED
    BY <2>1, <2>3, <2>4
<1>3. CASE Done
  <2>1. /\ pc = "reading" /\ pc' = "cleanup" /\ UNCHANGED <<choices, cancelled>>
        /\ \/ shown' = Flushed
           \/ cancelled /\ UNCHANGED <<shown, finalized>>
    BY <1>3 DEF Done, recording
  <2>2. \A j \in Indices : Reads(shown[j], Contents(shown[j]), choices[j].content)
    BY <2>1 DEF ShownIsContent
  <2>3. CASE cancelled /\ UNCHANGED <<shown, finalized>>
    BY <1>1, <2>1, <2>3 DEF ShownIsContent
  <2>4. CASE shown' = Flushed
    <3>1. ASSUME NEW j \in Indices
          PROVE  Reads(shown'[j], Contents(shown'[j]), choices'[j].content)
      <4>1. shown'[j] = shown[j] \o Token(j \in open, "end") /\ shown[j] \in Seq(Tokens)
        BY <1>1, <2>4 DEF Flushed
      <4>2. Reads(shown[j] \o Token(j \in open, "end"),
                  Contents(shown[j] \o Token(j \in open, "end")), choices[j].content)
        <5>1. (j \in open) \in BOOLEAN /\ "end" \in Tokens \ Content
          BY DEF Tokens, Content
        <5>2. Reads(shown[j], Contents(shown[j]), choices[j].content)
          BY <2>2
        <5>. HIDE DEF Tokens, Content
        <5>. QED
          BY <4>1, <5>1, <5>2, ReadsIf
      <4>. QED
        BY <2>1, <4>1, <4>2
    <3>. QED
      BY <3>1 DEF ShownIsContent, Contents
  <2>. QED
    BY <2>1, <2>3, <2>4
<1>4. CASE StreamBreaks
  BY <1>4 DEF StreamBreaks, recording, ShownIsContent, Contents
<1>5. CASE CleanupStreamingBatch
  <2>1. /\ UNCHANGED <<choices, shown, finalized, cancelled>>
        /\ pc' \in {"failed", "done"}
    BY <1>5 DEF CleanupStreamingBatch
  <2>. QED
    BY <2>1 DEF ShownIsContent, Contents
<1>6. CASE RegularAnswer
  <2>1. PICK answer \in [Indices -> Messages] :
          /\ choices' = answer
          /\ cancelled => pc' = "failed"
          /\ \/ shown' = [i \in Indices |-> Folded(answer[i])]
             \/ cancelled /\ UNCHANGED shown
    BY <1>6 DEF RegularAnswer
  <2>2. pc = "regular" /\ UNCHANGED <<finalized, cancelled>>
    BY <1>6 DEF RegularAnswer
  <2>3. CASE cancelled /\ UNCHANGED shown
    BY <1>1, <2>1, <2>2, <2>3 DEF ShownIsContent
  <2>4. CASE shown' = [i \in Indices |-> Folded(answer[i])]
    <3>1. ASSUME NEW i \in Indices
          PROVE  Reads(shown'[i], Contents(shown'[i]), choices'[i].content)
      <4>1. answer[i] \in Choice
        BY <2>1, MessagesAssumption
      <4>2. shown'[i] = Folded(answer[i]) /\ choices'[i] = answer[i]
        BY <2>1, <2>4
      <4>. QED
        BY <4>1, <4>2, FoldedReads
    <3>. QED
      BY <3>1 DEF ShownIsContent, Contents
  <2>. QED
    BY <2>1, <2>3, <2>4
<1>7. CASE RegularReadFails
  BY <1>7 DEF RegularReadFails, recording, ShownIsContent, Contents
<1>8. CASE Disconnect
  BY <1>1, <1>8 DEF Disconnect, ShownIsContent, Contents
<1>9. CASE UNCHANGED vars
  BY <1>9 DEF vars, ShownIsContent, Contents
<1>. QED
  BY <1>2, <1>3, <1>4, <1>5, <1>6, <1>7, <1>8, <1>9 DEF Next

(* However a response's deltas come, and wherever it breaks or the client    *)
(* turns away: the text shown, with its thinking blocks stripped, is the     *)
(* content that is the key to the reasoning (transform.go:226-231 undoes     *)
(* streaming.go:301-467), as long as no write has failed and the upstream's  *)
(* text has nothing the pattern takes along: an opening marker in a content, *)
(* an end marker in the reasoning, white space right behind a block, a line  *)
(* break before anything else.                                               *)
THEOREM StrippingUndoesMirroring == Spec => []StripUndoesMirror
<1>1. IInv /\ ShownIsContent => StripUndoesMirror
  <2> SUFFICES ASSUME IInv, ShownIsContent, NEW i \in Indices,
                      pc = "reading" \/ finalized \/ ~cancelled, Undisturbed(shown[i])
               PROVE  Stripped(shown[i]) = choices[i].content
    BY DEF StripUndoesMirror
  <2>1. /\ shown[i] \in Seq(Tokens) /\ WellFormed(shown[i])
        /\ choices[i].content \in Seq(Content)
    BY DEF IInv, TypeOK, Tokens, BlocksFollowOpen, Choice, Content
  <2>2. Reads(shown[i], Contents(shown[i]), choices[i].content)
    BY DEF ShownIsContent
  <2>. QED
    BY <2>1, <2>2, StrippedIs
<1>2. IInv /\ ShownIsContent /\ [Next]_vars => ShownIsContent'
  BY ShownStep
<1>. QED
  BY InductiveInvariant, ShownInit, <1>1, <1>2, PTL DEF Spec

=============================================================================
