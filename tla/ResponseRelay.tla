---------------------------- MODULE ResponseRelay ----------------------------
(***************************************************************************)
(* One response on its way from the upstream to the client (server.go,     *)
(* proxyRegularResponse and proxyStreamingResponse; streaming.go).         *)
(*                                                                         *)
(* A stream's deltas are accumulated by choice, reasoning is put into the  *)
(* batch buffer as soon as a choice is ready, and the client is shown the  *)
(* deltas with the reasoning mirrored into the content.  When the stream   *)
(* is over a deferred call stores what is missing and flushes the buffer.  *)
(*                                                                         *)
(* Text is a sequence of tokens: "text", white space ("break" for line     *)
(* breaks, "blank" for the rest), "opening" and "closing" for markers of a *)
(* thinking block that the upstream's text itself has in it, and in what   *)
(* is shown "start", "thought" and "end" for the block the adapter writes. *)
(* Reasoning is the number of its pieces; a "breach" is a piece with the   *)
(* block's end marker in it.  Markers are those of the block's own kind.   *)
(* The batch buffer is taken as the session's own; how sessions share it   *)
(* is ReasoningStore's subject.                                            *)
(* The recovery notice is left out: preparation always leaves it empty.    *)
(***************************************************************************)
EXTENDS Integers, Sequences, FiniteSets

CONSTANTS
  Indices,           \* choice indexes of the response
  Contexts,          \* the recording contexts (scope and prior messages)
  DisplayReasoning,  \* display_reasoning
  MaxCalls,          \* bound: tool calls of a choice
  MaxChunks,         \* bound: chunks of a stream
  Deltas,            \* the deltas a chunk may carry
  Messages           \* the messages of a regular response

Content == {"text", "break", "blank", "opening", "closing"}

Delta ==
  [reasoning : {"none", "empty", "piece", "breach"}, content : Seq(Content),
   call : 0..MaxCalls,  \* 1 + the index of the tool call, 0 without one
   id : BOOLEAN,        \* whether the tool call's id is in this delta
   finish : BOOLEAN]

Choice ==
  [content : Seq(Content), reasoning : Nat, breached : BOOLEAN, has : BOOLEAN,
   calls : Seq(BOOLEAN),  \* by tool call: has it an id
   finished : BOOLEAN]

ASSUME IndicesAssumption == Indices \subseteq Nat
ASSUME ModeAssumption == DisplayReasoning \in BOOLEAN
ASSUME BoundsAssumption == MaxCalls \in Nat /\ MaxChunks \in Nat
ASSUME DeltasAssumption == \A d \in Deltas : d \in Delta
ASSUME MessagesAssumption == \A m \in Messages : m \in Choice

VARIABLES
  pc,         \* "reading", "regular", "cleanup", "done" or "failed"
  choices,    \* StreamAccumulator.choices
  stored,     \* StreamAccumulator.storedChoices
  open,       \* CursorReasoningDisplayAdapter.openChoices
  buffer,     \* what this session has put into the batch
  rows,       \* what has been committed
  shown,      \* the content the client has got, by choice
  late,       \* history: the choices with a delta behind their finish reason
  finalized,  \* [DONE] has been relayed
  cancelled,  \* the request context is done: the client has gone
  chunks      \* chunks read so far

vars ==
  <<pc, choices, stored, open, buffer, rows, shown, late, finalized, cancelled, chunks>>
recording == <<choices, stored, buffer, late>>

NewChoice ==
  [content |-> <<>>, reasoning |-> 0, breached |-> FALSE, has |-> FALSE, calls |-> <<>>,
   finished |-> FALSE]

Init ==
  /\ pc \in {"reading", "regular"}
  /\ choices = [i \in Indices |-> NewChoice]
  /\ stored = [e \in Indices \X Contexts |-> 0]
  /\ shown = [i \in Indices |-> <<>>]
  /\ open = {} /\ buffer = {} /\ rows = {} /\ late = {}
  /\ finalized = FALSE /\ cancelled = FALSE /\ chunks = 0

-----------------------------------------------------------------------------
(* StreamAccumulator *)

MergeToolCallDeltas(calls, d) ==
  [k \in 1..(IF d.call > Len(calls) THEN d.call ELSE Len(calls)) |->
     (k \in DOMAIN calls /\ calls[k]) \/ (k = d.call /\ d.id)]

Reasons(d) == d.reasoning \in {"piece", "breach"}

(* IngestChunk, for the choice a chunk is about.                             *)
Ingest(choice, d) ==
  [content   |-> choice.content \o d.content,
   reasoning |-> choice.reasoning + (IF Reasons(d) THEN 1 ELSE 0),
   breached  |-> choice.breached \/ d.reasoning = "breach",
   has       |-> choice.has \/ d.reasoning # "none",
   calls     |-> MergeToolCallDeltas(choice.calls, d),
   finished  |-> choice.finished \/ d.finish]

Identified(choice) ==
  choice.has /\ choice.calls # <<>> /\ \A k \in DOMAIN choice.calls : choice.calls[k]

(* Mutant of StageRank: a finished choice ranks no higher than an identified one. *)
FlatRank(choice) == IF choice.finished \/ Identified(choice) THEN 1 ELSE 0

StageRank(choice) ==
  IF choice.finished THEN 2 ELSE IF Identified(choice) THEN 1 ELSE 0

(* The row of a message with reasoning.  A streamed message is stored by its *)
(* content alone: its tool calls have a type the key functions pass over.    *)
Row(x, i, choice) ==
  [context |-> x, content |-> choice.content,
   calls |-> IF pc = "regular" THEN choice.calls ELSE <<>>,
   reasoning |-> <<i, choice.reasoning>>]

SameKey(r, q) == r.context = q.context /\ r.content = q.content /\ r.calls = q.calls

Put(table, new) == {r \in table : \A q \in new : ~SameKey(r, q)} \cup new

(* Mutant of Ready: choices without reasoning are stored too. *)
ReadyEmpty(i, choice) == {x \in Contexts : stored[<<i, x>>] < StageRank(choice)}

(* StoreReadyReasoning with every context; only the choice that a chunk      *)
(* changes can have become ready.                                            *)
Ready(i, choice) ==
  {x \in Contexts : choice.reasoning # 0 /\ stored[<<i, x>>] < StageRank(choice)}

StoreReady(i, choice) ==
  /\ choices' = [choices EXCEPT ![i] = choice]
  /\ buffer' = Put(buffer, {Row(x, i, choice) : x \in Ready(i, choice)})
  /\ stored' = [e \in DOMAIN stored |->
                  IF e[1] = i /\ e[2] \in Ready(i, choice) THEN StageRank(choice) ELSE stored[e]]

(* StoreReasoning walks a map: of rows with one key any may come last.       *)
Unstored ==
  {Row(x, i, choices[i]) : x \in Contexts, i \in {j \in Indices : choices[j].reasoning # 0}}

StoreReasoning(table) ==
  {Put(table, new) : new \in {s \in SUBSET Unstored :
     /\ \A r \in Unstored : \E q \in s : SameKey(r, q)
     /\ \A r, q \in s : SameKey(r, q) => r = q}}

-----------------------------------------------------------------------------
(* CursorReasoningDisplayAdapter *)

Token(test, token) == IF test THEN <<token>> ELSE <<>>

IsOpen(i, d) == i \in open \/ Reasons(d)

(* Mutant of Closes: a content delta closes the block only after its text. *)
ClosesWithoutContent(i, d) == IsOpen(i, d) /\ (d.call # 0 \/ d.finish)

Closes(i, d) == IsOpen(i, d) /\ (d.content # <<>> \/ d.call # 0 \/ d.finish)

Thinking(breached) == IF breached THEN "breach" ELSE "thought"

(* RewriteChunk *)
Mirrored(i, d) ==
  Token(Reasons(d) /\ i \notin open, "start")
  \o Token(Reasons(d), Thinking(d.reasoning = "breach"))
  \o Token(Closes(i, d), "end") \o d.content

Rewritten(i, d) == IF DisplayReasoning THEN Mirrored(i, d) ELSE d.content

OpenAfter(i, d) ==
  IF ~DisplayReasoning THEN open
  ELSE IF Closes(i, d) THEN open \ {i}
  ELSE IF IsOpen(i, d) THEN open \cup {i} ELSE open

(* FlushChunk *)
Flushed == [i \in Indices |-> shown[i] \o Token(i \in open, "end")]

(* FoldReasoningIntoContent *)
Folded(message) ==
  IF DisplayReasoning /\ message.reasoning # 0
  THEN <<"start", Thinking(message.breached), "end">> \o message.content
  ELSE message.content

-----------------------------------------------------------------------------
(* The relay *)

(* net/http cancels the request context when the connection is gone.         *)
Disconnect ==
  /\ pc \in {"reading", "regular", "cleanup"}
  /\ cancelled' = TRUE
  /\ UNCHANGED <<pc, choices, stored, open, buffer, rows, shown, late, finalized, chunks>>

(* Mutant of Chunk: the delta is rewritten before it is accumulated. *)
RewritesFirst(i, d) ==
  /\ pc = "reading" /\ chunks < MaxChunks
  /\ chunks' = chunks + 1
  /\ StoreReady(i, Ingest(choices[i], [d EXCEPT !.content = Rewritten(i, d)]))
  /\ late' = IF choices[i].finished THEN late \cup {i} ELSE late
  /\ open' = OpenAfter(i, d)
  /\ \/ shown' = [shown EXCEPT ![i] = @ \o Rewritten(i, d)] /\ UNCHANGED pc
     \/ cancelled /\ pc' = "cleanup" /\ UNCHANGED shown
  /\ UNCHANGED <<rows, finalized, cancelled>>

(* A data line with a chunk, which may be about a choice that has got its    *)
(* finish reason; the write to the client comes last.                        *)
Chunk(i, d) ==
  /\ pc = "reading" /\ chunks < MaxChunks
  /\ chunks' = chunks + 1
  /\ StoreReady(i, Ingest(choices[i], d))
  /\ late' = IF choices[i].finished THEN late \cup {i} ELSE late
  /\ open' = OpenAfter(i, d)
  /\ \/ shown' = [shown EXCEPT ![i] = @ \o Rewritten(i, d)] /\ UNCHANGED pc
     \/ cancelled /\ pc' = "cleanup" /\ UNCHANGED shown
  /\ UNCHANGED <<rows, finalized, cancelled>>

(* The line [DONE]; without a successful write it does not finalize.         *)
Done ==
  /\ pc = "reading" /\ pc' = "cleanup"
  /\ open' = {}
  /\ \/ shown' = Flushed /\ finalized' = TRUE
     \/ cancelled /\ UNCHANGED <<shown, finalized>>
  /\ UNCHANGED <<recording, rows, cancelled, chunks>>

(* The end of the body, a read that fails, or a write of any other line that *)
(* does.                                                                     *)
StreamBreaks ==
  /\ pc = "reading" /\ pc' = "cleanup"
  /\ UNCHANGED <<recording, open, rows, shown, finalized, cancelled, chunks>>

(* cleanupStreamingBatch; a transaction cannot begin in a cancelled context. *)
CleanupStreamingBatch ==
  /\ pc = "cleanup"
  /\ buffer' = {}
  /\ \E final \in (IF finalized THEN {buffer} ELSE StoreReasoning(buffer)) :
       IF cancelled
       THEN pc' = "failed" /\ UNCHANGED rows
       ELSE pc' = "done" /\ rows' = Put(rows, final)
  /\ UNCHANGED <<choices, stored, open, shown, late, finalized, cancelled, chunks>>

(* The rows of a regular response; of one key the last choice's stays.       *)
AnswerRows(answer) ==
  {Row(e[1], e[2], answer[e[2]]) : e \in
     {f \in Contexts \X Indices :
        /\ answer[f[2]].reasoning # 0
        /\ \A j \in Indices :
             j > f[2] /\ answer[j].reasoning # 0 =>
               ~SameKey(Row(f[1], j, answer[j]), Row(f[1], f[2], answer[f[2]]))}}

(* proxyRegularResponse: stored before the reasoning is folded in.           *)
RegularAnswer ==
  /\ pc = "regular"
  /\ \E answer \in [Indices -> Messages] :
       /\ choices' = answer
       /\ IF cancelled
          THEN pc' = "failed" /\ UNCHANGED rows
          ELSE pc' = "done" /\ rows' = Put(rows, AnswerRows(answer))
       /\ \/ shown' = [i \in Indices |-> Folded(answer[i])]
          \/ cancelled /\ UNCHANGED shown
  /\ UNCHANGED <<stored, open, buffer, late, finalized, cancelled, chunks>>

RegularReadFails ==
  /\ pc = "regular" /\ pc' = "failed"
  /\ UNCHANGED <<recording, open, rows, shown, finalized, cancelled, chunks>>

Next ==
  \/ \E i \in Indices, d \in Deltas : Chunk(i, d)
  \/ Done \/ StreamBreaks \/ CleanupStreamingBatch
  \/ RegularAnswer \/ RegularReadFails
  \/ Disconnect

Spec == Init /\ [][Next]_vars

-----------------------------------------------------------------------------
(* What the client makes of it *)

White == {"break", "blank"}
Starts == {"start", "opening"}
Ends == {"end", "closing", "breach"}

(* A match has begun at or before n and not ended by n. *)
InMatch(s, n) ==
  \E a \in 1..n : s[a] \in Starts /\ \A b \in a..n : s[b] \notin Ends

EndsMatch(s, n) == s[n] \in Ends /\ InMatch(s, n - 1)

(* What StripCursorThinkingBlocks' pattern matches: a block up to its first  *)
(* end, or to the end of the text, and the white space behind it.            *)
Removed(s, n) ==
  \/ InMatch(s, n) \/ EndsMatch(s, n)
  \/ \E e \in 1..(n - 1) : EndsMatch(s, e) /\ \A b \in (e + 1)..n : s[b] \in White

(* The rest, but for the line breaks before anything else. *)
Left(s) ==
  {n \in DOMAIN s : ~Removed(s, n) /\ \E b \in 1..n : s[b] # "break" /\ ~Removed(s, b)}

Place(S, n) == Cardinality({m \in S : m <= n})

Picked(s, S) == [k \in 1..Cardinality(S) |-> s[CHOOSE n \in S : Place(S, n) = k]]

Stripped(s) == Picked(s, Left(s))

-----------------------------------------------------------------------------
(* Properties *)

IsRow(r) ==
  /\ r.context \in Contexts /\ r.content \in Seq(Content)
  /\ r.calls \in Seq(BOOLEAN) /\ r.reasoning \in Indices \X (Nat \ {0})

TypeOK ==
  /\ pc \in {"reading", "regular", "cleanup", "done", "failed"}
  /\ choices \in [Indices -> Choice]
  /\ stored \in [Indices \X Contexts -> 0..2]
  /\ open \subseteq Indices /\ late \subseteq Indices
  /\ \A r \in buffer \cup rows : IsRow(r)
  /\ shown \in [Indices -> Seq(Content \cup {"start", "thought", "breach", "end"})]
  /\ finalized \in BOOLEAN /\ cancelled \in BOOLEAN
  /\ chunks \in 0..MaxChunks

(* Inside a block of the adapter's. *)
InBlock(s, n) ==
  \E a \in 1..n : s[a] = "start" /\ \A b \in a..n : s[b] # "end"

WellFormed(s) ==
  \A n \in DOMAIN s :
    /\ s[n] \in {"thought", "breach", "end"} => InBlock(s, n - 1)
    /\ s[n] \in Content \cup {"start"} => ~InBlock(s, n - 1)

(* streaming.go:301-427: however reasoning, content, tool calls and finish   *)
(* reasons of several choices interleave, the client sees every thought      *)
(* inside a block and every content outside, and no block stays open when    *)
(* [DONE] has come.                                                          *)
BlocksWellFormed ==
  \A i \in Indices :
    /\ WellFormed(shown[i])
    /\ finalized => ~InBlock(shown[i], Len(shown[i]))

(* What the pattern takes for its own: a marker that opens a block in the    *)
(* content or ends it in the reasoning, white space right behind a block,    *)
(* and a line break that is the first thing of all.                          *)
Undisturbed(s) ==
  \A n \in DOMAIN s :
    /\ s[n] \notin {"opening", "breach"}
    /\ s[n] \in White /\ n # 1 => s[n - 1] # "end"
    /\ s[n] = "break" => n # 1

(* transform.go:226-231, server.go:913: what the client sends back, with its *)
(* thinking blocks stripped, is the content the reasoning was stored under,  *)
(* so the next request finds it - also when the stream broke inside a block, *)
(* and when the content has an end marker of its own.                        *)
StripUndoesMirror ==
  \A i \in Indices :
    (pc = "reading" \/ finalized \/ ~cancelled) /\ Undisturbed(shown[i])
    => Stripped(shown[i]) = choices[i].content

Complete == \A i \in Indices : choices[i] = NewChoice \/ choices[i].finished

(* No other choice with reasoning has on the way had this one's content.     *)
Apart(i) ==
  \A j \in Indices \ {i} : choices[j].reasoning # 0 =>
    \A n \in 0..Len(choices[j].content) :
      choices[i].content # SubSeq(choices[j].content, 1, n)

Recorded(i, x) ==
  \E r \in rows : /\ SameKey(r, [context |-> x, content |-> choices[i].content,
                                 calls |-> IF chunks = 0 THEN choices[i].calls ELSE <<>>])
                  /\ r.reasoning = <<i, choices[i].reasoning>>

(* server.go:823: when the session is over and its batch committed, every    *)
(* choice's whole reasoning is under the key of its whole content - not the  *)
(* part that was stored early - whether the stream was finished or broke.    *)
(* What came behind a choice's finish reason is stored if the stream broke.  *)
FinalWordStored ==
  pc = "done" =>
    \A i \in Indices, x \in Contexts :
      /\ finalized => Complete /\ i \notin late
      /\ choices[i].reasoning # 0 /\ Apart(i)
      => Recorded(i, x)

(* server.go:823-824: "finalizes the streaming batch: stores pending         *)
(* reasoning contexts (if the stream was not cleanly finalized)".  So what   *)
(* a broken stream has brought should be stored.                             *)
BrokenStreamsAreStored ==
  chunks > 0 /\ pc \in {"done", "failed"} /\ ~finalized =>
    \A i \in Indices, x \in Contexts : choices[i].reasoning # 0 => Recorded(i, x)

=============================================================================
