--------------------------- MODULE ReasoningStore ---------------------------
(***************************************************************************)
(* The SQLite-backed cache of reasoning_content (internal/store/store.go)  *)
(* with the request handlers that share it and main's shutdown.            *)
(*                                                                         *)
(* A task is one slot of the concurrency limiter.  The handler running in  *)
(* it puts entries directly while it prepares the request, and, when the   *)
(* request streams, opens a batch, puts into it and ends it in a deferred  *)
(* call.  A version <<t, n>> names the n-th entry task t ever put; its     *)
(* text is abstracted away.  A critical section of the Go mutex that does  *)
(* not wait for anything else is one step; Prune and Close wait for the    *)
(* pooled connection while they hold the mutex, so there mu stays held.    *)
(***************************************************************************)
EXTENDS Integers, Sequences, FiniteSets

CONSTANTS
  Tasks,          \* slots of the limiter
  StreamTasks,    \* the slots whose requests may stream
  Main,           \* the main goroutine
  Nobody,         \* owner of a free mutex or connection, writer of old rows
  Keys,           \* cache keys
  MaxConcurrent,  \* max_concurrent_requests
  MaxRows,        \* maxRows; 0 is no cap
  MaxAge,         \* maxAge in ticks; 0 is no age limit
  PruneInterval,  \* pruneInterval, 100 in the code
  CanDisconnect,  \* whether a client may go away
  MaxPuts,        \* bound: entries a task puts in a behaviour
  MaxTime         \* bound: ticks of the clock

ASSUME TasksAssumption ==
  /\ StreamTasks \subseteq Tasks
  /\ Main \notin Tasks /\ Nobody \notin Tasks /\ Main # Nobody
ASSUME LimitsAssumption ==
  /\ MaxConcurrent \in Nat /\ MaxRows \in Nat /\ MaxAge \in Nat
  /\ PruneInterval \in Nat \ {0}
  /\ CanDisconnect \in BOOLEAN
ASSUME BoundsAssumption == MaxPuts \in Nat /\ MaxTime \in Nat

VARIABLES
  rows,       \* the table: for every key its row, NoRow when there is none
  dbOpen,     \* FALSE once db.Close has returned
  closed,     \* the store's closed flag
  mu,         \* who holds the store's mutex across a wait
  conn,       \* who holds the single pooled connection across steps
  batching,   \* the store's batching flag
  batchBuf,   \* the store's batchBuf
  putCount,   \* the store's atomic counter
  now,        \* the wall clock
  pc,         \* where every task, and Main, is
  streaming,  \* whether the task has called BeginBatch and not yet EndBatch
  cancelled,  \* whether the task's request context is cancelled
  items,      \* entries a task has in hand: one direct put or a taken batch
  stamp,      \* the created_at it will give them
  puts,       \* how many entries every task has put
  settled     \* history: versions superseded, pruned or reported as failed

vars == <<rows, dbOpen, closed, mu, conn, batching, batchBuf, putCount, now,
          pc, streaming, cancelled, items, stamp, puts, settled>>
lockVars == <<closed, mu, batching, batchBuf>>
taskVars == <<streaming, cancelled, items, stamp, puts>>

Version == (Tasks \cup {Nobody}) \X Nat
Item    == [key : Keys, ver : Version]
Row     == [ver : Version, at : Nat]
NoRow   == [ver |-> <<Nobody, 0>>, at |-> 0]
OldRow  == [ver |-> <<Nobody, 1>>, at |-> 0]   \* left by an earlier process

Present(table) == {k \in Keys : table[k].ver[2] > 0}

TaskPC == {"idle", "handling", "direct", "ending", "beginTx", "commit",
           "pruneLock", "pruneAge", "pruneRows"}
MainPC == {"serving", "draining", "pruneAge", "pruneRows", "reclose",
           "exited"}

-----------------------------------------------------------------------------
(* A fresh process: NewReasoningStore has pruned what it found. *)
Init ==
  /\ rows \in [Keys -> {NoRow, OldRow}]
  /\ MaxRows > 0 => Cardinality(Present(rows)) <= MaxRows
  /\ dbOpen = TRUE /\ closed = FALSE
  /\ mu = Nobody /\ conn = Nobody
  /\ batching = FALSE /\ batchBuf = <<>>
  /\ putCount = 0 /\ now = MaxAge   \* one tick later the old rows expire
  /\ pc = [t \in Tasks \cup {Main} |-> IF t = Main THEN "serving" ELSE "idle"]
  /\ streaming = [t \in Tasks |-> FALSE]
  /\ cancelled = [t \in Tasks |-> FALSE]
  /\ items = [t \in Tasks |-> <<>>]
  /\ stamp = [t \in Tasks |-> 0]
  /\ puts = [t \in Tasks |-> 0]
  /\ settled = {}

Active == {t \in Tasks : pc[t] # "idle"}
Goto(t, label) == pc' = [pc EXCEPT ![t] = label]

(* A statement or BeginTx of task t fails instead of waiting for the       *)
(* connection: its context is cancelled or the pool is closed.             *)
DbRefuses(t) == cancelled[t] \/ ~dbOpen

(* The handler returns: the limiter's slot is free for another request. *)
Return(t) ==
  /\ Goto(t, "idle")
  /\ cancelled' = [cancelled EXCEPT ![t] = FALSE]

Versions(seq) == {seq[i].ver : i \in DOMAIN seq}

-----------------------------------------------------------------------------
(* The handler around the store *)

(* The limiter has a free slot and the listener is open. *)
Admit(t) ==
  /\ pc[Main] = "serving" /\ pc[t] = "idle"
  /\ Cardinality(Active) < MaxConcurrent
  /\ Goto(t, "handling")
  /\ UNCHANGED <<rows, dbOpen, conn, putCount, now, settled, lockVars, taskVars>>

(* A handler without an open batch returns. *)
Finish(t) ==
  /\ pc[t] = "handling" /\ ~streaming[t]
  /\ Return(t)
  /\ UNCHANGED <<rows, dbOpen, conn, putCount, now, settled, lockVars,
                 streaming, items, stamp, puts>>

Disconnect(t) ==
  /\ CanDisconnect /\ pc[t] # "idle" /\ ~cancelled[t]
  /\ cancelled' = [cancelled EXCEPT ![t] = TRUE]
  /\ UNCHANGED <<rows, dbOpen, conn, putCount, now, settled, lockVars, pc,
                 streaming, items, stamp, puts>>

BeginBatch(t) ==
  /\ t \in StreamTasks /\ pc[t] = "handling" /\ ~streaming[t]
  /\ mu = Nobody
  /\ batchBuf' = <<>> /\ batching' = TRUE
  /\ streaming' = [streaming EXCEPT ![t] = TRUE]
  /\ UNCHANGED <<rows, dbOpen, closed, mu, conn, putCount, now, pc, cancelled,
                 items, stamp, puts, settled>>

(* The response ended, one way or another; cleanupStreamingBatch runs. *)
EndStream(t) ==
  /\ pc[t] = "handling" /\ streaming[t]
  /\ Goto(t, "ending")
  /\ UNCHANGED <<rows, dbOpen, conn, putCount, now, settled, lockVars, taskVars>>

-----------------------------------------------------------------------------
(* Put and putDirect *)

NextVersion(t) == <<t, puts[t] + 1>>

(* Under the mutex: buffered while anybody's batch is open. *)
PutBuffered(t, k) ==
  /\ mu = Nobody /\ batching
  /\ batchBuf' = Append(batchBuf, [key |-> k, ver |-> NextVersion(t)])
  /\ UNCHANGED <<pc, items, stamp>>

(* Otherwise putDirect is called, which reads the clock before it waits. *)
PutDirect(t, k) ==
  /\ mu = Nobody /\ ~batching
  /\ items' = [items EXCEPT ![t] = <<[key |-> k, ver |-> NextVersion(t)]>>]
  /\ stamp' = [stamp EXCEPT ![t] = now]
  /\ Goto(t, "direct")
  /\ UNCHANGED batchBuf

Put(t, k) ==
  /\ pc[t] = "handling" /\ puts[t] < MaxPuts
  /\ PutBuffered(t, k) \/ PutDirect(t, k)
  /\ puts' = [puts EXCEPT ![t] = @ + 1]
  /\ UNCHANGED <<rows, dbOpen, closed, mu, conn, batching, putCount, now,
                 streaming, cancelled, settled>>

(* Where a put of n entries continues: the counter is tested with %. *)
PruneDue(n) == (putCount + n) % PruneInterval = 0

(* Mutant of Last: the first entry for a key wins. *)
FirstWins(seq) ==
  {i \in DOMAIN seq : \A j \in DOMAIN seq : j < i => seq[j].key # seq[i].key}

(* The entries of a batch that no later entry of it overwrites. *)
Last(seq) ==
  {i \in DOMAIN seq : \A j \in DOMAIN seq : j > i => seq[j].key # seq[i].key}

(* Mutant of Upsert: ON CONFLICT DO NOTHING. *)
InsertOrIgnore(seq, at) ==
  LET fresh == {seq[i].key : i \in Last(seq)} \ Present(rows) IN
  /\ rows' = [k \in Keys |->
                IF k \in fresh
                THEN [ver |-> seq[CHOOSE i \in Last(seq) : seq[i].key = k].ver,
                      at |-> at]
                ELSE rows[k]]
  /\ settled' = settled \cup {seq[i].ver : i \in DOMAIN seq \ Last(seq)}
  /\ putCount' = putCount + Len(seq)

(* INSERT ... ON CONFLICT(key) DO UPDATE for every entry, in order. *)
Upsert(seq, at) ==
  LET written == {seq[i].key : i \in Last(seq)} IN
  /\ rows' = [k \in Keys |->
                IF k \in written
                THEN [ver |-> seq[CHOOSE i \in Last(seq) : seq[i].key = k].ver,
                      at |-> at]
                ELSE rows[k]]
  /\ settled' = settled \cup {rows[k].ver : k \in written}
                       \cup {seq[i].ver : i \in DOMAIN seq \ Last(seq)}
  /\ putCount' = putCount + Len(seq)

DirectInsert(t) ==
  /\ pc[t] = "direct" /\ ~DbRefuses(t) /\ conn = Nobody
  /\ Upsert(items[t], stamp[t])
  /\ Goto(t, IF PruneDue(1) THEN "pruneAge" ELSE "handling")
  /\ items' = [items EXCEPT ![t] = <<>>]
  /\ UNCHANGED <<dbOpen, conn, now, lockVars, streaming, cancelled, stamp, puts>>

DirectFails(t) ==
  /\ pc[t] = "direct" /\ DbRefuses(t)
  /\ settled' = settled \cup Versions(items[t])
  /\ items' = [items EXCEPT ![t] = <<>>]
  /\ Goto(t, "handling")
  /\ UNCHANGED <<rows, dbOpen, conn, putCount, now, lockVars, streaming,
                 cancelled, stamp, puts>>

-----------------------------------------------------------------------------
(* EndBatch *)

(* Mutant of TakeBatch: the early return precedes the reset of the flag. *)
TakeBatchLate(t) ==
  /\ pc[t] = "ending" /\ mu = Nobody
  /\ batchBuf' = <<>> /\ batching' = (batching /\ batchBuf = <<>>)
  /\ streaming' = [streaming EXCEPT ![t] = FALSE]
  /\ items' = [items EXCEPT ![t] = batchBuf]
  /\ stamp' = [stamp EXCEPT ![t] = now]
  /\ IF batchBuf = <<>> THEN Return(t) ELSE Goto(t, "beginTx") /\ UNCHANGED cancelled
  /\ UNCHANGED <<rows, dbOpen, closed, mu, conn, putCount, now, puts, settled>>

(* The part under the mutex, and the early return on an empty buffer. *)
TakeBatch(t) ==
  /\ pc[t] = "ending" /\ mu = Nobody
  /\ batchBuf' = <<>> /\ batching' = FALSE
  /\ streaming' = [streaming EXCEPT ![t] = FALSE]
  /\ items' = [items EXCEPT ![t] = batchBuf]
  /\ stamp' = [stamp EXCEPT ![t] = now]
  /\ IF batchBuf = <<>> THEN Return(t) ELSE Goto(t, "beginTx") /\ UNCHANGED cancelled
  /\ UNCHANGED <<rows, dbOpen, closed, mu, conn, putCount, now, puts, settled>>

BeginTx(t) ==
  /\ pc[t] = "beginTx" /\ ~DbRefuses(t) /\ conn = Nobody
  /\ conn' = t
  /\ Goto(t, "commit")
  /\ UNCHANGED <<rows, dbOpen, putCount, now, settled, lockVars, taskVars>>

(* BeginTx, an insert or Commit fails; the deferred Rollback frees conn. *)
BatchFails(t) ==
  /\ \/ pc[t] = "beginTx" /\ DbRefuses(t) /\ UNCHANGED conn
     \/ pc[t] = "commit" /\ cancelled[t] /\ conn' = Nobody
  /\ settled' = settled \cup Versions(items[t])
  /\ items' = [items EXCEPT ![t] = <<>>]
  /\ Return(t)
  /\ UNCHANGED <<rows, dbOpen, putCount, now, lockVars, streaming, stamp, puts>>

(* Mutant of Commit: Prune is called before the transaction is over. *)
PruneInTx(t) ==
  /\ pc[t] = "commit" /\ ~cancelled[t]
  /\ Upsert(items[t], stamp[t])
  /\ items' = [items EXCEPT ![t] = <<>>]
  /\ IF PruneDue(Len(items[t]))
     THEN Goto(t, "pruneLock") /\ UNCHANGED <<cancelled, conn>>
     ELSE Return(t) /\ conn' = Nobody
  /\ UNCHANGED <<dbOpen, now, lockVars, streaming, stamp, puts>>

(* Mutant of Commit: every entry is written in a transaction of its own. *)
CommitEach(t) ==
  /\ pc[t] = "commit" /\ ~cancelled[t]
  /\ Upsert(<<Head(items[t])>>, stamp[t])
  /\ items' = [items EXCEPT ![t] = Tail(@)]
  /\ IF Len(items[t]) > 1 THEN Goto(t, "beginTx") /\ UNCHANGED cancelled ELSE Return(t)
  /\ conn' = Nobody
  /\ UNCHANGED <<dbOpen, now, lockVars, streaming, stamp, puts>>

(* db.Close does not reach a transaction that already has the connection. *)
Commit(t) ==
  /\ pc[t] = "commit" /\ ~cancelled[t]
  /\ Upsert(items[t], stamp[t])
  /\ conn' = Nobody
  /\ items' = [items EXCEPT ![t] = <<>>]
  /\ IF PruneDue(Len(items[t])) THEN Goto(t, "pruneLock") /\ UNCHANGED cancelled
                                ELSE Return(t)
  /\ UNCHANGED <<dbOpen, now, lockVars, streaming, stamp, puts>>

-----------------------------------------------------------------------------
(* Prune: EndBatch takes the mutex for it, putDirect does not. *)

LockForPrune(t) ==
  /\ pc[t] = "pruneLock" /\ mu = Nobody
  /\ mu' = t
  /\ Goto(t, "pruneAge")
  /\ UNCHANGED <<rows, dbOpen, closed, conn, batching, batchBuf, putCount, now,
                 settled, taskVars>>

Expired == {k \in Present(rows) : MaxAge > 0 /\ rows[k].at < now - MaxAge}

(* The key sets ORDER BY created_at DESC LIMIT maxRows may select: the     *)
(* order of rows with equal created_at is SQLite's choice.                 *)
Newest ==
  IF MaxRows = 0 \/ Cardinality(Present(rows)) <= MaxRows THEN {Present(rows)}
  ELSE {keep \in SUBSET Present(rows) :
          /\ Cardinality(keep) = MaxRows
          /\ \A k \in keep, l \in Present(rows) \ keep : rows[k].at >= rows[l].at}

(* Mutant of Delete: a row is marked as gone instead of removed. *)
Tombstone(gone) ==
  /\ rows' = [k \in Keys |-> IF k \in gone THEN [NoRow EXCEPT !.at = -1] ELSE rows[k]]
  /\ settled' = settled \cup {rows[k].ver : k \in gone}

Delete(gone) ==
  /\ rows' = [k \in Keys |-> IF k \in gone THEN NoRow ELSE rows[k]]
  /\ settled' = settled \cup {rows[k].ver : k \in gone}

(* pruneLocked returned to Prune in EndBatch or to putDirect in Put. *)
PruneReturns(t) ==
  IF mu = t THEN mu' = Nobody /\ Return(t)
            ELSE Goto(t, "handling") /\ UNCHANGED <<mu, cancelled>>

PruneAge(t) ==
  /\ pc[t] = "pruneAge" /\ ~DbRefuses(t) /\ conn = Nobody
  /\ Delete(Expired)
  /\ Goto(t, "pruneRows")
  /\ UNCHANGED <<dbOpen, conn, putCount, now, lockVars, taskVars>>

PruneRows(t) ==
  /\ pc[t] = "pruneRows" /\ ~DbRefuses(t) /\ conn = Nobody
  /\ \E keep \in Newest : Delete(Present(rows) \ keep)
  /\ PruneReturns(t)
  /\ UNCHANGED <<dbOpen, closed, conn, batching, batchBuf, putCount, now,
                 streaming, items, stamp, puts>>

(* An error of either statement is returned, and ignored by the caller. *)
PruneFails(t) ==
  /\ pc[t] \in {"pruneAge", "pruneRows"} /\ DbRefuses(t)
  /\ PruneReturns(t)
  /\ UNCHANGED <<rows, dbOpen, closed, conn, batching, batchBuf, putCount, now,
                 settled, streaming, items, stamp, puts>>

-----------------------------------------------------------------------------
(* Shutdown and the deferred Close of main *)

(* A signal: the listener closes, http.Server.Shutdown waits for handlers. *)
Signal ==
  /\ pc[Main] = "serving"
  /\ Goto(Main, "draining")
  /\ UNCHANGED <<rows, dbOpen, conn, putCount, now, settled, lockVars, taskVars>>

(* The drain is over, or its ten seconds are: Close takes the mutex. *)
CloseLock ==
  /\ pc[Main] = "draining" /\ mu = Nobody
  /\ mu' = Main /\ closed' = TRUE
  /\ Goto(Main, "pruneAge")
  /\ UNCHANGED <<rows, dbOpen, conn, batching, batchBuf, putCount, now, settled,
                 taskVars>>

ClosePruneAge ==
  /\ pc[Main] = "pruneAge" /\ conn = Nobody
  /\ Delete(Expired)
  /\ Goto(Main, "pruneRows")
  /\ UNCHANGED <<dbOpen, conn, putCount, now, lockVars, taskVars>>

(* The last prune, then db.Close and the deferred unlock. *)
CloseDb ==
  /\ pc[Main] = "pruneRows" /\ conn = Nobody
  /\ \E keep \in Newest : Delete(Present(rows) \ keep)
  /\ dbOpen' = FALSE /\ mu' = Nobody
  /\ Goto(Main, "reclose")
  /\ UNCHANGED <<closed, conn, batching, batchBuf, putCount, now, taskVars>>

(* main's deferred Close finds the store closed; the process exits. *)
CloseAgain ==
  /\ pc[Main] = "reclose" /\ mu = Nobody /\ closed
  /\ Goto(Main, "exited")
  /\ UNCHANGED <<rows, dbOpen, conn, putCount, now, settled, lockVars, taskVars>>

Tick ==
  /\ pc[Main] # "exited" /\ now < MaxTime
  /\ now' = now + 1
  /\ UNCHANGED <<rows, dbOpen, conn, putCount, pc, settled, lockVars, taskVars>>

-----------------------------------------------------------------------------
StoreCall(t) ==
  \/ DirectInsert(t) \/ DirectFails(t)
  \/ TakeBatch(t) \/ BeginTx(t) \/ BatchFails(t) \/ Commit(t)
  \/ LockForPrune(t) \/ PruneAge(t) \/ PruneRows(t) \/ PruneFails(t)

TaskNext(t) ==
  /\ pc[Main] # "exited"
  /\ \/ Admit(t) \/ Finish(t) \/ Disconnect(t) \/ BeginBatch(t) \/ EndStream(t)
     \/ \E k \in Keys : Put(t, k)
     \/ StoreCall(t)

MainNext == Signal \/ CloseLock \/ ClosePruneAge \/ CloseDb \/ CloseAgain

(* The process is gone. *)
Exited == pc[Main] = "exited" /\ UNCHANGED vars

Next == (\E t \in Tasks : TaskNext(t)) \/ MainNext \/ Tick \/ Exited

Spec == Init /\ [][Next]_vars

(* The Go mutex hands over to a goroutine that has waited for a            *)
(* millisecond and database/sql serves every waiter of the pool, so a step *)
(* that is enabled again and again is taken.  Nothing forces a handler to  *)
(* return, a client to disconnect or a signal to arrive.                   *)
Fairness ==
  /\ \A t \in Tasks : SF_vars(pc[Main] # "exited" /\ StoreCall(t))
  /\ SF_vars(CloseLock \/ ClosePruneAge \/ CloseDb \/ CloseAgain)

FairSpec == Spec /\ Fairness

-----------------------------------------------------------------------------
(* Properties *)

TypeOK ==
  /\ rows \in [Keys -> Row]
  /\ dbOpen \in BOOLEAN /\ closed \in BOOLEAN
  /\ mu \in Tasks \cup {Main, Nobody}
  /\ conn \in Tasks \cup {Nobody}
  /\ batching \in BOOLEAN /\ batchBuf \in Seq(Item)
  /\ putCount \in Nat /\ now \in Nat
  /\ pc \in [Tasks \cup {Main} -> TaskPC \cup MainPC]
  /\ \A t \in Tasks : pc[t] \in TaskPC
  /\ pc[Main] \in MainPC
  /\ streaming \in [Tasks -> BOOLEAN]
  /\ cancelled \in [Tasks -> BOOLEAN]
  /\ items \in [Tasks -> Seq(Item)]
  /\ stamp \in [Tasks -> Nat]
  /\ puts \in [Tasks -> Nat]
  /\ settled \subseteq Version

(* An entry in memory only: in the batch buffer or in some call's hands.     *)
Waiting(v) ==
  \/ v \in Versions(batchBuf)
  \/ \E t \in Tasks : v \in Versions(items[t])

(* An entry in the table, or superseded, pruned or reported as failed.       *)
Recorded(v) == v \in settled \/ \E k \in Keys : rows[k].ver = v

(* Memory keeps an entry no longer than the process lives.                   *)
Kept(v) == Recorded(v) \/ (pc[Main] # "exited" /\ Waiting(v))

InStoreCall(t) == pc[t] \in TaskPC \ {"idle", "handling"}

(* The drain ran out: main exits under an open stream or a store call.       *)
CutOff == pc[Main] = "exited" /\ \E t \in Tasks : streaming[t] \/ InStoreCall(t)

(* Put has told its caller "stored"; nothing may then make the entry vanish  *)
(* that did not supersede, prune or report it.  The one exception is what an *)
(* exit finds in memory while a stream or a store call is still running: a   *)
(* shutdown that all handlers have left in time loses nothing.               *)
NoSilentLoss ==
  \A t \in Tasks : \A n \in 1..puts[t] :
    Kept(<<t, n>>) \/ (CutOff /\ Waiting(<<t, n>>))

(* What server.go:120-123 says of a shutdown: the batch is flushed, whatever *)
(* is still running, so that what was in the buffer is kept.                 *)
ShutdownFlushes == \A v \in Versions(batchBuf) : Kept(v)

(* Without overlapping streams batching mode is exactly "a stream is open". *)
SingleStream == \A s, t \in StreamTasks : s = t
SingleInv ==
  \A t \in Tasks :
    /\ streaming[t] => batching
    /\ pc[t] = "ending" => streaming[t]

(* A streamed response puts ever longer reasoning under one key (first the   *)
(* partial, then the complete text): a write leaves in the table nothing of  *)
(* a stream that is older than what it replaced, or than another entry of    *)
(* the same stream and key in the batch that was written.                    *)
WrittenFor(k) ==
  {v \in UNION {Versions(items[u]) : u \in Tasks} :
     \E u \in Tasks : \E i \in DOMAIN items[u] :
       items'[u] # items[u] /\ items[u][i] = [key |-> k, ver |-> v]}
StreamWritesInOrder ==
  [][\A k \in Keys : LET new == rows'[k].ver IN
       new # rows[k].ver /\ new[1] \in StreamTasks =>
         \A old \in {rows[k].ver} \cup WrittenFor(k) :
           old[1] = new[1] => old[2] <= new[2]]_vars

(* Whatever interleaving of overlapping streams happened: once no batch is   *)
(* open in any handler, the store is not left in batching mode, where every  *)
(* later Put would be buffered and never written.                            *)
IdleStoreIsClean ==
  (\A t \in Tasks : ~streaming[t]) => ~batching /\ batchBuf = <<>>

(* What makes the two above inductive: batching mode is always some open     *)
(* batch's, only streams open one, and a call's entries are in its hands     *)
(* only while it is between Put or EndBatch and the end of the write.        *)
BatchInv ==
  /\ batching => \E t \in Tasks : streaming[t]
  /\ batchBuf # <<>> => batching
  /\ \A t \in Tasks : streaming[t] => t \in StreamTasks
  /\ \A t \in Tasks : items[t] # <<>> => pc[t] \in {"direct", "beginTx", "commit"}

(* Lock order of the mutex and the one-connection pool: a task that holds    *)
(* the connection across steps neither holds nor waits for the mutex, so     *)
(* Prune and Close, which wait for the connection with the mutex held, never *)
(* wait for someone who waits for them.                                      *)
LockOrder ==
  \A t \in Tasks : conn = t => mu # t /\ pc[t] = "commit"

(* What makes it inductive: the mutex is held across steps by a prune only.  *)
LockInv ==
  \A t \in Tasks :
    /\ conn = t => pc[t] = "commit"
    /\ mu = t => pc[t] \in {"pruneAge", "pruneRows"}

(* No call of the store hangs: Put and EndBatch return to the handler.       *)
StoreCallsReturn ==
  \A t \in Tasks :
    InStoreCall(t) ~> ~InStoreCall(t) \/ pc[Main] = "exited"

(* Close, called at a signal with whatever handlers are still running,       *)
(* returns and lets the process exit.                                        *)
CloseReturns == pc[Main] = "draining" ~> pc[Main] = "exited"

-----------------------------------------------------------------------------
(* The promise the store keeps *)

Entries(seq) == {seq[i] : i \in DOMAIN seq}
Shown  == [k \in Keys |-> rows[k].ver]
Groups ==
  {Entries(seq) : seq \in {batchBuf} \cup {items[t] : t \in Tasks}} \ {{}}

Cache == INSTANCE ReasoningCache WITH
  Writers <- Tasks, Streams <- StreamTasks,
  shown <- Shown, groups <- Groups, gone <- settled

(* Behind its lock, its connection and its buffer the store is a map that    *)
(* shows one version per key: an accepted entry waits in a group, a group is *)
(* written or given up as a whole whichever statement fails and whoever      *)
(* disconnects meanwhile, a stream's newest entry wins, and while the        *)
(* process lives nothing accepted or shown disappears except by being        *)
(* superseded, pruned or reported.                                           *)
ImplementsCache == Cache!Spec

=============================================================================
