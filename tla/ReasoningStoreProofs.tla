------------------------ MODULE ReasoningStoreProofs ------------------------
(***************************************************************************)
(* What holds of ReasoningStore for any number of slots, keys and puts.    *)
(***************************************************************************)
EXTENDS ReasoningStore, TLAPS

-----------------------------------------------------------------------------
(* Lemmas about the operators of the model *)

(* Appending to a sequence of entries gives a sequence of entries that has *)
(* the versions of the old one and the new version.                        *)
LEMMA AppendVersions ==
  ASSUME NEW seq \in Seq(Item), NEW x \in Item
  PROVE  /\ Append(seq, x) \in Seq(Item)
         /\ Versions(Append(seq, x)) = Versions(seq) \cup {x.ver}
<1>1. Append(seq, x) \in Seq(Item)
  OBVIOUS
<1>2. DOMAIN Append(seq, x) = 1..(Len(seq) + 1) /\ DOMAIN seq = 1..Len(seq)
      /\ Len(seq) \in Nat
  OBVIOUS
<1>3. \A i \in 1..Len(seq) : Append(seq, x)[i] = seq[i]
  OBVIOUS
<1>4. Append(seq, x)[Len(seq) + 1] = x
  OBVIOUS
<1>5. Versions(Append(seq, x)) = Versions(seq) \cup {x.ver}
  BY <1>2, <1>3, <1>4 DEF Versions
<1>. QED
  BY <1>1, <1>5

(* A batch of entries is written as rows, and its versions are versions. *)
LEMMA UpsertTyped ==
  ASSUME rows \in [Keys -> Row], settled \subseteq Version, putCount \in Nat,
         NEW seq \in Seq(Item), NEW at \in Nat, Upsert(seq, at)
  PROVE  rows' \in [Keys -> Row] /\ settled' \subseteq Version /\ putCount' \in Nat
<1>1. \A i \in DOMAIN seq : seq[i].key \in Keys /\ seq[i].ver \in Version
  <2>1. \A i \in DOMAIN seq : seq[i] \in Item
    OBVIOUS
  <2>. QED
    BY <2>1 DEF Item
<1>2. Last(seq) \subseteq DOMAIN seq
  BY DEF Last
<1>3. \A k \in Keys : rows[k].ver \in Version
  BY DEF Row
<1>4. \A k \in {seq[i].key : i \in Last(seq)} :
        (CHOOSE i \in Last(seq) : seq[i].key = k) \in DOMAIN seq
  BY <1>2
<1>5. \A k \in Keys : rows'[k] \in Row
  <2> TAKE k \in Keys
  <2>1. CASE k \in {seq[i].key : i \in Last(seq)}
    <3>1. rows'[k] = [ver |-> seq[CHOOSE i \in Last(seq) : seq[i].key = k].ver,
                      at |-> at]
      BY <2>1 DEF Upsert
    <3>2. seq[CHOOSE i \in Last(seq) : seq[i].key = k].ver \in Version
      BY <2>1, <1>1, <1>4
    <3>. QED
      BY <3>1, <3>2 DEF Row
  <2>2. CASE k \notin {seq[i].key : i \in Last(seq)}
    <3>1. rows'[k] = rows[k]
      BY <2>2 DEF Upsert
    <3>. QED
      BY <3>1
  <2>. QED
    BY <2>1, <2>2
<1>6. rows' \in [Keys -> Row]
  <2>1. rows' = [k \in Keys |-> rows'[k]]
    BY DEF Upsert
  <2>. QED
    BY <2>1, <1>5
<1>7. settled' \subseteq Version
  BY <1>1, <1>2, <1>3 DEF Upsert
<1>8. putCount' \in Nat
  <2>1. Len(seq) \in Nat
    OBVIOUS
  <2>. QED
    BY <2>1 DEF Upsert
<1>. QED
  BY <1>6, <1>7, <1>8

(* Pruned rows are still rows. *)
LEMMA DeleteTyped ==
  ASSUME rows \in [Keys -> Row], settled \subseteq Version, NEW gone, Delete(gone),
         gone \subseteq Keys
  PROVE  rows' \in [Keys -> Row] /\ settled' \subseteq Version
<1>1. NoRow \in Row
  BY DEF NoRow, Row, Version
<1>2. \A k \in Keys : rows[k].ver \in Version
  BY DEF Row
<1>. QED
  BY <1>1, <1>2 DEF Delete

(* Prune deletes keys of the table only. *)
LEMMA PrunedKeys ==
  /\ Expired \subseteq Keys
  /\ \A keep : Present(rows) \ keep \subseteq Keys
BY DEF Expired, Present

(* A task moves to a place of a task, and nobody else moves. *)
LEMMA GotoTyped ==
  ASSUME TypeOK, NEW t \in Tasks, NEW label \in TaskPC, Goto(t, label)
  PROVE  /\ pc' \in [Tasks \cup {Main} -> TaskPC \cup MainPC]
         /\ \A u \in Tasks : pc'[u] \in TaskPC
         /\ pc'[Main] \in MainPC
         /\ pc'[t] = label
         /\ \A u \in Tasks \cup {Main} : u # t => pc'[u] = pc[u]
BY TasksAssumption DEF Goto, TypeOK

(* Main moves to a place of Main, and no task moves. *)
LEMMA GotoMainTyped ==
  ASSUME TypeOK, NEW label \in MainPC, Goto(Main, label)
  PROVE  /\ pc' \in [Tasks \cup {Main} -> TaskPC \cup MainPC]
         /\ \A u \in Tasks : pc'[u] = pc[u] /\ pc'[u] \in TaskPC
         /\ pc'[Main] = label
BY TasksAssumption DEF Goto, TypeOK

(* The next version of a task is a version. *)
LEMMA NextVersionTyped ==
  ASSUME TypeOK, NEW t \in Tasks
  PROVE  NextVersion(t) \in Version /\ NextVersion(t) = <<t, puts[t] + 1>>
BY DEF NextVersion, Version, TypeOK

(* The versions of a batch are versions. *)
LEMMA ItemVersions ==
  ASSUME NEW seq \in Seq(Item)
  PROVE  Versions(seq) \subseteq Version
<1>1. \A i \in DOMAIN seq : seq[i] \in Item
  OBVIOUS
<1>. QED
  BY <1>1 DEF Versions, Item

(* Leaving pruneLocked keeps the types of what it writes. *)
LEMMA PruneReturnsTyped ==
  ASSUME TypeOK, NEW t \in Tasks, PruneReturns(t)
  PROVE  /\ pc' \in [Tasks \cup {Main} -> TaskPC \cup MainPC]
         /\ \A u \in Tasks : pc'[u] \in TaskPC
         /\ pc'[Main] \in MainPC
         /\ mu' \in Tasks \cup {Main, Nobody}
         /\ cancelled' \in [Tasks -> BOOLEAN]
<1>1. \E label \in TaskPC : Goto(t, label)
  BY DEF PruneReturns, Return, TaskPC
<1>. QED
  BY <1>1, GotoTyped DEF PruneReturns, Return, TypeOK

-----------------------------------------------------------------------------
(* Type correctness *)

LEMMA TypeInit == Init => TypeOK
<1> SUFFICES ASSUME Init PROVE TypeOK
  OBVIOUS
<1>1. NoRow \in Row /\ OldRow \in Row
  BY DEF NoRow, OldRow, Row, Version
<1>2. rows \in [Keys -> Row]
  BY <1>1 DEF Init
<1>3. /\ pc \in [Tasks \cup {Main} -> TaskPC \cup MainPC]
      /\ \A t \in Tasks : pc[t] \in TaskPC
      /\ pc[Main] \in MainPC
  BY TasksAssumption DEF Init, TaskPC, MainPC
<1>4. batchBuf \in Seq(Item) /\ items \in [Tasks -> Seq(Item)]
  BY DEF Init
<1>. QED
  BY <1>2, <1>3, <1>4, LimitsAssumption DEF Init, TypeOK

LEMMA TypeStep == TypeOK /\ [Next]_vars => TypeOK'
<1> SUFFICES ASSUME TypeOK, [Next]_vars PROVE TypeOK'
  OBVIOUS
<1> USE DEF lockVars, taskVars
<1>1. ASSUME NEW t \in Tasks, Admit(t) PROVE TypeOK'
  <2>1. Goto(t, "handling") /\ "handling" \in TaskPC
    BY <1>1 DEF Admit, TaskPC
  <2>. QED
    BY <1>1, <2>1, GotoTyped DEF Admit, TypeOK
<1>2. ASSUME NEW t \in Tasks, Finish(t) PROVE TypeOK'
  <2>1. Goto(t, "idle") /\ "idle" \in TaskPC
    BY <1>2 DEF Finish, Return, TaskPC
  <2>. QED
    BY <1>2, <2>1, GotoTyped DEF Finish, Return, TypeOK
<1>3. ASSUME NEW t \in Tasks, Disconnect(t) PROVE TypeOK'
  BY <1>3 DEF Disconnect, TypeOK
<1>4. ASSUME NEW t \in Tasks, BeginBatch(t) PROVE TypeOK'
  <2>1. batchBuf' \in Seq(Item)
    BY <1>4 DEF BeginBatch
  <2>. QED
    BY <1>4, <2>1 DEF BeginBatch, TypeOK
<1>5. ASSUME NEW t \in Tasks, EndStream(t) PROVE TypeOK'
  <2>1. Goto(t, "ending") /\ "ending" \in TaskPC
    BY <1>5 DEF EndStream, TaskPC
  <2>. QED
    BY <1>5, <2>1, GotoTyped DEF EndStream, TypeOK
<1>6. ASSUME NEW t \in Tasks, NEW k \in Keys, Put(t, k) PROVE TypeOK'
  <2>1. [key |-> k, ver |-> NextVersion(t)] \in Item
    BY NextVersionTyped DEF Item
  <2>2. CASE PutBuffered(t, k)
    <3>1. batchBuf' \in Seq(Item)
      BY <2>1, <2>2, AppendVersions DEF PutBuffered, TypeOK
    <3>. QED
      BY <1>6, <2>2, <3>1 DEF PutBuffered, Put, TypeOK
  <2>3. CASE PutDirect(t, k)
    <3>1. <<[key |-> k, ver |-> NextVersion(t)]>> \in Seq(Item)
      BY <2>1
    <3>2. items' \in [Tasks -> Seq(Item)]
      BY <2>3, <3>1 DEF PutDirect, TypeOK
    <3>3. Goto(t, "direct") /\ "direct" \in TaskPC
      BY <2>3 DEF PutDirect, TaskPC
    <3>4. stamp' \in [Tasks -> Nat] /\ puts' \in [Tasks -> Nat] /\ UNCHANGED batchBuf
      BY <1>6, <2>3 DEF PutDirect, Put, TypeOK
    <3>. QED
      BY <1>6, <3>2, <3>3, <3>4, GotoTyped DEF Put, TypeOK
  <2>. QED
    BY <1>6, <2>2, <2>3 DEF Put
<1>7. ASSUME NEW t \in Tasks, DirectInsert(t) PROVE TypeOK'
  <2>1. \E label \in TaskPC : Goto(t, label)
    BY <1>7 DEF DirectInsert, TaskPC
  <2>2. rows' \in [Keys -> Row] /\ settled' \subseteq Version /\ putCount' \in Nat
    <3>1. items[t] \in Seq(Item) /\ stamp[t] \in Nat /\ Upsert(items[t], stamp[t])
      BY <1>7 DEF DirectInsert, TypeOK
    <3>. QED
      BY <3>1, UpsertTyped DEF TypeOK
  <2>3. items' \in [Tasks -> Seq(Item)]
    BY <1>7 DEF DirectInsert, TypeOK
  <2>. QED
    BY <1>7, <2>1, <2>2, <2>3, GotoTyped DEF DirectInsert, TypeOK
<1>8. ASSUME NEW t \in Tasks, DirectFails(t) PROVE TypeOK'
  <2>1. Goto(t, "handling") /\ "handling" \in TaskPC
    BY <1>8 DEF DirectFails, TaskPC
  <2>2. Versions(items[t]) \subseteq Version
    BY ItemVersions DEF TypeOK
  <2>3. items' \in [Tasks -> Seq(Item)]
    BY <1>8 DEF DirectFails, TypeOK
  <2>. QED
    BY <1>8, <2>1, <2>2, <2>3, GotoTyped DEF DirectFails, TypeOK
<1>9. ASSUME NEW t \in Tasks, TakeBatch(t) PROVE TypeOK'
  <2>1. \E label \in TaskPC : Goto(t, label)
    BY <1>9 DEF TakeBatch, Return, TaskPC
  <2>2. items' \in [Tasks -> Seq(Item)] /\ batchBuf' \in Seq(Item)
    BY <1>9 DEF TakeBatch, TypeOK
  <2>3. cancelled' \in [Tasks -> BOOLEAN]
    BY <1>9 DEF TakeBatch, Return, TypeOK
  <2>. QED
    BY <1>9, <2>1, <2>2, <2>3, GotoTyped DEF TakeBatch, TypeOK
<1>10. ASSUME NEW t \in Tasks, BeginTx(t) PROVE TypeOK'
  <2>1. Goto(t, "commit") /\ "commit" \in TaskPC
    BY <1>10 DEF BeginTx, TaskPC
  <2>. QED
    BY <1>10, <2>1, GotoTyped DEF BeginTx, TypeOK
<1>11. ASSUME NEW t \in Tasks, BatchFails(t) PROVE TypeOK'
  <2>1. Goto(t, "idle") /\ "idle" \in TaskPC
    BY <1>11 DEF BatchFails, Return, TaskPC
  <2>2. Versions(items[t]) \subseteq Version
    BY ItemVersions DEF TypeOK
  <2>3. items' \in [Tasks -> Seq(Item)]
    BY <1>11 DEF BatchFails, TypeOK
  <2>4. conn' \in Tasks \cup {Nobody}
    BY <1>11 DEF BatchFails, TypeOK
  <2>. QED
    BY <1>11, <2>1, <2>2, <2>3, <2>4, GotoTyped DEF BatchFails, Return, TypeOK
<1>12. ASSUME NEW t \in Tasks, Commit(t) PROVE TypeOK'
  <2>1. \E label \in TaskPC : Goto(t, label)
    BY <1>12 DEF Commit, Return, TaskPC
  <2>2. rows' \in [Keys -> Row] /\ settled' \subseteq Version /\ putCount' \in Nat
    <3>1. items[t] \in Seq(Item) /\ stamp[t] \in Nat /\ Upsert(items[t], stamp[t])
      BY <1>12 DEF Commit, TypeOK
    <3>. QED
      BY <3>1, UpsertTyped DEF TypeOK
  <2>3. items' \in [Tasks -> Seq(Item)]
    BY <1>12 DEF Commit, TypeOK
  <2>4. cancelled' \in [Tasks -> BOOLEAN]
    BY <1>12 DEF Commit, Return, TypeOK
  <2>. QED
    BY <1>12, <2>1, <2>2, <2>3, <2>4, GotoTyped DEF Commit, TypeOK
<1>13. ASSUME NEW t \in Tasks, LockForPrune(t) PROVE TypeOK'
  <2>1. Goto(t, "pruneAge") /\ "pruneAge" \in TaskPC
    BY <1>13 DEF LockForPrune, TaskPC
  <2>. QED
    BY <1>13, <2>1, GotoTyped DEF LockForPrune, TypeOK
<1>14. ASSUME NEW t \in Tasks, PruneAge(t) PROVE TypeOK'
  <2>1. Goto(t, "pruneRows") /\ "pruneRows" \in TaskPC
    BY <1>14 DEF PruneAge, TaskPC
  <2>2. rows' \in [Keys -> Row] /\ settled' \subseteq Version
    BY <1>14, DeleteTyped, PrunedKeys DEF PruneAge, TypeOK
  <2>. QED
    BY <1>14, <2>1, <2>2, GotoTyped DEF PruneAge, TypeOK
<1>15. ASSUME NEW t \in Tasks, PruneRows(t) PROVE TypeOK'
  <2>1. PruneReturns(t)
    BY <1>15 DEF PruneRows
  <2>2. rows' \in [Keys -> Row] /\ settled' \subseteq Version
    BY <1>15, DeleteTyped, PrunedKeys DEF PruneRows, TypeOK
  <2>. QED
    BY <1>15, <2>1, <2>2, PruneReturnsTyped DEF PruneRows, TypeOK
<1>16. ASSUME NEW t \in Tasks, PruneFails(t) PROVE TypeOK'
  <2>1. PruneReturns(t)
    BY <1>16 DEF PruneFails
  <2>. QED
    BY <1>16, <2>1, PruneReturnsTyped DEF PruneFails, TypeOK
<1>17. ASSUME Signal PROVE TypeOK'
  <2>1. Goto(Main, "draining") /\ "draining" \in MainPC
    BY <1>17 DEF Signal, MainPC
  <2>. QED
    BY <1>17, <2>1, GotoMainTyped DEF Signal, TypeOK
<1>18. ASSUME CloseLock PROVE TypeOK'
  <2>1. Goto(Main, "pruneAge") /\ "pruneAge" \in MainPC
    BY <1>18 DEF CloseLock, MainPC
  <2>. QED
    BY <1>18, <2>1, GotoMainTyped DEF CloseLock, TypeOK
<1>19. ASSUME ClosePruneAge PROVE TypeOK'
  <2>1. Goto(Main, "pruneRows") /\ "pruneRows" \in MainPC
    BY <1>19 DEF ClosePruneAge, MainPC
  <2>2. rows' \in [Keys -> Row] /\ settled' \subseteq Version
    BY <1>19, DeleteTyped, PrunedKeys DEF ClosePruneAge, TypeOK
  <2>. QED
    BY <1>19, <2>1, <2>2, GotoMainTyped DEF ClosePruneAge, TypeOK
<1>20. ASSUME CloseDb PROVE TypeOK'
  <2>1. Goto(Main, "reclose") /\ "reclose" \in MainPC
    BY <1>20 DEF CloseDb, MainPC
  <2>2. rows' \in [Keys -> Row] /\ settled' \subseteq Version
    BY <1>20, DeleteTyped, PrunedKeys DEF CloseDb, TypeOK
  <2>. QED
    BY <1>20, <2>1, <2>2, GotoMainTyped DEF CloseDb, TypeOK
<1>21. ASSUME CloseAgain PROVE TypeOK'
  <2>1. Goto(Main, "exited") /\ "exited" \in MainPC
    BY <1>21 DEF CloseAgain, MainPC
  <2>. QED
    BY <1>21, <2>1, GotoMainTyped DEF CloseAgain, TypeOK
<1>22. ASSUME Tick PROVE TypeOK'
  BY <1>22 DEF Tick, TypeOK
<1>23. CASE UNCHANGED vars
  BY <1>23 DEF vars, TypeOK
<1>. QED
  BY <1>1, <1>2, <1>3, <1>4, <1>5, <1>6, <1>7, <1>8, <1>9, <1>10, <1>11, <1>12,
     <1>13, <1>14, <1>15, <1>16, <1>17, <1>18, <1>19, <1>20, <1>21, <1>22, <1>23
     DEF Next, TaskNext, StoreCall, MainNext, Exited

(* Every variable keeps its type, in every instance. *)
THEOREM TypeCorrect == Spec => []TypeOK
BY TypeInit, TypeStep, PTL DEF Spec

-----------------------------------------------------------------------------
(* Lock order *)

LEMMA LockInit == Init => LockInv
BY TasksAssumption DEF Init, LockInv

LEMMA LockStep == TypeOK /\ LockInv /\ [Next]_vars => LockInv'
<1> SUFFICES ASSUME TypeOK, LockInv, [Next]_vars PROVE LockInv'
  OBVIOUS
<1> USE TasksAssumption DEF LockInv, lockVars, taskVars, Goto, Return
<1>0. pc \in [Tasks \cup {Main} -> TaskPC \cup MainPC]
  BY DEF TypeOK
<1>1. ASSUME NEW t \in Tasks,
             Admit(t) \/ Finish(t) \/ Disconnect(t) \/ BeginBatch(t) \/ EndStream(t)
      PROVE  LockInv'
  BY <1>0, <1>1 DEF Admit, Finish, Disconnect, BeginBatch, EndStream
<1>2. ASSUME NEW t \in Tasks, NEW k \in Keys, Put(t, k) PROVE LockInv'
  BY <1>0, <1>2 DEF Put, PutBuffered, PutDirect
<1>3. ASSUME NEW t \in Tasks, DirectInsert(t) \/ DirectFails(t) PROVE LockInv'
  BY <1>0, <1>3 DEF DirectInsert, DirectFails
<1>4. ASSUME NEW t \in Tasks, TakeBatch(t) PROVE LockInv'
  BY <1>0, <1>4 DEF TakeBatch
<1>5. ASSUME NEW t \in Tasks, BeginTx(t) \/ BatchFails(t) PROVE LockInv'
  BY <1>0, <1>5 DEF BeginTx, BatchFails
<1>6. ASSUME NEW t \in Tasks, Commit(t) PROVE LockInv'
  BY <1>0, <1>6 DEF Commit
<1>7. ASSUME NEW t \in Tasks, LockForPrune(t) \/ PruneAge(t) PROVE LockInv'
  BY <1>0, <1>7 DEF LockForPrune, PruneAge
<1>8. ASSUME NEW t \in Tasks, PruneRows(t) \/ PruneFails(t) PROVE LockInv'
  BY <1>0, <1>8 DEF PruneRows, PruneFails, PruneReturns
<1>9. ASSUME Signal \/ CloseLock \/ ClosePruneAge \/ CloseDb \/ CloseAgain
      PROVE  LockInv'
  BY <1>0, <1>9 DEF Signal, CloseLock, ClosePruneAge, CloseDb, CloseAgain
<1>10. ASSUME Tick \/ UNCHANGED vars PROVE LockInv'
  BY <1>10 DEF Tick, vars
<1>. QED
  BY <1>1, <1>2, <1>3, <1>4, <1>5, <1>6, <1>7, <1>8, <1>9, <1>10
     DEF Next, TaskNext, StoreCall, MainNext, Exited

(* Nobody who holds the connection holds or waits for the mutex, so the two  *)
(* can never be waited for in a circle.                                      *)
THEOREM LocksOrdered == Spec => []LockOrder
<1>1. LockInv => LockOrder
  BY DEF LockInv, LockOrder
<1>. QED
  BY <1>1, TypeInit, TypeStep, LockInit, LockStep, PTL DEF Spec

-----------------------------------------------------------------------------
(* The batch buffer *)

LEMMA BatchInit == Init => BatchInv
BY DEF Init, BatchInv

LEMMA BatchStep == TypeOK /\ BatchInv /\ [Next]_vars => BatchInv'
<1> SUFFICES ASSUME TypeOK, BatchInv, [Next]_vars PROVE BatchInv'
  OBVIOUS
<1> USE TasksAssumption DEF BatchInv, lockVars, taskVars, Goto, Return
<1>0. /\ pc \in [Tasks \cup {Main} -> TaskPC \cup MainPC]
      /\ streaming \in [Tasks -> BOOLEAN]
      /\ items \in [Tasks -> Seq(Item)]
  BY DEF TypeOK
<1>1. ASSUME NEW t \in Tasks,
             Admit(t) \/ Finish(t) \/ Disconnect(t) \/ BeginBatch(t) \/ EndStream(t)
      PROVE  BatchInv'
  <2>1. CASE Admit(t)
    BY <1>0, <2>1 DEF Admit
  <2>2. CASE Finish(t)
    BY <1>0, <2>2 DEF Finish
  <2>3. CASE Disconnect(t)
    BY <1>0, <2>3 DEF Disconnect
  <2>4. CASE BeginBatch(t)
    BY <1>0, <2>4 DEF BeginBatch
  <2>5. CASE EndStream(t)
    BY <1>0, <2>5 DEF EndStream
  <2>. QED
    BY <1>1, <2>1, <2>2, <2>3, <2>4, <2>5
<1>2. ASSUME NEW t \in Tasks, NEW k \in Keys, Put(t, k) PROVE BatchInv'
  BY <1>0, <1>2 DEF Put, PutBuffered, PutDirect
<1>3. ASSUME NEW t \in Tasks, DirectInsert(t) \/ DirectFails(t) PROVE BatchInv'
  BY <1>0, <1>3 DEF DirectInsert, DirectFails
<1>4. ASSUME NEW t \in Tasks, TakeBatch(t) PROVE BatchInv'
  BY <1>0, <1>4 DEF TakeBatch
<1>5. ASSUME NEW t \in Tasks, BeginTx(t) \/ BatchFails(t) PROVE BatchInv'
  <2>1. CASE BeginTx(t)
    BY <1>0, <2>1 DEF BeginTx
  <2>2. CASE BatchFails(t)
    BY <1>0, <2>2 DEF BatchFails
  <2>. QED
    BY <1>5, <2>1, <2>2
<1>6. ASSUME NEW t \in Tasks, Commit(t) PROVE BatchInv'
  BY <1>0, <1>6 DEF Commit
<1>7. ASSUME NEW t \in Tasks, LockForPrune(t) \/ PruneAge(t) PROVE BatchInv'
  <2>1. CASE LockForPrune(t)
    BY <1>0, <2>1 DEF LockForPrune
  <2>2. CASE PruneAge(t)
    BY <1>0, <2>2 DEF PruneAge
  <2>. QED
    BY <1>7, <2>1, <2>2
<1>8. ASSUME NEW t \in Tasks, PruneRows(t) \/ PruneFails(t) PROVE BatchInv'
  BY <1>0, <1>8 DEF PruneRows, PruneFails, PruneReturns
<1>9. ASSUME Signal \/ CloseLock \/ ClosePruneAge \/ CloseDb \/ CloseAgain
      PROVE  BatchInv'
  <2>1. CASE Signal
    BY <1>0, <2>1 DEF Signal
  <2>2. CASE CloseLock
    BY <1>0, <2>2 DEF CloseLock
  <2>3. CASE ClosePruneAge
    BY <1>0, <2>3 DEF ClosePruneAge
  <2>4. CASE CloseDb
    BY <1>0, <2>4 DEF CloseDb
  <2>5. CASE CloseAgain
    BY <1>0, <2>5 DEF CloseAgain
  <2>. QED
    BY <1>9, <2>1, <2>2, <2>3, <2>4, <2>5
<1>10. ASSUME Tick \/ UNCHANGED vars PROVE BatchInv'
  BY <1>10 DEF Tick, vars
<1>. QED
  BY <1>1, <1>2, <1>3, <1>4, <1>5, <1>6, <1>7, <1>8, <1>9, <1>10
     DEF Next, TaskNext, StoreCall, MainNext, Exited

(* However many streams overlap, the store leaves batching mode with the     *)
(* last of them.                                                             *)
THEOREM IdleIsClean == Spec => []IdleStoreIsClean
<1>1. BatchInv => IdleStoreIsClean
  BY DEF BatchInv, IdleStoreIsClean
<1>. QED
  BY <1>1, TypeInit, TypeStep, BatchInit, BatchStep, PTL DEF Spec

-----------------------------------------------------------------------------
(* Nothing is lost without overlapping streams *)

LEMMA SingleInit == Init => SingleInv
BY TasksAssumption DEF Init, SingleInv

LEMMA SingleStep ==
  SingleStream /\ TypeOK /\ BatchInv /\ SingleInv /\ [Next]_vars => SingleInv'
<1> SUFFICES ASSUME SingleStream, TypeOK, BatchInv, SingleInv, [Next]_vars
             PROVE  SingleInv'
  OBVIOUS
<1> USE TasksAssumption DEF SingleInv, lockVars, taskVars, Goto, Return
<1>0. /\ pc \in [Tasks \cup {Main} -> TaskPC \cup MainPC]
      /\ streaming \in [Tasks -> BOOLEAN]
      /\ \A s, t \in Tasks : streaming[s] /\ streaming[t] => s = t
  BY DEF TypeOK, BatchInv, SingleStream
<1>1. ASSUME NEW t \in Tasks, Admit(t) \/ Finish(t) \/ Disconnect(t) \/ EndStream(t)
      PROVE  SingleInv'
  BY <1>0, <1>1 DEF Admit, Finish, Disconnect, EndStream
<1>2. ASSUME NEW t \in Tasks, BeginBatch(t) PROVE SingleInv'
  BY <1>0, <1>2 DEF BeginBatch
<1>3. ASSUME NEW t \in Tasks, NEW k \in Keys, Put(t, k) PROVE SingleInv'
  BY <1>0, <1>3 DEF Put, PutBuffered, PutDirect
<1>4. ASSUME NEW t \in Tasks, DirectInsert(t) \/ DirectFails(t) PROVE SingleInv'
  BY <1>0, <1>4 DEF DirectInsert, DirectFails
<1>5. ASSUME NEW t \in Tasks, TakeBatch(t) PROVE SingleInv'
  BY <1>0, <1>5 DEF TakeBatch
<1>6. ASSUME NEW t \in Tasks, BeginTx(t) \/ BatchFails(t) PROVE SingleInv'
  BY <1>0, <1>6 DEF BeginTx, BatchFails
<1>7. ASSUME NEW t \in Tasks, Commit(t) PROVE SingleInv'
  BY <1>0, <1>7 DEF Commit
<1>8. ASSUME NEW t \in Tasks, LockForPrune(t) \/ PruneAge(t) PROVE SingleInv'
  BY <1>0, <1>8 DEF LockForPrune, PruneAge
<1>9. ASSUME NEW t \in Tasks, PruneRows(t) \/ PruneFails(t) PROVE SingleInv'
  BY <1>0, <1>9 DEF PruneRows, PruneFails, PruneReturns
<1>10. ASSUME Signal \/ CloseLock \/ ClosePruneAge \/ CloseDb \/ CloseAgain
       PROVE  SingleInv'
  BY <1>0, <1>10 DEF Signal, CloseLock, ClosePruneAge, CloseDb, CloseAgain
<1>11. ASSUME Tick \/ UNCHANGED vars PROVE SingleInv'
  BY <1>11 DEF Tick, vars
<1>. QED
  BY <1>1, <1>2, <1>3, <1>4, <1>5, <1>6, <1>7, <1>8, <1>9, <1>10, <1>11
     DEF Next, TaskNext, StoreCall, MainNext, Exited

(* What a write of a batch does to versions: those of the batch end up in    *)
(* the table or behind a later entry for their key, and those in the table   *)
(* stay or are superseded.                                                   *)
LEMMA UpsertKeeps ==
  ASSUME NEW seq \in Seq(Item), NEW at, Upsert(seq, at), NEW v
  PROVE  /\ v \in settled => v \in settled'
         /\ v \in Versions(seq) => v \in settled' \/ \E k \in Keys : rows'[k].ver = v
         /\ (\E k \in Keys : rows[k].ver = v)
              => v \in settled' \/ \E k \in Keys : rows'[k].ver = v
<1> DEFINE written == {seq[i].key : i \in Last(seq)}
<1>1. /\ settled' = settled \cup {rows[k].ver : k \in written}
                           \cup {seq[i].ver : i \in DOMAIN seq \ Last(seq)}
      /\ \A k \in Keys : k \in written =>
           rows'[k] = [ver |-> seq[CHOOSE i \in Last(seq) : seq[i].key = k].ver,
                       at |-> at]
      /\ \A k \in Keys : k \notin written => rows'[k] = rows[k]
  BY DEF Upsert
<1>2. \A i \in DOMAIN seq : seq[i].key \in Keys
  <2>1. \A i \in DOMAIN seq : seq[i] \in Item
    OBVIOUS
  <2>. QED
    BY <2>1 DEF Item
<1>3. ASSUME NEW i \in DOMAIN seq, v = seq[i].ver
      PROVE  v \in settled' \/ \E k \in Keys : rows'[k].ver = v
  <2>1. CASE i \notin Last(seq)
    BY <1>1, <1>3, <2>1
  <2>2. CASE i \in Last(seq)
    <3> DEFINE c == CHOOSE j \in Last(seq) : seq[j].key = seq[i].key
    <3>1. c \in Last(seq) /\ seq[c].key = seq[i].key
      BY <2>2
    <3>2. c = i
      <4>1. DOMAIN seq = 1..Len(seq) /\ Len(seq) \in Nat
        OBVIOUS
      <4>2. c \in DOMAIN seq /\ i \in DOMAIN seq
        BY <3>1, <2>2 DEF Last
      <4>3. ~(c > i) /\ ~(i > c)
        BY <3>1, <2>2, <4>2 DEF Last
      <4>. QED
        BY <4>1, <4>2, <4>3
    <3>3. seq[i].key \in written /\ seq[i].key \in Keys
      BY <2>2, <1>2
    <3>4. rows'[seq[i].key] = [ver |-> seq[c].ver, at |-> at]
      BY <1>1, <3>3
    <3> HIDE DEF c
    <3>5. rows'[seq[i].key].ver = seq[c].ver
      BY <3>4
    <3>. QED
      BY <1>3, <3>2, <3>3, <3>5
  <2>. QED
    BY <2>1, <2>2
<1>4. v \in Versions(seq) => v \in settled' \/ \E k \in Keys : rows'[k].ver = v
  BY <1>3 DEF Versions
<1>. QED
  BY <1>1, <1>4

(* What a prune does to versions: those in the table stay or are recorded.   *)
LEMMA DeleteKeeps ==
  ASSUME NEW gone, Delete(gone), NEW v
  PROVE  /\ v \in settled => v \in settled'
         /\ (\E k \in Keys : rows[k].ver = v)
              => v \in settled' \/ \E k \in Keys : rows'[k].ver = v
BY DEF Delete

(* What the proofs carry along a behaviour: an entry put is recorded or in   *)
(* memory, whether or not the process lives.                                 *)
Held(v) == Recorded(v) \/ Waiting(v)
AllHeld == \A t \in Tasks : \A n \in 1..puts[t] : Held(<<t, n>>)

(* A step that leaves every version where it is, or writes, prunes or gives  *)
(* up the entries of one task, keeps every version.                          *)
LEMMA TableStepKeeps ==
  ASSUME NEW v, Held(v), UNCHANGED <<batchBuf, items>>,
         UNCHANGED <<rows, settled>> \/ \E gone : Delete(gone)
  PROVE  Held(v)'
BY DeleteKeeps DEF Held, Recorded, Waiting, Versions

LEMMA WriteStepKeeps ==
  ASSUME TypeOK, NEW t \in Tasks, NEW v, Held(v), UNCHANGED batchBuf,
         items' = [items EXCEPT ![t] = <<>>],
         \/ Upsert(items[t], stamp[t])
         \/ UNCHANGED rows /\ settled' = settled \cup Versions(items[t])
  PROVE  Held(v)'
<1>1. items[t] \in Seq(Item) /\ \A u \in Tasks : u # t => items'[u] = items[u]
  BY DEF TypeOK
<1>2. CASE Upsert(items[t], stamp[t])
  BY <1>1, <1>2, UpsertKeeps DEF Held, Recorded, Waiting
<1>3. CASE UNCHANGED rows /\ settled' = settled \cup Versions(items[t])
  BY <1>1, <1>3 DEF Held, Recorded, Waiting
<1>. QED
  BY <1>2, <1>3

LEMMA LossInit == Init => AllHeld
BY BoundsAssumption DEF Init, AllHeld

LEMMA LossStep ==
  /\ SingleStream /\ TypeOK /\ BatchInv /\ SingleInv /\ AllHeld
  /\ [Next]_vars
  => AllHeld'
<1> SUFFICES ASSUME SingleStream, TypeOK, BatchInv, SingleInv, AllHeld,
                    [Next]_vars,
                    NEW u \in Tasks, NEW n \in 1..puts'[u]
             PROVE  Held(<<u, n>>)'
  BY DEF AllHeld
<1> DEFINE v == <<u, n>>
<1> HIDE DEF v
<1> USE DEF lockVars, taskVars
<1>0. puts' = puts => Held(v)
  BY DEF AllHeld, v
<1> SUFFICES Held(v)'
  BY DEF v
<1>1. ASSUME NEW t \in Tasks, Admit(t) \/ Finish(t) \/ Disconnect(t) \/ EndStream(t)
      PROVE  Held(v)'
  <2>1. UNCHANGED <<rows, settled, batchBuf, items, puts>>
    BY <1>1 DEF Admit, Finish, Disconnect, EndStream
  <2>. QED
    BY <2>1, <1>0, TableStepKeeps
<1>2. ASSUME NEW t \in Tasks, BeginBatch(t) PROVE Held(v)'
  <2>1. ~batching
    BY <1>2 DEF BeginBatch, BatchInv, SingleStream
  <2>2. UNCHANGED <<rows, settled, batchBuf, items, puts>>
    BY <1>2, <2>1 DEF BeginBatch, BatchInv
  <2>. QED
    BY <2>2, <1>0, TableStepKeeps
<1>3. ASSUME NEW t \in Tasks, NEW k \in Keys, Put(t, k) PROVE Held(v)'
  <2> DEFINE x == [key |-> k, ver |-> NextVersion(t)]
  <2>1. x \in Item /\ x.ver = <<t, puts[t] + 1>>
    BY NextVersionTyped DEF Item
  <2>2. puts' = [puts EXCEPT ![t] = @ + 1] /\ UNCHANGED <<rows, settled>>
    BY <1>3 DEF Put
  <2>3. Held(v) \/ v = x.ver
    <3>1. puts \in [Tasks -> Nat]
      BY DEF TypeOK
    <3>2. n \in 1..puts[u] \/ (u = t /\ n = puts[t] + 1)
      BY <2>2, <3>1
    <3>. QED
      BY <3>2, <2>1 DEF AllHeld, v
  <2>4. CASE PutBuffered(t, k)
    <3>1. UNCHANGED items /\ batchBuf' = Append(batchBuf, x)
      BY <2>4 DEF PutBuffered
    <3>2. Versions(batchBuf)' = Versions(batchBuf) \cup {x.ver}
      <4>1. batchBuf \in Seq(Item)
        BY DEF TypeOK
      <4>2. Versions(Append(batchBuf, x)) = Versions(batchBuf) \cup {x.ver}
        BY <4>1, <2>1, AppendVersions
      <4>. QED
        BY <4>2, <3>1 DEF Versions
    <3>. QED
      BY <2>2, <2>3, <3>1, <3>2 DEF Held, Recorded, Waiting
  <2>5. CASE PutDirect(t, k)
    <3>1. UNCHANGED batchBuf /\ items' = [items EXCEPT ![t] = <<x>>]
      BY <2>5 DEF PutDirect
    <3>2. items[t] = <<>>
      BY <1>3 DEF Put, BatchInv
    <3>3. \A w \in Tasks : w # t => items'[w] = items[w]
      BY <3>1 DEF TypeOK
    <3>4. items'[t] = <<x>> /\ x.ver \in Versions(items'[t])
      <4>1. items'[t] = <<x>>
        BY <3>1 DEF TypeOK
      <4>2. 1 \in DOMAIN <<x>> /\ <<x>>[1] = x
        OBVIOUS
      <4>. QED
        BY <4>1, <4>2 DEF Versions
    <3>5. Versions(items[t]) = {}
      BY <3>2 DEF Versions
    <3>. QED
      BY <2>2, <2>3, <3>1, <3>3, <3>4, <3>5 DEF Held, Recorded, Waiting
  <2>. QED
    BY <1>3, <2>4, <2>5 DEF Put
<1>4. ASSUME NEW t \in Tasks, DirectInsert(t) \/ DirectFails(t) PROVE Held(v)'
  BY <1>4, <1>0, WriteStepKeeps DEF DirectInsert, DirectFails
<1>5. ASSUME NEW t \in Tasks, TakeBatch(t) PROVE Held(v)'
  <2>1. items[t] = <<>>
    BY <1>5 DEF TakeBatch, BatchInv
  <2>2. Versions(items[t]) = {}
    BY <2>1 DEF Versions
  <2>3. /\ items'[t] = batchBuf
        /\ \A w \in Tasks : w # t => items'[w] = items[w]
        /\ UNCHANGED <<rows, settled, puts>>
    BY <1>5 DEF TakeBatch, TypeOK
  <2>. QED
    BY <1>0, <2>2, <2>3 DEF Held, Recorded, Waiting
<1>6. ASSUME NEW t \in Tasks, BeginTx(t) PROVE Held(v)'
  <2>1. UNCHANGED <<rows, settled, batchBuf, items, puts>>
    BY <1>6 DEF BeginTx
  <2>. QED
    BY <2>1, <1>0, TableStepKeeps
<1>7. ASSUME NEW t \in Tasks, BatchFails(t) \/ Commit(t) PROVE Held(v)'
  BY <1>7, <1>0, WriteStepKeeps DEF BatchFails, Commit
<1>8. ASSUME NEW t \in Tasks,
             LockForPrune(t) \/ PruneAge(t) \/ PruneRows(t) \/ PruneFails(t)
      PROVE  Held(v)'
  <2>1. /\ UNCHANGED <<batchBuf, items, puts>>
        /\ UNCHANGED <<rows, settled>> \/ \E gone : Delete(gone)
    BY <1>8 DEF LockForPrune, PruneAge, PruneRows, PruneFails
  <2>. QED
    BY <2>1, <1>0, TableStepKeeps
<1>9. ASSUME Signal \/ CloseLock \/ ClosePruneAge \/ CloseDb \/ CloseAgain
      PROVE  Held(v)'
  <2>1. /\ UNCHANGED <<batchBuf, items, puts>>
        /\ UNCHANGED <<rows, settled>> \/ \E gone : Delete(gone)
    BY <1>9 DEF Signal, CloseLock, ClosePruneAge, CloseDb, CloseAgain
  <2>. QED
    BY <2>1, <1>0, TableStepKeeps
<1>10. ASSUME Tick \/ UNCHANGED vars PROVE Held(v)'
  <2>1. UNCHANGED <<rows, settled, batchBuf, items, puts>>
    BY <1>10 DEF Tick, vars
  <2>. QED
    BY <2>1, <1>0, TableStepKeeps
<1>. QED
  BY <1>1, <1>2, <1>3, <1>4, <1>5, <1>6, <1>7, <1>8, <1>9, <1>10
     DEF Next, TaskNext, StoreCall, MainNext, Exited

(* What is in memory when the process exits belongs to an open stream or to  *)
(* a call that has not returned.                                             *)
LEMMA HeldIsKept == BatchInv /\ AllHeld => NoSilentLoss
<1> SUFFICES ASSUME BatchInv, AllHeld, NEW t \in Tasks, NEW n \in 1..puts[t],
                    ~Kept(<<t, n>>)
             PROVE  CutOff /\ Waiting(<<t, n>>)
  BY DEF NoSilentLoss
<1>1. Waiting(<<t, n>>) /\ pc[Main] = "exited"
  BY DEF AllHeld, Held, Kept
<1>2. batchBuf # <<>> \/ \E u \in Tasks : items[u] # <<>>
  BY <1>1 DEF Waiting, Versions
<1>3. \E u \in Tasks : streaming[u] \/ InStoreCall(u)
  BY <1>2 DEF BatchInv, InStoreCall, TaskPC
<1>. QED
  BY <1>1, <1>3 DEF CutOff

(* With at most one slot that streams, and any number of others, every entry *)
(* ever put is in the table or accounted for, or in memory while the process *)
(* lives; an exit costs something only when it cuts a stream or a store call *)
(* off, and then only what these had in memory.                              *)
THEOREM NothingLost == ASSUME SingleStream PROVE Spec => []NoSilentLoss
<1> DEFINE LossInv == TypeOK /\ BatchInv /\ SingleInv /\ AllHeld
<1>1. Init => LossInv
  BY TypeInit, BatchInit, SingleInit, LossInit
<1>2. LossInv /\ [Next]_vars => LossInv'
  BY TypeStep, BatchStep, SingleStep, LossStep
<1>3. LossInv => NoSilentLoss
  BY HeldIsKept
<1>. QED
  BY <1>1, <1>2, <1>3, PTL DEF Spec

=============================================================================
