------------------------ MODULE UpstreamClientProofs ------------------------
(***************************************************************************)
(* For any number of concurrent rounds, any threshold and any lengths of   *)
(* the window and of the retry loop: the types, and that the breaker's two *)
(* fields agree.                                                           *)
(***************************************************************************)
EXTENDS UpstreamClient, TLAPS

BreakerInv == TypeOK /\ BreakerAgrees

LEMMA SmallerType ==
  ASSUME NEW a \in Nat, NEW b \in Nat
  PROVE  /\ Smaller(a, b) \in 0..b
         /\ Smaller(a, b) <= a
         /\ a <= b => Smaller(a, b) = a
         /\ b <= a => Smaller(a, b) = b
  BY DEF Smaller

(* What the end of a round does to the breaker. *)
LEMMA FailureKeeps ==
  ASSUME BreakerInv, Failure
  PROVE  /\ failCount' \in 0..Threshold /\ openLeft' \in 0..OpenDuration
         /\ BreakerAgrees'
<1>1. /\ failCount \in 0..Threshold /\ openLeft \in 0..OpenDuration
      /\ Threshold \in Nat \ {0} /\ OpenDuration \in Nat \ {0}
      /\ openLeft > 0 => failCount = Threshold
  BY BreakerAssumption DEF BreakerInv, TypeOK, BreakerAgrees
<1>2. /\ failCount' \in 0..Threshold
      /\ failCount + 1 >= Threshold => failCount' = Threshold
  BY <1>1, SmallerType DEF Failure
<1>. QED
  BY <1>1, <1>2 DEF Failure, BreakerAgrees

LEMMA LeaveType ==
  ASSUME TypeOK, NEW t \in Tasks, Leave(t)
  PROVE  /\ pc' \in [Tasks -> {"idle", "sending", "backoff"}]
         /\ body' \in [Tasks -> BOOLEAN] /\ elapsed' \in [Tasks -> 0..MaxElapsed]
         /\ rested' \in [Tasks -> BOOLEAN] /\ cancelled' \in [Tasks -> BOOLEAN]
  BY BreakerAssumption DEF TypeOK, Leave, Goto

LEMMA BreakerInit == Init => BreakerInv
  BY BreakerAssumption DEF Init, BreakerInv, TypeOK, BreakerAgrees

LEMMA BreakerStep == BreakerInv /\ [Next]_vars => BreakerInv'
<1> SUFFICES ASSUME BreakerInv, [Next]_vars PROVE BreakerInv'
  OBVIOUS
<1>1. /\ TypeOK /\ Threshold \in Nat \ {0} /\ OpenDuration \in Nat \ {0}
      /\ MaxElapsed \in Nat
  BY BreakerAssumption DEF BreakerInv
<1>2. CASE UNCHANGED vars
  BY <1>2 DEF BreakerInv, TypeOK, BreakerAgrees, vars, breaker, round
<1>3. ASSUME NEW t \in Tasks, Reject(t) PROVE BreakerInv'
  BY <1>2, <1>3 DEF Reject
<1>4. ASSUME UNCHANGED breaker, TypeOK' PROVE BreakerInv'
  BY <1>4 DEF BreakerInv, BreakerAgrees, breaker
<1>5. ASSUME NEW t \in Tasks, Begin(t) PROVE BreakerInv'
  <2>1. TypeOK'
    BY <1>1, <1>5 DEF Begin, Goto, TypeOK, breaker
  <2>. QED
    BY <1>4, <1>5, <2>1 DEF Begin
<1>6. ASSUME NEW t \in Tasks, Answered(t) PROVE BreakerInv'
  <2>1. failCount' = 0 /\ openLeft' = 0
    BY <1>6 DEF Answered, Success
  <2>. QED
    BY <1>1, <1>6, <2>1, LeaveType DEF Answered, BreakerInv, TypeOK, BreakerAgrees
<1>7. ASSUME NEW t \in Tasks, Fails(t) PROVE BreakerInv'
  <2>1. body' \in [Tasks -> BOOLEAN]
    BY <1>1, <1>7 DEF Fails, TypeOK
  <2>2. TypeOK'
    BY <1>1, <1>7, <2>1 DEF Fails, Goto, TypeOK, breaker
  <2>. QED
    BY <1>4, <1>7, <2>2 DEF Fails
<1>8. ASSUME NEW t \in Tasks, GiveUp(t) PROVE BreakerInv'
  <2>1. Failure /\ Leave(t)
    BY <1>8 DEF GiveUp
  <2>2. failCount' \in 0..Threshold /\ openLeft' \in 0..OpenDuration /\ BreakerAgrees'
    BY <2>1, FailureKeeps
  <2>. QED
    BY <1>1, <2>1, <2>2, LeaveType DEF BreakerInv, TypeOK
<1>9. ASSUME NEW t \in Tasks, Retry(t) PROVE BreakerInv'
  <2>1. TypeOK'
    BY <1>1, <1>9 DEF Retry, Goto, TypeOK, breaker, round
  <2>. QED
    BY <1>4, <1>9, <2>1 DEF Retry
<1>10. ASSUME NEW t \in Tasks, Cancel(t) PROVE BreakerInv'
  <2>1. TypeOK'
    BY <1>1, <1>10 DEF Cancel, TypeOK, breaker
  <2>. QED
    BY <1>4, <1>10, <2>1 DEF Cancel
<1>11. CASE Tick
  <2>1. openLeft' \in 0..OpenDuration /\ (openLeft' > 0 => openLeft > 0)
    BY <1>1, <1>11 DEF Tick, TypeOK
  <2>2. elapsed' \in [Tasks -> 0..MaxElapsed]
    BY <1>1, <1>11 DEF Tick, TypeOK, Smaller
  <2>3. rested' \in [Tasks -> BOOLEAN]
    BY <1>11 DEF Tick
  <2>4. UNCHANGED <<failCount, pc, body, cancelled>>
    BY <1>11 DEF Tick
  <2>. QED
    BY <1>1, <2>1, <2>2, <2>3, <2>4 DEF BreakerInv, TypeOK, BreakerAgrees
<1>. QED
  BY <1>2, <1>3, <1>5, <1>6, <1>7, <1>8, <1>9, <1>10, <1>11 DEF Next, Round

LEMMA BreakerInvariant == Spec => []BreakerInv
  BY BreakerInit, BreakerStep, PTL DEF Spec

(* Every variable keeps its type: in particular the count stops at the       *)
(* threshold and the window is never longer than cbOpenDuration.             *)
THEOREM TypeCorrect == Spec => []TypeOK
<1>1. BreakerInv => TypeOK
  BY DEF BreakerInv
<1>. QED
  BY <1>1, BreakerInvariant, PTL

(* The breaker is open only with the threshold reached, in whatever order    *)
(* the rounds in flight report.                                              *)
THEOREM FieldsAgree == Spec => []BreakerAgrees
<1>1. BreakerInv => BreakerAgrees
  BY DEF BreakerInv
<1>. QED
  BY <1>1, BreakerInvariant, PTL

=============================================================================
