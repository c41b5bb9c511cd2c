--------------------------- MODULE UpstreamClient ---------------------------
(***************************************************************************)
(* Requests to the upstream (server.go, upstreamRoundTrip) with their      *)
(* retries and the circuit breaker they share (circuitbreaker.go).         *)
(*                                                                         *)
(* A round is one call of upstreamRoundTrip.  It asks the breaker once,    *)
(* sends the same *http.Request until an attempt succeeds, the client goes *)
(* away or the backoff's time is over, and reports one outcome to the      *)
(* breaker.  openUntil is kept as the ticks left until then, and failCount *)
(* stops at the threshold: the code only asks whether it has reached it.   *)
(***************************************************************************)
EXTENDS Integers, FiniteSets

CONSTANTS
  Tasks,         \* concurrent requests
  Threshold,     \* cbFailureThreshold
  OpenDuration,  \* cbOpenDuration in ticks
  MaxElapsed,    \* the backoff's MaxElapsedTime in ticks
  CanCancel,     \* whether a client may go away
  Outcomes       \* what the upstream may do to an attempt that arrives

ASSUME BreakerAssumption ==
  /\ Threshold \in Nat \ {0} /\ OpenDuration \in Nat \ {0} /\ MaxElapsed \in Nat
  /\ CanCancel \in BOOLEAN
ASSUME OutcomesAssumption == Outcomes \subseteq {"ok", "4xx", "5xx", "reset"}

VARIABLES
  failCount, openLeft,  \* the breaker
  pc,                   \* idle, sending, or waiting for the backoff's timer
  body,                 \* whether the request's body reader is still unread
  elapsed,              \* ticks since the round started
  rested,               \* whether the timer has run since the last attempt
  cancelled             \* whether the request's context is cancelled

breaker == <<failCount, openLeft>>
round   == <<body, elapsed, rested, cancelled>>
vars    == <<breaker, pc, round>>

Smaller(a, b) == IF a <= b THEN a ELSE b
Goto(t, label) == pc' = [pc EXCEPT ![t] = label]

Init ==
  /\ failCount = 0 /\ openLeft = 0
  /\ pc = [t \in Tasks |-> "idle"]
  /\ body = [t \in Tasks |-> FALSE] /\ elapsed = [t \in Tasks |-> 0]
  /\ rested = [t \in Tasks |-> FALSE] /\ cancelled = [t \in Tasks |-> FALSE]

-----------------------------------------------------------------------------
(* circuitBreaker *)

Open == openLeft > 0

(* Mutant of Failure: the window is extended. *)
FailureExtends ==
  /\ failCount' = Smaller(failCount + 1, Threshold)
  /\ openLeft' = IF failCount + 1 >= Threshold THEN openLeft + OpenDuration
                                               ELSE openLeft

Failure ==
  /\ failCount' = Smaller(failCount + 1, Threshold)
  /\ openLeft' = IF failCount + 1 >= Threshold THEN OpenDuration ELSE openLeft

(* Mutant of Success: the window is left as it is. *)
SuccessKeepsWindow == failCount' = 0 /\ UNCHANGED openLeft

Success == failCount' = 0 /\ openLeft' = 0

-----------------------------------------------------------------------------
(* upstreamRoundTrip *)

(* Mutant of Reject: a rejected request is counted as one more failure. *)
RejectCounts(t) ==
  /\ pc[t] = "idle" /\ Open
  /\ Failure
  /\ UNCHANGED <<pc, round>>

(* The breaker is open: 502 at once. *)
Reject(t) ==
  /\ pc[t] = "idle" /\ Open
  /\ UNCHANGED vars

Begin(t) ==
  /\ pc[t] = "idle" /\ ~Open
  /\ Goto(t, "sending")
  /\ body' = [body EXCEPT ![t] = TRUE]
  /\ elapsed' = [elapsed EXCEPT ![t] = 0]
  /\ UNCHANGED <<breaker, rested, cancelled>>

(* The round is over; the slot may serve another request. *)
Leave(t) ==
  /\ Goto(t, "idle")
  /\ body' = [body EXCEPT ![t] = FALSE]
  /\ rested' = [rested EXCEPT ![t] = FALSE]
  /\ cancelled' = [cancelled EXCEPT ![t] = FALSE]
  /\ elapsed' = [elapsed EXCEPT ![t] = 0]

(* A 4xx is the upstream's answer, too. *)
Answered(t) ==
  /\ pc[t] = "sending" /\ body[t] /\ Outcomes \cap {"ok", "4xx"} # {}
  /\ Success
  /\ Leave(t)

(* A retriable attempt: a 5xx or a reset has read the body, a failed dial    *)
(* has not; net/http refuses to send a request whose body has been read.     *)
Fails(t) ==
  /\ pc[t] = "sending" /\ ~cancelled[t]
  /\ body' \in {[body EXCEPT ![t] = unread] :
                  unread \in {body[t]} \cup IF Outcomes \cap {"5xx", "reset"} # {}
                                            THEN {FALSE} ELSE {}}
  /\ Goto(t, "backoff")
  /\ rested' = [rested EXCEPT ![t] = FALSE]
  /\ UNCHANGED <<breaker, elapsed, cancelled>>

(* Mutant of GiveUp: only the client's patience ends a round. *)
GiveUpWhenCancelled(t) ==
  /\ pc[t] \in {"sending", "backoff"} /\ cancelled[t]
  /\ Failure
  /\ Leave(t)

(* The attempt or the wait ends with the context, or the next wait would     *)
(* exceed the backoff's time; either way the breaker hears of a failure.     *)
GiveUp(t) ==
  /\ \/ pc[t] \in {"sending", "backoff"} /\ cancelled[t]
     \/ pc[t] = "backoff" /\ ~cancelled[t] /\ ~rested[t] /\ elapsed[t] >= MaxElapsed
  /\ Failure
  /\ Leave(t)

(* The timer has fired: the same request is sent again. *)
Retry(t) ==
  /\ pc[t] = "backoff" /\ ~cancelled[t] /\ rested[t]
  /\ Goto(t, "sending")
  /\ UNCHANGED <<breaker, round>>

Cancel(t) ==
  /\ CanCancel /\ pc[t] # "idle" /\ ~cancelled[t]
  /\ cancelled' = [cancelled EXCEPT ![t] = TRUE]
  /\ UNCHANGED <<breaker, pc, body, elapsed, rested>>

(* A wait that has begun within the time runs for at least a tick. *)
Tick ==
  /\ openLeft' = IF openLeft > 0 THEN openLeft - 1 ELSE 0
  /\ elapsed' = [t \in Tasks |->
       IF pc[t] = "idle" THEN 0 ELSE Smaller(elapsed[t] + 1, MaxElapsed)]
  /\ rested' = [t \in Tasks |->
       rested[t] \/ (pc[t] = "backoff" /\ elapsed[t] < MaxElapsed)]
  /\ UNCHANGED <<failCount, pc, body, cancelled>>

Round(t) == Answered(t) \/ Fails(t) \/ GiveUp(t) \/ Retry(t)

Next ==
  \/ \E t \in Tasks : Reject(t) \/ Begin(t) \/ Round(t) \/ Cancel(t)
  \/ Tick

Spec == Init /\ [][Next]_vars

(* Every attempt ends, by the client's timeout at the latest; timers fire.   *)
FairSpec == Spec /\ WF_vars(Tick) /\ \A t \in Tasks : WF_vars(Round(t))

-----------------------------------------------------------------------------
(* Properties *)

TypeOK ==
  /\ failCount \in 0..Threshold /\ openLeft \in 0..OpenDuration
  /\ pc \in [Tasks -> {"idle", "sending", "backoff"}]
  /\ body \in [Tasks -> BOOLEAN] /\ elapsed \in [Tasks -> 0..MaxElapsed]
  /\ rested \in [Tasks -> BOOLEAN] /\ cancelled \in [Tasks -> BOOLEAN]

(* The two fields of the breaker agree, whatever order the outcomes of the   *)
(* rounds in flight arrive in: it is open only with the threshold reached,   *)
(* so one success, even a late one, reopens the way for everybody.           *)
BreakerAgrees == openLeft > 0 => failCount = Threshold

(* Every round returns to its handler.                                       *)
RoundsReturn == \A t \in Tasks : pc[t] # "idle" ~> pc[t] = "idle"

(* An outage never shuts the proxy for good: however many requests arrive    *)
(* and fail, the breaker lets one through again and again.                   *)
LetsThroughAgain == []<>(openLeft = 0)

(* server.go:505-506: retries are there to get an answer after a 5xx or a    *)
(* transport error, so each of them sends the request's body.                *)
RetriesCarryBody == \A t \in Tasks : pc[t] = "sending" => body[t]

=============================================================================
