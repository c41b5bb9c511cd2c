----------------------- MODULE HistoryTruncationProofs -----------------------
(***************************************************************************)
(* For histories of any length, messages of any size and any limits: the   *)
(* cut falls between rounds, so no tool call loses its result, the leading *)
(* system messages and the last round are sent, the limits are kept        *)
(* without dropping more than they ask for, and what has been dropped      *)
(* stays dropped.                                                          *)
(*                                                                         *)
(* Only the last of these asks what the limits add up to: Fits is expanded *)
(* for it alone, in FitsBefore, and the sum of the sizes is unfolded by    *)
(* induction over the number of messages (AllNumbers).                     *)
(***************************************************************************)
EXTENDS HistoryTruncation, WellFoundedInduction, FiniteSetTheorems, TLAPS

LEMMA LeastIs ==
  ASSUME NEW S \in SUBSET Nat, S # {}
  PROVE  Least(S) \in S /\ \A y \in S : Least(S) <= y
<1>1. \E x \in S : \A y \in S : <<y, x>> \notin OpToRel(<, Nat)
  BY NatLessThanWellFounded, WFMin
<1>2. PICK x \in S : \A y \in S : <<y, x>> \notin OpToRel(<, Nat)
  BY <1>1
<1>3. \A y \in S : ~(y < x)
  BY <1>2 DEF OpToRel
<1>4. \A y \in S : x <= y
  BY <1>3
<1>. QED
  BY <1>4 DEF Least

LEMMA GreatestIs ==
  ASSUME NEW S \in SUBSET Nat, S # {}, NEW n \in Nat, \A y \in S : y <= n
  PROVE  Greatest(S) \in S /\ \A y \in S : y <= Greatest(S)
<1> DEFINE Bounds == {k \in Nat : \A y \in S : y <= k}
           m == Least(Bounds)
<1>1. m \in Bounds /\ \A k \in Bounds : m <= k
  <2>1. Bounds \in SUBSET Nat /\ Bounds # {}
    OBVIOUS
  <2>. HIDE DEF Bounds
  <2>. QED
    BY <2>1, LeastIs
<1>2. m \in Nat /\ \A y \in S : y <= m
  BY <1>1
<1>3. m \in S
  <2> SUFFICES ASSUME m \notin S PROVE FALSE
    OBVIOUS
  <2>. HIDE DEF m
  <2>1. \A y \in S : y \in Nat /\ y <= m - 1
    BY <1>2
  <2>2. m - 1 \in Nat
    <3>1. PICK y \in S : y \in Nat /\ y <= m - 1
      BY <2>1
    <3>. QED
      BY <1>2, <3>1
  <2>3. m - 1 \in Bounds
    BY <2>1, <2>2
  <2>4. m <= m - 1
    BY <1>1, <2>3
  <2>. QED
    BY <1>2, <2>4
<1>. HIDE DEF m
<1>. QED
  BY <1>2, <1>3 DEF Greatest

(* Induction over the numbers, for a set of them. *)
LEMMA AllNumbers ==
  ASSUME NEW G, 0 \in G, \A n \in Nat : n \in G => n + 1 \in G
  PROVE  \A n \in Nat : n \in G
<1> DEFINE Rest == {n \in Nat : n \notin G}
<1> SUFFICES ASSUME Rest # {} PROVE FALSE
  OBVIOUS
<1> DEFINE m == Least(Rest)
<1>1. m \in Rest /\ \A y \in Rest : m <= y
  <2>1. Rest \in SUBSET Nat
    OBVIOUS
  <2>. HIDE DEF Rest
  <2>. QED
    BY <2>1, LeastIs
<1>. HIDE DEF m
<1>2. m \in Nat /\ m \notin G /\ m # 0
  BY <1>1
<1>3. m - 1 \in Nat /\ m - 1 \notin Rest
  BY <1>1, <1>2
<1>. QED
  BY <1>2, <1>3

-----------------------------------------------------------------------------
(* The cut *)

LEMMA FirstIs ==
  ASSUME NEW ms \in Seq(Message)
  PROVE  /\ FirstOf(ms) \in 1..(Len(ms) + 1)
         /\ \A i \in 1..(FirstOf(ms) - 1) : IsRole(ms, i, "system")
         /\ FirstOf(ms) <= Len(ms) => ~IsRole(ms, FirstOf(ms), "system")
<1> DEFINE Others == {i \in 1..(Len(ms) + 1) : i <= Len(ms) => ~IsRole(ms, i, "system")}
           n == Least(Others)
<1>1. Len(ms) \in Nat
  OBVIOUS
<1>2. n \in Others /\ \A i \in Others : n <= i
  <2>1. Others \in SUBSET Nat /\ Len(ms) + 1 \in Others
    BY <1>1
  <2>. HIDE DEF Others
  <2>. QED
    BY <2>1, LeastIs
<1>3. n \in 1..(Len(ms) + 1) /\ (n <= Len(ms) => ~IsRole(ms, n, "system"))
  BY <1>2
<1>4. \A i \in 1..(n - 1) : IsRole(ms, i, "system")
  <2>. HIDE DEF n
  <2> SUFFICES ASSUME NEW i \in 1..(n - 1), ~IsRole(ms, i, "system") PROVE FALSE
    OBVIOUS
  <2>1. i \in Others
    BY <1>1, <1>3
  <2>2. n <= i
    BY <1>2, <2>1
  <2>. QED
    BY <1>3, <2>2
<1>. HIDE DEF n
<1>. QED
  BY <1>3, <1>4 DEF FirstOf

(* Where a round may start. *)
LEMMA StartsAre ==
  ASSUME NEW ms \in Seq(Message)
  PROVE  /\ RoundStarts(ms) \subseteq FirstOf(ms)..(Len(ms) + 1)
         /\ FirstOf(ms) \in RoundStarts(ms)
         /\ RoundStarts(ms) \in SUBSET Nat
         /\ \A c \in RoundStarts(ms) :
              c = FirstOf(ms) \/ (c \in 1..Len(ms) /\ IsRole(ms, c, "user"))
<1>1. Len(ms) \in Nat /\ FirstOf(ms) \in 1..(Len(ms) + 1)
  BY FirstIs
<1>. QED
  BY <1>1 DEF RoundStarts

(* The cut is the oldest round start that fits, or the newest there is. *)
LEMMA TruncateIs ==
  ASSUME NEW ms \in Seq(Message), NEW max
  PROVE  /\ TruncateAt(max, ms) \in RoundStarts(ms)
         /\ \/ /\ Fits(max, ms, TruncateAt(max, ms))
               /\ \A c \in RoundStarts(ms) : Fits(max, ms, c) => TruncateAt(max, ms) <= c
            \/ /\ \A c \in RoundStarts(ms) : ~Fits(max, ms, c)
               /\ \A c \in RoundStarts(ms) : c <= TruncateAt(max, ms)
<1> DEFINE fitting == Fitting(max, ms)
<1>1. /\ RoundStarts(ms) \in SUBSET Nat /\ RoundStarts(ms) # {}
      /\ Len(ms) + 1 \in Nat /\ \A c \in RoundStarts(ms) : c <= Len(ms) + 1
  BY StartsAre, FirstIs
<1>2. /\ TruncateAt(max, ms) = IF fitting # {} THEN Least(fitting) ELSE Greatest(RoundStarts(ms))
      /\ fitting = {c \in RoundStarts(ms) : Fits(max, ms, c)}
  BY DEF TruncateAt, Fitting
<1> HIDE DEF fitting
<1>3. CASE fitting # {}
  <2>1. fitting \in SUBSET Nat
    BY <1>1, <1>2
  <2>2. Least(fitting) \in fitting /\ \A c \in fitting : Least(fitting) <= c
    <3>. HIDE DEF fitting
    <3>. QED
      BY <1>3, <2>1, LeastIs
  <2>. QED
    BY <1>2, <1>3, <2>2
<1>4. CASE fitting = {}
  <2>1. TruncateAt(max, ms) = Greatest(RoundStarts(ms))
    BY <1>2, <1>4
  <2>2. /\ TruncateAt(max, ms) \in RoundStarts(ms)
        /\ \A c \in RoundStarts(ms) : c <= TruncateAt(max, ms)
    BY <1>1, <2>1, GreatestIs
  <2>. QED
    BY <1>2, <1>4, <2>2
<1>. QED
  BY <1>3, <1>4

(* What is sent, by index. *)
LEMMA SendingIs ==
  ASSUME NEW ms \in Seq(Message), NEW max, NEW thinking
  PROVE  LET cut  == TruncateAt(max, ms)
             sent == Sending(max, thinking, ms)
         IN /\ FirstOf(ms) <= cut /\ cut \in 1..(Len(ms) + 1)
            /\ \A i \in 1..(FirstOf(ms) - 1) : i \in sent
            /\ \A i \in DOMAIN ms : cut <= i => i \in sent
            /\ ~(thinking /\ Strategy = "recover") =>
                 \A i \in DOMAIN ms : i \in sent <=> i < FirstOf(ms) \/ cut <= i
            /\ thinking /\ Strategy = "recover" => sent = DOMAIN ms
<1> DEFINE cut == TruncateAt(max, ms)
<1>1. /\ Len(ms) \in Nat /\ DOMAIN ms = 1..Len(ms)
      /\ FirstOf(ms) \in 1..(Len(ms) + 1)
  BY FirstIs
<1>2. FirstOf(ms) <= cut /\ cut \in 1..(Len(ms) + 1)
  BY <1>1, TruncateIs, StartsAre
<1>. QED
  BY <1>1, <1>2 DEF Sending, Kept

LEMMA SentIs ==
  ASSUME NEW ms \in Seq(Message)
  PROVE  /\ FirstOf(ms) <= Cut(ms) /\ Cut(ms) \in 1..(Len(ms) + 1)
         /\ \A i \in 1..(FirstOf(ms) - 1) : i \in Sent(ms)
         /\ \A i \in DOMAIN ms : Cut(ms) <= i => i \in Sent(ms)
BY SendingIs DEF Sent, Cut

-----------------------------------------------------------------------------
(* The client's history *)

(* Calls are numbered anew, only assistants make them, an answer names a     *)
(* call that has been made, and since a call whose result is here, or is     *)
(* still expected, no user message has come.                                 *)
CallsInv ==
  /\ \A i \in 1..Len(messages) :
       /\ messages[i].calls \subseteq 1..calls
       /\ messages[i].calls # {} => messages[i].role = "assistant"
       /\ messages[i].role = "tool" => messages[i].answers \in 1..calls
  /\ \A i, j \in 1..Len(messages) :
       messages[j].role = "tool" /\ messages[j].answers \in messages[i].calls =>
         i < j /\ \A k \in i..j : messages[k].role # "user"
  /\ \A i \in 1..Len(messages) :
       messages[i].calls \cap pending # {} =>
         \A k \in i..Len(messages) : messages[k].role # "user"

Inv == TypeOK /\ CallsInv

(* A message is added behind the others. *)
LEMMA SayIs ==
  ASSUME TypeOK, NEW role \in {"system", "user", "assistant", "tool"},
         NEW made \in SUBSET Nat, NEW answered \in Nat, NEW bytes \in Nat,
         Say(role, made, answered, bytes)
  PROVE  /\ messages' \in Seq(Message)
         /\ Len(messages) \in Nat /\ Len(messages') = Len(messages) + 1
         /\ \A i \in 1..Len(messages) : messages'[i] = messages[i]
         /\ messages'[Len(messages) + 1].role = role
         /\ messages'[Len(messages) + 1].calls = made
         /\ messages'[Len(messages) + 1].answers = answered
<1>1. [role |-> role, calls |-> made, answers |-> answered, bytes |-> bytes] \in Message
  BY DEF Message
<1>2. messages \in Seq(Message)
  BY DEF TypeOK
<1> DEFINE m == [role |-> role, calls |-> made, answers |-> answered, bytes |-> bytes]
<1>3. m \in Message /\ m.role = role /\ m.calls = made /\ m.answers = answered
  BY <1>1
<1>4. messages' = Append(messages, m)
  BY DEF Say
<1>. HIDE DEF m
<1>5. /\ messages' \in Seq(Message)
      /\ Len(messages) \in Nat /\ Len(messages') = Len(messages) + 1
      /\ \A i \in 1..Len(messages) : messages'[i] = messages[i]
      /\ messages'[Len(messages) + 1] = m
  BY <1>2, <1>3, <1>4
<1>. QED
  BY <1>3, <1>5

LEMMA InvInit == Init => Inv
<1> SUFFICES ASSUME Init PROVE Inv
  OBVIOUS
<1>1. messages \in Seq(Message) /\ Len(messages) = 0
  BY DEF Init
<1>. QED
  BY <1>1 DEF Init, Inv, TypeOK, CallsInv

LEMMA InvStep == Inv /\ [Next]_vars => Inv'
<1> SUFFICES ASSUME Inv, [Next]_vars PROVE Inv'
  OBVIOUS
<1>1. TypeOK /\ calls \in Nat /\ pending \subseteq 1..calls /\ CallsInv
  BY DEF Inv, TypeOK
<1>2. ASSUME NEW role \in {"system", "user"}, NEW bytes \in Nat, pending = {},
             Say(role, {}, 0, bytes), UNCHANGED <<pending, calls>>
      PROVE  Inv'
  <2>1. /\ messages' \in Seq(Message)
        /\ Len(messages) \in Nat /\ Len(messages') = Len(messages) + 1
        /\ \A i \in 1..Len(messages) : messages'[i] = messages[i]
        /\ messages'[Len(messages) + 1].calls = {}
        /\ messages'[Len(messages) + 1].role = role
    <3>1. {} \in SUBSET Nat /\ 0 \in Nat /\ role \in {"system", "user", "assistant", "tool"}
      OBVIOUS
    <3>. QED
      BY <1>1, <1>2, <3>1, SayIs
  <2>2. \A i \in 1..Len(messages') :
          /\ messages'[i].calls \subseteq 1..calls
          /\ messages'[i].calls # {} => messages'[i].role = "assistant"
          /\ messages'[i].role = "tool" => messages'[i].answers \in 1..calls
    BY <1>1, <2>1 DEF CallsInv
  <2>3. ASSUME NEW i \in 1..Len(messages'), NEW j \in 1..Len(messages'),
               messages'[j].role = "tool", messages'[j].answers \in messages'[i].calls
        PROVE  i < j /\ \A k \in i..j : messages'[k].role # "user"
    <3>1. /\ i \in 1..Len(messages) /\ messages'[i] = messages[i]
          /\ j \in 1..Len(messages) /\ messages'[j] = messages[j]
      BY <2>1, <2>3
    <3>2. i < j /\ \A k \in i..j : messages[k].role # "user"
      BY <1>1, <2>3, <3>1 DEF CallsInv
    <3>. QED
      BY <2>1, <3>1, <3>2
  <2>4. CallsInv'
    BY <1>2, <2>2, <2>3 DEF CallsInv
  <2>. QED
    BY <1>1, <1>2, <2>1, <2>4 DEF Inv, TypeOK
<1>3. CASE System
  BY <1>2, <1>3 DEF System
<1>4. CASE User
  BY <1>2, <1>4 DEF User
<1>5. CASE Assistant
  <2>1. PICK n \in 0..MaxCalls :
          /\ Say("assistant", (calls + 1)..(calls + n), 0, 4)
          /\ calls' = calls + n /\ pending' = (calls + 1)..(calls + n)
    BY <1>5 DEF Assistant
  <2>2. n \in Nat /\ (calls + 1)..(calls + n) \in SUBSET Nat
    BY <1>1, BoundsAssumption
  <2>3. /\ messages' \in Seq(Message)
        /\ Len(messages) \in Nat /\ Len(messages') = Len(messages) + 1
        /\ \A i \in 1..Len(messages) : messages'[i] = messages[i]
        /\ messages'[Len(messages) + 1].calls = (calls + 1)..(calls + n)
        /\ messages'[Len(messages) + 1].role = "assistant"
    BY <1>1, <2>1, <2>2, SayIs
  <2>4. TypeOK'
    BY <1>1, <2>1, <2>2, <2>3 DEF TypeOK
  <2>5. \A i \in 1..Len(messages') :
          /\ messages'[i].calls \subseteq 1..calls'
          /\ messages'[i].calls # {} => messages'[i].role = "assistant"
          /\ messages'[i].role = "tool" => messages'[i].answers \in 1..calls'
    BY <1>1, <2>1, <2>2, <2>3 DEF CallsInv
  <2>6. ASSUME NEW i \in 1..Len(messages'), NEW j \in 1..Len(messages'),
               messages'[j].role = "tool", messages'[j].answers \in messages'[i].calls
        PROVE  i < j /\ \A k \in i..j : messages'[k].role # "user"
    <3>1. j \in 1..Len(messages) /\ messages'[j] = messages[j]
      BY <2>3, <2>6
    <3>2. messages[j].answers \in 1..calls
      BY <1>1, <2>6, <3>1 DEF CallsInv
    <3>3. i \in 1..Len(messages) /\ messages'[i] = messages[i]
      BY <1>1, <2>2, <2>3, <2>6, <3>1, <3>2
    <3>4. i < j /\ \A k \in i..j : messages[k].role # "user"
      BY <1>1, <2>6, <3>1, <3>3 DEF CallsInv
    <3>. QED
      BY <2>3, <3>1, <3>3, <3>4
  <2>7. ASSUME NEW i \in 1..Len(messages'), messages'[i].calls \cap pending' # {}
        PROVE  \A k \in i..Len(messages') : messages'[k].role # "user"
    <3>1. i = Len(messages) + 1
      BY <1>1, <2>1, <2>2, <2>3, <2>7 DEF CallsInv
    <3>. QED
      BY <2>3, <3>1
  <2>. QED
    BY <2>4, <2>5, <2>6, <2>7 DEF Inv, CallsInv
<1>6. CASE Tool
  <2>1. PICK c \in pending, bytes \in Sizes :
          Say("tool", {}, c, bytes) /\ pending' = pending \ {c} /\ calls' = calls
    BY <1>6 DEF Tool
  <2>2. c \in 1..calls /\ c \in Nat /\ bytes \in Nat
    BY <1>1, <2>1, BoundsAssumption
  <2>3. /\ messages' \in Seq(Message)
        /\ Len(messages) \in Nat /\ Len(messages') = Len(messages) + 1
        /\ \A i \in 1..Len(messages) : messages'[i] = messages[i]
        /\ messages'[Len(messages) + 1].calls = {}
        /\ messages'[Len(messages) + 1].role = "tool"
        /\ messages'[Len(messages) + 1].answers = c
    BY <1>1, <2>1, <2>2, SayIs
  <2>4. TypeOK'
    BY <1>1, <2>1, <2>2, <2>3 DEF TypeOK
  <2>5. \A i \in 1..Len(messages') :
          /\ messages'[i].calls \subseteq 1..calls'
          /\ messages'[i].calls # {} => messages'[i].role = "assistant"
          /\ messages'[i].role = "tool" => messages'[i].answers \in 1..calls'
    BY <1>1, <2>1, <2>2, <2>3 DEF CallsInv
  <2>6. ASSUME NEW i \in 1..Len(messages'), NEW j \in 1..Len(messages'),
               messages'[j].role = "tool", messages'[j].answers \in messages'[i].calls
        PROVE  i < j /\ \A k \in i..j : messages'[k].role # "user"
    <3>1. i \in 1..Len(messages) /\ messages'[i] = messages[i]
      BY <2>3, <2>6
    <3>2. CASE j \in 1..Len(messages)
      <4>1. messages'[j] = messages[j]
        BY <2>3, <3>2
      <4>2. i < j /\ \A k \in i..j : messages[k].role # "user"
        BY <1>1, <2>6, <3>1, <3>2, <4>1 DEF CallsInv
      <4>. QED
        BY <2>3, <3>1, <3>2, <4>2
    <3>3. CASE j = Len(messages) + 1
      <4>1. messages[i].calls \cap pending # {}
        BY <2>1, <2>3, <2>6, <3>1, <3>3
      <4>2. \A k \in i..Len(messages) : messages[k].role # "user"
        BY <1>1, <3>1, <4>1 DEF CallsInv
      <4>. QED
        BY <2>3, <3>1, <3>3, <4>2
    <3>. QED
      BY <2>3, <3>2, <3>3
  <2>7. ASSUME NEW i \in 1..Len(messages'), messages'[i].calls \cap pending' # {}
        PROVE  \A k \in i..Len(messages') : messages'[k].role # "user"
    <3>1. i \in 1..Len(messages) /\ messages[i].calls \cap pending # {}
      BY <2>1, <2>3, <2>7
    <3>2. \A k \in i..Len(messages) : messages[k].role # "user"
      BY <1>1, <3>1 DEF CallsInv
    <3>. QED
      BY <2>3, <3>1, <3>2
  <2>. QED
    BY <2>4, <2>5, <2>6, <2>7 DEF Inv, CallsInv
<1>7. CASE UNCHANGED vars
  BY <1>7 DEF vars, Inv, TypeOK, CallsInv
<1>. QED
  BY <1>3, <1>4, <1>5, <1>6, <1>7 DEF Next

LEMMA Invariant == Spec => []Inv
  BY InvInit, InvStep, PTL DEF Spec

-----------------------------------------------------------------------------
(* The histories a client can have keep their type.                          *)
THEOREM TypeCorrect == Spec => []TypeOK
<1>1. Inv => TypeOK
  BY DEF Inv
<1>. QED
  BY <1>1, Invariant, PTL

(* Whatever the limits and the mode of a request, its rounds stay whole.     *)
LEMMA PairsStayTogether ==
  ASSUME Inv, NEW max, NEW thinking
  PROVE  Paired(Sending(max, thinking, messages))
<1> DEFINE cut  == TruncateAt(max, messages)
           sent == Sending(max, thinking, messages)
<1> SUFFICES ASSUME NEW i \in DOMAIN messages, NEW j \in DOMAIN messages,
                    messages[j].role = "tool", messages[j].answers \in messages[i].calls
             PROVE  i \in sent <=> j \in sent
  BY DEF Paired
<1>1. /\ messages \in Seq(Message) /\ Len(messages) \in Nat
      /\ i \in 1..Len(messages) /\ j \in 1..Len(messages)
  BY DEF Inv, TypeOK
<1>2. /\ i < j /\ \A k \in i..j : messages[k].role # "user"
      /\ messages[i].role = "assistant"
  BY <1>1 DEF Inv, CallsInv
<1>3. FirstOf(messages) \in Nat /\ FirstOf(messages) <= i /\ FirstOf(messages) <= j
  BY <1>1, <1>2, FirstIs DEF IsRole
<1>4. cut <= i <=> cut <= j
  <2>1. cut \in Nat
    BY <1>1, TruncateIs, StartsAre
  <2>2. CASE cut = FirstOf(messages)
    BY <1>3, <2>2
  <2>3. CASE cut \in 1..Len(messages) /\ IsRole(messages, cut, "user")
    <3>1. cut \notin i..j
      BY <1>2, <2>3 DEF IsRole
    <3>. QED
      BY <1>1, <1>2, <2>1, <3>1
  <2>. QED
    BY <1>1, <2>2, <2>3, TruncateIs, StartsAre
<1>5. CASE thinking /\ Strategy = "recover"
  BY <1>1, <1>5, SendingIs
<1>6. CASE ~(thinking /\ Strategy = "recover")
  BY <1>1, <1>3, <1>4, <1>6, SendingIs
<1>. QED
  BY <1>5, <1>6

(* A tool result is sent exactly when the message that made the call is.     *)
THEOREM RoundsStayWhole == Spec => []NoOrphans
<1>1. Inv => NoOrphans
  BY PairsStayTogether DEF NoOrphans, Sent
<1>. QED
  BY <1>1, Invariant, PTL

(* The latest user turn, and all that answers it, is always sent.            *)
THEOREM LastTurnIsSent == Spec => []LastTurnSent
<1>1. Inv => LastTurnSent
  <2> SUFFICES ASSUME Inv, NEW i \in DOMAIN messages,
                      \A j \in (i + 1)..Len(messages) : ~IsRole(messages, j, "user")
               PROVE  i \in Sent(messages)
    BY DEF LastTurnSent
  <2>1. messages \in Seq(Message) /\ i \in 1..Len(messages) /\ Len(messages) \in Nat
    BY DEF Inv, TypeOK
  <2>2. FirstOf(messages) \in Nat /\ Cut(messages) \in Nat
    BY <2>1, FirstIs, SentIs
  <2>3. CASE Cut(messages) <= i
    BY <2>1, <2>3, SentIs
  <2>4. CASE i < Cut(messages)
    <3>1. Cut(messages) = FirstOf(messages)
      BY <2>1, <2>2, <2>4, TruncateIs, StartsAre DEF Cut
    <3>. QED
      BY <2>1, <2>2, <2>4, <3>1, SentIs
  <2>. QED
    BY <2>1, <2>2, <2>3, <2>4
<1>. QED
  BY <1>1, Invariant, PTL

(* Whatever round start would have fitted, all behind it is sent.            *)
THEOREM NothingCutInVain == Spec => []CutsNoMoreThanNeeded
<1>1. Inv => CutsNoMoreThanNeeded
  <2> SUFFICES ASSUME Inv, NEW c \in RoundStarts(messages), WithinLimits(messages, c),
                      NEW i \in c..Len(messages)
               PROVE  i \in Sent(messages)
    BY DEF CutsNoMoreThanNeeded
  <2>1. messages \in Seq(Message) /\ Len(messages) \in Nat
    BY DEF Inv, TypeOK
  <2>2. /\ c \in Nat /\ FirstOf(messages) <= c /\ FirstOf(messages) \in 1..(Len(messages) + 1)
        /\ Cut(messages) \in Nat
    BY <2>1, StartsAre, FirstIs, SentIs
  <2>3. Cut(messages) <= c
    BY <2>1, TruncateIs DEF Cut, WithinLimits
  <2>. QED
    BY <2>1, <2>2, <2>3, SentIs
<1>. QED
  BY <1>1, Invariant, PTL

(* What a request that is cut sends is within its limits, or is the last     *)
(* round alone.                                                              *)
LEMMA LimitsAreKept ==
  ASSUME Inv, NEW max, NEW thinking, ~(thinking /\ Strategy = "recover")
  PROVE  KeepsTo(max, Sending(max, thinking, messages))
<1> DEFINE cut    == TruncateAt(max, messages)
           sent   == Sending(max, thinking, messages)
           behind == sent \ 1..(FirstOf(messages) - 1)
           ends   == {Len(messages) + 1} \cup behind
<1>1. messages \in Seq(Message) /\ Len(messages) \in Nat
  BY DEF Inv, TypeOK
<1>2. /\ FirstOf(messages) \in 1..(Len(messages) + 1) /\ FirstOf(messages) <= cut
      /\ cut \in 1..(Len(messages) + 1)
  BY <1>1, FirstIs, SendingIs
<1>3. behind = cut..Len(messages)
  <2>1. sent = 1..(FirstOf(messages) - 1) \cup cut..Len(messages)
    BY DEF Sending, Kept
  <2>. QED
    BY <1>1, <1>2, <2>1
<1>4. Least(ends) = cut
  <2>1. ends \in SUBSET Nat /\ ends # {} /\ cut \in ends /\ \A i \in ends : cut <= i
    BY <1>1, <1>2, <1>3
  <2>2. Least(ends) \in ends /\ \A i \in ends : Least(ends) <= i
    <3>. HIDE DEF ends
    <3>. QED
      BY <2>1, LeastIs
  <2>3. Least(ends) <= cut /\ cut <= Least(ends) /\ Least(ends) \in Nat /\ cut \in Nat
    <3>. HIDE DEF ends
    <3>. QED
      BY <2>1, <2>2
  <2>. HIDE DEF ends, cut
  <2>. QED
    BY <2>3
<1>5. CASE Fits(max, messages, cut)
  BY <1>4, <1>5 DEF KeepsTo
<1>6. CASE ~Fits(max, messages, cut)
  <2>1. \A c \in RoundStarts(messages) : c <= cut /\ c \in Nat
    BY <1>1, <1>6, TruncateIs, StartsAre
  <2>2. \A c \in RoundStarts(messages) : \A i \in behind : c <= i
    BY <1>1, <1>2, <1>3, <2>1
  <2>. QED
    BY <2>2 DEF KeepsTo
<1>. QED
  BY <1>5, <1>6

(* Where histories are cut at all, what is sent is within the limits, or is  *)
(* the last round alone.                                                     *)
THEOREM LimitsKept ==
  ASSUME ~(Thinking /\ Strategy = "recover")
  PROVE  Spec => []LimitHonoured
<1>1. Inv => LimitHonoured
  BY LimitsAreKept DEF LimitHonoured, Sent
<1>. QED
  BY <1>1, Invariant, PTL

-----------------------------------------------------------------------------
(* What the sizes add up to *)

Weight(ms, i) == ms[i].bytes \div 4 + 1
Some(s) == CHOOSE i \in s : TRUE

(* The sum of a set by those of its subsets, as MapThenSumSet defines it. *)
Iterates(ms, iter, D) ==
  iter = [s \in D |-> IF s = {} THEN 0 ELSE Weight(ms, Some(s)) + iter[s \ {Some(s)}]]

Iter(ms, S) == CHOOSE iter : Iterates(ms, iter, SUBSET S)

LEMMA TokensAre ==
  ASSUME NEW ms, NEW S
  PROVE  Tokens(ms, S) = Iter(ms, S)[S]
BY DEF Tokens, MapThenSumSet, MapThenFoldSet, Iter, Iterates, Some, Weight

LEMMA IterExists ==
  ASSUME NEW ms, NEW S, IsFiniteSet(S)
  PROVE  Iterates(ms, Iter(ms, S), SUBSET S)
<1> DEFINE Upto(n) == {s \in SUBSET S : Cardinality(s) <= n}
           G == {n \in Nat : \E iter : Iterates(ms, iter, Upto(n))}
<1>1. \A s \in SUBSET S : IsFiniteSet(s) /\ Cardinality(s) \in Nat /\ Cardinality(s) <= Cardinality(S)
  BY FS_Subset, FS_CardinalityType
<1>2. 0 \in G
  <2>1. \A s \in Upto(0) : s = {}
    BY <1>1, FS_EmptySet
  <2>2. Iterates(ms, [s \in Upto(0) |-> 0], Upto(0))
    BY <2>1 DEF Iterates
  <2>. QED
    BY <2>2
<1>3. ASSUME NEW n \in Nat, n \in G PROVE n + 1 \in G
  <2>1. PICK old : Iterates(ms, old, Upto(n))
    BY <1>3
  <2> DEFINE new == [s \in Upto(n + 1) |->
                       IF s = {} THEN 0 ELSE Weight(ms, Some(s)) + old[s \ {Some(s)}]]
  <2>2. \A s \in Upto(n) : s \in Upto(n + 1)
    BY <1>1
  <2>3. ASSUME NEW s \in Upto(n + 1), s # {} PROVE s \ {Some(s)} \in Upto(n)
    <3>1. Some(s) \in s
      BY <2>3 DEF Some
    <3>2. Cardinality(s \ {Some(s)}) = Cardinality(s) - 1
      BY <1>1, <3>1, FS_RemoveElement
    <3>. QED
      BY <1>1, <3>2
  <2>4. ASSUME NEW s \in Upto(n) PROVE new[s] = old[s]
    <3>1. old = [t \in Upto(n) |-> IF t = {} THEN 0 ELSE Weight(ms, Some(t)) + old[t \ {Some(t)}]]
      BY <2>1 DEF Iterates
    <3>2. old[s] = IF s = {} THEN 0 ELSE Weight(ms, Some(s)) + old[s \ {Some(s)}]
      <4>. HIDE DEF Upto
      <4>. QED
        BY <3>1
    <3>. QED
      BY <2>2, <3>2
  <2>5. \A s \in Upto(n + 1) : s # {} => new[s \ {Some(s)}] = old[s \ {Some(s)}]
    <3>. HIDE DEF Upto, new
    <3>. QED
      BY <2>3, <2>4
  <2>6. new = [s \in Upto(n + 1) |->
                 IF s = {} THEN 0 ELSE Weight(ms, Some(s)) + new[s \ {Some(s)}]]
    <3>1. ASSUME NEW s \in Upto(n + 1)
          PROVE  (IF s = {} THEN 0 ELSE Weight(ms, Some(s)) + old[s \ {Some(s)}])
                   = IF s = {} THEN 0 ELSE Weight(ms, Some(s)) + new[s \ {Some(s)}]
      <4>. HIDE DEF Upto, new
      <4>. QED
        BY <2>5
    <3>. HIDE DEF Upto
    <3>2. new = [s \in Upto(n + 1) |->
                   IF s = {} THEN 0 ELSE Weight(ms, Some(s)) + old[s \ {Some(s)}]]
      OBVIOUS
    <3>. HIDE DEF new
    <3>. QED
      BY <3>1, <3>2
  <2>7. Iterates(ms, new, Upto(n + 1))
    <3>. HIDE DEF Upto, new
    <3>. QED
      BY <2>6 DEF Iterates
  <2>. HIDE DEF new, Upto
  <2>. QED
    BY <2>7
<1>4. Cardinality(S) \in Nat /\ Cardinality(S) \in G
  <2>1. \A n \in Nat : n \in G
    <3>. HIDE DEF G
    <3>. QED
      BY <1>2, <1>3, AllNumbers
  <2>. QED
    BY <2>1, FS_CardinalityType
<1>5. Upto(Cardinality(S)) = SUBSET S
  BY <1>1
<1>6. \E iter : Iterates(ms, iter, SUBSET S)
  BY <1>4, <1>5
<1>. QED
  BY <1>6 DEF Iter

LEMMA SubsetsOf ==
  ASSUME NEW S, IsFiniteSet(S), NEW T \in SUBSET S
  PROVE  /\ IsFiniteSet(T) /\ Cardinality(T) \in Nat
         /\ \A i \in T : /\ IsFiniteSet(T \ {i})
                         /\ Cardinality(T \ {i}) = Cardinality(T) - 1
                         /\ Cardinality(T \ {i}) \in Nat
         /\ T # {} => Some(T) \in T
BY FS_Subset, FS_CardinalityType, FS_RemoveElement DEF Some

(* The sums of a set's subsets do not depend on the set. *)
LEMMA IterIsTokens ==
  ASSUME NEW ms, NEW S, IsFiniteSet(S), NEW T \in SUBSET S
  PROVE  Iter(ms, S)[T] = Tokens(ms, T)
<1> DEFINE G == {n \in Nat : \A s \in SUBSET T : Cardinality(s) = n => Iter(ms, S)[s] = Iter(ms, T)[s]}
<1>1. /\ Iter(ms, S) = [s \in SUBSET S |->
             IF s = {} THEN 0 ELSE Weight(ms, Some(s)) + Iter(ms, S)[s \ {Some(s)}]]
      /\ Iter(ms, T) = [s \in SUBSET T |->
             IF s = {} THEN 0 ELSE Weight(ms, Some(s)) + Iter(ms, T)[s \ {Some(s)}]]
  <2>1. Iterates(ms, Iter(ms, S), SUBSET S) /\ Iterates(ms, Iter(ms, T), SUBSET T)
    BY IterExists, SubsetsOf
  <2>. QED
    BY <2>1 DEF Iterates
<1>2. \A s \in SUBSET T :
        /\ Iter(ms, S)[s] = IF s = {} THEN 0 ELSE Weight(ms, Some(s)) + Iter(ms, S)[s \ {Some(s)}]
        /\ Iter(ms, T)[s] = IF s = {} THEN 0 ELSE Weight(ms, Some(s)) + Iter(ms, T)[s \ {Some(s)}]
  <2> DEFINE f == Iter(ms, S)
             g == Iter(ms, T)
  <2>. HIDE DEF f, g
  <2>1. /\ f = [s \in SUBSET S |-> IF s = {} THEN 0 ELSE Weight(ms, Some(s)) + f[s \ {Some(s)}]]
        /\ g = [s \in SUBSET T |-> IF s = {} THEN 0 ELSE Weight(ms, Some(s)) + g[s \ {Some(s)}]]
    BY <1>1 DEF f, g
  <2>2. \A s \in SUBSET T :
          /\ f[s] = IF s = {} THEN 0 ELSE Weight(ms, Some(s)) + f[s \ {Some(s)}]
          /\ g[s] = IF s = {} THEN 0 ELSE Weight(ms, Some(s)) + g[s \ {Some(s)}]
    BY <2>1
  <2>. QED
    BY <2>2 DEF f, g
<1>3. \A s \in SUBSET T : IsFiniteSet(s) /\ Cardinality(s) \in Nat
  BY SubsetsOf, FS_Subset
<1>4. 0 \in G
  <2>1. \A s \in SUBSET T : Cardinality(s) = 0 => s = {}
    BY <1>3, FS_EmptySet
  <2>. QED
    BY <1>2, <2>1
<1>5. ASSUME NEW n \in Nat, n \in G PROVE n + 1 \in G
  <2> SUFFICES ASSUME NEW s \in SUBSET T, Cardinality(s) = n + 1
               PROVE  Iter(ms, S)[s] = Iter(ms, T)[s]
    OBVIOUS
  <2>1. s # {}
    BY FS_EmptySet
  <2>2. s \ {Some(s)} \in SUBSET T /\ Cardinality(s \ {Some(s)}) = n
    BY <1>3, <2>1, SubsetsOf
  <2>3. Iter(ms, S)[s \ {Some(s)}] = Iter(ms, T)[s \ {Some(s)}]
    BY <1>5, <2>2
  <2>. QED
    BY <1>2, <2>1, <2>3
<1>6. \A n \in Nat : n \in G
  <2>. HIDE DEF G
  <2>. QED
    BY <1>4, <1>5, AllNumbers
<1>7. Cardinality(T) \in G /\ T \in SUBSET T
  BY <1>3, <1>6
<1>. QED
  BY <1>7, TokensAre

(* One message more adds its size. *)
LEMMA TokensUnfold ==
  ASSUME NEW ms, NEW S, IsFiniteSet(S)
  PROVE  /\ S = {} => Tokens(ms, S) = 0
         /\ S # {} => Tokens(ms, S) = Weight(ms, Some(S)) + Tokens(ms, S \ {Some(S)})
<1> DEFINE f == Iter(ms, S)
<1>. HIDE DEF f
<1>1. f = [s \in SUBSET S |-> IF s = {} THEN 0 ELSE Weight(ms, Some(s)) + f[s \ {Some(s)}]]
  <2>1. Iterates(ms, f, SUBSET S)
    BY IterExists DEF f
  <2>. QED
    BY <2>1 DEF Iterates
<1>2. f[S] = IF S = {} THEN 0 ELSE Weight(ms, Some(S)) + f[S \ {Some(S)}]
  BY <1>1
<1>3. f[S] = Tokens(ms, S) /\ f[S \ {Some(S)}] = Tokens(ms, S \ {Some(S)})
  BY IterIsTokens DEF f
<1>. QED
  BY <1>2, <1>3

(* All messages of S have a size. *)
Weighed(ms, S) == \A i \in S : Weight(ms, i) \in Nat

LEMMA TokensAdd ==
  ASSUME NEW ms, NEW S, IsFiniteSet(S), Weighed(ms, S)
  PROVE  /\ Tokens(ms, S) \in Nat
         /\ \A i \in S : Tokens(ms, S) = Weight(ms, i) + Tokens(ms, S \ {i})
<1> DEFINE Adds(s) == /\ Tokens(ms, s) \in Nat
                      /\ \A i \in s : Tokens(ms, s) = Weight(ms, i) + Tokens(ms, s \ {i})
           G == {n \in Nat : \A s \in SUBSET S : Cardinality(s) <= n => Adds(s)}
<1>1. \A s \in SUBSET S : IsFiniteSet(s) /\ Cardinality(s) \in Nat
  BY SubsetsOf
<1>2. 0 \in G
  <2>1. \A s \in SUBSET S : Cardinality(s) <= 0 => s = {} /\ Tokens(ms, s) = 0
    <3>1. \A s \in SUBSET S : Cardinality(s) <= 0 => s = {}
      BY <1>1, FS_EmptySet
    <3>2. Tokens(ms, {}) = 0
      BY FS_EmptySet, TokensUnfold
    <3>. QED
      BY <3>1, <3>2
  <2>. QED
    BY <2>1
<1>3. ASSUME NEW n \in Nat, n \in G PROVE n + 1 \in G
  <2> SUFFICES ASSUME NEW s \in SUBSET S, Cardinality(s) <= n + 1, s # {} PROVE Adds(s)
    <3>1. ASSUME NEW s \in SUBSET S, s = {} PROVE Adds(s)
      <4>1. Tokens(ms, {}) = 0
        BY FS_EmptySet, TokensUnfold
      <4>. QED
        BY <3>1, <4>1
    <3>. QED
      BY <3>1
  <2> DEFINE x == Some(s)
  <2>. HIDE DEF x
  <2>1. s # {} /\ IsFiniteSet(s)
    BY <1>1
  <2>2. x \in s
    BY <1>1, <2>1, SubsetsOf DEF x
  <2>3. \A i \in s : s \ {i} \in SUBSET S /\ Cardinality(s \ {i}) <= n
    BY <1>1, SubsetsOf
  <2>4. \A i \in s : Adds(s \ {i})
    BY <1>3, <2>3
  <2>5. Tokens(ms, s) = Weight(ms, x) + Tokens(ms, s \ {x})
    BY <2>1, TokensUnfold DEF x
  <2>6. \A i \in s : Weight(ms, i) \in Nat
    BY DEF Weighed
  <2>7. Tokens(ms, s) \in Nat
    BY <2>2, <2>4, <2>5, <2>6
  <2>8. ASSUME NEW i \in s, i # x
        PROVE  Tokens(ms, s) = Weight(ms, i) + Tokens(ms, s \ {i})
    <3>1. i \in s \ {x} /\ x \in s \ {i}
      BY <2>2, <2>8
    <3>2. Tokens(ms, s \ {x}) = Weight(ms, i) + Tokens(ms, (s \ {x}) \ {i})
      BY <2>2, <2>4, <3>1
    <3>3. Tokens(ms, s \ {i}) = Weight(ms, x) + Tokens(ms, (s \ {i}) \ {x})
      BY <2>4, <3>1
    <3>4. (s \ {x}) \ {i} = (s \ {i}) \ {x}
      OBVIOUS
    <3>5. Tokens(ms, s \ {x}) \in Nat /\ Tokens(ms, s \ {i}) \in Nat
      BY <2>2, <2>4
    <3>6. Tokens(ms, (s \ {x}) \ {i}) \in Int
      <4>1. (s \ {x}) \ {i} \in SUBSET S /\ Cardinality((s \ {x}) \ {i}) <= n
        <5> DEFINE r == s \ {x}
        <5>1. r \in SUBSET S /\ Cardinality(r) <= n /\ i \in r
          BY <2>2, <2>3, <3>1
        <5>2. r \ {i} \in SUBSET S /\ Cardinality(r \ {i}) = Cardinality(r) - 1 /\ Cardinality(r) \in Nat
          <6>. HIDE DEF r
          <6>. QED
            BY <1>1, <5>1, SubsetsOf
        <5>. QED
          BY <5>1, <5>2
      <4>. QED
        BY <1>3, <4>1
    <3>7. Tokens(ms, (s \ {i}) \ {x}) = Tokens(ms, (s \ {x}) \ {i})
      BY <3>4
    <3> DEFINE rest == Tokens(ms, (s \ {x}) \ {i})
    <3>8. /\ Tokens(ms, s) = Weight(ms, x) + (Weight(ms, i) + rest)
          /\ Tokens(ms, s \ {i}) = Weight(ms, x) + rest
          /\ Weight(ms, x) \in Nat /\ Weight(ms, i) \in Nat /\ rest \in Int
      BY <2>2, <2>5, <2>6, <3>2, <3>3, <3>6, <3>7
    <3>. HIDE DEF rest
    <3>. QED
      BY <3>8
  <2>. QED
    BY <2>5, <2>7, <2>8
<1>4. \A n \in Nat : n \in G
  <2>. HIDE DEF G
  <2>. QED
    BY <1>2, <1>3, AllNumbers
<1>5. Cardinality(S) \in G /\ S \in SUBSET S
  BY <1>1, <1>4
<1>. QED
  BY <1>5

(* More messages, the old ones unchanged, have at least the old size. *)
LEMMA TokensGrow ==
  ASSUME NEW ms, NEW mt, NEW S, NEW T, IsFiniteSet(T), S \subseteq T, Weighed(mt, T),
         \A i \in S : mt[i] = ms[i]
  PROVE  Tokens(ms, S) \in Nat /\ Tokens(mt, T) \in Nat /\ Tokens(ms, S) <= Tokens(mt, T)
<1> DEFINE Grows(s) == Tokens(ms, s \cap S) \in Nat /\ Tokens(ms, s \cap S) <= Tokens(mt, s)
           G == {n \in Nat : \A s \in SUBSET T : Cardinality(s) = n => Grows(s)}
<1>1. \A s \in SUBSET T : /\ IsFiniteSet(s) /\ Cardinality(s) \in Nat
                          /\ IsFiniteSet(s \cap S)
                          /\ Weighed(mt, s) /\ Weighed(ms, s \cap S)
  <2>1. \A s \in SUBSET T : s \cap S \in SUBSET T
    OBVIOUS
  <2>. QED
    BY <2>1, SubsetsOf DEF Weighed, Weight
<1>2. \A s \in SUBSET T : /\ Tokens(mt, s) \in Nat /\ Tokens(ms, s \cap S) \in Nat
                          /\ \A i \in s : Tokens(mt, s) = Weight(mt, i) + Tokens(mt, s \ {i})
                          /\ \A i \in s \cap S :
                               Tokens(ms, s \cap S) = Weight(ms, i) + Tokens(ms, (s \cap S) \ {i})
  BY <1>1, TokensAdd
<1>3. 0 \in G
  <2>1. \A s \in SUBSET T : Cardinality(s) = 0 => s = {} /\ s \cap S = {}
    BY <1>1, FS_EmptySet
  <2>2. Tokens(mt, {}) = 0 /\ Tokens(ms, {}) = 0
    BY FS_EmptySet, TokensUnfold
  <2>. QED
    BY <2>1, <2>2
<1>4. ASSUME NEW n \in Nat, n \in G PROVE n + 1 \in G
  <2> SUFFICES ASSUME NEW s \in SUBSET T, Cardinality(s) = n + 1 PROVE Grows(s)
    OBVIOUS
  <2>1. PICK x : x \in s
    BY FS_EmptySet
  <2> DEFINE r == s \ {x}
  <2>2. r \in SUBSET T /\ Cardinality(r) = n
    BY <1>1, <2>1, SubsetsOf
  <2>3. Tokens(ms, r \cap S) <= Tokens(mt, r)
    <3>. HIDE DEF r
    <3>. QED
      BY <1>4, <2>2
  <2>4. Tokens(mt, s) = Weight(mt, x) + Tokens(mt, r) /\ Weight(mt, x) \in Nat
    BY <1>2, <2>1 DEF Weighed
  <2>5. Tokens(mt, r) \in Nat /\ Tokens(ms, r \cap S) \in Nat /\ Tokens(ms, s \cap S) \in Nat
    <3>. HIDE DEF r
    <3>. QED
      BY <1>2, <2>2
  <2>6. CASE x \in S
    <3>1. Tokens(ms, s \cap S) = Weight(ms, x) + Tokens(ms, (s \cap S) \ {x})
      BY <1>2, <2>1, <2>6
    <3>2. (s \cap S) \ {x} = r \cap S /\ Weight(ms, x) = Weight(mt, x)
      BY <2>6 DEF Weight
    <3>3. Tokens(ms, s \cap S) = Weight(mt, x) + Tokens(ms, r \cap S)
      BY <3>1, <3>2
    <3>. HIDE DEF r
    <3>. QED
      BY <2>3, <2>4, <2>5, <3>3
  <2>7. CASE x \notin S
    <3>1. s \cap S = r \cap S
      BY <2>7
    <3>2. Tokens(ms, s \cap S) = Tokens(ms, r \cap S)
      BY <3>1
    <3>. HIDE DEF r
    <3>. QED
      BY <2>3, <2>4, <2>5, <3>2
  <2>. QED
    BY <2>6, <2>7
<1>5. \A n \in Nat : n \in G
  <2>. HIDE DEF G
  <2>. QED
    BY <1>3, <1>4, AllNumbers
<1>6. Cardinality(T) \in G /\ T \in SUBSET T /\ T \cap S = S
  BY <1>1, <1>5
<1>. QED
  BY <1>2, <1>6

-----------------------------------------------------------------------------
(* A longer history *)

(* mt is ms and one message more. *)
Extends(mt, ms) ==
  /\ ms \in Seq(Message) /\ mt \in Seq(Message)
  /\ Len(mt) = Len(ms) + 1
  /\ \A i \in 1..Len(ms) : mt[i] = ms[i]

LEMMA MessagesWeigh ==
  ASSUME NEW ms \in Seq(Message)
  PROVE  \A S \in SUBSET DOMAIN ms : IsFiniteSet(S) /\ Weighed(ms, S)
<1>1. DOMAIN ms = 1..Len(ms) /\ Len(ms) \in Nat /\ \A i \in 1..Len(ms) : ms[i] \in Message
  OBVIOUS
<1>2. IsFiniteSet(1..Len(ms))
  BY <1>1, FS_Interval
<1>. QED
  BY <1>1, <1>2, FS_Subset DEF Weighed, Weight, Message

LEMMA FirstStays ==
  ASSUME NEW ms, NEW mt, Extends(mt, ms), FirstOf(ms) <= Len(ms)
  PROVE  FirstOf(mt) = FirstOf(ms)
<1>1. ms \in Seq(Message) /\ mt \in Seq(Message) /\ Len(ms) \in Nat /\ Len(mt) = Len(ms) + 1
  BY DEF Extends
<1>2. \A i \in 1..Len(ms) : IsRole(mt, i, "system") <=> IsRole(ms, i, "system")
  BY DEF Extends, IsRole
<1> DEFINE f == FirstOf(ms)
           g == FirstOf(mt)
<1>3. /\ f \in 1..(Len(ms) + 1) /\ g \in 1..(Len(ms) + 2)
      /\ \A i \in 1..(f - 1) : IsRole(ms, i, "system")
      /\ \A i \in 1..(g - 1) : IsRole(mt, i, "system")
      /\ f <= Len(ms) /\ ~IsRole(ms, f, "system")
      /\ g <= Len(ms) + 1 => ~IsRole(mt, g, "system")
  BY <1>1, FirstIs
<1>. HIDE DEF f, g
<1>4. ~(f < g)
  BY <1>1, <1>2, <1>3
<1>5. ~(g < f)
  BY <1>1, <1>2, <1>3
<1>6. f = g
  BY <1>1, <1>3, <1>4, <1>5
<1>. QED
  BY <1>6 DEF f, g

(* What fits when there is more to send fits when there is less. *)
LEMMA FitsBefore ==
  ASSUME NEW ms, NEW mt, Extends(mt, ms), FirstOf(mt) = FirstOf(ms), NEW max \in Int,
         NEW c \in Nat, FirstOf(ms) <= c, Fits(max, mt, c)
  PROVE  Fits(max, ms, c)
<1>1. /\ ms \in Seq(Message) /\ mt \in Seq(Message) /\ Len(ms) \in Nat
      /\ Len(mt) = Len(ms) + 1 /\ MaxPromptTokens \in Int
      /\ DOMAIN mt = 1..(Len(ms) + 1) /\ DOMAIN ms = 1..Len(ms)
  BY LimitsAssumption DEF Extends
<1>2. FirstOf(ms) \in 1..(Len(ms) + 1)
  BY <1>1, FirstIs
<1>3. max > 0 => FirstOf(ms) - 1 + Len(ms) - c + 1 <= max
  BY <1>1, <1>2 DEF Fits
<1>4. ASSUME MaxPromptTokens > 0
      PROVE  Tokens(ms, Kept(ms, c)) <= MaxPromptTokens
  <2>1. Kept(ms, c) \subseteq Kept(mt, c) /\ Kept(mt, c) \in SUBSET DOMAIN mt
        /\ Kept(ms, c) \subseteq 1..Len(ms)
    BY <1>1, <1>2 DEF Kept
  <2>2. IsFiniteSet(Kept(mt, c)) /\ Weighed(mt, Kept(mt, c))
    BY <1>1, <2>1, MessagesWeigh
  <2>3. \A i \in Kept(ms, c) : mt[i] = ms[i]
    BY <2>1 DEF Extends
  <2>4. /\ Tokens(ms, Kept(ms, c)) \in Nat /\ Tokens(mt, Kept(mt, c)) \in Nat
        /\ Tokens(ms, Kept(ms, c)) <= Tokens(mt, Kept(mt, c))
    BY <2>1, <2>2, <2>3, TokensGrow
  <2>5. Tokens(mt, Kept(mt, c)) <= MaxPromptTokens
    BY <1>4 DEF Fits
  <2>. QED
    BY <1>1, <2>4, <2>5
<1>. QED
  BY <1>3, <1>4 DEF Fits

(* Where a longer history may be cut: where the shorter one may, or behind   *)
(* it.                                                                       *)
LEMMA StartsGrow ==
  ASSUME NEW ms, NEW mt, Extends(mt, ms), FirstOf(mt) = FirstOf(ms)
  PROVE  /\ RoundStarts(ms) \subseteq RoundStarts(mt)
         /\ \A c \in RoundStarts(mt) : c \in RoundStarts(ms) \/ c = Len(ms) + 1
<1>1. /\ ms \in Seq(Message) /\ mt \in Seq(Message) /\ Len(ms) \in Nat
      /\ Len(mt) = Len(ms) + 1 /\ FirstOf(ms) \in 1..(Len(ms) + 1)
  BY FirstIs DEF Extends
<1>2. \A i \in 1..Len(ms) : IsRole(mt, i, "user") <=> IsRole(ms, i, "user")
  BY DEF Extends, IsRole
<1>. QED
  BY <1>1, <1>2 DEF RoundStarts

LEMMA CutGrows ==
  ASSUME NEW ms, NEW mt, Extends(mt, ms), FirstOf(mt) = FirstOf(ms), NEW max \in Int
  PROVE  TruncateAt(max, ms) <= TruncateAt(max, mt)
<1> DEFINE c == TruncateAt(max, ms)
           d == TruncateAt(max, mt)
<1>1. /\ ms \in Seq(Message) /\ mt \in Seq(Message) /\ Len(ms) \in Nat
      /\ FirstOf(ms) \in 1..(Len(ms) + 1)
  BY FirstIs DEF Extends
<1>2. /\ c \in RoundStarts(ms) /\ d \in RoundStarts(mt)
      /\ \/ \A e \in RoundStarts(ms) : Fits(max, ms, e) => c <= e
         \/ \A e \in RoundStarts(ms) : ~Fits(max, ms, e)
      /\ \/ Fits(max, mt, d)
         \/ \A e \in RoundStarts(mt) : e <= d
  BY <1>1, TruncateIs
<1>3. /\ c \in Nat /\ d \in Nat /\ c <= Len(ms) + 1 /\ FirstOf(ms) <= d
      /\ c \in RoundStarts(mt)
      /\ d \in RoundStarts(ms) \/ d = Len(ms) + 1
  BY <1>1, <1>2, StartsAre, StartsGrow
<1>4. Fits(max, mt, d) => Fits(max, ms, d)
  BY <1>3, FitsBefore
<1>. HIDE DEF c, d
<1>5. c <= d
  BY <1>1, <1>2, <1>3, <1>4
<1>. QED
  BY <1>5 DEF c, d

LEMMA DroppedStay ==
  ASSUME NEW ms, NEW mt, Extends(mt, ms)
  PROVE  DOMAIN ms \ Sent(ms) \subseteq DOMAIN mt \ Sent(mt)
<1>1. /\ ms \in Seq(Message) /\ mt \in Seq(Message) /\ Len(ms) \in Nat
      /\ Len(mt) = Len(ms) + 1 /\ MaxMessages \in Int
      /\ DOMAIN mt = 1..(Len(ms) + 1) /\ DOMAIN ms = 1..Len(ms)
      /\ FirstOf(ms) \in 1..(Len(ms) + 1)
  BY LimitsAssumption, FirstIs DEF Extends
<1>2. CASE Thinking /\ Strategy = "recover"
  BY <1>1, <1>2, SendingIs DEF Sent
<1>3. CASE ~(Thinking /\ Strategy = "recover") /\ FirstOf(ms) = Len(ms) + 1
  BY <1>1, <1>3, SentIs
<1>4. CASE ~(Thinking /\ Strategy = "recover") /\ FirstOf(ms) <= Len(ms)
  <2>1. FirstOf(mt) = FirstOf(ms)
    BY <1>4, FirstStays
  <2>2. Cut(ms) <= Cut(mt)
    BY <1>1, <2>1, CutGrows DEF Cut
  <2>3. /\ \A i \in DOMAIN ms : i \in Sent(ms) <=> i < FirstOf(ms) \/ Cut(ms) <= i
        /\ \A i \in DOMAIN mt : i \in Sent(mt) <=> i < FirstOf(mt) \/ Cut(mt) <= i
    BY <1>1, <1>4, SendingIs DEF Sent, Cut
  <2>4. Cut(ms) \in Nat /\ Cut(mt) \in Nat
    BY <1>1, SentIs
  <2>. QED
    BY <1>1, <2>1, <2>2, <2>3, <2>4
<1>. QED
  BY <1>1, <1>2, <1>3, <1>4

LEMMA NextExtends == Inv /\ Next => Extends(messages', messages)
<1> SUFFICES ASSUME Inv, Next PROVE Extends(messages', messages)
  OBVIOUS
<1>1. TypeOK /\ messages \in Seq(Message) /\ calls \in Nat /\ pending \subseteq 1..calls
  BY DEF Inv, TypeOK
<1>2. ASSUME NEW role \in {"system", "user", "assistant", "tool"},
             NEW made \in SUBSET Nat, NEW answered \in Nat, NEW bytes \in Nat,
             Say(role, made, answered, bytes)
      PROVE  Extends(messages', messages)
  BY <1>1, <1>2, SayIs DEF Extends
<1>3. CASE System
  BY <1>2, <1>3 DEF System
<1>4. CASE User
  BY <1>2, <1>4 DEF User
<1>5. CASE Assistant
  <2>1. PICK n \in 0..MaxCalls : Say("assistant", (calls + 1)..(calls + n), 0, 4)
    BY <1>5 DEF Assistant
  <2>2. (calls + 1)..(calls + n) \in SUBSET Nat
    BY <1>1, <2>1
  <2>. QED
    BY <1>2, <2>1, <2>2
<1>6. CASE Tool
  <2>1. PICK c \in pending, bytes \in Sizes : Say("tool", {}, c, bytes)
    BY <1>6 DEF Tool
  <2>2. c \in Nat /\ bytes \in Nat
    BY <1>1, <2>1, BoundsAssumption
  <2>. QED
    BY <1>2, <2>1, <2>2
<1>. QED
  BY <1>3, <1>4, <1>5, <1>6 DEF Next

(* transform.go:1403-1481: the longer a history is, the further back it is   *)
(* cut, whatever its messages measure: what has been dropped from one        *)
(* request is in none that follows.                                          *)
THEOREM DroppedAreGone == Spec => DroppedStaysDropped
<1>1. Inv /\ [Next]_vars
      => [DOMAIN messages \ Sent(messages) \subseteq DOMAIN messages' \ Sent(messages')]_vars
  BY NextExtends, DroppedStay
<1>. QED
  BY <1>1, Invariant, PTL DEF Spec, DroppedStaysDropped

=============================================================================
