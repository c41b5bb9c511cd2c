-------------------------- MODULE HistoryTruncation --------------------------
(***************************************************************************)
(* Trimming of the conversation before it is sent upstream (transform.go,  *)
(* truncateMessages and its caller).                                       *)
(*                                                                         *)
(* The client owns the history and only appends to it; every request       *)
(* carries all of it, and what the proxy sends is a function of it.  A     *)
(* message is its role, the tool calls it makes, the call it answers and   *)
(* its size in bytes.                                                      *)
(***************************************************************************)
EXTENDS Integers, Sequences, FiniteSetsExt

CONSTANTS
  MaxMessages,      \* effectiveMaxMessages; zero or less is no limit
  MaxPromptTokens,  \* max_prompt_tokens; zero or less is no limit
  Thinking,         \* thinkingEnabled
  Strategy,         \* missing_reasoning_strategy: "recover" or "reject"
  Sizes,            \* sizes of tool results
  MaxCalls,         \* bound: tool calls of one assistant message
  MaxLength         \* bound: messages of a conversation

ASSUME LimitsAssumption ==
  /\ MaxMessages \in Int /\ MaxPromptTokens \in Int
  /\ Thinking \in BOOLEAN /\ Strategy \in {"recover", "reject"}
ASSUME BoundsAssumption ==
  MaxCalls \in Nat /\ MaxLength \in Nat /\ Sizes \subseteq Nat

VARIABLES
  messages,  \* the history
  pending,   \* calls of the last assistant message without a result yet
  calls      \* number of calls made so far; they are numbered

vars == <<messages, pending, calls>>

Message == [role : {"system", "user", "assistant", "tool"},
            calls : SUBSET Nat, answers : Nat, bytes : Nat]

-----------------------------------------------------------------------------
(* truncateMessages *)

IsRole(ms, i, role) == ms[i].role = role

(* Index of the first message behind the leading system messages. *)
FirstOf(ms) ==
  CHOOSE n \in 1..(Len(ms) + 1) :
    /\ \A i \in 1..(n - 1) : IsRole(ms, i, "system")
    /\ n <= Len(ms) => ~IsRole(ms, n, "system")

(* Mutant of RoundStarts: every message may be the first one kept. *)
AnyStart(ms) == FirstOf(ms)..(Len(ms) + 1)

(* The rounds: the first starts at once, any other at a user message. *)
RoundStarts(ms) ==
  {FirstOf(ms)} \cup {i \in FirstOf(ms)..Len(ms) : IsRole(ms, i, "user")}

(* estimateMessageTokens *)
Tokens(ms, indices) == MapThenSumSet(LAMBDA i : ms[i].bytes \div 4 + 1, indices)

Kept(ms, cut) == 1..(FirstOf(ms) - 1) \cup cut..Len(ms)

(* withinLimits *)
Fits(max, ms, cut) ==
  /\ max > 0 => FirstOf(ms) - 1 + Len(ms) - cut + 1 <= max
  /\ MaxPromptTokens > 0 => Tokens(ms, Kept(ms, cut)) <= MaxPromptTokens

Least(S)    == CHOOSE x \in S : \A y \in S : x <= y
Greatest(S) == CHOOSE x \in S : \A y \in S : x >= y

Fitting(max, ms) == {c \in RoundStarts(ms) : Fits(max, ms, c)}

(* Mutants of TruncateAt: the newest cut that fits instead of the oldest;    *)
(* nothing is cut when no cut fits; everything is.                           *)
CutNewest(max, ms) ==
  IF Fitting(max, ms) # {} THEN Greatest(Fitting(max, ms)) ELSE Greatest(RoundStarts(ms))
CutOrAll(max, ms) ==
  IF Fitting(max, ms) # {} THEN Least(Fitting(max, ms)) ELSE FirstOf(ms)
CutOrNothing(max, ms) ==
  IF Fitting(max, ms) # {} THEN Least(Fitting(max, ms)) ELSE Len(ms) + 1

(* The oldest round start whose tail fits, else the last round. *)
TruncateAt(max, ms) ==
  IF Fitting(max, ms) # {} THEN Least(Fitting(max, ms)) ELSE Greatest(RoundStarts(ms))

(* The indices sent: all of them while the thinking loop is active. *)
Sending(max, thinking, ms) ==
  IF thinking /\ Strategy = "recover" THEN DOMAIN ms ELSE Kept(ms, TruncateAt(max, ms))

(* What a client sends that asks for MaxMessages and Thinking every time. *)
WithinLimits(ms, cut) == Fits(MaxMessages, ms, cut)
Cut(ms)  == TruncateAt(MaxMessages, ms)
Sent(ms) == Sending(MaxMessages, Thinking, ms)

-----------------------------------------------------------------------------
(* The client's history *)

Init == messages = <<>> /\ pending = {} /\ calls = 0

Say(role, made, answered, bytes) ==
  messages' = Append(messages, [role |-> role, calls |-> made,
                                answers |-> answered, bytes |-> bytes])

CanSay == Len(messages) < MaxLength

System ==
  /\ CanSay /\ pending = {}
  /\ Say("system", {}, 0, 8)
  /\ UNCHANGED <<pending, calls>>

User ==
  /\ CanSay /\ pending = {}
  /\ Say("user", {}, 0, 4)
  /\ UNCHANGED <<pending, calls>>

(* An assistant turn, as an earlier response returned it. *)
Assistant ==
  /\ CanSay /\ pending = {} /\ messages # <<>>
  /\ \E n \in 0..MaxCalls :
       LET made == (calls + 1)..(calls + n) IN
       /\ Say("assistant", made, 0, 4)
       /\ calls' = calls + n
       /\ pending' = made

Tool ==
  /\ CanSay
  /\ \E c \in pending, bytes \in Sizes :
       /\ Say("tool", {}, c, bytes)
       /\ pending' = pending \ {c}
  /\ UNCHANGED calls

Next == System \/ User \/ Assistant \/ Tool

Spec == Init /\ [][Next]_vars

-----------------------------------------------------------------------------
(* Properties *)

TypeOK ==
  /\ messages \in Seq(Message)
  /\ calls \in Nat
  /\ pending \subseteq 1..calls

(* A tool result is among S exactly when the message that made the call is.  *)
Paired(S) ==
  \A i, j \in DOMAIN messages :
    /\ messages[j].role = "tool" /\ messages[j].answers \in messages[i].calls
    => (i \in S <=> j \in S)

(* A tool result is sent exactly when the assistant message that made the    *)
(* call is: the upstream rejects one without the other.                      *)
NoOrphans == Paired(Sent(messages))

(* The latest user turn, and all that answers it, is always sent.            *)
LastTurnSent ==
  \A i \in DOMAIN messages :
    (\A j \in (i + 1)..Len(messages) : ~IsRole(messages, j, "user"))
    => i \in Sent(messages)

(* Where the history is cut at all, it is cut no further than the limits     *)
(* need: one round more would break them.                                    *)
CutsNoMoreThanNeeded ==
  \A c \in RoundStarts(messages) :
    WithinLimits(messages, c) => c..Len(messages) \subseteq Sent(messages)

(* As the conversation grows a message that has been dropped stays dropped,  *)
(* so the upstream never sees history come back.                             *)
DroppedStaysDropped ==
  [][DOMAIN messages \ Sent(messages) \subseteq DOMAIN messages' \ Sent(messages')]_vars

(* S is within both limits, or holds nothing older than the last round       *)
(* behind the leading system messages.                                       *)
KeepsTo(max, S) ==
  LET behind == S \ 1..(FirstOf(messages) - 1) IN
  \/ Fits(max, messages, Least({Len(messages) + 1} \cup behind))
  \/ \A c \in RoundStarts(messages) : \A i \in behind : c <= i

(* README.md:150, 152 and 178: what is sent is within both limits, unless the  *)
(* last round alone is not; then nothing older than it is sent.              *)
LimitHonoured == KeepsTo(MaxMessages, Sent(messages))

=============================================================================
