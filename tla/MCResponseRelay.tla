--------------------------- MODULE MCResponseRelay ---------------------------
(* Instances of ResponseRelay for TLC. *)
EXTENDS ResponseRelay

CONSTANTS x1, x2

OneContext == {x1}
TwoContexts == {x1, x2}
OneChoice == {0}
TwoChoices == {0, 1}

Nothing == [reasoning |-> "none", content |-> <<>>, call |-> 0, id |-> FALSE, finish |-> FALSE]
Thought == [Nothing EXCEPT !.reasoning = "piece"]
Text    == [Nothing EXCEPT !.content = <<"text">>]

(* Deltas as DeepSeek sends them, and the mixed ones and the texts with      *)
(* white space and markers that the code allows for.                         *)
SomeDeltas ==
  {Thought, Text,
   [Thought EXCEPT !.reasoning = "breach"],
   [Nothing EXCEPT !.content = <<"break", "text">>],
   [Nothing EXCEPT !.content = <<"blank">>],
   [Nothing EXCEPT !.content = <<"opening", "text">>],
   [Nothing EXCEPT !.content = <<"closing">>],
   [Thought EXCEPT !.content = <<"text">>],
   [Nothing EXCEPT !.call = 1, !.id = TRUE],
   [Nothing EXCEPT !.call = 2, !.id = TRUE],
   [Nothing EXCEPT !.call = 1],
   [Thought EXCEPT !.call = 1, !.id = TRUE],
   [Nothing EXCEPT !.reasoning = "empty", !.content = <<"text">>],
   [Nothing EXCEPT !.finish = TRUE],
   [Text EXCEPT !.finish = TRUE]}

Answered == [NewChoice EXCEPT !.has = TRUE, !.finished = TRUE]

SomeMessages ==
  {[Answered EXCEPT !.reasoning = 1, !.content = <<"text">>],
   [Answered EXCEPT !.reasoning = 2, !.content = <<"text">>],
   [Answered EXCEPT !.reasoning = 1, !.calls = <<TRUE>>],
   [Answered EXCEPT !.reasoning = 1, !.breached = TRUE, !.content = <<"blank", "text">>],
   [Answered EXCEPT !.content = <<"break", "text">>]}

=============================================================================
