------------------------- MODULE MCRequestPreparation -------------------------
(* Instances of RequestPreparation for TLC. *)
EXTENDS RequestPreparation

(* A tool result that fits the prompt and one that alone nearly fills it. *)
SmallAndBig == {4, 40}

LowerCase(token) == CASE token = "LOW" -> "low" [] token = "NoThink" -> "nothink" [] OTHER -> token
Trimmed(token) == CASE token = "nothink " -> "nothink" [] token = " max" -> "max" [] OTHER -> token
Lowered(token) == Trimmed(LowerCase(token))
SomeCaps == [mm0 |-> 0, mm2 |-> 2, mm5 |-> 5]

DeepSeeks == {"deepseek-flash", "deepseek-v4-pro", "deepseek-chat"}
V4s == {"deepseek-v4-pro"}
Flash == Named("deepseek-flash", <<>>)

(* Names that are announced, and names a user may type instead. *)
SomeNames ==
  Announced({"deepseek-flash"}, {"low", "max"}, {"mm2"})
  \cup Announced({"deepseek-v4-pro"}, {}, {"mm2"})
  \cup {Named("deepseek-flash", s) :
          s \in {<<"mm2", "nothink", "low">>, <<"nothink", "max">>, <<"LOW">>, <<"mm0", "nothink">>,
                 <<"NoThink">>, <<"nothink ">>, <<" max">>,
                 <<"low", "max">>, <<"mm2", "nothink", "mm5">>, <<"nothink", "120">>, <<"nothink", "mm5">>}}
  \cup {Named("gpt-5", <<"nothink">>), Named("deepseek-chat", <<"max">>)}

Read == ToolDef("function", "read")
Untyped == ToolDef(Absent, "grep")
Patch == ToolDef("custom", "patch")
Nameless == ToolDef("function", "")

Plain == [model |-> Absent, tools |-> Absent, functions |-> Absent, tool_choice |-> Absent,
          function_call |-> Absent, reasoning_effort |-> Absent]

SomeChoices ==
  {Choice("auto", ""), Choice("none", ""), Choice("required", ""), Choice("word", ""),
   Choice("function", "read"), Choice("function", "patch"), Choice("function", ""),
   Choice("other", "patch")}

Modes == {Flash, Named("deepseek-flash", <<"low", "nothink">>)}

SomeRequests ==
  {Plain} \cup {[Plain EXCEPT !.model = name] : name \in SomeNames}
  \cup {[Plain EXCEPT !.model = name, !.reasoning_effort = "max"] : name \in Modes}
  \cup {[Plain EXCEPT !.model = name, !.tools = tools, !.tool_choice = choice] :
          name \in Modes, tools \in {{}, {Patch, Nameless}, {Read, Patch}, {Read, Untyped}},
          choice \in SomeChoices \cup {Absent}}
  \cup {[Plain EXCEPT !.model = name, !.functions = {"read", ""}, !.function_call = call] :
          name \in Modes, call \in SomeChoices}

=============================================================================
