------------------------------- MODULE GdbCalls -------------------------------
(***************************************************************************)
(* What a caller of GdbSession may rely on, without tokens, pipes or       *)
(* lines: calls are made one at a time; GDB executes what was sent in the  *)
(* order it was sent, once each; and a call ends either with GDB's answer  *)
(* to that call, with a stop of the program, or with a timeout, after      *)
(* which GDB may still execute the command.                                *)
(***************************************************************************)
EXTENDS Integers

CONSTANT Class   \* the answers GDB gives

VARIABLES
    sent,      \* how many commands have been sent
    executed,  \* how many of them GDB has executed
    answers,   \* <<n, c>>: the n-th command was answered with class c
    current,   \* the command the caller waits for; 0 when it waits for none
    outcome    \* how the latest call ended

vars == <<sent, executed, answers, current, outcome>>

Outcome == [call : Nat, how : {"none", "answer", "stop", "timeout"}, class : Class \cup {""}]

Init ==
    /\ sent = 0 /\ executed = 0 /\ answers = {}
    /\ current = 0
    /\ outcome = [call |-> 0, how |-> "none", class |-> ""]

\* A call sends one command and waits.
Call ==
    /\ current = 0
    /\ sent' = sent + 1
    /\ current' = sent + 1
    /\ UNCHANGED <<executed, answers, outcome>>

\* While it waits for a program to stop, a call may send an interrupt.
Interrupt ==
    /\ current # 0
    /\ sent' = sent + 1
    /\ UNCHANGED <<executed, answers, current, outcome>>

\* GDB executes the oldest command it has not executed, if it still lives.
Execute(c) ==
    /\ executed < sent
    /\ executed' = executed + 1
    /\ answers' = answers \cup {<<executed + 1, c>>}
    /\ UNCHANGED <<sent, current, outcome>>

Return(how, c) ==
    /\ current # 0
    /\ how = "answer" => <<current, c>> \in answers
    /\ how # "answer" => c = ""
    /\ outcome' = [call |-> current, how |-> how, class |-> c]
    /\ current' = 0
    /\ UNCHANGED <<sent, executed, answers>>

\* The program, or the caller's part of it, ends with the call outstanding or
\* with none.
Stop ==
    /\ current' = 0
    /\ sent' \in {sent, sent + 1}
    /\ UNCHANGED <<executed, answers, outcome>>

Next ==
    \/ Call \/ Interrupt \/ Stop
    \/ \E c \in Class : Execute(c)
    \/ \E how \in {"answer", "stop", "timeout"}, c \in Class \cup {""} : Return(how, c)

Spec == Init /\ [][Next]_vars

===============================================================================
