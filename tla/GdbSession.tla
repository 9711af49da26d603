------------------------------ MODULE GdbSession ------------------------------
(***************************************************************************)
(* One GDB child process driven over its MI pipes: GdbSession              *)
(* (src/src/gdb/gdb_session.cpp) on top of GdbProcess                      *)
(* (src/src/gdb/gdb_process.cpp).                                          *)
(*                                                                         *)
(* The session numbers every command, writes it to GDB's standard input    *)
(* and reads GDB's output line by line until the answer of that command,   *)
(* a stop of the inferior, or a deadline.  A deadline abandons the call    *)
(* and not the command: the answer is still in the pipe, or still to come, *)
(* when the next call starts reading.                                      *)
(*                                                                         *)
(* GDB and the inferior are not part of the repository.  The actions whose *)
(* names start with Gdb or Inferior model them from what the session       *)
(* relies on: commands are answered in order, exactly once, and an         *)
(* asynchronous record does not carry the token of a command.              *)
(***************************************************************************)
EXTENDS Integers, Sequences

CONSTANT MaxToken   \* bound: no new call starts once this many tokens are used

ASSUME MaxTokenAssumption == MaxToken \in Nat

VARIABLES
    \* the session
    pc,        \* where the one thread of the session is
    pid,       \* process_.pid > 0
    token,     \* token_
    call,      \* the CommandResult under construction
    last,      \* the CommandResult the latest call returned
    log,       \* session.mi.raw.log; its length is record_sequence_
    \* GDB and the inferior
    gdb,       \* "none", "booting", "up" or "dead"
    toGdb,     \* GDB's standard input: commands written and not yet read
    fromGdb,   \* the output pipe and the read buffer: records not yet read
    inferior,  \* the debugged program
    runToken,  \* the token of the command that last resumed it
    \* history
    answered,  \* <<token, result class>> of every command GDB has executed
    abandoned  \* some call for a run has returned without seeing it stop

sessionVars == <<pc, pid, token, call, last, log, abandoned>>
gdbVars     == <<gdb, toGdb, fromGdb, inferior, runToken, answered>>
vars        == <<pc, pid, token, call, last, log, gdb, toGdb, fromGdb,
                 inferior, runToken, answered, abandoned>>

-------------------------------------------------------------------------------
(* Records and results *)

ExecCommands == {"run", "continue"}
Commands     == {"command", "interrupt", "exit"} \cup ExecCommands
Classes      == {"done", "error", "running", "exit"}
StopReasons  == {"breakpoint-hit", "signal-received", "exited"}

\* A numbered command.
Message == [tok : Nat, cmd : Commands]

\* A line of MI output.  The token of a "result" is the number GDB echoes; a
\* "stopped" and a "gone" record have the run they are about in its place, which
\* GDB does not print and the session never looks at.
Record == [kind : {"result"},                   tok : Nat, val : Classes]
          \cup [kind : {"stopped"},            tok : Nat, val : StopReasons]
          \cup [kind : {"prompt", "stream", "gone"}, tok : Nat, val : {""}]

Rec(k, t, v) == [kind |-> k, tok |-> t, val |-> v]
Prompt       == Rec("prompt", 0, "")
Banner       == Rec("stream", 0, "")

CommandResult == [tok : Nat, cmd : Commands \cup {"none"},
                  lines : Seq(Record), seqs : Seq(Nat),
                  cls : Classes \cup {""},
                  reason : StopReasons \cup {"", "run_deadline_reached",
                                             "interrupted_by_tool_deadline"},
                  sawRunning : BOOLEAN, exited : BOOLEAN, timedOut : BOOLEAN]

NewResult(t, c) == [tok |-> t, cmd |-> c, lines |-> <<>>, seqs |-> <<>>,
                    cls |-> "", reason |-> "",
                    sawRunning |-> FALSE, exited |-> FALSE, timedOut |-> FALSE]

NoResult == NewResult(0, "none")

Reading == {"result", "stop", "interrupt"}
PcValues == {"unstarted", "drain", "idle", "terminate", "closed", "killed"}
            \cup Reading

TypeOK ==
    /\ pc \in PcValues
    /\ pid \in BOOLEAN
    /\ token \in Nat
    /\ call \in CommandResult
    /\ last \in CommandResult
    /\ log \in Seq(Record)
    /\ gdb \in {"none", "booting", "up", "dead"}
    /\ toGdb \in Seq(Message)
    /\ fromGdb \in Seq(Record)
    /\ inferior \in {"none", "running", "stopped"}
    /\ runToken \in Nat
    /\ answered \in SUBSET (Nat \X Classes)
    /\ abandoned \in BOOLEAN

Init ==
    /\ pc = "unstarted" /\ pid = FALSE /\ token = 0
    /\ call = NoResult /\ last = NoResult /\ log = <<>>
    /\ gdb = "none" /\ toGdb = <<>> /\ fromGdb = <<>>
    /\ inferior = "none" /\ runToken = 0 /\ answered = {}
    /\ abandoned = FALSE

-------------------------------------------------------------------------------
(* The session: starting *)

\* start(): fork and exec GDB, then read the banner.
Start ==
    /\ pc = "unstarted"
    /\ pc' = "drain" /\ pid' = TRUE /\ gdb' = "booting"
    /\ UNCHANGED <<token, call, last, log, toGdb, fromGdb,
                   inferior, runToken, answered, abandoned>>

\* Mutant: the newline is searched from the end of the read buffer.
ReadLastLine ==
    /\ fromGdb # <<>>
    /\ fromGdb' = SubSeq(fromGdb, 1, Len(fromGdb) - 1)
    /\ log' = Append(log, fromGdb[Len(fromGdb)])

\* The next line is taken out of the pipe and written to the session log.
ReadLine ==
    /\ fromGdb # <<>>
    /\ fromGdb' = Tail(fromGdb)
    /\ log' = Append(log, Head(fromGdb))

\* drain_startup() reads up to and including the first prompt.
DrainLine ==
    /\ pc = "drain"
    /\ ReadLine
    /\ pc' = IF Head(fromGdb) = Prompt THEN "idle" ELSE "drain"
    /\ UNCHANGED <<pid, token, call, last, gdb, toGdb, inferior, runToken, answered,
                   abandoned>>

\* ... or gives up after 1.5 s, and leaves the rest to the first command.
DrainDeadline ==
    /\ pc = "drain"
    /\ pc' = "idle"
    /\ UNCHANGED <<pid, token, call, last, log, abandoned>>
    /\ UNCHANGED gdbVars

-------------------------------------------------------------------------------
(* The session: calls *)

\* write_all() of a numbered command.  Nothing in the program handles SIGPIPE,
\* so a write to a GDB that is gone ends the whole program.
Write(cmd, next) ==
    /\ token' = token + 1
    /\ IF gdb = "dead"
         THEN /\ pc' = "killed"
              /\ UNCHANGED toGdb
         ELSE /\ pc' = next
              /\ toGdb' = Append(toGdb, [tok |-> token + 1, cmd |-> cmd])

Command ==
    /\ pc = "idle" /\ pid /\ token < MaxToken
    /\ Write("command", "result")
    /\ call' = NewResult(token + 1, "command")
    /\ UNCHANGED <<pid, last, log, gdb, fromGdb, inferior, runToken, answered,
                   abandoned>>

\* Mutant: a run sent like any other command returns with ^running.
RunAsCommand(cmd) ==
    /\ pc = "idle" /\ pid /\ token < MaxToken
    /\ Write(cmd, "result")
    /\ call' = NewResult(token + 1, cmd)
    /\ UNCHANGED <<pid, last, log, gdb, fromGdb, inferior, runToken, answered,
                   abandoned>>

ExecControl(cmd) ==
    /\ pc = "idle" /\ pid /\ token < MaxToken
    /\ Write(cmd, "stop")
    /\ call' = NewResult(token + 1, cmd)
    /\ UNCHANGED <<pid, last, log, gdb, fromGdb, inferior, runToken, answered,
                   abandoned>>

\* The caller gets r: shutdown() goes on to terminate GDB, every other caller
\* is free to make the next call.
Return(r) ==
    /\ last' = r
    /\ call' = NoResult
    /\ pc' = IF r.cmd = "exit" THEN "terminate" ELSE "idle"

\* Mutant: only lines that are not prompts are numbered.
KeepNumberingRecords(r, line) ==
    [r EXCEPT !.lines = Append(@, line),
              !.seqs  = Append(@, Len(SelectSeq(log, LAMBDA x : x # Prompt)) + 1)]

\* The line just logged becomes part of the result: raw_lines and
\* record_sequences grow together.
Keep(r, line) == [r EXCEPT !.lines = Append(@, line),
                           !.seqs  = Append(@, Len(log) + 1)]

\* Mutant: the token of a result record is not compared.
IsAnyAnswer(r, line) == line.kind = "result"

IsAnswer(r, line) == line.kind = "result" /\ line.tok = r.tok

\* The loop of command_blocking(): lines of any kind are collected until the
\* result record with the token of this command.
CommandLine ==
    /\ pc = "result"
    /\ ReadLine
    /\ LET line == Head(fromGdb)
       IN \/ /\ line.kind = "prompt"
             /\ UNCHANGED <<pc, call, last>>
          \/ /\ line.kind # "prompt"
             /\ ~IsAnswer(call, line)
             /\ call' = Keep(call, line)
             /\ UNCHANGED <<pc, last>>
          \/ /\ IsAnswer(call, line)
             /\ Return([Keep(call, line) EXCEPT !.cls = line.val])
    /\ UNCHANGED <<pid, token, gdb, toGdb, inferior, runToken, answered, abandoned>>

\* Mutant: a timeout is reported as a result class GDB does not have.
DeadlineAsClass ==
    /\ pc = "result"
    /\ Return([call EXCEPT !.cls = "timeout"])
    /\ UNCHANGED <<pid, token, log, abandoned>>
    /\ UNCHANGED gdbVars

\* The deadline passes, or read_line() returns nothing.
CommandDeadline ==
    /\ pc = "result"
    /\ Return([call EXCEPT !.timedOut = TRUE])
    /\ UNCHANGED <<pid, token, log, abandoned>>
    /\ UNCHANGED gdbVars

\* The loop of exec_control_blocking().  Any stop record ends it, whichever run
\* it is about; an error ends it only before GDB reported the inferior running.
ExecLine ==
    /\ pc = "stop"
    /\ ReadLine
    /\ LET line     == Head(fromGdb)
           accepted == IsAnswer(call, line) /\ line.val = "running"
           rejected == IsAnswer(call, line) /\ line.val = "error" /\ ~call.sawRunning
       IN \/ /\ line.kind = "prompt"
             /\ UNCHANGED <<pc, call, last>>
          \/ /\ line.kind = "stopped"
             /\ Return([Keep(call, line) EXCEPT
                            !.reason = line.val,
                            !.exited = @ \/ line.val = "exited"])
          \/ /\ line.kind = "gone"
             /\ call' = [Keep(call, line) EXCEPT !.reason = "exited", !.exited = TRUE]
             /\ UNCHANGED <<pc, last>>
          \/ /\ rejected
             /\ Return([Keep(call, line) EXCEPT !.cls = "error"])
          \/ /\ line.kind \in {"stream", "result"} /\ ~rejected
             /\ call' = [Keep(call, line) EXCEPT !.sawRunning = @ \/ accepted]
             /\ UNCHANGED <<pc, last>>
    /\ UNCHANGED <<pid, token, gdb, toGdb, inferior, runToken, answered, abandoned>>

\* The run deadline passes: interrupt_after_deadline() writes a command of its
\* own and waits for a stop.
ExecDeadline ==
    /\ pc = "stop"
    /\ Write("interrupt", "interrupt")
    /\ call' = [call EXCEPT !.timedOut = TRUE, !.reason = "run_deadline_reached"]
    /\ UNCHANGED <<pid, last, log, gdb, fromGdb, inferior, runToken, answered,
                   abandoned>>

InterruptLine ==
    /\ pc = "interrupt"
    /\ ReadLine
    /\ LET line == Head(fromGdb)
       IN \/ /\ line.kind = "prompt"
             /\ UNCHANGED <<pc, call, last>>
          \/ /\ line.kind = "stopped"
             /\ Return([Keep(call, line) EXCEPT !.reason = "interrupted_by_tool_deadline"])
          \/ /\ line.kind \notin {"prompt", "stopped"}
             /\ call' = Keep(call, line)
             /\ UNCHANGED <<pc, last>>
    /\ UNCHANGED <<pid, token, gdb, toGdb, inferior, runToken, answered, abandoned>>

\* Mutant: the wait for the interrupted program has no deadline of its own.
InterruptUntilStopped ==
    /\ pc = "interrupt" /\ inferior # "running"
    /\ Return(call)
    /\ abandoned' = TRUE
    /\ UNCHANGED <<pid, token, log>>
    /\ UNCHANGED gdbVars

\* No stop within 5 s: the call returns with the inferior as it is.
InterruptDeadline ==
    /\ pc = "interrupt"
    /\ Return(call)
    /\ abandoned' = TRUE
    /\ UNCHANGED <<pid, token, log>>
    /\ UNCHANGED gdbVars

-------------------------------------------------------------------------------
(* The session: ending *)

\* shutdown() asks GDB to exit with a command of its own ...
Shutdown ==
    /\ pc = "idle" /\ pid
    /\ Write("exit", "result")
    /\ call' = NewResult(token + 1, "exit")
    /\ UNCHANGED <<pid, last, log, gdb, fromGdb, inferior, runToken, answered,
                   abandoned>>

\* ... and terminate() sends SIGTERM and waits until the child is gone.
Terminated ==
    /\ pc = "terminate"
    /\ gdb = "dead"
    /\ pc' = "closed" /\ pid' = FALSE
    /\ UNCHANGED <<token, call, last, log, abandoned>>
    /\ UNCHANGED gdbVars

-------------------------------------------------------------------------------
(* GDB and the inferior *)

GdbBoot ==
    /\ gdb = "booting"
    /\ gdb' = "up"
    /\ fromGdb' = fromGdb \o <<Banner, Prompt>>
    /\ UNCHANGED <<toGdb, inferior, runToken, answered>>
    /\ UNCHANGED sessionVars

\* GDB reads the next command and answers it with class c, after the records in
\* `before`.
Answer(c, before) ==
    /\ fromGdb' = (fromGdb \o before) \o <<Rec("result", Head(toGdb).tok, c), Prompt>>
    /\ answered' = answered \cup {<<Head(toGdb).tok, c>>}
    /\ toGdb' = Tail(toGdb)
    /\ UNCHANGED sessionVars

GdbReads(cmds) == gdb = "up" /\ toGdb # <<>> /\ Head(toGdb).cmd \in cmds

GdbCommand ==
    /\ GdbReads({"command"})
    /\ \E c \in {"done", "error"} : Answer(c, <<>>)
    /\ UNCHANGED <<gdb, inferior, runToken>>

\* A run of a program that is stopped kills it first; GDB reports the old
\* process gone before it answers.
GdbRun ==
    /\ GdbReads({"run"})
    /\ inferior # "running"
    /\ Answer("running", IF inferior = "stopped"
                           THEN <<Rec("gone", runToken, "")>> ELSE <<>>)
    /\ inferior' = "running" /\ runToken' = Head(toGdb).tok
    /\ UNCHANGED gdb

GdbContinue ==
    /\ GdbReads({"continue"})
    /\ inferior = "stopped"
    /\ Answer("running", <<>>)
    /\ inferior' = "running" /\ runToken' = Head(toGdb).tok
    /\ UNCHANGED gdb

\* A program that cannot be started, resumed or is running already.
GdbRefuse ==
    /\ GdbReads(ExecCommands)
    /\ Answer("error", <<>>)
    /\ UNCHANGED <<gdb, inferior, runToken>>

\* The stop that answers an interrupt is the next InferiorStop.
GdbInterrupt ==
    /\ GdbReads({"interrupt"})
    /\ Answer(IF inferior = "running" THEN "done" ELSE "error", <<>>)
    /\ UNCHANGED <<gdb, inferior, runToken>>

GdbExit ==
    /\ GdbReads({"exit"})
    /\ Answer("exit", <<>>)
    /\ gdb' = "dead" /\ inferior' = "none"
    /\ UNCHANGED runToken

\* GDB crashes, fails to start, or dies of the signal terminate() sends.
GdbDie ==
    /\ gdb \in {"booting", "up"}
    /\ gdb' = "dead"
    /\ inferior' = "none"
    /\ UNCHANGED <<toGdb, fromGdb, runToken, answered>>
    /\ UNCHANGED sessionVars

InferiorStop(reason) ==
    /\ gdb = "up" /\ inferior = "running"
    /\ fromGdb' = fromGdb \o <<Rec("stopped", runToken, reason), Prompt>>
    /\ inferior' = "stopped"
    /\ UNCHANGED <<gdb, toGdb, runToken, answered>>
    /\ UNCHANGED sessionVars

InferiorExit ==
    /\ gdb = "up" /\ inferior = "running"
    /\ fromGdb' = fromGdb \o <<Rec("gone", runToken, ""),
                               Rec("stopped", runToken, "exited"), Prompt>>
    /\ inferior' = "none"
    /\ UNCHANGED <<gdb, toGdb, runToken, answered>>
    /\ UNCHANGED sessionVars

-------------------------------------------------------------------------------

\* The program has ended, or its session has.
Ended == pc \in {"closed", "killed"} /\ UNCHANGED vars

SessionStep ==
    \/ Start \/ DrainLine \/ DrainDeadline
    \/ Command \/ CommandLine \/ CommandDeadline
    \/ \E cmd \in ExecCommands : ExecControl(cmd)
    \/ ExecLine \/ ExecDeadline \/ InterruptLine \/ InterruptDeadline
    \/ Shutdown \/ Terminated

GdbStep ==
    \/ GdbBoot \/ GdbCommand \/ GdbRun \/ GdbContinue \/ GdbRefuse
    \/ GdbInterrupt \/ GdbExit \/ GdbDie
    \/ \E reason \in {"breakpoint-hit", "signal-received"} : InferiorStop(reason)
    \/ InferiorExit

Next == SessionStep \/ GdbStep \/ Ended

Spec == Init /\ [][Next]_vars

\* Every wait of the session is bounded by a deadline on the steady clock.  The
\* one exception is the waitpid() of terminate(): it returns because a GDB that
\* was sent SIGTERM dies.
Fairness ==
    /\ WF_vars(DrainDeadline)
    /\ WF_vars(CommandDeadline)
    /\ WF_vars(ExecDeadline)
    /\ WF_vars(InterruptDeadline)
    /\ WF_vars(Terminated)
    /\ WF_vars(pc = "terminate" /\ GdbDie)

FairSpec == Spec /\ Fairness

-------------------------------------------------------------------------------
(* Properties *)

\* A call that is not reported as timed out carries what GDB answered to that
\* very command, however many answers of abandoned commands came first.
AnsweredByOwnReply ==
    last.cmd \in {"command", "exit"} /\ ~last.timedOut
        => <<last.tok, last.cls>> \in answered

\* One answered call ends the effect of every timeout before it: no command is
\* left for GDB to execute and no answer is left to arrive late.
Resynchronised ==
    pc = "idle" /\ last.cmd = "command" /\ ~last.timedOut
        => /\ toGdb = <<>>
           /\ \A i \in DOMAIN fromGdb : fromGdb[i].kind # "result"

\* The record sequence numbers of a result are the positions of its lines in the
\* raw session log, in the order they were read: evidence built from a result
\* can be traced back to the log.
TracedToLog ==
    \A r \in {call, last} :
        /\ Len(r.seqs) = Len(r.lines)
        /\ \A i \in DOMAIN r.seqs : /\ r.seqs[i] \in DOMAIN log
                                   /\ log[r.seqs[i]] = r.lines[i]
        /\ \A i, j \in DOMAIN r.seqs : i < j => r.seqs[i] < r.seqs[j]

\* As long as every run so far was seen to stop, the stop a run or continue
\* returns is the stop of the run it started, and it leaves the inferior still:
\* a caller that examines the program next examines the program it ran.
StopIsOwn ==
    ~abandoned =>
        /\ pc \in {"idle", "result"} => inferior # "running"
        /\ last.cmd \in ExecCommands =>
               \A i \in DOMAIN last.lines :
                   last.lines[i].kind = "stopped" => last.lines[i].tok = last.tok

\* Lines reach the callers in the order GDB executed the commands: an answer
\* that arrives late is never read after the answer of a later command.
AnswersInOrder ==
    \A i, j \in DOMAIN log :
        i < j /\ log[i].kind = "result" /\ log[j].kind = "result"
            => log[i].tok < log[j].tok

\* No call blocks for ever, and neither does shutdown().
CallsReturn ==
    pc \in Reading \cup {"drain", "terminate"} ~> pc \in {"idle", "closed", "killed"}

-------------------------------------------------------------------------------
(* The session implements the abstract calls of GdbCalls.  Commands are the
   numbers the session gave them. *)

\* GDB has executed every command that is neither in its standard input nor the
\* one whose write ended the program.
Executed == token - Len(toGdb) - (IF pc = "killed" THEN 1 ELSE 0)

HowEnded(r) == IF r.cmd = "none" THEN "none"
               ELSE IF r.timedOut THEN "timeout"
               ELSE IF r.cls # "" THEN "answer"
               ELSE "stop"

Calls == INSTANCE GdbCalls WITH
            Class    <- Classes,
            sent     <- token,
            executed <- Executed,
            answers  <- answered,
            current  <- IF pc \in Reading THEN call.tok ELSE 0,
            outcome  <- [call |-> last.tok, how |-> HowEnded(last), class |-> last.cls]

\* Every step of the session and of GDB is a step of the abstract calls.
ImplementsCalls == Calls!Spec

===============================================================================
