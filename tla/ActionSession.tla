----------------------------- MODULE ActionSession -----------------------------
(***************************************************************************)
(* What one debugging session does with the actions it is sent: the state  *)
(* guard and dispatch_action() (src/src/cli/action_dispatch.cpp), the      *)
(* probes and their on-hit policies (src/src/workflow/probe_runtime.cpp),  *)
(* replays (src/src/replay/replay_runtime.cpp), the recording of actions   *)
(* (src/src/cli/session_executor.cpp) and the start of a session           *)
(* (src/src/cli.cpp).                                                      *)
(*                                                                         *)
(* Everything runs in one thread, and yet actions interrupt each other: a  *)
(* run or continue that stops at a probe performs the probe's actions      *)
(* before it returns, a replay performs the actions of its plan, and any   *)
(* of those may run, continue or replay again.  The nested calls are the   *)
(* frames of `stack`.                                                      *)
(*                                                                         *)
(* GdbSession models how one call reaches GDB; here a call is one step     *)
(* with one of the outcomes GdbSession shows a call to have: an answer, a  *)
(* refusal, a stop, a deadline.                                            *)
(***************************************************************************)
EXTENDS Integers, Sequences, FiniteSets

CONSTANTS
    CoreTasks,    \* whether the task names a core dump: the cases considered
    Policy,       \* on-hit policies by name: [steps, stop, onward]
    Plan,         \* replay plans by name: sequences of [req, stop]
    Prelude,      \* the plan of --replay-before-run; "none" for none
    Requests,     \* the actions the caller may send, without and with core mode
    MaxProbes,    \* bound: breakpoints GDB sets
    MaxRequests,  \* bound: actions the caller sends, without and with core mode
    MaxResumes,   \* bound: times GDB lets the program run
    MaxDepth      \* bound: calls in progress when another replay may start

Inspect == {"backtrace", "locals", "args_info", "registers", "frame_select",
            "evaluate", "hypothesis_check"}
ProbeSet    == {"breakpoint_set", "watchpoint_set", "catchpoint_set"}
ProbeMutate == {"probe_delete", "probe_enable", "probe_disable"}
Notes       == {"hypothesis_create", "hypothesis_conclude", "save_action"}
Record      == {"record_start", "record_status", "record_stop", "record_discard"}

Kinds == Inspect \cup ProbeSet \cup ProbeMutate \cup Notes \cup Record \cup
         {"run", "continue", "replay", "threads", "probe_list", "raw_mi",
          "finish_session", "unknown", "initial_run"}

Numbers == 1 .. MaxProbes

Name == DOMAIN Policy \cup DOMAIN Plan \cup {"none", "raw"}

\* num: the probe of a probe_delete, ...; name: the policy of a breakpoint_set,
\* ..., the plan of a replay, or "raw" for a record_start with include_raw_mi.
Request ==
    {r \in [kind : Kinds, num : 0 .. MaxProbes, name : Name] :
        /\ r.kind \in ProbeSet => r.name \in DOMAIN Policy
        /\ r.kind = "replay" => r.name \in DOMAIN Plan
        /\ r.kind \in ProbeMutate => r.num \in Numbers}

Step == [req : Request, stop : BOOLEAN]

Req(kind) == [kind |-> kind, num |-> 0, name |-> "none"]

ASSUME BoundsAssumption ==
    /\ CoreTasks \subseteq BOOLEAN
    /\ MaxProbes \in Nat /\ MaxResumes \in Nat /\ MaxDepth \in Nat
    /\ MaxRequests \in [BOOLEAN -> Nat]

ASSUME RequestsAssumption == Requests \in [BOOLEAN -> SUBSET Request]

\* The parser refuses raw_mi among on-hit actions.
ASSUME PolicyAssumption ==
    \A p \in DOMAIN Policy :
        /\ Policy[p] \in [steps : Seq(Request), stop : BOOLEAN, onward : BOOLEAN]
        /\ \A i \in DOMAIN Policy[p].steps : Policy[p].steps[i].kind # "raw_mi"

ASSUME PlanAssumption ==
    /\ Prelude \in DOMAIN Plan \cup {"none"}
    /\ \A p \in DOMAIN Plan : Plan[p] \in Seq(Step)

VARIABLES
    \* the session
    phase,      \* "start", "prelude", "serving" or "closed"
    state,      \* outcome.state
    coreMode,   \* outcome.core_mode
    probes,     \* probe_state.probes_by_number; kind "none" where it has no entry
    recording,  \* the RecordingState
    stack,      \* the calls in progress, the innermost last
    requests,   \* how many actions the caller has sent
    \* GDB and the program
    breaks,     \* GDB's breakpoints by number
    made,       \* how many numbers GDB has given out
    late,       \* the number in an insertion's answer not yet read; 0 for none
    inferior,   \* the program: "none", "stopped" or "running"
    resumes,    \* how many times a run or continue let it run
    \* history
    timely,     \* no command has timed out
    meddled,    \* a raw_mi has run, moved or ended the program
    unnoted,    \* the probes GDB has changed without the table being told
    journal,    \* the actions reported successful to the caller while recording
    written,    \* hits of a probe written as evidence
    lost        \* hits of a probe an exception kept from being written

gdbVars  == <<breaks, made, inferior, resumes, meddled, unnoted>>
callVars == <<stack, recording, journal>>
vars == <<phase, state, coreMode, probes, recording, stack, requests, breaks, made, late,
          inferior, resumes, timely, meddled, unnoted, journal, written, lost>>

-------------------------------------------------------------------------------

States == {"Created", "Ready", "Loading", "Stopped", "Running", "Exited", "Error", "Closed"}

Probe == {p \in [kind : ProbeSet \cup {"none"}, policy : Name,
                 enabled : BOOLEAN, deleted : BOOLEAN, hits : Nat] :
              p.kind # "none" => p.policy \in DOMAIN Policy}
NoProbe == [kind |-> "none", policy |-> "none", enabled |-> FALSE, deleted |-> FALSE, hits |-> 0]

Break == [kind : ProbeSet \cup {"none"}, policy : Name, status : {"on", "off", "gone"}]
NoBreak == [kind |-> "none", policy |-> "none", status |-> "gone"]

Answers == {"done", "error", "timeout"}

Recording == [active : BOOLEAN, raw : BOOLEAN,
              steps : Seq([kind : Kinds, answer : Answers])]
NoRecording == [active |-> FALSE, raw |-> FALSE, steps |-> <<>>]

\* A run or continue performing the on-hit actions of its stop, or a replay.
\* todo: what is still to be performed; stop: the failure policy of the action
\* being performed; stopped: later actions are skipped; onward: a continue is to
\* follow; trigger: the breakpoint GDB stopped at, whatever it was taken for.
Frame == [op : {"hit", "replay"}, req : Request,
          number : 0 .. MaxProbes, trigger : 0 .. MaxProbes, known : BOOLEAN,
          todo : Seq(Step), stop : BOOLEAN, failed : BOOLEAN, stopped : BOOLEAN,
          onward : BOOLEAN]

TypeOK ==
    /\ phase \in {"start", "prelude", "serving", "closed"}
    /\ state \in States
    /\ coreMode \in BOOLEAN
    /\ probes \in [Numbers -> Probe]
    /\ recording \in Recording
    /\ stack \in Seq(Frame)
    /\ requests \in Nat
    /\ breaks \in [Numbers -> Break]
    /\ made \in 0 .. MaxProbes
    /\ late \in 0 .. MaxProbes
    /\ inferior \in {"none", "stopped", "running"}
    /\ resumes \in Nat
    /\ timely \in BOOLEAN
    /\ meddled \in BOOLEAN
    /\ unnoted \subseteq Numbers
    /\ journal \in Seq(Kinds)
    /\ written \in [Numbers -> Nat]
    /\ lost \in [Numbers -> Nat]

Init ==
    /\ phase = "start" /\ state = "Created" /\ coreMode = FALSE
    /\ probes = [n \in Numbers |-> NoProbe]
    /\ recording = NoRecording /\ stack = <<>> /\ requests = 0
    /\ breaks = [n \in Numbers |-> NoBreak]
    /\ made = 0 /\ late = 0 /\ inferior = "none" /\ resumes = 0
    /\ timely = TRUE /\ meddled = FALSE /\ unnoted = {} /\ journal = <<>>
    /\ written = [n \in Numbers |-> 0] /\ lost = [n \in Numbers |-> 0]

-------------------------------------------------------------------------------
(* The state guard *)

\* Not available in core mode.
Dynamic == {"run", "continue"} \cup ProbeSet \cup ProbeMutate

\* Mutant: an action may be retried after an error.
LoadedOrError == {"Ready", "Stopped", "Exited", "Error"}

Loaded == {"Ready", "Stopped", "Exited"}

Allowed(kind) ==
    /\ coreMode => kind \notin Dynamic
    /\ kind = "finish_session" => state \in {"Stopped", "Exited", "Error"}
    /\ kind # "finish_session" => state # "Closed"
    /\ kind \in Inspect => coreMode \/ state = "Stopped"
    /\ kind = "continue" => state = "Stopped"
    /\ kind \in {"run", "replay"} \cup ProbeSet => state \in Loaded
    /\ kind \in {"threads", "probe_list"} \cup ProbeMutate => coreMode \/ state \in Loaded

-------------------------------------------------------------------------------
(* Calls in progress.  `below` is what remains on the stack without the call at
   hand; the caller's own action has nothing below it. *)

Top       == stack[Len(stack)]
BelowTop  == SubSeq(stack, 1, Len(stack) - 1)
InTop(f)  == [stack EXCEPT ![Len(stack)] = f]

\* One action of a policy or plan has ended.
After(f, ok) == [f EXCEPT !.failed  = @ \/ ~ok,
                          !.stopped = @ \/ (~ok /\ f.stop)]

Deliver(below, ok) ==
    IF below = <<>> THEN <<>> ELSE [below EXCEPT ![Len(below)] = After(@, ok)]

Recordable(kind) ==
    /\ kind \notin Record \cup {"replay", "finish_session", "save_action", "unknown",
                                "initial_run"}
    /\ kind = "raw_mi" => recording.raw

\* Mutant: nested actions are recorded like the caller's own.
RecordEvery(r, ok, answer, below) ==
    IF ok /\ recording.active /\ Recordable(r.kind)
      THEN [recording EXCEPT !.steps = Append(@, [kind |-> r.kind, answer |-> answer])]
      ELSE recording

\* The executor records the caller's own successful actions.
Recorded(r, ok, answer, below) ==
    IF below = <<>> /\ ok /\ recording.active /\ Recordable(r.kind)
      THEN [recording EXCEPT !.steps = Append(@, [kind |-> r.kind, answer |-> answer])]
      ELSE recording

\* Action r ends with result ok, having got this answer from GDB.
Finished(r, ok, answer, below) ==
    /\ stack' = Deliver(below, ok)
    /\ recording' = Recorded(r, ok, answer, below)
    /\ journal' = IF below = <<>> /\ ok /\ recording.active
                    THEN Append(journal, r.kind) ELSE journal

\* An exception ends every call in progress up to the innermost replay, whose
\* step fails, or up to the caller; one that ends the initial run ends the session.
\* Hits on the way are never written.
Thrown(below) ==
    \E kept \in 0 .. Len(below) :
        /\ kept # 0 => below[kept].op = "replay"
        /\ \A i \in kept + 1 .. Len(below) : below[i].op # "replay"
        /\ stack' = Deliver(SubSeq(below, 1, kept), FALSE)
        /\ phase' = IF kept = 0 /\ below # <<>> /\ below[1].req.kind = "initial_run"
                      THEN "closed" ELSE phase
        /\ lost' = [n \in Numbers |-> lost[n] +
                       Cardinality({i \in kept + 1 .. Len(below) :
                                        below[i].known /\ below[i].number = n})]
        /\ UNCHANGED <<recording, journal>>

\* Action r ends, unless the evidence it writes first cannot be written.
Returned(r, ok, answer, below) ==
    \/ Finished(r, ok, answer, below) /\ UNCHANGED <<phase, lost>>
    \/ Thrown(below)

-------------------------------------------------------------------------------
(* Actions that need one answer of GDB, or none *)

\* A timed out command may or may not have read an answer that was late.
Asked(answer) ==
    /\ late' \in IF answer = "timeout" THEN {0, late} ELSE {0}
    /\ timely' = (timely /\ answer # "timeout")

\* The guard writes a ToolError.
Deny(r, below) ==
    /\ ~Allowed(r.kind)
    /\ Returned(r, FALSE, "done", below)
    /\ UNCHANGED <<state, coreMode, probes, late, timely, written>>
    /\ UNCHANGED gdbVars

Ask(r, below) ==
    /\ r.kind \in Inspect \cup {"threads"}
    /\ \E answer \in Answers :
           /\ Asked(answer)
           /\ Returned(r, answer = "done", answer, below)
    /\ UNCHANGED <<state, coreMode, probes, written>>
    /\ UNCHANGED gdbVars

\* Succeeds whatever GDB answers.
ProbeList(r, below) ==
    /\ r.kind = "probe_list"
    /\ \E answer \in Answers :
           /\ Asked(answer)
           /\ Returned(r, TRUE, answer, below)
    /\ UNCHANGED <<state, coreMode, probes, written>>
    /\ UNCHANGED gdbVars

\* What a command of raw_mi may do: nothing the session cares for, ...
RawAsk(answer) == Asked(answer) /\ UNCHANGED gdbVars

\* ... set a breakpoint, ...
RawInsert(answer) ==
    /\ made < MaxProbes
    /\ made' = made + 1
    /\ \E kind \in ProbeSet :
           breaks' = [breaks EXCEPT ![made + 1] = [kind |-> kind, policy |-> "none", status |-> "on"]]
    /\ late' \in IF answer = "timeout" THEN {late, made + 1} \ {0} ELSE {0}
    /\ timely' = (timely /\ answer # "timeout")
    /\ UNCHANGED <<inferior, resumes, meddled, unnoted>>

\* ... enable, disable or delete one, ...
RawMutate(answer) ==
    /\ \E n \in Numbers, status \in {"on", "off", "gone"} :
           /\ breaks[n].status \notin {"gone", status}
           /\ breaks' = [breaks EXCEPT ![n].status = status]
           /\ unnoted' = unnoted \cup {n}
    /\ Asked(answer)
    /\ UNCHANGED <<made, inferior, resumes, meddled>>

\* ... or run the program, move it or end it.
RawResume(answer) ==
    /\ inferior' \in {"none", "stopped", "running"}
    /\ meddled' = TRUE
    /\ Asked(answer)
    /\ UNCHANGED <<breaks, made, resumes, unnoted>>

\* Any command, in any state and in core mode; a success whatever GDB answers.
RawMi(r, below) ==
    /\ r.kind = "raw_mi"
    /\ \/ \* no command, or not asked for as "advanced"
          /\ Returned(r, FALSE, "done", below)
          /\ UNCHANGED <<late, timely>> /\ UNCHANGED gdbVars
       \/ \E answer \in Answers :
              /\ Returned(r, TRUE, answer, below)
              /\ \/ RawAsk(answer)
                 \/ /\ answer # "error"
                    /\ RawInsert(answer) \/ RawMutate(answer) \/ RawResume(answer)
    /\ UNCHANGED <<state, coreMode, probes, written>>

\* Files of the session are written, which may fail, and throw.
Note(r, below) ==
    /\ r.kind \in Notes
    /\ \E ok \in BOOLEAN : Returned(r, ok, "done", below)
    /\ UNCHANGED <<state, coreMode, probes, late, timely, written>>
    /\ UNCHANGED gdbVars

Unsupported(r, below) ==
    /\ r.kind = "unknown"
    /\ Returned(r, FALSE, "done", below)
    /\ UNCHANGED <<state, coreMode, probes, late, timely, written>>
    /\ UNCHANGED gdbVars

\* Only the caller's own finish_session ends the session.
Finish(r, below) ==
    /\ r.kind = "finish_session"
    /\ Finished(r, TRUE, "done", below)
    /\ IF below = <<>> THEN phase' = "closed" /\ state' = "Closed"
                       ELSE UNCHANGED <<phase, state>>
    /\ UNCHANGED <<coreMode, probes, late, timely, written, lost>>
    /\ UNCHANGED gdbVars

\* Nested actions have no recording to work on.
RecordNested(r, below) ==
    /\ r.kind \in Record /\ below # <<>>
    /\ Returned(r, FALSE, "done", below)
    /\ UNCHANGED <<state, coreMode, probes, late, timely, written>>
    /\ UNCHANGED gdbVars

RecordDirect(r, below) ==
    /\ r.kind \in Record /\ below = <<>>
    /\ stack' = <<>>
    /\ \/ /\ r.kind = "record_start" /\ ~recording.active
          /\ recording' = [active |-> TRUE, raw |-> r.name = "raw", steps |-> <<>>]
          /\ journal' = <<>>
       \/ /\ r.kind \in {"record_stop", "record_discard"} /\ recording.active
          /\ recording' = NoRecording
          /\ journal' = <<>>
       \/ \* already active, not active, not persisted, or a record_status
          /\ r.kind = "record_start" => recording.active
          /\ r.kind = "record_discard" => ~recording.active
          /\ UNCHANGED <<recording, journal>>
    /\ UNCHANGED <<phase, state, coreMode, probes, late, timely, written, lost>>
    /\ UNCHANGED gdbVars

-------------------------------------------------------------------------------
(* Probes *)

Known(n) == n \in Numbers /\ probes[n].kind # "none"

\* The number of an insertion, once its answer is in: the first one found in the
\* lines read, so that of an earlier insertion if its answer was still unread.
InsertedAs(own) == IF late # 0 THEN late ELSE own

\* -break-insert, -break-watch or catch, and -break-condition; the probe is
\* entered under the number found, once the evidence of the commands is written.
SetProbe(r, below) ==
    LET own   == made + 1
        break == [kind |-> r.kind, policy |-> r.name, status |-> "on"]
        Inserted(done) ==
            IF done THEN made' = own /\ breaks' = [breaks EXCEPT ![own] = break]
                    ELSE UNCHANGED <<made, breaks>>
        Fail(answer) == Returned(r, FALSE, answer, below) /\ UNCHANGED probes
        Enter(n, condition) ==
            /\ r.kind = "catchpoint_set" => condition = "done"
            /\ \/ condition = "error" /\ Fail("error")
               \/ Thrown(below) /\ UNCHANGED probes
               \/ /\ condition # "error"
                  /\ probes' = [probes EXCEPT ![n] =
                                  [kind |-> r.kind, policy |-> r.name, enabled |-> TRUE,
                                   deleted |-> FALSE, hits |-> 0]]
                  /\ Finished(r, TRUE, "done", below) /\ UNCHANGED <<phase, lost>>
    IN /\ r.kind \in ProbeSet
       /\ \/ \* refused
             /\ Inserted(FALSE) /\ Fail("error")
             /\ late' = 0 /\ UNCHANGED timely
          \/ \* answered; an error of the condition leaves the breakpoint behind
             /\ made < MaxProbes
             /\ Inserted(TRUE)
             /\ \E condition \in Answers :
                    /\ Enter(InsertedAs(own), condition)
                    /\ timely' = (timely /\ condition # "timeout")
             /\ late' = 0
          \/ \* no number read in time
             /\ \E executed \in {made < MaxProbes, FALSE} :
                    /\ Inserted(executed)
                    /\ late' = IF executed /\ late = 0 THEN own ELSE late
             /\ Fail("timeout")
             /\ timely' = FALSE
          \/ \* the late number read in time, the own one still to come
             /\ late # 0 /\ made < MaxProbes
             /\ Inserted(TRUE)
             /\ \E condition \in Answers : Enter(late, condition)
             /\ late' \in {0, own}
             /\ timely' = FALSE
       /\ UNCHANGED <<state, coreMode, inferior, resumes, meddled, unnoted, written>>

Status(kind) == CASE kind = "probe_delete"  -> "gone"
                  [] kind = "probe_enable"  -> "on"
                  [] kind = "probe_disable" -> "off"

\* Mutant: enabling a deleted probe brings it back.
MutatedBack(kind, p) ==
    [p EXCEPT !.enabled = (kind = "probe_enable"),
              !.deleted = (kind = "probe_delete")]

\* The table follows GDB, if GDB answered.
Mutated(kind, p) ==
    [p EXCEPT !.enabled = (kind = "probe_enable"),
              !.deleted = @ \/ kind = "probe_delete"]

\* GDB ignores a number it does not know, and answers all the same.  The evidence
\* of the command is written before the table, and if it cannot be, only GDB knows.
MutateProbe(r, below) ==
    LET n    == r.num
        Gone == breaks[n].status = "gone"
        Done == IF Gone THEN UNCHANGED breaks
                ELSE breaks' = [breaks EXCEPT ![n].status = Status(r.kind)]
    IN /\ r.kind \in ProbeMutate
       /\ \/ /\ Asked("done") /\ Done
             /\ probes' = IF Known(n)
                            THEN [probes EXCEPT ![n] = Mutated(r.kind, @)] ELSE probes
             /\ unnoted' = IF Gone /\ r.kind # "probe_delete" THEN unnoted ELSE unnoted \ {n}
             /\ Finished(r, TRUE, "done", below) /\ UNCHANGED <<phase, lost>>
          \/ /\ Asked("done") /\ Done
             /\ unnoted' = IF Gone THEN unnoted ELSE unnoted \cup {n}
             /\ Thrown(below) /\ UNCHANGED probes
          \/ /\ Asked("error")
             /\ Returned(r, FALSE, "error", below)
             /\ UNCHANGED <<breaks, probes, unnoted>>
          \/ /\ Asked("timeout")
             /\ Done \/ UNCHANGED breaks
             /\ Returned(r, FALSE, "timeout", below)
             /\ UNCHANGED <<probes, unnoted>>
       /\ UNCHANGED <<state, coreMode, made, inferior, resumes, meddled, written>>

-------------------------------------------------------------------------------
(* Running the program *)

Stop(exited, trigger, number, after) ==
    [error |-> FALSE, exited |-> exited, timedOut |-> FALSE,
     trigger |-> trigger, number |-> number, after |-> after]

Armed(kinds) == {b \in Numbers : breaks[b].status = "on" /\ breaks[b].kind \in kinds}

\* The program stops of a signal, or at one of these breakpoints.  The record of a
\* watchpoint may lack the number.
Stops(exited, at, after) ==
    {Stop(exited, 0, 0, after)}
    \cup {Stop(exited, b, b, after) : b \in at}
    \cup {Stop(exited, b, 0, after) : b \in {w \in at : breaks[w].kind = "watchpoint_set"}}

Refused  == [Stop(FALSE, 0, 0, inferior) EXCEPT !.error = TRUE]
Deadline(exited, after) == [Stop(exited, 0, 0, after) EXCEPT !.timedOut = TRUE]

\* A deadline passes, and the program obeys the interrupt, goes on, or ends
\* meanwhile, which only counts as an exit if GDB had said so before the deadline.
Deadlines(exited) ==
    {Deadline(exited, after) : after \in {"stopped", "running", "none"}}
    \cup {Deadline(TRUE, "none")}

ProgramEnds == Stop(TRUE, 0, 0, "none")

\* GDB obeys.  A run of a stopped program has GDB report the old process gone first,
\* and the result is marked exited however the new one stops.
ObeyedResults(kind) ==
    LET gone == kind = "run" /\ inferior = "stopped"
    IN Stops(gone, Armed(ProbeSet), "stopped") \cup Deadlines(gone) \cup {ProgramEnds}

\* A program left running may have stopped since: GDB obeys, or its stop is read as
\* that of the command.
BelatedAs(exited) ==
    Stops(exited, 1 .. made, "stopped") \cup Stops(exited, 1 .. made, "running") \cup Deadlines(exited)

BelatedResults(kind) ==
    {ProgramEnds} \cup UNION {BelatedAs(exited) : exited \in {FALSE, kind = "run"}}

\* What exec_control() may return.
ExecResults(kind) ==
    LET able == resumes < MaxResumes
        fit  == inferior = "stopped" \/ (inferior = "none" /\ kind # "continue")
    IN {Refused}
       \cup (IF able /\ fit THEN ObeyedResults(kind) ELSE {})
       \cup (IF able /\ inferior = "running" THEN BelatedResults(kind) ELSE {})

\* prepare_probe_hit(): a watchpoint's stop without a number is that of the only
\* active watchpoint, if there is just one.
ActiveWatchpoints ==
    {n \in Numbers : probes[n].kind = "watchpoint_set" /\ ~probes[n].deleted /\ probes[n].enabled}

\* Mutant: any active watchpoint will do.
AnyActiveWatchpoint(res) ==
    IF res.number = 0 /\ res.trigger # 0 /\ ActiveWatchpoints # {}
      THEN CHOOSE n \in ActiveWatchpoints : TRUE
      ELSE res.number

HitNumber(res) ==
    IF res.number = 0 /\ res.trigger # 0 /\ Cardinality(ActiveWatchpoints) = 1
      THEN CHOOSE n \in ActiveWatchpoints : TRUE
      ELSE res.number

\* Mutant: a deadline leaves the state in between.
OutcomeInterrupting(res) ==
    IF res.error THEN "Error" ELSE IF res.timedOut THEN "Interrupting" ELSE "Stopped"

\* Mutant: an exit is taken for a stop.
OutcomeIgnoringExit(res) == IF res.error THEN "Error" ELSE "Stopped"

\* update_outcome_from_stop()
OutcomeState(res) ==
    IF res.error THEN "Error" ELSE IF res.exited THEN "Exited" ELSE "Stopped"

\* ... and handle_probe_stop(), which takes a hit for a stop.
StateAfter(res) == IF HitNumber(res) # 0 THEN "Stopped" ELSE OutcomeState(res)

HitFrame(r, res) ==
    LET n      == HitNumber(res)
        policy == Policy[probes[n].policy]
    IN [op |-> "hit", req |-> r, number |-> n, trigger |-> res.trigger, known |-> Known(n),
        todo |-> IF Known(n)
                   THEN [i \in DOMAIN policy.steps |-> [req |-> policy.steps[i], stop |-> policy.stop]]
                   ELSE <<>>,
        stop |-> FALSE, failed |-> FALSE, stopped |-> FALSE,
        onward |-> Known(n) /\ policy.onward /\ policy.steps # <<>>]

CountHit(n) == IF Known(n) THEN [probes EXCEPT ![n].hits = @ + 1] ELSE probes

\* Watchpoints on what is local to a function or a run: GDB deletes them as its
\* frame or the program ends.
Scoped(res) ==
    IF res.error THEN {}
    ELSE {b \in Numbers \ {res.trigger} :
              breaks[b].kind = "watchpoint_set" /\ breaks[b].status # "gone"}

\* GDB resumes the program, unless it refuses, and the call returns with res.
Ran(res) ==
    /\ inferior' = res.after
    /\ resumes' = IF res.error THEN resumes ELSE resumes + 1
    /\ late' \in IF res.timedOut THEN {0, late} ELSE {0}
    /\ timely' = (timely /\ ~res.timedOut)
    /\ \E over \in SUBSET Scoped(res) :
           /\ breaks' = [n \in Numbers |-> IF n \in over THEN [breaks[n] EXCEPT !.status = "gone"]
                                           ELSE breaks[n]]
           /\ unnoted' = unnoted \cup over
    /\ UNCHANGED <<made, meddled>>

\* A call that is not refused goes on with the on-hit actions.
Executed(r, res, below) ==
    /\ state' = StateAfter(res)
    /\ IF res.error THEN Finished(r, FALSE, "error", below) /\ UNCHANGED probes
       ELSE /\ stack' = Append(below, HitFrame(r, res))
            /\ probes' = CountHit(HitNumber(res))
            /\ UNCHANGED <<recording, journal>>

\* The state is Running until the evidence of the stop is written, and more evidence
\* is collected before a hit is looked for.
Interrupted(res) == state' \in {"Running", OutcomeState(res)} /\ UNCHANGED probes

\* run_inferior() creates files first, which may throw; the state is Running by
\* then.
Resume(r, below) ==
    /\ r.kind \in {"run", "continue"}
    /\ \/ /\ r.kind = "run"
          /\ state' = "Running"
          /\ Thrown(below)
          /\ UNCHANGED <<probes, late, timely>>
          /\ UNCHANGED gdbVars
       \/ \E res \in ExecResults(r.kind) :
              /\ Ran(res)
              /\ \/ Executed(r, res, below) /\ UNCHANGED <<phase, lost>>
                 \/ Interrupted(res) /\ Thrown(below)
    /\ UNCHANGED <<coreMode, written>>

-------------------------------------------------------------------------------
(* Replays *)

ReplayFrame(plan) ==
    [op |-> "replay", req |-> [kind |-> "replay", num |-> 0, name |-> plan],
     number |-> 0, trigger |-> 0, known |-> FALSE,
     todo |-> Plan[plan], stop |-> FALSE, failed |-> FALSE, stopped |-> FALSE,
     onward |-> FALSE]

\* A plan that cannot be read or does not fit the task is not performed.
Replay(r, below) ==
    /\ r.kind = "replay"
    /\ \/ Returned(r, FALSE, "done", below)
       \/ /\ Len(below) < MaxDepth
          /\ stack' = Append(below, ReplayFrame(r.name))
          /\ UNCHANGED <<phase, recording, journal, lost>>
    /\ UNCHANGED <<state, coreMode, probes, late, timely, written>>
    /\ UNCHANGED gdbVars

-------------------------------------------------------------------------------
(* The session *)

\* dispatch_action(), called with the calls `below` in progress.
Perform(r, below) ==
    \/ Deny(r, below)
    \/ /\ Allowed(r.kind)
       /\ \/ Ask(r, below) \/ ProbeList(r, below) \/ RawMi(r, below)
          \/ Note(r, below) \/ Unsupported(r, below) \/ Finish(r, below)
          \/ RecordNested(r, below) \/ RecordDirect(r, below)
          \/ SetProbe(r, below) \/ MutateProbe(r, below)
          \/ Resume(r, below) \/ Replay(r, below)

\* GDB is started and set up, and the plan of --replay-before-run comes next, unless
\* it does not fit the task.  Both may throw, and the session is no more.
Start ==
    /\ phase = "start"
    /\ \/ /\ phase' = "prelude" /\ state' = "Ready"
          /\ stack' \in {<<>>} \cup {<<ReplayFrame(p)>> : p \in {Prelude} \ {"none"}}
       \/ /\ phase' = "closed"
          /\ UNCHANGED <<state, stack>>
    /\ UNCHANGED <<coreMode, probes, recording, requests, late, timely, journal, written, lost>>
    /\ UNCHANGED gdbVars

\* Only a refusal counts as a failure to load. Nothing before has looked at whether
\* the task names a core dump.  Evidence that cannot be written ends the session.
LoadCore ==
    /\ phase = "prelude" /\ stack = <<>> /\ TRUE \in CoreTasks
    /\ coreMode' = TRUE
    /\ \E answer \in Answers :
           LET loaded == IF answer = "error" THEN "Error" ELSE "Stopped"
           IN /\ Asked(answer)
              /\ \/ phase' = "serving" /\ state' = loaded
                 \/ phase' = "closed" /\ state' \in {"Loading", loaded}
    /\ UNCHANGED <<probes, recording, stack, requests, journal, written, lost>>
    /\ UNCHANGED gdbVars

\* The first run takes no notice of a refusal beyond the state.  What it throws ends
\* the session.
InitialRun ==
    /\ phase = "prelude" /\ stack = <<>> /\ FALSE \in CoreTasks
    /\ \/ /\ phase' = "closed" /\ state' = "Running"
          /\ UNCHANGED <<probes, late, timely>>
          /\ UNCHANGED callVars /\ UNCHANGED gdbVars
       \/ \E res \in ExecResults("run") :
              /\ Ran(res)
              /\ \/ phase' = "serving" /\ Executed(Req("initial_run"), res, <<>>)
                 \/ phase' = "closed" /\ Interrupted(res) /\ UNCHANGED callVars
    /\ UNCHANGED <<coreMode, requests, written, lost>>

\* An action of the caller.
Direct(r) ==
    /\ phase = "serving" /\ stack = <<>> /\ requests < MaxRequests[coreMode]
    /\ requests' = requests + 1
    /\ Perform(r, <<>>)

\* The next action of the policy or plan on top.
Child ==
    /\ stack # <<>> /\ Top.todo # <<>> /\ ~Top.stopped
    /\ LET step == Head(Top.todo)
       IN Perform(step.req, InTop([Top EXCEPT !.todo = Tail(@), !.stop = step.stop]))
    /\ UNCHANGED requests

\* continue_after_hit.
Onward ==
    /\ stack # <<>> /\ Top.todo = <<>> /\ ~Top.stopped /\ Top.onward
    /\ Perform(Req("continue"), InTop([Top EXCEPT !.onward = FALSE, !.stop = FALSE]))
    /\ UNCHANGED requests

FrameDone(f) == f.stopped \/ (f.todo = <<>> /\ ~f.onward)

\* Mutant: the hit is not recorded once an on-hit action has failed.
HitRecorded(f) == f.known /\ ~f.failed

\* record_probe_hit() of a probe of the table.
HitWritten(f) == f.known

\* The run, continue or replay on top returns; the actions it did not get to are
\* recorded as skipped.
Leave ==
    /\ stack # <<>> /\ FrameDone(Top)
    /\ Finished(Top.req, Top.op = "hit" \/ ~Top.failed, "done", BelowTop)
    /\ written' = IF HitWritten(Top) THEN [written EXCEPT ![Top.number] = @ + 1] ELSE written
    /\ UNCHANGED <<phase, state, coreMode, probes, requests, late, timely, lost>>
    /\ UNCHANGED gdbVars

\* What the call on top writes of an action it has performed, or at its end, cannot
\* be written: a step is caught only by a replay further out.
Cut ==
    /\ stack # <<>>
    /\ Thrown(IF Top.op = "replay" THEN BelowTop ELSE stack)
    /\ UNCHANGED <<state, coreMode, probes, requests, late, timely, written>>
    /\ UNCHANGED gdbVars

\* The end of serve, and the daemon's finish and close, ask for no state.
Close ==
    /\ phase = "serving" /\ stack = <<>>
    /\ phase' = "closed" /\ state' = "Closed"
    /\ UNCHANGED <<coreMode, probes, recording, stack, requests, late, timely, journal,
                   written, lost>>
    /\ UNCHANGED gdbVars

Ended == phase = "closed" /\ UNCHANGED vars

Next ==
    \/ Start \/ LoadCore \/ InitialRun
    \/ \E r \in Requests[coreMode] : Direct(r)
    \/ Child \/ Onward \/ Leave \/ Cut
    \/ Close \/ Ended

Spec == Init /\ [][Next]_vars

-------------------------------------------------------------------------------
(* Properties *)

\* Every hit counted for a probe is written as evidence once, after the on-hit
\* actions it interrupted the program for, unless an exception ended the call:
\* however deeply runs and replays nest, none is dropped or written twice.
HitsAccounted ==
    \A n \in Numbers :
        probes[n].hits = written[n] + lost[n] +
            Cardinality({i \in DOMAIN stack : stack[i].known /\ stack[i].number = n})

\* A recording holds exactly the recordable actions its caller was told had
\* succeeded, in that order: nothing of what they did in turn, nothing that failed.
\* `at` says where in the journal each step of the recording is.
RecordsWhatSucceeded ==
    recording.active =>
        \E at \in [DOMAIN recording.steps -> DOMAIN journal] :
            /\ \A i, j \in DOMAIN at : i < j => at[i] < at[j]
            /\ \A i \in DOMAIN at : recording.steps[i].kind = journal[at[i]]
            /\ {at[i] : i \in DOMAIN at} = {j \in DOMAIN journal : Recordable(journal[j])}

\* As long as GDB answered in time, the table of probes says of each of them what
\* GDB would: whether it exists, and whether it is active.  The exceptions are the
\* probes GDB has changed and the tool has not: a change whose evidence could not be
\* written, a raw_mi, a watchpoint whose scope has ended.  The next change of the probe
\* that succeeds puts the table right (if GDB has it no more: the next probe_delete),
\* and a probe the table calls deleted is never there.
ProbesMatchGdb ==
    timely => \A n \in Numbers : Known(n) =>
        /\ probes[n].kind = breaks[n].kind /\ probes[n].policy = breaks[n].policy
        /\ probes[n].deleted => breaks[n].status = "gone"
        /\ n \notin unnoted =>
               /\ breaks[n].status = "gone" => probes[n].deleted
               /\ probes[n].enabled /\ ~probes[n].deleted <=> breaks[n].status = "on"

\* As long as GDB answered in time and raw_mi left the program alone, a stop is never
\* taken for the hit of another probe than the one that stopped the program.  That
\* takes no more than that every breakpoint GDB has armed is in the table, and was
\* not armed behind its back: what GDB has deleted unnoticed does no harm.
HitsAreTrue ==
    [][ timely /\ ~meddled /\ (\A b \in Armed(ProbeSet) : Known(b) /\ b \notin unnoted)
        => \A i \in DOMAIN stack' \ DOMAIN stack :
               stack'[i].number \in {0, stack'[i].trigger} ]_vars

\* As long as nothing timed out and raw_mi left the program alone, a caller or an
\* on-hit action that is told the program is stopped may examine it, whatever nested
\* runs and exceptions have done in between, and a program never started is not
\* there.
StoppedMeansStill ==
    timely /\ ~meddled /\ ~coreMode =>
        /\ state = "Stopped" => inferior = "stopped"
        /\ state = "Ready" => inferior = "none"
        /\ inferior # "running"

\* Once the session serves its caller, a refused run or continue is final, also for
\* the calls it was nested in: no pending action resumes the program again or takes
\* the error back.
ErrorIsFinal ==
    [][phase = "serving" /\ state = "Error" =>
           state' \in {"Error", "Closed"} /\ UNCHANGED resumes]_vars

-------------------------------------------------------------------------------
(* What the documentation says and the code does not do *)

\* A session that reports its program as exited has no program left.
ExitedMeansGone ==
    timely /\ ~meddled /\ phase = "serving" /\ state = "Exited" => inferior = "none"

\* What GDB refused is not recorded.
RejectedNotRecorded ==
    \A i \in DOMAIN recording.steps : recording.steps[i].answer # "error"

\* The session of a core dump runs no program, whatever its plans hold.
CoreRunsNothing == coreMode /\ ~meddled => inferior = "none"

===============================================================================
