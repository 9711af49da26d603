-------------------------------- MODULE Replays --------------------------------
(***************************************************************************)
(* Recording actions, saving them, and replaying what was stored           *)
(* (src/src/replay/record_store.cpp, replay_plan.cpp, replay_runtime.cpp   *)
(* and their cases in src/src/cli/action_dispatch.cpp), in a session that  *)
(* may end at any point and be followed by one with the same assets.       *)
(*                                                                         *)
(* A group of actions is stored under a name in up to three files: the     *)
(* artifact .gar and the export .json of record_stop, the .jsonl of        *)
(* save_action and the .json rebuilt from it.  Every write may fail, be    *)
(* cut without anyone noticing (write_text_file() and the closing of a     *)
(* stream check nothing), or be followed by the death of the session.      *)
(*                                                                         *)
(* ActionSession models what performing an action does; here an action     *)
(* just succeeds, fails or throws.  One call is a sequence of steps, one   *)
(* for each file written and each action performed.                        *)
(***************************************************************************)
EXTENDS EvidenceStore

CONSTANTS
    Names,       \* file names of groups, as slugify() leaves them
    Actions,     \* actions that may be recorded, saved and replayed
    Performed,   \* bound: those the callers perform
    Savable,     \* bound: those the callers save
    Tasks,       \* tasks, as told apart by their fingerprints
    HandPlans,   \* files the tool did not write itself, replayed by path
    MaxCalls,    \* bound: actions the callers send
    MaxReplays,  \* bound: replays among them, the last of which ends the calls
    MaxByPath,   \* bound: calls among which one may replay a file by its path
    MaxRestarts  \* bound: sessions that end

ASSUME ReplaysAssumption ==
    /\ "none" \notin Names \cup Actions
    /\ Tasks \cap {"none", "bare", "scalar"} = {}
    /\ Performed \subseteq Actions /\ Savable \subseteq Actions
    /\ MaxCalls \in Nat /\ MaxReplays \in Nat /\ MaxByPath \in Nat /\ MaxRestarts \in Nat

Valid    == {"continue", "stop"}
Policies == Valid \cup {"none"}

\* kind: "scalar" is no object, "missing" has no action object, "bad" one that
\* parse_action_request() refuses, or a line that is no object.
Step == [kind : {"act", "scalar", "disabled", "missing", "bad"},
         act : Actions \cup {"none"}, policy : Policies]

\* form: "absent"; "blank" for an empty file; "cut" for one that cannot be parsed
\* as a whole; a structured "plan"; "lines" of single actions, or such lines after
\* a comment ("noted").  schema "other" stands for an unknown schema or version.  task: "none" for no task metadata,
\* "bare" for metadata without fingerprint, "scalar" for no object.
File ==
    {f \in [form : {"absent", "blank", "cut", "plan", "lines", "noted"},
            schema : {"v1", "none", "other"},
            task : Tasks \cup {"none", "bare", "scalar"},
            policy : Policies,
            steps : Seq(Step)] : f.form \in {"plan", "lines", "noted"} \/ f.steps = <<>>}

ASSUME HandPlansAssumption == HandPlans \subseteq File

VARIABLES
    task,       \* the task of the session
    recording,  \* the RecordingState: [active, name, policy, acts]
    files,      \* files[n]: the three files of a name
    pc,         \* where the call in progress is; "idle" between calls
    call,       \* the call in progress or answered last
    run,        \* the ReplayRunResult of that call, and what it is made from
    answer,     \* "none", or how that call was answered
    calls,      \* how many calls there were
    replays,    \* how many of them were replays
    restarts,   \* how many sessions have ended
    \* history
    since,      \* actions the caller performed since the record_start in force
    recorded,   \* what the artifact of a name may hold
    saved,      \* the actions appended to the saved actions of a name
    sure,       \* how many of them a save was answered with a success for
    torn        \* names of which a write was cut

historyVars == <<since, recorded, saved, sure, torn>>
storeVars   == <<task, recording, files, historyVars>>
vars == <<counter, items, indexed, indexCut, failures, task, recording, files, pc, call, run,
          answer, calls, replays, restarts, since, recorded, saved, sure, torn>>

-------------------------------------------------------------------------------

Absent == [form |-> "absent", schema |-> "none", task |-> "none", policy |-> "none",
           steps |-> <<>>]

Group == Seq(Actions)

Kept(a) == [kind |-> "act", act |-> a, policy |-> "none"]

\* write_replay_plan() and record_group_to_json_export(); the artifact becomes
\* the same plan when it is read.
PlanOf(steps, policy) ==
    [form |-> "plan", schema |-> "v1", task |-> task,
     policy |-> policy, steps |-> steps]

Lines(steps) == [Absent EXCEPT !.form = "lines", !.steps = steps]

\* What is left of a file that was opened and not written to the end.
Cut == {[Absent EXCEPT !.form = f] : f \in {"blank", "cut"}}

NoRecording == [active |-> FALSE, name |-> "none", policy |-> "none", acts |-> <<>>]

CallOf(op, n, a, p) ==
    [op |-> op, name |-> n, act |-> a, policy |-> p, force |-> FALSE]

NoCall == CallOf("none", "none", "none", "none")

\* fate: how the action of a step ended; "none" if it was not performed.
Fates == {"none", "ok", "failed", "threw"}

Result == [status : {"success", "failed", "skipped"}, fate : Fates,
           evidence : Nat, error : Nat]

\* fate, error: of the step in progress.  stop: stop_due_to_failure.
NoRun == [plan |-> Absent, steps |-> <<>>, fate |-> "none", error |-> 0, stop |-> FALSE]

Places == {"idle", "artifact", "export", "rebuild", "reject", "warn", "step",
           "report", "document", "caught", "finish", "error"}

TypeOK ==
    /\ EvidenceTypeOK
    /\ task \in Tasks
    /\ recording \in [active : BOOLEAN, name : Names \cup {"none"}, policy : Policies,
                      acts : Group]
    /\ files \in [Names -> [gar : File, json : File, jsonl : File]]
    /\ pc \in Places
    /\ call \in [op : {"none", "perform", "record_start", "record_discard",
                       "record_stop", "save_action", "replay"},
                 name : Names \cup {"none"}, act : Actions \cup {"none"},
                 policy : Policies, force : BOOLEAN]
    /\ run \in [plan : File, steps : Seq(Result), fate : Fates, error : Nat,
                stop : BOOLEAN]
    /\ answer \in {"none", "ok", "failed", "error", "threw"}
    /\ calls \in Nat /\ replays \in Nat /\ restarts \in Nat
    /\ since \in Group
    /\ recorded \in [Names -> SUBSET Seq(Group)]
    /\ saved \in [Names -> Group]
    /\ sure \in [Names -> Nat]
    /\ torn \subseteq Names

Init ==
    /\ EvidenceInit
    /\ task \in Tasks /\ recording = NoRecording
    /\ files = [n \in Names |-> [gar |-> Absent, json |-> Absent, jsonl |-> Absent]]
    /\ pc = "idle" /\ call = NoCall /\ run = NoRun /\ answer = "none"
    /\ calls = 0 /\ replays = 0 /\ restarts = 0
    /\ since = <<>>
    /\ recorded = [n \in Names |-> {<<>>}]
    /\ saved = [n \in Names |-> <<>>]
    /\ sure = [n \in Names |-> 0]
    /\ torn = {}

-------------------------------------------------------------------------------
(* Calls, errors and the end of a session *)

\* A call begins, and if it goes to "idle" is answered at once.
Calls(c, to, a) ==
    /\ pc = "idle" /\ calls < MaxCalls /\ replays < MaxReplays
    /\ calls' = calls + 1
    /\ replays' = IF c.op = "replay" THEN replays + 1 ELSE replays
    /\ pc' = to /\ call' = c /\ answer' = a
    /\ UNCHANGED restarts

Answers(a) == pc' = "idle" /\ answer' = a /\ UNCHANGED <<call, calls, replays, restarts>>

Goes(to) == pc' = to /\ UNCHANGED <<call, answer, calls, replays, restarts>>

\* make_action_error(), or the error of a save: a ToolError and a failure.  When
\* not even that can be written the exception reaches the caller.
Error ==
    /\ pc = "error"
    /\ \/ Added("ToolError", <<calls, 0>>) /\ Answers("error")
       \/ AddThrew("ToolError", <<calls, 0>>) /\ Answers("threw")
    /\ UNCHANGED <<run, storeVars>>

\* The session ends, or its process does; another is started on the same assets,
\* for the same task or another.
Restart ==
    /\ restarts < MaxRestarts
    /\ restarts' = restarts + 1
    /\ Reopened
    /\ task' \in Tasks
    /\ recording' = NoRecording
    /\ pc' = "idle" /\ call' = NoCall /\ run' = NoRun /\ answer' = "none"
    /\ since' = <<>>
    /\ UNCHANGED <<calls, replays, files, recorded, saved, sure, torn>>

-------------------------------------------------------------------------------
(* Recording *)

\* An action of the caller that succeeds, and is recorded.  One that fails
\* changes nothing here.
Perform(a) ==
    /\ Calls(CallOf("perform", "none", a, "none"), "idle", "ok")
    /\ recording' = IF recording.active THEN [recording EXCEPT !.acts = Append(@, a)]
                                        ELSE recording
    /\ since' = IF recording.active THEN Append(since, a) ELSE since
    /\ run' = NoRun
    /\ UNCHANGED <<evidenceVars, task, files, recorded, saved, sure, torn>>

RecordStart(n, p) ==
    LET c == CallOf("record_start", n, "none", p)
    IN  /\ \/ /\ recording.active /\ Calls(c, "error", "none")
              /\ UNCHANGED <<recording, since>>
           \/ /\ ~recording.active /\ Calls(c, "idle", "ok")
              /\ recording' = [active |-> TRUE, name |-> n, policy |-> p, acts |-> <<>>]
              /\ since' = <<>>
        /\ run' = NoRun
        /\ UNCHANGED <<evidenceVars, task, files, recorded, saved, sure, torn>>

RecordDiscard ==
    LET c == CallOf("record_discard", "none", "none", "none")
    IN  /\ \/ ~recording.active /\ Calls(c, "error", "none") /\ UNCHANGED recording
           \/ recording.active /\ Calls(c, "idle", "ok") /\ recording' = NoRecording
        /\ run' = NoRun
        /\ UNCHANGED <<evidenceVars, task, files, historyVars>>

RecordStop ==
    /\ Calls(CallOf("record_stop", "none", "none", "none"),
             IF recording.active THEN "artifact" ELSE "error", "none")
    /\ run' = NoRun
    /\ UNCHANGED <<evidenceVars, storeVars>>

\* The write of one file of n: all of it, part of it with no error, or an
\* exception before the old file is touched.
Put(n, which, file) == files' = [files EXCEPT ![n][which] = file]

PutCut(n, which) ==
    /\ Fails
    /\ torn' = torn \cup {n}
    /\ \E f \in Cut : Put(n, which, f)

Throws == Fails /\ Goes("error") /\ UNCHANGED storeVars

\* The recorded actions, as steps of a plan.
Steps(acts) == [i \in DOMAIN acts |-> Kept(acts[i])]

Recorded == PlanOf(Steps(recording.acts), recording.policy)

\* write_record_artifact() replaces the artifact in one rename, of a temporary
\* file whose last bytes are written after the last check.
WriteArtifact ==
    LET n == recording.name
    IN  /\ pc = "artifact"
        /\ \/ /\ Put(n, "gar", Recorded) /\ Goes("export")
              /\ recorded' = [recorded EXCEPT ![n] = @ \cup {<<since>>}]
              /\ UNCHANGED <<failures, task, recording, since, saved, sure, torn>>
           \/ /\ PutCut(n, "gar") /\ Goes("export")
              /\ UNCHANGED <<task, recording, since, recorded, saved, sure>>
           \/ Throws
        /\ UNCHANGED <<counter, items, indexed, indexCut, run>>

\* The readable export; only then is the recording over.
WriteExport ==
    LET n == recording.name
    IN  /\ pc = "export"
        /\ \/ /\ \/ Put(n, "json", Recorded) /\ UNCHANGED <<failures, torn>>
                 \/ PutCut(n, "json")
              /\ Answers("ok")
              /\ recording' = [recording EXCEPT !.active = FALSE, !.acts = <<>>]
              /\ recorded' = [recorded EXCEPT ![n] = {<<since>>}]
              /\ UNCHANGED <<task, since, saved, sure>>
           \/ Throws
        /\ UNCHANGED <<counter, items, indexed, indexCut, run>>

-------------------------------------------------------------------------------
(* Saving single actions *)

Bad == [kind |-> "bad", act |-> "none", policy |-> "none"]

Unfinished(steps) == steps # <<>> /\ steps[Len(steps)] = Bad

\* A line appended after an unfinished one becomes part of it.
Appended(steps, step) == IF Unfinished(steps) THEN steps ELSE Append(steps, step)

\* save_action appends the action to the .jsonl and rebuilds the plan from it.
Save(n, a, p) ==
    LET steps == files[n].jsonl.steps
    IN  /\ \/ /\ Put(n, "jsonl", Lines(Appended(steps, Kept(a))))
              /\ saved' = [saved EXCEPT ![n] = Append(@, a)]
              /\ UNCHANGED <<failures, torn>>
           \/ /\ \E l \in {steps, Appended(steps, Bad)} : Put(n, "jsonl", Lines(l))
              /\ Fails /\ torn' = torn \cup {n}
              /\ UNCHANGED saved
        /\ Calls(CallOf("save_action", n, a, p), "rebuild", "none")
        /\ run' = NoRun
        /\ UNCHANGED <<counter, items, indexed, indexCut, task, recording, since, recorded, sure>>

\* The .jsonl cannot be opened.
SaveRefused(n, a, p) ==
    /\ Calls(CallOf("save_action", n, a, p), "error", "none")
    /\ Fails
    /\ run' = NoRun
    /\ UNCHANGED <<counter, items, indexed, indexCut, storeVars>>

\* rebuild_replay_plan_from_jsonl() refuses a file with an unfinished line, and
\* the plan stays what it was.
Rebuild ==
    LET n     == call.name
        lines == files[n].jsonl.steps
    IN  /\ pc = "rebuild"
        /\ \/ /\ ~Unfinished(lines)
              /\ \/ Put(n, "json", PlanOf(lines, call.policy)) /\ UNCHANGED <<failures, torn>>
                 \/ PutCut(n, "json")
              /\ Answers("ok")
              /\ sure' = [sure EXCEPT ![n] = Len(saved[n])]
              /\ UNCHANGED <<task, recording, since, recorded, saved>>
           \/ Unfinished(lines) /\ Goes("error") /\ UNCHANGED <<failures, storeVars>>
           \/ Throws
        /\ UNCHANGED <<counter, items, indexed, indexCut, run>>

-------------------------------------------------------------------------------
(* Replaying *)

\* normalize_replay_failure_policy()
Normalized(p, fallback) ==
    IF p # "none" THEN p ELSE IF fallback # "none" THEN fallback ELSE "continue"

\* Mutant: the plan is looked for before the artifact.
PlanFirst(n) ==
    LET f == files[n]
    IN  IF f.json.form # "absent" THEN f.json
        ELSE IF f.gar.form # "absent" THEN f.gar ELSE f.jsonl

\* The file a replay by name takes.
SourceOf(n) ==
    LET f == files[n]
    IN  IF f.gar.form # "absent" THEN f.gar
        ELSE IF f.json.form # "absent" THEN f.json ELSE f.jsonl

\* validate_replay_plan()
OtherTask(plan) == plan.task \in Tasks \ {task}

Rejected(plan, force) ==
    \/ plan.schema = "other"
    \/ plan.task = "scalar"
    \/ OtherTask(plan) /\ ~force

\* Mutant: a plan of another task is replayed without a warning.
WarnedUnforced(plan, force) == plan.schema = "none" \/ plan.task \in {"none", "bare"}

Warned(plan, force) ==
    \/ plan.schema = "none"
    \/ plan.task \in {"none", "bare"}
    \/ OtherTask(plan) /\ force

\* A file of lines begins like a plan and is parsed as one object, a single action:
\* it throws if it has several.  Lines after a comment are read one by one.
Several(file) == file.form = "lines" /\ Len(file.steps) > 1

\* A file that is not there or cannot be parsed throws.
Replay(n, file, force, p) ==
    /\ Calls([op |-> "replay", name |-> n, act |-> "none", policy |-> p, force |-> force],
             CASE file.form \in {"absent", "cut"} \/ Several(file)     -> "error"
               [] file.form = "blank"                                  -> "finish"
               [] file.form = "plan" /\ Rejected(file, force)          -> "reject"
               [] file.form = "plan" /\ ~Rejected(file, force)
                                    /\ Warned(file, force)             -> "warn"
               [] OTHER                                                -> "step",
             "none")
    /\ run' = [NoRun EXCEPT !.plan = file]
    /\ UNCHANGED <<evidenceVars, storeVars>>

\* An item of evidence is written, or the exception ends the replay.
Writes(kind, i, to) ==
    \/ Added(kind, <<calls, i>>) /\ Goes(to)
    \/ AddThrew(kind, <<calls, i>>) /\ Goes("error")

Reject ==
    /\ pc = "reject" /\ Writes("ToolError", 0, "finish")
    /\ run' = [run EXCEPT !.error = counter']
    /\ UNCHANGED storeVars

Warn ==
    /\ pc = "warn" /\ Writes("ReplayWarning", 0, "step")
    /\ UNCHANGED <<run, storeVars>>

\* The step at hand.
At   == Len(run.steps) + 1
Here == run.plan.steps[At]
More == pc = "step" /\ At <= Len(run.plan.steps)

\* Mutant: the policy of the step itself is not asked.
PlanPolicy == IF run.plan.form = "plan" THEN Normalized(call.policy, run.plan.policy)
                                        ELSE Normalized(call.policy, "none")

StepPolicy ==
    IF run.plan.form = "plan"
    THEN Normalized(Here.policy, Normalized(call.policy, run.plan.policy))
    ELSE Normalized(call.policy, "none")

\* The step has its result.
Ended(status, evidence, error) ==
    run' = [plan  |-> run.plan,
            steps |-> Append(run.steps, [status |-> status, fate |-> run.fate,
                                         evidence |-> evidence, error |-> error]),
            fate  |-> "none", error |-> 0,
            stop  |-> run.stop \/ (status = "failed" /\ StepPolicy = "stop")]

Skipped ==
    \/ run.plan.form = "plan" /\ Here.kind = "scalar"
    \/ run.stop
    \/ run.plan.form = "plan" /\ Here.kind = "disabled"

\* Of a file of lines, one that is not an action object ends the replay.
Malformed == Here.kind = "bad" \/ (run.plan.form # "plan" /\ Here.kind # "act")

Skip ==
    /\ More /\ Skipped
    /\ \/ Added("ReplayStep", <<calls, At>>) /\ Goes("step")
          /\ Ended("skipped", counter', 0)
       \/ AddThrew("ReplayStep", <<calls, At>>) /\ Goes("error") /\ UNCHANGED run
    /\ UNCHANGED storeVars

MissingAction ==
    /\ More /\ ~Skipped /\ run.plan.form = "plan" /\ Here.kind = "missing"
    /\ \/ Added("ToolError", <<calls, At>>) /\ Goes("step")
          /\ Ended("failed", counter', counter')
       \/ AddThrew("ToolError", <<calls, At>>) /\ Goes("error") /\ UNCHANGED run
    /\ UNCHANGED storeVars

BadAction ==
    /\ More /\ ~Skipped /\ Malformed
    /\ Goes("error")
    /\ UNCHANGED <<evidenceVars, run, storeVars>>

\* execute_session_operation(), which does not record: a step is not the caller's.
PerformStep(fate) ==
    /\ More /\ ~Skipped /\ Here.kind = "act"
    /\ Goes(CASE fate = "ok" -> "document" [] fate = "failed" -> "report"
               [] fate = "threw" -> "caught")
    /\ run' = [run EXCEPT !.fate = fate]
    /\ UNCHANGED <<evidenceVars, storeVars>>

\* The ToolError of an action that failed.  An exception is caught, here and
\* below, as if the action had thrown it.
Report ==
    /\ pc = "report"
    /\ \/ Added("ToolError", <<calls, At>>) /\ Goes("document")
          /\ run' = [run EXCEPT !.error = counter']
       \/ AddThrew("ToolError", <<calls, At>>) /\ Goes("caught") /\ UNCHANGED run
    /\ UNCHANGED storeVars

Document ==
    /\ pc = "document"
    /\ \/ Added("ReplayStep", <<calls, At>>) /\ Goes("step")
          /\ Ended(IF run.fate = "ok" THEN "success" ELSE "failed", counter', run.error)
       \/ AddThrew("ReplayStep", <<calls, At>>) /\ Goes("caught") /\ UNCHANGED run
    /\ UNCHANGED storeVars

\* Mutant: the status set before the exception is left.
CaughtAsIs ==
    /\ pc = "caught"
    /\ \/ Added("ToolError", <<calls, At>>) /\ Goes("step")
          /\ Ended(IF run.fate = "ok" THEN "success" ELSE "failed", counter', counter')
       \/ AddThrew("ToolError", <<calls, At>>) /\ Goes("error") /\ UNCHANGED run
    /\ UNCHANGED storeVars

\* Mutant: the error evidence of before the exception is left.
CaughtWithoutError ==
    /\ pc = "caught"
    /\ \/ Added("ToolError", <<calls, At>>) /\ Goes("step")
          /\ Ended("failed", counter', run.error)
       \/ AddThrew("ToolError", <<calls, At>>) /\ Goes("error") /\ UNCHANGED run
    /\ UNCHANGED storeVars

\* The handler of replay_action_step(); what it throws itself ends the replay.
Caught ==
    /\ pc = "caught"
    /\ \/ Added("ToolError", <<calls, At>>) /\ Goes("step")
          /\ Ended("failed", counter', counter')
       \/ AddThrew("ToolError", <<calls, At>>) /\ Goes("error") /\ UNCHANGED run
    /\ UNCHANGED storeVars

Failed == \E i \in DOMAIN run.steps : run.steps[i].status = "failed"

\* The ReplayRun, and the answer.
Finish ==
    /\ pc = "finish" \/ (pc = "step" /\ ~More)
    /\ \/ Added("ReplayRun", <<calls, 0>>)
          /\ Answers(IF Failed \/ run.error # 0 THEN "failed" ELSE "ok")
       \/ AddThrew("ReplayRun", <<calls, 0>>) /\ Goes("error")
    /\ UNCHANGED <<run, storeVars>>

-------------------------------------------------------------------------------

\* record_start and save_action normalize the policy they are given.
Caller ==
    \/ \E a \in Performed : Perform(a)
    \/ \E n \in Names, p \in Valid : RecordStart(n, p)
    \/ RecordDiscard \/ RecordStop
    \/ \E n \in Names, a \in Savable, p \in Valid : Save(n, a, p) \/ SaveRefused(n, a, p)
    \/ \E n \in Names, force \in BOOLEAN, p \in Policies : Replay(n, SourceOf(n), force, p)
    \/ /\ calls < MaxByPath
       /\ \E f \in HandPlans \cup {files[n].jsonl : n \in Names}, force \in BOOLEAN, p \in Policies :
              Replay("none", f, force, p)

Handler ==
    \/ WriteArtifact \/ WriteExport \/ Rebuild
    \/ Reject \/ Warn \/ Skip \/ MissingAction \/ BadAction
    \/ \E fate \in Fates \ {"none"} : PerformStep(fate)
    \/ Report \/ Document \/ Caught \/ Finish \/ Error

Next == Caller \/ Handler \/ Restart

Spec == Init /\ [][Next]_vars

-------------------------------------------------------------------------------
(* Properties *)

\* The results of the steps are those of the plan, in order: one that is told a
\* success was performed and succeeded, one that is told a failure was not
\* (unless its evidence could not be written: it then has only a ToolError), and
\* one is skipped exactly when it is no object, disabled, or behind a stop.  A
\* replay is answered with a success exactly when no step failed and the plan was
\* not rejected, and never before all steps of the plan are accounted for.
StepAccounted(i) ==
    LET step == run.plan.steps[i]
        s    == run.steps[i]
    IN  /\ s.status = "success" => s.fate = "ok" /\ s.error = 0
        /\ s.status = "failed" /\ s.fate = "ok" => s.evidence = s.error
        /\ s.status = "failed" /\ s.fate = "none" => step.kind = "missing"
        /\ s.fate # "none" => step.kind = "act"
        /\ s.status = "skipped" => s.fate = "none"

StepsAccounted ==
    /\ Len(run.steps) <= Len(run.plan.steps)
    /\ \A i \in DOMAIN run.steps : StepAccounted(i)
    /\ call.op = "replay" /\ answer \in {"ok", "failed"} /\ run.error = 0 =>
           /\ Len(run.steps) = Len(run.plan.steps)
           /\ (answer = "ok") <=> \A i \in DOMAIN run.steps : run.steps[i].status # "failed"

\* Whether a failure of step i stops the replay, from the files' own words: in a
\* plan the step's policy, else the caller's, else the plan's; in a file of lines
\* only the caller's.
StopsAt(i) ==
    LET own == run.plan.steps[i].policy
    IN  IF run.plan.form # "plan" THEN call.policy = "stop"
        ELSE \/ own = "stop"
             \/ own = "none" /\ call.policy = "stop"
             \/ own = "none" /\ call.policy = "none" /\ run.plan.policy = "stop"

Stopped(j) == \E i \in 1 .. j - 1 : run.steps[i].status = "failed" /\ StopsAt(i)

\* After a step has failed under stop_on_error no further action is performed, and
\* without such a failure no enabled action is skipped: the flag of the loop in
\* replay_json_plan() and the policies of the steps before agree.
StopsWhereTold ==
    /\ run.fate # "none" => ~Stopped(At)
    /\ \A j \in DOMAIN run.steps :
          /\ Stopped(j) => run.steps[j].status = "skipped"
          /\ run.steps[j].status = "skipped" =>
                 Stopped(j) \/ run.plan.steps[j].kind \in {"scalar", "disabled"}

\* The numbers in the results of a replay name items that are about that very step,
\* a failure always has a ToolError and an answered replay its ReplayRun, whatever
\* writes failed in between, noticed or not; and the index lists them all, unless
\* the last write of it, and no earlier one, was cut short.
EvidenceOfSteps ==
    /\ \A i \in DOMAIN run.steps :
          LET s == run.steps[i]
          IN  /\ Documented(s.evidence, IF s.status = "failed" THEN {"ReplayStep", "ToolError"}
                                        ELSE {"ReplayStep"}, <<calls, i>>)
              /\ s.status = "failed" => Documented(s.error, {"ToolError"}, <<calls, i>>)
              /\ s.status # "failed" => s.error = 0
    /\ call.op = "replay" /\ answer \in {"ok", "failed"} =>
           HasItem("ReplayRun", <<calls, 0>>)

\* An action of a plan made for another task is performed only if the caller
\* forces it, and then the warning has been written before, and is in the index
\* unless the last write of that was cut short: validate_replay_plan().
MismatchNeedsForce ==
    run.fate # "none" \/ run.steps # <<>> =>
        (run.plan.form = "plan" /\ OtherTask(run.plan) =>
            call.force /\ HasItem("ReplayWarning", <<calls, 0>>))

Acts(plan) == [i \in DOMAIN plan.steps |-> plan.steps[i].act]

\* A replay by name that was answered took one whole group: the one of the last
\* record_stop answered with a success or of a later attempt; if there is no
\* artifact, the saved actions, all those whose save was answered with a success
\* among them.  Failed attempts, discarded recordings, saves in between and ends
\* of sessions do not mix groups or bring old ones back.  Of a name of which a
\* write was cut the replay may find nothing and succeed.
ReplaysWhatWasStored ==
    LET n == call.name
    IN  call.op = "replay" /\ n \in Names \ torn /\ answer \in {"ok", "failed"} =>
            \/ <<Acts(run.plan)>> \in recorded[n]
            \/ /\ <<>> \in recorded[n]
               /\ \E k \in sure[n] .. Len(saved[n]) :
                     Acts(run.plan) = SubSeq(saved[n], 1, k)

\* docs/evidence_model.en.md:128-129, "cross-session reproduction must use a replay
\* plan or JSONL high-level actions": a replay of a whole .jsonl file of actions,
\* as save_action writes it, is carried out.
LinesAreReplayed ==
    /\ call.op = "replay" /\ run.plan.form \in {"lines", "noted"} /\ failures = 0
    /\ \A i \in DOMAIN run.plan.steps : run.plan.steps[i].kind = "act"
    => answer # "error"

===============================================================================
