# A verification of gdb_cli_tools in TLA+

gdb_cli_tools drives GDB for an agent: a daemon (or a `serve` process) starts GDB,
speaks GDB/MI to it over two pipes, performs the actions it is sent, sets probes whose
on-hit actions it performs by itself, records actions into plans and replays them, and
keeps evidence of everything. Paths below are relative to the repository; the program
itself is under `src/src/`.

The project has the core of the program: how one call reaches GDB, what a session does
with actions, probes, replays, recordings and hypotheses, what is left of them in files
when writes fail or sessions end, and how the daemon keeps sessions for its clients. What
is left is in the plan at the end.

## The system

| Component | State | Operations | Interacts with | Hard because | Correct when |
|---|---|---|---|---|---|
| GDB transport, `gdb/gdb_session.cpp`, `gdb/gdb_process.cpp` | token counter, pipes, read buffer, session log | spawn, command, exec_control, interrupt, shutdown | GDB by numbered lines; the dispatcher by calls | GDB and the program run on their own; answers come late, stops at any time | a result is the reply to its own command; every call returns; evidence points at the right lines of the log |
| Action dispatch, `cli/action_dispatch.cpp` | `SessionOutcome` (state, core_mode) | 27 kinds of action behind a state guard | transport, probes, replays, recording | actions nest; each may fail, time out or throw | the state says what the program does; core mode runs nothing; an error is final |
| Probes, `workflow/probe_runtime.cpp` | `probes_by_number` | set, delete, enable, disable, hit, on-hit actions | called back by every run and continue; calls the dispatcher again | the table, GDB and the stop records are three views of one thing, told of each other in turn and with exceptions in between | the table agrees with GDB; hits are attributed and written once |
| Replay, `replay/replay_runtime.cpp`, `replay/replay_plan.cpp` | none of its own | choose and validate a file, perform it, skip after a failure | calls the dispatcher again, may replay itself; writes evidence for every step | failures and exceptions at any depth and between any two writes | no step is performed after a stop_on_error failure; every step is accounted for, with evidence; a plan of another task needs force |
| Recording, `cli/session_executor.cpp`, `replay/record_store.cpp` | `RecordingState`, the `.gar`, `.json` and `.jsonl` of each name | start, append, stop, discard, save | sees every action through the executor; replays read its files | nested actions go through the same executor; a group is several files, each of which may fail; they outlive the session | it holds what the caller was told had succeeded, and a replay gets one whole group |
| Session life cycle, `cli.cpp` | `LiveSession` | start, prelude, core load, first run, end | all of the above | every step may throw half way | no session is half made or half closed |
| Daemon and clients, `cli.cpp` | the map of live sessions, the socket, the pipes of every GDB | list, status, create, action, finish, close, shutdown | clients over a socket, one request per connection; sessions by calls | handlers throw half way, clients and GDBs go away, every write may raise SIGPIPE, pipes are inherited by later GDBs | the map and the GDB processes agree; a name is one session until it is ended; nothing told to a client becomes untrue |
| Evidence store, `evidence/evidence_store.cpp` | counter, list, files | add, index | written by everything | a write that fails uses up a number and may leave the index behind the list, or cut without an error | numbers in results name indexed items about the same thing |
| Hypotheses, `workflow/hypothesis*.cpp` | map of hypotheses, a Markdown file each, an index | create, check, conclude | dispatcher, evidence | three copies, written in turn, of which each may throw or be cut unnoticed, and of which two outlive the session; verdicts read out of GDB's text | the copies agree; the verdict is the documented one |
| Report, JSON and text helpers, MI records, task files | none | pure functions | | | |

There is one thread. `operation_mutex` of a session is recursive and is only ever taken
by it; the coroutines of `async/task.hpp` run to their end when called. The concurrency
is between the session, GDB and the debugged program, between the daemon, its clients
and the GDB processes, and between calls of the same thread that re-enter each other.

## Modules

| Module | What it is |
|---|---|
| `GdbCalls` | Abstract specification of what a session promises of its calls. |
| `GdbSession` | The transport, GDB and the program. Implements `GdbCalls`. |
| `GdbSession_proofs` | Theorems about `GdbSession`: the protocol and the refinement. |
| `GdbSessionRuns_proofs` | More of them: lines and the log, runs and their stops. |
| `ActionSession` | The guard, dispatcher, probes, on-hit actions, replays, recording and session life cycle. |
| `MCActionSession` | Policies, plans and callers for checking `ActionSession`. |
| `ActionSession_proofs` | Theorems about `ActionSession`: types, the state and errors. |
| `ActionSessionHits_proofs` | More of them: recordings, hits and the table of probes. |
| `EvidenceStore` | The numbering, list and index of evidence; extended by the two below. |
| `EvidenceStore_proofs` | Lemmas about it. |
| `Replays` | Recording, saving and replaying, with the files, the steps of a replay and the session's end. |
| `MCReplays` | A name, actions, tasks and hand-written files for checking `Replays`. |
| `Replays_proofs` | Theorems about `Replays`. |
| `Assertions` | What the assertions of a check find in a text, and what the manual says they do. |
| `Hypotheses` | The actions on hypotheses and their three copies. |
| `MCHypotheses` | What GDB prints and callers ask, for checking `Hypotheses`. |
| `Hypotheses_proofs` | Theorems about `Hypotheses` and `Assertions`. |
| `Registry` | Abstract specification of what clients of the daemon may rely on. |
| `Daemon` | The daemon, its clients, the table of sessions, the GDB processes and the files. Implements `Registry`. |
| `MCDaemon` | Two clients and what they ask, for checking `Daemon`. |
| `Daemon_proofs` | Theorems about `Daemon`. |

The modules compose by what they promise each other. `ActionSession` takes a call of GDB
as one step, with the outcomes `GdbCalls` and the properties of `GdbSession` allow.
`Daemon` takes an action as one step, with the states `ActionSession` lets a caller find,
and its fairness rests on `CallsReturn`. `Replays` takes an action as one step that succeeds,
fails or throws, which is all `ActionSession` says of it to a replay; `ActionSession` in
turn takes the writing of evidence and files as part of an action, and `Replays` and
`Hypotheses` extend `EvidenceStore` to take it apart.

### GdbSession

`pc` is where the thread is in the transport: reading the banner (`drain`), free
(`idle`), in the loop of `command_blocking()` (`result`), of `exec_control_blocking()`
(`stop`) or of `interrupt_after_deadline()` (`interrupt`), or in `terminate()`. `call` is
the `CommandResult` being filled, `last` the one returned. `toGdb` and `fromGdb` are the
pipes, in lines. One line read is one step, so every deadline may fall between any two.
A deadline has no clock: it may pass whenever its loop is waiting. A line is a record of
a kind, a token and a value. What GDB does (`Gdb...`, `Inferior...`) is external: it
answers commands in order, refuses what it cannot do, reports an old process gone when a
stopped program is run again, and may die.

A program that does not obey the interrupt in five seconds goes on running and is
reported stopped, which the model has; `src/design.md:602-604` plans to end GDB then.

History: `answered`, the answers GDB has given; `abandoned`, that an interrupt was given
up. The bound is `MaxToken`, the commands a session may send.

### ActionSession

Here a call of GDB is one step with one of the outcomes `GdbSession` shows it to have.
`stack` holds the calls in progress: a `run` or `continue` performing the on-hit actions
of its stop, or a replay performing its plan. `Perform(r, below)` is `dispatch_action()`
with the guard in front and the executor behind; `Direct` calls it for the caller,
`Child` for the next on-hit action or replay step, `Onward` for `continue_after_hit`, and
`Leave` returns from the call on top and writes the hit. `Start`, `LoadCore`,
`InitialRun` and `Close` are the life of the session, line by line the same in
`run_serve()` and in the daemon's `start_live_session()`. Outcomes that only differ in text or in evidence are one.

An exception unwinds to the innermost replay step, or to the caller (`Thrown`). Evidence
and files are written everywhere, and every such write may throw: `Returned` is an action
whose last evidence may not be written, `Cut` the evidence of an on-hit action, a step or
the end of a call. Where the order matters the action has it: `MutateProbe` and `SetProbe`
change GDB, write the evidence and then tell the table, so an exception leaves the table
behind; `run_inferior()` may throw before GDB is asked, and after it has answered
(`Interrupted`), with the state `Running` or already that of the stop. So may the start of
the session, the core load and the initial run, which end it.

`raw_mi` of the caller or a plan passes the guard in every state but `Closed`, core mode
included. It may ask something (`RawAsk`), set a breakpoint (`RawInsert`), change one (`RawMutate`), or
run, move or end the program (`RawResume`), and succeeds whatever GDB answers. A watchpoint
may go whenever the program runs, as its scope ends (`Scoped`).

GDB's own view is `breaks`, `made` (numbers given out), `inferior`. `late` is a number in
an answer that a timed out insertion left unread, which the next insertion would take
for its own. History: `timely` (nothing has timed out), `meddled` (a `raw_mi` has run,
moved or ended the program), `unnoted` (breakpoints GDB has changed without the table being
told), `journal` (what the caller was told had succeeded while recording), `written` and
`lost` (hits). The properties that hold only without one of these say so, and there is
nothing else they except.

Nothing is claimed of core mode being static once it is set: the guard denies the
dynamic kinds by name, `raw_mi` is not one of them, and a property could only repeat the
list. What is claimed, and does not hold, is finding 3.

Abstractions to know of: requests are well formed; replay steps are enabled and have an
action; one `raw_mi` changes one thing; `Starting`, `Loading` and `Finishing` are never
seen between two actions, and `Interrupting` is never set by the code; the commands that
collect evidence after a stop are part of it, since a late answer of theirs has no number
an insertion could take for its own.

### Daemon

`pc` is where `run_daemon()` is: in `accept()`, in a handler, about to write the answer,
returned, or killed. `backlog` is the queue of the socket, `asking` and `present` are the
clients, `sessions` is the map, `gdbs` has every GDB process ever started with the set
`writers` of those that hold the writing end of its input, and `disk` says whose list an
evidence index holds and whose report is in a file. Sessions are known by the number of
their start, so a name that is used again can be told from its earlier session. History:
`shares`, the pairs of starts of which one was live when the other opened its assets.

A handler is one step, as nothing else of the daemon runs meanwhile; where it can fail
half way it has an action for each prefix that leaves something behind: `CreateFailed`
(with and without a GDB), `FinishThrew`, `ActionThrew`. Where it writes to a GDB that is
gone it ends in `Killed`, which is SIGPIPE, so `Close`, `Shutdown` and `Finish` have both
outcomes. `Reply` and `ReplyToNobody` are the write of the answer. `Boot` starts a daemon
again after one was killed or has returned: `unix_listen()` replaces the socket.

`Opens` is what every start that comes far enough does to its assets, whoever uses them:
an empty index, then its own. Nothing asks whether another session is live there, and two
`create` requests that name neither report nor assets share them.

`AfterSpawn` is `GdbProcess::spawn()`: the pipes are made without close-on-exec, so the
new GDB also holds the daemon's ends of all earlier ones, and a GDB whose session the
daemon drops lives until those are gone too.

Abstractions to know of: `Stopped` stands for `Stopped` and `Exited`; a client sends its
request with its connection; the socket's queue is first come, first served; a file that
could be opened is written; a report and the session files count as one write each; there
is one daemon at a time; programs do not keep GDB's pipes open. `MaxStarts` bounds the
sessions started, failed ones included.

### EvidenceStore and Replays

`Added` is `EvidenceStore::add()` or `add_text()` without an exception. Its last write is
the index, and `write_text_file()` looks at nothing after the open: `WriteIndex` may leave
it empty or cut (`indexCut`), and then it lists nothing until the next one, which has all
of the list again. `AddThrew` is one of the four files that cannot be opened: the number is
used up; the item is in the list if it was the index, and then the next index has it.
`Listed` are the items an index that was written to its end must have; the properties about
evidence speak of those. `failures` bounds the writes that fail in one behaviour, noticed
or not.

`files[n]` are the three files of a name, abstracted to what a replay tells apart: the
form, the schema, the task, the policy and the steps. `record_stop` is `RecordStop`,
`WriteArtifact` and `WriteExport`; `save_action` is `Save` and `Rebuild`; a replay is
`Replay`, which chooses and validates the file, perhaps `Reject` or `Warn`, for every
step one of `Skip`, `MissingAction`, `BadAction` and `PerformStep` with `Report`,
`Document` and `Caught`, and `Finish`; `Error` is how any of them reports an exception.
These are the points at which a write may throw, be cut unnoticed (`PutCut`, `WriteIndex`)
or be the last of the session (`Restart`, with another task or the same). One write is one step.
`run` is the `ReplayRunResult`, with `run.fate`, what became of the action at hand.

A file of single actions is the form `lines` or, after a comment, `noted`, because
`replay_action_file()` parses what begins with a brace as one value.

History: `since`, the actions performed since `record_start`; `recorded[n]`, the groups
the artifact of a name may hold, which a success makes one; `saved[n]`, what was appended
to the `.jsonl`, and `sure[n]`, how much of it a save was answered with a success for;
`torn`, names of which a write was cut.

Abstractions to know of: a step is performed without nesting, which `ActionSession` has;
two names with the same slug are one name; `record_stop` replaces an artifact in one
rename, so only a temporary file that is cut after its check leaves a cut artifact; a
`.jsonl` has no comments but in files written by hand; the saved `tags` are left out.

### Assertions and Hypotheses

A text is a sequence of symbols, and `Verdict` is `evaluate_hypothesis_assertion()` over
them, one operator for each of its functions. Next to it is the manual
(`src/docs/agent_actions.en.md:355-395`) over the pieces a text is made of, so that both
can be compared without either knowing of the other. Octal numbers, underscores, plus
signs and texts that hold `0x0` inside a longer address are left out of the symbols.

`hyps`, `md` and `index` are the three copies. `Create` and `Conclude` write the file and
the record, then `Index` the index; a check is `StartCheck`, `Collect` (GDB's answer),
`Evaluate`, `AppendAndRecord` and `Index`. No exception is caught here, so every write may
end the call with what was done before it (`answer = "threw"`). And no write is looked at
after the open: a section may be cut (`Appends`, which leaves `NoCheck` or a conclusion
"none"), a new file may be blank, the index may show nothing, each behind a success.

`Restart` ends the session at any point. The next one has the same assets and knows of no
hypothesis: `found` is what it finds in the files, `indexIs` whether the index is still the
one it found. A check or conclusion without a `create` goes on with the file of the earlier
session, and its index replaces the earlier one. `hypothesis_create` with the id of a
hypothesis that is there replaces it, given out or chosen, and so does one whose number is
given out, which starts at `H0001` again in every session. The sections an earlier session
left name evidence by numbers which the later one gives out again.

Definitions under a comment that begins with `Mutant:` are wrong on purpose. They show
that the properties notice a plausible mistake and no specification uses them.

## Runs

| Run | Bounds | Shows |
|---|---|---|
| `GdbSession` | 3 commands | type, `AnsweredByOwnReply`, `Resynchronised`, `TracedToLog`, `StopIsOwn`, `AnswersInOrder`, `CallsReturn`, and that the transport implements `GdbCalls` |
| `ActionSession` | 3 breakpoints, 3 resumes, 2 calls in progress below a replay; 2 actions of the caller in a live session, 3 in one of a core dump | type, `HitsAccounted`, `RecordsWhatSucceeded`, `ProbesMatchGdb`, `HitsAreTrue`, `StoppedMeansStill`, `ErrorIsFinal` |
| `ActionSessionPrelude`, `...Exited`, `...Rejected` | as above or less | findings 3, 1, 2 |
| `Replays` | 1 name, 2 actions, 2 tasks, 6 files written by hand; 5 calls, the last of them a replay, 1 failed write, 1 end of a session | type, `StepsAccounted`, `StopsWhereTold`, `EvidenceOfSteps`, `MismatchNeedsForce`, `ReplaysWhatWasStored` |
| `ReplaysJsonl` | 3 calls, no failed write | finding 6 |
| `Hypotheses` | 2 hypotheses, 3 calls, 2 failed writes, 1 end of a session; an assumption with every assertion, 14 printed and 12 expected texts | type, `VerdictAsDocumented`, `ChecksDocumented`, `FileAgrees`, `StatusFollowsChecks`, `IndexCurrent` |
| `HypothesesFloat` | one check | finding 7 |
| `Daemon` | 2 clients, 2 names, 2 starts, 2 asset directories, 3 report files | type, `Owned`, `Finished`, `EvidenceKept`, `ForgottenGdbEnds`, and that the daemon implements `Registry` |
| `DaemonFinish`, `DaemonHangUp` | the same with 1 start | findings 4, 5 |

Three commands are what a late answer needs: one that times out, one that reads past it
and one after that; an interrupt takes a number of its own.

Three breakpoints are a breakpoint, a watchpoint and one more of either, so that a stop
without a number has two candidates. The policies delete their own probe and continue, or
run the program again from within a hit and stop at the first failure; one plan replays
itself, another sets a watchpoint and continues. Three resumes let a hit run into a hit
and the program go on once more. Two actions are one that leaves something behind, such as
a `raw_mi`, an enable whose evidence could not be written or a plan that threw, and one
that runs into it; in a core session a recording is started, has an action and is ended.

Two clients are one that is served and one that waits, is gone or asks the other way
round; two starts are two live sessions at once, one that inherits the pipes of the other,
or one session after another under the same name. One client creates the second session
and no more, so that the first may do everything else about both. The sessions of both
names may have the same assets, as two that name none would, or assets of their own; their
reports are their own, which `Finished` needs.

Five calls are a recording with its start, its action and its stop, one call more that is
saved, discarded or stopped again, and the replay of what is left; a replay reads files
that nothing but calls before it wrote, so that the last call is one loses no case. One
failed write may be any write, and a second could only hide the first. The hand-written
files have a step of every kind, a policy of every kind at every level, and every schema
and task.

`Hypotheses` has a few checks, conclusions and creates in any order. Two failures let a
file, the record and the index part twice, and one end of the session has the second one
begin with whatever the first left. What a verdict is does not depend on any of that, so
`MCHypotheses` compares every assertion on every text with the manual in an assumption,
which TLC evaluates.

Deadlock is checked where a system goes on for ever: a session that has ended stutters by
an action of its own (`Ended`). `Replays` and `Hypotheses` stop when their callers have
sent what the bounds allow.

Fairness is used by `CallsReturn` and `ForgottenGdbEnds`. The session's own loop is a
thread that is never blocked for good, because each wait is a `select()` with a timeout,
so its steps are weakly fair; GDB is assumed to end once it is told to by a signal.
Nothing is assumed there of the program, nor of GDB answering. The daemon's steps are
weakly fair because a handler is made of such calls, `accept()` returns when there is a
client and a client sends its line. A GDB that runs no program reads its input and sees
it end. That a program left running stops or exits at some time is an assumption about
programs, which only `ForgottenGdbEnds` needs: a GDB in the middle of `run` reads nothing.

## Findings

Each is the counterexample of a run, against a text of the repository.

1. A second `run` that stops of a signal leaves the state `Exited`, since the record of
   the replaced process sets a flag that stays; `src/design.md:354`. No evidence can be
   taken of the stopped program until it is run again.
2. `raw_mi` and `probe_list` succeed whatever GDB says, and are recorded;
   `src/docs/agent_actions.en.md:152-153`.
3. The plan of `--replay-before-run` is performed before core mode is set, and may run
   the program of a core dump; `src/docs/agent_actions.en.md:310-315`.
4. The daemon's `finish` asks no state, so it also ends a session that an exception has
   left `Running`; `src/docs/agent_actions.en.md:324-325`. It is the only way to a report
   from there, since no action leaves `Running`.
5. A client that goes away before it is answered, or a GDB that has died before a `close`,
   ends the daemon by SIGPIPE, and with it every live session;
   `src/docs/agent_actions.en.md:8-9` and `:27-30`.
6. A `.jsonl` of two or more actions, which is what `save_action` writes, cannot be
   replayed: it begins with a brace, is parsed as one JSON value and refused for its second
   line; `src/docs/evidence_model.en.md:128-129`, `src/docs/agent_actions.en.md:95`.
7. A floating-point value is read as the integers before and after its point, so 5.5 passes
   `equals_number` 5; `src/docs/agent_actions.en.md:387-391`,
   `src/docs/known_limitations.md:86`.

Two sentences of the manual hold only while no write fails, and `EvidenceOfSteps` says
what holds instead: `src/docs/agent_actions.en.md:300-302` and
`src/docs/evidence_model.en.md:131-135` give every replay a `ReplayRun` and every step a
`ReplayStep`. A step that throws or has no action has only a `ToolError`, and a replay
that is aborted by an exception has no `ReplayRun`; nor has an index that was cut short.

## Proofs

Every invariant a passing run checks is a theorem, for every value of the constants
(two of them under a hypothesis about the requests or texts, given below), and so are the
action properties and both refinements. The runs came first: an inductive invariant was
checked by TLC before it was proved.

`GdbSession_proofs` proves, for any number of commands, `TypeOK`, `AnsweredByOwnReply`,
`Resynchronised`, `AnswersInOrder` and the refinement of `GdbCalls`. None of these is
inductive alone: that the class of a result was given to its own command needs that
every result in the pipe was given to the command of its number, that numbers in the
pipes are never above the counter and grow along them, and that the call in progress is
the last number but for its interrupt. That conjunction is proved inductive action by
action, and the properties follow from it.

`GdbSessionRuns_proofs` builds on it. `TracedToLog` is inductive with the same statement
of the call in progress, since lines are kept as they are logged. `StopIsOwn` is not: it
needs to know of every run that was sent where it is now. Between calls no run is waiting
in GDB's input, going on or reported (`Quiet`); in the call that made it, it is exactly one
of the three, and the stop in the pipe is the only one and its own (`OwnRun`). That GDB
answers a command once (`OneAnswer`) tells a refused run from one that goes on. All of it
ends with the first run that is given up, as the property does.

`ActionSession_proofs` proves, for any policies, plans, requests and bounds, `TypeOK`,
`ErrorIsFinal` (from the type invariant, since nested actions come from frames of the
right type) and `StoppedMeansStill` (inductive with: before the start there is neither a
program nor a call in progress). They hold at any depth of nesting, and every result of
`exec_control()` is one of a few cases, whether it is returned or an exception follows it.

`ActionSessionHits_proofs` has the bookkeeping. `RecordsWhatSucceeded` is about an order:
an increasing enumeration of the successes in the journal goes along and is extended by
each. The properties of the table need what a step does to it and to GDB, of which there
are four kinds
(`PerformTables`): nothing is entered and what changes in GDB is noted as unnoted
(`Behind`), a `raw_mi` sets a breakpoint (`RawInserted`), a change of a probe is noted in
both (`Noted`), or a probe is set. `TableInv` follows: no probe is in the table under a
number GDB has not given out or under that of an answer still to be read.
`ProbesMatchGdb` is inductive with it, once per probe. `HitsAccounted` counts, for each
probe, the entries of the stack still to be written: a lemma says what pushing, popping and
changing an entry does to the count, and another that unwinding to a replay step loses
exactly those above it; a replay is never taken for a hit (`CallsInv`). `HitsAreTrue` is a
property of the step that counts a hit: a stop that does not name its watchpoint is
attributed to the only one the table calls active, which is right because by
`ProbesMatchGdb` the one that stopped the program is active in the table, if it is in it and
was not armed behind its back.

`Daemon_proofs` proves, for any clients, requests and number of starts, `TypeOK`, `Owned`
and the refinement of `Registry`. The type of the daemon's control needs that nobody waits
in two places (`Waiting`); `Owned` needs that a start not yet made belongs to no session;
the last step of the daemon maps to the death of the registry only if no session is left
when it has been told to shut down (`Over`). Handlers are proved in two groups: those that
end in a response and those that end in `Killed`.

Its two other properties are about files, which no handler refuses because another session
uses them. `EvidenceKept` is proved of any requests: it needs that every two live sessions
with the same assets are a pair of `shares` (`Paired`), which a start makes true as it opens
them. `Finished` is proved of clients that give sessions of different names reports of their
own (`FilesApart`); without that the code overwrites the one with the other, and a client
was told of a report that is there no more. `MCDaemon` assumes it of its requests, so TLC
evaluates it. It needs, of a finish a client was told of or is about to be
(`Reported`), that whichever live session may still write to its report started later
(`Settled`), which holds because starts are given in turn (`InTurn`) and a name is one
session at a time.

`Replays_proofs` proves, for any names, actions, tasks, hand-written files and numbers of
calls, failures and restarts, all six properties of its run. `TypeOK` and `Placed` (the
files a call is about to write are those of its name) come first. `StepsAccounted` needs
`FateInv`, which ties the fate of the action at hand to where the replay is;
`StopsWhereTold` needs that the flag of the loop is exactly that an earlier step failed
under a stop (`StopInv`); `MismatchNeedsForce` that a replay which got past validation was
warned (`ForceInv`); `EvidenceOfSteps` that the items named are among those listed
(`EvidenceInv`), which only grow while a session lasts, since every index has all of the
list (`AddedKeeps`); `ReplaysWhatWasStored` that the files of a name hold what its history
says, also between the two writes of `record_stop` (`StoredInv`), and that a replay under way keeps what it took (`SourceInv`).

`Hypotheses_proofs` proves all its invariants. `FileAgrees` is inductive once it is said of
one hypothesis with what was found in its file (`ChecksAgree`, `SaidAgree`): a section is
appended where its check is recorded, whole or with a failure behind it. `IndexCurrent`
needs that an index that is behind was found, with nothing known yet, or has a failure or a
write before it (`IndexKept`), `ChecksDocumented` that the check being made already has its
evidence (`CheckInv`), of which the index has an earlier state. `OppositesExclude` is about
`Assertions` alone: a comparison and its negation agree on what can be evaluated.

`VerdictsAgree` is about `Assertions` alone too, and says for every assertion and texts of
any number of pieces that the verdict read off the text is the one the manual gives for
its meaning; `VerdictAsDocumented` follows for every check in a session. Its argument:
no match of an expression reaches over the space between two pieces, and none begins or
ends because of what is beyond it, so that what is found in a text is what is found in its
pieces (the `Spaced` lemmas, `PrintedShows`); the text of all pieces then shows what they
mean by induction on their number (`RenderedShows`). The induction is over a set of
naturals, from the well-foundedness of `<`, since the induction theorems of the library
take an operator. The theorem is about the texts the manual describes (`Plain`,
`PlainBounds`, `PlainTexts`): no floating-point value, which is finding 7; no integer
beyond `long long` next to another integer, since the expressions pass over the first and
the manual does not say so; a `nullptr` as GDB prints it, after an `=`; and nothing after
the bounds of `between`, which the code would pass over. `MCHypotheses` assumes it of the
texts of its run, so TLC evaluates it there.

The assumptions are those of the constants: bounds are natural numbers, requests are
requests, policies have no `raw_mi`, which the parser refuses, the prelude is a plan, a
`create` names a report, there is a session name, hand-written files are files, no name,
action or task is one of the markers for none, and a conclusion says something; and, for
the two theorems that state them, `FilesApart` and `PlainTexts`.

Model-checked only: `CallsReturn` and `ForgottenGdbEnds`, which are liveness and out of the
proof system's reach. The properties of the runs that expect a violation do not hold.

## Not modelled

- The report and the views, summaries and truncation of evidence are text made from
  lists; the JSON and string functions go character by character and have no state.
- The MI parser (`gdb/mi_utils.cpp`) and the task file (`task/debug_task.cpp`) are pure;
  what the models take of them is which records and which tasks there are.
- The commands of the initial evidence only add evidence.
- Two daemons on one socket, GDBs that ignore SIGTERM, and a C++ stack that overflows in
  nested replays have a hazard in `PROJECT.json` but no property.

## Plan

1. *Done.* `GdbSession`, `GdbCalls` and their proofs; `ActionSession` and its proofs.
2. *Done.* `Daemon`, `Registry` and their proofs.
3. *Done.* `EvidenceStore`, `Replays`, `Assertions`, `Hypotheses` and their proofs.
4. *Done.* Proofs of the remaining invariants: runs, stops and the log, recordings, hits
   and the table of probes, the files of the daemon, and the verdicts.
5. Pure functions against reference definitions over short inputs: `read_text_delta()`,
   the splitting of arguments, `field_value()`, `truncate_summary()`.
6. An abstract store of groups that `Replays` implements.
