----------------------------- MODULE Replays_proofs -----------------------------
(***************************************************************************)
(* Proofs about Replays, for any names, actions, tasks, files and bounds:  *)
(* the type invariant, that the steps of a replay are accounted for, that  *)
(* it stops where it is told to, that a plan of another task is replayed   *)
(* only when forced to, that every result names its evidence, and that a   *)
(* name replays what was stored under it.                                  *)
(***************************************************************************)
EXTENDS Replays, EvidenceStore_proofs, SequenceTheorems, TLAPS

-------------------------------------------------------------------------------
(* The type invariant *)

Calling == [op : {"none", "perform", "record_start", "record_discard",
                  "record_stop", "save_action", "replay"},
            name : Names \cup {"none"}, act : Actions \cup {"none"},
            policy : Policies, force : BOOLEAN]

Recording == [active : BOOLEAN, name : Names \cup {"none"}, policy : Policies, acts : Group]

Running == [plan : File, steps : Seq(Result), fate : Fates, error : Nat, stop : BOOLEAN]

Stored == [gar : File, json : File, jsonl : File]

\* The variables of the store, those of the call, and its history.
StoreType ==
    /\ task \in Tasks
    /\ recording \in Recording
    /\ files \in [Names -> Stored]
    /\ since \in Group
    /\ recorded \in [Names -> SUBSET Seq(Group)]
    /\ saved \in [Names -> Group]
    /\ sure \in [Names -> Nat]
    /\ torn \subseteq Names

CallType ==
    /\ pc \in Places
    /\ call \in Calling
    /\ answer \in {"none", "ok", "failed", "error", "threw"}
    /\ calls \in Nat /\ replays \in Nat /\ restarts \in Nat

LEMMA TypeParts == TypeOK <=> EvidenceTypeOK /\ StoreType /\ CallType /\ run \in Running
BY DEF TypeOK, StoreType, CallType, Running, Recording, Stored, Calling

LEMMA AbsentType == Absent \in File
<1>1. <<>> \in Seq(Step)
  OBVIOUS
<1> QED  BY <1>1 DEF Absent, File, Policies, Valid

LEMMA CutType == Cut \subseteq File
<1>1. \A f \in {"blank", "cut"} :
          [Absent EXCEPT !.form = f] =
              [form |-> f, schema |-> "none", task |-> "none", policy |-> "none",
               steps |-> <<>>]
  BY DEF Absent
<1>2. <<>> \in Seq(Step)
  OBVIOUS
<1> QED  BY <1>1, <1>2 DEF Cut, File, Policies, Valid

LEMMA KeptType == \A a \in Actions : Kept(a) \in Step
BY DEF Kept, Step, Policies

LEMMA BadType == Bad \in Step
BY DEF Bad, Step, Policies

LEMMA PlanType ==
    ASSUME task \in Tasks, NEW steps \in Seq(Step), NEW p \in Policies
    PROVE  PlanOf(steps, p) \in File
BY DEF PlanOf, File

LEMMA LinesType ==
    ASSUME NEW steps \in Seq(Step)
    PROVE  Lines(steps) \in File
<1>1. Lines(steps) = [form |-> "lines", schema |-> "none", task |-> "none",
                      policy |-> "none", steps |-> steps]
  <2>1. [Absent EXCEPT !.form = "lines"] =
            [form |-> "lines", schema |-> "none", task |-> "none", policy |-> "none",
             steps |-> <<>>]
    BY DEF Absent
  <2>2. Lines(steps) = [[Absent EXCEPT !.form = "lines"] EXCEPT !.steps = steps]
    BY DEF Lines
  <2> QED  BY <2>1, <2>2
<1> QED  BY <1>1 DEF File, Policies

LEMMA StepsType ==
    ASSUME NEW acts \in Group
    PROVE  Steps(acts) \in Seq(Step)
<1>1. DOMAIN acts = 1 .. Len(acts) /\ Len(acts) \in Nat
      /\ \A i \in DOMAIN acts : acts[i] \in Actions
  BY DEF Group
<1>2. \A i \in DOMAIN acts : Kept(acts[i]) \in Step
  BY <1>1, KeptType
<1> QED  BY <1>1, <1>2 DEF Steps

LEMMA NoCallType == NoCall \in Calling
BY DEF NoCall, CallOf, Calling, Policies

LEMMA NoRunType == NoRun \in Running
<1>1. <<>> \in Seq(Result)
  OBVIOUS
<1> QED  BY <1>1, AbsentType DEF NoRun, Running, Fates

LEMMA NoRecordingType == NoRecording \in Recording
BY DEF NoRecording, Recording, Policies, Group

LEMMA CallsType ==
    ASSUME CallType, NEW c \in Calling, NEW to \in Places,
           NEW a \in {"none", "ok", "failed", "error", "threw"}, Calls(c, to, a)
    PROVE  CallType'
BY DEF Calls, CallType

LEMMA GoesType ==
    ASSUME CallType, NEW to \in Places, Goes(to)
    PROVE  CallType'
BY DEF Goes, CallType

LEMMA AnswersType ==
    ASSUME CallType, NEW a \in {"none", "ok", "failed", "error", "threw"}, Answers(a)
    PROVE  CallType'
BY DEF Answers, CallType, Places

LEMMA FailsType ==
    ASSUME EvidenceTypeOK, UNCHANGED <<counter, items, indexed, indexCut>>,
           Fails \/ UNCHANGED failures
    PROVE  EvidenceTypeOK'
BY DEF EvidenceTypeOK, Fails

\* All that a step of the replay leaves of the store.
LEMMA StoreKept == StoreType /\ UNCHANGED storeVars => StoreType'
BY DEF StoreType, storeVars, historyVars

LEMMA InitType == Init => TypeOK
<1> SUFFICES ASSUME Init PROVE TypeOK
  OBVIOUS
<1>1. EvidenceTypeOK
  BY EvidenceInitType DEF Init
<1>2. <<>> \in Group /\ {<<>>} \in SUBSET Seq(Group)
  BY DEF Group
<1>3. StoreType
  BY <1>2, AbsentType, NoRecordingType DEF Init, StoreType, Stored
<1>4. CallType
  BY NoCallType DEF Init, CallType, Places
<1> QED  BY <1>1, <1>3, <1>4, NoRunType, TypeParts DEF Init

LEMMA PutType ==
    ASSUME files \in [Names -> Stored], NEW n, NEW which \in {"gar", "json", "jsonl"},
           NEW f \in File, Put(n, which, f)
    PROVE  files' \in [Names -> Stored]
<1>1. \A s \in Stored : [s EXCEPT ![which] = f] \in Stored
  BY DEF Stored
<1> QED  BY <1>1 DEF Put

LEMMA PutCutType ==
    ASSUME files \in [Names -> Stored], torn \subseteq Names,
           NEW n \in Names, NEW which \in {"gar", "json", "jsonl"}, PutCut(n, which)
    PROVE  files' \in [Names -> Stored] /\ torn' \subseteq Names
<1>1. PICK f \in Cut : Put(n, which, f)
  BY DEF PutCut
<1> QED  BY <1>1, CutType, PutType DEF PutCut

\* The step leaves the evidence types, and the step of the call its types.
Keeps == EvidenceTypeOK' /\ StoreType' /\ CallType' /\ run' \in Running

LEMMA KeepsType == Keeps => TypeOK'
BY DEF Keeps, TypeOK, StoreType, CallType, Running, Recording, Stored, Calling

LEMMA CallerType ==
    ASSUME TypeOK, Caller
    PROVE  Keeps
<1> USE DEF evidenceVars, storeVars, historyVars
<1>0. EvidenceTypeOK /\ StoreType /\ CallType /\ run \in Running
  BY TypeParts
<1>1. ASSUME NEW op \in {"perform", "record_start", "record_discard", "record_stop",
                         "save_action", "replay"},
             NEW n \in Names \cup {"none"}, NEW a \in Actions \cup {"none"},
             NEW p \in Policies, NEW f \in BOOLEAN
      PROVE  [op |-> op, name |-> n, act |-> a, policy |-> p, force |-> f] \in Calling
  BY DEF Calling
<1>2. Valid \subseteq Policies /\ "none" \in Policies
  BY DEF Valid, Policies
<1>3. \A op \in {"perform", "record_start", "record_discard", "record_stop", "save_action"},
        n \in Names \cup {"none"}, a \in Actions \cup {"none"}, p \in Policies :
            CallOf(op, n, a, p) \in Calling
  BY DEF CallOf, Calling
<1>4. ASSUME NEW a \in Performed, Perform(a) PROVE Keeps
  <2>3. CallOf("perform", "none", a, "none") \in Calling /\ a \in Actions
    BY <1>2, <1>3, ReplaysAssumption
  <2>5. CallType'
    BY <1>0, <1>4, <2>3, CallsType DEF Perform, Places
  <2>6. Append(since, a) \in Group /\ Append(recording.acts, a) \in Group
    BY <1>0, <2>3 DEF StoreType, Recording, Group
  <2>7. [recording EXCEPT !.acts = Append(recording.acts, a)] \in Recording
    BY <1>0, <2>6 DEF StoreType, Recording
  <2>8. StoreType'
    BY <1>0, <1>4, <2>6, <2>7 DEF Perform, StoreType
  <2> QED  BY <1>0, <1>4, <2>5, <2>8, NoRunType, FailsType DEF Perform, Keeps
<1>5. ASSUME NEW n \in Names, NEW p \in Valid, RecordStart(n, p) PROVE Keeps
  <2>4. CallOf("record_start", n, "none", p) \in Calling
    BY <1>2, <1>3
  <2>6. CallType'
    BY <1>0, <1>5, <2>4, CallsType DEF RecordStart, Places
  <2>7. [active |-> TRUE, name |-> n, policy |-> p, acts |-> <<>>] \in Recording
    BY <1>2 DEF Recording, Group
  <2>8. <<>> \in Group
    BY DEF Group
  <2>9. StoreType'
    BY <1>0, <1>5, <2>7, <2>8 DEF RecordStart, StoreType
  <2> QED  BY <1>0, <1>5, <2>6, <2>9, NoRunType, FailsType DEF RecordStart, Keeps
<1>6. ASSUME RecordDiscard \/ RecordStop PROVE Keeps
  <2>1. \A op \in {"record_discard", "record_stop"} :
            CallOf(op, "none", "none", "none") \in Calling
    BY <1>2, <1>3
  <2>2. CallType'
    BY <1>0, <1>6, <2>1, CallsType DEF RecordDiscard, RecordStop, Places
  <2>3. StoreType'
    BY <1>0, <1>6, NoRecordingType DEF RecordDiscard, RecordStop, StoreType
  <2> QED  BY <1>0, <1>6, <2>2, <2>3, NoRunType, FailsType
           DEF RecordDiscard, RecordStop, Keeps
<1>7. ASSUME NEW n \in Names, NEW a \in Savable, NEW p \in Valid,
             Save(n, a, p) \/ SaveRefused(n, a, p)
      PROVE  Keeps
  <2>5. CallOf("save_action", n, a, p) \in Calling /\ a \in Actions
    BY <1>2, <1>3, ReplaysAssumption
  <2>7. CallType'
    BY <1>0, <1>7, <2>5, CallsType DEF Save, SaveRefused, Places
  <2>8. CASE SaveRefused(n, a, p)
    BY <1>0, <2>7, <2>8, NoRunType, FailsType, StoreKept DEF SaveRefused, Keeps
  <2>9. CASE Save(n, a, p)
    <3> DEFINE steps == files[n].jsonl.steps
    <3>1. steps \in Seq(Step)
      BY <1>0 DEF StoreType, Stored, File
    <3>2. /\ Lines(Appended(steps, Kept(a))) \in File
          /\ Lines(steps) \in File /\ Lines(Appended(steps, Bad)) \in File
      <4>1. \A st \in Step : Appended(steps, st) \in Seq(Step)
        BY <3>1 DEF Appended
      <4> QED  BY <2>5, <3>1, <4>1, KeptType, BadType, LinesType
    <3> DEFINE f1 == Lines(Appended(steps, Kept(a)))
               f2 == Lines(steps)
               f3 == Lines(Appended(steps, Bad))
    <3>3. Put(n, "jsonl", f1) \/ Put(n, "jsonl", f2) \/ Put(n, "jsonl", f3)
      BY <2>9 DEF Save
    <3> HIDE DEF f1, f2, f3
    <3>4. f1 \in File /\ f2 \in File /\ f3 \in File
      BY <3>2 DEF f1, f2, f3
    <3>5. files' \in [Names -> Stored]
      BY <1>0, <3>3, <3>4, PutType DEF StoreType
    <3>6. Append(saved[n], a) \in Group
      BY <1>0, <2>5 DEF StoreType, Group
    <3>7. saved' \in [Names -> Group] /\ torn' \subseteq Names
      BY <1>0, <2>9, <3>6 DEF Save, StoreType
    <3>8. StoreType'
      BY <1>0, <2>9, <3>5, <3>7 DEF Save, StoreType
    <3>9. EvidenceTypeOK'
      BY <1>0, <2>9, FailsType DEF Save
    <3> QED  BY <2>7, <2>9, <3>8, <3>9, NoRunType DEF Save, Keeps
  <2> QED  BY <1>7, <2>8, <2>9
<1>8. ASSUME NEW n \in Names \cup {"none"}, NEW file \in File, NEW force \in BOOLEAN,
             NEW p \in Policies, Replay(n, file, force, p)
      PROVE  Keeps
  <2>1. [op |-> "replay", name |-> n, act |-> "none", policy |-> p, force |-> force] \in Calling
    BY <1>1
  <2>2. PICK to \in Places :
            Calls([op |-> "replay", name |-> n, act |-> "none", policy |-> p,
                   force |-> force], to, "none")
    <3>0. Several(file) => file.form = "lines"
      BY DEF Several
    <3>1. CASE file.form \in {"absent", "cut"} \/ Several(file)
      BY <1>8, <3>1 DEF Replay, Places
    <3>2. CASE file.form = "blank"
      BY <1>8, <3>0, <3>2 DEF Replay, Places
    <3>3. CASE file.form \in {"lines", "noted"} /\ ~Several(file)
      BY <1>8, <3>3 DEF Replay, Places
    <3>4. CASE file.form = "plan" /\ Rejected(file, force)
      BY <1>8, <3>0, <3>4 DEF Replay, Places
    <3>5. CASE file.form = "plan" /\ ~Rejected(file, force) /\ Warned(file, force)
      BY <1>8, <3>0, <3>5 DEF Replay, Places
    <3>6. CASE file.form = "plan" /\ ~Rejected(file, force) /\ ~Warned(file, force)
      BY <1>8, <3>0, <3>6 DEF Replay, Places
    <3> QED  BY <3>1, <3>2, <3>3, <3>4, <3>5, <3>6 DEF File
  <2>3. CallType'
    BY <1>0, <2>1, <2>2, CallsType
  <2>4. [NoRun EXCEPT !.plan = file] \in Running
    BY NoRunType DEF Running
  <2> QED  BY <1>0, <1>8, <2>3, <2>4, FailsType, StoreKept DEF Replay, Keeps
<1>9. \A n \in Names : SourceOf(n) \in File /\ files[n].jsonl \in File
  BY <1>0 DEF SourceOf, StoreType, Stored
<1> QED  BY <1>2, <1>4, <1>5, <1>6, <1>7, <1>8, <1>9, HandPlansAssumption DEF Caller

LEMMA EndedType ==
    ASSUME run \in Running, NEW status \in {"success", "failed", "skipped"},
           NEW n \in Nat, NEW e \in Nat, Ended(status, n, e)
    PROVE  run' \in Running
<1> DEFINE res == [status |-> status, fate |-> run.fate, evidence |-> n, error |-> e]
<1>1. res \in Result
  BY DEF Running, Result
<1>2. Append(run.steps, res) \in Seq(Result)
  BY <1>1 DEF Running
<1>3. (run.stop \/ (status = "failed" /\ StepPolicy = "stop")) \in BOOLEAN
  BY DEF Running
<1>4. run' = [plan |-> run.plan, steps |-> Append(run.steps, res), fate |-> "none",
              error |-> 0, stop |-> run.stop \/ (status = "failed" /\ StepPolicy = "stop")]
  BY DEF Ended
<1> QED  BY <1>2, <1>3, <1>4 DEF Running, Fates

\* An item is added or its write throws, and the call goes on or is answered.
LEMMA EvidenceStepType ==
    ASSUME EvidenceTypeOK, NEW kind, NEW of, Added(kind, of) \/ AddThrew(kind, of)
    PROVE  EvidenceTypeOK' /\ counter' \in Nat
BY AddedType, AddThrewType

\* A recording has a name, and what is written belongs to the call in progress.
Placed ==
    /\ recording.active => recording.name \in Names
    /\ pc \in {"artifact", "export"} => recording.active /\ call.op = "record_stop"
    /\ pc = "rebuild" => call.op = "save_action" /\ call.name \in Names

LEMMA WriteType ==
    ASSUME TypeOK, Placed, WriteArtifact \/ WriteExport \/ Rebuild
    PROVE  Keeps
<1>0. EvidenceTypeOK /\ StoreType /\ CallType /\ run \in Running
  BY TypeParts
<1>1. EvidenceTypeOK' /\ run' \in Running
  BY <1>0, FailsType
     DEF WriteArtifact, WriteExport, Rebuild, Throws, PutCut, storeVars, historyVars
<1>2. CallType'
  <2>1. {"export", "error"} \subseteq Places
    BY DEF Places
  <2> QED  BY <1>0, <2>1, GoesType, AnswersType DEF WriteArtifact, WriteExport, Rebuild, Throws
<1>3. ASSUME Throws PROVE StoreType'
  BY <1>0, <1>3, StoreKept DEF Throws
<1>4. ASSUME WriteArtifact PROVE StoreType'
  <2> DEFINE n == recording.name
  <2>1. Recorded \in File
    BY <1>0, StepsType, PlanType DEF Recorded, StoreType, Recording
  <2>2. n \in Names
    BY <1>4 DEF WriteArtifact, Placed
  <2>3. <<since>> \in Seq(Group)
    BY <1>0 DEF StoreType
  <2>4. recorded[n] \cup {<<since>>} \in SUBSET Seq(Group)
    BY <1>0, <2>2, <2>3 DEF StoreType
  <2>5. CASE PutCut(n, "gar") /\ UNCHANGED <<task, recording, since, recorded, saved, sure>>
    BY <1>0, <2>2, <2>5, PutCutType DEF StoreType
  <2>6. CASE /\ Put(n, "gar", Recorded)
             /\ recorded' = [recorded EXCEPT ![n] = @ \cup {<<since>>}]
             /\ UNCHANGED <<failures, task, recording, since, saved, sure, torn>>
    <3>1. files' \in [Names -> Stored]
      BY <1>0, <2>1, <2>6, PutType DEF StoreType
    <3>2. recorded' \in [Names -> SUBSET Seq(Group)]
      BY <1>0, <2>4, <2>6 DEF StoreType
    <3> QED  BY <1>0, <2>6, <3>1, <3>2 DEF StoreType
  <2> QED  BY <1>3, <1>4, <2>5, <2>6 DEF WriteArtifact
<1>5. ASSUME WriteExport PROVE StoreType'
  <2> DEFINE n == recording.name
  <2>1. Recorded \in File
    BY <1>0, StepsType, PlanType DEF Recorded, StoreType, Recording
  <2>2. n \in Names
    BY <1>5 DEF WriteExport, Placed
  <2>3. CASE ~Throws
    <3>1. files' \in [Names -> Stored] /\ torn' \subseteq Names
      BY <1>0, <1>5, <2>1, <2>2, <2>3, PutType, PutCutType DEF WriteExport, StoreType
    <3> DEFINE over == [recording EXCEPT !.active = FALSE]
    <3>2. over \in Recording
      BY <1>0 DEF StoreType, Recording
    <3>3. [over EXCEPT !.acts = <<>>] \in Recording
      <4>1. <<>> \in Group
        BY DEF Group
      <4>2. \A r \in Recording : [r EXCEPT !.acts = <<>>] \in Recording
        BY <4>1 DEF Recording
      <4> HIDE DEF over
      <4> QED  BY <3>2, <4>2
    <3>4. {<<since>>} \in SUBSET Seq(Group)
      BY <1>0 DEF StoreType
    <3>5. recorded' \in [Names -> SUBSET Seq(Group)]
      BY <1>0, <1>5, <2>3, <3>4 DEF WriteExport, StoreType
    <3>6. recording' \in Recording
      BY <1>5, <2>3, <3>3 DEF WriteExport
    <3> QED  BY <1>0, <1>5, <2>3, <3>1, <3>5, <3>6 DEF WriteExport, StoreType
  <2> QED  BY <1>3, <2>3
<1>6. ASSUME Rebuild PROVE StoreType'
  <2> DEFINE n     == call.name
             lines == files[n].jsonl.steps
  <2>1. n \in Names
    BY <1>6 DEF Rebuild, Placed
  <2>2. lines \in Seq(Step) /\ call.policy \in Policies
    BY <1>0, <2>1 DEF StoreType, CallType, Calling, Stored, File
  <2>3. PlanOf(lines, call.policy) \in File
    BY <1>0, <2>2, PlanType DEF StoreType
  <2>4. CASE UNCHANGED storeVars
    BY <1>0, <2>4, StoreKept
  <2>5. CASE ~UNCHANGED storeVars
    <3>1. \/ Put(n, "json", PlanOf(lines, call.policy)) /\ UNCHANGED <<failures, torn>>
          \/ PutCut(n, "json")
      BY <1>6, <2>5 DEF Rebuild, Throws
    <3> HIDE DEF lines
    <3>2. files' \in [Names -> Stored] /\ torn' \subseteq Names
      BY <1>0, <2>1, <2>3, <3>1, PutType, PutCutType DEF StoreType
    <3>3. Len(saved[n]) \in Nat
      BY <1>0, <2>1 DEF StoreType, Group
    <3>4. /\ sure' = [sure EXCEPT ![n] = Len(saved[n])]
          /\ UNCHANGED <<task, recording, since, recorded, saved>>
      BY <1>6, <2>5 DEF Rebuild, Throws
    <3> QED  BY <1>0, <3>2, <3>3, <3>4 DEF StoreType
  <2> QED  BY <2>4, <2>5
<1> QED  BY <1>1, <1>2, <1>4, <1>5, <1>6 DEF Keeps

\* A step of a replay, and the end of any call: the store stays as it is.
LEMMA HandlerType ==
    ASSUME TypeOK,
           \/ Reject \/ Warn \/ Skip \/ MissingAction \/ BadAction
           \/ \E fate \in Fates \ {"none"} : PerformStep(fate)
           \/ Report \/ Document \/ Caught \/ Finish \/ Error
    PROVE  Keeps
<1>0. EvidenceTypeOK /\ StoreType /\ CallType /\ run \in Running
  BY TypeParts
<1>1. UNCHANGED storeVars
  BY DEF Reject, Warn, Skip, MissingAction, BadAction, PerformStep, Report, Document,
         Caught, Finish, Error
<1>2. StoreType'
  BY <1>0, <1>1, StoreKept
<1>3. CallType'
  <2>1. {"step", "finish", "error", "report", "document", "caught"} \subseteq Places
    BY DEF Places
  <2>2. \A fate \in Fates \ {"none"} : PerformStep(fate) =>
            Goes("document") \/ Goes("report") \/ Goes("caught")
    BY DEF PerformStep, Fates
  <2> QED  BY <1>0, <2>1, <2>2, GoesType, AnswersType
           DEF Reject, Warn, Skip, MissingAction, BadAction, Report, Document, Caught,
               Finish, Error, Writes
<1>4. EvidenceTypeOK'
  <2>1. CASE UNCHANGED evidenceVars
    BY <1>0, <2>1, FailsType DEF evidenceVars
  <2>2. CASE ~UNCHANGED evidenceVars
    BY <1>0, <2>2, AddedType, AddThrewType
       DEF Reject, Warn, Skip, MissingAction, BadAction, PerformStep, Report, Document,
           Caught, Finish, Error, Writes
  <2> QED  BY <2>1, <2>2
<1>5. counter' \in Nat /\ run.error \in Nat
  BY <1>0, <1>4 DEF EvidenceTypeOK, Running
<1>6. run' \in Running
  <2>1. CASE UNCHANGED run
    BY <1>0, <2>1
  <2>2. CASE Reject \/ Report
    BY <1>0, <1>5, <2>2 DEF Reject, Report, Running
  <2>3. ASSUME NEW fate \in Fates, PerformStep(fate) PROVE run' \in Running
    BY <1>0, <2>3 DEF PerformStep, Running
  <2>4. ASSUME NEW status \in {"success", "failed", "skipped"}, NEW n, n = counter',
               NEW e \in {0, n, run.error}, Ended(status, n, e)
        PROVE  run' \in Running
    BY <1>0, <1>5, <2>4, EndedType
  <2>5. CASE Skip \/ MissingAction \/ Caught
    BY <2>1, <2>4, <2>5 DEF Skip, MissingAction, Caught
  <2>6. CASE Document
    BY <2>1, <2>4, <2>6 DEF Document
  <2> QED  BY <2>1, <2>2, <2>3, <2>5, <2>6 DEF Warn, BadAction, Finish, Error
<1> QED  BY <1>2, <1>3, <1>4, <1>6 DEF Keeps

LEMMA PlacedStep == TypeOK /\ Placed /\ [Next]_vars => Placed'
<1> SUFFICES ASSUME TypeOK, Placed, [Next]_vars PROVE Placed'
  OBVIOUS
<1> USE DEF Calls, Goes, Answers, storeVars, historyVars
<1>1. ASSUME NEW a, Perform(a) PROVE Placed'
  <2>1. recording'.active = recording.active /\ recording'.name = recording.name
    BY <1>1 DEF Perform, TypeOK
  <2> QED  BY <1>1, <2>1 DEF Perform, Placed
<1>2. ASSUME NEW n \in Names, NEW p, RecordStart(n, p) PROVE Placed'
  BY <1>2 DEF RecordStart, Placed
<1>3. CASE RecordDiscard
  BY <1>3 DEF RecordDiscard, NoRecording, Placed
<1>4. CASE RecordStop
  BY <1>4 DEF RecordStop, CallOf, Placed
<1>5. ASSUME NEW n \in Names, NEW a, NEW p, Save(n, a, p) \/ SaveRefused(n, a, p) PROVE Placed'
  BY <1>5 DEF Save, SaveRefused, CallOf, Placed
<1>6. ASSUME NEW n, NEW file, NEW force, NEW p, Replay(n, file, force, p) PROVE Placed'
  <2>1. pc' \notin {"artifact", "export", "rebuild"} /\ UNCHANGED recording
    <3>0. Several(file) => file.form = "lines"
      BY DEF Several
    <3>1. CASE file.form \in {"absent", "cut", "blank"} \/ Several(file)
      BY <1>6, <3>0, <3>1 DEF Replay
    <3>2. CASE file.form = "plan"
      BY <1>6, <3>0, <3>2 DEF Replay
    <3>3. CASE file.form \notin {"absent", "cut", "blank", "plan"} /\ ~Several(file)
      BY <1>6, <3>3 DEF Replay
    <3> QED  BY <3>1, <3>2, <3>3
  <2> QED  BY <2>1 DEF Placed
<1>7. CASE WriteArtifact
  BY <1>7 DEF WriteArtifact, Throws, Placed
<1>8. CASE WriteExport
  <2>1. CASE Throws
    BY <1>8, <2>1 DEF Throws, Placed
  <2>2. CASE recording' = [recording EXCEPT !.active = FALSE, !.acts = <<>>] /\ pc' = "idle"
    <3>1. recording'.active = FALSE
      BY <2>2 DEF TypeOK
    <3> QED  BY <2>2, <3>1 DEF Placed
  <2> QED  BY <1>8, <2>1, <2>2 DEF WriteExport
<1>9. CASE Rebuild
  BY <1>9 DEF Rebuild, Throws, Placed
<1>10. CASE Reject \/ Warn \/ Skip \/ MissingAction \/ BadAction \/ Report \/ Document
            \/ Caught \/ Finish \/ Error
  BY <1>10 DEF Reject, Warn, Skip, MissingAction, BadAction, Report, Document, Caught,
               Finish, Error, Writes, Placed
<1>11. ASSUME NEW fate \in Fates \ {"none"}, PerformStep(fate) PROVE Placed'
  BY <1>11 DEF PerformStep, Fates, Placed
<1>12. CASE Restart
  BY <1>12 DEF Restart, NoRecording, Placed
<1>13. CASE UNCHANGED vars
  BY <1>13 DEF vars, Placed
<1> QED  BY <1>1, <1>2, <1>3, <1>4, <1>5, <1>6, <1>7, <1>8, <1>9, <1>10, <1>11, <1>12, <1>13
         DEF Next, Caller, Handler

LEMMA RestartType == TypeOK /\ Restart => Keeps
<1> SUFFICES ASSUME TypeOK, Restart PROVE Keeps
  OBVIOUS
<1>0. EvidenceTypeOK /\ StoreType /\ CallType
  BY TypeParts
<1>1. EvidenceTypeOK'
  BY <1>0 DEF Restart, Reopened, EvidenceTypeOK
<1>2. <<>> \in Group
  BY DEF Group
<1>3. StoreType'
  BY <1>0, <1>2, NoRecordingType DEF Restart, StoreType
<1>4. CallType'
  BY <1>0, NoCallType DEF Restart, CallType, Places
<1> QED  BY <1>1, <1>3, <1>4, NoRunType DEF Restart, Keeps

LEMMA NextType == TypeOK /\ Placed /\ [Next]_vars => TypeOK'
<1> SUFFICES ASSUME TypeOK, Placed, [Next]_vars PROVE TypeOK'
  OBVIOUS
<1>1. CASE Next
  <2>1. Keeps
    BY <1>1, CallerType, WriteType, HandlerType, RestartType DEF Next, Handler
  <2> QED  BY <2>1, KeepsType
<1>2. CASE UNCHANGED vars
  <2>1. EvidenceTypeOK /\ StoreType /\ CallType /\ run \in Running
    BY TypeParts
  <2>2. Keeps
    BY <1>2, <2>1 DEF vars, Keeps, EvidenceTypeOK, StoreType, CallType
  <2> QED  BY <2>2, KeepsType
<1> QED  BY <1>1, <1>2

LEMMA TypeAndPlace == Spec => [](TypeOK /\ Placed)
<1>1. Init => Placed
  BY DEF Init, NoRecording, Placed
<1> QED  BY <1>1, InitType, NextType, PlacedStep, PTL DEF Spec

\* The state has its type, whichever files are written, cut or lost, whatever is
\* replayed and wherever the session ends.
THEOREM TypeCorrect == Spec => []TypeOK
BY TypeAndPlace, PTL

-------------------------------------------------------------------------------
(* The steps of a replay *)

\* Only the action of an enabled step behind no stop is performed, and the place
\* of the call says how far its step is.
FateInv ==
    /\ run.fate # "none" =>
           At <= Len(run.plan.steps) /\ Here.kind = "act" /\ ~run.stop
    /\ pc \in {"report", "document", "caught"} => run.fate # "none"
    /\ pc = "report" => run.fate = "failed" /\ run.error = 0
    /\ pc = "document" => run.fate = "failed" \/ (run.fate = "ok" /\ run.error = 0)
    /\ pc \in {"reject", "warn", "step", "finish"} => run.fate = "none"
    /\ pc \in {"reject", "warn", "step"} => run.error = 0
    /\ pc \in {"reject", "warn", "finish"} => run.steps = <<>>
    /\ pc = "finish" /\ run.error = 0 => run.plan.steps = <<>>
    /\ pc # "idle" => answer = "none"

StepInv == FateInv /\ StepsAccounted

\* What Ended() does, for those that use it.
LEMMA EndedFacts ==
    ASSUME run \in Running, NEW status, NEW n, NEW e, Ended(status, n, e)
    PROVE  /\ run'.plan = run.plan /\ run'.fate = "none" /\ run'.error = 0
           /\ run'.stop = (run.stop \/ (status = "failed" /\ StepPolicy = "stop"))
           /\ Len(run'.steps) = At /\ DOMAIN run'.steps = 1 .. At
           /\ DOMAIN run.steps = 1 .. At - 1 /\ At \in Nat \ {0}
           /\ run'.steps[At] = [status |-> status, fate |-> run.fate,
                                evidence |-> n, error |-> e]
           /\ \A i \in 1 .. At - 1 : run'.steps[i] = run.steps[i]
<1> DEFINE res == [status |-> status, fate |-> run.fate, evidence |-> n, error |-> e]
<1>1. run.steps \in Seq(Result)
  BY DEF Running
<1>2. run' = [plan |-> run.plan, steps |-> Append(run.steps, res), fate |-> "none",
              error |-> 0, stop |-> run.stop \/ (status = "failed" /\ StepPolicy = "stop")]
  BY DEF Ended
<1>3. run'.steps = Append(run.steps, res)
  BY <1>2
<1> HIDE DEF res
<1>4. /\ Len(Append(run.steps, res)) = Len(run.steps) + 1
      /\ DOMAIN Append(run.steps, res) = 1 .. Len(run.steps) + 1
      /\ Append(run.steps, res)[Len(run.steps) + 1] = res
      /\ \A i \in 1 .. Len(run.steps) : Append(run.steps, res)[i] = run.steps[i]
      /\ Len(run.steps) \in Nat /\ DOMAIN run.steps = 1 .. Len(run.steps)
  BY <1>1
<1>5. At = Len(run.steps) + 1 /\ At - 1 = Len(run.steps)
  BY <1>4 DEF At
<1>6. run'.steps[At] = res
  BY <1>3, <1>4, <1>5
<1>7. \A i \in 1 .. At - 1 : run'.steps[i] = run.steps[i]
  BY <1>3, <1>4, <1>5
<1>8. Len(run'.steps) = At /\ DOMAIN run'.steps = 1 .. At
  BY <1>3, <1>4, <1>5
<1>9. /\ run'.plan = run.plan /\ run'.fate = "none" /\ run'.error = 0
      /\ run'.stop = (run.stop \/ (status = "failed" /\ StepPolicy = "stop"))
  BY <1>2
<1> QED  BY <1>4, <1>5, <1>6, <1>7, <1>8, <1>9 DEF res

\* How the steps of a replay end: by which action, and with what.
LEMMA Endings ==
    ASSUME TypeOK, FateInv, Skip \/ MissingAction \/ Document \/ Caught,
           ~UNCHANGED run
    PROVE  \E status \in {"success", "failed", "skipped"}, n \in Nat, e \in Nat :
               /\ Ended(status, n, e) /\ pc' = "step" /\ n = counter'
               /\ status = "success" => run.fate = "ok" /\ e = 0
               /\ status = "failed" => run.fate # "none" \/ Here.kind = "missing"
               /\ status = "failed" /\ run.fate = "ok" => n = e
               /\ status = "skipped" => run.fate = "none" /\ e = 0
               /\ At <= Len(run.plan.steps)
               /\ Skipped <=> status = "skipped"
               /\ \/ status = "skipped" /\ Added("ReplayStep", <<calls, At>>)
                  \/ status = "failed" /\ e = n /\ Added("ToolError", <<calls, At>>)
                  \/ /\ status # "skipped" /\ e = run.error /\ pc = "document"
                     /\ status = "success" <=> run.fate = "ok"
                     /\ Added("ReplayStep", <<calls, At>>)
<1> USE DEF Goes
<1>1. EvidenceTypeOK /\ run \in Running
  BY TypeParts
<1>2. \A kind, of : Added(kind, of) => counter' \in Nat
  BY <1>1, AddedType
<1>3. CASE Skip
  <2>1. Ended("skipped", counter', 0) /\ pc' = "step" /\ Added("ReplayStep", <<calls, At>>)
    BY <1>3 DEF Skip
  <2>2. run.fate = "none" /\ Skipped /\ At <= Len(run.plan.steps)
    BY <1>3 DEF Skip, More, FateInv
  <2> QED  BY <1>2, <2>1, <2>2
<1>4. CASE MissingAction
  <2>1. Ended("failed", counter', counter') /\ pc' = "step"
        /\ Added("ToolError", <<calls, At>>)
    BY <1>4 DEF MissingAction
  <2>2. ~Skipped /\ Here.kind = "missing" /\ At <= Len(run.plan.steps)
    BY <1>4 DEF MissingAction, More
  <2> QED  BY <1>2, <2>1, <2>2
<1>5. CASE Document \/ Caught
  <2>1. run.fate # "none" /\ ~Skipped /\ At <= Len(run.plan.steps)
    BY <1>5 DEF Document, Caught, FateInv, Skipped
  <2>2. CASE Caught
    <3>1. Ended("failed", counter', counter') /\ pc' = "step"
          /\ Added("ToolError", <<calls, At>>)
      BY <2>2 DEF Caught
    <3> QED  BY <1>2, <2>1, <3>1
  <2>3. CASE Document
    <3>1. /\ Ended(IF run.fate = "ok" THEN "success" ELSE "failed", counter', run.error)
          /\ pc' = "step" /\ Added("ReplayStep", <<calls, At>>) /\ pc = "document"
      BY <2>3 DEF Document
    <3>2. run.fate = "failed" \/ (run.fate = "ok" /\ run.error = 0)
      BY <2>3 DEF Document, FateInv
    <3>3. run.error \in Nat
      BY <1>1 DEF Running
    <3>4. CASE run.fate = "ok"
      <4>1. Ended("success", counter', run.error)
        BY <3>1, <3>4
      <4> QED  BY <1>2, <2>1, <3>1, <3>2, <3>3, <3>4, <4>1
    <3>5. CASE run.fate = "failed"
      <4>1. Ended("failed", counter', run.error)
        BY <3>1, <3>5
      <4> QED  BY <1>2, <2>1, <3>1, <3>3, <3>5, <4>1
    <3> QED  BY <3>2, <3>4, <3>5
  <2> QED  BY <1>5, <2>2, <2>3
<1> QED  BY <1>3, <1>4, <1>5

\* Where a replay goes first, and with what.
LEMMA ReplayStarts ==
    ASSUME NEW n, NEW file \in File, NEW force, NEW p, Replay(n, file, force, p)
    PROVE  /\ run' = [NoRun EXCEPT !.plan = file]
           /\ run'.plan = file /\ run'.steps = <<>> /\ run'.fate = "none"
           /\ run'.error = 0 /\ run'.stop = FALSE
           /\ calls' = calls + 1 /\ UNCHANGED <<task, counter, items, indexed, indexCut>>
           /\ call' = [op |-> "replay", name |-> n, act |-> "none", policy |-> p,
                       force |-> force]
           /\ answer' = "none"
           /\ \/ (file.form \in {"absent", "cut"} \/ Several(file)) /\ pc' = "error"
              \/ file.form = "blank" /\ pc' = "finish"
              \/ file.form \in {"lines", "noted"} /\ pc' = "step"
              \/ file.form = "plan" /\ Rejected(file, force) /\ pc' = "reject"
              \/ /\ file.form = "plan" /\ ~Rejected(file, force) /\ Warned(file, force)
                 /\ pc' = "warn"
              \/ /\ file.form = "plan" /\ ~Rejected(file, force) /\ ~Warned(file, force)
                 /\ pc' = "step"
<1>1. run' = [NoRun EXCEPT !.plan = file]
  BY DEF Replay
<1>2. /\ run'.plan = file /\ run'.steps = <<>> /\ run'.fate = "none"
      /\ run'.error = 0 /\ run'.stop = FALSE
  BY <1>1 DEF NoRun
<1>3. /\ calls' = calls + 1 /\ UNCHANGED <<task, counter, items, indexed, indexCut>>
      /\ call' = [op |-> "replay", name |-> n, act |-> "none", policy |-> p,
                  force |-> force]
      /\ answer' = "none"
  BY DEF Replay, Calls, evidenceVars, storeVars
<1>0. Several(file) => file.form = "lines"
  BY DEF Several
<1>4. CASE file.form \in {"absent", "cut"} \/ Several(file)
  BY <1>1, <1>2, <1>3, <1>4 DEF Replay, Calls
<1>5. CASE file.form \in {"blank", "lines", "noted"} /\ ~Several(file)
  BY <1>1, <1>2, <1>3, <1>5 DEF Replay, Calls
<1>6. CASE file.form = "plan" /\ Rejected(file, force)
  BY <1>0, <1>1, <1>2, <1>3, <1>6 DEF Replay, Calls
<1>7. CASE file.form = "plan" /\ ~Rejected(file, force) /\ Warned(file, force)
  BY <1>0, <1>1, <1>2, <1>3, <1>7 DEF Replay, Calls
<1>8. CASE file.form = "plan" /\ ~Rejected(file, force) /\ ~Warned(file, force)
  BY <1>0, <1>1, <1>2, <1>3, <1>8 DEF Replay, Calls
<1> QED  BY <1>4, <1>5, <1>6, <1>7, <1>8 DEF File

\* Calls that are no replays, which leave no run behind.
OtherCall ==
    \/ \E a : Perform(a)
    \/ \E n, p : RecordStart(n, p)
    \/ RecordDiscard \/ RecordStop
    \/ \E n, a, p : Save(n, a, p) \/ SaveRefused(n, a, p)

LEMMA OtherCallFacts ==
    ASSUME OtherCall
    PROVE  /\ pc = "idle" /\ run' = NoRun
           /\ pc' \in {"idle", "error", "artifact", "rebuild"}
           /\ pc' # "idle" => answer' = "none"
           /\ call'.op # "replay" /\ calls' = calls + 1
           /\ UNCHANGED <<task, counter, items, indexed, indexCut>>
BY DEF OtherCall, Perform, RecordStart, RecordDiscard, RecordStop, Save, SaveRefused, Calls,
       CallOf, evidenceVars, storeVars

\* Writes of a recording or of saved actions leave run and call alone.
LEMMA FileWriteFacts ==
    ASSUME Placed, WriteArtifact \/ WriteExport \/ Rebuild
    PROVE  /\ UNCHANGED <<run, call, calls, task, counter, items, indexed, indexCut>>
           /\ call.op # "replay"
           /\ pc \in {"artifact", "export", "rebuild"}
           /\ pc' \in {"idle", "error", "export"}
           /\ pc' # "idle" => answer' = answer
BY DEF Placed, WriteArtifact, WriteExport, Rebuild, Throws, Goes, Answers, storeVars

\* An action of the call goes on to, or comes from, no step of a replay.
LEMMA ErrorFacts ==
    ASSUME Error
    PROVE  /\ UNCHANGED <<run, call, calls, task>> /\ pc = "error" /\ pc' = "idle"
           /\ answer' \in {"error", "threw"}
BY DEF Error, Answers, storeVars

LEMMA NextParts ==
    ASSUME TypeOK, [Next]_vars
    PROVE  \/ OtherCall
           \/ \E n \in Names \cup {"none"}, file \in File, force \in BOOLEAN, p \in Policies :
                  /\ Replay(n, file, force, p)
                  /\ n \in Names => file = SourceOf(n)
           \/ WriteArtifact \/ WriteExport \/ Rebuild
           \/ Reject \/ Warn \/ BadAction
           \/ \E fate \in Fates \ {"none"} : PerformStep(fate)
           \/ Report
           \/ Skip \/ MissingAction \/ Document \/ Caught
           \/ Finish \/ Error \/ Restart
           \/ UNCHANGED vars
<1>1. \A n \in Names : SourceOf(n) \in File /\ files[n].jsonl \in File
  BY TypeParts DEF SourceOf, StoreType, Stored
<1>2. "none" \notin Names
  BY ReplaysAssumption
<1>3. Caller => \/ OtherCall
                \/ \E n \in Names \cup {"none"}, file \in File, force \in BOOLEAN, p \in Policies :
                       /\ Replay(n, file, force, p)
                       /\ n \in Names => file = SourceOf(n)
  BY <1>1, <1>2, HandPlansAssumption DEF Caller, OtherCall
<1> QED  BY <1>3 DEF Next, Handler

LEMMA NoRunFacts ==
    NoRun.plan = Absent /\ NoRun.steps = <<>> /\ NoRun.fate = "none" /\ NoRun.error = 0
    /\ NoRun.stop = FALSE
BY DEF NoRun

LEMMA FateStep == TypeOK /\ Placed /\ FateInv /\ [Next]_vars => FateInv'
<1> SUFFICES ASSUME TypeOK, Placed, FateInv, [Next]_vars PROVE FateInv'
  OBVIOUS
<1> USE DEF Goes, Answers
<1>0. EvidenceTypeOK /\ run \in Running
  BY TypeParts
<1>1. CASE OtherCall
  BY <1>1, OtherCallFacts, NoRunFacts DEF FateInv
<1>2. ASSUME NEW n, NEW file \in File, NEW force, NEW p, Replay(n, file, force, p)
      PROVE  FateInv'
  <2>1. file.form = "blank" => file.steps = <<>>
    BY DEF File
  <2> QED  BY <1>2, <2>1, ReplayStarts DEF FateInv
<1>3. CASE WriteArtifact \/ WriteExport \/ Rebuild
  BY <1>3, FileWriteFacts DEF FateInv, At, Here
<1>4. CASE Reject
  <2>1. \/ Added("ToolError", <<calls, 0>>) /\ pc' = "finish"
        \/ AddThrew("ToolError", <<calls, 0>>) /\ pc' = "error"
    BY <1>4 DEF Reject, Writes
  <2>2. run' = [run EXCEPT !.error = counter'] /\ UNCHANGED <<call, answer>> /\ pc = "reject"
    BY <1>4 DEF Reject, Writes
  <2>3. run'.steps = <<>> /\ run'.fate = "none" /\ run'.error = counter'
    BY <1>0, <2>2 DEF FateInv, Running
  <2>4. CASE pc' = "finish"
    <3>1. counter' # 0
      BY <1>0, <2>1, <2>4, AddedType
    <3> QED  BY <2>2, <2>3, <2>4, <3>1 DEF FateInv
  <2>5. CASE pc' = "error"
    BY <2>2, <2>3, <2>5 DEF FateInv
  <2> QED  BY <2>1, <2>4, <2>5
<1>5. CASE Warn \/ BadAction
  <2>1. UNCHANGED <<run, answer>> /\ pc' \in {"step", "error"} /\ pc \in {"warn", "step"}
    BY <1>5 DEF Warn, BadAction, Writes, More
  <2> QED  BY <2>1 DEF FateInv, At, Here
<1>6. ASSUME NEW fate \in Fates \ {"none"}, PerformStep(fate) PROVE FateInv'
  <2>1. run' = [run EXCEPT !.fate = fate] /\ UNCHANGED answer /\ pc = "step"
    BY <1>6 DEF PerformStep, More
  <2>2. /\ run'.fate = fate /\ run'.plan = run.plan /\ run'.steps = run.steps
        /\ run'.error = run.error /\ run'.stop = run.stop
    BY <1>0, <2>1 DEF Running
  <2>3. At <= Len(run.plan.steps) /\ Here.kind = "act" /\ ~run.stop
    BY <1>6 DEF PerformStep, More, Skipped
  <2>4. \/ fate = "ok" /\ pc' = "document"
        \/ fate = "failed" /\ pc' = "report"
        \/ fate = "threw" /\ pc' = "caught"
    BY <1>6 DEF PerformStep, Fates
  <2> QED  BY <2>1, <2>2, <2>3, <2>4 DEF FateInv, At, Here
<1>7. CASE Report
  <2>1. /\ pc = "report" /\ UNCHANGED answer
        /\ \/ pc' = "document" /\ run' = [run EXCEPT !.error = counter']
           \/ pc' = "caught" /\ run' = run
    BY <1>7 DEF Report
  <2>2. /\ run'.fate = run.fate /\ run'.plan = run.plan /\ run'.steps = run.steps
        /\ run'.stop = run.stop
    BY <1>0, <2>1 DEF Running
  <2> QED  BY <2>1, <2>2 DEF FateInv, At, Here
<1>8. CASE Skip \/ MissingAction \/ Document \/ Caught
  <2>1. UNCHANGED answer /\ answer = "none"
    BY <1>8 DEF Skip, MissingAction, Document, Caught, More, FateInv
  <2>2. CASE UNCHANGED run
    <3>1. pc' \in {"error", "caught"} /\ (pc' = "caught" => pc = "document")
      <4>1. \A st, n, e : Ended(st, n, e) => run' # run
        <5>1. Len(run.steps) \in Nat
          BY <1>0 DEF Running
        <5>2. ASSUME NEW st, NEW n, NEW e, Ended(st, n, e) PROVE Len(run'.steps) = At
          BY <1>0, <5>2, EndedFacts
        <5> QED  BY <5>1, <5>2 DEF At
      <4> QED  BY <1>8, <2>2, <4>1 DEF Skip, MissingAction, Document, Caught
    <3> QED  BY <2>1, <2>2, <3>1 DEF FateInv, At, Here
  <2>3. CASE ~UNCHANGED run
    <3>1. run'.fate = "none" /\ run'.error = 0 /\ pc' = "step"
      BY <1>0, <1>8, <2>3, Endings, EndedFacts
    <3> QED  BY <2>1, <3>1 DEF FateInv
  <2> QED  BY <2>2, <2>3
<1>9. CASE Finish \/ Error \/ Restart
  <2>1. CASE Finish
    BY <2>1 DEF Finish, FateInv, At, Here
  <2>2. CASE Error
    BY <2>2, ErrorFacts DEF FateInv, At, Here
  <2>3. CASE Restart
    BY <2>3, NoRunFacts DEF Restart, FateInv
  <2> QED  BY <1>9, <2>1, <2>2, <2>3
<1>10. CASE UNCHANGED vars
  BY <1>10 DEF vars, FateInv, At, Here
<1> QED  BY <1>1, <1>2, <1>3, <1>4, <1>5, <1>6, <1>7, <1>8, <1>9, <1>10, NextParts

\* Steps that leave the results and the plan of the run alone.
LEMMA RunKept ==
    ASSUME TypeOK, FateInv,
           \/ Reject \/ Warn \/ BadAction \/ Report \/ Finish \/ Error
           \/ \E fate \in Fates \ {"none"} : PerformStep(fate)
    PROVE  /\ run'.plan = run.plan /\ run'.steps = run.steps /\ run'.stop = run.stop
           /\ UNCHANGED <<call, calls, task>>
<1>1. run \in Running
  BY TypeParts
<1> QED  BY <1>1 DEF Reject, Warn, BadAction, Report, Finish, Error, PerformStep, Writes,
                     Goes, Answers, Running, storeVars

LEMMA AccountStep == TypeOK /\ Placed /\ StepInv /\ [Next]_vars => StepsAccounted'
<1> SUFFICES ASSUME TypeOK, Placed, StepInv, [Next]_vars PROVE StepsAccounted'
  OBVIOUS
<1>0. run \in Running
  BY TypeParts
<1>00. StepsAccounted /\ FateInv
  BY DEF StepInv
<1> DEFINE Accounted(i, step, s) ==
             /\ s.status = "success" => s.fate = "ok" /\ s.error = 0
             /\ s.status = "failed" /\ s.fate = "ok" => s.evidence = s.error
             /\ s.status = "failed" /\ s.fate = "none" => step.kind = "missing"
             /\ s.fate # "none" => step.kind = "act"
             /\ s.status = "skipped" => s.fate = "none"
           Told == call.op = "replay" /\ answer \in {"ok", "failed"} /\ run.error = 0 =>
                       /\ Len(run.steps) = Len(run.plan.steps)
                       /\ (answer = "ok") <=>
                              \A i \in DOMAIN run.steps : run.steps[i].status # "failed"
<1>1. /\ Len(run.steps) <= Len(run.plan.steps) /\ Told
      /\ \A i \in DOMAIN run.steps : Accounted(i, run.plan.steps[i], run.steps[i])
  BY <1>00 DEF StepsAccounted, StepAccounted
<1>2. ASSUME Len(run'.steps) <= Len(run'.plan.steps), Told',
             \A i \in DOMAIN run'.steps : Accounted(i, run'.plan.steps[i], run'.steps[i])
      PROVE  StepsAccounted'
  BY <1>2 DEF StepsAccounted, StepAccounted
<1> HIDE DEF Accounted
<1>3. ASSUME run'.steps = <<>>, Told', Len(run'.plan.steps) \in Nat PROVE StepsAccounted'
  BY <1>2, <1>3
<1>4. ASSUME UNCHANGED <<run, call, answer>> PROVE StepsAccounted'
  BY <1>1, <1>2, <1>4
<1>5. ASSUME run'.plan = run.plan, run'.steps = run.steps, Told' PROVE StepsAccounted'
  BY <1>1, <1>2, <1>5
<1>6. CASE OtherCall
  BY <1>3, <1>6, OtherCallFacts, NoRunFacts DEF Absent
<1>7. ASSUME NEW n, NEW file \in File, NEW force, NEW p, Replay(n, file, force, p)
      PROVE  StepsAccounted'
  <2>1. Len(file.steps) \in Nat
    BY DEF File
  <2> QED  BY <1>3, <1>7, <2>1, ReplayStarts
<1>8. CASE WriteArtifact \/ WriteExport \/ Rebuild
  BY <1>5, <1>8, FileWriteFacts
<1>9. CASE Reject \/ Warn \/ BadAction \/ Report \/ Error
           \/ \E fate \in Fates \ {"none"} : PerformStep(fate)
  <2>1. answer' \notin {"ok", "failed"}
    BY <1>9, <1>00 DEF Reject, Warn, BadAction, Report, Error, PerformStep, Writes, More,
                       Goes, Answers, FateInv
  <2>2. run'.plan = run.plan /\ run'.steps = run.steps
    BY <1>9, <1>00, RunKept
  <2> QED  BY <1>5, <2>1, <2>2
<1>10. CASE Finish
  <2>1. run'.plan = run.plan /\ run'.steps = run.steps /\ run' = run /\ call' = call
    BY <1>00, <1>10, RunKept DEF Finish
  <2>2. CASE answer' \notin {"ok", "failed"}
    BY <1>5, <2>1, <2>2
  <2>3. CASE answer' \in {"ok", "failed"}
    <3>1. answer' = IF Failed \/ run.error # 0 THEN "failed" ELSE "ok"
      BY <1>00, <1>10, <2>3 DEF Finish, FateInv, Goes, Answers
    <3>2. run.error = 0 => Len(run.steps) = Len(run.plan.steps)
      <4>1. CASE pc = "finish"
        BY <1>00, <4>1 DEF FateInv
      <4>2. CASE pc = "step" /\ ~More
        <5>1. ~(At <= Len(run.plan.steps))
          BY <4>2 DEF More
        <5>2. Len(run.steps) \in Nat /\ Len(run.plan.steps) \in Nat
          BY <1>0 DEF Running, File
        <5> QED  BY <1>1, <5>1, <5>2 DEF At
      <4> QED  BY <1>10, <4>1, <4>2 DEF Finish
    <3>3. Failed <=> ~\A i \in DOMAIN run.steps : run.steps[i].status # "failed"
      BY DEF Failed
    <3>4. Told'
      BY <2>1, <3>1, <3>2, <3>3
    <3> QED  BY <1>5, <2>1, <3>4
  <2> QED  BY <2>2, <2>3
<1>11. CASE Skip \/ MissingAction \/ Document \/ Caught
  <2>1. UNCHANGED <<call, answer>>
    BY <1>11 DEF Skip, MissingAction, Document, Caught, Goes
  <2>2. CASE UNCHANGED run
    BY <1>4, <2>1, <2>2
  <2>3. CASE ~UNCHANGED run
    <3>1. answer = "none"
      BY <1>00, <1>11 DEF Skip, MissingAction, Document, Caught, More, FateInv
    <3>2. PICK status \in {"success", "failed", "skipped"}, n \in Nat, e \in Nat :
              /\ Ended(status, n, e) /\ pc' = "step"
              /\ status = "success" => run.fate = "ok" /\ e = 0
              /\ status = "failed" => run.fate # "none" \/ Here.kind = "missing"
              /\ status = "failed" /\ run.fate = "ok" => n = e
              /\ status = "skipped" => run.fate = "none"
              /\ At <= Len(run.plan.steps)
      BY <1>00, <1>11, <2>3, Endings
    <3> DEFINE res == [status |-> status, fate |-> run.fate, evidence |-> n, error |-> e]
    <3>3. /\ run'.plan = run.plan /\ Len(run'.steps) = At /\ DOMAIN run'.steps = 1 .. At
          /\ DOMAIN run.steps = 1 .. At - 1 /\ At \in Nat \ {0}
          /\ run'.steps[At] = res
          /\ \A i \in 1 .. At - 1 : run'.steps[i] = run.steps[i]
      BY <1>0, <3>2, EndedFacts
    <3>4. Accounted(At, Here, res)
      <4>1. run.fate # "none" => Here.kind = "act"
        BY <1>00 DEF FateInv
      <4> QED  BY <3>2, <4>1 DEF Accounted
    <3>5. Told'
      BY <2>1, <3>1
    <3> HIDE DEF res
    <3>6. \A i \in 1 .. At : Accounted(i, run'.plan.steps[i], run'.steps[i])
      BY <1>1, <3>3, <3>4 DEF Here
    <3> QED  BY <1>2, <3>2, <3>3, <3>5, <3>6
  <2> QED  BY <2>2, <2>3
<1>12. CASE Restart
  BY <1>3, <1>12, NoRunFacts DEF Restart, Absent
<1>13. CASE UNCHANGED vars
  BY <1>4, <1>13 DEF vars
<1> QED  BY <1>6, <1>7, <1>8, <1>9, <1>10, <1>11, <1>12, <1>13, NextParts

LEMMA Stepping == Spec => [](TypeOK /\ Placed /\ StepInv)
<1>1. Init => StepInv
  BY NoRunFacts DEF Init, StepInv, FateInv, StepsAccounted, NoCall, CallOf, Absent
<1>2. TypeOK /\ Placed /\ StepInv /\ [Next]_vars => StepInv'
  BY FateStep, AccountStep DEF StepInv
<1> QED  BY <1>1, <1>2, TypeAndPlace, PTL DEF Spec

\* Every step of a replay is accounted for, whatever the actions do and whichever
\* evidence cannot be written, and the answer is that of the steps.
THEOREM AllStepsAccounted == Spec => []StepsAccounted
BY Stepping, PTL DEF StepInv

-------------------------------------------------------------------------------
(* Where a replay stops *)

\* Whether a failed step with the policy `own` stops the replay of a plan under a
\* call: what StopsAt says of a step.
Tells(plan, c, own) ==
    IF plan.form # "plan" THEN c.policy = "stop"
    ELSE \/ own = "stop"
         \/ own = "none" /\ c.policy = "stop"
         \/ own = "none" /\ c.policy = "none" /\ plan.policy = "stop"

\* A failed result among the first k that stops the replay.
StopAmong(plan, steps, c, k) ==
    \E i \in 1 .. k : steps[i].status = "failed" /\ Tells(plan, c, plan.steps[i].policy)

\* The results of a replay as StopsWhereTold wants them, and the flag of its loop.
StopParts(plan, steps, c, stop) ==
    /\ stop <=> StopAmong(plan, steps, c, Len(steps))
    /\ \A j \in 1 .. Len(steps) :
          /\ StopAmong(plan, steps, c, j - 1) => steps[j].status = "skipped"
          /\ steps[j].status = "skipped" =>
                 StopAmong(plan, steps, c, j - 1) \/ plan.steps[j].kind \in {"scalar", "disabled"}

StopInv == StopParts(run.plan, run.steps, call, run.stop)

LEMMA StopsMeaning ==
    /\ \A j : Stopped(j) <=> StopAmong(run.plan, run.steps, call, j - 1)
    /\ TypeOK /\ FateInv /\ StopInv => StopsWhereTold
<1>1. \A i : StopsAt(i) <=> Tells(run.plan, call, run.plan.steps[i].policy)
  BY DEF StopsAt, Tells
<1>2. \A j : Stopped(j) <=> StopAmong(run.plan, run.steps, call, j - 1)
  BY <1>1 DEF Stopped, StopAmong
<1>3. ASSUME TypeOK, FateInv, StopInv PROVE StopsWhereTold
  <2>1. Len(run.steps) \in Nat /\ DOMAIN run.steps = 1 .. Len(run.steps)
    BY <1>3, TypeParts DEF Running
  <2>2. At - 1 = Len(run.steps)
    BY <2>1 DEF At
  <2>3. run.fate # "none" => ~StopAmong(run.plan, run.steps, call, At - 1)
    BY <1>3, <2>2 DEF FateInv, StopInv, StopParts
  <2> QED  BY <1>2, <1>3, <2>1, <2>3 DEF StopsWhereTold, StopInv, StopParts
<1> QED  BY <1>2, <1>3

LEMMA PolicyMeaning ==
    ASSUME TypeOK, At <= Len(run.plan.steps)
    PROVE  StepPolicy = "stop" <=> Tells(run.plan, call, Here.policy)
<1>1. run \in Running /\ call \in Calling
  BY TypeParts DEF CallType
<1>2. At \in DOMAIN run.plan.steps
  BY <1>1 DEF At, Running, File
<1>3. Here \in Step
  BY <1>1, <1>2 DEF Here, Running, File
<1>4. Here.policy \in Policies /\ call.policy \in Policies /\ run.plan.policy \in Policies
  BY <1>1, <1>3 DEF Step, Calling, Running, File
<1> QED  BY <1>4 DEF StepPolicy, Tells, Normalized, Policies, Valid

LEMMA StopEmpty == ASSUME NEW plan, NEW c PROVE StopParts(plan, <<>>, c, FALSE)
BY DEF StopParts, StopAmong

LEMMA StopStep == TypeOK /\ Placed /\ FateInv /\ StopInv /\ [Next]_vars => StopInv'
<1> SUFFICES ASSUME TypeOK, Placed, FateInv, StopInv, [Next]_vars PROVE StopInv'
  OBVIOUS
<1>0. run \in Running
  BY TypeParts
<1>1. ASSUME run'.steps = <<>>, run'.stop = FALSE PROVE StopInv'
  BY <1>1, StopEmpty DEF StopInv
<1>2. ASSUME run'.plan = run.plan, run'.steps = run.steps, run'.stop = run.stop,
             UNCHANGED call
      PROVE  StopInv'
  BY <1>2 DEF StopInv
<1>3. CASE OtherCall \/ Restart
  BY <1>1, <1>3, OtherCallFacts, NoRunFacts DEF Restart
<1>4. ASSUME NEW n, NEW file \in File, NEW force, NEW p, Replay(n, file, force, p)
      PROVE  StopInv'
  BY <1>1, <1>4, ReplayStarts
<1>5. CASE WriteArtifact \/ WriteExport \/ Rebuild
  BY <1>2, <1>5, FileWriteFacts
<1>6. CASE Reject \/ Warn \/ BadAction \/ Report \/ Finish \/ Error
           \/ \E fate \in Fates \ {"none"} : PerformStep(fate)
  BY <1>2, <1>6, RunKept
<1>7. CASE Skip \/ MissingAction \/ Document \/ Caught
  <2>1. UNCHANGED call
    BY <1>7 DEF Skip, MissingAction, Document, Caught, Goes
  <2>2. CASE UNCHANGED run
    BY <1>2, <2>1, <2>2
  <2>3. CASE ~UNCHANGED run
    <3>1. PICK status \in {"success", "failed", "skipped"}, n \in Nat, e \in Nat :
              /\ Ended(status, n, e)
              /\ At <= Len(run.plan.steps)
              /\ Skipped <=> status = "skipped"
      BY <1>7, <2>3, Endings
    <3>2. /\ run'.plan = run.plan /\ Len(run'.steps) = At
          /\ run'.stop = (run.stop \/ (status = "failed" /\ StepPolicy = "stop"))
          /\ At \in Nat \ {0} /\ run'.steps[At].status = status
          /\ \A i \in 1 .. At - 1 : run'.steps[i] = run.steps[i]
      <4>1. run'.steps[At] = [status |-> status, fate |-> run.fate, evidence |-> n, error |-> e]
        BY <1>0, <3>1, EndedFacts
      <4>2. run'.steps[At].status = status
        BY <4>1
      <4> QED  BY <1>0, <3>1, <4>2, EndedFacts
    <3>3. At - 1 = Len(run.steps)
      BY <1>0 DEF At, Running
    <3> DEFINE plan == run.plan
               new  == run'.steps
    <3>4. \A k \in 0 .. At - 1 : StopAmong(plan, new, call, k) <=> StopAmong(plan, run.steps, call, k)
      BY <3>2 DEF StopAmong
    <3>5. StopAmong(plan, new, call, At) <=>
              \/ StopAmong(plan, new, call, At - 1)
              \/ status = "failed" /\ Tells(plan, call, plan.steps[At].policy)
      BY <3>2 DEF StopAmong
    <3>6. run.stop <=> StopAmong(plan, new, call, At - 1)
      BY <3>2, <3>3, <3>4 DEF StopInv, StopParts
    <3>7. run'.stop <=> StopAmong(plan, new, call, At)
      BY <3>1, <3>2, <3>5, <3>6, PolicyMeaning DEF Here
    <3>8. /\ run.stop => status = "skipped"
          /\ status = "skipped" => run.stop \/ plan.steps[At].kind \in {"scalar", "disabled"}
      BY <3>1 DEF Skipped, Here
    <3>9. \A j \in 1 .. At - 1 :
              /\ StopAmong(plan, new, call, j - 1) => new[j].status = "skipped"
              /\ new[j].status = "skipped" =>
                     \/ StopAmong(plan, new, call, j - 1)
                     \/ plan.steps[j].kind \in {"scalar", "disabled"}
      <4> TAKE j \in 1 .. At - 1
      <4>1. j - 1 \in 0 .. At - 1 /\ new[j] = run.steps[j] /\ j \in 1 .. Len(run.steps)
        BY <3>2, <3>3
      <4> QED  BY <3>4, <4>1 DEF StopInv, StopParts
    <3>10. StopParts(plan, new, call, run'.stop)
      <4>1. \A j \in 1 .. At : j \in 1 .. At - 1 \/ j = At
        BY <3>2
      <4> QED  BY <3>2, <3>6, <3>7, <3>8, <3>9, <4>1 DEF StopParts
    <3> QED  BY <2>1, <3>2, <3>10 DEF StopInv
  <2> QED  BY <2>2, <2>3
<1>8. CASE UNCHANGED vars
  BY <1>2, <1>8 DEF vars
<1> QED  BY <1>3, <1>4, <1>5, <1>6, <1>7, <1>8, NextParts

\* No action is performed behind a failure that stops the replay, and no enabled
\* one is skipped without: for any nesting of the three policies.
THEOREM StopsAsTold == Spec => []StopsWhereTold
<1>1. Init => StopInv
  BY StopEmpty, NoRunFacts DEF Init, StopInv
<1>2. StepInv => FateInv
  BY DEF StepInv
<1> QED  BY <1>1, <1>2, StopStep, StopsMeaning, Stepping, PTL DEF Spec

-------------------------------------------------------------------------------
(* Plans of another task *)

\* A plan of another task gets to its warning only if forced, and behind it only
\* with the warning written.
ForceInv ==
    run.plan.form = "plan" /\ OtherTask(run.plan) =>
        /\ pc \in {"warn", "step"} => call.force
        /\ pc = "step" \/ run.fate # "none" \/ run.steps # <<>> =>
               call.force /\ HasItem("ReplayWarning", <<calls, 0>>)

\* No evidence is lost while the session lasts.
LEMMA EvidenceGrows ==
    ASSUME TypeOK, Placed, [Next]_vars, ~Restart
    PROVE  Listed \subseteq Listed'
<1>1. ASSUME UNCHANGED <<items, indexed, indexCut>>
      PROVE  Listed \subseteq Listed'
  BY <1>1 DEF Listed
<1>2. CASE OtherCall
  BY <1>1, <1>2, OtherCallFacts
<1>3. ASSUME NEW n, NEW file \in File, NEW force, NEW p, Replay(n, file, force, p)
      PROVE  UNCHANGED <<items, indexed, indexCut>>
  BY <1>3, ReplayStarts
<1>4. CASE WriteArtifact \/ WriteExport \/ Rebuild
  BY <1>1, <1>4, FileWriteFacts
<1>5. CASE BadAction \/ UNCHANGED vars \/ \E fate \in Fates \ {"none"} : PerformStep(fate)
  BY <1>1, <1>5 DEF BadAction, PerformStep, evidenceVars, vars
<1>6. CASE Reject \/ Warn \/ Report \/ Skip \/ MissingAction \/ Document \/ Caught
           \/ Finish \/ Error
  BY <1>6, AddedKeeps, AddThrewKeeps
     DEF Reject, Warn, Report, Skip, MissingAction, Document, Caught, Finish, Error, Writes
<1> QED  BY <1>1, <1>2, <1>3, <1>4, <1>5, <1>6, NextParts

LEMMA ForceStep ==
    TypeOK /\ Placed /\ FateInv /\ ForceInv /\ [Next]_vars => ForceInv'
<1> SUFFICES ASSUME TypeOK, Placed, FateInv, ForceInv, [Next]_vars PROVE ForceInv'
  OBVIOUS
<1>0. run \in Running
  BY TypeParts
<1>1. CASE OtherCall \/ Restart
  <2>1. run' = NoRun
    BY <1>1, OtherCallFacts DEF Restart
  <2> QED  BY <2>1, NoRunFacts DEF ForceInv, Absent
<1>2. ASSUME NEW n, NEW file \in File, NEW force, NEW p, Replay(n, file, force, p)
      PROVE  ForceInv'
  <2>1. OtherTask(file)' <=> OtherTask(file)
    BY <1>2, ReplayStarts DEF OtherTask
  <2>2. call'.force = force
    <3>1. call' = [op |-> "replay", name |-> n, act |-> "none", policy |-> p, force |-> force]
      BY <1>2, ReplayStarts
    <3> QED  BY <3>1
  <2>3. OtherTask(file) /\ ~Rejected(file, force) => force /\ Warned(file, force)
    BY DEF Rejected, Warned
  <2>4. run'.plan = file /\ run'.steps = <<>> /\ run'.fate = "none"
    BY <1>2, ReplayStarts
  <2>5. OtherTask(run.plan)' <=> OtherTask(file)
    BY <1>2, <2>4, ReplayStarts DEF OtherTask
  <2>6. file.form = "plan" /\ OtherTask(file) => pc' # "step" /\ (pc' = "warn" => force)
    BY <1>2, <2>3, ReplayStarts
  <2> QED  BY <2>2, <2>4, <2>5, <2>6 DEF ForceInv
<1>3. ASSUME Listed \subseteq Listed', UNCHANGED <<call, calls, task>>,
             run'.plan = run.plan,
             pc' # "warn", pc' = "step" => pc \in {"step", "document", "caught"},
             pc' = "step" \/ run'.fate # "none" \/ run'.steps # <<>> =>
                 pc = "step" \/ run.fate # "none" \/ run.steps # <<>>
      PROVE  ForceInv'
  <2>1. HasItem("ReplayWarning", <<calls, 0>>) => HasItem("ReplayWarning", <<calls, 0>>)'
    BY <1>3 DEF HasItem
  <2>2. OtherTask(run.plan)' <=> OtherTask(run.plan)
    BY <1>3 DEF OtherTask
  <2>3. pc \in {"document", "caught"} => run.fate # "none"
    BY DEF FateInv
  <2> QED  BY <1>3, <2>1, <2>2, <2>3 DEF ForceInv
<1>4. ASSUME ~Restart PROVE Listed \subseteq Listed'
  BY <1>4, EvidenceGrows
<1>5. CASE (WriteArtifact \/ WriteExport \/ Rebuild) /\ ~Restart
  BY <1>3, <1>4, <1>5, FileWriteFacts
<1>6. CASE (Reject \/ BadAction \/ Report \/ Finish \/ Error) /\ ~Restart
  <2>1. pc' \notin {"warn", "step"} /\ run'.fate = run.fate
    BY <1>0, <1>6 DEF Reject, BadAction, Report, Finish, Error, Writes, Goes, Answers, Running
  <2> QED  BY <1>3, <1>4, <1>6, <2>1, RunKept
<1>7. ASSUME NEW fate \in Fates \ {"none"}, PerformStep(fate), ~Restart PROVE ForceInv'
  <2>1. pc = "step" /\ pc' \notin {"warn", "step"}
    BY <1>7 DEF PerformStep, More, Goes, Fates
  <2> QED  BY <1>3, <1>4, <1>7, <2>1, RunKept
<1>8. CASE Warn /\ ~Restart
  <2>1. UNCHANGED <<run, call, calls, task>> /\ pc = "warn"
    BY <1>8 DEF Warn, Writes, Goes, storeVars
  <2>2. OtherTask(run.plan)' <=> OtherTask(run.plan)
    BY <2>1 DEF OtherTask
  <2>3. \/ Added("ReplayWarning", <<calls, 0>>) /\ pc' = "step"
        \/ pc' = "error"
    BY <1>8 DEF Warn, Writes, Goes
  <2>4. CASE pc' = "step" /\ Added("ReplayWarning", <<calls, 0>>)
    <3>1. HasItem("ReplayWarning", <<calls, 0>>)'
      BY <2>1, <2>4, AddedKeeps DEF HasItem
    <3> QED  BY <2>1, <2>2, <2>4, <3>1 DEF ForceInv
  <2>5. CASE pc' = "error"
    BY <2>1, <2>2, <2>5 DEF ForceInv, FateInv
  <2> QED  BY <2>3, <2>4, <2>5
<1>9. CASE (Skip \/ MissingAction \/ Document \/ Caught) /\ ~Restart
  <2>1. UNCHANGED <<call, calls, task>> /\ pc' # "warn" /\ pc \in {"step", "document", "caught"}
        /\ (pc = "step" \/ run.fate # "none")
    BY <1>9 DEF Skip, MissingAction, Document, Caught, More, Goes, FateInv, storeVars
  <2>2. run'.plan = run.plan
    <3>1. CASE ~UNCHANGED run
      BY <1>0, <1>9, <3>1, Endings, EndedFacts
    <3> QED  BY <3>1
  <2> QED  BY <1>3, <1>4, <1>9, <2>1, <2>2
<1>10. CASE UNCHANGED vars
  BY <1>10 DEF vars, ForceInv, HasItem, Listed, OtherTask
<1> QED  BY <1>1, <1>2, <1>5, <1>6, <1>7, <1>8, <1>9, <1>10, NextParts

\* No action of a plan made for another task is performed, or has a result, unless
\* the caller forced the replay, with the warning written before.
THEOREM OtherTasksAreForced == Spec => []MismatchNeedsForce
<1>1. Init => ForceInv
  BY NoRunFacts DEF Init, ForceInv, Absent
<1>2. ForceInv => MismatchNeedsForce
  BY DEF ForceInv, MismatchNeedsForce, HasItem
<1>3. StepInv => FateInv
  BY DEF StepInv
<1> QED  BY <1>1, <1>2, <1>3, ForceStep, Stepping, PTL DEF Spec

-------------------------------------------------------------------------------
(* The evidence of a replay *)

\* The items a result names, for a given list of items: what
\* EvidenceOfSteps says of step i of call c.
Doc(its, n, kinds, of) == \E i \in its : i.id = n /\ i.kind \in kinds /\ i.of = of

StepDoc(its, c, i, s) ==
    /\ Doc(its, s.evidence, IF s.status = "failed" THEN {"ReplayStep", "ToolError"}
                                ELSE {"ReplayStep"}, <<c, i>>)
    /\ s.status = "failed" => Doc(its, s.error, {"ToolError"}, <<c, i>>)
    /\ s.status # "failed" => s.error = 0

EvidenceInv ==
    /\ \A i \in DOMAIN run.steps : StepDoc(Listed, calls, i, run.steps[i])
    /\ pc = "document" /\ run.fate = "failed" =>
           Doc(Listed, run.error, {"ToolError"}, <<calls, At>>)
    /\ call.op = "replay" /\ answer \in {"ok", "failed"} => HasItem("ReplayRun", <<calls, 0>>)

LEMMA EvidenceMeaning == EvidenceInv => EvidenceOfSteps
BY DEF EvidenceInv, EvidenceOfSteps, StepDoc, Doc, Documented, HasItem

LEMMA DocGrows ==
    ASSUME NEW its, NEW jts, its \subseteq jts
    PROVE  /\ \A n, kinds, of : Doc(its, n, kinds, of) => Doc(jts, n, kinds, of)
           /\ \A c, i, s : StepDoc(its, c, i, s) => StepDoc(jts, c, i, s)
<1>1. \A n, kinds, of : Doc(its, n, kinds, of) => Doc(jts, n, kinds, of)
  BY DEF Doc
<1> QED  BY <1>1 DEF StepDoc

LEMMA EvidenceStep ==
    TypeOK /\ Placed /\ FateInv /\ EvidenceInv /\ [Next]_vars => EvidenceInv'
<1> SUFFICES ASSUME TypeOK, Placed, FateInv, EvidenceInv, [Next]_vars
             PROVE  EvidenceInv'
  OBVIOUS
<1>0. run \in Running
  BY TypeParts
<1>1. ASSUME run'.steps = <<>>, run'.fate = "none", call'.op # "replay" \/ answer' = "none"
      PROVE  EvidenceInv'
  BY <1>1 DEF EvidenceInv
<1>2. CASE OtherCall
  BY <1>1, <1>2, OtherCallFacts, NoRunFacts
<1>3. CASE Restart
  BY <1>1, <1>3, NoRunFacts DEF Restart
<1>4. ASSUME NEW n, NEW file \in File, NEW force, NEW p, Replay(n, file, force, p)
      PROVE  EvidenceInv'
  BY <1>1, <1>4, ReplayStarts
<1>5. ASSUME ~Restart
      PROVE  /\ \A n, kinds, of : Doc(Listed, n, kinds, of) =>
                                      Doc(Listed', n, kinds, of)
             /\ \A c, i, s : StepDoc(Listed, c, i, s) =>
                                 StepDoc(Listed', c, i, s)
             /\ Listed \subseteq Listed'
  <2>1. Listed \subseteq Listed'
    BY <1>5, EvidenceGrows
  <2> QED  BY <2>1, DocGrows
<1>6. ASSUME ~Restart, run'.steps = run.steps, UNCHANGED <<call, calls>>,
             pc' = "document" => run'.fate # "failed",
             call.op = "replay" /\ answer' \in {"ok", "failed"} =>
                 answer \in {"ok", "failed"} \/ HasItem("ReplayRun", <<calls, 0>>)'
      PROVE  EvidenceInv'
  <2>1. HasItem("ReplayRun", <<calls, 0>>) => HasItem("ReplayRun", <<calls, 0>>)'
    BY <1>5, <1>6 DEF HasItem
  <2>2. \A i \in DOMAIN run'.steps : StepDoc(Listed', calls', i, run'.steps[i])
    BY <1>5, <1>6 DEF EvidenceInv
  <2> QED  BY <1>6, <2>1, <2>2 DEF EvidenceInv
<1>7. CASE (WriteArtifact \/ WriteExport \/ Rebuild) /\ ~Restart
  BY <1>6, <1>7, FileWriteFacts
<1>8. CASE (Reject \/ Warn \/ BadAction \/ Error) /\ ~Restart
  <2>1. pc' # "document" /\ answer' \notin {"ok", "failed"}
    BY <1>8 DEF Reject, Warn, BadAction, Error, Writes, More, Goes, Answers, FateInv
  <2> QED  BY <1>6, <1>8, <2>1, RunKept
<1>9. ASSUME NEW fate \in Fates \ {"none"}, PerformStep(fate), ~Restart PROVE EvidenceInv'
  <2>1. run'.fate = fate /\ answer' = "none" /\ (pc' = "document" => fate = "ok")
    BY <1>0, <1>9 DEF PerformStep, More, Goes, Fates, FateInv, Running
  <2> QED  BY <1>6, <1>9, <2>1, RunKept
<1>10. CASE Report /\ ~Restart
  <2>1. /\ run'.steps = run.steps /\ UNCHANGED <<call, calls>> /\ run'.fate = run.fate
        /\ answer' = "none"
    BY <1>0, <1>10 DEF Report, Goes, FateInv, Running, storeVars
  <2>2. CASE pc' # "document"
    BY <1>6, <1>10, <2>1, <2>2
  <2>3. CASE pc' = "document"
    <3>1. Added("ToolError", <<calls, At>>) /\ run'.error = counter'
      BY <1>0, <1>10, <2>3 DEF Report, Goes, Running
    <3>2. Doc(Listed', run'.error, {"ToolError"}, <<calls, At>>)
      BY <3>1, AddedKeeps DEF Doc
    <3>3. calls' = calls /\ At' = At
      BY <2>1 DEF At
    <3>4. \A i \in DOMAIN run'.steps : StepDoc(Listed', calls', i, run'.steps[i])
      BY <1>5, <1>10, <2>1 DEF EvidenceInv
    <3> QED  BY <2>1, <3>2, <3>3, <3>4 DEF EvidenceInv
  <2> QED  BY <2>2, <2>3
<1>11. CASE Finish /\ ~Restart
  <2>1. UNCHANGED run /\ pc' # "document"
    BY <1>11 DEF Finish, Goes, Answers
  <2>2. answer' \in {"ok", "failed"} => HasItem("ReplayRun", <<calls, 0>>)'
    <3>1. answer' \in {"ok", "failed"} =>
              Added("ReplayRun", <<calls, 0>>) /\ UNCHANGED calls
      BY <1>11 DEF Finish, Goes, Answers, FateInv
    <3> QED  BY <3>1, AddedKeeps DEF HasItem
  <2> QED  BY <1>6, <1>11, <2>1, <2>2, RunKept
<1>12. CASE (Skip \/ MissingAction \/ Document \/ Caught) /\ ~Restart
  <2>1. UNCHANGED <<call, calls>> /\ answer' = "none" /\ pc' # "document"
    BY <1>12 DEF Skip, MissingAction, Document, Caught, More, Goes, FateInv
  <2>2. CASE UNCHANGED run
    BY <1>6, <1>12, <2>1, <2>2
  <2>3. CASE ~UNCHANGED run
    <3>1. PICK status \in {"success", "failed", "skipped"}, n \in Nat, e \in Nat :
               /\ Ended(status, n, e) /\ n = counter'
               /\ status = "success" => e = 0
               /\ status = "skipped" => e = 0
               /\ \/ status = "skipped" /\ Added("ReplayStep", <<calls, At>>)
                  \/ status = "failed" /\ e = n /\ Added("ToolError", <<calls, At>>)
                  \/ /\ status # "skipped" /\ e = run.error /\ pc = "document"
                     /\ status = "success" <=> run.fate = "ok"
                     /\ Added("ReplayStep", <<calls, At>>)
      BY <1>12, <2>3, Endings
    <3> DEFINE res == [status |-> status, fate |-> run.fate, evidence |-> n, error |-> e]
    <3>2. /\ DOMAIN run'.steps = 1 .. At /\ DOMAIN run.steps = 1 .. At - 1 /\ At \in Nat \ {0}
          /\ run'.steps[At] = res
          /\ \A i \in 1 .. At - 1 : run'.steps[i] = run.steps[i]
      BY <1>0, <3>1, EndedFacts
    <3>3. StepDoc(Listed', calls, At, res)
      <4>1. CASE status = "skipped" /\ Added("ReplayStep", <<calls, At>>)
        <5>1. Doc(Listed', n, {"ReplayStep"}, <<calls, At>>)
          BY <3>1, <4>1, AddedKeeps DEF Doc
        <5> QED  BY <3>1, <4>1, <5>1 DEF StepDoc
      <4>2. CASE status = "failed" /\ e = n /\ Added("ToolError", <<calls, At>>)
        <5>1. /\ Doc(Listed', n, {"ReplayStep", "ToolError"}, <<calls, At>>)
              /\ Doc(Listed', n, {"ToolError"}, <<calls, At>>)
          BY <3>1, <4>2, AddedKeeps DEF Doc
        <5> QED  BY <4>2, <5>1 DEF StepDoc
      <4>3. CASE /\ status # "skipped" /\ e = run.error /\ pc = "document"
                 /\ status = "success" <=> run.fate = "ok"
                 /\ Added("ReplayStep", <<calls, At>>)
        <5>1. /\ Doc(Listed', n, {"ReplayStep", "ToolError"}, <<calls, At>>)
              /\ Doc(Listed', n, {"ReplayStep"}, <<calls, At>>)
          BY <3>1, <4>3, AddedKeeps DEF Doc
        <5>2. status = "failed" => Doc(Listed', e, {"ToolError"}, <<calls, At>>)
          <6>1. status = "failed" => run.fate = "failed"
            BY <4>3 DEF FateInv
          <6> QED  BY <1>5, <1>12, <4>3, <6>1 DEF EvidenceInv
        <5> QED  BY <3>1, <4>3, <5>1, <5>2 DEF StepDoc
      <4> QED  BY <3>1, <4>1, <4>2, <4>3
    <3> HIDE DEF res
    <3>4. \A i \in DOMAIN run'.steps : StepDoc(Listed', calls', i, run'.steps[i])
      BY <1>5, <1>12, <2>1, <3>2, <3>3 DEF EvidenceInv
    <3> QED  BY <2>1, <3>4 DEF EvidenceInv
  <2> QED  BY <2>2, <2>3
<1>13. CASE UNCHANGED vars
  BY <1>13 DEF vars, EvidenceInv, HasItem, Listed, At
<1> QED  BY <1>2, <1>3, <1>4, <1>7, <1>8, <1>9, <1>10, <1>11, <1>12, <1>13, NextParts

\* Every result of a replay names items about its own step, a failure always a
\* ToolError, and an answered replay has its ReplayRun; all are in the index unless
\* the last write of it was cut short.
THEOREM StepsHaveEvidence == Spec => []EvidenceOfSteps
<1>1. Init => EvidenceInv
  BY NoRunFacts DEF Init, EvidenceInv, NoCall, CallOf
<1>2. StepInv => FateInv
  BY DEF StepInv
<1> QED  BY <1>1, <1>2, EvidenceStep, EvidenceMeaning, Stepping, PTL DEF Spec

-------------------------------------------------------------------------------
(* What a name replays *)

\* The files of one name against its history.
NameInv(f, rec, sav, su, whole) ==
    /\ su <= Len(sav)
    /\ f.gar.form = "absent" => rec = {<<>>}
    /\ whole =>
           /\ f.gar.form # "absent" => <<Acts(f.gar)>> \in rec
           /\ f.jsonl.steps = Steps(sav)
           /\ f.gar.form = "absent" /\ f.json.form # "absent" =>
                  \E k \in su .. Len(sav) : Acts(f.json) = SubSeq(sav, 1, k)

\* Of every name; of the recording in progress; and of the artifact of a recording
\* whose export is still to be written.
StoredInv ==
    /\ \A n \in Names : NameInv(files[n], recorded[n], saved[n], sure[n], n \notin torn)
    /\ recording.active => since = recording.acts
    /\ pc = "export" =>
           /\ files[recording.name].gar.form # "absent"
           /\ recording.name \notin torn => Acts(files[recording.name].gar) = since

\* A replay by name that is not over has what the property asks for already.
SourceInv ==
    LET n == call.name
    IN  call.op = "replay" /\ n \in Names \ torn =>
            \/ <<Acts(run.plan)>> \in recorded[n]
            \/ /\ <<>> \in recorded[n]
               /\ \E k \in sure[n] .. Len(saved[n]) :
                     Acts(run.plan) = SubSeq(saved[n], 1, k)

LEMMA ActsOfSteps ==
    ASSUME NEW acts \in Group, NEW plan, plan.steps = Steps(acts)
    PROVE  Acts(plan) = acts
<1>1. DOMAIN Steps(acts) = DOMAIN acts /\ \A i \in DOMAIN acts : Steps(acts)[i].act = acts[i]
  BY DEF Steps, Kept
<1>2. acts = [i \in DOMAIN acts |-> acts[i]]
  BY DEF Group
<1> QED  BY <1>1, <1>2 DEF Acts

LEMMA AppendSteps ==
    ASSUME NEW acts \in Group, NEW a \in Actions
    PROVE  Appended(Steps(acts), Kept(a)) = Steps(Append(acts, a))
<1> DEFINE old == Steps(acts)
           new == Steps(Append(acts, a))
<1>0. ASSUME NEW t \in Group
      PROVE  /\ Steps(t) \in Seq(Step) /\ Len(Steps(t)) = Len(t) /\ Len(t) \in Nat
             /\ \A i \in 1 .. Len(t) : Steps(t)[i] = Kept(t[i])
  BY StepsType DEF Steps, Group
<1>1. old \in Seq(Step) /\ Len(old) = Len(acts) /\ Len(acts) \in Nat
      /\ \A i \in 1 .. Len(acts) : old[i] = Kept(acts[i])
  BY <1>0
<1>2. Append(acts, a) \in Group /\ Len(Append(acts, a)) = Len(acts) + 1
  BY DEF Group
<1>3. new \in Seq(Step) /\ Len(new) = Len(acts) + 1
      /\ \A i \in 1 .. Len(acts) + 1 : new[i] = Kept(Append(acts, a)[i])
  BY <1>0, <1>2
<1>4. ~Unfinished(old)
  <2>1. \A b : Kept(b) # Bad
    BY DEF Kept, Bad
  <2> HIDE DEF old
  <2>2. old # <<>> => Len(old) \in 1 .. Len(old)
    BY <1>1
  <2>3. old # <<>> => old[Len(old)] = Kept(acts[Len(acts)])
    BY <1>1, <2>2
  <2> QED  BY <2>1, <2>3 DEF Unfinished
<1>5. Appended(old, Kept(a)) = Append(old, Kept(a))
  BY <1>4 DEF Appended
<1>6. Kept(a) \in Step
  BY KeptType
<1>7. \A i \in 1 .. Len(acts) + 1 : Append(old, Kept(a))[i] = new[i]
  <2> TAKE i \in 1 .. Len(acts) + 1
  <2> HIDE DEF old, new
  <2>1. CASE i = Len(acts) + 1
    <3>1. Append(acts, a)[i] = a
      BY <2>1 DEF Group
    <3> QED  BY <1>1, <1>3, <2>1, <3>1
  <2>2. CASE i \in 1 .. Len(acts)
    <3>1. Append(acts, a)[i] = acts[i]
      BY <2>2 DEF Group
    <3> QED  BY <1>1, <1>3, <1>6, <2>2, <3>1
  <2> QED  BY <1>1, <2>1, <2>2
<1>8. Append(old, Kept(a)) = new
  <2> HIDE DEF old, new
  <2>1. Append(old, Kept(a)) \in Seq(Step) /\ Len(Append(old, Kept(a))) = Len(acts) + 1
    BY <1>1, <1>6
  <2> QED  BY <1>3, <1>7, <2>1, SeqEqual
<1> QED  BY <1>5, <1>8

LEMMA SubSeqAppend ==
    ASSUME NEW acts \in Group, NEW a \in Actions, NEW k \in 0 .. Len(acts)
    PROVE  SubSeq(Append(acts, a), 1, k) = SubSeq(acts, 1, k)
<1>1. Append(acts, a) \in Seq(Actions) /\ Len(Append(acts, a)) = Len(acts) + 1
      /\ \A i \in 1 .. Len(acts) : Append(acts, a)[i] = acts[i]
  BY DEF Group
<1> QED  BY <1>1 DEF Group

LEMMA SubSeqWhole ==
    ASSUME NEW acts \in Group
    PROVE  SubSeq(acts, 1, Len(acts)) = acts
BY SubSeqFull DEF Group

\* Put() and PutCut() change one file of one name.
LEMMA PutFacts ==
    ASSUME files \in [Names -> Stored], NEW n \in Names,
           NEW which \in {"gar", "json", "jsonl"}, NEW f, Put(n, which, f)
    PROVE  /\ \A m \in Names \ {n} : files'[m] = files[m]
           /\ which = "gar" => files'[n].gar = f /\ files'[n].json = files[n].json
                               /\ files'[n].jsonl = files[n].jsonl
           /\ which = "json" => files'[n].json = f /\ files'[n].gar = files[n].gar
                                /\ files'[n].jsonl = files[n].jsonl
           /\ which = "jsonl" => files'[n].jsonl = f /\ files'[n].gar = files[n].gar
                                 /\ files'[n].json = files[n].json
<1>1. files' = [files EXCEPT ![n] = [files[n] EXCEPT ![which] = f]]
  BY DEF Put
<1>2. files'[n] = [files[n] EXCEPT ![which] = f] /\ \A m \in Names \ {n} : files'[m] = files[m]
  BY <1>1
<1>3. files[n] \in Stored
  OBVIOUS
<1> QED  BY <1>2, <1>3 DEF Stored

LEMMA CutForms == \A f \in Cut : f.form # "absent"
<1>1. \A f \in {"blank", "cut"} : [Absent EXCEPT !.form = f].form = f
  BY DEF Absent
<1> QED  BY <1>1 DEF Cut

\* What is written when a file of n is cut: n is no longer whole, and an artifact
\* that was there still is.
LEMMA PutCutFacts ==
    ASSUME files \in [Names -> Stored], NEW n \in Names,
           NEW which \in {"gar", "json", "jsonl"}, PutCut(n, which)
    PROVE  /\ torn' = torn \cup {n}
           /\ \A m \in Names \ {n} : files'[m] = files[m]
           /\ which = "gar" => files'[n].gar.form # "absent"
           /\ which # "gar" => files'[n].gar = files[n].gar
<1>1. PICK f \in Cut : Put(n, which, f)
  BY DEF PutCut
<1>2. f.form # "absent"
  BY CutForms
<1> QED  BY <1>1, <1>2, PutFacts DEF PutCut

\* A step that changes the files and the history of one name only.
LEMMA OtherNames ==
    ASSUME StoredInv, NEW n \in Names,
           \A m \in Names \ {n} : files'[m] = files[m] /\ recorded'[m] = recorded[m]
                                  /\ saved'[m] = saved[m] /\ sure'[m] = sure[m],
           torn' \in {torn, torn \cup {n}},
           NameInv(files'[n], recorded'[n], saved'[n], sure'[n], n \notin torn'),
           recording'.active => since' = recording'.acts,
           pc' = "export" =>
               /\ files'[recording'.name].gar.form # "absent"
               /\ recording'.name \notin torn' => Acts(files'[recording'.name].gar) = since'
    PROVE  StoredInv'
<1>1. \A m \in Names \ {n} : m \notin torn' <=> m \notin torn
  OBVIOUS
<1>2. ASSUME NEW m \in Names \ {n}
      PROVE  NameInv(files'[m], recorded'[m], saved'[m], sure'[m], m \notin torn')
  <2>1. NameInv(files[m], recorded[m], saved[m], sure[m], m \notin torn)
    BY DEF StoredInv
  <2> QED  BY <1>1, <2>1 DEF NameInv
<1>3. \A m \in Names : NameInv(files'[m], recorded'[m], saved'[m], sure'[m], m \notin torn')
  BY <1>2
<1> QED  BY <1>3 DEF StoredInv, NameInv, Acts

LEMMA StoredKept ==
    ASSUME StoredInv, UNCHANGED <<files, recorded, saved, sure, torn>>,
           recording'.active => since' = recording'.acts, pc' # "export"
    PROVE  StoredInv'
BY DEF StoredInv, NameInv, Acts

LEMMA SaveStored ==
    ASSUME TypeOK, StoredInv, NEW n \in Names, NEW a \in Savable, NEW p, Save(n, a, p)
    PROVE  StoredInv'
<1> DEFINE steps == files[n].jsonl.steps
<1>0. StoreType /\ a \in Actions
  BY TypeParts, ReplaysAssumption
<1>1. NameInv(files[n], recorded[n], saved[n], sure[n], n \notin torn)
  BY DEF StoredInv
<1>2. saved[n] \in Group /\ sure[n] \in Nat /\ Len(saved[n]) \in Nat
  BY <1>0 DEF StoreType, Group
<1>3. /\ pc' # "export" /\ UNCHANGED <<recording, since, recorded, sure>>
      /\ recording'.active => since' = recording'.acts
  BY DEF Save, Calls, StoredInv
<1>4. CASE /\ Put(n, "jsonl", Lines(Appended(steps, Kept(a))))
           /\ saved' = [saved EXCEPT ![n] = Append(@, a)]
           /\ UNCHANGED <<failures, torn>>
  <2> DEFINE f == Lines(Appended(steps, Kept(a)))
  <2>1. /\ \A m \in Names \ {n} : files'[m] = files[m]
        /\ files'[n].jsonl = f /\ files'[n].gar = files[n].gar /\ files'[n].json = files[n].json
    BY <1>0, <1>4, PutFacts DEF StoreType
  <2>2. f.steps = Appended(steps, Kept(a))
    <3>1. \A l : Lines(l).steps = l
      BY DEF Lines, Absent
    <3> QED  BY <3>1
  <2>3. saved'[n] = Append(saved[n], a) /\ \A m \in Names \ {n} : saved'[m] = saved[m]
    BY <1>0, <1>4 DEF StoreType
  <2> HIDE DEF f
  <2>4. Len(Append(saved[n], a)) = Len(saved[n]) + 1
    BY <1>2 DEF Group
  <2>5. n \notin torn => files'[n].jsonl.steps = Steps(saved'[n])
    BY <1>0, <1>1, <1>2, <2>1, <2>2, <2>3, AppendSteps DEF NameInv
  <2>6. \A k \in sure[n] .. Len(saved[n]) :
            /\ k \in sure[n] .. Len(saved'[n])
            /\ SubSeq(saved'[n], 1, k) = SubSeq(saved[n], 1, k)
    BY <1>0, <1>2, <2>3, <2>4, SubSeqAppend
  <2>7. sure[n] <= Len(saved'[n])
    BY <1>1, <1>2, <2>3, <2>4 DEF NameInv
  <2>8. n \notin torn /\ files'[n].gar.form = "absent" /\ files'[n].json.form # "absent" =>
            \E k \in sure'[n] .. Len(saved'[n]) : Acts(files'[n].json) = SubSeq(saved'[n], 1, k)
    <3>1. ASSUME n \notin torn, files[n].gar.form = "absent", files[n].json.form # "absent"
          PROVE  \E k \in sure[n] .. Len(saved[n]) :
                     Acts(files[n].json) = SubSeq(saved[n], 1, k)
      BY <1>1, <3>1 DEF NameInv
    <3> QED  BY <1>3, <2>1, <2>6, <3>1
  <2>9. NameInv(files'[n], recorded'[n], saved'[n], sure'[n], n \notin torn')
    <3>1. files'[n].gar.form = "absent" => recorded'[n] = {<<>>}
      BY <1>1, <1>3, <2>1 DEF NameInv
    <3>2. n \notin torn' /\ files'[n].gar.form # "absent" =>
              <<Acts(files'[n].gar)>> \in recorded'[n]
      BY <1>1, <1>3, <1>4, <2>1 DEF NameInv
    <3> QED  BY <1>3, <1>4, <2>5, <2>7, <2>8, <3>1, <3>2 DEF NameInv
  <2> QED  BY <1>3, <1>4, <2>1, <2>3, <2>9, OtherNames
<1>5. CASE /\ \E l \in {steps, Appended(steps, Bad)} : Put(n, "jsonl", Lines(l))
           /\ Fails /\ torn' = torn \cup {n} /\ UNCHANGED saved
  <2>1. PICK l : Put(n, "jsonl", Lines(l))
    BY <1>5
  <2>2. \A m \in Names \ {n} : files'[m] = files[m]
    BY <1>0, <2>1, PutFacts DEF StoreType
  <2>3. files'[n].gar = files[n].gar
    BY <1>0, <2>1, PutFacts DEF StoreType
  <2>4. NameInv(files'[n], recorded'[n], saved'[n], sure'[n], n \notin torn')
    BY <1>1, <1>3, <1>5, <2>3 DEF NameInv
  <2> QED  BY <1>3, <1>5, <2>2, <2>4, OtherNames
<1> QED  BY <1>4, <1>5 DEF Save

LEMMA ArtifactStored ==
    ASSUME TypeOK, Placed, StoredInv, WriteArtifact
    PROVE  StoredInv'
<1> DEFINE n == recording.name
<1>0. StoreType
  BY TypeParts
<1>1. n \in Names /\ recording.active /\ since = recording.acts
  BY DEF WriteArtifact, Placed, StoredInv
<1>2. NameInv(files[n], recorded[n], saved[n], sure[n], n \notin torn)
  BY <1>1 DEF StoredInv
<1>3. CASE /\ Put(n, "gar", Recorded) /\ Goes("export")
           /\ recorded' = [recorded EXCEPT ![n] = @ \cup {<<since>>}]
           /\ UNCHANGED <<failures, task, recording, since, saved, sure, torn>>
  <2>1. /\ \A m \in Names \ {n} : files'[m] = files[m]
        /\ files'[n].gar = Recorded /\ files'[n].json = files[n].json
        /\ files'[n].jsonl = files[n].jsonl
    BY <1>0, <1>1, <1>3, PutFacts DEF StoreType
  <2>2. Recorded.form = "plan" /\ Recorded.steps = Steps(recording.acts)
    BY DEF Recorded, PlanOf
  <2>3. Acts(Recorded) = since
    BY <1>0, <1>1, <2>2, ActsOfSteps DEF StoreType, Recording
  <2>4. <<since>> \in recorded'[n] /\ \A m \in Names \ {n} : recorded'[m] = recorded[m]
    BY <1>0, <1>1, <1>3 DEF StoreType
  <2>5. NameInv(files'[n], recorded'[n], saved'[n], sure'[n], n \notin torn')
    BY <1>2, <1>3, <2>1, <2>2, <2>3, <2>4 DEF NameInv
  <2> QED  BY <1>1, <1>3, <2>1, <2>2, <2>3, <2>4, <2>5, OtherNames
<1>4. CASE /\ PutCut(n, "gar") /\ Goes("export")
           /\ UNCHANGED <<task, recording, since, recorded, saved, sure>>
  <2>1. /\ torn' = torn \cup {n} /\ files'[n].gar.form # "absent"
        /\ \A m \in Names \ {n} : files'[m] = files[m]
    BY <1>0, <1>1, <1>4, PutCutFacts DEF StoreType
  <2>2. NameInv(files'[n], recorded'[n], saved'[n], sure'[n], n \notin torn')
    BY <1>2, <1>4, <2>1 DEF NameInv
  <2> QED  BY <1>1, <1>4, <2>1, <2>2, OtherNames
<1>5. CASE Throws
  BY <1>1, <1>5, StoredKept DEF Throws, Goes, storeVars, historyVars
<1> QED  BY <1>3, <1>4, <1>5 DEF WriteArtifact

LEMMA ExportStored ==
    ASSUME TypeOK, Placed, StoredInv, WriteExport
    PROVE  StoredInv'
<1> DEFINE n == recording.name
<1>0. StoreType
  BY TypeParts
<1>1. n \in Names /\ recording.active /\ since = recording.acts /\ pc = "export"
  BY DEF WriteExport, Placed, StoredInv
<1>2. NameInv(files[n], recorded[n], saved[n], sure[n], n \notin torn)
  BY <1>1 DEF StoredInv
<1>3. files[n].gar.form # "absent" /\ (n \notin torn => Acts(files[n].gar) = since)
  BY <1>1 DEF StoredInv
<1>4. CASE /\ Put(n, "json", Recorded) \/ PutCut(n, "json")
           /\ torn' \in {torn, torn \cup {n}} /\ (Put(n, "json", Recorded) \/ n \in torn')
           /\ Answers("ok")
           /\ recording' = [recording EXCEPT !.active = FALSE, !.acts = <<>>]
           /\ recorded' = [recorded EXCEPT ![n] = {<<since>>}]
           /\ UNCHANGED <<task, since, saved, sure>>
  <2>1. /\ \A m \in Names \ {n} : files'[m] = files[m]
        /\ files'[n].gar = files[n].gar
        /\ n \notin torn' => files'[n].jsonl = files[n].jsonl
    BY <1>0, <1>1, <1>4, PutFacts, PutCutFacts DEF StoreType
  <2>2. recorded'[n] = {<<since>>} /\ \A m \in Names \ {n} : recorded'[m] = recorded[m]
    BY <1>0, <1>1, <1>4 DEF StoreType
  <2>3. NameInv(files'[n], recorded'[n], saved'[n], sure'[n], n \notin torn')
    BY <1>2, <1>3, <1>4, <2>1, <2>2 DEF NameInv
  <2>4. recording'.active = FALSE
    BY <1>0, <1>4 DEF StoreType, Recording
  <2>5. pc' = "idle"
    BY <1>4 DEF Answers
  <2> QED  BY <1>1, <1>4, <2>1, <2>2, <2>3, <2>4, <2>5, OtherNames
<1>5. CASE Throws
  BY <1>1, <1>5, StoredKept DEF Throws, Goes, storeVars, historyVars
<1> QED  BY <1>4, <1>5 DEF WriteExport, PutCut

LEMMA RebuildStored ==
    ASSUME TypeOK, Placed, StoredInv, Rebuild
    PROVE  StoredInv'
<1> DEFINE n     == call.name
           lines == files[n].jsonl.steps
<1>0. StoreType
  BY TypeParts
<1>1. n \in Names
  BY DEF Rebuild, Placed
<1>2. NameInv(files[n], recorded[n], saved[n], sure[n], n \notin torn)
  BY <1>1 DEF StoredInv
<1>3. saved[n] \in Group /\ Len(saved[n]) \in Nat
  BY <1>0, <1>1 DEF StoreType, Group
<1>4. CASE /\ \/ Put(n, "json", PlanOf(lines, call.policy)) /\ UNCHANGED <<failures, torn>>
              \/ PutCut(n, "json")
           /\ Answers("ok")
           /\ sure' = [sure EXCEPT ![n] = Len(saved[n])]
           /\ UNCHANGED <<task, recording, since, recorded, saved>>
  <2> DEFINE plan == PlanOf(lines, call.policy)
  <2>1. plan.steps = lines /\ plan.form = "plan"
    BY DEF PlanOf
  <2>2. /\ \A m \in Names \ {n} : files'[m] = files[m]
        /\ files'[n].gar = files[n].gar
        /\ torn' \in {torn, torn \cup {n}}
        /\ n \notin torn' => files'[n].json = plan /\ files'[n].jsonl = files[n].jsonl
    BY <1>0, <1>1, <1>4, PutFacts, PutCutFacts DEF StoreType
  <2> HIDE DEF plan
  <2>3. sure'[n] = Len(saved[n]) /\ \A m \in Names \ {n} : sure'[m] = sure[m]
    BY <1>0, <1>1, <1>4 DEF StoreType
  <2>4. n \notin torn => Acts(plan) = saved[n]
    BY <1>2, <1>3, <2>1, ActsOfSteps DEF NameInv
  <2>5. n \notin torn => Acts(plan) = SubSeq(saved[n], 1, Len(saved[n]))
    BY <1>3, <2>4, SubSeqWhole
  <2>6. NameInv(files'[n], recorded'[n], saved'[n], sure'[n], n \notin torn')
    <3>1. n \notin torn' => n \notin torn
      BY <2>2
    <3>2. Len(saved[n]) \in sure'[n] .. Len(saved'[n]) /\ sure'[n] <= Len(saved'[n])
      BY <1>3, <1>4, <2>3
    <3> QED  BY <1>2, <1>4, <2>2, <2>5, <3>1, <3>2 DEF NameInv
  <2>7. /\ pc' # "export" /\ recording' = recording /\ since' = since
        /\ recording'.active => since' = recording'.acts
    BY <1>4 DEF Answers, StoredInv
  <2> QED  BY <1>1, <1>4, <2>2, <2>3, <2>6, <2>7, OtherNames
<1>5. CASE (Throws \/ Goes("error")) /\ UNCHANGED storeVars
  BY <1>5, StoredKept DEF Throws, Goes, storeVars, historyVars, StoredInv
<1> QED  BY <1>4, <1>5 DEF Rebuild, Throws

LEMMA StoredStep == TypeOK /\ Placed /\ FateInv /\ StoredInv /\ [Next]_vars => StoredInv'
<1> SUFFICES ASSUME TypeOK, Placed, FateInv, StoredInv, [Next]_vars PROVE StoredInv'
  OBVIOUS
<1>0. StoreType
  BY TypeParts
<1>1. CASE /\ UNCHANGED <<files, recorded, saved, sure, torn, recording, since>>
           /\ pc' # "export"
  BY <1>1, StoredKept DEF StoredInv
<1>2. ASSUME NEW a, Perform(a) PROVE StoredInv'
  <2>1. /\ UNCHANGED <<files, recorded, saved, sure, torn>> /\ pc' = "idle"
    BY <1>2 DEF Perform, Calls
  <2>2. recording'.active => since' = recording'.acts
    BY <1>0, <1>2 DEF Perform, StoredInv, StoreType, Recording
  <2> QED  BY <2>1, <2>2, StoredKept
<1>3. ASSUME NEW n, NEW p, RecordStart(n, p) PROVE StoredInv'
  <2>1. UNCHANGED <<files, recorded, saved, sure, torn>> /\ pc' # "export"
    BY <1>3 DEF RecordStart, Calls
  <2>2. recording'.active => since' = recording'.acts
    BY <1>3 DEF RecordStart, StoredInv
  <2> QED  BY <2>1, <2>2, StoredKept
<1>4. CASE RecordDiscard
  <2>1. UNCHANGED <<files, recorded, saved, sure, torn>> /\ pc' # "export"
    BY <1>4 DEF RecordDiscard, Calls, historyVars
  <2>2. recording'.active => since' = recording'.acts
    BY <1>4 DEF RecordDiscard, NoRecording, StoredInv, historyVars
  <2> QED  BY <2>1, <2>2, StoredKept
<1>5. CASE RecordStop \/ \E n, a, p : SaveRefused(n, a, p)
  BY <1>1, <1>5 DEF RecordStop, SaveRefused, Calls, storeVars, historyVars
<1>6. ASSUME NEW n, NEW file \in File, NEW force, NEW p, Replay(n, file, force, p)
      PROVE  StoredInv'
  <2>1. pc' # "export"
    BY <1>6, ReplayStarts
  <2> QED  BY <1>1, <1>6, <2>1 DEF Replay, storeVars, historyVars
<1>7. CASE Reject \/ Warn \/ BadAction \/ Report \/ Skip \/ MissingAction \/ Document
           \/ Caught \/ Finish \/ Error \/ \E fate \in Fates \ {"none"} : PerformStep(fate)
  <2>1. UNCHANGED storeVars
    BY <1>7 DEF Reject, Warn, BadAction, Report, Skip, MissingAction, Document, Caught,
                Finish, Error, PerformStep
  <2>2. pc' # "export"
    BY <1>7 DEF Reject, Warn, BadAction, Report, Skip, MissingAction, Document, Caught,
                Finish, Error, PerformStep, Writes, Goes, Answers, Fates
  <2> QED  BY <1>1, <2>1, <2>2 DEF storeVars, historyVars
<1>8. CASE Restart
  <2>1. UNCHANGED <<files, recorded, saved, sure, torn>> /\ pc' = "idle"
        /\ recording' = NoRecording
    BY <1>8 DEF Restart
  <2> QED  BY <2>1, StoredKept DEF NoRecording
<1>9. CASE UNCHANGED vars
  <2>1. UNCHANGED <<files, recorded, saved, sure, torn, recording, since, pc>>
    BY <1>9 DEF vars
  <2>2. \A n \in Names : NameInv(files'[n], recorded'[n], saved'[n], sure'[n], n \notin torn')
    BY <2>1 DEF StoredInv
  <2>3. recording'.active => since' = recording'.acts
    BY <2>1 DEF StoredInv
  <2>4. ASSUME pc' = "export"
        PROVE  /\ files'[recording'.name].gar.form # "absent"
               /\ recording'.name \notin torn' =>
                      Acts(files'[recording'.name].gar) = since'
    BY <2>1, <2>4 DEF StoredInv, Acts
  <2> QED  BY <2>2, <2>3, <2>4 DEF StoredInv, Acts
<1>10. CASE Handler
  <2>1. CASE WriteArtifact
    BY <2>1, ArtifactStored
  <2>2. CASE WriteExport
    BY <2>2, ExportStored
  <2>3. CASE Rebuild
    BY <2>3, RebuildStored
  <2> QED  BY <1>7, <1>10, <2>1, <2>2, <2>3 DEF Handler
<1>11. CASE Caller
  <2>1. \A n \in Names : SourceOf(n) \in File /\ files[n].jsonl \in File
    BY <1>0 DEF SourceOf, StoreType, Stored
  <2>2. CASE \E n \in Names, force \in BOOLEAN, p \in Policies : Replay(n, SourceOf(n), force, p)
    BY <1>6, <2>1, <2>2
  <2>3. CASE \E f \in HandPlans \cup {files[n].jsonl : n \in Names}, force \in BOOLEAN,
               p \in Policies : Replay("none", f, force, p)
    BY <1>6, <2>1, <2>3, HandPlansAssumption
  <2>4. ASSUME NEW n \in Names, NEW a \in Savable, NEW p, Save(n, a, p) PROVE StoredInv'
    BY <2>4, SaveStored
  <2> QED  BY <1>2, <1>3, <1>4, <1>5, <1>11, <2>2, <2>3, <2>4 DEF Caller
<1> QED  BY <1>8, <1>9, <1>10, <1>11 DEF Next

LEMMA SourceStart ==
    ASSUME TypeOK, StoredInv, NEW n \in Names \ torn
    PROVE  \/ <<Acts(SourceOf(n))>> \in recorded[n]
           \/ /\ <<>> \in recorded[n]
              /\ \E k \in sure[n] .. Len(saved[n]) : Acts(SourceOf(n)) = SubSeq(saved[n], 1, k)
<1>1. NameInv(files[n], recorded[n], saved[n], sure[n], n \notin torn)
  BY DEF StoredInv
<1>2. saved[n] \in Group /\ Len(saved[n]) \in Nat /\ sure[n] \in Nat
  BY TypeParts DEF StoreType, Group
<1>3. CASE files[n].gar.form # "absent"
  BY <1>1, <1>3 DEF NameInv, SourceOf
<1>4. CASE files[n].gar.form = "absent" /\ files[n].json.form # "absent"
  BY <1>1, <1>4 DEF NameInv, SourceOf
<1>5. CASE files[n].gar.form = "absent" /\ files[n].json.form = "absent"
  <2>1. SourceOf(n) = files[n].jsonl /\ recorded[n] = {<<>>}
    BY <1>1, <1>5 DEF NameInv, SourceOf
  <2>2. Acts(files[n].jsonl) = saved[n]
    BY <1>1, <1>2, ActsOfSteps DEF NameInv
  <2>3. SubSeq(saved[n], 1, Len(saved[n])) = saved[n]
    BY <1>2, SubSeqWhole
  <2>4. Len(saved[n]) \in sure[n] .. Len(saved[n])
    BY <1>1, <1>2 DEF NameInv
  <2> QED  BY <2>1, <2>2, <2>3, <2>4
<1> QED  BY <1>3, <1>4, <1>5

LEMMA SourceStep ==
    TypeOK /\ Placed /\ FateInv /\ StoredInv /\ SourceInv /\ [Next]_vars => SourceInv'
<1> SUFFICES ASSUME TypeOK, Placed, FateInv, StoredInv, SourceInv, [Next]_vars
             PROVE  SourceInv'
  OBVIOUS
<1>1. ASSUME call'.op # "replay" PROVE SourceInv'
  BY <1>1 DEF SourceInv
<1>2. ASSUME UNCHANGED <<call, recorded, saved, sure, torn>>, run'.plan = run.plan
      PROVE  SourceInv'
  BY <1>2 DEF SourceInv, Acts
<1>3. CASE OtherCall
  BY <1>1, <1>3, OtherCallFacts
<1>4. CASE WriteArtifact \/ WriteExport \/ Rebuild
  BY <1>1, <1>4, FileWriteFacts
<1>5. ASSUME NEW n \in Names \cup {"none"}, NEW file \in File, NEW force, NEW p,
             Replay(n, file, force, p), n \in Names => file = SourceOf(n)
      PROVE  SourceInv'
  <2>1. /\ call' = [op |-> "replay", name |-> n, act |-> "none", policy |-> p, force |-> force]
        /\ run'.plan = file
    BY <1>5, ReplayStarts
  <2>2. call'.name = n
    BY <2>1
  <2>3. UNCHANGED <<recorded, saved, sure, torn>>
    BY <1>5 DEF Replay, storeVars, historyVars
  <2>4. n \in Names \ torn =>
            \/ <<Acts(file)>> \in recorded[n]
            \/ /\ <<>> \in recorded[n]
               /\ \E k \in sure[n] .. Len(saved[n]) : Acts(file) = SubSeq(saved[n], 1, k)
    BY <1>5, SourceStart
  <2>5. Acts(run'.plan) = Acts(file)
    BY <2>1
  <2> QED  BY <2>1, <2>2, <2>3, <2>4, <2>5 DEF SourceInv, Acts
<1>6. CASE Reject \/ Warn \/ BadAction \/ Report \/ Finish \/ Error
           \/ \E fate \in Fates \ {"none"} : PerformStep(fate)
  <2>1. UNCHANGED storeVars
    BY <1>6 DEF Reject, Warn, BadAction, Report, Finish, Error, PerformStep
  <2> QED  BY <1>2, <1>6, <2>1, RunKept DEF storeVars, historyVars
<1>7. CASE Skip \/ MissingAction \/ Document \/ Caught
  <2>1. UNCHANGED storeVars /\ UNCHANGED call
    BY <1>7 DEF Skip, MissingAction, Document, Caught, Goes
  <2>2. run'.plan = run.plan
    <3>1. CASE ~UNCHANGED run
      <4>1. run \in Running
        BY TypeParts
      <4> QED  BY <1>7, <3>1, <4>1, Endings, EndedFacts
    <3> QED  BY <3>1
  <2> QED  BY <1>2, <2>1, <2>2 DEF storeVars, historyVars
<1>8. CASE Restart
  BY <1>1, <1>8 DEF Restart, NoCall, CallOf
<1>9. CASE UNCHANGED vars
  BY <1>2, <1>9 DEF vars
<1> QED  BY <1>3, <1>4, <1>5, <1>6, <1>7, <1>8, <1>9, NextParts

LEMMA InitStored == Init => StoredInv /\ SourceInv
<1> SUFFICES ASSUME Init PROVE StoredInv /\ SourceInv
  OBVIOUS
<1>1. Steps(<<>>) = <<>>
  BY DEF Steps
<1>2. NameInv([gar |-> Absent, json |-> Absent, jsonl |-> Absent], {<<>>}, <<>>, 0, TRUE)
  BY <1>1 DEF NameInv, Absent
<1>3. StoredInv
  BY <1>2 DEF Init, StoredInv, NoRecording, NameInv
<1> QED  BY <1>3 DEF Init, SourceInv, NoCall, CallOf

\* A replay by name takes one whole group that was stored under it, the last that
\* a success was answered for or a later one, whatever failed, was discarded or
\* came to an end in between.
THEOREM StoredIsReplayed == Spec => []ReplaysWhatWasStored
<1>1. SourceInv => ReplaysWhatWasStored
  BY DEF SourceInv, ReplaysWhatWasStored
<1>2. StepInv => FateInv
  BY DEF StepInv
<1> QED  BY <1>1, <1>2, InitStored, StoredStep, SourceStep, Stepping, PTL DEF Spec

===============================================================================
