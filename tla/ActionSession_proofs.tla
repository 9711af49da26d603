------------------------- MODULE ActionSession_proofs -------------------------
(***************************************************************************)
(* Proofs about ActionSession, for any policies, plans, requests and       *)
(* bounds: its type invariant, that an error is final, and that a session  *)
(* that is told to be stopped is.                                          *)
(***************************************************************************)
EXTENDS ActionSession, FiniteSetTheorems, SequenceTheorems, TLAPS

-------------------------------------------------------------------------------
(* The type invariant *)

\* A result of exec_control().
Result == [error : BOOLEAN, exited : BOOLEAN, timedOut : BOOLEAN,
           trigger : 0 .. MaxProbes, number : 0 .. MaxProbes,
           after : {"none", "stopped", "running"}]

LEMMA AfterType ==
    ASSUME NEW f \in Frame, NEW ok \in BOOLEAN
    PROVE  After(f, ok) \in Frame
BY DEF After, Frame

LEMMA DeliverType ==
    ASSUME NEW below \in Seq(Frame), NEW ok \in BOOLEAN
    PROVE  Deliver(below, ok) \in Seq(Frame)
<1>1. CASE below = <<>>
  BY <1>1 DEF Deliver
<1>2. CASE below # <<>>
  <2>1. Len(below) \in 1 .. Len(below) /\ below[Len(below)] \in Frame
    BY <1>2
  <2>2. After(below[Len(below)], ok) \in Frame
    BY <2>1, AfterType
  <2> QED  BY <1>2, <2>1, <2>2 DEF Deliver
<1> QED  BY <1>1, <1>2

LEMMA FinishedType ==
    ASSUME TypeOK,
           NEW r \in Request, NEW ok \in BOOLEAN, NEW answer \in Answers,
           NEW below \in Seq(Frame),
           Finished(r, ok, answer, below)
    PROVE  stack' \in Seq(Frame) /\ recording' \in Recording /\ journal' \in Seq(Kinds)
<1>1. stack' \in Seq(Frame)
  BY DeliverType DEF Finished
<1>2. r.kind \in Kinds
  BY DEF Request
<1>3. recording' \in Recording
  <2> DEFINE entry == [kind |-> r.kind, answer |-> answer]
  <2>1. recording \in Recording /\ Append(recording.steps, entry) \in Seq([kind : Kinds, answer : Answers])
    BY <1>2 DEF TypeOK, Recording
  <2>2. [recording EXCEPT !.steps = Append(@, entry)] \in Recording
    BY <2>1 DEF Recording
  <2>3. recording' = [recording EXCEPT !.steps = Append(@, entry)] \/ recording' = recording
    BY DEF Finished, Recorded
  <2> QED  BY <2>1, <2>2, <2>3
<1>4. journal' \in Seq(Kinds)
  BY <1>2 DEF TypeOK, Finished
<1> QED  BY <1>1, <1>3, <1>4

LEMMA ThrownType ==
    ASSUME TypeOK, NEW below \in Seq(Frame), Thrown(below)
    PROVE  /\ stack' \in Seq(Frame) /\ lost' \in [Numbers -> Nat]
           /\ phase' \in {phase, "closed"} /\ UNCHANGED <<recording, journal>>
<1>1. PICK kept \in 0 .. Len(below) :
          /\ stack' = Deliver(SubSeq(below, 1, kept), FALSE)
          /\ phase' \in {phase, "closed"}
          /\ lost' = [n \in Numbers |-> lost[n] +
                         Cardinality({i \in kept + 1 .. Len(below) :
                                          below[i].known /\ below[i].number = n})]
  BY DEF Thrown
<1> DEFINE dropped(n) == {i \in kept + 1 .. Len(below) :
                             below[i].known /\ below[i].number = n}
<1>2. SubSeq(below, 1, kept) \in Seq(Frame)
  BY SubSeqProperties
<1>3. stack' \in Seq(Frame)
  BY <1>1, <1>2, DeliverType
<1>4. \A n \in Numbers : Cardinality(dropped(n)) \in Nat
  <2> TAKE n \in Numbers
  <2>1. IsFiniteSet(kept + 1 .. Len(below))
    BY FS_Interval
  <2>2. IsFiniteSet(dropped(n))
    BY <2>1, FS_Subset
  <2> QED  BY <2>2, FS_CardinalityType
<1>5. lost' = [n \in Numbers |-> lost[n] + Cardinality(dropped(n))]
  BY <1>1
<1>6. lost' \in [Numbers -> Nat]
  <2> HIDE DEF dropped
  <2> QED  BY <1>4, <1>5 DEF TypeOK
<1> QED  BY <1>1, <1>3, <1>6 DEF Thrown

\* What of the state an action's end leaves, however it ends.
CallsType ==
    /\ stack' \in Seq(Frame) /\ recording' \in Recording /\ journal' \in Seq(Kinds)
    /\ lost' \in [Numbers -> Nat]
    /\ phase' \in {"start", "prelude", "serving", "closed"}

LEMMA ThrownCalls ==
    ASSUME TypeOK, NEW below \in Seq(Frame), Thrown(below)
    PROVE  CallsType
BY ThrownType DEF CallsType, TypeOK

LEMMA FinishedCalls ==
    ASSUME TypeOK,
           NEW r \in Request, NEW ok \in BOOLEAN, NEW answer \in Answers,
           NEW below \in Seq(Frame),
           Finished(r, ok, answer, below), UNCHANGED <<phase, lost>>
    PROVE  CallsType
BY FinishedType DEF CallsType, TypeOK

LEMMA ReturnedCalls ==
    ASSUME TypeOK,
           NEW r \in Request, NEW ok \in BOOLEAN, NEW answer \in Answers,
           NEW below \in Seq(Frame),
           Returned(r, ok, answer, below)
    PROVE  CallsType
BY ThrownCalls, FinishedCalls DEF Returned

LEMMA ExecResultCases ==
    ASSUME NEW kind, NEW res \in ExecResults(kind)
    PROVE  \/ res = Refused
           \/ res \in ObeyedResults(kind) /\ inferior # "running"
           \/ res \in BelatedResults(kind) /\ inferior = "running"
<1> DEFINE A == ObeyedResults(kind)
           B == BelatedResults(kind)
<1>1. res \in {Refused}
             \cup (IF resumes < MaxResumes /\ (inferior = "stopped" \/ (inferior = "none" /\ kind # "continue"))
                     THEN A ELSE {})
             \cup (IF resumes < MaxResumes /\ inferior = "running" THEN B ELSE {})
  BY Zenon DEF ExecResults
<1> HIDE DEF A, B
<1>2. \/ res = Refused \/ (res \in A /\ inferior # "running")
      \/ (res \in B /\ inferior = "running")
  BY <1>1
<1> QED  BY <1>2 DEF A, B

LEMMA ResultType ==
    ASSUME TypeOK, NEW kind, NEW res \in ExecResults(kind)
    PROVE  res \in Result
<1>1. 0 \in 0 .. MaxProbes /\ Numbers \subseteq 0 .. MaxProbes
  BY BoundsAssumption DEF Numbers
<1>2. \A x \in BOOLEAN, t, n \in 0 .. MaxProbes, a \in {"none", "stopped", "running"} :
          Stop(x, t, n, a) \in Result
  BY DEF Stop, Result
<1>3. Armed(ProbeSet) \subseteq 0 .. MaxProbes /\ 1 .. made \subseteq 0 .. MaxProbes
  BY <1>1, BoundsAssumption DEF Armed, TypeOK
<1>4. \A x \in BOOLEAN, at \in SUBSET (0 .. MaxProbes), a \in {"none", "stopped", "running"} :
          Stops(x, at, a) \subseteq Result
  BY <1>1, <1>2 DEF Stops
<1>5. \A x \in BOOLEAN, a \in {"none", "stopped", "running"} : Deadline(x, a) \in Result
  BY <1>1 DEF Deadline, Stop, Result
<1>6. \A x \in BOOLEAN : Deadlines(x) \subseteq Result
  BY <1>5 DEF Deadlines
<1>7. Refused \in Result
  BY <1>1 DEF Refused, Stop, Result, TypeOK
<1>8. ProgramEnds \in Result
  BY <1>1, <1>2 DEF ProgramEnds
<1>9. ASSUME res \in ObeyedResults(kind)
      PROVE  res \in Result
  <2> DEFINE gone == kind = "run" /\ inferior = "stopped"
  <2>1. gone \in BOOLEAN
    OBVIOUS
  <2>2. \/ res \in Stops(gone, Armed(ProbeSet), "stopped") \/ res \in Deadlines(gone)
        \/ res = ProgramEnds
    BY <1>9 DEF ObeyedResults
  <2> HIDE DEF gone
  <2> QED  BY <1>3, <1>4, <1>6, <1>8, <2>1, <2>2
<1>10. ASSUME res \in BelatedResults(kind)
       PROVE  res \in Result
  <2>1. res = ProgramEnds \/ \E x \in {FALSE, kind = "run"} : res \in BelatedAs(x)
    BY <1>10 DEF BelatedResults
  <2>2. CASE res = ProgramEnds
    BY <1>8, <2>2
  <2>3. ASSUME NEW x \in {FALSE, kind = "run"}, res \in BelatedAs(x)
        PROVE  res \in Result
    <3>1. x \in BOOLEAN
      OBVIOUS
    <3>2. \/ res \in Stops(x, 1 .. made, "stopped") \/ res \in Stops(x, 1 .. made, "running")
          \/ res \in Deadlines(x)
      BY <2>3 DEF BelatedAs
    <3> QED  BY <1>3, <1>4, <1>6, <3>1, <3>2
  <2> QED  BY <2>1, <2>2, <2>3
<1>11. res = Refused \/ res \in ObeyedResults(kind) \/ res \in BelatedResults(kind)
  BY ExecResultCases
<1> QED  BY <1>7, <1>9, <1>10, <1>11

LEMMA HitNumberType ==
    ASSUME NEW res \in Result
    PROVE  /\ HitNumber(res) \in 0 .. MaxProbes
           /\ HitNumber(res) # res.number => Known(HitNumber(res))
<1>1. res.number \in 0 .. MaxProbes
  BY DEF Result
<1>2. CASE Cardinality(ActiveWatchpoints) = 1
  <2>1. ActiveWatchpoints # {}
    BY <1>2, FS_EmptySet
  <2>2. (CHOOSE n \in ActiveWatchpoints : TRUE) \in ActiveWatchpoints
    BY <2>1
  <2> QED  BY <1>1, <2>2, BoundsAssumption DEF HitNumber, ActiveWatchpoints, Numbers, Known
<1>3. CASE Cardinality(ActiveWatchpoints) # 1
  BY <1>1, <1>3 DEF HitNumber
<1> QED  BY <1>2, <1>3

LEMMA HitFrameType ==
    ASSUME TypeOK, NEW r \in Request, NEW res \in Result
    PROVE  HitFrame(r, res) \in Frame
<1> DEFINE n      == HitNumber(res)
           policy == Policy[probes[n].policy]
           todo   == IF Known(n)
                       THEN [i \in DOMAIN policy.steps |-> [req |-> policy.steps[i], stop |-> policy.stop]]
                       ELSE <<>>
           onward == Known(n) /\ policy.onward /\ policy.steps # <<>>
<1>1. n \in 0 .. MaxProbes /\ res.trigger \in 0 .. MaxProbes
  BY HitNumberType DEF Result
<1>2. Known(n) \in BOOLEAN
  BY DEF Known
<1>3. todo \in Seq(Step)
  <2>1. CASE Known(n)
    <3>1. probes[n] \in Probe /\ probes[n].kind # "none"
      BY <2>1 DEF Known, TypeOK
    <3>2. probes[n].policy \in DOMAIN Policy
      BY <3>1 DEF Probe
    <3>3. policy \in [steps : Seq(Request), stop : BOOLEAN, onward : BOOLEAN]
      BY <3>2, PolicyAssumption
    <3>4. \A i \in DOMAIN policy.steps :
              [req |-> policy.steps[i], stop |-> policy.stop] \in Step
      BY <3>3 DEF Step
    <3>5. [i \in 1 .. Len(policy.steps) |-> [req |-> policy.steps[i], stop |-> policy.stop]] \in Seq(Step)
      BY <3>3, <3>4
    <3> QED  BY <2>1, <3>3, <3>5
  <2>2. CASE ~Known(n)
    BY <2>2
  <2> QED  BY <2>1, <2>2
<1>4. onward \in BOOLEAN
  OBVIOUS
<1>5. HitFrame(r, res) =
        [op |-> "hit", req |-> r, number |-> n, trigger |-> res.trigger, known |-> Known(n),
         todo |-> todo, stop |-> FALSE, failed |-> FALSE, stopped |-> FALSE, onward |-> onward]
  BY DEF HitFrame
<1> HIDE DEF n, todo, onward
<1> QED  BY <1>1, <1>2, <1>3, <1>4, <1>5 DEF Frame

LEMMA ReplayFrameType ==
    ASSUME NEW plan \in DOMAIN Plan
    PROVE  ReplayFrame(plan) \in Frame
<1>1. Plan[plan] \in Seq(Step)
  BY PlanAssumption
<1> DEFINE q == [kind |-> "replay", num |-> 0, name |-> plan]
<1>2. q \in [kind : Kinds, num : 0 .. MaxProbes, name : Name]
  BY BoundsAssumption DEF Kinds, Name
<1>3. q \in Request
  BY <1>2 DEF Request, ProbeSet, ProbeMutate
<1> QED  BY <1>1, <1>3, BoundsAssumption DEF ReplayFrame, Frame

LEMMA AskedType ==
    ASSUME TypeOK, NEW answer \in Answers, Asked(answer)
    PROVE  late' \in 0 .. MaxProbes /\ timely' \in BOOLEAN
BY BoundsAssumption DEF Asked, TypeOK

LEMMA SetProbeType ==
    ASSUME TypeOK, NEW r \in Request, NEW below \in Seq(Frame), SetProbe(r, below)
    PROVE  /\ probes' \in [Numbers -> Probe] /\ breaks' \in [Numbers -> Break]
           /\ made' \in 0 .. MaxProbes /\ late' \in 0 .. MaxProbes /\ timely' \in BOOLEAN
           /\ CallsType
<1> DEFINE own   == made + 1
           break == [kind |-> r.kind, policy |-> r.name, status |-> "on"]
           probe == [kind |-> r.kind, policy |-> r.name, enabled |-> TRUE,
                     deleted |-> FALSE, hits |-> 0]
           Inserted == made < MaxProbes /\ made' = own /\ breaks' = [breaks EXCEPT ![own] = break]
           Fail == (\E answer \in Answers : Returned(r, FALSE, answer, below)) /\ UNCHANGED probes
           Enter(n) == \/ Fail
                       \/ Thrown(below) /\ UNCHANGED probes
                       \/ /\ probes' = [probes EXCEPT ![n] = probe]
                          /\ Finished(r, TRUE, "done", below) /\ UNCHANGED <<phase, lost>>
<1>1. r.kind \in ProbeSet /\ r.name \in Name /\ r.name \in DOMAIN Policy
  BY DEF SetProbe, Request
<1>2. made \in 0 .. MaxProbes /\ late \in 0 .. MaxProbes /\ timely \in BOOLEAN
  BY DEF TypeOK
<1>3. Inserted \/ UNCHANGED <<made, breaks>>
  BY <1>2, BoundsAssumption DEF SetProbe
<1>4. made' \in 0 .. MaxProbes /\ breaks' \in [Numbers -> Break]
  <2>1. break \in Break
    BY <1>1 DEF Break
  <2>2. breaks \in [Numbers -> Break]
    BY DEF TypeOK
  <2>3. CASE Inserted
    <3>1. own \in Numbers /\ own \in 0 .. MaxProbes
      BY <1>2, <2>3, BoundsAssumption DEF Numbers
    <3> QED  BY <2>1, <2>2, <2>3, <3>1
  <2> QED  BY <1>2, <1>3, <2>2, <2>3
<1>5. late' \in 0 .. MaxProbes /\ timely' \in BOOLEAN
  <2>1. \/ late' \in {0, late} \/ (made < MaxProbes /\ late' = own)
    BY DEF SetProbe
  <2>2. late' \in 0 .. MaxProbes
    BY <1>2, <2>1, BoundsAssumption
  <2>3. \/ UNCHANGED timely \/ timely' = FALSE
        \/ \E condition \in Answers : timely' = (timely /\ condition # "timeout")
    BY Zenon DEF SetProbe
  <2>4. timely' \in BOOLEAN
    BY <1>2, <2>3
  <2> QED  BY <2>2, <2>4
<1>6. \/ Fail
      \/ \E n \in Numbers : Enter(n)
  <2>1. made < MaxProbes => own \in Numbers /\ InsertedAs(own) \in Numbers
    BY <1>2, BoundsAssumption DEF Numbers, InsertedAs
  <2>2. late # 0 => late \in Numbers
    BY <1>2, BoundsAssumption DEF Numbers
  <2>3. {"done", "error", "timeout"} \subseteq Answers
    BY DEF Answers
  <2> QED  BY <2>1, <2>2, <2>3 DEF SetProbe
<1>7. probes' \in [Numbers -> Probe]
  <2>1. probe \in Probe
    BY <1>1 DEF Probe
  <2> QED  BY <1>6, <2>1 DEF TypeOK
<1>8. CallsType
  <2>1. "done" \in Answers
    BY DEF Answers
  <2>2. \/ \E answer \in Answers : Returned(r, FALSE, answer, below)
        \/ Thrown(below)
        \/ Finished(r, TRUE, "done", below) /\ UNCHANGED <<phase, lost>>
    BY <1>6
  <2> QED  BY <2>1, <2>2, ReturnedCalls, ThrownCalls, FinishedCalls
<1> QED  BY <1>4, <1>5, <1>7, <1>8

LEMMA MutateProbeType ==
    ASSUME TypeOK, NEW r \in Request, NEW below \in Seq(Frame), MutateProbe(r, below)
    PROVE  /\ probes' \in [Numbers -> Probe] /\ breaks' \in [Numbers -> Break]
           /\ late' \in 0 .. MaxProbes /\ timely' \in BOOLEAN
           /\ unnoted' \subseteq Numbers /\ CallsType
<1>1. r.kind \in ProbeMutate /\ r.num \in Numbers
  BY DEF MutateProbe, Request
<1>2. /\ \E answer \in Answers : Asked(answer)
      /\ \/ Thrown(below)
         \/ Finished(r, TRUE, "done", below) /\ UNCHANGED <<phase, lost>>
         \/ \E answer \in Answers : Returned(r, FALSE, answer, below)
  BY DEF MutateProbe, Answers
<1>3. breaks' \in [Numbers -> Break]
  <2>1. Status(r.kind) \in {"on", "off", "gone"}
    BY <1>1 DEF Status, ProbeMutate
  <2>2. [breaks[r.num] EXCEPT !.status = Status(r.kind)] \in Break
    BY <1>1, <2>1 DEF TypeOK, Break
  <2>3. \/ UNCHANGED breaks
        \/ breaks' = [breaks EXCEPT ![r.num] = [breaks[r.num] EXCEPT !.status = Status(r.kind)]]
    BY DEF MutateProbe
  <2> QED  BY <1>1, <2>2, <2>3 DEF TypeOK
<1>4. probes' \in [Numbers -> Probe]
  <2> DEFINE p == probes[r.num]
  <2>0. p \in Probe
    BY <1>1 DEF TypeOK
  <2>1. Mutated(r.kind, p) \in Probe
    <3>1. (r.kind = "probe_enable") \in BOOLEAN
          /\ (p.deleted \/ r.kind = "probe_delete") \in BOOLEAN
      OBVIOUS
    <3>2. \A e, d \in BOOLEAN : [p EXCEPT !.enabled = e, !.deleted = d] \in Probe
      BY <2>0 DEF Probe
    <3>3. Mutated(r.kind, p) = [p EXCEPT !.enabled = (r.kind = "probe_enable"),
                                         !.deleted = (p.deleted \/ r.kind = "probe_delete")]
      BY DEF Mutated
    <3> QED  BY <3>1, <3>2, <3>3
  <2>2. \/ UNCHANGED probes
        \/ probes' = [probes EXCEPT ![r.num] = Mutated(r.kind, probes[r.num])]
    BY DEF MutateProbe
  <2> QED  BY <1>1, <2>1, <2>2 DEF TypeOK
<1>5. CallsType
  <2>1. "done" \in Answers
    BY DEF Answers
  <2> QED  BY <1>2, <2>1, ReturnedCalls, ThrownCalls, FinishedCalls
<1>6. unnoted' \subseteq Numbers
  BY <1>1 DEF MutateProbe, TypeOK
<1> QED  BY <1>2, <1>3, <1>4, <1>5, <1>6, AskedType

LEMMA RawMiType ==
    ASSUME TypeOK, NEW r \in Request, NEW below \in Seq(Frame), RawMi(r, below)
    PROVE  /\ breaks' \in [Numbers -> Break] /\ made' \in 0 .. MaxProbes
           /\ inferior' \in {"none", "stopped", "running"} /\ resumes' = resumes
           /\ late' \in 0 .. MaxProbes /\ timely' \in BOOLEAN
           /\ meddled' \in BOOLEAN /\ unnoted' \subseteq Numbers /\ CallsType
<1>1. CallsType
  <2>1. \E ok \in BOOLEAN, answer \in Answers : Returned(r, ok, answer, below)
    BY DEF RawMi, Answers
  <2> QED  BY <2>1, ReturnedCalls
<1>2. \/ UNCHANGED <<late, timely>> /\ UNCHANGED gdbVars
      \/ \E answer \in Answers :
            RawAsk(answer) \/ RawInsert(answer) \/ RawMutate(answer) \/ RawResume(answer)
  BY DEF RawMi
<1>3. CASE UNCHANGED <<late, timely>> /\ UNCHANGED gdbVars
  BY <1>1, <1>3 DEF TypeOK, gdbVars
<1>4. ASSUME NEW answer \in Answers, RawAsk(answer)
      PROVE  UNCHANGED gdbVars /\ late' \in 0 .. MaxProbes /\ timely' \in BOOLEAN
  BY <1>4, AskedType DEF RawAsk
<1>5. ASSUME NEW answer \in Answers, RawInsert(answer)
      PROVE  /\ breaks' \in [Numbers -> Break] /\ made' \in 0 .. MaxProbes
             /\ UNCHANGED <<inferior, resumes, meddled, unnoted>>
             /\ late' \in 0 .. MaxProbes /\ timely' \in BOOLEAN
  <2>1. made + 1 \in Numbers /\ made + 1 \in 0 .. MaxProbes /\ 0 \in 0 .. MaxProbes
    BY <1>5, BoundsAssumption DEF RawInsert, TypeOK, Numbers
  <2>2. PICK kind \in ProbeSet :
            breaks' = [breaks EXCEPT ![made + 1] = [kind |-> kind, policy |-> "none", status |-> "on"]]
    BY <1>5 DEF RawInsert
  <2>3. [kind |-> kind, policy |-> "none", status |-> "on"] \in Break
    BY DEF Break, Name
  <2>4. breaks' \in [Numbers -> Break]
    BY <2>1, <2>2, <2>3 DEF TypeOK
  <2>5. timely' \in BOOLEAN /\ late' \in {0, late, made + 1}
    BY <1>5 DEF RawInsert, TypeOK
  <2> QED  BY <1>5, <2>1, <2>4, <2>5 DEF RawInsert, TypeOK
<1>6. ASSUME NEW answer \in Answers, RawMutate(answer)
      PROVE  /\ breaks' \in [Numbers -> Break] /\ unnoted' \subseteq Numbers
             /\ UNCHANGED <<made, inferior, resumes, meddled>>
             /\ late' \in 0 .. MaxProbes /\ timely' \in BOOLEAN
  <2>1. PICK n \in Numbers, status \in {"on", "off", "gone"} :
            /\ breaks' = [breaks EXCEPT ![n].status = status]
            /\ unnoted' = unnoted \cup {n}
    BY <1>6 DEF RawMutate
  <2>2. [breaks[n] EXCEPT !.status = status] \in Break
    BY DEF TypeOK, Break
  <2>3. breaks' \in [Numbers -> Break] /\ unnoted' \subseteq Numbers
    BY <2>1, <2>2 DEF TypeOK
  <2> QED  BY <1>6, <2>3, AskedType DEF RawMutate
<1>7. ASSUME NEW answer \in Answers, RawResume(answer)
      PROVE  /\ inferior' \in {"none", "stopped", "running"} /\ meddled' \in BOOLEAN
             /\ UNCHANGED <<breaks, made, resumes, unnoted>>
             /\ late' \in 0 .. MaxProbes /\ timely' \in BOOLEAN
  BY <1>7, AskedType DEF RawResume
<1> QED  BY <1>1, <1>2, <1>3, <1>4, <1>5, <1>6, <1>7 DEF TypeOK, gdbVars

LEMMA RanType ==
    ASSUME TypeOK, NEW res \in Result, Ran(res)
    PROVE  /\ inferior' \in {"none", "stopped", "running"} /\ resumes' \in Nat
           /\ late' \in 0 .. MaxProbes /\ timely' \in BOOLEAN
           /\ breaks' \in [Numbers -> Break] /\ unnoted' \subseteq Numbers
           /\ UNCHANGED <<made, meddled>>
<1>1. /\ inferior' \in {"none", "stopped", "running"} /\ resumes' \in Nat
      /\ late' \in 0 .. MaxProbes /\ timely' \in BOOLEAN
  <2>1. res.after \in {"none", "stopped", "running"} /\ 0 \in 0 .. MaxProbes
    BY BoundsAssumption DEF Result
  <2>2. inferior' = res.after /\ resumes' \in {resumes, resumes + 1} /\ late' \in {0, late}
    BY DEF Ran
  <2>3. timely' \in BOOLEAN
    BY DEF Ran, TypeOK
  <2> QED  BY <2>1, <2>2, <2>3 DEF TypeOK
<1>2. PICK over \in SUBSET Scoped(res) :
          /\ breaks' = [n \in Numbers |-> IF n \in over THEN [breaks[n] EXCEPT !.status = "gone"]
                                          ELSE breaks[n]]
          /\ unnoted' = unnoted \cup over
  BY DEF Ran
<1>3. over \subseteq Numbers
  BY DEF Scoped
<1>4. \A n \in Numbers : breaks[n] \in Break /\ [breaks[n] EXCEPT !.status = "gone"] \in Break
  BY DEF TypeOK, Break
<1>5. breaks' \in [Numbers -> Break]
  BY <1>2, <1>4
<1> QED  BY <1>1, <1>2, <1>3, <1>5 DEF Ran, TypeOK

LEMMA OutcomeType ==
    ASSUME TypeOK, NEW res, Interrupted(res)
    PROVE  state' \in States /\ probes' \in [Numbers -> Probe]
BY DEF Interrupted, OutcomeState, States, TypeOK

LEMMA ExecutedType ==
    ASSUME TypeOK, NEW r \in Request, NEW res \in Result, NEW below \in Seq(Frame),
           Executed(r, res, below)
    PROVE  /\ state' \in States /\ probes' \in [Numbers -> Probe]
           /\ stack' \in Seq(Frame) /\ recording' \in Recording /\ journal' \in Seq(Kinds)
<1>1. state' \in States
  BY DEF Executed, StateAfter, OutcomeState, States
<1>3. CASE res.error
  <2>1. Finished(r, FALSE, "error", below) /\ UNCHANGED probes
    BY <1>3 DEF Executed
  <2> QED  BY <1>1, <2>1, FinishedType DEF TypeOK, Answers
<1>4. CASE ~res.error
  <2>1. stack' \in Seq(Frame)
    BY <1>4, HitFrameType DEF Executed
  <2>2. recording' \in Recording /\ journal' \in Seq(Kinds)
    BY <1>4 DEF Executed, TypeOK
  <2>3. probes' \in [Numbers -> Probe]
    <3> DEFINE n == HitNumber(res)
    <3>1. CASE Known(n)
      <4>1. n \in Numbers /\ probes[n] \in Probe
        BY <3>1 DEF Known, TypeOK
      <4>2. [probes[n] EXCEPT !.hits = probes[n].hits + 1] \in Probe
        BY <4>1 DEF Probe
      <4>3. probes' = [probes EXCEPT ![n] = [probes[n] EXCEPT !.hits = probes[n].hits + 1]]
        BY <1>4, <3>1 DEF Executed, CountHit
      <4> QED  BY <4>1, <4>2, <4>3 DEF TypeOK
    <3>2. CASE ~Known(n)
      BY <1>4, <3>2 DEF Executed, CountHit, TypeOK
    <3> QED  BY <3>1, <3>2
  <2> QED  BY <1>1, <2>1, <2>2, <2>3
<1> QED  BY <1>3, <1>4 DEF Result

\* requests is the caller's; the steps of Perform leave it alone.
LEMMA PerformType ==
    ASSUME TypeOK, NEW r \in Request, NEW below \in Seq(Frame), Perform(r, below),
           requests' \in Nat
    PROVE  TypeOK'
<1>0. \A ok \in BOOLEAN, answer \in Answers : Returned(r, ok, answer, below) => CallsType
  BY ReturnedCalls
<1>1. CASE Deny(r, below)
  <2>1. CallsType
    BY <1>0, <1>1 DEF Deny, Answers
  <2> QED  BY <1>1, <2>1 DEF Deny, CallsType, TypeOK, gdbVars
<1>2. CASE Ask(r, below)
  <2>1. PICK answer \in Answers : Asked(answer) /\ Returned(r, answer = "done", answer, below)
    BY <1>2 DEF Ask
  <2>2. late' \in 0 .. MaxProbes /\ timely' \in BOOLEAN
    BY <2>1, AskedType
  <2>3. CallsType
    BY <1>0, <2>1
  <2> QED  BY <1>2, <2>2, <2>3 DEF Ask, CallsType, TypeOK, gdbVars
<1>3. CASE ProbeList(r, below)
  <2>1. PICK answer \in Answers : Asked(answer) /\ Returned(r, TRUE, answer, below)
    BY <1>3 DEF ProbeList
  <2>2. late' \in 0 .. MaxProbes /\ timely' \in BOOLEAN
    BY <2>1, AskedType
  <2>3. CallsType
    BY <1>0, <2>1
  <2> QED  BY <1>3, <2>2, <2>3 DEF ProbeList, CallsType, TypeOK, gdbVars
<1>4. CASE Note(r, below)
  <2>1. CallsType
    BY <1>0, <1>4 DEF Note, Answers
  <2> QED  BY <1>4, <2>1 DEF Note, CallsType, TypeOK, gdbVars
<1>5. CASE Unsupported(r, below)
  <2>1. CallsType
    BY <1>0, <1>5 DEF Unsupported, Answers
  <2> QED  BY <1>5, <2>1 DEF Unsupported, CallsType, TypeOK, gdbVars
<1>6. CASE Finish(r, below)
  <2>1. stack' \in Seq(Frame) /\ recording' \in Recording /\ journal' \in Seq(Kinds)
    BY <1>6, FinishedType DEF Finish, Answers
  <2>2. phase' \in {phase, "closed"} /\ state' \in States
    BY <1>6 DEF Finish, TypeOK, States
  <2> QED  BY <1>6, <2>1, <2>2 DEF Finish, TypeOK, gdbVars
<1>7. CASE RecordNested(r, below)
  <2>1. CallsType
    BY <1>0, <1>7 DEF RecordNested, Answers
  <2> QED  BY <1>7, <2>1 DEF RecordNested, CallsType, TypeOK, gdbVars
<1>8. CASE RecordDirect(r, below)
  <2>1. stack' \in Seq(Frame)
    BY <1>8 DEF RecordDirect
  <2>2. NoRecording \in Recording
    BY DEF NoRecording, Recording
  <2>3. [active |-> TRUE, raw |-> r.name = "raw", steps |-> <<>>] \in Recording
    BY DEF Recording
  <2>4. \/ recording' = [active |-> TRUE, raw |-> r.name = "raw", steps |-> <<>>] /\ journal' = <<>>
        \/ recording' = NoRecording /\ journal' = <<>>
        \/ UNCHANGED <<recording, journal>>
    BY <1>8, Zenon DEF RecordDirect
  <2>5. recording' \in Recording /\ journal' \in Seq(Kinds)
    <3>1. recording \in Recording /\ journal \in Seq(Kinds) /\ <<>> \in Seq(Kinds)
      BY DEF TypeOK
    <3> QED  BY <2>2, <2>3, <2>4, <3>1, Zenon
  <2> QED  BY <1>8, <2>1, <2>5 DEF RecordDirect, TypeOK, gdbVars
<1>9. CASE SetProbe(r, below)
  BY <1>9, SetProbeType DEF SetProbe, CallsType, TypeOK
<1>10. CASE MutateProbe(r, below)
  BY <1>10, MutateProbeType DEF MutateProbe, CallsType, TypeOK
<1>11. CASE Resume(r, below)
  <2>1. CASE r.kind = "run" /\ state' = "Running" /\ Thrown(below)
             /\ UNCHANGED <<probes, late, timely>> /\ UNCHANGED gdbVars
    <3>1. CallsType
      BY <2>1, ThrownCalls
    <3> QED  BY <1>11, <2>1, <3>1 DEF Resume, CallsType, TypeOK, States, gdbVars
  <2>2. ASSUME NEW res \in ExecResults(r.kind), Ran(res),
               Executed(r, res, below), UNCHANGED <<phase, lost>>
        PROVE  TypeOK'
    <3>1. res \in Result
      BY ResultType
    <3> QED  BY <1>11, <2>2, <3>1, RanType, ExecutedType DEF Resume, TypeOK
  <2>3. ASSUME NEW res \in ExecResults(r.kind), Ran(res), Interrupted(res), Thrown(below)
        PROVE  TypeOK'
    <3>1. res \in Result
      BY ResultType
    <3>2. CallsType
      BY <2>3, ThrownCalls
    <3> QED  BY <1>11, <2>3, <3>1, <3>2, RanType, OutcomeType DEF Resume, CallsType, TypeOK
  <2> QED  BY <1>11, <2>1, <2>2, <2>3 DEF Resume
<1>12. CASE Replay(r, below)
  <2>1. CallsType
    <3>1. CASE Returned(r, FALSE, "done", below)
      BY <1>0, <3>1 DEF Answers
    <3>2. CASE stack' = Append(below, ReplayFrame(r.name))
               /\ UNCHANGED <<phase, recording, journal, lost>>
      <4>1. r.name \in DOMAIN Plan /\ r.name \in Name
        BY <1>12 DEF Replay, Request
      <4>2. ReplayFrame(r.name) \in Frame
        BY <4>1, ReplayFrameType
      <4> QED  BY <3>2, <4>2 DEF TypeOK, CallsType
    <3> QED  BY <1>12, <3>1, <3>2 DEF Replay
  <2> QED  BY <1>12, <2>1 DEF Replay, CallsType, TypeOK, gdbVars
<1>13. CASE RawMi(r, below)
  BY <1>13, RawMiType DEF RawMi, CallsType, TypeOK
<1> QED
  BY <1>1, <1>2, <1>3, <1>4, <1>5, <1>6, <1>7, <1>8, <1>9, <1>10, <1>11, <1>12, <1>13
  DEF Perform

LEMMA TopType ==
    ASSUME TypeOK, stack # <<>>
    PROVE  /\ Len(stack) \in Nat \ {0} /\ Top \in Frame
           /\ \A f \in Frame : InTop(f) \in Seq(Frame)
           /\ BelowTop \in Seq(Frame)
<1>1. stack \in Seq(Frame) /\ Len(stack) \in Nat \ {0} /\ Top \in Frame
  BY DEF TypeOK, Top
<1>2. BelowTop \in Seq(Frame)
  BY <1>1, SubSeqProperties DEF BelowTop
<1> QED  BY <1>1, <1>2 DEF InTop

LEMMA ReqType ==
    ASSUME NEW kind \in {"continue", "initial_run"}
    PROVE  Req(kind) \in Request
<1>1. Req(kind) \in [kind : Kinds, num : 0 .. MaxProbes, name : Name]
  BY BoundsAssumption DEF Req, Kinds, Name
<1> QED  BY <1>1 DEF Req, Request, ProbeSet, ProbeMutate

\* What Child and Onward perform, and the calls it is performed under.
LEMMA ChildType ==
    ASSUME TypeOK, stack # <<>>
    PROVE  /\ Top.todo # <<>> =>
                /\ Head(Top.todo).req \in Request
                /\ InTop([Top EXCEPT !.todo = Tail(Top.todo), !.stop = Head(Top.todo).stop])
                       \in Seq(Frame)
           /\ InTop([Top EXCEPT !.onward = FALSE, !.stop = FALSE]) \in Seq(Frame)
<1>1. Top \in Frame /\ \A f \in Frame : InTop(f) \in Seq(Frame)
  BY TopType
<1>2. Top.todo \in Seq(Step)
  BY <1>1 DEF Frame
<1>3. ASSUME Top.todo # <<>>
      PROVE  /\ Head(Top.todo) \in Step /\ Tail(Top.todo) \in Seq(Step)
             /\ [Top EXCEPT !.todo = Tail(Top.todo), !.stop = Head(Top.todo).stop] \in Frame
  <2>1. Head(Top.todo) \in Step /\ Tail(Top.todo) \in Seq(Step)
    BY <1>2, <1>3
  <2> QED  BY <1>1, <2>1 DEF Frame, Step
<1>4. [Top EXCEPT !.onward = FALSE, !.stop = FALSE] \in Frame
  BY <1>1 DEF Frame
<1> QED  BY <1>1, <1>3, <1>4 DEF Step

LEMMA NextType ==
    ASSUME TypeOK, [Next]_vars
    PROVE  TypeOK'
<1>1. CASE Start
  <2>1. stack' \in Seq(Frame)
    <3> stack \in Seq(Frame) /\ <<>> \in Seq(Frame)
      BY DEF TypeOK
    <3>1. Prelude # "none" => ReplayFrame(Prelude) \in Frame
      BY PlanAssumption, ReplayFrameType
    <3>2. \A f \in Frame : <<f>> \in Seq(Frame)
      OBVIOUS
    <3>3. \/ stack' \in {<<>>, stack}
          \/ Prelude # "none" /\ stack' = <<ReplayFrame(Prelude)>>
      BY <1>1 DEF Start
    <3> QED  BY <3>1, <3>2, <3>3
  <2> QED  BY <1>1, <2>1 DEF Start, TypeOK, gdbVars, States
<1>2. CASE LoadCore
  <2>1. PICK answer \in Answers : Asked(answer)
    BY <1>2 DEF LoadCore
  <2>2. late' \in 0 .. MaxProbes /\ timely' \in BOOLEAN
    BY <2>1, AskedType
  <2>3. phase' \in {"serving", "closed"} /\ state' \in States
    BY <1>2 DEF LoadCore, States
  <2> QED  BY <1>2, <2>2, <2>3 DEF LoadCore, TypeOK, gdbVars
<1>3. CASE InitialRun
  <2>1. CASE /\ phase' = "closed" /\ state' = "Running" /\ UNCHANGED <<probes, late, timely>>
             /\ UNCHANGED callVars /\ UNCHANGED gdbVars
    BY <1>3, <2>1 DEF InitialRun, TypeOK, callVars, gdbVars, States
  <2>2. ASSUME NEW res \in ExecResults("run"), Ran(res),
               phase' = "serving", Executed(Req("initial_run"), res, <<>>)
        PROVE  TypeOK'
    <3>1. <<>> \in Seq(Frame) /\ Req("initial_run") \in Request /\ res \in Result
      BY ReqType, ResultType
    <3> QED  BY <1>3, <2>2, <3>1, RanType, ExecutedType DEF InitialRun, TypeOK
  <2>3. ASSUME NEW res \in ExecResults("run"), Ran(res),
               phase' = "closed", Interrupted(res), UNCHANGED callVars
        PROVE  TypeOK'
    <3>1. res \in Result
      BY ResultType
    <3> QED  BY <1>3, <2>3, <3>1, RanType, OutcomeType DEF InitialRun, TypeOK, callVars
  <2> QED  BY <1>3, <2>1, <2>2, <2>3 DEF InitialRun
<1>4. ASSUME NEW r \in Requests[coreMode], Direct(r)
      PROVE  TypeOK'
  <2>1. r \in Request /\ <<>> \in Seq(Frame)
    BY RequestsAssumption DEF TypeOK
  <2>2. requests' \in Nat
    BY <1>4 DEF Direct, TypeOK
  <2> QED  BY <1>4, <2>1, <2>2, PerformType DEF Direct
<1>5. CASE Child
  <2> DEFINE below == InTop([Top EXCEPT !.todo = Tail(Top.todo), !.stop = Head(Top.todo).stop])
  <2>1. stack # <<>> /\ Top.todo # <<>> /\ Perform(Head(Top.todo).req, below)
    BY <1>5 DEF Child
  <2>2. Head(Top.todo).req \in Request /\ below \in Seq(Frame)
    BY <2>1, ChildType
  <2>3. requests' \in Nat
    BY <1>5 DEF Child, TypeOK
  <2> HIDE DEF below
  <2> QED  BY <2>1, <2>2, <2>3, PerformType
<1>6. CASE Onward
  <2> DEFINE below == InTop([Top EXCEPT !.onward = FALSE, !.stop = FALSE])
  <2>1. stack # <<>> /\ Perform(Req("continue"), below)
    BY <1>6 DEF Onward
  <2>2. Req("continue") \in Request /\ below \in Seq(Frame)
    BY <2>1, ChildType, ReqType
  <2>3. requests' \in Nat
    BY <1>6 DEF Onward, TypeOK
  <2> HIDE DEF below
  <2> QED  BY <2>1, <2>2, <2>3, PerformType
<1>7. CASE Leave
  <2>1. Top \in Frame /\ BelowTop \in Seq(Frame)
    BY <1>7, TopType DEF Leave
  <2>2. Finished(Top.req, Top.op = "hit" \/ ~Top.failed, "done", BelowTop)
    BY <1>7 DEF Leave
  <2>3. Top.req \in Request /\ (Top.op = "hit" \/ ~Top.failed) \in BOOLEAN /\ "done" \in Answers
    BY <2>1 DEF Frame, Answers
  <2>4. stack' \in Seq(Frame) /\ recording' \in Recording /\ journal' \in Seq(Kinds)
    BY <2>1, <2>2, <2>3, FinishedType
  <2>5. written' \in [Numbers -> Nat]
    <3>1. written \in [Numbers -> Nat]
      BY DEF TypeOK
    <3>2. \/ UNCHANGED written
          \/ written' = [written EXCEPT ![Top.number] = written[Top.number] + 1]
      BY <1>7 DEF Leave
    <3>3. CASE Top.number \in Numbers
      BY <3>1, <3>2, <3>3
    <3>4. CASE Top.number \notin Numbers
      BY <3>1, <3>2, <3>4
    <3> QED  BY <3>3, <3>4
  <2> QED  BY <1>7, <2>4, <2>5 DEF Leave, TypeOK, gdbVars
<1>8. CASE Close
  BY <1>8 DEF Close, TypeOK, gdbVars, States
<1>9. CASE UNCHANGED vars
  BY <1>9 DEF TypeOK, vars
<1>10. CASE Cut
  <2>1. BelowTop \in Seq(Frame) /\ stack \in Seq(Frame)
    BY <1>10, TopType DEF Cut, TypeOK
  <2>2. Thrown(BelowTop) \/ Thrown(stack)
    BY <1>10 DEF Cut
  <2>3. CallsType
    BY <2>1, <2>2, ThrownCalls
  <2> QED  BY <1>10, <2>3 DEF Cut, CallsType, TypeOK, gdbVars
<1> QED
  BY <1>1, <1>2, <1>3, <1>4, <1>5, <1>6, <1>7, <1>8, <1>9, <1>10 DEF Next, Ended

LEMMA InitType == Init => TypeOK
<1> SUFFICES ASSUME Init PROVE TypeOK
  OBVIOUS
<1>1. NoProbe \in Probe
  BY DEF NoProbe, Probe, Name
<1>2. NoBreak \in Break
  BY DEF NoBreak, Break, Name
<1>3. NoRecording \in Recording
  BY DEF NoRecording, Recording
<1>4. /\ state \in States /\ probes \in [Numbers -> Probe] /\ breaks \in [Numbers -> Break]
      /\ written \in [Numbers -> Nat] /\ lost \in [Numbers -> Nat] /\ recording \in Recording
  BY <1>1, <1>2, <1>3 DEF Init, States
<1>5. stack \in Seq(Frame) /\ journal \in Seq(Kinds)
  BY DEF Init
<1>6. made \in 0 .. MaxProbes /\ late \in 0 .. MaxProbes /\ requests \in Nat /\ resumes \in Nat
  BY BoundsAssumption DEF Init
<1> QED  BY <1>4, <1>5, <1>6 DEF Init, TypeOK

\* The tables, the recording and the calls in progress keep their shape whatever the
\* policies and plans, however deep their actions nest.
THEOREM TypeCorrect == Spec => []TypeOK
<1>1. Init => TypeOK
  BY InitType
<1>2. TypeOK /\ [Next]_vars => TypeOK'
  BY NextType
<1> QED  BY <1>1, <1>2, PTL DEF Spec

-------------------------------------------------------------------------------
(* What every action keeps *)

LEMMA PerformKeeps ==
    ASSUME NEW r, NEW below, Perform(r, below)
    PROVE  coreMode' = coreMode /\ phase' \in {phase, "closed"}
<1>1. \A b : Thrown(b) => phase' \in {phase, "closed"}
  BY DEF Thrown
<1>2. \A ok, answer : Returned(r, ok, answer, below) => phase' \in {phase, "closed"}
  BY <1>1 DEF Returned
<1>3. CASE SetProbe(r, below)
  BY <1>1, <1>2, <1>3 DEF SetProbe
<1>4. CASE Resume(r, below)
  BY <1>1, <1>4 DEF Resume
<1>5. CASE MutateProbe(r, below)
  BY <1>1, <1>2, <1>5 DEF MutateProbe
<1>6. CASE RawMi(r, below)
  BY <1>2, <1>6 DEF RawMi
<1>7. CASE ~SetProbe(r, below) /\ ~Resume(r, below) /\ ~MutateProbe(r, below) /\ ~RawMi(r, below)
  BY <1>2, <1>7 DEF Perform, Deny, Ask, ProbeList, Note, Unsupported, Finish, RecordNested,
              RecordDirect, Replay
<1> QED  BY <1>3, <1>4, <1>5, <1>6, <1>7

-------------------------------------------------------------------------------
(* An error is final *)

LEMMA ErrorPerform ==
    ASSUME NEW r \in Request, NEW below, Perform(r, below), state = "Error"
    PROVE  state' \in {"Error", "Closed"} /\ UNCHANGED resumes
<1>1. Allowed(r.kind) => r.kind \notin {"run", "continue"} \cup ProbeSet
  BY DEF Allowed, Loaded
<1>2. ~(SetProbe(r, below) /\ Allowed(r.kind)) /\ ~(Resume(r, below) /\ Allowed(r.kind))
  BY <1>1 DEF SetProbe, Resume
<1>3. \/ UNCHANGED <<state, resumes>>
      \/ Finish(r, below)
  BY <1>2 DEF Perform, Deny, Ask, ProbeList, RawMi, RawAsk, RawInsert, RawMutate, RawResume,
              Note, Unsupported, RecordNested, RecordDirect, MutateProbe, Replay, gdbVars
<1> QED  BY <1>3 DEF Finish, gdbVars

\* Once the session serves its caller, a refused run or continue is never followed
\* by another, not by those of the policies and plans in progress either, and the
\* state it left is only ever left by closing the session.
THEOREM ErrorStays == Spec => ErrorIsFinal
<1>1. ASSUME TypeOK, [Next]_vars, phase = "serving", state = "Error"
      PROVE  state' \in {"Error", "Closed"} /\ UNCHANGED resumes
  <2>1. ASSUME NEW r \in Requests[coreMode], Direct(r)
        PROVE  state' \in {"Error", "Closed"} /\ UNCHANGED resumes
    <3>1. r \in Request
      BY <1>1, <2>1, RequestsAssumption DEF TypeOK
    <3> QED  BY <1>1, <2>1, <3>1, ErrorPerform DEF Direct
  <2>2. CASE Child
    BY <1>1, <2>2, ChildType, ErrorPerform DEF Child
  <2>3. CASE Onward
    BY <1>1, <2>3, ReqType, ErrorPerform DEF Onward
  <2>4. CASE Leave \/ Cut \/ Close \/ UNCHANGED vars
    BY <1>1, <2>4 DEF Leave, Cut, Close, vars, gdbVars
  <2> QED  BY <1>1, <2>1, <2>2, <2>3, <2>4 DEF Next, Start, LoadCore, InitialRun, Ended
<1>2. TypeOK /\ [Next]_vars =>
          [phase = "serving" /\ state = "Error" =>
               state' \in {"Error", "Closed"} /\ UNCHANGED resumes]_vars
  BY <1>1
<1> QED  BY <1>2, TypeCorrect, PTL DEF Spec, ErrorIsFinal

-------------------------------------------------------------------------------
(* A session that is told to be stopped is *)

\* Before GDB is started there is neither a program nor a call in progress.
StoppedInv == StoppedMeansStill /\ (phase = "start" => inferior = "none" /\ stack = <<>>)

\* A call that met no deadline left the program where the state says, whether it
\* returned or threw.
LEMMA RanStill ==
    ASSUME StoppedMeansStill, ~coreMode,
           NEW kind, NEW res \in ExecResults(kind), Ran(res),
           state' = StateAfter(res) \/ Interrupted(res),
           timely', ~meddled'
    PROVE  /\ state' = "Stopped" => inferior' = "stopped"
           /\ state' # "Ready"
           /\ inferior' # "running"
<1>1. timely /\ ~meddled /\ ~res.timedOut /\ inferior # "running"
  BY DEF Ran, StoppedMeansStill
<1>2. inferior' = res.after
      /\ state' \in {StateAfter(res), OutcomeState(res), "Running"}
  BY DEF Ran, Interrupted
<1>3. \/ res = Refused
      \/ \E x : res \in Stops(x, Armed(ProbeSet), "stopped")
      \/ res = ProgramEnds
  <2>1. \A x : res \notin Deadlines(x)
    BY <1>1 DEF Deadlines, Deadline, Stop
  <2> DEFINE gone == kind = "run" /\ inferior = "stopped"
  <2>2. res = Refused \/ res \in ObeyedResults(kind)
    BY <1>1, ExecResultCases
  <2>3. ASSUME res \in ObeyedResults(kind)
        PROVE  res \in Stops(gone, Armed(ProbeSet), "stopped") \/ res \in Deadlines(gone)
               \/ res = ProgramEnds
    BY <2>3 DEF ObeyedResults
  <2> HIDE DEF gone
  <2> QED  BY <2>1, <2>2, <2>3
<1>4. CASE res = Refused
  BY <1>1, <1>2, <1>4 DEF Refused, Stop, StateAfter, OutcomeState, HitNumber
<1>5. CASE \E x : res \in Stops(x, Armed(ProbeSet), "stopped")
  <2>1. res.after = "stopped"
    BY <1>5 DEF Stops, Stop
  <2> QED  BY <1>2, <2>1 DEF StateAfter, OutcomeState
<1>6. CASE res = ProgramEnds
  BY <1>2, <1>6 DEF ProgramEnds, Stop, StateAfter, OutcomeState, HitNumber
<1> QED  BY <1>3, <1>4, <1>5, <1>6

\* What the tool could trust before a step it cannot have learnt in it.
LEMMA PerformTrust ==
    ASSUME TypeOK, NEW r, NEW below, Perform(r, below)
    PROVE  (timely' => timely) /\ (~meddled' => ~meddled)
<1>1. CASE SetProbe(r, below)
  <2>1. \/ timely' = timely \/ timely' = FALSE
        \/ \E condition \in Answers : timely' = (timely /\ condition # "timeout")
    BY <1>1, Zenon DEF SetProbe
  <2> QED  BY <1>1, <2>1 DEF TypeOK, SetProbe
<1>2. CASE Resume(r, below)
  <2>1. timely' = timely \/ \E res : timely' = (timely /\ ~res.timedOut)
    BY <1>2, Zenon DEF Resume, Ran
  <2>2. meddled' = meddled
    BY <1>2 DEF Resume, Ran, gdbVars
  <2> QED  BY <2>1, <2>2 DEF TypeOK
<1>3. CASE RawMi(r, below)
  <2>1. timely' = timely \/ \E answer : timely' = (timely /\ answer # "timeout")
    BY <1>3, Zenon DEF RawMi, RawAsk, RawInsert, RawMutate, RawResume, Asked
  <2>2. meddled' = meddled \/ meddled' = TRUE
    BY <1>3, Zenon DEF RawMi, RawAsk, RawInsert, RawMutate, RawResume, gdbVars
  <2> QED  BY <2>1, <2>2 DEF TypeOK
<1>4. CASE ~SetProbe(r, below) /\ ~Resume(r, below) /\ ~RawMi(r, below)
  <2>1. timely' = timely \/ \E answer : timely' = (timely /\ answer # "timeout")
    BY <1>4, Zenon DEF Perform, Deny, Ask, ProbeList, Note, Unsupported, Finish,
         RecordNested, RecordDirect, MutateProbe, Replay, Asked
  <2>2. meddled' = meddled
    BY <1>4 DEF Perform, Deny, Ask, ProbeList, Note, Unsupported, Finish,
         RecordNested, RecordDirect, MutateProbe, Replay, gdbVars
  <2> QED  BY <2>1, <2>2 DEF TypeOK
<1> QED  BY <1>1, <1>2, <1>3, <1>4

LEMMA PerformStill ==
    ASSUME TypeOK, StoppedMeansStill, NEW r, NEW below, Perform(r, below)
    PROVE  StoppedMeansStill'
<1>1. coreMode' = coreMode /\ (timely' => timely) /\ (~meddled' => ~meddled)
  BY PerformKeeps, PerformTrust
<1>2. CASE Resume(r, below)
  <2>1. SUFFICES ASSUME timely', ~meddled', ~coreMode'
                 PROVE  /\ state' = "Stopped" => inferior' = "stopped"
                        /\ state' = "Ready" => inferior' = "none"
                        /\ inferior' # "running"
    BY DEF StoppedMeansStill
  <2>2. CASE state' = "Running" /\ UNCHANGED gdbVars
    BY <1>1, <2>1, <2>2 DEF StoppedMeansStill, gdbVars
  <2>3. ASSUME NEW res \in ExecResults(r.kind), Ran(res),
               state' = StateAfter(res) \/ Interrupted(res)
        PROVE  /\ state' = "Stopped" => inferior' = "stopped"
               /\ state' # "Ready" /\ inferior' # "running"
    BY <1>1, <2>1, <2>3, RanStill
  <2>4. \/ state' = "Running" /\ UNCHANGED gdbVars
        \/ \E res \in ExecResults(r.kind) :
              Ran(res) /\ (state' = StateAfter(res) \/ Interrupted(res))
    BY <1>2 DEF Resume, Executed
  <2> QED  BY <2>2, <2>3, <2>4
<1>3. CASE ~Resume(r, below)
  <2>1. (inferior' = inferior \/ meddled') /\ state' \in {state, "Closed"}
    BY <1>3 DEF Perform, Deny, Ask, ProbeList, RawMi, RawAsk, RawInsert, RawMutate, RawResume,
                Note, Unsupported, Finish, RecordNested, RecordDirect, SetProbe, MutateProbe,
                Replay, gdbVars
  <2> QED  BY <1>1, <2>1 DEF StoppedMeansStill
<1> QED  BY <1>2, <1>3

\* As long as nothing times out and raw_mi leaves the program alone, a state of Stopped
\* is that of a program that may be examined: nested runs that end the program, fail or
\* throw, also after GDB has run it, never leave that state behind.
THEOREM StoppedCorrect == Spec => []StoppedMeansStill
<1>1. Init => StoppedInv
  BY DEF Init, StoppedInv, StoppedMeansStill
<1>2. TypeOK /\ StoppedInv /\ [Next]_vars => StoppedInv'
  <2> SUFFICES ASSUME TypeOK, StoppedInv, [Next]_vars
               PROVE  StoppedInv'
    OBVIOUS
  <2>1. phase' = "start" => UNCHANGED vars
    BY PerformKeeps DEF StoppedInv, TypeOK, Next, Start, LoadCore, InitialRun, Direct, Child,
         Onward, Leave, Cut, Thrown, Close, Ended
  <2>2. (phase = "start" => inferior = "none" /\ stack = <<>>)'
    BY <2>1 DEF StoppedInv, vars
  <2> SUFFICES StoppedMeansStill'
    BY <2>2 DEF StoppedInv
  <2>3. CASE Start
    BY <2>3 DEF Start, StoppedInv, StoppedMeansStill, gdbVars
  <2>4. CASE LoadCore
    BY <2>4 DEF LoadCore, StoppedMeansStill
  <2>5. CASE InitialRun
    <3>1. coreMode' = coreMode
      BY <2>5 DEF InitialRun
    <3>2. ASSUME NEW res \in ExecResults("run"), Ran(res),
                 state' = StateAfter(res) \/ Interrupted(res),
                 timely', ~meddled', ~coreMode'
          PROVE  /\ state' = "Stopped" => inferior' = "stopped"
                 /\ state' # "Ready" /\ inferior' # "running"
      BY <3>1, <3>2, RanStill DEF StoppedInv
    <3>3. CASE state' = "Running" /\ UNCHANGED <<probes, late, timely>> /\ UNCHANGED gdbVars
      BY <3>1, <3>3 DEF StoppedInv, StoppedMeansStill, gdbVars
    <3>4. \/ state' = "Running" /\ UNCHANGED <<probes, late, timely>> /\ UNCHANGED gdbVars
          \/ \E res \in ExecResults("run") :
                Ran(res) /\ (state' = StateAfter(res) \/ Interrupted(res))
      BY <2>5 DEF InitialRun, Executed
    <3> QED  BY <3>2, <3>3, <3>4 DEF StoppedMeansStill
  <2>6. CASE \E r, below : Perform(r, below)
    BY <2>6, PerformStill DEF StoppedInv
  <2>7. CASE Leave \/ Cut \/ Close \/ UNCHANGED vars
    BY <2>7 DEF Leave, Cut, Close, vars, gdbVars, StoppedInv, StoppedMeansStill
  <2> QED  BY <2>3, <2>4, <2>5, <2>6, <2>7 DEF Next, Direct, Child, Onward, Ended
<1>3. StoppedInv => StoppedMeansStill
  BY DEF StoppedInv
<1> QED  BY <1>1, <1>2, <1>3, TypeCorrect, PTL DEF Spec

===============================================================================
