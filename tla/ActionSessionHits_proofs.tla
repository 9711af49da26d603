----------------------- MODULE ActionSessionHits_proofs -----------------------
(***************************************************************************)
(* Proofs about the bookkeeping of ActionSession, for any policies, plans, *)
(* requests and bounds: a recording holds what succeeded, every hit is     *)
(* accounted for, the table of probes says what GDB would, and a stop is   *)
(* taken for the hit of the probe it is of.                                *)
(***************************************************************************)
EXTENDS ActionSession_proofs

-------------------------------------------------------------------------------
(* Recordings *)

\* An increasing enumeration of k positions up to m, and one that goes on with m + 1.
Enumerates(at, k, m) ==
    /\ at \in [1 .. k -> 1 .. m]
    /\ \A i, j \in 1 .. k : i < j => at[i] < at[j]

Continues(to, at, k, m) ==
    /\ to[k + 1] = m + 1
    /\ \A i \in 1 .. k : to[i] = at[i]
    /\ {to[i] : i \in 1 .. k + 1} = {at[i] : i \in 1 .. k} \cup {m + 1}

LEMMA EnumerationExtends ==
    ASSUME NEW k \in Nat, NEW m \in Nat, NEW at, Enumerates(at, k, m)
    PROVE  \E to : Enumerates(to, k + 1, m + 1) /\ Continues(to, at, k, m)
<1> DEFINE to == [i \in 1 .. k + 1 |-> IF i = k + 1 THEN m + 1 ELSE at[i]]
<1>0. at \in [1 .. k -> 1 .. m] /\ \A i, j \in 1 .. k : i < j => at[i] < at[j]
  BY DEF Enumerates
<1>1. \A i \in 1 .. k : i \in 1 .. k + 1 /\ i # k + 1 /\ at[i] \in 1 .. m
  BY <1>0
<1>2. to[k + 1] = m + 1
  OBVIOUS
<1>3. \A i \in 1 .. k : to[i] = at[i]
  BY <1>1
<1>4. \A i \in 1 .. k + 1 : i \in 1 .. k \/ i = k + 1
  OBVIOUS
<1>5. to \in [1 .. k + 1 -> 1 .. m + 1]
  <2>1. \A i \in 1 .. k + 1 : (IF i = k + 1 THEN m + 1 ELSE at[i]) \in 1 .. m + 1
    BY <1>1, <1>4
  <2> QED  BY <2>1
<1> HIDE DEF to
<1>6. ASSUME NEW i \in 1 .. k + 1, NEW j \in 1 .. k + 1, i < j
      PROVE  to[i] < to[j]
  <2>1. i \in 1 .. k
    BY <1>6
  <2>2. to[i] = at[i] /\ at[i] \in 1 .. m
    BY <1>1, <1>3, <2>1
  <2>3. CASE j \in 1 .. k
    BY <1>0, <1>3, <1>6, <2>1, <2>2, <2>3
  <2>4. CASE j = k + 1
    BY <1>2, <2>2, <2>4
  <2> QED  BY <1>4, <2>3, <2>4
<1>7. {to[i] : i \in 1 .. k + 1} = {at[i] : i \in 1 .. k} \cup {m + 1}
  BY <1>1, <1>2, <1>3, <1>4, k + 1 \in 1 .. k + 1
<1>8. Enumerates(to, k + 1, m + 1) /\ Continues(to, at, k, m)
  BY <1>2, <1>3, <1>5, <1>6, <1>7 DEF Enumerates, Continues
<1> QED  BY <1>8

\* RecordsWhatSucceeded stays true when one more action ends successfully, recordable
\* or not.
LEMMA RecordsAppend ==
    ASSUME RecordsWhatSucceeded, TypeOK, recording.active,
           NEW kind \in Kinds, NEW answer \in Answers,
           journal' = Append(journal, kind),
           recording' = IF Recordable(kind)
                          THEN [recording EXCEPT !.steps =
                                    Append(@, [kind |-> kind, answer |-> answer])]
                          ELSE recording
    PROVE  RecordsWhatSucceeded'
<1> DEFINE steps == recording.steps
           m     == Len(journal)
           k     == Len(steps)
           e     == [kind |-> kind, answer |-> answer]
           positions == {j \in DOMAIN journal : Recordable(journal[j])}
<1>1. /\ steps \in Seq([kind : Kinds, answer : Answers]) /\ journal \in Seq(Kinds)
      /\ recording \in Recording
  BY DEF TypeOK, Recording
<1>2. /\ m \in Nat /\ k \in Nat /\ DOMAIN journal = 1 .. m /\ DOMAIN steps = 1 .. k
  BY <1>1
<1>3. /\ DOMAIN journal' = 1 .. m + 1 /\ journal'[m + 1] = kind
      /\ \A j \in 1 .. m : journal'[j] = journal[j]
  BY <1>1
<1>4. PICK at \in [1 .. k -> 1 .. m] :
          /\ \A i, j \in 1 .. k : i < j => at[i] < at[j]
          /\ \A i \in 1 .. k : steps[i].kind = journal[at[i]]
          /\ {at[i] : i \in 1 .. k} = positions
  <2>1. PICK at \in [DOMAIN steps -> DOMAIN journal] :
            /\ \A i, j \in DOMAIN at : i < j => at[i] < at[j]
            /\ \A i \in DOMAIN at : steps[i].kind = journal[at[i]]
            /\ {at[i] : i \in DOMAIN at} = positions
    BY DEF RecordsWhatSucceeded
  <2>2. DOMAIN at = 1 .. k /\ at \in [1 .. k -> 1 .. m]
    BY <1>2
  <2> QED  BY <2>1, <2>2, Zenon
<1>5. /\ recording' \in Recording /\ recording'.active = recording.active
      /\ recording'.raw = recording.raw
      /\ recording'.steps = IF Recordable(kind) THEN Append(steps, e) ELSE steps
  <2>1. Append(steps, e) \in Seq([kind : Kinds, answer : Answers])
    BY <1>1
  <2> HIDE DEF e
  <2> QED  BY <1>1, <2>1 DEF Recording, e
<1>6. positions' = IF Recordable(kind) THEN positions \cup {m + 1} ELSE positions
  <2> DEFINE fit(x) == x \notin Record \cup {"replay", "finish_session", "save_action",
                                             "unknown", "initial_run"}
                       /\ (x = "raw_mi" => recording.raw)
  <2>1. \A j : j \in positions <=> j \in 1 .. m /\ fit(journal[j])
    BY <1>2 DEF Recordable
  <2>2. \A j : j \in positions' <=> j \in 1 .. m + 1 /\ fit(journal'[j])
    BY <1>3, <1>5 DEF Recordable
  <2>3. Recordable(kind) <=> fit(kind)
    BY DEF Recordable
  <2>4. \A j : j \in 1 .. m + 1 <=> j \in 1 .. m \/ j = m + 1
    BY <1>2
  <2> HIDE DEF positions, fit
  <2> QED  BY <1>3, <2>1, <2>2, <2>3, <2>4
<1>8. SUFFICES \E to \in [DOMAIN recording'.steps -> DOMAIN journal'] :
                   /\ \A i, j \in DOMAIN to : i < j => to[i] < to[j]
                   /\ \A i \in DOMAIN to : recording'.steps[i].kind = journal'[to[i]]
                   /\ {to[i] : i \in DOMAIN to} = positions'
  BY Zenon DEF RecordsWhatSucceeded
<1> HIDE DEF positions
<1>9. \A i \in 1 .. k : at[i] \in 1 .. m
  OBVIOUS
<1>10. CASE ~Recordable(kind)
  <2>1. recording'.steps = steps
    BY <1>5, <1>10
  <2>2. at \in [DOMAIN recording'.steps -> DOMAIN journal'] /\ DOMAIN at = 1 .. k
    <3>1. DOMAIN recording'.steps = 1 .. k /\ DOMAIN journal' = 1 .. m + 1 /\ 1 .. m \subseteq 1 .. m + 1
      <4>1. \A j : j \in 1 .. m => j \in 1 .. m + 1
        BY <1>2
      <4> QED  BY <1>2, <1>3, <2>1, <4>1, Zenon
    <3>2. at \in [1 .. k -> 1 .. m + 1]
      BY <3>1
    <3> QED  BY <3>1, <3>2
  <2>3. \A i \in 1 .. k : recording'.steps[i].kind = journal'[at[i]]
    BY <1>3, <1>4, <1>9, <2>1
  <2> QED  BY <1>4, <1>6, <1>10, <2>2, <2>3, Zenon
<1>11. CASE Recordable(kind)
  <2>1. PICK to : Enumerates(to, k + 1, m + 1) /\ Continues(to, at, k, m)
    <3>1. k \in Nat /\ m \in Nat /\ Enumerates(at, k, m)
      BY <1>2, <1>4 DEF Enumerates
    <3> HIDE DEF k, m
    <3> QED  BY <3>1, EnumerationExtends
  <2>1a. /\ to \in [1 .. k + 1 -> 1 .. m + 1] /\ DOMAIN to = 1 .. k + 1
         /\ \A i, j \in 1 .. k + 1 : i < j => to[i] < to[j]
    BY <2>1 DEF Enumerates
  <2>1b. /\ to[k + 1] = m + 1
         /\ \A i \in 1 .. k : to[i] = at[i]
         /\ {to[i] : i \in 1 .. k + 1} = {at[i] : i \in 1 .. k} \cup {m + 1}
    BY <2>1 DEF Continues
  <2>2. /\ DOMAIN recording'.steps = 1 .. k + 1
        /\ recording'.steps[k + 1] = e
        /\ \A i \in 1 .. k : recording'.steps[i] = steps[i]
    BY <1>1, <1>5, <1>11
  <2>3. to \in [DOMAIN recording'.steps -> DOMAIN journal'] /\ DOMAIN to = 1 .. k + 1
    BY <1>3, <2>1a, <2>2, Zenon
  <2>4. \A i \in 1 .. k + 1 : recording'.steps[i].kind = journal'[to[i]]
    <3> TAKE i \in 1 .. k + 1
    <3>1. i \in 1 .. k \/ i = k + 1
      BY <1>2
    <3>2. CASE i \in 1 .. k
      BY <1>3, <1>4, <1>9, <2>1b, <2>2, <3>2
    <3>3. CASE i = k + 1
      BY <1>3, <2>1b, <2>2, <3>3
    <3> QED  BY <3>1, <3>2, <3>3
  <2>5. {to[i] : i \in 1 .. k + 1} = positions'
    BY <1>4, <1>6, <1>11, <2>1b
  <2> QED  BY <2>1a, <2>3, <2>4, <2>5, Zenon
<1> QED  BY <1>10, <1>11

LEMMA RecordsKept ==
    ASSUME RecordsWhatSucceeded, UNCHANGED <<recording, journal>>
    PROVE  RecordsWhatSucceeded'
BY DEF RecordsWhatSucceeded, Recordable

LEMMA FinishedRecords ==
    ASSUME TypeOK, RecordsWhatSucceeded,
           NEW r \in Request, NEW ok \in BOOLEAN, NEW answer \in Answers, NEW below,
           Finished(r, ok, answer, below)
    PROVE  RecordsWhatSucceeded'
<1>1. r.kind \in Kinds
  BY DEF Request
<1>2. CASE below = <<>> /\ ok /\ recording.active
  <2>1. journal' = Append(journal, r.kind)
    BY <1>2 DEF Finished
  <2>2. recording' = IF Recordable(r.kind)
                       THEN [recording EXCEPT !.steps =
                                 Append(@, [kind |-> r.kind, answer |-> answer])]
                       ELSE recording
    BY <1>2 DEF Finished, Recorded
  <2> QED  BY <1>1, <1>2, <2>1, <2>2, RecordsAppend
<1>3. CASE ~(below = <<>> /\ ok /\ recording.active)
  BY <1>3, RecordsKept DEF Finished, Recorded
<1> QED  BY <1>2, <1>3

\* How an action ends: it returns, throws, goes on as a replay, or as the calls of a stop.
LEMMA PerformEnds ==
    ASSUME NEW r, NEW below, Perform(r, below)
    PROVE  \/ \E ok \in BOOLEAN, answer \in Answers :
                  Finished(r, ok, answer, below) /\ UNCHANGED lost
           \/ Thrown(below)
           \/ RecordDirect(r, below)
           \/ /\ r.kind = "replay" /\ stack' = Append(below, ReplayFrame(r.name))
              /\ UNCHANGED <<recording, journal, lost>>
           \/ /\ r.kind \in {"run", "continue"} /\ Allowed(r.kind) /\ UNCHANGED lost
              /\ \E res \in ExecResults(r.kind) : Ran(res) /\ Executed(r, res, below)
<1> DEFINE Ends == \/ \E ok \in BOOLEAN, answer \in Answers :
                          Finished(r, ok, answer, below) /\ UNCHANGED lost
                   \/ Thrown(below)
<1>1. \A ok \in BOOLEAN, answer \in Answers : Returned(r, ok, answer, below) => Ends
  BY DEF Returned
<1>2. "done" \in Answers /\ "error" \in Answers /\ "timeout" \in Answers
  BY DEF Answers
<1>3. CASE Deny(r, below)
  BY <1>1, <1>2, <1>3 DEF Deny
<1>4. CASE Allowed(r.kind) /\ Ask(r, below)
  BY <1>1, <1>4 DEF Ask
<1>5. CASE Allowed(r.kind) /\ (ProbeList(r, below) \/ RawMi(r, below))
  <2>1. \E ok \in BOOLEAN, answer \in Answers : Returned(r, ok, answer, below)
    BY <1>2, <1>5, Zenon DEF ProbeList, RawMi
  <2> QED  BY <1>1, <2>1
<1>6. CASE Allowed(r.kind) /\ (Note(r, below) \/ Unsupported(r, below) \/ RecordNested(r, below))
  <2>1. \E ok \in BOOLEAN : Returned(r, ok, "done", below)
    BY <1>6, Zenon DEF Note, Unsupported, RecordNested
  <2> QED  BY <1>1, <1>2, <2>1
<1>7. CASE Allowed(r.kind) /\ Finish(r, below)
  BY <1>2, <1>7 DEF Finish
<1>8. CASE Allowed(r.kind) /\ SetProbe(r, below)
  <2>1. \/ \E answer \in {"error", "timeout"} : Returned(r, FALSE, answer, below)
        \/ Thrown(below)
        \/ Finished(r, TRUE, "done", below) /\ UNCHANGED lost
    BY <1>8 DEF SetProbe
  <2> QED  BY <1>1, <1>2, <2>1
<1>9. CASE Allowed(r.kind) /\ MutateProbe(r, below)
  <2>1. \/ \E answer \in {"error", "timeout"} : Returned(r, FALSE, answer, below)
        \/ Thrown(below)
        \/ Finished(r, TRUE, "done", below) /\ UNCHANGED lost
    BY <1>9 DEF MutateProbe
  <2> QED  BY <1>1, <1>2, <2>1
<1>10. CASE Allowed(r.kind) /\ Resume(r, below)
  <2>1. \/ Thrown(below)
        \/ \E res \in ExecResults(r.kind) : Ran(res) /\ Executed(r, res, below) /\ UNCHANGED lost
    BY <1>10 DEF Resume
  <2>2. r.kind \in {"run", "continue"}
    BY <1>10 DEF Resume
  <2> QED  BY <1>10, <2>1, <2>2
<1>11. CASE Allowed(r.kind) /\ Replay(r, below)
  <2>1. \/ Returned(r, FALSE, "done", below)
        \/ stack' = Append(below, ReplayFrame(r.name)) /\ UNCHANGED <<recording, journal, lost>>
    BY <1>11 DEF Replay
  <2>2. r.kind = "replay"
    BY <1>11 DEF Replay
  <2> QED  BY <1>1, <1>2, <2>1, <2>2
<1> HIDE DEF Ends
<1> QED  BY <1>3, <1>4, <1>5, <1>6, <1>7, <1>8, <1>9, <1>10, <1>11 DEF Perform, Ends

LEMMA ExecutedRecords ==
    ASSUME NEW r, NEW res, NEW below, Executed(r, res, below)
    PROVE  UNCHANGED <<recording, journal>> \/ Finished(r, FALSE, "error", below)
BY DEF Executed

LEMMA PerformRecords ==
    ASSUME TypeOK, RecordsWhatSucceeded, NEW r \in Request, NEW below, Perform(r, below)
    PROVE  RecordsWhatSucceeded'
<1>1. CASE RecordDirect(r, below)
  <2>1. CASE UNCHANGED <<recording, journal>>
    BY <2>1, RecordsKept
  <2>2. CASE journal' = <<>> /\ recording'.steps = <<>>
    <3>1. <<>> \in [DOMAIN recording'.steps -> DOMAIN journal'] /\ DOMAIN <<>> = {}
      BY <2>2
    <3>2. DOMAIN journal' = {}
      BY <2>2
    <3> QED  BY <3>1, <3>2 DEF RecordsWhatSucceeded
  <2> QED  BY <1>1, <2>1, <2>2 DEF RecordDirect, NoRecording
<1>2. \/ \E ok \in BOOLEAN, answer \in Answers : Finished(r, ok, answer, below)
      \/ UNCHANGED <<recording, journal>>
      \/ RecordDirect(r, below)
  <2>1. Thrown(below) => UNCHANGED <<recording, journal>>
    BY DEF Thrown
  <2>2. "error" \in Answers
    BY DEF Answers
  <2> QED  BY <2>1, <2>2, PerformEnds, ExecutedRecords
<1> QED  BY <1>1, <1>2, FinishedRecords, RecordsKept

\* A recording holds the recordable actions the caller was told had succeeded, in
\* order and nothing else, whatever these replayed or ran in turn, and whatever was
\* refused, failed or thrown.
THEOREM RecordingCorrect == Spec => []RecordsWhatSucceeded
<1>1. Init => RecordsWhatSucceeded
  BY DEF Init, RecordsWhatSucceeded, NoRecording
<1>2. TypeOK /\ RecordsWhatSucceeded /\ [Next]_vars => RecordsWhatSucceeded'
  <2> SUFFICES ASSUME TypeOK, RecordsWhatSucceeded, [Next]_vars
               PROVE  RecordsWhatSucceeded'
    OBVIOUS
  <2>1. ASSUME NEW r \in Requests[coreMode], Direct(r)
        PROVE  RecordsWhatSucceeded'
    <3>1. r \in Request
      BY RequestsAssumption DEF TypeOK
    <3> QED  BY <2>1, <3>1, PerformRecords DEF Direct
  <2>2. CASE Child
    BY <2>2, ChildType, PerformRecords DEF Child
  <2>3. CASE Onward
    BY <2>3, ReqType, PerformRecords DEF Onward
  <2>4. CASE Leave
    <3>1. Finished(Top.req, Top.op = "hit" \/ ~Top.failed, "done", BelowTop)
      BY <2>4 DEF Leave
    <3>2. Top \in Frame
      BY <2>4, TopType DEF Leave
    <3>3. Top.req \in Request /\ "done" \in Answers /\ (Top.op = "hit" \/ ~Top.failed) \in BOOLEAN
      BY <3>2 DEF Frame, Answers
    <3> QED  BY <3>1, <3>3, FinishedRecords
  <2>5. CASE InitialRun
    <3>1. UNCHANGED callVars \/ \E res : Executed(Req("initial_run"), res, <<>>)
      BY <2>5 DEF InitialRun
    <3>2. UNCHANGED <<recording, journal>> \/ Finished(Req("initial_run"), FALSE, "error", <<>>)
      BY <3>1, ExecutedRecords DEF callVars
    <3> QED  BY <3>2, ReqType, FinishedRecords, RecordsKept DEF Answers
  <2>6. CASE Start \/ LoadCore \/ Cut \/ Close \/ UNCHANGED vars
    BY <2>6, RecordsKept DEF Start, LoadCore, Cut, Thrown, Close, vars
  <2> QED  BY <2>1, <2>2, <2>3, <2>4, <2>5, <2>6 DEF Next, Ended
<1> QED  BY <1>1, <1>2, TypeCorrect, PTL DEF Spec

-------------------------------------------------------------------------------
(* Calls in progress *)

\* The entries of a stack that are hits of probe n to be written.
Counted(calls, n) == {i \in DOMAIN calls : calls[i].known /\ calls[i].number = n}

\* Two stacks with the same hits, whatever is left to be done for them.
SameHits(calls, others) ==
    /\ Len(calls) = Len(others)
    /\ \A i \in DOMAIN others :
           /\ calls[i].known = others[i].known /\ calls[i].number = others[i].number
           /\ calls[i].op = others[i].op

LEMMA SameCounted ==
    ASSUME NEW calls \in Seq(Frame), NEW others \in Seq(Frame), SameHits(calls, others), NEW n
    PROVE  Counted(calls, n) = Counted(others, n)
<1>1. DOMAIN calls = DOMAIN others
  BY DEF SameHits
<1> QED  BY <1>1 DEF SameHits, Counted

LEMMA CountedFinite ==
    ASSUME NEW calls \in Seq(Frame), NEW n
    PROVE  IsFiniteSet(Counted(calls, n)) /\ Cardinality(Counted(calls, n)) \in Nat
<1>1. IsFiniteSet(1 .. Len(calls)) /\ DOMAIN calls = 1 .. Len(calls)
  BY FS_Interval
<1>2. Counted(calls, n) \subseteq 1 .. Len(calls)
  BY <1>1 DEF Counted
<1>3. IsFiniteSet(Counted(calls, n))
  BY <1>1, <1>2, FS_Subset
<1> QED  BY <1>3, FS_CardinalityType

LEMMA CountedEmpty == \A n : Cardinality(Counted(<<>>, n)) = 0
<1>1. \A n : Counted(<<>>, n) = {}
  BY DEF Counted
<1> QED  BY <1>1, FS_EmptySet

\* A call pushed counts for its own probe only.
LEMMA CountedAppend ==
    ASSUME NEW calls \in Seq(Frame), NEW f \in Frame, NEW n
    PROVE  Cardinality(Counted(Append(calls, f), n)) =
               Cardinality(Counted(calls, n)) + (IF f.known /\ f.number = n THEN 1 ELSE 0)
<1> DEFINE m    == Len(calls)
           more == Append(calls, f)
<1>1. m \in Nat /\ DOMAIN calls = 1 .. m /\ m + 1 \notin 1 .. m
  OBVIOUS
<1>2. DOMAIN more = 1 .. m + 1 /\ more[m + 1] = f /\ \A i \in 1 .. m : more[i] = calls[i]
  OBVIOUS
<1>3. \A i : i \in 1 .. m + 1 <=> i \in 1 .. m \/ i = m + 1
  BY <1>1
<1>4. IsFiniteSet(Counted(calls, n)) /\ Cardinality(Counted(calls, n)) \in Nat
  BY CountedFinite
<1> HIDE DEF m, more
<1>5. CASE f.known /\ f.number = n
  <2>1. Counted(more, n) = Counted(calls, n) \cup {m + 1}
    BY <1>1, <1>2, <1>3, <1>5 DEF Counted
  <2>2. m + 1 \notin Counted(calls, n)
    BY <1>1 DEF Counted
  <2>3. Cardinality(Counted(more, n)) = Cardinality(Counted(calls, n)) + 1
    BY <1>4, <2>1, <2>2, FS_AddElement
  <2> QED  BY <1>5, <2>3 DEF more
<1>6. CASE ~(f.known /\ f.number = n)
  <2>1. Counted(more, n) = Counted(calls, n)
    BY <1>1, <1>2, <1>3, <1>6 DEF Counted
  <2> QED  BY <1>4, <1>6, <2>1 DEF more
<1> QED  BY <1>5, <1>6

\* The hits of the calls that are kept and those of the calls that are dropped.
LEMMA CountedSplit ==
    ASSUME NEW calls \in Seq(Frame), NEW kept \in 0 .. Len(calls), NEW n
    PROVE  LET dropped == {i \in kept + 1 .. Len(calls) : calls[i].known /\ calls[i].number = n}
           IN /\ Cardinality(dropped) \in Nat
              /\ Cardinality(Counted(calls, n)) =
                     Cardinality(Counted(SubSeq(calls, 1, kept), n)) + Cardinality(dropped)
<1> DEFINE m       == Len(calls)
           first   == SubSeq(calls, 1, kept)
           dropped == {i \in kept + 1 .. m : calls[i].known /\ calls[i].number = n}
<1>1. m \in Nat /\ kept \in Nat /\ kept <= m /\ DOMAIN calls = 1 .. m
  OBVIOUS
<1>2. first \in Seq(Frame) /\ DOMAIN first = 1 .. kept /\ \A i \in 1 .. kept : first[i] = calls[i]
  BY <1>1
<1>3. \A i : i \in 1 .. m <=> i \in 1 .. kept \/ i \in kept + 1 .. m
  BY <1>1
<1>4. \A i : ~(i \in 1 .. kept /\ i \in kept + 1 .. m)
  BY <1>1
<1>5. IsFiniteSet(Counted(first, n)) /\ Cardinality(Counted(first, n)) \in Nat
  BY <1>2, CountedFinite
<1>6. IsFiniteSet(dropped)
  <2>1. IsFiniteSet(kept + 1 .. m)
    BY <1>1, FS_Interval
  <2> QED  BY <2>1, FS_Subset
<1>7. Cardinality(dropped) \in Nat
  BY <1>6, FS_CardinalityType
<1>8. /\ Counted(calls, n) = Counted(first, n) \cup dropped
      /\ Counted(first, n) \cap dropped = {}
  <2>1. \A i : i \in Counted(first, n) <=> i \in 1 .. kept /\ calls[i].known /\ calls[i].number = n
    BY <1>2 DEF Counted
  <2>2. \A i : i \in Counted(calls, n) <=> i \in 1 .. m /\ calls[i].known /\ calls[i].number = n
    BY <1>1 DEF Counted
  <2>3. \A i : i \in dropped <=> i \in kept + 1 .. m /\ calls[i].known /\ calls[i].number = n
    OBVIOUS
  <2> HIDE DEF m, first, dropped
  <2> QED  BY <1>3, <1>4, <2>1, <2>2, <2>3
<1>9. Cardinality(Counted(calls, n)) = Cardinality(Counted(first, n)) + Cardinality(dropped)
  <2>1. Cardinality(Counted(first, n) \cap dropped) = 0
    BY <1>8, FS_EmptySet
  <2> HIDE DEF first, dropped
  <2>2. Cardinality(Counted(first, n) \cup dropped) =
            Cardinality(Counted(first, n)) + Cardinality(dropped)
              - Cardinality(Counted(first, n) \cap dropped)
    BY <1>5, <1>6, FS_Union
  <2> QED  BY <1>5, <1>7, <1>8, <2>1, <2>2
<1> QED  BY <1>7, <1>9

\* The end of an action leaves the hits in progress what they were.
LEMMA DeliverSame ==
    ASSUME NEW below \in Seq(Frame), NEW ok \in BOOLEAN
    PROVE  Deliver(below, ok) \in Seq(Frame) /\ SameHits(Deliver(below, ok), below)
<1>1. Deliver(below, ok) \in Seq(Frame)
  BY DeliverType
<1>2. CASE below = <<>>
  BY <1>1, <1>2 DEF Deliver, SameHits
<1>3. CASE below # <<>>
  <2> DEFINE m == Len(below)
  <2>1. m \in 1 .. m /\ DOMAIN below = 1 .. m /\ below[m] \in Frame
    BY <1>3
  <2>2. Deliver(below, ok) = [below EXCEPT ![m] = After(below[m], ok)]
    BY <1>3 DEF Deliver
  <2>3. /\ After(below[m], ok).known = below[m].known
        /\ After(below[m], ok).number = below[m].number
        /\ After(below[m], ok).op = below[m].op
    BY <2>1 DEF After, Frame
  <2>4. Len(Deliver(below, ok)) = m
    BY <2>1, <2>2
  <2>5. \A i \in 1 .. m : Deliver(below, ok)[i] = IF i = m THEN After(below[m], ok) ELSE below[i]
    BY <2>1, <2>2
  <2> QED  BY <1>1, <2>1, <2>3, <2>4, <2>5 DEF SameHits
<1> QED  BY <1>2, <1>3

\* ... and so does taking the next action from the policy or plan on top.
LEMMA InTopSame ==
    ASSUME TypeOK, stack # <<>>, NEW f \in Frame,
           f.known = Top.known, f.number = Top.number, f.op = Top.op
    PROVE  InTop(f) \in Seq(Frame) /\ SameHits(InTop(f), stack)
<1> DEFINE m == Len(stack)
<1>1. stack \in Seq(Frame) /\ m \in 1 .. m /\ DOMAIN stack = 1 .. m
  BY DEF TypeOK
<1>2. InTop(f) \in Seq(Frame)
  BY TopType
<1>3. Len(InTop(f)) = m
  BY <1>1 DEF InTop
<1>4. \A i \in 1 .. m : InTop(f)[i] = IF i = m THEN f ELSE stack[i]
  BY <1>1 DEF InTop
<1> QED  BY <1>1, <1>2, <1>3, <1>4 DEF SameHits, Top

\* The calls under which Child and Onward perform an action.
LEMMA BelowSame ==
    ASSUME TypeOK, stack # <<>>
    PROVE  /\ Top.todo # <<>> =>
                SameHits(InTop([Top EXCEPT !.todo = Tail(Top.todo), !.stop = Head(Top.todo).stop]),
                         stack)
           /\ SameHits(InTop([Top EXCEPT !.onward = FALSE, !.stop = FALSE]), stack)
<1>1. Top \in Frame
  BY TopType
<1>2. Top.todo \in Seq(Step)
  BY <1>1 DEF Frame
<1>3. ASSUME Top.todo # <<>>
      PROVE  SameHits(InTop([Top EXCEPT !.todo = Tail(Top.todo), !.stop = Head(Top.todo).stop]),
                      stack)
  <2> DEFINE f == [Top EXCEPT !.todo = Tail(Top.todo), !.stop = Head(Top.todo).stop]
  <2>1. Head(Top.todo) \in Step /\ Tail(Top.todo) \in Seq(Step)
    BY <1>2, <1>3
  <2>2. f \in Frame /\ f.known = Top.known /\ f.number = Top.number /\ f.op = Top.op
    BY <1>1, <2>1 DEF Frame, Step
  <2> HIDE DEF f
  <2>3. SameHits(InTop(f), stack)
    BY <2>2, InTopSame
  <2> QED  BY <2>3 DEF f
<1>4. SameHits(InTop([Top EXCEPT !.onward = FALSE, !.stop = FALSE]), stack)
  <2> DEFINE f == [Top EXCEPT !.onward = FALSE, !.stop = FALSE]
  <2>1. f \in Frame /\ f.known = Top.known /\ f.number = Top.number /\ f.op = Top.op
    BY <1>1 DEF Frame
  <2> HIDE DEF f
  <2>2. SameHits(InTop(f), stack)
    BY <2>1, InTopSame
  <2> QED  BY <2>2 DEF f
<1> QED  BY <1>3, <1>4

-------------------------------------------------------------------------------
(* The table of probes *)

\* Neither the table nor GDB has a probe under a number GDB has not given out, nor the
\* table one under that of an answer still to be read; only a deadline leaves such an
\* answer.
TableInv ==
    /\ late # 0 => late <= made /\ ~Known(late)
    /\ timely => late = 0
    /\ \A n \in Numbers : n > made => ~Known(n) /\ breaks[n].status = "gone" /\ n \notin unnoted
    /\ \A n \in Numbers : ~Known(n) => probes[n].hits = 0

\* The table says of probe n what it did.
SameProbe(n) ==
    /\ probes'[n].kind = probes[n].kind /\ probes'[n].policy = probes[n].policy
    /\ probes'[n].enabled = probes[n].enabled /\ probes'[n].deleted = probes[n].deleted
    /\ ~Known(n) => probes'[n].hits = probes[n].hits

\* Nothing has happened to GDB's breakpoint n, or behind the back of the table.
Unseen(n) ==
    \/ breaks'[n] = breaks[n] /\ (n \in unnoted' => n \in unnoted)
    \/ /\ breaks[n].status # "gone"
       /\ breaks'[n].kind = breaks[n].kind /\ breaks'[n].policy = breaks[n].policy
       /\ timely' => n \in unnoted'

\* A step that enters nothing in the table and sets nothing in GDB: hits may be counted
\* and breakpoints change, which is noted as unnoted.
Behind ==
    /\ UNCHANGED made /\ late' \in {0, late} /\ (timely' => timely)
    /\ unnoted \subseteq unnoted'
    /\ \A n \in Numbers : SameProbe(n) /\ Unseen(n)

\* A raw_mi has set a breakpoint.
RawInserted ==
    /\ made < MaxProbes /\ made' = made + 1
    /\ \E b \in Break : breaks' = [breaks EXCEPT ![made + 1] = b]
    /\ late' \in {0, late, made + 1}
    /\ timely' => timely /\ late' = 0
    /\ UNCHANGED <<probes, unnoted>>

\* Action r has changed its probe, and the table is told.
Noted(r) ==
    /\ r.kind \in ProbeMutate /\ r.num \in Numbers
    /\ UNCHANGED <<made, timely>> /\ late' = 0
    /\ breaks' = IF breaks[r.num].status = "gone" THEN breaks
                 ELSE [breaks EXCEPT ![r.num] = [breaks[r.num] EXCEPT !.status = Status(r.kind)]]
    /\ probes' = IF Known(r.num)
                   THEN [probes EXCEPT ![r.num] = Mutated(r.kind, probes[r.num])] ELSE probes
    /\ unnoted' = IF breaks[r.num].status = "gone" /\ r.kind # "probe_delete" THEN unnoted
                  ELSE unnoted \ {r.num}

\* GDB has given out a number for the breakpoint that action r sets.
Insertion(r) ==
    /\ made < MaxProbes /\ made' = made + 1
    /\ breaks' = [breaks EXCEPT ![made + 1] =
                      [kind |-> r.kind, policy |-> r.name, status |-> "on"]]

\* The probe of action r is entered under number e.
Entry(r, e) ==
    probes' = [probes EXCEPT ![e] = [kind |-> r.kind, policy |-> r.name, enabled |-> TRUE,
                                     deleted |-> FALSE, hits |-> 0]]

\* What setting a probe does to the tables, however late the answers come: a probe
\* is entered under a number not in the table, that of its own breakpoint unless a
\* deadline was missed.
LEMMA SetProbeEffect ==
    ASSUME TypeOK, TableInv, NEW r, NEW below, SetProbe(r, below)
    PROVE  /\ UNCHANGED unnoted
           /\ UNCHANGED <<made, breaks>> \/ Insertion(r)
           /\ \/ UNCHANGED probes
              \/ \E e \in Numbers :
                     /\ ~Known(e) /\ e <= made' /\ late' # e
                     /\ Insertion(r) /\ Entry(r, e)
                     /\ timely' => e = made + 1
           /\ \/ late' \in {0, late}
              \/ late' = made + 1 /\ Insertion(r)
           /\ timely' => timely /\ late' = 0
<1> DEFINE Entered(e) == UNCHANGED probes \/ Entry(r, e)
           Refusal    == UNCHANGED <<made, breaks, probes, timely>> /\ late' = 0
           Answered   == /\ Insertion(r) /\ late' = 0 /\ Entered(InsertedAs(made + 1))
                         /\ \E c : timely' = (timely /\ c # "timeout")
           Missed     == /\ UNCHANGED probes /\ timely' = FALSE
                         /\ \/ Insertion(r) /\ late' = IF late = 0 THEN made + 1 ELSE late
                            \/ UNCHANGED <<made, breaks>> /\ late' = late
           Belated    == /\ late # 0 /\ Insertion(r) /\ Entered(late)
                         /\ late' \in {0, made + 1} /\ timely' = FALSE
<1>1. Refusal \/ Answered \/ Missed \/ Belated
  BY DEF SetProbe, Insertion, Entry
<1>2. UNCHANGED unnoted
  BY DEF SetProbe
<1>3. made \in 0 .. MaxProbes /\ late \in 0 .. MaxProbes /\ MaxProbes \in Nat /\ timely \in BOOLEAN
  BY BoundsAssumption DEF TypeOK
<1>4. late # 0 => late <= made /\ late \in Numbers /\ ~Known(late)
  BY <1>3 DEF TableInv, Numbers
<1>5. made < MaxProbes => made + 1 \in Numbers /\ ~Known(made + 1)
  BY <1>3 DEF TableInv, Numbers
<1>6. Insertion(r) => made < MaxProbes /\ made' = made + 1
  BY DEF Insertion
<1>7. timely => late = 0
  BY DEF TableInv
<1>8. CASE Refusal
  BY <1>2, <1>7, <1>8
<1>9. CASE Answered
  <2>1. timely' => timely
    BY <1>3, <1>9
  <2> DEFINE e == InsertedAs(made + 1)
  <2>2. /\ e \in Numbers /\ ~Known(e) /\ e <= made + 1 /\ e # 0
        /\ late = 0 => e = made + 1
    BY <1>3, <1>4, <1>5, <1>6, <1>9 DEF InsertedAs, Numbers
  <2> HIDE DEF e
  <2> QED  BY <1>2, <1>6, <1>7, <1>9, <2>1, <2>2 DEF e
<1>10. CASE Missed
  BY <1>2, <1>10
<1>11. CASE Belated
  <2>1. late \in Numbers /\ ~Known(late) /\ late <= made + 1 /\ late # made + 1
    BY <1>3, <1>4, <1>11
  <2> QED  BY <1>2, <1>6, <1>11, <2>1
<1> QED  BY <1>1, <1>8, <1>9, <1>10, <1>11

LEMMA MutatedKeeps ==
    ASSUME NEW kind, NEW p \in Probe
    PROVE  /\ Mutated(kind, p).kind = p.kind /\ Mutated(kind, p).policy = p.policy
           /\ Mutated(kind, p).hits = p.hits
           /\ Mutated(kind, p).enabled = (kind = "probe_enable")
           /\ Mutated(kind, p).deleted = (p.deleted \/ kind = "probe_delete")
BY DEF Mutated, Probe

LEMMA CountHitEffect ==
    ASSUME TypeOK, NEW m, probes' = CountHit(m), NEW n \in Numbers
    PROVE  /\ probes'[n].kind = probes[n].kind /\ probes'[n].policy = probes[n].policy
           /\ probes'[n].enabled = probes[n].enabled /\ probes'[n].deleted = probes[n].deleted
           /\ probes'[n].hits = probes[n].hits + IF Known(m) /\ m = n THEN 1 ELSE 0
<1>1. probes \in [Numbers -> Probe] /\ probes[n] \in Probe /\ probes[n].hits \in Nat
  BY DEF TypeOK, Probe
<1>2. CASE Known(m)
  <2>1. m \in Numbers /\ probes' = [probes EXCEPT ![m] = [probes[m] EXCEPT !.hits = probes[m].hits + 1]]
    BY <1>2 DEF CountHit, Known
  <2>2. CASE m = n
    <3>1. probes'[n] = [probes[n] EXCEPT !.hits = probes[n].hits + 1]
      BY <1>1, <2>1, <2>2
    <3> QED  BY <1>1, <1>2, <2>2, <3>1 DEF Probe
  <2>3. CASE m # n
    <3>1. probes'[n] = probes[n]
      BY <1>1, <2>1, <2>3
    <3> QED  BY <1>1, <2>3, <3>1
  <2> QED  BY <2>2, <2>3
<1>3. CASE ~Known(m)
  <2>1. probes' = probes
    BY <1>3 DEF CountHit
  <2> QED  BY <1>1, <1>3, <2>1
<1> QED  BY <1>2, <1>3

LEMMA SameProbes ==
    ASSUME TypeOK, UNCHANGED probes \/ \E m : probes' = CountHit(m)
    PROVE  \A n \in Numbers : SameProbe(n)
<1> TAKE n \in Numbers
<1>1. CASE UNCHANGED probes
  BY <1>1 DEF SameProbe
<1>2. ASSUME NEW m, probes' = CountHit(m)
      PROVE  SameProbe(n)
  <2>1. probes[n].hits \in Nat
    BY DEF TypeOK, Probe
  <2>2. ~Known(n) => ~(Known(m) /\ m = n)
    OBVIOUS
  <2> QED  BY <1>2, <2>1, <2>2, CountHitEffect DEF SameProbe
<1> QED  BY <1>1, <1>2

\* What has become of the breakpoints after a run.
LEMMA RanBehind ==
    ASSUME TypeOK, NEW kind, NEW res \in ExecResults(kind), Ran(res),
           UNCHANGED probes \/ \E m : probes' = CountHit(m)
    PROVE  Behind
<1>1. UNCHANGED made /\ late' \in {0, late} /\ (timely' => timely)
  BY DEF Ran, TypeOK
<1>2. PICK over \in SUBSET Scoped(res) :
          /\ breaks' = [n \in Numbers |-> IF n \in over THEN [breaks[n] EXCEPT !.status = "gone"]
                                          ELSE breaks[n]]
          /\ unnoted' = unnoted \cup over
  BY DEF Ran
<1>3. ASSUME NEW n \in Numbers
      PROVE  Unseen(n)
  <2>1. CASE n \in over
    <3>1. breaks[n] \in Break /\ breaks[n].status # "gone"
      BY <1>2, <2>1 DEF Scoped, TypeOK
    <3>2. breaks'[n] = [breaks[n] EXCEPT !.status = "gone"] /\ n \in unnoted'
      BY <1>2, <2>1
    <3> QED  BY <3>1, <3>2 DEF Break, Unseen
  <2>2. CASE n \notin over
    <3>1. breaks'[n] = breaks[n] /\ (n \in unnoted' => n \in unnoted)
      BY <1>2, <2>2
    <3> QED  BY <3>1 DEF Unseen
  <2> QED  BY <2>1, <2>2
<1> QED  BY <1>1, <1>2, <1>3, SameProbes DEF Behind

\* A step that leaves breakpoints and probes alone.
LEMMA StillBehind ==
    ASSUME TypeOK, UNCHANGED <<probes, breaks, made, unnoted>>,
           late' \in {0, late}, timely' => timely
    PROVE  Behind
BY DEF Behind, SameProbe, Unseen

\* The one breakpoint of GDB that has changed is noted as unnoted.
LEMMA MovedBehind ==
    ASSUME TypeOK, NEW n \in Numbers, NEW status \in {"on", "off", "gone"},
           UNCHANGED <<probes, made>>, late' \in {0, late}, timely' => timely,
           breaks[n].status # "gone",
           breaks' = [breaks EXCEPT ![n] = [breaks[n] EXCEPT !.status = status]],
           unnoted' = unnoted \cup {n} \/ (unnoted' = unnoted /\ ~timely')
    PROVE  Behind
<1>1. breaks \in [Numbers -> Break] /\ breaks[n] \in Break
  BY DEF TypeOK
<1>2. ASSUME NEW m \in Numbers
      PROVE  Unseen(m)
  <2>1. CASE m = n
    <3>1. breaks'[m] = [breaks[n] EXCEPT !.status = status]
      BY <1>1, <2>1
    <3> QED  BY <1>1, <2>1, <3>1 DEF Unseen, Break
  <2>2. CASE m # n
    <3>1. breaks'[m] = breaks[m]
      BY <1>1, <2>2
    <3> QED  BY <2>2, <3>1 DEF Unseen
  <2> QED  BY <2>1, <2>2
<1>3. unnoted \subseteq unnoted'
  OBVIOUS
<1> QED  BY <1>2, <1>3 DEF Behind, SameProbe

LEMMA AskedTables ==
    ASSUME TypeOK, NEW answer, Asked(answer)
    PROVE  late' \in {0, late} /\ (timely' => timely) /\ (answer = "timeout" => ~timely')
BY DEF Asked, TypeOK

LEMMA RawTables ==
    ASSUME TypeOK, NEW r, NEW below, RawMi(r, below)
    PROVE  Behind \/ RawInserted
<1>1. UNCHANGED probes
  BY DEF RawMi
<1>2. \/ UNCHANGED <<late, timely>> /\ UNCHANGED gdbVars
      \/ \E answer \in Answers : \/ RawAsk(answer) \/ RawInsert(answer)
                                \/ RawMutate(answer) \/ RawResume(answer)
  BY DEF RawMi
<1>3. CASE UNCHANGED <<late, timely>> /\ UNCHANGED gdbVars
  BY <1>1, <1>3, StillBehind DEF gdbVars
<1>4. ASSUME NEW answer \in Answers, RawAsk(answer) \/ RawResume(answer)
      PROVE  Behind
  <2>1. UNCHANGED <<breaks, made, unnoted>> /\ Asked(answer)
    BY <1>4 DEF RawAsk, RawResume, gdbVars
  <2> QED  BY <1>1, <2>1, AskedTables, StillBehind
<1>5. ASSUME NEW answer \in Answers, RawInsert(answer)
      PROVE  RawInserted
  <2>1. \E b \in Break : breaks' = [breaks EXCEPT ![made + 1] = b]
    <3>1. \A kind \in ProbeSet : [kind |-> kind, policy |-> "none", status |-> "on"] \in Break
      BY DEF Break, Name
    <3> QED  BY <1>5, <3>1 DEF RawInsert
  <2>2. late' \in {0, late, made + 1} /\ (timely' => timely /\ late' = 0)
    BY <1>5 DEF RawInsert, TypeOK
  <2> QED  BY <1>1, <1>5, <2>1, <2>2 DEF RawInsert, RawInserted
<1>6. ASSUME NEW answer \in Answers, RawMutate(answer)
      PROVE  Behind
  <2>1. PICK n \in Numbers, status \in {"on", "off", "gone"} :
            /\ breaks[n].status # "gone"
            /\ breaks' = [breaks EXCEPT ![n] = [breaks[n] EXCEPT !.status = status]]
            /\ unnoted' = unnoted \cup {n}
    BY <1>6 DEF RawMutate
  <2>2. UNCHANGED made /\ Asked(answer)
    BY <1>6 DEF RawMutate
  <2> QED  BY <1>1, <2>1, <2>2, AskedTables, MovedBehind
<1> QED  BY <1>2, <1>3, <1>4, <1>5, <1>6

LEMMA MutateTables ==
    ASSUME TypeOK, NEW r \in Request, NEW below, MutateProbe(r, below)
    PROVE  Behind \/ Noted(r)
<1> DEFINE n    == r.num
           Gone == breaks[n].status = "gone"
           Done == IF Gone THEN UNCHANGED breaks
                   ELSE breaks' = [breaks EXCEPT ![n] = [breaks[n] EXCEPT !.status = Status(r.kind)]]
<1>1. n \in Numbers /\ Status(r.kind) \in {"on", "off", "gone"} /\ UNCHANGED made
      /\ r.kind \in ProbeMutate
  BY DEF MutateProbe, Request, ProbeMutate, Status
<1>2. \/ /\ Asked("done") /\ Done
         /\ probes' = IF Known(n) THEN [probes EXCEPT ![n] = Mutated(r.kind, probes[n])] ELSE probes
         /\ unnoted' = IF Gone /\ r.kind # "probe_delete" THEN unnoted ELSE unnoted \ {n}
      \/ /\ Asked("done") /\ Done /\ UNCHANGED probes
         /\ unnoted' = IF Gone THEN unnoted ELSE unnoted \cup {n}
      \/ Asked("error") /\ UNCHANGED <<breaks, probes, unnoted>>
      \/ Asked("timeout") /\ (Done \/ UNCHANGED breaks) /\ UNCHANGED <<probes, unnoted>>
  BY DEF MutateProbe
<1>3. CASE /\ Asked("done") /\ Done
           /\ probes' = IF Known(n) THEN [probes EXCEPT ![n] = Mutated(r.kind, probes[n])] ELSE probes
           /\ unnoted' = IF Gone /\ r.kind # "probe_delete" THEN unnoted ELSE unnoted \ {n}
  <2>1. late' = 0 /\ timely' = timely
    BY <1>3 DEF Asked, TypeOK
  <2> QED  BY <1>1, <1>3, <2>1 DEF Noted
<1>4. CASE \E answer : Asked(answer) /\ UNCHANGED <<breaks, probes, unnoted>>
  BY <1>1, <1>4, AskedTables, StillBehind
<1>5. ASSUME NEW answer, Asked(answer), Done, ~Gone, UNCHANGED probes,
             unnoted' = unnoted \cup {n} \/ (unnoted' = unnoted /\ answer = "timeout")
      PROVE  Behind
  BY <1>1, <1>5, AskedTables, MovedBehind
<1> HIDE DEF n
<1> QED  BY <1>2, <1>3, <1>4, <1>5

\* What an action may do to the tables.
LEMMA PerformTables ==
    ASSUME TypeOK, NEW r \in Request, NEW below, Perform(r, below)
    PROVE  Behind \/ RawInserted \/ Noted(r) \/ SetProbe(r, below)
<1>1. CASE Resume(r, below)
  <2>1. CASE UNCHANGED <<probes, late, timely>> /\ UNCHANGED gdbVars
    BY <2>1, StillBehind DEF gdbVars
  <2>2. CASE \E res \in ExecResults(r.kind) :
                 Ran(res) /\ (Executed(r, res, below) \/ Interrupted(res))
    <3>1. PICK res \in ExecResults(r.kind) :
                 Ran(res) /\ (Executed(r, res, below) \/ Interrupted(res))
      BY <2>2
    <3>2. UNCHANGED probes \/ \E m : probes' = CountHit(m)
      BY <3>1 DEF Executed, Interrupted
    <3> QED  BY <3>1, <3>2, RanBehind
  <2> QED  BY <1>1, <2>1, <2>2 DEF Resume
<1>2. CASE Ask(r, below) \/ ProbeList(r, below)
  <2>1. UNCHANGED <<probes, breaks, made, unnoted>> /\ \E answer \in Answers : Asked(answer)
    BY <1>2 DEF Ask, ProbeList, gdbVars
  <2> QED  BY <2>1, AskedTables, StillBehind
<1>3. CASE \/ Deny(r, below) \/ Note(r, below) \/ Unsupported(r, below) \/ Finish(r, below)
           \/ RecordNested(r, below) \/ RecordDirect(r, below) \/ Replay(r, below)
  <2>1. UNCHANGED <<probes, breaks, made, unnoted, late, timely>>
    BY <1>3 DEF Deny, Note, Unsupported, Finish, RecordNested, RecordDirect, Replay, gdbVars
  <2> QED  BY <2>1, StillBehind
<1> QED  BY <1>1, <1>2, <1>3, RawTables, MutateTables DEF Perform

LEMMA BehindTable ==
    ASSUME TypeOK, TableInv, Behind
    PROVE  TableInv'
<1>1. \A n \in Numbers : Known(n)' <=> Known(n)
  BY DEF Behind, SameProbe, Known
<1>2. late' # 0 => late' <= made' /\ ~Known(late)' /\ late' = late
  <2>1. late # 0 => late <= made /\ late \in Numbers /\ ~Known(late)
    BY BoundsAssumption DEF TableInv, TypeOK, Numbers
  <2>2. late' # 0 => late' = late /\ late # 0
    BY DEF Behind
  <2>3. late' # 0 => ~(late \in Numbers /\ probes'[late].kind # "none")
    BY <2>1, <2>2 DEF Known, Behind, SameProbe
  <2> QED  BY <2>1, <2>2, <2>3 DEF Known, Behind
<1>3. timely' => late' = 0
  BY DEF TableInv, Behind
<1>4. \A n \in Numbers : n > made' => ~Known(n)' /\ breaks'[n].status = "gone" /\ n \notin unnoted'
  BY <1>1 DEF TableInv, Behind, Unseen
<1>5. \A n \in Numbers : ~Known(n)' => probes'[n].hits = 0
  BY <1>1 DEF TableInv, Behind, SameProbe
<1> QED  BY <1>2, <1>3, <1>4, <1>5 DEF TableInv, Known

LEMMA RawInsertedTable ==
    ASSUME TypeOK, TableInv, RawInserted
    PROVE  TableInv'
<1>1. /\ made \in Nat /\ made < MaxProbes /\ made' = made + 1 /\ made + 1 \in Numbers
      /\ breaks \in [Numbers -> Break] /\ late \in 0 .. MaxProbes
  BY BoundsAssumption DEF TypeOK, RawInserted, Numbers
<1>2. \A n \in Numbers : n > made' => n > made /\ n # made + 1
  BY <1>1 DEF Numbers
<1>3. \A n \in Numbers : n # made + 1 => breaks'[n] = breaks[n]
  BY <1>1 DEF RawInserted
<1>4. \A n \in Numbers : n > made' => ~Known(n)' /\ breaks'[n].status = "gone" /\ n \notin unnoted'
  BY <1>2, <1>3 DEF TableInv, RawInserted, Known
<1>5. late' # 0 => late' <= made' /\ ~(probes'[late'].kind # "none" /\ late' \in Numbers)
  <2>1. ~Known(made + 1)
    BY <1>1 DEF TableInv
  <2>2. late # 0 => late <= made + 1 /\ ~Known(late)
    BY <1>1 DEF TableInv
  <2> QED  BY <1>1, <2>1, <2>2 DEF RawInserted, Known
<1>6. (timely' => late' = 0) /\ \A n \in Numbers : ~Known(n)' => probes'[n].hits = 0
  BY DEF TableInv, RawInserted, Known
<1> QED  BY <1>4, <1>5, <1>6 DEF TableInv, Known

LEMMA NotedTable ==
    ASSUME TypeOK, TableInv, NEW r, Noted(r)
    PROVE  TableInv'
<1>1. /\ probes \in [Numbers -> Probe] /\ breaks \in [Numbers -> Break]
      /\ r.num \in Numbers
  BY DEF TypeOK, Noted
<1>2. \A n \in Numbers : probes'[n].kind = probes[n].kind /\ probes'[n].hits = probes[n].hits
  <2> TAKE n \in Numbers
  <2>1. CASE n = r.num /\ Known(n)
    <3>1. probes'[n] = Mutated(r.kind, probes[n]) /\ probes[n] \in Probe
      BY <1>1, <2>1 DEF Noted
    <3> QED  BY <3>1, MutatedKeeps
  <2>2. CASE ~(n = r.num /\ Known(n))
    <3>1. probes'[n] = probes[n]
      BY <1>1, <2>2 DEF Noted
    <3> QED  BY <3>1
  <2> QED  BY <2>1, <2>2
<1>3. \A n \in Numbers : n > made => breaks'[n] = breaks[n]
  <2> SUFFICES ASSUME NEW n \in Numbers, n > made
               PROVE  breaks'[n] = breaks[n]
    OBVIOUS
  <2>1. breaks[n].status = "gone"
    BY DEF TableInv
  <2> QED  BY <1>1, <2>1 DEF Noted
<1>4. UNCHANGED made /\ late' = 0 /\ unnoted' \subseteq unnoted
  BY DEF Noted
<1>5. \A n \in Numbers : Known(n)' <=> Known(n)
  BY <1>2 DEF Known
<1> QED  BY <1>2, <1>3, <1>4, <1>5 DEF TableInv

LEMMA SetProbeTable ==
    ASSUME TypeOK, TableInv, NEW r, NEW below, SetProbe(r, below)
    PROVE  TableInv'
<1>1. made \in 0 .. MaxProbes /\ probes \in [Numbers -> Probe] /\ breaks \in [Numbers -> Break]
      /\ late \in 0 .. MaxProbes
  BY DEF TypeOK
<1>2. /\ made' \in Nat /\ made' >= made
      /\ Insertion(r) => made + 1 \in Numbers /\ made' = made + 1
  BY <1>1, SetProbeEffect, BoundsAssumption DEF Insertion, Numbers
<1>3. ASSUME NEW n \in Numbers, n > made'
      PROVE  ~Known(n)' /\ breaks'[n].status = "gone" /\ n \notin unnoted'
  <2>1. n > made
    BY <1>1, <1>2, <1>3 DEF Numbers
  <2>2. breaks'[n] = breaks[n]
    BY <1>1, <1>2, <1>3, SetProbeEffect DEF Insertion
  <2>3. probes'[n] = probes[n]
    <3>1. UNCHANGED probes \/ \E e \in Numbers : e <= made' /\ Entry(r, e)
      BY SetProbeEffect
    <3>2. ASSUME NEW e \in Numbers, e <= made', Entry(r, e)
          PROVE  probes'[n] = probes[n]
      <4>1. n # e
        BY <1>2, <1>3, <3>2 DEF Numbers
      <4> QED  BY <1>1, <3>2, <4>1 DEF Entry
    <3> QED  BY <3>1, <3>2
  <2>4. ~Known(n) /\ breaks[n].status = "gone" /\ n \notin unnoted
    BY <2>1 DEF TableInv
  <2> QED  BY <2>2, <2>3, <2>4, SetProbeEffect DEF Known
<1>4. ASSUME NEW n \in Numbers, ~Known(n)'
      PROVE  probes'[n].hits = 0
  <2>1. CASE UNCHANGED probes
    BY <1>4, <2>1 DEF TableInv, Known
  <2>2. CASE \E e \in Numbers : Entry(r, e)
    <3>1. PICK e \in Numbers : Entry(r, e)
      BY <2>2
    <3>2. CASE n = e
      <4>1. probes'[n].hits = 0
        BY <1>1, <3>1, <3>2 DEF Entry
      <4> QED  BY <4>1
    <3>3. CASE n # e
      <4>1. probes'[n] = probes[n]
        BY <1>1, <3>1, <3>3 DEF Entry
      <4> QED  BY <1>4, <4>1 DEF TableInv, Known
    <3> QED  BY <3>2, <3>3
  <2> QED  BY <2>1, <2>2, SetProbeEffect
<1>5. late' # 0 => late' <= made' /\ late' \in Numbers /\ ~(probes'[late'].kind # "none")
  <2>1. CASE late' # 0 /\ late' = late
    <3>1. late \in Numbers /\ late <= made /\ ~Known(late)
      BY <1>1, <2>1, BoundsAssumption DEF TableInv, Numbers
    <3>2. probes'[late] = probes[late]
      BY <1>1, <2>1, <3>1, SetProbeEffect DEF Entry
    <3> QED  BY <1>1, <1>2, <2>1, <3>1, <3>2 DEF Known, Numbers
  <2>2. CASE late' = made + 1 /\ Insertion(r)
    <3>1. made + 1 \in Numbers /\ ~Known(made + 1)
      BY <1>1, <1>2, <2>2 DEF TableInv
    <3>2. probes'[made + 1] = probes[made + 1]
      BY <1>1, <2>2, <3>1, SetProbeEffect DEF Entry
    <3> QED  BY <1>1, <1>2, <2>2, <3>1, <3>2 DEF Known
  <2> QED  BY <2>1, <2>2, SetProbeEffect
<1>6. timely' => late' = 0
  BY SetProbeEffect
<1> QED  BY <1>3, <1>4, <1>5, <1>6 DEF TableInv, Known

LEMMA PerformTable ==
    ASSUME TypeOK, TableInv, NEW r \in Request, NEW below, Perform(r, below)
    PROVE  TableInv'
BY PerformTables, BehindTable, RawInsertedTable, NotedTable, SetProbeTable

\* What the steps do to the tables that are not those of an action.
LEMMA OtherTables ==
    ASSUME TypeOK,
           \/ Start \/ LoadCore \/ InitialRun \/ Leave \/ Cut \/ Close \/ UNCHANGED vars
    PROVE  Behind
<1>1. CASE InitialRun
  <2>1. CASE UNCHANGED <<probes, late, timely>> /\ UNCHANGED gdbVars
    BY <2>1, StillBehind DEF gdbVars
  <2>2. ASSUME NEW res \in ExecResults("run"), Ran(res),
               Executed(Req("initial_run"), res, <<>>) \/ Interrupted(res)
        PROVE  Behind
    <3>1. UNCHANGED probes \/ \E m : probes' = CountHit(m)
      BY <2>2 DEF Executed, Interrupted
    <3> QED  BY <2>2, <3>1, RanBehind
  <2> QED  BY <1>1, <2>1, <2>2 DEF InitialRun
<1>2. CASE LoadCore
  <2>1. UNCHANGED <<probes, breaks, made, unnoted>> /\ \E answer \in Answers : Asked(answer)
    BY <1>2 DEF LoadCore, gdbVars
  <2> QED  BY <2>1, AskedTables, StillBehind
<1>3. CASE Start \/ Leave \/ Cut \/ Close \/ UNCHANGED vars
  <2>1. UNCHANGED <<probes, breaks, made, unnoted, late, timely>>
    BY <1>3 DEF Start, Leave, Cut, Close, vars, gdbVars
  <2> QED  BY <2>1, StillBehind
<1> QED  BY <1>1, <1>2, <1>3

\* A step is an action's, under some calls in progress, or one of the others.
LEMMA StepIs ==
    ASSUME TypeOK, [Next]_vars
    PROVE  \/ \E r \in Request, below \in Seq(Frame) : 
                  /\ Perform(r, below) /\ SameHits(below, stack)
                  /\ phase = "serving" \/ stack # <<>>
           \/ Start \/ LoadCore \/ InitialRun \/ Leave \/ Cut \/ Close \/ UNCHANGED vars
<1>1. ASSUME NEW r \in Requests[coreMode], Direct(r)
      PROVE  r \in Request /\ <<>> \in Seq(Frame) /\ Perform(r, <<>>) /\ SameHits(<<>>, stack)
             /\ phase = "serving"
  BY <1>1, RequestsAssumption DEF TypeOK, Direct, SameHits
<1>2. CASE Child
  BY <1>2, ChildType, BelowSame DEF Child
<1>3. CASE Onward
  BY <1>3, ChildType, ReqType, BelowSame DEF Onward
<1> QED  BY <1>1, <1>2, <1>3 DEF Next, Ended

\* The table of probes stays that of the numbers GDB has given out.
LEMMA TableCorrect == Spec => []TableInv
<1>1. Init => TableInv
  <2> SUFFICES ASSUME Init PROVE TableInv
    OBVIOUS
  <2>1. \A n \in Numbers : probes[n] = NoProbe /\ breaks[n] = NoBreak /\ n \notin unnoted
    BY DEF Init
  <2>2. late = 0
    BY DEF Init
  <2> QED  BY <2>1, <2>2 DEF TableInv, NoProbe, NoBreak, Known
<1>2. TypeOK /\ TableInv /\ [Next]_vars => TableInv'
  BY StepIs, OtherTables, BehindTable, PerformTable
<1> QED  BY <1>1, <1>2, TypeCorrect, PTL DEF Spec

-------------------------------------------------------------------------------
(* What is left of the calls in progress *)

LEMMA FinishedSame ==
    ASSUME NEW r, NEW ok \in BOOLEAN, NEW answer, NEW below \in Seq(Frame),
           Finished(r, ok, answer, below)
    PROVE  stack' \in Seq(Frame) /\ SameHits(stack', below)
BY DeliverSame DEF Finished

LEMMA ThrownSame ==
    ASSUME NEW below \in Seq(Frame), Thrown(below)
    PROVE  \E kept \in 0 .. Len(below) :
               stack' \in Seq(Frame) /\ SameHits(stack', SubSeq(below, 1, kept))
<1>1. PICK kept \in 0 .. Len(below) : stack' = Deliver(SubSeq(below, 1, kept), FALSE)
  BY DEF Thrown
<1>2. SubSeq(below, 1, kept) \in Seq(Frame)
  BY SubSeqProperties
<1> QED  BY <1>1, <1>2, DeliverSame

\* The hits counted for the probes stay as they are.
HitsKept == \A n \in Numbers : probes'[n].hits = probes[n].hits

LEMMA SetProbeHits ==
    ASSUME TypeOK, TableInv, NEW r, NEW below, SetProbe(r, below)
    PROVE  HitsKept
<1> SUFFICES ASSUME NEW n \in Numbers
             PROVE  probes'[n].hits = probes[n].hits
  BY DEF HitsKept
<1>1. CASE \E e \in Numbers : ~Known(e) /\ Entry(r, e)
  <2>1. PICK e \in Numbers : ~Known(e) /\ Entry(r, e)
    BY <1>1
  <2>2. probes[e].hits = 0
    BY <2>1 DEF TableInv
  <2> QED  BY <2>1, <2>2 DEF Entry, TypeOK
<1> QED  BY <1>1, SetProbeEffect

LEMMA MutateProbeHits ==
    ASSUME TypeOK, NEW r \in Request, NEW below, MutateProbe(r, below)
    PROVE  HitsKept
<1> SUFFICES ASSUME NEW n \in Numbers
             PROVE  probes'[n].hits = probes[n].hits
  BY DEF HitsKept
<1>1. \/ UNCHANGED probes
      \/ probes' = [probes EXCEPT ![r.num] = Mutated(r.kind, probes[r.num])]
  BY DEF MutateProbe
<1>2. probes \in [Numbers -> Probe] /\ probes[n] \in Probe
  BY DEF TypeOK
<1>3. Mutated(r.kind, probes[n]).hits = probes[n].hits
  BY <1>2, MutatedKeeps
<1> QED  BY <1>1, <1>2, <1>3

\* An action leaves the hits in progress what they were, throws, or adds a call: a
\* replay, or a hit with the count of it.
LEMMA PerformHits ==
    ASSUME TypeOK, TableInv, NEW r \in Request, NEW below \in Seq(Frame), Perform(r, below)
    PROVE  /\ UNCHANGED written
           /\ \/ SameHits(stack', below) /\ stack' \in Seq(Frame) /\ UNCHANGED lost /\ HitsKept
              \/ Thrown(below) /\ HitsKept
              \/ /\ stack' = Append(below, ReplayFrame(r.name)) /\ r.name \in DOMAIN Plan
                 /\ UNCHANGED lost /\ HitsKept
              \/ /\ r.kind \in {"run", "continue"} /\ Allowed(r.kind) /\ UNCHANGED lost
                 /\ \E res \in ExecResults(r.kind) :
                       /\ HitFrame(r, res) \in Frame /\ stack' = Append(below, HitFrame(r, res))
                       /\ probes' = CountHit(HitNumber(res))
<1>1. UNCHANGED written
  BY DEF Perform, Deny, Ask, ProbeList, RawMi, Note, Unsupported, Finish, RecordNested,
         RecordDirect, SetProbe, MutateProbe, Resume, Replay
<1>2. CASE /\ r.kind \in {"run", "continue"} /\ Allowed(r.kind) /\ UNCHANGED lost
           /\ \E res \in ExecResults(r.kind) : Executed(r, res, below)
  <2>1. PICK res \in ExecResults(r.kind) : Executed(r, res, below)
    BY <1>2
  <2>2. HitFrame(r, res) \in Frame
    BY ResultType, HitFrameType
  <2>3. \/ Finished(r, FALSE, "error", below) /\ UNCHANGED probes
        \/ stack' = Append(below, HitFrame(r, res)) /\ probes' = CountHit(HitNumber(res))
    BY <2>1 DEF Executed
  <2>4. UNCHANGED probes => HitsKept
    BY DEF HitsKept
  <2> QED  BY <1>1, <1>2, <2>2, <2>3, <2>4, FinishedSame
<1>3. CASE Thrown(below) /\ UNCHANGED probes
  BY <1>1, <1>3 DEF HitsKept
<1>4. CASE HitsKept
  <2>1. RecordDirect(r, below) => SameHits(stack', below) /\ stack' \in Seq(Frame) /\ UNCHANGED lost
    BY DEF RecordDirect, SameHits
  <2>2. \A ok \in BOOLEAN, answer \in Answers :
            Finished(r, ok, answer, below) => SameHits(stack', below) /\ stack' \in Seq(Frame)
    BY FinishedSame
  <2>3. r.kind = "replay" => r.name \in DOMAIN Plan
    BY DEF Request
  <2> QED  BY <1>1, <1>2, <1>4, <2>1, <2>2, <2>3, PerformEnds
<1>5. CASE Resume(r, below)
  <2>1. \/ Thrown(below) /\ UNCHANGED probes
        \/ \E res \in ExecResults(r.kind) : Executed(r, res, below) /\ UNCHANGED lost
    BY <1>5 DEF Resume, Interrupted
  <2>2. r.kind \in {"run", "continue"} /\ (Allowed(r.kind) \/ Deny(r, below))
    BY <1>5 DEF Perform, Resume
  <2>3. Deny(r, below) => HitsKept
    BY DEF Deny, HitsKept
  <2> QED  BY <1>2, <1>3, <1>4, <2>1, <2>2, <2>3
<1>6. CASE ~Resume(r, below)
  <2>1. \/ SetProbe(r, below) \/ MutateProbe(r, below) \/ UNCHANGED probes
    BY <1>6 DEF Perform, Deny, Ask, ProbeList, RawMi, Note, Unsupported, Finish,
         RecordNested, RecordDirect, Replay
  <2>2. UNCHANGED probes => HitsKept
    BY DEF HitsKept
  <2> QED  BY <1>4, <2>1, <2>2, SetProbeHits, MutateProbeHits
<1> QED  BY <1>5, <1>6

\* The first run of a session, with no call in progress.
LEMMA InitialRunCases ==
    ASSUME TypeOK, InitialRun
    PROVE  /\ UNCHANGED <<written, lost>> /\ stack = <<>> /\ phase = "prelude"
           /\ \/ UNCHANGED <<probes, stack>>
              \/ \E res \in ExecResults("run") :
                     LET r == Req("initial_run")
                     IN /\ HitFrame(r, res) \in Frame /\ stack' = Append(<<>>, HitFrame(r, res))
                        /\ probes' = CountHit(HitNumber(res))
<1>1. UNCHANGED <<written, lost>> /\ stack = <<>> /\ phase = "prelude"
  BY DEF InitialRun
<1>2. CASE UNCHANGED probes /\ UNCHANGED callVars
  BY <1>1, <1>2 DEF callVars
<1>3. CASE \E res \in ExecResults("run") : Executed(Req("initial_run"), res, <<>>)
  <2>1. PICK res \in ExecResults("run") : Executed(Req("initial_run"), res, <<>>)
    BY <1>3
  <2> DEFINE r == Req("initial_run")
  <2>2. r \in Request
    BY ReqType
  <2> HIDE DEF r
  <2>3. HitFrame(r, res) \in Frame
    BY <2>2, ResultType, HitFrameType
  <2>4. \/ Finished(r, FALSE, "error", <<>>) /\ UNCHANGED probes
        \/ stack' = Append(<<>>, HitFrame(r, res)) /\ probes' = CountHit(HitNumber(res))
    BY <2>1 DEF Executed, r
  <2>5. Finished(r, FALSE, "error", <<>>) => stack' = <<>>
    BY DEF Finished, Deliver
  <2> QED  BY <1>1, <2>3, <2>4, <2>5 DEF r
<1> QED  BY <1>2, <1>3 DEF InitialRun, Interrupted

\* A replay is no hit.
Quiet(calls) == \A i \in DOMAIN calls : calls[i].op = "replay" => ~calls[i].known

LEMMA QuietSame ==
    ASSUME NEW calls \in Seq(Frame), NEW others \in Seq(Frame), SameHits(calls, others),
           Quiet(others)
    PROVE  Quiet(calls)
<1>1. DOMAIN calls = DOMAIN others
  BY DEF SameHits
<1> QED  BY <1>1 DEF SameHits, Quiet

LEMMA QuietSub ==
    ASSUME NEW calls \in Seq(Frame), NEW kept \in 0 .. Len(calls), Quiet(calls)
    PROVE  SubSeq(calls, 1, kept) \in Seq(Frame) /\ Quiet(SubSeq(calls, 1, kept))
<1> DEFINE first == SubSeq(calls, 1, kept)
<1>1. first \in Seq(Frame) /\ \A i \in DOMAIN first : i \in DOMAIN calls /\ first[i] = calls[i]
  OBVIOUS
<1> HIDE DEF first
<1>2. Quiet(first)
  BY <1>1 DEF Quiet
<1> QED  BY <1>1, <1>2 DEF first

LEMMA QuietThrown ==
    ASSUME NEW below \in Seq(Frame), Quiet(below), Thrown(below)
    PROVE  Quiet(stack')
BY ThrownSame, QuietSub, QuietSame

LEMMA QuietAppend ==
    ASSUME NEW calls \in Seq(Frame), Quiet(calls), NEW f \in Frame, f.op = "replay" => ~f.known
    PROVE  Quiet(Append(calls, f))
<1>1. \A i \in DOMAIN Append(calls, f) :
          \/ i \in DOMAIN calls /\ Append(calls, f)[i] = calls[i]
          \/ Append(calls, f)[i] = f
  OBVIOUS
<1> QED  BY <1>1 DEF Quiet

\* No call is in progress before GDB is started, no replay is taken for a hit, and a
\* session knows of the core dump when its prelude is over.
CallsInv ==
    /\ phase = "start" => stack = <<>>
    /\ phase \in {"start", "prelude"} => ~coreMode
    /\ Quiet(stack)

LEMMA CallsCorrect == Spec => []CallsInv
<1>1. Init => CallsInv
  BY DEF Init, CallsInv, Quiet
<1>2. TypeOK /\ TableInv /\ CallsInv /\ [Next]_vars => CallsInv'
  <2> SUFFICES ASSUME TypeOK, TableInv, CallsInv, [Next]_vars
               PROVE  CallsInv'
    OBVIOUS
  <2>0. stack \in Seq(Frame) /\ Quiet(stack)
    BY DEF TypeOK, CallsInv
  <2>1. ASSUME NEW r \in Request, NEW below \in Seq(Frame), Perform(r, below),
               SameHits(below, stack), phase = "serving" \/ stack # <<>>
        PROVE  CallsInv'
    <3>1. phase # "start" /\ phase' \in {phase, "closed"} /\ coreMode' = coreMode
      BY <2>1, PerformKeeps DEF CallsInv
    <3>2. Quiet(below)
      BY <2>0, <2>1, QuietSame
    <3>3. CASE SameHits(stack', below) /\ stack' \in Seq(Frame)
      BY <3>1, <3>2, <3>3, QuietSame DEF CallsInv
    <3>4. CASE Thrown(below)
      BY <3>1, <3>2, <3>4, QuietThrown DEF CallsInv
    <3>5. CASE stack' = Append(below, ReplayFrame(r.name)) /\ r.name \in DOMAIN Plan
      <4>1. ReplayFrame(r.name) \in Frame /\ ~ReplayFrame(r.name).known
        BY <3>5, ReplayFrameType DEF ReplayFrame
      <4> QED  BY <3>1, <3>2, <3>5, <4>1, QuietAppend DEF CallsInv
    <3>6. CASE \E res : HitFrame(r, res) \in Frame /\ stack' = Append(below, HitFrame(r, res))
      <4>1. PICK res : HitFrame(r, res) \in Frame /\ stack' = Append(below, HitFrame(r, res))
        BY <3>6
      <4>2. HitFrame(r, res).op = "hit"
        BY DEF HitFrame
      <4> QED  BY <3>1, <3>2, <4>1, <4>2, QuietAppend DEF CallsInv
    <3> QED  BY <2>1, <3>3, <3>4, <3>5, <3>6, PerformHits
  <2>2. CASE Start
    <3>1. phase' \in {"prelude", "closed"} /\ ~coreMode'
      BY <2>2 DEF Start, CallsInv
    <3>2. \/ stack' = stack \/ stack' = <<>>
          \/ Prelude # "none" /\ stack' = <<ReplayFrame(Prelude)>>
      BY <2>2 DEF Start
    <3>3. Quiet(<<>>) /\ Quiet(<<ReplayFrame(Prelude)>>)
      BY DEF Quiet, ReplayFrame
    <3> QED  BY <3>1, <3>2, <3>3 DEF CallsInv
  <2>3. CASE LoadCore
    BY <2>3 DEF LoadCore, CallsInv
  <2>4. CASE InitialRun
    <3>1. phase' \in {"serving", "closed"}
      BY <2>4 DEF InitialRun
    <3>2. CASE UNCHANGED stack
      BY <3>1, <3>2 DEF CallsInv
    <3>3. ASSUME NEW f \in Frame, f.op = "hit", stack' = Append(<<>>, f)
          PROVE  CallsInv'
      <4>1. Quiet(stack')
        BY <3>3 DEF Quiet
      <4> QED  BY <3>1, <4>1 DEF CallsInv
    <3>4. \A res : HitFrame(Req("initial_run"), res).op = "hit"
      BY DEF HitFrame
    <3> QED  BY <2>4, <3>2, <3>3, <3>4, InitialRunCases
  <2>5. CASE Leave
    <3>1. /\ Top \in Frame /\ BelowTop \in Seq(Frame) /\ Quiet(BelowTop)
          /\ phase # "start" /\ UNCHANGED <<phase, coreMode>>
      <4>1. stack # <<>> /\ Len(stack) - 1 \in 0 .. Len(stack)
        BY <2>5, TopType DEF Leave
      <4> QED  BY <2>0, <2>5, <4>1, TopType, QuietSub DEF BelowTop, Leave, CallsInv
    <3>2. (Top.op = "hit" \/ ~Top.failed) \in BOOLEAN
      BY <3>1 DEF Frame
    <3>3. stack' \in Seq(Frame) /\ SameHits(stack', BelowTop)
      BY <2>5, <3>1, <3>2, FinishedSame DEF Leave
    <3> QED  BY <3>1, <3>3, QuietSame DEF CallsInv
  <2>6. CASE Cut
    <3>1. Thrown(BelowTop) \/ Thrown(stack)
      BY <2>6 DEF Cut
    <3>2. BelowTop \in Seq(Frame) /\ Quiet(BelowTop)
      <4>1. stack # <<>> /\ Len(stack) - 1 \in 0 .. Len(stack)
        BY <2>6, TopType DEF Cut
      <4> QED  BY <2>0, <4>1, QuietSub DEF BelowTop
    <3>3. Quiet(stack')
      BY <2>0, <3>1, <3>2, QuietThrown
    <3>4. phase # "start" /\ phase' \in {phase, "closed"} /\ coreMode' = coreMode
      BY <2>6 DEF Cut, Thrown, CallsInv
    <3> QED  BY <3>3, <3>4 DEF CallsInv
  <2>7. CASE Close \/ UNCHANGED vars
    BY <2>7 DEF Close, vars, CallsInv
  <2> QED  BY <2>1, <2>2, <2>3, <2>4, <2>5, <2>6, <2>7, StepIs
<1> QED  BY <1>1, <1>2, TypeCorrect, TableCorrect, PTL DEF Spec

-------------------------------------------------------------------------------
(* Hits *)

\* The hits in progress are those of below: each is as many as the account says.
Accounted(below) ==
    \A n \in Numbers :
        /\ Cardinality(Counted(below, n)) \in Nat /\ written[n] \in Nat /\ lost[n] \in Nat
        /\ probes[n] \in Probe /\ probes[n].hits \in Nat
        /\ probes[n].hits = written[n] + lost[n] + Cardinality(Counted(below, n))

LEMMA AccountedSame ==
    ASSUME TypeOK, HitsAccounted, NEW below \in Seq(Frame),
           \A n \in Numbers : Counted(below, n) = Counted(stack, n)
    PROVE  Accounted(below)
<1> SUFFICES ASSUME NEW n \in Numbers
             PROVE  /\ Cardinality(Counted(below, n)) \in Nat /\ written[n] \in Nat /\ lost[n] \in Nat
                    /\ probes[n] \in Probe /\ probes[n].hits \in Nat
                    /\ probes[n].hits = written[n] + lost[n] + Cardinality(Counted(below, n))
  BY DEF Accounted
<1>1. probes[n].hits = written[n] + lost[n] + Cardinality(Counted(stack, n))
  BY DEF HitsAccounted, Counted
<1> QED  BY <1>1, CountedFinite DEF TypeOK, Probe

\* The hits an exception keeps from being written are lost.
LEMMA ThrownAccounts ==
    ASSUME NEW below \in Seq(Frame), Accounted(below), Thrown(below), HitsKept, UNCHANGED written
    PROVE  HitsAccounted'
<1> SUFFICES ASSUME NEW n \in Numbers
             PROVE  probes'[n].hits = written[n] + lost'[n] + Cardinality(Counted(stack', n))
  BY DEF HitsAccounted, Counted
<1>0. /\ written[n] \in Nat /\ lost[n] \in Nat
      /\ probes[n].hits = written[n] + lost[n] + Cardinality(Counted(below, n))
  BY DEF Accounted
<1> DEFINE dropped(kept) == {i \in kept + 1 .. Len(below) :
                                 below[i].known /\ below[i].number = n}
<1>1. PICK kept \in 0 .. Len(below) :
          /\ stack' = Deliver(SubSeq(below, 1, kept), FALSE)
          /\ lost'[n] = lost[n] + Cardinality(dropped(kept))
  BY DEF Thrown
<1>2. SubSeq(below, 1, kept) \in Seq(Frame)
  BY SubSeqProperties
<1>3. Counted(stack', n) = Counted(SubSeq(below, 1, kept), n)
  <2>1. stack' \in Seq(Frame) /\ SameHits(stack', SubSeq(below, 1, kept))
    BY <1>1, <1>2, DeliverSame
  <2> QED  BY <1>2, <2>1, SameCounted
<1>4. /\ Cardinality(dropped(kept)) \in Nat
      /\ Cardinality(Counted(below, n)) =
             Cardinality(Counted(SubSeq(below, 1, kept), n)) + Cardinality(dropped(kept))
  BY CountedSplit
<1>5. Cardinality(Counted(SubSeq(below, 1, kept), n)) \in Nat
  BY <1>2, CountedFinite
<1>6. probes'[n].hits = probes[n].hits
  BY DEF HitsKept
<1> DEFINE d == Cardinality(dropped(kept))
           a == Cardinality(Counted(below, n))
           b == Cardinality(Counted(SubSeq(below, 1, kept), n))
<1>7. /\ d \in Nat /\ a = b + d /\ b \in Nat /\ lost'[n] = lost[n] + d
      /\ Cardinality(Counted(stack', n)) = b
  BY <1>1, <1>3, <1>4, <1>5
<1>8. /\ written[n] \in Nat /\ lost[n] \in Nat /\ probes[n].hits = written[n] + lost[n] + a
  BY <1>0
<1> HIDE DEF d, a, b
<1> QED  BY <1>6, <1>7, <1>8

\* An action accounts for the hits it counts, and for those of the calls it ends.
LEMMA PerformAccounts ==
    ASSUME TypeOK, TableInv, HitsAccounted,
           NEW r \in Request, NEW below \in Seq(Frame), SameHits(below, stack),
           Perform(r, below)
    PROVE  HitsAccounted'
<1>1. UNCHANGED written
  BY PerformHits
<1>2. Accounted(below)
  <2>1. stack \in Seq(Frame)
    BY DEF TypeOK
  <2> QED  BY <2>1, SameCounted, AccountedSame
<1>3. CASE Thrown(below) /\ HitsKept
  BY <1>1, <1>2, <1>3, ThrownAccounts
<1>4. SUFFICES ASSUME NEW n \in Numbers, ~(Thrown(below) /\ HitsKept)
               PROVE  probes'[n].hits = written[n] + lost'[n] + Cardinality(Counted(stack', n))
  BY <1>1, <1>3 DEF HitsAccounted, Counted
<1>5. /\ Cardinality(Counted(below, n)) \in Nat /\ written[n] \in Nat /\ lost[n] \in Nat
      /\ probes[n] \in Probe /\ probes[n].hits \in Nat
      /\ probes[n].hits = written[n] + lost[n] + Cardinality(Counted(below, n))
  BY <1>2 DEF Accounted
<1>6. CASE SameHits(stack', below) /\ stack' \in Seq(Frame) /\ HitsKept /\ UNCHANGED lost
  <2>1. Counted(stack', n) = Counted(below, n)
    BY <1>6, SameCounted
  <2> QED  BY <1>5, <1>6, <2>1 DEF HitsKept
<1>7. CASE /\ stack' = Append(below, ReplayFrame(r.name)) /\ r.name \in DOMAIN Plan
           /\ HitsKept /\ UNCHANGED lost
  <2>1. ReplayFrame(r.name) \in Frame /\ ~ReplayFrame(r.name).known
    BY <1>7, ReplayFrameType DEF ReplayFrame
  <2>2. Cardinality(Counted(stack', n)) = Cardinality(Counted(below, n))
    BY <1>5, <1>7, <2>1, CountedAppend
  <2> QED  BY <1>5, <1>7, <2>2 DEF HitsKept
<1>8. CASE UNCHANGED lost /\ \E res \in ExecResults(r.kind) :
                      /\ HitFrame(r, res) \in Frame /\ stack' = Append(below, HitFrame(r, res))
                      /\ probes' = CountHit(HitNumber(res))
  <2>1. PICK res \in ExecResults(r.kind) :
                      /\ HitFrame(r, res) \in Frame /\ stack' = Append(below, HitFrame(r, res))
                      /\ probes' = CountHit(HitNumber(res))
    BY <1>8
  <2> DEFINE one == IF Known(HitNumber(res)) /\ HitNumber(res) = n THEN 1 ELSE 0
             a   == Cardinality(Counted(below, n))
  <2>2. probes'[n].hits = probes[n].hits + one
    BY <2>1, CountHitEffect
  <2>3. HitFrame(r, res).known = Known(HitNumber(res)) /\ HitFrame(r, res).number = HitNumber(res)
    BY DEF HitFrame
  <2>4. Cardinality(Counted(stack', n)) = a + one
    BY <2>1, <2>3, CountedAppend
  <2>5. /\ written[n] \in Nat /\ lost[n] \in Nat /\ a \in Nat /\ one \in Nat
        /\ probes[n].hits = written[n] + lost[n] + a /\ lost'[n] = lost[n]
    BY <1>5, <1>8
  <2> HIDE DEF one, a
  <2> QED  BY <2>2, <2>4, <2>5
<1> QED  BY <1>4, <1>6, <1>7, <1>8, PerformHits

\* However deeply runs and replays nest, and whatever is thrown, every hit counted for
\* a probe is waiting on the stack, written as evidence, or lost to an exception, and
\* only one of these.
THEOREM AccountsCorrect == Spec => []HitsAccounted
<1>1. Init => HitsAccounted
  <2> SUFFICES ASSUME Init PROVE HitsAccounted
    OBVIOUS
  <2>1. \A n \in Numbers : probes[n].hits = 0 /\ written[n] = 0 /\ lost[n] = 0
    BY DEF Init, NoProbe
  <2>2. \A n \in Numbers : Cardinality(Counted(stack, n)) = 0
    BY CountedEmpty DEF Init
  <2> QED  BY <2>1, <2>2 DEF HitsAccounted, Counted
<1>2. TypeOK /\ TableInv /\ CallsInv /\ HitsAccounted /\ [Next]_vars => HitsAccounted'
  <2> SUFFICES ASSUME TypeOK, TableInv, CallsInv, HitsAccounted, [Next]_vars
               PROVE  HitsAccounted'
    OBVIOUS
  <2>0. stack \in Seq(Frame)
    BY DEF TypeOK
  <2>4. CASE Leave
    <3>1. /\ Top \in Frame /\ BelowTop \in Seq(Frame)
          /\ stack = Append(BelowTop, Top)
      <4>1. stack # <<>> /\ Len(stack) \in Nat \ {0}
        BY <2>4, TopType DEF Leave
      <4>2. Top \in Frame /\ BelowTop \in Seq(Frame)
        BY <4>1, TopType
      <4>3. stack = Append(BelowTop, Top)
        BY <2>0, <4>1 DEF BelowTop, Top
      <4> QED  BY <4>2, <4>3
    <3>2. UNCHANGED <<probes, lost>>
      BY <2>4 DEF Leave
    <3>3. Finished(Top.req, Top.op = "hit" \/ ~Top.failed, "done", BelowTop)
      BY <2>4 DEF Leave
    <3>4. stack' \in Seq(Frame) /\ SameHits(stack', BelowTop)
      <4>1. (Top.op = "hit" \/ ~Top.failed) \in BOOLEAN
        BY <3>1 DEF Frame
      <4> QED  BY <3>1, <3>3, <4>1, FinishedSame
    <3>5. ASSUME NEW n \in Numbers
          PROVE  probes'[n].hits = written'[n] + lost'[n] + Cardinality(Counted(stack', n))
      <4> DEFINE one == IF Top.known /\ Top.number = n THEN 1 ELSE 0
                 a   == Cardinality(Counted(BelowTop, n))
      <4>1. /\ Cardinality(Counted(stack', n)) = a
            /\ Cardinality(Counted(stack, n)) = a + one /\ a \in Nat /\ one \in Nat
        <5>1. Counted(stack', n) = Counted(BelowTop, n)
          BY <3>1, <3>4, SameCounted
        <5>2. Cardinality(Counted(Append(BelowTop, Top), n)) = a + one
          BY <3>1, CountedAppend
        <5> QED  BY <3>1, <5>1, <5>2, CountedFinite
      <4>2. probes[n].hits = written[n] + lost[n] + Cardinality(Counted(stack, n))
        BY DEF HitsAccounted, Counted
      <4>3. written[n] \in Nat /\ lost[n] \in Nat
        BY DEF TypeOK
      <4>4. written'[n] = written[n] + one
        <5>1. written' = IF Top.known THEN [written EXCEPT ![Top.number] = written[Top.number] + 1]
                                      ELSE written
          BY <2>4 DEF Leave, HitWritten
        <5>2. CASE Top.known /\ Top.number = n
          BY <5>1, <5>2 DEF TypeOK
        <5>3. CASE ~(Top.known /\ Top.number = n)
          BY <4>3, <5>1, <5>3 DEF TypeOK
        <5> QED  BY <5>2, <5>3
      <4>5. probes'[n].hits = probes[n].hits /\ lost'[n] = lost[n]
        BY <3>2
      <4> HIDE DEF one, a
      <4> QED  BY <4>1, <4>2, <4>3, <4>4, <4>5
    <3> QED  BY <3>5 DEF HitsAccounted, Counted
  <2>5. ASSUME UNCHANGED <<written, lost>>,
               \A n \in Numbers :
                   /\ probes'[n].hits = probes[n].hits
                   /\ Cardinality(Counted(stack', n)) = Cardinality(Counted(stack, n))
        PROVE  HitsAccounted'
    BY <2>5 DEF HitsAccounted, Counted
  <2>6. CASE InitialRun
    <3>1. UNCHANGED <<written, lost>> /\ stack = <<>>
      BY <2>6, InitialRunCases
    <3>2. CASE UNCHANGED <<probes, stack>>
      BY <2>5, <3>1, <3>2
    <3>3. ASSUME NEW res, NEW f \in Frame, f = HitFrame(Req("initial_run"), res),
                 stack' = Append(<<>>, f), probes' = CountHit(HitNumber(res))
          PROVE  HitsAccounted'
      <4>1. ASSUME NEW n \in Numbers
            PROVE  probes'[n].hits = written'[n] + lost'[n] + Cardinality(Counted(stack', n))
        <5> DEFINE one == IF Known(HitNumber(res)) /\ HitNumber(res) = n THEN 1 ELSE 0
        <5>1. probes'[n].hits = probes[n].hits + one
          BY <3>3, CountHitEffect
        <5>2. f.known = Known(HitNumber(res)) /\ f.number = HitNumber(res)
          BY <3>3 DEF HitFrame
        <5>3. Cardinality(Counted(stack', n)) = one
          <6>1. <<>> \in Seq(Frame) /\ Cardinality(Counted(<<>>, n)) = 0
            BY CountedEmpty
          <6> DEFINE empty == <<>>
                     a     == Cardinality(Counted(Append(empty, f), n))
          <6>2. stack' = Append(empty, f)
            BY <3>3
          <6> HIDE DEF empty
          <6>3. a = Cardinality(Counted(empty, n)) + IF f.known /\ f.number = n THEN 1 ELSE 0
            BY <6>1, CountedAppend DEF empty
          <6>4. a = one
            BY <5>2, <6>1, <6>3 DEF empty
          <6> QED  BY <6>2, <6>4
        <5>4. probes[n].hits = written[n] + lost[n] + 0
          BY <3>1, CountedEmpty DEF HitsAccounted, Counted
        <5>5. written[n] \in Nat /\ lost[n] \in Nat /\ written'[n] = written[n] /\ lost'[n] = lost[n]
          BY <3>1 DEF TypeOK
        <5> HIDE DEF one
        <5> QED  BY <5>1, <5>3, <5>4, <5>5
      <4> QED  BY <4>1 DEF HitsAccounted, Counted
    <3> QED  BY <2>6, <3>2, <3>3, InitialRunCases
  <2>7. CASE Start
    <3>1. UNCHANGED <<probes, written, lost>>
      BY <2>7 DEF Start
    <3>2. stack = <<>>
      BY <2>7 DEF Start, CallsInv
    <3>3. \A n \in Numbers : Cardinality(Counted(stack', n)) = Cardinality(Counted(stack, n))
      <4>1. CASE stack' = stack
        BY <4>1
      <4>2. CASE Prelude # "none" /\ stack' = <<ReplayFrame(Prelude)>>
        <5>1. ReplayFrame(Prelude) \in Frame
          BY <4>2, PlanAssumption, ReplayFrameType
        <5>2. stack' = Append(stack, ReplayFrame(Prelude)) /\ ~ReplayFrame(Prelude).known
          BY <3>2, <4>2 DEF ReplayFrame
        <5>3. \A n : Cardinality(Counted(stack, n)) \in Nat
          BY <2>0, CountedFinite
        <5> QED  BY <2>0, <5>1, <5>2, <5>3, CountedAppend
      <4> QED  BY <2>7, <3>2, <4>1, <4>2 DEF Start
    <3> QED  BY <2>5, <3>1, <3>3
  <2>8. CASE LoadCore \/ Close \/ UNCHANGED vars
    BY <2>5, <2>8 DEF LoadCore, Close, vars
  <2>9. CASE Cut
    <3>1. UNCHANGED <<probes, written>> /\ HitsKept /\ stack # <<>>
      BY <2>9 DEF Cut, HitsKept
    <3>2. CASE Thrown(stack)
      <4>1. Accounted(stack)
        BY <2>0, AccountedSame
      <4> QED  BY <2>0, <3>1, <3>2, <4>1, ThrownAccounts
    <3>3. CASE Thrown(BelowTop) /\ Top.op = "replay"
      <4>1. /\ Top \in Frame /\ BelowTop \in Seq(Frame) /\ ~Top.known
            /\ stack = Append(BelowTop, Top)
        <5>1. Len(stack) \in Nat \ {0} /\ Top \in Frame /\ BelowTop \in Seq(Frame)
          BY <3>1, TopType
        <5>2. stack = Append(BelowTop, Top)
          BY <2>0, <5>1 DEF BelowTop, Top
        <5>3. ~Top.known
          BY <3>3, <5>1 DEF CallsInv, Quiet, Top
        <5> QED  BY <5>1, <5>2, <5>3
      <4>2. Accounted(BelowTop)
        <5>1. \A n \in Numbers : Counted(BelowTop, n) = Counted(stack, n)
          <6> TAKE n \in Numbers
          <6>1. \A i \in DOMAIN stack : \/ i \in DOMAIN BelowTop /\ stack[i] = BelowTop[i]
                                       \/ stack[i] = Top
            BY <4>1
          <6>2. \A i \in DOMAIN BelowTop : i \in DOMAIN stack /\ stack[i] = BelowTop[i]
            BY <4>1
          <6> QED  BY <4>1, <6>1, <6>2 DEF Counted
        <5> QED  BY <4>1, <5>1, AccountedSame
      <4> QED  BY <3>1, <3>3, <4>1, <4>2, ThrownAccounts
    <3> QED  BY <2>9, <3>2, <3>3 DEF Cut
  <2>10. CASE \E r \in Request, below \in Seq(Frame) : Perform(r, below) /\ SameHits(below, stack)
    BY <2>10, PerformAccounts
  <2> QED  BY <2>4, <2>6, <2>7, <2>8, <2>9, <2>10, StepIs
<1> QED  BY <1>1, <1>2, TypeCorrect, TableCorrect, CallsCorrect, PTL DEF Spec

-------------------------------------------------------------------------------
(* The table and GDB *)

\* What the table says of probe n is what GDB would say.
Matches(n) ==
    Known(n) =>
        /\ probes[n].kind = breaks[n].kind /\ probes[n].policy = breaks[n].policy
        /\ probes[n].deleted => breaks[n].status = "gone"
        /\ n \notin unnoted =>
               /\ breaks[n].status = "gone" => probes[n].deleted
               /\ probes[n].enabled /\ ~probes[n].deleted <=> breaks[n].status = "on"

LEMMA MatchesKept ==
    ASSUME NEW n \in Numbers, Matches(n),
           probes'[n] = probes[n], breaks'[n] = breaks[n], n \in unnoted => n \in unnoted'
    PROVE  Matches(n)'
BY DEF Matches, Known

LEMMA BehindMatches ==
    ASSUME TypeOK, ProbesMatchGdb, Behind
    PROVE  ProbesMatchGdb'
<1> SUFFICES ASSUME timely', NEW n \in Numbers
             PROVE  Matches(n)'
  BY DEF ProbesMatchGdb, Matches
<1>1. /\ Matches(n) /\ SameProbe(n) /\ Unseen(n) /\ (n \in unnoted => n \in unnoted')
  BY DEF ProbesMatchGdb, Matches, Behind
<1>2. CASE breaks'[n] = breaks[n]
  BY <1>1, <1>2 DEF Matches, SameProbe, Known
<1>3. CASE breaks'[n] # breaks[n]
  BY <1>1, <1>3 DEF Matches, SameProbe, Unseen, Known
<1> QED  BY <1>2, <1>3

LEMMA RawInsertedMatches ==
    ASSUME TypeOK, TableInv, ProbesMatchGdb, RawInserted
    PROVE  ProbesMatchGdb'
<1> SUFFICES ASSUME timely', NEW n \in Numbers
             PROVE  Matches(n)'
  BY DEF ProbesMatchGdb, Matches
<1>1. Matches(n) /\ UNCHANGED <<probes, unnoted>>
  BY DEF ProbesMatchGdb, Matches, RawInserted
<1>2. CASE n = made + 1
  <2>1. ~Known(n)
    BY <1>2 DEF TableInv, TypeOK, Numbers
  <2> QED  BY <1>1, <2>1 DEF Matches, Known
<1>3. CASE n # made + 1
  <2>1. breaks'[n] = breaks[n]
    BY <1>3 DEF RawInserted, TypeOK
  <2> QED  BY <1>1, <2>1, MatchesKept
<1> QED  BY <1>2, <1>3

LEMMA NotedMatches ==
    ASSUME TypeOK, ProbesMatchGdb, NEW r, Noted(r)
    PROVE  ProbesMatchGdb'
<1> SUFFICES ASSUME timely', NEW n \in Numbers
             PROVE  Matches(n)'
  BY DEF ProbesMatchGdb, Matches
<1>1. /\ Matches(n) /\ probes \in [Numbers -> Probe] /\ breaks \in [Numbers -> Break]
      /\ probes[n] \in Probe /\ breaks[n] \in Break /\ r.kind \in ProbeMutate
  BY DEF ProbesMatchGdb, Matches, Noted, TypeOK
<1>2. CASE n # r.num
  <2>1. probes'[n] = probes[n] /\ breaks'[n] = breaks[n] /\ (n \in unnoted => n \in unnoted')
    BY <1>1, <1>2 DEF Noted
  <2> QED  BY <1>1, <2>1, MatchesKept
<1>3. CASE n = r.num /\ ~Known(n)
  <2>1. ~Known(n)'
    BY <1>3 DEF Noted, Known
  <2> QED  BY <2>1 DEF Matches
<1>4. CASE n = r.num /\ Known(n)
  <2> DEFINE p == Mutated(r.kind, probes[n])
             b == breaks'[n]
  <2>1. /\ p.kind = probes[n].kind /\ p.policy = probes[n].policy
        /\ p.enabled = (r.kind = "probe_enable")
        /\ p.deleted = (probes[n].deleted \/ r.kind = "probe_delete")
    BY <1>1, MutatedKeeps
  <2>2. probes'[n] = p
    BY <1>1, <1>4 DEF Noted
  <2> HIDE DEF p
  <2>3. /\ probes[n].kind = breaks[n].kind /\ probes[n].policy = breaks[n].policy
        /\ probes[n].deleted => breaks[n].status = "gone"
        /\ probes[n].deleted \in BOOLEAN
    BY <1>1, <1>4 DEF Matches, Probe
  <2>4. CASE breaks[n].status = "gone"
    <3>1. b = breaks[n]
      BY <1>4, <2>4 DEF Noted
    <3>2. CASE r.kind = "probe_delete"
      BY <2>1, <2>2, <2>3, <2>4, <3>1, <3>2 DEF Matches
    <3>3. CASE r.kind # "probe_delete"
      <4>1. unnoted' = unnoted
        BY <1>4, <2>4, <3>3 DEF Noted
      <4>2. n \notin unnoted => probes[n].deleted
        BY <1>1, <1>4, <2>4 DEF Matches
      <4> QED  BY <2>1, <2>2, <2>3, <2>4, <3>1, <3>3, <4>1, <4>2 DEF Matches
    <3> QED  BY <3>2, <3>3
  <2>5. CASE breaks[n].status # "gone"
    <3>1. b = [breaks[n] EXCEPT !.status = Status(r.kind)]
      BY <1>1, <1>4, <2>5 DEF Noted
    <3>2. b.kind = breaks[n].kind /\ b.policy = breaks[n].policy /\ b.status = Status(r.kind)
      BY <1>1, <3>1 DEF Break
    <3> HIDE DEF b
    <3>3. CASE r.kind = "probe_delete"
      BY <2>1, <2>2, <2>3, <2>5, <3>2, <3>3 DEF Matches, Status, b
    <3>4. CASE r.kind = "probe_enable"
      BY <2>1, <2>2, <2>3, <2>5, <3>2, <3>4 DEF Matches, Status, b
    <3>5. CASE r.kind = "probe_disable"
      BY <2>1, <2>2, <2>3, <2>5, <3>2, <3>5 DEF Matches, Status, b
    <3> QED  BY <1>1, <3>3, <3>4, <3>5 DEF ProbeMutate
  <2> QED  BY <2>4, <2>5
<1> QED  BY <1>2, <1>3, <1>4

LEMMA SetProbeMatches ==
    ASSUME TypeOK, TableInv, ProbesMatchGdb, NEW r, NEW below, SetProbe(r, below)
    PROVE  ProbesMatchGdb'
<1> SUFFICES ASSUME timely', NEW n \in Numbers
             PROVE  Matches(n)'
  BY DEF ProbesMatchGdb, Matches
<1>1. /\ Matches(n) /\ probes \in [Numbers -> Probe] /\ breaks \in [Numbers -> Break]
      /\ UNCHANGED unnoted
  BY SetProbeEffect DEF ProbesMatchGdb, Matches, TypeOK
<1>2. CASE Insertion(r) /\ n = made + 1
  <2>1. ~Known(n)
    BY <1>2 DEF TableInv, TypeOK, Numbers
  <2>2. breaks'[n] = [kind |-> r.kind, policy |-> r.name, status |-> "on"]
    BY <1>1, <1>2 DEF Insertion
  <2>3. CASE UNCHANGED probes
    BY <2>1, <2>3 DEF Matches, Known
  <2>4. CASE Entry(r, n)
    <3>1. probes'[n] = [kind |-> r.kind, policy |-> r.name, enabled |-> TRUE,
                        deleted |-> FALSE, hits |-> 0]
      BY <1>1, <2>4 DEF Entry
    <3> QED  BY <2>2, <3>1 DEF Matches
  <2> QED  BY <1>2, <2>3, <2>4, SetProbeEffect
<1>3. CASE ~(Insertion(r) /\ n = made + 1)
  <2>1. breaks'[n] = breaks[n]
    BY <1>1, <1>3, SetProbeEffect DEF Insertion
  <2>2. probes'[n] = probes[n]
    BY <1>1, <1>3, SetProbeEffect DEF Entry
  <2> QED  BY <1>1, <2>1, <2>2, MatchesKept
<1> QED  BY <1>2, <1>3

\* As long as GDB answers in time, the table says what GDB would of every probe GDB has
\* not changed behind its back, and never calls one deleted that is still there:
\* whatever GDB has refused, raw_mi has done, scopes have ended and evidence could not
\* be written.
THEOREM TableIsGdbs == Spec => []ProbesMatchGdb
<1>1. Init => ProbesMatchGdb
  BY DEF Init, ProbesMatchGdb, NoProbe, Known
<1>2. TypeOK /\ TableInv /\ ProbesMatchGdb /\ [Next]_vars => ProbesMatchGdb'
  BY StepIs, OtherTables, PerformTables, BehindMatches, RawInsertedMatches, NotedMatches,
     SetProbeMatches
<1> QED  BY <1>1, <1>2, TypeCorrect, TableCorrect, PTL DEF Spec

-------------------------------------------------------------------------------
(* Hits and the probes they are of *)

\* Every breakpoint GDB has armed is in the table, and not changed behind its back.
ArmedKnown == \A b \in Armed(ProbeSet) : Known(b) /\ b \notin unnoted

\* What the stop of a program that was not running is of, and what its record says.
LEMMA StopNumber ==
    ASSUME NEW kind, NEW res \in ExecResults(kind), inferior # "running"
    PROVE  /\ res.number \in {0, res.trigger}
           /\ res.number # res.trigger =>
                  res.trigger \in Armed(ProbeSet) /\ breaks[res.trigger].kind = "watchpoint_set"
<1> DEFINE at == Armed(ProbeSet)
           Good(x) == /\ x.number \in {0, x.trigger}
                      /\ x.number # x.trigger =>
                             x.trigger \in at /\ breaks[x.trigger].kind = "watchpoint_set"
<1>1. ASSUME NEW exited, NEW after, NEW x \in Stops(exited, at, after)
      PROVE  Good(x)
  <2>1. Good(Stop(exited, 0, 0, after))
    BY DEF Stop
  <2>2. \A b \in at : Good(Stop(exited, b, b, after))
    BY DEF Stop
  <2>3. \A b \in {w \in at : breaks[w].kind = "watchpoint_set"} : Good(Stop(exited, b, 0, after))
    BY DEF Stop
  <2> HIDE DEF Good, at
  <2> QED  BY <2>1, <2>2, <2>3 DEF Stops
<1>2. Good(Refused) /\ Good(ProgramEnds)
  BY DEF Refused, ProgramEnds, Stop
<1>3. ASSUME NEW exited, NEW x \in Deadlines(exited)
      PROVE  Good(x)
  <2>1. \A e, a : Good(Deadline(e, a))
    BY DEF Deadline, Stop
  <2> HIDE DEF Good
  <2> QED  BY <2>1 DEF Deadlines
<1>4. res = Refused \/ res \in ObeyedResults(kind)
  BY ExecResultCases
<1>5. ASSUME res \in ObeyedResults(kind)
      PROVE  Good(res)
  <2> DEFINE gone == kind = "run" /\ inferior = "stopped"
  <2>1. \/ res \in Stops(gone, at, "stopped") \/ res \in Deadlines(gone)
        \/ res = ProgramEnds
    BY <1>5 DEF ObeyedResults
  <2> HIDE DEF Good, at, gone
  <2> QED  BY <1>1, <1>2, <1>3, <2>1
<1> QED  BY <1>2, <1>4, <1>5

LEMMA HitNumberTrue ==
    ASSUME TypeOK, ProbesMatchGdb, timely, inferior # "running", ArmedKnown,
           NEW kind, NEW res \in ExecResults(kind)
    PROVE  HitNumber(res) \in {0, res.trigger}
<1>1. res.number \in {0, res.trigger}
  BY StopNumber
<1>2. CASE HitNumber(res) = res.number
  BY <1>1, <1>2
<1>3. CASE HitNumber(res) # res.number
  <2> DEFINE b == res.trigger
  <2>1. /\ res.number = 0 /\ b # 0 /\ Cardinality(ActiveWatchpoints) = 1
        /\ HitNumber(res) = CHOOSE n \in ActiveWatchpoints : TRUE
    BY <1>3 DEF HitNumber
  <2>2. /\ b \in Numbers /\ breaks[b].status = "on" /\ breaks[b].kind = "watchpoint_set"
        /\ Known(b) /\ b \notin unnoted
    BY <2>1, StopNumber DEF Armed, ArmedKnown
  <2>3. probes[b].kind = "watchpoint_set" /\ probes[b].enabled /\ ~probes[b].deleted
    BY <2>2 DEF ProbesMatchGdb
  <2>4. b \in ActiveWatchpoints
    BY <2>2, <2>3 DEF ActiveWatchpoints
  <2>5. IsFiniteSet(ActiveWatchpoints)
    <3>1. IsFiniteSet(Numbers)
      BY BoundsAssumption, FS_Interval DEF Numbers
    <3> QED  BY <3>1, FS_Subset DEF ActiveWatchpoints
  <2>6. PICK x : ActiveWatchpoints = {x}
    BY <2>1, <2>5, FS_Singleton
  <2> QED  BY <2>1, <2>4, <2>6
<1> QED  BY <1>2, <1>3

\* A call added to those in progress is a replay, or the hit of the right probe.
LEMMA AddedTrue ==
    ASSUME NEW f \in Frame, NEW calls \in Seq(Frame), Len(calls) = Len(stack),
           stack \in Seq(Frame), stack' = Append(calls, f), f.number \in {0, f.trigger}
    PROVE  \A i \in DOMAIN stack' \ DOMAIN stack : stack'[i].number \in {0, stack'[i].trigger}
<1>1. \A i \in DOMAIN stack' \ DOMAIN stack : stack'[i] = f
  OBVIOUS
<1> QED  BY <1>1

LEMMA PerformTrue ==
    ASSUME TypeOK, TableInv, ProbesMatchGdb, StoppedMeansStill, timely, ~meddled, ArmedKnown,
           NEW r \in Request, NEW below \in Seq(Frame), SameHits(below, stack),
           Perform(r, below)
    PROVE  \A i \in DOMAIN stack' \ DOMAIN stack : stack'[i].number \in {0, stack'[i].trigger}
<1>1. stack \in Seq(Frame) /\ Len(below) = Len(stack)
  BY DEF TypeOK, SameHits
<1>2. CASE SameHits(stack', below) /\ stack' \in Seq(Frame)
  BY <1>1, <1>2 DEF SameHits
<1>3. CASE Thrown(below)
  <2>1. PICK kept \in 0 .. Len(below) :
            stack' \in Seq(Frame) /\ SameHits(stack', SubSeq(below, 1, kept))
    BY <1>3, ThrownSame
  <2>2. Len(SubSeq(below, 1, kept)) = kept
    OBVIOUS
  <2>3. Len(stack') = kept
    BY <2>1, <2>2 DEF SameHits
  <2> QED  BY <1>1, <2>1, <2>3
<1>4. CASE stack' = Append(below, ReplayFrame(r.name)) /\ r.name \in DOMAIN Plan
  <2>1. ReplayFrame(r.name) \in Frame /\ ReplayFrame(r.name).number = 0
    BY <1>4, ReplayFrameType DEF ReplayFrame
  <2> QED  BY <1>1, <1>4, <2>1, AddedTrue
<1>5. CASE /\ r.kind \in {"run", "continue"} /\ Allowed(r.kind)
           /\ \E res \in ExecResults(r.kind) :
                 HitFrame(r, res) \in Frame /\ stack' = Append(below, HitFrame(r, res))
  <2>1. PICK res \in ExecResults(r.kind) :
                 HitFrame(r, res) \in Frame /\ stack' = Append(below, HitFrame(r, res))
    BY <1>5
  <2>2. inferior # "running"
    BY <1>5 DEF Allowed, Dynamic, StoppedMeansStill
  <2>3. HitFrame(r, res).number = HitNumber(res) /\ HitFrame(r, res).trigger = res.trigger
    BY DEF HitFrame
  <2>4. HitNumber(res) \in {0, res.trigger}
    BY <2>2, HitNumberTrue
  <2> QED  BY <1>1, <2>1, <2>3, <2>4, AddedTrue
<1> QED  BY <1>2, <1>3, <1>4, <1>5, PerformHits

\* As long as GDB answers in time and raw_mi leaves the program alone, and what GDB has
\* armed is in the table and was not armed behind its back, a stop is counted, performed
\* and written as the hit of the probe that stopped the program, also when its record
\* lacks the number: not that of the one other watchpoint the table calls active.
THEOREM HitsTrue == Spec => HitsAreTrue
<1> DEFINE Inv == TypeOK /\ TableInv /\ CallsInv /\ ProbesMatchGdb /\ StoppedMeansStill
<1>1. ASSUME Inv, [Next]_vars, timely, ~meddled, ArmedKnown
      PROVE  \A i \in DOMAIN stack' \ DOMAIN stack : stack'[i].number \in {0, stack'[i].trigger}
  <2>0. stack \in Seq(Frame)
    BY <1>1 DEF TypeOK
  <2>1. CASE \E r \in Request, below \in Seq(Frame) : Perform(r, below) /\ SameHits(below, stack)
    BY <1>1, <2>1, PerformTrue
  <2>2. CASE InitialRun
    <3>1. stack = <<>> /\ inferior # "running"
      BY <1>1, <2>2, InitialRunCases DEF CallsInv, StoppedMeansStill
    <3>2. CASE UNCHANGED stack
      BY <3>2
    <3>3. ASSUME NEW res \in ExecResults("run"),
                 HitFrame(Req("initial_run"), res) \in Frame,
                 stack' = Append(<<>>, HitFrame(Req("initial_run"), res))
          PROVE  \A i \in DOMAIN stack' \ DOMAIN stack : stack'[i].number \in {0, stack'[i].trigger}
      <4> DEFINE f == HitFrame(Req("initial_run"), res)
      <4>1. f.number = HitNumber(res) /\ f.trigger = res.trigger
        BY DEF HitFrame
      <4>2. HitNumber(res) \in {0, res.trigger}
        BY <1>1, <3>1, HitNumberTrue
      <4>3. \A i \in DOMAIN stack' : stack'[i] = f
        <5> HIDE DEF f
        <5> QED  BY <3>3 DEF f
      <4> HIDE DEF f
      <4> QED  BY <4>1, <4>2, <4>3
    <3> QED  BY <1>1, <2>2, <3>2, <3>3, InitialRunCases
  <2>3. CASE Start
    BY <2>3 DEF Start, ReplayFrame
  <2>4. CASE Leave
    <3>1. Top \in Frame /\ BelowTop \in Seq(Frame) /\ Len(BelowTop) = Len(stack) - 1
          /\ Len(stack) \in Nat \ {0}
      <4>1. stack # <<>>
        BY <2>4 DEF Leave
      <4>2. Len(stack) \in Nat \ {0} /\ Top \in Frame /\ BelowTop \in Seq(Frame)
        BY <1>1, <4>1, TopType
      <4>3. stack = Append(BelowTop, Top)
        BY <2>0, <4>2 DEF BelowTop, Top
      <4> QED  BY <4>2, <4>3
    <3>2. (Top.op = "hit" \/ ~Top.failed) \in BOOLEAN
      BY <3>1 DEF Frame
    <3>3. stack' \in Seq(Frame) /\ Len(stack') = Len(BelowTop)
      BY <2>4, <3>1, <3>2, FinishedSame DEF Leave, SameHits
    <3> QED  BY <2>0, <3>1, <3>3
  <2>5. CASE Cut
    <3>1. /\ BelowTop \in Seq(Frame) /\ Len(BelowTop) = Len(stack) - 1
          /\ Len(stack) \in Nat \ {0}
      <4>1. stack # <<>>
        BY <2>5 DEF Cut
      <4>2. Len(stack) \in Nat \ {0} /\ Top \in Frame /\ BelowTop \in Seq(Frame)
        BY <1>1, <4>1, TopType
      <4>3. stack = Append(BelowTop, Top)
        BY <2>0, <4>2 DEF BelowTop, Top
      <4> QED  BY <4>2, <4>3
    <3>2. PICK calls \in {stack, BelowTop} : Thrown(calls)
      BY <2>5 DEF Cut
    <3>3. calls \in Seq(Frame) /\ Len(calls) <= Len(stack) /\ Len(calls) \in Nat
      BY <2>0, <3>1, <3>2
    <3>4. PICK kept \in 0 .. Len(calls) :
              stack' \in Seq(Frame) /\ SameHits(stack', SubSeq(calls, 1, kept))
      BY <3>2, <3>3, ThrownSame
    <3>5. Len(SubSeq(calls, 1, kept)) = kept
      BY <3>3
    <3>6. Len(stack') = kept
      BY <3>4, <3>5 DEF SameHits
    <3> QED  BY <2>0, <3>3, <3>4, <3>6
  <2>6. CASE LoadCore \/ Close \/ UNCHANGED vars
    BY <2>6 DEF LoadCore, Close, vars
  <2> QED  BY <1>1, <2>1, <2>2, <2>3, <2>4, <2>5, <2>6, StepIs
<1>2. Inv /\ [Next]_vars =>
          [timely /\ ~meddled /\ (\A b \in Armed(ProbeSet) : Known(b) /\ b \notin unnoted)
           => \A i \in DOMAIN stack' \ DOMAIN stack :
                  stack'[i].number \in {0, stack'[i].trigger}]_vars
  BY <1>1 DEF ArmedKnown
<1> QED
  BY <1>2, TypeCorrect, TableCorrect, CallsCorrect, TableIsGdbs, StoppedCorrect, PTL
  DEF Spec, HitsAreTrue

===============================================================================
