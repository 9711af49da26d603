--------------------------- MODULE Hypotheses_proofs ---------------------------
(***************************************************************************)
(* Proofs about Hypotheses and Assertions, for any hypotheses, texts and   *)
(* bounds: the type invariant, that the status of the tool is that of the  *)
(* last check, that the index is current, that every check has its         *)
(* evidence, that a comparison and its negation exclude each other, and    *)
(* that a check has the verdict the manual gives for the texts it          *)
(* describes.                                                              *)
(*                                                                         *)
(* The last rests on what the text of any number of pieces shows: each     *)
(* expression finds in two texts with a space between them what it finds   *)
(* in either (Spaced...), and in the text of one piece what the piece      *)
(* means (PrintedShows), so by induction what the pieces mean.             *)
(***************************************************************************)
EXTENDS Hypotheses, EvidenceStore_proofs, SequenceTheorems,
        WellFoundedInduction, TLAPS

-------------------------------------------------------------------------------
(* Assertions *)

LEMMA HoldsType ==
    ASSUME NEW test
    PROVE  Holds(test) \in {"passed", "failed"}
BY DEF Holds

LEMMA VerdictType ==
    ASSUME NEW a \in Assertion, NEW observed, NEW expected
    PROVE  Verdict(a, observed, expected) \in Status
<1>1. CASE a = "none"
  BY <1>1 DEF Verdict, Status
<1>2. CASE a # "none" /\ ~Evaluable(a, observed, expected)
  BY <1>2 DEF Verdict, Status
<1>3. CASE a # "none" /\ Evaluable(a, observed, expected)
  <2>1. a # "other"
    BY <1>3 DEF Evaluable
  <2>2. a \in Comparisons \cup Wording \cup Addressing \cup {"between", "is_null", "non_null"}
    BY <1>3, <2>1 DEF Assertion, Expecting, Addressing
  <2>3. Verdict(a, observed, expected) \in {"passed", "failed"}
    BY <1>3, <2>2, HoldsType DEF Verdict, Comparisons, Wording, Addressing
  <2> QED  BY <2>3 DEF Status
<1> QED  BY <1>1, <1>2, <1>3

LEMMA NumbersType ==
    ASSUME NEW s \in Text
    PROVE  Numbers(s) \subseteq Int
<1>1. \A i \in DOMAIN s : s[i] \in Symbol
  BY DEF Text
<1>2. \A i \in DOMAIN s : s[i].v \in Nat
  BY <1>1 DEF Symbol
<1> QED  BY <1>2 DEF Numbers, Value

\* One assertion is the negation of the other.
Opposite(a, b) ==
    \/ a = "greater_than" /\ b = "less_equal"
    \/ a = "less_than" /\ b = "greater_equal"
    \/ a = "equals_number" /\ b = "not_equals_number"

\* A comparison and its negation can be evaluated of the same texts, and then
\* exactly one of them passes: both read the numbers of a text the same way.
THEOREM OppositesExclude ==
    ASSUME NEW a, NEW b, Opposite(a, b), NEW observed \in Text, NEW expected \in Text
    PROVE  \/ /\ Verdict(a, observed, expected) = "unknown"
              /\ Verdict(b, observed, expected) = "unknown"
           \/ {Verdict(a, observed, expected), Verdict(b, observed, expected)} =
                  {"passed", "failed"}
<1> DEFINE x == The(Numbers(observed))
           y == The(Numbers(expected))
<1>1. a \in Comparisons /\ b \in Comparisons
  BY DEF Opposite, Comparisons
<1>2. a # "none" /\ b # "none" /\ a # "other" /\ b # "other" /\ a # "between" /\ b # "between"
      /\ a \notin Addressing /\ b \notin Addressing /\ a \in Expecting /\ b \in Expecting
  BY <1>1 DEF Comparisons, Addressing, Expecting
<1>3. Evaluable(a, observed, expected) <=> Evaluable(b, observed, expected)
  BY <1>1, <1>2 DEF Evaluable, Addressing
<1>4. CASE ~Evaluable(a, observed, expected)
  BY <1>2, <1>3, <1>4 DEF Verdict
<1>5. CASE Evaluable(a, observed, expected)
  <2>1. x \in Int /\ y \in Int
    BY <1>1, <1>5, NumbersType DEF Evaluable, Single, The
  <2> HIDE DEF x, y
  <2>2. Compared(a, x, y) <=> ~Compared(b, x, y)
    <3>1. CASE a = "greater_than" /\ b = "less_equal"
      BY <2>1, <3>1 DEF Compared
    <3>2. CASE a = "less_than" /\ b = "greater_equal"
      BY <2>1, <3>2 DEF Compared
    <3>3. CASE a = "equals_number" /\ b = "not_equals_number"
      BY <2>1, <3>3 DEF Compared
    <3> QED  BY <3>1, <3>2, <3>3 DEF Opposite
  <2>3. /\ Verdict(a, observed, expected) = Holds(Compared(a, x, y))
        /\ Verdict(b, observed, expected) = Holds(Compared(b, x, y))
    <3>1. ASSUME NEW c \in Comparisons, Evaluable(c, observed, expected)
          PROVE  Verdict(c, observed, expected) = Holds(Compared(c, x, y))
      BY <3>1 DEF Verdict, Comparisons, Wording, Addressing, x, y
    <3> QED  BY <1>1, <1>3, <1>5, <3>1
  <2> QED  BY <2>2, <2>3 DEF Holds
<1> QED  BY <1>4, <1>5

-------------------------------------------------------------------------------
(* The type invariant *)

LEMMA NoCheckType == NoCheck \in Check
BY DEF NoCheck, Check, Assertion, Status

LEMMA NewType == New \in Hypothesis /\ Unknown \in Hypothesis
<1>1. Unknown \in Hypothesis
  BY DEF Unknown, Hypothesis, ToolStatus, Conclusions
<1>2. New \in Hypothesis
  BY <1>1 DEF New, Hypothesis
<1> QED  BY <1>1, <1>2

LEMMA InitType == Init => TypeOK
<1> SUFFICES ASSUME Init PROVE TypeOK
  OBVIOUS
<1>1. EvidenceTypeOK
  BY EvidenceInitType DEF Init
<1>6. found = md
  BY DEF Init
<1>2. hyps \in [Ids -> Hypothesis] /\ index \in [Ids -> Hypothesis]
  BY NewType DEF Init
<1>3. md \in [Ids -> Sections]
  BY DEF Init, Blank, Sections
<1>4. ask \in Ask
  BY HypothesesAssumption DEF Init, NoAsk, Ask, Assertion, Conclusions
<1>5. check \in Check
  BY NoCheckType DEF Init
<1> QED  BY <1>1, <1>2, <1>3, <1>4, <1>5, <1>6 DEF Init, TypeOK

LEMMA CheckedType ==
    ASSUME NEW h \in Hypothesis, NEW c \in Check
    PROVE  Checked(h, c) \in Hypothesis
<1>1. c.status \in Status
  BY DEF Check
<1>2. StatusAfter(c) \in ToolStatus
  BY <1>1 DEF StatusAfter, Status, ToolStatus
<1>3. Append(h.checks, c) \in Seq(Check)
  BY DEF Hypothesis
<1> QED  BY <1>2, <1>3 DEF Checked, Hypothesis

LEMMA AppendsType ==
    ASSUME TypeOK, NEW n, NEW kind, NEW section, NEW cut, Appends(n, kind, section, cut),
           \/ kind = "checks" /\ section \in Check /\ cut \in Check
           \/ kind = "conclusions" /\ section \in Conclusions /\ cut \in Conclusions
    PROVE  md' \in [Ids -> Sections] /\ failures' \in Nat
<1>1. PICK x : /\ md' = [md EXCEPT ![n][kind] = Append(@, x)]
               /\ x \in {section, cut}
  BY DEF Appends
<1>2. n \in Ids => [md[n] EXCEPT ![kind] = Append(@, x)] \in Sections
  <2>1. CASE kind = "checks" /\ x \in Check
    <3>1. n \in Ids => Append(md[n].checks, x) \in Seq(Check)
      BY <2>1 DEF TypeOK, Sections
    <3> QED  BY <2>1, <3>1 DEF TypeOK, Sections
  <2>2. CASE kind = "conclusions" /\ x \in Conclusions
    <3>1. n \in Ids => Append(md[n].conclusions, x) \in Seq(Conclusions)
      BY <2>2 DEF TypeOK, Sections
    <3> QED  BY <2>2, <3>1 DEF TypeOK, Sections
  <2> QED  BY <1>1, <2>1, <2>2
<1>3. md' \in [Ids -> Sections]
  BY <1>1, <1>2 DEF TypeOK
<1>4. failures' \in Nat
  BY DEF Appends, Fails, TypeOK, EvidenceTypeOK
<1> QED  BY <1>3, <1>4

LEMMA EvidenceUnchanged ==
    ASSUME EvidenceTypeOK, UNCHANGED <<counter, items, indexed, indexCut>>, failures' \in Nat
    PROVE  EvidenceTypeOK'
BY DEF EvidenceTypeOK

LEMMA NextType == TypeOK /\ [Next]_vars => TypeOK'
<1> SUFFICES ASSUME TypeOK, [Next]_vars PROVE TypeOK'
  OBVIOUS
<1> USE DEF Goes, Answers
<1>0. EvidenceTypeOK /\ failures \in Nat /\ (Fails => failures' \in Nat)
  BY DEF TypeOK, EvidenceTypeOK, Fails
<1>1. ASSUME NEW a \in Ask, Create(a) PROVE TypeOK'
  <2> DEFINE n == Named(a)
  <2>1. n \in Ids /\ autos' \in Nat
    BY <1>1 DEF Create, TypeOK
  <2>2. hyps' \in [Ids -> Hypothesis] /\ md' \in [Ids -> Sections] /\ found' \in [Ids -> Sections]
    <3>1. CASE /\ md' = [md EXCEPT ![n] = Blank] /\ hyps' = [hyps EXCEPT ![n] = New]
               /\ found' = [found EXCEPT ![n] = Blank]
      <4>1. Blank \in Sections
        BY DEF Blank, Sections
      <4> QED  BY <3>1, <4>1, NewType DEF TypeOK
    <3>2. CASE UNCHANGED <<md, hyps, found>>
      BY <3>2 DEF TypeOK
    <3> QED  BY <1>1, <3>1, <3>2 DEF Create
  <2>3. EvidenceTypeOK'
    BY <1>0, <1>1, EvidenceUnchanged DEF Create
  <2> QED  BY <1>1, <2>1, <2>2, <2>3 DEF Create, Asked, TypeOK
<1>2. ASSUME NEW a \in Ask, Refuse(a) PROVE TypeOK'
  <2>1. EvidenceTypeOK'
    BY <1>0, <1>2, EvidenceUnchanged DEF Refuse, evidenceVars
  <2> QED  BY <1>2, <2>1 DEF Refuse, Asked, TypeOK, storeVars
<1>3. ASSUME NEW a \in Ask, StartCheck(a) PROVE TypeOK'
  <2>1. a.assertion \in Assertion /\ a.expected \in Seq(Piece) /\ calls' \in Nat
    BY <1>3 DEF StartCheck, Asked, Ask, TypeOK
  <2>2. check' \in Check
    BY <1>3, <2>1, NoCheckType DEF StartCheck, Check
  <2>3. EvidenceTypeOK'
    BY <1>0, <1>3, EvidenceUnchanged DEF StartCheck, evidenceVars
  <2> QED  BY <1>3, <2>1, <2>2, <2>3 DEF StartCheck, Asked, TypeOK, storeVars
<1>4. ASSUME NEW a \in Ask, Conclude(a) PROVE TypeOK'
  <2> DEFINE n == a.id
  <2>1. n \in Ids /\ a.conclusion \in Conclusions /\ "none" \in Conclusions
    BY <1>4 DEF Conclude, Ask, Conclusions
  <2>2. hyps' \in [Ids -> Hypothesis] /\ md' \in [Ids -> Sections] /\ failures' \in Nat
    <3>1. CASE /\ Appends(n, "conclusions", a.conclusion, "none")
               /\ hyps' = [hyps EXCEPT ![n] = Concluded(@, a.conclusion)]
      <4>1. Concluded(hyps[n], a.conclusion) \in Hypothesis
        BY <2>1 DEF Concluded, Hypothesis, TypeOK
      <4>2. md' \in [Ids -> Sections] /\ failures' \in Nat
        BY <2>1, <3>1, AppendsType
      <4> QED  BY <3>1, <4>1, <4>2 DEF TypeOK
    <3>2. CASE UNCHANGED <<md, hyps>> /\ Fails
      BY <1>0, <3>2 DEF TypeOK
    <3> QED  BY <1>4, <3>1, <3>2 DEF Conclude
  <2>3. EvidenceTypeOK'
    BY <1>0, <1>4, <2>2, EvidenceUnchanged DEF Conclude
  <2> QED  BY <1>4, <2>1, <2>2, <2>3 DEF Conclude, Asked, TypeOK
<1>5. CASE Collect
  <2>1. EvidenceTypeOK' /\ counter' \in Nat
    BY <1>5, AddedType, AddThrewType DEF Collect, TypeOK
  <2>2. check' \in Check
    <3>1. ASSUME NEW t \in Prints,
                 check' = [check EXCEPT !.observed = t, !.evidence = counter']
          PROVE  check' \in Check
      <4>1. t \in Seq(Piece)
        BY HypothesesAssumption
      <4> QED  BY <2>1, <3>1, <4>1 DEF TypeOK, Check
    <3> QED  BY <1>5, <3>1 DEF Collect, TypeOK
  <2> QED  BY <1>5, <2>1, <2>2 DEF Collect, TypeOK, storeVars
<1>6. CASE Evaluate
  <2>1. EvidenceTypeOK' /\ counter' \in Nat
    <3>1. CASE UNCHANGED evidenceVars
      BY <1>0, <3>1, EvidenceUnchanged DEF evidenceVars, EvidenceTypeOK
    <3>2. CASE Added("ToolError", calls) \/ AddThrew("ToolError", calls)
      BY <1>0, <3>2, AddedType, AddThrewType
    <3> QED  BY <1>6, <3>1, <3>2 DEF Evaluate
  <2>2. check' \in Check
    <3>1. \A v \in Verdicts(check) : v \in Status
      BY VerdictType DEF Verdicts, TypeOK, Check
    <3> QED  BY <1>6, <2>1, <3>1 DEF Evaluate, TypeOK, Check
  <2> QED  BY <1>6, <2>1, <2>2 DEF Evaluate, TypeOK, storeVars
<1>7. CASE AppendAndRecord
  <2> DEFINE n == ask.id
  <2>1. hyps' \in [Ids -> Hypothesis] /\ md' \in [Ids -> Sections] /\ failures' \in Nat
    <3>1. CASE /\ Appends(n, "checks", check, NoCheck)
               /\ hyps' = [hyps EXCEPT ![n] = Checked(@, check)]
      <4>1. check \in Check
        BY DEF TypeOK
      <4>2. md' \in [Ids -> Sections] /\ failures' \in Nat
        BY <3>1, <4>1, AppendsType, NoCheckType
      <4>3. n \in Ids => Checked(hyps[n], check) \in Hypothesis
        BY <4>1, CheckedType DEF TypeOK
      <4> QED  BY <3>1, <4>2, <4>3 DEF TypeOK
    <3>2. CASE UNCHANGED md /\ hyps' = [hyps EXCEPT ![n].known = TRUE] /\ Fails
      <4>1. n \in Ids => [hyps[n] EXCEPT !.known = TRUE] \in Hypothesis
        BY DEF Hypothesis, TypeOK
      <4> QED  BY <1>0, <3>2, <4>1 DEF TypeOK
    <3> QED  BY <1>7, <3>1, <3>2 DEF AppendAndRecord
  <2>2. EvidenceTypeOK'
    BY <1>0, <1>7, <2>1, EvidenceUnchanged DEF AppendAndRecord
  <2> QED  BY <1>7, <2>1, <2>2 DEF AppendAndRecord, TypeOK
<1>8. CASE Index
  <2>1. EvidenceTypeOK'
    BY <1>0, <1>8, EvidenceUnchanged DEF Index
  <2>2. index' \in [Ids -> Hypothesis]
    BY <1>8, NewType DEF Index, TypeOK
  <2> QED  BY <1>8, <2>1, <2>2 DEF Index, TypeOK
<1>9. CASE Error
  <2>1. EvidenceTypeOK'
    BY <1>9, AddedType, AddThrewType DEF Error, TypeOK
  <2> QED  BY <1>9, <2>1 DEF Error, TypeOK, storeVars
<1>10. CASE UNCHANGED vars
  <2>1. EvidenceTypeOK'
    BY <1>0, <1>10, EvidenceUnchanged DEF vars
  <2> QED  BY <1>10, <2>1 DEF vars, TypeOK
<1>11. CASE Caller
  <2>1. calls + 1 \in DOMAIN Asks
    BY <1>11, HypothesesAssumption DEF Caller, TypeOK
  <2>2. Asks[calls + 1] \subseteq Ask
    BY <2>1, HypothesesAssumption
  <2> QED  BY <1>1, <1>2, <1>3, <1>4, <1>11, <2>2 DEF Caller
<1>12. CASE Restart
  <2>1. EvidenceTypeOK'
    <3>1. counter' = 0 /\ items' = {} /\ indexed' = {} /\ failures' \in Nat
      BY <1>0, <1>12 DEF Restart, Reopened
    <3>2. indexCut' \in BOOLEAN
      BY <1>12 DEF Restart, Reopened
    <3> QED  BY <3>1, <3>2 DEF EvidenceTypeOK
  <2>2. hyps' \in [Ids -> Hypothesis]
    BY <1>12, NewType DEF Restart
  <2>3. ask' \in Ask
    BY <1>12, HypothesesAssumption DEF Restart, NoAsk, Ask, Assertion, Conclusions
  <2>4. check' \in Check
    BY <1>12, NoCheckType DEF Restart
  <2>5. /\ autos' \in Nat /\ restarts' \in Nat /\ calls' \in Nat /\ pc' = "idle"
        /\ answer' = "none" /\ indexIs' = "found"
    BY <1>12 DEF Restart, TypeOK
  <2>6. /\ md' \in [Ids -> Sections] /\ found' \in [Ids -> Sections]
        /\ index' \in [Ids -> Hypothesis]
    BY <1>12 DEF Restart, TypeOK
  <2> QED  BY <2>1, <2>2, <2>3, <2>4, <2>5, <2>6 DEF TypeOK
<1> QED  BY <1>5, <1>6, <1>7, <1>8, <1>9, <1>10, <1>11, <1>12 DEF Next

\* The state has its type, whatever is asked and printed and whichever writes
\* throw: the store of hypotheses and the evidence numbers in particular.
THEOREM TypeCorrect == Spec => []TypeOK
<1> QED  BY InitType, NextType, PTL DEF Spec

-------------------------------------------------------------------------------
(* The status of the tool *)

LEMMA StatusStep == TypeOK /\ StatusFollowsChecks /\ [Next]_vars => StatusFollowsChecks'
<1> SUFFICES ASSUME TypeOK, StatusFollowsChecks, [Next]_vars PROVE StatusFollowsChecks'
  OBVIOUS
<1> DEFINE Follows(h) == h.status = IF h.checks = <<>> THEN "started"
                                   ELSE StatusAfter(h.checks[Len(h.checks)])
<1>1. \A n \in Ids : hyps[n] \in Hypothesis /\ Follows(hyps[n])
  BY DEF StatusFollowsChecks, TypeOK
<1>2. SUFFICES \A n \in Ids : Follows(hyps'[n])
  BY DEF StatusFollowsChecks
<1>3. Follows(New) /\ Follows(Unknown)
  BY DEF New, Unknown
<1>4. \A h, c : Follows(h) /\ h \in Hypothesis => Follows(Concluded(h, c))
  BY DEF Concluded, Hypothesis
<1>5. \A h \in Hypothesis : Follows(h) => Follows([h EXCEPT !.known = TRUE])
  BY DEF Hypothesis
<1>6. ASSUME NEW h \in Hypothesis, NEW c \in Check PROVE Follows(Checked(h, c))
  <2>1. h.checks \in Seq(Check)
    BY DEF Hypothesis
  <2>2. Append(h.checks, c) # <<>> /\ Append(h.checks, c)[Len(Append(h.checks, c))] = c
    BY <2>1
  <2>3. Checked(h, c).checks = Append(h.checks, c) /\ Checked(h, c).status = StatusAfter(c)
    BY DEF Checked, Hypothesis
  <2> QED  BY <2>2, <2>3
<1> HIDE DEF Follows
<1>7. ASSUME NEW a, Create(a) PROVE \A n \in Ids : Follows(hyps'[n])
  BY <1>1, <1>3, <1>7 DEF Create, TypeOK
<1>8. ASSUME NEW a, Conclude(a) PROVE \A n \in Ids : Follows(hyps'[n])
  <2>1. CASE UNCHANGED hyps
    BY <1>1, <2>1
  <2>2. CASE a.id \in Ids /\ hyps' = [hyps EXCEPT ![a.id] = Concluded(hyps[a.id], a.conclusion)]
    <3>1. Follows(Concluded(hyps[a.id], a.conclusion))
      BY <1>1, <1>4, <2>2
    <3> QED  BY <1>1, <2>2, <3>1 DEF TypeOK
  <2> QED  BY <1>8, <2>1, <2>2 DEF Conclude
<1>9. CASE AppendAndRecord
  <2>1. check \in Check
    BY DEF TypeOK
  <2> DEFINE n == ask.id
  <2>2. n \in Ids => Follows(Checked(hyps[n], check)) /\ Follows([hyps[n] EXCEPT !.known = TRUE])
    BY <1>1, <1>5, <1>6, <2>1
  <2>3. \/ hyps' = [hyps EXCEPT ![n] = Checked(hyps[n], check)]
        \/ hyps' = [hyps EXCEPT ![n] = [hyps[n] EXCEPT !.known = TRUE]]
    BY <1>9 DEF AppendAndRecord
  <2> QED  BY <1>1, <2>2, <2>3 DEF TypeOK
<1>10. ASSUME UNCHANGED hyps PROVE \A n \in Ids : Follows(hyps'[n])
  BY <1>1, <1>10
<1>11. (\E a : Refuse(a) \/ StartCheck(a)) \/ Collect \/ Evaluate \/ Index \/ Error
       \/ UNCHANGED vars => UNCHANGED hyps
  BY DEF Refuse, StartCheck, Collect, Evaluate, Index, Error, vars, storeVars
<1>12. CASE Restart
  BY <1>3, <1>12 DEF Restart
<1> QED  BY <1>7, <1>8, <1>9, <1>10, <1>11, <1>12 DEF Next, Caller

\* The status the tool keeps of a hypothesis is that of its last check, whatever
\* conclusions, creates, failed checks and failed writes come in between.
THEOREM StatusOfTool == Spec => []StatusFollowsChecks
<1>1. Init => StatusFollowsChecks
  BY DEF Init, Unknown, StatusFollowsChecks
<1> QED  BY <1>1, StatusStep, TypeCorrect, PTL DEF Spec

-------------------------------------------------------------------------------
(* The Markdown file *)

\* What FileAgrees says of one hypothesis, with what was found in its file, if writes
\* have failed or not.
ChecksAgree(now, was, recorded, failed) ==
    /\ Len(now) = Len(was \o recorded)
    /\ \A i \in DOMAIN (was \o recorded) :
          \/ now[i] = (was \o recorded)[i]
          \/ i > Len(was) /\ now[i] = NoCheck /\ failed

SaidAgree(now, was, conclusion, failed) ==
    /\ Len(was) <= Len(now) /\ \A i \in DOMAIN was : now[i] = was[i]
    /\ IF Len(now) = Len(was) THEN conclusion = "none"
       ELSE conclusion = now[Len(now)] \/ (now[Len(now)] = "none" /\ failed)

Agrees(h, m, f, failed) ==
    /\ ChecksAgree(m.checks, f.checks, h.checks, failed)
    /\ SaidAgree(m.conclusions, f.conclusions, h.conclusion, failed)

LEMMA AgreesMeaning ==
    FileAgrees <=> \A n \in Ids : Agrees(hyps[n], md[n], found[n], failures > 0)
BY DEF FileAgrees, Agrees, ChecksAgree, SaidAgree, CutShort

LEMMA ChecksAgreeMore ==
    ASSUME NEW now \in Seq(Check), NEW was \in Seq(Check), NEW recorded \in Seq(Check),
           NEW failed \in BOOLEAN, NEW later \in BOOLEAN, failed => later,
           ChecksAgree(now, was, recorded, failed)
    PROVE  /\ ChecksAgree(now, was, recorded, later)
           /\ \A c \in Check : /\ ChecksAgree(Append(now, c), was, Append(recorded, c), later)
                               /\ later => ChecksAgree(Append(now, NoCheck), was,
                                                       Append(recorded, c), later)
<1>1. ChecksAgree(now, was, recorded, later)
  BY DEF ChecksAgree
<1>2. ASSUME NEW c \in Check, NEW x \in Check, x = c \/ (x = NoCheck /\ later)
      PROVE  ChecksAgree(Append(now, x), was, Append(recorded, c), later)
  <2> DEFINE all  == was \o recorded
             more == was \o Append(recorded, c)
             new  == Append(now, x)
  <2>1. /\ Len(all) = Len(was) + Len(recorded) /\ Len(more) = Len(all) + 1
        /\ \A i \in 1 .. Len(all) : more[i] = all[i]
        /\ more[Len(all) + 1] = c
        /\ DOMAIN more = 1 .. Len(more) /\ DOMAIN all = 1 .. Len(all)
    OBVIOUS
  <2>2. /\ Len(new) = Len(now) + 1 /\ new[Len(now) + 1] = x
        /\ \A i \in 1 .. Len(now) : new[i] = now[i]
    OBVIOUS
  <2>3. Len(now) = Len(all) /\ Len(was) \in Nat /\ Len(recorded) \in Nat /\ Len(all) \in Nat
    BY <2>1 DEF ChecksAgree
  <2>4. \A i \in 1 .. Len(all) : now[i] = all[i] \/ (i > Len(was) /\ now[i] = NoCheck /\ failed)
    BY <2>1 DEF ChecksAgree
  <2> HIDE DEF all, more, new
  <2>5. ASSUME NEW i \in DOMAIN more
        PROVE  new[i] = more[i] \/ (i > Len(was) /\ new[i] = NoCheck /\ later)
    <3>1. CASE i \in 1 .. Len(all)
      BY <2>1, <2>2, <2>3, <2>4, <3>1
    <3>2. CASE i = Len(all) + 1
      BY <1>2, <2>1, <2>2, <2>3, <3>2
    <3> QED  BY <2>1, <2>3, <3>1, <3>2
  <2>6. Len(new) = Len(more)
    BY <2>1, <2>2, <2>3
  <2> QED  BY <2>5, <2>6 DEF ChecksAgree, more, new
<1>3. NoCheck \in Check
  BY NoCheckType
<1> QED  BY <1>1, <1>2, <1>3

LEMMA SaidAgreeMore ==
    ASSUME NEW now \in Seq(Conclusions), NEW was \in Seq(Conclusions), NEW conclusion,
           NEW failed \in BOOLEAN, NEW later \in BOOLEAN, failed => later,
           SaidAgree(now, was, conclusion, failed)
    PROVE  /\ SaidAgree(now, was, conclusion, later)
           /\ \A c \in Conclusions : /\ SaidAgree(Append(now, c), was, c, later)
                                     /\ later => SaidAgree(Append(now, "none"), was, c, later)
<1>1. SaidAgree(now, was, conclusion, later)
  BY DEF SaidAgree
<1>2. ASSUME NEW c \in Conclusions, NEW x \in Conclusions, x = c \/ (x = "none" /\ later)
      PROVE  SaidAgree(Append(now, x), was, c, later)
  <2> DEFINE new == Append(now, x)
  <2>1. /\ Len(new) = Len(now) + 1 /\ new[Len(new)] = x
        /\ \A i \in 1 .. Len(now) : new[i] = now[i]
    OBVIOUS
  <2>2. Len(was) <= Len(now) /\ Len(now) \in Nat /\ Len(was) \in Nat
        /\ \A i \in 1 .. Len(was) : now[i] = was[i]
    BY DEF SaidAgree
  <2> HIDE DEF new
  <2>3. Len(new) # Len(was) /\ Len(was) <= Len(new)
    BY <2>1, <2>2
  <2>4. \A i \in DOMAIN was : new[i] = was[i]
    <3>1. ASSUME NEW i \in DOMAIN was PROVE new[i] = was[i]
      <4>1. i \in 1 .. Len(was) /\ i \in 1 .. Len(now)
        BY <2>2
      <4> QED  BY <2>1, <2>2, <4>1
    <3> QED  BY <3>1
  <2> QED  BY <1>2, <2>1, <2>3, <2>4 DEF SaidAgree, new
<1>3. "none" \in Conclusions
  BY DEF Conclusions
<1> QED  BY <1>1, <1>2, <1>3

LEMMA FileStep == TypeOK /\ FileAgrees /\ [Next]_vars => FileAgrees'
<1> SUFFICES ASSUME TypeOK, FileAgrees, [Next]_vars PROVE FileAgrees'
  OBVIOUS
<1> DEFINE ok  == failures > 0
           ok1 == failures' > 0
<1>0. /\ ok \in BOOLEAN /\ ok1 \in BOOLEAN /\ (ok => ok1) /\ (Fails => ok1)
  <2>1. failures \in Nat /\ failures' \in Nat
    BY NextType DEF TypeOK, EvidenceTypeOK
  <2>2. failures' >= failures
    <3>1. failures' = failures \/ failures' = failures + 1
      BY DEF Next, Caller, Create, Refuse, StartCheck, Conclude, Collect, Evaluate, AppendAndRecord,
             Index, Error, Restart, Reopened, Appends, Added, WriteIndex, AddThrew, Fails,
             evidenceVars, vars
    <3> QED  BY <2>1, <3>1
  <2> QED  BY <2>1, <2>2 DEF Fails
<1>1. \A n \in Ids : /\ hyps[n] \in Hypothesis /\ md[n] \in Sections /\ found[n] \in Sections
                     /\ Agrees(hyps[n], md[n], found[n], ok)
  BY AgreesMeaning DEF TypeOK
<1>2. SUFFICES \A n \in Ids : Agrees(hyps'[n], md'[n], found'[n], ok1)
  BY DEF FileAgrees, Agrees, ChecksAgree, SaidAgree, CutShort
<1> HIDE DEF ok, ok1
<1>3. ASSUME NEW h \in Hypothesis, NEW m \in Sections, NEW f \in Sections, Agrees(h, m, f, ok)
      PROVE  /\ Agrees(h, m, f, ok1)
             /\ Agrees([h EXCEPT !.known = TRUE], m, f, ok1)
             /\ \A c \in Check :
                   /\ Agrees(Checked(h, c), [m EXCEPT !["checks"] = Append(@, c)], f, ok1)
                   /\ ok1 => Agrees(Checked(h, c), [m EXCEPT !["checks"] = Append(@, NoCheck)],
                                    f, ok1)
             /\ \A c \in Conclusions :
                   /\ Agrees(Concluded(h, c), [m EXCEPT !["conclusions"] = Append(@, c)], f, ok1)
                   /\ ok1 => Agrees(Concluded(h, c), [m EXCEPT !["conclusions"] = Append(@, "none")],
                                    f, ok1)
  <2>1. /\ h.checks \in Seq(Check) /\ m.checks \in Seq(Check) /\ f.checks \in Seq(Check)
        /\ m.conclusions \in Seq(Conclusions) /\ f.conclusions \in Seq(Conclusions)
    BY DEF Hypothesis, Sections
  <2>2. /\ ChecksAgree(m.checks, f.checks, h.checks, ok1)
        /\ \A c \in Check :
              /\ ChecksAgree(Append(m.checks, c), f.checks, Append(h.checks, c), ok1)
              /\ ok1 => ChecksAgree(Append(m.checks, NoCheck), f.checks, Append(h.checks, c), ok1)
    BY <1>0, <1>3, <2>1, ChecksAgreeMore DEF Agrees
  <2>3. /\ SaidAgree(m.conclusions, f.conclusions, h.conclusion, ok1)
        /\ \A c \in Conclusions :
              /\ SaidAgree(Append(m.conclusions, c), f.conclusions, c, ok1)
              /\ ok1 => SaidAgree(Append(m.conclusions, "none"), f.conclusions, c, ok1)
    BY <1>0, <1>3, <2>1, SaidAgreeMore DEF Agrees
  <2>4. \A c : /\ Checked(h, c).checks = Append(h.checks, c)
               /\ Checked(h, c).conclusion = h.conclusion
               /\ Concluded(h, c).checks = h.checks /\ Concluded(h, c).conclusion = c
    BY DEF Checked, Concluded, Hypothesis
  <2>5. \A s : /\ [m EXCEPT !["checks"] = s].checks = s
               /\ [m EXCEPT !["checks"] = s].conclusions = m.conclusions
               /\ [m EXCEPT !["conclusions"] = s].conclusions = s
               /\ [m EXCEPT !["conclusions"] = s].checks = m.checks
    BY DEF Sections
  <2>6. [h EXCEPT !.known = TRUE].checks = h.checks
        /\ [h EXCEPT !.known = TRUE].conclusion = h.conclusion
    BY DEF Hypothesis
  <2>7. Agrees(h, m, f, ok1) /\ Agrees([h EXCEPT !.known = TRUE], m, f, ok1)
    BY <2>2, <2>3, <2>6 DEF Agrees
  <2>8. ASSUME NEW c \in Check
        PROVE  /\ Agrees(Checked(h, c), [m EXCEPT !["checks"] = Append(@, c)], f, ok1)
               /\ ok1 => Agrees(Checked(h, c), [m EXCEPT !["checks"] = Append(@, NoCheck)], f, ok1)
    <3> DEFINE k  == Checked(h, c)
               m1 == [m EXCEPT !["checks"] = Append(m.checks, c)]
               m2 == [m EXCEPT !["checks"] = Append(m.checks, NoCheck)]
    <3>1. k.checks = Append(h.checks, c) /\ k.conclusion = h.conclusion
      BY <2>4
    <3>2. /\ m1.checks = Append(m.checks, c) /\ m1.conclusions = m.conclusions
          /\ m2.checks = Append(m.checks, NoCheck) /\ m2.conclusions = m.conclusions
      BY <2>5
    <3> HIDE DEF k, m1, m2
    <3>3. Agrees(k, m1, f, ok1) /\ (ok1 => Agrees(k, m2, f, ok1))
      BY <2>2, <2>3, <3>1, <3>2 DEF Agrees
    <3> QED  BY <3>3 DEF k, m1, m2
  <2>9. ASSUME NEW c \in Conclusions
        PROVE  /\ Agrees(Concluded(h, c), [m EXCEPT !["conclusions"] = Append(@, c)], f, ok1)
               /\ ok1 => Agrees(Concluded(h, c), [m EXCEPT !["conclusions"] = Append(@, "none")],
                                f, ok1)
    BY <2>2, <2>3, <2>4, <2>5 DEF Agrees
  <2> QED  BY <2>7, <2>8, <2>9
<1>4. \A b \in BOOLEAN : Agrees(New, Blank, Blank, b)
  BY DEF Agrees, ChecksAgree, SaidAgree, New, Unknown, Blank
<1>5. \A m \in Sections, b \in BOOLEAN : Agrees(Unknown, m, m, b)
  <2>1. ASSUME NEW m \in Sections PROVE m.checks \o <<>> = m.checks
    BY DEF Sections
  <2>2. Unknown.checks = <<>> /\ Unknown.conclusion = "none"
    BY DEF Unknown
  <2> QED  BY <2>1, <2>2 DEF Agrees, ChecksAgree, SaidAgree, Sections
<1> HIDE DEF Agrees
<1>6. ASSUME UNCHANGED <<md, hyps, found>>
      PROVE \A n \in Ids : Agrees(hyps'[n], md'[n], found'[n], ok1)
  BY <1>1, <1>3, <1>6
<1>7. ASSUME NEW a, Create(a) PROVE \A n \in Ids : Agrees(hyps'[n], md'[n], found'[n], ok1)
  <2>1. CASE UNCHANGED <<md, hyps, found>>
    BY <1>6, <2>1
  <2>2. CASE /\ md' = [md EXCEPT ![Named(a)] = Blank] /\ hyps' = [hyps EXCEPT ![Named(a)] = New]
             /\ found' = [found EXCEPT ![Named(a)] = Blank]
    <3>1. ASSUME NEW n \in Ids PROVE Agrees(hyps'[n], md'[n], found'[n], ok1)
      <4>1. CASE n = Named(a)
        <5>1. hyps'[n] = New /\ md'[n] = Blank /\ found'[n] = Blank
          BY <2>2, <4>1 DEF TypeOK
        <5> QED  BY <1>0, <1>4, <5>1
      <4>2. CASE n # Named(a)
        <5>1. hyps'[n] = hyps[n] /\ md'[n] = md[n] /\ found'[n] = found[n]
          BY <2>2, <4>2 DEF TypeOK
        <5> QED  BY <1>1, <1>3, <5>1
      <4> QED  BY <4>1, <4>2
    <3> QED  BY <3>1
  <2> QED  BY <1>7, <2>1, <2>2 DEF Create
\* A section, whole or cut, and the record of n.
<1>8. ASSUME NEW n, NEW kind \in {"checks", "conclusions"}, NEW section, NEW cut, NEW h,
             Appends(n, kind, section, cut), hyps' = [hyps EXCEPT ![n] = h], UNCHANGED found,
             n \in Ids => /\ Agrees(h, [md[n] EXCEPT ![kind] = Append(@, section)], found[n], ok1)
                          /\ ok1 => Agrees(h, [md[n] EXCEPT ![kind] = Append(@, cut)], found[n], ok1)
      PROVE  \A k \in Ids : Agrees(hyps'[k], md'[k], found'[k], ok1)
  <2>1. PICK x : /\ md' = [md EXCEPT ![n][kind] = Append(@, x)]
                 /\ x = section \/ (x = cut /\ Fails)
    BY <1>8 DEF Appends
  <2>2. n \in Ids => Agrees(h, [md[n] EXCEPT ![kind] = Append(@, x)], found[n], ok1)
    BY <1>0, <1>8, <2>1
  <2> DEFINE m == [md[n] EXCEPT ![kind] = Append(@, x)]
  <2>3. md' = [md EXCEPT ![n] = m]
    BY <2>1
  <2> HIDE DEF m
  <2>4. ASSUME NEW k \in Ids PROVE Agrees(hyps'[k], md'[k], found'[k], ok1)
    <3>1. CASE k = n
      <4>1. hyps'[k] = h /\ md'[k] = m /\ found'[k] = found[n]
        BY <1>8, <2>3, <3>1 DEF TypeOK
      <4> QED  BY <2>2, <3>1, <4>1 DEF m
    <3>2. CASE k # n
      <4>1. hyps'[k] = hyps[k] /\ md'[k] = md[k] /\ found'[k] = found[k]
        BY <1>8, <2>3, <3>2 DEF TypeOK
      <4> QED  BY <1>1, <1>3, <4>1
    <3> QED  BY <3>1, <3>2
  <2> QED  BY <2>4
<1>9. ASSUME NEW a \in Ask, Conclude(a)
      PROVE \A n \in Ids : Agrees(hyps'[n], md'[n], found'[n], ok1)
  <2> DEFINE h == Concluded(hyps[a.id], a.conclusion)
  <2>1. a.id \in Ids /\ a.conclusion \in Conclusions
    BY <1>9 DEF Conclude, Ask
  <2>2. /\ Agrees(h, [md[a.id] EXCEPT !["conclusions"] = Append(@, a.conclusion)], found[a.id], ok1)
        /\ ok1 => Agrees(h, [md[a.id] EXCEPT !["conclusions"] = Append(@, "none")],
                         found[a.id], ok1)
    BY <1>1, <1>3, <2>1
  <2>3. \/ UNCHANGED <<md, hyps, found>>
        \/ /\ Appends(a.id, "conclusions", a.conclusion, "none") /\ UNCHANGED found
           /\ hyps' = [hyps EXCEPT ![a.id] = h]
    BY <1>9 DEF Conclude
  <2> HIDE DEF h
  <2> QED  BY <1>6, <1>8, <2>2, <2>3
<1>10. CASE AppendAndRecord
  <2> DEFINE n == ask.id
             h == Checked(hyps[n], check)
             k == [hyps[n] EXCEPT !.known = TRUE]
  <2>1. check \in Check
    BY DEF TypeOK
  <2>2. n \in Ids => /\ Agrees(h, [md[n] EXCEPT !["checks"] = Append(@, check)], found[n], ok1)
                     /\ ok1 => Agrees(h, [md[n] EXCEPT !["checks"] = Append(@, NoCheck)],
                                      found[n], ok1)
                     /\ Agrees(k, md[n], found[n], ok1)
    BY <1>1, <1>3, <2>1
  <2>3. \/ /\ Appends(n, "checks", check, NoCheck) /\ UNCHANGED found
           /\ hyps' = [hyps EXCEPT ![n] = h]
        \/ hyps' = [hyps EXCEPT ![n] = k] /\ md' = md /\ found' = found
    BY <1>10 DEF AppendAndRecord
  <2> HIDE DEF h, k
  <2>4. CASE Appends(n, "checks", check, NoCheck) /\ UNCHANGED found
             /\ hyps' = [hyps EXCEPT ![n] = h]
    BY <1>8, <2>2, <2>4
  <2>5. CASE hyps' = [hyps EXCEPT ![n] = k] /\ md' = md /\ found' = found
    <3>1. ASSUME NEW j \in Ids PROVE Agrees(hyps'[j], md'[j], found'[j], ok1)
      <4>1. hyps'[j] = IF j = n THEN k ELSE hyps[j]
        BY <2>5 DEF TypeOK
      <4> QED  BY <1>1, <1>3, <2>2, <2>5, <4>1
    <3> QED  BY <3>1
  <2> QED  BY <2>3, <2>4, <2>5
<1>11. CASE Restart
  <2>1. ASSUME NEW n \in Ids PROVE Agrees(hyps'[n], md'[n], found'[n], ok1)
    <3>1. hyps'[n] = Unknown /\ md'[n] = md[n] /\ found'[n] = md[n]
      BY <1>11 DEF Restart
    <3> QED  BY <1>0, <1>1, <1>5, <3>1
  <2> QED  BY <2>1
<1>12. (\E a : Refuse(a) \/ StartCheck(a)) \/ Collect \/ Evaluate \/ Index \/ Error
       \/ UNCHANGED vars => UNCHANGED <<md, hyps, found>>
  BY DEF Refuse, StartCheck, Collect, Evaluate, Index, Error, vars, storeVars
<1>13. calls < Len(Asks) => Asks[calls + 1] \subseteq Ask
  BY HypothesesAssumption DEF TypeOK
<1> QED  BY <1>6, <1>7, <1>9, <1>10, <1>11, <1>12, <1>13 DEF Next, Caller

\* The Markdown file of a hypothesis has what the session found in it and then the
\* checks of its record, in order, and its last conclusion, whichever writes threw;
\* a section is missing only where its write was cut short.
THEOREM FileIsRecord == Spec => []FileAgrees
<1>1. Init => FileAgrees
  BY DEF Init, Unknown, Blank, FileAgrees
<1> QED  BY <1>1, FileStep, TypeCorrect, PTL DEF Spec

-------------------------------------------------------------------------------
(* The index *)

\* What is in memory is not in the index only between the two, or because a write
\* has failed and none of the index has succeeded since.
IndexKept ==
    /\ pc # "index" /\ failures = 0 =>
           index = hyps \/ (indexIs = "found" /\ \A n \in Ids : ~hyps[n].known)
    /\ pc = "idle" /\ answer = "ok" => index = hyps \/ indexIs = "cut"

LEMMA IndexStep == TypeOK /\ IndexKept /\ [Next]_vars => IndexKept'
<1> SUFFICES ASSUME TypeOK, IndexKept, [Next]_vars PROVE IndexKept'
  OBVIOUS
<1> USE DEF Goes, Answers
<1>0. failures \in Nat /\ (Fails => failures' # 0)
  BY DEF TypeOK, EvidenceTypeOK, Fails
<1>1. ASSUME NEW a, Create(a) PROVE IndexKept'
  BY <1>0, <1>1 DEF Create, Asked, IndexKept
<1>2. ASSUME NEW a, Refuse(a) PROVE IndexKept'
  BY <1>2 DEF Refuse, Asked, IndexKept, evidenceVars, storeVars
<1>3. ASSUME NEW a, StartCheck(a) PROVE IndexKept'
  BY <1>3 DEF StartCheck, Asked, IndexKept, evidenceVars, storeVars
<1>4. ASSUME NEW a, Conclude(a) PROVE IndexKept'
  BY <1>0, <1>4 DEF Conclude, Asked, IndexKept
<1>5. ASSUME pc # "index", pc' # "index", UNCHANGED <<hyps, index, indexIs>>,
             failures' = 0 => failures = 0, pc' = "idle" => answer' # "ok"
      PROVE  IndexKept'
  BY <1>5 DEF IndexKept
<1>6. \A kind, of : Added(kind, of) \/ AddThrew(kind, of) => (failures' = 0 => failures = 0)
  BY <1>0 DEF Added, WriteIndex, AddThrew, Fails
<1>7. CASE Collect
  BY <1>5, <1>6, <1>7 DEF Collect, storeVars
<1>8. CASE Evaluate
  <2>1. failures' = 0 => failures = 0
    BY <1>6, <1>8 DEF Evaluate, evidenceVars
  <2> QED  BY <1>5, <1>8, <2>1 DEF Evaluate, storeVars
<1>9. CASE Error
  BY <1>5, <1>6, <1>9 DEF Error, storeVars
<1>10. CASE AppendAndRecord
  <2>1. CASE pc' = "index"
    BY <1>10, <2>1 DEF IndexKept
  <2>2. CASE pc' # "index"
    BY <1>0, <1>10, <2>2 DEF AppendAndRecord, IndexKept
  <2> QED  BY <2>1, <2>2
<1>11. CASE Index
  BY <1>0, <1>11 DEF Index, IndexKept
<1>12. CASE Restart
  BY <1>12 DEF Restart, Unknown, IndexKept
<1>13. CASE UNCHANGED vars
  BY <1>13 DEF vars, IndexKept
<1> QED  BY <1>1, <1>2, <1>3, <1>4, <1>7, <1>8, <1>9, <1>10, <1>11, <1>12, <1>13
         DEF Next, Caller

\* An action answered with a success leaves the index as the memory is, also when
\* the index of an earlier action could not be written, unless its own write of it
\* was cut short.
THEOREM IndexIsCurrent == Spec => []IndexCurrent
<1>1. Init => IndexKept
  BY DEF Init, Unknown, IndexKept
<1>2. IndexKept => IndexCurrent
  BY DEF IndexKept, IndexCurrent
<1> QED  BY <1>1, <1>2, IndexStep, TypeCorrect, PTL DEF Spec

-------------------------------------------------------------------------------
(* The evidence of checks *)

Collected == Documented(check.evidence, {"GdbCommand"}, check.by)

\* The check being made belongs to the call in progress, and its evidence is there
\* from the moment it names it.
CheckInv ==
    /\ pc = "command" => check.by = calls /\ check.error = 0
    /\ pc = "evaluate" => check.by = calls /\ check.error = 0 /\ Collected
    /\ pc = "append" => CheckDocumented(check)

LEMMA EvidenceKept ==
    ASSUME [Next]_vars, ~Restart
    PROVE  Listed \subseteq Listed'
<1> USE DEF evidenceVars
<1>1. (\E a : Create(a) \/ Refuse(a) \/ StartCheck(a) \/ Conclude(a)) \/ AppendAndRecord
      \/ Index \/ UNCHANGED vars => UNCHANGED <<items, indexed, indexCut>>
  BY DEF Create, Refuse, StartCheck, Conclude, AppendAndRecord, Index, vars
<1>2. UNCHANGED <<items, indexed, indexCut>> => Listed \subseteq Listed'
  BY DEF Listed
<1>3. CASE Collect
  BY <1>3, AddedKeeps, AddThrewKeeps DEF Collect
<1>4. CASE Evaluate
  BY <1>2, <1>4, AddedKeeps, AddThrewKeeps DEF Evaluate
<1>5. CASE Error
  BY <1>5, AddedKeeps, AddThrewKeeps DEF Error
<1> QED  BY <1>1, <1>2, <1>3, <1>4, <1>5 DEF Next, Caller

\* A check, and all those of a record, for a given list of items.
Doc(c, its) ==
    /\ \E i \in its : i.id = c.evidence /\ i.kind = "GdbCommand" /\ i.of = c.by
    /\ c.status = "unknown" =>
           \E i \in its : i.id = c.error /\ i.kind = "ToolError" /\ i.of = c.by
    /\ c.status # "unknown" => c.error = 0

AllDoc(h, its) == \A i \in DOMAIN h.checks : Doc(h.checks[i], its)

LEMMA DocMeaning ==
    /\ \A c : CheckDocumented(c) <=> Doc(c, Listed)
    /\ ChecksDocumented <=>
           \A n \in Ids : AllDoc(hyps[n], Listed) /\ (indexIs = "written" => AllDoc(index[n], Listed))
<1>1. \A c : CheckDocumented(c) <=> Doc(c, Listed)
  BY DEF CheckDocumented, Doc, Documented
<1> QED  BY <1>1 DEF ChecksDocumented, AllDoc

LEMMA CheckedDoc ==
    ASSUME NEW h \in Hypothesis, NEW c \in Check, NEW its,
           AllDoc(h, its), Doc(c, its)
    PROVE  AllDoc(Checked(h, c), its)
<1>1. h.checks \in Seq(Check) /\ Checked(h, c).checks = Append(h.checks, c)
  BY DEF Checked, Hypothesis
<1>2. \A i \in DOMAIN Append(h.checks, c) :
          \/ i \in DOMAIN h.checks /\ Append(h.checks, c)[i] = h.checks[i]
          \/ Append(h.checks, c)[i] = c
  BY <1>1
<1> QED  BY <1>1, <1>2 DEF AllDoc

LEMMA CheckStep ==
    TypeOK /\ CheckInv /\ ChecksDocumented /\ [Next]_vars => CheckInv' /\ ChecksDocumented'
<1> SUFFICES ASSUME TypeOK, CheckInv, ChecksDocumented, [Next]_vars
             PROVE  CheckInv' /\ ChecksDocumented'
  OBVIOUS
<1> USE DEF Goes, Answers, evidenceVars, storeVars
<1>0. CASE Restart
  <2>1. pc' = "idle" /\ hyps' = [n \in Ids |-> Unknown] /\ indexIs' = "found"
    BY <1>0 DEF Restart
  <2> QED  BY <2>1 DEF CheckInv, ChecksDocumented, Unknown
<1> SUFFICES ASSUME ~Restart PROVE CheckInv' /\ ChecksDocumented'
  BY <1>0
<1>1. Listed \subseteq Listed'
  BY EvidenceKept
<1>2. CheckInv'
  <2>1. ASSUME NEW a, Create(a) \/ Refuse(a) \/ StartCheck(a) \/ Conclude(a) PROVE CheckInv'
    <3>1. CASE StartCheck(a)
      <4>1. check'.by = calls' /\ check'.error = 0
        BY <3>1 DEF StartCheck, NoCheck
      <4> QED  BY <1>1, <3>1, <4>1 DEF StartCheck, Asked, CheckInv
    <3>2. CASE Create(a) \/ Refuse(a) \/ Conclude(a)
      BY <1>1, <3>2 DEF Create, Refuse, Conclude, Asked, CheckInv
    <3> QED  BY <2>1, <3>1, <3>2
  <2>2. CASE Collect
    <3>1. CASE pc' # "evaluate"
      BY <1>1, <2>2, <3>1 DEF Collect, CheckInv
    <3>2. CASE pc' = "evaluate"
      <4>1. PICK t : Added("GdbCommand", calls)
                     /\ check' = [check EXCEPT !.observed = t, !.evidence = counter']
        BY <2>2, <3>2 DEF Collect
      <4>2. check'.by = calls /\ check'.error = 0 /\ check'.evidence = counter'
        BY <2>2, <4>1 DEF Collect, CheckInv, TypeOK, Check
      <4>3. \E i \in Listed' : i.id = counter' /\ i.kind = "GdbCommand" /\ i.of = calls
        BY <4>1, AddedKeeps
      <4>4. Collected'
        BY <4>2, <4>3 DEF Collected, Documented
      <4> QED  BY <1>1, <2>2, <3>2, <4>2, <4>4 DEF Collect, CheckInv
    <3> QED  BY <3>1, <3>2
  <2>3. CASE Evaluate
    <3>1. CASE pc' # "append"
      BY <1>1, <2>3, <3>1 DEF Evaluate, CheckInv
    <3>2. CASE pc' = "append"
      <4>1. check.by = calls /\ check.error = 0 /\ Collected
        BY <2>3 DEF Evaluate, CheckInv
      <4>2. PICK v : \/ v # "unknown" /\ check' = [check EXCEPT !.status = v]
                     \/ /\ v = "unknown" /\ Added("ToolError", calls)
                        /\ check' = [check EXCEPT !.status = v, !.error = counter']
        BY <2>3, <3>2 DEF Evaluate
      <4>3. check'.by = check.by /\ check'.evidence = check.evidence /\ check'.status = v
        BY <4>2 DEF TypeOK, Check
      <4>4. v = "unknown" =>
                /\ check'.error = counter'
                /\ \E i \in Listed' : i.id = counter' /\ i.kind = "ToolError" /\ i.of = calls
        <5>1. v = "unknown" => check'.error = counter'
          BY <4>2 DEF TypeOK, Check
        <5>2. v = "unknown" => Added("ToolError", calls)
          BY <4>2
        <5> QED  BY <5>1, <5>2, AddedKeeps
      <4>5. v # "unknown" => check'.error = 0
        BY <4>1, <4>2 DEF TypeOK, Check
      <4>6. CheckDocumented(check)'
        BY <1>1, <4>1, <4>3, <4>4, <4>5 DEF CheckDocumented, Documented, Collected
      <4> QED  BY <1>1, <3>2, <4>6 DEF CheckInv
    <3> QED  BY <3>1, <3>2
  <2>4. CASE AppendAndRecord \/ Index \/ Error
    BY <1>1, <2>4 DEF AppendAndRecord, Index, Error, CheckInv
  <2>5. CASE UNCHANGED vars
    BY <1>1, <2>5 DEF vars, CheckInv, CheckDocumented, Documented, Collected, Listed
  <2> QED  BY <2>1, <2>2, <2>3, <2>4, <2>5 DEF Next, Caller
<1>3. ChecksDocumented'
  <2> DEFINE Now(h)  == AllDoc(h, Listed)
             Next1(h) == AllDoc(h, Listed')
  <2>1. \A h : Now(h) => Next1(h)
    BY <1>1 DEF AllDoc, Doc
  <2>2. \A n \in Ids : hyps[n] \in Hypothesis /\ Now(hyps[n])
                     /\ (indexIs = "written" => Now(index[n]))
    BY DocMeaning DEF TypeOK
  <2>3. ASSUME \A n \in Ids : Next1(hyps'[n]) /\ (indexIs' = "written" => Next1(index'[n]))
        PROVE ChecksDocumented'
    BY <2>3 DEF ChecksDocumented, CheckDocumented, Documented, AllDoc, Doc
  <2> HIDE DEF Now, Next1
  <2>4. ASSUME UNCHANGED <<hyps, index, indexIs>> PROVE ChecksDocumented'
    BY <2>1, <2>2, <2>3, <2>4
  <2>5. Next1(New)
    BY DEF Next1, AllDoc, New, Unknown
  <2>6. \A h \in Hypothesis : \A c : Next1(h) => Next1(Concluded(h, c)) /\ Next1([h EXCEPT !.known = TRUE])
    BY DEF Next1, AllDoc, Concluded, Hypothesis
  <2>7. ASSUME NEW a, Create(a) PROVE ChecksDocumented'
    BY <2>1, <2>2, <2>3, <2>5, <2>7 DEF Create, TypeOK
  <2>8. ASSUME NEW a, Conclude(a) PROVE ChecksDocumented'
    <3>1. CASE hyps' = [hyps EXCEPT ![a.id] = Concluded(hyps[a.id], a.conclusion)]
      <4>1. a.id \in Ids => Next1(Concluded(hyps[a.id], a.conclusion))
        BY <2>1, <2>2, <2>6
      <4> QED  BY <2>1, <2>2, <2>3, <2>8, <3>1, <4>1 DEF Conclude, TypeOK
    <3> QED  BY <2>4, <2>8, <3>1 DEF Conclude
  <2>9. CASE AppendAndRecord
    <3> DEFINE n == ask.id
    <3>1. Doc(check, Listed')
      BY <1>1, <2>9, DocMeaning DEF AppendAndRecord, CheckInv, Doc
    <3>2. n \in Ids => Next1(Checked(hyps[n], check)) /\ Next1([hyps[n] EXCEPT !.known = TRUE])
      BY <2>1, <2>2, <2>6, <3>1, CheckedDoc DEF Next1, TypeOK
    <3>3. \/ hyps' = [hyps EXCEPT ![n] = Checked(hyps[n], check)]
          \/ hyps' = [hyps EXCEPT ![n] = [hyps[n] EXCEPT !.known = TRUE]]
      BY <2>9 DEF AppendAndRecord
    <3>4. index' = index /\ indexIs' = indexIs
      BY <2>9 DEF AppendAndRecord
    <3> QED  BY <2>1, <2>2, <2>3, <3>2, <3>3, <3>4 DEF TypeOK
  <2>10. CASE Index
    BY <2>1, <2>2, <2>3, <2>10 DEF Index
  <2>11. (\E a : Refuse(a) \/ StartCheck(a)) \/ Collect \/ Evaluate \/ Error
         \/ UNCHANGED vars => UNCHANGED <<hyps, index, indexIs>>
    BY DEF Refuse, StartCheck, Collect, Evaluate, Error, vars, storeVars
  <2> QED  BY <2>4, <2>7, <2>8, <2>9, <2>10, <2>11 DEF Next, Caller
<1> QED  BY <1>2, <1>3

\* Every check, in memory and in the index, names the evidence of its own command,
\* and one that could not be evaluated a ToolError of its own, whatever failed,
\* as far as the index has not been cut short.
THEOREM ChecksAreDocumented == Spec => []ChecksDocumented
<1>1. Init => CheckInv /\ ChecksDocumented
  BY DEF Init, Unknown, CheckInv, ChecksDocumented
<1> QED  BY <1>1, CheckStep, TypeCorrect, PTL DEF Spec

-------------------------------------------------------------------------------
(* Induction *)

\* A set of naturals with 0 and with the successor of each is all of them.
LEMMA SetInduction ==
    ASSUME NEW T \in SUBSET Nat, 0 \in T, \A n \in T : n + 1 \in T
    PROVE  T = Nat
<1> SUFFICES ASSUME Nat \ T # {} PROVE FALSE
  OBVIOUS
<1>1. PICK m \in Nat \ T : \A k \in Nat \ T : <<k, m>> \notin OpToRel(<, Nat)
  <2>1. IsWellFoundedOn(OpToRel(<, Nat), Nat)
    BY NatLessThanWellFounded
  <2> QED  BY <2>1, WFMin
<1>2. m # 0 /\ m - 1 \in Nat /\ m - 1 < m
  OBVIOUS
<1>3. <<m - 1, m>> \in OpToRel(<, Nat)
  BY <1>2 DEF OpToRel
<1>4. m - 1 \in T
  BY <1>1, <1>2, <1>3
<1>5. m - 1 + 1 = m
  OBVIOUS
<1> QED  BY <1>4, <1>5

-------------------------------------------------------------------------------
(* The text of pieces *)

Space == S("space", 0)
Kinds == {"digits", "hex", "letters", "nullptr", "nil", "$", "-", "=", "space", ".", ".."}
Symbols == [k : Kinds, v : Int]

\* A text, and another after a space.
Spaced(s, t) == s \o <<Space>> \o t

LEMMA JoinedIs ==
    ASSUME NEW f, NEW pieces
    PROVE  /\ Joined(f, pieces, 0) = <<>>
           /\ Joined(f, pieces, 1) = Printed(pieces[1])
           /\ \A n \in Nat : n > 1 => Joined(f, pieces, n) = Spaced(f[n - 1], Printed(pieces[n]))
<1>1. Joined(f, pieces, 0) = <<>>
  BY DEF Joined
<1>2. Joined(f, pieces, 1) = Printed(pieces[1])
  BY DEF Joined
<1>3. ASSUME NEW n \in Nat, n > 1
      PROVE  Joined(f, pieces, n) = Spaced(f[n - 1], Printed(pieces[n]))
  <2>1. n # 0 /\ n # 1
    BY <1>3
  <2> QED  BY <1>3, <2>1 DEF Joined, Spaced, Space
<1> QED  BY <1>1, <1>2, <1>3

\* upto of Rendered().
Upto(pieces) == CHOOSE f : f = [n \in 0 .. Len(pieces) |-> Joined(f, pieces, n)]

\* The recursive function there is, so that Rendered() is its last value.
LEMMA UptoExists ==
    ASSUME NEW pieces
    PROVE  \A n \in Nat : \E f : f = [m \in 0 .. n |-> Joined(f, pieces, m)]
<1> DEFINE T == {n \in Nat : \E f : f = [m \in 0 .. n |-> Joined(f, pieces, m)]}
<1>1. 0 \in T
  <2> DEFINE f == [m \in 0 .. 0 |-> Joined(<<>>, pieces, m)]
  <2>1. \A g, h : Joined(g, pieces, 0) = Joined(h, pieces, 0)
    BY DEF Joined
  <2>2. f = [m \in 0 .. 0 |-> Joined(f, pieces, m)]
    <3> HIDE DEF f
    <3>1. \A m \in 0 .. 0 : Joined(<<>>, pieces, m) = Joined(f, pieces, m)
      BY <2>1
    <3> QED  BY <3>1 DEF f
  <2> QED  BY <2>2
<1>2. ASSUME NEW n \in T PROVE n + 1 \in T
  <2>1. PICK f : f = [m \in 0 .. n |-> Joined(f, pieces, m)]
    OBVIOUS
  <2> DEFINE g == [m \in 0 .. n + 1 |-> IF m \in 0 .. n THEN f[m] ELSE Joined(f, pieces, m)]
  <2>2. \A m \in 0 .. n + 1 : m > 0 => g[m - 1] = f[m - 1]
    OBVIOUS
  <2> HIDE DEF g
  <2>3. ASSUME NEW m \in 0 .. n + 1 PROVE Joined(f, pieces, m) = Joined(g, pieces, m)
    <3>1. CASE m = 0
      BY <3>1, JoinedIs
    <3>2. CASE m = 1
      BY <3>2, JoinedIs
    <3>3. CASE m > 1
      <4>1. m \in Nat /\ g[m - 1] = f[m - 1]
        BY <2>2, <3>3
      <4>2. Joined(f, pieces, m) = Spaced(f[m - 1], Printed(pieces[m]))
        BY <3>3, <4>1, JoinedIs
      <4>3. Joined(g, pieces, m) = Spaced(g[m - 1], Printed(pieces[m]))
        BY <3>3, <4>1, JoinedIs
      <4> QED  BY <4>1, <4>2, <4>3
    <3> QED  BY <3>1, <3>2, <3>3
  <2>4. \A m \in 0 .. n : f[m] = Joined(f, pieces, m)
    BY <2>1
  <2>5. g = [m \in 0 .. n + 1 |-> Joined(g, pieces, m)]
    BY <2>3, <2>4 DEF g
  <2> QED  BY <2>5
<1>3. T = Nat
  <2> HIDE DEF T
  <2>1. T \in SUBSET Nat
    BY DEF T
  <2> QED  BY <1>1, <1>2, <2>1, SetInduction
<1> QED  BY <1>3

LEMMA UptoIs ==
    ASSUME NEW pieces \in Seq(Piece)
    PROVE  /\ Rendered(pieces) = Upto(pieces)[Len(pieces)]
           /\ Upto(pieces)[0] = <<>>
           /\ Len(pieces) > 0 => Upto(pieces)[1] = Printed(pieces[1])
           /\ \A n \in 2 .. Len(pieces) :
                  Upto(pieces)[n] = Spaced(Upto(pieces)[n - 1], Printed(pieces[n]))
<1>1. Rendered(pieces) = Upto(pieces)[Len(pieces)]
  BY DEF Rendered, Upto
<1>2. Upto(pieces) = [n \in 0 .. Len(pieces) |-> Joined(Upto(pieces), pieces, n)]
  <2>1. Len(pieces) \in Nat
    OBVIOUS
  <2>2. \E f : f = [m \in 0 .. Len(pieces) |-> Joined(f, pieces, m)]
    BY <2>1, UptoExists
  <2> QED  BY <2>2 DEF Upto
<1>3. Len(pieces) \in Nat
  OBVIOUS
<1>4. \A n \in 0 .. Len(pieces) : Upto(pieces)[n] = Joined(Upto(pieces), pieces, n)
  BY <1>2
<1> HIDE <1>2
<1>5. Upto(pieces)[0] = <<>>
  BY <1>3, <1>4, JoinedIs
<1>6. Len(pieces) > 0 => Upto(pieces)[1] = Printed(pieces[1])
  BY <1>3, <1>4, JoinedIs
<1>7. \A n \in 2 .. Len(pieces) :
          Upto(pieces)[n] = Spaced(Upto(pieces)[n - 1], Printed(pieces[n]))
  BY <1>3, <1>4, JoinedIs
<1> QED  BY <1>1, <1>5, <1>6, <1>7

-------------------------------------------------------------------------------
(* What is found in two texts with a space between them *)

LEMMA SpacedParts ==
    ASSUME NEW s \in Seq(Symbols), NEW t \in Seq(Symbols)
    PROVE  /\ Spaced(s, t) \in Seq(Symbols)
           /\ Len(Spaced(s, t)) = Len(s) + 1 + Len(t)
           /\ \A i \in 1 .. Len(s) : Spaced(s, t)[i] = s[i]
           /\ Spaced(s, t)[Len(s) + 1] = Space
           /\ \A j \in 1 .. Len(t) : Spaced(s, t)[Len(s) + 1 + j] = t[j]
<1>1. Space \in Symbols
  BY DEF Space, S, Symbols, Kinds
<1> HIDE DEF Space, Symbols
<1>2. <<Space>> \in Seq(Symbols) /\ Len(<<Space>>) = 1 /\ <<Space>>[1] = Space
  BY <1>1
<1> DEFINE u == s \o <<Space>>
<1>3. /\ u \in Seq(Symbols) /\ Len(u) = Len(s) + 1
      /\ \A i \in 1 .. Len(s) : u[i] = s[i]
      /\ u[Len(s) + 1] = Space
  BY <1>1, <1>2
<1> HIDE DEF u
<1>4. /\ u \o t \in Seq(Symbols) /\ Len(u \o t) = Len(u) + Len(t)
      /\ \A i \in 1 .. Len(u) : (u \o t)[i] = u[i]
      /\ \A j \in 1 .. Len(t) : (u \o t)[Len(u) + j] = t[j]
  BY <1>3
<1>5. Spaced(s, t) = u \o t
  BY DEF Spaced, u
<1> QED  BY <1>3, <1>4, <1>5

\* A space is none of K.
LEMMA SpacedIs ==
    ASSUME NEW s \in Seq(Symbols), NEW t \in Seq(Symbols), NEW K, "space" \notin K
    PROVE  /\ \A i \in Int : i <= Len(s) + 1 => (Is(Spaced(s, t), i, K) <=> Is(s, i, K))
           /\ \A j \in Int : j >= 0 => (Is(Spaced(s, t), Len(s) + 1 + j, K) <=> Is(t, j, K))
<1> DEFINE u == Spaced(s, t)
<1>1. /\ u \in Seq(Symbols) /\ Len(u) = Len(s) + 1 + Len(t)
      /\ \A i \in 1 .. Len(s) : u[i] = s[i]
      /\ u[Len(s) + 1] = Space
      /\ \A j \in 1 .. Len(t) : u[Len(s) + 1 + j] = t[j]
  BY SpacedParts
<1>2. Space.k \notin K
  BY DEF Space, S
<1> HIDE DEF u
<1>3. Len(s) \in Nat /\ Len(t) \in Nat /\ DOMAIN s = 1 .. Len(s) /\ DOMAIN t = 1 .. Len(t)
      /\ DOMAIN u = 1 .. Len(s) + 1 + Len(t)
  BY <1>1
<1>4. ASSUME NEW i \in Int, i <= Len(s) + 1 PROVE Is(u, i, K) <=> Is(s, i, K)
  <2>1. CASE i \in 1 .. Len(s)
    BY <1>1, <1>3, <2>1 DEF Is
  <2>2. CASE i = Len(s) + 1
    BY <1>1, <1>2, <1>3, <2>2 DEF Is
  <2>3. CASE i <= 0
    BY <1>3, <2>3 DEF Is
  <2> QED  BY <1>3, <1>4, <2>1, <2>2, <2>3
<1>5. ASSUME NEW j \in Int, j >= 0 PROVE Is(u, Len(s) + 1 + j, K) <=> Is(t, j, K)
  <2>1. CASE j \in 1 .. Len(t)
    <3>1. u[Len(s) + 1 + j] = t[j] /\ j \in DOMAIN t
      BY <1>1, <1>3, <2>1
    <3>2. Len(s) + 1 + j \in DOMAIN u
      BY <1>3, <2>1
    <3> QED  BY <3>1, <3>2 DEF Is
  <2>2. CASE j = 0
    BY <1>1, <1>2, <1>3, <2>2 DEF Is
  <2>3. CASE j > Len(t)
    BY <1>3, <2>3 DEF Is
  <2> QED  BY <1>3, <1>5, <2>1, <2>2, <2>3
<1> QED  BY <1>4, <1>5 DEF u

\* Where in the text of two with a space between them: in one or the other.
LEMMA SpacedPlaces ==
    ASSUME NEW s \in Seq(Symbols), NEW t \in Seq(Symbols)
    PROVE  /\ DOMAIN Spaced(s, t) = 1 .. Len(s) + 1 + Len(t)
           /\ \A i \in DOMAIN Spaced(s, t) :
                  i \in DOMAIN s \/ i = Len(s) + 1 \/ \E j \in DOMAIN t : i = Len(s) + 1 + j
           /\ \A i \in DOMAIN s : i \in DOMAIN Spaced(s, t) /\ i \in Int /\ i <= Len(s) + 1
           /\ \A j \in DOMAIN t : Len(s) + 1 + j \in DOMAIN Spaced(s, t) /\ j \in Int /\ j > 0
<1>1. Spaced(s, t) \in Seq(Symbols) /\ Len(Spaced(s, t)) = Len(s) + 1 + Len(t)
  BY SpacedParts
<1>2. Len(s) \in Nat /\ Len(t) \in Nat /\ DOMAIN s = 1 .. Len(s) /\ DOMAIN t = 1 .. Len(t)
      /\ DOMAIN Spaced(s, t) = 1 .. Len(s) + 1 + Len(t)
  BY <1>1
<1>3. ASSUME NEW i \in DOMAIN Spaced(s, t), i \notin DOMAIN s, i # Len(s) + 1
      PROVE  \E j \in DOMAIN t : i = Len(s) + 1 + j
  <2>1. i - Len(s) - 1 \in DOMAIN t /\ i = Len(s) + 1 + (i - Len(s) - 1)
    BY <1>2, <1>3
  <2> QED  BY <2>1
<1> QED  BY <1>2, <1>3

LEMMA SpacedAt ==
    ASSUME NEW s \in Seq(Symbols), NEW t \in Seq(Symbols)
    PROVE  /\ \A i \in DOMAIN s : Spaced(s, t)[i] = s[i]
           /\ Spaced(s, t)[Len(s) + 1].k = "space"
           /\ \A j \in DOMAIN t : Spaced(s, t)[Len(s) + 1 + j] = t[j]
<1>1. DOMAIN s = 1 .. Len(s) /\ DOMAIN t = 1 .. Len(t)
  OBVIOUS
<1>2. Space.k = "space"
  BY DEF Space, S
<1>3. ASSUME NEW i \in DOMAIN s PROVE Spaced(s, t)[i] = s[i]
  <2>1. i \in 1 .. Len(s)
    BY <1>1
  <2> QED  BY <2>1, SpacedParts
<1>4. Spaced(s, t)[Len(s) + 1].k = "space"
  BY <1>2, SpacedParts
<1>5. ASSUME NEW j \in DOMAIN t PROVE Spaced(s, t)[Len(s) + 1 + j] = t[j]
  <2>1. j \in 1 .. Len(t)
    BY <1>1
  <2> QED  BY <2>1, SpacedParts
<1> QED  BY <1>3, <1>4, <1>5

\* No match reaches over the space, and none ends because of the other text.
LEMMA SpacedNumeric ==
    ASSUME NEW s \in Seq(Symbols), NEW t \in Seq(Symbols)
    PROVE  /\ \A i \in DOMAIN s : /\ NumericAt(Spaced(s, t), i) <=> NumericAt(s, i)
                                  /\ Value(Spaced(s, t), i) = Value(s, i)
           /\ ~NumericAt(Spaced(s, t), Len(s) + 1)
           /\ \A j \in DOMAIN t : /\ NumericAt(Spaced(s, t), Len(s) + 1 + j) <=> NumericAt(t, j)
                                  /\ Value(Spaced(s, t), Len(s) + 1 + j) = Value(t, j)
<1> DEFINE u == Spaced(s, t)
           m == Len(s) + 1
<1>1. Len(s) \in Nat /\ m \in Int
  OBVIOUS
<1>2. ASSUME NEW K \in {{"digits", "hex"}, {"$"}, {"-"}, Alnum}
      PROVE  /\ \A i \in Int : i <= m => (Is(u, i, K) <=> Is(s, i, K))
             /\ \A j \in Int : j >= 0 => (Is(u, m + j, K) <=> Is(t, j, K))
  <2>1. "space" \notin K
    BY DEF Alnum
  <2> QED  BY <2>1, SpacedIs
<1>3. ASSUME NEW i \in DOMAIN s PROVE u[i] = s[i] /\ i \in Int /\ 1 <= i /\ i + 1 <= m
  <2>1. i \in 1 .. Len(s)
    BY <1>3
  <2>2. u[i] = s[i]
    BY <2>1, SpacedParts
  <2> QED  BY <1>1, <2>1, <2>2
<1>4. ASSUME NEW j \in DOMAIN t PROVE u[m + j] = t[j] /\ j \in Int /\ j >= 1
  <2>1. j \in 1 .. Len(t)
    BY <1>4
  <2>2. u[m + j] = t[j]
    BY <2>1, SpacedParts
  <2> QED  BY <2>1, <2>2
<1> HIDE DEF u, m
<1>5. ASSUME NEW i \in DOMAIN s
      PROVE  (NumericAt(u, i) <=> NumericAt(s, i)) /\ Value(u, i) = Value(s, i)
  <2>1. i \in Int /\ i - 1 \in Int /\ i - 2 \in Int /\ i + 1 \in Int
        /\ i <= m /\ i - 1 <= m /\ i - 2 <= m /\ i + 1 <= m /\ i - 1 - 1 = i - 2
    BY <1>1, <1>3
  <2>2. Is(u, i - 1, {"-"}) <=> Is(s, i - 1, {"-"})
    BY <1>2, <2>1
  <2>3. Start(u, i) = Start(s, i) /\ Value(u, i) = Value(s, i)
    BY <1>3, <2>2 DEF Start, Value
  <2>4. Start(s, i) \in {i - 1, i} /\ Start(s, i) - 1 \in {i - 2, i - 1}
    BY <2>1 DEF Start
  <2>5. Apart(u, Start(s, i), i) <=> Apart(s, Start(s, i), i)
    BY <1>2, <2>1, <2>4 DEF Apart
  <2>6. Is(u, Start(s, i) - 1, {"$"}) <=> Is(s, Start(s, i) - 1, {"$"})
    BY <1>2, <2>1, <2>4
  <2>7. Is(u, i, {"digits", "hex"}) <=> Is(s, i, {"digits", "hex"})
    BY <1>2, <2>1
  <2> QED  BY <2>3, <2>5, <2>6, <2>7 DEF NumericAt
<1>6. ~NumericAt(u, m)
  <2>1. ~Is(s, m, {"digits", "hex"}) /\ m <= m
    BY <1>1 DEF Is, m
  <2> QED  BY <1>1, <1>2, <2>1 DEF NumericAt
<1>7. ASSUME NEW j \in DOMAIN t
      PROVE  (NumericAt(u, m + j) <=> NumericAt(t, j)) /\ Value(u, m + j) = Value(t, j)
  <2>1. j \in Int /\ j - 1 \in Int /\ j + 1 \in Int /\ j >= 0 /\ j - 1 >= 0 /\ j + 1 >= 0
        /\ (m + j) - 1 = m + (j - 1) /\ (m + j) + 1 = m + (j + 1)
    BY <1>1, <1>4
  <2>2. Is(u, (m + j) - 1, {"-"}) <=> Is(t, j - 1, {"-"})
    BY <1>2, <2>1
  <2>3. Start(u, m + j) = m + Start(t, j) /\ Value(u, m + j) = Value(t, j)
    <3>1. Value(u, m + j) = Value(t, j)
      BY <1>1, <1>4, <2>1, <2>2 DEF Value
    <3>2. CASE Is(t, j - 1, {"-"})
      <4>1. Start(u, m + j) = (m + j) - 1 /\ Start(t, j) = j - 1
        BY <2>2, <3>2 DEF Start
      <4> QED  BY <2>1, <3>1, <4>1
    <3>3. CASE ~Is(t, j - 1, {"-"})
      BY <2>2, <3>1, <3>3 DEF Start
    <3> QED  BY <3>2, <3>3
  <2>4. /\ Start(t, j) \in Int /\ Start(t, j) - 1 \in Int /\ Start(t, j) - 1 >= 0
        /\ (m + Start(t, j)) - 1 = m + (Start(t, j) - 1)
    <3>1. Is(t, j - 1, {"-"}) => j - 1 >= 1
      BY <2>1 DEF Is
    <3>2. Start(t, j) \in {j - 1, j} /\ Start(t, j) >= 1
      BY <2>1, <3>1, <1>4 DEF Start
    <3>3. Start(t, j) \in Int
      BY <2>1, <3>2
    <3> QED  BY <1>1, <3>2, <3>3
  <2>5. Apart(u, m + Start(t, j), m + j) <=> Apart(t, Start(t, j), j)
    <3>1. Is(u, (m + Start(t, j)) - 1, Alnum) <=> Is(t, Start(t, j) - 1, Alnum)
      BY <1>2, <2>4
    <3>2. Is(u, m + j + 1, Alnum) <=> Is(t, j + 1, Alnum)
      BY <1>2, <2>1
    <3> QED  BY <3>1, <3>2 DEF Apart
  <2>6. Is(u, (m + Start(t, j)) - 1, {"$"}) <=> Is(t, Start(t, j) - 1, {"$"})
    BY <1>2, <2>4
  <2>7. Is(u, m + j, {"digits", "hex"}) <=> Is(t, j, {"digits", "hex"})
    BY <1>2, <2>1
  <2>8. NumericAt(u, m + j) <=> /\ Is(u, m + j, {"digits", "hex"})
                                /\ ~Is(u, (m + Start(t, j)) - 1, {"$"})
                                /\ Apart(u, m + Start(t, j), m + j)
                                /\ Parses(Value(t, j))
    BY <2>3 DEF NumericAt
  <2>9. NumericAt(t, j) <=> /\ Is(t, j, {"digits", "hex"})
                            /\ ~Is(t, Start(t, j) - 1, {"$"})
                            /\ Apart(t, Start(t, j), j)
                            /\ Parses(Value(t, j))
    BY DEF NumericAt
  <2> QED  BY <2>3, <2>5, <2>6, <2>7, <2>8, <2>9
<1> QED  BY <1>5, <1>6, <1>7 DEF u, m

LEMMA SpacedNumbers ==
    ASSUME NEW s \in Seq(Symbols), NEW t \in Seq(Symbols)
    PROVE  Numbers(Spaced(s, t)) = Numbers(s) \cup Numbers(t)
<1> DEFINE u == Spaced(s, t)
<1>1. ASSUME NEW v \in Numbers(u) PROVE v \in Numbers(s) \cup Numbers(t)
  <2>1. PICK i \in DOMAIN u : NumericAt(u, i) /\ v = Value(u, i)
    BY <1>1 DEF Numbers
  <2>2. CASE i \in DOMAIN s
    BY <2>1, <2>2, SpacedNumeric DEF Numbers
  <2>3. ASSUME NEW j \in DOMAIN t, i = Len(s) + 1 + j PROVE v \in Numbers(t)
    BY <2>1, <2>3, SpacedNumeric DEF Numbers
  <2> QED  BY <2>1, <2>2, <2>3, SpacedNumeric, SpacedPlaces
<1>2. ASSUME NEW v \in Numbers(s) PROVE v \in Numbers(u)
  BY <1>2, SpacedNumeric, SpacedPlaces DEF Numbers
<1>3. ASSUME NEW v \in Numbers(t) PROVE v \in Numbers(u)
  <2>1. PICK j \in DOMAIN t : NumericAt(t, j) /\ v = Value(t, j)
    BY <1>3 DEF Numbers
  <2>2. /\ Len(s) + 1 + j \in DOMAIN u /\ NumericAt(u, Len(s) + 1 + j)
        /\ v = Value(u, Len(s) + 1 + j)
    BY <2>1, SpacedNumeric, SpacedPlaces
  <2> QED  BY <2>2 DEF Numbers
<1> QED  BY <1>1, <1>2, <1>3

LEMMA SpacedAddresses ==
    ASSUME NEW s \in Seq(Symbols), NEW t \in Seq(Symbols)
    PROVE  Addresses(Spaced(s, t)) = Addresses(s) \cup Addresses(t)
<1> DEFINE u == Spaced(s, t)
           m == Len(s) + 1
           At(x, i) == Is(x, i, {"hex"}) /\ Apart(x, i, i)
<1>1. Len(s) \in Nat /\ m \in Int
  OBVIOUS
<1>2. ASSUME NEW K \in {{"hex"}, Alnum}
      PROVE  /\ \A i \in Int : i <= m => (Is(u, i, K) <=> Is(s, i, K))
             /\ \A j \in Int : j >= 0 => (Is(u, m + j, K) <=> Is(t, j, K))
  <2>1. "space" \notin K
    BY DEF Alnum
  <2> QED  BY <2>1, SpacedIs
<1> HIDE DEF u, m
<1>3. ASSUME NEW i \in DOMAIN s PROVE i \in DOMAIN u /\ u[i] = s[i] /\ (At(u, i) <=> At(s, i))
  <2>1. i \in 1 .. Len(s)
    BY <1>3
  <2>2. u[i] = s[i] /\ i \in DOMAIN u
    BY <2>1, SpacedParts, SpacedPlaces DEF u
  <2>3. i \in Int /\ i - 1 \in Int /\ i + 1 \in Int /\ i <= m /\ i - 1 <= m /\ i + 1 <= m
    BY <1>1, <2>1 DEF m
  <2> QED  BY <1>2, <2>2, <2>3 DEF Apart
<1>4. ASSUME NEW j \in DOMAIN t
      PROVE  m + j \in DOMAIN u /\ u[m + j] = t[j] /\ (At(u, m + j) <=> At(t, j))
  <2>1. j \in 1 .. Len(t)
    BY <1>4
  <2>2. u[m + j] = t[j] /\ m + j \in DOMAIN u
    BY <2>1, SpacedParts, SpacedPlaces DEF u, m
  <2>3. j \in Int /\ j - 1 \in Int /\ j + 1 \in Int /\ j >= 0 /\ j - 1 >= 0 /\ j + 1 >= 0
        /\ (m + j) - 1 = m + (j - 1) /\ (m + j) + 1 = m + (j + 1)
    BY <1>1, <2>1
  <2> QED  BY <1>2, <2>2, <2>3 DEF Apart
<1>5. ~At(u, m)
  <2>1. ~Is(s, m, {"hex"}) /\ m <= m
    BY <1>1 DEF Is, m
  <2> QED  BY <1>1, <1>2, <2>1
<1>6. ASSUME NEW i \in DOMAIN u PROVE i \in DOMAIN s \/ i = m \/ \E j \in DOMAIN t : i = m + j
  BY <1>6, SpacedPlaces DEF u, m
<1>7. \A x : Addresses(x) = {x[i].v : i \in {j \in DOMAIN x : At(x, j)}}
  BY DEF Addresses
<1> HIDE DEF At
<1>8. ASSUME NEW v \in Addresses(u) PROVE v \in Addresses(s) \cup Addresses(t)
  <2>1. PICK i \in DOMAIN u : At(u, i) /\ v = u[i].v
    BY <1>7, <1>8
  <2>2. CASE i \in DOMAIN s
    BY <1>3, <1>7, <2>1, <2>2
  <2>3. ASSUME NEW j \in DOMAIN t, i = m + j PROVE v \in Addresses(t)
    BY <1>4, <1>7, <2>1, <2>3
  <2> QED  BY <1>5, <1>6, <2>1, <2>2, <2>3
<1>9. ASSUME NEW v \in Addresses(s) PROVE v \in Addresses(u)
  BY <1>3, <1>7, <1>9
<1>10. ASSUME NEW v \in Addresses(t) PROVE v \in Addresses(u)
  <2>1. PICK j \in DOMAIN t : At(t, j) /\ v = t[j].v
    BY <1>7, <1>10
  <2>2. m + j \in DOMAIN u /\ At(u, m + j) /\ v = u[m + j].v
    BY <1>4, <2>1
  <2> QED  BY <1>7, <2>2
<1> QED  BY <1>8, <1>9, <1>10 DEF u

LEMMA SpacedSeparators ==
    ASSUME NEW s \in Seq(Symbols), NEW t \in Seq(Symbols)
    PROVE  Separators(Spaced(s, t)) = Separators(s) \cup {Len(s) + 1 + j : j \in Separators(t)}
<1> DEFINE u == Spaced(s, t)
<1>1. u[Len(s) + 1].k # ".."
  BY SpacedAt
<1>2. \A i \in DOMAIN s : i \in DOMAIN u /\ u[i] = s[i]
  BY SpacedAt, SpacedPlaces
<1>3. \A j \in DOMAIN t : Len(s) + 1 + j \in DOMAIN u /\ u[Len(s) + 1 + j] = t[j]
  BY SpacedAt, SpacedPlaces
<1>4. \A i \in DOMAIN u : i \in DOMAIN s \/ i = Len(s) + 1 \/ \E j \in DOMAIN t : i = Len(s) + 1 + j
  BY SpacedPlaces
<1> HIDE DEF u
<1> QED  BY <1>1, <1>2, <1>3, <1>4 DEF Separators, u

\* A marker of null at symbol i; the disjuncts of NullMarker().
NullAt(s, i) ==
    \/ s[i].k = "hex" /\ s[i].v = 0
    \/ /\ s[i].k = "digits" /\ s[i].v = 0
       /\ i > 1 => Is(s, i - 1, {"=", "space"})
       /\ i < Len(s) => Is(s, i + 1, {"space"})
    \/ s[i].k = "nullptr" /\ Is(s, i - 1, {"space"}) /\ Is(s, i - 2, {"="})
    \/ s[i].k = "nil"

\* A nullptr that begins the second text also needs a "=" at the end of the first.
LEMMA SpacedNull ==
    ASSUME NEW s \in Seq(Symbols), NEW t \in Seq(Symbols)
    PROVE  NullMarker(Spaced(s, t)) <=>
               \/ NullMarker(s) \/ NullMarker(t)
               \/ Is(s, Len(s), {"="}) /\ Is(t, 1, {"nullptr"})
<1> DEFINE u == Spaced(s, t)
           m == Len(s) + 1
           Bridge == Is(s, Len(s), {"="}) /\ Is(t, 1, {"nullptr"})
<1>1. /\ Len(s) \in Nat /\ Len(t) \in Nat /\ m \in Int
      /\ DOMAIN s = 1 .. Len(s) /\ DOMAIN t = 1 .. Len(t) /\ Len(u) = m + Len(t)
  <2>1. Len(u) = m + Len(t)
    BY SpacedParts
  <2> HIDE DEF u
  <2> QED  BY <2>1
<1>2. /\ \A i \in DOMAIN s : i \in DOMAIN u /\ u[i] = s[i]
      /\ \A j \in DOMAIN t : m + j \in DOMAIN u /\ u[m + j] = t[j]
      /\ \A i \in DOMAIN u : i \in DOMAIN s \/ i = m \/ \E j \in DOMAIN t : i = m + j
      /\ m \in DOMAIN u /\ u[m].k = "space"
      /\ DOMAIN u = 1 .. m + Len(t)
  <2>1. DOMAIN u = 1 .. m + Len(t) /\ m \in 1 .. m + Len(t)
    BY SpacedPlaces
  <2> QED  BY <2>1, SpacedAt, SpacedPlaces
<1>3. \A x : NullMarker(x) <=> \E i \in DOMAIN x : NullAt(x, i)
  BY DEF NullMarker, NullAt
<1> HIDE DEF u, m
<1>4. \A i \in Int : \A K : i < m => (Is(u, i, K) <=> Is(s, i, K))
  BY <1>1, <1>2 DEF Is, m
<1>5. \A j \in Int : \A K : j > 0 => (Is(u, m + j, K) <=> Is(t, j, K))
  <2>1. ASSUME NEW j \in Int, j > 0 PROVE m + j \in DOMAIN u <=> j \in DOMAIN t
    BY <1>1, <1>2, <2>1 DEF m
  <2> QED  BY <1>2, <2>1 DEF Is
<1>6. ASSUME NEW i \in DOMAIN s PROVE NullAt(u, i) <=> NullAt(s, i)
  <2>1. i \in Int /\ i - 1 \in Int /\ i - 2 \in Int /\ i + 1 \in Int
        /\ i - 1 < m /\ i - 2 < m /\ i < Len(u) /\ 1 <= i /\ i <= Len(s)
    BY <1>1 DEF m
  <2>2. \A K : (Is(u, i - 1, K) <=> Is(s, i - 1, K)) /\ (Is(u, i - 2, K) <=> Is(s, i - 2, K))
    BY <1>4, <2>1
  <2>3. (i < Len(u) => Is(u, i + 1, {"space"})) <=> (i < Len(s) => Is(s, i + 1, {"space"}))
    <3>1. CASE i < Len(s)
      <4>1. i + 1 < m
        BY <1>1, <2>1, <3>1 DEF m
      <4> QED  BY <1>4, <2>1, <3>1, <4>1
    <3>2. CASE ~(i < Len(s))
      <4>1. i + 1 = m
        BY <1>1, <2>1, <3>2 DEF m
      <4>2. Is(u, m, {"space"})
        BY <1>2 DEF Is
      <4> QED  BY <2>1, <3>2, <4>1, <4>2
    <3> QED  BY <3>1, <3>2
  <2>4. u[i] = s[i]
    BY <1>2
  <2> QED  BY <2>2, <2>3, <2>4 DEF NullAt
<1>7. ~NullAt(u, m)
  BY <1>2 DEF NullAt
<1>8. ASSUME NEW j \in DOMAIN t
      PROVE  NullAt(u, m + j) <=> (NullAt(t, j) \/ (j = 1 /\ Bridge))
  <2> DEFINE k == m + j
  <2>1. /\ j \in Int /\ j >= 1 /\ k \in Int /\ k > 1 /\ k - 1 = m + (j - 1) /\ k - 2 = m + (j - 2)
        /\ k + 1 = m + (j + 1) /\ (k < Len(u) <=> j < Len(t)) /\ j + 1 \in Int /\ j + 1 > 0
    <3>1. j \in Int /\ j >= 1 /\ m >= 1
      BY <1>1 DEF m
    <3>2. k < Len(u) <=> j < Len(t)
      BY <1>1, <3>1
    <3> QED  BY <1>1, <3>1, <3>2
  <2>2. u[k] = t[j]
    BY <1>2
  <2>3. Is(u, k + 1, {"space"}) <=> Is(t, j + 1, {"space"})
    BY <1>5, <2>1
  <2>4. Is(u, k - 1, {"=", "space"}) <=> (j > 1 => Is(t, j - 1, {"=", "space"}))
    <3>1. CASE j = 1
      <4>1. k - 1 = m
        BY <1>1, <2>1, <3>1
      <4>2. Is(u, m, {"=", "space"})
        BY <1>2 DEF Is
      <4> QED  BY <3>1, <4>1, <4>2
    <3>2. CASE j > 1
      <4>1. j - 1 \in Int /\ j - 1 > 0
        BY <2>1, <3>2
      <4> QED  BY <1>5, <2>1, <3>2, <4>1
    <3> QED  BY <2>1, <3>1, <3>2
  <2>5. Is(u, k - 1, {"space"}) /\ Is(u, k - 2, {"="}) <=>
            \/ Is(t, j - 1, {"space"}) /\ Is(t, j - 2, {"="})
            \/ j = 1 /\ Is(s, Len(s), {"="})
    <3>1. CASE j = 1
      <4>1. k - 1 = m /\ k - 2 = Len(s) /\ Len(s) \in Int /\ Len(s) < m
        BY <1>1, <2>1, <3>1 DEF m
      <4>2. Is(u, m, {"space"}) /\ (Is(u, Len(s), {"="}) <=> Is(s, Len(s), {"="}))
        BY <1>2, <1>4, <4>1 DEF Is
      <4>3. ~Is(t, j - 1, {"space"})
        BY <1>1, <3>1 DEF Is
      <4> QED  BY <3>1, <4>1, <4>2, <4>3
    <3>2. CASE j = 2
      <4>1. k - 2 = m
        BY <1>1, <2>1, <3>2
      <4>2. ~Is(u, m, {"="})
        BY <1>2 DEF Is
      <4>3. ~Is(t, j - 2, {"="})
        BY <1>1, <3>2 DEF Is
      <4> QED  BY <3>2, <4>1, <4>2, <4>3
    <3>3. CASE j > 2
      <4>1. j - 1 \in Int /\ j - 1 > 0 /\ j - 2 \in Int /\ j - 2 > 0 /\ j # 1
        BY <2>1, <3>3
      <4> QED  BY <1>5, <2>1, <4>1
    <3> QED  BY <2>1, <3>1, <3>2, <3>3
  <2>6. Is(t, 1, {"nullptr"}) /\ j = 1 <=> t[j].k = "nullptr" /\ j = 1
    BY DEF Is
  <2> HIDE DEF k
  <2> QED  BY <2>1, <2>2, <2>3, <2>4, <2>5, <2>6 DEF NullAt, k
<1>9. Bridge => 1 \in DOMAIN t
  BY DEF Is
<1> HIDE DEF Bridge
<1>10. ASSUME NEW i \in DOMAIN u, NullAt(u, i) PROVE NullMarker(s) \/ NullMarker(t) \/ Bridge
  <2>1. CASE i \in DOMAIN s
    BY <1>3, <1>6, <1>10, <2>1
  <2>2. ASSUME NEW j \in DOMAIN t, i = m + j PROVE NullMarker(t) \/ Bridge
    BY <1>3, <1>8, <1>10, <2>2
  <2> QED  BY <1>2, <1>7, <1>10, <2>1, <2>2
<1>11. NullMarker(s) => NullMarker(u)
  BY <1>2, <1>3, <1>6
<1>12. NullMarker(t) => NullMarker(u)
  BY <1>2, <1>3, <1>8
<1>13. Bridge => NullMarker(u)
  BY <1>2, <1>3, <1>8, <1>9
<1> QED  BY <1>3, <1>10, <1>11, <1>12, <1>13 DEF u, Bridge

-------------------------------------------------------------------------------
(* What is found in the text of one piece *)

\* A text of one symbol, and of two.
LEMMA OneSymbol ==
    ASSUME NEW a \in Symbols
    PROVE  /\ <<a>> \in Seq(Symbols) /\ Len(<<a>>) = 1
           /\ \A i, K : Is(<<a>>, i, K) <=> i = 1 /\ a.k \in K
<1>1. <<a>> \in Seq(Symbols) /\ Len(<<a>>) = 1 /\ DOMAIN <<a>> = {1} /\ <<a>>[1] = a
  OBVIOUS
<1> QED  BY <1>1 DEF Is

LEMMA TwoSymbols ==
    ASSUME NEW a \in Symbols, NEW b \in Symbols
    PROVE  /\ <<a, b>> \in Seq(Symbols) /\ Len(<<a, b>>) = 2
           /\ \A i, K : Is(<<a, b>>, i, K) <=> (i = 1 /\ a.k \in K) \/ (i = 2 /\ b.k \in K)
<1>1. <<a, b>> \in Seq(Symbols) /\ Len(<<a, b>>) = 2 /\ DOMAIN <<a, b>> = {1, 2}
      /\ <<a, b>>[1] = a /\ <<a, b>>[2] = b
  OBVIOUS
<1> QED  BY <1>1 DEF Is

LEMMA SymbolIs ==
    ASSUME NEW k \in Kinds, NEW v \in Int
    PROVE  S(k, v) \in Symbols /\ S(k, v).k = k /\ S(k, v).v = v
BY DEF S, Symbols

\* What a text has to show for a piece.
Shows(s, piece) ==
    /\ s \in Seq(Symbols) /\ Len(s) > 0
    /\ Numbers(s) = IF piece.p \in {"int", "hex"} /\ Parses(piece.v) THEN {piece.v} ELSE {}
    /\ Addresses(s) = IF piece.p = "hex" THEN {piece.v} ELSE {}
    /\ NullMarker(s) <=> piece.p = "nil" \/ (piece.p \in {"int", "hex"} /\ piece.v = 0)
    /\ Separators(s) = IF piece.p = "dots" THEN {1} ELSE {}
    /\ Is(s, 1, {"nullptr"}) <=> piece.p = "nullptr"
    /\ Is(s, Len(s), {"="}) <=> piece.p = "eq"

LEMMA OneSymbolShows ==
    ASSUME NEW a \in Symbols
    PROVE  /\ Numbers(<<a>>) = IF a.k \in {"digits", "hex"} /\ Parses(a.v) THEN {a.v} ELSE {}
           /\ Addresses(<<a>>) = IF a.k = "hex" THEN {a.v} ELSE {}
           /\ NullMarker(<<a>>) <=> a.k = "nil" \/ (a.k \in {"digits", "hex"} /\ a.v = 0)
           /\ Separators(<<a>>) = IF a.k = ".." THEN {1} ELSE {}
<1>1. DOMAIN <<a>> = {1} /\ <<a>>[1] = a /\ Len(<<a>>) = 1
  OBVIOUS
<1>2. \A i, K : Is(<<a>>, i, K) <=> i = 1 /\ a.k \in K
  BY OneSymbol
<1> DEFINE s == <<a>>
<1> HIDE DEF s
<1>3. DOMAIN s = {1} /\ s[1] = a /\ Len(s) = 1 /\ \A i, K : Is(s, i, K) <=> i = 1 /\ a.k \in K
  BY <1>1, <1>2 DEF s
<1>4. Start(s, 1) = 1 /\ Value(s, 1) = a.v /\ Apart(s, 1, 1)
  BY <1>3 DEF Start, Value, Apart
<1>5. NumericAt(s, 1) <=> a.k \in {"digits", "hex"} /\ Parses(a.v)
  BY <1>3, <1>4 DEF NumericAt
<1>6. Numbers(s) = IF a.k \in {"digits", "hex"} /\ Parses(a.v) THEN {a.v} ELSE {}
  BY <1>3, <1>4, <1>5 DEF Numbers
<1>7. Addresses(s) = IF a.k = "hex" THEN {a.v} ELSE {}
  BY <1>3, <1>4 DEF Addresses
<1>8. NullMarker(s) <=> a.k = "nil" \/ (a.k \in {"digits", "hex"} /\ a.v = 0)
  BY <1>3 DEF NullMarker
<1>9. Separators(s) = IF a.k = ".." THEN {1} ELSE {}
  BY <1>3 DEF Separators
<1> QED  BY <1>6, <1>7, <1>8, <1>9 DEF s

\* Digits after a sign, a dollar or letters.
LEMMA TwoSymbolsShow ==
    ASSUME NEW a \in Symbols, NEW b \in Symbols, a.k \in {"-", "$", "letters"}, b.k = "digits"
    PROVE  /\ Numbers(<<a, b>>) = IF a.k = "-" /\ Parses(-b.v) THEN {-b.v} ELSE {}
           /\ Addresses(<<a, b>>) = {}
           /\ ~NullMarker(<<a, b>>)
           /\ Separators(<<a, b>>) = {}
<1>1. DOMAIN <<a, b>> = {1, 2} /\ <<a, b>>[1] = a /\ <<a, b>>[2] = b /\ Len(<<a, b>>) = 2
  OBVIOUS
<1>2. \A i, K : Is(<<a, b>>, i, K) <=> (i = 1 /\ a.k \in K) \/ (i = 2 /\ b.k \in K)
  BY TwoSymbols
<1> DEFINE s == <<a, b>>
<1> HIDE DEF s
<1>3. /\ DOMAIN s = {1, 2} /\ s[1] = a /\ s[2] = b /\ Len(s) = 2
      /\ \A i, K : Is(s, i, K) <=> (i = 1 /\ a.k \in K) \/ (i = 2 /\ b.k \in K)
  BY <1>1, <1>2 DEF s
<1>4. ~NumericAt(s, 1)
  BY <1>3 DEF NumericAt
<1>5. NumericAt(s, 2) <=> a.k = "-" /\ Parses(-b.v)
  <2>1. CASE a.k = "-"
    <3>1. Start(s, 2) = 1 /\ Value(s, 2) = -b.v
      BY <1>3, <2>1 DEF Start, Value
    <3>2. Apart(s, 1, 2) /\ ~Is(s, 0, {"$"}) /\ Is(s, 2, {"digits", "hex"})
      BY <1>3 DEF Apart
    <3> QED  BY <2>1, <3>1, <3>2 DEF NumericAt
  <2>2. CASE a.k = "$"
    <3>1. Start(s, 2) = 2 /\ Is(s, 1, {"$"})
      BY <1>3, <2>2 DEF Start
    <3> QED  BY <2>2, <3>1 DEF NumericAt
  <2>3. CASE a.k = "letters"
    <3>1. Start(s, 2) = 2 /\ Is(s, 1, Alnum)
      BY <1>3, <2>3 DEF Start, Alnum
    <3> QED  BY <2>3, <3>1 DEF NumericAt, Apart
  <2> QED  BY <2>1, <2>2, <2>3
<1>6. a.k = "-" => Value(s, 2) = -b.v
  BY <1>3 DEF Value
<1>7. Numbers(s) = IF a.k = "-" /\ Parses(-b.v) THEN {-b.v} ELSE {}
  BY <1>3, <1>4, <1>5, <1>6 DEF Numbers
<1>8. Addresses(s) = {}
  BY <1>3 DEF Addresses
<1>9. ~NullMarker(s)
  BY <1>3 DEF NullMarker
<1>10. Separators(s) = {}
  BY <1>3 DEF Separators
<1> QED  BY <1>7, <1>8, <1>9, <1>10 DEF s

\* The text of one piece shows what the piece means.
LEMMA PrintedShows ==
    ASSUME NEW x \in Piece, x.p # "float"
    PROVE  Shows(Printed(x), x)
<1>1. x.v \in Int
  BY DEF Piece
<1>2. ASSUME NEW k \in Kinds, NEW v \in Int, Printed(x) = <<S(k, v)>>,
             x.p = "int" => k = "digits" /\ v = x.v,
             x.p = "hex" => k = "hex" /\ v = x.v,
             k = "digits" => x.p = "int", k = "hex" <=> x.p = "hex", k = "nil" <=> x.p = "nil",
             k = ".." <=> x.p = "dots", k = "nullptr" <=> x.p = "nullptr", k = "=" <=> x.p = "eq"
      PROVE  Shows(Printed(x), x)
  <2> DEFINE a == S(k, v)
  <2>1. a \in Symbols /\ a.k = k /\ a.v = v
    BY SymbolIs
  <2> HIDE DEF a
  <2>2. Printed(x) = <<a>>
    BY <1>2 DEF a
  <2>3. <<a>> \in Seq(Symbols) /\ Len(<<a>>) = 1 /\ \A i, K : Is(<<a>>, i, K) <=> i = 1 /\ a.k \in K
    BY <2>1, OneSymbol
  <2>4. /\ Numbers(<<a>>) = IF a.k \in {"digits", "hex"} /\ Parses(a.v) THEN {a.v} ELSE {}
        /\ Addresses(<<a>>) = IF a.k = "hex" THEN {a.v} ELSE {}
        /\ NullMarker(<<a>>) <=> a.k = "nil" \/ (a.k \in {"digits", "hex"} /\ a.v = 0)
        /\ Separators(<<a>>) = IF a.k = ".." THEN {1} ELSE {}
    BY <2>1, OneSymbolShows
  <2> QED  BY <1>2, <2>1, <2>2, <2>3, <2>4 DEF Shows
<1>3. ASSUME NEW k \in {"-", "$", "letters"}, NEW w \in Int, Printed(x) = <<S(k, 0), S("digits", w)>>,
             x.p \in {"int", "history", "name"}, x.p = "int" <=> k = "-",
             x.p = "int" => x.v = -w /\ w # 0
      PROVE  Shows(Printed(x), x)
  <2> DEFINE a == S(k, 0)
             b == S("digits", w)
  <2>1. a \in Symbols /\ a.k = k /\ b \in Symbols /\ b.k = "digits" /\ b.v = w
    BY SymbolIs DEF Kinds
  <2> HIDE DEF a, b
  <2>2. Printed(x) = <<a, b>>
    BY <1>3 DEF a, b
  <2>3. /\ <<a, b>> \in Seq(Symbols) /\ Len(<<a, b>>) = 2
        /\ \A i, K : Is(<<a, b>>, i, K) <=> (i = 1 /\ a.k \in K) \/ (i = 2 /\ b.k \in K)
    BY <2>1, TwoSymbols
  <2>4. /\ Numbers(<<a, b>>) = IF a.k = "-" /\ Parses(-b.v) THEN {-b.v} ELSE {}
        /\ Addresses(<<a, b>>) = {}
        /\ ~NullMarker(<<a, b>>)
        /\ Separators(<<a, b>>) = {}
    BY <2>1, TwoSymbolsShow
  <2>5. x.p = "int" => x.v # 0
    BY <1>3
  <2>6. Numbers(<<a, b>>) = IF x.p = "int" /\ Parses(x.v) THEN {x.v} ELSE {}
    BY <1>3, <2>1, <2>4
  <2> QED  BY <1>3, <2>1, <2>2, <2>3, <2>4, <2>5, <2>6 DEF Shows
<1>4. CASE x.p = "int" /\ ~(x.v < 0)
  <2>1. Printed(x) = <<S("digits", x.v)>>
    BY <1>4 DEF Printed
  <2> QED  BY <1>1, <1>2, <1>4, <2>1 DEF Kinds
<1>5. CASE x.p = "int" /\ x.v < 0
  <2>1. Printed(x) = <<S("-", 0), S("digits", -x.v)>>
    BY <1>5 DEF Printed
  <2>2. -x.v \in Int /\ x.v = -(-x.v) /\ -x.v # 0
    BY <1>1, <1>5
  <2> QED  BY <1>3, <1>5, <2>1, <2>2
<1>6. CASE x.p = "hex"
  <2>1. Printed(x) = <<S("hex", x.v)>>
    BY <1>6 DEF Printed
  <2> QED  BY <1>1, <1>2, <1>6, <2>1 DEF Kinds
<1>7. CASE x.p = "history"
  <2>1. Printed(x) = <<S("$", 0), S("digits", x.v)>>
    BY <1>7 DEF Printed
  <2> QED  BY <1>1, <1>3, <1>7, <2>1
<1>8. CASE x.p = "name"
  <2>1. Printed(x) = <<S("letters", 0), S("digits", x.v)>>
    BY <1>8 DEF Printed
  <2> QED  BY <1>1, <1>3, <1>8, <2>1
<1>9. CASE x.p = "word"
  <2>1. Printed(x) = <<S("letters", 0)>>
    BY <1>9 DEF Printed
  <2> QED  BY <1>2, <1>9, <2>1 DEF Kinds
<1>10. CASE x.p = "eq"
  <2>1. Printed(x) = <<S("=", 0)>>
    BY <1>10 DEF Printed
  <2> QED  BY <1>2, <1>10, <2>1 DEF Kinds
<1>11. CASE x.p = "nullptr"
  <2>1. Printed(x) = <<S("nullptr", 0)>>
    BY <1>11 DEF Printed
  <2> QED  BY <1>2, <1>11, <2>1 DEF Kinds
<1>12. CASE x.p = "nil"
  <2>1. Printed(x) = <<S("nil", 0)>>
    BY <1>12 DEF Printed
  <2> QED  BY <1>2, <1>12, <2>1 DEF Kinds
<1>13. CASE x.p = "dots"
  <2>1. Printed(x) = <<S("..", 0)>>
    BY <1>13 DEF Printed
  <2> QED  BY <1>2, <1>13, <2>1 DEF Kinds
<1> QED  BY <1>4, <1>5, <1>6, <1>7, <1>8, <1>9, <1>10, <1>11, <1>12, <1>13 DEF Piece

-------------------------------------------------------------------------------
(* What is found in a text *)

\* A piece a reader takes for a null pointer.
NullPiece(p, i) ==
    \/ p[i].p = "nil"
    \/ p[i].p \in {"int", "hex"} /\ p[i].v = 0
    \/ p[i].p = "nullptr" /\ i > 1 /\ p[i - 1].p = "eq"

Dots(p, n) == {i \in 1 .. n : p[i].p = "dots"}

\* What the text s shows of the first n pieces.
ShowsAll(s, p, n) ==
    /\ s \in Seq(Symbols) /\ Len(s) > 0
    /\ Is(s, Len(s), {"="}) <=> p[n].p = "eq"
    /\ \A v : v \in Numbers(s) <=>
                  Parses(v) /\ \E i \in 1 .. n : p[i].p \in {"int", "hex"} /\ p[i].v = v
    /\ \A v : v \in Addresses(s) <=> \E i \in 1 .. n : p[i].p = "hex" /\ p[i].v = v
    /\ NullMarker(s) <=> \E i \in 1 .. n : NullPiece(p, i)
    /\ Separators(s) = {} <=> Dots(p, n) = {}
    /\ Single(Separators(s)) <=> Single(Dots(p, n))

LEMMA ShowsFirst ==
    ASSUME NEW p \in Seq(Piece), Len(p) > 0, p[1].p # "float"
    PROVE  ShowsAll(Printed(p[1]), p, 1)
<1> DEFINE s == Printed(p[1])
<1>1. Shows(s, p[1])
  BY PrintedShows
<1>2. 1 .. 1 = {1}
  OBVIOUS
<1>3. NullMarker(s) <=> NullPiece(p, 1)
  BY <1>1 DEF Shows, NullPiece
<1>4. /\ \A v : v \in Numbers(s) <=> Parses(v) /\ p[1].p \in {"int", "hex"} /\ p[1].v = v
      /\ \A v : v \in Addresses(s) <=> p[1].p = "hex" /\ p[1].v = v
  BY <1>1 DEF Shows
<1>5. Dots(p, 1) = IF p[1].p = "dots" THEN {1} ELSE {}
  BY <1>2 DEF Dots
<1>6. Separators(s) = Dots(p, 1)
  BY <1>1, <1>5 DEF Shows
<1>7. s \in Seq(Symbols) /\ Len(s) > 0 /\ (Is(s, Len(s), {"="}) <=> p[1].p = "eq")
  BY <1>1 DEF Shows
<1> HIDE DEF s
<1> QED  BY <1>2, <1>3, <1>4, <1>6, <1>7 DEF ShowsAll, s

\* One more element, beyond the others.
LEMMA SingleMore ==
    ASSUME NEW A, NEW x, x \notin A
    PROVE  Single(A \cup {x}) <=> A = {}
BY DEF Single

LEMMA ShowsNext ==
    ASSUME NEW p \in Seq(Piece), NEW n \in Nat, n > 0, n + 1 <= Len(p), p[n + 1].p # "float",
           NEW s, ShowsAll(s, p, n)
    PROVE  ShowsAll(Spaced(s, Printed(p[n + 1])), p, n + 1)
<1> DEFINE x == p[n + 1]
           t == Printed(x)
           u == Spaced(s, t)
<1>1. x \in Piece
  BY DEF x
<1>2. Shows(t, x)
  BY <1>1, PrintedShows
<1>3. s \in Seq(Symbols) /\ Len(s) > 0 /\ t \in Seq(Symbols) /\ Len(t) > 0
  BY <1>2 DEF Shows, ShowsAll
<1>4. /\ u \in Seq(Symbols) /\ Len(u) = Len(s) + 1 + Len(t)
      /\ Numbers(u) = Numbers(s) \cup Numbers(t)
      /\ Addresses(u) = Addresses(s) \cup Addresses(t)
      /\ Separators(u) = Separators(s) \cup {Len(s) + 1 + j : j \in Separators(t)}
      /\ NullMarker(u) <=> \/ NullMarker(s) \/ NullMarker(t)
                           \/ Is(s, Len(s), {"="}) /\ Is(t, 1, {"nullptr"})
  BY <1>3, SpacedParts, SpacedNumbers, SpacedAddresses, SpacedSeparators, SpacedNull
<1>5. \A K : "space" \notin K => (Is(u, Len(u), K) <=> Is(t, Len(t), K))
  BY <1>3, <1>4, SpacedIs
<1> HIDE DEF t, u
<1>6. \A i : i \in 1 .. n + 1 <=> i \in 1 .. n \/ i = n + 1
  OBVIOUS
<1>7. u \in Seq(Symbols) /\ Len(u) > 0 /\ (Is(u, Len(u), {"="}) <=> x.p = "eq")
  BY <1>2, <1>3, <1>4, <1>5 DEF Shows
<1>8. \A v : v \in Numbers(u) <=>
                 Parses(v) /\ \E i \in 1 .. n + 1 : p[i].p \in {"int", "hex"} /\ p[i].v = v
  <2>1. \A v : v \in Numbers(t) <=> Parses(v) /\ x.p \in {"int", "hex"} /\ x.v = v
    BY <1>2 DEF Shows
  <2> QED  BY <1>4, <1>6, <2>1 DEF ShowsAll
<1>9. \A v : v \in Addresses(u) <=> \E i \in 1 .. n + 1 : p[i].p = "hex" /\ p[i].v = v
  <2>1. \A v : v \in Addresses(t) <=> x.p = "hex" /\ x.v = v
    BY <1>2 DEF Shows
  <2> QED  BY <1>4, <1>6, <2>1 DEF ShowsAll
<1>10. NullMarker(u) <=> \E i \in 1 .. n + 1 : NullPiece(p, i)
  <2>1. NullPiece(p, n + 1) <=> NullMarker(t) \/ (Is(s, Len(s), {"="}) /\ Is(t, 1, {"nullptr"}))
    <3>1. n + 1 > 1 /\ (n + 1) - 1 = n
      OBVIOUS
    <3>2. NullPiece(p, n + 1) <=> \/ x.p = "nil"
                                  \/ x.p \in {"int", "hex"} /\ x.v = 0
                                  \/ x.p = "nullptr" /\ p[n].p = "eq"
      BY <3>1 DEF NullPiece
    <3> QED  BY <1>2, <3>2 DEF Shows, ShowsAll
  <2> HIDE DEF x
  <2> QED  BY <1>4, <1>6, <2>1 DEF ShowsAll
<1>11. (Separators(u) = {} <=> Dots(p, n + 1) = {}) /\ (Single(Separators(u)) <=> Single(Dots(p, n + 1)))
  <2>1. CASE x.p # "dots"
    <3>1. Separators(u) = Separators(s)
      BY <1>2, <1>4, <2>1 DEF Shows
    <3>2. Dots(p, n + 1) = Dots(p, n)
      BY <1>6, <2>1 DEF Dots
    <3> QED  BY <3>1, <3>2 DEF ShowsAll
  <2>2. CASE x.p = "dots"
    <3>1. Separators(u) = Separators(s) \cup {Len(s) + 1 + 1}
      BY <1>2, <1>4, <2>2 DEF Shows
    <3>2. Dots(p, n + 1) = Dots(p, n) \cup {n + 1}
      BY <1>6, <2>2 DEF Dots
    <3>3. Len(s) + 1 + 1 \notin Separators(s)
      <4>1. Len(s) \in Nat /\ DOMAIN s = 1 .. Len(s)
        BY <1>3
      <4> QED  BY <4>1 DEF Separators
    <3>4. n + 1 \notin Dots(p, n)
      BY DEF Dots
    <3>5. Single(Separators(u)) <=> Separators(s) = {}
      BY <3>1, <3>3, SingleMore
    <3>6. Single(Dots(p, n + 1)) <=> Dots(p, n) = {}
      BY <3>2, <3>4, SingleMore
    <3> QED  BY <3>1, <3>2, <3>5, <3>6 DEF ShowsAll
  <2> QED  BY <2>1, <2>2
<1> QED  BY <1>7, <1>8, <1>9, <1>10, <1>11 DEF ShowsAll, t, u

\* A text shows what its pieces mean, however many there are.
LEMMA RenderedShows ==
    ASSUME NEW p \in Seq(Piece), ~Has(p, {"float"}), p # <<>>
    PROVE  ShowsAll(Rendered(p), p, Len(p))
<1> DEFINE T == {n \in Nat : n + 1 <= Len(p) => ShowsAll(Upto(p)[n + 1], p, n + 1)}
<1>1. Len(p) \in Nat /\ Len(p) > 0 /\ DOMAIN p = 1 .. Len(p)
  BY EmptySeq
<1>2. \A n \in 1 .. Len(p) : p[n].p # "float"
  BY <1>1 DEF Has
<1>3. 0 \in T
  BY <1>1, <1>2, ShowsFirst, UptoIs
<1>4. ASSUME NEW n \in T PROVE n + 1 \in T
  <2>1. SUFFICES ASSUME n + 1 + 1 <= Len(p)
                 PROVE  ShowsAll(Upto(p)[n + 1 + 1], p, n + 1 + 1)
    OBVIOUS
  <2> DEFINE k == n + 1
  <2>2. k \in Nat /\ k > 0 /\ k + 1 <= Len(p) /\ k + 1 \in 2 .. Len(p) /\ (k + 1) - 1 = k
        /\ k + 1 \in 1 .. Len(p)
    BY <1>1, <2>1
  <2>3. ShowsAll(Upto(p)[k], p, k)
    BY <1>1, <2>1
  <2>4. Upto(p)[k + 1] = Spaced(Upto(p)[k], Printed(p[k + 1]))
    BY <2>2, UptoIs
  <2> HIDE DEF k
  <2>5. ShowsAll(Upto(p)[k + 1], p, k + 1)
    BY <1>2, <2>2, <2>3, <2>4, ShowsNext
  <2> QED  BY <2>5 DEF k
<1>5. T = Nat
  <2> HIDE DEF T
  <2>1. T \in SUBSET Nat
    BY DEF T
  <2> QED  BY <1>3, <1>4, <2>1, SetInduction
<1>6. Len(p) - 1 \in Nat /\ (Len(p) - 1) + 1 = Len(p)
  BY <1>1
<1>7. ShowsAll(Upto(p)[Len(p)], p, Len(p))
  <2>1. Len(p) - 1 \in T
    BY <1>5, <1>6
  <2> QED  BY <1>1, <1>6, <2>1
<1> QED  BY <1>7, UptoIs

-------------------------------------------------------------------------------
(* The verdict *)

\* The values of the pieces of some kinds.
LEMMA MeansIs ==
    ASSUME NEW p \in Seq(Piece), NEW kinds
    PROVE  \A v : v \in Means(p, kinds) <=> \E i \in 1 .. Len(p) : p[i].p \in kinds /\ p[i].v = v
<1>1. DOMAIN p = 1 .. Len(p) /\ \A i \in 1 .. Len(p) : p[i] \in Piece
  OBVIOUS
<1>2. \A x \in Piece : x \in [p : kinds, v : Int] <=> x.p \in kinds
  BY DEF Piece
<1>3. Means(p, kinds) = {x.v : x \in {y \in {p[i] : i \in 1 .. Len(p)} : y.p \in kinds}}
  BY <1>1, <1>2 DEF Means
<1> QED  BY <1>3

\* What the expressions find in a text is what the manual says it means.
LEMMA PlainText ==
    ASSUME NEW p \in Seq(Piece), Plain(p)
    PROVE  /\ Rendered(p) = <<>> <=> p = <<>>
           /\ Single(Numbers(Rendered(p))) <=> OneInteger(p)
           /\ OneInteger(p) => Numbers(Rendered(p)) = Integer(p)
           /\ Addresses(Rendered(p)) = Means(p, {"hex"})
           /\ NullMarker(Rendered(p)) <=> Has(p, {"nullptr", "nil"}) \/ 0 \in Integer(p)
<1> DEFINE s == Rendered(p)
<1>1. Len(p) \in Nat /\ DOMAIN p = 1 .. Len(p)
  OBVIOUS
<1>2. /\ \A v : v \in Integer(p) <=> \E i \in 1 .. Len(p) : p[i].p \in {"int", "hex"} /\ p[i].v = v
      /\ \A v : v \in Means(p, {"hex"}) <=> \E i \in 1 .. Len(p) : p[i].p \in {"hex"} /\ p[i].v = v
  BY MeansIs DEF Integer
<1>3. /\ s = <<>> <=> p = <<>>
      /\ \A v : v \in Numbers(s) <=> Parses(v) /\ v \in Integer(p)
      /\ \A v : v \in Addresses(s) <=> v \in Means(p, {"hex"})
      /\ NullMarker(s) <=> \E i \in 1 .. Len(p) : NullPiece(p, i)
  <2>1. CASE p = <<>>
    <3>1. Len(p) = 0 /\ 1 .. Len(p) = {}
      BY <2>1
    <3>4. s = <<>>
      <4>1. Rendered(p) = Upto(p)[Len(p)] /\ Upto(p)[0] = <<>>
        BY UptoIs
      <4> QED  BY <3>1, <4>1
    <3>2. Numbers(<<>>) = {} /\ Addresses(<<>>) = {} /\ ~NullMarker(<<>>)
      BY DEF Numbers, Addresses, NullMarker
    <3> HIDE DEF s
    <3> QED  BY <1>2, <2>1, <3>1, <3>2, <3>4
  <2>2. CASE p # <<>>
    <3>1. ShowsAll(s, p, Len(p))
      BY <2>2, RenderedShows DEF Plain
    <3>2. s # <<>>
      BY <3>1 DEF ShowsAll
    <3>3. /\ \A v : v \in Numbers(s) <=>
                  Parses(v) /\ \E i \in 1 .. Len(p) : p[i].p \in {"int", "hex"} /\ p[i].v = v
          /\ \A v : v \in Addresses(s) <=> \E i \in 1 .. Len(p) : p[i].p = "hex" /\ p[i].v = v
          /\ NullMarker(s) <=> \E i \in 1 .. Len(p) : NullPiece(p, i)
      BY <3>1 DEF ShowsAll
    <3> HIDE DEF s
    <3> QED  BY <1>2, <2>2, <3>2, <3>3
  <2> QED  BY <2>1, <2>2
<1> HIDE DEF s
<1>4. Addresses(s) = Means(p, {"hex"})
  BY <1>3
<1>5. (Single(Numbers(s)) <=> OneInteger(p)) /\ (OneInteger(p) => Numbers(s) = Integer(p))
  <2>1. CASE \A v \in Integer(p) : Parses(v)
    <3>1. Numbers(s) = Integer(p)
      BY <1>3, <2>1
    <3> QED  BY <2>1, <3>1 DEF OneInteger, Plain
  <2>2. CASE Single(Integer(p)) /\ ~\A v \in Integer(p) : Parses(v)
    <3>1. Numbers(s) = {}
      BY <1>3, <2>2 DEF Single
    <3> QED  BY <2>2, <3>1 DEF OneInteger, Single
  <2> QED  BY <2>1, <2>2 DEF Plain
<1>6. NullMarker(s) <=> Has(p, {"nullptr", "nil"}) \/ 0 \in Integer(p)
  <2>1. \A i \in 1 .. Len(p) : NullPiece(p, i) <=> p[i].p \in {"nullptr", "nil"}
                                                   \/ (p[i].p \in {"int", "hex"} /\ p[i].v = 0)
    BY <1>1 DEF NullPiece, Plain
  <2>2. Has(p, {"nullptr", "nil"}) <=> \E i \in 1 .. Len(p) : p[i].p \in {"nullptr", "nil"}
    BY <1>1 DEF Has
  <2> QED  BY <1>2, <1>3, <2>1, <2>2
<1> QED  BY <1>3, <1>4, <1>5, <1>6 DEF s

LEMMA NoText ==
    /\ <<>> \in Seq(Symbols) /\ Len(<<>>) = 0
    /\ Numbers(<<>>) = {}
    /\ \A s \in Seq(Symbols) : Numbers(Spaced(s, <<>>)) = Numbers(s)
                               /\ Numbers(Spaced(<<>>, s)) = Numbers(s)
<1>1. <<>> \in Seq(Symbols) /\ Len(<<>>) = 0
  OBVIOUS
<1>2. Numbers(<<>>) = {}
  BY DEF Numbers
<1>3. ASSUME NEW s \in Seq(Symbols)
      PROVE  Numbers(Spaced(s, <<>>)) = Numbers(s) /\ Numbers(Spaced(<<>>, s)) = Numbers(s)
  <2>1. /\ Numbers(Spaced(s, <<>>)) = Numbers(s) \cup Numbers(<<>>)
        /\ Numbers(Spaced(<<>>, s)) = Numbers(<<>>) \cup Numbers(s)
    BY <1>1, SpacedNumbers
  <2> QED  BY <1>2, <2>1
<1> QED  BY <1>1, <1>2, <1>3

\* What is on either side of a separator with spaces around it.
LEMMA Sides ==
    ASSUME NEW s \in Seq(Symbols), NEW d \in Symbols, NEW t \in Seq(Symbols)
    PROVE  LET u == Spaced(Spaced(s, <<d>>), t)
               m == Len(s) + 2
           IN  /\ u \in Seq(Symbols) /\ m \in 1 .. Len(u)
               /\ SubSeq(u, 1, m - 1) = Spaced(s, <<>>)
               /\ SubSeq(u, m + 1, Len(u)) = Spaced(<<>>, t)
<1> DEFINE w == Spaced(s, <<d>>)
           u == Spaced(w, t)
           m == Len(s) + 2
<1>1. <<d>> \in Seq(Symbols) /\ Len(<<d>>) = 1
  OBVIOUS
<1>2. /\ w \in Seq(Symbols) /\ Len(w) = m
      /\ \A i \in 1 .. Len(s) : w[i] = s[i]
      /\ w[Len(s) + 1] = Space
  <2>1. /\ w \in Seq(Symbols) /\ Len(w) = Len(s) + 1 + Len(<<d>>)
        /\ \A i \in 1 .. Len(s) : w[i] = s[i]
        /\ w[Len(s) + 1] = Space
    BY <1>1, SpacedParts
  <2>2. Len(s) + 1 + 1 = m
    OBVIOUS
  <2> QED  BY <1>1, <2>1, <2>2
<1> HIDE DEF w
<1>3. /\ u \in Seq(Symbols) /\ Len(u) = m + 1 + Len(t)
      /\ \A i \in 1 .. m : u[i] = w[i]
      /\ u[m + 1] = Space
      /\ \A j \in 1 .. Len(t) : u[m + 1 + j] = t[j]
  <2>1. /\ u \in Seq(Symbols) /\ Len(u) = Len(w) + 1 + Len(t)
        /\ \A i \in 1 .. Len(w) : u[i] = w[i]
        /\ u[Len(w) + 1] = Space
        /\ \A j \in 1 .. Len(t) : u[Len(w) + 1 + j] = t[j]
    BY <1>2, SpacedParts
  <2> HIDE DEF u
  <2> QED  BY <1>2, <2>1
<1>4. /\ Spaced(s, <<>>) \in Seq(Symbols) /\ Len(Spaced(s, <<>>)) = Len(s) + 1
      /\ \A i \in 1 .. Len(s) : Spaced(s, <<>>)[i] = s[i]
      /\ Spaced(s, <<>>)[Len(s) + 1] = Space
      /\ Spaced(<<>>, t) \in Seq(Symbols) /\ Len(Spaced(<<>>, t)) = 1 + Len(t)
      /\ Spaced(<<>>, t)[1] = Space
      /\ \A j \in 1 .. Len(t) : Spaced(<<>>, t)[1 + j] = t[j]
  <2>1. /\ Spaced(s, <<>>) \in Seq(Symbols) /\ Len(Spaced(s, <<>>)) = Len(s) + 1 + 0
        /\ \A i \in 1 .. Len(s) : Spaced(s, <<>>)[i] = s[i]
        /\ Spaced(s, <<>>)[Len(s) + 1] = Space
    BY NoText, SpacedParts
  <2>2. /\ Spaced(<<>>, t) \in Seq(Symbols) /\ Len(Spaced(<<>>, t)) = 0 + 1 + Len(t)
        /\ Spaced(<<>>, t)[0 + 1] = Space
        /\ \A j \in 1 .. Len(t) : Spaced(<<>>, t)[0 + 1 + j] = t[j]
    BY NoText, SpacedParts
  <2>3. Len(s) + 1 + 0 = Len(s) + 1 /\ 0 + 1 + Len(t) = 1 + Len(t)
    OBVIOUS
  <2> QED  BY <2>1, <2>2, <2>3
<1> HIDE DEF u
<1>5. Len(s) \in Nat /\ Len(t) \in Nat /\ m \in 1 .. Len(u) /\ m - 1 = Len(s) + 1
  BY <1>3
<1>6. SubSeq(u, 1, m - 1) = Spaced(s, <<>>)
  <2>1. /\ SubSeq(u, 1, m - 1) \in Seq(Symbols) /\ Len(SubSeq(u, 1, m - 1)) = Len(s) + 1
        /\ \A i \in 1 .. Len(s) + 1 : SubSeq(u, 1, m - 1)[i] = u[i]
    <3>1. 1 \in 1 .. Len(u) + 1 /\ m - 1 \in 0 .. Len(u)
      BY <1>5
    <3> HIDE DEF m
    <3> QED  BY <1>3, <1>5, <3>1
  <2>2. ASSUME NEW i \in 1 .. Len(s) + 1 PROVE u[i] = Spaced(s, <<>>)[i]
    <3>1. CASE i \in 1 .. Len(s)
      BY <1>2, <1>3, <1>4, <1>5, <3>1
    <3>2. CASE i = Len(s) + 1
      <4>1. Len(s) + 1 \in 1 .. m
        BY <1>5
      <4>2. u[Len(s) + 1] = w[Len(s) + 1]
        BY <1>3, <4>1
      <4>3. w[Len(s) + 1] = Space
        BY <1>2
      <4>4. Spaced(s, <<>>)[Len(s) + 1] = Space
        BY <1>4
      <4> DEFINE n == Len(s) + 1
      <4>5. n = i
        BY <3>2
      <4>6. u[n] = w[n] /\ w[n] = Space /\ Spaced(s, <<>>)[n] = Space
        BY <4>2, <4>3, <4>4
      <4> HIDE DEF n
      <4> QED  BY <4>5, <4>6, Zenon
    <3> QED  BY <1>5, <3>1, <3>2
  <2> DEFINE x == SubSeq(u, 1, m - 1)
             y == Spaced(s, <<>>)
  <2>3. x \in Seq(Symbols) /\ y \in Seq(Symbols) /\ Len(x) = Len(y) /\ \A i \in 1 .. Len(x) : x[i] = y[i]
    BY <1>4, <2>1, <2>2
  <2> HIDE DEF x, y
  <2>4. x = y
    BY <2>3, SeqEqual
  <2> QED  BY <2>4 DEF x, y
<1>7. SubSeq(u, m + 1, Len(u)) = Spaced(<<>>, t)
  <2> DEFINE x == SubSeq(u, m + 1, Len(u))
             y == Spaced(<<>>, t)
  <2>1. /\ x \in Seq(Symbols) /\ Len(x) = 1 + Len(t)
        /\ \A i \in 1 .. 1 + Len(t) : x[i] = u[m + i]
    <3>1. m + 1 \in 1 .. Len(u) + 1 /\ Len(u) - m = 1 + Len(t) /\ m \in Nat /\ Len(u) \in Nat
      BY <1>3, <1>5
    <3> HIDE DEF m
    <3>2. x \in Seq(Symbols) /\ Len(x) = (Len(u) - (m + 1)) + 1
      BY <1>3, <3>1
    <3>3. \A i \in 1 .. Len(x) : x[i] = u[(m + 1) + i - 1]
      BY <1>3, <3>1, <3>2
    <3>4. Len(x) = 1 + Len(t)
      BY <3>1, <3>2, <1>5
    <3>5. \A i \in 1 .. 1 + Len(t) : (m + 1) + i - 1 = m + i
      BY <3>1
    <3> QED  BY <3>2, <3>3, <3>4, <3>5
  <2>2. ASSUME NEW i \in 1 .. 1 + Len(t) PROVE u[m + i] = y[i]
    <3>1. CASE i = 1
      BY <1>3, <1>4, <3>1
    <3>2. CASE i > 1
      <4>1. i - 1 \in 1 .. Len(t) /\ i = 1 + (i - 1) /\ m + i = m + 1 + (i - 1)
        BY <1>5, <3>2
      <4> QED  BY <1>3, <1>4, <4>1
    <3> QED  BY <3>1, <3>2
  <2>3. y \in Seq(Symbols) /\ Len(x) = Len(y) /\ \A i \in 1 .. Len(x) : x[i] = y[i]
    BY <1>4, <2>1, <2>2
  <2>4. x \in Seq(Symbols)
    BY <2>1
  <2> HIDE DEF x, y
  <2>5. x = y
    BY <2>3, <2>4, SeqEqual
  <2> QED  BY <2>5 DEF x, y
<1> QED  BY <1>3, <1>5, <1>6, <1>7 DEF u, w

LEMMA OnePiece ==
    ASSUME NEW x \in Piece, x.p # "float"
    PROVE  OneInteger(<<x>>) <=> x.p \in {"int", "hex"} /\ Parses(x.v)
<1>1. <<x>> \in Seq(Piece) /\ Len(<<x>>) = 1 /\ <<x>>[1] = x /\ 1 .. 1 = {1} /\ DOMAIN <<x>> = {1}
  OBVIOUS
<1>2. \A v : v \in Integer(<<x>>) <=> x.p \in {"int", "hex"} /\ x.v = v
  <2> DEFINE p == <<x>>
  <2>2. p \in Seq(Piece) /\ Len(p) = 1 /\ p[1] = x
    BY <1>1
  <2> HIDE DEF p
  <2>1. \A v : v \in Integer(p) <=> \E i \in 1 .. Len(p) : p[i].p \in {"int", "hex"} /\ p[i].v = v
    BY <2>2, MeansIs DEF Integer
  <2>3. \A v : v \in Integer(p) <=> x.p \in {"int", "hex"} /\ x.v = v
    BY <2>1, <2>2
  <2> QED  BY <2>3 DEF p
<1>3. ~Has(<<x>>, {"float"})
  BY <1>1 DEF Has
<1>4. CASE x.p \in {"int", "hex"}
  <2>1. Integer(<<x>>) = {x.v}
    BY <1>2, <1>4
  <2> QED  BY <1>3, <1>4, <2>1 DEF OneInteger, Single
<1>5. CASE x.p \notin {"int", "hex"}
  <2>1. Integer(<<x>>) = {}
    BY <1>2, <1>5
  <2> QED  BY <1>5, <2>1 DEF OneInteger, Single
<1> QED  BY <1>4, <1>5

\* The numbers of one piece that is not a floating-point value.
Lone(x) == IF x.p \in {"int", "hex"} /\ Parses(x.v) THEN {x.v} ELSE {}

LEMMA LoneSingle ==
    ASSUME NEW x \in Piece, x.p # "float"
    PROVE  /\ Single(Lone(x)) <=> OneInteger(<<x>>)
           /\ OneInteger(<<x>>) => Lone(x) = {x.v} /\ The(Lone(x)) = x.v
<1>1. CASE OneInteger(<<x>>)
  <2>1. Lone(x) = {x.v}
    BY <1>1, OnePiece DEF Lone
  <2> QED  BY <1>1, <2>1 DEF Single, The
<1>2. CASE ~OneInteger(<<x>>)
  <2>1. Lone(x) = {}
    BY <1>2, OnePiece DEF Lone
  <2> QED  BY <1>2, <2>1 DEF Single
<1> QED  BY <1>1, <1>2

\* The bounds of three pieces.
LEMMA ThreePieces ==
    ASSUME NEW e \in Seq(Piece), Len(e) = 3, ~Has(e, {"float"}), Single(Dots(e, 3))
    PROVE  /\ e[2].p = "dots" => /\ Single(Separators(Rendered(e)))
                                 /\ Low(Rendered(e)) = Lone(e[1])
                                 /\ High(Rendered(e)) = Lone(e[3])
           /\ e[2].p # "dots" => ~Bounds(Rendered(e))
<1> DEFINE s == Printed(e[1])
           d == Printed(e[2])
           t == Printed(e[3])
           w == Spaced(s, d)
           u == Spaced(w, t)
<1>1. DOMAIN e = {1, 2, 3} /\ e[1] \in Piece /\ e[2] \in Piece /\ e[3] \in Piece
  OBVIOUS
<1>2. e[1].p # "float" /\ e[2].p # "float" /\ e[3].p # "float"
  BY <1>1 DEF Has
<1>3. Shows(s, e[1]) /\ Shows(d, e[2]) /\ Shows(t, e[3])
  BY <1>1, <1>2, PrintedShows
<1>4. Rendered(e) = u
  <2>1. /\ Rendered(e) = Upto(e)[Len(e)]
        /\ Len(e) > 0 => Upto(e)[1] = Printed(e[1])
        /\ \A n \in 2 .. Len(e) : Upto(e)[n] = Spaced(Upto(e)[n - 1], Printed(e[n]))
    BY UptoIs
  <2>2. Rendered(e) = Upto(e)[3] /\ Upto(e)[1] = s
    BY <2>1
  <2>3. Upto(e)[2] = Spaced(Upto(e)[2 - 1], d)
    BY <2>1
  <2>4. Upto(e)[3] = Spaced(Upto(e)[3 - 1], t)
    BY <2>1
  <2>5. 2 - 1 = 1 /\ 3 - 1 = 2
    OBVIOUS
  <2> HIDE DEF s, d, t
  <2> QED  BY <2>2, <2>3, <2>4, <2>5
<1>5. /\ s \in Seq(Symbols) /\ d \in Seq(Symbols) /\ t \in Seq(Symbols)
      /\ Len(s) \in Nat /\ Len(s) > 0 /\ Len(d) > 0 /\ Len(t) > 0
      /\ Numbers(s) = Lone(e[1]) /\ Numbers(t) = Lone(e[3])
      /\ Separators(s) = (IF e[1].p = "dots" THEN {1} ELSE {})
      /\ Separators(d) = (IF e[2].p = "dots" THEN {1} ELSE {})
      /\ Separators(t) = (IF e[3].p = "dots" THEN {1} ELSE {})
  BY <1>3 DEF Shows, Lone
<1> HIDE DEF s, d, t
<1>6. w \in Seq(Symbols) /\ Len(w) = Len(s) + 1 + Len(d)
  BY <1>5, SpacedParts
<1>7. Separators(w) = Separators(s) \cup {Len(s) + 1 + j : j \in Separators(d)}
  BY <1>5, SpacedSeparators
<1>8. u \in Seq(Symbols) /\ Len(u) = Len(w) + 1 + Len(t)
  BY <1>5, <1>6, SpacedParts
<1> HIDE DEF w
<1>9. Separators(u) = Separators(w) \cup {Len(w) + 1 + j : j \in Separators(t)}
  BY <1>5, <1>6, SpacedSeparators
<1>10. \E i \in {1, 2, 3} : Dots(e, 3) = {i}
  BY DEF Dots, Single
<1>11. CASE e[2].p = "dots"
  <2>1. e[1].p # "dots" /\ e[3].p # "dots"
    <3>1. 2 \in Dots(e, 3)
      BY <1>11 DEF Dots
    <3>2. Dots(e, 3) = {2}
      BY <1>10, <3>1
    <3> QED  BY <3>2 DEF Dots
  <2>2. Separators(w) = {Len(s) + 1 + 1}
    BY <1>5, <1>7, <1>11, <2>1
  <2>3. Separators(u) = {Len(s) + 1 + 1}
    BY <1>5, <1>9, <2>1, <2>2
  <2>4. The(Separators(u)) = Len(s) + 2
    <3>1. Separators(u) = {Len(s) + 2}
      BY <1>5, <2>3
    <3> QED  BY <3>1 DEF The
  <2>5. d = <<S("..", 0)>> /\ S("..", 0) \in Symbols
    BY <1>11, SymbolIs DEF d, Printed, Kinds
  <2>6. /\ SubSeq(u, 1, The(Separators(u)) - 1) = Spaced(s, <<>>)
        /\ SubSeq(u, The(Separators(u)) + 1, Len(u)) = Spaced(<<>>, t)
    <3>1. w = Spaced(s, <<S("..", 0)>>)
      BY <2>5 DEF w
    <3>2. /\ SubSeq(u, 1, (Len(s) + 2) - 1) = Spaced(s, <<>>)
          /\ SubSeq(u, (Len(s) + 2) + 1, Len(u)) = Spaced(<<>>, t)
      BY <1>5, <2>5, <3>1, Sides
    <3> HIDE DEF u
    <3> QED  BY <2>4, <3>2
  <2>7. Low(u) = Numbers(s) /\ High(u) = Numbers(t)
    BY <1>5, <2>6, NoText DEF Low, High
  <2>8. Single(Separators(u))
    BY <2>3 DEF Single
  <2> QED  BY <1>4, <1>5, <1>11, <2>7, <2>8
<1>12. CASE e[1].p = "dots"
  <2>1. e[2].p # "dots" /\ e[3].p # "dots"
    <3>1. 1 \in Dots(e, 3)
      BY <1>12 DEF Dots
    <3>2. Dots(e, 3) = {1}
      BY <1>10, <3>1
    <3> QED  BY <3>2 DEF Dots
  <2>2. Separators(w) = {1}
    BY <1>5, <1>7, <1>12, <2>1
  <2>3. Separators(u) = {1}
    BY <1>5, <1>9, <2>1, <2>2
  <2>4. The(Separators(u)) - 1 = 0
    BY <2>3 DEF The
  <2>5. SubSeq(u, 1, 0) = <<>>
    BY <1>8, SubSeqEmpty
  <2>6. Low(u) = {}
    BY <2>4, <2>5, NoText DEF Low
  <2> QED  BY <1>4, <2>1, <2>6 DEF Bounds, Single
<1>13. CASE e[3].p = "dots"
  <2>1. e[1].p # "dots" /\ e[2].p # "dots"
    <3>1. 3 \in Dots(e, 3)
      BY <1>13 DEF Dots
    <3>2. Dots(e, 3) = {3}
      BY <1>10, <3>1
    <3> QED  BY <3>2 DEF Dots
  <2>2. Separators(w) = {}
    BY <1>5, <1>7, <2>1
  <2>3. Separators(u) = {Len(w) + 1 + 1}
    BY <1>5, <1>9, <1>13, <2>2
  <2>4. Len(t) = 1
    <3>1. t = <<S("..", 0)>>
      BY <1>13 DEF t, Printed
    <3> QED  BY <3>1
  <2>5. The(Separators(u)) + 1 = Len(u) + 1
    <3>1. The(Separators(u)) = Len(w) + 1 + 1
      BY <2>3 DEF The
    <3> HIDE DEF u
    <3> QED  BY <1>6, <1>8, <2>4, <3>1
  <2>6. SubSeq(u, Len(u) + 1, Len(u)) = <<>>
    BY <1>8, SubSeqEmpty
  <2>7. High(u) = {}
    BY <2>5, <2>6, NoText DEF High
  <2> QED  BY <1>4, <2>1, <2>7 DEF Bounds, Single
<1>14. e[1].p = "dots" \/ e[2].p = "dots" \/ e[3].p = "dots"
  BY <1>10 DEF Dots
<1> QED  BY <1>11, <1>12, <1>13, <1>14

\* The bounds the regular expression finds are those the manual describes.
LEMMA BoundsPlain ==
    ASSUME NEW e \in Seq(Piece), Plain(e), PlainBounds(e), e # <<>>
    PROVE  /\ Bounds(Rendered(e)) <=> Interval(e)
           /\ Interval(e) => /\ The(Low(Rendered(e))) = e[1].v
                             /\ The(High(Rendered(e))) = e[3].v
<1> DEFINE s == Rendered(e)
<1>1. Len(e) \in Nat /\ DOMAIN e = 1 .. Len(e)
  OBVIOUS
<1>2. ShowsAll(s, e, Len(e)) /\ ~Has(e, {"float"})
  BY RenderedShows DEF Plain
<1>3. Single(Separators(s)) <=> Single(Dots(e, Len(e)))
  BY <1>2 DEF ShowsAll
<1>4. Single(Dots(e, Len(e))) => Len(e) = 3
  BY <1>1 DEF PlainBounds, Dots
<1> HIDE DEF s
<1>5. CASE ~Single(Dots(e, Len(e)))
  <2>1. ~Bounds(s)
    BY <1>3, <1>5 DEF Bounds
  <2>2. ASSUME Interval(e) PROVE FALSE
    <3>1. /\ Len(e) = 3 /\ e[2].p = "dots"
          /\ OneInteger(<<e[1]>>) /\ OneInteger(<<e[3]>>)
      BY <2>2 DEF Interval
    <3>2. e[1] \in Piece /\ e[3] \in Piece /\ e[1].p # "float" /\ e[3].p # "float"
      BY <1>1, <1>2, <3>1 DEF Has
    <3>3. e[1].p # "dots" /\ e[3].p # "dots"
      BY <3>1, <3>2, OnePiece
    <3>4. Dots(e, 3) = {2}
      BY <3>1, <3>3 DEF Dots
    <3> QED  BY <1>5, <3>1, <3>4 DEF Single
  <2> QED  BY <2>1, <2>2 DEF s
<1>6. CASE Single(Dots(e, Len(e)))
  <2>1. Len(e) = 3 /\ Single(Dots(e, 3))
    BY <1>4, <1>6
  <2>2. e[1] \in Piece /\ e[3] \in Piece /\ e[1].p # "float" /\ e[3].p # "float"
    BY <1>1, <1>2, <2>1 DEF Has
  <2>3. CASE e[2].p # "dots"
    BY <1>2, <2>1, <2>3, ThreePieces DEF s, Interval
  <2>4. CASE e[2].p = "dots"
    <3>1. Single(Separators(s)) /\ Low(s) = Lone(e[1]) /\ High(s) = Lone(e[3])
      BY <1>2, <2>1, <2>4, ThreePieces DEF s
    <3>2. /\ Single(Lone(e[1])) <=> OneInteger(<<e[1]>>)
          /\ Single(Lone(e[3])) <=> OneInteger(<<e[3]>>)
          /\ OneInteger(<<e[1]>>) => The(Lone(e[1])) = e[1].v
          /\ OneInteger(<<e[3]>>) => The(Lone(e[3])) = e[3].v
      BY <2>2, LoneSingle
    <3>3. Bounds(s) <=> Interval(e)
      BY <2>1, <2>4, <3>1, <3>2 DEF Bounds, Interval
    <3>4. Interval(e) => The(Low(s)) = e[1].v /\ The(High(s)) = e[3].v
      BY <3>1, <3>2 DEF Interval
    <3> QED  BY <3>3, <3>4 DEF s
  <2> QED  BY <2>3, <2>4
<1> QED  BY <1>5, <1>6

\* For whatever pieces GDB printed and the caller wrote, and every assertion, the
\* verdict read off the texts is the one the manual gives for what they mean;
\* evaluate_hypothesis_assertion().
THEOREM VerdictsAgree ==
    ASSUME NEW a \in Assertion, NEW observed \in Seq(Piece), NEW expected \in Seq(Piece),
           Plain(observed), Plain(expected), a = "between" => PlainBounds(expected)
    PROVE  Verdict(a, Rendered(observed), Rendered(expected)) =
               DocumentedVerdict(a, observed, expected)
<1> DEFINE o == Rendered(observed)
           e == Rendered(expected)
<1>1. /\ o = <<>> <=> observed = <<>>
      /\ Single(Numbers(o)) <=> OneInteger(observed)
      /\ OneInteger(observed) => Numbers(o) = Integer(observed)
      /\ Addresses(o) = Means(observed, {"hex"})
      /\ NullMarker(o) <=> Has(observed, {"nullptr", "nil"}) \/ 0 \in Integer(observed)
  BY PlainText
<1>2. /\ e = <<>> <=> expected = <<>>
      /\ Single(Numbers(e)) <=> OneInteger(expected)
      /\ OneInteger(expected) => Numbers(e) = Integer(expected)
      /\ Addresses(e) = Means(expected, {"hex"})
  BY PlainText
<1>3. a = "between" /\ expected # <<>> =>
          /\ Bounds(e) <=> Interval(expected)
          /\ Interval(expected) => The(Low(e)) = expected[1].v /\ The(High(e)) = expected[3].v
  BY BoundsPlain
<1> DEFINE void == a = "other" \/ (a # "none" /\ observed = <<>>)
                   \/ (a \in Expecting /\ expected = <<>>)
           doc == DocumentedVerdict(a, observed, expected)
<1> HIDE DEF o, e
<1>4. CASE a = "none"
  <2>1. Verdict(a, o, e) = "passed"
    BY <1>4 DEF Verdict
  <2>2. doc = "passed"
    <3>1. a \notin Expecting
      BY <1>4 DEF Expecting, Comparisons, Wording
    <3> QED  BY <1>4, <3>1 DEF DocumentedVerdict
  <2> QED  BY <2>1, <2>2 DEF o, e
<1>5. CASE a # "none" /\ void
  <2>1. ~Evaluable(a, o, e)
    BY <1>1, <1>2, <1>5 DEF Evaluable
  <2>2. Verdict(a, o, e) = "unknown"
    BY <1>5, <2>1 DEF Verdict
  <2>3. doc = "unknown"
    BY <1>5 DEF DocumentedVerdict
  <2> QED  BY <2>2, <2>3 DEF o, e
<1>6. CASE a # "none" /\ ~void
  <2>1. a # "none" /\ a # "other" /\ o # <<>> /\ (a \in Expecting => e # <<>> /\ expected # <<>>)
    BY <1>1, <1>2, <1>6
  <2>2. ~Evaluable(a, o, e) => Verdict(a, o, e) = "unknown"
    BY <2>1 DEF Verdict
  <2>3. CASE a \in Comparisons
    <3>1. /\ a \notin Wording /\ a \notin Addressing /\ a \in Expecting
          /\ a \notin {"is_null", "non_null", "between", "address_non_null", "address_equals"}
      BY <2>3 DEF Comparisons, Wording, Addressing, Expecting
    <3>2. Evaluable(a, o, e) <=> OneInteger(observed) /\ OneInteger(expected)
      BY <1>1, <1>2, <2>1, <2>3, <3>1 DEF Evaluable
    <3>3. doc = IF OneInteger(observed) /\ OneInteger(expected)
                THEN Holds(Compared(a, The(Integer(observed)), The(Integer(expected))))
                ELSE "unknown"
      BY <1>6, <2>3, <3>1 DEF DocumentedVerdict
    <3>4. Evaluable(a, o, e) =>
              Verdict(a, o, e) = Holds(Compared(a, The(Numbers(o)), The(Numbers(e))))
      BY <2>1, <2>3, <3>1 DEF Verdict
    <3> QED  BY <1>1, <1>2, <2>2, <3>2, <3>3, <3>4 DEF o, e
  <2>4. CASE a = "between"
    <3>1. a \notin Comparisons /\ a \notin Wording /\ a \notin Addressing /\ a \in Expecting
      BY <2>4 DEF Comparisons, Wording, Addressing, Expecting
    <3>2. Evaluable(a, o, e) <=> OneInteger(observed) /\ Interval(expected)
      BY <1>1, <1>3, <2>1, <2>4, <3>1 DEF Evaluable
    <3>3. doc = IF OneInteger(observed) /\ Interval(expected)
                THEN Holds(The(Integer(observed)) \in expected[1].v .. expected[3].v)
                ELSE "unknown"
      BY <1>6, <2>4, <3>1 DEF DocumentedVerdict
    <3>4. Evaluable(a, o, e) =>
              Verdict(a, o, e) = Holds(/\ The(Low(e)) <= The(Numbers(o))
                                       /\ The(Numbers(o)) <= The(High(e)))
      BY <2>1, <2>4, <3>1 DEF Verdict
    <3>5. ASSUME Evaluable(a, o, e) PROVE Verdict(a, o, e) = doc
      <4>1. /\ The(Low(e)) = expected[1].v /\ The(High(e)) = expected[3].v
            /\ Numbers(o) = Integer(observed)
        BY <1>1, <1>3, <2>1, <2>4, <3>1, <3>2, <3>5
      <4> DEFINE n == The(Integer(observed))
                 l == expected[1].v
                 h == expected[3].v
      <4>2. n \in Int /\ l \in Int /\ h \in Int
        <5>1. Len(expected) = 3 /\ expected[1] \in Piece /\ expected[3] \in Piece
          BY <3>2, <3>5 DEF Interval
        <5>2. Integer(observed) \subseteq Int
          <6>1. \A i \in 1 .. Len(observed) : observed[i] \in Piece
            OBVIOUS
          <6>2. \A i \in 1 .. Len(observed) : observed[i].v \in Int
            BY <6>1 DEF Piece
          <6>3. \A v : v \in Integer(observed) <=>
                    \E i \in 1 .. Len(observed) :
                        observed[i].p \in {"int", "hex"} /\ observed[i].v = v
            BY MeansIs DEF Integer
          <6> QED  BY <6>2, <6>3
        <5>3. n \in Integer(observed)
          BY <3>2, <3>5 DEF OneInteger, Single, The
        <5> QED  BY <5>1, <5>2, <5>3 DEF Piece
      <4>3. Verdict(a, o, e) = Holds(l <= n /\ n <= h)
        BY <3>4, <3>5, <4>1
      <4>4. doc = Holds(n \in l .. h)
        BY <3>2, <3>3, <3>5
      <4> HIDE DEF n, l, h, doc
      <4>5. (l <= n /\ n <= h) <=> n \in l .. h
        BY <4>2
      <4>6. Holds(l <= n /\ n <= h) = Holds(n \in l .. h)
        BY <4>5 DEF Holds
      <4> QED  BY <4>3, <4>4, <4>6
    <3> QED  BY <2>2, <3>2, <3>3, <3>5 DEF o, e
  <2>5. CASE a \in Addressing
    <3>1. /\ a \notin Comparisons /\ a \notin Wording
          /\ a \notin {"is_null", "non_null", "between"}
          /\ a = "address_non_null" \/ a = "address_equals"
      BY <2>5 DEF Comparisons, Wording, Addressing
    <3> DEFINE at == Means(observed, {"hex"})
               to == Means(expected, {"hex"})
               asked == Single(at) /\ (a = "address_equals" => Single(to))
    <3>2. Evaluable(a, o, e) <=> asked
      BY <1>1, <1>2, <2>1, <2>5, <3>1 DEF Evaluable
    <3>3. doc = IF asked THEN Holds(IF a = "address_equals" THEN at = to ELSE at # {0})
                ELSE "unknown"
      BY <1>6, <2>5, <3>1 DEF DocumentedVerdict
    <3>4. Evaluable(a, o, e) =>
              Verdict(a, o, e) = IF a = "address_equals" THEN Holds(The(at) = The(to))
                                 ELSE Holds(The(at) # 0)
      BY <1>1, <1>2, <2>1, <3>1 DEF Verdict
    <3>5. Single(at) /\ Single(to) => (The(at) = The(to) <=> at = to)
      BY DEF Single, The
    <3>6. Single(at) => (The(at) # 0 <=> at # {0})
      BY DEF Single, The
    <3> HIDE DEF at, to, doc
    <3> QED  BY <2>2, <3>1, <3>2, <3>3, <3>4, <3>5, <3>6 DEF o, e, doc, Holds
  <2>6. CASE a \in {"is_null", "non_null"}
    <3>1. /\ a \notin Comparisons /\ a \notin Wording /\ a \notin Addressing /\ a # "between"
          /\ a \notin Expecting
      BY <2>6 DEF Comparisons, Wording, Addressing, Expecting
    <3> DEFINE null == Has(observed, {"nullptr", "nil"}) \/ 0 \in Integer(observed)
    <3>2. Evaluable(a, o, e)
      BY <2>1, <2>6, <3>1 DEF Evaluable
    <3>3. doc = Holds((a = "is_null") <=> null)
      BY <1>6, <2>6, <3>1 DEF DocumentedVerdict
    <3>4. /\ a = "is_null" => Verdict(a, o, e) = Holds(NullMarker(o))
          /\ a = "non_null" => Verdict(a, o, e) = Holds(~NullMarker(o))
      BY <3>1, <3>2 DEF Verdict
    <3>5. NullMarker(o) <=> null
      BY <1>1
    <3> HIDE DEF null, doc
    <3> QED  BY <2>6, <3>3, <3>4, <3>5 DEF o, e, doc, Holds
  <2>7. CASE a \in Wording
    <3>1. /\ a \notin Comparisons /\ a \notin Addressing /\ a \in Expecting
          /\ a \notin {"is_null", "non_null", "between"}
      BY <2>7 DEF Comparisons, Wording, Addressing, Expecting
    <3>2. Evaluable(a, o, e)
      BY <2>1, <2>7, <3>1 DEF Evaluable, Addressing
    <3>3. doc = Holds(Worded(a, o, e))
      BY <1>6, <2>7, <3>1 DEF DocumentedVerdict, o, e
    <3>4. Verdict(a, o, e) = Holds(Worded(a, o, e))
      BY <2>1, <2>7, <3>1, <3>2 DEF Verdict, Addressing
    <3> QED  BY <3>3, <3>4 DEF o, e
  <2>8. a \in Comparisons \cup Wording \cup Addressing \cup {"between", "is_null", "non_null"}
    BY <2>1 DEF Assertion, Expecting, Addressing
  <2> QED  BY <2>3, <2>4, <2>5, <2>6, <2>7, <2>8
<1> QED  BY <1>4, <1>5, <1>6

-------------------------------------------------------------------------------
(* The verdict of checks *)

\* The texts of the check being made are of those the manual describes.
CheckPlain ==
    /\ pc \in {"command", "evaluate"} =>
           /\ Plain(check.expected)
           /\ check.assertion = "between" => PlainBounds(check.expected)
    /\ pc = "evaluate" => Plain(check.observed)

LEMMA VerdictStep ==
    ASSUME PlainTexts
    PROVE  TypeOK /\ CheckPlain /\ VerdictAsDocumented /\ [Next]_vars
               => CheckPlain' /\ VerdictAsDocumented'
<1> SUFFICES ASSUME TypeOK, CheckPlain, VerdictAsDocumented, [Next]_vars
             PROVE  CheckPlain' /\ VerdictAsDocumented'
  OBVIOUS
<1> USE DEF Goes, Answers, storeVars
<1>1. ASSUME pc' \notin {"command", "evaluate", "append"}
      PROVE  CheckPlain' /\ VerdictAsDocumented'
  BY <1>1 DEF CheckPlain, VerdictAsDocumented
<1>2. CASE Caller
  <2>1. PICK a \in Asks[calls + 1] : Create(a) \/ Refuse(a) \/ StartCheck(a) \/ Conclude(a)
    BY <1>2 DEF Caller
  <2>2. CASE Create(a) \/ Refuse(a) \/ Conclude(a)
    BY <1>1, <2>2 DEF Create, Refuse, Conclude, Asked
  <2>3. CASE StartCheck(a)
    <3>1. check'.expected = a.expected /\ check'.assertion = a.assertion /\ pc' = "command"
      BY <2>3 DEF StartCheck, Asked, NoCheck
    <3>2. calls + 1 \in DOMAIN Asks
      BY <1>2, HypothesesAssumption DEF Caller, TypeOK
    <3>3. Plain(a.expected) /\ (a.assertion = "between" => PlainBounds(a.expected))
      BY <2>1, <3>2 DEF PlainTexts
    <3> QED  BY <3>1, <3>3 DEF CheckPlain, VerdictAsDocumented
  <2> QED  BY <2>1, <2>2, <2>3
<1>3. CASE Collect
  <2>1. CASE pc' = "evaluate"
    <3>1. PICK t \in Prints : check' = [check EXCEPT !.observed = t, !.evidence = counter']
      BY <1>3, <2>1 DEF Collect
    <3>2. /\ check'.observed = t /\ check'.expected = check.expected
          /\ check'.assertion = check.assertion
      BY <3>1 DEF TypeOK, Check
    <3>3. Plain(t)
      BY <3>1 DEF PlainTexts
    <3>4. pc = "command"
      BY <1>3 DEF Collect
    <3> QED  BY <2>1, <3>2, <3>3, <3>4 DEF CheckPlain, VerdictAsDocumented
  <2>2. CASE pc' # "evaluate"
    <3>1. pc' \in {"error", "idle"}
      BY <1>3, <2>2 DEF Collect
    <3> QED  BY <1>1, <3>1
  <2> QED  BY <2>1, <2>2
<1>4. CASE Evaluate
  <2>1. CASE pc' = "append"
    <3>1. pc = "evaluate"
      BY <1>4 DEF Evaluate
    <3>2. PICK v \in Verdicts(check) : \/ check' = [check EXCEPT !.status = v]
                                       \/ check' = [check EXCEPT !.status = v, !.error = counter']
      BY <1>4, <2>1 DEF Evaluate
    <3>3. /\ check'.status = v /\ check'.observed = check.observed
          /\ check'.expected = check.expected /\ check'.assertion = check.assertion
      BY <3>2 DEF TypeOK, Check
    <3>4. v = Verdict(check.assertion, Rendered(check.observed), Rendered(check.expected))
      BY <3>2 DEF Verdicts
    <3>5. /\ check.assertion \in Assertion /\ check.observed \in Seq(Piece)
          /\ check.expected \in Seq(Piece)
      BY DEF TypeOK, Check
    <3>6. v = DocumentedVerdict(check.assertion, check.observed, check.expected)
      BY <3>1, <3>4, <3>5, VerdictsAgree DEF CheckPlain
    <3> QED  BY <2>1, <3>3, <3>6 DEF CheckPlain, VerdictAsDocumented
  <2>2. CASE pc' # "append"
    <3>1. pc' = "idle"
      BY <1>4, <2>2 DEF Evaluate
    <3> QED  BY <1>1, <3>1
  <2> QED  BY <2>1, <2>2
<1>5. CASE AppendAndRecord \/ Index \/ Error
  BY <1>1, <1>5 DEF AppendAndRecord, Index, Error
<1>6. CASE UNCHANGED vars
  BY <1>6 DEF vars, CheckPlain, VerdictAsDocumented
<1>7. CASE Restart
  BY <1>1, <1>7 DEF Restart
<1> QED  BY <1>2, <1>3, <1>4, <1>5, <1>6, <1>7 DEF Next

\* Where GDB prints and the caller expects what the manual describes, every check
\* has the verdict the manual gives; evaluate_hypothesis_assertion().
THEOREM VerdictsDocumented ==
    ASSUME PlainTexts
    PROVE  Spec => []VerdictAsDocumented
<1>1. Init => CheckPlain /\ VerdictAsDocumented
  BY DEF Init, CheckPlain, VerdictAsDocumented
<1>2. TypeOK /\ CheckPlain /\ VerdictAsDocumented /\ [Next]_vars
          => CheckPlain' /\ VerdictAsDocumented'
  BY VerdictStep
<1> QED  BY <1>1, <1>2, TypeCorrect, PTL DEF Spec

===============================================================================
