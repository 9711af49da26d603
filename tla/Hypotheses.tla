------------------------------- MODULE Hypotheses -------------------------------
(***************************************************************************)
(* The hypotheses of one session: hypothesis_create, hypothesis_check and  *)
(* hypothesis_conclude (src/src/cli/action_dispatch.cpp), the store and    *)
(* its files (src/src/workflow/hypothesis_store.cpp).                      *)
(*                                                                         *)
(* A hypothesis is kept three times: in memory, as a Markdown file of its  *)
(* own and in an index of all of them.  A file that cannot be opened       *)
(* throws, and none of these actions catches: the exception reaches the    *)
(* caller, and what was done before it stays.  Nothing looks at a write    *)
(* after the open: it may be cut short, or come to nothing, without an     *)
(* error.  The session may end at any point, and one with the same assets  *)
(* finds the files and knows nothing of them.                              *)
(***************************************************************************)
EXTENDS EvidenceStore, Assertions

CONSTANTS
    MaxIds,   \* bound: hypotheses by number
    Asks,     \* bound: the actions the caller may send in its nth call
    Prints,   \* what GDB may print for the expression of a check
    MaxRestarts  \* bound: sessions that end

\* Hypothesis n is that named H000n, whoever named it.
Ids == 1 .. MaxIds

Conclusions == {"none", "supported", "refuted"}

\* An action of the caller.  id 0: none given.
Ask == [op : {"create", "check", "conclude"}, id : 0 .. MaxIds, assertion : Assertion,
        expected : Seq(Piece), conclusion : Conclusions]

ASSUME HypothesesAssumption ==
    /\ MaxIds \in Nat
    /\ Asks \in Seq(SUBSET Ask)
    /\ \A i \in DOMAIN Asks : \A a \in Asks[i] : a.op = "conclude" => a.conclusion # "none"
    /\ Prints \subseteq Seq(Piece)
    /\ MaxRestarts \in Nat

VARIABLES
    autos,     \* hypothesis_counter
    hyps,      \* hypotheses_by_id
    md,        \* md[n]: the sections of its Markdown file, those of each kind in order
    index,     \* the hypotheses hypotheses/index.json shows
    pc,        \* where the call in progress is; "idle" between calls
    ask,       \* the call in progress, or answered last
    check,     \* the check being made
    answer,    \* "none", or how that call was answered
    calls,     \* how many calls there were
    restarts,  \* how many sessions have ended
    \* history
    found,     \* found[n]: the sections the session found in the file, and kept
    indexIs    \* what the index is: the session "found" it, wrote it to its end, or cut

storeVars == <<autos, hyps, md, index, found, indexIs>>
vars == <<counter, items, indexed, indexCut, failures, autos, hyps, md, index, pc, ask, check,
          answer, calls, restarts, found, indexIs>>

-------------------------------------------------------------------------------

\* by: the call that made the check.
Check == [assertion : Assertion, expected : Seq(Piece), observed : Seq(Piece),
          status : Status, evidence : Nat, error : Nat, by : Nat]

\* Also what is left of the section of a check, or nothing, if it was cut short.
NoCheck == [assertion |-> "none", expected |-> <<>>, observed |-> <<>>,
            status |-> "unknown", evidence |-> 0, error |-> 0, by |-> 0]

ToolStatus == {"started", "supports", "contradicts", "unknown"}

Hypothesis == [known : BOOLEAN, status : ToolStatus, conclusion : Conclusions,
               checks : Seq(Check)]

Unknown == [known |-> FALSE, status |-> "started", conclusion |-> "none", checks |-> <<>>]
New     == [Unknown EXCEPT !.known = TRUE]

\* A conclusion "none" is what is left of one that was cut short.
Sections == [checks : Seq(Check), conclusions : Seq(Conclusions)]
Blank    == [checks |-> <<>>, conclusions |-> <<>>]

NoAsk == [op |-> "create", id |-> 0, assertion |-> "none", expected |-> <<>>,
          conclusion |-> "none"]

TypeOK ==
    /\ EvidenceTypeOK
    /\ autos \in Nat
    /\ hyps \in [Ids -> Hypothesis]
    /\ md \in [Ids -> Sections]
    /\ index \in [Ids -> Hypothesis]
    /\ pc \in {"idle", "command", "evaluate", "append", "index", "error"}
    /\ ask \in Ask
    /\ check \in Check
    /\ answer \in {"none", "ok", "error", "threw"}
    /\ calls \in Nat /\ restarts \in Nat
    /\ found \in [Ids -> Sections]
    /\ indexIs \in {"found", "written", "cut"}

Init ==
    /\ EvidenceInit
    /\ autos = 0
    /\ hyps = [n \in Ids |-> Unknown]
    /\ md = [n \in Ids |-> Blank]
    /\ index = [n \in Ids |-> Unknown]
    /\ pc = "idle" /\ ask = NoAsk /\ check = NoCheck /\ answer = "none"
    /\ calls = 0 /\ restarts = 0
    /\ found = md /\ indexIs = "found"

-------------------------------------------------------------------------------

Asked(a, to, how) ==
    /\ pc = "idle"
    /\ calls' = calls + 1
    /\ ask' = a /\ pc' = to /\ answer' = how
    /\ UNCHANGED restarts

Goes(to)   == pc' = to /\ UNCHANGED <<ask, answer, calls, restarts>>
Answers(a) == pc' = "idle" /\ answer' = a /\ UNCHANGED <<ask, calls, restarts>>

\* The session ends, or its process does; the next starts with empty hands.
Restart ==
    /\ restarts < MaxRestarts
    /\ restarts' = restarts + 1
    /\ Reopened
    /\ autos' = 0
    /\ hyps' = [n \in Ids |-> Unknown]
    /\ pc' = "idle" /\ ask' = NoAsk /\ check' = NoCheck /\ answer' = "none"
    /\ found' = md /\ indexIs' = "found"
    /\ UNCHANGED <<md, index, calls>>

\* next_hypothesis_id() counts the ids it gave out, and asks no one else.
Named(a) == IF a.id = 0 THEN autos + 1 ELSE a.id

\* hypothesis_create replaces the file and the record, whatever they were.  A file
\* cut short has no sections either.
Create(a) ==
    LET n == Named(a)
    IN  /\ a.op = "create" /\ n \in Ids
        /\ autos' = IF a.id = 0 THEN autos + 1 ELSE autos
        /\ \/ /\ Asked(a, "index", "none")
              /\ md' = [md EXCEPT ![n] = Blank]
              /\ found' = [found EXCEPT ![n] = Blank]
              /\ hyps' = [hyps EXCEPT ![n] = New]
              /\ UNCHANGED failures \/ Fails
           \/ Asked(a, "idle", "threw") /\ Fails /\ UNCHANGED <<md, hyps, found>>
        /\ UNCHANGED <<counter, items, indexed, indexCut, index, indexIs, check>>

\* Mutant: only the hypothesis at hand is written anew.
IndexOne ==
    LET n == IF ask.id = 0 THEN autos ELSE ask.id
    IN  /\ pc = "index"
        /\ index' = [index EXCEPT ![n] = hyps[n]] /\ indexIs' = "written"
        /\ Answers("ok")
        /\ UNCHANGED <<evidenceVars, autos, hyps, md, found, check>>

\* write_hypothesis_index(), the last write of all three actions.
Index ==
    /\ pc = "index"
    /\ \/ /\ index' = hyps /\ indexIs' = "written" /\ Answers("ok")
          /\ UNCHANGED failures
       \/ /\ index' = [n \in Ids |-> Unknown] /\ indexIs' = "cut" /\ Answers("ok")
          /\ Fails
       \/ Answers("threw") /\ Fails /\ UNCHANGED <<index, indexIs>>
    /\ UNCHANGED <<counter, items, indexed, indexCut, autos, hyps, md, found, check>>

\* A check without hypothesis or expression, a conclusion without hypothesis.
Refuse(a) ==
    /\ a.op \in {"check", "conclude"} /\ a.id = 0
    /\ Asked(a, "error", "none")
    /\ UNCHANGED <<evidenceVars, storeVars, check>>

StartCheck(a) ==
    /\ a.op = "check" /\ a.id \in Ids
    /\ Asked(a, "command", "none")
    /\ check' = [NoCheck EXCEPT !.assertion = a.assertion, !.expected = a.expected,
                                !.by = calls']
    /\ UNCHANGED <<evidenceVars, storeVars>>

\* collect_console_with_result(): GDB prints something, or refuses, or is too late.
Collect ==
    /\ pc = "command"
    /\ \/ Added("GdbCommand", calls) /\ Goes("error") /\ UNCHANGED check
       \/ /\ Added("GdbCommand", calls) /\ Goes("evaluate")
          /\ \E t \in Prints : check' = [check EXCEPT !.observed = t, !.evidence = counter']
       \/ AddThrew("GdbCommand", calls) /\ Answers("threw") /\ UNCHANGED check
    /\ UNCHANGED storeVars

\* Mutant: the texts change places.
VerdictsSwapped(c) == {Verdict(c.assertion, expected, observed) :
                          observed \in {Rendered(c.observed)}, expected \in {Rendered(c.expected)}}

\* The one verdict on a check.
Verdicts(c) == {Verdict(c.assertion, observed, expected) :
                    observed \in {Rendered(c.observed)}, expected \in {Rendered(c.expected)}}

\* Mutant: what cannot be evaluated is only told.
EvaluateWithoutError ==
    /\ pc = "evaluate"
    /\ Goes("append")
    /\ \E verdict \in Verdicts(check) : check' = [check EXCEPT !.status = verdict]
    /\ UNCHANGED <<evidenceVars, storeVars>>

Evaluate ==
    /\ pc = "evaluate"
    /\ \E verdict \in Verdicts(check) :
          \/ /\ verdict # "unknown" /\ Goes("append")
             /\ check' = [check EXCEPT !.status = verdict]
             /\ UNCHANGED evidenceVars
          \/ /\ verdict = "unknown" /\ Added("ToolError", calls) /\ Goes("append")
             /\ check' = [check EXCEPT !.status = verdict, !.error = counter']
          \/ /\ verdict = "unknown" /\ AddThrew("ToolError", calls) /\ Answers("threw")
             /\ UNCHANGED check
    /\ UNCHANGED storeVars

\* Mutant: the status of the check is that of the hypothesis.
StatusAsIs(c) == c.status

StatusAfter(c) ==
    CASE c.status = "passed" -> "supports"
      [] c.status = "failed" -> "contradicts"
      [] c.status = "unknown" -> "unknown"

Checked(h, c) == [h EXCEPT !.known = TRUE, !.checks = Append(@, c), !.status = StatusAfter(c)]

\* append_hypothesis_text(): a section is added to the file, to its end or not.
Appends(n, kind, section, cut) ==
    \/ md' = [md EXCEPT ![n][kind] = Append(@, section)] /\ UNCHANGED failures
    \/ md' = [md EXCEPT ![n][kind] = Append(@, cut)] /\ Fails

\* Mutant: the check is recorded before its section is written.
RecordAndAppend ==
    LET n == ask.id
    IN  /\ pc = "append"
        /\ hyps' = [hyps EXCEPT ![n] = Checked(@, check)]
        /\ \/ Appends(n, "checks", check, NoCheck) /\ Goes("index")
           \/ Fails /\ Answers("threw") /\ UNCHANGED md
        /\ UNCHANGED <<counter, items, indexed, indexCut, autos, index, found, indexIs, check>>

\* The section is appended, then the check recorded.  The record is there even if
\* the append throws: it is looked up, and thereby made, before.
AppendAndRecord ==
    LET n == ask.id
    IN  /\ pc = "append"
        /\ \/ /\ Appends(n, "checks", check, NoCheck)
              /\ hyps' = [hyps EXCEPT ![n] = Checked(@, check)]
              /\ Goes("index")
           \/ /\ Fails /\ Answers("threw")
              /\ hyps' = [hyps EXCEPT ![n].known = TRUE]
              /\ UNCHANGED md
        /\ UNCHANGED <<counter, items, indexed, indexCut, autos, index, found, indexIs, check>>

\* Mutant: a conclusion settles the status of the tool.
ConcludedFor(h, c) == [h EXCEPT !.known = TRUE, !.conclusion = c, !.status = "supports"]

Concluded(h, c) == [h EXCEPT !.known = TRUE, !.conclusion = c]

Conclude(a) ==
    LET n == a.id
    IN  /\ a.op = "conclude" /\ n \in Ids
        /\ \/ /\ Asked(a, "index", "none")
              /\ Appends(n, "conclusions", a.conclusion, "none")
              /\ hyps' = [hyps EXCEPT ![n] = Concluded(@, a.conclusion)]
           \/ Asked(a, "idle", "threw") /\ Fails /\ UNCHANGED <<md, hyps>>
        /\ UNCHANGED <<counter, items, indexed, indexCut, autos, index, found, indexIs, check>>

Error ==
    /\ pc = "error"
    /\ \/ Added("ToolError", calls) /\ Answers("error")
       \/ AddThrew("ToolError", calls) /\ Answers("threw")
    /\ UNCHANGED <<storeVars, check>>

Caller ==
    /\ calls < Len(Asks)
    /\ \E a \in Asks[calls + 1] : Create(a) \/ Refuse(a) \/ StartCheck(a) \/ Conclude(a)

Next == Caller \/ Collect \/ Evaluate \/ AppendAndRecord \/ Index \/ Error \/ Restart

Spec == Init /\ [][Next]_vars

-------------------------------------------------------------------------------
(* Properties *)

\* A check is appended and recorded with the verdict the manual gives for what was
\* printed and expected: one integer or address among names, history numbers and
\* words, of whatever sign and base, or "unknown"; evaluate_hypothesis_assertion().
VerdictAsDocumented ==
    pc = "append" =>
        check.status = DocumentedVerdict(check.assertion, check.observed, check.expected)

\* GDB prints, and the callers expect, texts the manual describes.
PlainTexts ==
    /\ \A t \in Prints : Plain(t)
    /\ \A i \in DOMAIN Asks : \A a \in Asks[i] :
           /\ Plain(a.expected)
           /\ a.assertion = "between" => PlainBounds(a.expected)

\* Every check, in memory or in the index as the session has written it, names the
\* evidence of its own command, and exactly one that could not be evaluated has a
\* ToolError, of that same call.
CheckDocumented(c) ==
    /\ Documented(c.evidence, {"GdbCommand"}, c.by)
    /\ c.status = "unknown" => Documented(c.error, {"ToolError"}, c.by)
    /\ c.status # "unknown" => c.error = 0

ChecksDocumented ==
    \A n \in Ids :
        /\ \A i \in DOMAIN hyps[n].checks : CheckDocumented(hyps[n].checks[i])
        /\ indexIs = "written" =>
               \A i \in DOMAIN index[n].checks : CheckDocumented(index[n].checks[i])

\* What is left of a section, if a write has failed.
CutShort(section, left) == section = left /\ failures > 0

\* Whatever writes threw or were cut short, the Markdown file of a hypothesis has
\* what earlier sessions left in it and then one section for each check of the
\* record, in order, and none for a check that is not recorded: the section is
\* whole or, without an error, cut.  The conclusion of the record is that of the
\* last such section.  The case of hypothesis_check appends before it records, and
\* a create starts both anew.
FileAgrees ==
    \A n \in Ids :
        LET checks == found[n].checks \o hyps[n].checks
            old    == found[n].conclusions
            said   == md[n].conclusions
        IN  /\ Len(md[n].checks) = Len(checks)
            /\ \A i \in DOMAIN checks :
                  \/ md[n].checks[i] = checks[i]
                  \/ i > Len(found[n].checks) /\ CutShort(md[n].checks[i], NoCheck)
            /\ Len(old) <= Len(said) /\ \A i \in DOMAIN old : said[i] = old[i]
            /\ IF Len(said) = Len(old) THEN hyps[n].conclusion = "none"
               ELSE \/ hyps[n].conclusion = said[Len(said)]
                    \/ CutShort(said[Len(said)], "none")

\* The status of the tool is that of the last check and of nothing else: the
\* agent's conclusions and the checks that came to nothing leave it alone.
StatusFollowsChecks ==
    \A n \in Ids :
        LET cs == hyps[n].checks
        IN  hyps[n].status = IF cs = <<>> THEN "started" ELSE StatusAfter(cs[Len(cs)])

\* The index shows what is in memory when an action has been answered with a
\* success, also after earlier ones whose index could not be written, unless this
\* very write was cut short without an error; and between calls it does so
\* whenever the session knows any hypothesis and no write has failed, whatever an
\* earlier session left there.
IndexCurrent ==
    pc = "idle" =>
        /\ answer = "ok" => index = hyps \/ indexIs = "cut"
        /\ failures = 0 /\ (\E n \in Ids : hyps[n].known) => index = hyps

===============================================================================
