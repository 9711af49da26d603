--------------------------- MODULE GdbSession_proofs ---------------------------
(***************************************************************************)
(* Proofs about GdbSession, for every value of MaxToken.                   *)
(***************************************************************************)
EXTENDS GdbSession, SequenceTheorems, TLAPS

(* Types *)

LEMMA RecordTypes ==
    /\ Prompt \in Record
    /\ Banner \in Record
    /\ \A t \in Nat, v \in StopReasons : Rec("stopped", t, v) \in Record
    /\ \A t \in Nat : Rec("gone", t, "") \in Record
    /\ \A t \in Nat, c \in Classes : Rec("result", t, c) \in Record
BY DEF Prompt, Banner, Rec, Record

LEMMA ResultRecord ==
    ASSUME NEW line \in Record
    PROVE  /\ line.kind \in {"prompt", "stream", "result", "stopped", "gone"}
           /\ line.tok \in Nat
           /\ line.kind = "result" => line.val \in Classes
           /\ line.kind = "stopped" => line.val \in StopReasons
BY DEF Record

LEMMA AppendType ==
    ASSUME NEW S, NEW s \in Seq(S), NEW x \in S
    PROVE  Append(s, x) \in Seq(S)
OBVIOUS

LEMMA ShortSeqs ==
    ASSUME NEW S, NEW x \in S, NEW y \in S, NEW z \in S
    PROVE  <<x, y>> \in Seq(S) /\ <<x, y, z>> \in Seq(S)
OBVIOUS

LEMMA AppendTwo ==
    ASSUME NEW S, NEW s \in Seq(S), NEW t \in Seq(S), Len(t) = 2
    PROVE  /\ Len(s \o t) = Len(s) + 2
           /\ \A i \in 1 .. Len(s) : (s \o t)[i] = s[i]
           /\ (s \o t)[Len(s) + 1] = t[1]
           /\ (s \o t)[Len(s) + 2] = t[2]
<1>1. /\ Len(s \o t) = Len(s) + Len(t)
      /\ \A i \in 1 .. Len(s) + Len(t) :
             (s \o t)[i] = IF i <= Len(s) THEN s[i] ELSE t[i - Len(s)]
  BY ConcatProperties
<1>2. /\ Len(s) \in Nat
      /\ Len(s) + 1 \in 1 .. Len(s) + Len(t) /\ Len(s) + 1 - Len(s) = 1
      /\ Len(s) + 2 \in 1 .. Len(s) + Len(t) /\ Len(s) + 2 - Len(s) = 2
      /\ \A i \in 1 .. Len(s) : i \in 1 .. Len(s) + Len(t) /\ i <= Len(s)
      /\ ~(Len(s) + 1 <= Len(s)) /\ ~(Len(s) + 2 <= Len(s))
  OBVIOUS
<1>. QED
  BY <1>1, <1>2

LEMMA NewResultType ==
    ASSUME NEW t \in Nat, NEW c \in Commands \cup {"none"}
    PROVE  NewResult(t, c) \in CommandResult
<1>1. <<>> \in Seq(Record) /\ <<>> \in Seq(Nat)
  OBVIOUS
<1>. QED
  BY <1>1 DEF NewResult, CommandResult

LEMMA KeepType ==
    ASSUME log \in Seq(Record), NEW r \in CommandResult, NEW line \in Record
    PROVE  /\ Keep(r, line) \in CommandResult
           /\ Keep(r, line) = [r EXCEPT !.lines = Append(r.lines, line),
                                        !.seqs  = Append(r.seqs, Len(log) + 1)]
<1>1. Len(log) + 1 \in Nat
  OBVIOUS
<1>2. r.lines \in Seq(Record) /\ r.seqs \in Seq(Nat)
  BY DEF CommandResult
<1>3. Append(r.lines, line) \in Seq(Record)
  BY <1>2, AppendType
<1>4. Append(r.seqs, Len(log) + 1) \in Seq(Nat)
  BY <1>1, <1>2, AppendType
<1>5. Keep(r, line) = [r EXCEPT !.lines = Append(r.lines, line),
                                !.seqs  = Append(r.seqs, Len(log) + 1)]
  BY DEF Keep, CommandResult
<1>. DEFINE L == Append(r.lines, line)
            Q == Append(r.seqs, Len(log) + 1)
<1>6. L \in Seq(Record) /\ Q \in Seq(Nat)
  BY <1>3, <1>4
<1>. HIDE DEF L, Q
<1>7. [r EXCEPT !.lines = L, !.seqs = Q] \in CommandResult
  BY <1>6 DEF CommandResult
<1>. QED
  BY <1>5, <1>7 DEF L, Q

LEMMA InitType == Init => TypeOK
<1>. SUFFICES ASSUME Init PROVE TypeOK
  OBVIOUS
<1>1. call \in CommandResult /\ last \in CommandResult
  BY NewResultType DEF NoResult, Init
<1>2. log \in Seq(Record) /\ fromGdb \in Seq(Record) /\ toGdb \in Seq(Message)
  BY DEF Init
<1>3. answered \in SUBSET (Nat \X Classes)
  BY DEF Init
<1>. QED
  BY <1>1, <1>2, <1>3 DEF Init, TypeOK, PcValues, Reading

LEMMA ReadLineType ==
    ASSUME TypeOK, ReadLine
    PROVE  /\ Head(fromGdb) \in Record
           /\ fromGdb' \in Seq(Record)
           /\ log' \in Seq(Record)
<1>1. Head(fromGdb) \in Record /\ Tail(fromGdb) \in Seq(Record)
  BY DEF TypeOK, ReadLine
<1>. QED
  BY <1>1, AppendType DEF TypeOK, ReadLine

LEMMA WriteType ==
    ASSUME TypeOK, NEW cmd \in Commands, NEW next \in PcValues, Write(cmd, next)
    PROVE  /\ pc' \in PcValues
           /\ token' \in Nat
           /\ toGdb' \in Seq(Message)
           /\ NewResult(token + 1, cmd) \in CommandResult
<1>. DEFINE m == [tok |-> token + 1, cmd |-> cmd]
<1>1. token + 1 \in Nat
  BY DEF TypeOK
<1>2. m \in Message
  BY <1>1 DEF Message
<1>3. toGdb \in Seq(Message)
  BY DEF TypeOK
<1>. HIDE DEF m
<1>4. Append(toGdb, m) \in Seq(Message)
  BY <1>2, <1>3, AppendType
<1>5. toGdb' \in Seq(Message)
  BY <1>3, <1>4 DEF Write, m
<1>6. pc' \in PcValues /\ token' \in Nat
  BY <1>1 DEF Write, PcValues
<1>. QED
  BY <1>1, <1>5, <1>6, NewResultType

LEMMA ReturnType ==
    ASSUME NEW r \in CommandResult, Return(r)
    PROVE  call' \in CommandResult /\ last' \in CommandResult /\ pc' \in PcValues
BY NewResultType DEF Return, NoResult, PcValues, Reading

\* What the loops do to the result under construction.
LEMMA ResultUpdates ==
    ASSUME NEW r \in CommandResult
    PROVE  /\ \A c \in Classes : [r EXCEPT !.cls = c] \in CommandResult
           /\ [r EXCEPT !.timedOut = TRUE] \in CommandResult
           /\ [r EXCEPT !.timedOut = TRUE, !.reason = "run_deadline_reached"] \in CommandResult
           /\ [r EXCEPT !.reason = "interrupted_by_tool_deadline"] \in CommandResult
           /\ [r EXCEPT !.reason = "exited", !.exited = TRUE] \in CommandResult
           /\ \A b \in BOOLEAN : [r EXCEPT !.sawRunning = @ \/ b] \in CommandResult
           /\ \A v \in StopReasons :
                [r EXCEPT !.reason = v, !.exited = @ \/ v = "exited"] \in CommandResult
BY DEF CommandResult, StopReasons

LEMMA AnswerType ==
    ASSUME TypeOK, toGdb # <<>>, NEW c \in Classes, NEW before \in Seq(Record),
           Answer(c, before)
    PROVE  /\ fromGdb' \in Seq(Record)
           /\ answered' \in SUBSET (Nat \X Classes)
           /\ toGdb' \in Seq(Message)
           /\ Head(toGdb).tok \in Nat
<1>. DEFINE h == Head(toGdb)
<1>1. h \in Message /\ Tail(toGdb) \in Seq(Message)
  BY DEF TypeOK
<1>2. h.tok \in Nat
  BY <1>1 DEF Message
<1>3. <<Rec("result", h.tok, c), Prompt>> \in Seq(Record)
  <2>1. Rec("result", h.tok, c) \in Record /\ Prompt \in Record
    BY <1>2, RecordTypes
  <2>. QED
    BY <2>1
<1>4. (fromGdb \o before) \o <<Rec("result", h.tok, c), Prompt>> \in Seq(Record)
  BY <1>3 DEF TypeOK
<1>. QED
  BY <1>1, <1>2, <1>4 DEF Answer, TypeOK

LEMMA StepType == TypeOK /\ [Next]_vars => TypeOK'
<1>. SUFFICES ASSUME TypeOK, [Next]_vars
              PROVE  TypeOK'
  OBVIOUS
<1>1. CASE Start
  BY <1>1 DEF Start, TypeOK, PcValues, Reading
<1>2. CASE DrainLine
  BY <1>2, ReadLineType DEF DrainLine, TypeOK, PcValues, Reading
<1>3. CASE DrainDeadline
  BY <1>3 DEF DrainDeadline, TypeOK, gdbVars, PcValues, Reading
<1>4. CASE Command
  <2>1. "command" \in Commands /\ "result" \in PcValues
    BY DEF Commands, PcValues, Reading
  <2>. QED
    BY <1>4, <2>1, WriteType DEF Command, TypeOK
<1>5. ASSUME NEW cmd \in ExecCommands, ExecControl(cmd)
      PROVE  TypeOK'
  <2>1. cmd \in Commands /\ "stop" \in PcValues
    BY DEF Commands, PcValues, Reading
  <2>. QED
    BY <1>5, <2>1, WriteType DEF ExecControl, TypeOK
<1>6. CASE Shutdown
  <2>1. "exit" \in Commands /\ "result" \in PcValues
    BY DEF Commands, PcValues, Reading
  <2>. QED
    BY <1>6, <2>1, WriteType DEF Shutdown, TypeOK
<1>7. CASE ExecDeadline
  <2>1. "interrupt" \in Commands /\ "interrupt" \in PcValues
    BY DEF Commands, PcValues, Reading
  <2>2. call' \in CommandResult
    BY <1>7, ResultUpdates DEF ExecDeadline, TypeOK
  <2>. QED
    BY <1>7, <2>1, <2>2, WriteType DEF ExecDeadline, TypeOK
<1>8. CASE CommandDeadline
  <2>1. [call EXCEPT !.timedOut = TRUE] \in CommandResult
    BY ResultUpdates DEF TypeOK
  <2>. QED
    BY <1>8, <2>1, ReturnType DEF CommandDeadline, TypeOK, gdbVars
<1>9. CASE InterruptDeadline
  BY <1>9, ReturnType DEF InterruptDeadline, TypeOK, gdbVars
<1>. DEFINE line == Head(fromGdb)
            kept == Keep(call, line)
<1>10. ASSUME ReadLine
       PROVE  /\ line \in Record
              /\ kept \in CommandResult
              /\ fromGdb' \in Seq(Record)
              /\ log' \in Seq(Record)
  BY <1>10, ReadLineType, KeepType DEF TypeOK
<1>11. ASSUME ReadLine,
              \/ UNCHANGED <<call, last, pc>>
              \/ call' \in CommandResult /\ UNCHANGED <<last, pc>>
              \/ \E r \in CommandResult : Return(r)
       PROVE  /\ call' \in CommandResult /\ last' \in CommandResult
              /\ pc' \in PcValues
  BY <1>11, ReturnType DEF TypeOK
<1>12. CASE CommandLine
  <2>1. \/ UNCHANGED <<call, last, pc>>
        \/ call' \in CommandResult /\ UNCHANGED <<last, pc>>
        \/ \E r \in CommandResult : Return(r)
    <3>1. CASE IsAnswer(call, line)
      <4>1. [kept EXCEPT !.cls = line.val] \in CommandResult
        BY <1>12, <1>10, <3>1, ResultRecord, ResultUpdates DEF CommandLine, IsAnswer
      <4>2. line.kind # "prompt"
        BY <3>1 DEF IsAnswer
      <4>. QED
        BY <1>12, <3>1, <4>1, <4>2 DEF CommandLine
    <3>. QED
      BY <1>12, <1>10, <3>1 DEF CommandLine
  <2>. QED
    BY <1>12, <1>10, <1>11, <2>1 DEF CommandLine, TypeOK
<1>13. CASE ExecLine
  <2>1. \/ UNCHANGED <<call, last, pc>>
        \/ call' \in CommandResult /\ UNCHANGED <<last, pc>>
        \/ \E r \in CommandResult : Return(r)
    <3>. DEFINE accepted == IsAnswer(call, line) /\ line.val = "running"
                rejected == IsAnswer(call, line) /\ line.val = "error" /\ ~call.sawRunning
    <3>0. kept \in CommandResult /\ line \in Record
      BY <1>13, <1>10 DEF ExecLine
    <3>1. ASSUME line.kind = "stopped"
          PROVE  [kept EXCEPT !.reason = line.val, !.exited = @ \/ line.val = "exited"]
                   \in CommandResult
      BY <3>0, <3>1, ResultRecord, ResultUpdates
    <3>2. [kept EXCEPT !.reason = "exited", !.exited = TRUE] \in CommandResult
      BY <3>0, ResultUpdates
    <3>3. [kept EXCEPT !.cls = "error"] \in CommandResult
      BY <3>0, ResultUpdates DEF Classes
    <3>4. [kept EXCEPT !.sawRunning = @ \/ accepted] \in CommandResult
      <4>1. accepted \in BOOLEAN
        BY DEF IsAnswer
      <4>. HIDE DEF kept, accepted
      <4>. QED
        BY <3>0, <4>1, ResultUpdates
    <3>. QED
      BY <1>13, <3>1, <3>2, <3>3, <3>4 DEF ExecLine
  <2>. QED
    BY <1>13, <1>10, <1>11, <2>1 DEF ExecLine, TypeOK
<1>14. CASE InterruptLine
  <2>1. \/ UNCHANGED <<call, last, pc>>
        \/ call' \in CommandResult /\ UNCHANGED <<last, pc>>
        \/ \E r \in CommandResult : Return(r)
    <3>1. kept \in CommandResult
      BY <1>14, <1>10 DEF InterruptLine
    <3>2. [kept EXCEPT !.reason = "interrupted_by_tool_deadline"] \in CommandResult
      BY <3>1, ResultUpdates
    <3>. QED
      BY <1>14, <3>1, <3>2 DEF InterruptLine
  <2>. QED
    BY <1>14, <1>10, <1>11, <2>1 DEF InterruptLine, TypeOK
<1>15. CASE Terminated
  BY <1>15 DEF Terminated, TypeOK, gdbVars, PcValues, Reading
<1>16. CASE GdbBoot
  <2>1. <<Banner, Prompt>> \in Seq(Record)
    BY RecordTypes, ShortSeqs
  <2>. QED
    BY <1>16, <2>1 DEF GdbBoot, TypeOK, sessionVars
<1>17. ASSUME NEW c \in Classes, NEW before \in Seq(Record), toGdb # <<>>,
              Answer(c, before),
              gdb' \in {"up", "dead"}, inferior' \in {"none", "running", "stopped"},
              runToken' \in {runToken, Head(toGdb).tok}
       PROVE  TypeOK'
  <2>1. runToken' \in Nat
    BY <1>17, AnswerType DEF TypeOK
  <2>. QED
    BY <1>17, <2>1, AnswerType DEF TypeOK, Answer, sessionVars
<1>18. <<>> \in Seq(Record) /\ Classes = {"done", "error", "running", "exit"}
  BY DEF Classes
<1>19. CASE GdbCommand
  BY <1>19, <1>17, <1>18 DEF GdbCommand, GdbReads, TypeOK
<1>20. CASE GdbRun
  <2>. DEFINE gone == Rec("gone", runToken, "")
              before == IF inferior = "stopped" THEN <<gone>> ELSE <<>>
  <2>1. gone \in Record
    BY RecordTypes DEF TypeOK
  <2>2. before \in Seq(Record)
    <3>. HIDE DEF gone
    <3>. QED
      BY <2>1
  <2>3. Answer("running", before)
    BY <1>20 DEF GdbRun
  <2>. HIDE DEF before
  <2>. QED
    BY <1>20, <1>17, <1>18, <2>2, <2>3 DEF GdbRun, GdbReads
<1>21. CASE GdbContinue
  BY <1>21, <1>17, <1>18 DEF GdbContinue, GdbReads
<1>22. CASE GdbRefuse
  BY <1>22, <1>17, <1>18 DEF GdbRefuse, GdbReads, TypeOK
<1>23. CASE GdbInterrupt
  BY <1>23, <1>17, <1>18 DEF GdbInterrupt, GdbReads, TypeOK
<1>24. CASE GdbExit
  BY <1>24, <1>17, <1>18 DEF GdbExit, GdbReads
<1>25. CASE GdbDie
  BY <1>25 DEF GdbDie, TypeOK, sessionVars
<1>26. ASSUME NEW reason \in {"breakpoint-hit", "signal-received"}, InferiorStop(reason)
       PROVE  TypeOK'
  <2>1. Rec("stopped", runToken, reason) \in Record /\ Prompt \in Record
    BY RecordTypes DEF TypeOK, StopReasons
  <2>2. <<Rec("stopped", runToken, reason), Prompt>> \in Seq(Record)
    BY <2>1
  <2>. QED
    BY <1>26, <2>2 DEF InferiorStop, TypeOK, sessionVars
<1>27. CASE InferiorExit
  <2>1. /\ Rec("gone", runToken, "") \in Record
        /\ Rec("stopped", runToken, "exited") \in Record
        /\ Prompt \in Record
    BY RecordTypes DEF TypeOK, StopReasons
  <2>. DEFINE out == <<Rec("gone", runToken, ""), Rec("stopped", runToken, "exited"),
                      Prompt>>
  <2>2. out \in Seq(Record)
    BY <2>1, ShortSeqs
  <2>3. fromGdb' = fromGdb \o out
    BY <1>27 DEF InferiorExit
  <2>. HIDE DEF out
  <2>4. fromGdb' \in Seq(Record)
    BY <2>2, <2>3 DEF TypeOK
  <2>. QED
    BY <1>27, <2>4 DEF InferiorExit, TypeOK, sessionVars
<1>28. CASE Ended \/ UNCHANGED vars
  BY <1>28 DEF Ended, vars, TypeOK
<1>. QED
  BY <1>1, <1>2, <1>3, <1>4, <1>5, <1>6, <1>7, <1>8, <1>9, <1>12, <1>13, <1>14,
     <1>15, <1>16, <1>19, <1>20, <1>21, <1>22, <1>23, <1>24, <1>25, <1>26, <1>27,
     <1>28 DEF Next, SessionStep, GdbStep

\* Type correctness: what is in the pipes, in the log and in the results are MI
\* records, whatever the interleaving of the session, GDB and the inferior.
THEOREM TypeCorrect == Spec => []TypeOK
BY InitType, StepType, PTL DEF Spec

-------------------------------------------------------------------------------
(* The inductive invariant *)

IsResult(line) == line.kind = "result"

\* Commands wait in GDB's input in the order of their tokens, and GDB has
\* answered none but the tokens before them.
InputInv ==
    /\ \A i \in 1 .. Len(toGdb) : toGdb[i].tok = Executed + i
    /\ \A a \in answered : a[1] <= Executed
    /\ Executed \in Nat
    /\ pc = "killed" => gdb = "dead"

\* The answers in the log and in the pipe are GDB's, in the order of tokens, the
\* log before the pipe.
OutputInv ==
    /\ \A i \in 1 .. Len(fromGdb) : IsResult(fromGdb[i]) =>
           <<fromGdb[i].tok, fromGdb[i].val>> \in answered
    /\ \A i \in 1 .. Len(log) : IsResult(log[i]) => log[i].tok <= Executed
    /\ \A i, j \in 1 .. Len(log) :
           i < j /\ IsResult(log[i]) /\ IsResult(log[j]) => log[i].tok < log[j].tok
    /\ \A i, j \in 1 .. Len(fromGdb) :
           i < j /\ IsResult(fromGdb[i]) /\ IsResult(fromGdb[j])
               => fromGdb[i].tok < fromGdb[j].tok
    /\ \A i \in 1 .. Len(log), j \in 1 .. Len(fromGdb) :
           IsResult(log[i]) /\ IsResult(fromGdb[j]) => log[i].tok < fromGdb[j].tok

\* The call under way is the latest command, or the one the interrupt followed.
CallInv ==
    /\ pc \in Reading => call.tok \in 1 .. token /\ call.cls = ""
    /\ pc = "result" => /\ call.tok = token
                        /\ call.cmd \in {"command", "exit"}
                        /\ ~call.timedOut
    /\ pc \in {"stop", "interrupt"} => call.cmd \in ExecCommands
    /\ pc = "stop" => ~call.timedOut
    /\ pc = "interrupt" => call.timedOut

\* The latest result, and what is left of earlier calls when it is an answer.
LastInv ==
    /\ pc \in {"unstarted", "drain"} => last.cmd = "none"
    /\ last.cls # "" => <<last.tok, last.cls>> \in answered
    /\ last.cmd \in {"command", "exit"} /\ ~last.timedOut => last.cls # ""
    /\ Resynchronised

ProtocolInv == TypeOK /\ InputInv /\ OutputInv /\ CallInv /\ LastInv

LEMMA InitProtocol == Init => ProtocolInv
<1>. SUFFICES ASSUME Init PROVE ProtocolInv
  OBVIOUS
<1>1. TypeOK
  BY InitType
<1>2. last.cls = "" /\ last.cmd = "none"
  BY DEF Init, NoResult, NewResult
<1>3. Executed = 0
  <2>1. token = 0 /\ Len(toGdb) = 0 /\ pc = "unstarted"
    BY DEF Init
  <2>. QED
    BY <2>1 DEF Executed
<1>4. InputInv
  BY <1>3 DEF Init, InputInv
<1>5. OutputInv
  BY DEF Init, OutputInv
<1>6. CallInv /\ LastInv
  BY <1>2 DEF Init, CallInv, LastInv, Reading, Resynchronised
<1>. QED
  BY <1>1, <1>4, <1>5, <1>6 DEF ProtocolInv

\* Moving the oldest line from the pipe to the log keeps the order of answers.
LEMMA ReadLineOutput ==
    ASSUME TypeOK, OutputInv, ReadLine, UNCHANGED <<answered, Executed>>,
           InputInv
    PROVE  OutputInv'
<1>. DEFINE n == Len(log)
            m == Len(fromGdb)
<1>1. n \in Nat /\ m \in Nat /\ m > 0
  BY DEF TypeOK, ReadLine
<1>2. /\ Len(log') = n + 1
      /\ \A i \in 1 .. n : log'[i] = log[i]
      /\ log'[n + 1] = fromGdb[1]
  BY DEF TypeOK, ReadLine
<1>3. /\ Len(fromGdb') = m - 1
      /\ \A j \in 1 .. m - 1 : fromGdb'[j] = fromGdb[j + 1]
  BY DEF TypeOK, ReadLine
<1>4. \A i \in 1 .. m : IsResult(fromGdb[i]) => fromGdb[i].tok <= Executed
  BY DEF OutputInv, InputInv
<1>5. /\ \A i \in 1 .. n + 1 : i \in 1 .. n \/ i = n + 1
      /\ \A i, j \in 1 .. n + 1 : i < j => i \in 1 .. n
      /\ \A j \in 1 .. m - 1 : j + 1 \in 1 .. m /\ 1 < j + 1 /\ 1 \in 1 .. m
  BY <1>1
<1>. HIDE DEF n, m
<1>6. \A i \in 1 .. m - 1 : IsResult(fromGdb'[i]) =>
           <<fromGdb'[i].tok, fromGdb'[i].val>> \in answered
  BY <1>3, <1>5 DEF OutputInv, m
<1>7. \A i \in 1 .. n + 1 : IsResult(log'[i]) => log'[i].tok <= Executed
  BY <1>2, <1>4, <1>5, <1>1 DEF OutputInv, n
<1>8. \A i, j \in 1 .. n + 1 :
           i < j /\ IsResult(log'[i]) /\ IsResult(log'[j]) => log'[i].tok < log'[j].tok
  <2>. SUFFICES ASSUME NEW i \in 1 .. n + 1, NEW j \in 1 .. n + 1, i < j,
                       IsResult(log'[i]), IsResult(log'[j])
                PROVE  log'[i].tok < log'[j].tok
    OBVIOUS
  <2>1. i \in 1 .. n /\ log'[i] = log[i]
    BY <1>2, <1>5
  <2>2. CASE j \in 1 .. n
    BY <1>2, <2>1, <2>2 DEF OutputInv, n
  <2>3. CASE j = n + 1
    <3>1. log'[j] = fromGdb[1] /\ 1 \in 1 .. m
      BY <1>1, <1>2, <2>3
    <3>. QED
      BY <2>1, <3>1 DEF OutputInv, n, m
  <2>. QED
    BY <1>5, <2>2, <2>3
<1>9. \A i, j \in 1 .. m - 1 :
           i < j /\ IsResult(fromGdb'[i]) /\ IsResult(fromGdb'[j])
               => fromGdb'[i].tok < fromGdb'[j].tok
  <2>. SUFFICES ASSUME NEW i \in 1 .. m - 1, NEW j \in 1 .. m - 1, i < j,
                       IsResult(fromGdb'[i]), IsResult(fromGdb'[j])
                PROVE  fromGdb'[i].tok < fromGdb'[j].tok
    OBVIOUS
  <2>1. i + 1 \in 1 .. m /\ j + 1 \in 1 .. m /\ i + 1 < j + 1
    BY <1>5
  <2>. QED
    BY <1>3, <2>1 DEF OutputInv, m
<1>10. \A i \in 1 .. n + 1, j \in 1 .. m - 1 :
           IsResult(log'[i]) /\ IsResult(fromGdb'[j]) => log'[i].tok < fromGdb'[j].tok
  <2>. SUFFICES ASSUME NEW i \in 1 .. n + 1, NEW j \in 1 .. m - 1,
                       IsResult(log'[i]), IsResult(fromGdb'[j])
                PROVE  log'[i].tok < fromGdb'[j].tok
    OBVIOUS
  <2>1. j + 1 \in 1 .. m /\ 1 < j + 1 /\ 1 \in 1 .. m /\ fromGdb'[j] = fromGdb[j + 1]
    BY <1>3, <1>5
  <2>2. CASE i \in 1 .. n
    BY <1>2, <2>1, <2>2 DEF OutputInv, n, m
  <2>3. CASE i = n + 1
    BY <1>2, <2>1, <2>3 DEF OutputInv, m
  <2>. QED
    BY <1>5, <2>2, <2>3
<1>. QED
  BY <1>2, <1>3, <1>6, <1>7, <1>8, <1>9, <1>10 DEF OutputInv

\* GDB's own records, which answer nothing, can be appended anywhere.
LEMMA QuietOutput ==
    ASSUME TypeOK, OutputInv, NEW out \in Seq(Record),
           \A i \in 1 .. Len(out) : ~IsResult(out[i]),
           fromGdb' = fromGdb \o out,
           UNCHANGED <<log, answered, Executed>>
    PROVE  OutputInv'
<1>. DEFINE m == Len(fromGdb)
            k == Len(out)
<1>1. m \in Nat /\ k \in Nat
  BY DEF TypeOK
<1>2. /\ Len(fromGdb') = m + k
      /\ \A i \in 1 .. m : fromGdb'[i] = fromGdb[i]
      /\ \A i \in 1 .. m + k : i \notin 1 .. m => fromGdb'[i] = out[i - m] /\ i - m \in 1 .. k
  BY DEF TypeOK
<1>3. \A i \in 1 .. m + k : IsResult(fromGdb'[i]) => i \in 1 .. m /\ fromGdb'[i] = fromGdb[i]
  BY <1>2
<1>. QED
  <2>. HIDE DEF k
  <2>. QED
    BY <1>2, <1>3 DEF OutputInv

\* An answer goes after every answer given before, with a higher token.
LEMMA AnswerOutput ==
    ASSUME TypeOK, InputInv, OutputInv, toGdb # <<>>, pc # "killed",
           NEW c \in Classes, NEW before \in Seq(Record),
           \A i \in 1 .. Len(before) : ~IsResult(before[i]),
           Answer(c, before)
    PROVE  /\ OutputInv'
           /\ InputInv'
           /\ Executed' = Executed + 1
           /\ Head(toGdb).tok = Executed + 1
           /\ answered \subseteq answered'
<1>. DEFINE t   == Head(toGdb).tok
            ans == Rec("result", t, c)
            mid == fromGdb \o before
            m   == Len(fromGdb)
            k   == Len(before)
<1>0. m \in Nat /\ k \in Nat /\ Len(toGdb) \in Nat /\ Len(toGdb) > 0 /\ Executed \in Nat
      /\ token \in Nat
  BY DEF TypeOK, InputInv
<1>1. t = Executed + 1
  BY <1>0 DEF InputInv, TypeOK
<1>2. Executed' = Executed + 1
  BY <1>0 DEF Executed, Answer, sessionVars, TypeOK
<1>3. InputInv'
  <2>1. \A i \in 1 .. Len(toGdb') : toGdb'[i] = toGdb[i + 1] /\ i + 1 \in 1 .. Len(toGdb)
    BY <1>0 DEF Answer, TypeOK
  <2>1a. \A i \in 1 .. Len(toGdb') : toGdb'[i].tok = Executed + (i + 1)
    BY <2>1 DEF InputInv
  <2>1b. \A i \in 1 .. Len(toGdb') : i \in Nat
    BY <1>0 DEF Answer, TypeOK
  <2>2. \A i \in 1 .. Len(toGdb') : toGdb'[i].tok = Executed' + i
    BY <2>1a, <2>1b, <1>2, <1>0
  <2>3. \A a \in answered' : a[1] <= Executed'
    <3>1. \A a \in answered : a[1] \in Nat
      BY DEF TypeOK
    <3>. QED
      BY <1>0, <1>1, <1>2, <3>1 DEF InputInv, Answer
  <2>4. Executed' \in Nat /\ pc' # "killed"
    BY <1>0, <1>2 DEF Answer, sessionVars
  <2>. QED
    BY <2>2, <2>3, <2>4 DEF InputInv
<1>4. ans \in Record /\ Prompt \in Record /\ mid \in Seq(Record)
  <2>1. t \in Nat
    BY <1>0, <1>1
  <2>2. mid \in Seq(Record)
    BY DEF TypeOK
  <2>. HIDE DEF t
  <2>. QED
    BY <2>1, <2>2, RecordTypes
<1>5. /\ Len(mid) = m + k
      /\ \A i \in 1 .. m : mid[i] = fromGdb[i]
      /\ \A i \in 1 .. m + k : i \notin 1 .. m => mid[i] = before[i - m] /\ i - m \in 1 .. k
  BY DEF TypeOK
<1>. HIDE DEF t, ans, mid
<1>6. /\ Len(fromGdb') = m + k + 2
      /\ \A i \in 1 .. m + k : fromGdb'[i] = mid[i]
      /\ fromGdb'[m + k + 1] = ans
      /\ fromGdb'[m + k + 2] = Prompt
  <2>. DEFINE tail == <<ans, Prompt>>
  <2>1. fromGdb' = mid \o tail
    BY DEF Answer, mid, ans, t
  <2>2. tail \in Seq(Record) /\ Len(tail) = 2 /\ tail[1] = ans /\ tail[2] = Prompt
    BY <1>4, ShortSeqs
  <2>. HIDE DEF m, k, tail
  <2>3. /\ Len(fromGdb') = Len(mid) + 2
        /\ \A i \in 1 .. Len(mid) : fromGdb'[i] = mid[i]
        /\ fromGdb'[Len(mid) + 1] = tail[1]
        /\ fromGdb'[Len(mid) + 2] = tail[2]
    BY <2>1, <2>2, <1>4, AppendTwo
  <2>. QED
    BY <2>2, <2>3, <1>5
<1>7. ~IsResult(Prompt) /\ ans.tok = Executed + 1 /\ ans.val = c
  BY <1>1 DEF IsResult, Prompt, Rec, ans
<1>8. \A i \in 1 .. m + k + 2 : IsResult(fromGdb'[i]) =>
         \/ i \in 1 .. m /\ fromGdb'[i] = fromGdb[i]
         \/ i = m + k + 1 /\ fromGdb'[i] = ans
  <2>. HIDE DEF m, k
  <2>1. \A i \in 1 .. m + k + 2 : i \in 1 .. m + k \/ i = m + k + 1 \/ i = m + k + 2
    BY <1>0
  <2>2. \A i \in 1 .. m : i \in 1 .. m + k
    BY <1>0
  <2>. QED
    BY <2>1, <2>2, <1>5, <1>6, <1>7 DEF k
<1>9. /\ answered \subseteq answered'
      /\ <<Executed + 1, c>> \in answered'
      /\ log' = log
  BY <1>1 DEF Answer, sessionVars, t
<1>10. \A i \in 1 .. m : IsResult(fromGdb[i]) => fromGdb[i].tok <= Executed
  BY DEF OutputInv, InputInv
<1>11. \A i \in 1 .. Len(log) : IsResult(log[i]) => log[i].tok \in Nat
  BY ResultRecord DEF TypeOK
<1>12. \A i \in 1 .. m : IsResult(fromGdb[i]) => fromGdb[i].tok \in Nat
  BY ResultRecord DEF TypeOK
<1>13. OutputInv'
  <2>1. \A i \in 1 .. Len(fromGdb') : IsResult(fromGdb'[i]) =>
           <<fromGdb'[i].tok, fromGdb'[i].val>> \in answered'
    BY <1>6, <1>7, <1>8, <1>9 DEF OutputInv
  <2>2. \A i \in 1 .. Len(log') : IsResult(log'[i]) => log'[i].tok <= Executed'
    BY <1>0, <1>2, <1>9, <1>11 DEF OutputInv
  <2>3. \A i, j \in 1 .. Len(log') :
           i < j /\ IsResult(log'[i]) /\ IsResult(log'[j]) => log'[i].tok < log'[j].tok
    BY <1>9 DEF OutputInv
  <2>4. \A i, j \in 1 .. Len(fromGdb') :
           i < j /\ IsResult(fromGdb'[i]) /\ IsResult(fromGdb'[j])
               => fromGdb'[i].tok < fromGdb'[j].tok
    <3>. SUFFICES ASSUME NEW i \in 1 .. m + k + 2, NEW j \in 1 .. m + k + 2, i < j,
                         IsResult(fromGdb'[i]), IsResult(fromGdb'[j])
                  PROVE  fromGdb'[i].tok < fromGdb'[j].tok
      BY <1>6
    <3>1. CASE i \in 1 .. m /\ j \in 1 .. m
      BY <1>8, <1>0, <3>1 DEF OutputInv
    <3>2. CASE i \in 1 .. m /\ j = m + k + 1
      BY <1>6, <1>7, <1>8, <1>0, <1>10, <1>12, <3>2
    <3>3. CASE i = m + k + 1 /\ j \in 1 .. m
      BY <1>0, <3>3
    <3>. QED
      BY <1>8, <1>0, <3>1, <3>2, <3>3
  <2>5. \A i \in 1 .. Len(log'), j \in 1 .. Len(fromGdb') :
           IsResult(log'[i]) /\ IsResult(fromGdb'[j]) => log'[i].tok < fromGdb'[j].tok
    <3>. SUFFICES ASSUME NEW i \in 1 .. Len(log), NEW j \in 1 .. m + k + 2,
                         IsResult(log[i]), IsResult(fromGdb'[j])
                  PROVE  log[i].tok < fromGdb'[j].tok
      BY <1>6, <1>9
    <3>1. CASE j \in 1 .. m /\ fromGdb'[j] = fromGdb[j]
      BY <3>1 DEF OutputInv
    <3>2. CASE j = m + k + 1 /\ fromGdb'[j] = ans
      BY <1>7, <1>0, <1>11, <3>2 DEF OutputInv
    <3>. QED
      BY <1>8, <3>1, <3>2
  <2>. QED
    BY <2>1, <2>2, <2>3, <2>4, <2>5 DEF OutputInv
<1>. QED
  BY <1>1, <1>2, <1>3, <1>9, <1>13 DEF t

LEMMA QuietSeqs ==
    ASSUME NEW x, NEW y, NEW z, ~IsResult(x), ~IsResult(y), ~IsResult(z)
    PROVE  /\ \A i \in 1 .. Len(<<x, y>>) : ~IsResult(<<x, y>>[i])
           /\ \A i \in 1 .. Len(<<x, y, z>>) : ~IsResult(<<x, y, z>>[i])
<1>1. /\ \A i \in 1 .. Len(<<x, y>>) : <<x, y>>[i] \in {x, y}
      /\ \A i \in 1 .. Len(<<x, y, z>>) : <<x, y, z>>[i] \in {x, y, z}
  OBVIOUS
<1>. QED
  BY <1>1

LEMMA WriteInput ==
    ASSUME TypeOK, InputInv, pc # "killed", NEW cmd, NEW next, next # "killed",
           Write(cmd, next), UNCHANGED <<gdb, answered>>
    PROVE  Executed' = Executed /\ InputInv' /\ token' = token + 1
<1>. DEFINE m == [tok |-> token + 1, cmd |-> cmd]
<1>1. token \in Nat /\ Len(toGdb) \in Nat
  BY DEF TypeOK
<1>2. CASE gdb = "dead"
  <2>1. Executed' = Executed
    BY <1>1, <1>2 DEF Executed, Write
  <2>. QED
    BY <1>2, <2>1 DEF Write, InputInv
<1>3. CASE gdb # "dead"
  <2>1. pc' = next /\ toGdb' = Append(toGdb, m) /\ token' = token + 1
    BY <1>3 DEF Write
  <2>. HIDE DEF m
  <2>2. /\ Len(toGdb') = Len(toGdb) + 1
        /\ \A i \in 1 .. Len(toGdb) : toGdb'[i] = toGdb[i]
        /\ toGdb'[Len(toGdb) + 1] = m
    BY <2>1 DEF TypeOK
  <2>3. Executed' = Executed /\ Executed + (Len(toGdb) + 1) = token + 1
    BY <1>1, <2>1, <2>2 DEF Executed
  <2>4. \A i \in 1 .. Len(toGdb') : i \in 1 .. Len(toGdb) \/ i = Len(toGdb) + 1
    BY <2>2, <1>1
  <2>5. m.tok = token + 1
    BY DEF m
  <2>6. \A i \in 1 .. Len(toGdb') : toGdb'[i].tok = Executed' + i
    BY <2>2, <2>3, <2>4, <2>5 DEF InputInv
  <2>. QED
    BY <2>1, <2>3, <2>6 DEF InputInv
<1>. QED
  BY <1>2, <1>3 DEF Write

LEMMA StillExecuted ==
    ASSUME UNCHANGED <<token, toGdb>>, pc # "killed", pc' # "killed"
    PROVE  Executed' = Executed
BY DEF Executed

\* The answer the session waits for is GDB's, and the last one there is.
LEMMA OwnAnswer ==
    ASSUME ProtocolInv, ReadLine, IsAnswer(call, Head(fromGdb)),
           UNCHANGED <<answered, token, toGdb>>, pc = "result", pc' # "killed"
    PROVE  /\ toGdb' = <<>>
           /\ \A i \in DOMAIN fromGdb' : fromGdb'[i].kind # "result"
<1>. USE DEF ProtocolInv
<1>1. fromGdb[1] = Head(fromGdb) /\ Len(fromGdb) \in Nat /\ Len(fromGdb) > 0
  BY DEF ReadLine, TypeOK
<1>2. IsResult(fromGdb[1]) /\ fromGdb[1].tok = token
  BY <1>1 DEF IsAnswer, IsResult, CallInv
<1>3. <<fromGdb[1].tok, fromGdb[1].val>> \in answered
  BY <1>1, <1>2 DEF OutputInv
<1>4. token <= Executed
  BY <1>2, <1>3 DEF InputInv
<1>5. token \in Nat /\ Len(toGdb) \in Nat /\ Executed = token - Len(toGdb)
  BY DEF TypeOK, Executed
<1>6. Len(toGdb) = 0
  BY <1>4, <1>5
<1>7. toGdb' = <<>>
  BY <1>6 DEF TypeOK
<1>8. ASSUME NEW i \in DOMAIN fromGdb', IsResult(fromGdb'[i])
      PROVE  FALSE
  <2>1. i + 1 \in 1 .. Len(fromGdb) /\ 1 < i + 1 /\ fromGdb'[i] = fromGdb[i + 1]
    BY <1>1 DEF ReadLine, TypeOK
  <2>2. token < fromGdb[i + 1].tok
    BY <1>1, <1>2, <2>1, <1>8 DEF OutputInv
  <2>3. fromGdb[i + 1].tok <= Executed
    BY <2>1, <1>8 DEF OutputInv, InputInv
  <2>4. fromGdb[i + 1].tok \in Nat
    BY <2>1, ResultRecord DEF TypeOK
  <2>. QED
    BY <2>2, <2>3, <2>4, <1>5, <1>6
<1>. QED
  BY <1>7, <1>8 DEF IsResult

\* What the loops keep of the call when they keep a line.
LEMMA KeepFields ==
    ASSUME NEW r \in CommandResult, NEW line
    PROVE  LET k == Keep(r, line) IN
           /\ k.tok = r.tok /\ k.cmd = r.cmd /\ k.cls = r.cls
           /\ k.timedOut = r.timedOut /\ k.sawRunning = r.sawRunning
           /\ DOMAIN k = DOMAIN r
BY DEF Keep, CommandResult

LEMMA StepProtocol == ProtocolInv /\ [Next]_vars => ProtocolInv'
<1>. SUFFICES ASSUME ProtocolInv, [Next]_vars
              PROVE  ProtocolInv'
  OBVIOUS
<1>. USE DEF ProtocolInv
<1>0. TypeOK /\ TypeOK' /\ Reading = {"result", "stop", "interrupt"}
      /\ ExecCommands = {"run", "continue"}
  BY StepType DEF Reading, ExecCommands
\* The steps of GDB: the session's side does not move.
<1>1. ASSUME UNCHANGED <<log, answered, toGdb>>, UNCHANGED sessionVars,
             NEW out \in Seq(Record), \A i \in 1 .. Len(out) : ~IsResult(out[i]),
             fromGdb' = fromGdb \o out, gdb = "booting" \/ gdb = "up"
      PROVE  ProtocolInv'
  <2>1. pc # "killed" /\ pc' = pc /\ token' = token /\ last' = last /\ call' = call
    BY <1>1 DEF InputInv, sessionVars
  <2>2. Executed' = Executed
    BY <1>1, <2>1, StillExecuted
  <2>3. OutputInv'
    BY <1>0, <1>1, <2>2, QuietOutput
  <2>4. InputInv'
    BY <1>1, <2>1, <2>2 DEF InputInv
  <2>5. CallInv'
    BY <2>1 DEF CallInv
  <2>6. Resynchronised'
    <3>. SUFFICES ASSUME pc = "idle", last.cmd = "command", ~last.timedOut
                  PROVE  toGdb' = <<>> /\ \A i \in DOMAIN fromGdb' : ~IsResult(fromGdb'[i])
      BY <2>1 DEF Resynchronised, IsResult
    <3>1. toGdb = <<>> /\ \A i \in DOMAIN fromGdb : ~IsResult(fromGdb[i])
      BY DEF LastInv, Resynchronised, IsResult
    <3>2. \A i \in DOMAIN fromGdb' : \/ i \in DOMAIN fromGdb /\ fromGdb'[i] = fromGdb[i]
                                     \/ /\ i - Len(fromGdb) \in 1 .. Len(out)
                                        /\ fromGdb'[i] = out[i - Len(fromGdb)]
      BY <1>0, <1>1 DEF TypeOK
    <3>. QED
      BY <1>1, <3>1, <3>2
  <2>. QED
    BY <1>0, <1>1, <2>1, <2>3, <2>4, <2>5, <2>6 DEF LastInv
<1>2. ASSUME NEW c \in Classes, NEW before \in Seq(Record), toGdb # <<>>,
             \A i \in 1 .. Len(before) : ~IsResult(before[i]),
             gdb = "up", Answer(c, before)
      PROVE  ProtocolInv'
  <2>1. pc # "killed" /\ pc' = pc /\ token' = token /\ last' = last /\ call' = call
    BY <1>2 DEF InputInv, Answer, sessionVars
  <2>2. OutputInv' /\ InputInv' /\ answered \subseteq answered'
    BY <1>0, <1>2, <2>1, AnswerOutput
  <2>3. CallInv'
    BY <2>1 DEF CallInv
  <2>4. ~(pc = "idle" /\ last.cmd = "command" /\ ~last.timedOut)
    BY <1>2 DEF LastInv, Resynchronised
  <2>. QED
    BY <1>0, <2>1, <2>2, <2>3, <2>4 DEF LastInv, Resynchronised
<1>3. \A c \in {"done", "error", "running", "exit"} : c \in Classes
  BY DEF Classes
<1>4. <<>> \in Seq(Record) /\ \A i \in 1 .. Len(<<>>) : ~IsResult(<<>>[i])
  OBVIOUS
<1>5. CASE GdbBoot
  <2>1. <<Banner, Prompt>> \in Seq(Record)
    BY RecordTypes, ShortSeqs
  <2>2. ~IsResult(Banner) /\ ~IsResult(Prompt)
    BY DEF IsResult, Banner, Prompt, Rec
  <2>. QED
    BY <1>5, <1>1, <2>1, <2>2, QuietSeqs DEF GdbBoot, sessionVars
<1>6. ASSUME NEW reason \in {"breakpoint-hit", "signal-received"}, InferiorStop(reason)
      PROVE  ProtocolInv'
  <2>. DEFINE stop == Rec("stopped", runToken, reason)
  <2>1. stop \in Record /\ Prompt \in Record /\ ~IsResult(stop) /\ ~IsResult(Prompt)
    BY RecordTypes DEF TypeOK, StopReasons, IsResult, Prompt, Rec
  <2>. HIDE DEF stop
  <2>2. <<stop, Prompt>> \in Seq(Record)
    BY <2>1, ShortSeqs
  <2>. QED
    BY <1>6, <1>1, <2>1, <2>2, QuietSeqs DEF InferiorStop, sessionVars, stop
<1>7. CASE InferiorExit
  <2>. DEFINE gone == Rec("gone", runToken, "")
              stop == Rec("stopped", runToken, "exited")
  <2>1. /\ gone \in Record /\ stop \in Record /\ Prompt \in Record
        /\ ~IsResult(gone) /\ ~IsResult(stop) /\ ~IsResult(Prompt)
    BY RecordTypes DEF TypeOK, StopReasons, IsResult, Prompt, Rec
  <2>. HIDE DEF gone, stop
  <2>2. <<gone, stop, Prompt>> \in Seq(Record)
    BY <2>1, ShortSeqs
  <2>. QED
    BY <1>7, <1>1, <2>1, <2>2, QuietSeqs DEF InferiorExit, sessionVars, gone, stop
<1>8. CASE GdbCommand
  BY <1>8, <1>2, <1>3, <1>4 DEF GdbCommand, GdbReads
<1>9. CASE GdbRun
  <2>. DEFINE gone == Rec("gone", runToken, "")
              before == IF inferior = "stopped" THEN <<gone>> ELSE <<>>
  <2>1. gone \in Record /\ ~IsResult(gone)
    BY RecordTypes DEF TypeOK, IsResult, Rec
  <2>2. Answer("running", before)
    BY <1>9 DEF GdbRun
  <2>. HIDE DEF gone
  <2>3. before \in Seq(Record) /\ \A i \in 1 .. Len(before) : ~IsResult(before[i])
    BY <2>1, <1>4
  <2>. HIDE DEF before
  <2>. QED
    BY <1>9, <1>2, <1>3, <2>2, <2>3 DEF GdbRun, GdbReads
<1>10. CASE GdbContinue
  BY <1>10, <1>2, <1>3, <1>4 DEF GdbContinue, GdbReads
<1>11. CASE GdbRefuse
  BY <1>11, <1>2, <1>3, <1>4 DEF GdbRefuse, GdbReads
<1>12. CASE GdbInterrupt
  BY <1>12, <1>2, <1>3, <1>4 DEF GdbInterrupt, GdbReads
<1>13. CASE GdbExit
  BY <1>13, <1>2, <1>3, <1>4 DEF GdbExit, GdbReads
<1>14. CASE GdbDie
  <2>1. Executed' = Executed
    BY <1>14 DEF GdbDie, sessionVars, Executed
  <2>. QED
    BY <1>0, <1>14, <2>1
    DEF GdbDie, sessionVars, InputInv, OutputInv, CallInv, LastInv, Resynchronised
\* The steps of the session that write a command.
<1>20. ASSUME NEW cmd, NEW next \in Reading, Write(cmd, next),
              UNCHANGED <<last, log, gdb, fromGdb, answered>>, pc # "killed"
       PROVE  /\ InputInv' /\ OutputInv' /\ LastInv'
              /\ token' = token + 1 /\ pc' \in {next, "killed"}
  <2>1. next # "killed" /\ next # "idle" /\ next # "drain" /\ next # "unstarted"
    BY <1>0
  <2>2. Executed' = Executed /\ InputInv' /\ token' = token + 1
    BY <1>0, <1>20, <2>1, WriteInput
  <2>3. OutputInv'
    BY <1>20, <2>2 DEF OutputInv
  <2>4. pc' \in {next, "killed"}
    BY <1>20 DEF Write
  <2>. QED
    BY <1>20, <2>1, <2>2, <2>3, <2>4 DEF LastInv, Resynchronised
<1>22. token \in Nat /\ token + 1 \in Nat /\ token + 1 \in 1 .. token + 1
       /\ \A t \in 1 .. token : t \in 1 .. token + 1
  BY DEF TypeOK
<1>23. CASE Command
  <2>1. InputInv' /\ OutputInv' /\ LastInv' /\ token' = token + 1 /\ pc' \in {"result", "killed"}
    BY <1>0, <1>23, <1>20 DEF Command
  <2>2. call'.tok = token + 1 /\ call'.cls = "" /\ call'.cmd = "command" /\ ~call'.timedOut
    BY <1>23 DEF Command, NewResult
  <2>3. CallInv'
    BY <1>0, <1>22, <2>1, <2>2 DEF CallInv
  <2>. QED
    BY <1>0, <2>1, <2>3
<1>24. CASE Shutdown
  <2>1. InputInv' /\ OutputInv' /\ LastInv' /\ token' = token + 1 /\ pc' \in {"result", "killed"}
    BY <1>0, <1>24, <1>20 DEF Shutdown
  <2>2. call'.tok = token + 1 /\ call'.cls = "" /\ call'.cmd = "exit" /\ ~call'.timedOut
    BY <1>24 DEF Shutdown, NewResult
  <2>3. CallInv'
    BY <1>0, <1>22, <2>1, <2>2 DEF CallInv
  <2>. QED
    BY <1>0, <2>1, <2>3
<1>25. ASSUME NEW cmd \in ExecCommands, ExecControl(cmd)
       PROVE  ProtocolInv'
  <2>1. InputInv' /\ OutputInv' /\ LastInv' /\ token' = token + 1 /\ pc' \in {"stop", "killed"}
    BY <1>0, <1>25, <1>20 DEF ExecControl
  <2>2. call'.tok = token + 1 /\ call'.cls = "" /\ call'.cmd \in ExecCommands /\ ~call'.timedOut
    BY <1>25 DEF ExecControl, NewResult
  <2>3. CallInv'
    BY <1>0, <1>22, <2>1, <2>2 DEF CallInv
  <2>. QED
    BY <1>0, <2>1, <2>3
<1>26. CASE ExecDeadline
  <2>1. InputInv' /\ OutputInv' /\ LastInv' /\ token' = token + 1
        /\ pc' \in {"interrupt", "killed"}
    BY <1>0, <1>26, <1>20 DEF ExecDeadline
  <2>2. call'.tok = call.tok /\ call'.cls = call.cls /\ call'.cmd = call.cmd /\ call'.timedOut
    BY <1>0, <1>26 DEF ExecDeadline, TypeOK, CommandResult
  <2>3. CallInv'
    BY <1>0, <1>22, <1>26, <2>1, <2>2 DEF ExecDeadline, CallInv
  <2>. QED
    BY <1>0, <2>1, <2>3
\* The steps of the session that read a line or meet a deadline.
<1>30. ASSUME UNCHANGED <<token, gdb, toGdb, answered>>, pc # "killed", pc' # "killed",
              ReadLine \/ UNCHANGED <<log, fromGdb>>
       PROVE  Executed' = Executed /\ InputInv' /\ OutputInv'
  <2>1. Executed' = Executed
    BY <1>30, StillExecuted
  <2>2. InputInv'
    BY <1>30, <2>1 DEF InputInv
  <2>3. CASE ReadLine
    BY <1>0, <1>30, <2>1, <2>2, <2>3, ReadLineOutput
  <2>4. CASE UNCHANGED <<log, fromGdb>>
    BY <1>30, <2>1, <2>2, <2>4 DEF OutputInv
  <2>. QED
    BY <1>30, <2>1, <2>2, <2>3, <2>4
<1>31. ASSUME ReadLine, IsAnswer(call, Head(fromGdb))
       PROVE  <<call.tok, Head(fromGdb).val>> \in answered /\ Head(fromGdb).val # ""
  <2>1. fromGdb[1] = Head(fromGdb) /\ 1 \in 1 .. Len(fromGdb)
    BY <1>31 DEF ReadLine, TypeOK
  <2>2. Head(fromGdb) \in Record
    BY <1>0, <1>31, ReadLineType
  <2>. QED
    BY <1>31, <2>1, <2>2, ResultRecord DEF OutputInv, IsAnswer, IsResult, Classes
<1>32. ASSUME NEW r, Return(r), UNCHANGED answered,
              r.cls # "" => <<r.tok, r.cls>> \in answered,
              r.cmd \in {"command", "exit"} /\ ~r.timedOut => r.cls # "",
              r.cmd = "command" /\ ~r.timedOut =>
                  toGdb' = <<>> /\ \A i \in DOMAIN fromGdb' : fromGdb'[i].kind # "result"
       PROVE  CallInv' /\ LastInv'
  <2>1. last' = r /\ pc' \in {"terminate", "idle"}
    BY <1>32 DEF Return
  <2>2. CallInv'
    BY <1>0, <2>1 DEF CallInv
  <2>. QED
    BY <1>32, <2>1, <2>2 DEF LastInv, Resynchronised
<1>33. ASSUME NEW r, Return(r)
       PROVE  pc' \in {"terminate", "idle"}
  BY <1>33 DEF Return
<1>34. ASSUME pc \in Reading, UNCHANGED <<pc, last, token, answered>>,
              call'.tok = call.tok, call'.cmd = call.cmd, call'.cls = call.cls,
              call'.timedOut = call.timedOut
       PROVE  CallInv' /\ LastInv'
  BY <1>0, <1>34 DEF CallInv, LastInv, Resynchronised
<1>. DEFINE line == Head(fromGdb)
            kept == Keep(call, line)
<1>35. /\ kept.tok = call.tok /\ kept.cmd = call.cmd /\ kept.cls = call.cls
       /\ kept.timedOut = call.timedOut
       /\ {"tok", "cmd", "cls", "timedOut", "sawRunning", "reason", "exited"} \subseteq DOMAIN kept
  BY <1>0, KeepFields DEF TypeOK, CommandResult
<1>36. CASE CommandLine
  <2>1. InputInv' /\ OutputInv'
    BY <1>0, <1>30, <1>33, <1>36 DEF CommandLine
  <2>2. CallInv' /\ LastInv'
    <3>1. CASE IsAnswer(call, line)
      <4>. DEFINE r == [kept EXCEPT !.cls = line.val]
      <4>1. Return(r) /\ UNCHANGED answered /\ ReadLine
        BY <1>36, <3>1 DEF CommandLine, IsAnswer
      <4>2. r.cls = line.val /\ r.tok = call.tok /\ r.cmd = call.cmd
        BY <1>35
      <4>3. toGdb' = <<>> /\ \A i \in DOMAIN fromGdb' : fromGdb'[i].kind # "result"
        BY <1>33, <1>36, <3>1, <4>1, OwnAnswer DEF CommandLine
      <4>. HIDE DEF r
      <4>. QED
        BY <1>31, <1>32, <3>1, <4>1, <4>2, <4>3
    <3>2. CASE ~IsAnswer(call, line)
      <4>. HIDE DEF kept
      <4>. QED
        BY <1>0, <1>34, <1>35, <1>36, <3>2 DEF CommandLine, kept
    <3>. QED
      BY <3>1, <3>2
  <2>. QED
    BY <1>0, <2>1, <2>2
<1>37. CASE CommandDeadline
  <2>. DEFINE r == [call EXCEPT !.timedOut = TRUE]
  <2>1. Return(r) /\ UNCHANGED answered /\ UNCHANGED gdbVars /\ UNCHANGED <<token, log>>
    BY <1>37 DEF CommandDeadline, gdbVars
  <2>2. r.cls = "" /\ r.timedOut
    BY <1>0, <1>37 DEF CommandDeadline, CallInv, TypeOK, CommandResult
  <2>3. InputInv' /\ OutputInv'
    BY <1>0, <1>30, <1>33, <1>37, <2>1 DEF CommandDeadline, gdbVars
  <2>. HIDE DEF r
  <2>. QED
    BY <1>0, <1>32, <2>1, <2>2, <2>3
<1>38. CASE ExecLine
  <2>. DEFINE accepted == IsAnswer(call, line) /\ line.val = "running"
              rejected == IsAnswer(call, line) /\ line.val = "error" /\ ~call.sawRunning
              r1 == [kept EXCEPT !.reason = line.val, !.exited = @ \/ line.val = "exited"]
              r2 == [kept EXCEPT !.reason = "exited", !.exited = TRUE]
              r3 == [kept EXCEPT !.cls = "error"]
              r4 == [kept EXCEPT !.sawRunning = @ \/ accepted]
  <2>1. InputInv' /\ OutputInv'
    BY <1>0, <1>30, <1>33, <1>38 DEF ExecLine
  <2>2. /\ r1.cls = "" /\ r1.tok = call.tok /\ r1.cmd = call.cmd
        /\ r2.cls = "" /\ r2.tok = call.tok /\ r2.cmd = call.cmd /\ r2.timedOut = call.timedOut
        /\ r3.cls = "error" /\ r3.tok = call.tok /\ r3.cmd = call.cmd
        /\ r4.cls = "" /\ r4.tok = call.tok /\ r4.cmd = call.cmd /\ r4.timedOut = call.timedOut
        /\ call.cls = "" /\ call.cmd \in {"run", "continue"}
    <3>1. call.cls = "" /\ call.cmd \in {"run", "continue"}
      BY <1>0, <1>38 DEF ExecLine, CallInv
    <3>. HIDE DEF kept
    <3>. QED
      BY <3>1, <1>35
  <2>. HIDE DEF r1, r2, r3, r4
  <2>3. \/ UNCHANGED <<pc, call, last>>
        \/ Return(r1)
        \/ call' = r2 /\ UNCHANGED <<pc, last>>
        \/ Return(r3) /\ rejected
        \/ call' = r4 /\ UNCHANGED <<pc, last>>
    BY <1>38 DEF ExecLine, r1, r2, r3, r4
  <2>4. UNCHANGED <<answered, token>> /\ pc \in Reading /\ ReadLine
    BY <1>0, <1>38 DEF ExecLine
  <2>5. CASE UNCHANGED <<pc, call, last>>
    BY <1>0, <1>34, <2>1, <2>4, <2>5
  <2>6. CASE Return(r1)
    BY <1>0, <1>32, <2>1, <2>2, <2>4, <2>6
  <2>7. CASE call' = r2 /\ UNCHANGED <<pc, last>>
    BY <1>0, <1>34, <2>1, <2>2, <2>4, <2>7
  <2>8. CASE Return(r3) /\ rejected
    BY <1>0, <1>31, <1>32, <2>1, <2>2, <2>4, <2>8
  <2>9. CASE call' = r4 /\ UNCHANGED <<pc, last>>
    BY <1>0, <1>34, <2>1, <2>2, <2>4, <2>9
  <2>. QED
    BY <1>0, <2>1, <2>3, <2>5, <2>6, <2>7, <2>8, <2>9
<1>39. CASE InterruptLine
  <2>. DEFINE r == [kept EXCEPT !.reason = "interrupted_by_tool_deadline"]
  <2>1. InputInv' /\ OutputInv'
    BY <1>0, <1>30, <1>33, <1>39 DEF InterruptLine
  <2>2. r.cls = "" /\ r.tok = call.tok /\ r.cmd \in {"run", "continue"}
    <3>1. call.cls = "" /\ call.cmd \in {"run", "continue"}
      BY <1>0, <1>39 DEF InterruptLine, CallInv
    <3>. HIDE DEF kept
    <3>. QED
      BY <3>1, <1>35
  <2>. HIDE DEF r, kept
  <2>3. \/ UNCHANGED <<pc, call, last>>
        \/ Return(r)
        \/ call' = kept /\ UNCHANGED <<pc, last>>
    BY <1>39 DEF InterruptLine, r, kept
  <2>4. UNCHANGED <<answered, token>> /\ pc \in Reading
    BY <1>0, <1>39 DEF InterruptLine
  <2>. QED
    BY <1>0, <1>32, <1>34, <1>35, <2>1, <2>2, <2>3, <2>4
<1>40. CASE InterruptDeadline
  <2>1. InputInv' /\ OutputInv'
    BY <1>0, <1>30, <1>33, <1>40 DEF InterruptDeadline, gdbVars
  <2>2. call.cls = "" /\ call.cmd \in {"run", "continue"} /\ Return(call) /\ UNCHANGED answered
    BY <1>0, <1>40 DEF InterruptDeadline, CallInv, gdbVars
  <2>. QED
    BY <1>0, <1>32, <2>1, <2>2
\* Starting and ending.
<1>41. CASE Start
  <2>1. Executed' = Executed
    BY <1>41, StillExecuted DEF Start
  <2>. QED
    BY <1>0, <1>41, <2>1 DEF Start, InputInv, OutputInv, CallInv, LastInv, Resynchronised
<1>42. CASE DrainLine \/ DrainDeadline
  <2>1. pc = "drain" /\ pc' \in {"drain", "idle"} /\ UNCHANGED <<token, gdb, toGdb, answered, last, call>>
        /\ (ReadLine \/ UNCHANGED <<log, fromGdb>>)
    BY <1>42 DEF DrainLine, DrainDeadline, gdbVars
  <2>2. InputInv' /\ OutputInv'
    BY <1>30, <2>1
  <2>. QED
    BY <1>0, <2>1, <2>2 DEF CallInv, LastInv, Resynchronised
<1>43. CASE Terminated
  <2>1. pc = "terminate" /\ pc' = "closed" /\ UNCHANGED gdbVars /\ UNCHANGED <<token, last, call, log>>
    BY <1>43 DEF Terminated
  <2>2. InputInv' /\ OutputInv'
    BY <1>30, <2>1 DEF gdbVars
  <2>. QED
    BY <1>0, <2>1, <2>2 DEF CallInv, LastInv, Resynchronised, gdbVars
<1>44. CASE Ended \/ UNCHANGED vars
  <2>1. UNCHANGED vars
    BY <1>44 DEF Ended
  <2>2. Executed' = Executed
    BY <2>1 DEF vars, Executed
  <2>. QED
    BY <1>0, <2>1, <2>2
    DEF vars, InputInv, OutputInv, CallInv, LastInv, Resynchronised
<1>. QED
  BY <1>5, <1>6, <1>7, <1>8, <1>9, <1>10, <1>11, <1>12, <1>13, <1>14, <1>23, <1>24,
     <1>25, <1>26, <1>36, <1>37, <1>38, <1>39, <1>40, <1>41, <1>42, <1>43, <1>44
  DEF Next, SessionStep, GdbStep

THEOREM ProtocolCorrect == Spec => []ProtocolInv
BY InitProtocol, StepProtocol, PTL DEF Spec

\* A call reported as answered carries GDB's answer to that very command,
\* whatever timeouts came before it (command_blocking, gdb_session.cpp:153-165).
THEOREM OwnReply == Spec => []AnsweredByOwnReply
<1>1. ProtocolInv => AnsweredByOwnReply
  BY DEF ProtocolInv, LastInv, AnsweredByOwnReply
<1>. QED
  BY <1>1, ProtocolCorrect, PTL

\* One answered call leaves neither a command nor an answer of an earlier one
\* behind.
THEOREM Resynchronises == Spec => []Resynchronised
<1>1. ProtocolInv => Resynchronised
  BY DEF ProtocolInv, LastInv
<1>. QED
  BY <1>1, ProtocolCorrect, PTL

\* The answers in the session log are in the order of the commands.
THEOREM InOrder == Spec => []AnswersInOrder
<1>1. ProtocolInv => AnswersInOrder
  <2>1. ProtocolInv => DOMAIN log = 1 .. Len(log)
    BY DEF ProtocolInv, TypeOK
  <2>. QED
    BY <2>1 DEF ProtocolInv, OutputInv, AnswersInOrder, IsResult
<1>. QED
  BY <1>1, ProtocolCorrect, PTL

-------------------------------------------------------------------------------
(* Refinement *)

Current == IF pc \in Reading THEN call.tok ELSE 0

LEMMA InitCalls == Init => Calls!Init
<1>. SUFFICES ASSUME Init PROVE Calls!Init
  OBVIOUS
<1>1. last.tok = 0 /\ last.cls = "" /\ HowEnded(last) = "none"
  BY DEF Init, NoResult, NewResult, HowEnded
<1>2. Executed = 0
  <2>1. token = 0 /\ Len(toGdb) = 0 /\ pc = "unstarted"
    BY DEF Init
  <2>. QED
    BY <2>1 DEF Executed
<1>. QED
  BY <1>1, <1>2 DEF Init, Calls!Init, Reading

LEMMA CallNumbered == ProtocolInv /\ pc \in Reading => call.tok # 0
<1>. SUFFICES ASSUME ProtocolInv, pc \in Reading PROVE call.tok # 0
  OBVIOUS
<1>1. call.tok \in 1 .. token /\ token \in Nat
  BY DEF ProtocolInv, CallInv, TypeOK
<1>. QED
  BY <1>1

\* A call returns r.
LEMMA ReturnCalls ==
    ASSUME ProtocolInv, pc \in Reading, NEW r, Return(r),
           UNCHANGED <<token, toGdb, answered>>,
           r.tok = call.tok, r.cmd # "none",
           r.timedOut => r.cls = "",
           r.cls # "" => r.cls \in Classes /\ <<r.tok, r.cls>> \in answered
    PROVE  Calls!Next
<1>1. pc \notin {"killed", "idle", "terminate"} /\ pc' \in {"idle", "terminate"}
  BY DEF Return, Reading
<1>2. Executed' = Executed
  BY <1>1, StillExecuted
<1>3. pc' \notin Reading /\ call.tok # 0
  BY <1>1, CallNumbered DEF Reading
<1>4. last' = r
  BY DEF Return
<1>. DEFINE how == HowEnded(r)
<1>5. how \in {"answer", "stop", "timeout"} /\ (how = "answer" => r.cls # "")
      /\ (how # "answer" => r.cls = "")
  BY DEF HowEnded
<1>6. r.cls \in Classes \cup {""}
  OBVIOUS
<1>7. Calls!Return(how, r.cls)
  <2>. HIDE DEF how
  <2>. QED
    BY <1>2, <1>3, <1>4, <1>5, <1>6 DEF Calls!Return, how
<1>. HIDE DEF how
<1>. QED
  BY <1>5, <1>6, <1>7 DEF Calls!Next

LEMMA StutterCalls ==
    ASSUME Executed' = Executed, Current' = Current,
           UNCHANGED <<token, answered, last>>
    PROVE  UNCHANGED Calls!vars
BY DEF Calls!vars, Current, HowEnded

LEMMA StepCalls == ProtocolInv /\ [Next]_vars => [Calls!Next]_(Calls!vars)
<1>. SUFFICES ASSUME ProtocolInv, [Next]_vars
              PROVE  Calls!Next \/ UNCHANGED Calls!vars
  OBVIOUS
<1>0. TypeOK /\ TypeOK' /\ Reading = {"result", "stop", "interrupt"}
      /\ token \in Nat /\ Executed \in Nat
  BY StepType DEF Reading, ProtocolInv, TypeOK, InputInv
\* A call is made, or ends the program.
<1>1. ASSUME NEW cmd, NEW next \in Reading, Write(cmd, next), pc = "idle",
             call' = NewResult(token + 1, cmd), UNCHANGED <<last, gdb, answered>>
      PROVE  Calls!Next
  <2>1. next # "killed" /\ pc \notin Reading /\ pc # "killed"
    BY <1>0, <1>1
  <2>2. Executed' = Executed /\ token' = token + 1
    BY <1>0, <1>1, <2>1, WriteInput DEF ProtocolInv
  <2>3. call'.tok = token + 1
    BY <1>1 DEF NewResult
  <2>4. pc' = next \/ pc' = "killed"
    BY <1>1 DEF Write
  <2>5. CASE pc' = next
    <3>1. Calls!Call
      BY <1>1, <2>1, <2>2, <2>3, <2>5 DEF Calls!Call, HowEnded
    <3>. QED
      BY <3>1 DEF Calls!Next
  <2>6. CASE pc' = "killed"
    <3>1. pc' \notin Reading
      BY <1>0, <2>6
    <3>2. Calls!Stop
      BY <1>1, <2>2, <3>1 DEF Calls!Stop, HowEnded
    <3>. QED
      BY <3>2 DEF Calls!Next
  <2>. QED
    BY <2>4, <2>5, <2>6
<1>2. CASE Command
  BY <1>0, <1>1, <1>2 DEF Command
<1>3. CASE Shutdown
  BY <1>0, <1>1, <1>3 DEF Shutdown
<1>4. ASSUME NEW cmd \in ExecCommands, ExecControl(cmd)
      PROVE  Calls!Next
  BY <1>0, <1>1, <1>4 DEF ExecControl
\* An interrupt is sent, or ends the program.
<1>5. CASE ExecDeadline
  <2>1. Executed' = Executed /\ token' = token + 1 /\ pc = "stop"
    BY <1>0, <1>5, WriteInput DEF ProtocolInv, ExecDeadline
  <2>2. call'.tok = call.tok /\ UNCHANGED <<last, answered>>
    BY <1>0, <1>5 DEF ExecDeadline, TypeOK, CommandResult
  <2>3. call.tok # 0
    BY <1>0, <2>1, CallNumbered
  <2>4. pc' = "interrupt" \/ pc' = "killed"
    BY <1>5 DEF Write, ExecDeadline
  <2>5. CASE pc' = "interrupt"
    <3>1. Calls!Interrupt
      BY <1>0, <2>1, <2>2, <2>3, <2>5 DEF Calls!Interrupt, HowEnded
    <3>. QED
      BY <3>1 DEF Calls!Next
  <2>6. CASE pc' = "killed"
    <3>1. pc' \notin Reading
      BY <1>0, <2>6
    <3>2. Calls!Stop
      BY <2>1, <2>2, <3>1 DEF Calls!Stop, HowEnded
    <3>. QED
      BY <3>2 DEF Calls!Next
  <2>. QED
    BY <2>4, <2>5, <2>6
\* A line is read, or a deadline met.
<1>6. ASSUME pc \in Reading, UNCHANGED <<pc, token, toGdb, answered, last>>,
             call'.tok = call.tok
      PROVE  UNCHANGED Calls!vars
  <2>1. Executed' = Executed
    BY <1>6 DEF Executed
  <2>. QED
    BY <1>6, <2>1, StutterCalls DEF Current
<1>. DEFINE line == Head(fromGdb)
            kept == Keep(call, line)
<1>7. /\ kept.tok = call.tok /\ kept.cmd = call.cmd /\ kept.cls = call.cls
      /\ kept.timedOut = call.timedOut
      /\ {"tok", "cmd", "cls", "timedOut", "sawRunning", "reason", "exited"} \subseteq DOMAIN kept
  BY <1>0, KeepFields DEF TypeOK, CommandResult
<1>8. pc \in Reading => call.cls = "" /\ call.cmd # "none"
  BY <1>0 DEF ProtocolInv, CallInv, ExecCommands
<1>9. ASSUME ReadLine, IsAnswer(call, line)
      PROVE  <<call.tok, line.val>> \in answered /\ line.val \in Classes
  <2>1. fromGdb[1] = Head(fromGdb) /\ 1 \in 1 .. Len(fromGdb)
    BY <1>0, <1>9 DEF ReadLine, TypeOK
  <2>2. Head(fromGdb) \in Record
    BY <1>0, <1>9, ReadLineType
  <2>. QED
    BY <1>9, <2>1, <2>2, ResultRecord DEF ProtocolInv, OutputInv, IsAnswer, IsResult
<1>10. CASE CommandLine
  <2>. DEFINE r == [kept EXCEPT !.cls = line.val]
  <2>1. r.tok = call.tok /\ r.cmd = call.cmd /\ r.cls = line.val /\ ~r.timedOut /\ pc = "result"
    <3>1. ~call.timedOut /\ pc = "result"
      BY <1>10 DEF CommandLine, ProtocolInv, CallInv
    <3>. HIDE DEF kept
    <3>. QED
      BY <3>1, <1>7
  <2>2. \/ UNCHANGED <<pc, call, last>>
        \/ call' = kept /\ UNCHANGED <<pc, last>>
        \/ Return(r) /\ IsAnswer(call, line)
    BY <1>10 DEF CommandLine
  <2>3. UNCHANGED <<token, toGdb, answered>> /\ ReadLine
    BY <1>10 DEF CommandLine
  <2>. HIDE DEF r, kept
  <2>4. CASE UNCHANGED <<pc, call, last>> \/ (call' = kept /\ UNCHANGED <<pc, last>>)
    BY <1>0, <1>6, <1>7, <2>1, <2>3, <2>4
  <2>5. CASE Return(r) /\ IsAnswer(call, line)
    BY <1>0, <1>8, <1>9, <2>1, <2>3, <2>5, ReturnCalls
  <2>. QED
    BY <2>2, <2>4, <2>5
<1>11. CASE CommandDeadline
  <2>. DEFINE r == [call EXCEPT !.timedOut = TRUE]
  <2>1. r.tok = call.tok /\ r.cmd = call.cmd /\ r.cls = call.cls
    BY <1>0 DEF TypeOK, CommandResult
  <2>2. Return(r) /\ UNCHANGED <<token, toGdb, answered>> /\ pc \in Reading
    BY <1>0, <1>11 DEF CommandDeadline, gdbVars
  <2>. HIDE DEF r
  <2>. QED
    BY <1>8, <2>1, <2>2, ReturnCalls
<1>12. CASE ExecLine
  <2>. DEFINE accepted == IsAnswer(call, line) /\ line.val = "running"
              rejected == IsAnswer(call, line) /\ line.val = "error" /\ ~call.sawRunning
              r1 == [kept EXCEPT !.reason = line.val, !.exited = @ \/ line.val = "exited"]
              r2 == [kept EXCEPT !.reason = "exited", !.exited = TRUE]
              r3 == [kept EXCEPT !.cls = "error"]
              r4 == [kept EXCEPT !.sawRunning = @ \/ accepted]
  <2>1. UNCHANGED <<token, toGdb, answered>> /\ ReadLine /\ pc \in Reading /\ ~call.timedOut
    BY <1>0, <1>12 DEF ExecLine, ProtocolInv, CallInv
  <2>2. /\ r1.cls = call.cls /\ r1.tok = call.tok /\ r1.cmd = call.cmd
        /\ r2.tok = call.tok /\ r4.tok = call.tok
        /\ r3.cls = "error" /\ r3.tok = call.tok /\ r3.cmd = call.cmd
        /\ r3.timedOut = call.timedOut
    <3>. HIDE DEF kept
    <3>. QED
      BY <1>7
  <2>. HIDE DEF r1, r2, r3, r4
  <2>3. \/ UNCHANGED <<pc, call, last>>
        \/ Return(r1)
        \/ call' = r2 /\ UNCHANGED <<pc, last>>
        \/ Return(r3) /\ rejected
        \/ call' = r4 /\ UNCHANGED <<pc, last>>
    BY <1>12 DEF ExecLine, r1, r2, r3, r4
  <2>4. CASE \/ UNCHANGED <<pc, call, last>>
             \/ call' = r2 /\ UNCHANGED <<pc, last>>
             \/ call' = r4 /\ UNCHANGED <<pc, last>>
    BY <1>6, <2>1, <2>2, <2>4
  <2>5. CASE Return(r1)
    BY <1>8, <2>1, <2>2, <2>5, ReturnCalls
  <2>6. CASE Return(r3) /\ rejected
    BY <1>8, <1>9, <2>1, <2>2, <2>6, ReturnCalls
  <2>. QED
    BY <2>3, <2>4, <2>5, <2>6
<1>13. CASE InterruptLine
  <2>. DEFINE r == [kept EXCEPT !.reason = "interrupted_by_tool_deadline"]
  <2>1. UNCHANGED <<token, toGdb, answered>> /\ pc \in Reading
    BY <1>0, <1>13 DEF InterruptLine
  <2>2. r.cls = call.cls /\ r.tok = call.tok /\ r.cmd = call.cmd /\ kept.tok = call.tok
    <3>. HIDE DEF kept
    <3>. QED
      BY <1>7
  <2>. HIDE DEF r, kept
  <2>3. \/ UNCHANGED <<pc, call, last>>
        \/ Return(r)
        \/ call' = kept /\ UNCHANGED <<pc, last>>
    BY <1>13 DEF InterruptLine, r, kept
  <2>. QED
    BY <1>6, <1>8, <2>1, <2>2, <2>3, ReturnCalls
<1>14. CASE InterruptDeadline
  BY <1>0, <1>8, <1>14, ReturnCalls DEF InterruptDeadline, gdbVars
\* The steps of GDB.
<1>15. ASSUME NEW c \in Classes, NEW before \in Seq(Record), toGdb # <<>>,
              \A i \in 1 .. Len(before) : ~IsResult(before[i]),
              gdb = "up", Answer(c, before)
       PROVE  Calls!Next
  <2>1. pc # "killed"
    BY <1>15 DEF ProtocolInv, InputInv
  <2>2. Executed' = Executed + 1 /\ Head(toGdb).tok = Executed + 1
    BY <1>0, <1>15, <2>1, AnswerOutput DEF ProtocolInv
  <2>3. Len(toGdb) \in Nat /\ Len(toGdb) > 0
    BY <1>0, <1>15 DEF TypeOK
  <2>4. Executed < token
    BY <1>0, <2>1, <2>3 DEF Executed
  <2>5. Calls!Execute(c)
    BY <1>15, <2>2, <2>4 DEF Calls!Execute, Answer, sessionVars, HowEnded
  <2>. QED
    BY <2>5 DEF Calls!Next
<1>16. \A c \in {"done", "error", "running", "exit"} : c \in Classes
  BY DEF Classes
<1>17. <<>> \in Seq(Record) /\ \A i \in 1 .. Len(<<>>) : ~IsResult(<<>>[i])
  OBVIOUS
<1>18. CASE GdbCommand
  BY <1>15, <1>16, <1>17, <1>18 DEF GdbCommand, GdbReads
<1>19. CASE GdbRun
  <2>. DEFINE gone == Rec("gone", runToken, "")
              before == IF inferior = "stopped" THEN <<gone>> ELSE <<>>
  <2>1. gone \in Record /\ ~IsResult(gone)
    BY <1>0, RecordTypes DEF TypeOK, IsResult, Rec
  <2>2. Answer("running", before)
    BY <1>19 DEF GdbRun
  <2>. HIDE DEF gone
  <2>3. before \in Seq(Record) /\ \A i \in 1 .. Len(before) : ~IsResult(before[i])
    BY <2>1, <1>17
  <2>. HIDE DEF before
  <2>. QED
    BY <1>15, <1>16, <1>19, <2>2, <2>3 DEF GdbRun, GdbReads
<1>20. CASE GdbContinue
  BY <1>15, <1>16, <1>17, <1>20 DEF GdbContinue, GdbReads
<1>21. CASE GdbRefuse
  BY <1>15, <1>16, <1>17, <1>21 DEF GdbRefuse, GdbReads
<1>22. CASE GdbInterrupt
  BY <1>15, <1>16, <1>17, <1>22 DEF GdbInterrupt, GdbReads
<1>23. CASE GdbExit
  BY <1>15, <1>16, <1>17, <1>23 DEF GdbExit, GdbReads
\* The steps that concern no call.
<1>24. ASSUME UNCHANGED <<token, toGdb, answered, last, call>>,
              pc' = pc \/ (pc \notin Reading \cup {"killed"} /\ pc' \notin Reading \cup {"killed"})
       PROVE  UNCHANGED Calls!vars
  <2>1. Executed' = Executed /\ Current' = Current
    BY <1>24 DEF Executed, Current
  <2>. QED
    BY <1>24, <2>1, StutterCalls
<1>25. CASE GdbBoot
  BY <1>24, <1>25 DEF GdbBoot, sessionVars
<1>26. ASSUME NEW reason, InferiorStop(reason)
       PROVE  UNCHANGED Calls!vars
  BY <1>24, <1>26 DEF InferiorStop, sessionVars
<1>27. CASE InferiorExit
  BY <1>24, <1>27 DEF InferiorExit, sessionVars
<1>28. CASE GdbDie
  BY <1>24, <1>28 DEF GdbDie, sessionVars
<1>29. CASE Start
  BY <1>0, <1>24, <1>29 DEF Start
<1>30. CASE DrainLine \/ DrainDeadline
  BY <1>0, <1>24, <1>30 DEF DrainLine, DrainDeadline, gdbVars
<1>31. CASE Terminated
  BY <1>0, <1>24, <1>31 DEF Terminated, gdbVars
<1>32. CASE Ended \/ UNCHANGED vars
  BY <1>24, <1>32 DEF Ended, vars
<1>. QED
  BY <1>2, <1>3, <1>4, <1>5, <1>10, <1>11, <1>12, <1>13, <1>14, <1>18, <1>19, <1>20,
     <1>21, <1>22, <1>23, <1>25, <1>26, <1>27, <1>28, <1>29, <1>30, <1>31, <1>32
  DEF Next, SessionStep, GdbStep

\* The session implements the abstract calls: callers see one call at a time,
\* executed once and in order, ended by its own answer, a stop or a timeout.
THEOREM Refinement == Spec => ImplementsCalls
<1>1. ProtocolInv /\ [Next]_vars => [Calls!Next]_(Calls!vars)
  BY StepCalls
<1>. QED
  BY InitCalls, <1>1, ProtocolCorrect, PTL DEF Spec, ImplementsCalls, Calls!Spec
================================================================================
