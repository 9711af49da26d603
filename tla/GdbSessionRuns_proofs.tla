-------------------------- MODULE GdbSessionRuns_proofs --------------------------
(***************************************************************************)
(* Proofs about the lines and the stops a call of GdbSession returns, for  *)
(* every value of MaxToken: each kept line can be found in the session     *)
(* log, and, until a run has been given up, a stop is that of the run the  *)
(* call made.                                                              *)
(***************************************************************************)
EXTENDS GdbSession_proofs

-------------------------------------------------------------------------------
(* Results and the log *)

\* The lines of r are lines of l, by number and in order.
TracedIn(r, l) ==
    /\ Len(r.seqs) = Len(r.lines)
    /\ \A i \in DOMAIN r.seqs : r.seqs[i] \in DOMAIN l /\ l[r.seqs[i]] = r.lines[i]
    /\ \A i, j \in DOMAIN r.seqs : i < j => r.seqs[i] < r.seqs[j]

LEMMA LongerLog ==
    ASSUME NEW r \in CommandResult, NEW l \in Seq(Record), NEW line \in Record,
           TracedIn(r, l)
    PROVE  TracedIn(r, Append(l, line))
<1>1. \A k \in DOMAIN l : k \in DOMAIN Append(l, line) /\ Append(l, line)[k] = l[k]
  OBVIOUS
<1>. QED
  BY <1>1 DEF TracedIn

\* A line is kept with the number it gets in the log.
LEMMA KeptIsTraced ==
    ASSUME log \in Seq(Record), NEW r \in CommandResult, NEW line \in Record,
           TracedIn(r, log)
    PROVE  TracedIn(Keep(r, line), Append(log, line))
<1>. DEFINE k == Keep(r, line)
            n == Len(r.lines)
            l == Append(log, line)
<1>0. r.lines \in Seq(Record) /\ r.seqs \in Seq(Nat)
  BY DEF CommandResult
<1>1. /\ r.lines \in Seq(Record) /\ r.seqs \in Seq(Nat)
      /\ n \in Nat /\ Len(log) \in Nat /\ Len(log) + 1 \in Nat
  BY <1>0
<1>2. k.lines = Append(r.lines, line) /\ k.seqs = Append(r.seqs, Len(log) + 1)
  BY DEF Keep, CommandResult
<1>3. Len(r.seqs) = n
  BY DEF TracedIn
<1>4. /\ Len(k.lines) = n + 1 /\ Len(k.seqs) = n + 1 /\ DOMAIN k.seqs = 1 .. n + 1
      /\ \A i \in 1 .. n : k.lines[i] = r.lines[i] /\ k.seqs[i] = r.seqs[i]
      /\ k.lines[n + 1] = line /\ k.seqs[n + 1] = Len(log) + 1
  <2>. DEFINE ls == r.lines
              qs == r.seqs
              m  == Len(log) + 1
  <2>1. ls \in Seq(Record) /\ qs \in Seq(Nat) /\ Len(ls) = n /\ Len(qs) = n /\ m \in Nat
    BY <1>1, <1>3
  <2>2. k.lines = Append(ls, line) /\ k.seqs = Append(qs, m)
    BY <1>2
  <2>. HIDE DEF ls, qs, m, k, n
  <2>3. /\ Len(k.lines) = n + 1 /\ \A i \in 1 .. n : k.lines[i] = ls[i]
        /\ k.lines[n + 1] = line
    BY <2>1, <2>2
  <2>4. /\ Len(k.seqs) = n + 1 /\ \A i \in 1 .. n : k.seqs[i] = qs[i]
        /\ k.seqs[n + 1] = m /\ DOMAIN k.seqs = 1 .. n + 1
    BY <2>1, <2>2
  <2>. QED
    BY <2>3, <2>4 DEF ls, qs, m
<1>5. /\ DOMAIN l = 1 .. Len(log) + 1
      /\ \A j \in DOMAIN log : l[j] = log[j] /\ j \in DOMAIN l /\ j < Len(log) + 1
      /\ l[Len(log) + 1] = line
  BY <1>1
<1>. HIDE DEF k, l
<1>6. \A i \in 1 .. n : /\ r.seqs[i] \in DOMAIN log /\ log[r.seqs[i]] = r.lines[i]
                        /\ \A j \in 1 .. n : i < j => r.seqs[i] < r.seqs[j]
  <2>1. DOMAIN r.seqs = 1 .. n
    BY <1>1, <1>3
  <2>. QED
    BY <2>1 DEF TracedIn
<1>. HIDE DEF n
<1>7. \A i \in 1 .. n + 1 : i \in 1 .. n \/ i = n + 1
  BY <1>1
<1>8. \A i, j \in 1 .. n + 1 : i < j => i \in 1 .. n
  BY <1>1
<1>9. \A i \in 1 .. n + 1 : k.seqs[i] \in DOMAIN l /\ l[k.seqs[i]] = k.lines[i]
  <2>1. Len(log) + 1 \in DOMAIN l
    BY <1>1, <1>5
  <2>. QED
    BY <1>4, <1>5, <1>6, <1>7, <2>1, Zenon
<1>10. \A i, j \in 1 .. n + 1 : i < j => k.seqs[i] < k.seqs[j]
  BY <1>4, <1>5, <1>6, <1>7, <1>8
<1>. QED
  BY <1>4, <1>9, <1>10 DEF TracedIn, k, l

LEMMA NothingIsTraced == ASSUME NEW t, NEW c, NEW l PROVE TracedIn(NewResult(t, c), l)
BY DEF NewResult, TracedIn

LEMMA InitTraced == Init => TracedToLog
<1>1. Init => TracedIn(call, log) /\ TracedIn(last, log)
  BY NothingIsTraced DEF Init, NoResult
<1>. QED
  BY <1>1 DEF TracedToLog, TracedIn

LEMMA StepTraced == TypeOK /\ TracedToLog /\ [Next]_vars => TracedToLog'
<1>. SUFFICES ASSUME TypeOK, TracedToLog, [Next]_vars
              PROVE  TracedIn(call', log') /\ TracedIn(last', log')
  BY DEF TracedToLog, TracedIn
<1>0. /\ TracedIn(call, log) /\ TracedIn(last, log)
      /\ call \in CommandResult /\ last \in CommandResult /\ log \in Seq(Record)
  BY DEF TracedToLog, TracedIn, TypeOK
\* Steps that read nothing: a result is kept, made, or returned with other marks.
<1>1. ASSUME UNCHANGED log, last' \in {last, call} \/ TracedIn(last', log),
             call' = call \/ TracedIn(call', log)
      PROVE  TracedIn(call', log') /\ TracedIn(last', log')
  BY <1>0, <1>1
<1>2. ASSUME NEW r \in CommandResult, NEW q, TracedIn(r, log),
             q.lines = r.lines, q.seqs = r.seqs
      PROVE  TracedIn(q, log)
  BY <1>2 DEF TracedIn
<1>3. ASSUME NEW r, NEW l, TracedIn(r, l), Return(r)
      PROVE  TracedIn(last', l) /\ TracedIn(call', l)
  BY <1>3, NothingIsTraced DEF Return, NoResult
<1>4. CASE Command
  BY <1>1, <1>4, NothingIsTraced DEF Command
<1>5. ASSUME NEW cmd \in ExecCommands, ExecControl(cmd)
      PROVE  TracedIn(call', log') /\ TracedIn(last', log')
  BY <1>1, <1>5, NothingIsTraced DEF ExecControl
<1>6. CASE Shutdown
  BY <1>1, <1>6, NothingIsTraced DEF Shutdown
<1>7. CASE ExecDeadline
  <2>1. call'.lines = call.lines /\ call'.seqs = call.seqs
    BY <1>0, <1>7 DEF ExecDeadline, CommandResult
  <2>. QED
    BY <1>0, <1>1, <1>2, <1>7, <2>1 DEF ExecDeadline
<1>8. CASE CommandDeadline
  <2>. DEFINE r == [call EXCEPT !.timedOut = TRUE]
  <2>1. r.lines = call.lines /\ r.seqs = call.seqs
    BY <1>0 DEF CommandResult
  <2>2. Return(r) /\ UNCHANGED log
    BY <1>8 DEF CommandDeadline
  <2>. HIDE DEF r
  <2>. QED
    BY <1>0, <1>2, <1>3, <2>1, <2>2
<1>9. CASE InterruptDeadline
  BY <1>0, <1>3, <1>9 DEF InterruptDeadline
\* Steps that read a line.
<1>. DEFINE line == Head(fromGdb)
            kept == Keep(call, line)
<1>10. ASSUME ReadLine
       PROVE  /\ log' = Append(log, line) /\ line \in Record
              /\ TracedIn(call, log') /\ TracedIn(last, log') /\ TracedIn(kept, log')
              /\ {"lines", "seqs", "cls", "reason", "exited", "sawRunning"} \subseteq DOMAIN kept
  <2>1. log' = Append(log, line) /\ line \in Record
    BY <1>10, ReadLineType DEF ReadLine
  <2>2. DOMAIN kept = DOMAIN call
    BY <1>0, KeepFields
  <2>. HIDE DEF kept, line
  <2>. QED
    BY <1>0, <2>1, <2>2, LongerLog, KeptIsTraced DEF kept, CommandResult
<1>11. ASSUME ReadLine,
              \/ UNCHANGED <<call, last>>
              \/ TracedIn(call', log') /\ UNCHANGED last
              \/ \E r : TracedIn(r, log') /\ Return(r)
       PROVE  TracedIn(call', log') /\ TracedIn(last', log')
  BY <1>3, <1>10, <1>11
<1>12. ASSUME NEW q, q.lines = kept.lines, q.seqs = kept.seqs, ReadLine
       PROVE  TracedIn(q, log')
  BY <1>10, <1>12 DEF TracedIn
<1>13. CASE DrainLine
  BY <1>11, <1>13 DEF DrainLine
<1>14. CASE CommandLine
  <2>. DEFINE r == [kept EXCEPT !.cls = line.val]
  <2>1. ReadLine
    BY <1>14 DEF CommandLine
  <2>2. r.lines = kept.lines /\ r.seqs = kept.seqs
    <3>. HIDE DEF kept
    <3>. QED
      BY <1>10, <2>1
  <2>3. \/ UNCHANGED <<call, last>>
        \/ call' = kept /\ UNCHANGED last
        \/ Return(r)
    BY <1>14 DEF CommandLine
  <2>. HIDE DEF kept, r
  <2>. QED
    BY <1>10, <1>11, <1>12, <2>1, <2>2, <2>3
<1>15. CASE ExecLine
  <2>. DEFINE accepted == IsAnswer(call, line) /\ line.val = "running"
              r1 == [kept EXCEPT !.reason = line.val, !.exited = @ \/ line.val = "exited"]
              r2 == [kept EXCEPT !.reason = "exited", !.exited = TRUE]
              r3 == [kept EXCEPT !.cls = "error"]
              r4 == [kept EXCEPT !.sawRunning = @ \/ accepted]
  <2>1. ReadLine
    BY <1>15 DEF ExecLine
  <2>2. /\ r1.lines = kept.lines /\ r1.seqs = kept.seqs
        /\ r2.lines = kept.lines /\ r2.seqs = kept.seqs
        /\ r3.lines = kept.lines /\ r3.seqs = kept.seqs
        /\ r4.lines = kept.lines /\ r4.seqs = kept.seqs
    <3>. HIDE DEF kept
    <3>. QED
      BY <1>10, <2>1
  <2>. HIDE DEF r1, r2, r3, r4
  <2>3. \/ UNCHANGED <<call, last>>
        \/ Return(r1) \/ Return(r3)
        \/ call' = r2 /\ UNCHANGED last
        \/ call' = r4 /\ UNCHANGED last
    BY <1>15 DEF ExecLine, r1, r2, r3, r4
  <2>4. TracedIn(r1, log') /\ TracedIn(r2, log') /\ TracedIn(r3, log') /\ TracedIn(r4, log')
    BY <1>12, <2>1, <2>2
  <2>. QED
    BY <1>11, <2>1, <2>3, <2>4
<1>16. CASE InterruptLine
  <2>. DEFINE r == [kept EXCEPT !.reason = "interrupted_by_tool_deadline"]
  <2>1. ReadLine
    BY <1>16 DEF InterruptLine
  <2>2. r.lines = kept.lines /\ r.seqs = kept.seqs
    <3>. HIDE DEF kept
    <3>. QED
      BY <1>10, <2>1
  <2>3. \/ UNCHANGED <<call, last>>
        \/ Return(r)
        \/ call' = kept /\ UNCHANGED last
    BY <1>16 DEF InterruptLine
  <2>. HIDE DEF kept, r
  <2>. QED
    BY <1>10, <1>11, <1>12, <2>1, <2>2, <2>3
\* Steps that concern no result.
<1>17. CASE UNCHANGED <<call, last, log>>
  BY <1>1, <1>17
<1>18. CASE Start \/ DrainDeadline \/ Terminated \/ Ended \/ UNCHANGED vars
  BY <1>17, <1>18 DEF Start, DrainDeadline, Terminated, Ended, vars
<1>19. CASE GdbStep
  <2>1. UNCHANGED <<call, last, log>>
    BY <1>19 DEF GdbStep, GdbBoot, GdbCommand, GdbRun, GdbContinue, GdbRefuse, GdbInterrupt,
                 GdbExit, GdbDie, InferiorStop, InferiorExit, Answer, sessionVars
  <2>. QED
    BY <1>17, <2>1
<1>. QED
  BY <1>4, <1>5, <1>6, <1>7, <1>8, <1>9, <1>13, <1>14, <1>15, <1>16, <1>18, <1>19
  DEF Next, SessionStep

\* Evidence made of a result can be traced to the raw log of the session, line by
\* line and in order (read_line, gdb_session.cpp).
THEOREM Traced == Spec => []TracedToLog
<1>1. Init => TypeOK /\ TracedToLog
  BY InitType, InitTraced
<1>2. TypeOK /\ TracedToLog /\ [Next]_vars => (TypeOK /\ TracedToLog)'
  BY StepType, StepTraced
<1>. QED
  BY <1>1, <1>2, PTL DEF Spec

-------------------------------------------------------------------------------
(* Runs and stops.  A run a call has made is waiting in GDB's input, going on,
   reported as stopped in the pipe, or over. *)

\* GDB has answered a command at most once.
OneAnswer == \A a, b \in answered : a[1] = b[1] => a = b

NoStop(s) == \A i \in DOMAIN s : s[i].kind # "stopped"
NoExec    == \A i \in DOMAIN toGdb : toGdb[i].cmd \notin ExecCommands

\* One stop is in s, and it is that of the run with token t.
StopReported(s, t) ==
    \E i \in DOMAIN s : /\ s[i].kind = "stopped" /\ s[i].tok = t
                        /\ \A j \in DOMAIN s : s[j].kind = "stopped" => j = i

\* No run is waiting, going on or reported.
Quiet == inferior # "running" /\ NoExec /\ NoStop(fromGdb)

\* Nothing but the run of this call may be waiting.
RunWaits ==
    /\ inferior # "running" /\ NoStop(fromGdb)
    /\ \A i \in DOMAIN toGdb : toGdb[i].cmd \in ExecCommands => toGdb[i].tok = call.tok

RunGoes ==
    /\ inferior = "running" /\ NoExec /\ NoStop(fromGdb)
    /\ runToken = call.tok
    /\ <<call.tok, "running">> \in answered

RunReported ==
    /\ inferior # "running" /\ NoExec
    /\ <<call.tok, "running">> \in answered
    /\ StopReported(fromGdb, call.tok)

OwnRun == NoStop(call.lines) /\ (RunWaits \/ RunGoes \/ RunReported)

StopsAreOwn(r) == \A i \in DOMAIN r.lines : r.lines[i].kind = "stopped" => r.lines[i].tok = r.tok

RunInv ==
    ~abandoned =>
        /\ last.cmd \in ExecCommands => StopsAreOwn(last)
        /\ pc \in {"unstarted", "drain", "idle", "result"} => Quiet
        /\ pc \in {"stop", "interrupt"} => OwnRun

LEMMA InitRun == Init => OneAnswer /\ RunInv
<1>. SUFFICES ASSUME Init PROVE OneAnswer /\ RunInv
  OBVIOUS
<1>1. last.cmd \notin ExecCommands /\ pc = "unstarted"
  BY DEF Init, NoResult, NewResult, ExecCommands
<1>2. Quiet
  BY DEF Init, Quiet, NoExec, NoStop
<1>3. OneAnswer
  BY DEF Init, OneAnswer
<1>. QED
  BY <1>1, <1>2, <1>3 DEF RunInv

LEMMA TailFacts ==
    ASSUME NEW S, NEW s \in Seq(S), s # <<>>
    PROVE  /\ Head(s) = s[1] /\ 1 \in DOMAIN s /\ Tail(s) \in Seq(S)
           /\ \A i \in DOMAIN Tail(s) : i + 1 \in DOMAIN s /\ Tail(s)[i] = s[i + 1] /\ i + 1 > 1
           /\ \A i \in DOMAIN s : i = 1 \/ (i - 1 \in DOMAIN Tail(s) /\ Tail(s)[i - 1] = s[i])
OBVIOUS

LEMMA NoStopTail ==
    ASSUME NEW s \in Seq(Record), s # <<>>, NoStop(s)
    PROVE  NoStop(Tail(s)) /\ Head(s).kind # "stopped"
BY TailFacts DEF NoStop

LEMMA ConcatFacts ==
    ASSUME NEW S, NEW s \in Seq(S), NEW t \in Seq(S)
    PROVE  /\ \A i \in DOMAIN s : i \in DOMAIN (s \o t) /\ (s \o t)[i] = s[i]
           /\ \A i \in DOMAIN (s \o t) :
                 \/ i \in DOMAIN s /\ (s \o t)[i] = s[i]
                 \/ i - Len(s) \in DOMAIN t /\ (s \o t)[i] = t[i - Len(s)]
OBVIOUS

LEMMA NoStopConcat ==
    ASSUME NEW s \in Seq(Record), NEW t \in Seq(Record), NoStop(s), NoStop(t)
    PROVE  NoStop(s \o t)
BY ConcatFacts DEF NoStop

\* Records that report no stop can be appended to the pipe.
LEMMA QuietPipe ==
    ASSUME TypeOK, NEW out \in Seq(Record), NoStop(out), fromGdb' = fromGdb \o out
    PROVE  /\ NoStop(fromGdb) => NoStop(fromGdb')
           /\ \A t : StopReported(fromGdb, t) => StopReported(fromGdb', t)
<1>1. fromGdb \in Seq(Record)
  BY DEF TypeOK
<1>2. \A j \in DOMAIN fromGdb' : fromGdb'[j].kind = "stopped" =>
          j \in DOMAIN fromGdb /\ fromGdb'[j] = fromGdb[j]
  BY <1>1, ConcatFacts DEF NoStop
<1>3. \A j \in DOMAIN fromGdb : j \in DOMAIN fromGdb' /\ fromGdb'[j] = fromGdb[j]
  BY <1>1, ConcatFacts
<1>4. NoStop(fromGdb) => NoStop(fromGdb')
  BY <1>2 DEF NoStop
<1>5. \A t : StopReported(fromGdb, t) => StopReported(fromGdb', t)
  <2>. SUFFICES ASSUME NEW t, StopReported(fromGdb, t) PROVE StopReported(fromGdb', t)
    OBVIOUS
  <2>1. PICK i \in DOMAIN fromGdb : /\ fromGdb[i].kind = "stopped" /\ fromGdb[i].tok = t
                                    /\ \A j \in DOMAIN fromGdb : fromGdb[j].kind = "stopped" => j = i
    BY DEF StopReported
  <2>2. i \in DOMAIN fromGdb' /\ fromGdb'[i] = fromGdb[i]
    BY <1>3, <2>1
  <2>3. \A j \in DOMAIN fromGdb' : fromGdb'[j].kind = "stopped" => j = i
    BY <1>2, <2>1
  <2>. QED
    BY <2>1, <2>2, <2>3 DEF StopReported
<1>. QED
  BY <1>4, <1>5

\* GDB takes a command from its input.
LEMMA InputTail ==
    ASSUME ProtocolInv, toGdb # <<>>, toGdb' = Tail(toGdb)
    PROVE  /\ NoExec => NoExec' /\ Head(toGdb).cmd \notin ExecCommands
           /\ \A t : (\A i \in DOMAIN toGdb : toGdb[i].cmd \in ExecCommands => toGdb[i].tok = t)
                  => /\ \A i \in DOMAIN toGdb' : toGdb'[i].cmd \in ExecCommands => toGdb'[i].tok = t
                     /\ Head(toGdb).cmd \in ExecCommands => NoExec' /\ Head(toGdb).tok = t
<1>1. toGdb \in Seq(Message) /\ Executed \in Nat
  BY DEF ProtocolInv, TypeOK, InputInv
<1>2. /\ Head(toGdb) = toGdb[1] /\ 1 \in DOMAIN toGdb
      /\ \A i \in DOMAIN toGdb' : i + 1 \in DOMAIN toGdb /\ toGdb'[i] = toGdb[i + 1] /\ i + 1 > 1
  BY <1>1, TailFacts
<1>3. \A i \in DOMAIN toGdb : toGdb[i].tok = Executed + i /\ i \in Nat
  BY <1>1 DEF ProtocolInv, InputInv
<1>4. \A i \in DOMAIN toGdb : i > 1 => toGdb[i].tok # toGdb[1].tok
  BY <1>1, <1>2, <1>3
<1>. QED
  BY <1>2, <1>4 DEF NoExec

\* The steps of GDB that make no run and end none by a stop.
LEMMA QuietGdb ==
    ASSUME ProtocolInv, RunInv, UNCHANGED sessionVars,
           UNCHANGED runToken, answered \subseteq answered',
           inferior' \in {inferior, "none"},
           \/ UNCHANGED toGdb
           \/ toGdb # <<>> /\ toGdb' = Tail(toGdb),
           NEW out \in Seq(Record), NoStop(out), fromGdb' = fromGdb \o out
    PROVE  RunInv'
<1>1. TypeOK /\ UNCHANGED <<pc, call, last, abandoned>>
  BY DEF ProtocolInv, sessionVars
<1>2. NoStop(fromGdb) => NoStop(fromGdb')
  BY <1>1, QuietPipe
<1>3. NoExec => NoExec'
  BY InputTail DEF NoExec
<1>4. Quiet => Quiet'
  BY <1>2, <1>3 DEF Quiet
<1>5. RunWaits => RunWaits'
  <2>1. \A t : (\A i \in DOMAIN toGdb : toGdb[i].cmd \in ExecCommands => toGdb[i].tok = t)
                  => \A i \in DOMAIN toGdb' : toGdb'[i].cmd \in ExecCommands => toGdb'[i].tok = t
    BY InputTail
  <2>. QED
    BY <1>1, <1>2, <2>1 DEF RunWaits
<1>6. RunGoes => RunGoes' \/ RunWaits'
  <2>1. NoExec' => \A i \in DOMAIN toGdb' : toGdb'[i].cmd \notin ExecCommands
    BY DEF NoExec
  <2>. QED
    BY <1>1, <1>2, <1>3, <2>1 DEF RunGoes, RunWaits
<1>7. RunReported => RunReported'
  <2>1. StopReported(fromGdb, call.tok) => StopReported(fromGdb', call.tok)
    BY <1>1, QuietPipe
  <2>. QED
    BY <1>1, <1>3, <2>1 DEF RunReported
<1>. QED
  BY <1>1, <1>4, <1>5, <1>6, <1>7 DEF RunInv, OwnRun, StopsAreOwn

\* A run begins.
LEMMA RunBegins ==
    ASSUME ProtocolInv, RunInv, UNCHANGED sessionVars,
           toGdb # <<>>, Head(toGdb).cmd \in ExecCommands, toGdb' = Tail(toGdb),
           inferior # "running", inferior' = "running", runToken' = Head(toGdb).tok,
           <<Head(toGdb).tok, "running">> \in answered',
           NEW out \in Seq(Record), NoStop(out), fromGdb' = fromGdb \o out
    PROVE  RunInv'
<1>1. TypeOK /\ UNCHANGED <<pc, call, last, abandoned>>
  BY DEF ProtocolInv, sessionVars
<1>2. ~NoExec
  BY InputTail
<1>3. RunWaits => RunGoes'
  <2>1. NoStop(fromGdb) => NoStop(fromGdb')
    BY <1>1, QuietPipe
  <2>2. (\A i \in DOMAIN toGdb : toGdb[i].cmd \in ExecCommands => toGdb[i].tok = call.tok)
            => NoExec' /\ Head(toGdb).tok = call.tok
    BY InputTail
  <2>. QED
    BY <1>1, <2>1, <2>2 DEF RunWaits, RunGoes
<1>. QED
  BY <1>1, <1>2, <1>3 DEF RunInv, OwnRun, StopsAreOwn, Quiet, RunReported, RunGoes

\* The run stops, and GDB reports it.
LEMMA RunStops ==
    ASSUME ProtocolInv, RunInv, UNCHANGED sessionVars, UNCHANGED <<toGdb, answered>>,
           inferior = "running", inferior' # "running",
           NEW out \in Seq(Record), fromGdb' = fromGdb \o out,
           NEW k \in DOMAIN out, out[k].kind = "stopped", out[k].tok = runToken,
           \A j \in DOMAIN out : out[j].kind = "stopped" => j = k
    PROVE  RunInv'
<1>1. TypeOK /\ UNCHANGED <<pc, call, last, abandoned>>
  BY DEF ProtocolInv, sessionVars
<1>2. RunGoes => RunReported'
  <2>. SUFFICES ASSUME RunGoes PROVE RunReported'
    OBVIOUS
  <2>. DEFINE n == Len(fromGdb)
  <2>1. fromGdb \in Seq(Record) /\ n \in Nat /\ k \in Nat /\ NoStop(fromGdb)
    BY <1>1 DEF TypeOK, RunGoes
  <2>2. n + k \in DOMAIN fromGdb' /\ fromGdb'[n + k] = out[k]
    BY <2>1
  <2>3. \A j \in DOMAIN fromGdb' : fromGdb'[j].kind = "stopped" => j = n + k
    <3>1. \A j \in DOMAIN fromGdb' : \/ j \in DOMAIN fromGdb /\ fromGdb'[j] = fromGdb[j]
                                     \/ j - n \in DOMAIN out /\ fromGdb'[j] = out[j - n]
      BY <2>1, ConcatFacts
    <3>2. \A j \in DOMAIN fromGdb' : j \in Nat
      BY <2>1
    <3>3. \A j \in DOMAIN fromGdb' : fromGdb'[j].kind = "stopped" => j - n = k
      BY <2>1, <3>1 DEF NoStop
    <3>. QED
      BY <2>1, <3>2, <3>3
  <2>4. NoExec' /\ <<call.tok, "running">> \in answered' /\ runToken = call.tok
    BY DEF RunGoes, NoExec
  <2>. HIDE DEF n
  <2>. QED
    BY <1>1, <2>2, <2>3, <2>4 DEF RunReported, StopReported
<1>3. ~Quiet /\ ~RunWaits /\ ~RunReported
  BY DEF Quiet, RunWaits, RunReported
<1>. QED
  BY <1>1, <1>2, <1>3 DEF RunInv, OwnRun, StopsAreOwn

\* A line is read: what it says of the run of this call.
LEMMA LineOfRun ==
    ASSUME ProtocolInv, ReadLine, UNCHANGED <<toGdb, inferior, runToken, answered>>
    PROVE  /\ Quiet => Quiet' /\ Head(fromGdb).kind # "stopped"
           /\ (RunWaits \/ RunGoes \/ RunReported) =>
                IF Head(fromGdb).kind = "stopped"
                THEN Head(fromGdb).tok = call.tok /\ Quiet'
                ELSE call'.tok = call.tok => (RunWaits \/ RunGoes \/ RunReported)'
<1>1. fromGdb \in Seq(Record) /\ fromGdb # <<>> /\ fromGdb' = Tail(fromGdb)
  BY DEF ProtocolInv, TypeOK, ReadLine
<1>. DEFINE line == Head(fromGdb)
<1>2. NoStop(fromGdb) => NoStop(fromGdb') /\ line.kind # "stopped"
  BY <1>1, NoStopTail
<1>3. Quiet => Quiet' /\ line.kind # "stopped"
  BY <1>2 DEF Quiet, NoExec
<1>4. RunWaits => line.kind # "stopped" /\ (call'.tok = call.tok => RunWaits')
  BY <1>2 DEF RunWaits
<1>5. RunGoes => line.kind # "stopped" /\ (call'.tok = call.tok => RunGoes')
  BY <1>2 DEF RunGoes, NoExec
<1>6. ASSUME RunReported
      PROVE  IF line.kind = "stopped" THEN line.tok = call.tok /\ Quiet'
             ELSE call'.tok = call.tok => RunReported'
  <2>1. PICK i \in DOMAIN fromGdb :
            /\ fromGdb[i].kind = "stopped" /\ fromGdb[i].tok = call.tok
            /\ \A j \in DOMAIN fromGdb : fromGdb[j].kind = "stopped" => j = i
    BY <1>6 DEF RunReported, StopReported
  <2>2. /\ line = fromGdb[1] /\ 1 \in DOMAIN fromGdb /\ i \in Nat
        /\ \A j \in DOMAIN fromGdb' : j + 1 \in DOMAIN fromGdb /\ fromGdb'[j] = fromGdb[j + 1]
                                      /\ j + 1 > 1 /\ j \in Nat
        /\ i = 1 \/ (i - 1 \in DOMAIN fromGdb' /\ fromGdb'[i - 1] = fromGdb[i])
    BY <1>1, TailFacts
  <2>3. CASE line.kind = "stopped"
    <3>1. i = 1
      BY <2>1, <2>2, <2>3
    <3>2. NoStop(fromGdb')
      BY <2>1, <2>2, <3>1 DEF NoStop
    <3>. QED
      BY <1>6, <2>1, <2>2, <2>3, <3>1, <3>2 DEF Quiet, RunReported, NoExec
  <2>4. CASE line.kind # "stopped"
    <3>1. i # 1 /\ i - 1 \in DOMAIN fromGdb' /\ fromGdb'[i - 1] = fromGdb[i]
      BY <2>1, <2>2, <2>4
    <3>2. \A j \in DOMAIN fromGdb' : fromGdb'[j].kind = "stopped" => j + 1 = i
      BY <2>1, <2>2
    <3>3. \A j \in DOMAIN fromGdb' : fromGdb'[j].kind = "stopped" => j = i - 1
      BY <2>2, <3>2
    <3>4. StopReported(fromGdb', call.tok)
      BY <2>1, <3>1, <3>3 DEF StopReported
    <3>. QED
      BY <1>6, <2>4, <3>4 DEF RunReported, NoExec
  <2>. QED
    BY <2>3, <2>4
<1>. QED
  BY <1>3, <1>4, <1>5, <1>6

\* A run that was refused never was.
LEMMA RefusedRun ==
    ASSUME ProtocolInv, OneAnswer, <<call.tok, "error">> \in answered,
           RunWaits \/ RunGoes \/ RunReported
    PROVE  Quiet
<1>1. ~(<<call.tok, "running">> \in answered)
  BY DEF OneAnswer
<1>2. RunWaits
  BY <1>1 DEF RunGoes, RunReported
<1>3. NoExec
  <2>1. call.tok \in Nat /\ call.tok <= Executed /\ Executed \in Nat
    BY DEF ProtocolInv, InputInv, TypeOK, CommandResult
  <2>2. \A i \in DOMAIN toGdb : toGdb[i].tok = Executed + i /\ i \in Nat /\ i > 0
    BY <2>1 DEF ProtocolInv, InputInv, TypeOK
  <2>3. \A i \in DOMAIN toGdb : toGdb[i].tok # call.tok
    BY <2>1, <2>2
  <2>. QED
    BY <1>2, <2>3 DEF RunWaits, NoExec
<1>. QED
  BY <1>2, <1>3 DEF RunWaits, Quiet

\* A command is written.
LEMMA WriteExec ==
    ASSUME TypeOK, NEW cmd \in Commands, NEW next, Write(cmd, next)
    PROVE  /\ cmd \notin ExecCommands /\ NoExec => NoExec'
           /\ \A t : /\ \A i \in DOMAIN toGdb : toGdb[i].cmd \in ExecCommands => toGdb[i].tok = t
                     /\ cmd \in ExecCommands => t = token + 1
                     => \A i \in DOMAIN toGdb' : toGdb'[i].cmd \in ExecCommands => toGdb'[i].tok = t
<1>. DEFINE m == [tok |-> token + 1, cmd |-> cmd]
<1>1. toGdb \in Seq(Message) /\ (toGdb' = toGdb \/ toGdb' = Append(toGdb, m))
  BY DEF TypeOK, Write
<1>2. m.tok = token + 1 /\ m.cmd = cmd
  OBVIOUS
<1>. HIDE DEF m
<1>3. \A i \in DOMAIN toGdb' : (i \in DOMAIN toGdb /\ toGdb'[i] = toGdb[i]) \/ toGdb'[i] = m
  BY <1>1
<1>. QED
  BY <1>2, <1>3 DEF NoExec

LEMMA StepOneAnswer == ProtocolInv /\ OneAnswer /\ [Next]_vars => OneAnswer'
<1>. SUFFICES ASSUME ProtocolInv, OneAnswer, [Next]_vars PROVE OneAnswer'
  OBVIOUS
<1>1. ASSUME NEW c, NEW before, Answer(c, before), toGdb # <<>>
      PROVE  OneAnswer'
  <2>1. answered' = answered \cup {<<Head(toGdb).tok, c>>}
    BY <1>1 DEF Answer
  <2>2. Head(toGdb).tok = Executed + 1 /\ Executed \in Nat
    <3>1. toGdb \in Seq(Message) /\ Executed \in Nat
      BY DEF ProtocolInv, InputInv, TypeOK
    <3>2. Head(toGdb) = toGdb[1] /\ 1 \in 1 .. Len(toGdb)
      BY <1>1, <3>1
    <3>. QED
      BY <3>1, <3>2 DEF ProtocolInv, InputInv
  <2>3. \A a \in answered : a[1] <= Executed /\ a[1] \in Nat
    BY DEF ProtocolInv, InputInv, TypeOK
  <2>4. \A a \in answered : a[1] # Executed + 1
    BY <2>2, <2>3
  <2>. QED
    BY <2>1, <2>2, <2>4 DEF OneAnswer
<1>2. CASE UNCHANGED answered
  BY <1>2 DEF OneAnswer
<1>3. CASE SessionStep
  BY <1>2, <1>3 DEF SessionStep, Start, DrainLine, DrainDeadline, Command, CommandLine,
       CommandDeadline, ExecControl, ExecLine, ExecDeadline, InterruptLine, InterruptDeadline,
       Shutdown, Terminated, gdbVars
<1>4. CASE GdbStep
  <2>1. CASE GdbCommand \/ GdbRun \/ GdbContinue \/ GdbRefuse \/ GdbInterrupt \/ GdbExit
    BY <1>1, <2>1 DEF GdbCommand, GdbRun, GdbContinue, GdbRefuse, GdbInterrupt, GdbExit, GdbReads
  <2>2. CASE ~(GdbCommand \/ GdbRun \/ GdbContinue \/ GdbRefuse \/ GdbInterrupt \/ GdbExit)
    BY <1>2, <1>4, <2>2 DEF GdbStep, GdbBoot, GdbDie, InferiorStop, InferiorExit
  <2>. QED
    BY <2>1, <2>2
<1>5. CASE Ended \/ UNCHANGED vars
  BY <1>2, <1>5 DEF Ended, vars
<1>. QED
  BY <1>3, <1>4, <1>5 DEF Next

LEMMA StepRun == ProtocolInv /\ OneAnswer /\ RunInv /\ [Next]_vars => RunInv'
<1>. SUFFICES ASSUME ProtocolInv, OneAnswer, RunInv, [Next]_vars PROVE RunInv'
  OBVIOUS
<1>0. /\ TypeOK /\ Reading = {"result", "stop", "interrupt"} /\ ExecCommands = {"run", "continue"}
      /\ <<>> \in Seq(Record) /\ NoStop(<<>>)
  BY DEF ProtocolInv, Reading, ExecCommands, NoStop
\* The steps of GDB.
<1>1. \A c, t : /\ Rec("result", t, c).kind # "stopped" /\ Prompt.kind # "stopped"
                /\ Banner.kind # "stopped" /\ Rec("gone", t, "").kind # "stopped"
  BY DEF Rec, Prompt, Banner
<1>2. ASSUME NEW c \in Classes, NEW before \in Seq(Record), NoStop(before), toGdb # <<>>,
             Answer(c, before)
      PROVE  /\ UNCHANGED sessionVars /\ answered \subseteq answered' /\ toGdb' = Tail(toGdb)
             /\ <<Head(toGdb).tok, c>> \in answered'
             /\ \E out \in Seq(Record) : NoStop(out) /\ fromGdb' = fromGdb \o out
  <2>. DEFINE ans  == Rec("result", Head(toGdb).tok, c)
              tail == <<ans, Prompt>>
  <2>1. ans \in Record /\ Prompt \in Record /\ ans.kind # "stopped" /\ Prompt.kind # "stopped"
    BY <1>0, <1>1, <1>2, AnswerType, RecordTypes
  <2>2. fromGdb' = (fromGdb \o before) \o tail
    BY <1>2 DEF Answer
  <2>. HIDE DEF ans
  <2>3. tail \in Seq(Record) /\ NoStop(tail)
    BY <2>1 DEF NoStop
  <2>. HIDE DEF tail
  <2>4. before \o tail \in Seq(Record) /\ NoStop(before \o tail)
    BY <1>2, <2>3, NoStopConcat
  <2>5. fromGdb' = fromGdb \o (before \o tail)
    BY <1>0, <2>2, <2>3 DEF TypeOK
  <2>. QED
    BY <1>2, <2>4, <2>5 DEF Answer
<1>3. \A c \in {"done", "error", "running", "exit"} : c \in Classes
  BY DEF Classes
<1>4. ASSUME NEW c \in Classes, toGdb # <<>>, Answer(c, <<>>),
             UNCHANGED runToken, inferior' \in {inferior, "none"}
      PROVE  RunInv'
  <2>1. PICK out \in Seq(Record) : NoStop(out) /\ fromGdb' = fromGdb \o out
    BY <1>0, <1>2, <1>4
  <2>. QED
    BY <1>0, <1>2, <1>4, <2>1, QuietGdb
<1>5. CASE GdbCommand \/ GdbRefuse \/ GdbInterrupt \/ GdbExit
  BY <1>3, <1>4, <1>5 DEF GdbCommand, GdbRefuse, GdbInterrupt, GdbExit, GdbReads
<1>6. ASSUME NEW before \in Seq(Record), NoStop(before), Answer("running", before),
             toGdb # <<>>, Head(toGdb).cmd \in ExecCommands,
             inferior # "running", inferior' = "running", runToken' = Head(toGdb).tok
      PROVE  RunInv'
  <2>1. PICK out \in Seq(Record) : NoStop(out) /\ fromGdb' = fromGdb \o out
    BY <1>2, <1>3, <1>6
  <2>. QED
    BY <1>2, <1>3, <1>6, <2>1, RunBegins
<1>7. CASE GdbContinue
  BY <1>0, <1>6, <1>7 DEF GdbContinue, GdbReads
<1>8. CASE GdbRun
  <2>. DEFINE gone == Rec("gone", runToken, "")
              before == IF inferior = "stopped" THEN <<gone>> ELSE <<>>
  <2>1. gone \in Record /\ gone.kind # "stopped"
    BY <1>0, <1>1, RecordTypes DEF TypeOK
  <2>2. Answer("running", before)
    BY <1>8 DEF GdbRun
  <2>. HIDE DEF gone
  <2>3. before \in Seq(Record) /\ NoStop(before)
    BY <1>0, <2>1 DEF NoStop
  <2>. HIDE DEF before
  <2>. QED
    BY <1>0, <1>6, <1>8, <2>2, <2>3 DEF GdbRun, GdbReads
<1>9. CASE GdbBoot
  <2>1. <<Banner, Prompt>> \in Seq(Record) /\ NoStop(<<Banner, Prompt>>)
    <3>1. \A x, y : x.kind # "stopped" /\ y.kind # "stopped" => NoStop(<<x, y>>)
      BY DEF NoStop
    <3>. QED
      BY <1>1, <3>1, RecordTypes, ShortSeqs
  <2>. QED
    BY <1>9, <2>1, QuietGdb DEF GdbBoot
<1>10. CASE GdbDie
  <2>1. fromGdb' = fromGdb \o <<>>
    BY <1>0, <1>10 DEF GdbDie, TypeOK
  <2>. QED
    BY <1>0, <1>10, <2>1, QuietGdb DEF GdbDie
<1>11. ASSUME NEW reason \in {"breakpoint-hit", "signal-received"}, InferiorStop(reason)
       PROVE  RunInv'
  <2>. DEFINE stop == Rec("stopped", runToken, reason)
              out  == <<stop, Prompt>>
  <2>1. stop \in Record /\ Prompt \in Record /\ stop.kind = "stopped" /\ stop.tok = runToken
    BY <1>0, RecordTypes DEF TypeOK, StopReasons, Rec
  <2>2. fromGdb' = fromGdb \o out
    BY <1>11 DEF InferiorStop
  <2>. HIDE DEF stop
  <2>3. out \in Seq(Record) /\ DOMAIN out = 1 .. 2 /\ out[1] = stop /\ out[2] = Prompt
    BY <2>1, ShortSeqs
  <2>. HIDE DEF out
  <2>3a. 1 \in DOMAIN out /\ \A j \in DOMAIN out : j = 1 \/ j = 2
    BY <2>3
  <2>3b. Prompt.kind # "stopped"
    BY DEF Prompt, Rec
  <2>3c. UNCHANGED <<toGdb, answered>>
    BY <1>11 DEF InferiorStop
  <2>4. \A j \in DOMAIN out : out[j].kind = "stopped" => j = 1
    BY <2>3, <2>3a, <2>3b
  <2>. QED
    BY <1>11, <2>1, <2>2, <2>3, <2>3a, <2>3c, <2>4, RunStops DEF InferiorStop
<1>12. CASE InferiorExit
  <2>. DEFINE gone == Rec("gone", runToken, "")
              stop == Rec("stopped", runToken, "exited")
              out  == <<gone, stop, Prompt>>
  <2>1. /\ gone \in Record /\ stop \in Record /\ Prompt \in Record
        /\ stop.kind = "stopped" /\ stop.tok = runToken
    BY <1>0, RecordTypes DEF TypeOK, StopReasons, Rec
  <2>1a. gone.kind # "stopped"
    BY <1>1
  <2>2. fromGdb' = fromGdb \o out
    BY <1>12 DEF InferiorExit
  <2>. HIDE DEF stop, gone
  <2>3. out \in Seq(Record) /\ DOMAIN out = 1 .. 3 /\ out[1] = gone /\ out[2] = stop /\ out[3] = Prompt
    BY <2>1, ShortSeqs
  <2>. HIDE DEF out
  <2>3a. 2 \in DOMAIN out /\ \A j \in DOMAIN out : j = 1 \/ j = 2 \/ j = 3
    BY <2>3
  <2>3b. Prompt.kind # "stopped"
    BY DEF Prompt, Rec
  <2>3c. UNCHANGED <<toGdb, answered>>
    BY <1>12 DEF InferiorExit
  <2>4. \A j \in DOMAIN out : out[j].kind = "stopped" => j = 2
    BY <2>1a, <2>3, <2>3a, <2>3b
  <2>. QED
    BY <1>12, <2>1, <2>2, <2>3, <2>3a, <2>3c, <2>4, RunStops DEF InferiorExit
\* The steps of the session that write a command.
<1>20. ASSUME NEW cmd \in Commands \ ExecCommands, Write(cmd, "result"), pc = "idle",
              UNCHANGED <<last, fromGdb, inferior, abandoned>>
       PROVE  RunInv'
  <2>1. NoExec => NoExec'
    BY <1>0, <1>20, WriteExec
  <2>2. Quiet => Quiet'
    BY <1>20, <2>1 DEF Quiet
  <2>3. pc' \in {"result", "killed"}
    BY <1>20 DEF Write
  <2>. QED
    BY <1>0, <1>20, <2>2, <2>3 DEF RunInv, StopsAreOwn
<1>21. CASE Command \/ Shutdown
  BY <1>0, <1>20, <1>21 DEF Command, Shutdown, Commands
<1>22. ASSUME NEW cmd \in ExecCommands, ExecControl(cmd)
       PROVE  RunInv'
  <2>1. call'.tok = token + 1 /\ call'.lines = <<>> /\ NoStop(call'.lines)
    BY <1>0, <1>22 DEF ExecControl, NewResult
  <2>2. Quiet => RunWaits'
    <3>1. NoExec => \A i \in DOMAIN toGdb : toGdb[i].cmd \in ExecCommands => toGdb[i].tok = token + 1
      BY DEF NoExec
    <3>2. cmd \in Commands /\ Write(cmd, "stop")
      BY <1>22 DEF ExecControl, Commands
    <3>3. NoExec => \A i \in DOMAIN toGdb' :
                        toGdb'[i].cmd \in ExecCommands => toGdb'[i].tok = token + 1
      BY <1>0, <3>1, <3>2, WriteExec
    <3>. QED
      BY <1>22, <2>1, <3>3 DEF Quiet, RunWaits, ExecControl
  <2>3. pc' \in {"stop", "killed"} /\ pc = "idle"
    BY <1>22 DEF ExecControl, Write
  <2>. QED
    BY <1>22, <2>1, <2>2, <2>3 DEF ExecControl, RunInv, OwnRun, StopsAreOwn
<1>23. CASE ExecDeadline
  <2>1. /\ pc = "stop" /\ pc' \in {"interrupt", "killed"} /\ Write("interrupt", "interrupt")
        /\ "interrupt" \in Commands \ ExecCommands
        /\ UNCHANGED <<last, fromGdb, inferior, runToken, answered, abandoned>>
    BY <1>0, <1>23 DEF ExecDeadline, Write, Commands
  <2>2. call'.tok = call.tok /\ call'.lines = call.lines
    BY <1>0, <1>23 DEF ExecDeadline, TypeOK, CommandResult
  <2>3. NoExec => NoExec'
    BY <1>0, <2>1, WriteExec
  <2>4. RunWaits => RunWaits'
    <3>1. (\A i \in DOMAIN toGdb : toGdb[i].cmd \in ExecCommands => toGdb[i].tok = call.tok)
          => \A i \in DOMAIN toGdb' : toGdb'[i].cmd \in ExecCommands => toGdb'[i].tok = call.tok
      BY <1>0, <2>1, WriteExec
    <3>. QED
      BY <2>1, <2>2, <3>1 DEF RunWaits
  <2>5. (RunGoes => RunGoes') /\ (RunReported => RunReported')
    BY <2>1, <2>2, <2>3 DEF RunGoes, RunReported
  <2>. QED
    BY <2>1, <2>2, <2>4, <2>5 DEF RunInv, OwnRun, StopsAreOwn
\* The steps of the session that read a line or meet a deadline.
<1>. DEFINE line == Head(fromGdb)
            kept == Keep(call, line)
<1>30. ASSUME pc \in {"unstarted", "drain", "idle", "result"}, pc' \notin {"stop", "interrupt"},
              UNCHANGED <<toGdb, inferior, runToken, answered, abandoned>>,
              ReadLine \/ UNCHANGED fromGdb,
              last' = last \/ last'.cmd \notin ExecCommands
       PROVE  RunInv'
  <2>1. Quiet => Quiet'
    BY <1>30, LineOfRun DEF Quiet, NoExec
  <2>. QED
    BY <1>30, <2>1 DEF RunInv, StopsAreOwn
<1>31. /\ kept.lines = Append(call.lines, line) /\ kept.tok = call.tok
       /\ {"tok", "cmd", "lines", "cls", "reason", "exited", "sawRunning"} \subseteq DOMAIN kept
  BY <1>0 DEF Keep, TypeOK, CommandResult
<1>32. ASSUME pc \in {"stop", "interrupt"}, ReadLine, pc' \notin {"unstarted", "drain", "idle", "result"},
              UNCHANGED <<toGdb, inferior, runToken, answered, abandoned, last>>,
              line.kind # "stopped", call'.tok = call.tok,
              call'.lines \in {call.lines, Append(call.lines, line)}
       PROVE  RunInv'
  <2>1. (RunWaits \/ RunGoes \/ RunReported) => (RunWaits \/ RunGoes \/ RunReported)'
    BY <1>32, LineOfRun
  <2>2. NoStop(call.lines) => NoStop(call'.lines)
    <3>1. call.lines \in Seq(Record)
      BY <1>0 DEF TypeOK, CommandResult
    <3>2. \A i \in DOMAIN Append(call.lines, line) :
             (i \in DOMAIN call.lines /\ Append(call.lines, line)[i] = call.lines[i])
             \/ Append(call.lines, line)[i] = line
      BY <3>1
    <3>. QED
      BY <1>32, <3>2 DEF NoStop
  <2>. QED
    BY <1>32, <2>1, <2>2 DEF RunInv, OwnRun, StopsAreOwn
\* A run returns with its stop, or refused.
<1>33. ASSUME pc \in {"stop", "interrupt"}, ReadLine, NEW r, Return(r),
              UNCHANGED <<toGdb, inferior, runToken, answered, abandoned>>,
              line.kind = "stopped" \/ <<call.tok, "error">> \in answered,
              r.tok = call.tok, r.lines = Append(call.lines, line)
       PROVE  RunInv'
  <2>1. SUFFICES ASSUME ~abandoned
                 PROVE  StopsAreOwn(r) /\ Quiet'
    BY <1>33 DEF RunInv, Return
  <2>2. NoStop(call.lines) /\ (RunWaits \/ RunGoes \/ RunReported)
    BY <1>33, <2>1 DEF RunInv, OwnRun
  <2>3. (line.kind = "stopped" => line.tok = call.tok) /\ Quiet'
    <3>1. CASE line.kind = "stopped"
      BY <1>33, <2>2, <3>1, LineOfRun
    <3>2. CASE line.kind # "stopped"
      <4>1. Quiet
        BY <1>33, <2>2, <3>2, RefusedRun
      <4>. QED
        BY <1>33, <3>2, <4>1, LineOfRun
    <3>. QED
      BY <3>1, <3>2
  <2>4. \A i \in DOMAIN r.lines : (i \in DOMAIN call.lines /\ r.lines[i] = call.lines[i])
                                   \/ r.lines[i] = line
    <3>1. call.lines \in Seq(Record)
      BY <1>0 DEF TypeOK, CommandResult
    <3>. QED
      BY <1>33, <3>1
  <2>. QED
    BY <1>33, <2>2, <2>3, <2>4 DEF StopsAreOwn, NoStop
<1>34. ASSUME ReadLine, IsAnswer(call, line)
       PROVE  <<call.tok, line.val>> \in answered
  <2>1. fromGdb[1] = Head(fromGdb) /\ 1 \in 1 .. Len(fromGdb)
    BY <1>0, <1>34 DEF ReadLine, TypeOK
  <2>. QED
    BY <1>34, <2>1 DEF ProtocolInv, OutputInv, IsAnswer, IsResult
<1>35. CASE Start
  BY <1>30, <1>35 DEF Start
<1>36. CASE DrainLine \/ DrainDeadline
  BY <1>30, <1>36 DEF DrainLine, DrainDeadline, gdbVars
<1>37. ASSUME NEW r, Return(r), pc = "result", r.cmd = call.cmd
       PROVE  last'.cmd \notin ExecCommands /\ pc' \notin {"stop", "interrupt"}
  BY <1>0, <1>37 DEF Return, ProtocolInv, CallInv
<1>38. CASE CommandLine
  <2>. DEFINE r == [kept EXCEPT !.cls = line.val]
  <2>1. r.cmd = call.cmd
    BY <1>0 DEF Keep, TypeOK, CommandResult
  <2>2. (UNCHANGED <<pc, last>>) \/ Return(r)
    BY <1>38 DEF CommandLine
  <2>. HIDE DEF r, kept
  <2>. QED
    BY <1>30, <1>37, <1>38, <2>1, <2>2 DEF CommandLine
<1>39. CASE CommandDeadline
  <2>. DEFINE r == [call EXCEPT !.timedOut = TRUE]
  <2>1. r.cmd = call.cmd /\ Return(r)
    BY <1>0, <1>39 DEF TypeOK, CommandResult, CommandDeadline
  <2>. HIDE DEF r
  <2>. QED
    BY <1>30, <1>37, <1>39, <2>1 DEF CommandDeadline, gdbVars
<1>40. CASE ExecLine
  <2>. DEFINE accepted == IsAnswer(call, line) /\ line.val = "running"
              rejected == IsAnswer(call, line) /\ line.val = "error" /\ ~call.sawRunning
              r1 == [kept EXCEPT !.reason = line.val, !.exited = @ \/ line.val = "exited"]
              r2 == [kept EXCEPT !.reason = "exited", !.exited = TRUE]
              r3 == [kept EXCEPT !.cls = "error"]
              r4 == [kept EXCEPT !.sawRunning = @ \/ accepted]
  <2>1. /\ ReadLine /\ pc = "stop"
        /\ UNCHANGED <<toGdb, inferior, runToken, answered, abandoned>>
    BY <1>40 DEF ExecLine
  <2>2. /\ r1.tok = call.tok /\ r1.lines = kept.lines
        /\ r2.tok = call.tok /\ r2.lines = kept.lines
        /\ r3.tok = call.tok /\ r3.lines = kept.lines
        /\ r4.tok = call.tok /\ r4.lines = kept.lines
    <3>. HIDE DEF kept
    <3>. QED
      BY <1>31
  <2>. HIDE DEF r1, r2, r3, r4
  <2>3. \/ UNCHANGED <<pc, call, last>> /\ line.kind = "prompt"
        \/ Return(r1) /\ line.kind = "stopped"
        \/ call' = r2 /\ UNCHANGED <<pc, last>> /\ line.kind = "gone"
        \/ Return(r3) /\ rejected
        \/ call' = r4 /\ UNCHANGED <<pc, last>> /\ line.kind \in {"stream", "result"}
    BY <1>40 DEF ExecLine, r1, r2, r3, r4
  <2>. HIDE DEF kept
  <2>4. CASE UNCHANGED <<pc, call, last>> /\ line.kind = "prompt"
    BY <1>32, <2>1, <2>4
  <2>5. CASE \/ call' = r2 /\ UNCHANGED <<pc, last>> /\ line.kind = "gone"
             \/ call' = r4 /\ UNCHANGED <<pc, last>> /\ line.kind \in {"stream", "result"}
    BY <1>31, <1>32, <2>1, <2>2, <2>5
  <2>6. CASE Return(r1) /\ line.kind = "stopped"
    BY <1>31, <1>33, <2>1, <2>2, <2>6
  <2>7. CASE Return(r3) /\ rejected
    BY <1>31, <1>33, <1>34, <2>1, <2>2, <2>7
  <2>. QED
    BY <2>3, <2>4, <2>5, <2>6, <2>7
<1>41. CASE InterruptLine
  <2>. DEFINE r == [kept EXCEPT !.reason = "interrupted_by_tool_deadline"]
  <2>1. /\ ReadLine /\ pc = "interrupt"
        /\ UNCHANGED <<toGdb, inferior, runToken, answered, abandoned>>
    BY <1>41 DEF InterruptLine
  <2>2. r.tok = call.tok /\ r.lines = kept.lines
    <3>. HIDE DEF kept
    <3>. QED
      BY <1>31
  <2>. HIDE DEF r
  <2>3. \/ UNCHANGED <<pc, call, last>> /\ line.kind = "prompt"
        \/ Return(r) /\ line.kind = "stopped"
        \/ call' = kept /\ UNCHANGED <<pc, last>> /\ line.kind \notin {"prompt", "stopped"}
    BY <1>41 DEF InterruptLine, r
  <2>. HIDE DEF kept
  <2>4. CASE Return(r) /\ line.kind = "stopped"
    BY <1>31, <1>33, <2>1, <2>2, <2>4
  <2>. QED
    BY <1>31, <1>32, <2>1, <2>3, <2>4
<1>42. CASE InterruptDeadline
  BY <1>42 DEF InterruptDeadline, RunInv
<1>43. CASE Terminated
  BY <1>43 DEF Terminated, RunInv, StopsAreOwn, gdbVars
<1>44. CASE Ended \/ UNCHANGED vars
  <2>1. UNCHANGED vars
    BY <1>44 DEF Ended
  <2>. QED
    BY <2>1 DEF vars, RunInv, StopsAreOwn, Quiet, OwnRun, RunWaits, RunGoes, RunReported,
                NoExec
<1>. QED
  BY <1>5, <1>7, <1>8, <1>9, <1>10, <1>11, <1>12, <1>21, <1>22, <1>23, <1>35, <1>36, <1>38,
     <1>39, <1>40, <1>41, <1>42, <1>43, <1>44
  DEF Next, SessionStep, GdbStep

\* Until a run has been given up with the program running, the stop a run or
\* continue returns is that of its own run, however many commands timed out before
\* and whenever the stop came (exec_control_blocking, interrupt_after_deadline).
THEOREM OwnStop == Spec => []StopIsOwn
<1>1. Init => ProtocolInv /\ OneAnswer /\ RunInv
  BY InitProtocol, InitRun
<1>2. ProtocolInv /\ OneAnswer /\ RunInv /\ [Next]_vars => (ProtocolInv /\ OneAnswer /\ RunInv)'
  BY StepProtocol, StepOneAnswer, StepRun
<1>3. RunInv => StopIsOwn
  BY DEF RunInv, StopIsOwn, Quiet, StopsAreOwn
<1>. QED
  BY <1>1, <1>2, <1>3, PTL DEF Spec

================================================================================
