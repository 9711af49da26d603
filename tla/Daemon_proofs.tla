----------------------------- MODULE Daemon_proofs -----------------------------
(***************************************************************************)
(* Proofs about Daemon, for any clients, requests, names and number of     *)
(* starts: its type invariant, that the table owns its GDB processes, that *)
(* the daemon implements the abstract registry, that a live session keeps  *)
(* the index of its assets until somebody shares them, and, of requests    *)
(* that give sessions of different names reports of their own, that what a *)
(* client was told of a finish stays true.                                 *)
(***************************************************************************)
EXTENDS Daemon, SequenceTheorems, TLAPS

\* Every client that waits does so in one place, and a daemon that has been told
\* to shut down has no sessions left and takes no request.
Waiting ==
    /\ \A k \in 1 .. Len(backlog) :
         /\ asking[backlog[k]] # NoRequest
         /\ pc \in {"handle", "reply"} => backlog[k] # serving
    /\ \A j, k \in 1 .. Len(backlog) : backlog[j] = backlog[k] => j = k

Over == ending => pc \notin {"accept", "handle"} /\ sessions = NoSessions

Control ==
    /\ pc \in {"accept", "handle", "reply", "stopped", "killed"}
    /\ backlog \in Seq(Client)
    /\ serving \in Client \cup {NoClient}
    /\ answer \in Answer
    /\ ending \in BOOLEAN
    /\ \A c \in Client : asking[c] \in Requests[c] \cup {NoRequest}
    /\ DOMAIN asking = Client
    /\ present \in [Client -> BOOLEAN]
    /\ finished \subseteq Starts \X File
    /\ pc \in {"handle", "reply"} => serving \in Client /\ asking[serving] \in Requests[serving]
    /\ Waiting

Data ==
    /\ DOMAIN sessions \subseteq Name
    /\ \A n \in DOMAIN sessions : sessions[n] \in Session
    /\ gdbs \in [Starts -> Gdb]
    /\ disk \in [index : [Dir -> 0 .. MaxStarts], report : [File -> 0 .. MaxStarts]]

IInv == Control /\ Data /\ Over /\ Owned

Finish3 == {<< >>} \cup (Starts \X File)

-------------------------------------------------------------------------------
(* What a handler does to the clients *)

LEMMA NoAnswerType == NoAnswer \in Answer
BY DaemonAssumption DEF NoAnswer, Answer

LEMMA RequestType ==
    ASSUME Control, pc \in {"handle", "reply"}
    PROVE  req \in Request /\ serving \in Client /\ req \in Requests[serving]
BY DaemonAssumption DEF Control, req

LEMMA RespondControl ==
    ASSUME Control, pc = "handle", ending' \in BOOLEAN,
           NEW ok \in BOOLEAN, NEW finish \in Finish3, RespondFinish(ok, finish)
    PROVE  Control'
<1>1. req \in Request
  BY RequestType
<1>2. answer' \in Answer
  BY <1>1 DEF RespondFinish, Answer, Request, Finish3
<1>3. UNCHANGED <<backlog, serving, asking, present, finished>> /\ pc' = "reply"
  BY DEF RespondFinish, clientVars
<1> QED  BY <1>2, <1>3 DEF Control, Waiting

LEMMA KilledControl ==
    ASSUME Control, NEW gs, Killed(gs)
    PROVE  Control'
<1>1. /\ pc' = "killed" /\ backlog' = << >> /\ serving' = NoClient
      /\ asking' = [c \in Client |-> NoRequest] /\ present' = [c \in Client |-> TRUE]
      /\ answer' = NoAnswer /\ ending' = ending /\ finished' = finished
  BY DEF Killed
<1>2. Waiting'
  BY <1>1 DEF Waiting
<1> QED  BY <1>1, <1>2, NoAnswerType DEF Control

\* A handler ends with a response, or with the daemon.
Responds == ending' \in BOOLEAN /\ \E ok \in BOOLEAN, finish \in Finish3 : RespondFinish(ok, finish)

LEMMA HandleEnds ==
    ASSUME Control, Data, Handle
    PROVE  pc = "handle" /\ (Responds \/ \E gs : Killed(gs))
<1>1. pc = "handle"
  BY DEF Handle, Handling, Finishing, Bad, List, Shutdown, CreateRefused, CreateFailed, CreateKilled,
         Create, Unknown, Status, Close, Action, ActionThrew, ActionKilled, FinishDenied,
         FinishThrew, Finish
<1>2. ASSUME NEW ok \in BOOLEAN, Respond(ok), ending' \in BOOLEAN PROVE Responds
  BY <1>2 DEF Respond, Responds, Finish3
<1>3. ending \in BOOLEAN
  BY DEF Control
<1>4. Refuse => Responds
  BY <1>2, <1>3 DEF Refuse
<1>5. CASE Shutdown
  BY <1>1, <1>2, <1>3, <1>5 DEF Shutdown
<1>6. CASE Create
  BY <1>1, <1>2, <1>3, <1>6 DEF Create
<1>7. CASE Finish
  <2>1. req \in Request
    BY <1>1, RequestType
  <2>2. req.name \in DOMAIN sessions
    BY <1>7 DEF Finish, Finishing, Live
  <2>3. ofSession \in Session
    BY <2>2 DEF Data, ofSession
  <2>4. ofSession.start \in Starts /\ TargetFile \in File
    BY <2>1, <2>3 DEF Session, Request, TargetFile
  <2>5. <<ofSession.start, TargetFile>> \in Finish3
    BY <2>4 DEF Finish3
  <2>6. RespondFinish(TRUE, <<ofSession.start, TargetFile>>) /\ UNCHANGED ending => Responds
    BY <1>3, <2>5 DEF Responds
  <2> QED  BY <1>1, <1>7, <2>6 DEF Finish
<1>8. CASE Bad \/ List \/ CreateRefused \/ CreateFailed
  BY <1>1, <1>2, <1>3, <1>4, <1>8 DEF Bad, List, CreateRefused, CreateFailed
<1>9. CASE CreateKilled \/ ActionKilled \/ Close
  BY <1>1, <1>2, <1>3, <1>9 DEF CreateKilled, ActionKilled, Close
<1>10. CASE Unknown \/ Status \/ Action
  BY <1>1, <1>2, <1>3, <1>4, <1>10 DEF Unknown, Status, Action
<1>11. CASE ActionThrew \/ FinishDenied \/ FinishThrew
  BY <1>1, <1>4, <1>11 DEF ActionThrew, FinishDenied, FinishThrew
<1> QED  BY <1>5, <1>6, <1>7, <1>8, <1>9, <1>10, <1>11 DEF Handle

LEMMA CallControl ==
    ASSUME Control, NEW c \in Client, NEW r \in Requests[c], Call(c, r)
    PROVE  Control'
<1>1. /\ asking[c] = NoRequest /\ backlog' = Append(backlog, c)
      /\ asking' = [asking EXCEPT ![c] = r]
      /\ UNCHANGED <<pc, serving, answer, ending, present, finished>>
  BY DEF Call
<1>2. r # NoRequest /\ \A d \in Client : \A q \in Requests[d] : q # NoRequest
  BY DaemonAssumption DEF Request, NoRequest, Op, Ending
<1>3. backlog \in Seq(Client) /\ Len(backlog) \in Nat
  BY DEF Control
<1>4. /\ backlog' \in Seq(Client) /\ Len(backlog') = Len(backlog) + 1
      /\ \A k \in 1 .. Len(backlog) : backlog'[k] = backlog[k] /\ backlog[k] \in Client
      /\ backlog'[Len(backlog) + 1] = c
  BY <1>1, <1>3
<1>5. \A k \in 1 .. Len(backlog) : backlog[k] # c
  BY <1>1 DEF Control, Waiting
<1>6. pc \in {"handle", "reply"} => serving # c
  BY <1>1, <1>2 DEF Control
<1>7. DOMAIN asking' = Client /\ asking'[c] = r /\ \A d \in Client : d # c => asking'[d] = asking[d]
  BY <1>1 DEF Control
<1>8. Waiting'
  <2>1. \A k \in 1 .. Len(backlog') : k \in 1 .. Len(backlog) \/ k = Len(backlog) + 1
    BY <1>3, <1>4
  <2>2. \A k \in 1 .. Len(backlog') : asking'[backlog'[k]] # NoRequest
    BY <1>2, <1>4, <1>5, <1>7, <2>1 DEF Control, Waiting
  <2>3. pc' \in {"handle", "reply"} => \A k \in 1 .. Len(backlog') : backlog'[k] # serving'
    BY <1>1, <1>4, <1>6, <2>1 DEF Control, Waiting
  <2>4. \A j, k \in 1 .. Len(backlog') : backlog'[j] = backlog'[k] => j = k
    BY <1>3, <1>4, <1>5, <2>1 DEF Control, Waiting
  <2> QED  BY <2>2, <2>3, <2>4 DEF Waiting
<1>9. pc' \in {"handle", "reply"} => serving' \in Client /\ asking'[serving'] \in Requests[serving']
  BY <1>1, <1>6, <1>7 DEF Control
<1> QED  BY <1>1, <1>4, <1>7, <1>8, <1>9 DEF Control

LEMMA AcceptControl ==
    ASSUME Control, Accept
    PROVE  Control'
<1>1. /\ backlog # << >> /\ pc' = "handle"
      /\ serving' = Head(backlog) /\ backlog' = Tail(backlog)
      /\ UNCHANGED <<answer, ending, asking, present, finished>>
  BY DEF Accept, clientVars
<1>2. backlog \in Seq(Client) /\ Len(backlog) \in Nat \ {0}
  BY <1>1 DEF Control
<1>3. /\ backlog' \in Seq(Client) /\ Len(backlog') = Len(backlog) - 1
      /\ \A k \in 1 .. Len(backlog') : backlog'[k] = backlog[k + 1]
      /\ serving' = backlog[1] /\ serving' \in Client
  BY <1>1, <1>2
<1>4. \A k \in 1 .. Len(backlog') : k + 1 \in 1 .. Len(backlog) /\ k + 1 # 1
  BY <1>2, <1>3
<1>5. 1 \in 1 .. Len(backlog)
  BY <1>2
<1>6. asking'[serving'] \in Requests[serving']
  BY <1>1, <1>3, <1>5 DEF Control, Waiting
<1>7. Waiting'
  BY <1>1, <1>3, <1>4, <1>5 DEF Control, Waiting
<1> QED  BY <1>1, <1>3, <1>6, <1>7 DEF Control

LEMMA ReplyControl ==
    ASSUME Control, Reply \/ ReplyAndStop
    PROVE  Control'
<1>1. serving \in Client
  BY DEF Control, Reply, ReplyAndStop
<1>2. finished' \subseteq Starts \X File /\ answer' \in Answer
  <2>1. Told
    BY DEF Reply, ReplyAndStop, Done
  <2>2. answer.finish = << >> \/ answer.finish \in Starts \X File
    BY DEF Control, Answer
  <2> QED  BY <2>1, <2>2, NoAnswerType DEF Told, Control
<1>3. CASE Reply
  <2>1. /\ pc = "reply" /\ pc' = "accept" /\ serving' = NoClient
        /\ asking' = [asking EXCEPT ![serving] = NoRequest]
        /\ UNCHANGED <<backlog, ending, present>>
    BY <1>3 DEF Reply, Done
  <2>2. \A k \in 1 .. Len(backlog) : backlog[k] \in Client /\ backlog[k] # serving
    BY <2>1 DEF Control, Waiting
  <2>3. Waiting'
    BY <2>1, <2>2 DEF Control, Waiting
  <2> QED  BY <1>1, <1>2, <2>1, <2>3 DEF Control
<1>4. CASE ReplyAndStop
  <2>1. /\ pc' = "stopped" /\ serving' = NoClient /\ backlog' = << >>
        /\ asking' = [c \in Client |-> NoRequest] /\ present' = [c \in Client |-> TRUE]
        /\ ending' = ending
    BY <1>4 DEF ReplyAndStop
  <2>2. Waiting'
    BY <2>1 DEF Waiting
  <2> QED  BY <1>2, <2>1, <2>2 DEF Control
<1> QED  BY <1>3, <1>4

LEMMA ControlStep ==
    ASSUME Control, Data, Next
    PROVE  Control'
<1>1. CASE Handle
  <2>1. pc = "handle" /\ (Responds \/ \E gs : Killed(gs))
    BY <1>1, HandleEnds
  <2>2. CASE Responds
    BY <2>1, <2>2, RespondControl DEF Responds
  <2>3. CASE \E gs : Killed(gs)
    BY <2>3, KilledControl
  <2> QED  BY <2>1, <2>2, <2>3
<1>2. CASE Accept
  BY <1>2, AcceptControl
<1>3. CASE Reply \/ ReplyAndStop
  BY <1>3, ReplyControl
<1>4. CASE ReplyToNobody
  BY <1>4, KilledControl DEF ReplyToNobody
<1>5. CASE Boot
  BY <1>5 DEF Boot, Control, Waiting, clientVars
<1>6. ASSUME NEW c \in Client, HangUp(c) PROVE Control'
  <2>1. present' \in [Client -> BOOLEAN]
    BY <1>6 DEF HangUp, Control
  <2> QED  BY <1>6, <2>1 DEF HangUp, Control, Waiting
<1>7. ASSUME NEW c \in Client, NEW r \in Requests[c], Call(c, r) PROVE Control'
  BY <1>7, CallControl
<1>8. ASSUME NEW i \in Starts, GdbDies(i) \/ GdbSeesEnd(i) \/ ProgramStops(i) PROVE Control'
  BY <1>8 DEF GdbDies, GdbSeesEnd, ProgramStops, Control, Waiting
<1> QED  BY <1>1, <1>2, <1>3, <1>4, <1>5, <1>6, <1>7, <1>8 DEF Next, DaemonStep

-------------------------------------------------------------------------------
(* The types of sessions, processes and files *)

Disk == [index : [Dir -> 0 .. MaxStarts], report : [File -> 0 .. MaxStarts]]

LEMMA AfterEndType ==
    ASSUME Data, NEW S, NEW how \in {"dead", "closed"}
    PROVE  AfterEnd(S, how) \in [Starts -> Gdb]
<1> SUFFICES ASSUME NEW i \in Starts
             PROVE  (IF i \in S THEN [state |-> how, writers |-> {}]
                                ELSE [gdbs[i] EXCEPT !.writers = @ \ S]) \in Gdb
  BY DEF AfterEnd
<1> QED  BY DEF Data, Gdb

LEMMA AfterSpawnType ==
    ASSUME Data, NEW i \in Starts, NEW st \in {"up", "busy"}, NEW kept \in BOOLEAN
    PROVE  AfterSpawn(i, st, kept) \in [Starts -> Gdb]
<1> SUFFICES ASSUME NEW j \in Starts
             PROVE  (IF j = i THEN [state |-> st, writers |-> IF kept THEN {TheDaemon} ELSE {}]
                     ELSE [gdbs[j] EXCEPT !.writers = IF TheDaemon \in @ THEN @ \cup {i} ELSE @]) \in Gdb
  BY DEF AfterSpawn
<1> QED  BY DEF Data, Gdb

LEMMA StateType ==
    ASSUME Data, NEW i \in Starts, NEW st \in {"up", "busy", "dead"}
    PROVE  [gdbs EXCEPT ![i].state = st] \in [Starts -> Gdb]
BY DEF Data, Gdb

LEMMA KilledType ==
    ASSUME NEW gs \in [Starts -> Gdb], Killed(gs), disk' \in Disk
    PROVE  Data'
<1>1. gdbs' = [i \in Starts |-> [gs[i] EXCEPT !.writers = @ \ {TheDaemon}]] /\ sessions' = NoSessions
  BY DEF Killed
<1>2. \A i \in Starts : [gs[i] EXCEPT !.writers = @ \ {TheDaemon}] \in Gdb
  BY DEF Gdb
<1> QED  BY <1>1, <1>2 DEF Data, NoSessions, Disk

LEMMA IndexedType ==
    ASSUME Data, NEW d \in Dir, NEW i \in Starts
    PROVE  Indexed(d, i) \in Disk
<1>1. i \in 0 .. MaxStarts
  BY DaemonAssumption DEF Starts
<1> QED  BY <1>1 DEF Data, Disk, Indexed

\* What a request about a live session speaks of.
LEMMA LiveType ==
    ASSUME Control, Data, pc = "handle", req.name \in Live
    PROVE  /\ ofSession \in Session /\ ofSession.start \in Starts /\ ofSession.dir \in Dir
           /\ TargetFile \in File /\ Flushed \subseteq Disk /\ Written \subseteq Disk
<1>1. req \in Request
  BY RequestType
<1>2. ofSession \in Session
  BY DEF Live, Data, ofSession
<1>3. ofSession.start \in Starts /\ ofSession.dir \in Dir /\ TargetFile \in File
  BY <1>1, <1>2 DEF Session, Request, TargetFile
<1>4. Flushed \subseteq Disk
  BY <1>3, IndexedType DEF Flushed, Data, Disk
<1>5. ofSession.start \in 0 .. MaxStarts
  BY <1>3, DaemonAssumption DEF Starts
<1>6. Written \subseteq Disk
  BY <1>3, <1>4, <1>5 DEF Written, Disk
<1> QED  BY <1>2, <1>3, <1>4, <1>6

LEMMA CreateType ==
    ASSUME Control, pc = "handle", req.op = "create"
    PROVE  req.name \in Name /\ req.dir \in Dir /\ req.file \in File
<1>1. req \in Request /\ req.file # NoFile
  BY RequestType, DaemonAssumption
<1> QED  BY <1>1 DEF Request

LEMMA WithoutType ==
    ASSUME Data, NEW S
    PROVE  /\ DOMAIN Without(S) \subseteq Name
           /\ \A n \in DOMAIN Without(S) : Without(S)[n] \in Session
BY DEF Data, Without, Live

LEMMA HandleData ==
    ASSUME Control, Data, Handle
    PROVE  Data'
<1>1. pc = "handle"
  BY HandleEnds
<1>2. disk \in Disk /\ gdbs \in [Starts -> Gdb]
  BY DEF Data, Disk
<1>3. CASE Bad \/ List \/ CreateRefused \/ Unknown \/ Status
  BY <1>3 DEF Bad, List, CreateRefused, Unknown, Status, Data
<1>4. CASE Shutdown
  <2> DEFINE all == {sessions[n].start : n \in Live}
  <2>1. CASE gdbs' = AfterEnd(all, "closed") /\ sessions' = NoSessions
    BY <1>2, <1>4, <2>1, AfterEndType DEF Shutdown, Data, NoSessions
  <2>2. CASE \E S \in SUBSET {i \in all : Alive(i)} : Killed(AfterEnd(S, "closed"))
    BY <1>2, <1>4, <2>2, AfterEndType, KilledType DEF Shutdown
  <2> QED  BY <1>4, <2>1, <2>2 DEF Shutdown
<1>5. CASE CreateFailed
  <2>1. req.dir \in Dir
    BY <1>5, CreateType DEF CreateFailed, Handling
  <2>2. PICK i \in Starts :
          \/ gdbs' = [gdbs EXCEPT ![i].state = "dead"] /\ disk' \in {disk, Indexed(req.dir, i)}
          \/ /\ \E st \in {"up", "busy"} : gdbs' = AfterSpawn(i, st, FALSE)
             /\ disk' = Indexed(req.dir, i)
    BY <1>5 DEF CreateFailed, Opens
  <2>3. gdbs' \in [Starts -> Gdb]
    BY <2>2, AfterSpawnType, StateType
  <2>4. disk' \in Disk
    BY <1>2, <2>1, <2>2, IndexedType
  <2> QED  BY <1>5, <2>3, <2>4 DEF CreateFailed, Data, Disk
<1>6. CASE CreateKilled
  <2>1. req.dir \in Dir
    BY <1>6, CreateType DEF CreateKilled, Handling
  <2>2. PICK i \in Starts : Killed([gdbs EXCEPT ![i].state = "dead"]) /\ disk' = Indexed(req.dir, i)
    BY <1>6 DEF CreateKilled, Opens
  <2> QED  BY <2>1, <2>2, StateType, IndexedType, KilledType
<1>7. CASE Create
  <2>1. req.name \in Name /\ req.dir \in Dir /\ req.file \in File
    BY <1>7, CreateType DEF Create, Handling
  <2>2. PICK i \in Starts, state \in State \ {"Running"}, st \in {"up", "busy"} :
          /\ gdbs' = AfterSpawn(i, st, TRUE)
          /\ disk' = Indexed(req.dir, i)
          /\ sessions' = [n \in Live \cup {req.name} |->
                             IF n = req.name
                             THEN [start |-> i, state |-> state, dir |-> req.dir, file |-> req.file]
                             ELSE sessions[n]]
    BY <1>7 DEF Create, Opens
  <2>3. [start |-> i, state |-> state, dir |-> req.dir, file |-> req.file] \in Session
    BY <2>1 DEF Session
  <2>4. DOMAIN sessions' \subseteq Name /\ \A n \in DOMAIN sessions' : sessions'[n] \in Session
    BY <2>1, <2>2, <2>3 DEF Data, Live
  <2> QED  BY <2>1, <2>2, <2>4, AfterSpawnType, IndexedType DEF Data, Disk
<1>8. CASE Action \/ ActionThrew
  <2>1. req.name \in Live
    BY <1>8 DEF Action, ActionThrew
  <2>2. ofSession \in Session /\ ofSession.start \in Starts /\ ofSession.dir \in Dir
    BY <1>1, <2>1, LiveType
  <2>3. disk' \in Disk
    BY <1>2, <1>8, <2>2, IndexedType DEF Action, ActionThrew
  <2>4. gdbs' = gdbs \/ \E st \in {"up", "busy"} : gdbs' = [gdbs EXCEPT ![ofSession.start].state = st]
    BY <1>8 DEF Action, ActionThrew
  <2>5. Thrown(ofSession.state) \subseteq State /\ Reachable(ofSession.state) \subseteq State
    BY <2>2 DEF Thrown, Reachable, State, Session
  <2>6. sessions' = sessions \/ \E state \in State : sessions' = [sessions EXCEPT ![req.name].state = state]
    BY <1>8, <2>5 DEF Action, ActionThrew
  <2>7. DOMAIN sessions' \subseteq Name /\ \A n \in DOMAIN sessions' : sessions'[n] \in Session
    BY <2>1, <2>6 DEF Data, Live, Session
  <2>8. gdbs' \in [Starts -> Gdb]
    <3>1. CASE gdbs' = gdbs
      BY <1>2, <3>1
    <3>2. ASSUME NEW st \in {"up", "busy"}, gdbs' = [gdbs EXCEPT ![ofSession.start].state = st]
          PROVE  gdbs' \in [Starts -> Gdb]
      <4>1. st \in {"up", "busy", "dead"}
        OBVIOUS
      <4>2. [gdbs EXCEPT ![ofSession.start].state = st] \in [Starts -> Gdb]
        BY <2>2, <4>1, StateType
      <4> QED  BY <3>2, <4>2
    <3> QED  BY <2>4, <3>1, <3>2
  <2> QED  BY <2>3, <2>7, <2>8 DEF Data, Disk
<1>9. CASE ActionKilled
  BY <1>2, <1>9, KilledType DEF ActionKilled
<1>10. CASE Close
  BY <1>2, <1>10, KilledType, AfterEndType, WithoutType DEF Close, Data
<1>11. CASE FinishDenied \/ FinishThrew
  <2>1. req.name \in Live
    BY <1>11 DEF FinishDenied, FinishThrew, Finishing
  <2>2. TargetFile \in File /\ Flushed \subseteq Disk
    BY <1>1, <2>1, LiveType
  <2>3. disk' \in Disk /\ gdbs' = gdbs
    BY <1>2, <1>11, <2>2 DEF FinishDenied, FinishThrew
  <2>4. sessions' = sessions \/ sessions' = [sessions EXCEPT ![req.name].file = TargetFile]
    BY <1>11 DEF FinishDenied, FinishThrew
  <2>5. DOMAIN sessions' \subseteq Name /\ \A n \in DOMAIN sessions' : sessions'[n] \in Session
    BY <2>1, <2>2, <2>4 DEF Data, Live, Session
  <2> QED  BY <1>2, <2>3, <2>5 DEF Data, Disk
<1>12. CASE Finish
  <2>1. disk' \in Disk
    BY <1>1, <1>12, LiveType DEF Finish, Finishing
  <2> QED  BY <1>2, <1>12, <2>1, KilledType, AfterEndType, WithoutType DEF Finish, Data, Disk
<1> QED  BY <1>3, <1>4, <1>5, <1>6, <1>7, <1>8, <1>9, <1>10, <1>11, <1>12 DEF Handle

LEMMA DataStep ==
    ASSUME Control, Data, Next
    PROVE  Data'
<1>1. disk \in Disk /\ gdbs \in [Starts -> Gdb]
  BY DEF Data, Disk
<1>2. CASE Handle
  BY <1>2, HandleData
<1>3. CASE Accept \/ Reply \/ ReplyAndStop \/ Boot
  BY <1>3 DEF Accept, Reply, ReplyAndStop, Boot, Data
<1>4. CASE ReplyToNobody
  BY <1>1, <1>4, KilledType DEF ReplyToNobody
<1>5. ASSUME NEW c \in Client, HangUp(c) \/ \E r \in Requests[c] : Call(c, r) PROVE Data'
  BY <1>5 DEF HangUp, Call, Data
<1>6. ASSUME NEW i \in Starts, GdbDies(i) \/ GdbSeesEnd(i) \/ ProgramStops(i) PROVE Data'
  <2>1. gdbs' \in [Starts -> Gdb]
    <3>1. CASE GdbDies(i) \/ GdbSeesEnd(i)
      BY <3>1, AfterEndType DEF GdbDies, GdbSeesEnd
    <3>2. CASE ProgramStops(i)
      <4>1. [gdbs EXCEPT ![i].state = "up"] \in [Starts -> Gdb]
        BY StateType
      <4> QED  BY <3>2, <4>1 DEF ProgramStops
    <3> QED  BY <1>6, <3>1, <3>2
  <2> QED  BY <1>6, <2>1 DEF GdbDies, GdbSeesEnd, ProgramStops, Data
<1> QED  BY <1>2, <1>3, <1>4, <1>5, <1>6 DEF Next, DaemonStep

-------------------------------------------------------------------------------
(* Type correctness *)

LEMMA InitTypes == Init => Control /\ Data
<1> SUFFICES ASSUME Init PROVE Control /\ Data
  OBVIOUS
<1>1. Control
  <2>1. backlog = << >> /\ pc = "accept" /\ asking = [c \in Client |-> NoRequest]
    BY DEF Init
  <2>2. Waiting
    BY <2>1 DEF Waiting
  <2>3. \A c \in Client : asking[c] = NoRequest
    BY <2>1
  <2>4. DOMAIN asking = Client /\ backlog \in Seq(Client) /\ pc \notin {"handle", "reply"}
    BY <2>1
  <2> QED  BY <2>2, <2>3, <2>4, NoAnswerType DEF Init, Control
<1>2. 0 \in 0 .. MaxStarts
  BY DaemonAssumption
<1>3. Data
  BY <1>2 DEF Init, Data, NoSessions, Gdb
<1> QED  BY <1>1, <1>3

LEMMA TypesInductive == Control /\ Data /\ [Next]_vars => (Control /\ Data)'
<1>1. ASSUME Control, Data, UNCHANGED vars PROVE (Control /\ Data)'
  BY <1>1 DEF vars, Control, Waiting, Data
<1> QED  BY <1>1, ControlStep, DataStep

\* Only a create that opens assets pairs starts.
LEMMA SharesStep ==
    ASSUME Control, Next
    PROVE  \/ shares' = shares
           \/ \E i \in Starts :
                shares' = shares \cup (Using(req.dir) \X {i}) \cup ({i} \X Using(req.dir))
<1>1. CASE Handle
  <2>1. CASE CreateFailed \/ CreateKilled \/ Create
    BY <2>1 DEF CreateFailed, CreateKilled, Create, Opens
  <2>2. CASE Bad \/ List \/ Shutdown \/ CreateRefused \/ Unknown \/ Status \/ Close
    BY <2>2 DEF Bad, List, Shutdown, CreateRefused, Unknown, Status, Close
  <2>3. CASE Action \/ ActionThrew \/ ActionKilled
    BY <2>3 DEF Action, ActionThrew, ActionKilled
  <2>4. CASE FinishDenied \/ FinishThrew \/ Finish
    BY <2>4 DEF FinishDenied, FinishThrew, Finish
  <2> QED  BY <1>1, <2>1, <2>2, <2>3, <2>4 DEF Handle
<1>2. CASE Accept \/ Reply \/ ReplyAndStop \/ ReplyToNobody \/ Boot
  BY <1>2 DEF Accept, Reply, ReplyAndStop, ReplyToNobody, Boot
<1>3. ASSUME NEW c \in Client, HangUp(c) \/ \E r \in Requests[c] : Call(c, r) PROVE shares' = shares
  BY <1>3 DEF HangUp, Call
<1>4. ASSUME NEW i \in Starts, GdbDies(i) \/ GdbSeesEnd(i) \/ ProgramStops(i) PROVE shares' = shares
  BY <1>4 DEF GdbDies, GdbSeesEnd, ProgramStops
<1> QED  BY <1>1, <1>2, <1>3, <1>4 DEF Next, DaemonStep

LEMMA UsingStarts ==
    ASSUME Data, NEW d
    PROVE  Using(d) \subseteq Starts
BY DEF Data, Using, Live, Session

\* For any clients, requests and number of starts the state keeps its type: in
\* particular the daemon, while it serves, always has a client that asked.
THEOREM TypeCorrect == Spec => []TypeOK
<1> DEFINE Typed == shares \subseteq Starts \X Starts
<1>1. Control /\ Data /\ Typed => TypeOK
  BY DEF Control, Data, TypeOK
<1>2. Init => Typed
  BY DEF Init
<1>3. ASSUME Control, Data, Typed, [Next]_vars PROVE Typed'
  <2>1. CASE UNCHANGED vars
    BY <1>3, <2>1 DEF vars
  <2>2. CASE Next
    BY <1>3, <2>2, SharesStep, UsingStarts
  <2> QED  BY <1>3, <2>1, <2>2
<1> QED  BY <1>1, <1>2, <1>3, InitTypes, TypesInductive, PTL DEF Spec

-------------------------------------------------------------------------------
(* The table owns its processes *)

LEMMA DaemonIsNoStart == TheDaemon \notin Starts
BY DaemonAssumption DEF TheDaemon, Starts

LEMMA SameStartsOwned ==
    ASSUME Data, Owned, gdbs' = gdbs, DOMAIN sessions' = Live,
           \A n \in Live : sessions'[n].start = sessions[n].start
    PROVE  Owned'
BY DEF Owned, Alive, Live

\* Changing the state or the file of a session changes no start.
LEMMA SameStarts ==
    ASSUME Data, NEW x, \/ sessions' = [sessions EXCEPT ![req.name].state = x]
                        \/ sessions' = [sessions EXCEPT ![req.name].file = x]
    PROVE  DOMAIN sessions' = Live /\ \A n \in Live : sessions'[n].start = sessions[n].start
<1>1. \A n \in Live : sessions[n] \in Session
  BY DEF Live, Data
<1> QED  BY <1>1 DEF Live, Session

LEMMA KilledOwned ==
    ASSUME NEW gs \in [Starts -> Gdb], Killed(gs)
    PROVE  Owned'
<1>1. gdbs' = [i \in Starts |-> [gs[i] EXCEPT !.writers = @ \ {TheDaemon}]] /\ sessions' = NoSessions
  BY DEF Killed
<1>2. \A i \in Starts : TheDaemon \notin gdbs'[i].writers
  BY <1>1 DEF Gdb
<1>3. DOMAIN sessions' = {}
  BY <1>1 DEF NoSessions
<1> QED  BY <1>2, <1>3 DEF Owned, Live

\* What AfterEnd() leaves of a process.
LEMMA AfterEndEffect ==
    ASSUME Data, NEW S \in SUBSET Starts, NEW how, NEW i \in Starts
    PROVE  /\ i \in S => AfterEnd(S, how)[i].state = how
           /\ i \notin S => /\ AfterEnd(S, how)[i].state = gdbs[i].state
                            /\ TheDaemon \in AfterEnd(S, how)[i].writers <=> TheDaemon \in gdbs[i].writers
BY DaemonIsNoStart DEF AfterEnd, Data, Gdb

\* Sessions that leave the table with their processes leave it owned.
LEMMA EndOwned ==
    ASSUME Data, Owned, NEW N \in SUBSET Live,
           gdbs' = AfterEnd({sessions[n].start : n \in N}, "closed"), sessions' = Without(N)
    PROVE  Owned'
<1> DEFINE S == {sessions[n].start : n \in N}
<1>1. S \in SUBSET Starts
  BY DEF Data, Session, Live
<1>2. \A n \in Live \ N : sessions[n].start \notin S
  BY DEF Owned, Live
<1>3. DOMAIN sessions' = Live \ N /\ \A n \in Live \ N : sessions'[n] = sessions[n]
  BY DEF Without
<1>4. \A n \in Live : sessions[n].start \in Starts
  BY DEF Data, Session, Live
<1>5. \A i \in Starts : /\ i \in S => gdbs'[i].state = "closed"
                        /\ i \notin S => /\ gdbs'[i].state = gdbs[i].state
                                         /\ TheDaemon \in gdbs'[i].writers <=> TheDaemon \in gdbs[i].writers
  BY <1>1, AfterEndEffect
<1>6. \A i \in Starts \ S : (\E n \in Live : sessions[n].start = i) <=> (\E n \in Live \ N : sessions[n].start = i)
  OBVIOUS
<1> QED  BY <1>2, <1>3, <1>4, <1>5, <1>6 DEF Owned, Alive, Live

\* A start that was not made yet belongs to no session.
LEMMA FreshStart ==
    ASSUME Data, Owned, NEW i \in Starts, NextStart(i)
    PROVE  gdbs[i].state = "none" /\ \A n \in Live : sessions[n].start # i
BY DEF NextStart, Unused, Owned

\* To the daemon's ends, the processes gs are gdbs but for that of i.
OthersSame(gs, i) ==
    \A j \in Starts \ {i} : /\ gs[j].state = gdbs[j].state
                            /\ TheDaemon \in gs[j].writers <=> TheDaemon \in gdbs[j].writers
Kept(gs, i) == gs[i].state \in {"up", "busy"} /\ TheDaemon \in gs[i].writers
Forsaken(gs, i) == TheDaemon \notin gs[i].writers

LEMMA AfterSpawnEffect ==
    ASSUME Data, NEW i \in Starts, NEW st \in {"up", "busy"}
    PROVE  /\ OthersSame(AfterSpawn(i, st, TRUE), i) /\ Kept(AfterSpawn(i, st, TRUE), i)
           /\ OthersSame(AfterSpawn(i, st, FALSE), i) /\ Forsaken(AfterSpawn(i, st, FALSE), i)
BY DaemonIsNoStart DEF AfterSpawn, Data, Gdb, OthersSame, Kept, Forsaken

LEMMA HandleOwned ==
    ASSUME Control, Data, Owned, Handle
    PROVE  Owned'
<1>1. pc = "handle" /\ gdbs \in [Starts -> Gdb]
  BY HandleEnds DEF Data
<1>2. CASE Bad \/ List \/ CreateRefused \/ Unknown \/ Status \/ FinishDenied
  BY <1>2, SameStartsOwned DEF Bad, List, CreateRefused, Unknown, Status, FinishDenied, Live
<1>3. CASE Shutdown
  <2> DEFINE all == {sessions[n].start : n \in Live}
  <2>1. CASE gdbs' = AfterEnd(all, "closed") /\ sessions' = NoSessions
    <3>1. sessions' = Without(Live)
      BY <2>1 DEF NoSessions, Without
    <3> QED  BY <2>1, <3>1, EndOwned
  <2>2. CASE \E S \in SUBSET {i \in all : Alive(i)} : Killed(AfterEnd(S, "closed"))
    BY <2>2, AfterEndType, KilledOwned
  <2> QED  BY <1>3, <2>1, <2>2 DEF Shutdown
<1>4. CASE CreateFailed
  <2>1. PICK i \in Starts :
          /\ NextStart(i)
          /\ \/ gdbs' = [gdbs EXCEPT ![i].state = "dead"]
             \/ \E st \in {"up", "busy"} : gdbs' = AfterSpawn(i, st, FALSE)
    BY <1>4 DEF CreateFailed
  <2>2. sessions' = sessions
    BY <1>4 DEF CreateFailed
  <2>3. \A n \in Live : sessions[n].start # i
    BY <2>1, FreshStart
  <2>4. \A n \in Live : sessions[n].start \in Starts
    BY DEF Data, Session, Live
  <2>5. CASE gdbs' = [gdbs EXCEPT ![i].state = "dead"]
    <3>1. \A j \in Starts \ {i} : gdbs'[j] = gdbs[j]
      BY <1>1, <2>5
    <3>2. gdbs'[i].state = "dead"
      BY <1>1, <2>5 DEF Gdb
    <3> QED  BY <2>2, <2>3, <2>4, <3>1, <3>2 DEF Owned, Alive, Live
  <2>6. ASSUME NEW st \in {"up", "busy"}, gdbs' = AfterSpawn(i, st, FALSE) PROVE Owned'
    <3>1. OthersSame(gdbs', i) /\ Forsaken(gdbs', i)
      BY <2>6, AfterSpawnEffect
    <3> QED  BY <2>2, <2>3, <2>4, <3>1 DEF Owned, Alive, Live, OthersSame, Forsaken
  <2> QED  BY <2>1, <2>5, <2>6
<1>5. CASE CreateKilled
  BY <1>5, StateType, KilledOwned DEF CreateKilled
<1>6. CASE Create
  <2>1. PICK i \in Starts, state \in State \ {"Running"}, st \in {"up", "busy"} :
          /\ NextStart(i)
          /\ gdbs' = AfterSpawn(i, st, TRUE)
          /\ sessions' = [n \in Live \cup {req.name} |->
                             IF n = req.name
                             THEN [start |-> i, state |-> state, dir |-> req.dir, file |-> req.file]
                             ELSE sessions[n]]
    BY <1>6 DEF Create
  <2>2. req.name \notin Live
    BY <1>6 DEF Create
  <2>3. /\ DOMAIN sessions' = Live \cup {req.name} /\ sessions'[req.name].start = i
        /\ \A n \in Live : sessions'[n] = sessions[n]
    BY <2>1, <2>2
  <2>4. \A n \in Live : sessions[n].start # i /\ sessions[n].start \in Starts
    BY <2>1, FreshStart DEF Data, Session, Live
  <2>5. OthersSame(gdbs', i) /\ Kept(gdbs', i)
    BY <2>1, AfterSpawnEffect
  <2> QED  BY <2>3, <2>4, <2>5 DEF Owned, Alive, Live, OthersSame, Kept
<1>7. CASE Action \/ ActionThrew \/ FinishThrew
  <2>1. req.name \in Live
    BY <1>7 DEF Action, ActionThrew, FinishThrew, Finishing
  <2>2. ofSession.start \in Starts
    BY <1>1, <2>1, LiveType
  <2>3. sessions' = sessions \/ \E x : \/ sessions' = [sessions EXCEPT ![req.name].state = x]
                                       \/ sessions' = [sessions EXCEPT ![req.name].file = x]
    BY <1>7 DEF Action, ActionThrew, FinishThrew
  <2>4. DOMAIN sessions' = Live /\ \A n \in Live : sessions'[n].start = sessions[n].start
    BY <2>3, SameStarts DEF Live
  <2>5. CASE gdbs' = gdbs
    BY <2>4, <2>5, SameStartsOwned
  <2>6. ASSUME Alive(ofSession.start), NEW st \in {"up", "busy"},
               gdbs' = [gdbs EXCEPT ![ofSession.start].state = st]
        PROVE  Owned'
    <3>1. \A j \in Starts \ {ofSession.start} : gdbs'[j] = gdbs[j]
      BY <1>1, <2>6
    <3>2. gdbs'[ofSession.start].state = st /\ gdbs'[ofSession.start].writers = gdbs[ofSession.start].writers
      BY <1>1, <2>2, <2>6 DEF Gdb
    <3>3. \A n \in Live : sessions[n].start \in Starts
      BY DEF Data, Session, Live
    <3> QED  BY <2>4, <2>6, <3>1, <3>2, <3>3 DEF Owned, Alive, Live
  <2>7. gdbs' = gdbs \/ /\ Alive(ofSession.start)
                        /\ \E st \in {"up", "busy"} : gdbs' = [gdbs EXCEPT ![ofSession.start].state = st]
    BY <1>7 DEF Action, ActionThrew, FinishThrew
  <2> QED  BY <2>5, <2>6, <2>7
<1>8. CASE ActionKilled
  BY <1>1, <1>8, KilledOwned DEF ActionKilled
<1>9. CASE Close \/ Finish
  <2>1. req.name \in Live
    BY <1>9 DEF Close, Finish, Finishing
  <2>2. {sessions[n].start : n \in {req.name}} = {ofSession.start}
    BY DEF ofSession
  <2>3. CASE gdbs' = AfterEnd({ofSession.start}, "closed") /\ sessions' = Without({req.name})
    BY <2>1, <2>2, <2>3, EndOwned
  <2>4. CASE Killed(gdbs)
    BY <1>1, <2>4, KilledOwned
  <2> QED  BY <1>9, <2>3, <2>4 DEF Close, Finish
<1> QED  BY <1>2, <1>3, <1>4, <1>5, <1>6, <1>7, <1>8, <1>9 DEF Handle

LEMMA OwnedStep ==
    ASSUME Control, Data, Owned, Next
    PROVE  Owned'
<1>1. CASE Handle
  BY <1>1, HandleOwned
<1>2. CASE Accept \/ Reply \/ ReplyAndStop \/ Boot
  BY <1>2, SameStartsOwned DEF Accept, Reply, ReplyAndStop, Boot, Live
<1>3. CASE ReplyToNobody
  BY <1>3, KilledOwned DEF ReplyToNobody, Data
<1>4. ASSUME NEW c \in Client, HangUp(c) \/ \E r \in Requests[c] : Call(c, r) PROVE Owned'
  BY <1>4, SameStartsOwned DEF HangUp, Call, Live
<1>5. ASSUME NEW i \in Starts, GdbDies(i) \/ GdbSeesEnd(i) \/ ProgramStops(i) PROVE Owned'
  <2>1. sessions' = sessions /\ \A n \in Live : sessions[n].start \in Starts
    BY <1>5 DEF GdbDies, GdbSeesEnd, ProgramStops, Data, Session, Live
  <2>2. CASE gdbs' = AfterEnd({i}, "dead")
    <3>1. gdbs'[i].state = "dead"
      BY <2>2, AfterEndEffect
    <3>2. \A j \in Starts \ {i} : /\ gdbs'[j].state = gdbs[j].state
                                  /\ TheDaemon \in gdbs'[j].writers <=> TheDaemon \in gdbs[j].writers
      BY <2>2, AfterEndEffect
    <3> QED  BY <2>1, <3>1, <3>2 DEF Owned, Alive, Live
  <2>3. CASE ProgramStops(i)
    <3>1. /\ gdbs[i].state = "busy" /\ gdbs'[i].state = "up" /\ gdbs'[i].writers = gdbs[i].writers
          /\ \A j \in Starts \ {i} : gdbs'[j] = gdbs[j]
      BY <2>3 DEF ProgramStops, Data, Gdb
    <3> QED  BY <2>1, <3>1 DEF Owned, Alive, Live
  <2> QED  BY <1>5, <2>2, <2>3 DEF GdbDies, GdbSeesEnd
<1> QED  BY <1>1, <1>2, <1>3, <1>4, <1>5 DEF Next, DaemonStep

\* For any clients, requests and number of starts: no failure half way through a
\* handler leaves a session without its process, two sessions with one, or the
\* daemon holding the pipe of a GDB that belongs to no session.
THEOREM OwnedCorrect == Spec => []Owned
<1> DEFINE Inv == Control /\ Data /\ Owned
<1>1. Init => Inv
  <2>1. Init => Owned
    BY DEF Init, NoSessions, Owned, Alive, Live
  <2> QED  BY <2>1, InitTypes
<1>2. Inv /\ [Next]_vars => Inv'
  <2>1. Inv /\ UNCHANGED vars => Owned'
    BY DEF vars, Owned, Alive, Live
  <2> QED  BY <2>1, OwnedStep, TypesInductive
<1>3. Inv => Owned
  OBVIOUS
<1> QED  BY <1>1, <1>2, <1>3, PTL DEF Spec

-------------------------------------------------------------------------------
(* What the clients may rely on *)

live == [n \in DOMAIN sessions |-> sessions[n].start]
used == {i \in Starts : gdbs[i].state # "none"}
told == [op |-> answer.op, name |-> answer.name, ok |-> answer.ok]

LEMMA OverStep ==
    ASSUME Control, Data, Over, Next
    PROVE  Over'
<1>1. CASE Handle
  <2>1. pc = "handle" /\ ~ending
    BY <1>1, HandleEnds DEF Over, Control
  <2>2. CASE \E gs : Killed(gs)
    BY <2>1, <2>2 DEF Killed, Over
  <2>3. CASE Responds /\ ending' = ending
    BY <2>1, <2>3 DEF Over
  <2>4. CASE ending' = TRUE /\ sessions' = NoSessions /\ Respond(TRUE)
    BY <2>4 DEF Over, Respond, RespondFinish
  <2>5. Shutdown => (ending' = TRUE /\ sessions' = NoSessions /\ Respond(TRUE)) \/ \E gs : Killed(gs)
    BY DEF Shutdown
  <2>6. Handle /\ ~Shutdown => ending' = ending
    BY DEF Handle, Bad, List, CreateRefused, CreateFailed, CreateKilled, Create, Unknown, Status, Close,
           Action, ActionThrew, ActionKilled, FinishDenied, FinishThrew, Finish, Refuse, Killed
  <2> QED  BY <1>1, <2>2, <2>3, <2>4, <2>5, <2>6, HandleEnds
<1>2. CASE Accept \/ Reply \/ ReplyAndStop \/ Boot
  BY <1>2 DEF Accept, Reply, ReplyAndStop, Boot, Over, Control
<1>3. CASE ReplyToNobody
  BY <1>3 DEF ReplyToNobody, Killed, Over
<1>4. ASSUME NEW c \in Client, HangUp(c) \/ \E r \in Requests[c] : Call(c, r) PROVE Over'
  BY <1>4 DEF HangUp, Call, Over
<1>5. ASSUME NEW i \in Starts, GdbDies(i) \/ GdbSeesEnd(i) \/ ProgramStops(i) PROVE Over'
  BY <1>5 DEF GdbDies, GdbSeesEnd, ProgramStops, Over
<1> QED  BY <1>1, <1>2, <1>3, <1>4, <1>5 DEF Next, DaemonStep

LEMMA InitAbstract == Init => Abstract!Init
<1> SUFFICES ASSUME Init PROVE Abstract!Init
  OBVIOUS
<1>1. Up
  BY DEF Init, Up
<1>2. live = Abstract!Nothing
  BY DEF Init, live, NoSessions, Abstract!Nothing
<1>3. used = {}
  BY DEF Init, used
<1>4. told \in {a \in Abstract!Answer : a.op = "none"}
  BY DaemonAssumption DEF Init, told, NoAnswer, Abstract!Answer, Abstract!Op
<1> QED  BY <1>1, <1>2, <1>3, <1>4 DEF Abstract!Init, live, used, told

\* The process of a start that was made never becomes one of no start.
LEMMA UsedGrows ==
    ASSUME Data, NEW gs \in [Starts -> Gdb],
           \A i \in Starts : gdbs[i].state # "none" => gs[i].state # "none",
           gdbs' = gs
    PROVE  used \subseteq used'
BY DEF used

LEMMA KilledDies ==
    ASSUME Data, Up, NEW gs \in [Starts -> Gdb], Killed(gs),
           \A i \in Starts : gdbs[i].state # "none" => gs[i].state # "none"
    PROVE  Abstract!Next
<1>1. /\ pc' = "killed" /\ sessions' = NoSessions /\ answer' = NoAnswer
      /\ gdbs' = [i \in Starts |-> [gs[i] EXCEPT !.writers = @ \ {TheDaemon}]]
  BY DEF Killed
<1>2. Up' = FALSE
  BY <1>1 DEF Up
<1>3. live' = Abstract!Nothing
  BY <1>1 DEF live, NoSessions, Abstract!Nothing
<1>4. \A i \in Starts : gdbs'[i].state = gs[i].state
  BY <1>1 DEF Gdb
<1>5. used' \in SUBSET Starts /\ used \subseteq used'
  BY <1>4 DEF used
<1>6. \E n \in Name : told' = [op |-> "none", name |-> n, ok |-> FALSE]
  BY <1>1, DaemonAssumption DEF told, NoAnswer
<1>7. Abstract!Die
  BY <1>2, <1>3, <1>5, <1>6 DEF Abstract!Die, live, used, told
<1> QED  BY <1>7 DEF Abstract!Next

\* A handler that refuses leaves the table, and forgets no start.
LEMMA RefuseAbstract ==
    ASSUME Control, Data, pc = "handle", Refuse, live' = live, used \subseteq used'
    PROVE  Abstract!Next
<1>1. req \in Request
  BY RequestType
<1>2. PICK op \in Op, n \in Name : op = req.op /\ n = req.name
  BY <1>1 DEF Request
<1>3. told' = [op |-> op, name |-> n, ok |-> FALSE] /\ pc' = "reply"
  BY <1>2 DEF Refuse, Respond, RespondFinish, told
<1>4. op \in Abstract!Op \ {"none"}
  BY DEF Op, Ending, Abstract!Op, Abstract!Ended
<1>5. used' \in SUBSET Starts
  BY DEF used
<1>6. Abstract!Refuse(op, n)
  BY <1>3, <1>5 DEF Abstract!Refuse, live, used, told
<1>7. Up /\ UNCHANGED Up
  BY <1>3 DEF Up
<1> QED  BY <1>4, <1>6, <1>7 DEF Abstract!Next

\* So does one that serves, and it makes no start.
LEMMA ServeAbstract ==
    ASSUME Control, Data, pc = "handle", Respond(TRUE), live' = live, used' = used,
           req.op \in {"list", "status", "action"},
           req.op \in {"status", "action"} => req.name \in Live
    PROVE  Abstract!Next
<1>1. req \in Request
  BY RequestType
<1>2. PICK op \in Op, n \in Name : op = req.op /\ n = req.name
  BY <1>1 DEF Request
<1>3. told' = [op |-> op, name |-> n, ok |-> TRUE] /\ pc' = "reply"
  BY <1>2 DEF Respond, RespondFinish, told
<1>4. op \in {"status", "action"} => n \in DOMAIN live
  BY <1>2 DEF live, Live
<1>5. Abstract!Serve(op, n)
  BY <1>3, <1>4 DEF Abstract!Serve, live, used, told
<1>6. Up /\ UNCHANGED Up
  BY <1>3 DEF Up
<1>7. op \in {"list", "status", "action"}
  BY <1>2
<1> QED  BY <1>5, <1>6, <1>7 DEF Abstract!Next

\* A session that is closed or finished leaves the table.
LEMMA EndAbstract ==
    ASSUME Control, Data, Owned, pc = "handle", req.op \in Ending, req.name \in Live,
           NEW finish, RespondFinish(TRUE, finish), sessions' = Without({req.name}),
           gdbs' = AfterEnd({ofSession.start}, "closed")
    PROVE  Abstract!Next
<1>1. req \in Request
  BY RequestType
<1>2. PICK op \in Op, n \in Name : op = req.op /\ n = req.name
  BY <1>1 DEF Request
<1>3. n \in DOMAIN live /\ op \in Abstract!Ended
  BY <1>2 DEF live, Live, Ending, Abstract!Ended
<1>4. told' = [op |-> op, name |-> n, ok |-> TRUE] /\ pc' = "reply"
  BY <1>2 DEF RespondFinish, told
<1>5. live' = [m \in DOMAIN live \ {n} |-> live[m]]
  BY <1>2 DEF live, Without, Live
<1>6. ofSession.start \in Starts /\ gdbs[ofSession.start].state # "none"
  BY LiveType DEF Owned, ofSession
<1>7. {ofSession.start} \in SUBSET Starts
  BY <1>6
<1>8. \A i \in Starts : gdbs'[i].state # "none" <=> gdbs[i].state # "none"
  BY <1>6, <1>7, AfterEndEffect
<1>9. used' = used
  BY <1>8 DEF used
<1>10. Abstract!End(op, n)
  BY <1>3, <1>4, <1>5, <1>9 DEF Abstract!End, live, used, told
<1>11. Up /\ UNCHANGED Up
  BY <1>4 DEF Up
<1> QED  BY <1>3, <1>10, <1>11 DEF Abstract!Next

\* A start that fails or succeeds is counted, and no other is.
LEMMA SpawnUsed ==
    ASSUME Data, Owned, NEW i \in Starts, NextStart(i), OthersSame(gdbs', i), gdbs'[i].state # "none"
    PROVE  used' = used \cup {i} /\ i \notin used
BY FreshStart DEF used, OthersSame

LEMMA HandleAbstract ==
    ASSUME Control, Data, Owned, Handle
    PROVE  Abstract!Next
<1>1. /\ pc = "handle" /\ Up
      /\ gdbs \in [Starts -> Gdb] /\ \A i \in Starts : gdbs[i].state = gdbs[i].state
  BY HandleEnds DEF Data, Up
<1>2. CASE Bad \/ CreateRefused \/ Unknown \/ FinishDenied
  BY <1>1, <1>2, RefuseAbstract DEF Bad, CreateRefused, Unknown, FinishDenied, live, used
<1>3. CASE List \/ Status
  BY <1>1, <1>3, ServeAbstract DEF List, Status, Handling, live, used
<1>4. CASE ActionThrew \/ FinishThrew
  <2>1. sessions' = sessions \/ \E x : \/ sessions' = [sessions EXCEPT ![req.name].state = x]
                                       \/ sessions' = [sessions EXCEPT ![req.name].file = x]
    BY <1>4 DEF ActionThrew, FinishThrew
  <2>2. live' = live
    BY <2>1, SameStarts DEF live, Live
  <2>3. gdbs' = gdbs \/ /\ Alive(ofSession.start)
                        /\ \E st \in {"up", "busy"} : gdbs' = [gdbs EXCEPT ![ofSession.start].state = st]
    BY <1>4 DEF ActionThrew, FinishThrew
  <2>4. used' = used
    <3>1. ASSUME Alive(ofSession.start), NEW st \in {"up", "busy"},
                 gdbs' = [gdbs EXCEPT ![ofSession.start].state = st]
          PROVE  used' = used
      BY <1>1, <3>1 DEF used, Alive
    <3> QED  BY <2>3, <3>1 DEF used
  <2> QED  BY <1>1, <1>4, <2>2, <2>4, RefuseAbstract DEF ActionThrew, FinishThrew
<1>5. CASE CreateFailed
  <2>1. PICK i \in Starts :
          /\ NextStart(i)
          /\ \/ gdbs' = [gdbs EXCEPT ![i].state = "dead"]
             \/ \E st \in {"up", "busy"} : gdbs' = AfterSpawn(i, st, FALSE)
    BY <1>5 DEF CreateFailed
  <2>2. live' = live /\ Refuse
    BY <1>5 DEF CreateFailed, live
  <2>3. CASE gdbs' = [gdbs EXCEPT ![i].state = "dead"]
    BY <1>1, <2>2, <2>3, RefuseAbstract DEF used
  <2>4. CASE \E st \in {"up", "busy"} : gdbs' = AfterSpawn(i, st, FALSE)
    <3>1. OthersSame(gdbs', i)
      BY <2>4, AfterSpawnEffect
    <3>2. gdbs[i].state = "none"
      BY <2>1, FreshStart
    <3>3. used \subseteq used'
      BY <3>1, <3>2 DEF used, OthersSame
    <3> QED  BY <1>1, <2>2, <3>3, RefuseAbstract
  <2> QED  BY <2>1, <2>3, <2>4
<1>6. CASE CreateKilled
  <2>1. PICK i \in Starts : Killed([gdbs EXCEPT ![i].state = "dead"])
    BY <1>6 DEF CreateKilled, Opens
  <2> DEFINE gs == [gdbs EXCEPT ![i].state = "dead"]
  <2>2. gs \in [Starts -> Gdb]
    BY StateType
  <2>3. \A j \in Starts : gdbs[j].state # "none" => gs[j].state # "none"
    BY <1>1
  <2> QED  BY <1>1, <2>1, <2>2, <2>3, KilledDies
<1>7. CASE Create
  <2>1. PICK i \in Starts, state \in State \ {"Running"}, st \in {"up", "busy"} :
          /\ NextStart(i)
          /\ gdbs' = AfterSpawn(i, st, TRUE)
          /\ sessions' = [n \in Live \cup {req.name} |->
                             IF n = req.name
                             THEN [start |-> i, state |-> state, dir |-> req.dir, file |-> req.file]
                             ELSE sessions[n]]
          /\ Respond(TRUE)
    BY <1>7 DEF Create
  <2>2. PICK n \in Name : n = req.name
    BY <1>1, RequestType DEF Request
  <2>3. OthersSame(gdbs', i) /\ Kept(gdbs', i)
    BY <2>1, AfterSpawnEffect
  <2>4. used' = used \cup {i} /\ i \notin used
    BY <2>1, <2>3, SpawnUsed DEF Kept
  <2>5. n \notin DOMAIN live /\ req.op = "create"
    BY <1>7, <2>2 DEF Create, Handling, live, Live
  <2>6. live' = [m \in DOMAIN live \cup {n} |-> IF m = n THEN i ELSE live[m]]
    BY <2>1, <2>2 DEF live, Live
  <2>7. told' = [op |-> "create", name |-> n, ok |-> TRUE] /\ pc' = "reply"
    BY <2>1, <2>2, <2>5 DEF Respond, RespondFinish, told
  <2>8. Abstract!Open(n, i)
    BY <2>4, <2>5, <2>6, <2>7 DEF Abstract!Open, live, used, told
  <2>9. Up /\ UNCHANGED Up
    BY <1>1, <2>7 DEF Up
  <2> QED  BY <2>8, <2>9 DEF Abstract!Next
<1>8. CASE Action
  <2>1. req.name \in Live /\ req.op = "action" /\ UNCHANGED ending
    BY <1>8 DEF Action, Handling
  <2>2. sessions' = sessions \/ \E x : sessions' = [sessions EXCEPT ![req.name].state = x]
    BY <1>8 DEF Action
  <2>3. live' = live
    BY <2>2, SameStarts DEF live, Live
  <2>4. gdbs' = gdbs \/ /\ Alive(ofSession.start)
                        /\ \E st \in {"up", "busy"} : gdbs' = [gdbs EXCEPT ![ofSession.start].state = st]
    BY <1>8 DEF Action
  <2>5. used' = used
    <3>1. ASSUME Alive(ofSession.start), NEW st \in {"up", "busy"},
                 gdbs' = [gdbs EXCEPT ![ofSession.start].state = st]
          PROVE  used' = used
      BY <1>1, <3>1 DEF used, Alive
    <3> QED  BY <2>4, <3>1 DEF used
  <2>6. Respond(TRUE) \/ Respond(FALSE)
    BY <1>8 DEF Action
  <2>7. CASE Respond(TRUE)
    BY <1>1, <2>1, <2>3, <2>5, <2>7, ServeAbstract
  <2>8. CASE Respond(FALSE)
    BY <1>1, <2>1, <2>3, <2>5, <2>8, RefuseAbstract DEF Refuse
  <2> QED  BY <2>6, <2>7, <2>8
<1>9. CASE ActionKilled
  BY <1>1, <1>9, KilledDies DEF ActionKilled
<1>10. CASE Close \/ Finish
  <2>1. req.op \in Ending /\ req.name \in Live
    BY <1>10 DEF Close, Finish, Finishing, Handling, Ending
  <2>2. ASSUME NEW finish, RespondFinish(TRUE, finish), sessions' = Without({req.name}),
               gdbs' = AfterEnd({ofSession.start}, "closed")
        PROVE  Abstract!Next
    BY <1>1, <2>1, <2>2, EndAbstract
  <2>3. CASE Killed(gdbs)
    BY <1>1, <2>3, KilledDies
  <2> QED  BY <1>10, <2>2, <2>3 DEF Close, Finish, Respond
<1>11. CASE Shutdown
  <2> DEFINE all == {sessions[n].start : n \in Live}
  <2>1. all \in SUBSET Starts
    BY DEF Data, Session, Live
  <2>2. CASE gdbs' = AfterEnd(all, "closed") /\ sessions' = NoSessions /\ Respond(TRUE)
    <3>1. PICK n \in Name : n = req.name
      BY <1>1, RequestType DEF Request
    <3>2. told' = [op |-> "shutdown", name |-> n, ok |-> TRUE] /\ pc' = "reply"
      BY <1>11, <2>2, <3>1 DEF Shutdown, Handling, Respond, RespondFinish, told
    <3>3. \A i \in all : gdbs[i].state # "none"
      BY DEF Owned
    <3>4. \A i \in Starts : gdbs'[i].state # "none" <=> gdbs[i].state # "none"
      BY <2>1, <2>2, <3>3, AfterEndEffect
    <3>5. used' = used
      BY <3>4 DEF used
    <3>6. live' = Abstract!Nothing
      BY <2>2 DEF live, NoSessions, Abstract!Nothing
    <3>7. Abstract!EndAll(n)
      BY <3>2, <3>5, <3>6 DEF Abstract!EndAll, live, used, told
    <3>8. Up /\ UNCHANGED Up
      BY <1>1, <3>2 DEF Up
    <3> QED  BY <3>7, <3>8 DEF Abstract!Next
  <2>3. ASSUME NEW S \in SUBSET {i \in all : Alive(i)}, Killed(AfterEnd(S, "closed"))
        PROVE  Abstract!Next
    <3>1. S \in SUBSET Starts
      BY <2>1
    <3>2. \A i \in Starts : gdbs[i].state # "none" => AfterEnd(S, "closed")[i].state # "none"
      BY <3>1, AfterEndEffect
    <3>3. AfterEnd(S, "closed") \in [Starts -> Gdb]
      BY AfterEndType
    <3> QED  BY <1>1, <2>3, <3>2, <3>3, KilledDies
  <2> QED  BY <1>11, <2>2, <2>3 DEF Shutdown
<1> QED  BY <1>2, <1>3, <1>4, <1>5, <1>6, <1>7, <1>8, <1>9, <1>10, <1>11 DEF Handle

LEMMA StepAbstract ==
    ASSUME Control, Data, Owned, Over, [Next]_vars
    PROVE  [Abstract!Next]_(Abstract!vars)
<1>1. CASE Handle
  BY <1>1, HandleAbstract
<1>2. CASE Reply
  <2>1. Up /\ UNCHANGED Up
    BY <1>2 DEF Reply, Up
  <2>2. live' = live /\ used' = used
    BY <1>2 DEF Reply, live, used
  <2>3. \E n \in Name : told' = [op |-> "none", name |-> n, ok |-> FALSE]
    BY <1>2, DaemonAssumption DEF Reply, Done, Told, NoAnswer, told
  <2>4. Abstract!Read
    BY <2>2, <2>3 DEF Abstract!Read, live, used, told
  <2>5. \E n \in Name : Abstract!Read
    BY <2>4, DaemonAssumption
  <2> QED  BY <2>1, <2>5 DEF Abstract!Next
<1>3. CASE ReplyAndStop
  <2>1. Up /\ Up' = FALSE
    BY <1>3 DEF ReplyAndStop, Up
  <2>2. live' = Abstract!Nothing
    BY <1>3 DEF ReplyAndStop, Over, live, NoSessions, Abstract!Nothing
  <2>3. used' = used /\ used \in SUBSET Starts
    BY <1>3 DEF ReplyAndStop, used
  <2>4. \E n \in Name : told' = [op |-> "none", name |-> n, ok |-> FALSE]
    BY <1>3, DaemonAssumption DEF ReplyAndStop, Told, NoAnswer, told
  <2>5. Abstract!Die
    BY <2>1, <2>2, <2>3, <2>4 DEF Abstract!Die, live, used, told
  <2> QED  BY <2>1, <2>5 DEF Abstract!Next
<1>4. CASE ReplyToNobody
  <2>1. Up /\ gdbs \in [Starts -> Gdb] /\ Killed(gdbs)
    BY <1>4 DEF ReplyToNobody, Up, Data
  <2> QED  BY <2>1, KilledDies
<1>5. CASE Boot
  <2>1. ~Up /\ Up' = TRUE /\ live' = live /\ used' = used /\ told' = told
    BY <1>5 DEF Boot, Up, live, used, told
  <2>2. Abstract!Boot
    BY <2>1 DEF Abstract!Boot, live, used, told
  <2> QED  BY <2>1, <2>2 DEF Abstract!Next
<1>6. CASE Accept
  BY <1>6 DEF Accept, Up, Abstract!vars
<1>7. ASSUME NEW c \in Client, HangUp(c) \/ \E r \in Requests[c] : Call(c, r)
      PROVE  UNCHANGED Abstract!vars
  BY <1>7 DEF HangUp, Call, Up, Abstract!vars
<1>8. ASSUME NEW i \in Starts, GdbDies(i) \/ GdbSeesEnd(i) \/ ProgramStops(i)
      PROVE  UNCHANGED Abstract!vars
  <2>1. UNCHANGED <<pc, sessions, answer>>
    BY <1>8 DEF GdbDies, GdbSeesEnd, ProgramStops
  <2>2. CASE gdbs' = AfterEnd({i}, "dead") /\ gdbs[i].state \in {"up", "busy"}
    <3>1. \A j \in Starts : gdbs'[j].state # "none" <=> gdbs[j].state # "none"
      BY <2>2, AfterEndEffect
    <3>2. used' = used
      BY <3>1 DEF used
    <3> QED  BY <2>1, <3>2 DEF Abstract!vars, Up, used
  <2>3. CASE ProgramStops(i)
    <3>1. \A j \in Starts : gdbs'[j].state # "none" <=> gdbs[j].state # "none"
      BY <2>3 DEF ProgramStops, Data
    <3>2. used' = used
      BY <3>1 DEF used
    <3> QED  BY <2>1, <3>2 DEF Abstract!vars, Up, used
  <2> QED  BY <1>8, <2>2, <2>3 DEF GdbDies, GdbSeesEnd
<1>9. CASE UNCHANGED vars
  BY <1>9 DEF vars, Up, Abstract!vars
<1> QED  BY <1>1, <1>2, <1>3, <1>4, <1>5, <1>6, <1>7, <1>8, <1>9 DEF Next, DaemonStep

\* For any clients, requests and number of starts: every step of the daemon, a
\* handler that fails half way and the death of the daemon included, is one the
\* abstract registry allows, or invisible in it.
THEOREM RegistryImplemented == Spec => ImplementsRegistry
<1>1. Init => IInv
  <2>1. Init => Owned /\ Over
    BY DEF Init, NoSessions, Owned, Over, Alive, Live
  <2> QED  BY <2>1, InitTypes DEF IInv
<1>2. IInv /\ [Next]_vars => IInv'
  <2>1. IInv /\ UNCHANGED vars => Owned' /\ Over'
    BY DEF IInv, vars, Owned, Over, Alive, Live
  <2> QED  BY <2>1, OwnedStep, OverStep, TypesInductive DEF IInv
<1>3. IInv /\ [Next]_vars => [Abstract!Next]_(Abstract!vars)
  BY StepAbstract DEF IInv
<1> QED  BY <1>1, <1>2, <1>3, InitAbstract, PTL DEF Spec, ImplementsRegistry, Abstract!Spec

-------------------------------------------------------------------------------
(* The files of a session *)

\* Live sessions with the same assets have used them at a time.
Paired ==
    \A m, n \in Live : sessions[m].dir = sessions[n].dir /\ m # n
                           => <<sessions[m].start, sessions[n].start>> \in shares
OwnFiles == \A n \in Live : Writes(n, sessions[n].file)

\* The sessions gone on with are those of before, with their starts and assets.
GoesOn ==
    /\ DOMAIN sessions' \subseteq Live
    /\ \A n \in DOMAIN sessions' : /\ sessions'[n].start = sessions[n].start
                                   /\ sessions'[n].dir = sessions[n].dir

\* The handlers that make no session: their effect on the table.
LEMMA HandleGoesOn ==
    ASSUME Control, Data, Handle, ~Create
    PROVE  GoesOn
<1>1. \A n \in Live : sessions[n] \in Session
  BY DEF Live, Data
<1>2. CASE sessions' = sessions \/ sessions' = NoSessions
  BY <1>2 DEF GoesOn, Live, NoSessions
<1>3. ASSUME NEW x, \/ sessions' = [sessions EXCEPT ![req.name].state = x]
                    \/ sessions' = [sessions EXCEPT ![req.name].file = x]
      PROVE  GoesOn
  BY <1>1, <1>3 DEF GoesOn, Live, Session
<1>4. CASE \E S : sessions' = Without(S)
  BY <1>4 DEF GoesOn, Without, Live
<1>5. \/ sessions' = sessions \/ sessions' = NoSessions
      \/ \E x : \/ sessions' = [sessions EXCEPT ![req.name].state = x]
                \/ sessions' = [sessions EXCEPT ![req.name].file = x]
      \/ \E S : sessions' = Without(S)
  <2>1. CASE Bad \/ List \/ CreateRefused \/ CreateFailed \/ Unknown \/ Status \/ FinishDenied
    BY <2>1 DEF Bad, List, CreateRefused, CreateFailed, Unknown, Status, FinishDenied
  <2>2. CASE Shutdown \/ CreateKilled \/ ActionKilled
    BY <2>2 DEF Shutdown, CreateKilled, ActionKilled, Killed
  <2>3. CASE Action \/ ActionThrew \/ FinishThrew
    BY <2>3 DEF Action, ActionThrew, FinishThrew
  <2>4. CASE Close \/ Finish
    BY <2>4 DEF Close, Finish, Killed
  <2> QED  BY <2>1, <2>2, <2>3, <2>4 DEF Handle
<1> QED  BY <1>2, <1>3, <1>4, <1>5

\* What a request about a live session writes: the index lists that session's
\* evidence, and a report that session's start.
LEMMA Writing ==
    ASSUME Control, Data, pc = "handle", req.name \in Live
    PROVE  /\ \A e \in Flushed : /\ e.index \in {disk.index, [disk.index EXCEPT ![ofSession.dir] = ofSession.start]}
                                 /\ e.report = disk.report
           /\ \A e \in Written : /\ e.index \in {disk.index, [disk.index EXCEPT ![ofSession.dir] = ofSession.start]}
                                 /\ e.report = [disk.report EXCEPT ![TargetFile] = ofSession.start]
<1> DEFINE own == [disk.index EXCEPT ![ofSession.dir] = ofSession.start]
<1>1. disk \in Disk
  BY DEF Data, Disk
<1>2. /\ Indexed(ofSession.dir, ofSession.start).index = own
      /\ Indexed(ofSession.dir, ofSession.start).report = disk.report
  BY <1>1 DEF Indexed, Disk
<1>3. \A e \in Flushed : e \in Disk /\ e.index \in {disk.index, own} /\ e.report = disk.report
  BY <1>2, LiveType DEF Flushed
<1>4. ASSUME NEW e \in Flushed
      PROVE  /\ [e EXCEPT !.report[TargetFile] = ofSession.start].index \in {disk.index, own}
             /\ [e EXCEPT !.report[TargetFile] = ofSession.start].report
                  = [disk.report EXCEPT ![TargetFile] = ofSession.start]
  BY <1>3 DEF Disk
<1> QED  BY <1>3, <1>4 DEF Written

LEMMA KeptOn ==
    ASSUME Paired, EvidenceKept, GoesOn, shares \subseteq shares', disk'.index = disk.index
    PROVE  Paired' /\ EvidenceKept'
BY DEF Paired, EvidenceKept, GoesOn, Live

\* A session that writes takes the index from those alone with which it is paired.
LEMMA WroteOn ==
    ASSUME Control, Data, Paired, EvidenceKept, pc = "handle", req.name \in Live,
           GoesOn, shares' = shares, disk' \in Flushed \cup Written
    PROVE  Paired' /\ EvidenceKept'
<1>1. Paired'
  BY DEF Paired, GoesOn, Live
<1>2. disk.index \in [Dir -> 0 .. MaxStarts] /\ \A n \in Live : sessions[n].dir \in Dir
  BY DEF Data, Session, Live
<1>3. disk'.index \in {disk.index, [disk.index EXCEPT ![ofSession.dir] = ofSession.start]}
  BY Writing
<1>4. ASSUME NEW n \in Live', disk'.index[sessions[n].dir] # sessions[n].start
      PROVE  <<sessions[n].start, disk'.index[sessions[n].dir]>> \in shares
  <2>1. n \in Live
    BY DEF GoesOn, Live
  <2>2. CASE disk'.index[sessions[n].dir] = disk.index[sessions[n].dir]
    BY <1>4, <2>1, <2>2 DEF EvidenceKept
  <2>3. CASE sessions[n].dir = ofSession.dir /\ disk'.index[sessions[n].dir] = ofSession.start
    BY <1>4, <2>1, <2>3 DEF Paired, ofSession
  <2> QED  BY <1>2, <1>3, <2>1, <2>2, <2>3
<1>5. \A n \in Live' : sessions'[n].start = sessions[n].start /\ sessions'[n].dir = sessions[n].dir
  BY DEF GoesOn, Live
<1> QED  BY <1>1, <1>4, <1>5 DEF EvidenceKept

\* One that opens its assets takes the index from those that are paired with it.
LEMMA OpenedOn ==
    ASSUME Data, Paired, EvidenceKept, NEW d \in Dir, NEW i \in Starts, Opens(d, i)
    PROVE  /\ \A m, n \in Live : sessions[m].dir = sessions[n].dir /\ m # n
                                   => <<sessions[m].start, sessions[n].start>> \in shares'
           /\ \A n \in Live : sessions[n].dir = d => /\ <<sessions[n].start, i>> \in shares'
                                                     /\ <<i, sessions[n].start>> \in shares'
           /\ disk'.index[d] = i
           /\ \A n \in Live : \/ disk'.index[sessions[n].dir] = sessions[n].start
                              \/ <<sessions[n].start, disk'.index[sessions[n].dir]>> \in shares'
<1>1. shares' = shares \cup (Using(d) \X {i}) \cup ({i} \X Using(d))
  BY DEF Opens
<1>2. \A n \in Live : sessions[n].dir = d => sessions[n].start \in Using(d)
  BY DEF Using
<1>3. disk'.index = [disk.index EXCEPT ![d] = i] /\ disk.index \in [Dir -> 0 .. MaxStarts]
  BY DEF Opens, Indexed, Data
<1>4. \A n \in Live : sessions[n].dir = d => /\ <<sessions[n].start, i>> \in shares'
                                             /\ <<i, sessions[n].start>> \in shares'
  BY <1>1, <1>2
<1>5. \A n \in Live : sessions[n].dir \in Dir
  BY DEF Data, Session, Live
<1>6. ASSUME NEW n \in Live
      PROVE  \/ disk'.index[sessions[n].dir] = sessions[n].start
             \/ <<sessions[n].start, disk'.index[sessions[n].dir]>> \in shares'
  <2>1. CASE sessions[n].dir = d
    BY <1>3, <1>4, <2>1
  <2>2. CASE sessions[n].dir # d
    <3>1. disk'.index[sessions[n].dir] = disk.index[sessions[n].dir]
      BY <1>3, <1>5, <2>2
    <3> QED  BY <1>1, <3>1 DEF EvidenceKept
  <2> QED  BY <2>1, <2>2
<1> QED  BY <1>1, <1>3, <1>4, <1>6 DEF Paired

LEMMA EvidenceStep ==
    ASSUME Control, Data, Paired, EvidenceKept, Next
    PROVE  Paired' /\ EvidenceKept'
<1>1. disk \in Disk
  BY DEF Data, Disk
<1>2. ASSUME sessions' = NoSessions PROVE Paired' /\ EvidenceKept'
  BY <1>2 DEF Paired, EvidenceKept, Live, NoSessions
<1>3. ASSUME sessions' = sessions, disk' = disk, shares' = shares PROVE Paired' /\ EvidenceKept'
  BY <1>3 DEF Paired, EvidenceKept, Live
<1>4. CASE Handle
  <2>1. pc = "handle"
    BY <1>4, HandleEnds
  <2>2. CASE Create
    <3>1. PICK i \in Starts, state \in State :
            /\ Opens(req.dir, i)
            /\ sessions' = [n \in Live \cup {req.name} |->
                               IF n = req.name
                               THEN [start |-> i, state |-> state, dir |-> req.dir, file |-> req.file]
                               ELSE sessions[n]]
      BY <2>2 DEF Create
    <3>2. Handling("create") /\ req.name \notin Live
      BY <2>2 DEF Create
    <3>3. req.dir \in Dir
      BY <2>1, <3>2, CreateType DEF Handling
    <3>4. /\ Live' = Live \cup {req.name}
          /\ sessions'[req.name].start = i /\ sessions'[req.name].dir = req.dir
          /\ \A n \in Live : sessions'[n] = sessions[n]
      BY <3>1, <3>2 DEF Live
    <3>5. /\ \A m, n \in Live : sessions[m].dir = sessions[n].dir /\ m # n
                                    => <<sessions[m].start, sessions[n].start>> \in shares'
          /\ \A n \in Live : sessions[n].dir = req.dir =>
                 <<sessions[n].start, i>> \in shares' /\ <<i, sessions[n].start>> \in shares'
      BY <3>1, <3>3, OpenedOn
    <3>6. /\ disk'.index[req.dir] = i
          /\ \A n \in Live : \/ disk'.index[sessions[n].dir] = sessions[n].start
                             \/ <<sessions[n].start, disk'.index[sessions[n].dir]>> \in shares'
      BY <3>1, <3>3, OpenedOn
    <3>7. Paired'
      <4> SUFFICES ASSUME NEW m \in Live', NEW n \in Live', m # n,
                          sessions'[m].dir = sessions'[n].dir
                   PROVE  <<sessions'[m].start, sessions'[n].start>> \in shares'
        BY DEF Paired
      <4>1. CASE m # req.name /\ n # req.name
        BY <3>4, <3>5, <4>1
      <4>2. CASE m = req.name
        BY <3>4, <3>5, <4>2
      <4>3. CASE n = req.name
        BY <3>4, <3>5, <4>3
      <4> QED  BY <4>1, <4>2, <4>3
    <3>8. EvidenceKept'
      <4> SUFFICES ASSUME NEW n \in Live'
                   PROVE  \/ disk'.index[sessions'[n].dir] = sessions'[n].start
                          \/ <<sessions'[n].start, disk'.index[sessions'[n].dir]>> \in shares'
        BY DEF EvidenceKept
      <4> QED  BY <3>4, <3>6
    <3> QED  BY <3>7, <3>8
  <2>3. CASE CreateFailed
    <3>1. PICK i \in Starts : Opens(req.dir, i) \/ UNCHANGED <<disk, shares>>
      BY <2>3 DEF CreateFailed
    <3>2. Handling("create") /\ sessions' = sessions
      BY <2>3 DEF CreateFailed
    <3>3. req.dir \in Dir
      BY <2>1, <3>2, CreateType DEF Handling
    <3>4. CASE Opens(req.dir, i)
      BY <3>2, <3>3, <3>4, OpenedOn DEF Paired, EvidenceKept, Live
    <3> QED  BY <1>3, <3>1, <3>2, <3>4
  <2>4. CASE CreateKilled \/ ActionKilled
    BY <1>2, <2>4 DEF CreateKilled, ActionKilled, Killed
  <2>5. CASE Bad \/ List \/ CreateRefused \/ Unknown \/ Status
    BY <1>3, <2>5 DEF Bad, List, CreateRefused, Unknown, Status
  <2>6. CASE Shutdown
    BY <1>2, <2>6 DEF Shutdown, Killed
  <2>7. CASE Close
    BY <1>4, <2>7, HandleGoesOn, KeptOn DEF Close, Create, Handling
  <2>8. CASE Action \/ ActionThrew \/ FinishDenied \/ FinishThrew \/ Finish
    <3>1. req.name \in Live /\ disk' \in Flushed \cup Written /\ shares' = shares
      BY <2>8 DEF Action, ActionThrew, FinishDenied, FinishThrew, Finish, Finishing, Flushed
    <3>2. ~Create
      BY <3>1 DEF Create
    <3> QED  BY <1>4, <2>1, <3>1, <3>2, HandleGoesOn, WroteOn
  <2> QED  BY <1>4, <2>2, <2>3, <2>4, <2>5, <2>6, <2>7, <2>8 DEF Handle
<1>5. CASE Accept \/ Reply \/ ReplyAndStop \/ Boot
  BY <1>3, <1>5 DEF Accept, Reply, ReplyAndStop, Boot
<1>6. CASE ReplyToNobody
  BY <1>2, <1>6 DEF ReplyToNobody, Killed
<1>7. ASSUME NEW c \in Client, HangUp(c) \/ \E r \in Requests[c] : Call(c, r) PROVE Paired' /\ EvidenceKept'
  BY <1>3, <1>7 DEF HangUp, Call
<1>8. ASSUME NEW i \in Starts, GdbDies(i) \/ GdbSeesEnd(i) \/ ProgramStops(i) PROVE Paired' /\ EvidenceKept'
  BY <1>3, <1>8 DEF GdbDies, GdbSeesEnd, ProgramStops
<1> QED  BY <1>4, <1>5, <1>6, <1>7, <1>8 DEF Next, DaemonStep

\* For any clients, requests and number of starts, of sessions that share their
\* assets or not: the index in the assets of a live session lists that session's
\* evidence, or that of a start that had the same assets while the session was
\* live, whatever was started, refused, failed or finished meanwhile, by whichever
\* daemon.
THEOREM EvidenceStays == Spec => []EvidenceKept
<1> DEFINE Inv == Control /\ Data /\ Paired /\ EvidenceKept
<1>1. Init => Inv
  <2>1. Init => Paired /\ EvidenceKept
    BY DEF Init, NoSessions, Paired, EvidenceKept, Live
  <2> QED  BY <2>1, InitTypes
<1>2. Inv /\ [Next]_vars => Inv'
  <2>1. Inv /\ UNCHANGED vars => Paired' /\ EvidenceKept'
    BY DEF vars, Paired, EvidenceKept, Live
  <2> QED  BY <2>1, EvidenceStep, TypesInductive
<1>3. Inv => EvidenceKept
  OBVIOUS
<1> QED  BY <1>1, <1>2, <1>3, PTL DEF Spec

-------------------------------------------------------------------------------
(* What a client was told of a finish *)

\* Starts are given in turn.
InTurn == \A i \in Unused, j \in Starts \ Unused : j < i

\* A finish a client was told of, or that it is about to be told of.
Reported(i, f) == <<i, f>> \in finished \/ answer.finish = <<i, f>>

\* What keeps it true: its GDB is closed for good, and whoever may still write to
\* its report started later.
Settled(i, f) ==
    /\ gdbs[i].state = "closed"
    /\ disk.report[f] >= i
    /\ \A n \in Live : Writes(n, f) => i < sessions[n].start
AllSettled == \A i \in Starts, f \in File : Reported(i, f) => Settled(i, f)

\* GDB processes that have ended, or were started, stay so.
Lasting ==
    \A i \in Starts : /\ gdbs[i].state = "closed" => gdbs'[i].state = "closed"
                      /\ gdbs[i].state # "none" => gdbs'[i].state # "none"

\* At most one start is made at a time: the next.
LEMMA TurnKept ==
    ASSUME Data, InTurn, Lasting,
           \/ \A j \in Starts : gdbs[j].state = "none" => gdbs'[j].state = "none"
           \/ \E i \in Starts : NextStart(i) /\ \A j \in Starts \ {i} : gdbs[j].state = "none" => gdbs'[j].state = "none"
    PROVE  InTurn'
<1>1. Starts \subseteq Nat /\ Unused \subseteq Starts
  BY DEF Starts, Unused
<1>2. Unused' \subseteq Unused
  BY DEF Lasting, Unused
<1>3. ASSUME NEW i \in Unused', NEW j \in Starts \ Unused' PROVE j < i
  <2>1. CASE j \notin Unused
    BY <1>2, <2>1 DEF InTurn
  <2>2. CASE j \in Unused
    <3>1. NextStart(j)
      BY <1>3, <2>2 DEF Unused
    <3>2. j <= i /\ j # i
      BY <1>2, <1>3, <3>1 DEF NextStart
    <3> QED  BY <1>1, <1>2, <3>2
  <2> QED  BY <2>1, <2>2
<1> QED  BY <1>3 DEF InTurn

\* What a step does to the states of the processes.
LEMMA EndLasts ==
    ASSUME Data, NEW S \in SUBSET Starts, NEW how \in {"dead", "closed"},
           \A i \in S : gdbs[i].state # "none" /\ (gdbs[i].state = "closed" => how = "closed"),
           \A i \in Starts : gdbs'[i].state = AfterEnd(S, how)[i].state
    PROVE  Lasting /\ \A j \in Starts : gdbs[j].state = "none" => gdbs'[j].state = "none"
BY AfterEndEffect DEF Lasting

LEMMA SpawnLasts ==
    ASSUME Data, NEW i \in Starts, NextStart(i), OthersSame(gdbs', i), gdbs'[i].state # "none"
    PROVE  Lasting /\ \A j \in Starts \ {i} : gdbs[j].state = "none" => gdbs'[j].state = "none"
BY DEF Lasting, OthersSame, NextStart, Unused

LEMMA KilledStates ==
    ASSUME NEW gs \in [Starts -> Gdb], Killed(gs)
    PROVE  \A i \in Starts : gdbs'[i].state = gs[i].state
BY DEF Killed, Gdb

\* Which processes a step may end, and what a handler starts.
Turned ==
    /\ Lasting
    /\ \/ \A j \in Starts : gdbs[j].state = "none" => gdbs'[j].state = "none"
       \/ \E i \in Starts : /\ NextStart(i)
                            /\ \A j \in Starts \ {i} : gdbs[j].state = "none" => gdbs'[j].state = "none"

LEMMA HandleTurned ==
    ASSUME Control, Data, Owned, Handle
    PROVE  Turned
<1>1. pc = "handle" /\ gdbs \in [Starts -> Gdb]
  BY HandleEnds DEF Data
<1>2. \A n \in Live : sessions[n].start \in Starts /\ gdbs[sessions[n].start].state \in {"up", "busy", "dead"}
  BY DEF Data, Session, Live, Owned
<1>3. ASSUME \A i \in Starts : gdbs'[i].state = gdbs[i].state PROVE Turned
  BY <1>3 DEF Turned, Lasting
<1>4. ASSUME NEW S \in SUBSET {sessions[n].start : n \in Live},
             \A i \in Starts : gdbs'[i].state = AfterEnd(S, "closed")[i].state
      PROVE  Turned
  <2>1. S \in SUBSET Starts /\ \A i \in S : gdbs[i].state \in {"up", "busy", "dead"}
    BY <1>2
  <2> QED  BY <1>4, <2>1, EndLasts DEF Turned
<1>5. ASSUME Killed(gdbs) PROVE Turned
  BY <1>1, <1>3, <1>5, KilledStates
<1>6. CASE Bad \/ List \/ CreateRefused \/ Unknown \/ Status \/ FinishDenied \/ FinishThrew
  BY <1>3, <1>6 DEF Bad, List, CreateRefused, Unknown, Status, FinishDenied, FinishThrew
<1>7. CASE Shutdown
  <2> DEFINE all == {sessions[n].start : n \in Live}
  <2>1. CASE gdbs' = AfterEnd(all, "closed")
    BY <1>4, <2>1
  <2>2. ASSUME NEW S \in SUBSET {i \in all : Alive(i)}, Killed(AfterEnd(S, "closed")) PROVE Turned
    BY <1>4, <2>2, AfterEndType, KilledStates
  <2> QED  BY <1>7, <2>1, <2>2 DEF Shutdown
<1>8. CASE CreateFailed
  <2>1. PICK i \in Starts :
          /\ NextStart(i)
          /\ \/ gdbs' = [gdbs EXCEPT ![i].state = "dead"]
             \/ \E st \in {"up", "busy"} : gdbs' = AfterSpawn(i, st, FALSE)
    BY <1>8 DEF CreateFailed
  <2>2. CASE gdbs' = [gdbs EXCEPT ![i].state = "dead"]
    <3>1. OthersSame(gdbs', i) /\ gdbs'[i].state # "none"
      BY <1>1, <2>2 DEF OthersSame, Gdb
    <3> QED  BY <2>1, <3>1, SpawnLasts DEF Turned
  <2>3. ASSUME NEW st \in {"up", "busy"}, gdbs' = AfterSpawn(i, st, FALSE) PROVE Turned
    <3>1. OthersSame(gdbs', i)
      BY <2>3, AfterSpawnEffect
    <3>2. gdbs'[i].state # "none"
      BY <2>3 DEF AfterSpawn
    <3> QED  BY <2>1, <3>1, <3>2, SpawnLasts DEF Turned
  <2> QED  BY <2>1, <2>2, <2>3
<1>9. CASE CreateKilled
  <2>1. PICK i \in Starts : NextStart(i) /\ Killed([gdbs EXCEPT ![i].state = "dead"])
    BY <1>9 DEF CreateKilled
  <2> DEFINE gs == [gdbs EXCEPT ![i].state = "dead"]
  <2>2. gs[i].state = "dead" /\ \A j \in Starts \ {i} : gs[j] = gdbs[j]
    BY <1>1 DEF Gdb
  <2>3. \A j \in Starts : gdbs'[j].state = gs[j].state
    BY <2>1, StateType, KilledStates
  <2> HIDE DEF gs
  <2> QED  BY <2>1, <2>2, <2>3 DEF Turned, Lasting, NextStart, Unused
<1>10. CASE Create
  <2>1. PICK i \in Starts, st \in {"up", "busy"} : NextStart(i) /\ gdbs' = AfterSpawn(i, st, TRUE)
    BY <1>10 DEF Create
  <2>2. OthersSame(gdbs', i) /\ Kept(gdbs', i)
    BY <2>1, AfterSpawnEffect
  <2> QED  BY <2>1, <2>2, SpawnLasts DEF Turned, Kept
<1>11. CASE Action \/ ActionThrew
  <2>1. ofSession.start \in Starts /\ req.name \in Live
    BY <1>1, <1>11, LiveType DEF Action, ActionThrew
  <2>2. CASE gdbs' = gdbs
    BY <1>3, <2>2
  <2>3. ASSUME Alive(ofSession.start), NEW st \in {"up", "busy"},
               gdbs' = [gdbs EXCEPT ![ofSession.start].state = st]
        PROVE  Turned
    <3>1. gdbs'[ofSession.start].state = st /\ \A j \in Starts \ {ofSession.start} : gdbs'[j] = gdbs[j]
      BY <1>1, <2>1, <2>3 DEF Gdb
    <3> QED  BY <2>3, <3>1 DEF Turned, Lasting, Alive
  <2> QED  BY <1>11, <2>2, <2>3 DEF Action, ActionThrew
<1>12. CASE ActionKilled
  BY <1>5, <1>12 DEF ActionKilled
<1>13. CASE Close \/ Finish
  <2>1. req.name \in Live
    BY <1>13 DEF Close, Finish, Finishing
  <2>2. {ofSession.start} \in SUBSET {sessions[n].start : n \in Live}
    BY <2>1 DEF ofSession
  <2>3. CASE gdbs' = AfterEnd({ofSession.start}, "closed")
    BY <1>4, <2>2, <2>3
  <2> QED  BY <1>5, <1>13, <2>3 DEF Close, Finish
<1> QED  BY <1>6, <1>7, <1>8, <1>9, <1>10, <1>11, <1>12, <1>13 DEF Handle

LEMMA TurnedStep ==
    ASSUME Control, Data, Owned, Next
    PROVE  Turned
<1>1. CASE Handle
  BY <1>1, HandleTurned
<1>2. CASE Accept \/ Reply \/ ReplyAndStop \/ Boot
  BY <1>2 DEF Accept, Reply, ReplyAndStop, Boot, Turned, Lasting
<1>3. CASE ReplyToNobody
  BY <1>3, KilledStates DEF ReplyToNobody, Data, Turned, Lasting
<1>4. ASSUME NEW c \in Client, HangUp(c) \/ \E r \in Requests[c] : Call(c, r) PROVE Turned
  BY <1>4 DEF HangUp, Call, Turned, Lasting
<1>5. ASSUME NEW i \in Starts, GdbDies(i) \/ GdbSeesEnd(i) \/ ProgramStops(i) PROVE Turned
  <2>1. CASE gdbs' = AfterEnd({i}, "dead") /\ gdbs[i].state \in {"up", "busy"}
    BY <2>1, EndLasts DEF Turned
  <2>2. CASE ProgramStops(i)
    <3>1. /\ gdbs[i].state = "busy" /\ gdbs'[i].state = "up"
          /\ \A j \in Starts \ {i} : gdbs'[j] = gdbs[j]
      BY <2>2 DEF ProgramStops, Data, Gdb
    <3> QED  BY <3>1 DEF Turned, Lasting
  <2> QED  BY <1>5, <2>1, <2>2 DEF GdbDies, GdbSeesEnd
<1> QED  BY <1>1, <1>2, <1>3, <1>4, <1>5 DEF Next, DaemonStep

LEMMA TargetWritten ==
    ASSUME Control, Data, OwnFiles, pc = "handle", req.name \in Live
    PROVE  req.name \in Name /\ TargetFile \in File /\ Writes(req.name, TargetFile)
<1>1. req \in Request /\ serving \in Client /\ req \in Requests[serving]
  BY RequestType
<1>2. (TargetFile = req.file /\ req.op = "finish") \/ TargetFile = ofSession.file
  BY DEF TargetFile
<1>3. Writes(req.name, TargetFile)
  BY <1>1, <1>2 DEF OwnFiles, Writes, ofSession
<1> QED  BY <1>1, <1>3, LiveType DEF Request

\* A session's report goes where a request of its name put it.
LEMMA OwnFilesStep ==
    ASSUME Control, Data, OwnFiles, Next
    PROVE  OwnFiles'
<1>1. ASSUME sessions' = sessions \/ sessions' = NoSessions PROVE OwnFiles'
  BY <1>1 DEF OwnFiles, Live, NoSessions
<1>2. CASE Handle
  <2>1. pc = "handle" /\ \A n \in Live : sessions[n] \in Session
    BY <1>2, HandleEnds DEF Data, Live
  <2>2. CASE Bad \/ List \/ CreateRefused \/ CreateFailed \/ Unknown \/ Status \/ FinishDenied
    BY <1>1, <2>2 DEF Bad, List, CreateRefused, CreateFailed, Unknown, Status, FinishDenied
  <2>3. CASE Shutdown \/ CreateKilled \/ ActionKilled
    BY <1>1, <2>3 DEF Shutdown, CreateKilled, ActionKilled, Killed
  <2>4. CASE Create
    <3>1. PICK i \in Starts, state \in State :
            sessions' = [n \in Live \cup {req.name} |->
                            IF n = req.name
                            THEN [start |-> i, state |-> state, dir |-> req.dir, file |-> req.file]
                            ELSE sessions[n]]
      BY <2>4 DEF Create
    <3>2. serving \in Client /\ req \in Requests[serving] /\ req.op = "create"
      BY <2>1, <2>4, RequestType DEF Create, Handling
    <3>3. Writes(req.name, req.file)
      BY <3>2 DEF Writes
    <3>4. DOMAIN sessions' = Live \cup {req.name} /\ sessions'[req.name].file = req.file
      BY <3>1
    <3>5. \A n \in Live \ {req.name} : sessions'[n] = sessions[n]
      BY <3>1
    <3> QED  BY <3>3, <3>4, <3>5 DEF OwnFiles, Live
  <2>5. CASE Action \/ ActionThrew
    <3>1. sessions' = sessions \/ \E state : sessions' = [sessions EXCEPT ![req.name].state = state]
      BY <2>5 DEF Action, ActionThrew
    <3>2. ASSUME NEW state, sessions' = [sessions EXCEPT ![req.name].state = state] PROVE OwnFiles'
      <4>1. DOMAIN sessions' = Live /\ \A n \in Live : sessions'[n].file = sessions[n].file
        BY <2>1, <3>2 DEF Session, Live
      <4> QED  BY <4>1 DEF OwnFiles, Live
    <3> QED  BY <1>1, <3>1, <3>2
  <2>6. CASE FinishThrew
    <3>1. req.name \in Live /\ sessions' = [sessions EXCEPT ![req.name].file = TargetFile]
      BY <2>6 DEF FinishThrew, Finishing
    <3>2. /\ DOMAIN sessions' = Live /\ sessions'[req.name].file = TargetFile
          /\ \A n \in Live \ {req.name} : sessions'[n] = sessions[n]
      BY <2>1, <3>1 DEF Session, Live
    <3>3. Writes(req.name, TargetFile)
      BY <2>1, <3>1, TargetWritten
    <3> QED  BY <3>2, <3>3 DEF OwnFiles, Live
  <2>7. CASE Close \/ Finish
    <3>1. sessions' = Without({req.name}) \/ sessions' = NoSessions
      BY <2>7 DEF Close, Finish, Killed
    <3>2. CASE sessions' = Without({req.name})
      BY <3>2 DEF OwnFiles, Without, Live
    <3> QED  BY <1>1, <3>1, <3>2
  <2> QED  BY <1>2, <2>2, <2>3, <2>4, <2>5, <2>6, <2>7 DEF Handle
<1>3. CASE Accept \/ Reply \/ ReplyAndStop \/ ReplyToNobody \/ Boot
  BY <1>1, <1>3 DEF Accept, Reply, ReplyAndStop, ReplyToNobody, Killed, Boot
<1>4. ASSUME NEW c \in Client, HangUp(c) \/ \E r \in Requests[c] : Call(c, r) PROVE OwnFiles'
  BY <1>1, <1>4 DEF HangUp, Call
<1>5. ASSUME NEW i \in Starts, GdbDies(i) \/ GdbSeesEnd(i) \/ ProgramStops(i) PROVE OwnFiles'
  BY <1>1, <1>5 DEF GdbDies, GdbSeesEnd, ProgramStops
<1> QED  BY <1>2, <1>3, <1>4, <1>5 DEF Next, DaemonStep

\* Nothing new is reported.
NoneReported == \A i \in Starts, f \in File : Reported(i, f)' => Reported(i, f)

LEMMA NothingTold ==
    ASSUME NEW ok, Respond(ok) \/ \E gs : Killed(gs)
    PROVE  NoneReported
<1>1. finished' = finished /\ answer'.finish = << >>
  BY DEF Respond, RespondFinish, clientVars, Killed, NoAnswer
<1> QED  BY <1>1 DEF NoneReported, Reported

LEMMA SettledOn ==
    ASSUME Data, AllSettled, GoesOn, Lasting, NoneReported, disk'.report = disk.report
    PROVE  AllSettled'
<1> SUFFICES ASSUME NEW i \in Starts, NEW f \in File, Reported(i, f)' PROVE Settled(i, f)'
  BY DEF AllSettled
<1>1. Settled(i, f)
  BY DEF AllSettled, NoneReported
<1>2. gdbs'[i].state = "closed" /\ disk'.report[f] >= i
  BY <1>1 DEF Settled, Lasting
<1>3. \A n \in DOMAIN sessions' : Writes(n, f) => i < sessions'[n].start
  BY <1>1 DEF Settled, GoesOn
<1>4. (\A n \in Live : Writes(n, f) => i < sessions[n].start)' <=> \A n \in DOMAIN sessions' : Writes(n, f) => i < sessions'[n].start
  BY DEF Live
<1> QED  BY <1>2, <1>3, <1>4 DEF Settled

\* Whoever comes later starts later.
LEMMA CreateSettled ==
    ASSUME Control, Data, Owned, InTurn, AllSettled, Lasting, Create
    PROVE  AllSettled'
<1>1. PICK i \in Starts, state \in State :
        /\ NextStart(i)
        /\ disk' = Indexed(req.dir, i)
        /\ sessions' = [n \in Live \cup {req.name} |->
                           IF n = req.name
                           THEN [start |-> i, state |-> state, dir |-> req.dir, file |-> req.file]
                           ELSE sessions[n]]
  BY DEF Create, Opens
<1>2. NoneReported
  BY NothingTold DEF Create
<1>3. /\ DOMAIN sessions' = Live \cup {req.name} /\ sessions'[req.name].start = i
      /\ \A n \in Live \ {req.name} : sessions'[n] = sessions[n]
  BY <1>1
<1>4. disk'.report = disk.report
  BY <1>1 DEF Data, Indexed
<1> SUFFICES ASSUME NEW j \in Starts, NEW f \in File, Reported(j, f)' PROVE Settled(j, f)'
  BY DEF AllSettled
<1>5. Settled(j, f)
  BY <1>2 DEF AllSettled, NoneReported
<1>6. j < i
  <2>1. j \notin Unused /\ i \in Unused
    BY <1>1, <1>5 DEF Settled, Unused, NextStart
  <2> QED  BY <2>1 DEF InTurn
<1>7. gdbs'[j].state = "closed" /\ disk'.report[f] >= j
  BY <1>4, <1>5 DEF Settled, Lasting
<1>8. \A n \in DOMAIN sessions' : Writes(n, f) => j < sessions'[n].start
  BY <1>3, <1>5, <1>6 DEF Settled
<1>9. (\A n \in Live : Writes(n, f) => j < sessions[n].start)' <=> \A n \in DOMAIN sessions' : Writes(n, f) => j < sessions'[n].start
  BY DEF Live
<1> QED  BY <1>7, <1>8, <1>9 DEF Settled

\* The report of a finish replaces only those of earlier sessions of that name.
LEMMA FinishSettled ==
    ASSUME FilesApart, Control, Data, Owned, OwnFiles, AllSettled, Lasting, Finish
    PROVE  AllSettled'
<1> DEFINE own == ofSession.start
<1>1. pc = "handle" /\ req.name \in Live
  BY DEF Finish, Finishing
<1>2. own \in Starts /\ TargetFile \in File /\ req.name \in Name /\ Writes(req.name, TargetFile)
  BY <1>1, LiveType, TargetWritten
<1>3. disk'.report = [disk.report EXCEPT ![TargetFile] = own]
  BY <1>1, Writing DEF Finish
<1>4. disk.report \in [File -> 0 .. MaxStarts]
  BY DEF Data
<1>5. Starts \subseteq Nat
  BY DEF Starts
<1>6. ASSUME NEW i \in Starts, NEW f \in File, Settled(i, f) PROVE disk'.report[f] >= i
  <2>1. f = TargetFile => i < own
    BY <1>1, <1>2, <1>6 DEF Settled, ofSession
  <2>2. CASE f = TargetFile
    <3>1. disk'.report[f] = own
      BY <1>3, <1>4, <2>2
    <3> HIDE DEF own
    <3> QED  BY <1>2, <1>5, <2>1, <2>2, <3>1
  <2>3. CASE f # TargetFile
    <3>1. disk'.report[f] = disk.report[f]
      BY <1>3, <1>4, <2>3
    <3> QED  BY <1>6, <3>1 DEF Settled
  <2> QED  BY <2>2, <2>3
<1>7. CASE Killed(gdbs)
  <2>1. NoneReported /\ DOMAIN sessions' = {}
    BY <1>7, NothingTold DEF Killed, NoSessions
  <2>2. ASSUME NEW i \in Starts, NEW f \in File, Reported(i, f)' PROVE Settled(i, f)'
    <3>1. Settled(i, f)
      BY <2>1, <2>2 DEF AllSettled, NoneReported
    <3>2. gdbs'[i].state = "closed" /\ disk'.report[f] >= i
      BY <1>6, <3>1 DEF Settled, Lasting
    <3> QED  BY <2>1, <3>2 DEF Settled, Live
  <2> QED  BY <2>2 DEF AllSettled
<1>8. CASE /\ gdbs' = AfterEnd({own}, "closed") /\ sessions' = Without({req.name})
           /\ RespondFinish(TRUE, <<own, TargetFile>>)
  <2>1. finished' = finished /\ answer'.finish = <<own, TargetFile>>
    BY <1>8 DEF RespondFinish, clientVars
  <2>2. DOMAIN sessions' = Live \ {req.name} /\ \A n \in Live \ {req.name} : sessions'[n] = sessions[n]
    BY <1>8 DEF Without
  <2>3. gdbs'[own].state = "closed"
    <3> HIDE DEF own
    <3>1. {own} \in SUBSET Starts /\ own \in {own}
      BY <1>2
    <3>2. AfterEnd({own}, "closed")[own].state = "closed"
      BY <1>2, <3>1, AfterEndEffect
    <3> QED  BY <1>8, <3>2
  <2>4. ASSUME NEW i \in Starts, NEW f \in File, Reported(i, f)' PROVE Settled(i, f)'
    <3>1. Reported(i, f) \/ (i = own /\ f = TargetFile)
      <4>1. <<i, f>> \in finished' \/ answer'.finish = <<i, f>>
        BY <2>4 DEF Reported
      <4>2. <<i, f>> \in finished \/ <<own, TargetFile>> = <<i, f>>
        BY <2>1, <4>1
      <4> HIDE DEF own
      <4>3. <<own, TargetFile>> = <<i, f>> => i = own /\ f = TargetFile
        OBVIOUS
      <4>4. <<i, f>> \in finished => Reported(i, f)
        BY DEF Reported
      <4> QED  BY <4>2, <4>3, <4>4
    <3>2. CASE Reported(i, f)
      <4>1. Settled(i, f)
        BY <3>2 DEF AllSettled
      <4>2. gdbs'[i].state = "closed" /\ disk'.report[f] >= i
        BY <1>6, <4>1 DEF Settled, Lasting
      <4>3. \A n \in DOMAIN sessions' : Writes(n, f) => i < sessions'[n].start
        BY <2>2, <4>1 DEF Settled
      <4> QED  BY <4>2, <4>3 DEF Settled, Live
    <3>3. CASE i = own /\ f = TargetFile
      <4>1. disk'.report[f] >= i
        BY <1>2, <1>3, <1>4, <1>5, <3>3
      <4>2. \A n \in DOMAIN sessions' : ~Writes(n, f)
        BY <1>2, <2>2, <3>3 DEF FilesApart, Data, Live
      <4> QED  BY <2>3, <3>3, <4>1, <4>2 DEF Settled, Live
    <3> QED  BY <3>1, <3>2, <3>3
  <2> QED  BY <2>4 DEF AllSettled
<1> QED  BY <1>7, <1>8 DEF Finish

LEMMA SettledStep ==
    ASSUME FilesApart, Control, Data, Owned, OwnFiles, InTurn, AllSettled, Next
    PROVE  AllSettled'
<1>1. Lasting
  BY TurnedStep DEF Turned
<1>2. ASSUME sessions' = sessions \/ sessions' = NoSessions PROVE GoesOn
  BY <1>2 DEF GoesOn, Live, NoSessions
<1>3. CASE Handle
  <2>1. pc = "handle"
    BY <1>3, HandleEnds
  <2>2. CASE Create
    BY <1>1, <2>2, CreateSettled
  <2>3. CASE Finish
    BY <1>1, <2>3, FinishSettled
  <2>4. CASE ~Create /\ ~Finish
    <3>1. GoesOn
      BY <1>3, <2>4, HandleGoesOn
    <3>2. (\E ok : Respond(ok)) \/ \E gs : Killed(gs)
      BY <1>3, <2>4 DEF Handle, Bad, List, Shutdown, CreateRefused, CreateFailed, CreateKilled, Unknown,
         Status, Close, Action, ActionThrew, ActionKilled, FinishDenied, FinishThrew, Refuse
    <3>3. disk'.report = disk.report
      <4>1. CASE Bad \/ List \/ Shutdown \/ CreateRefused \/ Unknown \/ Status \/ Close \/ ActionKilled
        BY <4>1 DEF Bad, List, Shutdown, CreateRefused, Unknown, Status, Close, ActionKilled
      <4>2. CASE CreateFailed \/ CreateKilled
        BY <4>2 DEF CreateFailed, CreateKilled, Opens, Indexed, Data
      <4>3. CASE Action \/ ActionThrew \/ FinishDenied \/ FinishThrew
        <5>1. req.name \in Live /\ disk' \in Flushed
          BY <4>3 DEF Action, ActionThrew, FinishDenied, FinishThrew, Finishing, Flushed
        <5> QED  BY <2>1, <5>1, Writing
      <4> QED  BY <1>3, <2>4, <4>1, <4>2, <4>3 DEF Handle
    <3>4. NoneReported
      BY <3>2, NothingTold
    <3> QED  BY <1>1, <3>1, <3>3, <3>4, SettledOn
  <2> QED  BY <2>2, <2>3, <2>4
<1>4. CASE Reply \/ ReplyAndStop
  <2>1. Told /\ disk' = disk /\ sessions' = sessions
    BY <1>4 DEF Reply, ReplyAndStop, Done
  <2>2. finished' \subseteq finished \cup {answer.finish} /\ answer'.finish = << >>
    BY <2>1 DEF Told, NoAnswer
  <2>3. NoneReported
    BY <2>2 DEF NoneReported, Reported
  <2> QED  BY <1>1, <1>2, <2>1, <2>3, SettledOn
<1>5. CASE ReplyToNobody
  <2>1. NoneReported
    BY <1>5, NothingTold DEF ReplyToNobody
  <2> QED  BY <1>1, <1>2, <1>5, <2>1, SettledOn DEF ReplyToNobody, Killed
<1>6. ASSUME UNCHANGED <<answer, finished, sessions, disk>> PROVE AllSettled'
  <2>1. NoneReported
    BY <1>6 DEF NoneReported, Reported
  <2> QED  BY <1>1, <1>2, <1>6, <2>1, SettledOn
<1>7. CASE Accept \/ Boot
  BY <1>6, <1>7 DEF Accept, Boot, clientVars
<1>8. ASSUME NEW c \in Client, HangUp(c) \/ \E r \in Requests[c] : Call(c, r) PROVE AllSettled'
  BY <1>6, <1>8 DEF HangUp, Call
<1>9. ASSUME NEW i \in Starts, GdbDies(i) \/ GdbSeesEnd(i) \/ ProgramStops(i) PROVE AllSettled'
  BY <1>6, <1>9 DEF GdbDies, GdbSeesEnd, ProgramStops
<1> QED  BY <1>3, <1>4, <1>5, <1>7, <1>8, <1>9 DEF Next, DaemonStep

FinishInv == Control /\ Data /\ Owned /\ OwnFiles /\ InTurn /\ AllSettled

\* For any clients and number of starts, and any requests that give sessions of
\* different names report files of their own: when a client was told that a
\* session is finished, its GDB stays closed, it is in the table no more, and its
\* report, or that of a later session of its name, is in the file it was told of,
\* whatever is started and finished later, and whichever daemon dies.
THEOREM FinishedTrue ==
    ASSUME FilesApart
    PROVE  Spec => []Finished
<1>1. Init => FinishInv
  <2>1. Init => Owned /\ OwnFiles
    BY DEF Init, NoSessions, Owned, OwnFiles, Alive, Live
  <2>2. Init => InTurn
    BY DEF Init, InTurn, Unused
  <2>3. Init => AllSettled
    BY DEF Init, AllSettled, Reported, NoAnswer
  <2> QED  BY <2>1, <2>2, <2>3, InitTypes DEF FinishInv
<1>2. FinishInv /\ [Next]_vars => FinishInv'
  <2>1. ASSUME FinishInv, UNCHANGED vars PROVE FinishInv'
    <3>1. Owned' /\ OwnFiles'
      BY <2>1 DEF FinishInv, vars, Owned, OwnFiles, Alive, Live
    <3>2. InTurn'
      BY <2>1 DEF FinishInv, vars, InTurn, Unused
    <3>3. AllSettled'
      BY <2>1 DEF FinishInv, vars, AllSettled, Reported, Settled, Live
    <3> QED  BY <2>1, <3>1, <3>2, <3>3, TypesInductive DEF FinishInv
  <2>2. ASSUME FinishInv, Next PROVE FinishInv'
    <3>1. InTurn'
      BY <2>2, TurnedStep, TurnKept DEF FinishInv, Turned
    <3> QED  BY <2>2, <3>1, TypesInductive, OwnedStep, OwnFilesStep, SettledStep DEF FinishInv
  <2> QED  BY <2>1, <2>2
<1>3. FinishInv => Finished
  <2> SUFFICES ASSUME FinishInv, NEW i \in Starts, NEW f \in File, <<i, f>> \in finished
               PROVE  /\ gdbs[i].state = "closed"
                      /\ \A n \in Live : sessions[n].start # i
                      /\ disk.report[f] >= i
    BY DEF Finished
  <2>1. Settled(i, f)
    BY DEF FinishInv, AllSettled, Reported
  <2> QED  BY <2>1 DEF FinishInv, Settled, Owned
<1> QED  BY <1>1, <1>2, <1>3, PTL DEF Spec

===============================================================================
