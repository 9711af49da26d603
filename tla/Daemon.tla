-------------------------------- MODULE Daemon --------------------------------
(***************************************************************************)
(* The daemon: clients that connect, ask and may leave before they are     *)
(* answered; the one thread that serves them in turn; the table of live    *)
(* sessions; the GDB processes behind them; and the files sessions leave.  *)
(*                                                                         *)
(* A session is known by the number of its start.  A GDB ends when it is   *)
(* terminated, when it dies, or when its standard input ends: when nobody  *)
(* holds the writing end of that pipe any more.  The daemon holds one, and *)
(* so does every GDB forked while the daemon did, since the pipes are not  *)
(* closed on exec.                                                         *)
(*                                                                         *)
(* Nothing in the program handles SIGPIPE.  A write to a GDB that is gone, *)
(* or to a client that is gone, ends the daemon.                           *)
(*                                                                         *)
(* What an action does to its session is the subject of ActionSession.     *)
(* Here it is one of the states that module lets a caller find.            *)
(***************************************************************************)
EXTENDS Integers, Sequences

CONSTANTS
    Client,
    Name,        \* session names
    Dir,         \* directories of assets
    File,        \* report files
    Requests,    \* what each client may ask
    MaxStarts    \* bound: sessions started, failed ones included

Starts == 1 .. MaxStarts
TheDaemon == 0

Ending == {"finish", "finish_action", "close"}
Op == Ending \cup {"list", "status", "create", "action", "shutdown", "bad"}
NoFile == "none"
NoClient == "nobody"
Request == [op : Op, name : Name, dir : Dir, file : File \cup {NoFile}]
NoRequest == [op |-> "none"]

ASSUME DaemonAssumption ==
    /\ MaxStarts \in Nat
    /\ Name # {} /\ NoFile \notin File /\ NoClient \notin Client
    /\ Requests \in [Client -> SUBSET Request]
    /\ \A c \in Client : \A r \in Requests[c] : r.op = "create" => r.file # NoFile

VARIABLES
    pc,        \* "accept", "handle", "reply", "stopped" or "killed"
    backlog,   \* clients connected and not accepted, the first to come first
    serving,   \* the client being served
    answer,    \* the response to it, or the latest one
    ending,    \* shutdown_requested
    asking,    \* what each client waits for
    present,   \* whether it still does
    finished,  \* the finishes clients were told of: start and report
    sessions,  \* the live sessions, by name
    gdbs,      \* every GDB started, by number
    disk,      \* whose evidence the assets index, and whose report a file holds
    shares     \* history: the pairs of starts that have used the same assets at a time

vars == <<pc, backlog, serving, answer, ending, asking, present, finished, sessions, gdbs, disk, shares>>
clientVars == <<asking, present, finished>>

\* "Stopped" stands for Stopped and Exited, which nothing here tells apart.
State == {"Running", "Stopped", "Error"}
Session == [start : Starts, state : State, dir : Dir, file : File]
Gdb == [state : {"none", "up", "busy", "dead", "closed"},
        writers : SUBSET (Starts \cup {TheDaemon})]
Answer == [op : Op \cup {"none"}, name : Name, ok : BOOLEAN,
           finish : {<< >>} \cup (Starts \X File)]

TypeOK ==
    /\ pc \in {"accept", "handle", "reply", "stopped", "killed"}
    /\ backlog \in Seq(Client)
    /\ serving \in Client \cup {NoClient}
    /\ answer \in Answer
    /\ ending \in BOOLEAN
    /\ \A c \in Client : asking[c] \in Requests[c] \cup {NoRequest}
    /\ DOMAIN asking = Client
    /\ present \in [Client -> BOOLEAN]
    /\ finished \subseteq Starts \X File
    /\ DOMAIN sessions \subseteq Name
    /\ \A n \in DOMAIN sessions : sessions[n] \in Session
    /\ gdbs \in [Starts -> Gdb]
    /\ disk \in [index : [Dir -> 0 .. MaxStarts], report : [File -> 0 .. MaxStarts]]
    /\ shares \subseteq Starts \X Starts
    /\ pc \in {"handle", "reply"} => serving \in Client /\ asking[serving] \in Requests[serving]

NoSessions == [n \in {} |-> 0]
NoAnswer == [op |-> "none", name |-> CHOOSE n \in Name : TRUE, ok |-> FALSE, finish |-> << >>]

Init ==
    /\ pc = "accept"
    /\ backlog = << >>
    /\ serving = NoClient
    /\ answer = NoAnswer
    /\ ending = FALSE
    /\ asking = [c \in Client |-> NoRequest]
    /\ present = [c \in Client |-> TRUE]
    /\ finished = {}
    /\ sessions = NoSessions
    /\ gdbs = [i \in Starts |-> [state |-> "none", writers |-> {}]]
    /\ disk = [index |-> [d \in Dir |-> 0], report |-> [f \in File |-> 0]]
    /\ shares = {}

-------------------------------------------------------------------------------
(* Clients *)

Up == pc \in {"accept", "handle", "reply"}

\* The bound on creates.
Unused == {i \in Starts : gdbs[i].state = "none"}
Creating == {c \in Client : asking[c].op = "create"}
MayStart == Unused # {} /\ Creating = {}

\* unix_connect() and the line of the request.  A client whose daemon is not
\* there fails and has asked nothing.
Call(c, r) ==
    /\ Up /\ asking[c] = NoRequest
    /\ r.op = "create" => MayStart
    /\ backlog' = Append(backlog, c)
    /\ asking' = [asking EXCEPT ![c] = r]
    /\ UNCHANGED <<pc, serving, answer, ending, present, finished, sessions, gdbs, disk, shares>>

\* The client is gone before it is answered; its request remains.
HangUp(c) ==
    /\ asking[c] # NoRequest /\ present[c]
    /\ present' = [present EXCEPT ![c] = FALSE]
    /\ UNCHANGED <<pc, backlog, serving, answer, ending, asking, finished, sessions, gdbs, disk, shares>>

-------------------------------------------------------------------------------
(* GDB processes *)

\* The processes of S have ended, and with them the ends they held.
AfterEnd(S, how) ==
    [i \in Starts |-> IF i \in S THEN [state |-> how, writers |-> {}]
                                 ELSE [gdbs[i] EXCEPT !.writers = @ \ S]]

\* Mutant: a session that is not kept leaves its pipes open.
LeakyAfterSpawn(i, st, kept) ==
    [j \in Starts |->
        IF j = i THEN [state |-> st, writers |-> {TheDaemon}]
        ELSE [gdbs[j] EXCEPT !.writers = IF TheDaemon \in @ THEN @ \cup {i} ELSE @]]

\* GdbProcess::spawn().  If the session is not kept, its destructor closes the
\* daemon's ends and does nothing else.
AfterSpawn(i, st, kept) ==
    [j \in Starts |->
        IF j = i THEN [state |-> st, writers |-> IF kept THEN {TheDaemon} ELSE {}]
        ELSE [gdbs[j] EXCEPT !.writers = IF TheDaemon \in @ THEN @ \cup {i} ELSE @]]

GdbDies(i) ==
    /\ gdbs[i].state \in {"up", "busy"}
    /\ gdbs' = AfterEnd({i}, "dead")
    /\ UNCHANGED <<pc, backlog, serving, answer, ending, asking, present, finished, sessions, disk, shares>>

\* GDB reads its standard input unless a program is running, and exits at its end.
GdbSeesEnd(i) ==
    /\ gdbs[i].state = "up" /\ gdbs[i].writers = {}
    /\ gdbs' = AfterEnd({i}, "dead")
    /\ UNCHANGED <<pc, backlog, serving, answer, ending, asking, present, finished, sessions, disk, shares>>

\* A program that was left running stops or exits.
ProgramStops(i) ==
    /\ gdbs[i].state = "busy"
    /\ gdbs' = [gdbs EXCEPT ![i].state = "up"]
    /\ UNCHANGED <<pc, backlog, serving, answer, ending, asking, present, finished, sessions, disk, shares>>

-------------------------------------------------------------------------------
(* Serving *)

Live == DOMAIN sessions
Without(S) == [n \in Live \ S |-> sessions[n]]

Alive(i) == gdbs[i].state \in {"up", "busy"}

\* The daemon is killed by SIGPIPE.  Its pipes and connections close.
Killed(gs) ==
    /\ pc' = "killed"
    /\ sessions' = NoSessions
    /\ gdbs' = [i \in Starts |-> [gs[i] EXCEPT !.writers = @ \ {TheDaemon}]]
    /\ backlog' = << >> /\ serving' = NoClient
    /\ asking' = [c \in Client |-> NoRequest]
    /\ present' = [c \in Client |-> TRUE]
    /\ answer' = NoAnswer
    /\ UNCHANGED <<ending, finished>>

Accept ==
    /\ pc = "accept" /\ backlog # << >>
    /\ serving' = Head(backlog)
    /\ backlog' = Tail(backlog)
    /\ pc' = "handle"
    /\ UNCHANGED <<answer, ending, clientVars, sessions, gdbs, disk, shares>>

req == asking[serving]

Handling(op) == pc = "handle" /\ req.op = op

\* The response of a handler; for a finish it names the start and the report.
RespondFinish(ok, finish) ==
    /\ pc' = "reply"
    /\ answer' = [op |-> req.op, name |-> req.name, ok |-> ok, finish |-> finish]
    /\ UNCHANGED <<backlog, serving, clientVars>>

Respond(ok) == RespondFinish(ok, << >>)

\* An error, thrown or returned.
Refuse == Respond(FALSE) /\ UNCHANGED ending

Bad ==
    /\ Handling("bad")
    /\ Refuse /\ UNCHANGED <<sessions, gdbs, disk, shares>>

List ==
    /\ Handling("list")
    /\ Respond(TRUE)
    /\ UNCHANGED <<ending, sessions, gdbs, disk, shares>>

\* shutdown_live_sessions() goes through the table in order, and is cut short
\* by the first GDB that is dead.
Shutdown ==
    /\ Handling("shutdown")
    /\ LET all == {sessions[n].start : n \in Live}
       IN  \/ /\ \A i \in all : Alive(i)
              /\ gdbs' = AfterEnd(all, "closed")
              /\ sessions' = NoSessions
              /\ ending' = TRUE
              /\ Respond(TRUE)
           \/ /\ \E i \in all : ~Alive(i)
              /\ \E S \in SUBSET {i \in all : Alive(i)} : Killed(AfterEnd(S, "closed"))
    /\ UNCHANGED <<disk, shares>>

-------------------------------------------------------------------------------
(* create *)

NextStart(i) == i \in Unused /\ \A j \in Unused : i <= j

\* The constructor of the evidence store writes an empty index, and later each
\* piece of evidence writes the index anew from this session's list.
Indexed(d, i) == [disk EXCEPT !.index[d] = i]

\* The starts of the live sessions that have their evidence in d.
Using(d) == {sessions[n].start : n \in {m \in Live : sessions[m].dir = d}}

\* A session opens its assets, whoever uses them: nothing asks, and a create that
\* names no assets takes the default ones.
Opens(d, i) ==
    /\ disk' = Indexed(d, i)
    /\ shares' = shares \cup (Using(d) \X {i}) \cup ({i} \X Using(d))

\* Mutant: the session is opened before the table is asked for its name.
OpeningCreateRefused ==
    /\ Handling("create")
    /\ IF req.name \in Live
       THEN \E i \in Starts : NextStart(i) /\ disk' = Indexed(req.dir, i)
                              /\ gdbs' = [gdbs EXCEPT ![i].state = "dead"]
       ELSE UNCHANGED <<gdbs, disk>>
    /\ Refuse /\ UNCHANGED <<sessions, shares>>

\* The name is taken, or the task is refused for a field that is missing or a file
\* that is not there: nothing has been made yet.
CreateRefused ==
    /\ Handling("create")
    /\ Refuse /\ UNCHANGED <<sessions, gdbs, disk, shares>>

\* A start fails: before there is a GDB, or while the session is set up, its
\* plan performed or its program run.
CreateFailed ==
    /\ Handling("create") /\ req.name \notin Live
    /\ \E i \in Starts :
         /\ NextStart(i)
         /\ \/ /\ gdbs' = [gdbs EXCEPT ![i].state = "dead"]
               /\ Opens(req.dir, i) \/ UNCHANGED <<disk, shares>>
            \/ /\ \E st \in {"up", "busy"} : gdbs' = AfterSpawn(i, st, FALSE)
               /\ Opens(req.dir, i)
    /\ Refuse /\ UNCHANGED sessions

\* GDB is not there or dies meanwhile, and the next command is written to it.
CreateKilled ==
    /\ Handling("create") /\ req.name \notin Live
    /\ \E i \in Starts :
         /\ NextStart(i)
         /\ Killed([gdbs EXCEPT ![i].state = "dead"])
         /\ Opens(req.dir, i)

Create ==
    /\ Handling("create") /\ req.name \notin Live
    /\ \E i \in Starts, state \in State \ {"Running"}, st \in {"up", "busy"} :
         /\ NextStart(i)
         /\ gdbs' = AfterSpawn(i, st, TRUE)
         /\ Opens(req.dir, i)
         /\ sessions' = [n \in Live \cup {req.name} |->
                            IF n = req.name
                            THEN [start |-> i, state |-> state, dir |-> req.dir, file |-> req.file]
                            ELSE sessions[n]]
         /\ Respond(TRUE)
    /\ UNCHANGED ending

-------------------------------------------------------------------------------
(* Requests about one session *)

ofSession == sessions[req.name]

Unknown ==
    /\ pc = "handle" /\ req.op \in Ending \cup {"status", "action"}
    /\ req.name \notin Live
    /\ Refuse /\ UNCHANGED <<sessions, gdbs, disk, shares>>

Status ==
    /\ Handling("status") /\ req.name \in Live
    /\ Respond(TRUE)
    /\ UNCHANGED <<ending, sessions, gdbs, disk, shares>>

\* The states a caller may find after one more action.  An error is final, and
\* so is Running: every action that would leave it requires another state.
Reachable(s) == IF s = "Stopped" THEN {"Stopped", "Error"} ELSE {s}

\* The state after an action that threw: run_inferior() does so after it has
\* become Running.
Thrown(s) == Reachable(s) \cup (IF s = "Stopped" THEN {"Running"} ELSE {})

\* Most actions add evidence.
Action ==
    /\ Handling("action") /\ req.name \in Live
    /\ \/ /\ Alive(ofSession.start)
          /\ \E state \in Reachable(ofSession.state) :
               sessions' = [sessions EXCEPT ![req.name].state = state]
          /\ \E st \in {"up", "busy"} : gdbs' = [gdbs EXCEPT ![ofSession.start].state = st]
       \/ /\ ~Alive(ofSession.start)       \* an action that needs no GDB
          /\ UNCHANGED <<sessions, gdbs>>
    /\ \E ok \in BOOLEAN : Respond(ok)
    /\ disk' \in {disk, Indexed(ofSession.dir, ofSession.start)}
    /\ UNCHANGED <<ending, shares>>

\* It may have done its work in GDB, and fail to write its evidence.
ActionThrew ==
    /\ Handling("action") /\ req.name \in Live
    /\ \E state \in Thrown(ofSession.state) :
         sessions' = [sessions EXCEPT ![req.name].state = state]
    /\ \/ /\ Alive(ofSession.start)
          /\ \E st \in {"up", "busy"} : gdbs' = [gdbs EXCEPT ![ofSession.start].state = st]
       \/ /\ ~Alive(ofSession.start)
          /\ UNCHANGED gdbs
    /\ disk' \in {disk, Indexed(ofSession.dir, ofSession.start)}
    /\ Refuse /\ UNCHANGED shares

ActionKilled ==
    /\ Handling("action") /\ req.name \in Live
    /\ ~Alive(ofSession.start)
    /\ Killed(gdbs) /\ UNCHANGED <<disk, shares>>

Close ==
    /\ Handling("close") /\ req.name \in Live
    /\ \/ /\ Alive(ofSession.start)
          /\ gdbs' = AfterEnd({ofSession.start}, "closed")
          /\ sessions' = Without({req.name})
          /\ Respond(TRUE)
          /\ UNCHANGED ending
       \/ /\ ~Alive(ofSession.start)
          /\ Killed(gdbs)
    /\ UNCHANGED <<disk, shares>>

-------------------------------------------------------------------------------
(* finish_live_session_response() *)

\* Mutant: a finish without a file forgets the session's own.
BareTargetFile == req.file

\* The report goes to the file of the request, if it names one.
TargetFile == IF req.op = "finish" /\ req.file # NoFile THEN req.file ELSE ofSession.file

\* New output of the program becomes evidence; then come the probes and the
\* session files, in the assets, and then the report.  A file that could be
\* opened is written.
Flushed == {disk, Indexed(ofSession.dir, ofSession.start)}
Written == {[d EXCEPT !.report[TargetFile] = ofSession.start] : d \in Flushed}

\* finish_session passes the guard of actions; the daemon's finish has none.
FinishAllowed == req.op = "finish_action" => ofSession.state \in {"Stopped", "Error"}

Finishing ==
    pc = "handle" /\ req.op \in {"finish", "finish_action"} /\ req.name \in Live

FinishDenied ==
    /\ Finishing /\ ~FinishAllowed
    /\ disk' \in Flushed
    /\ Refuse /\ UNCHANGED <<sessions, gdbs, shares>>

\* Mutant: GDB is shut down before the report is written.
EagerFinishThrew ==
    /\ Finishing /\ FinishAllowed
    /\ disk' \in Flushed
    /\ gdbs' = AfterEnd({ofSession.start}, "closed")
    /\ sessions' = [sessions EXCEPT ![req.name].file = TargetFile]
    /\ Refuse /\ UNCHANGED shares

\* A write fails: the session stays, with the new report file.
FinishThrew ==
    /\ Finishing /\ FinishAllowed
    /\ disk' \in Flushed
    /\ sessions' = [sessions EXCEPT ![req.name].file = TargetFile]
    /\ Refuse /\ UNCHANGED <<gdbs, shares>>

\* Mutant: a report that could not be written is passed over.
CarelessFinish ==
    /\ Finishing /\ FinishAllowed /\ Alive(ofSession.start)
    /\ disk' \in Flushed
    /\ gdbs' = AfterEnd({ofSession.start}, "closed")
    /\ sessions' = Without({req.name})
    /\ RespondFinish(TRUE, <<ofSession.start, TargetFile>>)
    /\ UNCHANGED <<ending, shares>>

\* Mutant: the session stays in the table after it was finished.
KeepingFinish ==
    /\ Finishing /\ FinishAllowed /\ Alive(ofSession.start)
    /\ disk' \in Written
    /\ gdbs' = AfterEnd({ofSession.start}, "closed")
    /\ RespondFinish(TRUE, <<ofSession.start, TargetFile>>)
    /\ UNCHANGED <<ending, sessions, shares>>

Finish ==
    /\ Finishing /\ FinishAllowed
    /\ disk' \in Written
    /\ \/ /\ Alive(ofSession.start)
          /\ gdbs' = AfterEnd({ofSession.start}, "closed")
          /\ sessions' = Without({req.name})
          /\ RespondFinish(TRUE, <<ofSession.start, TargetFile>>)
          /\ UNCHANGED ending
       \/ /\ ~Alive(ofSession.start)
          /\ Killed(gdbs)
    /\ UNCHANGED shares

-------------------------------------------------------------------------------
(* Answering *)

\* The response is written, and the client reads it.
Told ==
    /\ finished' = IF answer.finish = << >> THEN finished ELSE finished \cup {answer.finish}
    /\ answer' = NoAnswer

Done ==
    /\ serving' = NoClient
    /\ asking' = [asking EXCEPT ![serving] = NoRequest]
    /\ Told

Reply ==
    /\ pc = "reply" /\ present[serving] /\ ~ending
    /\ pc' = "accept"
    /\ Done
    /\ UNCHANGED <<backlog, ending, present, sessions, gdbs, disk, shares>>

\* The last answer.  The socket is closed and removed; who is left in the
\* backlog reads nothing.
ReplyAndStop ==
    /\ pc = "reply" /\ present[serving] /\ ending
    /\ pc' = "stopped"
    /\ backlog' = << >> /\ serving' = NoClient
    /\ Told
    /\ asking' = [c \in Client |-> NoRequest]
    /\ present' = [c \in Client |-> TRUE]
    /\ UNCHANGED <<ending, sessions, gdbs, disk, shares>>

ReplyToNobody ==
    /\ pc = "reply" /\ ~present[serving]
    /\ Killed(gdbs) /\ UNCHANGED <<disk, shares>>

\* A daemon that was killed or stopped is started again: unix_listen() replaces
\* the socket, the table is empty, and files and old processes are what they are.
Boot ==
    /\ ~Up
    /\ pc' = "accept" /\ ending' = FALSE
    /\ UNCHANGED <<backlog, serving, answer, clientVars, sessions, gdbs, disk, shares>>

Handle ==
    \/ Bad \/ List \/ Shutdown
    \/ CreateRefused \/ CreateFailed \/ CreateKilled \/ Create
    \/ Unknown \/ Status \/ Close
    \/ Action \/ ActionThrew \/ ActionKilled
    \/ FinishDenied \/ FinishThrew \/ Finish

DaemonStep == Accept \/ Handle \/ Reply \/ ReplyAndStop \/ ReplyToNobody

Next ==
    \/ DaemonStep \/ Boot
    \/ \E c \in Client : HangUp(c) \/ \E r \in Requests[c] : Call(c, r)
    \/ \E i \in Starts : GdbDies(i) \/ GdbSeesEnd(i) \/ ProgramStops(i)

Spec == Init /\ [][Next]_vars

\* The thread of the daemon is never blocked for good: accept() returns when
\* there is a client, a client sends its line with its connection, and every
\* call of GDB returns (GdbSession!CallsReturn).  A GDB that is not running a
\* program reads its input.  That programs stop is an assumption about them.
Fairness ==
    /\ WF_vars(DaemonStep)
    /\ \A i \in Starts : WF_vars(GdbSeesEnd(i)) /\ WF_vars(ProgramStops(i))

FairSpec == Spec /\ Fairness

-------------------------------------------------------------------------------
(* Properties *)

\* The files the report of the session of a name may go to.  No handler refuses a
\* file because another session uses it: it is the clients that keep them apart.
Writes(n, f) == \E c \in Client : \E r \in Requests[c] :
    r.op \in {"create", "finish"} /\ r.name = n /\ r.file = f
FilesApart == \A m, n \in Name, f \in File : Writes(m, f) /\ Writes(n, f) => m = n

\* The table and the processes agree, whatever handler failed half way: no two
\* sessions share a GDB, the GDB of a live session has not been terminated, and
\* the daemon holds the pipe of a GDB if and only if it is that of a live session.
Owned ==
    /\ \A m, n \in Live : sessions[m].start = sessions[n].start => m = n
    /\ \A n \in Live : gdbs[sessions[n].start].state \in {"up", "busy", "dead"}
    /\ \A i \in Starts : Alive(i) =>
         (TheDaemon \in gdbs[i].writers <=> \E n \in Live : sessions[n].start = i)

\* What a client is told of a finish stays true, whatever is asked later: GDB is
\* closed, the session is in the table no more, and its report is there, unless
\* a later session wrote its own in its place.
Finished ==
    \A i \in Starts, f \in File : <<i, f>> \in finished =>
        /\ gdbs[i].state = "closed"
        /\ \A n \in Live : sessions[n].start # i
        /\ disk.report[f] >= i

\* The index in the assets of a live session lists that session's evidence, unless
\* it lists that of a start that opened or used the same assets while the session was
\* live.  Neither earlier sessions, nor a create that was refused, nor starts and ends
\* of sessions elsewhere take it away.
EvidenceKept ==
    \A n \in Live : LET listed == disk.index[sessions[n].dir]
                    IN  \/ listed = sessions[n].start
                        \/ <<sessions[n].start, listed>> \in shares

\* A GDB the daemon no longer knows ends, even when it was forked between
\* others and its pipe was inherited by them: after a failed create, and after
\* the death of the daemon.
Forgotten(i) == Alive(i) /\ \A n \in Live : sessions[n].start # i
ForgottenGdbEnds == \A i \in Starts : Forgotten(i) ~> ~Alive(i)

\* Finishing requires a stopped, exited or error state.
FinishNeedsStop ==
    [][\A n \in Live : n \notin DOMAIN sessions' /\ answer'.op \in {"finish", "finish_action"}
                            /\ answer'.ok /\ answer' # answer
         => sessions[n].state \in {"Stopped", "Error"}]_vars

\* A session lives until somebody asks for its end.
EndsOnlyWhenAsked ==
    [][\A n \in Live : n \notin DOMAIN sessions' =>
         \/ req.op = "shutdown"
         \/ req.op \in Ending /\ req.name = n]_vars

\* The daemon implements what its clients may rely on.
Abstract == INSTANCE Registry WITH
    up <- Up,
    live <- [n \in DOMAIN sessions |-> sessions[n].start],
    used <- {i \in Starts : gdbs[i].state # "none"},
    answer <- [op |-> answer.op, name |-> answer.name, ok |-> answer.ok]
ImplementsRegistry == Abstract!Spec

===============================================================================
