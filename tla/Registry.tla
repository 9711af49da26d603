------------------------------- MODULE Registry -------------------------------
(***************************************************************************)
(* What the clients of the daemon may rely on: a name stands for at most   *)
(* one session, a session is started once and is never replaced or ended   *)
(* behind a refusal, and an answer tells what has been done to the table.  *)
(***************************************************************************)
EXTENDS Integers

CONSTANTS Name, Starts   \* session names, and numbers for the starts of a session

VARIABLES
    up,      \* the daemon takes requests
    live,    \* the start a live name stands for
    used,    \* the starts made so far, failed ones included
    answer   \* the latest answer

vars == <<up, live, used, answer>>

Ended == {"finish", "finish_action", "close"}
Op == Ended \cup {"none", "list", "status", "create", "action", "shutdown", "bad"}
Answer == [op : Op, name : Name, ok : BOOLEAN]

Nothing == [n \in {} |-> 0]

Init ==
    /\ up = TRUE
    /\ live = Nothing
    /\ used = {}
    /\ answer \in {a \in Answer : a.op = "none"}

\* A free name is given to a session that has just been started.
Open(n, i) ==
    /\ n \notin DOMAIN live /\ i \notin used
    /\ live' = [m \in DOMAIN live \cup {n} |-> IF m = n THEN i ELSE live[m]]
    /\ used' = used \cup {i}
    /\ answer' = [op |-> "create", name |-> n, ok |-> TRUE]

End(op, n) ==
    /\ n \in DOMAIN live
    /\ live' = [m \in DOMAIN live \ {n} |-> live[m]]
    /\ answer' = [op |-> op, name |-> n, ok |-> TRUE]
    /\ UNCHANGED used

\* Something was done to a live session, or the table was read.
Serve(op, n) ==
    /\ op \in {"action", "status"} => n \in DOMAIN live
    /\ answer' = [op |-> op, name |-> n, ok |-> TRUE]
    /\ UNCHANGED <<live, used>>

\* A refusal leaves the table as it is.  A start may have been made in vain.
Refuse(op, n) ==
    /\ answer' = [op |-> op, name |-> n, ok |-> FALSE]
    /\ used' \in SUBSET Starts /\ used \subseteq used'
    /\ UNCHANGED live

EndAll(n) ==
    /\ live' = Nothing
    /\ answer' = [op |-> "shutdown", name |-> n, ok |-> TRUE]
    /\ UNCHANGED used

\* The daemon is gone, and its sessions with it.
Die ==
    /\ up' = FALSE
    /\ live' = Nothing
    /\ used' \in SUBSET Starts /\ used \subseteq used'
    /\ \E n \in Name : answer' = [op |-> "none", name |-> n, ok |-> FALSE]

\* The answer is read.
Read ==
    /\ \E n \in Name : answer' = [op |-> "none", name |-> n, ok |-> FALSE]
    /\ UNCHANGED <<live, used>>

\* A new daemon knows nothing of the old one's sessions.
Boot ==
    /\ up' = TRUE
    /\ UNCHANGED <<live, used, answer>>

Next ==
    \/ ~up /\ Boot
    \/ /\ up /\ UNCHANGED up
       /\ \E n \in Name :
            \/ \E i \in Starts : Open(n, i)
            \/ \E op \in Ended : End(op, n)
            \/ \E op \in {"list", "status", "action"} : Serve(op, n)
            \/ \E op \in Op \ {"none"} : Refuse(op, n)
            \/ EndAll(n)
            \/ Read
    \/ up /\ Die

Spec == Init /\ [][Next]_vars

===============================================================================
