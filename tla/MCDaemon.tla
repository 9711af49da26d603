------------------------------- MODULE MCDaemon -------------------------------
(***************************************************************************)
(* Two clients and two names for Daemon.  One client creates s2 and does   *)
(* no more; the other asks everything else.  Each name has a report of its *)
(* own, and a finish may ask for another one.  The sessions of both names  *)
(* take the same assets, as they do when nobody names any, or s2 has       *)
(* others.                                                                 *)
(***************************************************************************)
EXTENDS Daemon

About(op, n, d, f) == [op |-> op, name |-> n, dir |-> d, file |-> f]

MCRequests ==
    [a |-> {About(op, "s1", "d1", NoFile) : op \in Op \ {"create", "finish", "close"}}
           \cup {About("create", "s1", "d1", "f1"), About("finish", "s1", "d1", "other"),
                 About("close", "s2", "d2", NoFile), About("finish", "s2", "d2", NoFile)},
     b |-> {About("create", "s2", d, "f2") : d \in {"d1", "d2"}}]

\* What Finished asks of the clients.
ASSUME ReportsApart == FilesApart

===============================================================================
