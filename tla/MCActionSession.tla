---------------------------- MODULE MCActionSession ----------------------------
(***************************************************************************)
(* Small sessions for ActionSession: a policy that inspects, deletes its   *)
(* own probe and continues, one that runs again, and plans that set probes *)
(* and run, one of them with itself.                                       *)
(***************************************************************************)
EXTENDS ActionSession

Of(kind, name) == [kind |-> kind, num |-> 0, name |-> name]
On(kind, num)  == [kind |-> kind, num |-> num, name |-> "none"]

MCPolicy ==
    [look  |-> [steps |-> <<Req("evaluate"), On("probe_delete", 1)>>,
                stop |-> FALSE, onward |-> TRUE],
     rerun |-> [steps |-> <<Req("run"), Req("record_discard")>>,
                stop |-> TRUE, onward |-> FALSE],
     plain |-> [steps |-> <<>>, stop |-> FALSE, onward |-> TRUE]]

MCPlan ==
    [probes |-> <<[req |-> Of("breakpoint_set", "look"), stop |-> FALSE],
                  [req |-> Of("watchpoint_set", "rerun"), stop |-> TRUE]>>,
     again  |-> <<[req |-> Req("run"), stop |-> FALSE],
                  [req |-> Of("replay", "again"), stop |-> FALSE],
                  [req |-> Req("finish_session"), stop |-> FALSE]>>,
     watch  |-> <<[req |-> Of("watchpoint_set", "plain"), stop |-> FALSE],
                  [req |-> Req("continue"), stop |-> TRUE]>>,
     static |-> <<[req |-> Req("evaluate"), stop |-> TRUE],
                  [req |-> Req("run"), stop |-> FALSE],
                  [req |-> Req("probe_list"), stop |-> FALSE]>>]

\* The caller of a live session.
RunRequests ==
    {Req("continue"), Of("replay", "again"), Of("replay", "watch"),
     On("probe_disable", 2), On("probe_enable", 1), Req("raw_mi"), Req("finish_session")}

\* The caller of a core session.
CoreRequests ==
    {Of("record_start", "raw"), Req("record_start"), Req("record_status"),
     Req("record_stop"), Req("record_discard"), Req("raw_mi"), Req("probe_list"),
     Req("evaluate"), Req("threads"), Req("save_action"), Of("replay", "static"),
     Of("replay", "probes"), On("probe_delete", 1), Req("continue"), Req("unknown"),
     Of("catchpoint_set", "plain"), Req("finish_session")}

MCRequests == [core \in BOOLEAN |-> IF core THEN CoreRequests ELSE RunRequests]
MCMaxRequests == [core \in BOOLEAN |-> IF core THEN 3 ELSE 2]

===============================================================================
