------------------------------- MODULE MCReplays -------------------------------
(***************************************************************************)
(* Small stores for Replays: one name, two actions, two tasks and files    *)
(* written by hand that have every kind of step and of metadata.           *)
(***************************************************************************)
EXTENDS Replays

CONSTANTS n1, a, b, t1, t2

On(kind, act, policy) == [kind |-> kind, act |-> act, policy |-> policy]

HandPlan(schema, t, policy, steps) ==
    [form |-> "plan", schema |-> schema, task |-> t, policy |-> policy, steps |-> steps]

Mixed == <<On("scalar", "none", "none"), On("act", a, "stop"), On("disabled", b, "none"),
           On("missing", "none", "continue"), On("act", b, "none")>>

MCHandPlans ==
    {HandPlan("none", "bare", "none", Mixed),
     HandPlan("other", t1, "none", Mixed),
     HandPlan("v1", "scalar", "stop", Mixed),
     HandPlan("v1", t1, "stop", <<On("act", a, "continue"), On("missing", "none", "none"),
                                  On("bad", "none", "none")>>),
     HandPlan("v1", "none", "continue", <<On("act", a, "none"), On("bad", "none", "none")>>),
     [Lines(<<Kept(a), Kept(b), Bad>>) EXCEPT !.form = "noted"]}

===============================================================================
