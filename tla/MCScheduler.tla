---- MODULE MCScheduler ----
(* Scheduler with three processes, two events and waits of every kind. *)
EXTENDS SchedulerRefinement

CONSTANTS e1, e2

MCEvents == {e1, e2}
MCWaits == {WaitForNone, WaitForTime(0), WaitForProcess(2), WaitForEvent(e2),
            [times |-> {1, 3}, processes |-> {}, events |-> {e1}],
            [times |-> {2}, processes |-> {1}, events |-> {e1, e2}]}
====
