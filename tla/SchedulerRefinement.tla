------------------------ MODULE SchedulerRefinement -------------------------
(***************************************************************************)
(* The scheduler implements AbstractScheduler: the conditions a process is *)
(* blocked on are the ones registered under its current wait id.           *)
(***************************************************************************)
EXTENDS Scheduler

Abstract == INSTANCE AbstractScheduler WITH
  ready   <- queues.running,
  current <- running,
  blocked <- Blocked(queues),
  slice   <- running_timeslice_end,
  nextPid <- next_pid,
  timer   <- deadline

(* The scheduler implements the abstract one: a wait table in which the    *)
(* triggers of consumed wait ids stay behind never wakes a process early,  *)
(* late, or for a reason of an earlier wait.                               *)
ImplementsAbstract == Abstract!AbsSpec
=============================================================================
