----------------------------- MODULE MCTaskRelay -----------------------------
(***************************************************************************)
(* TaskRelay on small instances: two tasks and rounds that read one, so    *)
(* that the older task can crowd out the younger one. What differs between *)
(* the two pollers are giving up and its refund: Midjourney is run without *)
(* trouble and with failing statements, the other one in every situation.  *)
(***************************************************************************)
EXTENDS TaskRelay

CONSTANTS t1, t2

TwoTasks == {t1, t2}

MCInit ==
  TaskInit /\ (relay = "midjourney" => situation \in {"calm", "database"})

Spec == MCInit /\ [][TaskNext]_taskVars /\ TaskFairness
=============================================================================
