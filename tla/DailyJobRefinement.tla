------------------------- MODULE DailyJobRefinement -------------------------
(* DailyJobQueue implements DailyJobContract, while leases outlive         *)
(* executions: the rows' statuses are forgotten up to the contract's       *)
(* phases, and what a worker holds is what it executes.                    *)
EXTENDS DailyJobQueue

PhaseOf(s) ==
  CASE s = "absent" -> "none"
    [] s \in {"queued", "running"} -> "open"
    [] s = "cancel_requested" -> "closing"
    [] OTHER -> s

phaseBar == [j \in JobId |-> PhaseOf(jobs[j].status)]
keyBar   == [j \in JobId |-> jobs[j].key]

Contract == INSTANCE DailyJobContract WITH phase <- phaseBar, key <- keyBar, held <- exec

(* Every step of the queue is a step of the contract or changes nothing    *)
(* the contract sees.                                                      *)
ImplementsContract == Contract!Spec
=============================================================================
