-------------------------- MODULE MCDailyJobWorker --------------------------
(* Instances of DailyJobWorker for TLC. *)
EXTENDS DailyJobWorker, TLC

CONSTANTS w1, w2, w3, c1, k1

MCWorkers2 == {w1, w2}
MCWorkers3 == {w1, w2, w3}
MCClients == {c1}
MCKeys == {k1}

(* Workers are interchangeable. *)
MCSymmetry == Permutations(Workers)
=============================================================================
