-------------------------- MODULE MCDailyJobQueue --------------------------
(* Instances of DailyJobQueue for TLC. *)
EXTENDS DailyJobRefinement, TLC

CONSTANTS w1, w2, w3, c1, c2, k1, k2

MCWorkers2 == {w1, w2}
MCWorkers3 == {w1, w2, w3}
MCClients1 == {c1}
MCClients2 == {c1, c2}
MCKeys1 == {k1}
MCKeys2 == {k1, k2}

(* Workers, clients and keys are interchangeable: only equality is used. *)
MCSymmetry == Permutations(Workers) \cup Permutations(Clients) \cup Permutations(Keys)
=============================================================================
