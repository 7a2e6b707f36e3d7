-------------------------- MODULE MCDeliveryOutbox --------------------------
(* Instances of DeliveryOutbox for TLC. *)
EXTENDS DeliveryOutbox, TLC

CONSTANTS s1, s2

MCRuns1 == {1}
MCRuns2 == {1, 2}
MCSenders1 == {s1}
MCSenders2 == {s1, s2}

(* Senders are interchangeable. *)
MCSymmetry == Permutations(Senders)
=============================================================================
