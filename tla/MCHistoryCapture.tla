-------------------------- MODULE MCHistoryCapture --------------------------
(* Instances of HistoryCapture for TLC. *)
EXTENDS HistoryCapture
=============================================================================
