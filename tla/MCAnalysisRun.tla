---------------------------- MODULE MCAnalysisRun ----------------------------
(* One origin, whose two messages are one chunk. *)
EXTENDS AnalysisRun

MCPointOrigins == << <<1, 2>> >>
MCReplies == { Garbage, << <<9>> >>, << <<2, 9, 1>>, <<2, 1>>, <<1>> >> }
MCProcIds == 1 .. 2
=============================================================================
