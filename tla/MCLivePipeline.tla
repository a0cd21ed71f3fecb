--------------------------- MODULE MCLivePipeline ---------------------------
(* Small instance of LivePipeline: utterances of one or two milliseconds,   *)
(* a queue of two finals.                                                   *)
EXTENDS LivePipeline

R(start, end) == [start_ms |-> start, end_ms |-> end, samples |-> end - start]

MCFinalRequests == {R(0, 1), R(0, 2), R(1, 2)}
MCPartialRequests == {R(0, 1), R(1, 2)}
=============================================================================
