------------------------ MODULE MCLiveTranscription ------------------------
(* Small instance of LiveTranscription: a clock of two units for one source  *)
(* and of one for the other, queues of one place.                           *)
EXTENDS LiveTranscription

MCHorizon == [s \in Source |-> IF s = "microphone" THEN 2 ELSE 1]

MCRequests == {Span(i, j) : i \in 0..2, j \in 1..2} \cap Request
=============================================================================
