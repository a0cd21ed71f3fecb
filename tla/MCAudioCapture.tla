--------------------------- MODULE MCAudioCapture ---------------------------
(* Small instance of AudioCapture: chunks of 2, frames of 3 and packets of  *)
(* 3 samples, so that a packet holds one chunk or two and a frame begins in *)
(* one chunk and ends in another; two formats that are alike and one that   *)
(* the format pipeline refuses.                                             *)
EXTENDS AudioCapture

CONSTANTS f1, f2, f3

MCFormats == {f1, f2, f3}
MCUnsupported == {f3}

FormatSymmetry == Permutations({f1, f2})

=============================================================================
