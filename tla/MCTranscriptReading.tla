------------------------- MODULE MCTranscriptReading -------------------------
(* Two finals that match the query, one spoken while the other was; one      *)
(* workspace holds both to begin with, the other only the second.            *)
EXTENDS TranscriptReading

Long == [from |-> 0, to |-> 3, hit |-> TRUE]
Within == [from |-> 1, to |-> 2, hit |-> TRUE]

MCFinals == {Long, Within}
MCRecorded == [w \in Workspaces |-> IF w = "documents" THEN <<Long, Within>> ELSE <<Within>>]
MCVersions == [w \in Workspaces |-> 2]

=============================================================================
