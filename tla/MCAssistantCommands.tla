------------------------- MODULE MCAssistantCommands -------------------------
(* One command summarises, the other finds insights and answers questions.   *)
(* Together their requests do not fit the limit; the meetings have a large   *)
(* segment that does not fit beside others, one that fits alone or not at    *)
(* all, and more small ones than may be selected.                            *)
EXTENDS AssistantCommands

MCCommands == {1, 2}
MCPurposes == <<{"summary"}, {"insight", "question"}>>
MCMeetings == {<<2, 3, 1, 1>>, <<1, 3, 1, 1, 1>>, <<1, 5, 1>>}

=============================================================================
