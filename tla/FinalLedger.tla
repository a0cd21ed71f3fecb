----------------------------- MODULE FinalLedger -----------------------------
(***************************************************************************)
(* What a live run promises to whoever listens to it: every utterance that *)
(* it takes is answered once, by a result or a gap, provisional text of an *)
(* utterance comes before its answer or not at all, and a run that is over *)
(* owes nothing and stays over.  Threads, queues, schedules, failures and  *)
(* cancellations are not seen at this level.                               *)
(***************************************************************************)
EXTENDS Naturals

CONSTANT Utterances

VARIABLES
  taken,             (* the utterances that were accepted for transcription  *)
  shown,             (* what the listener last heard of each utterance       *)
  heard,             (* how many answers it heard of each                    *)
  over

LedgerInit ==
  /\ taken = {} /\ over = FALSE
  /\ shown = [u \in Utterances |-> "nothing"]
  /\ heard = [u \in Utterances |-> 0]

Take(u) ==
  /\ u \notin taken
  /\ taken' = taken \cup {u}
  /\ UNCHANGED <<shown, heard>>

HearPartial(u) ==
  /\ heard[u] = 0
  /\ shown' = [shown EXCEPT ![u] = "partial"]
  /\ UNCHANGED <<taken, heard>>

HearAnswer(u) ==
  /\ u \in taken /\ heard[u] = 0
  /\ shown' = [shown EXCEPT ![u] = "answered"]
  /\ heard' = [heard EXCEPT ![u] = 1]
  /\ UNCHANGED taken

(* Any step may be the last one, if nothing is owed after it. *)
LedgerNext ==
  /\ ~over
  /\ \/ \E u \in Utterances : Take(u) \/ HearPartial(u) \/ HearAnswer(u)
     \/ UNCHANGED <<taken, shown, heard>>
  /\ over' \in BOOLEAN
  /\ over' => \A u \in taken' : heard'[u] = 1

LedgerSpec == LedgerInit /\ [][LedgerNext]_<<taken, shown, heard, over>>

=============================================================================
