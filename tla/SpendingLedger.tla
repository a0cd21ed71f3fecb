---------------------------- MODULE SpendingLedger ----------------------------
(***************************************************************************)
(* Requests to the language model provider and what they may cost: the     *)
(* process-local ledger of a session (llm/budget.rs), one request and its  *)
(* event stream (llm/completion.rs), the retries around it (llm/retry.rs)  *)
(* and the single repair of an answer that does not parse                  *)
(* (llm/results.rs), as the insight, question and summary commands use     *)
(* them.  The commands run concurrently; the ledger's mutex makes each     *)
(* reservation, reconciliation and release one step.  The ledger lives as  *)
(* long as the process (Restart).                                          *)
(*                                                                         *)
(* Amounts are whole units.  Prompts, answers and prices are left out: a   *)
(* command's request has a cost ceiling, and the provider charges what it  *)
(* likes up to the token ceilings, or, as `overrun` records, beyond them.  *)
(***************************************************************************)
EXTENDS Naturals, FiniteSets, FiniteSetsExt

CONSTANTS
  Commands,      (* concurrent commands on one session                      *)
  Costs,         (* the cost ceilings a request may have                    *)
  Limit,         (* spending_limit_usd of the session                       *)
  MaxAttempts,   (* MAX_ATTEMPTS                                            *)
  MaxPending,    (* MAX_PENDING_RESERVATIONS_PER_SESSION                    *)
  MaxSends       (* bound: requests made by each command                    *)

ASSUME SpendingAssumption ==
  /\ Costs \subseteq Nat /\ Limit \in Nat
  /\ MaxAttempts \in Nat \ {0} /\ MaxPending \in Nat /\ MaxSends \in Nat

VARIABLES
  ledger,     (* SessionLedger: [spent, reserved, count]                    *)
  pending,    (* PendingReservation: a set of [id, cost]                    *)
  call,       (* command -> [at, id, first, attempt, repair, cost, due]     *)
  cancelled,  (* the commands whose cancellation flag is up                 *)
  billed,     (* history: what the provider has charged this process        *)
  overrun     (* history: what of it exceeds the ceilings of the requests   *)

ledgerVars == <<ledger, pending>>
billVars == <<billed, overrun>>
spendingVars == <<ledgerVars, call, cancelled, billVars>>

EmptyLedger == [spent |-> 0, reserved |-> 0, count |-> 0]

(* `first` is the number of the first request of the command's current call, *)
(* `due` a settled cost that the usage records do not have yet.              *)
SpendingInit ==
  /\ ledger = EmptyLedger /\ pending = {}
  /\ call \in [Commands -> [at : {"idle"}, id : {0}, first : {1}, attempt : {0},
                            repair : {FALSE}, cost : {0}, due : {0}]]
  /\ cancelled = {}
  /\ billed = 0 /\ overrun = 0

----------------------------------------------------------------------------
(* UsageBudgetService, each operation under its mutex.                      *)

RequestOf(c) == <<c, call[c].id>>

PendingOf(c) == {r \in pending : r.id = RequestOf(c)}

(* Fault: what is already reserved is not counted.                          *)
FaultyAdmits(cost) == ledger.count < MaxPending /\ (cost = 0 \/ ledger.spent + cost <= Limit)

(* A free request runs under any limit. *)
Admits(cost) ==
  /\ ledger.count < MaxPending
  /\ cost = 0 \/ ledger.spent + ledger.reserved + cost <= Limit

Reserve(c) ==
  /\ PendingOf(c) = {} /\ Admits(call[c].cost)
  /\ ledger' = [ledger EXCEPT !.reserved = @ + call[c].cost, !.count = @ + 1]
  /\ pending' = pending \cup {[id |-> RequestOf(c), cost |-> call[c].cost]}

(* A reservation is replaced by an actual cost within it; release is the    *)
(* replacement by nothing.                                                  *)
Settle(c, actual) ==
  \E r \in PendingOf(c) :
    /\ actual <= r.cost /\ r.cost <= ledger.reserved /\ ledger.count > 0
    /\ ledger' = [spent |-> ledger.spent + actual, reserved |-> ledger.reserved - r.cost,
                  count |-> ledger.count - 1]
    /\ pending' = pending \ {r}

Release(c) == Settle(c, 0)

----------------------------------------------------------------------------
(* The course of a command's call.                                          *)

At(c, place) == call[c].at = place

Goto(c, place) == call' = [call EXCEPT ![c].at = place, ![c].due = 0]

(* The call returns to its command. *)
Return(c) ==
  call' = [call EXCEPT ![c].at = "idle", ![c].attempt = 0, ![c].repair = FALSE, ![c].cost = 0,
                       ![c].due = 0]

Charge(amount, over) == billed' = billed + amount + over /\ overrun' = overrun + over

NoCharge == Charge(0, 0)

(* The next request of the call, under an identifier of its own. *)
Again(c, attempt, repair) ==
  call' = [call EXCEPT ![c].at = "reserve", ![c].id = @ + 1, ![c].attempt = attempt,
                       ![c].repair = repair]

(* should_retry: never while the reservation is kept, because the provider  *)
(* may be charging for it.  The repair is made only once.                   *)
Retries(c, kept) == ~kept /\ ~call[c].repair /\ call[c].attempt < MaxAttempts

(* The request failed with an error that is, or is not, worth a retry.      *)
Failed(c, kept) == Return(c) \/ (Retries(c, kept) /\ Goto(c, "wait"))

Begin(c) ==
  /\ At(c, "idle") /\ call[c].id < MaxSends
  /\ \E cost \in Costs :
       call' = [call EXCEPT ![c].at = "reserve", ![c].id = @ + 1, ![c].first = call[c].id + 1,
                            ![c].attempt = 1, ![c].repair = FALSE, ![c].cost = cost]
  /\ cancelled' = cancelled \ {c}
  /\ UNCHANGED <<ledgerVars, billVars>>

(* stream_completion before anything is sent: the flag, the catalog, the    *)
(* body and the ledger may refuse the request.                              *)
Admit(c) ==
  /\ At(c, "reserve")
  /\ \/ c \notin cancelled /\ Reserve(c) /\ Goto(c, "send")
     \/ Return(c) /\ UNCHANGED ledgerVars
  /\ UNCHANGED <<cancelled, billVars>>

(* send_completion.  A failure before the send, or a response that refuses  *)
(* the request, gives the reservation back; a failed send keeps it, and so  *)
(* does a response that is no event stream.                                 *)
Send(c) ==
  /\ At(c, "send")
  /\ \/ c \in cancelled /\ Release(c) /\ Return(c) /\ NoCharge
     \/ c \notin cancelled /\ Release(c) /\ Failed(c, FALSE) /\ NoCharge
     \/ /\ c \notin cancelled /\ UNCHANGED ledgerVars /\ Failed(c, TRUE)
        /\ \E amount \in 0..call[c].cost : Charge(amount, 0)
     \/ c \notin cancelled /\ UNCHANGED ledgerVars /\ Goto(c, "stream") /\ NoCharge
  /\ UNCHANGED cancelled

(* Fault: a stream that ends early gives its reservation back.              *)
FaultyBreak(c) ==
  /\ At(c, "stream")
  /\ \E amount \in 0..call[c].cost : Charge(amount, 0)
  /\ Release(c) /\ Failed(c, FALSE)
  /\ UNCHANGED cancelled

(* The stream ends before the usage is known, or it is cancelled: the       *)
(* provider may have charged for it.                                        *)
Break(c) ==
  /\ At(c, "stream")
  /\ \E amount \in 0..call[c].cost : Charge(amount, 0)
  /\ Failed(c, TRUE)
  /\ UNCHANGED <<ledgerVars, cancelled>>

(* The usage is known: reconcile_prompt_usage settles it.                   *)
Finish(c) ==
  /\ At(c, "stream")
  /\ \E amount \in 0..call[c].cost :
       /\ Charge(amount, 0) /\ Settle(c, amount)
       /\ call' = [call EXCEPT ![c].at = "record", ![c].due = amount]
  /\ UNCHANGED cancelled

(* ... and records it, outside the ledger's mutex.  The stream was complete, *)
(* or it had failed after its usage was known.                              *)
Record(c) ==
  /\ At(c, "record")
  /\ Goto(c, "validate") \/ Failed(c, FALSE)
  /\ UNCHANGED <<ledgerVars, cancelled, billVars>>

(* The usage exceeds the ceilings of the request; it is not reconciled.     *)
Exceed(c) ==
  /\ At(c, "stream")
  /\ Charge(call[c].cost, 1)
  /\ Failed(c, TRUE)
  /\ UNCHANGED <<ledgerVars, cancelled>>

(* The backoff ends, unless the flag goes up.                               *)
Wait(c) ==
  /\ At(c, "wait")
  /\ \/ c \in cancelled /\ Return(c)
     \/ c \notin cancelled /\ call[c].id < MaxSends /\ Again(c, call[c].attempt + 1, FALSE)
  /\ UNCHANGED <<ledgerVars, cancelled, billVars>>

(* validate_or_repair_completion: the answer is refused, used, or, once,    *)
(* repaired by another request.                                             *)
Validate(c) ==
  /\ At(c, "validate")
  /\ \/ Return(c)
     \/ Goto(c, "deliver")
     \/ ~call[c].repair /\ call[c].id < MaxSends /\ Again(c, call[c].attempt, TRUE)
  /\ UNCHANGED <<ledgerVars, cancelled, billVars>>

(* The command does what it wanted the answer for. *)
Deliver(c) ==
  /\ At(c, "deliver") /\ Return(c)
  /\ UNCHANGED <<ledgerVars, cancelled, billVars>>

Cancel(c) ==
  /\ ~At(c, "idle") /\ c \notin cancelled
  /\ cancelled' = cancelled \cup {c}
  /\ UNCHANGED <<ledgerVars, call, billVars>>

(* The process ends; identifiers are not used again. *)
Restart ==
  /\ ledger' = EmptyLedger /\ pending' = {} /\ cancelled' = {}
  /\ call' = [c \in Commands |-> [call[c] EXCEPT !.at = "idle", !.attempt = 0, !.repair = FALSE,
                                                !.cost = 0, !.due = 0]]
  /\ billed' = 0 /\ overrun' = 0

SpendingNext ==
  \/ \E c \in Commands :
       \/ Begin(c) \/ Admit(c) \/ Send(c) \/ Break(c) \/ Finish(c) \/ Exceed(c)
       \/ Record(c) \/ Wait(c) \/ Validate(c) \/ Deliver(c) \/ Cancel(c)
  \/ Restart

SpendingSpec == SpendingInit /\ [][SpendingNext]_spendingVars

----------------------------------------------------------------------------
(* Properties.                                                              *)

(* Concurrent requests together never commit a session to more than its     *)
(* limit, whatever mixture of retries, repairs, failures and concurrent     *)
(* commands reserved it.                                                    *)
LimitKept == ledger.spent + ledger.reserved <= Limit

(* What the provider may have charged is always covered by what the ledger  *)
(* holds as spent or reserved: no reservation is given back while its       *)
(* request may be billed, and none is settled for less.  Only charges       *)
(* beyond the ceilings a request was sent with escape it.                   *)
BillCovered == billed <= ledger.spent + ledger.reserved + overrun

(* A call is not repeated while it is unknown what it cost: one call never  *)
(* has two reservations, and a retained one is the last of its call.        *)
OneReservationEach ==
  \A c \in Commands :
    LET mine == {r \in pending : r.id[1] = c /\ r.id[2] >= call[c].first} IN
      /\ Cardinality(mine) <= 1
      /\ call[c].at \notin {"send", "stream", "idle"} => mine = {}

=============================================================================
