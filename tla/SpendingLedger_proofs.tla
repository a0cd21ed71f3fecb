------------------------- MODULE SpendingLedger_proofs -------------------------
(***************************************************************************)
(* Proofs about the ledger of a session, for any set of concurrent         *)
(* commands, any ceilings of their requests and any limit.  The limit is   *)
(* inductive once the amounts are known to be naturals: a reservation is   *)
(* made only where it fits, and a settlement replaces a reservation by at  *)
(* most as much.  The commands with their prompts, rows and files are then *)
(* shown to implement the ledger's specification, which carries the limit  *)
(* over to them.  The prompts rest on an induction along the segments of a *)
(* meeting.                                                                *)
(***************************************************************************)
EXTENDS AssistantCommands, FiniteSetTheorems, TLAPS

Places == {"idle", "reserve", "send", "stream", "record", "wait", "validate", "deliver"}

Ledgers == [spent : Nat, reserved : Nat, count : Nat]

Calls == [at : Places, id : Nat, first : Nat, attempt : Nat, repair : BOOLEAN, cost : Nat, due : Nat]

LedgerType ==
  /\ ledger \in Ledgers
  /\ \A r \in pending : r.cost \in Nat
  /\ call \in [Commands -> Calls]

LedgerInv == LedgerType /\ LimitKept

(* One call of the commands changes to another of their type. *)
LEMMA CallsKept ==
  ASSUME LedgerType, NEW c \in Commands, NEW after \in Calls
  PROVE  [call EXCEPT ![c] = after] \in [Commands -> Calls]
BY DEF LedgerType

(* A step of a call that leaves its cost alone, or clears it. *)
LEMMA CallMoves ==
  ASSUME LedgerType, NEW c \in Commands, NEW place \in Places
  PROVE  /\ Goto(c, place) => call' \in [Commands -> Calls]
         /\ Return(c) => call' \in [Commands -> Calls]
<1> USE DEF LedgerType, Calls
<1>1. "idle" \in Places /\ 0 \in Nat /\ FALSE \in BOOLEAN
  BY DEF Places
<1>2. [call[c] EXCEPT !.at = place, !.due = 0] \in Calls
  BY <1>1
<1>3. [call[c] EXCEPT !.at = "idle", !.attempt = 0, !.repair = FALSE, !.cost = 0, !.due = 0] \in Calls
  BY <1>1
<1>4. Goto(c, place) => call' = [call EXCEPT ![c] = [call[c] EXCEPT !.at = place, !.due = 0]]
  BY DEF Goto
<1>5. Return(c) =>
        call' = [call EXCEPT ![c] = [call[c] EXCEPT !.at = "idle", !.attempt = 0, !.repair = FALSE,
                                                     !.cost = 0, !.due = 0]]
  BY DEF Return
<1> QED
  BY <1>2, <1>3, <1>4, <1>5, CallsKept

(* The next request of a call has its cost. *)
LEMMA CallGoesOn ==
  ASSUME LedgerType, NEW c \in Commands, NEW n \in Nat, NEW b \in BOOLEAN, Again(c, n, b)
  PROVE  call' \in [Commands -> Calls]
<1>1. call[c].id + 1 \in Nat /\ "reserve" \in Places
  BY DEF LedgerType, Calls, Places
<1> QED
  BY <1>1, SMTT(30) DEF LedgerType, Calls, Again

(* A failed request ends its call or makes it wait. *)
LEMMA CallFails ==
  ASSUME LedgerType, NEW c \in Commands, NEW kept \in BOOLEAN, Failed(c, kept)
  PROVE  call' \in [Commands -> Calls]
<1>1. "wait" \in Places
  BY DEF Places
<1> QED
  BY <1>1, CallMoves DEF Failed

(* A reservation is made only where it fits the limit. *)
LEMMA ReserveStep ==
  ASSUME LedgerInv, NEW c \in Commands, Reserve(c)
  PROVE  ledger' \in Ledgers /\ (\A r \in pending' : r.cost \in Nat) /\ LimitKept'
<1> USE DEF LedgerInv, LedgerType, LimitKept
<1>1. call[c].cost \in Nat
  BY DEF Calls
<1> DEFINE cost == call[c].cost
<1>2. ledger.spent \in Nat /\ ledger.reserved \in Nat /\ ledger.count \in Nat
  BY DEF Ledgers
<1>3. cost = 0 \/ ledger.spent + ledger.reserved + cost <= Limit
  BY DEF Reserve, Admits
<1>4. ledger' = [ledger EXCEPT !.reserved = @ + cost, !.count = @ + 1]
  BY DEF Reserve
<1>5. ledger' = [spent |-> ledger.spent, reserved |-> ledger.reserved + cost, count |-> ledger.count + 1]
  BY <1>4 DEF Ledgers
<1>6. \A r \in pending' : r.cost \in Nat
  BY <1>1 DEF Reserve
<1> HIDE DEF cost
<1>7. cost \in Nat
  BY <1>1 DEF cost
<1>8. ledger' \in Ledgers
  BY <1>2, <1>5, <1>7 DEF Ledgers
<1>9. ledger'.spent + ledger'.reserved <= Limit
  BY <1>2, <1>3, <1>5, <1>7, SpendingAssumption
<1> QED
  BY <1>6, <1>8, <1>9

(* A settlement replaces a reservation by at most as much. *)
LEMMA SettleStep ==
  ASSUME LedgerInv, NEW c \in Commands, NEW actual \in Nat, Settle(c, actual)
  PROVE  ledger' \in Ledgers /\ (\A r \in pending' : r.cost \in Nat) /\ LimitKept'
<1> USE DEF LedgerInv, LedgerType, LimitKept
<1>1. PICK r \in PendingOf(c) :
        /\ actual <= r.cost /\ r.cost <= ledger.reserved /\ ledger.count > 0
        /\ ledger' = [spent |-> ledger.spent + actual, reserved |-> ledger.reserved - r.cost,
                      count |-> ledger.count - 1]
        /\ pending' = pending \ {r}
  BY DEF Settle
<1> DEFINE cost == r.cost
<1>2. cost \in Nat
  BY DEF PendingOf
<1>3. ledger.spent \in Nat /\ ledger.reserved \in Nat /\ ledger.count \in Nat
  BY DEF Ledgers
<1>4. \A q \in pending' : q.cost \in Nat
  BY <1>1
<1>5. /\ actual <= cost /\ cost <= ledger.reserved /\ ledger.count > 0
      /\ ledger' = [spent |-> ledger.spent + actual, reserved |-> ledger.reserved - cost,
                    count |-> ledger.count - 1]
  BY <1>1
<1> HIDE DEF cost
<1>6. ledger.reserved - cost \in Nat /\ ledger.count - 1 \in Nat /\ ledger.spent + actual \in Nat
  BY <1>2, <1>3, <1>5
<1>7. ledger' \in Ledgers
  BY <1>5, <1>6 DEF Ledgers
<1>8. ledger'.spent + ledger'.reserved <= Limit
  BY <1>2, <1>3, <1>5, SpendingAssumption
<1> QED
  BY <1>4, <1>7, <1>8

(* What leaves the ledger alone leaves its invariant alone. *)
LEMMA LedgerUnchanged ==
  ASSUME LedgerInv, UNCHANGED ledgerVars
  PROVE  ledger' \in Ledgers /\ (\A r \in pending' : r.cost \in Nat) /\ LimitKept'
BY DEF LedgerInv, LedgerType, LimitKept, ledgerVars

(* The step of a request that is sent: it is refused before it was sent,    *)
(* fails, or its stream begins.                                             *)
LEMMA SendStep ==
  ASSUME LedgerInv, NEW c \in Commands, Send(c)
  PROVE  LedgerInv'
<1> USE DEF LedgerInv, LedgerType
<1>1. /\ "stream" \in Places /\ 0 \in Nat /\ TRUE \in BOOLEAN /\ FALSE \in BOOLEAN
      /\ Release(c) => Settle(c, 0)
  BY DEF Places, Release
<1>2. CASE Release(c) /\ Return(c)
  BY <1>1, <1>2, SettleStep, CallMoves
<1>3. CASE Release(c) /\ Failed(c, FALSE)
  BY <1>1, <1>3, SettleStep, CallFails
<1>4. CASE UNCHANGED ledgerVars /\ Failed(c, TRUE)
  BY <1>1, <1>4, LedgerUnchanged, CallFails
<1>5. CASE UNCHANGED ledgerVars /\ Goto(c, "stream")
  BY <1>1, <1>5, LedgerUnchanged, CallMoves
<1> QED
  BY <1>2, <1>3, <1>4, <1>5 DEF Send

(* The usage of a stream settles its request. *)
LEMMA FinishStep ==
  ASSUME LedgerInv, NEW c \in Commands, Finish(c)
  PROVE  LedgerInv'
<1> USE DEF LedgerInv, LedgerType
<1>1. PICK amount \in 0..call[c].cost :
        /\ Settle(c, amount)
        /\ call' = [call EXCEPT ![c].at = "record", ![c].due = amount]
  BY DEF Finish
<1>2. amount \in Nat
  BY DEF Calls
<1>3. "record" \in Places
  BY DEF Places
<1>4. [call[c] EXCEPT !.at = "record", !.due = amount] \in Calls
  BY <1>2, <1>3 DEF Calls
<1>5. call' = [call EXCEPT ![c] = [call[c] EXCEPT !.at = "record", !.due = amount]]
  BY <1>1
<1>6. call' \in [Commands -> Calls]
  BY <1>4, <1>5, CallsKept
<1> QED
  BY <1>1, <1>2, <1>6, SettleStep

----------------------------------------------------------------------------
(* The ledger's numbers are naturals and stay within the limit, for every   *)
(* number of concurrent commands (llm/budget.rs).                           *)
THEOREM LedgerInvariant == SpendingSpec => []LedgerInv
<1>1. SpendingInit => LedgerInv
  <2> SUFFICES ASSUME SpendingInit PROVE LedgerInv
    OBVIOUS
  <2>1. ledger \in Ledgers /\ (\A r \in pending : r.cost \in Nat)
    BY DEF SpendingInit, EmptyLedger, Ledgers
  <2>2. call \in [Commands -> Calls]
    <3> DEFINE fresh == [at : {"idle"}, id : {0}, first : {1}, attempt : {0}, repair : {FALSE},
                         cost : {0}, due : {0}]
    <3>1. {"idle"} \subseteq Places /\ {0} \subseteq Nat /\ {1} \subseteq Nat /\ {FALSE} \subseteq BOOLEAN
      BY DEF Places
    <3>2. \A x \in fresh : x \in Calls
      BY <3>1, Zenon DEF Calls
    <3>3. call \in [Commands -> fresh]
      BY DEF SpendingInit
    <3> HIDE DEF fresh
    <3> QED
      BY <3>2, <3>3
  <2>3. LimitKept
    BY SpendingAssumption DEF SpendingInit, EmptyLedger, LimitKept
  <2> QED
    BY <2>1, <2>2, <2>3 DEF LedgerInv, LedgerType
<1>2. LedgerInv /\ [SpendingNext]_spendingVars => LedgerInv'
  <2> SUFFICES ASSUME LedgerInv, [SpendingNext]_spendingVars PROVE LedgerInv'
    OBVIOUS
  <2>0. /\ {"send", "validate", "deliver"} \subseteq Places
        /\ TRUE \in BOOLEAN /\ FALSE \in BOOLEAN
        /\ \A c \in Commands : call[c].attempt \in Nat /\ call[c].attempt + 1 \in Nat
    BY DEF Places, LedgerInv, LedgerType, Calls
  <2>1. ASSUME NEW c \in Commands, Begin(c) PROVE LedgerInv'
    <3>1. PICK cost \in Costs :
            call' = [call EXCEPT ![c].at = "reserve", ![c].id = @ + 1, ![c].first = call[c].id + 1,
                                 ![c].attempt = 1, ![c].repair = FALSE, ![c].cost = cost]
      BY <2>1 DEF Begin
    <3> DEFINE after == [call[c] EXCEPT !.at = "reserve", !.id = @ + 1, !.first = call[c].id + 1,
                                        !.attempt = 1, !.repair = FALSE, !.cost = cost]
    <3>2. call[c] \in Calls /\ "reserve" \in Places /\ cost \in Nat
      BY SpendingAssumption DEF LedgerInv, LedgerType, Places
    <3>3. after \in Calls
      <4>1. call[c].id + 1 \in Nat /\ 1 \in Nat /\ FALSE \in BOOLEAN
        BY <3>2 DEF Calls
      <4> QED
        BY <3>2, <4>1 DEF Calls
    <3>4. call' = [call EXCEPT ![c] = after]
      BY <3>1
    <3>5. call' \in [Commands -> Calls]
      BY <3>3, <3>4, CallsKept DEF LedgerInv
    <3> QED
      BY <2>1, <3>5, LedgerUnchanged DEF Begin, LedgerInv, LedgerType
  <2>2. ASSUME NEW c \in Commands, Admit(c) PROVE LedgerInv'
    BY <2>0, <2>2, ReserveStep, LedgerUnchanged, CallMoves DEF Admit, LedgerInv, LedgerType
  <2>3. ASSUME NEW c \in Commands, Send(c) PROVE LedgerInv'
    BY <2>3, SendStep
  <2>4. ASSUME NEW c \in Commands, Break(c) PROVE LedgerInv'
    BY <2>0, <2>4, LedgerUnchanged, CallFails DEF Break, LedgerInv, LedgerType
  <2>5. ASSUME NEW c \in Commands, Finish(c) PROVE LedgerInv'
    BY <2>5, FinishStep
  <2>6. ASSUME NEW c \in Commands, Exceed(c) PROVE LedgerInv'
    BY <2>0, <2>6, LedgerUnchanged, CallFails DEF Exceed, LedgerInv, LedgerType
  <2>7. ASSUME NEW c \in Commands, Record(c) PROVE LedgerInv'
    BY <2>0, <2>7, LedgerUnchanged, CallMoves, CallFails DEF Record, LedgerInv, LedgerType
  <2>8. ASSUME NEW c \in Commands, Wait(c) PROVE LedgerInv'
    BY <2>0, <2>8, LedgerUnchanged, CallMoves, CallGoesOn DEF Wait, LedgerInv, LedgerType
  <2>9. ASSUME NEW c \in Commands, Validate(c) PROVE LedgerInv'
    BY <2>0, <2>9, LedgerUnchanged, CallMoves, CallGoesOn DEF Validate, LedgerInv, LedgerType
  <2>10. ASSUME NEW c \in Commands, Deliver(c) PROVE LedgerInv'
    BY <2>0, <2>10, LedgerUnchanged, CallMoves DEF Deliver, LedgerInv, LedgerType
  <2>11. ASSUME NEW c \in Commands, Cancel(c) PROVE LedgerInv'
    BY <2>11, LedgerUnchanged DEF Cancel, LedgerInv, LedgerType
  <2>12. CASE Restart
    <3>1. ledger' \in Ledgers /\ (\A r \in pending' : r.cost \in Nat) /\ LimitKept'
      <4>1. ledger' = [spent |-> 0, reserved |-> 0, count |-> 0] /\ pending' = {}
        BY <2>12 DEF Restart, EmptyLedger
      <4>2. ledger' \in Ledgers /\ ledger'.spent = 0 /\ ledger'.reserved = 0
        BY <4>1 DEF Ledgers
      <4>3. LimitKept'
        BY <4>2, SpendingAssumption DEF LimitKept
      <4> QED
        BY <4>1, <4>2, <4>3
    <3>2. \A c \in Commands :
            [call[c] EXCEPT !.at = "idle", !.attempt = 0, !.repair = FALSE, !.cost = 0, !.due = 0] \in Calls
      BY DEF LedgerInv, LedgerType, Calls, Places
    <3>3. call' \in [Commands -> Calls]
      BY <2>12, <3>2 DEF Restart
    <3> QED
      BY <3>1, <3>3 DEF LedgerInv, LedgerType
  <2>13. CASE UNCHANGED spendingVars
    BY <2>13, LedgerUnchanged DEF spendingVars, LedgerInv, LedgerType
  <2> QED
    BY <2>1, <2>2, <2>3, <2>4, <2>5, <2>6, <2>7, <2>8, <2>9, <2>10, <2>11, <2>12, <2>13
       DEF SpendingNext
<1> QED
  BY <1>1, <1>2, PTL DEF SpendingSpec

(* The ledger by itself keeps to the session's limit (llm/budget.rs). *)
THEOREM LedgerKeepsLimit == SpendingSpec => []LimitKept
<1>1. LedgerInv => LimitKept
  BY DEF LedgerInv
<1> QED
  BY <1>1, LedgerInvariant, PTL

(* The commands implement the ledger: each of their steps, with what it     *)
(* does to prompts, usage rows, batches and summary.md, is a step of the    *)
(* ledger or leaves it alone (llm/summaries.rs, insights.rs,                *)
(* manual_question.rs).                                                     *)
THEOREM CommandsImplementLedger == AssistantSpec => SpendingSpec
<1>1. AssistantInit => SpendingInit
  BY DEF AssistantInit
<1>2. [AssistantNext]_assistantVars => [SpendingNext]_spendingVars
  <2> SUFFICES ASSUME [AssistantNext]_assistantVars PROVE [SpendingNext]_spendingVars
    OBVIOUS
  <2>1. ASSUME NEW c \in Commands, Ask(c) PROVE SpendingNext
    BY <2>1 DEF Ask, SpendingNext
  <2>2. ASSUME NEW c \in Commands, Course(c) PROVE SpendingNext
    BY <2>2 DEF Course, SpendingNext
  <2>3. ASSUME NEW c \in Commands, RecordUsage(c) PROVE SpendingNext
    BY <2>3 DEF RecordUsage, SpendingNext
  <2>4. ASSUME NEW c \in Commands, CountBatch(c) \/ Answer(c) \/ WriteSummary(c) PROVE SpendingNext
    BY <2>4 DEF CountBatch, Answer, WriteSummary, SpendingNext
  <2>5. CASE Quarantine
    BY <2>5 DEF Quarantine
  <2>6. CASE Crash
    BY <2>6 DEF Crash, SpendingNext
  <2>7. CASE UNCHANGED assistantVars
    BY <2>7 DEF assistantVars
  <2> QED
    BY <2>1, <2>2, <2>3, <2>4, <2>5, <2>6, <2>7 DEF AssistantNext
<1> QED
  BY <1>1, <1>2, PTL DEF AssistantSpec, SpendingSpec

(* Concurrent summaries, insights and questions together keep to the        *)
(* session's limit, whatever is retried, repaired, cancelled or lost.       *)
THEOREM CommandsKeepLimit == AssistantSpec => []LimitKept
BY LedgerKeepsLimit, CommandsImplementLedger, PTL

----------------------------------------------------------------------------
(* What the provider may have charged.  A request that is under way may     *)
(* still be charged up to its ceiling, and its reservation is of that       *)
(* amount.  The sum of the open ceilings is the number of their units.      *)

UnderWay(c) == call[c].at \in {"send", "stream"}

OpenOf(c) == IF UnderWay(c) THEN call[c].cost ELSE 0

UnitsOf(amount) == UNION {{c} \X (1 .. amount[c]) : c \in Commands}

OpenUnits == UnitsOf([c \in Commands |-> OpenOf(c)])

ReservedInFull == \A c \in Commands : UnderWay(c) => \A r \in PendingOf(c) : r.cost = call[c].cost

BillInv ==
  /\ LedgerInv
  /\ billed \in Nat /\ overrun \in Nat
  /\ ReservedInFull
  /\ IsFiniteSet(OpenUnits)
  /\ billed + Cardinality(OpenUnits) <= ledger.spent + ledger.reserved + overrun

(* As many units as the ceiling says.                                       *)
LEMMA UnitsOfOne ==
  ASSUME NEW c, NEW n \in Nat
  PROVE  IsFiniteSet({c} \X (1 .. n)) /\ Cardinality({c} \X (1 .. n)) = n
<1>1. IsFiniteSet(1 .. n) /\ Cardinality(1 .. n) = n
  BY FS_Interval, SMTT(30)
<1>2. IsFiniteSet({c}) /\ Cardinality({c}) = 1
  BY FS_Singleton
<1>3. IsFiniteSet({c} \X (1 .. n)) /\ Cardinality({c} \X (1 .. n)) = Cardinality({c}) * Cardinality(1 .. n)
  BY <1>1, <1>2, FS_Product
<1> QED
  BY <1>1, <1>2, <1>3

(* Sets that have nothing in common are counted separately.                  *)
LEMMA DisjointCount ==
  ASSUME NEW S, NEW T, IsFiniteSet(S), IsFiniteSet(T), S \cap T = {}
  PROVE  IsFiniteSet(S \cup T) /\ Cardinality(S \cup T) = Cardinality(S) + Cardinality(T)
<1>1. IsFiniteSet(S \cup T)
      /\ Cardinality(S \cup T) = Cardinality(S) + Cardinality(T) - Cardinality(S \cap T)
  BY FS_Union
<1>2. Cardinality(S) \in Nat /\ Cardinality(T) \in Nat /\ Cardinality(S \cap T) = 0
  BY FS_CardinalityType, FS_EmptySet
<1> QED
  BY <1>1, <1>2

(* Nothing owed is no units.                                                 *)
LEMMA NoUnits ==
  ASSUME NEW f, \A c \in Commands : f[c] = 0
  PROVE  UnitsOf(f) = {}
BY DEF UnitsOf

(* Where one command's amount changes, only its units do.                   *)
LEMMA UnitsChange ==
  ASSUME NEW f \in [Commands -> Nat], NEW g \in [Commands -> Nat], NEW c \in Commands,
         \A d \in Commands : d # c => g[d] = f[d], IsFiniteSet(UnitsOf(f))
  PROVE  /\ IsFiniteSet(UnitsOf(g)) /\ Cardinality(UnitsOf(f)) \in Nat /\ Cardinality(UnitsOf(g)) \in Nat
         /\ Cardinality(UnitsOf(g)) + f[c] = Cardinality(UnitsOf(f)) + g[c]
<1> DEFINE rest == {u \in UnitsOf(f) : u[1] # c}
           mine == {c} \X (1 .. f[c])
           next == {c} \X (1 .. g[c])
<1>1. UnitsOf(f) = rest \cup mine
  BY DEF UnitsOf
<1>2. UnitsOf(g) = rest \cup next
  BY DEF UnitsOf
<1>3. rest \cap mine = {} /\ rest \cap next = {}
  OBVIOUS
<1>4. /\ IsFiniteSet(mine) /\ Cardinality(mine) = f[c] /\ IsFiniteSet(next) /\ Cardinality(next) = g[c]
  BY UnitsOfOne
<1>5. IsFiniteSet(rest)
  BY FS_Subset
<1>6. Cardinality(rest) \in Nat /\ f[c] \in Nat /\ g[c] \in Nat
  BY <1>5, FS_CardinalityType
<1> HIDE DEF rest, mine, next
<1>7. Cardinality(rest \cup mine) = Cardinality(rest) + Cardinality(mine)
  BY <1>3, <1>4, <1>5, DisjointCount
<1>8. /\ IsFiniteSet(rest \cup next)
      /\ Cardinality(rest \cup next) = Cardinality(rest) + Cardinality(next)
  BY <1>3, <1>4, <1>5, DisjointCount
<1>9. Cardinality(UnitsOf(f)) = Cardinality(rest) + f[c]
  BY <1>1, <1>4, <1>7
<1>10. IsFiniteSet(UnitsOf(g)) /\ Cardinality(UnitsOf(g)) = Cardinality(rest) + g[c]
  BY <1>2, <1>4, <1>8
<1> QED
  BY <1>6, <1>9, <1>10

(* The step of one command, by what it charges, settles and opens.          *)
LEMMA BillStep ==
  ASSUME BillInv, LedgerInv', NEW c \in Commands,
         \A d \in Commands : d # c => call'[d] = call[d],
         \A r \in pending' : r \in pending \/ r.id = RequestOf(c)',
         UnderWay(c)' => \A r \in PendingOf(c)' : r.cost = call'[c].cost,
         NEW amount \in Nat, NEW over \in Nat, Charge(amount, over),
         amount + OpenOf(c)' + ledger.spent + ledger.reserved
           <= OpenOf(c) + ledger'.spent + ledger'.reserved
  PROVE  BillInv'
<1>1. call' \in [Commands -> Calls] /\ LedgerType
  BY DEF LedgerInv, LedgerType, BillInv
<1>2. /\ IsFiniteSet(OpenUnits') /\ Cardinality(OpenUnits) \in Nat /\ Cardinality(OpenUnits') \in Nat
      /\ OpenOf(c) \in Nat /\ OpenOf(c)' \in Nat
      /\ Cardinality(OpenUnits') + OpenOf(c) = Cardinality(OpenUnits) + OpenOf(c)'
  <2>1. PICK f, g : f = [d \in Commands |-> OpenOf(d)] /\ g = [d \in Commands |-> OpenOf(d)']
    OBVIOUS
  <2>2. \A d \in Commands : OpenOf(d) \in Nat /\ OpenOf(d)' \in Nat
    BY <1>1 DEF OpenOf, LedgerType, Calls
  <2>3. f \in [Commands -> Nat] /\ g \in [Commands -> Nat] /\ f[c] = OpenOf(c) /\ g[c] = OpenOf(c)'
    BY <2>1, <2>2
  <2>4. \A d \in Commands : d # c => g[d] = f[d]
    BY <2>1 DEF OpenOf, UnderWay
  <2>5. OpenUnits = UnitsOf(f) /\ OpenUnits' = UnitsOf(g)
    BY <2>1 DEF OpenUnits, UnitsOf
  <2> QED
    BY <2>2, <2>3, <2>4, <2>5, UnitsChange DEF BillInv
<1>3. /\ ledger.spent \in Nat /\ ledger.reserved \in Nat /\ ledger'.spent \in Nat /\ ledger'.reserved \in Nat
      /\ billed \in Nat /\ overrun \in Nat
  BY DEF BillInv, LedgerInv, LedgerType, Ledgers
<1>4. billed' = billed + amount + over /\ overrun' = overrun + over
  BY DEF Charge
<1>5. billed' + Cardinality(OpenUnits') <= ledger'.spent + ledger'.reserved + overrun'
  BY <1>2, <1>3, <1>4 DEF BillInv
<1>6. ReservedInFull'
  <2> SUFFICES ASSUME NEW d \in Commands, d # c, UnderWay(d)', NEW r \in PendingOf(d)'
               PROVE  r.cost = call'[d].cost
    BY DEF ReservedInFull
  <2>1. call'[d] = call[d] /\ r \in pending' /\ r.id = RequestOf(d)' /\ RequestOf(d)' = RequestOf(d)
    BY DEF PendingOf, RequestOf
  <2>2. RequestOf(d)' # RequestOf(c)'
    BY DEF RequestOf
  <2>3. r \in PendingOf(d) /\ UnderWay(d)
    BY <2>1, <2>2 DEF PendingOf, UnderWay
  <2> QED
    BY <2>1, <2>3 DEF BillInv, ReservedInFull
<1> QED
  BY <1>2, <1>3, <1>4, <1>5, <1>6 DEF BillInv

(* The settlement of a request frees what was reserved for it.              *)
LEMMA SettledInFull ==
  ASSUME BillInv, NEW c \in Commands, UnderWay(c), NEW actual \in Nat, Settle(c, actual)
  PROVE  /\ ledger'.spent = ledger.spent + actual /\ ledger'.reserved = ledger.reserved - call[c].cost
         /\ pending' \subseteq pending /\ actual <= call[c].cost
         /\ OpenOf(c) = call[c].cost /\ call[c].cost \in Nat /\ call[c].cost <= ledger.reserved
         /\ ledger.spent \in Nat /\ ledger.reserved \in Nat
<1>1. PICK r \in PendingOf(c) :
        /\ actual <= r.cost /\ r.cost <= ledger.reserved
        /\ ledger' = [spent |-> ledger.spent + actual, reserved |-> ledger.reserved - r.cost,
                      count |-> ledger.count - 1]
        /\ pending' = pending \ {r}
  BY DEF Settle
<1>2. r.cost = call[c].cost
  BY DEF BillInv, ReservedInFull
<1> QED
  BY <1>1, <1>2 DEF OpenOf, BillInv, LedgerInv, LedgerType, Ledgers, Calls

(* Where a call is after a request: it goes on, ends or waits.              *)
LEMMA CallLeaves ==
  ASSUME LedgerType, NEW c \in Commands
  PROVE  /\ \A place \in Places : Goto(c, place) =>
              call'[c].at = place /\ call'[c].cost = call[c].cost /\ \A d \in Commands : d # c => call'[d] = call[d]
         /\ Return(c) => call'[c].at = "idle" /\ \A d \in Commands : d # c => call'[d] = call[d]
         /\ \A kept \in BOOLEAN : Failed(c, kept) =>
              call'[c].at \in {"idle", "wait"} /\ \A d \in Commands : d # c => call'[d] = call[d]
         /\ \A n \in Nat, b \in BOOLEAN : Again(c, n, b) =>
              call'[c].at = "reserve" /\ \A d \in Commands : d # c => call'[d] = call[d]
<1> DEFINE Others == \A d \in Commands : d # c => call'[d] = call[d]
<1>1. call \in [Commands -> Calls]
  BY DEF LedgerType
<1>2. ASSUME NEW place, Goto(c, place)
      PROVE  call'[c].at = place /\ call'[c].cost = call[c].cost /\ Others
  BY <1>1, <1>2 DEF Goto, Calls
<1>3. ASSUME Return(c) PROVE call'[c].at = "idle" /\ Others
  BY <1>1, <1>3 DEF Return, Calls
<1>4. ASSUME NEW n, NEW b, Again(c, n, b) PROVE call'[c].at = "reserve" /\ Others
  BY <1>1, <1>4 DEF Again, Calls
<1> QED
  BY <1>2, <1>3, <1>4 DEF Failed

(* A step outside the requests: nothing is charged, nothing is reserved.    *)
LEMMA BillUntouched ==
  ASSUME BillInv, LedgerInv', NEW c \in Commands, ~UnderWay(c), ~UnderWay(c)',
         \A d \in Commands : d # c => call'[d] = call[d], UNCHANGED <<ledgerVars, billVars>>
  PROVE  BillInv'
<1>1. UNCHANGED <<ledger, pending, billed, overrun>>
  BY DEF ledgerVars, billVars
<1>2. Charge(0, 0) /\ OpenOf(c) = 0 /\ OpenOf(c)' = 0
  BY <1>1 DEF Charge, OpenOf, BillInv
<1>3. ledger.spent \in Nat /\ ledger.reserved \in Nat
  BY DEF BillInv, LedgerInv, LedgerType, Ledgers
<1> QED
  BY <1>1, <1>2, <1>3, BillStep

(* Sending a request opens no more than was reserved.                        *)
LEMMA BillSend ==
  ASSUME BillInv, LedgerInv', NEW c \in Commands, Send(c)
  PROVE  BillInv'
<1>1. UnderWay(c) /\ LedgerType /\ OpenOf(c) = call[c].cost /\ call[c].cost \in Nat
  BY DEF Send, UnderWay, At, BillInv, LedgerInv, LedgerType, OpenOf, Calls
<1>2. /\ ledger.spent \in Nat /\ ledger.reserved \in Nat /\ ledger'.spent \in Nat /\ ledger'.reserved \in Nat
  BY DEF BillInv, LedgerInv, LedgerType, Ledgers
<1>3. CASE Release(c) /\ (Return(c) \/ Failed(c, FALSE)) /\ NoCharge
  <2>1. /\ ledger'.spent = ledger.spent /\ ledger'.reserved = ledger.reserved - call[c].cost
        /\ pending' \subseteq pending /\ call[c].cost <= ledger.reserved
    BY <1>1, <1>2, <1>3, SettledInFull DEF Release
  <2>2. call'[c].at \in {"idle", "wait"} /\ \A d \in Commands : d # c => call'[d] = call[d]
    BY <1>1, <1>3, CallLeaves
  <2>3. ~UnderWay(c)' /\ OpenOf(c)' = 0
    BY <2>2 DEF UnderWay, OpenOf
  <2> QED
    BY <1>1, <1>2, <1>3, <2>1, <2>2, <2>3, BillStep DEF NoCharge
<1>4. CASE UNCHANGED ledgerVars /\ Failed(c, TRUE) /\ \E amount \in 0..call[c].cost : Charge(amount, 0)
  <2>1. PICK amount \in 0..call[c].cost : Charge(amount, 0)
    BY <1>4
  <2>2. call'[c].at \in {"idle", "wait"} /\ \A d \in Commands : d # c => call'[d] = call[d]
    BY <1>1, <1>4, CallLeaves
  <2>3. ~UnderWay(c)' /\ OpenOf(c)' = 0 /\ ledger' = ledger /\ pending' = pending
    BY <1>4, <2>2 DEF UnderWay, OpenOf, ledgerVars
  <2>4. amount \in Nat /\ amount <= call[c].cost
    BY <1>1, <2>1
  <2> QED
    BY <1>1, <1>2, <2>1, <2>2, <2>3, <2>4, BillStep
<1>5. CASE UNCHANGED ledgerVars /\ Goto(c, "stream") /\ NoCharge
  <2>1. /\ call'[c].at = "stream" /\ call'[c].cost = call[c].cost
        /\ \A d \in Commands : d # c => call'[d] = call[d]
    BY <1>1, <1>5, CallLeaves DEF Places
  <2>2. OpenOf(c)' = call[c].cost /\ ledger' = ledger /\ pending' = pending
    BY <1>5, <2>1 DEF UnderWay, OpenOf, ledgerVars
  <2>3. call'[c].id = call[c].id
    BY <1>1, <1>5 DEF LedgerType, Calls, Goto
  <2>4. \A r \in PendingOf(c)' : r.cost = call'[c].cost
    BY <1>1, <2>1, <2>2, <2>3 DEF PendingOf, RequestOf, BillInv, ReservedInFull
  <2> QED
    BY <1>1, <1>2, <1>5, <2>1, <2>2, <2>4, BillStep DEF NoCharge
<1> QED
  BY <1>3, <1>4, <1>5 DEF Send

(* The requests whose stream ends.                                          *)
LEMMA BillStream ==
  ASSUME BillInv, LedgerInv', NEW c \in Commands, Break(c) \/ Exceed(c) \/ Finish(c)
  PROVE  BillInv'
<1>1. UnderWay(c) /\ LedgerType /\ OpenOf(c) = call[c].cost /\ call[c].cost \in Nat
  BY DEF Break, Exceed, Finish, UnderWay, At, BillInv, LedgerInv, LedgerType, OpenOf, Calls
<1>2. /\ ledger.spent \in Nat /\ ledger.reserved \in Nat /\ ledger'.spent \in Nat /\ ledger'.reserved \in Nat
  BY DEF BillInv, LedgerInv, LedgerType, Ledgers
<1>3. CASE Break(c) \/ Exceed(c)
  <2>1. PICK amount \in Nat, over \in Nat : amount <= call[c].cost /\ Charge(amount, over)
    <3>1. CASE Break(c)
      <4>1. PICK amount \in 0..call[c].cost : Charge(amount, 0)
        BY <3>1 DEF Break
      <4> QED
        BY <1>1, <4>1
    <3>2. CASE Exceed(c)
      BY <1>1, <3>2 DEF Exceed
    <3> QED
      BY <1>3, <3>1, <3>2
  <2>2. Failed(c, TRUE) /\ UNCHANGED ledgerVars
    BY <1>3 DEF Break, Exceed
  <2>3. call'[c].at \in {"idle", "wait"} /\ \A d \in Commands : d # c => call'[d] = call[d]
    BY <1>1, <2>2, CallLeaves
  <2>4. ~UnderWay(c)' /\ OpenOf(c)' = 0 /\ ledger' = ledger /\ pending' = pending
    BY <2>2, <2>3 DEF UnderWay, OpenOf, ledgerVars
  <2> QED
    BY <1>1, <1>2, <2>1, <2>3, <2>4, BillStep
<1>4. CASE Finish(c)
  <2>1. PICK amount \in 0..call[c].cost :
          /\ Charge(amount, 0) /\ Settle(c, amount)
          /\ call' = [call EXCEPT ![c].at = "record", ![c].due = amount]
    BY <1>4 DEF Finish
  <2>2. amount \in Nat
    BY <1>1, <2>1
  <2>3. /\ ledger'.spent = ledger.spent + amount /\ ledger'.reserved = ledger.reserved - call[c].cost
        /\ pending' \subseteq pending /\ call[c].cost <= ledger.reserved
    BY <1>1, <2>1, <2>2, SettledInFull
  <2>4. call'[c].at = "record" /\ \A d \in Commands : d # c => call'[d] = call[d]
    BY <1>1, <2>1 DEF LedgerType, Calls
  <2>5. ~UnderWay(c)' /\ OpenOf(c)' = 0
    BY <2>4 DEF UnderWay, OpenOf
  <2>6. Charge(amount, 0) /\ 0 \in Nat
    BY <2>1
  <2>7. amount + OpenOf(c)' + ledger.spent + ledger.reserved
          <= OpenOf(c) + ledger'.spent + ledger'.reserved
    BY <1>1, <1>2, <2>2, <2>3, <2>5
  <2> QED
    BY <2>2, <2>3, <2>4, <2>5, <2>6, <2>7, BillStep
<1> QED
  BY <1>3, <1>4

(* A request is admitted with a reservation of its ceiling.                 *)
LEMMA BillAdmit ==
  ASSUME BillInv, LedgerInv', NEW c \in Commands, Admit(c)
  PROVE  BillInv'
<1>1. ~UnderWay(c) /\ LedgerType /\ OpenOf(c) = 0 /\ call[c].cost \in Nat /\ UNCHANGED billVars
  BY DEF Admit, UnderWay, At, BillInv, LedgerInv, LedgerType, OpenOf, Calls
<1>2. /\ ledger.spent \in Nat /\ ledger.reserved \in Nat /\ ledger'.spent \in Nat /\ ledger'.reserved \in Nat
  BY DEF BillInv, LedgerInv, LedgerType, Ledgers
<1>3. CASE Reserve(c) /\ Goto(c, "send")
  <2>1. /\ call'[c].at = "send" /\ call'[c].cost = call[c].cost
        /\ \A d \in Commands : d # c => call'[d] = call[d]
    BY <1>1, <1>3, CallLeaves DEF Places
  <2>2. call'[c].id = call[c].id /\ RequestOf(c)' = RequestOf(c)
    BY <1>1, <1>3 DEF LedgerType, Calls, Goto, RequestOf
  <2>3. PICK r : r = [id |-> RequestOf(c), cost |-> call[c].cost]
    OBVIOUS
  <2>4. pending' = pending \cup {r} /\ r.id = RequestOf(c)' /\ r.cost = call[c].cost /\ PendingOf(c) = {}
    BY <1>3, <2>2, <2>3 DEF Reserve
  <2>5. ledger'.spent = ledger.spent /\ ledger'.reserved = ledger.reserved + call[c].cost
    BY <1>1, <1>3 DEF Reserve, LedgerType, Ledgers
  <2>6. OpenOf(c)' = call[c].cost
    BY <2>1 DEF UnderWay, OpenOf
  <2>7. \A q \in PendingOf(c)' : q.cost = call'[c].cost
    BY <2>1, <2>2, <2>4 DEF PendingOf
  <2>8. Charge(0, 0)
    BY <1>1 DEF Charge, billVars, BillInv
  <2> QED
    BY <1>1, <1>2, <2>1, <2>4, <2>5, <2>6, <2>7, <2>8, BillStep
<1>4. CASE Return(c) /\ UNCHANGED ledgerVars
  <2>1. call'[c].at = "idle" /\ \A d \in Commands : d # c => call'[d] = call[d]
    BY <1>1, <1>4, CallLeaves
  <2> QED
    BY <1>1, <1>4, <2>1, BillUntouched DEF UnderWay
<1> QED
  BY <1>3, <1>4 DEF Admit

(* Steps that neither open nor settle.                                       *)
LEMMA BillElsewhere ==
  ASSUME BillInv, LedgerInv', NEW c \in Commands,
         Begin(c) \/ Record(c) \/ Wait(c) \/ Validate(c) \/ Deliver(c) \/ Cancel(c)
  PROVE  BillInv'
<1>1. LedgerType
  BY DEF BillInv, LedgerInv
<1>2. CASE Cancel(c)
  <2>1. UNCHANGED <<ledger, pending, call, billed, overrun>>
    BY <1>2 DEF Cancel, ledgerVars, billVars
  <2>2. UNCHANGED OpenUnits /\ UNCHANGED ReservedInFull
    BY <2>1 DEF OpenUnits, UnitsOf, OpenOf, UnderWay, ReservedInFull, PendingOf, RequestOf
  <2> QED
    BY <2>1, <2>2 DEF BillInv
<1>3. CASE Begin(c)
  <2>1. call'[c].at = "reserve" /\ \A d \in Commands : d # c => call'[d] = call[d]
    <3>1. PICK cost \in Costs :
            call' = [call EXCEPT ![c].at = "reserve", ![c].id = @ + 1, ![c].first = call[c].id + 1,
                                 ![c].attempt = 1, ![c].repair = FALSE, ![c].cost = cost]
      BY <1>3 DEF Begin
    <3> QED
      BY <1>1, <3>1 DEF LedgerType, Calls
  <2> QED
    BY <1>3, <2>1, BillUntouched DEF Begin, UnderWay, At
<1>4. CASE Record(c) \/ Wait(c) \/ Validate(c) \/ Deliver(c)
  <2>1. \A n \in Nat : n + 1 \in Nat
    OBVIOUS
  <2>2. call[c].attempt \in Nat /\ {"validate", "deliver"} \subseteq Places
    BY <1>1 DEF LedgerType, Calls, Places
  <2>3. /\ call'[c].at \in {"reserve", "idle", "wait", "validate", "deliver"}
        /\ \A d \in Commands : d # c => call'[d] = call[d]
    <3>1. CASE Record(c)
      BY <1>1, <2>2, <3>1, CallLeaves DEF Record
    <3>2. CASE Wait(c)
      BY <1>1, <2>1, <2>2, <3>2, CallLeaves DEF Wait
    <3>3. CASE Validate(c)
      BY <1>1, <2>2, <3>3, CallLeaves DEF Validate
    <3>4. CASE Deliver(c)
      BY <1>1, <2>2, <3>4, CallLeaves DEF Deliver
    <3> QED
      BY <1>4, <3>1, <3>2, <3>3, <3>4
  <2>4. ~UnderWay(c) /\ ~UnderWay(c)' /\ UNCHANGED <<ledgerVars, billVars>>
    BY <1>4, <2>3 DEF Record, Wait, Validate, Deliver, UnderWay, At
  <2> QED
    BY <2>3, <2>4, BillUntouched
<1> QED
  BY <1>2, <1>3, <1>4

(* The bill of a process: what is charged is covered by what the ledger      *)
(* holds as spent or reserved, for any number of concurrent commands and     *)
(* any ceilings, retries, repairs and cancellations (llm/completion.rs,      *)
(* llm/budget.rs).                                                           *)
THEOREM BillIsCovered == SpendingSpec => []BillCovered
<1>1. SpendingInit /\ LedgerInv => BillInv
  <2> SUFFICES ASSUME SpendingInit, LedgerInv PROVE BillInv
    OBVIOUS
  <2>1. \A c \in Commands : ~UnderWay(c)
    BY DEF SpendingInit, UnderWay
  <2>2. OpenUnits = {}
    BY <2>1, NoUnits DEF OpenUnits, OpenOf
  <2>3. IsFiniteSet(OpenUnits) /\ Cardinality(OpenUnits) = 0
    BY <2>2, FS_EmptySet
  <2>4. billed = 0 /\ overrun = 0 /\ ledger.spent = 0 /\ ledger.reserved = 0
    BY DEF SpendingInit, EmptyLedger
  <2> QED
    BY <2>1, <2>3, <2>4 DEF BillInv, ReservedInFull
<1>2. BillInv /\ LedgerInv' /\ [SpendingNext]_spendingVars => BillInv'
  <2> SUFFICES ASSUME BillInv, LedgerInv', [SpendingNext]_spendingVars PROVE BillInv'
    OBVIOUS
  <2>1. CASE Restart
    <3>1. /\ ledger' = EmptyLedger /\ pending' = {} /\ billed' = 0 /\ overrun' = 0
          /\ \A c \in Commands : call'[c].at = "idle"
      BY <2>1 DEF Restart, BillInv, LedgerInv, LedgerType, Calls
    <3>2. \A c \in Commands : ~UnderWay(c)'
      BY <3>1 DEF UnderWay
    <3>3. OpenUnits' = {}
      BY <3>2, NoUnits DEF OpenUnits, OpenOf
    <3>4. IsFiniteSet(OpenUnits') /\ Cardinality(OpenUnits') = 0
      BY <3>3, FS_EmptySet
    <3>5. ledger'.spent = 0 /\ ledger'.reserved = 0
      BY <3>1 DEF EmptyLedger
    <3> QED
      BY <3>1, <3>2, <3>4, <3>5 DEF BillInv, ReservedInFull
  <2>2. CASE UNCHANGED spendingVars
    <3>1. UNCHANGED <<ledger, pending, call, billed, overrun>>
      BY <2>2 DEF spendingVars, ledgerVars, billVars
    <3>2. UNCHANGED OpenUnits /\ UNCHANGED ReservedInFull
      BY <3>1 DEF OpenUnits, UnitsOf, OpenOf, UnderWay, ReservedInFull, PendingOf, RequestOf
    <3> QED
      BY <3>1, <3>2 DEF BillInv
  <2> QED
    BY <2>1, <2>2, BillSend, BillStream, BillAdmit, BillElsewhere DEF SpendingNext
<1>3. BillInv => BillCovered
  <2> SUFFICES ASSUME BillInv PROVE billed <= ledger.spent + ledger.reserved + overrun
    BY DEF BillCovered
  <2>1. Cardinality(OpenUnits) \in Nat
    BY FS_CardinalityType DEF BillInv
  <2> QED
    BY <2>1 DEF BillInv, LedgerInv, LedgerType, Ledgers
<1> QED
  BY <1>1, <1>2, <1>3, LedgerInvariant, PTL DEF SpendingSpec

(* The commands' bill is covered as the ledger's is.                         *)
THEOREM CommandsCoverBill == AssistantSpec => []BillCovered
BY BillIsCovered, CommandsImplementLedger, PTL

----------------------------------------------------------------------------
(* The summary of a session.                                                *)

SummaryFiles == [doc : SUBSET Nat, backup : SUBSET Nat, temp : SUBSET Nat]

SummaryInv == answered \in Nat /\ summary \in SummaryFiles /\ SummaryKept

(* What can be read after a crash or a failure in the middle. *)
Readable(f, least) == \E k \in f.doc \cup {b \in f.backup : f.doc = {}} : k >= least

(* A published summary is in its place.                                      *)
LEMMA PublishedSummary ==
  ASSUME NEW f \in SummaryFiles, NEW n \in Nat
  PROVE  Published(f, n) \in SummaryFiles /\ Published(f, n).doc = {n}
BY DEF SummaryFiles, Published

(* The files after every step of a publication hold the old summary, or the *)
(* new one.                                                                 *)
LEMMA EveryStepReadable ==
  ASSUME NEW f \in SummaryFiles, NEW n \in Nat, NEW least \in Nat, least <= n,
         NEW g \in Steps(f, n)
  PROVE  g \in SummaryFiles /\ (Readable(f, least) => Readable(g, least))
<1>2. CASE g = f
  BY <1>2
<1>3. CASE g = [f EXCEPT !.temp = {n}]
  <2>1. g \in SummaryFiles /\ g.doc = f.doc /\ g.backup = f.backup
    BY <1>3 DEF SummaryFiles
  <2> QED
    BY <2>1 DEF Readable
<1>4. CASE g = Published(f, n)
  BY <1>4, PublishedSummary DEF Readable
<1>5. CASE f.doc # {} /\ g = [f EXCEPT !.temp = {n}, !.backup = {}]
  <2>1. g \in SummaryFiles /\ g.doc = f.doc
    BY <1>5 DEF SummaryFiles
  <2> QED
    BY <1>5, <2>1 DEF Readable
<1>6. CASE f.doc # {} /\ g = [doc |-> {}, backup |-> f.doc, temp |-> {n}]
  <2>1. g \in SummaryFiles /\ g.doc = {} /\ g.backup = f.doc
    BY <1>6 DEF SummaryFiles
  <2> QED
    BY <1>6, <2>1 DEF Readable
<1> QED
  BY <1>2, <1>3, <1>4, <1>5, <1>6 DEF Steps

(* A publication that stops anywhere leaves the old summary or the new one.  *)
LEMMA PublicationKeeps ==
  ASSUME SummaryInv, NEW g \in Steps(summary, answered + 1), UNCHANGED answered,
         summary' = g \/ summary' = [g EXCEPT !.temp = {}]
  PROVE  SummaryInv'
<1>1. PICK f, least : f = summary /\ least = answered
  OBVIOUS
<1>2. f \in SummaryFiles /\ least \in Nat
  BY <1>1 DEF SummaryInv
<1>3. least > 0 => Readable(f, least)
  BY <1>1 DEF SummaryInv, SummaryKept, Readable
<1>4. g \in SummaryFiles /\ (Readable(f, least) => Readable(g, least))
  <2>1. g \in Steps(f, least + 1) /\ least + 1 \in Nat /\ least <= least + 1
    BY <1>1, <1>2
  <2> QED
    BY <1>2, <2>1, EveryStepReadable
<1>5. least > 0 => Readable(g, least)
  BY <1>3, <1>4
<1>6. summary' \in SummaryFiles /\ summary'.doc = g.doc /\ summary'.backup = g.backup
  BY <1>4 DEF SummaryFiles
<1>7. answered' = least
  BY <1>1
<1> QED
  BY <1>2, <1>5, <1>6, <1>7 DEF SummaryInv, SummaryKept, Readable

(* A summary that was answered stays readable, or a newer one does, for any  *)
(* number of commands, failed publications and crashes between the file      *)
(* operations of one (write_summary).                                        *)
THEOREM SummariesStay == AssistantSpec => []SummaryKept
<1>1. AssistantInit => SummaryInv
  BY DEF AssistantInit, SummaryInv, SummaryKept, NoSummary, SummaryFiles
<1>2. SummaryInv /\ [AssistantNext]_assistantVars => SummaryInv'
  <2> SUFFICES ASSUME SummaryInv, [AssistantNext]_assistantVars PROVE SummaryInv'
    OBVIOUS
  <2>1. CASE UNCHANGED summaryVars
    BY <2>1 DEF summaryVars, SummaryInv, SummaryKept
  <2>2. ASSUME NEW c \in Commands, WriteSummary(c) PROVE SummaryInv'
    <3>1. CASE summary' = Published(summary, answered + 1) /\ answered' = answered + 1
      <4>1. answered' \in Nat
        BY <3>1 DEF SummaryInv
      <4>2. summary' \in SummaryFiles /\ summary'.doc = {answered'}
        BY <3>1, <4>1, PublishedSummary DEF SummaryInv
      <4> QED
        BY <4>1, <4>2 DEF SummaryInv, SummaryKept
    <3>2. CASE UNCHANGED answered /\ \E f \in Steps(summary, answered + 1) : summary' = [f EXCEPT !.temp = {}]
      BY <3>2, PublicationKeeps
    <3> QED
      BY <2>2, <3>1, <3>2 DEF WriteSummary
  <2>3. CASE Crash
    <3>1. UNCHANGED answered /\ (summary' = summary \/ summary' \in Steps(summary, answered + 1))
      BY <2>3 DEF Crash
    <3> QED
      BY <2>1, <3>1, PublicationKeeps DEF summaryVars
  <2>4. ASSUME NEW c \in Commands,
               Ask(c) \/ Course(c) \/ RecordUsage(c) \/ CountBatch(c) \/ Answer(c)
        PROVE  UNCHANGED summaryVars
    BY <2>4 DEF Ask, Course, RecordUsage, CountBatch, Answer
  <2>5. CASE Quarantine \/ UNCHANGED assistantVars
    BY <2>1, <2>5 DEF Quarantine, assistantVars
  <2> QED
    BY <2>1, <2>2, <2>3, <2>4, <2>5 DEF AssistantNext
<1>3. SummaryInv => SummaryKept
  BY DEF SummaryInv
<1> QED
  BY <1>1, <1>2, <1>3, PTL DEF AssistantSpec

----------------------------------------------------------------------------
(* The dashboard.  A cost is settled, recorded and forgotten with the       *)
(* identifier of its request, which no other request ever has.              *)

Engaged == {"reserve", "send", "stream", "record"}

RowUnits(rows) == UNION {{row.id} \X (1 .. row.cost) : row \in rows}

(* A row belongs to a request that is over and settled. *)
RecordedRow(row) ==
  /\ row.cost \in Nat
  /\ \E d \in Commands, k \in Nat :
       row.id = <<d, k>> /\ (k < call[d].id \/ (k = call[d].id /\ call[d].at \notin Engaged))

UsageInv ==
  /\ LedgerInv /\ UsageCounted
  /\ lost \in Nat /\ earlier \in Nat
  /\ \A c \in Commands : call[c].due # 0 => call[c].at = "record"
  /\ \A row \in usage : RecordedRow(row)
  /\ IsFiniteSet(RowUnits(usage)) /\ IsFiniteSet(UnitsOf([c \in Commands |-> call[c].due]))

(* What is not yet recorded is counted by units of the commands.             *)
LEMMA UnrecordedUnits == Unrecorded = Cardinality(UnitsOf([c \in Commands |-> call[c].due]))
<1>1. UnitsOf([c \in Commands |-> call[c].due]) = UNION {{c} \X (1 .. call[c].due) : c \in Commands}
  BY DEF UnitsOf
<1> QED
  BY <1>1 DEF Unrecorded

(* The sum of the rows is the count of their units, and it balances.         *)
LEMMA UsageFacts ==
  ASSUME UsageInv
  PROVE  /\ CostOf(usage) = Cardinality(RowUnits(usage)) /\ CostOf(usage) \in Nat /\ Unrecorded \in Nat
         /\ ledger.spent \in Nat /\ lost \in Nat /\ earlier \in Nat
         /\ CostOf(usage) + Unrecorded + lost = ledger.spent + earlier
         /\ \A c \in Commands : call[c].id \in Nat /\ call[c].due \in Nat
<1>1. CostOf(usage) = Cardinality(RowUnits(usage))
  BY DEF CostOf, RowUnits
<1> QED
  BY <1>1, UnrecordedUnits, FS_CardinalityType
     DEF UsageInv, UsageCounted, LedgerInv, LedgerType, Ledgers, Calls

(* What one command's step does to what is settled and not recorded.        *)
LEMMA UnrecordedChange ==
  ASSUME UsageInv, LedgerInv', NEW c \in Commands, \A d \in Commands : d # c => call'[d] = call[d]
  PROVE  /\ IsFiniteSet(UnitsOf([d \in Commands |-> call'[d].due])) /\ Unrecorded' \in Nat
         /\ call'[c].due \in Nat
         /\ Unrecorded' + call[c].due = Unrecorded + call'[c].due
<1>1. PICK f, g : f = [d \in Commands |-> call[d].due] /\ g = [d \in Commands |-> call'[d].due]
  OBVIOUS
<1>2. f \in [Commands -> Nat] /\ g \in [Commands -> Nat] /\ f[c] = call[c].due /\ g[c] = call'[c].due
  BY <1>1 DEF UsageInv, LedgerInv, LedgerType, Calls
<1>3. \A d \in Commands : d # c => g[d] = f[d]
  BY <1>1
<1>4. Unrecorded = Cardinality(UnitsOf(f)) /\ Unrecorded' = Cardinality(UnitsOf(g))
  <2>1. Unrecorded' = Cardinality(UnitsOf([d \in Commands |-> call'[d].due]))
    <3>1. UnitsOf([d \in Commands |-> call'[d].due]) = UNION {{d} \X (1 .. call'[d].due) : d \in Commands}
      BY DEF UnitsOf
    <3> QED
      BY <3>1 DEF Unrecorded
  <2> QED
    BY <1>1, <2>1, UnrecordedUnits
<1>5. IsFiniteSet(UnitsOf(f))
  BY <1>1 DEF UsageInv
<1>6. /\ IsFiniteSet(UnitsOf(g)) /\ Cardinality(UnitsOf(f)) \in Nat /\ Cardinality(UnitsOf(g)) \in Nat
      /\ Cardinality(UnitsOf(g)) + f[c] = Cardinality(UnitsOf(f)) + g[c]
  BY <1>2, <1>3, <1>5, UnitsChange
<1> QED
  BY <1>1, <1>2, <1>4, <1>6

(* The identifiers of a command only grow, and an engaged request is new or *)
(* was engaged before.                                                      *)
Advances(c) ==
  \/ call'[c].id > call[c].id
  \/ call'[c].id = call[c].id /\ (call'[c].at \in Engaged => call[c].at \in Engaged)

(* A row stays that of a request that is over.                               *)
LEMMA RowsStayRecorded ==
  ASSUME UsageInv, LedgerInv', NEW c \in Commands, Advances(c),
         \A d \in Commands : d # c => call'[d] = call[d], NEW row \in usage
  PROVE  RecordedRow(row)'
<1>1. PICK d \in Commands, k \in Nat :
        row.id = <<d, k>> /\ (k < call[d].id \/ (k = call[d].id /\ call[d].at \notin Engaged))
  BY DEF UsageInv, RecordedRow
<1>2. call[d].id \in Nat /\ call'[d].id \in Nat
  BY DEF UsageInv, LedgerInv, LedgerType, Calls
<1>3. k < call'[d].id \/ (k = call'[d].id /\ call'[d].at \notin Engaged)
  BY <1>1, <1>2 DEF Advances
<1> QED
  BY <1>1, <1>3 DEF UsageInv, RecordedRow

(* A step that records nothing: what it settles becomes due.                *)
LEMMA UsageMoves ==
  ASSUME UsageInv, LedgerInv', NEW c \in Commands, Advances(c),
         \A d \in Commands : d # c => call'[d] = call[d],
         call'[c].due # 0 => call'[c].at = "record",
         ledger'.spent + call[c].due = ledger.spent + call'[c].due, UNCHANGED <<usage, lost, earlier>>
  PROVE  UsageInv'
<1>1. /\ IsFiniteSet(UnitsOf([d \in Commands |-> call'[d].due])) /\ Unrecorded' \in Nat
      /\ call'[c].due \in Nat
      /\ Unrecorded' + call[c].due = Unrecorded + call'[c].due
  BY UnrecordedChange
<1>2. ledger'.spent \in Nat /\ CostOf(usage)' = CostOf(usage)
  BY DEF LedgerInv, LedgerType, Ledgers, CostOf
<1>3. UsageCounted'
  <2>1. CostOf(usage) + Unrecorded' + lost = ledger'.spent + earlier
    BY <1>1, <1>2, UsageFacts
  <2> QED
    BY <1>2, <2>1 DEF UsageCounted
<1>4. \A d \in Commands : call'[d].due # 0 => call'[d].at = "record"
  BY DEF UsageInv
<1>5. \A row \in usage' : RecordedRow(row)'
  BY RowsStayRecorded
<1>6. IsFiniteSet(RowUnits(usage)') /\ lost' \in Nat /\ earlier' \in Nat
  BY DEF UsageInv, RowUnits
<1> QED
  BY <1>1, <1>3, <1>4, <1>5, <1>6 DEF UsageInv

(* Where a call goes, its request goes on or is over.                       *)
LEMMA CallAdvances ==
  ASSUME LedgerType, NEW c \in Commands
  PROVE  /\ \A place : Goto(c, place) =>
              call'[c].at = place /\ call'[c].id = call[c].id /\ call'[c].due = 0
         /\ Return(c) => call'[c].at = "idle" /\ call'[c].id = call[c].id /\ call'[c].due = 0
         /\ \A kept \in BOOLEAN : Failed(c, kept) =>
              call'[c].at \in {"idle", "wait"} /\ call'[c].id = call[c].id /\ call'[c].due = 0
         /\ \A n, b : Again(c, n, b) =>
              call'[c].at = "reserve" /\ call'[c].id = call[c].id + 1 /\ call'[c].due = call[c].due
<1>1. call \in [Commands -> Calls]
  BY DEF LedgerType
<1>2. ASSUME NEW place, Goto(c, place)
      PROVE  call'[c].at = place /\ call'[c].id = call[c].id /\ call'[c].due = 0
  BY <1>1, <1>2 DEF Goto, Calls
<1>3. ASSUME Return(c) PROVE call'[c].at = "idle" /\ call'[c].id = call[c].id /\ call'[c].due = 0
  BY <1>1, <1>3 DEF Return, Calls
<1>4. ASSUME NEW n, NEW b, Again(c, n, b)
      PROVE  call'[c].at = "reserve" /\ call'[c].id = call[c].id + 1 /\ call'[c].due = call[c].due
  BY <1>1, <1>4 DEF Again, Calls
<1> QED
  BY <1>2, <1>3, <1>4 DEF Failed

(* Releasing a reservation settles nothing.                                 *)
LEMMA NothingSettled ==
  ASSUME LedgerInv, NEW c \in Commands, Release(c)
  PROVE  ledger'.spent = ledger.spent
<1>1. ledger.spent \in Nat
  BY DEF LedgerInv, LedgerType, Ledgers
<1>2. ledger'.spent = ledger.spent + 0
  BY DEF Release, Settle
<1> QED
  BY <1>1, <1>2

(* Steps of a request that write no row.                                     *)
LEMMA UsageCourse ==
  ASSUME UsageInv, LedgerInv', NEW c \in Commands, UNCHANGED <<usage, lost, earlier>>,
         \/ Begin(c) \/ Admit(c) \/ Send(c) \/ Break(c) \/ Finish(c) \/ Exceed(c)
         \/ Wait(c) \/ Validate(c) \/ Deliver(c)
  PROVE  UsageInv'
<1>1. LedgerType /\ LedgerInv /\ call[c].id \in Nat /\ call[c].at # "record" /\ ledger.spent \in Nat
  BY DEF UsageInv, LedgerInv, LedgerType, Calls, Ledgers, Begin, Admit, Send, Break, Finish, Exceed,
         Wait, Validate, Deliver, At
<1>2. call[c].due = 0
  BY <1>1 DEF UsageInv
<1> DEFINE Others == \A d \in Commands : d # c => call'[d] = call[d]
<1>3. \A n \in Nat, b \in BOOLEAN : n + 1 \in Nat
  OBVIOUS
<1>4. call[c].attempt \in Nat /\ {"send", "stream", "validate", "deliver"} \subseteq Places
  BY <1>1 DEF LedgerType, Calls, Places
<1>5. CASE Finish(c)
  <2>1. PICK amount \in 0..call[c].cost :
          /\ Settle(c, amount)
          /\ call' = [call EXCEPT ![c].at = "record", ![c].due = amount]
    BY <1>5 DEF Finish
  <2>2. /\ call'[c].at = "record" /\ call'[c].id = call[c].id /\ call'[c].due = amount /\ Others
    BY <1>1, <2>1 DEF LedgerType, Calls
  <2>3. ledger'.spent = ledger.spent + amount
    BY <2>1 DEF Settle
  <2>4. Advances(c)
    BY <1>1, <1>5, <2>2 DEF Advances, Engaged, Finish, At
  <2> QED
    BY <1>1, <1>2, <2>2, <2>3, <2>4, UsageMoves
<1>6. CASE Begin(c)
  <2>1. PICK cost \in Costs :
          call' = [call EXCEPT ![c].at = "reserve", ![c].id = @ + 1, ![c].first = call[c].id + 1,
                               ![c].attempt = 1, ![c].repair = FALSE, ![c].cost = cost]
    BY <1>6 DEF Begin
  <2>2. call'[c].id = call[c].id + 1 /\ call'[c].due = call[c].due /\ Others
    BY <1>1, <2>1 DEF LedgerType, Calls
  <2>3. Advances(c) /\ ledger' = ledger
    BY <1>1, <1>6, <2>2 DEF Advances, Begin, ledgerVars
  <2> QED
    BY <1>1, <1>2, <2>2, <2>3, UsageMoves
<1>7. ASSUME Others, call'[c].due = 0, ledger'.spent = ledger.spent, Advances(c)
      PROVE  UsageInv'
  BY <1>1, <1>2, <1>7, UsageMoves
<1>8. CASE Admit(c)
  <2>1. ledger'.spent = ledger.spent
    BY <1>1, <1>8 DEF Admit, Reserve, ledgerVars, LedgerType, Ledgers
  <2>2. call[c].at = "reserve" /\ (Goto(c, "send") \/ Return(c))
    BY <1>8 DEF Admit, At
  <2>3. Others /\ call'[c].due = 0 /\ call'[c].id = call[c].id
    BY <1>1, <1>4, <2>2, CallLeaves, CallAdvances
  <2> QED
    BY <1>7, <2>1, <2>2, <2>3 DEF Advances, Engaged
<1>9. CASE Send(c) \/ Break(c) \/ Exceed(c)
  <2>1. ledger'.spent = ledger.spent
    BY <1>1, <1>9, NothingSettled DEF Send, Break, Exceed, ledgerVars
  <2>2. /\ call[c].at \in {"send", "stream"}
        /\ Goto(c, "stream") \/ Return(c) \/ \E kept \in BOOLEAN : Failed(c, kept)
    BY <1>9 DEF Send, Break, Exceed, At
  <2>3. Others /\ call'[c].due = 0 /\ call'[c].id = call[c].id
    BY <1>1, <1>4, <2>2, CallLeaves, CallAdvances
  <2> QED
    BY <1>7, <2>1, <2>2, <2>3 DEF Advances, Engaged
<1>10. CASE Wait(c) \/ Validate(c) \/ Deliver(c)
  <2>1. ledger' = ledger
    BY <1>10 DEF Wait, Validate, Deliver, ledgerVars
  <2>2. \/ Goto(c, "deliver") \/ Return(c) \/ Again(c, call[c].attempt + 1, FALSE)
        \/ Again(c, call[c].attempt, TRUE)
    BY <1>10 DEF Wait, Validate, Deliver
  <2>3. CASE Goto(c, "deliver") \/ Return(c)
    <3>1. Others /\ call'[c].due = 0 /\ call'[c].id = call[c].id /\ call'[c].at \in {"deliver", "idle"}
      BY <1>1, <1>4, <2>3, CallLeaves, CallAdvances
    <3> QED
      BY <1>7, <2>1, <3>1 DEF Advances, Engaged
  <2>4. CASE Again(c, call[c].attempt + 1, FALSE) \/ Again(c, call[c].attempt, TRUE)
    <3>1. Others /\ call'[c].due = 0 /\ call'[c].id = call[c].id + 1
      BY <1>1, <1>2, <1>3, <1>4, <2>4, CallLeaves, CallAdvances
    <3>2. Advances(c)
      BY <1>1, <3>1 DEF Advances
    <3> QED
      BY <1>7, <2>1, <3>1, <3>2
  <2> QED
    BY <2>2, <2>3, <2>4
<1> QED
  BY <1>5, <1>6, <1>8, <1>9, <1>10

(* A settled cost is recorded, or lost with the failed write.               *)
LEMMA UsageRecorded ==
  ASSUME UsageInv, LedgerInv', NEW c \in Commands, RecordUsage(c)
  PROVE  UsageInv'
<1>1. /\ LedgerType /\ call[c].id \in Nat /\ call[c].due \in Nat /\ call[c].at = "record"
      /\ ledger' = ledger /\ earlier' = earlier /\ ledger.spent \in Nat
  BY DEF UsageInv, LedgerInv, LedgerType, Calls, Ledgers, RecordUsage, Record, At, ledgerVars
<1>2. /\ \A d \in Commands : d # c => call'[d] = call[d]
      /\ call'[c].at \in {"validate", "idle", "wait"} /\ call'[c].due = 0 /\ call'[c].id = call[c].id
  BY <1>1, CallLeaves, CallAdvances DEF RecordUsage, Record, Places
<1>3. Advances(c)
  BY <1>2 DEF Advances, Engaged
<1>4. /\ IsFiniteSet(UnitsOf([d \in Commands |-> call'[d].due])) /\ Unrecorded' \in Nat
      /\ Unrecorded' + call[c].due = Unrecorded + call'[c].due
  BY <1>2, UnrecordedChange
<1>5. \A d \in Commands : call'[d].due # 0 => call'[d].at = "record"
  BY <1>2 DEF UsageInv
<1>6. CASE usage' = RowAdded(RowOf(c)) /\ UNCHANGED lost
  <2>1. PICK row : row = RowOf(c)
    OBVIOUS
  <2>2. row.id = <<c, call[c].id>> /\ row.cost = call[c].due
    BY <2>1 DEF RowOf, RequestOf
  <2>3. \A r \in usage : r.id # row.id
    BY <1>1, <2>2 DEF UsageInv, RecordedRow, Engaged
  <2>4. usage' = usage \cup {row}
    BY <1>6, <2>1, <2>3 DEF RowAdded
  <2> DEFINE old == RowUnits(usage)
             new == {row.id} \X (1 .. row.cost)
  <2>5. RowUnits(usage)' = old \cup new
    BY <2>4 DEF RowUnits
  <2>6. old \cap new = {}
    BY <2>3 DEF RowUnits
  <2>7. IsFiniteSet(old) /\ IsFiniteSet(new) /\ Cardinality(new) = row.cost
    BY <1>1, <2>2, UnitsOfOne DEF UsageInv
  <2> HIDE DEF old, new
  <2>8. IsFiniteSet(old \cup new) /\ Cardinality(old \cup new) = Cardinality(old) + row.cost
    BY <2>6, <2>7, DisjointCount
  <2>9. CostOf(usage)' = Cardinality(old \cup new) /\ CostOf(usage) = Cardinality(old)
    BY <2>5, UsageFacts DEF CostOf, RowUnits, old
  <2>10. UsageCounted'
    <3>1. CostOf(usage)' + Unrecorded' + lost' = ledger'.spent + earlier'
      BY <1>1, <1>2, <1>4, <1>6, <2>2, <2>8, <2>9, UsageFacts
    <3> QED
      BY <3>1 DEF UsageCounted
  <2>11. RecordedRow(row)'
    BY <1>1, <1>2, <2>2 DEF RecordedRow, Engaged
  <2>12. \A r \in usage' : RecordedRow(r)'
    BY <1>2, <1>3, <2>4, <2>11, RowsStayRecorded
  <2>13. lost' \in Nat /\ earlier' \in Nat
    BY <1>1, <1>6 DEF UsageInv
  <2> QED
    BY <1>4, <1>5, <2>5, <2>8, <2>10, <2>12, <2>13 DEF UsageInv
<1>7. CASE lost' = lost + call[c].due /\ UNCHANGED usage
  <2>1. CostOf(usage)' = CostOf(usage) /\ RowUnits(usage)' = RowUnits(usage)
    BY <1>7 DEF CostOf, RowUnits
  <2>2. UsageCounted'
    <3>1. CostOf(usage) + Unrecorded' + lost' = ledger'.spent + earlier'
      BY <1>1, <1>2, <1>4, <1>7, UsageFacts
    <3> QED
      BY <2>1, <3>1 DEF UsageCounted
  <2>3. \A r \in usage' : RecordedRow(r)'
    BY <1>2, <1>3, <1>7, RowsStayRecorded
  <2>4. lost' \in Nat /\ earlier' \in Nat
    BY <1>1, <1>7 DEF UsageInv
  <2> QED
    BY <1>4, <1>5, <2>1, <2>2, <2>3, <2>4 DEF UsageInv
<1> QED
  BY <1>6, <1>7 DEF RecordUsage

(* The process ends: what was due is lost.                                  *)
LEMMA UsageCrash ==
  ASSUME UsageInv, LedgerInv', Crash
  PROVE  UsageInv'
<1>1. /\ usage' = usage /\ ledger'.spent = 0 /\ earlier' = earlier + ledger.spent
      /\ lost' = lost + Unrecorded
  BY DEF Crash, Restart, EmptyLedger
<1>2. \A d \in Commands : call'[d].due = 0 /\ call'[d].at = "idle" /\ call'[d].id = call[d].id
  BY DEF Crash, Restart, UsageInv, LedgerInv, LedgerType, Calls
<1>3. UnitsOf([d \in Commands |-> call'[d].due]) = {}
  BY <1>2, NoUnits
<1>4. Unrecorded' = 0
  <2>1. UnitsOf([d \in Commands |-> call'[d].due]) = UNION {{d} \X (1 .. call'[d].due) : d \in Commands}
    BY DEF UnitsOf
  <2> QED
    BY <1>3, <2>1, FS_EmptySet DEF Unrecorded
<1>5. CostOf(usage)' = CostOf(usage) /\ RowUnits(usage)' = RowUnits(usage)
  BY <1>1 DEF CostOf, RowUnits
<1>6. UsageCounted'
  <2>1. CostOf(usage) + 0 + lost' = ledger'.spent + earlier'
    BY <1>1, UsageFacts
  <2> QED
    BY <1>4, <1>5, <2>1 DEF UsageCounted
<1>7. lost' \in Nat /\ earlier' \in Nat
  BY <1>1, UsageFacts
<1>8. \A r \in usage' : RecordedRow(r)'
  BY <1>1, <1>2 DEF UsageInv, RecordedRow, Engaged
<1> QED
  BY <1>2, <1>3, <1>5, <1>6, <1>7, <1>8, FS_EmptySet DEF UsageInv

(* Cancelled requests, and usage files that are set aside.                   *)
LEMMA UsageElsewhere ==
  ASSUME UsageInv, LedgerInv',
         \/ Quarantine \/ UNCHANGED assistantVars
         \/ \E c \in Commands : Course(c) /\ Cancel(c)
  PROVE  UsageInv'
<1>1. call' = call /\ ledger' = ledger /\ earlier' = earlier
  BY DEF Quarantine, assistantVars, spendingVars, ledgerVars, Course, Cancel
<1>2. Unrecorded' = Unrecorded
  BY <1>1 DEF Unrecorded
<1>3. CASE Quarantine
  <2>1. usage' = {} /\ lost' = lost + CostOf(usage)
    BY <1>3 DEF Quarantine
  <2>2. RowUnits(usage)' = {}
    BY <2>1 DEF RowUnits
  <2>3. CostOf(usage)' = 0
    BY <2>2, FS_EmptySet DEF CostOf, RowUnits
  <2>4. 0 + Unrecorded + lost' = ledger.spent + earlier /\ lost' \in Nat
    BY <2>1, UsageFacts
  <2>5. UsageCounted'
    BY <1>1, <1>2, <2>3, <2>4 DEF UsageCounted
  <2> QED
    BY <1>1, <2>1, <2>2, <2>4, <2>5, FS_EmptySet DEF UsageInv
<1>4. CASE usage' = usage /\ lost' = lost
  <2>1. CostOf(usage)' = CostOf(usage) /\ RowUnits(usage)' = RowUnits(usage)
    BY <1>4 DEF CostOf, RowUnits
  <2>2. UsageCounted'
    BY <1>1, <1>2, <1>4, <2>1 DEF UsageInv, UsageCounted
  <2> QED
    BY <1>1, <1>4, <2>1, <2>2 DEF UsageInv, RecordedRow
<1> QED
  BY <1>3, <1>4 DEF assistantVars, metricsVars, Course

(* Whatever was settled is on the dashboard exactly once or known to be     *)
(* lost, for any commands, costs, retries, repairs, failed writes,          *)
(* quarantines and crashes (record_usage, reconcile_prompt_usage).          *)
THEOREM UsageIsCounted == AssistantSpec => []UsageCounted
<1>1. AssistantInit /\ LedgerInv => UsageInv
  <2> SUFFICES ASSUME AssistantInit, LedgerInv PROVE UsageInv
    OBVIOUS
  <2>1. usage = {} /\ lost = 0 /\ earlier = 0 /\ ledger.spent = 0 /\ \A c \in Commands : call[c].due = 0
    BY DEF AssistantInit, SpendingInit, EmptyLedger
  <2>2. UnitsOf([c \in Commands |-> call[c].due]) = {}
    BY <2>1, NoUnits
  <2>3. RowUnits(usage) = {}
    BY <2>1 DEF RowUnits
  <2>4. CostOf(usage) = 0 /\ Unrecorded = 0
    BY <2>2, <2>3, UnrecordedUnits, FS_EmptySet DEF CostOf, RowUnits
  <2> QED
    BY <2>1, <2>2, <2>3, <2>4, FS_EmptySet DEF UsageInv, UsageCounted
<1>2. UsageInv /\ LedgerInv' /\ [AssistantNext]_assistantVars => UsageInv'
  <2> SUFFICES ASSUME UsageInv, LedgerInv', [AssistantNext]_assistantVars PROVE UsageInv'
    OBVIOUS
  <2>1. ASSUME NEW c \in Commands, Ask(c) PROVE UsageInv'
    BY <2>1, UsageCourse DEF Ask, metricsVars
  <2>2. ASSUME NEW c \in Commands, Course(c) PROVE UsageInv'
    BY <2>2, UsageCourse, UsageElsewhere DEF Course, metricsVars
  <2>3. ASSUME NEW c \in Commands, CountBatch(c) \/ Answer(c) \/ WriteSummary(c) PROVE UsageInv'
    BY <2>3, UsageCourse DEF CountBatch, Answer, WriteSummary, metricsVars
  <2> QED
    BY <2>1, <2>2, <2>3, UsageRecorded, UsageElsewhere, UsageCrash DEF AssistantNext
<1>3. UsageInv => UsageCounted
  BY DEF UsageInv
<1>4. AssistantSpec => []LedgerInv
  BY LedgerInvariant, CommandsImplementLedger, PTL
<1> QED
  BY <1>1, <1>2, <1>3, <1>4, PTL DEF AssistantSpec

----------------------------------------------------------------------------
(* The prompts.  A pass over the segments is a recursive function of the    *)
(* index; what it computes is found by induction, which rests here on the   *)
(* well-foundedness of inclusion between finite sets.                       *)

(* Every inhabited set of numbers has a least member.                        *)
LEMMA LeastNumber ==
  ASSUME NEW T, T \subseteq Nat, T # {}
  PROVE  \E x \in T : \A y \in T : x <= y
<1> DEFINE Below(n) == 0 .. n
           W == {Below(n) : n \in T}
<1>1. IsWellFoundedOn(StrictSubsetOrdering(Nat), FiniteSubsetsOf(Nat))
  BY FS_StrictSubsetOrderingWellFounded
<1>2. W \subseteq FiniteSubsetsOf(Nat)
  <2> SUFFICES ASSUME NEW n \in T
               PROVE  Below(n) \in FiniteSubsetsOf(Nat)
    OBVIOUS
  <2>0. n \in Nat /\ 0 \in Int /\ n \in Int
    OBVIOUS
  <2>1. IsFiniteSet(0 .. n)
    BY <2>0, FS_Interval
  <2>2. 0 .. n \subseteq Nat
    BY <2>0
  <2> QED
    BY <2>1, <2>2 DEF FiniteSubsetsOf
<1>3. W # {}
  OBVIOUS
<1> HIDE DEF W
<1>4. PICK w \in W : \A v \in W : ~(<<v, w>> \in StrictSubsetOrdering(Nat))
  BY <1>1, <1>2, <1>3, WFMin
<1>5. PICK x \in T : w = Below(x)
  BY DEF W
<1>6. ASSUME NEW y \in T
      PROVE  x <= y
  <2>1. Below(y) \in W
    BY DEF W
  <2>2. ~(<<Below(y), Below(x)>> \in StrictSubsetOrdering(Nat))
    BY <1>4, <1>5, <2>1
  <2>3. x \in Nat /\ y \in Nat
    OBVIOUS
  <2>4. CASE y < x
    <3>1. Below(y) \subseteq Below(x) /\ Below(x) \subseteq Nat /\ Below(y) \subseteq Nat
      BY <2>3, <2>4
    <3>2. x \in Below(x) /\ x \notin Below(y)
      BY <2>3, <2>4
    <3> QED
      BY <2>2, <3>1, <3>2 DEF StrictSubsetOrdering
  <2> QED
    BY <2>3, <2>4
<1> QED
  BY <1>6

(* A set that holds zero and, with a number, the next one holds them all.    *)
LEMMA EveryNumber ==
  ASSUME NEW T, 0 \in T, \A k \in Nat : k \in T => k + 1 \in T
  PROVE  Nat \subseteq T
<1> DEFINE others == {k \in Nat : k \notin T}
<1>1. ASSUME others # {} PROVE FALSE
  <2>1. others \subseteq Nat
    OBVIOUS
  <2> HIDE DEF others
  <2>2. PICK k \in others : \A m \in others : k <= m
    BY <1>1, <2>1, LeastNumber
  <2>3. k \in Nat /\ k \notin T
    BY DEF others
  <2>4. k # 0
    BY <2>3
  <2>5. k - 1 \in Nat /\ k - 1 < k /\ (k - 1) + 1 = k
    BY <2>3, <2>4
  <2>6. k - 1 \notin others
    BY <2>2, <2>3, <2>5
  <2>7. k - 1 \in T
    BY <2>5, <2>6 DEF others
  <2> QED
    BY <2>3, <2>5, <2>7
<1> QED
  BY <1>1

----------------------------------------------------------------------------
(* The course of one pass: the envelope after each of its segments.         *)

PassFrom(meeting, c, S, before, g) ==
  g = [j \in 0 .. Len(meeting) |-> IF j = 0 THEN before ELSE Considered(meeting, c, S, g[j - 1], j)]

(* There is one. *)
LEMMA PassExists ==
  ASSUME NEW meeting \in Seq(Nat), NEW c, NEW S, NEW before
  PROVE  \E g : PassFrom(meeting, c, S, before, g)
<1> DEFINE Turn(e, j) == Considered(meeting, c, S, e, j)
           Upto(m, g) == g = [j \in 0 .. m |-> IF j = 0 THEN before ELSE Turn(g[j - 1], j)]
           T == {m \in Nat : \E g : Upto(m, g)}
<1> HIDE DEF Turn
<1>1. 0 \in T
  <2>1. Upto(0, [j \in 0 .. 0 |-> before])
    OBVIOUS
  <2> QED
    BY <2>1
<1>2. ASSUME NEW m \in Nat, m \in T PROVE m + 1 \in T
  <2>1. PICK g : Upto(m, g)
    BY <1>2
  <2> DEFINE h == [j \in 0 .. m + 1 |-> IF j = m + 1 THEN Turn(g[m], m + 1) ELSE g[j]]
  <2>2. \A j \in 0 .. m : g[j] = (IF j = 0 THEN before ELSE Turn(g[j - 1], j))
    BY <2>1
  <2>3. \A j \in 0 .. m + 1 : h[j] = (IF j = 0 THEN before ELSE Turn(h[j - 1], j))
    <3> TAKE j \in 0 .. m + 1
    <3>1. CASE j = m + 1
      <4>1. h[j] = Turn(g[m], m + 1) /\ h[j - 1] = g[m] /\ j # 0 /\ j - 1 = m
        BY <3>1
      <4> QED
        BY <3>1, <4>1
    <3>2. CASE j # m + 1 /\ j # 0
      <4>1. j \in 0 .. m /\ j - 1 \in 0 .. m
        BY <3>2
      <4>2. h[j] = g[j] /\ h[j - 1] = g[j - 1]
        BY <3>2, <4>1
      <4>3. g[j] = Turn(g[j - 1], j)
        BY <2>2, <3>2, <4>1
      <4> QED
        BY <3>2, <4>2, <4>3
    <3>3. CASE j = 0
      BY <2>2, <3>3
    <3> QED
      BY <3>1, <3>2, <3>3
  <2>4. Upto(m + 1, h)
    <3> DEFINE k == [j \in 0 .. m + 1 |-> IF j = 0 THEN before ELSE Turn(h[j - 1], j)]
    <3>1. \A j \in 0 .. m + 1 : h[j] = k[j]
      BY <2>3
    <3>2. h = k
      BY <3>1
    <3> QED
      BY <3>2
  <2> HIDE DEF h, Upto
  <2>5. m + 1 \in Nat
    OBVIOUS
  <2> QED
    BY <2>4, <2>5
<1> HIDE DEF T
<1>3. Nat \subseteq T
  BY <1>1, <1>2, EveryNumber
<1>4. Len(meeting) \in Nat
  OBVIOUS
<1>5. Len(meeting) \in T
  BY <1>3, <1>4
<1> QED
  BY <1>5 DEF T, Turn, PassFrom

(* What is used of it. *)
PassOf(meeting, c, S, before, g) ==
  /\ g[0] = before
  /\ \A j \in 1 .. Len(meeting) : g[j] = Considered(meeting, c, S, g[j - 1], j)
  /\ Admitted(meeting, c, S, before) = g[Len(meeting)]

(* Admitted is where the course ends. *)
LEMMA PassCourse ==
  ASSUME NEW meeting \in Seq(Nat), NEW c, NEW S, NEW before
  PROVE  \E g : PassOf(meeting, c, S, before, g)
<1> DEFINE g == CHOOSE f : PassFrom(meeting, c, S, before, f)
<1>1. PassFrom(meeting, c, S, before, g)
  BY PassExists
<1>2. Admitted(meeting, c, S, before) = g[Len(meeting)]
  BY DEF Admitted, PassFrom
<1> HIDE DEF g
<1>3. Len(meeting) \in Nat
  OBVIOUS
<1>4. \A j \in 0 .. Len(meeting) : g[j] = (IF j = 0 THEN before ELSE Considered(meeting, c, S, g[j - 1], j))
  BY <1>1 DEF PassFrom
<1>5. \A j \in 1 .. Len(meeting) : j \in 0 .. Len(meeting) /\ j # 0
  BY <1>3
<1>6. g[0] = before
  BY <1>3, <1>4
<1>7. \A j \in 1 .. Len(meeting) : g[j] = Considered(meeting, c, S, g[j - 1], j)
  BY <1>4, <1>5
<1> QED
  BY <1>2, <1>6, <1>7 DEF PassOf

----------------------------------------------------------------------------
(* The sizes.                                                               *)

SegmentUnits(meeting, S) == UNION {{j} \X (1 .. meeting[j]) : j \in S}

(* The tokens of a set of segments are counted, and more segments have as    *)
(* many or more.                                                             *)
LEMMA TokensCounted ==
  ASSUME NEW meeting \in Seq(Nat), NEW S \in SUBSET (1 .. Len(meeting)), NEW R \in SUBSET S
  PROVE  Tokens(meeting, S) \in Nat /\ Tokens(meeting, R) \in Nat
         /\ Tokens(meeting, R) <= Tokens(meeting, S)
<1> DEFINE part == [j \in S |-> {j} \X (1 .. meeting[j])]
           parts == {{j} \X (1 .. meeting[j]) : j \in S}
<1>1. IsFiniteSet(S)
  <2>1. Len(meeting) \in Nat
    OBVIOUS
  <2>2. IsFiniteSet(1 .. Len(meeting))
    BY <2>1, FS_Interval
  <2> QED
    BY <2>2, FS_Subset
<1>2. part \in Surjection(S, parts)
  BY DEF Surjection
<1>3. \A p \in parts : IsFiniteSet(p)
  <2>1. \A j \in S : meeting[j] \in Nat
    OBVIOUS
  <2>2. \A j \in S : IsFiniteSet({j} \X (1 .. meeting[j]))
    BY <2>1, UnitsOfOne
  <2> QED
    BY <2>2
<1> HIDE DEF part, parts
<1>4. IsFiniteSet(parts)
  BY <1>1, <1>2, FS_Surjection
<1>5. IsFiniteSet(UNION parts)
  BY <1>3, <1>4, FS_UNION
<1>6. UNION parts = SegmentUnits(meeting, S)
  BY DEF parts, SegmentUnits
<1>7. SegmentUnits(meeting, R) \subseteq SegmentUnits(meeting, S)
  BY DEF SegmentUnits
<1> HIDE DEF SegmentUnits
<1>8. /\ IsFiniteSet(SegmentUnits(meeting, S)) /\ IsFiniteSet(SegmentUnits(meeting, R))
      /\ Cardinality(SegmentUnits(meeting, R)) <= Cardinality(SegmentUnits(meeting, S))
  BY <1>5, <1>6, <1>7, FS_Subset
<1>9. /\ Tokens(meeting, S) = Cardinality(SegmentUnits(meeting, S))
      /\ Tokens(meeting, R) = Cardinality(SegmentUnits(meeting, R))
  BY DEF Tokens, SegmentUnits
<1> QED
  BY <1>8, <1>9, FS_CardinalityType

----------------------------------------------------------------------------
(* What an envelope is once the segments of D have been considered.         *)

Envelopes == [selected : SUBSET Nat, omitted_relevant : Nat, omitted_recent : Nat]

(* Why a segment may be omitted. *)
NoRoom(meeting, e, j) ==
  Cardinality(e.selected) = MaxSelected \/ Tokens(meeting, e.selected \cup {j}) > Room

EnvelopeInv(meeting, e, D) ==
  /\ e \in Envelopes /\ D \subseteq 1 .. Len(meeting) /\ e.selected \subseteq D
  /\ e.omitted_relevant + e.omitted_recent = Cardinality(D \ e.selected)
  /\ Tokens(meeting, e.selected) <= Room /\ Cardinality(e.selected) <= MaxSelected
  /\ \A j \in D \ e.selected : NoRoom(meeting, e, j)

(* Segments are finitely many. *)
LEMMA SegmentsFinite ==
  ASSUME NEW meeting \in Seq(Nat), NEW D \in SUBSET (1 .. Len(meeting))
  PROVE  IsFiniteSet(D) /\ Cardinality(D) \in Nat
<1>1. Len(meeting) \in Nat
  OBVIOUS
<1>2. IsFiniteSet(1 .. Len(meeting))
  BY <1>1, FS_Interval
<1>3. IsFiniteSet(D)
  BY <1>2, FS_Subset
<1> QED
  BY <1>3, FS_CardinalityType

(* A selected segment leaves the earlier omissions as justified as before.   *)
LEMMA SelectionKeeps ==
  ASSUME NEW meeting \in Seq(Nat), NEW e, NEW D, EnvelopeInv(meeting, e, D),
         NEW j \in 1 .. Len(meeting), j \notin D, Fits(meeting, e, j)
  PROVE  EnvelopeInv(meeting, [e EXCEPT !.selected = @ \cup {j}], D \cup {j})
<1> DEFINE S == e.selected
           R == S \cup {j}
           f == [e EXCEPT !.selected = @ \cup {j}]
<1>0. /\ D \subseteq 1 .. Len(meeting) /\ S \subseteq D /\ j \notin S /\ R \subseteq D \cup {j}
      /\ R \subseteq 1 .. Len(meeting) /\ S \subseteq 1 .. Len(meeting)
  BY DEF EnvelopeInv
<1>1. /\ f \in Envelopes /\ f.selected = R
      /\ f.omitted_relevant = e.omitted_relevant /\ f.omitted_recent = e.omitted_recent
  BY DEF EnvelopeInv, Envelopes
<1>2. IsFiniteSet(S) /\ Cardinality(S) \in Nat
  BY <1>0, SegmentsFinite
<1>3. Cardinality(R) = Cardinality(S) + 1
  BY <1>0, <1>2, FS_AddElement
<1>4. Cardinality(R) <= MaxSelected
  BY <1>2, <1>3, PromptAssumption DEF Fits
<1>5. Tokens(meeting, R) <= Room
  BY DEF Fits
<1>6. (D \cup {j}) \ R = D \ S
  BY <1>0
<1>7. ASSUME NEW k \in D \ S PROVE NoRoom(meeting, f, k)
  <2>1. NoRoom(meeting, e, k)
    BY <1>7 DEF EnvelopeInv
  <2>2. Cardinality(S) # MaxSelected
    BY <1>2, PromptAssumption DEF Fits
  <2>3. Tokens(meeting, S \cup {k}) > Room
    BY <2>1, <2>2 DEF NoRoom
  <2>4. S \cup {k} \subseteq R \cup {k} /\ R \cup {k} \subseteq 1 .. Len(meeting)
    BY <1>0
  <2>5. /\ Tokens(meeting, S \cup {k}) \in Nat /\ Tokens(meeting, R \cup {k}) \in Nat
        /\ Tokens(meeting, S \cup {k}) <= Tokens(meeting, R \cup {k})
    BY <2>4, TokensCounted
  <2>6. Tokens(meeting, R \cup {k}) > Room
    BY <2>3, <2>5, PromptAssumption
  <2> QED
    BY <1>1, <2>6 DEF NoRoom
<1>8. f.omitted_relevant + f.omitted_recent = Cardinality((D \cup {j}) \ f.selected)
  BY <1>1, <1>6 DEF EnvelopeInv
<1> HIDE DEF f, R, S
<1> QED
  BY <1>0, <1>1, <1>4, <1>5, <1>6, <1>7, <1>8 DEF EnvelopeInv, f, R, S

(* An omission changes one of the two counters. *)
LEMMA OneMore ==
  ASSUME NEW e \in Envelopes, NEW c, NEW j
  PROVE  /\ Omit(e, c, j) \in Envelopes /\ Omit(e, c, j).selected = e.selected
         /\ Omit(e, c, j).omitted_relevant + Omit(e, c, j).omitted_recent
              = e.omitted_relevant + e.omitted_recent + 1
<1>0. /\ e.selected \in SUBSET Nat /\ e.omitted_relevant \in Nat /\ e.omitted_recent \in Nat
      /\ e = [selected |-> e.selected, omitted_relevant |-> e.omitted_relevant,
              omitted_recent |-> e.omitted_recent]
  BY DEF Envelopes
<1>1. PICK S, m, n : S = e.selected /\ m = e.omitted_relevant /\ n = e.omitted_recent
  OBVIOUS
<1>2. S \in SUBSET Nat /\ m \in Nat /\ n \in Nat
      /\ e = [selected |-> S, omitted_relevant |-> m, omitted_recent |-> n]
  BY <1>0, <1>1
<1>3. CASE j \in c.relevant
  <2>1. Omit(e, c, j) = [selected |-> S, omitted_relevant |-> m + 1, omitted_recent |-> n]
    BY <1>2, <1>3 DEF Omit
  <2> QED
    BY <1>1, <1>2, <2>1 DEF Envelopes
<1>4. CASE j \notin c.relevant
  <2>1. Omit(e, c, j) = [selected |-> S, omitted_relevant |-> m, omitted_recent |-> n + 1]
    BY <1>2, <1>4 DEF Omit
  <2> QED
    BY <1>1, <1>2, <2>1 DEF Envelopes
<1> QED
  BY <1>3, <1>4

(* An omitted segment is counted, once. *)
LEMMA OmissionKeeps ==
  ASSUME NEW meeting \in Seq(Nat), NEW c, NEW e, NEW D, EnvelopeInv(meeting, e, D),
         NEW j \in 1 .. Len(meeting), j \notin D, ~Fits(meeting, e, j)
  PROVE  EnvelopeInv(meeting, Omit(e, c, j), D \cup {j})
<1> DEFINE S == e.selected
           f == Omit(e, c, j)
<1>0. /\ D \subseteq 1 .. Len(meeting) /\ S \subseteq D /\ j \notin S /\ S \cup {j} \subseteq 1 .. Len(meeting)
      /\ D \ S \subseteq 1 .. Len(meeting) /\ S \subseteq 1 .. Len(meeting) /\ S \subseteq S \cup {j}
  BY DEF EnvelopeInv
<1>1. /\ f \in Envelopes /\ f.selected = S
      /\ f.omitted_relevant + f.omitted_recent = e.omitted_relevant + e.omitted_recent + 1
  BY OneMore DEF EnvelopeInv
<1>2. IsFiniteSet(D \ S) /\ Cardinality(D \ S) \in Nat /\ Cardinality(S) \in Nat
  BY <1>0, SegmentsFinite
<1>3. (D \cup {j}) \ S = (D \ S) \cup {j} /\ j \notin D \ S
  BY <1>0
<1>4. Cardinality((D \ S) \cup {j}) = Cardinality(D \ S) + 1
  BY <1>2, <1>3, FS_AddElement
<1>5. NoRoom(meeting, e, j)
  <2>1. Tokens(meeting, S \cup {j}) \in Nat
    BY <1>0, TokensCounted
  <2>2. Cardinality(S) <= MaxSelected
    BY DEF EnvelopeInv
  <2> QED
    BY <1>2, <2>1, <2>2, PromptAssumption DEF Fits, NoRoom
<1>6. \A k \in (D \cup {j}) \ S : NoRoom(meeting, f, k)
  BY <1>1, <1>5 DEF EnvelopeInv, NoRoom
<1>7. f.omitted_relevant + f.omitted_recent = Cardinality((D \cup {j}) \ f.selected)
  BY <1>1, <1>3, <1>4 DEF EnvelopeInv
<1>8. Tokens(meeting, f.selected) <= Room /\ Cardinality(f.selected) <= MaxSelected
  BY <1>1 DEF EnvelopeInv
<1>9. D \cup {j} \subseteq 1 .. Len(meeting) /\ f.selected \subseteq D \cup {j}
  BY <1>0, <1>1
<1>10. \A k \in (D \cup {j}) \ f.selected : NoRoom(meeting, f, k)
  BY <1>1, <1>6
<1> HIDE DEF f, S
<1>11. EnvelopeInv(meeting, f, D \cup {j})
  BY <1>1, <1>7, <1>8, <1>9, <1>10 DEF EnvelopeInv
<1> QED
  BY <1>11 DEF f

(* One pass, over segments not yet considered.                               *)
LEMMA PassKeeps ==
  ASSUME NEW meeting \in Seq(Nat), NEW c, NEW S \in SUBSET (1 .. Len(meeting)),
         NEW e, NEW D, EnvelopeInv(meeting, e, D), S \cap D = {}
  PROVE  EnvelopeInv(meeting, Admitted(meeting, c, S, e), D \cup S)
<1>pick. PICK g : PassOf(meeting, c, S, e, g)
  BY PassCourse
<1>1. /\ g[0] = e
      /\ \A j \in 1 .. Len(meeting) : g[j] = Considered(meeting, c, S, g[j - 1], j)
      /\ Admitted(meeting, c, S, e) = g[Len(meeting)]
  BY <1>pick DEF PassOf
<1>0. Len(meeting) \in Nat /\ \A k \in S : k \in Nat /\ 0 < k /\ k <= Len(meeting)
  OBVIOUS
<1> DEFINE Done(m) == D \cup {k \in S : k <= m}
           T == {m \in Nat : m <= Len(meeting) => EnvelopeInv(meeting, g[m], Done(m))}
<1>2. 0 \in T
  <2>0. \A k \in S : ~(k <= 0)
    BY <1>0
  <2>1. Done(0) = D
    BY <2>0
  <2> QED
    BY <1>1, <2>1
<1>3. ASSUME NEW m \in Nat, m \in T PROVE m + 1 \in T
  <2> SUFFICES ASSUME m + 1 <= Len(meeting)
               PROVE  EnvelopeInv(meeting, g[m + 1], Done(m + 1))
    OBVIOUS
  <2>0. Len(meeting) \in Nat
    OBVIOUS
  <2>1. m + 1 \in 1 .. Len(meeting) /\ (m + 1) - 1 = m /\ m <= Len(meeting)
    BY <2>0
  <2>2. g[m + 1] = Considered(meeting, c, S, g[m], m + 1)
    BY <1>1, <2>1
  <2>3. EnvelopeInv(meeting, g[m], Done(m))
    BY <1>3, <2>1
  <2>4. CASE m + 1 \notin S
    <3>1. Done(m + 1) = Done(m)
      <4>1. \A k \in S : k <= m + 1 <=> k <= m
        BY <1>0, <2>4
      <4> QED
        BY <4>1
    <3>2. g[m + 1] = g[m]
      BY <2>2, <2>4 DEF Considered
    <3> QED
      BY <2>3, <3>1, <3>2
  <2>5. CASE m + 1 \in S
    <3>1. Done(m + 1) = Done(m) \cup {m + 1} /\ m + 1 \notin Done(m)
      <4>1. \A k \in S : k <= m + 1 <=> (k <= m \/ k = m + 1)
        BY <1>0
      <4>2. ~(m + 1 <= m)
        OBVIOUS
      <4> QED
        BY <2>5, <4>1, <4>2
    <3> HIDE DEF Done
    <3>2. CASE Fits(meeting, g[m], m + 1)
      <4>1. g[m + 1] = [g[m] EXCEPT !.selected = @ \cup {m + 1}]
        BY <2>2, <2>5, <3>2 DEF Considered
      <4> QED
        BY <2>1, <2>3, <3>1, <3>2, <4>1, SelectionKeeps
    <3>3. CASE ~Fits(meeting, g[m], m + 1)
      <4>1. g[m + 1] = Omit(g[m], c, m + 1)
        BY <2>2, <2>5, <3>3 DEF Considered
      <4> QED
        BY <2>1, <2>3, <3>1, <3>3, <4>1, OmissionKeeps
    <3> QED
      BY <3>2, <3>3
  <2> QED
    BY <2>4, <2>5
<1> HIDE DEF T
<1>4. Nat \subseteq T
  BY <1>2, <1>3, EveryNumber
<1>5. Len(meeting) \in Nat /\ Done(Len(meeting)) = D \cup S
  BY <1>0
<1> HIDE DEF Done
<1>6. EnvelopeInv(meeting, g[Len(meeting)], Done(Len(meeting)))
  <2>1. Len(meeting) \in T
    BY <1>4, <1>5
  <2>2. Len(meeting) <= Len(meeting)
    BY <1>5
  <2> QED
    BY <2>1, <2>2 DEF T
<1> QED
  BY <1>1, <1>5, <1>6

(* A quotient stays below what its numerator is a multiple of at most.       *)
LEMMA Quotient ==
  ASSUME NEW a \in Nat, NEW b \in Nat \ {0}, NEW q \in Nat, a <= q * b
  PROVE  a \div b \in 0 .. q
<1>1. a \div b \in Int /\ a = b * (a \div b) + (a % b) /\ a % b \in 0 .. (b - 1)
  BY SMTT(30)
<1> QED
  BY <1>1, SMTT(30)

(* A product grows with its factors. *)
LEMMA Product ==
  ASSUME NEW s \in Nat, NEW l \in Nat, NEW m \in Nat, s <= l
  PROVE  s * m \in Nat /\ s * m <= m * l
BY SMTT(30)

(* The segments that a command reads are segments of the meeting.            *)
LEMMA EvenlySpacedIndexes ==
  ASSUME NEW n \in Nat, NEW limit \in Nat
  PROVE  EvenlySpaced(n, limit) \subseteq 1 .. n
<1>1. CASE n <= limit
  BY <1>1 DEF EvenlySpaced
<1>2. CASE n > limit /\ limit = 0
  <2>1. EvenlySpaced(n, limit) = {}
    BY <1>2 DEF EvenlySpaced
  <2> QED
    BY <2>1
<1>4. CASE n > limit /\ limit = 1
  <2>1. EvenlySpaced(n, limit) = {1}
    BY <1>4 DEF EvenlySpaced
  <2>2. 1 \in 1 .. n
    BY <1>4
  <2> QED
    BY <2>1, <2>2
<1>3. CASE n > limit /\ limit > 1
  <2>1. EvenlySpaced(n, limit) = {1 + (step * (n - 1)) \div (limit - 1) : step \in 0..(limit - 1)}
    BY <1>3 DEF EvenlySpaced
  <2>2. ASSUME NEW step \in 0..(limit - 1)
        PROVE  1 + (step * (n - 1)) \div (limit - 1) \in 1 .. n
    <3>1. PICK l, m, s : l = limit - 1 /\ m = n - 1 /\ s = step
      OBVIOUS
    <3>2. l \in Nat \ {0} /\ m \in Nat /\ s \in Nat /\ s <= l
      BY <1>3, <3>1
    <3>3. s * m \in Nat /\ s * m <= m * l
      BY <3>2, Product
    <3>4. (s * m) \div l \in 0 .. m
      BY <3>2, <3>3, Quotient
    <3>5. PICK q : q = (s * m) \div l
      OBVIOUS
    <3>6. q \in 0 .. m /\ (step * (n - 1)) \div (limit - 1) = q
      BY <3>1, <3>4, <3>5
    <3> QED
      BY <3>1, <3>6
  <2> QED
    BY <2>1, <2>2
<1> QED
  BY <1>1, <1>2, <1>3, <1>4

ContextOf(c, n) ==
  /\ c.required \subseteq 1 .. n /\ c.relevant \subseteq 1 .. n /\ c.recent \subseteq 1 .. n

(* Whatever the purpose, a command reads segments of the meeting. *)
LEMMA ContextsOfMeeting ==
  ASSUME NEW task, NEW n \in Nat, NEW c \in Contexts(task, n),
         task \in {"insight", "question", "summary"}
  PROVE  ContextOf(c, n)
<1>1. CASE task = "question"
  <2>1. PICK i \in 1 .. n : c = QuestionContext(n, i)
    BY <1>1 DEF Contexts
  <2> QED
    BY <2>1 DEF QuestionContext, Context, ContextOf
<1>2. CASE task = "insight"
  <2>1. c = InsightContext(n) \/ \E i \in 1 .. n : c = AlternativeContext(n, {i})
    BY <1>2 DEF Contexts
  <2> QED
    BY <2>1 DEF InsightContext, AlternativeContext, LastOf, Context, ContextOf
<1>3. CASE task = "summary"
  <2>1. c = SummaryContext(n)
    BY <1>3 DEF Contexts
  <2>2. EvenlySpaced(n, Samples) \subseteq 1 .. n
    BY EvenlySpacedIndexes, PromptAssumption
  <2> QED
    BY <2>1, <2>2 DEF SummaryContext, LastOf, Context, ContextOf
<1> QED
  BY <1>1, <1>2, <1>3

(* build_prompt_context, over all candidates. *)
LEMMA EnvelopeFits ==
  ASSUME NEW meeting \in Seq(Nat), NEW c, ContextOf(c, Len(meeting))
  PROVE  EnvelopeInv(meeting, Envelope(meeting, c), c.required \cup c.relevant \cup c.recent)
<1>1. EnvelopeInv(meeting, Empty, {})
  <2>1. Tokens(meeting, {}) = 0
    <3>1. UNION {{j} \X (1 .. meeting[j]) : j \in {}} = {}
      OBVIOUS
    <3> QED
      BY <3>1, FS_EmptySet DEF Tokens
  <2>2. Empty.selected = {} /\ Empty.omitted_relevant = 0 /\ Empty.omitted_recent = 0 /\ Empty \in Envelopes
    BY DEF Empty, Envelopes
  <2>3. Cardinality({}) = 0 /\ {} \ {} = {}
    BY FS_EmptySet
  <2> QED
    BY <2>1, <2>2, <2>3, PromptAssumption DEF EnvelopeInv
<1> DEFINE one == Admitted(meeting, c, c.required, Empty)
           two == Admitted(meeting, c, c.relevant \ c.required, one)
           rest == c.recent \ (c.relevant \cup c.required)
<1>2. EnvelopeInv(meeting, one, {} \cup c.required)
  BY <1>1, PassKeeps DEF ContextOf
<1> HIDE DEF one
<1>3. EnvelopeInv(meeting, two, ({} \cup c.required) \cup (c.relevant \ c.required))
  BY <1>2, PassKeeps DEF ContextOf
<1> HIDE DEF two
<1>4. EnvelopeInv(meeting, Admitted(meeting, c, rest, two),
                  (({} \cup c.required) \cup (c.relevant \ c.required)) \cup rest)
  BY <1>3, PassKeeps DEF ContextOf
<1>5. (({} \cup c.required) \cup (c.relevant \ c.required)) \cup rest
        = c.required \cup c.relevant \cup c.recent
  OBVIOUS
<1>6. Envelope(meeting, c) = Admitted(meeting, c, rest, two)
  BY DEF Envelope, one, two
<1> QED
  BY <1>4, <1>5, <1>6

(* What PromptsFit says of one prompt. *)
Sound(meeting, c, e) ==
  /\ Tokens(meeting, e.selected) <= Room /\ Cardinality(e.selected) <= MaxSelected
  /\ c.required \subseteq e.selected
  /\ e.selected \subseteq c.required \cup c.relevant \cup c.recent
  /\ e.omitted_relevant + e.omitted_recent
       = Cardinality((c.required \cup c.relevant \cup c.recent) \ e.selected)
  /\ \A j \in (c.required \cup c.relevant \cup c.recent) \ e.selected : NoRoom(meeting, e, j)

(* A prompt keeps to the model's input, holds the segment asked about, and   *)
(* accounts for every candidate, for meetings of any number of segments of   *)
(* any size and any limits (build_prompt_context).                           *)
THEOREM PromptsFitTheModel == AssistantSpec => []PromptsFit
<1>1. AssistantInit => PromptsFit
  BY DEF AssistantInit, PromptsFit
<1>2. PromptsFit /\ [AssistantNext]_assistantVars => PromptsFit'
  <2> SUFFICES ASSUME PromptsFit, [AssistantNext]_assistantVars PROVE PromptsFit'
    OBVIOUS
  <2>1. CASE prompt' = {}
    BY <2>1 DEF PromptsFit
  <2>2. CASE UNCHANGED prompt
    BY <2>2 DEF PromptsFit
  <2>3. ASSUME NEW c \in Commands, Ask(c) PROVE PromptsFit'
    <3>1. PICK task \in Purposes[c], meeting \in Meetings :
            \E context \in Contexts(task, Len(meeting)) :
              /\ context.required \subseteq Envelope(meeting, context).selected
              /\ prompt' = {[meeting |-> meeting, context |-> context,
                             envelope |-> Envelope(meeting, context)]}
      BY <2>3 DEF Ask
    <3>2. PICK context \in Contexts(task, Len(meeting)) :
            /\ context.required \subseteq Envelope(meeting, context).selected
            /\ prompt' = {[meeting |-> meeting, context |-> context,
                           envelope |-> Envelope(meeting, context)]}
      BY <3>1
    <3>3. meeting \in Seq(Nat) /\ Len(meeting) \in Nat /\ task \in {"insight", "question", "summary"}
      BY CommandsAssumption
    <3>4. ContextOf(context, Len(meeting))
      BY <3>3, ContextsOfMeeting
    <3>5. PICK e : e = Envelope(meeting, context)
      OBVIOUS
    <3>6. EnvelopeInv(meeting, e, context.required \cup context.relevant \cup context.recent)
      BY <3>3, <3>4, <3>5, EnvelopeFits
    <3>7. \A p \in prompt' : p.meeting = meeting /\ p.context = context /\ p.envelope = e
      BY <3>2, <3>5
    <3>8. context.required \subseteq e.selected
      BY <3>2, <3>5
    <3>9. Sound(meeting, context, e)
      BY <3>6, <3>8 DEF Sound, EnvelopeInv, NoRoom
    <3>10. \A p \in prompt' : Sound(p.meeting, p.context, p.envelope)
      BY <3>7, <3>9
    <3> QED
      BY <3>10 DEF PromptsFit, Sound, NoRoom
  <2>4. ASSUME NEW c \in Commands,
               Course(c) \/ RecordUsage(c) \/ CountBatch(c) \/ Answer(c) \/ WriteSummary(c)
        PROVE  prompt' = {}
    BY <2>4 DEF Course, RecordUsage, CountBatch, Answer, WriteSummary
  <2>5. CASE Quarantine \/ Crash
    BY <2>1, <2>5 DEF Quarantine, Crash
  <2>6. CASE UNCHANGED assistantVars
    BY <2>2, <2>6 DEF assistantVars
  <2> QED
    BY <2>1, <2>3, <2>4, <2>5, <2>6 DEF AssistantNext
<1> QED
  BY <1>1, <1>2, PTL DEF AssistantSpec

=============================================================================
