---------------------------- MODULE ProviderAccess ----------------------------
(***************************************************************************)
(* The access to the provider: the key and the time of its validation, two *)
(* entries of the system's credential store (security/credentials.rs), and *)
(* the cached catalog of models (llm/openrouter.rs).                       *)
(*                                                                         *)
(* Commands run concurrently on blocking threads and nothing orders them;  *)
(* each access to the store, each answer of the provider and each access   *)
(* to the cache is a step.  A validation is stored as its time; here it is *)
(* the key that it was made with.                                          *)
(***************************************************************************)
EXTENDS Naturals, Sequences

CONSTANTS
  Commands,      (* bound: commands in flight at once                       *)
  Keys,
  MaxOffer,      (* bound: changes of the provider's list of models         *)
  MaxFailures    (* bound: failing accesses to the credential store         *)

ASSUME ProviderAssumption == MaxOffer \in Nat /\ MaxFailures \in Nat

VARIABLES
  secret,        (* Option of the key that is stored                        *)
  validation,    (* Option of the key that the stored validation was made with *)
  catalog,       (* Option of [offer, fresh], fresh until its time is up    *)
  offer,         (* the provider's list of models                           *)
  tasks,         (* command -> Option of [op, key, at, got]                 *)
  failures,
  excused        (* history: a validation spanned a change of the key, or a *)
                 (* change ended between its two steps                      *)

providerVars == <<secret, validation, catalog, offer, tasks, failures, excused>>

ProviderInit ==
  /\ secret = {} /\ validation = {} /\ catalog = {} /\ offer = 0
  /\ tasks = [c \in Commands |-> {}] /\ failures = 0 /\ excused = FALSE

Failing == failures < MaxFailures /\ failures' = failures + 1

Enter(c, op, key) ==
  /\ tasks[c] = {}
  /\ tasks' = [tasks EXCEPT ![c] = {[op |-> op, key |-> key, at |-> 1, got |-> 0]}]

Onward(c, t) == tasks' = [tasks EXCEPT ![c] = {[t EXCEPT !.at = @ + 1]}]

End(c) == tasks' = [tasks EXCEPT ![c] = {}]

InFlight(op) == UNION {{t \in tasks[c] : t.op = op} : c \in Commands}

----------------------------------------------------------------------------
(* set_openrouter_api_key and delete_openrouter_api_key                     *)

(* Fault: the validation is dropped before the key is written. *)
FaultyOrder == <<"clear", "write">>

Order == <<"write", "clear">>

ChangeKey(c) ==
  /\ \E key \in {{}} \cup {{k} : k \in Keys} : Enter(c, "change", key)
  /\ UNCHANGED <<secret, validation, catalog, offer, failures, excused>>

Change(c) ==
  /\ \E t \in tasks[c] :
       /\ t.op = "change"
       /\ IF t.at = Len(Order) THEN End(c) ELSE Onward(c, t)
       /\ \/ /\ Order[t.at] = "write" /\ secret' = t.key /\ UNCHANGED validation
             /\ excused' = (excused \/ \E v \in InFlight("validate") : v.key # t.key)
          \/ /\ Order[t.at] = "clear" /\ validation' = {} /\ UNCHANGED <<secret, excused>>
  /\ UNCHANGED <<catalog, offer, failures>>

(* The store refuses: what was done before stays done. *)
ChangeFails(c) ==
  /\ \E t \in tasks[c] : t.op = "change" /\ excused' = (excused \/ t.at > 1)
  /\ Failing /\ End(c)
  /\ UNCHANGED <<secret, validation, catalog, offer>>

----------------------------------------------------------------------------
(* validate_openrouter_api_key                                              *)

Validate(c) ==
  /\ secret # {} /\ Enter(c, "validate", secret)
  /\ UNCHANGED <<secret, validation, catalog, offer, failures, excused>>

(* The provider refuses the key or does not answer, or the time cannot be   *)
(* stored.                                                                  *)
Refused(c) ==
  /\ (\E t \in tasks[c] : t.op \in {"validate", "list"}) /\ End(c)
  /\ UNCHANGED <<secret, validation, catalog, offer, failures, excused>>

RecordValidation(c) ==
  /\ \E t \in tasks[c] : t.op = "validate" /\ validation' = t.key
  /\ End(c)
  /\ UNCHANGED <<secret, catalog, offer, failures, excused>>

----------------------------------------------------------------------------
(* list_openrouter_models: a fresh catalog answers unless it must not.      *)

Cached(force) == ~force /\ \E k \in catalog : k.fresh

ListModels(c) ==
  /\ \E force \in BOOLEAN : ~Cached(force)
  /\ secret # {} /\ Enter(c, "list", {})
  /\ UNCHANGED <<secret, validation, catalog, offer, failures, excused>>

Fetched(c) ==
  /\ \E t \in tasks[c] :
       /\ t.op = "list" /\ t.at = 1
       /\ tasks' = [tasks EXCEPT ![c] = {[t EXCEPT !.at = 2, !.got = offer]}]
  /\ UNCHANGED <<secret, validation, catalog, offer, failures, excused>>

StoreCatalog(c) ==
  /\ \E t \in tasks[c] :
       t.op = "list" /\ t.at = 2 /\ catalog' = {[offer |-> t.got, fresh |-> TRUE]}
  /\ End(c)
  /\ UNCHANGED <<secret, validation, offer, failures, excused>>

(* CATALOG_CACHE_TTL; an expired catalog neither answers nor prices.        *)
Outdate ==
  /\ \E k \in catalog : k.fresh /\ catalog' = {[k EXCEPT !.fresh = FALSE]}
  /\ UNCHANGED <<secret, validation, offer, tasks, failures, excused>>

(* The provider changes its list. *)
Offer ==
  /\ offer < MaxOffer /\ offer' = offer + 1
  /\ UNCHANGED <<secret, validation, catalog, tasks, failures, excused>>

(* The process ends and starts again: the credential store remains. *)
Relaunch ==
  /\ excused' = (excused \/ \E t \in InFlight("change") : t.at > 1)
  /\ tasks' = [c \in Commands |-> {}] /\ catalog' = {}
  /\ UNCHANGED <<secret, validation, offer, failures>>

ProviderNext ==
  \/ \E c \in Commands :
       \/ ChangeKey(c) \/ Change(c) \/ ChangeFails(c)
       \/ Validate(c) \/ Refused(c) \/ RecordValidation(c)
       \/ ListModels(c) \/ Fetched(c) \/ StoreCatalog(c)
  \/ Outdate \/ Offer \/ Relaunch

ProviderSpec == ProviderInit /\ [][ProviderNext]_providerVars

----------------------------------------------------------------------------
(* Properties.                                                              *)

(* What is shown as validated is the stored key, in every interleaving of   *)
(* changes and validations but one: a validation under way while the key    *)
(* itself is written (CredentialService::set writes the key, then drops the *)
(* validation).                                                             *)
ValidatedAsStored ==
  \/ validation = {} \/ validation = secret \/ excused
  \/ \E t \in InFlight("change") : t.at > 1

(* Not kept by the code: the catalog never goes back to an older list.  Two *)
(* listings that overlap store their answers in any order (list_models).    *)
CatalogMovesForward ==
  [][\A k \in catalog, l \in catalog' : k.offer <= l.offer]_catalog

=============================================================================
