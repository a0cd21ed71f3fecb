---------------------------- MODULE SessionCatalog ----------------------------
(***************************************************************************)
(* The catalog over the document store (persistence/session_index.rs with  *)
(* session_service.rs; project_index.rs is alike): a projection of every   *)
(* document into SQLite that lists pages, and the commands that create,    *)
(* update, delete and list sessions under the workspace lock.              *)
(*                                                                         *)
(* The projection has a generation, 0 when its metadata row is missing;    *)
(* every change of its rows is one transaction.  A page takes the rows     *)
(* from the cursor's offset on, in an order that the rows determine.  A    *)
(* workspace is never changed here.                                        *)
(***************************************************************************)
EXTENDS DocumentStore

CONSTANTS
  PageSize           (* the limit of every page request                      *)

ASSUME CatalogAssumption == PageSize \in Nat \ {0}

VARIABLES
  index,             (* [gen, rows]: generation and row per session          *)
  cursor,            (* Option: the cursor a client holds, [gen, offset] and *)
                     (* the rows it was given over                           *)
  acked,             (* history: the revision each command acknowledged      *)
  gone               (* history: sessions whose deletion was acknowledged    *)

catalogVars == <<storeVars, index, cursor, acked, gone>>

NoRows == [s \in Ids |-> {}]

CatalogInit ==
  /\ StoreInit
  /\ index = [gen |-> 0, rows |-> NoRows]
  /\ cursor = {} /\ acked = [s \in Ids |-> 0] /\ gone = {}

(* rebuild_on_connection: the next generation of what a discovery finds. *)
Rebuilt == [gen |-> index.gen + 1, rows |-> Found]

----------------------------------------------------------------------------
(* Commands                                                                 *)

Command(op, s, pc, rev) == {[op |-> op, id |-> s, pc |-> pc, rev |-> rev]}

Create(s) ==
  /\ task = {} /\ folder[s] = "none"
  /\ task' = Command("create", s, "invalidate", 1)
  /\ UNCHANGED <<files, folder, pump, hurt, troubles, index, cursor, acked, gone>>

(* read_session discovers everything; if the session it asks for had to be  *)
(* recovered, the projection is rebuilt.                                    *)
Read(s) ==
  /\ task = {} /\ Found[s] # {}
  /\ files' = Discovered
  /\ index' = IF NeedsRecovery(files[s]) THEN Rebuilt ELSE index

(* The record is read before anything is written. *)
Update(s) ==
  /\ Read(s)
  /\ \E n \in Found[s] : n < MaxRevision /\ task' = Command("update", s, "invalidate", n + 1)
  /\ UNCHANGED <<folder, pump, hurt, troubles, cursor, acked, gone>>

Delete(s) ==
  /\ Read(s)
  /\ task' = Command("delete", s, "invalidate", 0)
  /\ UNCHANGED <<folder, pump, hurt, troubles, cursor, acked, gone>>

(* Fault: the projection is left alone until it is rebuilt.                *)
FaultyInvalidated == index

(* invalidate_projection_locked deletes the metadata row, not the rows. *)
Invalidated == [index EXCEPT !.gen = 0]

Invalidate ==
  /\ At("invalidate")
  /\ \/ index' = Invalidated /\ UNCHANGED troubles
        /\ Goto(CASE Task.op = "create" -> "make"
                  [] Task.op = "update" -> "validate"
                  [] Task.op = "delete" -> "trash")
     \/ Fail /\ Trouble /\ UNCHANGED index
  /\ UNCHANGED <<files, folder, pump, hurt, cursor, acked, gone>>

(* The command is acknowledged when the rebuild has seen its effect; an error *)
(* leaves the refresh pending.                                               *)
Refresh ==
  /\ At("refresh")
  /\ files' = Discovered
  /\ task' = {}
  /\ \/ /\ index' = Rebuilt /\ UNCHANGED troubles
        /\ IF Task.op = "delete"
             THEN gone' = gone \cup {Task.id} /\ UNCHANGED acked
             ELSE /\ acked' = IF Found[Task.id] # {} THEN [acked EXCEPT ![Task.id] = Task.rev] ELSE acked
                  /\ UNCHANGED gone
     \/ Trouble /\ UNCHANGED <<index, acked, gone>>
  /\ UNCHANGED <<folder, pump, hurt, cursor>>

(* list_sessions: without a projection it is rebuilt first.  A cursor of    *)
(* another generation is refused as stale; else a page from its offset on   *)
(* is returned, with a cursor if there are more rows.                       *)
Listed == IF index.gen = 0 THEN Rebuilt ELSE index

Current(held) == \A c \in held : c.gen = Listed.gen

Onwards(held) ==
  LET offset == IF held = {} THEN PageSize ELSE PageSize + (CHOOSE c \in held : TRUE).offset
  IN IF Cardinality({s \in Ids : Listed.rows[s] # {}}) > offset
       THEN {[gen |-> Listed.gen, offset |-> offset, rows |-> Listed.rows]} ELSE {}

(* The first page, or the page after the one the cursor came with. *)
Page(held) ==
  /\ task = {} /\ Current(held)
  /\ files' = IF index.gen = 0 THEN Discovered ELSE files
  /\ index' = Listed
  /\ cursor' = Onwards(held)
  /\ UNCHANGED <<folder, task, pump, hurt, troubles, acked, gone>>

StalePage ==
  /\ task = {} /\ ~Current(cursor)
  /\ files' = IF index.gen = 0 THEN Discovered ELSE files
  /\ index' = Listed
  /\ cursor' = {}
  /\ UNCHANGED <<folder, task, pump, hurt, troubles, acked, gone>>

(* The database is damaged, found out and put aside. *)
Quarantine ==
  /\ index # [gen |-> 0, rows |-> NoRows] /\ Trouble
  /\ index' = [gen |-> 0, rows |-> NoRows]
  /\ UNCHANGED <<files, folder, task, pump, hurt, cursor, acked, gone>>

CatalogNext ==
  \/ \E s \in Ids : Create(s) \/ Update(s) \/ Delete(s)
  \/ Invalidate \/ Refresh \/ Page({}) \/ Page(cursor) \/ StalePage \/ Quarantine
  \/ (StoreStep \/ Pump \/ Crash \/ \E s \in Ids : Damage(s)) /\ UNCHANGED <<index, cursor, acked, gone>>

CatalogSpec == CatalogInit /\ [][CatalogNext]_catalogVars

----------------------------------------------------------------------------
(* Properties.                                                              *)

(* An acknowledged revision can always be read again, from the document or  *)
(* by recovery from its backup: neither a crash at any step nor an update    *)
(* that fails halfway nor the pump's discovery beside it takes it back       *)
(* (update_session_with_fault, read_session_with_recovery).  Outside the     *)
(* promise are documents in `hurt`.                                         *)
AcknowledgedKept ==
  \A s \in Ids \ hurt :
    Live(s) /\ acked[s] > 0 => \E n \in Recovered(files[s]).doc : n # Damaged /\ n >= acked[s]

(* A listing is exactly what the documents hold, also after a crash or a    *)
(* fault between the write and the rebuild: the cached projection is never  *)
(* shown in place of a newer document, a deleted session is never shown     *)
(* (invalidate_projection_locked, list_sessions_locked).                    *)
ListedAsStored ==
  [][Page({}) =>
       \A s \in Ids \ hurt : index'.rows[s] = IF Live(s) THEN Recovered(files[s]).doc ELSE {}]_catalogVars

(* project-memory.md:717: "Return a fixed stale-page error after a rebuild   *)
(* rather than silently shifting results".  A cursor that is accepted must   *)
(* continue the rows it was given for.                                       *)
PagesDoNotShift ==
  [][Page(cursor) => \A c \in cursor : c.rows = index'.rows]_catalogVars

=============================================================================
