---------------------------- MODULE Storage_proofs ----------------------------
(***************************************************************************)
(* Proofs about what is stored beside a meeting's transcript: the models   *)
(* of the installer, for any catalog, any number of chunks and any changes *)
(* from outside; and the documents of sessions with the index over them,   *)
(* for any sessions, revisions and troubles.                               *)
(***************************************************************************)
EXTENDS SessionCatalog, ModelInstaller, TLAPS

AtMostOne(S) == \A x, y \in S : x = y

----------------------------------------------------------------------------
(* The installer.  A file is published only where its hash was looked at,   *)
(* so it has to be known that nothing touches the part between that look    *)
(* and the publication: the thread holds the manager's mutex, and what it   *)
(* does after a report or a clearing is decided before.                     *)

Places ==
  {"idle", "queued", "stage", "clear", "open", "forget", "remember", "copy", "verify",
   "hash", "ready", "publish", "tidy", "report", "done", "release"}

AfterReport == {"ready", "copy", "hash"}

InstallerTypes ==
  /\ final \in [Models -> {"none", "good", "bad"}]
  /\ part \in [Models -> [len : Nat, good : BOOLEAN]]
  /\ active \in SUBSET [model : Models, cancel : BOOLEAN] /\ AtMostOne(active)
  /\ run \in [at : Places, then : Places \cup {"failed"},
              outcome : {"nothing", "installed", "cancelled", "failed"}]
  /\ tampered \in Nat

(* The part of the model that is about to be published was found good.      *)
FoundGood == \A m \in Chosen : part[m].good

InstallerInv ==
  /\ InstallerTypes
  /\ run.at = "clear" => run.then \in {"open", "failed"}
  /\ run.at = "report" => run.then \in AfterReport
  /\ run.at \in {"ready", "publish"} => FoundGood
  /\ run.at = "report" /\ run.then = "ready" => FoundGood

(* Nothing but what the outside world puts there is published bad.          *)
NothingSpoiled ==
  \A m \in Models : final'[m] = "bad" /\ final[m] # "bad" => tampered' # tampered

(* The installer begins with its invariant.                                  *)
LEMMA InstallerInitHolds == InstallerInit => InstallerInv
BY InstallerAssumption DEF InstallerInit, InstallerInv, InstallerTypes, NoPart, NoRun, Places, AtMostOne

(* The thread goes on to a place before the hash was looked at, or after    *)
(* the file was published.                                                  *)
LEMMA ThreadGoesOn ==
  ASSUME InstallerInv, NEW m \in Chosen,
         UNCHANGED <<choiceVars, jobs, active, deleting, tampered>>,
         final' \in [Models -> {"none", "good", "bad"}],
         part' \in [Models -> [len : Nat, good : BOOLEAN]],
         run' \in [at : Places, then : Places \cup {"failed"},
                   outcome : {"nothing", "installed", "cancelled", "failed"}],
         run'.at = "clear" => run'.then \in {"open", "failed"},
         run'.at = "report" => run'.then \in AfterReport,
         run'.at \in {"ready", "publish"} => part'[m].good,
         run'.at = "report" /\ run'.then = "ready" => part'[m].good
  PROVE  InstallerInv'
<1>1. \A k \in Chosen' : k = m
  BY DEF InstallerInv, InstallerTypes, AtMostOne, Chosen
<1> QED
  BY <1>1 DEF InstallerInv, InstallerTypes, FoundGood

(* The empty part is a part.                                                 *)
LEMMA NoPartType == NoPart \in [len : Nat, good : BOOLEAN]
BY DEF NoPart

(* Where the thread is after it has announced something.                    *)
LEMMA AnnouncedPlace ==
  ASSUME InstallerInv, NEW status, NEW place \in AfterReport, Announce(status, place)
  PROVE  /\ run' \in [at : Places, then : Places \cup {"failed"},
                       outcome : {"nothing", "installed", "cancelled", "failed"}]
         /\ run'.at = place \/ (run'.at = "report" /\ run'.then = place)
BY DEF InstallerInv, InstallerTypes, Announce, Proceed, NoRun, Places, AfterReport

(* The steps of a download.                                                  *)
LEMMA DownloadStep ==
  ASSUME InstallerInv, Download
  PROVE  InstallerInv' /\ NothingSpoiled
<1> DEFINE Runs == [at : Places, then : Places \cup {"failed"},
                    outcome : {"nothing", "installed", "cancelled", "failed"}]
           Finals == [Models -> {"none", "good", "bad"}]
           Parts == [Models -> [len : Nat, good : BOOLEAN]]
<1>1. CASE Release
  BY <1>1 DEF Release, InstallerInv, InstallerTypes, NothingSpoiled, NoRun, Places, AtMostOne,
              fileVars, choiceVars
<1>2. ASSUME NEW m \in Chosen, Report(m) PROVE InstallerInv' /\ NothingSpoiled
  <2>1. /\ run.at = "report" /\ run.then \in AfterReport /\ run' = [NoRun EXCEPT !.at = run.then]
        /\ UNCHANGED <<final, part, active, tampered>>
    BY <1>2 DEF Report, Proceed, InstallerInv, fileVars, choiceVars
  <2>2. run' \in Runs /\ run'.at = run.then
    BY <2>1 DEF NoRun, Places, AfterReport
  <2> QED
    BY <2>1, <2>2 DEF InstallerInv, InstallerTypes, FoundGood, Chosen, NothingSpoiled, AfterReport
<1>3. ASSUME NEW m \in Chosen, Account(m) PROVE InstallerInv' /\ NothingSpoiled
  <2>1. run' = [NoRun EXCEPT !.at = "release"] /\ UNCHANGED <<final, part, active, tampered>>
    BY <1>3 DEF Account, Proceed, fileVars, choiceVars
  <2>2. run' \in Runs /\ run'.at = "release"
    BY <2>1 DEF NoRun, Places
  <2> QED
    BY <2>1, <2>2 DEF InstallerInv, InstallerTypes, NothingSpoiled
<1>4. ASSUME NEW m \in Chosen,
             \/ Start(m) \/ Stage(m) \/ ClearStaging(m) \/ Open(m) \/ ForgetMetadata(m)
             \/ WriteMetadata(m) \/ CopyChunk(m) \/ EndCopy(m) \/ VerifyPart(m) \/ Hash(m)
             \/ Ready(m) \/ Publish(m) \/ Tidy(m) \/ FailDownload(m)
      PROVE  InstallerInv' /\ NothingSpoiled
  <2>0. /\ m \in Models /\ final \in Finals /\ part \in Parts /\ run \in Runs
        /\ run.at \in {"ready", "publish"} => part[m].good
    BY DEF Chosen, InstallerInv, InstallerTypes, FoundGood
  <2> DEFINE Carried ==
        /\ UNCHANGED <<choiceVars, jobs, active, deleting, tampered>>
        /\ final' \in Finals /\ part' \in Parts /\ run' \in Runs
        /\ \A k \in Models : final'[k] = "bad" => final[k] = "bad"
        /\ run'.at = "clear" => run'.then \in {"open", "failed"}
        /\ run'.at = "report" => run'.then \in AfterReport
        /\ run'.at \in {"ready", "publish"} => part'[m].good
        /\ run'.at = "report" /\ run'.then = "ready" => part'[m].good
  <2> SUFFICES Carried
    BY <2>0, ThreadGoesOn DEF NothingSpoiled
  <2>1. CASE Start(m)
    BY <2>0, <2>1 DEF Start, Return, Proceed, NoRun, OnlyRun, Places
  <2>2. CASE Stage(m)
    <3>1. UNCHANGED <<final, part>> /\ OnlyRun /\ run.at = "stage"
      BY <2>2 DEF Stage
    <3>2. \/ Proceed("open") \/ Clear("open")
          \/ part[m].good /\ Announce("verifying", "ready")
      BY <2>2 DEF Stage
    <3>3. CASE Proceed("open") \/ Clear("open")
      BY <2>0, <3>1, <3>3 DEF Proceed, Clear, NoRun, OnlyRun, Places
    <3>4. CASE part[m].good /\ Announce("verifying", "ready")
      BY <2>0, <3>1, <3>4, AnnouncedPlace DEF OnlyRun, AfterReport
    <3> QED
      BY <3>2, <3>3, <3>4
  <2>3. CASE ClearStaging(m)
    <3>1. OnlyRun /\ UNCHANGED final /\ run.at = "clear" /\ run.then \in {"open", "failed"}
      BY <2>3 DEF ClearStaging, InstallerInv
    <3>2. part' \in Parts
      BY <2>0, <2>3, NoPartType DEF ClearStaging
    <3>3. UNCHANGED run \/ Return("failed") \/ Proceed("open")
      BY <3>1, <2>3 DEF ClearStaging
    <3>4. run' \in Runs /\ (run'.at = "clear" => run'.then = run.then)
          /\ run'.at \in {"clear", "done", "open"}
      BY <2>0, <3>1, <3>3 DEF Return, Proceed, NoRun, Places
    <3> QED
      BY <2>0, <3>1, <3>2, <3>4 DEF OnlyRun
  <2>4. CASE Open(m)
    <3>1. OnlyRun /\ UNCHANGED final /\ (Return("cancelled") \/ Proceed("forget"))
      BY <2>4 DEF Open
    <3>2. part' \in Parts
      BY <2>0, <2>4, NoPartType DEF Open
    <3> QED
      BY <2>0, <3>1, <3>2 DEF Return, Proceed, NoRun, OnlyRun, Places
  <2>5. CASE ForgetMetadata(m)
    BY <2>0, <2>5 DEF ForgetMetadata, Proceed, NoRun, OnlyRun, Places
  <2>6. CASE WriteMetadata(m)
    <3>1. Announce("downloading", "copy") /\ OnlyRun /\ UNCHANGED <<final, part>>
      BY <2>6 DEF WriteMetadata
    <3> QED
      BY <2>0, <3>1, AnnouncedPlace DEF OnlyRun, AfterReport
  <2>7. CASE CopyChunk(m)
    <3>1. OnlyRun /\ UNCHANGED final /\ run.at = "copy"
      BY <2>7 DEF CopyChunk
    <3>2. part' \in Parts
      BY <2>0, <2>7 DEF CopyChunk
    <3>3. Return("cancelled") \/ Announce("downloading", "copy") \/ Clear("failed")
      BY <2>7 DEF CopyChunk
    <3>4. CASE Announce("downloading", "copy")
      BY <2>0, <3>1, <3>2, <3>4, AnnouncedPlace DEF OnlyRun, AfterReport
    <3>5. CASE Return("cancelled") \/ Clear("failed")
      BY <2>0, <3>1, <3>2, <3>5 DEF Return, Clear, OnlyRun, Places
    <3> QED
      BY <3>3, <3>4, <3>5
  <2>8. CASE EndCopy(m)
    BY <2>0, <2>8 DEF EndCopy, Return, Proceed, NoRun, OnlyRun, Places, fileVars
  <2>9. CASE VerifyPart(m)
    <3>1. OnlyRun /\ UNCHANGED <<final, part>>
      BY <2>9 DEF VerifyPart, fileVars
    <3>2. Return("cancelled") \/ Announce("verifying", "hash")
      BY <2>9 DEF VerifyPart
    <3>3. CASE Announce("verifying", "hash")
      BY <2>0, <3>1, <3>3, AnnouncedPlace DEF OnlyRun, AfterReport
    <3> QED
      BY <2>0, <3>1, <3>2, <3>3 DEF Return, OnlyRun, Places
  <2>10. CASE Hash(m)
    BY <2>0, <2>10 DEF Hash, Clear, Proceed, NoRun, OnlyRun, Places, fileVars
  <2>11. CASE Ready(m)
    BY <2>0, <2>11 DEF Ready, Return, Proceed, NoRun, OnlyRun, Places, fileVars
  <2>12. CASE Publish(m)
    BY <2>0, <2>12 DEF Publish, Proceed, NoRun, NoPart, OnlyRun, Places
  <2>13. CASE Tidy(m)
    BY <2>0, <2>13 DEF Tidy, Return, OnlyRun, Places
  <2>14. CASE FailDownload(m)
    BY <2>0, <2>14 DEF FailDownload, Return, OnlyRun, Places, fileVars
  <2> QED
    BY <1>4, <2>1, <2>2, <2>3, <2>4, <2>5, <2>6, <2>7, <2>8, <2>9, <2>10, <2>11, <2>12, <2>13, <2>14
<1> QED
  BY <1>1, <1>2, <1>3, <1>4 DEF Download

(* What runs beside the thread: it touches no part while the mutex is held. *)
LEMMA BesideStep ==
  ASSUME InstallerInv, Cancel \/ Restart \/ UNCHANGED installerVars
  PROVE  InstallerInv' /\ NothingSpoiled
<1>1. CASE Cancel
  <2>1. PICK a \in active : /\ active' = {[a EXCEPT !.cancel = TRUE]}
                            /\ UNCHANGED <<final, part, run, tampered>>
    BY <1>1 DEF Cancel, fileVars, choiceVars
  <2>2. a \in [model : Models, cancel : BOOLEAN]
    BY DEF InstallerInv, InstallerTypes
  <2>3. PICK b : b = [a EXCEPT !.cancel = TRUE]
    OBVIOUS
  <2>3a. b \in [model : Models, cancel : BOOLEAN] /\ b.model = a.model
    BY <2>2, <2>3
  <2>4. active' = {b}
    BY <2>1, <2>3
  <2>5. \A k \in Chosen' : k = b.model
    BY <2>4 DEF Chosen
  <2>6. b.model \in Chosen
    BY <2>3a DEF Chosen
  <2>7. /\ active' \in SUBSET [model : Models, cancel : BOOLEAN] /\ AtMostOne(active')
        /\ \A k \in Chosen' : k \in Chosen
    BY <2>3a, <2>4, <2>5, <2>6 DEF AtMostOne
  <2> QED
    BY <2>1, <2>7 DEF InstallerInv, InstallerTypes, FoundGood, NothingSpoiled
<1>2. CASE Restart
  <2>1. part' \in [Models -> [len : Nat, good : BOOLEAN]]
    BY <1>2 DEF Restart, InstallerInv, InstallerTypes
  <2>2. run' = NoRun /\ active' = {} /\ UNCHANGED <<final, tampered>>
    BY <1>2 DEF Restart
  <2> QED
    BY <2>1, <2>2 DEF InstallerInv, InstallerTypes, AtMostOne, NothingSpoiled, NoRun, Places
<1>3. CASE UNCHANGED installerVars
  BY <1>3 DEF installerVars, fileVars, choiceVars, InstallerInv, InstallerTypes, FoundGood, Chosen,
              NothingSpoiled
<1> QED
  BY <1>1, <1>2, <1>3

(* The commands beside it, and hands other than the installer's.             *)
LEMMA CommandStep ==
  ASSUME InstallerInv, NEW m \in Models,
         \/ Queue(m) \/ SetDefault(m) \/ Tamper(m)
         \/ DeleteAsked(m) \/ DeleteAllowed(m) \/ DeleteFiles(m) \/ DeleteJobs(m)
  PROVE  InstallerInv' /\ NothingSpoiled
<1>1. CASE Queue(m)
  <2>1. /\ run' = [NoRun EXCEPT !.at = "queued"] /\ active' = {[model |-> m, cancel |-> FALSE]}
        /\ UNCHANGED <<final, part, tampered>>
    BY <1>1 DEF Queue, fileVars, choiceVars
  <2>2. /\ run'.at = "queued"
        /\ run' \in [at : Places, then : Places \cup {"failed"},
                      outcome : {"nothing", "installed", "cancelled", "failed"}]
    BY <2>1 DEF NoRun, Places
  <2> QED
    BY <2>1, <2>2 DEF InstallerInv, InstallerTypes, AtMostOne, NothingSpoiled
<1>2. CASE DeleteFiles(m)
  <2>1. /\ ~Installing /\ UNCHANGED <<run, active, tampered>>
        /\ final' \in {final, [final EXCEPT ![m] = "none"]}
        /\ part' \in {part, [part EXCEPT ![m] = NoPart]}
    BY <1>2 DEF DeleteFiles, OnlyDelete, fileVars, choiceVars
  <2>2. /\ final' \in [Models -> {"none", "good", "bad"}]
        /\ \A k \in Models : final'[k] = "bad" => final[k] = "bad"
    BY <2>1 DEF InstallerInv, InstallerTypes
  <2>3. part' \in [Models -> [len : Nat, good : BOOLEAN]]
    BY <2>1, NoPartType DEF InstallerInv, InstallerTypes
  <2> QED
    BY <2>1, <2>2, <2>3 DEF InstallerInv, InstallerTypes, NothingSpoiled, Installing
<1>3. CASE Tamper(m)
  BY <1>3 DEF Tamper, InstallerInv, InstallerTypes, FoundGood, Chosen, NothingSpoiled
<1>4. CASE SetDefault(m) \/ DeleteAsked(m) \/ DeleteAllowed(m) \/ DeleteJobs(m)
  <2>1. UNCHANGED <<final, part, run, active, tampered>>
    BY <1>4 DEF SetDefault, DeleteAsked, DeleteAllowed, DeleteJobs, OnlyDelete, fileVars, choiceVars
  <2> QED
    BY <2>1 DEF InstallerInv, InstallerTypes, FoundGood, Chosen, NothingSpoiled
<1> QED
  BY <1>1, <1>2, <1>3, <1>4

(* Every step keeps the invariant and publishes only what was verified.      *)
LEMMA InstallerStep ==
  InstallerInv /\ [InstallerNext]_installerVars => InstallerInv' /\ NothingSpoiled
BY DownloadStep, BesideStep, CommandStep DEF InstallerNext

(* The inductive invariant of the installer: the part of a model that is     *)
(* about to be published is the one whose hash was found right.              *)
THEOREM InstallerInvariant == InstallerSpec => []InstallerInv
BY InstallerInitHolds, InstallerStep, PTL DEF InstallerSpec

(* Only verified files are published: a file with other bytes than the       *)
(* catalog's got there from outside, for any catalog, any number of chunks,  *)
(* cancellations, resumptions and restarts, and any server.                  *)
THEOREM OnlyVerifiedPublished == InstallerSpec => PublishedVerified
<1>1. InstallerInv /\ [InstallerNext]_installerVars => [NothingSpoiled]_installerVars
  BY InstallerStep
<1> QED
  BY <1>1, InstallerInvariant, PTL DEF InstallerSpec, PublishedVerified, NothingSpoiled

----------------------------------------------------------------------------
(* The documents of sessions.  What can be read of a document that no other *)
(* program touched is what it holds, or its backup when it is missing.      *)

Revisions == {{n} : n \in Nat}

Options == {{}} \cup Revisions

Intact == [doc : Options, backup : Options, temp : Options]

Contents == Options \cup {{Damaged}}

FileRecords == [doc : Contents, backup : Contents, temp : Contents]

Best(f) == IF f.doc = {} THEN f.backup ELSE f.doc

TaskRecords ==
  [op : {"create", "update", "delete"}, id : Ids, rev : Nat,
   pc : {"invalidate", "make", "new_temp", "new_publish", "validate", "temp",
         "backup", "replace", "verify", "trash", "refresh"}]

PumpRecords ==
  [id : Ids, pc : {"recheck", "temp", "publish"}, seen : Contents, missing : BOOLEAN]

CatalogTypes ==
  /\ files \in [Ids -> FileRecords]
  /\ folder \in [Ids -> {"none", "live", "trash"}]
  /\ task \in SUBSET TaskRecords /\ AtMostOne(task)
  /\ pump \in SUBSET PumpRecords /\ AtMostOne(pump)
  /\ acked \in [Ids -> Nat]
  /\ index \in [gen : Nat, rows : [Ids -> Contents]]
  /\ troubles \in Nat

(* A session that no other program and no stale recovery touched: what was   *)
(* acknowledged is there, and an index with a generation shows it.           *)
Unspoiled(s) ==
  /\ files[s] \in Intact
  /\ Live(s) /\ acked[s] > 0 => \E n \in Best(files[s]) : n >= acked[s]
  /\ index.gen # 0 => index.rows[s] = IF Live(s) THEN Best(files[s]) ELSE {}

SessionKept(s) ==
  /\ folder[s] = "none" => files[s] = NoFiles /\ acked[s] = 0
  /\ s \notin hurt => Unspoiled(s)

(* The pump recovers a missing document, and while it is missing there is no *)
(* other temporary file than the pump's.                                     *)
PumpRecovers(p) ==
  /\ Live(p.id)
  /\ p.id \notin hurt =>
       /\ p.pc # "recheck" => p.missing /\ p.seen \in Revisions
       /\ p.pc = "publish" /\ files[p.id].doc = {} => files[p.id].temp \subseteq p.seen

(* What a command has read and written so far, while the index has no        *)
(* generation.                                                               *)
Creating(t) ==
  /\ t.rev = 1 /\ t.pc \in {"invalidate", "make", "new_temp", "new_publish", "refresh"}
  /\ t.pc \in {"invalidate", "make"} => folder[t.id] = "none"
  /\ t.pc \in {"new_temp", "new_publish"} =>
       /\ Live(t.id) /\ acked[t.id] = 0
       /\ files[t.id].doc = {} /\ files[t.id].backup = {}
       /\ \A p \in pump : p.id # t.id
  /\ t.pc = "new_publish" => files[t.id].temp \subseteq {1}
  /\ t.pc = "refresh" => Live(t.id) /\ (t.id \notin hurt => files[t.id].doc = {1})

Updating(t) ==
  /\ t.rev >= 1 /\ Live(t.id)
  /\ t.pc \in {"invalidate", "validate", "temp", "backup", "replace", "verify", "refresh"}
  /\ t.id \notin hurt =>
       /\ t.pc \in {"temp", "backup", "replace"} => files[t.id].doc = {t.rev - 1}
       /\ t.pc \in {"backup", "replace"} => files[t.id].temp \subseteq {t.rev}
       /\ t.pc \in {"verify", "refresh"} => files[t.id].doc = {t.rev}
       /\ t.pc = "verify" => files[t.id].backup = {t.rev - 1} /\ acked[t.id] <= t.rev - 1

Deleting(t) ==
  t.pc \in {"invalidate", "trash", "refresh"} /\ (t.pc # "refresh" => Live(t.id))

CommandHolds(t) ==
  /\ t.op = "create" => Creating(t)
  /\ t.op = "update" => Updating(t)
  /\ t.op = "delete" => Deleting(t)
  /\ t.pc # "invalidate" => index.gen = 0

CatalogInv ==
  /\ CatalogTypes
  /\ \A s \in Ids : SessionKept(s)
  /\ \A p \in pump : PumpRecovers(p)
  /\ \A t \in task : CommandHolds(t)

(* The documents begin with their invariant.                                 *)
LEMMA CatalogInitHolds == CatalogInit => CatalogInv
BY DEF CatalogInit, StoreInit, CatalogInv, CatalogTypes, SessionKept, Unspoiled, NoFiles, NoRows,
       FileRecords, Contents, Options, Intact, Live, AtMostOne

(* The options of revisions. *)
LEMMA OptionFacts ==
  /\ \A n \in Nat : {n} \in Revisions /\ {n} \in Options /\ {n} \in Contents
  /\ {} \in Options /\ {} \in Contents /\ {Damaged} \in Contents
  /\ \A x \in Options : Valid(x) <=> x # {}
  /\ \A x \in Options : x # {} => x \in Revisions
  /\ \A x \in Options : x \in Contents
  /\ \A x \in Revisions : x \in Options /\ x # {}
  /\ \A x \in Contents : Valid(x) => x \in Revisions
  /\ \A x \in Revisions : \E n \in Nat : x = {n}
BY DocumentAssumption DEF Revisions, Options, Contents, Valid

(* What the steps do to the files of one session. *)
LEMMA FieldFacts ==
  ASSUME NEW f \in FileRecords, NEW x \in Contents
  PROVE  /\ f.doc \in Contents /\ f.backup \in Contents /\ f.temp \in Contents
         /\ [f EXCEPT !.temp = x] \in FileRecords
         /\ [f EXCEPT !.temp = x].doc = f.doc /\ [f EXCEPT !.temp = x].backup = f.backup
         /\ [f EXCEPT !.temp = x].temp = x
         /\ [f EXCEPT !.backup = x] \in FileRecords
         /\ [f EXCEPT !.backup = x].doc = f.doc /\ [f EXCEPT !.backup = x].backup = x
         /\ [f EXCEPT !.backup = x].temp = f.temp
         /\ [f EXCEPT !.doc = x] \in FileRecords
         /\ [f EXCEPT !.doc = x].doc = x /\ [f EXCEPT !.doc = x].backup = f.backup
         /\ [f EXCEPT !.doc = x].temp = f.temp
BY DEF FileRecords

(* Publication puts the temporary file in the document's place and leaves    *)
(* the backup.                                                               *)
LEMMA PublishedFacts ==
  ASSUME NEW f \in FileRecords, NEW x \in Contents
  PROVE  /\ [f EXCEPT !.doc = x, !.temp = {}] \in FileRecords
         /\ [f EXCEPT !.doc = x, !.temp = {}].doc = x
         /\ [f EXCEPT !.doc = x, !.temp = {}].backup = f.backup
         /\ [f EXCEPT !.doc = x, !.temp = {}].temp = {}
BY OptionFacts DEF FileRecords

(* Files are intact when every one of them is an option.                     *)
LEMMA IntactFacts ==
  /\ \A f \in Intact : f \in FileRecords /\ f.doc \in Options /\ f.backup \in Options /\ f.temp \in Options
  /\ \A f \in FileRecords : f.doc \in Options /\ f.backup \in Options /\ f.temp \in Options => f \in Intact
BY OptionFacts DEF Intact, FileRecords

(* A recovering read changes nothing that can be read. *)
LEMMA RecoveredFacts ==
  ASSUME NEW f \in FileRecords
  PROVE  /\ Recovered(f) \in FileRecords
         /\ Recovered(f).backup = f.backup
         /\ Recovered(f).temp = f.temp \/ Recovered(f).temp = {}
         /\ f \in Intact =>
              /\ Recovered(f) \in Intact
              /\ Recovered(f).doc = Best(f) /\ Best(Recovered(f)) = Best(f)
              /\ f.doc # {} => Recovered(f).doc = f.doc
<1>1. CASE Valid(f.doc)
  <2>1. f.doc # {} /\ {} \in Contents /\ {} \in Options
    BY <1>1, OptionFacts DEF Valid
  <2>2. PICK g : g = [f EXCEPT !.temp = {}]
    OBVIOUS
  <2>3. Recovered(f) = g
    BY <1>1, <2>2 DEF Recovered
  <2>4. g \in FileRecords /\ g.doc = f.doc /\ g.backup = f.backup /\ g.temp = {}
    BY <2>1, <2>2, FieldFacts
  <2>5. f \in Intact => g \in Intact
    BY <2>1, <2>4, IntactFacts
  <2> QED
    BY <2>1, <2>3, <2>4, <2>5 DEF Best
<1>2. CASE ~Valid(f.doc) /\ Valid(f.backup)
  <2>1. f.backup \in Contents /\ f.backup # {} /\ {} \in Options
    BY <1>2, OptionFacts DEF FileRecords, Valid
  <2>2. PICK g : g = [f EXCEPT !.doc = f.backup, !.temp = {}]
    OBVIOUS
  <2>3. Recovered(f) = g
    BY <1>2, <2>2 DEF Recovered
  <2>4. PICK x : x = f.backup
    OBVIOUS
  <2>5. g \in FileRecords /\ g.doc = x /\ g.backup = x /\ g.temp = {}
    BY <2>1, <2>2, <2>4, PublishedFacts
  <2>6. f \in Intact => f.doc = {} /\ g \in Intact
    BY <1>2, <2>1, <2>4, <2>5, IntactFacts, OptionFacts
  <2> QED
    BY <2>1, <2>3, <2>4, <2>5, <2>6 DEF Best
<1>3. CASE ~Valid(f.doc) /\ ~Valid(f.backup)
  <2>1. Recovered(f) = f
    BY <1>3 DEF Recovered
  <2>2. f \in Intact => f.doc = {} /\ f.backup = {}
    BY <1>3, IntactFacts, OptionFacts
  <2> QED
    BY <2>1, <2>2 DEF Best
<1> QED
  BY <1>1, <1>2, <1>3

(* The command at work. *)
LEMMA TaskFacts ==
  ASSUME CatalogInv, NEW pc, At(pc)
  PROVE  \E t \in TaskRecords :
           /\ task = {t} /\ Task = t /\ t.pc = pc /\ CommandHolds(t)
           /\ t.id \in Ids /\ t.rev \in Nat /\ Mine = files[t.id] /\ files[t.id] \in FileRecords
<1>1. PICK t \in task : t.pc = pc
  BY DEF At
<1>2. task = {t}
  BY <1>1 DEF CatalogInv, CatalogTypes, AtMostOne
<1>3. Task = t
  BY <1>2 DEF Task
<1> QED
  BY <1>1, <1>2, <1>3 DEF CatalogInv, CatalogTypes, TaskRecords, Mine

Steps ==
  {"invalidate", "make", "new_temp", "new_publish", "validate", "temp", "backup", "replace",
   "verify", "trash", "refresh"}

(* The command goes on. *)
LEMMA GoesOn ==
  ASSUME NEW t \in TaskRecords, Task = t, NEW to \in Steps, Goto(to)
  PROVE  \E b \in TaskRecords :
           task' = {b} /\ b.pc = to /\ b.id = t.id /\ b.op = t.op /\ b.rev = t.rev
<1>1. PICK b : b = [t EXCEPT !.pc = to]
  OBVIOUS
<1>2. b \in TaskRecords /\ b.pc = to /\ b.id = t.id /\ b.op = t.op /\ b.rev = t.rev
  BY <1>1 DEF TaskRecords, Steps
<1>3. task' = {b}
  BY <1>1 DEF Goto
<1> QED
  BY <1>2, <1>3

(* A step of a command after the invalidation touches its session only, and *)
(* there is no index that it could spoil.                                   *)
LEMMA CommandStepKeeps ==
  ASSUME CatalogInv, NEW t \in TaskRecords, task = {t}, t.pc # "invalidate",
         UNCHANGED <<index, acked, pump, hurt>>, troubles' \in Nat,
         files' \in [Ids -> FileRecords], folder' \in [Ids -> {"none", "live", "trash"}],
         \A s \in Ids : s # t.id => files'[s] = files[s] /\ folder'[s] = folder[s],
         SessionKept(t.id)',
         \A p \in pump : p.id = t.id => PumpRecovers(p)',
         task' \in SUBSET TaskRecords, AtMostOne(task'),
         \A b \in task' : CommandHolds(b)'
  PROVE  CatalogInv'
<1>1. CatalogTypes'
  BY DEF CatalogInv, CatalogTypes
<1>2. \A s \in Ids : SessionKept(s)'
  BY DEF CatalogInv, SessionKept, Unspoiled, Live
<1>3. ASSUME NEW p \in pump' PROVE PumpRecovers(p)'
  <2>1. p \in pump /\ p.id \in Ids
    BY <1>1 DEF CatalogTypes, PumpRecords
  <2> QED
    BY <2>1 DEF CatalogInv, PumpRecovers, Live
<1> QED
  BY <1>1, <1>2, <1>3 DEF CatalogInv

(* What happens to the files of the session at hand. *)
LEMMA StoreFacts ==
  ASSUME CatalogInv, NEW k \in Ids, NEW g \in FileRecords, Store(k, g)
  PROVE  /\ files' \in [Ids -> FileRecords] /\ files'[k] = g
         /\ \A s \in Ids : s # k => files'[s] = files[s]
BY DEF CatalogInv, CatalogTypes, Store

(* One folder is moved.                                                      *)
LEMMA FolderFacts ==
  ASSUME CatalogInv, NEW k \in Ids, NEW w \in {"none", "live", "trash"},
         folder' = [folder EXCEPT ![k] = w]
  PROVE  /\ folder' \in [Ids -> {"none", "live", "trash"}] /\ folder'[k] = w
         /\ \A s \in Ids : s # k => folder'[s] = folder[s]
BY DEF CatalogInv, CatalogTypes

(* What the proofs of all steps use of the invariant.                        *)
LEMMA SameFacts ==
  ASSUME CatalogInv
  PROVE  /\ files \in [Ids -> FileRecords] /\ folder \in [Ids -> {"none", "live", "trash"}]
         /\ troubles \in Nat /\ (Trouble => troubles' \in Nat)
         /\ \A s \in Ids : acked[s] \in Nat /\ SessionKept(s)
         /\ \A p \in pump : PumpRecovers(p) /\ p \in PumpRecords
BY DEF CatalogInv, CatalogTypes, Trouble

(* create_session: the folder, then the document in it.                     *)
LEMMA CreatingKeeps ==
  ASSUME CatalogInv, MakeFolder \/ WriteNew \/ PublishNew, UNCHANGED <<index, acked>>
  PROVE  CatalogInv'
<1>1. PICK t \in TaskRecords :
        /\ task = {t} /\ Task = t /\ t.pc \in {"make", "new_temp", "new_publish"} /\ CommandHolds(t)
        /\ (MakeFolder => t.pc = "make") /\ (WriteNew => t.pc = "new_temp")
        /\ (PublishNew => t.pc = "new_publish")
        /\ t.id \in Ids /\ Mine = files[t.id] /\ files[t.id] \in FileRecords
  <2>1. CASE MakeFolder
    BY <2>1, TaskFacts DEF MakeFolder, WriteNew, PublishNew, At
  <2>2. CASE WriteNew
    BY <2>2, TaskFacts DEF MakeFolder, WriteNew, PublishNew, At
  <2>3. CASE PublishNew
    BY <2>3, TaskFacts DEF MakeFolder, WriteNew, PublishNew, At
  <2> QED
    BY <2>1, <2>2, <2>3
<1>2. t.op = "create" /\ Creating(t) /\ t.rev = 1 /\ index.gen = 0
  BY <1>1 DEF CommandHolds, Updating, Deleting, Creating, TaskRecords
<1>3. \A p \in pump : p.id # t.id
  BY <1>1, <1>2, SameFacts DEF Creating, PumpRecovers, Live
<1> DEFINE Others == \A s \in Ids : s # t.id => files'[s] = files[s] /\ folder'[s] = folder[s]
<1>4. CASE MakeFolder
  <2>1. folder[t.id] = "none" /\ files[t.id] = NoFiles /\ acked[t.id] = 0
    BY <1>1, <1>2, <1>4, SameFacts DEF Creating, SessionKept
  <2>2. NoFiles \in Intact
    BY OptionFacts DEF NoFiles, Intact
  <2>3. UNCHANGED <<files, pump, hurt>>
    BY <1>4 DEF MakeFolder
  <2>4. CASE folder' = [folder EXCEPT ![Task.id] = "live"] /\ Goto("new_temp") /\ UNCHANGED troubles
    <3>1. PICK b \in TaskRecords :
            task' = {b} /\ b.pc = "new_temp" /\ b.id = t.id /\ b.op = t.op /\ b.rev = t.rev
      BY <1>1, <2>4, GoesOn DEF Steps
    <3>2. folder' \in [Ids -> {"none", "live", "trash"}] /\ folder'[t.id] = "live" /\ Others
      BY <1>1, <2>3, <2>4, FolderFacts
    <3>3. CommandHolds(b)'
      BY <1>2, <1>3, <2>1, <2>3, <3>1, <3>2 DEF CommandHolds, Creating, Live, NoFiles
    <3>4. SessionKept(t.id)'
      BY <1>2, <2>1, <2>2, <2>3, <3>2 DEF SessionKept, Unspoiled, Live
    <3> QED
      BY <1>1, <1>3, <2>3, <2>4, <3>1, <3>2, <3>3, <3>4, CommandStepKeeps, SameFacts DEF AtMostOne
  <2>5. CASE Fail /\ Trouble /\ UNCHANGED folder
    <3>1. SessionKept(t.id)'
      BY <1>1, <2>3, <2>5, SameFacts DEF SessionKept, Unspoiled, Live
    <3> QED
      BY <1>1, <1>3, <2>3, <2>5, <3>1, CommandStepKeeps, SameFacts DEF AtMostOne, Fail
  <2> QED
    BY <1>4, <2>4, <2>5 DEF MakeFolder
<1>5. ASSUME RemoveFolder, acked[t.id] = 0, troubles' \in Nat, UNCHANGED <<pump, hurt>>
      PROVE  CatalogInv'
  <2>1. NoFiles \in FileRecords /\ NoFiles \in Intact
    BY OptionFacts, IntactFacts DEF NoFiles, Intact
  <2>2. files' \in [Ids -> FileRecords] /\ files'[t.id] = NoFiles
    BY <1>1, <1>5, <2>1, StoreFacts DEF RemoveFolder
  <2>3. folder' \in [Ids -> {"none", "live", "trash"}] /\ folder'[t.id] = "none"
    BY <1>1, <1>5, FolderFacts DEF RemoveFolder
  <2>4. Others
    BY <1>1, <1>5, <2>1, StoreFacts, FolderFacts DEF RemoveFolder
  <2>5. SessionKept(t.id)'
    BY <1>2, <1>5, <2>1, <2>2, <2>3 DEF SessionKept, Unspoiled, Live
  <2> QED
    BY <1>1, <1>3, <1>5, <2>2, <2>3, <2>4, <2>5, CommandStepKeeps DEF AtMostOne, RemoveFolder, Fail
<1>6. CASE WriteNew
  <2>1. Live(t.id) /\ acked[t.id] = 0 /\ files[t.id].doc = {} /\ files[t.id].backup = {}
    BY <1>1, <1>2, <1>6 DEF Creating
  <2>2. CASE RemoveFolder /\ Trouble
    BY <1>5, <1>6, <2>1, <2>2, SameFacts DEF WriteNew
  <2>3. CASE Store(Task.id, [Mine EXCEPT !.temp = {Task.rev}]) /\ Goto("new_publish")
             /\ UNCHANGED <<folder, troubles>>
    <3>1. PICK b \in TaskRecords :
            task' = {b} /\ b.pc = "new_publish" /\ b.id = t.id /\ b.op = t.op /\ b.rev = t.rev
      BY <1>1, <2>3, GoesOn DEF Steps
    <3>2. PICK g : g = [files[t.id] EXCEPT !.temp = {1}]
      OBVIOUS
    <3>3. {1} \in Contents /\ {1} \in Options /\ {} \in Options
      BY OptionFacts
    <3>4. g \in FileRecords /\ g.doc = {} /\ g.backup = {} /\ g.temp = {1}
      BY <1>1, <2>1, <3>2, <3>3, FieldFacts
    <3>5. g \in Intact
      BY <3>3, <3>4, IntactFacts
    <3>6. files' \in [Ids -> FileRecords] /\ files'[t.id] = g /\ Others
      BY <1>1, <1>2, <2>3, <3>2, <3>4, StoreFacts
    <3>7. UNCHANGED <<folder, pump, hurt, troubles>>
      BY <1>6, <2>3 DEF WriteNew
    <3>8. CommandHolds(b)'
      BY <1>2, <1>3, <2>1, <3>1, <3>4, <3>6, <3>7 DEF CommandHolds, Creating, Live
    <3>9. SessionKept(t.id)'
      BY <1>2, <2>1, <3>5, <3>6, <3>7 DEF SessionKept, Unspoiled, Live
    <3> QED
      BY <1>1, <1>3, <3>1, <3>6, <3>7, <3>8, <3>9, CommandStepKeeps, SameFacts DEF AtMostOne
  <2> QED
    BY <1>6, <2>2, <2>3 DEF WriteNew
<1>7. CASE PublishNew
  <2>1. /\ Live(t.id) /\ acked[t.id] = 0 /\ files[t.id].doc = {} /\ files[t.id].backup = {}
        /\ files[t.id].temp \subseteq {1}
    BY <1>1, <1>2, <1>7 DEF Creating
  <2>2. CASE RemoveFolder /\ (IF Publishable(Mine, TRUE) THEN Trouble ELSE UNCHANGED troubles)
    <3>1. troubles' \in Nat /\ UNCHANGED <<pump, hurt>>
      BY <1>7, <2>2, SameFacts DEF PublishNew
    <3> QED
      BY <1>5, <2>1, <2>2, <3>1
  <2>3. CASE Publishable(Mine, TRUE) /\ Store(Task.id, [Mine EXCEPT !.doc = Mine.temp, !.temp = {}])
             /\ Goto("refresh") /\ UNCHANGED <<folder, troubles>>
    <3>1. PICK b \in TaskRecords :
            task' = {b} /\ b.pc = "refresh" /\ b.id = t.id /\ b.op = t.op /\ b.rev = t.rev
      BY <1>1, <2>3, GoesOn DEF Steps
    <3>2. files[t.id].temp = {1}
      BY <1>1, <2>1, <2>3 DEF Publishable
    <3>3. PICK g : g = [files[t.id] EXCEPT !.doc = {1}, !.temp = {}]
      OBVIOUS
    <3>4. {1} \in Contents /\ {1} \in Options /\ {} \in Options
      BY OptionFacts
    <3>5. g \in FileRecords /\ g.doc = {1} /\ g.backup = {} /\ g.temp = {}
      BY <1>1, <2>1, <3>3, <3>4, PublishedFacts
    <3>6. g \in Intact
      BY <3>4, <3>5, IntactFacts
    <3>7. Store(t.id, g)
      BY <1>1, <2>3, <3>2, <3>3
    <3>8. files' \in [Ids -> FileRecords] /\ files'[t.id] = g /\ Others
      BY <1>1, <2>3, <3>5, <3>7, StoreFacts
    <3>9. UNCHANGED <<folder, pump, hurt, troubles>>
      BY <1>7, <2>3 DEF PublishNew
    <3>10. CommandHolds(b)'
      BY <1>2, <2>1, <3>1, <3>5, <3>8, <3>9 DEF CommandHolds, Creating, Live
    <3>11. SessionKept(t.id)'
      BY <1>2, <2>1, <3>6, <3>8, <3>9 DEF SessionKept, Unspoiled, Live
    <3> QED
      BY <1>1, <1>3, <3>1, <3>8, <3>9, <3>10, <3>11, CommandStepKeeps, SameFacts DEF AtMostOne
  <2> QED
    BY <1>7, <2>2, <2>3 DEF PublishNew
<1> QED
  BY <1>4, <1>6, <1>7

(* What an update has at hand. *)
LEMMA UpdateFacts ==
  ASSUME CatalogInv, NEW pc \in {"validate", "temp", "backup", "replace", "verify"}, At(pc)
  PROVE  \E t \in TaskRecords :
           /\ task = {t} /\ Task = t /\ t.pc = pc /\ t.op = "update" /\ Updating(t)
           /\ t.id \in Ids /\ t.rev \in Nat /\ t.rev >= 1 /\ Live(t.id)
           /\ Mine = files[t.id] /\ files[t.id] \in FileRecords
           /\ index.gen = 0 /\ CommandHolds(t)
           /\ t.id \notin hurt => files[t.id] \in Intact
<1>1. PICK t \in TaskRecords :
        /\ task = {t} /\ Task = t /\ t.pc = pc /\ CommandHolds(t)
        /\ t.id \in Ids /\ t.rev \in Nat /\ Mine = files[t.id] /\ files[t.id] \in FileRecords
  BY TaskFacts
<1>2. t.op = "update" /\ Updating(t) /\ index.gen = 0
  BY <1>1 DEF CommandHolds, Creating, Deleting, TaskRecords
<1> QED
  BY <1>1, <1>2, SameFacts DEF Updating, SessionKept, Unspoiled

(* A step of an update that leaves what can be read as it is, or more.      *)
LEMMA UpdateStepKeeps ==
  ASSUME CatalogInv, NEW t \in TaskRecords, task = {t}, t.pc # "invalidate", index.gen = 0,
         t.id \in Ids, Live(t.id), NEW g \in FileRecords, Store(t.id, g), troubles' \in Nat,
         UNCHANGED <<folder, pump, hurt, index, acked>>,
         t.id \notin hurt =>
           /\ g \in Intact /\ (acked[t.id] > 0 => \E n \in Best(g) : n >= acked[t.id])
           /\ \A p \in pump : p.id = t.id /\ p.pc = "publish" /\ g.doc = {} => g.temp \subseteq p.seen,
         task' \in SUBSET TaskRecords, AtMostOne(task'),
         \A b \in task' : CommandHolds(b)'
  PROVE  CatalogInv'
<1>1. /\ files' \in [Ids -> FileRecords] /\ files'[t.id] = g
      /\ \A s \in Ids : s # t.id => files'[s] = files[s]
  BY StoreFacts
<1>2. SessionKept(t.id)'
  BY <1>1 DEF SessionKept, Unspoiled, Live
<1>3. \A p \in pump : p.id = t.id => PumpRecovers(p)'
  BY <1>1, SameFacts DEF PumpRecovers, Live
<1> QED
  BY <1>1, <1>2, <1>3, CommandStepKeeps, SameFacts

(* A command that reads and checks the revision.                             *)
LEMMA ValidateKeeps ==
  ASSUME CatalogInv, Validate, UNCHANGED <<index, acked>>
  PROVE  CatalogInv'
<1>1. PICK t \in TaskRecords :
        /\ task = {t} /\ Task = t /\ t.pc = "validate" /\ t.op = "update" /\ Updating(t)
        /\ t.id \in Ids /\ t.rev \in Nat /\ t.rev >= 1 /\ Live(t.id)
        /\ Mine = files[t.id] /\ files[t.id] \in FileRecords /\ index.gen = 0
  BY UpdateFacts DEF Validate
<1>2. UNCHANGED <<files, folder, pump, hurt, troubles>>
  BY DEF Validate
<1>3. SessionKept(t.id)' /\ \A p \in pump : PumpRecovers(p)'
  BY <1>1, <1>2, SameFacts DEF SessionKept, Unspoiled, Live, PumpRecovers
<1>4. CASE Unchanged /\ Goto("temp")
  <2>1. PICK b \in TaskRecords :
          task' = {b} /\ b.pc = "temp" /\ b.id = t.id /\ b.op = t.op /\ b.rev = t.rev
    BY <1>1, <1>4, GoesOn DEF Steps
  <2>2. CommandHolds(b)'
    BY <1>1, <1>2, <1>4, <2>1 DEF CommandHolds, Updating, Unchanged, Live
  <2> QED
    BY <1>1, <1>2, <1>3, <2>1, <2>2, CommandStepKeeps, SameFacts DEF AtMostOne
<1>5. CASE Fail
  BY <1>1, <1>2, <1>3, <1>5, CommandStepKeeps, SameFacts DEF AtMostOne, Fail
<1> QED
  BY <1>4, <1>5 DEF Validate

(* Writing the temporary file.                                               *)
LEMMA WriteTempKeeps ==
  ASSUME CatalogInv, WriteTemp, UNCHANGED <<index, acked>>
  PROVE  CatalogInv'
<1>1. PICK t \in TaskRecords :
        /\ task = {t} /\ Task = t /\ t.pc = "temp" /\ t.op = "update" /\ Updating(t)
        /\ t.id \in Ids /\ t.rev \in Nat /\ t.rev >= 1 /\ Live(t.id)
        /\ Mine = files[t.id] /\ files[t.id] \in FileRecords /\ index.gen = 0
        /\ t.id \notin hurt => files[t.id] \in Intact
  BY UpdateFacts DEF WriteTemp
<1>2. UNCHANGED <<folder, pump, hurt>>
  BY DEF WriteTemp
<1>3. t.id \notin hurt => files[t.id].doc = {t.rev - 1} /\ files[t.id].doc # {}
  BY <1>1 DEF Updating
<1>4. ASSUME NEW x \in Options, NEW g, g = [files[t.id] EXCEPT !.temp = x]
      PROVE  /\ g \in FileRecords /\ g.doc = files[t.id].doc /\ g.temp = x
             /\ t.id \notin hurt =>
                  /\ g \in Intact /\ (acked[t.id] > 0 => \E n \in Best(g) : n >= acked[t.id])
                  /\ g.doc # {}
  <2>1. x \in Contents
    BY OptionFacts
  <2>2. g \in FileRecords /\ g.doc = files[t.id].doc /\ g.backup = files[t.id].backup /\ g.temp = x
    BY <1>1, <1>4, <2>1, FieldFacts
  <2>3. t.id \notin hurt => g \in Intact /\ Best(g) = Best(files[t.id])
    BY <1>1, <2>2, IntactFacts DEF Best
  <2> QED
    BY <1>1, <1>3, <2>2, <2>3, SameFacts DEF SessionKept, Unspoiled
<1>5. CASE Store(Task.id, [Mine EXCEPT !.temp = {Task.rev}]) /\ Goto("backup") /\ UNCHANGED troubles
  <2>1. PICK b \in TaskRecords :
          task' = {b} /\ b.pc = "backup" /\ b.id = t.id /\ b.op = t.op /\ b.rev = t.rev
    BY <1>1, <1>5, GoesOn DEF Steps
  <2>2. PICK x, g : x = {t.rev} /\ g = [files[t.id] EXCEPT !.temp = x]
    OBVIOUS
  <2>3. x \in Options
    BY <1>1, <2>2, OptionFacts
  <2>4. Store(t.id, g)
    BY <1>1, <1>5, <2>2
  <2>5. g \in FileRecords /\ files'[t.id] = g
    BY <1>1, <1>4, <2>2, <2>3, <2>4, StoreFacts
  <2>6. CommandHolds(b)'
    BY <1>1, <1>2, <1>3, <1>4, <2>1, <2>2, <2>3, <2>5 DEF CommandHolds, Updating, Live
  <2>7. t.id \notin hurt =>
          /\ g \in Intact /\ (acked[t.id] > 0 => \E n \in Best(g) : n >= acked[t.id])
          /\ g.doc # {}
    BY <1>4, <2>2, <2>3
  <2> QED
    BY <1>1, <1>2, <1>5, <2>1, <2>4, <2>5, <2>6, <2>7, UpdateStepKeeps, SameFacts DEF AtMostOne
<1>6. CASE Store(Task.id, [Mine EXCEPT !.temp = {}]) /\ Fail /\ Trouble
  <2>1. PICK g : g = [files[t.id] EXCEPT !.temp = {}]
    OBVIOUS
  <2>2. Store(t.id, g) /\ {} \in Options
    BY <1>1, <1>6, <2>1, OptionFacts
  <2> QED
    BY <1>1, <1>2, <1>4, <1>6, <2>1, <2>2, UpdateStepKeeps, SameFacts DEF AtMostOne, Fail
<1> QED
  BY <1>5, <1>6 DEF WriteTemp

(* Removing the backup that stands in the way.                               *)
LEMMA DropBackupKeeps ==
  ASSUME CatalogInv, DropBackup, UNCHANGED <<index, acked>>
  PROVE  CatalogInv'
<1>1. PICK t \in TaskRecords :
        /\ task = {t} /\ Task = t /\ t.pc = "backup" /\ t.op = "update" /\ Updating(t)
        /\ t.id \in Ids /\ t.rev \in Nat /\ t.rev >= 1 /\ Live(t.id)
        /\ Mine = files[t.id] /\ files[t.id] \in FileRecords /\ index.gen = 0
        /\ t.id \notin hurt => files[t.id] \in Intact
  BY UpdateFacts DEF DropBackup
<1>2. UNCHANGED <<folder, pump, hurt, troubles>>
  BY DEF DropBackup
<1>3. t.id \notin hurt =>
        files[t.id].doc = {t.rev - 1} /\ files[t.id].doc # {} /\ files[t.id].temp \subseteq {t.rev}
  BY <1>1 DEF Updating
<1>4. PICK b \in TaskRecords :
        task' = {b} /\ b.pc = "replace" /\ b.id = t.id /\ b.op = t.op /\ b.rev = t.rev
  BY <1>1, GoesOn DEF Steps, DropBackup
<1>5. PICK g : g = [files[t.id] EXCEPT !.backup = {}]
  OBVIOUS
<1>6. {} \in Contents /\ {} \in Options
  BY OptionFacts
<1>7. g \in FileRecords /\ g.doc = files[t.id].doc /\ g.backup = {} /\ g.temp = files[t.id].temp
  BY <1>1, <1>5, <1>6, FieldFacts
<1>8. Store(t.id, g)
  BY <1>1, <1>5 DEF DropBackup
<1>9. t.id \notin hurt => g \in Intact /\ Best(g) = Best(files[t.id])
  BY <1>1, <1>3, <1>6, <1>7, IntactFacts DEF Best
<1>10. t.id \notin hurt => (acked[t.id] > 0 => \E n \in Best(g) : n >= acked[t.id])
  BY <1>1, <1>9, SameFacts DEF SessionKept, Unspoiled
<1>11. files'[t.id] = g
  BY <1>1, <1>7, <1>8, StoreFacts
<1>12. CommandHolds(b)'
  BY <1>1, <1>2, <1>3, <1>4, <1>7, <1>11 DEF CommandHolds, Updating, Live
<1> QED
  BY <1>1, <1>2, <1>3, <1>4, <1>7, <1>8, <1>9, <1>10, <1>12, UpdateStepKeeps, SameFacts DEF AtMostOne

(* Replacing the document, which becomes the backup.                         *)
LEMMA ReplaceKeeps ==
  ASSUME CatalogInv, Replace, UNCHANGED <<index, acked>>
  PROVE  CatalogInv'
<1>1. PICK t \in TaskRecords :
        /\ task = {t} /\ Task = t /\ t.pc = "replace" /\ t.op = "update" /\ Updating(t)
        /\ t.id \in Ids /\ t.rev \in Nat /\ t.rev >= 1 /\ Live(t.id)
        /\ Mine = files[t.id] /\ files[t.id] \in FileRecords /\ index.gen = 0
        /\ t.id \notin hurt => files[t.id] \in Intact
  BY UpdateFacts DEF Replace
<1>2. UNCHANGED <<folder, pump, hurt>>
  BY DEF Replace
<1>3. t.id \notin hurt =>
        files[t.id].doc = {t.rev - 1} /\ files[t.id].doc # {} /\ files[t.id].temp \subseteq {t.rev}
  BY <1>1 DEF Updating
<1>4. t.id \notin hurt => (acked[t.id] > 0 => t.rev - 1 >= acked[t.id])
  BY <1>1, <1>3, SameFacts DEF SessionKept, Unspoiled, Best
<1>5. /\ {} \in Contents /\ {} \in Options
      /\ files[t.id].doc \in Contents /\ files[t.id].backup \in Contents /\ files[t.id].temp \in Contents
      /\ t.id \notin hurt =>
           files[t.id].doc \in Options /\ files[t.id].backup \in Options /\ files[t.id].temp \in Options
  BY <1>1, OptionFacts, IntactFacts DEF FileRecords
<1>6. CASE /\ Mine.temp # {} /\ Mine.doc # {} /\ Store(Task.id, Replaced(Mine))
           /\ Goto("verify") /\ UNCHANGED troubles
  <2>1. PICK b \in TaskRecords :
          task' = {b} /\ b.pc = "verify" /\ b.id = t.id /\ b.op = t.op /\ b.rev = t.rev
    BY <1>1, <1>6, GoesOn DEF Steps
  <2>2. PICK g : g = Replaced(files[t.id])
    OBVIOUS
  <2>3. g.doc = files[t.id].temp /\ g.backup = files[t.id].doc /\ g.temp = {} /\ g \in FileRecords
    BY <1>5, <2>2 DEF Replaced, FileRecords
  <2>4. Store(t.id, g) /\ g.doc # {}
    BY <1>1, <1>6, <2>2, <2>3
  <2>5. t.id \notin hurt => g \in Intact /\ g.doc = {t.rev} /\ g.backup = {t.rev - 1}
    BY <1>3, <1>5, <2>3, <2>4, IntactFacts
  <2>6. t.id \notin hurt => (acked[t.id] > 0 => \E n \in Best(g) : n >= acked[t.id])
    BY <1>1, <1>4, <2>5, SameFacts DEF Best
  <2>7. files'[t.id] = g
    BY <1>1, <2>3, <2>4, StoreFacts
  <2>8. t.id \notin hurt => acked[t.id] <= t.rev - 1
    BY <1>1, <1>4, SameFacts
  <2>9. CommandHolds(b)'
    BY <1>1, <1>2, <2>1, <2>5, <2>7, <2>8 DEF CommandHolds, Updating, Live
  <2> QED
    BY <1>1, <1>2, <1>6, <2>1, <2>3, <2>4, <2>5, <2>6, <2>9, UpdateStepKeeps, SameFacts DEF AtMostOne
<1>7. CASE Store(Task.id, [Mine EXCEPT !.temp = {}]) /\ Fail /\ troubles' \in Nat
  <2>1. PICK g : g = [files[t.id] EXCEPT !.temp = {}]
    OBVIOUS
  <2>2. g \in FileRecords /\ g.doc = files[t.id].doc /\ g.backup = files[t.id].backup /\ g.temp = {}
    BY <1>1, <1>5, <2>1, FieldFacts
  <2>3. Store(t.id, g)
    BY <1>1, <1>7, <2>1
  <2>4. t.id \notin hurt => g \in Intact /\ (acked[t.id] > 0 => \E n \in Best(g) : n >= acked[t.id])
    BY <1>1, <1>3, <1>4, <1>5, <2>2, SameFacts, IntactFacts DEF Best
  <2> QED
    BY <1>1, <1>2, <1>7, <2>2, <2>3, <2>4, UpdateStepKeeps, SameFacts DEF AtMostOne, Fail
<1>8. CASE Store(Task.id, Halfway(Mine)) /\ Fail /\ Trouble
  <2>1. PICK g : g = Halfway(files[t.id])
    OBVIOUS
  <2>2. g.doc = {} /\ g.backup = files[t.id].doc /\ g.temp = {} /\ g \in FileRecords
    BY <1>5, <2>1 DEF Halfway, FileRecords
  <2>3. Store(t.id, g)
    BY <1>1, <1>8, <2>1
  <2>4. t.id \notin hurt => g \in Intact /\ (acked[t.id] > 0 => \E n \in Best(g) : n >= acked[t.id])
    BY <1>1, <1>3, <1>4, <1>5, <2>2, SameFacts, IntactFacts DEF Best
  <2> QED
    BY <1>1, <1>2, <1>8, <2>2, <2>3, <2>4, UpdateStepKeeps, SameFacts DEF AtMostOne, Fail
<1> QED
  BY <1>6, <1>7, <1>8, SameFacts DEF Replace

(* Reading back what was published.                                          *)
LEMMA VerifyKeeps ==
  ASSUME CatalogInv, Verify, UNCHANGED <<index, acked>>
  PROVE  CatalogInv'
<1>1. PICK t \in TaskRecords :
        /\ task = {t} /\ Task = t /\ t.pc = "verify" /\ t.op = "update" /\ Updating(t)
        /\ t.id \in Ids /\ t.rev \in Nat /\ t.rev >= 1 /\ Live(t.id)
        /\ Mine = files[t.id] /\ files[t.id] \in FileRecords /\ index.gen = 0
        /\ t.id \notin hurt => files[t.id] \in Intact
  BY UpdateFacts DEF Verify
<1>2. UNCHANGED <<folder, pump, hurt>>
  BY DEF Verify
<1>3. t.id \notin hurt =>
        files[t.id].doc = {t.rev} /\ files[t.id].backup = {t.rev - 1} /\ acked[t.id] <= t.rev - 1
  BY <1>1 DEF Updating
<1>4. CASE Mine.doc = {Task.rev} /\ Goto("refresh") /\ UNCHANGED <<files, troubles>>
  <2>1. PICK b \in TaskRecords :
          task' = {b} /\ b.pc = "refresh" /\ b.id = t.id /\ b.op = t.op /\ b.rev = t.rev
    BY <1>1, <1>4, GoesOn DEF Steps
  <2>2. SessionKept(t.id)' /\ \A p \in pump : PumpRecovers(p)'
    BY <1>1, <1>2, <1>4, SameFacts DEF SessionKept, Unspoiled, Live, PumpRecovers
  <2>3. CommandHolds(b)'
    BY <1>1, <1>2, <1>3, <1>4, <2>1 DEF CommandHolds, Updating, Live
  <2> QED
    BY <1>1, <1>2, <1>4, <2>1, <2>2, <2>3, CommandStepKeeps, SameFacts DEF AtMostOne
<1>5. CASE Store(Task.id, RolledBack(Mine)) /\ Fail /\ troubles' \in Nat
  <2>1. PICK g : g = RolledBack(files[t.id])
    OBVIOUS
  <2>2. PICK x : x = IF Valid(files[t.id].backup) /\ files[t.id].doc # {}
                       THEN files[t.id].backup ELSE files[t.id].doc
    OBVIOUS
  <2>3. x \in Contents /\ {} \in Options
    BY <1>1, <2>2, OptionFacts DEF FileRecords
  <2>4. g = [files[t.id] EXCEPT !.doc = x, !.temp = {}]
    BY <2>1, <2>2 DEF RolledBack
  <2>5. g \in FileRecords /\ g.doc = x /\ g.backup = files[t.id].backup /\ g.temp = {}
    BY <1>1, <2>3, <2>4, PublishedFacts
  <2>6. Store(t.id, g)
    BY <1>1, <1>5, <2>1
  <2>7. {t.rev - 1} \in Options
    BY <1>1, OptionFacts
  <2>8. t.id \notin hurt => x = {t.rev - 1}
    BY <1>3, <2>2, <2>7, OptionFacts
  <2>9. t.id \notin hurt => g \in Intact /\ (acked[t.id] > 0 => \E n \in Best(g) : n >= acked[t.id])
    BY <1>1, <1>3, <2>3, <2>5, <2>7, <2>8, SameFacts, IntactFacts DEF Best
  <2> QED
    BY <1>1, <1>2, <1>5, <2>5, <2>6, <2>8, <2>9, UpdateStepKeeps, SameFacts DEF AtMostOne, Fail
<1> QED
  BY <1>4, <1>5, SameFacts DEF Verify

(* Moving a folder to the trash.                                             *)
LEMMA TrashKeeps ==
  ASSUME CatalogInv, Trash, UNCHANGED <<index, acked>>
  PROVE  CatalogInv'
<1>1. PICK t \in TaskRecords :
        /\ task = {t} /\ Task = t /\ t.pc = "trash" /\ CommandHolds(t) /\ t.id \in Ids
  BY TaskFacts DEF Trash
<1>2. t.op = "delete" /\ index.gen = 0 /\ UNCHANGED <<files, pump, hurt>>
  BY <1>1 DEF CommandHolds, Creating, Updating, TaskRecords, Trash
<1>3. CASE /\ \A p \in pump : p.id # Task.id
           /\ folder' = [folder EXCEPT ![Task.id] = "trash"] /\ Goto("refresh") /\ UNCHANGED troubles
  <2>1. PICK b \in TaskRecords :
          task' = {b} /\ b.pc = "refresh" /\ b.id = t.id /\ b.op = t.op /\ b.rev = t.rev
    BY <1>1, <1>3, GoesOn DEF Steps
  <2>2. /\ folder' \in [Ids -> {"none", "live", "trash"}] /\ folder'[t.id] = "trash"
        /\ \A s \in Ids : s # t.id => folder'[s] = folder[s]
    BY <1>1, <1>3, FolderFacts
  <2>3. CommandHolds(b)'
    BY <1>2, <2>1 DEF CommandHolds, Deleting
  <2>4. SessionKept(t.id)'
    BY <1>1, <1>2, <2>2, SameFacts DEF SessionKept, Unspoiled, Live
  <2> QED
    BY <1>1, <1>2, <1>3, <2>1, <2>2, <2>3, <2>4, CommandStepKeeps, SameFacts DEF AtMostOne
<1>4. CASE Fail /\ troubles' \in Nat /\ UNCHANGED folder
  <2>1. SessionKept(t.id)' /\ \A p \in pump : PumpRecovers(p)'
    BY <1>1, <1>2, <1>4, SameFacts DEF SessionKept, Unspoiled, Live, PumpRecovers
  <2> QED
    BY <1>1, <1>2, <1>4, <2>1, CommandStepKeeps, SameFacts DEF AtMostOne, Fail
<1> QED
  BY <1>3, <1>4, SameFacts DEF Trash

(* A step of the pump, or of any program, on one session: what can be read   *)
(* stays, or the session is given up as hurt.                               *)
LEMMA BesideKeeps ==
  ASSUME CatalogInv, NEW k \in Ids, NEW g \in FileRecords, Store(k, g), Live(k), troubles' \in Nat,
         UNCHANGED <<folder, task, index, acked>>, hurt \subseteq hurt', hurt' \subseteq hurt \cup {k},
         pump' \in SUBSET PumpRecords, AtMostOne(pump'), \A p \in pump' : PumpRecovers(p)',
         \A p \in pump' : p.id = k \/ p \in pump,
         \A t \in task : t.id = k => t.pc \notin {"new_temp", "new_publish"},
         k \notin hurt' =>
           /\ g \in Intact /\ Best(g) = Best(files[k]) /\ g.backup = files[k].backup
           /\ files[k].doc # {} => g.doc = files[k].doc
           /\ \A t \in task : t.id = k /\ t.pc \in {"backup", "replace"} => g.temp \subseteq files[k].temp
  PROVE  CatalogInv'
<1>1. /\ files' \in [Ids -> FileRecords] /\ files'[k] = g
      /\ \A s \in Ids : s # k => files'[s] = files[s]
  BY StoreFacts
<1>2. CatalogTypes'
  BY <1>1 DEF CatalogInv, CatalogTypes
<1>3. ASSUME NEW s \in Ids PROVE SessionKept(s)'
  <2>1. CASE s # k
    BY <1>1, <2>1, SameFacts DEF SessionKept, Unspoiled, Live
  <2>2. CASE s = k
    <3>1. folder'[k] # "none" /\ Live(k)'
      BY DEF Live
    <3>2. k \notin hurt' => Unspoiled(k)
      BY SameFacts DEF SessionKept
    <3>3. k \notin hurt' => Unspoiled(k)'
      BY <1>1, <3>1, <3>2 DEF Unspoiled
    <3> QED
      BY <2>2, <3>1, <3>3 DEF SessionKept
  <2> QED
    BY <2>1, <2>2
<1>4. ASSUME NEW t \in task PROVE CommandHolds(t)'
  <2>1. t \in TaskRecords /\ CommandHolds(t) /\ t.id \in Ids /\ t.rev \in Nat
    BY DEF CatalogInv, CatalogTypes, TaskRecords
  <2>2. CASE t.op = "delete"
    BY <2>1, <2>2 DEF CommandHolds, Deleting, Live
  <2>3. CASE t.op = "create"
    <3>1. Creating(t) /\ (t.id = k => t.pc \notin {"invalidate", "make"})
      BY <2>1, <2>3 DEF CommandHolds, Creating, Live
    <3>2. t.id = k => t.pc = "refresh"
      BY <3>1 DEF Creating
    <3>3. t.id # k => files'[t.id] = files[t.id]
      BY <1>1, <2>1
    <3>4. t.pc = "refresh" => (t.id \notin hurt' => files'[t.id].doc = {1})
      BY <1>1, <3>1, <3>3 DEF Creating
    <3>5. t.pc \in {"new_temp", "new_publish"} => \A p \in pump' : p.id # t.id
      BY <3>1, <3>2 DEF Creating
    <3>6. Creating(t)'
      BY <3>1, <3>2, <3>3, <3>4, <3>5 DEF Creating, Live
    <3> QED
      BY <2>1, <2>3, <3>6 DEF CommandHolds
  <2>4. CASE t.op = "update"
    <3>1. Updating(t)
      BY <2>1, <2>4 DEF CommandHolds
    <3>2. CASE t.id # k
      BY <1>1, <2>1, <2>4, <3>1, <3>2 DEF CommandHolds, Updating, Live
    <3>3. CASE t.id = k
      <4>1. k \notin hurt' => k \notin hurt
        OBVIOUS
      <4>2. k \notin hurt' =>
              /\ t.pc \in {"temp", "backup", "replace"} => g.doc = {t.rev - 1}
              /\ t.pc \in {"backup", "replace"} => g.temp \subseteq {t.rev}
              /\ t.pc \in {"verify", "refresh"} => g.doc = {t.rev}
              /\ t.pc = "verify" => g.backup = {t.rev - 1} /\ acked[k] <= t.rev - 1
        BY <3>1, <3>3, <4>1 DEF Updating
      <4> QED
        BY <1>1, <2>1, <2>4, <3>1, <3>3, <4>2 DEF CommandHolds, Updating, Live
    <3> QED
      BY <3>2, <3>3
  <2> QED
    BY <2>1, <2>2, <2>3, <2>4 DEF TaskRecords
<1> QED
  BY <1>2, <1>3, <1>4 DEF CatalogInv

(* While the pump has a session in hand, nobody creates it.                 *)
LEMMA PumpFacts ==
  ASSUME CatalogInv, NEW p \in pump
  PROVE  /\ pump = {p} /\ p \in PumpRecords /\ p.id \in Ids /\ p.seen \in Contents /\ Live(p.id)
         /\ PumpRecovers(p) /\ files[p.id] \in FileRecords
         /\ p.id \notin hurt => files[p.id] \in Intact
         /\ \A t \in task : t.id = p.id => t.pc \notin {"new_temp", "new_publish"}
<1>1. pump = {p} /\ p \in PumpRecords /\ PumpRecovers(p)
  BY DEF CatalogInv, CatalogTypes, AtMostOne
<1>2. p.id \in Ids /\ p.seen \in Contents /\ Live(p.id) /\ files[p.id] \in FileRecords
  BY <1>1, SameFacts DEF PumpRecords, PumpRecovers
<1>3. p.id \notin hurt => files[p.id] \in Intact
  BY <1>2, SameFacts DEF SessionKept, Unspoiled
<1>4. \A t \in task : t.id = p.id => t.pc \notin {"new_temp", "new_publish"}
  BY <1>1 DEF CatalogInv, CatalogTypes, CommandHolds, Creating, Updating, Deleting, TaskRecords
<1> QED
  BY <1>1, <1>2, <1>3, <1>4

(* What only moves the pump on, or ends it.                                 *)
LEMMA PumpMoves ==
  ASSUME CatalogInv, UNCHANGED <<files, folder, task, hurt, troubles, index, acked>>,
         pump' \in SUBSET PumpRecords, AtMostOne(pump'), \A p \in pump' : PumpRecovers(p)',
         \A p \in pump' : \A t \in task : t.id = p.id => t.pc \notin {"new_temp", "new_publish"}
  PROVE  CatalogInv'
<1>1. CatalogTypes' /\ \A s \in Ids : SessionKept(s)'
  BY SameFacts DEF CatalogInv, CatalogTypes, SessionKept, Unspoiled, Live
<1>2. ASSUME NEW t \in task PROVE CommandHolds(t)'
  <2>1. CommandHolds(t)
    BY DEF CatalogInv
  <2> QED
    BY <2>1 DEF CommandHolds, Creating, Updating, Deleting, Live
<1> QED
  BY <1>1, <1>2 DEF CatalogInv

(* The pump reads a document without the lock.                               *)
LEMMA PumpReadKeeps ==
  ASSUME CatalogInv, NEW s \in Ids, PumpRead(s), UNCHANGED <<index, acked>>
  PROVE  CatalogInv'
<1>1. /\ pump = {} /\ Live(s) /\ UNCHANGED <<folder, task, hurt, troubles>>
      /\ files[s] \in FileRecords
  BY SameFacts DEF PumpRead
<1>2. \A t \in task : t.id = s /\ (Valid(files[s].doc) \/ Valid(files[s].backup)) =>
        t.pc \notin {"new_temp", "new_publish"}
  BY DEF CatalogInv, CatalogTypes, CommandHolds, Creating, Updating, Deleting, TaskRecords, Valid
<1>3. CASE /\ NeedsRecovery(files[s]) /\ UNCHANGED files
           /\ pump' = {[id |-> s, pc |-> "recheck", seen |-> {}, missing |-> FALSE]}
  <2>1. PICK q : q = [id |-> s, pc |-> "recheck", seen |-> {}, missing |-> FALSE]
    OBVIOUS
  <2>2. q \in PumpRecords /\ q.id = s /\ q.pc = "recheck"
    BY <2>1, OptionFacts DEF PumpRecords
  <2>3. pump' = {q}
    BY <1>3, <2>1
  <2>4. PumpRecovers(q)'
    BY <1>1, <2>2 DEF PumpRecovers, Live
  <2> QED
    BY <1>1, <1>2, <1>3, <2>2, <2>3, <2>4, PumpMoves DEF AtMostOne, NeedsRecovery
<1>4. CASE Valid(files[s].doc) /\ Store(s, Recovered(files[s])) /\ UNCHANGED pump
  <2>1. PICK g : g = [files[s] EXCEPT !.temp = {}]
    OBVIOUS
  <2>2. Store(s, g) /\ {} \in Contents /\ {} \in Options /\ files[s].doc # {}
    BY <1>4, <2>1, OptionFacts DEF Recovered, Valid
  <2>3. g \in FileRecords /\ g.doc = files[s].doc /\ g.backup = files[s].backup /\ g.temp = {}
    BY <1>1, <2>1, <2>2, FieldFacts
  <2>4. s \notin hurt => g \in Intact /\ Best(g) = Best(files[s])
    BY <2>2, <2>3, SameFacts, IntactFacts DEF SessionKept, Unspoiled, Best
  <2> QED
    BY <1>1, <1>2, <1>4, <2>2, <2>3, <2>4, BesideKeeps, SameFacts DEF AtMostOne
<1> QED
  BY <1>3, <1>4 DEF PumpRead

(* It looks again before it recovers.                                        *)
LEMMA PumpRecheckKeeps ==
  ASSUME CatalogInv, PumpRecheck, UNCHANGED <<index, acked>>
  PROVE  CatalogInv'
<1>1. PICK p \in pump :
        /\ p.pc = "recheck"
        /\ pump' = IF NeedsRecovery(files[p.id])
                     THEN {[p EXCEPT !.pc = "temp", !.seen = files[p.id].backup,
                                     !.missing = files[p.id].doc = {}]}
                     ELSE {}
  BY DEF PumpRecheck
<1>2. UNCHANGED <<files, folder, task, hurt, troubles>>
  BY DEF PumpRecheck
<1>3. CASE NeedsRecovery(files[p.id])
  <2>1. PICK q : q = [p EXCEPT !.pc = "temp", !.seen = files[p.id].backup,
                               !.missing = files[p.id].doc = {}]
    OBVIOUS
  <2>2. files[p.id].backup \in Contents
    BY PumpFacts DEF FileRecords
  <2>3. q \in PumpRecords /\ q.id = p.id /\ q.pc = "temp" /\ q.seen = files[p.id].backup
    BY <2>1, <2>2, PumpFacts DEF PumpRecords
  <2>4. q.missing <=> files[p.id].doc = {}
    BY <2>1, PumpFacts DEF PumpRecords
  <2>5. p.id \notin hurt => files[p.id].doc = {} /\ files[p.id].backup \in Revisions
    BY <1>3, PumpFacts, IntactFacts, OptionFacts DEF NeedsRecovery
  <2>6. PumpRecovers(q)'
    BY <1>2, <2>3, <2>4, <2>5, PumpFacts DEF PumpRecovers, Live
  <2>7. pump' = {q}
    BY <1>1, <1>3, <2>1
  <2> QED
    BY <1>2, <2>3, <2>6, <2>7, PumpFacts, PumpMoves DEF AtMostOne
<1>4. CASE ~NeedsRecovery(files[p.id])
  BY <1>1, <1>2, <1>4, PumpMoves DEF AtMostOne
<1> QED
  BY <1>3, <1>4

(* It writes the recovered bytes beside the document.                        *)
LEMMA PumpTempKeeps ==
  ASSUME CatalogInv, PumpTemp, UNCHANGED <<index, acked>>
  PROVE  CatalogInv'
<1>1. PICK p \in pump :
        /\ p.pc = "temp"
        /\ \/ /\ Store(p.id, [files[p.id] EXCEPT !.temp = p.seen])
              /\ pump' = {[p EXCEPT !.pc = "publish"]} /\ UNCHANGED troubles
           \/ Store(p.id, [files[p.id] EXCEPT !.temp = {}]) /\ pump' = {} /\ Trouble
        /\ hurt' = IF Interferes(p.id) THEN hurt \cup {p.id} ELSE hurt
  BY DEF PumpTemp
<1>2. UNCHANGED <<folder, task>> /\ hurt \subseteq hurt' /\ hurt' \subseteq hurt \cup {p.id}
  BY <1>1 DEF PumpTemp
<1>3. p.id \notin hurt' =>
        p.id \notin hurt /\ \A t \in task : t.id = p.id => t.pc \notin {"backup", "replace"}
  BY <1>1 DEF Interferes
<1>4. ASSUME NEW x \in Contents, NEW g, g = [files[p.id] EXCEPT !.temp = x],
             p.id \notin hurt' => x \in Options
      PROVE  /\ g \in FileRecords /\ g.doc = files[p.id].doc /\ g.temp = x
             /\ g.backup = files[p.id].backup
             /\ p.id \notin hurt' => g \in Intact /\ Best(g) = Best(files[p.id])
  <2>1. /\ g \in FileRecords /\ g.doc = files[p.id].doc /\ g.temp = x
        /\ g.backup = files[p.id].backup
    BY <1>4, PumpFacts, FieldFacts
  <2> QED
    BY <1>3, <1>4, <2>1, PumpFacts, IntactFacts DEF Best
<1>5. CASE /\ Store(p.id, [files[p.id] EXCEPT !.temp = p.seen])
           /\ pump' = {[p EXCEPT !.pc = "publish"]} /\ UNCHANGED troubles
  <2>1. PICK q, g : q = [p EXCEPT !.pc = "publish"] /\ g = [files[p.id] EXCEPT !.temp = p.seen]
    OBVIOUS
  <2>2. q \in PumpRecords /\ q.id = p.id /\ q.seen = p.seen /\ q.missing = p.missing /\ q.pc = "publish"
    BY <2>1, PumpFacts DEF PumpRecords
  <2>3. p.id \notin hurt' => p.missing /\ p.seen \in Revisions /\ p.seen \in Options
    BY <1>1, <1>3, PumpFacts, OptionFacts DEF PumpRecovers
  <2>4. /\ g \in FileRecords /\ g.doc = files[p.id].doc /\ g.temp = p.seen
        /\ g.backup = files[p.id].backup
        /\ p.id \notin hurt' => g \in Intact /\ Best(g) = Best(files[p.id])
    BY <1>4, <2>1, <2>3, PumpFacts
  <2>5. Store(p.id, g) /\ pump' = {q} /\ files'[p.id] = g
    BY <1>5, <2>1, <2>4, PumpFacts, StoreFacts
  <2>6. PumpRecovers(q)'
    BY <1>2, <2>2, <2>3, <2>4, <2>5, PumpFacts DEF PumpRecovers, Live
  <2> QED
    BY <1>2, <1>3, <1>5, <2>2, <2>4, <2>5, <2>6, PumpFacts, BesideKeeps, SameFacts DEF AtMostOne
<1>6. CASE Store(p.id, [files[p.id] EXCEPT !.temp = {}]) /\ pump' = {} /\ Trouble
  <2>1. PICK x, g : x = {} /\ g = [files[p.id] EXCEPT !.temp = x]
    OBVIOUS
  <2>1a. x \in Contents /\ x \in Options
    BY <2>1, OptionFacts
  <2>2. /\ g \in FileRecords /\ g.doc = files[p.id].doc
        /\ g.backup = files[p.id].backup
        /\ p.id \notin hurt' => g \in Intact /\ Best(g) = Best(files[p.id])
    BY <1>4, <2>1, <2>1a
  <2>3. Store(p.id, g)
    BY <1>6, <2>1
  <2> QED
    BY <1>2, <1>3, <1>6, <2>2, <2>3, PumpFacts, BesideKeeps, SameFacts DEF AtMostOne
<1> QED
  BY <1>1, <1>5, <1>6

(* It publishes them.                                                        *)
LEMMA PumpPublishKeeps ==
  ASSUME CatalogInv, PumpPublish, UNCHANGED <<index, acked>>
  PROVE  CatalogInv'
<1>1. PICK p \in pump :
        /\ p.pc = "publish"
        /\ \/ /\ Publishable(files[p.id], p.missing)
              /\ Store(p.id, [files[p.id] EXCEPT !.doc = files[p.id].temp, !.temp = {}])
              /\ hurt' = IF p.seen = files[p.id].backup THEN hurt ELSE hurt \cup {p.id}
              /\ UNCHANGED troubles
           \/ UNCHANGED <<files, hurt>> /\ (Trouble \/ UNCHANGED troubles)
  BY DEF PumpPublish
<1>2. pump' = {} /\ UNCHANGED <<folder, task>>
  BY DEF PumpPublish
<1>3. CASE /\ Publishable(files[p.id], p.missing)
           /\ Store(p.id, [files[p.id] EXCEPT !.doc = files[p.id].temp, !.temp = {}])
           /\ hurt' = IF p.seen = files[p.id].backup THEN hurt ELSE hurt \cup {p.id}
           /\ UNCHANGED troubles
  <2>1. PICK x, g : x = files[p.id].temp /\ g = [files[p.id] EXCEPT !.doc = x, !.temp = {}]
    OBVIOUS
  <2>2. x \in Contents /\ {} \in Options
    BY <2>1, PumpFacts, OptionFacts DEF FileRecords
  <2>3. g \in FileRecords /\ g.doc = x /\ g.backup = files[p.id].backup /\ g.temp = {}
    <3>1. PICK f : f = files[p.id]
      OBVIOUS
    <3>2. f \in FileRecords
      BY <3>1, PumpFacts
    <3>3. g = [f EXCEPT !.doc = x, !.temp = {}]
      BY <2>1, <3>1
    <3> QED
      BY <2>2, <3>1, <3>2, <3>3, PublishedFacts
  <2>4. Store(p.id, g)
    BY <1>3, <2>1
  <2>5. p.id \notin hurt' => /\ p.id \notin hurt /\ p.missing /\ p.seen \in Revisions
                             /\ p.seen = files[p.id].backup
    BY <1>1, <1>3, PumpFacts DEF PumpRecovers
  <2>6. p.id \notin hurt' => files[p.id].doc = {} /\ x # {} /\ x \subseteq p.seen
    BY <1>1, <1>3, <2>1, <2>5, PumpFacts DEF PumpRecovers, Publishable
  <2>7. p.id \notin hurt' => x = p.seen
    BY <2>5, <2>6, OptionFacts
  <2>8. p.id \notin hurt' => g \in Intact /\ Best(g) = Best(files[p.id])
    BY <2>2, <2>3, <2>5, <2>6, <2>7, PumpFacts, IntactFacts, OptionFacts DEF Best
  <2> QED
    BY <1>2, <1>3, <2>3, <2>4, <2>6, <2>8, PumpFacts, BesideKeeps, SameFacts DEF AtMostOne
<1>4. CASE UNCHANGED <<files, hurt>> /\ troubles' \in Nat
  <2>1. Store(p.id, files[p.id])
    BY <1>4, SameFacts, PumpFacts DEF Store
  <2> QED
    BY <1>2, <1>4, <2>1, PumpFacts, BesideKeeps DEF AtMostOne
<1> QED
  BY <1>1, <1>3, <1>4, SameFacts

(* A crash.                                                                  *)
LEMMA CrashKeeps ==
  ASSUME CatalogInv, Crash, UNCHANGED <<index, acked>>
  PROVE  CatalogInv'
<1>1. task' = {} /\ pump' = {} /\ UNCHANGED <<files, folder, hurt, troubles>>
  BY DEF Crash
<1>2. CatalogTypes' /\ \A s \in Ids : SessionKept(s)'
  BY <1>1, SameFacts DEF CatalogInv, CatalogTypes, AtMostOne, SessionKept, Unspoiled, Live
<1> QED
  BY <1>1, <1>2 DEF CatalogInv

(* Bytes damaged on disk.                                                    *)
LEMMA DamageKeeps ==
  ASSUME CatalogInv, NEW s \in Ids, Damage(s), UNCHANGED <<index, acked>>
  PROVE  CatalogInv'
<1>1. /\ Live(s) /\ files[s].doc # {} /\ troubles' \in Nat /\ files[s] \in FileRecords
      /\ hurt' = hurt \cup {s} /\ UNCHANGED <<folder, task, pump>>
  BY SameFacts DEF Damage
<1>2. PICK x \in {{}, {Damaged}} : Store(s, [files[s] EXCEPT !.doc = x])
  BY DEF Damage
<1>3. PICK g : g = [files[s] EXCEPT !.doc = x]
  OBVIOUS
<1>4. x \in Contents
  BY OptionFacts
<1>5. g \in FileRecords /\ Store(s, g)
  BY <1>1, <1>2, <1>3, <1>4, FieldFacts
<1>6. /\ files' \in [Ids -> FileRecords]
      /\ \A k \in Ids : k # s => files'[k] = files[k]
  BY <1>5, StoreFacts
<1>7. \A t \in task : t.id = s => t.pc \notin {"new_temp", "new_publish"}
  BY <1>1 DEF CatalogInv, CatalogTypes, CommandHolds, Creating, Updating, Deleting, TaskRecords
<1>8. pump' \in SUBSET PumpRecords /\ AtMostOne(pump')
  BY <1>1 DEF CatalogInv, CatalogTypes
<1>9. ASSUME NEW p \in pump PROVE PumpRecovers(p)'
  <2>1. PumpRecovers(p) /\ p.id \in Ids
    BY SameFacts DEF PumpRecords
  <2> QED
    BY <1>1, <1>6, <2>1 DEF PumpRecovers, Live
<1> QED
  BY <1>1, <1>5, <1>7, <1>8, <1>9, BesideKeeps

(* What a discovery does to a session, and what it finds of it.             *)
LEMMA DiscoveredFacts ==
  ASSUME CatalogInv, NEW s \in Ids
  PROVE  /\ Discovered[s] \in FileRecords /\ Found[s] \in Contents
         /\ Discovered[s].temp \in {files[s].temp, {}} /\ Discovered[s].backup = files[s].backup
         /\ ~Live(s) => Discovered[s] = files[s] /\ Found[s] = {}
         /\ Found[s] # {} => Found[s] \in Revisions
         /\ s \notin hurt =>
              /\ Discovered[s] \in Intact /\ Best(Discovered[s]) = Best(files[s])
              /\ files[s].doc # {} => Discovered[s].doc = files[s].doc
              /\ Found[s] = IF Live(s) THEN Best(files[s]) ELSE {}
              /\ Live(s) => Recovered(files[s]).doc = Best(files[s])
<1>1. PICK f : f = files[s]
  OBVIOUS
<1>2. f \in FileRecords /\ (s \notin hurt => f \in Intact)
  BY <1>1, SameFacts DEF SessionKept, Unspoiled
<1>3. Discovered[s] = IF Live(s) THEN Recovered(f) ELSE f
  BY <1>1 DEF Discovered
<1>4. Found[s] = IF Live(s) /\ Valid(Discovered[s].doc) THEN Discovered[s].doc ELSE {}
  BY DEF Found
<1>5. Discovered[s] \in FileRecords /\ Discovered[s].doc \in Contents
  BY <1>2, <1>3, RecoveredFacts DEF FileRecords
<1>6. Found[s] \in Contents /\ (Found[s] # {} => Found[s] \in Revisions)
  BY <1>4, <1>5, OptionFacts
<1>7. CASE Live(s)
  <2>1. Discovered[s] = Recovered(f)
    BY <1>3, <1>7
  <2>2. s \notin hurt => /\ Recovered(f) \in Intact /\ Recovered(f).doc = Best(f)
                         /\ Best(Recovered(f)) = Best(f)
                         /\ f.doc # {} => Recovered(f).doc = f.doc
    BY <1>2, RecoveredFacts
  <2>3. s \notin hurt => Found[s] = Best(f)
    <3>1. s \notin hurt => Recovered(f).doc \in Options
      BY <2>2, IntactFacts
    <3> QED
      BY <1>4, <1>7, <2>1, <2>2, <3>1, OptionFacts
  <2> QED
    BY <1>1, <1>2, <1>5, <1>6, <1>7, <2>1, <2>2, <2>3, RecoveredFacts
<1>8. CASE ~Live(s)
  BY <1>1, <1>2, <1>3, <1>4, <1>5, <1>6, <1>8
<1> QED
  BY <1>7, <1>8

(* A rebuilt index has the rows that were found.                             *)
LEMMA RebuiltFacts ==
  ASSUME CatalogInv
  PROVE  /\ index \in [gen : Nat, rows : [Ids -> Contents]]
         /\ Rebuilt \in [gen : Nat, rows : [Ids -> Contents]]
         /\ Rebuilt.gen # 0 /\ \A s \in Ids : Rebuilt.rows[s] = Found[s]
<1>1. Found \in [Ids -> Contents]
  BY DiscoveredFacts DEF Found
<1> QED
  BY <1>1 DEF CatalogInv, CatalogTypes, Rebuilt

(* A discovery keeps what is known of the sessions and of the pump; the     *)
(* index is as it was or holds what was found.                              *)
LEMMA DiscoveryKeeps ==
  ASSUME CatalogInv, files' = Discovered, index' = index \/ index' = Rebuilt,
         UNCHANGED <<folder, pump, hurt>>, troubles' \in Nat,
         acked' \in [Ids -> Nat],
         \A s \in Ids : acked'[s] = acked[s]
                          \/ (Live(s) /\ (s \notin hurt => \E n \in Best(files[s]) : n >= acked'[s])),
         task' \in SUBSET TaskRecords, AtMostOne(task'), \A t \in task' : CommandHolds(t)'
  PROVE  CatalogInv'
<1>1. files' \in [Ids -> FileRecords] /\ \A s \in Ids : files'[s] = Discovered[s]
  BY DiscoveredFacts DEF Discovered
<1>2. CatalogTypes'
  BY <1>1, RebuiltFacts DEF CatalogInv, CatalogTypes
<1>3. ASSUME NEW s \in Ids PROVE SessionKept(s)'
  <2>1. folder'[s] = "none" => files'[s] = NoFiles /\ acked'[s] = 0
    BY <1>1, SameFacts, DiscoveredFacts DEF SessionKept, Live
  <2>2. s \notin hurt =>
          /\ files'[s] \in Intact /\ Best(files'[s]) = Best(files[s])
          /\ Found[s] = IF Live(s) THEN Best(files[s]) ELSE {}
    BY <1>1, DiscoveredFacts
  <2>3. s \notin hurt => (Live(s) /\ acked'[s] > 0 => \E n \in Best(files[s]) : n >= acked'[s])
    BY SameFacts DEF SessionKept, Unspoiled
  <2>4. s \notin hurt =>
          (index'.gen # 0 => index'.rows[s] = IF Live(s) THEN Best(files[s]) ELSE {})
    BY <2>2, RebuiltFacts, SameFacts DEF SessionKept, Unspoiled
  <2>5. s \notin hurt => Unspoiled(s)'
    BY <2>2, <2>3, <2>4 DEF Unspoiled, Live
  <2> QED
    BY <2>1, <2>5 DEF SessionKept
<1>4. ASSUME NEW p \in pump PROVE PumpRecovers(p)'
  BY <1>1, PumpFacts, DiscoveredFacts DEF PumpRecovers, Live
<1> QED
  BY <1>2, <1>3, <1>4 DEF CatalogInv

(* A new command, before it has done anything.                              *)
LEMMA CommandFacts ==
  ASSUME NEW op \in {"create", "update", "delete"}, NEW s \in Ids, NEW rev \in Nat,
         task' = Command(op, s, "invalidate", rev)
  PROVE  \E t \in TaskRecords :
           task' = {t} /\ t.op = op /\ t.id = s /\ t.pc = "invalidate" /\ t.rev = rev
<1>1. PICK t : t = [op |-> op, id |-> s, pc |-> "invalidate", rev |-> rev]
  OBVIOUS
<1>2. t \in TaskRecords /\ t.op = op /\ t.id = s /\ t.pc = "invalidate" /\ t.rev = rev
  BY <1>1 DEF TaskRecords
<1>3. task' = {t}
  BY <1>1 DEF Command
<1> QED
  BY <1>2, <1>3

(* Creating a session.                                                       *)
LEMMA CreateKeeps ==
  ASSUME CatalogInv, NEW s \in Ids, Create(s)
  PROVE  CatalogInv'
<1>1. folder[s] = "none" /\ task = {} /\ UNCHANGED <<files, folder, pump, hurt, troubles, index, acked>>
  BY DEF Create
<1>2. PICK t \in TaskRecords :
        task' = {t} /\ t.op = "create" /\ t.id = s /\ t.pc = "invalidate" /\ t.rev = 1
  BY CommandFacts DEF Create
<1>3. CommandHolds(t)'
  BY <1>1, <1>2 DEF CommandHolds, Creating
<1>4. CatalogTypes' /\ \A k \in Ids : SessionKept(k)'
  BY <1>1, <1>2, SameFacts DEF CatalogInv, CatalogTypes, AtMostOne, SessionKept, Unspoiled, Live
<1>5. \A p \in pump : PumpRecovers(p)'
  BY <1>1, SameFacts DEF PumpRecovers, Live
<1> QED
  BY <1>1, <1>2, <1>3, <1>4, <1>5 DEF CatalogInv

(* The commands that read a document first.                                 *)
LEMMA ReadingKeeps ==
  ASSUME CatalogInv, NEW s \in Ids, Update(s) \/ Delete(s)
  PROVE  CatalogInv'
<1>1. /\ Found[s] # {} /\ files' = Discovered /\ (index' = index \/ index' = Rebuilt)
      /\ UNCHANGED <<folder, pump, hurt, troubles, acked>>
  BY DEF Update, Delete, Read
<1>2. Live(s) /\ \A n \in Found[s] : n \in Nat
  BY <1>1, DiscoveredFacts, OptionFacts
<1>3. CASE Update(s)
  <2>1. PICK n \in Found[s] : task' = Command("update", s, "invalidate", n + 1)
    BY <1>3 DEF Update
  <2>2. PICK t \in TaskRecords :
          task' = {t} /\ t.op = "update" /\ t.id = s /\ t.pc = "invalidate" /\ t.rev = n + 1
    BY <1>2, <2>1, CommandFacts
  <2>3. CommandHolds(t)'
    BY <1>1, <1>2, <2>2 DEF CommandHolds, Updating, Live
  <2> QED
    BY <1>1, <2>2, <2>3, DiscoveryKeeps, SameFacts DEF AtMostOne, CatalogInv, CatalogTypes
<1>4. CASE Delete(s)
  <2>1. PICK t \in TaskRecords :
          task' = {t} /\ t.op = "delete" /\ t.id = s /\ t.pc = "invalidate" /\ t.rev = 0
    BY <1>4, CommandFacts DEF Delete
  <2>2. CommandHolds(t)'
    BY <1>1, <1>2, <2>1 DEF CommandHolds, Deleting, Live
  <2> QED
    BY <1>1, <2>1, <2>2, DiscoveryKeeps, SameFacts DEF AtMostOne, CatalogInv, CatalogTypes
<1> QED
  BY <1>3, <1>4

(* Without a generation nothing is claimed of the rows.                     *)
LEMMA ForgottenIndex ==
  ASSUME CatalogInv, index' \in [gen : {0}, rows : [Ids -> Contents]], troubles' \in Nat,
         UNCHANGED <<files, folder, pump, hurt, acked>>,
         task' \in SUBSET TaskRecords, AtMostOne(task'), \A t \in task' : CommandHolds(t)'
  PROVE  CatalogInv'
<1>1. CatalogTypes' /\ \A s \in Ids : SessionKept(s)'
  BY SameFacts DEF CatalogInv, CatalogTypes, SessionKept, Unspoiled, Live
<1>2. \A p \in pump : PumpRecovers(p)'
  BY SameFacts DEF PumpRecovers, Live
<1> QED
  BY <1>1, <1>2 DEF CatalogInv

(* Marking the index as stale before a command writes.                       *)
LEMMA InvalidateKeeps ==
  ASSUME CatalogInv, Invalidate
  PROVE  CatalogInv'
<1>1. PICK t \in TaskRecords : task = {t} /\ Task = t /\ t.pc = "invalidate" /\ CommandHolds(t)
  BY TaskFacts DEF Invalidate
<1>2. UNCHANGED <<files, folder, pump, hurt, acked>>
  BY DEF Invalidate
<1>3. ASSUME NEW to \in {"make", "validate", "trash"}, Goto(to), index' = Invalidated, UNCHANGED troubles,
             t.op = "create" => to = "make", t.op = "update" => to = "validate",
             t.op = "delete" => to = "trash"
      PROVE  CatalogInv'
  <2>1. PICK b \in TaskRecords :
          task' = {b} /\ b.pc = to /\ b.id = t.id /\ b.op = t.op /\ b.rev = t.rev
    BY <1>1, <1>3, GoesOn DEF Steps
  <2>2. index' \in [gen : {0}, rows : [Ids -> Contents]] /\ index'.gen = 0
    BY <1>3 DEF Invalidated, CatalogInv, CatalogTypes
  <2>3. CommandHolds(b)'
    BY <1>1, <1>2, <1>3, <2>1, <2>2 DEF CommandHolds, Creating, Updating, Deleting, Live
  <2> QED
    BY <1>2, <1>3, <2>1, <2>2, <2>3, ForgottenIndex, SameFacts DEF AtMostOne
<1>4. CASE index' = Invalidated /\ UNCHANGED troubles
           /\ Goto(CASE t.op = "create" -> "make"
                     [] t.op = "update" -> "validate"
                     [] t.op = "delete" -> "trash")
  <2>1. CASE t.op = "create"
    BY <1>3, <1>4, <2>1
  <2>2. CASE t.op = "update"
    BY <1>3, <1>4, <2>2
  <2>3. CASE t.op = "delete"
    BY <1>3, <1>4, <2>3
  <2> QED
    BY <2>1, <2>2, <2>3 DEF TaskRecords
<1>5. CASE Fail /\ Trouble /\ UNCHANGED index
  <2>1. CatalogTypes' /\ \A s \in Ids : SessionKept(s)'
    BY <1>2, <1>5, SameFacts DEF CatalogInv, CatalogTypes, SessionKept, Unspoiled, Live, Fail, AtMostOne
  <2>2. \A p \in pump : PumpRecovers(p)'
    BY <1>2, SameFacts DEF PumpRecovers, Live
  <2> QED
    BY <1>2, <1>5, <2>1, <2>2 DEF CatalogInv, Fail
<1> QED
  BY <1>1, <1>4, <1>5 DEF Invalidate

(* Rebuilding the index.                                                     *)
LEMMA RefreshKeeps ==
  ASSUME CatalogInv, Refresh
  PROVE  CatalogInv'
<1>1. PICK t \in TaskRecords :
        /\ task = {t} /\ Task = t /\ t.pc = "refresh" /\ CommandHolds(t)
        /\ t.id \in Ids /\ t.rev \in Nat
  BY TaskFacts DEF Refresh
<1>2. /\ files' = Discovered /\ task' = {} /\ UNCHANGED <<folder, pump, hurt>>
      /\ index' = index \/ index' = Rebuilt
  BY DEF Refresh
<1>3. troubles' \in Nat
  BY SameFacts DEF Refresh
<1>4. /\ acked' = acked \/ acked' = [acked EXCEPT ![t.id] = t.rev]
      /\ acked' # acked => t.op # "delete"
  BY <1>1 DEF Refresh
<1>5. acked' # acked =>
        Live(t.id) /\ (t.id \notin hurt => \E n \in Best(files[t.id]) : n >= t.rev)
  <2>1. t.op = "create" => Creating(t) /\ t.rev = 1
    BY <1>1 DEF CommandHolds, Creating
  <2>2. t.op = "update" => Updating(t)
    BY <1>1 DEF CommandHolds
  <2>3. t.op # "delete" => Live(t.id) /\ (t.id \notin hurt => files[t.id].doc = {t.rev})
    BY <1>1, <2>1, <2>2 DEF Creating, Updating, TaskRecords
  <2> QED
    BY <1>1, <1>4, <2>3 DEF Best
<1>6. acked' \in [Ids -> Nat] /\ \A s \in Ids : acked'[s] = acked[s] \/ (s = t.id /\ acked'[s] = t.rev)
  BY <1>1, <1>4 DEF CatalogInv, CatalogTypes
<1>7. \A s \in Ids : acked'[s] = acked[s]
                       \/ (Live(s) /\ (s \notin hurt => \E n \in Best(files[s]) : n >= acked'[s]))
  BY <1>5, <1>6
<1> QED
  BY <1>2, <1>3, <1>6, <1>7, DiscoveryKeeps DEF AtMostOne

(* A page, or the refusal of one, discovers where there is no index.        *)
LEMMA ListingKeeps ==
  ASSUME CatalogInv, task = {}, index' = Listed,
         files' = IF index.gen = 0 THEN Discovered ELSE files,
         UNCHANGED <<folder, task, pump, hurt, troubles, acked>>
  PROVE  CatalogInv'
<1>1. CASE index.gen = 0
  BY <1>1, DiscoveryKeeps, SameFacts DEF Listed, CatalogInv, CatalogTypes
<1>2. CASE index.gen # 0
  <2>1. UNCHANGED <<files, index>>
    BY <1>2 DEF Listed
  <2>2. CatalogTypes' /\ \A s \in Ids : SessionKept(s)'
    BY <2>1, SameFacts DEF CatalogInv, CatalogTypes, SessionKept, Unspoiled, Live
  <2>3. \A p \in pump : PumpRecovers(p)'
    BY <2>1, SameFacts DEF PumpRecovers, Live
  <2> QED
    BY <2>2, <2>3 DEF CatalogInv
<1> QED
  BY <1>1, <1>2

(* The invariant speaks of the catalog only.                                 *)
LEMMA CatalogUnchanged ==
  ASSUME CatalogInv, UNCHANGED catalogVars
  PROVE  CatalogInv'
<1>1. UNCHANGED <<files, folder, task, pump, hurt, troubles, index, acked>>
  BY DEF catalogVars, storeVars
<1>2. CatalogTypes' /\ \A s \in Ids : SessionKept(s)'
  BY <1>1, SameFacts DEF CatalogInv, CatalogTypes, SessionKept, Unspoiled, Live
<1>3. \A p \in pump : PumpRecovers(p)'
  BY <1>1, SameFacts DEF PumpRecovers, Live
<1>4. ASSUME NEW t \in task PROVE CommandHolds(t)'
  <2>1. CommandHolds(t)
    BY DEF CatalogInv
  <2> QED
    BY <1>1, <2>1 DEF CommandHolds, Creating, Updating, Deleting, Live
<1> QED
  BY <1>1, <1>2, <1>3, <1>4 DEF CatalogInv

(* Every step keeps it.                                                      *)
LEMMA CatalogStep ==
  CatalogInv /\ [CatalogNext]_catalogVars => CatalogInv'
<1> SUFFICES ASSUME CatalogInv, [CatalogNext]_catalogVars PROVE CatalogInv'
  OBVIOUS
<1>1. CASE \E s \in Ids : Create(s) \/ Update(s) \/ Delete(s)
  BY <1>1, CreateKeeps, ReadingKeeps
<1>2. CASE Invalidate \/ Refresh
  BY <1>2, InvalidateKeeps, RefreshKeeps
<1>3. CASE Page({}) \/ Page(cursor) \/ StalePage
  BY <1>3, ListingKeeps DEF Page, StalePage
<1>4. CASE Quarantine
  <2>1. /\ task' = task /\ UNCHANGED <<files, folder, pump, hurt, acked>> /\ troubles' \in Nat
        /\ index' = [gen |-> 0, rows |-> NoRows]
    BY <1>4, SameFacts DEF Quarantine
  <2>2. index' \in [gen : {0}, rows : [Ids -> Contents]] /\ index'.gen = 0
    BY <2>1, OptionFacts DEF NoRows
  <2>3. ASSUME NEW t \in task PROVE CommandHolds(t)'
    <3>1. CommandHolds(t)
      BY DEF CatalogInv
    <3> QED
      BY <2>1, <2>2, <3>1 DEF CommandHolds, Creating, Updating, Deleting, Live
  <2> QED
    BY <2>1, <2>2, <2>3, ForgottenIndex DEF CatalogInv, CatalogTypes
<1>5. CASE StoreStep /\ UNCHANGED <<index, cursor, acked, gone>>
  BY <1>5, CreatingKeeps, ValidateKeeps, WriteTempKeeps, DropBackupKeeps, ReplaceKeeps, VerifyKeeps,
     TrashKeeps DEF StoreStep
<1>6. CASE Pump /\ UNCHANGED <<index, cursor, acked, gone>>
  BY <1>6, PumpReadKeeps, PumpRecheckKeeps, PumpTempKeeps, PumpPublishKeeps DEF Pump
<1>7. CASE (Crash \/ \E s \in Ids : Damage(s)) /\ UNCHANGED <<index, cursor, acked, gone>>
  BY <1>7, CrashKeeps, DamageKeeps
<1>8. CASE UNCHANGED catalogVars
  BY <1>8, CatalogUnchanged
<1> QED
  BY <1>1, <1>2, <1>3, <1>4, <1>5, <1>6, <1>7, <1>8 DEF CatalogNext

(* The inductive invariant of the documents and their index.                *)
THEOREM CatalogInvariant == CatalogSpec => []CatalogInv
BY CatalogInitHolds, CatalogStep, PTL DEF CatalogSpec

(* What was acknowledged is read again: no crash, no update that failed      *)
(* halfway and no recovery beside it takes an acknowledged revision back,    *)
(* for any sessions, revisions and troubles (update_session_with_fault,      *)
(* read_session_with_recovery).                                              *)
THEOREM AcknowledgedStay == CatalogSpec => []AcknowledgedKept
<1>1. CatalogInv => AcknowledgedKept
  <2> SUFFICES ASSUME CatalogInv, NEW s \in Ids \ hurt, Live(s), acked[s] > 0
               PROVE  \E n \in Recovered(files[s]).doc : n # Damaged /\ n >= acked[s]
    BY DEF AcknowledgedKept
  <2>1. PICK n \in Best(files[s]) : n >= acked[s]
    BY SameFacts DEF SessionKept, Unspoiled
  <2>2. Recovered(files[s]).doc = Best(files[s]) /\ Found[s] = Best(files[s])
    BY DiscoveredFacts
  <2>3. n # Damaged
    BY <2>1, <2>2, DiscoveredFacts, DocumentAssumption DEF Revisions
  <2> QED
    BY <2>1, <2>2, <2>3
<1> QED
  BY <1>1, CatalogInvariant, PTL

(* A first page is what the documents hold, also after crashes and faults    *)
(* between a write and the rebuild, for any sessions and any page size       *)
(* (invalidate_projection_locked, list_sessions_locked).                     *)
THEOREM ListingsAsStored == CatalogSpec => ListedAsStored
<1> DEFINE AsStored ==
      Page({}) => \A s \in Ids \ hurt :
                    index'.rows[s] = IF Live(s) THEN Recovered(files[s]).doc ELSE {}
<1>1. CatalogInv /\ [CatalogNext]_catalogVars => [AsStored]_catalogVars
  <2> SUFFICES ASSUME CatalogInv, Page({}), NEW s \in Ids \ hurt
               PROVE  index'.rows[s] = IF Live(s) THEN Recovered(files[s]).doc ELSE {}
    OBVIOUS
  <2>1. index' = Listed
    BY DEF Page
  <2>2. CASE index.gen = 0
    BY <2>1, <2>2, RebuiltFacts, DiscoveredFacts DEF Listed
  <2>3. CASE index.gen # 0
    BY <2>1, <2>3, SameFacts, DiscoveredFacts DEF Listed, SessionKept, Unspoiled
  <2> QED
    BY <2>2, <2>3
<1> QED
  BY <1>1, CatalogInvariant, PTL DEF CatalogSpec, ListedAsStored

=============================================================================
