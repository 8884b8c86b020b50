------------------------------- MODULE Server -------------------------------
(***************************************************************************)
(* The HTTP server's handlers for one database (Main/ghttp.cpp), each on a *)
(* thread of its own, over the maps that all of them share:                *)
(*                                                                         *)
(*   already_build   name -> DBInfo, which holds the database's lock       *)
(*   databases       name -> Database, while it is loaded                  *)
(*   txn_managers    name -> Txn_manager, by shared_ptr                    *)
(*                                                                         *)
(* and the transaction table and checkpoint_lock of a manager, as far as   *)
(* calls from different handlers meet there (TxnStore has what a           *)
(* transaction does to the indexes).  Locks are pthread rwlocks.           *)
(***************************************************************************)
EXTENDS Integers, FiniteSets, Sequences

CONSTANTS
    Clients, NoOne,
    Requests,       \* the kinds of request clients send
    Apart,          \* sets of kinds that are never under way together
    Quiet,          \* kinds sent only while no transaction is open
    WithOpen,       \* kinds that a client with an open transaction sends
    ReloadsDropped, \* whether a name dropped while loaded is loaded again
    CommitsAborted, \* whether a client commits what it was told is aborted
    Outcomes,       \* whether Database::load, or restore's copy, may fail
    Replies,        \* whether an answer may be one that cannot be parsed
    MaxInfos, MaxLoads, MaxTxns   \* bounds

Kinds == {"build", "load", "unload", "drop", "show", "monitor", "query", "begin",
          "tquery", "commit", "rollback", "checkpoint", "batch", "backup", "restore"}

ASSUME ServerAssumption ==
    /\ IsFiniteSet(Clients) /\ NoOne \notin Clients /\ Requests \subseteq Kinds
    /\ Quiet \subseteq Kinds /\ WithOpen \subseteq Kinds
    /\ ReloadsDropped \in BOOLEAN /\ CommitsAborted \in BOOLEAN
    /\ Outcomes \subseteq BOOLEAN /\ Replies \subseteq BOOLEAN
    /\ MaxInfos \in Nat /\ MaxLoads \in Nat /\ MaxTxns \in Nat

VARIABLES
    abLock, dmLock, tmLock,  \* already_build_map_lock, databases_map_lock, txn_m_lock
    built,      \* already_build: the number of a DBInfo, or 0
    infoLock,   \* the db_lock of each DBInfo
    freed,      \* DBInfos that were deleted
    loaded,     \* databases: the number of a Database, or 0
    deleted,    \* Databases that were deleted
    managers,   \* txn_managers: the number of a manager, or 0
    mgr,        \* the managers; the m-th one works on the m-th Database
    files,      \* the database's directory
    at,         \* per client its handler: step, request, pointers held
    tid,        \* per client the TID it was told, or 0
    told,       \* per client whether it was told that the transaction is aborted
    home,       \* per client the manager that gave the TID (history variable)
    faults      \* undefined behaviour that has happened

mapLocks == <<abLock, dmLock, tmLock>>
infos == <<built, infoLock, freed>>
dbs == <<loaded, deleted>>
mans == <<managers, mgr>>
clientVars == <<tid, told, home>>
vars == <<mapLocks, infos, dbs, mans, files, at, clientVars, faults>>

-----------------------------------------------------------------------------
(* Locks, managers and handlers                                            *)

Free == [wr |-> NoOne, rd |-> {}]
CanRead(l)     == l.wr = NoOne
CanWrite(l)    == l = Free
Read(l, c)     == [l EXCEPT !.rd = @ \cup {c}]
Write(l, c)    == [l EXCEPT !.wr = c]
Unlocked(l, c) == [wr |-> IF l.wr = c THEN NoOne ELSE l.wr, rd |-> l.rd \ {c}]

\* checkpoint_lock has the writer ckpt or readers; lost counts the shared
\* holds of table_lock that nobody gives back.  TIDs are 1..begun.
NewManager == [ckpt |-> NoOne, readers |-> 0, lost |-> 0,
               begun |-> 0, running |-> {}]

\* abort_all_running
AbortedAll(m) ==
    [mgr EXCEPT ![m].readers = @ - Cardinality(mgr[m].running), ![m].running = {}]

\* Mutant: checkpoint_lock is not given back.
EndedHolds(m, t) == [mgr EXCEPT ![m].running = @ \ {t}]

Ended(m, t) == [mgr EXCEPT ![m].running = @ \ {t}, ![m].readers = @ - 1]

Idle == [pc |-> "idle", req |-> "show", db |-> 0, info |-> 0, man |-> 0]

In(c, step) == at[c].pc = step /\ faults = {}
Req(c) == at[c].req
Goto(c, step) == at' = [at EXCEPT ![c].pc = step]
Fault(f) == faults' = faults \cup {f}
Uses(o) == faults' = IF o \in deleted THEN faults \cup {"database used after delete"}
                     ELSE faults
TouchesFiles(o) ==
    faults' = faults \cup (IF o \in deleted THEN {"database used after delete"} ELSE {})
                     \cup (IF files = "whole" THEN {} ELSE {"files used while replaced"})

\* c's handler has the only shared_ptr to a manager.
LastOf(c) ==
    LET m == at[c].man
    IN  m # 0 /\ m # managers /\ \A d \in Clients \ {c} : at[d].man # m

\* The handler returns; ~Txn_manager works on its Database once more.
Finish(c) ==
    /\ at' = [at EXCEPT ![c] = Idle]
    /\ IF LastOf(c) /\ at[c].man \in deleted
       THEN Fault("database used after delete") ELSE UNCHANGED faults

Unlock(c) == infoLock' = [infoLock EXCEPT ![at[c].info] = Unlocked(@, c)]

Init ==
    /\ abLock = Free /\ dmLock = Free /\ tmLock = Free
    /\ built = 0 /\ infoLock = <<>> /\ freed = {}
    /\ loaded = 0 /\ deleted = {} /\ managers = 0 /\ mgr = <<>>
    /\ files = "absent"
    /\ at = [c \in Clients |-> Idle]
    /\ tid = [c \in Clients |-> 0] /\ told = [c \in Clients |-> FALSE]
    /\ home = [c \in Clients |-> 0]
    /\ faults = {}

-----------------------------------------------------------------------------
(* What clients send                                                       *)

MaySend(c, k) ==
    /\ k \in Requests
    /\ \A d \in Clients \ {c} : at[d].pc # "idle" => {k, Req(d)} \notin Apart
    /\ tid[c] # 0 => k \in WithOpen
    /\ k \in {"tquery", "commit", "rollback"} => tid[c] # 0
    /\ k \in Quiet => \A d \in Clients : tid[d] = 0
    /\ k = "commit" /\ told[c] => CommitsAborted
    /\ k \in {"build", "restore"} /\ built = 0 => Len(infoLock) < MaxInfos
    /\ k = "load" => /\ Len(mgr) < MaxLoads
                     /\ managers \in deleted => ReloadsDropped
    /\ k = "begin" /\ managers # 0 => mgr[managers].begun < MaxTxns

First(k) ==
    CASE k = "show" -> "show" [] k = "restore" -> "findinfo"
      [] k = "tquery" -> "getdb" [] OTHER -> "checkexist"

Request(c, k) ==
    /\ In(c, "idle") /\ MaySend(c, k)
    /\ at' = [at EXCEPT ![c].pc = First(k), ![c].req = k]
    /\ UNCHANGED <<mapLocks, infos, dbs, mans, files, clientVars, faults>>

-----------------------------------------------------------------------------
(* Steps that many handlers begin with                                     *)

AfterExist(k) ==
    CASE k = "build" -> "build"
      [] k \in {"load", "unload", "commit", "rollback", "query"} -> "checkload"
      [] k \in {"monitor", "checkpoint", "batch", "begin"} -> "getdb"
      [] k \in {"drop", "backup"} -> "getinfo"

\* checkdbexist
CheckExist(c) ==
    /\ In(c, "checkexist") /\ CanRead(abLock)
    /\ IF (built # 0) = (Req(c) = "build") THEN Finish(c)
       ELSE Goto(c, AfterExist(Req(c))) /\ UNCHANGED faults
    /\ UNCHANGED <<mapLocks, infos, dbs, mans, files, clientVars>>

AfterLoad(k) ==
    CASE k = "load" -> "lockinfo" [] k = "unload" -> "getinfo"
      [] k \in {"commit", "rollback"} -> "getman" [] k = "query" -> "getdb"

\* checkdbload
CheckLoad(c) ==
    /\ In(c, "checkload") /\ CanRead(dmLock)
    /\ IF (loaded # 0) = (Req(c) = "load") THEN Finish(c)
       ELSE Goto(c, AfterLoad(Req(c))) /\ UNCHANGED faults
    /\ UNCHANGED <<mapLocks, infos, dbs, mans, files, clientVars>>

\* The pointer is taken out of databases; begin and tquery lock it for writing.
GetDb(c) ==
    LET txn == Req(c) \in {"begin", "tquery"} IN
    /\ In(c, "getdb")
    /\ IF txn THEN CanWrite(dmLock) ELSE CanRead(dmLock)
    /\ IF loaded = 0 THEN Finish(c)
       ELSE /\ at' = [at EXCEPT ![c].db = loaded,
                                ![c].pc = IF txn THEN "getman" ELSE "getinfo"]
            /\ UNCHANGED faults
    /\ UNCHANGED <<mapLocks, infos, dbs, mans, files, clientVars>>

\* Mutant: backup does not take the database's lock.
GetInfoUnlocked(c) ==
    /\ In(c, "getinfo") /\ CanRead(abLock)
    /\ at' = [at EXCEPT ![c].info = built,
                        ![c].pc = IF Req(c) = "backup" THEN "copy" ELSE "lockinfo"]
    /\ UNCHANGED <<mapLocks, infos, dbs, mans, files, clientVars, faults>>

\* The iterator into already_build, end() if there is none.
GetInfo(c) ==
    /\ In(c, "getinfo") /\ CanRead(abLock)
    /\ at' = [at EXCEPT ![c].info = built, ![c].pc = "lockinfo"]
    /\ UNCHANGED <<mapLocks, infos, dbs, mans, files, clientVars, faults>>

\* load looks the iterator up and tries its lock under already_build_map_lock.
InfoOf(c) == IF Req(c) = "load" THEN built ELSE at[c].info
ReachesInfo(c) == In(c, "lockinfo") /\ (Req(c) = "load" => CanRead(abLock))
HasInfo(c) == InfoOf(c) # 0 /\ InfoOf(c) \notin freed

\* query and export wait for the lock, monitor tries it.
LockShared(c) ==
    /\ ReachesInfo(c) /\ HasInfo(c) /\ Req(c) \in {"query", "monitor"}
    /\ CanRead(infoLock[at[c].info])
    /\ infoLock' = [infoLock EXCEPT ![at[c].info] = Read(@, c)]
    /\ Goto(c, "use")
    /\ UNCHANGED <<mapLocks, built, freed, dbs, mans, files, clientVars, faults>>

AfterLock(k) ==
    CASE k = "load" -> "trymap" [] k = "unload" -> "unmap" [] k = "drop" -> "dropmap"
      [] k = "checkpoint" -> "getman" [] k = "batch" -> "use"
      [] k = "backup" -> "copy" [] k = "restore" -> "rmfiles"

\* Mutant: batch insertion takes the lock as a query does.
LockExclusiveBeside(c) ==
    LET i == InfoOf(c) IN
    /\ ReachesInfo(c) /\ HasInfo(c) /\ Req(c) \notin {"query", "monitor"}
    /\ IF Req(c) = "batch" THEN CanRead(infoLock[i]) ELSE CanWrite(infoLock[i])
    /\ infoLock' = [infoLock EXCEPT ![i] = IF Req(c) = "batch" THEN Read(@, c) ELSE Write(@, c)]
    /\ at' = [at EXCEPT ![c].info = i, ![c].pc = AfterLock(Req(c))]
    /\ UNCHANGED <<mapLocks, built, freed, dbs, mans, files, clientVars, faults>>

\* trylockdb
LockExclusive(c) ==
    LET i == InfoOf(c) IN
    /\ ReachesInfo(c) /\ HasInfo(c) /\ Req(c) \notin {"query", "monitor"}
    /\ CanWrite(infoLock[i])
    /\ infoLock' = [infoLock EXCEPT ![i] = Write(@, c)]
    /\ at' = [at EXCEPT ![c].info = i, ![c].pc = AfterLock(Req(c))]
    /\ UNCHANGED <<mapLocks, built, freed, dbs, mans, files, clientVars, faults>>

CanLock(c) ==
    LET l == infoLock[InfoOf(c)]
    IN  IF Req(c) \in {"query", "monitor"} THEN CanRead(l) ELSE CanWrite(l)

\* All but query and export give up when the lock is taken.
LockFails(c) ==
    /\ ReachesInfo(c)
    /\ HasInfo(c) => ~CanLock(c) /\ Req(c) # "query"
    /\ at' = [at EXCEPT ![c] = Idle]
    /\ IF HasInfo(c) THEN UNCHANGED faults ELSE Fault("database info used after drop")
    /\ UNCHANGED <<mapLocks, infos, dbs, mans, files, clientVars>>

AfterMan(k) ==
    CASE k = "begin" -> "begin" [] k = "tquery" -> "tquery"
      [] k \in {"commit", "rollback"} -> "end" [] k = "checkpoint" -> "waitckpt"

\* The manager; without one checkpoint returns with the database's lock held.
GetMan(c) ==
    /\ In(c, "getman") /\ CanRead(tmLock)
    /\ IF managers = 0 THEN Finish(c)
       ELSE /\ at' = [at EXCEPT ![c].man = managers, ![c].pc = AfterMan(Req(c))]
            /\ UNCHANGED faults
    /\ UNCHANGED <<mapLocks, infos, dbs, mans, files, clientVars>>

\* query, export, monitor and the batch updates work on the Database.
Use(c) ==
    /\ In(c, "use") /\ Uses(at[c].db)
    /\ Goto(c, "used")
    /\ UNCHANGED <<mapLocks, infos, dbs, mans, files, clientVars>>

\* ... and return; not every answer to a query is given with the lock released.
Used(c) ==
    /\ In(c, "used") /\ Uses(at[c].db)
    /\ \E parsed \in Replies :
          IF parsed \/ Req(c) # "query" THEN Unlock(c) ELSE UNCHANGED infoLock
    /\ at' = [at EXCEPT ![c] = Idle]
    /\ UNCHANGED <<mapLocks, built, freed, dbs, mans, files, clientVars>>

UnlockInfo(c) ==
    /\ In(c, "unlockinfo")
    /\ Unlock(c)
    /\ IF Req(c) = "restore" THEN Goto(c, "mvfiles") /\ UNCHANGED faults ELSE Finish(c)
    /\ UNCHANGED <<mapLocks, built, freed, dbs, mans, files, clientVars>>

-----------------------------------------------------------------------------
(* load                                                                    *)

TryMap(c) ==
    /\ In(c, "trymap")
    /\ IF CanWrite(dmLock)
       THEN dmLock' = Write(dmLock, c) /\ Goto(c, "loading") /\ UNCHANGED infoLock
       ELSE Unlock(c) /\ at' = [at EXCEPT ![c] = Idle] /\ UNCHANGED dmLock
    /\ UNCHANGED <<abLock, tmLock, built, freed, dbs, mans, files, clientVars, faults>>

\* A Database is made, and a manager for it.
Loading(c) ==
    /\ In(c, "loading") /\ TouchesFiles(0)
    /\ mgr' = Append(mgr, NewManager)
    /\ at' = [at EXCEPT ![c].db = Len(mgr) + 1, ![c].pc = "addman"]
    /\ UNCHANGED <<mapLocks, infos, dbs, managers, files, clientVars>>

\* insert does not replace a manager that is there; a Database that fails to
\* load is reported with both locks held.
AddManager(c) ==
    /\ In(c, "addman") /\ CanWrite(tmLock)
    /\ managers' = IF managers = 0 THEN at[c].db ELSE managers
    /\ \E ok \in Outcomes : IF ok THEN Goto(c, "adddb") ELSE at' = [at EXCEPT ![c] = Idle]
    /\ UNCHANGED <<mapLocks, infos, dbs, mgr, files, clientVars, faults>>

\* Mutant: databases_map_lock is not released.
AddDbHolds(c) ==
    /\ In(c, "adddb")
    /\ loaded' = IF loaded = 0 THEN at[c].db ELSE loaded
    /\ Goto(c, "unlockinfo")
    /\ UNCHANGED <<mapLocks, infos, deleted, mans, files, clientVars, faults>>

AddDb(c) ==
    /\ In(c, "adddb")
    /\ loaded' = IF loaded = 0 THEN at[c].db ELSE loaded
    /\ dmLock' = Unlocked(dmLock, c)
    /\ Goto(c, "unlockinfo")
    /\ UNCHANGED <<abLock, tmLock, infos, deleted, mans, files, clientVars, faults>>

-----------------------------------------------------------------------------
(* unload and checkpoint                                                   *)

Unmap(c) ==
    /\ In(c, "unmap") /\ CanWrite(dmLock)
    /\ IF loaded = 0
       THEN Unlock(c) /\ at' = [at EXCEPT ![c] = Idle] /\ UNCHANGED dmLock
       ELSE dmLock' = Write(dmLock, c) /\ Goto(c, "findman") /\ UNCHANGED infoLock
    /\ UNCHANGED <<abLock, tmLock, built, freed, dbs, mans, files, clientVars, faults>>

\* Without a manager unload returns with databases_map_lock held.
FindMan(c) ==
    /\ In(c, "findman") /\ CanRead(tmLock)
    /\ IF managers = 0 THEN Unlock(c) /\ at' = [at EXCEPT ![c] = Idle]
       ELSE Goto(c, "eraseman") /\ UNCHANGED infoLock
    /\ UNCHANGED <<mapLocks, built, freed, dbs, mans, files, clientVars, faults>>

\* Mutant: the manager stays in txn_managers.
EraseManKept(c) ==
    /\ In(c, "eraseman") /\ CanWrite(tmLock)
    /\ at' = [at EXCEPT ![c].man = managers,
                        ![c].pc = IF managers = 0 THEN "delete" ELSE "abortall"]
    /\ UNCHANGED <<mapLocks, infos, dbs, mans, files, clientVars, faults>>

\* db_checkpoint
EraseMan(c) ==
    /\ In(c, "eraseman") /\ CanWrite(tmLock)
    /\ managers' = 0
    /\ at' = [at EXCEPT ![c].man = managers,
                        ![c].pc = IF managers = 0 THEN "delete" ELSE "abortall"]
    /\ UNCHANGED <<mapLocks, infos, dbs, mgr, files, clientVars, faults>>

AbortAll(c) ==
    /\ In(c, "abortall")
    /\ mgr' = AbortedAll(at[c].man)
    /\ Goto(c, "waitckpt")
    /\ UNCHANGED <<mapLocks, infos, dbs, managers, files, clientVars, faults>>

\* Txn_manager::Checkpoint waits for the transactions to end ...
WaitCheckpoint(c) ==
    LET m == at[c].man IN
    /\ In(c, "waitckpt")
    /\ mgr[m].ckpt = NoOne /\ mgr[m].readers = 0
    /\ mgr' = [mgr EXCEPT ![m].ckpt = c]
    /\ Goto(c, "merge")
    /\ UNCHANGED <<mapLocks, infos, dbs, managers, files, clientVars, faults>>

\* Mutant: checkpoint_lock is not released.
MergeHolds(c) ==
    /\ In(c, "merge") /\ Uses(at[c].man)
    /\ Goto(c, IF Req(c) = "unload" THEN "delete" ELSE "save")
    /\ UNCHANGED <<mapLocks, infos, dbs, mans, files, clientVars>>

\* ... and merges the versions in.
Merge(c) ==
    LET m == at[c].man IN
    /\ In(c, "merge") /\ Uses(m)
    /\ mgr' = [mgr EXCEPT ![m].ckpt = NoOne]
    /\ Goto(c, IF Req(c) = "unload" THEN "delete" ELSE "save")
    /\ UNCHANGED <<mapLocks, infos, dbs, managers, files, clientVars>>

Delete(c) ==
    /\ In(c, "delete") /\ TouchesFiles(loaded)
    /\ deleted' = deleted \cup {loaded} /\ loaded' = 0
    /\ dmLock' = Unlocked(dmLock, c)
    /\ mgr' = IF LastOf(c) THEN [mgr EXCEPT ![at[c].man] = NewManager] ELSE mgr
    /\ at' = [at EXCEPT ![c].man = 0, ![c].pc = "unlockinfo"]
    /\ UNCHANGED <<abLock, tmLock, infos, managers, files, clientVars>>

Save(c) ==
    /\ In(c, "save") /\ TouchesFiles(at[c].db)
    /\ files' = "partial"
    /\ Goto(c, "saved")
    /\ UNCHANGED <<mapLocks, infos, dbs, mans, clientVars>>

Saved(c) ==
    /\ In(c, "saved")
    /\ files' = "whole"
    /\ Goto(c, "unlockinfo")
    /\ UNCHANGED <<mapLocks, infos, dbs, mans, clientVars, faults>>

-----------------------------------------------------------------------------
(* drop                                                                    *)

\* A loaded database is deleted first; its manager stays.
DropMap(c) ==
    /\ In(c, "dropmap") /\ CanWrite(dmLock)
    /\ IF loaded # 0
       THEN /\ deleted' = deleted \cup {loaded} /\ loaded' = 0
            /\ dmLock' = Write(dmLock, c) /\ Goto(c, "dropbuilt")
       ELSE Goto(c, "dropinfo") /\ UNCHANGED <<dmLock, dbs>>
    /\ UNCHANGED <<abLock, tmLock, infos, mans, files, clientVars, faults>>

DropBuilt(c) ==
    /\ In(c, "dropbuilt") /\ CanWrite(abLock)
    /\ built' = 0 /\ Unlock(c) /\ dmLock' = Unlocked(dmLock, c)
    /\ Goto(c, "rm")
    /\ UNCHANGED <<abLock, tmLock, freed, dbs, mans, files, clientVars, faults>>

\* The lock that is released last is that of the deleted DBInfo.
DropInfo(c) ==
    /\ In(c, "dropinfo") /\ CanWrite(abLock)
    /\ IF at[c].info \in freed THEN Fault("database info used after drop")
                               ELSE UNCHANGED faults
    /\ freed' = freed \cup {at[c].info} /\ built' = 0 /\ Unlock(c)
    /\ Goto(c, "rm")
    /\ UNCHANGED <<mapLocks, dbs, mans, files, clientVars>>

Remove(c) ==
    /\ In(c, "rm")
    /\ files' = "absent" /\ Finish(c)
    /\ UNCHANGED <<mapLocks, infos, dbs, mans, clientVars>>

-----------------------------------------------------------------------------
(* build, backup, restore, show                                            *)

Build(c) ==
    /\ In(c, "build")
    /\ files' = "partial" /\ Goto(c, "building")
    /\ UNCHANGED <<mapLocks, infos, dbs, mans, clientVars, faults>>

\* Without the privileges the files stay, but there is no DBInfo for them.
BuildEnds(c) ==
    /\ In(c, "building")
    /\ \/ files' = "absent" /\ Finish(c)
       \/ files' = "whole" /\ Finish(c)
       \/ files' = "whole" /\ Goto(c, "addinfo") /\ UNCHANGED faults
    /\ UNCHANGED <<mapLocks, infos, dbs, mans, clientVars>>

\* already_build.insert, which replaces nothing, of a new DBInfo
Inserted ==
    /\ infoLock' = Append(infoLock, Free)
    /\ built' = IF built = 0 THEN Len(infoLock) + 1 ELSE built

AddInfo(c) ==
    /\ In(c, "addinfo") /\ CanWrite(abLock)
    /\ Inserted /\ Finish(c)
    /\ UNCHANGED <<mapLocks, freed, dbs, mans, files, clientVars>>

Copy(c) ==
    /\ In(c, "copy") /\ CanWrite(dmLock)
    /\ TouchesFiles(0) /\ Goto(c, "unlockinfo")
    /\ UNCHANGED <<mapLocks, infos, dbs, mans, files, clientVars>>

\* restore adds what is not there, privileges granted, under a lock for reading.
FindInfo(c) ==
    /\ In(c, "findinfo") /\ CanRead(abLock)
    /\ \/ /\ built = 0 /\ at' = [at EXCEPT ![c] = Idle]
          /\ UNCHANGED <<built, infoLock>>
       \/ /\ IF built = 0 THEN Inserted ELSE UNCHANGED <<built, infoLock>>
          /\ at' = [at EXCEPT ![c].info = built', ![c].pc = "lockinfo"]
    /\ UNCHANGED <<mapLocks, freed, dbs, mans, files, clientVars, faults>>

RemoveFiles(c) ==
    /\ In(c, "rmfiles")
    /\ files' = "absent" /\ Goto(c, "copyback")
    /\ UNCHANGED <<mapLocks, infos, dbs, mans, clientVars, faults>>

CopyBack(c) ==
    /\ In(c, "copyback") /\ CanWrite(dmLock)
    /\ \E ok \in Outcomes :
          IF ok THEN Goto(c, "unlockinfo") /\ UNCHANGED infoLock
                ELSE Unlock(c) /\ at' = [at EXCEPT ![c] = Idle]
    /\ UNCHANGED <<mapLocks, built, freed, dbs, mans, files, clientVars, faults>>

\* The copy gets its name when no lock is held any more.
MoveFiles(c) ==
    /\ In(c, "mvfiles")
    /\ files' = "whole" /\ Finish(c)
    /\ UNCHANGED <<mapLocks, infos, dbs, mans, clientVars>>

\* already_build is read with each name looked up in databases.
Show(c) ==
    /\ In(c, "show") /\ CanRead(abLock)
    /\ abLock' = Read(abLock, c) /\ Goto(c, "showdb")
    /\ UNCHANGED <<dmLock, tmLock, infos, dbs, mans, files, clientVars, faults>>

ShowDb(c) ==
    /\ In(c, "showdb") /\ CanRead(dmLock)
    /\ abLock' = Unlocked(abLock, c) /\ Finish(c)
    /\ UNCHANGED <<dmLock, tmLock, infos, dbs, mans, files, clientVars>>

-----------------------------------------------------------------------------
(* Transactions                                                            *)

Begin(c) ==
    LET m == at[c].man IN
    /\ In(c, "begin")
    /\ mgr[m].ckpt = NoOne
    /\ mgr' = [mgr EXCEPT ![m].readers = @ + 1]
    /\ Goto(c, "addtxn")
    /\ UNCHANGED <<mapLocks, infos, dbs, managers, files, clientVars, faults>>

\* Mutant: the TID is the number of open transactions.
AddTransactionReused(c) ==
    LET m == at[c].man IN
    /\ In(c, "addtxn")
    /\ mgr[m].lost = 0
    /\ mgr' = [mgr EXCEPT ![m].begun = Cardinality(mgr[m].running) + 1,
                          ![m].running = @ \cup {Cardinality(mgr[m].running) + 1}]
    /\ tid' = [tid EXCEPT ![c] = Cardinality(mgr[m].running) + 1]
    /\ home' = [home EXCEPT ![c] = m]
    /\ Finish(c)
    /\ UNCHANGED <<mapLocks, infos, dbs, managers, files, told>>

\* add_transaction; the client learns its TID.
AddTransaction(c) ==
    LET m == at[c].man IN
    /\ In(c, "addtxn")
    /\ mgr[m].lost = 0
    /\ mgr' = [mgr EXCEPT ![m].begun = @ + 1,
                          ![m].running = @ \cup {mgr[m].begun + 1}]
    /\ tid' = [tid EXCEPT ![c] = mgr[m].begun + 1]
    /\ home' = [home EXCEPT ![c] = m]
    /\ Finish(c)
    /\ UNCHANGED <<mapLocks, infos, dbs, managers, files, told>>

Known(c) == tid[c] \in 1..mgr[at[c].man].begun
IsRunning(c) == tid[c] \in mgr[at[c].man].running

Forgotten(c) ==
    /\ tid' = [tid EXCEPT ![c] = 0] /\ home' = [home EXCEPT ![c] = 0]
    /\ told' = [told EXCEPT ![c] = FALSE]

\* Mutant: whoever ends a transaction that is over gives checkpoint_lock back.
RefusedUnlocks(c) ==
    LET m == at[c].man IN
    /\ In(c, "end") \/ In(c, "tquery")
    /\ tid[c] \notin mgr[m].running
    /\ mgr' = [mgr EXCEPT ![m].readers = @ - 1]
    /\ tid' = [tid EXCEPT ![c] = 0] /\ home' = [home EXCEPT ![c] = 0]
    /\ told' = [told EXCEPT ![c] = FALSE] /\ Finish(c)
    /\ UNCHANGED <<mapLocks, infos, dbs, managers, files>>

\* get_transaction leaves table_lock held for a TID it does not know; Commit
\* gives checkpoint_lock back whether or not the transaction is running.
Refused(c) ==
    LET m == at[c].man IN
    /\ In(c, "end") \/ In(c, "tquery")
    /\ ~IsRunning(c)
    /\ mgr' = [mgr EXCEPT ![m].lost = @ + (IF Known(c) THEN 0 ELSE 1),
                          ![m].readers = @ - (IF Req(c) = "commit" THEN 1 ELSE 0)]
    /\ Forgotten(c) /\ Finish(c)
    /\ UNCHANGED <<mapLocks, infos, dbs, managers, files>>

Query(c) ==
    /\ In(c, "tquery") /\ IsRunning(c)
    /\ Uses(at[c].man) /\ Goto(c, "tqueried")
    /\ UNCHANGED <<mapLocks, infos, dbs, mans, files, clientVars>>

\* The statement is done, or the transaction became ABORTED and is aborted.
QueryEnds(c) ==
    LET m == at[c].man IN
    /\ In(c, "tqueried") /\ Uses(m)
    /\ \/ IsRunning(c) /\ UNCHANGED <<mgr, clientVars>>
       \/ /\ mgr' = Ended(m, tid[c])
          /\ told' = [told EXCEPT ![c] = TRUE] /\ UNCHANGED <<tid, home>>
    /\ at' = [at EXCEPT ![c] = Idle]
    /\ UNCHANGED <<mapLocks, infos, dbs, managers, files>>

\* Commit and Rollback of a transaction that is running ...
End(c) ==
    /\ In(c, "end") /\ IsRunning(c)
    /\ Goto(c, "ending")
    /\ UNCHANGED <<mapLocks, infos, dbs, mans, files, clientVars, faults>>

\* ... at the end of which checkpoint_lock is given back.
Ending(c) ==
    LET m == at[c].man IN
    /\ In(c, "ending") /\ Uses(m)
    /\ mgr' = Ended(m, tid[c])
    /\ Forgotten(c)
    /\ at' = [at EXCEPT ![c] = Idle]
    /\ UNCHANGED <<mapLocks, infos, dbs, managers, files>>

-----------------------------------------------------------------------------
Serve(c) ==
    \/ CheckExist(c) \/ CheckLoad(c) \/ GetDb(c) \/ GetInfo(c) \/ GetMan(c)
    \/ LockShared(c) \/ LockExclusive(c) \/ LockFails(c)
    \/ Use(c) \/ Used(c) \/ UnlockInfo(c)
    \/ TryMap(c) \/ Loading(c) \/ AddManager(c) \/ AddDb(c)
    \/ Unmap(c) \/ FindMan(c) \/ EraseMan(c) \/ AbortAll(c) \/ Delete(c)
    \/ WaitCheckpoint(c) \/ Merge(c) \/ Save(c) \/ Saved(c)
    \/ DropMap(c) \/ DropBuilt(c) \/ DropInfo(c) \/ Remove(c)
    \/ Build(c) \/ BuildEnds(c) \/ AddInfo(c) \/ Copy(c)
    \/ FindInfo(c) \/ RemoveFiles(c) \/ CopyBack(c) \/ MoveFiles(c)
    \/ Show(c) \/ ShowDb(c)
    \/ Begin(c) \/ AddTransaction(c) \/ Refused(c)
    \/ Query(c) \/ QueryEnds(c) \/ End(c) \/ Ending(c)

Next == \E c \in Clients : Serve(c) \/ \E k \in Requests : Request(c, k)

Spec == Init /\ [][Next]_vars

\* A thread that can go on again and again goes on: a lock that is free again
\* and again is got.  A client with an open transaction ends it at last.
Ends(c) == Request(c, "commit") \/ Request(c, "rollback")
FairSpec == Spec /\ \A c \in Clients : SF_vars(Serve(c)) /\ SF_vars(Ends(c))

-----------------------------------------------------------------------------
(* Properties                                                              *)

TypeOK ==
    /\ \A l \in {abLock, dmLock, tmLock} \cup {infoLock[i] : i \in 1..Len(infoLock)} :
          l.wr \in Clients \cup {NoOne} /\ l.rd \subseteq Clients
    /\ built \in 0..Len(infoLock) /\ freed \subseteq 1..Len(infoLock)
    /\ loaded \in 0..Len(mgr) /\ managers \in 0..Len(mgr)
    /\ deleted \subseteq 1..Len(mgr)
    /\ \A m \in 1..Len(mgr) : mgr[m].readers \in 0..Cardinality(Clients)
    /\ files \in {"absent", "partial", "whole"}

\* No handler works on a Database or a DBInfo that another has deleted, or
\* reads files that another is writing.
NoFault == faults = {}

\* A handler that has returned holds no lock.
HandsBack ==
    \A c \in Clients : at[c].pc = "idle" =>
        \A l \in {abLock, dmLock, tmLock} \cup {infoLock[i] : i \in 1..Len(infoLock)} :
            l.wr # c /\ c \notin l.rd

\* A loaded database has its own manager; one that is not loaded has none, or
\* that of the Database it was dropped with.
Changing(c) == at[c].pc \in {"addman", "adddb", "eraseman", "abortall", "waitckpt",
                             "merge", "delete", "dropbuilt"}
ManagerMatches ==
    (\A c \in Clients : ~Changing(c)) =>
        managers = loaded \/ (loaded = 0 /\ managers \in deleted)

\* checkpoint_lock is held once per transaction that is open or being opened,
\* and by nobody beside a checkpoint.
LockPerTransaction ==
    \A m \in 1..Len(mgr) :
        /\ mgr[m].readers = Cardinality(mgr[m].running)
                + Cardinality({c \in Clients : at[c].pc = "addtxn" /\ at[c].man = m})
        /\ mgr[m].ckpt # NoOne => mgr[m].readers = 0

\* A client's TID is that of a running transaction it began itself.
OwnTransaction ==
    \A c \in Clients : tid[c] # 0 =>
        /\ home[c] = managers /\ at[c].man \in {0, home[c]}
        /\ (managers # 0 /\ tid[c] \in mgr[managers].running) <=> ~told[c]
        /\ \A d \in Clients \ {c} : tid[d] # tid[c]

\* Whoever works on a Database with its lock held alone is alone in it.
Working(c) == at[c].pc \in {"use", "used", "save", "saved", "delete"}
WorksAlone ==
    \A c, d \in Clients :
        c # d /\ Working(c) /\ Working(d) /\ at[c].db = at[d].db
        => Req(c) \in {"query", "monitor"} /\ Req(d) \in {"query", "monitor"}

\* Every request is answered.
EveryRequestReturns == \A c \in Clients : at[c].pc # "idle" ~> at[c].pc = "idle"
=============================================================================
