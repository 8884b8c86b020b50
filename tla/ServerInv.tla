----------------------------- MODULE ServerInv ------------------------------
(***************************************************************************)
(* The safety properties of Server in inductive form: what has to be said  *)
(* besides a property for every step of every handler to preserve it.      *)
(***************************************************************************)
EXTENDS Server

\* What clients keep apart because the locks do not, and what else is asked of
\* them and of the machine for the handlers to be safe.
Polite ==
    /\ \A k \in Kinds : {"drop", k} \in Apart
    /\ \A k \in {"build", "restore"} : {"build", k} \in Apart
    /\ \A k \in {"load", "backup", "unload", "checkpoint"} : {"restore", k} \in Apart
    /\ \A k \in {"begin", "query", "monitor", "batch", "checkpoint"} :
          {"unload", k} \in Apart
    /\ "unload" \in Quiet
    /\ WithOpen \subseteq {"tquery", "commit", "rollback", "show"}
    /\ ~ReloadsDropped /\ ~CommitsAborted
    /\ Outcomes \subseteq {TRUE} /\ Replies \subseteq {TRUE}

-----------------------------------------------------------------------------
(* Where the handlers are                                                  *)

\* The steps at which a handler is for some kinds of request only.
Steps == {"idle", "checkexist", "checkload", "getdb", "getinfo", "lockinfo", "getman",
          "use", "used", "unlockinfo", "trymap", "loading", "addman", "adddb",
          "unmap", "findman", "eraseman", "abortall", "waitckpt", "merge", "delete",
          "save", "saved", "dropmap", "dropbuilt", "dropinfo", "rm",
          "build", "building", "addinfo", "copy",
          "findinfo", "rmfiles", "copyback", "mvfiles", "show", "showdb",
          "begin", "addtxn", "tquery", "tqueried", "end", "ending"}

ServesKind(pc, k) ==
    /\ pc \in {"build", "building", "addinfo"} => k = "build"
    /\ pc \in {"trymap", "loading", "addman", "adddb"} => k = "load"
    /\ pc \in {"unmap", "findman", "eraseman", "abortall", "delete"} => k = "unload"
    /\ pc \in {"save", "saved"} => k = "checkpoint"
    /\ pc \in {"dropmap", "dropbuilt", "dropinfo", "rm"} => k = "drop"
    /\ pc = "copy" => k = "backup"
    /\ pc \in {"findinfo", "rmfiles", "copyback", "mvfiles"} => k = "restore"
    /\ pc \in {"show", "showdb"} => k = "show"
    /\ pc \in {"begin", "addtxn"} => k = "begin"
    /\ pc \in {"tquery", "tqueried"} => k = "tquery"
    /\ pc \in {"end", "ending"} => k \in {"commit", "rollback"}
    /\ pc \in {"waitckpt", "merge"} => k \in {"unload", "checkpoint"}
    /\ pc \in {"use", "used"} => k \in {"query", "monitor", "batch"}
    /\ pc = "getman" => k \in {"begin", "tquery", "commit", "rollback", "checkpoint"}
    /\ pc = "checkload" => k \in {"load", "unload", "commit", "rollback", "query"}
    /\ pc = "getdb" => k \in {"monitor", "checkpoint", "batch", "begin", "query", "tquery"}
    /\ pc = "getinfo" => k \in {"drop", "backup", "unload", "monitor", "checkpoint",
                                "batch", "query"}
    /\ pc = "lockinfo" => k \in {"load", "unload", "drop", "backup", "restore", "monitor",
                                 "checkpoint", "batch", "query"}
    /\ pc = "unlockinfo" => k \in {"load", "unload", "backup", "restore", "checkpoint"}
    /\ pc = "checkexist" => k \notin {"show", "restore", "tquery"}

\* Who holds the lock of its DBInfo alone, ...
HoldsAlone(c) ==
    \/ at[c].pc \in {"trymap", "loading", "addman", "adddb", "unmap", "findman",
                     "eraseman", "abortall", "waitckpt", "merge", "delete",
                     "save", "saved", "dropmap", "dropbuilt", "dropinfo",
                     "copy", "rmfiles", "copyback", "unlockinfo"}
    \/ at[c].pc \in {"use", "used"} /\ Req(c) = "batch"
    \/ at[c].pc = "getman" /\ Req(c) = "checkpoint"

\* ... with others, ...
HoldsShared(c) == at[c].pc \in {"use", "used"} /\ Req(c) \in {"query", "monitor"}

\* ... and who holds databases_map_lock.
HoldsMap(c) ==
    \/ at[c].pc \in {"loading", "addman", "adddb", "findman", "eraseman",
                     "abortall", "delete", "dropbuilt"}
    \/ at[c].pc \in {"waitckpt", "merge"} /\ Req(c) = "unload"

Lock == [wr : Clients \cup {NoOne}, rd : SUBSET Clients]
Manager == [ckpt : Clients \cup {NoOne}, readers : Int, lost : Nat,
            begun : Nat, running : {ts \in SUBSET Nat : IsFiniteSet(ts)}]
Handler == [pc : Steps, req : Kinds, db : Nat, info : Nat, man : Nat]

Types ==
    /\ abLock \in Lock /\ dmLock \in Lock /\ tmLock = Free
    /\ infoLock \in Seq(Lock) /\ mgr \in Seq(Manager)
    /\ built \in 0..Len(infoLock) /\ freed \subseteq 1..Len(infoLock)
    /\ loaded \in 0..Len(mgr) /\ managers \in 0..Len(mgr) /\ deleted \subseteq Nat
    /\ files \in {"absent", "partial", "whole"}
    /\ at \in [Clients -> Handler]
    /\ tid \in [Clients -> Nat] /\ told \in [Clients -> BOOLEAN] /\ home \in [Clients -> Nat]

\* The pointers a handler has at each step.
Placed(c) ==
    /\ ServesKind(at[c].pc, Req(c))
    /\ at[c].info \in 0..Len(infoLock)
    /\ at[c].db \in 0..Len(mgr) /\ at[c].man \in 0..Len(mgr)
    /\ at[c].pc = "idle" => at[c] = Idle
    /\ HoldsAlone(c) \/ HoldsShared(c) => at[c].info # 0
    /\ at[c].pc \in {"addman", "adddb"} => at[c].db # 0
    /\ at[c].pc \in {"begin", "addtxn", "tquery", "tqueried", "end", "ending",
                     "abortall", "waitckpt", "merge"} => at[c].man # 0

Shape == Types /\ \A c \in Clients : Placed(c)

-----------------------------------------------------------------------------
(* What a step does to its handler                                         *)

\* c's handler goes to a step, with these pointers; the others stay where they are.
Goes(c, pc, db, info, man) ==
    /\ at' \in [Clients -> Handler]
    /\ \A d \in Clients \ {c} : at'[d] = at[d]
    /\ at'[c].pc = pc /\ at'[c].req = at[c].req
    /\ at'[c].db = db /\ at'[c].info = info /\ at'[c].man = man

\* c's handler returns.
Leaves(c) ==
    /\ at' \in [Clients -> Handler]
    /\ \A d \in Clients \ {c} : at'[d] = at[d]
    /\ at'[c] = Idle

\* The lock of the i-th DBInfo becomes l; there is one DBInfo more.
SetsLock(i, l) ==
    /\ infoLock' \in Seq(Lock) /\ Len(infoLock') = Len(infoLock) /\ i \in 1..Len(infoLock)
    /\ \A j \in 1..Len(infoLock) : infoLock'[j] = IF j = i THEN l ELSE infoLock[j]
AddsLock ==
    /\ infoLock' \in Seq(Lock) /\ Len(infoLock') = Len(infoLock) + 1
    /\ infoLock'[Len(infoLock) + 1] = Free
    /\ \A j \in 1..Len(infoLock) : infoLock'[j] = infoLock[j]

\* The fields of the m-th manager become these; there is one manager more.
SetsManager(m, ckpt, readers, begun, running) ==
    /\ mgr' \in Seq(Manager) /\ Len(mgr') = Len(mgr) /\ m \in 1..Len(mgr)
    /\ mgr'[m].ckpt = ckpt /\ mgr'[m].readers = readers
    /\ mgr'[m].begun = begun /\ mgr'[m].running = running
    /\ \A j \in 1..Len(mgr) : j # m => mgr'[j] = mgr[j]
AddsManager ==
    /\ mgr' \in Seq(Manager) /\ Len(mgr') = Len(mgr) + 1
    /\ mgr'[Len(mgr) + 1] = NewManager
    /\ \A j \in 1..Len(mgr) : mgr'[j] = mgr[j]

-----------------------------------------------------------------------------
(* What clients see to                                                     *)

\* Requests that clients keep apart are not under way together.
ApartInv ==
    \A c, d \in Clients :
        c # d /\ at[c].pc # "idle" /\ at[d].pc # "idle" => {Req(c), Req(d)} \notin Apart

\* Only the requests about a transaction come from a client that has one open,
\* and none is open while a database is unloaded.
OpenInv ==
    \A c \in Clients : at[c].pc # "idle" =>
        /\ Req(c) \in {"tquery", "commit", "rollback"} => tid[c] # 0
        /\ Req(c) \notin {"tquery", "commit", "rollback", "show"} => tid[c] = 0
        /\ Req(c) = "unload" => \A d \in Clients : tid[d] = 0

-----------------------------------------------------------------------------
(* The maps                                                                *)

\* databases_map_lock and already_build_map_lock say who is at a step that
\* holds them.
MapLocksInv ==
    /\ \A c \in Clients : /\ dmLock.wr = c <=> HoldsMap(c)
                          /\ c \in abLock.rd <=> at[c].pc = "showdb"
    /\ dmLock.rd = {} /\ abLock.wr = NoOne

Unloading(c) == Req(c) = "unload" /\ at[c].pc \in {"abortall", "waitckpt", "merge", "delete"}

\* Databases, their managers and deleted ones.
MapsInv ==
    /\ loaded \notin deleted /\ deleted \subseteq 1..Len(mgr)
    /\ loaded # 0 => \/ managers = loaded
                     \/ managers = 0 /\ \E c \in Clients : Unloading(c)
    /\ loaded = 0 => \/ managers \in deleted \cup {0}
                     \/ \E c \in Clients : at[c].pc = "adddb" /\ managers = at[c].db
    /\ \A c \in Clients :
         /\ at[c].pc \in {"findman", "eraseman"} => loaded # 0
         /\ Unloading(c) => loaded # 0 /\ managers = 0 /\ at[c].man = loaded
         /\ Req(c) = "unload" /\ at[c].man # 0 => Unloading(c)
         /\ at[c].pc \in {"addman", "adddb"} => at[c].db \notin deleted \cup {0, loaded}
         /\ at[c].pc = "adddb" /\ loaded = 0 => managers = at[c].db
         /\ Req(c) = "load" /\ at[c].pc # "idle" => managers \notin deleted

\* All of this together, an inductive invariant of its own.
Maps == Shape /\ ApartInv /\ OpenInv /\ MapLocksInv /\ MapsInv

\* What a handler has looked up is still what the maps have.
LookedUp(c) ==
    /\ Req(c) \notin {"build", "restore", "show", "tquery"}
       /\ at[c].pc \notin {"idle", "checkexist", "rm"} => built # 0
    /\ at[c].pc \in {"build", "building", "addinfo", "rm"} => built = 0
    /\ at[c].info # 0 => at[c].info = built \/ at[c].pc = "rm"
    /\ at[c].pc = "lockinfo" /\ Req(c) # "load" => at[c].info # 0
    /\ Req(c) \in {"query", "monitor", "batch", "checkpoint"}
       /\ at[c].pc \notin {"idle", "checkexist", "checkload", "getdb"}
         => at[c].db = loaded /\ loaded # 0
    /\ at[c].pc = "getman" \/ (at[c].man # 0 /\ Req(c) # "unload")
         => managers # 0 /\ managers \notin deleted
    /\ at[c].man # 0 /\ Req(c) # "unload" => at[c].man = managers
    /\ at[c].man # 0 => Req(c) \in {"begin", "tquery", "commit", "rollback", "checkpoint",
                                   "unload"}

LookedUpInv == built \notin freed /\ \A c \in Clients : LookedUp(c)

\* The lock of a DBInfo says who is at a step that holds it.
InfoLocksInv ==
    \A i \in 1..Len(infoLock) :
        /\ infoLock[i].wr # NoOne => infoLock[i].rd = {}
        /\ \A c \in Clients :
             /\ infoLock[i].wr = c <=> HoldsAlone(c) /\ at[c].info = i
             /\ c \in infoLock[i].rd <=> HoldsShared(c) /\ at[c].info = i

\* Who is to make files whole that are not: a save or a restore that is under
\* way, or one that has still to lock what it added, and then it is not loaded.
Rewrites(c) ==
    \/ at[c].pc = "saved"
    \/ Req(c) = "restore" /\ at[c].pc \in {"copyback", "unlockinfo", "mvfiles"}
    \/ Req(c) = "restore" /\ at[c].pc \in {"lockinfo", "rmfiles"} /\ loaded = 0

\* The files of a database that is built are whole unless somebody is to make
\* them so.
FilesInv ==
    /\ loaded # 0 => built # 0
    /\ \A c \in Clients : /\ at[c].pc = "addinfo" => files = "whole"
                          /\ at[c].pc \in {"dropbuilt", "dropinfo"} => loaded = 0
    /\ built # 0 /\ files # "whole" => \E c \in Clients : Rewrites(c)

\* All but transactions.
Serving == Maps /\ LookedUpInv /\ InfoLocksInv /\ FilesInv /\ NoFault

-----------------------------------------------------------------------------
(* Transactions                                                            *)

\* An open transaction is one of the manager that is there, and running until
\* its client is told otherwise, before it asks for more.
HasTxn(c) ==
    /\ tid[c] # 0 => /\ managers # 0 /\ home[c] = managers
                     /\ tid[c] <= mgr[managers].begun
                     /\ tid[c] \in mgr[managers].running <=> ~told[c]
    /\ tid[c] = 0 => ~told[c]
    /\ at[c].pc \in {"tqueried", "ending"} => ~told[c]
    /\ at[c].pc # "idle" /\ Req(c) = "commit" => ~told[c]

\* Nothing else runs.
RunsFor(m) ==
    \A t \in mgr[m].running :
        t \in 1..mgr[m].begun /\ m = managers /\ \E c \in Clients : tid[c] = t

OpenTxnInv ==
    /\ \A c \in Clients : HasTxn(c)
    /\ \A c, d \in Clients : c # d /\ tid[c] # 0 => tid[c] # tid[d]
    /\ \A m \in 1..Len(mgr) : RunsFor(m)

\* Who has checkpoint_lock of the m-th manager for a transaction not yet in the
\* table, and what LockPerTransaction says of that manager.
Opening(m) == {c \in Clients : at[c].pc = "addtxn" /\ at[c].man = m}
LockFor(m) ==
    /\ mgr[m].readers = Cardinality(mgr[m].running) + Cardinality(Opening(m))
    /\ mgr[m].ckpt # NoOne => mgr[m].readers = 0
=============================================================================
