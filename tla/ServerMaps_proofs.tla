------------------------- MODULE ServerMaps_proofs --------------------------
(***************************************************************************)
(* Proofs of the safety of Server for any number of clients, in layers:    *)
(* each invariant is proved from the ones before it.                       *)
(***************************************************************************)
EXTENDS ServerInv, SequenceTheorems, FiniteSetTheorems, TLAPS

-----------------------------------------------------------------------------
(* Where the steps take their handlers                                     *)

\* The numbers of objects are numbers.
LEMMA LenFacts ==
    ASSUME Types
    PROVE /\ Len(infoLock) \in Nat /\ Len(mgr) \in Nat
          /\ built \in Nat /\ loaded \in Nat /\ managers \in Nat
          /\ at \in [Clients -> Handler]
  <1>1. Len(infoLock) \in Nat /\ Len(mgr) \in Nat
    BY LenProperties DEF Types
  <1>2. QED BY <1>1 DEF Types

\* Every step that is named below is one of Steps.
LEMMA StepNames ==
    \A s \in {"idle", "checkexist", "checkload", "getdb", "getinfo", "lockinfo",
               "getman", "use", "used", "unlockinfo", "trymap", "loading",
               "addman", "adddb", "unmap", "findman", "eraseman", "abortall",
               "waitckpt", "merge", "delete", "save", "saved", "dropmap",
               "dropbuilt", "dropinfo", "rm", "build", "building", "addinfo",
               "copy", "findinfo", "rmfiles", "copyback", "mvfiles", "show",
               "showdb", "begin", "addtxn", "tquery", "tqueried", "end",
               "ending"} : s \in Steps
  BY DEF Steps

\* Idle is a state of a handler.
LEMMA LeavesFacts ==
    ASSUME NEW c \in Clients, at \in [Clients -> Handler], at' = [at EXCEPT ![c] = Idle]
    PROVE  Leaves(c)
  <1>1. Idle \in Handler
    BY DEF Idle, Handler, Steps, Kinds
  <1>2. QED BY <1>1 DEF Leaves

\* Goto moves the handler and leaves its pointers.
LEMMA GotoFacts ==
    ASSUME NEW c \in Clients, at \in [Clients -> Handler], NEW s \in Steps, Goto(c, s)
    PROVE Goes(c, s, at[c].db, at[c].info, at[c].man)
  BY DEF Goto, Handler, Goes

\* checkdbexist: the handler returns or goes on to a step of its kind.
LEMMA CheckExistMoves ==
    ASSUME NEW c \in Clients, at \in [Clients -> Handler], CheckExist(c),
           ServesKind(at[c].pc, at[c].req)
    PROVE  /\ at[c].pc = "checkexist" /\ faults = {}
           /\ \/ Leaves(c)
              \/ \E s \in {"build", "checkload", "getdb", "getinfo"} :
                    Goes(c, s, at[c].db, at[c].info, at[c].man) /\ ServesKind(s, at[c].req)
  <1> DEFINE s == AfterExist(Req(c))
  <1>1. /\ at[c].pc = "checkexist" /\ faults = {}
        /\ at' = [at EXCEPT ![c] = Idle] \/ Goto(c, s)
    BY Zenon DEF CheckExist, Finish, In
  <1>2. at[c].req \in Kinds \ {"show", "restore", "tquery"}
    BY <1>1 DEF ServesKind, Handler
  <1>3. s \in {"build", "checkload", "getdb", "getinfo"} /\ ServesKind(s, at[c].req)
    BY <1>2 DEF AfterExist, ServesKind, Kinds, Req
  <1>4. s \in Steps
    BY <1>3 DEF Steps
  <1> HIDE DEF s
  <1>5. CASE Goto(c, s)
    BY <1>1, <1>3, <1>4, <1>5, GotoFacts
  <1>6. CASE at' = [at EXCEPT ![c] = Idle]
    BY <1>1, <1>6, LeavesFacts
  <1>7. QED BY <1>1, <1>5, <1>6

\* checkdbload: the handler returns or goes on to a step of its kind.
LEMMA CheckLoadMoves ==
    ASSUME NEW c \in Clients, at \in [Clients -> Handler], CheckLoad(c),
           ServesKind(at[c].pc, at[c].req)
    PROVE  /\ at[c].pc = "checkload" /\ faults = {}
           /\ \/ Leaves(c)
              \/ \E s \in {"lockinfo", "getman", "getdb", "getinfo"} :
                    Goes(c, s, at[c].db, at[c].info, at[c].man) /\ ServesKind(s, at[c].req)
  <1> DEFINE s == AfterLoad(Req(c))
  <1>1. /\ at[c].pc = "checkload" /\ faults = {}
        /\ at' = [at EXCEPT ![c] = Idle] \/ Goto(c, s)
    BY Zenon DEF CheckLoad, Finish, In
  <1>2. at[c].req \in {"load", "unload", "commit", "rollback", "query"}
    BY <1>1 DEF ServesKind, Handler
  <1>3. s \in {"lockinfo", "getman", "getdb", "getinfo"} /\ ServesKind(s, at[c].req)
    BY <1>2 DEF AfterLoad, ServesKind, Kinds, Req
  <1>4. s \in Steps
    BY <1>3 DEF Steps
  <1> HIDE DEF s
  <1>5. CASE Goto(c, s)
    BY <1>1, <1>3, <1>4, <1>5, GotoFacts
  <1>6. CASE at' = [at EXCEPT ![c] = Idle]
    BY <1>1, <1>6, LeavesFacts
  <1>7. QED BY <1>1, <1>5, <1>6

\* The iterator into already_build becomes the handler's.
LEMMA GetInfoMoves ==
    ASSUME NEW c \in Clients, at \in [Clients -> Handler], GetInfo(c), 
           built \in Nat
    PROVE  /\ at[c].pc = "getinfo" /\ faults = {}
           /\ Goes(c, "lockinfo", at[c].db, built, at[c].man)
     BY DEF GetInfo, Goes, Handler, In, Steps

\* The Database that is loaded becomes the handler's.
LEMMA GetDbMoves ==
    ASSUME NEW c \in Clients, at \in [Clients -> Handler], GetDb(c), 
           ServesKind(at[c].pc, at[c].req), loaded \in Nat
    PROVE  /\ at[c].pc = "getdb" /\ faults = {}
           /\ \/ Leaves(c) /\ loaded = 0
              \/ /\ loaded # 0
                 /\ Goes(c, IF Req(c) \in {"begin", "tquery"} THEN "getman" ELSE "getinfo",
                         loaded, at[c].info, at[c].man)
   <1> DEFINE s == IF Req(c) \in {"begin", "tquery"} THEN "getman" ELSE "getinfo"
   <1>1. at[c].pc = "getdb" /\ faults = {}
     BY DEF GetDb, In
   <1>2. CASE loaded = 0
     BY <1>1, <1>2, LeavesFacts DEF GetDb, Finish
   <1>3. CASE loaded # 0
     <2>1. at' = [at EXCEPT ![c].db = loaded, ![c].pc = s]
       BY <1>3 DEF GetDb
     <2>2. s \in Steps BY DEF Steps
     <2> HIDE DEF s
     <2>3. Goes(c, s, loaded, at[c].info, at[c].man)
       BY <2>1, <2>2 DEF Goes, Handler
     <2> QED BY <1>1, <1>3, <2>3 DEF s
  <1> QED BY <1>2, <1>3

\* The manager that is there becomes the handler's.
LEMMA GetManMoves ==
    ASSUME NEW c \in Clients, at \in [Clients -> Handler], GetMan(c), 
           ServesKind(at[c].pc, at[c].req), managers \in Nat
    PROVE  /\ at[c].pc = "getman" /\ faults = {}
           /\ \/ Leaves(c) /\ managers = 0
              \/ /\ managers # 0
                 /\ \E s \in {"begin", "tquery", "end", "waitckpt"} :
                      Goes(c, s, at[c].db, at[c].info, managers) /\ ServesKind(s, at[c].req)
   <1> DEFINE s == AfterMan(Req(c))
   <1>1. at[c].pc = "getman" /\ faults = {}
     BY DEF GetMan, In
   <1>2. CASE managers = 0
     BY <1>1, <1>2, LeavesFacts DEF GetMan, Finish
   <1>3. CASE managers # 0
     <2>1. at' = [at EXCEPT ![c].man = managers, ![c].pc = s]
       BY <1>3 DEF GetMan
     <2>2. s \in {"begin", "tquery", "end", "waitckpt"} /\ ServesKind(s, at[c].req)
       BY <1>1 DEF AfterMan, ServesKind, Kinds, Req
     <2>3. s \in Steps
       BY <2>2 DEF Steps
     <2> HIDE DEF s
     <2>4. Goes(c, s, at[c].db, at[c].info, managers)
       BY <2>1, <2>3 DEF Goes, Handler
     <2> QED BY <1>1, <1>3, <2>2, <2>4
  <1> QED BY <1>2, <1>3

\* With the lock of its DBInfo the handler goes on to a step of its kind.
LEMMA LockExclusiveMoves ==
    ASSUME NEW c \in Clients, at \in [Clients -> Handler], LockExclusive(c), 
           ServesKind(at[c].pc, at[c].req), built \in Nat
    PROVE  /\ at[c].pc = "lockinfo" /\ faults = {} /\ InfoOf(c) # 0
           /\ \E s \in {"trymap", "unmap", "dropmap", "getman", "use", "copy", "rmfiles"} :
                /\ Goes(c, s, at[c].db, InfoOf(c), at[c].man) /\ ServesKind(s, at[c].req)
                /\ s = "use" => at[c].req = "batch"
                /\ s = "getman" => at[c].req = "checkpoint"
   <1> DEFINE s == AfterLock(Req(c))
   <1>1. at[c].pc = "lockinfo" /\ faults = {} /\ InfoOf(c) # 0 /\ Req(c) \notin {"query", "monitor"}
     BY DEF LockExclusive, In, ReachesInfo, HasInfo
   <1>2. InfoOf(c) \in Nat
     BY DEF InfoOf, Handler
   <1>3. at' = [at EXCEPT ![c].info = InfoOf(c), ![c].pc = s]
     BY DEF LockExclusive
   <1>4. /\ s \in {"trymap", "unmap", "dropmap", "getman", "use", "copy", "rmfiles"}
         /\ ServesKind(s, at[c].req)
         /\ s = "use" => at[c].req = "batch"
         /\ s = "getman" => at[c].req = "checkpoint"
     BY <1>1 DEF AfterLock, ServesKind, Req
   <1>5. s \in Steps
     BY <1>4 DEF Steps
   <1> HIDE DEF s
   <1>6. Goes(c, s, at[c].db, InfoOf(c), at[c].man)
     BY <1>2, <1>3, <1>5 DEF Goes, Handler
   <1> QED BY <1>1, <1>4, <1>6

\* load: the handler has the new Database.
LEMMA LoadingMoves ==
    ASSUME NEW c \in Clients, at \in [Clients -> Handler], Loading(c), Len(mgr) \in Nat
    PROVE  at[c].pc = "loading" /\ faults = {} /\ Goes(c, "addman", Len(mgr) + 1, at[c].info, at[c].man)
  <1>1. at' = [at EXCEPT ![c].db = Len(mgr) + 1, ![c].pc = "addman"] /\ at[c].pc = "loading" /\ faults = {}
    BY DEF Loading, In
  <1>2. Len(mgr) + 1 \in Nat /\ "addman" \in Steps
    BY DEF Steps
  <1>3. QED BY <1>1, <1>2 DEF Goes, Handler

\* unload: the handler has the manager that it took out of the map, if any.
LEMMA EraseManMoves ==
    ASSUME NEW c \in Clients, at \in [Clients -> Handler], EraseMan(c), managers \in Nat
    PROVE  /\ at[c].pc = "eraseman" /\ faults = {}
           /\ Goes(c, IF managers = 0 THEN "delete" ELSE "abortall",
                   at[c].db, at[c].info, managers)
   <1> DEFINE s == IF managers = 0 THEN "delete" ELSE "abortall"
   <1>1. at' = [at EXCEPT ![c].man = managers, ![c].pc = s] /\ at[c].pc = "eraseman" /\ faults = {}
     BY DEF EraseMan, In
   <1>2. s \in Steps BY DEF Steps
   <1> HIDE DEF s
   <1>3. Goes(c, s, at[c].db, at[c].info, managers)
     BY <1>1, <1>2 DEF Goes, Handler
   <1> QED BY <1>1, <1>3 DEF s

\* unload: the Database is deleted.
LEMMA DeleteMoves ==
    ASSUME NEW c \in Clients, at \in [Clients -> Handler], Delete(c)
    PROVE  at[c].pc = "delete" /\ faults = {} /\ Goes(c, "unlockinfo", at[c].db, at[c].info, 0)
  <1>1. at' = [at EXCEPT ![c].man = 0, ![c].pc = "unlockinfo"] /\ at[c].pc = "delete" /\ faults = {}
    BY DEF Delete, In
  <1>2. "unlockinfo" \in Steps
    BY DEF Steps
  <1>3. QED BY <1>1, <1>2 DEF Goes, Handler

\* restore: the handler has the DBInfo that is there, or returns.
LEMMA FindInfoMoves ==
    ASSUME NEW c \in Clients, at \in [Clients -> Handler], FindInfo(c),
           built \in Nat, Len(infoLock) \in Nat
    PROVE  /\ at[c].pc = "findinfo" /\ faults = {}
           /\ \/ /\ built = 0 /\ Leaves(c)
                 /\ UNCHANGED <<built, infoLock>>
              \/ /\ IF built = 0 THEN Inserted ELSE UNCHANGED <<built, infoLock>>
                 /\ built' # 0
                 /\ Goes(c, "lockinfo", at[c].db, built', at[c].man)
  <1>1. at[c].pc = "findinfo" /\ faults = {}
    BY DEF FindInfo, In
  <1>2. CASE built = 0 /\ at' = [at EXCEPT ![c] = Idle] /\ UNCHANGED <<built, infoLock>>
    BY <1>1, <1>2, LeavesFacts
  <1>3. CASE /\ IF built = 0 THEN Inserted ELSE UNCHANGED <<built, infoLock>>
             /\ at' = [at EXCEPT ![c].info = built', ![c].pc = "lockinfo"]
    <2>1. built' \in Nat /\ built' # 0
      BY <1>3 DEF Inserted
    <2>2. "lockinfo" \in Steps
      BY DEF Steps
    <2>3. Goes(c, "lockinfo", at[c].db, built', at[c].man)
      BY <1>3, <2>1, <2>2 DEF Goes, Handler
    <2> QED BY <1>1, <1>3, <2>1, <2>3
  <1> QED BY <1>2, <1>3 DEF FindInfo

\* A request starts a handler at the first step of its kind.
LEMMA RequestMoves ==
    ASSUME NEW c \in Clients, NEW k \in Kinds, at \in [Clients -> Handler], Request(c, k)
    PROVE  /\ at[c].pc = "idle" /\ faults = {}
           /\ First(k) \in {"show", "findinfo", "getdb", "checkexist"} /\ ServesKind(First(k), k)
           /\ at' \in [Clients -> Handler]
           /\ \A d \in Clients \ {c} : at'[d] = at[d]
           /\ at'[c] = [at[c] EXCEPT !.pc = First(k), !.req = k]
  <1>1. at' = [at EXCEPT ![c].pc = First(k), ![c].req = k] /\ at[c].pc = "idle" /\ faults = {}
    BY DEF Request, In
  <1>2. First(k) \in {"show", "findinfo", "getdb", "checkexist"} /\ ServesKind(First(k), k)
    BY DEF First, ServesKind, Kinds
  <1>3. First(k) \in Steps
    BY <1>2 DEF Steps
  <1>4. QED BY <1>1, <1>2, <1>3 DEF Handler

\* The lock of the DBInfo is given back; restore goes on, others return.
LEMMA UnlockInfoMoves ==
    ASSUME NEW c \in Clients, at \in [Clients -> Handler], UnlockInfo(c)
    PROVE  /\ at[c].pc = "unlockinfo" /\ faults = {}
           /\ \/ Leaves(c) /\ Req(c) # "restore"
              \/ Goes(c, "mvfiles", at[c].db, at[c].info, at[c].man) /\ Req(c) = "restore"
  <1>1. at[c].pc = "unlockinfo" /\ faults = {}
    BY DEF UnlockInfo, In
  <1>2. CASE Req(c) = "restore"
    BY <1>1, <1>2, GotoFacts, StepNames DEF UnlockInfo
  <1>3. CASE Req(c) # "restore"
    BY <1>1, <1>3, LeavesFacts DEF UnlockInfo, Finish
  <1>4. QED BY <1>2, <1>3

\* build: it failed, or the new DBInfo is added next.
LEMMA BuildEndsMoves ==
    ASSUME NEW c \in Clients, at \in [Clients -> Handler], BuildEnds(c)
    PROVE  /\ at[c].pc = "building" /\ faults = {}
           /\ \/ Leaves(c) /\ files' \in {"absent", "whole"}
              \/ Goes(c, "addinfo", at[c].db, at[c].info, at[c].man) /\ files' = "whole"
  <1>1. at[c].pc = "building" /\ faults = {}
    BY DEF BuildEnds, In
  <1>2. \/ files' \in {"absent", "whole"} /\ at' = [at EXCEPT ![c] = Idle]
        \/ files' = "whole" /\ Goto(c, "addinfo")
    BY DEF BuildEnds, Finish
  <1>3. QED BY <1>1, <1>2, GotoFacts, LeavesFacts, StepNames

\* drop: the files are removed next.
LEMMA DropInfoMoves ==
    ASSUME NEW c \in Clients, at \in [Clients -> Handler], DropInfo(c)
    PROVE  /\ at[c].pc = "dropinfo" /\ faults = {}
           /\ Goes(c, "rm", at[c].db, at[c].info, at[c].man)
  <1>1. at[c].pc = "dropinfo" /\ faults = {} /\ Goto(c, "rm")
    BY Zenon DEF DropInfo, In
  <1>2. QED BY <1>1, GotoFacts, StepNames

\* A step moves the handler of one client, which returns or goes on with its
\* request.
LEMMA ServeFrame ==
    ASSUME NEW c \in Clients, Types, Placed(c), built' \in Nat, Serve(c)
    PROVE  /\ faults = {} /\ at[c].pc # "idle"
           /\ at' \in [Clients -> Handler]
           /\ \A d \in Clients \ {c} : at'[d] = at[d]
           /\ \/ at'[c] = Idle
              \/ /\ at'[c].pc # "idle" /\ at'[c].req = at[c].req
                 /\ ServesKind(at'[c].pc, at[c].req)
  <1> USE StepNames, LenFacts
  <1>0. ServesKind(at[c].pc, at[c].req) /\ at[c].req \in Kinds
    BY DEF Placed, Types, Handler, Req
  <1>1. CASE CheckExist(c)
    BY <1>0, <1>1, CheckExistMoves DEF Goes, Leaves
  <1>2. CASE CheckLoad(c)
    BY <1>0, <1>2, CheckLoadMoves DEF Goes, Leaves
  <1>3. CASE GetDb(c)
    BY <1>0, <1>3, GetDbMoves DEF Goes, Leaves, ServesKind, Req
  <1>4. CASE GetInfo(c)
    BY <1>0, <1>4, GetInfoMoves DEF Goes, Leaves, ServesKind
  <1>5. CASE GetMan(c)
    BY <1>0, <1>5, GetManMoves DEF Goes, Leaves
  <1>6. CASE LockShared(c)
    BY <1>0, <1>6, GotoFacts DEF LockShared, In, Goes, Leaves, ServesKind, Req, ReachesInfo
  <1>7. CASE LockExclusive(c)
    BY <1>0, <1>7, LockExclusiveMoves DEF Goes, Leaves
  <1>8. CASE LockFails(c)
    BY <1>0, <1>8, LeavesFacts DEF LockFails, In, Goes, Leaves, ServesKind, Req, ReachesInfo
  <1>9. CASE Use(c)
    BY <1>0, <1>9, GotoFacts DEF Use, In, Goes, Leaves, ServesKind
  <1>10. CASE Used(c)
    BY <1>0, <1>10, LeavesFacts DEF Used, In, Goes, Leaves, ServesKind, Req
  <1>11. CASE UnlockInfo(c)
    BY <1>0, <1>11, UnlockInfoMoves DEF Goes, Leaves, ServesKind, Req
  <1>12. CASE TryMap(c)
    BY <1>0, <1>12, GotoFacts, LeavesFacts DEF TryMap, In, Goes, Leaves, ServesKind
  <1>13. CASE Loading(c)
    BY <1>0, <1>13, LoadingMoves DEF Goes, Leaves, ServesKind
  <1>14. CASE AddManager(c)
    BY <1>0, <1>14, GotoFacts, LeavesFacts DEF AddManager, In, Goes, Leaves, ServesKind
  <1>15. CASE AddDb(c)
    BY <1>0, <1>15, GotoFacts DEF AddDb, In, Goes, Leaves, ServesKind
  <1>16. CASE Unmap(c)
    BY <1>0, <1>16, GotoFacts, LeavesFacts DEF Unmap, In, Goes, Leaves, ServesKind
  <1>17. CASE FindMan(c)
    BY <1>0, <1>17, GotoFacts, LeavesFacts DEF FindMan, In, Goes, Leaves, ServesKind
  <1>18. CASE EraseMan(c)
    BY <1>0, <1>18, EraseManMoves DEF Goes, Leaves, ServesKind
  <1>19. CASE AbortAll(c)
    BY <1>0, <1>19, GotoFacts DEF AbortAll, In, Goes, Leaves, ServesKind
  <1>20. CASE Delete(c)
    BY <1>0, <1>20, DeleteMoves DEF Goes, Leaves, ServesKind
  <1>21. CASE WaitCheckpoint(c)
    BY <1>0, <1>21, GotoFacts DEF WaitCheckpoint, In, Goes, Leaves, ServesKind
  <1>22. CASE Merge(c)
    BY <1>0, <1>22, GotoFacts DEF Merge, In, Goes, Leaves, ServesKind, Req
  <1>23. CASE Save(c)
    BY <1>0, <1>23, GotoFacts DEF Save, In, Goes, Leaves, ServesKind
  <1>24. CASE Saved(c)
    BY <1>0, <1>24, GotoFacts DEF Saved, In, Goes, Leaves, ServesKind
  <1>25. CASE DropMap(c)
    BY <1>0, <1>25, GotoFacts DEF DropMap, In, Goes, Leaves, ServesKind
  <1>26. CASE DropBuilt(c)
    BY <1>0, <1>26, GotoFacts DEF DropBuilt, In, Goes, Leaves, ServesKind
  <1>27. CASE DropInfo(c)
    BY <1>0, <1>27, DropInfoMoves DEF Goes, Leaves, ServesKind
  <1>28. CASE Remove(c)
    BY <1>0, <1>28, LeavesFacts DEF Remove, In, Goes, Leaves, ServesKind, Finish
  <1>29. CASE Build(c)
    BY <1>0, <1>29, GotoFacts DEF Build, In, Goes, Leaves, ServesKind
  <1>30. CASE BuildEnds(c)
    BY <1>0, <1>30, BuildEndsMoves DEF Goes, Leaves, ServesKind
  <1>31. CASE AddInfo(c)
    BY <1>0, <1>31, LeavesFacts DEF AddInfo, In, Goes, Leaves, ServesKind, Finish
  <1>32. CASE Copy(c)
    BY <1>0, <1>32, GotoFacts DEF Copy, In, Goes, Leaves, ServesKind
  <1>33. CASE FindInfo(c)
    BY <1>0, <1>33, FindInfoMoves DEF Goes, Leaves, ServesKind
  <1>34. CASE RemoveFiles(c)
    BY <1>0, <1>34, GotoFacts DEF RemoveFiles, In, Goes, Leaves, ServesKind
  <1>35. CASE CopyBack(c)
    BY <1>0, <1>35, GotoFacts, LeavesFacts DEF CopyBack, In, Goes, Leaves, ServesKind
  <1>36. CASE MoveFiles(c)
    BY <1>0, <1>36, LeavesFacts DEF MoveFiles, In, Goes, Leaves, ServesKind, Finish
  <1>37. CASE Show(c)
    BY <1>0, <1>37, GotoFacts DEF Show, In, Goes, Leaves, ServesKind
  <1>38. CASE ShowDb(c)
    BY <1>0, <1>38, LeavesFacts DEF ShowDb, In, Goes, Leaves, ServesKind, Finish
  <1>39. CASE Begin(c)
    BY <1>0, <1>39, GotoFacts DEF Begin, In, Goes, Leaves, ServesKind
  <1>40. CASE AddTransaction(c)
    BY <1>0, <1>40, LeavesFacts DEF AddTransaction, In, Goes, Leaves, ServesKind, Finish
  <1>41. CASE Refused(c)
    BY <1>0, <1>41, LeavesFacts DEF Refused, In, Goes, Leaves, ServesKind, Req, Finish
  <1>42. CASE Query(c)
    BY <1>0, <1>42, GotoFacts DEF Query, In, Goes, Leaves, ServesKind
  <1>43. CASE QueryEnds(c)
    BY <1>0, <1>43, LeavesFacts DEF QueryEnds, In, Goes, Leaves, ServesKind
  <1>44. CASE End(c)
    BY <1>0, <1>44, GotoFacts DEF End, In, Goes, Leaves, ServesKind
  <1>45. CASE Ending(c)
    BY <1>0, <1>45, LeavesFacts DEF Ending, In, Goes, Leaves, ServesKind
  <1> QED BY <1>1, <1>2, <1>3, <1>4, <1>5, <1>6, <1>7, <1>8, <1>9, <1>10, <1>11,
         <1>12, <1>13, <1>14, <1>15, <1>16, <1>17, <1>18, <1>19, <1>20, <1>21,
         <1>22, <1>23, <1>24, <1>25, <1>26, <1>27, <1>28, <1>29, <1>30, <1>31,
         <1>32, <1>33, <1>34, <1>35, <1>36, <1>37, <1>38, <1>39, <1>40, <1>41,
         <1>42, <1>43, <1>44, <1>45 DEF Serve

-----------------------------------------------------------------------------
(* What the steps do to the locks of the DBInfos and to the managers       *)

\* Replacing one element of a list.
LEMMA ReplaceOne ==
    ASSUME NEW S, NEW vl \in Seq(S), NEW n \in 1..Len(vl), NEW e \in S
    PROVE  /\ [vl EXCEPT ![n] = e] \in Seq(S)
           /\ Len([vl EXCEPT ![n] = e]) = Len(vl)
           /\ \A i \in 1..Len(vl) : [vl EXCEPT ![n] = e][i] = IF i = n THEN e ELSE vl[i]
  BY ExceptSeq

\* Taking a lock and giving it back leave a lock.
LEMMA LockOps ==
    ASSUME NEW l \in Lock, NEW c \in Clients
    PROVE  Read(l, c) \in Lock /\ Write(l, c) \in Lock /\ Unlocked(l, c) \in Lock
  BY DEF Read, Write, Unlocked, Lock

\* A lock is replaced in the list of DBInfos.
LEMMA SetLockFacts ==
    ASSUME Types, NEW i \in 1..Len(infoLock), NEW l \in Lock,
           infoLock' = [infoLock EXCEPT ![i] = l]
    PROVE  SetsLock(i, l)
  <1>1. infoLock \in Seq(Lock)
    BY DEF Types
  <1>2. QED BY <1>1, ReplaceOne DEF SetsLock

\* Unlock replaces the lock of the handler's DBInfo.
LEMMA UnlockFacts ==
    ASSUME NEW c \in Clients, Types, at[c].info \in 1..Len(infoLock), Unlock(c)
    PROVE  SetsLock(at[c].info, Unlocked(infoLock[at[c].info], c))
  <1> DEFINE i == at[c].info
             l == Unlocked(infoLock[i], c)
  <1>1. infoLock[i] \in Lock
    BY ElementOfSeq DEF Types
  <1>2. l \in Lock
    BY <1>1, LockOps
  <1>3. infoLock' = [infoLock EXCEPT ![i] = l]
    BY DEF Unlock
  <1>4. i \in 1..Len(infoLock)
    OBVIOUS
  <1> HIDE DEF l, i
  <1>5. SetsLock(i, l)
    BY <1>2, <1>3, <1>4, SetLockFacts
  <1>6. QED BY <1>5 DEF l, i

\* A DBInfo is added at the end of the list, with a free lock.
LEMMA InsertedFacts ==
    ASSUME Types, Inserted
    PROVE  /\ AddsLock
           /\ built' = (IF built = 0 THEN Len(infoLock) + 1 ELSE built)
  <1>1. Free \in Lock
    BY DEF Free, Lock
  <1>2. infoLock \in Seq(Lock) /\ infoLock' = Append(infoLock, Free)
    BY DEF Types, Inserted
  <1>3. QED BY <1>1, <1>2, AppendProperties DEF AddsLock, Inserted

\* query and monitor are added to the lock's readers.
LEMMA LockSharedFacts ==
    ASSUME NEW c \in Clients, Types, Placed(c), LockShared(c)
    PROVE  LET i == at[c].info IN
           /\ at[c].pc = "lockinfo" /\ faults = {} /\ Req(c) \in {"query", "monitor"}
           /\ i # 0 /\ i \notin freed /\ infoLock[i].wr = NoOne
           /\ SetsLock(i, Read(infoLock[i], c))
  <1> DEFINE i == at[c].info
             l == Read(infoLock[i], c)
  <1>1. /\ at[c].pc = "lockinfo" /\ faults = {} /\ Req(c) \in {"query", "monitor"}
        /\ i # 0 /\ i \notin freed /\ infoLock[i].wr = NoOne
    BY DEF LockShared, ReachesInfo, In, HasInfo, InfoOf, CanRead
  <1>2. i \in 1..Len(infoLock)
    BY <1>1, LenFacts DEF Placed
  <1>3. infoLock[i] \in Lock
    BY <1>2, ElementOfSeq DEF Types
  <1>4. l \in Lock
    BY <1>3, LockOps
  <1>5. infoLock' = [infoLock EXCEPT ![i] = l]
    BY DEF LockShared
  <1>6. SetsLock(i, l)
    <2> HIDE DEF l
    <2> QED BY <1>2, <1>4, <1>5, SetLockFacts
  <1>7. QED BY <1>1, <1>6

\* The other requests become the lock's writer.
LEMMA LockExclusiveFacts ==
    ASSUME NEW c \in Clients, Types, Placed(c), LockExclusive(c)
    PROVE  LET i == InfoOf(c) IN
           /\ i \notin freed /\ infoLock[i] = Free
           /\ SetsLock(i, Write(infoLock[i], c))
  <1> DEFINE i == InfoOf(c)
             l == Write(infoLock[i], c)
  <1>1. i # 0 /\ i \notin freed /\ infoLock[i] = Free
    BY DEF LockExclusive, HasInfo, CanWrite
  <1>2. i \in 1..Len(infoLock)
    BY <1>1, LenFacts DEF Placed, InfoOf, Types
  <1>3. infoLock[i] \in Lock
    BY <1>2, ElementOfSeq DEF Types
  <1>4. l \in Lock
    BY <1>3, LockOps
  <1>5. infoLock' = [infoLock EXCEPT ![i] = l]
    BY DEF LockExclusive
  <1>6. SetsLock(i, l)
    <2> HIDE DEF l
    <2> QED BY <1>2, <1>4, <1>5, SetLockFacts
  <1>7. QED BY <1>1, <1>6

\* A manager with its fields changed is a manager.
LEMMA ManagerFacts ==
    ASSUME Types, NEW m \in 1..Len(mgr)
    PROVE  /\ mgr[m] \in Manager /\ mgr[m].running \subseteq Nat
           /\ IsFiniteSet(mgr[m].running) /\ Cardinality(mgr[m].running) \in Nat
           /\ mgr[m].readers \in Int /\ mgr[m].begun \in Nat /\ mgr[m].lost \in Nat
           /\ mgr[m].ckpt \in Clients \cup {NoOne}
  <1>1. mgr[m] \in Manager
    BY ElementOfSeq DEF Types
  <1>2. mgr[m].running \subseteq Nat /\ IsFiniteSet(mgr[m].running)
    BY <1>1 DEF Manager
  <1>3. QED BY <1>1, <1>2, FS_CardinalityType DEF Manager

\* A manager is replaced in the list of managers.
LEMMA SetManagerFacts ==
    ASSUME Types, NEW m \in 1..Len(mgr), NEW e \in Manager, mgr' = [mgr EXCEPT ![m] = e]
    PROVE  SetsManager(m, e.ckpt, e.readers, e.begun, e.running)
  <1>1. mgr \in Seq(Manager)
    BY DEF Types
  <1>2. QED BY <1>1, ReplaceOne DEF SetsManager

\* abort_all_running leaves a manager without running transactions.
LEMMA AbortAllFacts ==
    ASSUME NEW c \in Clients, Types, at[c].man \in 1..Len(mgr), AbortAll(c)
    PROVE  LET m == at[c].man IN
           SetsManager(m, mgr[m].ckpt, mgr[m].readers - Cardinality(mgr[m].running),
                       mgr[m].begun, {})
  <1> DEFINE m == at[c].man
             r == mgr[m].readers - Cardinality(mgr[m].running)
             e == [mgr[m] EXCEPT !.readers = r, !.running = {}]
  <1>1. r \in Int /\ mgr[m] \in Manager
    <2>1. /\ mgr[m] \in Manager /\ mgr[m].readers \in Int
          /\ Cardinality(mgr[m].running) \in Nat
      BY ManagerFacts
    <2> HIDE DEF m
    <2>2. QED BY <2>1
  <1>2. {} \in SUBSET Nat /\ IsFiniteSet({})
    BY FS_EmptySet
  <1>3. e \in Manager /\ e.ckpt = mgr[m].ckpt /\ e.readers = r
        /\ e.begun = mgr[m].begun /\ e.running = {}
    <2> HIDE DEF m, r
    <2> QED BY <1>1, <1>2 DEF Manager
  <1>4. mgr' = [mgr EXCEPT ![m] = e]
    <2>1. mgr' = [mgr EXCEPT ![m].readers = r, ![m].running = {}]
      BY DEF AbortAll, AbortedAll
    <2>2. mgr \in Seq(Manager)
      BY DEF Types
    <2>3. m \in 1..Len(mgr)
      OBVIOUS
    <2> HIDE DEF m, r
    <2> QED BY <2>1, <2>2, <2>3
  <1>5. SetsManager(m, e.ckpt, e.readers, e.begun, e.running)
    <2> HIDE DEF e
    <2> QED BY <1>3, <1>4, SetManagerFacts
  <1>6. QED BY <1>3, <1>5

\* A checkpoint becomes the writer of checkpoint_lock.
LEMMA WaitCheckpointFacts ==
    ASSUME NEW c \in Clients, Types, at[c].man \in 1..Len(mgr), WaitCheckpoint(c)
    PROVE  LET m == at[c].man IN
           SetsManager(m, c, mgr[m].readers, mgr[m].begun,
                       mgr[m].running)
  <1> DEFINE m == at[c].man
             e == [mgr[m] EXCEPT !.ckpt = c]
  <1>1. mgr[m] \in Manager /\ m \in 1..Len(mgr)
    BY ManagerFacts
  <1>2. c \in Clients \cup {NoOne}
    BY <1>1, ManagerFacts
  <1>3. e \in Manager /\ e.ckpt = c /\ e.readers = mgr[m].readers
        /\ e.begun = mgr[m].begun /\ e.running = mgr[m].running
    <2> HIDE DEF m
    <2> QED BY <1>1, <1>2 DEF Manager
  <1>4. mgr' = [mgr EXCEPT ![m] = e]
    <2>1. mgr' = [mgr EXCEPT ![m].ckpt = c]
      BY DEF WaitCheckpoint
    <2>2. mgr \in Seq(Manager)
      BY DEF Types
    <2> HIDE DEF m
    <2> QED BY <1>1, <2>1, <2>2
  <1>5. SetsManager(m, e.ckpt, e.readers, e.begun, e.running)
    <2> HIDE DEF e, m
    <2> QED BY <1>1, <1>3, <1>4, SetManagerFacts
  <1>6. QED BY <1>3, <1>5

\* After the merge checkpoint_lock has no writer.
LEMMA MergeFacts ==
    ASSUME NEW c \in Clients, Types, at[c].man \in 1..Len(mgr), Merge(c)
    PROVE  LET m == at[c].man IN
           SetsManager(m, NoOne, mgr[m].readers, mgr[m].begun,
                       mgr[m].running)
  <1> DEFINE m == at[c].man
             e == [mgr[m] EXCEPT !.ckpt = NoOne]
  <1>1. mgr[m] \in Manager /\ m \in 1..Len(mgr)
    BY ManagerFacts
  <1>2. NoOne \in Clients \cup {NoOne}
    BY <1>1, ManagerFacts
  <1>3. e \in Manager /\ e.ckpt = NoOne /\ e.readers = mgr[m].readers
        /\ e.begun = mgr[m].begun /\ e.running = mgr[m].running
    <2> HIDE DEF m
    <2> QED BY <1>1, <1>2 DEF Manager
  <1>4. mgr' = [mgr EXCEPT ![m] = e]
    <2>1. mgr' = [mgr EXCEPT ![m].ckpt = NoOne]
      BY DEF Merge
    <2>2. mgr \in Seq(Manager)
      BY DEF Types
    <2> HIDE DEF m
    <2> QED BY <1>1, <2>1, <2>2
  <1>5. SetsManager(m, e.ckpt, e.readers, e.begun, e.running)
    <2> HIDE DEF e, m
    <2> QED BY <1>1, <1>3, <1>4, SetManagerFacts
  <1>6. QED BY <1>3, <1>5

\* Begin adds a reader of checkpoint_lock.
LEMMA BeginFacts ==
    ASSUME NEW c \in Clients, Types, at[c].man \in 1..Len(mgr), Begin(c)
    PROVE  LET m == at[c].man IN
           SetsManager(m, mgr[m].ckpt, mgr[m].readers + 1, mgr[m].begun,
                       mgr[m].running)
  <1> DEFINE m == at[c].man
             e == [mgr[m] EXCEPT !.readers = @ + 1]
  <1>1. mgr[m] \in Manager /\ m \in 1..Len(mgr)
    BY ManagerFacts
  <1>2. mgr[m].readers + 1 \in Int
    BY <1>1, ManagerFacts
  <1>3. e \in Manager /\ e.ckpt = mgr[m].ckpt /\ e.readers = mgr[m].readers + 1
        /\ e.begun = mgr[m].begun /\ e.running = mgr[m].running
    <2> HIDE DEF m
    <2> QED BY <1>1, <1>2 DEF Manager
  <1>4. mgr' = [mgr EXCEPT ![m] = e]
    <2>1. mgr' = [mgr EXCEPT ![m].readers = @ + 1]
      BY DEF Begin
    <2>2. mgr \in Seq(Manager)
      BY DEF Types
    <2> HIDE DEF m
    <2> QED BY <1>1, <2>1, <2>2
  <1>5. SetsManager(m, e.ckpt, e.readers, e.begun, e.running)
    <2> HIDE DEF e, m
    <2> QED BY <1>1, <1>3, <1>4, SetManagerFacts
  <1>6. QED BY <1>3, <1>5

\* add_transaction adds the next TID to those that run.
LEMMA AddTransactionFacts ==
    ASSUME NEW c \in Clients, Types, at[c].man \in 1..Len(mgr), AddTransaction(c)
    PROVE  LET m == at[c].man IN
           SetsManager(m, mgr[m].ckpt, mgr[m].readers, mgr[m].begun + 1,
                       mgr[m].running \cup {mgr[m].begun + 1})
  <1> DEFINE m == at[c].man
             e == [mgr[m] EXCEPT !.begun = @ + 1,
                                 !.running = @ \cup {mgr[m].begun + 1}]
  <1>1. mgr[m] \in Manager /\ m \in 1..Len(mgr)
    BY ManagerFacts
  <1>2. /\ mgr[m].begun + 1 \in Nat
        /\ mgr[m].running \cup {mgr[m].begun + 1} \in SUBSET Nat
        /\ IsFiniteSet(mgr[m].running \cup {mgr[m].begun + 1})
    <2>1. /\ mgr[m].running \in SUBSET Nat /\ IsFiniteSet(mgr[m].running)
          /\ mgr[m].begun \in Nat /\ mgr[m].readers \in Int
      BY <1>1, ManagerFacts
    <2>2. IsFiniteSet(mgr[m].running \cup {mgr[m].begun + 1})
      BY <2>1, FS_AddElement
    <2>3. QED
      <3> HIDE DEF m
      <3> QED BY <2>1, <2>2
  <1>3. e \in Manager /\ e.ckpt = mgr[m].ckpt /\ e.readers = mgr[m].readers
        /\ e.begun = mgr[m].begun + 1 /\ e.running = mgr[m].running \cup {mgr[m].begun + 1}
    <2> HIDE DEF m
    <2> QED BY <1>1, <1>2 DEF Manager
  <1>4. mgr' = [mgr EXCEPT ![m] = e]
    <2>1. mgr' = [mgr EXCEPT ![m].begun = @ + 1,
                             ![m].running = @ \cup {mgr[m].begun + 1}]
      BY DEF AddTransaction
    <2>2. mgr \in Seq(Manager)
      BY DEF Types
    <2> HIDE DEF m
    <2> QED BY <1>1, <2>1, <2>2
  <1>5. SetsManager(m, e.ckpt, e.readers, e.begun, e.running)
    <2> HIDE DEF e, m
    <2> QED BY <1>1, <1>3, <1>4, SetManagerFacts
  <1>6. QED BY <1>3, <1>5

\* The end of a transaction takes its TID out and gives checkpoint_lock back.
LEMMA EndedFacts ==
    ASSUME NEW c \in Clients, Types, at[c].man \in 1..Len(mgr), NEW t, mgr' = Ended(at[c].man, t)
    PROVE  LET m == at[c].man IN
           SetsManager(m, mgr[m].ckpt, mgr[m].readers - 1, mgr[m].begun,
                       mgr[m].running \ {t})
  <1> DEFINE m == at[c].man
             e == [mgr[m] EXCEPT !.running = @ \ {t}, !.readers = @ - 1]
  <1>1. mgr[m] \in Manager /\ m \in 1..Len(mgr)
    BY ManagerFacts
  <1>2. /\ mgr[m].readers - 1 \in Int /\ mgr[m].running \ {t} \in SUBSET Nat
        /\ IsFiniteSet(mgr[m].running \ {t})
    <2>1. /\ mgr[m].running \in SUBSET Nat /\ IsFiniteSet(mgr[m].running)
          /\ mgr[m].begun \in Nat /\ mgr[m].readers \in Int
      BY <1>1, ManagerFacts
    <2>2. IsFiniteSet(mgr[m].running \ {t})
      BY <2>1, FS_RemoveElement
    <2>3. QED
      <3> HIDE DEF m
      <3> QED BY <2>1, <2>2
  <1>3. e \in Manager /\ e.ckpt = mgr[m].ckpt /\ e.readers = mgr[m].readers - 1
        /\ e.begun = mgr[m].begun /\ e.running = mgr[m].running \ {t}
    <2> HIDE DEF m
    <2> QED BY <1>1, <1>2 DEF Manager
  <1>4. mgr' = [mgr EXCEPT ![m] = e]
    <2>1. mgr' = [mgr EXCEPT ![m].running = @ \ {t}, ![m].readers = @ - 1]
      BY DEF Ended
    <2>2. mgr \in Seq(Manager)
      BY DEF Types
    <2> HIDE DEF m
    <2> QED BY <1>1, <2>1, <2>2
  <1>5. SetsManager(m, e.ckpt, e.readers, e.begun, e.running)
    <2> HIDE DEF e, m
    <2> QED BY <1>1, <1>3, <1>4, SetManagerFacts
  <1>6. QED BY <1>3, <1>5

\* A call about a transaction that does not run changes no running one.
LEMMA RefusedFacts ==
    ASSUME NEW c \in Clients, Types, at[c].man \in 1..Len(mgr), Refused(c)
    PROVE  LET m == at[c].man IN
           SetsManager(m, mgr[m].ckpt, mgr[m].readers - (IF Req(c) = "commit" THEN 1 ELSE 0), mgr[m].begun,
                       mgr[m].running)
  <1> DEFINE m == at[c].man
             e == [mgr[m] EXCEPT !.lost = @ + (IF Known(c) THEN 0 ELSE 1),
                                 !.readers = @ - (IF Req(c) = "commit" THEN 1 ELSE 0)]
  <1>1. mgr[m] \in Manager /\ m \in 1..Len(mgr)
    BY ManagerFacts
  <1>2. /\ mgr[m].lost + (IF Known(c) THEN 0 ELSE 1) \in Nat
        /\ mgr[m].readers - (IF Req(c) = "commit" THEN 1 ELSE 0) \in Int
    <2>1. mgr[m].lost \in Nat /\ mgr[m].readers \in Int
      BY <1>1 DEF Manager
    <2>2. (IF Known(c) THEN 0 ELSE 1) \in {0, 1} /\ (IF Req(c) = "commit" THEN 1 ELSE 0) \in {0, 1}
      OBVIOUS
    <2> HIDE DEF m
    <2>3. QED BY <2>1, <2>2
  <1>3. e \in Manager /\ e.ckpt = mgr[m].ckpt /\ e.readers = mgr[m].readers - (IF Req(c) = "commit" THEN 1 ELSE 0)
        /\ e.begun = mgr[m].begun /\ e.running = mgr[m].running
    <2> HIDE DEF m
    <2> QED BY <1>1, <1>2 DEF Manager
  <1>4. mgr' = [mgr EXCEPT ![m] = e]
    <2>1. mgr' = [mgr EXCEPT ![m].lost = @ + (IF Known(c) THEN 0 ELSE 1),
                             ![m].readers = @ - (IF Req(c) = "commit" THEN 1 ELSE 0)]
      BY DEF Refused
    <2>2. mgr \in Seq(Manager)
      BY DEF Types
    <2> HIDE DEF m
    <2> QED BY <1>1, <2>1, <2>2
  <1>5. SetsManager(m, e.ckpt, e.readers, e.begun, e.running)
    <2> HIDE DEF e, m
    <2> QED BY <1>1, <1>3, <1>4, SetManagerFacts
  <1>6. QED BY <1>3, <1>5

\* A new manager is a manager.
LEMMA NewManagerFacts == NewManager \in Manager
  <1>1. {} \in SUBSET Nat /\ IsFiniteSet({})
    BY FS_EmptySet
  <1>2. QED BY <1>1 DEF NewManager, Manager

\* load adds a manager at the end of the list.
LEMMA LoadingFacts ==
    ASSUME NEW c \in Clients, Types, Loading(c)
    PROVE  AddsManager
  <1>1. mgr \in Seq(Manager) /\ mgr' = Append(mgr, NewManager)
    BY DEF Types, Loading
  <1>2. QED BY <1>1, NewManagerFacts, AppendProperties DEF AddsManager

\* The last pointer to a manager goes, and the manager with it.
LEMMA DeleteFacts ==
    ASSUME NEW c \in Clients, Types, at[c].man \in 0..Len(mgr), Delete(c)
    PROVE  LET m == at[c].man IN
           IF LastOf(c) THEN SetsManager(m, NoOne, 0, 0, {}) ELSE mgr' = mgr
  <1>1. CASE ~LastOf(c)
    BY <1>1 DEF Delete
  <1>2. CASE LastOf(c)
    <2> DEFINE m == at[c].man
    <2>1. m \in 1..Len(mgr)
      BY <1>2, LenFacts DEF LastOf
    <2>2. mgr' = [mgr EXCEPT ![m] = NewManager]
      BY <1>2 DEF Delete
    <2>3. SetsManager(m, NewManager.ckpt, NewManager.readers, NewManager.begun, NewManager.running)
      <3> HIDE DEF m
      <3> QED BY <2>1, <2>2, NewManagerFacts, SetManagerFacts
    <2>4. QED BY <1>2, <2>3 DEF NewManager
  <1>3. QED BY <1>1, <1>2
-----------------------------------------------------------------------------
(* Types, and the pointers that handlers have                              *)

\* A handler that holds the lock of its DBInfo has one.
LEMMA HasLock ==
    ASSUME NEW c \in Clients, Types, Placed(c), HoldsAlone(c) \/ HoldsShared(c)
    PROVE  at[c].info \in 1..Len(infoLock)
  BY LenFacts DEF Placed

\* The steps at which the lock of the DBInfo is given back hold it.
LEMMA HoldsAt ==
    ASSUME NEW c \in Clients, Types, Placed(c),
           at[c].pc \in {"used", "unlockinfo", "trymap", "unmap", "findman", "dropbuilt",
                        "dropinfo", "copyback"}
    PROVE  HoldsAlone(c) \/ HoldsShared(c)
  BY DEF Placed, ServesKind, HoldsAlone, HoldsShared

\* The steps that work on a manager have one.
LEMMA HasManager ==
    ASSUME NEW c \in Clients, Types, Placed(c),
           at[c].pc \in {"begin", "addtxn", "tquery", "tqueried", "end", "ending",
                        "abortall", "waitckpt", "merge"}
    PROVE  at[c].man \in 1..Len(mgr)
  BY LenFacts DEF Placed

\* Which steps change the lock of a DBInfo, or the list of them.
LEMMA InfoLockStep ==
    ASSUME NEW c \in Clients, Serve(c)
    PROVE  \/ infoLock' = infoLock /\ (built' = built \/ built' = 0)
           \/ /\ Unlock(c) /\ (built' = built \/ built' = 0)
              /\ at[c].pc \in {"used", "unlockinfo", "trymap", "unmap", "findman",
                              "dropbuilt", "dropinfo", "copyback"}
           \/ LockShared(c) /\ built' = built
           \/ LockExclusive(c) /\ built' = built
           \/ Inserted /\ at[c].pc \in {"addinfo", "findinfo"}
  <1>1. CASE CheckExist(c) \/ CheckLoad(c) \/ GetDb(c) \/ GetInfo(c)
             \/ GetMan(c) \/ LockFails(c) \/ Use(c) \/ Loading(c)
             \/ AddManager(c) \/ AddDb(c) \/ EraseMan(c) \/ AbortAll(c)
             \/ Delete(c) \/ WaitCheckpoint(c) \/ Merge(c) \/ Save(c)
             \/ Saved(c) \/ DropMap(c)
    BY <1>1 DEF CheckExist, CheckLoad, GetDb, GetInfo, GetMan, LockFails, Use, Loading,
       AddManager, AddDb, EraseMan, AbortAll, Delete, WaitCheckpoint, Merge, Save,
       Saved, DropMap, infos
  <1>2. CASE Remove(c) \/ Build(c) \/ BuildEnds(c) \/ Copy(c)
             \/ RemoveFiles(c) \/ MoveFiles(c) \/ Show(c) \/ ShowDb(c)
             \/ Begin(c) \/ AddTransaction(c) \/ Refused(c) \/ Query(c)
             \/ QueryEnds(c) \/ End(c) \/ Ending(c)
    BY <1>2 DEF Remove, Build, BuildEnds, Copy, RemoveFiles, MoveFiles, Show, ShowDb, Begin,
       AddTransaction, Refused, Query, QueryEnds, End, Ending, infos
  <1>3. CASE Used(c) \/ UnlockInfo(c) \/ TryMap(c) \/ Unmap(c) \/ FindMan(c)
             \/ DropBuilt(c) \/ DropInfo(c) \/ CopyBack(c)
    BY <1>3 DEF Used, UnlockInfo, TryMap, Unmap, FindMan, DropBuilt, DropInfo, CopyBack, In,
       infos
  <1>4. CASE AddInfo(c) \/ FindInfo(c)
    BY <1>4 DEF AddInfo, FindInfo, In
  <1>5. CASE LockShared(c) \/ LockExclusive(c)
    BY <1>5 DEF LockShared, LockExclusive
  <1> QED BY <1>1, <1>2, <1>3, <1>4, <1>5 DEF Serve

\* Which steps change a manager, or the list of them.
LEMMA ManagerStep ==
    ASSUME NEW c \in Clients, Serve(c)
    PROVE  \/ mgr' = mgr
           \/ AbortAll(c) \/ WaitCheckpoint(c) \/ Merge(c) \/ Delete(c) \/ Loading(c)
           \/ Begin(c) \/ AddTransaction(c) \/ Refused(c)
           \/ (QueryEnds(c) \/ Ending(c)) /\ mgr' = Ended(at[c].man, tid[c])
  <1>1. CASE CheckExist(c) \/ CheckLoad(c) \/ GetDb(c) \/ GetInfo(c)
             \/ GetMan(c) \/ LockShared(c) \/ LockExclusive(c) \/ LockFails(c)
             \/ Use(c) \/ Used(c) \/ UnlockInfo(c) \/ TryMap(c)
             \/ AddManager(c) \/ AddDb(c) \/ Unmap(c) \/ FindMan(c)
             \/ EraseMan(c) \/ Save(c)
    BY <1>1 DEF CheckExist, CheckLoad, GetDb, GetInfo, GetMan, LockShared, LockExclusive,
       LockFails, Use, Used, UnlockInfo, TryMap, AddManager, AddDb, Unmap, FindMan,
       EraseMan, Save, mans
  <1>2. CASE Saved(c) \/ DropMap(c) \/ DropBuilt(c) \/ DropInfo(c)
             \/ Remove(c) \/ Build(c) \/ BuildEnds(c) \/ AddInfo(c) \/ Copy(c)
             \/ FindInfo(c) \/ RemoveFiles(c) \/ CopyBack(c) \/ MoveFiles(c)
             \/ Show(c) \/ ShowDb(c) \/ Query(c) \/ End(c)
    BY <1>2 DEF Saved, DropMap, DropBuilt, DropInfo, Remove, Build, BuildEnds, AddInfo, Copy,
       FindInfo, RemoveFiles, CopyBack, MoveFiles, Show, ShowDb, Query, End, mans
  <1>3. CASE QueryEnds(c) \/ Ending(c)
    BY <1>3 DEF QueryEnds, Ending
  <1> QED BY <1>1, <1>2, <1>3 DEF Serve

\* The two lists stay lists of locks and of managers, and never shrink.
LEMMA ListsStep ==
    ASSUME NEW c \in Clients, Types, Placed(c), Serve(c)
    PROVE  /\ infoLock' \in Seq(Lock) /\ Len(infoLock') >= Len(infoLock)
           /\ Len(infoLock') \in Nat /\ built' \in 0..Len(infoLock')
           /\ mgr' \in Seq(Manager) /\ Len(mgr') >= Len(mgr) /\ Len(mgr') \in Nat
  <1>1. /\ Len(infoLock) \in Nat /\ Len(mgr) \in Nat
        /\ infoLock \in Seq(Lock) /\ mgr \in Seq(Manager)
        /\ built \in 0..Len(infoLock) /\ at[c].man \in 0..Len(mgr)
    BY LenFacts DEF Types, Placed
  <1>2. /\ infoLock' \in Seq(Lock) /\ Len(infoLock') >= Len(infoLock)
        /\ Len(infoLock') \in Nat /\ built' \in 0..Len(infoLock')
    <2>1. CASE infoLock' = infoLock /\ (built' = built \/ built' = 0)
      BY <1>1, <2>1
    <2>2. CASE /\ Unlock(c) /\ (built' = built \/ built' = 0)
               /\ at[c].pc \in {"used", "unlockinfo", "trymap", "unmap", "findman",
                               "dropbuilt", "dropinfo", "copyback"}
      <3>1. SetsLock(at[c].info, Unlocked(infoLock[at[c].info], c))
        BY <2>2, HoldsAt, HasLock, UnlockFacts
      <3>2. QED BY <1>1, <2>2, <3>1 DEF SetsLock
    <2>3. CASE LockShared(c) /\ built' = built
      <3>1. SetsLock(at[c].info, Read(infoLock[at[c].info], c))
        BY <2>3, LockSharedFacts
      <3>2. QED BY <1>1, <2>3, <3>1 DEF SetsLock
    <2>4. CASE LockExclusive(c) /\ built' = built
      <3>1. SetsLock(InfoOf(c), Write(infoLock[InfoOf(c)], c))
        BY <2>4, LockExclusiveFacts
      <3>2. QED BY <1>1, <2>4, <3>1 DEF SetsLock
    <2>5. CASE Inserted /\ at[c].pc \in {"addinfo", "findinfo"}
      BY <1>1, <2>5, InsertedFacts DEF AddsLock
    <2>6. QED BY <2>1, <2>2, <2>3, <2>4, <2>5, InfoLockStep
  <1>3. mgr' \in Seq(Manager) /\ Len(mgr') >= Len(mgr) /\ Len(mgr') \in Nat
    <2> DEFINE m == at[c].man
    <2>1. CASE mgr' = mgr
      BY <1>1, <2>1
    <2>2. CASE AbortAll(c)
      <3>1. m \in 1..Len(mgr)
        BY <2>2, HasManager DEF AbortAll, In
      <3>2. QED BY <1>1, <2>2, <3>1, AbortAllFacts DEF SetsManager
    <2>3. CASE WaitCheckpoint(c)
      <3>1. m \in 1..Len(mgr)
        BY <2>3, HasManager DEF WaitCheckpoint, In
      <3>2. QED BY <1>1, <2>3, <3>1, WaitCheckpointFacts DEF SetsManager
    <2>4. CASE Merge(c)
      <3>1. m \in 1..Len(mgr)
        BY <2>4, HasManager DEF Merge, In
      <3>2. QED BY <1>1, <2>4, <3>1, MergeFacts DEF SetsManager
    <2>5. CASE Begin(c)
      <3>1. m \in 1..Len(mgr)
        BY <2>5, HasManager DEF Begin, In
      <3>2. QED BY <1>1, <2>5, <3>1, BeginFacts DEF SetsManager
    <2>6. CASE AddTransaction(c)
      <3>1. m \in 1..Len(mgr)
        BY <2>6, HasManager DEF AddTransaction, In
      <3>2. QED BY <1>1, <2>6, <3>1, AddTransactionFacts DEF SetsManager
    <2>7. CASE Refused(c)
      <3>1. m \in 1..Len(mgr)
        BY <2>7, HasManager DEF Refused, In
      <3>2. QED BY <1>1, <2>7, <3>1, RefusedFacts DEF SetsManager
    <2>8. CASE (QueryEnds(c) \/ Ending(c)) /\ mgr' = Ended(at[c].man, tid[c])
      <3>1. m \in 1..Len(mgr)
        BY <2>8, HasManager DEF QueryEnds, Ending, In
      <3>2. SetsManager(m, mgr[m].ckpt, mgr[m].readers - 1, mgr[m].begun,
                           mgr[m].running \ {tid[c]})
        BY <2>8, <3>1, EndedFacts
      <3>3. QED BY <1>1, <3>2 DEF SetsManager
    <2>9. CASE Delete(c)
      BY <1>1, <2>9, DeleteFacts DEF SetsManager
    <2>10. CASE Loading(c)
      BY <1>1, <2>10, LoadingFacts DEF AddsManager
    <2>11. QED BY <2>1, <2>2, <2>3, <2>4, <2>5, <2>6, <2>7, <2>8, <2>9, <2>10, ManagerStep
  <1>4. QED BY <1>2, <1>3

\* Which steps change the entry of already_build.
LEMMA BuiltStep ==
    ASSUME NEW c \in Clients, Serve(c)
    PROVE  \/ built' = built
           \/ (DropBuilt(c) \/ DropInfo(c)) /\ built' = 0
           \/ (AddInfo(c) \/ FindInfo(c)) /\ Inserted
  <1>1. CASE CheckExist(c) \/ CheckLoad(c) \/ GetDb(c) \/ GetInfo(c)
             \/ GetMan(c) \/ LockShared(c) \/ LockExclusive(c) \/ LockFails(c)
             \/ Use(c) \/ Used(c) \/ UnlockInfo(c) \/ TryMap(c) \/ Loading(c)
             \/ AddManager(c) \/ AddDb(c) \/ Unmap(c) \/ FindMan(c)
             \/ EraseMan(c) \/ AbortAll(c) \/ Delete(c)
    BY <1>1 DEF CheckExist, CheckLoad, GetDb, GetInfo, GetMan, LockShared, LockExclusive,
       LockFails, Use, Used, UnlockInfo, TryMap, Loading, AddManager, AddDb, Unmap,
       FindMan, EraseMan, AbortAll, Delete, infos
  <1>2. CASE WaitCheckpoint(c) \/ Merge(c) \/ Save(c) \/ Saved(c)
             \/ DropMap(c) \/ Remove(c) \/ Build(c) \/ BuildEnds(c) \/ Copy(c)
             \/ RemoveFiles(c) \/ CopyBack(c) \/ MoveFiles(c) \/ Show(c)
             \/ ShowDb(c) \/ Begin(c) \/ AddTransaction(c) \/ Refused(c)
             \/ Query(c) \/ QueryEnds(c) \/ End(c) \/ Ending(c)
    BY <1>2 DEF WaitCheckpoint, Merge, Save, Saved, DropMap, Remove, Build, BuildEnds, Copy,
       RemoveFiles, CopyBack, MoveFiles, Show, ShowDb, Begin, AddTransaction, Refused,
       Query, QueryEnds, End, Ending, infos
  <1>3. CASE DropBuilt(c) \/ DropInfo(c) \/ AddInfo(c) \/ FindInfo(c)
    BY <1>3 DEF DropBuilt, DropInfo, AddInfo, FindInfo
  <1> QED BY <1>1, <1>2, <1>3 DEF Serve

\* Which step deletes a DBInfo.
LEMMA FreedStep ==
    ASSUME NEW c \in Clients, Serve(c)
    PROVE  freed' = freed \/ DropInfo(c)
  <1>1. CASE CheckExist(c) \/ CheckLoad(c) \/ GetDb(c) \/ GetInfo(c)
             \/ GetMan(c) \/ LockShared(c) \/ LockExclusive(c) \/ LockFails(c)
             \/ Use(c) \/ Used(c) \/ UnlockInfo(c) \/ TryMap(c) \/ Loading(c)
             \/ AddManager(c) \/ AddDb(c) \/ Unmap(c) \/ FindMan(c)
             \/ EraseMan(c) \/ AbortAll(c) \/ Delete(c) \/ WaitCheckpoint(c)
             \/ Merge(c)
    BY <1>1 DEF CheckExist, CheckLoad, GetDb, GetInfo, GetMan, LockShared, LockExclusive,
       LockFails, Use, Used, UnlockInfo, TryMap, Loading, AddManager, AddDb, Unmap,
       FindMan, EraseMan, AbortAll, Delete, WaitCheckpoint, Merge, infos
  <1>2. CASE Save(c) \/ Saved(c) \/ DropMap(c) \/ DropBuilt(c) \/ Remove(c)
             \/ Build(c) \/ BuildEnds(c) \/ AddInfo(c) \/ Copy(c)
             \/ FindInfo(c) \/ RemoveFiles(c) \/ CopyBack(c) \/ MoveFiles(c)
             \/ Show(c) \/ ShowDb(c) \/ Begin(c) \/ AddTransaction(c)
             \/ Refused(c) \/ Query(c) \/ QueryEnds(c) \/ End(c) \/ Ending(c)
    BY <1>2 DEF Save, Saved, DropMap, DropBuilt, Remove, Build, BuildEnds, AddInfo, Copy,
       FindInfo, RemoveFiles, CopyBack, MoveFiles, Show, ShowDb, Begin, AddTransaction,
       Refused, Query, QueryEnds, End, Ending, infos
  <1>3. CASE DropInfo(c)
    BY <1>3 DEF DropInfo
  <1> QED BY <1>1, <1>2, <1>3 DEF Serve

\* Which steps change the entry of databases.
LEMMA LoadedStep ==
    ASSUME NEW c \in Clients, Serve(c)
    PROVE  \/ loaded' = loaded /\ deleted' = deleted
           \/ AddDb(c) \/ Delete(c) \/ (DropMap(c) /\ loaded # 0)
  <1>1. CASE CheckExist(c) \/ CheckLoad(c) \/ GetDb(c) \/ GetInfo(c)
             \/ GetMan(c) \/ LockShared(c) \/ LockExclusive(c) \/ LockFails(c)
             \/ Use(c) \/ Used(c) \/ UnlockInfo(c) \/ TryMap(c) \/ Loading(c)
             \/ AddManager(c) \/ Unmap(c) \/ FindMan(c) \/ EraseMan(c)
             \/ AbortAll(c) \/ WaitCheckpoint(c) \/ Merge(c) \/ Save(c)
    BY <1>1 DEF CheckExist, CheckLoad, GetDb, GetInfo, GetMan, LockShared, LockExclusive,
       LockFails, Use, Used, UnlockInfo, TryMap, Loading, AddManager, Unmap, FindMan,
       EraseMan, AbortAll, WaitCheckpoint, Merge, Save, dbs
  <1>2. CASE Saved(c) \/ DropBuilt(c) \/ DropInfo(c) \/ Remove(c) \/ Build(c)
             \/ BuildEnds(c) \/ AddInfo(c) \/ Copy(c) \/ FindInfo(c)
             \/ RemoveFiles(c) \/ CopyBack(c) \/ MoveFiles(c) \/ Show(c)
             \/ ShowDb(c) \/ Begin(c) \/ AddTransaction(c) \/ Refused(c)
             \/ Query(c) \/ QueryEnds(c) \/ End(c) \/ Ending(c)
    BY <1>2 DEF Saved, DropBuilt, DropInfo, Remove, Build, BuildEnds, AddInfo, Copy, FindInfo,
       RemoveFiles, CopyBack, MoveFiles, Show, ShowDb, Begin, AddTransaction, Refused,
       Query, QueryEnds, End, Ending, dbs
  <1>3. CASE AddDb(c) \/ Delete(c) \/ DropMap(c)
    BY <1>3 DEF AddDb, Delete, DropMap, dbs
  <1> QED BY <1>1, <1>2, <1>3 DEF Serve

\* Which steps change the entry of txn_managers.
LEMMA ManagersStep ==
    ASSUME NEW c \in Clients, Serve(c)
    PROVE  managers' = managers \/ AddManager(c) \/ EraseMan(c)
  <1>1. CASE CheckExist(c) \/ CheckLoad(c) \/ GetDb(c) \/ GetInfo(c)
             \/ GetMan(c) \/ LockShared(c) \/ LockExclusive(c) \/ LockFails(c)
             \/ Use(c) \/ Used(c) \/ UnlockInfo(c) \/ TryMap(c) \/ Loading(c)
             \/ AddDb(c) \/ Unmap(c) \/ FindMan(c) \/ AbortAll(c) \/ Delete(c)
             \/ WaitCheckpoint(c) \/ Merge(c) \/ Save(c)
    BY <1>1 DEF CheckExist, CheckLoad, GetDb, GetInfo, GetMan, LockShared, LockExclusive,
       LockFails, Use, Used, UnlockInfo, TryMap, Loading, AddDb, Unmap, FindMan,
       AbortAll, Delete, WaitCheckpoint, Merge, Save, mans
  <1>2. CASE Saved(c) \/ DropMap(c) \/ DropBuilt(c) \/ DropInfo(c)
             \/ Remove(c) \/ Build(c) \/ BuildEnds(c) \/ AddInfo(c) \/ Copy(c)
             \/ FindInfo(c) \/ RemoveFiles(c) \/ CopyBack(c) \/ MoveFiles(c)
             \/ Show(c) \/ ShowDb(c) \/ Begin(c) \/ AddTransaction(c)
             \/ Refused(c) \/ Query(c) \/ QueryEnds(c) \/ End(c) \/ Ending(c)
    BY <1>2 DEF Saved, DropMap, DropBuilt, DropInfo, Remove, Build, BuildEnds, AddInfo, Copy,
       FindInfo, RemoveFiles, CopyBack, MoveFiles, Show, ShowDb, Begin, AddTransaction,
       Refused, Query, QueryEnds, End, Ending, mans
  <1>3. CASE AddManager(c) \/ EraseMan(c)
    BY <1>3 DEF AddManager, EraseMan
  <1> QED BY <1>1, <1>2, <1>3 DEF Serve

\* Which steps take and release databases_map_lock.
LEMMA MapLockStep ==
    ASSUME NEW c \in Clients, Serve(c)
    PROVE  \/ dmLock' = dmLock
           \/ /\ TryMap(c) \/ Unmap(c) \/ (DropMap(c) /\ loaded # 0)
              /\ dmLock = Free /\ dmLock' = Write(dmLock, c)
           \/ (AddDb(c) \/ Delete(c) \/ DropBuilt(c)) /\ dmLock' = Unlocked(dmLock, c)
  <1>1. CASE CheckExist(c) \/ CheckLoad(c) \/ GetDb(c) \/ GetInfo(c)
             \/ GetMan(c) \/ LockShared(c) \/ LockExclusive(c) \/ LockFails(c)
             \/ Use(c) \/ Used(c) \/ UnlockInfo(c) \/ Loading(c)
             \/ AddManager(c) \/ FindMan(c) \/ EraseMan(c) \/ AbortAll(c)
             \/ WaitCheckpoint(c) \/ Merge(c) \/ Save(c)
    BY <1>1 DEF CheckExist, CheckLoad, GetDb, GetInfo, GetMan, LockShared, LockExclusive,
       LockFails, Use, Used, UnlockInfo, Loading, AddManager, FindMan, EraseMan,
       AbortAll, WaitCheckpoint, Merge, Save, mapLocks
  <1>2. CASE Saved(c) \/ DropInfo(c) \/ Remove(c) \/ Build(c) \/ BuildEnds(c)
             \/ AddInfo(c) \/ Copy(c) \/ FindInfo(c) \/ RemoveFiles(c)
             \/ CopyBack(c) \/ MoveFiles(c) \/ Show(c) \/ ShowDb(c)
             \/ Begin(c) \/ AddTransaction(c) \/ Refused(c) \/ Query(c)
             \/ QueryEnds(c) \/ End(c) \/ Ending(c)
    BY <1>2 DEF Saved, DropInfo, Remove, Build, BuildEnds, AddInfo, Copy, FindInfo, RemoveFiles,
       CopyBack, MoveFiles, Show, ShowDb, Begin, AddTransaction, Refused, Query,
       QueryEnds, End, Ending, mapLocks
  <1>3. CASE TryMap(c) \/ Unmap(c) \/ DropMap(c) \/ AddDb(c) \/ Delete(c)
             \/ DropBuilt(c)
    BY <1>3 DEF TryMap, Unmap, DropMap, AddDb, Delete, DropBuilt, CanWrite
  <1> QED BY <1>1, <1>2, <1>3 DEF Serve

\* Which steps take and release already_build_map_lock.
LEMMA BuildLockStep ==
    ASSUME NEW c \in Clients, Serve(c)
    PROVE  /\ tmLock' = tmLock
           /\ \/ abLock' = abLock
              \/ Show(c) /\ abLock.wr = NoOne /\ abLock' = Read(abLock, c)
              \/ ShowDb(c) /\ abLock' = Unlocked(abLock, c)
  <1>1. CASE CheckExist(c) \/ CheckLoad(c) \/ GetDb(c) \/ GetInfo(c)
             \/ GetMan(c) \/ LockShared(c) \/ LockExclusive(c) \/ LockFails(c)
             \/ Use(c) \/ Used(c) \/ UnlockInfo(c) \/ TryMap(c) \/ Loading(c)
             \/ AddManager(c) \/ AddDb(c) \/ Unmap(c) \/ FindMan(c)
             \/ EraseMan(c) \/ AbortAll(c) \/ Delete(c) \/ WaitCheckpoint(c)
    BY <1>1 DEF CheckExist, CheckLoad, GetDb, GetInfo, GetMan, LockShared, LockExclusive,
       LockFails, Use, Used, UnlockInfo, TryMap, Loading, AddManager, AddDb, Unmap,
       FindMan, EraseMan, AbortAll, Delete, WaitCheckpoint, mapLocks
  <1>2. CASE Merge(c) \/ Save(c) \/ Saved(c) \/ DropMap(c) \/ DropBuilt(c)
             \/ DropInfo(c) \/ Remove(c) \/ Build(c) \/ BuildEnds(c)
             \/ AddInfo(c) \/ Copy(c) \/ FindInfo(c) \/ RemoveFiles(c)
             \/ CopyBack(c) \/ MoveFiles(c) \/ Begin(c) \/ AddTransaction(c)
             \/ Refused(c) \/ Query(c) \/ QueryEnds(c) \/ End(c) \/ Ending(c)
    BY <1>2 DEF Merge, Save, Saved, DropMap, DropBuilt, DropInfo, Remove, Build, BuildEnds,
       AddInfo, Copy, FindInfo, RemoveFiles, CopyBack, MoveFiles, Begin,
       AddTransaction, Refused, Query, QueryEnds, End, Ending, mapLocks
  <1>3. CASE Show(c) \/ ShowDb(c)
    BY <1>3 DEF Show, ShowDb, CanRead, mapLocks
  <1> QED BY <1>1, <1>2, <1>3 DEF Serve

\* Which steps change what clients know of their transactions.
LEMMA ClientStep ==
    ASSUME NEW c \in Clients, Serve(c)
    PROVE  \/ tid' = tid /\ told' = told /\ home' = home
           \/ AddTransaction(c) \/ Refused(c) \/ QueryEnds(c) \/ Ending(c)
  <1>1. CASE CheckExist(c) \/ CheckLoad(c) \/ GetDb(c) \/ GetInfo(c)
             \/ GetMan(c) \/ LockShared(c) \/ LockExclusive(c) \/ LockFails(c)
             \/ Use(c) \/ Used(c) \/ UnlockInfo(c) \/ TryMap(c) \/ Loading(c)
             \/ AddManager(c) \/ AddDb(c) \/ Unmap(c) \/ FindMan(c)
             \/ EraseMan(c) \/ AbortAll(c) \/ Delete(c)
    BY <1>1 DEF CheckExist, CheckLoad, GetDb, GetInfo, GetMan, LockShared, LockExclusive,
       LockFails, Use, Used, UnlockInfo, TryMap, Loading, AddManager, AddDb, Unmap,
       FindMan, EraseMan, AbortAll, Delete, clientVars
  <1>2. CASE WaitCheckpoint(c) \/ Merge(c) \/ Save(c) \/ Saved(c)
             \/ DropMap(c) \/ DropBuilt(c) \/ DropInfo(c) \/ Remove(c)
             \/ Build(c) \/ BuildEnds(c) \/ AddInfo(c) \/ Copy(c)
             \/ FindInfo(c) \/ RemoveFiles(c) \/ CopyBack(c) \/ MoveFiles(c)
             \/ Show(c) \/ ShowDb(c) \/ Begin(c) \/ Query(c) \/ End(c)
    BY <1>2 DEF WaitCheckpoint, Merge, Save, Saved, DropMap, DropBuilt, DropInfo, Remove, Build,
       BuildEnds, AddInfo, Copy, FindInfo, RemoveFiles, CopyBack, MoveFiles, Show,
       ShowDb, Begin, Query, End, clientVars
  <1>3. CASE AddTransaction(c) \/ Refused(c) \/ QueryEnds(c) \/ Ending(c)
    BY <1>3 DEF AddTransaction, Refused, QueryEnds, Ending
  <1> QED BY <1>1, <1>2, <1>3 DEF Serve

\* Which steps change the files.
LEMMA FilesStep ==
    ASSUME NEW c \in Clients, Serve(c)
    PROVE  \/ files' = files
           \/ Save(c) \/ Saved(c) \/ Remove(c) \/ Build(c) \/ BuildEnds(c)
           \/ RemoveFiles(c) \/ MoveFiles(c)
  <1>1. CASE CheckExist(c) \/ CheckLoad(c) \/ GetDb(c) \/ GetInfo(c)
             \/ GetMan(c) \/ LockShared(c) \/ LockExclusive(c) \/ LockFails(c)
             \/ Use(c) \/ Used(c) \/ UnlockInfo(c) \/ TryMap(c) \/ Loading(c)
             \/ AddManager(c) \/ AddDb(c) \/ Unmap(c) \/ FindMan(c)
             \/ EraseMan(c) \/ AbortAll(c)
    BY <1>1 DEF CheckExist, CheckLoad, GetDb, GetInfo, GetMan, LockShared, LockExclusive,
       LockFails, Use, Used, UnlockInfo, TryMap, Loading, AddManager, AddDb, Unmap,
       FindMan, EraseMan, AbortAll
  <1>2. CASE Delete(c) \/ WaitCheckpoint(c) \/ Merge(c) \/ DropMap(c)
             \/ DropBuilt(c) \/ DropInfo(c) \/ AddInfo(c) \/ Copy(c)
             \/ FindInfo(c) \/ CopyBack(c) \/ Show(c) \/ ShowDb(c) \/ Begin(c)
             \/ AddTransaction(c) \/ Refused(c) \/ Query(c) \/ QueryEnds(c)
             \/ End(c) \/ Ending(c)
    BY <1>2 DEF Delete, WaitCheckpoint, Merge, DropMap, DropBuilt, DropInfo, AddInfo, Copy,
       FindInfo, CopyBack, Show, ShowDb, Begin, AddTransaction, Refused, Query,
       QueryEnds, End, Ending
  <1>3. CASE Save(c) \/ Saved(c) \/ Remove(c) \/ Build(c) \/ BuildEnds(c)
             \/ RemoveFiles(c) \/ MoveFiles(c)
    BY <1>3 DEF Save, Saved, Remove, Build, BuildEnds, RemoveFiles, MoveFiles
  <1> QED BY <1>1, <1>2, <1>3 DEF Serve

\* Every step keeps the types.
LEMMA TypesStep ==
    ASSUME NEW c \in Clients, Types, Placed(c), Serve(c)
    PROVE  Types'
  <1>0. /\ Len(infoLock) \in Nat /\ Len(mgr) \in Nat
        /\ built \in Nat /\ loaded \in Nat /\ managers \in Nat
        /\ at[c].info \in 0..Len(infoLock) /\ at[c].db \in 0..Len(mgr)
    BY LenFacts DEF Placed
  <1>1. /\ infoLock' \in Seq(Lock) /\ mgr' \in Seq(Manager)
        /\ Len(infoLock') \in Nat /\ Len(infoLock') >= Len(infoLock)
        /\ Len(mgr') \in Nat /\ Len(mgr') >= Len(mgr)
        /\ built' \in 0..Len(infoLock')
    BY ListsStep
  <1>m. /\ \A i \in 1..Len(infoLock) : i \in 1..Len(infoLock')
        /\ \A m \in 0..Len(mgr) : m \in 0..Len(mgr')
    BY <1>0, <1>1
  <1>2. at' \in [Clients -> Handler]
    BY <1>1, ServeFrame
  <1>3. abLock' \in Lock /\ dmLock' \in Lock /\ tmLock' = Free
    <2>1. abLock \in Lock /\ dmLock \in Lock /\ tmLock = Free
      BY DEF Types
    <2>2. QED BY <2>1, MapLockStep, BuildLockStep, LockOps
  <1>4. freed' \subseteq 1..Len(infoLock')
    <2>1. freed \subseteq 1..Len(infoLock)
      BY DEF Types
    <2>2. CASE freed' = freed
      BY <1>m, <2>1, <2>2
    <2>3. CASE DropInfo(c)
      <3>1. at[c].info \in 1..Len(infoLock)
        BY <2>3, HoldsAt, HasLock DEF DropInfo, In
      <3>2. freed' = freed \cup {at[c].info}
        BY <2>3 DEF DropInfo
      <3>3. QED BY <1>m, <2>1, <3>1, <3>2
    <2>4. QED BY <2>2, <2>3, FreedStep
  <1>5. loaded' \in 0..Len(mgr') /\ deleted' \subseteq Nat
    <2>1. loaded \in 0..Len(mgr) /\ deleted \subseteq Nat
      BY DEF Types
    <2>2. loaded' \in {loaded, at[c].db, 0} /\ deleted' \in {deleted, deleted \cup {loaded}}
      BY LoadedStep DEF AddDb, Delete, DropMap
    <2>3. loaded' \in 0..Len(mgr)
      BY <1>0, <2>1, <2>2
    <2>4. deleted' \subseteq Nat
      BY <1>0, <2>1, <2>2
    <2>5. QED BY <1>m, <2>3, <2>4
  <1>6. managers' \in 0..Len(mgr')
    <2>1. managers \in 0..Len(mgr)
      BY DEF Types
    <2>2. managers' \in {managers, at[c].db, 0}
      BY ManagersStep DEF AddManager, EraseMan
    <2>3. managers' \in 0..Len(mgr)
      BY <1>0, <2>1, <2>2
    <2>4. QED BY <1>m, <2>3
  <1>7. files' \in {"absent", "partial", "whole"}
    <2>1. files \in {"absent", "partial", "whole"}
      BY DEF Types
    <2>2. QED BY <2>1, FilesStep DEF Save, Saved, Remove, Build, BuildEnds, RemoveFiles, MoveFiles
  <1>8. /\ tid' \in [Clients -> Nat] /\ told' \in [Clients -> BOOLEAN]
        /\ home' \in [Clients -> Nat]
    <2>1. /\ tid \in [Clients -> Nat] /\ told \in [Clients -> BOOLEAN]
          /\ home \in [Clients -> Nat]
      BY DEF Types
    <2>2. CASE tid' = tid /\ told' = told /\ home' = home
      BY <2>1, <2>2
    <2>3. CASE AddTransaction(c)
      <3>1. at[c].man \in 1..Len(mgr)
        BY <2>3, HasManager DEF AddTransaction, In
      <3>2. mgr[at[c].man].begun \in Nat
        BY <3>1, ManagerFacts
      <3>3. /\ tid' = [tid EXCEPT ![c] = mgr[at[c].man].begun + 1]
            /\ home' = [home EXCEPT ![c] = at[c].man] /\ told' = told
        BY <2>3 DEF AddTransaction
      <3>4. mgr[at[c].man].begun + 1 \in Nat /\ at[c].man \in Nat
        BY <1>0, <3>1, <3>2
      <3>5. QED BY <2>1, <3>3, <3>4
    <2>4. CASE Refused(c) \/ Ending(c)
      <3>1. Forgotten(c)
        BY <2>4 DEF Refused, Ending
      <3>2. tid' \in [Clients -> Nat] /\ home' \in [Clients -> Nat]
        BY <2>1, <3>1 DEF Forgotten
      <3>3. told' \in [Clients -> BOOLEAN]
        BY <2>1, <3>1 DEF Forgotten
      <3>4. QED BY <3>2, <3>3
    <2>5. CASE QueryEnds(c)
      BY <2>1, <2>5 DEF QueryEnds, clientVars
    <2>6. QED BY <2>2, <2>3, <2>4, <2>5, ClientStep
  <1>9. QED BY <1>1, <1>2, <1>3, <1>4, <1>5, <1>6, <1>7, <1>8 DEF Types

\* The pointers of the handler that moves.
LEMMA PlacedOwn ==
    ASSUME NEW c \in Clients, Types, Placed(c), Serve(c)
    PROVE  Placed(c)'
  <1>0. /\ Len(infoLock) \in Nat /\ Len(mgr) \in Nat
        /\ built \in 0..Len(infoLock) /\ loaded \in 0..Len(mgr) /\ managers \in 0..Len(mgr)
        /\ ServesKind(at[c].pc, at[c].req) /\ at \in [Clients -> Handler]
    BY LenFacts DEF Types, Placed, Req
  <1>m. /\ Len(infoLock') \in Nat /\ Len(mgr') \in Nat
        /\ \A i \in 0..Len(infoLock) : i \in 0..Len(infoLock')
        /\ \A m \in 0..Len(mgr) : m \in 0..Len(mgr')
        /\ built' \in 0..Len(infoLock')
    <2>1. /\ Len(infoLock') \in Nat /\ Len(infoLock') >= Len(infoLock)
          /\ Len(mgr') \in Nat /\ Len(mgr') >= Len(mgr) /\ built' \in 0..Len(infoLock')
      BY ListsStep
    <2>2. QED BY <1>0, <2>1
  <1>f. /\ at' \in [Clients -> Handler]
        /\ at'[c] # Idle => /\ at'[c].pc # "idle" /\ at'[c].req = at[c].req
                            /\ ServesKind(at'[c].pc, at[c].req)
    <2>1. built' \in Nat
      BY <1>m
    <2>2. QED BY <2>1, ServeFrame
  <1>i. CASE at'[c] = Idle
    BY <1>m, <1>i DEF Placed, Idle, ServesKind, HoldsAlone, HoldsShared, Req
  <1>p. SUFFICES ASSUME at'[c] # Idle
                 PROVE  /\ at'[c].info \in 0..Len(infoLock')
                        /\ at'[c].db \in 0..Len(mgr') /\ at'[c].man \in 0..Len(mgr')
                        /\ (HoldsAlone(c) \/ HoldsShared(c))' => at'[c].info # 0
                        /\ at'[c].pc \in {"addman", "adddb"} => at'[c].db # 0
                        /\ at'[c].pc \in {"begin", "addtxn", "tquery", "tqueried", "end",
                                         "ending", "abortall", "waitckpt", "merge"}
                             => at'[c].man # 0
    BY <1>i, <1>f DEF Placed, Req
  <1>q. /\ at[c].info \in 0..Len(infoLock)
        /\ at[c].db \in 0..Len(mgr) /\ at[c].man \in 0..Len(mgr)
        /\ HoldsAlone(c) \/ HoldsShared(c) => at[c].info # 0
        /\ at[c].pc \in {"addman", "adddb"} => at[c].db # 0
        /\ at[c].pc \in {"begin", "addtxn", "tquery", "tqueried", "end", "ending",
                         "abortall", "waitckpt", "merge"} => at[c].man # 0
    BY DEF Placed
  <1>1. CASE CheckExist(c)
    BY <1>0, <1>m, <1>p, <1>q, <1>1, CheckExistMoves DEF Goes, Leaves, HoldsAlone,
       HoldsShared, Req
  <1>2. CASE CheckLoad(c)
    <2>1. PICK s \in {"lockinfo", "getman", "getdb", "getinfo"} :
                 Goes(c, s, at[c].db, at[c].info, at[c].man) /\ at[c].pc = "checkload"
      BY <1>0, <1>2, <1>p, CheckLoadMoves DEF Leaves
    <2>2. at[c].req # "checkpoint"
      BY <1>0, <2>1 DEF ServesKind
    <2>3. QED BY <1>0, <1>m, <1>q, <2>1, <2>2 DEF Goes, HoldsAlone, HoldsShared, Req
  <1>3. CASE GetDb(c)
    <2>1. CASE Leaves(c)
      BY <1>p, <2>1 DEF Leaves
    <2>2. PICK s \in {"getman", "getinfo"} : Goes(c, s, loaded, at[c].info, at[c].man)
                                         /\ (s = "getman" => Req(c) \in {"begin", "tquery"})
      BY <1>0, <1>3, <2>1, <1>p, GetDbMoves DEF Leaves
    <2>3. QED BY <1>0, <1>m, <1>q, <2>2 DEF Goes, HoldsAlone, HoldsShared, Req
  <1>4. CASE GetInfo(c)
    <2>1. Goes(c, "lockinfo", at[c].db, built, at[c].man)
      BY <1>0, <1>4, GetInfoMoves
    <2>2. QED BY <1>0, <1>m, <1>q, <2>1 DEF Goes, HoldsAlone, HoldsShared
  <1>5. CASE GetMan(c)
    <2>1. CASE Leaves(c)
      BY <1>p, <2>1 DEF Leaves
    <2>2. PICK s \in {"begin", "tquery", "end", "waitckpt"} :
                 /\ Goes(c, s, at[c].db, at[c].info, managers)
                 /\ ServesKind(s, at[c].req) /\ at[c].pc = "getman" /\ managers \notin {0}
      BY <1>0, <1>5, <1>p, GetManMoves DEF Leaves
    <2>3. s = "waitckpt" => HoldsAlone(c)
      BY <1>0, <2>2 DEF HoldsAlone, ServesKind, Req
    <2>4. QED BY <1>0, <1>m, <1>q, <2>2, <2>3 DEF Goes, HoldsAlone, HoldsShared
  <1>6. CASE LockShared(c)
    <2>1. at[c].info # 0
      BY <1>6, LockSharedFacts
    <2>2. Goes(c, "use", at[c].db, at[c].info, at[c].man)
      BY <1>0, <1>6, GotoFacts, StepNames DEF LockShared
    <2>3. QED BY <1>0, <1>m, <1>q, <2>1, <2>2 DEF Goes
  <1>7. CASE LockExclusive(c)
    <2>1. PICK s \in {"trymap", "unmap", "dropmap", "getman", "use", "copy", "rmfiles"} :
                 Goes(c, s, at[c].db, InfoOf(c), at[c].man) /\ InfoOf(c) # 0
      BY <1>0, <1>7, LockExclusiveMoves
    <2>2. InfoOf(c) \in 0..Len(infoLock)
      BY <1>0, <1>q DEF InfoOf
    <2>3. QED BY <1>0, <1>m, <1>q, <2>1, <2>2 DEF Goes
  <1>8. CASE LockFails(c)
    BY <1>0, <1>m, <1>p, <1>q, <1>8 DEF LockFails
  <1>9. CASE Use(c)
    <2>1. Goes(c, "used", at[c].db, at[c].info, at[c].man) /\ at[c].pc = "use"
      BY <1>0, <1>p, <1>9, GotoFacts, StepNames DEF Use, In
    <2>2. HoldsAlone(c) \/ HoldsShared(c)
      BY <1>0, <2>1 DEF ServesKind, HoldsAlone, HoldsShared, Req
    <2>3. QED BY <1>0, <1>m, <1>q, <2>1, <2>2 DEF Goes
  <1>10. CASE Used(c)
    BY <1>0, <1>m, <1>p, <1>q, <1>10 DEF Used
  <1>11. CASE UnlockInfo(c)
    BY <1>0, <1>m, <1>p, <1>q, <1>11, UnlockInfoMoves DEF Goes, Leaves, HoldsAlone,
       HoldsShared, Req
  <1>12. CASE TryMap(c)
    <2>1. Goes(c, "loading", at[c].db, at[c].info, at[c].man) /\ at[c].pc = "trymap"
      BY <1>0, <1>p, <1>12, GotoFacts, StepNames DEF TryMap, In
    <2>2. QED BY <1>0, <1>m, <1>q, <2>1 DEF Goes, HoldsAlone, HoldsShared
  <1>13. CASE Loading(c)
    <2>1. Goes(c, "addman", Len(mgr) + 1, at[c].info, at[c].man) /\ at[c].pc = "loading"
      BY <1>0, <1>13, LoadingMoves
    <2>2. Len(mgr') = Len(mgr) + 1
      BY <1>13, LoadingFacts DEF AddsManager
    <2>3. Len(mgr) + 1 \in 0..Len(mgr') /\ Len(mgr) + 1 # 0
      BY <1>0, <1>m, <2>2
    <2>4. QED BY <1>0, <1>m, <1>q, <2>1, <2>3 DEF Goes, HoldsAlone, HoldsShared
  <1>14. CASE AddManager(c)
    <2>1. Goes(c, "adddb", at[c].db, at[c].info, at[c].man) /\ at[c].pc = "addman"
      BY <1>0, <1>p, <1>14, GotoFacts, StepNames DEF AddManager, In
    <2>2. QED BY <1>0, <1>m, <1>q, <2>1 DEF Goes, HoldsAlone, HoldsShared
  <1>15. CASE AddDb(c)
    <2>1. Goes(c, "unlockinfo", at[c].db, at[c].info, at[c].man) /\ at[c].pc = "adddb"
      BY <1>0, <1>p, <1>15, GotoFacts, StepNames DEF AddDb, In
    <2>2. QED BY <1>0, <1>m, <1>q, <2>1 DEF Goes, HoldsAlone, HoldsShared
  <1>16. CASE Unmap(c)
    <2>1. Goes(c, "findman", at[c].db, at[c].info, at[c].man) /\ at[c].pc = "unmap"
      BY <1>0, <1>p, <1>16, GotoFacts, StepNames DEF Unmap, In
    <2>2. QED BY <1>0, <1>m, <1>q, <2>1 DEF Goes, HoldsAlone, HoldsShared
  <1>17. CASE FindMan(c)
    <2>1. Goes(c, "eraseman", at[c].db, at[c].info, at[c].man) /\ at[c].pc = "findman"
      BY <1>0, <1>p, <1>17, GotoFacts, StepNames DEF FindMan, In
    <2>2. QED BY <1>0, <1>m, <1>q, <2>1 DEF Goes, HoldsAlone, HoldsShared
  <1>18. CASE EraseMan(c)
    <2>1. /\ at[c].pc = "eraseman"
          /\ Goes(c, IF managers = 0 THEN "delete" ELSE "abortall",
                  at[c].db, at[c].info, managers)
      BY <1>0, <1>18, LenFacts, EraseManMoves
    <2>2. HoldsAlone(c)
      BY <1>0, <2>1 DEF HoldsAlone, ServesKind, Req
    <2>3. at[c].info # 0
      BY <1>q, <2>2
    <2>4. CASE managers = 0
      BY <1>0, <1>m, <1>q, <2>1, <2>3, <2>4 DEF Goes
    <2>5. CASE managers # 0
      BY <1>0, <1>m, <1>q, <2>1, <2>3, <2>5 DEF Goes
    <2>6. QED BY <2>4, <2>5
  <1>19. CASE AbortAll(c)
    <2>1. Goes(c, "waitckpt", at[c].db, at[c].info, at[c].man) /\ at[c].pc = "abortall"
      BY <1>0, <1>p, <1>19, GotoFacts, StepNames DEF AbortAll, In
    <2>2. QED BY <1>0, <1>m, <1>q, <2>1 DEF Goes, HoldsAlone, HoldsShared
  <1>20. CASE Delete(c)
    <2>1. Goes(c, "unlockinfo", at[c].db, at[c].info, 0) /\ at[c].pc = "delete"
      BY <1>0, <1>20, DeleteMoves
    <2>2. HoldsAlone(c)
      BY <1>0, <2>1 DEF HoldsAlone, ServesKind, Req
    <2>3. at[c].info # 0 /\ 0 \in 0..Len(mgr')
      BY <1>m, <1>q, <2>2
    <2>4. QED BY <1>0, <1>m, <1>q, <2>1, <2>3 DEF Goes
  <1>21. CASE WaitCheckpoint(c)
    <2>1. Goes(c, "merge", at[c].db, at[c].info, at[c].man) /\ at[c].pc = "waitckpt"
      BY <1>0, <1>p, <1>21, GotoFacts, StepNames DEF WaitCheckpoint, In
    <2>2. QED BY <1>0, <1>m, <1>q, <2>1 DEF Goes, HoldsAlone, HoldsShared
  <1>22. CASE Merge(c)
    <2>1. PICK s \in {"delete", "save"} :
                 Goes(c, s, at[c].db, at[c].info, at[c].man) /\ at[c].pc = "merge"
      BY <1>0, <1>22, GotoFacts, StepNames DEF Merge, In
    <2>2. HoldsAlone(c)
      BY <1>0, <2>1 DEF HoldsAlone, ServesKind, Req
    <2>3. at[c].info # 0
      BY <1>q, <2>2
    <2>4. QED BY <1>0, <1>m, <1>q, <2>1, <2>3 DEF Goes
  <1>23. CASE Save(c)
    <2>1. Goes(c, "saved", at[c].db, at[c].info, at[c].man) /\ at[c].pc = "save"
      BY <1>0, <1>23, GotoFacts, StepNames DEF Save, In
    <2>2. QED BY <1>0, <1>m, <1>q, <2>1 DEF Goes, HoldsAlone, HoldsShared
  <1>24. CASE Saved(c)
    <2>1. Goes(c, "unlockinfo", at[c].db, at[c].info, at[c].man) /\ at[c].pc = "saved"
      BY <1>0, <1>24, GotoFacts, StepNames DEF Saved, In
    <2>2. QED BY <1>0, <1>m, <1>q, <2>1 DEF Goes, HoldsAlone, HoldsShared
  <1>25. CASE DropMap(c)
    <2>1. PICK s \in {"dropbuilt", "dropinfo"} :
                 Goes(c, s, at[c].db, at[c].info, at[c].man) /\ at[c].pc = "dropmap"
      BY <1>0, <1>25, GotoFacts, StepNames DEF DropMap, In
    <2>2. HoldsAlone(c)
      BY <1>0, <2>1 DEF HoldsAlone, ServesKind, Req
    <2>3. at[c].info # 0
      BY <1>q, <2>2
    <2>4. QED BY <1>0, <1>m, <1>q, <2>1, <2>3 DEF Goes
  <1>26. CASE DropBuilt(c)
    <2>1. Goes(c, "rm", at[c].db, at[c].info, at[c].man) /\ at[c].pc = "dropbuilt"
      BY <1>0, <1>p, <1>26, GotoFacts, StepNames DEF DropBuilt, In
    <2>2. QED BY <1>0, <1>m, <1>q, <2>1 DEF Goes, HoldsAlone, HoldsShared
  <1>27. CASE DropInfo(c)
    BY <1>0, <1>m, <1>p, <1>q, <1>27, DropInfoMoves DEF Goes, Leaves, HoldsAlone,
       HoldsShared, Req
  <1>28. CASE Remove(c)
    BY <1>0, <1>m, <1>p, <1>q, <1>28 DEF Remove, Finish
  <1>29. CASE Build(c)
    <2>1. Goes(c, "building", at[c].db, at[c].info, at[c].man) /\ at[c].pc = "build"
      BY <1>0, <1>p, <1>29, GotoFacts, StepNames DEF Build, In
    <2>2. QED BY <1>0, <1>m, <1>q, <2>1 DEF Goes, HoldsAlone, HoldsShared
  <1>30. CASE BuildEnds(c)
    BY <1>0, <1>m, <1>p, <1>q, <1>30, BuildEndsMoves DEF Goes, Leaves, HoldsAlone,
       HoldsShared, Req
  <1>31. CASE AddInfo(c)
    BY <1>0, <1>m, <1>p, <1>q, <1>31 DEF AddInfo, Finish
  <1>32. CASE Copy(c)
    <2>1. Goes(c, "unlockinfo", at[c].db, at[c].info, at[c].man) /\ at[c].pc = "copy"
      BY <1>0, <1>p, <1>32, GotoFacts, StepNames DEF Copy, In
    <2>2. QED BY <1>0, <1>m, <1>q, <2>1 DEF Goes, HoldsAlone, HoldsShared
  <1>33. CASE FindInfo(c)
    <2>1. CASE Leaves(c)
      BY <1>p, <2>1 DEF Leaves
    <2>2. CASE Goes(c, "lockinfo", at[c].db, built', at[c].man)
      BY <1>0, <1>m, <1>q, <2>2 DEF Goes, HoldsAlone, HoldsShared
    <2>3. built \in Nat
      BY <1>0
    <2>4. QED BY <1>0, <1>33, <2>1, <2>2, <2>3, FindInfoMoves
  <1>34. CASE RemoveFiles(c)
    <2>1. Goes(c, "copyback", at[c].db, at[c].info, at[c].man) /\ at[c].pc = "rmfiles"
      BY <1>0, <1>p, <1>34, GotoFacts, StepNames DEF RemoveFiles, In
    <2>2. QED BY <1>0, <1>m, <1>q, <2>1 DEF Goes, HoldsAlone, HoldsShared
  <1>35. CASE CopyBack(c)
    <2>1. Goes(c, "unlockinfo", at[c].db, at[c].info, at[c].man) /\ at[c].pc = "copyback"
      BY <1>0, <1>p, <1>35, GotoFacts, StepNames DEF CopyBack, In
    <2>2. QED BY <1>0, <1>m, <1>q, <2>1 DEF Goes, HoldsAlone, HoldsShared
  <1>36. CASE MoveFiles(c)
    BY <1>0, <1>m, <1>p, <1>q, <1>36 DEF MoveFiles, Finish
  <1>37. CASE Show(c)
    <2>1. Goes(c, "showdb", at[c].db, at[c].info, at[c].man) /\ at[c].pc = "show"
      BY <1>0, <1>p, <1>37, GotoFacts, StepNames DEF Show, In
    <2>2. QED BY <1>0, <1>m, <1>q, <2>1 DEF Goes, HoldsAlone, HoldsShared
  <1>38. CASE ShowDb(c)
    BY <1>0, <1>m, <1>p, <1>q, <1>38 DEF ShowDb, Finish
  <1>39. CASE Begin(c)
    <2>1. Goes(c, "addtxn", at[c].db, at[c].info, at[c].man) /\ at[c].pc = "begin"
      BY <1>0, <1>p, <1>39, GotoFacts, StepNames DEF Begin, In
    <2>2. QED BY <1>0, <1>m, <1>q, <2>1 DEF Goes, HoldsAlone, HoldsShared
  <1>40. CASE AddTransaction(c)
    BY <1>0, <1>m, <1>p, <1>q, <1>40 DEF AddTransaction, Finish
  <1>41. CASE Refused(c)
    BY <1>0, <1>m, <1>p, <1>q, <1>41 DEF Refused, Finish
  <1>42. CASE Query(c)
    <2>1. Goes(c, "tqueried", at[c].db, at[c].info, at[c].man) /\ at[c].pc = "tquery"
      BY <1>0, <1>p, <1>42, GotoFacts, StepNames DEF Query, In
    <2>2. QED BY <1>0, <1>m, <1>q, <2>1 DEF Goes, HoldsAlone, HoldsShared
  <1>43. CASE QueryEnds(c)
    BY <1>0, <1>m, <1>p, <1>q, <1>43 DEF QueryEnds
  <1>44. CASE End(c)
    <2>1. Goes(c, "ending", at[c].db, at[c].info, at[c].man) /\ at[c].pc = "end"
      BY <1>0, <1>44, GotoFacts, StepNames DEF End, In
    <2>2. QED BY <1>0, <1>m, <1>q, <2>1 DEF Goes, HoldsAlone, HoldsShared
  <1>45. CASE Ending(c)
    BY <1>0, <1>m, <1>p, <1>q, <1>45 DEF Ending
  <1> QED BY <1>1, <1>2, <1>3, <1>4, <1>5, <1>6, <1>7, <1>8, <1>9, <1>10, <1>11,
         <1>12, <1>13, <1>14, <1>15, <1>16, <1>17, <1>18, <1>19, <1>20, <1>21,
         <1>22, <1>23, <1>24, <1>25, <1>26, <1>27, <1>28, <1>29, <1>30, <1>31,
         <1>32, <1>33, <1>34, <1>35, <1>36, <1>37, <1>38, <1>39, <1>40, <1>41,
         <1>42, <1>43, <1>44, <1>45 DEF Serve

\* Every step leaves every handler with the pointers its step needs.
LEMMA PlacedStep ==
    ASSUME NEW c \in Clients, Types, Serve(c), NEW d \in Clients, Placed(c), Placed(d)
    PROVE  Placed(d)'
  <1>1. CASE d = c
    BY <1>1, PlacedOwn
  <1>2. CASE d # c
    <2>1. /\ Len(infoLock') \in Nat /\ Len(infoLock') >= Len(infoLock)
          /\ Len(mgr') \in Nat /\ Len(mgr') >= Len(mgr) /\ built' \in Nat
      BY ListsStep
    <2>2. at'[d] = at[d]
      BY <1>2, <2>1, ServeFrame
    <2>3. /\ \A i \in 0..Len(infoLock) : i \in 0..Len(infoLock')
          /\ \A m \in 0..Len(mgr) : m \in 0..Len(mgr')
      BY <2>1, LenFacts
    <2>4. (HoldsAlone(d) <=> HoldsAlone(d)') /\ (HoldsShared(d) <=> HoldsShared(d)')
      BY <2>2 DEF HoldsAlone, HoldsShared, Req
    <2>5. QED BY <2>2, <2>3, <2>4 DEF Placed, Req
  <1>3. QED BY <1>1, <1>2

\* Shape holds at first.
LEMMA ShapeInit == Init => Shape
  <1> SUFFICES ASSUME Init PROVE Shape
    OBVIOUS
  <1>1. /\ infoLock = <<>> /\ mgr = <<>>
        /\ infoLock \in Seq(Lock) /\ mgr \in Seq(Manager) /\ Len(infoLock) = 0 /\ Len(mgr) = 0
    BY EmptySeq DEF Init
  <1>2. Idle \in Handler
    BY DEF Idle, Handler, Steps, Kinds
  <1>3. Types
    BY <1>1, <1>2 DEF Init, Types, Lock, Free
  <1>4. ASSUME NEW c \in Clients PROVE Placed(c)
    BY <1>1 DEF Init, Placed, Idle, ServesKind, HoldsAlone, HoldsShared, Req
  <1>5. QED BY <1>3, <1>4 DEF Shape

\* A request that is received: the handler starts, and nothing else changes.
LEMMA ShapeRequest ==
    ASSUME NEW c \in Clients, NEW k \in Requests, Shape, Request(c, k)
    PROVE  Shape'
  <1>0. k \in Kinds
    BY ServerAssumption
  <1>1. /\ at[c].pc = "idle" /\ at[c] = Idle /\ ServesKind(First(k), k)
        /\ First(k) \in {"show", "findinfo", "getdb", "checkexist"}
        /\ at' \in [Clients -> Handler] /\ \A d \in Clients \ {c} : at'[d] = at[d]
        /\ at'[c] = [at[c] EXCEPT !.pc = First(k), !.req = k]
    BY <1>0, RequestMoves DEF Shape, Types, Placed
  <1>2. Len(infoLock) \in Nat /\ Len(mgr) \in Nat
    BY LenFacts DEF Shape
  <1>3. Types'
    BY <1>1 DEF Request, Shape, Types, mapLocks, infos, dbs, mans, clientVars
  <1>4. ASSUME NEW d \in Clients PROVE Placed(d)'
    <2>1. infoLock' = infoLock /\ mgr' = mgr
      BY DEF Request, infos, mans
    <2>2. CASE d = c
      <3>1. /\ at'[c].pc = First(k) /\ at'[c].req = k /\ at'[c].db = 0
            /\ at'[c].info = 0 /\ at'[c].man = 0
        BY <1>1 DEF Idle
      <3>2. /\ ServesKind(at'[c].pc, at'[c].req)
            /\ at'[c].pc \in {"show", "findinfo", "getdb", "checkexist"}
        BY <1>1, <3>1
      <3>3. ~HoldsAlone(c)' /\ ~HoldsShared(c)'
        BY <3>2 DEF HoldsAlone, HoldsShared
      <3>4. QED BY <1>2, <2>1, <2>2, <3>1, <3>2, <3>3 DEF Placed, Req
    <2>3. CASE d # c
      BY <1>1, <2>1, <2>3 DEF Shape, Placed, HoldsAlone, HoldsShared, Req
    <2>4. QED BY <2>2, <2>3
  <1>5. QED BY <1>3, <1>4 DEF Shape

\* Shape is inductive.
LEMMA ShapeStep == Shape /\ [Next]_vars => Shape'
  <1> SUFFICES ASSUME Shape, [Next]_vars PROVE Shape'
    OBVIOUS
  <1>1. ASSUME NEW c \in Clients, Serve(c) PROVE Shape'
    BY <1>1, TypesStep, PlacedStep DEF Shape
  <1>2. ASSUME NEW c \in Clients, NEW k \in Requests, Request(c, k) PROVE Shape'
    BY <1>2, ShapeRequest
  <1>3. CASE UNCHANGED vars
    BY <1>3 DEF vars, mapLocks, infos, dbs, mans, clientVars, Shape, Types, Placed,
       HoldsAlone, HoldsShared, Req
  <1>4. QED BY <1>1, <1>2, <1>3 DEF Next

\* Every variable keeps its type, and every handler has the pointers that the
\* step it is at works with: the iterators and pointers of ghttp.cpp are set
\* before they are used.
THEOREM ShapeAlways == Spec => []Shape
  BY ShapeInit, ShapeStep, PTL DEF Spec

-----------------------------------------------------------------------------
(* What clients see to                                                     *)

\* A step moves one handler, which returns or goes on with its request.
LEMMA Frame ==
    ASSUME NEW c \in Clients, Shape, Serve(c)
    PROVE  /\ faults = {} /\ at[c].pc # "idle"
           /\ \A d \in Clients \ {c} : at'[d] = at[d]
           /\ \/ at'[c] = Idle
              \/ /\ at'[c].pc # "idle" /\ at'[c].req = at[c].req
                 /\ ServesKind(at'[c].pc, at[c].req)
  <1>1. built' \in Nat
    BY ListsStep DEF Shape
  <1>2. QED BY <1>1, ServeFrame DEF Shape

\* A request moves the handler of its client, which was idle.
LEMMA RequestFrame ==
    ASSUME NEW c \in Clients, NEW k \in Requests, Shape, Request(c, k)
    PROVE  /\ k \in Kinds /\ at[c] = Idle
           /\ at'[c].pc = First(k) /\ at'[c].req = k
           /\ First(k) \in {"show", "findinfo", "getdb", "checkexist"} /\ ServesKind(First(k), k)
           /\ at'[c].db = 0 /\ at'[c].info = 0 /\ at'[c].man = 0
           /\ \A d \in Clients \ {c} : at'[d] = at[d]
  <1>1. k \in Kinds /\ at \in [Clients -> Handler]
    BY ServerAssumption DEF Shape, Types
  <1>2. /\ at[c].pc = "idle"
        /\ First(k) \in {"show", "findinfo", "getdb", "checkexist"} /\ ServesKind(First(k), k)
        /\ \A d \in Clients \ {c} : at'[d] = at[d]
        /\ at'[c] = [at[c] EXCEPT !.pc = First(k), !.req = k]
    BY <1>1, RequestMoves
  <1>3. at[c] = Idle
    BY <1>2 DEF Shape, Placed
  <1>4. QED BY <1>1, <1>2, <1>3 DEF Idle

\* ApartInv holds at first.
LEMMA ApartInit == Init => ApartInv
  BY DEF Init, ApartInv, Idle

\* ApartInv is inductive: only a request starts a handler.
LEMMA ApartStep == Shape /\ ApartInv /\ [Next]_vars => ApartInv'
  <1> SUFFICES ASSUME Shape, ApartInv, [Next]_vars PROVE ApartInv'
    OBVIOUS
  <1>1. ASSUME NEW c \in Clients, Serve(c) PROVE ApartInv'
    <2>1. /\ at[c].pc # "idle"
          /\ \A d \in Clients \ {c} : at'[d] = at[d]
          /\ at'[c].pc = "idle" \/ at'[c].req = at[c].req
      BY <1>1, Frame DEF Idle
    <2>2. QED BY <2>1 DEF ApartInv, Req
  <1>2. ASSUME NEW c \in Clients, NEW k \in Requests, Request(c, k) PROVE ApartInv'
    <2>1. /\ at'[c].req = k /\ \A d \in Clients \ {c} : at'[d] = at[d]
      BY <1>2, RequestFrame
    <2>2. \A d \in Clients \ {c} : at[d].pc # "idle" => {k, Req(d)} \notin Apart
      BY <1>2 DEF Request, MaySend
    <2>3. \A x, y : {x, y} = {y, x}
      OBVIOUS
    <2>4. QED BY <2>1, <2>2, <2>3 DEF ApartInv, Req
  <1>3. CASE UNCHANGED vars
    BY <1>3 DEF vars, ApartInv, Req
  <1>4. QED BY <1>1, <1>2, <1>3 DEF Next

\* OpenInv holds at first.
LEMMA OpenInit == Init => OpenInv
  BY DEF Init, OpenInv, Idle

\* OpenInv is inductive: TIDs come and go by calls of their own clients.
LEMMA OpenStep ==
    ASSUME Polite PROVE Shape /\ ApartInv /\ OpenInv /\ [Next]_vars => OpenInv'
  <1> SUFFICES ASSUME Shape, ApartInv, OpenInv, [Next]_vars PROVE OpenInv'
    OBVIOUS
  <1>0. tid \in [Clients -> Nat]
    BY DEF Shape, Types
  <1>1. ASSUME NEW c \in Clients, Serve(c) PROVE OpenInv'
    <2>1. /\ at[c].pc # "idle"
          /\ \A d \in Clients \ {c} : at'[d] = at[d]
          /\ at'[c].pc = "idle" \/ at'[c].req = at[c].req
      BY <1>1, Frame DEF Idle
    <2>2. CASE tid' = tid
      BY <2>1, <2>2 DEF OpenInv, Req
    <2>3. CASE AddTransaction(c)
      <3>1. Req(c) = "begin" /\ at' = [at EXCEPT ![c] = Idle]
        BY <2>3 DEF AddTransaction, In, Finish, Shape, Placed, ServesKind
      <3>2. at'[c].pc = "idle"
        BY <3>1 DEF Shape, Types, Idle
      <3>3. \A d \in Clients \ {c} : at[d].pc # "idle" => Req(d) # "unload"
        BY <2>1, <3>1 DEF Polite, ApartInv
      <3>4. \A d \in Clients \ {c} : tid'[d] = tid[d]
        BY <1>0, <2>3 DEF AddTransaction
      <3>5. QED BY <2>1, <3>2, <3>3, <3>4 DEF OpenInv, Req
    <2>4. CASE Refused(c) \/ Ending(c)
      <3>1. Forgotten(c) /\ at' = [at EXCEPT ![c] = Idle]
        BY <2>4 DEF Refused, Ending, Finish
      <3>2. at'[c].pc = "idle"
        BY <3>1 DEF Shape, Types, Idle
      <3>3. \A d \in Clients : tid'[d] = IF d = c THEN 0 ELSE tid[d]
        BY <1>0, <3>1 DEF Forgotten
      <3>4. QED BY <2>1, <3>2, <3>3 DEF OpenInv, Req
    <2>5. CASE QueryEnds(c)
      <3>1. tid' = tid
        BY <2>5 DEF QueryEnds, clientVars
      <3>2. QED BY <2>2, <3>1
    <2>6. QED BY <1>1, <2>2, <2>3, <2>4, <2>5, ClientStep
  <1>2. ASSUME NEW c \in Clients, NEW k \in Requests, Request(c, k) PROVE OpenInv'
    <2>1. /\ at'[c].req = k /\ at[c].pc = "idle" /\ \A d \in Clients \ {c} : at'[d] = at[d]
      BY <1>2, RequestFrame DEF Idle
    <2>2. /\ tid[c] # 0 => k \in {"tquery", "commit", "rollback", "show"}
          /\ k \in {"tquery", "commit", "rollback"} => tid[c] # 0
          /\ k = "unload" => \A d \in Clients : tid[d] = 0
      BY <1>2 DEF Request, MaySend, Polite
    <2>3. tid' = tid
      BY <1>2 DEF Request, clientVars
    <2>4. QED BY <2>1, <2>2, <2>3 DEF OpenInv, Req
  <1>3. CASE UNCHANGED vars
    BY <1>3 DEF vars, clientVars, OpenInv, Req
  <1>4. QED BY <1>1, <1>2, <1>3 DEF Next

\* What clients see to before they send a request stays so until it is
\* answered: no step of another handler brings requests together that clients
\* keep apart, or opens a transaction while a database is unloaded.
THEOREM ClientsAlways ==
    ASSUME Polite PROVE Spec => [](Shape /\ ApartInv /\ OpenInv)
  <1>1. Init => ApartInv /\ OpenInv
    BY ApartInit, OpenInit
  <1>2. Shape /\ ApartInv /\ OpenInv /\ [Next]_vars => Shape' /\ ApartInv' /\ OpenInv'
    BY Zenon, ShapeStep, ApartStep, OpenStep
  <1>3. QED BY <1>1, <1>2, ShapeInit, PTL DEF Spec

-----------------------------------------------------------------------------
(* The maps                                                                *)

\* A handler comes to hold databases_map_lock by the steps that take it, and
\* ceases to by those that release it.
LEMMA HoldsMapStep ==
    ASSUME Polite, NEW c \in Clients, Shape, Serve(c), at[c].pc = "findman" => managers # 0
    PROVE  \/ dmLock' = dmLock /\ (HoldsMap(c)' <=> HoldsMap(c))
           \/ dmLock = Free /\ dmLock' = Write(dmLock, c) /\ HoldsMap(c)'
           \/ dmLock' = Unlocked(dmLock, c) /\ HoldsMap(c) /\ ~HoldsMap(c)'
  <1>0. /\ at \in [Clients -> Handler] /\ ServesKind(at[c].pc, at[c].req)
        /\ built \in Nat /\ loaded \in Nat /\ managers \in Nat /\ Len(infoLock) \in Nat
        /\ Len(mgr) \in Nat
    BY LenFacts DEF Shape, Placed, Req
  <1> USE DEF HoldsMap, Req
  <1>1. CASE CheckExist(c)
    <2>1. dmLock' = dmLock
      BY <1>1 DEF CheckExist, mapLocks
    <2>2. ~HoldsMap(c) /\ ~HoldsMap(c)'
      BY <1>0, <1>1, CheckExistMoves DEF Goes, Leaves, Idle
    <2>3. QED BY <2>1, <2>2
  <1>2. CASE CheckLoad(c)
    <2>1. dmLock' = dmLock
      BY <1>2 DEF CheckLoad, mapLocks
    <2>2. ~HoldsMap(c) /\ ~HoldsMap(c)'
      BY <1>0, <1>2, CheckLoadMoves DEF Goes, Leaves, Idle
    <2>3. QED BY <2>1, <2>2
  <1>3. CASE GetDb(c)
    <2>1. dmLock' = dmLock
      BY <1>3 DEF GetDb, mapLocks
    <2>2. ~HoldsMap(c) /\ ~HoldsMap(c)'
      BY <1>0, <1>3, GetDbMoves DEF Goes, Leaves, Idle
    <2>3. QED BY <2>1, <2>2
  <1>4. CASE GetInfo(c)
    BY <1>0, <1>4, GetInfoMoves DEF Goes, Leaves, Idle, GetInfo, mapLocks
  <1>5. CASE GetMan(c)
    <2>1. dmLock' = dmLock
      BY <1>5 DEF GetMan, mapLocks
    <2>2. ~HoldsMap(c) /\ ~HoldsMap(c)'
      BY <1>0, <1>5, GetManMoves DEF Goes, Leaves, Idle, ServesKind
    <2>3. QED BY <2>1, <2>2
  <1>6. CASE LockShared(c)
    BY <1>0, <1>6, GotoFacts, StepNames DEF LockShared, In, Goes, mapLocks, ServesKind
  <1>7. CASE LockExclusive(c)
    <2>1. dmLock' = dmLock
      BY <1>7 DEF LockExclusive, mapLocks
    <2>2. PICK s \in {"trymap", "unmap", "dropmap", "getman", "use", "copy", "rmfiles"} :
            /\ Goes(c, s, at[c].db, InfoOf(c), at[c].man)
            /\ at[c].pc = "lockinfo"
      BY <1>0, <1>7, LockExclusiveMoves
    <2>3. ~HoldsMap(c) /\ ~HoldsMap(c)'
      BY <2>2 DEF Goes
    <2>4. QED BY <2>1, <2>3
  <1>8. CASE LockFails(c)
    BY <1>0, <1>8, LeavesFacts DEF LockFails, In, Idle, Leaves, ReachesInfo, mapLocks
  <1>9. CASE Use(c)
    BY <1>0, <1>9, GotoFacts, StepNames DEF Use, In, Goes, mapLocks
  <1>10. CASE Used(c)
    BY <1>0, <1>10, LeavesFacts DEF Used, In, Idle, Leaves, mapLocks
  <1>11. CASE UnlockInfo(c)
    BY <1>0, <1>11, UnlockInfoMoves DEF Goes, Leaves, Idle, UnlockInfo, mapLocks
  <1>12. CASE TryMap(c)
    BY <1>0, <1>12, GotoFacts, StepNames, LeavesFacts DEF TryMap, In, Goes, Leaves, Idle,
       CanWrite
  <1>13. CASE Loading(c)
    BY <1>0, <1>13, LoadingMoves DEF Goes, Leaves, Idle, Loading, mapLocks
  <1>14. CASE AddManager(c)
    BY <1>0, <1>14, GotoFacts, StepNames, LeavesFacts DEF AddManager, In, Goes, Leaves,
       Idle, mapLocks, Polite
  <1>15. CASE AddDb(c)
    BY <1>0, <1>15, GotoFacts, StepNames DEF AddDb, In, Goes, CanWrite
  <1>16. CASE Unmap(c)
    BY <1>0, <1>16, GotoFacts, StepNames, LeavesFacts DEF Unmap, In, Goes, Leaves, Idle,
       CanWrite
  <1>17. CASE FindMan(c)
    BY <1>0, <1>17, GotoFacts, StepNames, LeavesFacts DEF FindMan, In, Goes, Leaves,
       Idle, mapLocks
  <1>18. CASE EraseMan(c)
    BY <1>0, <1>18, EraseManMoves DEF Goes, Leaves, Idle, EraseMan, mapLocks
  <1>19. CASE AbortAll(c)
    BY <1>0, <1>19, GotoFacts, StepNames DEF AbortAll, In, Goes, mapLocks, ServesKind
  <1>20. CASE Delete(c)
    BY <1>0, <1>20, DeleteMoves DEF Goes, Leaves, Idle, Delete, CanWrite
  <1>21. CASE WaitCheckpoint(c)
    BY <1>0, <1>21, GotoFacts, StepNames DEF WaitCheckpoint, In, Goes, mapLocks,
       ServesKind
  <1>22. CASE Merge(c)
    BY <1>0, <1>22, GotoFacts, StepNames DEF Merge, In, Goes, mapLocks, ServesKind
  <1>23. CASE Save(c)
    BY <1>0, <1>23, GotoFacts, StepNames DEF Save, In, Goes, mapLocks
  <1>24. CASE Saved(c)
    BY <1>0, <1>24, GotoFacts, StepNames DEF Saved, In, Goes, mapLocks
  <1>25. CASE DropMap(c)
    BY <1>0, <1>25, GotoFacts, StepNames DEF DropMap, In, Goes, CanWrite
  <1>26. CASE DropBuilt(c)
    BY <1>0, <1>26, GotoFacts, StepNames DEF DropBuilt, In, Goes, CanWrite
  <1>27. CASE DropInfo(c)
    BY <1>0, <1>27, DropInfoMoves DEF Goes, Leaves, Idle, DropInfo, mapLocks
  <1>28. CASE Remove(c)
    BY <1>0, <1>28, LeavesFacts DEF Remove, In, Idle, Leaves, Finish, mapLocks
  <1>29. CASE Build(c)
    BY <1>0, <1>29, GotoFacts, StepNames DEF Build, In, Goes, mapLocks
  <1>30. CASE BuildEnds(c)
    BY <1>0, <1>30, BuildEndsMoves DEF Goes, Leaves, Idle, BuildEnds, mapLocks
  <1>31. CASE AddInfo(c)
    BY <1>0, <1>31, LeavesFacts DEF AddInfo, In, Idle, Leaves, Finish, mapLocks
  <1>32. CASE Copy(c)
    BY <1>0, <1>32, GotoFacts, StepNames DEF Copy, In, Goes, mapLocks
  <1>33. CASE FindInfo(c)
    <2>1. dmLock' = dmLock
      BY <1>33 DEF FindInfo, mapLocks
    <2>2. ~HoldsMap(c) /\ ~HoldsMap(c)'
      BY <1>0, <1>33, FindInfoMoves DEF Goes, Leaves, Idle
    <2>3. QED BY <2>1, <2>2
  <1>34. CASE RemoveFiles(c)
    BY <1>0, <1>34, GotoFacts, StepNames DEF RemoveFiles, In, Goes, mapLocks
  <1>35. CASE CopyBack(c)
    BY <1>0, <1>35, GotoFacts, StepNames, LeavesFacts DEF CopyBack, In, Goes, Leaves,
       Idle, mapLocks
  <1>36. CASE MoveFiles(c)
    BY <1>0, <1>36, LeavesFacts DEF MoveFiles, In, Idle, Leaves, Finish, mapLocks
  <1>37. CASE Show(c)
    BY <1>0, <1>37, GotoFacts, StepNames DEF Show, In, Goes, mapLocks
  <1>38. CASE ShowDb(c)
    BY <1>0, <1>38, LeavesFacts DEF ShowDb, In, Idle, Leaves, Finish, mapLocks
  <1>39. CASE Begin(c)
    BY <1>0, <1>39, GotoFacts, StepNames DEF Begin, In, Goes, mapLocks
  <1>40. CASE AddTransaction(c)
    BY <1>0, <1>40, LeavesFacts DEF AddTransaction, In, Idle, Leaves, Finish, mapLocks
  <1>41. CASE Refused(c)
    BY <1>0, <1>41, LeavesFacts DEF Refused, In, Idle, Leaves, Finish, mapLocks
  <1>42. CASE Query(c)
    BY <1>0, <1>42, GotoFacts, StepNames DEF Query, In, Goes, mapLocks
  <1>43. CASE QueryEnds(c)
    BY <1>0, <1>43, LeavesFacts DEF QueryEnds, In, Idle, Leaves, mapLocks
  <1>44. CASE End(c)
    BY <1>0, <1>44, GotoFacts, StepNames DEF End, In, Goes, mapLocks
  <1>45. CASE Ending(c)
    BY <1>0, <1>45, LeavesFacts DEF Ending, In, Idle, Leaves, mapLocks
  <1> QED BY <1>1, <1>2, <1>3, <1>4, <1>5, <1>6, <1>7, <1>8, <1>9, <1>10, <1>11,
         <1>12, <1>13, <1>14, <1>15, <1>16, <1>17, <1>18, <1>19, <1>20, <1>21,
         <1>22, <1>23, <1>24, <1>25, <1>26, <1>27, <1>28, <1>29, <1>30, <1>31,
         <1>32, <1>33, <1>34, <1>35, <1>36, <1>37, <1>38, <1>39, <1>40, <1>41,
         <1>42, <1>43, <1>44, <1>45 DEF Serve

\* Each step of a handler is the step of one place.
LEMMA StepAt ==
    ASSUME NEW c \in Clients, Serve(c)
    PROVE  /\ at[c].pc = "checkexist" => CheckExist(c)
           /\ at[c].pc = "checkload" => CheckLoad(c)
           /\ at[c].pc = "getdb" => GetDb(c)
           /\ at[c].pc = "getinfo" => GetInfo(c)
           /\ at[c].pc = "getman" => GetMan(c)
           /\ at[c].pc = "lockinfo" => LockShared(c) \/ LockExclusive(c) \/ LockFails(c)
           /\ at[c].pc = "use" => Use(c)
           /\ at[c].pc = "used" => Used(c)
           /\ at[c].pc = "unlockinfo" => UnlockInfo(c)
           /\ at[c].pc = "trymap" => TryMap(c)
           /\ at[c].pc = "loading" => Loading(c)
           /\ at[c].pc = "addman" => AddManager(c)
           /\ at[c].pc = "adddb" => AddDb(c)
           /\ at[c].pc = "unmap" => Unmap(c)
           /\ at[c].pc = "findman" => FindMan(c)
           /\ at[c].pc = "eraseman" => EraseMan(c)
           /\ at[c].pc = "abortall" => AbortAll(c)
           /\ at[c].pc = "delete" => Delete(c)
           /\ at[c].pc = "waitckpt" => WaitCheckpoint(c)
           /\ at[c].pc = "merge" => Merge(c)
           /\ at[c].pc = "save" => Save(c)
           /\ at[c].pc = "saved" => Saved(c)
           /\ at[c].pc = "dropmap" => DropMap(c)
           /\ at[c].pc = "dropbuilt" => DropBuilt(c)
           /\ at[c].pc = "dropinfo" => DropInfo(c)
           /\ at[c].pc = "rm" => Remove(c)
           /\ at[c].pc = "build" => Build(c)
           /\ at[c].pc = "building" => BuildEnds(c)
           /\ at[c].pc = "addinfo" => AddInfo(c)
           /\ at[c].pc = "copy" => Copy(c)
           /\ at[c].pc = "findinfo" => FindInfo(c)
           /\ at[c].pc = "rmfiles" => RemoveFiles(c)
           /\ at[c].pc = "copyback" => CopyBack(c)
           /\ at[c].pc = "mvfiles" => MoveFiles(c)
           /\ at[c].pc = "show" => Show(c)
           /\ at[c].pc = "showdb" => ShowDb(c)
           /\ at[c].pc = "begin" => Begin(c)
           /\ at[c].pc = "addtxn" => AddTransaction(c)
           /\ at[c].pc = "end" => Refused(c) \/ End(c)
           /\ at[c].pc = "tquery" => Refused(c) \/ Query(c)
           /\ at[c].pc = "tqueried" => QueryEnds(c)
           /\ at[c].pc = "ending" => Ending(c)
  <1>1. CASE CheckExist(c) \/ CheckLoad(c) \/ GetDb(c) \/ GetInfo(c)
             \/ GetMan(c) \/ LockShared(c) \/ LockExclusive(c) \/ LockFails(c)
    BY <1>1 DEF CheckExist, CheckLoad, GetDb, GetInfo, GetMan, LockShared, LockExclusive,
       LockFails, In, ReachesInfo
  <1>2. CASE Use(c) \/ Used(c) \/ UnlockInfo(c) \/ TryMap(c) \/ Loading(c)
             \/ AddManager(c) \/ AddDb(c) \/ Unmap(c)
    BY <1>2 DEF Use, Used, UnlockInfo, TryMap, Loading, AddManager, AddDb, Unmap, In
  <1>3. CASE FindMan(c) \/ EraseMan(c) \/ AbortAll(c) \/ Delete(c)
             \/ WaitCheckpoint(c) \/ Merge(c) \/ Save(c) \/ Saved(c)
    BY <1>3 DEF FindMan, EraseMan, AbortAll, Delete, WaitCheckpoint, Merge, Save, Saved, In
  <1>4. CASE DropMap(c) \/ DropBuilt(c) \/ DropInfo(c) \/ Remove(c)
             \/ Build(c) \/ BuildEnds(c) \/ AddInfo(c) \/ Copy(c)
    BY <1>4 DEF DropMap, DropBuilt, DropInfo, Remove, Build, BuildEnds, AddInfo, Copy, In
  <1>5. CASE FindInfo(c) \/ RemoveFiles(c) \/ CopyBack(c) \/ MoveFiles(c)
             \/ Show(c) \/ ShowDb(c) \/ Begin(c) \/ AddTransaction(c)
    BY <1>5 DEF FindInfo, RemoveFiles, CopyBack, MoveFiles, Show, ShowDb, Begin, AddTransaction,
       In
  <1>6. CASE Refused(c) \/ Query(c) \/ QueryEnds(c) \/ End(c) \/ Ending(c)
    BY <1>6 DEF Refused, Query, QueryEnds, End, Ending, In
  <1> QED BY <1>1, <1>2, <1>3, <1>4, <1>5, <1>6 DEF Serve

\* Only show takes already_build_map_lock over a step, and gives it back.
LEMMA ShowStep ==
    ASSUME NEW c \in Clients, Shape, Serve(c)
    PROVE  \/ abLock' = abLock /\ at[c].pc # "showdb" /\ at'[c].pc # "showdb"
           \/ abLock.wr = NoOne /\ abLock' = Read(abLock, c) /\ at'[c].pc = "showdb"
           \/ abLock' = Unlocked(abLock, c) /\ at[c].pc = "showdb" /\ at'[c].pc # "showdb"
  <1>0. /\ at \in [Clients -> Handler] /\ at[c].pc \in Steps /\ at[c].pc # "idle"
        /\ ServesKind(at[c].pc, at[c].req)
        /\ at'[c].pc # "idle" => ServesKind(at'[c].pc, at[c].req)
    <2>1. at \in [Clients -> Handler] /\ ServesKind(at[c].pc, at[c].req)
      BY DEF Shape, Types, Placed, Req
    <2>2. at[c].pc \in Steps
      BY <2>1 DEF Handler
    <2>3. at'[c].pc # "idle" => ServesKind(at'[c].pc, at[c].req)
      BY Frame DEF Idle
    <2>4. at[c].pc # "idle"
      BY Frame
    <2>5. QED BY <2>1, <2>2, <2>3, <2>4
  <1>1. CASE at[c].pc = "show"
    BY <1>0, <1>1, StepAt, GotoFacts, StepNames DEF Show, Goes, CanRead
  <1>2. CASE at[c].pc = "showdb"
    <2>1. at' = [at EXCEPT ![c] = Idle] /\ abLock' = Unlocked(abLock, c)
      BY <1>2, StepAt DEF ShowDb, Finish
    <2>2. at'[c].pc = "idle"
      BY <1>0, <2>1 DEF Idle
    <2>3. QED BY <1>2, <2>1, <2>2
  <1>3. CASE at[c].pc \notin {"show", "showdb"}
    <2>1. at[c].req # "show"
      BY <1>0, <1>3 DEF ServesKind, Steps
    <2>2. at'[c].pc # "showdb"
      BY <1>0, <2>1 DEF ServesKind
    <2>3. abLock' = abLock
      BY <1>3, BuildLockStep DEF Show, ShowDb, In
    <2>4. QED BY <1>3, <2>2, <2>3
  <1>4. QED BY <1>1, <1>2, <1>3

\* One handler at most is at a step that holds databases_map_lock.
LEMMA OneHoldsMap ==
    ASSUME MapLocksInv, NEW c \in Clients, NEW d \in Clients, HoldsMap(c), HoldsMap(d)
    PROVE  c = d
  BY DEF MapLocksInv

\* unload finds the manager of the Database it found loaded.
LEMMA FindManHas ==
    ASSUME MapLocksInv, MapsInv, NEW c \in Clients, at[c].pc \in {"findman", "eraseman"}
    PROVE  loaded # 0 /\ managers = loaded
  <1>1. loaded # 0 /\ HoldsMap(c)
    BY DEF MapsInv, HoldsMap
  <1>2. \A d \in Clients : Unloading(d) => HoldsMap(d)
    BY DEF Unloading, HoldsMap
  <1>3. ~Unloading(c)
    BY DEF Unloading
  <1>4. QED BY <1>1, <1>2, <1>3, OneHoldsMap DEF MapsInv

\* MapLocksInv is inductive.
LEMMA MapLocksStep ==
    ASSUME Polite, Shape, MapLocksInv, MapsInv, [Next]_vars
    PROVE  MapLocksInv'
  <1>1. ASSUME NEW c \in Clients, Serve(c) PROVE MapLocksInv'
    <2>0. abLock \in Lock /\ dmLock \in Lock /\ NoOne \notin Clients
      BY ServerAssumption DEF Shape, Types
    <2>1. \A d \in Clients \ {c} : /\ HoldsMap(d)' <=> HoldsMap(d)
                                   /\ at'[d].pc = at[d].pc
      BY <1>1, Frame DEF HoldsMap, Req
    <2>2. at[c].pc = "findman" => managers # 0
      BY FindManHas
    <2>3. \/ dmLock' = dmLock /\ (HoldsMap(c)' <=> HoldsMap(c))
          \/ dmLock = Free /\ dmLock' = Write(dmLock, c) /\ HoldsMap(c)'
          \/ dmLock' = Unlocked(dmLock, c) /\ HoldsMap(c) /\ ~HoldsMap(c)'
      BY <1>1, <2>2, HoldsMapStep
    <2>4. dmLock'.rd = {} /\ \A d \in Clients : dmLock'.wr = d <=> HoldsMap(d)'
      BY <2>0, <2>1, <2>3 DEF MapLocksInv, Write, Unlocked, Free, Lock
    <2>5. \/ abLock' = abLock /\ at[c].pc # "showdb" /\ at'[c].pc # "showdb"
          \/ abLock.wr = NoOne /\ abLock' = Read(abLock, c) /\ at'[c].pc = "showdb"
          \/ abLock' = Unlocked(abLock, c) /\ at[c].pc = "showdb" /\ at'[c].pc # "showdb"
      BY <1>1, ShowStep
    <2>6. abLock'.wr = NoOne /\ \A d \in Clients : d \in abLock'.rd <=> at'[d].pc = "showdb"
      BY <2>0, <2>1, <2>5 DEF MapLocksInv, Read, Unlocked, Lock
    <2>7. QED BY <2>4, <2>6 DEF MapLocksInv
  <1>2. ASSUME NEW c \in Clients, NEW k \in Requests, Request(c, k) PROVE MapLocksInv'
    <2>1. ~HoldsMap(c) /\ ~HoldsMap(c)' /\ at[c].pc # "showdb" /\ at'[c].pc # "showdb"
      BY <1>2, RequestFrame DEF HoldsMap, Idle
    <2>2. \A d \in Clients \ {c} : /\ HoldsMap(d)' <=> HoldsMap(d)
                                   /\ at'[d].pc = at[d].pc
      BY <1>2, RequestFrame DEF HoldsMap, Req
    <2>3. dmLock' = dmLock /\ abLock' = abLock
      BY <1>2 DEF Request, mapLocks
    <2>4. QED BY <2>1, <2>2, <2>3 DEF MapLocksInv
  <1>3. CASE UNCHANGED vars
    BY <1>3 DEF vars, mapLocks, MapLocksInv, HoldsMap, Req
  <1>4. QED BY <1>1, <1>2, <1>3 DEF Next

\* The way of an unload.
LEMMA UnloadStep ==
    ASSUME Polite, NEW c \in Clients, Shape, Serve(c), Req(c) = "unload"
    PROVE  \/ /\ at'[c] = Idle
              /\ at[c].pc \notin {"eraseman", "abortall", "waitckpt", "merge", "delete"}
           \/ /\ at[c].pc \in {"checkexist", "checkload", "getinfo", "lockinfo"}
              /\ at'[c].pc \in {"checkload", "getinfo", "lockinfo", "unmap"}
              /\ at'[c].man = at[c].man
           \/ /\ Unmap(c) /\ loaded # 0 /\ at[c].pc = "unmap"
              /\ at'[c].pc = "findman" /\ at'[c].man = at[c].man
           \/ /\ FindMan(c) /\ managers # 0 /\ at[c].pc = "findman"
              /\ at'[c].pc = "eraseman" /\ at'[c].man = at[c].man
           \/ /\ EraseMan(c) /\ at[c].pc = "eraseman"
              /\ at'[c].pc = (IF managers = 0 THEN "delete" ELSE "abortall")
              /\ at'[c].man = managers
           \/ /\ at[c].pc \in {"abortall", "waitckpt", "merge"}
              /\ at'[c].pc \in {"waitckpt", "merge", "delete"} /\ at'[c].man = at[c].man
           \/ Delete(c) /\ at[c].pc = "delete" /\ at'[c].pc = "unlockinfo" /\ at'[c].man = 0
  <1>0. /\ at \in [Clients -> Handler] /\ ServesKind(at[c].pc, at[c].req)
        /\ built \in Nat /\ loaded \in Nat /\ managers \in Nat /\ Len(mgr) \in Nat
        /\ at[c].req = "unload" /\ at[c].pc # "idle"
        /\ at'[c] = Idle \/ ServesKind(at'[c].pc, at[c].req)
    BY Frame, LenFacts DEF Shape, Placed, Req
  <1>1. at[c].pc \in {"checkexist", "checkload", "getinfo", "lockinfo", "unmap", "findman", "eraseman", "abortall", "waitckpt", "merge", "delete", "unlockinfo"}
    <2>1. at[c].pc \in Steps
      BY <1>0 DEF Handler
    <2>2. QED BY <1>0, <2>1 DEF ServesKind, Steps
  <1>2. CASE at[c].pc = "checkexist"
    BY <1>0, <1>2, StepAt, CheckExistMoves DEF Goes, Leaves, ServesKind
  <1>3. CASE at[c].pc = "checkload"
    BY <1>0, <1>3, StepAt, CheckLoadMoves DEF Goes, Leaves, ServesKind
  <1>4. CASE at[c].pc = "getinfo"
    BY <1>0, <1>4, StepAt, GetInfoMoves DEF Goes
  <1>5. CASE at[c].pc = "lockinfo"
    <2>1. ~LockShared(c)
      BY <1>0 DEF LockShared, Req
    <2>2. CASE LockExclusive(c)
      <3>1. PICK s \in {"trymap", "unmap", "dropmap", "getman", "use", "copy", "rmfiles"} :
              /\ Goes(c, s, at[c].db, InfoOf(c), at[c].man) /\ ServesKind(s, at[c].req)
              /\ s = "use" => at[c].req = "batch"
              /\ s = "getman" => at[c].req = "checkpoint"
        BY <1>0, <2>2, LockExclusiveMoves
      <3>2. s = "unmap"
        BY <1>0, <3>1 DEF ServesKind
      <3>3. QED BY <1>5, <3>1, <3>2 DEF Goes
    <2>3. CASE LockFails(c)
      <3>1. at'[c] = Idle
        BY <1>0, <2>3 DEF LockFails
      <3>2. QED BY <1>5, <3>1
    <2>4. QED BY <1>5, <2>1, <2>2, <2>3, StepAt
  <1>6. CASE at[c].pc = "unmap"
    BY <1>0, <1>6, StepAt, GotoFacts, LeavesFacts, StepNames DEF Unmap, Goes, Leaves
  <1>7. CASE at[c].pc = "findman"
    BY <1>0, <1>7, StepAt, GotoFacts, LeavesFacts, StepNames DEF FindMan, Goes, Leaves
  <1>8. CASE at[c].pc = "eraseman"
    BY <1>0, <1>8, StepAt, EraseManMoves DEF Goes
  <1>9. CASE at[c].pc = "abortall"
    BY <1>0, <1>9, StepAt, GotoFacts, StepNames DEF AbortAll, Goes
  <1>10. CASE at[c].pc = "waitckpt"
    BY <1>0, <1>10, StepAt, GotoFacts, StepNames DEF WaitCheckpoint, Goes
  <1>11. CASE at[c].pc = "merge"
    BY <1>0, <1>11, StepAt, GotoFacts, StepNames DEF Merge, Goes, Req
  <1>12. CASE at[c].pc = "delete"
    BY <1>0, <1>12, StepAt, DeleteMoves DEF Goes
  <1>13. CASE at[c].pc = "unlockinfo"
    BY <1>0, <1>13, StepAt, UnlockInfoMoves DEF Leaves, Req
  <1> QED BY <1>1, <1>2, <1>3, <1>4, <1>5, <1>6, <1>7, <1>8, <1>9, <1>10, <1>11,
         <1>12, <1>13

\* The way of a load.
LEMMA LoadStep ==
    ASSUME Polite, NEW c \in Clients, Shape, Serve(c), Req(c) = "load"
    PROVE  \/ at'[c] = Idle
           \/ /\ at[c].pc \in {"checkexist", "checkload", "lockinfo", "trymap"}
              /\ at'[c].pc \in {"checkload", "lockinfo", "trymap", "loading"}
           \/ Loading(c) /\ at'[c].pc = "addman" /\ at'[c].db = Len(mgr) + 1
           \/ /\ AddManager(c) /\ at[c].pc = "addman"
              /\ at'[c].pc = "adddb" /\ at'[c].db = at[c].db
           \/ AddDb(c) /\ at[c].pc = "adddb" /\ at'[c].pc = "unlockinfo"
  <1>0. /\ at \in [Clients -> Handler] /\ ServesKind(at[c].pc, at[c].req)
        /\ built \in Nat /\ loaded \in Nat /\ managers \in Nat /\ Len(mgr) \in Nat
        /\ at[c].req = "load" /\ at[c].pc # "idle"
        /\ at'[c] = Idle \/ ServesKind(at'[c].pc, at[c].req)
    BY Frame, LenFacts DEF Shape, Placed, Req
  <1>1. at[c].pc \in {"checkexist", "checkload", "lockinfo", "trymap", "loading", "addman", "adddb", "unlockinfo"}
    <2>1. at[c].pc \in Steps
      BY <1>0 DEF Handler
    <2>2. QED BY <1>0, <2>1 DEF ServesKind, Steps
  <1>2. CASE at[c].pc = "checkexist"
    BY <1>0, <1>2, StepAt, CheckExistMoves DEF Goes, Leaves, ServesKind
  <1>3. CASE at[c].pc = "checkload"
    BY <1>0, <1>3, StepAt, CheckLoadMoves DEF Goes, Leaves, ServesKind
  <1>4. CASE at[c].pc = "lockinfo"
    <2>1. ~LockShared(c)
      BY <1>0 DEF LockShared, Req
    <2>2. CASE LockExclusive(c)
      <3>1. PICK s \in {"trymap", "unmap", "dropmap", "getman", "use", "copy", "rmfiles"} :
              /\ Goes(c, s, at[c].db, InfoOf(c), at[c].man) /\ ServesKind(s, at[c].req)
              /\ s = "use" => at[c].req = "batch"
              /\ s = "getman" => at[c].req = "checkpoint"
        BY <1>0, <2>2, LockExclusiveMoves
      <3>2. s = "trymap"
        BY <1>0, <3>1 DEF ServesKind
      <3>3. QED BY <1>4, <3>1, <3>2 DEF Goes
    <2>3. CASE LockFails(c)
      <3>1. at'[c] = Idle
        BY <1>0, <2>3 DEF LockFails
      <3>2. QED BY <3>1
    <2>4. QED BY <1>4, <2>1, <2>2, <2>3, StepAt
  <1>5. CASE at[c].pc = "trymap"
    BY <1>0, <1>5, StepAt, GotoFacts, LeavesFacts, StepNames DEF TryMap, Goes, Leaves
  <1>6. CASE at[c].pc = "loading"
    BY <1>0, <1>6, StepAt, LoadingMoves DEF Goes
  <1>7. CASE at[c].pc = "addman"
    BY <1>0, <1>7, StepAt, GotoFacts, StepNames DEF AddManager, Goes, Polite
  <1>8. CASE at[c].pc = "adddb"
    BY <1>0, <1>8, StepAt, GotoFacts, StepNames DEF AddDb, Goes
  <1>9. CASE at[c].pc = "unlockinfo"
    BY <1>0, <1>9, StepAt, UnlockInfoMoves DEF Leaves, Req
  <1> QED BY <1>1, <1>2, <1>3, <1>4, <1>5, <1>6, <1>7, <1>8, <1>9

\* The handlers of the other clients see the same maps, or none of those that
\* the maps' invariant speaks of is where it would matter.
LEMMA MapsOthers ==
    ASSUME Polite, Shape, ApartInv, MapLocksInv, MapsInv,
           NEW c \in Clients, Serve(c), NEW d \in Clients \ {c}
    PROVE  /\ at[d].pc \in {"findman", "eraseman"} => loaded' # 0
           /\ Unloading(d) => loaded' # 0 /\ managers' = 0 /\ at[d].man = loaded'
           /\ at[d].pc \in {"addman", "adddb"} => at[d].db \notin deleted' \cup {0, loaded'}
           /\ at[d].pc = "adddb" /\ loaded' = 0 => managers' = at[d].db
           /\ Req(d) = "load" /\ at[d].pc # "idle" => managers' \notin deleted'
  <1>0. /\ at[d].pc \in {"findman", "eraseman"} => loaded # 0
        /\ Unloading(d) => loaded # 0 /\ managers = 0 /\ at[d].man = loaded
        /\ at[d].pc \in {"addman", "adddb"} => at[d].db \notin deleted \cup {0, loaded}
        /\ at[d].pc = "adddb" /\ loaded = 0 => managers = at[d].db
        /\ Req(d) = "load" /\ at[d].pc # "idle" => managers \notin deleted
        /\ deleted \subseteq 1..Len(mgr) /\ managers \in 0..Len(mgr)
    BY DEF MapsInv, Shape, Types
  <1>1. HoldsMap(c) => /\ at[d].pc \notin {"findman", "eraseman", "addman", "adddb"}
                       /\ ~Unloading(d)
    BY OneHoldsMap DEF HoldsMap, Unloading
  <1>2. CASE loaded' = loaded /\ deleted' = deleted /\ managers' = managers
    BY <1>0, <1>2
  <1>3. CASE AddDb(c)
    <2>1. HoldsMap(c) /\ managers' = managers /\ deleted' = deleted
      BY <1>3 DEF AddDb, In, HoldsMap, mans
    <2>2. QED BY <1>0, <1>1, <2>1
  <1>4. CASE Delete(c)
    <2>1. HoldsMap(c) /\ managers' = managers /\ deleted' = deleted \cup {loaded}
      BY <1>4 DEF Delete, In, HoldsMap
    <2>2. managers = 0 /\ loaded # 0
      BY <1>4 DEF MapsInv, Unloading, Delete, In, Shape, Placed, ServesKind
    <2>3. QED BY <1>0, <1>1, <2>1, <2>2
  <1>5. CASE DropMap(c) /\ loaded # 0
    <2>1. dmLock.wr = NoOne
      BY <1>5 DEF DropMap, CanWrite, Free
    <2>2. ~HoldsMap(d)
      BY <2>1, ServerAssumption DEF MapLocksInv
    <2>3. Req(c) = "drop" /\ at[c].pc # "idle"
      BY <1>5 DEF DropMap, In, Shape, Placed, ServesKind
    <2>4. Req(d) = "load" => at[d].pc = "idle"
      BY <2>3 DEF ApartInv, Polite, Kinds
    <2>5. QED BY <2>2, <2>4 DEF HoldsMap, Unloading
  <1>6. CASE AddManager(c)
    <2>1. HoldsMap(c) /\ loaded' = loaded /\ deleted' = deleted
      BY <1>6 DEF AddManager, In, HoldsMap, dbs
    <2>2. at[c].db \notin deleted
      BY <1>6 DEF AddManager, In, MapsInv
    <2>3. managers' \in {managers, at[c].db}
      BY <1>6 DEF AddManager
    <2>4. QED BY <1>0, <1>1, <2>1, <2>2, <2>3
  <1>7. CASE EraseMan(c)
    <2>1. HoldsMap(c) /\ loaded' = loaded /\ deleted' = deleted /\ managers' = 0
      BY <1>7 DEF EraseMan, In, HoldsMap, dbs
    <2>2. 0 \notin deleted
      BY <1>0
    <2>3. QED BY <1>0, <1>1, <2>1, <2>2
  <1>8. QED
    <2>1. CASE AddManager(c) \/ EraseMan(c)
      BY <1>6, <1>7, <2>1
    <2>2. CASE managers' = managers
      BY <1>2, <1>3, <1>4, <1>5, <2>2, LoadedStep
    <2>3. QED BY <2>1, <2>2, ManagersStep

\* A handler that has unloaded finds what it looked up, a handler that loads
\* too.
LEMMA MapsOwn ==
    ASSUME Polite, Shape, MapLocksInv, MapsInv, NEW c \in Clients, Serve(c)
    PROVE  /\ at'[c].pc \in {"findman", "eraseman"} => loaded' # 0
           /\ Unloading(c)' => loaded' # 0 /\ managers' = 0 /\ at'[c].man = loaded'
           /\ Req(c)' = "unload" /\ at'[c].man # 0 => Unloading(c)'
           /\ at'[c].pc \in {"addman", "adddb"} => at'[c].db \notin deleted' \cup {0, loaded'}
           /\ at'[c].pc = "adddb" /\ loaded' = 0 => managers' = at'[c].db
           /\ Req(c)' = "load" /\ at'[c].pc # "idle" => managers' \notin deleted'
  <1>0. /\ at'[c] = Idle \/ (at'[c].req = at[c].req /\ ServesKind(at'[c].pc, at[c].req))
        /\ at[c].pc # "idle"
        /\ deleted \subseteq 1..Len(mgr) /\ managers \in 0..Len(mgr) /\ loaded \in 0..Len(mgr)
        /\ Len(mgr) \in Nat
    BY Frame, LenFacts DEF MapsInv, Shape, Types
  <1>1. CASE at'[c] = Idle
    BY <1>1 DEF Idle, Unloading, Req
  <1>2. CASE at'[c] # Idle /\ Req(c) \notin {"load", "unload"}
    BY <1>0, <1>2 DEF ServesKind, Unloading, Req
  <1>3. CASE at'[c] # Idle /\ Req(c) = "unload"
    <2>0. /\ Req(c)' = "unload"
          /\ at[c].man # 0 => Unloading(c)
          /\ at[c].pc \in {"findman", "eraseman"} => loaded # 0
          /\ Unloading(c) => loaded # 0 /\ managers = 0 /\ at[c].man = loaded
      BY <1>0, <1>3 DEF Req, MapsInv
    <2>1. at'[c].pc \notin {"addman", "adddb"}
      BY <1>0, <1>3 DEF ServesKind, Req
    <2>2. CASE /\ at[c].pc \in {"checkexist", "checkload", "getinfo", "lockinfo"}
               /\ at'[c].pc \in {"checkload", "getinfo", "lockinfo", "unmap"}
               /\ at'[c].man = at[c].man
      BY <2>0, <2>1, <2>2 DEF Unloading
    <2>3. CASE /\ Unmap(c) /\ loaded # 0 /\ at[c].pc = "unmap"
               /\ at'[c].pc = "findman" /\ at'[c].man = at[c].man
      <3>1. loaded' = loaded
        BY <2>3 DEF Unmap, dbs
      <3>2. QED BY <2>0, <2>1, <2>3, <3>1 DEF Unloading
    <2>4. CASE /\ FindMan(c) /\ managers # 0 /\ at[c].pc = "findman"
               /\ at'[c].pc = "eraseman" /\ at'[c].man = at[c].man
      <3>1. loaded' = loaded
        BY <2>4 DEF FindMan, dbs
      <3>2. QED BY <2>0, <2>1, <2>4, <3>1 DEF Unloading
    <2>5. CASE /\ EraseMan(c) /\ at[c].pc = "eraseman"
               /\ at'[c].pc = (IF managers = 0 THEN "delete" ELSE "abortall")
               /\ at'[c].man = managers
      <3>1. loaded' = loaded /\ managers' = 0
        BY <2>5 DEF EraseMan, dbs
      <3>2. loaded # 0 /\ managers = loaded
        BY <2>5, FindManHas
      <3>3. QED BY <2>0, <2>1, <2>5, <3>1, <3>2 DEF Unloading, Req
    <2>6. CASE /\ at[c].pc \in {"abortall", "waitckpt", "merge"}
               /\ at'[c].pc \in {"waitckpt", "merge", "delete"} /\ at'[c].man = at[c].man
      <3>1. Unloading(c) /\ Unloading(c)'
        BY <1>3, <2>0, <2>6 DEF Unloading
      <3>2. loaded' = loaded /\ managers' = managers
        BY <2>6, LoadedStep, ManagersStep DEF AddDb, Delete, DropMap, AddManager, EraseMan, In
      <3>3. QED BY <2>0, <2>1, <2>6, <3>1, <3>2
    <2>7. CASE Delete(c) /\ at[c].pc = "delete" /\ at'[c].pc = "unlockinfo" /\ at'[c].man = 0
      BY <2>0, <2>1, <2>7 DEF Unloading
    <2>8. QED BY <1>3, <2>2, <2>3, <2>4, <2>5, <2>6, <2>7, UnloadStep
  <1>4. CASE at'[c] # Idle /\ Req(c) = "load"
    <2>0. /\ Req(c)' = "load" /\ managers \notin deleted
          /\ at[c].pc \in {"addman", "adddb"} => at[c].db \notin deleted \cup {0, loaded}
          /\ at[c].pc = "adddb" /\ loaded = 0 => managers = at[c].db
          /\ at'[c].pc \notin {"findman", "eraseman"} /\ ~Unloading(c)'
      BY <1>0, <1>4 DEF ServesKind, Req, MapsInv, Unloading
    <2>1. CASE /\ at[c].pc \in {"checkexist", "checkload", "lockinfo", "trymap"}
               /\ at'[c].pc \in {"checkload", "lockinfo", "trymap", "loading"}
      <3>1. loaded' = loaded /\ managers' = managers /\ deleted' = deleted
        BY <2>1, LoadedStep, ManagersStep DEF AddDb, Delete, DropMap, AddManager, EraseMan, In
      <3>2. QED BY <2>0, <2>1, <3>1
    <2>2. CASE Loading(c) /\ at'[c].pc = "addman" /\ at'[c].db = Len(mgr) + 1
      <3>1. loaded' = loaded /\ managers' = managers /\ deleted' = deleted
        BY <2>2 DEF Loading, dbs
      <3>2. Len(mgr) + 1 \notin deleted \cup {0, loaded}
        BY <1>0
      <3>3. QED BY <2>0, <2>2, <3>1, <3>2
    <2>3. CASE /\ AddManager(c) /\ at[c].pc = "addman"
               /\ at'[c].pc = "adddb" /\ at'[c].db = at[c].db
      <3>1. loaded' = loaded /\ deleted' = deleted
            /\ managers' = (IF managers = 0 THEN at[c].db ELSE managers)
        BY <2>3 DEF AddManager, dbs
      <3>2. loaded = 0 => managers = 0
        <4>1. HoldsMap(c)
          BY <2>3 DEF HoldsMap
        <4>2. \A d \in Clients : at[d].pc # "adddb"
          BY <2>3, <4>1, OneHoldsMap DEF HoldsMap
        <4>3. QED BY <2>0, <4>2 DEF MapsInv
      <3>3. QED BY <2>0, <2>3, <3>1, <3>2
    <2>4. CASE AddDb(c) /\ at[c].pc = "adddb" /\ at'[c].pc = "unlockinfo"
      <3>1. managers' = managers /\ deleted' = deleted
        BY <2>4 DEF AddDb, mans
      <3>2. QED BY <2>0, <2>4, <3>1
    <2>5. QED BY <1>4, <2>1, <2>2, <2>3, <2>4, LoadStep
  <1>5. QED BY <1>1, <1>2, <1>3, <1>4

\* A loaded Database is not deleted, and is the one its manager works on.
LEMMA MapsGlobal ==
    ASSUME Polite, Shape, MapLocksInv, MapsInv, NEW c \in Clients, Serve(c)
    PROVE  /\ loaded' \notin deleted' /\ deleted' \subseteq 1..Len(mgr')
           /\ loaded' # 0 => \/ managers' = loaded'
                             \/ managers' = 0 /\ \E d \in Clients : Unloading(d)'
           /\ loaded' = 0 => \/ managers' \in deleted' \cup {0}
                             \/ \E d \in Clients : at'[d].pc = "adddb" /\ managers' = at'[d].db
  <1>0. /\ deleted \subseteq 1..Len(mgr) /\ loaded \in 0..Len(mgr) /\ Len(mgr) \in Nat
        /\ loaded \notin deleted
        /\ Len(mgr') \in Nat /\ Len(mgr') >= Len(mgr)
        /\ loaded # 0 => \/ managers = loaded
                         \/ managers = 0 /\ \E d \in Clients : Unloading(d)
        /\ loaded = 0 => \/ managers \in deleted \cup {0}
                         \/ \E d \in Clients : at[d].pc = "adddb" /\ managers = at[d].db
    BY LenFacts, ListsStep DEF MapsInv, Shape, Types
  <1>d. 0 \notin deleted /\ deleted \subseteq 1..Len(mgr')
    BY <1>0
  <1>1. CASE AddDb(c)
    <2>1. HoldsMap(c) /\ at[c].pc = "adddb"
      BY <1>1 DEF AddDb, In, HoldsMap
    <2>2. /\ managers' = managers /\ deleted' = deleted
          /\ loaded' = (IF loaded = 0 THEN at[c].db ELSE loaded)
      BY <1>1 DEF AddDb, mans
    <2>3. \A d \in Clients : ~Unloading(d)
      BY <2>1, OneHoldsMap DEF Unloading, HoldsMap
    <2>4. /\ at[c].db \notin deleted \cup {0, loaded}
          /\ loaded = 0 => managers = at[c].db
      BY <2>1 DEF MapsInv
    <2>5. CASE loaded = 0
      BY <1>d, <2>2, <2>4, <2>5
    <2>6. CASE loaded # 0
      BY <1>0, <1>d, <2>2, <2>3, <2>6
    <2>7. QED BY <2>5, <2>6
  <1>2. CASE Delete(c)
    <2>1. /\ managers' = managers /\ deleted' = deleted \cup {loaded} /\ loaded' = 0
      BY <1>2 DEF Delete
    <2>2. managers = 0 /\ loaded # 0
      BY <1>2 DEF MapsInv, Unloading, Delete, In, Shape, Placed, ServesKind
    <2>3. deleted' \subseteq 1..Len(mgr')
      BY <1>0, <2>1, <2>2
    <2>4. QED BY <1>d, <2>1, <2>2, <2>3
  <1>3. CASE DropMap(c) /\ loaded # 0
    <2>1. dmLock.wr = NoOne
      BY <1>3 DEF DropMap, CanWrite, Free
    <2>2. \A d \in Clients : ~Unloading(d)
      BY <2>1, ServerAssumption DEF MapLocksInv, HoldsMap, Unloading
    <2>3. managers' = managers /\ deleted' = deleted \cup {loaded} /\ loaded' = 0
      BY <1>3 DEF DropMap, mans
    <2>4. deleted' \subseteq 1..Len(mgr')
      BY <1>0, <1>3, <2>3
    <2>5. QED BY <1>0, <1>d, <1>3, <2>2, <2>3, <2>4
  <1>4. CASE AddManager(c)
    <2>1. HoldsMap(c) /\ at[c].pc = "addman"
      BY <1>4 DEF AddManager, In, HoldsMap
    <2>2. /\ loaded' = loaded /\ deleted' = deleted
          /\ managers' = (IF managers = 0 THEN at[c].db ELSE managers)
      BY <1>4 DEF AddManager, dbs
    <2>3. \A d \in Clients : ~Unloading(d) /\ at[d].pc # "adddb"
      BY <2>1, OneHoldsMap DEF Unloading, HoldsMap
    <2>4. Req(c) = "load"
      BY <2>1 DEF Shape, Placed, ServesKind
    <2>5. at'[c].pc = "adddb" /\ at'[c].db = at[c].db
      <3>1. Goto(c, "adddb")
        BY <1>4 DEF AddManager, Polite
      <3>2. QED BY <3>1, GotoFacts, StepNames DEF Shape, Types, Goes
    <2>6. CASE loaded = 0
      <3>1. managers \in deleted \cup {0}
        BY <1>0, <2>3, <2>6
      <3>2. QED BY <1>d, <2>2, <2>5, <2>6, <3>1
    <2>7. CASE loaded # 0
      <3>1. managers = loaded
        BY <1>0, <2>3, <2>7
      <3>2. QED BY <1>0, <1>d, <2>2, <2>7, <3>1
    <2>8. QED BY <2>6, <2>7
  <1>5. CASE EraseMan(c)
    <2>1. loaded' = loaded /\ deleted' = deleted /\ managers' = 0
      BY <1>5 DEF EraseMan, dbs
    <2>2. loaded # 0 /\ managers = loaded
      BY <1>5, FindManHas DEF EraseMan, In
    <2>3. Unloading(c)'
      <3>1. Req(c) = "unload" /\ at[c].pc = "eraseman"
        BY <1>5 DEF EraseMan, In, Shape, Placed, ServesKind
      <3>2. Goes(c, "abortall", at[c].db, at[c].info, managers)
        BY <1>5, <2>2, EraseManMoves DEF Shape, Types
      <3>3. QED BY <3>1, <3>2 DEF Goes, Unloading, Req
    <2>4. QED BY <1>0, <1>d, <2>1, <2>2, <2>3
  <1>6. CASE loaded' = loaded /\ deleted' = deleted /\ managers' = managers /\ at[c].pc # "adddb"
    <2>1. \A d \in Clients : Unloading(d) => Unloading(d)'
      <3>1. SUFFICES ASSUME NEW d \in Clients, Unloading(d) PROVE Unloading(d)'
        OBVIOUS
      <3>2. CASE d # c
        BY <3>1, <3>2, Frame DEF Unloading, Req
      <3>3. CASE d = c
        <4>1. Req(c) = "unload" /\ at[c].pc \in {"abortall", "waitckpt", "merge", "delete"}
          BY <3>1, <3>3 DEF Unloading
        <4>2. loaded # 0
          BY <3>1 DEF MapsInv
        <4>3. ~Delete(c)
          BY <1>6, <4>2 DEF Delete
        <4>4. at'[c].pc \in {"waitckpt", "merge", "delete"}
          BY <4>1, <4>3, UnloadStep
        <4>5. Req(c)' = "unload"
          BY <4>1, <4>4, Frame DEF Idle, Req
        <4>6. QED BY <3>3, <4>4, <4>5 DEF Unloading
      <3>4. QED BY <3>2, <3>3
    <2>2. \A d \in Clients : at[d].pc = "adddb" => at'[d] = at[d]
      BY <1>6, Frame
    <2>3. CASE loaded = 0
      BY <1>0, <1>6, <1>d, <2>2, <2>3
    <2>4. CASE loaded # 0
      BY <1>0, <1>6, <1>d, <2>1, <2>4
    <2>5. QED BY <2>3, <2>4
  <1>7. QED
    <2>1. CASE AddManager(c) \/ EraseMan(c)
      BY <1>4, <1>5, <2>1
    <2>2. CASE managers' = managers
      <3>1. at[c].pc = "adddb" => AddDb(c)
        BY StepAt
      <3>2. QED BY <1>1, <1>2, <1>3, <1>6, <2>2, <3>1, LoadedStep
    <2>3. QED BY <2>1, <2>2, ManagersStep

\* The maps are empty at first.
LEMMA MapsInit == Init => MapLocksInv /\ MapsInv
  BY EmptySeq, ServerAssumption DEF Init, MapLocksInv, MapsInv, HoldsMap, Unloading, Idle, Free, Req

\* A request that is received finds no handler at work for its client.
LEMMA MapsRequest ==
    ASSUME Polite, Shape, MapsInv, NEW c \in Clients, NEW k \in Requests, Request(c, k)
    PROVE  MapsInv'
  <1>1. /\ loaded' = loaded /\ deleted' = deleted /\ managers' = managers /\ mgr' = mgr
        /\ k = "load" => managers \notin deleted
    BY DEF Request, MaySend, Polite, dbs, mans
  <1>2. /\ at[c].pc = "idle" /\ at'[c].req = k /\ at'[c].man = 0
        /\ at'[c].pc \in {"show", "findinfo", "getdb", "checkexist"}
        /\ \A d \in Clients \ {c} : at'[d] = at[d]
    BY RequestFrame DEF Idle
  <1>3. /\ \A d \in Clients : Unloading(d)' <=> Unloading(d)
        /\ \A d \in Clients : at'[d].pc = "adddb" <=> at[d].pc = "adddb"
    BY <1>2 DEF Unloading, Req
  <1>4. /\ loaded' \notin deleted' /\ deleted' \subseteq 1..Len(mgr')
        /\ loaded' # 0 => \/ managers' = loaded'
                          \/ managers' = 0 /\ \E d \in Clients : Unloading(d)'
    BY <1>1, <1>3 DEF MapsInv
  <1>5. loaded' = 0 => \/ managers' \in deleted' \cup {0}
                       \/ \E d \in Clients : at'[d].pc = "adddb" /\ managers' = at'[d].db
    BY <1>1, <1>2, <1>3 DEF MapsInv
  <1>6. ASSUME NEW d \in Clients
        PROVE  /\ at'[d].pc \in {"findman", "eraseman"} => loaded' # 0
               /\ Unloading(d)' => loaded' # 0 /\ managers' = 0 /\ at'[d].man = loaded'
               /\ Req(d)' = "unload" /\ at'[d].man # 0 => Unloading(d)'
               /\ at'[d].pc \in {"addman", "adddb"} => at'[d].db \notin deleted' \cup {0, loaded'}
               /\ at'[d].pc = "adddb" /\ loaded' = 0 => managers' = at'[d].db
               /\ Req(d)' = "load" /\ at'[d].pc # "idle" => managers' \notin deleted'
    <2>1. CASE d = c
      BY <1>1, <1>2, <2>1 DEF Unloading, Req
    <2>2. CASE d # c
      BY <1>1, <1>2, <1>3, <2>2 DEF MapsInv, Req
    <2>3. QED BY <2>1, <2>2
  <1>7. QED BY <1>4, <1>5, <1>6 DEF MapsInv

\* Maps is inductive.
LEMMA MapsStep ==
    ASSUME Polite, Shape, ApartInv, MapLocksInv, MapsInv, [Next]_vars
    PROVE  MapsInv'
  <1>1. ASSUME NEW c \in Clients, Serve(c) PROVE MapsInv'
    <2>1. /\ loaded' \notin deleted' /\ deleted' \subseteq 1..Len(mgr')
          /\ loaded' # 0 => \/ managers' = loaded'
                            \/ managers' = 0 /\ \E d \in Clients : Unloading(d)'
          /\ loaded' = 0 => \/ managers' \in deleted' \cup {0}
                            \/ \E d \in Clients : at'[d].pc = "adddb" /\ managers' = at'[d].db
      BY <1>1, MapsGlobal
    <2>2. ASSUME NEW d \in Clients
          PROVE  /\ at'[d].pc \in {"findman", "eraseman"} => loaded' # 0
                 /\ Unloading(d)' => loaded' # 0 /\ managers' = 0 /\ at'[d].man = loaded'
                 /\ Req(d)' = "unload" /\ at'[d].man # 0 => Unloading(d)'
                 /\ at'[d].pc \in {"addman", "adddb"}
                      => at'[d].db \notin deleted' \cup {0, loaded'}
                 /\ at'[d].pc = "adddb" /\ loaded' = 0 => managers' = at'[d].db
                 /\ Req(d)' = "load" /\ at'[d].pc # "idle" => managers' \notin deleted'
      <3>1. CASE d = c
        BY <1>1, <3>1, MapsOwn
      <3>2. CASE d # c
        <4>1. at'[d] = at[d] /\ (Unloading(d)' <=> Unloading(d)) /\ Req(d)' = Req(d)
          BY <1>1, <3>2, Frame DEF Unloading, Req
        <4>2. Req(d) = "unload" /\ at[d].man # 0 => Unloading(d)
          BY DEF MapsInv
        <4>3. QED BY <1>1, <3>2, <4>1, <4>2, MapsOthers
      <3>3. QED BY <3>1, <3>2
    <2>3. QED BY <2>1, <2>2 DEF MapsInv
  <1>2. ASSUME NEW c \in Clients, NEW k \in Requests, Request(c, k) PROVE MapsInv'
    BY <1>2, MapsRequest
  <1>3. CASE UNCHANGED vars
    BY <1>3 DEF vars, dbs, mans, MapsInv, Unloading, Req
  <1>4. QED BY <1>1, <1>2, <1>3 DEF Next

\* The invariants so far hold in every reachable state.
THEOREM MapsAlways == ASSUME Polite PROVE Spec => []Maps
  <1>1. Init => Maps
    BY ShapeInit, ApartInit, OpenInit, MapsInit DEF Maps
  <1>2. Maps /\ [Next]_vars => Maps'
    BY ShapeStep, ApartStep, OpenStep, MapLocksStep, MapsStep DEF Maps
  <1>3. QED BY <1>1, <1>2, PTL DEF Spec

\* A loaded database has its own manager; one that is not loaded has none, or
\* that of the Database it was dropped with.
THEOREM MatchingManagers == ASSUME Polite PROVE Spec => []ManagerMatches
  <1>1. Maps => ManagerMatches
    <2> SUFFICES ASSUME Maps, \A c \in Clients : ~Changing(c)
                 PROVE  managers = loaded \/ (loaded = 0 /\ managers \in deleted)
      BY DEF ManagerMatches
    <2>1. \A c \in Clients : ~Unloading(c) /\ at[c].pc # "adddb"
      BY DEF Changing, Unloading
    <2>2. QED BY <2>1 DEF Maps, MapsInv
  <1>2. QED BY <1>1, MapsAlways, PTL
=============================================================================
