---------------------------- MODULE Server_proofs -----------------------------
(***************************************************************************)
(* Proofs of the safety of Server, from the invariants of the maps on:     *)
(* what handlers have looked up, the locks of DBInfos, the files, and then *)
(* transactions and checkpoint_lock.                                       *)
(***************************************************************************)
EXTENDS ServerMaps_proofs

-----------------------------------------------------------------------------
(* What handlers have looked up                                            *)

\* What a handler has looked up, with its own record written out.
LEMMA LookedUpParts ==
    ASSUME NEW c \in Clients
    PROVE  LookedUp(c)' <=>
             /\ at'[c].req \notin {"build", "restore", "show", "tquery"}
                /\ at'[c].pc \notin {"idle", "checkexist", "rm"} => built' # 0
             /\ at'[c].pc \in {"build", "building", "addinfo", "rm"} => built' = 0
             /\ at'[c].info # 0 => at'[c].info = built' \/ at'[c].pc = "rm"
             /\ at'[c].pc = "lockinfo" /\ at'[c].req # "load" => at'[c].info # 0
             /\ at'[c].req \in {"query", "monitor", "batch", "checkpoint"}
                /\ at'[c].pc \notin {"idle", "checkexist", "checkload", "getdb"}
                  => at'[c].db = loaded' /\ loaded' # 0
             /\ at'[c].pc = "getman" \/ (at'[c].man # 0 /\ at'[c].req # "unload")
                  => managers' # 0 /\ managers' \notin deleted'
             /\ at'[c].man # 0 /\ at'[c].req # "unload" => at'[c].man = managers'
             /\ at'[c].man # 0 => at'[c].req \in {"begin", "tquery", "commit", "rollback",
                                                "checkpoint", "unload"}
  BY DEF LookedUp, Req

\* A handler that has returned has looked up nothing.
LEMMA LookedUpIdle ==
    ASSUME NEW c \in Clients, at'[c] = Idle
    PROVE  LookedUp(c)'
  BY DEF LookedUp, Req, Idle

\* While a request that uses the manager is under way nobody unloads, so a
\* database that is loaded has its manager.
LEMMA LoadedHasManager ==
    ASSUME Polite, Maps, NEW c \in Clients, at[c].pc # "idle", loaded # 0,
           Req(c) \in {"begin", "tquery", "commit", "rollback", "checkpoint"}
    PROVE  managers = loaded /\ managers \notin deleted
  <1>1. ASSUME NEW d \in Clients, Unloading(d) PROVE FALSE
    <2>1. Req(d) = "unload" /\ at[d].pc # "idle" /\ d # c
      BY <1>1 DEF Unloading
    <2>2. Req(c) \notin {"begin", "checkpoint"}
      BY <2>1 DEF Maps, ApartInv, Polite
    <2>3. tid[c] # 0 /\ tid[c] = 0
      BY <2>1, <2>2 DEF Maps, OpenInv
    <2>4. QED BY <2>3
  <1>2. QED BY <1>1 DEF Maps, MapsInv

\* Where the maps change.
LEMMA MapsUnchanged ==
    ASSUME NEW c \in Clients, Serve(c)
    PROVE  /\ at[c].pc \notin {"dropbuilt", "dropinfo", "addinfo", "findinfo"} => built' = built
           /\ at[c].pc \notin {"adddb", "delete", "dropmap"}
                => loaded' = loaded /\ deleted' = deleted
           /\ at[c].pc \notin {"addman", "eraseman"} => managers' = managers
  <1>1. at[c].pc \notin {"dropbuilt", "dropinfo", "addinfo", "findinfo"} => built' = built
    BY BuiltStep DEF DropBuilt, DropInfo, AddInfo, FindInfo, In
  <1>2. at[c].pc \notin {"adddb", "delete", "dropmap"} => loaded' = loaded /\ deleted' = deleted
    BY LoadedStep DEF AddDb, Delete, DropMap, In
  <1>3. at[c].pc \notin {"addman", "eraseman"} => managers' = managers
    BY ManagersStep DEF AddManager, EraseMan, In
  <1>4. QED BY <1>1, <1>2, <1>3

\* The handlers of the other clients: who they would lose what they looked up
\* to is kept apart from them.
LEMMA LookedUpOthers ==
    ASSUME Polite, Maps, NEW c \in Clients, Serve(c), NEW d \in Clients \ {c}, LookedUp(d),
           at'[d] = at[d]
    PROVE  LookedUp(d)'
  <1>0. /\ at[c].pc # "idle" /\ ServesKind(at[c].pc, Req(c)) /\ Placed(d)
        /\ Len(infoLock) \in Nat /\ built \in Nat /\ Req(d) \in Kinds
    BY Frame, LenFacts DEF Maps, Shape, Placed, Types, Handler, Req
  <1>1. CASE Req(c) = "drop"
    <2>1. at[d].pc = "idle"
      BY <1>0, <1>1 DEF Maps, ApartInv, Polite
    <2>2. at'[d] = Idle
      BY <1>0, <2>1 DEF Placed
    <2>3. QED BY <2>2, LookedUpIdle
  <1>2. CASE Req(c) # "drop"
    <2>1. \/ built' = built
          \/ built = 0 /\ built' # 0 /\ Req(c) \in {"build", "restore"}
      <3>1. ~DropBuilt(c) /\ ~DropInfo(c)
        BY <1>0, <1>2 DEF DropBuilt, DropInfo, In, ServesKind
      <3>2. CASE (AddInfo(c) \/ FindInfo(c)) /\ Inserted
        BY <1>0, <3>2 DEF AddInfo, FindInfo, In, ServesKind, Inserted
      <3>3. QED BY <3>1, <3>2, BuiltStep
    <2>2. \/ loaded' = loaded /\ deleted' = deleted
          \/ loaded = 0 /\ deleted' = deleted
          \/ managers = 0 /\ Req(c) = "unload"
      <3>1. CASE AddDb(c)
        BY <3>1 DEF AddDb
      <3>2. CASE Delete(c)
        <4>1. Req(c) = "unload" /\ at[c].pc = "delete"
          BY <1>0, <3>2 DEF Delete, In, ServesKind
        <4>2. QED BY <4>1 DEF Maps, MapsInv, Unloading
      <3>3. ~DropMap(c)
        BY <1>0, <1>2 DEF DropMap, In, ServesKind
      <3>4. QED BY <3>1, <3>2, <3>3, LoadedStep
    <2>3. managers' = managers \/ managers = 0 \/ Req(c) = "unload"
      <3>1. CASE AddManager(c)
        BY <3>1 DEF AddManager
      <3>2. CASE EraseMan(c)
        BY <1>0, <3>2 DEF EraseMan, In, ServesKind
      <3>3. QED BY <3>1, <3>2, ManagersStep
    <2>4. Req(c) \in {"build", "restore"}
             => at[d].pc \notin {"build", "building", "addinfo", "rm"}
      <3>1. SUFFICES ASSUME Req(c) \in {"build", "restore"}
                     PROVE  at[d].pc = "idle" \/ Req(d) \notin {"build", "drop"}
        BY <1>0 DEF Placed, ServesKind
      <3>2. {"build", Req(c)} \in Apart /\ {"drop", Req(c)} \in Apart
        BY <3>1 DEF Polite, Kinds
      <3>3. QED BY <1>0, <3>2 DEF Maps, ApartInv
    <2>5. Req(c) = "unload" => \/ at[d].pc = "idle"
                               \/ Req(d) \notin {"begin", "tquery", "commit", "rollback",
                                                 "query", "monitor", "batch", "checkpoint"}
      BY <1>0 DEF Maps, ApartInv, OpenInv, Polite
    <2>6. /\ at[d].pc = "idle" => at[d].man = 0
          /\ at[d].pc = "getman"
               => Req(d) \in {"begin", "tquery", "commit", "rollback", "checkpoint"}
      BY <1>0 DEF Placed, ServesKind, Idle
    <2>7. /\ at[d].req \notin {"build", "restore", "show", "tquery"}
             /\ at[d].pc \notin {"idle", "checkexist", "rm"} => built' # 0
          /\ at[d].pc \in {"build", "building", "addinfo", "rm"} => built' = 0
          /\ at[d].info # 0 => at[d].info = built' \/ at[d].pc = "rm"
          /\ at[d].pc = "lockinfo" /\ at[d].req # "load" => at[d].info # 0
      BY <2>1, <2>4 DEF LookedUp, Req
    <2>8. /\ at[d].req \in {"query", "monitor", "batch", "checkpoint"}
             /\ at[d].pc \notin {"idle", "checkexist", "checkload", "getdb"}
               => at[d].db = loaded' /\ loaded' # 0
      BY <2>2, <2>5 DEF LookedUp, Req
    <2>9. /\ at[d].pc = "getman" \/ (at[d].man # 0 /\ at[d].req # "unload")
               => managers' # 0 /\ managers' \notin deleted'
          /\ at[d].man # 0 /\ at[d].req # "unload" => at[d].man = managers'
          /\ at[d].man # 0 => at[d].req \in {"begin", "tquery", "commit", "rollback",
                                            "checkpoint", "unload"}
      BY <2>2, <2>3, <2>5, <2>6 DEF LookedUp, Req
    <2>10. QED BY <2>7, <2>8, <2>9, LookedUpParts
  <1>3. QED BY <1>1, <1>2

\* A handler that goes on, with what it has looked up and nothing new.
LEMMA LookedUpGoesOn ==
    ASSUME NEW c \in Clients, LookedUp(c), NEW s,
           Goes(c, s, at[c].db, at[c].info, at[c].man),
           built' = built, loaded' = loaded, managers' = managers, deleted' = deleted,
           at[c].pc \notin {"idle", "checkexist", "rm", "checkload", "getdb"},
           s \in {"building", "addinfo"} => at[c].pc \in {"build", "building"},
           s \notin {"build", "rm", "lockinfo", "getman"}
    PROVE  LookedUp(c)'
  <1>1. /\ at'[c].req = at[c].req /\ at'[c].db = at[c].db /\ at'[c].info = at[c].info
        /\ at'[c].man = at[c].man /\ at'[c].pc = s
    BY DEF Goes
  <1>2. QED BY <1>1, LookedUpParts DEF LookedUp, Req

\* The handler that moves: it looks up what the maps have, and nothing that it
\* has looked up changes under its own hands.
LEMMA LookedUpOwn ==
    ASSUME Polite, Maps, NEW c \in Clients, Serve(c), LookedUp(c), built \notin freed
    PROVE  LookedUp(c)'
  <1>0. /\ at \in [Clients -> Handler] /\ ServesKind(at[c].pc, at[c].req)
        /\ at[c].pc # "idle" /\ Len(infoLock) \in Nat /\ Len(mgr) \in Nat
        /\ built \in Nat /\ loaded \in Nat /\ managers \in Nat
        /\ Shape /\ Placed(c) /\ Types
    BY Frame, LenFacts DEF Maps, Shape, Placed, Req
  <1> SUFFICES ASSUME at'[c] # Idle PROVE LookedUp(c)'
    BY LookedUpIdle
  <1>f. at'[c].pc # "idle" /\ at'[c].req = at[c].req /\ ServesKind(at'[c].pc, at[c].req)
    BY <1>0, Frame
  <1>l. ~Leaves(c) /\ at' # [at EXCEPT ![c] = Idle]
    BY <1>0, LeavesFacts DEF Leaves
  <1>u. /\ at[c].pc \notin {"dropbuilt", "dropinfo", "addinfo", "findinfo"} => built' = built
        /\ at[c].pc \notin {"adddb", "delete", "dropmap"}
             => loaded' = loaded /\ deleted' = deleted
        /\ at[c].pc \notin {"addman", "eraseman"} => managers' = managers
    BY MapsUnchanged
  <1>v. /\ at[c].req \notin {"build", "restore", "show", "tquery"}
           /\ at[c].pc \notin {"idle", "checkexist", "rm"} => built # 0
        /\ at[c].pc \in {"build", "building", "addinfo", "rm"} => built = 0
        /\ at[c].info # 0 => at[c].info = built \/ at[c].pc = "rm"
        /\ at[c].pc = "lockinfo" /\ at[c].req # "load" => at[c].info # 0
        /\ at[c].req \in {"query", "monitor", "batch", "checkpoint"}
           /\ at[c].pc \notin {"idle", "checkexist", "checkload", "getdb"}
             => at[c].db = loaded /\ loaded # 0
        /\ at[c].pc = "getman" \/ (at[c].man # 0 /\ at[c].req # "unload")
             => managers # 0 /\ managers \notin deleted
        /\ at[c].man # 0 /\ at[c].req # "unload" => at[c].man = managers
        /\ at[c].man # 0 => at[c].req \in {"begin", "tquery", "commit", "rollback",
                                          "checkpoint", "unload"}
    BY DEF LookedUp, Req
  <1>1. CASE CheckExist(c)
    <2>1. PICK s \in {"build", "checkload", "getdb", "getinfo"} :
             /\ Goes(c, s, at[c].db, at[c].info, at[c].man) /\ ServesKind(s, at[c].req)
             /\ at[c].pc = "checkexist"
      BY <1>0, <1>1, <1>l, CheckExistMoves
    <2>2. (built # 0) # (Req(c) = "build")
      BY <1>1, <1>l DEF CheckExist, Finish
    <2>3. s = "build" <=> at[c].req = "build"
      BY <1>0, <2>1 DEF ServesKind
    <2>4. s = "getinfo" => at[c].req \in {"drop", "backup"}
      <3>1. Goto(c, AfterExist(Req(c)))
        BY <1>1, <1>l DEF CheckExist, Finish
      <3>2. at'[c].pc = AfterExist(Req(c))
        BY <1>0, <3>1 DEF Goto
      <3>3. s = AfterExist(at[c].req)
        BY <2>1, <3>2 DEF Goes, Req
      <3>4. at[c].req \in Kinds \ {"show", "restore", "tquery"}
        BY <1>0, <2>1 DEF ServesKind, Handler
      <3>5. QED BY <3>3, <3>4 DEF AfterExist, Kinds
    <2>5. QED BY <1>u, <1>v, <2>1, <2>2, <2>3, <2>4, LookedUpParts DEF Goes, Req
  <1>2. CASE CheckLoad(c)
    <2>1. PICK s \in {"lockinfo", "getman", "getdb", "getinfo"} :
             /\ Goes(c, s, at[c].db, at[c].info, at[c].man) /\ ServesKind(s, at[c].req)
             /\ at[c].pc = "checkload"
      BY <1>0, <1>2, <1>l, CheckLoadMoves
    <2>2. /\ at[c].req \in {"load", "unload", "commit", "rollback", "query"}
          /\ (loaded # 0) # (at[c].req = "load")
      BY <1>0, <1>2, <1>l, <2>1 DEF CheckLoad, Finish, ServesKind, Req
    <2>3. /\ s = "lockinfo" => at[c].req = "load"
          /\ s = "getman" => at[c].req \in {"commit", "rollback"}
          /\ at[c].req = "query" => s = "getdb"
      <3>1. Goto(c, AfterLoad(Req(c)))
        BY <1>2, <1>l DEF CheckLoad, Finish
      <3>2. at'[c].pc = AfterLoad(Req(c))
        BY <1>0, <3>1 DEF Goto
      <3>3. s = AfterLoad(at[c].req)
        BY <2>1, <3>2 DEF Goes, Req
      <3>4. QED BY <2>2, <3>3 DEF AfterLoad
    <2>4. s = "getman" => managers = loaded /\ managers \notin deleted
      BY <1>0, <2>2, <2>3, LoadedHasManager DEF Req
    <2>5. QED BY <1>u, <1>v, <2>1, <2>2, <2>3, <2>4, LookedUpParts DEF Goes
  <1>3. CASE GetDb(c)
    <2>1. PICK s \in {"getman", "getinfo"} :
             /\ Goes(c, s, loaded, at[c].info, at[c].man) /\ at[c].pc = "getdb" /\ loaded # 0
             /\ s = "getman" => at[c].req \in {"begin", "tquery"}
      BY <1>0, <1>3, <1>l, GetDbMoves DEF Req
    <2>2. s = "getman" => managers = loaded /\ managers \notin deleted
      BY <1>0, <2>1, LoadedHasManager DEF Req
    <2>3. QED BY <1>u, <1>v, <2>1, <2>2, LookedUpParts DEF Goes
  <1>4. CASE GetInfo(c)
    <2>1. Goes(c, "lockinfo", at[c].db, built, at[c].man) /\ at[c].pc = "getinfo"
      BY <1>0, <1>4, GetInfoMoves
    <2>2. at[c].req \notin {"build", "restore", "show", "tquery"}
      BY <1>0, <2>1 DEF ServesKind
    <2>3. QED BY <1>u, <1>v, <2>1, <2>2, LookedUpParts DEF Goes
  <1>5. CASE GetMan(c)
    <2>1. PICK s \in {"begin", "tquery", "end", "waitckpt"} :
             /\ Goes(c, s, at[c].db, at[c].info, managers) /\ at[c].pc = "getman"
      BY <1>0, <1>5, <1>l, GetManMoves
    <2>2. at[c].req \in {"begin", "tquery", "commit", "rollback", "checkpoint"}
      BY <1>0, <2>1 DEF ServesKind
    <2>3. QED BY <1>u, <1>v, <2>1, <2>2, LookedUpParts DEF Goes
  <1>7. CASE LockExclusive(c)
    <2>1. PICK s \in {"trymap", "unmap", "dropmap", "getman", "use", "copy", "rmfiles"} :
             /\ Goes(c, s, at[c].db, InfoOf(c), at[c].man) /\ at[c].pc = "lockinfo"
             /\ s = "getman" => at[c].req = "checkpoint"
      BY <1>0, <1>7, LockExclusiveMoves
    <2>2. InfoOf(c) = built \/ InfoOf(c) = 0
      BY <1>v, <2>1 DEF InfoOf
    <2>3. s = "getman" => managers = loaded /\ managers \notin deleted
      BY <1>0, <1>v, <2>1, LoadedHasManager DEF Req
    <2>4. QED BY <1>u, <1>v, <2>1, <2>2, <2>3, LookedUpParts DEF Goes
  <1>13. CASE Loading(c)
    <2>1. /\ at[c].pc = "loading" /\ Goes(c, "addman", Len(mgr) + 1, at[c].info, at[c].man)
      BY <1>0, <1>13, LoadingMoves
    <2>2. at[c].req = "load"
      BY <1>0, <2>1 DEF ServesKind
    <2>3. QED BY <1>u, <1>v, <2>1, <2>2, LookedUpParts DEF Goes
  <1>14. CASE AddManager(c)
    <2>1. /\ at[c].pc = "addman" /\ Goes(c, "adddb", at[c].db, at[c].info, at[c].man)
      BY <1>0, <1>14, <1>l, GotoFacts, StepNames DEF AddManager, In
    <2>2. at[c].req = "load"
      BY <1>0, <2>1 DEF ServesKind
    <2>3. QED BY <1>u, <1>v, <2>1, <2>2, LookedUpParts DEF Goes
  <1>15. CASE AddDb(c)
    <2>1. /\ at[c].pc = "adddb" /\ Goes(c, "unlockinfo", at[c].db, at[c].info, at[c].man)
      BY <1>0, <1>15, GotoFacts, StepNames DEF AddDb, In
    <2>2. at[c].req = "load"
      BY <1>0, <2>1 DEF ServesKind
    <2>3. QED BY <1>u, <1>v, <2>1, <2>2, LookedUpParts DEF Goes
  <1>18. CASE EraseMan(c)
    <2>1. PICK s \in {"delete", "abortall"} :
             at[c].pc = "eraseman" /\ Goes(c, s, at[c].db, at[c].info, managers)
      BY <1>0, <1>18, EraseManMoves
    <2>2. at[c].req = "unload"
      BY <1>0, <2>1 DEF ServesKind
    <2>3. QED BY <1>u, <1>v, <2>1, <2>2, LookedUpParts DEF Goes
  <1>20. CASE Delete(c)
    <2>1. at[c].pc = "delete" /\ Goes(c, "unlockinfo", at[c].db, at[c].info, 0)
      BY <1>0, <1>20, DeleteMoves
    <2>2. at[c].req = "unload"
      BY <1>0, <2>1 DEF ServesKind
    <2>3. QED BY <1>u, <1>v, <2>1, <2>2, LookedUpParts DEF Goes
  <1>22. CASE Merge(c)
    <2>1. PICK s \in {"delete", "save"} :
             Goes(c, s, at[c].db, at[c].info, at[c].man) /\ at[c].pc = "merge"
      BY <1>0, <1>22, GotoFacts, StepNames DEF Merge, In
    <2>2. QED BY <1>u, <2>1, LookedUpGoesOn
  <1>25. CASE DropMap(c)
    <2>1. PICK s \in {"dropbuilt", "dropinfo"} :
             Goes(c, s, at[c].db, at[c].info, at[c].man) /\ at[c].pc = "dropmap"
      BY <1>0, <1>25, GotoFacts, StepNames DEF DropMap, In
    <2>2. at[c].req = "drop"
      BY <1>0, <2>1 DEF ServesKind
    <2>3. QED BY <1>u, <1>v, <2>1, <2>2, LookedUpParts DEF Goes
  <1>26. CASE DropBuilt(c)
    <2>1. /\ Goes(c, "rm", at[c].db, at[c].info, at[c].man) /\ at[c].pc = "dropbuilt"
          /\ built' = 0
      BY <1>0, <1>26, GotoFacts, StepNames DEF DropBuilt, In
    <2>2. at[c].req = "drop"
      BY <1>0, <2>1 DEF ServesKind
    <2>3. QED BY <1>u, <1>v, <2>1, <2>2, LookedUpParts DEF Goes
  <1>27. CASE DropInfo(c)
    <2>1. /\ Goes(c, "rm", at[c].db, at[c].info, at[c].man) /\ at[c].pc = "dropinfo"
          /\ built' = 0
      BY <1>0, <1>27, DropInfoMoves DEF DropInfo
    <2>2. at[c].req = "drop"
      BY <1>0, <2>1 DEF ServesKind
    <2>3. QED BY <1>u, <1>v, <2>1, <2>2, LookedUpParts DEF Goes
  <1>30. CASE BuildEnds(c)
    <2>1. Goes(c, "addinfo", at[c].db, at[c].info, at[c].man) /\ at[c].pc = "building"
      BY <1>0, <1>30, <1>l, BuildEndsMoves
    <2>2. QED BY <1>u, <2>1, LookedUpGoesOn
  <1>33. CASE FindInfo(c)
    <2>1. /\ built' # 0 /\ Goes(c, "lockinfo", at[c].db, built', at[c].man)
          /\ at[c].pc = "findinfo"
      BY <1>0, <1>33, <1>l, FindInfoMoves
    <2>2. at[c].req = "restore"
      BY <1>0, <2>1 DEF ServesKind
    <2>3. QED BY <1>u, <1>v, <2>1, <2>2, LookedUpParts DEF Goes
  <1>6. CASE LockShared(c)
    <2>1. Goes(c, "use", at[c].db, at[c].info, at[c].man) /\ at[c].pc = "lockinfo"
      BY <1>0, <1>6, <1>l, GotoFacts, StepNames DEF LockShared, In, ReachesInfo
    <2>2. QED BY <1>u, <2>1, LookedUpGoesOn
  <1>9. CASE Use(c)
    <2>1. Goes(c, "used", at[c].db, at[c].info, at[c].man) /\ at[c].pc = "use"
      BY <1>0, <1>9, <1>l, GotoFacts, StepNames DEF Use, In
    <2>2. QED BY <1>u, <2>1, LookedUpGoesOn
  <1>11. CASE UnlockInfo(c)
    <2>1. Goes(c, "mvfiles", at[c].db, at[c].info, at[c].man) /\ at[c].pc = "unlockinfo"
      BY <1>0, <1>11, <1>l, GotoFacts, StepNames DEF UnlockInfo, In, Finish
    <2>2. QED BY <1>u, <2>1, LookedUpGoesOn
  <1>12. CASE TryMap(c)
    <2>1. Goes(c, "loading", at[c].db, at[c].info, at[c].man) /\ at[c].pc = "trymap"
      BY <1>0, <1>12, <1>l, GotoFacts, StepNames DEF TryMap, In
    <2>2. QED BY <1>u, <2>1, LookedUpGoesOn
  <1>16. CASE Unmap(c)
    <2>1. Goes(c, "findman", at[c].db, at[c].info, at[c].man) /\ at[c].pc = "unmap"
      BY <1>0, <1>16, <1>l, GotoFacts, StepNames DEF Unmap, In
    <2>2. QED BY <1>u, <2>1, LookedUpGoesOn
  <1>17. CASE FindMan(c)
    <2>1. Goes(c, "eraseman", at[c].db, at[c].info, at[c].man) /\ at[c].pc = "findman"
      BY <1>0, <1>17, <1>l, GotoFacts, StepNames DEF FindMan, In
    <2>2. QED BY <1>u, <2>1, LookedUpGoesOn
  <1>19. CASE AbortAll(c)
    <2>1. Goes(c, "waitckpt", at[c].db, at[c].info, at[c].man) /\ at[c].pc = "abortall"
      BY <1>0, <1>19, <1>l, GotoFacts, StepNames DEF AbortAll, In
    <2>2. QED BY <1>u, <2>1, LookedUpGoesOn
  <1>21. CASE WaitCheckpoint(c)
    <2>1. Goes(c, "merge", at[c].db, at[c].info, at[c].man) /\ at[c].pc = "waitckpt"
      BY <1>0, <1>21, <1>l, GotoFacts, StepNames DEF WaitCheckpoint, In
    <2>2. QED BY <1>u, <2>1, LookedUpGoesOn
  <1>23. CASE Save(c)
    <2>1. Goes(c, "saved", at[c].db, at[c].info, at[c].man) /\ at[c].pc = "save"
      BY <1>0, <1>23, <1>l, GotoFacts, StepNames DEF Save, In
    <2>2. QED BY <1>u, <2>1, LookedUpGoesOn
  <1>24. CASE Saved(c)
    <2>1. Goes(c, "unlockinfo", at[c].db, at[c].info, at[c].man) /\ at[c].pc = "saved"
      BY <1>0, <1>24, <1>l, GotoFacts, StepNames DEF Saved, In
    <2>2. QED BY <1>u, <2>1, LookedUpGoesOn
  <1>29. CASE Build(c)
    <2>1. Goes(c, "building", at[c].db, at[c].info, at[c].man) /\ at[c].pc = "build"
      BY <1>0, <1>29, <1>l, GotoFacts, StepNames DEF Build, In
    <2>2. QED BY <1>u, <2>1, LookedUpGoesOn
  <1>32. CASE Copy(c)
    <2>1. Goes(c, "unlockinfo", at[c].db, at[c].info, at[c].man) /\ at[c].pc = "copy"
      BY <1>0, <1>32, <1>l, GotoFacts, StepNames DEF Copy, In
    <2>2. QED BY <1>u, <2>1, LookedUpGoesOn
  <1>34. CASE RemoveFiles(c)
    <2>1. Goes(c, "copyback", at[c].db, at[c].info, at[c].man) /\ at[c].pc = "rmfiles"
      BY <1>0, <1>34, <1>l, GotoFacts, StepNames DEF RemoveFiles, In
    <2>2. QED BY <1>u, <2>1, LookedUpGoesOn
  <1>35. CASE CopyBack(c)
    <2>1. Goes(c, "unlockinfo", at[c].db, at[c].info, at[c].man) /\ at[c].pc = "copyback"
      BY <1>0, <1>35, <1>l, GotoFacts, StepNames DEF CopyBack, In
    <2>2. QED BY <1>u, <2>1, LookedUpGoesOn
  <1>37. CASE Show(c)
    <2>1. Goes(c, "showdb", at[c].db, at[c].info, at[c].man) /\ at[c].pc = "show"
      BY <1>0, <1>37, <1>l, GotoFacts, StepNames DEF Show, In
    <2>2. QED BY <1>u, <2>1, LookedUpGoesOn
  <1>39. CASE Begin(c)
    <2>1. Goes(c, "addtxn", at[c].db, at[c].info, at[c].man) /\ at[c].pc = "begin"
      BY <1>0, <1>39, <1>l, GotoFacts, StepNames DEF Begin, In
    <2>2. QED BY <1>u, <2>1, LookedUpGoesOn
  <1>42. CASE Query(c)
    <2>1. Goes(c, "tqueried", at[c].db, at[c].info, at[c].man) /\ at[c].pc = "tquery"
      BY <1>0, <1>42, <1>l, GotoFacts, StepNames DEF Query, In
    <2>2. QED BY <1>u, <2>1, LookedUpGoesOn
  <1>44. CASE End(c)
    <2>1. Goes(c, "ending", at[c].db, at[c].info, at[c].man) /\ at[c].pc = "end"
      BY <1>0, <1>44, <1>l, GotoFacts, StepNames DEF End, In
    <2>2. QED BY <1>u, <2>1, LookedUpGoesOn
  <1>8. CASE LockFails(c) \/ Used(c) \/ Remove(c) \/ AddInfo(c) \/ MoveFiles(c) \/ ShowDb(c)
             \/ AddTransaction(c) \/ Refused(c) \/ QueryEnds(c) \/ Ending(c)
    BY <1>l, <1>8 DEF LockFails, Used, Remove, AddInfo, MoveFiles, ShowDb, AddTransaction,
       Refused, QueryEnds, Ending, Finish
  <1> QED BY <1>1, <1>2, <1>3, <1>4, <1>5, <1>6, <1>7, <1>8, <1>9, <1>11, <1>12, <1>13,
      <1>14, <1>15, <1>16, <1>17, <1>18, <1>19, <1>20, <1>21, <1>22, <1>23, <1>24,
      <1>25, <1>26, <1>27, <1>29, <1>30, <1>32, <1>33, <1>34, <1>35, <1>37, <1>39,
      <1>42, <1>44 DEF Serve

\* The entry of already_build is no DBInfo that was deleted.
LEMMA BuiltStays ==
    ASSUME NEW c \in Clients, Shape, Serve(c), built \notin freed
    PROVE  built' \notin freed'
  <1>0. freed \subseteq 1..Len(infoLock) /\ Len(infoLock) \in Nat /\ Placed(c) /\ Types
    BY LenFacts DEF Shape, Types
  <1>1. CASE DropInfo(c)
    <2>1. built' = 0 /\ freed' = freed \cup {at[c].info} /\ at[c].pc = "dropinfo"
      BY <1>1 DEF DropInfo, In
    <2>2. at[c].info \in 1..Len(infoLock)
      BY <1>0, <2>1, HoldsAt, HasLock
    <2>3. QED BY <1>0, <2>1, <2>2
  <1>2. CASE freed' = freed
    <2>1. built' \in {built, 0, Len(infoLock) + 1}
      BY BuiltStep DEF Inserted
    <2>2. QED BY <1>0, <1>2, <2>1
  <1>3. QED BY <1>1, <1>2, FreedStep

\* LookedUpInv is inductive, on top of Maps.
LEMMA LookedUpStep ==
    ASSUME Polite, Maps, LookedUpInv, [Next]_vars
    PROVE  LookedUpInv'
  <1>1. ASSUME NEW c \in Clients, Serve(c) PROVE LookedUpInv'
    <2>1. built' \notin freed'
      BY <1>1, BuiltStays DEF Maps, LookedUpInv
    <2>2. ASSUME NEW d \in Clients PROVE LookedUp(d)'
      <3>1. CASE d = c
        BY <1>1, <3>1, LookedUpOwn DEF LookedUpInv
      <3>2. CASE d # c
        <4>1. at'[d] = at[d]
          BY <1>1, <3>2, Frame DEF Maps
        <4>2. QED BY <1>1, <3>2, <4>1, LookedUpOthers DEF LookedUpInv
      <3>3. QED BY <3>1, <3>2
    <2>3. QED BY <2>1, <2>2 DEF LookedUpInv
  <1>2. ASSUME NEW c \in Clients, NEW k \in Requests, Request(c, k) PROVE LookedUpInv'
    <2>1. /\ built' = built /\ freed' = freed /\ loaded' = loaded /\ deleted' = deleted
          /\ managers' = managers
      BY <1>2 DEF Request, infos, dbs, mans
    <2>2. /\ at'[c].pc = First(k) /\ at'[c].req = k
          /\ First(k) \in {"show", "findinfo", "getdb", "checkexist"} /\ ServesKind(First(k), k)
          /\ at'[c].db = 0 /\ at'[c].info = 0 /\ at'[c].man = 0
          /\ \A d \in Clients \ {c} : at'[d] = at[d]
      BY <1>2, RequestFrame DEF Maps
    <2>3. First(k) = "getdb" => k = "tquery"
      BY DEF First
    <2>4. First(k) \in {"show", "findinfo"} => k \in {"show", "restore"}
      BY <2>2 DEF ServesKind
    <2>5. LookedUp(c)'
      BY <2>1, <2>2, <2>3, <2>4, LookedUpParts
    <2>6. ASSUME NEW d \in Clients \ {c} PROVE LookedUp(d)'
      BY <2>1, <2>2 DEF LookedUpInv, LookedUp, Req
    <2>7. QED BY <2>1, <2>5, <2>6 DEF LookedUpInv
  <1>3. CASE UNCHANGED vars
    BY <1>3 DEF vars, infos, dbs, mans, LookedUpInv, LookedUp, Req
  <1>4. QED BY <1>1, <1>2, <1>3 DEF Next

\* LookedUpInv holds at first.
LEMMA LookedUpInit == Init => LookedUpInv
  BY DEF Init, LookedUpInv, LookedUp, Req, Idle

-----------------------------------------------------------------------------
(* The locks of DBInfos                                                    *)

\* A handler that is at no step that holds its DBInfo's lock.
LEMMA HoldsNone ==
    ASSUME NEW c \in Clients,
           at[c].pc \in {"idle", "checkexist", "checkload", "getdb", "getinfo", "lockinfo",
                         "rm", "build", "building", "addinfo", "findinfo", "mvfiles",
                         "show", "showdb", "begin", "addtxn", "tquery", "tqueried", "end",
                         "ending"}
    PROVE  ~HoldsAlone(c) /\ ~HoldsShared(c)
  BY DEF HoldsAlone, HoldsShared

\* ... after a step, too.
LEMMA HoldsNoneNext ==
    ASSUME NEW c \in Clients,
           at'[c].pc \in {"idle", "checkexist", "checkload", "getdb", "getinfo", "lockinfo",
                          "rm", "build", "building", "addinfo", "findinfo", "mvfiles",
                          "show", "showdb", "begin", "addtxn", "tquery", "tqueried", "end",
                          "ending"}
    PROVE  ~HoldsAlone(c)' /\ ~HoldsShared(c)'
  <1>1. ~HoldsAlone(c)'
    BY SMTT(30) DEF HoldsAlone
  <1>2. ~HoldsShared(c)'
    BY DEF HoldsShared
  <1>3. QED BY <1>1, <1>2

\* A handler comes to hold the lock of its DBInfo by the steps that take it,
\* and ceases to by those that release it.
LEMMA HoldsInfoStep ==
    ASSUME Polite, Maps, NEW c \in Clients, Serve(c), LookedUp(c)
    PROVE  \/ /\ infoLock' = infoLock \/ (AddsLock /\ ~HoldsAlone(c) /\ ~HoldsShared(c))
              /\ HoldsAlone(c)' <=> HoldsAlone(c)
              /\ HoldsShared(c)' <=> HoldsShared(c)
              /\ HoldsAlone(c) \/ HoldsShared(c) => at'[c].info = at[c].info
           \/ /\ SetsLock(at[c].info, Unlocked(infoLock[at[c].info], c))
              /\ HoldsAlone(c) \/ HoldsShared(c)
              /\ ~HoldsAlone(c)' /\ ~HoldsShared(c)'
           \/ /\ SetsLock(at[c].info, Read(infoLock[at[c].info], c))
              /\ infoLock[at[c].info].wr = NoOne
              /\ ~HoldsAlone(c) /\ ~HoldsShared(c)
              /\ ~HoldsAlone(c)' /\ HoldsShared(c)' /\ at'[c].info = at[c].info
           \/ /\ SetsLock(InfoOf(c), Write(infoLock[InfoOf(c)], c))
              /\ infoLock[InfoOf(c)] = Free
              /\ ~HoldsAlone(c) /\ ~HoldsShared(c)
              /\ HoldsAlone(c)' /\ ~HoldsShared(c)' /\ at'[c].info = InfoOf(c)
  <1>0. /\ at \in [Clients -> Handler] /\ ServesKind(at[c].pc, at[c].req)
        /\ at[c].pc # "idle" /\ at[c].pc \in Steps /\ Len(infoLock) \in Nat /\ Len(mgr) \in Nat
        /\ built \in Nat /\ loaded \in Nat /\ managers \in Nat
        /\ Shape /\ Placed(c) /\ Types
    BY Frame, LenFacts DEF Maps, Shape, Placed, Req, Handler
  <1>k. at[c].pc \notin {"used", "unlockinfo", "trymap", "unmap", "findman", "dropbuilt",
                         "dropinfo", "copyback", "lockinfo", "addinfo", "findinfo"}
          => infoLock' = infoLock
    BY InfoLockStep DEF LockShared, LockExclusive, ReachesInfo, In
  <1>a. ASSUME at[c].pc \in {"checkexist", "checkload", "getdb", "getinfo", "rm", "build",
                             "building", "mvfiles", "show", "showdb", "begin",
                             "addtxn", "tquery", "tqueried", "end", "ending"},
               at'[c].pc \in {"idle", "checkexist", "checkload", "getdb", "getinfo",
                              "lockinfo", "getman",
                              "rm", "build", "building", "addinfo", "findinfo", "mvfiles",
                              "show", "showdb", "begin", "addtxn", "tquery", "tqueried",
                              "end", "ending"},
               at'[c].pc = "getman" => at'[c].req # "checkpoint"
        PROVE  /\ infoLock' = infoLock /\ ~HoldsAlone(c) /\ ~HoldsShared(c)
               /\ ~HoldsAlone(c)' /\ ~HoldsShared(c)'
    <2>1. ~HoldsAlone(c) /\ ~HoldsShared(c) /\ infoLock' = infoLock
      BY <1>a, <1>k, HoldsNone
    <2>2. ~HoldsAlone(c)' /\ ~HoldsShared(c)'
      BY <1>a DEF HoldsAlone, HoldsShared, Req
    <2>3. QED BY <2>1, <2>2
  <1>b. ASSUME NEW s, Goes(c, s, at[c].db, at[c].info, at[c].man),
               at[c].pc \in {"trymap", "loading", "addman", "adddb", "unmap", "findman",
                     "eraseman", "abortall", "waitckpt", "merge", "delete",
                     "save", "saved", "dropmap", "copy", "rmfiles", "copyback"},
               s \in {"loading", "addman", "adddb", "findman",
                     "eraseman", "abortall", "waitckpt", "merge", "delete",
                     "save", "saved", "dropbuilt", "dropinfo", "copyback", "unlockinfo"}
        PROVE  /\ HoldsAlone(c) /\ ~HoldsShared(c) /\ HoldsAlone(c)' /\ ~HoldsShared(c)'
               /\ at'[c].info = at[c].info
    BY <1>b DEF HoldsAlone, HoldsShared, Goes
  <1>c. ASSUME Unlock(c), at[c].pc \in {"used", "unlockinfo", "trymap", "unmap", "findman",
                                        "dropbuilt", "dropinfo", "copyback"},
               at'[c].pc \in {"idle", "rm", "mvfiles"}
        PROVE  /\ SetsLock(at[c].info, Unlocked(infoLock[at[c].info], c))
               /\ HoldsAlone(c) \/ HoldsShared(c)
               /\ ~HoldsAlone(c)' /\ ~HoldsShared(c)'
    <2>1. HoldsAlone(c) \/ HoldsShared(c)
      BY <1>0, <1>c, HoldsAt
    <2>2. SetsLock(at[c].info, Unlocked(infoLock[at[c].info], c))
      BY <1>0, <1>c, <2>1, HasLock, UnlockFacts
    <2>3. QED BY <1>c, <2>1, <2>2, HoldsNoneNext
  <1>i. at' = [at EXCEPT ![c] = Idle] => Leaves(c)
    BY <1>0, LeavesFacts
  <1>j. Leaves(c) => at'[c].pc = "idle"
    BY DEF Leaves, Idle
  <1>1. CASE CheckExist(c)
    <2>1. at[c].pc = "checkexist" /\ at'[c].pc \in {"idle", "build", "checkload", "getdb", "getinfo"}
      BY <1>0, <1>1, <1>j, CheckExistMoves DEF Goes
    <2>2. QED BY <1>a, <2>1
  <1>2. CASE CheckLoad(c)
    <2>1. /\ at[c].pc = "checkload" /\ at'[c].pc \in {"idle", "lockinfo", "getman", "getdb", "getinfo"}
          /\ at'[c].pc # "idle" => at'[c].req = at[c].req
      BY <1>0, <1>2, <1>j, CheckLoadMoves DEF Goes
    <2>2. at[c].req # "checkpoint"
      BY <1>0, <2>1 DEF ServesKind
    <2>3. QED BY <1>a, <2>1, <2>2
  <1>3. CASE GetDb(c)
    <2>1. /\ at[c].pc = "getdb" /\ at'[c].pc \in {"idle", "getman", "getinfo"}
          /\ at'[c].pc = "getman" => at'[c].req \in {"begin", "tquery"}
      BY <1>0, <1>3, <1>j, GetDbMoves DEF Goes, Req
    <2>2. QED BY <1>a, <2>1
  <1>4. CASE GetInfo(c)
    <2>1. at[c].pc = "getinfo" /\ at'[c].pc = "lockinfo"
      BY <1>0, <1>4, GetInfoMoves DEF Goes
    <2>2. QED BY <1>a, <2>1
  <1>5. CASE GetMan(c)
    <2>1. at[c].pc = "getman" /\ managers # 0
      BY <1>5 DEF GetMan, In, LookedUp
    <2>2. PICK s \in {"begin", "tquery", "end", "waitckpt"} :
             Goes(c, s, at[c].db, at[c].info, managers) /\ ServesKind(s, at[c].req)
      BY <1>0, <1>5, <2>1, GetManMoves
    <2>3. s = "waitckpt" <=> at[c].req = "checkpoint"
      BY <1>0, <2>1, <2>2 DEF ServesKind
    <2>4. infoLock' = infoLock
      BY <1>k, <2>1
    <2>5. ~HoldsShared(c) /\ ~HoldsShared(c)' /\ at'[c].info = at[c].info
      BY <2>1, <2>2 DEF HoldsShared, Goes
    <2>6. HoldsAlone(c)' <=> HoldsAlone(c)
      BY <2>1, <2>2, <2>3 DEF HoldsAlone, Goes, Req
    <2>7. QED BY <2>4, <2>5, <2>6
  <1>6. CASE LockShared(c)
    <2>1. /\ at[c].pc = "lockinfo" /\ Req(c) \in {"query", "monitor"}
          /\ infoLock[at[c].info].wr = NoOne
          /\ SetsLock(at[c].info, Read(infoLock[at[c].info], c))
      BY <1>0, <1>6, LockSharedFacts
    <2>2. Goes(c, "use", at[c].db, at[c].info, at[c].man)
      BY <1>0, <1>6, GotoFacts, StepNames DEF LockShared
    <2>3. ~HoldsAlone(c) /\ ~HoldsShared(c)
      BY <2>1, HoldsNone
    <2>4. ~HoldsAlone(c)' /\ HoldsShared(c)' /\ at'[c].info = at[c].info
      BY <2>1, <2>2 DEF HoldsAlone, HoldsShared, Goes, Req
    <2>5. QED BY <2>1, <2>3, <2>4
  <1>7. CASE LockExclusive(c)
    <2>1. /\ infoLock[InfoOf(c)] = Free
          /\ SetsLock(InfoOf(c), Write(infoLock[InfoOf(c)], c))
      BY <1>0, <1>7, LockExclusiveFacts
    <2>2. PICK s \in {"trymap", "unmap", "dropmap", "getman", "use", "copy", "rmfiles"} :
             /\ Goes(c, s, at[c].db, InfoOf(c), at[c].man) /\ at[c].pc = "lockinfo"
             /\ s = "use" => at[c].req = "batch"
             /\ s = "getman" => at[c].req = "checkpoint"
      BY <1>0, <1>7, LockExclusiveMoves
    <2>3. ~HoldsAlone(c) /\ ~HoldsShared(c)
      BY <2>2, HoldsNone
    <2>4. HoldsAlone(c)' /\ ~HoldsShared(c)' /\ at'[c].info = InfoOf(c)
      BY <2>2 DEF HoldsAlone, HoldsShared, Goes, Req
    <2>5. QED BY <2>1, <2>3, <2>4
  <1>8. CASE LockFails(c)
    <2>1. at[c].pc = "lockinfo" /\ at'[c].pc = "idle" /\ infoLock' = infoLock
      BY <1>8, <1>i, <1>j DEF LockFails, ReachesInfo, In, infos
    <2>2. QED BY <2>1, HoldsNone, HoldsNoneNext
  <1>9. CASE Use(c)
    <2>1. Goes(c, "used", at[c].db, at[c].info, at[c].man) /\ at[c].pc = "use"
      BY <1>0, <1>9, GotoFacts, StepNames DEF Use, In
    <2>2. /\ HoldsAlone(c)' <=> HoldsAlone(c)
          /\ HoldsShared(c)' <=> HoldsShared(c)
          /\ at'[c].info = at[c].info
      BY <2>1 DEF HoldsAlone, HoldsShared, Goes, Req
    <2>3. infoLock' = infoLock
      BY <1>k, <2>1
    <2>4. QED BY <2>2, <2>3
  <1>10. CASE Used(c)
    <2>1. at[c].pc = "used" /\ at'[c].pc = "idle" /\ Unlock(c)
      BY <1>10, <1>i, <1>j DEF Used, In, Polite
    <2>2. QED BY <1>c, <2>1
  <1>11. CASE UnlockInfo(c)
    <2>1. at[c].pc = "unlockinfo" /\ at'[c].pc \in {"idle", "mvfiles"} /\ Unlock(c)
      BY <1>0, <1>11, <1>j, UnlockInfoMoves DEF UnlockInfo, Goes
    <2>2. QED BY <1>c, <2>1
  <1>12. CASE TryMap(c)
    <2>1. CASE Unlock(c) /\ at'[c].pc = "idle" /\ at[c].pc = "trymap"
      BY <1>c, <2>1
    <2>2. CASE /\ Goes(c, "loading", at[c].db, at[c].info, at[c].man) /\ at[c].pc = "trymap"
               /\ infoLock' = infoLock
      BY <1>b, <2>2
    <2>3. QED BY <1>0, <1>12, <1>i, <1>j, <2>1, <2>2, GotoFacts, StepNames DEF TryMap, In
  <1>13. CASE Loading(c)
    <2>1. at[c].pc = "loading" /\ Goes(c, "addman", Len(mgr) + 1, at[c].info, at[c].man)
      BY <1>0, <1>13, LoadingMoves
    <2>2. QED BY <1>k, <2>1 DEF Goes, HoldsAlone, HoldsShared
  <1>16. CASE Unmap(c)
    <2>1. CASE Unlock(c) /\ at'[c].pc = "idle" /\ at[c].pc = "unmap"
      BY <1>c, <2>1
    <2>2. CASE /\ Goes(c, "findman", at[c].db, at[c].info, at[c].man) /\ at[c].pc = "unmap"
               /\ infoLock' = infoLock
      BY <1>b, <2>2
    <2>3. QED BY <1>0, <1>16, <1>i, <1>j, <2>1, <2>2, GotoFacts, StepNames DEF Unmap, In
  <1>17. CASE FindMan(c)
    <2>1. CASE Unlock(c) /\ at'[c].pc = "idle" /\ at[c].pc = "findman"
      BY <1>c, <2>1
    <2>2. CASE /\ Goes(c, "eraseman", at[c].db, at[c].info, at[c].man)
               /\ at[c].pc = "findman" /\ infoLock' = infoLock
      BY <1>b, <2>2
    <2>3. QED BY <1>0, <1>17, <1>i, <1>j, <2>1, <2>2, GotoFacts, StepNames DEF FindMan, In
  <1>18. CASE EraseMan(c)
    <2>1. PICK s \in {"delete", "abortall"} :
             at[c].pc = "eraseman" /\ Goes(c, s, at[c].db, at[c].info, managers)
      BY <1>0, <1>18, EraseManMoves
    <2>2. QED BY <1>k, <2>1 DEF Goes, HoldsAlone, HoldsShared
  <1>20. CASE Delete(c)
    <2>1. at[c].pc = "delete" /\ Goes(c, "unlockinfo", at[c].db, at[c].info, 0)
      BY <1>0, <1>20, DeleteMoves
    <2>2. QED BY <1>k, <2>1 DEF Goes, HoldsAlone, HoldsShared
  <1>22. CASE Merge(c)
    <2>1. PICK s \in {"delete", "save"} :
             Goes(c, s, at[c].db, at[c].info, at[c].man) /\ at[c].pc = "merge"
      BY <1>0, <1>22, GotoFacts, StepNames DEF Merge, In
    <2>2. QED BY <1>b, <1>k, <2>1
  <1>25. CASE DropMap(c)
    <2>1. PICK s \in {"dropbuilt", "dropinfo"} :
             Goes(c, s, at[c].db, at[c].info, at[c].man) /\ at[c].pc = "dropmap"
      BY <1>0, <1>25, GotoFacts, StepNames DEF DropMap, In
    <2>2. QED BY <1>b, <1>k, <2>1
  <1>26. CASE DropBuilt(c)
    <2>1. at[c].pc = "dropbuilt" /\ at'[c].pc = "rm" /\ Unlock(c)
      BY <1>0, <1>26, GotoFacts, StepNames DEF DropBuilt, In, Goes
    <2>2. QED BY <1>c, <2>1
  <1>27. CASE DropInfo(c)
    <2>1. at[c].pc = "dropinfo" /\ at'[c].pc = "rm" /\ Unlock(c)
      BY <1>0, <1>27, DropInfoMoves DEF DropInfo, Goes
    <2>2. QED BY <1>c, <2>1
  <1>28. CASE \/ Remove(c) \/ MoveFiles(c) \/ ShowDb(c) \/ AddTransaction(c) \/ Refused(c)
              \/ QueryEnds(c) \/ Ending(c)
    <2>1. /\ at[c].pc \in {"rm", "mvfiles", "showdb", "addtxn", "end", "tquery", "tqueried",
                           "ending"}
          /\ at'[c].pc = "idle"
      BY <1>28, <1>i, <1>j DEF Remove, MoveFiles, ShowDb, AddTransaction, Refused,
         QueryEnds, Ending, Finish, In
    <2>2. QED BY <1>a, <2>1
  <1>29. CASE Build(c) \/ Show(c) \/ Begin(c) \/ Query(c) \/ End(c)
    <2>1. PICK s \in {"building", "showdb", "addtxn", "tqueried", "ending"} :
             /\ Goto(c, s) /\ at[c].pc \in {"build", "show", "begin", "tquery", "end"}
      BY <1>29 DEF Build, Show, Begin, Query, End, In
    <2>2. at'[c].pc = s
      BY <1>0, <2>1, GotoFacts, StepNames DEF Goes
    <2>3. QED BY <1>a, <2>1, <2>2
  <1>30. CASE BuildEnds(c)
    <2>1. at[c].pc = "building" /\ at'[c].pc \in {"idle", "addinfo"}
      BY <1>0, <1>30, <1>j, BuildEndsMoves DEF Goes
    <2>2. QED BY <1>a, <2>1
  <1>31. CASE AddInfo(c)
    <2>1. at[c].pc = "addinfo" /\ at'[c].pc = "idle" /\ AddsLock
      BY <1>0, <1>31, <1>i, <1>j, InsertedFacts DEF AddInfo, Finish, In
    <2>2. QED BY <2>1, HoldsNone, HoldsNoneNext
  <1>33. CASE FindInfo(c)
    <2>1. /\ at[c].pc = "findinfo" /\ at'[c].pc \in {"idle", "lockinfo"}
          /\ infoLock' = infoLock \/ AddsLock
      BY <1>0, <1>33, <1>j, FindInfoMoves, InsertedFacts DEF Goes
    <2>2. QED BY <2>1, HoldsNone, HoldsNoneNext
  <1>35. CASE CopyBack(c)
    <2>1. CASE Unlock(c) /\ at'[c].pc = "idle" /\ at[c].pc = "copyback"
      BY <1>c, <2>1
    <2>2. CASE /\ Goes(c, "unlockinfo", at[c].db, at[c].info, at[c].man)
               /\ at[c].pc = "copyback" /\ infoLock' = infoLock
      BY <1>b, <2>2
    <2>3. QED BY <1>0, <1>35, <1>i, <1>j, <2>1, <2>2, GotoFacts, StepNames DEF CopyBack, In
  <1>14. CASE AddManager(c)
    <2>1. Goes(c, "adddb", at[c].db, at[c].info, at[c].man) /\ at[c].pc = "addman"
      BY <1>0, <1>14, GotoFacts, StepNames DEF AddManager, In, Polite
    <2>2. QED BY <1>b, <1>k, <2>1
  <1>15. CASE AddDb(c)
    <2>1. Goes(c, "unlockinfo", at[c].db, at[c].info, at[c].man) /\ at[c].pc = "adddb"
      BY <1>0, <1>15, GotoFacts, StepNames DEF AddDb, In
    <2>2. QED BY <1>b, <1>k, <2>1
  <1>19. CASE AbortAll(c)
    <2>1. Goes(c, "waitckpt", at[c].db, at[c].info, at[c].man) /\ at[c].pc = "abortall"
      BY <1>0, <1>19, GotoFacts, StepNames DEF AbortAll, In
    <2>2. QED BY <1>b, <1>k, <2>1
  <1>21. CASE WaitCheckpoint(c)
    <2>1. Goes(c, "merge", at[c].db, at[c].info, at[c].man) /\ at[c].pc = "waitckpt"
      BY <1>0, <1>21, GotoFacts, StepNames DEF WaitCheckpoint, In
    <2>2. QED BY <1>b, <1>k, <2>1
  <1>23. CASE Save(c)
    <2>1. Goes(c, "saved", at[c].db, at[c].info, at[c].man) /\ at[c].pc = "save"
      BY <1>0, <1>23, GotoFacts, StepNames DEF Save, In
    <2>2. QED BY <1>b, <1>k, <2>1
  <1>24. CASE Saved(c)
    <2>1. Goes(c, "unlockinfo", at[c].db, at[c].info, at[c].man) /\ at[c].pc = "saved"
      BY <1>0, <1>24, GotoFacts, StepNames DEF Saved, In
    <2>2. QED BY <1>b, <1>k, <2>1
  <1>32. CASE Copy(c)
    <2>1. Goes(c, "unlockinfo", at[c].db, at[c].info, at[c].man) /\ at[c].pc = "copy"
      BY <1>0, <1>32, GotoFacts, StepNames DEF Copy, In
    <2>2. QED BY <1>b, <1>k, <2>1
  <1>34. CASE RemoveFiles(c)
    <2>1. Goes(c, "copyback", at[c].db, at[c].info, at[c].man) /\ at[c].pc = "rmfiles"
      BY <1>0, <1>34, GotoFacts, StepNames DEF RemoveFiles, In
    <2>2. QED BY <1>b, <1>k, <2>1
  <1> QED BY <1>1, <1>2, <1>3, <1>4, <1>5, <1>6, <1>7, <1>8, <1>9, <1>10, <1>11, <1>12,
      <1>13, <1>14, <1>15, <1>16, <1>17, <1>18, <1>19, <1>20, <1>21, <1>22, <1>23,
      <1>24, <1>25, <1>26, <1>27, <1>28, <1>29, <1>30, <1>31, <1>32, <1>33, <1>34,
      <1>35 DEF Serve

\* The lock of each DBInfo says who holds it.
LEMMA InfoLocksStep ==
    ASSUME Polite, Maps, LookedUpInv, InfoLocksInv, [Next]_vars
    PROVE  InfoLocksInv'
  <1>1. ASSUME NEW c \in Clients, Serve(c) PROVE InfoLocksInv'
    <2>0. /\ infoLock \in Seq(Lock) /\ Len(infoLock) \in Nat /\ NoOne \notin Clients
          /\ \A i \in 1..Len(infoLock) : infoLock[i] \in Lock
          /\ LookedUp(c)
      BY ServerAssumption, LenFacts, ElementOfSeq DEF Maps, Shape, Types, LookedUpInv
    <2>d. \A d \in Clients \ {c} : /\ HoldsAlone(d)' <=> HoldsAlone(d)
                                   /\ HoldsShared(d)' <=> HoldsShared(d)
                                   /\ at'[d].info = at[d].info
      BY <1>1, Frame DEF Maps, HoldsAlone, HoldsShared, Req
    <2>m. ~(HoldsAlone(c) /\ HoldsShared(c))
      BY DEF HoldsAlone, HoldsShared
    <2>h. /\ HoldsAlone(c) \/ HoldsShared(c) => at[c].info \in 1..Len(infoLock)
          /\ \A d \in Clients : HoldsAlone(d) \/ HoldsShared(d) => at[d].info \in 1..Len(infoLock)
      BY HasLock DEF Maps, Shape
    <2>1. CASE /\ infoLock' = infoLock \/ (AddsLock /\ ~HoldsAlone(c) /\ ~HoldsShared(c))
               /\ HoldsAlone(c)' <=> HoldsAlone(c)
               /\ HoldsShared(c)' <=> HoldsShared(c)
               /\ HoldsAlone(c) \/ HoldsShared(c) => at'[c].info = at[c].info
      <3>1. \A d \in Clients : /\ HoldsAlone(d)' <=> HoldsAlone(d)
                               /\ HoldsShared(d)' <=> HoldsShared(d)
                               /\ HoldsAlone(d) \/ HoldsShared(d) => at'[d].info = at[d].info
        <4>1. SUFFICES ASSUME NEW d \in Clients
                       PROVE  /\ HoldsAlone(d)' <=> HoldsAlone(d)
                              /\ HoldsShared(d)' <=> HoldsShared(d)
                              /\ HoldsAlone(d) \/ HoldsShared(d) => at'[d].info = at[d].info
          OBVIOUS
        <4>2. CASE d = c
          BY <2>1, <4>2
        <4>3. CASE d # c
          BY <2>d, <4>3
        <4>4. QED BY <4>2, <4>3
      <3>2. CASE infoLock' = infoLock
        BY <3>1, <3>2 DEF InfoLocksInv
      <3>3. CASE AddsLock
        <4>1. SUFFICES ASSUME NEW i \in 1..Len(infoLock')
                       PROVE  /\ infoLock'[i].wr # NoOne => infoLock'[i].rd = {}
                              /\ \A d \in Clients :
                                   /\ infoLock'[i].wr = d <=> HoldsAlone(d)' /\ at'[d].info = i
                                   /\ d \in infoLock'[i].rd <=> HoldsShared(d)' /\ at'[d].info = i
          BY DEF InfoLocksInv
        <4>2. CASE i \in 1..Len(infoLock)
          <5>1. infoLock'[i] = infoLock[i]
            BY <3>3, <4>2 DEF AddsLock
          <5>2. QED BY <3>1, <4>2, <5>1 DEF InfoLocksInv
        <4>3. CASE i = Len(infoLock) + 1
          <5>1. infoLock'[i].wr = NoOne /\ infoLock'[i].rd = {}
            BY <3>3, <4>3 DEF AddsLock, Free
          <5>2. \A d \in Clients : HoldsAlone(d) \/ HoldsShared(d) => at'[d].info # i
            BY <2>0, <2>h, <3>1, <4>3
          <5>3. QED BY <2>0, <3>1, <5>1, <5>2
        <4>4. QED BY <2>0, <3>3, <4>2, <4>3 DEF AddsLock
      <3>4. QED BY <2>1, <3>2, <3>3
    <2>2. ASSUME NEW k, NEW l, SetsLock(k, l), l \in Lock, k \in 1..Len(infoLock),
                 l.wr # NoOne => l.rd = {},
                 \A d \in Clients \ {c} : /\ l.wr = d <=> infoLock[k].wr = d
                                          /\ d \in l.rd <=> d \in infoLock[k].rd,
                 l.wr = c <=> HoldsAlone(c)', c \in l.rd <=> HoldsShared(c)',
                 HoldsAlone(c)' \/ HoldsShared(c)' => at'[c].info = k,
                 HoldsAlone(c) \/ HoldsShared(c) => at[c].info = k
          PROVE  InfoLocksInv'
      <3>1. SUFFICES ASSUME NEW i \in 1..Len(infoLock')
                     PROVE  /\ infoLock'[i].wr # NoOne => infoLock'[i].rd = {}
                            /\ \A d \in Clients :
                                 /\ infoLock'[i].wr = d <=> HoldsAlone(d)' /\ at'[d].info = i
                                 /\ d \in infoLock'[i].rd <=> HoldsShared(d)' /\ at'[d].info = i
        BY DEF InfoLocksInv
      <3>2. i \in 1..Len(infoLock) /\ infoLock'[i] = IF i = k THEN l ELSE infoLock[i]
        BY <2>2 DEF SetsLock
      <3>3. CASE i = k
        <4>1. infoLock'[i] = l
          BY <3>2, <3>3
        <4>2. SUFFICES ASSUME NEW d \in Clients
                       PROVE  /\ l.wr = d <=> HoldsAlone(d)' /\ at'[d].info = i
                              /\ d \in l.rd <=> HoldsShared(d)' /\ at'[d].info = i
          BY <2>2, <4>1
        <4>3. CASE d = c
          BY <2>2, <3>3, <4>3
        <4>4. CASE d # c
          <5>1. /\ infoLock[i].wr = d <=> HoldsAlone(d) /\ at[d].info = i
                /\ d \in infoLock[i].rd <=> HoldsShared(d) /\ at[d].info = i
            BY <3>2 DEF InfoLocksInv
          <5>2. /\ l.wr = d <=> infoLock[k].wr = d
                /\ d \in l.rd <=> d \in infoLock[k].rd
            BY <2>2, <4>4
          <5>3. /\ HoldsAlone(d)' <=> HoldsAlone(d)
                /\ HoldsShared(d)' <=> HoldsShared(d)
                /\ at'[d].info = at[d].info
            BY <2>d, <4>4
          <5>4. QED BY <3>3, <5>1, <5>2, <5>3
        <4>5. QED BY <4>3, <4>4
      <3>4. CASE i # k
        <4>1. infoLock'[i] = infoLock[i]
          BY <3>2, <3>4
        <4>2. /\ infoLock[i].wr # NoOne => infoLock[i].rd = {}
              /\ \A d \in Clients :
                   /\ infoLock[i].wr = d <=> HoldsAlone(d) /\ at[d].info = i
                   /\ d \in infoLock[i].rd <=> HoldsShared(d) /\ at[d].info = i
          BY <3>2 DEF InfoLocksInv
        <4>3. /\ ~(HoldsAlone(c)' /\ at'[c].info = i) /\ ~(HoldsShared(c)' /\ at'[c].info = i)
              /\ ~(HoldsAlone(c) /\ at[c].info = i) /\ ~(HoldsShared(c) /\ at[c].info = i)
          BY <2>2, <3>4
        <4>4. SUFFICES ASSUME NEW d \in Clients
                       PROVE  /\ infoLock[i].wr = d <=> HoldsAlone(d)' /\ at'[d].info = i
                              /\ d \in infoLock[i].rd <=> HoldsShared(d)' /\ at'[d].info = i
          BY <4>1, <4>2
        <4>5. CASE d = c
          BY <4>2, <4>3, <4>5
        <4>6. CASE d # c
          <5>1. /\ HoldsAlone(d)' <=> HoldsAlone(d)
                /\ HoldsShared(d)' <=> HoldsShared(d)
                /\ at'[d].info = at[d].info
            BY <2>d, <4>6
          <5>2. /\ infoLock[i].wr = d <=> HoldsAlone(d) /\ at[d].info = i
                /\ d \in infoLock[i].rd <=> HoldsShared(d) /\ at[d].info = i
            BY <4>2
          <5>3. QED BY <5>1, <5>2
        <4>7. QED BY <4>5, <4>6
      <3>5. QED BY <3>3, <3>4
    <2>3. CASE /\ SetsLock(at[c].info, Unlocked(infoLock[at[c].info], c))
               /\ HoldsAlone(c) \/ HoldsShared(c)
               /\ ~HoldsAlone(c)' /\ ~HoldsShared(c)'
      <3> DEFINE k == at[c].info
                 l == Unlocked(infoLock[k], c)
      <3>1. k \in 1..Len(infoLock) /\ infoLock[k] \in Lock
        BY <2>0, <2>3 DEF SetsLock
      <3>2. l \in Lock
        BY <3>1, LockOps
      <3>3. /\ l.wr # NoOne => l.rd = {}
            /\ \A d \in Clients \ {c} : /\ l.wr = d <=> infoLock[k].wr = d
                                        /\ d \in l.rd <=> d \in infoLock[k].rd
            /\ l.wr # c /\ c \notin l.rd
        BY <2>0, <3>1 DEF Unlocked, Lock, InfoLocksInv
      <3> HIDE DEF l
      <3>4. QED BY <2>2, <2>3, <3>1, <3>2, <3>3 DEF l
    <2>4. CASE /\ SetsLock(at[c].info, Read(infoLock[at[c].info], c))
               /\ infoLock[at[c].info].wr = NoOne
               /\ ~HoldsAlone(c) /\ ~HoldsShared(c)
               /\ ~HoldsAlone(c)' /\ HoldsShared(c)' /\ at'[c].info = at[c].info
      <3> DEFINE k == at[c].info
                 l == Read(infoLock[k], c)
      <3>1. k \in 1..Len(infoLock) /\ infoLock[k] \in Lock
        BY <2>0, <2>4 DEF SetsLock
      <3>2. l \in Lock
        BY <3>1, LockOps
      <3>3. /\ l.wr = NoOne
            /\ \A d \in Clients \ {c} : /\ l.wr = d <=> infoLock[k].wr = d
                                        /\ d \in l.rd <=> d \in infoLock[k].rd
            /\ l.wr # c /\ c \in l.rd
        BY <2>0, <2>4, <3>1 DEF Read, Lock
      <3> HIDE DEF l
      <3>4. QED BY <2>2, <2>4, <3>1, <3>2, <3>3 DEF l
    <2>5. CASE /\ SetsLock(InfoOf(c), Write(infoLock[InfoOf(c)], c))
               /\ infoLock[InfoOf(c)] = Free
               /\ ~HoldsAlone(c) /\ ~HoldsShared(c)
               /\ HoldsAlone(c)' /\ ~HoldsShared(c)' /\ at'[c].info = InfoOf(c)
      <3> DEFINE k == InfoOf(c)
                 l == Write(infoLock[k], c)
      <3>1. k \in 1..Len(infoLock) /\ infoLock[k] \in Lock
        BY <2>0, <2>5 DEF SetsLock
      <3>2. l \in Lock
        BY <3>1, LockOps
      <3>3. /\ l.rd = {} /\ l.wr = c /\ infoLock[k].wr = NoOne /\ infoLock[k].rd = {}
        BY <2>0, <2>5, <3>1 DEF Write, Lock, Free
      <3> HIDE DEF l, k
      <3>4. QED BY <2>0, <2>2, <2>5, <3>1, <3>2, <3>3 DEF l, k
    <2>6. QED BY <1>1, <2>0, <2>1, <2>3, <2>4, <2>5, HoldsInfoStep
  <1>2. ASSUME NEW c \in Clients, NEW k \in Requests, Request(c, k) PROVE InfoLocksInv'
    <2>1. /\ at[c].pc = "idle" /\ at'[c].pc \in {"show", "findinfo", "getdb", "checkexist"}
          /\ \A d \in Clients \ {c} : at'[d] = at[d]
      BY <1>2, RequestFrame DEF Maps, Idle
    <2>2. infoLock' = infoLock
      BY <1>2 DEF Request, infos
    <2>3. \A d \in Clients : /\ HoldsAlone(d)' <=> HoldsAlone(d)
                             /\ HoldsShared(d)' <=> HoldsShared(d)
                             /\ HoldsAlone(d) \/ HoldsShared(d) => at'[d].info = at[d].info
      <3>1. ~HoldsAlone(c) /\ ~HoldsShared(c) /\ ~HoldsAlone(c)' /\ ~HoldsShared(c)'
        BY <2>1, HoldsNone, HoldsNoneNext
      <3>2. SUFFICES ASSUME NEW d \in Clients \ {c}
                     PROVE  /\ HoldsAlone(d)' <=> HoldsAlone(d)
                            /\ HoldsShared(d)' <=> HoldsShared(d)
                            /\ at'[d].info = at[d].info
        BY <3>1
      <3>3. QED BY <2>1 DEF HoldsAlone, HoldsShared, Req
    <2>4. QED BY <2>2, <2>3 DEF InfoLocksInv
  <1>3. CASE UNCHANGED vars
    BY <1>3 DEF vars, infos, InfoLocksInv, HoldsAlone, HoldsShared, Req
  <1>4. QED BY <1>1, <1>2, <1>3 DEF Next

\* InfoLocksInv holds at first.
LEMMA InfoLocksInit == Init => InfoLocksInv
  BY EmptySeq DEF Init, InfoLocksInv

-----------------------------------------------------------------------------
(* The files                                                               *)

\* Whoever holds the lock of the DBInfo in already_build alone keeps the others
\* from holding it.
LEMMA OneHoldsInfo ==
    ASSUME Maps, LookedUpInv, InfoLocksInv, NEW c \in Clients, NEW d \in Clients, c # d,
           HoldsAlone(c), HoldsAlone(d) \/ HoldsShared(d)
    PROVE  FALSE
  <1>1. /\ at[c].info \in 1..Len(infoLock) /\ at[d].info \in 1..Len(infoLock)
        /\ at[c].info # 0 /\ at[d].info # 0
    BY HasLock, LenFacts DEF Maps, Shape
  <1>2. at[c].pc # "rm" /\ at[d].pc # "rm"
    BY DEF HoldsAlone, HoldsShared
  <1>3. at[c].info = built /\ at[d].info = built
    BY <1>1, <1>2 DEF LookedUpInv, LookedUp
  <1>4. infoLock[built].wr = c
    BY <1>1, <1>3 DEF InfoLocksInv
  <1>5. infoLock[built].wr = d \/ d \in infoLock[built].rd
    BY <1>1, <1>3 DEF InfoLocksInv
  <1>6. c # NoOne
    BY ServerAssumption
  <1>7. QED BY <1>1, <1>3, <1>4, <1>5, <1>6 DEF InfoLocksInv

\* A handler that stays where it is goes on rewriting the files.
LEMMA StillRewrites ==
    ASSUME Polite, Maps, NEW c \in Clients, Serve(c), NEW d \in Clients \ {c}, Rewrites(d),
           at[d].pc # "idle"
    PROVE  Rewrites(d)'
  <1>1. at'[d] = at[d] /\ ServesKind(at[c].pc, Req(c)) /\ at[c].pc # "idle"
    BY Frame DEF Maps, Shape, Placed
  <1>2. CASE loaded' = loaded \/ loaded' = 0
    BY <1>1, <1>2 DEF Rewrites, Req
  <1>3. CASE AddDb(c)
    <2>1. Req(c) = "load"
      BY <1>1, <1>3 DEF AddDb, In, ServesKind
    <2>2. Req(d) # "restore"
      BY <1>1, <2>1 DEF Maps, ApartInv, Polite
    <2>3. QED BY <1>1, <2>2 DEF Rewrites, Req
  <1>4. QED BY <1>2, <1>3, LoadedStep DEF Delete, DropMap

\* A restore that rewrites the files goes on until they are whole, or another
\* one does.
LEMMA RewritesOn ==
    ASSUME Polite, Maps, LookedUpInv, InfoLocksInv, NEW c \in Clients, Serve(c), Rewrites(c),
           files' # "whole", built # 0
    PROVE  \E d \in Clients : Rewrites(d)'
  <1>0. /\ at \in [Clients -> Handler] /\ Types /\ Placed(c)
        /\ ServesKind(at[c].pc, at[c].req) /\ built \in Nat
    BY LenFacts DEF Maps, Shape, Placed, Req
  <1>1. CASE at[c].pc = "saved"
    <2>1. files' = "whole"
      BY <1>1, StepAt DEF Saved
    <2>2. QED BY <2>1
  <1>2. CASE Req(c) = "restore" /\ at[c].pc = "copyback"
    <2>1. Goto(c, "unlockinfo")
      BY <1>2, StepAt DEF CopyBack, Polite
    <2>2. Goes(c, "unlockinfo", at[c].db, at[c].info, at[c].man)
      BY <1>0, <2>1, GotoFacts, StepNames
    <2>3. Rewrites(c)'
      BY <1>2, <2>2 DEF Rewrites, Req, Goes
    <2>4. QED BY <2>3
  <1>3. CASE Req(c) = "restore" /\ at[c].pc = "unlockinfo"
    <2>1. Goes(c, "mvfiles", at[c].db, at[c].info, at[c].man)
      BY <1>0, <1>3, StepAt, UnlockInfoMoves
    <2>2. Rewrites(c)'
      BY <1>3, <2>1 DEF Rewrites, Req, Goes
    <2>3. QED BY <2>2
  <1>4. CASE at[c].pc = "mvfiles"
    <2>1. files' = "whole"
      BY <1>4, StepAt DEF MoveFiles
    <2>2. QED BY <2>1
  <1>5. CASE Req(c) = "restore" /\ at[c].pc = "rmfiles"
    <2>1. Goto(c, "copyback")
      BY <1>5, StepAt DEF RemoveFiles
    <2>2. Goes(c, "copyback", at[c].db, at[c].info, at[c].man)
      BY <1>0, <2>1, GotoFacts, StepNames
    <2>3. Rewrites(c)'
      BY <1>5, <2>2 DEF Rewrites, Req, Goes
    <2>4. QED BY <2>3
  <1>6. CASE Req(c) = "restore" /\ at[c].pc = "lockinfo" /\ loaded = 0
    <2>1. LockExclusive(c) \/ LockFails(c)
      BY <1>6, StepAt DEF LockShared
    <2>2. loaded' = 0
      BY <1>6, LoadedStep DEF AddDb, Delete, DropMap, In
    <2>3. CASE LockExclusive(c)
      <3>1. PICK s \in {"trymap", "unmap", "dropmap", "getman", "use", "copy", "rmfiles"} :
               Goes(c, s, at[c].db, InfoOf(c), at[c].man) /\ ServesKind(s, at[c].req)
               /\ (s = "use" => at[c].req = "batch")
        BY <1>0, <2>3, LockExclusiveMoves
      <3>2. s = "rmfiles"
        BY <1>6, <3>1 DEF ServesKind, Req
      <3>3. Rewrites(c)'
        BY <1>6, <2>2, <3>1, <3>2 DEF Rewrites, Req, Goes
      <3>4. QED BY <3>3
    <2>4. CASE LockFails(c)
      <3>1. at[c].info # 0 /\ at[c].info = built /\ built \notin freed
        BY <1>6 DEF LookedUpInv, LookedUp
      <3>2. built \in 1..Len(infoLock) /\ infoLock[built] \in Lock
        BY <1>0, <3>1, LenFacts, ElementOfSeq DEF Types
      <3>3. infoLock[built] # Free
        BY <1>6, <2>4, <3>1 DEF LockFails, HasInfo, InfoOf, CanLock, CanWrite
      <3>4. PICK d \in Clients : (HoldsAlone(d) \/ HoldsShared(d)) /\ at[d].info = built
        <4>1. infoLock[built].wr # NoOne \/ infoLock[built].rd # {}
          BY <3>2, <3>3 DEF Lock, Free
        <4>2. PICK d \in Clients : infoLock[built].wr = d \/ d \in infoLock[built].rd
          BY <3>2, <4>1 DEF Lock
        <4>3. QED BY <3>2, <4>2 DEF InfoLocksInv
      <3>5. /\ at[d].pc # "idle" /\ at[d].pc \in Steps /\ ServesKind(at[d].pc, Req(d)) /\ d # c
            /\ Req(d) \in Kinds
        BY <1>6, <3>4 DEF Maps, Shape, Placed, Types, Handler, HoldsAlone, HoldsShared, Req
      <3>6. {"restore", Req(d)} \notin Apart
        BY <1>6, <3>5 DEF Maps, ApartInv
      <3>7. Req(d) \notin {"load", "backup", "unload", "checkpoint", "drop"}
        <4>1. {"drop", "restore"} \in Apart
          BY DEF Polite, Kinds
        <4>2. {"drop", "restore"} = {"restore", "drop"}
          OBVIOUS
        <4>3. QED BY <3>6, <4>1, <4>2 DEF Polite
      <3>8. Req(d) \notin {"query", "monitor", "batch"}
        BY <1>6, <3>4 DEF LookedUpInv, LookedUp, HoldsAlone, HoldsShared
      <3>9. Req(d) = "restore" /\ at[d].pc \in {"rmfiles", "copyback", "unlockinfo"}
        BY <3>4, <3>5, <3>7, <3>8 DEF HoldsAlone, HoldsShared, ServesKind, Req
      <3>10. Rewrites(d)
        BY <1>6, <3>9 DEF Rewrites
      <3>11. Rewrites(d)'
        BY <3>5, <3>10, StillRewrites
      <3>12. QED BY <3>11
    <2>5. QED BY <2>1, <2>3, <2>4
  <1>7. QED BY <1>1, <1>2, <1>3, <1>4, <1>5, <1>6 DEF Rewrites

\* A database that is built stays it while it is loaded.
LEMMA LoadedIsBuilt ==
    ASSUME Polite, Maps, LookedUpInv, FilesInv, NEW c \in Clients, Serve(c)
    PROVE  /\ loaded' # 0 => built' # 0
           /\ \A d \in Clients : at'[d].pc \in {"dropbuilt", "dropinfo"} => loaded' = 0
  <1>0. /\ at[c].pc # "idle" /\ ServesKind(at[c].pc, Req(c)) /\ built \in Nat
        /\ Len(infoLock) \in Nat /\ at \in [Clients -> Handler]
        /\ \A d \in Clients \ {c} : at'[d] = at[d]
    BY Frame, LenFacts DEF Maps, Shape, Placed
  <1>1. loaded' # 0 => built' # 0
    <2>1. loaded' # 0 => built # 0
      <3>1. CASE AddDb(c)
        <4>1. Req(c) = "load" /\ at[c].pc = "adddb"
          BY <1>0, <3>1 DEF AddDb, In, ServesKind
        <4>2. QED BY <4>1 DEF LookedUpInv, LookedUp
      <3>2. CASE loaded' = loaded \/ loaded' = 0
        BY <3>2 DEF FilesInv
      <3>3. QED BY <3>1, <3>2, LoadedStep DEF Delete, DropMap
    <2>2. CASE DropBuilt(c) \/ DropInfo(c)
      <3>1. at[c].pc \in {"dropbuilt", "dropinfo"}
        BY <2>2 DEF DropBuilt, DropInfo, In
      <3>2. loaded = 0
        BY <3>1 DEF FilesInv
      <3>3. loaded' = loaded
        BY <3>1, LoadedStep DEF AddDb, Delete, DropMap, In
      <3>4. QED BY <3>2, <3>3
    <2>3. CASE built' = built \/ Inserted
      BY <1>0, <2>1, <2>3 DEF Inserted
    <2>4. QED BY <2>2, <2>3, BuiltStep
  <1>2. ASSUME NEW d \in Clients, at'[d].pc \in {"dropbuilt", "dropinfo"} PROVE loaded' = 0
    <2>1. CASE d # c
      <3>1. at[d].pc \in {"dropbuilt", "dropinfo"}
        BY <1>0, <1>2, <2>1
      <3>2. loaded = 0 /\ Req(d) = "drop" /\ at[d].pc # "idle"
        BY <3>1 DEF FilesInv, Maps, Shape, Placed, ServesKind
      <3>3. {"drop", Req(c)} \in Apart
        <4>1. Req(c) \in Kinds
          BY DEF Maps, Shape, Types, Handler, Req
        <4>2. QED BY <4>1 DEF Polite
      <3>4. QED BY <1>0, <2>1, <3>2, <3>3 DEF Maps, ApartInv
    <2>2. CASE d = c
      <3>1. at'[c].pc # "idle" /\ at'[c] # Idle
        BY <1>2, <2>2 DEF Idle
      <3>2. ServesKind(at'[c].pc, at[c].req)
        BY <3>1, Frame DEF Maps
      <3>3. at[c].req = "drop"
        BY <1>2, <2>2, <3>2 DEF ServesKind
      <3>4. at[c].pc \in {"checkexist", "getinfo", "lockinfo", "dropmap", "dropbuilt",
                          "dropinfo", "rm"}
        <4>1. at[c].pc \in Steps
          BY <1>0 DEF Handler
        <4>2. QED BY <1>0, <3>3, <4>1 DEF ServesKind, Steps, Req
      <3>5. CASE at[c].pc = "dropmap"
        BY <3>5, StepAt DEF DropMap, dbs
      <3>6. CASE at[c].pc \in {"dropbuilt", "dropinfo"}
        <4>1. loaded = 0
          BY <3>6 DEF FilesInv
        <4>2. loaded' = loaded
          BY <3>6, LoadedStep DEF AddDb, Delete, DropMap, In
        <4>3. QED BY <4>1, <4>2
      <3>7. CASE at[c].pc = "checkexist"
        <4>1. CheckExist(c)
          BY <3>7, StepAt
        <4>2. at'[c].pc \in {"idle", "build", "checkload", "getdb", "getinfo"}
          BY <1>0, <4>1, CheckExistMoves DEF Goes, Leaves, Idle, Req
        <4>3. QED BY <1>2, <2>2, <4>2
      <3>8. CASE at[c].pc = "getinfo"
        <4>1. at'[c].pc = "lockinfo"
          BY <1>0, <3>8, StepAt, GetInfoMoves DEF Goes
        <4>2. QED BY <1>2, <2>2, <4>1
      <3>9. CASE at[c].pc = "lockinfo"
        <4>1. LockExclusive(c)
          <5>1. ~LockShared(c)
            BY <3>3 DEF LockShared, Req
          <5>2. ~LockFails(c)
            BY <1>0, <3>1 DEF LockFails
          <5>3. QED BY <3>9, <5>1, <5>2, StepAt
        <4>2. at'[c].pc \in {"trymap", "unmap", "dropmap", "getman", "use", "copy", "rmfiles"}
          BY <1>0, <4>1, LockExclusiveMoves DEF Goes, Req
        <4>3. QED BY <1>2, <2>2, <4>2
      <3>10. CASE at[c].pc = "rm"
        <4>1. Remove(c)
          BY <3>10, StepAt
        <4>2. at'[c] = Idle
          BY <1>0, <4>1 DEF Remove, Finish
        <4>3. QED BY <3>1, <4>2
      <3>11. QED BY <3>4, <3>5, <3>6, <3>7, <3>8, <3>9, <3>10
    <2>3. QED BY <2>1, <2>2
  <1>3. QED BY <1>1, <1>2

\* A build that is to add its database has made the files, and nobody else
\* touches them.
LEMMA AddsWhole ==
    ASSUME Polite, Maps, LookedUpInv, FilesInv, NEW c \in Clients, Serve(c),
           NEW d \in Clients, at'[d].pc = "addinfo"
    PROVE  files' = "whole"
  <1>0. /\ at[c].pc # "idle" /\ ServesKind(at[c].pc, Req(c)) /\ Req(c) \in Kinds
        /\ at \in [Clients -> Handler]
        /\ \A e \in Clients \ {c} : at'[e] = at[e]
    BY Frame DEF Maps, Shape, Placed, Types, Handler, Req
  <1>1. CASE d = c
    <2>1. ServesKind(at'[c].pc, at[c].req)
      BY <1>1, Frame DEF Maps, Idle
    <2>2. at[c].req = "build"
      BY <1>1, <2>1 DEF ServesKind
    <2>3. at[c].pc \in {"checkexist", "build", "building", "addinfo"}
      <3>1. at[c].pc \in Steps
        BY <1>0 DEF Handler
      <3>2. QED BY <1>0, <2>2, <3>1 DEF ServesKind, Steps, Req
    <2>4. CASE at[c].pc = "checkexist"
      <3>1. at'[c].pc \in {"idle", "build", "checkload", "getdb", "getinfo"}
        BY <1>0, <2>4, StepAt, CheckExistMoves DEF Goes, Leaves, Idle, Req
      <3>2. QED BY <1>1, <3>1
    <2>5. CASE at[c].pc = "build"
      <3>1. Goto(c, "building")
        BY <2>5, StepAt DEF Build
      <3>2. at'[c].pc = "building"
        BY <1>0, <3>1, GotoFacts, StepNames DEF Goes
      <3>3. QED BY <1>1, <3>2
    <2>6. CASE at[c].pc = "building"
      BY <1>0, <1>1, <2>6, StepAt, BuildEndsMoves DEF Leaves, Idle
    <2>7. CASE at[c].pc = "addinfo"
      <3>1. AddInfo(c)
        BY <2>7, StepAt
      <3>2. at'[c].pc = "idle"
        BY <1>0, <3>1 DEF AddInfo, Finish, Idle
      <3>3. QED BY <1>1, <3>2
    <2>8. QED BY <2>3, <2>4, <2>5, <2>6, <2>7
  <1>2. CASE d # c
    <2>1. at[d].pc = "addinfo" /\ files = "whole"
      BY <1>0, <1>2 DEF FilesInv
    <2>2. Req(d) = "build" /\ built = 0
      BY <2>1 DEF Maps, Shape, Placed, ServesKind, LookedUpInv, LookedUp
    <2>3. {"build", Req(c)} \notin Apart
      BY <1>0, <1>2, <2>1, <2>2 DEF Maps, ApartInv
    <2>4. Req(c) \notin {"build", "restore", "drop"}
      <3>1. {"drop", "build"} \in Apart /\ {"build", "build"} \in Apart
            /\ {"build", "restore"} \in Apart
        BY DEF Polite, Kinds
      <3>2. {"drop", "build"} = {"build", "drop"}
        OBVIOUS
      <3>3. QED BY <2>3, <3>1, <3>2
    <2>5. CASE Save(c) \/ Saved(c)
      <3>1. Req(c) = "checkpoint" /\ at[c].pc \in {"save", "saved"}
        BY <1>0, <2>5 DEF Save, Saved, In, ServesKind
      <3>2. built # 0
        BY <3>1 DEF LookedUpInv, LookedUp
      <3>3. QED BY <2>2, <3>2
    <2>6. CASE Remove(c) \/ Build(c) \/ BuildEnds(c) \/ RemoveFiles(c) \/ MoveFiles(c)
      <3>1. CASE MoveFiles(c)
        BY <3>1 DEF MoveFiles
      <3>2. CASE Remove(c) \/ Build(c) \/ BuildEnds(c) \/ RemoveFiles(c)
        <4>1. at[c].pc \in {"rm", "build", "building", "rmfiles"}
          BY <3>2 DEF Remove, Build, BuildEnds, RemoveFiles, In
        <4>2. QED BY <1>0, <2>4, <4>1 DEF ServesKind
      <3>3. QED BY <2>6, <3>1, <3>2
    <2>7. QED BY <2>1, <2>5, <2>6, FilesStep
  <1>3. QED BY <1>1, <1>2

\* Whoever leaves the files of a database that is built in pieces, or adds a
\* database without files, is to make them whole.
LEMMA PiecesAreRewritten ==
    ASSUME Polite, Maps, LookedUpInv, InfoLocksInv, FilesInv, NEW c \in Clients, Serve(c),
           built' # 0, files' # "whole"
    PROVE  \E d \in Clients : Rewrites(d)'
  <1>0. /\ at[c].pc # "idle" /\ ServesKind(at[c].pc, Req(c)) /\ built \in Nat
        /\ at \in [Clients -> Handler] /\ Len(infoLock) \in Nat /\ Types /\ Placed(c)
        /\ \A e \in Clients \ {c} : at'[e] = at[e]
    BY Frame, LenFacts DEF Maps, Shape, Placed
  <1>1. CASE built # 0 /\ files # "whole"
    <2>1. PICK d \in Clients : Rewrites(d)
      BY <1>1 DEF FilesInv
    <2>2. CASE d = c
      BY <1>1, <2>1, <2>2, RewritesOn
    <2>3. CASE d # c
      <3>1. at[d].pc # "idle"
        BY <2>1 DEF Rewrites
      <3>2. Rewrites(d)'
        BY <2>1, <2>3, <3>1, StillRewrites
      <3>3. QED BY <3>2
    <2>4. QED BY <2>2, <2>3
  <1>2. CASE built = 0
    <2>1. (AddInfo(c) \/ FindInfo(c)) /\ Inserted
      BY <1>2, BuiltStep
    <2>2. CASE AddInfo(c)
      <3>1. files' = files /\ at[c].pc = "addinfo"
        BY <2>2 DEF AddInfo, In
      <3>2. QED BY <3>1 DEF FilesInv
    <2>3. CASE FindInfo(c)
      <3>1. loaded = 0 /\ loaded' = loaded
        BY <1>2, <2>3 DEF FilesInv, FindInfo, dbs
      <3>2. Goes(c, "lockinfo", at[c].db, built', at[c].man) /\ at[c].pc = "findinfo"
        <4>1. ~(UNCHANGED <<built, infoLock>>)
          BY <1>2
        <4>2. QED BY <1>0, <2>3, <4>1, FindInfoMoves
      <3>3. Req(c) = "restore"
        BY <1>0, <3>2 DEF ServesKind
      <3>4. Rewrites(c)'
        BY <3>1, <3>2, <3>3 DEF Rewrites, Goes, Req
      <3>5. QED BY <3>4
    <2>4. QED BY <2>1, <2>2, <2>3
  <1>3. CASE built # 0 /\ files = "whole"
    <2>1. CASE Save(c)
      <3>1. Goto(c, "saved")
        BY <2>1 DEF Save
      <3>2. at'[c].pc = "saved"
        BY <1>0, <3>1, GotoFacts, StepNames DEF Goes
      <3>3. Rewrites(c)'
        BY <3>2 DEF Rewrites
      <3>4. QED BY <3>3
    <2>2. CASE RemoveFiles(c)
      <3>1. Goto(c, "copyback") /\ at[c].pc = "rmfiles"
        BY <2>2 DEF RemoveFiles, In
      <3>2. Goes(c, "copyback", at[c].db, at[c].info, at[c].man)
        BY <1>0, <3>1, GotoFacts, StepNames
      <3>3. Req(c) = "restore"
        BY <1>0, <3>1 DEF ServesKind
      <3>4. Rewrites(c)'
        BY <3>2, <3>3 DEF Rewrites, Goes, Req
      <3>5. QED BY <3>4
    <2>3. CASE Remove(c) \/ Build(c) \/ BuildEnds(c)
      <3>1. at[c].pc \in {"rm", "build", "building"}
        BY <2>3 DEF Remove, Build, BuildEnds, In
      <3>2. QED BY <1>3, <3>1 DEF LookedUpInv, LookedUp
    <2>4. CASE Saved(c) \/ MoveFiles(c)
      BY <2>4 DEF Saved, MoveFiles
    <2>5. QED BY <1>3, <2>1, <2>2, <2>3, <2>4, FilesStep
  <1>4. QED BY <1>1, <1>2, <1>3

\* FilesInv is inductive, on top of the locks.
LEMMA FilesInvStep ==
    ASSUME Polite, Maps, LookedUpInv, InfoLocksInv, FilesInv, [Next]_vars
    PROVE  FilesInv'
  <1>1. ASSUME NEW c \in Clients, Serve(c) PROVE FilesInv'
    <2>1. /\ loaded' # 0 => built' # 0
          /\ \A d \in Clients : at'[d].pc \in {"dropbuilt", "dropinfo"} => loaded' = 0
      BY <1>1, LoadedIsBuilt
    <2>2. \A d \in Clients : at'[d].pc = "addinfo" => files' = "whole"
      BY <1>1, AddsWhole
    <2>3. built' # 0 /\ files' # "whole" => \E d \in Clients : Rewrites(d)'
      BY <1>1, PiecesAreRewritten
    <2>4. QED BY <2>1, <2>2, <2>3 DEF FilesInv
  <1>2. ASSUME NEW c \in Clients, NEW k \in Requests, Request(c, k) PROVE FilesInv'
    <2>1. /\ at[c].pc = "idle" /\ at'[c].pc \in {"show", "findinfo", "getdb", "checkexist"}
          /\ \A d \in Clients \ {c} : at'[d] = at[d]
      BY <1>2, RequestFrame DEF Maps, Idle
    <2>2. built' = built /\ loaded' = loaded /\ files' = files
      BY <1>2 DEF Request, infos, dbs
    <2>3. \A d \in Clients : /\ at'[d].pc = "addinfo" => files = "whole"
                             /\ at'[d].pc \in {"dropbuilt", "dropinfo"} => loaded = 0
      BY <2>1 DEF FilesInv
    <2>4. ASSUME built # 0, files # "whole" PROVE \E d \in Clients : Rewrites(d)'
      <3>1. PICK d \in Clients : Rewrites(d)
        BY <2>4 DEF FilesInv
      <3>2. at'[d] = at[d]
        BY <2>1, <3>1 DEF Rewrites
      <3>3. Rewrites(d)'
        BY <2>2, <3>1, <3>2 DEF Rewrites, Req
      <3>4. QED BY <3>3
    <2>5. loaded # 0 => built # 0
      BY DEF FilesInv
    <2>6. QED BY <2>2, <2>3, <2>4, <2>5 DEF FilesInv
  <1>3. CASE UNCHANGED vars
    BY <1>3 DEF vars, infos, dbs, FilesInv, Rewrites, Req
  <1>4. QED BY <1>1, <1>2, <1>3 DEF Next

\* FilesInv holds at first.
LEMMA FilesInvInit == Init => FilesInv
  BY DEF Init, FilesInv, Idle

-----------------------------------------------------------------------------
(* No fault                                                                *)

\* Which steps may go wrong.
LEMMA FaultStep ==
    ASSUME NEW c \in Clients, Serve(c)
    PROVE  \/ faults' = faults
           \/ Finish(c) /\ at[c].pc \notin {"eraseman", "abortall", "waitckpt", "merge", "delete"}
           \/ LockFails(c) \/ DropInfo(c)
           \/ (Use(c) \/ Used(c)) /\ Uses(at[c].db)
           \/ (Merge(c) \/ Query(c) \/ QueryEnds(c) \/ Ending(c)) /\ Uses(at[c].man)
           \/ (Loading(c) \/ Copy(c)) /\ TouchesFiles(0)
           \/ Delete(c) /\ TouchesFiles(loaded)
           \/ Save(c) /\ TouchesFiles(at[c].db)
  <1>1. CASE CheckExist(c) \/ CheckLoad(c) \/ GetDb(c) \/ GetInfo(c)
             \/ GetMan(c) \/ LockShared(c) \/ LockExclusive(c) \/ LockFails(c)
    BY <1>1 DEF CheckExist, CheckLoad, GetDb, GetInfo, GetMan, LockShared, LockExclusive, In
  <1>2. CASE Use(c) \/ Used(c) \/ UnlockInfo(c) \/ TryMap(c) \/ Loading(c)
             \/ AddManager(c) \/ AddDb(c) \/ Unmap(c) \/ FindMan(c) \/ EraseMan(c)
    BY <1>2 DEF Use, Used, UnlockInfo, TryMap, Loading, AddManager, AddDb, Unmap, FindMan,
       EraseMan, In
  <1>3. CASE AbortAll(c) \/ WaitCheckpoint(c) \/ Merge(c) \/ Delete(c) \/ Save(c)
             \/ Saved(c) \/ DropMap(c) \/ DropBuilt(c) \/ DropInfo(c) \/ Remove(c)
    BY <1>3 DEF AbortAll, WaitCheckpoint, Merge, Delete, Save, Saved, DropMap, DropBuilt,
       Remove, In
  <1>4. CASE Build(c) \/ BuildEnds(c) \/ AddInfo(c) \/ Copy(c) \/ FindInfo(c)
             \/ RemoveFiles(c) \/ CopyBack(c) \/ MoveFiles(c) \/ Show(c) \/ ShowDb(c)
    BY <1>4 DEF Build, BuildEnds, AddInfo, Copy, FindInfo, RemoveFiles, CopyBack, MoveFiles,
       Show, ShowDb, In
  <1>5. CASE Begin(c) \/ AddTransaction(c) \/ Refused(c) \/ Query(c) \/ QueryEnds(c)
             \/ End(c) \/ Ending(c)
    BY <1>5 DEF Begin, AddTransaction, Refused, Query, QueryEnds, End, Ending, In
  <1>6. QED BY <1>1, <1>2, <1>3, <1>4, <1>5 DEF Serve

\* Who has the lock of the database alone, and is no restore, finds whole files.
LEMMA FindsWhole ==
    ASSUME Polite, Maps, LookedUpInv, InfoLocksInv, FilesInv, NEW c \in Clients,
           HoldsAlone(c), at[c].pc # "saved",
           Req(c) \in {"load", "unload", "backup", "checkpoint"}
    PROVE  files = "whole"
  <1>1. SUFFICES ASSUME files # "whole" PROVE FALSE
    OBVIOUS
  <1>2. at[c].pc \notin {"idle", "checkexist", "rm"}
    BY DEF HoldsAlone
  <1>3. built # 0
    BY <1>2 DEF LookedUpInv, LookedUp
  <1>4. PICK d \in Clients : Rewrites(d)
    BY <1>1, <1>3 DEF FilesInv
  <1>5. CASE at[d].pc = "saved"
    <2>1. HoldsAlone(d) /\ d # c
      BY <1>5 DEF HoldsAlone
    <2>2. QED BY <2>1, OneHoldsInfo
  <1>6. CASE Req(d) = "restore" /\ at[d].pc # "idle"
    <2>1. {"restore", Req(c)} \in Apart
      BY DEF Polite
    <2>2. d # c
      BY <1>6
    <2>3. QED BY <1>2, <1>6, <2>1, <2>2 DEF Maps, ApartInv
  <1>7. QED BY <1>4, <1>5, <1>6 DEF Rewrites

\* A handler that returns does not delete a manager of a deleted Database.
LEMMA FinishesWell ==
    ASSUME Maps, LookedUpInv, NEW c \in Clients, at[c].pc # "idle", faults = {}, Finish(c),
           at[c].pc \notin {"eraseman", "abortall", "waitckpt", "merge", "delete"}
    PROVE  faults' = {}
  <1>1. CASE Req(c) = "unload"
    <2>1. at[c].man = 0
      BY <1>1 DEF Maps, MapsInv, Unloading
    <2>2. QED BY <2>1 DEF Finish, LastOf
  <1>2. CASE Req(c) # "unload"
    <2>1. at[c].man # 0 => at[c].man = managers
      BY <1>2 DEF LookedUpInv, LookedUp
    <2>2. QED BY <2>1 DEF Finish, LastOf
  <1>3. QED BY <1>1, <1>2

\* No step goes wrong.
LEMMA NoFaultStep ==
    ASSUME Polite, Maps, LookedUpInv, InfoLocksInv, FilesInv, NEW c \in Clients, Serve(c)
    PROVE  faults' = {}
  <1>0. /\ at[c].pc # "idle" /\ ServesKind(at[c].pc, Req(c)) /\ Placed(c) /\ Types
        /\ at[c].pc \in Steps /\ faults = {} /\ built \in Nat /\ Len(infoLock) \in Nat
    BY Frame, LenFacts DEF Maps, Shape, Placed, Types, Handler
  <1>1. loaded \notin deleted /\ 0 \notin deleted
    BY DEF Maps, MapsInv
  <1>2. LookedUp(c) /\ built \notin freed
    BY DEF LookedUpInv
  <1>3. CASE Finish(c) /\ at[c].pc \notin {"eraseman", "abortall", "waitckpt", "merge", "delete"}
    BY <1>0, <1>3, FinishesWell
  <1>4. CASE LockFails(c)
    <2>1. at[c].pc = "lockinfo"
      BY <1>4 DEF LockFails, ReachesInfo, In
    <2>2. Req(c) \in {"load", "unload", "drop", "backup", "restore", "monitor",
                      "checkpoint", "batch", "query"}
      BY <1>0, <2>1 DEF ServesKind
    <2>3. InfoOf(c) = built /\ built # 0
      BY <1>2, <2>1, <2>2 DEF LookedUp, InfoOf
    <2>4. QED BY <1>0, <1>2, <1>4, <2>3 DEF LockFails, HasInfo
  <1>5. CASE DropInfo(c)
    <2>1. at[c].pc = "dropinfo"
      BY <1>5 DEF DropInfo, In
    <2>2. at[c].info # 0
      BY <1>0, <2>1 DEF Placed, HoldsAlone
    <2>3. at[c].info = built
      BY <1>2, <2>1, <2>2 DEF LookedUp
    <2>4. QED BY <1>0, <1>2, <1>5, <2>3 DEF DropInfo
  <1>6. CASE (Use(c) \/ Used(c)) /\ Uses(at[c].db)
    <2>1. at[c].pc \in {"use", "used"}
      BY <1>6 DEF Use, Used, In
    <2>2. at[c].db = loaded
      BY <1>0, <1>2, <2>1 DEF ServesKind, LookedUp
    <2>3. QED BY <1>0, <1>1, <1>6, <2>2 DEF Uses
  <1>7. CASE (Merge(c) \/ Query(c) \/ QueryEnds(c) \/ Ending(c)) /\ Uses(at[c].man)
    <2>1. at[c].pc \in {"merge", "tquery", "tqueried", "ending"}
      BY <1>7 DEF Merge, Query, QueryEnds, Ending, In
    <2>2. at[c].man # 0
      BY <1>0, <2>1 DEF Placed
    <2>3. at[c].man \notin deleted
      <3>1. CASE Req(c) = "unload"
        <4>1. at[c].man = loaded
          BY <2>2, <3>1 DEF Maps, MapsInv
        <4>2. QED BY <1>1, <4>1
      <3>2. CASE Req(c) # "unload"
        BY <1>2, <2>2, <3>2 DEF LookedUp
      <3>3. QED BY <3>1, <3>2
    <2>4. QED BY <1>0, <1>7, <2>3 DEF Uses
  <1>8. CASE (Loading(c) \/ Copy(c)) /\ TouchesFiles(0)
    <2>1. at[c].pc \in {"loading", "copy"}
      BY <1>8 DEF Loading, Copy, In
    <2>2. HoldsAlone(c) /\ Req(c) \in {"load", "backup"}
      BY <1>0, <2>1 DEF HoldsAlone, ServesKind
    <2>3. files = "whole"
      BY <2>1, <2>2, FindsWhole
    <2>4. QED BY <1>0, <1>1, <1>8, <2>3 DEF TouchesFiles
  <1>9. CASE Delete(c) /\ TouchesFiles(loaded)
    <2>1. at[c].pc = "delete"
      BY <1>9 DEF Delete, In
    <2>2. HoldsAlone(c) /\ Req(c) = "unload"
      BY <1>0, <2>1 DEF HoldsAlone, ServesKind
    <2>3. files = "whole"
      BY <2>1, <2>2, FindsWhole
    <2>4. QED BY <1>0, <1>1, <1>9, <2>3 DEF TouchesFiles
  <1>10. CASE Save(c) /\ TouchesFiles(at[c].db)
    <2>1. at[c].pc = "save"
      BY <1>10 DEF Save, In
    <2>2. HoldsAlone(c) /\ Req(c) = "checkpoint"
      BY <1>0, <2>1 DEF HoldsAlone, ServesKind
    <2>3. files = "whole"
      BY <2>1, <2>2, FindsWhole
    <2>4. at[c].db = loaded
      BY <1>2, <2>1, <2>2 DEF LookedUp
    <2>5. QED BY <1>0, <1>1, <1>10, <2>3, <2>4 DEF TouchesFiles
  <1>11. CASE faults' = faults
    BY <1>0, <1>11
  <1>12. QED BY <1>3, <1>4, <1>5, <1>6, <1>7, <1>8, <1>9, <1>10, <1>11, FaultStep

-----------------------------------------------------------------------------
(* What holds in every reachable state                                     *)

\* The invariants of the maps, of what handlers have looked up, of the locks
\* and of the files hold in every reachable state, and nothing goes wrong.
THEOREM ServingAlways == ASSUME Polite PROVE Spec => []Serving
  <1>1. Init => Serving
    BY ShapeInit, ApartInit, OpenInit, MapsInit, LookedUpInit, InfoLocksInit, FilesInvInit
       DEF Serving, Maps, NoFault, Init
  <1>2. Serving /\ [Next]_vars => Serving'
    <2> SUFFICES ASSUME Serving, [Next]_vars PROVE Serving'
      OBVIOUS
    <2>1. Maps'
      BY ShapeStep, ApartStep, OpenStep, MapLocksStep, MapsStep DEF Serving, Maps
    <2>2. LookedUpInv' /\ InfoLocksInv' /\ FilesInv'
      BY LookedUpStep, InfoLocksStep, FilesInvStep DEF Serving
    <2>3. NoFault'
      <3>1. ASSUME NEW c \in Clients, Serve(c) PROVE NoFault'
        BY <3>1, NoFaultStep DEF Serving, NoFault
      <3>2. ASSUME NEW c \in Clients, NEW k \in Requests, Request(c, k) PROVE NoFault'
        BY <3>2 DEF Request, Serving, NoFault
      <3>3. CASE UNCHANGED vars
        BY <3>3 DEF vars, Serving, NoFault
      <3>4. QED BY <3>1, <3>2, <3>3 DEF Next
    <2>4. QED BY <2>1, <2>2, <2>3 DEF Serving
  <1>3. QED BY <1>1, <1>2, PTL DEF Spec

\* No handler works on a Database or a DBInfo that another has deleted, or
\* reads files that another is writing.
THEOREM NothingDeletedIsUsed == ASSUME Polite PROVE Spec => []NoFault
  <1>1. Serving => NoFault
    BY DEF Serving
  <1>2. QED BY <1>1, ServingAlways, PTL

\* A handler that has returned holds no lock.
THEOREM LocksHandedBack == ASSUME Polite PROVE Spec => []HandsBack
  <1>1. Serving => HandsBack
    <2> SUFFICES ASSUME Serving, NEW c \in Clients, at[c].pc = "idle",
                        NEW l \in {abLock, dmLock, tmLock}
                                  \cup {infoLock[i] : i \in 1..Len(infoLock)}
                 PROVE  l.wr # c /\ c \notin l.rd
      BY DEF HandsBack
    <2>1. ~HoldsMap(c) /\ ~HoldsAlone(c) /\ ~HoldsShared(c)
      BY DEF HoldsMap, HoldsAlone, HoldsShared
    <2>2. NoOne \notin Clients
      BY ServerAssumption
    <2>3. CASE l = abLock \/ l = dmLock
      BY <2>1, <2>2, <2>3 DEF Serving, Maps, MapLocksInv
    <2>4. CASE l = tmLock
      BY <2>2, <2>4 DEF Serving, Maps, Shape, Types, Free
    <2>5. CASE \E i \in 1..Len(infoLock) : l = infoLock[i]
      BY <2>1, <2>5 DEF Serving, InfoLocksInv
    <2>6. QED BY <2>3, <2>4, <2>5
  <1>2. QED BY <1>1, ServingAlways, PTL

\* Whoever works on a Database with its lock held alone is alone in it.
THEOREM AloneAtWork == ASSUME Polite PROVE Spec => []WorksAlone
  <1>1. Serving => WorksAlone
    <2> SUFFICES ASSUME Serving, NEW c \in Clients, NEW d \in Clients, c # d,
                        Working(c), Working(d)
                 PROVE  Req(c) \in {"query", "monitor"} /\ Req(d) \in {"query", "monitor"}
      BY DEF WorksAlone
    <2>1. ASSUME NEW e \in Clients, Working(e)
          PROVE  HoldsAlone(e) \/ (HoldsShared(e) /\ Req(e) \in {"query", "monitor"})
      BY <2>1 DEF Working, HoldsAlone, HoldsShared, Serving, Maps, Shape, Placed, ServesKind
    <2>2. QED BY <2>1, OneHoldsInfo DEF Serving
  <1>2. QED BY <1>1, ServingAlways, PTL

-----------------------------------------------------------------------------
(* Transactions                                                            *)

\* Which steps change what runs on a manager, and that new ones are empty.
LEMMA RunningStep ==
    ASSUME Shape, NEW c \in Clients, Serve(c)
    PROVE  /\ Len(mgr) \in Nat /\ Len(mgr') \in Nat /\ Len(mgr') >= Len(mgr)
           /\ \A m \in 1..Len(mgr') : m \notin 1..Len(mgr) => mgr'[m] = NewManager
           /\ \/ \A m \in 1..Len(mgr) : /\ mgr'[m].begun = mgr[m].begun
                                        /\ mgr'[m].running = mgr[m].running
              \/ AbortAll(c) \/ Delete(c) \/ AddTransaction(c)
              \/ (QueryEnds(c) \/ Ending(c)) /\ mgr' = Ended(at[c].man, tid[c])
  <1>0. Types /\ Placed(c) /\ Len(mgr) \in Nat
    BY LenFacts DEF Shape
  <1>1. Len(mgr') \in Nat /\ Len(mgr') >= Len(mgr)
    BY <1>0, ListsStep
  <1>2. CASE mgr' = mgr
    BY <1>0, <1>1, <1>2
  <1>3. CASE WaitCheckpoint(c) \/ Merge(c) \/ Begin(c) \/ Refused(c)
    <2>1. at[c].man \in 1..Len(mgr)
      BY <1>0, <1>3, HasManager DEF WaitCheckpoint, Merge, Begin, Refused, In
    <2>2. \E ckpt, readers :
             SetsManager(at[c].man, ckpt, readers, mgr[at[c].man].begun, mgr[at[c].man].running)
      BY <1>0, <1>3, <2>1, WaitCheckpointFacts, MergeFacts, BeginFacts, RefusedFacts
    <2>3. QED BY <1>0, <1>1, <2>2 DEF SetsManager
  <1>4. CASE Loading(c)
    <2>1. AddsManager
      BY <1>0, <1>4, LoadingFacts
    <2>2. QED BY <1>0, <1>1, <2>1 DEF AddsManager
  <1>5. CASE AbortAll(c)
    <2>1. Len(mgr') = Len(mgr)
      <3>1. at[c].man \in 1..Len(mgr)
        BY <1>0, <1>5, HasManager DEF AbortAll, In
      <3>2. QED BY <1>0, <1>5, <3>1, AbortAllFacts DEF SetsManager
    <2>2. QED BY <1>0, <1>1, <1>5, <2>1
  <1>6. CASE Delete(c)
    <2>1. Len(mgr') = Len(mgr)
      <3>1. at[c].man \in 0..Len(mgr)
        BY <1>0 DEF Placed
      <3>2. QED BY <1>0, <1>6, <3>1, DeleteFacts DEF SetsManager
    <2>2. QED BY <1>0, <1>1, <1>6, <2>1
  <1>7. CASE AddTransaction(c)
    <2>1. Len(mgr') = Len(mgr)
      <3>1. at[c].man \in 1..Len(mgr)
        BY <1>0, <1>7, HasManager DEF AddTransaction, In
      <3>2. QED BY <1>0, <1>7, <3>1, AddTransactionFacts DEF SetsManager
    <2>2. QED BY <1>0, <1>1, <1>7, <2>1
  <1>8. CASE (QueryEnds(c) \/ Ending(c)) /\ mgr' = Ended(at[c].man, tid[c])
    <2>1. Len(mgr') = Len(mgr)
      <3>1. at[c].man \in 1..Len(mgr)
        BY <1>0, <1>8, HasManager DEF QueryEnds, Ending, In
      <3>2. QED BY <1>0, <1>8, <3>1, EndedFacts DEF SetsManager
    <2>2. QED BY <1>0, <1>1, <1>8, <2>1
  <1>9. QED BY <1>2, <1>3, <1>4, <1>5, <1>6, <1>7, <1>8, ManagerStep

\* Only after a look at the transaction that finds it running does a handler
\* get to where it works on it.
LEMMA WorksOnRunning ==
    ASSUME Shape, NEW c \in Clients, Serve(c), at'[c].pc \in {"tqueried", "ending"}
    PROVE  Query(c) \/ End(c)
  <1>0. /\ at[c].pc \in Steps /\ at[c].pc # "idle"
        /\ at'[c].req = at[c].req /\ ServesKind(at'[c].pc, at[c].req)
    <2>1. at'[c] # Idle
      BY DEF Idle
    <2>2. at[c] \in Handler
      BY DEF Shape, Types
    <2>3. QED BY <2>1, <2>2, Frame DEF Handler
  <1>1. at[c].req \in {"tquery", "commit", "rollback"}
    BY <1>0 DEF ServesKind
  <1>q. ServesKind(at[c].pc, at[c].req) /\ at \in [Clients -> Handler]
    BY DEF Shape, Types, Placed, Req
  <1>2. at[c].pc \in {"checkexist", "checkload", "getdb", "getman", "tquery", "tqueried",
                      "end", "ending"}
    BY <1>0, <1>1, <1>q DEF Steps, ServesKind
  <1>n. loaded \in Nat /\ managers \in Nat
    BY LenFacts DEF Shape
  <1>l. ~Leaves(c)
    BY DEF Leaves, Idle
  <1>3. ASSUME NEW s, NEW db, NEW info, NEW man, Goes(c, s, db, info, man)
        PROVE  s \in {"tqueried", "ending"}
    BY <1>3 DEF Goes
  <1>c. CASE at[c].pc = "checkexist"
    BY <1>q, <1>c, <1>l, <1>3, StepAt, CheckExistMoves
  <1>d. CASE at[c].pc = "checkload"
    BY <1>q, <1>d, <1>l, <1>3, StepAt, CheckLoadMoves
  <1>e. CASE at[c].pc = "getdb"
    BY <1>q, <1>e, <1>n, <1>l, <1>3, StepAt, GetDbMoves
  <1>4. CASE at[c].pc = "getman"
    BY <1>q, <1>4, <1>n, <1>l, <1>3, StepAt, GetManMoves
  <1>5. CASE at[c].pc \in {"tquery", "tqueried", "end", "ending"}
    <2>1. \/ Query(c) \/ End(c)
          \/ at' = [at EXCEPT ![c] = Idle]
      BY <1>5, StepAt DEF Refused, QueryEnds, Ending, Finish
    <2>2. QED BY <1>0, <1>q, <2>1 DEF Idle
  <1>6. QED BY <1>2, <1>c, <1>d, <1>e, <1>4, <1>5

\* A client that asks about its transaction has one, and the manager that is
\* there is its handler's.
LEMMA AsksManager ==
    ASSUME Serving, NEW c \in Clients,
           at[c].pc \in {"tquery", "tqueried", "end", "ending"}
    PROVE  /\ tid[c] # 0 /\ at[c].man = managers /\ managers \in 1..Len(mgr)
           /\ Req(c) \in {"tquery", "commit", "rollback"}
  <1>1. Req(c) \in {"tquery", "commit", "rollback"} /\ at[c].man # 0
        /\ at[c].man \in 0..Len(mgr)
    BY DEF Serving, Maps, Shape, Placed, ServesKind
  <1>2. tid[c] # 0
    BY <1>1 DEF Serving, Maps, OpenInv
  <1>3. at[c].man = managers
    BY <1>1 DEF Serving, LookedUpInv, LookedUp
  <1>4. Len(mgr) \in Nat
    BY LenFacts DEF Serving, Maps, Shape
  <1>5. QED BY <1>1, <1>2, <1>3, <1>4

\* Steps that change no transaction.
LEMMA TxnsUntouched ==
    ASSUME Serving, OpenTxnInv, NEW c \in Clients, Serve(c),
           tid' = tid, told' = told, home' = home, managers' = managers,
           \A m \in 1..Len(mgr) : /\ mgr'[m].begun = mgr[m].begun
                                  /\ mgr'[m].running = mgr[m].running
    PROVE  OpenTxnInv'
  <1>0. Shape /\ managers \in 0..Len(mgr)
    BY DEF Serving, Maps, Shape, Types
  <1>1. /\ Len(mgr) \in Nat /\ Len(mgr') \in Nat /\ Len(mgr') >= Len(mgr)
        /\ \A m \in 1..Len(mgr') : m \notin 1..Len(mgr) => mgr'[m] = NewManager
    BY <1>0, RunningStep
  <1>2. ASSUME NEW d \in Clients PROVE HasTxn(d)'
    <2>1. at'[d].pc \in {"tqueried", "ending"} => ~told[d]
      <3>1. CASE d # c
        BY <1>0, <3>1, Frame DEF OpenTxnInv, HasTxn
      <3>2. CASE d = c /\ at'[c].pc \in {"tqueried", "ending"}
        <4>1. IsRunning(c) /\ at[c].pc \in {"tquery", "end"}
          BY <1>0, <3>2, WorksOnRunning DEF Query, End, In
        <4>2. tid[c] # 0 /\ at[c].man = managers
          BY <4>1, AsksManager
        <4>3. QED BY <3>2, <4>1, <4>2 DEF IsRunning, OpenTxnInv, HasTxn
      <3>3. QED BY <3>1, <3>2
    <2>2. at'[d].pc # "idle" /\ at'[d].req = "commit" => ~told[d]
      <3>1. \/ at'[d] = at[d] \/ at'[d].pc = "idle"
            \/ d = c /\ at'[d].req = at[d].req /\ at[d].pc # "idle"
        BY <1>0, Frame DEF Idle
      <3>2. QED BY <3>1 DEF OpenTxnInv, HasTxn, Req
    <2>3. managers # 0 => /\ mgr'[managers].begun = mgr[managers].begun
                          /\ mgr'[managers].running = mgr[managers].running
      BY <1>0, <1>1
    <2>4. HasTxn(d)
      BY DEF OpenTxnInv
    <2>5. QED BY <2>1, <2>2, <2>3, <2>4 DEF HasTxn, Req
  <1>3. ASSUME NEW m \in 1..Len(mgr') PROVE RunsFor(m)'
    <2>1. CASE m \in 1..Len(mgr)
      BY <2>1 DEF OpenTxnInv, RunsFor
    <2>2. CASE m \notin 1..Len(mgr)
      BY <1>1, <2>2 DEF NewManager, RunsFor
    <2>3. QED BY <2>1, <2>2
  <1>4. QED BY <1>2, <1>3 DEF OpenTxnInv

\* Where no client has a transaction open, none runs.
LEMMA NoneRuns ==
    ASSUME OpenTxnInv, NEW m \in 1..Len(mgr), Serving,
           \/ \A d \in Clients : tid[d] = 0
           \/ m # managers
    PROVE  mgr[m].running = {}
  BY DEF OpenTxnInv, RunsFor

\* While a database is unloaded, or comes to have a manager, no client has a
\* transaction open and none runs.
LEMMA TxnsNone ==
    ASSUME Serving, OpenTxnInv, NEW c \in Clients, Serve(c),
           \/ AbortAll(c) \/ Delete(c) \/ EraseMan(c)
           \/ AddManager(c) /\ managers = 0
    PROVE  OpenTxnInv'
  <1>0. Shape /\ managers \in 0..Len(mgr) /\ Types /\ Placed(c) /\ Len(mgr) \in Nat
        /\ at[c].man \in 0..Len(mgr)
    BY LenFacts DEF Serving, Maps, Shape, Types, Placed
  <1>1. /\ Len(mgr') \in Nat /\ Len(mgr') = Len(mgr)
        /\ \A m \in 1..Len(mgr) : mgr'[m].running \in {mgr[m].running, {}}
    <2>1. CASE AbortAll(c)
      <3>1. at[c].man \in 1..Len(mgr)
        BY <1>0, <2>1, HasManager DEF AbortAll, In
      <3>2. QED BY <1>0, <2>1, <3>1, AbortAllFacts DEF SetsManager
    <2>2. CASE Delete(c)
      BY <1>0, <2>2, DeleteFacts DEF SetsManager
    <2>3. CASE EraseMan(c) \/ AddManager(c)
      BY <1>0, <2>3 DEF EraseMan, AddManager
    <2>4. QED BY <2>1, <2>2, <2>3
  <1>2. \A d \in Clients : tid[d] = 0
    <2>1. CASE AbortAll(c) \/ Delete(c) \/ EraseMan(c)
      <3>1. at[c].pc # "idle" /\ Req(c) = "unload"
        BY <1>0, <2>1 DEF AbortAll, Delete, EraseMan, In, Placed, ServesKind
      <3>2. QED BY <3>1 DEF Serving, Maps, OpenInv
    <2>2. CASE managers = 0
      BY <2>2 DEF OpenTxnInv, HasTxn
    <2>3. QED BY <2>1, <2>2
  <1>3. \A m \in 1..Len(mgr) : mgr'[m].running = {}
    BY <1>1, <1>2, NoneRuns
  <1>4. tid' = tid /\ told' = told
    BY DEF AbortAll, Delete, EraseMan, AddManager, clientVars
  <1>5. ASSUME NEW d \in Clients PROVE HasTxn(d)'
    BY <1>2, <1>4 DEF OpenTxnInv, HasTxn
  <1>6. ASSUME NEW m \in 1..Len(mgr') PROVE RunsFor(m)'
    BY <1>1, <1>3 DEF RunsFor
  <1>7. QED BY <1>2, <1>4, <1>5, <1>6 DEF OpenTxnInv

\* begin: the new TID is above all others.
LEMMA TxnBegins ==
    ASSUME Serving, OpenTxnInv, NEW c \in Clients, AddTransaction(c)
    PROVE  OpenTxnInv'
  <1> DEFINE m == at[c].man
             n == mgr[m].begun + 1
  <1>0. /\ Types /\ Placed(c) /\ Len(mgr) \in Nat /\ at[c].pc = "addtxn"
        /\ at \in [Clients -> Handler]
    BY LenFacts DEF Serving, Maps, Shape, AddTransaction, In, Types
  <1>1. m \in 1..Len(mgr)
    BY <1>0, HasManager
  <1>2. m = managers /\ tid[c] = 0
    <2>1. Req(c) = "begin"
      BY <1>0 DEF Placed, ServesKind
    <2>2. tid[c] = 0
      BY <1>0, <2>1 DEF Serving, Maps, OpenInv
    <2>3. m = managers
      BY <1>0, <1>1, <2>1 DEF Serving, LookedUpInv, LookedUp
    <2>4. QED BY <2>2, <2>3
  <1>3. /\ Len(mgr') = Len(mgr) /\ mgr'[m].begun = n
        /\ mgr'[m].running = mgr[m].running \cup {n}
        /\ \A j \in 1..Len(mgr) : j # m => mgr'[j] = mgr[j]
    <2>1. SetsManager(m, mgr[m].ckpt, mgr[m].readers, mgr[m].begun + 1,
                      mgr[m].running \cup {mgr[m].begun + 1})
      BY <1>0, <1>1, AddTransactionFacts
    <2>2. QED BY <2>1 DEF SetsManager
  <1>4. /\ mgr[m].begun \in Nat /\ mgr[m].running \subseteq Nat
        /\ tid \in [Clients -> Nat] /\ home \in [Clients -> Nat]
    BY <1>0, <1>1, ManagerFacts DEF Types
  <1>5. /\ \A d \in Clients : /\ tid'[d] = IF d = c THEN n ELSE tid[d]
                              /\ home'[d] = IF d = c THEN m ELSE home[d]
        /\ told' = told /\ managers' = managers
    BY <1>4 DEF AddTransaction
  <1>6. at'[c].pc = "idle" /\ \A d \in Clients \ {c} : at'[d] = at[d]
    BY <1>0 DEF AddTransaction, Finish, Idle
  <1>7. \A d \in Clients : tid[d] # 0 => tid[d] <= mgr[m].begun
    BY <1>2 DEF OpenTxnInv, HasTxn
  <1>8. ASSUME NEW d \in Clients PROVE HasTxn(d)'
    <2>1. CASE d = c
      <3>1. ~told[c]
        BY <1>2 DEF OpenTxnInv, HasTxn
      <3>2. tid'[c] = n /\ home'[c] = m /\ n <= n /\ n \in mgr'[m].running
        BY <1>3, <1>4, <1>5
      <3>3. m # 0
        BY <1>0, <1>1
      <3>4. QED BY <1>2, <1>3, <1>5, <1>6, <2>1, <3>1, <3>2, <3>3 DEF HasTxn
    <2>2. CASE d # c
      <3>1. HasTxn(d)
        BY DEF OpenTxnInv
      <3>2. tid[d] # 0 => tid[d] <= n /\ tid[d] # n
        BY <1>4, <1>7
      <3>3. at'[d] = at[d] /\ tid'[d] = tid[d] /\ home'[d] = home[d] /\ told'[d] = told[d]
        BY <1>5, <1>6, <2>2
      <3>4. tid[d] # 0 => (tid[d] \in mgr'[m].running <=> tid[d] \in mgr[m].running)
        BY <1>3, <3>2
      <3>5. QED BY <1>2, <1>3, <1>5, <3>1, <3>2, <3>3, <3>4 DEF HasTxn, Req
    <2>3. QED BY <2>1, <2>2
  <1>9. ASSUME NEW d \in Clients, NEW e \in Clients, d # e, tid'[d] # 0
        PROVE  tid'[d] # tid'[e]
    BY <1>4, <1>5, <1>7, <1>9 DEF OpenTxnInv
  <1>10. ASSUME NEW j \in 1..Len(mgr') PROVE RunsFor(j)'
    <2>1. RunsFor(j)
      BY <1>3 DEF OpenTxnInv
    <2>2. CASE j # m
      BY <1>2, <1>3, <1>5, <2>1, <2>2 DEF RunsFor
    <2>3. CASE j = m
      <3> SUFFICES ASSUME NEW t \in mgr'[m].running
                   PROVE  t \in 1..mgr'[m].begun /\ \E d \in Clients : tid'[d] = t
        BY <1>2, <1>5, <2>3 DEF RunsFor
      <3>1. CASE t = n
        <4>1. n \in 1..n
          BY <1>4
        <4>2. mgr'[m].begun = n /\ tid'[c] = n
          BY <1>3, <1>5
        <4> HIDE DEF n
        <4>3. QED BY <3>1, <4>1, <4>2
      <3>2. CASE t \in mgr[m].running
        <4>1. t \in 1..mgr[m].begun
          BY <2>1, <2>3, <3>2 DEF RunsFor
        <4>2. PICK d \in Clients : tid[d] = t
          BY <2>1, <2>3, <3>2 DEF RunsFor
        <4>3. d # c
          BY <1>2, <4>1, <4>2
        <4>4. tid'[d] = t
          BY <1>5, <4>2, <4>3
        <4>5. t \in 1..mgr'[m].begun
          BY <1>3, <1>4, <4>1
        <4>6. QED BY <4>4, <4>5
      <3>3. QED BY <1>3, <3>1, <3>2
    <2>4. QED BY <2>2, <2>3
  <1>11. QED BY <1>8, <1>9, <1>10 DEF OpenTxnInv

\* A call about a transaction that is over: the client forgets it.
LEMMA TxnRefused ==
    ASSUME Serving, OpenTxnInv, NEW c \in Clients, Refused(c)
    PROVE  OpenTxnInv'
  <1>0. /\ Types /\ Placed(c) /\ Len(mgr) \in Nat /\ at[c].pc \in {"tquery", "end"}
        /\ at \in [Clients -> Handler] /\ at[c].man \in 1..Len(mgr)
    <2>1. /\ Types /\ Placed(c) /\ Len(mgr) \in Nat /\ at[c].pc \in {"tquery", "end"}
          /\ at \in [Clients -> Handler]
      BY LenFacts DEF Serving, Maps, Shape, Refused, In, Types
    <2>2. QED BY <2>1, HasManager
  <1>1. tid[c] # 0 /\ at[c].man = managers /\ tid[c] \notin mgr[managers].running
    BY <1>0, AsksManager DEF Refused, IsRunning
  <1>2. /\ Len(mgr') = Len(mgr)
        /\ \A j \in 1..Len(mgr) : /\ mgr'[j].begun = mgr[j].begun
                                  /\ mgr'[j].running = mgr[j].running
    BY <1>0, RefusedFacts DEF SetsManager
  <1>3. /\ \A d \in Clients : /\ tid'[d] = IF d = c THEN 0 ELSE tid[d]
                              /\ home'[d] = IF d = c THEN 0 ELSE home[d]
                              /\ told'[d] = IF d = c THEN FALSE ELSE told[d]
        /\ managers' = managers
    BY <1>0 DEF Refused, Forgotten, Types
  <1>4. at'[c].pc = "idle" /\ \A d \in Clients \ {c} : at'[d] = at[d]
    BY <1>0 DEF Refused, Finish, Idle
  <1>5. ASSUME NEW d \in Clients PROVE HasTxn(d)'
    <2>1. CASE d = c
      BY <1>3, <1>4, <2>1 DEF HasTxn
    <2>2. CASE d # c
      <3>1. HasTxn(d)
        BY DEF OpenTxnInv
      <3>2. at'[d] = at[d] /\ tid'[d] = tid[d] /\ home'[d] = home[d] /\ told'[d] = told[d]
        BY <1>3, <1>4, <2>2
      <3>3. mgr'[managers].begun = mgr[managers].begun
            /\ mgr'[managers].running = mgr[managers].running
        BY <1>0, <1>1, <1>2
      <3>4. QED BY <1>3, <3>1, <3>2, <3>3 DEF HasTxn, Req
    <2>3. QED BY <2>1, <2>2
  <1>6. ASSUME NEW d \in Clients, NEW e \in Clients, d # e, tid'[d] # 0
        PROVE  tid'[d] # tid'[e]
    BY <1>3, <1>6 DEF OpenTxnInv
  <1>7. ASSUME NEW j \in 1..Len(mgr') PROVE RunsFor(j)'
    <2> SUFFICES ASSUME NEW t \in mgr[j].running
                 PROVE  /\ t \in 1..mgr[j].begun /\ j = managers
                        /\ \E d \in Clients : tid'[d] = t
      BY <1>2, <1>3 DEF RunsFor
    <2>1. t \in 1..mgr[j].begun /\ j = managers
      BY <1>2 DEF OpenTxnInv, RunsFor
    <2>2. PICK d \in Clients : tid[d] = t
      BY <1>2 DEF OpenTxnInv, RunsFor
    <2>3. d # c
      BY <1>1, <2>1, <2>2
    <2>4. QED BY <1>3, <2>1, <2>2, <2>3
  <1>8. QED BY <1>5, <1>6, <1>7 DEF OpenTxnInv

\* The end of a transaction: it runs no longer, and its client knows.
LEMMA TxnEnds ==
    ASSUME Serving, OpenTxnInv, NEW c \in Clients, QueryEnds(c) \/ Ending(c),
           mgr' = Ended(at[c].man, tid[c]),
           \/ told' = [told EXCEPT ![c] = TRUE] /\ UNCHANGED <<tid, home>>
           \/ Forgotten(c)
    PROVE  OpenTxnInv'
  <1>0. /\ Types /\ Placed(c) /\ Len(mgr) \in Nat /\ at[c].pc \in {"tqueried", "ending"}
        /\ at \in [Clients -> Handler] /\ at[c].man \in 1..Len(mgr)
    <2>1. /\ Types /\ Placed(c) /\ Len(mgr) \in Nat /\ at[c].pc \in {"tqueried", "ending"}
          /\ at \in [Clients -> Handler]
      BY LenFacts DEF Serving, Maps, Shape, QueryEnds, Ending, In, Types
    <2>2. QED BY <2>1, HasManager
  <1>1. tid[c] # 0 /\ at[c].man = managers
    BY <1>0, AsksManager
  <1>2. /\ Len(mgr') = Len(mgr)
        /\ mgr'[managers].begun = mgr[managers].begun
        /\ mgr'[managers].running = mgr[managers].running \ {tid[c]}
        /\ \A j \in 1..Len(mgr) : j # managers => mgr'[j] = mgr[j]
    BY <1>0, <1>1, EndedFacts DEF SetsManager
  <1>3. /\ \A d \in Clients \ {c} :
             tid'[d] = tid[d] /\ home'[d] = home[d] /\ told'[d] = told[d]
        /\ \/ tid'[c] = 0 /\ ~told'[c]
           \/ tid'[c] = tid[c] /\ home'[c] = home[c] /\ told'[c]
        /\ managers' = managers
    BY <1>0 DEF QueryEnds, Ending, Forgotten, Types
  <1>4. at'[c].pc = "idle" /\ \A d \in Clients \ {c} : at'[d] = at[d]
    BY <1>0 DEF QueryEnds, Ending, Idle
  <1>d. \A d \in Clients \ {c} : tid[d] # tid[c]
    BY <1>1 DEF OpenTxnInv
  <1>5. ASSUME NEW d \in Clients PROVE HasTxn(d)'
    <2>1. CASE d = c
      <3>1. HasTxn(c)
        BY DEF OpenTxnInv
      <3>2. QED BY <1>1, <1>2, <1>3, <1>4, <2>1, <3>1 DEF HasTxn
    <2>2. CASE d # c
      <3>1. HasTxn(d)
        BY DEF OpenTxnInv
      <3>2. at'[d] = at[d] /\ tid'[d] = tid[d] /\ home'[d] = home[d] /\ told'[d] = told[d]
        BY <1>3, <1>4, <2>2
      <3>3. tid[d] \in mgr'[managers].running <=> tid[d] \in mgr[managers].running
        BY <1>2, <1>d, <2>2
      <3>4. QED BY <1>2, <1>3, <3>1, <3>2, <3>3 DEF HasTxn, Req
    <2>3. QED BY <2>1, <2>2
  <1>6. ASSUME NEW d \in Clients, NEW e \in Clients, d # e, tid'[d] # 0
        PROVE  tid'[d] # tid'[e]
    BY <1>1, <1>3, <1>6 DEF OpenTxnInv
  <1>7. ASSUME NEW j \in 1..Len(mgr') PROVE RunsFor(j)'
    <2>1. CASE j = managers
      <3> SUFFICES ASSUME NEW t \in mgr'[j].running
                   PROVE  /\ t \in 1..mgr'[j].begun /\ j = managers'
                          /\ \E d \in Clients : tid'[d] = t
        BY DEF RunsFor
      <3>1. t \in mgr[j].running /\ t # tid[c]
        BY <1>2, <2>1
      <3>2. t \in 1..mgr[j].begun /\ \E d \in Clients : tid[d] = t
        BY <1>2, <3>1 DEF OpenTxnInv, RunsFor
      <3>3. QED BY <1>2, <1>3, <2>1, <3>1, <3>2
    <2>2. CASE j # managers
      <3>1. mgr'[j].running = {}
        BY <1>2, <2>2, NoneRuns
      <3>2. QED BY <3>1 DEF RunsFor
    <2>3. QED BY <2>1, <2>2
  <1>8. QED BY <1>5, <1>6, <1>7 DEF OpenTxnInv

\* OpenTxnInv is inductive, on top of Serving: which TIDs run, whose they are
\* and what clients believe of them changes together.
LEMMA OpenTxnStep ==
    ASSUME Polite, Serving, OpenTxnInv, [Next]_vars
    PROVE  OpenTxnInv'
  <1>1. ASSUME NEW c \in Clients, Serve(c) PROVE OpenTxnInv'
    <2>0. Shape /\ Types /\ Placed(c)
      BY DEF Serving, Maps, Shape
    <2>1. CASE AbortAll(c) \/ Delete(c) \/ EraseMan(c)
      BY <1>1, <2>1, TxnsNone
    <2>2. CASE AddTransaction(c)
      BY <2>2, TxnBegins
    <2>3. CASE Refused(c)
      BY <2>3, TxnRefused
    <2>4. CASE (QueryEnds(c) \/ Ending(c)) /\ mgr' = Ended(at[c].man, tid[c])
      <3>1. CASE \/ told' = [told EXCEPT ![c] = TRUE] /\ UNCHANGED <<tid, home>>
                 \/ Forgotten(c)
        BY <2>4, <3>1, TxnEnds
      <3>2. CASE QueryEnds(c) /\ UNCHANGED <<mgr, clientVars>>
        <4>1. managers' = managers
          BY <3>2 DEF QueryEnds
        <4>2. QED BY <1>1, <3>2, <4>1, TxnsUntouched DEF clientVars
      <3>3. QED BY <2>4, <3>1, <3>2 DEF QueryEnds, Ending
    <2>5. CASE AddManager(c)
      <3>1. CASE managers = 0
        BY <1>1, <2>5, <3>1, TxnsNone
      <3>2. CASE managers # 0
        <4>1. /\ managers' = managers /\ mgr' = mgr
              /\ tid' = tid /\ told' = told /\ home' = home
          BY <2>5, <3>2 DEF AddManager, clientVars
        <4>2. QED BY <1>1, <4>1, TxnsUntouched
      <3>3. QED BY <3>1, <3>2
    <2>6. CASE /\ \A m \in 1..Len(mgr) : /\ mgr'[m].begun = mgr[m].begun
                                         /\ mgr'[m].running = mgr[m].running
               /\ managers' = managers
      <3>1. CASE tid' = tid /\ told' = told /\ home' = home
        BY <1>1, <2>6, <3>1, TxnsUntouched
      <3>2. CASE QueryEnds(c) \/ Ending(c)
        <4>1. CASE mgr' = Ended(at[c].man, tid[c])
          BY <2>4, <3>2, <4>1
        <4>2. CASE UNCHANGED clientVars
          BY <3>1, <4>2 DEF clientVars
        <4>3. QED BY <3>2, <4>1, <4>2 DEF QueryEnds, Ending
      <3>3. QED BY <1>1, <2>2, <2>3, <3>1, <3>2, ClientStep
    <2>7. QED BY <1>1, <2>0, <2>1, <2>2, <2>4, <2>5, <2>6, RunningStep, ManagersStep
  <1>2. ASSUME NEW c \in Clients, NEW k \in Requests, Request(c, k) PROVE OpenTxnInv'
    <2>1. /\ tid' = tid /\ told' = told /\ home' = home
          /\ mgr' = mgr /\ managers' = managers
      BY <1>2 DEF Request, clientVars, mans
    <2>2. /\ at'[c].pc \in {"show", "findinfo", "getdb", "checkexist"} /\ at'[c].req = k
          /\ \A d \in Clients \ {c} : at'[d] = at[d]
      BY <1>2, RequestFrame DEF Serving, Maps
    <2>3. k = "commit" => ~told[c]
      BY <1>2 DEF Request, MaySend, Polite
    <2>4. ASSUME NEW d \in Clients PROVE HasTxn(d)'
      BY <2>1, <2>2, <2>3 DEF OpenTxnInv, HasTxn, Req
    <2>5. ASSUME NEW m \in 1..Len(mgr') PROVE RunsFor(m)'
      BY <2>1 DEF OpenTxnInv, RunsFor
    <2>6. QED BY <2>1, <2>4, <2>5 DEF OpenTxnInv
  <1>3. CASE UNCHANGED vars
    <2>1. /\ tid' = tid /\ told' = told /\ home' = home /\ at' = at
          /\ mgr' = mgr /\ managers' = managers
      BY <1>3 DEF vars, clientVars, mans
    <2>2. QED BY <2>1 DEF OpenTxnInv, HasTxn, RunsFor, Req
  <1>4. QED BY <1>1, <1>2, <1>3 DEF Next

\* OpenTxnInv holds at first.
LEMMA OpenTxnInit == Init => OpenTxnInv
  <1> SUFFICES ASSUME Init PROVE OpenTxnInv
    OBVIOUS
  <1>1. Len(mgr) = 0
    BY DEF Init
  <1>2. QED BY <1>1 DEF Init, OpenTxnInv, HasTxn, RunsFor, Idle

\* Transactions as well as all else.
THEOREM TransactionsAlways == ASSUME Polite PROVE Spec => [](Serving /\ OpenTxnInv)
  <1>1. Serving /\ Serving' /\ OpenTxnInv /\ [Next]_vars => OpenTxnInv'
    BY OpenTxnStep
  <1>2. QED BY <1>1, OpenTxnInit, ServingAlways, PTL DEF Spec

\* A client's TID is that of a running transaction it began itself: whatever
\* other handlers do, it is the TID of nobody else and of the manager that is
\* there, and it runs until the client is told that it does not.
THEOREM TransactionsAreOwn == ASSUME Polite PROVE Spec => []OwnTransaction
  <1>1. Serving /\ OpenTxnInv => OwnTransaction
    <2> SUFFICES ASSUME Serving, OpenTxnInv, NEW c \in Clients, tid[c] # 0
                 PROVE  /\ home[c] = managers /\ at[c].man \in {0, home[c]}
                        /\ (managers # 0 /\ tid[c] \in mgr[managers].running) <=> ~told[c]
                        /\ \A d \in Clients \ {c} : tid[d] # tid[c]
      BY DEF OwnTransaction
    <2>1. /\ managers # 0 /\ home[c] = managers
          /\ tid[c] \in mgr[managers].running <=> ~told[c]
      BY DEF OpenTxnInv, HasTxn
    <2>2. at[c].man \in {0, managers}
      <3>1. CASE at[c].pc = "idle"
        BY <3>1 DEF Serving, Maps, Shape, Placed, Idle
      <3>2. CASE at[c].pc # "idle"
        <4>1. Req(c) \in {"tquery", "commit", "rollback", "show"}
          BY <3>2 DEF Serving, Maps, OpenInv
        <4>2. QED BY <4>1 DEF Serving, LookedUpInv, LookedUp
      <3>3. QED BY <3>1, <3>2
    <2>3. \A d \in Clients \ {c} : tid[d] # tid[c]
      BY DEF OpenTxnInv
    <2>4. QED BY <2>1, <2>2, <2>3
  <1>2. QED BY <1>1, TransactionsAlways, PTL

-----------------------------------------------------------------------------
(* checkpoint_lock                                                         *)

\* What LockPerTransaction says, manager by manager.
LEMMA LocksByManager == LockPerTransaction <=> \A m \in 1..Len(mgr) : LockFor(m)
  BY DEF LockPerTransaction, LockFor, Opening

\* Only Begin gets checkpoint_lock for a transaction that is not yet in the table.
LEMMA OpensByBegin ==
    ASSUME Shape, NEW c \in Clients, Serve(c), at'[c].pc = "addtxn"
    PROVE  Begin(c)
  <1>0. /\ at[c].pc \in Steps /\ at[c].pc # "idle"
        /\ at'[c].req = at[c].req /\ ServesKind(at'[c].pc, at[c].req)
    <2>1. at'[c] # Idle
      BY DEF Idle
    <2>2. at[c] \in Handler
      BY DEF Shape, Types
    <2>3. QED BY <2>1, <2>2, Frame DEF Handler
  <1>1. at[c].req = "begin"
    BY <1>0 DEF ServesKind
  <1>q. ServesKind(at[c].pc, at[c].req) /\ at \in [Clients -> Handler]
    BY DEF Shape, Types, Placed, Req
  <1>2. at[c].pc \in {"checkexist", "getdb", "getman", "begin", "addtxn"}
    BY <1>0, <1>1, <1>q DEF Steps, ServesKind
  <1>n. loaded \in Nat /\ managers \in Nat
    BY LenFacts DEF Shape
  <1>l. ~Leaves(c)
    BY DEF Leaves, Idle
  <1>3. ASSUME NEW s, NEW db, NEW info, NEW man, Goes(c, s, db, info, man)
        PROVE  s = "addtxn"
    BY <1>3 DEF Goes
  <1>c. CASE at[c].pc = "checkexist"
    BY <1>q, <1>c, <1>l, <1>3, StepAt, CheckExistMoves
  <1>e. CASE at[c].pc = "getdb"
    BY <1>q, <1>e, <1>n, <1>l, <1>3, StepAt, GetDbMoves
  <1>4. CASE at[c].pc = "getman"
    BY <1>q, <1>4, <1>n, <1>l, <1>3, StepAt, GetManMoves
  <1>5. CASE at[c].pc = "addtxn"
    <2>1. at' = [at EXCEPT ![c] = Idle]
      BY <1>5, StepAt DEF AddTransaction, Finish
    <2>2. QED BY <1>q, <2>1 DEF Idle
  <1>6. CASE at[c].pc = "begin"
    BY <1>6, StepAt
  <1>7. QED BY <1>2, <1>c, <1>e, <1>4, <1>5, <1>6

\* Which steps change who is opening a transaction.
LEMMA OpeningStep ==
    ASSUME Shape, NEW c \in Clients, Serve(c), NEW m
    PROVE  /\ c \notin Opening(m) \/ AddTransaction(c)
           /\ \/ Opening(m)' = Opening(m)
              \/ Begin(c) /\ Opening(m)' = Opening(m) \cup {c} /\ m = at[c].man
              \/ AddTransaction(c) /\ Opening(m)' = Opening(m) \ {c} /\ m = at[c].man
  <1>1. \A d \in Clients \ {c} : at'[d] = at[d]
    BY Frame
  <1>2. CASE Begin(c)
    <2>1. at[c].pc = "begin" /\ at'[c].pc = "addtxn" /\ at'[c].man = at[c].man
      BY <1>2 DEF Begin, In, Goto, Shape, Types, Handler
    <2>2. QED BY <1>1, <1>2, <2>1 DEF Opening
  <1>3. CASE AddTransaction(c)
    <2>1. at[c].pc = "addtxn" /\ at'[c].pc = "idle"
      BY <1>3 DEF AddTransaction, In, Finish, Idle, Shape, Types
    <2>2. QED BY <1>1, <1>3, <2>1 DEF Opening
  <1>4. CASE ~Begin(c) /\ ~AddTransaction(c)
    <2>1. at'[c].pc # "addtxn"
      BY <1>4, OpensByBegin
    <2>2. at[c].pc # "addtxn"
      BY <1>4, StepAt
    <2>3. QED BY <1>1, <2>1, <2>2 DEF Opening
  <1>5. QED BY <1>2, <1>3, <1>4

\* The sets that are counted are finite.
LEMMA Counted ==
    ASSUME Shape, NEW m \in 1..Len(mgr)
    PROVE  /\ IsFiniteSet(Opening(m)) /\ Cardinality(Opening(m)) \in Nat
           /\ IsFiniteSet(mgr[m].running) /\ Cardinality(mgr[m].running) \in Nat
           /\ mgr[m].readers \in Int
  <1>1. IsFiniteSet(Opening(m))
    <2>1. IsFiniteSet(Clients) /\ Opening(m) \subseteq Clients
      BY ServerAssumption DEF Opening
    <2>2. QED BY <2>1, FS_Subset
  <1>2. Cardinality(Opening(m)) \in Nat
    BY <1>1, FS_CardinalityType
  <1>3. QED BY <1>1, <1>2, ManagerFacts DEF Shape

\* A manager that a step leaves alone.
LEMMA LockKept ==
    ASSUME NEW m, LockFor(m), Opening(m)' = Opening(m),
           mgr'[m].ckpt = mgr[m].ckpt, mgr'[m].readers = mgr[m].readers,
           mgr'[m].running = mgr[m].running
    PROVE  LockFor(m)'
  BY DEF LockFor

\* A manager that has never been used.
LEMMA LockNew ==
    ASSUME NEW m, Opening(m)' = {}, mgr'[m].ckpt = NoOne, mgr'[m].readers = 0,
           mgr'[m].running = {}
    PROVE  LockFor(m)'
  <1>1. Cardinality({}) = 0
    BY FS_EmptySet
  <1>2. QED BY <1>1 DEF LockFor

\* Whoever is opening a transaction does so on a manager that is in the list.
LEMMA OpensOnManager ==
    ASSUME Shape, NEW m, m \notin 1..Len(mgr)
    PROVE  Opening(m) = {}
  BY HasManager DEF Opening, Shape

\* Begin and add_transaction: one more holder, first without and then with an
\* entry in the table.
LEMMA LockOpens ==
    ASSUME Serving, OpenTxnInv, LockPerTransaction, NEW c \in Clients, Serve(c),
           Begin(c) \/ AddTransaction(c)
    PROVE  LockPerTransaction'
  <1> PICK m : m = at[c].man
    OBVIOUS
  <1>0. Shape /\ Types /\ Placed(c) /\ Len(mgr) \in Nat
    BY LenFacts DEF Serving, Maps, Shape
  <1>1. m \in 1..Len(mgr)
    BY <1>0, HasManager DEF Begin, AddTransaction, In
  <1>2. LockFor(m)
    BY <1>1, LocksByManager
  <1>3. /\ IsFiniteSet(Opening(m)) /\ Cardinality(Opening(m)) \in Nat
        /\ IsFiniteSet(mgr[m].running) /\ Cardinality(mgr[m].running) \in Nat
        /\ mgr[m].readers \in Int
    BY <1>0, <1>1, Counted
  <1>4. CASE Begin(c)
    <2>1. SetsManager(m, mgr[m].ckpt, mgr[m].readers + 1, mgr[m].begun, mgr[m].running)
      BY <1>0, <1>1, <1>4, BeginFacts
    <2>2. Opening(m)' = Opening(m) \cup {c} /\ c \notin Opening(m)
      <3>1. at[c].pc = "begin" /\ at'[c].pc = "addtxn" /\ at'[c].man = at[c].man
        BY <1>0, <1>4 DEF Begin, In, Goto, Types, Handler
      <3>2. \A d \in Clients \ {c} : at'[d] = at[d]
        BY <1>0, Frame
      <3>3. QED BY <3>1, <3>2 DEF Opening
    <2>3. Cardinality(Opening(m)') = Cardinality(Opening(m)) + 1
      BY <1>3, <2>2, FS_AddElement
    <2>4. mgr[m].ckpt = NoOne
      BY <1>4 DEF Begin
    <2>5. LockFor(m)'
      BY <1>2, <1>3, <2>1, <2>3, <2>4 DEF LockFor, SetsManager
    <2>6. ASSUME NEW j \in 1..Len(mgr), j # m PROVE LockFor(j)'
      <3>1. Opening(j)' = Opening(j)
        BY <1>0, <2>6, OpeningStep
      <3>2. LockFor(j) /\ mgr'[j] = mgr[j]
        BY <2>1, <2>6, LocksByManager DEF SetsManager
      <3>3. QED BY <3>1, <3>2, LockKept
    <2>7. Len(mgr') = Len(mgr)
      BY <2>1 DEF SetsManager
    <2>8. \A j \in 1..Len(mgr') : LockFor(j)'
      BY <2>5, <2>6, <2>7
    <2>9. QED BY <2>8 DEF LockPerTransaction, LockFor, Opening
  <1>5. CASE AddTransaction(c)
    <2> DEFINE n == mgr[m].begun + 1
    <2>1. SetsManager(m, mgr[m].ckpt, mgr[m].readers, mgr[m].begun + 1,
                      mgr[m].running \cup {mgr[m].begun + 1})
      BY <1>0, <1>1, <1>5, AddTransactionFacts
    <2>2. Opening(m)' = Opening(m) \ {c} /\ c \in Opening(m)
      <3>1. at[c].pc = "addtxn" /\ at'[c].pc = "idle"
        BY <1>0, <1>5 DEF AddTransaction, In, Finish, Idle, Types
      <3>2. \A d \in Clients \ {c} : at'[d] = at[d]
        BY <1>0, Frame
      <3>3. QED BY <3>1, <3>2 DEF Opening
    <2>3. Cardinality(Opening(m)') = Cardinality(Opening(m)) - 1
      <3> DEFINE o == Opening(m)
      <3>1. IsFiniteSet(o) /\ c \in o
        BY <1>3, <2>2
      <3> HIDE DEF o
      <3>2. Cardinality(o \ {c}) = Cardinality(o) - 1
        BY <3>1, FS_RemoveElement
      <3>3. QED BY <2>2, <3>2 DEF o
    <2>4. Cardinality(mgr[m].running \cup {n}) = Cardinality(mgr[m].running) + 1
      <3>1. mgr[m].running \subseteq 1..mgr[m].begun /\ mgr[m].begun \in Nat
        BY <1>0, <1>1, ManagerFacts DEF OpenTxnInv, RunsFor
      <3>2. n \notin mgr[m].running
        BY <3>1
      <3>3. QED BY <1>3, <3>2, FS_AddElement
    <2>5. LockFor(m)'
      <3>1. /\ mgr'[m].readers = mgr[m].readers /\ mgr'[m].ckpt = mgr[m].ckpt
            /\ mgr'[m].running = mgr[m].running \cup {n}
        BY <2>1 DEF SetsManager
      <3>2. QED BY <1>2, <1>3, <2>3, <2>4, <3>1 DEF LockFor
    <2>6. ASSUME NEW j \in 1..Len(mgr), j # m PROVE LockFor(j)'
      <3>1. Opening(j)' = Opening(j)
        BY <1>0, <2>6, OpeningStep
      <3>2. LockFor(j) /\ mgr'[j] = mgr[j]
        BY <2>1, <2>6, LocksByManager DEF SetsManager
      <3>3. QED BY <3>1, <3>2, LockKept
    <2>7. Len(mgr') = Len(mgr)
      BY <2>1 DEF SetsManager
    <2>8. \A j \in 1..Len(mgr') : LockFor(j)'
      BY <2>5, <2>6, <2>7
    <2>9. QED BY <2>8 DEF LockPerTransaction, LockFor, Opening
  <1>6. QED BY <1>4, <1>5

\* The end of a transaction gives back what it has held.
LEMMA LockEnds ==
    ASSUME Serving, OpenTxnInv, LockPerTransaction, NEW c \in Clients, Serve(c),
           QueryEnds(c) \/ Ending(c), mgr' = Ended(at[c].man, tid[c])
    PROVE  LockPerTransaction'
  <1> PICK m : m = at[c].man
    OBVIOUS
  <1>0. /\ Shape /\ Types /\ Placed(c) /\ Len(mgr) \in Nat
        /\ at[c].pc \in {"tqueried", "ending"}
    BY LenFacts DEF Serving, Maps, Shape, QueryEnds, Ending, In
  <1>1. m \in 1..Len(mgr) /\ tid[c] \in mgr[m].running
    <2>1. tid[c] # 0 /\ m = managers /\ managers \in 1..Len(mgr)
      BY <1>0, AsksManager
    <2>2. QED BY <1>0, <2>1 DEF OpenTxnInv, HasTxn
  <1>2. LockFor(m)
    BY <1>1, LocksByManager
  <1>3. /\ Cardinality(Opening(m)) \in Nat /\ mgr[m].readers \in Int
        /\ IsFiniteSet(mgr[m].running) /\ Cardinality(mgr[m].running) \in Nat
    BY <1>0, <1>1, Counted
  <1>4. SetsManager(m, mgr[m].ckpt, mgr[m].readers - 1, mgr[m].begun,
                    mgr[m].running \ {tid[c]})
    BY <1>0, <1>1, EndedFacts
  <1>5. \A j : Opening(j)' = Opening(j)
    <2>1. ~Begin(c) /\ ~AddTransaction(c)
      BY <1>0 DEF Begin, AddTransaction, In
    <2>2. QED BY <1>0, <2>1, OpeningStep
  <1>6. LockFor(m)'
    <2>1. Cardinality(mgr[m].running \ {tid[c]}) = Cardinality(mgr[m].running) - 1
      BY <1>1, <1>3, FS_RemoveElement
    <2>2. Cardinality(mgr[m].running \ {tid[c]}) \in Nat
      BY <1>3, FS_RemoveElement, FS_CardinalityType
    <2>3. mgr[m].ckpt = NoOne
      BY <1>2, <1>3, <2>1, <2>2 DEF LockFor
    <2>4. /\ mgr'[m].readers = mgr[m].readers - 1 /\ mgr'[m].ckpt = mgr[m].ckpt
          /\ mgr'[m].running = mgr[m].running \ {tid[c]}
      BY <1>4 DEF SetsManager
    <2>5. Opening(m)' = Opening(m)
      BY <1>5
    <2>6. QED BY <1>2, <1>3, <2>1, <2>3, <2>4, <2>5 DEF LockFor
  <1>7. ASSUME NEW j \in 1..Len(mgr), j # m PROVE LockFor(j)'
    <2>1. Opening(j)' = Opening(j)
      BY <1>5
    <2>2. LockFor(j) /\ mgr'[j] = mgr[j]
      BY <1>4, <1>7, LocksByManager DEF SetsManager
    <2>3. QED BY <2>1, <2>2, LockKept
  <1>8. Len(mgr') = Len(mgr)
    BY <1>4 DEF SetsManager
  <1>9. \A j \in 1..Len(mgr') : LockFor(j)'
    BY <1>6, <1>7, <1>8
  <1>10. QED BY <1>9 DEF LockPerTransaction, LockFor, Opening

\* A checkpoint takes checkpoint_lock alone and gives it back; what a call
\* about a transaction that is over does not hold it does not give back.
LEMMA LockOfCheckpoint ==
    ASSUME Polite, Serving, OpenTxnInv, LockPerTransaction, NEW c \in Clients, Serve(c),
           WaitCheckpoint(c) \/ Merge(c) \/ Refused(c) \/ AbortAll(c)
    PROVE  LockPerTransaction'
  <1> PICK m : m = at[c].man
    OBVIOUS
  <1>0. Shape /\ Types /\ Placed(c) /\ Len(mgr) \in Nat
    BY LenFacts DEF Serving, Maps, Shape
  <1>1. m \in 1..Len(mgr)
    BY <1>0, HasManager DEF WaitCheckpoint, Merge, Refused, AbortAll, In
  <1>2. LockFor(m)
    BY <1>1, LocksByManager
  <1>3. /\ Cardinality(Opening(m)) \in Nat /\ mgr[m].readers \in Int
        /\ IsFiniteSet(mgr[m].running) /\ Cardinality(mgr[m].running) \in Nat
    BY <1>0, <1>1, Counted
  <1>4. \A j : Opening(j)' = Opening(j)
    <2>1. ~Begin(c) /\ ~AddTransaction(c)
      BY DEF Begin, AddTransaction, WaitCheckpoint, Merge, Refused, AbortAll, In
    <2>2. QED BY <1>0, <2>1, OpeningStep
  <1>5. /\ Len(mgr') = Len(mgr) /\ \A j \in 1..Len(mgr) : j # m => mgr'[j] = mgr[j]
        /\ mgr'[m].running = mgr[m].running /\ mgr'[m].readers = mgr[m].readers
        /\ \/ mgr'[m].ckpt \in {NoOne, mgr[m].ckpt}
           \/ mgr[m].readers = 0
    <2>1. CASE WaitCheckpoint(c)
      <3>1. SetsManager(m, c, mgr[m].readers, mgr[m].begun, mgr[m].running)
        BY <1>0, <1>1, <2>1, WaitCheckpointFacts
      <3>2. mgr[m].readers = 0
        BY <2>1 DEF WaitCheckpoint
      <3>3. QED BY <3>1, <3>2 DEF SetsManager
    <2>2. CASE Merge(c)
      <3>1. SetsManager(m, NoOne, mgr[m].readers, mgr[m].begun, mgr[m].running)
        BY <1>0, <1>1, <2>2, MergeFacts
      <3>2. QED BY <3>1 DEF SetsManager
    <2>3. CASE Refused(c)
      <3>1. SetsManager(m, mgr[m].ckpt,
                        mgr[m].readers - (IF Req(c) = "commit" THEN 1 ELSE 0),
                        mgr[m].begun, mgr[m].running)
        BY <1>0, <1>1, <2>3, RefusedFacts
      <3>2. Req(c) # "commit"
        <4>1. at[c].pc \in {"tquery", "end"} /\ ~IsRunning(c)
          BY <2>3 DEF Refused, In
        <4>2. tid[c] # 0 /\ m = managers
          BY <4>1, AsksManager
        <4>3. told[c]
          BY <4>1, <4>2 DEF OpenTxnInv, HasTxn, IsRunning
        <4>4. QED BY <4>1, <4>3 DEF OpenTxnInv, HasTxn
      <3>3. QED BY <1>3, <3>1, <3>2 DEF SetsManager
    <2>4. CASE AbortAll(c)
      <3>1. SetsManager(m, mgr[m].ckpt, mgr[m].readers - Cardinality(mgr[m].running),
                        mgr[m].begun, {})
        BY <1>0, <1>1, <2>4, AbortAllFacts
      <3>2. mgr[m].running = {}
        <4>1. Req(c) = "unload" /\ at[c].pc # "idle"
          BY <1>0, <2>4 DEF AbortAll, In, Placed, ServesKind
        <4>2. \A d \in Clients : tid[d] = 0
          BY <4>1 DEF Serving, Maps, OpenInv
        <4>3. QED BY <1>1, <4>2, NoneRuns
      <3>3. Cardinality(mgr[m].running) = 0
        BY <3>2, FS_EmptySet
      <3>4. QED BY <1>3, <3>1, <3>2, <3>3 DEF SetsManager
    <2>5. QED BY <2>1, <2>2, <2>3, <2>4
  <1>6. LockFor(m)'
    <2>1. Opening(m)' = Opening(m)
      BY <1>4
    <2>2. QED BY <1>2, <1>5, <2>1 DEF LockFor
  <1>7. ASSUME NEW j \in 1..Len(mgr), j # m PROVE LockFor(j)'
    <2>1. Opening(j)' = Opening(j)
      BY <1>4
    <2>2. LockFor(j) /\ mgr'[j] = mgr[j]
      BY <1>5, <1>7, LocksByManager
    <2>3. QED BY <2>1, <2>2, LockKept
  <1>8. \A j \in 1..Len(mgr') : LockFor(j)'
    BY <1>5, <1>6, <1>7
  <1>9. QED BY <1>8 DEF LockPerTransaction, LockFor, Opening

\* A manager that is made or made anew has no holders.
LEMMA LockOfNew ==
    ASSUME Serving, OpenTxnInv, LockPerTransaction, NEW c \in Clients, Serve(c),
           Loading(c) \/ Delete(c)
    PROVE  LockPerTransaction'
  <1>0. /\ Shape /\ Types /\ Placed(c) /\ Len(mgr) \in Nat
        /\ at[c].man \in 0..Len(mgr)
    BY LenFacts DEF Serving, Maps, Shape, Placed
  <1>1. \A j : Opening(j)' = Opening(j)
    <2>1. ~Begin(c) /\ ~AddTransaction(c)
      BY DEF Begin, AddTransaction, Loading, Delete, In
    <2>2. QED BY <1>0, <2>1, OpeningStep
  <1>2. ASSUME NEW j \in 1..Len(mgr')
        PROVE  \/ j \in 1..Len(mgr) /\ mgr'[j] = mgr[j]
               \/ /\ Opening(j) = {} /\ mgr'[j].ckpt = NoOne /\ mgr'[j].readers = 0
                  /\ mgr'[j].running = {}
    <2>1. CASE Loading(c)
      <3>1. AddsManager
        BY <1>0, <2>1, LoadingFacts
      <3>2. CASE j \in 1..Len(mgr)
        BY <3>1, <3>2 DEF AddsManager
      <3>3. CASE j \notin 1..Len(mgr)
        <4>1. mgr'[j] = NewManager
          BY <1>0, <3>1, <3>3 DEF AddsManager
        <4>2. Opening(j) = {}
          BY <1>0, <3>3, OpensOnManager
        <4>3. QED BY <4>1, <4>2 DEF NewManager
      <3>4. QED BY <3>2, <3>3
    <2>2. CASE Delete(c) /\ ~LastOf(c)
      BY <1>0, <2>2, DeleteFacts
    <2>3. CASE Delete(c) /\ LastOf(c)
      <3>1. SetsManager(at[c].man, NoOne, 0, 0, {})
        BY <1>0, <2>3, DeleteFacts
      <3>2. CASE j # at[c].man
        BY <3>1, <3>2 DEF SetsManager
      <3>3. CASE j = at[c].man
        <4>1. Opening(j) = {}
          BY <2>3, <3>3 DEF LastOf, Opening, Delete, In
        <4>2. QED BY <3>1, <3>3, <4>1 DEF SetsManager
      <3>4. QED BY <3>2, <3>3
    <2>4. QED BY <2>1, <2>2, <2>3
  <1>3. ASSUME NEW j \in 1..Len(mgr') PROVE LockFor(j)'
    <2>1. CASE j \in 1..Len(mgr) /\ mgr'[j] = mgr[j]
      <3>1. Opening(j)' = Opening(j)
        BY <1>1
      <3>2. QED BY <2>1, <3>1, LocksByManager, LockKept
    <2>2. CASE /\ Opening(j) = {} /\ mgr'[j].ckpt = NoOne /\ mgr'[j].readers = 0
               /\ mgr'[j].running = {}
      <3>1. Opening(j)' = {}
        BY <1>1, <2>2
      <3>2. QED BY <2>2, <3>1, LockNew
    <2>3. QED BY <1>2, <2>1, <2>2
  <1>4. QED BY <1>3 DEF LockPerTransaction, LockFor, Opening

\* checkpoint_lock has as many holders as there are transactions open or being
\* opened, and none beside a checkpoint: no error path of the handlers, and no
\* call about a transaction that is over, gives it back twice or forgets it.
THEOREM HoldersMatch == ASSUME Polite PROVE Spec => []LockPerTransaction
  <1>1. Init => LockPerTransaction
    <2> SUFFICES ASSUME Init PROVE LockPerTransaction
      OBVIOUS
    <2>1. Len(mgr) = 0
      BY DEF Init
    <2>2. QED BY <2>1 DEF LockPerTransaction
  <1>2. Serving /\ OpenTxnInv /\ LockPerTransaction /\ [Next]_vars => LockPerTransaction'
    <2> SUFFICES ASSUME Serving, OpenTxnInv, LockPerTransaction, [Next]_vars
                 PROVE  LockPerTransaction'
      OBVIOUS
    <2>1. ASSUME NEW c \in Clients, Serve(c) PROVE LockPerTransaction'
      <3>1. CASE mgr' = mgr /\ ~Begin(c) /\ ~AddTransaction(c)
        <4>1. \A j : Opening(j)' = Opening(j)
          BY <2>1, <3>1, OpeningStep DEF Serving, Maps
        <4>2. ASSUME NEW j \in 1..Len(mgr') PROVE LockFor(j)'
          BY <3>1, <4>1, LocksByManager, LockKept
        <4>3. QED BY <4>2 DEF LockPerTransaction, LockFor, Opening
      <3>2. CASE Begin(c) \/ AddTransaction(c)
        BY <2>1, <3>2, LockOpens
      <3>3. CASE WaitCheckpoint(c) \/ Merge(c) \/ Refused(c) \/ AbortAll(c)
        BY <2>1, <3>3, LockOfCheckpoint
      <3>4. CASE Loading(c) \/ Delete(c)
        BY <2>1, <3>4, LockOfNew
      <3>5. CASE (QueryEnds(c) \/ Ending(c)) /\ mgr' = Ended(at[c].man, tid[c])
        BY <2>1, <3>5, LockEnds
      <3>6. QED BY <2>1, <3>1, <3>2, <3>3, <3>4, <3>5, ManagerStep
    <2>2. ASSUME NEW c \in Clients, NEW k \in Requests, Request(c, k)
          PROVE  LockPerTransaction'
      <3>1. mgr' = mgr
        BY <2>2 DEF Request, mans
      <3>2. /\ at[c] = Idle /\ at'[c].pc \in {"show", "findinfo", "getdb", "checkexist"}
            /\ \A d \in Clients \ {c} : at'[d] = at[d]
        BY <2>2, RequestFrame DEF Serving, Maps
      <3>3. ASSUME NEW j PROVE Opening(j)' = Opening(j)
        BY <3>2 DEF Opening, Idle
      <3>4. ASSUME NEW j \in 1..Len(mgr') PROVE LockFor(j)'
        BY <3>1, <3>3, LocksByManager, LockKept
      <3>5. QED BY <3>4 DEF LockPerTransaction, LockFor, Opening
    <2>3. CASE UNCHANGED vars
      BY <2>3 DEF vars, mans, LockPerTransaction
    <2>4. QED BY <2>1, <2>2, <2>3 DEF Next
  <1>3. QED BY <1>1, <1>2, TransactionsAlways, PTL DEF Spec

\* No client has two holds of one manager's checkpoint_lock: one that opens a
\* transaction has none yet, and TIDs are distinct.
LEMMA HoldersAreClients ==
    ASSUME Serving, OpenTxnInv, NEW m \in 1..Len(mgr)
    PROVE  /\ Cardinality(mgr[m].running) + Cardinality(Opening(m)) <= Cardinality(Clients)
           /\ Cardinality(Clients) \in Nat
  <1> DEFINE H == {c \in Clients : tid[c] \in mgr[m].running}
             f == [c \in H |-> tid[c]]
  <1>0. /\ IsFiniteSet(Clients) /\ Shape
        /\ IsFiniteSet(Opening(m)) /\ Cardinality(Opening(m)) \in Nat
        /\ Cardinality(mgr[m].running) \in Nat
    BY ServerAssumption, Counted DEF Serving, Maps
  <1>1. f \in Surjection(H, mgr[m].running)
    <2>1. f \in [H -> mgr[m].running]
      OBVIOUS
    <2>2. \A t \in mgr[m].running : \E c \in H : f[c] = t
      BY DEF OpenTxnInv, RunsFor
    <2>3. QED BY <2>1, <2>2 DEF Surjection
  <1>2. IsFiniteSet(H) /\ Cardinality(H) \in Nat
    BY <1>0, FS_Subset, FS_CardinalityType
  <1>3. Cardinality(mgr[m].running) <= Cardinality(H)
    BY <1>1, <1>2, FS_Surjection
  <1>4. H \cap Opening(m) = {}
    <2> SUFFICES ASSUME NEW c \in Clients, c \in Opening(m), tid[c] \in mgr[m].running
                 PROVE  FALSE
      BY DEF Opening
    <2>1. Req(c) = "begin" /\ at[c].pc # "idle"
      BY <1>0 DEF Opening, Shape, Placed, ServesKind
    <2>2. tid[c] = 0
      BY <2>1 DEF Serving, Maps, OpenInv
    <2>3. tid[c] \in 1..mgr[m].begun
      BY DEF OpenTxnInv, RunsFor
    <2>4. QED BY <1>0, <2>2, <2>3, ManagerFacts DEF Shape
  <1>5. Cardinality(H \cup Opening(m)) = Cardinality(H) + Cardinality(Opening(m))
    <2>1. /\ Cardinality(H \cup Opening(m))
              = Cardinality(H) + Cardinality(Opening(m)) - Cardinality(H \cap Opening(m))
      <3> HIDE DEF H
      <3> QED BY <1>0, <1>2, FS_Union
    <2>2. Cardinality(H \cap Opening(m)) = 0
      BY <1>4, FS_EmptySet
    <2> HIDE DEF H
    <2>3. QED BY <1>0, <1>2, <2>1, <2>2
  <1>6. Cardinality(H \cup Opening(m)) <= Cardinality(Clients)
    <2>1. H \cup Opening(m) \subseteq Clients
      BY DEF Opening
    <2> HIDE DEF H
    <2>2. QED BY <1>0, <2>1, FS_Subset
  <1>7. Cardinality(Clients) \in Nat
    BY <1>0, FS_CardinalityType
  <1> HIDE DEF H, f
  <1>8. QED BY <1>0, <1>2, <1>3, <1>5, <1>6, <1>7

\* Every variable keeps its type, and checkpoint_lock never has more holders
\* than there are clients.
THEOREM TypeCorrect == ASSUME Polite PROVE Spec => []TypeOK
  <1>1. Serving /\ OpenTxnInv /\ LockPerTransaction => TypeOK
    <2> SUFFICES ASSUME Serving, OpenTxnInv, LockPerTransaction PROVE TypeOK
      OBVIOUS
    <2>0. Shape /\ Types
      BY DEF Serving, Maps, Shape
    <2>1. ASSUME NEW l \in Lock PROVE l.wr \in Clients \cup {NoOne} /\ l.rd \subseteq Clients
      BY <2>1 DEF Lock
    <2>2. Free \in Lock
      BY DEF Free, Lock
    <2>3. \A i \in 1..Len(infoLock) : infoLock[i] \in Lock
      BY <2>0 DEF Types
    <2>4. ASSUME NEW m \in 1..Len(mgr) PROVE mgr[m].readers \in 0..Cardinality(Clients)
      <3>1. mgr[m].readers = Cardinality(mgr[m].running) + Cardinality(Opening(m))
        BY LocksByManager DEF LockFor
      <3>2. Cardinality(mgr[m].running) \in Nat /\ Cardinality(Opening(m)) \in Nat
        BY <2>0, Counted
      <3>3. QED BY <3>1, <3>2, HoldersAreClients
    <2>5. deleted \subseteq 1..Len(mgr)
      BY DEF Serving, Maps, MapsInv
    <2>6. QED BY <2>0, <2>1, <2>2, <2>3, <2>4, <2>5 DEF Types, TypeOK
  <1>2. QED BY <1>1, TransactionsAlways, HoldersMatch, PTL
=============================================================================
