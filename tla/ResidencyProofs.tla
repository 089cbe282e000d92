-------------------------- MODULE ResidencyProofs --------------------------
(***************************************************************************)
(* What holds of the residency of a model for every number of clients and  *)
(* of loads, whatever fails, is cancelled or is interrupted, and whether   *)
(* or not engine.stop() yields.                                            *)
(***************************************************************************)
EXTENDS ResidencyManager, FiniteSetTheorems, TLAPS

(* A load task that has begun or is about to is the registered one: there  *)
(* is one live load at most, and the published state says so.              *)
LiveIsRegistered ==
  \A t \in Tasks : load[t] \notin Done \cup {"free"} => loadingTask = t

(* A client that awaits a load knows which.                                *)
AwaitsALoad ==
  \A c \in Clients :
    client[c] \in {"waitingLoad", "abandoning"} => waitsFor[c] \in Tasks

LoadInv == ResidencyTypeOK /\ ResidentConsistent /\ LiveIsRegistered /\ AwaitsALoad

LEMMA NoTaskNotATask == NoTask \notin Tasks
BY ResidencyAssumption DEF NoTask

LEMMA LoadInvInit == Init => LoadInv
<1> SUFFICES ASSUME Init PROVE LoadInv
  OBVIOUS
<1>1. ResidencyTypeOK
  BY DEF Init, ResidencyTypeOK, States, Stages, ClientStates
<1>2. ResidentConsistent
  BY DEF Init, ResidentConsistent
<1>3. LiveIsRegistered /\ AwaitsALoad
  BY DEF Init, LiveIsRegistered, AwaitsALoad
<1> QED
  BY <1>1, <1>2, <1>3 DEF LoadInv

-----------------------------------------------------------------------------
(* The clients' steps.                                                     *)

LEMMA FreshTask ==
  ASSUME Unused # {}, NEW t, t = CHOOSE u \in Unused : TRUE
  PROVE  /\ t \in Tasks
         /\ load[t] \in Done \cup {"free"}
         /\ \A c \in Clients : waitsFor[c] # t
         /\ t # loadWaiterTask
BY DEF Unused, Referenced

LEMMA EnsureLoadedLoadInv ==
  ASSUME LoadInv, NEW c \in Clients, NEW n \in Nat, NEW w \in Tasks \cup {NoTask},
         EnsureLoaded(c, n, w)
  PROVE  LoadInv'
<1> USE NoTaskNotATask DEF LoadInv, ResidencyTypeOK, AwaitsALoad, shutdownVars
<1>1. CASE UseLoaded(c)
  BY <1>1 DEF EnsureLoaded, UseLoaded, Acquired, ResidentConsistent, LiveIsRegistered,
       JoinLoad, StartLoad, NeedsLoad, ClientStates
<1>2. CASE AwaitUnload(c)
  BY <1>2 DEF EnsureLoaded, AwaitUnload, ResidentConsistent, LiveIsRegistered,
       JoinLoad, StartLoad, ClientStates
<1>3. CASE JoinLoad(c) /\ loadWaiters' = n + 1 /\ loadWaiterTask' = loadingTask
  BY <1>3 DEF EnsureLoaded, JoinLoad, AwaitLoad, ResidentConsistent, LiveIsRegistered,
       ClientStates
<1>4. CASE StartLoad(c) /\ loadWaiters' = 1 /\ loadWaiterTask' = loadingTask'
  <2> DEFINE t == CHOOSE u \in Unused : TRUE
  <2>1. t \in Tasks /\ load[t] \in Done \cup {"free"}
    BY <1>4, FreshTask DEF StartLoad
  <2>2. /\ loadingTask' = t /\ load' = [load EXCEPT ![t] = "new"]
        /\ client' = [client EXCEPT ![c] = "waitingLoad"]
        /\ waitsFor' = [waitsFor EXCEPT ![c] = t]
        /\ UNCHANGED <<activeRequests, using>>
    BY <1>4 DEF StartLoad, AwaitLoad
  <2>3. ~unloading /\ loadingTask = NoTask /\ state # "loaded" /\ state' = "loading"
        /\ abandonedLoadingTask' = NoTask
    BY <1>4, NoTaskNotATask DEF StartLoad, NeedsLoad, ResidentConsistent
  <2>4. UNCHANGED <<engine, unloading, cancelled, shutdown, shutdownFor>>
    BY DEF EnsureLoaded
  <2> HIDE DEF t
  <2>5. ResidencyTypeOK'
    BY <1>4, <2>1, <2>2, <2>3, <2>4 DEF States, Stages, ClientStates
  <2>6. ResidentConsistent'
    BY <2>1, <2>2, <2>3, <2>4, NoTaskNotATask DEF ResidentConsistent
  <2>7. LiveIsRegistered'
    BY <2>1, <2>2, <2>3, NoTaskNotATask DEF LiveIsRegistered
  <2>8. AwaitsALoad'
    BY <2>1, <2>2
  <2> QED
    BY <2>5, <2>6, <2>7, <2>8
<1> QED
  BY <1>1, <1>2, <1>3, <1>4 DEF EnsureLoaded

LEMMA WaitersAfterType ==
  ASSUME ResidencyTypeOK, NEW t
  PROVE  WaitersAfter(t) \in Nat /\ WaiterTaskAfter(t) \in Tasks \cup {NoTask}
BY DEF ResidencyTypeOK, WaitersAfter, WaiterTaskAfter, Counted

LEMMA ResumeLoadInv ==
  ASSUME LoadInv, NEW c \in Clients, ClientResumes(c)
  PROVE  LoadInv'
<1> USE WaitersAfterType DEF AwaitsALoad
<1>1. CASE ResumeUnloaded(c)
  BY <1>1, EnsureLoadedLoadInv DEF ResumeUnloaded, LoadInv, ResidencyTypeOK
<1>2. CASE StartsOver(c)
  BY <1>2, EnsureLoadedLoadInv DEF StartsOver, LoadInv
<1>3. ASSUME NEW o \in {"failed", "inherited"}, GivesUp(c, o) PROVE LoadInv'
  BY <1>3 DEF GivesUp, DropsOut, LoadInv, ResidencyTypeOK, ResidentConsistent,
       LiveIsRegistered, ClientStates, taskVars, shutdownVars
<1>4. CASE ResumeLoaded(c) /\ ~StartsOver(c)
  BY <1>4 DEF ResumeLoaded, Acquired, DropsOut, LoadInv, ResidencyTypeOK,
       ResidentConsistent, LiveIsRegistered, ClientStates, Recheck, taskVars, shutdownVars
<1>5. CASE Abandoned(c)
  BY <1>5 DEF Abandoned, LoadInv, ResidencyTypeOK, ResidentConsistent,
       LiveIsRegistered, ClientStates, residentVars, taskVars, shutdownVars
<1> QED
  BY <1>1, <1>2, <1>3, <1>4, <1>5 DEF ClientResumes, ResumeFailed, ResumeCancelled,
     ResumeLoaded

LEMMA ClientLoadInv ==
  ASSUME LoadInv, NEW c \in Clients, Leave(c) \/ Release(c) \/ Recover(c)
  PROVE  LoadInv'
<1> USE WaitersAfterType DEF LoadInv, ResidencyTypeOK, AwaitsALoad
<1>1. CASE Release(c)
  BY <1>1 DEF Release, ResidentConsistent, LiveIsRegistered, ClientStates, taskVars,
       shutdownVars
<1>2. CASE Recover(c)
  BY <1>2 DEF Recover, ResidentConsistent, LiveIsRegistered, ClientStates, taskVars,
       residentVars, shutdownVars
<1>3. CASE Leave(c) /\ client[c] = "waitingUnload"
  BY <1>3 DEF Leave, ResidentConsistent, LiveIsRegistered, ClientStates, taskVars,
       residentVars, shutdownVars
<1>4. CASE Leave(c) /\ client[c] = "waitingLoad"
  <2>1. /\ abandonedLoadingTask' \in Tasks \cup {NoTask}
        /\ cancelled' \subseteq Tasks
        /\ waitsFor' \in [Clients -> Tasks \cup {NoTask}]
        /\ client' \in [Clients -> ClientStates]
        /\ AwaitsALoad'
    <3>1. CASE Abandons(waitsFor[c])
      <4>1. waitsFor[c] \in Tasks
        BY <1>4
      <4> QED
        BY <1>4, <3>1, <4>1 DEF Leave, ClientStates
    <3>2. CASE ~Abandons(waitsFor[c])
      BY <1>4, <3>2 DEF Leave, ClientStates
    <3> QED
      BY <3>1, <3>2
  <2>2. /\ loadWaiters' \in Nat /\ loadWaiterTask' \in Tasks \cup {NoTask}
        /\ UNCHANGED <<state, engine, activeRequests, loadingTask, unloading, load,
                       using, shutdown, shutdownFor>>
    BY <1>4 DEF Leave, shutdownVars
  <2> QED
    BY <2>1, <2>2 DEF ResidentConsistent, LiveIsRegistered
<1> QED
  BY <1>1, <1>2, <1>3, <1>4 DEF Leave

-----------------------------------------------------------------------------
(* The steps of the load.                                                  *)

Live(t) == load[t] \notin Done \cup {"free"}

LEMMA LiveLoading ==
  ASSUME LoadInv, NEW t \in Tasks, Live(t)
  PROVE  /\ loadingTask = t /\ state = "loading"
         /\ engine = NoTask /\ unloading = FALSE
         /\ \A u \in Tasks : Live(u) => u = t
BY NoTaskNotATask DEF LoadInv, LiveIsRegistered, ResidentConsistent, ResidencyTypeOK, Live

LEMMA EntersStage ==
  ASSUME LoadInv, NEW t \in Tasks, Live(t), NEW s \in Stages, Enters(t, s)
  PROVE  /\ load' \in [Tasks -> Stages] /\ cancelled' \subseteq Tasks
         /\ \A u \in Tasks : Live(u)' => u = t
         /\ s \in Done => \A u \in Tasks : ~Live(u)'
BY LiveLoading DEF Enters, Live, LoadInv, ResidencyTypeOK

LEMMA LoadStepLive ==
  ASSUME NEW t \in Tasks, LoadStep(t)
  PROVE  /\ Live(t) /\ OnlyTheLoad
         /\ \/ \E s \in Stages : Enters(t, s) /\ KeepResident
            \/ Unwind(t) \/ Fail(t)
            \/ EngineLoaded(t)
<1> USE DEF Live, Done, Stages, WithEngine
<1>1. CASE LoadBegins(t)
  BY <1>1 DEF LoadBegins
<1>2. CASE EngineCreated(t)
  BY <1>2 DEF EngineCreated
<1>3. CASE Prepared(t)
  BY <1>3 DEF Prepared, CleanupCancelledLoad
<1>4. CASE EngineLoaded(t)
  BY <1>4 DEF EngineLoaded
<1>5. CASE LoadCancelled(t)
  BY <1>5 DEF LoadCancelled, CleanupCancelledLoad
<1>6. CASE LoadRaises(t)
  BY <1>6 DEF LoadRaises, CleanupCancelledLoad
<1>7. CASE StopDone(t)
  BY <1>7 DEF StopDone
<1>8. CASE StopInterrupted(t)
  BY <1>8 DEF StopInterrupted
<1> QED
  BY <1>1, <1>2, <1>3, <1>4, <1>5, <1>6, <1>7, <1>8 DEF LoadStep

LEMMA LoadStepLoadInv ==
  ASSUME LoadInv, NEW t \in Tasks, LoadStep(t)
  PROVE  LoadInv'
<1>1. /\ Live(t) /\ OnlyTheLoad
      /\ loadingTask = t /\ state = "loading" /\ engine = NoTask /\ unloading = FALSE
  BY LoadStepLive, LiveLoading
<1>2. /\ activeRequests' \in Nat /\ loadWaiters' \in Nat
      /\ {loadWaiterTask, shutdownFor}' \subseteq Tasks \cup {NoTask}
      /\ unloading' = FALSE
      /\ client' \in [Clients -> ClientStates]
      /\ waitsFor' \in [Clients -> Tasks \cup {NoTask}]
      /\ using' \in [Clients -> Tasks \cup {NoTask}]
      /\ shutdown' \in {"none", "checking", "waitingLoad", "waitingUnload", "done", "raised"}
      /\ AwaitsALoad'
  BY <1>1 DEF OnlyTheLoad, LoadInv, ResidencyTypeOK, AwaitsALoad, clientVars, shutdownVars
<1>3. ASSUME NEW s \in Stages, Enters(t, s), KeepResident
      PROVE  LoadInv'
  <2>1. /\ load' \in [Tasks -> Stages] /\ cancelled' \subseteq Tasks
        /\ \A u \in Tasks : Live(u)' => u = t
    BY <1>1, <1>3, EntersStage
  <2> QED
    BY <1>1, <1>2, <1>3, <2>1 DEF LoadInv, ResidencyTypeOK, ResidentConsistent,
       LiveIsRegistered, KeepResident, Live
<1>4. CASE Unwind(t)
  <2>1. /\ load' \in [Tasks -> Stages] /\ cancelled' \subseteq Tasks
        /\ \A u \in Tasks : ~Live(u)'
    BY <1>1, <1>4, EntersStage DEF Unwind, Stages, Done
  <2> QED
    BY <1>1, <1>2, <1>4, <2>1 DEF LoadInv, ResidencyTypeOK, ResidentConsistent,
       LiveIsRegistered, Unwind, Live, States
<1>5. CASE Fail(t)
  <2>1. /\ load' \in [Tasks -> Stages] /\ cancelled' \subseteq Tasks
        /\ \A u \in Tasks : ~Live(u)'
    BY <1>1, <1>5, EntersStage DEF Fail, Stages, Done
  <2> QED
    BY <1>1, <1>2, <1>5, <2>1 DEF LoadInv, ResidencyTypeOK, ResidentConsistent,
       LiveIsRegistered, Fail, Live, States
<1>6. CASE EngineLoaded(t)
  <2>1. /\ load' \in [Tasks -> Stages] /\ cancelled' \subseteq Tasks
        /\ \A u \in Tasks : ~Live(u)'
    BY <1>1, <1>6, EntersStage DEF EngineLoaded, Stages, Done
  <2> QED
    BY <1>1, <1>2, <1>6, <2>1, NoTaskNotATask DEF LoadInv, ResidencyTypeOK,
       ResidentConsistent, LiveIsRegistered, EngineLoaded, Live, States
<1> QED
  BY <1>3, <1>4, <1>5, <1>6, LoadStepLive

-----------------------------------------------------------------------------
(* Unloading and shutting down.                                            *)

LEMMA ManagerLoadInv ==
  ASSUME LoadInv, UnloadIfIdle \/ UnloadEnds \/ ShutdownChecks \/ ShutdownResumes
  PROVE  LoadInv'
<1> USE DEF LoadInv, ResidencyTypeOK, ResidentConsistent, LiveIsRegistered, AwaitsALoad,
            taskVars, clientVars, shutdownVars
<1>1. CASE UnloadIfIdle
  BY <1>1 DEF UnloadIfIdle, BeginUnload, States
<1>2. CASE UnloadEnds
  <2>1. client' \in [Clients -> ClientStates] /\ AwaitsALoad'
    BY <1>2 DEF UnloadEnds, ClientStates
  <2>2. /\ state = "unloading" /\ engine # NoTask /\ loadingTask = NoTask
        /\ unloading' = FALSE
        /\ \/ state' = "unloaded" /\ engine' = NoTask
           \/ state' = "loaded" /\ engine' = engine
        /\ shutdown' \in {shutdown, "done", "raised"}
    BY <1>2 DEF UnloadEnds
  <2>3. UNCHANGED <<activeRequests, loadWaiters, loadWaiterTask, abandonedLoadingTask,
                    loadingTask, load, cancelled, waitsFor, using, shutdownFor>>
    BY <1>2 DEF UnloadEnds
  <2>4. ResidencyTypeOK'
    BY <2>1, <2>2, <2>3 DEF States
  <2> QED
    BY <2>1, <2>2, <2>3, <2>4
<1>3. CASE ShutdownChecks
  <2>1. /\ cancelled' \subseteq Tasks
        /\ shutdownFor' \in Tasks \cup {NoTask}
        /\ shutdown' \in {"waitingLoad", "waitingUnload", "done"}
    BY <1>3, NoTaskNotATask DEF ShutdownChecks
  <2>2. /\ UNCHANGED <<engine, activeRequests, loadWaiters, loadWaiterTask,
                       abandonedLoadingTask, loadingTask, load, client, waitsFor, using>>
        /\ \/ UNCHANGED <<state, unloading>>
           \/ /\ loadingTask = NoTask /\ engine # NoTask
              /\ state' = "unloading" /\ unloading' = TRUE
    BY <1>3 DEF ShutdownChecks, BeginUnload
  <2>3. ResidencyTypeOK'
    <3>1. state' \in States /\ unloading' \in BOOLEAN
      BY <2>2 DEF States
    <3> QED
      BY <2>1, <2>2, <3>1
  <2>4. ResidentConsistent'
    BY <2>2
  <2> QED
    BY <2>2, <2>3, <2>4
<1>4. CASE ShutdownResumes
  BY <1>4 DEF ShutdownResumes, residentVars
<1> QED
  BY <1>1, <1>2, <1>3, <1>4

LEMMA RequestLoadInv ==
  ASSUME LoadInv, NEW c \in Clients, Request(c)
  PROVE  LoadInv'
BY EnsureLoadedLoadInv DEF Request, LoadInv, ResidencyTypeOK

LEMMA LoadInvStep == LoadInv /\ [Next]_vars => LoadInv'
<1> SUFFICES ASSUME LoadInv, [Next]_vars PROVE LoadInv'
  OBVIOUS
<1>1. ASSUME NEW c \in Clients,
             Request(c) \/ ClientResumes(c) \/ Leave(c) \/ Release(c) \/ Recover(c)
      PROVE  LoadInv'
  BY <1>1, RequestLoadInv, ResumeLoadInv, ClientLoadInv
<1>2. CASE UNCHANGED vars
  BY <1>2 DEF vars, residentVars, taskVars, clientVars, shutdownVars, LoadInv,
     ResidencyTypeOK, ResidentConsistent, LiveIsRegistered, AwaitsALoad
<1> QED
  BY <1>1, <1>2, LoadStepLoadInv, ManagerLoadInv DEF Next

(* One load at a time, registered as such, in every reachable state.       *)
THEOREM LoadInvHolds == Safety => []LoadInv
BY LoadInvInit, LoadInvStep, PTL DEF Safety

(* Every variable of the manager keeps its type.                           *)
THEOREM ResidencyTypeCorrect == Safety => []ResidencyTypeOK
<1>1. LoadInv => ResidencyTypeOK
  BY DEF LoadInv
<1> QED
  BY <1>1, LoadInvHolds, PTL

(* The published state agrees with the tasks and the engine.               *)
THEOREM StateCorrect == Safety => []ResidentConsistent
<1>1. LoadInv => ResidentConsistent
  BY DEF LoadInv
<1> QED
  BY <1>1, LoadInvHolds, PTL

(* There is one engine at most, those being loaded or stopped included.    *)
THEOREM OneEngine == Safety => []SingleEngine
<1>1. LoadInv => SingleEngine
  <2> SUFFICES ASSUME LoadInv, NEW t \in Engines, NEW u \in Engines PROVE t = u
    BY DEF SingleEngine
  <2>1. ASSUME NEW x \in Tasks, load[x] \in WithEngine PROVE Live(x)
    BY <2>1 DEF WithEngine, Live, Done
  <2>2. CASE \E x \in Tasks : load[x] \in WithEngine
    BY <2>1, <2>2, LiveLoading DEF Engines
  <2>3. CASE \A x \in Tasks : load[x] \notin WithEngine
    BY <2>3 DEF Engines
  <2> QED
    BY <2>2, <2>3
<1> QED
  BY <1>1, LoadInvHolds, PTL

-----------------------------------------------------------------------------
(* The engine in use.                                                      *)

UseInv == LoadInv /\ EngineInUse

LEMMA HoldersFinite == IsFiniteSet(Holders) /\ Cardinality(Holders) \in Nat
BY ResidencyAssumption, FS_Subset, FS_CardinalityType DEF Holders

(* Whoever holds an engine before shutdown holds the loaded one.           *)
LEMMA HeldIsLoaded ==
  ASSUME UseInv, shutdown = "none", Holders # {}
  PROVE  ~NeedsLoad /\ state = "loaded" /\ ~unloading
BY DEF UseInv, EngineInUse, LoadInv, ResidentConsistent, NeedsLoad

LEMMA AcquiredInUse ==
  ASSUME UseInv, NEW c \in Clients, client[c] # "holding", state = "loaded",
         Acquired(c, engine), UNCHANGED <<state, engine, shutdown>>
  PROVE  EngineInUse'
<1>1. Holders' = Holders \cup {c} /\ c \notin Holders
  BY DEF Holders, Acquired, UseInv, LoadInv, ResidencyTypeOK
<1>2. Cardinality(Holders') = Cardinality(Holders) + 1
  BY <1>1, HoldersFinite, FS_AddElement
<1>3. \A d \in Holders' : using'[d] = IF d = c THEN engine ELSE using[d]
  BY <1>1 DEF Acquired, UseInv, LoadInv, ResidencyTypeOK, Holders
<1> QED
  BY <1>1, <1>2, <1>3 DEF EngineInUse, UseInv, Acquired

(* A step that lets nobody acquire or release, and spares a held engine.   *)
LEMMA OthersInUse ==
  ASSUME UseInv, Holders' = Holders, UNCHANGED <<activeRequests, using>>,
         shutdown' = "none" => shutdown = "none",
         shutdown' = "none" /\ Holders # {} => UNCHANGED <<state, engine>>
  PROVE  EngineInUse'
BY DEF UseInv, EngineInUse

LEMMA EnsureLoadedInUse ==
  ASSUME UseInv, NEW c \in Clients, NEW n, NEW w, client[c] # "holding",
         EnsureLoaded(c, n, w)
  PROVE  EngineInUse'
<1>1. CASE UseLoaded(c)
  BY <1>1, AcquiredInUse DEF UseLoaded, NeedsLoad, EnsureLoaded, shutdownVars
<1>2. CASE ~UseLoaded(c)
  <2>1. /\ Holders' = Holders
        /\ UNCHANGED <<activeRequests, using, engine, shutdown>>
        /\ state' = state \/ NeedsLoad
    BY <1>2 DEF EnsureLoaded, AwaitUnload, JoinLoad, StartLoad, AwaitLoad, Holders,
       UseInv, LoadInv, ResidencyTypeOK, shutdownVars
  <2> QED
    BY <2>1, OthersInUse, HeldIsLoaded
<1> QED
  BY <1>1, <1>2

LEMMA ClientInUse ==
  ASSUME UseInv, NEW c \in Clients,
         Request(c) \/ ClientResumes(c) \/ Leave(c) \/ Release(c) \/ Recover(c)
  PROVE  EngineInUse'
<1>1. CASE Request(c) \/ ResumeUnloaded(c)
  BY <1>1, EnsureLoadedInUse DEF Request, ResumeUnloaded
<1>2. CASE client[c] = "waitingLoad" /\ StartsOver(c)
  BY <1>2, EnsureLoadedInUse DEF StartsOver
<1>3. CASE ResumeLoaded(c) /\ ~StartsOver(c)
  BY <1>3, AcquiredInUse DEF ResumeLoaded, Resumes, Recheck, shutdownVars
<1>4. ASSUME NEW o \in {"failed", "inherited"}, client[c] = "waitingLoad", GivesUp(c, o)
      PROVE  EngineInUse'
  <2>1. Holders' = Holders
    BY <1>4 DEF GivesUp, Holders, UseInv, LoadInv, ResidencyTypeOK
  <2> QED
    BY <1>4, <2>1, OthersInUse DEF GivesUp, shutdownVars
<1>5. CASE Leave(c) \/ Abandoned(c) \/ Recover(c)
  <2>1. Holders' = Holders
    BY <1>5 DEF Leave, Abandoned, Recover, Holders, UseInv, LoadInv, ResidencyTypeOK
  <2>2. UNCHANGED <<activeRequests, using, state, engine, shutdown>>
    BY <1>5 DEF Leave, Abandoned, Recover, residentVars, shutdownVars
  <2> QED
    BY <2>1, <2>2, OthersInUse
<1>6. CASE Release(c)
  <2>1. Holders' = Holders \ {c} /\ c \in Holders
    BY <1>6 DEF Release, Holders, UseInv, LoadInv, ResidencyTypeOK
  <2>2. Cardinality(Holders') = Cardinality(Holders) - 1 /\ Cardinality(Holders) > 0
    BY <2>1, HoldersFinite, FS_RemoveElement, FS_EmptySet
  <2>3. \A d \in Holders' : using'[d] = using[d]
    BY <1>6, <2>1 DEF Release, UseInv, LoadInv, ResidencyTypeOK, Holders
  <2> QED
    BY <1>6, <2>1, <2>2, <2>3 DEF Release, EngineInUse, UseInv, shutdownVars
<1> QED
  BY <1>1, <1>2, <1>3, <1>4, <1>5, <1>6 DEF ClientResumes, ResumeLoaded, ResumeFailed,
     ResumeCancelled, Resumes

LEMMA UseInvStep == UseInv /\ [Next]_vars => UseInv'
<1> SUFFICES ASSUME UseInv, [Next]_vars PROVE EngineInUse'
  BY LoadInvStep DEF UseInv
<1>1. ASSUME NEW t \in Tasks, LoadStep(t) PROVE EngineInUse'
  <2>1. state = "loading" /\ OnlyTheLoad
    BY <1>1, LoadStepLive, LiveLoading DEF UseInv
  <2> QED
    BY <2>1, HeldIsLoaded, OthersInUse DEF OnlyTheLoad, clientVars, shutdownVars, Holders
<1>2. CASE UnloadIfIdle
  <2>1. Holders = {}
    BY <1>2, HoldersFinite, FS_EmptySet DEF UnloadIfIdle, UseInv, EngineInUse
  <2> QED
    BY <1>2, <2>1, OthersInUse DEF UnloadIfIdle, clientVars, shutdownVars, Holders
<1>3. CASE UnloadEnds
  <2>1. Holders' = Holders
    BY <1>3 DEF UnloadEnds, Holders
  <2>2. unloading /\ UNCHANGED <<activeRequests, using>>
    BY <1>3 DEF UnloadEnds
  <2>3. shutdown' = "none" => shutdown = "none"
    BY <1>3 DEF UnloadEnds
  <2> QED
    BY <2>1, <2>2, <2>3, HeldIsLoaded, OthersInUse
<1>4. CASE ShutdownChecks
  BY <1>4, OthersInUse DEF ShutdownChecks, clientVars, Holders
<1>5. CASE ShutdownResumes
  BY <1>5, OthersInUse DEF ShutdownResumes, clientVars, residentVars, Holders
<1>6. CASE UNCHANGED vars
  BY <1>6, OthersInUse DEF vars, residentVars, clientVars, shutdownVars, Holders
<1> QED
  BY <1>1, <1>2, <1>3, <1>4, <1>5, <1>6, ClientInUse DEF Next

(* A request holds the engine that is resident and loaded, and is counted. *)
THEOREM EnginePinned == Safety => []EngineInUse
<1>1. Init => UseInv
  BY LoadInvInit, FS_EmptySet DEF Init, UseInv, EngineInUse, Holders
<1>2. UseInv => EngineInUse
  BY DEF UseInv
<1> QED
  BY <1>1, <1>2, UseInvStep, PTL DEF Safety

-----------------------------------------------------------------------------
(* The waiters of a load.                                                  *)

(* The numbers n and w are right once c does not count as a waiter.        *)
CountsBut(c, n, w) ==
  /\ w = NoTask => n = 0
  /\ w # NoTask => n > 0 /\ n = Cardinality(Waiters(w) \ {c})
  /\ loadingTask # NoTask =>
       /\ w \in {loadingTask, NoTask}
       /\ Waiters(loadingTask) \ {c} # {} => w = loadingTask

(* What WaitersCounted rests on: whoever awaits the load under way is a    *)
(* waiter the count is about.                                              *)
CountsExact ==
  /\ loadWaiterTask = NoTask => loadWaiters = 0
  /\ loadWaiterTask # NoTask =>
       loadWaiters > 0 /\ loadWaiters = Cardinality(Waiters(loadWaiterTask))
  /\ loadingTask # NoTask =>
       /\ loadWaiterTask \in {loadingTask, NoTask}
       /\ Waiters(loadingTask) # {} => loadWaiterTask = loadingTask

WaitInv == LoadInv /\ CountsExact

LEMMA WaitersFinite ==
  ASSUME NEW t, NEW S \in SUBSET Waiters(t)
  PROVE  IsFiniteSet(S) /\ Cardinality(S) \in Nat
BY ResidencyAssumption, FS_Subset, FS_CardinalityType DEF Waiters

(* A client that does not await a load does not count anyway.              *)
LEMMA NotAWaiter ==
  ASSUME WaitInv, NEW c \in Clients, client[c] # "waitingLoad"
  PROVE  CountsBut(c, loadWaiters, loadWaiterTask)
<1>1. \A t : Waiters(t) \ {c} = Waiters(t)
  BY DEF Waiters
<1> QED
  BY <1>1 DEF WaitInv, CountsExact, CountsBut

(* A client that drops out leaves the count of the others.                 *)
LEMMA OneWaiterLess ==
  ASSUME WaitInv, NEW c \in Clients, client[c] = "waitingLoad"
  PROVE  /\ CountsBut(c, WaitersAfter(waitsFor[c]), WaiterTaskAfter(waitsFor[c]))
         /\ Abandons(waitsFor[c]) => Waiters(waitsFor[c]) = {c}
<1> DEFINE t == waitsFor[c]
           W == Waiters(t)
<1>1. c \in W /\ t \in Tasks /\ \A u \in Tasks \ {t} : Waiters(u) \ {c} = Waiters(u)
  BY DEF Waiters, WaitInv, LoadInv, AwaitsALoad
<1>2. /\ Cardinality(W) \in Nat /\ Cardinality(W \ {c}) = Cardinality(W) - 1
      /\ Cardinality(W) > 0
      /\ Cardinality(W \ {c}) = 0 <=> W \ {c} = {}
      /\ Cardinality(W \ {c}) \in Nat
  <2>1. /\ IsFiniteSet(W) /\ Cardinality(W) \in Nat
        /\ IsFiniteSet(W \ {c}) /\ Cardinality(W \ {c}) \in Nat
    BY WaitersFinite
  <2> HIDE DEF W
  <2>2. Cardinality(W \ {c}) = Cardinality(W) - 1
    BY <2>1, <1>1, FS_RemoveElement
  <2> QED
    BY <2>1, <2>2, FS_EmptySet
<1>3. /\ t # NoTask
      /\ loadWaiterTask \in Tasks \cup {NoTask} /\ loadingTask \in Tasks \cup {NoTask}
      /\ loadWaiters \in Nat
  BY <1>1, NoTaskNotATask DEF WaitInv, LoadInv, ResidencyTypeOK
<1>4. CASE loadWaiterTask = t
  <2>1. loadWaiters = Cardinality(W) /\ Counted(t)
    BY <1>2, <1>3, <1>4 DEF WaitInv, CountsExact, Counted
  <2>2. /\ WaitersAfter(t) = Cardinality(W \ {c})
        /\ WaiterTaskAfter(t) = IF W \ {c} = {} THEN NoTask ELSE t
    BY <2>1, <1>2, <1>4 DEF WaitersAfter, WaiterTaskAfter
  <2>3. loadingTask # NoTask => loadingTask = t
    BY <1>3, <1>4 DEF WaitInv, CountsExact
  <2> HIDE DEF W
  <2>4. CountsBut(c, WaitersAfter(t), WaiterTaskAfter(t))
    BY <2>2, <2>3, <1>2, <1>3 DEF CountsBut, W
  <2> QED
    BY <2>1, <2>4, <1>1, <1>2 DEF Abandons, W
<1>5. CASE loadWaiterTask # t
  <2>1. /\ WaitersAfter(t) = loadWaiters /\ WaiterTaskAfter(t) = loadWaiterTask
        /\ ~Abandons(t)
    BY <1>5 DEF WaitersAfter, WaiterTaskAfter, Counted, Abandons
  <2>2. loadingTask # t
    BY <1>1, <1>3, <1>5 DEF WaitInv, CountsExact
  <2> QED
    BY <2>1, <2>2, <1>1, <1>3, <1>5 DEF CountsBut, WaitInv, CountsExact
<1> QED
  BY <1>4, <1>5

(* The client is no waiter any more, and the counts are those without it.  *)
LEMMA DroppedOut ==
  ASSUME WaitInv, NEW c \in Clients, NEW n, NEW w,
         CountsBut(c, n, w), loadWaiters' = n, loadWaiterTask' = w,
         \A t : Waiters(t)' = Waiters(t) \ {c},
         loadingTask' = loadingTask
  PROVE  CountsExact'
BY DEF CountsBut, CountsExact

LEMMA EnsureLoadedCounts ==
  ASSUME WaitInv, NEW c \in Clients, NEW n \in Nat, NEW w \in Tasks \cup {NoTask},
         CountsBut(c, n, w), EnsureLoaded(c, n, w)
  PROVE  CountsExact'
<1> USE DEF WaitInv, LoadInv, ResidencyTypeOK
<1>1. CASE UseLoaded(c) \/ AwaitUnload(c)
  <2>1. \A t : Waiters(t)' = Waiters(t) \ {c}
    BY <1>1 DEF UseLoaded, Acquired, AwaitUnload, Waiters
  <2>2. loadWaiters' = n /\ loadWaiterTask' = w /\ loadingTask' = loadingTask
    BY <1>1, NoTaskNotATask DEF EnsureLoaded, UseLoaded, AwaitUnload, JoinLoad, StartLoad,
       NeedsLoad, Acquired, AwaitLoad
  <2> QED
    BY <2>1, <2>2, DroppedOut
<1>2. ASSUME NEW t \in Tasks, AwaitLoad(c, t), Cardinality(Waiters(t) \ {c}) \in Nat,
             loadWaiters' = Cardinality(Waiters(t) \ {c}) + 1,
             loadWaiterTask' = t, loadingTask' = t
      PROVE  CountsExact'
  <2>1. Waiters(t)' = (Waiters(t) \ {c}) \cup {c}
    BY <1>2 DEF AwaitLoad, Waiters
  <2>2. Cardinality(Waiters(t)') = Cardinality(Waiters(t) \ {c}) + 1
    BY <2>1, WaitersFinite, FS_AddElement
  <2> QED
    BY <1>2, <2>2, NoTaskNotATask DEF CountsExact
<1>3. CASE JoinLoad(c) /\ loadWaiters' = n + 1 /\ loadWaiterTask' = loadingTask
  <2>1. /\ loadingTask \in Tasks /\ AwaitLoad(c, loadingTask)
        /\ loadingTask' = loadingTask
    BY <1>3 DEF JoinLoad
  <2>2. n = Cardinality(Waiters(loadingTask) \ {c})
    BY <2>1, NoTaskNotATask, FS_EmptySet DEF CountsBut
  <2> QED
    BY <1>2, <1>3, <2>1, <2>2
<1>4. CASE StartLoad(c) /\ loadWaiters' = 1 /\ loadWaiterTask' = loadingTask'
  <2> DEFINE t == CHOOSE u \in Unused : TRUE
  <2>1. t \in Tasks /\ (\A d \in Clients : waitsFor[d] # t)
        /\ AwaitLoad(c, t) /\ loadingTask' = t
    BY <1>4, FreshTask DEF StartLoad
  <2>2. Waiters(t) \ {c} = {}
    BY <2>1 DEF Waiters
  <2>3. Cardinality(Waiters(t) \ {c}) = 0
    BY <2>2, FS_EmptySet
  <2> HIDE DEF t
  <2> QED
    BY <1>2, <1>4, <2>1, <2>3
<1> QED
  BY <1>1, <1>3, <1>4 DEF EnsureLoaded

(* No step of somebody else makes or unmakes a waiter.                     *)
LEMMA OthersCount ==
  ASSUME WaitInv, \A t : Waiters(t)' = Waiters(t), UNCHANGED <<loadWaiters, loadWaiterTask>>,
         loadingTask' \in {loadingTask, NoTask}
  PROVE  CountsExact'
BY DEF WaitInv, CountsExact

LEMMA ClientCounts ==
  ASSUME WaitInv, NEW c \in Clients,
         Request(c) \/ ClientResumes(c) \/ Leave(c) \/ Release(c) \/ Recover(c)
  PROVE  CountsExact'
<1> USE DEF WaitInv, LoadInv, ResidencyTypeOK
<1>1. CASE Request(c) \/ ResumeUnloaded(c)
  BY <1>1, NotAWaiter, EnsureLoadedCounts DEF Request, ResumeUnloaded
<1>2. CASE client[c] = "waitingLoad" /\ StartsOver(c)
  BY <1>2, OneWaiterLess, WaitersAfterType, EnsureLoadedCounts DEF StartsOver
<1>3. ASSUME client[c] = "waitingLoad", loadingTask' = loadingTask,
             loadWaiters' = WaitersAfter(waitsFor[c]),
             loadWaiterTask' = WaiterTaskAfter(waitsFor[c]),
             \A t : Waiters(t)' = Waiters(t) \ {c}
      PROVE  CountsExact'
  BY <1>3, OneWaiterLess, DroppedOut
<1>4. ASSUME NEW o \in {"failed", "inherited"}, client[c] = "waitingLoad", GivesUp(c, o)
      PROVE  CountsExact'
  <2>1. \A t : Waiters(t)' = Waiters(t) \ {c}
    BY <1>4 DEF GivesUp, DropsOut, Waiters
  <2> QED
    BY <1>3, <1>4, <2>1 DEF GivesUp, DropsOut
<1>5. CASE ResumeLoaded(c) /\ ~StartsOver(c)
  <2>1. \A t : Waiters(t)' = Waiters(t) \ {c}
    BY <1>5 DEF ResumeLoaded, Resumes, Acquired, DropsOut, Waiters
  <2> QED
    BY <1>3, <1>5, <2>1 DEF ResumeLoaded, Resumes, DropsOut
<1>6. CASE Leave(c) /\ client[c] = "waitingLoad"
  <2>1. \A t : Waiters(t)' = Waiters(t) \ {c}
    BY <1>6 DEF Leave, Waiters
  <2> QED
    BY <1>3, <1>6, <2>1 DEF Leave
<1>7. CASE Leave(c) /\ client[c] # "waitingLoad"
  <2>1. \A t : Waiters(t)' = Waiters(t)
    BY <1>7 DEF Leave, Waiters
  <2> QED
    BY <1>7, <2>1, OthersCount DEF Leave, residentVars
<1>8. CASE Abandoned(c) \/ Release(c) \/ Recover(c)
  <2>1. \A t : Waiters(t)' = Waiters(t)
    BY <1>8 DEF Abandoned, Release, Recover, Waiters
  <2>2. UNCHANGED <<loadWaiters, loadWaiterTask, loadingTask>>
    BY <1>8 DEF Abandoned, Release, Recover, residentVars
  <2> QED
    BY <2>1, <2>2, OthersCount
<1> QED
  BY <1>1, <1>2, <1>4, <1>5, <1>6, <1>7, <1>8 DEF ClientResumes, ResumeLoaded,
     ResumeFailed, ResumeCancelled, Resumes

LEMMA WaitInvStep == WaitInv /\ [Next]_vars => WaitInv'
<1> SUFFICES ASSUME WaitInv, [Next]_vars PROVE CountsExact'
  BY LoadInvStep DEF WaitInv
<1>1. ASSUME NEW t \in Tasks, LoadStep(t) PROVE CountsExact'
  <2>1. OnlyTheLoad /\ loadingTask' \in {loadingTask, NoTask}
    BY <1>1, LoadStepLive DEF KeepResident, Unwind, Fail, EngineLoaded
  <2> QED
    BY <2>1, OthersCount DEF OnlyTheLoad, clientVars, Waiters
<1>2. CASE UnloadIfIdle \/ ShutdownChecks \/ ShutdownResumes
  <2>1. UNCHANGED <<loadWaiters, loadWaiterTask, loadingTask, client, waitsFor>>
    BY <1>2 DEF UnloadIfIdle, ShutdownChecks, ShutdownResumes, clientVars, residentVars
  <2> QED
    BY <2>1, OthersCount DEF Waiters
<1>3. CASE UnloadEnds
  <2>1. \A t : Waiters(t)' = Waiters(t)
    BY <1>3 DEF UnloadEnds, Waiters
  <2> QED
    BY <1>3, <2>1, OthersCount DEF UnloadEnds
<1>4. CASE UNCHANGED vars
  BY <1>4, OthersCount DEF vars, residentVars, clientVars, Waiters
<1> QED
  BY <1>1, <1>2, <1>3, <1>4, ClientCounts DEF Next

(* The count and the task of the waiters are exact in every reachable      *)
(* state.                                                                  *)
THEOREM WaitInvHolds == Safety => []WaitInv
<1>1. Init => CountsExact
  BY DEF Init, CountsExact
<1>2. Init => WaitInv
  BY <1>1, LoadInvInit DEF WaitInv
<1> QED
  BY <1>2, WaitInvStep, PTL DEF Safety

(* The count of waiters is that of the clients awaiting the load it is     *)
(* about.                                                                  *)
THEOREM WaitersCorrect == Safety => []WaitersCounted
<1>1. WaitInv => WaitersCounted
  BY DEF WaitInv, CountsExact, WaitersCounted
<1> QED
  BY <1>1, WaitInvHolds, PTL

(* Unless the manager shuts down, a load is cancelled only when nobody     *)
(* waits for it.                                                           *)
THEOREM CancelledWithoutWaiters == Safety => CancelledAlone
<1> DEFINE A == \A t \in cancelled' \ cancelled : shutdown' = "none" => Waiters(t)' = {}
<1>1. WaitInv /\ [Next]_vars => [A]_vars
  <2> SUFFICES ASSUME WaitInv, Next, NEW t \in cancelled' \ cancelled, shutdown' = "none"
               PROVE  Waiters(t)' = {}
    OBVIOUS
  <2>1. ASSUME NEW c \in Clients, Leave(c) PROVE Waiters(t)' = {}
    <3>1. /\ client[c] = "waitingLoad" /\ Abandons(waitsFor[c]) /\ t = waitsFor[c]
          /\ client' = [client EXCEPT ![c] = "abandoning"] /\ UNCHANGED waitsFor
      BY <2>1 DEF Leave, taskVars
    <3>2. Waiters(t) = {c}
      BY <3>1, OneWaiterLess
    <3> QED
      BY <3>1, <3>2 DEF Waiters, WaitInv, LoadInv, ResidencyTypeOK
  <2>2. ASSUME NEW c \in Clients, Request(c) \/ ClientResumes(c) \/ Release(c) \/ Recover(c)
        PROVE  FALSE
    <3>1. EnsureLoaded(c, loadWaiters, loadWaiterTask) \/ StartsOver(c)
            => UNCHANGED cancelled
      BY DEF StartsOver, EnsureLoaded
    <3>2. UNCHANGED cancelled
      BY <2>2, <3>1 DEF Request, ClientResumes, ResumeUnloaded, ResumeLoaded, ResumeFailed,
         ResumeCancelled, GivesUp, Abandoned, Release, Recover, taskVars
    <3> QED
      BY <3>2
  <2>3. ASSUME NEW u \in Tasks, LoadStep(u) PROVE FALSE
    BY <2>3, LoadStepLive DEF Enters, Unwind, Fail, EngineLoaded
  <2>4. CASE UnloadIfIdle \/ UnloadEnds \/ ShutdownChecks \/ ShutdownResumes
    BY <2>4 DEF UnloadIfIdle, UnloadEnds, ShutdownChecks, ShutdownResumes, taskVars
  <2> QED
    BY <2>1, <2>2, <2>3, <2>4 DEF Next
<1> QED
  BY <1>1, WaitInvHolds, PTL DEF Safety, CancelledAlone

-----------------------------------------------------------------------------
(* The registration of a load.  It outlives the load in two ways, which    *)
(* the assumptions of LoadsUnwind leave out: a cancellation that arrives   *)
(* while engine.stop() is awaited, and one by shutdown() that arrives      *)
(* before the first step of the task.                                      *)

UnwindInv ==
  /\ LoadInv
  /\ loadingTask # NoTask => Live(loadingTask)
  /\ \A t \in Tasks : load[t] \notin {"stopping", "failing"}
  /\ \A t \in cancelled : Live(t) /\ load[t] # "new"

LEMMA ClientUnwinds ==
  ASSUME UnwindInv, NEW c \in Clients,
         Request(c) \/ ClientResumes(c) \/ Leave(c) \/ Release(c) \/ Recover(c)
  PROVE  UnwindInv'
<1> USE DEF UnwindInv, LoadInv, ResidencyTypeOK
<1>1. ASSUME UNCHANGED <<load, cancelled, loadingTask>>
      PROVE  UnwindInv'
  <2>1. LoadInv'
    BY RequestLoadInv, ResumeLoadInv, ClientLoadInv
  <2> QED
    BY <1>1, <2>1 DEF Live
<1>2. ASSUME NEW n, NEW w, EnsureLoaded(c, n, w)
      PROVE  UnwindInv'
  <2>1. LoadInv'
    BY RequestLoadInv, ResumeLoadInv, ClientLoadInv
  <2>2. CASE StartLoad(c)
    <3> DEFINE t == CHOOSE u \in Unused : TRUE
    <3>1. /\ t \in Tasks /\ load[t] \in Done \cup {"free"}
          /\ loadingTask' = t /\ load' = [load EXCEPT ![t] = "new"]
      BY <2>2, FreshTask DEF StartLoad
    <3>2. t \notin cancelled /\ cancelled' = cancelled
      BY <1>2, <3>1 DEF Live, EnsureLoaded
    <3> HIDE DEF t
    <3> QED
      BY <2>1, <3>1, <3>2 DEF Live, Done
  <2>3. CASE ~StartLoad(c)
    BY <1>1, <1>2, <2>3 DEF EnsureLoaded, UseLoaded, AwaitUnload, JoinLoad
  <2> QED
    BY <2>2, <2>3
<1>3. CASE Leave(c)
  <2>1. LoadInv'
    BY <1>3, ClientLoadInv
  <2>2. UNCHANGED <<load, loadingTask>>
    BY <1>3 DEF Leave, residentVars, taskVars
  <2>3. \A t \in cancelled' : Live(t) /\ load[t] # "new"
    <3>1. CASE client[c] = "waitingLoad" /\ Abandons(waitsFor[c])
      <4>1. /\ waitsFor[c] \in Tasks /\ load[waitsFor[c]] # "new"
            /\ loadingTask = waitsFor[c]
            /\ cancelled' = cancelled \cup {waitsFor[c]}
        BY <1>3, <3>1 DEF Leave, Abandons, AwaitsALoad
      <4> QED
        BY <4>1, NoTaskNotATask
    <3>2. CASE ~(client[c] = "waitingLoad" /\ Abandons(waitsFor[c]))
      BY <1>3, <3>2 DEF Leave, taskVars
    <3> QED
      BY <3>1, <3>2
  <2> QED
    BY <2>1, <2>2, <2>3 DEF Live
<1>4. CASE Release(c) \/ Recover(c) \/ Abandoned(c)
  BY <1>1, <1>4 DEF Release, Recover, Abandoned, residentVars, taskVars
<1>5. ASSUME NEW o, GivesUp(c, o) PROVE UnwindInv'
  BY <1>1, <1>5 DEF GivesUp, taskVars
<1>6. CASE ResumeLoaded(c) /\ ~StartsOver(c)
  BY <1>1, <1>6 DEF ResumeLoaded, taskVars, DropsOut
<1> QED
  BY <1>2, <1>3, <1>4, <1>5, <1>6 DEF Request, ClientResumes, ResumeUnloaded, ResumeLoaded,
     ResumeFailed, ResumeCancelled, StartsOver

LEMMA LoadStepUnwinds ==
  ASSUME ~StopAwaits, UnwindInv, NEW t \in Tasks, LoadStep(t)
  PROVE  UnwindInv'
<1> USE DEF UnwindInv
<1>1. LoadInv' /\ Live(t) /\ loadingTask = t
  BY LoadStepLoadInv, LoadStepLive, LiveLoading
<1>2. \/ \E s \in {"creating", "preparing", "starting"} : Enters(t, s) /\ KeepResident
      \/ \E s \in Done : Enters(t, s) /\ loadingTask' = NoTask
  <2> USE DEF Done
  <2>1. CASE LoadBegins(t)
    BY <2>1 DEF LoadBegins
  <2>2. CASE EngineCreated(t)
    BY <2>2 DEF EngineCreated
  <2>3. CASE Prepared(t)
    BY <2>3 DEF Prepared, CleanupCancelledLoad, Unwind
  <2>4. CASE EngineLoaded(t)
    BY <2>4 DEF EngineLoaded
  <2>5. CASE LoadCancelled(t)
    BY <2>5 DEF LoadCancelled, CleanupCancelledLoad, Unwind
  <2>6. CASE LoadRaises(t)
    BY <2>6 DEF LoadRaises, CleanupCancelledLoad, Unwind, Fail
  <2>7. CASE StopDone(t) \/ StopInterrupted(t)
    BY <2>7 DEF StopDone, StopInterrupted
  <2> QED
    BY <2>1, <2>2, <2>3, <2>4, <2>5, <2>6, <2>7 DEF LoadStep
<1>3. PICK s \in {"creating", "preparing", "starting"} \cup Done :
        /\ load' = [load EXCEPT ![t] = s] /\ cancelled' = cancelled \ {t}
        /\ s \in Done => loadingTask' = NoTask
        /\ s \notin Done => loadingTask' = loadingTask
  BY <1>2 DEF Enters, KeepResident, Done
<1>4. \A u \in Tasks : load'[u] = IF u = t THEN s ELSE load[u]
  BY <1>3 DEF LoadInv, ResidencyTypeOK
<1>5. cancelled \subseteq Tasks /\ loadingTask' \in {t, NoTask}
  BY <1>1, <1>3 DEF LoadInv, ResidencyTypeOK
<1>6. loadingTask' # NoTask => Live(loadingTask)'
  BY <1>1, <1>3, <1>4, <1>5 DEF Live, Done
<1>7. \A u \in Tasks : load'[u] \notin {"stopping", "failing"}
  BY <1>4 DEF Done
<1>8. \A u \in cancelled' : Live(u)' /\ load'[u] # "new"
  BY <1>3, <1>4, <1>5 DEF Live
<1> QED
  BY <1>1, <1>6, <1>7, <1>8

(* With engines whose stop() does not yield, and as long as nobody shuts   *)
(* the manager down, the registration of a load never outlives it.         *)
THEOREM LoadsUnwind ==
  ASSUME ~StopAwaits, ~Shutdowns
  PROVE  Safety => []LoadUnwinds
<1>1. Init => UnwindInv
  <2> SUFFICES ASSUME Init PROVE UnwindInv
    OBVIOUS
  <2>1. LoadInv
    BY LoadInvInit
  <2> QED
    BY <2>1 DEF Init, UnwindInv
<1>2. UnwindInv /\ (shutdown = "none") /\ [Next]_vars
        => UnwindInv' /\ (shutdown = "none")'
  <2> SUFFICES ASSUME UnwindInv, shutdown = "none", [Next]_vars
               PROVE  UnwindInv' /\ shutdown' = "none"
    OBVIOUS
  <2>1. ASSUME UNCHANGED <<load, cancelled, loadingTask>> PROVE UnwindInv'
    BY <2>1, LoadInvStep DEF UnwindInv, Live
  <2>2. ASSUME NEW c \in Clients,
               Request(c) \/ ClientResumes(c) \/ Leave(c) \/ Release(c) \/ Recover(c)
        PROVE  UnwindInv' /\ shutdown' = "none"
    <3>1. UnwindInv'
      BY <2>2, ClientUnwinds
    <3>2. \A n, w : EnsureLoaded(c, n, w) => shutdown' = shutdown
      BY DEF EnsureLoaded, shutdownVars
    <3> QED
      BY <2>2, <3>1, <3>2 DEF Request, ClientResumes, ResumeUnloaded, ResumeLoaded,
         ResumeFailed, ResumeCancelled, StartsOver, GivesUp, Abandoned, Leave, Release,
         Recover, shutdownVars
  <2>3. ASSUME NEW t \in Tasks, LoadStep(t) PROVE UnwindInv' /\ shutdown' = "none"
    BY <2>3, LoadStepUnwinds, LoadStepLive DEF OnlyTheLoad, shutdownVars
  <2>4. CASE UnloadIfIdle \/ UnloadEnds \/ ShutdownChecks \/ ShutdownResumes
    BY <2>1, <2>4 DEF UnloadIfIdle, UnloadEnds, ShutdownChecks, ShutdownResumes,
       taskVars, shutdownVars
  <2>5. CASE UNCHANGED vars
    BY <2>1, <2>5 DEF vars, residentVars, taskVars, shutdownVars
  <2> QED
    BY <2>2, <2>3, <2>4, <2>5 DEF Next
<1>3. UnwindInv => LoadUnwinds
  BY DEF UnwindInv, LoadUnwinds, Live
<1>4. Init => shutdown = "none"
  BY DEF Init
<1> QED
  BY <1>1, <1>2, <1>3, <1>4, PTL DEF Safety
=============================================================================
