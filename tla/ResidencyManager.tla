-------------------------- MODULE ResidencyManager --------------------------
(***************************************************************************)
(* The residency of one model, vllm_mlx/lifecycle.py: requests share one   *)
(* load of the model, pin the engine while they use it, and an idle loop   *)
(* unloads it when nobody does.                                            *)
(*                                                                         *)
(* Everything runs on one event loop, and no section under the manager's   *)
(* lock awaits, so each of them is part of one action; an action ends      *)
(* where the code awaits something.  Time is left out: any moment without  *)
(* a user may be one at which the model has been idle for long enough.     *)
(***************************************************************************)
EXTENDS Integers, FiniteSets

CONSTANTS
  Clients,      \* the coroutines that acquire the model
  Tasks,        \* identities for load tasks, and for the engines they make
  StopAwaits,   \* does engine.stop() of a half-loaded engine yield?
  Shutdowns     \* may shutdown() be called?

ASSUME ResidencyAssumption ==
  /\ IsFiniteSet(Clients) /\ Tasks \subseteq Nat
  /\ StopAwaits \in BOOLEAN /\ Shutdowns \in BOOLEAN

VARIABLES
  (* The ResidentModel. *)
  state, engine, activeRequests, loadWaiters, loadWaiterTask,
  abandonedLoadingTask, loadingTask,
  unloading,    \* _unloading_task is not None
  (* The load tasks. *)
  load,         \* where each task is in _load_engine
  cancelled,    \* the tasks whose cancellation is still to be delivered
  (* The coroutines. *)
  client,       \* where each client is in acquire and release
  waitsFor,     \* the load it awaits
  using,        \* the engine acquire returned to it
  shutdown,     \* where shutdown() is
  shutdownFor   \* the load shutdown() awaits

residentVars == <<state, engine, activeRequests, loadWaiters, loadWaiterTask,
                  abandonedLoadingTask, loadingTask, unloading>>
taskVars     == <<load, cancelled>>
clientVars   == <<client, waitsFor, using>>
shutdownVars == <<shutdown, shutdownFor>>
vars         == <<residentVars, taskVars, clientVars, shutdownVars>>

NoTask == -1

States == {"unloaded", "loading", "loaded", "unloading", "failed"}
Done   == {"loaded", "failed", "cancelled"}

(* "stopping" and "failing" await engine.stop(), after a cancellation and  *)
(* after an exception.                                                     *)
WithEngine == {"preparing", "starting", "stopping", "failing"}
Stages     == {"free", "new", "creating"} \cup WithEngine \cup Done

(* "inherited": acquire raised CancelledError in a client nobody cancelled.*)
ClientStates == {"idle", "woken", "waitingLoad", "waitingUnload", "holding",
                 "abandoning", "failed", "inherited"}

Init ==
  /\ state = "unloaded" /\ engine = NoTask /\ activeRequests = 0
  /\ loadWaiters = 0 /\ loadWaiterTask = NoTask
  /\ abandonedLoadingTask = NoTask /\ loadingTask = NoTask
  /\ unloading = FALSE
  /\ load = [t \in Tasks |-> "free"] /\ cancelled = {}
  /\ client = [c \in Clients |-> "idle"]
  /\ waitsFor = [c \in Clients |-> NoTask]
  /\ using = [c \in Clients |-> NoTask]
  /\ shutdown = "none" /\ shutdownFor = NoTask

(* Task objects nothing refers to any more are forgotten and reused.       *)
Referenced ==
  {engine, loadWaiterTask, abandonedLoadingTask, loadingTask, shutdownFor}
    \cup {waitsFor[c] : c \in Clients} \cup {using[c] : c \in Clients}
    \cup {t \in Tasks : load[t] \notin Done \cup {"free"}}

Unused == Tasks \ Referenced

-----------------------------------------------------------------------------
(* _release_load_waiter.                                                   *)

Counted(t) == loadWaiterTask = t /\ loadWaiters > 0

WaitersAfter_AnyTask(t) ==
  IF loadWaiters > 0 THEN loadWaiters - 1 ELSE 0

WaitersAfter_Unchecked(t) == loadWaiters - 1

(* What is left of the waiters when one that awaited t drops out.          *)
WaitersAfter(t) == IF Counted(t) THEN loadWaiters - 1 ELSE loadWaiters

WaiterTaskAfter(t) ==
  IF Counted(t) /\ loadWaiters = 1 THEN NoTask ELSE loadWaiterTask

(* The last waiter of a load that still runs abandons it.                  *)
Abandons_Shared(t) ==
  loadWaiterTask = t /\ loadingTask = t /\ load[t] \notin Done

Abandons(t) ==
  /\ Counted(t) /\ loadWaiters = 1
  /\ loadingTask = t
  /\ load[t] \notin Done

-----------------------------------------------------------------------------
(* ensure_loaded and acquire.  A client that has awaited another load      *)
(* comes here with the waiters (number and task) it has left behind.       *)

Acquired(c, e) ==
  /\ client' = [client EXCEPT ![c] = "holding"]
  /\ using' = [using EXCEPT ![c] = e]
  /\ activeRequests' = activeRequests + 1

NeedsLoad == ~(state = "loaded" /\ engine # NoTask)

UseLoaded(c) ==
  /\ ~NeedsLoad
  /\ Acquired(c, engine)
  /\ waitsFor' = [waitsFor EXCEPT ![c] = NoTask]
  /\ UNCHANGED <<state, abandonedLoadingTask, loadingTask, load>>

AwaitUnload(c) ==
  /\ NeedsLoad /\ unloading
  /\ client' = [client EXCEPT ![c] = "waitingUnload"]
  /\ waitsFor' = [waitsFor EXCEPT ![c] = NoTask]
  /\ UNCHANGED <<state, activeRequests, abandonedLoadingTask, loadingTask, load,
                 using>>

AwaitLoad(c, t) ==
  /\ client' = [client EXCEPT ![c] = "waitingLoad"]
  /\ waitsFor' = [waitsFor EXCEPT ![c] = t]
  /\ UNCHANGED <<activeRequests, using>>

JoinLoad(c) ==
  /\ NeedsLoad /\ ~unloading
  /\ loadingTask # NoTask
  /\ AwaitLoad(c, loadingTask)
  /\ UNCHANGED <<state, abandonedLoadingTask, loadingTask, load>>

StartLoad(c) ==
  /\ NeedsLoad /\ ~unloading
  /\ loadingTask = NoTask
  /\ Unused # {}
  /\ LET t == CHOOSE t \in Unused : TRUE
     IN  /\ AwaitLoad(c, t)
         /\ loadingTask' = t
         /\ load' = [load EXCEPT ![t] = "new"]
  /\ abandonedLoadingTask' = NoTask
  /\ state' = "loading"

EnsureLoaded(c, waiters, waiterTask) ==
  /\ \/ /\ UseLoaded(c) \/ AwaitUnload(c)
        /\ loadWaiters' = waiters /\ loadWaiterTask' = waiterTask
     \/ /\ JoinLoad(c)
        /\ loadWaiters' = waiters + 1 /\ loadWaiterTask' = loadingTask
     \/ /\ StartLoad(c)
        /\ loadWaiters' = 1 /\ loadWaiterTask' = loadingTask'
  /\ UNCHANGED <<engine, unloading, cancelled, shutdownVars>>

(* The server takes no requests once it is shutting down.                  *)
Request(c) ==
  /\ client[c] = "idle"
  /\ shutdown = "none"
  /\ EnsureLoaded(c, loadWaiters, loadWaiterTask)

(* The unloading a client awaited is over.                                 *)
ResumeUnloaded(c) ==
  /\ client[c] = "woken"
  /\ EnsureLoaded(c, loadWaiters, loadWaiterTask)

(* The load a client awaited is over.                                      *)
Resumes(c, stage) == client[c] = "waitingLoad" /\ load[waitsFor[c]] = stage

StartsOver(c) ==
  EnsureLoaded(c, WaitersAfter(waitsFor[c]), WaiterTaskAfter(waitsFor[c]))

DropsOut(c) ==
  /\ loadWaiters' = WaitersAfter(waitsFor[c])
  /\ loadWaiterTask' = WaiterTaskAfter(waitsFor[c])
  /\ waitsFor' = [waitsFor EXCEPT ![c] = NoTask]

(* acquire checks again that the engine it got is the resident one.        *)
Recheck_EngineOnly(t) == engine = t
Recheck(t) == engine = t /\ state = "loaded" /\ ~unloading

ResumeLoaded(c) ==
  /\ Resumes(c, "loaded")
  /\ \/ /\ Recheck(waitsFor[c])
        /\ Acquired(c, waitsFor[c])
        /\ DropsOut(c)
        /\ UNCHANGED <<state, engine, abandonedLoadingTask, loadingTask,
                       unloading, taskVars, shutdownVars>>
     \/ ~Recheck(waitsFor[c]) /\ StartsOver(c)

GivesUp(c, outcome) ==
  /\ client' = [client EXCEPT ![c] = outcome]
  /\ DropsOut(c)
  /\ UNCHANGED <<state, engine, activeRequests, abandonedLoadingTask,
                 loadingTask, unloading, taskVars, using, shutdownVars>>

ResumeFailed(c) == Resumes(c, "failed") /\ GivesUp(c, "failed")

(* A cancelled load is tried again if it is known to have been abandoned.  *)
ResumeCancelled(c) ==
  /\ Resumes(c, "cancelled")
  /\ IF abandonedLoadingTask = waitsFor[c] THEN StartsOver(c)
     ELSE GivesUp(c, "inherited")

(* The client is cancelled.  A load that was just created has had its      *)
(* first step by then: the ready queue is first in, first out.             *)
Leave(c) ==
  /\ \/ /\ client[c] = "waitingUnload"
        /\ client' = [client EXCEPT ![c] = "idle"]
        /\ UNCHANGED <<residentVars, taskVars, waitsFor>>
     \/ /\ client[c] = "waitingLoad"
        /\ load[waitsFor[c]] # "new"
        /\ loadWaiters' = WaitersAfter(waitsFor[c])
        /\ loadWaiterTask' = WaiterTaskAfter(waitsFor[c])
        /\ IF Abandons(waitsFor[c])
             THEN /\ abandonedLoadingTask' = waitsFor[c]
                  /\ cancelled' = cancelled \cup {waitsFor[c]}
                  /\ client' = [client EXCEPT ![c] = "abandoning"]
                  /\ UNCHANGED waitsFor
             ELSE /\ client' = [client EXCEPT ![c] = "idle"]
                  /\ waitsFor' = [waitsFor EXCEPT ![c] = NoTask]
                  /\ UNCHANGED <<abandonedLoadingTask, cancelled>>
        /\ UNCHANGED <<state, engine, activeRequests, loadingTask, unloading,
                       load>>
  /\ UNCHANGED <<using, shutdownVars>>

(* It waits until the load it abandoned has ended.                         *)
Abandoned(c) ==
  /\ client[c] = "abandoning"
  /\ load[waitsFor[c]] \in Done
  /\ client' = [client EXCEPT ![c] = "idle"]
  /\ waitsFor' = [waitsFor EXCEPT ![c] = NoTask]
  /\ UNCHANGED <<residentVars, taskVars, using, shutdownVars>>

Release(c) ==
  /\ client[c] = "holding"
  /\ activeRequests' = IF activeRequests > 0 THEN activeRequests - 1 ELSE 0
  /\ client' = [client EXCEPT ![c] = "idle"]
  /\ using' = [using EXCEPT ![c] = NoTask]
  /\ UNCHANGED <<state, engine, loadWaiters, loadWaiterTask,
                 abandonedLoadingTask, loadingTask, unloading, taskVars,
                 waitsFor, shutdownVars>>

(* The client has dealt with the exception.                                *)
Recover(c) ==
  /\ client[c] \in {"failed", "inherited"}
  /\ client' = [client EXCEPT ![c] = "idle"]
  /\ UNCHANGED <<residentVars, taskVars, waitsFor, using, shutdownVars>>

-----------------------------------------------------------------------------
(* _load_engine.                                                           *)

Enters(t, stage) ==
  /\ load' = [load EXCEPT ![t] = stage]
  /\ cancelled' = cancelled \ {t}

KeepResident ==
  UNCHANGED <<state, engine, abandonedLoadingTask, loadingTask>>

OnlyTheLoad ==
  UNCHANGED <<activeRequests, loadWaiters, loadWaiterTask, unloading,
              clientVars, shutdownVars>>

(* The end of _cleanup_cancelled_load.                                     *)
Unwind_KeepsTask(t) ==
  /\ Enters(t, "cancelled")
  /\ state' = "unloaded" /\ engine' = NoTask
  /\ UNCHANGED <<loadingTask, abandonedLoadingTask>>

Unwind(t) ==
  /\ Enters(t, "cancelled")
  /\ state' = "unloaded" /\ engine' = NoTask
  /\ loadingTask' = NoTask
  /\ UNCHANGED abandonedLoadingTask

(* _cleanup_cancelled_load, which stops the engine if there is one.        *)
CleanupCancelledLoad_ResetFirst(t) ==
  IF StopAwaits /\ load[t] \in WithEngine
    THEN /\ Enters(t, "stopping")
         /\ state' = "unloaded" /\ engine' = NoTask
         /\ loadingTask' = NoTask
         /\ UNCHANGED abandonedLoadingTask
    ELSE Unwind(t)

CleanupCancelledLoad(t) ==
  IF StopAwaits /\ load[t] \in WithEngine
    THEN Enters(t, "stopping") /\ KeepResident
    ELSE Unwind(t)

Fail(t) ==
  /\ Enters(t, "failed")
  /\ state' = "failed"
  /\ loadingTask' = NoTask /\ abandonedLoadingTask' = NoTask
  /\ UNCHANGED engine

(* The first step of the task; cancelled before it, its body never runs.   *)
LoadBegins(t) ==
  /\ load[t] = "new"
  /\ Enters(t, IF t \in cancelled THEN "cancelled" ELSE "creating")
  /\ KeepResident
  /\ OnlyTheLoad

EngineCreated(t) ==
  /\ load[t] = "creating" /\ t \notin cancelled
  /\ Enters(t, "preparing")
  /\ KeepResident
  /\ OnlyTheLoad

(* prepare_for_start runs in a thread and is never interrupted: a          *)
(* cancellation takes effect when it has ended, even if it raised.         *)
Prepared(t) ==
  /\ load[t] = "preparing"
  /\ IF t \in cancelled THEN CleanupCancelledLoad(t)
     ELSE Enters(t, "starting") /\ KeepResident
  /\ OnlyTheLoad

(* engine.start() and the loaded hook have returned.                       *)
EngineLoaded(t) ==
  /\ load[t] = "starting" /\ t \notin cancelled
  /\ Enters(t, "loaded")
  /\ state' = "loaded" /\ engine' = t
  /\ loadingTask' = NoTask /\ abandonedLoadingTask' = NoTask
  /\ OnlyTheLoad

(* CancelledError is raised at an await of the load.                       *)
LoadCancelled(t) ==
  /\ t \in cancelled
  /\ load[t] \in {"creating", "starting"}
  /\ CleanupCancelledLoad(t)
  /\ OnlyTheLoad

(* An exception, which may be what the factory or the engine made of a     *)
(* cancellation; that of an abandoned load counts as a cancellation.       *)
LoadRaises(t) ==
  /\ \/ load[t] \in {"creating", "starting"}
     \/ load[t] = "preparing" /\ t \notin cancelled
  /\ IF abandonedLoadingTask = t THEN CleanupCancelledLoad(t)
     ELSE IF StopAwaits /\ load[t] \in WithEngine
            THEN Enters(t, "failing") /\ KeepResident
            ELSE Fail(t)
  /\ OnlyTheLoad

(* engine.stop() has returned, or raised an exception, which is suppressed.*)
StopDone(t) ==
  /\ \/ load[t] = "stopping" /\ Unwind(t)
     \/ load[t] = "failing" /\ Fail(t)
  /\ OnlyTheLoad

(* CancelledError is raised at an await of engine.stop(): it is not an     *)
(* Exception, and what follows the call is skipped.  (An engine may also   *)
(* swallow the cancellation: that is StopDone.)                            *)
StopInterrupted(t) ==
  /\ load[t] \in {"stopping", "failing"}
  /\ t \in cancelled
  /\ Enters(t, "cancelled")
  /\ KeepResident
  /\ OnlyTheLoad

LoadStep(t) ==
  \/ LoadBegins(t) \/ EngineCreated(t) \/ Prepared(t) \/ EngineLoaded(t)
  \/ LoadCancelled(t) \/ LoadRaises(t) \/ StopDone(t) \/ StopInterrupted(t)

-----------------------------------------------------------------------------
(* unload_if_idle and _unload_engine.                                      *)

BeginUnload == state' = "unloading" /\ unloading' = TRUE

(* The idle loop of the server, which ends before shutdown() begins.       *)
UnloadIfIdle ==
  /\ shutdown = "none"
  /\ loadingTask = NoTask /\ ~unloading
  /\ state = "loaded" /\ engine # NoTask
  /\ activeRequests = 0
  /\ BeginUnload
  /\ UNCHANGED <<engine, activeRequests, loadWaiters, loadWaiterTask,
                 abandonedLoadingTask, loadingTask, taskVars, clientVars,
                 shutdownVars>>

(* The unloading hook and engine.stop() have returned, or one has raised   *)
(* and the engine stays; whoever awaits the unloading wakes up.            *)
UnloadEnds ==
  /\ unloading
  /\ unloading' = FALSE
  /\ \E stopped \in BOOLEAN :
       /\ state' = IF stopped THEN "unloaded" ELSE "loaded"
       /\ engine' = IF stopped THEN NoTask ELSE engine
       /\ shutdown' = IF shutdown # "waitingUnload" THEN shutdown
                      ELSE IF stopped THEN "done" ELSE "raised"
  /\ client' = [c \in Clients |-> IF client[c] = "waitingUnload"
                                  THEN "woken" ELSE client[c]]
  /\ UNCHANGED <<activeRequests, loadWaiters, loadWaiterTask,
                 abandonedLoadingTask, loadingTask, taskVars, waitsFor, using,
                 shutdownFor>>

-----------------------------------------------------------------------------
(* shutdown.                                                               *)

ShutdownChecks ==
  /\ Shutdowns
  /\ shutdown \in {"none", "checking"}
  /\ \/ /\ loadingTask # NoTask
        /\ cancelled' = IF load[loadingTask] \in Done THEN cancelled
                        ELSE cancelled \cup {loadingTask}
        /\ shutdown' = "waitingLoad" /\ shutdownFor' = loadingTask
        /\ UNCHANGED <<state, unloading>>
     \/ /\ loadingTask = NoTask
        /\ engine = NoTask \/ state = "unloaded"
        /\ shutdown' = "done"
        /\ UNCHANGED <<state, unloading, cancelled, shutdownFor>>
     \/ /\ loadingTask = NoTask
        /\ engine # NoTask /\ state # "unloaded"
        /\ BeginUnload
        /\ shutdown' = "waitingUnload"
        /\ UNCHANGED <<cancelled, shutdownFor>>
  /\ UNCHANGED <<engine, activeRequests, loadWaiters, loadWaiterTask,
                 abandonedLoadingTask, loadingTask, load, clientVars>>

(* The load that was cancelled has ended; its exception goes through.      *)
ShutdownResumes ==
  /\ shutdown = "waitingLoad"
  /\ load[shutdownFor] \in Done
  /\ shutdown' = IF load[shutdownFor] = "failed" THEN "raised" ELSE "checking"
  /\ shutdownFor' = NoTask
  /\ UNCHANGED <<residentVars, taskVars, clientVars>>

-----------------------------------------------------------------------------
ClientResumes(c) ==
  \/ ResumeUnloaded(c)
  \/ ResumeLoaded(c) \/ ResumeFailed(c) \/ ResumeCancelled(c)
  \/ Abandoned(c)

Next ==
  \/ \E c \in Clients :
       Request(c) \/ ClientResumes(c) \/ Leave(c) \/ Release(c) \/ Recover(c)
  \/ \E t \in Tasks : LoadStep(t)
  \/ UnloadIfIdle \/ UnloadEnds
  \/ ShutdownChecks \/ ShutdownResumes

(* A load and an unload end, and a coroutine that can go on does.  A       *)
(* client that has waited for the model is next in the ready queue: the    *)
(* idle time has not passed yet, and a load that somebody else started and *)
(* abandoned meanwhile does not come before it again and again.            *)
GetsEngine(c) ==
  /\ ClientResumes(c)
  /\ client'[c] = "holding"

GetsLoad(c) ==
  /\ ClientResumes(c)
  /\ client'[c] = "waitingLoad"
  /\ loadingTask' \notin cancelled' /\ load'[loadingTask'] # "stopping"

Fairness ==
  /\ \A t \in Tasks : WF_vars(LoadStep(t))
  /\ WF_vars(UnloadEnds)
  /\ \A c \in Clients : /\ WF_vars(ClientResumes(c))
                         /\ SF_vars(GetsEngine(c))
                         /\ SF_vars(GetsLoad(c))

Safety == Init /\ [][Next]_vars
Spec   == Safety /\ Fairness

-----------------------------------------------------------------------------
(* Properties.                                                             *)

ResidencyTypeOK ==
  /\ state \in States
  /\ {engine, loadWaiterTask, abandonedLoadingTask, loadingTask, shutdownFor}
       \subseteq Tasks \cup {NoTask}
  /\ activeRequests \in Nat /\ loadWaiters \in Nat
  /\ unloading \in BOOLEAN
  /\ load \in [Tasks -> Stages] /\ cancelled \subseteq Tasks
  /\ client \in [Clients -> ClientStates]
  /\ waitsFor \in [Clients -> Tasks \cup {NoTask}]
  /\ using \in [Clients -> Tasks \cup {NoTask}]
  /\ shutdown \in {"none", "checking", "waitingLoad", "waitingUnload", "done",
                   "raised"}

(* There is one engine at most, half-loaded and half-stopped ones          *)
(* included: a new load never starts while the last engine is being        *)
(* stopped, whatever was cancelled.                                        *)
Engines ==
  {t \in Tasks : load[t] \in WithEngine} \cup ({engine} \ {NoTask})
SingleEngine == \A t, u \in Engines : t = u

(* A request holds the engine that is resident and loaded, and is counted: *)
(* the idle loop never unloads a model under a request.  (Shutdown does.)  *)
Holders == {c \in Clients : client[c] = "holding"}
EngineInUse ==
  /\ activeRequests = Cardinality(Holders)
  /\ shutdown = "none" =>
       \A c \in Holders : using[c] = engine /\ state = "loaded"

(* The count of waiters is that of the clients which await the load it is  *)
(* about, however late the waiters of earlier loads drop out.              *)
Waiters(t) == {c \in Clients : client[c] = "waitingLoad" /\ waitsFor[c] = t}
WaitersCounted ==
  IF loadWaiterTask = NoTask THEN loadWaiters = 0
  ELSE loadWaiters = Cardinality(Waiters(loadWaiterTask))

(* Unless the manager shuts down, a load is cancelled only at a moment     *)
(* when nobody waits for it.                                               *)
CancelledAlone ==
  [][\A t \in cancelled' \ cancelled :
       shutdown' = "none" => Waiters(t)' = {}]_vars

(* The published state agrees with the tasks and the engine: acquire never *)
(* finds a loaded model without an engine, or an engine being unloaded     *)
(* that looks loaded, on which it would turn in circles without awaiting.  *)
ResidentConsistent ==
  /\ state = "loading" <=> loadingTask # NoTask
  /\ state = "unloading" <=> unloading
  /\ engine # NoTask <=> state \in {"loaded", "unloading"}

(* The load that is registered as under way is: however it ends, the       *)
(* registration is withdrawn, so that the next request can load again.     *)
LoadUnwinds == loadingTask # NoTask => load[loadingTask] \notin Done

(* Whoever waits for the model gets it, or an exception, or leaves.        *)
RequestAnswered ==
  \A c \in Clients :
    client[c] \in {"woken", "waitingLoad", "waitingUnload"} ~>
      client[c] \in {"holding", "failed", "inherited", "idle", "abandoning"}
=============================================================================
