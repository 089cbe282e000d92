---------------------------- MODULE ModelManager ----------------------------
(* The multi-model server's ModelManager (model_registry.py): lazy loads,   *)
(* idle unloading, eviction and preemption under a memory budget.           *)
(*                                                                          *)
(* Everything runs on one event loop and no lock is held across an await,   *)
(* so one action is what a task does between two awaits.  A client is one   *)
(* request, as the server's handlers make it: acquire() runs in a helper    *)
(* task (_wait_with_disconnect) that is over when the lease is used, so     *)
(* that preempting a model cancels nobody.  Each client loads a model at    *)
(* most once, so loads, their futures and their engines are named after it. *)
EXTENDS Integers, Sequences, FiniteSets, SequencesExt, FiniteSetsExt, Collections

CONSTANTS
  MaxClients,   \* bound: requests, numbered in the order they arrive
  Models,       \* the names of the registry
  Size,         \* estimated_memory_bytes of each model, the same before and after the load
  Budget,       \* memory_budget_bytes
  Scenarios,    \* contention policies, and the models the requests may ask for then
  Faults        \* what may happen: "load", "stop", "cancel", "shutdown"

Strategies == {"fail", "wait", "preempt", "wait_then_fail", "wait_then_preempt"}
Policies   == [strategy : Strategies, timeout : BOOLEAN]

ASSUME ModelManagerAssumptions ==
  /\ MaxClients \in Nat /\ Budget \in Nat /\ IsFiniteSet(Models)
  /\ Size \in [Models -> 1..Budget]
  /\ Scenarios \subseteq Policies \X [1..MaxClients -> Models]
  /\ Faults \subseteq {"load", "stop", "cancel", "shutdown"}

VARIABLES
  policy,      \* contention_policy; timeout: is wait_timeout_s positive?
  client,      \* client[c]: where request c is
  model,       \* model[c]: the model it asks for
  uses,        \* uses[c]: the load it awaits, or whose engine it holds
  loaded,      \* _loaded: from models to engines
  loading,     \* _loading: from models to loads
  unloading,   \* _unloading: from models to engines
  future,      \* future[l]: the future of load l
  active,      \* active_requests of each LoadedModel
  preempting,  \* the LoadedModels marked as preempting
  used,        \* the engines by last_used_at, the oldest first
  alive,       \* engines that take memory, half-started and half-stopped ones too
  stops,       \* stops[t]: what the unload task that t awaits has still to stop
  shutdown,    \* how far shutdown() is
  relisted     \* history: has a sharer registered again an engine that was unloaded?

tables == <<loaded, loading, unloading>>
engines == <<active, preempting, used, alive>>
vars == <<policy, client, model, uses, tables, future, engines, stops, shutdown, relisted>>

Clients == 1..MaxClients
NoLoad  == 0
Reaper  == 0
Stopper == MaxClients + 1
Tasks   == 0..Stopper
Empty   == [m \in {} |-> NoLoad]
Bind(f, x, y) == [z \in DOMAIN f \cup {x} |-> IF z = x THEN y ELSE f[z]]
Drop(f, xs)   == [z \in DOMAIN f \ xs |-> f[z]]
ModelsOf(es)  == {model[es[i]] : i \in DOMAIN es}

Init ==
  /\ \E s \in Scenarios : policy = s[1] /\ model = s[2]
  /\ client = [c \in Clients |-> "new"]
  /\ uses = [c \in Clients |-> NoLoad]
  /\ loaded = Empty /\ loading = Empty /\ unloading = Empty
  /\ future = [c \in Clients |-> "none"]
  /\ active = [c \in Clients |-> 0] /\ preempting = {} /\ used = <<>> /\ alive = {}
  /\ stops = [t \in Tasks |-> <<>>] /\ shutdown = "no" /\ relisted = FALSE

\* notify_all(), given the clients as they are then
Notified(f) == [c \in Clients |-> IF f[c] = "waiting" THEN "ready" ELSE f[c]]
\* the future of l is done, whatever with
SharersWoken(f, l) ==
  [c \in Clients |-> IF f[c] = "sharing" /\ uses[c] = l THEN "woken" ELSE f[c]]
Resolve(l, outcome) ==
  future' = [future EXCEPT ![l] = IF @ = "pending" THEN outcome ELSE @]

----------------------------------------------------------------------------
(* The budget.                                                              *)

Bytes(ms) == Total(ms, Size)
Committed == Bytes(DOMAIN loaded) + Bytes(DOMAIN loading) + Bytes(DOMAIN unloading)
Fits_IgnoresUnloading(m) == Bytes(DOMAIN loaded) + Bytes(DOMAIN loading) + Size[m] <= Budget
Fits(m)   == Committed + Size[m] <= Budget

Candidates_Busy(ms, busy) ==
  Within(used, {loaded[n] : n \in DOMAIN loaded \cap ms})
\* the loaded engines of these models, the least recently used first
Candidates(ms, busy) ==
  Within(used, {e \in {loaded[n] : n \in DOMAIN loaded \cap ms} : busy <=> active[e] > 0})
Others(m) == Models \ {m}

\* the shortest prefix of es that makes room for m, or all of es
MakingRoom(es, m) ==
  LET enough == {n \in 0..Len(es) :
                   Committed - Bytes(ModelsOf(SubSeq(es, 1, n))) + Size[m] <= Budget}
  IN SubSeq(es, 1, IF enough = {} THEN Len(es) ELSE Min(enough))

BeginUnload_Forgotten(t, es) ==
  /\ loaded' = Drop(loaded, ModelsOf(es)) /\ unloading' = unloading
  /\ stops' = [stops EXCEPT ![t] = es]
\* _begin_unload_locked() of each of es, for a task that will stop them
BeginUnload(t, es) ==
  /\ loaded' = Drop(loaded, ModelsOf(es))
  /\ unloading' = [m \in DOMAIN unloading \cup ModelsOf(es) |->
                     IF m \in ModelsOf(es) THEN loaded[m] ELSE unloading[m]]
  /\ stops' = [stops EXCEPT ![t] = es]

----------------------------------------------------------------------------
(* acquire(): what one turn of its loop does under the lock.                *)

Start(c) ==
  /\ client[c] = "new" /\ \A d \in 1..(c - 1) : client[d] # "new"
  /\ client' = [client EXCEPT ![c] = "ready"]
  /\ UNCHANGED <<policy, relisted, model, uses, tables, future, engines, stops, shutdown>>

Touch(e) == used' = Append(Without(used, {e}), e)

\* _claim_loaded_locked(), for an engine that is not preempting
Claim(c, e, f) ==
  /\ client' = [f EXCEPT ![c] = "holding"] /\ uses' = [uses EXCEPT ![c] = e]
  /\ active' = [active EXCEPT ![e] = @ + 1] /\ Touch(e)

Open(c)      == client[c] = "ready" /\ shutdown = "no"
Claimable(m) == m \in DOMAIN loaded /\ loaded[m] \notin preempting
NeedsRoom(c) == Open(c) /\ ~Claimable(model[c])
                  /\ model[c] \notin DOMAIN loading \cup DOMAIN unloading
Evictions(c) == MakingRoom(Candidates(Others(model[c]), FALSE), model[c])

AcquireRefused(c) ==
  /\ client[c] = "ready" /\ shutdown # "no"
  /\ client' = [client EXCEPT ![c] = "failed"]
  /\ UNCHANGED <<policy, relisted, model, uses, tables, future, engines, stops, shutdown>>

AcquireLoaded(c) ==
  /\ Open(c) /\ Claimable(model[c]) /\ Claim(c, loaded[model[c]], client)
  /\ UNCHANGED <<policy, relisted, model, tables, future, preempting, alive, stops, shutdown>>

\* a future that another sharer has cancelled passes its cancellation on at once
AcquireShared(c) ==
  LET m == model[c] IN
  /\ Open(c) /\ ~Claimable(m) /\ m \in DOMAIN loading
  /\ client' = [client EXCEPT ![c] =
       IF future[loading[m]] = "pending" THEN "sharing" ELSE "inherited"]
  /\ uses' = [uses EXCEPT ![c] = loading[m]]
  /\ UNCHANGED <<policy, relisted, model, tables, future, engines, stops, shutdown>>

AcquireAfterUnload(c) ==
  LET m == model[c] IN
  /\ Open(c) /\ ~Claimable(m) /\ m \notin DOMAIN loading /\ m \in DOMAIN unloading
  /\ client' = [client EXCEPT ![c] = "waiting"]
  /\ UNCHANGED <<policy, relisted, model, uses, tables, future, engines, stops, shutdown>>

\* idle models are evicted, even where that does not make room enough
AcquireEvicts(c) ==
  /\ NeedsRoom(c) /\ Evictions(c) # <<>> /\ BeginUnload(c, Evictions(c))
  /\ client' = [client EXCEPT ![c] = "unloading"]
  /\ UNCHANGED <<policy, relisted, model, uses, loading, future, engines, shutdown>>

\* _reserve_load_locked(), and _execute_load() up to its first await
AcquireReserves(c) ==
  /\ NeedsRoom(c) /\ Evictions(c) = <<>> /\ Fits(model[c])
  /\ loading' = Bind(loading, model[c], c)
  /\ future' = [future EXCEPT ![c] = "pending"]
  /\ client' = [client EXCEPT ![c] = "loading"]
  /\ alive' = alive \cup {c}
  /\ UNCHANGED <<policy, relisted, model, uses, loaded, unloading, active, preempting,
                 used, stops, shutdown>>

Blocked(c) == NeedsRoom(c) /\ Evictions(c) = <<>> /\ ~Fits(model[c])

AcquireFails(c) ==
  /\ Blocked(c) /\ policy.strategy = "fail"
  /\ client' = [client EXCEPT ![c] = "failed"]
  /\ UNCHANGED <<policy, relisted, model, uses, tables, future, engines, stops, shutdown>>

\* the busy engines that would make room are to be unloaded on their last release;
\* elapsed time is left open: any turn may find preempt_after_s over, or not
AcquirePreempts(c) ==
  LET es == ToSet(MakingRoom(Candidates(Others(model[c]), TRUE), model[c])) IN
  /\ Blocked(c) /\ policy.strategy \in {"preempt", "wait_then_preempt"}
  /\ preempting' = preempting \cup es
  /\ client' = [(IF es \subseteq preempting THEN client ELSE Notified(client))
                  EXCEPT ![c] = "waiting"]
  /\ UNCHANGED <<policy, relisted, model, uses, tables, future, active, used, alive, stops,
                 shutdown>>

AcquireWaits(c) ==
  /\ Blocked(c) /\ policy.strategy \notin {"fail", "preempt"}
  /\ client' = [client EXCEPT ![c] = "waiting"]
  /\ UNCHANGED <<policy, relisted, model, uses, tables, future, engines, stops, shutdown>>

\* _wait_for_change() times out
Timeout(c) ==
  /\ client[c] = "waiting" /\ policy.timeout
  /\ client' = [client EXCEPT ![c] = "failed"]
  /\ UNCHANGED <<policy, relisted, model, uses, tables, future, engines, stops, shutdown>>

Acquire(c) ==
  \/ AcquireRefused(c) \/ AcquireLoaded(c) \/ AcquireShared(c) \/ AcquireAfterUnload(c)
  \/ AcquireEvicts(c) \/ AcquireReserves(c) \/ AcquireFails(c) \/ AcquirePreempts(c)
  \/ AcquireWaits(c)

----------------------------------------------------------------------------
(* _execute_load() and those who share the load.                            *)

\* published, and claimed by its loader before anybody else can run; a model that
\* was loaded before, and was preempting, is overwritten
LoadEnds(c) ==
  LET m == model[c] IN
  /\ client[c] = "loading" /\ shutdown = "no"
  /\ loading' = Drop(loading, {m}) /\ loaded' = Bind(loaded, m, c)
  /\ Resolve(c, "done")
  /\ Claim(c, c, Notified(SharersWoken(client, c)))
  /\ UNCHANGED <<policy, relisted, model, unloading, preempting, alive, stops, shutdown>>

LoadEndsTooLate_Unresolved(c) ==
  /\ client[c] = "loading" /\ shutdown # "no"
  /\ loading' = Drop(loading, {model[c]}) /\ UNCHANGED future
  /\ client' = Notified([SharersWoken(client, c) EXCEPT ![c] = "aborting"])
  /\ UNCHANGED <<policy, relisted, model, uses, loaded, unloading, engines, stops, shutdown>>

LoadEndsTooLate(c) ==
  /\ client[c] = "loading" /\ shutdown # "no"
  /\ loading' = Drop(loading, {model[c]}) /\ Resolve(c, "error")
  /\ client' = Notified([SharersWoken(client, c) EXCEPT ![c] = "aborting"])
  /\ UNCHANGED <<policy, relisted, model, uses, loaded, unloading, engines, stops, shutdown>>

\* its engine is stopped, or stop() raises
LoadAborted(c) ==
  /\ client[c] = "aborting" /\ client' = [client EXCEPT ![c] = "failed"]
  /\ alive' = alive \ {c}
  /\ UNCHANGED <<policy, relisted, model, uses, tables, future, active, preempting, used,
                 stops, shutdown>>

LoadFails(c) ==
  /\ client[c] = "loading" /\ "load" \in Faults
  /\ loading' = Drop(loading, {model[c]}) /\ Resolve(c, "error")
  /\ client' = Notified([SharersWoken(client, c) EXCEPT ![c] = "failed"])
  /\ alive' = alive \ {c}
  /\ UNCHANGED <<policy, relisted, model, uses, loaded, unloading, active, preempting,
                 used, stops, shutdown>>

\* a sharer claims the engine its future gave it, and registers it again if need be
ResumeLoaded(c) ==
  LET e == uses[c]  m == model[c] IN
  /\ client[c] = "woken" /\ future[e] = "done"
  /\ loaded' = IF m \in DOMAIN loaded THEN loaded ELSE Bind(loaded, m, e)
  /\ relisted' = (relisted \/ m \notin DOMAIN loaded)
  /\ \/ e \notin preempting /\ Claim(c, e, client)
     \/ /\ e \in preempting /\ client' = [client EXCEPT ![c] = "ready"]
        /\ uses' = [uses EXCEPT ![c] = NoLoad] /\ UNCHANGED <<active, used>>
  /\ UNCHANGED <<policy, model, loading, unloading, future, preempting, alive, stops,
                 shutdown>>

ResumeFailed(c) ==
  /\ client[c] = "woken" /\ future[uses[c]] # "done"
  /\ client' = [client EXCEPT ![c] =
       IF future[uses[c]] = "error" THEN "failed" ELSE "inherited"]
  /\ UNCHANGED <<policy, relisted, model, uses, tables, future, engines, stops, shutdown>>

----------------------------------------------------------------------------
(* release(), _run_unloads() and unload_idle().                             *)

\* the loop is first come, first served: whoever was woken with an engine has
\* claimed it before a request that uses the engine can end
Ending(c) == client[c] = "holding"
               /\ \A d \in Clients : client[d] = "woken" => uses[d] # uses[c]

Decremented(n) == IF n > 0 THEN n - 1 ELSE 0

\* by name: what is decremented is the model that is loaded now
Release(c) ==
  LET m == model[c]  e == loaded[m]
      n == Decremented(active[e])
      last == e \in preempting /\ n = 0 IN
  /\ Ending(c) /\ m \in DOMAIN loaded
  /\ active' = [active EXCEPT ![e] = n] /\ Touch(e)
  /\ \/ last /\ BeginUnload(c, <<e>>)
     \/ ~last /\ UNCHANGED <<loaded, unloading, stops>>
  /\ client' = Notified([client EXCEPT ![c] = IF last THEN "releasing" ELSE "done"])
  /\ uses' = [uses EXCEPT ![c] = NoLoad]
  /\ UNCHANGED <<policy, relisted, model, loading, future, preempting, alive, shutdown>>

ReleaseUnknown(c) ==
  /\ Ending(c) /\ model[c] \notin DOMAIN loaded
  /\ client' = [client EXCEPT ![c] = "done"] /\ uses' = [uses EXCEPT ![c] = NoLoad]
  /\ UNCHANGED <<policy, relisted, model, tables, future, engines, stops, shutdown>>

\* what becomes of a client when its unload task is over
AfterUnload(f, t, inAcquire) ==
  [c \in Clients |-> IF c # t THEN f[c]
                     ELSE IF f[c] = "unloading" THEN inAcquire
                     ELSE IF f[c] = "dying" THEN "cancelled" ELSE "done"]

StopEnds_Silent(t) ==
  LET e == Head(stops[t])  rest == Tail(stops[t]) IN
  /\ stops[t] # <<>>
  /\ unloading' = Drop(unloading, {model[e]}) /\ alive' = alive \ {e}
  /\ stops' = [stops EXCEPT ![t] = rest]
  /\ client' = IF rest = <<>> THEN AfterUnload(client, t, "ready")
               ELSE client
  /\ UNCHANGED <<policy, relisted, model, uses, loaded, loading, future, active, preempting,
                 used, shutdown>>

StopEnds(t) ==
  LET e == Head(stops[t])  rest == Tail(stops[t]) IN
  /\ stops[t] # <<>>
  /\ unloading' = Drop(unloading, {model[e]}) /\ alive' = alive \ {e}
  /\ stops' = [stops EXCEPT ![t] = rest]
  /\ client' = IF rest = <<>> THEN AfterUnload(Notified(client), t, "ready")
               ELSE Notified(client)
  /\ UNCHANGED <<policy, relisted, model, uses, loaded, loading, future, active, preempting,
                 used, shutdown>>

\* engine.stop() raises: the engine is dropped, the others of the task are never
\* stopped and stay in _unloading
StopRaises(t) ==
  LET e == Head(stops[t]) IN
  /\ "stop" \in Faults /\ stops[t] # <<>>
  /\ unloading' = Drop(unloading, {model[e]}) /\ alive' = alive \ {e}
  /\ stops' = [stops EXCEPT ![t] = <<>>]
  /\ client' = AfterUnload(Notified(client), t, "failed")
  /\ shutdown' = IF t = Stopper THEN "failed" ELSE shutdown
  /\ UNCHANGED <<policy, relisted, model, uses, loaded, loading, future, active, preempting,
                 used>>

\* the reaper: any time since the last use may have been too long
UnloadIdle ==
  /\ shutdown = "no" /\ stops[Reaper] = <<>>
  /\ \E n \in 1..Len(Candidates(Models, FALSE)) :
       BeginUnload(Reaper, SubSeq(Candidates(Models, FALSE), 1, n))
  /\ client' = Notified(client)
  /\ UNCHANGED <<policy, relisted, model, uses, loading, future, engines, shutdown>>

----------------------------------------------------------------------------
(* Cancellation of a helper task, and shutdown().                           *)

\* awaiting a bare future hands the cancellation on to it and so to all sharers;
\* a cancelled load is no Exception: its reservation and its future stay
Cancel(c) ==
  /\ "cancel" \in Faults
  /\ \/ /\ client[c] \in {"ready", "waiting", "woken"}
        /\ client' = [client EXCEPT ![c] = "cancelled"]
        /\ UNCHANGED <<future, alive>>
     \/ /\ client[c] = "sharing" /\ Resolve(uses[c], "cancelled")
        /\ client' = SharersWoken([client EXCEPT ![c] = "cancelled"], uses[c])
        /\ UNCHANGED alive
     \/ /\ client[c] \in {"loading", "aborting"}
        /\ client' = [client EXCEPT ![c] = "cancelled"]
        /\ alive' \in {alive, alive \ {c}} /\ UNCHANGED future
     \/ /\ client[c] = "unloading" /\ client' = [client EXCEPT ![c] = "dying"]
        /\ UNCHANGED <<future, alive>>
  /\ UNCHANGED <<policy, relisted, model, uses, tables, active, preempting, used, stops,
                 shutdown>>

\* the lifespan has awaited the reaper before
ShutdownBegins ==
  /\ "shutdown" \in Faults /\ shutdown = "no" /\ stops[Reaper] = <<>>
  /\ shutdown' = "stopping"
  /\ preempting' = preempting \cup {loaded[m] : m \in DOMAIN loaded}
  /\ BeginUnload(Stopper, Candidates(Models, FALSE))
  /\ client' = Notified(client)
  /\ UNCHANGED <<policy, relisted, model, uses, loading, future, active, used, alive>>

\* the loads that were under way are over: unload what has become idle since
ShutdownResumes ==
  /\ shutdown = "stopping" /\ stops[Stopper] = <<>>
  /\ \A l \in Clients : future[l] # "pending"
  /\ shutdown' = "finishing"
  /\ BeginUnload(Stopper, Candidates(Models, FALSE))
  /\ client' = Notified(client)
  /\ UNCHANGED <<policy, relisted, model, uses, loading, future, engines>>

ShutdownEnds ==
  /\ shutdown = "finishing" /\ stops[Stopper] = <<>> /\ shutdown' = "done"
  /\ UNCHANGED <<policy, relisted, client, model, uses, tables, future, engines, stops>>

----------------------------------------------------------------------------
ClientStep(c) ==
  \/ Acquire(c) \/ LoadEnds(c) \/ LoadEndsTooLate(c) \/ LoadAborted(c)
  \/ ResumeLoaded(c) \/ ResumeFailed(c) \/ Release(c) \/ ReleaseUnknown(c)
ShutdownStep == ShutdownResumes \/ ShutdownEnds
Environment ==
  \/ \E c \in Clients : Start(c) \/ LoadFails(c) \/ Cancel(c) \/ Timeout(c)
  \/ \E t \in Tasks : StopRaises(t)
  \/ UnloadIdle \/ ShutdownBegins

Progress == \/ \E c \in Clients : ClientStep(c)
            \/ \E t \in Tasks : StopEnds(t)
            \/ ShutdownStep
Next == Progress \/ Environment

\* the event loop runs on while tasks can run, loads, stops or requests end; nobody
\* has to ask, to be cancelled or to time out, and nothing has to fail
Spec == Init /\ [][Next]_vars /\ WF_vars(Progress)

----------------------------------------------------------------------------
(* Properties.                                                              *)

Preemptive == policy.strategy \in {"preempt", "wait_then_preempt"}
Holders(e) == {c \in Clients : client[c] = "holding" /\ uses[c] = e}
Unended    == {"ready", "waiting", "unloading", "loading", "sharing", "woken", "aborting"}

\* Whatever fails, is cancelled or preempted: what the manager counts as loaded,
\* being loaded or being unloaded never exceeds the budget, unless a sharer has
\* registered again an engine that was unloaded before the sharer could run.  That
\* takes preemption: release() by name may end a lease of the engine that succeeded
\* the preempted one.
CommittedBounded ==
  /\ relisted \/ Committed <= Budget
  /\ relisted => Preemptive

\* "the memory budget is enforced" (docs/guides/model-registry.md:308): the engines
\* that exist, started, stopped or forgotten half-way included, fit into the budget.
\* A model under preemption may be loaded a second time, over its first engine, so
\* this is claimed of the policies without preemption.
EnginesFitUnlessPreempted ==
  ~Preemptive => Total(alive, [e \in Clients |-> Size[model[e]]]) <= Budget

\* Without preemption a lease is of the one engine that is loaded for the model,
\* which is not being stopped, and active_requests counts the leases exactly.
LeasesHonoured ==
  ~Preemptive =>
    /\ \A c \in Clients : client[c] = "holding" =>
         /\ uses[c] \in alive /\ model[c] \in DOMAIN loaded
         /\ loaded[model[c]] = uses[c] /\ model[c] \notin DOMAIN unloading
    /\ \A m \in DOMAIN loaded : active[loaded[m]] = Cardinality(Holders(loaded[m]))

\* What a cancelled load or a failed stop leaves in the tables for good.
LeftBehind ==
  \/ \E m \in DOMAIN loading : client[loading[m]] # "loading"
  \/ \E m \in DOMAIN unloading : \A t \in Tasks : unloading[m] \notin ToSet(stops[t])

\* Whoever asks for a model that fits gets it, or an error, though nothing limits
\* the time it waits: time and again nobody waits, unless a cancelled load or a
\* failed stop was left behind.
AcquireEnds == []<>(LeftBehind \/ \A c \in Clients : client[c] \notin Unended)

\* shutdown() returns, unless a cancelled load or a failed stop was left behind.
ShutdownReturns ==
  shutdown = "stopping" ~> shutdown \in {"done", "failed"} \/ LeftBehind
=============================================================================
