---------------------------- MODULE EngineProofs ----------------------------
(***************************************************************************)
(* Proofs about EngineCore, for any number of clients, every stream        *)
(* interval and all faults.  The scheduler's invariants hold though the    *)
(* engine drives it outside the contract its methods state; what clients   *)
(* are told is what happened to their requests; and the engine implements  *)
(* CompletionService.                                                      *)
(***************************************************************************)
EXTENDS EngineCore, SchedulerProofs

(* Whatever the engine does, the scheduler does one of its own steps, or   *)
(* none.                                                                   *)
LEMMA ForgetIsRemove ==
  ASSUME NEW r \in Requests, requests' = requests \ {r},
         UNCHANGED <<waiting, running, uidVars, pendingAborts, requestVars,
                     generatorVars, phase, stepVars, aborted, missed, spoiled,
                     faults>>
  PROVE  [AnyStep]_schedulerVars
<1>1. CASE r \in requests
  BY <1>1 DEF AnyStep, RemoveFinishedRequest
<1>2. CASE r \notin requests
  <2>1. requests' = requests
    BY <1>2
  <2> QED
    BY <2>1 DEF schedulerVars, uidVars, requestVars, generatorVars, stepVars
<1> QED
  BY <1>1, <1>2

LEMMA EngineStepsScheduler ==
  ASSUME [EngineNext]_coreVars
  PROVE  [AnyStep]_schedulerVars
<1>1. ASSUME NEW r \in Requests, Submit(r) PROVE [AnyStep]_schedulerVars
  BY <1>1 DEF Submit, AnyStep
<1>2. ASSUME NEW r \in Requests, StreamTake(r) PROVE [AnyStep]_schedulerVars
  <2>1. CASE requests' = requests \ {r}
    BY <1>2, <2>1, ForgetIsRemove DEF StreamTake
  <2>2. CASE UNCHANGED requests
    BY <1>2, <2>2
       DEF StreamTake, schedulerVars, uidVars, requestVars, generatorVars,
           stepVars
  <2> QED
    BY <1>2, <2>1, <2>2 DEF StreamTake
<1>3. ASSUME NEW r \in Requests, GenerateTake(r) \/ Cleanup(r)
      PROVE  [AnyStep]_schedulerVars
  BY <1>3, ForgetIsRemove DEF GenerateTake, Cleanup
<1>4. ASSUME NEW r \in Requests, Leave(r) PROVE [AnyStep]_schedulerVars
  BY <1>4 DEF Leave, AnyStep
<1>5. CASE EngineLoop
  BY <1>5 DEF EngineLoop, EngineStep, Deliver, StepFailed, SwitchThread,
              ThreadSwitched, AnyStep, WorkerStep
<1>6. CASE UNCHANGED coreVars
  BY <1>6 DEF coreVars
<1> QED
  BY <1>1, <1>2, <1>3, <1>4, <1>5, <1>6 DEF EngineNext, ClientStep

(* The inductive invariant of the scheduler holds inside the engine.        *)
THEOREM EngineKeepsSchedulerInv == EngineSafety => []SchedulerInv
<1>1. EngineInit => SchedulerInv
  BY SchedulerInvInductive DEF EngineInit
<1>2. SchedulerInv /\ [EngineNext]_coreVars => SchedulerInv'
  BY EngineStepsScheduler, SchedulerInvInductive
<1> QED
  BY <1>1, <1>2, PTL DEF EngineSafety

(* Responses are credited to the right request, and no request is queued   *)
(* twice or while it runs, even when clients leave in the middle of a step *)
(* or the step fails.                                                      *)
THEOREM EngineUidMapsCorrect == EngineSafety => [](UidMapsExact /\ QueueExclusive)
<1>1. SchedulerInv => UidMapsExact /\ QueueExclusive
  BY DEF SchedulerInv, UidInv, QueueInv
<1> QED
  BY <1>1, EngineKeepsSchedulerInv, PTL

----------------------------------------------------------------------------
(* What clients are told: the engine merges what step() reports into the   *)
(* collectors, and clients take it from there.  All this is about requests *)
(* whose responses no failing step has lost.                               *)

Left == {"leaving", "gone"}

EngineFunctions ==
  /\ client \in [Requests -> Clients]
  /\ collector = [r \in Requests |-> collector[r]]
  /\ received = [r \in Requests |-> received[r]]
  /\ result = [r \in Requests |-> result[r]]
  /\ finished \subseteq Requests

(* Only a client that leaves has its request aborted.                      *)
AbortsAreOfLeavers ==
  \A r \in Requests : r \in pendingAborts \cup aborting => client[r] \in Left

(* A final output stays in the collector, with nothing more to come, and   *)
(* says how the request ended unless its client has aborted it meanwhile.  *)
CollectorFinal ==
  \A r \in Requests \ spoiled : collector[r].finish # None =>
    /\ status[r] \in Finished
    /\ OutputsFor(r) = {}
    /\ client[r] \notin Left => Matches(collector[r].finish, r)

EventsAreEnds == \A r \in finished \ spoiled : status[r] \in Finished

EventIsOutput ==
  \A r \in Requests \ spoiled : client[r] = "generate" =>
    (r \in finished <=> collector[r].finish # None)

ServedHonestly ==
  \A r \in Requests \ spoiled : client[r] = "served" => Matches(result[r], r)

AnswerInv ==
  /\ EngineFunctions /\ AbortsAreOfLeavers /\ CollectorFinal
  /\ EventsAreEnds /\ EventIsOutput /\ ServedHonestly

EngineInv == SchedulerInv /\ OutputsInv /\ AnswerInv

LEMMA InitEngineInv == EngineInit => EngineInv
<1> SUFFICES ASSUME EngineInit PROVE EngineInv
  OBVIOUS
<1>1. SchedulerInv /\ OutputsInv
  BY SchedulerInvInductive, InitOutputsInv DEF EngineInit
<1>2. EngineFunctions
  BY DEF EngineInit, EngineFunctions, Clients
<1>3. /\ AbortsAreOfLeavers /\ CollectorFinal /\ EventsAreEnds
      /\ EventIsOutput /\ ServedHonestly
  BY DEF EngineInit, SchedulerInit, AbortsAreOfLeavers, CollectorFinal,
         EventsAreEnds, EventIsOutput, ServedHonestly, NoOutput, Consuming
<1> QED
  BY <1>1, <1>2, <1>3 DEF EngineInv, AnswerInv

-----------------------------------------------------------------------------
(* What a step of the engine leaves of the answers that are under way.     *)

LEMMA MatchesIsEnd ==
  ASSUME NEW r, NEW finish, Matches(finish, r)
  PROVE  finish # None /\ status[r] \in Finished
BY DEF Matches, Finished, None

(* The end of a request whose client is still there is fixed.              *)
LEMMA EndIsFixed ==
  ASSUME EngineInv, [EngineNext]_coreVars, NEW r \in Requests,
         r \notin spoiled', status[r] \in Finished
  PROVE  /\ status'[r] \in Finished
         /\ OutputsFor(r)' \subseteq OutputsFor(r)
         /\ client[r] \notin Left =>
              \A finish : Matches(finish, r) => Matches(finish, r)'
<1>1. /\ SchedulerTypeOK /\ QueueExclusive /\ OutputsInv
      /\ [AnyStep]_schedulerVars
  BY EngineStepsScheduler DEF EngineInv, SchedulerInv, QueueInv
<1>2. r \notin running
  BY <1>1, SpoiledGrows, FinishedIsElsewhere
<1>3. status'[r] \in Finished
  BY <1>1, <1>2, NextKeepsFinished DEF RequestKept
<1>4. OutputsFor(r)' \subseteq OutputsFor(r)
  BY <1>1, EndIsKept DEF OutputsFor
<1>5. ASSUME client[r] \notin Left, NEW finish, Matches(finish, r)
      PROVE  Matches(finish, r)'
  <2>1. UNCHANGED <<status[r], outputTokens[r]>>
    BY <1>1, <1>5, EndIsKept DEF EngineInv, AnswerInv, AbortsAreOfLeavers
  <2> QED
    BY <1>5, <2>1 DEF Matches
<1> QED
  BY <1>3, <1>4, <1>5

(* What the worker does of its own leaves clients and collectors alone.    *)
LEMMA WorkerKeepsAnswerInv ==
  ASSUME EngineInv, [EngineNext]_coreVars,
         UNCHANGED <<client, collector, finished, received, result>>,
         pendingAborts' \cup aborting' \subseteq pendingAborts \cup aborting
  PROVE  AnswerInv'
<1>0. spoiled \subseteq spoiled'
  BY EngineStepsScheduler, SpoiledGrows DEF EngineInv, SchedulerInv
<1>1. EngineFunctions' /\ AbortsAreOfLeavers'
  BY DEF EngineInv, AnswerInv, EngineFunctions, AbortsAreOfLeavers
<1>2. CollectorFinal'
  <2> SUFFICES ASSUME NEW r \in Requests \ spoiled', collector[r].finish # None
               PROVE  /\ status'[r] \in Finished
                      /\ OutputsFor(r)' = {}
                      /\ client[r] \notin Left => Matches(collector[r].finish, r)'
    BY DEF CollectorFinal
  <2>1. /\ status[r] \in Finished /\ OutputsFor(r) = {}
        /\ client[r] \notin Left => Matches(collector[r].finish, r)
    BY <1>0 DEF EngineInv, AnswerInv, CollectorFinal
  <2> QED
    BY <2>1, EndIsFixed
<1>3. EventsAreEnds'
  <2> SUFFICES ASSUME NEW r \in finished \ spoiled' PROVE status'[r] \in Finished
    BY DEF EventsAreEnds
  <2>1. r \in Requests /\ status[r] \in Finished
    BY <1>0 DEF EngineInv, AnswerInv, EventsAreEnds, EngineFunctions
  <2> QED
    BY <2>1, EndIsFixed
<1>4. EventIsOutput'
  BY <1>0 DEF EngineInv, AnswerInv, EventIsOutput
<1>5. ServedHonestly'
  <2> SUFFICES ASSUME NEW r \in Requests \ spoiled', client[r] = "served"
               PROVE  Matches(result[r], r)'
    BY DEF ServedHonestly
  <2>1. Matches(result[r], r) /\ status[r] \in Finished /\ client[r] \notin Left
    BY <1>0, MatchesIsEnd DEF EngineInv, AnswerInv, ServedHonestly, Left
  <2> QED
    BY <2>1, EndIsFixed
<1> QED
  BY <1>1, <1>2, <1>3, <1>4, <1>5 DEF AnswerInv

(* A call of client r that leaves statuses and outputs alone: the other    *)
(* clients notice nothing.                                                 *)
LEMMA CallKeepsAnswerInv ==
  ASSUME EngineInv, NEW r \in Requests,
         UNCHANGED <<outputTokens, outputs, finished, spoiled>>,
         \A q \in Requests : q # r => UNCHANGED <<status[q], client[q],
                                                 collector[q], result[q]>>,
         pendingAborts' \cup aborting' \subseteq pendingAborts \cup aborting \cup {r},
         EngineFunctions',
         r \in pendingAborts' \cup aborting' => client'[r] \in Left,
         r \notin spoiled =>
           /\ collector'[r].finish # None =>
                /\ status'[r] \in Finished /\ collector'[r] = collector[r]
                /\ client'[r] \notin Left => Matches(collector[r].finish, r)'
           /\ r \in finished => status'[r] \in Finished
           /\ client'[r] = "generate" =>
                (r \in finished <=> collector'[r].finish # None)
           /\ client'[r] = "served" => Matches(result[r], r)'
  PROVE  AnswerInv'
<1>0. AnswerInv
  BY DEF EngineInv
<1>1. AbortsAreOfLeavers'
  BY <1>0 DEF AnswerInv, AbortsAreOfLeavers
<1>2. ASSUME NEW q \in Requests, q # r, NEW finish, Matches(finish, q)
      PROVE  Matches(finish, q)'
  BY <1>2 DEF Matches
<1>3. CollectorFinal'
  BY <1>0, <1>2 DEF AnswerInv, CollectorFinal, OutputsFor
<1>4. EventsAreEnds'
  BY <1>0 DEF AnswerInv, EventsAreEnds, EngineFunctions
<1>5. EventIsOutput'
  BY <1>0 DEF AnswerInv, EventIsOutput
<1>6. ServedHonestly'
  <2> SUFFICES ASSUME NEW q \in Requests \ spoiled', client'[q] = "served"
               PROVE  Matches(result[q], q)'
    BY DEF ServedHonestly
  <2>1. CASE q # r
    <3>1. Matches(result[q], q) /\ result'[q] = result[q]
      BY <1>0, <2>1 DEF AnswerInv, ServedHonestly
    <3> QED
      BY <1>2, <2>1, <3>1
  <2> QED
    BY <2>1
<1> QED
  BY <1>1, <1>3, <1>4, <1>5, <1>6 DEF AnswerInv

LEMMA ClientKeepsAnswerInv ==
  ASSUME EngineInv, [EngineNext]_coreVars, NEW r \in Requests, ClientStep(r)
  PROVE  AnswerInv'
<1>0. /\ AnswerInv /\ SchedulerTypeOK
      /\ status \in [Requests -> Statuses]
      /\ client \in [Requests -> Clients]
      /\ collector = [q \in Requests |-> collector[q]]
      /\ received = [q \in Requests |-> received[q]]
      /\ result = [q \in Requests |-> result[q]]
      /\ finished \subseteq Requests
  BY DEF EngineInv, AnswerInv, EngineFunctions, SchedulerInv, SchedulerTypeOK
<1>f. /\ r \in pendingAborts \cup aborting => client[r] \in Left
      /\ r \notin spoiled =>
           /\ collector[r].finish # None =>
                /\ status[r] \in Finished
                /\ client[r] \notin Left => Matches(collector[r].finish, r)
           /\ r \in finished => status[r] \in Finished
           /\ client[r] = "generate" =>
                (r \in finished <=> collector[r].finish # None)
  BY <1>0 DEF AnswerInv, AbortsAreOfLeavers, CollectorFinal, EventsAreEnds,
              EventIsOutput
<1>m. ASSUME UNCHANGED <<status, outputTokens>>, NEW finish, Matches(finish, r)
      PROVE  Matches(finish, r)'
  BY <1>m DEF Matches
<1>1. CASE Submit(r)
  <2>1. /\ status[r] = "NEW" /\ status' = [status EXCEPT ![r] = "WAITING"]
        /\ \E mode \in Consuming : client' = [client EXCEPT ![r] = mode]
        /\ UNCHANGED <<outputTokens, outputs, pendingAborts, aborting, collector,
                       finished, received, result, spoiled>>
    BY <1>1 DEF Submit, AddRequest
  <2>2. r \notin spoiled => r \notin finished /\ collector[r].finish = None
    BY <1>f, <2>1 DEF Finished
  <2>3. client[r] \notin Left
    BY <1>1 DEF Submit, Left
  <2>4. client'[r] \in Consuming /\ client'[r] \notin Left
    BY <1>0, <2>1 DEF Consuming, Left
  <2>5. EngineFunctions'
    BY <1>0, <2>1 DEF EngineFunctions, Clients, Consuming
  <2>6. \A q \in Requests : q # r => UNCHANGED <<status[q], client[q],
                                                 collector[q], result[q]>>
    BY <1>0, <2>1
  <2> QED
    BY <1>f, <2>1, <2>2, <2>3, <2>4, <2>5, <2>6, CallKeepsAnswerInv DEF Consuming
<1>2. CASE Leave(r)
  <2>1. /\ client' = [client EXCEPT ![r] = "leaving"]
        /\ pendingAborts' = pendingAborts \cup {r}
        /\ UNCHANGED <<status, outputTokens, outputs, aborting, collector,
                       finished, received, result, spoiled>>
    BY <1>2 DEF Leave, AbortRequest, requestVars, stepVars
  <2>2. client'[r] = "leaving" /\ EngineFunctions'
    BY <1>0, <2>1 DEF EngineFunctions, Clients
  <2>3. \A q \in Requests : q # r => UNCHANGED <<status[q], client[q],
                                                 collector[q], result[q]>>
    BY <1>0, <2>1
  <2> QED
    BY <1>f, <2>1, <2>2, <2>3, CallKeepsAnswerInv DEF Left
<1>3. ASSUME UNCHANGED <<status, outputTokens, outputs, pendingAborts, aborting,
                         finished, spoiled>>,
             EngineFunctions',
             \A q \in Requests : q # r => UNCHANGED <<client[q], collector[q],
                                                      result[q]>>,
             collector'[r] = NoOutput,
             \/ client'[r] = "stream" /\ client[r] \notin Left
             \/ client'[r] = "gone"
             \/ /\ client'[r] = "served" /\ client[r] \notin Left
                /\ result'[r] = collector[r].finish
                /\ r \notin spoiled => collector[r].finish # None
      PROVE  AnswerInv'
  <2>1. collector'[r].finish = None
    BY <1>3 DEF NoOutput
  <2>2. r \notin spoiled /\ client'[r] = "served" => Matches(result[r], r)'
    BY <1>3, <1>f, <1>m
  <2>3. r \in pendingAborts' \cup aborting' => client'[r] \in Left
    BY <1>3, <1>f DEF Left
  <2> QED
    BY <1>3, <1>f, <2>1, <2>2, <2>3, CallKeepsAnswerInv
<1>4. CASE StreamTake(r)
  <2>1. /\ collector' = [collector EXCEPT ![r] = NoOutput]
        /\ received' = [received EXCEPT ![r] = @ + collector[r].new]
        /\ result' = [result EXCEPT ![r] = collector[r].finish]
        /\ \/ collector[r].finish = None /\ UNCHANGED client
           \/ /\ collector[r].finish # None
              /\ client' = [client EXCEPT ![r] = "served"]
        /\ client[r] = "stream"
        /\ UNCHANGED <<status, outputTokens, outputs, pendingAborts, aborting,
                       finished, spoiled>>
    BY <1>4 DEF StreamTake, requestVars, stepVars
  <2>2. EngineFunctions'
    BY <1>0, <2>1 DEF EngineFunctions, Clients
  <2>3. /\ \A q \in Requests : q # r => UNCHANGED <<client[q], collector[q],
                                                    result[q]>>
        /\ collector'[r] = NoOutput /\ result'[r] = collector[r].finish
        /\ \/ client'[r] = "stream"
           \/ client'[r] = "served" /\ collector[r].finish # None
        /\ client[r] \notin Left
    BY <1>0, <2>1 DEF Left
  <2> QED
    BY <1>3, <2>1, <2>2, <2>3
<1>5. CASE GenerateTake(r)
  <2>1. /\ collector' = [collector EXCEPT ![r] = NoOutput]
        /\ received' = [received EXCEPT ![r] = collector[r].completion]
        /\ result' = [result EXCEPT ![r] = collector[r].finish]
        /\ client' = [client EXCEPT ![r] = "served"]
        /\ client[r] = "generate" /\ r \in finished
        /\ UNCHANGED <<status, outputTokens, outputs, pendingAborts, aborting,
                       finished, spoiled>>
    BY <1>5 DEF GenerateTake, requestVars, stepVars
  <2>2. EngineFunctions'
    BY <1>0, <2>1 DEF EngineFunctions, Clients
  <2>3. /\ \A q \in Requests : q # r => UNCHANGED <<client[q], collector[q],
                                                    result[q]>>
        /\ collector'[r] = NoOutput /\ result'[r] = collector[r].finish
        /\ client'[r] = "served"
        /\ r \notin spoiled => collector[r].finish # None
        /\ client[r] \notin Left
    BY <1>0, <1>f, <2>1 DEF Left
  <2> QED
    BY <1>3, <2>1, <2>2, <2>3
<1>6. CASE Cleanup(r)
  <2>1. /\ collector' = [collector EXCEPT ![r] = NoOutput]
        /\ client' = [client EXCEPT ![r] = "gone"]
        /\ UNCHANGED <<status, outputTokens, outputs, pendingAborts, aborting,
                       finished, received, result, spoiled>>
    BY <1>6 DEF Cleanup, requestVars, stepVars
  <2>2. EngineFunctions'
    BY <1>0, <2>1 DEF EngineFunctions, Clients
  <2>3. /\ \A q \in Requests : q # r => UNCHANGED <<client[q], collector[q],
                                                    result[q]>>
        /\ collector'[r] = NoOutput /\ client'[r] = "gone"
    BY <1>0, <2>1
  <2> QED
    BY <1>3, <2>1, <2>2, <2>3
<1> QED
  BY <1>1, <1>2, <1>4, <1>5, <1>6 DEF ClientStep

-----------------------------------------------------------------------------
(* The delivery of a step's result.                                        *)

LEMMA FinalIsPut ==
  ASSUME NEW r, NEW o \in OutputsFor(r), o.finish # None
  PROVE  o \in Puts(r)
BY DEF Puts, ShouldSend

(* There is a last output, and it is an error if there is one.             *)
LEMMA LastPutExists ==
  ASSUME NEW r, OutputsUnique(r), Puts(r) # {}
  PROVE  /\ LastPut(r) \in Puts(r)
         /\ \A p \in Puts(r) : LastPut(r).finish = "error" \/ p = LastPut(r)
<1> DEFINE Final(o) == \A p \in Puts(r) : o.finish = "error" \/ p = o
<1>1. \A o, p \in Puts(r) :
        (o.finish = "error" <=> p.finish = "error") => o = p
  BY DEF Puts, OutputsFor, OutputsUnique, Of
<1>2. \E o \in Puts(r) : Final(o)
  <2>1. CASE \E o \in Puts(r) : o.finish = "error"
    BY <2>1
  <2>2. CASE \A o \in Puts(r) : o.finish # "error"
    BY <2>2, <1>1
  <2> QED
    BY <2>1, <2>2
<1> QED
  BY <1>2 DEF LastPut

LEMMA LastPutHonest ==
  ASSUME OutputsInv, NEW r \in Requests \ spoiled, Puts(r) # {}
  PROVE  /\ LastPut(r).finish # None => Matches(LastPut(r).finish, r)
         /\ LastPut(r).finish # None <=> \E o \in OutputsFor(r) : o.finish # None
<1>0. OutputsUnique(r) /\ OutputsHonest(r)
  BY DEF OutputsInv
<1> DEFINE o == LastPut(r)
<1>1. /\ o \in Puts(r) /\ o \in Of(r)
      /\ \A p \in Puts(r) : o.finish = "error" \/ p = o
  BY <1>0, LastPutExists DEF Puts, OutputsFor, Of
<1> HIDE DEF o
<1>2. ASSUME NEW p \in Of(r), p.finish = "error" PROVE o.finish = "error"
  <2>1. p \in Puts(r)
    BY <1>2, FinalIsPut DEF OutputsFor, Of, None
  <2> QED
    BY <1>1, <1>2, <2>1
<1>3. o.finish # None => Matches(o.finish, r)
  BY <1>0, <1>1, <1>2 DEF OutputsHonest
<1>4. ASSUME NEW p \in OutputsFor(r), p.finish # None PROVE o.finish # None
  <2>1. p \in Puts(r)
    BY <1>4, FinalIsPut
  <2> QED
    BY <1>1, <1>4, <2>1 DEF None
<1> QED
  BY <1>1, <1>3, <1>4 DEF OutputsFor, Of, o

LEMMA DeliveryFacts ==
  ASSUME EngineInv, Deliver, NEW r \in Requests \ spoiled
  PROVE  /\ r \in Delivered => /\ collector'[r] = Merge(r)
                               /\ collector[r].finish = None
         /\ r \notin Delivered => collector'[r] = collector[r]
         /\ r \in finished' <=> r \in finished \/ SignalFinished(r)
         /\ SignalFinished(r) <=> r \in Delivered /\ LastPut(r).finish # None
         /\ Merge(r).finish = LastPut(r).finish
<1>1. /\ r \in Delivered => collector'[r] = Merge(r)
      /\ r \notin Delivered => collector'[r] = collector[r]
      /\ r \in finished' <=> r \in finished \/ SignalFinished(r)
      /\ Merge(r).finish = LastPut(r).finish
  BY DEF Deliver, Merge
<1>2. r \in Delivered => collector[r].finish = None
  BY DEF Delivered, Puts, EngineInv, AnswerInv, CollectorFinal
<1>3. SignalFinished(r) => r \in Delivered
  BY FinalIsPut DEF SignalFinished, Delivered
<1>4. Puts(r) # {} =>
        (LastPut(r).finish # None <=> \E o \in OutputsFor(r) : o.finish # None)
  BY LastPutHonest DEF EngineInv
<1> QED
  BY <1>1, <1>2, <1>3, <1>4 DEF SignalFinished, Delivered

LEMMA DeliverKeepsAnswerInv ==
  ASSUME EngineInv, Deliver
  PROVE  AnswerInv'
<1>0. /\ UNCHANGED <<client, received, result, status, outputTokens,
                     pendingAborts, aborting, spoiled>>
      /\ outputs' = {} /\ AnswerInv
  BY DEF Deliver, Return, EndStep, clientVars, requestVars, EngineInv
<1>m. ASSUME NEW r, NEW finish, Matches(finish, r) PROVE Matches(finish, r)'
  BY <1>0, <1>m DEF Matches
<1>1. EngineFunctions' /\ AbortsAreOfLeavers'
  <2>1. /\ collector' = [r \in Requests |-> collector'[r]]
        /\ finished' \subseteq Requests
    BY <1>0 DEF Deliver, AnswerInv, EngineFunctions
  <2> QED
    BY <1>0, <2>1 DEF AnswerInv, EngineFunctions, AbortsAreOfLeavers
<1>2. CollectorFinal'
  <2> SUFFICES ASSUME NEW r \in Requests \ spoiled, collector'[r].finish # None
               PROVE  /\ status'[r] \in Finished
                      /\ OutputsFor(r)' = {}
                      /\ client'[r] \notin Left => Matches(collector[r].finish, r)'
    BY <1>0 DEF CollectorFinal
  <2>1. OutputsFor(r)' = {}
    BY <1>0 DEF OutputsFor
  <2>2. CASE r \in Delivered
    <3>1. collector'[r].finish = LastPut(r).finish
      BY <2>2, DeliveryFacts
    <3>2. Matches(LastPut(r).finish, r)
      BY <2>2, <3>1, LastPutHonest DEF Delivered, EngineInv
    <3>3. Matches(collector[r].finish, r)'
      BY <3>1, <3>2, <1>m
    <3> QED
      BY <1>0, <2>1, <3>2, <3>3, MatchesIsEnd
  <2>3. CASE r \notin Delivered
    <3>1. collector'[r] = collector[r]
      BY <2>3, DeliveryFacts
    <3> QED
      BY <1>0, <1>m, <2>1, <3>1 DEF AnswerInv, CollectorFinal
  <2> QED
    BY <2>2, <2>3
<1>3. EventsAreEnds'
  <2> SUFFICES ASSUME NEW r \in finished' \ spoiled PROVE status'[r] \in Finished
    BY <1>0 DEF EventsAreEnds
  <2>1. r \in Requests \ spoiled
    BY <1>1 DEF EngineFunctions
  <2>2. CASE SignalFinished(r)
    <3>1. Matches(LastPut(r).finish, r)
      BY <2>1, <2>2, DeliveryFacts, LastPutHonest DEF Delivered, EngineInv
    <3> QED
      BY <1>0, <3>1, MatchesIsEnd
  <2> QED
    BY <1>0, <2>1, <2>2, DeliveryFacts DEF AnswerInv, EventsAreEnds
<1>4. EventIsOutput'
  <2> SUFFICES ASSUME NEW r \in Requests \ spoiled, client[r] = "generate"
               PROVE  r \in finished' <=> collector'[r].finish # None
    BY <1>0 DEF EventIsOutput
  <2>1. r \in finished <=> collector[r].finish # None
    BY <1>0 DEF AnswerInv, EventIsOutput
  <2> QED
    BY <2>1, DeliveryFacts
<1>5. ServedHonestly'
  BY <1>0, <1>m DEF AnswerInv, ServedHonestly
<1> QED
  BY <1>1, <1>2, <1>3, <1>4, <1>5 DEF AnswerInv

LEMMA NextEngineInv ==
  ASSUME EngineInv, [EngineNext]_coreVars
  PROVE  EngineInv'
<1>1. SchedulerInv' /\ OutputsInv'
  <2>1. /\ SchedulerTypeOK /\ QueueExclusive /\ OutputsInv
        /\ [AnyStep]_schedulerVars /\ SchedulerInv'
    BY EngineStepsScheduler, SchedulerInvInductive
       DEF EngineInv, SchedulerInv, QueueInv
  <2> QED
    BY <2>1, NextOutputsInv DEF SchedulerInv
<1> SUFFICES AnswerInv'
  BY <1>1 DEF EngineInv
<1>2. ASSUME NEW r \in Requests, ClientStep(r) PROVE AnswerInv'
  BY <1>2, ClientKeepsAnswerInv
<1>3. CASE Deliver
  BY <1>3, DeliverKeepsAnswerInv
<1>4. CASE EngineStep \/ StepFailed \/ SwitchThread \/ ThreadSwitched
  <2>1. WorkerStep
    BY <1>4 DEF EngineStep, StepFailed, SwitchThread, ThreadSwitched, WorkerStep
  <2>2. UNCHANGED <<client, collector, finished, received, result>>
    BY <1>4 DEF EngineStep, StepFailed, SwitchThread, ThreadSwitched, engineVars,
                clientVars
  <2> QED
    BY <2>1, <2>2, WorkerAbortsShrink, WorkerKeepsAnswerInv
       DEF EngineInv, SchedulerInv
<1>5. CASE UNCHANGED coreVars
  BY <1>5, WorkerKeepsAnswerInv DEF coreVars, schedulerVars, engineVars
<1> QED
  BY <1>2, <1>3, <1>4, <1>5 DEF EngineNext, EngineLoop

(* The inductive invariant of the engine.                                  *)
THEOREM EngineInvariant == EngineSafety => []EngineInv
BY InitEngineInv, NextEngineInv, PTL DEF EngineSafety

(* The finished event is set exactly when the final output is in the       *)
(* collector, so generate() never wakes up to a missing or partial output: *)
(* all this for requests none of whose responses a failing step has lost.  *)
THEOREM EventsCorrect == EngineSafety => []EventMeansOutput
<1>1. EngineInv => EventMeansOutput
  BY DEF EngineInv, AnswerInv, EventIsOutput, EventsAreEnds, EventMeansOutput
<1> QED
  BY <1>1, EngineInvariant, PTL

(* The reason a client is given is the one its request ended for, unless a *)
(* failing step has lost responses of the request.                         *)
THEOREM AnswersCorrect == EngineSafety => []AnswerMatchesEnd
<1>1. EngineInv => AnswerMatchesEnd
  BY DEF EngineInv, AnswerInv, ServedHonestly, Matches, AnswerMatchesEnd
<1> QED
  BY <1>1, EngineInvariant, PTL

-----------------------------------------------------------------------------
(* Nobody is forgotten, as long as an insertion into the batch cannot fail:*)
(* the client of a request that has finished has its end in the collector  *)
(* or in the result of the step under way, unless a step has lost it.      *)

EndOnItsWay(r) ==
  collector[r].finish # None \/ \E o \in OutputsFor(r) : o.finish # None

Remembered(r) ==
  /\ Accounted(r)
  /\ client[r] \in Consuming =>
       /\ r \in requests
       /\ status[r] \in Finished => EndOnItsWay(r) \/ r \in spoiled

LEMMA ReturnDelivers ==
  ASSUME EngineLoop, phase = "return"
  PROVE  Deliver \/ EpilogueRaises
<1>1. ~RaisingStep
  BY DEF RaisingStep, ScheduleRaises, GenerateRaises, ProcessRaises,
         CleanupRaises
<1>2. StepAction => EpilogueRaises
  BY <1>1, StepActionCases
     DEF BeginStep, AbortBegin, AbortRemove, AbortRemoveRaises, AbortsDone,
         PromoteDone, PromoteRaises, ScheduleOne, ScheduleDone, Generate,
         RescheduleOne, RescheduleDone
<1> QED
  BY <1>2 DEF EngineLoop, EngineStep, StepFailed, SwitchThread, ThreadSwitched,
              RecoverStreamThread, RequeueDone

(* Outputs that are not delivered are lost.                                *)
LEMMA NothingLeftBehind ==
  ASSUME EngineInv, EngineLoop, ~Deliver, NEW r \in Requests, r \notin spoiled'
  PROVE  OutputsFor(r) = {} /\ UNCHANGED <<client, collector, received>>
<1>1. spoiled \subseteq spoiled'
  BY EngineStepsScheduler, SpoiledGrows DEF EngineInv, SchedulerInv, EngineNext
<1>2. UNCHANGED <<client, collector, received>>
  BY DEF EngineLoop, EngineStep, StepFailed, SwitchThread, ThreadSwitched,
         engineVars, clientVars
<1>3. CASE phase # "return"
  <2>1. \A o \in outputs : o.id \in spoiled
    BY <1>3 DEF EngineInv, OutputsInv, NothingPending
  <2>2. OutputsFor(r) = {}
    BY <1>1, <2>1 DEF OutputsFor
  <2> QED
    BY <1>2, <2>2
<1>4. CASE EpilogueRaises
  <2>1. \A o \in outputs : o.id \in spoiled'
    BY <1>4 DEF EpilogueRaises
  <2>2. OutputsFor(r) = {}
    BY <2>1 DEF OutputsFor
  <2> QED
    BY <1>2, <2>2
<1> QED
  BY <1>3, <1>4, ReturnDelivers

LEMMA LoopKeepsRequests ==
  ASSUME SchedulerTypeOK, EngineLoop
  PROVE  requests' = requests /\ client' = client
<1>1. WorkerStep /\ client' = client
  BY DEF EngineLoop, EngineStep, Deliver, StepFailed, SwitchThread,
         ThreadSwitched, WorkerStep, engineVars, clientVars
<1>2. RaisingStep => requests' = requests
  BY RaisingIsSound, HandleOutcome
<1>3. requests' = requests
  BY <1>1, <1>2, StepActionCases
     DEF WorkerStep, BeginStep, AbortBegin, AbortRemove, AbortRemoveRaises,
         FinishAbort, AbortsDone, PromoteDone, PromoteRaises, ScheduleOne,
         ScheduleDone, Generate, EpilogueRaises, RescheduleOne, RescheduleDone,
         Return, RecoverStreamThread, RequeueDone, queueVars
<1> QED
  BY <1>1, <1>3

(* An end that is on its way arrives in the collector.                     *)
LEMMA LoopKeepsEnd ==
  ASSUME EngineInv, EngineLoop, NEW r \in Requests, r \notin spoiled',
         client[r] \in Consuming, status[r] \in Finished, EndOnItsWay(r)
  PROVE  EndOnItsWay(r)'
<1>1. CASE Deliver
  <2>0. r \notin spoiled
    BY <1>1 DEF Deliver, Return
  <2>1. CASE SignalFinished(r)
    BY <1>1, <2>0, <2>1, DeliveryFacts DEF EndOnItsWay
  <2>2. CASE ~SignalFinished(r)
    <3>1. collector[r].finish # None
      BY <2>2 DEF SignalFinished, EndOnItsWay
    <3> QED
      BY <1>1, <2>0, <2>2, <3>1, DeliveryFacts DEF EndOnItsWay
  <2> QED
    BY <2>1, <2>2
<1>2. CASE ~Deliver
  <2>1. OutputsFor(r) = {} /\ collector' = collector
    BY <1>2, NothingLeftBehind
  <2> QED
    BY <2>1 DEF EndOnItsWay
<1> QED
  BY <1>1, <1>2

LEMMA NextRemembered ==
  ASSUME InsertionSafe, EngineInv, [EngineNext]_coreVars,
         NEW r \in Requests, Remembered(r)
  PROVE  Remembered(r)'
<1>0. /\ SchedulerTypeOK /\ QueueInv /\ QueueExclusive /\ OutputsInv
      /\ [AnyStep]_schedulerVars
  BY EngineStepsScheduler DEF EngineInv, SchedulerInv, QueueInv
<1>t. /\ client \in [Requests -> Clients]
      /\ collector = [q \in Requests |-> collector[q]]
  BY DEF EngineInv, AnswerInv, EngineFunctions
<1>1. Accounted(r)'
  BY <1>0, NextKeepsAccounted DEF Remembered
<1>s. spoiled \subseteq spoiled'
  BY <1>0, SpoiledGrows
<1> SUFFICES ASSUME client'[r] \in Consuming
             PROVE  /\ r \in requests'
                    /\ \/ status'[r] \in Finished => EndOnItsWay(r)'
                       \/ r \in spoiled'
  BY <1>1 DEF Remembered
<1>2. CASE EngineLoop
  <2>1. client[r] \in Consuming /\ r \in requests'
    BY <1>0, <1>2, LoopKeepsRequests DEF Remembered
  <2>2. ASSUME status[r] \notin Finished, status'[r] \in Finished,
               r \notin spoiled'
        PROVE  EndOnItsWay(r)'
    <3>1. r \notin pendingAborts \cup aborting
      BY <2>1 DEF EngineInv, AnswerInv, AbortsAreOfLeavers, Left, Consuming
    <3> QED
      BY <1>0, <2>2, <3>1, EndIsReported DEF EndOnItsWay, OutputsFor
  <2> QED
    BY <1>2, <1>s, <2>1, <2>2, LoopKeepsEnd DEF Remembered
<1>3. ASSUME NEW q \in Requests, q # r, ClientStep(q)
      PROVE  /\ r \in requests'
             /\ \/ status'[r] \in Finished => EndOnItsWay(r)'
                \/ r \in spoiled'
  <2>1. /\ client'[r] = client[r] /\ collector'[r] = collector[r]
        /\ requests \ {q} \subseteq requests' /\ outputs' = outputs
        /\ status' = status \/ status' = [status EXCEPT ![q] = "WAITING"]
    BY <1>3, <1>t
       DEF ClientStep, Submit, StreamTake, GenerateTake, Leave, Cleanup,
           AddRequest, AbortRequest, requestVars, stepVars, queueVars
  <2>2. status'[r] = status[r]
    BY <1>0, <1>3, <2>1 DEF SchedulerTypeOK
  <2> QED
    BY <1>3, <1>s, <2>1, <2>2 DEF Remembered, EndOnItsWay, OutputsFor
<1>4. CASE Submit(r)
  <2>1. r \in requests' /\ status'[r] = "WAITING"
    BY <1>0, <1>4 DEF Submit, AddRequest, SchedulerTypeOK
  <2> QED
    BY <2>1 DEF Finished
<1>5. CASE StreamTake(r)
  <2>1. collector[r].finish = None /\ UNCHANGED <<requests, status, outputs>>
    BY <1>5, <1>t DEF StreamTake, requestVars, stepVars, Consuming
  <2>2. client[r] \in Consuming
    BY <1>5 DEF StreamTake, Consuming
  <2> QED
    BY <1>s, <2>1, <2>2 DEF Remembered, EndOnItsWay, OutputsFor
<1>6. CASE GenerateTake(r) \/ Leave(r) \/ Cleanup(r)
  BY <1>6, <1>t DEF GenerateTake, Leave, Cleanup, Consuming
<1>7. CASE UNCHANGED coreVars
  BY <1>7 DEF coreVars, schedulerVars, engineVars, Remembered, EndOnItsWay,
              OutputsFor
<1> QED
  BY <1>2, <1>3, <1>4, <1>5, <1>6, <1>7 DEF EngineNext, ClientStep

(* A request whose client still waits is tracked, and in the queue, in the *)
(* batch, or on its way to the client with its end: clients that leave in  *)
(* the middle of a step never take another request along, and a step that  *)
(* fails only one whose final output it has lost.                          *)
THEOREM ClientsRemembered ==
  ASSUME InsertionSafe
  PROVE  EngineSafety => []NoClientForgotten
<1> DEFINE AllRemembered == \A r \in Requests : Remembered(r)
<1>1. EngineInit => AllRemembered
  BY DEF EngineInit, SchedulerInit, Remembered, Accounted, Consuming
<1>2. EngineInv /\ AllRemembered /\ [EngineNext]_coreVars => AllRemembered'
  BY NextRemembered
<1>3. AllRemembered => NoClientForgotten
  BY DEF Remembered, Accounted, EndOnItsWay, NoClientForgotten
<1> QED
  BY <1>1, <1>2, <1>3, EngineInvariant, PTL DEF EngineSafety

-----------------------------------------------------------------------------
(* Streams get every token, with the default stream interval of 1, but for *)
(* the last one of a request that fails.                                   *)

CountsTyped(r) ==
  /\ received[r] \in Nat /\ collector[r].new \in Nat
  /\ collector[r].completion \in Nat /\ UndeliveredTokens(r) \in {0, 1}

Untouched(r) ==
  /\ received[r] = 0 /\ collector[r].new = 0
  /\ outputTokens[r] = 0 /\ OutputsFor(r) = {}

Given(r) == received[r] + collector[r].new + UndeliveredTokens(r)

Lossless(r) ==
  r \notin spoiled =>
    /\ CountsTyped(r)
    /\ status[r] = "NEW" => Untouched(r)
    /\ client[r] = "stream" =>
         \/ Given(r) = outputTokens[r]
         \/ Given(r) = outputTokens[r] - 1 /\ status[r] = "FINISHED_ABORTED"

LEMMA NothingUndelivered ==
  ASSUME NEW r, OutputsFor(r) = {}
  PROVE  UndeliveredTokens(r) = 0
<1>1. {o \in OutputsFor(r) : o.new = 1} = {}
  OBVIOUS
<1> QED
  BY <1>1, FS_EmptySet DEF UndeliveredTokens

(* A step that reports something has a new token in its output for each    *)
(* request it has appended one to, unless the request fails.               *)
LEMMA ReportedTokens ==
  ASSUME SchedulerTypeOK, NEW r \in Requests, ReportedFor(r)
  PROVE  /\ UndeliveredTokens(r)' \in {0, 1}
         /\ \/ outputTokens'[r] = outputTokens[r] + UndeliveredTokens(r)'
            \/ /\ UndeliveredTokens(r)' = 0 /\ outputTokens'[r] = outputTokens[r] + 1
               /\ status'[r] = "FINISHED_ABORTED"
         /\ status'[r] # "NEW" \/ status'[r] = status[r]
<1> DEFINE new == {o \in Of(r)' : o.new = 1}
<1>1. UndeliveredTokens(r)' = Cardinality(new)
  BY DEF UndeliveredTokens, OutputsFor, Of
<1>2. CASE Failed(r)
  <2>1. new = {}
    BY <1>2 DEF Failed, ErrorOf
  <2>2. Cardinality(new) = 0
    BY <2>1, FS_EmptySet
  <2>3. outputTokens[r] \in Nat
    BY DEF SchedulerTypeOK
  <2> HIDE DEF new
  <2> QED
    BY <1>1, <1>2, <2>2, <2>3 DEF Failed
<1>3. ASSUME NEW stops, Answered(r, stops) \/ AnsweredAndFailed(r, stops)
      PROVE  /\ UndeliveredTokens(r)' = 1
             /\ outputTokens'[r] = outputTokens[r] + 1
             /\ status'[r] # "NEW" \/ status'[r] = status[r]
  <2>1. PICK o : o = Response(r, stops)
    OBVIOUS
  <2>2. o.new = 1 /\ ErrorOf(r).new = 0
    BY <2>1 DEF Response, ErrorOf
  <2>3. Of(r)' = {o} \/ Of(r)' = {o, ErrorOf(r)}
    BY <1>3, <2>1 DEF Answered, AnsweredAndFailed
  <2>4. new = {o}
    BY <2>2, <2>3
  <2>5. Cardinality(new) = 1
    BY <2>4, FS_Singleton
  <2> HIDE DEF new
  <2> QED
    BY <1>1, <1>3, <2>5 DEF Answered, AnsweredAndFailed, FinishStatus
<1> QED
  BY <1>2, <1>3 DEF ReportedFor

(* Between two deliveries tokens only move from the request to the result  *)
(* of the step.                                                            *)
LEMMA LoopKeepsLossless ==
  ASSUME EngineInv, EngineLoop, ~Deliver, NEW r \in Requests, Lossless(r)
  PROVE  Lossless(r)'
<1>0. /\ SchedulerTypeOK /\ QueueExclusive /\ NothingPending
      /\ outputTokens[r] \in Nat /\ [AnyStep]_schedulerVars
  BY EngineStepsScheduler
     DEF EngineInv, SchedulerInv, QueueInv, OutputsInv, SchedulerTypeOK, EngineNext
<1> SUFFICES ASSUME r \notin spoiled' PROVE Lossless(r)'
  BY DEF Lossless
<1>1. r \notin spoiled
  BY <1>0, SpoiledGrows
<1>2. OutputsFor(r) = {} /\ UNCHANGED <<client, collector, received>>
  BY NothingLeftBehind
<1>3. EffectOn(r)
  BY <1>0, EveryStepsEffect DEF StepEffect
<1>4. UndeliveredTokens(r) = 0
  BY <1>2, NothingUndelivered
<1>5. CASE ~ReportedFor(r)
  <2>1. /\ OutputsFor(r)' = {} /\ outputTokens'[r] = outputTokens[r]
        /\ status[r] = "FINISHED_ABORTED" => status'[r] = "FINISHED_ABORTED"
        /\ status'[r] = "NEW" => status[r] = "NEW"
    BY <1>2, <1>3, <1>5
       DEF EffectOn, QuietFor, StatusQuiet, TakenFor, Of, OutputsFor, Finished
  <2>2. {o \in OutputsFor(r)' : o.new = 1} = {}
    BY <2>1
  <2>3. UndeliveredTokens(r)' = 0
    BY <2>2, FS_EmptySet DEF UndeliveredTokens
  <2> QED
    BY <1>1, <1>2, <1>4, <2>1, <2>3 DEF Lossless, CountsTyped, Untouched, Given
<1>6. CASE ReportedFor(r)
  <2>1. status[r] = "RUNNING"
    BY <1>0, <1>1, <1>6 DEF ReportedFor, QueueExclusive
  <2>2. /\ UndeliveredTokens(r)' \in {0, 1}
        /\ \/ outputTokens'[r] = outputTokens[r] + UndeliveredTokens(r)'
           \/ /\ UndeliveredTokens(r)' = 0 /\ outputTokens'[r] = outputTokens[r] + 1
              /\ status'[r] = "FINISHED_ABORTED"
        /\ status'[r] # "NEW"
    BY <1>0, <1>6, <2>1, ReportedTokens
  <2>3. CountsTyped(r) /\ (client[r] = "stream" =>
                             received[r] + collector[r].new = outputTokens[r])
    BY <1>1, <1>4, <2>1 DEF Lossless, CountsTyped, Given
  <2>4. CountsTyped(r)'
    BY <1>2, <2>2, <2>3 DEF CountsTyped
  <2>5. client'[r] = "stream" =>
          \/ Given(r)' = outputTokens'[r]
          \/ Given(r)' = outputTokens'[r] - 1 /\ status'[r] = "FINISHED_ABORTED"
    BY <1>0, <1>2, <2>2, <2>3 DEF CountsTyped, Given
  <2> QED
    BY <2>2, <2>4, <2>5 DEF Lossless
<1> QED
  BY <1>5, <1>6

LEMMA DeliverKeepsLossless ==
  ASSUME StreamInterval = 1, EngineInv, Deliver, NEW r \in Requests, Lossless(r)
  PROVE  Lossless(r)'
<1>1. /\ UNCHANGED <<client, received, status, outputTokens, spoiled>>
      /\ outputs' = {}
  BY DEF Deliver, Return, EndStep, clientVars, requestVars
<1> SUFFICES ASSUME r \notin spoiled PROVE Lossless(r)'
  BY <1>1 DEF Lossless
<1>2. OutputsFor(r)' = {}
  BY <1>1 DEF OutputsFor
<1>3. UndeliveredTokens(r)' = 0
  <2>1. {o \in OutputsFor(r)' : o.new = 1} = {}
    BY <1>2
  <2> QED
    BY <2>1, FS_EmptySet DEF UndeliveredTokens
<1>4. Puts(r) = OutputsFor(r)
  BY DEF Puts
<1>5. CASE r \in Delivered
  <2>1. /\ collector'[r].new = collector[r].new + UndeliveredTokens(r)
        /\ collector'[r].completion = LastPut(r).completion
    <3>1. /\ Merge(r).new = collector[r].new + UndeliveredTokens(r)
          /\ Merge(r).completion = LastPut(r).completion
      BY <1>4 DEF Merge, UndeliveredTokens
    <3> QED
      BY <1>5, <3>1, DeliveryFacts
  <2>2. LastPut(r) \in Outputs /\ status[r] # "NEW"
    BY <1>4, <1>5, LastPutExists
       DEF Delivered, EngineInv, OutputsInv, SchedulerInv, SchedulerTypeOK,
           OutputsFor, Lossless, Untouched
  <2>3. LastPut(r).completion \in Nat
    BY <2>2 DEF Outputs
  <2> QED
    BY <1>1, <1>3, <2>1, <2>2, <2>3 DEF Lossless, CountsTyped, Given
<1>6. CASE r \notin Delivered
  <2>1. collector'[r] = collector[r]
    BY <1>6, DeliveryFacts
  <2>2. client[r] = "stream" => OutputsFor(r) = {}
    BY <1>4, <1>6 DEF Delivered, Consuming
  <2>3. client[r] = "stream" => UndeliveredTokens(r) = 0
    BY <2>2, NothingUndelivered
  <2> QED
    BY <1>1, <1>2, <1>3, <2>1, <2>3 DEF Lossless, CountsTyped, Untouched, Given
<1> QED
  BY <1>5, <1>6

LEMMA ClientKeepsLossless ==
  ASSUME EngineInv, NEW r \in Requests, Lossless(r),
         NEW q \in Requests, ClientStep(q)
  PROVE  Lossless(r)'
<1>t. /\ client \in [Requests -> Clients]
      /\ collector = [p \in Requests |-> collector[p]]
      /\ received = [p \in Requests |-> received[p]]
      /\ status \in [Requests -> Statuses]
      /\ outputTokens[r] \in Nat
  BY DEF EngineInv, AnswerInv, EngineFunctions, SchedulerInv, SchedulerTypeOK
<1>1. UNCHANGED <<outputs, outputTokens, spoiled>>
  BY DEF ClientStep, Submit, StreamTake, GenerateTake, Leave, Cleanup,
         AddRequest, AbortRequest, requestVars, stepVars
<1> SUFFICES ASSUME r \notin spoiled PROVE Lossless(r)'
  BY <1>1 DEF Lossless
<1>2. /\ OutputsFor(r)' = OutputsFor(r)
      /\ UndeliveredTokens(r)' = UndeliveredTokens(r)
  BY <1>1 DEF OutputsFor, UndeliveredTokens
<1>3. ASSUME UNCHANGED <<client[r], collector[r], received[r], status[r]>>
      PROVE  Lossless(r)'
  BY <1>1, <1>2, <1>3 DEF Lossless, CountsTyped, Untouched, Given
<1>4. CASE q # r
  <2>1. UNCHANGED <<client[r], collector[r], received[r], status[r]>>
    BY <1>4, <1>t
       DEF ClientStep, Submit, StreamTake, GenerateTake, Leave, Cleanup,
           AddRequest, AbortRequest, requestVars
  <2> QED
    BY <1>3, <2>1
<1>5. CASE q = r /\ Submit(q)
  <2>1. /\ UNCHANGED <<collector, received>>
        /\ status[r] = "NEW" /\ status'[r] = "WAITING"
    BY <1>5, <1>t DEF Submit, AddRequest
  <2>2. Untouched(r) /\ UndeliveredTokens(r) = 0
    BY <2>1, NothingUndelivered DEF Lossless, Untouched
  <2> QED
    BY <1>1, <1>2, <2>1, <2>2 DEF Lossless, CountsTyped, Untouched, Given
<1>6. CASE q = r /\ StreamTake(q)
  <2>1. /\ collector'[r] = NoOutput
        /\ received'[r] = received[r] + collector[r].new
        /\ client[r] = "stream" /\ status'[r] = status[r]
    BY <1>6, <1>t DEF StreamTake, requestVars
  <2> QED
    BY <1>1, <1>2, <2>1, <1>t DEF Lossless, CountsTyped, Untouched, NoOutput, Given
<1>7. CASE q = r /\ GenerateTake(q)
  <2>1. /\ collector'[r] = NoOutput
        /\ received'[r] = collector[r].completion
        /\ client'[r] = "served" /\ status'[r] = status[r] /\ r \in finished
    BY <1>7, <1>t DEF GenerateTake, requestVars
  <2>2. status'[r] # "NEW"
    BY <2>1 DEF EngineInv, AnswerInv, EventsAreEnds, Finished
  <2> QED
    BY <1>1, <1>2, <2>1, <2>2 DEF Lossless, CountsTyped, NoOutput
<1>8. CASE q = r /\ Leave(q)
  <2>1. /\ UNCHANGED <<collector, received, status>> /\ client'[r] = "leaving"
    BY <1>8, <1>t DEF Leave, AbortRequest, requestVars
  <2> QED
    BY <1>1, <1>2, <2>1 DEF Lossless, CountsTyped, Untouched
<1>9. CASE q = r /\ Cleanup(q)
  <2>1. /\ collector'[r] = NoOutput /\ client'[r] = "gone"
        /\ UNCHANGED <<received, status>>
    BY <1>9, <1>t DEF Cleanup, requestVars
  <2> QED
    BY <1>1, <1>2, <2>1 DEF Lossless, CountsTyped, Untouched, NoOutput
<1> QED
  BY <1>4, <1>5, <1>6, <1>7, <1>8, <1>9 DEF ClientStep

LEMMA InitLossless ==
  ASSUME EngineInit, NEW r \in Requests
  PROVE  Lossless(r)
<1>1. OutputsFor(r) = {}
  BY DEF EngineInit, SchedulerInit, OutputsFor
<1>2. UndeliveredTokens(r) = 0
  BY <1>1, NothingUndelivered
<1> QED
  BY <1>1, <1>2 DEF EngineInit, SchedulerInit, NoOutput, Lossless, CountsTyped,
       Untouched, Given

LEMMA NextLossless ==
  ASSUME StreamInterval = 1, EngineInv, [EngineNext]_coreVars,
         NEW r \in Requests, Lossless(r)
  PROVE  Lossless(r)'
<1>1. CASE UNCHANGED coreVars
  BY <1>1 DEF coreVars, schedulerVars, engineVars, Lossless, CountsTyped,
       Untouched, UndeliveredTokens, OutputsFor, Given
<1> QED
  BY <1>1, LoopKeepsLossless, DeliverKeepsLossless, ClientKeepsLossless
     DEF EngineNext

(* At every moment the tokens of a streaming request are with the client,  *)
(* in its collector, or in the result of the step: merging, retries and    *)
(* recoveries lose none and repeat none.  A failure while a step goes      *)
(* through its responses loses the last token of a request it aborts, or   *)
(* the responses of the requests it leaves in the batch.                   *)
THEOREM StreamsLossless ==
  ASSUME StreamInterval = 1
  PROVE  EngineSafety => []StreamLossless
<1> DEFINE AllLossless == \A r \in Requests : Lossless(r)
<1>1. EngineInit => AllLossless
  BY InitLossless
<1>2. EngineInv /\ AllLossless /\ [EngineNext]_coreVars => AllLossless'
  BY NextLossless
<1>3. AllLossless => StreamLossless
  BY DEF Lossless, Given, StreamLossless
<1> QED
  BY <1>1, <1>2, <1>3, EngineInvariant, PTL DEF EngineSafety

----------------------------------------------------------------------------
(* Every step of the engine is a step of the service, or none, as long as  *)
(* no failure puts a request back in the queue (such a request starts over *)
(* and its old tokens are counted as well) or loses responses.             *)

FailuresAnswered ==
  \A site \in Sites, kind \in Kinds : <<site, kind>> \in Faults =>
    /\ kind \notin {"corruption", "stream"} /\ site # "epilogue"
    /\ site \in {"process", "cleanup"} => kind = "fatal"

NoRestart ==
  phase \notin {"reschedule", "requeue", "streamError"} /\ spoiled = {}

(* While a request runs the BatchGenerator and the request count the same  *)
(* tokens, so "length" is reported at max_tokens exactly.                  *)
TokensExact(r) ==
  /\ status[r] \in {"NEW", "WAITING"} => outputTokens[r] = 0
  /\ status[r] = "RUNNING" => /\ outputTokens[r] = emitted[r]
                              /\ outputTokens[r] < MaxTokens
  /\ outputTokens[r] <= MaxTokens
  /\ status[r] = "FINISHED_STOPPED" => outputTokens[r] > 0
  /\ status[r] = "FINISHED_LENGTH_CAPPED" => outputTokens[r] = MaxTokens

CompletionOf(finish, r) == IF finish = "error" THEN 0 ELSE outputTokens[r]

OutputsCounted ==
  \A o \in outputs : o.completion = CompletionOf(o.finish, o.id)

CollectorCounted ==
  \A r \in Requests : collector[r].finish # None =>
    collector[r].completion = CompletionOf(collector[r].finish, r)

(* The scheduler has not heard of a request that was not submitted.        *)
Unknown(r) == client[r] = "new" => status[r] = "NEW" /\ r \notin requests

Unanswered(r) == client[r] # "served" => result[r] = None

ServiceInv ==
  /\ EngineInv /\ NoRestart /\ OutputsCounted /\ CollectorCounted
  /\ \A r \in Requests :
       Lossless(r) /\ TokensExact(r) /\ Unknown(r) /\ Unanswered(r)

LEMMA InitServiceInv == EngineInit => ServiceInv
<1> SUFFICES ASSUME EngineInit PROVE ServiceInv
  OBVIOUS
<1>1. NoRestart /\ OutputsCounted /\ CollectorCounted
  BY DEF EngineInit, SchedulerInit, NoRestart, OutputsCounted, CollectorCounted,
         NoOutput
<1>2. ASSUME NEW r \in Requests
      PROVE  TokensExact(r) /\ Unknown(r) /\ Unanswered(r)
  BY SchedulerAssumption
     DEF EngineInit, SchedulerInit, TokensExact, Unknown, Unanswered
<1> QED
  BY <1>1, <1>2, InitEngineInv, InitLossless DEF ServiceInv

LEMMA RaisingRestartsNothing ==
  ASSUME SchedulerTypeOK, FailuresAnswered, NoRestart, RaisingStep
  PROVE  NoRestart'
<1>0. ASSUME NEW site, NEW kind, NEW at, Handle(site, kind, at)
      PROVE  /\ phase' \in {"return", "raised"}
             /\ site \in {"process", "cleanup"} => kind = "fatal"
  <2>1. <<site, kind>> \in Faults /\ <<site, kind>> \in Sites \X Kinds
    BY <1>0, SchedulerAssumption DEF Handle, Raise
  <2>2. /\ kind \notin {"corruption", "stream"}
        /\ site \in {"process", "cleanup"} => kind = "fatal"
    BY <2>1 DEF FailuresAnswered
  <2> QED
    BY <1>0, <2>2 DEF Handle, Escape, RecoverFromGenerationError
<1>1. CASE ScheduleRaises \/ GenerateRaises
  <2>1. /\ \E site, kind, at : Handle(site, kind, at)
        /\ spoiled' = spoiled
    BY <1>1 DEF ScheduleRaises, GenerateRaises
  <2> QED
    BY <1>0, <2>1 DEF NoRestart
<1>2. ASSUME NEW us, NEW stops, NEW before, NEW r,
             \/ ProcessRaises(us, stops, before, r)
             \/ CleanupRaises(us, stops, before)
      PROVE  NoRestart'
  <2>1. PICK kind : /\ \E site \in {"process", "cleanup"} :
                         \E at : Handle(site, kind, at)
                    /\ Spoil(kind, us)
    BY <1>2 DEF ProcessRaises, CleanupRaises
  <2>2. kind = "fatal" /\ phase' \in {"return", "raised"}
    BY <1>0, <2>1
  <2> QED
    BY <2>1, <2>2 DEF Spoil, NoRestart
<1> QED
  BY <1>1, <1>2 DEF RaisingStep

LEMMA NextNoRestart ==
  ASSUME SchedulerTypeOK, FailuresAnswered, NoRestart, [AnyStep]_schedulerVars
  PROVE  NoRestart'
<1>1. ASSUME NEW r, \/ AddRequest(r) \/ AbortRequest(r)
                    \/ RemoveFinishedRequest(r) \/ RescheduleOne(r)
                    \/ AbortBegin(r) \/ AbortRemove(r) \/ AbortRemoveRaises(r)
      PROVE  NoRestart'
  BY <1>1 DEF AddRequest, AbortRequest, RemoveFinishedRequest, RescheduleOne,
              AbortBegin, AbortRemove, AbortRemoveRaises, FinishAbort, NoRestart
<1>2. CASE BeginStep \/ AbortsDone \/ PromoteDone \/ ScheduleOne
             \/ ScheduleDone \/ RescheduleDone \/ Return
             \/ RecoverStreamThread \/ RequeueDone
  BY <1>2 DEF BeginStep, AbortsDone, BeginScheduling, PromoteDone, ScheduleOne,
              ScheduleDone, RescheduleDone, Return, RecoverStreamThread,
              RequeueDone, NoRestart
<1>3. ASSUME PromoteRaises \/ \E us, stops : Generate(us, stops)
      PROVE  NoRestart'
  <2>1. phase' = "return" /\ spoiled' = spoiled
    BY <1>3 DEF PromoteRaises, Generate, RecoverFromGenerationError
  <2> QED
    BY <2>1 DEF NoRestart
<1>4. ~EpilogueRaises
  <2>1. ASSUME NEW kind \in Kinds PROVE <<"epilogue", kind>> \notin Faults
    BY DEF FailuresAnswered, Sites
  <2> QED
    BY <2>1 DEF EpilogueRaises, Raise
<1>5. CASE UNCHANGED schedulerVars
  BY <1>5 DEF schedulerVars, NoRestart
<1> QED
  BY <1>1, <1>2, <1>3, <1>4, <1>5, RaisingRestartsNothing, StepActionCases
     DEF AnyStep, WorkerStep

LEMMA NextTokensExact ==
  ASSUME SchedulerInv, NoRestart, NEW r \in Requests, EffectOn(r), TokensExact(r)
  PROVE  TokensExact(r)'
<1>1. /\ outputTokens[r] \in Nat /\ emitted[r] \in Nat
      /\ status[r] \in Statuses /\ MaxTokens \in Nat \ {0}
      /\ r \in running => status[r] = "RUNNING"
  BY SchedulerAssumption
     DEF SchedulerInv, QueueInv, QueueExclusive, SchedulerTypeOK, NoRestart
<1>2. CASE QuietFor(r)
  <2>1. outputTokens'[r] = outputTokens[r] /\ StatusQuiet(r) /\ CountQuiet(r)
    BY <1>2 DEF QuietFor
  <2>2. CASE status'[r] = "RUNNING"
    BY <1>1, <2>1, <2>2 DEF CountQuiet, TokensExact
  <2>3. CASE status'[r] = "WAITING"
    BY <1>1, <2>1, <2>3
       DEF StatusQuiet, CountQuiet, TokensExact, NoRestart, Statuses, Finished
  <2>4. CASE status'[r] \notin {"RUNNING", "WAITING"}
    BY <1>1, <2>1, <2>4 DEF StatusQuiet, TokensExact, Statuses, Finished
  <2> QED
    BY <2>2, <2>3, <2>4
<1>3. CASE TakenFor(r)
  BY <1>3 DEF TakenFor, TokensExact
<1>4. CASE ReportedFor(r)
  <2>1. /\ status[r] = "RUNNING" /\ outputTokens[r] = emitted[r]
        /\ outputTokens[r] < MaxTokens
    BY <1>1, <1>4 DEF ReportedFor, TokensExact
  <2>2. CASE status'[r] = "FINISHED_ABORTED"
             /\ outputTokens'[r] \in {outputTokens[r], outputTokens[r] + 1}
    BY <1>1, <2>1, <2>2 DEF TokensExact
  <2>3. ASSUME NEW stops, Answered(r, stops) PROVE TokensExact(r)'
    <3>1. /\ outputTokens'[r] = outputTokens[r] + 1
          /\ emitted'[r] = emitted[r] + 1
      BY <2>3 DEF Answered
    <3>2. \/ status'[r] = "FINISHED_STOPPED"
          \/ status'[r] = "FINISHED_LENGTH_CAPPED" /\ emitted[r] + 1 >= MaxTokens
          \/ status'[r] = "RUNNING" /\ emitted[r] + 1 < MaxTokens
      BY <1>1, <2>1, <2>3 DEF Answered, Response, FinishStatus, None
    <3> QED
      BY <1>1, <2>1, <3>1, <3>2 DEF TokensExact
  <2> QED
    BY <1>4, <2>2, <2>3 DEF ReportedFor, Failed, AnsweredAndFailed
<1> QED
  BY <1>2, <1>3, <1>4 DEF EffectOn

LEMMA NextOutputsCounted ==
  ASSUME SchedulerTypeOK, SchedulerTypeOK', OutputsCounted,
         \A r \in Requests : EffectOn(r)
  PROVE  OutputsCounted'
<1> SUFFICES ASSUME NEW o \in outputs'
             PROVE  o.completion = CompletionOf(o.finish, o.id)'
  BY DEF OutputsCounted
<1>1. PICK r \in Requests : r = o.id
  BY DEF SchedulerTypeOK, Outputs
<1>2. o \in Of(r)' /\ EffectOn(r) /\ outputTokens[r] \in Nat
  BY <1>1 DEF Of, SchedulerTypeOK
<1>3. CASE QuietFor(r)
  BY <1>1, <1>2, <1>3 DEF QuietFor, Of, OutputsCounted, CompletionOf
<1>4. CASE TakenFor(r)
  BY <1>2, <1>4 DEF TakenFor
<1>5. ASSUME o = ErrorOf(r) PROVE o.completion = CompletionOf(o.finish, o.id)'
  BY <1>5 DEF ErrorOf, CompletionOf
<1>6. ASSUME NEW stops, o = Response(r, stops),
             outputTokens'[r] = outputTokens[r] + 1
      PROVE  o.completion = CompletionOf(o.finish, o.id)'
  <2>1. o.completion = outputTokens[r] + 1 /\ o.finish # "error"
    BY <1>6 DEF Response, None
  <2> QED
    BY <1>1, <1>6, <2>1 DEF CompletionOf
<1>7. CASE ReportedFor(r)
  BY <1>2, <1>5, <1>6, <1>7 DEF ReportedFor, Failed, Answered, AnsweredAndFailed
<1> QED
  BY <1>2, <1>3, <1>4, <1>7 DEF EffectOn

LEMMA NextCollectorCounted ==
  ASSUME EngineInv, spoiled = {}, OutputsCounted, CollectorCounted,
         [EngineNext]_coreVars
  PROVE  CollectorCounted'
<1> SUFFICES ASSUME NEW r \in Requests, collector'[r].finish # None
             PROVE  collector'[r].completion = CompletionOf(collector[r].finish, r)'
  BY DEF CollectorCounted
<1>t. collector = [q \in Requests |-> collector[q]]
  BY DEF EngineInv, AnswerInv, EngineFunctions
<1>1. CASE collector'[r] = collector[r]
  <2>1. status[r] \in Finished
    BY <1>1 DEF EngineInv, AnswerInv, CollectorFinal
  <2>2. outputTokens'[r] = outputTokens[r]
    BY <2>1, EngineStepsScheduler, FinishedIsElsewhere, NextKeepsFinished
       DEF EngineInv, SchedulerInv, QueueInv, RequestKept
  <2> QED
    BY <1>1, <2>2 DEF CollectorCounted, CompletionOf
<1>2. CASE collector'[r] # collector[r]
  <2>1. CASE Deliver
    <3>1. /\ r \in Delivered
          /\ collector'[r].finish = LastPut(r).finish
          /\ collector'[r].completion = LastPut(r).completion
      <4>1. r \in Delivered /\ collector'[r] = Merge(r)
        BY <1>2, <2>1, DeliveryFacts
      <4> QED
        BY <4>1 DEF Merge
    <3>2. LastPut(r) \in outputs /\ LastPut(r).id = r
      BY <3>1, LastPutExists
         DEF Delivered, EngineInv, OutputsInv, Puts, OutputsFor
    <3>3. outputTokens' = outputTokens
      BY <2>1 DEF Deliver, Return, requestVars
    <3> QED
      BY <3>1, <3>2, <3>3 DEF OutputsCounted, CompletionOf
  <2>2. ASSUME NEW q \in Requests, ClientStep(q) PROVE collector'[r] = NoOutput
    BY <1>2, <1>t, <2>2
       DEF ClientStep, Submit, StreamTake, GenerateTake, Leave, Cleanup
  <2>3. collector'[r] = NoOutput => FALSE
    BY DEF NoOutput
  <2>4. CASE EngineStep \/ StepFailed \/ SwitchThread \/ ThreadSwitched
             \/ UNCHANGED coreVars
    BY <1>2, <2>4 DEF EngineStep, StepFailed, SwitchThread, ThreadSwitched,
                      engineVars, coreVars
  <2> QED
    BY <2>1, <2>2, <2>3, <2>4 DEF EngineNext, EngineLoop
<1> QED
  BY <1>1, <1>2

LEMMA NextUnknown ==
  ASSUME EngineInv, [EngineNext]_coreVars, NEW r \in Requests,
         r \notin spoiled', Unknown(r)
  PROVE  Unknown(r)'
<1> SUFFICES ASSUME client'[r] = "new" PROVE status'[r] = "NEW" /\ r \notin requests'
  BY DEF Unknown
<1>t. /\ client \in [Requests -> Clients]
      /\ status \in [Requests -> Statuses]
  BY DEF EngineInv, AnswerInv, EngineFunctions, SchedulerInv, SchedulerTypeOK
<1>1. CASE EngineLoop
  <2>1. client[r] = "new" /\ requests' = requests
    BY <1>1, LoopKeepsRequests DEF EngineInv, SchedulerInv
  <2>2. status[r] = "NEW" /\ r \notin requests' /\ r \notin running
    BY <2>1 DEF Unknown, EngineInv, SchedulerInv, QueueInv, QueueExclusive, Finished
  <2>3. r \notin pendingAborts \cup aborting
    BY <2>1 DEF EngineInv, AnswerInv, AbortsAreOfLeavers, Left
  <2>4. EffectOn(r)
    BY EngineStepsScheduler, EveryStepsEffect
       DEF EngineInv, SchedulerInv, QueueInv, OutputsInv, StepEffect
  <2> QED
    BY <2>2, <2>3, <2>4 DEF EffectOn, QuietFor, StatusQuiet, TakenFor, ReportedFor
<1>2. ASSUME NEW q \in Requests, ClientStep(q)
      PROVE  status'[r] = "NEW" /\ r \notin requests'
  <2>1. q # r /\ client[r] = "new"
    BY <1>t, <1>2 DEF ClientStep, Submit, StreamTake, GenerateTake, Leave,
                      Cleanup, Consuming
  <2>2. /\ requests' \subseteq requests \cup {q}
        /\ status' = status \/ status' = [status EXCEPT ![q] = "WAITING"]
    BY <1>2 DEF ClientStep, Submit, StreamTake, GenerateTake, Leave, Cleanup,
                AddRequest, AbortRequest, requestVars, queueVars
  <2> QED
    BY <1>t, <2>1, <2>2 DEF Unknown
<1>3. CASE UNCHANGED coreVars
  BY <1>3 DEF coreVars, schedulerVars, engineVars, Unknown
<1> QED
  BY <1>1, <1>2, <1>3 DEF EngineNext

LEMMA NextUnanswered ==
  ASSUME EngineInv, [EngineNext]_coreVars, NEW r \in Requests, Unanswered(r)
  PROVE  Unanswered(r)'
<1>t. /\ client \in [Requests -> Clients]
      /\ result = [q \in Requests |-> result[q]]
  BY DEF EngineInv, AnswerInv, EngineFunctions
<1>1. CASE EngineLoop \/ UNCHANGED coreVars
  <2>1. UNCHANGED <<client, result>>
    BY <1>1 DEF EngineLoop, EngineStep, Deliver, StepFailed, SwitchThread,
         ThreadSwitched, engineVars, clientVars, coreVars
  <2> QED
    BY <2>1 DEF Unanswered
<1>2. ASSUME NEW q \in Requests, ClientStep(q) PROVE Unanswered(r)'
  <2>1. CASE Submit(q) \/ Leave(q) \/ Cleanup(q)
    BY <1>t, <2>1 DEF Submit, Leave, Cleanup, Consuming, Unanswered
  <2>2. CASE StreamTake(q) \/ GenerateTake(q)
    BY <1>t, <2>2 DEF StreamTake, GenerateTake, Unanswered
  <2> QED
    BY <1>2, <2>1, <2>2 DEF ClientStep
<1> QED
  BY <1>1, <1>2 DEF EngineNext

LEMMA NextServiceInv ==
  ASSUME StreamInterval = 1, FailuresAnswered, ServiceInv, [EngineNext]_coreVars
  PROVE  ServiceInv'
<1>1. /\ [AnyStep]_schedulerVars /\ SchedulerInv /\ OutputsInv
      /\ SchedulerTypeOK /\ QueueExclusive
  BY EngineStepsScheduler DEF ServiceInv, EngineInv, SchedulerInv, QueueInv
<1>2. EngineInv' /\ NoRestart' /\ CollectorCounted'
  BY <1>1, NextEngineInv, NextNoRestart, NextCollectorCounted
     DEF ServiceInv, NoRestart
<1>3. SchedulerTypeOK' /\ spoiled' = {}
  BY <1>2 DEF EngineInv, SchedulerInv, NoRestart
<1>4. \A r \in Requests : EffectOn(r)
  BY <1>1, <1>3, EveryStepsEffect DEF OutputsInv, StepEffect
<1>5. OutputsCounted'
  BY <1>1, <1>3, <1>4, NextOutputsCounted DEF ServiceInv
<1>6. ASSUME NEW r \in Requests
      PROVE  Lossless(r)' /\ TokensExact(r)' /\ Unknown(r)' /\ Unanswered(r)'
  BY <1>1, <1>3, <1>4, NextLossless, NextTokensExact, NextUnknown, NextUnanswered
     DEF ServiceInv
<1> QED
  BY <1>2, <1>5, <1>6 DEF ServiceInv

-----------------------------------------------------------------------------
(* The simulation.                                                         *)

LEMMA LoopProduces ==
  ASSUME ServiceInv, ServiceInv', EngineLoop
  PROVE  [Service!ServiceNext]_(Service!serviceVars)
<1>1. UNCHANGED <<client, received, result>>
  BY DEF EngineLoop, EngineStep, Deliver, StepFailed, SwitchThread,
         ThreadSwitched, engineVars, clientVars
<1>2. /\ SchedulerTypeOK /\ SchedulerTypeOK' /\ QueueExclusive
      /\ NothingPending /\ [AnyStep]_schedulerVars
      /\ spoiled = {} /\ spoiled' = {}
  BY EngineStepsScheduler
     DEF ServiceInv, EngineInv, SchedulerInv, QueueInv, OutputsInv, NoRestart,
         EngineNext
<1>3. \A r \in Requests : EffectOn(r)
  BY <1>2, EveryStepsEffect DEF StepEffect
<1> DEFINE answered == {r \in Requests : outputTokens'[r] # outputTokens[r]}
<1>4. ASSUME NEW r \in answered
      PROVE  r \in running /\ outputTokens'[r] = outputTokens[r] + 1
  <2>1. EffectOn(r) /\ outputTokens'[r] # outputTokens[r]
    BY <1>3
  <2> QED
    BY <2>1 DEF EffectOn, QuietFor, TakenFor, ReportedFor, Failed, Answered,
                AnsweredAndFailed
<1>5. outputTokens' = [r \in Requests |-> IF r \in answered
                                          THEN outputTokens[r] + 1
                                          ELSE outputTokens[r]]
  BY <1>2, <1>4 DEF SchedulerTypeOK
<1>6. ASSUME NEW r \in answered
      PROVE  client[r] \notin {"new", "served"} /\ outputTokens[r] < MaxTokens
  <2>1. r \in Requests /\ status[r] = "RUNNING"
    BY <1>2, <1>4 DEF QueueExclusive
  <2>2. outputTokens[r] < MaxTokens
    BY <2>1 DEF ServiceInv, TokensExact
  <2>3. client[r] # "served"
    BY <1>2, <2>1, MatchesIsEnd
       DEF ServiceInv, EngineInv, AnswerInv, ServedHonestly, Finished
  <2>4. client[r] # "new"
    BY <2>1 DEF ServiceInv, Unknown
  <2> QED
    BY <2>2, <2>3, <2>4
<1>7. answered \in SUBSET Requests
  OBVIOUS
<1> HIDE DEF answered
<1>8. Service!Produce(answered)
  BY <1>1, <1>5, <1>6 DEF Service!Produce
<1> QED
  BY <1>7, <1>8 DEF Service!ServiceNext

LEMMA ClientServed ==
  ASSUME ServiceInv, NEW r \in Requests, ClientStep(r)
  PROVE  [Service!ServiceNext]_(Service!serviceVars)
<1>t. /\ client \in [Requests -> Clients]
      /\ collector = [q \in Requests |-> collector[q]]
      /\ MaxTokens \in Nat \ {0} /\ outputTokens[r] \in Nat
      /\ outputTokens[r] <= MaxTokens /\ Lossless(r)
  BY SchedulerAssumption
     DEF ServiceInv, EngineInv, AnswerInv, EngineFunctions, SchedulerInv,
         SchedulerTypeOK, TokensExact
<1>s. r \notin spoiled
  BY DEF ServiceInv, NoRestart
<1> SUFFICES ASSUME ~UNCHANGED Service!serviceVars
             PROVE  Service!Ask(r) \/ Service!Close(r)
                      \/ \E upTo \in 1..MaxTokens : Service!Receive(r, upTo)
  BY DEF Service!ServiceNext
(* How the request of a final output ended, and what it has produced.      *)
<1>f. ASSUME collector[r].finish # None, client[r] \in Consuming
      PROVE  /\ collector[r].finish \in {"stop", "length", "error"}
             /\ collector[r].finish = "stop" => outputTokens[r] > 0
             /\ collector[r].finish = "length" => outputTokens[r] = MaxTokens
             /\ UndeliveredTokens(r) = 0
             /\ collector[r].completion = CompletionOf(collector[r].finish, r)
             /\ status[r] = "FINISHED_ABORTED" => collector[r].finish = "error"
  <2>1. Matches(collector[r].finish, r) /\ OutputsFor(r) = {}
    BY <1>f, <1>s DEF ServiceInv, EngineInv, AnswerInv, CollectorFinal, Left, Consuming
  <2>2. /\ collector[r].finish \in {"stop", "length", "error"}
        /\ collector[r].finish = "stop" => status[r] = "FINISHED_STOPPED"
        /\ collector[r].finish = "length" => status[r] = "FINISHED_LENGTH_CAPPED"
        /\ status[r] = "FINISHED_ABORTED" => collector[r].finish = "error"
    BY <2>1 DEF Matches
  <2> QED
    BY <1>f, <2>1, <2>2, NothingUndelivered
       DEF ServiceInv, CollectorCounted, TokensExact
<1>1. CASE Submit(r)
  BY <1>1 DEF Submit, AddRequest, Service!Ask, Service!Open, Consuming
<1>2. CASE Leave(r)
  BY <1>2 DEF Leave, AbortRequest, requestVars, Service!Close, Service!Quit,
              Service!Open, Consuming
<1>3. CASE Cleanup(r)
  BY <1>3 DEF Cleanup, requestVars, Service!Close, Service!Quit
<1>4. CASE StreamTake(r)
  <2>1. /\ client[r] = "stream" /\ outputTokens' = outputTokens
        /\ received' = [received EXCEPT ![r] = received[r] + collector[r].new]
        /\ result' = [result EXCEPT ![r] = collector[r].finish]
    BY <1>4 DEF StreamTake, requestVars
  <2>2. /\ received[r] \in Nat /\ collector[r].new \in Nat
        /\ UndeliveredTokens(r) \in {0, 1}
        /\ \/ Given(r) = outputTokens[r]
           \/ Given(r) = outputTokens[r] - 1 /\ status[r] = "FINISHED_ABORTED"
    BY <1>t, <1>s, <2>1 DEF Lossless, CountsTyped
  <2>3. CASE collector[r].finish # None
    <3>1. PICK n : n = received[r] + collector[r].new
      OBVIOUS
    <3>2. /\ \/ n = outputTokens[r]
             \/ n = outputTokens[r] - 1 /\ collector[r].finish = "error"
          /\ n \in Nat /\ received[r] <= n
      BY <1>t, <1>f, <2>1, <2>2, <2>3, <3>1 DEF Consuming, Given
    <3>3. n \in Service!Given(r, collector[r].finish)
      BY <2>1, <3>2 DEF Service!Given
    <3>4. client' = [client EXCEPT ![r] = "served"]
      BY <1>4, <2>3 DEF StreamTake
    <3>5. Service!Answer(r, collector[r].finish)
      BY <1>f, <2>1, <2>3, <3>1, <3>3, <3>4
         DEF Service!Answer, Service!Open, Consuming
    <3> QED
      BY <1>f, <2>1, <2>3, <3>5 DEF Service!Close, Consuming
  <2>4. CASE collector[r].finish = None
    <3>1. collector[r].new > 0 /\ client' = client
      BY <1>4, <2>4 DEF StreamTake, Pending
    <3>2. PICK n : n = received[r] + collector[r].new
      OBVIOUS
    <3>3. n \in 1..MaxTokens /\ received[r] < n /\ n <= outputTokens[r]
      BY <1>t, <2>2, <3>1, <3>2 DEF Given
    <3>4. result' = result
      <4>1. result[r] = None /\ result = [q \in Requests |-> result[q]]
        BY <2>1 DEF ServiceInv, Unanswered, EngineInv, AnswerInv, EngineFunctions
      <4> QED
        BY <2>1, <2>4, <4>1
    <3>5. Service!Receive(r, n)
      BY <2>1, <3>1, <3>2, <3>3, <3>4 DEF Service!Receive
    <3> QED
      BY <3>3, <3>5
  <2> QED
    BY <2>3, <2>4
<1>5. CASE GenerateTake(r)
  <2>1. /\ client[r] = "generate" /\ outputTokens' = outputTokens
        /\ received' = [received EXCEPT ![r] = collector[r].completion]
        /\ result' = [result EXCEPT ![r] = collector[r].finish]
        /\ client' = [client EXCEPT ![r] = "served"]
        /\ r \in finished
    BY <1>5 DEF GenerateTake, requestVars
  <2>2. collector[r].finish # None
    BY <1>s, <2>1 DEF ServiceInv, EngineInv, AnswerInv, EventIsOutput
  <2>3. collector[r].completion \in Service!Given(r, collector[r].finish)
    BY <1>f, <2>1, <2>2 DEF Service!Given, Consuming, CompletionOf
  <2>4. Service!Answer(r, collector[r].finish)
    BY <1>f, <2>1, <2>2, <2>3 DEF Service!Answer, Service!Open, Consuming
  <2> QED
    BY <1>f, <2>1, <2>2, <2>4 DEF Service!Close, Consuming
<1> QED
  BY <1>1, <1>2, <1>3, <1>4, <1>5 DEF ClientStep

(* The engine implements the service: initial states are initial states,   *)
(* and every step is a step of the service or none.                        *)
THEOREM EngineImplementsService ==
  ASSUME StreamInterval = 1, FailuresAnswered
  PROVE  EngineSafety =>
           Service!ServiceInit /\ [][Service!ServiceNext]_(Service!serviceVars)
<1>1. EngineInit => ServiceInv /\ Service!ServiceInit
  BY InitServiceInv
     DEF EngineInit, SchedulerInit, Service!ServiceInit, Service!NoResult, None
<1>2. ServiceInv /\ [EngineNext]_coreVars => ServiceInv'
  BY NextServiceInv
<1>3. ServiceInv /\ [EngineNext]_coreVars =>
        [Service!ServiceNext]_(Service!serviceVars)
  <2> SUFFICES ASSUME ServiceInv, [EngineNext]_coreVars
               PROVE  [Service!ServiceNext]_(Service!serviceVars)
    OBVIOUS
  <2>1. CASE UNCHANGED coreVars
    BY <2>1 DEF coreVars, schedulerVars, engineVars, Service!serviceVars
  <2> QED
    BY <2>1, NextServiceInv, LoopProduces, ClientServed DEF EngineNext
<1> QED
  BY <1>1, <1>2, <1>3, PTL DEF EngineSafety
=============================================================================
