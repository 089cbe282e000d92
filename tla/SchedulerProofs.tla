-------------------------- MODULE SchedulerProofs --------------------------
(***************************************************************************)
(* What holds of the scheduler for every number of requests, every bound   *)
(* and every set of faults.                                                *)
(***************************************************************************)
EXTENDS Scheduler, QueueTheorems

(* The invariants do not need the contract of the scheduler's methods:     *)
(* they hold whatever the event loop calls, and when.                      *)
AnyStep ==
  WorkerStep \/ \E r \in Requests :
                  AddRequest(r) \/ AbortRequest(r) \/ RemoveFinishedRequest(r)

LEMMA NextIsAnyStep ==
  [SchedulerNext]_schedulerVars => [AnyStep]_schedulerVars
BY DEF SchedulerNext, CallerStep, AnyStep

-----------------------------------------------------------------------------
(* Type correctness.                                                       *)

LEMMA InitTypeOK == SchedulerInit => SchedulerTypeOK
<1> SUFFICES ASSUME SchedulerInit PROVE SchedulerTypeOK
  OBVIOUS
<1>1. waiting \in Seq(Requests)
  BY DEF SchedulerInit
<1>2. requestIdToUid \in [Requests -> Nat \cup {NoUid}]
  BY DEF SchedulerInit
<1>3. status \in [Requests -> Statuses] /\ phase \in Phases
  BY DEF SchedulerInit, Statuses, Phases
<1>4. outputs \subseteq Outputs /\ uidToRequestId \subseteq Nat \X Requests
  BY DEF SchedulerInit
<1> QED
  BY <1>1, <1>2, <1>3, <1>4 DEF SchedulerInit, SchedulerTypeOK

(* The part of the type invariant that the error recovery writes.          *)
BatchTypeOK ==
  /\ generator \in Params \cup {None} /\ sequences \subseteq Nat /\ nextUid \in Nat
  /\ requestIdToUid \in [Requests -> Nat \cup {NoUid}]
  /\ uidToRequestId \subseteq Nat \X Requests
  /\ running \subseteq Requests
  /\ status \in [Requests -> Statuses] /\ phase \in Phases
  /\ outputs \subseteq Outputs

LEMMA RecoverTypeOK ==
  ASSUME NEW rs \in SUBSET Requests, NEW produced \in SUBSET Outputs,
         NEW st \in [Requests -> Statuses],
         RecoverFromGenerationError(rs, produced, st)
  PROVE  BatchTypeOK'
<1>1. ErrorOutputs(rs) \subseteq Outputs
  BY DEF ErrorOutputs, Outputs, Reasons
<1>2. outputs' \subseteq Outputs
  BY <1>1 DEF RecoverFromGenerationError
<1>3. status' \in [Requests -> Statuses]
  BY DEF RecoverFromGenerationError, Statuses, Finished
<1> QED
  BY <1>2, <1>3 DEF RecoverFromGenerationError, CloseGenerator, ClearUids, Phases,
       BatchTypeOK

(* The steps that raise inside the try of step() hand the except clauses a *)
(* state in which some running requests have finished, and some of those   *)
(* have left the batch.  If the exception is not answered by errors for    *)
(* the whole batch, that is only so for requests that are spoiled by it.   *)
RaisingStep ==
  \/ ScheduleRaises \/ GenerateRaises
  \/ \E us : \E stops, before \in SUBSET RequestsOf(us) :
       \/ \E r \in RequestsOf(us) : ProcessRaises(us, stops, before, r)
       \/ CleanupRaises(us, stops, before)

Spared(at, r) ==
  /\ at.status[r] = status[r] /\ (r \in running => r \in at.running)
  /\ outputTokens'[r] = outputTokens[r] /\ emitted'[r] = emitted[r]
  /\ \A o \in at.outputs : o.id = r => o \in outputs

Sound(kind, at) ==
  /\ at.generator \in Params \cup {None}
  /\ at.sequences \subseteq Nat /\ at.nextUid \in Nat
  /\ at.running \subseteq running
  /\ at.status \in [Requests -> Statuses]
  /\ at.outputs \subseteq Outputs
  /\ \A r \in Requests :
       \/ at.status[r] = status[r]
       \/ r \in running /\ at.status[r] \in Finished
  /\ \A r \in running : r \in at.running \/ at.status[r] \in Finished
  /\ \A o \in at.outputs : o \in outputs \/ o.id \in running
  /\ spoiled \subseteq spoiled'
  /\ kind # "fatal" => \A r \in Requests \ spoiled' : Spared(at, r)

LEMMA ResponsesTypeOK ==
  ASSUME SchedulerTypeOK, NEW us, NEW stops, NEW ended \in SUBSET Requests
  PROVE  /\ Responses(us, stops) \subseteq Outputs
         /\ FinishedIds(us, stops) \subseteq RequestsOf(us)
         /\ \A o \in Responses(us, stops) : o.id \in RequestsOf(us)
         /\ StatusAfter(ended, stops) \in [Requests -> Statuses]
         /\ \A r \in Requests :
              StatusAfter(ended, stops)[r] =
                IF r \in ended THEN FinishStatus(Response(r, stops).finish)
                               ELSE status[r]
         /\ \A r \in ended : StatusAfter(ended, stops)[r] \in Finished
         /\ RequestsOf(us) \subseteq running /\ running \subseteq Requests
<1>1. ASSUME NEW r \in Requests
      PROVE  Response(r, stops) \in Outputs
  BY <1>1 DEF Response, Outputs, Reasons, SchedulerTypeOK
<1>2. RequestsOf(us) \subseteq running
  BY DEF RequestsOf
<1>3. \A o \in Responses(us, stops) : o.id \in RequestsOf(us)
  BY DEF Responses, Response
<1>4. FinishedIds(us, stops) \subseteq RequestsOf(us)
  BY <1>3 DEF FinishedIds
<1>5. /\ StatusAfter(ended, stops) \in [Requests -> Statuses]
      /\ \A r \in ended : StatusAfter(ended, stops)[r] \in Finished
  BY DEF StatusAfter, FinishStatus, Statuses, Finished, SchedulerTypeOK
<1>6. \A r \in Requests :
        StatusAfter(ended, stops)[r] =
          IF r \in ended THEN FinishStatus(Response(r, stops).finish)
                         ELSE status[r]
  BY DEF StatusAfter
<1> QED
  BY <1>1, <1>2, <1>3, <1>4, <1>5, <1>6 DEF Responses, SchedulerTypeOK

LEMMA TokensAfter ==
  ASSUME SchedulerTypeOK, NEW us, NEW counted, AppendTokens(us, counted)
  PROVE  /\ outputTokens' \in [Requests -> Nat] /\ emitted' \in [Requests -> Nat]
         /\ \A r \in Requests :
              /\ outputTokens'[r] = IF r \in counted THEN outputTokens[r] + 1
                                                     ELSE outputTokens[r]
              /\ emitted'[r] = IF r \in RequestsOf(us) THEN emitted[r] + 1
                                                       ELSE emitted[r]
BY DEF AppendTokens, SchedulerTypeOK

(* The states in which the three kinds of steps raise.                     *)
AtProcess(us, stops, ended) ==
  [Now EXCEPT !.sequences = SequencesAfter(us, stops),
              !.status = StatusAfter(ended, stops)]
AtCleanup(us, stops, cleaned) ==
  [Now EXCEPT !.sequences = SequencesAfter(us, stops),
              !.running = running \ cleaned,
              !.status = StatusAfter(FinishedIds(us, stops), stops),
              !.outputs = Responses(us, stops)]
AtInsert(r) ==
  [Now EXCEPT !.generator = TargetGenerator(r),
              !.sequences = TargetSequences(r), !.nextUid = TargetUid(r)]
AtCreate == [Now EXCEPT !.generator = None, !.sequences = {}, !.nextUid = 0]

LEMMA NowIs ==
  /\ Now.generator = generator /\ Now.sequences = sequences
  /\ Now.nextUid = nextUid /\ Now.running = running
  /\ Now.status = status /\ Now.outputs = outputs
BY DEF Now

LEMMA AtProcessIs ==
  ASSUME NEW us, NEW stops, NEW ended
  PROVE  LET at == AtProcess(us, stops, ended)
         IN  /\ at.generator = generator /\ at.nextUid = nextUid
             /\ at.sequences = SequencesAfter(us, stops)
             /\ at.running = running /\ at.outputs = outputs
             /\ at.status = StatusAfter(ended, stops)
BY DEF AtProcess, Now

LEMMA AtCleanupIs ==
  ASSUME NEW us, NEW stops, NEW cleaned
  PROVE  LET at == AtCleanup(us, stops, cleaned)
         IN  /\ at.generator = generator /\ at.nextUid = nextUid
             /\ at.sequences = SequencesAfter(us, stops)
             /\ at.running = running \ cleaned
             /\ at.outputs = Responses(us, stops)
             /\ at.status = StatusAfter(FinishedIds(us, stops), stops)
BY DEF AtCleanup, Now

LEMMA AtInsertIs ==
  ASSUME NEW r
  PROVE  LET at == AtInsert(r)
         IN  /\ at.generator = TargetGenerator(r)
             /\ at.nextUid = TargetUid(r)
             /\ at.sequences = TargetSequences(r)
             /\ at.running = running /\ at.outputs = outputs
             /\ at.status = status
BY DEF AtInsert, Now

LEMMA AtCreateIs ==
  /\ AtCreate.generator = None /\ AtCreate.nextUid = 0
  /\ AtCreate.sequences = {}
  /\ AtCreate.running = running /\ AtCreate.outputs = outputs
  /\ AtCreate.status = status
BY DEF AtCreate, Now

(* Nothing but the BatchGenerator has changed when an insertion raises.    *)
LEMMA SoundInsertion ==
  ASSUME SchedulerTypeOK, NEW kind, NEW at,
         UNCHANGED <<outputTokens, emitted, spoiled>>,
         at.generator \in Params \cup {None}, at.sequences \subseteq Nat,
         at.nextUid \in Nat, at.running = running, at.status = status,
         at.outputs = outputs
  PROVE  Sound(kind, at)
BY DEF Sound, Spared, SchedulerTypeOK

LEMMA ScheduleRaisesSoundly ==
  ASSUME SchedulerTypeOK, ScheduleRaises
  PROVE  \E kind \in Kinds : \E at :
           /\ Sound(kind, at)
           /\ \/ NeedsGenerator(Head(waiting)) /\ at = AtCreate
                 /\ Handle("create", kind, at)
              \/ at = AtInsert(Head(waiting)) /\ Handle("insert", kind, at)
<1> DEFINE r == Head(waiting)
<1>1. r \in Requests
  BY DEF ScheduleRaises, CanSchedule, SchedulerTypeOK
<1>2. /\ TargetUid(r) \in Nat /\ TargetGenerator(r) \in Params \cup {None}
      /\ TargetSequences(r) \subseteq Nat
  BY <1>1, SchedulerAssumption
     DEF TargetUid, TargetGenerator, TargetSequences, SchedulerTypeOK
<1> HIDE DEF r
<1>3. UNCHANGED <<outputTokens, emitted, spoiled>>
  BY DEF ScheduleRaises
<1>4. PICK kind \in Kinds :
        \/ NeedsGenerator(r) /\ Handle("create", kind, AtCreate)
        \/ Handle("insert", kind, AtInsert(r))
  BY DEF ScheduleRaises, r, AtCreate, AtInsert
<1>5. Sound(kind, AtCreate)
  BY <1>3, AtCreateIs, SoundInsertion
<1>6. Sound(kind, AtInsert(r))
  BY <1>2, <1>3, AtInsertIs, SoundInsertion
<1> QED
  BY <1>4, <1>5, <1>6 DEF r

LEMMA GenerateRaisesSoundly ==
  ASSUME SchedulerTypeOK, GenerateRaises
  PROVE  \E kind \in Kinds : Sound(kind, Now) /\ Handle("next", kind, Now)
<1>1. PICK kind \in Kinds : Handle("next", kind, Now)
  BY DEF GenerateRaises
<1>2. UNCHANGED <<outputTokens, emitted, spoiled>>
  BY DEF GenerateRaises
<1>3. generator \in Params \cup {None} /\ sequences \subseteq Nat /\ nextUid \in Nat
  BY DEF SchedulerTypeOK
<1>4. Sound(kind, Now)
  BY <1>2, <1>3, NowIs, SoundInsertion
<1> QED
  BY <1>1, <1>4

LEMMA ProcessRaisesSoundly ==
  ASSUME SchedulerTypeOK, NEW us, NEW stops \in SUBSET RequestsOf(us),
         NEW before \in SUBSET RequestsOf(us), NEW r \in RequestsOf(us),
         ProcessRaises(us, stops, before, r)
  PROVE  \E kind \in Kinds : \E ended \in SUBSET RequestsOf(us) :
           LET at == AtProcess(us, stops, ended)
           IN  /\ Sound(kind, at) /\ Handle("process", kind, at)
               /\ Spoil(kind, us) /\ AppendTokens(us, before \cup {r})
<1> DEFINE done == FinishedIds(us, stops)
           counted == before \cup {r}
<1>0. AppendTokens(us, counted)
  BY DEF ProcessRaises
<1>1. PICK kind \in Kinds :
        \E ended \in {done \cap counted, (done \cap before) \cup (stops \cap {r})} :
          Handle("process", kind, AtProcess(us, stops, ended)) /\ Spoil(kind, us)
  BY DEF ProcessRaises, AtProcess
<1>2. PICK ended \in {done \cap counted, (done \cap before) \cup (stops \cap {r})} :
        Handle("process", kind, AtProcess(us, stops, ended)) /\ Spoil(kind, us)
  BY <1>1
<1>3. ended \in SUBSET RequestsOf(us) /\ ended \in SUBSET Requests
  <2>1. \A e \in {done \cap counted, (done \cap before) \cup (stops \cap {r})} :
          e \subseteq RequestsOf(us)
    OBVIOUS
  <2>2. RequestsOf(us) \subseteq Requests
    BY DEF RequestsOf, SchedulerTypeOK
  <2> HIDE DEF done, counted
  <2> QED
    BY <2>1, <2>2
<1> HIDE DEF done, counted
<1> DEFINE at == AtProcess(us, stops, ended)
<1>4. /\ at.generator = generator /\ at.nextUid = nextUid
      /\ at.sequences = SequencesAfter(us, stops)
      /\ at.running = running /\ at.outputs = outputs
      /\ at.status = StatusAfter(ended, stops)
  BY AtProcessIs
<1> HIDE DEF at
<1>5. /\ at.generator \in Params \cup {None}
      /\ at.sequences \subseteq Nat /\ at.nextUid \in Nat
      /\ at.running \subseteq running /\ at.outputs \subseteq Outputs
      /\ \A o \in at.outputs : o \in outputs \/ o.id \in running
  BY <1>4 DEF SequencesAfter, SchedulerTypeOK
<1>6. /\ at.status \in [Requests -> Statuses]
      /\ \A q \in Requests :
           \/ at.status[q] = status[q]
           \/ q \in running /\ at.status[q] \in Finished
      /\ \A q \in Requests : q \notin RequestsOf(us) => at.status[q] = status[q]
  <2>1. /\ \A q \in Requests :
             at.status[q] = IF q \in ended THEN FinishStatus(Response(q, stops).finish)
                                           ELSE status[q]
        /\ \A q \in ended : at.status[q] \in Finished
        /\ at.status \in [Requests -> Statuses]
    <3> DEFINE st == StatusAfter(ended, stops)
    <3>1. /\ \A q \in Requests :
               st[q] = IF q \in ended THEN FinishStatus(Response(q, stops).finish)
                                     ELSE status[q]
          /\ \A q \in ended : st[q] \in Finished
          /\ st \in [Requests -> Statuses]
      BY <1>3, ResponsesTypeOK
    <3>2. at.status = st
      BY <1>4
    <3> HIDE DEF st
    <3> QED
      BY <3>1, <3>2
  <2>2. RequestsOf(us) \subseteq running
    BY DEF RequestsOf
  <2> QED
    BY <1>3, <2>1, <2>2
<1>7. spoiled \subseteq spoiled'
  BY <1>2 DEF Spoil
<1>8. ASSUME kind # "fatal", NEW q \in Requests \ spoiled'
      PROVE  Spared(at, q)
  <2>1. q \notin RequestsOf(us)
    BY <1>2, <1>8 DEF Spoil
  <2>2. outputTokens'[q] = outputTokens[q] /\ emitted'[q] = emitted[q]
    BY <1>0, <2>1, TokensAfter DEF counted
  <2> QED
    BY <1>4, <1>6, <2>1, <2>2 DEF Spared
<1>9. Sound(kind, at)
  BY <1>4, <1>5, <1>6, <1>7, <1>8 DEF Sound
<1> QED
  BY <1>0, <1>2, <1>3, <1>9 DEF at, counted

LEMMA CleanupRaisesSoundly ==
  ASSUME SchedulerTypeOK, NEW us, NEW stops \in SUBSET RequestsOf(us),
         NEW cleaned, CleanupRaises(us, stops, cleaned)
  PROVE  \E kind \in Kinds :
           LET at == AtCleanup(us, stops, cleaned)
           IN  /\ Sound(kind, at) /\ Handle("cleanup", kind, at)
               /\ Spoil(kind, us) /\ AppendTokens(us, RequestsOf(us))
               /\ cleaned \subseteq FinishedIds(us, stops)
<1> DEFINE done == FinishedIds(us, stops)
           at == AtCleanup(us, stops, cleaned)
<1>0. AppendTokens(us, RequestsOf(us)) /\ cleaned \subseteq done
  BY DEF CleanupRaises
<1>1. PICK kind \in Kinds : Handle("cleanup", kind, at) /\ Spoil(kind, us)
  BY DEF CleanupRaises, AtCleanup
<1>3. done \subseteq RequestsOf(us) /\ done \in SUBSET Requests
      /\ RequestsOf(us) \subseteq running
  BY ResponsesTypeOK
<1> HIDE DEF done
<1>4. /\ at.generator = generator /\ at.nextUid = nextUid
      /\ at.sequences = SequencesAfter(us, stops)
      /\ at.running = running \ cleaned
      /\ at.outputs = Responses(us, stops)
      /\ at.status = StatusAfter(done, stops)
  BY AtCleanupIs DEF done
<1> HIDE DEF at
<1>5. /\ at.generator \in Params \cup {None}
      /\ at.sequences \subseteq Nat /\ at.nextUid \in Nat
      /\ at.running \subseteq running
  BY <1>4 DEF SequencesAfter, SchedulerTypeOK
<1>o. /\ at.outputs \subseteq Outputs
      /\ \A o \in at.outputs : o.id \in RequestsOf(us)
  BY <1>3, <1>4, ResponsesTypeOK
<1>6. /\ at.status \in [Requests -> Statuses]
      /\ \A q \in Requests :
           \/ at.status[q] = status[q]
           \/ q \in running /\ at.status[q] \in Finished
      /\ \A q \in Requests : q \notin RequestsOf(us) => at.status[q] = status[q]
      /\ \A q \in running : q \in at.running \/ at.status[q] \in Finished
  BY <1>0, <1>3, <1>4, ResponsesTypeOK
<1>7. spoiled \subseteq spoiled'
  BY <1>1 DEF Spoil
<1>8. ASSUME kind # "fatal", NEW q \in Requests \ spoiled'
      PROVE  Spared(at, q)
  <2>1. q \notin RequestsOf(us)
    BY <1>1, <1>8 DEF Spoil
  <2>2. outputTokens'[q] = outputTokens[q] /\ emitted'[q] = emitted[q]
    BY <1>0, <2>1, TokensAfter
  <2> QED
    BY <1>0, <1>3, <1>4, <1>6, <1>o, <2>1, <2>2 DEF Spared
<1>9. Sound(kind, at)
  BY <1>3, <1>4, <1>5, <1>o, <1>6, <1>7, <1>8 DEF Sound
<1> QED
  BY <1>0, <1>1, <1>9 DEF at, done

LEMMA RaisingIsSound ==
  ASSUME SchedulerTypeOK, RaisingStep
  PROVE  \E kind \in Kinds : \E site, at : Handle(site, kind, at) /\ Sound(kind, at)
<1>1. CASE ScheduleRaises
  BY <1>1, ScheduleRaisesSoundly
<1>2. CASE GenerateRaises
  BY <1>2, GenerateRaisesSoundly
<1>3. ASSUME NEW us, NEW stops \in SUBSET RequestsOf(us),
             NEW before \in SUBSET RequestsOf(us), NEW r \in RequestsOf(us),
             ProcessRaises(us, stops, before, r)
      PROVE  \E kind \in Kinds : \E site, at :
               Handle(site, kind, at) /\ Sound(kind, at)
  <2>1. PICK kind \in Kinds, ended \in SUBSET RequestsOf(us) :
          /\ Sound(kind, AtProcess(us, stops, ended))
          /\ Handle("process", kind, AtProcess(us, stops, ended))
    BY <1>3, ProcessRaisesSoundly
  <2> QED
    BY <2>1
<1>4. ASSUME NEW us, NEW stops \in SUBSET RequestsOf(us), NEW cleaned,
             CleanupRaises(us, stops, cleaned)
      PROVE  \E kind \in Kinds : \E site, at :
               Handle(site, kind, at) /\ Sound(kind, at)
  <2>1. PICK kind \in Kinds :
          /\ Sound(kind, AtCleanup(us, stops, cleaned))
          /\ Handle("cleanup", kind, AtCleanup(us, stops, cleaned))
    BY <1>4, CleanupRaisesSoundly
  <2> QED
    BY <2>1
<1> QED
  BY <1>1, <1>2, <1>3, <1>4 DEF RaisingStep

(* What the except clauses leave.                                          *)
LEMMA HandleOutcome ==
  ASSUME NEW site, NEW kind, NEW at, Handle(site, kind, at)
  PROVE  /\ UNCHANGED <<requests, pendingAborts, aborted, missed, attempt,
                        aborting, mutated>>
         /\ faults' = faults + 1
         /\ \/ /\ kind = "fatal"
               /\ RecoverFromGenerationError(at.running, at.outputs, at.status)
            \/ /\ kind # "fatal" /\ RecoverFromCacheError
               /\ phase' = "reschedule" /\ running' = at.running
               /\ status' = at.status /\ outputs' = at.outputs
            \/ /\ kind # "fatal" /\ phase' \in {"raised", "streamError"}
               /\ phase' = "streamError" => kind = "stream"
               /\ generator' = at.generator /\ sequences' = at.sequences
               /\ nextUid' = at.nextUid /\ running' = at.running
               /\ status' = at.status /\ outputs' = {}
               /\ ForgetUids(running \ at.running)
BY DEF Handle, Raise, Escape

LEMMA HandleTypeOK ==
  ASSUME SchedulerTypeOK, NEW site, NEW kind, NEW at, Handle(site, kind, at),
         Sound(kind, at)
  PROVE  BatchTypeOK'
<1>1. CASE RecoverFromGenerationError(at.running, at.outputs, at.status)
  <2>1. at.running \in SUBSET Requests /\ at.outputs \in SUBSET Outputs
        /\ at.status \in [Requests -> Statuses]
    BY DEF Sound, SchedulerTypeOK
  <2> QED
    BY <1>1, <2>1, RecoverTypeOK
<1>2. CASE RecoverFromCacheError /\ phase' = "reschedule" /\ running' = at.running
           /\ status' = at.status /\ outputs' = at.outputs
  BY <1>2 DEF RecoverFromCacheError, CloseGenerator, ClearUids, BatchTypeOK,
       SchedulerTypeOK, Phases, Sound
<1>3. CASE /\ phase' \in {"raised", "streamError"}
           /\ generator' = at.generator /\ sequences' = at.sequences
           /\ nextUid' = at.nextUid /\ running' = at.running
           /\ status' = at.status /\ outputs' = {}
           /\ ForgetUids(running \ at.running)
  BY <1>3 DEF BatchTypeOK, SchedulerTypeOK, Phases, ForgetUids, Sound
<1> QED
  BY <1>1, <1>2, <1>3, HandleOutcome

(* What a raising step leaves in the queue and in the counts.              *)
LEMMA RaisingTypeOK ==
  ASSUME SchedulerTypeOK, RaisingStep
  PROVE  /\ waiting' \in Seq(Requests)
         /\ outputTokens' \in [Requests -> Nat] /\ emitted' \in [Requests -> Nat]
         /\ spoiled' \subseteq Requests
<1>1. CASE ScheduleRaises
  BY <1>1 DEF ScheduleRaises, CanSchedule, SchedulerTypeOK
<1>2. CASE GenerateRaises
  BY <1>2 DEF GenerateRaises, SchedulerTypeOK
<1>3. ASSUME NEW us, NEW counted, NEW kind, AppendTokens(us, counted),
             Spoil(kind, us), waiting' = waiting
      PROVE  /\ waiting' \in Seq(Requests)
             /\ outputTokens' \in [Requests -> Nat] /\ emitted' \in [Requests -> Nat]
             /\ spoiled' \subseteq Requests
  BY <1>3, TokensAfter DEF Spoil, RequestsOf, SchedulerTypeOK
<1>4. ASSUME NEW us, NEW stops, NEW before, NEW r,
             \/ ProcessRaises(us, stops, before, r)
             \/ CleanupRaises(us, stops, before)
      PROVE  \E counted, kind :
               AppendTokens(us, counted) /\ Spoil(kind, us) /\ waiting' = waiting
  BY <1>4 DEF ProcessRaises, CleanupRaises
<1> QED
  BY <1>1, <1>2, <1>3, <1>4 DEF RaisingStep

LEMMA StepActionCases ==
  StepAction =>
    \/ BeginStep
    \/ \E r \in Requests : AbortBegin(r) \/ AbortRemove(r) \/ AbortRemoveRaises(r)
    \/ AbortsDone
    \/ PromoteDone \/ PromoteRaises
    \/ ScheduleOne \/ ScheduleDone
    \/ \E us : \E stops \in SUBSET RequestsOf(us) : Generate(us, stops)
    \/ RaisingStep
    \/ EpilogueRaises
    \/ \E r \in Requests : RescheduleOne(r)
    \/ RescheduleDone
BY DEF StepAction, RaisingStep

LEMMA NextTypeOK == SchedulerTypeOK /\ [AnyStep]_schedulerVars => SchedulerTypeOK'
<1> SUFFICES ASSUME SchedulerTypeOK, [AnyStep]_schedulerVars
             PROVE  SchedulerTypeOK'
  OBVIOUS
<1> USE SchedulerAssumption
<1>1. ASSUME NEW r \in Requests, AddRequest(r) PROVE SchedulerTypeOK'
  BY <1>1 DEF AddRequest, SchedulerTypeOK, Statuses, uidVars, generatorVars
<1>2. ASSUME NEW r \in Requests, AbortRequest(r) PROVE SchedulerTypeOK'
  BY <1>2 DEF AbortRequest, SchedulerTypeOK, queueVars, uidVars, requestVars,
       generatorVars, stepVars
<1>3. ASSUME NEW r \in Requests, RemoveFinishedRequest(r) PROVE SchedulerTypeOK'
  BY <1>3 DEF RemoveFinishedRequest, SchedulerTypeOK, uidVars, requestVars,
       generatorVars, stepVars
<1>4. CASE BeginStep
  BY <1>4 DEF BeginStep, SchedulerTypeOK, Phases, queueVars, uidVars,
       requestVars, generatorVars, stepVars
<1>5. ASSUME NEW r \in Requests, NEW known, FinishAbort(r, known),
             waiting' \in Seq(Requests),
             pendingAborts' \subseteq Requests, phase' \in Phases,
             aborting' \subseteq Requests, mutated' \in BOOLEAN,
             missed' \subseteq Requests
      PROVE  SchedulerTypeOK'
  BY <1>5 DEF FinishAbort, ForgetUids, SchedulerTypeOK, Statuses, Finished
<1>6. ASSUME NEW r \in Requests, AbortBegin(r) PROVE SchedulerTypeOK'
  <2>1. CASE UNCHANGED queueVars
    BY <1>6, <2>1, <1>5 DEF AbortBegin, SchedulerTypeOK, Phases, queueVars,
         uidVars, requestVars, generatorVars
  <2>2. CASE /\ FinishAbort(r, r \in requests)
            /\ UNCHANGED <<waiting, phase, aborting, mutated>>
    BY <1>6, <2>2, <1>5 DEF AbortBegin, SchedulerTypeOK
  <2> QED
    BY <1>6, <2>1, <2>2 DEF AbortBegin
<1>7. ASSUME NEW r \in Requests, AbortRemove(r) PROVE SchedulerTypeOK'
  <2>1. waiting' \in Seq(Requests)
    <3>1. CASE r \notin Queued /\ UNCHANGED waiting
      BY <3>1 DEF SchedulerTypeOK
    <3>2. ASSUME NEW i \in DOMAIN waiting, waiting' = RemoveAt(waiting, i)
          PROVE  waiting' \in Seq(Requests)
      BY <3>2, RemoveAtType DEF SchedulerTypeOK
    <3> QED
      BY <1>7, <3>1, <3>2 DEF AbortRemove, TakeOffQueue
  <2> QED
    BY <1>7, <2>1, <1>5 DEF AbortRemove, SchedulerTypeOK, Phases
<1>8. ASSUME NEW r \in Requests, AbortRemoveRaises(r) PROVE SchedulerTypeOK'
  BY <1>8 DEF AbortRemoveRaises, SchedulerTypeOK, Phases, queueVars, uidVars,
       requestVars, generatorVars
<1>9. CASE AbortsDone
  BY <1>9 DEF AbortsDone, BeginScheduling, SchedulerTypeOK, Phases, queueVars,
       uidVars, requestVars, generatorVars
<1>10. CASE PromoteDone
  BY <1>10 DEF PromoteDone, SchedulerTypeOK, Phases, queueVars, uidVars,
       requestVars, generatorVars
<1>11. CASE PromoteRaises
  <2>1. BatchTypeOK'
    BY <1>11, RecoverTypeOK DEF PromoteRaises, SchedulerTypeOK
  <2> QED
    BY <1>11, <2>1 DEF PromoteRaises, BatchTypeOK, SchedulerTypeOK
<1>12. CASE ScheduleOne
  <2> DEFINE r == Head(waiting)
  <2>1. r \in Requests /\ Tail(waiting) \in Seq(Requests)
    BY <1>12 DEF ScheduleOne, CanSchedule, SchedulerTypeOK
  <2>2. TargetUid(r) \in Nat /\ TargetGenerator(r) \in Params \cup {None}
        /\ TargetSequences(r) \subseteq Nat
    BY <2>1 DEF TargetUid, TargetGenerator, TargetSequences, SchedulerTypeOK
  <2> HIDE DEF r
  <2> QED
    BY <1>12, <2>1, <2>2 DEF ScheduleOne, r, SchedulerTypeOK, Statuses, stepVars
<1>13. CASE RaisingStep
  <2>k. PICK kind \in Kinds :
          \E site, at : Handle(site, kind, at) /\ Sound(kind, at)
    BY <1>13, RaisingIsSound
  <2>1. PICK site, at : Handle(site, kind, at) /\ Sound(kind, at)
    BY <2>k
  <2>2. BatchTypeOK'
    BY <2>1, HandleTypeOK
  <2>3. /\ waiting' \in Seq(Requests)
        /\ outputTokens' \in [Requests -> Nat] /\ emitted' \in [Requests -> Nat]
        /\ spoiled' \subseteq Requests
    BY <1>13, RaisingTypeOK
  <2>4. /\ UNCHANGED <<requests, pendingAborts, aborted, missed, attempt,
                       aborting, mutated>>
        /\ faults' = faults + 1
    BY <2>1, HandleOutcome
  <2> QED
    BY <2>2, <2>3, <2>4 DEF BatchTypeOK, SchedulerTypeOK
<1>14. CASE ScheduleDone
  BY <1>14 DEF ScheduleDone, SchedulerTypeOK, Phases, queueVars, uidVars,
       requestVars, generatorVars, stepVars
<1>15. ASSUME NEW us, NEW stops, Generate(us, stops) PROVE SchedulerTypeOK'
  <2>1. /\ outputTokens' \in [Requests -> Nat] /\ emitted' \in [Requests -> Nat]
        /\ requestIdToUid' \in [Requests -> Nat \cup {NoUid}]
    BY <1>15, TokensAfter DEF Generate, ForgetUids, SchedulerTypeOK
  <2>2. /\ running' \subseteq Requests /\ sequences' \subseteq Nat
        /\ uidToRequestId' \subseteq Nat \X Requests
    BY <1>15 DEF Generate, ForgetUids, SequencesAfter, SchedulerTypeOK
  <2>3. FinishedIds(us, stops) \in SUBSET Requests
    <3>1. {} \in SUBSET Requests
      OBVIOUS
    <3> QED
      BY <3>1, ResponsesTypeOK
  <2>4. outputs' \subseteq Outputs /\ status' \in [Requests -> Statuses]
    BY <1>15, <2>3, ResponsesTypeOK DEF Generate, SchedulerTypeOK
  <2> QED
    BY <1>15, <2>1, <2>2, <2>4 DEF Generate, SchedulerTypeOK, Phases
<1>17. CASE EpilogueRaises
  <2>1. phase' \in Phases /\ outputs' \subseteq Outputs
    BY <1>17 DEF EpilogueRaises, Escape, Phases
  <2>2. spoiled' \subseteq Requests /\ faults' \in Nat
    BY <1>17 DEF EpilogueRaises, Raise, SchedulerTypeOK, Outputs
  <2> QED
    BY <1>17, <2>1, <2>2 DEF EpilogueRaises, SchedulerTypeOK, queueVars, uidVars,
         requestVars, generatorVars
<1>18. ASSUME NEW r \in Requests, RescheduleOne(r) PROVE SchedulerTypeOK'
  BY <1>18 DEF RescheduleOne, SchedulerTypeOK, Statuses, uidVars,
       generatorVars, stepVars
<1>19. CASE RescheduleDone
  <2>1. attempt' \in Nat
    BY <1>19 DEF RescheduleDone, SchedulerTypeOK
  <2> QED
    BY <1>19, <2>1 DEF RescheduleDone, BeginScheduling, SchedulerTypeOK, Phases,
         queueVars, uidVars, requestVars, generatorVars
<1>20. CASE Return \/ RequeueDone
  <2>1. outputs' \subseteq Outputs /\ attempt' \in Nat
    BY <1>20 DEF Return, RequeueDone, EndStep
  <2>2. CASE Return
    BY <2>1, <2>2 DEF Return, SchedulerTypeOK, Phases, queueVars, uidVars,
         requestVars, generatorVars
  <2>3. CASE RequeueDone
    BY <2>1, <2>3 DEF RequeueDone, SchedulerTypeOK, Phases, queueVars, uidVars,
         requestVars, generatorVars
  <2> QED
    BY <1>20, <2>2, <2>3
<1>21. CASE RecoverStreamThread
  BY <1>21 DEF RecoverStreamThread, RecoverFromCacheError, CloseGenerator,
       ClearUids, SchedulerTypeOK, Phases, queueVars, requestVars, stepVars
<1>22. CASE UNCHANGED schedulerVars
  BY <1>22 DEF schedulerVars, SchedulerTypeOK
<1> QED
  BY <1>1, <1>2, <1>3, <1>4, <1>6, <1>7, <1>8, <1>9, <1>10, <1>11, <1>12,
     <1>13, <1>14, <1>15, <1>17, <1>18, <1>19, <1>20, <1>21, <1>22,
     StepActionCases DEF AnyStep, WorkerStep

(* Every variable of the scheduler keeps its type.                         *)
THEOREM TypeCorrect == SchedulerSafety => []SchedulerTypeOK
BY InitTypeOK, NextTypeOK, NextIsAnyStep, PTL DEF SchedulerSafety

-----------------------------------------------------------------------------
(* The uid maps.  They stay exact because a uid is only handed out when no *)
(* running request has it, which is where UidsFresh is needed: the counter *)
(* restarts with every BatchGenerator.                                     *)

UidsFresh == \A r \in running : requestIdToUid[r] < nextUid

UidInv == UidMapsExact /\ UidsFresh

batchVars == <<running, requestIdToUid, uidToRequestId, generator, sequences,
               nextUid>>

LEMMA InitUidInv == SchedulerInit => UidInv
BY DEF SchedulerInit, UidInv, UidMapsExact, UidsFresh, Requeuing, NoUid

(* What has been lost stays lost.                                          *)
LEMMA SpoiledGrows ==
  ASSUME SchedulerTypeOK, [AnyStep]_schedulerVars
  PROVE  spoiled \subseteq spoiled'
<1>1. CASE RaisingStep
  BY <1>1, RaisingIsSound DEF Sound
<1>2. CASE EpilogueRaises
  BY <1>2 DEF EpilogueRaises
<1> QED
  BY <1>1, <1>2, StepActionCases
     DEF AnyStep, WorkerStep, AddRequest, AbortRequest, RemoveFinishedRequest,
         BeginStep, AbortBegin, AbortRemove, AbortRemoveRaises, FinishAbort,
         AbortsDone, PromoteDone, PromoteRaises, ScheduleOne, ScheduleDone,
         Generate, RescheduleOne, RescheduleDone, Return, RecoverStreamThread,
         RequeueDone, schedulerVars

(* Most steps touch neither the batch nor the maps.                        *)
LEMMA UidInvKept ==
  ASSUME UidInv, UNCHANGED batchVars, Requeuing' <=> Requeuing,
         spoiled \subseteq spoiled'
  PROVE  UidInv'
BY DEF UidInv, UidMapsExact, UidsFresh, batchVars

(* A closed BatchGenerator leaves nothing behind.                          *)
LEMMA UidInvCleared ==
  ASSUME CloseGenerator, ClearUids, Requeuing' \/ running' = {},
         running' \subseteq Requests
  PROVE  UidInv'
BY DEF CloseGenerator, ClearUids, UidInv, UidMapsExact, UidsFresh, NoUid

(* Requests leave the batch, and their uids and sequences with them.       *)
LEMMA UidInvForget ==
  ASSUME SchedulerTypeOK, UidInv, ~Requeuing, ~Requeuing',
         NEW rs \in SUBSET Requests, ForgetUids(rs), running' = running \ rs,
         sequences' \subseteq sequences,
         \A r \in rs : requestIdToUid[r] \notin sequences',
         \A r \in running' \ spoiled' :
           requestIdToUid[r] \in sequences',
         running' # {} => generator' # None,
         \A r \in running' : requestIdToUid[r] < nextUid'
  PROVE  UidInv'
<1>1. /\ \A q \in Requests : q \in running <=> requestIdToUid[q] # NoUid
      /\ uidToRequestId = {<<requestIdToUid[q], q>> : q \in running}
      /\ sequences \subseteq {requestIdToUid[q] : q \in running}
      /\ \A q, p \in running : requestIdToUid[q] = requestIdToUid[p] => q = p
  BY DEF UidInv, UidMapsExact
<1>2. /\ \A q \in Requests :
           requestIdToUid'[q] = IF q \in rs THEN NoUid ELSE requestIdToUid[q]
      /\ uidToRequestId' =
           {p \in uidToRequestId : \A r \in rs : p[1] # requestIdToUid[r]}
  BY DEF ForgetUids
<1>3. running \subseteq Requests
  BY DEF SchedulerTypeOK
<1>4. \A q \in Requests : q \in running' <=> requestIdToUid'[q] # NoUid
  BY <1>1, <1>2, <1>3
<1>5. \A q \in running' :
        /\ requestIdToUid'[q] = requestIdToUid[q]
        /\ \A r \in rs : requestIdToUid[q] # requestIdToUid[r]
  BY <1>1, <1>2, <1>3
<1>6. uidToRequestId' = {<<requestIdToUid'[q], q>> : q \in running'}
  <2>1. ASSUME NEW p \in uidToRequestId'
        PROVE  p \in {<<requestIdToUid'[q], q>> : q \in running'}
    BY <2>1, <1>1, <1>2, <1>5
  <2>2. ASSUME NEW q \in running'
        PROVE  <<requestIdToUid'[q], q>> \in uidToRequestId'
    BY <2>2, <1>1, <1>2, <1>5
  <2> QED
    BY <2>1, <2>2
<1>7. sequences' \subseteq {requestIdToUid'[q] : q \in running'}
  <2> SUFFICES ASSUME NEW u \in sequences'
               PROVE  \E q \in running' : u = requestIdToUid'[q]
    OBVIOUS
  <2>1. PICK q \in running : u = requestIdToUid[q]
    BY <1>1
  <2>2. q \in running'
    BY <2>1
  <2> QED
    BY <2>1, <2>2, <1>5
<1>8. \A q, p \in running' : requestIdToUid'[q] = requestIdToUid'[p] => q = p
  BY <1>1, <1>2, <1>5
<1>9. /\ \A q \in running' \ spoiled' : requestIdToUid'[q] \in sequences'
      /\ \A q \in running' : requestIdToUid'[q] < nextUid'
  BY <1>5
<1> QED
  BY <1>4, <1>6, <1>7, <1>8, <1>9 DEF UidInv, UidMapsExact, UidsFresh

LEMMA UidInvFinishAbort ==
  ASSUME SchedulerTypeOK, UidInv, NEW r \in Requests, NEW known,
         FinishAbort(r, known), spoiled \subseteq spoiled',
         ~Requeuing, ~Requeuing'
  PROVE  UidInv'
<1>1. /\ running' = running \ {r} /\ ForgetUids({r})
      /\ sequences' = sequences \ {requestIdToUid[r]}
      /\ generator' = generator /\ nextUid' = nextUid
  BY DEF FinishAbort
<1>2. \A q \in running' \ spoiled' : requestIdToUid[q] \in sequences'
  <2> SUFFICES ASSUME NEW q \in running' \ spoiled'
               PROVE  requestIdToUid[q] \in sequences'
    OBVIOUS
  <2>1. q \in running /\ q # r /\ q \in Requests
    BY <1>1 DEF SchedulerTypeOK
  <2>2. requestIdToUid[q] \in sequences
    BY <2>1 DEF UidInv, UidMapsExact
  <2>3. requestIdToUid[q] # requestIdToUid[r]
    BY <2>1 DEF UidInv, UidMapsExact
  <2> QED
    BY <1>1, <2>2, <2>3
<1>3. running' # {} => generator' # None
  BY <1>1 DEF UidInv, UidMapsExact
<1>4. \A q \in running' : requestIdToUid[q] < nextUid'
  BY <1>1 DEF UidInv, UidsFresh
<1>5. /\ \A q \in {r} : requestIdToUid[q] \notin sequences'
      /\ sequences' \subseteq sequences /\ {r} \in SUBSET Requests
  BY <1>1
<1> QED
  BY <1>1, <1>2, <1>3, <1>4, <1>5, UidInvForget

(* The sequences that are left when the finished ones are dropped.         *)
LEMMA SequencesLeft ==
  ASSUME SchedulerTypeOK, UidInv, ~Requeuing, NEW us, NEW stops,
         NEW left \in SUBSET FinishedIds(us, stops)
  PROVE  /\ SequencesAfter(us, stops) \subseteq sequences
         /\ \A r \in left : requestIdToUid[r] \notin SequencesAfter(us, stops)
         /\ \A r \in running \ FinishedIds(us, stops) :
              requestIdToUid[r] \in sequences =>
                requestIdToUid[r] \in SequencesAfter(us, stops)
<1>1. FinishedIds(us, stops) \subseteq running
  <2>1. {} \in SUBSET Requests
    OBVIOUS
  <2> QED
    BY <2>1, ResponsesTypeOK
<1>2. \A q, p \in running : requestIdToUid[q] = requestIdToUid[p] => q = p
  BY DEF UidInv, UidMapsExact
<1> QED
  BY <1>1, <1>2 DEF SequencesAfter

LEMMA UidInvGenerate ==
  ASSUME SchedulerTypeOK, UidInv, NEW us, NEW stops, Generate(us, stops)
  PROVE  UidInv'
<1> DEFINE done == FinishedIds(us, stops)
<1>0. ~Requeuing /\ ~Requeuing'
  BY DEF Generate, Requeuing
<1>1. done \in SUBSET Requests
  <2>1. {} \in SUBSET Requests
    OBVIOUS
  <2> QED
    BY <2>1, ResponsesTypeOK
<1>2. /\ running' = running \ done /\ ForgetUids(done)
      /\ sequences' = SequencesAfter(us, stops)
      /\ generator' = generator /\ nextUid' = nextUid /\ spoiled' = spoiled
  BY DEF Generate
<1>3. /\ sequences' \subseteq sequences
      /\ \A r \in done : requestIdToUid[r] \notin sequences'
      /\ \A r \in running \ done :
           requestIdToUid[r] \in sequences => requestIdToUid[r] \in sequences'
  BY <1>0, <1>2, SequencesLeft
<1> HIDE DEF done
<1>4. \A r \in running' \ spoiled' : requestIdToUid[r] \in sequences'
  BY <1>0, <1>2, <1>3 DEF UidInv, UidMapsExact
<1>5. /\ running' # {} => generator' # None
      /\ \A r \in running' : requestIdToUid[r] < nextUid'
  BY <1>0, <1>2 DEF UidInv, UidMapsExact, UidsFresh
<1> QED
  BY <1>0, <1>1, <1>2, <1>3, <1>4, <1>5, UidInvForget

(* The BatchGenerator a request is inserted into has no sequence with the  *)
(* uid it hands out.                                                       *)
LEMMA TargetFresh ==
  ASSUME SchedulerTypeOK, UidInv, ~Requeuing, NEW r \in Requests
  PROVE  /\ TargetSequences(r) = sequences
         /\ TargetUid(r) \in Nat
         /\ \A q \in running : requestIdToUid[q] < TargetUid(r)
         /\ TargetGenerator(r) # None
<1>1. NeedsGenerator(r) => sequences = {} /\ running = {}
  BY DEF NeedsGenerator, UidInv, UidMapsExact
<1> QED
  BY <1>1, SchedulerAssumption
     DEF TargetSequences, TargetUid, TargetGenerator, NeedsGenerator, UidInv,
         UidsFresh, SchedulerTypeOK

LEMMA UidInvScheduleOne ==
  ASSUME SchedulerTypeOK, UidInv, QueueExclusive, ScheduleOne
  PROVE  UidInv'
<1> DEFINE r == Head(waiting)
           uid == TargetUid(r)
<1>0. ~Requeuing /\ ~Requeuing' /\ r \in Requests /\ running \subseteq Requests
  BY DEF ScheduleOne, CanSchedule, Requeuing, SchedulerTypeOK, stepVars
<1>1. /\ \A q \in Requests : q \in running <=> requestIdToUid[q] # NoUid
      /\ uidToRequestId = {<<requestIdToUid[q], q>> : q \in running}
      /\ sequences \subseteq {requestIdToUid[q] : q \in running}
      /\ \A q \in running \ spoiled : requestIdToUid[q] \in sequences
      /\ \A q, p \in running : requestIdToUid[q] = requestIdToUid[p] => q = p
  BY <1>0 DEF UidInv, UidMapsExact
<1>2. /\ TargetSequences(r) = sequences /\ uid \in Nat
      /\ \A q \in running : requestIdToUid[q] < uid
      /\ TargetGenerator(r) # None
  BY <1>0, TargetFresh
<1>3. /\ generator' = TargetGenerator(r)
      /\ sequences' = sequences \cup {uid}
      /\ nextUid' = uid + 1 /\ spoiled' = spoiled
      /\ \A q \in Requests :
           requestIdToUid'[q] = IF q = r THEN uid ELSE requestIdToUid[q]
      /\ uidToRequestId' =
           {p \in uidToRequestId : p[1] # uid} \cup {<<uid, r>>}
      /\ running' = running \cup {r}
  BY <1>0, <1>2 DEF ScheduleOne, SchedulerTypeOK
<1>4. r \notin running
  <2>1. r = waiting[1] /\ 1 \in DOMAIN waiting
    BY DEF ScheduleOne, CanSchedule, SchedulerTypeOK
  <2> QED
    BY <2>1 DEF QueueExclusive, Finished
<1> HIDE DEF r, uid
<1>5. \A q \in running : requestIdToUid[q] \in Nat /\ requestIdToUid[q] # uid
  <2> SUFFICES ASSUME NEW q \in running
               PROVE  requestIdToUid[q] \in Nat /\ requestIdToUid[q] # uid
    OBVIOUS
  <2>1. requestIdToUid[q] \in Nat
    BY <1>0, <1>1 DEF SchedulerTypeOK
  <2> QED
    BY <1>2, <2>1
<1>6. \A q \in Requests : q \in running' <=> requestIdToUid'[q] # NoUid
  BY <1>0, <1>1, <1>2, <1>3 DEF NoUid
<1>7. uidToRequestId' = uidToRequestId \cup {<<uid, r>>}
  <2>1. \A p \in uidToRequestId : p[1] # uid
    BY <1>1, <1>5
  <2> QED
    BY <1>3, <2>1
<1>8. uidToRequestId' = {<<requestIdToUid'[q], q>> : q \in running'}
  BY <1>0, <1>1, <1>3, <1>4, <1>7
<1>9. /\ sequences' \subseteq {requestIdToUid'[q] : q \in running'}
      /\ \A q \in running' \ spoiled' : requestIdToUid'[q] \in sequences'
  BY <1>0, <1>1, <1>3, <1>4
<1>10. \A q, p \in running' : requestIdToUid'[q] = requestIdToUid'[p] => q = p
  BY <1>0, <1>1, <1>3, <1>4, <1>5
<1>11. UidsFresh'
  <2> SUFFICES ASSUME NEW q \in running' PROVE requestIdToUid'[q] < nextUid'
    BY DEF UidsFresh
  <2>1. CASE q = r
    BY <1>0, <1>2, <1>3, <2>1
  <2>2. CASE q # r
    BY <1>0, <1>2, <1>3, <1>5, <2>2
  <2> QED
    BY <2>1, <2>2
<1> QED
  BY <1>0, <1>2, <1>3, <1>6, <1>8, <1>9, <1>10, <1>11 DEF UidInv, UidMapsExact

(* The state in which something raises has the sequences and the uids of   *)
(* the requests that are still in the batch.                               *)
Fits(at) ==
  /\ at.sequences \subseteq sequences
  /\ \A r \in running \ at.running : requestIdToUid[r] \notin at.sequences
  /\ \A r \in at.running \ spoiled' : requestIdToUid[r] \in at.sequences
  /\ at.running # {} => at.generator # None
  /\ \A r \in at.running : requestIdToUid[r] < at.nextUid

LEMMA UidInvHandle ==
  ASSUME SchedulerTypeOK, UidInv, ~Requeuing, NEW site, NEW kind, NEW at,
         Handle(site, kind, at), at.running \subseteq running,
         kind = "fatal" \/ Fits(at)
  PROVE  UidInv'
<1>1. CASE RecoverFromGenerationError(at.running, at.outputs, at.status)
  BY <1>1, UidInvCleared DEF RecoverFromGenerationError
<1>2. CASE RecoverFromCacheError /\ phase' = "reschedule" /\ running' = at.running
  BY <1>2, UidInvCleared DEF RecoverFromCacheError, Requeuing, SchedulerTypeOK
<1>3. CASE /\ kind # "fatal" /\ phase' \in {"raised", "streamError"}
           /\ generator' = at.generator /\ sequences' = at.sequences
           /\ nextUid' = at.nextUid /\ running' = at.running
           /\ ForgetUids(running \ at.running)
  <2> DEFINE rs == running \ at.running
  <2>1. rs \in SUBSET Requests /\ running' = running \ rs
    BY <1>3 DEF SchedulerTypeOK
  <2>2. Fits(at) /\ ~Requeuing'
    BY <1>3 DEF Requeuing
  <2> HIDE DEF rs
  <2>3. \A r \in rs : requestIdToUid[r] \notin sequences'
    BY <1>3, <2>2 DEF Fits, rs
  <2>4. /\ sequences' \subseteq sequences
        /\ \A r \in running' \ spoiled' : requestIdToUid[r] \in sequences'
        /\ running' # {} => generator' # None
        /\ \A r \in running' : requestIdToUid[r] < nextUid'
    BY <1>3, <2>2 DEF Fits
  <2>5. ForgetUids(rs)
    BY <1>3 DEF rs
  <2> QED
    BY <2>1, <2>2, <2>3, <2>4, <2>5, UidInvForget
<1> QED
  BY <1>1, <1>2, <1>3, HandleOutcome

LEMMA UidInvRaising ==
  ASSUME SchedulerTypeOK, UidInv, RaisingStep
  PROVE  UidInv'
<1>0. ~Requeuing
  <2>1. ScheduleRaises => ~Requeuing
    BY DEF ScheduleRaises, Requeuing
  <2>2. GenerateRaises => ~Requeuing
    BY DEF GenerateRaises, Requeuing
  <2>3. \A us, stops, before, r :
          ProcessRaises(us, stops, before, r) => ~Requeuing
    BY DEF ProcessRaises, Requeuing
  <2>4. \A us, stops, cleaned : CleanupRaises(us, stops, cleaned) => ~Requeuing
    BY DEF CleanupRaises, Requeuing
  <2> QED
    BY <2>1, <2>2, <2>3, <2>4 DEF RaisingStep
<1>f. /\ \A r \in running \ spoiled : requestIdToUid[r] \in sequences
      /\ running # {} => generator # None
      /\ \A r \in running : requestIdToUid[r] < nextUid
  BY <1>0 DEF UidInv, UidMapsExact, UidsFresh
<1>1. CASE ScheduleRaises
  <2> DEFINE r == Head(waiting)
  <2>1. r \in Requests
    BY <1>1 DEF ScheduleRaises, CanSchedule, SchedulerTypeOK
  <2>2. spoiled' = spoiled
    BY <1>1 DEF ScheduleRaises
  <2>k. PICK kind \in Kinds :
          \E at :
            \/ NeedsGenerator(r) /\ at = AtCreate /\ Handle("create", kind, at)
            \/ at = AtInsert(r) /\ Handle("insert", kind, at)
    BY <1>1, ScheduleRaisesSoundly
  <2>3. PICK at :
          \/ NeedsGenerator(r) /\ at = AtCreate /\ Handle("create", kind, at)
          \/ at = AtInsert(r) /\ Handle("insert", kind, at)
    BY <2>k
  <2> HIDE DEF r
  <2>4. CASE NeedsGenerator(r) /\ at = AtCreate /\ Handle("create", kind, at)
    <3>1. running = {}
      BY <1>f, <2>4 DEF NeedsGenerator
    <3>2. Fits(at) /\ at.running \subseteq running
      BY <2>4, <3>1, AtCreateIs DEF Fits
    <3> QED
      BY <1>0, <2>4, <3>2, UidInvHandle
  <2>5. CASE at = AtInsert(r) /\ Handle("insert", kind, at)
    <3>1. Fits(at) /\ at.running \subseteq running
      BY <1>0, <1>f, <2>1, <2>2, <2>5, AtInsertIs, TargetFresh DEF Fits
    <3> QED
      BY <1>0, <2>5, <3>1, UidInvHandle
  <2> QED
    BY <2>3, <2>4, <2>5
<1>2. CASE GenerateRaises
  <2>1. PICK kind \in Kinds : Handle("next", kind, Now)
    BY <1>2, GenerateRaisesSoundly
  <2>2. Fits(Now) /\ Now.running \subseteq running
    BY <1>2, <1>f, NowIs DEF GenerateRaises, Fits
  <2> QED
    BY <1>0, <2>1, <2>2, UidInvHandle
<1>3. ASSUME NEW us, NEW stops \in SUBSET RequestsOf(us),
             NEW before \in SUBSET RequestsOf(us), NEW r \in RequestsOf(us),
             ProcessRaises(us, stops, before, r)
      PROVE  UidInv'
  <2>1. PICK kind \in Kinds, ended \in SUBSET RequestsOf(us) :
          /\ Handle("process", kind, AtProcess(us, stops, ended))
          /\ Spoil(kind, us)
    BY <1>3, ProcessRaisesSoundly
  <2> DEFINE at == AtProcess(us, stops, ended)
  <2>2. /\ at.generator = generator /\ at.nextUid = nextUid
        /\ at.sequences = SequencesAfter(us, stops) /\ at.running = running
    BY AtProcessIs
  <2> HIDE DEF at
  <2>3. ASSUME kind # "fatal" PROVE Fits(at)
    <3>1. \A q \in running \ spoiled' :
            q \notin RequestsOf(us) /\ q \in running \ spoiled
      BY <2>1, <2>3 DEF Spoil
    <3>2. FinishedIds(us, stops) \subseteq RequestsOf(us)
      <4>1. {} \in SUBSET Requests
        OBVIOUS
      <4> QED
        BY <4>1, ResponsesTypeOK
    <3>3. \A q \in running \ FinishedIds(us, stops) :
            requestIdToUid[q] \in sequences =>
              requestIdToUid[q] \in SequencesAfter(us, stops)
      BY <1>0, SequencesLeft
    <3>4. \A q \in running \ spoiled' : requestIdToUid[q] \in at.sequences
      BY <1>f, <2>2, <3>1, <3>2, <3>3
    <3> QED
      BY <1>f, <2>2, <3>4 DEF Fits, SequencesAfter
  <2> QED
    BY <1>0, <2>1, <2>2, <2>3, UidInvHandle DEF at
<1>4. ASSUME NEW us, NEW stops \in SUBSET RequestsOf(us), NEW cleaned,
             CleanupRaises(us, stops, cleaned)
      PROVE  UidInv'
  <2>1. PICK kind \in Kinds :
          /\ Handle("cleanup", kind, AtCleanup(us, stops, cleaned))
          /\ Spoil(kind, us) /\ cleaned \subseteq FinishedIds(us, stops)
    BY <1>4, CleanupRaisesSoundly
  <2> DEFINE at == AtCleanup(us, stops, cleaned)
  <2>2. /\ at.generator = generator /\ at.nextUid = nextUid
        /\ at.sequences = SequencesAfter(us, stops)
        /\ at.running = running \ cleaned
    BY AtCleanupIs
  <2> HIDE DEF at
  <2>3. ASSUME kind # "fatal" PROVE Fits(at)
    <3>1. \A q \in running \ spoiled' :
            q \notin RequestsOf(us) /\ q \in running \ spoiled
      BY <2>1, <2>3 DEF Spoil
    <3>2. FinishedIds(us, stops) \subseteq RequestsOf(us)
      <4>1. {} \in SUBSET Requests
        OBVIOUS
      <4> QED
        BY <4>1, ResponsesTypeOK
    <3>3. /\ \A q \in cleaned :
                requestIdToUid[q] \notin SequencesAfter(us, stops)
          /\ \A q \in running \ FinishedIds(us, stops) :
               requestIdToUid[q] \in sequences =>
                 requestIdToUid[q] \in SequencesAfter(us, stops)
      BY <1>0, <2>1, SequencesLeft
    <3>4. \A q \in at.running \ spoiled' : requestIdToUid[q] \in at.sequences
      BY <1>f, <2>2, <3>1, <3>2, <3>3
    <3>5. \A q \in running \ at.running : requestIdToUid[q] \notin at.sequences
      BY <2>2, <3>3
    <3> QED
      BY <1>f, <2>2, <3>4, <3>5 DEF Fits, SequencesAfter
  <2> QED
    BY <1>0, <2>1, <2>2, <2>3, UidInvHandle DEF at
<1> QED
  BY <1>1, <1>2, <1>3, <1>4 DEF RaisingStep

LEMMA NextUidInv ==
  ASSUME SchedulerTypeOK, UidInv, QueueExclusive,
         [AnyStep]_schedulerVars
  PROVE  UidInv'
<1>s. spoiled \subseteq spoiled'
  BY SpoiledGrows
<1>1. ASSUME NEW r \in Requests, AddRequest(r) PROVE UidInv'
  BY <1>s, <1>1, UidInvKept DEF AddRequest, batchVars, uidVars, generatorVars, Requeuing
<1>2. ASSUME NEW r \in Requests, AbortRequest(r) PROVE UidInv'
  BY <1>s, <1>2, UidInvKept DEF AbortRequest, batchVars, uidVars, generatorVars,
       queueVars, Requeuing
<1>3. ASSUME NEW r \in Requests, RemoveFinishedRequest(r) PROVE UidInv'
  BY <1>s, <1>3, UidInvKept DEF RemoveFinishedRequest, batchVars, uidVars,
       generatorVars, Requeuing
<1>4. CASE BeginStep
  BY <1>s, <1>4, UidInvKept DEF BeginStep, batchVars, uidVars, generatorVars,
       queueVars, Requeuing
<1>5. ASSUME NEW r \in Requests, AbortBegin(r) PROVE UidInv'
  <2>1. CASE phase' = "remove" /\ UNCHANGED <<queueVars, uidVars, generatorVars>>
    BY <1>s, <1>5, <2>1, UidInvKept DEF AbortBegin, batchVars, uidVars,
         generatorVars, queueVars, Requeuing
  <2>2. CASE FinishAbort(r, r \in requests) /\ UNCHANGED phase
    BY <1>s, <1>5, <2>2, UidInvFinishAbort DEF AbortBegin, Requeuing
  <2> QED
    BY <1>5, <2>1, <2>2 DEF AbortBegin
<1>6. ASSUME NEW r \in Requests, AbortRemove(r) PROVE UidInv'
  BY <1>s, <1>6, UidInvFinishAbort DEF AbortRemove, Requeuing
<1>7. ASSUME NEW r \in Requests, AbortRemoveRaises(r) PROVE UidInv'
  BY <1>s, <1>7, UidInvKept DEF AbortRemoveRaises, batchVars, uidVars,
       generatorVars, queueVars, Requeuing
<1>8. CASE AbortsDone
  BY <1>s, <1>8, UidInvKept DEF AbortsDone, BeginScheduling, batchVars, uidVars,
       generatorVars, queueVars, Requeuing
<1>9. CASE PromoteDone \/ ScheduleDone
  BY <1>s, <1>9, UidInvKept DEF PromoteDone, ScheduleDone, batchVars, uidVars,
       generatorVars, queueVars, Requeuing
<1>10. CASE PromoteRaises
  BY <1>10, UidInvCleared DEF PromoteRaises, RecoverFromGenerationError
<1>11. CASE ScheduleOne
  BY <1>11, UidInvScheduleOne
<1>12. CASE RaisingStep
  BY <1>12, UidInvRaising
<1>13. ASSUME NEW us, NEW stops, Generate(us, stops) PROVE UidInv'
  BY <1>13, UidInvGenerate
<1>14. CASE EpilogueRaises
  BY <1>s, <1>14, UidInvKept DEF EpilogueRaises, Escape, batchVars, uidVars,
       generatorVars, queueVars, Requeuing
<1>16. ASSUME NEW r \in Requests, RescheduleOne(r) PROVE UidInv'
  BY <1>16 DEF RescheduleOne, UidInv, UidMapsExact, UidsFresh, Requeuing,
       uidVars, generatorVars
<1>17. CASE RescheduleDone \/ RequeueDone
  BY <1>17 DEF RescheduleDone, RequeueDone, BeginScheduling, UidInv,
       UidMapsExact, UidsFresh, Requeuing, queueVars, uidVars, generatorVars
<1>18. CASE Return
  BY <1>s, <1>18, UidInvKept DEF Return, batchVars, uidVars, generatorVars,
       queueVars, Requeuing
<1>19. CASE RecoverStreamThread
  BY <1>19, UidInvCleared DEF RecoverStreamThread, RecoverFromCacheError,
       Requeuing, SchedulerTypeOK, queueVars
<1>20. CASE UNCHANGED schedulerVars
  BY <1>s, <1>20, UidInvKept DEF schedulerVars, batchVars, Requeuing
<1> QED
  BY <1>1, <1>2, <1>3, <1>4, <1>5, <1>6, <1>7, <1>8, <1>9, <1>10, <1>11,
     <1>12, <1>13, <1>14, <1>16, <1>17, <1>18, <1>19, <1>20, StepActionCases
     DEF AnyStep, WorkerStep

-----------------------------------------------------------------------------
(* The queue and the batch are exclusive, and the batch is bounded.        *)

QueueInv == QueueExclusive /\ Cardinality(running) <= MaxNumSeqs

LEMMA InitQueueInv == SchedulerInit => QueueInv
BY FS_EmptySet, SchedulerAssumption DEF SchedulerInit, QueueInv, QueueExclusive

InBatch(r) ==
  status[r] = "RUNNING" \/ (status[r] \in Finished /\ r \in spoiled)

(* The queue part of QueueInv, with the queue as a set.                    *)
LEMMA QueueExclusiveAsSets ==
  ASSUME SchedulerTypeOK
  PROVE  QueueExclusive <=> /\ Distinct(waiting)
                            /\ \A r \in Queued : status[r] = "WAITING"
                            /\ \A r \in running : InBatch(r)
BY DEF QueueExclusive, Distinct, Queued, ToSet, InBatch

LEMMA QueuedWaits ==
  ASSUME SchedulerTypeOK, QueueInv
  PROVE  \A q \in Queued : q \in Requests /\ status[q] = "WAITING"
<1>1. \A i \in DOMAIN waiting : waiting[i] \in Requests
  BY DEF SchedulerTypeOK
<1> QED
  BY <1>1 DEF QueueInv, QueueExclusive, Queued, ToSet

LEMMA QueueInvKept ==
  ASSUME QueueInv, UNCHANGED <<waiting, running, status>>,
         spoiled \subseteq spoiled'
  PROVE  QueueInv'
BY DEF QueueInv, QueueExclusive

(* Requests leaving the batch keep it within bounds.                       *)
LEMMA RunningShrinks ==
  ASSUME SchedulerTypeOK, QueueInv, running' \subseteq running
  PROVE  Cardinality(running') <= MaxNumSeqs
<1>1. IsFiniteSet(running) /\ Cardinality(running) <= MaxNumSeqs
  BY SchedulerAssumption, FS_Subset DEF SchedulerTypeOK, QueueInv
<1>2. IsFiniteSet(running') /\ Cardinality(running') <= Cardinality(running)
  BY <1>1, FS_Subset
<1> QED
  BY <1>1, <1>2, FS_CardinalityType, SchedulerAssumption

(* What waits still waits, and what runs still runs, after a step that     *)
(* takes requests out of both.                                             *)
LEMMA QueueInvLess ==
  ASSUME SchedulerTypeOK, QueueInv, Distinct(waiting'), Queued' \subseteq Queued,
         running' \subseteq running, spoiled \subseteq spoiled',
         \A r \in Requests \ running : status'[r] = status[r],
         \A r \in running' :
           status'[r] = status[r] \/ (status'[r] \in Finished /\ r \in spoiled')
  PROVE  QueueInv'
<1>1. \A r \in Queued' : r \in Requests /\ r \notin running /\ status[r] = "WAITING"
  BY QueuedWaits DEF QueueInv, QueueExclusive, Finished
<1>2. \A i \in DOMAIN waiting' : waiting'[i] \in Queued'
  BY DEF Queued, ToSet
<1>3. \A r \in running' :
        status'[r] = "RUNNING" \/ (status'[r] \in Finished /\ r \in spoiled')
  BY DEF QueueInv, QueueExclusive
<1>4. QueueExclusive'
  BY <1>1, <1>2, <1>3 DEF QueueExclusive, Distinct
<1> QED
  BY <1>4, RunningShrinks DEF QueueInv

LEMMA QueueInvFinishAbort ==
  ASSUME SchedulerTypeOK, SchedulerTypeOK', QueueInv, NEW r \in Requests,
         NEW known, FinishAbort(r, known),
         Distinct(waiting'), Queued' \subseteq Queued \ {r}
  PROVE  QueueInv'
<1>1. \A q \in Requests : q # r => status'[q] = status[q]
  BY DEF FinishAbort, SchedulerTypeOK
<1>2. running' = running \ {r}
  BY DEF FinishAbort
<1>3. Cardinality(running') <= MaxNumSeqs
  BY <1>2, RunningShrinks
<1>4. \A q \in Queued' : q \in Requests /\ status'[q] = "WAITING"
  BY <1>1, QueuedWaits
<1>5. \A q \in running' : InBatch(q)'
  <2>1. spoiled' = spoiled
    BY DEF FinishAbort
  <2> QED
    BY <1>1, <1>2, <2>1 DEF QueueInv, QueueExclusive, SchedulerTypeOK, InBatch
<1>6. \A i \in DOMAIN waiting' : waiting'[i] \in Queued'
  BY DEF Queued, ToSet
<1>7. QueueExclusive'
  BY <1>4, <1>5, <1>6 DEF QueueExclusive, Distinct, InBatch
<1> QED
  BY <1>3, <1>7 DEF QueueInv

LEMMA QueueInvHandle ==
  ASSUME SchedulerTypeOK, QueueInv, NEW site, NEW kind, NEW at,
         Handle(site, kind, at), Sound(kind, at),
         Distinct(waiting'), Queued' \subseteq Queued
  PROVE  QueueInv'
<1>1. CASE RecoverFromGenerationError(at.running, at.outputs, at.status)
  <2>1. /\ running' = {} /\ at.running \subseteq running
        /\ \A r \in Requests \ running : status'[r] = status[r]
    BY <1>1 DEF RecoverFromGenerationError, Sound
  <2> QED
    BY <2>1, QueueInvLess DEF Sound
<1>2. CASE kind # "fatal" /\ running' = at.running /\ status' = at.status
  <2>1. /\ running' \subseteq running /\ spoiled \subseteq spoiled'
        /\ \A r \in Requests \ running : status'[r] = status[r]
    BY <1>2 DEF Sound
  <2>2. \A r \in running' :
          status'[r] = status[r] \/ (status'[r] \in Finished /\ r \in spoiled')
    BY <1>2, <2>1 DEF Sound, Spared, SchedulerTypeOK
  <2> QED
    BY <2>1, <2>2, QueueInvLess
<1> QED
  BY <1>1, <1>2, HandleOutcome

(* What the queue of a step that leaves it alone satisfies.                *)
LEMMA QueueUnchanged ==
  ASSUME SchedulerTypeOK, QueueInv, waiting' = waiting
  PROVE  Distinct(waiting') /\ Queued' \subseteq Queued
BY QueueExclusiveAsSets DEF QueueInv, Queued

LEMMA QueueAfterRaising ==
  ASSUME SchedulerTypeOK, QueueInv, RaisingStep
  PROVE  Distinct(waiting') /\ Queued' \subseteq Queued
<1>1. CASE ScheduleRaises
  <2>1. waiting \in Seq(Requests) /\ waiting # <<>> /\ Distinct(waiting)
    BY <1>1, QueueExclusiveAsSets
       DEF ScheduleRaises, CanSchedule, QueueInv, SchedulerTypeOK
  <2>2. waiting' = Tail(waiting)
    BY <1>1 DEF ScheduleRaises
  <2>3. Distinct(waiting') /\ ToSet(waiting') = ToSet(waiting) \ {Head(waiting)}
    BY <2>1, <2>2, TailDistinct
  <2> QED
    BY <2>3 DEF Queued
<1>2. CASE GenerateRaises
  BY <1>2, QueueUnchanged DEF GenerateRaises
<1>3. ASSUME NEW us, NEW stops, NEW before, NEW r,
             \/ ProcessRaises(us, stops, before, r)
             \/ CleanupRaises(us, stops, before)
      PROVE  waiting' = waiting
  BY <1>3 DEF ProcessRaises, CleanupRaises
<1> QED
  BY <1>1, <1>2, <1>3, QueueUnchanged DEF RaisingStep

LEMMA QueueInvScheduleOne ==
  ASSUME SchedulerTypeOK, QueueInv, ScheduleOne
  PROVE  QueueInv'
<1> DEFINE r == Head(waiting)
<1>1. /\ r \in Queued /\ r \in Requests
      /\ Distinct(Tail(waiting)) /\ ToSet(Tail(waiting)) = Queued \ {r}
  BY TailDistinct, QueueExclusiveAsSets
     DEF ScheduleOne, CanSchedule, QueueInv, SchedulerTypeOK, Queued
<1>2. /\ waiting' = Tail(waiting)
      /\ running' = running \cup {r}
      /\ \A q \in Requests : status'[q] = IF q = r THEN "RUNNING" ELSE status[q]
      /\ Cardinality(running) < MaxNumSeqs
  BY DEF ScheduleOne, CanSchedule, SchedulerTypeOK
<1> HIDE DEF r
<1>3. Cardinality(running') <= MaxNumSeqs
  <2>1. IsFiniteSet(running)
    BY SchedulerAssumption, FS_Subset DEF SchedulerTypeOK
  <2>2. Cardinality(running) \in Nat
    BY <2>1, FS_CardinalityType
  <2>3. /\ IsFiniteSet(running \cup {r})
        /\ Cardinality(running \cup {r}) =
             IF r \in running THEN Cardinality(running) ELSE Cardinality(running) + 1
    BY <2>1, FS_AddElement
  <2>4. Cardinality(running') <= Cardinality(running) + 1
    BY <1>2, <2>2, <2>3
  <2>5. Cardinality(running') \in Nat
    BY <1>2, <2>3, FS_CardinalityType
  <2> QED
    BY <1>2, <2>2, <2>4, <2>5, SchedulerAssumption
<1>4. \A q \in Queued \ {r} : q \in Requests /\ status'[q] = "WAITING"
  BY <1>2, QueuedWaits
<1>5. \A q \in running' : InBatch(q)'
  <2>1. spoiled' = spoiled
    BY DEF ScheduleOne
  <2> QED
    BY <1>1, <1>2, <2>1 DEF QueueInv, QueueExclusive, SchedulerTypeOK, InBatch
<1>6. \A i \in DOMAIN waiting' : waiting'[i] \in Queued \ {r}
  BY <1>1, <1>2 DEF ToSet
<1>7. QueueExclusive'
  BY <1>1, <1>2, <1>4, <1>5, <1>6 DEF QueueExclusive, Distinct, InBatch
<1> QED
  BY <1>3, <1>7 DEF QueueInv

LEMMA QueueInvReschedule ==
  ASSUME SchedulerTypeOK, QueueInv, NEW r \in Requests, RescheduleOne(r)
  PROVE  QueueInv'
<1>1. /\ r \in running /\ running' = running \ {r}
      /\ waiting' = <<r>> \o waiting
      /\ \A q \in Requests : status'[q] = IF q = r THEN "WAITING" ELSE status[q]
  BY DEF RescheduleOne, SchedulerTypeOK
<1>2. r \notin Queued
  BY <1>1, QueueExclusiveAsSets DEF QueueInv, InBatch, Finished
<1>3. Distinct(waiting') /\ ToSet(waiting') = Queued \cup {r}
  BY <1>1, <1>2, PrependDistinct, QueueExclusiveAsSets
     DEF QueueInv, SchedulerTypeOK, Queued
<1>4. \A q \in Queued \cup {r} : q \in Requests /\ status'[q] = "WAITING"
  BY <1>1, QueuedWaits
<1>5. \A q \in running' : InBatch(q)'
  <2>1. spoiled' = spoiled
    BY DEF RescheduleOne
  <2> QED
    BY <1>1, <2>1 DEF QueueInv, QueueExclusive, SchedulerTypeOK, InBatch
<1>6. \A i \in DOMAIN waiting' : waiting'[i] \in Queued \cup {r}
  BY <1>3 DEF ToSet
<1>7. QueueExclusive'
  BY <1>3, <1>4, <1>5, <1>6 DEF QueueExclusive, Distinct, InBatch
<1> QED
  BY <1>1, <1>7, RunningShrinks DEF QueueInv

LEMMA QueueInvAdd ==
  ASSUME SchedulerTypeOK, QueueInv, NEW r \in Requests, AddRequest(r)
  PROVE  QueueInv'
<1>1. /\ status[r] = "NEW" /\ running' = running
      /\ waiting' = Append(waiting, r)
      /\ \A q \in Requests : status'[q] = IF q = r THEN "WAITING" ELSE status[q]
  BY DEF AddRequest, SchedulerTypeOK
<1>2. r \notin Queued /\ r \notin running
  BY <1>1, QueueExclusiveAsSets DEF QueueInv, InBatch, Finished
<1>3. Distinct(waiting') /\ ToSet(waiting') = Queued \cup {r}
  BY <1>1, <1>2, AppendDistinct, QueueExclusiveAsSets
     DEF QueueInv, SchedulerTypeOK, Queued
<1>4. \A q \in Queued \cup {r} : q \in Requests /\ status'[q] = "WAITING"
  BY <1>1, QueuedWaits
<1>5. \A q \in running' : InBatch(q)'
  <2>1. spoiled' = spoiled
    BY DEF AddRequest
  <2> QED
    BY <1>1, <1>2, <2>1 DEF QueueInv, QueueExclusive, SchedulerTypeOK, InBatch
<1>6. \A i \in DOMAIN waiting' : waiting'[i] \in Queued \cup {r}
  BY <1>3 DEF ToSet
<1>7. QueueExclusive'
  BY <1>3, <1>4, <1>5, <1>6 DEF QueueExclusive, Distinct, InBatch
<1> QED
  BY <1>1, <1>7 DEF QueueInv

LEMMA NextQueueInv ==
  ASSUME SchedulerTypeOK, SchedulerTypeOK', QueueInv,
         [AnyStep]_schedulerVars
  PROVE  QueueInv'
<1>s. spoiled \subseteq spoiled'
  BY SpoiledGrows
<1>1. ASSUME NEW r \in Requests, AddRequest(r) PROVE QueueInv'
  BY <1>1, QueueInvAdd
<1>2. ASSUME NEW r \in Requests, AbortRequest(r) PROVE QueueInv'
  BY <1>s, <1>2, QueueInvKept DEF AbortRequest, queueVars, requestVars
<1>3. ASSUME NEW r \in Requests, RemoveFinishedRequest(r) PROVE QueueInv'
  BY <1>s, <1>3, QueueInvKept DEF RemoveFinishedRequest, requestVars
<1>4. CASE BeginStep \/ AbortsDone \/ PromoteDone \/ ScheduleDone
  BY <1>s, <1>4, QueueInvKept DEF BeginStep, AbortsDone, PromoteDone, ScheduleDone,
       queueVars, requestVars
<1>5. ASSUME NEW r \in Requests, AbortBegin(r) PROVE QueueInv'
  <2>1. CASE UNCHANGED <<queueVars, requestVars>>
    BY <1>s, <2>1, QueueInvKept DEF queueVars, requestVars
  <2>2. CASE /\ ~(r \in requests /\ status[r] = "WAITING")
             /\ FinishAbort(r, r \in requests) /\ UNCHANGED waiting
    <3>1. Distinct(waiting') /\ Queued' \subseteq Queued
      BY <2>2, QueueUnchanged
    <3>2. CASE r \in requests
      <4>1. r \notin Queued
        BY <2>2, <3>2, QueuedWaits
      <4> QED
        BY <2>2, <3>1, <4>1, QueueInvFinishAbort
    <3>3. CASE r \notin requests
      <4>1. UNCHANGED status /\ running' = running \ {r}
        BY <2>2, <3>3 DEF FinishAbort
      <4> QED
        BY <1>s, <2>2, <4>1, RunningShrinks DEF QueueInv, QueueExclusive
    <3> QED
      BY <3>2, <3>3
  <2> QED
    BY <1>5, <2>1, <2>2 DEF AbortBegin
<1>6. ASSUME NEW r \in Requests, AbortRemove(r) PROVE QueueInv'
  <2>1. CASE r \notin Queued /\ UNCHANGED waiting
    BY <1>6, <2>1, QueueUnchanged, QueueInvFinishAbort DEF AbortRemove
  <2>2. ASSUME NEW i \in DOMAIN waiting, waiting[i] = r,
               waiting' = RemoveAt(waiting, i)
        PROVE  QueueInv'
    <3>1. waiting \in Seq(Requests) /\ Distinct(waiting)
      BY QueueExclusiveAsSets DEF QueueInv, SchedulerTypeOK
    <3>2. Distinct(waiting') /\ ToSet(waiting') = ToSet(waiting) \ {r}
      BY <2>2, <3>1, RemoveAtDistinct
    <3>3. Queued' \subseteq Queued \ {r}
      BY <3>2 DEF Queued
    <3> QED
      BY <1>6, <3>2, <3>3, QueueInvFinishAbort DEF AbortRemove
  <2> QED
    BY <1>6, <2>1, <2>2 DEF AbortRemove, TakeOffQueue
<1>7. ASSUME NEW r \in Requests, AbortRemoveRaises(r) PROVE QueueInv'
  BY <1>s, <1>7, QueueInvKept DEF AbortRemoveRaises, queueVars, requestVars
<1>8. CASE PromoteRaises
  <2>1. /\ waiting' = waiting /\ running' = {}
        /\ \A r \in Requests \ running : status'[r] = status[r]
    BY <1>8 DEF PromoteRaises, RecoverFromGenerationError
  <2> QED
    BY <1>s, <2>1, QueueInvLess, QueueUnchanged
<1>9. CASE ScheduleOne
  BY <1>9, QueueInvScheduleOne
<1>10. CASE RaisingStep
  <2>k. PICK kind \in Kinds :
          \E site, at : Handle(site, kind, at) /\ Sound(kind, at)
    BY <1>10, RaisingIsSound
  <2>1. PICK site, at : Handle(site, kind, at) /\ Sound(kind, at)
    BY <2>k
  <2>2. Distinct(waiting') /\ Queued' \subseteq Queued
    BY <1>10, QueueAfterRaising
  <2> QED
    BY <2>1, <2>2, QueueInvHandle
<1>11. ASSUME NEW us, NEW stops, Generate(us, stops) PROVE QueueInv'
  <2> DEFINE done == FinishedIds(us, stops)
  <2>1. done \subseteq running
    <3>1. {} \in SUBSET Requests
      OBVIOUS
    <3> QED
      BY <3>1, ResponsesTypeOK
  <2>2. /\ running' = running \ done /\ waiting' = waiting
        /\ \A r \in Requests \ done : status'[r] = status[r]
    BY <1>11 DEF Generate, StatusAfter
  <2> HIDE DEF done
  <2>3. \A r \in running' : status'[r] = status[r]
    BY <2>2 DEF SchedulerTypeOK
  <2> QED
    BY <1>s, <2>1, <2>2, <2>3, QueueInvLess, QueueUnchanged
<1>12. CASE EpilogueRaises
  BY <1>s, <1>12, QueueInvKept DEF EpilogueRaises, queueVars, requestVars
<1>14. ASSUME NEW r \in Requests, RescheduleOne(r) PROVE QueueInv'
  BY <1>14, QueueInvReschedule
<1>15. CASE RescheduleDone \/ RequeueDone \/ Return \/ RecoverStreamThread
  BY <1>s, <1>15, QueueInvKept DEF RescheduleDone, RequeueDone, Return,
       RecoverStreamThread, queueVars, requestVars
<1>16. CASE UNCHANGED schedulerVars
  BY <1>s, <1>16, QueueInvKept DEF schedulerVars
<1> QED
  BY <1>1, <1>2, <1>3, <1>4, <1>5, <1>6, <1>7, <1>8, <1>9, <1>10, <1>11,
     <1>12, <1>14, <1>15, <1>16, StepActionCases DEF AnyStep, WorkerStep

-----------------------------------------------------------------------------
(* The inductive invariant of the scheduler.                               *)
SchedulerInv == SchedulerTypeOK /\ UidInv /\ QueueInv

LEMMA SchedulerInvInductive ==
  /\ SchedulerInit => SchedulerInv
  /\ SchedulerInv /\ [AnyStep]_schedulerVars => SchedulerInv'
<1>1. SchedulerInit => SchedulerInv
  BY InitTypeOK, InitUidInv, InitQueueInv DEF SchedulerInv
<1>2. SchedulerInv /\ [AnyStep]_schedulerVars => SchedulerInv'
  BY NextTypeOK, NextUidInv, NextQueueInv DEF SchedulerInv, QueueInv
<1> QED
  BY <1>1, <1>2

THEOREM SchedulerInvariant == SchedulerSafety => []SchedulerInv
BY SchedulerInvInductive, NextIsAnyStep, PTL DEF SchedulerSafety

(* No response of the BatchGenerator is credited to another request, in    *)
(* any interleaving of aborts, retries and recoveries.                     *)
THEOREM UidMapsCorrect == SchedulerSafety => []UidMapsExact
<1>1. SchedulerInv => UidMapsExact
  BY DEF SchedulerInv, UidInv
<1> QED
  BY <1>1, SchedulerInvariant, PTL

(* No request is queued twice, or queued while it runs or after it         *)
(* finished.                                                               *)
THEOREM QueueCorrect == SchedulerSafety => []QueueExclusive
<1>1. SchedulerInv => QueueExclusive
  BY DEF SchedulerInv, QueueInv
<1> QED
  BY <1>1, SchedulerInvariant, PTL

(* The batch never exceeds max_num_seqs: neither the requests nor, since   *)
(* each sequence belongs to one of them, the sequences.                    *)
THEOREM CapacityCorrect == SchedulerSafety => []Capacity
<1>1. ASSUME SchedulerInv PROVE Capacity
  <2>1. IsFiniteSet(running) /\ Cardinality(running) <= MaxNumSeqs
    BY <1>1, SchedulerAssumption, FS_Subset
       DEF SchedulerInv, SchedulerTypeOK, QueueInv
  <2>2. CASE Requeuing
    <3>1. sequences = {}
      BY <1>1, <2>2 DEF SchedulerInv, UidInv, UidMapsExact
    <3>2. Cardinality(sequences) = 0
      BY <3>1, FS_EmptySet
    <3> QED
      BY <2>1, <3>2, SchedulerAssumption DEF Capacity
  <2>3. CASE ~Requeuing
    <3> DEFINE f == [r \in running |-> requestIdToUid[r]]
               uids == {requestIdToUid[r] : r \in running}
    <3>1. f \in Surjection(running, uids)
      BY DEF Surjection
    <3>2. IsFiniteSet(uids) /\ Cardinality(uids) <= Cardinality(running)
      BY <2>1, <3>1, FS_Surjection
    <3>3. sequences \subseteq uids
      BY <1>1, <2>3 DEF SchedulerInv, UidInv, UidMapsExact
    <3>4. IsFiniteSet(sequences) /\ Cardinality(sequences) <= Cardinality(uids)
      BY <3>2, <3>3, FS_Subset
    <3> HIDE DEF uids, f
    <3> QED
      BY <2>1, <3>2, <3>4, FS_CardinalityType, SchedulerAssumption DEF Capacity
  <2> QED
    BY <2>2, <2>3
<1> QED
  BY <1>1, SchedulerInvariant, PTL

-----------------------------------------------------------------------------
(* deque.remove takes the one occurrence of the request.                   *)
LEMMA QueueTakenOff ==
  ASSUME SchedulerTypeOK, QueueInv, NEW q \in Requests, TakeOffQueue(q)
  PROVE  Queued' = Queued \ {q}
<1>1. waiting \in Seq(Requests) /\ Distinct(waiting)
  BY QueueExclusiveAsSets DEF QueueInv, SchedulerTypeOK
<1>2. ASSUME NEW i \in DOMAIN waiting, waiting[i] = q,
             waiting' = RemoveAt(waiting, i)
      PROVE  Queued' = Queued \ {q}
  BY <1>1, <1>2, RemoveAtDistinct DEF Queued
<1>3. CASE q \notin Queued /\ UNCHANGED waiting
  BY <1>3 DEF Queued
<1> QED
  BY <1>2, <1>3 DEF TakeOffQueue

(* The worker moves requests between the queue and the batch, and takes    *)
(* them out of both: only a submission brings one in.                      *)
LEMMA NextPlaces ==
  ASSUME SchedulerTypeOK, QueueInv, [AnyStep]_schedulerVars,
         NEW r \in Queued' \cup running'
  PROVE  r \in Queued \cup running \/ status[r] = "NEW"
<1> DEFINE Stays == Queued' \cup running' \subseteq Queued \cup running
<1>w. waiting \in Seq(Requests) /\ Distinct(waiting)
  BY QueueExclusiveAsSets DEF QueueInv, SchedulerTypeOK
<1>1. ASSUME NEW q \in Requests, AddRequest(q)
      PROVE  Queued' \cup running' \subseteq Queued \cup running \cup {q}
  <2>1. q \notin Queued
    BY <1>1, QueuedWaits DEF AddRequest
  <2> QED
    BY <1>1, <1>w, <2>1, AppendDistinct DEF AddRequest, Queued
<1>2. ASSUME NEW q \in Requests, AbortRequest(q) \/ RemoveFinishedRequest(q)
      PROVE  Stays
  BY <1>2 DEF AbortRequest, RemoveFinishedRequest, queueVars, Queued
<1>3. CASE BeginStep \/ AbortsDone \/ PromoteDone \/ ScheduleDone \/ Return
             \/ RecoverStreamThread \/ RequeueDone \/ RescheduleDone
  BY <1>3 DEF BeginStep, AbortsDone, PromoteDone, ScheduleDone, Return,
              RecoverStreamThread, RequeueDone, RescheduleDone, queueVars, Queued
<1>4. ASSUME NEW q \in Requests, AbortBegin(q) \/ AbortRemoveRaises(q)
      PROVE  Stays
  BY <1>4 DEF AbortBegin, AbortRemoveRaises, FinishAbort, queueVars, Queued
<1>5. ASSUME NEW q \in Requests, AbortRemove(q) PROVE Stays
  <2>1. Queued' \subseteq Queued
    BY <1>5, QueueTakenOff DEF AbortRemove
  <2> QED
    BY <1>5, <2>1 DEF AbortRemove, FinishAbort
<1>6. CASE PromoteRaises
  BY <1>6 DEF PromoteRaises, RecoverFromGenerationError, Queued
<1>7. CASE ScheduleOne
  BY <1>7, <1>w, TailDistinct DEF ScheduleOne, CanSchedule, Queued
<1>8. CASE RaisingStep
  <2>k. PICK kind \in Kinds :
          \E site, at : Handle(site, kind, at) /\ Sound(kind, at)
    BY <1>8, RaisingIsSound
  <2>1. PICK site, at : Handle(site, kind, at) /\ Sound(kind, at)
    BY <2>k
  <2>2. running' \subseteq running
    BY <2>1, HandleOutcome DEF Sound, RecoverFromGenerationError
  <2>3. Queued' \subseteq Queued
    BY <1>8, QueueAfterRaising
  <2> QED
    BY <2>2, <2>3
<1>9. CASE EpilogueRaises
  BY <1>9 DEF EpilogueRaises, queueVars, Queued
<1>10. ASSUME NEW us, NEW stops, Generate(us, stops) PROVE Stays
  BY <1>10 DEF Generate, Queued
<1>11. ASSUME NEW q \in Requests, RescheduleOne(q) PROVE Stays
  <2>1. q \notin Queued
    BY <1>11, QueuedWaits DEF RescheduleOne, QueueInv, QueueExclusive, Finished
  <2> QED
    BY <1>11, <1>w, <2>1, PrependDistinct DEF RescheduleOne, Queued
<1>12. CASE UNCHANGED schedulerVars
  BY <1>12 DEF schedulerVars, Queued
<1>13. CASE Stays
  BY <1>13
<1>14. ASSUME NEW q \in Requests, AddRequest(q)
       PROVE  r \in Queued \cup running \/ status[r] = "NEW"
  BY <1>1, <1>14 DEF AddRequest
<1> HIDE DEF Stays
<1> QED
  BY <1>2, <1>3, <1>4, <1>5, <1>6, <1>7, <1>8, <1>9, <1>10, <1>11, <1>12,
     <1>13, <1>14, StepActionCases DEF AnyStep, WorkerStep

(* FinishedIsFinal.                                                        *)
RequestKept(r) == status'[r] \in Finished /\ outputTokens'[r] = outputTokens[r]

LEMMA FinishedIsElsewhere ==
  ASSUME SchedulerTypeOK, QueueExclusive, NEW r \in Requests,
         status[r] \in Finished
  PROVE  r \notin Queued /\ (r \in running => r \in spoiled)
BY QueueExclusiveAsSets DEF InBatch, Finished

(* A step that raises appends one token at most, to running requests only. *)
LEMMA RaisingCounts ==
  ASSUME SchedulerTypeOK, RaisingStep, NEW r \in Requests
  PROVE  /\ outputTokens'[r] \in {outputTokens[r], outputTokens[r] + 1}
         /\ r \notin running => UNCHANGED <<outputTokens[r], emitted[r]>>
<1>1. CASE ScheduleRaises \/ GenerateRaises
  BY <1>1 DEF ScheduleRaises, GenerateRaises
<1>2. ASSUME NEW us, NEW counted \in SUBSET RequestsOf(us),
             AppendTokens(us, counted)
      PROVE  /\ outputTokens'[r] \in {outputTokens[r], outputTokens[r] + 1}
             /\ r \notin running => UNCHANGED <<outputTokens[r], emitted[r]>>
  BY <1>2, TokensAfter DEF RequestsOf
<1>3. ASSUME NEW us, NEW stops, NEW before \in SUBSET RequestsOf(us),
             NEW q \in RequestsOf(us), ProcessRaises(us, stops, before, q)
      PROVE  \E counted \in SUBSET RequestsOf(us) : AppendTokens(us, counted)
  <2>1. AppendTokens(us, before \cup {q}) /\ before \cup {q} \subseteq RequestsOf(us)
    BY <1>3 DEF ProcessRaises
  <2> QED
    BY <2>1
<1>4. ASSUME NEW us, NEW stops, NEW cleaned, CleanupRaises(us, stops, cleaned)
      PROVE  \E counted \in SUBSET RequestsOf(us) : AppendTokens(us, counted)
  BY <1>4 DEF CleanupRaises
<1> QED
  BY <1>1, <1>2, <1>3, <1>4 DEF RaisingStep

LEMMA NextKeepsFinished ==
  ASSUME SchedulerTypeOK, QueueExclusive, [AnyStep]_schedulerVars,
         NEW r \in Requests, status[r] \in Finished, r \notin running
  PROVE  RequestKept(r)
<1> USE DEF RequestKept
<1>0. r \notin running /\ r \notin Queued
  BY FinishedIsElsewhere
<1>t. status \in [Requests -> Statuses] /\ outputTokens \in [Requests -> Nat]
  BY DEF SchedulerTypeOK
<1>1. ASSUME NEW q \in Requests, AddRequest(q) PROVE RequestKept(r)
  BY <1>1, <1>t DEF AddRequest, Finished
<1>2. ASSUME NEW q \in Requests, AbortRequest(q) \/ RemoveFinishedRequest(q)
      PROVE  RequestKept(r)
  BY <1>2 DEF AbortRequest, RemoveFinishedRequest, requestVars
<1>3. CASE BeginStep \/ AbortsDone \/ PromoteDone \/ ScheduleDone \/ Return
             \/ RecoverStreamThread \/ RequeueDone \/ RescheduleDone
             \/ EpilogueRaises
  BY <1>3 DEF EpilogueRaises, BeginStep, AbortsDone, PromoteDone, ScheduleDone, Return,
              RecoverStreamThread, RequeueDone, RescheduleDone, requestVars
<1>4. ASSUME NEW q \in Requests, NEW known, FinishAbort(q, known) PROVE RequestKept(r)
  BY <1>4, <1>t DEF FinishAbort, Finished
<1>5. ASSUME NEW q \in Requests,
             AbortBegin(q) \/ AbortRemove(q) \/ AbortRemoveRaises(q)
      PROVE  RequestKept(r)
  <2>1. (\E known : FinishAbort(q, known)) \/ UNCHANGED requestVars
    BY <1>5 DEF AbortBegin, AbortRemove, AbortRemoveRaises
  <2> QED
    BY <2>1, <1>4 DEF requestVars
<1>6. CASE PromoteRaises
  BY <1>6 DEF PromoteRaises, RecoverFromGenerationError, Finished
<1>7. CASE ScheduleOne
  <2>1. Head(waiting) \in Queued
    BY <1>7, TailDistinct, QueueExclusiveAsSets
       DEF ScheduleOne, CanSchedule, SchedulerTypeOK, Queued
  <2> QED
    BY <1>7, <2>1, <1>0, <1>t DEF ScheduleOne
<1>8. CASE RaisingStep
  <2>k. PICK kind \in Kinds :
          \E site, at : Handle(site, kind, at) /\ Sound(kind, at)
    BY <1>8, RaisingIsSound
  <2>1. PICK site, at : Handle(site, kind, at) /\ Sound(kind, at)
    BY <2>k
  <2>2. at.status[r] = status[r]
    BY <1>0, <2>1 DEF Sound
  <2>3. \/ RecoverFromGenerationError(at.running, at.outputs, at.status)
        \/ status' = at.status
    BY <2>1, HandleOutcome
  <2>4. RecoverFromGenerationError(at.running, at.outputs, at.status) =>
          status'[r] \in Finished
    BY <2>2 DEF RecoverFromGenerationError, Finished
  <2>5. status'[r] \in Finished
    BY <2>2, <2>3, <2>4
  <2> QED
    BY <1>0, <1>8, <2>5, RaisingCounts
<1>9. ASSUME NEW us, NEW stops, Generate(us, stops) PROVE RequestKept(r)
  <2>1. r \notin RequestsOf(us) /\ r \notin FinishedIds(us, stops)
    <3>1. {} \in SUBSET Requests
      OBVIOUS
    <3> QED
      BY <1>0, <3>1, ResponsesTypeOK
  <2>2. AppendTokens(us, RequestsOf(us))
        /\ status' = StatusAfter(FinishedIds(us, stops), stops)
    BY <1>9 DEF Generate
  <2> QED
    BY <2>1, <2>2, TokensAfter DEF StatusAfter
<1>11. ASSUME NEW q \in Requests, RescheduleOne(q) PROVE RequestKept(r)
  BY <1>11, <1>0, <1>t DEF RescheduleOne
<1>12. CASE UNCHANGED schedulerVars
  BY <1>12 DEF schedulerVars
<1> QED
  BY <1>1, <1>2, <1>3, <1>5, <1>6, <1>7, <1>8, <1>9, <1>11, <1>12,
     StepActionCases DEF AnyStep, WorkerStep

(* A finished request that is out of the batch is never queued, run or     *)
(* appended to again, whatever abort, retry or recovery is under way.      *)
THEOREM FinishedStaysFinished == SchedulerSafety => FinishedIsFinal
<1>1. ASSUME SchedulerInv, [AnyStep]_schedulerVars
      PROVE  \A r \in Requests : (status[r] \in Finished /\ r \notin running) =>
               /\ status'[r] \in Finished
               /\ outputTokens'[r] = outputTokens[r]
               /\ r \notin running' /\ r \notin Queued'
  <2> SUFFICES ASSUME NEW r \in Requests, status[r] \in Finished, r \notin running
               PROVE  /\ RequestKept(r)
                      /\ r \notin running' /\ r \notin Queued'
    BY DEF RequestKept
  <2>0. SchedulerTypeOK /\ QueueInv /\ QueueExclusive
    BY <1>1 DEF SchedulerInv, QueueInv
  <2>1. RequestKept(r)
    BY <1>1, <2>0, NextKeepsFinished
  <2>2. r \notin Queued /\ status[r] # "NEW"
    BY <2>0, FinishedIsElsewhere DEF Finished
  <2>3. r \notin running' /\ r \notin Queued'
    BY <1>1, <2>0, <2>2, NextPlaces
  <2> QED
    BY <2>1, <2>3
<1> QED
  BY <1>1, SchedulerInvariant, NextIsAnyStep, PTL
     DEF SchedulerSafety, FinishedIsFinal

-----------------------------------------------------------------------------
(* NoRequestLost: with an insertion that cannot fail, every other error    *)
(* path of step() keeps track of every request.                            *)
InsertionSafe ==
  \A kind \in Kinds : <<"create", kind>> \notin Faults
                      /\ <<"insert", kind>> \notin Faults

Accounted(r) ==
  r \in requests => status[r] \in Finished \/ r \in Queued \/ r \in running

(* A step that shrinks neither the queue nor the batch, and changes no     *)
(* status, loses nothing.                                                  *)
LEMMA AccountedKept ==
  ASSUME NEW r \in Requests, Accounted(r), requests' \subseteq requests,
         status' = status, Queued \subseteq Queued', running \subseteq running'
  PROVE  Accounted(r)'
BY DEF Accounted

LEMMA AccountedFinishAbort ==
  ASSUME SchedulerTypeOK, NEW r \in Requests, Accounted(r), NEW q \in Requests,
         NEW known, known \/ q \notin requests, FinishAbort(q, known),
         Queued \ {q} \subseteq Queued'
  PROVE  Accounted(r)'
<1>1. /\ requests' = requests /\ running' = running \ {q}
      /\ \A p \in Requests : p # q => status'[p] = status[p]
      /\ known => status'[q] = "FINISHED_ABORTED"
  BY DEF FinishAbort, SchedulerTypeOK
<1>2. CASE r # q
  BY <1>1, <1>2 DEF Accounted
<1>3. CASE r = q /\ q \in requests
  BY <1>1, <1>3 DEF Accounted, Finished
<1>4. CASE r = q /\ q \notin requests
  BY <1>1, <1>4 DEF Accounted
<1> QED
  BY <1>2, <1>3, <1>4

(* Whoever is failed by a recovery was running, and ends up finished.      *)
LEMMA AccountedRecovery ==
  ASSUME NEW r \in Requests, NEW rs, NEW produced, NEW st,
         RecoverFromGenerationError(rs, produced, st),
         r \in requests' => r \in rs \/ st[r] \in Finished \/ r \in Queued'
  PROVE  Accounted(r)'
BY DEF RecoverFromGenerationError, Accounted, Finished

LEMMA AccountedHandle ==
  ASSUME NEW r \in Requests, Accounted(r),
         NEW site, NEW kind, NEW at, Handle(site, kind, at), Sound(kind, at),
         waiting' = waiting
  PROVE  Accounted(r)'
<1>1. requests' = requests /\ Queued' = Queued
  BY HandleOutcome DEF Queued
<1>2. r \in requests => \/ r \in at.running \/ at.status[r] \in Finished
                         \/ r \in Queued
  BY DEF Sound, Accounted
<1>3. CASE RecoverFromGenerationError(at.running, at.outputs, at.status)
  BY <1>1, <1>2, <1>3, AccountedRecovery
<1>4. CASE running' = at.running /\ status' = at.status
  BY <1>1, <1>2, <1>4 DEF Accounted
<1> QED
  BY <1>3, <1>4, HandleOutcome

(* Only an insertion that fails takes a request off the queue.             *)
LEMMA RaisingWaits ==
  ASSUME SchedulerTypeOK, InsertionSafe, RaisingStep
  PROVE  waiting' = waiting
<1>1. ~ScheduleRaises
  BY DEF ScheduleRaises, Handle, Raise, InsertionSafe
<1>2. \A us, stops, before, r :
        ProcessRaises(us, stops, before, r) \/ CleanupRaises(us, stops, before)
          => waiting' = waiting
  BY DEF ProcessRaises, CleanupRaises
<1> QED
  BY <1>1, <1>2 DEF RaisingStep, GenerateRaises

LEMMA QueuedAfterRemoval ==
  ASSUME SchedulerTypeOK, QueueInv, NEW q \in Requests, TakeOffQueue(q)
  PROVE  Queued \ {q} \subseteq Queued'
<1>1. waiting \in Seq(Requests) /\ Distinct(waiting)
  BY QueueExclusiveAsSets DEF QueueInv, SchedulerTypeOK
<1>2. ASSUME NEW i \in DOMAIN waiting, waiting[i] = q,
             waiting' = RemoveAt(waiting, i)
      PROVE  Queued \ {q} \subseteq Queued'
  BY <1>1, <1>2, RemoveAtDistinct DEF Queued
<1>3. CASE UNCHANGED waiting
  BY <1>3 DEF Queued
<1> QED
  BY <1>2, <1>3 DEF TakeOffQueue

LEMMA NextKeepsAccounted ==
  ASSUME SchedulerTypeOK, QueueInv, InsertionSafe, [AnyStep]_schedulerVars,
         NEW r \in Requests, Accounted(r)
  PROVE  Accounted(r)'
<1>w. waiting \in Seq(Requests) /\ Distinct(waiting)
  BY QueueExclusiveAsSets DEF QueueInv, SchedulerTypeOK
<1>t. status \in [Requests -> Statuses] /\ running \subseteq Requests
  BY DEF SchedulerTypeOK
<1>1. ASSUME NEW q \in Requests, AddRequest(q) PROVE Accounted(r)'
  <2>1. q \notin Queued
    BY <1>1, QueuedWaits DEF AddRequest
  <2>2. Queued' = Queued \cup {q}
    BY <1>1, <1>w, <2>1, AppendDistinct DEF AddRequest, Queued
  <2> QED
    BY <1>1, <1>t, <2>2 DEF AddRequest, Accounted
<1>2. ASSUME NEW q \in Requests, AbortRequest(q) \/ RemoveFinishedRequest(q)
      PROVE  Accounted(r)'
  BY <1>2, AccountedKept
     DEF AbortRequest, RemoveFinishedRequest, requestVars, queueVars, Queued
<1>3. CASE BeginStep \/ AbortsDone \/ PromoteDone \/ ScheduleDone \/ Return
             \/ RecoverStreamThread \/ RequeueDone \/ RescheduleDone
  BY <1>3, AccountedKept
     DEF BeginStep, AbortsDone, PromoteDone, ScheduleDone, Return,
         RecoverStreamThread, RequeueDone, RescheduleDone, requestVars,
         queueVars, Queued
<1>4. ASSUME NEW q \in Requests, AbortBegin(q) PROVE Accounted(r)'
  <2>1. CASE UNCHANGED <<queueVars, requestVars>>
    BY <2>1, AccountedKept DEF queueVars, requestVars, Queued
  <2>2. CASE FinishAbort(q, q \in requests) /\ UNCHANGED waiting
    BY <2>2, AccountedFinishAbort DEF Queued
  <2> QED
    BY <1>4, <2>1, <2>2 DEF AbortBegin
<1>5. ASSUME NEW q \in Requests, AbortRemove(q) PROVE Accounted(r)'
  <2>1. TakeOffQueue(q) /\ FinishAbort(q, TRUE)
    BY <1>5 DEF AbortRemove
  <2> QED
    BY <2>1, QueuedAfterRemoval, AccountedFinishAbort
<1>6. ASSUME NEW q \in Requests, AbortRemoveRaises(q) PROVE Accounted(r)'
  BY <1>6, AccountedKept DEF AbortRemoveRaises, queueVars, requestVars, Queued
<1>7. CASE PromoteRaises
  <2>1. requests' = requests /\ Queued' = Queued
    BY <1>7 DEF PromoteRaises, Queued
  <2> QED
    BY <1>7, <2>1, AccountedRecovery DEF PromoteRaises, Accounted
<1>8. CASE ScheduleOne
  <2>1. /\ Queued' = Queued \ {Head(waiting)}
        /\ running' = running \cup {Head(waiting)}
    BY <1>8, <1>w, TailDistinct DEF ScheduleOne, CanSchedule, Queued
  <2>2. requests' = requests /\ (r # Head(waiting) => status'[r] = status[r])
    BY <1>8, <1>t DEF ScheduleOne
  <2> QED
    BY <2>1, <2>2 DEF Accounted
<1>9. CASE RaisingStep
  <2>k. PICK kind \in Kinds :
          \E site, at : Handle(site, kind, at) /\ Sound(kind, at)
    BY <1>9, RaisingIsSound
  <2>1. PICK site, at : Handle(site, kind, at) /\ Sound(kind, at)
    BY <2>k
  <2>2. waiting' = waiting
    BY <1>9, RaisingWaits
  <2> QED
    BY <2>1, <2>2, AccountedHandle
<1>11. ASSUME NEW us, NEW stops, Generate(us, stops) PROVE Accounted(r)'
  <2> DEFINE done == FinishedIds(us, stops)
  <2>1. /\ requests' = requests /\ Queued' = Queued
        /\ status' = StatusAfter(done, stops)
        /\ running' = running \ done
    BY <1>11 DEF Generate, Queued
  <2>2. r \in done => status'[r] \in Finished
    BY <2>1 DEF StatusAfter, FinishStatus, Finished
  <2>3. r \notin done => status'[r] = status[r]
    BY <2>1 DEF StatusAfter
  <2> QED
    BY <2>1, <2>2, <2>3 DEF Accounted
<1>12. CASE EpilogueRaises
  BY <1>12, AccountedKept DEF EpilogueRaises, requestVars, queueVars, Queued
<1>13. ASSUME NEW q \in Requests, RescheduleOne(q) PROVE Accounted(r)'
  <2>1. q \notin Queued
    BY <1>13, QueuedWaits DEF RescheduleOne, QueueInv, QueueExclusive, Finished
  <2>2. Queued' = Queued \cup {q}
    BY <1>13, <1>w, <2>1, PrependDistinct DEF RescheduleOne, Queued
  <2> QED
    BY <1>13, <1>t, <2>2 DEF RescheduleOne, Accounted
<1>14. CASE UNCHANGED schedulerVars
  BY <1>14, AccountedKept DEF schedulerVars, Queued
<1> QED
  BY <1>1, <1>2, <1>3, <1>4, <1>5, <1>6, <1>7, <1>8, <1>9, <1>11, <1>12,
     <1>13, <1>14, StepActionCases DEF AnyStep, WorkerStep

(* No error path of step() drops a request, as long as building the        *)
(* BatchGenerator and inserting into it cannot fail.                       *)
THEOREM NothingLost ==
  ASSUME InsertionSafe
  PROVE  SchedulerSafety => []NoRequestLost
<1> DEFINE AllAccounted == \A r \in Requests : Accounted(r)
<1>1. SchedulerInit => AllAccounted
  BY DEF SchedulerInit, Accounted
<1>2. SchedulerInv /\ AllAccounted /\ [AnyStep]_schedulerVars => AllAccounted'
  BY NextKeepsAccounted, InsertionSafe DEF SchedulerInv
<1>3. SchedulerInv /\ AllAccounted => NoRequestLost
  BY DEF SchedulerInv, SchedulerTypeOK, Accounted, NoRequestLost
<1> QED
  BY <1>1, <1>2, <1>3, SchedulerInvariant, NextIsAnyStep, PTL
     DEF SchedulerSafety

-----------------------------------------------------------------------------
(* What one step of the scheduler does to a request, and to what is        *)
(* reported of it, unless its responses are lost by then.                  *)
Of(r) == {o \in outputs : o.id = r}
ErrorOf(r) == [id |-> r, new |-> 0, completion |-> 0, finish |-> "error"]

(* Nothing is reported: statuses only change before the end, where only a  *)
(* submission makes a request known, or because the worker does an abort.  *)
StatusQuiet(r) ==
  \/ status'[r] = status[r]
  \/ /\ status[r] \notin Finished /\ status'[r] \notin Finished
     /\ status'[r] # "NEW"
     /\ status[r] = "NEW" => r \in requests'
  \/ /\ status'[r] = "FINISHED_ABORTED"
     /\ r \in pendingAborts \cup aborting
     /\ phase # "return"

(* The count of the BatchGenerator starts at 0 with each insertion, and a  *)
(* running request is only put back in the queue by a retry.               *)
CountQuiet(r) ==
  /\ \/ emitted'[r] = emitted[r]
     \/ status[r] = "WAITING" /\ emitted'[r] = 0
  /\ status'[r] = "RUNNING" =>
       \/ status[r] = "RUNNING"
       \/ status[r] = "WAITING" /\ emitted'[r] = 0
  /\ (status[r] = "RUNNING" /\ status'[r] = "WAITING") =>
       phase \in {"reschedule", "requeue"}

QuietFor(r) ==
  /\ outputTokens'[r] = outputTokens[r]
  /\ Of(r)' = Of(r)
  /\ phase' = phase \/ phase # "return" \/ Of(r) = {}
  /\ StatusQuiet(r) /\ CountQuiet(r)

(* The result of the step is taken by its caller.                          *)
TakenFor(r) ==
  /\ phase = "return" /\ phase' = "idle"
  /\ Of(r)' = {}
  /\ UNCHANGED <<status[r], outputTokens[r], emitted[r]>>

(* The request gets a token, or an error, or first one and then the other. *)
(* It may fail with a token that was counted and is not in the output.     *)
Answered(r, stops) ==
  /\ Of(r)' = {Response(r, stops)}
  /\ outputTokens'[r] = outputTokens[r] + 1 /\ emitted'[r] = emitted[r] + 1
  /\ status'[r] = IF Response(r, stops).finish # None
                    THEN FinishStatus(Response(r, stops).finish)
                    ELSE status[r]

AnsweredAndFailed(r, stops) ==
  /\ Of(r)' = {Response(r, stops), ErrorOf(r)}
  /\ outputTokens'[r] = outputTokens[r] + 1
  /\ status'[r] = "FINISHED_ABORTED"

Failed(r) ==
  /\ Of(r)' = {ErrorOf(r)}
  /\ outputTokens'[r] \in {outputTokens[r], outputTokens[r] + 1}
  /\ status'[r] = "FINISHED_ABORTED"

ReportedFor(r) ==
  /\ r \in running /\ phase # "return" /\ phase' = "return"
  /\ \/ Failed(r)
     \/ \E stops \in SUBSET Requests : Answered(r, stops) \/ AnsweredAndFailed(r, stops)

EffectOn(r) == QuietFor(r) \/ TakenFor(r) \/ ReportedFor(r)

StepEffect == \A r \in Requests \ spoiled' : EffectOn(r)

NothingPending == phase # "return" => \A o \in outputs : o.id \in spoiled

LEMMA QuietKept ==
  ASSUME NEW r \in Requests, UNCHANGED <<requestVars, emitted, outputs>>,
         phase' = phase \/ phase # "return"
  PROVE  EffectOn(r)
BY DEF EffectOn, QuietFor, StatusQuiet, CountQuiet, requestVars, Of

LEMMA FinishAbortIsQuiet ==
  ASSUME SchedulerTypeOK, NEW q \in pendingAborts \cup aborting, NEW known,
         FinishAbort(q, known), phase # "return", NEW r \in Requests
  PROVE  EffectOn(r)
BY DEF FinishAbort, SchedulerTypeOK, EffectOn, QuietFor, StatusQuiet,
       CountQuiet, Of, Finished

(* The outputs for one request.                                            *)
LEMMA OfResponses ==
  ASSUME NEW us, NEW stops, NEW r
  PROVE  /\ {o \in Responses(us, stops) : o.id = r} =
              IF r \in RequestsOf(us) THEN {Response(r, stops)} ELSE {}
         /\ r \in FinishedIds(us, stops) <=>
              r \in RequestsOf(us) /\ Response(r, stops).finish # None
<1>1. \A q : Response(q, stops).id = q
  BY DEF Response
<1> QED
  BY <1>1 DEF Responses, FinishedIds

LEMMA OfErrors ==
  ASSUME NEW rs, NEW r
  PROVE  {o \in ErrorOutputs(rs) : o.id = r} = IF r \in rs THEN {ErrorOf(r)} ELSE {}
BY DEF ErrorOutputs, ErrorOf

LEMMA OfUnion ==
  ASSUME NEW A, NEW B, NEW r
  PROVE  {o \in A \cup B : o.id = r} = {o \in A : o.id = r} \cup {o \in B : o.id = r}
OBVIOUS

(* A recovery that fails all of the batch.                                 *)
LEMMA RecoveryReports ==
  ASSUME SchedulerTypeOK, phase # "return", NEW r \in Requests, Of(r) = {},
         NEW st, RecoverFromGenerationError(running, outputs, st),
         outputTokens'[r] \in {outputTokens[r], outputTokens[r] + 1},
         r \notin running =>
           st[r] = status[r] /\ UNCHANGED <<outputTokens[r], emitted[r]>>
  PROVE  EffectOn(r)
<1>1. Of(r)' = IF r \in running THEN {ErrorOf(r)} ELSE {}
  <2>1. outputs' = outputs \cup ErrorOutputs(running)
    BY DEF RecoverFromGenerationError
  <2> QED
    BY <2>1, OfUnion, OfErrors DEF Of
<1>2. phase' = "return" /\ status'[r] = IF r \in running THEN "FINISHED_ABORTED"
                                        ELSE st[r]
  BY DEF RecoverFromGenerationError
<1>3. CASE r \in running
  BY <1>1, <1>2, <1>3 DEF EffectOn, ReportedFor, Failed
<1>4. CASE r \notin running
  BY <1>1, <1>2, <1>4 DEF EffectOn, QuietFor, StatusQuiet, CountQuiet
<1> QED
  BY <1>3, <1>4

LEMMA SpareEffect ==
  ASSUME phase # "return", NEW site, NEW kind, NEW at, Handle(site, kind, at),
         kind # "fatal", NEW r \in Requests, Spared(at, r), Of(r) = {}
  PROVE  EffectOn(r)
<1>1. status' = at.status /\ (outputs' = at.outputs \/ outputs' = {})
  BY HandleOutcome
<1>2. Of(r)' = Of(r)
  BY <1>1 DEF Of, Spared
<1>3. status'[r] = status[r] /\ emitted'[r] = emitted[r]
      /\ outputTokens'[r] = outputTokens[r]
  BY <1>1 DEF Spared
<1> QED
  BY <1>2, <1>3 DEF EffectOn, QuietFor, StatusQuiet, CountQuiet

LEMMA FatalIsRecovery ==
  ASSUME NEW site, NEW kind, NEW at, Handle(site, kind, at), kind = "fatal"
  PROVE  RecoverFromGenerationError(at.running, at.outputs, at.status)
BY HandleOutcome

LEMMA CleanupEffect ==
  ASSUME SchedulerTypeOK, phase # "return", NEW us,
         NEW stops \in SUBSET RequestsOf(us), NEW cleaned,
         cleaned \subseteq FinishedIds(us, stops),
         AppendTokens(us, RequestsOf(us)),
         RecoverFromGenerationError(running \ cleaned, Responses(us, stops),
                                    StatusAfter(FinishedIds(us, stops), stops)),
         NEW r \in Requests, Of(r) = {}
  PROVE  EffectOn(r)
<1> DEFINE st == StatusAfter(FinishedIds(us, stops), stops)
<1>1. Of(r)' = (IF r \in RequestsOf(us) THEN {Response(r, stops)} ELSE {})
               \cup (IF r \in running \ cleaned THEN {ErrorOf(r)} ELSE {})
  <2> DEFINE A == Responses(us, stops)
             B == ErrorOutputs(running \ cleaned)
  <2>1. outputs' = A \cup B
    BY DEF RecoverFromGenerationError
  <2>2. {o \in A : o.id = r} =
          IF r \in RequestsOf(us) THEN {Response(r, stops)} ELSE {}
    BY OfResponses
  <2>3. {o \in B : o.id = r} = IF r \in running \ cleaned THEN {ErrorOf(r)} ELSE {}
    BY OfErrors
  <2> HIDE DEF A, B
  <2>4. Of(r)' = {o \in A : o.id = r} \cup {o \in B : o.id = r}
    BY <2>1, OfUnion DEF Of
  <2> QED
    BY <2>2, <2>3, <2>4
<1>2. phase' = "return"
      /\ status'[r] = IF r \in running \ cleaned THEN "FINISHED_ABORTED" ELSE st[r]
  BY DEF RecoverFromGenerationError
<1>3. st[r] = IF r \in RequestsOf(us) /\ Response(r, stops).finish # None
                THEN FinishStatus(Response(r, stops).finish) ELSE status[r]
  BY OfResponses DEF StatusAfter
<1> HIDE DEF st
<1>4. /\ outputTokens'[r] = IF r \in RequestsOf(us) THEN outputTokens[r] + 1
                            ELSE outputTokens[r]
      /\ emitted'[r] = IF r \in RequestsOf(us) THEN emitted[r] + 1 ELSE emitted[r]
  BY TokensAfter
<1>5. RequestsOf(us) \subseteq running /\ stops \in SUBSET Requests
  BY DEF RequestsOf, SchedulerTypeOK
<1>6. CASE r \in cleaned
  <2>1. r \in RequestsOf(us)
    BY <1>6, OfResponses
  <2>2. Answered(r, stops)
    BY <1>1, <1>2, <1>3, <1>4, <1>6, <2>1 DEF Answered
  <2> QED
    BY <1>2, <1>5, <2>1, <2>2 DEF EffectOn, ReportedFor
<1>7. CASE r \notin cleaned /\ r \in RequestsOf(us)
  <2>1. AnsweredAndFailed(r, stops)
    BY <1>1, <1>2, <1>4, <1>5, <1>7 DEF AnsweredAndFailed
  <2> QED
    BY <1>2, <1>5, <1>7, <2>1 DEF EffectOn, ReportedFor
<1>8. CASE r \notin RequestsOf(us) /\ r \in running /\ r \notin cleaned
  BY <1>1, <1>2, <1>4, <1>8 DEF EffectOn, ReportedFor, Failed
<1>9. CASE r \notin running
  BY <1>1, <1>2, <1>3, <1>4, <1>5, <1>9 DEF EffectOn, QuietFor, StatusQuiet, CountQuiet
<1> QED
  BY <1>6, <1>7, <1>8, <1>9

LEMMA RaisingEffect ==
  ASSUME SchedulerTypeOK, RaisingStep, NEW r \in Requests \ spoiled', Of(r) = {}
  PROVE  EffectOn(r)
<1>c. /\ outputTokens'[r] \in {outputTokens[r], outputTokens[r] + 1}
      /\ r \notin running => UNCHANGED <<outputTokens[r], emitted[r]>>
  BY RaisingCounts
<1>s. ASSUME NEW site, NEW kind, NEW at, Handle(site, kind, at),
             Sound(kind, at), kind # "fatal", phase # "return"
      PROVE  EffectOn(r)
  BY <1>s, SpareEffect DEF Sound
<1>f. ASSUME NEW site, NEW kind, NEW at, Handle(site, kind, at), kind = "fatal",
             at.running = running, at.outputs = outputs, Sound(kind, at),
             phase # "return"
      PROVE  EffectOn(r)
  <2>1. RecoverFromGenerationError(at.running, at.outputs, at.status)
    BY <1>f, FatalIsRecovery
  <2>2. r \notin running => at.status[r] = status[r]
    BY <1>f DEF Sound
  <2> DEFINE st == at.status
  <2>3. RecoverFromGenerationError(running, outputs, st)
    BY <1>f, <2>1
  <2> HIDE DEF st
  <2>4. r \notin running => st[r] = status[r]
    BY <2>2 DEF st
  <2> QED
    BY <1>c, <1>f, <2>3, <2>4, RecoveryReports
<1>1. CASE ScheduleRaises
  <2>1. phase # "return"
    BY <1>1 DEF ScheduleRaises
  <2>k. PICK kind \in Kinds :
          \E site, at :
            /\ Sound(kind, at) /\ Handle(site, kind, at)
            /\ at.running = running /\ at.outputs = outputs
    BY <1>1, ScheduleRaisesSoundly, AtCreateIs, AtInsertIs
  <2>2. PICK site, at :
          /\ Sound(kind, at) /\ Handle(site, kind, at)
          /\ at.running = running /\ at.outputs = outputs
    BY <2>k
  <2> QED
    BY <1>s, <1>f, <2>1, <2>2
<1>2. CASE GenerateRaises
  <2>1. phase # "return"
    BY <1>2 DEF GenerateRaises
  <2>2. PICK kind \in Kinds : Sound(kind, Now) /\ Handle("next", kind, Now)
    BY <1>2, GenerateRaisesSoundly
  <2>3. Now.running = running /\ Now.outputs = outputs
    BY NowIs
  <2> QED
    BY <1>s, <1>f, <2>1, <2>2, <2>3
<1>3. ASSUME NEW us, NEW stops \in SUBSET RequestsOf(us),
             NEW before \in SUBSET RequestsOf(us), NEW q \in RequestsOf(us),
             ProcessRaises(us, stops, before, q)
      PROVE  EffectOn(r)
  <2>1. phase # "return"
    BY <1>3 DEF ProcessRaises
  <2>2. PICK kind \in Kinds, ended \in SUBSET RequestsOf(us) :
          /\ Sound(kind, AtProcess(us, stops, ended))
          /\ Handle("process", kind, AtProcess(us, stops, ended))
    BY <1>3, ProcessRaisesSoundly
  <2> DEFINE at == AtProcess(us, stops, ended)
  <2>3. at.running = running /\ at.outputs = outputs
    BY AtProcessIs
  <2>4. Sound(kind, at) /\ Handle("process", kind, at)
    BY <2>2
  <2> HIDE DEF at
  <2> QED
    BY <1>s, <1>f, <2>1, <2>3, <2>4
<1>4. ASSUME NEW us, NEW stops \in SUBSET RequestsOf(us), NEW cleaned,
             CleanupRaises(us, stops, cleaned)
      PROVE  EffectOn(r)
  <2>1. phase # "return"
    BY <1>4 DEF CleanupRaises
  <2>2. PICK kind \in Kinds :
          LET at == AtCleanup(us, stops, cleaned)
          IN  /\ Sound(kind, at) /\ Handle("cleanup", kind, at)
              /\ AppendTokens(us, RequestsOf(us))
              /\ cleaned \subseteq FinishedIds(us, stops)
    BY <1>4, CleanupRaisesSoundly
  <2> DEFINE at == AtCleanup(us, stops, cleaned)
  <2>3. /\ at.running = running \ cleaned
        /\ at.outputs = Responses(us, stops)
        /\ at.status = StatusAfter(FinishedIds(us, stops), stops)
    BY AtCleanupIs
  <2>4. Sound(kind, at) /\ Handle("cleanup", kind, at)
    BY <2>2
  <2> HIDE DEF at
  <2>5. CASE kind = "fatal"
    <3>1. RecoverFromGenerationError(at.running, at.outputs, at.status)
      BY <2>4, <2>5, FatalIsRecovery
    <3>2. RecoverFromGenerationError(running \ cleaned, Responses(us, stops),
                                     StatusAfter(FinishedIds(us, stops), stops))
      BY <2>3, <3>1
    <3> QED
      BY <2>1, <2>2, <3>2, CleanupEffect
  <2>6. CASE kind # "fatal"
    BY <1>s, <2>1, <2>4, <2>6
  <2> QED
    BY <2>5, <2>6
<1> QED
  BY <1>1, <1>2, <1>3, <1>4 DEF RaisingStep

LEMMA GenerateEffect ==
  ASSUME SchedulerTypeOK, NEW us, NEW stops \in SUBSET RequestsOf(us),
         Generate(us, stops), NEW r \in Requests, Of(r) = {}
  PROVE  EffectOn(r)
<1>1. /\ phase # "return" /\ phase' = "return"
      /\ status' = StatusAfter(FinishedIds(us, stops), stops)
      /\ outputs' = IF us = {} THEN outputs ELSE Responses(us, stops)
      /\ AppendTokens(us, RequestsOf(us))
  BY DEF Generate
<1>2. us = {} => RequestsOf(us) = {}
  BY DEF RequestsOf
<1>3. Of(r)' = IF r \in RequestsOf(us) THEN {Response(r, stops)} ELSE {}
  BY <1>1, <1>2, OfResponses DEF Of
<1>4. status'[r] = IF r \in RequestsOf(us) /\ Response(r, stops).finish # None
                     THEN FinishStatus(Response(r, stops).finish) ELSE status[r]
  BY <1>1, OfResponses DEF StatusAfter
<1>5. /\ outputTokens'[r] = IF r \in RequestsOf(us) THEN outputTokens[r] + 1
                            ELSE outputTokens[r]
      /\ emitted'[r] = IF r \in RequestsOf(us) THEN emitted[r] + 1 ELSE emitted[r]
  BY <1>1, TokensAfter
<1>6. RequestsOf(us) \subseteq running /\ stops \in SUBSET Requests
  BY DEF RequestsOf, SchedulerTypeOK
<1>7. CASE r \in RequestsOf(us)
  <2>1. Answered(r, stops)
    BY <1>3, <1>4, <1>5, <1>7 DEF Answered
  <2> QED
    BY <1>1, <1>6, <1>7, <2>1 DEF EffectOn, ReportedFor
<1>8. CASE r \notin RequestsOf(us)
  BY <1>1, <1>3, <1>4, <1>5, <1>8 DEF EffectOn, QuietFor, StatusQuiet, CountQuiet
<1> QED
  BY <1>7, <1>8

LEMMA EveryStepsEffect ==
  ASSUME SchedulerTypeOK, QueueExclusive, NothingPending,
         [AnyStep]_schedulerVars
  PROVE  StepEffect
<1> SUFFICES ASSUME NEW r \in Requests \ spoiled' PROVE EffectOn(r)
  BY DEF StepEffect
<1>t. status \in [Requests -> Statuses] /\ running \subseteq Requests
  BY DEF SchedulerTypeOK
<1>n. phase # "return" => Of(r) = {}
  BY SpoiledGrows DEF NothingPending, Of
<1>1. ASSUME NEW q \in Requests, AddRequest(q) PROVE EffectOn(r)
  BY <1>1, <1>t DEF AddRequest, generatorVars, EffectOn, QuietFor, Of,
                   StatusQuiet, CountQuiet, Finished
<1>2. ASSUME NEW q \in Requests, AbortRequest(q) \/ RemoveFinishedRequest(q)
      PROVE  EffectOn(r)
  BY <1>2, QuietKept DEF AbortRequest, RemoveFinishedRequest, stepVars,
              generatorVars
<1>3. CASE BeginStep \/ AbortsDone \/ PromoteDone \/ ScheduleDone
             \/ RecoverStreamThread \/ RescheduleDone
  BY <1>3, QuietKept DEF BeginStep, AbortsDone, PromoteDone, ScheduleDone,
              RecoverStreamThread, RescheduleDone, stepVars, generatorVars
<1>4. CASE Return \/ RequeueDone
  <2>1. /\ UNCHANGED <<status, outputTokens, emitted>>
        /\ outputs' = {} /\ phase' = "idle"
    BY <1>4 DEF Return, RequeueDone, EndStep, requestVars, generatorVars
  <2>2. Of(r)' = {}
    BY <2>1 DEF Of
  <2> QED
    BY <1>n, <2>1, <2>2 DEF EffectOn, TakenFor, QuietFor, StatusQuiet, CountQuiet
<1>5. ASSUME NEW q \in Requests,
             AbortBegin(q) \/ AbortRemove(q) \/ AbortRemoveRaises(q)
      PROVE  EffectOn(r)
  <2>1. CASE UNCHANGED <<requestVars, outputs, emitted>> /\ phase # "return"
    BY <2>1, QuietKept
  <2>2. ASSUME NEW known, FinishAbort(q, known), phase # "return",
               q \in pendingAborts \cup aborting
        PROVE  EffectOn(r)
    BY <2>2, FinishAbortIsQuiet
  <2> QED
    BY <1>5, <2>1, <2>2 DEF AbortBegin, AbortRemove, AbortRemoveRaises,
                                generatorVars
<1>6. CASE PromoteRaises
  <2>1. /\ RecoverFromGenerationError(running, outputs, status)
        /\ UNCHANGED <<outputTokens, emitted>> /\ phase # "return"
    BY <1>6 DEF PromoteRaises
  <2> QED
    BY <1>n, <2>1, RecoveryReports
<1>7. CASE ScheduleOne
  <2>1. Head(waiting) \in Queued
    BY <1>7, TailDistinct, QueueExclusiveAsSets
       DEF ScheduleOne, CanSchedule, SchedulerTypeOK, Queued
  <2>2. status[Head(waiting)] = "WAITING"
    BY <2>1, QueueExclusiveAsSets
  <2> QED
    <3> DEFINE q == Head(waiting)
    <3>1. /\ status' = [status EXCEPT ![q] = "RUNNING"]
          /\ emitted' = [emitted EXCEPT ![q] = 0]
          /\ UNCHANGED <<outputTokens, outputs, phase>>
      BY <1>7 DEF ScheduleOne, stepVars
    <3>2. emitted \in [Requests -> Nat]
      BY DEF SchedulerTypeOK
    <3> HIDE DEF q
    <3>3. status[q] = "WAITING"
      BY <2>2 DEF q
    <3> QED
      BY <3>1, <3>2, <3>3, <1>t
         DEF EffectOn, QuietFor, Of, StatusQuiet, CountQuiet, Finished
<1>8. CASE RaisingStep
  <2>1. phase # "return"
    <3>1. (ScheduleRaises \/ GenerateRaises) => phase # "return"
      BY DEF ScheduleRaises, GenerateRaises
    <3>2. \A us, stops, before, q :
            ProcessRaises(us, stops, before, q) \/ CleanupRaises(us, stops, before)
              => phase # "return"
      BY DEF ProcessRaises, CleanupRaises
    <3> QED
      BY <1>8, <3>1, <3>2 DEF RaisingStep
  <2> QED
    BY <1>8, <1>n, <2>1, RaisingEffect
<1>9. ASSUME NEW us, NEW stops \in SUBSET RequestsOf(us), Generate(us, stops)
      PROVE  EffectOn(r)
  <2>1. Of(r) = {}
    BY <1>9, <1>n DEF Generate
  <2> QED
    BY <1>9, <2>1, GenerateEffect
<1>10. CASE EpilogueRaises
  <2>1. /\ UNCHANGED <<status, outputTokens, emitted>> /\ outputs' = {}
        /\ spoiled' = spoiled \cup {o.id : o \in outputs}
    BY <1>10 DEF EpilogueRaises, requestVars, generatorVars
  <2>2. Of(r) = {} /\ Of(r)' = {}
    BY <2>1 DEF Of
  <2> QED
    BY <2>1, <2>2 DEF EffectOn, QuietFor, StatusQuiet, CountQuiet
<1>11. ASSUME NEW q \in Requests, RescheduleOne(q) PROVE EffectOn(r)
  <2>1. q = r => status[r] = "RUNNING"
    BY <1>11, SpoiledGrows DEF RescheduleOne, QueueExclusive
  <2> QED
    BY <1>11, <1>t, <2>1
     DEF RescheduleOne, generatorVars, stepVars, EffectOn, QuietFor, Of,
         StatusQuiet, CountQuiet, Finished
<1>12. CASE UNCHANGED schedulerVars
  BY <1>12, QuietKept DEF schedulerVars, requestVars
<1> QED
  BY <1>1, <1>2, <1>3, <1>4, <1>5, <1>6, <1>7, <1>8, <1>9, <1>10, <1>11, <1>12,
     StepActionCases DEF AnyStep, WorkerStep

-----------------------------------------------------------------------------
(* What a step reports is how the request ended.                           *)

(* "finish" is how r ended.                                                *)
Matches(finish, r) ==
  \/ finish = "stop" /\ status[r] = "FINISHED_STOPPED"
  \/ /\ finish = "length" /\ status[r] = "FINISHED_LENGTH_CAPPED"
     /\ outputTokens[r] >= MaxTokens
  \/ finish = "error" /\ status[r] = "FINISHED_ABORTED"

EmittedBounded(r) == status[r] = "RUNNING" => emitted[r] <= outputTokens[r]

(* An output tells how its request ended, unless an error output of the    *)
(* same step overrules it.                                                 *)
OutputsHonest(r) ==
  \A o \in Of(r) : o.finish # None =>
    \/ Matches(o.finish, r)
    \/ o.finish # "error" /\ \E p \in Of(r) : p.finish = "error"

(* At most one response, and at most one error, for each request.          *)
OutputsUnique(r) ==
  \A o, p \in Of(r) : (o.finish = "error" <=> p.finish = "error") => o = p

OutputsInv ==
  /\ NothingPending
  /\ \A r \in Requests \ spoiled :
       EmittedBounded(r) /\ OutputsHonest(r) /\ OutputsUnique(r)

LEMMA InitOutputsInv == SchedulerInit => OutputsInv
BY DEF SchedulerInit, OutputsInv, NothingPending, EmittedBounded, OutputsHonest,
       OutputsUnique, Of

LEMMA EffectKeepsBound ==
  ASSUME SchedulerTypeOK, NEW r \in Requests, EmittedBounded(r), EffectOn(r),
         r \in running => status[r] = "RUNNING"
  PROVE  EmittedBounded(r)'
<1>0. emitted[r] \in Nat /\ outputTokens[r] \in Nat
  BY DEF SchedulerTypeOK
<1>1. CASE QuietFor(r)
  BY <1>0, <1>1 DEF QuietFor, CountQuiet, EmittedBounded
<1>2. CASE TakenFor(r)
  BY <1>2 DEF TakenFor, EmittedBounded
<1>3. CASE ReportedFor(r)
  BY <1>0, <1>3 DEF ReportedFor, Failed, Answered, AnsweredAndFailed, EmittedBounded
<1> QED
  BY <1>1, <1>2, <1>3 DEF EffectOn

LEMMA QuietKeepsHonest ==
  ASSUME SchedulerTypeOK, NEW r \in Requests, OutputsHonest(r), OutputsUnique(r),
         QuietFor(r), phase # "return" => Of(r) = {}
  PROVE  OutputsHonest(r)' /\ OutputsUnique(r)'
<1>1. Of(r)' = Of(r)
  BY DEF QuietFor
<1>2. CASE Of(r) = {}
  BY <1>1, <1>2 DEF OutputsHonest, OutputsUnique
<1>3. CASE phase = "return"
  <2>1. ASSUME NEW finish, Matches(finish, r) PROVE Matches(finish, r)'
    BY <1>3, <2>1 DEF Matches, QuietFor, StatusQuiet, Finished
  <2> QED
    BY <1>1, <2>1 DEF OutputsHonest, OutputsUnique
<1> QED
  BY <1>2, <1>3

LEMMA ReportIsHonest ==
  ASSUME SchedulerTypeOK, NEW r \in Requests, EmittedBounded(r),
         status[r] = "RUNNING", ReportedFor(r)
  PROVE  OutputsHonest(r)' /\ OutputsUnique(r)'
<1>1. CASE Failed(r)
  BY <1>1 DEF Failed, ErrorOf, OutputsHonest, OutputsUnique, Matches
<1>2. ASSUME NEW stops, Answered(r, stops)
      PROVE  OutputsHonest(r)' /\ OutputsUnique(r)'
  <2>0. PICK o : o = Response(r, stops)
    OBVIOUS
  <2>1. Of(r)' = {o} /\ outputTokens'[r] = outputTokens[r] + 1
        /\ (o.finish # None => status'[r] = FinishStatus(o.finish))
    BY <1>2, <2>0 DEF Answered
  <2>2. \/ o.finish \in {"stop", None}
        \/ o.finish = "length" /\ emitted[r] + 1 >= MaxTokens
    BY <2>0 DEF Response
  <2>3. emitted[r] <= outputTokens[r] /\ emitted[r] \in Nat
        /\ outputTokens[r] \in Nat /\ MaxTokens \in Nat
    BY SchedulerAssumption DEF EmittedBounded, SchedulerTypeOK
  <2>4. emitted[r] + 1 >= MaxTokens => outputTokens'[r] >= MaxTokens
    BY <2>1, <2>3
  <2>5. o.finish # None => Matches(o.finish, r)'
    BY <2>1, <2>2, <2>4 DEF Matches, FinishStatus
  <2> QED
    BY <2>1, <2>5 DEF OutputsHonest, OutputsUnique
<1>3. ASSUME NEW stops, AnsweredAndFailed(r, stops)
      PROVE  OutputsHonest(r)' /\ OutputsUnique(r)'
  <2>1. Response(r, stops).finish # "error"
    BY DEF Response, None
  <2>2. ErrorOf(r).finish = "error"
    BY DEF ErrorOf
  <2>3. Of(r)' = {Response(r, stops), ErrorOf(r)}
        /\ status'[r] = "FINISHED_ABORTED"
    BY <1>3 DEF AnsweredAndFailed
  <2>4. Matches("error", r)'
    BY <2>3 DEF Matches
  <2> QED
    BY <2>1, <2>2, <2>3, <2>4 DEF OutputsHonest, OutputsUnique
<1> QED
  BY <1>1, <1>2, <1>3 DEF ReportedFor

LEMMA EffectKeepsPending ==
  ASSUME NEW r \in Requests, EffectOn(r), phase # "return" => Of(r) = {}
  PROVE  phase' # "return" => Of(r)' = {}
BY DEF EffectOn, QuietFor, TakenFor, ReportedFor

LEMMA NextOutputsInv ==
  ASSUME SchedulerTypeOK, SchedulerTypeOK', QueueExclusive, OutputsInv,
         [AnyStep]_schedulerVars
  PROVE  OutputsInv'
<1>0. StepEffect /\ spoiled \subseteq spoiled'
  BY EveryStepsEffect, SpoiledGrows DEF OutputsInv
<1>1. ASSUME NEW r \in Requests \ spoiled'
      PROVE  /\ EffectOn(r) /\ r \in Requests \ spoiled
             /\ phase # "return" => Of(r) = {}
             /\ r \in running => status[r] = "RUNNING"
             /\ EmittedBounded(r) /\ OutputsHonest(r) /\ OutputsUnique(r)
  BY <1>0, <1>1 DEF StepEffect, OutputsInv, NothingPending, Of, QueueExclusive
<1>2. NothingPending'
  <2> SUFFICES ASSUME phase' # "return", NEW o \in outputs', o.id \notin spoiled'
               PROVE  FALSE
    BY DEF NothingPending
  <2>1. o.id \in Requests \ spoiled'
    BY DEF SchedulerTypeOK, Outputs
  <2>2. EffectOn(o.id) /\ (phase # "return" => Of(o.id) = {})
    BY <1>1, <2>1
  <2>3. Of(o.id)' = {}
    BY <2>1, <2>2, EffectKeepsPending
  <2> QED
    BY <2>3 DEF Of
<1>3. ASSUME NEW r \in Requests \ spoiled'
      PROVE  EmittedBounded(r)' /\ OutputsHonest(r)' /\ OutputsUnique(r)'
  <2>1. EmittedBounded(r)'
    BY <1>1, EffectKeepsBound
  <2>2. CASE QuietFor(r)
    BY <1>1, <2>1, <2>2, QuietKeepsHonest
  <2>3. CASE TakenFor(r)
    BY <2>1, <2>3 DEF TakenFor, OutputsHonest, OutputsUnique
  <2>4. CASE ReportedFor(r)
    <3>1. status[r] = "RUNNING"
      BY <1>1, <2>4 DEF ReportedFor
    <3> QED
      BY <1>1, <2>1, <2>4, <3>1, ReportIsHonest
  <2> QED
    BY <1>1, <2>2, <2>3, <2>4 DEF EffectOn
<1> QED
  BY <1>2, <1>3 DEF OutputsInv

(* A request that has finished keeps the way it ended, unless the worker   *)
(* still has an abort of it to do, and nothing more is reported for it.    *)
LEMMA EndIsKept ==
  ASSUME SchedulerTypeOK, QueueExclusive, OutputsInv, [AnyStep]_schedulerVars,
         NEW r \in Requests, r \notin spoiled', status[r] \in Finished
  PROVE  /\ r \notin pendingAborts \cup aborting =>
              UNCHANGED <<status[r], outputTokens[r]>>
         /\ \A o \in outputs' : o.id = r => o \in outputs
<1>1. EffectOn(r) /\ r \notin running
  BY EveryStepsEffect, SpoiledGrows DEF OutputsInv, StepEffect, QueueExclusive, Finished
<1>2. /\ r \notin pendingAborts \cup aborting =>
              UNCHANGED <<status[r], outputTokens[r]>>
      /\ Of(r)' \subseteq Of(r)
  BY <1>1 DEF EffectOn, QuietFor, StatusQuiet, TakenFor, ReportedFor
<1> QED
  BY <1>2 DEF Of

(* A request that finishes without an abort of its own is reported.        *)
LEMMA EndIsReported ==
  ASSUME SchedulerTypeOK, QueueExclusive, OutputsInv, [AnyStep]_schedulerVars,
         NEW r \in Requests, r \notin spoiled',
         status[r] \notin Finished, status'[r] \in Finished,
         r \notin pendingAborts \cup aborting
  PROVE  \E o \in outputs' : o.id = r /\ o.finish # None
<1>1. EffectOn(r)
  BY EveryStepsEffect DEF OutputsInv, StepEffect
<1>2. ReportedFor(r)
  BY <1>1 DEF EffectOn, QuietFor, StatusQuiet, TakenFor
<1>3. \E o \in Of(r)' : o.finish # None
  <2>1. CASE Failed(r)
    BY <2>1 DEF Failed, ErrorOf, None
  <2>2. ASSUME NEW stops, Answered(r, stops) PROVE \E o \in Of(r)' : o.finish # None
    BY <2>2 DEF Answered
  <2>3. ASSUME NEW stops, AnsweredAndFailed(r, stops)
        PROVE  \E o \in Of(r)' : o.finish # None
    BY <2>3 DEF AnsweredAndFailed, ErrorOf, None
  <2> QED
    BY <1>2, <2>1, <2>2, <2>3 DEF ReportedFor
<1> QED
  BY <1>3 DEF Of

-----------------------------------------------------------------------------
(* The scheduler: no request finishes in silence.                          *)

AbortsAreCalled == pendingAborts \cup aborting \subseteq aborted

(* Only abort_request adds to the aborts the worker has to do.             *)
LEMMA WorkerAbortsShrink ==
  ASSUME SchedulerTypeOK, WorkerStep
  PROVE  /\ pendingAborts' \cup aborting' \subseteq pendingAborts \cup aborting
         /\ aborted' = aborted
<1>1. ASSUME NEW r, AbortBegin(r) \/ AbortRemove(r) \/ AbortRemoveRaises(r)
      PROVE  /\ pendingAborts' \cup aborting' \subseteq pendingAborts \cup aborting
             /\ aborted' = aborted
  BY <1>1 DEF AbortBegin, AbortRemove, AbortRemoveRaises, FinishAbort
<1>2. RaisingStep => UNCHANGED <<pendingAborts, aborting, aborted>>
  BY RaisingIsSound, HandleOutcome
<1>3. \/ \E r : AbortBegin(r) \/ AbortRemove(r) \/ AbortRemoveRaises(r)
      \/ UNCHANGED <<pendingAborts, aborting, aborted>>
  BY <1>2, StepActionCases
     DEF WorkerStep, BeginStep, AbortsDone, PromoteDone, PromoteRaises,
         ScheduleOne, ScheduleDone, Generate, EpilogueRaises, RescheduleOne,
         RescheduleDone, Return, RecoverStreamThread, RequeueDone, stepVars
<1> QED
  BY <1>1, <1>3

LEMMA AbortsCalledInductive ==
  /\ SchedulerInit => AbortsAreCalled
  /\ SchedulerTypeOK /\ AbortsAreCalled /\ [AnyStep]_schedulerVars => AbortsAreCalled'
<1>1. SchedulerInit => AbortsAreCalled
  BY DEF SchedulerInit, AbortsAreCalled
<1>2. ASSUME AbortsAreCalled, NEW r \in Requests,
             AddRequest(r) \/ AbortRequest(r) \/ RemoveFinishedRequest(r)
      PROVE  AbortsAreCalled'
  BY <1>2 DEF AddRequest, AbortRequest, RemoveFinishedRequest, stepVars,
              AbortsAreCalled
<1>3. SchedulerTypeOK /\ AbortsAreCalled /\ WorkerStep => AbortsAreCalled'
  BY WorkerAbortsShrink DEF AbortsAreCalled
<1>4. AbortsAreCalled /\ UNCHANGED schedulerVars => AbortsAreCalled'
  BY DEF schedulerVars, AbortsAreCalled
<1> QED
  BY <1>1, <1>2, <1>3, <1>4 DEF AnyStep

(* What is new in the output is about a request of the batch.              *)
LEMMA NewOutputs ==
  ASSUME SchedulerTypeOK, [AnyStep]_schedulerVars, NEW o \in outputs' \ outputs
  PROVE  o.id \in running
<1>1. ASSUME NEW rs \in SUBSET running, NEW produced, NEW st,
             RecoverFromGenerationError(rs, produced, st),
             \A p \in produced : p \in outputs \/ p.id \in running
      PROVE  o.id \in running
  BY <1>1 DEF RecoverFromGenerationError, ErrorOutputs
<1>2. CASE RaisingStep
  <2>k. PICK kind \in Kinds :
          \E site, at : Handle(site, kind, at) /\ Sound(kind, at)
    BY <1>2, RaisingIsSound
  <2>1. PICK site, at : Handle(site, kind, at) /\ Sound(kind, at)
    BY <2>k
  <2>2. CASE RecoverFromGenerationError(at.running, at.outputs, at.status)
    BY <1>1, <2>1, <2>2 DEF Sound
  <2>3. CASE outputs' = at.outputs \/ outputs' = {}
    BY <2>1, <2>3 DEF Sound
  <2> QED
    BY <2>1, <2>2, <2>3, HandleOutcome
<1>3. CASE PromoteRaises
  BY <1>1, <1>3 DEF PromoteRaises
<1>4. ASSUME NEW us, NEW stops, Generate(us, stops) PROVE o.id \in running
  BY <1>4 DEF Generate, Responses, Response, RequestsOf
<1>5. CASE outputs' \subseteq outputs
  BY <1>5
<1>6. \/ RaisingStep \/ PromoteRaises \/ (\E us, stops : Generate(us, stops))
      \/ outputs' \subseteq outputs
  BY StepActionCases
     DEF AnyStep, WorkerStep, AddRequest, AbortRequest, RemoveFinishedRequest,
         BeginStep, AbortBegin, AbortRemove, AbortRemoveRaises, FinishAbort,
         AbortsDone, PromoteDone, ScheduleOne, ScheduleDone, EpilogueRaises,
         RescheduleOne, RescheduleDone, Return, RecoverStreamThread,
         RequeueDone, EndStep, stepVars, schedulerVars
<1> QED
  BY <1>2, <1>3, <1>4, <1>5, <1>6

(* Unless its owner aborted it, the step in which a request finishes has a *)
(* finished output for it, such an output is only produced for a request   *)
(* that was unfinished until then, and it is handed over: through step(),  *)
(* its retries and its recoveries, up to the responses a failing step lost.*)
THEOREM EveryEndReported == SchedulerSafety => FinishReported
<1> DEFINE Inv == SchedulerInv /\ OutputsInv /\ AbortsAreCalled
           Reports ==
             /\ \A r \in Requests :
                  (status[r] \notin Finished /\ status'[r] \in Finished) =>
                    \/ r \in aborted \/ r \in spoiled'
                    \/ \E o \in outputs' : o.id = r /\ o.finish # None
             /\ \A o \in outputs' \ outputs :
                  o.finish # None => status[o.id] \notin Finished \/ o.id \in spoiled
             /\ \A o \in outputs \ outputs' :
                  \/ (phase = "return" /\ phase' = "idle")
                  \/ o.id \in spoiled'
<1>1. SchedulerInit => Inv
  BY SchedulerInvInductive, InitOutputsInv, AbortsCalledInductive
<1>2. Inv /\ [SchedulerNext]_schedulerVars => Inv'
  <2> SUFFICES ASSUME Inv, [AnyStep]_schedulerVars PROVE Inv'
    BY NextIsAnyStep
  <2>1. SchedulerInv'
    BY SchedulerInvInductive
  <2> QED
    BY <2>1, NextOutputsInv, AbortsCalledInductive DEF SchedulerInv, QueueInv
<1>3. Inv /\ [SchedulerNext]_schedulerVars => Reports
  <2> SUFFICES ASSUME Inv, [AnyStep]_schedulerVars PROVE Reports
    BY NextIsAnyStep
  <2>0. SchedulerTypeOK /\ QueueExclusive /\ OutputsInv
    BY DEF SchedulerInv, QueueInv
  <2>1. ASSUME NEW r \in Requests, status[r] \notin Finished,
               status'[r] \in Finished, r \notin aborted, r \notin spoiled'
        PROVE  \E o \in outputs' : o.id = r /\ o.finish # None
    BY <2>0, <2>1, EndIsReported DEF AbortsAreCalled
  <2>2. ASSUME NEW o \in outputs' \ outputs
        PROVE  status[o.id] \notin Finished \/ o.id \in spoiled
    BY <2>0, NewOutputs, QueueExclusiveAsSets DEF InBatch, Finished
  <2>3. ASSUME NEW o \in outputs \ outputs', o.id \notin spoiled'
        PROVE  phase = "return" /\ phase' = "idle"
    <3>1. o.id \in Requests
      BY <2>0, <2>3 DEF SchedulerTypeOK, Outputs
    <3>2. EffectOn(o.id)
      BY <2>0, <2>3, <3>1, EveryStepsEffect DEF OutputsInv, StepEffect
    <3>3. phase = "return"
      BY <2>0, <2>3, SpoiledGrows DEF OutputsInv, NothingPending
    <3>4. o \in Of(o.id) /\ o \notin Of(o.id)'
      BY <2>3 DEF Of
    <3> QED
      BY <3>2, <3>3, <3>4 DEF EffectOn, QuietFor, TakenFor, ReportedFor
  <2> QED
    BY <2>1, <2>2, <2>3
<1> QED
  BY <1>1, <1>2, <1>3, PTL DEF SchedulerSafety, FinishReported

-----------------------------------------------------------------------------
(* The effect of an abort.  A request that is taken out of the pending     *)
(* aborts is either the one being aborted, or missed, or out of the queue  *)
(* and of the batch for good.                                              *)

OneAbort ==
  /\ phase # "remove" => aborting = {}
  /\ \A r, q \in aborting : r = q

AbortedIsKnown == \A r \in aborted : r \in Requests /\ status[r] # "NEW"

AbortInv == OneAbort /\ AbortedIsKnown /\ AbortTakesEffect

LEMMA InitAbortInv == SchedulerInit => AbortInv
BY DEF SchedulerInit, AbortInv, OneAbort, AbortedIsKnown, AbortTakesEffect

LEMMA NextOneAbort ==
  ASSUME SchedulerTypeOK, OneAbort, [AnyStep]_schedulerVars
  PROVE  OneAbort'
<1>1. ASSUME NEW r, AbortBegin(r) \/ AbortRemove(r) \/ AbortRemoveRaises(r)
      PROVE  OneAbort'
  BY <1>1 DEF AbortBegin, AbortRemove, AbortRemoveRaises, OneAbort
<1>2. ASSUME NEW r, \/ AddRequest(r) \/ AbortRequest(r)
                    \/ RemoveFinishedRequest(r) \/ RescheduleOne(r)
      PROVE  OneAbort'
  BY <1>2 DEF AddRequest, AbortRequest, RemoveFinishedRequest, RescheduleOne,
              stepVars, OneAbort
<1>3. CASE BeginStep \/ AbortsDone \/ PromoteDone \/ ScheduleOne
             \/ ScheduleDone \/ RescheduleDone \/ Return
             \/ RecoverStreamThread \/ RequeueDone
  BY <1>3 DEF BeginStep, AbortsDone, BeginScheduling, PromoteDone, ScheduleOne,
              ScheduleDone, RescheduleDone, Return, RecoverStreamThread,
              RequeueDone, stepVars, OneAbort
<1>4. ASSUME UNCHANGED aborting, phase' # "remove", phase # "remove"
      PROVE  OneAbort'
  BY <1>4 DEF OneAbort
<1>5. CASE PromoteRaises \/ EpilogueRaises \/ \E us, stops : Generate(us, stops)
  BY <1>4, <1>5 DEF PromoteRaises, EpilogueRaises, Escape, Generate,
                    RecoverFromGenerationError
<1>6. CASE RaisingStep
  <2>k. PICK kind \in Kinds :
          \E site, at : Handle(site, kind, at)
    BY <1>6, RaisingIsSound
  <2>1. PICK site, at : Handle(site, kind, at)
    BY <2>k
  <2>2. UNCHANGED aborting /\ phase' # "remove"
    BY <2>1, HandleOutcome DEF RecoverFromGenerationError
  <2>3. phase # "remove"
    <3>1. (ScheduleRaises \/ GenerateRaises) => phase # "remove"
      BY DEF ScheduleRaises, GenerateRaises
    <3>2. \A us, stops, before, q :
            ProcessRaises(us, stops, before, q) \/ CleanupRaises(us, stops, before)
              => phase # "remove"
      BY DEF ProcessRaises, CleanupRaises
    <3> QED
      BY <1>6, <3>1, <3>2 DEF RaisingStep
  <2> QED
    BY <1>4, <2>2, <2>3
<1>7. CASE UNCHANGED schedulerVars
  BY <1>7 DEF schedulerVars, OneAbort
<1> QED
  BY <1>1, <1>2, <1>3, <1>5, <1>6, <1>7, StepActionCases DEF AnyStep, WorkerStep

(* A request is submitted once.                                            *)
LEMMA NeverNew ==
  ASSUME SchedulerTypeOK, [AnyStep]_schedulerVars, NEW r \in Requests,
         status[r] # "NEW"
  PROVE  status'[r] # "NEW"
<1>t. status \in [Requests -> Statuses]
  BY DEF SchedulerTypeOK
<1>1. ASSUME NEW q, \/ AddRequest(q) \/ RescheduleOne(q)
                    \/ \E known : FinishAbort(q, known)
      PROVE  status'[r] # "NEW"
  BY <1>1, <1>t DEF AddRequest, RescheduleOne, FinishAbort
<1>2. CASE ScheduleOne
  <2> DEFINE q == Head(waiting)
  <2>1. status' = [status EXCEPT ![q] = "RUNNING"]
    BY <1>2 DEF ScheduleOne
  <2> HIDE DEF q
  <2> QED
    BY <1>t, <2>1
<1>3. CASE RaisingStep
  <2>k. PICK kind \in Kinds :
          \E site, at : Handle(site, kind, at) /\ Sound(kind, at)
    BY <1>3, RaisingIsSound
  <2>1. PICK site, at : Handle(site, kind, at) /\ Sound(kind, at)
    BY <2>k
  <2>2. at.status[r] # "NEW"
    BY <2>1 DEF Sound, Finished
  <2>3. CASE RecoverFromGenerationError(at.running, at.outputs, at.status)
    BY <2>2, <2>3 DEF RecoverFromGenerationError
  <2> QED
    BY <2>1, <2>2, <2>3, HandleOutcome
<1>4. CASE PromoteRaises
  BY <1>4 DEF PromoteRaises, RecoverFromGenerationError
<1>5. ASSUME NEW us, NEW stops, Generate(us, stops) PROVE status'[r] # "NEW"
  BY <1>5 DEF Generate, StatusAfter, FinishStatus
<1>6. CASE status' = status
  BY <1>6
<1> QED
  BY <1>1, <1>2, <1>3, <1>4, <1>5, <1>6, StepActionCases
     DEF AnyStep, WorkerStep, AbortRequest, RemoveFinishedRequest, BeginStep,
         AbortBegin, AbortRemove, AbortRemoveRaises, AbortsDone, PromoteDone,
         ScheduleDone, EpilogueRaises, RescheduleDone, Return,
         RecoverStreamThread, RequeueDone, requestVars, schedulerVars

LEMMA NextAbortedIsKnown ==
  ASSUME SchedulerTypeOK, AbortedIsKnown, [AnyStep]_schedulerVars
  PROVE  AbortedIsKnown'
<1>1. \A r \in aborted' : r \in Requests /\ status[r] # "NEW"
  <2>1. \/ aborted' = aborted
        \/ \E r \in Requests : aborted' = aborted \cup {r} /\ status[r] # "NEW"
    BY WorkerAbortsShrink
       DEF AnyStep, AddRequest, AbortRequest, RemoveFinishedRequest, schedulerVars
  <2> QED
    BY <2>1 DEF AbortedIsKnown
<1> QED
  BY <1>1, NeverNew DEF AbortedIsKnown

LEMMA MissedGrows ==
  ASSUME SchedulerTypeOK, [AnyStep]_schedulerVars
  PROVE  missed \subseteq missed'
<1>1. RaisingStep => missed' = missed
  BY RaisingIsSound, HandleOutcome
<1> QED
  BY <1>1, StepActionCases
     DEF AnyStep, WorkerStep, AddRequest, AbortRequest, RemoveFinishedRequest,
         BeginStep, AbortBegin, AbortRemove, AbortRemoveRaises, AbortsDone,
         PromoteDone, PromoteRaises, ScheduleOne, ScheduleDone, Generate,
         EpilogueRaises, RescheduleOne, RescheduleDone, Return,
         RecoverStreamThread, RequeueDone, schedulerVars

LEMMA NextAbortTakesEffect ==
  ASSUME SchedulerInv, AbortInv, [AnyStep]_schedulerVars
  PROVE  AbortTakesEffect'
<1> SUFFICES ASSUME NEW r \in aborted', r \notin pendingAborts',
                    r \notin aborting', r \notin missed'
             PROVE  r \notin Queued' \cup running'
  BY DEF AbortTakesEffect
<1>0. SchedulerTypeOK /\ QueueInv /\ missed \subseteq missed'
  BY MissedGrows DEF SchedulerInv
<1>1. CASE r \in aborted /\ r \notin pendingAborts /\ r \notin aborting
  BY <1>0, <1>1, NextPlaces
     DEF AbortInv, AbortTakesEffect, AbortedIsKnown
<1>2. CASE AbortBegin(r)
  <2>1. /\ FinishAbort(r, r \in requests) /\ UNCHANGED waiting
        /\ missed' = IF r \in Queued THEN missed \cup {r} ELSE missed
    BY <1>2 DEF AbortBegin
  <2>2. r \notin Queued
    BY <2>1
  <2> QED
    BY <2>1, <2>2 DEF FinishAbort, Queued
<1>3. CASE AbortRemove(r) /\ r \in Requests
  <2>1. r \notin Queued'
    BY <1>0, <1>3, QueueTakenOff DEF AbortRemove
  <2> QED
    BY <1>3, <2>1 DEF AbortRemove, FinishAbort
<1>4. CASE r \in pendingAborts \cup aborting \cup (aborted' \ aborted)
  <2>1. WorkerStep
    BY <1>4 DEF AnyStep, AddRequest, AbortRequest, RemoveFinishedRequest,
                stepVars, schedulerVars
  <2>2. r \in pendingAborts \cup aborting
    BY <1>0, <1>4, <2>1, WorkerAbortsShrink
  <2>3. RaisingStep => UNCHANGED <<pendingAborts, aborting>>
    BY <1>0, RaisingIsSound, HandleOutcome
  <2>4. \E q \in Requests : AbortBegin(q) \/ AbortRemove(q) \/ AbortRemoveRaises(q)
    BY <2>1, <2>2, <2>3, StepActionCases
       DEF WorkerStep, BeginStep, AbortsDone, PromoteDone, PromoteRaises,
           ScheduleOne, ScheduleDone, Generate, EpilogueRaises, RescheduleOne,
           RescheduleDone, Return, RecoverStreamThread, RequeueDone, stepVars
  <2>5. PICK q \in Requests : AbortBegin(q) \/ AbortRemove(q) \/ AbortRemoveRaises(q)
    BY <2>4
  <2>6. q = r
    BY <2>2, <2>5 DEF AbortBegin, AbortRemove, AbortRemoveRaises, AbortInv, OneAbort
  <2>7. ~AbortRemoveRaises(r)
    BY DEF AbortRemoveRaises
  <2> QED
    BY <1>2, <1>3, <2>5, <2>6, <2>7
<1> QED
  BY <1>1, <1>4

LEMMA AbortInvInductive ==
  ASSUME SchedulerInv, AbortInv, [AnyStep]_schedulerVars
  PROVE  AbortInv'
<1>1. SchedulerTypeOK
  BY DEF SchedulerInv
<1>2. OneAbort' /\ AbortedIsKnown'
  BY <1>1, NextOneAbort, NextAbortedIsKnown DEF AbortInv
<1>3. AbortTakesEffect'
  BY NextAbortTakesEffect
<1> QED
  BY <1>2, <1>3 DEF AbortInv

(* Once the worker has taken an abort, no retry and no recovery brings the *)
(* request back, whenever its owner forgets it: all but those the worker   *)
(* missed in the queue.                                                    *)
THEOREM AbortsTakeEffect == SchedulerSafety => []AbortTakesEffect
<1> DEFINE Inv == SchedulerInv /\ AbortInv
<1>1. SchedulerInit => Inv
  BY SchedulerInvInductive, InitAbortInv
<1>2. Inv /\ [SchedulerNext]_schedulerVars => Inv'
  BY SchedulerInvInductive, AbortInvInductive, NextIsAnyStep
<1> QED
  BY <1>1, <1>2, PTL DEF SchedulerSafety, AbortInv
=============================================================================
