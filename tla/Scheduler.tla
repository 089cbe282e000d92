----------------------------- MODULE Scheduler -----------------------------
(***************************************************************************)
(* The continuous-batching scheduler, vllm_mlx/scheduler.py.               *)
(*                                                                         *)
(* Two threads share it.  The event loop submits requests, enqueues aborts *)
(* and forgets requests; the generation worker runs Scheduler.step().  The *)
(* variable "phase" is the program counter of step(): each action of the   *)
(* worker is a stretch of code between two points at which a call of the   *)
(* event loop can change something the worker reads.                       *)
(*                                                                         *)
(* Tokens are counted, not represented, and the prompt cache a request     *)
(* starts from is left out.  The BatchGenerator of mlx_lm is external and  *)
(* modelled from the way step() uses it.                                   *)
(***************************************************************************)
EXTENDS Integers, Sequences, FiniteSets, SequencesExt

CONSTANTS
  Requests,     \* the requests submitted in one life of the scheduler
  Params,       \* sampler settings: (temperature, top_p, min_p)
  ParamsOf,     \* the sampler settings each request asks for
  MaxNumSeqs,   \* SchedulerConfig.max_num_seqs
  MaxTokens,    \* SamplingParams.max_tokens, the same for every request
  MaxRetries,   \* step(max_retries=1)
  SsdTier,      \* is an SSD cache tier attached?
  Races,        \* may a deque be seen mutated by the other thread?
  Faults,       \* the <<site, kind>> pairs that may raise
  MaxFaults     \* how often something raises in a behaviour

None == "none"

(* Where an exception leaves mlx, mlx_lm or the tokenizer (building the    *)
(* BatchGenerator, inserting a prompt, generating, going through the       *)
(* responses, cleaning up the finished requests, and after the try of      *)
(* step()), and how step() classifies it:                                  *)
(* a TypeError that looks like cache corruption, any other TypeError, a    *)
(* stream/thread mismatch, or anything else (out of memory, Metal crash).  *)
Sites == {"create", "insert", "next", "process", "cleanup", "epilogue"}
Kinds == {"corruption", "type", "stream", "fatal"}

ASSUME SchedulerAssumption ==
  /\ IsFiniteSet(Requests)
  /\ None \notin Params
  /\ ParamsOf \in [Requests -> Params]
  /\ MaxNumSeqs \in Nat \ {0}
  /\ MaxTokens \in Nat \ {0}
  /\ MaxRetries \in Nat
  /\ SsdTier \in BOOLEAN
  /\ Races \in BOOLEAN
  /\ Faults \subseteq Sites \X Kinds
  /\ MaxFaults \in Nat

VARIABLES
  (* State of the Scheduler object. *)
  requests,        \* the keys of self.requests
  waiting,         \* self.waiting, a deque
  running,         \* the keys of self.running
  requestIdToUid,  \* self.request_id_to_uid, NoUid where there is no key
  uidToRequestId,  \* self.uid_to_request_id, as a set of pairs
  pendingAborts,   \* self._pending_abort_ids
  (* State of the Request objects. *)
  status,          \* request.status; "NEW" until it is submitted
  outputTokens,    \* len(request.output_token_ids)
  (* The BatchGenerator. *)
  generator,       \* the sampler settings it was built with, or None
  sequences,       \* the uids it holds
  nextUid,         \* its uid counter: every BatchGenerator counts from 0
  emitted,         \* tokens it has produced for the request's last insertion
  (* One call of step(). *)
  phase,
  attempt,
  aborting,        \* the request being taken out of the waiting queue
  mutated,         \* the event loop appended to waiting in this phase
  outputs,         \* SchedulerOutput.outputs
  (* Bookkeeping of the model: what happened so far, read by the properties. *)
  aborted,         \* the requests abort_request was called for
  missed,          \* those of them the worker failed to take out of waiting
  spoiled,         \* those whose responses a step lost without an error
  faults           \* exceptions raised so far

requestVars   == <<status, outputTokens>>
uidVars       == <<requestIdToUid, uidToRequestId>>
generatorVars == <<generator, sequences, nextUid, emitted>>
queueVars     == <<requests, waiting, running>>
callerVars    == <<requests, pendingAborts, aborted>>
stepVars      == <<attempt, aborting, mutated, outputs>>
schedulerVars ==
  <<requests, waiting, running, requestIdToUid, uidToRequestId, pendingAborts,
    status, outputTokens, generator, sequences, nextUid, emitted, phase,
    attempt, aborting, mutated, outputs, aborted, missed, spoiled, faults>>

NoUid == -1

Finished == {"FINISHED_STOPPED", "FINISHED_LENGTH_CAPPED", "FINISHED_ABORTED"}
Statuses == {"NEW", "WAITING", "RUNNING"} \cup Finished
Reasons  == {None, "stop", "length", "error"}
Outputs  == [id : Requests, new : {0, 1}, completion : Nat, finish : Reasons]

(* The points of step() between which the event loop may run; "idle" when  *)
(* no step() is in progress, "return" and the two "raised" phases when its *)
(* result or exception has not reached the caller yet.                     *)
Phases == {"idle", "aborts", "remove", "promote", "schedule", "generate",
           "reschedule", "requeue", "return", "raised", "streamError"}

Queued == ToSet(waiting)

-----------------------------------------------------------------------------
SchedulerInit ==
  /\ requests = {} /\ waiting = <<>> /\ running = {}
  /\ requestIdToUid = [r \in Requests |-> NoUid]
  /\ uidToRequestId = {}
  /\ pendingAborts = {} /\ aborted = {} /\ missed = {} /\ spoiled = {}
  /\ status = [r \in Requests |-> "NEW"]
  /\ outputTokens = [r \in Requests |-> 0]
  /\ generator = None /\ sequences = {} /\ nextUid = 0
  /\ emitted = [r \in Requests |-> 0]
  /\ phase = "idle" /\ attempt = 0 /\ aborting = {} /\ mutated = FALSE
  /\ outputs = {} /\ faults = 0

-----------------------------------------------------------------------------
(* The event loop's calls.                                                 *)

(* add_request: ids are fresh uuids, so a request is submitted once.       *)
AddRequest(r) ==
  /\ status[r] = "NEW"
  /\ requests' = requests \cup {r}
  /\ waiting' = Append(waiting, r)
  /\ status' = [status EXCEPT ![r] = "WAITING"]
  /\ mutated' = (phase \in {"remove", "promote"})
  /\ UNCHANGED <<running, uidVars, pendingAborts, outputTokens, generatorVars,
                 phase, attempt, aborting, outputs, aborted, missed, spoiled,
                 faults>>

(* abort_request only enqueues: the worker does the abort.                 *)
AbortRequest(r) ==
  /\ status[r] # "NEW"
  /\ pendingAborts' = pendingAborts \cup {r}
  /\ aborted' = aborted \cup {r}
  /\ UNCHANGED <<queueVars, uidVars, requestVars, generatorVars, phase,
                 stepVars, missed, spoiled, faults>>

RemoveFinishedRequest(r) ==
  /\ r \in requests
  /\ requests' = requests \ {r}
  /\ UNCHANGED <<waiting, running, uidVars, pendingAborts, requestVars,
                 generatorVars, phase, stepVars, aborted, missed, spoiled,
                 faults>>

-----------------------------------------------------------------------------
(* step(): the deferred aborts.                                            *)

HasRequests_RunningOnly == running # {}
HasRequests == waiting # <<>> \/ running # {}

BeginStep ==
  /\ phase = "idle"
  /\ HasRequests
  /\ phase' = "aborts"
  /\ UNCHANGED <<queueVars, uidVars, pendingAborts, requestVars, generatorVars,
                 stepVars, aborted, missed, spoiled, faults>>

(* The uid maps forget requests that are out of the batch.                 *)
ForgetUids(rs) ==
  /\ uidToRequestId' =
       {p \in uidToRequestId : \A r \in rs : p[1] # requestIdToUid[r]}
  /\ requestIdToUid' = [r \in Requests |-> IF r \in rs THEN NoUid
                                           ELSE requestIdToUid[r]]

FinishAbort_KeepsRunning(r, known) ==
  /\ sequences' = sequences \ {requestIdToUid[r]}
  /\ ForgetUids({r})
  /\ status' = IF known
                 THEN [status EXCEPT ![r] = "FINISHED_ABORTED"]
                 ELSE status
  /\ UNCHANGED <<requests, running, outputTokens, generator, nextUid, emitted,
                 attempt, outputs, aborted, spoiled, faults>>

(* _do_abort_request after the request has left the waiting queue; "known" *)
(* is whether self.requests still had it when the abort began.  A request  *)
(* the event loop has forgotten is taken out of the batch only, so that it *)
(* is missed if it is in the queue.                                        *)
FinishAbort(r, known) ==
  /\ sequences' = sequences \ {requestIdToUid[r]}
  /\ ForgetUids({r})
  /\ running' = running \ {r}
  /\ status' = IF known
                 THEN [status EXCEPT ![r] = "FINISHED_ABORTED"]
                 ELSE status
  /\ UNCHANGED <<requests, outputTokens, generator, nextUid, emitted, attempt,
                 outputs, aborted, spoiled, faults>>

AbortBegin(r) ==
  /\ phase = "aborts"
  /\ r \in pendingAborts
  /\ pendingAborts' = pendingAborts \ {r}
  /\ \/ /\ r \in requests /\ status[r] = "WAITING"
        /\ phase' = "remove"
        /\ aborting' = {r}
        /\ mutated' = FALSE
        /\ UNCHANGED <<queueVars, uidVars, requestVars, generatorVars, attempt,
                       outputs, aborted, missed, spoiled, faults>>
     \/ /\ ~(r \in requests /\ status[r] = "WAITING")
        /\ FinishAbort(r, r \in requests)
        /\ missed' = IF r \in Queued THEN missed \cup {r} ELSE missed
        /\ UNCHANGED <<waiting, phase, aborting, mutated>>

TakeOffQueue_Never(r) == UNCHANGED waiting

TakeOffQueue(r) ==
  \/ \E i \in DOMAIN waiting :
       /\ waiting[i] = r
       /\ \A j \in 1..(i - 1) : waiting[j] # r
       /\ waiting' = RemoveAt(waiting, i)
  \/ r \notin Queued /\ UNCHANGED waiting

AbortRemove(r) ==
  /\ phase = "remove"
  /\ r \in aborting
  /\ TakeOffQueue(r)
  /\ FinishAbort(r, TRUE)
  /\ phase' = "aborts"
  /\ aborting' = {}
  /\ mutated' = FALSE
  /\ UNCHANGED <<pendingAborts, missed>>

(* deque.remove compares with Request.__eq__, which is Python code: an     *)
(* append in between makes it raise IndexError, outside the try of step(). *)
AbortRemoveRaises(r) ==
  /\ Races
  /\ phase = "remove"
  /\ r \in aborting
  /\ mutated
  /\ waiting[1] # r
  /\ phase' = "raised"
  /\ aborting' = {}
  /\ mutated' = FALSE
  /\ missed' = missed \cup {r}
  /\ UNCHANGED <<queueVars, uidVars, pendingAborts, requestVars, generatorVars,
                 attempt, outputs, aborted, spoiled, faults>>

BeginScheduling ==
  /\ phase' = IF SsdTier THEN "promote" ELSE "schedule"
  /\ mutated' = FALSE

AbortsDone ==
  /\ phase = "aborts"
  /\ pendingAborts = {}
  /\ BeginScheduling
  /\ UNCHANGED <<queueVars, uidVars, pendingAborts, requestVars, generatorVars,
                 attempt, aborting, outputs, aborted, missed, spoiled, faults>>

-----------------------------------------------------------------------------
(* step(): the exception handlers.                                         *)

CloseGenerator ==
  /\ generator' = None
  /\ sequences' = {}
  /\ nextUid' = 0

ClearUids_OneWay ==
  /\ requestIdToUid' = [r \in Requests |-> NoUid]
  /\ UNCHANGED uidToRequestId

ClearUids ==
  /\ requestIdToUid' = [r \in Requests |-> NoUid]
  /\ uidToRequestId' = {}

ErrorOutputs_Forgotten(rs) == {}

ErrorOutputs(rs) ==
  [id : rs, new : {0}, completion : {0}, finish : {"error"}]

(* _recover_from_generation_error: every running request is aborted and    *)
(* told "error"; "produced" is what step() had put in its output before.   *)
RecoverFromGenerationError(rs, produced, st) ==
  /\ CloseGenerator
  /\ ClearUids
  /\ running' = {}
  /\ status' = [r \in Requests |-> IF r \in rs THEN "FINISHED_ABORTED"
                                   ELSE st[r]]
  /\ outputs' = produced \cup ErrorOutputs(rs)
  /\ phase' = "return"

(* _recover_from_cache_error, followed by _reschedule_running_requests.    *)
RecoverFromCacheError ==
  /\ CloseGenerator
  /\ ClearUids

(* What step() has made of its state when something raises.                *)
Now == [generator |-> generator, sequences |-> sequences, nextUid |-> nextUid,
        running |-> running, status |-> status, outputs |-> outputs]

Raise(site, kind) ==
  /\ <<site, kind>> \in Faults
  /\ faults < MaxFaults
  /\ faults' = faults + 1

Escape(kind) == phase' = IF kind = "stream" THEN "streamError" ELSE "raised"

(* What the except clauses of step() make of an exception of this kind     *)
(* raised in the state "at": one that leaves step() takes the output along *)
(* and leaves the batch as it is.                                          *)
Handle(site, kind, at) ==
  /\ Raise(site, kind)
  /\ UNCHANGED <<requests, pendingAborts, aborted, missed, attempt, aborting,
                 mutated>>
  /\ \/ /\ kind = "fatal"
        /\ RecoverFromGenerationError(at.running, at.outputs, at.status)
     \/ /\ kind = "corruption" /\ attempt < MaxRetries
        /\ RecoverFromCacheError
        /\ phase' = "reschedule"
        /\ running' = at.running /\ status' = at.status /\ outputs' = at.outputs
     \/ /\ \/ kind \in {"type", "stream"}
           \/ kind = "corruption" /\ attempt >= MaxRetries
        /\ Escape(kind)
        /\ generator' = at.generator /\ sequences' = at.sequences
        /\ nextUid' = at.nextUid
        /\ running' = at.running /\ status' = at.status /\ outputs' = {}
        /\ ForgetUids(running \ at.running)

RescheduleOne_KeepsStatus(r) ==
  /\ phase \in {"reschedule", "requeue"}
  /\ r \in running
  /\ waiting' = <<r>> \o waiting
  /\ running' = running \ {r}
  /\ UNCHANGED <<requests, status, uidVars, pendingAborts, outputTokens,
                 generatorVars, phase, stepVars, aborted, missed, spoiled,
                 faults>>

RescheduleOne_NotQueued(r) ==
  /\ phase \in {"reschedule", "requeue"}
  /\ r \in running
  /\ status' = [status EXCEPT ![r] = "WAITING"]
  /\ running' = running \ {r}
  /\ UNCHANGED <<requests, waiting, uidVars, pendingAborts, outputTokens,
                 generatorVars, phase, stepVars, aborted, missed, spoiled,
                 faults>>

(* One request of _reschedule_running_requests.  The code moves them in    *)
(* the order they started running; here the order is left open.            *)
RescheduleOne(r) ==
  /\ phase \in {"reschedule", "requeue"}
  /\ r \in running
  /\ status' = [status EXCEPT ![r] = "WAITING"]
  /\ waiting' = <<r>> \o waiting
  /\ running' = running \ {r}
  /\ UNCHANGED <<requests, uidVars, pendingAborts, outputTokens, generatorVars,
                 phase, stepVars, aborted, missed, spoiled, faults>>

RescheduleDone ==
  /\ phase = "reschedule"
  /\ running = {}
  /\ attempt' = attempt + 1
  /\ BeginScheduling
  /\ UNCHANGED <<queueVars, uidVars, pendingAborts, requestVars, generatorVars,
                 aborting, outputs, aborted, missed, spoiled, faults>>

-----------------------------------------------------------------------------
(* step(): _schedule_waiting.                                              *)

PromoteDone ==
  /\ phase = "promote"
  /\ phase' = "schedule"
  /\ mutated' = FALSE
  /\ UNCHANGED <<queueVars, uidVars, pendingAborts, requestVars, generatorVars,
                 attempt, aborting, outputs, aborted, missed, spoiled, faults>>

(* _try_promote_ssd_pending iterates the waiting deque, and reads the disk *)
(* meanwhile: an append makes the iterator raise RuntimeError.             *)
PromoteRaises ==
  /\ Races
  /\ phase = "promote"
  /\ mutated
  /\ RecoverFromGenerationError(running, outputs, status)
  /\ mutated' = FALSE
  /\ UNCHANGED <<requests, waiting, pendingAborts, outputTokens, emitted,
                 attempt, aborting, aborted, missed, spoiled, faults>>

CanSchedule_OneTooMany ==
  waiting # <<>> /\ Cardinality(running) <= MaxNumSeqs
CanSchedule == waiting # <<>> /\ Cardinality(running) < MaxNumSeqs

(* _ensure_batch_generator builds one unless the current one has the right *)
(* sampler settings or still serves requests.                              *)
NeedsGenerator(r) ==
  \/ generator = None
  \/ generator # ParamsOf[r] /\ running = {}

(* The BatchGenerator a turn of the loop inserts into.                     *)
TargetGenerator(r) == IF NeedsGenerator(r) THEN ParamsOf[r] ELSE generator
TargetSequences(r) == IF NeedsGenerator(r) THEN {} ELSE sequences
TargetUid(r)       == IF NeedsGenerator(r) THEN 0 ELSE nextUid

(* One turn of the while loop in which nothing raises.                     *)
ScheduleOne ==
  /\ phase = "schedule"
  /\ CanSchedule
  /\ LET r   == Head(waiting)
         uid == TargetUid(r)
     IN  /\ generator' = TargetGenerator(r)
         /\ sequences' = TargetSequences(r) \cup {uid}
         /\ nextUid' = uid + 1
         /\ emitted' = [emitted EXCEPT ![r] = 0]
         /\ requestIdToUid' = [requestIdToUid EXCEPT ![r] = uid]
         /\ uidToRequestId' =
              {p \in uidToRequestId : p[1] # uid} \cup {<<uid, r>>}
         /\ status' = [status EXCEPT ![r] = "RUNNING"]
         /\ running' = running \cup {r}
  /\ waiting' = Tail(waiting)
  /\ UNCHANGED <<requests, pendingAborts, outputTokens, phase, stepVars,
                 aborted, missed, spoiled, faults>>

(* One turn that raises, building the generator or inserting the sequence, *)
(* after the request was taken off the queue.                              *)
ScheduleRaises ==
  /\ phase = "schedule"
  /\ CanSchedule
  /\ LET r == Head(waiting)
     IN  \E kind \in Kinds :
           \/ /\ NeedsGenerator(r)
              /\ Handle("create", kind,
                        [Now EXCEPT !.generator = None, !.sequences = {},
                                    !.nextUid = 0])
           \/ Handle("insert", kind,
                     [Now EXCEPT !.generator = TargetGenerator(r),
                                 !.sequences = TargetSequences(r),
                                 !.nextUid = TargetUid(r)])
  /\ waiting' = Tail(waiting)
  /\ UNCHANGED <<outputTokens, emitted, spoiled>>

ScheduleDone ==
  /\ phase = "schedule"
  /\ ~CanSchedule
  /\ phase' = IF generator # None /\ running # {} THEN "generate" ELSE "return"
  /\ UNCHANGED <<queueVars, uidVars, pendingAborts, requestVars, generatorVars,
                 stepVars, aborted, missed, spoiled, faults>>
-----------------------------------------------------------------------------
(* step(): the generation call and its responses.                          *)

(* The BatchGenerator answers for any of its sequences, one token each; it *)
(* finishes one on a stop token, or when it has emitted max_tokens.        *)
Response(r, stops) ==
  [id |-> r, new |-> 1, completion |-> outputTokens[r] + 1,
   finish |-> CASE r \in stops -> "stop"
                [] r \notin stops /\ emitted[r] + 1 >= MaxTokens -> "length"
                [] OTHER -> None]

FinishStatus_Reason(finish) == finish

FinishStatus(finish) ==
  IF finish = "stop" THEN "FINISHED_STOPPED" ELSE "FINISHED_LENGTH_CAPPED"

(* The requests _process_batch_responses finds for the uids us.            *)
RequestsOf(us) == {r \in running : \E u \in us : <<u, r>> \in uidToRequestId}

(* Responses for the uids us, of which those of "stops" end on a stop      *)
(* token.                                                                  *)
Responses(us, stops) == {Response(r, stops) : r \in RequestsOf(us)}
FinishedIds(us, stops) ==
  {o.id : o \in {x \in Responses(us, stops) : x.finish # None}}

(* The BatchGenerator has emitted a token for each of us; it is appended   *)
(* to the requests of "counted".                                           *)
AppendTokens(us, counted) ==
  /\ outputTokens' = [r \in Requests |-> IF r \in counted
                                         THEN outputTokens[r] + 1
                                         ELSE outputTokens[r]]
  /\ emitted' = [r \in Requests |-> IF r \in RequestsOf(us)
                                    THEN emitted[r] + 1 ELSE emitted[r]]

StatusAfter(ended, stops) ==
  [r \in Requests |->
     IF r \in ended THEN FinishStatus(Response(r, stops).finish)
                    ELSE status[r]]

(* The BatchGenerator drops the sequences it has finished.                 *)
SequencesAfter(us, stops) ==
  sequences \ {requestIdToUid[r] : r \in FinishedIds(us, stops)}

(* With no response at all the output stays what an earlier attempt left.  *)
Generate(us, stops) ==
  /\ phase = "generate"
  /\ us \subseteq sequences
  /\ stops \subseteq RequestsOf(us)
  /\ outputs' = IF us = {} THEN outputs ELSE Responses(us, stops)
  /\ status' = StatusAfter(FinishedIds(us, stops), stops)
  /\ running' = running \ FinishedIds(us, stops)
  /\ sequences' = SequencesAfter(us, stops)
  /\ ForgetUids(FinishedIds(us, stops))
  /\ AppendTokens(us, RequestsOf(us))
  /\ phase' = "return"
  /\ UNCHANGED <<requests, waiting, pendingAborts, generator, nextUid, attempt,
                 aborting, mutated, aborted, missed, spoiled, faults>>

(* BatchGenerator.next() raises before it produced anything.               *)
GenerateRaises ==
  /\ phase = "generate"
  /\ \E kind \in Kinds : Handle("next", kind, Now)
  /\ UNCHANGED <<waiting, outputTokens, emitted, spoiled>>

(* An exception that is not answered by errors for all of the batch loses  *)
(* the responses for us: some are counted, or final, and nobody is told.   *)
Spoil(kind, us) ==
  spoiled' = IF kind = "fatal" THEN spoiled ELSE spoiled \cup RequestsOf(us)

(* _process_batch_responses raises on the response for r, when it has gone *)
(* through those for "before": the detokenizer fails on r's token, or as   *)
(* it finishes.  No response of the batch gets into the output.            *)
ProcessRaises(us, stops, before, r) ==
  /\ phase = "generate"
  /\ us \subseteq sequences
  /\ stops \subseteq RequestsOf(us)
  /\ before \subseteq RequestsOf(us)
  /\ r \in RequestsOf(us) \ before
  /\ LET counted == before \cup {r}
         done    == FinishedIds(us, stops)
     IN  /\ AppendTokens(us, counted)
         /\ \E kind \in Kinds :
            \E ended \in {done \cap counted,
                          (done \cap before) \cup (stops \cap {r})} :
              /\ Handle("process", kind,
                        [Now EXCEPT !.sequences = SequencesAfter(us, stops),
                                    !.status = StatusAfter(ended, stops)])
              /\ Spoil(kind, us)
  /\ UNCHANGED waiting

(* _cleanup_finished raises (the state of a stored cache is malformed, or  *)
(* mx.eval of it runs out of memory) when it has cleaned up only some of   *)
(* the finished requests: the responses are already in the output, and the *)
(* rest is still running.                                                  *)
CleanupRaises(us, stops, cleaned) ==
  /\ phase = "generate"
  /\ us \subseteq sequences
  /\ stops \subseteq RequestsOf(us)
  /\ cleaned \subseteq FinishedIds(us, stops)
  /\ FinishedIds(us, stops) # {}
  /\ AppendTokens(us, RequestsOf(us))
  /\ \E kind \in Kinds :
       /\ Handle("cleanup", kind,
                 [Now EXCEPT
                    !.sequences = SequencesAfter(us, stops),
                    !.running = running \ cleaned,
                    !.status = StatusAfter(FinishedIds(us, stops), stops),
                    !.outputs = Responses(us, stops)])
       /\ Spoil(kind, us)
  /\ UNCHANGED waiting

(* After its try step() may still evaluate tensors, every so many steps:   *)
(* an exception there takes the whole output along.                        *)
EpilogueRaises ==
  /\ phase = "return"
  /\ \E kind \in Kinds : Raise("epilogue", kind) /\ Escape(kind)
  /\ spoiled' = spoiled \cup {o.id : o \in outputs}
  /\ outputs' = {}
  /\ UNCHANGED <<queueVars, uidVars, pendingAborts, requestVars, generatorVars,
                 attempt, aborting, mutated, aborted, missed>>

-----------------------------------------------------------------------------
(* The caller takes the result, or the exception, of step().               *)

(* The locals of step() are gone: its output and its retry counter.        *)
EndStep == outputs' = {} /\ attempt' = 0

Return ==
  /\ phase \in {"return", "raised", "streamError"}
  /\ phase' = "idle"
  /\ EndStep
  /\ UNCHANGED <<queueVars, uidVars, pendingAborts, requestVars, generatorVars,
                 aborting, mutated, aborted, missed, spoiled, faults>>

(* The engine's answer to the first stream/thread mismatch: the cache      *)
(* recovery and the rescheduling of step(), outside step().                *)
RecoverStreamThread ==
  /\ phase = "streamError"
  /\ RecoverFromCacheError
  /\ phase' = "requeue"
  /\ UNCHANGED <<queueVars, pendingAborts, requestVars, emitted, stepVars,
                 aborted, missed, spoiled, faults>>

RequeueDone ==
  /\ phase = "requeue"
  /\ running = {}
  /\ phase' = "idle"
  /\ EndStep
  /\ UNCHANGED <<queueVars, uidVars, pendingAborts, requestVars, generatorVars,
                 aborting, mutated, aborted, missed, spoiled, faults>>

-----------------------------------------------------------------------------
(* Everything that happens inside step().                                  *)
StepAction ==
  \/ BeginStep
  \/ \E r \in Requests : AbortBegin(r) \/ AbortRemove(r) \/ AbortRemoveRaises(r)
  \/ AbortsDone
  \/ PromoteDone \/ PromoteRaises
  \/ ScheduleOne \/ ScheduleRaises \/ ScheduleDone
  \/ \E us \in SUBSET sequences : \E stops \in SUBSET RequestsOf(us) :
       \/ Generate(us, stops)
       \/ \E before \in SUBSET RequestsOf(us) :
            \/ \E r \in RequestsOf(us) : ProcessRaises(us, stops, before, r)
            \/ CleanupRaises(us, stops, before)
  \/ GenerateRaises
  \/ EpilogueRaises
  \/ \E r \in Requests : RescheduleOne(r)
  \/ RescheduleDone

WorkerStep == StepAction \/ Return \/ RecoverStreamThread \/ RequeueDone

(* What the engine does: the owner of a request aborts it at most once,    *)
(* and forgets it right afterwards.  A request that finished is forgotten  *)
(* too; no abort follows, and nothing else of the scheduler reads it.      *)
CallerStep ==
  \E r \in Requests :
    \/ AddRequest(r)
    \/ r \notin aborted /\ AbortRequest(r)
    \/ r \in aborted /\ RemoveFinishedRequest(r)

SchedulerNext == WorkerStep \/ CallerStep

(* The worker thread is never starved: each of its steps is taken when it  *)
(* stays possible.  The BatchGenerator is round-robin over its sequences,  *)
(* so each of them is answered for again and again.                        *)
GenerateFor(r) ==
  \E us \in SUBSET sequences : \E stops \in SUBSET RequestsOf(us) :
    r \in RequestsOf(us) /\ Generate(us, stops)

WorkerFairness ==
  /\ WF_schedulerVars(WorkerStep)
  /\ \A r \in Requests : SF_schedulerVars(GenerateFor(r))

SchedulerSafety == SchedulerInit /\ [][SchedulerNext]_schedulerVars
SchedulerSpec   == SchedulerSafety /\ WorkerFairness

-----------------------------------------------------------------------------
(* Properties.                                                             *)

SchedulerTypeOK ==
  /\ requests \subseteq Requests
  /\ waiting \in Seq(Requests)
  /\ running \subseteq Requests
  /\ requestIdToUid \in [Requests -> Nat \cup {NoUid}]
  /\ uidToRequestId \subseteq Nat \X Requests
  /\ pendingAborts \subseteq Requests
  /\ status \in [Requests -> Statuses]
  /\ outputTokens \in [Requests -> Nat]
  /\ generator \in Params \cup {None}
  /\ sequences \subseteq Nat
  /\ nextUid \in Nat
  /\ emitted \in [Requests -> Nat]
  /\ phase \in Phases
  /\ attempt \in Nat
  /\ aborting \subseteq Requests
  /\ mutated \in BOOLEAN
  /\ outputs \subseteq Outputs
  /\ aborted \subseteq Requests
  /\ missed \subseteq Requests
  /\ spoiled \subseteq Requests
  /\ faults \in Nat

(* The two uid dictionaries and the running requests describe the same     *)
(* one-to-one correspondence, although a new BatchGenerator counts its     *)
(* uids from 0 again: no response is ever credited to another request.     *)
(* The BatchGenerator has a sequence for each of them, except for those a  *)
(* failing step left behind with their responses lost, and for nothing     *)
(* else.  While requests are being put back in the queue there is no       *)
(* sequence and no uid at all.                                             *)
Requeuing == phase \in {"reschedule", "requeue"}

UidMapsExact ==
  IF Requeuing
  THEN /\ sequences = {} /\ uidToRequestId = {}
       /\ \A r \in Requests : requestIdToUid[r] = NoUid
  ELSE /\ \A r \in Requests : r \in running <=> requestIdToUid[r] # NoUid
       /\ uidToRequestId = {<<requestIdToUid[r], r>> : r \in running}
       /\ sequences \subseteq {requestIdToUid[r] : r \in running}
       /\ \A r \in running \ spoiled : requestIdToUid[r] \in sequences
       /\ \A r, s \in running :
            requestIdToUid[r] = requestIdToUid[s] => r = s
       /\ running # {} => generator # None

(* A request is in the waiting queue once at most, and never there while   *)
(* it runs: retries, aborts and error recovery do not copy it.  One that   *)
(* has finished is still in the batch only if a step failed on it.         *)
QueueExclusive ==
  /\ \A i, j \in DOMAIN waiting : waiting[i] = waiting[j] => i = j
  /\ \A i \in DOMAIN waiting : status[waiting[i]] = "WAITING"
  /\ \A r \in running :
       status[r] = "RUNNING" \/ (status[r] \in Finished /\ r \in spoiled)

(* max_num_seqs bounds the running requests and the sequences of the       *)
(* BatchGenerator in every phase, retries and recoveries included.         *)
Capacity ==
  /\ Cardinality(running) <= MaxNumSeqs
  /\ Cardinality(sequences) <= MaxNumSeqs

(* A finished request stays finished once it is out of the batch: whatever *)
(* step() was doing, it is never queued or run again and no token is       *)
(* appended to it any more.                                                *)
FinishedIsFinal ==
  [][\A r \in Requests : (status[r] \in Finished /\ r \notin running) =>
       /\ status'[r] \in Finished
       /\ outputTokens'[r] = outputTokens[r]
       /\ r \notin running' /\ r \notin Queued']_schedulerVars

(* No request finishes in silence: unless its owner aborted it, the step   *)
(* in which it finishes has a finished output for it, such an output is    *)
(* only produced for a request that was unfinished until then, and it      *)
(* stays in the output until the result is handed over.  All this up to    *)
(* the responses a failing step lost.                                      *)
FinishReported ==
  [][/\ \A r \in Requests :
          (status[r] \notin Finished /\ status'[r] \in Finished) =>
            \/ r \in aborted \/ r \in spoiled'
            \/ \E o \in outputs' : o.id = r /\ o.finish # None
     /\ \A o \in outputs' \ outputs :
          o.finish # None => status[o.id] \notin Finished \/ o.id \in spoiled
     /\ \A o \in outputs \ outputs' :
          \/ (phase = "return" /\ phase' = "idle")
          \/ o.id \in spoiled']_schedulerVars

(* A tracked request that has not finished is in the queue or running: no  *)
(* error path of step() drops it.                                          *)
NoRequestLost ==
  \A r \in requests : status[r] \notin Finished => r \in Queued \cup running

(* Once the worker has taken an abort, the request is neither queued nor   *)
(* running, and no retry or recovery brings it back, although its owner    *)
(* has forgotten it: all but those the worker missed in the queue.         *)
AbortTakesEffect ==
  \A r \in aborted \ (pendingAborts \cup aborting \cup missed) :
    r \notin Queued \cup running

(* Every submitted request is finished in the end, unless its owner aborts *)
(* and forgets it.                                                         *)
Served ==
  \A r \in Requests :
    status[r] = "WAITING" ~> status[r] \in Finished \/ r \notin requests
=============================================================================
