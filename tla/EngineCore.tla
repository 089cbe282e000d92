----------------------------- MODULE EngineCore -----------------------------
(***************************************************************************)
(* The engine, vllm_mlx/engine_core.py, with the per-request collectors of *)
(* vllm_mlx/output_collector.py and the clients that consume them, around  *)
(* the scheduler.                                                          *)
(*                                                                         *)
(* The engine loop and every client are coroutines of one event loop.  It  *)
(* hands scheduler.step() to the worker thread and gets its result back,   *)
(* so clients run between any two steps of the worker.  After a stream or  *)
(* thread mismatch the loop runs step() itself, and clients wait.          *)
(***************************************************************************)
EXTENDS Scheduler

CONSTANT StreamInterval   \* EngineConfig.stream_interval

ASSUME EngineAssumption == StreamInterval \in Nat \ {0}

VARIABLES
  client,     \* "stream" or "generate" while its coroutine consumes outputs
  collector,  \* RequestOutputCollector.output, merged
  sent,       \* RequestStreamState.sent_tokens
  finished,   \* the requests whose finished event is set
  received,   \* tokens the client has been given
  result,     \* the finish reason the client has been given
  fallback    \* stream_thread_fallback_used: step() runs on the event loop

clientVars == <<client, received, result>>
engineVars == <<client, collector, sent, finished, received, result, fallback>>
coreVars   == <<schedulerVars, engineVars>>

NoOutput == [new |-> 0, completion |-> 0, finish |-> None]
Pending(r) == collector[r].new > 0 \/ collector[r].finish # None

Consuming == {"stream", "generate"}
Clients == {"new", "leaving", "gone", "served"} \cup Consuming

EngineInit ==
  /\ SchedulerInit
  /\ client = [r \in Requests |-> "new"]
  /\ collector = [r \in Requests |-> NoOutput]
  /\ sent = [r \in Requests |-> 0]
  /\ finished = {}
  /\ received = [r \in Requests |-> 0]
  /\ result = [r \in Requests |-> None]
  /\ fallback = FALSE

(* A client that leaves aborts its request and then forgets it without     *)
(* awaiting in between: no other coroutine runs, but the worker does.      *)
LoopFree == \A r \in Requests : client[r] # "leaving"

(* The loop is at an await: in _engine_loop, or waiting for the worker.    *)
ClientsRun ==
  LoopFree /\ (fallback => phase \in {"idle", "return", "raised", "streamError"})

-----------------------------------------------------------------------------
(* The clients.                                                            *)

(* add_request, followed by stream_outputs or by the wait of generate.     *)
Submit(r) ==
  /\ ClientsRun
  /\ client[r] = "new"
  /\ AddRequest(r)
  /\ \E mode \in Consuming : client' = [client EXCEPT ![r] = mode]
  /\ UNCHANGED <<collector, sent, finished, received, result, fallback>>

(* stream_outputs yields what the collector holds; after the last output   *)
(* _cleanup_request forgets the request.                                   *)
StreamTake(r) ==
  /\ ClientsRun
  /\ client[r] = "stream"
  /\ Pending(r)
  /\ received' = [received EXCEPT ![r] = @ + collector[r].new]
  /\ collector' = [collector EXCEPT ![r] = NoOutput]
  /\ result' = [result EXCEPT ![r] = collector[r].finish]
  /\ IF collector[r].finish = None
       THEN UNCHANGED <<requests, client>>
       ELSE /\ client' = [client EXCEPT ![r] = "served"]
            /\ requests' = requests \ {r}
  /\ UNCHANGED <<waiting, running, uidVars, pendingAborts, requestVars,
                 generatorVars, phase, stepVars, aborted, missed, spoiled,
                 faults, sent, finished, fallback>>

(* generate wakes up on the finished event and takes the merged output.    *)
GenerateTake(r) ==
  /\ ClientsRun
  /\ client[r] = "generate"
  /\ r \in finished
  /\ received' = [received EXCEPT ![r] = collector[r].completion]
  /\ collector' = [collector EXCEPT ![r] = NoOutput]
  /\ result' = [result EXCEPT ![r] = collector[r].finish]
  /\ client' = [client EXCEPT ![r] = "served"]
  /\ requests' = requests \ {r}
  /\ UNCHANGED <<waiting, running, uidVars, pendingAborts, requestVars,
                 generatorVars, phase, stepVars, aborted, missed, spoiled,
                 faults, sent, finished, fallback>>

(* A client that disconnects, is cancelled or times out: abort_request ... *)
Leave(r) ==
  /\ ClientsRun
  /\ client[r] \in Consuming
  /\ AbortRequest(r)
  /\ client' = [client EXCEPT ![r] = "leaving"]
  /\ UNCHANGED <<collector, sent, finished, received, result, fallback>>

(* ... and _cleanup_request, which forgets the request at once although    *)
(* the abort is still to be done by the worker.                            *)
Cleanup(r) ==
  /\ client[r] = "leaving"
  /\ client' = [client EXCEPT ![r] = "gone"]
  /\ collector' = [collector EXCEPT ![r] = NoOutput]
  /\ requests' = requests \ {r}
  /\ UNCHANGED <<waiting, running, uidVars, pendingAborts, requestVars,
                 generatorVars, phase, stepVars, aborted, missed, spoiled,
                 faults, sent, finished, received, result, fallback>>

-----------------------------------------------------------------------------
(* The engine loop.                                                        *)

(* What has been generated for r in this step: a response, an error after  *)
(* it, or both.                                                            *)
OutputsFor(r) == {o \in outputs : o.id = r}

ShouldSend_NoFinish(r, o) ==
  \/ sent[r] = 0
  \/ o.completion - sent[r] >= StreamInterval

ShouldSend(r, o) ==
  \/ o.finish # None
  \/ sent[r] = 0
  \/ o.completion - sent[r] >= StreamInterval

(* The outputs of r that are put into its collector.                       *)
Puts(r) ==
  {o \in OutputsFor(r) : StreamInterval = 1 \/ ShouldSend(r, o)}

LastPut_Response(r) ==
  CHOOSE o \in Puts(r) : \A p \in Puts(r) : o.finish # "error" \/ p = o

(* The last of them: an error follows the response of the same step.       *)
LastPut(r) ==
  CHOOSE o \in Puts(r) : \A p \in Puts(r) : o.finish = "error" \/ p = o

Merge_DropsPending(r) ==
  [new        |-> Cardinality({o \in Puts(r) : o.new = 1}),
   completion |-> LastPut(r).completion,
   finish     |-> LastPut(r).finish]

(* put: the new tokens add up, the rest is that of the last output.        *)
Merge(r) ==
  [new        |-> collector[r].new + Cardinality({o \in Puts(r) : o.new = 1}),
   completion |-> LastPut(r).completion,
   finish     |-> LastPut(r).finish]

Delivered == {r \in Requests : client[r] \in Consuming /\ Puts(r) # {}}

SignalFinished(r) ==
  client[r] \in Consuming /\ \E o \in OutputsFor(r) : o.finish # None

(* The result of a step is distributed in one go.                          *)
Deliver ==
  /\ LoopFree
  /\ phase = "return"
  /\ Return
  /\ collector' = [r \in Requests |-> IF r \in Delivered THEN Merge(r)
                                      ELSE collector[r]]
  /\ sent' = [r \in Requests |-> IF r \in Delivered /\ StreamInterval > 1
                                 THEN LastPut(r).completion ELSE sent[r]]
  /\ finished' = finished \cup {r \in Requests : SignalFinished(r)}
  /\ UNCHANGED <<clientVars, fallback>>

(* The loop logs the exception of a step and goes on.                      *)
StepFailed ==
  /\ LoopFree
  /\ \/ phase = "raised"
     \/ phase = "streamError" /\ fallback
  /\ Return
  /\ UNCHANGED engineVars

(* The first stream or thread mismatch moves step() to the event loop.     *)
SwitchThread ==
  /\ LoopFree
  /\ ~fallback
  /\ RecoverStreamThread
  /\ UNCHANGED engineVars

ThreadSwitched ==
  /\ LoopFree
  /\ RequeueDone
  /\ fallback' = TRUE
  /\ UNCHANGED <<clientVars, collector, sent, finished>>

(* step(): the loop starts it, and nothing inside it waits for the loop.   *)
EngineStep ==
  /\ StepAction
  /\ phase = "idle" => LoopFree
  /\ UNCHANGED engineVars

EngineLoop ==
  EngineStep \/ Deliver \/ StepFailed \/ SwitchThread \/ ThreadSwitched

ClientStep(r) ==
  Submit(r) \/ StreamTake(r) \/ GenerateTake(r) \/ Leave(r) \/ Cleanup(r)

EngineNext == EngineLoop \/ \E r \in Requests : ClientStep(r)

(* The loop and the worker thread always get on; a coroutine that can be   *)
(* resumed is resumed.  Nobody has to submit a request, or to leave.       *)
GenerateStep(r) == GenerateFor(r) /\ UNCHANGED engineVars

EngineFairness ==
  /\ WF_coreVars(EngineLoop)
  /\ \A r \in Requests :
       /\ SF_coreVars(GenerateStep(r))
       /\ SF_coreVars(StreamTake(r))
       /\ SF_coreVars(GenerateTake(r))
       /\ WF_coreVars(Cleanup(r))

EngineSafety == EngineInit /\ [][EngineNext]_coreVars
EngineSpec   == EngineSafety /\ EngineFairness

-----------------------------------------------------------------------------
(* Properties.                                                             *)

(* At every moment the tokens of a streaming request are with the client,  *)
(* in its collector, or in the result of the step that is under way: the   *)
(* merging of outputs and the retries lose none and repeat none.  A step   *)
(* that fails while it goes through its responses loses their tokens: the  *)
(* last one of a request that it aborts with an error, or those of the     *)
(* requests it leaves in the batch.                                        *)
UndeliveredTokens(r) == Cardinality({o \in OutputsFor(r) : o.new = 1})

StreamLossless ==
  \A r \in Requests \ spoiled : client[r] = "stream" =>
    LET given == received[r] + collector[r].new + UndeliveredTokens(r)
    IN  \/ given = outputTokens[r]
        \/ given = outputTokens[r] - 1 /\ status[r] = "FINISHED_ABORTED"

(* The finished event is set exactly when the final output is in the       *)
(* collector and the request is over: generate never wakes up to a missing *)
(* or a partial output, and never waits for one that is already there.     *)
EventMeansOutput ==
  \A r \in Requests \ spoiled : client[r] = "generate" =>
    /\ r \in finished <=> collector[r].finish # None
    /\ r \in finished => status[r] \in Finished

(* What the client was told is how the request ended: "error" for one that *)
(* was aborted by a recovery, and the reason of the token count otherwise. *)
(* A request restarted with its answer already made is not spoken of.      *)
AnswerMatchesEnd ==
  \A r \in Requests \ spoiled : client[r] = "served" =>
    CASE result[r] = "stop"   -> status[r] = "FINISHED_STOPPED"
      [] result[r] = "length" -> status[r] = "FINISHED_LENGTH_CAPPED"
                                 /\ outputTokens[r] >= MaxTokens
      [] result[r] = "error"  -> status[r] = "FINISHED_ABORTED"
      [] OTHER                -> FALSE

(* A request that some client still waits for is tracked by the scheduler  *)
(* and, until its end is on its way to the client, in the queue or the     *)
(* batch: another client leaving never takes it along, and a failing step  *)
(* only if it has lost the request's final output.                         *)
NoClientForgotten ==
  \A r \in Requests : client[r] \in Consuming =>
    /\ r \in requests
    /\ \/ r \in Queued \cup running
       \/ collector[r].finish # None
       \/ \E o \in OutputsFor(r) : o.finish # None
       \/ r \in spoiled /\ status[r] \in Finished

(* The engine implements the service its clients rely on.                  *)
Service == INSTANCE CompletionService WITH produced <- outputTokens
ServiceImplemented == Service!ServiceSpec
=============================================================================
