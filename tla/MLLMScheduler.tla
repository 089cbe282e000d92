---------------------------- MODULE MLLMScheduler ----------------------------
(* The scheduler of multimodal models and the batch generator it drives     *)
(* (mllm_scheduler.py, mllm_batch_generator.py), with and without the       *)
(* interleaved prefill that install_chunked_prefill_mllm patches in.        *)
(*                                                                          *)
(* step() runs on the event loop from its first line to its last: loop says *)
(* how far it is, and requests are added, read, aborted or abandoned only   *)
(* while it is "idle".  Uids are never reused, so a request stands for its  *)
(* uid.  _aborted_request_ids is left out: a step starts by removing what   *)
(* was aborted, before any prefill could look there.                        *)
EXTENDS Integers, Sequences, FiniteSets, SequencesExt, Collections

CONSTANTS
  Requests,             \* the requests clients send
  Kind,                 \* Kind[r]: "short" or "long" text, "audio" or "image"
  Modes,                \* is interleaved prefill installed? the cases looked at
  MaxNumSeqs,           \* max_num_seqs
  CompletionBatchSize,  \* completion_batch_size
  MaxTokens,            \* max_tokens of every request
  Chunks                \* prefill budgets that a long prompt fills

ASSUME MLLMAssumptions ==
  /\ Kind \in [Requests -> {"short", "long", "audio", "image"}]
  /\ Modes \subseteq BOOLEAN
  /\ {MaxNumSeqs, CompletionBatchSize, MaxTokens} \subseteq Nat \ {0}
  /\ Chunks \in Nat \ {0, 1}

VARIABLES
  \* MLLMScheduler
  waiting,      \* the waiting queue
  running,      \* the scheduled requests
  requests,     \* every request the scheduler tracks
  mapped,       \* the requests in the uid maps
  status,       \* status of each request
  tokens,       \* length of its output_tokens
  queue,        \* its output queue: outputs and the end mark None
  \* stream_outputs() and its client
  client,       \* "new", "streaming", "served" or "gone"
  heard,        \* tokens received, and reason and count of the last output
  \* MLLMBatchGenerator
  chunked,      \* is interleaved prefill installed?
  unprocessed,  \* unprocessed_requests
  batch,        \* active_batch: rows [r, n], n tokens generated
  partial,      \* _partial: the request and the chunks it has left
  errors,       \* _pending_error_responses
  removals,     \* _pending_removal_uids
  \* the step in progress
  loop,         \* where step() is
  responses,    \* what next() returned
  inlined       \* did a prefill chunk ever take in short requests?

tracking   == <<waiting, running, requests, mapped, status>>
outputs    == <<tokens, queue, client, heard>>
generator  == <<unprocessed, batch, partial, errors, removals>>
vars == <<tracking, outputs, generator, chunked, loop, responses, inlined>>

None   == [left |-> 0]
EndOf  == [fin |-> "end", n |-> 0]
Rows(s) == [i \in DOMAIN s |-> [r |-> s[i], n |-> 0]]
Holders(b) == [i \in DOMAIN b |-> b[i].r]
Take(s, n)    == SubSeq(s, 1, IF Len(s) < n THEN Len(s) ELSE n)

Init ==
  /\ waiting = <<>> /\ running = {} /\ requests = {} /\ mapped = {}
  /\ status = [r \in Requests |-> "waiting"]
  /\ tokens = [r \in Requests |-> 0] /\ queue = [r \in Requests |-> <<>>]
  /\ client = [r \in Requests |-> "new"]
  /\ heard = [r \in Requests |-> [got |-> 0, fin |-> "no", n |-> 0]]
  /\ chunked \in Modes
  /\ unprocessed = <<>> /\ batch = <<>> /\ partial = None
  /\ errors = <<>> /\ removals = {}
  /\ loop = "idle" /\ responses = <<>> /\ inlined = FALSE

----------------------------------------------------------------------------
(* Between two steps: clients and aborts.                                   *)

AddRequest(r) ==
  /\ loop = "idle" /\ client[r] = "new"
  /\ waiting' = Append(waiting, r) /\ requests' = requests \cup {r}
  /\ client' = [client EXCEPT ![r] = "streaming"]
  /\ UNCHANGED <<running, mapped, status, tokens, queue, heard, generator,
                 chunked, loop, responses, inlined>>

\* stream_outputs(): get() returned an output or None
Deliver(r) ==
  LET out == Head(queue[r]) IN
  /\ loop = "idle" /\ client[r] = "streaming" /\ queue[r] # <<>>
  /\ IF out = EndOf THEN UNCHANGED heard
     ELSE heard' = [heard EXCEPT ![r] =
            [got |-> @.got + (IF out.fin \in {"no", "stop", "length"} THEN 1 ELSE 0),
             fin |-> out.fin, n |-> out.n]]
  /\ IF out.fin = "no"
     THEN queue' = [queue EXCEPT ![r] = Tail(@)] /\ UNCHANGED client
     ELSE queue' = [queue EXCEPT ![r] = <<>>]
          /\ client' = [client EXCEPT ![r] = "served"]
  /\ UNCHANGED <<tracking, tokens, generator, chunked, loop, responses, inlined>>

\* abort_request() of a tracked request, without the signal to its queue
Untrack(r) ==
  /\ waiting' = Without(waiting, {r}) /\ running' = running \ {r}
  /\ requests' = requests \ {r} /\ mapped' = mapped \ {r}
  /\ status' = [status EXCEPT ![r] = "aborted"]

ScheduleRemoval(r) == removals' = removals \cup ({r} \cap mapped)

AbortRequest(r) ==
  /\ loop = "idle" /\ r \in requests
  /\ Untrack(r) /\ ScheduleRemoval(r)
  /\ queue' = [queue EXCEPT ![r] = IF client[r] = "streaming" THEN Append(@, EndOf) ELSE @]
  /\ UNCHANGED <<tokens, client, heard, unprocessed, batch, partial, errors,
                 chunked, loop, responses, inlined>>

\* the client of stream_outputs() is cancelled or disconnects
Leave(r) ==
  /\ loop = "idle" /\ client[r] = "streaming"
  /\ IF r \in requests
     THEN Untrack(r) /\ ScheduleRemoval(r)
     ELSE UNCHANGED <<tracking, removals>>
  /\ client' = [client EXCEPT ![r] = "gone"]
  /\ queue' = [queue EXCEPT ![r] = <<>>]
  /\ UNCHANGED <<tokens, heard, unprocessed, batch, partial, errors,
                 chunked, loop, responses, inlined>>

----------------------------------------------------------------------------
(* step(): removals, scheduling.                                            *)

\* remove(), as patched for interleaved prefill
RemovePartial_Unpatched(S) == UNCHANGED partial
RemovePartial(S) == partial' = IF partial # None /\ partial.r \in S THEN None ELSE partial
RemoveUids(S) ==
  /\ batch' = Within(batch, {row \in ToSet(batch) : row.r \notin S})
  /\ unprocessed' = Without(unprocessed, S)
  /\ RemovePartial(S)

StartStep ==
  /\ loop = "idle" /\ (waiting # <<>> \/ running # {})
  /\ RemoveUids(removals) /\ removals' = {}
  /\ loop' = "schedule"
  /\ UNCHANGED <<tracking, outputs, errors, chunked, responses, inlined>>

\* insert() sorts stably: text first
Text == {r \in Requests : Kind[r] \in {"short", "long"}}
TextFirst(s) == Within(s, Text) \o Without(s, Text)

ScheduleWaiting ==
  LET room  == IF Cardinality(running) < MaxNumSeqs THEN MaxNumSeqs - Cardinality(running) ELSE 0
      taken == Take(waiting, room) IN
  /\ loop = "schedule"
  /\ waiting' = SubSeq(waiting, Len(taken) + 1, Len(waiting))
  /\ running' = running \cup ToSet(taken) /\ mapped' = mapped \cup ToSet(taken)
  /\ status' = [r \in Requests |-> IF r \in ToSet(taken) THEN "running" ELSE status[r]]
  /\ unprocessed' = IF taken = <<>> THEN unprocessed ELSE TextFirst(unprocessed \o taken)
  /\ loop' = IF running' = {} THEN "idle" ELSE IF chunked THEN "prefill" ELSE "next"
  /\ UNCHANGED <<requests, outputs, batch, partial, errors, removals, chunked,
                 responses, inlined>>

----------------------------------------------------------------------------
(* _chunked_next(): one chunk of a long prompt per step.                    *)

Eligible    == Within(unprocessed, {r \in Requests : Kind[r] # "image"})
Decode      == loop' = IF batch' = <<>> THEN "idle" ELSE "decode"
prefillKept == <<tracking, outputs, removals, chunked, responses>>

\* Phase 1, not the last chunk.  Of the pending requests that fit the budget,
\* taken are those that could be preprocessed, failed those whose media then
\* fail; none joins when the prefill of all raises.
PrefillChunk ==
  /\ loop = "prefill" /\ partial.left > 1
  /\ partial' = [partial EXCEPT !.left = @ - 1]
  /\ \E taken \in SUBSET {r \in ToSet(Eligible) : Kind[r] # "long"} :
     \E failed \in SUBSET {r \in taken : Kind[r] = "audio"} :
     \E joined \in {taken \ failed, {}} :
       /\ batch' = batch \o Rows(Within(Eligible, joined))
       /\ errors' = errors \o Within(Eligible, failed)
       /\ inlined' = (inlined \/ failed \cup joined # {})
  /\ Decode
  /\ UNCHANGED <<prefillKept, unprocessed>>

\* Phase 1, the last chunk
FinishPrefill ==
  /\ loop = "prefill" /\ partial.left = 1
  /\ partial' = None
  /\ batch' = Append(batch, [r |-> partial.r, n |-> 0])
  /\ Decode
  /\ UNCHANGED <<prefillKept, unprocessed, errors, inlined>>

\* Phase 2: the first request without images is too long for one step
StartPrefill ==
  LET r == Head(Eligible) IN
  /\ loop = "prefill" /\ partial = None /\ Eligible # <<>> /\ Kind[r] = "long"
  /\ partial' = [r |-> r, left |-> Chunks - 1]
  /\ unprocessed' = Without(unprocessed, {r})
  /\ UNCHANGED batch /\ Decode
  /\ UNCHANGED <<prefillKept, errors, inlined>>

PreprocessFails ==
  LET r == Head(Eligible) IN
  /\ loop = "prefill" /\ partial = None /\ Eligible # <<>>
  /\ unprocessed' = Without(unprocessed, {r})
  /\ errors' = Append(errors, r)
  /\ loop' = "decode"
  /\ UNCHANGED <<prefillKept, batch, partial, inlined>>

\* Phase 3.  A long prompt comes here when the prefix cache holds most of it.
NoLongPrompt ==
  /\ loop = "prefill" /\ partial = None
  /\ loop' = "next"
  /\ UNCHANGED <<prefillKept, unprocessed, batch, partial, errors, inlined>>

----------------------------------------------------------------------------
(* _next(): new requests.                                                   *)

\* _process_prompts(): some requests fail, or the prefill of all raises.
\* Phase 2 has preprocessed the first request already.
Failing(s) ==
  {F \in SUBSET ToSet(s) : F = ToSet(s) \/ ~chunked \/ Eligible = <<>> \/ Head(Eligible) \notin F}

ProcessPrompts(s) ==
  \E failed \in Failing(s) :
    /\ batch' = batch \o Rows(Without(s, failed))
    /\ errors' = errors \o Within(s, failed)
    /\ unprocessed' = Without(unprocessed, ToSet(s))

NewBatch ==
  /\ loop = "next" /\ batch = <<>>
  /\ IF unprocessed = <<>>
     THEN loop' = "idle" /\ UNCHANGED <<batch, errors, unprocessed>>
     ELSE loop' = "decode" /\ ProcessPrompts(Take(unprocessed, CompletionBatchSize))
  /\ UNCHANGED <<prefillKept, partial, inlined>>

ExtendBatch ==
  /\ loop = "next" /\ batch # <<>>
  /\ ProcessPrompts(Take(Eligible, CompletionBatchSize))
  /\ loop' = "decode"
  /\ UNCHANGED <<prefillKept, partial, inlined>>

----------------------------------------------------------------------------
(* One token for every row, and what the scheduler makes of it.             *)

\* the rest of _next(), or _generation_step()
Generate ==
  /\ loop = "decode"
  /\ \E stops \in SUBSET DOMAIN batch :
       LET fin  == [i \in DOMAIN batch |->
                      IF i \in stops THEN "stop"
                      ELSE IF batch[i].n + 1 >= MaxTokens THEN "length" ELSE "no"]
           keep == Within([i \in DOMAIN batch |-> i], {i \in DOMAIN batch : fin[i] = "no"}) IN
       /\ responses' = [i \in DOMAIN errors |-> [r |-> errors[i], fin |-> "error"]]
                    \o [i \in DOMAIN batch |-> [r |-> batch[i].r, fin |-> fin[i]]]
       /\ batch' = [k \in DOMAIN keep |-> [r |-> batch[keep[k]].r, n |-> batch[keep[k]].n + 1]]
  /\ errors' = <<>>
  /\ loop' = "process"
  /\ UNCHANGED <<tracking, outputs, unprocessed, partial, removals, chunked, inlined>>

\* the responses of a request that the uid map and running still know
Mine(r) == Within(responses, {x \in ToSet(responses) : x.r = r /\ r \in mapped \cap running})
Tokens(r, k) ==
  tokens[r] + Cardinality({j \in 1..k : Mine(r)[j].fin # "error"})
Output(r, k) ==
  [fin |-> Mine(r)[k].fin, n |-> IF Mine(r)[k].fin = "error" THEN 0 ELSE Tokens(r, k)]
Finishing(r) == {k \in DOMAIN Mine(r) : Mine(r)[k].fin # "no"}

Marked_EndFirst(out) == IF out.fin = "no" THEN <<out>> ELSE <<EndOf, out>>
Marked(out) == IF out.fin = "no" THEN <<out>> ELSE <<out, EndOf>>

\* the rest of step(): _process_batch_responses(), the queues, _cleanup_finished()
ProcessResponses ==
  LET finished == {r \in Requests : Finishing(r) # {}}
      last(r)  == Mine(r)[CHOOSE k \in Finishing(r) : \A j \in Finishing(r) : j <= k].fin IN
  /\ loop = "process"
  /\ tokens' = [r \in Requests |-> Tokens(r, Len(Mine(r)))]
  /\ queue' = [r \in Requests |->
       IF client[r] = "streaming"
       THEN queue[r] \o FlattenSeq([k \in DOMAIN Mine(r) |-> Marked(Output(r, k))])
       ELSE queue[r]]
  /\ status' = [r \in Requests |->
       IF r \notin finished THEN status[r]
       ELSE IF last(r) = "error" THEN "aborted" ELSE last(r)]
  /\ running' = running \ finished /\ requests' = requests \ finished
  /\ mapped' = mapped \ finished
  /\ responses' = <<>> /\ loop' = "idle"
  /\ UNCHANGED <<waiting, client, heard, generator, chunked, inlined>>

\* _fail_requests_after_step_error(): every request is failed, told its count
Told_Nothing(r, n) == <<>>
Told(r, n) == <<[fin |-> "error", n |-> n], EndOf>>

FailRequests(count) ==
  /\ RemoveUids(mapped)
  /\ queue' = [r \in Requests |->
       IF r \in requests /\ client[r] = "streaming"
       THEN queue[r] \o Told(r, count[r]) ELSE queue[r]]
  /\ status' = [r \in Requests |-> IF r \in requests THEN "aborted" ELSE status[r]]
  /\ waiting' = <<>> /\ running' = {} /\ requests' = {} /\ mapped' = {}
  /\ loop' = "idle"

\* A forward pass of the model raises.  Errors that _generation_step() had
\* collected are lost.
StepFails ==
  /\ \/ loop = "prefill"
        /\ (partial # None \/ (Eligible # <<>> /\ Kind[Head(Eligible)] = "long"))
        /\ UNCHANGED errors
     \/ loop = "decode" /\ batch # <<>> /\ errors' = <<>>
  /\ FailRequests(tokens)
  /\ UNCHANGED <<tokens, client, heard, removals, chunked, responses, inlined>>

\* Detokenizing the k-th response raises: the tokens of the first k responses
\* are counted, and no output of the step is sent, not even those of requests
\* that it finished.
Counted(k) ==
  [r \in Requests |-> tokens[r] +
     Cardinality({j \in 1..k : responses[j].r = r /\ responses[j].fin # "error"
                                /\ r \in mapped \cap running})]

ProcessFails ==
  /\ loop = "process"
  /\ \E k \in DOMAIN responses :
       /\ responses[k].fin # "error" /\ responses[k].r \in mapped \cap running
       /\ tokens' = Counted(k)
  /\ FailRequests(tokens')
  /\ responses' = <<>>
  /\ UNCHANGED <<client, heard, errors, removals, chunked, inlined>>

----------------------------------------------------------------------------
Step ==
  \/ StartStep \/ ScheduleWaiting
  \/ PrefillChunk \/ FinishPrefill \/ StartPrefill \/ PreprocessFails \/ NoLongPrompt
  \/ NewBatch \/ ExtendBatch
  \/ Generate \/ ProcessResponses \/ StepFails \/ ProcessFails

Next ==
  \/ Step
  \/ \E r \in Requests : AddRequest(r) \/ Deliver(r) \/ AbortRequest(r) \/ Leave(r)

\* the process loop keeps stepping, and a client that stays reads its queue
Fairness ==
  /\ WF_vars(Step)
  /\ \A r \in Requests : WF_vars(Deliver(r))

Spec == Init /\ [][Next]_vars /\ Fairness

----------------------------------------------------------------------------
(* Properties.                                                              *)

Places(r) ==
    Len(Within(unprocessed, {r})) + Len(Within(errors, {r}))
  + Len(Within(Holders(batch), {r}))
  + (IF partial # None /\ partial.r = r THEN 1 ELSE 0)

\* Scheduler and generator agree between steps: a running request is in exactly
\* one place of the generator, once, and whatever else the generator holds is
\* about to be removed (abort_request() defers the removal, the prefill moves
\* requests between four places).  A prefill chunk that takes in short requests
\* leaves them pending as well, so nothing is claimed after one.
GeneratorAgrees ==
  loop = "idle" /\ ~inlined =>
    \A r \in Requests :
      /\ r \in running => r \in mapped /\ Places(r) = 1
      /\ r \notin running /\ Places(r) > 0 => Places(r) = 1 /\ r \in removals

\* What a client was told at the end is true: every token counted was sent to it
\* before; only an answer cut off by an error may count one more, the token of
\* the step that failed, which was not sent; the reason is the status the
\* scheduler recorded; only an abort ends a stream without a reason
\* (stream_outputs() against the queue step(), abort_request() and the error
\* handler write to).
AnswerHonest ==
  ~inlined =>
    \A r \in Requests : client[r] = "served" =>
      /\ \/ heard[r].n = heard[r].got
         \/ heard[r].fin = "error" /\ heard[r].n = heard[r].got + 1
      /\ status[r] = IF heard[r].fin \in {"stop", "length"} THEN heard[r].fin ELSE "aborted"
      /\ heard[r].fin = "length" => heard[r].got = MaxTokens

\* A client that stays is answered, whatever fails and whatever others do:
\* failing every request after a step error includes those still waiting.
MLLMServed == \A r \in Requests : client[r] = "streaming" ~> client[r] # "streaming"

\* mllm_scheduler.py: "step() generates one token for ALL running requests
\* simultaneously", and next() returns "one per active request".  A chunk of
\* a long prompt that takes in a short request does not take it off the
\* pending ones, so the next chunk adds a second row for it.
OneTokenPerStep == [][\A r \in Requests : tokens'[r] <= tokens[r] + 1]_tokens
=============================================================================
