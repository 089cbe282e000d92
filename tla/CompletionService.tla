------------------------- MODULE CompletionService -------------------------
(***************************************************************************)
(* What the engine promises the owner of a request, with no scheduler, no  *)
(* batch and no collector: tokens are produced, a streaming client gets    *)
(* all of them, a waiting client gets the final count, and every client    *)
(* that stays is answered exactly once.                                    *)
(***************************************************************************)
EXTENDS Integers

CONSTANTS
  Requests,
  MaxTokens     \* SamplingParams.max_tokens

VARIABLES
  client,       \* what the owner of the request is doing
  produced,     \* tokens generated for the request
  received,     \* tokens its owner has been given
  result        \* the finish reason its owner was given

serviceVars == <<client, produced, received, result>>

NoResult == "none"
Open == {"stream", "generate"}

ServiceInit ==
  /\ client = [r \in Requests |-> "new"]
  /\ produced = [r \in Requests |-> 0]
  /\ received = [r \in Requests |-> 0]
  /\ result = [r \in Requests |-> NoResult]

Ask(r) ==
  /\ client[r] = "new"
  /\ \E mode \in Open : client' = [client EXCEPT ![r] = mode]
  /\ UNCHANGED <<produced, received, result>>

(* Any of the requests gain a token at once: they are batched.  A request  *)
(* whose owner has left may run on for a while.                            *)
Produce(rs) ==
  /\ \A r \in rs : client[r] \notin {"new", "served"} /\ produced[r] < MaxTokens
  /\ produced' = [r \in Requests |-> IF r \in rs THEN produced[r] + 1
                                     ELSE produced[r]]
  /\ UNCHANGED <<client, received, result>>

(* A streaming client is given tokens that were produced, in chunks.       *)
Receive(r, upTo) ==
  /\ client[r] = "stream"
  /\ received[r] < upTo /\ upTo <= produced[r]
  /\ received' = [received EXCEPT ![r] = upTo]
  /\ UNCHANGED <<client, produced, result>>

(* The answer.  Nothing is missing from a stream, but for the last token   *)
(* perhaps when it fails; a waiting client whose request failed is given   *)
(* no tokens.                                                              *)
Given(r, reason) ==
  CASE reason # "error"                            -> {produced[r]}
    [] reason = "error" /\ client[r] = "generate" -> {0}
    [] OTHER -> {n \in {produced[r] - 1, produced[r]} : received[r] <= n}

Answer(r, reason) ==
  /\ client[r] \in Open
  /\ reason = "stop" => produced[r] > 0
  /\ reason = "length" => produced[r] = MaxTokens
  /\ client' = [client EXCEPT ![r] = "served"]
  /\ \E n \in Given(r, reason) : received' = [received EXCEPT ![r] = n]
  /\ result' = [result EXCEPT ![r] = reason]
  /\ UNCHANGED produced

Quit(r) ==
  /\ \/ client[r] \in Open /\ client' = [client EXCEPT ![r] = "leaving"]
     \/ client[r] = "leaving" /\ client' = [client EXCEPT ![r] = "gone"]
  /\ UNCHANGED <<produced, received, result>>

Close(r) ==
  Quit(r) \/ \E reason \in {"stop", "length", "error"} : Answer(r, reason)

ServiceNext ==
  \/ \E rs \in SUBSET Requests : Produce(rs)
  \/ \E r \in Requests :
       Ask(r) \/ Close(r) \/ \E upTo \in 1..MaxTokens : Receive(r, upTo)

(* Every client that stays is answered.                                    *)
ServiceSpec ==
  /\ ServiceInit /\ [][ServiceNext]_serviceVars
  /\ \A r \in Requests : WF_serviceVars(Close(r))
=============================================================================
