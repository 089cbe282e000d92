---------------------------- MODULE MCScheduler ----------------------------
(* Instances of Scheduler for TLC.                                         *)
EXTENDS Scheduler, TLC

CONSTANTS r1, r2, r3, hot, cold

AllSame == [r \in Requests |-> hot]
OneDiffers == [r \in Requests |-> IF r = r2 THEN cold ELSE hot]

AnyFault == Sites \X Kinds
NextFaults == {"next"} \X Kinds
RecoverableFaults ==
  NextFaults \cup {<<"process", "fatal">>, <<"cleanup", "fatal">>}
InsertFaults == {"create", "insert"} \X {"fatal"}

(* Requests with the same sampler settings are interchangeable.            *)
SameSampler == Permutations(Requests)

(* At most one of the requests is aborted by its owner.                    *)
OneAbortNext ==
  \/ WorkerStep
  \/ \E r \in Requests :
       \/ AddRequest(r)
       \/ aborted = {} /\ AbortRequest(r)
       \/ r \in aborted /\ RemoveFinishedRequest(r)

OneAbort == SchedulerInit /\ [][OneAbortNext]_schedulerVars
=============================================================================
