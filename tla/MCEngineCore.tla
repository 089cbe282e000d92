---------------------------- MODULE MCEngineCore ----------------------------
(* Instances of EngineCore for TLC.                                        *)
EXTENDS EngineCore, TLC

CONSTANTS r1, r2, hot

AllSame == [r \in Requests |-> hot]

(* Every fault but those that strike while a request is being inserted.    *)
GenerationFaults == {"next", "process", "cleanup", "epilogue"} \X Kinds
(* Faults that neither put requests back in the queue nor lose responses   *)
(* without an error.                                                       *)
PlainFaults ==
  ({"next", "process", "cleanup"} \X {"fatal"}) \cup {<<"next", "type">>}

(* Requests with the same sampler settings are interchangeable.            *)
SameSampler == Permutations(Requests)
=============================================================================
