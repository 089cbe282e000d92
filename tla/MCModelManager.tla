--------------------------- MODULE MCModelManager ---------------------------
(* Instances of ModelManager for TLC.                                       *)
EXTENDS ModelManager

\* two models that fit together, and one that needs the room of both
MCModels == {"a", "b", "ab"}
MCSize == [m \in MCModels |-> IF m = "ab" THEN 2 ELSE 1]
Policy(s, t) == [strategy |-> s, timeout |-> t]
\* in the first, request 1 may be preempted by 2, its model loaded again by 3 and
\* that load be shared by 4
MCScenarios ==
  {<<Policy("wait_then_preempt", FALSE), <<"a", "ab", "a", "a">> >>,
   <<Policy("wait", TRUE), <<"a", "b", "ab", "ab">> >>,
   <<Policy("fail", FALSE), <<"a", "b", "ab", "a">> >>}
=============================================================================
