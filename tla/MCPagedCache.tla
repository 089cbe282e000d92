---------------------------- MODULE MCPagedCache ----------------------------
(* Instances of PagedCache for TLC.                                         *)
EXTENDS PagedCache

\* one block, the same block after another one, and a prompt of both
MCPrompts == {<<1, 1>>, <<2, 2, 1, 1>>, <<1, 1, 1, 1>>}
=============================================================================
