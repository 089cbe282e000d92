--------------------------- MODULE MCTieredCache ---------------------------
(* Instances of TieredCache for TLC.                                        *)
EXTENDS TieredCache

\* one prompt that extends another, one that diverges from its answer, and one
\* that is the first prompt with its answer
MCPrompts == {<<1, 1>>, <<1, 1, 2>>, <<1, 1, 1>>}
=============================================================================
