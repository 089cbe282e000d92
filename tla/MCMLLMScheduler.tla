--------------------------- MODULE MCMLLMScheduler ---------------------------
(* Instances of MLLMScheduler for TLC.                                      *)
EXTENDS MLLMScheduler, TLC

CONSTANTS text, essay, photo, speech

MCKind == (text :> "short") @@ (essay :> "long") @@ (photo :> "image")
MCKindMedia == (speech :> "audio") @@ (essay :> "long") @@ (photo :> "image")
=============================================================================
