-------------------------- MODULE MCEpisodePipeline --------------------------
(***************************************************************************)
(* Small instances of EpisodePipeline for TLC.  Two attempts are enough to *)
(* tell the last attempt of a job from the others; one attempt keeps the   *)
(* stages that a run is not about small.                                   *)
(***************************************************************************)
EXTENDS EpisodePipeline

TwoAttempts == [k \in Stages |-> 2]

\* Redelivery of the stages that write what later stages read.
MiddleTwice ==
  [k \in Stages |-> IF k \in {"generate_script", "generate_tts"} THEN 2 ELSE 1]

\* One stage that runs again is enough where listeners and operators act.
ScriptTwice == [k \in Stages |-> IF k = "generate_script" THEN 2 ELSE 1]
=============================================================================
