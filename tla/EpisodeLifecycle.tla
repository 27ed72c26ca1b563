-------------------------- MODULE EpisodeLifecycle --------------------------
(***************************************************************************)
(* What a listener may rely on: an episode is discovered, processed, and   *)
(* ends ready or failed; a failed one may be resumed; its script is        *)
(* written once; a ready episode plays exactly its script and stays ready. *)
(* No jobs, workers or stored segments appear here.                        *)
(***************************************************************************)
EXTENDS Naturals

CONSTANTS
  Episodes,
  Automatic,  \* episodes that are processed without a listener's start
  Texts       \* the scripts an episode may be given

VARIABLES
  view,   \* the state the player shows
  text,   \* the script, 0 before it is written
  voice   \* the scripts heard in the audio on offer

lifecycle == <<view, text, voice>>

Init ==
  /\ view  = [e \in Episodes |-> "absent"]
  /\ text  = [e \in Episodes |-> 0]
  /\ voice = [e \in Episodes |-> {}]

Show(e, from, to) == /\ view[e] = from
                     /\ view' = [view EXCEPT ![e] = to]

Discover(e) == Show(e, "absent", "pending") /\ UNCHANGED <<text, voice>>

Begin(e) == Show(e, "pending", "processing") /\ UNCHANGED <<text, voice>>

Write(e) ==
  /\ view[e] = "processing" /\ text[e] = 0
  /\ \E t \in Texts : text' = [text EXCEPT ![e] = t]
  /\ UNCHANGED <<view, voice>>

Finish(e) ==
  /\ text[e] # 0
  /\ Show(e, "processing", "ready")
  /\ voice' = [voice EXCEPT ![e] = {text[e]}]
  /\ UNCHANGED text

Break(e) == Show(e, "processing", "failed") /\ UNCHANGED <<text, voice>>

Resume(e) ==
  /\ Show(e, "failed", "pending") \/ Show(e, "failed", "processing")
  /\ UNCHANGED <<text, voice>>

Remove(e) ==
  /\ view[e] \notin {"absent", "gone"}
  /\ view'  = [view  EXCEPT ![e] = "gone"]
  /\ text'  = [text  EXCEPT ![e] = 0]
  /\ voice' = [voice EXCEPT ![e] = {}]

Settle(e) == Finish(e) \/ Break(e)

Next == \E e \in Episodes :
  \/ Discover(e) \/ Begin(e) \/ Write(e) \/ Settle(e) \/ Resume(e) \/ Remove(e)

Fairness == /\ \A e \in Automatic : WF_lifecycle(Begin(e))
            /\ \A e \in Episodes : WF_lifecycle(Settle(e))

Spec == Init /\ [][Next]_lifecycle /\ Fairness
=============================================================================
