----------------------------- MODULE MCSourceRuns -----------------------------
(***************************************************************************)
(* Small instances of SourceRuns for TLC.                                  *)
(***************************************************************************)
EXTENDS SourceRuns

TwoAttempts == [k \in Kinds |-> 2]
OneAttempt  == [k \in Kinds |-> 1]

\* One subscription mirrors everything.
AllFrom == [e \in Remote |-> CHOOSE o \in Subscriptions : TRUE]
=============================================================================
