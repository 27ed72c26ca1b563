----------------------------- MODULE MCServices -----------------------------
(***************************************************************************)
(* Small instances, for TLC, of the components that the pipeline and the   *)
(* runs are surrounded by.  They share no state, so focus picks the one     *)
(* that a behaviour is about and the others rest: their state spaces are   *)
(* explored side by side.                                                  *)
(***************************************************************************)
EXTENDS AdminSession, FeedIntake, Scheduler, Mp3Frames, Speech, ScriptGeneration,
        Library, Process, Content, FilterOrder

VARIABLE focus

Components == {"admin", "intake", "scheduler", "mp3", "speech", "script", "library", "process", "content", "filter"}

ServicesInit ==
  /\ focus \in Components
  /\ AdminInit /\ IntakeInit /\ SchedulerInit /\ Mp3Init /\ SpeechInit
  /\ ScriptInit /\ LibraryInit /\ ProcessInit /\ ContentInit /\ FilterInit

ServicesNext ==
  \/ /\ focus = "admin" /\ AdminNext
     /\ UNCHANGED <<focus, intakeVars, schedulerVars, mp3Vars, speechVars, scriptVars,
                    libraryVars, processVars, contentVars, filterVars>>
  \/ /\ focus = "intake" /\ IntakeNext
     /\ UNCHANGED <<focus, adminVars, schedulerVars, mp3Vars, speechVars, scriptVars,
                    libraryVars, processVars, contentVars, filterVars>>
  \/ /\ focus = "scheduler" /\ SchedulerNext
     /\ UNCHANGED <<focus, adminVars, intakeVars, mp3Vars, speechVars, scriptVars,
                    libraryVars, processVars, contentVars, filterVars>>
  \/ /\ focus = "mp3" /\ Mp3Next
     /\ UNCHANGED <<focus, adminVars, intakeVars, schedulerVars, speechVars, scriptVars,
                    libraryVars, processVars, contentVars, filterVars>>
  \/ /\ focus = "speech" /\ SpeechNext
     /\ UNCHANGED <<focus, adminVars, intakeVars, schedulerVars, mp3Vars, scriptVars,
                    libraryVars, processVars, contentVars, filterVars>>
  \/ /\ focus = "script" /\ ScriptNext
     /\ UNCHANGED <<focus, adminVars, intakeVars, schedulerVars, mp3Vars, speechVars,
                    libraryVars, processVars, contentVars, filterVars>>
  \/ /\ focus = "library" /\ LibraryNext
     /\ UNCHANGED <<focus, adminVars, intakeVars, schedulerVars, mp3Vars, speechVars,
                    scriptVars, processVars, contentVars, filterVars>>
  \/ /\ focus = "process" /\ ProcessNext
     /\ UNCHANGED <<focus, adminVars, intakeVars, schedulerVars, mp3Vars, speechVars,
                    scriptVars, libraryVars, contentVars, filterVars>>
  \/ /\ focus = "content" /\ ContentNext
     /\ UNCHANGED <<focus, adminVars, intakeVars, schedulerVars, mp3Vars, speechVars,
                    scriptVars, libraryVars, processVars, filterVars>>
  \/ /\ focus = "filter" /\ FilterNext
     /\ UNCHANGED <<focus, adminVars, intakeVars, schedulerVars, mp3Vars, speechVars,
                    scriptVars, libraryVars, processVars, contentVars>>

servicesVars == <<focus, adminVars, intakeVars, schedulerVars, mp3Vars, speechVars,
                  scriptVars, libraryVars, processVars, contentVars, filterVars>>

ServicesSpec == ServicesInit /\ [][ServicesNext]_servicesVars

-----------------------------------------------------------------------------
\* A code that three steps share, and others of one step.
SharedCode == [s \in 0..(MaxStep + 1) |-> <<"c0", "c1", "c1", "c0">>[s + 1]]

\* A feed whose newest item the filter rejects, and one of a source that waits for
\* listeners.
TwoFeeds == {<<"x", "a">>, <<"b">>}

SourceAndMirror == <<"s1", "m1">>
TheirTimes == [o \in {"s1", "m1"} |-> IF o = "s1" THEN {2, 4} ELSE {4}]

\* Frames of one to three cells, one with a header and one with a tag inside,
\* tags with frames inside, stray bytes; truncated frames.
FileChunks == {<<1>>, <<2, 0>>, <<3, 1, 11>>, <<12, 1>>, <<13, 12, 2>>, <<0>>}
FileTails == {<<>>, <<3, 1>>, <<2>>}

Voice(s, m, t) == [service |-> s, model |-> m, talker |-> t]
SomeVoices == {Voice("edge", "p", "none"), Voice("azure", "p", "none"), Voice("azure", "m", "t1"),
               Voice("azure", "m", "t2"), Voice("azure", "n", "t1"), Voice("azure", "n", "t2"),
               Voice("azure", "m", "none"), Voice("edge", "m", "t1"), Voice("other", "p", "none")}
Talkers == [m \in {"m", "n"} |-> IF m = "m" THEN {"t1", "t2"} ELSE {}]

TwoServices == <<"l1", "l2">>

\* An episode of a feed source and one that is mirrored.
TheirOwner == [e \in Library |-> IF e = "e1" THEN "s1" ELSE "m1"]
FirstDay == [e \in Library |-> 1]
OneDayOld == [o \in Owners |-> 1]
EveryHost == [name : {"a", "b"}, dot : BOOLEAN, port : BOOLEAN]
OneOrigin == [h \in {"a"} |-> "media.a"]
=============================================================================
