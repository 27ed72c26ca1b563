------------------------------- MODULE Speech -------------------------------
(***************************************************************************)
(* Voices and speech: what the configuration accepts as a dialogue profile *)
(* (internal/config/config.go), what the TTS stage makes of the turns of   *)
(* its speakers (internal/jobs/generate_tts.go), and how one turn is       *)
(* synthesised (internal/tts/edge.go, internal/tts/azure.go).              *)
(***************************************************************************)
EXTENDS Naturals, Sequences, FiniteSets, SequencesExt

CONSTANTS
  Voices,      \* what a speaker's voice parses to: [service, model, talker]
  MultiModels, \* the voice models that speak as several talkers
  TalkersOf,   \* multi model -> the talkers its name lists, {} for any
  Services,    \* the TTS services a configuration may declare
  MaxSpeakers, \* bound: speakers of a profile
  MaxTurns,    \* bound: turns of a script
  Parts,       \* the pieces into which the client cuts a turn's text
  Handshakes   \* edgeHandshakeAttempts

ASSUME SpeechAssumption ==
  /\ Parts \in Nat \ {0} /\ Handshakes \in Nat \ {0}
  /\ MaxSpeakers \in Nat /\ MaxTurns \in Nat

VARIABLES
  profile,   \* the voices of a dialogue profile that was validated
  declared,  \* the services the configuration declares
  speech,    \* what became of the turn: the synthesis goes on or ended
  attempt,   \* the attempts of RetryEdgeHandshake so far
  part,      \* the next piece of the text
  audio,     \* the buffer: the attempt and the piece of each sound in it
  live       \* whether the worker's context is live

speechVars == <<profile, declared, speech, attempt, part, audio, live>>

SpeechInit ==
  /\ profile = <<>> /\ declared = {} /\ speech = "idle"
  /\ attempt = 0 /\ part = 1 /\ audio = <<>> /\ live = TRUE

-----------------------------------------------------------------------------
\* ParseSpeakerVoice: a multi-talker model needs azure and a talker; the voice
\* of any other model names no talker.
IsMulti(v) == v.talker # "none"

ValidVoice(v) == IF v.model \in MultiModels THEN v.service = "azure" /\ IsMulti(v) ELSE ~IsMulti(v)

\* Mutant: talkers of different models are let through.
ValidMultiAnyModel(voices) ==
  \/ \A n \in DOMAIN voices : ~IsMulti(voices[n])
  \/ (\A n \in DOMAIN voices : IsMulti(voices[n])) /\ Len(voices) >= 2

\* validateMultiTalkerProfile
ValidMulti(voices) ==
  \/ \A n \in DOMAIN voices : ~IsMulti(voices[n])
  \/ /\ \A n \in DOMAIN voices : IsMulti(voices[n]) /\ voices[n].model = voices[1].model
     /\ IsInjective([n \in DOMAIN voices |-> voices[n].talker])
     /\ Len(voices) >= 2
     /\ TalkersOf[voices[1].model] = {} \/ \A n \in DOMAIN voices :
          voices[n].talker \in TalkersOf[voices[1].model]

\* validateDialogueProfile, for a profile that a source uses.
ValidProfile(voices, services) ==
  /\ voices # <<>>
  /\ \A n \in DOMAIN voices : ValidVoice(voices[n]) /\ voices[n].service \in services
  /\ ValidMulti(voices)

\* validateTTSServices: known services only.
Configure(voices, services) ==
  /\ speech = "idle" /\ services \subseteq {"edge", "azure"} /\ services # {}
  /\ ValidProfile(voices, services)
  /\ profile' = voices /\ declared' = services /\ speech' = "configured"
  /\ UNCHANGED <<attempt, part, audio, live>>

-----------------------------------------------------------------------------
\* generateMultiTalker and generateSingleTalker: whether the stage gives up
\* for good on turns with these voices.
Refused(turns) ==
  IF IsMulti(turns[1])
  THEN \/ \E n \in DOMAIN turns : \/ ~IsMulti(turns[n])
                                  \/ turns[n].service # turns[1].service
                                  \/ turns[n].model # turns[1].model
       \/ turns[1].service # "azure" \/ turns[1].service \notin declared
  ELSE \E n \in DOMAIN turns : \/ IsMulti(turns[n])
                               \/ turns[n].service \notin declared \cap {"edge", "azure"}

\* The turns of a script are spoken by speakers of the profile; the services
\* declared are those of the configuration in force.
Speak(speakers) ==
  LET turns == [n \in DOMAIN speakers |-> profile[speakers[n]]]
  IN  /\ speech = "configured"
      /\ speech' = CASE Refused(turns) -> "refused"
                     [] ~Refused(turns) /\ turns[1].service = "azure" -> "azure"
                     [] OTHER -> "edge"
      /\ UNCHANGED <<profile, declared, attempt, part, audio, live>>

\* synthesizeAzureSSML and ResponseError.Retryable: one request, which breaks
\* off (0) or is answered, perhaps without audio or with too much of it.
AzureAnswers(status) ==
  /\ speech = "azure"
  /\ speech' \in CASE status \in 200..299 -> {"done", "failed"}
                   [] status \in {0, 408, 429} \/ status >= 500 -> {"failed"}
                   [] OTHER -> {"rejected"}
  /\ UNCHANGED <<profile, declared, attempt, part, audio, live>>

-----------------------------------------------------------------------------
\* Mutant: the buffer keeps what the refused attempt heard.
StartAttemptUnreset ==
  /\ speech = "edge"
  /\ speech' = "streaming" /\ attempt' = attempt + 1 /\ part' = 1
  /\ UNCHANGED <<profile, declared, audio, live>>

\* synthesizeEdge: an attempt starts with an empty buffer ...
StartAttempt ==
  /\ speech = "edge"
  /\ speech' = "streaming" /\ attempt' = attempt + 1
  /\ part' = 1 /\ audio' = <<>>
  /\ UNCHANGED <<profile, declared, live>>

\* ... connects for every piece of the text, and appends what it hears.
Hear ==
  /\ speech = "streaming" /\ part <= Parts
  /\ audio' = Append(audio, <<attempt, part>>)
  /\ part' = part + 1
  /\ UNCHANGED <<profile, declared, speech, attempt, live>>

StreamEnds ==
  /\ speech = "streaming" /\ part > Parts
  /\ speech' = "done"
  /\ UNCHANGED <<profile, declared, attempt, part, audio, live>>

\* RetryEdgeHandshake: only a refused connection is tried again, while the
\* context is live and attempts are left.
Refuse ==
  /\ speech = "streaming" /\ part <= Parts
  /\ speech' = IF attempt < Handshakes /\ live THEN "waiting" ELSE "failed"
  /\ UNCHANGED <<profile, declared, attempt, part, audio, live>>

\* Another error ends the synthesis, possibly after part of a piece was heard.
Break ==
  /\ speech = "streaming" /\ part <= Parts
  /\ \E heard \in {<<>>, <<<<attempt, part>>>>} : audio' = audio \o heard
  /\ speech' = "failed"
  /\ UNCHANGED <<profile, declared, attempt, part, live>>

\* The timer and a cancellation may both be ready: then either is taken.
WaitOver ==
  /\ speech = "waiting"
  /\ \/ speech' = "edge"
     \/ ~live /\ speech' = "failed"
  /\ UNCHANGED <<profile, declared, attempt, part, audio, live>>

Cancel ==
  /\ live /\ speech \in {"streaming", "waiting"} /\ live' = FALSE
  /\ UNCHANGED <<profile, declared, speech, attempt, part, audio>>

SpeechNext ==
  \/ \E n \in 1..MaxSpeakers, services \in SUBSET Services :
       \E voices \in [1..n -> Voices] : Configure(voices, services)
  \/ \E n \in 1..MaxTurns : \E speakers \in [1..n -> DOMAIN profile] : Speak(speakers)
  \/ \E status \in {0, 200, 400, 401, 408, 429, 503} : AzureAnswers(status)
  \/ StartAttempt \/ Hear \/ StreamEnds \/ Refuse \/ Break \/ WaitOver \/ Cancel

-----------------------------------------------------------------------------
\* A turn's audio is every piece of its text once, in order, as one attempt
\* heard it, however many attempts were refused halfway (synthesizeEdge: the
\* buffer is reset by each attempt).
AudioOfOneAttempt ==
  speech = "done" /\ attempt > 0 => audio = [n \in 1..Parts |-> <<attempt, n>>]

\* A profile that the configuration accepted is never refused by the TTS
\* stage for good, whichever of its speakers speak (validateDialogueProfile
\* against generateSingleTalker and generateMultiTalker).
ValidatedIsVoiced == speech # "refused"

SpeechSpec == SpeechInit /\ [][SpeechNext]_speechVars
=============================================================================
