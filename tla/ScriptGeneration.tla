-------------------------- MODULE ScriptGeneration --------------------------
(***************************************************************************)
(* How the script stage (internal/jobs/generate_script.go) fills a prompt, *)
(* asks the LLM services of a source one after the other, and makes a      *)
(* script of what they answer: the strict decoder, the repair that is      *)
(* tried when it fails (internal/jobs/script_json.go), the validation.     *)
(* An answer is a sequence of JSON tokens; "prose" is any other text.      *)
(***************************************************************************)
EXTENDS Naturals, Sequences, SequencesExt

CONSTANTS
  Speakers,  \* the speakers of the episode
  LLMServices, \* the LLM services of the source, in order
  AnswerTurns, \* bound: turns of an answer
  MaxFlaws,  \* bound: departures from the schema in one answer
  Limit,     \* maxRunes of the documents in the prompt
  Header,    \* runes of a document's header
  Contents,  \* bound: runes that the content of a document may have
  MaxDocs    \* bound: documents of an episode

ASSUME ScriptAssumption ==
  /\ AnswerTurns \in Nat /\ MaxFlaws \in Nat /\ Limit \in Nat /\ MaxDocs \in Nat
  /\ Header \in Nat \ {0} /\ Contents \subseteq Nat

VARIABLES
  stage,    \* what the worker is doing
  docs,     \* where each document so far ends in the text of all of them
  prompt,   \* the text of the prompt: its runes and whether it was cut
  service,  \* the number of the service that is asked
  answer,   \* the tokens of its answer
  meant,    \* history: the turns the answer was to have
  flaws,    \* history: departures from the schema in the answer
  mendable, \* history: whether all of them are of the kinds that are repaired
  script    \* the turns that are stored

scriptVars == <<stage, docs, prompt, service, answer, meant, flaws, mendable, script>>

NoPrompt == [written |-> 0, included |-> 0, truncated |-> FALSE]

ScriptInit ==
  /\ stage = "render" /\ docs = <<>> /\ prompt = NoPrompt /\ service = 1
  /\ answer = <<>> /\ meant = <<>> /\ flaws = 0 /\ mendable = TRUE /\ script = <<>>

-----------------------------------------------------------------------------
\* writeRunes: as much of a text as the rest of the limit holds.
WriteRunes(p, runes) ==
  LET rest == Limit - p.written
  IN  IF runes <= rest THEN [p EXCEPT !.written = @ + runes]
      ELSE [p EXCEPT !.written = @ + rest, !.truncated = TRUE]

\* Mutant: a full prompt is not noticed before something is cut.
RenderedUnnoticed(p, runes) ==
  IF p.truncated THEN p
  ELSE IF Limit - p.written < 0 THEN [p EXCEPT !.truncated = TRUE]
  ELSE LET headed == WriteRunes([p EXCEPT !.included = @ + 1], Header)
       IN  IF headed.truncated THEN headed ELSE WriteRunes(headed, runes)

\* One round of renderDocuments: the loop is left once something was cut.
Rendered(p, runes) ==
  IF p.truncated THEN p
  ELSE IF Limit - p.written <= 0 THEN [p EXCEPT !.truncated = TRUE]
  ELSE LET headed == WriteRunes([p EXCEPT !.included = @ + 1], Header)
       IN  IF headed.truncated THEN headed ELSE WriteRunes(headed, runes)

\* The runes of the first n documents.
Total(n) == IF n = 0 THEN 0 ELSE docs[n]

RenderDocument(runes) ==
  /\ stage = "render" /\ Len(docs) < MaxDocs
  /\ docs' = Append(docs, Total(Len(docs)) + Header + runes)
  /\ prompt' = Rendered(prompt, runes)
  /\ UNCHANGED <<stage, service, answer, meant, flaws, mendable, script>>

\* loadDocuments: an episode without documents fails for good. The figures of
\* the prompt are logged and forgotten.
Prompted ==
  /\ stage = "render"
  /\ stage' = IF docs = <<>> THEN "permanent" ELSE "ask"
  /\ docs' = <<>> /\ prompt' = NoPrompt
  /\ UNCHANGED <<service, answer, meant, flaws, mendable, script>>

-----------------------------------------------------------------------------
Tok(c) == [kind |-> c, value |-> "", marred |-> FALSE]
Str(v, marred) == [kind |-> "string", value |-> v, marred |-> marred]
Toks(cs) == [n \in DOMAIN cs |-> Tok(cs[n])]

\* repairJSONStringSyntax: escaped underscores and raw control characters.
WithStringsMended(ts) == [n \in DOMAIN ts |-> [ts[n] EXCEPT !.marred = FALSE]]

Frame(kind, turns, turn) ==
  [kind |-> kind, turnsArray |-> turns, turnObject |-> turn, key |-> "", lastKey |-> "",
   hasSpeaker |-> FALSE, hasText |-> FALSE]

NoFrame == Frame("", FALSE, FALSE)
Top(stack) == IF stack = <<>> THEN NoFrame ELSE Last(stack)
OnTop(stack, frame) == [stack EXCEPT ![Len(stack)] = frame]

MissingTurnBoundary(stack) ==
  /\ Len(stack) >= 2
  /\ LET turn == Last(stack)  parent == stack[Len(stack) - 1]
     IN  /\ turn.turnObject /\ turn.hasSpeaker /\ turn.hasText /\ turn.lastKey = "text"
         /\ parent.kind = "[" /\ parent.turnsArray

KindAt(ts, n) == IF n \in DOMAIN ts THEN ts[n].kind ELSE "none"

NextObjectLooksLikeTurn(ts, n) ==
  /\ KindAt(ts, n + 1) = "string" /\ KindAt(ts, n + 2) = ":"
  /\ ~ts[n + 1].marred /\ ts[n + 1].value \in {"speaker_id", "speer_id"}

\* One round of repairTurnObjects: token n is copied to out, as a member of
\* the innermost object or array on the stack.
MendString(ts, s, n) ==
  LET t == ts[n]  top == Top(s.stack)
      name == IF top.turnObject /\ t.value = "speer_id" THEN "speaker_id" ELSE t.value
  IN  CASE t.marred \/ top.kind # "{" -> [s EXCEPT !.out = Append(@, t)]
        [] ~t.marred /\ top.kind = "{" /\ KindAt(ts, n + 1) = ":" ->
             [out |-> Append(s.out, Str(name, FALSE)),
              stack |-> OnTop(s.stack, [top EXCEPT
                !.key = name,
                !.hasSpeaker = @ \/ (top.turnObject /\ name = "speaker_id"),
                !.hasText = @ \/ (top.turnObject /\ name = "text")])]
        [] OTHER -> [out |-> Append(s.out, t),
                     stack |-> OnTop(s.stack, [top EXCEPT !.lastKey = top.key, !.key = ""])]

MendOpening(ts, s, n) ==
  LET split == MissingTurnBoundary(s.stack) /\ NextObjectLooksLikeTurn(ts, n)
      stack == IF split THEN Front(s.stack) ELSE s.stack
  IN  [out |-> s.out \o (IF split THEN Toks(<<"}", ",">>) ELSE <<>>) \o <<ts[n]>>,
       stack |-> Append(stack, Frame("{", FALSE, Top(stack).kind = "[" /\ Top(stack).turnsArray))]

MendArray(ts, s, n) ==
  LET top == Top(s.stack)
      outer == IF top.kind = "{" THEN OnTop(s.stack, [top EXCEPT !.key = ""]) ELSE s.stack
  IN  [out |-> Append(s.out, ts[n]),
       stack |-> Append(outer, Frame("[", top.kind = "{" /\ top.key = "turns", FALSE))]

MendToken(ts, s, n) ==
  CASE ts[n].kind = "string" -> MendString(ts, s, n)
    [] ts[n].kind = "{" -> MendOpening(ts, s, n)
    [] ts[n].kind = "[" -> MendArray(ts, s, n)
    [] OTHER -> [out |-> Append(s.out, ts[n]),
                 stack |-> IF <<Top(s.stack).kind, ts[n].kind>> \in {<<"{", "}">>, <<"[", "]">>}
                           THEN Front(s.stack) ELSE s.stack]

WithTurnsMended(ts) ==
  LET mended[n \in 0..Len(ts)] ==
        IF n = 0 THEN [out |-> <<>>, stack |-> <<>>] ELSE MendToken(ts, mended[n - 1], n)
  IN  mended[Len(ts)].out

\* removeTrailingJSONCommas
WithoutTrailingCommas(ts) ==
  LET kept == SelectSeq([n \in DOMAIN ts |-> n],
                LAMBDA n : ~(ts[n].kind = "," /\ KindAt(ts, n + 1) \in {"}", "]"}))
  IN  [n \in DOMAIN kept |-> ts[kept[n]]]

\* Mutant: commas are removed before the turns are mended.
RepairedInOrder(ts) == WithTurnsMended(WithoutTrailingCommas(WithStringsMended(ts)))

\* repairGeneratedScriptJSON
Repaired(ts) == WithoutTrailingCommas(WithTurnsMended(WithStringsMended(ts)))

-----------------------------------------------------------------------------
\* The documents that decode into a generatedScript: what may follow what.
Schema ==
  {<<"begin", "{", "top{">>, <<"top{", "}", "end">>, <<"top;", "}", "end">>, <<"top;", ",", "top,">>,
   <<"top{", "title", "title">>, <<"top,", "title", "title">>, <<"title", ":", "title:">>,
   <<"top{", "turns", "turns">>, <<"top,", "turns", "turns">>, <<"turns", ":", "turns:">>,
   <<"title:", "string", "top;">>, <<"turns:", "[", "turns[">>, <<"turns[", "]", "top;">>,
   <<"turns[", "{", "turn{">>, <<"turns,", "{", "turn{">>, <<"turns;", ",", "turns,">>,
   <<"turns;", "]", "top;">>, <<"turn{", "}", "turns;">>, <<"turn;", "}", "turns;">>,
   <<"turn{", "speaker_id", "speaker_id">>, <<"turn,", "speaker_id", "speaker_id">>,
   <<"turn{", "text", "text">>, <<"turn,", "text", "text">>, <<"turn;", ",", "turn,">>,
   <<"speaker_id", ":", "speaker_id:">>, <<"speaker_id:", "string", "turn;">>,
   <<"text", ":", "text:">>, <<"text:", "string", "turn;">>}

NoTurn == [speaker |-> "", text |-> ""]
NotAScript == [at |-> "error", seen |-> {}, turns |-> <<>>]

\* Mutant: the last of two equal keys wins, as in encoding/json.
RepeatedUnseen(s, word) == FALSE

\* Spellings that name one field: encoding/json ignores the case of a key.
Folded(word) ==
  CASE word = "Speaker_ID" -> "speaker_id" [] word = "Text" -> "text" [] OTHER -> word

\* A key that the object has already, in the same spelling, is refused before
\* the decoder sees it.
Repeated(s, word) == s.at \in {"turn{", "turn,", "top{", "top,"} /\ word \in s.seen

\* A turn without a field keeps the empty string, and so does a script
\* without turns an empty list.
Decode(s, t) ==
  LET isKey == s.at \in {"turn{", "turn,", "top{", "top,"}
      word == IF t.kind = "string" /\ isKey THEN t.value ELSE t.kind
      next == {rule \in Schema : rule[1] = s.at /\ rule[2] = Folded(word)}
      turn == Len(s.turns)
  IN  IF next = {} \/ t.marred \/ Repeated(s, word) THEN NotAScript
      ELSE [at |-> (CHOOSE rule \in next : TRUE)[3],
            seen |-> CASE word = "{" -> {} [] isKey -> s.seen \cup {word}
                       [] s.at = "turns:" -> {"turns"} [] OTHER -> s.seen,
            turns |-> CASE s.at \in {"turns[", "turns,"} /\ word = "{" -> Append(s.turns, NoTurn)
                        [] s.at = "speaker_id:" -> [s.turns EXCEPT ![turn].speaker = t.value]
                        [] s.at = "text:" -> [s.turns EXCEPT ![turn].text = t.value]
                        [] OTHER -> s.turns]

\* decodeGeneratedScriptStrict
Strict(ts) ==
  LET decoded[n \in 0..Len(ts)] ==
        IF n = 0 THEN [at |-> "begin", seen |-> {}, turns |-> <<>>]
        ELSE Decode(decoded[n - 1], ts[n])
  IN  decoded[Len(ts)]
IsScript(s) == s.at = "end"

\* validateScript
ValidScript(s) ==
  /\ IsScript(s) /\ s.turns # <<>>
  /\ \A n \in DOMAIN s.turns : s.turns[n].speaker \in Speakers /\ s.turns[n].text # ""

\* decodeGeneratedScript: what decodes is never repaired.
Decoded(ts) == IF IsScript(Strict(ts)) THEN Strict(ts) ELSE Strict(Repaired(ts))

\* extractJSONObject: from the first opening to the last closing brace.
Extracted(ts) ==
  LET opens == {n \in DOMAIN ts : ts[n].kind = "{"}
      closes == {n \in DOMAIN ts : ts[n].kind = "}"}
  IN  IF opens = {} \/ closes = {} THEN ts
      ELSE LET first == CHOOSE n \in opens : \A m \in opens : n <= m
               last == CHOOSE n \in closes : \A m \in closes : m <= n
           IN  IF first <= last THEN SubSeq(ts, first, last) ELSE ts

Usable(ts) == ValidScript(Decoded(Extracted(ts)))

-----------------------------------------------------------------------------
\* The service answers with a completion, of which these are the first tokens.
Ask ==
  /\ stage = "ask" /\ stage' = "answering"
  /\ \E fence \in {<<>>, <<"prose">>} :
       answer' = Toks(fence \o <<"{">>) \o <<Str("title", FALSE), Tok(":"), Str("T", FALSE), Tok(","),
                       Str("turns", FALSE), Tok(":"), Tok("[")>>
  /\ flaws' = Len(SelectSeq(answer', LAMBDA t : t.kind = "prose"))
  /\ UNCHANGED <<docs, prompt, service, meant, mendable, script>>

Separators == {<<"}", ",", "{">>, <<"{">>, <<",", "{">>, <<"}", "{">>, <<",">>, <<"}", ",">>}

\* The keys of a turn: as in the schema, mistyped, or in another case.
Spelling(speaker, marred, text) == [speaker |-> Str(speaker, marred), text |-> Str(text, FALSE)]
SchemaKeys == Spelling("speaker_id", FALSE, "text")
TurnKeys ==
  {SchemaKeys, Spelling("speaker_id", TRUE, "text"), Spelling("speer_id", FALSE, "text"),
   Spelling("Speaker_ID", FALSE, "text"), Spelling("Speaker_ID", FALSE, "Text")}

\* One more turn: its fields in either order, after a separator that is the
\* right one or lacks a token.
AnswerTurn(turn, keys, marred, textFirst, comma, separator) ==
  LET named == <<keys.speaker, Tok(":"), Str(turn.speaker, FALSE)>>
      said == <<keys.text, Tok(":"), Str(turn.text, marred)>>
      body == IF textFirst THEN said \o <<Tok(",")>> \o named ELSE named \o <<Tok(",")>> \o said
      first == meant = <<>>
      broken == ~first /\ separator # <<"}", ",", "{">>
      count == (IF keys = SchemaKeys THEN 0 ELSE 1) + (IF marred THEN 1 ELSE 0)
               + (IF comma THEN 1 ELSE 0) + (IF broken THEN 1 ELSE 0)
               + (IF turn.speaker \in Speakers /\ turn.text # "" THEN 0 ELSE 1)
      textLast == KindAt(answer, Len(answer) - 2) = "string" /\ answer[Len(answer) - 2].value = "text"
      schemaCase == "Speaker_ID" \notin {keys.speaker.value, answer[Len(answer) - 6].value}
  IN  /\ stage = "answering" /\ Len(meant) < AnswerTurns
      /\ first => separator = <<"}", ",", "{">>
      /\ flaws' = flaws + count /\ flaws' <= MaxFlaws
      /\ answer' = answer \o (IF first THEN Toks(<<"{">>) ELSE Toks(separator)) \o body
                   \o (IF comma THEN Toks(<<",">>) ELSE <<>>)
      /\ meant' = Append(meant, turn)
      /\ mendable' = /\ mendable
                     /\ broken => /\ separator \in {<<"{">>, <<",", "{">>}
                                  /\ textLast /\ ~textFirst /\ schemaCase
      /\ UNCHANGED <<stage, docs, prompt, service, script>>

Endings == {<<"}", "]", "}">>, <<"}", ",", "]", ",", "}">>, <<"}", "]", "}", "prose">>,
            <<"]", "}">>, <<"}", "]", "}", "}">>}

\* The answer ends, well or not; or it is cut off where its tokens ran out.
EndAnswer(ending) ==
  /\ stage = "answering" /\ meant # <<>>
  /\ stage' = "answered" /\ answer' = answer \o Toks(ending)
  /\ mendable' = (mendable /\ ending \notin {<<"]", "}">>, <<"}", "]", "}", "}">>})
  /\ UNCHANGED <<docs, prompt, service, meant, flaws, script>>

CutOff ==
  /\ stage = "answering"
  /\ stage' = "answered" /\ mendable' = FALSE
  /\ \E n \in 0..2 : answer' = SubSeq(answer, 1, Len(answer) - n)
  /\ UNCHANGED <<docs, prompt, service, meant, flaws, script>>

\* What this service answered is forgotten, and the next one is asked.
NextService ==
  /\ IF service < Len(LLMServices) THEN stage' = "ask" /\ service' = service + 1
     ELSE stage' = "retry" /\ service' = service
  /\ answer' = <<>> /\ meant' = <<>> /\ flaws' = 0 /\ mendable' = TRUE /\ script' = <<>>

\* The answer is decoded: it becomes the script, or the next service is asked.
TakeAnswer ==
  /\ stage = "answered"
  /\ IF Usable(answer)
     THEN /\ stage' = "stored" /\ script' = Decoded(Extracted(answer)).turns
          /\ UNCHANGED <<service, answer, meant, flaws, mendable>>
     ELSE NextService
  /\ UNCHANGED <<docs, prompt>>

\* callLLM without a completion: the next service is asked when the request
\* broke off or timed out, when the service is busy or out of order, or its
\* answer has no choices; any other status fails the stage for good.
NoCompletion(status) ==
  /\ stage = "ask"
  /\ IF status \in {0, 200, 408, 429} \/ status >= 500 THEN NextService
     ELSE /\ stage' = "permanent"
          /\ UNCHANGED <<service, answer, meant, flaws, mendable, script>>
  /\ UNCHANGED <<docs, prompt>>

ScriptNext ==
  \/ \E runes \in Contents : RenderDocument(runes)
  \/ Prompted \/ Ask \/ CutOff \/ TakeAnswer
  \/ \E speaker \in Speakers \cup {"nobody"}, text \in {"hi", ""}, keys \in TurnKeys :
       \E marred, textFirst, comma \in BOOLEAN, separator \in Separators :
         AnswerTurn([speaker |-> speaker, text |-> text], keys, marred, textFirst, comma, separator)
  \/ \E ending \in Endings : EndAnswer(ending)
  \/ \E status \in {0, 200, 302, 401, 408, 429, 503} : NoCompletion(status)

-----------------------------------------------------------------------------
\* An object of the answer spells one field in two ways: joined turns that do
\* so pass for one, of which the decoder keeps the last fields.
SpeltTwice ==
  \E m, n \in DOMAIN answer :
    /\ m < n /\ \A l \in m..n : answer[l].kind # "{"
    /\ answer[m].value # answer[n].value /\ Folded(answer[m].value) = Folded(answer[n].value)

\* Whatever an answer lacks, a script that is stored has every turn that was
\* meant, in order and with its own speaker: repair never joins two turns or
\* loses one, as long as no object spells a field in two ways
\* (decodeGeneratedScript, rejectDuplicateJSONKeys).
StoredAsMeant == stage = "stored" /\ ~SpeltTwice => script = meant

\* An answer whose flaws are all of the kinds the repair knows, in whatever
\* combination, is mended whenever what it meant is valid (repairTurnObjects
\* and its order among the three passes).
KnownFlawsMended ==
  stage = "answered" /\ mendable
    /\ (\A n \in DOMAIN meant : meant[n].speaker \in Speakers /\ meant[n].text # "")
    => Usable(answer)

\* The prompt is the beginning of the documents, as long as the limit allows;
\* it counts as cut exactly when something is missing, and counts the
\* documents that it shows part of, which are the first ones
\* (renderDocuments, writeRunes).
PromptIsPrefix ==
  /\ prompt.written = IF Total(Len(docs)) <= Limit THEN Total(Len(docs)) ELSE Limit
  /\ prompt.truncated <=> Total(Len(docs)) > Limit
  /\ prompt.included \in 0..Len(docs)
  /\ \A n \in DOMAIN docs : n <= prompt.included <=> Total(n - 1) < Limit

ScriptSpec == ScriptInit /\ [][ScriptNext]_scriptVars
=============================================================================
