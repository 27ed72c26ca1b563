------------------------------- MODULE Content -------------------------------
(***************************************************************************)
(* The text an episode is made from: which content settings of a source    *)
(* the configuration accepts (internal/config/config.go), what the content *)
(* stage does with them (internal/jobs/resolve_content.go), and how a      *)
(* topic of many pages is fetched in batches and its replies are put       *)
(* together (crawl4ai_content.go, v2ex_content.go).                        *)
(***************************************************************************)
EXTENDS Integers, Sequences, SequencesExt

CONSTANTS
  PageLimit,  \* maxV2EXPages
  BatchSize,  \* crawl4AIMaxBatchURLs
  TopicPages, \* bound: pages that a topic may report
  DocLimit,   \* MaxDocumentsPerItem
  DerivedLen  \* bound: items of a derived feed

ASSUME ContentAssumption ==
  /\ PageLimit \in Nat \ {0} /\ BatchSize \in Nat \ {0} /\ DocLimit \in Nat \ {0}
  /\ TopicPages \in Nat /\ DerivedLen \in Nat

VARIABLES
  settings, \* the content settings of the source, once validated
  fetching, \* what the stage is doing, or how it ended
  reported, \* PageCount of the topic's first page
  pages,    \* the pages fetched: number and replies
  turned,   \* the pages whose replies are all collected
  taken,    \* the replies of the next page that were looked at
  replies,  \* the replies collected, in the order they were found
  arranged, \* those of them that are in their places already
  documents \* the documents: items of the derived feed, 0 for its metadata

contentVars == <<settings, fetching, reported, pages, turned, taken, replies, arranged, documents>>
replyVars == <<turned, taken, replies, arranged>>

\* Settings of a source: [type, base, ownBase, mode, ownMode, transform, from,
\* pattern]; own... are the source's, "none" where it has none.
SettingSet ==
  [type : {"rss-item", "jina", "crawl4ai", "derived-rss", "other"},
   base : {"", "url"}, ownBase : {"none", "", "url"}, mode : {"", "crawl"},
   ownMode : {"none", "", "md", "crawl", "other"}, transform : {"", "v2ex-topic", "other"},
   from : {"", "item.link", "other"}, pattern : BOOLEAN]

ContentInit ==
  /\ settings = <<>> /\ fetching = "none" /\ reported = 0 /\ pages = <<>> /\ documents = <<>>
  /\ turned = 0 /\ taken = 0 /\ replies = <<>> /\ arranged = <<>>

-----------------------------------------------------------------------------
\* EffectiveService: the source's value replaces the service's, empty or not;
\* EffectiveMode: md where the mode is empty.
OverrideString(fallback, own) == IF own = "none" THEN fallback ELSE own
BaseURL(c) == OverrideString(c.base, c.ownBase)
Mode(c) == LET mode == OverrideString(c.mode, c.ownMode) IN IF mode = "" THEN "md" ELSE mode

\* validateContent
ValidContent(c) ==
  CASE c.type = "rss-item" -> c.transform = ""
    [] c.type = "jina" -> BaseURL(c) # "" /\ c.from = "item.link" /\ c.transform = ""
    [] c.type = "crawl4ai" -> /\ BaseURL(c) # "" /\ Mode(c) \in {"md", "crawl"}
                              /\ c.from = "item.link" /\ c.transform \in {"", "v2ex-topic"}
                              /\ Mode(c) = "crawl" <=> c.transform = "v2ex-topic"
    [] c.type = "derived-rss" -> c.transform = "" /\ c.pattern /\ c.from # ""
    [] OTHER -> FALSE

Accept(c) ==
  /\ fetching = "none" /\ ValidContent(c)
  /\ settings' = c /\ fetching' = "begin"
  /\ UNCHANGED <<reported, pages, replyVars, documents>>

\* resolve: the step that the settings lead to; "refused" where the stage
\* gives up for good because of the settings alone.
FirstFetch(c) ==
  CASE c.type = "rss-item" -> "item"
    [] c.type = "jina" -> IF BaseURL(c) = "" THEN "refused" ELSE "text"
    [] c.type = "crawl4ai" ->
         CASE Mode(c) \notin {"md", "crawl"} \/ BaseURL(c) = "" -> "refused"
           [] Mode(c) = "md" /\ BaseURL(c) # "" -> "text"
           [] OTHER -> IF c.transform = "v2ex-topic" THEN "topic" ELSE "refused"
    [] c.type = "derived-rss" -> IF c.from = "item.link" THEN "derived" ELSE "refused"
    [] OTHER -> "refused"

Begin ==
  /\ fetching = "begin" /\ fetching' = FirstFetch(settings)
  /\ UNCHANGED <<settings, reported, pages, replyVars, documents>>

Ends(outcome) == fetching' = outcome /\ UNCHANGED <<settings, reported, pages, replyVars, documents>>

\* The item has text or not; a service answers: busy and broken services are
\* asked again later, any other refusal is final, and so is an undecodable
\* answer of Crawl4AI; an empty one is asked for again.
FetchText ==
  \/ fetching = "item" /\ \E outcome \in {"stored", "permanent"} : Ends(outcome)
  \/ fetching = "text" /\ \E outcome \in {"stored", "retry", "permanent"} : Ends(outcome)

\* fetchDerivedRSS: items without text are passed over; the feed's own title
\* and description come first. No document at all is asked for again.
Derived(usable, metadata) ==
  LET items == SelectSeq([n \in DOMAIN usable |-> n], LAMBDA n : usable[n])
      kept == SubSeq(items, 1, IF Len(items) < DocLimit THEN Len(items) ELSE DocLimit)
  IN  IF kept = <<>> \/ ~metadata THEN kept ELSE <<0>> \o kept

FetchDerived ==
  /\ fetching = "derived"
  /\ \/ \E n \in 0..DerivedLen : \E usable \in [1..n -> BOOLEAN], metadata \in BOOLEAN :
          /\ documents' = Derived(usable, metadata)
          /\ fetching' = IF documents' = <<>> THEN "retry" ELSE "stored"
     \/ fetching' \in {"retry", "permanent"} /\ UNCHANGED documents
  /\ UNCHANGED <<settings, reported, pages, replyVars>>

-----------------------------------------------------------------------------
\* A reply is named by its number in the topic; its floor is 0 where the page
\* does not show it. While the topic is fetched it may grow or shrink, so that
\* a page repeats the last reply of the page before.
Shapes == {"empty", "plain", "shifted", "unnumbered"}

Replies(p, shape) ==
  LET reply(n, shown) == [id |-> n, floor |-> IF shown THEN n ELSE 0]
  IN  CASE shape = "empty" -> <<>>
        [] shape = "plain" -> <<reply(2 * p, TRUE), reply(2 * p + 1, TRUE)>>
        [] shape = "shifted" -> <<reply(2 * p - 1, TRUE), reply(2 * p, TRUE)>>
        [] shape = "unnumbered" -> <<reply(2 * p, FALSE), reply(2 * p + 1, TRUE)>>

\* fetchV2EXTopic: the first page tells how many there are (parseV2EXPage).
FetchFirstPage(count, shape) ==
  /\ fetching = "topic"
  /\ IF count > PageLimit
     THEN fetching' = "permanent" /\ UNCHANGED <<reported, pages>>
     ELSE /\ reported' = count /\ pages' = <<[number |-> 1, replies |-> Replies(1, shape)]>>
          /\ fetching' = "batches"
  /\ UNCHANGED <<settings, replyVars, documents>>

\* Mutant: the first page is counted among those left.
BatchEndCounted(start) == IF start + BatchSize < reported THEN start + BatchSize ELSE reported

\* The pages of the next batch, whose first is the start-th after page 1.
BatchEnd(start) == IF start + BatchSize < reported - 1 THEN start + BatchSize ELSE reported - 1
BatchPages(start) == [n \in 1..(BatchEnd(start) - start) |-> start + n + 1]

\* fetchCrawl4AIResults: as many results as addresses, all successful, or the
\* whole topic is fetched again later; results are in the order of addresses.
FetchBatch(shapes) ==
  LET batch == BatchPages(Len(pages) - 1)
  IN  /\ fetching = "batches" /\ batch # <<>>
      /\ pages' = pages \o [n \in DOMAIN batch |-> 
                             [number |-> batch[n], replies |-> Replies(batch[n], shapes[n])]]
      /\ UNCHANGED <<settings, fetching, reported, replyVars, documents>>

\* The service fails, answers too few results or an unsuccessful one, or a
\* page has no title.
TopicFails ==
  /\ fetching \in {"topic", "batches"}
  /\ \E outcome \in {"retry", "permanent"} : Ends(outcome)

\* All pages are there: collectV2EXReplies goes through them.
EndTopic ==
  /\ fetching = "batches" /\ BatchPages(Len(pages) - 1) = <<>>
  /\ Ends("collect")

\* One reply more of the page, unless it was seen before.
CollectReply ==
  /\ fetching = "collect" /\ turned < Len(pages)
  /\ LET page == pages[turned + 1].replies
         reply == page[taken + 1]
     IN  /\ taken < Len(page) /\ taken' = taken + 1
         /\ replies' = IF \E n \in DOMAIN replies : replies[n].id = reply.id THEN replies
                       ELSE Append(replies, [id |-> reply.id, floor |-> reply.floor,
                                             order |-> Len(replies) + 1])
  /\ UNCHANGED <<settings, fetching, reported, pages, turned, arranged, documents>>

TurnPage ==
  /\ fetching = "collect"
  /\ IF turned = Len(pages) THEN fetching' = "sort" /\ UNCHANGED <<turned, taken>>
     ELSE /\ taken = Len(pages[turned + 1].replies)
          /\ turned' = turned + 1 /\ taken' = 0 /\ UNCHANGED fetching
  /\ UNCHANGED <<settings, reported, pages, replies, arranged, documents>>

\* By floor, by the place among the pages where one is unknown.
Less(r, s) == IF r.floor = 0 \/ s.floor = 0 THEN r.order < s.order ELSE r.floor < s.floor

\* The next reply moves ahead of those it is less than, as far as the first
\* that it is not. (sort.SliceStable sorts fewer than 20 by insertion.)
PlaceReply(place) ==
  /\ fetching = "sort" /\ Len(arranged) < Len(replies)
  /\ LET reply == replies[Len(arranged) + 1]
     IN  /\ \A n \in place..Len(arranged) : Less(reply, arranged[n])
         /\ place > 1 => ~Less(reply, arranged[place - 1])
         /\ arranged' = InsertAt(arranged, place, reply)
  /\ UNCHANGED <<settings, fetching, reported, pages, turned, taken, replies, documents>>

StoreTopic ==
  /\ fetching = "sort" /\ Len(arranged) = Len(replies)
  /\ Ends("stored")

ContentNext ==
  \/ \E c \in SettingSet : Accept(c)
  \/ Begin \/ FetchText \/ FetchDerived \/ TopicFails \/ EndTopic
  \/ CollectReply \/ TurnPage \/ StoreTopic
  \/ \E count \in 1..TopicPages, shape \in Shapes : FetchFirstPage(count, shape)
  \/ \E shapes \in [1..Len(BatchPages(Len(pages) - 1)) -> Shapes] : FetchBatch(shapes)
  \/ \E place \in 1..(Len(arranged) + 1) : PlaceReply(place)

-----------------------------------------------------------------------------
\* A topic that is stored has every page once and in order, whatever its
\* batches, and every reply of them once, by floor where all floors are known
\* (fetchV2EXTopic, collectV2EXReplies).
TopicIsWhole ==
  fetching = "stored" /\ pages # <<>> =>
    /\ [n \in DOMAIN pages |-> pages[n].number] = [n \in 1..reported |-> n]
    /\ \A m, n \in DOMAIN arranged : m # n => arranged[m].id # arranged[n].id
    /\ \A p \in DOMAIN pages : \A n \in DOMAIN pages[p].replies :
         \E m \in DOMAIN arranged : arranged[m].id = pages[p].replies[n].id
    /\ (\A n \in DOMAIN arranged : arranged[n].floor # 0)
         => \A m, n \in DOMAIN arranged : m < n => arranged[m].floor < arranged[n].floor

\* Settings that the configuration accepts are never what makes the stage give
\* up for good, except for a derived feed whose address does not come from
\* the item's link: that is accepted and then refused for every episode
\* (validateContent against resolve and its fetchers).
ValidatedIsFetched ==
  fetching = "refused" => settings.type = "derived-rss" /\ settings.from # "item.link"

ContentIsWhole == TopicIsWhole /\ ValidatedIsFetched

ContentSpec == ContentInit /\ [][ContentNext]_contentVars
=============================================================================
