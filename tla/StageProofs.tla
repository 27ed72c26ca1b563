----------------------------- MODULE StageProofs -----------------------------
(***************************************************************************)
(* The theorems about what happens within the stages of the pipeline, from *)
(* the text of an episode to its audio, for any sizes and bounds: the      *)
(* content (Content), the prompt of the script (ScriptGeneration), the     *)
(* voices and the synthesis (Speech), and the length of the audio          *)
(* (Mp3Frames).                                                            *)
(***************************************************************************)
EXTENDS Content, ScriptGeneration, Speech, Mp3Frames, TLAPS

-----------------------------------------------------------------------------
(***************************************************************************)
(* Content: a stored topic is whole, and accepted settings are fetched.    *)
(***************************************************************************)
\* A reply as a page has it, a page, and a reply as it is collected.
PageReply == [id : Nat, floor : Nat]
Page == [number : Nat, replies : Seq(PageReply)]
Collected == [id : Nat, floor : Nat, order : Nat]

\* The floor of a reply is its own or unknown.
OwnFloor(r) == r.floor = 0 \/ r.floor = r.id

\* Settings are validated before anything is fetched.
SettingsInv ==
  /\ fetching = "begin" => settings \in SettingSet /\ ValidContent(settings)
  /\ ValidatedIsFetched

\* The pages so far are the first ones; how many there are goes with the step.
PagesInv ==
  /\ reported \in Nat
  /\ pages \in Seq(Page)
  /\ \A p \in DOMAIN pages : /\ pages[p].number = p
                             /\ \A n \in DOMAIN pages[p].replies : OwnFloor(pages[p].replies[n])
  /\ fetching \in {"none", "begin", "item", "text", "derived", "topic"} => pages = <<>>
  /\ fetching = "batches" => Len(pages) \in 1..reported
  /\ fetching \in {"collect", "sort", "stored"} /\ pages # <<>> => Len(pages) = reported

Held(id) == \E m \in DOMAIN replies : replies[m].id = id

\* Every reply of the pages gone through is held, and each is held once.
CollectInv ==
  /\ turned \in Nat /\ taken \in Nat
  /\ replies \in Seq(Collected) /\ \A n \in DOMAIN replies : OwnFloor(replies[n])
  /\ \A m, n \in DOMAIN replies : m # n => replies[m].id # replies[n].id
  /\ \A p \in DOMAIN pages : \A n \in DOMAIN pages[p].replies :
       (p <= turned \/ (p = turned + 1 /\ n <= taken)) => Held(pages[p].replies[n].id)
  /\ fetching \notin {"collect", "sort", "stored"} => turned = 0 /\ taken = 0
  /\ fetching \in {"sort", "stored"} /\ pages # <<>> => turned = Len(pages)

InOrder(s) ==
  (\A n \in DOMAIN s : s[n].floor # 0) => \A m, n \in DOMAIN s : m < n => s[m].floor < s[n].floor

\* The replies in their places are the first ones held.
ArrangeInv ==
  /\ arranged \in Seq(Collected) /\ Len(arranged) <= Len(replies)
  /\ \A n \in DOMAIN arranged : \E m \in 1..Len(arranged) : arranged[n] = replies[m]
  /\ \A m \in 1..Len(arranged) : \E n \in DOMAIN arranged : arranged[n] = replies[m]
  /\ \A m, n \in DOMAIN arranged : m # n => arranged[m].id # arranged[n].id
  /\ InOrder(arranged)
  /\ fetching \notin {"sort", "stored"} => arranged = <<>>
  /\ fetching = "stored" /\ pages # <<>> => Len(arranged) = Len(replies)

ContentInv == SettingsInv /\ PagesInv /\ CollectInv /\ ArrangeInv

-----------------------------------------------------------------------------
\* The steps that only decide how the stage goes on.
Decides ==
  \/ fetching = "begin" /\ fetching' = FirstFetch(settings)
  \/ fetching \in {"item", "text", "derived"} /\ fetching' \in {"stored", "retry", "permanent"}
  \/ fetching \in {"topic", "batches"} /\ fetching' \in {"retry", "permanent"}
  \/ fetching = "batches" /\ fetching' = "collect" /\ Len(pages) = reported
  \/ fetching = "sort" /\ fetching' = "stored" /\ Len(arranged) = Len(replies)

\* Of the settings that are accepted only a derived feed can be refused.
LEMMA AcceptedIsFetched ==
  ASSUME NEW c \in SettingSet, ValidContent(c)
  PROVE  /\ FirstFetch(c) \in {"item", "text", "topic", "derived", "refused"}
         /\ FirstFetch(c) = "refused" => c.type = "derived-rss" /\ c.from # "item.link"
<1>1. c.type \in {"rss-item", "jina", "crawl4ai", "derived-rss", "other"}
  BY DEF SettingSet
<1>2. CASE c.type = "rss-item"
  BY <1>2 DEF FirstFetch
<1>3. CASE c.type = "jina"
  <2>1. BaseURL(c) # ""
    BY <1>3 DEF ValidContent
  <2> QED
    BY <1>3, <2>1 DEF FirstFetch
<1>4. CASE c.type = "crawl4ai"
  <2>1. /\ BaseURL(c) # "" /\ Mode(c) \in {"md", "crawl"}
        /\ Mode(c) = "crawl" <=> c.transform = "v2ex-topic"
    BY <1>4 DEF ValidContent
  <2> QED
    BY <1>4, <2>1 DEF FirstFetch
<1>5. CASE c.type = "derived-rss"
  BY <1>5 DEF FirstFetch
<1>6. CASE c.type = "other"
  BY <1>6 DEF ValidContent
<1> QED
  BY <1>1, <1>2, <1>3, <1>4, <1>5, <1>6

LEMMA DecidingKeeps ==
  ASSUME ContentInv, Decides, UNCHANGED <<settings, reported, pages, replyVars>>
  PROVE  ContentInv'
<1>1. UNCHANGED <<turned, taken, replies, arranged>>
  BY DEF replyVars
<1>2. fetching = "begin" /\ fetching' = FirstFetch(settings) =>
        /\ fetching' \in {"item", "text", "topic", "derived", "refused"}
        /\ fetching' = "refused" => settings.type = "derived-rss" /\ settings.from # "item.link"
  BY AcceptedIsFetched DEF ContentInv, SettingsInv
<1>3. SettingsInv'
  BY <1>2 DEF Decides, SettingsInv, ValidatedIsFetched
<1>4. PagesInv'
  BY <1>1, <1>2 DEF ContentInv, PagesInv, Decides
<1>5. CollectInv'
  <2>1. /\ fetching' \notin {"collect", "sort", "stored"} => turned' = 0 /\ taken' = 0
        /\ fetching' \in {"sort", "stored"} /\ pages' # <<>> => turned' = Len(pages')
    BY <1>1, <1>2 DEF ContentInv, PagesInv, CollectInv, Decides
  <2> QED
    BY <1>1, <2>1 DEF ContentInv, CollectInv, Held
<1>6. ArrangeInv'
  <2>1. /\ fetching' \notin {"sort", "stored"} => arranged' = <<>>
        /\ fetching' = "stored" /\ pages' # <<>> => Len(arranged') = Len(replies')
    BY <1>1, <1>2 DEF ContentInv, PagesInv, ArrangeInv, Decides
  <2> QED
    BY <1>1, <2>1 DEF ContentInv, ArrangeInv, InOrder
<1> QED
  BY <1>3, <1>4, <1>5, <1>6 DEF ContentInv

-----------------------------------------------------------------------------
LEMMA RepliesOfAPage ==
  ASSUME NEW p \in Nat, p > 0, NEW shape \in Shapes
  PROVE  /\ Replies(p, shape) \in Seq(PageReply)
         /\ \A n \in DOMAIN Replies(p, shape) : OwnFloor(Replies(p, shape)[n])
<1> DEFINE reply(n, shown) == [id |-> n, floor |-> IF shown THEN n ELSE 0]
<1>1. ASSUME NEW n \in Nat, NEW shown \in BOOLEAN
      PROVE  reply(n, shown) \in PageReply /\ OwnFloor(reply(n, shown))
  BY DEF PageReply, OwnFloor
<1>2. 2 * p \in Nat /\ 2 * p + 1 \in Nat /\ 2 * p - 1 \in Nat
  OBVIOUS
<1>3. ASSUME NEW a \in PageReply, NEW b \in PageReply, OwnFloor(a), OwnFloor(b)
      PROVE  /\ <<a, b>> \in Seq(PageReply)
             /\ \A n \in DOMAIN <<a, b>> : OwnFloor(<<a, b>>[n])
  BY <1>3 DEF OwnFloor
<1>4. CASE shape = "empty"
  BY <1>4 DEF Replies
<1>5. CASE shape = "plain"
  <2>1. Replies(p, shape) = <<reply(2 * p, TRUE), reply(2 * p + 1, TRUE)>>
    BY <1>5 DEF Replies
  <2> HIDE DEF reply
  <2> QED
    BY <1>1, <1>2, <1>3, <2>1
<1>6. CASE shape = "shifted"
  <2>1. Replies(p, shape) = <<reply(2 * p - 1, TRUE), reply(2 * p, TRUE)>>
    BY <1>6 DEF Replies
  <2> HIDE DEF reply
  <2> QED
    BY <1>1, <1>2, <1>3, <2>1
<1>7. CASE shape = "unnumbered"
  <2>1. Replies(p, shape) = <<reply(2 * p, FALSE), reply(2 * p + 1, TRUE)>>
    BY <1>7 DEF Replies
  <2> HIDE DEF reply
  <2> QED
    BY <1>1, <1>2, <1>3, <2>1
<1> QED
  BY <1>4, <1>5, <1>6, <1>7 DEF Shapes

\* A page by its number.
LEMMA PageOf ==
  ASSUME NEW p \in Nat, p > 0, NEW shape \in Shapes, NEW page,
         page = [number |-> p, replies |-> Replies(p, shape)]
  PROVE  /\ page \in Page /\ page.number = p
         /\ \A n \in DOMAIN page.replies : OwnFloor(page.replies[n])
<1>1. page \in Page /\ page.number = p /\ page.replies = Replies(p, shape)
  BY RepliesOfAPage DEF Page
<1> QED
  BY <1>1, RepliesOfAPage

\* The replies of a page.
LEMMA PageReplies ==
  ASSUME NEW p \in Page
  PROVE  p.replies \in Seq(PageReply)
BY DEF Page

\* Two sequences after one another.
After(c, a, b) ==
  /\ Len(c) = Len(a) + Len(b) /\ DOMAIN c = 1..(Len(a) + Len(b))
  /\ \A n \in 1..Len(a) : c[n] = a[n]
  /\ \A n \in (Len(a) + 1)..(Len(a) + Len(b)) : c[n] = b[n - Len(a)]

LEMMA Concatenated ==
  ASSUME NEW S, NEW a \in Seq(S), NEW b \in Seq(S), NEW c, c = a \o b
  PROVE  c \in Seq(S) /\ After(c, a, b)
BY DEF After

LEMMA FirstPageKeeps ==
  ASSUME ContentInv, NEW count \in 1..TopicPages, NEW shape \in Shapes, FetchFirstPage(count, shape)
  PROVE  ContentInv'
<1>1. fetching = "topic" /\ pages = <<>> /\ UNCHANGED <<settings, turned, taken, replies, arranged>>
  BY DEF FetchFirstPage, replyVars, ContentInv, PagesInv
<1>2. CASE count > PageLimit
  <2>1. Decides /\ UNCHANGED <<settings, reported, pages, replyVars>>
    BY <1>1, <1>2 DEF FetchFirstPage, Decides
  <2> QED
    BY <2>1, DecidingKeeps
<1>3. CASE ~(count > PageLimit)
  <2>1. PICK page : page = [number |-> 1, replies |-> Replies(1, shape)]
    OBVIOUS
  <2>2. reported' = count /\ pages' = <<page>> /\ fetching' = "batches"
    BY <1>3, <2>1 DEF FetchFirstPage
  <2>3. /\ page \in Page /\ page.number = 1
        /\ \A n \in DOMAIN page.replies : OwnFloor(page.replies[n])
    BY <2>1, PageOf
  <2>4. /\ pages' \in Seq(Page)
        /\ DOMAIN pages' = 1..1 /\ pages'[1] = page /\ Len(pages') = 1
    BY <2>2, <2>3
  <2>5. count \in Nat /\ 1 \in 1..count
    BY ContentAssumption
  <2>6. PagesInv'
    BY <2>2, <2>3, <2>4, <2>5 DEF PagesInv
  <2>7. SettingsInv'
    BY <1>1, <2>2 DEF ContentInv, SettingsInv, ValidatedIsFetched
  <2>8. CollectInv'
    <3>1. \A p \in DOMAIN pages' : ~(p <= 0)
      BY <2>4
    <3>2. turned = 0 /\ taken = 0
      BY <1>1 DEF ContentInv, CollectInv
    <3>3. \A n \in DOMAIN page.replies : ~(n <= 0)
      <4>1. page.replies \in Seq(PageReply)
        BY <2>3, PageReplies
      <4> QED
        BY <4>1
    <3>4. \A p \in DOMAIN pages' : \A n \in DOMAIN pages'[p].replies :
            ~(p <= turned' \/ (p = turned' + 1 /\ n <= taken'))
      BY <1>1, <2>4, <3>2, <3>3
    <3> QED
      BY <1>1, <2>2, <3>2, <3>4 DEF ContentInv, CollectInv, Held
  <2>9. ArrangeInv'
    BY <1>1, <2>2 DEF ContentInv, ArrangeInv, InOrder
  <2> QED
    BY <2>6, <2>7, <2>8, <2>9 DEF ContentInv
<1> QED
  BY <1>2, <1>3

\* What the next batch has: the pages that follow those that are there.
LEMMA NextBatch ==
  ASSUME NEW k \in 1..reported, reported \in Nat
  PROVE  \E size \in 0..(reported - k) :
           /\ BatchPages(k - 1) = [n \in 1..size |-> k + n]
           /\ size = 0 => k = reported
<1>1. BatchSize \in Nat /\ BatchSize > 0 /\ k \in Nat
  BY ContentAssumption
<1>2. BatchPages(k - 1) = [n \in 1..(BatchEnd(k - 1) - (k - 1)) |-> (k - 1) + n + 1]
  BY DEF BatchPages
<1>3. PICK size : size = BatchEnd(k - 1) - (k - 1)
  OBVIOUS
<1>4. size \in 0..(reported - k) /\ (size = 0 => k = reported)
  BY <1>1, <1>3 DEF BatchEnd
<1>5. [n \in 1..size |-> (k - 1) + n + 1] = [n \in 1..size |-> k + n]
  BY <1>1, <1>4
<1> QED
  BY <1>2, <1>3, <1>4, <1>5

LEMMA BatchKeeps ==
  ASSUME ContentInv,
         NEW shapes \in [1..Len(BatchPages(Len(pages) - 1)) -> Shapes], FetchBatch(shapes)
  PROVE  ContentInv'
<1>1. /\ fetching = "batches" /\ fetching' = "batches"
      /\ UNCHANGED <<settings, reported, turned, taken, replies, arranged>>
  BY DEF FetchBatch, replyVars
<1>2. PICK k \in 1..reported : k = Len(pages) /\ k \in Nat /\ reported \in Nat
  BY <1>1 DEF ContentInv, PagesInv
<1>3. PICK size \in 0..(reported - k) : BatchPages(k - 1) = [n \in 1..size |-> k + n]
  BY <1>2, NextBatch
<1>4. PICK batch : batch = [n \in 1..size |-> [number |-> k + n, replies |-> Replies(k + n, shapes[n])]]
  OBVIOUS
<1>5. pages' = pages \o batch
  <2>1. DOMAIN BatchPages(k - 1) = 1..size /\ \A n \in 1..size : BatchPages(k - 1)[n] = k + n
    BY <1>3
  <2> QED
    BY <1>2, <1>4, <2>1 DEF FetchBatch
<1>6. Len(BatchPages(k - 1)) = size /\ shapes \in [1..size -> Shapes] /\ size \in Nat
  <2>1. BatchPages(k - 1) \in Seq(Nat) /\ DOMAIN BatchPages(k - 1) = 1..size /\ size \in Nat
    BY <1>2, <1>3
  <2> QED
    BY <1>2, <2>1
<1>7. ASSUME NEW n \in 1..size
      PROVE  /\ batch[n] \in Page /\ batch[n].number = k + n
             /\ \A m \in DOMAIN batch[n].replies : OwnFloor(batch[n].replies[m])
  <2>1. k + n \in Nat /\ k + n > 0 /\ shapes[n] \in Shapes
    BY <1>2, <1>6
  <2>2. batch[n] = [number |-> k + n, replies |-> Replies(k + n, shapes[n])]
    BY <1>4
  <2> QED
    BY <2>1, <2>2, PageOf
<1>8. batch \in Seq(Page) /\ Len(batch) = size
  BY <1>4, <1>6, <1>7
<1>9. /\ pages' \in Seq(Page)
      /\ Len(pages') = k + size /\ DOMAIN pages' = 1..(k + size)
      /\ \A p \in 1..k : pages'[p] = pages[p]
      /\ \A p \in (k + 1)..(k + size) : pages'[p] = batch[p - k]
  <2>1. pages \in Seq(Page)
    BY DEF ContentInv, PagesInv
  <2>2. pages' \in Seq(Page) /\ After(pages', pages, batch)
    BY <1>5, <1>8, <2>1, Concatenated
  <2> QED
    BY <1>2, <1>8, <2>2 DEF After
<1>10. ASSUME NEW p \in DOMAIN pages'
       PROVE  /\ pages'[p].number = p
              /\ \A n \in DOMAIN pages'[p].replies : OwnFloor(pages'[p].replies[n])
  <2>1. CASE p \in 1..k
    BY <1>2, <1>9, <2>1 DEF ContentInv, PagesInv
  <2>2. CASE p \notin 1..k
    <3>1. p \in 1..(k + size)
      BY <1>9
    <3>2. p \in (k + 1)..(k + size) /\ p - k \in 1..size /\ k + (p - k) = p
      BY <1>2, <1>6, <2>2, <3>1
    <3> QED
      BY <1>7, <1>9, <3>2
  <2> QED
    BY <2>1, <2>2
<1>11. Len(pages') \in 1..reported
  BY <1>2, <1>3, <1>6, <1>9
<1>12. PagesInv'
  BY <1>1, <1>2, <1>9, <1>10, <1>11 DEF PagesInv
<1>13. SettingsInv'
  BY <1>1 DEF ContentInv, SettingsInv, ValidatedIsFetched
<1>14. CollectInv'
  <2>1. turned = 0 /\ taken = 0
    BY <1>1 DEF ContentInv, CollectInv
  <2>2. ASSUME NEW p \in DOMAIN pages'
        PROVE  ~(p <= 0) /\ pages'[p].replies \in Seq(PageReply)
    <3>1. pages'[p] \in Page /\ p \in Nat /\ p > 0
      BY <1>9
    <3> QED
      BY <3>1, PageReplies
  <2>3. ASSUME NEW p \in DOMAIN pages', NEW n \in DOMAIN pages'[p].replies
        PROVE  ~(n <= 0)
    <3>1. pages'[p].replies \in Seq(PageReply)
      BY <2>2
    <3> QED
      BY <3>1
  <2>4. \A p \in DOMAIN pages' : \A n \in DOMAIN pages'[p].replies :
          ~(p <= turned' \/ (p = turned' + 1 /\ n <= taken'))
    BY <1>1, <2>1, <2>2, <2>3
  <2> QED
    BY <1>1, <2>1, <2>4 DEF ContentInv, CollectInv, Held
<1>15. ArrangeInv'
  BY <1>1 DEF ContentInv, ArrangeInv, InOrder
<1> QED
  BY <1>12, <1>13, <1>14, <1>15 DEF ContentInv

-----------------------------------------------------------------------------
LEMMA CollectReplyKeeps ==
  ASSUME ContentInv, CollectReply
  PROVE  ContentInv'
<1>1. /\ fetching = "collect" /\ fetching' = "collect" /\ turned < Len(pages)
      /\ UNCHANGED <<settings, reported, pages, turned, arranged>>
  BY DEF CollectReply
<1>2. PICK page : page = pages[turned + 1].replies
  OBVIOUS
<1>3. PICK reply : reply = page[taken + 1]
  OBVIOUS
<1>4. /\ taken < Len(page) /\ taken' = taken + 1
      /\ replies' = IF Held(reply.id) THEN replies
                    ELSE Append(replies, [id |-> reply.id, floor |-> reply.floor, order |-> Len(replies) + 1])
  BY <1>2, <1>3 DEF CollectReply, Held
<1>5. /\ turned \in Nat /\ taken \in Nat /\ replies \in Seq(Collected) /\ arranged = <<>>
      /\ pages \in Seq(Page)
  BY <1>1 DEF ContentInv, CollectInv, PagesInv, ArrangeInv
<1>6. page \in Seq(PageReply) /\ turned + 1 \in DOMAIN pages
  <2>1. turned + 1 \in DOMAIN pages /\ pages[turned + 1] \in Page
    BY <1>1, <1>5
  <2> QED
    BY <1>2, <2>1, PageReplies
<1>7. reply \in PageReply /\ OwnFloor(reply) /\ taken + 1 \in DOMAIN page
  <2>1. taken + 1 \in DOMAIN page
    BY <1>4, <1>5, <1>6
  <2> QED
    BY <1>2, <1>3, <1>6, <2>1 DEF ContentInv, PagesInv
<1>8. /\ replies' \in Seq(Collected) /\ \A n \in DOMAIN replies' : OwnFloor(replies'[n])
      /\ \A m, n \in DOMAIN replies' : m # n => replies'[m].id # replies'[n].id
      /\ \A m \in DOMAIN replies : m \in DOMAIN replies' /\ replies'[m] = replies[m]
      /\ \E m \in DOMAIN replies' : replies'[m].id = reply.id
  <2>1. CASE Held(reply.id)
    BY <1>4, <1>5, <2>1 DEF ContentInv, CollectInv, Held
  <2>2. CASE ~Held(reply.id)
    <3>1. PICK e : e = [id |-> reply.id, floor |-> reply.floor, order |-> Len(replies) + 1]
      OBVIOUS
    <3>2. e \in Collected /\ OwnFloor(e) /\ e.id = reply.id
      BY <1>5, <1>7, <3>1 DEF Collected, PageReply, OwnFloor
    <3>3. PICK k \in Nat : k = Len(replies)
      BY <1>5
    <3>4. /\ replies' = Append(replies, e) /\ replies' \in Seq(Collected)
          /\ DOMAIN replies' = 1..(k + 1) /\ DOMAIN replies = 1..k
          /\ replies'[k + 1] = e /\ \A n \in 1..k : replies'[n] = replies[n]
      BY <1>4, <1>5, <2>2, <3>1, <3>2, <3>3
    <3>5. \A n \in 1..k : OwnFloor(replies[n]) /\ replies[n].id # e.id
      BY <2>2, <3>2, <3>4 DEF ContentInv, CollectInv, Held
    <3>6. \A n \in DOMAIN replies' : n = k + 1 \/ n \in 1..k
      BY <3>4
    <3>7. \A m, n \in 1..k : m # n => replies[m].id # replies[n].id
      BY <3>4 DEF ContentInv, CollectInv
    <3>8. ASSUME NEW m \in DOMAIN replies', NEW n \in DOMAIN replies', m # n
          PROVE  replies'[m].id # replies'[n].id
      <4>1. CASE m = k + 1
        <5>1. n \in 1..k
          BY <3>6, <3>8, <4>1
        <5> QED
          BY <3>4, <3>5, <4>1, <5>1
      <4>2. CASE n = k + 1
        <5>1. m \in 1..k
          BY <3>6, <3>8, <4>2
        <5> QED
          BY <3>4, <3>5, <4>2, <5>1
      <4>3. CASE m \in 1..k /\ n \in 1..k
        BY <3>4, <3>7, <3>8, <4>3
      <4> QED
        BY <3>6, <4>1, <4>2, <4>3
    <3>9. \A n \in DOMAIN replies' : OwnFloor(replies'[n])
      BY <3>2, <3>4, <3>5, <3>6, Zenon
    <3>10. \A m \in DOMAIN replies : m \in DOMAIN replies'
      BY <3>4
    <3>11. k + 1 \in DOMAIN replies'
      BY <3>4
    <3> QED
      BY <3>2, <3>4, <3>8, <3>9, <3>10, <3>11, Zenon
  <2> QED
    BY <2>1, <2>2
<1>9. ASSUME NEW id, Held(id)
      PROVE  Held(id)'
  BY <1>8, <1>9, Zenon DEF Held
<1>10. ASSUME NEW p \in DOMAIN pages, NEW n \in DOMAIN pages[p].replies,
              p <= turned \/ (p = turned + 1 /\ n <= taken + 1)
       PROVE  \E m \in DOMAIN replies' : replies'[m].id = pages[p].replies[n].id
  <2>1. CASE p = turned + 1 /\ n = taken + 1
    <3>1. pages[p].replies[n] = reply
      BY <1>2, <1>3, <2>1
    <3> QED
      BY <1>8, <3>1
  <2>2. CASE p <= turned \/ (p = turned + 1 /\ n <= taken)
    <3>1. Held(pages[p].replies[n].id)
      BY <2>2 DEF ContentInv, CollectInv
    <3>2. PICK m \in DOMAIN replies : replies[m].id = pages[p].replies[n].id
      BY <3>1 DEF Held
    <3> QED
      BY <1>8, <3>2
  <2>3. n \in Nat /\ p \in Nat
    <3>1. p \in Nat /\ pages[p] \in Page
      BY <1>5
    <3>2. pages[p].replies \in Seq(PageReply)
      BY <3>1, PageReplies
    <3> QED
      BY <3>1, <3>2
  <2> QED
    BY <1>5, <1>10, <2>1, <2>2, <2>3
<1>11. CollectInv'
  <2>1. turned' = turned /\ taken' = taken + 1 /\ taken + 1 \in Nat /\ pages' = pages
    BY <1>1, <1>4, <1>5
  <2> QED
    BY <1>1, <1>5, <1>8, <1>10, <2>1 DEF CollectInv, Held
<1>12. ArrangeInv'
  <2>1. arranged' = <<>> /\ Len(arranged') = 0 /\ DOMAIN arranged' = {} /\ 1..0 = {}
    BY <1>1, <1>5
  <2>2. Len(replies') \in Nat
    BY <1>8
  <2> QED
    BY <1>1, <2>1, <2>2 DEF ArrangeInv, InOrder
<1>13. PagesInv' /\ SettingsInv'
  BY <1>1 DEF ContentInv, PagesInv, SettingsInv, ValidatedIsFetched
<1> QED
  BY <1>11, <1>12, <1>13 DEF ContentInv

LEMMA TurnPageKeeps ==
  ASSUME ContentInv, TurnPage
  PROVE  ContentInv'
<1>1. fetching = "collect" /\ UNCHANGED <<settings, reported, pages, replies, arranged>>
  BY DEF TurnPage
<1>2. /\ turned \in Nat /\ taken \in Nat /\ arranged = <<>>
      /\ pages \in Seq(Page)
  BY <1>1 DEF ContentInv, CollectInv, PagesInv, ArrangeInv
<1>3. fetching' \in {"collect", "sort"}
  BY <1>1 DEF TurnPage
<1>4. SettingsInv' /\ PagesInv'
  BY <1>1, <1>3 DEF ContentInv, SettingsInv, ValidatedIsFetched, PagesInv
<1>5. ArrangeInv'
  BY <1>1, <1>2, <1>3 DEF ContentInv, ArrangeInv, InOrder
<1>6. CollectInv'
  <2>1. CASE turned = Len(pages)
    <3>1. fetching' = "sort" /\ UNCHANGED <<turned, taken>>
      BY <2>1 DEF TurnPage
    <3> QED
      BY <1>1, <2>1, <3>1 DEF ContentInv, CollectInv, Held
  <2>2. CASE turned # Len(pages)
    <3>1. /\ taken = Len(pages[turned + 1].replies) /\ turned' = turned + 1 /\ taken' = 0
          /\ fetching' = "collect"
      BY <1>1, <2>2 DEF TurnPage
    <3>2. ASSUME NEW p \in DOMAIN pages, NEW n \in DOMAIN pages[p].replies,
                 p <= turned + 1 \/ (p = turned + 1 + 1 /\ n <= 0)
          PROVE  Held(pages[p].replies[n].id)
      <4>0. p \in Nat /\ pages[p] \in Page
        BY <1>2
      <4>1. n \in Nat /\ n > 0 /\ n <= Len(pages[p].replies) /\ p \in Nat
        <5>1. pages[p].replies \in Seq(PageReply)
          BY <4>0, PageReplies
        <5> QED
          BY <4>0, <5>1
      <4>2. p <= turned \/ p = turned + 1
        BY <1>2, <3>2, <4>1
      <4>3. p = turned + 1 => n <= taken
        BY <3>1, <4>1
      <4> QED
        BY <4>2, <4>3 DEF ContentInv, CollectInv
    <3>3. turned + 1 \in Nat /\ 0 \in Nat
      BY <1>2
    <3> QED
      BY <1>1, <3>1, <3>2, <3>3 DEF ContentInv, CollectInv, Held
  <2> QED
    BY <2>1, <2>2
<1> QED
  BY <1>4, <1>5, <1>6 DEF ContentInv

-----------------------------------------------------------------------------
\* A sequence with an element more.
OneMoreAt(t, s, at, e) ==
  /\ Len(t) = Len(s) + 1 /\ DOMAIN t = 1..(Len(s) + 1)
  /\ \A n \in 1..(at - 1) : t[n] = s[n]
  /\ t[at] = e
  /\ \A n \in (at + 1)..(Len(s) + 1) : t[n] = s[n - 1]

LEMMA Glued ==
  ASSUME NEW S, NEW s \in Seq(S), NEW t \in Seq(S)
  PROVE  /\ s \o t \in Seq(S) /\ Len(s \o t) = Len(s) + Len(t)
         /\ \A n \in 1..Len(s) : (s \o t)[n] = s[n]
         /\ \A n \in 1..Len(t) : (s \o t)[Len(s) + n] = t[n]
OBVIOUS

LEMMA Insertion ==
  ASSUME NEW S, NEW s \in Seq(S), NEW e \in S, NEW at \in 1..(Len(s) + 1),
         NEW t, t = InsertAt(s, at, e)
  PROVE  t \in Seq(S) /\ OneMoreAt(t, s, at, e)
<1> DEFINE k == Len(s)
<1>1. t = SubSeq(s, 1, at - 1) \o <<e>> \o SubSeq(s, at, k)
  BY DEF InsertAt
<1>2. /\ SubSeq(s, 1, at - 1) \in Seq(S) /\ Len(SubSeq(s, 1, at - 1)) = at - 1
      /\ \A n \in 1..(at - 1) : SubSeq(s, 1, at - 1)[n] = s[n]
  OBVIOUS
<1>3. /\ SubSeq(s, at, k) \in Seq(S) /\ Len(SubSeq(s, at, k)) = k - at + 1
      /\ \A n \in 1..(k - at + 1) : SubSeq(s, at, k)[n] = s[at + n - 1]
  OBVIOUS
<1>4. PICK a \in Seq(S) : a = SubSeq(s, 1, at - 1)
  BY <1>2
<1>5. PICK b \in Seq(S) : b = SubSeq(s, at, k)
  BY <1>3
<1>6. t = a \o <<e>> \o b /\ Len(a) = at - 1 /\ Len(b) = k - at + 1
  BY <1>1, <1>2, <1>3, <1>4, <1>5
<1>7. /\ t \in Seq(S) /\ Len(t) = k + 1
      /\ \A n \in 1..(at - 1) : t[n] = a[n]
      /\ t[at] = e
      /\ \A n \in (at + 1)..(k + 1) : t[n] = b[n - at]
  <2>1. Append(a, e) \in Seq(S) /\ Len(Append(a, e)) = Len(a) + 1 /\ a \o <<e>> = Append(a, e)
    OBVIOUS
  <2>2. PICK h \in Seq(S) : h = Append(a, e)
    BY <2>1, Zenon
  <2>3. Len(a) \in Nat /\ Len(a) + 1 = at
    BY <1>6
  <2>4. Len(h) = at /\ h[at] = e /\ \A n \in 1..(at - 1) : h[n] = a[n]
    BY <2>1, <2>2, <2>3
  <2>5. t = h \o b
    BY <1>6, <2>1, <2>2, Zenon
  <2>6. /\ t \in Seq(S) /\ Len(t) = Len(h) + Len(b) /\ \A n \in 1..Len(h) : t[n] = h[n]
        /\ \A n \in 1..Len(b) : t[Len(h) + n] = b[n]
    BY <2>5, Glued
  <2>7. at + Len(b) = k + 1 /\ at \in Nat /\ k \in Nat
    BY <1>6
  <2>8. ASSUME NEW n \in (at + 1)..(k + 1)
        PROVE  t[n] = b[n - at]
    <3>1. n - at \in 1..Len(b) /\ at + (n - at) = n
      BY <1>6, <2>7
    <3>2. t[at + (n - at)] = b[n - at]
      BY <2>4, <2>6, <3>1, Zenon
    <3> QED
      BY <3>1, <3>2, Zenon
  <2>9. \A n \in 1..(at - 1) : n \in 1..at
    BY <2>7
  <2>10. at \in 1..at
    BY <2>3
  <2> QED
    BY <2>4, <2>6, <2>7, <2>8, <2>9, <2>10, Zenon
<1>8. ASSUME NEW n \in (at + 1)..(k + 1)
      PROVE  t[n] = s[n - 1]
  <2>1. n - at \in 1..(k - at + 1) /\ at + (n - at) - 1 = n - 1
    OBVIOUS
  <2> QED
    BY <1>3, <1>5, <1>7, <2>1
<1> QED
  BY <1>2, <1>4, <1>7, <1>8 DEF OneMoreAt

\* A reply that goes behind the last one that it is not less than keeps the
\* order, where the floors are known and differ.
LEMMA InsertionKeepsOrder ==
  ASSUME NEW s \in Seq(Collected), NEW e \in Collected, NEW at \in 1..(Len(s) + 1), InOrder(s),
         \A n \in DOMAIN s : OwnFloor(s[n]) /\ s[n].id # e.id, OwnFloor(e),
         \A n \in at..Len(s) : Less(e, s[n]), at > 1 => ~Less(e, s[at - 1])
  PROVE  InOrder(InsertAt(s, at, e))
<1>a. PICK k \in Nat : k = Len(s)
  OBVIOUS
<1>b. PICK t \in Seq(Collected) : t = InsertAt(s, at, e)
  BY Insertion
<1>c. at \in 1..(k + 1) /\ \A n \in at..k : Less(e, s[n])
  BY <1>a
<1> SUFFICES InOrder(t)
  BY <1>b
<1>1. /\ DOMAIN t = 1..(k + 1) /\ DOMAIN s = 1..k
      /\ \A n \in 1..(at - 1) : t[n] = s[n]
      /\ t[at] = e
      /\ \A n \in (at + 1)..(k + 1) : t[n] = s[n - 1]
  <2>1. DOMAIN s = 1..k
    BY <1>a
  <2>2. OneMoreAt(t, s, at, e)
    BY <1>b, Insertion
  <2> QED
    BY <1>a, <2>1, <2>2 DEF OneMoreAt
<1> SUFFICES ASSUME \A n \in DOMAIN t : t[n].floor # 0,
                    NEW m \in DOMAIN t, NEW n \in DOMAIN t, m < n
             PROVE  t[m].floor < t[n].floor
  BY DEF InOrder
<1>2. e.floor # 0 /\ \A i \in 1..k : s[i].floor # 0
  <2>1. ASSUME NEW i \in 1..k
        PROVE  s[i].floor # 0
    <3>1. CASE i < at
      BY <1>c, <1>1, <3>1
    <3>2. CASE ~(i < at)
      <4>1. i + 1 \in (at + 1)..(k + 1) /\ (i + 1) - 1 = i /\ i + 1 \in DOMAIN t
        BY <1>c, <1>1, <3>2
      <4>2. t[i + 1] = s[i]
        BY <1>1, <4>1
      <4> QED
        BY <4>1, <4>2
    <3> QED
      BY <3>1, <3>2
  <2>2. at \in DOMAIN t
    BY <1>c, <1>1
  <2> QED
    BY <1>1, <2>1, <2>2
<1>3. \A i, j \in 1..k : i < j => s[i].floor < s[j].floor
  BY <1>1, <1>2 DEF InOrder
<1>4. \A i \in 1..k : s[i].floor \in Nat /\ e.floor \in Nat /\ s[i].floor # e.floor
  <2> SUFFICES ASSUME NEW i \in 1..k
               PROVE  s[i].floor \in Nat /\ e.floor \in Nat /\ s[i].floor # e.floor
    OBVIOUS
  <2>1. s[i] \in Collected /\ OwnFloor(s[i]) /\ s[i].id # e.id
    <3>1. i \in DOMAIN s
      BY <1>1
    <3>2. s[i] \in Collected
      BY <3>1
    <3> QED
      BY <3>1, <3>2, Zenon
  <2>2. s[i].floor = s[i].id /\ e.floor = e.id
    BY <1>2, <2>1 DEF OwnFloor
  <2>3. s[i].floor \in Nat /\ e.floor \in Nat
    BY <2>1 DEF Collected
  <2> QED
    BY <2>1, <2>2, <2>3
<1>5. \A i \in at..k : e.floor < s[i].floor
  <2> SUFFICES ASSUME NEW i \in at..k PROVE e.floor < s[i].floor
    OBVIOUS
  <2>1. Less(e, s[i]) /\ i \in 1..k
    BY <1>c
  <2> QED
    BY <1>2, <2>1 DEF Less
<1>6. \A i \in 1..(at - 1) : s[i].floor < e.floor
  <2> SUFFICES ASSUME NEW i \in 1..(at - 1) PROVE s[i].floor < e.floor
    OBVIOUS
  <2>1. at - 1 \in 1..k /\ i \in 1..k /\ at > 1
    BY <1>c
  <2>2. ~(e.floor < s[at - 1].floor)
    BY <1>2, <2>1 DEF Less
  <2>3. s[at - 1].floor < e.floor
    BY <1>4, <2>1, <2>2
  <2>4. i = at - 1 \/ s[i].floor < s[at - 1].floor
    BY <1>3, <2>1
  <2>5. CASE i = at - 1
    BY <2>3, <2>5
  <2>6. CASE s[i].floor < s[at - 1].floor
    <3>1. PICK x \in Nat, y \in Nat, z \in Nat : x = s[i].floor /\ y = s[at - 1].floor /\ z = e.floor
      BY <1>4, <2>1
    <3>2. x < y /\ y < z
      BY <2>3, <2>6, <3>1, Zenon
    <3>3. x < z
      BY <3>2
    <3> QED
      BY <3>1, <3>3, Zenon
  <2> QED
    BY <2>4, <2>5, <2>6
<1>7. CASE n < at
  <2>1. m \in 1..(at - 1) /\ n \in 1..(at - 1) /\ m \in 1..k /\ n \in 1..k
    BY <1>1, <1>7
  <2> QED
    BY <1>1, <1>3, <2>1
<1>8. CASE n = at
  <2>1. m \in 1..(at - 1)
    BY <1>1, <1>8
  <2> QED
    BY <1>1, <1>6, <1>8, <2>1
<1>9. CASE n > at /\ m = at
  <2>1. n \in (at + 1)..(k + 1) /\ n - 1 \in at..k
    BY <1>1, <1>9
  <2> QED
    BY <1>1, <1>5, <1>9, <2>1
<1>10. CASE n > at /\ m > at
  <2>1. /\ n \in (at + 1)..(k + 1) /\ m \in (at + 1)..(k + 1)
        /\ n - 1 \in 1..k /\ m - 1 \in 1..k /\ m - 1 < n - 1
    BY <1>1, <1>10
  <2> QED
    BY <1>1, <1>3, <2>1
<1>11. CASE n > at /\ m < at
  <2>1. n \in (at + 1)..(k + 1) /\ m \in 1..(at - 1) /\ n - 1 \in 1..k /\ m \in 1..k /\ m < n - 1
    BY <1>1, <1>11
  <2> QED
    BY <1>1, <1>3, <2>1
<1> QED
  BY <1>1, <1>7, <1>8, <1>9, <1>10, <1>11

LEMMA PlaceReplyKeeps ==
  ASSUME ContentInv, NEW place \in 1..(Len(arranged) + 1), PlaceReply(place)
  PROVE  ContentInv'
<1>1. /\ fetching = "sort" /\ fetching' = "sort"
      /\ UNCHANGED <<settings, reported, pages, turned, taken, replies>>
  BY DEF PlaceReply
<1>2. /\ arranged \in Seq(Collected) /\ replies \in Seq(Collected)
      /\ \A n \in DOMAIN replies : OwnFloor(replies[n])
      /\ \A m, n \in DOMAIN replies : m # n => replies[m].id # replies[n].id
      /\ \A n \in DOMAIN arranged : \E m \in 1..Len(arranged) : arranged[n] = replies[m]
      /\ \A m \in 1..Len(arranged) : \E n \in DOMAIN arranged : arranged[n] = replies[m]
      /\ \A m, n \in DOMAIN arranged : m # n => arranged[m].id # arranged[n].id
      /\ InOrder(arranged)
  BY DEF ContentInv, ArrangeInv, CollectInv
<1>3. PICK k \in Nat : k = Len(arranged) /\ k < Len(replies)
  BY <1>2 DEF PlaceReply
<1>4. PICK reply : reply = replies[k + 1]
  OBVIOUS
<1>5. /\ \A n \in place..k : Less(reply, arranged[n])
      /\ place > 1 => ~Less(reply, arranged[place - 1])
      /\ arranged' = InsertAt(arranged, place, reply)
  BY <1>3, <1>4 DEF PlaceReply
<1>6. /\ reply \in Collected /\ OwnFloor(reply) /\ k + 1 \in DOMAIN replies
      /\ DOMAIN arranged = 1..k /\ Len(replies) \in Nat /\ place \in 1..(k + 1)
  BY <1>2, <1>3, <1>4
<1>7. \A n \in 1..k : OwnFloor(arranged[n]) /\ arranged[n].id # reply.id
  <2> SUFFICES ASSUME NEW n \in 1..k PROVE OwnFloor(arranged[n]) /\ arranged[n].id # reply.id
    OBVIOUS
  <2>0. n \in DOMAIN arranged
    BY <1>6
  <2>1. PICK m \in 1..Len(arranged) : arranged[n] = replies[m]
    BY <1>2, <2>0, Zenon
  <2>2. m \in DOMAIN replies /\ m # k + 1
    BY <1>3, <1>6
  <2>3. OwnFloor(replies[m]) /\ replies[m].id # replies[k + 1].id
    BY <1>2, <1>6, <2>2, Zenon
  <2> QED
    BY <1>4, <2>1, <2>3, Zenon
<1>8. /\ arranged' \in Seq(Collected) /\ Len(arranged') = k + 1 /\ DOMAIN arranged' = 1..(k + 1)
      /\ \A n \in 1..(place - 1) : arranged'[n] = arranged[n]
      /\ arranged'[place] = reply
      /\ \A n \in (place + 1)..(k + 1) : arranged'[n] = arranged[n - 1]
  <2>1. arranged' \in Seq(Collected) /\ OneMoreAt(arranged', arranged, place, reply)
    BY <1>2, <1>5, <1>6, Insertion
  <2> QED
    BY <1>3, <2>1 DEF OneMoreAt
<1>9. InOrder(arranged')
  <2>1. \A n \in DOMAIN arranged : OwnFloor(arranged[n]) /\ arranged[n].id # reply.id
    BY <1>6, <1>7
  <2>2. /\ reply \in Collected /\ OwnFloor(reply) /\ place \in 1..(k + 1)
        /\ k \in Nat /\ k = Len(arranged)
    BY <1>3, <1>6
  <2> QED
    BY <1>2, <1>5, <2>1, <2>2, InsertionKeepsOrder
<1> DEFINE from(n) == IF n < place THEN n ELSE n - 1
<1>10. k \in Nat /\ place \in Nat /\ place >= 1 /\ place <= k + 1
  BY <1>6
<1>11. \A n \in 1..(k + 1) : \/ n = place /\ arranged'[n] = reply
                             \/ n # place /\ from(n) \in 1..k /\ arranged'[n] = arranged[from(n)]
  <2> SUFFICES ASSUME NEW n \in 1..(k + 1), n # place
               PROVE  from(n) \in 1..k /\ arranged'[n] = arranged[from(n)]
    BY <1>8
  <2>1. CASE n < place
    <3>1. n \in 1..(place - 1) /\ n \in 1..k
      BY <1>10, <2>1
    <3> QED
      BY <1>8, <2>1, <3>1
  <2>2. CASE ~(n < place)
    <3>1. n \in (place + 1)..(k + 1) /\ n - 1 \in 1..k
      BY <1>10, <2>2
    <3> QED
      BY <1>8, <2>2, <3>1
  <2> QED
    BY <2>1, <2>2
<1>12. \A n \in 1..k : \E m \in 1..(k + 1) : m # place /\ from(m) = n
  <2> SUFFICES ASSUME NEW n \in 1..k PROVE \E m \in 1..(k + 1) : m # place /\ from(m) = n
    OBVIOUS
  <2>1. CASE n < place
    BY <1>10, <2>1
  <2>2. CASE ~(n < place)
    <3>1. n + 1 \in 1..(k + 1) /\ n + 1 # place /\ from(n + 1) = n
      BY <1>10, <2>2
    <3> QED
      BY <3>1
  <2> QED
    BY <2>1, <2>2
<1>a. \A m, n \in 1..(k + 1) : m # place /\ n # place /\ m # n => from(m) # from(n)
  BY <1>10
<1> HIDE DEF from
<1>13. ASSUME NEW n \in 1..(k + 1)
       PROVE  \E m \in 1..(k + 1) : arranged'[n] = replies[m]
  <2>1. CASE n = place
    BY <1>4, <1>8, <2>1
  <2>2. CASE n # place
    <3>1. PICK m \in 1..k : arranged[from(n)] = replies[m]
      BY <1>2, <1>3, <1>6, <1>11, <2>2
    <3> QED
      BY <1>11, <2>2, <3>1
  <2> QED
    BY <2>1, <2>2
<1>14. ASSUME NEW m \in 1..(k + 1)
       PROVE  \E n \in 1..(k + 1) : arranged'[n] = replies[m]
  <2>1. CASE m = k + 1
    BY <1>4, <1>6, <1>8, <2>1
  <2>2. CASE m # k + 1
    <3>1. m \in 1..k
      BY <2>2
    <3>2. PICK n \in 1..k : arranged[n] = replies[m]
      BY <1>2, <1>3, <1>6, <3>1
    <3> QED
      BY <1>11, <1>12, <3>2
  <2> QED
    BY <2>1, <2>2
<1>15. ASSUME NEW m \in 1..(k + 1), NEW n \in 1..(k + 1), m # n
       PROVE  arranged'[m].id # arranged'[n].id
  <2>1. CASE m = place \/ n = place
    BY <1>7, <1>11, <1>15, <2>1
  <2>2. CASE m # place /\ n # place
    <3>1. from(m) # from(n)
      BY <1>a, <1>15, <2>2
    <3>2. /\ from(m) \in DOMAIN arranged /\ from(n) \in DOMAIN arranged
          /\ arranged'[m] = arranged[from(m)] /\ arranged'[n] = arranged[from(n)]
      BY <1>6, <1>11, <2>2, Zenon
    <3>3. \A i, j \in DOMAIN arranged : i # j => arranged[i].id # arranged[j].id
      BY <1>2, Zenon
    <3> QED
      BY <3>1, <3>2, <3>3, Zenon
  <2> QED
    BY <2>1, <2>2
<1>16. ArrangeInv'
  <2>1. k + 1 <= Len(replies)
    BY <1>3, <1>6
  <2> QED
    BY <1>1, <1>8, <1>9, <1>13, <1>14, <1>15, <2>1 DEF ArrangeInv
<1>17. SettingsInv' /\ PagesInv' /\ CollectInv'
  BY <1>1 DEF ContentInv, SettingsInv, ValidatedIsFetched, PagesInv, CollectInv, Held
<1> QED
  BY <1>16, <1>17 DEF ContentInv

-----------------------------------------------------------------------------
LEMMA InvIsWhole ==
  ASSUME ContentInv
  PROVE  ContentIsWhole
<1>1. ValidatedIsFetched
  BY DEF ContentInv, SettingsInv
<1>2. ASSUME fetching = "stored", pages # <<>>
      PROVE  /\ [n \in DOMAIN pages |-> pages[n].number] = [n \in 1..reported |-> n]
             /\ \A m, n \in DOMAIN arranged : m # n => arranged[m].id # arranged[n].id
             /\ \A p \in DOMAIN pages : \A n \in DOMAIN pages[p].replies :
                  \E m \in DOMAIN arranged : arranged[m].id = pages[p].replies[n].id
             /\ (\A n \in DOMAIN arranged : arranged[n].floor # 0)
                  => \A m, n \in DOMAIN arranged : m < n => arranged[m].floor < arranged[n].floor
  <2>1. /\ pages \in Seq(Page) /\ Len(pages) = reported
        /\ \A p \in DOMAIN pages : pages[p].number = p
    BY <1>2 DEF ContentInv, PagesInv
  <2>2. [n \in DOMAIN pages |-> pages[n].number] = [n \in 1..reported |-> n]
    BY <2>1
  <2>3. turned = Len(pages) /\ Len(arranged) = Len(replies) /\ replies \in Seq(Collected)
    BY <1>2 DEF ContentInv, CollectInv, ArrangeInv
  <2>4. ASSUME NEW p \in DOMAIN pages, NEW n \in DOMAIN pages[p].replies
        PROVE  \E m \in DOMAIN arranged : arranged[m].id = pages[p].replies[n].id
    <3>1. p <= turned
      BY <2>1, <2>3
    <3>2. Held(pages[p].replies[n].id)
      BY <3>1 DEF ContentInv, CollectInv
    <3>3. PICK i \in 1..Len(arranged) : replies[i].id = pages[p].replies[n].id
      BY <2>3, <3>2 DEF Held
    <3>4. PICK m \in DOMAIN arranged : arranged[m] = replies[i]
      BY DEF ContentInv, ArrangeInv
    <3> QED
      BY <3>3, <3>4
  <2> QED
    BY <2>2, <2>4 DEF ContentInv, ArrangeInv, InOrder
<1> QED
  BY <1>1, <1>2 DEF ContentIsWhole, TopicIsWhole

\* Whatever the number of pages and of addresses in a request: the topic that
\* is stored is whole, and accepted settings are fetched.
THEOREM ContentWhole == ContentSpec => []ContentIsWhole
<1>1. ContentInit => ContentInv
  <2> SUFFICES ASSUME ContentInit PROVE ContentInv
    OBVIOUS
  <2>1. /\ fetching = "none" /\ reported = 0 /\ pages = <<>> /\ turned = 0 /\ taken = 0
        /\ replies = <<>> /\ arranged = <<>>
    BY DEF ContentInit
  <2>2. SettingsInv
    BY <2>1 DEF SettingsInv, ValidatedIsFetched
  <2>3. PagesInv
    BY <2>1 DEF PagesInv
  <2>4. CollectInv
    BY <2>1 DEF CollectInv
  <2>5. ArrangeInv
    BY <2>1 DEF ArrangeInv, InOrder
  <2> QED
    BY <2>2, <2>3, <2>4, <2>5 DEF ContentInv
<1>2. ContentInv /\ [ContentNext]_contentVars => ContentInv'
  <2> SUFFICES ASSUME ContentInv, [ContentNext]_contentVars PROVE ContentInv'
    OBVIOUS
  <2>1. ASSUME NEW c \in SettingSet, Accept(c)
        PROVE  ContentInv'
    <3>1. /\ fetching = "none" /\ fetching' = "begin" /\ settings' = c /\ ValidContent(c)
          /\ UNCHANGED <<reported, pages, turned, taken, replies, arranged>>
      BY <2>1 DEF Accept, replyVars
    <3>2. SettingsInv'
      BY <3>1 DEF SettingsInv, ValidatedIsFetched
    <3>3. PagesInv'
      BY <3>1 DEF ContentInv, PagesInv
    <3>4. CollectInv'
      BY <3>1 DEF ContentInv, CollectInv, Held
    <3>5. ArrangeInv'
      BY <3>1 DEF ContentInv, ArrangeInv, InOrder
    <3> QED
      BY <3>2, <3>3, <3>4, <3>5 DEF ContentInv
  <2>2. CASE Begin \/ FetchText \/ TopicFails \/ StoreTopic
    <3>1. UNCHANGED <<settings, reported, pages, replyVars>>
      BY <2>2 DEF Begin, FetchText, TopicFails, StoreTopic, Ends
    <3>2. Decides
      BY <2>2 DEF Begin, FetchText, TopicFails, StoreTopic, Ends, Decides
    <3> QED
      BY <3>1, <3>2, DecidingKeeps
  <2>3. CASE EndTopic
    <3>1. /\ fetching = "batches" /\ BatchPages(Len(pages) - 1) = <<>> /\ fetching' = "collect"
          /\ UNCHANGED <<settings, reported, pages, replyVars>>
      BY <2>3 DEF EndTopic, Ends
    <3>2. PICK k \in 1..reported : k = Len(pages) /\ reported \in Nat
      BY <3>1 DEF ContentInv, PagesInv
    <3>3. PICK size \in 0..(reported - k) :
            BatchPages(k - 1) = [n \in 1..size |-> k + n] /\ (size = 0 => k = reported)
      BY <3>2, NextBatch
    <3>4. DOMAIN BatchPages(k - 1) = {}
      BY <3>1, <3>2
    <3>5. size = 0
      BY <3>2, <3>3, <3>4
    <3>6. Decides
      BY <3>1, <3>2, <3>3, <3>5 DEF Decides
    <3> QED
      BY <3>1, <3>6, DecidingKeeps
  <2>4. CASE FetchDerived
    <3>1. UNCHANGED <<settings, reported, pages, replyVars>> /\ fetching = "derived"
          /\ fetching' \in {"stored", "retry", "permanent"}
      BY <2>4 DEF FetchDerived
    <3> QED
      BY <3>1, DecidingKeeps DEF Decides
  <2>5. CASE UNCHANGED contentVars
    <3>1. UNCHANGED <<settings, fetching, reported, pages, turned, taken, replies, arranged>>
      BY <2>5 DEF contentVars
    <3> QED
      BY <3>1 DEF ContentInv, SettingsInv, ValidatedIsFetched, PagesInv, CollectInv, Held,
                  ArrangeInv, InOrder
  <2> QED
    BY <2>1, <2>2, <2>3, <2>4, <2>5, FirstPageKeeps, BatchKeeps, CollectReplyKeeps,
       TurnPageKeeps, PlaceReplyKeeps DEF ContentNext
<1> QED
  BY <1>1, <1>2, InvIsWhole, PTL DEF ContentSpec

-----------------------------------------------------------------------------
(***************************************************************************)
(* The prompt: it is the beginning of the documents, and says where it ends. *)
(***************************************************************************)
\* The documents end one after the other.
DocsInOrder ==
  /\ docs \in Seq(Nat)
  /\ \A n \in DOMAIN docs : docs[n] <= docs[Len(docs)]

\* The figures of a prompt.
Figures == [written : Nat, included : Nat, truncated : BOOLEAN]

PromptInv ==
  /\ prompt \in Figures
  /\ DocsInOrder /\ PromptIsPrefix

LEMMA FiguresApart ==
  ASSUME NEW p \in Figures
  PROVE  p.written \in Nat /\ p.included \in Nat /\ p.truncated \in BOOLEAN
BY DEF Figures

LEMMA SetWritten ==
  ASSUME NEW p \in Figures, NEW w \in Nat, NEW q, q = [p EXCEPT !.written = w]
  PROVE  q \in Figures /\ q.written = w /\ q.included = p.included /\ q.truncated = p.truncated
BY Zenon DEF Figures

LEMMA SetIncluded ==
  ASSUME NEW p \in Figures, NEW n \in Nat, NEW q, q = [p EXCEPT !.included = n]
  PROVE  q \in Figures /\ q.written = p.written /\ q.included = n /\ q.truncated = p.truncated
BY Zenon DEF Figures

LEMMA SetCut ==
  ASSUME NEW p \in Figures, NEW w \in Nat, NEW q, q = [p EXCEPT !.written = w, !.truncated = TRUE]
  PROVE  q \in Figures /\ q.written = w /\ q.included = p.included /\ q.truncated = TRUE
BY Zenon DEF Figures

\* How far a text of so many runes fills a prompt.
Fills(q, runes) ==
  /\ runes <= Limit => q.written = runes /\ q.truncated = FALSE
  /\ runes > Limit => q.written = Limit /\ q.truncated = TRUE

\* Some of a text that does not fit is left out, and nothing of one that does.
LEMMA WriteRunesFills ==
  ASSUME NEW p \in Figures, NEW runes \in Nat, p.written <= Limit, p.truncated = FALSE,
         NEW q, q = WriteRunes(p, runes)
  PROVE  q \in Figures /\ q.included = p.included /\ Fills(q, p.written + runes)
<1>1. Limit \in Nat /\ p.written \in Nat
  BY ScriptAssumption, FiguresApart
<1>2. CASE runes <= Limit - p.written
  <2>1. q = [p EXCEPT !.written = p.written + runes]
    BY <1>2 DEF WriteRunes
  <2>2. p.written + runes \in Nat /\ p.written + runes <= Limit /\ ~(p.written + runes > Limit)
    BY <1>1, <1>2
  <2>3. q \in Figures /\ q.written = p.written + runes /\ q.included = p.included /\ q.truncated = p.truncated
    BY <2>1, <2>2, SetWritten
  <2> QED
    BY <2>2, <2>3, Zenon DEF Fills
<1>3. CASE ~(runes <= Limit - p.written)
  <2>1. q = [p EXCEPT !.written = Limit, !.truncated = TRUE]
    <3>1. p.written + (Limit - p.written) = Limit
      BY <1>1
    <3> QED
      BY <1>3, <3>1 DEF WriteRunes
  <2>2. ~(p.written + runes <= Limit)
    BY <1>1, <1>3
  <2>3. q \in Figures /\ q.written = Limit /\ q.included = p.included /\ q.truncated = TRUE
    BY <1>1, <2>1, SetCut
  <2> QED
    BY <2>2, <2>3, Zenon DEF Fills
<1> QED
  BY <1>2, <1>3

\* One document more: its header, and its text unless the header was cut.
LEMMA RenderedFills ==
  ASSUME NEW p \in Figures, NEW so \in Nat, NEW runes \in Nat, Fills(p, so),
         NEW q, q = Rendered(p, runes)
  PROVE  /\ q \in Figures /\ Fills(q, so + Header + runes)
         /\ so < Limit => q.included = p.included + 1
         /\ so >= Limit => q.included = p.included
<1>1. /\ Limit \in Nat /\ Header \in Nat /\ Header > 0
      /\ p.written \in Nat /\ p.included \in Nat /\ p.truncated \in BOOLEAN
  BY ScriptAssumption, FiguresApart
<1>2. so + Header \in Nat /\ so + Header + runes \in Nat /\ so + Header <= so + Header + runes
  BY <1>1
<1>3. CASE so > Limit
  <2>1. p.truncated = TRUE /\ p.written = Limit
    BY <1>3 DEF Fills
  <2>2. q = p
    BY <2>1, Zenon DEF Rendered
  <2>3. ~(so < Limit) /\ ~(so + Header + runes <= Limit)
    BY <1>1, <1>3
  <2> QED
    BY <2>1, <2>2, <2>3, Zenon DEF Fills
<1>4. CASE so = Limit
  <2>1. p.truncated = FALSE /\ p.written = Limit
    <3>1. so <= Limit
      BY <1>1, <1>4
    <3> QED
      BY <1>4, <3>1, Zenon DEF Fills
  <2>2. Limit - p.written <= 0
    BY <1>1, <2>1
  <2>3. q = [p EXCEPT !.truncated = TRUE]
    BY <2>1, <2>2, Zenon DEF Rendered
  <2>4. q \in Figures /\ q.written = Limit /\ q.included = p.included /\ q.truncated = TRUE
    BY <2>1, <2>3, Zenon DEF Figures
  <2>5. ~(so < Limit) /\ ~(so + Header + runes <= Limit)
    BY <1>1, <1>4
  <2> QED
    BY <2>4, <2>5, Zenon DEF Fills
<1>5. CASE so < Limit
  <2>1. p.truncated = FALSE /\ p.written = so
    <3>1. so <= Limit
      BY <1>1, <1>5
    <3> QED
      BY <3>1 DEF Fills
  <2>2. ~(Limit - p.written <= 0) /\ p.included + 1 \in Nat
    BY <1>1, <1>5, <2>1
  <2>3. PICK named : named = [p EXCEPT !.included = p.included + 1]
    OBVIOUS
  <2>4. PICK headed : headed = WriteRunes(named, Header)
    OBVIOUS
  <2>5. q = IF headed.truncated THEN headed ELSE WriteRunes(headed, runes)
    BY <2>1, <2>2, <2>3, <2>4, Zenon DEF Rendered
  <2>6. named \in Figures /\ named.written = so /\ named.included = p.included + 1 /\ named.truncated = FALSE
    BY <2>1, <2>2, <2>3, SetIncluded
  <2>7. headed \in Figures /\ headed.included = p.included + 1 /\ Fills(headed, so + Header)
    <3>1. named.written <= Limit
      BY <1>1, <1>5, <2>6
    <3> QED
      BY <1>1, <2>4, <2>6, <3>1, WriteRunesFills
  <2>8. CASE so + Header > Limit
    <3>1. headed.truncated = TRUE /\ headed.written = Limit
      BY <2>7, <2>8 DEF Fills
    <3>2. q = headed
      BY <2>5, <3>1, Zenon
    <3>3. ~(so + Header + runes <= Limit) /\ ~(so >= Limit)
      BY <1>1, <1>5, <2>8
    <3> QED
      BY <2>7, <3>1, <3>2, <3>3, Zenon DEF Fills
  <2>9. CASE so + Header <= Limit
    <3>1. headed.truncated = FALSE /\ headed.written = so + Header
      BY <2>7, <2>9 DEF Fills
    <3>2. q = WriteRunes(headed, runes)
      BY <2>5, <3>1, Zenon
    <3>3. headed.written <= Limit /\ ~(so >= Limit)
      BY <1>1, <1>5, <2>9, <3>1
    <3>4. q \in Figures /\ q.included = headed.included /\ Fills(q, headed.written + runes)
      BY <2>7, <3>1, <3>2, <3>3, WriteRunesFills
    <3> QED
      BY <2>7, <3>1, <3>3, <3>4, Zenon
  <2> QED
    BY <1>1, <1>2, <2>8, <2>9
<1> QED
  BY <1>1, <1>3, <1>4, <1>5

\* One document more of DocsInOrder, k of them before, the last one ending at t.
LEMMA OneMore ==
  ASSUME DocsInOrder, NEW k \in Nat, k = Len(docs), NEW t \in Nat, Total(k) <= t,
         docs' = Append(docs, t)
  PROVE  /\ DocsInOrder'
         /\ Len(docs') = k + 1 /\ Total(k + 1)' = t
         /\ \A n \in 0..k : Total(n) \in Nat /\ Total(n)' = Total(n) /\ Total(n) <= Total(k)
<1>1. docs \in Seq(Nat) /\ \A n \in 1..k : docs[n] \in Nat /\ docs[n] <= docs[k]
  BY DEF DocsInOrder
<1>2. /\ docs' \in Seq(Nat) /\ Len(docs') = k + 1 /\ DOMAIN docs' = 1..(k + 1)
      /\ docs'[k + 1] = t /\ \A n \in 1..k : docs'[n] = docs[n]
  BY <1>1
<1>3. \A n \in 1..k : docs[n] <= t
  <2> SUFFICES ASSUME NEW n \in 1..k PROVE docs[n] <= t
    OBVIOUS
  <2>1. k # 0 /\ Total(k) = docs[k] /\ docs[k] \in Nat
    BY <1>1 DEF Total
  <2> QED
    BY <1>1, <2>1
<1>4. DocsInOrder'
  <2>1. ASSUME NEW n \in 1..(k + 1)
        PROVE  docs'[n] <= docs'[k + 1]
    <3>1. CASE n = k + 1
      BY <1>2, <3>1
    <3>2. CASE n \in 1..k
      BY <1>2, <1>3, <3>2
    <3> QED
      BY <3>1, <3>2
  <2> QED
    BY <1>2, <2>1 DEF DocsInOrder
<1>5. Total(k + 1)' = t
  BY <1>2 DEF Total
<1>6. ASSUME NEW n \in 0..k
      PROVE  Total(n) \in Nat /\ Total(n)' = Total(n) /\ Total(n) <= Total(k)
  <2>1. CASE n = 0
    <3>1. Total(k) \in Nat
      BY <1>1 DEF Total
    <3> QED
      BY <2>1, <3>1 DEF Total
  <2>2. CASE n # 0
    <3>1. n \in 1..k /\ k # 0
      BY <2>2
    <3> QED
      BY <1>1, <1>2, <3>1 DEF Total
  <2> QED
    BY <2>1, <2>2
<1> QED
  BY <1>2, <1>4, <1>5, <1>6

\* What NoPrompt holds is the beginning of no documents.
LEMMA EmptyPrompt ==
  /\ NoPrompt \in Figures /\ NoPrompt.written = 0 /\ NoPrompt.truncated = FALSE
  /\ NoPrompt.included \in 0..0
<1>1. NoPrompt.written = 0 /\ NoPrompt.truncated = FALSE /\ NoPrompt.included = 0
  BY DEF NoPrompt
<1> QED
  BY <1>1 DEF NoPrompt, Figures

LEMMA RenderKeeps ==
  ASSUME PromptInv, NEW runes \in Contents, RenderDocument(runes)
  PROVE  PromptInv'
<1>1. PICK k \in Nat : k = Len(docs)
  BY DEF PromptInv, DocsInOrder
<1>2. PICK so \in Nat : so = Total(k)
  BY <1>1 DEF PromptInv, DocsInOrder, Total
<1>3. runes \in Nat /\ Header \in Nat /\ Header > 0 /\ Limit \in Nat
  BY ScriptAssumption
<1>4. PICK t \in Nat : t = so + Header + runes
  BY <1>3
<1>5. docs' = Append(docs, t) /\ prompt' = Rendered(prompt, runes)
  BY <1>1, <1>2, <1>4 DEF RenderDocument
<1>6. so <= t
  BY <1>3, <1>4
<1>7. /\ DocsInOrder' /\ Len(docs') = k + 1 /\ Total(k + 1)' = t
      /\ \A n \in 0..k : Total(n) \in Nat /\ Total(n)' = Total(n) /\ Total(n) <= so
  BY <1>1, <1>2, <1>5, <1>6, OneMore DEF PromptInv
<1>8. /\ prompt \in Figures /\ Fills(prompt, so) /\ prompt.included \in 0..k
      /\ \A n \in 1..k : n <= prompt.included <=> Total(n - 1) < Limit
  <2>1. prompt \in Figures /\ docs \in Seq(Nat) /\ prompt.included \in 0..k
    BY <1>1 DEF PromptInv, PromptIsPrefix, DocsInOrder
  <2>2. /\ prompt.written = IF so <= Limit THEN so ELSE Limit
        /\ prompt.truncated <=> so > Limit
        /\ \A n \in DOMAIN docs : n <= prompt.included <=> Total(n - 1) < Limit
    BY <1>1, <1>2, Zenon DEF PromptInv, PromptIsPrefix
  <2>3. prompt.truncated \in BOOLEAN
    BY <2>1, FiguresApart
  <2>4. so <= Limit <=> ~(so > Limit)
    BY <1>3
  <2>5. Fills(prompt, so)
    BY <2>2, <2>3, <2>4, Zenon DEF Fills
  <2>6. DOMAIN docs = 1..k
    BY <1>1, <2>1
  <2> QED
    BY <2>1, <2>2, <2>5, <2>6, Zenon
<1>9. /\ prompt' \in Figures /\ Fills(prompt', t)
      /\ so < Limit => prompt'.included = prompt.included + 1
      /\ so >= Limit => prompt'.included = prompt.included
  <2>1. /\ Rendered(prompt, runes) \in Figures /\ Fills(Rendered(prompt, runes), so + Header + runes)
        /\ so < Limit => Rendered(prompt, runes).included = prompt.included + 1
        /\ so >= Limit => Rendered(prompt, runes).included = prompt.included
    BY <1>3, <1>8, RenderedFills, Zenon
  <2> QED
    BY <1>4, <1>5, <2>1, Zenon
<1>10. so < Limit => prompt.included = k
  <2> SUFFICES ASSUME so < Limit, k # 0 PROVE k <= prompt.included
    BY <1>8
  <2>1. k \in 1..k /\ k - 1 \in 0..k
    OBVIOUS
  <2>2. Total(k - 1) \in Nat /\ Total(k - 1) <= so
    BY <1>7, <2>1
  <2> QED
    BY <1>3, <1>8, <2>1, <2>2
<1>11. prompt'.included \in 0..(k + 1) /\ (so < Limit => prompt'.included = k + 1)
       /\ (so >= Limit => prompt'.included = prompt.included)
  BY <1>3, <1>8, <1>9, <1>10
<1>12. ASSUME NEW n \in 1..(k + 1)
       PROVE  n <= prompt'.included <=> Total(n - 1)' < Limit
  <2>1. n - 1 \in 0..k /\ k \in 0..k
    OBVIOUS
  <2>2. Total(n - 1) \in Nat /\ Total(n - 1)' = Total(n - 1) /\ Total(n - 1) <= so
    BY <1>7, <2>1
  <2>3. CASE so < Limit
    BY <1>3, <1>11, <2>2, <2>3
  <2>4. CASE so >= Limit /\ n = k + 1
    <3>1. Total(n - 1) = so
      BY <1>2, <2>4
    <3> QED
      BY <1>3, <1>8, <1>11, <2>2, <2>4, <3>1
  <2>5. CASE so >= Limit /\ n \in 1..k
    BY <1>8, <1>11, <2>2, <2>5
  <2> QED
    BY <1>3, <2>3, <2>4, <2>5
<1>13. PromptIsPrefix'
  <2>1. /\ prompt'.written = IF t <= Limit THEN t ELSE Limit
        /\ prompt'.truncated <=> t > Limit
    <3>1. t <= Limit <=> ~(t > Limit)
      BY <1>3
    <3> QED
      BY <1>9, <3>1, Zenon DEF Fills
  <2>2. DOMAIN docs' = 1..(k + 1)
    BY <1>7 DEF DocsInOrder
  <2> QED
    BY <1>7, <1>11, <1>12, <2>1, <2>2, Zenon DEF PromptIsPrefix
<1> QED
  BY <1>7, <1>9, <1>13 DEF PromptInv

\* Whatever the sizes of the documents and the limit: what the prompt holds,
\* whether it says that it was cut and the number of documents that it reports
\* fit together.
THEOREM PromptHoldsPrefix == ScriptSpec => []PromptIsPrefix
<1>1. Limit \in Nat /\ 0 <= Limit /\ ~(0 > Limit)
  BY ScriptAssumption
<1>2. ASSUME ScriptInit PROVE PromptInv
  <2>1. docs = <<>> /\ prompt = NoPrompt
    BY <1>2 DEF ScriptInit
  <2>2. Len(docs) = 0 /\ Total(0) = 0 /\ DocsInOrder /\ DOMAIN docs = {}
    BY <2>1 DEF Total, DocsInOrder
  <2> QED
    BY <1>1, <2>1, <2>2, EmptyPrompt, Zenon DEF PromptInv, PromptIsPrefix
<1>3. PromptInv /\ [ScriptNext]_scriptVars => PromptInv'
  <2> SUFFICES ASSUME PromptInv, [ScriptNext]_scriptVars PROVE PromptInv'
    OBVIOUS
  <2>1. ASSUME UNCHANGED <<docs, prompt>>
        PROVE  PromptInv'
    BY <2>1 DEF PromptInv, DocsInOrder, PromptIsPrefix, Total
  <2>2. CASE Prompted
    <3>1. docs' = <<>> /\ prompt' = NoPrompt
      BY <2>2 DEF Prompted
    <3>2. Len(docs') = 0 /\ Total(0)' = 0 /\ DocsInOrder' /\ DOMAIN docs' = {}
      BY <3>1 DEF Total, DocsInOrder
    <3>3. Total(Len(docs))' = 0
      BY <3>2 DEF Total
    <3> QED
      BY <1>1, <3>1, <3>2, <3>3, EmptyPrompt, Zenon DEF PromptInv, PromptIsPrefix
  <2>3. CASE Ask \/ CutOff \/ TakeAnswer
    BY <2>1, <2>3 DEF Ask, CutOff, TakeAnswer
  <2>4. ASSUME NEW turn, NEW keys, NEW marred, NEW textFirst, NEW comma, NEW separator,
               AnswerTurn(turn, keys, marred, textFirst, comma, separator)
        PROVE  PromptInv'
    BY <2>1, <2>4 DEF AnswerTurn
  <2>5. ASSUME NEW ending, EndAnswer(ending)
        PROVE  PromptInv'
    BY <2>1, <2>5 DEF EndAnswer
  <2>6. ASSUME NEW status, NoCompletion(status)
        PROVE  PromptInv'
    BY <2>1, <2>6 DEF NoCompletion
  <2>7. CASE UNCHANGED scriptVars
    BY <2>1, <2>7 DEF scriptVars
  <2> DEFINE
    Renders == \E runes \in Contents : RenderDocument(runes)
    Answers == \E speaker \in Speakers \cup {"nobody"}, text \in {"hi", ""}, keys \in TurnKeys :
                 \E marred, textFirst, comma \in BOOLEAN, separator \in Separators :
                   AnswerTurn([speaker |-> speaker, text |-> text], keys, marred, textFirst, comma, separator)
    Finishes == \E ending \in Endings : EndAnswer(ending)
    Refuses == \E status \in {0, 200, 302, 401, 408, 429, 503} : NoCompletion(status)
  <2>8. CASE Renders
    BY <2>8, RenderKeeps, Zenon
  <2>9. CASE Answers
    BY <2>4, <2>9, Zenon
  <2>10. CASE Finishes
    BY <2>5, <2>10
  <2>11. CASE Refuses
    BY <2>6, <2>11
  <2>12. ScriptNext => \/ Renders \/ Prompted \/ Ask \/ CutOff \/ TakeAnswer
                      \/ Answers \/ Finishes \/ Refuses
    BY DEF ScriptNext
  <2> HIDE DEF Renders, Answers, Finishes, Refuses
  <2> QED
    BY <2>2, <2>3, <2>7, <2>8, <2>9, <2>10, <2>11, <2>12
<1>4. PromptInv => PromptIsPrefix
  BY DEF PromptInv
<1> QED
  BY <1>2, <1>3, <1>4, PTL DEF ScriptSpec

-----------------------------------------------------------------------------
(***************************************************************************)
(* Speech: the audio is of one attempt, and accepted voices speak.         *)
(***************************************************************************)
\* The buffer always holds what the attempt under way has heard: nothing when
\* it has connected for the first piece only.
HeardSoFar(n) == audio = [m \in 1..n |-> <<attempt, m>>]

SpeechInv ==
  /\ attempt \in Nat
  /\ speech \in {"idle", "configured", "azure"} => attempt = 0
  /\ speech = "streaming" => part \in 1..(Parts + 1) /\ HeardSoFar(part - 1)
  /\ speech = "done" /\ attempt > 0 => HeardSoFar(Parts)

\* One more piece at the end of the buffer.
LEMMA OneMorePiece ==
  ASSUME NEW a, NEW n \in Nat
  PROVE  Append([m \in 1..n |-> <<a, m>>], <<a, n + 1>>) = [m \in 1..(n + 1) |-> <<a, m>>]
<1> DEFINE heard == [m \in 1..n |-> <<a, m>>]
<1>1. heard \in Seq({<<a, m>> : m \in 1..(n + 1)}) /\ Len(heard) = n
  OBVIOUS
<1>2. Append(heard, <<a, n + 1>>)
        = [m \in 1..(n + 1) |-> IF m <= n THEN heard[m] ELSE <<a, n + 1>>]
  BY <1>1
<1> QED
  BY <1>2

LEMMA HearKeeps ==
  ASSUME SpeechInv, Hear
  PROVE  SpeechInv'
<1>1. part \in Nat \ {0} /\ part <= Parts /\ part' = part + 1 /\ HeardSoFar(part - 1)
  BY SpeechAssumption DEF SpeechInv, Hear
<1>2. audio' = [m \in 1..part |-> <<attempt, m>>]
  BY <1>1, OneMorePiece DEF Hear, HeardSoFar
<1> QED
  BY <1>1, <1>2, SpeechAssumption DEF SpeechInv, Hear, HeardSoFar

LEMMA StartKeeps ==
  ASSUME SpeechInv, StartAttempt
  PROVE  SpeechInv'
<1>1. <<>> = [m \in 1..0 |-> <<attempt', m>>]
  OBVIOUS
<1> QED
  BY <1>1, SpeechAssumption DEF SpeechInv, StartAttempt, HeardSoFar

\* However many pieces a text has and however many connections were refused
\* before, a turn that is done has each piece once, in order, and nothing of an
\* earlier attempt.
THEOREM NoLeftovers == SpeechSpec => []AudioOfOneAttempt
<1>1. SpeechInit => SpeechInv
  BY DEF SpeechInit, SpeechInv
<1>2. SpeechInv /\ [SpeechNext]_speechVars => SpeechInv'
  <2> SUFFICES ASSUME SpeechInv, [SpeechNext]_speechVars PROVE SpeechInv'
    OBVIOUS
  <2>1. CASE \E n \in 1..MaxSpeakers, services \in SUBSET Services :
               \E voices \in [1..n -> Voices] : Configure(voices, services)
    BY <2>1 DEF SpeechInv, Configure
  <2>2. CASE \E n \in 1..MaxTurns : \E speakers \in [1..n -> DOMAIN profile] : Speak(speakers)
    BY <2>2 DEF SpeechInv, Speak
  <2>3. CASE \E status \in {0, 200, 400, 401, 408, 429, 503} : AzureAnswers(status)
    BY <2>3 DEF SpeechInv, AzureAnswers
  <2>4. CASE StartAttempt
    BY <2>4, StartKeeps
  <2>5. CASE Hear
    BY <2>5, HearKeeps
  <2>6. CASE StreamEnds
    BY <2>6, SpeechAssumption DEF SpeechInv, StreamEnds, HeardSoFar
  <2>7. CASE Refuse \/ Break \/ WaitOver
    BY <2>7 DEF SpeechInv, Refuse, Break, WaitOver
  <2>8. CASE Cancel \/ UNCHANGED speechVars
    BY <2>8 DEF SpeechInv, HeardSoFar, Cancel, speechVars
  <2> QED
    BY <2>1, <2>2, <2>3, <2>4, <2>5, <2>6, <2>7, <2>8 DEF SpeechNext
<1>3. SpeechInv => AudioOfOneAttempt
  BY DEF SpeechInv, HeardSoFar, AudioOfOneAttempt
<1> QED
  BY <1>1, <1>2, <1>3, PTL DEF SpeechSpec

-----------------------------------------------------------------------------
\* What the configuration accepted is still the profile when it is spoken.
AcceptedInv ==
  /\ ValidatedIsVoiced
  /\ speech = "configured" =>
       /\ \E n \in Nat \ {0} : profile \in [1..n -> Voices]
       /\ declared \subseteq {"edge", "azure"} /\ ValidProfile(profile, declared)

\* A voice with a talker that is valid is one of azure.
LEMMA TalkersAreAzure ==
  ASSUME NEW v, ValidVoice(v), IsMulti(v)
  PROVE  v.service = "azure"
  BY DEF ValidVoice

\* Whatever speakers of an accepted profile speak, the stage takes their turns.
LEMMA AcceptedIsTaken ==
  ASSUME NEW n \in Nat \ {0}, NEW k \in Nat \ {0},
         profile \in [1..k -> Voices], declared \subseteq {"edge", "azure"},
         ValidProfile(profile, declared), NEW speakers \in [1..n -> 1..k]
  PROVE  ~Refused([m \in 1..n |-> profile[speakers[m]]])
<1> DEFINE turns == [m \in 1..n |-> profile[speakers[m]]]
<1> SUFFICES ~Refused(turns)
  OBVIOUS
<1>1. \A m \in 1..n : speakers[m] \in 1..k /\ turns[m] = profile[speakers[m]]
  OBVIOUS
<1>2. DOMAIN turns = 1..n /\ 1 \in 1..n /\ 1 \in 1..k /\ DOMAIN profile = 1..k
  OBVIOUS
<1>3. \A m \in 1..n : ValidVoice(turns[m]) /\ turns[m].service \in declared
  BY <1>1, <1>2 DEF ValidProfile
<1>4. \/ \A m \in 1..n : ~IsMulti(turns[m])
      \/ \A m \in 1..n : IsMulti(turns[m]) /\ turns[m].model = turns[1].model
  BY <1>1, <1>2 DEF ValidProfile, ValidMulti
<1>5. CASE \A m \in 1..n : ~IsMulti(turns[m])
  <2>1. \A m \in 1..n : turns[m].service \in declared \cap {"edge", "azure"}
    BY <1>3
  <2> HIDE DEF turns
  <2> QED
    BY <1>2, <1>5, <2>1 DEF Refused
<1>6. CASE \A m \in 1..n : IsMulti(turns[m]) /\ turns[m].model = turns[1].model
  <2>1. \A m \in 1..n : turns[m].service = "azure"
    BY <1>3, <1>6, TalkersAreAzure
  <2>2. "azure" \in declared
    BY <1>2, <1>3, <2>1
  <2> HIDE DEF turns
  <2> QED
    BY <1>2, <1>6, <2>1, <2>2 DEF Refused
<1> QED
  BY <1>4, <1>5, <1>6

\* A dialogue profile that the configuration accepts is never what makes the
\* TTS stage give up, whichever of its speakers speak, in whatever order.
THEOREM AcceptedIsVoiced == SpeechSpec => []ValidatedIsVoiced
<1>1. SpeechInit => AcceptedInv
  BY DEF SpeechInit, AcceptedInv, ValidatedIsVoiced
<1>2. AcceptedInv /\ [SpeechNext]_speechVars => AcceptedInv'
  <2> SUFFICES ASSUME AcceptedInv, [SpeechNext]_speechVars PROVE AcceptedInv'
    OBVIOUS
  <2>1. ASSUME NEW n \in 1..MaxSpeakers, NEW services \in SUBSET Services,
               NEW voices \in [1..n -> Voices], Configure(voices, services)
        PROVE  AcceptedInv'
    <3>1. n \in Nat \ {0}
      BY SpeechAssumption
    <3> QED
      BY <2>1, <3>1 DEF AcceptedInv, ValidatedIsVoiced, Configure
  <2>2. ASSUME NEW n \in 1..MaxTurns, NEW speakers \in [1..n -> DOMAIN profile], Speak(speakers)
        PROVE  AcceptedInv'
    <3>1. PICK k \in Nat \ {0} : profile \in [1..k -> Voices]
      BY <2>2 DEF AcceptedInv, Speak
    <3>2. n \in Nat \ {0} /\ DOMAIN speakers = 1..n /\ speakers \in [1..n -> 1..k]
      BY <3>1, SpeechAssumption
    <3>3. ~Refused([m \in DOMAIN speakers |-> profile[speakers[m]]])
      BY <2>2, <3>1, <3>2, AcceptedIsTaken DEF AcceptedInv, Speak
    <3>4. speech' \in {"azure", "edge"}
      BY <2>2, <3>3 DEF Speak
    <3> QED
      BY <3>4 DEF AcceptedInv, ValidatedIsVoiced
  <2>3. CASE \E status \in {0, 200, 400, 401, 408, 429, 503} : AzureAnswers(status)
    <3>1. PICK status \in {0, 200, 400, 401, 408, 429, 503} : AzureAnswers(status)
      BY <2>3, Zenon
    <3>2. speech' \in {"done", "failed", "rejected"}
      <4>1. CASE status \in 200..299
        BY <3>1, <4>1 DEF AzureAnswers
      <4>2. CASE status \notin 200..299
        BY <3>1, <4>2 DEF AzureAnswers
      <4> QED
        BY <4>1, <4>2
    <3> QED
      BY <3>2 DEF AcceptedInv, ValidatedIsVoiced
  <2>4. CASE StartAttempt \/ Hear \/ StreamEnds
    BY <2>4 DEF AcceptedInv, ValidatedIsVoiced, StartAttempt, Hear, StreamEnds
  <2>5. CASE Refuse \/ Break \/ WaitOver
    BY <2>5 DEF AcceptedInv, ValidatedIsVoiced, Refuse, Break, WaitOver
  <2>6. CASE Cancel \/ UNCHANGED speechVars
    BY <2>6 DEF AcceptedInv, ValidatedIsVoiced, Cancel, speechVars
  <2> QED
    BY <2>1, <2>2, <2>3, <2>4, <2>5, <2>6 DEF SpeechNext
<1>3. AcceptedInv => ValidatedIsVoiced
  BY DEF AcceptedInv
<1> QED
  BY <1>1, <1>2, <1>3, PTL DEF SpeechSpec

-----------------------------------------------------------------------------
(***************************************************************************)
(* The audio: its duration is that of its whole frames.                    *)
(***************************************************************************)
\* The place where the last whole piece ends.
LastEnd(p) == p \in DOMAIN expected /\ \A q \in DOMAIN expected : q <= p

\* A piece begins at p: a stray byte, a frame or a tag, and where it ends the
\* cells of a frame are counted.
Piece(p) ==
  /\ p <= Len(file)
  /\ \/ file[p] = 0 /\ p + 1 \in DOMAIN expected /\ expected[p + 1] = expected[p]
     \/ /\ IsFrame(file[p]) /\ p + file[p] \in DOMAIN expected
        /\ expected[p + file[p]] = expected[p] + file[p]
     \/ /\ file[p] > 10 /\ p + TagCells(file[p]) \in DOMAIN expected
        /\ expected[p + TagCells(file[p])] = expected[p]

FileInv ==
  /\ file \in Seq(Nat) /\ header \in Headers
  /\ walk \in {"idle", "walking", "done", "parsed"}
  /\ expected \in [DOMAIN expected -> Nat] /\ DOMAIN expected \subseteq Nat \ {0}
  /\ \A p \in DOMAIN expected : p <= Len(file) + 1 /\ (LastEnd(p) \/ Piece(p))

\* The walk is always where a piece begins, and has counted what was before.
WalkInv ==
  /\ walk = "idle" => /\ LastEnd(Len(file) + 1) /\ offset = 1 /\ duration = 0
                      /\ 1 \in DOMAIN expected /\ expected[1] = 0
  /\ walk = "walking" =>
       /\ offset \in DOMAIN expected /\ duration = expected[offset]
       /\ \A p \in DOMAIN expected :
            LastEnd(p) => p = Len(file) + 1 \/ (p <= Len(file) /\ IsFrame(file[p]) /\ p + file[p] > Len(file) + 1)
  /\ WholeFramesCounted

\* A text behind another leaves the first as it is.
LEMMA Joined ==
  ASSUME NEW s \in Seq(Nat), NEW t \in Seq(Nat)
  PROVE  /\ s \o t \in Seq(Nat) /\ Len(s \o t) = Len(s) + Len(t)
         /\ Len(s) \in Nat /\ Len(t) \in Nat
         /\ \A n \in 1..Len(s) : (s \o t)[n] = s[n]
         /\ t # <<>> => Len(t) > 0 /\ (s \o t)[Len(s) + 1] = Head(t) /\ Head(t) \in Nat
OBVIOUS

\* A cell is one thing only.
LEMMA OneKind ==
  ASSUME NEW c \in Nat
  PROVE  /\ c = 0 => ~IsFrame(c) /\ ~(c > 10)
         /\ IsFrame(c) => c # 0 /\ ~(c > 10)
         /\ c > 10 => c # 0 /\ ~IsFrame(c)
BY DEF IsFrame

\* So its first cell says what a piece is.
LEMMA PieceHere ==
  ASSUME NEW p, Piece(p), file[p] \in Nat
  PROVE  /\ file[p] = 0 => p + 1 \in DOMAIN expected /\ expected[p + 1] = expected[p]
         /\ IsFrame(file[p]) => /\ p + file[p] \in DOMAIN expected
                               /\ expected[p + file[p]] = expected[p] + file[p]
         /\ file[p] > 10 => /\ p + TagCells(file[p]) \in DOMAIN expected
                           /\ expected[p + TagCells(file[p])] = expected[p]
<1>1. /\ file[p] = 0 => ~IsFrame(file[p]) /\ ~(file[p] > 10)
      /\ IsFrame(file[p]) => file[p] # 0 /\ ~(file[p] > 10)
      /\ file[p] > 10 => file[p] # 0 /\ ~IsFrame(file[p])
  BY OneKind, Zenon
<1> QED
  BY <1>1, Zenon DEF Piece

LEMMA AddKeeps ==
  ASSUME FileInv, WalkInv, NEW chunk \in Chunks, AddChunk(chunk)
  PROVE  FileInv' /\ WalkInv'
<1>a. PICK end : end = Len(file) + 1
  OBVIOUS
<1>b. PICK newEnd : newEnd = end + Len(chunk)
  OBVIOUS
<1>c. PICK counted : counted = IF WholeFrame(chunk) THEN Len(chunk) ELSE 0
  OBVIOUS
<1>1. /\ file \in Seq(Nat) /\ chunk \in Seq(Nat) /\ chunk # <<>> /\ file' = file \o chunk
      /\ walk = "idle" /\ UNCHANGED <<offset, duration, walk, header>>
      /\ LastEnd(end) /\ offset = 1 /\ duration = 0 /\ 1 \in DOMAIN expected /\ expected[1] = 0
      /\ expected \in [DOMAIN expected -> Nat] /\ DOMAIN expected \subseteq Nat \ {0}
  BY <1>a, Mp3Assumption DEF FileInv, WalkInv, AddChunk
<1>2. /\ file' \in Seq(Nat) /\ Len(file') = Len(file) + Len(chunk) /\ Len(file) \in Nat
      /\ Len(chunk) \in Nat /\ Len(chunk) > 0 /\ file'[end] = Head(chunk) /\ Head(chunk) \in Nat
      /\ \A n \in 1..Len(file) : file'[n] = file[n]
  BY <1>1, <1>a, Joined
<1>3. end \in Nat /\ newEnd \in Nat /\ newEnd = Len(file') + 1 /\ end < newEnd /\ end <= Len(file')
  BY <1>2, <1>a, <1>b
<1>4. \A p \in DOMAIN expected : p \in Nat /\ p <= end
  BY <1>1 DEF LastEnd
<1>5. /\ DOMAIN expected' = DOMAIN expected \cup {newEnd}
      /\ expected' = [p \in DOMAIN expected \cup {newEnd} |-> IF p = newEnd THEN expected[end] + counted ELSE expected[p]]
  BY <1>a, <1>b, <1>c DEF AddChunk
<1>6. /\ expected'[newEnd] = expected[end] + counted
      /\ \A p \in DOMAIN expected : p # newEnd /\ expected'[p] = expected[p]
  BY <1>3, <1>4, <1>5
<1>7. expected[end] \in Nat /\ counted \in Nat /\ end \in DOMAIN expected
  BY <1>1, <1>2, <1>c DEF LastEnd
<1>8. \/ Head(chunk) = 0 /\ Len(chunk) = 1
      \/ IsFrame(Head(chunk)) /\ Len(chunk) = Head(chunk)
      \/ Head(chunk) > 10 /\ Len(chunk) = TagCells(Head(chunk))
  BY Mp3Assumption
<1>9. /\ Head(chunk) = 0 => counted = 0 /\ newEnd = end + 1 
      /\ IsFrame(Head(chunk)) => counted = Head(chunk) /\ newEnd = end + Head(chunk)
      /\ Head(chunk) > 10 => counted = 0 /\ newEnd = end + TagCells(Head(chunk))
  <2>0. Head(chunk) \in Nat
    BY <1>2
  <2>1. CASE Head(chunk) = 0 /\ Len(chunk) = 1
    <3>1. ~IsFrame(Head(chunk)) /\ ~(Head(chunk) > 10)
      BY <2>0, <2>1, OneKind
    <3>2. counted = 0 /\ newEnd = end + 1
      BY <1>b, <1>c, <2>1, <3>1 DEF WholeFrame
    <3> QED
      BY <3>1, <3>2
  <2>2. CASE IsFrame(Head(chunk)) /\ Len(chunk) = Head(chunk)
    <3>1. Head(chunk) # 0 /\ ~(Head(chunk) > 10)
      BY <2>0, <2>2, OneKind
    <3>2. counted = Head(chunk) /\ newEnd = end + Head(chunk)
      BY <1>b, <1>c, <2>2 DEF WholeFrame
    <3> QED
      BY <3>1, <3>2
  <2>3. CASE Head(chunk) > 10 /\ Len(chunk) = TagCells(Head(chunk))
    <3>1. Head(chunk) # 0 /\ ~IsFrame(Head(chunk))
      BY <2>0, <2>3, OneKind
    <3>2. counted = 0 /\ newEnd = end + TagCells(Head(chunk))
      BY <1>b, <1>c, <2>3, <3>1 DEF WholeFrame
    <3> QED
      BY <3>1, <3>2
  <2> QED
    BY <1>8, <2>1, <2>2, <2>3
<1>10. Piece(end)'
  <2>1. end <= Len(file') /\ file'[end] = Head(chunk) /\ expected'[end] = expected[end]
    BY <1>2, <1>3, <1>6, <1>7
  <2>2. newEnd \in DOMAIN expected' /\ expected'[newEnd] = expected[end] + counted
    BY <1>5, <1>6
  <2>3. CASE Head(chunk) = 0
    BY <1>7, <1>9, <2>1, <2>2, <2>3 DEF Piece
  <2>4. CASE IsFrame(Head(chunk))
    BY <1>9, <2>1, <2>2, <2>4 DEF Piece
  <2>5. CASE Head(chunk) > 10
    BY <1>7, <1>9, <2>1, <2>2, <2>5 DEF Piece
  <2> QED
    BY <1>8, <2>3, <2>4, <2>5
<1>11. LastEnd(newEnd)'
  BY <1>3, <1>4, <1>5 DEF LastEnd
<1>12. ASSUME NEW p \in DOMAIN expected, p # end
       PROVE  Piece(p)'
  <2>1. ~LastEnd(p)
    BY <1>1, <1>3, <1>4, <1>12 DEF LastEnd
  <2>2. Piece(p) /\ p \in 1..Len(file)
    <3>1. Piece(p)
      BY <2>1 DEF FileInv
    <3>2. p <= Len(file) /\ p \in Nat \ {0}
      BY <1>1, <3>1 DEF Piece
    <3> QED
      BY <1>2, <3>1, <3>2
  <2>3. p <= Len(file') /\ file'[p] = file[p]
    BY <1>2, <2>2
  <2> QED
    BY <1>5, <1>6, <2>2, <2>3 DEF Piece
<1>13. FileInv'
  <2>1. expected' \in [DOMAIN expected' -> Nat]
    BY <1>1, <1>5, <1>7
  <2>2. DOMAIN expected' \subseteq Nat \ {0}
    BY <1>1, <1>3, <1>5, <1>7
  <2>3. \A p \in DOMAIN expected' : p <= Len(file') + 1 /\ (LastEnd(p)' \/ Piece(p)')
    BY <1>3, <1>4, <1>5, <1>10, <1>11, <1>12
  <2> QED
    BY <1>1, <1>2, <2>1, <2>2, <2>3 DEF FileInv
<1> QED
  BY <1>1, <1>3, <1>5, <1>6, <1>11, <1>13 DEF WalkInv, WholeFramesCounted

LEMMA OpenKeeps ==
  ASSUME FileInv, WalkInv, NEW tail \in Tails, OpenFile(tail)
  PROVE  FileInv' /\ WalkInv'
<1>1. /\ file \in Seq(Nat) /\ tail \in Seq(Nat) /\ file' = file \o tail
      /\ walk = "idle" /\ walk' = "walking" /\ UNCHANGED <<offset, duration, expected, header>>
      /\ LastEnd(Len(file) + 1) /\ offset = 1 /\ duration = 0 /\ 1 \in DOMAIN expected /\ expected[1] = 0
      /\ expected \in [DOMAIN expected -> Nat] /\ DOMAIN expected \subseteq Nat \ {0}
  BY Mp3Assumption DEF FileInv, WalkInv, OpenFile
<1>2. /\ file' \in Seq(Nat) /\ Len(file') = Len(file) + Len(tail) /\ Len(file) \in Nat /\ Len(tail) \in Nat
      /\ \A n \in 1..Len(file) : file'[n] = file[n]
      /\ tail # <<>> => Len(tail) > 0 /\ file'[Len(file) + 1] = Head(tail) /\ Head(tail) \in Nat
  BY <1>1, Joined
<1>3. \A p \in DOMAIN expected : p \in Nat /\ p <= Len(file) + 1 /\ p <= Len(file') + 1
  BY <1>1, <1>2 DEF FileInv
<1>4. \A p : LastEnd(p)' <=> LastEnd(p)
  BY <1>1 DEF LastEnd
<1>5. ASSUME NEW p \in DOMAIN expected, Piece(p)
      PROVE  Piece(p)'
  <2>1. p \in 1..Len(file)
    BY <1>1, <1>2, <1>5 DEF Piece
  <2>2. p <= Len(file') /\ file'[p] = file[p]
    BY <1>2, <2>1
  <2> QED
    BY <1>1, <1>5, <2>2 DEF Piece
<1>6. FileInv'
  BY <1>1, <1>2, <1>3, <1>4, <1>5 DEF FileInv
<1>7. ASSUME NEW p \in DOMAIN expected, LastEnd(p)
      PROVE  \/ p = Len(file') + 1
             \/ p <= Len(file') /\ IsFrame(file'[p]) /\ p + file'[p] > Len(file') + 1
  <2>1. p = Len(file) + 1
    BY <1>1, <1>2, <1>3, <1>7 DEF LastEnd
  <2>2. CASE tail = <<>>
    BY <1>2, <2>1, <2>2
  <2>3. CASE tail # <<>>
    <3>1. IsFrame(Head(tail)) /\ Len(tail) < Head(tail)
      BY <2>3, Mp3Assumption
    <3> QED
      BY <1>2, <2>1, <2>3, <3>1
  <2> QED
    BY <2>2, <2>3
<1> QED
  BY <1>1, <1>4, <1>6, <1>7 DEF WalkInv, WholeFramesCounted

\* One step of the walk: over the piece that begins where it is.
LEMMA WalkKeeps ==
  ASSUME FileInv, WalkInv, SkipTag \/ Resync \/ CountFrame \/ EndWalk
  PROVE  FileInv' /\ WalkInv'
<1>1. /\ UNCHANGED <<file, expected, header>> /\ walk = "walking" /\ walk' \in {"walking", "done"}
      /\ offset \in DOMAIN expected /\ duration = expected[offset]
      /\ \A p \in DOMAIN expected :
           LastEnd(p) => p = Len(file) + 1 \/ (p <= Len(file) /\ IsFrame(file[p]) /\ p + file[p] > Len(file) + 1)
  BY DEF WalkInv, SkipTag, Resync, CountFrame, EndWalk, Walking
<1>2. /\ file \in Seq(Nat) /\ Len(file) \in Nat /\ offset \in Nat \ {0}
      /\ offset <= Len(file) => file[offset] \in Nat
      /\ (LastEnd(offset) \/ Piece(offset))
      /\ \A p \in DOMAIN expected : p <= Len(file) + 1 /\ p \in Nat
  BY <1>1 DEF FileInv
<1>3. FileInv'
  BY <1>1 DEF FileInv, LastEnd, Piece
<1>4. CASE SkipTag \/ Resync \/ CountFrame
  <2>1. offset <= Len(file) /\ walk' = "walking"
    BY <1>4 DEF SkipTag, Resync, CountFrame, Walking
  <2>2. ~LastEnd(offset)
    <3>1. IsFrame(file[offset]) => offset + file[offset] <= Len(file) + 1
      <4>1. ASSUME SkipTag PROVE ~IsFrame(file[offset])
        BY <1>2, <2>1, <4>1, OneKind DEF SkipTag, TagHere
      <4>2. ASSUME Resync PROVE ~IsFrame(file[offset])
        BY <4>2 DEF Resync
      <4>3. ASSUME CountFrame PROVE offset + file[offset] <= Len(file) + 1
        BY <4>3 DEF CountFrame, FitsHere
      <4> QED
        BY <1>4, <4>1, <4>2, <4>3
    <3> QED
      BY <1>1, <1>2, <2>1, <3>1 DEF IsFrame
  <2>3. Piece(offset) /\ file[offset] \in Nat
    BY <1>2, <2>1, <2>2
  <2>4. offset' \in DOMAIN expected /\ duration' = expected[offset']
    <3>1. CASE SkipTag
      BY <1>1, <2>3, <3>1, PieceHere DEF SkipTag, TagHere
    <3>2. CASE Resync
      <4>1. ~(file[offset] > 10)
        <5>1. file[offset] > 10 => offset + TagCells(file[offset]) \in DOMAIN expected
          BY <2>3, PieceHere
        <5> QED
          BY <1>2, <3>2, <5>1 DEF Resync, TagHere
      <4>2. file[offset] = 0
        BY <2>3, <3>2, <4>1 DEF Resync, Piece
      <4> QED
        BY <1>1, <2>3, <3>2, <4>2, PieceHere DEF Resync
    <3>3. CASE CountFrame
      BY <1>1, <2>3, <3>3, PieceHere DEF CountFrame
    <3> QED
      BY <1>4, <3>1, <3>2, <3>3
  <2> QED
    BY <1>1, <1>3, <2>1, <2>4 DEF WalkInv, WholeFramesCounted, LastEnd
<1>5. CASE EndWalk
  <2>1. ~Piece(offset)
    <3> SUFFICES ASSUME Piece(offset) PROVE FALSE
      OBVIOUS
    <3>1. offset <= Len(file) /\ IsFrame(file[offset]) /\ ~FitsHere
      BY <1>1, <1>5 DEF Piece, EndWalk, Walking
    <3>2. offset + file[offset] \in DOMAIN expected
      BY <1>2, <3>1, PieceHere
    <3> QED
      BY <1>2, <3>1, <3>2 DEF FitsHere
  <2>2. LastEnd(offset)
    BY <1>2, <2>1
  <2>3. \A p \in DOMAIN expected : LastEnd(p) => p = offset
    BY <1>2, <2>2 DEF LastEnd
  <2> QED
    BY <1>1, <1>3, <1>5, <2>3 DEF WalkInv, WholeFramesCounted, EndWalk, LastEnd
<1> QED
  BY <1>4, <1>5

LEMMA Mp3Init_Inv == Mp3Init => FileInv /\ WalkInv
<1> SUFFICES ASSUME Mp3Init PROVE FileInv /\ WalkInv
  OBVIOUS
<1>1. DOMAIN expected = {1} /\ expected[1] = 0 /\ expected \in [DOMAIN expected -> Nat]
  BY DEF Mp3Init
<1>2. LastEnd(1) /\ file = <<>> /\ Len(file) = 0
  BY <1>1 DEF Mp3Init, LastEnd
<1> QED
  BY <1>1, <1>2 DEF Mp3Init, FileInv, WalkInv, WholeFramesCounted, NoHeader, Headers

LEMMA Mp3Keeps == FileInv /\ WalkInv /\ [Mp3Next]_mp3Vars => FileInv' /\ WalkInv'
<1> SUFFICES ASSUME FileInv, WalkInv, [Mp3Next]_mp3Vars PROVE FileInv' /\ WalkInv'
  OBVIOUS
<1>1. ASSUME NEW h \in Headers, ParseHeader(h)
      PROVE  FileInv' /\ WalkInv'
  BY <1>1 DEF FileInv, WalkInv, WholeFramesCounted, LastEnd, Piece, ParseHeader
<1>2. CASE UNCHANGED mp3Vars
  BY <1>2 DEF FileInv, WalkInv, WholeFramesCounted, LastEnd, Piece, mp3Vars
<1> QED
  BY <1>1, <1>2, AddKeeps, OpenKeeps, WalkKeeps DEF Mp3Next

\* Whatever frames, tags and stray bytes a file is made of, whatever is inside
\* them and however the last frame is cut off: the duration is that of its
\* whole frames.
THEOREM DurationIsWhole == Mp3Spec => []WholeFramesCounted
<1>1. WalkInv => WholeFramesCounted
  BY DEF WalkInv
<1> QED
  BY <1>1, Mp3Init_Inv, Mp3Keeps, PTL DEF Mp3Spec

-----------------------------------------------------------------------------
\* The sampling rates there are.
LEMMA HertzValues ==
  ASSUME NEW h \in Headers, Accepted(h)
  PROVE  Hertz(h) \in {44100, 48000, 32000, 22050, 24000, 16000, 11025, 12000, 8000}
<1>1. h.rateIndex \in {0, 1, 2}
  BY DEF Headers, Accepted
<1>2. <<44100, 48000, 32000>>[h.rateIndex + 1] \in {44100, 48000, 32000}
  BY <1>1
<1>3. 44100 \div 2 = 22050 /\ 48000 \div 2 = 24000 /\ 32000 \div 2 = 16000
      /\ 44100 \div 4 = 11025 /\ 48000 \div 4 = 12000 /\ 32000 \div 4 = 8000
  OBVIOUS
<1> QED
  BY <1>2, <1>3 DEF Hertz

LEMMA KbpsIsNat ==
  ASSUME NEW h \in Headers, Accepted(h)
  PROVE  Kbps(h) \in Nat
<1>1. h.bitrateIndex + 1 \in 2..15
  BY DEF Headers, Accepted
<1> QED
  BY <1>1 DEF Kbps

\* Bits are eight times the bytes, and slots of layer I are four bytes.
LEMMA SamplesFit ==
  ASSUME NEW k \in Nat, NEW r \in {44100, 48000, 32000, 22050, 24000, 16000, 11025, 12000, 8000}
  PROVE  /\ (12 * k * 1000) \div r = (384 * k * 1000) \div (8 * 4 * r)
         /\ (144 * k * 1000) \div r = (1152 * k * 1000) \div (8 * 1 * r)
         /\ (72 * k * 1000) \div r = (576 * k * 1000) \div (8 * 1 * r)
<1>1. CASE r = 44100
  BY <1>1
<1>2. CASE r = 48000
  BY <1>2
<1>3. CASE r = 32000
  BY <1>3
<1>4. CASE r = 22050
  BY <1>4
<1>5. CASE r = 24000
  BY <1>5
<1>6. CASE r = 16000
  BY <1>6
<1>7. CASE r = 11025
  BY <1>7
<1>8. CASE r = 12000
  BY <1>8
<1>9. CASE r = 8000
  BY <1>9
<1> QED
  BY <1>1, <1>2, <1>3, <1>4, <1>5, <1>6, <1>7, <1>8, <1>9

\* For every header that is accepted the size of the frame is what its samples
\* take at its bit rate.
THEOREM FramesHoldSamples == Mp3Spec => []FrameHoldsItsSamples
<1>1. FileInv => FrameHoldsItsSamples
  <2> SUFFICES ASSUME header \in Headers, Accepted(header) PROVE FrameHoldsItsSamples
    BY DEF FileInv, FrameHoldsItsSamples
  <2> DEFINE k == Kbps(header)
             r == Hertz(header)
             pad == header.padding
  <2>1. /\ (12 * k * 1000) \div r = (384 * k * 1000) \div (8 * 4 * r)
        /\ (144 * k * 1000) \div r = (1152 * k * 1000) \div (8 * 1 * r)
        /\ (72 * k * 1000) \div r = (576 * k * 1000) \div (8 * 1 * r)
    BY HertzValues, KbpsIsNat, SamplesFit
  <2>2. pad \in Nat /\ k \in Nat /\ r \in Nat /\ r > 0
    BY HertzValues, KbpsIsNat DEF Headers
  <2> HIDE DEF k, r, pad
  <2>3. CASE Layer(header) = 1
    BY <2>1, <2>2, <2>3 DEF FrameHoldsItsSamples, FrameBytes, Samples, k, r, pad
  <2>4. CASE Layer(header) # 1 /\ Halved(header)
    BY <2>1, <2>2, <2>4 DEF FrameHoldsItsSamples, FrameBytes, Samples, k, r, pad
  <2>5. CASE Layer(header) # 1 /\ ~Halved(header)
    BY <2>1, <2>2, <2>5 DEF FrameHoldsItsSamples, FrameBytes, Samples, k, r, pad
  <2> QED
    BY <2>3, <2>4, <2>5
<1> QED
  BY <1>1, Mp3Init_Inv, Mp3Keeps, PTL DEF Mp3Spec
=============================================================================
