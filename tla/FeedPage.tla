------------------------------- MODULE FeedPage -------------------------------
(***************************************************************************)
(* Reading the inbox: the tab of info.html that scrolls through the blogs  *)
(* of followed authors, and BlogServiceImpl.queryBlogOfFollow, which       *)
(* answers two blogs at a time from a cursor the page hands back: the      *)
(* score of the last blog and how many blogs of that score were seen.      *)
(***************************************************************************)
EXTENDS Follows, SequencesExt

CONSTANTS
    Viewer,      \* the user whose page it is
    Rank,        \* [Blogs -> Int]: Redis orders members of one score by their bytes
    Queries,     \* requests of the page; each is sent at most once
    ClientLag    \* how far the browser's clock may be behind the foremost replica

PageSize == 2

ASSUME ViewerType == Viewer \in Users
ASSUME RankType ==
    /\ Rank \in [Blogs -> Int]
    /\ \A a, b \in Blogs : Rank[a] = Rank[b] => a = b
ASSUME ClientLagType == ClientLag \in Nat

VARIABLES
    shown,       \* blogs2, the list of the page
    cursor,      \* params: minTime and offset
    reachBottom, \* isReachBottom
    query,       \* [Queries -> request and answer]
    alone,       \* history: queries that met no other one, nor a change at their cursor
    calm,        \* history: shown is built of such answers, from a first page on
    base         \* history: the inbox when that first page was read

pageVars == <<shown, cursor, reachBottom, query, alone, calm, base>>

Start == [minTime |-> 0, offset |-> 0]
Idle == [step |-> "idle", clear |-> FALSE, from |-> Start, ids |-> <<>>, next |-> Start]
Past == [Idle EXCEPT !.step = "past"]

Cursors == [minTime : 0..(MaxTime + 1), offset : Nat]

QueryRecords == [step : {"idle", "sent", "answered", "past"}, clear : BOOLEAN,
                 from : Cursors, ids : Seq(Blogs), next : Cursors]

FeedPageTypeOK ==
    /\ shown \in Seq(Blogs)
    /\ cursor \in Cursors
    /\ reachBottom \in BOOLEAN
    /\ query \in [Queries -> QueryRecords]
    /\ alone \subseteq Queries
    /\ calm \in BOOLEAN
    /\ base \subseteq Blogs

FeedPageInit ==
    /\ shown = <<>>
    /\ cursor = Start
    /\ reachBottom = FALSE
    /\ query = [q \in Queries |-> Idle]
    /\ alone = {}
    /\ calm = FALSE
    /\ base = {}

-----------------------------------------------------------------------------
(* The server: queryBlogOfFollow.                                           *)

Score(b) == feed[Viewer][b]
Inbox == {b \in Blogs : Score(b) > 0}

\* The order of ZREVRANGEBYSCORE: by score, then by member, both downwards.
Before(a, b) == Score(a) > Score(b) \/ (Score(a) = Score(b) /\ Rank[a] > Rank[b])

Sorted(S) ==
    [i \in 1..Cardinality(S) |->
        CHOOSE b \in S : Cardinality({a \in S : Before(a, b)}) = i - 1]

\* Mutant: the cursor's own score is excluded.
PageBelow(from) ==
    LET found == Sorted({b \in Inbox : Score(b) < from.minTime})
        upTo == from.offset + PageSize
    IN  SubSeq(found, from.offset + 1, IF Len(found) < upTo THEN Len(found) ELSE upTo)

\* ZREVRANGEBYSCORE key max 0 LIMIT offset 2.
Page(from) ==
    LET found == Sorted({b \in Inbox : Score(b) <= from.minTime})
        upTo == from.offset + PageSize
    IN  SubSeq(found, from.offset + 1, IF Len(found) < upTo THEN Len(found) ELSE upTo)

\* Mutant: the offset of the pages before is forgotten.
CursorForgets(ids, from) ==
    LET minTime == Score(Last(ids))
        os == Cardinality({i \in DOMAIN ids : Score(ids[i]) = minTime})
    IN  [minTime |-> minTime, offset |-> os]

\* Mutant: the offset counts every blog of the page.
CursorCountsPage(ids, from) ==
    LET minTime == Score(Last(ids))
        os == Len(ids)
    IN  [minTime |-> minTime, offset |-> IF minTime = from.minTime THEN os + from.offset ELSE os]

\* The score of the page's last blog, and how many blogs of that score were seen: on
\* this page, and on the pages before when they ended with the same score.
NextCursor(ids, from) ==
    LET minTime == Score(Last(ids))
        os == Cardinality({i \in DOMAIN ids : Score(ids[i]) = minTime})
    IN  [minTime |-> minTime, offset |-> IF minTime = from.minTime THEN os + from.offset ELSE os]

\* An empty page is answered without data.
QueryBlogOfFollow(q) ==
    LET ids == Page(query[q].from) IN
    /\ query[q].step = "sent"
    /\ query' = [query EXCEPT ![q].step = "answered", ![q].ids = ids,
                              ![q].next = IF ids = <<>> THEN Start
                                          ELSE NextCursor(ids, query[q].from)]
    /\ base' = IF query[q].clear
               THEN {b \in Inbox : Score(b) <= query[q].from.minTime} ELSE base
    /\ UNCHANGED <<shown, cursor, reachBottom, alone, calm, followVars, faults>>

-----------------------------------------------------------------------------
(* The page: queryBlogsOfFollow and onScroll of info.html.                  *)

UnderWay == {q \in Queries : query[q].step \in {"sent", "answered"}}

Send(q, clear, from) ==
    /\ query[q].step = "idle"
    /\ query' = [query EXCEPT ![q].step = "sent", ![q].clear = clear, ![q].from = from]
    /\ alone' = IF UnderWay = {} THEN alone \cup {q} ELSE alone \ UnderWay
    /\ calm' = (calm /\ ~clear /\ UnderWay = {})

\* Mutant: the millisecond is added twice.
QueryFirstAhead(q) ==
    /\ \E time \in Times \cap (now - ClientLag)..now :
          /\ cursor' = [minTime |-> time + 2, offset |-> 0]
          /\ Send(q, TRUE, cursor')
    /\ UNCHANGED <<shown, reachBottom, base, followVars, faults>>

\* The tab is opened, or a scroll event finds the list at its top: start afresh from
\* a millisecond after now, by the clock of the browser.
QueryFirst(q) ==
    /\ \E time \in Times \cap (now - ClientLag)..now :
          /\ cursor' = [minTime |-> time + 1, offset |-> 0]
          /\ Send(q, TRUE, cursor')
    /\ UNCHANGED <<shown, reachBottom, base, followVars, faults>>

\* A scroll event finds the list at its bottom, and the one before did not.
QueryNext(q) ==
    /\ shown # <<>>
    /\ ~reachBottom
    /\ reachBottom' = TRUE
    /\ Send(q, FALSE, cursor)
    /\ UNCHANGED <<shown, cursor, base, followVars, faults>>

\* Any other scroll event, at the bottom again included.
ScrollOn ==
    /\ shown # <<>>
    /\ reachBottom
    /\ reachBottom' = FALSE
    /\ UNCHANGED <<shown, cursor, query, alone, calm, base, followVars, faults>>

\* Answers are applied in the order they arrive.
ApplyAnswer(q) ==
    /\ query[q].step = "answered"
    /\ query' = [query EXCEPT ![q] = Past]
    /\ IF query[q].ids = <<>>
       THEN UNCHANGED <<shown, cursor, calm>>
       ELSE /\ shown' = IF query[q].clear THEN query[q].ids ELSE shown \o query[q].ids
            /\ cursor' = query[q].next
            /\ calm' = (q \in alone /\ (query[q].clear \/ calm))
    /\ UNCHANGED <<reachBottom, alone, base, followVars, faults>>

\* The request or its answer is lost, or the server fails: the page only logs it.
QueryFails(q) ==
    /\ Fault
    /\ q \in UnderWay
    /\ query' = [query EXCEPT ![q] = Past]
    /\ UNCHANGED <<shown, cursor, reachBottom, alone, calm, base, followVars>>

\* What a push does to a list that ends with the blog last: a blog already there is
\* moved, or a new one with the score of last gets in above it.
Disturbs(last) ==
    \E b \in Blogs :
       /\ feed'[Viewer][b] # Score(b)
       /\ b \in Inbox \/ (feed'[Viewer][b] = Score(last) /\ Rank[b] > Rank[last])

\* The inbox is filled while the page is read.
Meanwhile ==
    /\ FollowsNext
    /\ calm' = (calm /\ ~Disturbs(Last(shown)))
    /\ alone' = {q \in alone : query[q].ids # <<>> => ~Disturbs(Last(query[q].ids))}
    /\ UNCHANGED <<shown, cursor, reachBottom, query, base>>

FeedPageNext ==
    \/ \E q \in Queries :
          \/ QueryFirst(q) \/ QueryNext(q) \/ QueryBlogOfFollow(q) \/ ApplyAnswer(q)
          \/ QueryFails(q)
    \/ ScrollOn
    \/ Meanwhile

-----------------------------------------------------------------------------
(* Properties.                                                              *)

\* A scroll whose requests met no other request and no change at their cursor shows
\* the blogs in the order of the inbox, each once, across blogs of one millisecond.
ScrollInOrder ==
    calm => \A i, j \in DOMAIN shown : i < j => Before(shown[i], shown[j])

\* Such a scroll leaves out no blog that was in the inbox when it began, those newer
\* than the browser's clock excepted.
NothingSkipped ==
    calm => \A b \in base : Before(b, Last(shown)) => b \in Range(shown)

\* An empty page means that such a scroll has shown everything it began with.
EmptyPageIsTheEnd ==
    \A q \in alone :
       (calm /\ query[q].step = "answered" /\ ~query[q].clear /\ query[q].ids = <<>>)
          => base \subseteq Range(shown)

-----------------------------------------------------------------------------
(* The inductive invariant behind them (CommunityProofs).                   *)

\* A list that shows the inbox in its order, from its beginning on.
Scrolled(list) ==
    /\ list # <<>>
    /\ Range(list) \subseteq Inbox
    /\ \A i, j \in DOMAIN list : i < j => Before(list[i], list[j])
    /\ \A b \in base : Before(b, Last(list)) => b \in Range(list)

\* The cursor that continues behind a blog: of the blogs with its score, this one and
\* those above it have been seen.
Seen(last) == {b \in Inbox : Score(b) = Score(last) /\ ~Before(last, b)}
Behind(last) == [minTime |-> Score(last), offset |-> Cardinality(Seen(last))]

\* What the page will show once the answer is applied.
ShownWith(q) == IF query[q].clear THEN query[q].ids ELSE shown \o query[q].ids

\* A calm list, and the answer that will continue it, end where the cursor says, however
\* the inbox was filled since the answer was computed.
ScrollInv ==
    /\ calm => Scrolled(shown) /\ cursor = Behind(Last(shown)) /\ base \subseteq Inbox
    /\ calm => \A q \in UnderWay : ~query[q].clear /\ query[q].from = cursor
    /\ \A q \in UnderWay : query[q].clear => query[q].from.offset = 0
    /\ \A q \in alone : query[q].step # "idle"
    /\ \A q \in alone \cap UnderWay : UnderWay = {q}
    /\ \A q \in alone :
          query[q].step = "answered" /\ query[q].ids # <<>> /\ (query[q].clear \/ calm) =>
             /\ Scrolled(ShownWith(q))
             /\ query[q].next = Behind(Last(query[q].ids))
             /\ base \subseteq Inbox
    /\ EmptyPageIsTheEnd
=============================================================================
