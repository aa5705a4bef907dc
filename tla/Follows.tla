------------------------------- MODULE Follows -------------------------------
(***************************************************************************)
(* Following one author: the button of blog-detail.html, the call behind   *)
(* it (FollowServiceImpl.follow), and saveBlog, which pushes each new blog *)
(* of the author into the inboxes of the followers.  tb_follow has no      *)
(* unique key on its two users, so a follow may be there twice.            *)
(***************************************************************************)
EXTENDS Requests

CONSTANTS
    Tabs,        \* open pages with a follow button for the author
    OwnerOf,     \* [Tabs -> Users]: who is logged in there
    TabOf,       \* [Calls -> Tabs]: where a call is clicked
    Blogs,       \* blogs of the author
    InitFeeds,   \* the inboxes to start from: when their blogs were pushed
    InitTime,
    MaxTime,     \* bound on the clock
    MaxSkew      \* how far a replica's clock may be behind the foremost

Times == 1..MaxTime

ASSUME TabsType ==
    /\ OwnerOf \in [Tabs -> Users]
    /\ TabOf \in [Calls -> Tabs]
    /\ \A c \in Calls : OwnerOf[TabOf[c]] = CallerOf[c]
ASSUME BlogsFinite == IsFiniteSet(Blogs)
ASSUME TimesType == MaxTime \in Nat /\ MaxSkew \in Nat /\ InitTime \in Times
ASSUME InitFeedsType == InitFeeds \subseteq [Users -> [Blogs -> 0..InitTime]]

VARIABLES
    now,         \* System.currentTimeMillis() of the foremost replica
    rows,        \* [Users -> number of their rows for the author in tb_follow]
    follows,     \* users whose set follows:<user> holds the author
    followed,    \* [Tabs -> BOOLEAN]: what the button knows
    followPc,    \* [Calls -> step of follow]
    blogPc,      \* [Blogs -> step of saveBlog]
    todo,        \* [Blogs -> [Users -> pushes left]]
    feed,        \* [Users -> [Blogs -> score in feed:<user>, 0 if not there]]
    disturbed,   \* history: users with overlapping or failed calls
    steady       \* history: [Blogs -> followers since before it was saved]

callVars == <<rows, follows, followed, followPc, disturbed>>
blogVars == <<blogPc, todo, feed>>
followVars == <<now, callVars, blogVars, steady>>

FollowSteps == {"idle", "insert", "sadd", "delete", "srem", "reply", "done"}
BlogSteps == {"none", "saved", "pushing", "done", "crashed"}

FollowsTypeOK ==
    /\ now \in Times
    /\ rows \in [Users -> Nat]
    /\ follows \subseteq Users
    /\ followed \in [Tabs -> BOOLEAN]
    /\ followPc \in [Calls -> FollowSteps]
    /\ blogPc \in [Blogs -> BlogSteps]
    /\ todo \in [Blogs -> [Users -> Nat]]
    /\ feed \in [Users -> [Blogs -> Times \cup {0}]]
    /\ disturbed \subseteq Users
    /\ steady \in [Blogs -> SUBSET Users]

\* Pages just loaded, no call under way.  Users with two rows have double-clicked
\* before.
FollowsInit ==
    /\ now = InitTime
    /\ rows \in [Users -> 0..2]
    /\ follows = {u \in Users : rows[u] > 0}
    /\ followed = [t \in Tabs |-> rows[OwnerOf[t]] > 0]
    /\ followPc = [c \in Calls |-> "idle"]
    /\ feed \in InitFeeds
    /\ blogPc = [b \in Blogs |-> IF \E u \in Users : feed[u][b] > 0 THEN "done" ELSE "none"]
    /\ todo = [b \in Blogs |-> [u \in Users |-> 0]]
    /\ disturbed = {u \in Users : rows[u] = 2}
    /\ steady = [b \in Blogs |-> {}]

-----------------------------------------------------------------------------
(* The button and FollowServiceImpl.follow.                                 *)

Following == {c \in Calls : followPc[c] \notin {"idle", "done"}}
FollowGoto(c, step) == followPc' = [followPc EXCEPT ![c] = step]

\* A click asks for the opposite of what the button shows at that moment; nothing
\* keeps the user from clicking again before the answer is there.
ClickFollow(c) ==
    LET t == TabOf[c] IN
    /\ followPc[c] = "idle"
    /\ FollowGoto(c, IF followed[t] THEN "delete" ELSE "insert")
    /\ disturbed' = IF \E d \in Following : CallerOf[d] = CallerOf[c]
                    THEN disturbed \cup {CallerOf[c]} ELSE disturbed
    /\ UNCHANGED <<now, rows, follows, followed, blogVars, steady, faults>>

InsertFollow(c) ==
    /\ followPc[c] = "insert"
    /\ rows' = [rows EXCEPT ![CallerOf[c]] = @ + 1]
    /\ FollowGoto(c, "sadd")
    /\ UNCHANGED <<now, follows, followed, disturbed, blogVars, steady, faults>>

AddToSet(c) ==
    /\ followPc[c] = "sadd"
    /\ follows' = follows \cup {CallerOf[c]}
    /\ FollowGoto(c, "reply")
    /\ UNCHANGED <<now, rows, followed, disturbed, blogVars, steady, faults>>

\* Mutant: the two columns of the condition are swapped.
DeleteSwapped(c) ==
    /\ followPc[c] = "delete"
    /\ FollowGoto(c, "reply")
    /\ UNCHANGED <<now, rows, follows, followed, disturbed, blogVars, steady, faults>>

\* remove deletes every row of the pair, and tells whether there was one.
DeleteFollow(c) ==
    LET u == CallerOf[c] IN
    /\ followPc[c] = "delete"
    /\ rows' = [rows EXCEPT ![u] = 0]
    /\ FollowGoto(c, IF rows[u] > 0 THEN "srem" ELSE "reply")
    /\ steady' = [b \in Blogs |-> IF blogPc[b] = "saved" THEN steady[b] \ {u} ELSE steady[b]]
    /\ UNCHANGED <<now, follows, followed, disturbed, blogVars, faults>>

\* Mutant: the set keeps the author.
KeepInSet(c) ==
    /\ followPc[c] = "srem"
    /\ FollowGoto(c, "reply")
    /\ UNCHANGED <<now, rows, follows, followed, disturbed, blogVars, steady, faults>>

RemoveFromSet(c) ==
    /\ followPc[c] = "srem"
    /\ follows' = follows \ {CallerOf[c]}
    /\ FollowGoto(c, "reply")
    /\ UNCHANGED <<now, rows, followed, disturbed, blogVars, steady, faults>>

\* The page turns the button over, whatever it shows by now.
FollowReply(c) ==
    /\ followPc[c] = "reply"
    /\ followed' = [followed EXCEPT ![TabOf[c]] = ~@]
    /\ FollowGoto(c, "done")
    /\ UNCHANGED <<now, rows, follows, disturbed, blogVars, steady, faults>>

\* MySQL or Redis throws, the process dies, or the answer is lost: the page shows
\* an error and leaves the button.
FollowFails(c) ==
    /\ Fault
    /\ c \in Following
    /\ FollowGoto(c, "done")
    /\ disturbed' = disturbed \cup {CallerOf[c]}
    /\ UNCHANGED <<now, rows, follows, followed, blogVars, steady>>

-----------------------------------------------------------------------------
(* BlogServiceImpl.saveBlog.                                                *)

Tick ==
    /\ now < MaxTime
    /\ now' = now + 1
    /\ UNCHANGED <<callVars, blogVars, steady, faults>>

SaveBlog(b) ==
    /\ blogPc[b] = "none"
    /\ blogPc' = [blogPc EXCEPT ![b] = "saved"]
    /\ steady' = [steady EXCEPT ![b] = {u \in Users : rows[u] > 0}]
    /\ UNCHANGED <<now, callVars, todo, feed, faults>>

AllPushed(left) == \A u \in Users : left[u] = 0

\* One push for each row: a user with two rows is pushed to twice.
QueryFollowers(b) ==
    /\ blogPc[b] = "saved"
    /\ todo' = [todo EXCEPT ![b] = rows]
    /\ blogPc' = [blogPc EXCEPT ![b] = IF AllPushed(rows) THEN "done" ELSE "pushing"]
    /\ UNCHANGED <<now, callVars, feed, steady, faults>>

\* Mutant: the loop returns after the first follower.
PushToOne(b, u) ==
    /\ blogPc[b] = "pushing"
    /\ todo[b][u] > 0
    /\ \E time \in Times \cap (now - MaxSkew)..now : feed' = [feed EXCEPT ![u][b] = time]
    /\ todo' = [todo EXCEPT ![b] = [v \in Users |-> 0]]
    /\ blogPc' = [blogPc EXCEPT ![b] = "done"]
    /\ UNCHANGED <<now, callVars, steady, faults>>

\* ZADD with the time of the push; of a blog already there it moves the score.
PushBlog(b, u) ==
    /\ blogPc[b] = "pushing"
    /\ todo[b][u] > 0
    /\ \E time \in Times \cap (now - MaxSkew)..now : feed' = [feed EXCEPT ![u][b] = time]
    /\ LET left == [todo[b] EXCEPT ![u] = @ - 1]
       IN  /\ todo' = [todo EXCEPT ![b] = left]
           /\ blogPc' = [blogPc EXCEPT ![b] = IF AllPushed(left) THEN "done" ELSE @]
    /\ UNCHANGED <<now, callVars, steady, faults>>

\* An exception or a crash in or before the loop: the blog is saved, the pushes
\* that are left are not made up for.
SaveBlogFails(b) ==
    /\ Fault
    /\ blogPc[b] \in {"saved", "pushing"}
    /\ blogPc' = [blogPc EXCEPT ![b] = "crashed"]
    /\ todo' = [todo EXCEPT ![b] = [u \in Users |-> 0]]
    /\ UNCHANGED <<now, callVars, feed, steady>>

FollowsNext ==
    \/ \E c \in Calls :
          \/ ClickFollow(c) \/ InsertFollow(c) \/ AddToSet(c) \/ DeleteFollow(c)
          \/ RemoveFromSet(c) \/ FollowReply(c) \/ FollowFails(c)
    \/ Tick
    \/ \E b \in Blogs :
          \/ SaveBlog(b) \/ QueryFollowers(b) \/ SaveBlogFails(b)
          \/ \E u \in Users : PushBlog(b, u)

-----------------------------------------------------------------------------
(* Properties.                                                              *)

\* The set in Redis, which common follows are computed from, agrees with tb_follow,
\* which feeds are filled from, for every user whose calls neither overlapped nor
\* failed, in however many tabs they were clicked.
FollowsAgree ==
    \A u \in Users \ disturbed :
       (\A c \in Following : CallerOf[c] = u => followPc[c] \notin {"sadd", "srem"}) =>
          (u \in follows <=> rows[u] > 0)

OnlyTab(t) == \A s \in Tabs : OwnerOf[s] = OwnerOf[t] => s = t

\* A user with one tab, and calls that neither overlapped nor failed, sees on the
\* button what the table says, and is in the table at most once.
ButtonTellsTheTruth ==
    \A t \in Tabs :
       LET u == OwnerOf[t] IN
       /\ u \notin disturbed /\ OnlyTab(t)
       /\ \A c \in Following : CallerOf[c] # u
       => rows[u] = IF followed[t] THEN 1 ELSE 0

\* When saveBlog has returned ok, the blog is in the inbox of everyone who followed
\* the author before it was saved and did not stop before the followers were read.
FollowersGetTheBlog ==
    \A b \in Blogs : blogPc[b] = "done" => \A u \in steady[b] : feed[u][b] > 0

-----------------------------------------------------------------------------
(* The inductive invariants behind them (CommunityProofs).                  *)

\* The calls of an undisturbed user come one after the other, and between the two
\* updates of a call the table is ahead of the set.
FollowAlone ==
    \A c \in Following :
       LET u == CallerOf[c] IN
       u \notin disturbed =>
          /\ \A d \in Following : CallerOf[d] = u => d = c
          /\ followPc[c] = "sadd" => rows[u] > 0
          /\ followPc[c] = "srem" => rows[u] = 0

\* The user's only tab, and the call clicked there, know how far the table has come.
CallKnows(c, u, flag) ==
    /\ followPc[c] = "insert" => rows[u] = 0 /\ ~flag
    /\ followPc[c] = "sadd"   => rows[u] = 1 /\ ~flag
    /\ followPc[c] = "delete" => rows[u] = 1 /\ flag
    /\ followPc[c] = "srem"   => rows[u] = 0 /\ flag
    /\ followPc[c] = "reply"  => rows[u] = IF flag THEN 0 ELSE 1

ButtonInv ==
    \A t \in Tabs :
       LET u == OwnerOf[t] IN
       u \notin disturbed /\ OnlyTab(t) =>
          /\ \A c \in Following : CallerOf[c] = u => CallKnows(c, u, followed[t])
          /\ (\A c \in Following : CallerOf[c] # u) => rows[u] = IF followed[t] THEN 1 ELSE 0

\* A blog that is being pushed goes to every steady follower it has not reached.
PushInv ==
    \A b \in Blogs : \A u \in steady[b] :
       /\ blogPc[b] = "saved" => rows[u] > 0
       /\ blogPc[b] = "pushing" => todo[b][u] > 0 \/ feed[u][b] > 0
=============================================================================
