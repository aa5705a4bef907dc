-------------------------- MODULE CommunityProofs --------------------------
(***************************************************************************)
(* What holds of likes, follows and the feed for any number of users,      *)
(* tabs, calls, blogs, queries and faults.                                 *)
(*                                                                         *)
(*   LikesInv                   is inductive => LikesDrift, and with an    *)
(*                              injection of calls into likers             *)
(*                              => LikeCanBeTakenBack                      *)
(*   FollowsTypeOK, FollowAlone, FollowsAgree   are inductive together     *)
(*   with them, ButtonInv       is inductive => ButtonTellsTheTruth        *)
(*   with FollowsTypeOK, PushInv and FollowersGetTheBlog are inductive     *)
(*   with the types, ScrollInv  is inductive => ScrollInOrder,             *)
(*                              NothingSkipped and EmptyPageIsTheEnd; it   *)
(*                              rests on what Sorted(S) is: S without      *)
(*                              repetition, in the order Before            *)
(***************************************************************************)
EXTENDS Community, FiniteSetTheorems, SequenceTheorems, WellFoundedInduction, TLAPS

\* A step that is not one of the likes leaves them alone, and so with the follows.
LEMMA StepsApart ==
    ASSUME [Next]_vars
    PROVE  /\ LikesNext \/ UNCHANGED likeVars
           /\ FollowsNext \/ UNCHANGED followVars
BY DEF vars, Next, FeedPageNext, QueryFirst, QueryNext, QueryBlogOfFollow, ApplyAnswer,
       QueryFails, ScrollOn, Meanwhile

-----------------------------------------------------------------------------
(* Likes.                                                                   *)

LEMMA LikeSetsFinite ==
    ASSUME LikesTypeOK
    PROVE  /\ IsFiniteSet(likers) /\ Cardinality(likers) \in Nat
           /\ IsFiniteSet(At("add")) /\ Cardinality(At("add")) \in Nat
           /\ IsFiniteSet(At("rem")) /\ Cardinality(At("rem")) \in Nat
           /\ IsFiniteSet(Finished) /\ Cardinality(Finished) \in Nat
<1>1. /\ likers \in SUBSET Users /\ At("add") \in SUBSET Calls
      /\ At("rem") \in SUBSET Calls /\ Finished \in SUBSET Calls
  BY DEF LikesTypeOK, At, Finished
<1>2. /\ IsFiniteSet(likers) /\ IsFiniteSet(At("add"))
      /\ IsFiniteSet(At("rem")) /\ IsFiniteSet(Finished)
  BY <1>1, UsersFinite, CallsFinite, FS_Subset
<1> QED
  BY <1>2, FS_CardinalityType

LEMMA LikesInitInv == ASSUME Init PROVE LikesInv
<1>1. LikesTypeOK
  <2>1. likers \in SUBSET Users
    BY DEF Init, LikesInit
  <2>2. Cardinality(likers) \in Nat
    BY <2>1, UsersFinite, FS_Subset, FS_CardinalityType
  <2> QED
    BY <2>1, <2>2 DEF Init, LikesInit, LikesTypeOK, LikeSteps
<1>2. Liking = {} /\ At("add") = {} /\ At("rem") = {} /\ Finished = {}
  BY DEF Init, LikesInit, Liking, At, Finished
<1>3. LikeAlone
  BY <1>2 DEF LikeAlone
<1>4. LikesDrift
  BY <1>1, <1>2, FS_EmptySet DEF Init, LikesInit, LikesTypeOK, LikesDrift, Drift
<1> QED
  BY <1>1, <1>3, <1>4 DEF LikesInv

\* Each step of likeBlog keeps the types and the user's entry of a regular call its own.
LEMMA LikeAloneStep ==
    ASSUME LikesInv, LikesNext
    PROVE  LikesTypeOK' /\ LikeAlone'
<1> USE CallerOfType DEF LikesInv, LikesTypeOK, LikeSteps, LikeAlone, Liking
<1>1. ASSUME NEW c \in Calls, LikeBlog(c) PROVE LikesTypeOK' /\ LikeAlone'
  <2> DEFINE rivals == {d \in Liking : CallerOf[d] = CallerOf[c]}
  <2>1. /\ likePc[c] = "idle"
        /\ likePc' = [likePc EXCEPT ![c] = IF CallerOf[c] \in likers THEN "dec" ELSE "inc"]
        /\ irregular' = IF rivals = {} THEN irregular ELSE irregular \cup rivals \cup {c}
        /\ UNCHANGED <<liked, likers>>
    BY <1>1 DEF LikeBlog
  <2>2. LikesTypeOK'
    BY <2>1
  <2>3. ASSUME NEW d \in Liking' \ irregular'
        PROVE  /\ \A e \in Liking' : CallerOf[e] = CallerOf[d] => e = d
               /\ likePc'[d] \in {"inc", "add"} <=> CallerOf[d] \notin likers'
    <3>1. CASE d = c
      BY <2>1, <2>3, <3>1
    <3>2. CASE d # c
      <4>1. d \in Liking \ irregular /\ CallerOf[d] # CallerOf[c]
        BY <2>1, <2>3, <3>2
      <4> QED
        BY <2>1, <4>1, <3>2
    <3> QED
      BY <3>1, <3>2
  <2> QED
    BY <2>2, <2>3
<1>2. ASSUME NEW c \in Calls, IncLiked(c) PROVE LikesTypeOK' /\ LikeAlone'
  BY <1>2 DEF IncLiked
<1>3. ASSUME NEW c \in Calls, AddLiker(c) PROVE LikesTypeOK' /\ LikeAlone'
  BY <1>3 DEF AddLiker
<1>4. ASSUME NEW c \in Calls, DecLiked(c) PROVE LikesTypeOK' /\ LikeAlone'
  BY <1>4 DEF DecLiked
<1>5. ASSUME NEW c \in Calls, RemoveLiker(c) PROVE LikesTypeOK' /\ LikeAlone'
  BY <1>5 DEF RemoveLiker
<1>6. ASSUME NEW c \in Calls, LikeFails(c) PROVE LikesTypeOK' /\ LikeAlone'
  BY <1>6 DEF LikeFails
<1> QED
  BY <1>1, <1>2, <1>3, <1>4, <1>5, <1>6 DEF LikesNext

\* Each step of likeBlog keeps the count as close to the set as the irregular calls allow.
LEMMA DriftStep ==
    ASSUME LikesInv, LikesNext
    PROVE  LikesDrift'
<1> DEFINE A == At("add")
           R == At("rem")
<1>0. LikesTypeOK /\ LikesTypeOK' /\ LikeAlone /\ LikesDrift
  BY LikeAloneStep DEF LikesInv
<1>fin. /\ IsFiniteSet(likers) /\ IsFiniteSet(A) /\ IsFiniteSet(R) /\ IsFiniteSet(Finished)
        /\ Cardinality(likers) \in Nat /\ Cardinality(A) \in Nat
        /\ Cardinality(R) \in Nat /\ Cardinality(Finished) \in Nat
  BY <1>0, LikeSetsFinite
<1>int. liked \in Nat /\ liked' \in Nat
  BY <1>0 DEF LikesTypeOK
<1>1. ASSUME NEW c \in Calls, LikeBlog(c) PROVE LikesDrift'
  <2>1. A' = A /\ R' = R /\ Finished' = Finished
    BY <1>0, <1>1 DEF LikeBlog, LikesTypeOK, At, Finished, Liking
  <2> QED
    BY <1>0, <1>1, <2>1 DEF LikeBlog, LikesDrift, Drift
<1>2. ASSUME NEW c \in Calls, IncLiked(c) PROVE LikesDrift'
  <2>1. A' = A \cup {c} /\ c \notin A /\ R' = R /\ Finished' = Finished
    BY <1>0, <1>2 DEF IncLiked, LikesTypeOK, At, Finished
  <2>2. Cardinality(A') = Cardinality(A) + 1
    BY <1>fin, <2>1, FS_AddElement
  <2> QED
    BY <1>0, <1>2, <1>fin, <1>int, <2>1, <2>2 DEF IncLiked, LikesDrift, Drift
<1>3. ASSUME NEW c \in Calls, AddLiker(c) PROVE LikesDrift'
  <2>1. /\ A' = A \ {c} /\ c \in A /\ R' = R /\ c \notin Finished
        /\ Finished' = IF c \in irregular THEN Finished \cup {c} ELSE Finished
        /\ likers' = likers \cup {CallerOf[c]}
    BY <1>0, <1>3 DEF AddLiker, LikesTypeOK, At, Finished
  <2>2. CallerOf[c] \in likers => c \in irregular
    BY <1>0, <1>3 DEF AddLiker, LikeAlone, Liking
  <2>3. /\ Cardinality(A') = Cardinality(A) - 1
        /\ Cardinality(likers') = IF CallerOf[c] \in likers THEN Cardinality(likers)
                                  ELSE Cardinality(likers) + 1
        /\ Cardinality(Finished') = IF c \in irregular THEN Cardinality(Finished) + 1
                                    ELSE Cardinality(Finished)
    BY <1>fin, <2>1, FS_AddElement, FS_RemoveElement
  <2> QED
    BY <1>0, <1>3, <1>fin, <1>int, <2>1, <2>2, <2>3 DEF AddLiker, LikesDrift, Drift
<1>4. ASSUME NEW c \in Calls, DecLiked(c) PROVE LikesDrift'
  <2>1. CASE likePc' = [likePc EXCEPT ![c] = "rem"] /\ liked' = liked - 1
    <3>1. R' = R \cup {c} /\ c \notin R /\ A' = A /\ Finished' = Finished
      BY <1>0, <1>4, <2>1 DEF DecLiked, LikesTypeOK, At, Finished
    <3>2. Cardinality(R') = Cardinality(R) + 1
      BY <1>fin, <3>1, FS_AddElement
    <3> QED
      BY <1>0, <1>4, <1>fin, <1>int, <2>1, <3>1, <3>2 DEF DecLiked, LikesDrift, Drift
  <2>2. CASE likePc' = [likePc EXCEPT ![c] = "done"] /\ liked' = liked
    <3>1. /\ R' = R /\ A' = A
          /\ Finished' = IF c \in irregular THEN Finished \cup {c} ELSE Finished
      BY <1>0, <1>4, <2>2 DEF DecLiked, LikesTypeOK, At, Finished
    <3>2. Cardinality(Finished') >= Cardinality(Finished) /\ Cardinality(Finished') \in Nat
      <4>1. Finished' \in {Finished, Finished \cup {c}}
        BY <3>1
      <4>2. Cardinality(Finished \cup {c}) \in {Cardinality(Finished), Cardinality(Finished) + 1}
        BY <1>fin, FS_AddElement
      <4>3. Cardinality(Finished') \in {Cardinality(Finished), Cardinality(Finished) + 1}
        BY <4>1, <4>2, Zenon
      <4> QED
        BY <1>fin, <4>3
    <3> QED
      BY <1>0, <1>4, <1>fin, <1>int, <2>2, <3>1, <3>2 DEF DecLiked, LikesDrift, Drift
  <2> QED
    BY <1>4, <2>1, <2>2 DEF DecLiked
<1>5. ASSUME NEW c \in Calls, RemoveLiker(c) PROVE LikesDrift'
  <2>1. /\ R' = R \ {c} /\ c \in R /\ A' = A /\ c \notin Finished
        /\ Finished' = IF c \in irregular THEN Finished \cup {c} ELSE Finished
        /\ likers' = likers \ {CallerOf[c]}
    BY <1>0, <1>5 DEF RemoveLiker, LikesTypeOK, At, Finished
  <2>2. CallerOf[c] \notin likers => c \in irregular
    BY <1>0, <1>5 DEF RemoveLiker, LikeAlone, Liking
  <2>3. /\ Cardinality(R') = Cardinality(R) - 1
        /\ Cardinality(likers') = IF CallerOf[c] \in likers THEN Cardinality(likers) - 1
                                  ELSE Cardinality(likers)
        /\ Cardinality(Finished') = IF c \in irregular THEN Cardinality(Finished) + 1
                                    ELSE Cardinality(Finished)
    BY <1>fin, <2>1, FS_AddElement, FS_RemoveElement
  <2> QED
    BY <1>0, <1>5, <1>fin, <1>int, <2>1, <2>2, <2>3 DEF RemoveLiker, LikesDrift, Drift
<1>6. ASSUME NEW c \in Calls, LikeFails(c) PROVE LikesDrift'
  <2>1. /\ A' = A \ {c} /\ R' = R \ {c} /\ c \notin A \cap R
        /\ Finished' = Finished \cup {c} /\ c \notin Finished
        /\ UNCHANGED <<liked, likers>>
    BY <1>0, <1>6 DEF LikeFails, LikesTypeOK, At, Finished, Liking
  <2>2. /\ Cardinality(A') = IF c \in A THEN Cardinality(A) - 1 ELSE Cardinality(A)
        /\ Cardinality(R') = IF c \in R THEN Cardinality(R) - 1 ELSE Cardinality(R)
        /\ Cardinality(Finished') = Cardinality(Finished) + 1
    BY <1>fin, <2>1, FS_AddElement, FS_RemoveElement
  <2> QED
    BY <1>0, <1>fin, <1>int, <2>1, <2>2 DEF LikesDrift, Drift
<1> QED
  BY <1>1, <1>2, <1>3, <1>4, <1>5, <1>6 DEF LikesNext

LEMMA LikesInvariant == Spec => []LikesInv
<1>1. LikesInv /\ [Next]_vars => LikesInv'
  <2>1. ASSUME LikesInv, UNCHANGED likeVars PROVE LikesInv'
    BY <2>1 DEF likeVars, LikesInv, LikesTypeOK, LikeAlone, LikesDrift, Liking, At, Finished, Drift
  <2> QED
    BY <2>1, StepsApart, LikeAloneStep, DriftStep DEF LikesInv
<1> QED
  BY <1>1, LikesInitInv, PTL DEF Spec

\* tb_blog.liked and the ZSet of likers differ by at most one for each call of likeBlog
\* that overlapped another one of its user or failed half-way.
THEOREM LikesStayClose == Spec => []LikesDrift
<1>1. LikesInv => LikesDrift
  BY DEF LikesInv
<1> QED
  BY <1>1, LikesInvariant, PTL

\* Before the first such call, the calls that take a like back have different likers, so
\* the count is above zero for each of them and the UNSIGNED column can be decremented.
THEOREM LikesComeBack == Spec => []LikeCanBeTakenBack
<1>1. ASSUME LikesInv, irregular = {}, NEW c \in At("dec") PROVE liked > 0
  <2> DEFINE R == At("rem")
             T == R \cup {c}
             f == [d \in T |-> CallerOf[d]]
  <2>1. LikesTypeOK /\ LikeAlone /\ LikesDrift
    BY <1>1 DEF LikesInv
  <2>2. T \subseteq Liking \ irregular /\ c \in Calls /\ c \notin R
    BY <1>1, <2>1 DEF LikesTypeOK, At, Liking
  <2>3. \A d \in T : CallerOf[d] \in likers
    BY <2>1, <2>2 DEF LikeAlone, At
  <2>4. \A d, e \in T : CallerOf[d] = CallerOf[e] => d = e
    BY <2>1, <2>2 DEF LikeAlone
  <2>5. f \in Injection(T, likers)
    BY <2>3, <2>4 DEF Injection, IsInjective
  <2>6. /\ IsFiniteSet(likers) /\ IsFiniteSet(R)
        /\ Cardinality(likers) \in Nat /\ Cardinality(At("add")) \in Nat
        /\ Cardinality(R) \in Nat /\ Finished = {}
    BY <1>1, <2>1, LikeSetsFinite DEF Finished
  <2>7. Cardinality(T) <= Cardinality(likers)
    BY <2>5, <2>6, FS_Injection
  <2>8. Cardinality(T) = Cardinality(R) + 1
    BY <2>2, <2>6, FS_AddElement
  <2>9. liked = Cardinality(likers) + Cardinality(At("add")) - Cardinality(R)
    <3>1. Cardinality(Finished) = 0
      BY <2>6, FS_EmptySet
    <3>2. Drift = 0 /\ liked \in Nat
      BY <2>1, <2>6, <3>1 DEF LikesDrift, Drift, LikesTypeOK
    <3> QED
      BY <2>6, <3>2 DEF Drift
  <2> QED
    BY <2>6, <2>7, <2>8, <2>9
<1>2. LikesInv => LikeCanBeTakenBack
  BY <1>1 DEF LikeCanBeTakenBack
<1> QED
  BY <1>2, LikesInvariant, PTL

-----------------------------------------------------------------------------
(* Follows.                                                                 *)

FollowsInv == FollowsTypeOK /\ FollowAlone /\ FollowsAgree

LEMMA FollowsInitInv == ASSUME Init PROVE FollowsInv
<1>1. Following = {}
  BY DEF Init, FollowsInit, Following
<1>2. FollowsTypeOK
  <2>1. feed \in [Users -> [Blogs -> Times \cup {0}]]
    <3>1. feed \in [Users -> [Blogs -> 0..InitTime]]
      BY InitFeedsType DEF Init, FollowsInit
    <3>2. 0..InitTime \subseteq Times \cup {0}
      BY TimesType DEF Times
    <3> QED
      BY <3>1, <3>2
  <2>2. rows \in [Users -> Nat]
    BY DEF Init, FollowsInit
  <2>3. followed \in [Tabs -> BOOLEAN]
    BY DEF Init, FollowsInit
  <2>4. now \in Times /\ follows \subseteq Users /\ disturbed \subseteq Users
    BY TimesType DEF Init, FollowsInit
  <2>5. /\ followPc \in [Calls -> FollowSteps]
        /\ blogPc \in [Blogs -> BlogSteps]
        /\ todo \in [Blogs -> [Users -> Nat]]
        /\ steady \in [Blogs -> SUBSET Users]
    BY DEF Init, FollowsInit, FollowSteps, BlogSteps
  <2> QED
    BY <2>1, <2>2, <2>3, <2>4, <2>5 DEF FollowsTypeOK
<1>3. FollowAlone
  BY <1>1 DEF FollowAlone
<1>4. FollowsAgree
  BY <1>1 DEF Init, FollowsInit, FollowsAgree
<1> QED
  BY <1>2, <1>3, <1>4 DEF FollowsInv

\* saveBlog and the clock leave the calls of follow alone.
LEMMA BlogStepsType ==
    ASSUME FollowsInv, callVars' = callVars,
           Tick \/ \E b \in Blogs : \/ SaveBlog(b) \/ QueryFollowers(b) \/ SaveBlogFails(b)
                                   \/ \E u \in Users : PushBlog(b, u)
    PROVE  FollowsInv'
<1>1. FollowAlone' /\ FollowsAgree'
  BY DEF FollowsInv, callVars, FollowAlone, FollowsAgree, Following
<1>2. FollowsTypeOK'
  <2> USE DEF FollowsInv, FollowsTypeOK, callVars, blogVars, BlogSteps
  <2>1. ASSUME Tick PROVE FollowsTypeOK'
    BY <2>1, TimesType DEF Tick, Times
  <2>2. ASSUME NEW b \in Blogs, SaveBlog(b) PROVE FollowsTypeOK'
    BY <2>2 DEF SaveBlog
  <2>3. ASSUME NEW b \in Blogs, QueryFollowers(b) PROVE FollowsTypeOK'
    BY <2>3 DEF QueryFollowers
  <2>4. ASSUME NEW b \in Blogs, SaveBlogFails(b) PROVE FollowsTypeOK'
    BY <2>4 DEF SaveBlogFails
  <2>5. ASSUME NEW b \in Blogs, NEW u \in Users, PushBlog(b, u) PROVE FollowsTypeOK'
    <3>1. PICK time \in Times : feed' = [feed EXCEPT ![u][b] = time]
      BY <2>5 DEF PushBlog
    <3>2. feed' \in [Users -> [Blogs -> Times \cup {0}]]
      BY <3>1
    <3>3. [todo[b] EXCEPT ![u] = @ - 1] \in [Users -> Nat]
      BY <2>5 DEF PushBlog
    <3> QED
      BY <2>5, <3>2, <3>3 DEF PushBlog
  <2> QED
    BY <2>1, <2>2, <2>3, <2>4, <2>5
<1> QED
  BY <1>1, <1>2 DEF FollowsInv

\* Each step of follow keeps the calls of undisturbed users apart, and table and set
\* together between their calls.
LEMMA FollowStep == ASSUME FollowsInv, FollowsNext PROVE FollowsInv'
<1> USE CallerOfType, TabsType
    DEF FollowsInv, FollowsTypeOK, FollowAlone, FollowsAgree, Following, FollowGoto,
        FollowSteps, blogVars
<1>1. ASSUME NEW c \in Calls, ClickFollow(c) PROVE FollowsInv'
  BY <1>1 DEF ClickFollow
<1>2. ASSUME NEW c \in Calls, InsertFollow(c) PROVE FollowsInv'
  BY <1>2 DEF InsertFollow
<1>3. ASSUME NEW c \in Calls, AddToSet(c) PROVE FollowsInv'
  BY <1>3 DEF AddToSet
<1>4. ASSUME NEW c \in Calls, DeleteFollow(c) PROVE FollowsInv'
  <2>1. /\ followPc[c] = "delete"
        /\ rows' = [rows EXCEPT ![CallerOf[c]] = 0]
        /\ followPc' = [followPc EXCEPT ![c] = IF rows[CallerOf[c]] > 0 THEN "srem" ELSE "reply"]
        /\ UNCHANGED <<now, follows, followed, disturbed, blogPc, todo, feed>>
        /\ steady' \in [Blogs -> SUBSET Users]
    BY <1>4 DEF DeleteFollow
  <2>2. FollowsTypeOK'
    BY <2>1
  <2>3. FollowAlone'
    BY <2>1
  <2>4. FollowsAgree'
    BY <2>1
  <2> QED
    BY <2>2, <2>3, <2>4
<1>5. ASSUME NEW c \in Calls, RemoveFromSet(c) PROVE FollowsInv'
  BY <1>5 DEF RemoveFromSet
<1>6. ASSUME NEW c \in Calls, FollowReply(c) PROVE FollowsInv'
  BY <1>6 DEF FollowReply
<1>7. ASSUME NEW c \in Calls, FollowFails(c) PROVE FollowsInv'
  BY <1>7 DEF FollowFails
<1>8. CASE Tick \/ \E b \in Blogs : \/ SaveBlog(b) \/ QueryFollowers(b) \/ SaveBlogFails(b)
                                     \/ \E u \in Users : PushBlog(b, u)
  <2>1. callVars' = callVars
    BY <1>8 DEF callVars, Tick, SaveBlog, QueryFollowers, SaveBlogFails, PushBlog
  <2> QED
    BY <1>8, <2>1, BlogStepsType
<1> QED
  BY <1>1, <1>2, <1>3, <1>4, <1>5, <1>6, <1>7, <1>8 DEF FollowsNext

LEMMA FollowsInvariant == Spec => []FollowsInv
<1>1. FollowsInv /\ [Next]_vars => FollowsInv'
  <2>1. ASSUME FollowsInv, UNCHANGED followVars PROVE FollowsInv'
    BY <2>1 DEF followVars, callVars, blogVars, FollowsInv, FollowsTypeOK, FollowAlone,
                FollowsAgree, Following
  <2> QED
    BY <2>1, StepsApart, FollowStep
<1> QED
  BY <1>1, FollowsInitInv, PTL DEF Spec

\* The set follows:<id> in Redis holds the author exactly if tb_follow does, for every
\* user whose calls of follow neither overlapped nor failed.
THEOREM FollowsStayTogether == Spec => []FollowsAgree
<1>1. FollowsInv => FollowsAgree
  BY DEF FollowsInv
<1> QED
  BY <1>1, FollowsInvariant, PTL

\* The calls of another user disturb neither the table's rows nor the button of this one.
LEMMA ButtonStep ==
    ASSUME FollowsInv, ButtonInv, FollowsNext,
           NEW t \in Tabs, OwnerOf[t] \notin disturbed', OnlyTab(t)
    PROVE  /\ \A d \in Following' : CallerOf[d] = OwnerOf[t] =>
                 CallKnows(d, OwnerOf[t], followed[t])'
           /\ (\A d \in Following' : CallerOf[d] # OwnerOf[t]) =>
                 rows'[OwnerOf[t]] = IF followed'[t] THEN 1 ELSE 0
<1> DEFINE u == OwnerOf[t]
           Mine == {d \in Calls : CallerOf[d] = u}
           Step(c) == \/ ClickFollow(c) \/ InsertFollow(c) \/ AddToSet(c) \/ DeleteFollow(c)
                      \/ RemoveFromSet(c) \/ FollowReply(c) \/ FollowFails(c)
<1> USE CallerOfType, TabsType DEF FollowsInv, FollowsTypeOK, Following, FollowGoto, CallKnows
<1>1. u \in Users /\ u \notin disturbed
  BY DEF FollowsNext, followVars, callVars, blogVars, ClickFollow, InsertFollow, AddToSet,
         DeleteFollow, RemoveFromSet, FollowReply, FollowFails, Tick, SaveBlog,
         QueryFollowers, SaveBlogFails, PushBlog
<1>2. /\ \A d \in Following : d \in Mine => CallKnows(d, u, followed[t])
      /\ Following \cap Mine = {} => rows[u] = IF followed[t] THEN 1 ELSE 0
      /\ \A c, d \in Following \cap Mine : c = d
  BY <1>1 DEF ButtonInv, FollowAlone
\* What is not done for this user leaves everything the goal speaks of as it is.
<1>3. ASSUME rows'[u] = rows[u], followed'[t] = followed[t],
             \A d \in Mine : followPc'[d] = followPc[d]
      PROVE  /\ \A d \in Following' : d \in Mine => CallKnows(d, u, followed[t])'
             /\ Following' \cap Mine = {} => rows'[u] = IF followed'[t] THEN 1 ELSE 0
  BY <1>2, <1>3
<1>4. ASSUME NEW c \in Calls, Step(c), c \notin Mine
      PROVE  rows'[u] = rows[u] /\ followed'[t] = followed[t]
             /\ \A d \in Mine : followPc'[d] = followPc[d]
  BY <1>4 DEF ClickFollow, InsertFollow, AddToSet, DeleteFollow, RemoveFromSet, FollowReply,
              FollowFails
<1>5. ASSUME NEW c \in Mine, Step(c)
      PROVE  /\ \A d \in Following' : d \in Mine => CallKnows(d, u, followed[t])'
             /\ Following' \cap Mine = {} => rows'[u] = IF followed'[t] THEN 1 ELSE 0
  <2>0. TabOf[c] = t /\ CallerOf[c] = u /\ c \in Calls
    BY DEF OnlyTab
  <2>1. CASE ClickFollow(c)
    BY <2>0, <2>1, <1>2 DEF ClickFollow
  <2>2. CASE InsertFollow(c)
    <3>1. rows[u] = 0 /\ ~followed[t] /\ \A d \in Mine : d # c => d \notin Following
      BY <2>0, <2>2, <1>2 DEF InsertFollow
    <3>2. rows'[u] = 1 /\ ~followed'[t] /\ followPc' = [followPc EXCEPT ![c] = "sadd"]
      BY <2>0, <2>2, <3>1, <1>1 DEF InsertFollow
    <3> QED
      BY <2>0, <3>1, <3>2
  <2>3. CASE AddToSet(c)
    BY <2>0, <2>3, <1>2 DEF AddToSet
  <2>4. CASE DeleteFollow(c)
    BY <2>0, <2>4, <1>2 DEF DeleteFollow
  <2>5. CASE RemoveFromSet(c)
    BY <2>0, <2>5, <1>2 DEF RemoveFromSet
  <2>6. CASE FollowReply(c)
    <3>1. /\ rows[u] = IF followed[t] THEN 0 ELSE 1
          /\ \A d \in Mine : d # c => d \notin Following
      BY <2>0, <2>6, <1>2 DEF FollowReply
    <3>2. /\ rows'[u] = rows[u] /\ followPc' = [followPc EXCEPT ![c] = "done"]
          /\ followed' = [followed EXCEPT ![t] = ~@]
      BY <2>0, <2>6 DEF FollowReply
    <3>3. followed'[t] = ~followed[t] /\ Following' \cap Mine = {}
      BY <3>1, <3>2
    <3>4. rows'[u] = IF followed'[t] THEN 1 ELSE 0
      BY <3>1, <3>2, <3>3
    <3> QED
      BY <3>3, <3>4
  <2>7. CASE FollowFails(c)
    BY <2>0, <2>7, <1>2 DEF FollowFails
  <2> QED
    BY <1>5, <2>1, <2>2, <2>3, <2>4, <2>5, <2>6, <2>7
<1>6. CASE Tick \/ \E b \in Blogs : \/ SaveBlog(b) \/ QueryFollowers(b) \/ SaveBlogFails(b)
                                     \/ \E v \in Users : PushBlog(b, v)
  <2>1. callVars' = callVars
    BY <1>6 DEF callVars, Tick, SaveBlog, QueryFollowers, SaveBlogFails, PushBlog
  <2> QED
    BY <2>1, <1>3 DEF callVars
<1> QED
  BY <1>3, <1>4, <1>5, <1>6 DEF FollowsNext

\* The only tab of a user whose calls neither overlapped nor failed shows what tb_follow
\* says, which holds the pair at most once.
THEOREM ButtonIsRight == Spec => []ButtonTellsTheTruth
<1>1. Init => ButtonInv
  <2> SUFFICES ASSUME Init PROVE ButtonInv
    OBVIOUS
  <2>1. Following = {}
    BY DEF Init, FollowsInit, Following
  <2>2. ASSUME NEW t \in Tabs, OwnerOf[t] \notin disturbed
        PROVE  rows[OwnerOf[t]] = IF followed[t] THEN 1 ELSE 0
    <3>1. rows[OwnerOf[t]] \in {0, 1}
      BY <2>2, TabsType DEF Init, FollowsInit
    <3>2. followed[t] = (rows[OwnerOf[t]] > 0)
      BY DEF Init, FollowsInit
    <3>3. CASE followed[t]
      <4>1. rows[OwnerOf[t]] > 0
        BY <3>2, <3>3, Zenon
      <4> QED
        BY <3>1, <3>3, <4>1
    <3>4. CASE ~followed[t]
      <4>1. ~(rows[OwnerOf[t]] > 0)
        BY <3>2, <3>4, Zenon
      <4> QED
        BY <3>1, <3>4, <4>1
    <3> QED
      BY <3>3, <3>4
  <2> QED
    BY <2>1, <2>2 DEF ButtonInv
<1>2. FollowsInv /\ ButtonInv /\ [Next]_vars => ButtonInv'
  <2>1. ASSUME ButtonInv, UNCHANGED followVars PROVE ButtonInv'
    BY <2>1 DEF followVars, callVars, ButtonInv, CallKnows, Following
  <2>2. ASSUME FollowsInv, ButtonInv, FollowsNext PROVE ButtonInv'
    BY <2>2, ButtonStep DEF ButtonInv, OnlyTab
  <2> QED
    BY <2>1, <2>2, StepsApart
<1>3. ButtonInv => ButtonTellsTheTruth
  BY DEF ButtonInv, ButtonTellsTheTruth
<1> QED
  BY <1>1, <1>2, <1>3, FollowsInvariant, PTL DEF Spec

-----------------------------------------------------------------------------
(* The pushes of saveBlog.                                                  *)

ReachInv == PushInv /\ FollowersGetTheBlog

LEMMA ReachStep ==
    ASSUME FollowsTypeOK, ReachInv, FollowsNext
    PROVE  ReachInv'
<1> USE DEF FollowsTypeOK, ReachInv, PushInv, FollowersGetTheBlog, blogVars, callVars
<1>1. ASSUME NEW c \in Calls, \/ ClickFollow(c) \/ AddToSet(c) \/ RemoveFromSet(c)
                              \/ FollowReply(c) \/ FollowFails(c)
      PROVE  ReachInv'
  BY <1>1 DEF ClickFollow, AddToSet, RemoveFromSet, FollowReply, FollowFails
<1>2. ASSUME NEW c \in Calls, InsertFollow(c) PROVE ReachInv'
  BY <1>2, CallerOfType DEF InsertFollow
<1>3. ASSUME NEW c \in Calls, DeleteFollow(c) PROVE ReachInv'
  BY <1>3, CallerOfType DEF DeleteFollow
<1>4. CASE Tick
  BY <1>4 DEF Tick
<1>5. ASSUME NEW b \in Blogs, SaveBlog(b) PROVE ReachInv'
  BY <1>5 DEF SaveBlog
<1>6. ASSUME NEW b \in Blogs, QueryFollowers(b) PROVE ReachInv'
  BY <1>6 DEF QueryFollowers, AllPushed
<1>7. ASSUME NEW b \in Blogs, SaveBlogFails(b) PROVE ReachInv'
  BY <1>7 DEF SaveBlogFails
<1>8. ASSUME NEW b \in Blogs, NEW u \in Users, PushBlog(b, u) PROVE ReachInv'
  BY <1>8 DEF PushBlog, AllPushed, Times
<1> QED
  BY <1>1, <1>2, <1>3, <1>4, <1>5, <1>6, <1>7, <1>8 DEF FollowsNext

\* When saveBlog has returned ok, the blog is in the inbox of everyone who followed the
\* author before it was saved and did not stop before the followers were read.
THEOREM SteadyFollowersReached == Spec => []FollowersGetTheBlog
<1>1. Init => ReachInv
  BY DEF Init, FollowsInit, ReachInv, PushInv, FollowersGetTheBlog
<1>2. FollowsInv /\ ReachInv /\ [Next]_vars => ReachInv'
  <2>1. ASSUME ReachInv, UNCHANGED followVars PROVE ReachInv'
    BY <2>1 DEF followVars, callVars, blogVars, ReachInv, PushInv, FollowersGetTheBlog
  <2> QED
    BY <2>1, StepsApart, ReachStep DEF FollowsInv
<1>3. ReachInv => FollowersGetTheBlog
  BY DEF ReachInv
<1> QED
  BY <1>1, <1>2, <1>3, FollowsInvariant, PTL DEF Spec


-----------------------------------------------------------------------------
(* The order of the inbox.                                                  *)

\* Every set of natural numbers has a smallest member: where an induction is needed, it
\* is applied to the numbers for which the claim fails.
LEMMA Smallest ==
    ASSUME NEW T \in SUBSET Nat, T # {}
    PROVE  \E n \in T : \A m \in T : n <= m
<1> DEFINE Less == {ss \in Nat \X Nat : ss[1] < ss[2]}
<1>1. IsWellFoundedOn(Less, Nat)
  BY NatLessThanWellFounded DEF OpToRel
<1>2. \A x, y \in Nat : x < y => <<x, y>> \in Less
  OBVIOUS
<1> HIDE DEF Less
<1>3. PICK n \in T : \A m \in T : <<m, n>> \notin Less
  BY <1>1, WFMin
<1>4. \A m \in T : ~(m < n)
  BY <1>2, <1>3
<1> QED
  BY <1>4

\* Redis orders a sorted set totally.
LEMMA BeforeIsAnOrder ==
    ASSUME FollowsTypeOK
    PROVE  /\ \A a \in Blogs : ~Before(a, a)
           /\ \A a, b \in Blogs : a # b => Before(a, b) \/ Before(b, a)
           /\ \A a, b, c \in Blogs : Before(a, b) /\ Before(b, c) => Before(a, c)
<1>1. \A b \in Blogs : Score(b) \in Nat
  BY ViewerType, TimesType DEF FollowsTypeOK, Score, Times
<1> HIDE DEF Score
<1> QED
  BY <1>1, RankType DEF Before

LEMMA BlogSetsFinite ==
    ASSUME NEW S \in SUBSET Blogs
    PROVE  IsFiniteSet(S) /\ Cardinality(S) \in Nat
BY BlogsFinite, FS_Subset, FS_CardinalityType

\* A set of blogs has a last one, or none.
LEMMA HasLast ==
    ASSUME FollowsTypeOK, NEW S \in SUBSET Blogs, S # {}
    PROVE  \E l \in S : \A b \in S : b # l => Before(b, l)
<1> DEFINE Ends(R) == \E l \in R : \A b \in R : b # l => Before(b, l)
           Bad == {n \in Nat : \E R \in SUBSET Blogs :
                                  R # {} /\ Cardinality(R) = n /\ ~Ends(R)}
<1>1. ASSUME Bad # {} PROVE FALSE
  <2>1. PICK n \in Bad : \A m \in Bad : n <= m
    <3> HIDE DEF Ends
    <3>1. Bad \in SUBSET Nat
      OBVIOUS
    <3> HIDE DEF Bad
    <3> QED
      BY <1>1, <3>1, Smallest
  <2>2. PICK R \in SUBSET Blogs : R # {} /\ Cardinality(R) = n /\ ~Ends(R)
    OBVIOUS
  <2>3. PICK x \in R : TRUE
    BY <2>2
  <2> DEFINE Q == R \ {x}
  <2>4. Cardinality(Q) = n - 1 /\ n - 1 \in Nat /\ Q \in SUBSET Blogs
    <3>1. Q \in SUBSET Blogs /\ IsFiniteSet(R)
      BY BlogSetsFinite
    <3>2. Cardinality(Q) \in Nat
      BY <3>1, BlogSetsFinite
    <3>3. Cardinality(Q) = n - 1
      BY <2>2, <2>3, <3>1, FS_RemoveElement
    <3> QED
      BY <3>1, <3>2, <3>3
  <2>5. Ends(Q)
    <3>1. CASE Q = {}
      BY <2>2, <2>3, <3>1
    <3>2. CASE Q # {}
      <4> SUFFICES ASSUME ~Ends(Q) PROVE FALSE
        OBVIOUS
      <4>1. n - 1 \in Bad
        BY <2>4, <3>2
      <4>2. n <= n - 1
        BY <2>1, <4>1
      <4> QED
        BY <2>4, <4>2
    <3> QED
      BY <3>1, <3>2
  <2>6. PICK l \in Q : \A b \in Q : b # l => Before(b, l)
    BY <2>5
  <2>7. CASE Before(l, x)
    BY <2>2, <2>3, <2>6, <2>7, BeforeIsAnOrder
  <2>8. CASE Before(x, l)
    BY <2>2, <2>3, <2>6, <2>8
  <2> QED
    BY <2>2, <2>3, <2>6, <2>7, <2>8, BeforeIsAnOrder
<1>2. Cardinality(S) \in Nat
  BY BlogSetsFinite
<1>3. Ends(S)
  BY <1>1, <1>2
<1> QED
  BY <1>3


\* The blogs of a set that are listed before one of them.
Above(S, b) == {a \in S : Before(a, b)}

LEMMA AboveGrows ==
    ASSUME FollowsTypeOK, NEW S \in SUBSET Blogs, NEW a \in S, NEW b \in S, Before(a, b)
    PROVE  Cardinality(Above(S, a)) < Cardinality(Above(S, b))
<1>1. Above(S, a) \subseteq Above(S, b) /\ a \in Above(S, b) /\ a \notin Above(S, a)
  BY BeforeIsAnOrder DEF Above
<1>2. Above(S, a) \in SUBSET Blogs /\ Above(S, b) \in SUBSET Blogs
  BY DEF Above
<1> QED
  BY <1>1, <1>2, BlogSetsFinite, FS_Subset

\* Every place in the list is taken.
LEMMA EveryPlace ==
    ASSUME FollowsTypeOK, NEW S \in SUBSET Blogs, NEW i \in 1..Cardinality(S)
    PROVE  \E b \in S : Cardinality(Above(S, b)) = i - 1
<1> DEFINE Filled(R) == \A k \in 1..Cardinality(R) : \E b \in R : Cardinality(Above(R, b)) = k - 1
           Bad == {n \in Nat : \E R \in SUBSET Blogs : Cardinality(R) = n /\ ~Filled(R)}
<1>1. ASSUME Bad # {} PROVE FALSE
  <2>1. PICK n \in Bad : \A m \in Bad : n <= m
    <3> HIDE DEF Filled
    <3>1. Bad \in SUBSET Nat
      OBVIOUS
    <3> HIDE DEF Bad
    <3> QED
      BY <1>1, <3>1, Smallest
  <2>2. PICK R \in SUBSET Blogs : Cardinality(R) = n /\ ~Filled(R)
    OBVIOUS
  <2>3. PICK k \in 1..n : ~ \E b \in R : Cardinality(Above(R, b)) = k - 1
    BY <2>2
  <2>4. R # {} /\ IsFiniteSet(R) /\ n \in Nat
    BY <2>2, <2>3, BlogSetsFinite, FS_EmptySet
  <2>5. PICK l \in R : \A b \in R : b # l => Before(b, l)
    BY <2>4, HasLast
  <2> DEFINE Q == R \ {l}
  <2>6. Q \in SUBSET Blogs /\ Cardinality(Q) = n - 1 /\ n - 1 \in Nat
    <3>1. Q \in SUBSET Blogs
      OBVIOUS
    <3>2. Cardinality(Q) \in Nat
      BY <3>1, BlogSetsFinite
    <3>3. Cardinality(Q) = n - 1
      BY <2>2, <2>4, FS_RemoveElement
    <3> QED
      BY <3>1, <3>2, <3>3
  <2>7. Filled(Q)
    <3> SUFFICES ASSUME ~Filled(Q) PROVE FALSE
      OBVIOUS
    <3>1. n - 1 \in Bad
      BY <2>6
    <3>2. n <= n - 1
      BY <2>1, <3>1
    <3> QED
      BY <2>4, <3>2
  <2>8. CASE k = n
    <3>1. Above(R, l) = Q
      BY <2>5, BeforeIsAnOrder DEF Above
    <3> QED
      BY <2>3, <2>6, <2>8, <3>1
  <2>9. CASE k # n
    <3>1. k \in 1..Cardinality(Q)
      BY <2>3, <2>4, <2>6, <2>9
    <3>2. PICK b \in Q : Cardinality(Above(Q, b)) = k - 1
      BY <2>7, <3>1
    <3>3. Above(R, b) = Above(Q, b)
      BY <2>5, BeforeIsAnOrder DEF Above
    <3> QED
      BY <2>3, <3>2, <3>3
  <2> QED
    BY <2>8, <2>9
<1>2. Cardinality(S) \in Nat
  BY BlogSetsFinite
<1>3. Filled(S)
  BY <1>1, <1>2
<1> QED
  BY <1>3

\* What Sorted returns: the blogs of the set, each once, in their order.
LEMMA SortedIs ==
    ASSUME FollowsTypeOK, NEW S \in SUBSET Blogs
    PROVE  /\ Sorted(S) \in [1..Cardinality(S) -> S]
           /\ Cardinality(S) \in Nat
           /\ \A i \in 1..Cardinality(S) : Cardinality(Above(S, Sorted(S)[i])) = i - 1
           /\ \A i, j \in 1..Cardinality(S) : i < j => Before(Sorted(S)[i], Sorted(S)[j])
           /\ \A b \in S : \E i \in 1..Cardinality(S) : Sorted(S)[i] = b
<1> DEFINE s == Sorted(S)
           n == Cardinality(S)
<1>0. n \in Nat /\ IsFiniteSet(S)
  BY BlogSetsFinite
<1>1. s = [i \in 1..n |-> CHOOSE b \in S : Cardinality(Above(S, b)) = i - 1]
  BY DEF Sorted, Above
<1>2. \A i \in 1..n : s[i] \in S /\ Cardinality(Above(S, s[i])) = i - 1
  BY <1>1, EveryPlace
<1>3. s \in [1..n -> S]
  BY <1>1, <1>2
<1> HIDE DEF s, n
<1>4. ASSUME NEW a \in S, NEW b \in S PROVE
         /\ Cardinality(Above(S, a)) < Cardinality(Above(S, b)) => Before(a, b)
         /\ Cardinality(Above(S, a)) = Cardinality(Above(S, b)) => a = b
  <2>1. Above(S, a) \in SUBSET Blogs /\ Above(S, b) \in SUBSET Blogs
    BY DEF Above
  <2>2. Cardinality(Above(S, a)) \in Nat /\ Cardinality(Above(S, b)) \in Nat
    BY <2>1, BlogSetsFinite
  <2> QED
    BY <2>2, AboveGrows, BeforeIsAnOrder
<1>5. \A i, j \in 1..n : i < j => Before(s[i], s[j])
  <2> TAKE i, j \in 1..n
  <2>1. i \in Nat /\ j \in Nat
    BY <1>0
  <2> QED
    BY <1>2, <1>4, <2>1
<1>6. ASSUME NEW b \in S PROVE \E i \in 1..n : s[i] = b
  <2>1. Above(S, b) \subseteq S /\ b \notin Above(S, b)
    BY BeforeIsAnOrder DEF Above
  <2>2. Cardinality(Above(S, b)) < n /\ Cardinality(Above(S, b)) \in Nat
    BY <1>0, <2>1, FS_Subset, FS_CardinalityType DEF n
  <2>3. Cardinality(Above(S, b)) + 1 \in 1..n
    BY <1>0, <2>2
  <2>4. s[Cardinality(Above(S, b)) + 1] = b
    BY <1>2, <1>4, <2>2, <2>3
  <2> QED
    BY <2>3, <2>4
<1> QED
  BY <1>0, <1>2, <1>3, <1>5, <1>6 DEF s, n

\* A set that contains whatever is listed before one of its members comes first.
LEMMA ComesFirst ==
    ASSUME FollowsTypeOK, NEW S \in SUBSET Blogs, NEW U \in SUBSET S,
           \A u \in U, a \in S : Before(a, u) => a \in U,
           NEW i \in 1..Cardinality(S)
    PROVE  Sorted(S)[i] \in U <=> i <= Cardinality(U)
<1> DEFINE b == Sorted(S)[i]
<1>1. b \in S /\ Cardinality(Above(S, b)) = i - 1 /\ i \in Nat
  BY SortedIs
<1> HIDE DEF b
<1>2. /\ IsFiniteSet(U) /\ Cardinality(U) \in Nat
      /\ IsFiniteSet(Above(S, b)) /\ b \notin Above(S, b)
  <2>1. Above(S, b) \in SUBSET Blogs /\ U \in SUBSET Blogs
    BY DEF Above
  <2> QED
    BY <1>1, <2>1, BlogSetsFinite, BeforeIsAnOrder DEF Above
<1>3. CASE b \in U
  <2>1. Above(S, b) \cup {b} \subseteq U
    BY <1>3 DEF Above
  <2>2. Cardinality(Above(S, b) \cup {b}) = i
    <3>1. Cardinality(Above(S, b) \cup {b}) = Cardinality(Above(S, b)) + 1
      BY <1>2, FS_AddElement
    <3> QED
      BY <1>1, <3>1
  <2> QED
    BY <1>1, <1>2, <1>3, <2>1, <2>2, FS_Subset DEF b
<1>4. CASE b \notin U
  <2>1. U \subseteq Above(S, b)
    BY <1>1, <1>4, BeforeIsAnOrder DEF Above
  <2>2. Cardinality(U) <= i - 1
    BY <1>1, <1>2, <2>1, FS_Subset
  <2> QED
    BY <1>1, <1>2, <1>4, <2>2 DEF b
<1> QED
  BY <1>3, <1>4


-----------------------------------------------------------------------------
(* The pages.                                                               *)

InOrder(list) == \A i, j \in DOMAIN list : i < j => Before(list[i], list[j])

\* What LIMIT offset 2 takes out of a list.
LEMMA Slice ==
    ASSUME NEW S, NEW s \in Seq(S), NEW k \in Nat
    PROVE  LET t == SubSeq(s, k + 1, IF Len(s) < k + PageSize THEN Len(s) ELSE k + PageSize)
           IN  /\ t \in Seq(S) /\ Len(t) \in Nat
               /\ Len(t) = 0 => Len(s) <= k
               /\ Len(t) > 0 => k + Len(t) <= Len(s)
               /\ \A i \in 1..Len(t) : t[i] = s[k + i]
<1> DEFINE to == IF Len(s) < k + PageSize THEN Len(s) ELSE k + PageSize
           t == SubSeq(s, k + 1, to)
<1>1. to \in Nat /\ to <= Len(s) /\ Len(s) \in Nat /\ (to <= k => Len(s) <= k)
  BY DEF PageSize
<1> HIDE DEF to
<1>2. t = [i \in 1..(to - k) |-> s[k + i]]
  BY <1>1
<1>3. \A i \in 1..(to - k) : s[k + i] \in S
  BY <1>1
<1> HIDE DEF t
<1>4. CASE to <= k
  <2>1. 1..(to - k) = {}
    BY <1>1, <1>4
  <2>2. t = <<>>
    BY <1>2, <2>1
  <2> QED
    BY <1>1, <1>4, <2>2 DEF t, to
<1>5. CASE to > k
  <2>1. t \in Seq(S) /\ Len(t) = to - k /\ \A i \in 1..(to - k) : t[i] = s[k + i]
    BY <1>1, <1>2, <1>3, <1>5
  <2>2. /\ Len(t) \in Nat /\ Len(t) # 0 /\ k + Len(t) <= Len(s)
        /\ \A i \in 1..Len(t) : t[i] = s[k + i]
    BY <1>1, <1>5, <2>1
  <2> QED
    BY <2>1, <2>2 DEF t, to
<1> QED
  BY <1>1, <1>4, <1>5

\* Any cursor, an overtaken one included, gets a page of blogs and a cursor.
LEMMA PageType ==
    ASSUME FollowsTypeOK, NEW from \in Cursors
    PROVE  /\ Page(from) \in Seq(Blogs)
           /\ Page(from) # <<>> => NextCursor(Page(from), from) \in Cursors
<1> DEFINE S == {b \in Inbox : Score(b) <= from.minTime}
           found == Sorted(S)
           ids == Page(from)
<1>1. S \in SUBSET Blogs
  BY DEF Inbox
<1>2. found \in Seq(Blogs) /\ Len(found) \in Nat
  BY <1>1, SortedIs
<1>3. from.offset \in Nat
  BY DEF Cursors
<1>4. ids \in Seq(Blogs)
  <2> HIDE DEF found
  <2> QED
    BY <1>2, <1>3, Slice DEF Page, found
<1>5. ASSUME ids # <<>> PROVE NextCursor(ids, from) \in Cursors
  <2> HIDE DEF ids
  <2>1. Last(ids) \in Blogs
    BY <1>4, <1>5 DEF Last
  <2>2. Score(Last(ids)) \in 0..(MaxTime + 1)
    BY <2>1, ViewerType, TimesType DEF FollowsTypeOK, Score, Times
  <2> DEFINE T == {i \in DOMAIN ids : Score(ids[i]) = Score(Last(ids))}
  <2>3. Cardinality(T) \in Nat
    <3>1. T \subseteq 1..Len(ids) /\ Len(ids) \in Nat
      BY <1>4
    <3>2. IsFiniteSet(1..Len(ids))
      BY <3>1, FS_Interval
    <3> QED
      BY <3>1, <3>2, FS_Subset, FS_CardinalityType
  <2> QED
    BY <1>3, <2>2, <2>3 DEF NextCursor, Cursors
<1> QED
  BY <1>4, <1>5

\* A page whose cursor stands behind the blogs of U goes on with what follows them, and
\* hands back the cursor behind its own last blog.
LEMMA PageContinues ==
    ASSUME FollowsTypeOK, NEW from \in Cursors, NEW U \in SUBSET Inbox,
           \A u \in U : Score(u) = from.minTime,
           \A u \in U, a \in Inbox : Score(a) <= from.minTime /\ Before(a, u) => a \in U,
           Cardinality(U) = from.offset
    PROVE  LET S == {b \in Inbox : Score(b) <= from.minTime} \ U
               ids == Page(from)
           IN  /\ InOrder(ids) /\ Range(ids) \subseteq S
               /\ ids = <<>> => S = {}
               /\ ids # <<>> => /\ \A b \in S : Before(b, Last(ids)) => b \in Range(ids)
                                /\ NextCursor(ids, from) = Behind(Last(ids))
<1> DEFINE W == {b \in Inbox : Score(b) <= from.minTime}
           found == Sorted(W)
           n == Cardinality(W)
           k == from.offset
           ids == Page(from)
           m == Len(ids)
<1>0. /\ \A b \in Blogs : Score(b) \in Nat
      /\ from.minTime \in Nat /\ k \in Nat
      /\ W \in SUBSET Blogs /\ U \in SUBSET W /\ n \in Nat
  <2>1. \A b \in Blogs : Score(b) \in Nat
    BY ViewerType, TimesType DEF FollowsTypeOK, Score, Times
  <2>2. from.minTime \in Nat /\ k \in Nat
    BY TimesType DEF Cursors
  <2>3. W \in SUBSET Blogs
    BY DEF Inbox
  <2>4. U \in SUBSET W
    BY <2>2
  <2> QED
    BY <2>1, <2>2, <2>3, <2>4, BlogSetsFinite
<1>1. /\ found \in [1..n -> W]
      /\ \A i, j \in 1..n : i < j => Before(found[i], found[j])
      /\ \A b \in W : \E i \in 1..n : found[i] = b
  BY <1>0, SortedIs
<1>2. \A i \in 1..n : found[i] \in U <=> i <= k
  BY <1>0, ComesFirst
<1>3. /\ ids \in Seq(Blogs) /\ m \in Nat
      /\ m = 0 => n <= k
      /\ m > 0 => k + m <= n
      /\ \A i \in 1..m : ids[i] = found[k + i]
  <2>1. found \in Seq(Blogs) /\ Len(found) = n
    <3> HIDE DEF found, n, W
    <3>1. found \in [1..n -> Blogs]
      BY <1>0, <1>1
    <3> QED
      BY <1>0, <3>1
  <2> HIDE DEF found, n
  <2> QED
    BY <1>0, <2>1, Slice DEF Page, found
<1>9. DOMAIN ids = 1..m /\ (ids = <<>> <=> m = 0)
  BY <1>3
<1> HIDE DEF found, ids, n, m
<1>4. \A i \in 1..m : k + i \in 1..n /\ k + i > k
  BY <1>0, <1>3
<1>5. InOrder(ids) /\ Range(ids) \subseteq W \ U
  <2>1. DOMAIN ids = 1..m /\ Range(ids) = {ids[i] : i \in 1..m}
    BY <1>3, <1>9 DEF Range
  <2>2. \A i \in 1..m : ids[i] \in W \ U
    <3> TAKE i \in 1..m
    <3>1. k + i \in 1..n /\ ~(k + i <= k) /\ ids[i] = found[k + i]
      BY <1>0, <1>3, <1>4
    <3> HIDE DEF W
    <3> QED
      BY <1>1, <1>2, <3>1
  <2>3. ASSUME NEW i \in 1..m, NEW j \in 1..m, i < j PROVE Before(ids[i], ids[j])
    BY <1>0, <1>1, <1>3, <1>4, <2>3
  <2> QED
    BY <2>1, <2>2, <2>3 DEF InOrder
<1>6. ASSUME ids = <<>> PROVE W \ U = {}
  <2>1. n <= k
    BY <1>3, <1>6, <1>9
  <2> QED
    BY <1>0, <1>1, <1>2, <2>1
<1>7. ASSUME ids # <<>>, NEW b \in W \ U, Before(b, Last(ids)) PROVE b \in Range(ids)
  <2>1. m > 0 /\ Last(ids) = found[k + m] /\ k + m \in 1..n
    BY <1>3, <1>4, <1>7, <1>9 DEF Last, m
  <2>2. PICK j \in 1..n : found[j] = b
    BY <1>1
  <2>3. j > k
    BY <1>0, <1>2, <2>2
  <2>4. j < k + m
    BY <1>0, <1>1, <1>3, <1>7, <2>1, <2>2, BeforeIsAnOrder
  <2>5. j - k \in 1..m /\ ids[j - k] = b
    <3>1. j \in Int /\ k \in Int /\ j - k \in Int /\ k + (j - k) = j
      BY <1>0
    <3>2. j - k \in 1..m
      BY <1>0, <1>3, <2>3, <2>4, <3>1
    <3> QED
      BY <1>3, <2>2, <3>1, <3>2
  <2> QED
    BY <1>9, <2>5 DEF Range
<1>8. ASSUME ids # <<>> PROVE NextCursor(ids, from) = Behind(Last(ids))
  <2> DEFINE l == Last(ids)
             T == {i \in DOMAIN ids : Score(ids[i]) = Score(l)}
             R == {ids[i] : i \in T}
  <2>1. DOMAIN ids = 1..m /\ m \in 1..m /\ l = ids[m] /\ Range(ids) = {ids[i] : i \in 1..m}
    BY <1>3, <1>8, <1>9 DEF Last, Range, m
  <2>2. l \in W \ U /\ l \in Blogs /\ Score(l) \in Nat /\ Score(l) <= from.minTime
    BY <1>0, <1>5, <2>1
  <2>3. IsFiniteSet(T) /\ IsFiniteSet(R) /\ IsFiniteSet(U) /\ Cardinality(R) = Cardinality(T)
        /\ Cardinality(T) \in Nat
    <3>1. T \in SUBSET (1..m) /\ IsFiniteSet(1..m)
      BY <1>3, <2>1, FS_Interval
    <3>2. IsFiniteSet(T) /\ Cardinality(T) \in Nat
      BY <3>1, FS_Subset, FS_CardinalityType
    <3>3. \A i, j \in T : ids[i] = ids[j] => i = j
      <4> SUFFICES ASSUME NEW i \in T, NEW j \in T, ids[i] = ids[j], i < j \/ j < i PROVE FALSE
        BY <1>3, <3>1
      <4>1. ids[i] \in Blogs
        BY <1>3, <3>1
      <4> QED
        BY <1>5, <4>1, BeforeIsAnOrder DEF InOrder
    <3> DEFINE f == [i \in T |-> ids[i]]
    <3>4. f \in Bijection(T, R)
      BY <3>3 DEF Bijection, Injection, Surjection, IsInjective
    <3>5. Cardinality(R) = Cardinality(T) /\ IsFiniteSet(R)
      BY <3>2, <3>4, FS_Bijection DEF ExistsBijection
    <3>6. IsFiniteSet(U)
      BY <1>0, BlogSetsFinite
    <3> QED
      BY <3>2, <3>5, <3>6
  <2>4. R \subseteq Seen(l)
    <3> SUFFICES ASSUME NEW i \in 1..m, Score(ids[i]) = Score(l) PROVE ids[i] \in Seen(l)
      BY <2>1
    <3>1. ids[i] \in W /\ ids[i] \in Blogs /\ ids[i] \in Inbox
      BY <1>0, <1>5, <2>1
    <3>2. i = m \/ Before(ids[i], l)
      BY <1>3, <1>5, <2>1 DEF InOrder
    <3>3. ~Before(l, ids[i])
      BY <2>1, <2>2, <3>1, <3>2, BeforeIsAnOrder
    <3> QED
      BY <3>1, <3>3 DEF Seen
  <2>5. Seen(l) \ U \subseteq R
    <3> SUFFICES ASSUME NEW b \in Seen(l), b \notin U PROVE b \in R
      OBVIOUS
    <3>1. b \in Inbox /\ b \in Blogs /\ Score(b) = Score(l) /\ ~Before(l, b)
      BY DEF Seen, Inbox
    <3>2. b \in W \ U
      BY <2>2, <3>1
    <3>3. b = l \/ Before(b, l)
      BY <2>2, <3>1, BeforeIsAnOrder
    <3>4. b \in Range(ids)
      BY <1>7, <1>8, <2>1, <3>2, <3>3
    <3> QED
      BY <2>1, <3>1, <3>4
  <2>6. NextCursor(ids, from) =
           [minTime |-> Score(l),
            offset |-> IF Score(l) = from.minTime THEN Cardinality(T) + k ELSE Cardinality(T)]
    BY DEF NextCursor
  <2>7. R \cap U = {}
    BY <1>5, <2>1
  <2>8. CASE Score(l) = from.minTime
    <3>1. U \subseteq Seen(l)
      <4> SUFFICES ASSUME NEW u \in U PROVE u \in Seen(l)
        OBVIOUS
      <4>1. ~Before(l, u)
        BY <2>2
      <4> QED
        BY <2>8, <4>1 DEF Seen
    <3>2. Seen(l) = R \cup U
      BY <2>4, <2>5, <3>1
    <3>3. Cardinality(R \cup U) = Cardinality(T) + k
      <4>1. Cardinality(R \cup U) = Cardinality(R) + Cardinality(U) - Cardinality(R \cap U)
        BY <2>3, FS_Union
      <4>2. Cardinality(R \cap U) = 0
        BY <2>7, FS_EmptySet
      <4> QED
        BY <1>0, <2>3, <4>1, <4>2
    <3> QED
      BY <2>6, <2>8, <3>2, <3>3 DEF Behind
  <2>9. CASE Score(l) # from.minTime
    <3>1. Seen(l) \cap U = {}
      BY <2>9 DEF Seen
    <3>2. Seen(l) = R
      BY <2>4, <2>5, <3>1
    <3> QED
      BY <2>3, <2>6, <2>9, <3>2 DEF Behind
  <2> QED
    BY <2>8, <2>9
<1> QED
  BY <1>5, <1>6, <1>7, <1>8 DEF ids


-----------------------------------------------------------------------------
(* The page of the feed.                                                    *)

LEMMA SendType ==
    ASSUME FeedPageTypeOK, NEW q \in Queries, NEW clear \in BOOLEAN, NEW from \in Cursors,
           Send(q, clear, from)
    PROVE  query' \in [Queries -> QueryRecords] /\ alone' \subseteq Queries /\ calm' \in BOOLEAN
<1>1. query' = [query EXCEPT ![q].step = "sent", ![q].clear = clear, ![q].from = from]
  BY DEF Send
<1>2. query' \in [Queries -> QueryRecords]
  BY <1>1 DEF FeedPageTypeOK, QueryRecords
<1>3. alone' \subseteq Queries
  BY DEF Send, FeedPageTypeOK
<1>4. calm' = (calm /\ ~clear /\ UnderWay = {})
  BY DEF Send
<1>5. calm' \in BOOLEAN
  BY <1>4, Zenon
<1> QED
  BY <1>2, <1>3, <1>5

LEMMA PageTypeStep ==
    ASSUME FollowsTypeOK, FeedPageTypeOK, [Next]_vars
    PROVE  FeedPageTypeOK'
<1> USE DEF FeedPageTypeOK, QueryRecords
<1>0. Start \in Cursors /\ Idle.ids \in Seq(Blogs)
  BY TimesType DEF Start, Cursors, Idle
<1>1. ASSUME NEW q \in Queries, QueryFirst(q) PROVE FeedPageTypeOK'
  <2>1. cursor' \in Cursors
    BY <1>1, ClientLagType, TimesType DEF QueryFirst, Times, Cursors
  <2>2. Send(q, TRUE, cursor')
    BY <1>1 DEF QueryFirst
  <2>3. query' \in [Queries -> QueryRecords] /\ alone' \subseteq Queries /\ calm' \in BOOLEAN
    BY <2>1, <2>2, SendType
  <2> QED
    BY <1>1, <2>1, <2>3 DEF QueryFirst
<1>2. ASSUME NEW q \in Queries, QueryNext(q) PROVE FeedPageTypeOK'
  <2>1. Send(q, FALSE, cursor)
    BY <1>2 DEF QueryNext
  <2>2. query' \in [Queries -> QueryRecords] /\ alone' \subseteq Queries /\ calm' \in BOOLEAN
    BY <2>1, SendType
  <2> QED
    BY <1>2, <2>2 DEF QueryNext
<1>3. ASSUME NEW q \in Queries, QueryBlogOfFollow(q) PROVE FeedPageTypeOK'
  <2> DEFINE ids == Page(query[q].from)
             next == IF ids = <<>> THEN Start ELSE NextCursor(ids, query[q].from)
  <2>1. ids \in Seq(Blogs) /\ next \in Cursors
    BY <1>0, PageType
  <2>2. query' = [query EXCEPT ![q].step = "answered", ![q].ids = ids, ![q].next = next]
    BY <1>3 DEF QueryBlogOfFollow
  <2> HIDE DEF ids, next
  <2>3. base' \in SUBSET Blogs
    BY <1>3 DEF QueryBlogOfFollow, Inbox
  <2>4. query' \in [Queries -> QueryRecords]
    BY <2>1, <2>2
  <2> QED
    BY <1>3, <2>3, <2>4 DEF QueryBlogOfFollow
<1>4. ASSUME NEW q \in Queries, ApplyAnswer(q) PROVE FeedPageTypeOK'
  <2>1. Past \in QueryRecords
    BY <1>0 DEF Past, Idle
  <2>2. query' = [query EXCEPT ![q] = Past] /\ UNCHANGED <<reachBottom, alone, base>>
    BY <1>4 DEF ApplyAnswer
  <2>3. shown' \in Seq(Blogs) /\ cursor' \in Cursors /\ calm' \in BOOLEAN
    <3>1. shown \o query[q].ids \in Seq(Blogs)
      BY ConcatProperties
    <3> QED
      BY <1>4, <3>1 DEF ApplyAnswer
  <2> QED
    BY <2>1, <2>2, <2>3
<1>5. ASSUME NEW q \in Queries, QueryFails(q) PROVE FeedPageTypeOK'
  BY <1>0, <1>5 DEF QueryFails, Past, Idle
<1>6. CASE ScrollOn
  BY <1>6 DEF ScrollOn
<1>7. CASE Meanwhile
  BY <1>7 DEF Meanwhile
<1>8. CASE UNCHANGED pageVars
  BY <1>8 DEF pageVars
<1> QED
  BY <1>1, <1>2, <1>3, <1>4, <1>5, <1>6, <1>7, <1>8 DEF Next, FeedPageNext, vars

LEMMA FaultsType ==
    ASSUME faults \in 0..MaxFaults, [Next]_vars
    PROVE  faults' \in 0..MaxFaults
<1>1. faults' = faults \/ Fault
  BY DEF Next, vars, LikesNext, LikeBlog, IncLiked, AddLiker, DecLiked, RemoveLiker, LikeFails,
         FeedPageNext, QueryFirst, QueryNext, QueryBlogOfFollow, ApplyAnswer, QueryFails, ScrollOn, Meanwhile,
         FollowsNext, ClickFollow, InsertFollow, AddToSet, DeleteFollow, RemoveFromSet,
         FollowReply, FollowFails, Tick, SaveBlog, QueryFollowers, PushBlog, SaveBlogFails
<1> QED
  BY <1>1, MaxFaultsType DEF Fault

\* Every variable of the community keeps its type; the cursor of a page, in particular,
\* is a place in the list, although it is computed from a last blog and a count.
THEOREM CommunityTypes == Spec => []TypeOK
<1>1. Init => FeedPageTypeOK /\ faults \in 0..MaxFaults
  <2> SUFFICES ASSUME Init PROVE FeedPageTypeOK /\ faults \in 0..MaxFaults
    OBVIOUS
  <2>1. Start \in Cursors
    BY TimesType DEF Start, Cursors
  <2>2. Idle \in QueryRecords
    BY <2>1 DEF Idle, QueryRecords
  <2>3. query \in [Queries -> QueryRecords] /\ cursor \in Cursors
    BY <2>1, <2>2 DEF Init, FeedPageInit
  <2>4. /\ shown \in Seq(Blogs) /\ alone \subseteq Queries /\ base \subseteq Blogs
        /\ reachBottom \in BOOLEAN /\ calm \in BOOLEAN
    <3>1. /\ shown = <<>> /\ alone = {} /\ base = {} /\ reachBottom = FALSE /\ calm = FALSE
      BY DEF Init, FeedPageInit
    <3>2. reachBottom \in BOOLEAN /\ calm \in BOOLEAN
      BY <3>1, Zenon
    <3>3. shown \in Seq(Blogs)
      BY <3>1
    <3> QED
      BY <3>1, <3>2, <3>3
  <2>5. faults \in 0..MaxFaults
    BY MaxFaultsType DEF Init
  <2> QED
    BY <2>3, <2>4, <2>5 DEF FeedPageTypeOK
<1>2. FollowsInv /\ FeedPageTypeOK /\ [Next]_vars => FeedPageTypeOK'
  BY PageTypeStep DEF FollowsInv
<1>3. faults \in 0..MaxFaults /\ [Next]_vars => (faults \in 0..MaxFaults)'
  BY FaultsType
<1>4. LikesInv /\ FollowsInv /\ FeedPageTypeOK /\ faults \in 0..MaxFaults => TypeOK
  BY DEF LikesInv, FollowsInv, TypeOK
<1> QED
  BY <1>1, <1>2, <1>3, <1>4, LikesInvariant, FollowsInvariant, PTL DEF Spec

\* A step of the server or of another page leaves the list, its cursor and the unanswered
\* queries alone; what it changes in the inbox lies behind the blogs that were read.
LEMMA UndisturbedInbox ==
    ASSUME FollowsTypeOK, FollowsTypeOK', NEW last \in Inbox, ~Disturbs(last)
    PROVE  /\ \A b \in Inbox : Score(b)' = Score(b) /\ b \in Inbox'
           /\ Seen(last)' = Seen(last) /\ Behind(last)' = Behind(last)
<1>1. /\ \A b \in Blogs : Score(b)' = feed'[Viewer][b] /\ Score(b) \in Nat /\ Score(b)' \in Nat
      /\ Inbox \subseteq Blogs /\ last \in Blogs
  BY ViewerType, TimesType DEF FollowsTypeOK, Score, Times, Inbox
<1>2. \A b \in Blogs :
         Score(b)' # Score(b) =>
            b \notin Inbox /\ ~(Score(b)' = Score(last) /\ Rank[b] > Rank[last])
  BY <1>1 DEF Disturbs
<1>3. /\ \A b \in Inbox : Score(b)' = Score(b) /\ b \in Inbox'
      /\ \A b \in Blogs : b \in Inbox <=> Score(b) > 0
      /\ \A b \in Blogs : b \in Inbox' <=> Score(b)' > 0
  BY <1>1, <1>2 DEF Inbox
<1>4. \A b \in Blogs : b \in Seen(last)' <=> b \in Seen(last)
  <2> TAKE b \in Blogs
  <2>1. /\ b \in Seen(last) <=> /\ b \in Inbox /\ Score(b) = Score(last)
                                /\ ~(Score(last) > Score(b) \/ (Score(last) = Score(b) /\ Rank[last] > Rank[b]))
        /\ b \in Seen(last)' <=> /\ b \in Inbox' /\ Score(b)' = Score(last)'
                                 /\ ~(Score(last)' > Score(b)' \/ (Score(last)' = Score(b)' /\ Rank[last] > Rank[b]))
    BY DEF Seen, Before
  <2>2. b # last => Rank[b] > Rank[last] \/ Rank[last] > Rank[b]
    BY <1>1, RankType
  <2> QED
    BY <1>1, <1>2, <1>3, <2>1, <2>2
<1>5. Seen(last)' = Seen(last)
  <2>1. Seen(last) \subseteq Blogs /\ Seen(last)' \subseteq Blogs
    BY DEF Seen, Inbox
  <2> QED
    BY <1>4, <2>1
<1> QED
  BY <1>1, <1>3, <1>5 DEF Behind


\* The order within a list of the inbox is kept with it, and so is its last blog's place.
LEMMA ScrolledStays ==
    ASSUME FollowsTypeOK, FollowsTypeOK', NEW list \in Seq(Blogs), Scrolled(list),
           base \subseteq Inbox, UNCHANGED base, ~Disturbs(Last(list))
    PROVE  Scrolled(list)' /\ (base \subseteq Inbox)'
<1>1. Last(list) \in Inbox /\ Last(list) \in Range(list) /\ Range(list) \subseteq Inbox
  <2>1. Len(list) \in DOMAIN list
    BY DEF Scrolled
  <2> QED
    BY <2>1 DEF Scrolled, Last, Range
<1>2. \A b \in Inbox : Score(b)' = Score(b) /\ b \in Inbox'
  BY <1>1, UndisturbedInbox
<1>3. \A a, b \in Inbox : Before(a, b)' <=> Before(a, b)
  BY <1>2 DEF Before
<1>4. \A i \in DOMAIN list : list[i] \in Inbox
  BY <1>1 DEF Range
<1> QED
  BY <1>1, <1>2, <1>3, <1>4 DEF Scrolled

ScrollTypeInv == FollowsTypeOK /\ FeedPageTypeOK /\ ScrollInv

\* The answer to a query that met no other one: the inbox from the beginning, or what
\* follows the list.
LEMMA AnswerContinues ==
    ASSUME ScrollTypeInv, NEW q \in alone, QueryBlogOfFollow(q),
           query[q].clear \/ calm
    PROVE  LET ids == Page(query[q].from)
           IN  /\ ids # <<>> => /\ Scrolled(ShownWith(q))'
                                /\ NextCursor(ids, query[q].from) = Behind(Last(ids))
                                /\ base' \subseteq Inbox
               /\ ids = <<>> /\ ~query[q].clear => base \subseteq Range(shown)
<1> DEFINE from == query[q].from
           ids == Page(from)
           W == {b \in Inbox : Score(b) <= from.minTime}
<1>0. /\ FollowsTypeOK /\ FeedPageTypeOK /\ ScrollInv
      /\ q \in Queries /\ from \in Cursors /\ ids \in Seq(Blogs) /\ q \in UnderWay
      /\ query[q].clear \in BOOLEAN /\ shown \in Seq(Blogs)
      /\ base' = IF query[q].clear THEN W ELSE base
      /\ UNCHANGED <<shown, feed>>
      /\ query'[q].clear = query[q].clear /\ query'[q].ids = ids
      /\ Inbox \subseteq Blogs /\ W \subseteq Inbox
  <2>1. /\ FollowsTypeOK /\ FeedPageTypeOK /\ ScrollInv /\ q \in Queries
    BY DEF ScrollTypeInv, FeedPageTypeOK
  <2>2. from \in Cursors /\ query[q].clear \in BOOLEAN /\ shown \in Seq(Blogs)
    BY <2>1 DEF FeedPageTypeOK, QueryRecords
  <2>3. ids \in Seq(Blogs)
    BY <2>1, <2>2, PageType
  <2>4. /\ q \in UnderWay /\ base' = IF query[q].clear THEN W ELSE base
        /\ UNCHANGED <<shown, feed>>
    BY <2>1 DEF QueryBlogOfFollow, UnderWay, followVars, blogVars
  <2>5. query'[q].clear = query[q].clear /\ query'[q].ids = ids
    BY <2>1 DEF QueryBlogOfFollow, FeedPageTypeOK, QueryRecords
  <2> QED
    BY <2>1, <2>2, <2>3, <2>4, <2>5 DEF Inbox
<1>1. \A b \in Blogs : Score(b) \in Nat /\ Score(b)' = Score(b)
  BY <1>0, ViewerType, TimesType DEF FollowsTypeOK, Score, Times
<1>2. /\ Inbox' = Inbox
      /\ \A a, b \in Blogs : Before(a, b)' <=> Before(a, b)
  BY <1>1 DEF Inbox, Before
<1>3. ids # <<>> => Last(ids) \in Range(ids)
  BY <1>0 DEF Last, Range
<1>4. PICK list : list = IF query[q].clear THEN ids ELSE shown \o ids
  OBVIOUS
<1>7. ShownWith(q)' = list
  BY <1>0, <1>4 DEF ShownWith
<1>8. ASSUME ids # <<>>, list \in Seq(Blogs), Scrolled(list)' PROVE Scrolled(ShownWith(q))'
  BY <1>7, <1>8 DEF Scrolled
<1>5. CASE query[q].clear
  <2>1. from.offset = 0
    BY <1>0, <1>5 DEF ScrollInv
  <2>2. /\ InOrder(ids) /\ Range(ids) \subseteq W
        /\ ids # <<>> => /\ \A b \in W : Before(b, Last(ids)) => b \in Range(ids)
                         /\ NextCursor(ids, from) = Behind(Last(ids))
    <3>1. Cardinality({}) = 0 /\ W \ {} = W
      BY FS_EmptySet
    <3> HIDE DEF from
    <3> QED
      BY <1>0, <2>1, <3>1, PageContinues
  <2>3. ASSUME ids # <<>> PROVE Scrolled(list)'
    <3>1. /\ list = ids /\ list \in Seq(Blogs) /\ base' = W
          /\ \A i \in DOMAIN list : list[i] \in Blogs
          /\ Last(list) \in Blogs
      <4>1. list = ids /\ base' = W
        BY <1>0, <1>4, <1>5
      <4>2. Last(ids) \in Blogs
        BY <1>0, <1>3, <2>2, <2>3
      <4>3. \A i \in DOMAIN ids : ids[i] \in Blogs
        BY <1>0
      <4> HIDE DEF ids
      <4> QED
        BY <1>0, <4>1, <4>2, <4>3
    <3>2. /\ list # <<>> /\ Range(list) \subseteq Inbox
          /\ \A i, j \in DOMAIN list : i < j => Before(list[i], list[j])
          /\ \A b \in base' : Before(b, Last(list)) => b \in Range(list)
      BY <2>2, <2>3, <3>1 DEF InOrder
    <3> HIDE DEF ids, W
    <3> QED
      BY <1>0, <1>2, <3>1, <3>2 DEF Scrolled
  <2> QED
    BY <1>0, <1>4, <1>5, <1>8, <2>2, <2>3
<1>6. CASE ~query[q].clear
  <2> DEFINE l == Last(shown)
             U == Seen(l)
  <2>1. Scrolled(shown) /\ from = Behind(l) /\ base \subseteq Inbox /\ calm
    BY <1>0, <1>6 DEF ScrollInv
  <2>2. l \in Inbox /\ l \in Range(shown) /\ Len(shown) \in DOMAIN shown /\ l = shown[Len(shown)]
    BY <1>0, <2>1 DEF Scrolled, Last, Range
  <2>3. /\ U \in SUBSET Inbox /\ Cardinality(U) = from.offset /\ Score(l) = from.minTime
        /\ \A u \in U : Score(u) = from.minTime
    BY <2>1 DEF Behind, Seen
  <2>4. \A b \in Inbox : b \in W <=> b \in U \/ Before(l, b)
    <3> TAKE b \in Inbox
    <3>1. Score(b) \in Nat /\ Score(l) \in Nat
      BY <1>0, <1>1, <2>2
    <3> QED
      BY <2>3, <3>1 DEF Seen, Before
  <2>5. \A b \in U : ~Before(l, b)
    BY DEF Seen
  <2>6. \A u \in U, a \in Inbox : Score(a) <= from.minTime /\ Before(a, u) => a \in U
    <3> TAKE u \in U, a \in Inbox
    <3> HAVE Score(a) <= from.minTime /\ Before(a, u)
    <3>1. a \in W
      OBVIOUS
    <3>2. Before(l, a) => Before(l, u)
      BY <1>0, <2>2, <2>3, BeforeIsAnOrder
    <3> QED
      BY <2>4, <2>5, <3>1, <3>2
  <2>7. /\ InOrder(ids) /\ Range(ids) \subseteq W \ U
        /\ ids = <<>> => W \ U = {}
        /\ ids # <<>> => /\ \A b \in W \ U : Before(b, Last(ids)) => b \in Range(ids)
                         /\ NextCursor(ids, from) = Behind(Last(ids))
    <3> HIDE DEF from, U
    <3> QED
      BY <1>0, <2>3, <2>6, PageContinues
  <2>8. \A b \in base : Before(b, l) \/ b = l => b \in Range(shown)
    BY <2>1, <2>2 DEF Scrolled
  <2>9. \A b \in base : b \in Range(shown) \/ b \in W \ U
    <3> TAKE b \in base
    <3>1. b \in Inbox /\ b \in Blogs /\ l \in Blogs
      BY <1>0, <2>1, <2>2
    <3>2. b = l \/ Before(b, l) \/ Before(l, b)
      BY <1>0, <3>1, BeforeIsAnOrder
    <3> QED
      BY <2>4, <2>5, <2>8, <3>1, <3>2
  <2>10. ids = <<>> => base \subseteq Range(shown)
    BY <2>7, <2>9
  <2>11. ASSUME ids # <<>> PROVE list \in Seq(Blogs) /\ Scrolled(list)'
    <3>0. list = shown \o ids
      BY <1>4, <1>6
    <3>1. /\ list \in Seq(Blogs) /\ Len(list) = Len(shown) + Len(ids)
          /\ \A i \in 1..Len(list) :
                list[i] = IF i <= Len(shown) THEN shown[i] ELSE ids[i - Len(shown)]
      BY <1>0, <3>0, ConcatProperties
    <3>2. /\ Len(shown) \in Nat /\ Len(ids) \in Nat /\ Len(ids) > 0 /\ Len(shown) > 0
          /\ DOMAIN shown = 1..Len(shown) /\ DOMAIN ids = 1..Len(ids)
          /\ DOMAIN list = 1..Len(list)
      BY <1>0, <2>1, <2>11, <3>1 DEF Scrolled
    <3>3. Range(list) = Range(shown) \cup Range(ids) /\ Last(list) = Last(ids)
      <4>1. \A i \in 1..Len(shown) : i \in 1..Len(list) /\ list[i] = shown[i]
        BY <3>1, <3>2
      <4>2. \A i \in 1..Len(ids) : i + Len(shown) \in 1..Len(list) /\ list[i + Len(shown)] = ids[i]
        BY <3>1, <3>2
      <4>3. \A i \in 1..Len(list) : i \in 1..Len(shown) \/ i - Len(shown) \in 1..Len(ids)
        BY <3>1, <3>2
      <4> HIDE DEF ids
      <4> QED
        BY <3>1, <3>2, <4>1, <4>2, <4>3 DEF Range, Last
    <3>4. \A b \in Range(ids) : Before(l, b) /\ b \in Blogs /\ b \in Inbox
      BY <1>0, <2>4, <2>7
    <3>5. \A i \in DOMAIN shown : shown[i] = l \/ Before(shown[i], l)
      BY <2>1, <2>2, <3>2 DEF Scrolled
    <3>6. \A b \in Range(shown) : b = l \/ Before(b, l)
      BY <3>5 DEF Range
    <3>7. \A a \in Range(shown), b \in Range(ids) : Before(a, b)
      <4> TAKE a \in Range(shown), b \in Range(ids)
      <4>1. a \in Blogs /\ l \in Blogs
        BY <1>0, <2>1, <2>2 DEF Scrolled
      <4> QED
        BY <1>0, <3>4, <3>6, <4>1, BeforeIsAnOrder
    <3>8. ASSUME NEW i \in DOMAIN list, NEW j \in DOMAIN list, i < j PROVE Before(list[i], list[j])
      <4>1. CASE j <= Len(shown)
        BY <2>1, <3>1, <3>2, <3>8, <4>1 DEF Scrolled
      <4>2. CASE i > Len(shown)
        <5>1. i - Len(shown) \in 1..Len(ids) /\ j - Len(shown) \in 1..Len(ids)
              /\ i - Len(shown) < j - Len(shown)
          BY <3>1, <3>2, <3>8, <4>2
        <5> QED
          BY <2>7, <3>1, <3>2, <3>8, <4>2, <5>1 DEF InOrder
      <4>3. CASE i <= Len(shown) /\ j > Len(shown)
        <5>1. i \in 1..Len(shown) /\ j - Len(shown) \in 1..Len(ids)
          BY <3>1, <3>2, <3>8, <4>3
        <5>2. list[i] \in Range(shown) /\ list[j] \in Range(ids)
          BY <3>1, <3>2, <4>3, <5>1 DEF Range
        <5> QED
          BY <3>7, <5>2
      <4> QED
        BY <3>2, <4>1, <4>2, <4>3
    <3>9. \A b \in base : Before(b, Last(ids)) => b \in Range(list)
      BY <2>7, <2>9, <2>11, <3>3
    <3>10. Range(list) \subseteq Inbox /\ list # <<>>
      BY <2>1, <3>1, <3>2, <3>3, <3>4 DEF Scrolled
    <3>11. Last(list) \in Blogs /\ \A i \in DOMAIN list : list[i] \in Blogs
      BY <3>1, <3>2 DEF Last
    <3>12. base' = base /\ base \subseteq Blogs
      BY <1>0, <1>6, <2>1
    <3>13. Scrolled(list)'
      BY <1>2, <3>3, <3>8, <3>9, <3>10, <3>11, <3>12 DEF Scrolled
    <3> QED
      BY <3>1, <3>13
  <2> QED
    BY <1>0, <1>6, <1>8, <2>1, <2>7, <2>10, <2>11
<1> QED
  BY <1>0, <1>5, <1>6


\* A step that leaves the inbox alone leaves its order alone.
LEMMA SameInbox ==
    ASSUME UNCHANGED followVars
    PROVE  /\ Inbox' = Inbox
           /\ \A b : Behind(b)' = Behind(b)
           /\ \A a, b : Before(a, b)' <=> Before(a, b)
BY DEF followVars, blogVars, Behind, Seen, Before, Inbox, Score

LEMMA LastOfBoth ==
    ASSUME NEW s \in Seq(Blogs), NEW t \in Seq(Blogs), t # <<>>
    PROVE  s \o t \in Seq(Blogs) /\ s \o t # <<>> /\ Last(s \o t) = Last(t)
<1>1. /\ s \o t \in Seq(Blogs) /\ Len(s \o t) = Len(s) + Len(t)
      /\ (s \o t)[Len(s) + Len(t)] = t[Len(t)]
  BY ConcatProperties
<1>2. Len(t) > 0 /\ Len(s) >= 0
  OBVIOUS
<1> QED
  BY <1>1, <1>2 DEF Last

LEMMA SendKeepsScroll ==
    ASSUME ScrollTypeInv, UNCHANGED <<shown, base, followVars>>,
           NEW q \in Queries, NEW clear \in BOOLEAN, Send(q, clear, cursor'),
           clear => cursor'.offset = 0, ~clear => cursor' = cursor
    PROVE  ScrollInv'
<1>0. /\ ScrollInv /\ query \in [Queries -> QueryRecords] /\ alone \subseteq Queries
  BY DEF ScrollTypeInv, FeedPageTypeOK
<1>1. /\ query[q].step = "idle" /\ q \notin UnderWay
      /\ query'[q].step = "sent" /\ query'[q].clear = clear /\ query'[q].from = cursor'
      /\ \A p \in Queries : p # q => query'[p] = query[p]
  BY <1>0 DEF Send, QueryRecords, UnderWay
<1>2. UnderWay' = UnderWay \cup {q}
  BY <1>1 DEF UnderWay
<1>3. calm' = (calm /\ ~clear /\ UnderWay = {})
  BY DEF Send
<1>4. calm' => calm /\ ~clear /\ UnderWay = {}
  BY <1>3, Zenon
<1>5. alone' = IF UnderWay = {} THEN alone \cup {q} ELSE alone \ UnderWay
  BY DEF Send
<1>6. /\ \A p \in alone' : query'[p].step # "idle"
      /\ \A p \in alone' \cap UnderWay' : UnderWay' = {p}
      /\ \A p \in alone' : query'[p].step # "answered"
  BY <1>0, <1>1, <1>2, <1>5 DEF ScrollInv, UnderWay
<1>7. calm' => Scrolled(shown)' /\ (cursor = Behind(Last(shown)))' /\ (base \subseteq Inbox)'
  BY <1>0, <1>4, SameInbox DEF ScrollInv, Scrolled
<1>8. calm' => \A p \in UnderWay' : ~query'[p].clear /\ query'[p].from = cursor'
  BY <1>1, <1>2, <1>4
<1>9. \A p \in UnderWay' : query'[p].clear => query'[p].from.offset = 0
  BY <1>0, <1>1, <1>2 DEF ScrollInv, UnderWay
<1> QED
  BY <1>6, <1>7, <1>8, <1>9 DEF ScrollInv, EmptyPageIsTheEnd

LEMMA AnswerKeepsScroll ==
    ASSUME ScrollTypeInv, NEW q \in Queries, QueryBlogOfFollow(q)
    PROVE  ScrollInv'
<1> DEFINE ids == Page(query[q].from)
<1>0. /\ ScrollInv /\ query \in [Queries -> QueryRecords] /\ alone \subseteq Queries
  BY DEF ScrollTypeInv, FeedPageTypeOK
<1>1. /\ query[q].step = "sent" /\ q \in UnderWay
      /\ query'[q].step = "answered" /\ query'[q].clear = query[q].clear
      /\ query'[q].from = query[q].from /\ query'[q].ids = ids
      /\ ids # <<>> => query'[q].next = NextCursor(ids, query[q].from)
      /\ \A p \in Queries : p # q => query'[p] = query[p]
      /\ UNCHANGED <<shown, cursor, alone, calm, followVars>>
      /\ ~query[q].clear => UNCHANGED base
  BY <1>0 DEF QueryBlogOfFollow, QueryRecords, UnderWay
<1>2. UnderWay' = UnderWay
  BY <1>1 DEF UnderWay
<1>3. calm => ~query[q].clear
  BY <1>0, <1>1 DEF ScrollInv
<1>4. calm' => Scrolled(shown)' /\ (cursor = Behind(Last(shown)))' /\ (base \subseteq Inbox)'
  BY <1>0, <1>1, <1>3, SameInbox DEF ScrollInv, Scrolled
<1>5. \A p \in alone' : query'[p].step = "answered" => p = q
  BY <1>0, <1>1, <1>2 DEF ScrollInv, UnderWay
<1>6. ASSUME q \in alone, query[q].clear \/ calm
      PROVE  /\ ids # <<>> => /\ Scrolled(ShownWith(q))'
                              /\ (query[q].next = Behind(Last(query[q].ids)))'
                              /\ (base \subseteq Inbox)'
             /\ ids = <<>> /\ ~query[q].clear => base \subseteq Range(shown)
  <2>1. PICK l : l = Last(ids)
    OBVIOUS
  <2>2. /\ ids # <<>> => /\ Scrolled(ShownWith(q))'
                         /\ NextCursor(ids, query[q].from) = Behind(l)
                         /\ base' \subseteq Inbox
        /\ ids = <<>> /\ ~query[q].clear => base \subseteq Range(shown)
    BY <1>6, <2>1, AnswerContinues
  <2>3. Last(query'[q].ids) = l /\ Behind(l)' = Behind(l) /\ Inbox' = Inbox
    BY <1>1, <2>1, SameInbox
  <2>4. (Behind(Last(query[q].ids)))' = Behind(l)'
    BY <2>3 DEF Behind, Seen
  <2> HIDE DEF ids
  <2> QED
    BY <1>1, <2>2, <2>3, <2>4
<1>7. \A p \in alone' :
         query'[p].step = "answered" /\ query'[p].ids # <<>> /\ (query'[p].clear \/ calm') =>
            /\ Scrolled(ShownWith(p))'
            /\ (query[p].next = Behind(Last(query[p].ids)))'
            /\ (base \subseteq Inbox)'
  <2> TAKE p \in alone'
  <2> HAVE query'[p].step = "answered" /\ query'[p].ids # <<>> /\ (query'[p].clear \/ calm')
  <2>1. p = q
    BY <1>5
  <2> HIDE DEF ids
  <2> QED
    BY <1>1, <1>6, <2>1
<1>8. EmptyPageIsTheEnd'
  <2> HIDE DEF ids
  <2> QED
    BY <1>1, <1>3, <1>5, <1>6 DEF EmptyPageIsTheEnd
<1>9. /\ \A p \in alone' : query'[p].step # "idle"
      /\ \A p \in alone' \cap UnderWay' : UnderWay' = {p}
      /\ calm' => \A p \in UnderWay' : ~query'[p].clear /\ query'[p].from = cursor'
      /\ \A p \in UnderWay' : query'[p].clear => query'[p].from.offset = 0
  <2> HIDE DEF ids
  <2> QED
    BY <1>0, <1>1, <1>2 DEF ScrollInv, UnderWay
<1> QED
  BY <1>4, <1>7, <1>8, <1>9 DEF ScrollInv

LEMMA ApplyKeepsScroll ==
    ASSUME ScrollTypeInv, NEW q \in Queries, ApplyAnswer(q)
    PROVE  ScrollInv'
<1>0. /\ ScrollInv /\ query \in [Queries -> QueryRecords] /\ alone \subseteq Queries
      /\ shown \in Seq(Blogs) /\ query[q].ids \in Seq(Blogs) /\ query[q].clear \in BOOLEAN
  BY DEF ScrollTypeInv, FeedPageTypeOK, QueryRecords
<1>1. /\ query[q].step = "answered" /\ q \in UnderWay
      /\ query'[q].step = "past"
      /\ \A p \in Queries : p # q => query'[p] = query[p]
      /\ UNCHANGED <<alone, base, followVars>>
  BY <1>0 DEF ApplyAnswer, UnderWay, Past, Idle
<1>2. UnderWay' = UnderWay \ {q}
  BY <1>1 DEF UnderWay
<1>3. \A p \in alone' : query'[p].step # "idle" /\ query'[p].step # "answered" /\ p \notin UnderWay'
  BY <1>0, <1>1, <1>2 DEF ScrollInv, UnderWay
<1>4. \A p \in UnderWay' : query'[p].clear => query'[p].from.offset = 0
  BY <1>0, <1>1, <1>2 DEF ScrollInv, UnderWay
<1>5. CASE query[q].ids = <<>>
  <2>1. UNCHANGED <<shown, cursor, calm>>
    BY <1>5 DEF ApplyAnswer
  <2>2. calm' => \A p \in UnderWay' : ~query'[p].clear /\ query'[p].from = cursor'
    BY <1>0, <1>1, <1>2, <2>1 DEF ScrollInv, UnderWay
  <2>3. calm' => Scrolled(shown)' /\ (cursor = Behind(Last(shown)))' /\ (base \subseteq Inbox)'
    BY <1>0, <1>1, <2>1, SameInbox DEF ScrollInv, Scrolled
  <2> QED
    BY <1>3, <1>4, <2>2, <2>3 DEF ScrollInv, EmptyPageIsTheEnd
<1>6. CASE query[q].ids # <<>>
  <2>1. calm' = (q \in alone /\ (query[q].clear \/ calm))
    BY <1>6 DEF ApplyAnswer
  <2>2. calm' => q \in alone /\ (query[q].clear \/ calm)
    BY <2>1, Zenon
  <2>3. /\ shown' = IF query[q].clear THEN query[q].ids ELSE shown \o query[q].ids
        /\ cursor' = query[q].next
    BY <1>6 DEF ApplyAnswer
  <2>4. PICK list : list = ShownWith(q)
    OBVIOUS
  <2>5. shown' = list /\ Last(list) = Last(query[q].ids)
    BY <1>0, <1>6, <2>3, <2>4, LastOfBoth DEF ShownWith
  <2>6. calm' => UnderWay' = {}
    BY <1>0, <1>1, <1>2, <2>2 DEF ScrollInv
  <2>7. calm' => Scrolled(list) /\ cursor' = Behind(Last(list)) /\ base \subseteq Inbox
    BY <1>0, <1>1, <1>6, <2>2, <2>3, <2>4, <2>5 DEF ScrollInv
  <2>8. calm' => Scrolled(shown)' /\ (cursor = Behind(Last(shown)))' /\ (base \subseteq Inbox)'
    BY <1>1, <2>5, <2>7, SameInbox DEF Scrolled
  <2> QED
    BY <1>3, <1>4, <2>6, <2>8 DEF ScrollInv, EmptyPageIsTheEnd
<1> QED
  BY <1>5, <1>6

LEMMA MeanwhileKeepsScroll ==
    ASSUME ScrollTypeInv, FollowsTypeOK', Meanwhile
    PROVE  ScrollInv'
<1>0. /\ FollowsTypeOK /\ ScrollInv /\ query \in [Queries -> QueryRecords] /\ alone \subseteq Queries
      /\ shown \in Seq(Blogs)
  BY DEF ScrollTypeInv, FeedPageTypeOK
<1>1. /\ UNCHANGED <<shown, cursor, reachBottom, query, base>>
      /\ calm' = (calm /\ ~Disturbs(Last(shown)))
      /\ alone' = {q \in alone : query[q].ids # <<>> => ~Disturbs(Last(query[q].ids))}
  BY DEF Meanwhile
<1>2. calm' => calm /\ ~Disturbs(Last(shown))
  BY <1>1, Zenon
<1>3. \A q \in alone' : q \in alone /\ (query[q].ids # <<>> => ~Disturbs(Last(query[q].ids)))
  BY <1>1
<1>4. ASSUME NEW list \in Seq(Blogs), Scrolled(list) PROVE Last(list) \in Inbox
  <2>1. Len(list) \in DOMAIN list
    BY <1>4 DEF Scrolled
  <2> QED
    BY <1>4, <2>1 DEF Scrolled, Last, Range
<1>5. ASSUME calm'
      PROVE  Scrolled(shown)' /\ (cursor = Behind(Last(shown)))' /\ (base \subseteq Inbox)'
  <2>1. PICK list : list = shown
    OBVIOUS
  <2>2. list \in Seq(Blogs) /\ Scrolled(list) /\ cursor = Behind(Last(list)) /\ base \subseteq Inbox
        /\ ~Disturbs(Last(list))
    BY <1>0, <1>2, <1>5, <2>1 DEF ScrollInv
  <2>3. Scrolled(list)' /\ (base \subseteq Inbox)'
    BY <1>0, <1>1, <2>2, ScrolledStays
  <2>4. Behind(Last(list))' = Behind(Last(list))
    <3>1. PICK l \in Inbox : l = Last(list)
      BY <1>4, <2>2
    <3>2. Behind(l)' = Behind(l)
      BY <1>0, <2>2, <3>1, UndisturbedInbox
    <3> QED
      BY <3>1, <3>2 DEF Behind, Seen
  <2> QED
    BY <1>1, <2>1, <2>2, <2>3, <2>4 DEF Scrolled, Behind, Seen
<1>6. ASSUME NEW q \in alone', query[q].step = "answered", query[q].ids # <<>>,
             query[q].clear \/ calm'
      PROVE  /\ Scrolled(ShownWith(q))'
             /\ (query[q].next = Behind(Last(query[q].ids)))'
             /\ (base \subseteq Inbox)'
  <2>1. PICK list, l : list = ShownWith(q) /\ l = Last(query[q].ids)
    OBVIOUS
  <2>2. /\ Scrolled(list) /\ query[q].next = Behind(l) /\ base \subseteq Inbox /\ ~Disturbs(l)
    BY <1>0, <1>2, <1>3, <1>6, <2>1 DEF ScrollInv
  <2>3. list \in Seq(Blogs) /\ Last(list) = l
    BY <1>0, <1>3, <1>6, <2>1, LastOfBoth DEF ShownWith, QueryRecords
  <2>4. Scrolled(list)' /\ (base \subseteq Inbox)'
    BY <1>0, <1>1, <2>2, <2>3, ScrolledStays
  <2>5. Behind(l)' = Behind(l)
    BY <1>0, <1>4, <2>2, <2>3, UndisturbedInbox
  <2>6. ShownWith(q)' = list /\ Last(query'[q].ids) = l
    BY <1>1, <2>1 DEF ShownWith
  <2> QED
    BY <1>1, <2>2, <2>4, <2>5, <2>6 DEF Scrolled, Behind, Seen
<1>7. EmptyPageIsTheEnd'
  BY <1>0, <1>1, <1>2, <1>3 DEF ScrollInv, EmptyPageIsTheEnd
<1> QED
  BY <1>0, <1>1, <1>2, <1>3, <1>5, <1>6, <1>7 DEF ScrollInv, UnderWay

LEMMA ScrollStep ==
    ASSUME ScrollTypeInv, FollowsTypeOK', [Next]_vars
    PROVE  ScrollInv'
<1>1. ASSUME UNCHANGED <<shown, cursor, alone, calm, base, followVars>>,
             UNCHANGED query \/ \E q \in Queries : QueryFails(q)
      PROVE  ScrollInv'
  <2>1. /\ ScrollInv /\ query \in [Queries -> QueryRecords] /\ alone \subseteq Queries
    BY DEF ScrollTypeInv, FeedPageTypeOK
  <2>2. \A p \in Queries : query'[p] = query[p] \/ query'[p].step = "past"
    BY <1>1, <2>1 DEF QueryFails, Past, Idle
  <2>3. UnderWay' \subseteq UnderWay /\ \A p \in UnderWay' : query'[p] = query[p]
    BY <2>2 DEF UnderWay
  <2>4. calm' => Scrolled(shown)' /\ (cursor = Behind(Last(shown)))' /\ (base \subseteq Inbox)'
    BY <1>1, <2>1, SameInbox DEF ScrollInv, Scrolled
  <2>5. ASSUME NEW p \in alone', query'[p].step = "answered", query'[p].ids # <<>>,
               query'[p].clear \/ calm'
        PROVE  /\ Scrolled(ShownWith(p))'
               /\ (query[p].next = Behind(Last(query[p].ids)))'
               /\ (base \subseteq Inbox)'
    <3>1. query'[p] = query[p] /\ p \in alone
      BY <1>1, <2>1, <2>2, <2>5
    <3>2. ShownWith(p)' = ShownWith(p)
      BY <1>1, <3>1 DEF ShownWith
    <3>3. Scrolled(ShownWith(p)) /\ query[p].next = Behind(Last(query[p].ids)) /\ base \subseteq Inbox
      BY <1>1, <2>1, <2>5, <3>1 DEF ScrollInv
    <3> QED
      BY <1>1, <3>1, <3>2, <3>3, SameInbox DEF Scrolled, Behind, Seen
  <2>6. EmptyPageIsTheEnd'
    BY <1>1, <2>1, <2>2 DEF ScrollInv, EmptyPageIsTheEnd
  <2> QED
    BY <1>1, <2>1, <2>2, <2>3, <2>4, <2>5, <2>6 DEF ScrollInv
<1>2. ASSUME NEW q \in Queries, QueryFirst(q) PROVE ScrollInv'
  <2>1. Send(q, TRUE, cursor') /\ UNCHANGED <<shown, base, followVars>>
    BY <1>2, Zenon DEF QueryFirst
  <2>2. cursor'.offset = 0
    BY <1>2 DEF QueryFirst
  <2> QED
    BY <2>1, <2>2, SendKeepsScroll
<1>3. ASSUME NEW q \in Queries, QueryNext(q) PROVE ScrollInv'
  BY <1>3, SendKeepsScroll DEF QueryNext
<1>4. ASSUME NEW q \in Queries, QueryFails(q) PROVE ScrollInv'
  BY <1>1, <1>4 DEF QueryFails
<1>5. CASE ScrollOn
  BY <1>1, <1>5 DEF ScrollOn
<1>6. CASE UNCHANGED <<pageVars, followVars>>
  BY <1>1, <1>6 DEF pageVars
<1> QED
  BY <1>2, <1>3, <1>4, <1>5, <1>6, AnswerKeepsScroll, ApplyKeepsScroll, MeanwhileKeepsScroll
     DEF Next, FeedPageNext, vars

LEMMA ScrollInvariant == Spec => []ScrollInv
<1>1. Init => ScrollInv
  BY DEF Init, FeedPageInit, ScrollInv, UnderWay, Idle, EmptyPageIsTheEnd
<1>2. FollowsInv /\ FollowsInv' /\ TypeOK /\ ScrollInv /\ [Next]_vars => ScrollInv'
  BY ScrollStep DEF FollowsInv, TypeOK, ScrollTypeInv
<1> QED
  BY <1>1, <1>2, CommunityTypes, FollowsInvariant, PTL DEF Spec

\* The list is in the order of the inbox, each blog once, although blogs may share a
\* millisecond and the inbox grows between two pages.
THEOREM ScrollsInOrder == Spec => []ScrollInOrder
<1>1. ScrollInv => ScrollInOrder
  BY DEF ScrollInv, Scrolled, ScrollInOrder
<1> QED
  BY <1>1, ScrollInvariant, PTL

\* No blog is left out between two pages, for any number of blogs with one score.
THEOREM ScrollSkipsNothing == Spec => []NothingSkipped
<1>1. ScrollInv => NothingSkipped
  BY DEF ScrollInv, Scrolled, NothingSkipped
<1> QED
  BY <1>1, ScrollInvariant, PTL

\* The page may take an empty answer for the end of the feed.
THEOREM EmptyPagesEnd == Spec => []EmptyPageIsTheEnd
<1>1. ScrollInv => EmptyPageIsTheEnd
  BY DEF ScrollInv
<1> QED
  BY <1>1, ScrollInvariant, PTL
=============================================================================
