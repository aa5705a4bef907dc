-------------------------------- MODULE Likes --------------------------------
(***************************************************************************)
(* BlogServiceImpl.likeBlog on one blog: the button that likes a blog and, *)
(* pressed again, takes the like back.  The count is a column of tb_blog,  *)
(* the likers are a ZSet in Redis; a call reads the ZSet, updates the      *)
(* column and then the ZSet, in three steps that nothing holds together.   *)
(***************************************************************************)
EXTENDS Requests

VARIABLES
    liked,       \* tb_blog.liked, int UNSIGNED
    likers,      \* blog:liked:<id>
    likePc,      \* [Calls -> step of likeBlog]
    irregular    \* history: calls that overlapped one of the same user, or failed

likeVars == <<liked, likers, likePc, irregular>>

LikeSteps == {"idle", "inc", "add", "dec", "rem", "done"}

At(step) == {c \in Calls : likePc[c] = step}
Liking == {c \in Calls : likePc[c] \notin {"idle", "done"}}

LikesTypeOK ==
    /\ liked \in Nat
    /\ likers \subseteq Users
    /\ likePc \in [Calls -> LikeSteps]
    /\ irregular \subseteq Calls

\* Any blog the service has saved and that has been liked one call at a time (the rows
\* that db.sql brings along start with a like that nobody gave).
LikesInit ==
    /\ likers \in SUBSET Users
    /\ liked = Cardinality(likers)
    /\ likePc = [c \in Calls |-> "idle"]
    /\ irregular = {}

-----------------------------------------------------------------------------
\* ZSCORE decides whether the call is a like or takes one back.
LikeBlog(c) ==
    /\ likePc[c] = "idle"
    /\ likePc' = [likePc EXCEPT ![c] = IF CallerOf[c] \in likers THEN "dec" ELSE "inc"]
    /\ LET rivals == {d \in Liking : CallerOf[d] = CallerOf[c]}
       IN  irregular' = IF rivals = {} THEN irregular ELSE irregular \cup rivals \cup {c}
    /\ UNCHANGED <<liked, likers, faults>>

\* Mutant: the column is not updated.
IncLost(c) ==
    /\ likePc[c] = "inc"
    /\ likePc' = [likePc EXCEPT ![c] = "add"]
    /\ UNCHANGED <<liked, likers, irregular, faults>>

\* UPDATE tb_blog SET liked = liked + 1.
IncLiked(c) ==
    /\ likePc[c] = "inc"
    /\ liked' = liked + 1
    /\ likePc' = [likePc EXCEPT ![c] = "add"]
    /\ UNCHANGED <<likers, irregular, faults>>

AddLiker(c) ==
    /\ likePc[c] = "add"
    /\ likers' = likers \cup {CallerOf[c]}
    /\ likePc' = [likePc EXCEPT ![c] = "done"]
    /\ UNCHANGED <<liked, irregular, faults>>

\* UPDATE tb_blog SET liked = liked - 1: out of range for an UNSIGNED 0, and the
\* exception leaves the ZSet as it is.
DecLiked(c) ==
    /\ likePc[c] = "dec"
    /\ \/ /\ liked > 0
          /\ liked' = liked - 1
          /\ likePc' = [likePc EXCEPT ![c] = "rem"]
       \/ /\ liked = 0
          /\ likePc' = [likePc EXCEPT ![c] = "done"]
          /\ UNCHANGED liked
    /\ UNCHANGED <<likers, irregular, faults>>

\* Mutant: the liker stays in the ZSet.
KeepLiker(c) ==
    /\ likePc[c] = "rem"
    /\ likePc' = [likePc EXCEPT ![c] = "done"]
    /\ UNCHANGED <<liked, likers, irregular, faults>>

RemoveLiker(c) ==
    /\ likePc[c] = "rem"
    /\ likers' = likers \ {CallerOf[c]}
    /\ likePc' = [likePc EXCEPT ![c] = "done"]
    /\ UNCHANGED <<liked, irregular, faults>>

\* MySQL or Redis throws, or the process dies: nothing is undone.
LikeFails(c) ==
    /\ Fault
    /\ c \in Liking
    /\ likePc' = [likePc EXCEPT ![c] = "done"]
    /\ irregular' = irregular \cup {c}
    /\ UNCHANGED <<liked, likers>>

LikesNext ==
    \E c \in Calls :
       \/ LikeBlog(c) \/ IncLiked(c) \/ AddLiker(c) \/ DecLiked(c) \/ RemoveLiker(c)
       \/ LikeFails(c)

-----------------------------------------------------------------------------
(* Properties.                                                              *)

\* How far the column is off the ZSet, calls between the two updates set aside.
Drift == liked - Cardinality(likers) - Cardinality(At("add")) + Cardinality(At("rem"))
Finished == {c \in irregular : likePc[c] = "done"}

\* The column and the ZSet drift apart by at most one for each call that overlapped
\* another one of its user or failed half-way: a double tap is the only way, besides
\* faults, to a wrong count.
LikesDrift == -Cardinality(Finished) <= Drift /\ Drift <= Cardinality(Finished)

\* As long as no such call occurred, a like can be taken back: the UNSIGNED column
\* never refuses a decrement, however many users press at once.
LikeCanBeTakenBack == irregular = {} => \A c \in At("dec") : liked > 0

-----------------------------------------------------------------------------
(* The inductive invariant behind LikesDrift (CommunityProofs).             *)

\* A call that is not irregular has its user's entry of the ZSet to itself.
LikeAlone ==
    \A c \in Liking \ irregular :
       /\ \A d \in Liking : CallerOf[d] = CallerOf[c] => d = c
       /\ likePc[c] \in {"inc", "add"} <=> CallerOf[c] \notin likers

LikesInv == LikesTypeOK /\ LikeAlone /\ LikesDrift
=============================================================================
