------------------------------ MODULE Community ------------------------------
(***************************************************************************)
(* Likes, follows and the feed on one service: the calls of clients are    *)
(* served side by side, each is a like or a click on a follow button, and  *)
(* blogs are saved and read meanwhile.                                     *)
(***************************************************************************)
EXTENDS Likes, FeedPage

vars == <<likeVars, followVars, pageVars, faults>>

TypeOK == LikesTypeOK /\ FollowsTypeOK /\ FeedPageTypeOK /\ faults \in 0..MaxFaults

Init == LikesInit /\ FollowsInit /\ FeedPageInit /\ faults = 0

OneUseOfACall == \A c \in Calls : likePc'[c] = "idle" \/ followPc'[c] = "idle"

Next ==
    /\ \/ LikesNext /\ UNCHANGED <<followVars, pageVars>>
       \/ FeedPageNext /\ UNCHANGED likeVars
    /\ OneUseOfACall

Spec == Init /\ [][Next]_vars
=============================================================================
