---------------------------- MODULE MCCommunity ----------------------------
(* An instance of Community for TLC. *)
EXTENDS Community

CONSTANTS u1, u2, c1, c2, c3, b1, b2, b3, b4, q1, q2, q3

\* c1 and c2 are clicked by one user in one tab, c3 by another user; a tab is named
\* by its user.
Callers == [c \in Calls |-> IF c = c3 THEN u2 ELSE u1]
Owners == [t \in Tabs |-> t]

\* The ids of the blogs are 9, 10, 11 and 8, in the order of their bytes.
Ranks == [b \in Blogs |-> CASE b = b1 -> 4 [] b = b2 -> 1 [] b = b3 -> 2 [] b = b4 -> 3]

\* Empty inboxes, or b1, b2, b3 in the inbox of the viewer, pushed at any times.
NoBlogs == {[u \in Users |-> [b \in Blogs |-> 0]]}
ThreeBlogs ==
    LET times == {f \in [Blogs -> 0..InitTime] : \A b \in Blogs : f[b] = 0 <=> b = b4}
    IN  {[u \in Users |-> f] : f \in times}

Interchangeable == Permutations(Queries)
=============================================================================
