--------------------------- MODULE MCPacketChain ---------------------------
(* Instances of PacketChain for TLC. *)
EXTENDS PacketChain

CONSTANTS c1, c2, p1, p2, p3, p4, A, B

\* Two capture threads; p1 and p2 belong to one device (assignment 1), the
\* others have no assignment. p1 and p4 carry the same frame, p3 none. With
\* one entry in the list p4 is a duplicate of p1 or, after p2, unique again.
FeedTwo == c1 :> <<p1, p2>> @@ c2 :> <<p3, p4>>
FrameTwo == p1 :> A @@ p2 :> B @@ p3 :> NoFrame @@ p4 :> A
AssignTwo == p1 :> 1 @@ p2 :> 1 @@ p3 :> 0 @@ p4 :> 0

=============================================================================
