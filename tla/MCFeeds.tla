------------------------------- MODULE MCFeeds -------------------------------
(***************************************************************************)
(* Small instances of BookFeed: two bids, one ask, quantities 0 and 1, and *)
(* updates of one level, of the best one on each side, or of a bid that    *)
(* pushes the other one out of the depth.                                  *)
(***************************************************************************)
EXTENDS BookFeed

Nothing == [p \in {} |-> 0]

Best == {2 :> q : q \in {0, 1}}

Sided(bids, asks) == [side \in Sides |-> IF side = "bids" THEN bids ELSE asks]

MCUpdates ==
  {Sided(ups, Nothing) : ups \in Best \cup {1 :> q : q \in {0, 1}}}
  \cup {Sided(Nothing, ups) : ups \in Best}
  \cup {Sided(bid, ask) : bid \in Best, ask \in Best}
  \cup {Sided((1 :> 0) @@ (2 :> 1), Nothing)}

\* A book with levels to lose, and one with none
MCBooks ==
  {[side \in Sides |-> [p \in Prices |-> IF (p = 2) = (side = "asks") THEN 1 ELSE 0]],
   [side \in Sides |-> [p \in Prices |-> 0]]}
=============================================================================
