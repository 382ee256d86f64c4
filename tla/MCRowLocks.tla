----------------------------- MODULE MCRowLocks -----------------------------
(***************************************************************************)
(* Two bookings with overlapping slots, two payments of the first and one  *)
(* of the second, and an event for each of two orders.                     *)
(***************************************************************************)
EXTENDS RowLocks, TLC

CONSTANTS b1, b2, o1, o2, o3, e1, e2

MCBookingOf == o1 :> b1 @@ o2 :> b1 @@ o3 :> b2

MCOrderOf == e1 :> o1 @@ e2 :> o3

MCConflicts == {<<b1, b2>>, <<b2, b1>>}

Symmetric == Permutations(Txs)

=============================================================================
