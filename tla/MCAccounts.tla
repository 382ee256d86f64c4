------------------------------ MODULE MCAccounts ------------------------------
(***************************************************************************)
(* An instance of Accounts for TLC.  A behaviour has one of two loads:     *)
(* users who register, sign in and sign out, or administrators who change  *)
(* each other's status.  The two meet in no property, and together they    *)
(* would multiply the states.                                              *)
(***************************************************************************)
EXTENDS Accounts, TLC

VARIABLE load

MCInit == Init /\ load \in {"users", "administrators"}

MCNext ==
  /\ \E h \in Handlers :
       \/ load = "users" /\ AuthRequest(h)
       \/ load = "administrators" /\ AdminRequest(h)
       \/ Stops(h)
  /\ UNCHANGED load

MCSpec == MCInit /\ [][MCNext]_<<vars, load>>

\* Rows of one kind, phones and handlers are interchangeable.
Symmetric ==
  Permutations(Admins) \cup Permutations(Users \ Admins)
    \cup Permutations(Phones)
    \cup Permutations(Handlers)

=============================================================================
