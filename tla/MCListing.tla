------------------------------- MODULE MCListing -------------------------------
(***************************************************************************)
(* An instance of Listing for TLC.  A behaviour has one of two loads:      *)
(* reviews and edits while the profile is viewed, or edits while the       *)
(* listing is searched.  The two caches share no key, and together the     *)
(* loads would multiply the states.                                        *)
(***************************************************************************)
EXTENDS Listing, TLC

CONSTANT ProfileViewers  \* the viewers of the profile load, to bound it

VARIABLE load

MCInit == Init /\ load \in {"profile", "search"}

ProfileLoad ==
  \/ \E d \in Reviewers : ReviewRequest(d) \/ ReviewPurge(d)
  \/ \E e \in Editors : Edit(e) \/ DeleteProfile(e) \/ EditorStops(e)
  \/ \E w \in ProfileViewers : ProfileRequest(w)

SearchLoad ==
  \/ \E e \in Editors : EditRequest(e)
  \/ \E w \in Viewers : SearchRequest(w)

MCNext ==
  /\ (load = "profile" /\ ProfileLoad) \/ (load = "search" /\ SearchLoad)
       \/ Redis
  /\ UNCHANGED load

MCSpec == MCInit /\ [][MCNext]_<<vars, load>>

\* Bookings, reviewers and editors are interchangeable.
Symmetric ==
  Permutations(Reviewable) \cup Permutations(Reviewers)
    \cup Permutations(Editors)

=============================================================================
