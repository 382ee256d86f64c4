----------------------------- MODULE ListingProofs -----------------------------
(***************************************************************************)
(* What holds of the reviews of a provider and of its rating statistics    *)
(* for any number of bookings, reviewers and ratings, and then of what the *)
(* two caches of a listing show, for any number of editors and viewers,    *)
(* any number of changes and of outages.  The first half is about          *)
(* ReviewSpec; its invariant does not depend on how the average is         *)
(* computed, only on what it is computed from, and what the average is     *)
(* follows from a sum that counts stars.  Listing implements ReviewSpec,   *)
(* so the second half takes from it that the rating in the profile row is  *)
(* right.                                                                  *)
(***************************************************************************)
EXTENDS Listing, FiniteSetTheorems, TLAPS

-----------------------------------------------------------------------------
(* The inductive invariant of the reviews *)

\* Statistics that are an aggregate of some table of reviews.
AnyStats == {Aggregate(t) : t \in [Reviewable -> Ratings \cup {0}]}

AnyDraft == [pc : {"idle", "checked", "written", "aggregated", "committed"},
             b : Reviewable \cup {NoBooking}, rating : Ratings \cup {0},
             creates : BOOLEAN, agg : AnyStats, alone : BOOLEAN]

Shapes ==
  /\ review \in [Reviewable -> Ratings \cup {0}]
  /\ stats \in AnyStats
  /\ draft \in [Reviewers -> AnyDraft]
  /\ serial \in BOOLEAN

\* A request knows its booking and its rating.
Bound(d) == draft[d].pc # "idle" => draft[d].b \in Reviewable /\ draft[d].rating \in Ratings

\* The lock on the row of the booking.
RowsApart ==
  \A d, g \in Reviewers :
    d # g /\ InTransaction(d) /\ InTransaction(g) => draft[d].b # draft[g].b

\* An insert that has succeeded found no review.
FreshRow(d) == InTransaction(d) /\ draft[d].creates => review[draft[d].b] = 0

\* A transaction that is alone is the only one.
AloneIsAlone(d) ==
  InTransaction(d) /\ draft[d].alone =>
    \A g \in Reviewers \ {d} : ~InTransaction(g)

\* ... and its aggregate is still that of what it sees.
AloneIsExact(d) ==
  draft[d].pc = "aggregated" /\ draft[d].alone =>
    draft[d].agg = Aggregate(Visible(d))

\* An aggregate never counts more than what will be there.
CountsLess(d) ==
  draft[d].pc = "aggregated" =>
    draft[d].agg.total <= Cardinality(Reviewed(Visible(d)))

ReviewInv ==
  /\ Shapes
  /\ \A d \in Reviewers : /\ Bound(d) /\ FreshRow(d)
                          /\ AloneIsAlone(d) /\ AloneIsExact(d) /\ CountsLess(d)
  /\ RowsApart
  /\ RatingIsExact
  /\ NoPhantomReview

-----------------------------------------------------------------------------
(* Aggregates *)

LEMMA ReviewedFinite ==
  ASSUME NEW t
  PROVE  /\ IsFiniteSet(Reviewed(t))
         /\ Cardinality(Reviewed(t)) \in Nat
<1>1. Reviewed(t) \subseteq Reviewable
  BY DEF Reviewed
<1> QED BY <1>1, ReviewAssumption, FS_Subset, FS_CardinalityType

LEMMA MoreReviewed ==
  ASSUME NEW t, NEW s, Reviewed(t) \subseteq Reviewed(s)
  PROVE  Cardinality(Reviewed(t)) <= Cardinality(Reviewed(s))
BY ReviewedFinite, FS_Subset

LEMMA AggregateTotal ==
  ASSUME NEW t
  PROVE  Aggregate(t).total = Cardinality(Reviewed(t))
BY DEF Aggregate

\* An empty table has the statistics a new profile starts with.
LEMMA AggregateOfNone ==
  /\ Aggregate([b \in Reviewable |-> 0]) = NoStats
  /\ NoStats \in AnyStats
<1> DEFINE t == [b \in Reviewable |-> 0]
<1>1. Reviewed(t) = {}
  BY DEF Reviewed
<1>2. Cardinality(Reviewed(t)) = 0
  BY <1>1, FS_EmptySet
<1>3. Aggregate(t) = NoStats
  BY <1>2 DEF Aggregate, Average, NoStats
<1>4. t \in [Reviewable -> Ratings \cup {0}]
  OBVIOUS
<1> QED BY <1>3, <1>4 DEF AnyStats

\* A rating is never the 0 of a missing review.
LEMMA RatingIsPositive == \A r \in Ratings : r # 0 /\ r \in Nat
BY ReviewAssumption

LEMMA VisibleShape ==
  ASSUME ReviewInv, NEW d \in Reviewers, draft[d].pc # "idle"
  PROVE  /\ Visible(d) \in [Reviewable -> Ratings \cup {0}]
         /\ Aggregate(Visible(d)) \in AnyStats
         /\ Reviewed(Visible(d)) = Reviewed(review) \cup {draft[d].b}
<1>1. draft[d].b \in Reviewable /\ draft[d].rating \in Ratings
  BY DEF ReviewInv, Bound
<1>2. Visible(d) \in [Reviewable -> Ratings \cup {0}]
  BY <1>1 DEF ReviewInv, Shapes, Visible
<1>3. Aggregate(Visible(d)) \in AnyStats
  BY <1>2 DEF AnyStats
<1>4. \A b \in Reviewable :
        Visible(d)[b] = IF b = draft[d].b THEN draft[d].rating ELSE review[b]
  BY <1>1 DEF ReviewInv, Shapes, Visible
<1>5. Reviewed(Visible(d)) = Reviewed(review) \cup {draft[d].b}
  BY <1>1, <1>4, RatingIsPositive DEF Reviewed
<1> QED BY <1>2, <1>3, <1>5

-----------------------------------------------------------------------------
(* Steps *)

LEMMA InitReviewInv == ReviewInit => ReviewInv
<1> SUFFICES ASSUME ReviewInit PROVE ReviewInv
  OBVIOUS
<1>1. Shapes
  BY AggregateOfNone DEF ReviewInit, Shapes, AnyDraft, NoDraft
<1>2. \A d \in Reviewers : draft[d].pc = "idle"
  BY DEF ReviewInit, NoDraft
<1>3. RatingIsExact
  BY AggregateOfNone DEF ReviewInit, RatingIsExact
<1>4. stats.total = 0
  BY DEF ReviewInit, NoStats
<1>5. NoPhantomReview
  BY <1>4, ReviewedFinite DEF NoPhantomReview
<1> QED
  BY <1>1, <1>2, <1>3, <1>5
  DEF ReviewInv, Bound, FreshRow, AloneIsAlone, AloneIsExact, CountsLess,
      RowsApart, InTransaction

\* A step that takes one request out of, or not into, a transaction and leaves
\* the tables alone.
LEMMA QuietStep ==
  ASSUME ReviewInv, NEW d \in Reviewers, NEW r \in AnyDraft,
         SetDraft(d, r), UNCHANGED <<review, stats, serial>>,
         r.pc \in {"idle", "checked", "committed"},
         r.pc # "idle" => r.b \in Reviewable /\ r.rating \in Ratings
  PROVE  ReviewInv'
<1> USE DEF ReviewInv
<1>1. draft' = [draft EXCEPT ![d] = r]
  BY DEF SetDraft
<1>2. /\ draft'[d] = r
      /\ \A g \in Reviewers \ {d} : draft'[g] = draft[g]
  BY <1>1 DEF Shapes
<1>3. Shapes'
  BY <1>1 DEF Shapes
<1>4. \A g \in Reviewers \ {d} : Visible(g)' = Visible(g)
  BY <1>2 DEF Visible
<1>5. ~InTransaction(d)'
  BY <1>2 DEF InTransaction
<1>6. \A g \in Reviewers \ {d} : InTransaction(g)' <=> InTransaction(g)
  BY <1>2 DEF InTransaction
<1>7. ASSUME NEW g \in Reviewers
      PROVE  /\ Bound(g)' /\ FreshRow(g)'
             /\ AloneIsAlone(g)' /\ AloneIsExact(g)' /\ CountsLess(g)'
  <2>1. CASE g = d
    BY <1>2, <1>5, <2>1
    DEF Bound, FreshRow, AloneIsAlone, AloneIsExact, CountsLess
  <2>2. CASE g # d
    <3>1. draft'[g] = draft[g]
      BY <1>2, <2>2
    <3>2. Visible(g)' = Visible(g)
      BY <1>4, <2>2
    <3>3. Bound(g)' /\ FreshRow(g)'
      BY <1>6, <2>2, <3>1 DEF Bound, FreshRow
    <3>4. AloneIsAlone(g)'
      BY <1>5, <1>6, <2>2, <3>1 DEF AloneIsAlone
    <3>5. AloneIsExact(g)'
      BY <3>1, <3>2 DEF AloneIsExact
    <3>6. CountsLess(g)'
      BY <3>1, <3>2 DEF CountsLess
    <3> QED BY <3>3, <3>4, <3>5, <3>6
  <2> QED BY <2>1, <2>2
<1>8. RowsApart'
  BY <1>2, <1>5, <1>6 DEF RowsApart
<1>9. RatingIsExact' /\ NoPhantomReview'
  BY DEF RatingIsExact, NoPhantomReview
<1> QED BY <1>3, <1>7, <1>8, <1>9

LEMMA NoDraftShape == NoDraft \in AnyDraft /\ NoDraft.pc = "idle"
BY AggregateOfNone DEF NoDraft, AnyDraft

LEMMA WriteReviewStep ==
  ASSUME ReviewInv, NEW d \in Reviewers, WriteReview(d)
  PROVE  ReviewInv'
<1>1. CASE UniqueViolation(d)
  BY <1>1, NoDraftShape, QuietStep DEF WriteReview
<1>2. CASE ~UniqueViolation(d)
  <2> USE DEF ReviewInv
  <2>0. draft[d].pc = "checked" /\ ~RowLocked(d)
    BY DEF WriteReview
  <2>1. draft' = [g \in Reviewers |->
            IF g = d
            THEN [draft[d] EXCEPT !.pc = "written",
                    !.alone = \A f \in Reviewers : ~InTransaction(f)]
            ELSE [draft[g] EXCEPT !.alone = FALSE]]
    BY <1>2 DEF WriteReview
  <2>2. UNCHANGED <<review, stats, serial>>
    BY DEF WriteReview
  <2>3. /\ draft'[d] = [draft[d] EXCEPT !.pc = "written",
                          !.alone = \A f \in Reviewers : ~InTransaction(f)]
        /\ \A g \in Reviewers \ {d} :
             draft'[g] = [draft[g] EXCEPT !.alone = FALSE]
    BY <2>1
  <2>4. draft[d] \in AnyDraft /\ \A g \in Reviewers : draft[g] \in AnyDraft
    BY DEF Shapes
  <2>5. /\ draft'[d].pc = "written" /\ draft'[d].b = draft[d].b
        /\ draft'[d].rating = draft[d].rating
        /\ draft'[d].creates = draft[d].creates
        /\ draft'[d].alone = (\A f \in Reviewers : ~InTransaction(f))
        /\ draft'[d].agg = draft[d].agg
    BY <2>3, <2>4 DEF AnyDraft
  <2>6. ASSUME NEW g \in Reviewers \ {d}
        PROVE  /\ draft'[g].pc = draft[g].pc /\ draft'[g].b = draft[g].b
               /\ draft'[g].rating = draft[g].rating
               /\ draft'[g].creates = draft[g].creates
               /\ draft'[g].alone = FALSE
               /\ draft'[g].agg = draft[g].agg
    <3>1. draft[g] \in AnyDraft /\ draft'[g] = [draft[g] EXCEPT !.alone = FALSE]
      BY <2>3, <2>4
    <3> QED BY <3>1 DEF AnyDraft
  <2>7. Shapes'
    <3>1. [draft[d] EXCEPT !.pc = "written",
             !.alone = \A f \in Reviewers : ~InTransaction(f)] \in AnyDraft
      BY <2>4 DEF AnyDraft
    <3>2. \A g \in Reviewers : [draft[g] EXCEPT !.alone = FALSE] \in AnyDraft
      BY <2>4 DEF AnyDraft
    <3>3. draft' \in [Reviewers -> AnyDraft]
      BY <2>1, <3>1, <3>2
    <3> QED BY <2>2, <3>3 DEF Shapes
  <2>8. \A g \in Reviewers \ {d} : InTransaction(g)' <=> InTransaction(g)
    BY <2>6 DEF InTransaction
  <2>9. \A g \in Reviewers : Visible(g)' = Visible(g)
    BY <2>2, <2>5, <2>6 DEF Visible
  <2>10. ~InTransaction(d)
    BY <2>0 DEF InTransaction
  <2>11. ASSUME NEW g \in Reviewers
         PROVE  /\ Bound(g)' /\ FreshRow(g)'
                /\ AloneIsAlone(g)' /\ AloneIsExact(g)' /\ CountsLess(g)'
    <3>1. CASE g = d
      <4>1. Bound(g)'
        BY <2>0, <2>5, <3>1 DEF Bound
      <4>2. FreshRow(g)'
        BY <1>2, <2>2, <2>5, <3>1 DEF FreshRow, UniqueViolation
      <4>3. AloneIsAlone(g)'
        BY <2>5, <2>8, <3>1 DEF AloneIsAlone
      <4>4. AloneIsExact(g)' /\ CountsLess(g)'
        BY <2>5, <3>1 DEF AloneIsExact, CountsLess
      <4> QED BY <4>1, <4>2, <4>3, <4>4
    <3>2. CASE g # d
      <4>1. Bound(g)' /\ FreshRow(g)'
        BY <2>2, <2>6, <2>8, <3>2 DEF Bound, FreshRow
      <4>2. AloneIsAlone(g)' /\ AloneIsExact(g)'
        BY <2>6, <3>2 DEF AloneIsAlone, AloneIsExact
      <4>3. CountsLess(g)'
        BY <2>6, <2>9, <3>2 DEF CountsLess
      <4> QED BY <4>1, <4>2, <4>3
    <3> QED BY <3>1, <3>2
  <2>12. RowsApart'
    <3>1. ASSUME NEW g \in Reviewers \ {d}, InTransaction(g)'
          PROVE  draft'[g].b # draft'[d].b
      BY <2>0, <2>5, <2>6, <2>8, <3>1 DEF RowLocked
    <3>2. ASSUME NEW g \in Reviewers \ {d}, NEW f \in Reviewers \ {d}, g # f,
                 InTransaction(g)', InTransaction(f)'
          PROVE  draft'[g].b # draft'[f].b
      <4>1. draft'[g].b = draft[g].b /\ InTransaction(g)
        BY <2>6, <2>8, <3>2
      <4>2. draft'[f].b = draft[f].b /\ InTransaction(f)
        BY <2>6, <2>8, <3>2
      <4>3. draft[g].b # draft[f].b
        BY <3>2, <4>1, <4>2 DEF RowsApart
      <4> QED BY <4>1, <4>2, <4>3
    <3> QED BY <3>1, <3>2 DEF RowsApart
  <2>13. RatingIsExact' /\ NoPhantomReview'
    BY <2>2 DEF RatingIsExact, NoPhantomReview
  <2> QED BY <2>7, <2>11, <2>12, <2>13
<1> QED BY <1>1, <1>2

LEMMA AggregateStep ==
  ASSUME ReviewInv, NEW d \in Reviewers, AggregateRatings(d)
  PROVE  ReviewInv'
<1> USE DEF ReviewInv
<1> DEFINE r == [draft[d] EXCEPT !.pc = "aggregated", !.agg = Aggregate(Visible(d))]
<1>0. draft[d].pc = "written"
  BY DEF AggregateRatings
<1>1. draft' = [draft EXCEPT ![d] = r] /\ UNCHANGED <<review, stats, serial>>
  BY DEF AggregateRatings, SetDraft, SeenByAggregate
<1>2. draft[d] \in AnyDraft
  BY DEF Shapes
<1>3. Aggregate(Visible(d)) \in AnyStats
  BY <1>0, VisibleShape
<1>4. r \in AnyDraft
  BY <1>2, <1>3 DEF AnyDraft
<1>5. Shapes'
  BY <1>1, <1>4 DEF Shapes
<1>6. /\ draft'[d].pc = "aggregated" /\ draft'[d].b = draft[d].b
      /\ draft'[d].rating = draft[d].rating
      /\ draft'[d].creates = draft[d].creates
      /\ draft'[d].alone = draft[d].alone
      /\ draft'[d].agg = Aggregate(Visible(d))
  BY <1>1, <1>2 DEF Shapes, AnyDraft
<1>7. \A g \in Reviewers \ {d} : draft'[g] = draft[g]
  BY <1>1 DEF Shapes
<1>8. \A g \in Reviewers : InTransaction(g)' <=> InTransaction(g)
  BY <1>0, <1>6, <1>7 DEF InTransaction
<1>9. \A g \in Reviewers : Visible(g)' = Visible(g)
  BY <1>1, <1>6, <1>7 DEF Visible
<1>10. ASSUME NEW g \in Reviewers
       PROVE  /\ Bound(g)' /\ FreshRow(g)'
              /\ AloneIsAlone(g)' /\ AloneIsExact(g)' /\ CountsLess(g)'
  <2>1. CASE g = d
    <3>1. Bound(g)' /\ FreshRow(g)'
      BY <1>0, <1>1, <1>6, <1>8, <2>1 DEF Bound, FreshRow
    <3>2. AloneIsAlone(g)'
      BY <1>6, <1>8, <2>1 DEF AloneIsAlone
    <3>3. AloneIsExact(g)'
      BY <1>6, <1>9, <2>1 DEF AloneIsExact
    <3>4. draft'[g].agg.total = Cardinality(Reviewed(Visible(g)'))
      BY <1>6, <1>9, <2>1, AggregateTotal
    <3>5. CountsLess(g)'
      BY <3>4, ReviewedFinite DEF CountsLess
    <3> QED BY <3>1, <3>2, <3>3, <3>5
  <2>2. CASE g # d
    <3>1. Bound(g)' /\ FreshRow(g)'
      BY <1>1, <1>7, <1>8, <2>2 DEF Bound, FreshRow
    <3>2. AloneIsAlone(g)'
      BY <1>7, <1>8, <2>2 DEF AloneIsAlone
    <3>3. AloneIsExact(g)' /\ CountsLess(g)'
      BY <1>7, <1>9, <2>2 DEF AloneIsExact, CountsLess
    <3> QED BY <3>1, <3>2, <3>3
  <2> QED BY <2>1, <2>2
<1>11. RowsApart'
  BY <1>6, <1>7, <1>8 DEF RowsApart
<1>12. RatingIsExact' /\ NoPhantomReview'
  BY <1>1 DEF RatingIsExact, NoPhantomReview
<1> QED BY <1>5, <1>10, <1>11, <1>12

\* The row that is committed counts for the open transactions from now on: their
\* aggregates lag behind, and none of them is alone.
LEMMA CommitReviewStep ==
  ASSUME ReviewInv, NEW d \in Reviewers, CommitReview(d)
  PROVE  ReviewInv'
<1> USE DEF ReviewInv
<1> DEFINE r == [draft[d] EXCEPT !.pc = "committed"]
<1>0. draft[d].pc = "aggregated" /\ InTransaction(d)
  BY DEF CommitReview, InTransaction
<1>1. /\ draft' = [draft EXCEPT ![d] = r]
      /\ review' = Visible(d) /\ stats' = draft[d].agg
      /\ serial' = draft[d].alone
  BY DEF CommitReview, SetDraft, RatingStats
<1>2. draft[d] \in AnyDraft /\ draft[d].agg \in AnyStats /\ draft[d].alone \in BOOLEAN
  BY DEF Shapes, AnyDraft
<1>3. r \in AnyDraft
  BY <1>2 DEF AnyDraft
<1>4. Visible(d) \in [Reviewable -> Ratings \cup {0}]
      /\ Reviewed(Visible(d)) = Reviewed(review) \cup {draft[d].b}
  BY <1>0, VisibleShape
<1>5. Shapes'
  BY <1>1, <1>2, <1>3, <1>4 DEF Shapes
<1>6. /\ draft'[d].pc = "committed" /\ draft'[d].b = draft[d].b
      /\ draft'[d].rating = draft[d].rating
  BY <1>1, <1>2 DEF Shapes, AnyDraft
<1>7. \A g \in Reviewers \ {d} : draft'[g] = draft[g]
  BY <1>1 DEF Shapes
<1>8. ~InTransaction(d)' /\ \A g \in Reviewers \ {d} : InTransaction(g)' <=> InTransaction(g)
  BY <1>6, <1>7 DEF InTransaction
<1>9. \A g \in Reviewers \ {d} : InTransaction(g) => ~draft[g].alone
  BY <1>0 DEF AloneIsAlone
<1>10. \A b \in Reviewable : b # draft[d].b => review'[b] = review[b]
  BY <1>1 DEF Visible, Shapes
<1>11. ASSUME NEW g \in Reviewers
       PROVE  /\ Bound(g)' /\ FreshRow(g)'
              /\ AloneIsAlone(g)' /\ AloneIsExact(g)' /\ CountsLess(g)'
  <2>1. CASE g = d
    <3>1. Bound(g)'
      BY <1>0, <1>6, <2>1 DEF Bound
    <3>2. FreshRow(g)' /\ AloneIsAlone(g)' /\ AloneIsExact(g)' /\ CountsLess(g)'
      BY <1>6, <1>8, <2>1 DEF FreshRow, AloneIsAlone, AloneIsExact, CountsLess
    <3> QED BY <3>1, <3>2
  <2>2. CASE g # d
    <3>1. draft'[g] = draft[g] /\ (InTransaction(g)' <=> InTransaction(g))
      BY <1>7, <1>8, <2>2
    <3>2. Bound(g)'
      BY <3>1 DEF Bound
    <3>3. FreshRow(g)'
      <4> SUFFICES ASSUME InTransaction(g), draft[g].creates
                   PROVE  review'[draft[g].b] = 0
        BY <3>1 DEF FreshRow
      <4>1. draft[g].b \in Reviewable /\ draft[g].b # draft[d].b
        BY <1>0, <2>2 DEF RowsApart, Bound, InTransaction
      <4> QED BY <1>10, <4>1 DEF FreshRow
    <3>4. AloneIsAlone(g)' /\ AloneIsExact(g)'
      BY <1>9, <2>2, <3>1 DEF AloneIsAlone, AloneIsExact, InTransaction
    <3>5. CountsLess(g)'
      <4> SUFFICES ASSUME draft[g].pc = "aggregated"
                   PROVE  draft[g].agg.total <= Cardinality(Reviewed(Visible(g)'))
        BY <3>1 DEF CountsLess
      <4>1. draft[g].b \in Reviewable /\ draft[g].rating \in Ratings
        BY DEF Bound
      <4>2. Visible(g)' = [review' EXCEPT ![draft[g].b] = draft[g].rating]
        BY <3>1 DEF Visible
      <4>3. review' \in [Reviewable -> Ratings \cup {0}]
        BY <1>5 DEF Shapes
      <4>4. Reviewed(review) \subseteq Reviewed(review')
        BY <1>1, <1>4
      <4>5. Reviewed(review') \cup {draft[g].b} \subseteq Reviewed(Visible(g)')
        BY <4>1, <4>2, <4>3, RatingIsPositive DEF Reviewed
      <4>6. Reviewed(Visible(g)) = Reviewed(review) \cup {draft[g].b}
        BY VisibleShape
      <4>7. Cardinality(Reviewed(Visible(g))) <= Cardinality(Reviewed(Visible(g)'))
        BY <4>4, <4>5, <4>6, MoreReviewed
      <4>8. draft[g].agg.total <= Cardinality(Reviewed(Visible(g)))
        BY DEF CountsLess
      <4>9. draft[g].agg.total \in Nat
        <5>1. draft[g].agg \in AnyStats
          BY DEF Shapes, AnyDraft
        <5> QED BY <5>1, AggregateTotal, ReviewedFinite DEF AnyStats
      <4> QED BY <4>7, <4>8, <4>9, ReviewedFinite
    <3> QED BY <3>2, <3>3, <3>4, <3>5
  <2> QED BY <2>1, <2>2
<1>12. RowsApart'
  BY <1>7, <1>8 DEF RowsApart
<1>13. RatingIsExact'
  BY <1>0, <1>1 DEF RatingIsExact, AloneIsExact
<1>14. NoPhantomReview'
  BY <1>0, <1>1 DEF NoPhantomReview, CountsLess
<1> QED BY <1>5, <1>11, <1>12, <1>13, <1>14

LEMMA ReviewStepInv ==
  ASSUME ReviewInv, NEW d \in Reviewers, ReviewStep(d) \/ ReviewDone(d)
  PROVE  ReviewInv'
<1>1. ASSUME NEW b \in Reviewable, NEW r \in Ratings, CreateReview(d, b, r)
      PROVE  ReviewInv'
  <2> DEFINE n == [NoDraft EXCEPT !.pc = "checked", !.b = b, !.rating = r,
                                  !.creates = TRUE]
  <2>1. n \in AnyDraft /\ n.pc = "checked" /\ n.b = b /\ n.rating = r
    BY AggregateOfNone DEF NoDraft, AnyDraft
  <2>2. SetDraft(d, n) /\ UNCHANGED <<review, stats, serial>>
    BY <1>1 DEF CreateReview
  <2> HIDE DEF n
  <2> QED BY <2>1, <2>2, QuietStep
<1>2. ASSUME NEW b \in Reviewable, NEW r \in Ratings, UpdateReview(d, b, r)
      PROVE  ReviewInv'
  <2> DEFINE n == [NoDraft EXCEPT !.pc = "checked", !.b = b, !.rating = r]
  <2>1. n \in AnyDraft /\ n.pc = "checked" /\ n.b = b /\ n.rating = r
    BY AggregateOfNone DEF NoDraft, AnyDraft
  <2>2. SetDraft(d, n) /\ UNCHANGED <<review, stats, serial>>
    BY <1>2 DEF UpdateReview
  <2> HIDE DEF n
  <2> QED BY <2>1, <2>2, QuietStep
<1>3. CASE ReviewStops(d) \/ ReviewDone(d)
  BY <1>3, NoDraftShape, QuietStep DEF ReviewStops, ReviewDone
<1> QED
  BY <1>1, <1>2, <1>3, WriteReviewStep, AggregateStep, CommitReviewStep DEF ReviewStep

LEMMA ReviewStutter ==
  ASSUME ReviewInv, UNCHANGED reviewVars
  PROVE  ReviewInv'
BY DEF ReviewInv, reviewVars, Shapes, Bound, FreshRow, AloneIsAlone,
       AloneIsExact, CountsLess, RowsApart, RatingIsExact, NoPhantomReview,
       InTransaction, Visible

-----------------------------------------------------------------------------
(* Theorems *)

\* The invariant of the reviews holds in every reachable state.
THEOREM ReviewInvariance == ReviewSpec => []ReviewInv
<1>1. ReviewInit => ReviewInv
  BY InitReviewInv
<1>2. ReviewInv /\ [ReviewNext]_reviewVars => ReviewInv'
  BY ReviewStepInv, ReviewStutter DEF ReviewNext
<1> QED BY <1>1, <1>2, PTL DEF ReviewSpec

\* Whenever the last rating transaction met no other, the statistics of the
\* profile are those of the committed reviews (createReview, updateReview).
THEOREM RatingExact == ReviewSpec => []RatingIsExact
<1>1. ReviewInv => RatingIsExact
  BY DEF ReviewInv
<1> QED BY <1>1, ReviewInvariance, PTL

\* The statistics never count a review that is not there, however transactions
\* overlap, wait and roll back.
THEOREM NoReviewInvented == ReviewSpec => []NoPhantomReview
<1>1. ReviewInv => NoPhantomReview
  BY DEF ReviewInv
<1> QED BY <1>1, ReviewInvariance, PTL

\* A review is only replaced by a request that found it: two requests that both
\* found none do not both insert (the unique index on bookingId).
THEOREM ReviewsAreKept == ReviewSpec => ReviewIsKept
<1> DEFINE Kept ==
      \A b \in Reviewable :
        review[b] # 0 /\ review'[b] # review[b] =>
          review'[b] # 0 /\ \E d \in Reviewers :
                              /\ draft[d].b = b /\ ~draft[d].creates
                              /\ draft'[d].pc = "committed"
<1>1. ReviewInv /\ [ReviewNext]_reviewVars => [Kept]_reviewVars
  <2> SUFFICES ASSUME ReviewInv, ReviewNext, NEW b \in Reviewable,
                      review[b] # 0, review'[b] # review[b]
               PROVE  review'[b] # 0 /\ \E d \in Reviewers :
                              /\ draft[d].b = b /\ ~draft[d].creates
                              /\ draft'[d].pc = "committed"
    OBVIOUS
  <2>1. PICK d \in Reviewers : CommitReview(d)
    BY DEF ReviewNext, ReviewStep, ReviewDone, CreateReview, UpdateReview,
           WriteReview, AggregateRatings, ReviewStops
  <2>2. InTransaction(d) /\ draft[d].pc # "idle"
    BY <2>1 DEF CommitReview, InTransaction
  <2>3. draft[d] \in AnyDraft /\ draft[d].rating \in Ratings
        /\ review \in [Reviewable -> Ratings \cup {0}]
    BY <2>2 DEF ReviewInv, Shapes, Bound
  <2>4. review' = [review EXCEPT ![draft[d].b] = draft[d].rating]
    BY <2>1 DEF CommitReview, Visible
  <2>5. draft[d].b = b /\ review'[b] = draft[d].rating
    BY <2>3, <2>4
  <2>6. ~draft[d].creates
    BY <2>2, <2>5 DEF ReviewInv, FreshRow
  <2>7. draft'[d].pc = "committed"
    BY <2>1, <2>3 DEF CommitReview, SetDraft, ReviewInv, Shapes, AnyDraft
  <2> QED BY <2>3, <2>5, <2>6, <2>7, RatingIsPositive
<1> QED BY <1>1, ReviewInvariance, PTL DEF ReviewSpec, ReviewIsKept

-----------------------------------------------------------------------------
(* The average that is stored *)

\* Among subsets with a property one has no smaller subset with it.
LEMMA SmallestSubset ==
  ASSUME NEW S, IsFiniteSet(S), NEW Bad, Bad \subseteq SUBSET S, Bad # {}
  PROVE  \E U \in Bad : \A V \in SUBSET U : V # U => V \notin Bad
<1>1. Bad \subseteq FiniteSubsetsOf(S)
  BY FS_Subset DEF FiniteSubsetsOf
<1>2. PICK U \in Bad : \A V \in Bad : ~ (<<V, U>> \in StrictSubsetOrdering(S))
  BY <1>1, FS_StrictSubsetOrderingWellFounded, WFMin, Zenon
<1>3. \A V \in SUBSET U : V # U => V \notin Bad
  BY <1>2 DEF StrictSubsetOrdering
<1> QED BY <1>3

\* h solves the recursion of MapThenSumSet over the ratings t.
IsSum(h, t, S) ==
  h = [s \in SUBSET S |->
         IF s = {} THEN 0
         ELSE LET x == CHOOSE y \in s : TRUE IN t[x] + h[s \ {x}]]

LEMMA SumDef ==
  ASSUME NEW t, NEW S
  PROVE  MapThenSumSet(LAMBDA b : t[b], S) = (CHOOSE h : IsSum(h, t, S))[S]
BY Zenon DEF MapThenSumSet, MapThenFoldSet, IsSum

\* The stars that were given: a sum that does not depend on an order.
Stars(t, S) == {p \in S \X (1..5) : p[2] <= t[p[1]]}

\* Taking a booking out takes its stars out.
LEMMA StarsOfOneMore ==
  ASSUME NEW S, IsFiniteSet(S), NEW t, \A b \in S : t[b] \in 0..5,
         NEW s \in SUBSET S,
         NEW x \in s, IsFiniteSet(Stars(t, s \ {x}))
  PROVE  /\ IsFiniteSet(Stars(t, s))
         /\ Cardinality(Stars(t, s)) = t[x] + Cardinality(Stars(t, s \ {x}))
<1> DEFINE A == Stars(t, {x})
           B == Stars(t, s \ {x})
           f == [k \in 1..t[x] |-> <<x, k>>]
<1>1. t[x] \in 0..5
  OBVIOUS
<1>2. f \in Bijection(1..t[x], A)
  <2>1. \A k \in 1..t[x] : <<x, k>> \in A
    BY <1>1 DEF Stars
  <2>2. \A p \in A : \E k \in 1..t[x] : p = <<x, k>>
    BY <1>1 DEF Stars
  <2>3. \A k, l \in 1..t[x] : <<x, k>> = <<x, l>> => k = l
    OBVIOUS
  <2> HIDE DEF A
  <2> QED BY <2>1, <2>2, <2>3 DEF Bijection, Injection, Surjection, IsInjective
<1>3. IsFiniteSet(1..t[x]) /\ Cardinality(1..t[x]) = t[x]
  BY <1>1, FS_Interval
<1>4. IsFiniteSet(A) /\ Cardinality(A) = t[x]
  <2>1. ExistsBijection(1..t[x], A)
    BY <1>2 DEF ExistsBijection
  <2> HIDE DEF A
  <2> QED BY <1>3, <2>1, FS_Bijection
<1>5. A \cap B = {} /\ Stars(t, s) = A \cup B
  BY DEF Stars
<1>6. Cardinality(A \cap B) = 0
  BY <1>5, FS_EmptySet
<1> HIDE DEF A, B
<1>7. IsFiniteSet(B) /\ Cardinality(B) \in Nat
  BY FS_CardinalityType DEF B
<1>8. /\ IsFiniteSet(A \cup B)
      /\ Cardinality(A \cup B) = Cardinality(A) + Cardinality(B) - Cardinality(A \cap B)
  BY <1>4, <1>7, FS_Union
<1> QED BY <1>1, <1>4, <1>5, <1>6, <1>7, <1>8 DEF B

\* Between one and five stars for each booking whose rating is not 0.
LEMMA StarsBounded ==
  ASSUME NEW S, IsFiniteSet(S), NEW t, \A b \in S : t[b] \in 1..5,
         NEW T \in SUBSET S
  PROVE  /\ IsFiniteSet(Stars(t, T)) /\ IsFiniteSet(T)
         /\ Cardinality(T) \in Nat /\ Cardinality(Stars(t, T)) \in Nat
         /\ Cardinality(T) <= Cardinality(Stars(t, T))
         /\ Cardinality(Stars(t, T)) <= 5 * Cardinality(T)
<1> DEFINE Good(s) == /\ IsFiniteSet(Stars(t, s))
                      /\ Cardinality(s) <= Cardinality(Stars(t, s))
                      /\ Cardinality(Stars(t, s)) <= 5 * Cardinality(s)
           Bad == {s \in SUBSET S : ~Good(s)}
<1>1. \A s \in SUBSET S : IsFiniteSet(s) /\ Cardinality(s) \in Nat
  BY FS_Subset, FS_CardinalityType
<1>2. ASSUME Bad # {} PROVE FALSE
  <2>1. PICK s \in Bad : \A V \in SUBSET s : V # s => V \notin Bad
    <3> HIDE DEF Good
    <3>1. Bad \subseteq SUBSET S
      OBVIOUS
    <3> HIDE DEF Bad
    <3> QED BY <1>2, <3>1, SmallestSubset
  <2>2. CASE s = {}
    <3>1. Stars(t, s) = {}
      BY <2>2 DEF Stars
    <3>2. Good(s)
      BY <2>2, <3>1, FS_EmptySet
    <3> QED BY <3>2
  <2>3. CASE s # {}
    <3>1. PICK x \in s : TRUE
      BY <2>3
    <3> DEFINE V == s \ {x}
    <3>2. V \in SUBSET s /\ V # s /\ V \in SUBSET S
      OBVIOUS
    <3>3. Good(V)
      BY <2>1, <3>2
    <3>4. (\A b \in S : t[b] \in 0..5) /\ t[x] \in 1..5
      OBVIOUS
    <3>5. /\ IsFiniteSet(Stars(t, s))
          /\ Cardinality(Stars(t, s)) = t[x] + Cardinality(Stars(t, V))
      BY <3>3, <3>4, StarsOfOneMore
    <3>6. /\ Cardinality(V) = Cardinality(s) - 1
          /\ Cardinality(s) \in Nat /\ Cardinality(Stars(t, V)) \in Nat
      BY <1>1, <3>3, FS_RemoveElement, FS_CardinalityType
    <3>7. Good(s)
      BY <3>3, <3>4, <3>5, <3>6
    <3> QED BY <3>7
  <2> QED BY <2>2, <2>3
<1>3. Good(T)
  BY <1>2
<1> QED BY <1>1, <1>3, FS_CardinalityType

\* The sum of the ratings is the number of stars.
LEMMA SumCountsStars ==
  ASSUME NEW S, IsFiniteSet(S), NEW t, \A b \in S : t[b] \in 1..5
  PROVE  MapThenSumSet(LAMBDA b : t[b], S) = Cardinality(Stars(t, S))
<1>1. \A b \in S : t[b] \in 0..5
  OBVIOUS
<1>2. ASSUME NEW s \in SUBSET S, NEW x \in s
      PROVE  Cardinality(Stars(t, s)) = t[x] + Cardinality(Stars(t, s \ {x}))
  <2>1. IsFiniteSet(Stars(t, s \ {x}))
    BY StarsBounded
  <2> QED BY <1>1, <2>1, StarsOfOneMore
<1>3. Cardinality(Stars(t, {})) = 0
  <2>1. Stars(t, {}) = {}
    BY DEF Stars
  <2> QED BY <2>1, FS_EmptySet
<1>4. \E h : IsSum(h, t, S)
  <2> DEFINE h == [s \in SUBSET S |-> Cardinality(Stars(t, s))]
  <2>1. ASSUME NEW s \in SUBSET S
        PROVE  h[s] = IF s = {} THEN 0
                      ELSE LET x == CHOOSE y \in s : TRUE IN t[x] + h[s \ {x}]
    <3>1. CASE s = {}
      BY <1>3, <3>1
    <3>2. CASE s # {}
      <4> DEFINE x == CHOOSE y \in s : TRUE
      <4>1. x \in s /\ s \ {x} \in SUBSET S
        BY <3>2
      <4> HIDE DEF x
      <4>2. h[s] = t[x] + h[s \ {x}]
        BY <1>2, <4>1
      <4> QED BY <3>2, <4>2 DEF x
    <3> QED BY <3>1, <3>2
  <2>2. IsSum(h, t, S)
    BY <2>1 DEF IsSum
  <2> QED BY <2>2
<1>5. PICK h : IsSum(h, t, S) /\ MapThenSumSet(LAMBDA b : t[b], S) = h[S]
  BY <1>4, SumDef
<1> DEFINE Bad == {s \in SUBSET S : h[s] # Cardinality(Stars(t, s))}
<1>6. ASSUME Bad # {} PROVE FALSE
  <2>1. PICK s \in Bad : \A V \in SUBSET s : V # s => V \notin Bad
    <3>1. Bad \subseteq SUBSET S
      OBVIOUS
    <3> HIDE DEF Bad
    <3> QED BY <1>6, <3>1, SmallestSubset
  <2>2. CASE s = {}
    BY <1>3, <1>5, <2>2 DEF IsSum
  <2>3. CASE s # {}
    <3> DEFINE x == CHOOSE y \in s : TRUE
    <3>1. h[s] = t[x] + h[s \ {x}]
      BY <1>5, <2>3 DEF IsSum
    <3>2. x \in s
      BY <2>3
    <3> HIDE DEF x
    <3>3. h[s \ {x}] = Cardinality(Stars(t, s \ {x}))
      BY <2>1, <3>2
    <3> QED BY <1>2, <3>1, <3>2, <3>3
  <2> QED BY <2>2, <2>3
<1> QED BY <1>5, <1>6


\* Rounding keeps an average of ratings between 1.00 and 5.00.
LEMMA AverageRange ==
  ASSUME NEW sum \in Nat, NEW n \in Nat
  PROVE  /\ Average(sum, n) \in Nat
         /\ n # 0 /\ n <= sum /\ sum <= 5 * n => Average(sum, n) \in 100..500
<1>1. ASSUME n # 0
      PROVE  (200 * sum + n) \div (2 * n) \in Nat
  BY <1>1
<1>2. ASSUME n # 0, n <= sum, sum <= 5 * n
      PROVE  (200 * sum + n) \div (2 * n) \in 100..500
  <2> DEFINE a == 200 * sum + n
             d == 2 * n
             q == a \div d
  <2>1. a \in Nat /\ d \in Nat \ {0} /\ q \in Nat
    BY <1>1, <1>2
  <2>2. 100 * d <= a /\ a < 501 * d
    BY <1>2
  <2> HIDE DEF a, d
  <2>3. d * q <= a /\ a < d * q + d
    BY <2>1
  <2> HIDE DEF q
  <2>4. ASSUME q <= 99 PROVE FALSE
    <3>1. d * q <= d * 99
      BY <2>1, <2>4
    <3> QED BY <2>1, <2>2, <2>3, <3>1
  <2>5. ASSUME q >= 501 PROVE FALSE
    <3>1. d * q >= d * 501
      BY <2>1, <2>5
    <3> QED BY <2>1, <2>2, <2>3, <3>1
  <2>6. q \in 100..500
    BY <2>1, <2>4, <2>5
  <2> QED BY <2>6 DEF q, a, d
<1> QED BY <1>1, <1>2 DEF Average

LEMMA AggregateType ==
  ASSUME NEW t \in [Reviewable -> Ratings \cup {0}]
  PROVE  /\ Aggregate(t) \in Stats
         /\ Aggregate(t).total # 0 => Aggregate(t).avg \in 100..500
<1> DEFINE S   == Reviewed(t)
           n   == Cardinality(S)
           sum == MapThenSumSet(LAMBDA b : t[b], S)
<1>1. IsFiniteSet(S) /\ \A b \in S : t[b] \in 1..5
  BY ReviewAssumption, FS_Subset DEF Reviewed
<1>2. sum = Cardinality(Stars(t, S))
  <2> HIDE DEF S
  <2> QED BY <1>1, SumCountsStars
<1>3. n \in Nat /\ sum \in Nat /\ n <= sum /\ sum <= 5 * n
  <2> HIDE DEF S
  <2> QED BY <1>1, <1>2, StarsBounded
<1>4. Aggregate(t) = [avg |-> Average(sum, n), total |-> n]
  BY Zenon DEF Aggregate
<1> HIDE DEF sum, n
<1>5. Average(sum, n) \in Nat /\ (n # 0 => Average(sum, n) \in 100..500)
  BY <1>3, AverageRange
<1> QED BY <1>3, <1>4, <1>5 DEF Stats

\* Types of the reviews, the statistics and the requests.
THEOREM ReviewTypes == ReviewSpec => []ReviewTypeOK
<1>1. AnyStats \subseteq Stats
  BY AggregateType DEF AnyStats
<1>2. AnyDraft \subseteq Draft
  BY <1>1 DEF AnyDraft, Draft
<1>3. ReviewInv => ReviewTypeOK
  BY <1>1, <1>2 DEF ReviewInv, Shapes, ReviewTypeOK
<1> QED BY <1>3, ReviewInvariance, PTL

\* The average of the profile, in hundredths, is that of ratings from 1 to 5 as
\* soon as a review is counted, however transactions overlap
\* (averageRating.toFixed(2)).
AverageIsARating == stats.total # 0 => stats.avg \in 100..500

THEOREM AveragesAreRatings == ReviewSpec => []AverageIsARating
<1>1. ReviewInv => AverageIsARating
  BY AggregateType DEF ReviewInv, Shapes, AnyStats, AverageIsARating
<1> QED BY <1>1, ReviewInvariance, PTL

-----------------------------------------------------------------------------
(* The inductive invariant of the caches *)

AnyEntry == [there : BOOLEAN, edition : Editions, stats : AnyStats,
             late : BOOLEAN]

AnyViewer == [pc : {"idle", "profile_fetch", "profile_set", "search_get",
                    "search_fetch", "search_set", "answered"},
              edition : Editions, stats : AnyStats, version : 0..MaxVersion,
              floor : Editions]

CacheShapes ==
  /\ edition \in Editions
  /\ profile \in AnyEntry
  /\ version \in 0..MaxVersion
  /\ results \in [Versions -> Result]
  /\ ready \in BOOLEAN /\ outages \in 0..MaxOutages
  /\ editor \in [Editors -> EditorStep]
  /\ viewer \in [Viewers -> AnyViewer]
  /\ wrote \in [Editors \cup Reviewers -> Editions]
  /\ purged \in Editions /\ bumped \in Editions

\* Nobody knows of a change that is not committed.
NothingAhead ==
  /\ \A x \in Editors \cup Reviewers : wrote[x] <= edition
  /\ purged <= edition /\ bumped <= edition
  /\ profile.edition <= edition
  /\ \A v \in Versions : results[v].edition <= edition
  /\ \A w \in Viewers : viewer[w].edition <= edition /\ viewer[w].floor <= edition

\* The version that searches read while the client is ready.
CurrentVersion == IF version = 0 THEN 1 ELSE version

Searching(w) == viewer[w].pc \in {"search_get", "search_fetch", "search_set"}

Filling(w) == viewer[w].pc = "search_set"

\* No key is used before the version has reached it.
NoFutureKey ==
  /\ \A v \in Versions : results[v].there => v <= CurrentVersion
  /\ \A w \in Viewers :
       Searching(w) => viewer[w].version \in Versions
                         /\ viewer[w].version <= CurrentVersion

\* What is stored, or will be, under the current version knows every change
\* that has moved the version on.
CurrentKeyIsFresh ==
  /\ results[CurrentVersion].there => results[CurrentVersion].edition >= bumped
  /\ \A w \in Viewers :
       Filling(w) /\ viewer[w].version = CurrentVersion =>
         viewer[w].edition >= bumped

\* A search is content with what is stored, or will be, under its version.
KeyServesSearch ==
  \A w \in Viewers : Searching(w) =>
    /\ results[viewer[w].version].there =>
         results[viewer[w].version].edition >= viewer[w].floor
    /\ \A x \in Viewers :
         Filling(x) /\ viewer[x].version = viewer[w].version =>
           viewer[x].edition >= viewer[w].floor

\* Who knows the newest edition knows the rating that belongs to it.
RatingOfEdition ==
  /\ profile.there /\ profile.edition = edition => profile.stats = stats
  /\ \A w \in Viewers :
       viewer[w].pc = "profile_set" /\ viewer[w].edition = edition =>
         viewer[w].stats = stats

SearchInv ==
  NoFutureKey /\ CurrentKeyIsFresh /\ KeyServesSearch /\ SearchIsFresh

ProfileInv == ProfileIsFresh /\ RatingOfEdition

ListingInv == CacheShapes /\ NothingAhead /\ SearchInv /\ ProfileInv

-----------------------------------------------------------------------------
(* Steps of the viewers *)

LEMMA ListingInit == Init => ListingInv
<1> SUFFICES ASSUME Init PROVE ListingInv
  OBVIOUS
<1> USE ListingAssumption
<1>1. NoStats \in AnyStats
  BY AggregateOfNone
<1>2. CacheShapes
  BY <1>1 DEF Init, CacheShapes, AnyEntry, AnyViewer, Missing, NoViewer,
              NoResult, Result, Versions, Editions, EditorStep
<1>3. NothingAhead
  BY DEF Init, NothingAhead, Missing, NoViewer, NoResult
<1>4. /\ \A w \in Viewers : ~Searching(w) /\ ~Filling(w)
      /\ \A w \in Viewers : viewer[w].pc = "idle"
  BY DEF Init, NoViewer, Searching, Filling
<1>5. CurrentVersion \in Versions /\ \A v \in Versions : ~results[v].there
  BY DEF Init, CurrentVersion, Versions, NoResult
<1>6. SearchInv
  BY <1>4, <1>5
  DEF SearchInv, NoFutureKey, CurrentKeyIsFresh, KeyServesSearch, SearchIsFresh
<1>7. ~profile.there
  BY DEF Init, Missing
<1>8. ProfileInv
  BY <1>4, <1>7 DEF ProfileInv, ProfileIsFresh, RatingOfEdition
<1> QED BY <1>2, <1>3, <1>6, <1>8 DEF ListingInv

LEMMA CurrentIsVersion ==
  ASSUME CacheShapes
  PROVE  CurrentVersion \in Versions
BY ListingAssumption DEF CacheShapes, CurrentVersion, Versions

\* A viewer goes on to r; r is content with what others store, and what it
\* will store itself is fresh enough for the others.
Admissible(w, r) ==
  /\ r \in AnyViewer
  /\ r.edition <= edition /\ r.floor <= edition
  /\ r.pc \in {"search_get", "search_fetch", "search_set"} =>
       /\ r.version \in Versions /\ r.version <= CurrentVersion
       /\ results[r.version].there => results[r.version].edition >= r.floor
       /\ \A x \in Viewers \ {w} :
            Filling(x) /\ viewer[x].version = r.version =>
              viewer[x].edition >= r.floor
  /\ r.pc = "search_set" =>
       /\ r.version = CurrentVersion => r.edition >= bumped
       /\ r.edition >= r.floor
       /\ \A x \in Viewers \ {w} :
            Searching(x) /\ viewer[x].version = r.version =>
              r.edition >= viewer[x].floor
  /\ r.pc = "answered" => r.edition >= r.floor
  /\ r.pc = "profile_set" /\ r.edition = edition => r.stats = stats

\* A step of one viewer that leaves the tables and the caches alone.
LEMMA ViewerStep ==
  ASSUME ListingInv, NEW w \in Viewers, NEW r, Admissible(w, r),
         SetViewer(w, r),
         UNCHANGED <<reviewVars, edition, cacheVars, editor, wrote, historyVars>>
  PROVE  ListingInv'
<1> USE DEF ListingInv
<1>1. UNCHANGED <<review, stats, edition, profile, version, results, ready,
                  outages, editor, wrote, purged, bumped>>
  BY DEF reviewVars, cacheVars, historyVars
<1>2. r \in AnyViewer
  BY DEF Admissible
<1>3. /\ viewer' = [viewer EXCEPT ![w] = r]
      /\ viewer'[w] = r
      /\ \A x \in Viewers \ {w} : viewer'[x] = viewer[x]
  BY DEF SetViewer, CacheShapes
<1>4. CacheShapes'
  BY <1>1, <1>2, <1>3 DEF CacheShapes
<1>5. NothingAhead'
  BY <1>1, <1>3 DEF NothingAhead, Admissible
<1>6. CurrentVersion' = CurrentVersion
  BY <1>1 DEF CurrentVersion
<1>7. \A x \in Viewers \ {w} : /\ Searching(x)' <=> Searching(x)
                               /\ Filling(x)' <=> Filling(x)
  BY <1>3 DEF Searching, Filling
<1>8. /\ Searching(w)' <=> r.pc \in {"search_get", "search_fetch", "search_set"}
      /\ Filling(w)' <=> r.pc = "search_set"
  BY <1>3 DEF Searching, Filling
<1>9. NoFutureKey'
  BY <1>1, <1>3, <1>6, <1>7, <1>8 DEF SearchInv, NoFutureKey, Admissible
<1>10. CurrentKeyIsFresh'
  BY <1>1, <1>3, <1>6, <1>7, <1>8 DEF SearchInv, CurrentKeyIsFresh, Admissible
<1>11. KeyServesSearch'
  <2> SUFFICES ASSUME NEW x \in Viewers, Searching(x)'
               PROVE  /\ results[viewer'[x].version].there =>
                           results[viewer'[x].version].edition >= viewer'[x].floor
                      /\ \A y \in Viewers :
                           Filling(y)' /\ viewer'[y].version = viewer'[x].version =>
                             viewer'[y].edition >= viewer'[x].floor
    BY <1>1 DEF KeyServesSearch
  <2>1. CASE x = w
    BY <1>3, <1>7, <1>8, <2>1 DEF Admissible
  <2>2. CASE x # w
    <3>1. Searching(x) /\ viewer'[x] = viewer[x]
      BY <1>3, <1>7, <2>2
    <3>2. \A y \in Viewers \ {w} : Filling(y)' => Filling(y) /\ viewer'[y] = viewer[y]
      BY <1>3, <1>7
    <3> QED BY <1>3, <1>8, <2>2, <3>1, <3>2 DEF SearchInv, KeyServesSearch, Admissible
  <2> QED BY <2>1, <2>2
<1>12. SearchIsFresh'
  BY <1>3 DEF SearchInv, SearchIsFresh, Admissible
<1>13. ProfileInv'
  BY <1>1, <1>3 DEF ProfileInv, ProfileIsFresh, RatingOfEdition, Admissible
<1> QED BY <1>4, <1>5, <1>9, <1>10, <1>11, <1>12, <1>13 DEF SearchInv

LEMMA NoViewerShape ==
  /\ NoViewer \in AnyViewer
  /\ NoViewer.pc = "idle" /\ NoViewer.edition = 0 /\ NoViewer.floor = 0
BY AggregateOfNone, ListingAssumption DEF NoViewer, AnyViewer, Editions

LEMMA NoViewerFits ==
  ASSUME ListingInv, NEW w \in Viewers
  PROVE  Admissible(w, NoViewer)
BY NoViewerShape DEF ListingInv, CacheShapes, Admissible, Editions

LEMMA ProfileGetStep ==
  ASSUME ListingInv, NEW w \in Viewers, ProfileGet(w)
  PROVE  ListingInv'
<1> DEFINE r == [NoViewer EXCEPT !.pc = "profile_fetch"]
<1>1. /\ r \in AnyViewer /\ r.pc = "profile_fetch" /\ r.edition = 0
      /\ r.floor = 0
  BY NoViewerShape DEF AnyViewer
<1>2. edition >= 0
  BY DEF ListingInv, CacheShapes, Editions
<1>3. /\ SetViewer(w, r)
      /\ UNCHANGED <<reviewVars, edition, cacheVars, editor, wrote, historyVars>>
  BY DEF ProfileGet
<1> HIDE DEF r
<1>4. Admissible(w, r)
  BY <1>1, <1>2 DEF Admissible
<1> QED BY <1>3, <1>4, ViewerStep

LEMMA ProfileFetchStep ==
  ASSUME ListingInv, ReviewInv, NEW w \in Viewers, ProfileFetch(w)
  PROVE  ListingInv'
<1> DEFINE r == [NoViewer EXCEPT !.pc = "profile_set", !.edition = edition,
                                 !.stats = stats]
<1>1. stats \in AnyStats
  BY DEF ReviewInv, Shapes
<1>2. edition \in Editions /\ edition >= 0 /\ edition <= edition
  BY DEF ListingInv, CacheShapes, Editions
<1>3. /\ r \in AnyViewer /\ r.pc = "profile_set" /\ r.edition = edition
      /\ r.floor = 0 /\ r.stats = stats
  BY <1>1, <1>2, NoViewerShape DEF AnyViewer
<1>4. /\ SetViewer(w, r)
      /\ UNCHANGED <<reviewVars, edition, cacheVars, editor, wrote, historyVars>>
  BY DEF ProfileFetch
<1> HIDE DEF r
<1>5. Admissible(w, r)
  BY <1>2, <1>3 DEF Admissible
<1> QED BY <1>4, <1>5, ViewerStep

LEMMA SearchStartStep ==
  ASSUME ListingInv, NEW w \in Viewers, SearchStart(w)
  PROVE  ListingInv'
<1> USE DEF ListingInv
<1> DEFINE f == IF ready THEN bumped ELSE 0
           r == [NoViewer EXCEPT !.pc = "search_get", !.version = SearchVersion,
                                 !.floor = f]
<1>1. /\ SearchVersion \in Versions /\ SearchVersion <= CurrentVersion
      /\ ready => SearchVersion = CurrentVersion
  BY ListingAssumption DEF CacheShapes, SearchVersion, CurrentVersion, Versions
<1>2. f \in Editions /\ f <= edition
  BY ListingAssumption DEF CacheShapes, NothingAhead, Editions
<1>3. /\ r \in AnyViewer /\ r.pc = "search_get" /\ r.edition = 0
      /\ r.version = SearchVersion /\ r.floor = f
  <2>1. SearchVersion \in 0..MaxVersion
    BY <1>1 DEF Versions
  <2> QED BY <1>2, <2>1, NoViewerShape DEF AnyViewer
<1>4. results[SearchVersion].there => results[SearchVersion].edition >= f
  <2>1. results[SearchVersion].edition >= 0
    BY <1>1 DEF CacheShapes, Result, Editions
  <2> QED BY <1>1, <2>1 DEF SearchInv, CurrentKeyIsFresh
<1>5. ASSUME NEW x \in Viewers, Filling(x), viewer[x].version = SearchVersion
      PROVE  viewer[x].edition >= f
  <2>1. viewer[x].edition >= 0
    BY DEF CacheShapes, AnyViewer, Editions
  <2> QED BY <1>1, <1>5, <2>1 DEF SearchInv, CurrentKeyIsFresh
<1>6. edition >= 0
  BY DEF CacheShapes, Editions
<1>7. SetViewer(w, r)
      /\ UNCHANGED <<reviewVars, edition, cacheVars, editor, wrote, historyVars>>
  BY DEF SearchStart
<1> HIDE DEF r, f
<1>8. Admissible(w, r)
  BY <1>1, <1>2, <1>3, <1>4, <1>5, <1>6 DEF Admissible
<1> QED BY <1>7, <1>8, ViewerStep

LEMMA SearchGetStep ==
  ASSUME ListingInv, NEW w \in Viewers, SearchGet(w)
  PROVE  ListingInv'
<1> USE DEF ListingInv
<1> DEFINE v == viewer[w].version
           miss == [viewer[w] EXCEPT !.pc = "search_fetch"]
           hit == [viewer[w] EXCEPT !.pc = "answered",
                                    !.edition = results[v].edition]
<1>1. viewer[w] \in AnyViewer /\ Searching(w)
  BY DEF SearchGet, CacheShapes, Searching
<1>2. v \in Versions /\ v <= CurrentVersion /\ results[v] \in Result
  BY <1>1 DEF SearchInv, NoFutureKey, CacheShapes
<1>3. UNCHANGED <<reviewVars, edition, cacheVars, editor, wrote, historyVars>>
  BY DEF SearchGet
<1>4. /\ viewer[w].edition <= edition /\ viewer[w].floor <= edition
  BY DEF NothingAhead
<1>5. CASE ready /\ results[v].there
  <2>1. SetViewer(w, hit)
    BY <1>5 DEF SearchGet
  <2>2. results[v].edition >= viewer[w].floor
    BY <1>1, <1>5 DEF SearchInv, KeyServesSearch
  <2>3. results[v].edition <= edition
    BY <1>2 DEF NothingAhead
  <2>4. /\ hit \in AnyViewer /\ hit.pc = "answered" /\ hit.floor = viewer[w].floor
        /\ hit.edition = results[v].edition
    BY <1>1, <1>2 DEF AnyViewer, Result
  <2> HIDE DEF hit
  <2>5. Admissible(w, hit)
    BY <1>4, <2>2, <2>3, <2>4 DEF Admissible
  <2> QED BY <1>3, <2>1, <2>5, ViewerStep
<1>6. CASE ~(ready /\ results[v].there)
  <2>1. SetViewer(w, miss)
    BY <1>6 DEF SearchGet
  <2>2. /\ miss \in AnyViewer /\ miss.pc = "search_fetch" /\ miss.version = v
        /\ miss.floor = viewer[w].floor /\ miss.edition = viewer[w].edition
    BY <1>1 DEF AnyViewer
  <2> HIDE DEF miss
  <2>3. Admissible(w, miss)
    BY <1>1, <1>2, <1>4, <2>2 DEF Admissible, SearchInv, KeyServesSearch
  <2> QED BY <1>3, <2>1, <2>3, ViewerStep
<1> QED BY <1>5, <1>6

LEMMA SearchFetchStep ==
  ASSUME ListingInv, NEW w \in Viewers, SearchFetch(w)
  PROVE  ListingInv'
<1> USE DEF ListingInv
<1> DEFINE r == [viewer[w] EXCEPT !.pc = "search_set", !.edition = edition]
<1>1. viewer[w] \in AnyViewer /\ Searching(w) /\ edition \in Editions
  BY DEF SearchFetch, CacheShapes, Searching
<1>2. /\ r \in AnyViewer /\ r.pc = "search_set" /\ r.edition = edition
      /\ r.version = viewer[w].version /\ r.floor = viewer[w].floor
  BY <1>1 DEF AnyViewer
<1>3. /\ SetViewer(w, r)
      /\ UNCHANGED <<reviewVars, edition, cacheVars, editor, wrote, historyVars>>
  BY DEF SearchFetch
<1>4. /\ r.version \in Versions /\ r.version <= CurrentVersion
      /\ edition >= bumped /\ edition >= edition
      /\ \A x \in Viewers : edition >= viewer[x].floor
  BY <1>1, <1>2
  DEF SearchInv, NoFutureKey, NothingAhead, CacheShapes, Editions, AnyViewer
<1> HIDE DEF r
<1>5. Admissible(w, r)
  BY <1>1, <1>2, <1>4
  DEF Admissible, SearchInv, KeyServesSearch, NothingAhead, Editions
<1> QED BY <1>3, <1>5, ViewerStep

LEMMA AnswerStep ==
  ASSUME ListingInv, NEW w \in Viewers, Answer(w)
  PROVE  ListingInv'
BY NoViewerFits, ViewerStep DEF Answer

\* getOrSet stores what it fetched.  An entry that is outdated by then is
\* marked late; any other one holds the newest edition.
LEMMA ProfileSetStep ==
  ASSUME ListingInv, NEW w \in Viewers, ProfileSet(w)
  PROVE  ListingInv'
<1> USE DEF ListingInv
<1> DEFINE e == [there |-> TRUE, edition |-> viewer[w].edition,
                 stats |-> viewer[w].stats, late |-> viewer[w].edition < edition]
<1>1. /\ viewer[w].pc = "profile_set" /\ viewer[w] \in AnyViewer
      /\ SetViewer(w, NoViewer)
      /\ profile' = IF ready THEN e ELSE profile
      /\ UNCHANGED <<review, stats, edition, version, results, ready, outages,
                     editor, wrote, purged, bumped>>
  BY DEF ProfileSet, CacheShapes, reviewVars, historyVars
<1>2. /\ viewer' = [viewer EXCEPT ![w] = NoViewer]
      /\ viewer'[w] = NoViewer
      /\ \A x \in Viewers \ {w} : viewer'[x] = viewer[x]
  BY <1>1 DEF SetViewer, CacheShapes
<1>3. e \in AnyEntry
  BY <1>1 DEF AnyEntry, AnyViewer
<1>4. CacheShapes'
  BY <1>1, <1>2, <1>3, NoViewerShape DEF CacheShapes
<1>5. viewer[w].edition <= edition /\ edition >= 0
  BY DEF NothingAhead, CacheShapes, Editions
<1>6. profile'.edition <= edition
  BY <1>1, <1>5 DEF NothingAhead
<1>7. NothingAhead'
  BY <1>1, <1>2, <1>5, <1>6, NoViewerShape DEF NothingAhead
<1>8. CurrentVersion' = CurrentVersion
  BY <1>1 DEF CurrentVersion
<1>9. \A x \in Viewers : /\ Searching(x)' => Searching(x) /\ viewer'[x] = viewer[x]
                         /\ Filling(x)' => Filling(x) /\ viewer'[x] = viewer[x]
  BY <1>2, NoViewerShape DEF Searching, Filling
<1>10. SearchIsFresh'
  BY <1>2, NoViewerShape DEF SearchInv, SearchIsFresh
<1>11. NoFutureKey' /\ CurrentKeyIsFresh' /\ KeyServesSearch'
  BY <1>1, <1>8, <1>9
  DEF SearchInv, NoFutureKey, CurrentKeyIsFresh, KeyServesSearch
<1>12. ProfileIsFresh'
  <2>1. CASE ready
    <3> SUFFICES ASSUME ~(viewer[w].edition < edition)
                 PROVE  viewer[w].edition >= purged
      BY <1>1, <2>1 DEF ProfileIsFresh
    <3> QED BY <1>1, <1>5 DEF NothingAhead, CacheShapes, AnyViewer, Editions
  <2>2. CASE ~ready
    BY <1>1, <2>2 DEF ProfileInv, ProfileIsFresh
  <2> QED BY <2>1, <2>2
<1>13. RatingOfEdition'
  BY <1>1, <1>2, NoViewerShape DEF ProfileInv, RatingOfEdition
<1> QED
  BY <1>4, <1>7, <1>10, <1>11, <1>12, <1>13 DEF SearchInv, ProfileInv

\* The key of a fill holds the version its search has read, so that a slow fill
\* does no harm to searches that have read a newer one.
LEMMA SearchSetStep ==
  ASSUME ListingInv, NEW w \in Viewers, SearchSet(w)
  PROVE  ListingInv'
<1> USE DEF ListingInv
<1> DEFINE v == viewer[w].version
           entry == [there |-> TRUE, edition |-> viewer[w].edition]
           r == [viewer[w] EXCEPT !.pc = "answered"]
<1>1. /\ viewer[w].pc = "search_set" /\ viewer[w] \in AnyViewer
      /\ Searching(w) /\ Filling(w)
      /\ viewer' = [viewer EXCEPT ![w] = r]
      /\ results' = IF ready THEN [results EXCEPT ![v] = entry] ELSE results
      /\ UNCHANGED <<review, stats, edition, profile, version, ready, outages,
                     editor, wrote, purged, bumped>>
  BY DEF SearchSet, SetViewer, StoredUnder, CacheShapes, reviewVars, historyVars,
         Searching, Filling
<1>2. /\ r \in AnyViewer /\ r.pc = "answered" /\ r.edition = viewer[w].edition
      /\ r.floor = viewer[w].floor
  BY <1>1 DEF AnyViewer
<1>3. /\ viewer'[w] = r
      /\ \A x \in Viewers \ {w} : viewer'[x] = viewer[x]
  BY <1>1 DEF CacheShapes
<1>4. v \in Versions /\ v <= CurrentVersion
  BY <1>1 DEF SearchInv, NoFutureKey
<1>5. entry \in Result /\ entry.there /\ entry.edition = viewer[w].edition
  BY <1>1 DEF Result, AnyViewer
<1> HIDE DEF r, entry
<1>6. CacheShapes'
  BY <1>1, <1>2, <1>4, <1>5 DEF CacheShapes
<1>7. \A u \in Versions :
        results'[u] = IF ready /\ u = v THEN entry ELSE results[u]
  BY <1>1, <1>4 DEF CacheShapes
<1>8. NothingAhead'
  BY <1>1, <1>2, <1>3, <1>5, <1>7 DEF NothingAhead
<1>9. CurrentVersion' = CurrentVersion /\ CurrentVersion \in Versions
  BY <1>1, CurrentIsVersion DEF CurrentVersion
<1>10. \A x \in Viewers :
         /\ Searching(x)' => Searching(x) /\ viewer'[x] = viewer[x]
         /\ Filling(x)' => Filling(x) /\ viewer'[x] = viewer[x]
  BY <1>2, <1>3 DEF Searching, Filling
<1>11. SearchIsFresh'
  <2>1. viewer[w].edition >= viewer[w].floor
    BY <1>1 DEF SearchInv, KeyServesSearch
  <2> QED BY <1>2, <1>3, <2>1 DEF SearchInv, SearchIsFresh
<1>12. NoFutureKey'
  BY <1>4, <1>7, <1>9, <1>10 DEF SearchInv, NoFutureKey
<1>13. CurrentKeyIsFresh'
  BY <1>1, <1>5, <1>7, <1>9, <1>10 DEF SearchInv, CurrentKeyIsFresh
<1>14. KeyServesSearch'
  <2> SUFFICES ASSUME NEW x \in Viewers, Searching(x)'
               PROVE  /\ results'[viewer'[x].version].there =>
                           results'[viewer'[x].version].edition >= viewer'[x].floor
                      /\ \A y \in Viewers :
                           Filling(y)' /\ viewer'[y].version = viewer'[x].version =>
                             viewer'[y].edition >= viewer'[x].floor
    BY DEF KeyServesSearch
  <2>1. Searching(x) /\ viewer'[x] = viewer[x] /\ viewer[x].version \in Versions
    BY <1>10 DEF SearchInv, NoFutureKey
  <2>2. results'[viewer[x].version].there =>
          results'[viewer[x].version].edition >= viewer[x].floor
    BY <1>1, <1>5, <1>7, <2>1 DEF SearchInv, KeyServesSearch
  <2>3. ASSUME NEW y \in Viewers, Filling(y)',
               viewer'[y].version = viewer'[x].version
        PROVE  viewer'[y].edition >= viewer'[x].floor
    BY <1>10, <2>1, <2>3 DEF SearchInv, KeyServesSearch
  <2> QED BY <2>1, <2>2, <2>3
<1>15. ProfileInv'
  BY <1>1, <1>2, <1>3 DEF ProfileInv, ProfileIsFresh, RatingOfEdition
<1> QED BY <1>6, <1>8, <1>11, <1>12, <1>13, <1>14, <1>15 DEF SearchInv

-----------------------------------------------------------------------------
(* Steps of the requests that change the listing, and of Redis *)

\* What a step leaves alone that changes no search: no viewer, no stored result,
\* no version.
LEMMA SearchFrame ==
  ASSUME SearchInv, UNCHANGED <<viewer, results, version, bumped>>
  PROVE  SearchInv'
BY DEF SearchInv, NoFutureKey, CurrentKeyIsFresh, KeyServesSearch, SearchIsFresh,
       CurrentVersion, Searching, Filling

\* A step of an editor or of Redis that commits nothing: a purge, an outage, an
\* entry that expires.
LEMMA QuietListingStep ==
  ASSUME ListingInv, editor' \in [Editors -> EditorStep],
         ready' \in BOOLEAN, outages' \in 0..MaxOutages,
         \/ UNCHANGED <<profile, purged>>
         \/ profile' = Missing /\ purged' \in Editions /\ purged' <= edition,
         UNCHANGED <<stats, edition, version, results, viewer, wrote, bumped>>
  PROVE  ListingInv'
<1> USE DEF ListingInv
<1>1. Missing \in AnyEntry /\ ~Missing.there /\ Missing.edition = 0
  BY AggregateOfNone, ListingAssumption DEF Missing, AnyEntry, Editions
<1>2. CacheShapes'
  BY <1>1 DEF CacheShapes
<1>3. NothingAhead'
  BY <1>1 DEF NothingAhead, CacheShapes, Editions
<1>4. SearchInv'
  BY SearchFrame
<1>5. ProfileInv'
  BY <1>1 DEF ProfileInv, ProfileIsFresh, RatingOfEdition
<1> QED BY <1>2, <1>3, <1>4, <1>5

LEMMA PurgeIsQuiet ==
  ASSUME ListingInv, NEW x \in Editors \cup Reviewers, Purge(x)
  PROVE  \/ UNCHANGED <<profile, purged>>
         \/ profile' = Missing /\ purged' \in Editions /\ purged' <= edition
BY DEF ListingInv, CacheShapes, NothingAhead, Purge, Later, Editions

\* A commit makes everything that is cached old.
LEMMA CommitStep ==
  ASSUME ListingInv, NEW x \in Editors \cup Reviewers, Commit(x),
         editor' \in [Editors -> EditorStep],
         UNCHANGED <<cacheVars, viewer, historyVars>>
  PROVE  ListingInv'
<1> USE DEF ListingInv
<1>1. /\ edition \in Editions /\ edition' = edition + 1 /\ edition' \in Editions
      /\ wrote' = [wrote EXCEPT ![x] = edition + 1]
  BY ListingAssumption DEF Commit, CacheShapes, Editions
<1>2. UNCHANGED <<profile, version, results, ready, outages, viewer, purged, bumped>>
  BY DEF cacheVars, historyVars
<1>3. CacheShapes'
  BY <1>1, <1>2 DEF CacheShapes
<1>4. \A n \in Editions : n <= edition => n <= edition' /\ n # edition'
  BY <1>1 DEF Editions
<1>5. NothingAhead'
  <2>1. \A y \in Editors \cup Reviewers : wrote'[y] <= edition'
    BY <1>1, <1>4 DEF NothingAhead, CacheShapes, Editions
  <2>2. profile.edition \in Editions /\ \A v \in Versions : results[v].edition \in Editions
    BY DEF CacheShapes, AnyEntry, Result
  <2>3. \A w \in Viewers : viewer[w].edition \in Editions /\ viewer[w].floor \in Editions
    BY DEF CacheShapes, AnyViewer
  <2> QED BY <1>2, <1>4, <2>1, <2>2, <2>3 DEF NothingAhead, CacheShapes
<1>6. SearchInv'
  BY <1>2, SearchFrame
<1>7. ProfileInv'
  <2>1. profile.edition # edition'
    BY <1>4 DEF NothingAhead, CacheShapes, AnyEntry
  <2>2. \A w \in Viewers : viewer[w].edition # edition'
    BY <1>4 DEF NothingAhead, CacheShapes, AnyViewer
  <2> QED BY <1>2, <2>1, <2>2 DEF ProfileInv, ProfileIsFresh, RatingOfEdition
<1> QED BY <1>3, <1>5, <1>6, <1>7

\* The version that is reached is new, so nothing is stored under it.
LEMMA IncrementStep ==
  ASSUME ListingInv, NEW e \in Editors, IncrementVersion(e)
  PROVE  ListingInv'
<1> USE DEF ListingInv
<1>1. /\ editor' = [editor EXCEPT ![e] = "idle"]
      /\ UNCHANGED <<stats, edition, profile, results, ready, outages, viewer,
                     wrote, purged>>
      /\ Bump(e)
  BY DEF IncrementVersion, reviewVars
<1>2. editor' \in [Editors -> EditorStep]
  BY <1>1 DEF CacheShapes, EditorStep
<1>3. CASE version' = version /\ bumped' = bumped
  BY <1>1, <1>2, <1>3, QuietListingStep DEF CacheShapes
<1>4. CASE version' = version + 1 /\ version = 0 /\ bumped' = bumped
  <2>1. version' \in 0..MaxVersion
    BY <1>4, ListingAssumption
  <2>2. CurrentVersion' = CurrentVersion
    BY <1>4 DEF CurrentVersion
  <2>3. SearchInv'
    BY <1>1, <1>4, <2>2
    DEF SearchInv, NoFutureKey, CurrentKeyIsFresh, KeyServesSearch, SearchIsFresh,
        Searching, Filling
  <2>4. CacheShapes' /\ NothingAhead'
    BY <1>1, <1>2, <1>4, <2>1 DEF CacheShapes, NothingAhead
  <2>5. ProfileInv'
    BY <1>1 DEF ProfileInv, ProfileIsFresh, RatingOfEdition
  <2> QED BY <2>3, <2>4, <2>5
<1>5. CASE /\ version < MaxVersion /\ version # 0 /\ version' = version + 1
           /\ bumped' = Later(bumped, wrote[e])
  <2>1. /\ version' \in 0..MaxVersion /\ bumped' \in Editions
        /\ bumped' <= edition
    BY <1>5, ListingAssumption DEF CacheShapes, NothingAhead, Later, Editions
  <2>2. CacheShapes' /\ NothingAhead'
    BY <1>1, <1>2, <2>1 DEF CacheShapes, NothingAhead
  <2>3. /\ CurrentVersion' = CurrentVersion + 1
        /\ CurrentVersion \in Nat /\ CurrentVersion' \in Versions
    BY <1>5, ListingAssumption DEF CurrentVersion, CacheShapes, Versions
  <2>4. \A w \in Viewers : Searching(w)' <=> Searching(w)
    BY <1>1 DEF Searching
  <2>5. \A w \in Viewers : /\ Filling(w)' <=> Filling(w)
                           /\ Filling(w) => Searching(w)
    BY <1>1 DEF Filling, Searching
  <2>6. \A v \in Versions : v <= CurrentVersion => v <= CurrentVersion' /\ v # CurrentVersion'
    BY <2>3 DEF Versions
  <2>7. NoFutureKey'
    BY <1>1, <2>4, <2>6 DEF SearchInv, NoFutureKey
  <2>8. CurrentKeyIsFresh'
    <3>1. ~results[CurrentVersion'].there
      BY <2>3, <2>6 DEF SearchInv, NoFutureKey
    <3>2. \A w \in Viewers : Filling(w) => viewer[w].version # CurrentVersion'
      BY <2>5, <2>6 DEF SearchInv, NoFutureKey
    <3> QED BY <1>1, <2>5, <3>1, <3>2 DEF CurrentKeyIsFresh
  <2>9. KeyServesSearch' /\ SearchIsFresh'
    BY <1>1, <2>4, <2>5 DEF SearchInv, KeyServesSearch, SearchIsFresh
  <2>10. ProfileInv'
    BY <1>1 DEF ProfileInv, ProfileIsFresh, RatingOfEdition
  <2> QED BY <2>2, <2>7, <2>8, <2>9, <2>10 DEF SearchInv
<1> QED BY <1>1, <1>3, <1>4, <1>5 DEF Bump

LEMMA EditorInv ==
  ASSUME ListingInv, NEW e \in Editors, EditRequest(e)
  PROVE  ListingInv'
<1> USE DEF ListingInv
<1>1. \A p \in EditorStep : [editor EXCEPT ![e] = p] \in [Editors -> EditorStep]
  BY DEF CacheShapes
<1>2. "idle" \in EditorStep /\ "del" \in EditorStep /\ "incr" \in EditorStep
  BY DEF EditorStep
<1>3. CASE Edit(e)
  BY <1>1, <1>2, <1>3, CommitStep DEF Edit
<1>4. CASE EditSchedule(e)
  BY <1>1, <1>2, <1>4, QuietListingStep
  DEF EditSchedule, CacheShapes, cacheVars, historyVars, reviewVars
<1>5. CASE DeleteProfile(e)
  <2>1. \/ UNCHANGED <<profile, purged>>
        \/ profile' = Missing /\ purged' \in Editions /\ purged' <= edition
    BY <1>5, PurgeIsQuiet DEF DeleteProfile
  <2> QED BY <1>1, <1>2, <1>5, <2>1, QuietListingStep
          DEF DeleteProfile, CacheShapes, reviewVars
<1>6. CASE EditorStops(e)
  BY <1>1, <1>2, <1>6, QuietListingStep
  DEF EditorStops, CacheShapes, cacheVars, historyVars, reviewVars
<1> QED BY <1>3, <1>4, <1>5, <1>6, IncrementStep DEF EditRequest

\* The statistics change with the commit and with nothing else.
LEMMA StatsChangeOnCommit ==
  ASSUME ReviewInv, NEW d \in Reviewers, ReviewStep(d),
         draft'[d].pc # "committed"
  PROVE  stats' = stats
<1>1. ASSUME CommitReview(d) PROVE FALSE
  BY <1>1 DEF CommitReview, SetDraft, ReviewInv, Shapes, AnyDraft
<1> QED
  BY <1>1 DEF ReviewStep, CreateReview, UpdateReview, WriteReview,
              AggregateRatings, ReviewStops

LEMMA ReviewerInv ==
  ASSUME ListingInv, ReviewInv, NEW d \in Reviewers,
         ReviewRequest(d) \/ ReviewPurge(d)
  PROVE  ListingInv'
<1> USE DEF ListingInv
<1>1. CASE ReviewRequest(d) /\ draft'[d].pc = "committed"
  BY <1>1, CommitStep DEF ReviewRequest, CacheShapes
<1>2. CASE ReviewRequest(d) /\ draft'[d].pc # "committed"
  <2>1. stats' = stats
    BY <1>2, StatsChangeOnCommit DEF ReviewRequest
  <2> QED BY <1>2, <2>1, QuietListingStep
          DEF ReviewRequest, CacheShapes, cacheVars, historyVars
<1>3. CASE ReviewPurge(d)
  <2>1. \/ UNCHANGED <<profile, purged>>
        \/ profile' = Missing /\ purged' \in Editions /\ purged' <= edition
    BY <1>3, PurgeIsQuiet DEF ReviewPurge
  <2> QED BY <1>3, <2>1, QuietListingStep DEF ReviewPurge, ReviewDone, CacheShapes
<1> QED BY <1>1, <1>2, <1>3

\* An entry that expires is like one that was never stored.
LEMMA ExpireResultStep ==
  ASSUME ListingInv, NEW v \in Versions, ExpireResult(v)
  PROVE  ListingInv'
<1> USE DEF ListingInv
<1>1. /\ results' = [results EXCEPT ![v] = NoResult]
      /\ UNCHANGED <<stats, edition, profile, version, ready, outages, editor,
                     viewer, wrote, purged, bumped>>
  BY DEF ExpireResult, reviewVars, historyVars
<1>2. NoResult \in Result /\ ~NoResult.there /\ NoResult.edition = 0
  BY ListingAssumption DEF NoResult, Result, Editions
<1>3. CacheShapes'
  BY <1>1, <1>2 DEF CacheShapes
<1>4. /\ \A u \in Versions : results'[u] = IF u = v THEN NoResult ELSE results[u]
      /\ CurrentVersion \in Versions /\ CurrentVersion' = CurrentVersion
  BY <1>1, CurrentIsVersion DEF CacheShapes, CurrentVersion
<1>5. NothingAhead'
  BY <1>1, <1>2, <1>4 DEF NothingAhead, CacheShapes, Editions
<1>6. \A w \in Viewers : /\ Searching(w)' <=> Searching(w)
                         /\ Filling(w)' <=> Filling(w)
  BY <1>1 DEF Searching, Filling
<1>7. SearchInv'
  BY <1>1, <1>2, <1>4, <1>6
  DEF SearchInv, NoFutureKey, CurrentKeyIsFresh, KeyServesSearch, SearchIsFresh
<1>8. ProfileInv'
  BY <1>1 DEF ProfileInv, ProfileIsFresh, RatingOfEdition
<1> QED BY <1>3, <1>5, <1>7, <1>8

LEMMA RedisInv ==
  ASSUME ListingInv, Redis
  PROVE  ListingInv'
<1> USE DEF ListingInv
<1>1. CASE ExpireProfile
  BY <1>1, QuietListingStep
  DEF ExpireProfile, CacheShapes, NothingAhead, historyVars, reviewVars
<1>2. CASE Disconnect
  <2>1. ready' \in BOOLEAN
    BY <1>2 DEF Disconnect
  <2>2. outages \in 0..MaxOutages /\ outages < MaxOutages /\ outages' = outages + 1
    BY <1>2 DEF Disconnect, CacheShapes
  <2>3. outages' \in 0..MaxOutages
    BY <2>2, ListingAssumption
  <2> QED BY <1>2, <2>1, <2>3, QuietListingStep
          DEF Disconnect, CacheShapes, historyVars, reviewVars
<1>3. CASE Reconnect
  BY <1>3, QuietListingStep DEF Reconnect, CacheShapes, historyVars, reviewVars
<1> QED BY <1>1, <1>2, <1>3, ExpireResultStep DEF Redis

LEMMA ViewerInv ==
  ASSUME ListingInv, ReviewInv, NEW w \in Viewers,
         ProfileRequest(w) \/ SearchRequest(w)
  PROVE  ListingInv'
BY ProfileGetStep, ProfileFetchStep, ProfileSetStep, SearchStartStep,
   SearchGetStep, SearchFetchStep, SearchSetStep, AnswerStep
DEF ProfileRequest, SearchRequest

LEMMA ListingStutter ==
  ASSUME ListingInv, UNCHANGED vars
  PROVE  ListingInv'
BY QuietListingStep
DEF ListingInv, CacheShapes, vars, reviewVars, cacheVars, historyVars

-----------------------------------------------------------------------------
(* Theorems *)

\* The requests around the caches change the reviews only by the steps of
\* ReviewService: Listing implements ReviewSpec, and what is proved of the
\* reviews holds of the listing.
THEOREM ListingImplementsReviews == Spec => ReviewSpec
<1>1. Init => ReviewInit
  BY DEF Init
<1>2. [Next]_vars => [ReviewNext]_reviewVars
  <2> SUFFICES ASSUME [Next]_vars PROVE [ReviewNext]_reviewVars
    OBVIOUS
  <2>1. CASE UNCHANGED vars
    BY <2>1 DEF vars
  <2>2. ASSUME NEW d \in Reviewers, ReviewRequest(d) \/ ReviewPurge(d)
        PROVE  ReviewNext
    BY <2>2 DEF ReviewRequest, ReviewPurge, ReviewNext
  <2>3. ASSUME NEW e \in Editors, EditRequest(e)
        PROVE  UNCHANGED reviewVars
    BY <2>3 DEF EditRequest, Edit, EditSchedule, DeleteProfile,
                IncrementVersion, EditorStops
  <2>4. ASSUME NEW w \in Viewers, ProfileRequest(w) \/ SearchRequest(w)
        PROVE  UNCHANGED reviewVars
    BY <2>4 DEF ProfileRequest, ProfileGet, ProfileFetch, ProfileSet,
                SearchRequest, SearchStart, SearchGet, SearchFetch, SearchSet,
                Answer
  <2>5. CASE Redis
    BY <2>5 DEF Redis, ExpireProfile, ExpireResult, Disconnect, Reconnect
  <2> QED BY <2>1, <2>2, <2>3, <2>4, <2>5 DEF Next
<1> QED BY <1>1, <1>2, PTL DEF Spec, ReviewSpec

\* The invariant of the caches holds in every reachable state.
THEOREM ListingInvariance == Spec => []ListingInv
<1>1. Init => ListingInv
  BY ListingInit
<1>2. ListingInv /\ ReviewInv /\ [Next]_vars => ListingInv'
  BY EditorInv, ReviewerInv, RedisInv, ViewerInv, ListingStutter DEF Next
<1>3. Spec => []ReviewInv
  BY ListingImplementsReviews, ReviewInvariance, PTL
<1> QED BY <1>1, <1>2, <1>3, PTL DEF Spec

\* A search that starts after a change has moved the version on answers with
\* that change, however slow other searches are and whatever fails in Redis
\* (searchPublicProviders, incrementSearchVersion).
THEOREM SearchesAreFresh == Spec => []SearchIsFresh
<1>1. ListingInv => SearchIsFresh
  BY DEF ListingInv, SearchInv
<1> QED BY <1>1, ListingInvariance, PTL

\* The cached profile knows every change whose request has deleted the entry,
\* unless a slow fill stored it late (getPublicProfileById, del).
THEOREM ProfilesAreFresh == Spec => []ProfileIsFresh
<1>1. ListingInv => ProfileIsFresh
  BY DEF ListingInv, ProfileInv
<1> QED BY <1>1, ListingInvariance, PTL

\* The rating in the cached profile is the one of the committed reviews when
\* every change has deleted the entry (createReview, getPublicProfileById).
THEOREM ShownRatingTrue == Spec => []ShownRatingIsTrue
<1>1. ListingInv /\ ReviewInv => ShownRatingIsTrue
  <2> SUFFICES ASSUME ListingInv, ReviewInv, profile.there, ~profile.late,
                      purged = edition, serial
               PROVE  profile.stats = Aggregate(review)
    BY DEF ShownRatingIsTrue
  <2>1. profile.edition = edition
    BY DEF ListingInv, ProfileInv, ProfileIsFresh, NothingAhead, CacheShapes,
           AnyEntry, Editions
  <2>2. profile.stats = stats
    BY <2>1 DEF ListingInv, ProfileInv, RatingOfEdition
  <2> QED BY <2>2 DEF ReviewInv, RatingIsExact
<1>2. Spec => []ReviewInv
  BY ListingImplementsReviews, ReviewInvariance, PTL
<1> QED BY <1>1, <1>2, ListingInvariance, PTL

\* Types of the listing, its caches and their readers.
THEOREM ListingTypes == Spec => []TypeOK
<1>1. AnyStats \subseteq Stats
  BY AggregateType DEF AnyStats
<1>2. AnyEntry \subseteq Entry /\ AnyViewer \subseteq Viewer
  BY <1>1, ListingAssumption DEF AnyEntry, AnyViewer, Entry, Viewer
<1>3. ListingInv /\ ReviewTypeOK => TypeOK
  BY <1>2 DEF ListingInv, CacheShapes, TypeOK
<1>4. Spec => []ReviewTypeOK
  BY ListingImplementsReviews, ReviewTypes, PTL
<1> QED BY <1>3, <1>4, ListingInvariance, PTL


=============================================================================
