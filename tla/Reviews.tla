------------------------------- MODULE Reviews --------------------------------
(***************************************************************************)
(* ReviewService: the reviews of one provider and the rating statistics    *)
(* that are kept in its profile row.                                       *)
(*                                                                         *)
(* Creating a review, and changing the rating of one, is a transaction at  *)
(* READ COMMITTED of three statements: the write of the review, the        *)
(* aggregate over the provider's reviews, the update of the profile row.   *)
(* The review written so far is visible to its own transaction only.  The  *)
(* update of the profile and the commit are one step: who has to wait for  *)
(* the row would write the aggregate it took before.                       *)
(***************************************************************************)
EXTENDS Naturals, FiniteSets, FiniteSetsExt

CONSTANTS
  Reviewable,  \* COMPLETED bookings of the provider, one customer each
  Ratings,     \* values of dto.rating
  Reviewers,   \* review requests in flight at once
  NoBooking

ASSUME ReviewAssumption ==
  /\ IsFiniteSet(Reviewable) /\ NoBooking \notin Reviewable
  /\ Ratings \subseteq 1..5

VARIABLES
  review,   \* table reviews, committed: the rating by booking, 0 for none
  stats,    \* averageRating, in hundredths, and totalReviews of the profile
  draft,    \* the review requests
  serial    \* history: the last rating transaction met no other

reviewVars == <<review, stats, draft, serial>>

-----------------------------------------------------------------------------
(* Types and initial state *)

Stats == [avg : Nat, total : Nat]

\* "written": the review row is written in the open transaction;
\* "aggregated": the aggregate has been taken; "committed": the cached
\* profile is still to be deleted.  alone: no other transaction was open.
Draft == [pc : {"idle", "checked", "written", "aggregated", "committed"},
          b : Reviewable \cup {NoBooking}, rating : Ratings \cup {0},
          creates : BOOLEAN, agg : Stats, alone : BOOLEAN]

NoStats == [avg |-> 0, total |-> 0]

NoDraft == [pc |-> "idle", b |-> NoBooking, rating |-> 0, creates |-> FALSE,
            agg |-> NoStats, alone |-> FALSE]

ReviewInit ==
  /\ review = [b \in Reviewable |-> 0]
  /\ stats = NoStats
  /\ draft = [d \in Reviewers |-> NoDraft]
  /\ serial = TRUE

-----------------------------------------------------------------------------
(* Rows, locks and aggregates *)

\* averageRating.toFixed(2), in hundredths; 0 if there is no review.
Average(sum, n) == IF n = 0 THEN 0 ELSE (200 * sum + n) \div (2 * n)

Reviewed(t) == {b \in Reviewable : t[b] # 0}

\* _avg and _count of the rating.
Aggregate(t) ==
  [avg   |-> Average(MapThenSumSet(LAMBDA b : t[b], Reviewed(t)),
                     Cardinality(Reviewed(t))),
   total |-> Cardinality(Reviewed(t))]

InTransaction(d) == draft[d].pc \in {"written", "aggregated"}

\* The reviews a transaction sees: the committed ones and its own.
Visible(d) == [review EXCEPT ![draft[d].b] = draft[d].rating]

\* (Mutant: READ UNCOMMITTED, rows of open transactions count.)
VisibleDirty(d) ==
  [b \in Reviewable |->
     IF \E g \in Reviewers : InTransaction(g) /\ draft[g].b = b
     THEN draft[CHOOSE g \in Reviewers : InTransaction(g) /\ draft[g].b = b].rating
     ELSE review[b]]

SeenByAggregate(d) == Visible(d)

\* The row, or the index entry of the booking, belongs to an open transaction.
RowLocked(d) ==
  \E g \in Reviewers \ {d} : InTransaction(g) /\ draft[g].b = draft[d].b

SetDraft(d, r) == draft' = [draft EXCEPT ![d] = r]

-----------------------------------------------------------------------------
(* createReview and updateReview *)

\* The booking is COMPLETED and findByBookingId finds nothing.
CreateReview(d, b, r) ==
  /\ draft[d].pc = "idle"
  /\ review[b] = 0
  /\ SetDraft(d, [NoDraft EXCEPT !.pc = "checked", !.b = b, !.rating = r,
                                 !.creates = TRUE])
  /\ UNCHANGED <<review, stats, serial>>

\* A rating equal to the one that was read changes only the comment, in one
\* statement and without a transaction.
UpdateReview(d, b, r) ==
  /\ draft[d].pc = "idle"
  /\ review[b] # 0
  /\ review[b] # r
  /\ SetDraft(d, [NoDraft EXCEPT !.pc = "checked", !.b = b, !.rating = r])
  /\ UNCHANGED <<review, stats, serial>>

\* reviews.bookingId is unique: the insert fails once the booking has a review.
\* (Mutant: the index is missing.)
NoUniqueIndex(d) == FALSE

UniqueViolation(d) == draft[d].creates /\ review[draft[d].b] # 0

\* The first statement of the transaction opens it for the others.
WriteReview(d) ==
  /\ draft[d].pc = "checked"
  /\ ~RowLocked(d)
  /\ IF UniqueViolation(d)
     THEN SetDraft(d, NoDraft)
     ELSE draft' = [g \in Reviewers |->
            IF g = d
            THEN [draft[d] EXCEPT !.pc = "written",
                    !.alone = \A f \in Reviewers : ~InTransaction(f)]
            ELSE [draft[g] EXCEPT !.alone = FALSE]]
  /\ UNCHANGED <<review, stats, serial>>

AggregateRatings(d) ==
  /\ draft[d].pc = "written"
  /\ SetDraft(d, [draft[d] EXCEPT !.pc = "aggregated",
                                  !.agg = Aggregate(SeenByAggregate(d))])
  /\ UNCHANGED <<review, stats, serial>>

\* (Mutant: the aggregate is taken before the review is written.)
StatsOfOthers(d) == Aggregate(review)

RatingStats(d) == draft[d].agg

\* updateProviderRatingStats and the commit.
CommitReview(d) ==
  /\ draft[d].pc = "aggregated"
  /\ review' = Visible(d)
  /\ stats' = RatingStats(d)
  /\ serial' = draft[d].alone
  /\ SetDraft(d, [draft[d] EXCEPT !.pc = "committed"])

\* The transaction is rolled back, or the request dies before or after it.
ReviewStops(d) ==
  /\ draft[d].pc # "idle"
  /\ SetDraft(d, NoDraft)
  /\ UNCHANGED <<review, stats, serial>>

\* The last call: the cached profile is deleted, see Listing.
ReviewDone(d) ==
  /\ draft[d].pc = "committed"
  /\ SetDraft(d, NoDraft)
  /\ UNCHANGED <<review, stats, serial>>

ReviewStep(d) ==
  \/ \E b \in Reviewable, r \in Ratings :
       CreateReview(d, b, r) \/ UpdateReview(d, b, r)
  \/ WriteReview(d) \/ AggregateRatings(d) \/ CommitReview(d)
  \/ ReviewStops(d)

ReviewNext == \E d \in Reviewers : ReviewStep(d) \/ ReviewDone(d)

ReviewSpec == ReviewInit /\ [][ReviewNext]_reviewVars

-----------------------------------------------------------------------------
(* Correctness *)

\* Types of the tables and the requests.
ReviewTypeOK ==
  /\ review \in [Reviewable -> Ratings \cup {0}]
  /\ stats \in Stats
  /\ draft \in [Reviewers -> Draft]
  /\ serial \in BOOLEAN

\* The statistics of the profile are those of the reviews whenever the last
\* rating transaction met no other one: it also repairs what transactions that
\* did overlap have left (the recalculation inside the transaction).
RatingIsExact == serial => stats = Aggregate(review)

\* Overlapping transactions lose reviews from the statistics and never invent
\* any, also when some of them are rolled back.
NoPhantomReview == stats.total <= Cardinality(Reviewed(review))

\* Once a booking has a review no second one takes its place: the review only
\* changes through a request that found it (the unique bookingId).
ReviewIsKept ==
  [][\A b \in Reviewable :
       review[b] # 0 /\ review'[b] # review[b] =>
         review'[b] # 0 /\ \E d \in Reviewers :
                             /\ draft[d].b = b /\ ~draft[d].creates
                             /\ draft'[d].pc = "committed"]_reviewVars

=============================================================================
