SPECIFICATION MCSpec
CONSTANTS
  Reviewable = {b1, b2}
  Ratings = {1, 4}
  Reviewers = {d1, d2}
  NoBooking = NoBooking
  Editors = {e1}
  Viewers = {v1, v2}
  ProfileViewers = {v1}
  MaxEdition = 2
  MaxVersion = 3
  MaxOutages = 1
SYMMETRY Symmetric
INVARIANTS RatingIsExact NoPhantomReview SearchIsFresh ProfileIsFresh ShownRatingIsTrue
PROPERTIES ReviewIsKept
CHECK_DEADLOCK FALSE
