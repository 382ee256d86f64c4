-------------------------------- MODULE Listing --------------------------------
(***************************************************************************)
(* The public listing of a provider and its two caches in Redis, together  *)
(* with the requests that change what is listed: RedisService,             *)
(* ProviderService.getPublicProfileById and searchPublicProviders, the     *)
(* invalidations of ProviderService, ProviderServiceService,               *)
(* ProviderAvailabilityService and AdminProviderService, and the reviews.  *)
(*                                                                         *)
(* The profile is cached under one key that every change deletes.  Search  *)
(* results are cached under keys that hold a version number, and a change  *)
(* increments the version.  Every call of Redis is a step of its own, and  *)
(* none of them fails: a client that is not ready skips the call.          *)
(*                                                                         *)
(* What is listed is abstracted to its edition, the number of changes that *)
(* are committed, and to the rating.  One search query stands for all: the *)
(* key is a function of the version and the query.                         *)
(***************************************************************************)
EXTENDS Reviews

CONSTANTS
  Editors,      \* requests that change the provider's listing
  Viewers,      \* requests that read it
  MaxEdition,   \* bound: changes committed in one behaviour
  MaxVersion,   \* bound: value of providers:version
  MaxOutages    \* bound: times the Redis client loses its connection

ASSUME ListingAssumption ==
  /\ MaxEdition \in Nat /\ MaxVersion \in Nat \ {0} /\ MaxOutages \in Nat
  /\ Editors \cap Reviewers = {}

VARIABLES
  edition,  \* the provider's public data in PostgreSQL
  profile,  \* Redis: provider:profile:<id>
  version,  \* Redis: providers:version, 0 if the key is missing
  results,  \* Redis: providers:search:v<version>:<hash>
  ready,    \* RedisService.isReady
  outages,
  editor,   \* the requests that change the listing
  viewer,   \* the requests that read it
  wrote,    \* the edition a request, or a review, has committed
  purged,   \* history: newest edition whose request deleted the profile
  bumped    \* history: newest edition whose request moved the version on

cacheVars   == <<profile, version, results, ready, outages>>
historyVars == <<purged, bumped>>
vars == <<reviewVars, edition, cacheVars, editor, viewer, wrote, historyVars>>

-----------------------------------------------------------------------------
(* Types and initial state *)

Versions == 1..MaxVersion

Editions == 0..MaxEdition

\* late: the entry was outdated when it was stored.
Entry == [there : BOOLEAN, edition : Editions, stats : Stats, late : BOOLEAN]

Missing == [there |-> FALSE, edition |-> 0, stats |-> NoStats, late |-> FALSE]

Result == [there : BOOLEAN, edition : Editions]

NoResult == [there |-> FALSE, edition |-> 0]

EditorStep == {"idle", "del", "incr"}

\* floor: what a search that starts now has to know of.
Viewer == [pc : {"idle", "profile_fetch", "profile_set", "search_get",
                 "search_fetch", "search_set", "answered"},
           edition : Editions, stats : Stats, version : Nat, floor : Editions]

NoViewer == [pc |-> "idle", edition |-> 0, stats |-> NoStats, version |-> 0,
             floor |-> 0]

Init ==
  /\ ReviewInit
  /\ edition = 0
  /\ profile = Missing
  /\ version = 0
  /\ results = [v \in Versions |-> NoResult]
  /\ ready = TRUE
  /\ outages = 0
  /\ editor = [e \in Editors |-> "idle"]
  /\ viewer = [v \in Viewers |-> NoViewer]
  /\ wrote = [x \in Editors \cup Reviewers |-> 0]
  /\ purged = 0
  /\ bumped = 0

-----------------------------------------------------------------------------
(* RedisService *)

Later(a, b) == IF a > b THEN a ELSE b

\* del: a client that is not ready returns at once.
\* (Mutant: the key of the deletion is not the one of the fill.)
PurgeOtherKey(x) ==
  /\ UNCHANGED profile
  /\ purged' = IF ready THEN Later(purged, wrote[x]) ELSE purged

Purge(x) ==
  IF ready
  THEN profile' = Missing /\ purged' = Later(purged, wrote[x])
  ELSE UNCHANGED <<profile, purged>>

\* getSearchVersion: a missing key reads as 1, and so does every key while the
\* client is not ready.
SearchVersion == IF ready /\ version # 0 THEN version ELSE 1

\* incrementSearchVersion.  INCR on a missing key makes it 1, the version the
\* searches were using already: only later increments move it on.
Bump(x) ==
  IF ready
  THEN /\ version < MaxVersion
       /\ version' = version + 1
       /\ bumped' = IF version = 0 THEN bumped ELSE Later(bumped, wrote[x])
  ELSE UNCHANGED <<version, bumped>>

\* EX: an entry vanishes when its time is over.
ExpireProfile ==
  /\ profile.there
  /\ profile' = Missing
  /\ UNCHANGED <<reviewVars, edition, version, results, ready, outages,
                 editor, viewer, wrote, historyVars>>

ExpireResult(v) ==
  /\ results[v].there
  /\ results' = [results EXCEPT ![v] = NoResult]
  /\ UNCHANGED <<reviewVars, edition, profile, version, ready, outages,
                 editor, viewer, wrote, historyVars>>

Disconnect ==
  /\ ready /\ outages < MaxOutages
  /\ ready' = FALSE
  /\ outages' = outages + 1
  /\ UNCHANGED <<reviewVars, edition, profile, version, results, editor,
                 viewer, wrote, historyVars>>

Reconnect ==
  /\ ~ready
  /\ ready' = TRUE
  /\ UNCHANGED <<reviewVars, edition, profile, version, results, outages,
                 editor, viewer, wrote, historyVars>>

-----------------------------------------------------------------------------
(* Requests that change the listing *)

Commit(x) ==
  /\ edition < MaxEdition
  /\ edition' = edition + 1
  /\ wrote' = [wrote EXCEPT ![x] = edition + 1]

\* updateOwnProfile; create, update and remove of an offering; verify, reject
\* and suspend: the update of the row is committed.
Edit(e) ==
  /\ editor[e] = "idle"
  /\ Commit(e)
  /\ editor' = [editor EXCEPT ![e] = "del"]
  /\ UNCHANGED <<reviewVars, cacheVars, viewer, historyVars>>

\* setAvailability: the schedule is not listed, the version moves on.
EditSchedule(e) ==
  /\ editor[e] = "idle"
  /\ editor' = [editor EXCEPT ![e] = "incr"]
  /\ UNCHANGED <<reviewVars, edition, cacheVars, viewer, wrote, historyVars>>

DeleteProfile(e) ==
  /\ editor[e] = "del"
  /\ Purge(e)
  /\ editor' = [editor EXCEPT ![e] = "incr"]
  /\ UNCHANGED <<reviewVars, edition, version, results, ready, outages,
                 viewer, wrote, bumped>>

IncrementVersion(e) ==
  /\ editor[e] = "incr"
  /\ Bump(e)
  /\ editor' = [editor EXCEPT ![e] = "idle"]
  /\ UNCHANGED <<reviewVars, edition, profile, results, ready, outages,
                 viewer, wrote, purged>>

\* The process stops with the change committed.
EditorStops(e) ==
  /\ editor[e] # "idle"
  /\ editor' = [editor EXCEPT ![e] = "idle"]
  /\ UNCHANGED <<reviewVars, edition, cacheVars, viewer, wrote, historyVars>>

\* A review request up to its commit, which changes what is listed.
ReviewRequest(d) ==
  /\ ReviewStep(d)
  /\ IF draft'[d].pc = "committed"
     THEN Commit(d) ELSE UNCHANGED <<edition, wrote>>
  /\ UNCHANGED <<cacheVars, editor, viewer, historyVars>>

\* A review deletes the cached profile and leaves the version alone.
ReviewPurge(d) ==
  /\ ReviewDone(d)
  /\ Purge(d)
  /\ UNCHANGED <<edition, version, results, ready, outages, editor, viewer,
                 wrote, bumped>>

-----------------------------------------------------------------------------
(* getPublicProfileById: getOrSet under one key *)

SetViewer(w, r) == viewer' = [viewer EXCEPT ![w] = r]

\* A hit returns what is there.
ProfileGet(w) ==
  /\ viewer[w].pc = "idle"
  /\ ~(ready /\ profile.there)
  /\ SetViewer(w, [NoViewer EXCEPT !.pc = "profile_fetch"])
  /\ UNCHANGED <<reviewVars, edition, cacheVars, editor, wrote, historyVars>>

ProfileFetch(w) ==
  /\ viewer[w].pc = "profile_fetch"
  /\ SetViewer(w, [NoViewer EXCEPT !.pc = "profile_set", !.edition = edition,
                                   !.stats = stats])
  /\ UNCHANGED <<reviewVars, edition, cacheVars, editor, wrote, historyVars>>

ProfileSet(w) ==
  /\ viewer[w].pc = "profile_set"
  /\ IF ready
     THEN profile' = [there |-> TRUE, edition |-> viewer[w].edition,
                      stats |-> viewer[w].stats,
                      late |-> viewer[w].edition < edition]
     ELSE UNCHANGED profile
  /\ SetViewer(w, NoViewer)
  /\ UNCHANGED <<reviewVars, edition, version, results, ready, outages,
                 editor, wrote, historyVars>>

-----------------------------------------------------------------------------
(* searchPublicProviders: the version, then getOrSet under its key *)

SearchStart(w) ==
  /\ viewer[w].pc = "idle"
  /\ SetViewer(w, [NoViewer EXCEPT !.pc = "search_get",
                                   !.version = SearchVersion,
                                   !.floor = IF ready THEN bumped ELSE 0])
  /\ UNCHANGED <<reviewVars, edition, cacheVars, editor, wrote, historyVars>>

SearchGet(w) ==
  LET hit == results[viewer[w].version] IN
  /\ viewer[w].pc = "search_get"
  /\ SetViewer(w, IF ready /\ hit.there
                  THEN [viewer[w] EXCEPT !.pc = "answered",
                                         !.edition = hit.edition]
                  ELSE [viewer[w] EXCEPT !.pc = "search_fetch"])
  /\ UNCHANGED <<reviewVars, edition, cacheVars, editor, wrote, historyVars>>

SearchFetch(w) ==
  /\ viewer[w].pc = "search_fetch"
  /\ SetViewer(w, [viewer[w] EXCEPT !.pc = "search_set", !.edition = edition])
  /\ UNCHANGED <<reviewVars, edition, cacheVars, editor, wrote, historyVars>>

\* (Mutant: the result is stored under the version of now.)
StoredUnderCurrent(w) == SearchVersion

StoredUnder(w) == viewer[w].version

SearchSet(w) ==
  /\ viewer[w].pc = "search_set"
  /\ results' = IF ready
                THEN [results EXCEPT ![StoredUnder(w)] =
                        [there |-> TRUE, edition |-> viewer[w].edition]]
                ELSE results
  /\ SetViewer(w, [viewer[w] EXCEPT !.pc = "answered"])
  /\ UNCHANGED <<reviewVars, edition, profile, version, ready, outages,
                 editor, wrote, historyVars>>

\* The response is sent.
Answer(w) ==
  /\ viewer[w].pc = "answered"
  /\ SetViewer(w, NoViewer)
  /\ UNCHANGED <<reviewVars, edition, cacheVars, editor, wrote, historyVars>>

-----------------------------------------------------------------------------

Redis ==
  ExpireProfile \/ (\E v \in Versions : ExpireResult(v))
    \/ Disconnect \/ Reconnect

EditRequest(e) ==
  Edit(e) \/ EditSchedule(e) \/ DeleteProfile(e) \/ IncrementVersion(e)
    \/ EditorStops(e)

ProfileRequest(w) == ProfileGet(w) \/ ProfileFetch(w) \/ ProfileSet(w)

SearchRequest(w) ==
  SearchStart(w) \/ SearchGet(w) \/ SearchFetch(w) \/ SearchSet(w)
    \/ Answer(w)

Next ==
  \/ \E d \in Reviewers : ReviewRequest(d) \/ ReviewPurge(d)
  \/ \E e \in Editors : EditRequest(e)
  \/ \E w \in Viewers : ProfileRequest(w) \/ SearchRequest(w)
  \/ Redis

Spec == Init /\ [][Next]_vars

-----------------------------------------------------------------------------
(* Correctness *)

\* Types of the caches and the requests.
TypeOK ==
  /\ ReviewTypeOK
  /\ edition \in Editions
  /\ profile \in Entry
  /\ version \in 0..MaxVersion
  /\ results \in [Versions -> Result]
  /\ ready \in BOOLEAN /\ outages \in 0..MaxOutages
  /\ editor \in [Editors -> EditorStep]
  /\ viewer \in [Viewers -> Viewer]
  /\ wrote \in [Editors \cup Reviewers -> Editions]
  /\ purged \in Editions /\ bumped \in Editions

\* A search that starts after a change has moved the version on answers with
\* that change, whatever slow searches store and whatever outages come between
\* (the version in the key, and reading it before the database).
SearchIsFresh ==
  \A w \in Viewers :
    viewer[w].pc = "answered" => viewer[w].edition >= viewer[w].floor

\* A cached profile knows every change whose request has deleted the entry,
\* unless it was outdated already when it was stored (del after the write).
ProfileIsFresh ==
  profile.there /\ ~profile.late => profile.edition >= purged

\* The rating the cached profile shows is that of the committed reviews, once
\* every change has deleted the entry, if the entry was not stored late and
\* the last rating transaction met no other one.
ShownRatingIsTrue ==
  profile.there /\ ~profile.late /\ purged = edition /\ serial =>
    profile.stats = Aggregate(review)

=============================================================================
