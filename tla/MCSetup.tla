-------------------------------- MODULE MCSetup --------------------------------
(***************************************************************************)
(* What a provider sets up before it can be booked, for TLC: the profile   *)
(* and its documents, the catalog and the offerings, the schedule.  The    *)
(* parts share no table, so a behaviour exercises one of them.             *)
(***************************************************************************)
EXTENDS MCAvailability, Profiles, Catalog

VARIABLE part

SetupInit ==
  /\ MCInit /\ ProfileInit /\ CatalogInit
  /\ part \in {"schedule", "names", "documents", "catalog", "list"}
  /\ part # "schedule" => load = "validation"

\* Owners compete for the names.
NameLoad ==
  \E k \in Clerks :
    \/ \E u \in Owners, n \in Names : CheckName(k, u, n)
    \/ WriteName(k) \/ ClerkStops(k)

\* Owners who hold names already upload documents while administrators decide;
\* one owner is enough, since no row here belongs to two.
DocumentLoad ==
  LET u == CHOOSE o \in Owners : TRUE
      n == CHOOSE m \in Names : TRUE
  IN
  \/ \E k \in Clerks :
       \/ ~HasProfile(u) /\ CheckName(k, u, n)
       \/ \E t \in DocTypes : CheckDocument(k, u, t)
       \/ \E f \in Files : StoreFile(k, f) \/ InsertDocument(k, f)
       \/ WriteName(k) \/ ClerkStops(k)
  \/ \E g \in Officers : Decision(g)

\* What is in the cached list decides nothing in the tables, so the two are
\* exercised apart.
CatalogLoad ==
  \E w \in Stewards : \/ CategoryRequest(w) \/ ServiceRequest(w)
                      \/ OfferingRequest(w) \/ StewardStops(w)

ListLoad ==
  \/ \E w \in Stewards : CategoryRequest(w) \/ StewardStops(w)
  \/ \E r \in Readers : ListRequest(r)
  \/ ListExpires

SetupNext ==
  /\ \/ part = "schedule" /\ MCNext /\ UNCHANGED <<profileVars, catalogVars>>
     \/ part = "names" /\ NameLoad /\ UNCHANGED <<vars, load, catalogVars>>
     \/ part = "documents" /\ DocumentLoad /\ UNCHANGED <<vars, load, catalogVars>>
     \/ part = "catalog" /\ CatalogLoad /\ UNCHANGED <<vars, load, profileVars>>
     \/ part = "list" /\ ListLoad /\ UNCHANGED <<vars, load, profileVars>>
  /\ UNCHANGED part

SetupSpec == SetupInit /\ [][SetupNext]_<<vars, load, profileVars, catalogVars, part>>

=============================================================================
