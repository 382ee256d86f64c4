-------------------------------- MODULE Catalog --------------------------------
(***************************************************************************)
(* The catalog of categories and services, and the offerings that          *)
(* providers make of the services (CategoryService, ServiceService,        *)
(* ProviderServiceService), with the cached list of the categories.        *)
(*                                                                         *)
(* Nothing is deleted: removing a row clears isActive.  A request reads    *)
(* what it has to check and then writes, without a transaction, so its     *)
(* check may be outdated by the time it writes.  Rows are never taken      *)
(* away and services never come back, so the lookups of one request are    *)
(* one step here.                                                          *)
(*                                                                         *)
(* The list of the services is cached in the same way, under services:all, *)
(* and is left out.  What an offering invalidates is in Listing.           *)
(***************************************************************************)
EXTENDS Naturals, FiniteSets

CONSTANTS
  Categories,  \* rows of categories
  Services,    \* rows of services
  Labels,      \* names; for a category they stand for the slug made of them
  Providers,   \* verified providers
  Stewards,    \* requests in flight at once
  Readers,     \* requests for the list of the categories
  Unset        \* no row, or a field of the dto that is left out

ASSUME CatalogAssumption == Unset \notin Categories \cup Services \cup Labels

VARIABLES
  category,    \* table categories
  service,     \* table services
  offering,    \* table provider_services, unique by provider and service
  steward,     \* the requests that change the tables
  list,        \* Redis: categories:all
  reader,      \* the requests for it
  lateServices,  \* history: put into a category that was, or was being, removed
  lateOfferings, \* history: made or enabled when the service was, or was
                 \*          being, removed
  switchedOff    \* history: categories an update has made inactive

historyOfCatalog == <<lateServices, lateOfferings, switchedOff>>

catalogVars == <<category, service, offering, steward, list, reader,
                 historyOfCatalog>>

-----------------------------------------------------------------------------
(* Types and initial state *)

Category == [slug : Labels \cup {Unset}, isActive : BOOLEAN]

Service == [category : Categories \cup {Unset}, name : Labels \cup {Unset},
            isActive : BOOLEAN]

NoCategory == [slug |-> Unset, isActive |-> FALSE]

NoService == [category |-> Unset, name |-> Unset, isActive |-> FALSE]

OfferingState == {"none", "active", "inactive"}

\* What a request is going to do; "purge" deletes the cached list.
Plan == [kind : {"none", "category", "remove_category", "purge", "service",
                 "remove_service", "offering"},
         c : Categories \cup {Unset}, s : Services \cup {Unset},
         p : Providers \cup {Unset}, label : Labels \cup {Unset},
         creates : BOOLEAN, isActive : BOOLEAN]

\* creates: an insert.  The rows of inserts are new.
NoPlan == [kind |-> "none", c |-> Unset, s |-> Unset, p |-> Unset,
           label |-> Unset, creates |-> FALSE, isActive |-> TRUE]

\* A cached or answered list: rows with their isActive.
List == [there : BOOLEAN, rows : SUBSET (Categories \X BOOLEAN)]

NoList == [there |-> FALSE, rows |-> {}]

Reader == [pc : {"idle", "fetched", "answered"}, includeInactive : BOOLEAN,
           rows : SUBSET (Categories \X BOOLEAN)]

NoReader == [pc |-> "idle", includeInactive |-> FALSE, rows |-> {}]

CatalogInit ==
  /\ category = [c \in Categories |-> NoCategory]
  /\ service = [s \in Services |-> NoService]
  /\ offering = [x \in Providers \X Services |-> "none"]
  /\ steward = [w \in Stewards |-> NoPlan]
  /\ list = NoList
  /\ reader = [r \in Readers |-> NoReader]
  /\ lateServices = {} /\ lateOfferings = {} /\ switchedOff = {}

-----------------------------------------------------------------------------
(* Lookups *)

CategoryExists(c) == category[c].slug # Unset

NewCategory(c) ==
  /\ ~CategoryExists(c)
  /\ \A w \in Stewards : ~(steward[w].kind = "category" /\ steward[w].c = c)

ServiceExists(s) == service[s].name # Unset

NewService(s) ==
  /\ ~ServiceExists(s)
  /\ \A w \in Stewards : ~(steward[w].kind = "service" /\ steward[w].s = s)

\* findBySlug finds another row; so does the unique index.
SlugTaken(c, label) ==
  \E d \in Categories \ {c} : label # Unset /\ category[d].slug = label

\* findByNameAndCategory finds another row; so does the unique index.
NameUsed(s, c, label) ==
  \E t \in Services \ {s} : service[t].category = c /\ service[t].name = label

\* hasService
HasService(c) == \E s \in Services : service[s].category = c /\ service[s].isActive

\* (Mutant: the first offering alone is looked at.)
HasTwoProviders(s) ==
  Cardinality({p \in Providers : offering[<<p, s>>] = "active"}) > 1

\* hasProvider
HasProvider(s) == \E p \in Providers : offering[<<p, s>>] = "active"

\* (Mutant: a category counts as used by the services that were removed.)
HasRemovedService(c) ==
  \E s \in Services : service[s].category = c /\ ~service[s].isActive

CategoryInUse(c) == HasService(c)

Becomes(w, plan) == steward' = [steward EXCEPT ![w] = plan]

Unwritten == UNCHANGED <<category, service, offering, list, reader,
                         historyOfCatalog>>

-----------------------------------------------------------------------------
(* CategoryService: create, update and remove up to the write *)

CreateCategory(w, c, label) ==
  /\ steward[w].kind = "none"
  /\ NewCategory(c)
  /\ ~SlugTaken(c, label)
  /\ \E a \in BOOLEAN :
       Becomes(w, [NoPlan EXCEPT !.kind = "category", !.c = c, !.label = label,
                                 !.creates = TRUE, !.isActive = a])
  /\ Unwritten

\* The name may be left out.  isActive is written as the dto says, without
\* looking at the services of the category.
UpdateCategory(w, c, label) ==
  /\ steward[w].kind = "none"
  /\ CategoryExists(c)
  /\ ~SlugTaken(c, label)
  /\ \E a \in BOOLEAN :
       Becomes(w, [NoPlan EXCEPT !.kind = "category", !.c = c, !.label = label,
                                 !.isActive = a])
  /\ Unwritten

RemoveCategory(w, c) ==
  /\ steward[w].kind = "none"
  /\ CategoryExists(c)
  /\ ~CategoryInUse(c)
  /\ Becomes(w, [NoPlan EXCEPT !.kind = "remove_category", !.c = c])
  /\ Unwritten

-----------------------------------------------------------------------------
(* ServiceService: create, update and remove up to the write *)

\* The category has to exist; it need not be active.
CreateService(w, s, c, label) ==
  /\ steward[w].kind = "none"
  /\ NewService(s)
  /\ CategoryExists(c)
  /\ ~NameUsed(s, c, label)
  /\ Becomes(w, [NoPlan EXCEPT !.kind = "service", !.s = s, !.c = c,
                               !.label = label, !.creates = TRUE])
  /\ Unwritten

\* A dto without a name skips the lookup of the name, also when the service
\* moves to another category.
UpdateService(w, s, c, label) ==
  /\ steward[w].kind = "none"
  /\ ServiceExists(s)
  /\ c # Unset => CategoryExists(c)
  /\ label # Unset =>
       ~NameUsed(s, IF c = Unset THEN service[s].category ELSE c, label)
  /\ Becomes(w, [NoPlan EXCEPT !.kind = "service", !.s = s, !.c = c,
                               !.label = label])
  /\ Unwritten

RemoveService(w, s) ==
  /\ steward[w].kind = "none"
  /\ ServiceExists(s)
  /\ ~HasProvider(s)
  /\ Becomes(w, [NoPlan EXCEPT !.kind = "remove_service", !.s = s])
  /\ Unwritten

-----------------------------------------------------------------------------
(* ProviderServiceService: create, update and remove up to the write *)

\* Any offering of the service counts, one that was removed too.
CreateOffering(w, p, s) ==
  /\ steward[w].kind = "none"
  /\ service[s].isActive
  /\ offering[<<p, s>>] = "none"
  /\ Becomes(w, [NoPlan EXCEPT !.kind = "offering", !.p = p, !.s = s,
                               !.creates = TRUE])
  /\ Unwritten

\* An update with isActive, or a removal.  The service is not looked at.
UpdateOffering(w, p, s) ==
  /\ steward[w].kind = "none"
  /\ offering[<<p, s>>] # "none"
  /\ \E a \in BOOLEAN :
       Becomes(w, [NoPlan EXCEPT !.kind = "offering", !.p = p, !.s = s,
                                 !.isActive = a])
  /\ Unwritten

-----------------------------------------------------------------------------
(* The writes *)

ThenPurge == [NoPlan EXCEPT !.kind = "purge"]

Given(new, old) == IF new = Unset THEN old ELSE new

\* A request that is past its check is going to remove the row.
Removing(kind, x) ==
  \E w \in Stewards : /\ steward[w].kind = kind
                      /\ IF kind = "remove_category"
                         THEN steward[w].c = x ELSE steward[w].s = x

\* The unique index on the slug refuses what the lookup let pass.
WriteCategory(w) ==
  LET q == steward[w] IN
  /\ q.kind = "category"
  /\ IF SlugTaken(q.c, q.label)
     THEN Becomes(w, NoPlan) /\ UNCHANGED <<category, switchedOff>>
     ELSE /\ category' = [category EXCEPT ![q.c] =
               [slug |-> Given(q.label, @.slug), isActive |-> q.isActive]]
          /\ switchedOff' = IF q.isActive THEN switchedOff \ {q.c}
                            ELSE switchedOff \cup {q.c}
          /\ Becomes(w, ThenPurge)
  /\ UNCHANGED <<service, offering, list, reader, lateServices, lateOfferings>>

WriteRemoveCategory(w) ==
  LET c == steward[w].c IN
  /\ steward[w].kind = "remove_category"
  /\ category' = [category EXCEPT ![c].isActive = FALSE]
  /\ switchedOff' = switchedOff \ {c}
  /\ Becomes(w, ThenPurge)
  /\ UNCHANGED <<service, offering, list, reader, lateServices, lateOfferings>>

\* del("categories:all")
PurgeList(w) ==
  /\ steward[w].kind = "purge"
  /\ list' = NoList
  /\ Becomes(w, NoPlan)
  /\ UNCHANGED <<category, service, offering, reader, historyOfCatalog>>

\* The unique index on category and name refuses what the lookup let pass.
WriteService(w) ==
  LET q == steward[w]
      c == Given(q.c, service[q.s].category)
      label == Given(q.label, service[q.s].name)
  IN
  /\ q.kind = "service"
  /\ IF NameUsed(q.s, c, label)
     THEN UNCHANGED <<service, lateServices>>
     ELSE /\ service' = [service EXCEPT ![q.s] =
               [category |-> c, name |-> label,
                isActive |-> q.creates \/ @.isActive]]
          /\ lateServices' =
               IF q.c = Unset THEN lateServices
               ELSE IF ~category[c].isActive \/ Removing("remove_category", c)
                    THEN lateServices \cup {q.s} ELSE lateServices \ {q.s}
  /\ Becomes(w, NoPlan)
  /\ UNCHANGED <<category, offering, list, reader, lateOfferings, switchedOff>>

WriteRemoveService(w) ==
  /\ steward[w].kind = "remove_service"
  /\ service' = [service EXCEPT ![steward[w].s].isActive = FALSE]
  /\ Becomes(w, NoPlan)
  /\ UNCHANGED <<category, offering, list, reader, historyOfCatalog>>

Switch(a) == IF a THEN "active" ELSE "inactive"

\* Provider and service are unique: the second insert fails.
WriteOffering(w) ==
  LET q == steward[w]
      refused == q.creates /\ offering[<<q.p, q.s>>] # "none"
  IN
  /\ q.kind = "offering"
  /\ offering' = IF refused THEN offering
                 ELSE [offering EXCEPT ![<<q.p, q.s>>] = Switch(q.isActive)]
  /\ lateOfferings' =
       IF refused THEN lateOfferings
       ELSE IF ~service[q.s].isActive \/ Removing("remove_service", q.s)
            THEN lateOfferings \cup {<<q.p, q.s>>}
            ELSE lateOfferings \ {<<q.p, q.s>>}
  /\ Becomes(w, NoPlan)
  /\ UNCHANGED <<category, service, list, reader, lateServices, switchedOff>>

StewardStops(w) ==
  /\ steward[w].kind # "none"
  /\ Becomes(w, NoPlan)
  /\ Unwritten

-----------------------------------------------------------------------------
(* CategoryService.findAll: getOrSet under one key, whatever the query is *)

SetReader(r, q) == reader' = [reader EXCEPT ![r] = q]

Listed(c) == <<c, category[c].isActive>>

Selected(all) ==
  {Listed(c) : c \in {d \in Categories : CategoryExists(d) /\ (all \/ category[d].isActive)}}

FindAll(r, all) ==
  /\ reader[r].pc = "idle"
  /\ SetReader(r, IF list.there
                  THEN [pc |-> "answered", includeInactive |-> all,
                        rows |-> list.rows]
                  ELSE [pc |-> "fetched", includeInactive |-> all,
                        rows |-> Selected(all)])
  /\ UNCHANGED <<category, service, offering, steward, list, historyOfCatalog>>

StoreList(r) ==
  /\ reader[r].pc = "fetched"
  /\ list' = [there |-> TRUE, rows |-> reader[r].rows]
  /\ SetReader(r, [reader[r] EXCEPT !.pc = "answered"])
  /\ UNCHANGED <<category, service, offering, steward, historyOfCatalog>>

ReaderLeaves(r) ==
  /\ reader[r].pc = "answered"
  /\ SetReader(r, NoReader)
  /\ UNCHANGED <<category, service, offering, steward, list, historyOfCatalog>>

\* The entry expires after its time.
ListExpires ==
  /\ list.there
  /\ list' = NoList
  /\ UNCHANGED <<category, service, offering, steward, reader, historyOfCatalog>>

-----------------------------------------------------------------------------

CategoryRequest(w) ==
  \/ \E c \in Categories :
       \/ \E label \in Labels : CreateCategory(w, c, label)
       \/ \E label \in Labels \cup {Unset} : UpdateCategory(w, c, label)
       \/ RemoveCategory(w, c)
  \/ WriteCategory(w) \/ WriteRemoveCategory(w) \/ PurgeList(w)

ServiceRequest(w) ==
  \/ \E s \in Services :
       \/ \E c \in Categories, label \in Labels : CreateService(w, s, c, label)
       \/ \E c \in Categories \cup {Unset}, label \in Labels \cup {Unset} :
            UpdateService(w, s, c, label)
       \/ RemoveService(w, s)
  \/ WriteService(w) \/ WriteRemoveService(w)

OfferingRequest(w) ==
  \/ \E p \in Providers, s \in Services :
       CreateOffering(w, p, s) \/ UpdateOffering(w, p, s)
  \/ WriteOffering(w)

ListRequest(r) ==
  (\E all \in BOOLEAN : FindAll(r, all)) \/ StoreList(r) \/ ReaderLeaves(r)

CatalogNext ==
  \/ \E w \in Stewards : \/ CategoryRequest(w) \/ ServiceRequest(w)
                         \/ OfferingRequest(w) \/ StewardStops(w)
  \/ \E r \in Readers : ListRequest(r)
  \/ ListExpires

CatalogSpec == CatalogInit /\ [][CatalogNext]_catalogVars

-----------------------------------------------------------------------------
(* Correctness *)

\* Types of the tables and the requests.
CatalogTypeOK ==
  /\ category \in [Categories -> Category]
  /\ service \in [Services -> Service]
  /\ offering \in [Providers \X Services -> OfferingState]
  /\ steward \in [Stewards -> Plan]
  /\ list \in List
  /\ reader \in [Readers -> Reader]
  /\ lateServices \subseteq Services
  /\ lateOfferings \subseteq Providers \X Services
  /\ switchedOff \subseteq Categories

\* An active service is in an inactive category only if it came when the
\* category was removed or past the check of its removal, or if an update,
\* which has no such check, made the category inactive (remove, hasService).
StrandedServiceHasCause ==
  \A s \in Services :
    service[s].isActive /\ ~category[service[s].category].isActive =>
      s \in lateServices \/ service[s].category \in switchedOff

\* An offering of a removed service is active only if it was made, or enabled
\* again, when the service was removed or past the check of its removal
\* (remove, hasProvider).
StrandedOfferingHasCause ==
  \A p \in Providers, s \in Services :
    offering[<<p, s>>] = "active" /\ ~service[s].isActive =>
      <<p, s>> \in lateOfferings

\* The list shows inactive categories only to those who ask for them:
\* "Include inactive categories", by default false, of QueryCategoryDto.
ListAnswersQuery ==
  \A r \in Readers :
    reader[r].pc = "answered" /\ ~reader[r].includeInactive =>
      \A row \in reader[r].rows : row[2]

=============================================================================
