----------------------------- MODULE CatalogProofs -----------------------------
(***************************************************************************)
(* What the missing transactions of the catalog can and cannot lead to,    *)
(* for any number of categories, services, providers and requests.         *)
(***************************************************************************)
EXTENDS Catalog, TLAPS

-----------------------------------------------------------------------------
(* The inductive invariant *)

\* A request that is going to write knows the row it writes, and an insert of
\* a service knows its category.
PlanIsBound ==
  \A w \in Stewards : LET q == steward[w] IN
    /\ q.kind \in {"category", "remove_category"} => q.c \in Categories
    /\ q.kind \in {"service", "remove_service", "offering"} => q.s \in Services
    /\ q.kind = "offering" => q.p \in Providers
    /\ q.kind = "service" /\ q.creates => q.c \in Categories

\* An active service is in a category.
ActiveHasCategory ==
  \A s \in Services : service[s].isActive => service[s].category \in Categories

\* The check of a removal stays true but for services that came after it.
RemovalLeavesLate ==
  \A w \in Stewards, s \in Services :
    /\ steward[w].kind = "remove_category"
    /\ service[s].isActive /\ service[s].category = steward[w].c
    => s \in lateServices

\* The same of the offerings of a service that is being removed.
RemovalLeavesLateOfferings ==
  \A w \in Stewards, p \in Providers :
    /\ steward[w].kind = "remove_service"
    /\ offering[<<p, steward[w].s>>] = "active"
    => <<p, steward[w].s>> \in lateOfferings

CatalogInv ==
  /\ CatalogTypeOK
  /\ PlanIsBound
  /\ ActiveHasCategory
  /\ RemovalLeavesLate /\ StrandedServiceHasCause
  /\ RemovalLeavesLateOfferings /\ StrandedOfferingHasCause

-----------------------------------------------------------------------------
(* Steps that leave the tables alone *)

LEMMA NoPlanShape ==
  /\ NoPlan \in Plan /\ NoPlan.kind = "none"
  /\ ThenPurge \in Plan /\ ThenPurge.kind = "purge"
<1>1. NoPlan \in Plan /\ NoPlan.kind = "none"
  BY DEF NoPlan, Plan
<1> QED BY <1>1 DEF Plan, ThenPurge

LEMMA CatalogStart == CatalogInit => CatalogInv
<1> SUFFICES ASSUME CatalogInit PROVE CatalogInv
  OBVIOUS
<1>1. CatalogTypeOK
  BY NoPlanShape
  DEF CatalogInit, CatalogTypeOK, Category, NoCategory, Service, NoService,
      OfferingState, List, NoList, Reader, NoReader
<1>2. \A w \in Stewards : steward[w].kind = "none"
  BY NoPlanShape DEF CatalogInit
<1>3. \A s \in Services : ~service[s].isActive
  BY DEF CatalogInit, NoService
<1>4. \A p \in Providers, s \in Services : offering[<<p, s>>] = "none"
  BY DEF CatalogInit
<1> QED
  BY <1>1, <1>2, <1>3, <1>4
  DEF CatalogInv, PlanIsBound, ActiveHasCategory, RemovalLeavesLate,
      StrandedServiceHasCause, RemovalLeavesLateOfferings,
      StrandedOfferingHasCause

\* What a request may plan: its rows, and for a removal the check it has made.
Plannable(q) ==
  /\ q \in Plan
  /\ q.kind \in {"category", "remove_category"} => q.c \in Categories
  /\ q.kind \in {"service", "remove_service", "offering"} => q.s \in Services
  /\ q.kind = "offering" => q.p \in Providers
  /\ q.kind = "service" /\ q.creates => q.c \in Categories
  /\ q.kind = "remove_category" => ~HasService(q.c)
  /\ q.kind = "remove_service" => ~HasProvider(q.s)

LEMMA PlanStep ==
  ASSUME CatalogInv, NEW w \in Stewards, NEW q, Plannable(q), Becomes(w, q),
         UNCHANGED <<category, service, offering, historyOfCatalog>>,
         list' \in List, reader' \in [Readers -> Reader]
  PROVE  CatalogInv'
<1> USE DEF CatalogInv
<1>1. UNCHANGED <<category, service, offering, lateServices, lateOfferings,
                  switchedOff>>
  BY DEF historyOfCatalog
<1>2. /\ steward' = [steward EXCEPT ![w] = q]
      /\ steward'[w] = q
      /\ \A v \in Stewards \ {w} : steward'[v] = steward[v]
  BY DEF Becomes, CatalogTypeOK
<1>3. CatalogTypeOK'
  BY <1>1, <1>2 DEF CatalogTypeOK, Plannable
<1>4. PlanIsBound'
  BY <1>2 DEF PlanIsBound, Plannable
<1>5. ActiveHasCategory' /\ StrandedServiceHasCause' /\ StrandedOfferingHasCause'
  BY <1>1 DEF ActiveHasCategory, StrandedServiceHasCause, StrandedOfferingHasCause
<1>6. RemovalLeavesLate'
  BY <1>1, <1>2 DEF RemovalLeavesLate, Plannable, HasService
<1>7. RemovalLeavesLateOfferings'
  BY <1>1, <1>2 DEF RemovalLeavesLateOfferings, Plannable, HasProvider
<1> QED BY <1>3, <1>4, <1>5, <1>6, <1>7

LEMMA NothingPlanned == Plannable(NoPlan) /\ Plannable(ThenPurge)
BY NoPlanShape DEF Plannable

\* The lookups of CategoryService, ServiceService and ProviderServiceService.
LEMMA LookupSteps ==
  ASSUME CatalogInv, NEW w \in Stewards,
         \/ \E c \in Categories :
              \/ \E label \in Labels : CreateCategory(w, c, label)
              \/ \E label \in Labels \cup {Unset} : UpdateCategory(w, c, label)
              \/ RemoveCategory(w, c)
         \/ \E s \in Services :
              \/ \E c \in Categories, label \in Labels : CreateService(w, s, c, label)
              \/ \E c \in Categories \cup {Unset}, label \in Labels \cup {Unset} :
                   UpdateService(w, s, c, label)
              \/ RemoveService(w, s)
         \/ \E p \in Providers, s \in Services :
              CreateOffering(w, p, s) \/ UpdateOffering(w, p, s)
  PROVE  CatalogInv'
<1> USE NoPlanShape DEF Plan
<1>1. list \in List /\ reader \in [Readers -> Reader]
  BY DEF CatalogInv, CatalogTypeOK
<1>2. SUFFICES ASSUME NEW q, Plannable(q), Becomes(w, q), Unwritten
               PROVE  CatalogInv'
  <2>1. ASSUME NEW c \in Categories, NEW label \in Labels, CreateCategory(w, c, label)
        PROVE  \E q : Plannable(q) /\ Becomes(w, q) /\ Unwritten
    <3>1. PICK a \in BOOLEAN :
            Becomes(w, [NoPlan EXCEPT !.kind = "category", !.c = c, !.label = label,
                                      !.creates = TRUE, !.isActive = a])
      BY <2>1 DEF CreateCategory
    <3>2. Plannable([NoPlan EXCEPT !.kind = "category", !.c = c, !.label = label,
                                   !.creates = TRUE, !.isActive = a])
      BY DEF Plannable
    <3> QED BY <2>1, <3>1, <3>2 DEF CreateCategory
  <2>2. ASSUME NEW c \in Categories, NEW label \in Labels \cup {Unset},
               UpdateCategory(w, c, label)
        PROVE  \E q : Plannable(q) /\ Becomes(w, q) /\ Unwritten
    <3>1. PICK a \in BOOLEAN :
            Becomes(w, [NoPlan EXCEPT !.kind = "category", !.c = c, !.label = label,
                                      !.isActive = a])
      BY <2>2 DEF UpdateCategory
    <3>2. Plannable([NoPlan EXCEPT !.kind = "category", !.c = c, !.label = label,
                                   !.isActive = a])
      BY DEF Plannable
    <3> QED BY <2>2, <3>1, <3>2 DEF UpdateCategory
  <2>3. ASSUME NEW c \in Categories, RemoveCategory(w, c)
        PROVE  \E q : Plannable(q) /\ Becomes(w, q) /\ Unwritten
    <3>1. Plannable([NoPlan EXCEPT !.kind = "remove_category", !.c = c])
      BY <2>3 DEF Plannable, RemoveCategory, CategoryInUse
    <3> QED BY <2>3, <3>1 DEF RemoveCategory
  <2>4. ASSUME NEW s \in Services, NEW c \in Categories, NEW label \in Labels,
               CreateService(w, s, c, label)
        PROVE  \E q : Plannable(q) /\ Becomes(w, q) /\ Unwritten
    <3>1. Plannable([NoPlan EXCEPT !.kind = "service", !.s = s, !.c = c,
                                   !.label = label, !.creates = TRUE])
      BY DEF Plannable
    <3> QED BY <2>4, <3>1 DEF CreateService
  <2>5. ASSUME NEW s \in Services, NEW c \in Categories \cup {Unset},
               NEW label \in Labels \cup {Unset}, UpdateService(w, s, c, label)
        PROVE  \E q : Plannable(q) /\ Becomes(w, q) /\ Unwritten
    <3>1. NoPlan.creates = FALSE
      BY DEF NoPlan
    <3>2. Plannable([NoPlan EXCEPT !.kind = "service", !.s = s, !.c = c,
                                   !.label = label])
      BY <3>1 DEF Plannable
    <3> QED BY <2>5, <3>2 DEF UpdateService
  <2>6. ASSUME NEW s \in Services, RemoveService(w, s)
        PROVE  \E q : Plannable(q) /\ Becomes(w, q) /\ Unwritten
    <3>1. Plannable([NoPlan EXCEPT !.kind = "remove_service", !.s = s])
      BY <2>6 DEF Plannable, RemoveService
    <3> QED BY <2>6, <3>1 DEF RemoveService
  <2>7. ASSUME NEW p \in Providers, NEW s \in Services, CreateOffering(w, p, s)
        PROVE  \E q : Plannable(q) /\ Becomes(w, q) /\ Unwritten
    <3>1. Plannable([NoPlan EXCEPT !.kind = "offering", !.p = p, !.s = s,
                                   !.creates = TRUE])
      BY DEF Plannable
    <3> QED BY <2>7, <3>1 DEF CreateOffering
  <2>8. ASSUME NEW p \in Providers, NEW s \in Services, UpdateOffering(w, p, s)
        PROVE  \E q : Plannable(q) /\ Becomes(w, q) /\ Unwritten
    <3>1. PICK a \in BOOLEAN :
            Becomes(w, [NoPlan EXCEPT !.kind = "offering", !.p = p, !.s = s,
                                      !.isActive = a])
      BY <2>8 DEF UpdateOffering
    <3>2. Plannable([NoPlan EXCEPT !.kind = "offering", !.p = p, !.s = s,
                                   !.isActive = a])
      BY DEF Plannable
    <3> QED BY <2>8, <3>1, <3>2 DEF UpdateOffering
  <2> QED BY <2>1, <2>2, <2>3, <2>4, <2>5, <2>6, <2>7, <2>8
<1> QED BY <1>1, <1>2, PlanStep DEF Unwritten

\* Deleting the cached list, giving up, and reading the list.
LEMMA OtherSteps ==
  ASSUME CatalogInv,
         \/ \E w \in Stewards : PurgeList(w) \/ StewardStops(w)
         \/ \E r \in Readers : ListRequest(r)
         \/ ListExpires
         \/ UNCHANGED catalogVars
  PROVE  CatalogInv'
<1> USE DEF CatalogInv
<1>1. NoList \in List /\ list \in List /\ reader \in [Readers -> Reader]
  BY DEF NoList, List, CatalogTypeOK
<1>2. ASSUME NEW w \in Stewards, PurgeList(w) \/ StewardStops(w)
      PROVE  CatalogInv'
  BY <1>1, <1>2, NothingPlanned, PlanStep DEF PurgeList, StewardStops, Unwritten
<1>3. ASSUME UNCHANGED <<category, service, offering, steward, historyOfCatalog>>,
             list' \in List, reader' \in [Readers -> Reader]
      PROVE  CatalogInv'
  <2>1. UNCHANGED <<category, service, offering, steward, lateServices,
                    lateOfferings, switchedOff>>
    BY <1>3 DEF historyOfCatalog
  <2>2. CatalogTypeOK'
    BY <1>3, <2>1 DEF CatalogTypeOK
  <2> QED
    BY <2>1, <2>2
    DEF PlanIsBound, ActiveHasCategory, RemovalLeavesLate,
        StrandedServiceHasCause, RemovalLeavesLateOfferings,
        StrandedOfferingHasCause
<1>4. ASSUME NEW r \in Readers, NEW all \in BOOLEAN, FindAll(r, all)
      PROVE  CatalogInv'
  <2>1. Selected(all) \in SUBSET (Categories \X BOOLEAN)
    BY DEF Selected, Listed, CatalogTypeOK, Category
  <2>2. reader' \in [Readers -> Reader]
    BY <1>1, <1>4, <2>1 DEF FindAll, SetReader, Reader, List
  <2> QED BY <1>1, <1>3, <1>4, <2>2 DEF FindAll
<1>5. ASSUME NEW r \in Readers, StoreList(r)
      PROVE  CatalogInv'
  <2>1. reader[r] \in Reader
    BY <1>1
  <2>2. list' \in List /\ reader' \in [Readers -> Reader]
    BY <1>1, <1>5, <2>1 DEF StoreList, SetReader, Reader, List
  <2> QED BY <1>3, <1>5, <2>2 DEF StoreList
<1>6. ASSUME NEW r \in Readers, ReaderLeaves(r)
      PROVE  CatalogInv'
  <2>1. reader' \in [Readers -> Reader]
    BY <1>1, <1>6 DEF ReaderLeaves, SetReader, Reader, NoReader
  <2> QED BY <1>1, <1>3, <1>6, <2>1 DEF ReaderLeaves
<1>7. CASE ListExpires
  BY <1>1, <1>3, <1>7 DEF ListExpires
<1>8. CASE UNCHANGED catalogVars
  BY <1>1, <1>3, <1>8 DEF catalogVars
<1> QED BY <1>2, <1>4, <1>5, <1>6, <1>7, <1>8 DEF ListRequest

-----------------------------------------------------------------------------
(* The writes *)

\* The unique index refuses the write, or the row gets the label and isActive
\* of the dto; what becomes inactive is recorded in switchedOff.
LEMMA WriteCategoryStep ==
  ASSUME CatalogInv, NEW w \in Stewards, WriteCategory(w)
  PROVE  CatalogInv'
<1> USE DEF CatalogInv
<1> DEFINE q == steward[w]
<1>1. q \in Plan /\ q.c \in Categories
  BY DEF WriteCategory, PlanIsBound, CatalogTypeOK
<1>2. CASE SlugTaken(q.c, q.label)
  <2>1. Becomes(w, NoPlan) /\ UNCHANGED <<category, service, offering, list,
                                         reader, historyOfCatalog>>
    BY <1>2 DEF WriteCategory, historyOfCatalog
  <2> QED BY <2>1, NothingPlanned, PlanStep DEF CatalogTypeOK
<1>3. CASE ~SlugTaken(q.c, q.label)
  <2>1. /\ category' = [category EXCEPT ![q.c] =
             [slug |-> Given(q.label, @.slug), isActive |-> q.isActive]]
        /\ switchedOff' = IF q.isActive THEN switchedOff \ {q.c}
                          ELSE switchedOff \cup {q.c}
        /\ steward' = [steward EXCEPT ![w] = ThenPurge]
        /\ UNCHANGED <<service, offering, list, reader, lateServices, lateOfferings>>
    BY <1>3 DEF WriteCategory, Becomes
  <2>2. /\ category'[q.c].isActive = q.isActive
        /\ \A c \in Categories \ {q.c} : category'[c] = category[c]
        /\ category' \in [Categories -> Category]
    BY <1>1, <2>1 DEF CatalogTypeOK, Category, Plan, Given
  <2>3. \A v \in Stewards : steward'[v] = steward[v] \/ steward'[v].kind = "purge"
    BY <2>1, NoPlanShape DEF CatalogTypeOK
  <2>4. CatalogTypeOK'
    BY <1>1, <2>1, <2>2, NoPlanShape DEF CatalogTypeOK
  <2>5. PlanIsBound' /\ RemovalLeavesLate' /\ RemovalLeavesLateOfferings'
    BY <2>1, <2>3 DEF PlanIsBound, RemovalLeavesLate, RemovalLeavesLateOfferings
  <2>6. ActiveHasCategory' /\ StrandedOfferingHasCause'
    BY <2>1 DEF ActiveHasCategory, StrandedOfferingHasCause
  <2>7. StrandedServiceHasCause'
    <3> SUFFICES ASSUME NEW s \in Services, service[s].isActive,
                        ~category'[service[s].category].isActive
                 PROVE  s \in lateServices \/ service[s].category \in switchedOff'
      BY <2>1 DEF StrandedServiceHasCause
    <3>1. service[s].category \in Categories
      BY DEF ActiveHasCategory
    <3>2. CASE service[s].category = q.c
      BY <2>1, <2>2, <3>2
    <3>3. CASE service[s].category # q.c
      BY <2>1, <2>2, <3>1, <3>3 DEF StrandedServiceHasCause
    <3> QED BY <3>2, <3>3
  <2> QED BY <2>4, <2>5, <2>6, <2>7
<1> QED BY <1>2, <1>3

\* The active services the category has by now all came after the check.
LEMMA WriteRemoveCategoryStep ==
  ASSUME CatalogInv, NEW w \in Stewards, WriteRemoveCategory(w)
  PROVE  CatalogInv'
<1> USE DEF CatalogInv
<1> DEFINE k == steward[w].c
<1>1. k \in Categories /\ steward[w].kind = "remove_category"
  BY DEF WriteRemoveCategory, PlanIsBound
<1>2. /\ category' = [category EXCEPT ![k].isActive = FALSE]
      /\ switchedOff' = switchedOff \ {k}
      /\ steward' = [steward EXCEPT ![w] = ThenPurge]
      /\ UNCHANGED <<service, offering, list, reader, lateServices, lateOfferings>>
  BY DEF WriteRemoveCategory, Becomes
<1>3. /\ \A c \in Categories \ {k} : category'[c] = category[c]
      /\ category' \in [Categories -> Category]
  BY <1>1, <1>2 DEF CatalogTypeOK, Category
<1>4. \A v \in Stewards : steward'[v] = steward[v] \/ steward'[v].kind = "purge"
  BY <1>2, NoPlanShape DEF CatalogTypeOK
<1>5. CatalogTypeOK'
  BY <1>1, <1>2, <1>3, NoPlanShape DEF CatalogTypeOK
<1>6. PlanIsBound' /\ RemovalLeavesLate' /\ RemovalLeavesLateOfferings'
  BY <1>2, <1>4 DEF PlanIsBound, RemovalLeavesLate, RemovalLeavesLateOfferings
<1>7. ActiveHasCategory' /\ StrandedOfferingHasCause'
  BY <1>2 DEF ActiveHasCategory, StrandedOfferingHasCause
<1>8. StrandedServiceHasCause'
  <2> SUFFICES ASSUME NEW s \in Services, service[s].isActive,
                      ~category'[service[s].category].isActive
               PROVE  s \in lateServices \/ service[s].category \in switchedOff'
    BY <1>2 DEF StrandedServiceHasCause
  <2>1. service[s].category \in Categories
    BY DEF ActiveHasCategory
  <2>2. CASE service[s].category = k
    BY <1>1, <2>2 DEF RemovalLeavesLate
  <2>3. CASE service[s].category # k
    BY <1>2, <1>3, <2>1, <2>3 DEF StrandedServiceHasCause
  <2> QED BY <2>2, <2>3
<1> QED BY <1>5, <1>6, <1>7, <1>8

\* A service that is put into a category that was, or is being, removed is late.
LEMMA WriteServiceStep ==
  ASSUME CatalogInv, NEW w \in Stewards, WriteService(w)
  PROVE  CatalogInv'
<1> USE DEF CatalogInv
<1> DEFINE q == steward[w]
           k == Given(q.c, service[q.s].category)
           label == Given(q.label, service[q.s].name)
<1>1. /\ q \in Plan /\ q.s \in Services /\ q.kind = "service"
      /\ q.creates => q.c \in Categories
  BY DEF WriteService, PlanIsBound, CatalogTypeOK
<1>2. CASE NameUsed(q.s, k, label)
  <2>1. Becomes(w, NoPlan) /\ UNCHANGED <<category, service, offering, list,
                                         reader, historyOfCatalog>>
    BY <1>2 DEF WriteService, historyOfCatalog
  <2> QED BY <2>1, NothingPlanned, PlanStep DEF CatalogTypeOK
<1>3. CASE ~NameUsed(q.s, k, label)
  <2>1. /\ service' = [service EXCEPT ![q.s] =
             [category |-> k, name |-> label, isActive |-> q.creates \/ @.isActive]]
        /\ lateServices' =
             IF q.c = Unset THEN lateServices
             ELSE IF ~category[k].isActive \/ Removing("remove_category", k)
                  THEN lateServices \cup {q.s} ELSE lateServices \ {q.s}
        /\ steward' = [steward EXCEPT ![w] = NoPlan]
        /\ UNCHANGED <<category, offering, list, reader, lateOfferings, switchedOff>>
    BY <1>3 DEF WriteService, Becomes
  <2>2. /\ service'[q.s].category = k
        /\ service'[q.s].isActive = (q.creates \/ service[q.s].isActive)
        /\ \A s \in Services \ {q.s} : service'[s] = service[s]
        /\ service' \in [Services -> Service]
    BY <1>1, <2>1 DEF CatalogTypeOK, Service, Plan, Given
  <2>3. /\ steward'[w].kind = "none"
        /\ \A v \in Stewards \ {w} : steward'[v] = steward[v]
    BY <2>1, NoPlanShape DEF CatalogTypeOK
  <2>4. q.c = Unset => k = service[q.s].category /\ ~q.creates
    BY <1>1, CatalogAssumption DEF Given
  <2>5. q.c # Unset => k = q.c /\ k \in Categories
    BY <1>1 DEF Given, Plan
  <2> HIDE DEF q, k, label
  <2>6. CatalogTypeOK'
    BY <1>1, <2>1, <2>2, NoPlanShape DEF CatalogTypeOK
  <2>7. PlanIsBound'
    BY <2>3 DEF PlanIsBound
  <2>8. ActiveHasCategory'
    BY <1>1, <2>2, <2>4, <2>5 DEF ActiveHasCategory
  <2>9. \A s \in Services \ {q.s} : s \in lateServices' <=> s \in lateServices
    BY <2>1
  <2>10. RemovalLeavesLate'
    <3> SUFFICES ASSUME NEW v \in Stewards, NEW s \in Services,
                        steward'[v].kind = "remove_category", service'[s].isActive,
                        service'[s].category = steward'[v].c
                 PROVE  s \in lateServices'
      BY DEF RemovalLeavesLate
    <3>1. v # w /\ steward'[v] = steward[v]
      BY <2>3
    <3>2. CASE s # q.s
      BY <2>2, <2>9, <3>1, <3>2 DEF RemovalLeavesLate
    <3>3. CASE s = q.s /\ q.c = Unset
      <4>1. service[s].isActive /\ service[s].category = steward[v].c
        BY <2>2, <2>4, <3>1, <3>3
      <4>2. lateServices' = lateServices /\ steward[v].kind = "remove_category"
        BY <2>1, <3>1, <3>3
      <4> QED BY <4>1, <4>2 DEF RemovalLeavesLate
    <3>4. CASE s = q.s /\ q.c # Unset
      <4>1. Removing("remove_category", k)
        BY <2>2, <3>1, <3>4 DEF Removing
      <4> QED BY <2>1, <3>4, <4>1
    <3> QED BY <3>2, <3>3, <3>4
  <2>11. StrandedServiceHasCause'
    <3> SUFFICES ASSUME NEW s \in Services, service'[s].isActive,
                        ~category[service'[s].category].isActive
                 PROVE  s \in lateServices' \/ service'[s].category \in switchedOff
      BY <2>1 DEF StrandedServiceHasCause
    <3>1. CASE s # q.s
      BY <2>2, <2>9, <3>1 DEF StrandedServiceHasCause
    <3>2. CASE s = q.s /\ q.c = Unset
      BY <2>1, <2>2, <2>4, <3>2 DEF StrandedServiceHasCause
    <3>3. CASE s = q.s /\ q.c # Unset
      BY <2>1, <2>2, <3>3
    <3> QED BY <3>1, <3>2, <3>3
  <2>12. RemovalLeavesLateOfferings'
    BY <2>1, <2>3 DEF RemovalLeavesLateOfferings
  <2>13. StrandedOfferingHasCause'
    <3>1. \A s \in Services : service[s].isActive => service'[s].isActive
      <4> SUFFICES ASSUME NEW s \in Services, service[s].isActive
                   PROVE  service'[s].isActive
        OBVIOUS
      <4>1. CASE s = q.s
        BY <2>2, <4>1
      <4>2. CASE s # q.s
        BY <2>2, <4>2
      <4> QED BY <4>1, <4>2
    <3> QED BY <2>1, <3>1 DEF StrandedOfferingHasCause
  <2> QED BY <2>6, <2>7, <2>8, <2>10, <2>11, <2>12, <2>13
<1> QED BY <1>2, <1>3

\* The active offerings the service has by now all came after the check.
LEMMA WriteRemoveServiceStep ==
  ASSUME CatalogInv, NEW w \in Stewards, WriteRemoveService(w)
  PROVE  CatalogInv'
<1> USE DEF CatalogInv
<1> DEFINE t == steward[w].s
<1>1. t \in Services /\ steward[w].kind = "remove_service"
  BY DEF WriteRemoveService, PlanIsBound
<1>2. /\ service' = [service EXCEPT ![t].isActive = FALSE]
      /\ steward' = [steward EXCEPT ![w] = NoPlan]
      /\ UNCHANGED <<category, offering, list, reader, lateServices,
                     lateOfferings, switchedOff>>
  BY DEF WriteRemoveService, Becomes, historyOfCatalog
<1>3. /\ ~service'[t].isActive
      /\ \A s \in Services \ {t} : service'[s] = service[s]
      /\ service' \in [Services -> Service]
  BY <1>1, <1>2 DEF CatalogTypeOK, Service
<1>4. \A v \in Stewards : steward'[v] = steward[v] \/ steward'[v].kind = "none"
  BY <1>2, NoPlanShape DEF CatalogTypeOK
<1>5. CatalogTypeOK'
  BY <1>1, <1>2, <1>3, NoPlanShape DEF CatalogTypeOK
<1>6. PlanIsBound' /\ RemovalLeavesLateOfferings'
  BY <1>2, <1>4 DEF PlanIsBound, RemovalLeavesLateOfferings
<1>7. ActiveHasCategory' /\ StrandedServiceHasCause'
  BY <1>2, <1>3 DEF ActiveHasCategory, StrandedServiceHasCause
<1>8. RemovalLeavesLate'
  BY <1>2, <1>3, <1>4 DEF RemovalLeavesLate
<1>9. StrandedOfferingHasCause'
  <2> SUFFICES ASSUME NEW p \in Providers, NEW s \in Services,
                      offering[<<p, s>>] = "active", ~service'[s].isActive
               PROVE  <<p, s>> \in lateOfferings
    BY <1>2 DEF StrandedOfferingHasCause
  <2>1. CASE s = t
    BY <1>1, <2>1 DEF RemovalLeavesLateOfferings
  <2>2. CASE s # t
    BY <1>3, <2>2 DEF StrandedOfferingHasCause
  <2> QED BY <2>1, <2>2
<1> QED BY <1>5, <1>6, <1>7, <1>8, <1>9

\* An offering that is written when its service was, or is being, removed is
\* late.
LEMMA WriteOfferingStep ==
  ASSUME CatalogInv, NEW w \in Stewards, WriteOffering(w)
  PROVE  CatalogInv'
<1> USE DEF CatalogInv
<1> DEFINE q == steward[w]
           o == <<q.p, q.s>>
<1>1. q.s \in Services /\ q.p \in Providers /\ o \in Providers \X Services
  BY DEF WriteOffering, PlanIsBound
<1>2. /\ steward' = [steward EXCEPT ![w] = NoPlan]
      /\ UNCHANGED <<category, service, list, reader, lateServices, switchedOff>>
  BY DEF WriteOffering, Becomes
<1>3. \/ UNCHANGED <<offering, lateOfferings>>
      \/ /\ offering' = [offering EXCEPT ![o] = Switch(q.isActive)]
         /\ lateOfferings' =
              IF ~service[q.s].isActive \/ Removing("remove_service", q.s)
              THEN lateOfferings \cup {o} ELSE lateOfferings \ {o}
  BY DEF WriteOffering
<1>4. \A v \in Stewards : steward'[v] = steward[v] \/ steward'[v].kind = "none"
  BY <1>2, NoPlanShape DEF CatalogTypeOK
<1>5. \A x \in (Providers \X Services) \ {o} :
        offering'[x] = offering[x] /\ (x \in lateOfferings' <=> x \in lateOfferings)
  BY <1>1, <1>3 DEF CatalogTypeOK
<1>6. CatalogTypeOK'
  BY <1>1, <1>2, <1>3, NoPlanShape DEF CatalogTypeOK, Switch, OfferingState
<1>7. PlanIsBound' /\ ActiveHasCategory' /\ RemovalLeavesLate' /\ StrandedServiceHasCause'
  BY <1>2, <1>4 DEF PlanIsBound, ActiveHasCategory, RemovalLeavesLate,
                    StrandedServiceHasCause
<1>8. RemovalLeavesLateOfferings'
  <2> SUFFICES ASSUME NEW v \in Stewards, NEW p \in Providers,
                      steward'[v].kind = "remove_service",
                      offering'[<<p, steward'[v].s>>] = "active"
               PROVE  <<p, steward'[v].s>> \in lateOfferings'
    BY DEF RemovalLeavesLateOfferings
  <2>1. steward'[v] = steward[v] /\ steward[v].s \in Services
    BY <1>4 DEF PlanIsBound
  <2>2. CASE <<p, steward[v].s>> # o
    BY <1>5, <2>1, <2>2 DEF RemovalLeavesLateOfferings
  <2>3. CASE <<p, steward[v].s>> = o
    <3>1. Removing("remove_service", q.s)
      BY <2>1, <2>3 DEF Removing
    <3> QED BY <1>3, <2>1, <2>3, <3>1 DEF RemovalLeavesLateOfferings
  <2> QED BY <2>2, <2>3
<1>9. StrandedOfferingHasCause'
  <2> SUFFICES ASSUME NEW p \in Providers, NEW s \in Services,
                      offering'[<<p, s>>] = "active", ~service[s].isActive
               PROVE  <<p, s>> \in lateOfferings'
    BY <1>2 DEF StrandedOfferingHasCause
  <2>1. CASE <<p, s>> # o
    BY <1>5, <2>1 DEF StrandedOfferingHasCause
  <2>2. CASE <<p, s>> = o
    BY <1>3, <2>2 DEF StrandedOfferingHasCause
  <2> QED BY <2>1, <2>2
<1> QED BY <1>6, <1>7, <1>8, <1>9

-----------------------------------------------------------------------------
(* The theorems *)

\* Every request and every reader of the catalog keeps the invariant.
LEMMA CatalogStep == CatalogInv /\ [CatalogNext]_catalogVars => CatalogInv'
<1> SUFFICES ASSUME CatalogInv, [CatalogNext]_catalogVars PROVE CatalogInv'
  OBVIOUS
<1>1. ASSUME NEW w \in Stewards, CategoryRequest(w) PROVE CatalogInv'
  BY <1>1, LookupSteps, WriteCategoryStep, WriteRemoveCategoryStep, OtherSteps
  DEF CategoryRequest
<1>2. ASSUME NEW w \in Stewards, ServiceRequest(w) PROVE CatalogInv'
  BY <1>2, LookupSteps, WriteServiceStep, WriteRemoveServiceStep
  DEF ServiceRequest
<1>3. ASSUME NEW w \in Stewards, OfferingRequest(w) PROVE CatalogInv'
  BY <1>3, LookupSteps, WriteOfferingStep DEF OfferingRequest
<1> QED BY <1>1, <1>2, <1>3, OtherSteps DEF CatalogNext

\* The requests of CategoryService, ServiceService and ProviderServiceService
\* keep the invariant, their types included.
THEOREM CatalogInvariance == CatalogSpec => []CatalogInv
BY CatalogStart, CatalogStep, PTL DEF CatalogSpec

\* Every row of the catalog, every request in flight and the cached list keep
\* their types: what a check of CategoryService, ServiceService or
\* ProviderServiceService read is still a row when the request writes.
THEOREM CatalogTypes == CatalogSpec => []CatalogTypeOK
<1>1. CatalogInv => CatalogTypeOK
  BY DEF CatalogInv
<1> QED BY <1>1, CatalogInvariance, PTL

\* Removing a category strands no active service but the ones that came past
\* its check: hasService and the write are two queries (CategoryService.remove).
THEOREM ServicesStrandWithCause == CatalogSpec => []StrandedServiceHasCause
<1>1. CatalogInv => StrandedServiceHasCause
  BY DEF CatalogInv
<1> QED BY <1>1, CatalogInvariance, PTL

\* Removing a service strands no active offering but the ones that were made or
\* enabled past its check (ServiceService.remove, hasProvider).
THEOREM OfferingsStrandWithCause == CatalogSpec => []StrandedOfferingHasCause
<1>1. CatalogInv => StrandedOfferingHasCause
  BY DEF CatalogInv
<1> QED BY <1>1, CatalogInvariance, PTL

=============================================================================
