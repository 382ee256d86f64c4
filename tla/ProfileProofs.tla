----------------------------- MODULE ProfileProofs -----------------------------
(***************************************************************************)
(* What holds of business names, documents and verification decisions for  *)
(* any number of owners, requests and administrators.  The invariant has   *)
(* three parts that share only the types: names, uploads and decisions.    *)
(***************************************************************************)
EXTENDS Profiles, TLAPS

-----------------------------------------------------------------------------
(* Types *)

\* What a request of an owner carries.
ClerkBound(k) ==
  /\ clerk[k].pc \in {"create", "update"} =>
       clerk[k].owner \in Owners /\ clerk[k].what \in Names
  /\ clerk[k].pc \in {"store", "insert"} =>
       clerk[k].owner \in Owners /\ clerk[k].what \in DocTypes

\* What a decision carries.
OfficerBound(g) ==
  IF officer[g].pc = "idle" THEN officer[g] = NoOfficer
  ELSE officer[g].owner \in Owners

Types ==
  /\ ProfileTypeOK
  /\ \A k \in Clerks : ClerkBound(k)
  /\ \A g \in Officers : OfficerBound(g)

LEMMA NoRows == NoClerk \in Clerk /\ NoOfficer \in Officer /\ NoDocument \in Document
BY DEF NoClerk, Clerk, NoOfficer, Officer, NoDocument, Document, VerificationStatus

LEMMA ClerkRow ==
  ASSUME Types, NEW k \in Clerks, NEW r \in Clerk, SetClerk(k, r)
  PROVE  /\ clerk' \in [Clerks -> Clerk] /\ clerk'[k] = r
         /\ \A j \in Clerks \ {k} : clerk'[j] = clerk[j]
BY DEF Types, ProfileTypeOK, SetClerk

LEMMA OfficerRow ==
  ASSUME Types, NEW g \in Officers, NEW r \in Officer, SetOfficer(g, r)
  PROVE  /\ officer' \in [Officers -> Officer] /\ officer'[g] = r
         /\ \A o \in Officers \ {g} : officer'[o] = officer[o]
BY DEF Types, ProfileTypeOK, SetOfficer

LEMMA InitTypes == ProfileInit => Types
<1> SUFFICES ASSUME ProfileInit PROVE Types
  OBVIOUS
<1>1. ProfileTypeOK
  BY NoRows DEF ProfileInit, ProfileTypeOK, VerificationStatus
<1>2. \A k \in Clerks : clerk[k].pc = "idle"
  BY DEF ProfileInit, NoClerk
<1>3. \A g \in Officers : officer[g] = NoOfficer /\ officer[g].pc = "idle"
  BY DEF ProfileInit, NoOfficer
<1> QED BY <1>1, <1>2, <1>3 DEF Types, ClerkBound, OfficerBound

\* A request of an owner whose new state is r.
LEMMA ClerkTypes ==
  ASSUME Types, NEW k \in Clerks, NEW r \in Clerk, SetClerk(k, r),
         r.pc \in {"create", "update"} => r.owner \in Owners /\ r.what \in Names,
         r.pc \in {"store", "insert"} => r.owner \in Owners /\ r.what \in DocTypes,
         UNCHANGED <<status, officer, lastAudit, settled>>,
         business' \in [Owners -> Names \cup {NoName}],
         document' \in [Files -> Document], stored' \subseteq Files,
         nameRaces' \subseteq Names, uploadRaces' \subseteq Owners \X DocTypes
  PROVE  Types'
<1>1. ProfileTypeOK'
  BY ClerkRow DEF Types, ProfileTypeOK
<1>2. \A j \in Clerks : ClerkBound(j)'
  BY ClerkRow DEF Types, ClerkBound
<1>3. \A g \in Officers : OfficerBound(g)'
  BY DEF Types, OfficerBound
<1> QED BY <1>1, <1>2, <1>3 DEF Types

\* A decision whose new state is r.
LEMMA OfficerTypes ==
  ASSUME Types, NEW g \in Officers, NEW r \in Officer, SetOfficer(g, r),
         IF r.pc = "idle" THEN r = NoOfficer ELSE r.owner \in Owners,
         UNCHANGED <<business, stored, clerk, nameRaces, uploadRaces>>,
         status' \in [Owners -> VerificationStatus],
         document' \in [Files -> Document],
         lastAudit' \in [Owners -> VerificationStatus],
         settled' \in [Owners -> BOOLEAN]
  PROVE  Types'
<1>1. ProfileTypeOK'
  BY OfficerRow DEF Types, ProfileTypeOK
<1>2. \A j \in Clerks : ClerkBound(j)'
  BY DEF Types, ClerkBound
<1>3. \A o \in Officers : OfficerBound(o)'
  BY OfficerRow DEF Types, OfficerBound
<1> QED BY <1>1, <1>2, <1>3 DEF Types

LEMMA OwnerTypes ==
  ASSUME Types, NEW k \in Clerks, OwnerRequest(k)
  PROVE  Types'
<1> USE DEF Types
<1>0. clerk[k] \in Clerk /\ ClerkBound(k)
  BY DEF ProfileTypeOK
<1>1. ASSUME NEW u \in Owners, NEW n \in Names, CheckName(k, u, n)
      PROVE  Types'
  <2> DEFINE r == [NoClerk EXCEPT !.pc = IF HasProfile(u) THEN "update" ELSE "create",
                                  !.owner = u, !.what = n]
  <2>1. r \in Clerk /\ r.pc \in {"create", "update"} /\ r.owner = u /\ r.what = n
    BY DEF NoClerk, Clerk
  <2>2. SetClerk(k, r) /\ nameRaces' \subseteq Names
    BY <1>1 DEF CheckName, ProfileTypeOK
  <2>3. UNCHANGED <<business, status, document, stored, officer, lastAudit,
                    uploadRaces, settled>>
    BY <1>1 DEF CheckName
  <2> HIDE DEF r
  <2> QED BY <2>1, <2>2, <2>3, ClerkTypes DEF ProfileTypeOK
<1>2. ASSUME NEW u \in Owners, NEW t \in DocTypes, CheckDocument(k, u, t)
      PROVE  Types'
  <2> DEFINE r == [NoClerk EXCEPT !.pc = "store", !.owner = u, !.what = t]
  <2>1. r \in Clerk /\ r.pc = "store" /\ r.owner = u /\ r.what = t
    BY DEF NoClerk, Clerk
  <2>2. SetClerk(k, r) /\ uploadRaces' \subseteq Owners \X DocTypes
    BY <1>2 DEF CheckDocument, ProfileTypeOK
  <2>3. UNCHANGED <<business, status, document, stored, officer, lastAudit,
                    nameRaces, settled>>
    BY <1>2 DEF CheckDocument
  <2> HIDE DEF r
  <2> QED BY <2>1, <2>2, <2>3, ClerkTypes DEF ProfileTypeOK
<1>3. ASSUME NEW f \in Files, StoreFile(k, f)
      PROVE  Types'
  <2> DEFINE r == [clerk[k] EXCEPT !.pc = "insert", !.file = {f}]
  <2>1. /\ r \in Clerk /\ r.pc = "insert"
        /\ r.owner = clerk[k].owner /\ r.what = clerk[k].what
    BY <1>0 DEF Clerk
  <2>2. clerk[k].pc = "store" /\ SetClerk(k, r) /\ stored' = stored \cup {f}
    BY <1>3 DEF StoreFile, Written
  <2>3. UNCHANGED <<business, status, document, officer, lastAudit, nameRaces,
                    uploadRaces, settled>>
    BY <1>3 DEF StoreFile
  <2> HIDE DEF r
  <2> QED BY <1>0, <2>1, <2>2, <2>3, ClerkTypes DEF ProfileTypeOK, ClerkBound
<1>4. ASSUME NEW f \in Files, InsertDocument(k, f)
      PROVE  Types'
  <2> DEFINE row == [owner |-> clerk[k].owner, type |-> clerk[k].what,
                     status |-> "PENDING"]
  <2>1. row \in Document
    BY <1>0, <1>4 DEF InsertDocument, ClerkBound, Document, VerificationStatus
  <2>2. document' = [document EXCEPT ![f] = row] /\ SetClerk(k, NoClerk)
    BY <1>4 DEF InsertDocument
  <2>3. UNCHANGED <<business, status, stored, officer, lastAudit, nameRaces,
                    uploadRaces, settled>>
    BY <1>4 DEF InsertDocument
  <2>4. document' \in [Files -> Document]
    BY <2>1, <2>2 DEF ProfileTypeOK
  <2> QED BY <2>2, <2>3, <2>4, NoRows, ClerkTypes DEF ProfileTypeOK, NoClerk
<1>5. CASE WriteName(k)
  <2>1. business' \in [Owners -> Names \cup {NoName}]
    BY <1>0, <1>5 DEF WriteName, ClerkBound, ProfileTypeOK
  <2>2. SetClerk(k, NoClerk) /\ UNCHANGED <<status, document, stored, officer,
                    lastAudit, nameRaces, uploadRaces, settled>>
    BY <1>5 DEF WriteName
  <2> QED BY <2>1, <2>2, NoRows, ClerkTypes DEF ProfileTypeOK, NoClerk
<1>6. CASE ClerkStops(k)
  BY <1>6, NoRows, ClerkTypes DEF ClerkStops, ProfileTypeOK, NoClerk
<1> QED BY <1>1, <1>2, <1>3, <1>4, <1>5, <1>6 DEF OwnerRequest

LEMMA DecideTypes ==
  ASSUME Types, NEW g \in Officers, NEW u \in Owners,
         NEW to \in VerificationStatus \ {"PENDING"}, Decide(g, u, to)
  PROVE  /\ Types'
         /\ officer'[g] = [pc |-> "profile", owner |-> u, to |-> to,
                           alone |-> ~Deciding(u)]
         /\ \A o \in Officers \ {g} :
              /\ officer'[o].pc = officer[o].pc
              /\ officer'[o].owner = officer[o].owner
              /\ officer'[o].to = officer[o].to
              /\ officer'[o].alone = (officer[o].alone /\ officer[o].owner # u)
<1> USE DEF Types
<1>1. officer' = [o \in Officers |->
        IF o = g
        THEN [pc |-> "profile", owner |-> u, to |-> to, alone |-> ~Deciding(u)]
        ELSE [officer[o] EXCEPT !.alone = @ /\ officer[o].owner # u]]
  BY DEF Decide
<1>2. [pc |-> "profile", owner |-> u, to |-> to, alone |-> ~Deciding(u)] \in Officer
  BY DEF Officer, Deciding
<1>3. ASSUME NEW o \in Officers \ {g}
      PROVE  /\ officer'[o] = [officer[o] EXCEPT !.alone = officer[o].alone /\ officer[o].owner # u]
             /\ officer'[o] \in Officer
             /\ officer'[o].pc = officer[o].pc
             /\ officer'[o].owner = officer[o].owner
             /\ officer'[o].to = officer[o].to
             /\ officer'[o].alone = (officer[o].alone /\ officer[o].owner # u)
  <2>1. officer[o] \in Officer
    BY DEF ProfileTypeOK
  <2>2. officer'[o] = [officer[o] EXCEPT !.alone = officer[o].alone /\ officer[o].owner # u]
    BY <1>1
  <2> QED BY <2>1, <2>2 DEF Officer
<1>4. officer' \in [Officers -> Officer]
  <2>1. \A o \in Officers : officer'[o] \in Officer
    BY <1>1, <1>2, <1>3
  <2> QED BY <1>1, <2>1
<1>5. UNCHANGED <<business, status, document, stored, clerk, lastAudit,
                  nameRaces, uploadRaces, settled>>
  BY DEF Decide
<1>6. ProfileTypeOK'
  BY <1>4, <1>5 DEF ProfileTypeOK
<1>7. \A k \in Clerks : ClerkBound(k)'
  BY <1>5 DEF ClerkBound
<1>8. ASSUME NEW o \in Officers PROVE OfficerBound(o)'
  <2>1. CASE o = g
    BY <1>1, <2>1 DEF OfficerBound
  <2>2. CASE o # g /\ officer[o].pc # "idle"
    BY <1>3, <2>2 DEF OfficerBound
  <2>3. CASE o # g /\ officer[o].pc = "idle"
    <3>1. officer[o] = NoOfficer
      BY <2>3 DEF OfficerBound
    <3>2. /\ officer[o].pc = "idle" /\ officer[o].owner = Nobody
          /\ officer[o].to = "PENDING" /\ ~officer[o].alone
      BY <3>1 DEF NoOfficer
    <3>3. /\ officer'[o].pc = "idle" /\ officer'[o].owner = Nobody
          /\ officer'[o].to = "PENDING"
      BY <1>3, <2>3, <3>2
    <3>4. ~officer'[o].alone
      BY <1>3, <2>3, <3>2
    <3>5. officer'[o] = NoOfficer
      BY <1>3, <2>3, <3>3, <3>4 DEF Officer, NoOfficer
    <3> QED BY <3>5 DEF OfficerBound, NoOfficer
  <2> QED BY <2>1, <2>2, <2>3
<1> QED BY <1>1, <1>3, <1>6, <1>7, <1>8

LEMMA DecisionTypes ==
  ASSUME Types, NEW g \in Officers, Decision(g)
  PROVE  Types'
<1> USE DEF Types
<1>0. officer[g] \in Officer /\ OfficerBound(g)
  BY DEF ProfileTypeOK
<1>1. ASSUME NEW u \in Owners, NEW to \in VerificationStatus \ {"PENDING"},
             Decide(g, u, to)
      PROVE  Types'
  BY <1>1, DecideTypes
<1>2. CASE WriteProfile(g)
  <2> DEFINE r == [officer[g] EXCEPT !.pc = IF officer[g].to = "SUSPENDED"
                                            THEN "audit" ELSE "documents"]
  <2>1. r \in Officer /\ r.pc # "idle" /\ r.owner = officer[g].owner
    BY <1>0 DEF Officer
  <2>2. officer[g].owner \in Owners /\ officer[g].to \in VerificationStatus
    BY <1>0, <1>2 DEF WriteProfile, OfficerBound, Officer
  <2>3. /\ SetOfficer(g, r)
        /\ status' \in [Owners -> VerificationStatus]
        /\ settled' \in [Owners -> BOOLEAN]
        /\ UNCHANGED <<business, document, stored, clerk, lastAudit, nameRaces,
                       uploadRaces>>
    BY <1>2, <2>2 DEF WriteProfile, ProfileTypeOK
  <2> HIDE DEF r
  <2> QED BY <2>1, <2>2, <2>3, OfficerTypes DEF ProfileTypeOK
<1>3. CASE WriteDocuments(g)
  <2> DEFINE r == [officer[g] EXCEPT !.pc = "audit"]
  <2>1. r \in Officer /\ r.pc # "idle" /\ r.owner = officer[g].owner
    BY <1>0 DEF Officer
  <2>2. officer[g].owner \in Owners /\ officer[g].to \in VerificationStatus
    BY <1>0, <1>3 DEF WriteDocuments, OfficerBound, Officer
  <2>3. \A f \in Files : [document[f] EXCEPT !.status = officer[g].to] \in Document
    BY <2>2 DEF ProfileTypeOK, Document
  <2>4. document' \in [Files -> Document]
    BY <1>3, <2>3 DEF WriteDocuments, ProfileTypeOK
  <2>5. /\ SetOfficer(g, r)
        /\ UNCHANGED <<business, status, stored, clerk, lastAudit, nameRaces,
                       uploadRaces, settled>>
    BY <1>3 DEF WriteDocuments
  <2> HIDE DEF r
  <2> QED BY <2>1, <2>2, <2>4, <2>5, OfficerTypes DEF ProfileTypeOK
<1>4. CASE AuditDecision(g)
  <2>1. /\ officer[g].owner \in Owners /\ officer[g].to \in VerificationStatus
        /\ officer[g].alone \in BOOLEAN
    BY <1>0, <1>4 DEF AuditDecision, OfficerBound, Officer
  <2>2. /\ SetOfficer(g, NoOfficer)
        /\ lastAudit' \in [Owners -> VerificationStatus]
        /\ settled' \in [Owners -> BOOLEAN]
        /\ UNCHANGED <<business, status, document, stored, clerk, nameRaces,
                       uploadRaces>>
    BY <1>4, <2>1 DEF AuditDecision, AuditValue, ProfileTypeOK
  <2> QED BY <2>2, NoRows, OfficerTypes DEF ProfileTypeOK, NoOfficer
<1>5. CASE OfficerStops(g)
  BY <1>5, NoRows, OfficerTypes DEF OfficerStops, ProfileTypeOK, NoOfficer
<1> QED BY <1>1, <1>2, <1>3, <1>4, <1>5 DEF Decision

LEMMA TypesStutter ==
  ASSUME Types, UNCHANGED profileVars
  PROVE  Types'
BY DEF Types, ProfileTypeOK, ClerkBound, OfficerBound, profileVars

\* The types, with what the requests carry.
THEOREM TypesInvariance == ProfileSpec => []Types
<1>1. Types /\ [ProfileNext]_profileVars => Types'
  BY OwnerTypes, DecisionTypes, TypesStutter DEF ProfileNext
<1> QED BY <1>1, InitTypes, PTL DEF ProfileSpec

\* Every table and request stays well typed.
THEOREM ProfileTypeCorrect == ProfileSpec => []ProfileTypeOK
<1>1. Types => ProfileTypeOK
  BY DEF Types
<1> QED BY <1>1, TypesInvariance, PTL

-----------------------------------------------------------------------------
(* Business names *)

NamingRequest(k) == clerk[k].pc \in {"create", "update"}

\* The name was looked up, and who took it since had looked it up as well.
FreeOrRaced(k) ==
  NamingRequest(k) =>
    ~NameTaken(clerk[k].owner, clerk[k].what) \/ clerk[k].what \in nameRaces

\* Two requests for a name at once are a race.
ApartOrRaced(k, j) ==
  k # j /\ NamingRequest(k) /\ NamingRequest(j) /\ clerk[k].what = clerk[j].what =>
    clerk[k].what \in nameRaces

NamingInv ==
  /\ NameClashNeedsRace
  /\ \A k \in Clerks : FreeOrRaced(k)
  /\ \A k, j \in Clerks : ApartOrRaced(k, j)

LEMMA NamingInit == ProfileInit => NamingInv
BY DEF ProfileInit, NamingInv, FreeOrRaced, ApartOrRaced, NameClashNeedsRace,
       HasProfile, NamingRequest, NoClerk

\* Steps that neither check nor write a name.
LEMMA NamingUntouched ==
  ASSUME Types, NamingInv, UNCHANGED <<business, nameRaces>>,
         \A k \in Clerks : \/ clerk'[k] = clerk[k]
                            \/ clerk'[k].pc \notin {"create", "update"}
  PROVE  NamingInv'
<1>1. \A k \in Clerks : NamingRequest(k)' => NamingRequest(k) /\ clerk'[k] = clerk[k]
  BY DEF NamingRequest
<1>2. NameClashNeedsRace'
  BY DEF NamingInv, NameClashNeedsRace, HasProfile
<1>3. \A k \in Clerks : FreeOrRaced(k)'
  BY <1>1 DEF NamingInv, FreeOrRaced, NameTaken
<1>4. \A k, j \in Clerks : ApartOrRaced(k, j)'
  BY <1>1 DEF NamingInv, ApartOrRaced
<1> QED BY <1>2, <1>3, <1>4 DEF NamingInv

LEMMA NamingCheck ==
  ASSUME Types, NamingInv, NEW k \in Clerks, NEW u \in Owners, NEW n \in Names,
         CheckName(k, u, n)
  PROVE  NamingInv'
<1> DEFINE r == [NoClerk EXCEPT !.pc = IF HasProfile(u) THEN "update" ELSE "create",
                                !.owner = u, !.what = n]
<1>1. r \in Clerk /\ r.pc \in {"create", "update"} /\ r.owner = u /\ r.what = n
  BY DEF NoClerk, Clerk
<1>2. /\ SetClerk(k, r) /\ UNCHANGED business /\ ~NameTaken(u, n)
      /\ nameRaces' = IF Naming(n) THEN nameRaces \cup {n} ELSE nameRaces
      /\ clerk[k].pc = "idle"
  BY DEF CheckName
<1> HIDE DEF r
<1>3. clerk'[k] = r /\ \A j \in Clerks \ {k} : clerk'[j] = clerk[j]
  BY <1>1, <1>2, ClerkRow
<1>4. NameClashNeedsRace'
  BY <1>2 DEF NamingInv, NameClashNeedsRace, HasProfile
<1>5. ASSUME NEW j \in Clerks
      PROVE  FreeOrRaced(j)'
  <2>1. CASE j = k
    BY <1>1, <1>2, <1>3, <2>1 DEF FreeOrRaced, NameTaken
  <2>2. CASE j # k
    BY <1>2, <1>3, <2>2 DEF NamingInv, FreeOrRaced, NamingRequest, NameTaken
  <2> QED BY <2>1, <2>2
<1>6. ASSUME NEW i \in Clerks, NEW j \in Clerks, i # j, NamingRequest(i)',
             NamingRequest(j)', clerk'[i].what = clerk'[j].what
      PROVE  clerk'[i].what \in nameRaces'
  <2>1. CASE i # k /\ j # k
    BY <1>2, <1>3, <1>6, <2>1 DEF NamingInv, ApartOrRaced, NamingRequest
  <2>2. CASE i = k \/ j = k
    <3>1. PICK o \in Clerks \ {k} : NamingRequest(o)' /\ clerk'[o].what = n
      BY <1>1, <1>3, <1>6, <2>2
    <3>2. Naming(n)
      BY <1>3, <3>1 DEF NamingRequest, Naming
    <3> QED BY <1>1, <1>2, <1>3, <1>6, <2>2, <3>2
  <2> QED BY <2>1, <2>2
<1> QED BY <1>4, <1>5, <1>6 DEF NamingInv, ApartOrRaced

LEMMA NamingWrite ==
  ASSUME Types, NamingInv, NEW k \in Clerks, WriteName(k)
  PROVE  NamingInv'
<1> DEFINE u == clerk[k].owner
           n == clerk[k].what
<1>1. NamingRequest(k) /\ u \in Owners /\ n \in Names
  BY DEF WriteName, NamingRequest, Types, ClerkBound
<1>2. SetClerk(k, NoClerk) /\ UNCHANGED nameRaces
  BY DEF WriteName
<1>3. clerk'[k] = NoClerk /\ \A j \in Clerks \ {k} : clerk'[j] = clerk[j]
  BY <1>2, NoRows, ClerkRow
<1>4. ~NamingRequest(k)'
  BY <1>3 DEF NamingRequest, NoClerk
<1>5. CASE business' = business
  BY <1>2, <1>3, <1>5, NamingUntouched DEF NoClerk
<1>6. CASE business' = [business EXCEPT ![u] = n]
  <2>1. business'[u] = n /\ \A v \in Owners \ {u} : business'[v] = business[v]
    BY <1>1, <1>6 DEF Types, ProfileTypeOK
  <2>2. ASSUME NEW v \in Owners, NEW w \in Owners, v # w, business'[v] # NoName,
               business'[v] = business'[w]
        PROVE  business'[v] \in nameRaces
    <3>1. CASE v # u /\ w # u
      BY <2>1, <2>2, <3>1 DEF NamingInv, NameClashNeedsRace, HasProfile
    <3>2. CASE v = u \/ w = u
      <4>1. NameTaken(u, n)
        BY <2>1, <2>2, <3>2 DEF NameTaken
      <4> QED BY <1>1, <2>1, <2>2, <3>2, <4>1 DEF NamingInv, FreeOrRaced
    <3> QED BY <3>1, <3>2
  <2>3. NameClashNeedsRace'
    BY <1>2, <2>2 DEF NameClashNeedsRace, HasProfile
  <2>4. ASSUME NEW j \in Clerks, NamingRequest(j)'
        PROVE  FreeOrRaced(j)'
    <3>1. j # k /\ clerk'[j] = clerk[j] /\ NamingRequest(j)
      BY <1>3, <1>4, <2>4 DEF NamingRequest
    <3>2. CASE clerk[j].what = n
      BY <1>1, <1>2, <3>1, <3>2 DEF NamingInv, ApartOrRaced, FreeOrRaced
    <3>3. CASE clerk[j].what # n
      BY <1>2, <2>1, <3>1, <3>3 DEF NamingInv, FreeOrRaced, NameTaken
    <3> QED BY <3>2, <3>3
  <2>5. ASSUME NEW i \in Clerks, NEW j \in Clerks, i # j, NamingRequest(i)',
               NamingRequest(j)', clerk'[i].what = clerk'[j].what
        PROVE  clerk'[i].what \in nameRaces'
    <3>1. /\ i # k /\ clerk'[i] = clerk[i] /\ NamingRequest(i)
          /\ j # k /\ clerk'[j] = clerk[j] /\ NamingRequest(j)
      BY <1>3, <1>4, <2>5 DEF NamingRequest
    <3> QED BY <1>2, <2>5, <3>1 DEF NamingInv, ApartOrRaced
  <2>6. \A j \in Clerks : FreeOrRaced(j)'
    BY <2>4 DEF FreeOrRaced
  <2> QED BY <2>3, <2>5, <2>6 DEF NamingInv, ApartOrRaced
<1> QED BY <1>5, <1>6 DEF WriteName

LEMMA NamingStep ==
  ASSUME Types, NamingInv, ProfileNext
  PROVE  NamingInv'
<1>1. ASSUME NEW k \in Clerks, OwnerRequest(k)
      PROVE  NamingInv'
  <2>0. clerk[k] \in Clerk
    BY DEF Types, ProfileTypeOK
  <2>1. ASSUME NEW r \in Clerk, SetClerk(k, r), r.pc \notin {"create", "update"},
               UNCHANGED <<business, nameRaces>>
        PROVE  NamingInv'
    <3>1. clerk'[k] = r /\ \A j \in Clerks \ {k} : clerk'[j] = clerk[j]
      BY <2>1, ClerkRow
    <3> QED BY <2>1, <3>1, NamingUntouched
  <2>2. ASSUME NEW u \in Owners, NEW n \in Names, CheckName(k, u, n)
        PROVE  NamingInv'
    BY <2>2, NamingCheck
  <2>3. ASSUME NEW u \in Owners, NEW t \in DocTypes, CheckDocument(k, u, t)
        PROVE  NamingInv'
    <3> DEFINE r == [NoClerk EXCEPT !.pc = "store", !.owner = u, !.what = t]
    <3>1. r \in Clerk /\ r.pc = "store"
      BY DEF NoClerk, Clerk
    <3>2. SetClerk(k, r) /\ UNCHANGED <<business, nameRaces>>
      BY <2>3 DEF CheckDocument
    <3> HIDE DEF r
    <3> QED BY <2>1, <3>1, <3>2
  <2>4. ASSUME NEW f \in Files, StoreFile(k, f)
        PROVE  NamingInv'
    <3> DEFINE r == [clerk[k] EXCEPT !.pc = "insert", !.file = {f}]
    <3>1. r \in Clerk /\ r.pc = "insert"
      BY <2>0 DEF Clerk
    <3>2. SetClerk(k, r) /\ UNCHANGED <<business, nameRaces>>
      BY <2>4 DEF StoreFile
    <3> HIDE DEF r
    <3> QED BY <2>1, <3>1, <3>2
  <2>5. ASSUME NEW f \in Files, InsertDocument(k, f)
        PROVE  NamingInv'
    BY <2>1, <2>5, NoRows DEF InsertDocument, NoClerk
  <2>6. CASE WriteName(k)
    BY <2>6, NamingWrite
  <2>7. CASE ClerkStops(k)
    BY <2>1, <2>7, NoRows DEF ClerkStops, NoClerk
  <2> QED BY <1>1, <2>2, <2>3, <2>4, <2>5, <2>6, <2>7 DEF OwnerRequest
<1>2. ASSUME NEW g \in Officers, Decision(g)
      PROVE  NamingInv'
  <2>1. UNCHANGED <<business, nameRaces, clerk>>
    BY <1>2 DEF Decision, Decide, WriteProfile, WriteDocuments, AuditDecision,
                OfficerStops
  <2> QED BY <2>1, NamingUntouched
<1> QED BY <1>1, <1>2 DEF ProfileNext

\* Two profiles share a business name only after a race for that name, whatever
\* else happens (the lookups of createProfile and updateOwnProfile).
THEOREM NameClashIsARace == ProfileSpec => []NameClashNeedsRace
<1>1. Types /\ NamingInv /\ [ProfileNext]_profileVars => NamingInv'
  BY NamingStep, NamingUntouched DEF profileVars
<1>2. NamingInv => NameClashNeedsRace
  BY DEF NamingInv
<1> QED BY <1>1, <1>2, NamingInit, TypesInvariance, PTL DEF ProfileSpec

-----------------------------------------------------------------------------
(* Documents *)

UploadRequest(k) == clerk[k].pc \in {"store", "insert"}

UploadOf(k) == <<clerk[k].owner, clerk[k].what>>

\* The document was looked up, and who uploaded it since had done so as well.
NewOrRaced(k) ==
  UploadRequest(k) =>
    ~Uploaded(clerk[k].owner, clerk[k].what) \/ UploadOf(k) \in uploadRaces

\* Two uploads of one document at once are a race.
UploadsApart(k, j) ==
  k # j /\ UploadRequest(k) /\ UploadRequest(j) /\ UploadOf(k) = UploadOf(j) =>
    UploadOf(k) \in uploadRaces

\* A file that was stored for a request is there and belongs to it alone.
OwnFile(k) ==
  clerk[k].pc = "insert" =>
    \A f \in clerk[k].file : f \in stored /\ document[f].owner = Nobody

FilesApart(k, j) ==
  k # j /\ clerk[k].pc = "insert" /\ clerk[j].pc = "insert" =>
    clerk[k].file \cap clerk[j].file = {}

UploadInv ==
  /\ DocumentHasFile
  /\ DuplicateNeedsRace
  /\ \A k \in Clerks : NewOrRaced(k) /\ OwnFile(k)
  /\ \A k, j \in Clerks : UploadsApart(k, j) /\ FilesApart(k, j)

LEMMA UploadInit == ProfileInit => UploadInv
BY DEF ProfileInit, UploadInv, DocumentHasFile, DuplicateNeedsRace, NewOrRaced,
       OwnFile, UploadsApart, FilesApart, UploadRequest, NoClerk, NoDocument

\* Steps that concern no upload, or end one, and that leave owner and type of
\* every document alone.
LEMMA UploadUntouched ==
  ASSUME Types, UploadInv, UNCHANGED <<stored, uploadRaces>>,
         \A f \in Files : /\ document'[f].owner = document[f].owner
                          /\ document'[f].type = document[f].type,
         \A k \in Clerks : \/ clerk'[k] = clerk[k]
                            \/ clerk'[k].pc \notin {"store", "insert"}
  PROVE  UploadInv'
<1>1. \A k \in Clerks :
        UploadRequest(k)' => UploadRequest(k) /\ clerk'[k] = clerk[k]
  BY DEF UploadRequest
<1>2. \A k \in Clerks : clerk[k] \in Clerk
  BY DEF Types, ProfileTypeOK
<1>3. DocumentHasFile' /\ DuplicateNeedsRace'
  BY DEF UploadInv, DocumentHasFile, DuplicateNeedsRace
<1>4. \A k \in Clerks : NewOrRaced(k)'
  BY <1>1 DEF UploadInv, NewOrRaced, Uploaded, UploadOf
<1>5. \A k \in Clerks : OwnFile(k)'
  BY <1>1, <1>2 DEF UploadInv, OwnFile, UploadRequest, Clerk
<1>6. \A k, j \in Clerks : UploadsApart(k, j)'
  BY <1>1 DEF UploadInv, UploadsApart, UploadOf
<1>7. \A k, j \in Clerks : FilesApart(k, j)'
  BY <1>1 DEF UploadInv, FilesApart, UploadRequest
<1> QED BY <1>3, <1>4, <1>5, <1>6, <1>7 DEF UploadInv

LEMMA UploadCheck ==
  ASSUME Types, UploadInv, NEW k \in Clerks, NEW u \in Owners,
         NEW t \in DocTypes, CheckDocument(k, u, t)
  PROVE  UploadInv'
<1> DEFINE r == [NoClerk EXCEPT !.pc = "store", !.owner = u, !.what = t]
<1>1. r \in Clerk /\ r.pc = "store" /\ r.owner = u /\ r.what = t
  BY DEF NoClerk, Clerk
<1>2. /\ SetClerk(k, r) /\ UNCHANGED <<document, stored>> /\ ~Uploaded(u, t)
      /\ uploadRaces' = IF Uploading(u, t) THEN uploadRaces \cup {<<u, t>>}
                        ELSE uploadRaces
  BY DEF CheckDocument
<1> HIDE DEF r
<1>3. clerk'[k] = r /\ \A j \in Clerks \ {k} : clerk'[j] = clerk[j]
  BY <1>1, <1>2, ClerkRow
<1>4. DocumentHasFile' /\ DuplicateNeedsRace'
  BY <1>2 DEF UploadInv, DocumentHasFile, DuplicateNeedsRace
<1>5. ASSUME NEW j \in Clerks
      PROVE  NewOrRaced(j)' /\ OwnFile(j)'
  <2>1. CASE j = k
    BY <1>1, <1>2, <1>3, <2>1 DEF NewOrRaced, OwnFile, Uploaded
  <2>2. CASE j # k
    BY <1>2, <1>3, <2>2 DEF UploadInv, NewOrRaced, OwnFile, UploadRequest,
                            UploadOf, Uploaded
  <2> QED BY <2>1, <2>2
<1>6. ASSUME NEW i \in Clerks, NEW j \in Clerks
      PROVE  FilesApart(i, j)'
  BY <1>1, <1>3 DEF UploadInv, FilesApart
<1>7. ASSUME NEW i \in Clerks, NEW j \in Clerks, i # j, UploadRequest(i)',
             UploadRequest(j)', UploadOf(i)' = UploadOf(j)'
      PROVE  UploadOf(i)' \in uploadRaces'
  <2>1. CASE i # k /\ j # k
    BY <1>2, <1>3, <1>7, <2>1 DEF UploadInv, UploadsApart, UploadRequest, UploadOf
  <2>2. CASE i = k \/ j = k
    <3>1. UploadOf(k)' = <<u, t>>
      BY <1>1, <1>3 DEF UploadOf
    <3>2. PICK o \in Clerks \ {k} : UploadRequest(o)' /\ UploadOf(o)' = <<u, t>>
      BY <1>7, <2>2, <3>1
    <3>3. Uploading(u, t)
      BY <1>3, <3>2 DEF UploadRequest, UploadOf, Uploading
    <3> QED BY <1>2, <1>7, <2>2, <3>1, <3>3
  <2> QED BY <2>1, <2>2
<1> QED BY <1>4, <1>5, <1>6, <1>7 DEF UploadInv, UploadsApart

LEMMA UploadStore ==
  ASSUME Types, UploadInv, NEW k \in Clerks, NEW f \in Files, StoreFile(k, f)
  PROVE  UploadInv'
<1> DEFINE r == [clerk[k] EXCEPT !.pc = "insert", !.file = {f}]
<1>0. clerk[k] \in Clerk
  BY DEF Types, ProfileTypeOK
<1>1. /\ r \in Clerk /\ r.pc = "insert" /\ r.file = {f}
      /\ r.owner = clerk[k].owner /\ r.what = clerk[k].what
  BY <1>0 DEF Clerk
<1>2. /\ clerk[k].pc = "store" /\ f \notin stored
      /\ SetClerk(k, r) /\ stored' = stored \cup {f}
      /\ UNCHANGED <<document, uploadRaces>>
  BY DEF StoreFile, Written
<1> HIDE DEF r
<1>3. clerk'[k] = r /\ \A j \in Clerks \ {k} : clerk'[j] = clerk[j]
  BY <1>1, <1>2, ClerkRow
<1>4. /\ UploadRequest(k) /\ UploadRequest(k)'
      /\ \A j \in Clerks : UploadRequest(j)' <=> UploadRequest(j)
      /\ \A j \in Clerks : UploadOf(j)' = UploadOf(j)
      /\ \A j \in Clerks : clerk'[j].owner = clerk[j].owner /\ clerk'[j].what = clerk[j].what
  BY <1>1, <1>2, <1>3 DEF UploadRequest, UploadOf
<1>5. document[f].owner = Nobody
  BY <1>2 DEF UploadInv, DocumentHasFile
<1>6. DocumentHasFile' /\ DuplicateNeedsRace'
  BY <1>2 DEF UploadInv, DocumentHasFile, DuplicateNeedsRace
<1>7. \A j \in Clerks : NewOrRaced(j)'
  BY <1>2, <1>4 DEF UploadInv, NewOrRaced, Uploaded
<1>8. \A j \in Clerks : OwnFile(j)'
  BY <1>1, <1>2, <1>3, <1>5 DEF UploadInv, OwnFile
<1>9. \A i, j \in Clerks : UploadsApart(i, j)'
  BY <1>2, <1>4 DEF UploadInv, UploadsApart
<1>10. ASSUME NEW j \in Clerks \ {k}, clerk[j].pc = "insert"
       PROVE  f \notin clerk[j].file
  BY <1>2, <1>10 DEF UploadInv, OwnFile
<1>11. \A i, j \in Clerks : FilesApart(i, j)'
  BY <1>1, <1>3, <1>10 DEF UploadInv, FilesApart
<1> QED BY <1>6, <1>7, <1>8, <1>9, <1>11 DEF UploadInv

LEMMA UploadInsert ==
  ASSUME Types, UploadInv, NEW k \in Clerks, NEW f \in Files, InsertDocument(k, f)
  PROVE  UploadInv'
<1> DEFINE u == clerk[k].owner
           t == clerk[k].what
<1>0. u \in Owners /\ t \in DocTypes /\ u # Nobody /\ UploadRequest(k)
  BY ProfileAssumption DEF InsertDocument, UploadRequest, Types, ClerkBound
<1>1. /\ f \in clerk[k].file /\ clerk[k].pc = "insert"
      /\ SetClerk(k, NoClerk) /\ UNCHANGED <<stored, uploadRaces>>
      /\ document' = [document EXCEPT ![f] =
                        [owner |-> u, type |-> t, status |-> "PENDING"]]
  BY DEF InsertDocument
<1>2. clerk'[k].pc = "idle" /\ \A j \in Clerks \ {k} : clerk'[j] = clerk[j]
  BY <1>1, NoRows, ClerkRow DEF NoClerk
<1>3. /\ document'[f].owner = u /\ document'[f].type = t
      /\ \A h \in Files \ {f} : document'[h] = document[h]
  BY <1>1 DEF Types, ProfileTypeOK
<1>4. f \in stored /\ document[f].owner = Nobody
  BY <1>1 DEF UploadInv, OwnFile
<1>5. DocumentHasFile'
  BY <1>1, <1>3, <1>4 DEF UploadInv, DocumentHasFile
<1>6. ASSUME NEW h \in Files \ {f}, document[h].owner = u, document[h].type = t
      PROVE  <<u, t>> \in uploadRaces
  <2>1. Uploaded(u, t)
    BY <1>6 DEF Uploaded
  <2> QED BY <1>0, <2>1 DEF UploadInv, NewOrRaced, UploadOf
<1>7. DuplicateNeedsRace'
  <2> SUFFICES ASSUME NEW g \in Files, NEW h \in Files, g # h,
                      document'[g].owner # Nobody,
                      document'[g].owner = document'[h].owner,
                      document'[g].type = document'[h].type
               PROVE  <<document'[g].owner, document'[g].type>> \in uploadRaces
    BY <1>1 DEF DuplicateNeedsRace
  <2>1. CASE g # f /\ h # f
    BY <1>3, <2>1 DEF UploadInv, DuplicateNeedsRace
  <2>2. CASE g = f
    BY <1>3, <1>6, <2>2
  <2>3. CASE h = f
    BY <1>3, <1>6, <2>3
  <2> QED BY <2>1, <2>2, <2>3
<1>8. \A j \in Clerks : UploadRequest(j)' =>
        /\ j # k /\ UploadRequest(j) /\ clerk'[j] = clerk[j]
        /\ UploadOf(j)' = UploadOf(j)
  BY <1>2 DEF UploadRequest, UploadOf
<1>9. ASSUME NEW j \in Clerks, UploadRequest(j)'
      PROVE  NewOrRaced(j)'
  <2>1. CASE UploadOf(j) = <<u, t>>
    BY <1>0, <1>1, <1>8, <1>9, <2>1 DEF UploadInv, UploadsApart, NewOrRaced, UploadOf
  <2>2. CASE UploadOf(j) # <<u, t>>
    <3>1. Uploaded(clerk[j].owner, clerk[j].what)' => Uploaded(clerk[j].owner, clerk[j].what)
      BY <1>3, <1>8, <1>9, <2>2 DEF Uploaded, UploadOf
    <3>2. Uploaded(clerk[j].owner, clerk[j].what)' =
            (\E h \in Files : document'[h].owner = clerk'[j].owner /\ document'[h].type = clerk'[j].what)
      BY DEF Uploaded
    <3> QED BY <1>1, <1>8, <1>9, <3>1, <3>2 DEF UploadInv, NewOrRaced, UploadOf, Uploaded
  <2> QED BY <2>1, <2>2
<1>10. ASSUME NEW j \in Clerks, clerk'[j].pc = "insert"
       PROVE  OwnFile(j)'
  <2>1. j # k /\ clerk'[j] = clerk[j]
    BY <1>2, <1>10
  <2>2. f \notin clerk[j].file
    BY <1>1, <1>10, <2>1 DEF UploadInv, FilesApart
  <2>3. clerk[j].file \subseteq Files
    BY DEF Types, ProfileTypeOK, Clerk
  <2> QED BY <1>1, <1>3, <1>10, <2>1, <2>2, <2>3 DEF UploadInv, OwnFile
<1>11. \A i, j \in Clerks : UploadsApart(i, j)'
  BY <1>1, <1>8 DEF UploadInv, UploadsApart
<1>12. \A i, j \in Clerks : FilesApart(i, j)'
  BY <1>2 DEF UploadInv, FilesApart
<1>13. \A j \in Clerks : NewOrRaced(j)' /\ OwnFile(j)'
  BY <1>9, <1>10 DEF NewOrRaced, OwnFile
<1> QED BY <1>5, <1>7, <1>11, <1>12, <1>13 DEF UploadInv

LEMMA UploadStep ==
  ASSUME Types, UploadInv, ProfileNext
  PROVE  UploadInv'
<1>1. ASSUME NEW k \in Clerks, OwnerRequest(k)
      PROVE  UploadInv'
  <2>1. ASSUME NEW r \in Clerk, SetClerk(k, r), r.pc \notin {"store", "insert"},
               UNCHANGED <<document, stored, uploadRaces>>
        PROVE  UploadInv'
    <3>1. clerk'[k] = r /\ \A j \in Clerks \ {k} : clerk'[j] = clerk[j]
      BY <2>1, ClerkRow
    <3> QED BY <2>1, <3>1, UploadUntouched
  <2>2. ASSUME NEW u \in Owners, NEW n \in Names, CheckName(k, u, n)
        PROVE  UploadInv'
    <3> DEFINE r == [NoClerk EXCEPT !.pc = IF HasProfile(u) THEN "update" ELSE "create",
                                    !.owner = u, !.what = n]
    <3>1. r \in Clerk /\ r.pc \in {"create", "update"}
      BY DEF NoClerk, Clerk
    <3>2. SetClerk(k, r) /\ UNCHANGED <<document, stored, uploadRaces>>
      BY <2>2 DEF CheckName
    <3> HIDE DEF r
    <3> QED BY <2>1, <3>1, <3>2
  <2>3. ASSUME NEW u \in Owners, NEW t \in DocTypes, CheckDocument(k, u, t)
        PROVE  UploadInv'
    BY <2>3, UploadCheck
  <2>4. ASSUME NEW f \in Files, StoreFile(k, f) \/ InsertDocument(k, f)
        PROVE  UploadInv'
    BY <2>4, UploadStore, UploadInsert
  <2>5. CASE WriteName(k) \/ ClerkStops(k)
    BY <2>1, <2>5, NoRows DEF WriteName, ClerkStops, NoClerk
  <2> QED BY <1>1, <2>2, <2>3, <2>4, <2>5 DEF OwnerRequest
<1>2. ASSUME NEW g \in Officers, Decision(g)
      PROVE  UploadInv'
  <2>1. UNCHANGED <<stored, uploadRaces, clerk>>
    BY <1>2 DEF Decision, Decide, WriteProfile, WriteDocuments, AuditDecision,
                OfficerStops
  <2>2. ASSUME NEW f \in Files
        PROVE  /\ document'[f].owner = document[f].owner
               /\ document'[f].type = document[f].type
    <3>1. CASE WriteDocuments(g)
      BY <3>1 DEF WriteDocuments, Types, ProfileTypeOK, Document
    <3>2. CASE UNCHANGED document
      BY <3>2
    <3> QED BY <1>2, <3>1, <3>2 DEF Decision, Decide, WriteProfile, AuditDecision,
                                    OfficerStops
  <2> QED BY <2>1, <2>2, UploadUntouched
<1> QED BY <1>1, <1>2 DEF ProfileNext

LEMMA UploadInvariance == ProfileSpec => []UploadInv
<1>1. Types /\ UploadInv /\ [ProfileNext]_profileVars => UploadInv'
  BY UploadStep, UploadUntouched DEF profileVars
<1> QED BY <1>1, UploadInit, TypesInvariance, PTL DEF ProfileSpec

\* A row of provider_documents refers to a file that is stored, wherever uploads
\* stop (uploadDocument stores the file first).
THEOREM EveryDocumentHasItsFile == ProfileSpec => []DocumentHasFile
<1>1. UploadInv => DocumentHasFile
  BY DEF UploadInv
<1> QED BY <1>1, UploadInvariance, PTL

\* A provider has two documents of a type only after two uploads of it at once.
THEOREM DuplicateIsARace == ProfileSpec => []DuplicateNeedsRace
<1>1. UploadInv => DuplicateNeedsRace
  BY DEF UploadInv
<1> QED BY <1>1, UploadInvariance, PTL

-----------------------------------------------------------------------------
(* Decisions *)

\* A decision that is alone is the only one about its profile.
Alone(g) ==
  officer[g].pc # "idle" /\ officer[g].alone =>
    \A o \in Officers \ {g} : officer[o].owner # officer[g].owner

\* The documents of u agree with the decision "to".
Agree(u, to) ==
  \A f \in Files : document[f].owner = u =>
    /\ to = "VERIFIED" => document[f].status # "REJECTED"
    /\ to = "REJECTED" => document[f].status # "VERIFIED"

\* What a lone decision has found and written is still there.
Standing(g) ==
  officer[g].alone =>
    /\ officer[g].pc = "profile" /\ officer[g].to = "SUSPENDED" =>
         status[officer[g].owner] = "VERIFIED"
    /\ officer[g].pc \in {"documents", "audit"} =>
         status[officer[g].owner] = officer[g].to
    /\ officer[g].pc = "audit" => Agree(officer[g].owner, officer[g].to)

\* Nobody is in the middle of a decision about a settled profile.
Untouched(g) ==
  officer[g].pc \in {"documents", "audit"} => ~settled[officer[g].owner]

SettledFor(u) == settled[u] => lastAudit[u] = status[u] /\ Agree(u, status[u])

DecisionInv ==
  /\ \A g \in Officers : Alone(g) /\ Standing(g) /\ Untouched(g)
  /\ \A u \in Owners : SettledFor(u)

LEMMA DecisionInit == ProfileInit => DecisionInv
<1> SUFFICES ASSUME ProfileInit PROVE DecisionInv
  OBVIOUS
<1>1. \A g \in Officers : officer[g].pc = "idle" /\ ~officer[g].alone
  BY DEF ProfileInit, NoOfficer
<1>2. \A u \in Owners : SettledFor(u)
  BY ProfileAssumption DEF ProfileInit, SettledFor, Agree, NoDocument
<1> QED BY <1>1, <1>2 DEF DecisionInv, Alone, Standing, Untouched

\* Requests of owners only add documents that nobody has decided on.
LEMMA DecisionOfOwners ==
  ASSUME Types, DecisionInv, UNCHANGED <<status, officer, lastAudit, settled>>,
         \A f \in Files : document'[f] = document[f] \/ document'[f].status = "PENDING"
  PROVE  DecisionInv'
<1>1. \A u, to : Agree(u, to) => Agree(u, to)'
  BY DEF Agree
<1>2. \A g \in Officers : Alone(g)' /\ Untouched(g)'
  BY DEF DecisionInv, Alone, Untouched
<1>3. \A g \in Officers : Standing(g)'
  BY <1>1 DEF DecisionInv, Standing
<1>4. \A u \in Owners : SettledFor(u)'
  BY <1>1 DEF DecisionInv, SettledFor
<1> QED BY <1>2, <1>3, <1>4 DEF DecisionInv

LEMMA DecisionBegins ==
  ASSUME Types, DecisionInv, NEW g \in Officers, NEW u \in Owners,
         NEW to \in VerificationStatus \ {"PENDING"}, Decide(g, u, to)
  PROVE  DecisionInv'
<1>1. /\ officer'[g].pc = "profile" /\ officer'[g].owner = u /\ officer'[g].to = to
      /\ officer'[g].alone = ~Deciding(u)
  <2>1. officer'[g] = [pc |-> "profile", owner |-> u, to |-> to,
                       alone |-> ~Deciding(u)]
    BY DecideTypes
  <2> QED BY <2>1
<1>2. ASSUME NEW o \in Officers \ {g}
      PROVE  /\ officer'[o].pc = officer[o].pc
             /\ officer'[o].owner = officer[o].owner
             /\ officer'[o].to = officer[o].to
             /\ officer'[o].alone => officer[o].alone /\ officer[o].owner # u
  BY DecideTypes
<1>3. /\ UNCHANGED <<status, document, lastAudit, settled>>
      /\ to = "SUSPENDED" => status[u] = "VERIFIED"
  BY DEF Decide, MaySuspend
<1>4. \A v, s : Agree(v, s)' <=> Agree(v, s)
  BY <1>3 DEF Agree
<1>5. ASSUME NEW o \in Officers
      PROVE  Alone(o)' /\ Standing(o)' /\ Untouched(o)'
  <2>1. CASE o = g
    <3>1. Alone(o)'
      BY <1>1, <1>2, <2>1 DEF Alone, Deciding
    <3>2. Standing(o)' /\ Untouched(o)'
      BY <1>1, <1>3, <2>1 DEF Standing, Untouched
    <3> QED BY <3>1, <3>2
  <2>2. CASE o # g
    <3>1. Alone(o)'
      <4> SUFFICES ASSUME officer'[o].pc # "idle", officer'[o].alone,
                          NEW i \in Officers \ {o}
                   PROVE  officer'[i].owner # officer'[o].owner
        BY DEF Alone
      <4>1. officer[o].pc # "idle" /\ officer[o].alone /\ officer[o].owner # u
        BY <1>2, <2>2
      <4>2. CASE i = g
        BY <1>1, <1>2, <2>2, <4>1, <4>2
      <4>3. CASE i # g
        <5>1. officer'[i].owner = officer[i].owner /\ officer'[o].owner = officer[o].owner
          BY <1>2, <2>2, <4>3
        <5>2. Alone(o)
          BY DEF DecisionInv
        <5> QED BY <4>1, <5>1, <5>2 DEF Alone
      <4> QED BY <4>2, <4>3
    <3>2. Standing(o)'
      <4>1. Standing(o)
        BY DEF DecisionInv
      <4> QED BY <1>2, <1>3, <1>4, <2>2, <4>1 DEF Standing
    <3>3. Untouched(o)'
      BY <1>2, <1>3, <2>2 DEF DecisionInv, Untouched
    <3> QED BY <3>1, <3>2, <3>3
  <2> QED BY <2>1, <2>2
<1>6. \A v \in Owners : SettledFor(v)'
  BY <1>3, <1>4 DEF DecisionInv, SettledFor
<1> QED BY <1>5, <1>6 DEF DecisionInv

\* Another decision about the profile of a lone one does not exist.
LEMMA OtherProfile ==
  ASSUME Types, DecisionInv, NEW g \in Officers, officer[g].pc # "idle",
         NEW o \in Officers \ {g}, officer[o].alone
  PROVE  officer[o].owner # officer[g].owner
<1>1. officer[g].owner \in Owners
  BY DEF Types, OfficerBound
<1>2. officer[o].pc # "idle"
  BY DEF Types, OfficerBound, NoOfficer
<1> QED BY <1>2 DEF DecisionInv, Alone

\* Steps of a decision that go on with it, or end it.
LEMMA AloneKept ==
  ASSUME Types, DecisionInv, NEW g \in Officers, officer[g].pc # "idle",
         NEW r \in Officer, SetOfficer(g, r),
         \/ r = NoOfficer
         \/ r.owner = officer[g].owner /\ r.alone = officer[g].alone
  PROVE  \A o \in Officers : Alone(o)'
<1>1. officer'[g] = r /\ \A o \in Officers \ {g} : officer'[o] = officer[o]
  BY OfficerRow
<1>2. officer[g].owner \in Owners
  BY DEF Types, OfficerBound
<1>3. r.owner \in {Nobody, officer[g].owner}
  BY DEF NoOfficer
<1>4. ASSUME NEW o \in Officers, officer'[o].pc # "idle", officer'[o].alone,
             NEW i \in Officers \ {o}
      PROVE  officer'[i].owner # officer'[o].owner
  <2>1. CASE o = g
    <3>1. r.owner = officer[g].owner /\ r.alone = officer[g].alone
      BY <1>1, <1>4, <2>1 DEF NoOfficer
    <3>2. officer[g].alone /\ officer'[i] = officer[i]
      BY <1>1, <1>4, <2>1, <3>1
    <3> QED BY <1>1, <2>1, <3>1, <3>2 DEF DecisionInv, Alone
  <2>2. CASE o # g
    <3>1. officer'[o] = officer[o] /\ officer[o].owner \in Owners
      BY <1>1, <1>4, <2>2 DEF Types, OfficerBound
    <3>2. \A j \in Officers \ {o} : officer[j].owner # officer[o].owner
      BY <1>4, <3>1 DEF DecisionInv, Alone
    <3>3. CASE i = g
      BY <1>1, <1>3, <2>2, <3>1, <3>2, <3>3, ProfileAssumption
    <3>4. CASE i # g
      BY <1>1, <3>1, <3>2, <3>4
    <3> QED BY <3>3, <3>4
  <2> QED BY <2>1, <2>2
<1> QED BY <1>4 DEF Alone

LEMMA DecisionWrites ==
  ASSUME Types, DecisionInv, NEW g \in Officers, WriteProfile(g)
  PROVE  DecisionInv'
<1> DEFINE r == [officer[g] EXCEPT !.pc = IF officer[g].to = "SUSPENDED"
                                          THEN "audit" ELSE "documents"]
           u == officer[g].owner
<1>0. officer[g] \in Officer /\ officer[g].pc = "profile" /\ u \in Owners
  BY DEF WriteProfile, Types, ProfileTypeOK, OfficerBound
<1>1. /\ r \in Officer /\ r.owner = u /\ r.to = officer[g].to
      /\ r.alone = officer[g].alone
      /\ r.pc = IF officer[g].to = "SUSPENDED" THEN "audit" ELSE "documents"
  BY <1>0 DEF Officer
<1>2. /\ SetOfficer(g, r) /\ UNCHANGED <<document, lastAudit>>
      /\ status' = [status EXCEPT ![u] = officer[g].to]
      /\ settled' = [settled EXCEPT ![u] = FALSE]
  BY DEF WriteProfile
<1> HIDE DEF r
<1>3. officer'[g] = r /\ \A o \in Officers \ {g} : officer'[o] = officer[o]
  BY <1>1, <1>2, OfficerRow
<1>4. /\ status'[u] = officer[g].to /\ ~settled'[u]
      /\ \A v \in Owners \ {u} : status'[v] = status[v] /\ settled'[v] = settled[v]
  BY <1>0, <1>2 DEF Types, ProfileTypeOK
<1>5. \A v, s : Agree(v, s)' <=> Agree(v, s)
  BY <1>2 DEF Agree
<1>6. \A o \in Officers : Alone(o)'
  BY <1>0, <1>1, <1>2, AloneKept
<1>7. ASSUME NEW o \in Officers
      PROVE  Standing(o)' /\ Untouched(o)'
  <2>1. CASE o = g
    <3>1. Untouched(o)'
      BY <1>1, <1>3, <1>4, <2>1 DEF Untouched
    <3>2. officer[g].to = "SUSPENDED" => Agree(u, officer[g].to)
      BY DEF Agree
    <3>3. Standing(o)'
      BY <1>1, <1>3, <1>4, <1>5, <2>1, <3>2 DEF Standing
    <3> QED BY <3>1, <3>3
  <2>2. CASE o # g
    <3>1. officer'[o] = officer[o] /\ Standing(o) /\ Untouched(o)
      BY <1>3, <2>2 DEF DecisionInv
    <3>2. officer[o].alone => officer[o].owner # u
      BY <1>0, <2>2, OtherProfile
    <3>3. officer[o].pc # "idle" => officer[o].owner \in Owners
      BY DEF Types, OfficerBound
    <3>4. Standing(o)'
      BY <1>4, <1>5, <3>1, <3>2, <3>3 DEF Standing
    <3>5. Untouched(o)'
      BY <1>4, <3>1, <3>3 DEF Untouched
    <3> QED BY <3>4, <3>5
  <2> QED BY <2>1, <2>2
<1>8. \A v \in Owners : SettledFor(v)'
  BY <1>2, <1>4, <1>5 DEF DecisionInv, SettledFor
<1> QED BY <1>6, <1>7, <1>8 DEF DecisionInv

LEMMA DecisionMarks ==
  ASSUME Types, DecisionInv, NEW g \in Officers, WriteDocuments(g)
  PROVE  DecisionInv'
<1> DEFINE r == [officer[g] EXCEPT !.pc = "audit"]
           u == officer[g].owner
<1>0. officer[g] \in Officer /\ officer[g].pc = "documents" /\ u \in Owners
  BY DEF WriteDocuments, Types, ProfileTypeOK, OfficerBound
<1>1. /\ r \in Officer /\ r.owner = u /\ r.to = officer[g].to
      /\ r.alone = officer[g].alone /\ r.pc = "audit"
  BY <1>0 DEF Officer
<1>2. /\ SetOfficer(g, r) /\ UNCHANGED <<status, lastAudit, settled>>
      /\ document' = [f \in Files |->
           IF document[f].owner = u
           THEN [document[f] EXCEPT !.status = officer[g].to] ELSE document[f]]
  BY DEF WriteDocuments, Concerns
<1> HIDE DEF r
<1>3. officer'[g] = r /\ \A o \in Officers \ {g} : officer'[o] = officer[o]
  BY <1>1, <1>2, OfficerRow
<1>4. ASSUME NEW f \in Files
      PROVE  /\ document'[f].owner = document[f].owner
             /\ document[f].owner = u => document'[f].status = officer[g].to
             /\ document[f].owner # u => document'[f] = document[f]
  <2>1. document[f] \in Document
    BY DEF Types, ProfileTypeOK
  <2> QED BY <1>2, <2>1 DEF Document
<1>5. \A v, s : v # u /\ Agree(v, s) => Agree(v, s)'
  BY <1>4 DEF Agree
<1>6. \A o \in Officers : Alone(o)'
  BY <1>0, <1>1, <1>2, AloneKept
<1>7. ASSUME NEW o \in Officers
      PROVE  Standing(o)' /\ Untouched(o)'
  <2>1. CASE o = g
    <3>1. Standing(g) /\ Untouched(g)
      BY DEF DecisionInv
    <3>2. Untouched(o)'
      BY <1>0, <1>1, <1>2, <1>3, <2>1, <3>1 DEF Untouched
    <3>3. officer[g].alone => status[u] = officer[g].to
      BY <1>0, <3>1 DEF Standing
    <3>4. Agree(officer[o].owner, officer[o].to)'
      <4>1. \A f \in Files : document'[f].owner = u => document'[f].status = officer[g].to
        BY <1>4
      <4>2. officer'[o].owner = u /\ officer'[o].to = officer[g].to
        BY <1>1, <1>3, <2>1
      <4> QED BY <4>1, <4>2 DEF Agree
    <3>5. Standing(o)'
      BY <1>1, <1>2, <1>3, <2>1, <3>3, <3>4 DEF Standing
    <3> QED BY <3>2, <3>5
  <2>2. CASE o # g
    <3>1. officer'[o] = officer[o] /\ Standing(o) /\ Untouched(o)
      BY <1>3, <2>2 DEF DecisionInv
    <3>2. officer[o].alone => officer[o].owner # u
      BY <1>0, <2>2, OtherProfile
    <3>3. Standing(o)'
      BY <1>2, <1>5, <3>1, <3>2 DEF Standing
    <3>4. Untouched(o)'
      BY <1>2, <3>1 DEF Untouched
    <3> QED BY <3>3, <3>4
  <2> QED BY <2>1, <2>2
<1>8. ASSUME NEW v \in Owners
      PROVE  SettledFor(v)'
  <2>1. CASE v = u
    <3>1. ~settled[u]
      BY <1>0 DEF DecisionInv, Untouched
    <3> QED BY <1>2, <2>1, <3>1 DEF SettledFor
  <2>2. CASE v # u
    BY <1>2, <1>5, <2>2 DEF DecisionInv, SettledFor
  <2> QED BY <2>1, <2>2
<1> QED BY <1>6, <1>7, <1>8 DEF DecisionInv

LEMMA DecisionEnds ==
  ASSUME Types, DecisionInv, NEW g \in Officers,
         AuditDecision(g) \/ OfficerStops(g)
  PROVE  DecisionInv'
<1> DEFINE u == officer[g].owner
<1>0. officer[g].pc # "idle" /\ u \in Owners /\ officer[g] \in Officer
  BY DEF AuditDecision, OfficerStops, Types, ProfileTypeOK, OfficerBound
<1>1. SetOfficer(g, NoOfficer) /\ UNCHANGED <<status, document>>
  BY DEF AuditDecision, OfficerStops
<1>2. officer'[g] = NoOfficer /\ \A o \in Officers \ {g} : officer'[o] = officer[o]
  BY <1>1, NoRows, OfficerRow
<1>3. \A o \in Officers : Alone(o)'
  BY <1>0, <1>1, NoRows, AloneKept
<1>4. \A v, s : Agree(v, s)' <=> Agree(v, s)
  BY <1>1 DEF Agree
<1>5. ASSUME NEW o \in Officers
      PROVE  Standing(o)'
  <2>1. CASE o = g
    BY <1>2, <2>1 DEF Standing, NoOfficer
  <2>2. CASE o # g
    BY <1>1, <1>2, <1>4, <2>2 DEF DecisionInv, Standing
  <2> QED BY <2>1, <2>2
<1>6. CASE OfficerStops(g)
  <2>1. UNCHANGED <<lastAudit, settled>>
    BY <1>6 DEF OfficerStops
  <2>2. \A o \in Officers : Untouched(o)'
    BY <1>2, <2>1 DEF DecisionInv, Untouched, NoOfficer
  <2>3. \A v \in Owners : SettledFor(v)'
    BY <1>1, <1>4, <2>1 DEF DecisionInv, SettledFor
  <2> QED BY <1>3, <1>5, <2>2, <2>3 DEF DecisionInv
<1>7. CASE AuditDecision(g)
  <2>1. /\ officer[g].pc = "audit"
        /\ lastAudit' = [lastAudit EXCEPT ![u] = officer[g].to]
        /\ settled' = [settled EXCEPT ![u] = officer[g].alone]
    BY <1>7 DEF AuditDecision, AuditValue
  <2>2. /\ lastAudit'[u] = officer[g].to /\ settled'[u] = officer[g].alone
        /\ \A v \in Owners \ {u} :
             lastAudit'[v] = lastAudit[v] /\ settled'[v] = settled[v]
    BY <1>0, <2>1 DEF Types, ProfileTypeOK
  <2>3. ASSUME NEW o \in Officers, officer'[o].pc \in {"documents", "audit"}
        PROVE  ~settled'[officer'[o].owner]
    <3>1. o # g /\ officer'[o] = officer[o]
      BY <1>2, <2>3 DEF NoOfficer
    <3>2. officer[o].owner \in Owners
      BY <2>3, <3>1 DEF Types, OfficerBound
    <3>3. ~settled[officer[o].owner]
      BY <2>3, <3>1 DEF DecisionInv, Untouched
    <3>4. officer[o].owner = u => ~officer[g].alone
      BY <1>0, <3>1 DEF DecisionInv, Alone
    <3> QED BY <2>2, <3>1, <3>2, <3>3, <3>4
  <2>4. ASSUME NEW v \in Owners, settled'[v]
        PROVE  SettledFor(v)'
    <3>1. CASE v = u
      <4>1. officer[g].alone
        BY <2>2, <2>4, <3>1
      <4>2. status[u] = officer[g].to /\ Agree(u, officer[g].to)
        BY <2>1, <4>1 DEF DecisionInv, Standing
      <4> QED BY <1>1, <1>4, <2>2, <3>1, <4>2 DEF SettledFor
    <3>2. CASE v # u
      BY <1>1, <1>4, <2>2, <3>2 DEF DecisionInv, SettledFor
    <3> QED BY <3>1, <3>2
  <2>5. \A o \in Officers : Untouched(o)'
    BY <2>3 DEF Untouched
  <2>6. \A v \in Owners : SettledFor(v)'
    BY <2>4 DEF SettledFor
  <2> QED BY <1>3, <1>5, <2>5, <2>6 DEF DecisionInv
<1> QED BY <1>6, <1>7

LEMMA DecisionStep ==
  ASSUME Types, DecisionInv, ProfileNext
  PROVE  DecisionInv'
<1>1. ASSUME NEW k \in Clerks, OwnerRequest(k)
      PROVE  DecisionInv'
  <2>1. UNCHANGED <<status, officer, lastAudit, settled>>
    BY <1>1 DEF OwnerRequest, CheckName, CheckDocument, StoreFile, InsertDocument,
                WriteName, ClerkStops
  <2>2. ASSUME NEW f \in Files
        PROVE  document'[f] = document[f] \/ document'[f].status = "PENDING"
    <3>1. CASE UNCHANGED document
      BY <3>1
    <3>2. ASSUME NEW h \in Files, InsertDocument(k, h)
          PROVE  document'[f] = document[f] \/ document'[f].status = "PENDING"
      BY <3>2 DEF InsertDocument, Types, ProfileTypeOK
    <3> QED
      BY <1>1, <3>1, <3>2
      DEF OwnerRequest, CheckName, CheckDocument, StoreFile, WriteName, ClerkStops
  <2> QED BY <2>1, <2>2, DecisionOfOwners
<1>2. ASSUME NEW g \in Officers, Decision(g)
      PROVE  DecisionInv'
  BY <1>2, DecisionBegins, DecisionWrites, DecisionMarks, DecisionEnds DEF Decision
<1> QED BY <1>1, <1>2 DEF ProfileNext

LEMMA DecisionInvariance == ProfileSpec => []DecisionInv
<1>1. Types /\ DecisionInv /\ [ProfileNext]_profileVars => DecisionInv'
  BY DecisionStep, DecisionOfOwners DEF profileVars
<1> QED BY <1>1, DecisionInit, TypesInvariance, PTL DEF ProfileSpec

\* After a decision that ran to its end alone, profile, documents and audit log
\* agree (updateVerificationStatus and the audit entry after it).
THEOREM DecisionIsSettled == ProfileSpec => []SettledDecision
<1>1. DecisionInv => SettledDecision
  BY DEF DecisionInv, SettledFor, Agree, SettledDecision
<1> QED BY <1>1, DecisionInvariance, PTL

\* A profile that is not VERIFIED is suspended only by a decision that met
\* another one about the same profile (the check of suspendProvider).
THEOREM SuspensionFollowsVerification == ProfileSpec => SuspendedWasVerified
<1> DEFINE Legal ==
      \A u \in Owners :
        status'[u] = "SUSPENDED" /\ status[u] \notin {"SUSPENDED", "VERIFIED"} =>
          \E g \in Officers : /\ officer[g].owner = u /\ officer[g].pc = "profile"
                               /\ ~officer[g].alone
<1>1. Types /\ DecisionInv /\ [ProfileNext]_profileVars => [Legal]_profileVars
  <2> SUFFICES ASSUME Types, DecisionInv, ProfileNext, NEW u \in Owners,
                      status'[u] = "SUSPENDED",
                      status[u] \notin {"SUSPENDED", "VERIFIED"}
               PROVE  \E g \in Officers :
                        /\ officer[g].owner = u /\ officer[g].pc = "profile"
                        /\ ~officer[g].alone
    OBVIOUS
  <2>1. PICK g \in Officers : WriteProfile(g)
    BY DEF ProfileNext, OwnerRequest, Decision, CheckName, CheckDocument,
           StoreFile, InsertDocument, WriteName, ClerkStops, Decide,
           WriteDocuments, AuditDecision, OfficerStops
  <2>2. officer[g].pc = "profile" /\ officer[g].owner = u /\ officer[g].to = "SUSPENDED"
    BY <2>1 DEF WriteProfile, Types, ProfileTypeOK
  <2>3. ~officer[g].alone
    BY <2>2 DEF DecisionInv, Standing
  <2> QED BY <2>2, <2>3
<1> QED
  BY <1>1, TypesInvariance, DecisionInvariance, PTL DEF ProfileSpec, SuspendedWasVerified

=============================================================================
