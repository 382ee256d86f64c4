------------------------------- MODULE Profiles -------------------------------
(***************************************************************************)
(* Becoming a provider: the profiles and their business names, the         *)
(* documents that are uploaded, and the decisions of the administrators    *)
(* (ProviderService, DocumentRepository, AdminProviderService).            *)
(*                                                                         *)
(* Every call of PostgreSQL or of the storage is a step of its own; no     *)
(* request uses a transaction.  The only unique index is the one on the    *)
(* user of a profile: the business name, and the type of a document, are   *)
(* looked up before they are written.  Names are compared without regard   *)
(* to case, so a member of Names is a class of spellings.                  *)
(***************************************************************************)
EXTENDS Naturals, FiniteSets

CONSTANTS
  Owners,      \* users who register as providers
  Names,       \* business names
  DocTypes,    \* DocumentType
  Files,       \* bound: files the storage is asked to keep
  Clerks,      \* requests of owners in flight at once
  Officers,    \* decisions of administrators in flight at once
  Nobody,      \* no owner
  NoName       \* no profile

ASSUME ProfileAssumption ==
  Nobody \notin Owners /\ NoName \notin Names \cup DocTypes

VARIABLES
  business,    \* table provider_profiles: businessName by owner
  status,      \* verificationStatus of the profile
  document,    \* table provider_documents: the row that refers to a file
  stored,      \* files the storage keeps
  clerk,       \* the requests of owners
  officer,     \* the decisions in flight
  lastAudit,   \* newValue of the last audit entry about a profile
  nameRaces,   \* history: names that two requests had checked at once
  uploadRaces, \* history: owner and type that two uploads had checked at once
  settled      \* history: the last decision ran to its end and met no other

profileVars == <<business, status, document, stored, clerk, officer, lastAudit,
                 nameRaces, uploadRaces, settled>>

-----------------------------------------------------------------------------
(* Types and initial state *)

VerificationStatus == {"PENDING", "VERIFIED", "REJECTED", "SUSPENDED"}

Document == [owner : Owners \cup {Nobody}, type : DocTypes \cup {NoName},
             status : VerificationStatus]

NoDocument == [owner |-> Nobody, type |-> NoName, status |-> "PENDING"]

\* what: the name, or the type of the document, that was looked up.
Clerk == [pc : {"idle", "create", "update", "store", "insert"},
          owner : Owners \cup {Nobody}, what : Names \cup DocTypes \cup {NoName},
          file : SUBSET Files]

NoClerk == [pc |-> "idle", owner |-> Nobody, what |-> NoName, file |-> {}]

\* alone: no other decision about the profile was in flight.
Officer == [pc : {"idle", "profile", "documents", "audit"},
            owner : Owners \cup {Nobody}, to : VerificationStatus,
            alone : BOOLEAN]

NoOfficer == [pc |-> "idle", owner |-> Nobody, to |-> "PENDING", alone |-> FALSE]

ProfileInit ==
  /\ business = [u \in Owners |-> NoName]
  /\ status = [u \in Owners |-> "PENDING"]
  /\ document = [f \in Files |-> NoDocument]
  /\ stored = {}
  /\ clerk = [k \in Clerks |-> NoClerk]
  /\ officer = [g \in Officers |-> NoOfficer]
  /\ lastAudit = [u \in Owners |-> "PENDING"]
  /\ nameRaces = {} /\ uploadRaces = {}
  /\ settled = [u \in Owners |-> TRUE]

-----------------------------------------------------------------------------
(* createProfile and updateOwnProfile *)

HasProfile(u) == business[u] # NoName

\* findByBusinessName finds a profile other than the owner's.
\* (Mutant: only a new profile is checked.)
NameTakenAtCreation(u, n) ==
  ~HasProfile(u) /\ \E v \in Owners \ {u} : business[v] = n

NameTaken(u, n) == \E v \in Owners \ {u} : business[v] = n

SetClerk(k, r) == clerk' = [clerk EXCEPT ![k] = r]

Naming(n) == \E k \in Clerks : clerk[k].pc \in {"create", "update"} /\ clerk[k].what = n

\* The two lookups of createProfile, or those of updateOwnProfile: a row never
\* changes its owner.
CheckName(k, u, n) ==
  /\ clerk[k].pc = "idle"
  /\ ~NameTaken(u, n)
  /\ SetClerk(k, [NoClerk EXCEPT !.pc = IF HasProfile(u) THEN "update" ELSE "create",
                                 !.owner = u, !.what = n])
  /\ nameRaces' = IF Naming(n) THEN nameRaces \cup {n} ELSE nameRaces
  /\ UNCHANGED <<business, status, document, stored, officer, lastAudit,
                 uploadRaces, settled>>

\* userId is unique: the second insert for a user fails.
OwnerViolation(u) == HasProfile(u)

\* create, with the default status, or the update of the row.
WriteName(k) ==
  LET u == clerk[k].owner IN
  /\ clerk[k].pc \in {"create", "update"}
  /\ business' = IF clerk[k].pc = "create" /\ OwnerViolation(u)
                 THEN business
                 ELSE [business EXCEPT ![u] = clerk[k].what]
  /\ SetClerk(k, NoClerk)
  /\ UNCHANGED <<status, document, stored, officer, lastAudit, nameRaces,
                 uploadRaces, settled>>

-----------------------------------------------------------------------------
(* uploadDocument *)

\* (Mutant: a document that was rejected may be uploaded again.)
UploadedAndAccepted(u, t) ==
  \E f \in Files : /\ document[f].owner = u /\ document[f].type = t
                    /\ document[f].status # "REJECTED"

\* findDocumentByType
Uploaded(u, t) ==
  \E f \in Files : document[f].owner = u /\ document[f].type = t

Uploading(u, t) ==
  \E k \in Clerks : /\ clerk[k].pc \in {"store", "insert"}
                    /\ clerk[k].owner = u /\ clerk[k].what = t

CheckDocument(k, u, t) ==
  /\ clerk[k].pc = "idle"
  /\ HasProfile(u)
  /\ ~Uploaded(u, t)
  /\ SetClerk(k, [NoClerk EXCEPT !.pc = "store", !.owner = u, !.what = t])
  /\ uploadRaces' = IF Uploading(u, t) THEN uploadRaces \cup {<<u, t>>}
                    ELSE uploadRaces
  /\ UNCHANGED <<business, status, document, stored, officer, lastAudit,
                 nameRaces, settled>>

\* uploadFile chooses a new name and returns once the file is written.
Written(f) == stored \cup {f}

StoreFile(k, f) ==
  /\ clerk[k].pc = "store"
  /\ f \notin stored
  /\ stored' = Written(f)
  /\ SetClerk(k, [clerk[k] EXCEPT !.pc = "insert", !.file = {f}])
  /\ UNCHANGED <<business, status, document, officer, lastAudit, nameRaces,
                 uploadRaces, settled>>

InsertDocument(k, f) ==
  /\ clerk[k].pc = "insert"
  /\ f \in clerk[k].file
  /\ document' = [document EXCEPT ![f] =
       [owner |-> clerk[k].owner, type |-> clerk[k].what, status |-> "PENDING"]]
  /\ SetClerk(k, NoClerk)
  /\ UNCHANGED <<business, status, stored, officer, lastAudit, nameRaces,
                 uploadRaces, settled>>

\* A call fails or the process stops.  What is stored stays: nothing calls
\* deleteFile.
ClerkStops(k) ==
  /\ clerk[k].pc # "idle"
  /\ SetClerk(k, NoClerk)
  /\ UNCHANGED <<business, status, document, stored, officer, lastAudit,
                 nameRaces, uploadRaces, settled>>

-----------------------------------------------------------------------------
(* verifyProvider, rejectProvider and suspendProvider *)

Deciding(u) == \E g \in Officers : officer[g].owner = u

\* (Mutant: any profile can be suspended.)
AnyMaySuspend(u) == TRUE

MaySuspend(u) == status[u] = "VERIFIED"

\* findOne; only suspendProvider looks at the status.
Decide(g, u, to) ==
  /\ officer[g].pc = "idle"
  /\ HasProfile(u)
  /\ to = "SUSPENDED" => MaySuspend(u)
  /\ officer' = [o \in Officers |->
       IF o = g
       THEN [pc |-> "profile", owner |-> u, to |-> to, alone |-> ~Deciding(u)]
       ELSE [officer[o] EXCEPT !.alone = @ /\ officer[o].owner # u]]
  /\ UNCHANGED <<business, status, document, stored, clerk, lastAudit,
                 nameRaces, uploadRaces, settled>>

SetOfficer(g, r) == officer' = [officer EXCEPT ![g] = r]

\* updateVerificationStatus, first the profile.
WriteProfile(g) ==
  /\ officer[g].pc = "profile"
  /\ status' = [status EXCEPT ![officer[g].owner] = officer[g].to]
  /\ settled' = [settled EXCEPT ![officer[g].owner] = FALSE]
  /\ SetOfficer(g, [officer[g] EXCEPT !.pc = IF officer[g].to = "SUSPENDED"
                                             THEN "audit" ELSE "documents"])
  /\ UNCHANGED <<business, document, stored, clerk, lastAudit, nameRaces,
                 uploadRaces>>

\* (Mutant: documents that were decided before keep their status.)
ConcernsPending(f, u) ==
  document[f].owner = u /\ document[f].status = "PENDING"

Concerns(f, u) == document[f].owner = u

\* updateMany over the documents, for a verification and for a rejection,
\* which always has a reason.
WriteDocuments(g) ==
  /\ officer[g].pc = "documents"
  /\ document' = [f \in Files |->
       IF Concerns(f, officer[g].owner)
       THEN [document[f] EXCEPT !.status = officer[g].to] ELSE document[f]]
  /\ SetOfficer(g, [officer[g] EXCEPT !.pc = "audit"])
  /\ UNCHANGED <<business, status, stored, clerk, lastAudit, nameRaces,
                 uploadRaces, settled>>

AuditValue(g) == officer[g].to

\* The entry of the audit log.  The caches are invalidated next, see Listing.
AuditDecision(g) ==
  /\ officer[g].pc = "audit"
  /\ lastAudit' = [lastAudit EXCEPT ![officer[g].owner] = AuditValue(g)]
  /\ settled' = [settled EXCEPT ![officer[g].owner] = officer[g].alone]
  /\ SetOfficer(g, NoOfficer)
  /\ UNCHANGED <<business, status, document, stored, clerk, nameRaces,
                 uploadRaces>>

OfficerStops(g) ==
  /\ officer[g].pc # "idle"
  /\ SetOfficer(g, NoOfficer)
  /\ UNCHANGED <<business, status, document, stored, clerk, lastAudit,
                 nameRaces, uploadRaces, settled>>

-----------------------------------------------------------------------------

OwnerRequest(k) ==
  \/ \E u \in Owners, n \in Names : CheckName(k, u, n)
  \/ \E u \in Owners, t \in DocTypes : CheckDocument(k, u, t)
  \/ \E f \in Files : StoreFile(k, f) \/ InsertDocument(k, f)
  \/ WriteName(k) \/ ClerkStops(k)

Decision(g) ==
  \/ \E u \in Owners, to \in VerificationStatus \ {"PENDING"} : Decide(g, u, to)
  \/ WriteProfile(g) \/ WriteDocuments(g) \/ AuditDecision(g) \/ OfficerStops(g)

ProfileNext ==
  \/ \E k \in Clerks : OwnerRequest(k)
  \/ \E g \in Officers : Decision(g)

ProfileSpec == ProfileInit /\ [][ProfileNext]_profileVars

-----------------------------------------------------------------------------
(* Correctness *)

\* Types of the tables and the requests.
ProfileTypeOK ==
  /\ business \in [Owners -> Names \cup {NoName}]
  /\ status \in [Owners -> VerificationStatus]
  /\ document \in [Files -> Document]
  /\ stored \subseteq Files
  /\ clerk \in [Clerks -> Clerk]
  /\ officer \in [Officers -> Officer]
  /\ lastAudit \in [Owners -> VerificationStatus]
  /\ nameRaces \subseteq Names
  /\ uploadRaces \subseteq Owners \X DocTypes
  /\ settled \in [Owners -> BOOLEAN]

\* Two providers bear one business name only if two requests for that name ran
\* at the same time: in any other order the lookup of createProfile or
\* updateOwnProfile refuses the second one.
NameClashNeedsRace ==
  \A u, v \in Owners :
    u # v /\ HasProfile(u) /\ business[u] = business[v] =>
      business[u] \in nameRaces

\* A provider has two documents of one type only if two uploads of it ran at
\* the same time (the lookup of uploadDocument).
DuplicateNeedsRace ==
  \A f, h \in Files :
    /\ f # h /\ document[f].owner # Nobody
    /\ document[f].owner = document[h].owner
    /\ document[f].type = document[h].type
    => <<document[f].owner, document[f].type>> \in uploadRaces

\* A row never refers to a file that is not there, wherever the upload stops
\* (the file is stored before the row is created).
DocumentHasFile ==
  \A f \in Files : document[f].owner # Nobody => f \in stored

\* After a decision that ran to its end and met no other, the documents that
\* were decided, and the audit log, say what the profile says.  A decision that
\* stops half-way, or two at once, can leave a VERIFIED provider with REJECTED
\* documents (updateVerificationStatus is two statements).
SettledDecision ==
  \A u \in Owners : settled[u] =>
    /\ lastAudit[u] = status[u]
    /\ \A f \in Files : document[f].owner = u =>
         /\ status[u] = "VERIFIED" => document[f].status # "REJECTED"
         /\ status[u] = "REJECTED" => document[f].status # "VERIFIED"

\* A provider is suspended from VERIFIED, or two decisions about it overlapped
\* (the check of suspendProvider is made on the row that was read).
SuspendedWasVerified ==
  [][\A u \in Owners :
       status'[u] = "SUSPENDED" /\ status[u] \notin {"SUSPENDED", "VERIFIED"} =>
         \E g \in Officers : /\ officer[g].owner = u /\ officer[g].pc = "profile"
                              /\ ~officer[g].alone]_profileVars

=============================================================================
