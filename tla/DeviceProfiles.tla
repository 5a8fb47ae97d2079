--------------------------- MODULE DeviceProfiles ---------------------------
(***************************************************************************)
(* The device-profile API at the grain at which it interleaves: SQL        *)
(* statements.  Each request is a small process (handler, service and      *)
(* repository run one after the other on one goroutine) that shares only   *)
(* the database with the others, of this replica or of another.  pc[r]     *)
(* names the statement request r is about to send; the action of that name *)
(* is the statement, atomic under Postgres autocommit, with all the Go     *)
(* code up to the next statement or the reply.  The service opens no       *)
(* transaction: between the SELECT and the UPDATE of a PATCH, and between  *)
(* the template lookup and the INSERT of a create, anything may happen.    *)
(*                                                                         *)
(* A statement may fail (Faults): without effect, or, for a write, with    *)
(* its effect when only the acknowledgement is lost.  A cancelled client,  *)
(* a dropped connection and a killed replica are the same to the database  *)
(* as a fault of every request they concern.                               *)
(***************************************************************************)
EXTENDS ProfileData

CONSTANTS
    Request,      \* requests; the profile that create request r inserts has id r
    User,         \* authenticated user ids
    Slug,         \* template slugs
    MalformedId,  \* path ids that are not UUIDs
    Payload,      \* request bodies
    Catalogs,     \* template catalogs of the deployed versions: slug to body, or Nil
    Faults        \* whether statements may fail

Row  == [user : User, fields : Fields, slug : Slug \cup {Nil}]
Call == [op : {"create", "get", "list", "patch", "delete"}, user : User,
         id : Request \cup MalformedId \cup {Nil}, in : Payload \cup {Nil},
         slug : Slug \cup {Nil}]

ASSUME ApiAssumption ==
    /\ Payload \subseteq Partial
    /\ Catalogs \subseteq [Slug -> Body \cup {Nil}]
    /\ Faults \in BOOLEAN
    /\ Request \cap MalformedId = {}
    /\ Nil \notin Request \cup MalformedId \cup Slug \cup Partial \cup Body
    /\ Nil \notin Row \cup Call \cup [user : User, fields : Fields]

VARIABLES
    pc,         \* pc[r]: the statement r sends next, "idle" or "done"
    call,       \* call[r]: the operation, the caller and the arguments
    draft,      \* draft[r]: the profile the service holds between two statements
    status,     \* status[r]: success, or the error code of the response body
    shown,      \* shown[r][i]: the fields of profile i in the response, or Nil
    profiles,   \* table device_profiles: profiles[i] is a row or Nil
    templates,  \* table templates: templates[s] is a body or Nil
    window      \* history: versions of profile call[r].id since r arrived

vars == <<pc, call, draft, status, shown, profiles, templates, window>>

Statements == {"create", "insert", "select", "update", "list", "delete"}
Status == {"none", "created", "ok", "no_content", "invalid_input", "duplicate_name",
           "not_found", "template_error", "internal_error"}

(***************************************************************************)
(* The tables.  AnyonesRow, NoUniqueKey, NoForeignKey and further down     *)
(* SubmitUnchecked, InsertAnyway and Upsert are what a bug would make of   *)
(* the definition that follows them: the properties below tell them apart. *)
(***************************************************************************)
(* WHERE id = $1 AND user_id = $2 *)
AnyonesRow(u, i) == i \in Request /\ profiles[i] # Nil
OwnedRow(u, i) == i \in Request /\ profiles[i] # Nil /\ profiles[i].user = u

(* UNIQUE (user_id, name), for a row about to be written under id i. *)
NoUniqueKey(u, name, i) == FALSE
NameTaken(u, name, i) ==
    \E j \in Request \ {i} :
        profiles[j] # Nil /\ profiles[j].user = u /\ profiles[j].fields["name"] = name

(* template_slug REFERENCES templates(slug) *)
NoForeignKey(s) == FALSE
SlugMissing(s) == s # Nil /\ templates[s] = Nil

(***************************************************************************)
(* History: every step records the versions of the profiles that pending   *)
(* requests name.  No action reads window.                                 *)
(***************************************************************************)
VersionsOf(i) == IF i \in Request /\ profiles[i] # Nil THEN {profiles[i].fields} ELSE {}

RecordVersions ==
    window' = [r \in Request |-> IF pc'[r] \in Statements
                                 THEN window[r] \cup VersionsOf(call[r].id)' ELSE {}]

(***************************************************************************)
(* Replies.                                                                *)
(***************************************************************************)
Blank == [i \in Request |-> Nil]
Showing(i, fields) == [Blank EXCEPT ![i] = fields]

(* DomainErrorCtx: the first match wins, whatever else the error wraps.    *)
(* "ErrNotFound" stands for the sentinels of both domains.  The two before *)
(* it are faulty: one that looks for the wrapping error first, one that    *)
(* forgets the misses.                                                     *)
LookupsAlike(errs) ==
    IF "ErrInvalidInput" \in errs THEN "invalid_input"
    ELSE IF "ErrDuplicateName" \in errs THEN "duplicate_name"
    ELSE IF "ErrTemplate" \in errs THEN "template_error"
    ELSE IF "ErrNotFound" \in errs THEN "not_found"
    ELSE "internal_error"
MissesFail(errs) ==
    IF "ErrInvalidInput" \in errs THEN "invalid_input"
    ELSE IF "ErrDuplicateName" \in errs THEN "duplicate_name"
    ELSE IF "ErrTemplate" \in errs THEN "template_error"
    ELSE "internal_error"
DomainError(errs) ==
    IF "ErrInvalidInput" \in errs THEN "invalid_input"
    ELSE IF "ErrDuplicateName" \in errs THEN "duplicate_name"
    ELSE IF "ErrNotFound" \in errs THEN "not_found"
    ELSE IF "ErrTemplate" \in errs THEN "template_error"
    ELSE "internal_error"

Reply(r, st, view) ==
    /\ pc' = [pc EXCEPT ![r] = "done"]
    /\ draft' = [draft EXCEPT ![r] = Nil]
    /\ status' = [status EXCEPT ![r] = st]
    /\ shown' = [shown EXCEPT ![r] = view]
    /\ UNCHANGED <<call, templates>>
    /\ RecordVersions

Refuse(r, errs) == UNCHANGED profiles /\ Reply(r, DomainError(errs), Blank)

(* Exec returned: an error the driver reports after the commit reads as a failure. *)
ReplyToWrite(r, st, view) ==
    \/ Reply(r, st, view)
    \/ Faults /\ Reply(r, DomainError({}), Blank)

(* The service holds a profile and is about to send stmt. *)
Send(r, stmt, fields) ==
    /\ pc' = [pc EXCEPT ![r] = stmt]
    /\ draft' = [draft EXCEPT ![r] = fields]
    /\ UNCHANGED <<call, status, shown, profiles, templates>>
    /\ RecordVersions

(* Validate the profile the service built, then send the next statement. *)
SubmitUnchecked(r, stmt, fields) == Send(r, stmt, fields)
Submit(r, stmt, fields) ==
    \/ Validate(fields) /\ Send(r, stmt, fields)
    \/ ~Validate(fields) /\ Refuse(r, {"ErrInvalidInput"})

(***************************************************************************)
(* Handlers: a decoded request of an authenticated user.                   *)
(***************************************************************************)
Arrive(r, stmt, c) ==
    /\ pc[r] = "idle"
    /\ pc' = [pc EXCEPT ![r] = stmt]
    /\ call' = [call EXCEPT ![r] = c]
    /\ UNCHANGED <<draft, status, shown, profiles, templates>>
    /\ RecordVersions

CreateDeviceProfile(r) ==
    \E u \in User, in \in Payload, s \in Slug \cup {Nil} :
        Arrive(r, "create", [op |-> "create", user |-> u, id |-> r, in |-> in, slug |-> s])

GetDeviceProfile(r) ==
    \E u \in User, i \in Request \cup MalformedId :
        Arrive(r, "select", [op |-> "get", user |-> u, id |-> i, in |-> Nil, slug |-> Nil])

ListDeviceProfiles(r) ==
    \E u \in User :
        Arrive(r, "list", [op |-> "list", user |-> u, id |-> Nil, in |-> Nil, slug |-> Nil])

PatchDeviceProfile(r) ==
    \E u \in User, i \in Request \cup MalformedId, in \in Payload :
        Arrive(r, "select", [op |-> "patch", user |-> u, id |-> i, in |-> in, slug |-> Nil])

DeleteDeviceProfile(r) ==
    \E u \in User, i \in Request \cup MalformedId :
        Arrive(r, "delete", [op |-> "delete", user |-> u, id |-> i, in |-> Nil, slug |-> Nil])

(***************************************************************************)
(* The service and the repository.                                         *)
(***************************************************************************)
(* Create, up to the INSERT: look up the template, fill, validate. *)
Create(r) ==
    /\ pc[r] = "create"
    /\ LET in == call[r].in
           s  == call[r].slug
       IN \/ s = Nil /\ Submit(r, "insert", FromInput(in))
          \/ s # Nil /\ templates[s] # Nil
             /\ Submit(r, "insert", FromInput(applyTemplate(in, templates[s])))
          \/ s # Nil /\ templates[s] = Nil /\ Refuse(r, {"ErrTemplate", "ErrNotFound"})

InsertAnyway(r) ==
    /\ pc[r] = "insert"
    /\ profiles' = [profiles EXCEPT ![r] = [user |-> call[r].user, fields |-> draft[r],
                                             slug |-> call[r].slug]]
    /\ Reply(r, "created", Showing(r, draft[r]))

Insert(r) ==
    /\ pc[r] = "insert"
    /\ LET u == call[r].user
           s == call[r].slug
       IN \/ NameTaken(u, draft[r]["name"], r) /\ Refuse(r, {"ErrDuplicateName"})
          \/ ~NameTaken(u, draft[r]["name"], r) /\ SlugMissing(s) /\ Refuse(r, {})
          \/ /\ ~NameTaken(u, draft[r]["name"], r) /\ ~SlugMissing(s)
             /\ profiles' = [profiles EXCEPT
                               ![r] = [user |-> u, fields |-> draft[r], slug |-> s]]
             /\ ReplyToWrite(r, "created", Showing(r, draft[r]))

(* The SELECT of a GET, and of a PATCH up to its UPDATE.  An id that is    *)
(* not a UUID makes the statement fail.                                    *)
GetByID(r) ==
    /\ pc[r] = "select"
    /\ LET u == call[r].user
           i == call[r].id
       IN \/ i \in MalformedId /\ Refuse(r, {})
          \/ i \notin MalformedId /\ ~OwnedRow(u, i) /\ Refuse(r, {"ErrNotFound"})
          \/ /\ OwnedRow(u, i) /\ call[r].op = "get"
             /\ UNCHANGED profiles
             /\ Reply(r, "ok", Showing(i, profiles[i].fields))
          \/ /\ OwnedRow(u, i) /\ call[r].op = "patch"
             /\ Submit(r, "update", applyPatch(profiles[i].fields, call[r].in))

(* The UPDATE of a PATCH writes every column of the draft but the slug. *)
Upsert(r) ==
    /\ pc[r] = "update"
    /\ LET c == call[r] IN
         /\ profiles' = [profiles EXCEPT
                           ![c.id] = [user |-> c.user, fields |-> draft[r], slug |-> Nil]]
         /\ Reply(r, "ok", Showing(c.id, draft[r]))

Update(r) ==
    /\ pc[r] = "update"
    /\ LET u == call[r].user
           i == call[r].id
       IN \/ ~OwnedRow(u, i) /\ Refuse(r, {"ErrNotFound"})
          \/ OwnedRow(u, i) /\ NameTaken(u, draft[r]["name"], i)
             /\ Refuse(r, {"ErrDuplicateName"})
          \/ /\ OwnedRow(u, i) /\ ~NameTaken(u, draft[r]["name"], i)
             /\ profiles' = [profiles EXCEPT ![i].fields = draft[r]]
             /\ ReplyToWrite(r, "ok", Showing(i, draft[r]))

(* LIMIT and OFFSET cut any page out of the caller's rows; Paging has the order. *)
ListByUser(r) ==
    /\ pc[r] = "list"
    /\ UNCHANGED profiles
    /\ \E page \in SUBSET {i \in Request : OwnedRow(call[r].user, i)} :
         Reply(r, "ok", [i \in Request |-> IF i \in page THEN profiles[i].fields ELSE Nil])

Delete(r) ==
    /\ pc[r] = "delete"
    /\ LET i == call[r].id
       IN \/ i \in MalformedId /\ Refuse(r, {})
          \/ i \notin MalformedId /\ ~OwnedRow(call[r].user, i) /\ Refuse(r, {"ErrNotFound"})
          \/ /\ OwnedRow(call[r].user, i)
             /\ profiles' = [profiles EXCEPT ![i] = Nil]
             /\ ReplyToWrite(r, "no_content", Blank)

(* A statement fails without effect.  A create that names no template has  *)
(* sent none before its INSERT.                                            *)
Fault(r) ==
    /\ Faults
    /\ \/ pc[r] = "create" /\ call[r].slug # Nil /\ Refuse(r, {"ErrTemplate"})
       \/ pc[r] \in Statements \ {"create"} /\ Refuse(r, {})

(***************************************************************************)
(* Templates: seeded in one transaction by a booting replica or cmd/seed,  *)
(* and removed by an operator, for which the schema provides.              *)
(***************************************************************************)
Seeded(catalog, mode) ==
    [s \in Slug |-> IF catalog[s] = Nil \/ (mode # "update" /\ templates[s] # Nil)
                    THEN templates[s] ELSE catalog[s]]

SeedTemplates ==
    /\ \E catalog \in Catalogs, mode \in {"skip", "update", "fail"} :
         /\ mode = "fail" => \A s \in Slug : catalog[s] = Nil \/ templates[s] = Nil
         /\ templates' = Seeded(catalog, mode)
    /\ UNCHANGED <<pc, call, draft, status, shown, profiles>>
    /\ RecordVersions

RemoveTemplate(s) ==
    /\ templates[s] # Nil
    /\ templates' = [templates EXCEPT ![s] = Nil]
    /\ profiles' = [i \in Request |-> IF profiles[i] # Nil /\ profiles[i].slug = s
                                      THEN [profiles[i] EXCEPT !.slug = Nil]
                                      ELSE profiles[i]]
    /\ UNCHANGED <<pc, call, draft, status, shown>>
    /\ RecordVersions

(***************************************************************************)
(* The specification.                                                      *)
(***************************************************************************)
Init ==
    /\ pc = [r \in Request |-> "idle"]
    /\ call = [r \in Request |-> Nil]
    /\ draft = [r \in Request |-> Nil]
    /\ status = [r \in Request |-> "none"]
    /\ shown = [r \in Request |-> Blank]
    /\ profiles = [i \in Request |-> Nil]
    /\ templates = [s \in Slug |-> Nil]
    /\ window = [r \in Request |-> {}]

Handle(r) == \/ CreateDeviceProfile(r) \/ GetDeviceProfile(r) \/ ListDeviceProfiles(r)
             \/ PatchDeviceProfile(r) \/ DeleteDeviceProfile(r)
Serve(r) == Create(r) \/ Insert(r) \/ GetByID(r) \/ Update(r) \/ ListByUser(r) \/ Delete(r)

Next ==
    \/ \E r \in Request : Handle(r) \/ Serve(r) \/ Fault(r)
    \/ SeedTemplates
    \/ \E s \in Slug : RemoveTemplate(s)

Spec == Init /\ [][Next]_vars

(***************************************************************************)
(* Invariants.                                                             *)
(***************************************************************************)
(* Every variable keeps its type; in particular a draft exists exactly     *)
(* while the INSERT or the UPDATE that will write it is pending.           *)
TypeOK ==
    /\ pc \in [Request -> Statements \cup {"idle", "done"}]
    /\ call \in [Request -> Call \cup {Nil}]
    /\ \A r \in Request : pc[r] = "idle" <=> call[r] = Nil
    /\ draft \in [Request -> Fields \cup {Nil}]
    /\ \A r \in Request : pc[r] \in {"insert", "update"} <=> draft[r] # Nil
    /\ status \in [Request -> Status]
    /\ shown \in [Request -> [Request -> Fields \cup {Nil}]]
    /\ profiles \in [Request -> Row \cup {Nil}]
    /\ templates \in [Slug -> Body \cup {Nil}]
    /\ window \in [Request -> SUBSET Fields]

(* No interleaving of creates and renames gives a user two profiles with   *)
(* the same name.                                                          *)
NamesUnique ==
    \A i, j \in Request :
        /\ profiles[i] # Nil /\ profiles[j] # Nil /\ profiles[i].user = profiles[j].user
        /\ profiles[i].fields["name"] = profiles[j].fields["name"]
        => i = j

(* Whatever is stored, and whatever a reply shows, passes Validate: stale  *)
(* drafts and templates included.                                          *)
RowsValid ==
    \A i \in Request :
        /\ profiles[i] # Nil => Validate(profiles[i].fields)
        /\ \A r \in Request : shown[r][i] # Nil => Validate(shown[r][i])

(* A stored profile never refers to a template that is gone, though the    *)
(* template may be removed between the lookup and the INSERT.              *)
SlugResolves ==
    \A i \in Request : profiles[i] # Nil /\ profiles[i].slug # Nil =>
                            templates[profiles[i].slug] # Nil

(* A reply shows only profiles the caller created, at whatever moment the  *)
(* statements of other users ran.                                          *)
DisclosesOnlyOwn ==
    \A r, i \in Request :
        shown[r][i] # Nil =>
            call[i] # Nil /\ call[i].op = "create" /\ call[i].user = call[r].user

(* A pending UPDATE writes the caller's patch over a version of the        *)
(* caller's own profile that was current after the request arrived.        *)
UpdateBasis ==
    \A r \in Request : pc[r] = "update" =>
        /\ pc[call[r].id] = "done"
        /\ call[call[r].id].op = "create" /\ call[call[r].id].user = call[r].user
        /\ Validate(draft[r])
        /\ \E base \in window[r] : draft[r] = applyPatch(base, call[r].in)

(***************************************************************************)
(* Action properties.                                                      *)
(***************************************************************************)
(* A deleted profile stays deleted, even when the PATCH that loaded it     *)
(* before the delete sends its UPDATE after.                               *)
NoResurrection ==
    [][\A i \in Request : pc[i] = "done" /\ profiles[i] = Nil => profiles'[i] = Nil]_vars

(* A stored profile keeps its owner, and its fields change or go only in   *)
(* the step that completes a PATCH or DELETE its owner sent for it.        *)
WrittenByOwner(i) ==
    \E r \in Request :
        /\ pc[r] \in {"update", "delete"} /\ pc'[r] = "done"
        /\ call[r].id = i /\ call[r].user = profiles[i].user
WritesByOwner ==
    \A i \in Request : profiles[i] # Nil =>
      \/ WrittenByOwner(i) /\ (profiles'[i] = Nil \/ profiles'[i].user = profiles[i].user)
      \/ /\ profiles'[i] # Nil
         /\ profiles'[i].user = profiles[i].user /\ profiles'[i].fields = profiles[i].fields
OwnerOnlyWrites == [][WritesByOwner]_vars

(***************************************************************************)
(* The API implements the abstract store: templates are forgotten, every   *)
(* request takes effect in one step, and its status tells what happened: a *)
(* failure is reported only where something failed.                        *)
(***************************************************************************)
rowsBar == [i \in Request |-> IF profiles[i] = Nil THEN Nil
                              ELSE [user |-> profiles[i].user, fields |-> profiles[i].fields]]
phaseBar == [r \in Request |-> IF pc[r] \in Statements THEN "pending" ELSE pc[r]]

Store == INSTANCE ProfileStore WITH rows <- rowsBar, phase <- phaseBar

ImplementsStore == Store!Spec

(***************************************************************************)
(* What the documentation says and the code does not do.                   *)
(***************************************************************************)
(* "Patch is a partial update: nil fields are left unchanged."             *)
PatchIsPartial ==
    [][\A r \in Request :
         LET i == call[r].id IN
         pc[r] = "update" /\ pc'[r] = "done" /\ status'[r] = "ok" =>
            \A f \in Field : call[r].in[f] = Nil =>
                profiles'[i].fields[f] = profiles[i].fields[f]]_vars

(* The responses openapi.yaml lists for POST /device-profiles: 201, 400,   *)
(* 401, 409 and 500.                                                       *)
CreateStatusDocumented ==
    \A r \in Request : pc[r] = "done" /\ call[r].op = "create" =>
        status[r] \in {"created", "invalid_input", "template_error", "duplicate_name",
                       "internal_error"}
=============================================================================
