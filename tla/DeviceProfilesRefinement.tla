---------------------- MODULE DeviceProfilesRefinement ----------------------
(***************************************************************************)
(* Proofs of the action properties of DeviceProfiles, and of the theorem   *)
(* that it implements ProfileStore: a statement that answers the request   *)
(* is the abstract step, every other one leaves the abstract state alone.  *)
(* And of what a reply tells the client who gets it.                       *)
(***************************************************************************)
EXTENDS DeviceProfilesProofs

(***************************************************************************)
(* Action properties.                                                      *)
(***************************************************************************)
(* The only actions that touch the table, and how. *)
LEMMA TableSteps ==
    ASSUME Ind, [Next]_vars, NEW i \in Request
    PROVE  \/ profiles'[i] = profiles[i]
           \/ Insert(i) /\ profiles[i] = Nil
           \/ \E r \in Request : /\ Update(r) \/ Delete(r)
                                 /\ pc'[r] = "done"
                                 /\ call[r].id = i /\ OwnedRow(call[r].user, i)
                                 /\ profiles'[i] = Nil \/ profiles'[i].user = profiles[i].user
           \/ /\ profiles[i] # Nil /\ profiles'[i] # Nil
              /\ profiles'[i].user = profiles[i].user
              /\ profiles'[i].fields = profiles[i].fields
  <1>1. ASSUME NEW r \in Request, Handle(r) PROVE profiles'[i] = profiles[i]
    BY <1>1 DEF Handle, CreateDeviceProfile, GetDeviceProfile, ListDeviceProfiles,
                PatchDeviceProfile, DeleteDeviceProfile, Arrive
  <1>2. ASSUME NEW r \in Request, Create(r) \/ GetByID(r) \/ ListByUser(r) \/ Fault(r)
        PROVE  profiles'[i] = profiles[i]
    BY <1>2 DEF Create, GetByID, ListByUser, Fault, Submit, Send, Refuse
  <1>3. ASSUME NEW r \in Request, Insert(r)
        PROVE  profiles'[i] = profiles[i] \/ (r = i /\ profiles[i] = Nil)
    BY <1>3 DEF Insert, Refuse, Ind, TypeOK, RowsTraceable
  <1>4. ASSUME NEW r \in Request, Update(r)
        PROVE  \/ profiles'[i] = profiles[i]
               \/ /\ pc'[r] = "done" /\ call[r].id = i /\ OwnedRow(call[r].user, i)
                  /\ profiles'[i] = Nil \/ profiles'[i].user = profiles[i].user
    <2>1. CASE UNCHANGED profiles
      BY <2>1
    <2>2. CASE /\ OwnedRow(call[r].user, call[r].id)
               /\ profiles' = [profiles EXCEPT ![call[r].id].fields = draft[r]]
               /\ pc' = [pc EXCEPT ![r] = "done"]
      <3>1. profiles[call[r].id] \in Row
        BY <2>2 DEF OwnedRow, Ind, TypeOK
      <3> QED
        BY <2>2, <3>1 DEF OwnedRow, Ind, TypeOK, Row
    <2> QED
      BY <1>4, <2>1, <2>2 DEF Update, Refuse, ReplyToWrite, Reply
  <1>5. ASSUME NEW r \in Request, Delete(r)
        PROVE  \/ profiles'[i] = profiles[i]
               \/ /\ pc'[r] = "done" /\ call[r].id = i /\ OwnedRow(call[r].user, i)
                  /\ profiles'[i] = Nil \/ profiles'[i].user = profiles[i].user
    <2>1. CASE UNCHANGED profiles
      BY <2>1
    <2>2. CASE /\ OwnedRow(call[r].user, call[r].id)
               /\ profiles' = [profiles EXCEPT ![call[r].id] = Nil]
               /\ pc' = [pc EXCEPT ![r] = "done"]
      BY <2>2 DEF OwnedRow, Ind, TypeOK
    <2> QED
      BY <1>5, <2>1, <2>2 DEF Delete, Refuse, ReplyToWrite, Reply
  <1>6. CASE SeedTemplates
    BY <1>6 DEF SeedTemplates
  <1>7. ASSUME NEW s \in Slug, RemoveTemplate(s)
        PROVE  \/ profiles'[i] = profiles[i]
               \/ /\ profiles[i] # Nil /\ profiles'[i] # Nil
                  /\ profiles'[i].user = profiles[i].user
                  /\ profiles'[i].fields = profiles[i].fields
    <2>1. CASE profiles[i] # Nil /\ profiles[i].slug = s
      <3>1. profiles[i] \in Row /\ profiles'[i] = [profiles[i] EXCEPT !.slug = Nil]
        BY <1>7, <2>1 DEF RemoveTemplate, Ind, TypeOK
      <3>2. profiles'[i] \in Row
        BY <3>1 DEF Row
      <3> QED
        BY <2>1, <3>1, <3>2, ApiAssumption DEF Row
    <2>2. CASE ~(profiles[i] # Nil /\ profiles[i].slug = s)
      BY <1>7, <2>2 DEF RemoveTemplate
    <2> QED
      BY <2>1, <2>2
  <1>8. CASE UNCHANGED vars
    BY <1>8 DEF vars
  <1> QED
    BY <1>1, <1>2, <1>3, <1>4, <1>5, <1>6, <1>7, <1>8 DEF Next, Serve

(* A deleted profile stays deleted. *)
THEOREM DeletedStaysDeleted == Spec => NoResurrection
  <1>1. Ind /\ [Next]_vars =>
          [\A i \in Request : pc[i] = "done" /\ profiles[i] = Nil => profiles'[i] = Nil]_vars
    BY TableSteps DEF OwnedRow, Insert
  <1> QED
    BY <1>1, Invariance, PTL DEF Spec, NoResurrection

(* Only the owner's own PATCH or DELETE changes or removes a profile. *)
THEOREM OnlyOwnersWrite == Spec => OwnerOnlyWrites
  <1>1. ASSUME Ind, [Next]_vars, NEW i \in Request, profiles[i] # Nil
        PROVE  \/ WrittenByOwner(i) /\ (profiles'[i] = Nil \/ profiles'[i].user = profiles[i].user)
               \/ /\ profiles'[i] # Nil
                  /\ profiles'[i].user = profiles[i].user /\ profiles'[i].fields = profiles[i].fields
    <2>1. CASE \E r \in Request : /\ Update(r) \/ Delete(r)
                                  /\ pc'[r] = "done"
                                  /\ call[r].id = i /\ OwnedRow(call[r].user, i)
                                  /\ profiles'[i] = Nil \/ profiles'[i].user = profiles[i].user
      <3>1. PICK r \in Request : /\ pc[r] \in {"update", "delete"} /\ pc'[r] = "done"
                                 /\ call[r].id = i /\ call[r].user = profiles[i].user
        BY <2>1 DEF OwnedRow, Update, Delete
      <3>2. WrittenByOwner(i)
        BY <3>1 DEF WrittenByOwner
      <3> QED
        BY <2>1, <3>2
    <2> QED
      BY <1>1, <2>1, TableSteps
  <1>2. Ind /\ [Next]_vars => [WritesByOwner]_vars
    BY <1>1 DEF WritesByOwner
  <1> QED
    BY <1>2, Invariance, PTL DEF Spec, OwnerOnlyWrites

(***************************************************************************)
(* What a reply tells its client.                                          *)
(***************************************************************************)
Success == {"created", "ok", "no_content"}
Answers(r) == pc[r] \in Statements /\ pc'[r] = "done"

(* A refusal changes nothing: no interleaving and no fault lets a request  *)
(* write and then report an error, but for the error that stands for an    *)
(* acknowledgement that was lost.                                          *)
Unwritten(r) == profiles' = profiles \/ (Faults /\ status'[r] = "internal_error")
RefusalsChangeNothing ==
    [][\A r \in Request : Answers(r) /\ status'[r] \notin Success => Unwritten(r)]_vars

(* A PATCH is the partial update that its comment promises, if its profile *)
(* has had no other version while the request was served: nothing but a    *)
(* write in between makes it bring an omitted field back.                  *)
PatchesInOneStep(r) == profiles'[call[r].id].fields =
                          applyPatch(profiles[call[r].id].fields, call[r].in)
UndisturbedPatchIsPartial ==
    [][\A r \in Request :
         Answers(r) /\ pc[r] = "update" /\ status'[r] = "ok"
         /\ window[r] \subseteq VersionsOf(call[r].id) => PatchesInOneStep(r)]_vars

(* The responses of openapi.yaml, operation by operation.  One reply is    *)
(* not among them, whatever runs at the same time: the 404 of a create     *)
(* that names a template.                                                  *)
Documented(op) ==
    CASE op = "create" -> {"created", "invalid_input", "template_error", "duplicate_name",
                           "internal_error"}
      [] op = "get" -> {"ok", "not_found", "internal_error"}
      [] op = "list" -> {"ok", "internal_error"}
      [] op = "patch" -> {"ok", "invalid_input", "not_found", "duplicate_name",
                          "internal_error"}
      [] op = "delete" -> {"no_content", "not_found", "internal_error"}
Fits(c, st) ==
    \/ st \in Documented(c.op)
    \/ c.op = "create" /\ c.slug # Nil /\ st = "not_found"
RepliesFit == \A r \in Request : pc[r] = "done" => Fits(call[r], status[r])

(* What a statement does to its request, and to no other. *)
Outcome(r) ==
    /\ call' = call
    /\ \A q \in Request : q # r => pc'[q] = pc[q] /\ status'[q] = status[q]
    /\ pc'[r] = "done" => /\ Fits(call[r], status'[r])
                          /\ status'[r] \in Success \/ Unwritten(r)

(* An answer, as the outcome of its request. *)
LEMMA ReplyOutcome ==
    ASSUME Ind, NEW r \in Request, NEW st, NEW view, Reply(r, st, view), Fits(call[r], st),
           st \in Success \/ UNCHANGED profiles \/ (Faults /\ st = "internal_error")
    PROVE  Outcome(r)
  <1>1. /\ call' = call /\ status'[r] = st
        /\ \A q \in Request : q # r => pc'[q] = pc[q] /\ status'[q] = status[q]
    BY DEF Reply, Ind, TypeOK
  <1> QED
    BY <1>1 DEF Outcome, Unwritten

(* A refusal, by the error it reports. *)
LEMMA RefuseOutcome ==
    ASSUME Ind, NEW r \in Request, NEW errs, Refuse(r, errs), Fits(call[r], DomainError(errs))
    PROVE  Outcome(r)
  BY ReplyOutcome DEF Refuse

(* The answer to a write. *)
LEMMA WriteOutcome ==
    ASSUME Ind, NEW r \in Request, NEW st \in Success, NEW view, ReplyToWrite(r, st, view),
           Fits(call[r], st), Fits(call[r], "internal_error")
    PROVE  Outcome(r)
  <1>1. DomainError({}) = "internal_error"
    BY DEF DomainError
  <1> QED
    BY <1>1, ReplyOutcome DEF ReplyToWrite

(* A draft goes on: no answer yet. *)
LEMMA SubmitOutcome ==
    ASSUME Ind, NEW r \in Request, NEW stmt \in {"insert", "update"}, NEW fields,
           Submit(r, stmt, fields), Fits(call[r], "invalid_input")
    PROVE  Outcome(r)
  <1>1. DomainError({"ErrInvalidInput"}) = "invalid_input"
    BY DEF DomainError
  <1>2. CASE Send(r, stmt, fields)
    BY <1>2 DEF Send, Outcome, Ind, TypeOK
  <1> QED
    BY <1>1, <1>2, RefuseOutcome DEF Submit

(* Every statement has an outcome that its operation documents, but for    *)
(* the lookup of a template that is not there.                             *)
LEMMA EveryOutcome ==
    ASSUME Ind, NEW r \in Request, Serve(r) \/ Fault(r)
    PROVE  Outcome(r)
  <1>1. /\ DomainError({}) = "internal_error"
        /\ DomainError({"ErrNotFound"}) = "not_found"
        /\ DomainError({"ErrDuplicateName"}) = "duplicate_name"
        /\ DomainError({"ErrTemplate"}) = "template_error"
        /\ DomainError({"ErrTemplate", "ErrNotFound"}) = "not_found"
    BY DEF DomainError
  <1>2. /\ pc[r] \in {"create", "insert"} => call[r].op = "create"
        /\ pc[r] = "select" => call[r].op \in {"get", "patch"}
        /\ pc[r] = "update" => call[r].op = "patch"
        /\ pc[r] = "list" => call[r].op = "list"
        /\ pc[r] = "delete" => call[r].op = "delete"
    BY DEF Ind, CallsWellFormed
  <1>3. /\ call[r].op \in {"create", "get", "list", "patch", "delete"} =>
              Fits(call[r], "internal_error")
        /\ call[r].op \in {"create", "patch"} =>
              Fits(call[r], "invalid_input") /\ Fits(call[r], "duplicate_name")
        /\ call[r].op \in {"get", "patch", "delete"} => Fits(call[r], "not_found")
        /\ call[r].op \in {"get", "list", "patch"} => Fits(call[r], "ok")
        /\ call[r].op = "delete" => Fits(call[r], "no_content")
        /\ call[r].op = "create" => Fits(call[r], "created") /\ Fits(call[r], "template_error")
        /\ call[r].op = "create" /\ call[r].slug # Nil => Fits(call[r], "not_found")
    BY DEF Fits, Documented
  <1>4. "created" \in Success /\ "ok" \in Success /\ "no_content" \in Success
    BY DEF Success
  <1>5. CASE Create(r)
    <2>1. call[r].op = "create"
      BY <1>2, <1>5 DEF Create
    <2> QED
      BY <1>1, <1>3, <1>5, <2>1, SubmitOutcome, RefuseOutcome DEF Create
  <1>6. CASE Insert(r)
    <2>1. call[r].op = "create"
      BY <1>2, <1>6 DEF Insert
    <2> QED
      BY <1>1, <1>3, <1>4, <1>6, <2>1, WriteOutcome, RefuseOutcome DEF Insert
  <1>7. CASE GetByID(r)
    <2>1. call[r].op \in {"get", "patch"}
      BY <1>2, <1>7 DEF GetByID
    <2> QED
      BY <1>1, <1>3, <1>4, <1>7, <2>1, ReplyOutcome, SubmitOutcome, RefuseOutcome DEF GetByID
  <1>8. CASE Update(r)
    <2>1. call[r].op = "patch"
      BY <1>2, <1>8 DEF Update
    <2> QED
      BY <1>1, <1>3, <1>4, <1>8, <2>1, WriteOutcome, RefuseOutcome DEF Update
  <1>9. CASE ListByUser(r)
    <2>1. call[r].op = "list"
      BY <1>2, <1>9 DEF ListByUser
    <2> QED
      BY <1>3, <1>4, <1>9, <2>1, ReplyOutcome DEF ListByUser
  <1>10. CASE Delete(r)
    <2>1. call[r].op = "delete"
      BY <1>2, <1>10 DEF Delete
    <2> QED
      BY <1>1, <1>3, <1>4, <1>10, <2>1, WriteOutcome, RefuseOutcome DEF Delete
  <1>11. CASE Fault(r)
    <2>1. CASE pc[r] = "create" /\ Refuse(r, {"ErrTemplate"})
      BY <1>1, <1>2, <1>3, <2>1, RefuseOutcome
    <2>2. CASE pc[r] \in Statements \ {"create"} /\ Refuse(r, {})
      <3>1. Fits(call[r], "internal_error")
        BY <1>2, <1>3, <2>2 DEF Statements
      <3> QED
        BY <1>1, <2>2, <3>1, RefuseOutcome
    <2> QED
      BY <1>11, <2>1, <2>2 DEF Fault
  <1> QED
    BY <1>5, <1>6, <1>7, <1>8, <1>9, <1>10, <1>11 DEF Serve

NobodyAnswered ==
    \A q \in Request : /\ pc'[q] = "done" <=> pc[q] = "done"
                       /\ pc[q] = "done" => call'[q] = call[q] /\ status'[q] = status[q]

(* Every step is that of one statement, or answers nobody. *)
LEMMA WhoAnswers ==
    ASSUME Ind, [Next]_vars
    PROVE  \/ \E r \in Request : Serve(r) \/ Fault(r)
           \/ NobodyAnswered
  <1>1. ASSUME NEW r \in Request, NEW stmt \in Statements, NEW c, Arrive(r, stmt, c)
        PROVE  NobodyAnswered
    BY <1>1 DEF Arrive, Statements, Ind, TypeOK, NobodyAnswered
  <1>2. "create" \in Statements /\ "select" \in Statements /\ "list" \in Statements
        /\ "delete" \in Statements
    BY DEF Statements
  <1>3. ASSUME NEW r \in Request, Handle(r)
        PROVE  \E stmt \in Statements : \E c : Arrive(r, stmt, c)
    BY <1>2, <1>3 DEF Handle, CreateDeviceProfile, GetDeviceProfile, ListDeviceProfiles,
                      PatchDeviceProfile, DeleteDeviceProfile
  <1>4. CASE UNCHANGED <<pc, call, status>>
    BY <1>4 DEF NobodyAnswered
  <1>5. \/ \E r \in Request : Handle(r) \/ Serve(r) \/ Fault(r)
        \/ UNCHANGED <<pc, call, status>>
    BY DEF Next, SeedTemplates, RemoveTemplate, vars
  <1>6. ASSUME NEW r \in Request, Handle(r)
        PROVE  NobodyAnswered
    <2>1. PICK stmt \in Statements : \E c : Arrive(r, stmt, c)
      BY <1>3, <1>6
    <2>2. PICK c : Arrive(r, stmt, c)
      BY <2>1
    <2> QED
      BY <1>1, <2>2
  <1> QED
    BY <1>4, <1>5, <1>6

(* Every reply is one that openapi.yaml lists for the operation, but for   *)
(* the 404 of a create that names a template.                              *)
THEOREM RepliesAreDocumented == Spec => []RepliesFit
  <1>1. Init => RepliesFit
    BY DEF Init, RepliesFit
  <1>2. ASSUME Ind, RepliesFit, [Next]_vars, NEW q \in Request, pc'[q] = "done"
        PROVE  Fits(call'[q], status'[q])
    <2>1. CASE \E r \in Request : Serve(r) \/ Fault(r)
      <3>1. PICK r \in Request : Serve(r) \/ Fault(r)
        BY <2>1
      <3>2. Outcome(r)
        BY <1>2, <3>1, EveryOutcome
      <3>3. CASE q = r
        BY <1>2, <3>2, <3>3 DEF Outcome
      <3>4. CASE q # r
        <4>1. pc[q] = "done" /\ status'[q] = status[q] /\ call'[q] = call[q]
          BY <1>2, <3>2, <3>4 DEF Outcome
        <4> QED
          BY <1>2, <4>1 DEF RepliesFit
      <3> QED
        BY <3>3, <3>4
    <2>2. CASE pc[q] = "done" /\ call'[q] = call[q] /\ status'[q] = status[q]
      BY <1>2, <2>2 DEF RepliesFit
    <2> QED
      BY <1>2, <2>1, <2>2, WhoAnswers DEF NobodyAnswered
  <1>3. Ind /\ RepliesFit /\ [Next]_vars => RepliesFit'
    BY <1>2 DEF RepliesFit
  <1> QED
    BY <1>1, <1>3, Invariance, PTL DEF Spec

(* Whoever is told of an error, other than a lost acknowledgement, has     *)
(* changed nothing.                                                        *)
THEOREM RefusalsAreClean == Spec => RefusalsChangeNothing
  <1>1. ASSUME Ind, [Next]_vars, NEW q \in Request, Answers(q), status'[q] \notin Success
        PROVE  Unwritten(q)
    <2>1. pc[q] # "done" /\ pc'[q] = "done"
      BY <1>1 DEF Answers, Statements
    <2>2. PICK r \in Request : Serve(r) \/ Fault(r)
      BY <1>1, <2>1, WhoAnswers DEF NobodyAnswered
    <2>3. Outcome(r)
      BY <1>1, <2>2, EveryOutcome
    <2>4. q = r
      BY <2>1, <2>3 DEF Outcome
    <2> QED
      BY <1>1, <2>1, <2>3, <2>4 DEF Outcome
  <1>2. Ind /\ [Next]_vars =>
          [\A r \in Request : Answers(r) /\ status'[r] \notin Success => Unwritten(r)]_vars
    BY <1>1
  <1> QED
    BY <1>2, Invariance, PTL DEF Spec, RefusalsChangeNothing

(* Only a write between its two statements keeps a PATCH from being the    *)
(* partial update of its comment: without one, the UPDATE changes the row  *)
(* it meets in the fields the client sent.                                 *)
THEOREM UndisturbedPatchesArePartial == Spec => UndisturbedPatchIsPartial
  <1>1. ASSUME Ind, [Next]_vars, NEW q \in Request, Answers(q), pc[q] = "update",
               status'[q] = "ok", window[q] \subseteq VersionsOf(call[q].id)
        PROVE  PatchesInOneStep(q)
    <2>1. pc[q] # "done" /\ pc'[q] = "done"
      BY <1>1 DEF Answers
    <2>2. PICK r \in Request : Serve(r) \/ Fault(r)
      BY <1>1, <2>1, WhoAnswers DEF NobodyAnswered
    <2>3. q = r
      BY <1>1, <2>1, <2>2, EveryOutcome DEF Outcome
    <2> DEFINE i == call[q].id
    <2>4. PICK base \in window[q] : draft[q] = applyPatch(base, call[q].in)
      BY <1>1 DEF Ind, UpdateBasis
    <2>5. i \in Request /\ profiles[i] # Nil /\ base = profiles[i].fields
      BY <1>1, <2>4 DEF VersionsOf
    <2>6. Update(q) \/ Fault(q)
      BY <1>1, <2>2, <2>3 DEF Serve, Create, Insert, GetByID, ListByUser, Delete
    <2>7. ASSUME NEW errs, Refuse(q, errs) PROVE status'[q] # "ok"
      <3>1. status \in [Request -> Status]
        BY <1>1 DEF Ind, TypeOK
      <3>2. status'[q] = DomainError(errs)
        BY <2>7, <3>1 DEF Refuse, Reply
      <3> QED
        BY <3>2, DomainErrorType
    <2>8. profiles' = [profiles EXCEPT ![i].fields = draft[q]]
      BY <1>1, <2>6, <2>7 DEF Update, Fault
    <2>9. profiles \in [Request -> Row \cup {Nil}] /\ profiles[i] \in Row
      BY <1>1, <2>5 DEF Ind, TypeOK
    <2>10. profiles'[i].fields = draft[q]
      BY <2>5, <2>8, <2>9 DEF Row
    <2> QED
      BY <2>4, <2>5, <2>10 DEF PatchesInOneStep
  <1>2. Ind /\ [Next]_vars =>
          [\A r \in Request :
             Answers(r) /\ pc[r] = "update" /\ status'[r] = "ok"
             /\ window[r] \subseteq VersionsOf(call[r].id) => PatchesInOneStep(r)]_vars
    BY <1>1
  <1> QED
    BY <1>2, Invariance, PTL DEF Spec, UndisturbedPatchIsPartial

(***************************************************************************)
(* Refinement: the state the store sees.                                   *)
(***************************************************************************)
SameRows ==
    \A i \in Request :
        /\ rowsBar[i] # Nil <=> profiles[i] # Nil
        /\ profiles[i] # Nil => /\ rowsBar[i].user = profiles[i].user
                                /\ rowsBar[i].fields = profiles[i].fields

(* The rows of the implementation are the rows of the abstract store. *)
LEMMA RowsAgree == TypeOK => SameRows
  <1> SUFFICES ASSUME TypeOK, NEW i \in Request, profiles[i] # Nil
               PROVE  /\ rowsBar[i] # Nil
                      /\ rowsBar[i].user = profiles[i].user
                      /\ rowsBar[i].fields = profiles[i].fields
    BY DEF rowsBar, SameRows
  <1>1. profiles[i].user \in User /\ profiles[i].fields \in Fields
    BY DEF TypeOK, Row
  <1> QED
    BY <1>1, ApiAssumption DEF rowsBar

(* The predicates of the two modules agree. *)
LEMMA PredicatesAgree ==
    ASSUME SameRows
    PROVE  /\ \A u, i : Store!Visible(u, i) <=> OwnedRow(u, i)
           /\ \A u, name, i : Store!Taken(u, name, i) <=> NameTaken(u, name, i)
           /\ \A i : Store!VersionsOf(i) = VersionsOf(i)
  <1>1. ASSUME NEW u, NEW i PROVE Store!Visible(u, i) <=> OwnedRow(u, i)
    BY DEF SameRows, Store!Visible, OwnedRow
  <1>2. ASSUME NEW u, NEW name, NEW i PROVE Store!Taken(u, name, i) <=> NameTaken(u, name, i)
    BY DEF SameRows, Store!Taken, NameTaken
  <1>3. ASSUME NEW i PROVE Store!VersionsOf(i) = VersionsOf(i)
    BY DEF SameRows, Store!VersionsOf, VersionsOf
  <1> QED
    BY <1>1, <1>2, <1>3

(* The windows change as those of the abstract store do. *)
LEMMA HistoryAgrees ==
    ASSUME TypeOK', RecordVersions
    PROVE  Store!RecordVersions
  <1>1. SameRows'
    BY RowsAgree, PTL
  <1>2. \A i : Store!VersionsOf(i)' = VersionsOf(i)'
    BY <1>1 DEF SameRows, Store!VersionsOf, VersionsOf
  <1>3. \A r \in Request : phaseBar'[r] = "pending" <=> pc'[r] \in Statements
    BY DEF TypeOK, phaseBar, Statements
  <1> QED
    BY <1>2, <1>3 DEF RecordVersions, Store!RecordVersions

(***************************************************************************)
(* Steps.                                                                  *)
(***************************************************************************)
(* A handler takes a call. *)
LEMMA ArriveRefines ==
    ASSUME Ind, Ind', NEW r \in Request, NEW stmt \in Statements, NEW c \in Call,
           Arrive(r, stmt, c),
           c.op = "create" => c.id = r /\ c.in # Nil,
           c.op = "patch" => c.in # Nil
    PROVE  Store!Next
  <1>1. TypeOK /\ TypeOK' /\ RecordVersions /\ UNCHANGED <<status, shown, profiles>>
    BY DEF Ind, Arrive
  <1>2. phaseBar[r] = "idle" /\ phaseBar' = [phaseBar EXCEPT ![r] = "pending"]
    BY <1>1 DEF Arrive, phaseBar, TypeOK, Statements
  <1>3. rowsBar' = rowsBar
    BY <1>1 DEF rowsBar
  <1>4. /\ c.op \in {"create", "get", "list", "patch", "delete"} /\ c.user \in User
        /\ c.id \in Request \cup MalformedId \cup {Nil} /\ c.in \in Payload \cup {Nil}
        /\ c.slug \in Slug \cup {Nil}
        /\ c = [op |-> c.op, user |-> c.user, id |-> c.id, in |-> c.in, slug |-> c.slug]
    BY DEF Call
  <1>5. call' = [call EXCEPT ![r] = c]
    BY DEF Arrive
  <1>6. Store!Arrive(r)
    BY <1>1, <1>2, <1>3, <1>4, <1>5 DEF Store!Arrive
  <1> QED
    BY <1>1, <1>6, HistoryAgrees DEF Store!Next

(* The arrival of a request is its arrival in the abstract store. *)
LEMMA HandleRefines ==
    ASSUME Ind, Ind', NEW r \in Request, Handle(r)
    PROVE  Store!Next
  <1>0. \A in \in Payload : in # Nil
    BY ApiAssumption
  <1>1. PICK stmt \in Statements, c \in Call :
          /\ Arrive(r, stmt, c)
          /\ c.op = "create" => c.id = r /\ c.in # Nil
          /\ c.op = "patch" => c.in # Nil
    <2>1. CASE CreateDeviceProfile(r)
      <3>1. PICK u \in User, in \in Payload, s \in Slug \cup {Nil} :
              Arrive(r, "create", [op |-> "create", user |-> u, id |-> r, in |-> in, slug |-> s])
        BY <2>1 DEF CreateDeviceProfile
      <3> QED
        BY <1>0, <3>1 DEF Call, Statements
    <2>2. CASE GetDeviceProfile(r)
      BY <2>2 DEF GetDeviceProfile, Call, Statements
    <2>3. CASE ListDeviceProfiles(r)
      BY <2>3 DEF ListDeviceProfiles, Call, Statements
    <2>4. CASE PatchDeviceProfile(r)
      <3>1. PICK u \in User, i \in Request \cup MalformedId, in \in Payload :
              Arrive(r, "select", [op |-> "patch", user |-> u, id |-> i, in |-> in, slug |-> Nil])
        BY <2>4 DEF PatchDeviceProfile
      <3> QED
        BY <1>0, <3>1 DEF Call, Statements
    <2>5. CASE DeleteDeviceProfile(r)
      BY <2>5 DEF DeleteDeviceProfile, Call, Statements
    <2> QED
      BY <2>1, <2>2, <2>3, <2>4, <2>5 DEF Handle
  <1> QED
    BY <1>1, ArriveRefines

(* The reply of the code is the reply of the store. *)
LEMMA ReplyRefines ==
    ASSUME Ind, Ind', NEW r \in Request, pc[r] \in Statements,
           NEW st, NEW view, Reply(r, st, view)
    PROVE  phaseBar[r] = "pending" /\ Store!Reply(r, st, view) /\ Store!RecordVersions
  <1>1. TypeOK /\ TypeOK' /\ RecordVersions
    BY DEF Ind, Reply
  <1>2. phaseBar[r] = "pending" /\ phaseBar' = [phaseBar EXCEPT ![r] = "done"]
    BY <1>1 DEF Reply, phaseBar, TypeOK, Statements
  <1> QED
    BY <1>1, <1>2, HistoryAgrees DEF Reply, Store!Reply

(* Both modules show profiles in the same way. *)
LEMMA SameBlank == Store!Blank = Blank /\ \A i, fields : Store!Showing(i, fields) = Showing(i, fields)
  BY DEF Blank, Store!Blank, Showing, Store!Showing

(* A write and its reply, also one that reports a failure, are one step of the store. *)
LEMMA WriteReplyRefines ==
    ASSUME Ind, Ind', NEW r \in Request, pc[r] \in Statements,
           NEW st, NEW view, ReplyToWrite(r, st, view)
    PROVE  phaseBar[r] = "pending" /\ Store!ReplyToWrite(r, st, view) /\ Store!RecordVersions
  <1>1. DomainError({}) = "internal_error"
    BY DEF DomainError
  <1> QED
    BY <1>1, ReplyRefines, SameBlank DEF ReplyToWrite, Store!ReplyToWrite

(* A refusal for a reason the store accepts. *)
LEMMA RefuseRefines ==
    ASSUME Ind, Ind', NEW r \in Request, pc[r] \in Statements, NEW errs,
           Refuse(r, errs), Store!Justified(r, DomainError(errs))
    PROVE  Store!Next
  <1>1. Reply(r, DomainError(errs), Store!Blank) /\ profiles' = profiles
    BY SameBlank DEF Refuse
  <1>2. rowsBar' = rowsBar
    BY <1>1 DEF rowsBar
  <1>3. /\ phaseBar[r] = "pending" /\ Store!RecordVersions
        /\ Store!Reply(r, DomainError(errs), Store!Blank)
    BY <1>1, ReplyRefines
  <1>4. Store!Refuse(r)
    BY <1>2, <1>3, DomainErrorType DEF Store!Refuse
  <1> QED
    BY <1>3, <1>4 DEF Store!Next, Store!Serve

(* A step that neither starts nor answers a request, nor changes a row's   *)
(* owner or fields, is invisible to the store.                             *)
LEMMA InvisibleRefines ==
    ASSUME Ind, Ind', RecordVersions, UNCHANGED <<call, status, shown>>,
           \A q \in Request : pc'[q] = pc[q] \/ {pc[q], pc'[q]} \subseteq Statements,
           \A i \in Request :
               /\ profiles'[i] = Nil <=> profiles[i] = Nil
               /\ profiles[i] # Nil => /\ profiles'[i].user = profiles[i].user
                                       /\ profiles'[i].fields = profiles[i].fields
    PROVE  UNCHANGED Store!vars
  <1>1. rowsBar' = rowsBar
    BY DEF rowsBar
  <1>2. phaseBar' = phaseBar
    BY DEF phaseBar
  <1>3. \A i : VersionsOf(i)' = VersionsOf(i)
    BY DEF VersionsOf
  <1>4. window' = window
    <2>1. \A q \in Request : window'[q] = window[q]
      BY <1>3 DEF RecordVersions, Ind, WindowsCurrent
    <2> QED
      BY <2>1 DEF Ind, TypeOK
  <1> QED
    BY <1>1, <1>2, <1>4 DEF Store!vars

(* Both modules compute with the same data functions. *)
LEMMA DataAgree ==
    /\ \A fields : Store!Validate(fields) <=> Validate(fields)
    /\ \A base, in : Store!applyPatch(base, in) = applyPatch(base, in)
    /\ \A in : Store!FromInput(in) = FromInput(in)
    /\ Store!Fields = Fields
  BY DEF Store!Validate, Validate, Store!Templated, Templated, Store!applyPatch, applyPatch,
         Store!FromInput, FromInput, Store!Fields, Fields

(* A statement that is not the last one only extends windows. *)
LEMMA SendRefines ==
    ASSUME Ind, Ind', NEW r \in Request, pc[r] \in Statements, NEW stmt \in Statements,
           NEW fields, Send(r, stmt, fields)
    PROVE  UNCHANGED Store!vars
  <1>1. \A q \in Request : pc'[q] = pc[q] \/ {pc[q], pc'[q]} \subseteq Statements
    BY DEF Send, Ind, TypeOK
  <1>2. RecordVersions /\ UNCHANGED <<call, status, shown>> /\ profiles' = profiles
    BY DEF Send
  <1>3. \A i \in Request :
          /\ profiles'[i] = Nil <=> profiles[i] = Nil
          /\ profiles[i] # Nil => /\ profiles'[i].user = profiles[i].user
                                  /\ profiles'[i].fields = profiles[i].fields
    BY <1>2
  <1> QED
    BY <1>1, <1>2, <1>3, InvisibleRefines

(* The lookup of a create either ends it with a true refusal or is invisible. *)
LEMMA CreateRefines ==
    ASSUME Ind, Ind', NEW r \in Request, Create(r)
    PROVE  Store!Next \/ UNCHANGED Store!vars
  <1> DEFINE in == call[r].in
             s  == call[r].slug
  <1>1. pc[r] \in Statements /\ call[r].op = "create" /\ "insert" \in Statements
    BY DEF Create, Statements, Ind, CallsWellFormed
  <1>2. /\ DomainError({"ErrInvalidInput"}) = "invalid_input"
        /\ DomainError({"ErrTemplate", "ErrNotFound"}) = "not_found"
    BY DEF DomainError
  <1>3. ASSUME NEW fields, Submit(r, "insert", fields),
               s = Nil => fields = FromInput(in)
        PROVE  Store!Next \/ UNCHANGED Store!vars
    <2>1. CASE Send(r, "insert", fields)
      BY <1>1, <2>1, SendRefines
    <2>2. CASE ~Validate(fields) /\ Refuse(r, {"ErrInvalidInput"})
      <3>1. Store!Justified(r, "invalid_input")
        BY <1>1, <1>3, <2>2, DataAgree DEF Store!Justified
      <3> QED
        BY <1>1, <1>2, <2>2, <3>1, RefuseRefines
    <2> QED
      BY <1>3, <2>1, <2>2 DEF Submit
  <1>4. CASE s # Nil /\ Refuse(r, {"ErrTemplate", "ErrNotFound"})
    <2>1. Store!Justified(r, "not_found")
      BY <1>1, <1>4 DEF Store!Justified
    <2> QED
      BY <1>1, <1>2, <1>4, <2>1, RefuseRefines
  <1> QED
    BY <1>3, <1>4 DEF Create

(* The INSERT is where a create takes effect. *)
LEMMA InsertRefines ==
    ASSUME Ind, Ind', NEW r \in Request, Insert(r)
    PROVE  Store!Next
  <1> DEFINE u == call[r].user
             s == call[r].slug
  <1>1. /\ pc[r] = "insert" /\ pc[r] \in Statements /\ call[r].op = "create"
        /\ draft[r] \in Fields /\ Validate(draft[r]) /\ SameRows
    BY RowsAgree DEF Insert, Statements, Ind, TypeOK, CallsWellFormed, InsertBasis
  <1>2. DomainError({"ErrDuplicateName"}) = "duplicate_name" /\ DomainError({}) = "internal_error"
    BY DEF DomainError
  <1>3. CASE NameTaken(u, draft[r]["name"], r) /\ Refuse(r, {"ErrDuplicateName"})
    <2>1. /\ "name" \in Field /\ draft[r]["name"] \in Value
          /\ call[r].in["name"] \in {draft[r]["name"], Nil}
      BY <1>1, DataAssumption DEF Ind, InsertBasis, Fields
    <2>2. Store!Taken(u, draft[r]["name"], r)
      BY <1>1, <1>3, PredicatesAgree
    <2>3. Store!Justified(r, "duplicate_name")
      BY <1>1, <2>1, <2>2 DEF Store!Justified
    <2> QED
      BY <1>1, <1>2, <1>3, <2>3, RefuseRefines
  <1>4. CASE SlugMissing(s) /\ Refuse(r, {})
    <2>1. Store!Justified(r, "internal_error")
      BY <1>1, <1>4 DEF Store!Justified, SlugMissing
    <2> QED
      BY <1>1, <1>2, <1>4, <2>1, RefuseRefines
  <1>5. CASE /\ ~NameTaken(u, draft[r]["name"], r)
             /\ profiles' = [profiles EXCEPT
                               ![r] = [user |-> u, fields |-> draft[r], slug |-> s]]
             /\ ReplyToWrite(r, "created", Showing(r, draft[r]))
    <2>1. ~Store!Taken(u, draft[r]["name"], r)
      BY <1>1, <1>5, PredicatesAgree
    <2>2. rowsBar' = [rowsBar EXCEPT ![r] = [user |-> u, fields |-> draft[r]]]
      <3>1. profiles'[r] = [user |-> u, fields |-> draft[r], slug |-> s]
        BY <1>5 DEF Ind, TypeOK
      <3>2. profiles'[r] # Nil
        <4>1. call[r] \in Call
          BY <1>1 DEF Ind, TypeOK
        <4>2. profiles'[r] \in Row
          BY <1>1, <3>1, <4>1 DEF Row, Call
        <4> QED
          BY <4>2, ApiAssumption
      <3> QED
        BY <1>5, <3>1, <3>2 DEF rowsBar, Ind, TypeOK
    <2>3. /\ \A f \in Field : call[r].in[f] # Nil => draft[r][f] = call[r].in[f]
          /\ call[r].slug = Nil => draft[r] = Store!FromInput(call[r].in)
      BY <1>1, DataAgree DEF Ind, InsertBasis
    <2>4. Store!Validate(draft[r]) /\ draft[r] \in Store!Fields
      BY <1>1, DataAgree
    <2>5. /\ phaseBar[r] = "pending" /\ Store!RecordVersions
          /\ Store!ReplyToWrite(r, "created", Store!Showing(r, draft[r]))
      BY <1>1, <1>5, WriteReplyRefines, SameBlank
    <2>6. Store!Create(r)
      BY <1>1, <2>1, <2>2, <2>3, <2>4, <2>5 DEF Store!Create
    <2> QED
      BY <2>5, <2>6 DEF Store!Next, Store!Serve
  <1> QED
    BY <1>3, <1>4, <1>5 DEF Insert

(* The SELECT answers a GET, and is invisible in a PATCH that goes on. *)
LEMMA GetByIDRefines ==
    ASSUME Ind, Ind', NEW r \in Request, GetByID(r)
    PROVE  Store!Next \/ UNCHANGED Store!vars
  <1> DEFINE u == call[r].user
             i == call[r].id
  <1>1. /\ pc[r] \in Statements /\ "update" \in Statements
        /\ call[r].op \in {"get", "patch"} /\ SameRows
    BY RowsAgree DEF GetByID, Statements, Ind, CallsWellFormed
  <1>2. /\ DomainError({}) = "internal_error" /\ DomainError({"ErrNotFound"}) = "not_found"
        /\ DomainError({"ErrInvalidInput"}) = "invalid_input"
    BY DEF DomainError
  <1>3. Store!Visible(u, i) <=> OwnedRow(u, i)
    BY <1>1, PredicatesAgree
  <1>4. ASSUME OwnedRow(u, i)
        PROVE  i \in Request /\ rowsBar[i].fields = profiles[i].fields
    BY <1>1, <1>4 DEF OwnedRow, SameRows
  <1>5. CASE i \in MalformedId /\ Refuse(r, {})
    <2>1. Store!Justified(r, "internal_error")
      BY <1>1, <1>5 DEF Store!Justified
    <2> QED
      BY <1>1, <1>2, <1>5, <2>1, RefuseRefines
  <1>6. CASE i \notin MalformedId /\ ~OwnedRow(u, i) /\ Refuse(r, {"ErrNotFound"})
    <2>1. Store!Justified(r, "not_found")
      BY <1>1, <1>3, <1>6 DEF Store!Justified
    <2> QED
      BY <1>1, <1>2, <1>6, <2>1, RefuseRefines
  <1>7. CASE /\ OwnedRow(u, i) /\ call[r].op = "get" /\ UNCHANGED profiles
             /\ Reply(r, "ok", Showing(i, profiles[i].fields))
    <2>1. rowsBar' = rowsBar
      BY <1>7 DEF rowsBar
    <2>2. Reply(r, "ok", Store!Showing(i, rowsBar[i].fields))
      BY <1>4, <1>7, SameBlank
    <2>3. /\ phaseBar[r] = "pending" /\ Store!RecordVersions
          /\ Store!Reply(r, "ok", Store!Showing(i, rowsBar[i].fields))
      BY <1>1, <2>2, ReplyRefines
    <2>4. Store!Get(r)
      BY <1>3, <1>7, <2>1, <2>3 DEF Store!Get
    <2> QED
      BY <2>3, <2>4 DEF Store!Next, Store!Serve
  <1>8. CASE /\ OwnedRow(u, i) /\ call[r].op = "patch"
             /\ Submit(r, "update", applyPatch(profiles[i].fields, call[r].in))
    <2> DEFINE fields == applyPatch(profiles[i].fields, call[r].in)
    <2>1. CASE Send(r, "update", fields)
      BY <1>1, <2>1, SendRefines
    <2>2. CASE ~Validate(fields) /\ Refuse(r, {"ErrInvalidInput"})
      <3>1. ~Store!Validate(Store!applyPatch(rowsBar[i].fields, call[r].in))
        BY <1>4, <1>8, <2>2, DataAgree
      <3>2. Store!Justified(r, "invalid_input")
        BY <1>3, <1>8, <3>1 DEF Store!Justified
      <3> QED
        BY <1>1, <1>2, <2>2, <3>2, RefuseRefines
    <2> QED
      BY <1>8, <2>1, <2>2 DEF Submit
  <1> QED
    BY <1>5, <1>6, <1>7, <1>8 DEF GetByID

(* The UPDATE is where a PATCH takes effect, on a version in its window. *)
LEMMA UpdateRefines ==
    ASSUME Ind, Ind', NEW r \in Request, Update(r)
    PROVE  Store!Next
  <1> DEFINE u == call[r].user
             i == call[r].id
  <1>1. /\ pc[r] = "update" /\ pc[r] \in Statements
        /\ call[r].op = "patch" /\ i \in Request /\ SameRows
    BY RowsAgree DEF Update, Statements, Ind, CallsWellFormed
  <1>2. /\ DomainError({"ErrNotFound"}) = "not_found"
        /\ DomainError({"ErrDuplicateName"}) = "duplicate_name"
    BY DEF DomainError
  <1>3. /\ Store!Visible(u, i) <=> OwnedRow(u, i)
        /\ Store!Taken(u, draft[r]["name"], i) <=> NameTaken(u, draft[r]["name"], i)
    BY <1>1, PredicatesAgree
  <1>4. PICK base \in window[r] : draft[r] = Store!applyPatch(base, call[r].in)
    BY <1>1, DataAgree DEF Ind, UpdateBasis
  <1>5. CASE ~OwnedRow(u, i) /\ Refuse(r, {"ErrNotFound"})
    <2>1. i \notin MalformedId
      BY <1>1, ApiAssumption
    <2>2. Store!Justified(r, "not_found")
      BY <1>1, <1>3, <1>5, <2>1 DEF Store!Justified
    <2> QED
      BY <1>1, <1>2, <1>5, <2>2, RefuseRefines
  <1>6. CASE /\ OwnedRow(u, i) /\ NameTaken(u, draft[r]["name"], i)
             /\ Refuse(r, {"ErrDuplicateName"})
    <2>1. Store!Justified(r, "duplicate_name")
      BY <1>1, <1>3, <1>4, <1>6 DEF Store!Justified
    <2> QED
      BY <1>1, <1>2, <1>6, <2>1, RefuseRefines
  <1>7. CASE /\ OwnedRow(u, i) /\ ~NameTaken(u, draft[r]["name"], i)
             /\ profiles' = [profiles EXCEPT ![i].fields = draft[r]]
             /\ ReplyToWrite(r, "ok", Showing(i, draft[r]))
    <2>1. rowsBar' = [rowsBar EXCEPT ![i] = [user |-> u, fields |-> draft[r]]]
      <3>1. profiles[i] \in Row /\ profiles[i] # Nil /\ profiles[i].user = u
        BY <1>1, <1>7 DEF OwnedRow, Ind, TypeOK
      <3>2. /\ profiles'[i].user = u /\ profiles'[i].fields = draft[r]
            /\ \A j \in Request \ {i} : profiles'[j] = profiles[j]
        BY <1>1, <1>7, <3>1 DEF Ind, TypeOK, Row
      <3>3. profiles'[i] # Nil
        <4>1. draft[r] \in Fields
          BY <1>1 DEF Ind, TypeOK
        <4>2. profiles'[i] \in Row
          BY <1>1, <1>7, <3>1, <4>1 DEF Ind, TypeOK, Row
        <4> QED
          BY <4>2, ApiAssumption
      <3> QED
        BY <1>1, <3>2, <3>3 DEF rowsBar
    <2>2. Store!Validate(draft[r])
      BY <1>1, DataAgree DEF Ind, UpdateBasis
    <2>3. /\ phaseBar[r] = "pending" /\ Store!RecordVersions
          /\ Store!ReplyToWrite(r, "ok", Store!Showing(i, draft[r]))
      BY <1>1, <1>7, WriteReplyRefines, SameBlank
    <2>4. Store!Patch(r)
      BY <1>1, <1>3, <1>4, <1>7, <2>1, <2>2, <2>3 DEF Store!Patch
    <2> QED
      BY <2>3, <2>4 DEF Store!Next, Store!Serve
  <1> QED
    BY <1>5, <1>6, <1>7 DEF Update

(* A listing is answered by its one statement. *)
LEMMA ListByUserRefines ==
    ASSUME Ind, Ind', NEW r \in Request, ListByUser(r)
    PROVE  Store!Next
  <1>1. pc[r] \in Statements /\ call[r].op = "list" /\ SameRows /\ profiles' = profiles
    BY RowsAgree DEF ListByUser, Statements, Ind, CallsWellFormed
  <1>2. PICK page \in SUBSET {i \in Request : OwnedRow(call[r].user, i)} :
          Reply(r, "ok", [i \in Request |-> IF i \in page THEN profiles[i].fields ELSE Nil])
    BY DEF ListByUser
  <1>3. page \in SUBSET {i \in Request : Store!Visible(call[r].user, i)}
    BY <1>1, PredicatesAgree
  <1>4. [i \in Request |-> IF i \in page THEN profiles[i].fields ELSE Nil]
          = [i \in Request |-> IF i \in page THEN rowsBar[i].fields ELSE Nil]
    BY <1>1, <1>2 DEF SameRows, OwnedRow
  <1>5. rowsBar' = rowsBar
    BY <1>1 DEF rowsBar
  <1>6. /\ phaseBar[r] = "pending" /\ Store!RecordVersions
        /\ Store!Reply(r, "ok", [i \in Request |-> IF i \in page THEN rowsBar[i].fields ELSE Nil])
    BY <1>1, <1>2, <1>4, ReplyRefines
  <1>7. Store!List(r)
    BY <1>1, <1>3, <1>5, <1>6 DEF Store!List
  <1> QED
    BY <1>6, <1>7 DEF Store!Next, Store!Serve

(* The DELETE is where a delete takes effect. *)
LEMMA DeleteRefines ==
    ASSUME Ind, Ind', NEW r \in Request, Delete(r)
    PROVE  Store!Next
  <1> DEFINE u == call[r].user
             i == call[r].id
  <1>1. pc[r] \in Statements /\ call[r].op = "delete" /\ SameRows
    BY RowsAgree DEF Delete, Statements, Ind, CallsWellFormed
  <1>2. DomainError({}) = "internal_error" /\ DomainError({"ErrNotFound"}) = "not_found"
    BY DEF DomainError
  <1>3. Store!Visible(u, i) <=> OwnedRow(u, i)
    BY <1>1, PredicatesAgree
  <1>4. CASE i \in MalformedId /\ Refuse(r, {})
    <2>1. Store!Justified(r, "internal_error")
      BY <1>1, <1>4 DEF Store!Justified
    <2> QED
      BY <1>1, <1>2, <1>4, <2>1, RefuseRefines
  <1>5. CASE i \notin MalformedId /\ ~OwnedRow(u, i) /\ Refuse(r, {"ErrNotFound"})
    <2>1. Store!Justified(r, "not_found")
      BY <1>1, <1>3, <1>5 DEF Store!Justified
    <2> QED
      BY <1>1, <1>2, <1>5, <2>1, RefuseRefines
  <1>6. CASE /\ OwnedRow(u, i) /\ profiles' = [profiles EXCEPT ![i] = Nil]
             /\ ReplyToWrite(r, "no_content", Blank)
    <2>1. rowsBar' = [rowsBar EXCEPT ![i] = Nil]
      BY <1>6 DEF rowsBar, Ind, TypeOK
    <2>2. /\ phaseBar[r] = "pending" /\ Store!RecordVersions
          /\ Store!ReplyToWrite(r, "no_content", Store!Blank)
      BY <1>1, <1>6, WriteReplyRefines, SameBlank
    <2>3. Store!Delete(r)
      BY <1>1, <1>3, <1>6, <2>1, <2>2 DEF Store!Delete
    <2> QED
      BY <2>2, <2>3 DEF Store!Next, Store!Serve
  <1> QED
    BY <1>4, <1>5, <1>6 DEF Delete

(* A failed statement is an internal error, which the store may answer     *)
(* whenever the database may fail.                                         *)
LEMMA FaultRefines ==
    ASSUME Ind, Ind', NEW r \in Request, Fault(r)
    PROVE  Store!Next
  <1>1. pc[r] \in Statements /\ Faults
    BY DEF Fault, Statements
  <1>2. DomainError({}) = "internal_error" /\ DomainError({"ErrTemplate"}) = "template_error"
    BY DEF DomainError
  <1>3. CASE pc[r] = "create" /\ call[r].slug # Nil /\ Refuse(r, {"ErrTemplate"})
    <2>1. Store!Justified(r, "template_error")
      BY <1>1, <1>3 DEF Ind, CallsWellFormed, Store!Justified
    <2> QED
      BY <1>1, <1>2, <1>3, <2>1, RefuseRefines
  <1>4. CASE Refuse(r, {})
    BY <1>1, <1>2, <1>4, RefuseRefines DEF Store!Justified
  <1> QED
    BY <1>3, <1>4 DEF Fault

(* The store knows no templates: seeding is invisible in it. *)
LEMMA SeedTemplatesRefines ==
    ASSUME Ind, Ind', SeedTemplates
    PROVE  UNCHANGED Store!vars
  <1>1. RecordVersions /\ UNCHANGED <<call, status, shown>> /\ pc' = pc /\ profiles' = profiles
    BY DEF SeedTemplates
  <1> QED
    BY <1>1, InvisibleRefines

(* So is the removal of a template, as the store keeps no references. *)
LEMMA RemoveTemplateRefines ==
    ASSUME Ind, Ind', NEW s \in Slug, RemoveTemplate(s)
    PROVE  UNCHANGED Store!vars
  <1>1. /\ RecordVersions /\ UNCHANGED <<call, status, shown>> /\ pc' = pc
        /\ profiles' = [i \in Request |-> IF profiles[i] # Nil /\ profiles[i].slug = s
                                          THEN [profiles[i] EXCEPT !.slug = Nil]
                                          ELSE profiles[i]]
    BY DEF RemoveTemplate
  <1>2. ASSUME NEW i \in Request, profiles[i] # Nil
        PROVE  /\ profiles'[i] # Nil
               /\ profiles'[i].user = profiles[i].user
               /\ profiles'[i].fields = profiles[i].fields
    <2>1. profiles[i] \in Row
      BY <1>2 DEF Ind, TypeOK
    <2>2. /\ profiles'[i] \in Row
          /\ profiles'[i].user = profiles[i].user
          /\ profiles'[i].fields = profiles[i].fields
      BY <1>1, <2>1 DEF Row
    <2> QED
      BY <2>2, ApiAssumption
  <1>3. \A i \in Request : profiles[i] = Nil => profiles'[i] = Nil
    BY <1>1
  <1> QED
    BY <1>1, <1>2, <1>3, InvisibleRefines

(***************************************************************************)
(* The theorem.                                                            *)
(***************************************************************************)
(* An empty table is an empty store. *)
LEMMA InitRefines == Init => Store!Init
  BY SameBlank DEF Init, Store!Init, rowsBar, phaseBar, Statements

(* Every step maps to a step of the abstract store or to a stutter. *)
LEMMA NextRefines == Ind /\ Ind' /\ [Next]_vars => [Store!Next]_(Store!vars)
  <1> SUFFICES ASSUME Ind, Ind', [Next]_vars PROVE Store!Next \/ UNCHANGED Store!vars
    OBVIOUS
  <1>1. ASSUME NEW r \in Request, Handle(r) \/ Serve(r) \/ Fault(r)
        PROVE  Store!Next \/ UNCHANGED Store!vars
    BY <1>1, HandleRefines, CreateRefines, InsertRefines, GetByIDRefines, UpdateRefines,
       ListByUserRefines, DeleteRefines, FaultRefines DEF Serve
  <1>2. CASE SeedTemplates
    BY <1>2, SeedTemplatesRefines
  <1>3. ASSUME NEW s \in Slug, RemoveTemplate(s) PROVE UNCHANGED Store!vars
    BY <1>3, RemoveTemplateRefines
  <1>4. CASE UNCHANGED vars
    BY <1>4 DEF vars, Store!vars, rowsBar, phaseBar
  <1> QED
    BY <1>1, <1>2, <1>3, <1>4 DEF Next

(* Every request takes effect in one step, with a truthful answer: the API *)
(* implements the abstract store.                                          *)
THEOREM Refinement == Spec => ImplementsStore
  BY InitRefines, NextRefines, Invariance, PTL DEF Spec, ImplementsStore, Store!Spec
=============================================================================
