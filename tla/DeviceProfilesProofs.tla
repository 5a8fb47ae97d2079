------------------------ MODULE DeviceProfilesProofs ------------------------
(***************************************************************************)
(* Proofs about DeviceProfiles, for every number of requests, users,       *)
(* fields, values and templates.  Ind is the inductive invariant: the      *)
(* properties themselves, and what each pending statement may rely on.     *)
(***************************************************************************)
EXTENDS DeviceProfiles, TLAPS

(* The statement a request is about to send fits the call it serves, and   *)
(* nothing is shown before the reply.                                      *)
CallsWellFormed ==
    \A r \in Request :
        LET c == call[r] IN
        /\ pc[r] \in {"create", "insert"} => c.op = "create"
        /\ pc[r] = "select" => c.op \in {"get", "patch"}
        /\ pc[r] = "update" => c.op = "patch" /\ c.id \in Request
        /\ pc[r] = "list" => c.op = "list"
        /\ pc[r] = "delete" => c.op = "delete"
        /\ pc[r] # "done" => shown[r] = Blank
        /\ c # Nil => /\ c.op = "create" => c.id = r /\ c.in \in Payload
                      /\ c.op = "patch" => c.in \in Payload
                      /\ c.op \in {"get", "patch", "delete"} => c.id \in Request \cup MalformedId

(* A stored row was inserted by the finished create request of its owner. *)
RowsTraceable ==
    \A i \in Request : profiles[i] # Nil =>
        pc[i] = "done" /\ call[i].op = "create" /\ call[i].user = profiles[i].user

(* A pending INSERT writes a valid profile that keeps what the client sent. *)
InsertBasis ==
    \A r \in Request : pc[r] = "insert" =>
        /\ Validate(draft[r])
        /\ \A f \in Field : call[r].in[f] # Nil => draft[r][f] = call[r].in[f]
        /\ call[r].slug = Nil => draft[r] = FromInput(call[r].in)

(* The history of a pending request holds the version stored now. *)
WindowsCurrent ==
    \A r \in Request : IF pc[r] \in Statements THEN VersionsOf(call[r].id) \subseteq window[r]
                                               ELSE window[r] = {}

Ind ==
    /\ TypeOK
    /\ CallsWellFormed
    /\ RowsTraceable
    /\ InsertBasis
    /\ UpdateBasis
    /\ WindowsCurrent
    /\ NamesUnique
    /\ RowsValid
    /\ SlugResolves
    /\ DisclosesOnlyOwn

(***************************************************************************)
(* The data operators.                                                     *)
(***************************************************************************)
(* applyPatch turns a profile and a body into a profile. *)
LEMMA PatchType ==
    ASSUME NEW base \in Fields, NEW in \in Partial
    PROVE  applyPatch(base, in) \in Fields
  BY DEF Fields, Partial, applyPatch

(* Create builds a profile from any body, and keeps what the client sent. *)
LEMMA FromInputType ==
    ASSUME NEW in \in Partial
    PROVE  /\ FromInput(in) \in Fields
           /\ \A f \in Field : in[f] # Nil => FromInput(in)[f] = in[f]
  BY DataAssumption, PatchType DEF FromInput, applyPatch, Fields

(* A template turns a body into a body, and keeps what the client sent. *)
LEMMA TemplateType ==
    ASSUME NEW in \in Partial, NEW t \in Body
    PROVE  /\ applyTemplate(in, t) \in Partial
           /\ \A f \in Field : in[f] # Nil => applyTemplate(in, t)[f] = in[f]
  BY DEF Partial, Body, applyTemplate

(* Every error has a status, and none of them reads as success. *)
LEMMA DomainErrorType ==
    ASSUME NEW errs
    PROVE  DomainError(errs) \in {"invalid_input", "duplicate_name", "not_found",
                                 "template_error", "internal_error"}
  BY DEF DomainError

(* A reply that shows no field is one of the replies. *)
LEMMA BlankType == Blank \in [Request -> Fields \cup {Nil}]
  BY DEF Blank

(* What a reply shows of profiles is typed when they are. *)
LEMMA ShowingType ==
    ASSUME NEW i \in Request, NEW fields \in Fields
    PROVE  Showing(i, fields) \in [Request -> Fields \cup {Nil}]
  BY DEF Showing, Blank

(***************************************************************************)
(* The shapes a step can have, each preserving Ind: a request arrives, a   *)
(* draft is sent to the next statement, a request is answered without a    *)
(* write, a row is written or removed.                                     *)
(***************************************************************************)
(* The history recorded by a step holds the version stored after it. *)
LEMMA RecordVersionsStep ==
    ASSUME TypeOK, RecordVersions, WindowsCurrent,
           pc' \in [Request -> Statements \cup {"idle", "done"}],
           profiles' \in [Request -> Row \cup {Nil}]
    PROVE  /\ window' \in [Request -> SUBSET Fields]
           /\ WindowsCurrent'
           /\ \A r \in Request : pc'[r] \in Statements =>
                window'[r] = window[r] \cup VersionsOf(call[r].id)'
  <1>1. ASSUME NEW i PROVE VersionsOf(i)' \subseteq Fields
    BY DEF VersionsOf, Row
  <1>2. window' \in [Request -> SUBSET Fields]
    BY <1>1 DEF RecordVersions, TypeOK
  <1>3. \A r \in Request : pc'[r] \in Statements =>
                window'[r] = window[r] \cup VersionsOf(call[r].id)'
    BY DEF RecordVersions
  <1>4. \A r \in Request : pc'[r] \notin Statements => window'[r] = {}
    BY DEF RecordVersions
  <1> QED
    BY <1>2, <1>3, <1>4 DEF WindowsCurrent, VersionsOf

(* A pending UPDATE keeps its basis while other requests make steps. *)
UpdateBasisOf(q) ==
    /\ pc[call[q].id] = "done"
    /\ call[call[q].id].op = "create" /\ call[call[q].id].user = call[q].user
    /\ Validate(draft[q])
    /\ \E base \in window[q] : draft[q] = applyPatch(base, call[q].in)

(* A PATCH between its two statements keeps its basis while rows and windows grow. *)
LEMMA PendingUpdateKeeps ==
    ASSUME Ind, RecordVersions,
           \A i \in Request : pc[i] = "done" => pc'[i] = "done" /\ call'[i] = call[i],
           NEW q \in Request, pc[q] = "update", pc'[q] = "update",
           call'[q] = call[q], draft'[q] = draft[q]
    PROVE  UpdateBasisOf(q)'
  <1>1. call[q].id \in Request /\ UpdateBasisOf(q)
    BY DEF Ind, CallsWellFormed, UpdateBasis, UpdateBasisOf
  <1>2. window[q] \subseteq window'[q]
    BY DEF RecordVersions, Statements
  <1>3. PICK base \in window[q] : draft[q] = applyPatch(base, call[q].in)
    BY <1>1 DEF UpdateBasisOf
  <1>4. \E b \in window'[q] : draft'[q] = applyPatch(b, call'[q].in)
    BY <1>2, <1>3
  <1>5. Validate(draft'[q])
    BY <1>1 DEF UpdateBasisOf
  <1> QED
    BY <1>1, <1>4, <1>5 DEF UpdateBasisOf

(* A handler starts a call that fits its first statement. *)
LEMMA ArriveKeeps ==
    ASSUME Ind, NEW r \in Request, NEW stmt \in {"create", "select", "list", "delete"},
           NEW c \in Call, Arrive(r, stmt, c),
           stmt = "create" => c.op = "create",
           stmt = "select" => c.op \in {"get", "patch"},
           stmt = "list" => c.op = "list",
           stmt = "delete" => c.op = "delete",
           c.op = "create" => c.id = r /\ c.in \in Payload,
           c.op = "patch" => c.in \in Payload,
           c.op \in {"get", "patch", "delete"} => c.id \in Request \cup MalformedId
    PROVE  Ind'
  <1> USE DEF Ind
  <1>0. c # Nil /\ pc[r] = "idle" /\ call[r] = Nil
    BY ApiAssumption DEF Arrive, TypeOK
  <1>1. /\ pc' \in [Request -> Statements \cup {"idle", "done"}]
        /\ call' \in [Request -> Call \cup {Nil}]
        /\ \A q \in Request : pc'[q] = "idle" <=> call'[q] = Nil
        /\ \A q \in Request : pc'[q] \in {"insert", "update"} <=> draft'[q] # Nil
    BY <1>0 DEF Arrive, TypeOK, Statements
  <1>2. window' \in [Request -> SUBSET Fields] /\ WindowsCurrent'
    BY <1>1, RecordVersionsStep DEF Arrive, TypeOK
  <1>3. TypeOK'
    BY <1>1, <1>2 DEF Arrive, TypeOK
  <1>4. CallsWellFormed'
    BY <1>0 DEF Arrive, TypeOK, CallsWellFormed
  <1>5. RowsTraceable'
    BY <1>0 DEF Arrive, TypeOK, RowsTraceable
  <1>6. InsertBasis'
    BY <1>0 DEF Arrive, TypeOK, InsertBasis
  <1>7. UpdateBasis'
    <2>1. \A q \in Request : pc[q] = "done" => pc'[q] = "done" /\ call'[q] = call[q]
      BY DEF Arrive, TypeOK
    <2>2. \A q \in Request : pc'[q] = "update" =>
            pc[q] = "update" /\ call'[q] = call[q] /\ draft'[q] = draft[q]
      BY <1>0 DEF Arrive, TypeOK
    <2> QED
      BY <2>1, <2>2, PendingUpdateKeeps DEF Arrive, UpdateBasis, UpdateBasisOf
  <1>8. NamesUnique' /\ RowsValid' /\ SlugResolves'
    BY DEF Arrive, NamesUnique, RowsValid, SlugResolves
  <1>9. DisclosesOnlyOwn'
    BY <1>0 DEF Arrive, TypeOK, DisclosesOnlyOwn, CallsWellFormed, Blank
  <1> QED
    BY <1>2, <1>3, <1>4, <1>5, <1>6, <1>7, <1>8, <1>9

(* A request is answered.  What the statement wrote and what the reply     *)
(* shows are as the invariant wants them.                                  *)
LEMMA ReplyKeeps ==
    ASSUME Ind, NEW r \in Request, NEW st \in Status,
           NEW view \in [Request -> Fields \cup {Nil}],
           pc[r] \in Statements, Reply(r, st, view),
           profiles' \in [Request -> Row \cup {Nil}],
           \A i \in Request : profiles'[i] # Nil =>
               /\ Validate(profiles'[i].fields)
               /\ \/ i = r /\ call[r].op = "create" /\ profiles'[i].user = call[r].user
                  \/ profiles[i] # Nil /\ profiles'[i].user = profiles[i].user,
           \A i \in Request : view[i] # Nil =>
               /\ Validate(view[i])
               /\ \/ i = r /\ call[r].op = "create"
                  \/ profiles[i] # Nil /\ profiles[i].user = call[r].user,
           NamesUnique', SlugResolves'
    PROVE  Ind'
  <1> USE DEF Ind
  <1>0. pc[r] # "idle" /\ pc[r] # "done" /\ call[r] # Nil
    BY DEF TypeOK, Statements
  <1>1. /\ pc' \in [Request -> Statements \cup {"idle", "done"}]
        /\ draft' \in [Request -> Fields \cup {Nil}]
        /\ status' \in [Request -> Status]
        /\ shown' \in [Request -> [Request -> Fields \cup {Nil}]]
        /\ \A q \in Request : pc'[q] \in {"insert", "update"} <=> draft'[q] # Nil
        /\ \A q \in Request : pc'[q] = "idle" <=> call'[q] = Nil
    BY <1>0 DEF Reply, TypeOK
  <1>2. window' \in [Request -> SUBSET Fields] /\ WindowsCurrent'
    BY <1>1, RecordVersionsStep DEF Reply
  <1>3. TypeOK'
    BY <1>1, <1>2 DEF Reply, TypeOK
  <1>4. CallsWellFormed'
    BY <1>0 DEF Reply, TypeOK, CallsWellFormed
  <1>5. RowsTraceable'
    BY <1>0 DEF Reply, TypeOK, RowsTraceable
  <1>6. InsertBasis'
    BY <1>0 DEF Reply, TypeOK, InsertBasis
  <1>7. UpdateBasis'
    <2>1. \A q \in Request : pc[q] = "done" => pc'[q] = "done" /\ call'[q] = call[q]
      BY DEF Reply, TypeOK
    <2>2. \A q \in Request : pc'[q] = "update" =>
            pc[q] = "update" /\ call'[q] = call[q] /\ draft'[q] = draft[q]
      BY <1>0 DEF Reply, TypeOK
    <2> QED
      BY <2>1, <2>2, PendingUpdateKeeps DEF Reply, UpdateBasis, UpdateBasisOf
  <1>8. RowsValid'
    BY DEF Reply, TypeOK, RowsValid
  <1>9. DisclosesOnlyOwn'
    BY <1>0 DEF Reply, TypeOK, DisclosesOnlyOwn, RowsTraceable
  <1> QED
    BY <1>2, <1>3, <1>4, <1>5, <1>6, <1>7, <1>8, <1>9

(* A request is answered without a write, and shows nothing. *)
LEMMA RefuseKeeps ==
    ASSUME Ind, NEW r \in Request, NEW errs, pc[r] \in Statements, Refuse(r, errs)
    PROVE  Ind'
  <1>1. DomainError(errs) \in Status
    BY DomainErrorType DEF Status
  <1>2. \A i \in Request : Blank[i] = Nil
    BY DEF Blank
  <1>3. profiles' = profiles /\ templates' = templates
    BY DEF Refuse, Reply
  <1>4. NamesUnique' /\ SlugResolves'
    BY <1>3 DEF Ind, NamesUnique, SlugResolves
  <1>5. \A i \in Request : profiles'[i] # Nil =>
          Validate(profiles'[i].fields) /\ profiles[i] # Nil /\ profiles'[i].user = profiles[i].user
    BY <1>3 DEF Ind, RowsValid
  <1>6. profiles' \in [Request -> Row \cup {Nil}]
    BY <1>3 DEF Ind, TypeOK
  <1>7. Reply(r, DomainError(errs), Blank)
    BY DEF Refuse
  <1> QED
    BY <1>1, <1>2, <1>4, <1>5, <1>6, <1>7, BlankType, ReplyKeeps

(* A draft goes to the INSERT or the UPDATE that will write it. *)
LEMMA SendKeeps ==
    ASSUME Ind, NEW r \in Request, NEW fields \in Fields, Validate(fields),
           NEW stmt, Send(r, stmt, fields),
           \/ /\ pc[r] = "create" /\ stmt = "insert"
              /\ \A f \in Field : call[r].in[f] # Nil => fields[f] = call[r].in[f]
              /\ call[r].slug = Nil => fields = FromInput(call[r].in)
           \/ /\ pc[r] = "select" /\ stmt = "update" /\ call[r].op = "patch"
              /\ OwnedRow(call[r].user, call[r].id)
              /\ fields = applyPatch(profiles[call[r].id].fields, call[r].in)
    PROVE  Ind'
  <1> USE DEF Ind
  <1>0. pc[r] # "done" /\ call[r] # Nil /\ fields # Nil
    BY DataAssumption DEF TypeOK, Fields
  <1>1. /\ pc' \in [Request -> Statements \cup {"idle", "done"}]
        /\ draft' \in [Request -> Fields \cup {Nil}]
        /\ \A q \in Request : pc'[q] \in {"insert", "update"} <=> draft'[q] # Nil
        /\ \A q \in Request : pc'[q] = "idle" <=> call'[q] = Nil
    BY <1>0 DEF Send, TypeOK, Statements
  <1>2. window' \in [Request -> SUBSET Fields] /\ WindowsCurrent'
    BY <1>1, RecordVersionsStep DEF Send, TypeOK
  <1>3. TypeOK'
    BY <1>1, <1>2 DEF Send, TypeOK
  <1>4. CallsWellFormed'
    BY DEF Send, TypeOK, CallsWellFormed, OwnedRow
  <1>5. RowsTraceable'
    BY <1>0 DEF Send, TypeOK, RowsTraceable
  <1>6. InsertBasis'
    <2>1. ASSUME pc'[r] = "insert"
          PROVE  /\ Validate(draft'[r])
                 /\ \A f \in Field : call'[r].in[f] # Nil => draft'[r][f] = call'[r].in[f]
                 /\ call'[r].slug = Nil => draft'[r] = FromInput(call'[r].in)
      BY <2>1 DEF Send, TypeOK
    <2> QED
      BY <2>1 DEF Send, TypeOK, InsertBasis
  <1>7. UpdateBasis'
    <2>1. \A q \in Request : pc[q] = "done" => pc'[q] = "done" /\ call'[q] = call[q]
      BY <1>0 DEF Send, TypeOK
    <2>2. ASSUME NEW q \in Request \ {r}, pc'[q] = "update" PROVE UpdateBasisOf(q)'
      BY <2>1, <2>2, PendingUpdateKeeps DEF Send, TypeOK
    <2>3. ASSUME pc'[r] = "update" PROVE UpdateBasisOf(r)'
      <3> DEFINE i == call[r].id
      <3>1. /\ pc[r] = "select" /\ OwnedRow(call[r].user, i)
            /\ fields = applyPatch(profiles[i].fields, call[r].in)
        BY <2>3 DEF Send, TypeOK
      <3>2. i \in Request /\ profiles[i] # Nil /\ profiles[i].user = call[r].user
        BY <3>1 DEF OwnedRow
      <3>3. pc[i] = "done" /\ call[i].op = "create" /\ call[i].user = call[r].user
        BY <3>2 DEF RowsTraceable
      <3>4. profiles[i].fields \in window'[r]
        BY <2>3, <3>2 DEF Send, RecordVersions, VersionsOf, Statements
      <3>5. call' = call /\ draft'[r] = fields /\ pc'[i] = "done"
        BY <1>0, <2>1, <3>2, <3>3 DEF Send, TypeOK
      <3>6. \E b \in window'[r] : draft'[r] = applyPatch(b, call'[r].in)
        BY <3>1, <3>4, <3>5
      <3>7. Validate(draft'[r])
        BY <3>5
      <3> QED
        BY <3>3, <3>5, <3>6, <3>7 DEF UpdateBasisOf
    <2> QED
      BY <2>2, <2>3 DEF UpdateBasis, UpdateBasisOf
  <1>8. NamesUnique' /\ RowsValid' /\ SlugResolves' /\ DisclosesOnlyOwn'
    BY DEF Send, NamesUnique, RowsValid, SlugResolves, DisclosesOnlyOwn
  <1> QED
    BY <1>2, <1>3, <1>4, <1>5, <1>6, <1>7, <1>8

(* A write is answered with its outcome or, its acknowledgement lost, with *)
(* an error: what it shows is the written profile or nothing.              *)
LEMMA ReplyToWriteKeeps ==
    ASSUME Ind, NEW r \in Request, NEW st \in Status,
           NEW view \in [Request -> Fields \cup {Nil}],
           pc[r] \in Statements, ReplyToWrite(r, st, view),
           profiles' \in [Request -> Row \cup {Nil}],
           \A i \in Request : profiles'[i] # Nil =>
               /\ Validate(profiles'[i].fields)
               /\ \/ i = r /\ call[r].op = "create" /\ profiles'[i].user = call[r].user
                  \/ profiles[i] # Nil /\ profiles'[i].user = profiles[i].user,
           \A i \in Request : view[i] # Nil =>
               /\ Validate(view[i])
               /\ \/ i = r /\ call[r].op = "create"
                  \/ profiles[i] # Nil /\ profiles[i].user = call[r].user,
           NamesUnique', SlugResolves'
    PROVE  Ind'
  <1>1. DomainError({}) \in Status
    BY DomainErrorType DEF Status
  <1>2. \A i \in Request : Blank[i] = Nil
    BY DEF Blank
  <1>3. CASE Reply(r, st, view)
    BY <1>3, ReplyKeeps
  <1>4. CASE Reply(r, DomainError({}), Blank)
    BY <1>1, <1>2, <1>4, BlankType, ReplyKeeps
  <1> QED
    BY <1>3, <1>4 DEF ReplyToWrite

(***************************************************************************)
(* The actions.                                                            *)
(***************************************************************************)
LEMMA HandleKeeps ==
    ASSUME Ind, NEW r \in Request, Handle(r)
    PROVE  Ind'
  <1>1. CASE CreateDeviceProfile(r)
    <2>1. PICK u \in User, in \in Payload, s \in Slug \cup {Nil} :
            Arrive(r, "create", [op |-> "create", user |-> u, id |-> r, in |-> in, slug |-> s])
      BY <1>1 DEF CreateDeviceProfile
    <2> DEFINE c == [op |-> "create", user |-> u, id |-> r, in |-> in, slug |-> s]
    <2>2. c \in Call
      BY DEF Call
    <2> QED
      BY <2>1, <2>2, ArriveKeeps
  <1>2. CASE GetDeviceProfile(r)
    <2>1. PICK u \in User, i \in Request \cup MalformedId :
            Arrive(r, "select", [op |-> "get", user |-> u, id |-> i, in |-> Nil, slug |-> Nil])
      BY <1>2 DEF GetDeviceProfile
    <2> DEFINE c == [op |-> "get", user |-> u, id |-> i, in |-> Nil, slug |-> Nil]
    <2>2. c \in Call
      BY DEF Call
    <2> QED
      BY <2>1, <2>2, ArriveKeeps
  <1>3. CASE ListDeviceProfiles(r)
    <2>1. PICK u \in User :
            Arrive(r, "list", [op |-> "list", user |-> u, id |-> Nil, in |-> Nil, slug |-> Nil])
      BY <1>3 DEF ListDeviceProfiles
    <2> DEFINE c == [op |-> "list", user |-> u, id |-> Nil, in |-> Nil, slug |-> Nil]
    <2>2. c \in Call
      BY DEF Call
    <2> QED
      BY <2>1, <2>2, ArriveKeeps
  <1>4. CASE PatchDeviceProfile(r)
    <2>1. PICK u \in User, i \in Request \cup MalformedId, in \in Payload :
            Arrive(r, "select", [op |-> "patch", user |-> u, id |-> i, in |-> in, slug |-> Nil])
      BY <1>4 DEF PatchDeviceProfile
    <2> DEFINE c == [op |-> "patch", user |-> u, id |-> i, in |-> in, slug |-> Nil]
    <2>2. c \in Call
      BY DEF Call
    <2> QED
      BY <2>1, <2>2, ArriveKeeps
  <1>5. CASE DeleteDeviceProfile(r)
    <2>1. PICK u \in User, i \in Request \cup MalformedId :
            Arrive(r, "delete", [op |-> "delete", user |-> u, id |-> i, in |-> Nil, slug |-> Nil])
      BY <1>5 DEF DeleteDeviceProfile
    <2> DEFINE c == [op |-> "delete", user |-> u, id |-> i, in |-> Nil, slug |-> Nil]
    <2>2. c \in Call
      BY DEF Call
    <2> QED
      BY <2>1, <2>2, ArriveKeeps
  <1> QED
    BY <1>1, <1>2, <1>3, <1>4, <1>5 DEF Handle

(* Create: the draft keeps what the client sent, whatever the template holds. *)
LEMMA CreateKeeps ==
    ASSUME Ind, NEW r \in Request, Create(r)
    PROVE  Ind'
  <1> DEFINE in == call[r].in
             s  == call[r].slug
  <1>1. pc[r] = "create" /\ pc[r] \in Statements /\ call[r] \in Call /\ in \in Partial
    <2>1. pc[r] = "create" /\ call[r] # Nil
      BY DEF Create, Ind, TypeOK
    <2>2. call[r] \in Call /\ in \in Payload
      BY <2>1 DEF Ind, TypeOK, CallsWellFormed
    <2> QED
      BY <2>1, <2>2, ApiAssumption DEF Statements
  <1>2. CASE s = Nil /\ Submit(r, "insert", FromInput(in))
    <2>1. CASE Validate(FromInput(in)) /\ Send(r, "insert", FromInput(in))
      BY <1>1, <1>2, <2>1, FromInputType, SendKeeps
    <2>2. CASE Refuse(r, {"ErrInvalidInput"})
      BY <1>1, <2>2, RefuseKeeps
    <2> QED
      BY <1>2, <2>1, <2>2 DEF Submit
  <1>3. CASE s # Nil /\ templates[s] # Nil
             /\ Submit(r, "insert", FromInput(applyTemplate(in, templates[s])))
    <2> DEFINE filled == applyTemplate(in, templates[s])
    <2>1. templates[s] \in Body
      BY <1>1, <1>3 DEF Ind, TypeOK, Call
    <2>2. filled \in Partial /\ \A f \in Field : in[f] # Nil => filled[f] = in[f]
      BY <1>1, <2>1, TemplateType
    <2>3. FromInput(filled) \in Fields
      BY <2>2, FromInputType
    <2>4. \A f \in Field : in[f] # Nil => FromInput(filled)[f] = in[f]
      BY <2>2, FromInputType
    <2>5. CASE Validate(FromInput(filled)) /\ Send(r, "insert", FromInput(filled))
      BY <1>1, <1>3, <2>3, <2>4, <2>5, SendKeeps
    <2>6. CASE Refuse(r, {"ErrInvalidInput"})
      BY <1>1, <2>6, RefuseKeeps
    <2> QED
      BY <1>3, <2>5, <2>6 DEF Submit
  <1>4. CASE Refuse(r, {"ErrTemplate", "ErrNotFound"})
    BY <1>1, <1>4, RefuseKeeps
  <1> QED
    BY <1>2, <1>3, <1>4 DEF Create

(* Insert: the two constraints of the table keep names unique and slugs resolvable. *)
LEMMA InsertKeeps ==
    ASSUME Ind, NEW r \in Request, Insert(r)
    PROVE  Ind'
  <1> DEFINE u == call[r].user
             s == call[r].slug
             row == [user |-> u, fields |-> draft[r], slug |-> s]
  <1>1. /\ pc[r] = "insert" /\ pc[r] \in Statements /\ call[r] \in Call
        /\ call[r].op = "create" /\ draft[r] \in Fields /\ Validate(draft[r])
    <2>1. pc[r] = "insert"
      BY DEF Insert
    <2>2. call[r] \in Call /\ draft[r] \in Fields
      BY <2>1 DEF Ind, TypeOK
    <2> QED
      BY <2>1, <2>2 DEF Ind, CallsWellFormed, InsertBasis, Statements
  <1>2. ASSUME NEW errs, Refuse(r, errs) PROVE Ind'
    BY <1>1, <1>2, RefuseKeeps
  <1>3. CASE /\ ~NameTaken(u, draft[r]["name"], r) /\ ~SlugMissing(s)
             /\ profiles' = [profiles EXCEPT ![r] = row]
             /\ ReplyToWrite(r, "created", Showing(r, draft[r]))
    <2>1. row \in Row /\ templates' = templates
      BY <1>1, <1>3 DEF Row, Call, ReplyToWrite, Reply
    <2>2. /\ profiles' \in [Request -> Row \cup {Nil}]
          /\ profiles'[r] = row
          /\ \A i \in Request \ {r} : profiles'[i] = profiles[i]
      BY <1>3, <2>1 DEF Ind, TypeOK
    <2>3. \A i \in Request : profiles'[i] # Nil =>
               /\ Validate(profiles'[i].fields)
               /\ \/ i = r /\ call[r].op = "create" /\ profiles'[i].user = call[r].user
                  \/ profiles[i] # Nil /\ profiles'[i].user = profiles[i].user
      BY <1>1, <2>2 DEF Ind, RowsValid
    <2>4. NamesUnique'
      BY <1>3, <2>2 DEF Ind, NamesUnique, NameTaken
    <2>5. SlugResolves'
      BY <1>3, <2>1, <2>2 DEF Ind, SlugResolves, SlugMissing
    <2>6. \A i \in Request : Showing(r, draft[r])[i] # Nil =>
            Validate(Showing(r, draft[r])[i]) /\ i = r /\ call[r].op = "create"
      BY <1>1 DEF Showing, Blank
    <2>7. "created" \in Status /\ Showing(r, draft[r]) \in [Request -> Fields \cup {Nil}]
      BY <1>1, ShowingType DEF Status
    <2> QED
      BY <1>1, <1>3, <2>2, <2>3, <2>4, <2>5, <2>6, <2>7, ReplyToWriteKeeps
  <1> QED
    BY <1>2, <1>3 DEF Insert

(* The SELECT: a GET shows the caller's own row, a PATCH starts from it. *)
LEMMA GetByIDKeeps ==
    ASSUME Ind, NEW r \in Request, GetByID(r)
    PROVE  Ind'
  <1> DEFINE u == call[r].user
             i == call[r].id
  <1>1. pc[r] = "select" /\ pc[r] \in Statements
    BY DEF GetByID, Statements
  <1>2. ASSUME NEW errs, Refuse(r, errs) PROVE Ind'
    BY <1>1, <1>2, RefuseKeeps
  <1>3. ASSUME OwnedRow(u, i)
        PROVE  /\ i \in Request /\ profiles[i] # Nil /\ profiles[i].user = u
               /\ profiles[i].fields \in Fields /\ Validate(profiles[i].fields)
    BY <1>3 DEF OwnedRow, Ind, TypeOK, Row, RowsValid
  <1>4. CASE /\ OwnedRow(u, i) /\ UNCHANGED profiles
             /\ Reply(r, "ok", Showing(i, profiles[i].fields))
    <2>1. templates' = templates /\ profiles' = profiles
      BY <1>4 DEF Reply
    <2>2. NamesUnique' /\ SlugResolves' /\ profiles' \in [Request -> Row \cup {Nil}]
      BY <2>1 DEF Ind, NamesUnique, SlugResolves, TypeOK
    <2>3. \A j \in Request : profiles'[j] # Nil =>
            Validate(profiles'[j].fields) /\ profiles[j] # Nil /\ profiles'[j].user = profiles[j].user
      BY <2>1 DEF Ind, RowsValid
    <2>4. \A j \in Request : Showing(i, profiles[i].fields)[j] # Nil =>
            j = i /\ Validate(Showing(i, profiles[i].fields)[j])
      BY <1>3, <1>4 DEF Showing, Blank
    <2>5. "ok" \in Status /\ Showing(i, profiles[i].fields) \in [Request -> Fields \cup {Nil}]
      BY <1>3, <1>4, ShowingType DEF Status
    <2> QED
      BY <1>1, <1>3, <1>4, <2>2, <2>3, <2>4, <2>5, ReplyKeeps
  <1>5. CASE /\ OwnedRow(u, i) /\ call[r].op = "patch"
             /\ Submit(r, "update", applyPatch(profiles[i].fields, call[r].in))
    <2> DEFINE fields == applyPatch(profiles[i].fields, call[r].in)
    <2>1. call[r].in \in Partial
      <3>1. call[r] # Nil /\ call[r].in \in Payload
        BY <1>1, <1>5 DEF Ind, TypeOK, CallsWellFormed
      <3> QED
        BY <3>1, ApiAssumption
    <2>2. fields \in Fields
      BY <1>3, <1>5, <2>1, PatchType
    <2>3. CASE Validate(fields) /\ Send(r, "update", fields)
      BY <1>1, <1>5, <2>2, <2>3, SendKeeps
    <2> QED
      BY <1>2, <1>5, <2>3 DEF Submit
  <1> QED
    BY <1>2, <1>4, <1>5 DEF GetByID

(* The UPDATE: the row is still there, still the caller's, and the name free. *)
LEMMA UpdateKeeps ==
    ASSUME Ind, NEW r \in Request, Update(r)
    PROVE  Ind'
  <1> DEFINE u == call[r].user
             i == call[r].id
  <1>1. /\ pc[r] = "update" /\ pc[r] \in Statements
        /\ draft[r] \in Fields /\ Validate(draft[r])
    <2>1. pc[r] = "update" /\ draft[r] # Nil
      BY DEF Update, Ind, TypeOK
    <2> QED
      BY <2>1 DEF Ind, TypeOK, UpdateBasis, Statements
  <1>2. ASSUME NEW errs, Refuse(r, errs) PROVE Ind'
    BY <1>1, <1>2, RefuseKeeps
  <1>3. CASE /\ OwnedRow(u, i) /\ ~NameTaken(u, draft[r]["name"], i)
             /\ profiles' = [profiles EXCEPT ![i].fields = draft[r]]
             /\ ReplyToWrite(r, "ok", Showing(i, draft[r]))
    <2>1. i \in Request /\ profiles[i] \in Row /\ profiles[i] # Nil /\ profiles[i].user = u
      BY <1>3 DEF OwnedRow, Ind, TypeOK
    <2>2. /\ profiles'[i] = [user |-> u, fields |-> draft[r], slug |-> profiles[i].slug]
          /\ \A j \in Request \ {i} : profiles'[j] = profiles[j]
      BY <1>3, <2>1 DEF Ind, TypeOK, Row
    <2>3. profiles'[i] \in Row
      BY <1>1, <2>1, <2>2 DEF Row
    <2>4. profiles' \in [Request -> Row \cup {Nil}]
      <3>1. DOMAIN profiles' = Request /\ profiles' = [j \in Request |-> profiles'[j]]
        BY <1>3 DEF Ind, TypeOK
      <3>2. \A j \in Request : profiles'[j] \in Row \cup {Nil}
        BY <2>2, <2>3 DEF Ind, TypeOK
      <3> QED
        BY <3>1, <3>2
    <2>5. \A j \in Request : profiles'[j] # Nil =>
            Validate(profiles'[j].fields) /\ profiles[j] # Nil /\ profiles'[j].user = profiles[j].user
      BY <1>1, <2>1, <2>2 DEF Ind, RowsValid
    <2>6. NamesUnique'
      BY <1>3, <2>1, <2>2 DEF Ind, NamesUnique, NameTaken
    <2>7. SlugResolves'
      <3>1. templates' = templates
        BY <1>3 DEF ReplyToWrite, Reply
      <3> QED
        BY <2>1, <2>2, <3>1 DEF Ind, SlugResolves
    <2>8. \A j \in Request : Showing(i, draft[r])[j] # Nil =>
            j = i /\ Validate(Showing(i, draft[r])[j])
      BY <1>1, <2>1 DEF Showing, Blank
    <2>9. "ok" \in Status /\ Showing(i, draft[r]) \in [Request -> Fields \cup {Nil}]
      BY <1>1, <2>1, ShowingType DEF Status
    <2> QED
      BY <1>1, <1>3, <2>1, <2>4, <2>5, <2>6, <2>7, <2>8, <2>9, ReplyToWriteKeeps
  <1> QED
    BY <1>2, <1>3 DEF Update

(* A listing shows rows of its caller and changes none. *)
LEMMA ListByUserKeeps ==
    ASSUME Ind, NEW r \in Request, ListByUser(r)
    PROVE  Ind'
  <1>1. pc[r] = "list" /\ pc[r] \in Statements /\ profiles' = profiles
    BY DEF ListByUser, Statements
  <1>2. PICK page \in SUBSET {i \in Request : OwnedRow(call[r].user, i)} :
          Reply(r, "ok", [i \in Request |-> IF i \in page THEN profiles[i].fields ELSE Nil])
    BY DEF ListByUser
  <1> DEFINE view == [i \in Request |-> IF i \in page THEN profiles[i].fields ELSE Nil]
  <1>3. \A i \in page : /\ i \in Request /\ profiles[i] # Nil /\ profiles[i].user = call[r].user
                        /\ profiles[i].fields \in Fields /\ Validate(profiles[i].fields)
    BY <1>2 DEF OwnedRow, Ind, TypeOK, Row, RowsValid
  <1>4. view \in [Request -> Fields \cup {Nil}] /\ "ok" \in Status
    BY <1>3 DEF Status
  <1>5. \A i \in Request : view[i] # Nil =>
          Validate(view[i]) /\ profiles[i] # Nil /\ profiles[i].user = call[r].user
    BY <1>3
  <1>6. templates' = templates
    BY <1>2 DEF Reply
  <1>7. NamesUnique' /\ SlugResolves' /\ profiles' \in [Request -> Row \cup {Nil}]
    BY <1>1, <1>6 DEF Ind, NamesUnique, SlugResolves, TypeOK
  <1>8. \A j \in Request : profiles'[j] # Nil =>
          Validate(profiles'[j].fields) /\ profiles[j] # Nil /\ profiles'[j].user = profiles[j].user
    BY <1>1 DEF Ind, RowsValid
  <1> HIDE DEF view
  <1> QED
    BY <1>1, <1>2, <1>4, <1>5, <1>7, <1>8, ReplyKeeps DEF view

(* A DELETE removes one row of its caller, or none. *)
LEMMA DeleteKeeps ==
    ASSUME Ind, NEW r \in Request, Delete(r)
    PROVE  Ind'
  <1>1. pc[r] = "delete" /\ pc[r] \in Statements
    BY DEF Delete, Statements
  <1>2. ASSUME NEW errs, Refuse(r, errs) PROVE Ind'
    BY <1>1, <1>2, RefuseKeeps
  <1>3. CASE /\ OwnedRow(call[r].user, call[r].id)
             /\ profiles' = [profiles EXCEPT ![call[r].id] = Nil]
             /\ ReplyToWrite(r, "no_content", Blank)
    <2>1. /\ profiles' \in [Request -> Row \cup {Nil}]
          /\ \A i \in Request : profiles'[i] # Nil => profiles'[i] = profiles[i]
      BY <1>3 DEF Ind, TypeOK
    <2>2. templates' = templates
      BY <1>3 DEF ReplyToWrite, Reply
    <2>3. NamesUnique' /\ SlugResolves'
      BY <2>1, <2>2 DEF Ind, NamesUnique, SlugResolves
    <2>4. \A j \in Request : profiles'[j] # Nil =>
            Validate(profiles'[j].fields) /\ profiles[j] # Nil /\ profiles'[j].user = profiles[j].user
      BY <2>1 DEF Ind, RowsValid
    <2>5. "no_content" \in Status /\ \A i \in Request : Blank[i] = Nil
      BY DEF Status, Blank
    <2> QED
      BY <1>1, <1>3, <2>1, <2>3, <2>4, <2>5, BlankType, ReplyToWriteKeeps
  <1> QED
    BY <1>2, <1>3 DEF Delete

(* A failed statement changes no row; a write that took effect kept the invariant. *)
LEMMA FaultKeeps ==
    ASSUME Ind, NEW r \in Request, Fault(r)
    PROVE  Ind'
  BY RefuseKeeps DEF Fault, Statements

(* Seeding and removing templates leave requests and profiles alone, but   *)
(* for the slug of the profiles that refer to a removed template.          *)
LEMMA TemplatesKeep ==
    ASSUME Ind, UNCHANGED <<pc, call, draft, status, shown>>, RecordVersions,
           profiles' \in [Request -> Row \cup {Nil}],
           templates' \in [Slug -> Body \cup {Nil}],
           \A i \in Request :
               /\ profiles'[i] = Nil <=> profiles[i] = Nil
               /\ profiles[i] # Nil => /\ profiles'[i].user = profiles[i].user
                                       /\ profiles'[i].fields = profiles[i].fields,
           SlugResolves'
    PROVE  Ind'
  <1> USE DEF Ind
  <1>1. window' \in [Request -> SUBSET Fields] /\ WindowsCurrent'
    BY RecordVersionsStep DEF TypeOK
  <1>2. TypeOK'
    BY <1>1 DEF TypeOK
  <1>3. CallsWellFormed' /\ InsertBasis' /\ DisclosesOnlyOwn'
    BY DEF CallsWellFormed, InsertBasis, DisclosesOnlyOwn
  <1>4. RowsTraceable' /\ RowsValid' /\ NamesUnique'
    BY DEF RowsTraceable, RowsValid, NamesUnique
  <1>5. UpdateBasis'
    BY PendingUpdateKeeps DEF UpdateBasis, UpdateBasisOf
  <1> QED
    BY <1>1, <1>2, <1>3, <1>4, <1>5

(* The seeder only changes templates, and no slug disappears. *)
LEMMA SeedTemplatesKeeps ==
    ASSUME Ind, SeedTemplates
    PROVE  Ind'
  <1>1. PICK catalog \in Catalogs, mode \in {"skip", "update", "fail"} :
          templates' = Seeded(catalog, mode)
    BY DEF SeedTemplates
  <1>2. profiles' = profiles /\ UNCHANGED <<pc, call, draft, status, shown>> /\ RecordVersions
    BY DEF SeedTemplates
  <1>3. catalog \in [Slug -> Body \cup {Nil}]
    BY ApiAssumption
  <1>4. /\ templates' \in [Slug -> Body \cup {Nil}]
        /\ \A s \in Slug : templates[s] # Nil => templates'[s] # Nil
    BY <1>1, <1>3 DEF Seeded, Ind, TypeOK
  <1>5. SlugResolves' /\ profiles' \in [Request -> Row \cup {Nil}]
    BY <1>2, <1>4 DEF Ind, SlugResolves, TypeOK, Row
  <1> QED
    BY <1>2, <1>4, <1>5, TemplatesKeep

(* A template goes, and with it the references to it. *)
LEMMA RemoveTemplateKeeps ==
    ASSUME Ind, NEW s \in Slug, RemoveTemplate(s)
    PROVE  Ind'
  <1>1. /\ UNCHANGED <<pc, call, draft, status, shown>> /\ RecordVersions
        /\ templates' = [templates EXCEPT ![s] = Nil]
        /\ profiles' = [i \in Request |-> IF profiles[i] # Nil /\ profiles[i].slug = s
                                          THEN [profiles[i] EXCEPT !.slug = Nil]
                                          ELSE profiles[i]]
    BY DEF RemoveTemplate
  <1>2. templates' \in [Slug -> Body \cup {Nil}]
    BY <1>1 DEF Ind, TypeOK
  <1>3. \A i \in Request : profiles[i] # Nil =>
          /\ profiles'[i] \in Row
          /\ profiles'[i].user = profiles[i].user
          /\ profiles'[i].fields = profiles[i].fields
          /\ profiles'[i].slug = IF profiles[i].slug = s THEN Nil ELSE profiles[i].slug
    BY <1>1 DEF Ind, TypeOK, Row
  <1>4. \A i \in Request : profiles'[i] = Nil <=> profiles[i] = Nil
    BY <1>1, <1>3, ApiAssumption
  <1>5. profiles' \in [Request -> Row \cup {Nil}]
    <2>1. \A i \in Request : profiles'[i] \in Row \cup {Nil}
      BY <1>3, <1>4
    <2> QED
      BY <1>1, <2>1
  <1>6. SlugResolves'
    BY <1>1, <1>3, <1>4 DEF Ind, SlugResolves, TypeOK
  <1> QED
    BY <1>1, <1>2, <1>3, <1>4, <1>5, <1>6, TemplatesKeep

(***************************************************************************)
(* The theorems.                                                           *)
(***************************************************************************)
LEMMA InitInd == Init => Ind
  <1> SUFFICES ASSUME Init PROVE Ind
    OBVIOUS
  <1>1. TypeOK
    BY BlankType DEF Init, TypeOK, Statements, Status
  <1>2. CallsWellFormed /\ RowsTraceable /\ InsertBasis /\ UpdateBasis
    BY DEF Init, CallsWellFormed, RowsTraceable, InsertBasis, UpdateBasis
  <1>3. WindowsCurrent /\ NamesUnique /\ RowsValid /\ SlugResolves /\ DisclosesOnlyOwn
    BY DEF Init, Blank, WindowsCurrent, NamesUnique, RowsValid, SlugResolves, DisclosesOnlyOwn,
           Statements
  <1> QED
    BY <1>1, <1>2, <1>3 DEF Ind

(* Every step preserves the inductive invariant. *)
LEMMA NextInd == Ind /\ [Next]_vars => Ind'
  <1> SUFFICES ASSUME Ind, [Next]_vars PROVE Ind'
    OBVIOUS
  <1>1. ASSUME NEW r \in Request, Handle(r) \/ Serve(r) \/ Fault(r) PROVE Ind'
    BY <1>1, HandleKeeps, CreateKeeps, InsertKeeps, GetByIDKeeps, UpdateKeeps,
       ListByUserKeeps, DeleteKeeps, FaultKeeps DEF Serve
  <1>2. CASE SeedTemplates
    BY <1>2, SeedTemplatesKeeps
  <1>3. ASSUME NEW s \in Slug, RemoveTemplate(s) PROVE Ind'
    BY <1>3, RemoveTemplateKeeps
  <1>4. CASE UNCHANGED vars
    <2> USE <1>4 DEF vars, Ind
    <2>1. TypeOK' /\ CallsWellFormed' /\ RowsTraceable' /\ InsertBasis'
      BY DEF TypeOK, CallsWellFormed, RowsTraceable, InsertBasis
    <2>2. UpdateBasis' /\ NamesUnique' /\ RowsValid' /\ SlugResolves'
      BY DEF UpdateBasis, NamesUnique, RowsValid, SlugResolves
    <2>3. WindowsCurrent' /\ DisclosesOnlyOwn'
      BY DEF WindowsCurrent, VersionsOf, DisclosesOnlyOwn
    <2> QED
      BY <2>1, <2>2, <2>3
  <1> QED
    BY <1>1, <1>2, <1>3, <1>4 DEF Next

(* Ind holds in every reachable state. *)
THEOREM Invariance == Spec => []Ind
  BY InitInd, NextInd, PTL DEF Spec

(* Types, and a draft exactly while its INSERT or UPDATE is pending. *)
THEOREM TypeCorrect == Spec => []TypeOK
  <1>1. Ind => TypeOK
    BY DEF Ind
  <1> QED
    BY <1>1, Invariance, PTL

(* No interleaving gives a user two profiles of the same name. *)
THEOREM NamesStayUnique == Spec => []NamesUnique
  <1>1. Ind => NamesUnique
    BY DEF Ind
  <1> QED
    BY <1>1, Invariance, PTL

(* What is stored and what is shown is valid. *)
THEOREM RowsStayValid == Spec => []RowsValid
  <1>1. Ind => RowsValid
    BY DEF Ind
  <1> QED
    BY <1>1, Invariance, PTL

(* No stored profile refers to a template that is gone. *)
THEOREM SlugsResolve == Spec => []SlugResolves
  <1>1. Ind => SlugResolves
    BY DEF Ind
  <1> QED
    BY <1>1, Invariance, PTL

(* A reply shows only profiles its caller created. *)
THEOREM OwnershipIsPrivate == Spec => []DisclosesOnlyOwn
  <1>1. Ind => DisclosesOnlyOwn
    BY DEF Ind
  <1> QED
    BY <1>1, Invariance, PTL

(* A pending UPDATE rests on a version current since the request arrived. *)
THEOREM UpdatesHaveBasis == Spec => []UpdateBasis
  <1>1. Ind => UpdateBasis
    BY DEF Ind
  <1> QED
    BY <1>1, Invariance, PTL
=============================================================================
