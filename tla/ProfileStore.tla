---------------------------- MODULE ProfileStore ----------------------------
(***************************************************************************)
(* What the device-profile API promises its clients, without statements,   *)
(* handlers or templates: every request that is accepted takes effect in   *)
(* one step, some time between its arrival and its reply, on a set of      *)
(* profiles owned by users; a refused request changes nothing and names a  *)
(* reason that is true at that step.                                       *)
(*                                                                         *)
(* The promise about PATCH is the weakest the code keeps: the omitted      *)
(* fields take the values of a version that was current at some moment     *)
(* while the request was being served, not of the version it replaces.     *)
(***************************************************************************)
EXTENDS ProfileData

CONSTANTS Request, User, Slug, MalformedId, Payload,
          Faults        \* whether the database may fail

VARIABLES
    rows,       \* rows[i]: owner and fields of profile i, or Nil
    phase,      \* phase[r]: "idle", "pending" or "done"
    call,       \* call[r]: what the client asked for
    status,     \* status[r]: the outcome the reply reports
    shown,      \* shown[r][i]: what the reply says of profile i, or Nil
    window      \* window[r]: versions of the profile r names, current while r is pending

vars == <<rows, phase, call, status, shown, window>>

Visible(u, i) == i \in Request /\ rows[i] # Nil /\ rows[i].user = u

Taken(u, name, i) ==
    \E j \in Request \ {i} : rows[j] # Nil /\ rows[j].user = u /\ rows[j].fields["name"] = name

Blank == [i \in Request |-> Nil]
Showing(i, fields) == [Blank EXCEPT ![i] = fields]

Arrive(r) ==
    /\ phase[r] = "idle"
    /\ phase' = [phase EXCEPT ![r] = "pending"]
    /\ \E op \in {"create", "get", "list", "patch", "delete"}, u \in User,
          i \in Request \cup MalformedId \cup {Nil},
          in \in Payload \cup {Nil}, s \in Slug \cup {Nil} :
         /\ op = "create" => i = r /\ in # Nil
         /\ op = "patch" => in # Nil
         /\ call' = [call EXCEPT ![r] = [op |-> op, user |-> u, id |-> i, in |-> in, slug |-> s]]
    /\ UNCHANGED <<rows, status, shown>>

Reply(r, st, view) ==
    /\ phase' = [phase EXCEPT ![r] = "done"]
    /\ status' = [status EXCEPT ![r] = st]
    /\ shown' = [shown EXCEPT ![r] = view]
    /\ UNCHANGED call

(* The client of a write learns the outcome, or, when the database fails,  *)
(* only that something did.                                                *)
ReplyToWrite(r, st, view) ==
    \/ Reply(r, st, view)
    \/ Faults /\ Reply(r, "internal_error", Blank)

(* A new profile keeps every field the client sent; only a template may    *)
(* supply the others.                                                      *)
Create(r) ==
    /\ call[r].op = "create"
    /\ \E fields \in Fields :
         /\ Validate(fields)
         /\ \A f \in Field : call[r].in[f] # Nil => fields[f] = call[r].in[f]
         /\ call[r].slug = Nil => fields = FromInput(call[r].in)
         /\ ~Taken(call[r].user, fields["name"], r)
         /\ rows' = [rows EXCEPT ![r] = [user |-> call[r].user, fields |-> fields]]
         /\ ReplyToWrite(r, "created", Showing(r, fields))

Patch(r) ==
    /\ call[r].op = "patch" /\ Visible(call[r].user, call[r].id)
    /\ \E base \in window[r] :
         LET fields == applyPatch(base, call[r].in) IN
         /\ Validate(fields)
         /\ ~Taken(call[r].user, fields["name"], call[r].id)
         /\ rows' = [rows EXCEPT ![call[r].id] = [user |-> call[r].user, fields |-> fields]]
         /\ ReplyToWrite(r, "ok", Showing(call[r].id, fields))

Delete(r) ==
    /\ call[r].op = "delete" /\ Visible(call[r].user, call[r].id)
    /\ rows' = [rows EXCEPT ![call[r].id] = Nil]
    /\ ReplyToWrite(r, "no_content", Blank)

Get(r) ==
    /\ call[r].op = "get" /\ Visible(call[r].user, call[r].id)
    /\ Reply(r, "ok", Showing(call[r].id, rows[call[r].id].fields))
    /\ UNCHANGED rows

List(r) ==
    /\ call[r].op = "list"
    /\ \E page \in SUBSET {i \in Request : Visible(call[r].user, i)} :
         Reply(r, "ok", [i \in Request |-> IF i \in page THEN rows[i].fields ELSE Nil])
    /\ UNCHANGED rows

(* When a refusal is truthful.  A missing profile is a miss and never a     *)
(* failure; an id that is no id at all is a failure and never a miss.  A   *)
(* template that cannot be looked up is blamed on the client, as an unknown *)
(* one is; one that goes while it is being used is not.                    *)
Justified(r, reason) ==
    LET c == call[r]
        named == c.op \in {"get", "patch", "delete"}
        templated == c.op = "create" /\ c.slug # Nil
    IN
    \/ /\ reason = "not_found"
       /\ \/ named /\ c.id \notin MalformedId /\ ~Visible(c.user, c.id)
          \/ templated
    \/ /\ reason = "duplicate_name"
       /\ \/ /\ c.op = "create"
             /\ \E name \in Value : /\ Taken(c.user, name, r)
                                    /\ c.in["name"] \in {name, Nil}
          \/ /\ c.op = "patch" /\ Visible(c.user, c.id)
             /\ \E base \in window[r] : Taken(c.user, applyPatch(base, c.in)["name"], c.id)
    \/ /\ reason = "invalid_input"
       /\ \/ c.op = "create" /\ (c.slug = Nil => ~Validate(FromInput(c.in)))
          \/ /\ c.op = "patch" /\ Visible(c.user, c.id)
             /\ ~Validate(applyPatch(rows[c.id].fields, c.in))
    \/ reason = "template_error" /\ Faults /\ templated
    \/ /\ reason = "internal_error"
       /\ Faults \/ templated \/ (named /\ c.id \in MalformedId)

Refuse(r) ==
    /\ \E reason \in {"not_found", "duplicate_name", "invalid_input", "template_error",
                      "internal_error"} :
         Justified(r, reason) /\ Reply(r, reason, Blank)
    /\ UNCHANGED rows

VersionsOf(i) == IF i \in Request /\ rows[i] # Nil THEN {rows[i].fields} ELSE {}

RecordVersions ==
    window' = [r \in Request |-> IF phase'[r] = "pending"
                                 THEN window[r] \cup VersionsOf(call[r].id)' ELSE {}]

Init ==
    /\ rows = [i \in Request |-> Nil]
    /\ phase = [r \in Request |-> "idle"]
    /\ call = [r \in Request |-> Nil]
    /\ status = [r \in Request |-> "none"]
    /\ shown = [r \in Request |-> Blank]
    /\ window = [r \in Request |-> {}]

Serve(r) ==
    /\ phase[r] = "pending"
    /\ Create(r) \/ Patch(r) \/ Delete(r) \/ Get(r) \/ List(r) \/ Refuse(r)

Next == /\ \E r \in Request : Arrive(r) \/ Serve(r)
        /\ RecordVersions

Spec == Init /\ [][Next]_vars
=============================================================================
