--------------------------- MODULE ProfilesPort ---------------------------
(***************************************************************************)
(* What the service may expect of a store of device profiles, whichever    *)
(* adapter is behind the port: one set of rows, and an answer to each call *)
(* that is decided by those rows alone.                                    *)
(***************************************************************************)
EXTENDS Integers, FiniteSets

CONSTANTS
    ID,         \* identifiers of profiles
    User,
    Name,
    Body,       \* everything else in a profile
    RawPage,    \* what clients ask for: records with limit and offset
    MaxLimit    \* the longest page

VARIABLES
    rows,       \* the profiles, by id
    reply       \* the answer to the last call: a result and the profiles shown

vars == <<rows, reply>>

Profile == [ID : ID, UserID : User, Name : Name, Body : Body]
Answer(result, profiles) == reply' = [result |-> result, profiles |-> profiles]

Owned(user, id) == id \in DOMAIN rows /\ rows[id].UserID = user
OwnRows(user) == {rows[i] : i \in {j \in DOMAIN rows : rows[j].UserID = user}}

(* Another profile of the same user has p's name. *)
NameTaken(p) ==
    \E i \in DOMAIN rows : i # p.ID /\ rows[i].UserID = p.UserID /\ rows[i].Name = p.Name

Refused(result) == Answer(result, {}) /\ UNCHANGED rows

(* The id is a fresh UUID. *)
Insert(p) ==
    /\ p.ID \notin DOMAIN rows
    /\ \/ NameTaken(p) /\ Refused("duplicate_name")
       \/ /\ ~NameTaken(p) /\ Answer("ok", {})
          /\ rows' = [i \in DOMAIN rows \cup {p.ID} |-> IF i = p.ID THEN p ELSE rows[i]]

GetByID(user, id) ==
    /\ IF Owned(user, id) THEN Answer("ok", {rows[id]}) ELSE Answer("not_found", {})
    /\ UNCHANGED rows

(* Profiles of the user, as many as the page asks for and there are left. *)
ListByUser(user, page) ==
    \E limit \in 1..MaxLimit, shown \in SUBSET OwnRows(user) :
       /\ page.limit \in 1..MaxLimit => limit = page.limit
       /\ LET left == Cardinality(OwnRows(user)) - (IF page.offset < 0 THEN 0 ELSE page.offset)
          IN Cardinality(shown) =
               IF left <= 0 THEN 0 ELSE IF left < limit THEN left ELSE limit
       /\ Answer("ok", shown)
       /\ UNCHANGED rows

Update(p) ==
    \/ ~Owned(p.UserID, p.ID) /\ Refused("not_found")
    \/ Owned(p.UserID, p.ID) /\ NameTaken(p) /\ Refused("duplicate_name")
    \/ /\ Owned(p.UserID, p.ID) /\ ~NameTaken(p)
       /\ rows' = [rows EXCEPT ![p.ID] = p] /\ Answer("ok", {})

Delete(user, id) ==
    \/ ~Owned(user, id) /\ Refused("not_found")
    \/ /\ Owned(user, id) /\ Answer("ok", {})
       /\ rows' = [i \in DOMAIN rows \ {id} |-> rows[i]]

Init == rows = [i \in {} |-> i] /\ reply = [result |-> "none", profiles |-> {}]

Next == \/ \E p \in Profile : Insert(p) \/ Update(p)
        \/ \E user \in User, id \in ID : GetByID(user, id) \/ Delete(user, id)
        \/ \E user \in User, page \in RawPage : ListByUser(user, page)

Spec == Init /\ [][Next]_vars
=============================================================================
