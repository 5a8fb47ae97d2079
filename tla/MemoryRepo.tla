---------------------------- MODULE MemoryRepo ----------------------------
(***************************************************************************)
(* The in-memory adapter behind the port of device profiles: one map with  *)
(* the profiles and one from a user's names to ids, both under a mutex, so *)
(* every method is one step.  A listing takes the profiles in whatever     *)
(* order the map yields them.                                              *)
(***************************************************************************)
EXTENDS Integers, FiniteSets, SequencesExt

CONSTANTS ID, User, Name, Body, RawPage, MaxLimit
CONSTANT DefaultLimit   \* the limit when the client's is out of range

ASSUME MemoryAssumption ==
    /\ IsFiniteSet(ID)
    /\ RawPage \subseteq [limit : Int, offset : Int]
    /\ MaxLimit \in Nat \ {0} /\ DefaultLimit \in 1..MaxLimit

VARIABLES
    byID,       \* profiles by id
    byUserNm,   \* ids by user and name
    reply       \* what the last call returned

vars == <<byID, byUserNm, reply>>

Profile == [ID : ID, UserID : User, Name : Name, Body : Body]
Key(p) == <<p.UserID, p.Name>>

Return(result, profiles) == reply' = [result |-> result, profiles |-> profiles]
Fails(result) == Return(result, {}) /\ UNCHANGED <<byID, byUserNm>>

(* m[k] = v and delete(m, k) *)
Put(m, k, v) == [x \in DOMAIN m \cup {k} |-> IF x = k THEN v ELSE m[x]]
Without(m, k) == [x \in DOMAIN m \ {k} |-> m[x]]

Holds(user, id) == id \in DOMAIN byID /\ byID[id].UserID = user

(* The service gives a new profile an id that was never used. *)
Insert(p) ==
    /\ p.ID \notin DOMAIN byID
    /\ \/ Key(p) \in DOMAIN byUserNm /\ Fails("duplicate_name")
       \/ /\ Key(p) \notin DOMAIN byUserNm
          /\ byID' = Put(byID, p.ID, p) /\ byUserNm' = Put(byUserNm, Key(p), p.ID)
          /\ Return("ok", {})

GetByID(user, id) ==
    /\ IF Holds(user, id) THEN Return("ok", {byID[id]}) ELSE Return("not_found", {})
    /\ UNCHANGED <<byID, byUserNm>>

(* Page.Normalize, which Service.List applies first. *)
NormalizeUncapped(page) ==
    [limit |-> IF page.limit <= 0 THEN DefaultLimit ELSE page.limit,
     offset |-> IF page.offset < 0 THEN 0 ELSE page.offset]
Normalize(page) ==
    [limit |-> IF page.limit <= 0 \/ page.limit > MaxLimit THEN DefaultLimit ELSE page.limit,
     offset |-> IF page.offset < 0 THEN 0 ELSE page.offset]

(* What out[from:to] holds. *)
Slice(out, from, to) == {out[k] : k \in from + 1 .. to}

ListByUser(user, raw) ==
    LET page == Normalize(raw)
        own == {byID[i] : i \in {j \in DOMAIN byID : byID[j].UserID = user}}
        total == Cardinality(own)
        end == IF page.offset + page.limit > total THEN total ELSE page.offset + page.limit
    IN /\ \E out \in SetToSeqs(own) :
            Return("ok", IF page.offset >= total THEN {}
                         ELSE Slice(out, page.offset, end))
       /\ UNCHANGED <<byID, byUserNm>>

(* A rename frees the old name. *)
RenameKeepsOld(p) == byUserNm' = Put(byUserNm, Key(p), p.ID)
Rename(p) == byUserNm' = Put(Without(byUserNm, Key(byID[p.ID])), Key(p), p.ID)

Update(p) ==
    \/ ~Holds(p.UserID, p.ID) /\ Fails("not_found")
    \/ /\ Holds(p.UserID, p.ID) /\ byID[p.ID].Name # p.Name /\ Key(p) \in DOMAIN byUserNm
       /\ Fails("duplicate_name")
    \/ /\ Holds(p.UserID, p.ID)
       /\ \/ byID[p.ID].Name = p.Name /\ UNCHANGED byUserNm
          \/ byID[p.ID].Name # p.Name /\ Key(p) \notin DOMAIN byUserNm /\ Rename(p)
       /\ byID' = [byID EXCEPT ![p.ID] = p]
       /\ Return("ok", {})

DeleteOnlyRow(user, id) ==
    \/ ~Holds(user, id) /\ Fails("not_found")
    \/ /\ Holds(user, id) /\ byID' = Without(byID, id)
       /\ UNCHANGED byUserNm /\ Return("ok", {})
Delete(user, id) ==
    \/ ~Holds(user, id) /\ Fails("not_found")
    \/ /\ Holds(user, id) /\ byID' = Without(byID, id)
       /\ byUserNm' = Without(byUserNm, Key(byID[id]))
       /\ Return("ok", {})

Init == /\ byID = [i \in {} |-> i] /\ byUserNm = [k \in {} |-> k]
        /\ reply = [result |-> "none", profiles |-> {}]

Next == \/ \E p \in Profile : Insert(p) \/ Update(p)
        \/ \E user \in User, id \in ID : GetByID(user, id) \/ Delete(user, id)
        \/ \E user \in User, page \in RawPage : ListByUser(user, page)

Spec == Init /\ [][Next]_vars

(***************************************************************************)
(* Properties.                                                             *)
(***************************************************************************)
(* Types; no page is longer than the longest page. *)
TypeOK ==
    /\ DOMAIN byID \subseteq ID /\ byID \in [DOMAIN byID -> Profile]
    /\ \A i \in DOMAIN byID : byID[i].ID = i
    /\ DOMAIN byUserNm \subseteq User \X Name /\ byUserNm \in [DOMAIN byUserNm -> ID]
    /\ reply.result \in {"none", "ok", "duplicate_name", "not_found"}
    /\ reply.profiles \subseteq Profile /\ Cardinality(reply.profiles) <= MaxLimit

(* The two maps tell the same story: a name leads to the profile that has  *)
(* it, and every profile is found under its name.                          *)
MapsAgree ==
    /\ \A k \in DOMAIN byUserNm : byUserNm[k] \in DOMAIN byID /\ Key(byID[byUserNm[k]]) = k
    /\ \A i \in DOMAIN byID : Key(byID[i]) \in DOMAIN byUserNm /\ byUserNm[Key(byID[i])] = i

(* Every method does and returns what the port promises: what a name is    *)
(* refused for is decided by the profiles there are.                       *)
Port == INSTANCE ProfilesPort WITH rows <- byID
ImplementsPort == Port!Spec
=============================================================================
