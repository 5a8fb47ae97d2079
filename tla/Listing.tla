------------------------------ MODULE Listing ------------------------------
(***************************************************************************)
(* GET /device-profiles as a client uses it: page after page, each one a   *)
(* statement of its own,                                                   *)
(*     ORDER BY created_at DESC, id LIMIT limit OFFSET offset              *)
(* over the rows of one user, while creates, patches and deletes of that   *)
(* user run in between.  The order is made of time stamps that the service *)
(* takes before the statement that stores them, on the clock of whatever   *)
(* replica serves the request.                                             *)
(***************************************************************************)
EXTENDS Integers, FiniteSets

CONSTANTS
    Id,             \* the UUIDs that creates draw, as numbers in their order
    Patcher,        \* PATCH requests that may be under way at once
    MaxLimit,       \* the longest page Normalize leaves alone (200)
    DefaultLimit,   \* the length of a page nobody asked a length for (50)
    Skew,           \* how far a replica's clock may be behind the latest one
    MaxTime,        \* bound of the clock
    None            \* no row, no request, no limit parameter

ASSUME ListingAssumption ==
    /\ Id \subseteq Nat /\ IsFiniteSet(Id)
    /\ MaxLimit \in Nat \ {0} /\ DefaultLimit \in 1..MaxLimit
    /\ Skew \in Nat /\ MaxTime \in Nat
    /\ None \notin Nat /\ None \notin [created : Nat, updated : Nat]
    /\ None \notin [id : Id, read : Nat, stamp : Nat]

VARIABLES
    clock,      \* the latest clock among the replicas, in microseconds as stored
    used,       \* the ids drawn so far
    drafts,     \* drafts[i]: the stamps of a create whose INSERT is pending, or None
    rows,       \* rows[i]: created_at and updated_at of profile i, or None
    patching,   \* patching[p]: id, updated_at as read and the new stamp, or None
    phase,      \* the client's walk: "idle", "walking" or "done"
    asked,      \* the limit parameter the client sends with every page, or None
    offset,     \* the offset of the next page
    seen,       \* the profiles the client has been shown
    stable,     \* history: the profiles that were there when the walk began
    repeats,    \* history: how often the walk showed a profile once more
    added,      \* history: how many profiles were inserted during the walk
    removed     \* history: how many were deleted during the walk

table == <<used, drafts, rows, patching>>
walk  == <<phase, asked, offset, seen, stable, repeats>>
vars  == <<clock, table, walk, added, removed>>

Stamps == [created : Nat, updated : Nat]
Stamp(c, u) == [created |-> c, updated |-> u]
Walked(count) == IF phase = "walking" THEN count + 1 ELSE count

(***************************************************************************)
(* Time.  s.now() is the clock of one replica.                             *)
(***************************************************************************)
Now == {t \in 0..clock : clock <= t + Skew}

Tick ==
    /\ clock < MaxTime
    /\ clock' = clock + 1
    /\ UNCHANGED <<table, walk, added, removed>>

(***************************************************************************)
(* The writers.  Each action ends at a statement.                          *)
(***************************************************************************)
(* Service.Create up to its INSERT: created_at is read before updated_at.  *)
Create(i) ==
    /\ i \notin used
    /\ used' = used \cup {i}
    /\ \E c, u \in Now : c <= u /\ drafts' = [drafts EXCEPT ![i] = Stamp(c, u)]
    /\ UNCHANGED <<clock, rows, patching, walk, added, removed>>

InsertRepeatable(i) ==
    /\ drafts[i] # None
    /\ rows' = [rows EXCEPT ![i] = drafts[i]]
    /\ added' = Walked(added)
    /\ UNCHANGED <<clock, used, drafts, patching, walk, removed>>
Insert(i) ==
    /\ drafts[i] # None
    /\ rows' = [rows EXCEPT ![i] = drafts[i]]
    /\ drafts' = [drafts EXCEPT ![i] = None]
    /\ added' = Walked(added)
    /\ UNCHANGED <<clock, used, patching, walk, removed>>

(* A taken name, a lost connection: the create leaves nothing behind.      *)
InsertRefused(i) ==
    /\ drafts[i] # None
    /\ drafts' = [drafts EXCEPT ![i] = None]
    /\ UNCHANGED <<clock, used, rows, patching, walk, added, removed>>

(* Service.Patch: the SELECT, and the new stamp taken after it.            *)
PatchStampedOnArrival(p, i) ==
    /\ patching[p] = None /\ rows[i] # None
    /\ \E t \in 0..clock :
         patching' = [patching EXCEPT ![p] = [id |-> i, read |-> rows[i].updated, stamp |-> t]]
    /\ UNCHANGED <<clock, used, drafts, rows, walk, added, removed>>
Patch(p, i) ==
    /\ patching[p] = None /\ rows[i] # None
    /\ \E t \in Now :
         patching' = [patching EXCEPT ![p] = [id |-> i, read |-> rows[i].updated, stamp |-> t]]
    /\ UNCHANGED <<clock, used, drafts, rows, walk, added, removed>>

(* The UPDATE writes updated_at whatever the row holds by now; without the *)
(* row it affects none and the request is answered 404.                    *)
Update(p) ==
    /\ patching[p] # None
    /\ LET i == patching[p].id IN
         rows' = IF rows[i] = None THEN rows
                 ELSE [rows EXCEPT ![i] = Stamp(@.created, patching[p].stamp)]
    /\ patching' = [patching EXCEPT ![p] = None]
    /\ UNCHANGED <<clock, used, drafts, walk, added, removed>>

Delete(i) ==
    /\ rows[i] # None
    /\ rows' = [rows EXCEPT ![i] = None]
    /\ removed' = Walked(removed)
    /\ UNCHANGED <<clock, used, drafts, patching, walk, added>>

(***************************************************************************)
(* A page.                                                                 *)
(***************************************************************************)
Live == {i \in Id : rows[i] # None}

OrderedByUpdate(i, j) ==
    \/ rows[i].updated > rows[j].updated
    \/ rows[i].updated = rows[j].updated /\ i < j
Before(i, j) ==
    \/ rows[i].created > rows[j].created
    \/ rows[i].created = rows[j].created /\ i < j

(* How many rows precede i in the order of the listing.                    *)
Position(i) == Cardinality({j \in Live : Before(j, i)})

ListByUser(limit, from) ==
    {i \in Live : from <= Position(i) /\ Position(i) < from + limit}

(* Page.Normalize: a length out of range becomes the default, not the      *)
(* nearest allowed one; the offset of a walk is never negative.            *)
LimitExclusive(limit) == IF limit <= 0 \/ limit >= MaxLimit THEN DefaultLimit ELSE limit
Normalize(limit) == IF limit <= 0 \/ limit > MaxLimit THEN DefaultLimit ELSE limit

(* ListDeviceProfiles: the handler's default, replaced by the parameter.   *)
Requested == IF asked = None THEN DefaultLimit ELSE asked

(***************************************************************************)
(* The client: it keeps to the contract (1..MaxLimit or no parameter),     *)
(* advances by the length it asked for and stops at the first short page.  *)
(***************************************************************************)
BeginWalk ==
    /\ phase = "idle"
    /\ phase' = "walking"
    /\ asked' \in 1..MaxLimit \cup {None}
    /\ stable' = Live
    /\ UNCHANGED <<clock, table, offset, seen, repeats, added, removed>>

ListDeviceProfiles ==
    /\ phase = "walking"
    /\ LET page == ListByUser(Normalize(Requested), offset) IN
         /\ seen' = seen \cup page
         /\ repeats' = repeats + Cardinality(page \cap seen)
         /\ phase' = IF Cardinality(page) < Requested THEN "done" ELSE "walking"
    /\ offset' = offset + Requested
    /\ UNCHANGED <<clock, table, asked, stable, added, removed>>

Init ==
    /\ clock = 0
    /\ used = {}
    /\ drafts = [i \in Id |-> None]
    /\ rows = [i \in Id |-> None]
    /\ patching = [p \in Patcher |-> None]
    /\ phase = "idle" /\ asked = None /\ offset = 0
    /\ seen = {} /\ stable = {}
    /\ repeats = 0 /\ added = 0 /\ removed = 0

Next ==
    \/ Tick
    \/ \E i \in Id : Create(i) \/ Insert(i) \/ InsertRefused(i) \/ Delete(i)
    \/ \E p \in Patcher : Update(p) \/ \E i \in Id : Patch(p, i)
    \/ BeginWalk \/ ListDeviceProfiles

Spec == Init /\ [][Next]_vars

(***************************************************************************)
(* Invariants.                                                             *)
(***************************************************************************)
(* Every variable keeps its type; an id is drawn before it is used, and a  *)
(* create stores its profile once.                                         *)
TypeOK ==
    /\ clock \in Nat
    /\ used \subseteq Id
    /\ drafts \in [Id -> Stamps \cup {None}]
    /\ rows \in [Id -> Stamps \cup {None}]
    /\ \A i \in Id : drafts[i] # None => i \in used /\ rows[i] = None
    /\ \A i \in Id : rows[i] # None => i \in used
    /\ patching \in [Patcher -> [id : Id, read : Nat, stamp : Nat] \cup {None}]
    /\ phase \in {"idle", "walking", "done"}
    /\ asked \in 1..MaxLimit \cup {None}
    /\ offset \in Nat /\ seen \subseteq Id /\ stable \subseteq Id
    /\ repeats \in Nat /\ added \in Nat /\ removed \in Nat

(* A profile that is there during the whole walk is shown by it, except    *)
(* for at most one profile per deletion: creates and patches of any kind   *)
(* make no client miss a profile, whatever page length it asks for.        *)
NothingSkipped ==
    phase = "done" => Cardinality((stable \cap Live) \ seen) <= removed

(* A walk shows a profile again only as often as profiles were inserted.   *)
RepeatsExplained == repeats <= added

(***************************************************************************)
(* What a step may not do.                                                 *)
(***************************************************************************)
(* updated_at goes back further than clocks differ only if another write   *)
(* came between the SELECT and the UPDATE of the patch that does it.       *)
RegressOnlyOnOverlap ==
    [][\A i \in Live : i \in Live' /\ rows'[i].updated + Skew < rows[i].updated =>
         \E p \in Patcher : /\ patching[p] # None /\ patching[p].id = i
                            /\ patching[p].read # rows[i].updated]_vars
=============================================================================
