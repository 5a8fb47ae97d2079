--------------------------- MODULE ListingProofs ---------------------------
(***************************************************************************)
(* What a walk shows and where time stamps go back, for any finite set of  *)
(* ids, any number of overlapping patches, any limits and any skew.        *)
(***************************************************************************)
EXTENDS Listing, FiniteSetTheorems, TLAPS

(***************************************************************************)
(* The order of a listing, for a table T that need not be the current one. *)
(***************************************************************************)
Table == [Id -> Stamps \cup {None}]
LiveIn(T) == {i \in Id : T[i] # None}
Precedes(T, i, j) ==
    \/ T[i].created > T[j].created
    \/ T[i].created = T[j].created /\ i < j
Below(T, i) == {j \in LiveIn(T) : Precedes(T, j, i)}
Place(T, i) == Cardinality(Below(T, i))

(* The listing orders the current table. *)
LEMMA Current ==
    /\ Live = LiveIn(rows) /\ \A i : Position(i) = Place(rows, i)
    /\ Live' = LiveIn(rows') /\ \A i : Position(i)' = Place(rows', i)
  BY DEF Live, Position, Before, LiveIn, Place, Below, Precedes

(* A row that is there has stamps. *)
LEMMA RowTyped ==
    ASSUME NEW T \in Table, NEW i \in LiveIn(T)
    PROVE  i \in Nat /\ T[i] \in Stamps /\ T[i].created \in Nat /\ T[i].updated \in Nat
  BY ListingAssumption DEF Table, LiveIn, Stamps

(* Sets of ids are finite. *)
LEMMA IdsFinite ==
    ASSUME NEW S \in SUBSET Id
    PROVE  IsFiniteSet(S) /\ Cardinality(S) \in Nat
  BY FS_Subset, FS_CardinalityType, ListingAssumption

(* A set of ids is at most as large as one that contains it. *)
LEMMA Smaller ==
    ASSUME NEW S \in SUBSET Id, NEW T \in SUBSET S
    PROVE  Cardinality(T) <= Cardinality(S)
  BY IdsFinite, FS_Subset

(* One more element makes a set of ids at most one larger. *)
LEMMA OneMore ==
    ASSUME NEW S \in SUBSET Id, NEW E \in SUBSET Id, NEW T \in SUBSET (S \cup E),
           \A i, j \in E : i = j
    PROVE  Cardinality(T) <= Cardinality(S) + 1
<1>1. CASE E = {}
  <2>1. T \in SUBSET S
    BY <1>1
  <2> QED
    BY <2>1, Smaller, IdsFinite
<1>2. CASE E # {}
  <2>1. PICK x \in E : TRUE
    BY <1>2
  <2>2. T \in SUBSET (S \cup {x})
    BY <2>1
  <2>3. S \cup {x} \in SUBSET Id
    BY <2>1
  <2>4. Cardinality(S \cup {x}) <= Cardinality(S) + 1
    BY FS_AddElement, IdsFinite
  <2>5. Cardinality(T) <= Cardinality(S \cup {x})
    BY <2>2, <2>3, Smaller
  <2>6. /\ Cardinality(T) \in Nat /\ Cardinality(S) \in Nat
        /\ Cardinality(S \cup {x}) \in Nat
    <3>1. T \in SUBSET Id
      BY <2>2, <2>3
    <3> QED
      BY <3>1, <2>3, IdsFinite
  <2> QED
    BY <2>4, <2>5, <2>6
<1> QED
  BY <1>1, <1>2

(* Disjoint sets of ids are together as large as their sizes say. *)
LEMMA DisjointSum ==
    ASSUME NEW S \in SUBSET Id, NEW A \in SUBSET S, NEW B \in SUBSET S, A \cap B = {}
    PROVE  Cardinality(A) + Cardinality(B) <= Cardinality(S)
<1>1. A \cup B \in SUBSET S
  OBVIOUS
<1>2. Cardinality(A \cup B) <= Cardinality(S)
  BY <1>1, Smaller
<1>3. Cardinality(A \cup B) = Cardinality(A) + Cardinality(B)
  <2>1. IsFiniteSet(A) /\ IsFiniteSet(B) /\ Cardinality(A) \in Nat /\ Cardinality(B) \in Nat
    BY IdsFinite
  <2>2. Cardinality(A \cup B) = Cardinality(A) + Cardinality(B) - Cardinality(A \cap B)
    BY <2>1, FS_Union
  <2>3. Cardinality(A \cap B) = 0
    BY FS_EmptySet
  <2> QED
    BY <2>1, <2>2, <2>3
<1> QED
  BY <1>2, <1>3

(***************************************************************************)
(* Places are distinct and leave no gap.                                   *)
(***************************************************************************)
(* The rows below a row are sets of ids. *)
LEMMA BelowTyped ==
    ASSUME NEW T, NEW i
    PROVE  Below(T, i) \in SUBSET Id /\ Below(T, i) \subseteq LiveIn(T) /\ Place(T, i) \in Nat
<1>1. Below(T, i) \in SUBSET Id /\ Below(T, i) \subseteq LiveIn(T)
  BY DEF Below, LiveIn
<1> QED
  BY <1>1, IdsFinite DEF Place

(* What precedes a row that precedes another precedes that one too. *)
LEMMA PlacesGrow ==
    ASSUME NEW T \in Table, NEW i \in LiveIn(T), NEW j \in LiveIn(T), Precedes(T, i, j)
    PROVE  /\ Below(T, i) \subseteq Below(T, j) /\ Below(T, i) # Below(T, j)
           /\ Place(T, i) < Place(T, j)
<1>1. \A k \in LiveIn(T) : Precedes(T, k, i) => Precedes(T, k, j)
  BY RowTyped DEF Precedes
<1>2. ~Precedes(T, i, i)
  BY RowTyped DEF Precedes
<1>3. Below(T, i) \subseteq Below(T, j) /\ i \in Below(T, j) /\ i \notin Below(T, i)
  BY <1>1, <1>2 DEF Below
<1>4. Place(T, i) # Place(T, j) /\ Place(T, i) <= Place(T, j)
  BY <1>3, BelowTyped, IdsFinite, FS_Subset DEF Place
<1> QED
  BY <1>3, <1>4, BelowTyped

(* No two rows have the same place. *)
LEMMA PlacesDistinct ==
    ASSUME NEW T \in Table, NEW i \in LiveIn(T), NEW j \in LiveIn(T),
           Place(T, i) = Place(T, j)
    PROVE  i = j
<1> SUFFICES ASSUME i # j PROVE FALSE
  OBVIOUS
<1>1. Precedes(T, i, j) \/ Precedes(T, j, i)
  BY RowTyped DEF Precedes
<1>2. Place(T, i) < Place(T, j) \/ Place(T, j) < Place(T, i)
  BY <1>1, PlacesGrow
<1> QED
  BY <1>2, BelowTyped

(* There are k natural numbers under k. *)
LEMMA CountBelow ==
    ASSUME NEW k \in Nat
    PROVE  IsFiniteSet(0..(k - 1)) /\ Cardinality(0..(k - 1)) = k
<1>1. 0 \in Int /\ k - 1 \in Int
  OBVIOUS
<1>2. Cardinality(0..(k - 1)) = IF 0 > k - 1 THEN 0 ELSE (k - 1) - 0 + 1
  BY <1>1, FS_Interval
<1>3. (IF 0 > k - 1 THEN 0 ELSE (k - 1) - 0 + 1) = k
  OBVIOUS
<1> QED
  BY <1>1, <1>2, <1>3, FS_Interval

(* Below a row at place p every place is taken: otherwise consider the     *)
(* first row beyond the free place k; all rows below it have places under  *)
(* k, and there are more than k of them.                                   *)
LEMMA NoGap ==
    ASSUME NEW T \in Table, NEW i \in LiveIn(T), NEW k \in Nat, k < Place(T, i)
    PROVE  \E j \in LiveIn(T) : Place(T, j) = k
<1> DEFINE Beyond == {j \in LiveIn(T) : k < Place(T, j)}
           Lows == {Below(T, j) : j \in Beyond}
<1>1. PICK j \in Beyond : \A y \in Lows : <<y, Below(T, j)>> \notin StrictSubsetOrdering(Id)
  <2>1. Lows # {}
    OBVIOUS
  <2>2. Lows \subseteq FiniteSubsetsOf(Id)
    BY BelowTyped, IdsFinite DEF FiniteSubsetsOf
  <2>3. \E x \in Lows : \A y \in Lows : <<y, x>> \notin StrictSubsetOrdering(Id)
    <3> HIDE DEF Lows
    <3> QED
      BY <2>1, <2>2, WFMin, FS_StrictSubsetOrderingWellFounded
  <2> QED
    BY <2>3
<1>2. \A l \in Below(T, j) : Place(T, l) <= k
  <2> SUFFICES ASSUME NEW l \in Below(T, j), k < Place(T, l) PROVE FALSE
    BY BelowTyped
  <2>1. l \in LiveIn(T) /\ Precedes(T, l, j)
    BY DEF Below
  <2>2. l \in Beyond
    BY <2>1
  <2>3. Below(T, l) \subseteq Below(T, j) /\ Below(T, l) # Below(T, j)
    BY <2>1, PlacesGrow
  <2>4. <<Below(T, l), Below(T, j)>> \in StrictSubsetOrdering(Id)
    BY <2>3, BelowTyped DEF StrictSubsetOrdering
  <2> QED
    BY <1>1, <2>2, <2>4
<1> SUFFICES ASSUME \A l \in LiveIn(T) : Place(T, l) # k PROVE FALSE
  OBVIOUS
<1> DEFINE f == [l \in Below(T, j) |-> Place(T, l)]
<1>3. f \in Injection(Below(T, j), 0..(k - 1))
  <2>1. \A l \in Below(T, j) : l \in LiveIn(T) /\ Place(T, l) \in 0..(k - 1)
    BY <1>2, BelowTyped DEF Below
  <2>2. f \in [Below(T, j) -> 0..(k - 1)]
    BY <2>1
  <2>3. \A a, b \in Below(T, j) : f[a] = f[b] => a = b
    BY <2>1, PlacesDistinct
  <2> QED
    BY <2>2, <2>3 DEF Injection, IsInjective
<1>4. IsFiniteSet(0..(k - 1)) /\ Cardinality(0..(k - 1)) = k
  BY CountBelow
<1>5. Place(T, j) <= k
  BY <1>3, <1>4, FS_Injection DEF Place
<1>6. k < Place(T, j) /\ Place(T, j) \in Nat
  BY BelowTyped
<1> HIDE DEF f, Beyond, Lows
<1> QED
  BY <1>5, <1>6

(* A page that ends at or before the place of a row is full. *)
LEMMA FullPage ==
    ASSUME NEW T \in Table, NEW from \in Nat, NEW limit \in Nat,
           NEW i \in LiveIn(T), from + limit <= Place(T, i)
    PROVE  limit <= Cardinality({l \in LiveIn(T) : from <= Place(T, l) /\ Place(T, l) < from + limit})
<1> DEFINE page == {l \in LiveIn(T) : from <= Place(T, l) /\ Place(T, l) < from + limit}
           places == from..(from + limit - 1)
           f == [l \in page |-> Place(T, l)]
<1>1. \A l \in page : Place(T, l) \in places
  BY BelowTyped
<1>2. f \in [page -> places]
  BY <1>1
<1>3. ASSUME NEW k \in places PROVE \E l \in page : f[l] = k
  <2>1. k \in Nat /\ from <= k /\ k < from + limit /\ k < Place(T, i)
    BY <1>3, BelowTyped
  <2>2. PICK l \in LiveIn(T) : Place(T, l) = k
    BY <2>1, NoGap
  <2> QED
    BY <2>1, <2>2
<1>4. f \in Surjection(page, places)
  BY <1>2, <1>3 DEF Surjection
<1>5. IsFiniteSet(page) /\ Cardinality(page) \in Nat
  <2>1. page \in SUBSET Id
    BY DEF LiveIn
  <2> QED
    BY <2>1, IdsFinite
<1>6. Cardinality(places) <= Cardinality(page)
  <2> HIDE DEF f, page, places
  <2> QED
    BY <1>4, <1>5, FS_Surjection
<1>7. Cardinality(places) = limit
  <2>1. Cardinality(places) = IF from > from + limit - 1 THEN 0
                              ELSE (from + limit - 1) - from + 1
    BY FS_Interval
  <2> QED
    BY <2>1
<1> QED
  BY <1>6, <1>7

(* One more row moves the others down by at most one place. *)
LEMMA OneMoreRow ==
    ASSUME NEW T \in Table, NEW U \in Table, NEW j \in Id, T[j] = None, U[j] # None,
           \A i \in Id \ {j} : U[i] = T[i], NEW i \in LiveIn(T)
    PROVE  Place(T, i) <= Place(U, i) /\ Place(U, i) <= Place(T, i) + 1
<1>1. i # j /\ i \in Id
  BY DEF LiveIn
<1>2. Below(T, i) \subseteq Below(U, i) /\ Below(U, i) \subseteq Below(T, i) \cup {j}
  BY <1>1 DEF Below, LiveIn, Precedes
<1>3. Place(T, i) <= Place(U, i)
  BY <1>2, BelowTyped, Smaller DEF Place
<1>4. {j} \in SUBSET Id /\ \A a, b \in {j} : a = b
  OBVIOUS
<1>5. Place(U, i) <= Place(T, i) + 1
  BY <1>2, <1>4, BelowTyped, OneMore DEF Place
<1> QED
  BY <1>3, <1>5

(* Places depend on nothing but which rows there are and when they were    *)
(* created.                                                                *)
LEMMA SameOrder ==
    ASSUME NEW T \in Table, NEW U \in Table,
           \A i \in Id : /\ T[i] = None <=> U[i] = None
                         /\ T[i] # None => T[i].created = U[i].created
    PROVE  /\ LiveIn(T) = LiveIn(U)
           /\ \A i \in LiveIn(T) : Place(T, i) = Place(U, i)
<1>1. LiveIn(T) = LiveIn(U)
  BY DEF LiveIn
<1>2. \A i \in LiveIn(T) : Below(T, i) = Below(U, i)
  BY <1>1 DEF Below, Precedes, LiveIn
<1> QED
  BY <1>1, <1>2 DEF Place

(***************************************************************************)
(* The invariant.                                                          *)
(***************************************************************************)
(* The rows that the walk has passed without showing them, and those it    *)
(* has shown and will meet again.                                          *)
Missed == {i \in stable \cap Live : i \notin seen /\ Position(i) < offset}
Again == {i \in Live \cap seen : offset <= Position(i)}

WalkSoFar ==
    /\ phase = "idle" => /\ offset = 0 /\ seen = {}
                         /\ repeats = 0 /\ added = 0 /\ removed = 0
    /\ phase = "walking" => /\ Cardinality(Missed) <= removed
                            /\ repeats + Cardinality(Again) <= added
    /\ NothingSkipped /\ RepeatsExplained

(* What the client knows of was inserted before, and is inserted only once. *)
KnownInserted == \A i \in stable \cup seen : i \in used /\ drafts[i] = None

(* Stamps are past, and a patch that is under way has one that is behind   *)
(* what it read by the skew at most.                                       *)
StampsPast ==
    /\ \A i \in Id : drafts[i] # None => drafts[i].updated <= clock
    /\ \A i \in Id : rows[i] # None => rows[i].updated <= clock
    /\ \A p \in Patcher : patching[p] # None =>
         patching[p].stamp <= clock /\ patching[p].read <= patching[p].stamp + Skew

Ind == TypeOK /\ StampsPast /\ KnownInserted /\ WalkSoFar

(* Type correctness holds at first and is preserved. *)
LEMMA TypeInit == Init => TypeOK
  BY FS_EmptySet, ListingAssumption DEF Init, TypeOK

(* Now is a time. *)
LEMMA NowTyped ==
    ASSUME clock \in Nat, NEW t \in Now
    PROVE  t \in Nat /\ t <= clock /\ clock <= t + Skew
  BY DEF Now

(* Every step keeps the types. *)
LEMMA TypePreserved == TypeOK /\ [Next]_vars => TypeOK'
<1> SUFFICES ASSUME TypeOK, [Next]_vars PROVE TypeOK'
  OBVIOUS
<1> USE ListingAssumption DEF TypeOK
<1>1. CASE Tick
  BY <1>1 DEF Tick, table, walk
<1>2. ASSUME NEW i \in Id, Create(i) PROVE TypeOK'
  <2>1. PICK c, u \in Now : drafts' = [drafts EXCEPT ![i] = Stamp(c, u)]
    BY <1>2 DEF Create
  <2>2. Stamp(c, u) \in Stamps
    BY <2>1, NowTyped DEF Stamp, Stamps
  <2> QED
    BY <1>2, <2>1, <2>2 DEF Create, walk
<1>3. ASSUME NEW i \in Id, Insert(i) PROVE TypeOK'
  BY <1>3 DEF Insert, walk, Walked
<1>4. ASSUME NEW i \in Id, InsertRefused(i) PROVE TypeOK'
  BY <1>4 DEF InsertRefused, walk
<1>5. ASSUME NEW i \in Id, Delete(i) PROVE TypeOK'
  BY <1>5 DEF Delete, walk, Walked
<1>6. ASSUME NEW p \in Patcher, Update(p) PROVE TypeOK'
  <2> DEFINE i == patching[p].id
  <2>1. i \in Id /\ patching[p].stamp \in Nat
    BY <1>6 DEF Update
  <2>2. rows[i] # None => Stamp(rows[i].created, patching[p].stamp) \in Stamps
    BY <2>1 DEF Stamp, Stamps
  <2>3. rows' \in [Id -> Stamps \cup {None}]
    BY <1>6, <2>1, <2>2 DEF Update
  <2>4. \A j \in Id : rows'[j] # None => rows[j] # None
    BY <1>6, <2>1 DEF Update
  <2>5. patching' = [patching EXCEPT ![p] = None]
    BY <1>6 DEF Update
  <2> QED
    BY <1>6, <2>3, <2>4, <2>5 DEF Update, walk
<1>7. ASSUME NEW p \in Patcher, NEW i \in Id, Patch(p, i) PROVE TypeOK'
  <2>1. PICK t \in Now :
          patching' = [patching EXCEPT ![p] = [id |-> i, read |-> rows[i].updated, stamp |-> t]]
    BY <1>7 DEF Patch
  <2>2. rows[i].updated \in Nat
    BY <1>7 DEF Patch, Stamps
  <2>3. [id |-> i, read |-> rows[i].updated, stamp |-> t] \in [id : Id, read : Nat, stamp : Nat]
    BY <2>1, <2>2, NowTyped
  <2> QED
    BY <1>7, <2>1, <2>3 DEF Patch, walk
<1>8. CASE BeginWalk
  BY <1>8 DEF BeginWalk, table, Live
<1>9. CASE ListDeviceProfiles
  <2>1. Requested \in Nat
    BY DEF Requested
  <2>2. ListByUser(Normalize(Requested), offset) \in SUBSET Id
    BY DEF ListByUser, Live
  <2>3. repeats' \in Nat
    <3>1. ListByUser(Normalize(Requested), offset) \cap seen \in SUBSET Id
      BY <2>2
    <3> QED
      BY <1>9, <3>1, IdsFinite DEF ListDeviceProfiles
  <2>4. seen' \subseteq Id
    BY <1>9, <2>2 DEF ListDeviceProfiles
  <2>5. phase' \in {"walking", "done"}
    <3> HIDE DEF TypeOK
    <3> QED
      BY <1>9 DEF ListDeviceProfiles
  <2>6. offset' \in Nat
    BY <1>9, <2>1 DEF ListDeviceProfiles
  <2> QED
    BY <1>9, <2>3, <2>4, <2>5, <2>6 DEF ListDeviceProfiles, table
<1>10. CASE UNCHANGED vars
  BY <1>10 DEF vars, table, walk
<1> QED
  BY <1>1, <1>2, <1>3, <1>4, <1>5, <1>6, <1>7, <1>8, <1>9, <1>10 DEF Next

(* Stamps stay in the past. *)
LEMMA StampsPreserved == TypeOK /\ StampsPast /\ [Next]_vars => StampsPast'
<1> SUFFICES ASSUME TypeOK, StampsPast, [Next]_vars PROVE StampsPast'
  OBVIOUS
<1> USE ListingAssumption DEF StampsPast
<1>0. /\ clock \in Nat /\ rows \in Table /\ drafts \in Table
      /\ \A p \in Patcher : patching[p] # None =>
           patching[p].id \in Id /\ patching[p].stamp \in Nat /\ patching[p].read \in Nat
      /\ patching \in [Patcher -> [id : Id, read : Nat, stamp : Nat] \cup {None}]
  BY DEF TypeOK, Table
<1>1. CASE Tick
  <2>1. clock' = clock + 1 /\ UNCHANGED <<rows, drafts, patching>>
    BY <1>1 DEF Tick, table
  <2>2. \A i \in Id : /\ rows[i] # None => rows[i].updated \in Nat
                      /\ drafts[i] # None => drafts[i].updated \in Nat
    BY <1>0 DEF Table, Stamps
  <2> QED
    BY <1>0, <2>1, <2>2
<1>2. ASSUME NEW i \in Id, Create(i) PROVE StampsPast'
  <2>1. PICK c, u \in Now : drafts' = [drafts EXCEPT ![i] = Stamp(c, u)]
    BY <1>2 DEF Create
  <2>2. Stamp(c, u).updated <= clock
    BY <1>0, <2>1, NowTyped DEF Stamp
  <2> QED
    BY <1>0, <1>2, <2>1, <2>2 DEF Create, Table
<1>3. ASSUME NEW i \in Id, Insert(i) PROVE StampsPast'
  BY <1>0, <1>3 DEF Insert, Table
<1>4. ASSUME NEW i \in Id, InsertRefused(i) PROVE StampsPast'
  BY <1>0, <1>4 DEF InsertRefused, Table
<1>5. ASSUME NEW i \in Id, Delete(i) PROVE StampsPast'
  BY <1>0, <1>5 DEF Delete, Table
<1>6. ASSUME NEW p \in Patcher, Update(p) PROVE StampsPast'
  <2> DEFINE i == patching[p].id
  <2>1. i \in Id /\ patching[p].stamp <= clock
    BY <1>0, <1>6 DEF Update
  <2>2. rows' = IF rows[i] = None THEN rows
                ELSE [rows EXCEPT ![i] = Stamp(@.created, patching[p].stamp)]
    BY <1>6 DEF Update
  <2>3. \A j \in Id : rows'[j] # None => rows'[j].updated <= clock
    <3> HIDE DEF i
    <3> QED
      BY <1>0, <2>1, <2>2 DEF Table, Stamp
  <2>4. clock' = clock /\ drafts' = drafts
    BY <1>6 DEF Update
  <2>5. patching' = [patching EXCEPT ![p] = None]
    BY <1>6 DEF Update
  <2> QED
    BY <1>0, <2>3, <2>4, <2>5
<1>7. ASSUME NEW p \in Patcher, NEW i \in Id, Patch(p, i) PROVE StampsPast'
  <2>1. PICK t \in Now :
          patching' = [patching EXCEPT ![p] = [id |-> i, read |-> rows[i].updated, stamp |-> t]]
    BY <1>7 DEF Patch
  <2>2. rows[i].updated \in Nat /\ rows[i].updated <= clock
    BY <1>0, <1>7 DEF Patch, Table, Stamps
  <2>3. t \in Nat /\ t <= clock /\ rows[i].updated <= t + Skew
    BY <1>0, <2>1, <2>2, NowTyped
  <2>4. /\ patching'[p].stamp <= clock /\ patching'[p].read <= patching'[p].stamp + Skew
        /\ \A q \in Patcher : q # p => patching'[q] = patching[q]
    BY <1>0, <2>1, <2>3
  <2>5. UNCHANGED <<clock, rows, drafts>>
    BY <1>7 DEF Patch
  <2> QED
    BY <2>4, <2>5
<1>8. CASE BeginWalk \/ ListDeviceProfiles \/ UNCHANGED vars
  BY <1>8 DEF BeginWalk, ListDeviceProfiles, vars, table
<1> QED
  BY <1>1, <1>2, <1>3, <1>4, <1>5, <1>6, <1>7, <1>8 DEF Next

(* The client knows of no profile whose INSERT is to come. *)
LEMMA KnownPreserved == TypeOK /\ KnownInserted /\ [Next]_vars => KnownInserted'
<1> SUFFICES ASSUME TypeOK, KnownInserted, [Next]_vars PROVE KnownInserted'
  OBVIOUS
<1> USE DEF KnownInserted
<1>1. CASE Tick
  BY <1>1 DEF Tick, table, walk
<1>2. ASSUME NEW i \in Id, Create(i) PROVE KnownInserted'
  BY <1>2 DEF Create, walk, TypeOK
<1>3. ASSUME NEW i \in Id, Insert(i) \/ InsertRefused(i) \/ Delete(i) PROVE KnownInserted'
  BY <1>3 DEF Insert, InsertRefused, Delete, walk, TypeOK
<1>4. ASSUME NEW p \in Patcher, Update(p) \/ (\E i \in Id : Patch(p, i)) PROVE KnownInserted'
  BY <1>4 DEF Update, Patch, walk
<1>5. \A i \in Live : i \in used /\ drafts[i] = None
  BY DEF Live, TypeOK
<1>6. CASE BeginWalk
  BY <1>5, <1>6 DEF BeginWalk, table
<1>7. CASE ListDeviceProfiles
  <2>1. ListByUser(Normalize(Requested), offset) \subseteq Live
    BY DEF ListByUser
  <2> QED
    BY <1>5, <1>7, <2>1 DEF ListDeviceProfiles, table
<1>8. CASE UNCHANGED vars
  BY <1>8 DEF vars, table, walk
<1> QED
  BY <1>1, <1>2, <1>3, <1>4, <1>6, <1>7, <1>8 DEF Next

(***************************************************************************)
(* The walk.                                                               *)
(***************************************************************************)
(* The sets that the invariant counts. *)
LEMMA WalkTyped ==
    ASSUME TypeOK
    PROVE  /\ rows \in Table
           /\ Missed \in SUBSET Id /\ Again \in SUBSET Id
           /\ (stable \cap Live) \ seen \in SUBSET Id
           /\ Cardinality(Missed) \in Nat /\ Cardinality(Again) \in Nat
           /\ Cardinality((stable \cap Live) \ seen) \in Nat
<1>1. /\ Missed \in SUBSET Id /\ Again \in SUBSET Id
      /\ (stable \cap Live) \ seen \in SUBSET Id
  BY DEF Missed, Again, Live
<1> QED
  BY <1>1, IdsFinite DEF TypeOK, Table

(* Whatever leaves the walk and the order alone keeps it. *)
LEMMA WalkQuiet ==
    ASSUME TypeOK, TypeOK', WalkSoFar, UNCHANGED <<walk, added, removed>>,
           \A i \in Id : /\ rows[i] = None <=> rows'[i] = None
                         /\ rows[i] # None => rows[i].created = rows'[i].created
    PROVE  WalkSoFar'
<1>1. rows \in Table /\ rows' \in Table
  BY DEF TypeOK, Table
<1>2. LiveIn(rows) = LiveIn(rows') /\ \A i \in LiveIn(rows) : Place(rows, i) = Place(rows', i)
  BY <1>1, SameOrder
<1>3. Live' = Live /\ \A i \in Live : Position(i)' = Position(i)
  BY <1>2, Current
<1>4. /\ phase' = phase /\ offset' = offset /\ seen' = seen /\ stable' = stable
      /\ repeats' = repeats /\ added' = added /\ removed' = removed
  BY DEF walk
<1>5. Missed' = Missed /\ Again' = Again
  BY <1>3, <1>4 DEF Missed, Again
<1> QED
  BY <1>3, <1>4, <1>5 DEF WalkSoFar, NothingSkipped, RepeatsExplained

(* An INSERT pushes at most one shown row beyond the offset, and none of   *)
(* those that have not been shown before it.                               *)
LEMMA WalkInsert ==
    ASSUME TypeOK, TypeOK', KnownInserted, WalkSoFar, NEW j \in Id, Insert(j)
    PROVE  WalkSoFar'
<1>1. rows \in Table /\ rows' \in Table /\ offset \in Nat /\ added \in Nat /\ repeats \in Nat
  BY DEF TypeOK, Table
<1>2. rows[j] = None /\ rows'[j] # None /\ \A i \in Id \ {j} : rows'[i] = rows[i]
  BY DEF Insert, TypeOK
<1>3. Live' = Live \cup {j} /\ j \notin Live
  BY <1>2 DEF Live
<1>4. \A i \in Live : Position(i) <= Position(i)' /\ Position(i)' <= Position(i) + 1
  BY <1>1, <1>2, Current, OneMoreRow
<1>5. j \notin stable /\ j \notin seen
  BY DEF KnownInserted, Insert
<1>6. \A i : Position(i) \in Nat /\ Position(i)' \in Nat
  BY Current, BelowTyped
<1>7. /\ phase' = phase /\ offset' = offset /\ seen' = seen /\ stable' = stable
      /\ repeats' = repeats /\ removed' = removed /\ added' = Walked(added)
  BY DEF Insert, walk
<1>8. (stable \cap Live) \ seen = ((stable \cap Live) \ seen)'
  BY <1>3, <1>5, <1>7
<1>9. CASE phase = "walking"
  <2>1. Missed' \in SUBSET Missed
    BY <1>1, <1>3, <1>4, <1>5, <1>6, <1>7 DEF Missed
  <2>2. Cardinality(Missed') <= Cardinality(Missed)
    BY <2>1, WalkTyped, Smaller
  <2> DEFINE Moved == {i \in Live : Position(i) + 1 = offset}
  <2>3. Again' \in SUBSET (Again \cup Moved)
    BY <1>1, <1>3, <1>4, <1>5, <1>6, <1>7 DEF Again
  <2>4. Moved \in SUBSET Id /\ \A a, b \in Moved : a = b
    <3>1. \A a, b \in Live : Place(rows, a) = Place(rows, b) => a = b
      BY <1>1, Current, PlacesDistinct
    <3> QED
      BY <1>1, <1>6, <3>1, Current DEF Live
  <2>5. Cardinality(Again') <= Cardinality(Again) + 1
    <3> HIDE DEF Moved
    <3> QED
      BY <2>3, <2>4, WalkTyped, OneMore
  <2>6. added' = added + 1
    BY <1>7, <1>9 DEF Walked
  <2>7. Cardinality(Missed') \in Nat /\ Cardinality(Again') \in Nat
    <3>1. Missed' \in SUBSET Id /\ Again' \in SUBSET Id
      BY <2>1, <2>3, <2>4, WalkTyped
    <3> QED
      BY <3>1, IdsFinite
  <2>8. Cardinality(Missed) \in Nat /\ Cardinality(Again) \in Nat /\ removed \in Nat
    BY WalkTyped DEF TypeOK
  <2> QED
    BY <1>1, <1>7, <1>9, <2>2, <2>5, <2>6, <2>7, <2>8
       DEF WalkSoFar, NothingSkipped, RepeatsExplained
<1>10. CASE phase # "walking"
  BY <1>7, <1>8, <1>10 DEF WalkSoFar, NothingSkipped, RepeatsExplained, Walked
<1> QED
  BY <1>9, <1>10

(* A DELETE pulls at most one row that has not been shown before the       *)
(* offset, and no row that has been shown beyond it.                       *)
LEMMA WalkDelete ==
    ASSUME TypeOK, TypeOK', WalkSoFar, NEW j \in Id, Delete(j)
    PROVE  WalkSoFar'
<1>1. rows \in Table /\ rows' \in Table /\ offset \in Nat /\ removed \in Nat /\ added \in Nat
      /\ repeats \in Nat
  BY DEF TypeOK, Table
<1>2. rows[j] # None /\ rows'[j] = None /\ \A i \in Id \ {j} : rows[i] = rows'[i]
  BY DEF Delete, TypeOK
<1>3. Live' = Live \ {j}
  BY <1>2 DEF Live
<1>4. \A i \in Live' : Position(i)' <= Position(i) /\ Position(i) <= Position(i)' + 1
  BY <1>1, <1>2, Current, OneMoreRow
<1>5. \A i : Position(i) \in Nat /\ Position(i)' \in Nat
  BY Current, BelowTyped
<1>6. /\ phase' = phase /\ offset' = offset /\ seen' = seen /\ stable' = stable
      /\ repeats' = repeats /\ added' = added /\ removed' = Walked(removed)
  BY DEF Delete, walk
<1>7. Cardinality(((stable \cap Live) \ seen)') <= Cardinality((stable \cap Live) \ seen)
  <2>1. ((stable \cap Live) \ seen)' \in SUBSET ((stable \cap Live) \ seen)
    BY <1>3, <1>6
  <2> QED
    BY <2>1, WalkTyped, Smaller
<1>8. CASE phase = "walking"
  <2> DEFINE Moved == {i \in Live : Position(i) = offset}
  <2>1. Missed' \in SUBSET (Missed \cup Moved)
    BY <1>1, <1>3, <1>4, <1>5, <1>6 DEF Missed
  <2>2. Moved \in SUBSET Id /\ \A a, b \in Moved : a = b
    <3>1. \A a, b \in Live : Place(rows, a) = Place(rows, b) => a = b
      BY <1>1, Current, PlacesDistinct
    <3> QED
      BY <1>1, <1>5, <3>1, Current DEF Live
  <2>3. Cardinality(Missed') <= Cardinality(Missed) + 1
    <3> HIDE DEF Moved
    <3> QED
      BY <2>1, <2>2, WalkTyped, OneMore
  <2>4. Again' \in SUBSET Again
    BY <1>1, <1>3, <1>4, <1>5, <1>6 DEF Again
  <2>5. Cardinality(Again') <= Cardinality(Again)
    BY <2>4, WalkTyped, Smaller
  <2>6. removed' = removed + 1
    BY <1>6, <1>8 DEF Walked
  <2>7. Cardinality(Missed') \in Nat /\ Cardinality(Again') \in Nat
    <3>1. Missed' \in SUBSET Id /\ Again' \in SUBSET Id
      BY <2>1, <2>2, <2>4, WalkTyped
    <3> QED
      BY <3>1, IdsFinite
  <2>8. Cardinality(Missed) \in Nat /\ Cardinality(Again) \in Nat
    BY WalkTyped
  <2> QED
    BY <1>1, <1>6, <1>8, <2>3, <2>5, <2>6, <2>7, <2>8
       DEF WalkSoFar, NothingSkipped, RepeatsExplained
<1>9. CASE phase = "done"
  <2>1. Cardinality(((stable \cap Live) \ seen)') <= removed
    <3>1. Cardinality(((stable \cap Live) \ seen)') \in Nat
      <4>1. ((stable \cap Live) \ seen)' \in SUBSET Id
        BY <1>3, <1>6, WalkTyped
      <4> QED
        BY <4>1, IdsFinite
    <3> QED
      BY <1>1, <1>7, <1>9, <3>1, WalkTyped DEF WalkSoFar, NothingSkipped
  <2> QED
    BY <1>6, <1>9, <2>1 DEF WalkSoFar, NothingSkipped, RepeatsExplained, Walked
<1>10. CASE phase \notin {"walking", "done"}
  BY <1>6, <1>10 DEF WalkSoFar, NothingSkipped, RepeatsExplained, Walked
<1> QED
  BY <1>8, <1>9, <1>10

(* The client's lengths are lengths that Normalize leaves alone. *)
LEMMA LengthKept == TypeOK => Requested \in Nat /\ Normalize(Requested) = Requested
  BY ListingAssumption DEF TypeOK, Requested, Normalize

(* A walk begins with nothing missed and nothing to be shown again. *)
LEMMA WalkBegins == TypeOK /\ TypeOK' /\ WalkSoFar /\ BeginWalk => WalkSoFar'
<1> SUFFICES ASSUME TypeOK, TypeOK', WalkSoFar, BeginWalk PROVE WalkSoFar'
  OBVIOUS
<1>1. /\ phase' = "walking" /\ offset' = 0 /\ seen' = {}
      /\ repeats' = 0 /\ added' = 0 /\ removed' = 0
  BY DEF BeginWalk, WalkSoFar
<1>2. \A i : Position(i)' \in Nat
  BY Current, BelowTyped
<1>3. Missed' = {} /\ Again' = {}
  BY <1>1, <1>2 DEF Missed, Again
<1>4. Cardinality(Missed') = 0 /\ Cardinality(Again') = 0
  BY <1>3, FS_EmptySet
<1> QED
  BY <1>1, <1>4 DEF WalkSoFar, NothingSkipped, RepeatsExplained

(* A page shows what is next; if it is short there is nothing beyond it. *)
LEMMA WalkShows == TypeOK /\ TypeOK' /\ WalkSoFar /\ ListDeviceProfiles => WalkSoFar'
<1> SUFFICES ASSUME TypeOK, TypeOK', WalkSoFar, ListDeviceProfiles PROVE WalkSoFar'
  OBVIOUS
<1> DEFINE page == ListByUser(Requested, offset)
<1>1. /\ phase = "walking" /\ seen' = seen \cup page
      /\ repeats' = repeats + Cardinality(page \cap seen)
      /\ phase' = IF Cardinality(page) < Requested THEN "done" ELSE "walking"
      /\ offset' = offset + Requested
      /\ UNCHANGED <<rows, stable, added, removed>>
  BY LengthKept DEF ListDeviceProfiles, table
<1>2. /\ rows \in Table /\ offset \in Nat /\ Requested \in Nat
      /\ repeats \in Nat /\ added \in Nat /\ removed \in Nat
  BY LengthKept DEF TypeOK, Table
<1>3. Live' = Live /\ \A i : Position(i)' = Position(i)
  BY <1>1, Current
<1>4. \A i : Position(i) \in Nat
  BY Current, BelowTyped
<1>5. page = {i \in Live : offset <= Position(i) /\ Position(i) < offset + Requested}
  BY DEF ListByUser
<1>6. Missed' \in SUBSET Missed
  BY <1>1, <1>2, <1>3, <1>4, <1>5 DEF Missed
<1>7. Again' \in SUBSET Again /\ page \cap seen \in SUBSET Again /\ Again' \cap (page \cap seen) = {}
  BY <1>1, <1>2, <1>3, <1>4, <1>5 DEF Again
<1>8. page \in SUBSET Id
  BY <1>5 DEF Live
<1> HIDE DEF page
<1>9. Cardinality(Missed') <= Cardinality(Missed)
  BY <1>6, WalkTyped, Smaller
<1>10. Cardinality(Again') + Cardinality(page \cap seen) <= Cardinality(Again)
  BY <1>7, WalkTyped, DisjointSum
<1>11. /\ Cardinality(Missed') \in Nat /\ Cardinality(Again') \in Nat
       /\ Cardinality(page \cap seen) \in Nat /\ Cardinality(page) \in Nat
       /\ Cardinality(Missed) \in Nat /\ Cardinality(Again) \in Nat
  <2>1. Missed' \in SUBSET Id /\ Again' \in SUBSET Id /\ page \cap seen \in SUBSET Id
    BY <1>6, <1>7, WalkTyped
  <2> QED
    BY <1>8, <2>1, IdsFinite, WalkTyped
<1>12. Cardinality(Missed) <= removed /\ repeats + Cardinality(Again) <= added
  BY <1>1 DEF WalkSoFar
<1>13. Cardinality(Missed') <= removed' /\ repeats' + Cardinality(Again') <= added'
  BY <1>1, <1>2, <1>9, <1>10, <1>11, <1>12
<1>14. RepeatsExplained'
  BY <1>1, <1>2, <1>11, <1>13 DEF RepeatsExplained
<1>15. NothingSkipped'
  <2> SUFFICES ASSUME Cardinality(page) < Requested
               PROVE  Cardinality(((stable \cap Live) \ seen)') <= removed'
    BY <1>1 DEF NothingSkipped
  <2>1. \A i \in Live : Position(i) < offset + Requested
    <3> SUFFICES ASSUME NEW i \in Live, offset + Requested <= Position(i) PROVE FALSE
      BY <1>2, <1>4
    <3>1. page = {l \in LiveIn(rows) : /\ offset <= Place(rows, l)
                                       /\ Place(rows, l) < offset + Requested}
      BY <1>5, Current
    <3>2. Requested <= Cardinality(page)
      BY <1>2, <3>1, Current, FullPage
    <3> QED
      BY <1>2, <1>11, <3>2
  <2>2. ((stable \cap Live) \ seen)' \in SUBSET Missed
    BY <1>1, <1>2, <1>3, <1>4, <1>5, <2>1 DEF Missed
  <2>3. Cardinality(((stable \cap Live) \ seen)') <= Cardinality(Missed)
    BY <2>2, WalkTyped, Smaller
  <2>4. Cardinality(((stable \cap Live) \ seen)') \in Nat
    <3>1. ((stable \cap Live) \ seen)' \in SUBSET Id
      BY <2>2, WalkTyped
    <3> QED
      BY <3>1, IdsFinite
  <2> QED
    BY <1>1, <1>2, <1>11, <1>12, <2>3, <2>4
<1> QED
  BY <1>1, <1>13, <1>14, <1>15 DEF WalkSoFar

(* An UPDATE leaves every row its created_at, hence its place. *)
LEMMA UpdateKeepsOrder ==
    ASSUME TypeOK, TypeOK', NEW p \in Patcher, Update(p)
    PROVE  \A i \in Id : /\ rows[i] = None <=> rows'[i] = None
                         /\ rows[i] # None => rows[i].created = rows'[i].created
<1>1. patching[p].id \in Id /\ rows \in Table /\ rows' \in Table
  BY DEF Update, TypeOK, Table
<1>2. \A c, u : Stamp(c, u).created = c
  BY DEF Stamp
<1>3. \A c, u : c \in Nat /\ u \in Nat => Stamp(c, u) # None
  BY ListingAssumption DEF Stamp
<1>4. patching[p].stamp \in Nat
  BY DEF Update, TypeOK
<1>5. \A i \in Id : rows[i] # None => rows[i].created \in Nat
  BY <1>1, RowTyped DEF LiveIn
<1>6. rows' = IF rows[patching[p].id] = None THEN rows
              ELSE [rows EXCEPT ![patching[p].id] =
                      Stamp(rows[patching[p].id].created, patching[p].stamp)]
  BY <1>1 DEF Update, Table
<1> QED
  BY <1>1, <1>2, <1>3, <1>4, <1>5, <1>6 DEF Table

(* Every step keeps the walk's account. *)
LEMMA WalkPreserved == Ind /\ TypeOK' /\ [Next]_vars => WalkSoFar'
<1> SUFFICES ASSUME Ind, TypeOK', [Next]_vars PROVE WalkSoFar'
  OBVIOUS
<1>0. TypeOK /\ WalkSoFar /\ KnownInserted
  BY DEF Ind
<1>1. CASE Tick
  BY <1>0, <1>1, WalkQuiet DEF Tick, table
<1>2. ASSUME NEW i \in Id, Create(i) \/ InsertRefused(i) PROVE WalkSoFar'
  BY <1>0, <1>2, WalkQuiet DEF Create, InsertRefused
<1>3. ASSUME NEW i \in Id, Insert(i) PROVE WalkSoFar'
  BY <1>0, <1>3, WalkInsert
<1>4. ASSUME NEW i \in Id, Delete(i) PROVE WalkSoFar'
  BY <1>0, <1>4, WalkDelete
<1>5. ASSUME NEW p \in Patcher, Update(p) PROVE WalkSoFar'
  BY <1>0, <1>5, UpdateKeepsOrder, WalkQuiet DEF Update
<1>6. ASSUME NEW p \in Patcher, NEW i \in Id, Patch(p, i) PROVE WalkSoFar'
  BY <1>0, <1>6, WalkQuiet DEF Patch
<1>7. CASE BeginWalk
  BY <1>0, <1>7, WalkBegins
<1>8. CASE ListDeviceProfiles
  BY <1>0, <1>8, WalkShows
<1>9. CASE UNCHANGED vars
  BY <1>0, <1>9, WalkQuiet DEF vars, table
<1> QED
  BY <1>1, <1>2, <1>3, <1>4, <1>5, <1>6, <1>7, <1>8, <1>9 DEF Next

(***************************************************************************)
(* The theorems.                                                           *)
(***************************************************************************)
(* The invariant holds in every state. *)
THEOREM ListingInvariance == Spec => []Ind
<1>1. Init => Ind
  <2> SUFFICES ASSUME Init PROVE Ind
    OBVIOUS
  <2>1. TypeOK
    BY TypeInit
  <2>2. StampsPast /\ KnownInserted
    BY DEF Init, StampsPast, KnownInserted
  <2>3. WalkSoFar
    BY DEF Init, WalkSoFar, NothingSkipped, RepeatsExplained
  <2> QED
    BY <2>1, <2>2, <2>3 DEF Ind
<1>2. Ind /\ [Next]_vars => Ind'
  BY TypePreserved, StampsPreserved, KnownPreserved, WalkPreserved DEF Ind
<1> QED
  BY <1>1, <1>2, PTL DEF Spec

(* Type correctness of the listing. *)
THEOREM ListingTyped == Spec => []TypeOK
  BY ListingInvariance, PTL DEF Ind

(* A walk misses at most one lasting profile per deletion, with any page   *)
(* length that the contract allows.                                        *)
THEOREM WalksMissNothing == Spec => []NothingSkipped
<1>1. Ind => NothingSkipped
  BY DEF Ind, WalkSoFar
<1> QED
  BY <1>1, ListingInvariance, PTL

(* A walk shows a profile again at most once per insertion. *)
THEOREM RepeatsAreExplained == Spec => []RepeatsExplained
<1>1. Ind => RepeatsExplained
  BY DEF Ind, WalkSoFar
<1> QED
  BY <1>1, ListingInvariance, PTL

(* What one step may do to updated_at. *)
Regress ==
    \A i \in Live : i \in Live' /\ rows'[i].updated + Skew < rows[i].updated =>
         \E p \in Patcher : /\ patching[p] # None /\ patching[p].id = i
                            /\ patching[p].read # rows[i].updated

(* Only an UPDATE changes the stamps of a row that stays. *)
LEMMA StepRegress == Ind /\ [Next]_vars => Regress
<1> SUFFICES ASSUME Ind, [Next]_vars, NEW i \in Live, i \in Live',
                    rows'[i].updated + Skew < rows[i].updated
             PROVE  \E p \in Patcher : /\ patching[p] # None /\ patching[p].id = i
                                       /\ patching[p].read # rows[i].updated
  BY DEF Regress
<1>0. TypeOK /\ StampsPast /\ i \in Id /\ rows[i] # None /\ rows'[i] # None
  BY DEF Ind, Live
<1>1. rows \in Table /\ rows[i].updated \in Nat /\ Skew \in Nat
  BY <1>0, ListingAssumption DEF TypeOK, Table, Stamps
<1>2. rows'[i] # rows[i]
  BY <1>1
<1>3. ASSUME NEW j \in Id, Insert(j) \/ Delete(j) PROVE FALSE
  BY <1>0, <1>1, <1>2, <1>3 DEF Insert, Delete, TypeOK, Table
<1>4. PICK p \in Patcher : Update(p)
  BY <1>2, <1>3 DEF Next, vars, table, Tick, Create, InsertRefused, Patch, BeginWalk,
                    ListDeviceProfiles
<1>5. /\ patching[p] # None /\ patching[p].stamp \in Nat /\ patching[p].read \in Nat
      /\ patching[p].id \in Id
  BY <1>0, <1>4 DEF Update, TypeOK
<1>6. patching[p].id = i /\ rows'[i].updated = patching[p].stamp
  BY <1>0, <1>1, <1>2, <1>4, <1>5 DEF Update, Stamp, Table
<1>7. patching[p].read <= patching[p].stamp + Skew
  BY <1>0, <1>5 DEF StampsPast
<1>8. patching[p].read # rows[i].updated
  BY <1>1, <1>5, <1>6, <1>7
<1> QED
  BY <1>5, <1>6, <1>8

(* updated_at goes back beyond the skew only under an overlapping write. *)
THEOREM StampsRegressOnOverlap == Spec => RegressOnlyOnOverlap
<1>1. Ind /\ [Next]_vars =>
        [\A i \in Live : i \in Live' /\ rows'[i].updated + Skew < rows[i].updated =>
           \E p \in Patcher : /\ patching[p] # None /\ patching[p].id = i
                              /\ patching[p].read # rows[i].updated]_vars
  BY StepRegress DEF Regress
<1> QED
  BY <1>1, ListingInvariance, PTL DEF Spec, RegressOnlyOnOverlap

(***************************************************************************)
(* The balance of a walk.  NothingSkipped counts the profiles that are     *)
(* there when the walk ends; here the deleted ones count as well, and so   *)
(* do the profiles that came during the walk.                              *)
(***************************************************************************)
(* The profiles the client did not begin with, which it has been or may be *)
(* shown, and those it did begin with and will never be shown.             *)
Strangers == (Live \cup seen) \ stable
Overlooked == {i \in stable \ seen : i \in Live => Position(i) < offset}

WalkBook ==
    /\ phase = "walking" =>
         /\ Cardinality(Strangers) <= added
         /\ Cardinality(Overlooked) <= removed
         /\ Cardinality(Live) + removed = Cardinality(stable) + added
         /\ offset <= Cardinality(Live) + removed
    /\ phase = "done" =>
         /\ Cardinality(seen \ stable) <= added
         /\ Cardinality(stable \ seen) <= removed

(* A finished walk differs from the table it began with by one profile per *)
(* insertion and one per deletion, the deleted ones included, although its *)
(* pages are statements of their own (ListByUser, one query per page).     *)
WalksAreTrue ==
    phase = "done" =>
        /\ Cardinality(seen \ stable) <= added
        /\ Cardinality(stable \ seen) <= removed

(* A walk that no writer disturbed showed every profile, none of them      *)
(* twice and nothing else, whatever patches ran beside it.                 *)
QuietWalksAreExact ==
    phase = "done" /\ added = 0 /\ removed = 0 => seen = stable /\ repeats = 0

(* The offset stays under what the walk began with and what came since: a  *)
(* client that stops at the first short page asks for a bounded number of  *)
(* pages as long as creates do.                                            *)
OffsetIsBounded ==
    phase = "walking" => offset <= Cardinality(stable) + added

(* What the balance counts are sets of ids. *)
LEMMA BookTyped ==
    TypeOK => /\ Live \in SUBSET Id /\ Cardinality(Live) \in Nat
              /\ Strangers \in SUBSET Id /\ Cardinality(Strangers) \in Nat
              /\ Overlooked \in SUBSET Id /\ Cardinality(Overlooked) \in Nat
              /\ stable \in SUBSET Id /\ Cardinality(stable) \in Nat
              /\ Cardinality(seen \ stable) \in Nat /\ Cardinality(stable \ seen) \in Nat
<1> SUFFICES ASSUME TypeOK
             PROVE  /\ Live \in SUBSET Id /\ Strangers \in SUBSET Id
                    /\ Overlooked \in SUBSET Id /\ stable \in SUBSET Id
                    /\ seen \ stable \in SUBSET Id /\ stable \ seen \in SUBSET Id
  BY IdsFinite
<1> QED
  BY DEF TypeOK, Live, Strangers, Overlooked

(* Where a row goes that was not before it, a row stays. *)
LEMMA NotBefore ==
    ASSUME NEW T \in Table, NEW U \in Table, NEW j \in LiveIn(T), U[j] = None,
           \A i \in Id \ {j} : U[i] = T[i],
           NEW i \in LiveIn(T), i # j, Place(T, i) <= Place(T, j)
    PROVE  Place(U, i) = Place(T, i)
<1>1. ~Precedes(T, j, i)
  BY PlacesGrow, BelowTyped
<1>2. i \in Id /\ i # j /\ U[i] = T[i]
  BY DEF LiveIn
<1>3. Below(U, i) = Below(T, i)
  BY <1>1, <1>2 DEF Below, LiveIn, Precedes
<1> QED
  BY <1>3 DEF Place

(* A step that leaves the walk, the ids and the order alone leaves the     *)
(* balance alone.                                                          *)
LEMMA BookQuiet ==
    ASSUME TypeOK, TypeOK', WalkBook,
           \A i \in Id : /\ rows[i] = None <=> rows'[i] = None
                         /\ rows[i] # None => rows[i].created = rows'[i].created,
           UNCHANGED <<walk, added, removed>>
    PROVE  WalkBook'
<1>1. rows \in Table /\ rows' \in Table
  BY DEF TypeOK, Table
<1>2. Live' = Live /\ \A i \in Live : Position(i)' = Position(i)
  BY <1>1, Current, SameOrder
<1>3. UNCHANGED <<phase, offset, seen, stable, added, removed>>
  BY DEF walk
<1>4. Strangers' = Strangers /\ Overlooked' = Overlooked
  BY <1>2, <1>3 DEF Strangers, Overlooked
<1> QED
  BY <1>2, <1>3, <1>4 DEF WalkBook

(* An INSERT adds one stranger, and hides no profile the walk began with. *)
LEMMA BookInsert ==
    ASSUME TypeOK, TypeOK', WalkBook, NEW j \in Id, Insert(j)
    PROVE  WalkBook'
<1>1. rows \in Table /\ rows' \in Table /\ offset \in Nat /\ added \in Nat /\ removed \in Nat
  BY DEF TypeOK, Table
<1>2. rows[j] = None /\ rows'[j] # None /\ \A i \in Id \ {j} : rows'[i] = rows[i]
  BY DEF Insert, TypeOK
<1>3. Live' = Live \cup {j} /\ j \notin Live
  BY <1>2 DEF Live
<1>4. \A i \in Live : Position(i) <= Position(i)'
  BY <1>1, <1>2, Current, OneMoreRow
<1>5. \A i : Position(i) \in Nat /\ Position(i)' \in Nat
  BY Current, BelowTyped
<1>6. /\ phase' = phase /\ offset' = offset /\ seen' = seen /\ stable' = stable
      /\ removed' = removed /\ added' = Walked(added)
  BY DEF Insert, walk
<1>7. CASE phase = "walking"
  <2>1. Strangers' \in SUBSET (Strangers \cup {j})
    BY <1>3, <1>6 DEF Strangers
  <2>2. Cardinality(Strangers') <= Cardinality(Strangers) + 1
    <3>1. {j} \in SUBSET Id /\ \A a, b \in {j} : a = b
      OBVIOUS
    <3> QED
      BY <2>1, <3>1, BookTyped, OneMore
  <2>3. Overlooked' \in SUBSET Overlooked
    BY <1>1, <1>3, <1>4, <1>5, <1>6 DEF Overlooked
  <2>4. Cardinality(Overlooked') <= Cardinality(Overlooked)
    BY <2>3, BookTyped, Smaller
  <2>5. Cardinality(Live') = Cardinality(Live) + 1
    BY <1>3, BookTyped, IdsFinite, FS_AddElement
  <2>6. added' = added + 1
    BY <1>6, <1>7 DEF Walked
  <2>7. /\ Cardinality(Strangers') \in Nat /\ Cardinality(Overlooked') \in Nat
        /\ Cardinality(Strangers) \in Nat /\ Cardinality(Overlooked) \in Nat
        /\ Cardinality(Live) \in Nat /\ Cardinality(stable) \in Nat
    <3>1. Strangers' \in SUBSET Id /\ Overlooked' \in SUBSET Id
      BY <2>1, <2>3, BookTyped
    <3> QED
      BY <3>1, IdsFinite, BookTyped
  <2> QED
    BY <1>1, <1>6, <1>7, <2>2, <2>4, <2>5, <2>6, <2>7 DEF WalkBook
<1>8. CASE phase # "walking"
  BY <1>6, <1>8 DEF WalkBook, Walked
<1> QED
  BY <1>7, <1>8

(* A DELETE hides one profile: the deleted one if it was yet to come, and  *)
(* otherwise the one that moves to the place before the offset.            *)
LEMMA BookDelete ==
    ASSUME TypeOK, TypeOK', WalkBook, NEW j \in Id, Delete(j)
    PROVE  WalkBook'
<1>1. rows \in Table /\ rows' \in Table /\ offset \in Nat /\ removed \in Nat /\ added \in Nat
  BY DEF TypeOK, Table
<1>2. rows[j] # None /\ rows'[j] = None /\ \A i \in Id \ {j} : rows[i] = rows'[i]
  BY DEF Delete, TypeOK
<1>3. Live' = Live \ {j} /\ j \in Live
  BY <1>2 DEF Live
<1>4. \A i \in Live' : Position(i)' <= Position(i) /\ Position(i) <= Position(i)' + 1
  BY <1>1, <1>2, Current, OneMoreRow
<1>5. \A i : Position(i) \in Nat /\ Position(i)' \in Nat
  BY Current, BelowTyped
<1>6. /\ phase' = phase /\ offset' = offset /\ seen' = seen /\ stable' = stable
      /\ added' = added /\ removed' = Walked(removed)
  BY DEF Delete, walk
<1>7. CASE phase = "walking"
  <2> DEFINE Moved == {i \in Live : Position(i) = offset}
  <2>1. Strangers' \in SUBSET Strangers
    BY <1>3, <1>6 DEF Strangers
  <2>2. Cardinality(Strangers') <= Cardinality(Strangers)
    BY <2>1, BookTyped, Smaller
  <2>3. \E E \in SUBSET Id : /\ \A a, b \in E : a = b
                             /\ Overlooked' \in SUBSET (Overlooked \cup E)
    <3>1. CASE Position(j) < offset
      <4>1. Overlooked' \in SUBSET (Overlooked \cup Moved)
        BY <1>1, <1>3, <1>4, <1>5, <1>6, <3>1 DEF Overlooked
      <4>2. Moved \in SUBSET Id /\ \A a, b \in Moved : a = b
        <5>1. \A a, b \in Live : Place(rows, a) = Place(rows, b) => a = b
          BY <1>1, Current, PlacesDistinct
        <5> QED
          BY <1>1, <1>5, <5>1, Current DEF Live
      <4> QED
        BY <4>1, <4>2
    <3>2. CASE offset <= Position(j)
      <4>1. \A i \in Live' : offset <= Position(i) => offset <= Position(i)'
        <5> SUFFICES ASSUME NEW i \in Live', offset <= Position(i), Position(i)' < offset
                     PROVE  FALSE
          BY <1>1, <1>5
        <5>1. Position(i) = offset
          BY <1>1, <1>4, <1>5
        <5>2. i \in LiveIn(rows) /\ i # j /\ j \in LiveIn(rows)
          BY <1>3, Current
        <5>3. Place(rows, i) <= Place(rows, j)
          BY <3>2, <5>1, Current
        <5>4. \A l \in Id \ {j} : rows'[l] = rows[l]
          BY <1>2
        <5>5. Place(rows', i) = Place(rows, i)
          BY <1>1, <1>2, <5>2, <5>3, <5>4, NotBefore
        <5> QED
          BY <1>1, <1>5, <5>1, <5>5, Current
      <4>2. Overlooked' \in SUBSET (Overlooked \cup {j})
        BY <1>1, <1>3, <1>5, <1>6, <4>1 DEF Overlooked
      <4> QED
        BY <4>2
    <3> QED
      BY <1>1, <1>5, <3>1, <3>2
  <2>4. PICK E \in SUBSET Id : /\ \A a, b \in E : a = b
                               /\ Overlooked' \in SUBSET (Overlooked \cup E)
    BY <2>3
  <2>5. Cardinality(Overlooked') <= Cardinality(Overlooked) + 1
    BY <2>4, BookTyped, OneMore
  <2>6. Cardinality(Live') = Cardinality(Live) - 1
    BY <1>3, BookTyped, IdsFinite, FS_RemoveElement
  <2>7. removed' = removed + 1
    BY <1>6, <1>7 DEF Walked
  <2>8. /\ Cardinality(Strangers') \in Nat /\ Cardinality(Overlooked') \in Nat
        /\ Cardinality(Strangers) \in Nat /\ Cardinality(Overlooked) \in Nat
        /\ Cardinality(Live) \in Nat /\ Cardinality(stable) \in Nat
    <3>1. Strangers' \in SUBSET Id /\ Overlooked' \in SUBSET Id
      BY <2>1, <2>4, BookTyped
    <3> QED
      BY <3>1, IdsFinite, BookTyped
  <2> QED
    BY <1>1, <1>6, <1>7, <2>2, <2>5, <2>6, <2>7, <2>8 DEF WalkBook
<1>8. CASE phase # "walking"
  BY <1>6, <1>8 DEF WalkBook, Walked
<1> QED
  BY <1>7, <1>8

(* The account is balanced when a walk begins. *)
LEMMA BookBegins == TypeOK /\ TypeOK' /\ WalkSoFar /\ BeginWalk => WalkBook'
<1> SUFFICES ASSUME TypeOK, TypeOK', WalkSoFar, BeginWalk PROVE WalkBook'
  OBVIOUS
<1>1. /\ phase' = "walking" /\ offset' = 0 /\ seen' = {} /\ stable' = Live
      /\ added' = 0 /\ removed' = 0 /\ rows' = rows
  BY DEF BeginWalk, WalkSoFar, table
<1>2. Live' = Live
  BY <1>1 DEF Live
<1>3. \A i : Position(i)' \in Nat
  BY Current, BelowTyped
<1>4. Strangers' = {} /\ Overlooked' = {}
  BY <1>1, <1>2, <1>3 DEF Strangers, Overlooked
<1>5. Cardinality(Strangers') = 0 /\ Cardinality(Overlooked') = 0
  BY <1>4, FS_EmptySet
<1>6. Cardinality(Live) \in Nat
  BY BookTyped
<1> QED
  BY <1>1, <1>2, <1>5, <1>6 DEF WalkBook

(* The rows before a full page and the rows on it are that many rows. *)
LEMMA PagesFit ==
    ASSUME NEW T \in Table, NEW from \in Nat, NEW limit \in Nat, limit # 0,
           NEW page, page = {l \in LiveIn(T) : from <= Place(T, l) /\ Place(T, l) < from + limit},
           limit <= Cardinality(page)
    PROVE  from + limit <= Cardinality(LiveIn(T))
<1> DEFINE ahead == {l \in LiveIn(T) : 0 <= Place(T, l) /\ Place(T, l) < 0 + from}
<1>1. page \in SUBSET LiveIn(T) /\ ahead \in SUBSET LiveIn(T) /\ LiveIn(T) \in SUBSET Id
  BY DEF LiveIn
<1>2. page # {}
  <2>1. SUFFICES ASSUME page = {} PROVE FALSE
    OBVIOUS
  <2> QED
    BY <2>1, FS_EmptySet
<1>3. PICK i \in page : TRUE
  BY <1>2
<1>4. i \in LiveIn(T) /\ 0 + from <= Place(T, i)
  BY <1>3
<1>5. from <= Cardinality(ahead)
  BY <1>4, FullPage
<1>6. ahead \cap page = {}
  BY BelowTyped
<1> HIDE DEF ahead
<1>7. Cardinality(ahead) + Cardinality(page) <= Cardinality(LiveIn(T))
  BY <1>1, <1>6, DisjointSum
<1>8. /\ Cardinality(ahead) \in Nat /\ Cardinality(page) \in Nat
      /\ Cardinality(LiveIn(T)) \in Nat
  <2>1. ahead \in SUBSET Id /\ page \in SUBSET Id
    BY <1>1
  <2> QED
    BY <1>1, <2>1, IdsFinite
<1> QED
  BY <1>5, <1>7, <1>8

(* A full page leaves the offset inside the table; after a short one       *)
(* nothing is to come, so what was not shown is overlooked.                *)
LEMMA BookShows == TypeOK /\ TypeOK' /\ WalkBook /\ ListDeviceProfiles => WalkBook'
<1> SUFFICES ASSUME TypeOK, TypeOK', WalkBook, ListDeviceProfiles PROVE WalkBook'
  OBVIOUS
<1> DEFINE page == ListByUser(Requested, offset)
<1>1. /\ phase = "walking" /\ seen' = seen \cup page
      /\ phase' = IF Cardinality(page) < Requested THEN "done" ELSE "walking"
      /\ offset' = offset + Requested
      /\ UNCHANGED <<rows, stable, added, removed>>
  BY LengthKept DEF ListDeviceProfiles, table
<1>2. /\ rows \in Table /\ offset \in Nat /\ Requested \in Nat /\ Requested # 0
      /\ added \in Nat /\ removed \in Nat
  <2>1. Requested # 0
    BY ListingAssumption DEF Requested, TypeOK
  <2> QED
    BY <2>1, LengthKept DEF TypeOK, Table
<1>3. Live' = Live /\ \A i : Position(i)' = Position(i)
  BY <1>1, Current
<1>4. \A i : Position(i) \in Nat
  BY Current, BelowTyped
<1>5. page = {i \in Live : offset <= Position(i) /\ Position(i) < offset + Requested}
  BY DEF ListByUser
<1>6. page = {l \in LiveIn(rows) : offset <= Place(rows, l) /\ Place(rows, l) < offset + Requested}
  BY <1>5, Current
<1> HIDE DEF page
<1>7. Strangers' = Strangers
  BY <1>1, <1>3, <1>5 DEF Strangers
<1>8. Overlooked' \in SUBSET Overlooked
  BY <1>1, <1>2, <1>3, <1>4, <1>5 DEF Overlooked
<1>9. Cardinality(Overlooked') <= Cardinality(Overlooked)
  BY <1>8, BookTyped, Smaller
<1>10. /\ Cardinality(Overlooked') \in Nat /\ Cardinality(Overlooked) \in Nat
       /\ Cardinality(Strangers) \in Nat /\ Cardinality(Live) \in Nat
       /\ Cardinality(page) \in Nat
  <2>1. Overlooked' \in SUBSET Id /\ page \in SUBSET Id
    BY <1>5, <1>8, BookTyped DEF Live
  <2> QED
    BY <2>1, IdsFinite, BookTyped
<1>11. /\ Cardinality(Strangers) <= added /\ Cardinality(Overlooked) <= removed
       /\ Cardinality(Live) + removed = Cardinality(stable) + added
  BY <1>1 DEF WalkBook
<1>12. Cardinality(Overlooked') <= removed
  BY <1>2, <1>9, <1>10, <1>11
<1>13. CASE Requested <= Cardinality(page)
  <2>1. phase' = "walking"
    BY <1>1, <1>2, <1>10, <1>13
  <2>2. offset + Requested <= Cardinality(LiveIn(rows))
    BY <1>2, <1>6, <1>13, PagesFit
  <2>3. offset' <= Cardinality(Live') + removed'
    BY <1>1, <1>2, <1>3, <1>10, <2>2, Current
  <2> QED
    BY <1>1, <1>3, <1>7, <1>11, <1>12, <2>1, <2>3 DEF WalkBook
<1>14. CASE Cardinality(page) < Requested
  <2>1. phase' = "done"
    BY <1>1, <1>14
  <2>2. \A i \in Live : Position(i) < offset + Requested
    <3> SUFFICES ASSUME NEW i \in Live, offset + Requested <= Position(i) PROVE FALSE
      BY <1>2, <1>4
    <3>1. Requested <= Cardinality(page)
      BY <1>2, <1>6, Current, FullPage
    <3> QED
      BY <1>2, <1>10, <1>14, <3>1
  <2>3. (stable \ seen)' = Overlooked'
    BY <1>1, <1>3, <2>2 DEF Overlooked
  <2>4. (seen \ stable)' \in SUBSET Strangers
    BY <1>1, <1>5 DEF Strangers
  <2>5. Cardinality((seen \ stable)') <= Cardinality(Strangers)
    BY <2>4, BookTyped, Smaller
  <2>6. Cardinality((seen \ stable)') \in Nat
    <3>1. (seen \ stable)' \in SUBSET Id
      BY <2>4, BookTyped
    <3> QED
      BY <3>1, IdsFinite
  <2>7. Cardinality((seen \ stable)') <= added
    BY <1>2, <1>10, <1>11, <2>5, <2>6
  <2> QED
    BY <1>1, <1>12, <2>1, <2>3, <2>7 DEF WalkBook
<1> QED
  BY <1>2, <1>10, <1>13, <1>14

(* Every step keeps the balance. *)
LEMMA BookPreserved == Ind /\ TypeOK' /\ WalkBook /\ [Next]_vars => WalkBook'
<1> SUFFICES ASSUME Ind, TypeOK', WalkBook, [Next]_vars PROVE WalkBook'
  OBVIOUS
<1>0. TypeOK /\ WalkSoFar
  BY DEF Ind
<1>1. CASE Tick
  BY <1>0, <1>1, BookQuiet DEF Tick, table
<1>2. ASSUME NEW i \in Id, Create(i) \/ InsertRefused(i) PROVE WalkBook'
  BY <1>0, <1>2, BookQuiet DEF Create, InsertRefused
<1>3. ASSUME NEW i \in Id, Insert(i) PROVE WalkBook'
  BY <1>0, <1>3, BookInsert
<1>4. ASSUME NEW i \in Id, Delete(i) PROVE WalkBook'
  BY <1>0, <1>4, BookDelete
<1>5. ASSUME NEW p \in Patcher, Update(p) PROVE WalkBook'
  BY <1>0, <1>5, UpdateKeepsOrder, BookQuiet DEF Update
<1>6. ASSUME NEW p \in Patcher, NEW i \in Id, Patch(p, i) PROVE WalkBook'
  BY <1>0, <1>6, BookQuiet DEF Patch
<1>7. CASE BeginWalk
  BY <1>0, <1>7, BookBegins
<1>8. CASE ListDeviceProfiles
  BY <1>0, <1>8, BookShows
<1>9. CASE UNCHANGED vars
  BY <1>0, <1>9, BookQuiet DEF vars, table
<1> QED
  BY <1>1, <1>2, <1>3, <1>4, <1>5, <1>6, <1>7, <1>8, <1>9 DEF Next

(* The balance holds in every state. *)
THEOREM WalksBalance == Spec => [](Ind /\ WalkBook)
<1>1. Init => WalkBook
  BY DEF Init, WalkBook
<1>2. Ind /\ Ind' /\ WalkBook /\ [Next]_vars => WalkBook'
  BY BookPreserved DEF Ind
<1> QED
  BY <1>1, <1>2, ListingInvariance, PTL DEF Spec

(* A finished walk differs from the table it began with by one profile per *)
(* insertion and one per deletion, for any table and any page length.      *)
THEOREM WalksTellTheTruth == Spec => []WalksAreTrue
<1>1. WalkBook => WalksAreTrue
  BY DEF WalkBook, WalksAreTrue
<1> QED
  BY <1>1, WalksBalance, PTL

(* A walk beside no create and no delete is exact. *)
THEOREM UndisturbedWalks == Spec => []QuietWalksAreExact
<1>1. Ind /\ WalkBook => QuietWalksAreExact
  <2> SUFFICES ASSUME Ind, WalkBook, phase = "done", added = 0, removed = 0
               PROVE  seen = stable /\ repeats = 0
    BY DEF QuietWalksAreExact
  <2>1. Cardinality(seen \ stable) <= 0 /\ Cardinality(stable \ seen) <= 0
    BY DEF WalkBook
  <2>2. /\ Cardinality(seen \ stable) \in Nat /\ Cardinality(stable \ seen) \in Nat
        /\ IsFiniteSet(seen \ stable) /\ IsFiniteSet(stable \ seen)
    <3>1. seen \ stable \in SUBSET Id /\ stable \ seen \in SUBSET Id
      BY DEF Ind, TypeOK
    <3> QED
      BY <3>1, IdsFinite
  <2>3. Cardinality(seen \ stable) = 0 /\ Cardinality(stable \ seen) = 0
    BY <2>1, <2>2
  <2>4. seen \ stable = {} /\ stable \ seen = {}
    BY <2>2, <2>3, FS_EmptySet
  <2>5. seen = stable
    BY <2>4
  <2>6. repeats \in Nat /\ repeats <= added
    BY DEF Ind, TypeOK, WalkSoFar, RepeatsExplained
  <2>7. repeats = 0
    BY <2>6
  <2> QED
    BY <2>5, <2>7
<1> QED
  BY <1>1, WalksBalance, PTL

(* The offset of a walk is bounded by what it began with and the inserts.  *)
THEOREM WalksAreBounded == Spec => []OffsetIsBounded
<1>1. WalkBook => OffsetIsBounded
  BY DEF WalkBook, OffsetIsBounded
<1> QED
  BY <1>1, WalksBalance, PTL
=============================================================================
