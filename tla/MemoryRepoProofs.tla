------------------------- MODULE MemoryRepoProofs -------------------------
(***************************************************************************)
(* The two maps agree, and the memory adapter implements the port, for any *)
(* finite set of ids and any pages.                                        *)
(***************************************************************************)
EXTENDS MemoryRepo, FiniteSetTheorems, FunctionTheorems, TLAPS

Rows ==
    /\ DOMAIN byID \subseteq ID /\ byID \in [DOMAIN byID -> Profile]
    /\ \A i \in DOMAIN byID : byID[i].ID = i
Names == DOMAIN byUserNm \subseteq User \X Name /\ byUserNm \in [DOMAIN byUserNm -> ID]
Shown ==
    /\ reply.result \in {"none", "ok", "duplicate_name", "not_found"}
    /\ reply.profiles \subseteq Profile /\ Cardinality(reply.profiles) <= MaxLimit

Ind == Rows /\ Names /\ Shown /\ MapsAgree

(* What Without leaves of a map. *)
LEMMA WithoutEffect ==
    ASSUME NEW m, NEW k, NEW S, NEW T, m \in [DOMAIN m -> T], DOMAIN m \subseteq S
    PROVE  /\ DOMAIN Without(m, k) = DOMAIN m \ {k}
           /\ DOMAIN Without(m, k) \subseteq S
           /\ Without(m, k) \in [DOMAIN Without(m, k) -> T]
           /\ \A x \in DOMAIN Without(m, k) : Without(m, k)[x] = m[x]
  BY DEF Without

(* A profile's key is a user and a name. *)
LEMMA KeyTyped == \A p \in Profile : Key(p) \in User \X Name
  BY DEF Key, Profile

(* Two keys are equal when their parts are. *)
LEMMA KeyParts ==
    \A p, q \in Profile : Key(p) = Key(q) <=> p.UserID = q.UserID /\ p.Name = q.Name
  BY DEF Key

(* A reply that is no listing shows one profile or none. *)
LEMMA FewShown ==
    /\ Cardinality({}) = 0
    /\ \A p : Cardinality({p}) = 1
  BY FS_EmptySet, FS_Singleton

(* Replies without a listing. *)
LEMMA ReplyTyped ==
    ASSUME NEW result \in {"ok", "duplicate_name", "not_found"}, NEW S \in SUBSET Profile,
           S = {} \/ (\E p \in Profile : S = {p}), Return(result, S)
    PROVE  Shown'
<1>1. Cardinality(S) <= MaxLimit
  BY FewShown, MemoryAssumption
<1> QED
  BY <1>1 DEF Return, Shown

(***************************************************************************)
(* A name leads to the profile that has it, so a lookup in byUserNm tells  *)
(* whether another profile has the name.                                   *)
(***************************************************************************)
LEMMA TakenMeansIndexed ==
    ASSUME Ind, NEW p \in Profile,
           \/ p.ID \notin DOMAIN byID
           \/ Holds(p.UserID, p.ID) /\ byID[p.ID].Name # p.Name
    PROVE  Key(p) \in DOMAIN byUserNm <=> Port!NameTaken(p)
<1>1. ASSUME Key(p) \in DOMAIN byUserNm PROVE Port!NameTaken(p)
  <2> DEFINE i == byUserNm[Key(p)]
  <2>1. i \in DOMAIN byID /\ Key(byID[i]) = Key(p) /\ byID[i] \in Profile
    BY <1>1 DEF Ind, MapsAgree, Rows
  <2>2. byID[i].UserID = p.UserID /\ byID[i].Name = p.Name
    BY <2>1, KeyParts
  <2>3. i # p.ID
    BY <2>1, <2>2
  <2> HIDE DEF i
  <2> QED
    BY <2>1, <2>2, <2>3 DEF Port!NameTaken
<1>2. ASSUME Port!NameTaken(p) PROVE Key(p) \in DOMAIN byUserNm
  <2>1. PICK i \in DOMAIN byID : i # p.ID /\ byID[i].UserID = p.UserID /\ byID[i].Name = p.Name
    BY <1>2 DEF Port!NameTaken
  <2>2. Key(byID[i]) = Key(p)
    BY <2>1 DEF Key
  <2> QED
    BY <2>1, <2>2 DEF Ind, MapsAgree
<1> QED
  BY <1>1, <1>2

(* A profile that keeps its name collides with no other, as the maps agree. *)
LEMMA SameNameNotTaken ==
    ASSUME Ind, NEW p \in Profile, Holds(p.UserID, p.ID), byID[p.ID].Name = p.Name
    PROVE  ~Port!NameTaken(p)
<1> SUFFICES ASSUME Port!NameTaken(p) PROVE FALSE
  OBVIOUS
<1>1. PICK i \in DOMAIN byID : i # p.ID /\ byID[i].UserID = p.UserID /\ byID[i].Name = p.Name
  BY DEF Port!NameTaken
<1>2. Key(byID[i]) = Key(byID[p.ID])
  BY <1>1 DEF Key, Holds
<1> QED
  BY <1>1, <1>2 DEF Ind, MapsAgree, Holds

(***************************************************************************)
(* One lemma per method: it keeps the invariant and does what the port     *)
(* says.                                                                   *)
(***************************************************************************)
LEMMA InsertStep ==
    ASSUME Ind, NEW p \in Profile, Insert(p)
    PROVE  Ind' /\ Port!Insert(p)
<1>1. Key(p) \in DOMAIN byUserNm <=> Port!NameTaken(p)
  BY TakenMeansIndexed DEF Insert
<1>2. CASE Key(p) \in DOMAIN byUserNm /\ Fails("duplicate_name")
  <2>1. Shown'
    BY <1>2, ReplyTyped DEF Fails
  <2> QED
    BY <1>1, <1>2, <2>1 DEF Insert, Fails, Return, Ind, Rows, Names, MapsAgree, Port!Insert,
       Port!Refused, Port!Answer
<1>3. CASE /\ Key(p) \notin DOMAIN byUserNm
           /\ byID' = Put(byID, p.ID, p) /\ byUserNm' = Put(byUserNm, Key(p), p.ID)
           /\ Return("ok", {})
  <2>1. /\ DOMAIN byID' = DOMAIN byID \cup {p.ID} /\ DOMAIN byID' \subseteq ID
        /\ byID' \in [DOMAIN byID' -> Profile]
        /\ byID'[p.ID] = p
        /\ \A i \in DOMAIN byID : i # p.ID => byID'[i] = byID[i]
    <3>1. p.ID \in ID
      BY DEF Profile
    <3> QED
      BY <1>3, <3>1 DEF Put, Ind, Rows
  <2>2. /\ DOMAIN byUserNm' = DOMAIN byUserNm \cup {Key(p)}
        /\ DOMAIN byUserNm' \subseteq User \X Name
        /\ byUserNm' \in [DOMAIN byUserNm' -> ID]
        /\ byUserNm'[Key(p)] = p.ID
        /\ \A k \in DOMAIN byUserNm : k # Key(p) => byUserNm'[k] = byUserNm[k]
    <3>1. p.ID \in ID /\ Key(p) \in User \X Name
      BY KeyTyped DEF Profile
    <3> QED
      BY <1>3, <3>1 DEF Put, Ind, Names
  <2>3. Rows' /\ Names'
    BY <2>1, <2>2 DEF Ind, Rows, Names
  <2>4. Shown'
    BY <1>3, ReplyTyped
  <2>5. MapsAgree'
    <3>1. p.ID \notin DOMAIN byID
      BY DEF Insert
    <3>2. ASSUME NEW k \in DOMAIN byUserNm'
          PROVE  byUserNm'[k] \in DOMAIN byID' /\ Key(byID'[byUserNm'[k]]) = k
      BY <1>3, <2>1, <2>2, <3>1 DEF Ind, MapsAgree
    <3>3. ASSUME NEW i \in DOMAIN byID'
          PROVE  Key(byID'[i]) \in DOMAIN byUserNm' /\ byUserNm'[Key(byID'[i])] = i
      BY <1>3, <2>1, <2>2, <3>1 DEF Ind, MapsAgree
    <3> QED
      BY <3>2, <3>3 DEF MapsAgree, Key
  <2>6. Port!Insert(p)
    BY <1>1, <1>3 DEF Insert, Port!Insert, Put, Return, Port!Answer
  <2> QED
    BY <2>3, <2>4, <2>5, <2>6 DEF Ind
<1> QED
  BY <1>2, <1>3 DEF Insert

(* A lookup is a lookup of the port. *)
LEMMA GetByIDStep ==
    ASSUME Ind, NEW user \in User, NEW id \in ID, GetByID(user, id)
    PROVE  Ind' /\ Port!GetByID(user, id)
<1>1. Shown'
  <2>1. CASE Holds(user, id)
    <3>1. byID[id] \in Profile
      BY <2>1 DEF Holds, Ind, Rows
    <3> QED
      BY <2>1, <3>1, ReplyTyped DEF GetByID
  <2>2. CASE ~Holds(user, id)
    BY <2>2, ReplyTyped DEF GetByID
  <2> QED
    BY <2>1, <2>2
<1> QED
  BY <1>1 DEF GetByID, Ind, Rows, Names, MapsAgree, Key, Holds, Return, Port!GetByID, Port!Owned,
     Port!Answer

(* A user's profiles are finitely many. *)
LEMMA OwnFinite ==
    ASSUME Ind, NEW user \in User
    PROVE  /\ Port!OwnRows(user) \subseteq Profile
           /\ IsFiniteSet(Port!OwnRows(user))
           /\ Cardinality(Port!OwnRows(user)) \in Nat
<1> DEFINE own == Port!OwnRows(user)
           f == [p \in own |-> p.ID]
<1>1. \A p \in own : p \in Profile /\ p.ID \in DOMAIN byID /\ byID[p.ID] = p
  BY DEF Port!OwnRows, Ind, Rows
<1>2. f \in [own -> ID]
  BY <1>1 DEF Profile
<1>3. \A p, q \in own : f[p] = f[q] => p = q
  BY <1>1
<1> HIDE DEF own, f
<1>4. f \in Injection(own, ID)
  BY <1>2, <1>3, Fun_IsInj
<1>5. IsFiniteSet(own)
  BY <1>4, FS_Injection, MemoryAssumption
<1> QED
  BY <1>1, <1>5, FS_CardinalityType DEF own

(* A stretch of a sequence without repetitions has as many elements as     *)
(* places.                                                                 *)
LEMMA StretchSize ==
    ASSUME NEW S, NEW out \in SetToSeqs(S), IsFiniteSet(S), NEW lo \in Nat, NEW hi \in Nat,
           lo < hi, hi <= Cardinality(S)
    PROVE  Slice(out, lo, hi) \subseteq S /\ Cardinality(Slice(out, lo, hi)) = hi - lo
<1> DEFINE places == lo + 1 .. hi
           shown == {out[k] : k \in places}
           g == [k \in places |-> out[k]]
<1>1. /\ Cardinality(S) \in Nat
      /\ out \in [1..Cardinality(S) -> S]
      /\ \A i, j \in 1..Cardinality(S) : i # j => out[i] # out[j]
  BY FS_CardinalityType DEF SetToSeqs
<1>2. places \subseteq 1..Cardinality(S)
  BY <1>1
<1>3. shown \subseteq S
  BY <1>1, <1>2
<1>4. g \in [places -> shown] /\ (\A i, j \in places : g[i] = g[j] => i = j)
  BY <1>1, <1>2
<1>5. \A y \in shown : \E k \in places : g[k] = y
  OBVIOUS
<1>6. IsFiniteSet(places) /\ Cardinality(places) = hi - lo
  <2>1. IsFiniteSet(places) /\ Cardinality(places) = IF lo + 1 > hi THEN 0 ELSE hi - (lo + 1) + 1
    BY FS_Interval
  <2> QED
    BY <2>1
<1> HIDE DEF places, shown, g
<1>7. g \in Injection(places, shown)
  BY <1>4, Fun_IsInj
<1>8. g \in Surjection(places, shown)
  BY <1>4, <1>5, Fun_IsSurj
<1>9. ExistsBijection(places, shown)
  BY <1>7, <1>8 DEF ExistsBijection, Bijection
<1>10. Cardinality(shown) = hi - lo
  BY <1>6, <1>9, FS_Bijection
<1> QED
  BY <1>3, <1>10 DEF shown, places, Slice

(* The port counts with the same Cardinality. *)
LEMMA PortCounts == \A S : Port!Cardinality(S) = Cardinality(S)
  BY DEF Port!Cardinality, Cardinality

(* A slice of the owner's profiles, in any order, is a page of the port. *)
LEMMA ListByUserStep ==
    ASSUME Ind, NEW user \in User, NEW raw \in RawPage, ListByUser(user, raw)
    PROVE  Ind' /\ Port!ListByUser(user, raw)
<1> DEFINE page == Normalize(raw)
           own == Port!OwnRows(user)
           total == Cardinality(own)
           end == IF page.offset + page.limit > total THEN total ELSE page.offset + page.limit
           left == total - (IF raw.offset < 0 THEN 0 ELSE raw.offset)
<1>1. PICK out \in SetToSeqs(own) :
         Return("ok", IF page.offset >= total THEN {} ELSE Slice(out, page.offset, end))
  BY DEF ListByUser, Port!OwnRows
<1>2. /\ page.limit \in 1..MaxLimit /\ page.offset \in Nat
      /\ raw.limit \in 1..MaxLimit => page.limit = raw.limit
      /\ page.offset = IF raw.offset < 0 THEN 0 ELSE raw.offset
  BY MemoryAssumption DEF Normalize
<1>3. own \subseteq Profile /\ IsFiniteSet(own) /\ total \in Nat
  BY OwnFinite
<1> DEFINE shown == IF page.offset >= total THEN {} ELSE Slice(out, page.offset, end)
<1>4. /\ shown \subseteq own
      /\ Cardinality(shown) =
           IF left <= 0 THEN 0 ELSE IF left < page.limit THEN left ELSE page.limit
  <2>1. CASE page.offset >= total
    BY <1>2, <1>3, <2>1, FewShown
  <2>2. CASE page.offset < total
    <3>1. end \in Nat /\ page.offset < end /\ end <= total
      BY <1>2, <1>3, <2>2
    <3> HIDE DEF own, end, page
    <3>2. /\ Slice(out, page.offset, end) \subseteq own
          /\ Cardinality(Slice(out, page.offset, end)) = end - page.offset
      BY <1>1, <1>2, <1>3, <3>1, StretchSize
    <3>3. shown = Slice(out, page.offset, end)
      BY <1>2, <1>3, <2>2
    <3>4. end - page.offset = IF left < page.limit THEN left ELSE page.limit
      BY <1>2, <1>3, <2>2 DEF end
    <3>5. left \in Int /\ left > 0
      BY <1>2, <1>3, <2>2
    <3> HIDE DEF shown, left
    <3> QED
      BY <3>2, <3>3, <3>4, <3>5, <1>2
  <2> QED
    BY <2>1, <2>2, <1>2, <1>3
<1>5. reply' = [result |-> "ok", profiles |-> shown]
  BY <1>1 DEF Return
<1>6. UNCHANGED <<byID, byUserNm>>
  BY DEF ListByUser
<1> HIDE DEF shown, own, page
<1>7. Cardinality(shown) <= MaxLimit
  BY <1>2, <1>3, <1>4, MemoryAssumption
<1>8. Shown'
  BY <1>3, <1>4, <1>5, <1>7 DEF Shown
<1>9. Ind'
  BY <1>6, <1>8 DEF Ind, Rows, Names, MapsAgree, Key
<1>10. Port!ListByUser(user, raw)
  <2>1. shown \in SUBSET Port!OwnRows(user)
    BY <1>4 DEF own
  <2>2. Cardinality(shown) =
          LET rest == Cardinality(Port!OwnRows(user)) - (IF raw.offset < 0 THEN 0 ELSE raw.offset)
          IN IF rest <= 0 THEN 0 ELSE IF rest < page.limit THEN rest ELSE page.limit
    BY <1>4 DEF own
  <2> QED
    <3>1. Port!Answer("ok", shown) /\ UNCHANGED byID
      BY <1>5, <1>6 DEF Port!Answer
    <3> QED
      BY <1>2, <2>1, <2>2, <3>1, PortCounts DEF Port!ListByUser
<1> QED
  BY <1>9, <1>10

(* An update is an update of the port: the second map refuses what the rows refuse. *)
LEMMA UpdateStep ==
    ASSUME Ind, NEW p \in Profile, Update(p)
    PROVE  Ind' /\ Port!Update(p)
<1>1. Holds(p.UserID, p.ID) <=> Port!Owned(p.UserID, p.ID)
  BY DEF Holds, Port!Owned
<1>2. CASE ~Holds(p.UserID, p.ID) /\ Fails("not_found")
  <2>1. Shown'
    BY <1>2, ReplyTyped DEF Fails
  <2> QED
    BY <1>1, <1>2, <2>1 DEF Fails, Return, Ind, Rows, Names, MapsAgree, Key, Port!Update,
       Port!Refused, Port!Answer
<1>3. CASE /\ Holds(p.UserID, p.ID) /\ byID[p.ID].Name # p.Name /\ Key(p) \in DOMAIN byUserNm
           /\ Fails("duplicate_name")
  <2>1. Shown'
    BY <1>3, ReplyTyped DEF Fails
  <2>2. Port!NameTaken(p)
    BY <1>3, TakenMeansIndexed
  <2> QED
    BY <1>1, <1>3, <2>1, <2>2 DEF Fails, Return, Ind, Rows, Names, MapsAgree, Key, Port!Update,
       Port!Refused, Port!Answer
<1>4. CASE /\ Holds(p.UserID, p.ID)
           /\ \/ byID[p.ID].Name = p.Name /\ UNCHANGED byUserNm
              \/ byID[p.ID].Name # p.Name /\ Key(p) \notin DOMAIN byUserNm /\ Rename(p)
           /\ byID' = [byID EXCEPT ![p.ID] = p]
           /\ Return("ok", {})
  <2>1. p.ID \in DOMAIN byID /\ byID[p.ID] \in Profile /\ byID[p.ID].UserID = p.UserID
    BY <1>4 DEF Holds, Ind, Rows
  <2>2. /\ DOMAIN byID' = DOMAIN byID /\ byID' \in [DOMAIN byID' -> Profile]
        /\ byID'[p.ID] = p
        /\ \A i \in DOMAIN byID : i # p.ID => byID'[i] = byID[i]
    BY <1>4, <2>1 DEF Ind, Rows
  <2>3. Rows'
    BY <2>2 DEF Ind, Rows
  <2>4. Shown'
    BY <1>4, ReplyTyped
  <2>5. ~Port!NameTaken(p)
    BY <1>4, TakenMeansIndexed, SameNameNotTaken
  <2>6. Port!Update(p)
    BY <1>1, <1>4, <2>5 DEF Port!Update, Return, Port!Answer
  <2>7. CASE byID[p.ID].Name = p.Name /\ UNCHANGED byUserNm
    <3>1. Key(byID[p.ID]) = Key(p)
      BY <2>1, <2>7 DEF Key
    <3>2. \A i \in DOMAIN byID : Key(byID'[i]) = Key(byID[i])
      BY <2>2, <3>1
    <3>3. MapsAgree'
      BY <2>2, <2>7, <3>2 DEF Ind, MapsAgree, Key
    <3> QED
      BY <2>3, <2>4, <2>6, <2>7, <3>3 DEF Ind, Names
  <2>8. CASE byID[p.ID].Name # p.Name /\ Key(p) \notin DOMAIN byUserNm /\ Rename(p)
    <3> DEFINE old == Key(byID[p.ID])
               freed == Without(byUserNm, old)
    <3>1. /\ DOMAIN freed = DOMAIN byUserNm \ {old}
          /\ DOMAIN freed \subseteq User \X Name
          /\ freed \in [DOMAIN freed -> ID]
          /\ \A k \in DOMAIN freed : freed[k] = byUserNm[k]
      BY WithoutEffect DEF Ind, Names
    <3> HIDE DEF freed
    <3>2. p.ID \in ID /\ Key(p) \in User \X Name
      BY KeyTyped DEF Profile
    <3>3. byUserNm' = Put(freed, Key(p), p.ID)
      BY <2>8 DEF Rename, freed
    <3>4. /\ DOMAIN byUserNm' = DOMAIN freed \cup {Key(p)}
          /\ DOMAIN byUserNm' \subseteq User \X Name
          /\ byUserNm' \in [DOMAIN byUserNm' -> ID]
          /\ byUserNm'[Key(p)] = p.ID
          /\ \A k \in DOMAIN freed : k # Key(p) => byUserNm'[k] = freed[k]
      BY <3>1, <3>2, <3>3 DEF Put
    <3>5. old \in DOMAIN byUserNm /\ byUserNm[old] = p.ID
      BY <2>1 DEF Ind, MapsAgree
    <3> HIDE DEF old
    <3>6. ASSUME NEW k \in DOMAIN byUserNm'
          PROVE  byUserNm'[k] \in DOMAIN byID' /\ Key(byID'[byUserNm'[k]]) = k
      <4>1. CASE k = Key(p)
        BY <2>1, <2>2, <3>4, <4>1
      <4>2. CASE k # Key(p)
        <5>1. k \in DOMAIN byUserNm /\ k # old /\ byUserNm'[k] = byUserNm[k]
          BY <3>1, <3>4, <4>2
        <5>2. byUserNm[k] \in DOMAIN byID /\ Key(byID[byUserNm[k]]) = k
          BY <5>1 DEF Ind, MapsAgree
        <5>3. byUserNm[k] # p.ID
          BY <5>1, <5>2 DEF old
        <5> QED
          BY <2>2, <5>1, <5>2, <5>3
      <4> QED
        BY <4>1, <4>2
    <3>7. ASSUME NEW i \in DOMAIN byID'
          PROVE  Key(byID'[i]) \in DOMAIN byUserNm' /\ byUserNm'[Key(byID'[i])] = i
      <4>1. CASE i = p.ID
        BY <2>2, <3>4, <4>1
      <4>2. CASE i # p.ID
        <5>1. /\ byID'[i] = byID[i]
              /\ Key(byID[i]) \in DOMAIN byUserNm /\ byUserNm[Key(byID[i])] = i
          BY <2>2, <4>2 DEF Ind, MapsAgree
        <5>2. Key(byID[i]) # old
          BY <3>5, <4>2, <5>1
        <5>3. Key(byID[i]) # Key(p)
          BY <2>8, <5>1
        <5> QED
          BY <3>1, <3>4, <5>1, <5>2, <5>3
      <4> QED
        BY <4>1, <4>2
    <3>8. MapsAgree'
      BY <3>6, <3>7 DEF MapsAgree, Key
    <3> QED
      BY <2>3, <2>4, <2>6, <3>4, <3>8 DEF Ind, Names
  <2> QED
    BY <1>4, <2>7, <2>8
<1> QED
  BY <1>2, <1>3, <1>4 DEF Update

(* A delete is a delete of the port. *)
LEMMA DeleteStep ==
    ASSUME Ind, NEW user \in User, NEW id \in ID, Delete(user, id)
    PROVE  Ind' /\ Port!Delete(user, id)
<1>1. Holds(user, id) <=> Port!Owned(user, id)
  BY DEF Holds, Port!Owned
<1>2. CASE ~Holds(user, id) /\ Fails("not_found")
  <2>1. Shown'
    BY <1>2, ReplyTyped DEF Fails
  <2> QED
    BY <1>1, <1>2, <2>1 DEF Fails, Return, Ind, Rows, Names, MapsAgree, Key, Port!Delete,
       Port!Refused, Port!Answer
<1>3. CASE /\ Holds(user, id) /\ byID' = Without(byID, id)
           /\ byUserNm' = Without(byUserNm, Key(byID[id]))
           /\ Return("ok", {})
  <2> DEFINE old == Key(byID[id])
  <2>1. /\ DOMAIN byID' = DOMAIN byID \ {id} /\ DOMAIN byID' \subseteq ID
        /\ byID' \in [DOMAIN byID' -> Profile]
        /\ \A i \in DOMAIN byID' : byID'[i] = byID[i]
    BY <1>3, WithoutEffect DEF Ind, Rows
  <2>2. /\ DOMAIN byUserNm' = DOMAIN byUserNm \ {old}
        /\ DOMAIN byUserNm' \subseteq User \X Name
        /\ byUserNm' \in [DOMAIN byUserNm' -> ID]
        /\ \A k \in DOMAIN byUserNm' : byUserNm'[k] = byUserNm[k]
    BY <1>3, WithoutEffect DEF Ind, Names
  <2>3. old \in DOMAIN byUserNm /\ byUserNm[old] = id
    BY <1>3 DEF Holds, Ind, MapsAgree
  <2>4. Rows' /\ Names'
    BY <2>1, <2>2 DEF Ind, Rows, Names
  <2>5. Shown'
    BY <1>3, ReplyTyped
  <2>6. MapsAgree'
    <3>1. ASSUME NEW k \in DOMAIN byUserNm'
          PROVE  byUserNm'[k] \in DOMAIN byID' /\ Key(byID'[byUserNm'[k]]) = k
      <4>1. /\ k # old /\ byUserNm'[k] = byUserNm[k]
            /\ byUserNm[k] \in DOMAIN byID /\ Key(byID[byUserNm[k]]) = k
        BY <2>2 DEF Ind, MapsAgree
      <4> QED
        BY <2>1, <4>1
    <3>2. ASSUME NEW i \in DOMAIN byID'
          PROVE  Key(byID'[i]) \in DOMAIN byUserNm' /\ byUserNm'[Key(byID'[i])] = i
      <4>1. /\ i # id /\ byID'[i] = byID[i]
            /\ Key(byID[i]) \in DOMAIN byUserNm /\ byUserNm[Key(byID[i])] = i
        BY <2>1 DEF Ind, MapsAgree
      <4> HIDE DEF old
      <4>2. Key(byID[i]) # old
        BY <2>3, <4>1
      <4> QED
        BY <2>2, <4>1, <4>2
    <3> QED
      BY <3>1, <3>2 DEF MapsAgree, Key
  <2>7. Port!Delete(user, id)
    BY <1>1, <1>3 DEF Port!Delete, Without, Return, Port!Answer
  <2> QED
    BY <2>4, <2>5, <2>6, <2>7 DEF Ind
<1> QED
  BY <1>2, <1>3 DEF Delete

(* Empty maps are an empty store. *)
LEMMA InitStep == Init => Ind /\ Port!Init
<1> SUFFICES ASSUME Init PROVE Ind /\ Port!Init
  OBVIOUS
<1>1. Shown
  BY FewShown, MemoryAssumption DEF Init, Shown
<1> QED
  BY <1>1 DEF Init, Ind, Rows, Names, MapsAgree, Port!Init

(* Every step keeps the maps in agreement and is a step of the port. *)
LEMMA NextStep == Ind /\ [Next]_vars => Ind' /\ [Port!Next]_(Port!vars)
<1> SUFFICES ASSUME Ind, [Next]_vars PROVE Ind' /\ [Port!Next]_(Port!vars)
  OBVIOUS
<1>1. Profile = Port!Profile
  BY DEF Profile, Port!Profile
<1>2. ASSUME NEW p \in Profile, Insert(p) \/ Update(p) PROVE Ind' /\ Port!Next
  BY <1>1, <1>2, InsertStep, UpdateStep DEF Port!Next
<1>3. ASSUME NEW user \in User, NEW id \in ID, GetByID(user, id) \/ Delete(user, id)
      PROVE  Ind' /\ Port!Next
  BY <1>3, GetByIDStep, DeleteStep DEF Port!Next
<1>4. ASSUME NEW user \in User, NEW page \in RawPage, ListByUser(user, page)
      PROVE  Ind' /\ Port!Next
  BY <1>4, ListByUserStep DEF Port!Next
<1>5. CASE UNCHANGED vars
  BY <1>5 DEF vars, Ind, Rows, Names, Shown, MapsAgree, Key, Port!vars
<1> QED
  BY <1>2, <1>3, <1>4, <1>5 DEF Next

(* The two maps agree after any sequence of calls. *)
THEOREM MapsAlwaysAgree == Spec => []MapsAgree
<1>1. Init => Ind
  BY InitStep
<1>2. Ind /\ [Next]_vars => Ind'
  BY NextStep
<1>3. Ind => MapsAgree
  BY DEF Ind
<1> QED
  BY <1>1, <1>2, <1>3, PTL DEF Spec

(* Types, and no page longer than the longest. *)
THEOREM MemoryTyped == Spec => []TypeOK
<1>1. Init => Ind
  BY InitStep
<1>2. Ind /\ [Next]_vars => Ind'
  BY NextStep
<1>3. Ind => TypeOK
  BY DEF Ind, Rows, Names, Shown, TypeOK
<1> QED
  BY <1>1, <1>2, <1>3, PTL DEF Spec

(* The memory adapter implements the port: it refuses what the rows give a *)
(* reason to refuse and does everything else.                              *)
THEOREM MemoryImplementsPort == Spec => ImplementsPort
<1>1. Init => Ind /\ Port!Init
  BY InitStep
<1>2. Ind /\ [Next]_vars => Ind' /\ [Port!Next]_(Port!vars)
  BY NextStep
<1> QED
  BY <1>1, <1>2, PTL DEF Spec, ImplementsPort, Port!Spec

(***************************************************************************)
(* What the agreement of the maps is for.                                  *)
(***************************************************************************)
(* No user has two profiles of one name: the memory adapter keeps what the *)
(* table keeps with its unique index on (user_id, name).                   *)
NoNameTwice ==
    \A i, j \in DOMAIN byID :
        byID[i].UserID = byID[j].UserID /\ byID[i].Name = byID[j].Name => i = j

(* The index is as large as the store: no rename and no delete leaves an   *)
(* entry behind that would refuse the name for ever.                       *)
IndexNeverLeaks ==
    /\ IsFiniteSet(DOMAIN byUserNm)
    /\ Cardinality(DOMAIN byUserNm) = Cardinality(DOMAIN byID)

(* Every state satisfies the invariant. *)
LEMMA MemoryInvariance == Spec => []Ind
  BY InitStep, NextStep, PTL DEF Spec

(* Two profiles of a user never share a name, after any sequence of calls. *)
THEOREM NamesUniqueInMemory == Spec => []NoNameTwice
<1>1. Ind => NoNameTwice
  <2> SUFFICES ASSUME MapsAgree, NEW i \in DOMAIN byID, NEW j \in DOMAIN byID,
                      byID[i].UserID = byID[j].UserID, byID[i].Name = byID[j].Name
               PROVE  i = j
    BY DEF Ind, NoNameTwice
  <2>1. Key(byID[i]) = Key(byID[j])
    BY DEF Key
  <2> QED
    BY <2>1 DEF MapsAgree
<1> QED
  BY <1>1, MemoryInvariance, PTL

(* There are as many names in the index as profiles in the store. *)
THEOREM IndexStaysTight == Spec => []IndexNeverLeaks
<1>1. Ind => IndexNeverLeaks
  <2> SUFFICES ASSUME Ind PROVE IndexNeverLeaks
    OBVIOUS
  <2>1. MapsAgree /\ DOMAIN byID \subseteq ID
    BY DEF Ind, Rows
  <2>2. IsFiniteSet(DOMAIN byID)
    BY <2>1, MemoryAssumption, FS_Subset
  <2> DEFINE f == [i \in DOMAIN byID |-> Key(byID[i])]
  <2>3. f \in [DOMAIN byID -> DOMAIN byUserNm]
    BY <2>1 DEF MapsAgree
  <2>4. \A i, j \in DOMAIN byID : f[i] = f[j] => i = j
    BY <2>1 DEF MapsAgree
  <2>5. \A k \in DOMAIN byUserNm : \E i \in DOMAIN byID : f[i] = k
    BY <2>1 DEF MapsAgree
  <2>6. f \in Bijection(DOMAIN byID, DOMAIN byUserNm)
    BY <2>3, <2>4, <2>5 DEF Bijection, Injection, IsInjective, Surjection
  <2>7. ExistsBijection(DOMAIN byID, DOMAIN byUserNm)
    BY <2>6 DEF ExistsBijection
  <2> HIDE DEF f
  <2> QED
    BY <2>2, <2>7, FS_Bijection DEF IndexNeverLeaks
<1> QED
  BY <1>1, MemoryInvariance, PTL
=============================================================================
