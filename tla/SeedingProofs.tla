--------------------------- MODULE SeedingProofs ---------------------------
(***************************************************************************)
(* Seeders in any number and of any releases: none of them deadlocks with  *)
(* its own kind, success means the catalog is there, and each takes effect *)
(* at once or not at all.                                                  *)
(***************************************************************************)
EXTENDS Seeding, FiniteSetTheorems, WellFoundedInduction, TLAPS

Lines(s) == DOMAIN Rows[s]

(* Where the program is fits what its transaction is for the database. *)
PlacesFit ==
    \A s \in Seeder :
       /\ pc[s] = "start" => tx[s] = "none"
       /\ pc[s] = "rows" => tx[s] = "open"
       /\ tx[s] = "open" => pc[s] \in {"rows", "failed"}
       /\ pc[s] = "commit" => tx[s] \in {"committing", "committed", "rolled_back"}
       /\ tx[s] = "committing" => pc[s] \in {"commit", "failed"} /\ todo[s] = {}

(* Rows are sent in file order, and what is held has been sent. *)
SentInOrder ==
    \A s \in Seeder :
       /\ todo[s] \subseteq Lines(s)
       /\ \A j, k \in Lines(s) : j \in todo[s] /\ j <= k => k \in todo[s]
       /\ \A t \in Slug : Holds(s, t) => \E k \in Lines(s) \ todo[s] : Rows[s][k] = t

(* What a seeder holds is what it has to write, and a row it has sent is   *)
(* held by it or, in mode skip, was there.                                 *)
WorkDone ==
    \A s \in Seeder : tx[s] \in {"open", "committing"} =>
       /\ \A t \in Slug : Holds(s, t) =>
            /\ written[s][t] = Content[s][t]
            /\ mode[s] # "update" => templates[t] = None
       /\ \A k \in Lines(s) \ todo[s] :
            \/ Holds(s, Rows[s][k])
            \/ mode[s] = "skip" /\ templates[Rows[s][k]] # None

CommittedSeeded ==
    \A s \in Seeder : tx[s] = "committed" => \A t \in Slugs(s) : templates[t] # None

Ind == TypeOK /\ PlacesFit /\ SentInOrder /\ WorkDone /\ CommittedSeeded

(* A row has a slug, and a slug has one row. *)
LEMMA RowsTyped ==
    ASSUME NEW s \in Seeder
    PROVE  /\ Rows[s] \in Seq(Slug) /\ Lines(s) \subseteq Nat
           /\ \A k \in Lines(s) : Rows[s][k] \in Slug /\ Content[s][Rows[s][k]] \in Body
           /\ \A j, k \in Lines(s) : Rows[s][j] = Rows[s][k] => j = k
           /\ \A t \in Slug : Content[s][t] \in Body /\ Content[s][t] # None
<1>1. /\ Rows[s] \in Seq(Slug) /\ Content[s] \in [Slug -> Body]
      /\ \A j, k \in DOMAIN Rows[s] : Rows[s][j] = Rows[s][k] => j = k
      /\ None \notin Body
  BY SeedingAssumption
<1>2. \A k \in DOMAIN Rows[s] : k \in Nat /\ Rows[s][k] \in Slug
  BY <1>1
<1> QED
  BY <1>1, <1>2 DEF Lines

(* The next row is the first one that has not been sent. *)
LEMMA NextSent ==
    ASSUME NEW s \in Seeder, SentInOrder, NEW k \in NextRow(s)
    PROVE  /\ k \in todo[s] /\ k \in Lines(s) /\ Rows[s][k] \in Slug
           /\ \A j \in todo[s] : k <= j
  BY RowsTyped DEF SentInOrder, NextRow

(***************************************************************************)
(* The steps, as what they do to the variables.                            *)
(***************************************************************************)
(* A seeder that has sent nothing ends. *)
Stops(s) ==
    /\ pc[s] = "start"
    /\ \E end \in {"failed", "unseeded"} : pc' = [pc EXCEPT ![s] = end]
    /\ UNCHANGED <<templates, mode, todo, tx, written>>
Begins(s) ==
    /\ pc[s] = "start"
    /\ \E m \in OnConflict : mode' = [mode EXCEPT ![s] = m]
    /\ pc' = [pc EXCEPT ![s] = "rows"]
    /\ todo' = [todo EXCEPT ![s] = Lines(s)]
    /\ tx' = [tx EXCEPT ![s] = "open"]
    /\ UNCHANGED <<templates, written>>
Sends(s, k) ==
    /\ pc[s] = "rows" /\ k \in NextRow(s) /\ Free(s, Rows[s][k])
    /\ \/ (templates[Rows[s][k]] = None \/ mode[s] = "update") /\ Writes(s, k)
       \/ templates[Rows[s][k]] # None /\ mode[s] = "skip" /\ Skips(s, k)

(* Every step is one of these. *)
LEMMA Steps ==
    ASSUME TypeOK, Next
    PROVE  \E s \in Seeder :
             \/ Stops(s) \/ Begins(s) \/ (\E k \in todo[s] : Sends(s, k))
             \/ pc[s] = "rows" /\ Fails(s)
             \/ Commit(s) \/ CommitTakesEffect(s) \/ RolledBack(s)
             \/ CommitReturns(s) \/ Cancelled(s)
<1>1. PICK s \in Seeder : RunSeed(s) \/ Boot(s) \/ Step(s) \/ Database(s) \/ Cancelled(s)
  BY DEF Next
<1>2. ASSUME NEW m \in OnConflict, Seed(s, m), pc[s] = "start" PROVE Stops(s) \/ Begins(s)
  BY <1>2 DEF Seed, Stops, Begins, Lines
<1>3. CASE RunSeed(s)
  <2>1. PICK m \in OnConflict \cup {"other"}, source \in Source \cup {"other"} :
          IF m \in OnConflict /\ source \in Source
          THEN Seed(s, m)
          ELSE /\ pc' = [pc EXCEPT ![s] = "failed"]
               /\ UNCHANGED <<templates, mode, todo, tx, written>>
    BY <1>3 DEF RunSeed
  <2>2. pc[s] = "start"
    BY <1>3 DEF RunSeed
  <2> QED
    BY <1>2, <2>1, <2>2 DEF Stops
<1>4. CASE Boot(s)
  <2>1. "skip" \in OnConflict
    BY DEF OnConflict
  <2>2. pc[s] = "start"
    BY <1>4 DEF Boot
  <2>3. Seed(s, "skip") \/ Stops(s)
    BY <1>4 DEF Boot, Stops
  <2> QED
    BY <1>2, <2>1, <2>2, <2>3
<1>5. CASE Step(s)
  <2>1. ASSUME Row(s) PROVE (\E k \in todo[s] : Sends(s, k)) \/ (pc[s] = "rows" /\ Fails(s))
    BY <2>1 DEF Row, Sends, NextRow
  <2> QED
    BY <1>5, <2>1 DEF Step
<1>6. CASE Database(s)
  <2>1. ASSUME DeadlockDetected(s) PROVE pc[s] = "rows" /\ Fails(s)
    BY <2>1 DEF DeadlockDetected, Cycle, WaitsFor
  <2> QED
    BY <1>6, <2>1 DEF Database
<1> QED
  BY <1>1, <1>3, <1>4, <1>5, <1>6

(***************************************************************************)
(* The invariant, conjunct by conjunct.                                    *)
(***************************************************************************)
(* An ended transaction holds nothing. *)
LEMMA NothingHeld ==
    /\ Nothing \in [Slug -> Body \cup {None}]
    /\ \A t \in Slug : Nothing[t] = None
  BY DEF Nothing

(* Fails, RolledBack and CommitTakesEffect let go of what s held. *)
LEMMA LetsGo ==
    ASSUME TypeOK, NEW s \in Seeder, written' = [written EXCEPT ![s] = Nothing]
    PROVE  /\ written' \in [Seeder -> [Slug -> Body \cup {None}]]
           /\ written'[s] = Nothing
           /\ \A x \in Seeder : x # s => written'[x] = written[x]
           /\ \A x \in Seeder : \A t \in Slug : Holds(x, t)' => x # s /\ Holds(x, t)
  BY NothingHeld DEF TypeOK, Holds

(* Sending a row takes its slug and nothing else. *)
LEMMA Takes ==
    ASSUME TypeOK, SentInOrder, NEW s \in Seeder, NEW k \in NextRow(s), Writes(s, k)
    PROVE  /\ written' \in [Seeder -> [Slug -> Body \cup {None}]]
           /\ written'[s][Rows[s][k]] = Content[s][Rows[s][k]]
           /\ \A t \in Slug : t # Rows[s][k] => written'[s][t] = written[s][t]
           /\ \A x \in Seeder : x # s => written'[x] = written[x]
           /\ Holds(s, Rows[s][k])'
           /\ \A x \in Seeder : \A t \in Slug :
                Holds(x, t)' <=> Holds(x, t) \/ (x = s /\ t = Rows[s][k])
<1>1. Rows[s][k] \in Slug /\ Content[s][Rows[s][k]] \in Body /\ Content[s][Rows[s][k]] # None
  BY NextSent, RowsTyped
<1>2. written' = [written EXCEPT ![s][Rows[s][k]] = Content[s][Rows[s][k]]]
  BY DEF Writes
<1>3. /\ written' \in [Seeder -> [Slug -> Body \cup {None}]]
      /\ written'[s][Rows[s][k]] = Content[s][Rows[s][k]]
      /\ \A t \in Slug : t # Rows[s][k] => written'[s][t] = written[s][t]
      /\ \A x \in Seeder : x # s => written'[x] = written[x]
  BY <1>1, <1>2 DEF TypeOK
<1> QED
  BY <1>1, <1>3 DEF Holds

(* Every step keeps the types. *)
LEMMA TypePreserved == TypeOK /\ PlacesFit /\ SentInOrder /\ [Next]_vars => TypeOK'
<1> SUFFICES ASSUME TypeOK, PlacesFit, SentInOrder, [Next]_vars PROVE TypeOK'
  OBVIOUS
<1>1. ASSUME NEW s \in Seeder, Stops(s) PROVE TypeOK'
  BY <1>1 DEF Stops, TypeOK, Ended, Holds
<1>2. ASSUME NEW s \in Seeder, Begins(s) PROVE TypeOK'
  BY <1>2, RowsTyped DEF Begins, TypeOK, Holds
<1>3. ASSUME NEW s \in Seeder, NEW k \in todo[s], Sends(s, k) PROVE TypeOK'
  <2>1. k \in NextRow(s) /\ Free(s, Rows[s][k]) /\ pc[s] = "rows" /\ tx[s] = "open"
    BY <1>3 DEF Sends, PlacesFit
  <2>2. UNCHANGED <<templates, pc, mode, tx>> /\ todo' = [todo EXCEPT ![s] = @ \ {k}]
    BY <1>3 DEF Sends, Writes, Skips
  <2>3. CASE Writes(s, k)
    <3>1. \A x, y \in Seeder : \A t \in Slug : Holds(x, t)' /\ Holds(y, t)' => x = y
      BY <2>1, <2>3, Takes DEF TypeOK, Free
    <3>2. \A x \in Seeder : tx'[x] \notin {"open", "committing"} => written'[x] = Nothing
      BY <2>1, <2>2, <2>3, Takes DEF TypeOK
    <3>3. written' \in [Seeder -> [Slug -> Body \cup {None}]]
      BY <2>1, <2>3, Takes
    <3> QED
      BY <2>2, <3>1, <3>2, <3>3 DEF TypeOK
  <2>4. CASE Skips(s, k)
    BY <2>2, <2>4 DEF Skips, TypeOK, Holds
  <2> QED
    BY <1>3, <2>3, <2>4 DEF Sends
<1>4. ASSUME NEW s \in Seeder, pc[s] = "rows", Fails(s) PROVE TypeOK'
  <2>1. written' = [written EXCEPT ![s] = Nothing]
    BY <1>4 DEF Fails
  <2> QED
    BY <1>4, <2>1, LetsGo DEF Fails, TypeOK, Ended
<1>5. ASSUME NEW s \in Seeder, Commit(s) PROVE TypeOK'
  BY <1>5 DEF Commit, TypeOK, Holds
<1>6. ASSUME NEW s \in Seeder, CommitTakesEffect(s) PROVE TypeOK'
  <2>1. written' = [written EXCEPT ![s] = Nothing]
    BY <1>6 DEF CommitTakesEffect
  <2>2. templates' \in [Slug -> Body \cup {None}]
    BY <1>6 DEF CommitTakesEffect, TypeOK
  <2> QED
    BY <1>6, <2>1, <2>2, LetsGo DEF CommitTakesEffect, TypeOK
<1>7. ASSUME NEW s \in Seeder, RolledBack(s) PROVE TypeOK'
  <2>1. written' = [written EXCEPT ![s] = Nothing] /\ tx' = [tx EXCEPT ![s] = "rolled_back"]
    BY <1>7 DEF RolledBack
  <2>2. pc[s] # "ok"
    BY <1>7 DEF RolledBack, TypeOK
  <2> QED
    BY <1>7, <2>1, <2>2, LetsGo DEF RolledBack, TypeOK
<1>8. ASSUME NEW s \in Seeder, CommitReturns(s) PROVE TypeOK'
  BY <1>8 DEF CommitReturns, TypeOK, Ended, Holds
<1>9. ASSUME NEW s \in Seeder, Cancelled(s) PROVE TypeOK'
  BY <1>9 DEF Cancelled, TypeOK, Ended, Holds
<1>10. CASE UNCHANGED vars
  BY <1>10 DEF vars, TypeOK, Holds
<1> QED
  BY <1>1, <1>2, <1>3, <1>4, <1>5, <1>6, <1>7, <1>8, <1>9, <1>10, Steps

(* Every step leaves its seeder at a place that fits its job. *)
LEMMA PlacesPreserved == TypeOK /\ PlacesFit /\ SentInOrder /\ [Next]_vars => PlacesFit'
<1> SUFFICES ASSUME TypeOK, PlacesFit, SentInOrder, [Next]_vars PROVE PlacesFit'
  OBVIOUS
<1> USE DEF PlacesFit, TypeOK
<1>1. ASSUME NEW s \in Seeder, Stops(s) \/ Begins(s) PROVE PlacesFit'
  BY <1>1 DEF Stops, Begins
<1>2. ASSUME NEW s \in Seeder, NEW k \in todo[s], Sends(s, k) PROVE PlacesFit'
  BY <1>2 DEF Sends, Writes, Skips
<1>3. ASSUME NEW s \in Seeder, pc[s] = "rows", Fails(s) PROVE PlacesFit'
  BY <1>3 DEF Fails
<1>4. ASSUME NEW s \in Seeder, Commit(s) \/ CommitReturns(s) \/ Cancelled(s) PROVE PlacesFit'
  BY <1>4 DEF Commit, CommitReturns, Cancelled
<1>5. ASSUME NEW s \in Seeder, CommitTakesEffect(s) \/ RolledBack(s) PROVE PlacesFit'
  BY <1>5 DEF CommitTakesEffect, RolledBack
<1>6. CASE UNCHANGED vars
  BY <1>6 DEF vars
<1> QED
  BY <1>1, <1>2, <1>3, <1>4, <1>5, <1>6, Steps

(* What has been sent grows by the next row only. *)
LEMMA OrderPreserved == TypeOK /\ PlacesFit /\ SentInOrder /\ [Next]_vars => SentInOrder'
<1> SUFFICES ASSUME TypeOK, PlacesFit, SentInOrder, [Next]_vars PROVE SentInOrder'
  OBVIOUS
<1>1. ASSUME UNCHANGED <<todo, written>> PROVE SentInOrder'
  BY <1>1 DEF SentInOrder, Holds
<1>2. ASSUME NEW s \in Seeder, Begins(s) PROVE SentInOrder'
  <2>1. written[s] = Nothing /\ \A t \in Slug : ~Holds(s, t)
    BY <1>2, NothingHeld DEF Begins, PlacesFit, TypeOK, Holds
  <2>2. todo' = [todo EXCEPT ![s] = Lines(s)] /\ written' = written
    BY <1>2 DEF Begins
  <2> QED
    BY <2>1, <2>2 DEF SentInOrder, TypeOK, Holds
<1>3. ASSUME NEW s \in Seeder, NEW k \in todo[s], Sends(s, k) PROVE SentInOrder'
  <2>1. k \in NextRow(s) /\ todo' = [todo EXCEPT ![s] = @ \ {k}]
    BY <1>3 DEF Sends, Writes, Skips
  <2>2. /\ todo'[s] \subseteq Lines(s)
        /\ \A i, j \in Lines(s) : i \in todo'[s] /\ i <= j => j \in todo'[s]
    <3>1. k \in Lines(s) /\ \A j \in todo[s] : k <= j
      BY <2>1, NextSent
    <3>2. todo'[s] = todo[s] \ {k} /\ todo[s] \subseteq Lines(s) /\ Lines(s) \subseteq Nat
      BY <2>1, RowsTyped DEF TypeOK, SentInOrder
    <3>3. \A i, j \in Lines(s) : i \in todo[s] /\ i <= j => j \in todo[s]
      BY DEF SentInOrder
    <3>4. \A i \in todo'[s] : i # k /\ k <= i
      BY <3>1, <3>2
    <3> QED
      BY <3>1, <3>2, <3>3, <3>4
  <2>3. \A t \in Slug : Holds(s, t)' => \E j \in Lines(s) \ todo'[s] : Rows[s][j] = t
    <3>1. \A t \in Slug : Holds(s, t)' => Holds(s, t) \/ t = Rows[s][k]
      BY <1>3, <2>1, Takes DEF Sends, Skips, Holds
    <3>2. k \in Lines(s) \ todo'[s] /\ todo'[s] \subseteq todo[s]
      BY <2>1, NextSent DEF TypeOK
    <3> QED
      BY <3>1, <3>2 DEF SentInOrder
  <2>4. \A x \in Seeder : x # s => todo'[x] = todo[x] /\ written'[x] = written[x]
    BY <1>3, <2>1, Takes DEF Sends, Skips, TypeOK
  <2> QED
    BY <2>2, <2>3, <2>4 DEF SentInOrder, Holds
<1>4. ASSUME NEW s \in Seeder, Fails(s) \/ CommitTakesEffect(s) \/ RolledBack(s)
      PROVE  SentInOrder'
  <2>1. written' = [written EXCEPT ![s] = Nothing] /\ todo' = todo
    BY <1>4 DEF Fails, CommitTakesEffect, RolledBack
  <2>2. \A x \in Seeder : \A t \in Slug : Holds(x, t)' => Holds(x, t)
    BY <2>1, LetsGo
  <2> QED
    BY <2>1, <2>2 DEF SentInOrder
<1>5. ASSUME NEW s \in Seeder, Stops(s) \/ Commit(s) \/ CommitReturns(s) \/ Cancelled(s)
      PROVE  SentInOrder'
  BY <1>1, <1>5 DEF Stops, Commit, CommitReturns, Cancelled
<1>6. CASE UNCHANGED vars
  BY <1>1, <1>6 DEF vars
<1> QED
  BY <1>2, <1>3, <1>4, <1>5, <1>6, Steps

(* What one commit does to the committed rows. *)
LEMMA CommitEffect ==
    ASSUME TypeOK, NEW s \in Seeder, CommitTakesEffect(s)
    PROVE  \A t \in Slug :
             /\ Holds(s, t) => templates'[t] = written[s][t]
             /\ ~Holds(s, t) => templates'[t] = templates[t]
             /\ templates[t] # None \/ Holds(s, t) => templates'[t] # None
  BY DEF CommitTakesEffect, Holds

(* The work of one seeder is disturbed by nobody else. *)
LEMMA WorkPreserved == Ind /\ [Next]_vars => WorkDone'
<1> SUFFICES ASSUME Ind, [Next]_vars PROVE WorkDone'
  OBVIOUS
<1>0. TypeOK /\ PlacesFit /\ SentInOrder /\ WorkDone
  BY DEF Ind
<1>1. ASSUME UNCHANGED <<templates, todo, written, mode>>,
             \A x \in Seeder : tx'[x] \in {"open", "committing"} => tx[x] \in {"open", "committing"}
      PROVE  WorkDone'
  BY <1>0, <1>1 DEF WorkDone, Holds
<1>2. ASSUME NEW s \in Seeder, Begins(s) PROVE WorkDone'
  <2>1. \A t \in Slug : ~Holds(s, t)
    BY <1>0, <1>2, NothingHeld DEF Begins, PlacesFit, TypeOK, Holds
  <2>2. /\ todo' = [todo EXCEPT ![s] = Lines(s)] /\ UNCHANGED <<templates, written>>
        /\ \A x \in Seeder : x # s => mode'[x] = mode[x] /\ tx'[x] = tx[x] /\ todo'[x] = todo[x]
        /\ todo'[s] = Lines(s)
    BY <1>0, <1>2 DEF Begins, TypeOK
  <2> QED
    BY <1>0, <2>1, <2>2 DEF WorkDone, Holds
<1>3. ASSUME NEW s \in Seeder, NEW k \in todo[s], Sends(s, k) PROVE WorkDone'
  <2>1. /\ k \in NextRow(s) /\ tx[s] = "open" /\ UNCHANGED <<templates, mode, tx>>
        /\ todo' = [todo EXCEPT ![s] = @ \ {k}]
    BY <1>0, <1>3 DEF Sends, Writes, Skips, PlacesFit
  <2>2. k \in Lines(s) /\ Rows[s][k] \in Slug
    BY <1>0, <2>1, NextSent
  <2>3. todo'[s] = todo[s] \ {k} /\ \A x \in Seeder : x # s => todo'[x] = todo[x]
    BY <1>0, <2>1 DEF TypeOK
  <2>4. \A x \in Seeder : x # s => written'[x] = written[x]
    BY <1>0, <1>3, <2>1, Takes DEF Sends, Skips
  <2>5. CASE Writes(s, k) /\ (templates[Rows[s][k]] = None \/ mode[s] = "update")
    <3>1. /\ written'[s][Rows[s][k]] = Content[s][Rows[s][k]]
          /\ \A t \in Slug : t # Rows[s][k] => written'[s][t] = written[s][t]
          /\ \A t \in Slug : Holds(s, t)' <=> Holds(s, t) \/ t = Rows[s][k]
      BY <1>0, <2>1, <2>5, Takes
    <3>2. \A t \in Slug : Holds(s, t)' => /\ written'[s][t] = Content[s][t]
                                          /\ mode[s] # "update" => templates[t] = None
      BY <1>0, <2>1, <2>5, <3>1 DEF WorkDone
    <3>3. \A j \in Lines(s) \ todo'[s] :
             \/ Holds(s, Rows[s][j])'
             \/ mode[s] = "skip" /\ templates[Rows[s][j]] # None
      BY <1>0, <2>1, <2>3, <3>1, RowsTyped DEF WorkDone
    <3> QED
      BY <1>0, <2>1, <2>3, <2>4, <3>2, <3>3 DEF WorkDone, Holds
  <2>6. CASE Skips(s, k) /\ templates[Rows[s][k]] # None /\ mode[s] = "skip"
    <3>1. written' = written
      BY <2>6 DEF Skips
    <3> QED
      BY <1>0, <2>1, <2>3, <2>6, <3>1 DEF WorkDone, Holds
  <2> QED
    BY <1>3, <2>5, <2>6 DEF Sends
<1>4. ASSUME NEW s \in Seeder, Fails(s) \/ RolledBack(s) PROVE WorkDone'
  <2>1. /\ tx' = [tx EXCEPT ![s] = "rolled_back"] /\ written' = [written EXCEPT ![s] = Nothing]
        /\ UNCHANGED <<templates, mode, todo>>
    BY <1>4 DEF Fails, RolledBack
  <2>2. /\ tx'[s] = "rolled_back"
        /\ \A x \in Seeder : x # s => tx'[x] = tx[x] /\ written'[x] = written[x]
    BY <1>0, <2>1, LetsGo DEF TypeOK
  <2> QED
    BY <1>0, <2>1, <2>2 DEF WorkDone, Holds
<1>5. ASSUME NEW s \in Seeder, Commit(s) PROVE WorkDone'
  BY <1>0, <1>1, <1>5 DEF Commit, TypeOK
<1>6. ASSUME NEW s \in Seeder, CommitTakesEffect(s) PROVE WorkDone'
  <2>1. /\ tx'[s] = "committed" /\ UNCHANGED <<mode, todo>>
        /\ \A x \in Seeder : x # s => tx'[x] = tx[x] /\ written'[x] = written[x]
    BY <1>0, <1>6, LetsGo DEF CommitTakesEffect, TypeOK
  <2>2. \A x \in Seeder : \A t \in Slug : x # s /\ Holds(x, t) => templates'[t] = templates[t]
    BY <1>0, <1>6, CommitEffect DEF TypeOK
  <2>3. \A t \in Slug : templates[t] # None => templates'[t] # None
    BY <1>0, <1>6, CommitEffect
  <2>4. ASSUME NEW x \in Seeder, x # s, tx[x] \in {"open", "committing"}
        PROVE  /\ \A t \in Slug : Holds(x, t)' =>
                    /\ written'[x][t] = Content[x][t]
                    /\ mode'[x] # "update" => templates'[t] = None
               /\ \A k \in Lines(x) \ todo'[x] :
                    \/ Holds(x, Rows[x][k])'
                    \/ mode'[x] = "skip" /\ templates'[Rows[x][k]] # None
    BY <1>0, <2>1, <2>2, <2>3, <2>4, RowsTyped DEF WorkDone, Holds
  <2> QED
    BY <2>1, <2>4 DEF WorkDone
<1>7. ASSUME NEW s \in Seeder, Stops(s) \/ CommitReturns(s) \/ Cancelled(s) PROVE WorkDone'
  BY <1>1, <1>7 DEF Stops, CommitReturns, Cancelled
<1>8. CASE UNCHANGED vars
  BY <1>1, <1>8 DEF vars
<1> QED
  BY <1>0, <1>2, <1>3, <1>4, <1>5, <1>6, <1>7, <1>8, Steps

(* A seeder that commits has a row for every slug of its catalog, and none *)
(* is ever removed.                                                        *)
LEMMA SeededPreserved == Ind /\ [Next]_vars => CommittedSeeded'
<1> SUFFICES ASSUME Ind, [Next]_vars PROVE CommittedSeeded'
  OBVIOUS
<1>0. TypeOK /\ PlacesFit /\ WorkDone /\ CommittedSeeded
  BY DEF Ind
<1>1. ASSUME templates' = templates,
             \A x \in Seeder : tx'[x] = "committed" => tx[x] = "committed"
      PROVE  CommittedSeeded'
  BY <1>0, <1>1 DEF CommittedSeeded
<1>2. ASSUME NEW s \in Seeder, Stops(s) \/ Begins(s) \/ Commit(s) PROVE CommittedSeeded'
  BY <1>0, <1>1, <1>2 DEF Stops, Begins, Commit, TypeOK
<1>3. ASSUME NEW s \in Seeder, NEW k \in todo[s], Sends(s, k) PROVE CommittedSeeded'
  BY <1>0, <1>1, <1>3 DEF Sends, Writes, Skips
<1>4. ASSUME NEW s \in Seeder, Fails(s) \/ RolledBack(s) PROVE CommittedSeeded'
  BY <1>0, <1>1, <1>4 DEF Fails, RolledBack, TypeOK
<1>5. ASSUME NEW s \in Seeder, CommitTakesEffect(s) PROVE CommittedSeeded'
  <2>1. todo[s] = {} /\ tx[s] = "committing"
    BY <1>0, <1>5 DEF CommitTakesEffect, PlacesFit
  <2>2. \A k \in Lines(s) : Holds(s, Rows[s][k]) \/ templates[Rows[s][k]] # None
    BY <1>0, <2>1 DEF WorkDone
  <2>3. \A t \in Slugs(s) : t \in Slug /\ templates'[t] # None
    BY <1>0, <1>5, <2>2, RowsTyped, CommitEffect DEF Slugs, Lines
  <2>4. \A x \in Seeder : \A t \in Slugs(x) : t \in Slug
    BY RowsTyped DEF Slugs, Lines
  <2>5. \A t \in Slug : templates[t] # None => templates'[t] # None
    BY <1>0, <1>5, CommitEffect
  <2>6. \A x \in Seeder : x # s => tx'[x] = tx[x]
    BY <1>0, <1>5 DEF CommitTakesEffect, TypeOK
  <2> QED
    BY <1>0, <2>3, <2>4, <2>5, <2>6 DEF CommittedSeeded
<1>6. ASSUME NEW s \in Seeder, CommitReturns(s) \/ Cancelled(s) PROVE CommittedSeeded'
  BY <1>1, <1>6 DEF CommitReturns, Cancelled
<1>7. CASE UNCHANGED vars
  BY <1>1, <1>7 DEF vars
<1> QED
  BY <1>0, <1>2, <1>3, <1>4, <1>5, <1>6, <1>7, Steps

(***************************************************************************)
(* The theorems.                                                           *)
(***************************************************************************)
(* The initial state satisfies the invariant. *)
LEMMA IndInit == Init => Ind
<1> SUFFICES ASSUME Init PROVE Ind
  OBVIOUS
<1>1. TypeOK
  BY NothingHeld DEF Init, TypeOK, Holds, OnConflict
<1>2. PlacesFit /\ WorkDone /\ CommittedSeeded
  BY DEF Init, PlacesFit, WorkDone, CommittedSeeded
<1>3. SentInOrder
  BY NothingHeld DEF Init, SentInOrder, Holds
<1> QED
  BY <1>1, <1>2, <1>3 DEF Ind

(* Every step preserves it. *)
LEMMA IndPreserved == Ind /\ [Next]_vars => Ind'
  BY TypePreserved, PlacesPreserved, OrderPreserved, WorkPreserved, SeededPreserved DEF Ind

(* The invariant holds in every state. *)
THEOREM SeedingInvariance == Spec => []Ind
  BY IndInit, IndPreserved, PTL DEF Spec

(* Type correctness, and no slug is held by two seeders. *)
THEOREM SeedingTyped == Spec => []TypeOK
  BY SeedingInvariance, PTL DEF Ind

(* Success means that every template of the catalog is there. *)
THEOREM OkIsSeeded == Spec => []OkMeansSeeded
<1>1. Ind => OkMeansSeeded
  BY RowsTyped DEF Ind, OkMeansSeeded, CommittedSeeded, TypeOK, List, Get, Slugs, Lines
<1> QED
  BY <1>1, SeedingInvariance, PTL

(* Among seeders of one release, whoever is waited for has fewer rows left *)
(* to send than whoever waits; so one of them waits for nobody.            *)
LEMMA FewerLeft ==
    ASSUME SentInOrder, NEW x \in Seeder, NEW y \in Seeder, Rows[x] = Rows[y],
           NextRow(y) # {}, WaitsFor(x, y)
    PROVE  todo[y] \subseteq todo[x] /\ todo[y] # todo[x]
<1>1. PICK k \in NextRow(x) : Holds(y, Rows[x][k])
  BY DEF WaitsFor
<1>2. k \in todo[x] /\ k \in Lines(x) /\ Rows[x][k] \in Slug /\ \A j \in todo[x] : k <= j
  BY <1>1, NextSent
<1>3. PICK j \in Lines(y) \ todo[y] : Rows[y][j] = Rows[x][k]
  BY <1>1, <1>2 DEF SentInOrder
<1>4. Lines(x) = Lines(y) /\ j = k
  BY <1>2, <1>3, RowsTyped DEF Lines
<1>5. k \notin todo[y] /\ todo[y] \subseteq Lines(y) /\ todo[x] \subseteq Lines(x)
      /\ Lines(x) \subseteq Nat
  BY <1>3, <1>4, RowsTyped DEF SentInOrder
<1>6. \A i \in todo[y] : ~(i <= k)
  BY <1>2, <1>4, <1>5 DEF SentInOrder
<1>7. \A i \in todo[y] : k <= i
  BY <1>2, <1>5, <1>4, <1>6
<1>8. \A i \in todo[y] : i \in todo[x]
  BY <1>2, <1>4, <1>5, <1>7 DEF SentInOrder
<1> QED
  BY <1>2, <1>5, <1>8

(* With one catalog nobody waits in a circle. *)
LEMMA OrderPreventsCycles == SentInOrder => DeadlockNeedsTwoReleases
<1> SUFFICES ASSUME SentInOrder, NEW C \in SUBSET Seeder, Cycle(C),
                    \A x, y \in C : Rows[x] = Rows[y]
             PROVE  FALSE
  BY DEF DeadlockNeedsTwoReleases
<1>1. PICK c \in C : TRUE
  BY DEF Cycle
<1> DEFINE Left == {todo[x] : x \in C}
<1>2. Lines(c) \in SUBSET Nat /\ IsFiniteSet(Lines(c))
  <2>1. Rows[c] \in Seq(Slug)
    BY RowsTyped
  <2>2. Lines(c) = 1..Len(Rows[c]) /\ Len(Rows[c]) \in Nat
    BY <2>1 DEF Lines
  <2> QED
    BY <2>2, FS_Interval
<1>3. \A x \in C : todo[x] \in SUBSET Lines(c)
  BY <1>1 DEF SentInOrder, Lines
<1>4. Left \subseteq FiniteSubsetsOf(Lines(c)) /\ Left # {}
  BY <1>1, <1>2, <1>3, FS_Subset DEF FiniteSubsetsOf
<1>5. \E S \in Left : \A T \in Left : <<T, S>> \notin StrictSubsetOrdering(Lines(c))
  <2> HIDE DEF Left
  <2> QED
    BY <1>4, WFMin, FS_StrictSubsetOrderingWellFounded
<1>6. PICK x \in C : \A T \in Left : <<T, todo[x]>> \notin StrictSubsetOrdering(Lines(c))
  BY <1>5
<1>7. PICK y \in C : WaitsFor(x, y)
  BY DEF Cycle
<1>8. NextRow(y) # {}
  BY DEF Cycle, WaitsFor
<1>9. todo[y] \subseteq todo[x] /\ todo[y] # todo[x]
  BY <1>7, <1>8, FewerLeft
<1>10. <<todo[y], todo[x]>> \in StrictSubsetOrdering(Lines(c))
  BY <1>3, <1>9 DEF StrictSubsetOrdering
<1> QED
  BY <1>6, <1>10

(* Seeders of one release do not deadlock. *)
THEOREM OneReleaseNoDeadlock == Spec => []DeadlockNeedsTwoReleases
<1>1. Ind => DeadlockNeedsTwoReleases
  BY OrderPreventsCycles DEF Ind
<1> QED
  BY <1>1, SeedingInvariance, PTL

(***************************************************************************)
(* Every seeder ends: what lies under SeedersEnd.                          *)
(***************************************************************************)
(* A seeder that has begun and has not ended, or still holds rows. *)
Begun(s) == pc[s] \in {"rows", "commit"} \/ tx[s] \in {"open", "committing"}

(* Its program, or the database for it, has something to do that waits for *)
(* nobody.                                                                 *)
Ready(s) ==
    \/ pc[s] = "rows" /\ todo[s] = {}
    \/ pc[s] = "rows" /\ \E k \in NextRow(s) : Free(s, Rows[s][k])
    \/ pc[s] = "commit" /\ tx[s] \in {"committed", "rolled_back"}
    \/ tx[s] = "committing"
    \/ tx[s] = "open" /\ pc[s] = "failed"
    \/ tx[s] = "open" /\ \E C \in SUBSET Seeder : s \in C /\ Cycle(C)

(* Seeders that wait only for one another do not wait for ever: in every   *)
(* set of them that is closed under waiting one can go on, if only because *)
(* the database finds it in a cycle.  With all of them as the set, some    *)
(* seeder can go on; with one and whoever it waits for, over any number of *)
(* others, that one does not starve.                                       *)
NoClosedWait ==
    \A W \in SUBSET Seeder :
        /\ W # {} /\ IsFiniteSet(W) /\ \A x \in W : Begun(x)
        /\ \A x \in W, y \in Seeder : WaitsFor(x, y) => y \in W
        => \E s \in W : Ready(s)

(* Rows that are left to send have a first one. *)
LEMMA FirstOfMany ==
    ASSUME SentInOrder, NEW s \in Seeder, todo[s] # {}
    PROVE  NextRow(s) # {}
<1>1. todo[s] \subseteq Nat
  BY RowsTyped DEF SentInOrder
<1>2. PICK k \in todo[s] : \A j \in todo[s] : <<j, k>> \notin OpToRel(<, Nat)
  BY <1>1, NatLessThanWellFounded, WFMin
<1>3. \A j \in todo[s] : ~(j < k)
  BY <1>1, <1>2 DEF OpToRel
<1>4. k \in NextRow(s)
  BY <1>1, <1>3 DEF NextRow
<1> QED
  BY <1>4

(* Who has begun and cannot go on waits for another, which has begun too. *)
LEMMA WhoWaits ==
    ASSUME TypeOK, PlacesFit, SentInOrder, NEW x \in Seeder, Begun(x), ~Ready(x)
    PROVE  tx[x] = "open" /\ \E y \in Seeder : WaitsFor(x, y)
<1>1. pc[x] = "rows" /\ tx[x] = "open" /\ todo[x] # {}
  BY DEF Begun, Ready, TypeOK, PlacesFit
<1>2. PICK k \in NextRow(x) : ~Free(x, Rows[x][k])
  BY <1>1, FirstOfMany DEF Ready
<1>3. PICK y \in Seeder \ {x} : Holds(y, Rows[x][k])
  BY <1>2 DEF Free
<1> QED
  BY <1>1, <1>2, <1>3 DEF WaitsFor

(* In a finite set whose members all wait within it there is a cycle. *)
LEMMA WaitingCloses ==
    ASSUME NEW W \in SUBSET Seeder, W # {}, IsFiniteSet(W),
           \A x \in W : \E y \in W : WaitsFor(x, y)
    PROVE  \E C \in SUBSET W : Cycle(C)
<1> DEFINE Closed == {C \in SUBSET W : C # {} /\ \A x \in C : \E y \in C : WaitsFor(x, y)}
<1>1. PICK C \in Closed : \A D \in Closed : <<D, C>> \notin StrictSubsetOrdering(W)
  <2>1. W \in Closed
    OBVIOUS
  <2>2. Closed \subseteq FiniteSubsetsOf(W)
    BY FS_Subset DEF FiniteSubsetsOf
  <2> HIDE DEF Closed
  <2> QED
    BY <2>1, <2>2, WFMin, FS_StrictSubsetOrderingWellFounded
<1> DEFINE D == {x \in C : \E y \in C : WaitsFor(y, x)}
<1>2. D \in Closed
  <2>1. \A x \in C : \E y \in D : WaitsFor(x, y)
    OBVIOUS
  <2> QED
    BY <2>1
<1>3. D = C
  BY <1>1, <1>2 DEF StrictSubsetOrdering
<1>4. Cycle(C)
  BY <1>3 DEF Cycle
<1> QED
  BY <1>4

(* No set of seeders waits for itself alone, whatever the releases, the    *)
(* modes and the order of their rows.                                      *)
THEOREM SeedersNeverStall == Spec => []NoClosedWait
<1>1. ASSUME Ind, NEW W \in SUBSET Seeder, W # {}, IsFiniteSet(W), \A x \in W : Begun(x),
             \A x \in W, y \in Seeder : WaitsFor(x, y) => y \in W
      PROVE  \E s \in W : Ready(s)
  <2> SUFFICES ASSUME \A s \in W : ~Ready(s) PROVE FALSE
    OBVIOUS
  <2>1. \A x \in W : tx[x] = "open" /\ \E y \in W : WaitsFor(x, y)
    BY <1>1, WhoWaits DEF Ind
  <2>2. PICK C \in SUBSET W : Cycle(C)
    BY <1>1, <2>1, WaitingCloses
  <2>3. PICK s \in C : TRUE
    BY <2>2 DEF Cycle
  <2> QED
    BY <2>1, <2>2, <2>3 DEF Ready
<1>2. Ind => NoClosedWait
  BY <1>1 DEF NoClosedWait
<1> QED
  BY <1>2, SeedingInvariance, PTL

(* How many steps a seeder takes at most, the database's for it included. *)
PlaceLeft(place, rows) ==
    IF place = "start" THEN rows + 5
    ELSE IF place = "rows" THEN 2 ELSE IF place = "commit" THEN 1 ELSE 0
TxLeft(state) == IF state = "open" THEN 2 ELSE IF state = "committing" THEN 1 ELSE 0
Left(s) == PlaceLeft(pc[s], Len(Rows[s])) + TxLeft(tx[s]) + Cardinality(todo[s])

(* Every step, a refusal, a deadlock and a cancellation included, brings   *)
(* one seeder nearer to its end and no other further from it: nobody sends *)
(* a row twice or waits again for what it has got.                         *)
SeedersRunDown ==
    [][\E s \in Seeder : /\ Left(s)' < Left(s)
                         /\ \A x \in Seeder \ {s} : Left(x)' = Left(x)]_vars

(* The rows of a catalog are numbered and finite. *)
LEMMA RowsFinite ==
    ASSUME NEW s \in Seeder
    PROVE  /\ Len(Rows[s]) \in Nat
           /\ IsFiniteSet(Lines(s)) /\ Cardinality(Lines(s)) = Len(Rows[s])
<1>1. Rows[s] \in Seq(Slug)
  BY RowsTyped
<1>2. Lines(s) = 1..Len(Rows[s]) /\ Len(Rows[s]) \in Nat
  BY <1>1 DEF Lines
<1> QED
  BY <1>2, FS_Interval

(* What is left is a number. *)
LEMMA LeftTyped ==
    ASSUME Ind, NEW s \in Seeder
    PROVE  /\ IsFiniteSet(todo[s]) /\ Cardinality(todo[s]) \in Nat
           /\ Left(s) \in Nat
<1>1. IsFiniteSet(todo[s]) /\ Cardinality(todo[s]) \in Nat
  BY RowsFinite, FS_Subset, FS_CardinalityType DEF Ind, SentInOrder
<1>2. Len(Rows[s]) \in Nat
  BY RowsFinite
<1>3. PlaceLeft(pc[s], Len(Rows[s])) \in Nat
  BY <1>2 DEF PlaceLeft
<1>4. TxLeft(tx[s]) \in Nat
  BY DEF TxLeft
<1> QED
  BY <1>1, <1>3, <1>4 DEF Left

(* A step that leaves the rows alone brings s further in one respect. *)
LEMMA RanksDrop ==
    ASSUME Ind, NEW s \in Seeder, todo'[s] = todo[s],
           PlaceLeft(pc'[s], Len(Rows[s])) + TxLeft(tx'[s])
              < PlaceLeft(pc[s], Len(Rows[s])) + TxLeft(tx[s])
    PROVE  Left(s)' < Left(s)
<1>1. Cardinality(todo[s]) \in Nat
  BY LeftTyped
<1>2. Len(Rows[s]) \in Nat
  BY RowsFinite
<1>4. /\ PlaceLeft(pc[s], Len(Rows[s])) \in Nat /\ PlaceLeft(pc'[s], Len(Rows[s])) \in Nat
      /\ TxLeft(tx[s]) \in Nat /\ TxLeft(tx'[s]) \in Nat
  BY <1>2 DEF PlaceLeft, TxLeft
<1>3. /\ Left(s) = PlaceLeft(pc[s], Len(Rows[s])) + TxLeft(tx[s]) + Cardinality(todo[s])
      /\ Left(s)' = PlaceLeft(pc'[s], Len(Rows[s])) + TxLeft(tx'[s]) + Cardinality(todo[s])
  BY DEF Left
<1> QED
  BY <1>1, <1>3, <1>4

(* The others have as much left as before. *)
LEMMA OthersLeft ==
    ASSUME Ind, NEW s \in Seeder,
           \A x \in Seeder \ {s} : pc'[x] = pc[x] /\ tx'[x] = tx[x] /\ todo'[x] = todo[x]
    PROVE  \A x \in Seeder \ {s} : Left(x)' = Left(x)
  BY DEF Left

(* Each seeder runs down to its end. *)
THEOREM SeedersAreBounded ==
    Spec => SeedersRunDown /\ [](\A s \in Seeder : Left(s) \in Nat)
<1>1. ASSUME Ind, Next
      PROVE  \E s \in Seeder : /\ Left(s)' < Left(s)
                               /\ \A x \in Seeder \ {s} : Left(x)' = Left(x)
  <2>0. TypeOK /\ PlacesFit
    BY <1>1 DEF Ind
  <2>1. ASSUME NEW s \in Seeder, Stops(s) PROVE Left(s)' < Left(s)
    <3>1. /\ pc[s] = "start" /\ pc'[s] \in {"failed", "unseeded"}
          /\ tx[s] = "none" /\ tx'[s] = tx[s] /\ todo'[s] = todo[s]
      BY <2>0, <2>1 DEF Stops, TypeOK, PlacesFit
    <3>2. Len(Rows[s]) \in Nat
      BY RowsFinite
    <3>3. PlaceLeft(pc'[s], Len(Rows[s])) + TxLeft(tx'[s])
            < PlaceLeft(pc[s], Len(Rows[s])) + TxLeft(tx[s])
      BY <3>1, <3>2 DEF PlaceLeft, TxLeft
    <3> QED
      BY <1>1, <3>1, <3>3, RanksDrop
  <2>2. ASSUME NEW s \in Seeder, Begins(s) PROVE Left(s)' < Left(s)
    <3>1. pc'[s] = "rows" /\ tx'[s] = "open" /\ todo'[s] = Lines(s)
      BY <2>0, <2>2 DEF Begins, TypeOK
    <3>2. Left(s)' = 2 + 2 + Len(Rows[s])
      BY <3>1, RowsFinite DEF Left, PlaceLeft, TxLeft
    <3>3. Left(s) = Len(Rows[s]) + 5 + 0 + Cardinality(todo[s])
      BY <2>0, <2>2 DEF Begins, Left, PlaceLeft, TxLeft, PlacesFit
    <3> QED
      BY <1>1, <3>2, <3>3, LeftTyped, RowsFinite
  <2>3. ASSUME NEW s \in Seeder, NEW k \in todo[s], Sends(s, k) PROVE Left(s)' < Left(s)
    <3>1. pc[s] = "rows" /\ tx[s] = "open" /\ UNCHANGED <<pc, tx>> /\ todo'[s] = todo[s] \ {k}
      BY <2>0, <2>3 DEF Sends, Writes, Skips, TypeOK, PlacesFit
    <3>2. /\ Cardinality(todo'[s]) = Cardinality(todo[s]) - 1
          /\ Cardinality(todo[s]) \in Nat
      BY <1>1, <3>1, LeftTyped, FS_RemoveElement
    <3>3. /\ Left(s) = 2 + 2 + Cardinality(todo[s])
          /\ Left(s)' = 2 + 2 + Cardinality(todo'[s])
      BY <3>1 DEF Left, PlaceLeft, TxLeft
    <3> QED
      BY <3>2, <3>3
  <2>4. ASSUME NEW s \in Seeder, pc[s] = "rows", Fails(s) PROVE Left(s)' < Left(s)
    <3>1. tx[s] = "open" /\ pc'[s] = "failed" /\ tx'[s] = "rolled_back" /\ UNCHANGED todo
      BY <2>0, <2>4 DEF Fails, TypeOK, PlacesFit
    <3>2. Len(Rows[s]) \in Nat
      BY RowsFinite
    <3>3. PlaceLeft(pc'[s], Len(Rows[s])) + TxLeft(tx'[s])
            < PlaceLeft(pc[s], Len(Rows[s])) + TxLeft(tx[s])
      BY <2>4, <3>1, <3>2 DEF PlaceLeft, TxLeft
    <3> QED
      BY <1>1, <3>1, <3>3, RanksDrop
  <2>5. ASSUME NEW s \in Seeder, Commit(s) PROVE Left(s)' < Left(s)
    <3>1. /\ pc[s] = "rows" /\ tx[s] = "open" /\ UNCHANGED todo
          /\ pc'[s] = "commit" /\ tx'[s] = "committing"
      BY <2>0, <2>5 DEF Commit, TypeOK
    <3>2. Len(Rows[s]) \in Nat
      BY RowsFinite
    <3>3. PlaceLeft(pc'[s], Len(Rows[s])) + TxLeft(tx'[s])
            < PlaceLeft(pc[s], Len(Rows[s])) + TxLeft(tx[s])
      BY <3>1, <3>2 DEF PlaceLeft, TxLeft
    <3> QED
      BY <1>1, <3>1, <3>3, RanksDrop
  <2>6. ASSUME NEW s \in Seeder, CommitTakesEffect(s) \/ RolledBack(s) PROVE Left(s)' < Left(s)
    <3>1. /\ tx[s] \in {"open", "committing"} /\ tx'[s] \in {"committed", "rolled_back"}
          /\ pc'[s] = pc[s] /\ todo'[s] = todo[s]
      BY <2>0, <2>6 DEF CommitTakesEffect, RolledBack, TypeOK
    <3>2. Len(Rows[s]) \in Nat
      BY RowsFinite
    <3>3. PlaceLeft(pc'[s], Len(Rows[s])) + TxLeft(tx'[s])
            < PlaceLeft(pc[s], Len(Rows[s])) + TxLeft(tx[s])
      <4>1. TxLeft(tx'[s]) \in Nat /\ TxLeft(tx[s]) \in Nat /\ TxLeft(tx'[s]) < TxLeft(tx[s])
        BY <3>1 DEF TxLeft
      <4>2. PlaceLeft(pc[s], Len(Rows[s])) \in Nat
        BY <3>2 DEF PlaceLeft
      <4> QED
        BY <3>1, <4>1, <4>2
    <3> QED
      BY <1>1, <3>1, <3>3, RanksDrop
  <2>7. ASSUME NEW s \in Seeder, CommitReturns(s) \/ Cancelled(s) PROVE Left(s)' < Left(s)
    <3>1. /\ pc[s] \in {"rows", "commit"} /\ pc'[s] \in {"ok", "failed"}
          /\ tx'[s] = tx[s] /\ todo'[s] = todo[s]
      BY <2>0, <2>7 DEF CommitReturns, Cancelled, TypeOK
    <3>2. Len(Rows[s]) \in Nat
      BY RowsFinite
    <3>3. PlaceLeft(pc'[s], Len(Rows[s])) + TxLeft(tx'[s])
            < PlaceLeft(pc[s], Len(Rows[s])) + TxLeft(tx[s])
      <4>1. TxLeft(tx[s]) \in Nat
        BY DEF TxLeft
      <4>2. /\ PlaceLeft(pc[s], Len(Rows[s])) \in {1, 2}
            /\ PlaceLeft(pc'[s], Len(Rows[s])) = 0
        BY <3>1 DEF PlaceLeft
      <4> QED
        BY <3>1, <4>1, <4>2
    <3> QED
      BY <1>1, <3>1, <3>3, RanksDrop
  <2>8. ASSUME NEW s \in Seeder,
               \/ Stops(s) \/ Begins(s) \/ (\E k \in todo[s] : Sends(s, k))
               \/ pc[s] = "rows" /\ Fails(s)
               \/ Commit(s) \/ CommitTakesEffect(s) \/ RolledBack(s)
               \/ CommitReturns(s) \/ Cancelled(s)
        PROVE  \A x \in Seeder \ {s} : pc'[x] = pc[x] /\ tx'[x] = tx[x] /\ todo'[x] = todo[x]
    BY <2>0, <2>8 DEF TypeOK, Stops, Begins, Sends, Writes, Skips, Fails, Commit,
       CommitTakesEffect, RolledBack, CommitReturns, Cancelled
  <2> QED
    BY <1>1, <2>0, <2>1, <2>2, <2>3, <2>4, <2>5, <2>6, <2>7, <2>8, OthersLeft, Steps
<1>2. Ind /\ [Next]_vars =>
        [\E s \in Seeder : /\ Left(s)' < Left(s)
                           /\ \A x \in Seeder \ {s} : Left(x)' = Left(x)]_vars
  BY <1>1
<1>3. Ind => \A s \in Seeder : Left(s) \in Nat
  BY LeftTyped
<1> QED
  BY <1>2, <1>3, SeedingInvariance, PTL DEF Spec, SeedersRunDown

(***************************************************************************)
(* The refinement of TemplateCatalog.                                      *)
(***************************************************************************)
Applied == {s \in Seeder : tx[s] = "committed"}
Outcome == [s \in Seeder |-> IF pc[s] \in Ended THEN pc[s] ELSE "open"]

(* A step that leaves commits and outcomes alone is a stutter. *)
LEMMA Stutters ==
    ASSUME templates' = templates,
           \A s \in Seeder : /\ tx'[s] = "committed" <=> tx[s] = "committed"
                             /\ pc'[s] = pc[s] \/ (pc[s] \notin Ended /\ pc'[s] \notin Ended)
    PROVE  UNCHANGED Catalog!vars
<1>1. Applied' = Applied
  BY DEF Applied
<1>2. Outcome' = Outcome
  BY DEF Outcome
<1> QED
  BY <1>1, <1>2 DEF Applied, Outcome, Catalog!vars

(* A seeder that ends reports. *)
LEMMA Reports ==
    ASSUME TypeOK, NEW s \in Seeder, NEW end \in Ended, pc[s] \notin Ended,
           pc' = [pc EXCEPT ![s] = end], templates' = templates,
           \A x \in Seeder : tx'[x] = "committed" <=> tx[x] = "committed",
           end = "unseeded" => tx[s] # "committed",
           end = "ok" => tx[s] = "committed"
    PROVE  Catalog!Next
<1>1. Applied' = Applied /\ (s \in Applied <=> tx[s] = "committed")
  BY DEF Applied
<1>2. Outcome[s] = "open" /\ Outcome' = [Outcome EXCEPT ![s] = end]
  BY DEF Outcome, TypeOK
<1>3. end \in {"ok", "failed", "unseeded"}
  BY DEF Ended
<1>4. Catalog!Report(s)
  BY <1>1, <1>2, <1>3 DEF Applied, Outcome, Catalog!Report
<1> QED
  BY <1>4 DEF Catalog!Next

(* A commit applies the catalog in the mode of its seeder. *)
LEMMA Applies ==
    ASSUME Ind, NEW s \in Seeder, CommitTakesEffect(s)
    PROVE  Catalog!Next
<1>0. TypeOK /\ PlacesFit /\ SentInOrder /\ WorkDone
  BY DEF Ind
<1>1. tx[s] = "committing" /\ todo[s] = {} /\ pc[s] \in {"commit", "failed"}
  BY <1>0 DEF CommitTakesEffect, PlacesFit
<1>2. s \notin Applied /\ Applied' = Applied \cup {s}
  BY <1>0, <1>1 DEF CommitTakesEffect, Applied, TypeOK
<1>3. Outcome[s] \in {"open", "failed"} /\ Outcome' = Outcome
  BY <1>1 DEF Outcome, Ended, CommitTakesEffect
<1>4. \A t \in Slugs(s) : t \in Slug /\
        (Holds(s, t) \/ (mode[s] = "skip" /\ templates[t] # None))
  BY <1>0, <1>1, RowsTyped DEF WorkDone, Slugs, Lines
<1>5. \A t \in Slug : Holds(s, t) =>
        /\ t \in Slugs(s) /\ written[s][t] = Content[s][t]
        /\ mode[s] # "update" => templates[t] = None
  BY <1>0, <1>1 DEF WorkDone, SentInOrder, Slugs, Lines
<1>6. templates' = [t \in Slug |-> IF Holds(s, t) THEN written[s][t] ELSE templates[t]]
  BY DEF CommitTakesEffect, Holds
<1>7. mode[s] \in {"skip", "update", "fail"}
  BY <1>0 DEF TypeOK, OnConflict
<1>8. \A t \in Slug : Holds(s, t) <=> t \in Slugs(s) /\ (mode[s] = "update" \/ templates[t] = None)
  BY <1>4, <1>5, <1>7
<1>9. Catalog!Slugs(s) = Slugs(s)
  BY DEF Slugs, Catalog!Slugs
<1>10. templates' = Catalog!Seeded(s, mode[s])
  BY <1>5, <1>6, <1>8, <1>9 DEF Catalog!Seeded
<1>11. mode[s] = "fail" => \A t \in Catalog!Slugs(s) : templates[t] = None
  BY <1>4, <1>5, <1>9
<1>12. Catalog!Apply(s)
  BY <1>2, <1>3, <1>7, <1>10, <1>11 DEF Catalog!Apply, Applied, Outcome
<1> QED
  BY <1>12 DEF Catalog!Next

(* Every step is a step of the catalog or a stutter. *)
LEMMA StepRefines == Ind /\ [Next]_vars => [Catalog!Next]_(Catalog!vars)
<1> SUFFICES ASSUME Ind, [Next]_vars PROVE Catalog!Next \/ UNCHANGED Catalog!vars
  OBVIOUS
<1>0. TypeOK /\ PlacesFit
  BY DEF Ind
<1>1. ASSUME NEW s \in Seeder, Stops(s) PROVE Catalog!Next
  <2>1. PICK end \in {"failed", "unseeded"} : pc' = [pc EXCEPT ![s] = end]
    BY <1>1 DEF Stops
  <2>2. pc[s] \notin Ended /\ tx[s] = "none" /\ UNCHANGED <<templates, tx>>
    BY <1>0, <1>1 DEF Stops, Ended, PlacesFit
  <2>3. end \in Ended /\ end # "ok"
    BY DEF Ended
  <2> QED
    BY <1>0, <2>1, <2>2, <2>3, Reports
<1>2. ASSUME NEW s \in Seeder, Begins(s) PROVE UNCHANGED Catalog!vars
  BY <1>0, <1>2, Stutters DEF Begins, TypeOK, Ended, PlacesFit
<1>3. ASSUME NEW s \in Seeder, NEW k \in todo[s], Sends(s, k) PROVE UNCHANGED Catalog!vars
  BY <1>3, Stutters DEF Sends, Writes, Skips
<1>4. ASSUME NEW s \in Seeder, pc[s] = "rows", Fails(s) PROVE Catalog!Next
  <2>1. \A x \in Seeder : tx'[x] = "committed" <=> tx[x] = "committed"
    BY <1>0, <1>4 DEF Fails, PlacesFit, TypeOK
  <2>2. "failed" \in Ended /\ pc[s] \notin Ended
    BY <1>4 DEF Ended
  <2> QED
    BY <1>0, <1>4, <2>1, <2>2, Reports DEF Fails
<1>5. ASSUME NEW s \in Seeder, Commit(s) PROVE UNCHANGED Catalog!vars
  BY <1>0, <1>5, Stutters DEF Commit, TypeOK, Ended
<1>6. ASSUME NEW s \in Seeder, CommitTakesEffect(s) PROVE Catalog!Next
  BY <1>6, Applies
<1>7. ASSUME NEW s \in Seeder, RolledBack(s) PROVE UNCHANGED Catalog!vars
  BY <1>0, <1>7, Stutters DEF RolledBack, TypeOK
<1>8. ASSUME NEW s \in Seeder, CommitReturns(s) PROVE Catalog!Next
  <2> DEFINE end == IF tx[s] = "committed" THEN "ok" ELSE "failed"
  <2>1. pc' = [pc EXCEPT ![s] = end] /\ UNCHANGED <<templates, tx>> /\ pc[s] \notin Ended
    BY <1>8 DEF CommitReturns, Ended
  <2>2. /\ end \in Ended /\ end # "unseeded"
        /\ end = "ok" => tx[s] = "committed"
    BY DEF Ended
  <2> HIDE DEF end
  <2> QED
    BY <1>0, <2>1, <2>2, Reports
<1>9. ASSUME NEW s \in Seeder, Cancelled(s) PROVE Catalog!Next
  <2>1. "failed" \in Ended /\ pc[s] \notin Ended
    BY <1>9 DEF Cancelled, Ended
  <2> QED
    BY <1>0, <1>9, <2>1, Reports DEF Cancelled
<1>10. CASE UNCHANGED vars
  BY <1>10, Stutters DEF vars
<1> QED
  BY <1>0, <1>1, <1>2, <1>3, <1>4, <1>5, <1>6, <1>7, <1>8, <1>9, <1>10, Steps

(* Seeders implement the catalog that is seeded at once or not at all. *)
THEOREM SeedersImplementCatalog == Spec => ImplementsCatalog
<1>1. Init => Catalog!Init
  BY DEF Init, Catalog!Init, Nothing, Ended
<1>2. Ind /\ [Next]_vars => [Catalog!Next]_(Catalog!vars)
  BY StepRefines
<1> QED
  BY <1>1, <1>2, SeedingInvariance, PTL DEF Spec, ImplementsCatalog, Catalog!Spec
=============================================================================
