------------------------------ MODULE Seeding ------------------------------
(***************************************************************************)
(* Seeders of the templates table, statement by statement: runs of         *)
(* cmd/seed and replicas that boot with SEED_ON_BOOT, of one release or of *)
(* several, at the same time on one database.  A seeder is one transaction *)
(* that sends an INSERT per row of its embedded catalog, in file order.    *)
(*                                                                         *)
(* The database runs transactions READ COMMITTED: a statement on a slug    *)
(* that another open transaction has written waits for its end; a row that *)
(* is only skipped is not locked.  No code removes templates, so none of   *)
(* the actions does.                                                       *)
(***************************************************************************)
EXTENDS Naturals, Sequences, FiniteSets

CONSTANTS Seeder, Slug, Body, Rows, Content, None

ASSUME SeedingAssumption ==
    /\ None \notin Body
    /\ Rows \in [Seeder -> Seq(Slug)]
    /\ \A s \in Seeder : \A j, k \in DOMAIN Rows[s] : Rows[s][j] = Rows[s][k] => j = k
    /\ Content \in [Seeder -> [Slug -> Body]]

VARIABLES
    templates,  \* templates[t]: the committed row of slug t, or None
    pc,         \* pc[s]: where seeder s is: "start", "rows", "commit", or how it ended
    mode,       \* mode[s]: its OnConflict
    todo,       \* todo[s]: the indices of the rows it has not sent
    tx,         \* tx[s]: its transaction: "none", "open", "committing",
                \*        "committed" or "rolled_back"
    written     \* written[s][t]: what the transaction holds of slug t, or None

vars == <<templates, pc, mode, todo, tx, written>>

OnConflict == {"skip", "update", "fail"}
Source == {"templates"}
Ended == {"ok", "failed", "unseeded"}
Nothing == [t \in Slug |-> None]
Slugs(s) == {Rows[s][k] : k \in DOMAIN Rows[s]}

(***************************************************************************)
(* Starting.                                                               *)
(***************************************************************************)
(* Seed up to BEGIN; an empty catalog is an error, and so is a database    *)
(* that cannot be reached.                                                 *)
Seed(s, m) ==
    \/ /\ Rows[s] # <<>>
       /\ pc' = [pc EXCEPT ![s] = "rows"]
       /\ mode' = [mode EXCEPT ![s] = m]
       /\ todo' = [todo EXCEPT ![s] = DOMAIN Rows[s]]
       /\ tx' = [tx EXCEPT ![s] = "open"]
       /\ UNCHANGED <<templates, written>>
    \/ /\ pc' = [pc EXCEPT ![s] = "failed"]
       /\ UNCHANGED <<templates, mode, todo, tx, written>>

(* cmd/seed, with any words for its two flags.                             *)
RunSeed(s) ==
    /\ pc[s] = "start"
    /\ \E m \in OnConflict \cup {"other"}, source \in Source \cup {"other"} :
         IF m \in OnConflict /\ source \in Source
         THEN Seed(s, m)
         ELSE /\ pc' = [pc EXCEPT ![s] = "failed"]
              /\ UNCHANGED <<templates, mode, todo, tx, written>>

(* A replica boots: configuration refuses to seed in prod, the application *)
(* seeds only in dev, and skips what is there.                             *)
LoadRefuses(env, seedOnBoot) == seedOnBoot /\ env = "prod"
Boot(s) ==
    /\ pc[s] = "start"
    /\ \E env \in {"dev", "staging", "prod"}, seedOnBoot \in BOOLEAN :
         IF seedOnBoot /\ env = "dev"
         THEN Seed(s, "skip")
         ELSE /\ pc' = [pc EXCEPT ![s] = IF LoadRefuses(env, seedOnBoot)
                                         THEN "failed" ELSE "unseeded"]
              /\ UNCHANGED <<templates, mode, todo, tx, written>>

(***************************************************************************)
(* The rows, one statement each.                                           *)
(***************************************************************************)
AnyRow(s) == todo[s]
NextRow(s) == {k \in todo[s] : \A j \in todo[s] : k <= j}

Holds(x, t) == written[x][t] # None
Free(x, t) == \A y \in Seeder \ {x} : ~Holds(y, t)
(* x' next statement needs a slug that y has written.                      *)
WaitsFor(x, y) ==
    /\ x # y /\ pc[x] = "rows"
    /\ \E k \in NextRow(x) : Holds(y, Rows[x][k])

Fails(s) ==
    /\ pc' = [pc EXCEPT ![s] = "failed"]
    /\ tx' = [tx EXCEPT ![s] = "rolled_back"]
    /\ written' = [written EXCEPT ![s] = Nothing]
    /\ UNCHANGED <<templates, mode, todo>>

Writes(s, k) ==
    /\ written' = [written EXCEPT ![s][Rows[s][k]] = Content[s][Rows[s][k]]]
    /\ todo' = [todo EXCEPT ![s] = @ \ {k}]
    /\ UNCHANGED <<templates, pc, mode, tx>>

Skips(s, k) ==
    /\ todo' = [todo EXCEPT ![s] = @ \ {k}]
    /\ UNCHANGED <<templates, pc, mode, tx, written>>

(* INSERT ... with no clause, DO NOTHING or DO UPDATE.  An error aborts    *)
(* the transaction, and Seed returns it.                                   *)
RowAutocommitted(s) ==
    /\ pc[s] = "rows" /\ tx[s] = "open"
    /\ \E k \in NextRow(s) :
         LET t == Rows[s][k] IN
         /\ Free(s, t)
         /\ todo' = [todo EXCEPT ![s] = @ \ {k}]
         /\ templates' = IF templates[t] = None \/ mode[s] = "update"
                         THEN [templates EXCEPT ![t] = Content[s][t]] ELSE templates
         /\ UNCHANGED <<pc, mode, tx, written>>
RowConflictRetried(s) ==
    /\ pc[s] = "rows" /\ tx[s] = "open"
    /\ \E k \in NextRow(s) :
       /\ Free(s, Rows[s][k])
       /\ \/ (templates[Rows[s][k]] = None \/ mode[s] = "update") /\ Writes(s, k)
          \/ templates[Rows[s][k]] # None /\ mode[s] = "skip" /\ Skips(s, k)
Row(s) ==
    /\ pc[s] = "rows" /\ tx[s] = "open"
    /\ \E k \in NextRow(s) :
       /\ Free(s, Rows[s][k])
       /\ \/ (templates[Rows[s][k]] = None \/ mode[s] = "update") /\ Writes(s, k)
          \/ templates[Rows[s][k]] # None /\ mode[s] = "skip" /\ Skips(s, k)
          \/ templates[Rows[s][k]] # None /\ mode[s] = "fail" /\ Fails(s)

(* The database finds a cycle of waiting transactions and aborts one.      *)
Cycle(C) ==
    /\ C # {}
    /\ \A x \in C : /\ \E y \in C : WaitsFor(x, y)
                    /\ \E y \in C : WaitsFor(y, x)

DeadlockDetected(s) ==
    /\ tx[s] = "open"
    /\ \E C \in SUBSET Seeder : s \in C /\ Cycle(C)
    /\ Fails(s)

(***************************************************************************)
(* The end of the transaction.                                             *)
(***************************************************************************)
Commit(s) ==
    /\ pc[s] = "rows" /\ tx[s] = "open" /\ todo[s] = {}
    /\ pc' = [pc EXCEPT ![s] = "commit"]
    /\ tx' = [tx EXCEPT ![s] = "committing"]
    /\ UNCHANGED <<templates, mode, todo, written>>

(* The database does what COMMIT asks, whoever still listens.              *)
CommitTakesEffect(s) ==
    /\ tx[s] = "committing"
    /\ tx' = [tx EXCEPT ![s] = "committed"]
    /\ templates' = [t \in Slug |-> IF written[s][t] # None THEN written[s][t]
                                    ELSE templates[t]]
    /\ written' = [written EXCEPT ![s] = Nothing]
    /\ UNCHANGED <<pc, mode, todo>>

(* The database ends a transaction whose client is gone, or loses one.     *)
RolledBack(s) ==
    /\ \/ tx[s] = "open" /\ pc[s] = "failed"
       \/ tx[s] = "committing"
    /\ tx' = [tx EXCEPT ![s] = "rolled_back"]
    /\ written' = [written EXCEPT ![s] = Nothing]
    /\ UNCHANGED <<templates, pc, mode, todo>>

CommitUnchecked(s) ==
    /\ pc[s] = "commit" /\ tx[s] \in {"committed", "rolled_back"}
    /\ pc' = [pc EXCEPT ![s] = "ok"]
    /\ UNCHANGED <<templates, mode, todo, tx, written>>
CommitReturns(s) ==
    /\ pc[s] = "commit" /\ tx[s] \in {"committed", "rolled_back"}
    /\ pc' = [pc EXCEPT ![s] = IF tx[s] = "committed" THEN "ok" ELSE "failed"]
    /\ UNCHANGED <<templates, mode, todo, tx, written>>

(* A lost connection, the 60 s of cmd/seed, a signal or a kill: Seed       *)
(* returns an error, and its transaction is ended by the database later.   *)
Cancelled(s) ==
    /\ pc[s] \in {"rows", "commit"}
    /\ pc' = [pc EXCEPT ![s] = "failed"]
    /\ UNCHANGED <<templates, mode, todo, tx, written>>

Init ==
    /\ templates = Nothing
    /\ pc = [s \in Seeder |-> "start"]
    /\ mode = [s \in Seeder |-> "skip"]
    /\ todo = [s \in Seeder |-> {}]
    /\ tx = [s \in Seeder |-> "none"]
    /\ written = [s \in Seeder |-> Nothing]

Step(s) == Row(s) \/ Commit(s) \/ CommitReturns(s)
Database(s) == DeadlockDetected(s) \/ CommitTakesEffect(s) \/ RolledBack(s)

Next == \E s \in Seeder : \/ RunSeed(s) \/ Boot(s)
                          \/ Step(s) \/ Database(s) \/ Cancelled(s)

Spec == Init /\ [][Next]_vars

(* A seeder that has begun goes on, and the database answers.              *)
FairSpec == Spec /\ \A s \in Seeder : WF_vars(Step(s)) /\ WF_vars(Database(s))

(***************************************************************************)
(* What readers get: one statement each, so one committed catalog.         *)
(***************************************************************************)
Get(t) == templates[t]
List == {t \in Slug : Get(t) # None}

(***************************************************************************)
(* Invariants.                                                             *)
(***************************************************************************)
(* Every variable keeps its type; a seeder holds rows only while its       *)
(* transaction lasts, no slug is held by two, and what ended well has      *)
(* committed.                                                              *)
TypeOK ==
    /\ templates \in [Slug -> Body \cup {None}]
    /\ pc \in [Seeder -> {"start", "rows", "commit"} \cup Ended]
    /\ mode \in [Seeder -> OnConflict]
    /\ todo \in [Seeder -> SUBSET Nat]
    /\ tx \in [Seeder -> {"none", "open", "committing", "committed", "rolled_back"}]
    /\ written \in [Seeder -> [Slug -> Body \cup {None}]]
    /\ \A s \in Seeder : tx[s] \notin {"open", "committing"} => written[s] = Nothing
    /\ \A s \in Seeder : pc[s] = "ok" => tx[s] = "committed"
    /\ \A x, y \in Seeder : \A t \in Slug : Holds(x, t) /\ Holds(y, t) => x = y

(* A seeder that reported success, or a replica that seeded on boot and    *)
(* goes on to serve, finds every template of its catalog, whatever other   *)
(* seeders did meanwhile and whichever mode they ran in.                   *)
OkMeansSeeded ==
    \A s \in Seeder : pc[s] = "ok" => Slugs(s) \subseteq List

(* Seeders that send the same slugs in the same order never wait for one   *)
(* another in a cycle: a deadlock takes two releases.                      *)
DeadlockNeedsTwoReleases ==
    \A C \in SUBSET Seeder : Cycle(C) => \E x, y \in C : Rows[x] # Rows[y]

(***************************************************************************)
(* What the seeders promise together.                                      *)
(***************************************************************************)
Catalog == INSTANCE TemplateCatalog WITH
    applied <- {s \in Seeder : tx[s] = "committed"},
    outcome <- [s \in Seeder |-> IF pc[s] \in Ended THEN pc[s] ELSE "open"]

(* Each seeder takes effect at once or not at all: a seeder that fails at  *)
(* one template leaves none of the earlier ones behind, and readers see    *)
(* the catalogs of seeders that ran one after another.                     *)
ImplementsCatalog == Catalog!Spec

(* A seeder that has begun ends and lets go of its rows, however many      *)
(* others it meets and in whatever order they send their rows.             *)
SeedersEnd ==
    \A s \in Seeder : pc[s] # "start" ~> /\ pc[s] \in Ended
                                        /\ tx[s] \notin {"open", "committing"}
=============================================================================
