---------------------------- MODULE Migrations ----------------------------
(***************************************************************************)
(* The schema of the database and the processes that change it or decide   *)
(* whether to start on it: replicas that boot (config.Load and             *)
(* App.runMigrations) and runs of cmd/migrate.  They share one database,   *)
(* where golang-migrate keeps a version, a dirty flag and an advisory lock.*)
(* Binaries of different releases embed different migrations.              *)
(*                                                                         *)
(* A statement may fail before it has an effect or after it, and a process *)
(* may be killed between any two: the lock goes with its session, the      *)
(* dirty flag stays.                                                       *)
(***************************************************************************)
EXTENDS Integers

CONSTANTS
    Process,    \* runs of the two programs
    Known,      \* Known[p]: the last migration that is embedded in p's binary
    Arg,        \* the numbers an operator types
    None        \* no process

Nil == -1

ASSUME MigrationsAssumption ==
    /\ Known \in [Process -> Nat \ {0}]
    /\ Arg \subseteq {a \in Int : a >= Nil}
    /\ None \notin Process

VARIABLES
    version,    \* schema_migrations: the version, Nil when there is no row
    dirty,      \* its dirty flag
    schema,     \* how many migrations the tables have been through
    trusted,    \* history: nobody has forced a version other than the schema's
    holder,     \* who holds the advisory lock
    pc,         \* what each process does next
    job         \* what it was started to do, while it runs

vars == <<version, dirty, schema, trusted, holder, pc, job>>

Applied(v) == IF v = Nil THEN 0 ELSE v

RawEnv == {"dev", "prod", "PROD", "qa"}
ToLower(raw) == IF raw = "PROD" THEN "prod" ELSE raw

JobOf(kind, env, arg) == [kind |-> kind, env |-> env, arg |-> arg, to |-> Nil]
NoJob == JobOf("none", "dev", 0)
Kind == {"none", "auto", "manual", "up", "down", "force"}
Idle == {"start", "rejected", "refused", "failed", "ok", "booted"}
UnderLock == {"planning", "marking", "applying", "cleaning", "forcing"}
Busy == {"opening", "checking", "locking"} \cup UnderLock

Goto(p, next) == pc' = [pc EXCEPT ![p] = next]
SameData == UNCHANGED <<version, dirty, schema, trusted>>

(* A process that ends closes its session and with it gives up the lock. *)
ExitUnclosed(p, how) ==
    /\ Goto(p, how) /\ job' = [job EXCEPT ![p] = NoJob]
    /\ holder' = IF holder = p /\ how # "booted" THEN None ELSE holder
Exit(p, how) ==
    /\ Goto(p, how) /\ job' = [job EXCEPT ![p] = NoJob]
    /\ holder' = IF holder = p THEN None ELSE holder

(* The reply to a statement that took effect may be lost. *)
Continue(p, next) == (Goto(p, next) /\ UNCHANGED <<holder, job>>) \/ Exit(p, "failed")

(***************************************************************************)
(* Booting.  The environment is compared in lower case.                    *)
(***************************************************************************)
DefaultMode(raw) == IF ToLower(raw) = "prod" THEN "off" ELSE "auto"

CaseSensitive(raw, mode) ==
    /\ ToLower(raw) \in {"dev", "prod"} /\ mode \in {"auto", "manual", "off"}
    /\ ~(raw = "prod" /\ mode = "auto")
Loads(raw, mode) ==
    /\ ToLower(raw) \in {"dev", "prod"} /\ mode \in {"auto", "manual", "off"}
    /\ ~(ToLower(raw) = "prod" /\ mode = "auto")

Boot(p) ==
    /\ pc[p] = "start"
    /\ \E raw \in RawEnv, setting \in {"unset", "auto", "manual", "off", "other"} :
         LET mode == IF setting = "unset" THEN DefaultMode(raw) ELSE setting IN
         \/ ~Loads(raw, mode) /\ Goto(p, "rejected") /\ UNCHANGED job
         \/ Loads(raw, mode) /\ mode = "off" /\ Goto(p, "booted") /\ UNCHANGED job
         \/ /\ Loads(raw, mode) /\ mode # "off" /\ Goto(p, "opening")
            /\ job' = [job EXCEPT ![p] = JobOf(mode, raw, 0)]
    /\ SameData /\ UNCHANGED holder

(***************************************************************************)
(* cmd/migrate.                                                            *)
(***************************************************************************)
Command(p) ==
    /\ pc[p] = "start" /\ Goto(p, "opening")
    /\ \E raw \in RawEnv \ {"qa"}, a \in Arg :
         \/ job' = [job EXCEPT ![p] = JobOf("up", "dev", 0)]
         \/ job' = [job EXCEPT ![p] = JobOf("down", raw, a)]
         \/ job' = [job EXCEPT ![p] = JobOf("force", "dev", a)]
    /\ SameData /\ UNCHANGED holder

(***************************************************************************)
(* The migrator.  Opening it makes sure that its table exists, under the   *)
(* lock.  The command's own checks come after.                             *)
(***************************************************************************)
ForceUnlocked(p) ==
    CASE job[p].kind = "manual" -> "checking"
      [] job[p].kind = "force" -> "forcing"
      [] job[p].kind = "down" /\ (job[p].env = "prod" \/ job[p].arg <= 0) -> "rejected"
      [] OTHER -> "locking"
AfterOpen(p) ==
    CASE job[p].kind = "manual" -> "checking"
      [] job[p].kind = "down" /\ (job[p].env = "prod" \/ job[p].arg <= 0) -> "rejected"
      [] OTHER -> "locking"

Open(p) ==
    /\ pc[p] = "opening" /\ holder = None
    /\ IF AfterOpen(p) = "rejected" THEN Exit(p, "rejected")
       ELSE Goto(p, AfterOpen(p)) /\ UNCHANGED <<holder, job>>
    /\ SameData

(* HasPending, which takes no lock.  Version reports 0 and clean for Nil. *)
PendingIfBehind(p) == Known[p] > Applied(version)
HasPending(p) == (dirty /\ version # Nil) \/ Known[p] > Applied(version)

CheckPending(p) ==
    /\ pc[p] = "checking"
    /\ Exit(p, IF HasPending(p) THEN "refused" ELSE "booted")
    /\ SameData

Lock(p) ==
    /\ pc[p] = "locking" /\ holder = None
    /\ holder' = p
    /\ Goto(p, IF job[p].kind = "force" THEN "forcing" ELSE "planning")
    /\ SameData /\ UNCHANGED job

(* Up goes on to the last embedded migration, Down for the steps it was    *)
(* given.  Neither starts from a dirty schema, nor from a version that the *)
(* binary does not know.                                                   *)
OneTooFar(p) ==
    IF job[p].kind = "down" THEN version # Nil /\ job[p].arg > 0 ELSE version <= Known[p]
HasNext(p) ==
    IF job[p].kind = "down" THEN version # Nil /\ job[p].arg > 0 ELSE version < Known[p]

Target(p) ==
    IF job[p].kind = "down" THEN IF version = 1 THEN Nil ELSE version - 1
                            ELSE IF version = Nil THEN 1 ELSE version + 1

(* Down counts its steps. *)
Towards(j, to) == [kind |-> j.kind, env |-> j.env, to |-> to,
                   arg |-> IF j.kind = "down" THEN j.arg - 1 ELSE j.arg]

(* With nothing to do Up succeeds; Down fails when it runs out of steps. *)
NoChangeIsError(p) == "refused"
Outcome(p) == CASE job[p].kind = "auto" -> "booted"
                [] job[p].kind = "down" /\ job[p].arg > 0 -> "refused"
                [] OTHER -> "ok"

Plan(p) ==
    /\ pc[p] = "planning"
    /\ LET startable == ~dirty /\ version \in {Nil} \cup 1..Known[p] IN
       \/ ~startable /\ Exit(p, "refused")
       \/ startable /\ ~HasNext(p) /\ Exit(p, Outcome(p))
       \/ /\ startable /\ HasNext(p) /\ Goto(p, "marking") /\ UNCHANGED holder
          /\ job' = [job EXCEPT ![p] = Towards(job[p], Target(p))]
    /\ SameData

MarkDirty(p) ==
    /\ pc[p] = "marking"
    /\ version' = job[p].to /\ dirty' = TRUE
    /\ Continue(p, "applying")
    /\ UNCHANGED <<schema, trusted>>

(* One file is one implicit transaction. *)
Apply(p) ==
    /\ pc[p] = "applying"
    /\ schema' = Applied(job[p].to)
    /\ Continue(p, "cleaning")
    /\ UNCHANGED <<version, dirty, trusted>>

MarkClean(p) ==
    /\ pc[p] = "cleaning"
    /\ version' = job[p].to /\ dirty' = FALSE
    /\ Continue(p, "planning")
    /\ UNCHANGED <<schema, trusted>>

ForceVersion(p) ==
    /\ pc[p] = "forcing"
    /\ version' = job[p].arg /\ dirty' = FALSE
    /\ trusted' = (trusted /\ Applied(job[p].arg) = schema)
    /\ Exit(p, "ok") \/ Exit(p, "failed")
    /\ UNCHANGED schema

(* A statement fails, the wait for the lock times out, or p is killed. *)
Abort(p) ==
    /\ pc[p] \in Busy /\ Exit(p, "failed")
    /\ SameData

(***************************************************************************)
(* The specification: a database that nobody has touched.  Statements      *)
(* return, so a process that has begun goes on.                            *)
(***************************************************************************)
Init ==
    /\ version = Nil /\ dirty = FALSE /\ schema = 0 /\ trusted = TRUE
    /\ holder = None
    /\ pc = [p \in Process |-> "start"]
    /\ job = [p \in Process |-> NoJob]

Step(p) == \/ Open(p) \/ CheckPending(p) \/ Lock(p) \/ Plan(p)
           \/ MarkDirty(p) \/ Apply(p) \/ MarkClean(p) \/ ForceVersion(p)

Next == \E p \in Process : Boot(p) \/ Command(p) \/ Step(p) \/ Abort(p)

Spec == Init /\ [][Next]_vars /\ \A p \in Process : WF_vars(Step(p))

(***************************************************************************)
(* Properties.                                                             *)
(***************************************************************************)
Version == {Nil} \cup Arg \cup UNION {1..Known[p] : p \in Process}

TypeOK ==
    /\ version \in Version /\ dirty \in BOOLEAN
    /\ schema \in {Applied(v) : v \in Version} /\ trusted \in BOOLEAN
    /\ holder \in Process \cup {None}
    /\ pc \in [Process -> Idle \cup Busy]
    /\ job \in [Process -> [kind : Kind, env : RawEnv, arg : Int, to : Version]]

(* Whatever fails, is killed or runs at the same time, a clean version is  *)
(* the version of the tables, unless an operator forced a wrong one.       *)
CleanIsTrue == trusted /\ ~dirty => schema = Applied(version)

(* A replica passes the gate only on a schema that has every migration it  *)
(* knows and is not in the middle of one, whoever else migrates just then. *)
GateHolds ==
    [][\A p \in Process :
         pc'[p] = "booted" /\ pc[p] # "booted" /\ job[p].kind # "none" /\ trusted =>
            ~dirty /\ schema >= Known[p]]_vars

(* And it is turned away only when the schema is not the one it knows:     *)
(* that another replica migrated first is no reason.                       *)
RefusalJustified ==
    [][\A p \in Process :
         pc'[p] = "refused" /\ pc[p] # "refused" /\ job[p].kind # "down" /\ trusted =>
            dirty \/ schema # Known[p]]_vars

(* The version and the tables change only under the lock, and never by a   *)
(* replica that boots in production.                                       *)
Changes == <<version, dirty, schema>>' # <<version, dirty, schema>>
WritesAllowed ==
    [][Changes => \E p \in Process :
          holder = p /\ ~(job[p].kind = "auto" /\ ToLower(job[p].env) = "prod")]_vars

(* Every run ends, also those that wait for somebody else's lock. *)
RunsEnd == \A p \in Process : pc[p] \in Busy ~> pc[p] \in Idle

(* "`down` is hard-blocked when `APP_ENV=prod`": the same variable that    *)
(* config.Load reads in any case.                                          *)
DownBlockedInProd ==
    [][Changes => ~ \E p \in Process :
          holder = p /\ job[p].kind = "down" /\ ToLower(job[p].env) = "prod"]_vars
=============================================================================
