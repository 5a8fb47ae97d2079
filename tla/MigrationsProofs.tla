------------------------- MODULE MigrationsProofs -------------------------
(***************************************************************************)
(* What holds of the schema for any number of processes, any releases and  *)
(* any numbers an operator types.                                          *)
(***************************************************************************)
EXTENDS Migrations, TLAPS

(* Whoever is between Lock and the end of its session holds the lock. *)
LockHeld == \A p \in Process : pc[p] \in UnderLock => holder = p

(* Each process is where its job can take it. *)
JobsFit == \A p \in Process :
    /\ pc[p] \in Idle => job[p] = NoJob
    /\ pc[p] = "opening" => job[p].kind # "none"
    /\ pc[p] = "checking" => job[p].kind = "manual"
    /\ pc[p] = "locking" => job[p].kind \in {"auto", "up", "down", "force"}
    /\ pc[p] = "forcing" => job[p].kind = "force"
    /\ pc[p] \in UnderLock \ {"forcing"} => job[p].kind \in {"auto", "up", "down"}
    /\ job[p].kind = "force" => job[p].arg \in Arg
    /\ job[p].kind = "auto" => ToLower(job[p].env) # "prod"

(* A migration under way is marked. *)
UnderWay == \A p \in Process :
    /\ pc[p] = "applying" => dirty
    /\ pc[p] = "cleaning" => dirty /\ (trusted => schema = Applied(job[p].to))

Ind == TypeOK /\ LockHeld /\ JobsFit /\ UnderWay /\ CleanIsTrue

Job == [kind : Kind, env : RawEnv, arg : Int, to : Version]

(* A process without a job has one of the jobs, of no kind. *)
LEMMA NoJobFits == NoJob \in Job /\ NoJob.kind = "none"
  BY DEF NoJob, JobOf, Job, Kind, RawEnv, Version, Nil

(* A process moves on and the others stay. *)
LEMMA GotoEffect ==
    ASSUME TypeOK, NEW p \in Process, NEW next \in Idle \cup Busy, Goto(p, next)
    PROVE  /\ pc' \in [Process -> Idle \cup Busy]
           /\ pc'[p] = next
           /\ \A q \in Process \ {p} : pc'[q] = pc[q]
  BY DEF TypeOK, Goto

(* A process that ends leaves no job and no lock behind. *)
LEMMA ExitEffect ==
    ASSUME TypeOK, LockHeld, NEW p \in Process, NEW how \in Idle, Exit(p, how)
    PROVE  /\ pc' \in [Process -> Idle \cup Busy]
           /\ pc'[p] = how
           /\ \A q \in Process \ {p} : pc'[q] = pc[q] /\ job'[q] = job[q]
           /\ job' \in [Process -> Job] /\ job'[p] = NoJob
           /\ holder' \in Process \cup {None}
           /\ LockHeld'
<1>1. /\ pc' \in [Process -> Idle \cup Busy]
      /\ pc'[p] = how
      /\ \A q \in Process \ {p} : pc'[q] = pc[q]
  BY GotoEffect DEF Exit
<1>2. /\ \A q \in Process \ {p} : job'[q] = job[q]
      /\ job' \in [Process -> Job] /\ job'[p] = NoJob
  BY NoJobFits DEF TypeOK, Exit, Job
<1>3. holder' \in Process \cup {None}
  BY DEF TypeOK, Exit
<1>4. ASSUME NEW q \in Process, pc'[q] \in UnderLock
      PROVE  holder' = q
  <2>1. q # p
    BY <1>1, <1>4 DEF Idle, UnderLock
  <2>2. holder = q
    BY <2>1, <1>1, <1>4 DEF LockHeld
  <2> QED
    BY <2>1, <2>2 DEF Exit
<1> QED
  BY <1>1, <1>2, <1>3, <1>4 DEF LockHeld

(* It disturbs nobody: the invariant survives an exit that leaves the data. *)
LEMMA ExitKeeps ==
    ASSUME Ind, NEW p \in Process, NEW how \in Idle, Exit(p, how), SameData
    PROVE  Ind'
<1>1. /\ pc' \in [Process -> Idle \cup Busy]
      /\ pc'[p] = how
      /\ \A q \in Process \ {p} : pc'[q] = pc[q] /\ job'[q] = job[q]
      /\ job' \in [Process -> Job] /\ job'[p] = NoJob
      /\ holder' \in Process \cup {None}
      /\ LockHeld'
  BY ExitEffect DEF Ind
<1>2. TypeOK'
  BY <1>1 DEF Ind, TypeOK, SameData, Job, Version
<1>3. JobsFit'
  <2>1. how \notin Busy
    BY DEF Idle, Busy, UnderLock
  <2>2. \A q \in Process \ {p} : pc'[q] = pc[q] /\ job'[q] = job[q]
    BY <1>1
  <2>3. pc'[p] \notin Busy /\ pc'[p] \in Idle /\ job'[p] = NoJob
    BY <1>1, <2>1
  <2> QED
    BY <2>2, <2>3, NoJobFits DEF Ind, JobsFit, Busy, UnderLock
<1>4. UnderWay'
  BY <1>1 DEF Ind, UnderWay, SameData, Idle
<1>5. CleanIsTrue'
  BY DEF Ind, CleanIsTrue, SameData
<1> QED
  BY <1>1, <1>2, <1>3, <1>4, <1>5 DEF Ind

(* An untouched database and no process at work. *)
LEMMA InitInd == Init => Ind
<1> SUFFICES ASSUME Init PROVE Ind
  OBVIOUS
<1>1. TypeOK
  BY NoJobFits DEF Init, TypeOK, Job, Version, Applied, Idle
<1>2. LockHeld /\ UnderWay
  BY DEF Init, LockHeld, UnderWay, UnderLock
<1>3. JobsFit
  BY NoJobFits DEF Init, JobsFit, UnderLock
<1>4. CleanIsTrue
  BY DEF Init, CleanIsTrue, Applied, Nil
<1> QED
  BY <1>1, <1>2, <1>3, <1>4 DEF Ind

(***************************************************************************)
(* One lemma per step.                                                     *)
(***************************************************************************)
LEMMA BootInd == ASSUME Ind, NEW p \in Process, Boot(p) PROVE Ind'
<1>1. PICK raw \in RawEnv, setting \in {"unset", "auto", "manual", "off", "other"} :
         LET mode == IF setting = "unset" THEN DefaultMode(raw) ELSE setting IN
         \/ ~Loads(raw, mode) /\ Goto(p, "rejected") /\ UNCHANGED job
         \/ Loads(raw, mode) /\ mode = "off" /\ Goto(p, "booted") /\ UNCHANGED job
         \/ /\ Loads(raw, mode) /\ mode # "off" /\ Goto(p, "opening")
            /\ job' = [job EXCEPT ![p] = JobOf(mode, raw, 0)]
  BY DEF Boot
<1> DEFINE mode == IF setting = "unset" THEN DefaultMode(raw) ELSE setting
<1>2. pc[p] = "start" /\ job[p] = NoJob /\ SameData /\ UNCHANGED holder
  BY DEF Boot, Ind, JobsFit, Idle
<1>3. CASE UNCHANGED job /\ (Goto(p, "rejected") \/ Goto(p, "booted"))
  <2>1. /\ pc' \in [Process -> Idle \cup Busy]
        /\ pc'[p] \in Idle
        /\ \A q \in Process \ {p} : pc'[q] = pc[q]
    BY <1>3, GotoEffect DEF Ind, Idle
  <2>2. pc'[p] \notin Busy
    BY <2>1 DEF Idle, Busy, UnderLock
  <2>3. TypeOK'
    BY <1>2, <1>3, <2>1 DEF Ind, TypeOK, SameData, Version
  <2>4. LockHeld' /\ JobsFit' /\ UnderWay'
    BY <1>2, <1>3, <2>1, <2>2, NoJobFits
       DEF Ind, LockHeld, JobsFit, UnderWay, SameData, Busy, UnderLock
  <2>5. CleanIsTrue'
    BY <1>2 DEF Ind, CleanIsTrue, SameData
  <2> QED
    BY <2>3, <2>4, <2>5 DEF Ind
<1>4. CASE /\ Loads(raw, mode) /\ mode # "off" /\ Goto(p, "opening")
           /\ job' = [job EXCEPT ![p] = JobOf(mode, raw, 0)]
  <2>1. /\ pc' \in [Process -> Idle \cup Busy]
        /\ pc'[p] = "opening"
        /\ \A q \in Process \ {p} : pc'[q] = pc[q]
    BY <1>4, GotoEffect DEF Ind, Busy
  <2>2. mode \in {"auto", "manual"} /\ (mode = "auto" => ToLower(raw) # "prod")
    BY <1>4 DEF Loads
  <2>3. /\ job' \in [Process -> Job]
        /\ job'[p].kind = mode /\ job'[p].env = raw
        /\ \A q \in Process \ {p} : job'[q] = job[q]
    BY <1>4, <2>2, NoJobFits DEF Ind, TypeOK, Job, JobOf, Kind, Version
  <2>4. TypeOK'
    BY <1>2, <2>1, <2>3 DEF Ind, TypeOK, SameData, Version, Job
  <2>5. LockHeld' /\ UnderWay'
    BY <1>2, <2>1, <2>3 DEF Ind, LockHeld, UnderWay, SameData, UnderLock
  <2>6. JobsFit'
    BY <2>1, <2>2, <2>3 DEF Ind, JobsFit, Idle, UnderLock
  <2>7. CleanIsTrue'
    BY <1>2 DEF Ind, CleanIsTrue, SameData
  <2> QED
    BY <2>4, <2>5, <2>6, <2>7 DEF Ind
<1> QED
  BY <1>1, <1>3, <1>4

(* An operator starts the command. *)
LEMMA CommandInd == ASSUME Ind, NEW p \in Process, Command(p) PROVE Ind'
<1>1. /\ pc' \in [Process -> Idle \cup Busy]
      /\ pc'[p] = "opening"
      /\ \A q \in Process \ {p} : pc'[q] = pc[q]
  BY GotoEffect DEF Ind, Command, Busy
<1>2. PICK kind \in {"up", "down", "force"}, raw \in RawEnv, a \in Int :
         /\ kind = "force" => a \in Arg
         /\ job' = [job EXCEPT ![p] = JobOf(kind, raw, a)]
  <2>1. \E raw \in RawEnv, a \in Arg :
           \/ job' = [job EXCEPT ![p] = JobOf("up", "dev", 0)]
           \/ job' = [job EXCEPT ![p] = JobOf("down", raw, a)]
           \/ job' = [job EXCEPT ![p] = JobOf("force", "dev", a)]
    BY DEF Command
  <2> QED
    BY <2>1, MigrationsAssumption DEF RawEnv
<1>3. JobOf(kind, raw, a) \in Job /\ JobOf(kind, raw, a).kind = kind
      /\ JobOf(kind, raw, a).arg = a
  BY <1>2 DEF Job, JobOf, Kind, Version
<1>4. /\ job' \in [Process -> Job] /\ job'[p].kind = kind /\ job'[p].arg = a
      /\ \A q \in Process \ {p} : job'[q] = job[q]
  BY <1>2, <1>3 DEF Ind, TypeOK, Job
<1>5. SameData /\ UNCHANGED holder
  BY DEF Command
<1>6. TypeOK'
  BY <1>1, <1>4, <1>5 DEF Ind, TypeOK, SameData, Version, Job
<1>7. LockHeld' /\ UnderWay'
  BY <1>1, <1>4, <1>5 DEF Ind, LockHeld, UnderWay, SameData, UnderLock
<1>8. JobsFit'
  BY <1>1, <1>2, <1>4 DEF Ind, JobsFit, Idle, UnderLock
<1>9. CleanIsTrue'
  BY <1>5 DEF Ind, CleanIsTrue, SameData
<1> QED
  BY <1>6, <1>7, <1>8, <1>9 DEF Ind

(* A move that changes neither data, lock nor job. *)
LEMMA MoveKeeps ==
    ASSUME Ind, NEW p \in Process, NEW next \in {"checking", "locking"}, Goto(p, next),
           SameData, UNCHANGED <<holder, job>>,
           next = "checking" => job[p].kind = "manual",
           next = "locking" => job[p].kind \in {"auto", "up", "down", "force"}
    PROVE  Ind'
<1>1. /\ pc' \in [Process -> Idle \cup Busy]
      /\ pc'[p] = next
      /\ \A q \in Process \ {p} : pc'[q] = pc[q]
  BY GotoEffect DEF Ind, Busy
<1>2. TypeOK'
  BY <1>1 DEF Ind, TypeOK, SameData, Version
<1>3. LockHeld' /\ UnderWay'
  BY <1>1 DEF Ind, LockHeld, UnderWay, SameData, UnderLock
<1>4. JobsFit'
  BY <1>1 DEF Ind, JobsFit, Idle, UnderLock
<1>5. CleanIsTrue'
  BY DEF Ind, CleanIsTrue, SameData
<1> QED
  BY <1>2, <1>3, <1>4, <1>5 DEF Ind

(* Opening the migrator leaves the schema alone. *)
LEMMA OpenInd == ASSUME Ind, NEW p \in Process, Open(p) PROVE Ind'
<1>1. job[p].kind \in Kind /\ job[p].kind # "none"
  BY DEF Open, Ind, JobsFit, TypeOK
<1>2. CASE AfterOpen(p) = "rejected"
  BY <1>2, ExitKeeps DEF Open, Idle
<1>3. CASE AfterOpen(p) # "rejected"
  BY <1>1, <1>3, MoveKeeps DEF Open, AfterOpen, Kind
<1> QED
  BY <1>2, <1>3

(* The gate reads and leaves the schema alone. *)
LEMMA CheckPendingInd == ASSUME Ind, NEW p \in Process, CheckPending(p) PROVE Ind'
  BY ExitKeeps DEF CheckPending, Idle

(* A process that dies gives up its lock and leaves the schema as it is. *)
LEMMA AbortInd == ASSUME Ind, NEW p \in Process, Abort(p) PROVE Ind'
  BY ExitKeeps DEF Abort, Idle

(* The lock is taken when nobody has it. *)
LEMMA LockInd == ASSUME Ind, NEW p \in Process, Lock(p) PROVE Ind'
<1> DEFINE next == IF job[p].kind = "force" THEN "forcing" ELSE "planning"
<1>1. /\ pc' \in [Process -> Idle \cup Busy]
      /\ pc'[p] = next
      /\ \A q \in Process \ {p} : pc'[q] = pc[q]
  BY GotoEffect DEF Ind, Busy, UnderLock, Lock
<1>2. job[p].kind \in {"auto", "up", "down", "force"}
  BY DEF Ind, JobsFit, Lock
<1>3. TypeOK'
  BY <1>1 DEF Ind, TypeOK, SameData, Version, Lock
<1>4. LockHeld'
  BY <1>1, MigrationsAssumption DEF Ind, LockHeld, Lock
<1>5. JobsFit'
  BY <1>1, <1>2 DEF Ind, JobsFit, Lock, Idle, UnderLock
<1>6. UnderWay' /\ CleanIsTrue'
  BY <1>1 DEF Ind, UnderWay, CleanIsTrue, SameData, Lock
<1> QED
  BY <1>3, <1>4, <1>5, <1>6 DEF Ind

(* The version next to a version that the binary knows is a version. *)
LEMMA TargetTyped ==
    ASSUME NEW p \in Process, version \in {Nil} \cup 1..Known[p], HasNext(p)
    PROVE  Target(p) \in Version
<1>1. Known[p] \in Nat \ {0}
  BY MigrationsAssumption
<1>2. Target(p) \in {Nil} \cup 1..Known[p]
  BY <1>1 DEF Target, HasNext, Nil
<1> QED
  BY <1>2 DEF Version

(* Under the lock a clean version is the schema's, so the next step starts from it. *)
LEMMA PlanInd == ASSUME Ind, NEW p \in Process, Plan(p) PROVE Ind'
<1>1. CASE \E how \in Idle : Exit(p, how)
  BY <1>1, ExitKeeps DEF Plan
<1>2. CASE /\ version \in {Nil} \cup 1..Known[p]
           /\ HasNext(p) /\ Goto(p, "marking") /\ UNCHANGED holder
           /\ job' = [job EXCEPT ![p] = Towards(job[p], Target(p))]
  <2>1. /\ pc' \in [Process -> Idle \cup Busy]
        /\ pc'[p] = "marking"
        /\ \A q \in Process \ {p} : pc'[q] = pc[q]
    BY <1>2, GotoEffect DEF Ind, Busy, UnderLock
  <2>2. pc[p] = "planning" /\ job[p].kind \in {"auto", "up", "down"}
    BY DEF Plan, Ind, JobsFit, UnderLock
  <2>3. /\ job' \in [Process -> Job]
        /\ job'[p].kind = job[p].kind /\ job'[p].env = job[p].env
        /\ \A q \in Process \ {p} : job'[q] = job[q]
    <3>1. job[p] \in Job /\ Target(p) \in Version
      BY <1>2, TargetTyped DEF Ind, TypeOK, Job
    <3>2. /\ Towards(job[p], Target(p)) \in Job
          /\ Towards(job[p], Target(p)).kind = job[p].kind
          /\ Towards(job[p], Target(p)).env = job[p].env
      BY <3>1 DEF Job, Towards
    <3> QED
      BY <1>2, <3>2 DEF Ind, TypeOK, Job
  <2>4. TypeOK'
    BY <1>2, <2>1, <2>3 DEF Plan, Ind, TypeOK, SameData, Version, Job
  <2>5. LockHeld' /\ UnderWay'
    BY <1>2, <2>1, <2>2, <2>3 DEF Plan, Ind, LockHeld, UnderWay, SameData, UnderLock
  <2>6. JobsFit'
    BY <2>1, <2>2, <2>3 DEF Ind, JobsFit, Idle, UnderLock
  <2>7. CleanIsTrue'
    BY DEF Plan, Ind, CleanIsTrue, SameData
  <2> QED
    BY <2>4, <2>5, <2>6, <2>7 DEF Ind
<1> QED
  BY <1>1, <1>2 DEF Plan, Outcome, Idle

(* A statement under the lock that took effect, whether p hears of it or   *)
(* not: everybody else is outside.                                         *)
LEMMA ContinueEffect ==
    ASSUME Ind, NEW p \in Process, pc[p] \in UnderLock \ {"forcing"},
           NEW next \in {"planning", "applying", "cleaning"}, Continue(p, next)
    PROVE  /\ pc' \in [Process -> Idle \cup Busy]
           /\ pc'[p] \in {next, "failed"}
           /\ \A q \in Process \ {p} : pc'[q] = pc[q] /\ pc'[q] \notin UnderLock
           /\ job' \in [Process -> Job]
           /\ \A q \in Process \ {p} : job'[q] = job[q]
           /\ pc'[p] = next => job'[p] = job[p]
           /\ pc'[p] = "failed" => job'[p] = NoJob
           /\ holder' \in Process \cup {None}
           /\ LockHeld'
           /\ JobsFit'
<1>1. \A q \in Process \ {p} : pc[q] \notin UnderLock
  BY DEF Ind, LockHeld
<1>2. CASE Goto(p, next) /\ UNCHANGED <<holder, job>>
  <2>1. /\ pc' \in [Process -> Idle \cup Busy]
        /\ pc'[p] = next
        /\ \A q \in Process \ {p} : pc'[q] = pc[q]
    BY <1>2, GotoEffect DEF Ind, Busy, UnderLock
  <2>2. LockHeld'
    BY <1>2, <2>1 DEF Ind, LockHeld
  <2>3. JobsFit'
    BY <1>2, <2>1 DEF Ind, JobsFit, Idle, UnderLock
  <2> QED
    BY <1>1, <1>2, <2>1, <2>2, <2>3 DEF Ind, TypeOK, Job
<1>3. CASE Exit(p, "failed")
  <2>1. /\ pc' \in [Process -> Idle \cup Busy]
        /\ pc'[p] = "failed"
        /\ \A q \in Process \ {p} : pc'[q] = pc[q] /\ job'[q] = job[q]
        /\ job' \in [Process -> Job] /\ job'[p] = NoJob
        /\ holder' \in Process \cup {None}
        /\ LockHeld'
    BY <1>3, ExitEffect DEF Ind, Idle
  <2>2. JobsFit'
    BY <2>1, NoJobFits DEF Ind, JobsFit, UnderLock
  <2> QED
    BY <1>1, <2>1, <2>2
<1> QED
  BY <1>2, <1>3 DEF Continue

(* The version runs ahead of the schema, and is dirty. *)
LEMMA MarkDirtyInd == ASSUME Ind, NEW p \in Process, MarkDirty(p) PROVE Ind'
<1>1. pc[p] \in UnderLock \ {"forcing"} /\ Continue(p, "applying")
  BY DEF MarkDirty, UnderLock
<1>2. /\ pc' \in [Process -> Idle \cup Busy]
      /\ pc'[p] \in {"applying", "failed"}
      /\ \A q \in Process \ {p} : pc'[q] \notin UnderLock
      /\ job' \in [Process -> Job]
      /\ holder' \in Process \cup {None}
      /\ LockHeld' /\ JobsFit'
  BY <1>1, ContinueEffect
<1>3. TypeOK'
  BY <1>2 DEF MarkDirty, Ind, TypeOK, Version, Job
<1>4. UnderWay' /\ CleanIsTrue'
  BY <1>2 DEF MarkDirty, UnderWay, CleanIsTrue, UnderLock
<1> QED
  BY <1>2, <1>3, <1>4 DEF Ind

(* The schema catches up with the version that was marked. *)
LEMMA ApplyInd == ASSUME Ind, NEW p \in Process, Apply(p) PROVE Ind'
<1>1. pc[p] \in UnderLock \ {"forcing"} /\ Continue(p, "cleaning")
  BY DEF Apply, UnderLock
<1>2. /\ pc' \in [Process -> Idle \cup Busy]
      /\ pc'[p] \in {"cleaning", "failed"}
      /\ \A q \in Process \ {p} : pc'[q] \notin UnderLock
      /\ job' \in [Process -> Job]
      /\ pc'[p] = "cleaning" => job'[p] = job[p]
      /\ holder' \in Process \cup {None}
      /\ LockHeld' /\ JobsFit'
  BY <1>1, ContinueEffect
<1>3. dirty
  BY DEF Apply, Ind, UnderWay
<1>4. TypeOK'
  BY <1>2 DEF Apply, Ind, TypeOK, Version, Job
<1>5. UnderWay'
  BY <1>2, <1>3 DEF Apply, UnderWay, UnderLock
<1>6. CleanIsTrue'
  BY <1>3 DEF Apply, CleanIsTrue
<1> QED
  BY <1>2, <1>4, <1>5, <1>6 DEF Ind

(* The flag is cleared only by the process that applied the migration. *)
LEMMA MarkCleanInd == ASSUME Ind, NEW p \in Process, MarkClean(p) PROVE Ind'
<1>1. pc[p] \in UnderLock \ {"forcing"} /\ Continue(p, "planning")
  BY DEF MarkClean, UnderLock
<1>2. /\ pc' \in [Process -> Idle \cup Busy]
      /\ pc'[p] \in {"planning", "failed"}
      /\ \A q \in Process \ {p} : pc'[q] \notin UnderLock
      /\ job' \in [Process -> Job]
      /\ holder' \in Process \cup {None}
      /\ LockHeld' /\ JobsFit'
  BY <1>1, ContinueEffect
<1>3. trusted => schema = Applied(job[p].to)
  BY DEF MarkClean, Ind, UnderWay
<1>4. TypeOK'
  BY <1>2 DEF MarkClean, Ind, TypeOK, Version, Job
<1>5. UnderWay'
  BY <1>2 DEF UnderWay, UnderLock
<1>6. CleanIsTrue'
  BY <1>3 DEF MarkClean, CleanIsTrue, Applied
<1> QED
  BY <1>2, <1>4, <1>5, <1>6 DEF Ind

(* A forced version is clean whatever the schema is: trust is lost when they differ. *)
LEMMA ForceInd == ASSUME Ind, NEW p \in Process, ForceVersion(p) PROVE Ind'
<1>1. PICK how \in Idle : Exit(p, how)
  BY DEF ForceVersion, Idle
<1>2. /\ pc' \in [Process -> Idle \cup Busy]
      /\ pc'[p] = how
      /\ \A q \in Process \ {p} : pc'[q] = pc[q] /\ job'[q] = job[q]
      /\ job' \in [Process -> Job] /\ job'[p] = NoJob
      /\ holder' \in Process \cup {None}
      /\ LockHeld'
  BY <1>1, ExitEffect DEF Ind
<1>3. job[p].arg \in Arg
  BY DEF ForceVersion, Ind, JobsFit
<1>4. \A q \in Process \ {p} : pc'[q] \notin UnderLock
  BY <1>2 DEF ForceVersion, Ind, LockHeld, UnderLock
<1>5. how \notin Busy
  BY DEF Idle, Busy, UnderLock
<1>6. TypeOK'
  BY <1>2, <1>3 DEF ForceVersion, Ind, TypeOK, Version, Job
<1>7. JobsFit'
  <2>1. \A q \in Process \ {p} : pc'[q] = pc[q] /\ job'[q] = job[q]
    BY <1>2
  <2>2. pc'[p] \notin Busy /\ pc'[p] \in Idle /\ job'[p] = NoJob
    BY <1>2, <1>5
  <2> QED
    BY <2>1, <2>2, NoJobFits DEF Ind, JobsFit, Busy, UnderLock
<1>8. UnderWay'
  BY <1>2, <1>4, <1>5 DEF UnderWay, UnderLock, Busy
<1>9. CleanIsTrue'
  BY DEF ForceVersion, CleanIsTrue, Applied
<1> QED
  BY <1>2, <1>6, <1>7, <1>8, <1>9 DEF Ind

(* Every step preserves the inductive invariant. *)
LEMMA NextInd == ASSUME Ind, [Next]_vars PROVE Ind'
<1>1. ASSUME NEW p \in Process, Boot(p) \/ Command(p) PROVE Ind'
  BY <1>1, BootInd, CommandInd
<1>2. ASSUME NEW p \in Process, Step(p) PROVE Ind'
  BY <1>2, OpenInd, CheckPendingInd, LockInd, PlanInd, MarkDirtyInd, ApplyInd,
     MarkCleanInd, ForceInd DEF Step
<1>3. ASSUME NEW p \in Process, Abort(p) PROVE Ind'
  BY <1>3, AbortInd
<1>4. CASE UNCHANGED vars
  BY <1>4 DEF vars, Ind, TypeOK, LockHeld, JobsFit, UnderWay, CleanIsTrue, Version, Applied,
     ToLower
<1> QED
  BY <1>1, <1>2, <1>3, <1>4 DEF Next

(* The invariant holds of every reachable state. *)
THEOREM SchemaInvariance == Spec => []Ind
  BY InitInd, NextInd, PTL DEF Spec

(* Type correctness. *)
THEOREM SchemaTyped == Spec => []TypeOK
<1>1. Ind => TypeOK
  BY DEF Ind
<1> QED
  BY <1>1, SchemaInvariance, PTL

(* A clean version tells the truth about the tables, whatever fails or is  *)
(* killed, unless an operator forced another one.                          *)
THEOREM CleanVersionsAreTrue == Spec => []CleanIsTrue
<1>1. Ind => CleanIsTrue
  BY DEF Ind
<1> QED
  BY <1>1, SchemaInvariance, PTL

(***************************************************************************)
(* What a step may do.                                                     *)
(***************************************************************************)
(* A version that is clean, trusted and known. *)
LEMMA Current ==
    ASSUME Ind, trusted, ~dirty
    PROVE  schema = Applied(version) /\ version \in Int
  BY MigrationsAssumption DEF Ind, CleanIsTrue, TypeOK, Version, Nil

(* Which steps end a process as booted or refused, and in which state. *)
LEMMA HowItEnded ==
    ASSUME Ind, Next, NEW p \in Process, pc[p] # pc'[p], pc'[p] \in {"booted", "refused"},
           job[p].kind # "none"
    PROVE  CheckPending(p) \/ (Plan(p) /\ \E how \in {"booted", "refused"} : Exit(p, how))
<1>1. PICK q \in Process : Boot(q) \/ Command(q) \/ Step(q) \/ Abort(q)
  BY DEF Next
<1>2. \E next : Goto(q, next)
  BY <1>1 DEF Boot, Command, Step, Abort, Open, CheckPending, Lock, Plan, MarkDirty, Apply,
     MarkClean, ForceVersion, Continue, Exit
<1>3. p = q
  BY <1>2 DEF Goto, Ind, TypeOK
<1>4. pc'[p] = "booted" => pc[p] # "start"
  BY NoJobFits DEF Ind, JobsFit, Idle
<1>5. \A next : Goto(p, next) => pc'[p] = next
  BY DEF Goto, Ind, TypeOK
<1>6. ~Boot(p) /\ ~Command(p)
  BY NoJobFits DEF Ind, JobsFit, Idle, Boot, Command
<1>7. ~Abort(p) /\ ~Open(p) /\ ~Lock(p) /\ ~MarkDirty(p) /\ ~Apply(p) /\ ~MarkClean(p)
      /\ ~ForceVersion(p)
  BY <1>5 DEF Abort, Open, AfterOpen, Lock, MarkDirty, Apply, MarkClean, ForceVersion, Continue, Exit
<1>8. Plan(p) => \E how \in {"booted", "refused"} : Exit(p, how)
  BY <1>5 DEF Plan, Exit, Outcome
<1> QED
  BY <1>1, <1>3, <1>6, <1>7, <1>8 DEF Step

(* A replica passes the gate only on a schema it knows in full. *)
THEOREM GateIsSafe == Spec => GateHolds
<1>1. ASSUME Ind, [Next]_vars, NEW p \in Process,
             pc'[p] = "booted", pc[p] # "booted", job[p].kind # "none", trusted
      PROVE  ~dirty /\ schema >= Known[p]
  <2>1. Known[p] \in Nat \ {0}
    BY MigrationsAssumption
  <2>2. CheckPending(p) \/ (Plan(p) /\ Exit(p, "booted"))
    BY <1>1, HowItEnded DEF vars, Exit, Goto, Ind, TypeOK
  <2>3. CASE CheckPending(p)
    <3>1. ~HasPending(p)
      BY <1>1, <2>3 DEF CheckPending, Exit, Goto, Ind, TypeOK
    <3>2. ~dirty
      BY <3>1, <2>1 DEF HasPending, Applied
    <3> QED
      BY <1>1, <2>1, <3>1, <3>2, Current DEF HasPending, Applied
  <2>4. CASE Plan(p) /\ Exit(p, "booted")
    <3>1. pc'[p] = "booted" /\ pc[p] = "planning"
      BY <2>4, <1>1 DEF Plan
    <3>2. /\ ~dirty /\ version \in {Nil} \cup 1..Known[p]
          /\ ~HasNext(p) /\ Outcome(p) = "booted"
      BY <3>1, <2>4, <1>1 DEF Plan, Exit, Goto, Ind, TypeOK
    <3>3. version = Known[p]
      BY <3>2, <2>1 DEF HasNext, Outcome, Nil
    <3> QED
      BY <1>1, <2>1, <3>2, <3>3, Current DEF Applied, Nil
  <2> QED
    BY <2>2, <2>3, <2>4
<1>2. Ind /\ [Next]_vars =>
        [\A p \in Process :
           pc'[p] = "booted" /\ pc[p] # "booted" /\ job[p].kind # "none" /\ trusted =>
              ~dirty /\ schema >= Known[p]]_vars
  BY <1>1
<1> QED
  BY <1>2, SchemaInvariance, PTL DEF Spec, GateHolds

(* It is refused only when the schema is dirty or another one. *)
THEOREM RefusalsAreJustified == Spec => RefusalJustified
<1>1. ASSUME Ind, [Next]_vars, NEW p \in Process,
             pc'[p] = "refused", pc[p] # "refused", job[p].kind # "down", trusted, ~dirty
      PROVE  schema # Known[p]
  <2>1. Known[p] \in Nat \ {0}
    BY MigrationsAssumption
  <2>2. job[p].kind # "none"
    <3>1. ASSUME job[p].kind = "none" PROVE FALSE
      <4>1. PICK q \in Process : Boot(q) \/ Command(q) \/ Step(q) \/ Abort(q)
        BY <1>1 DEF Next, vars
      <4>2. \E next : Goto(q, next)
        BY <4>1 DEF Boot, Command, Step, Abort, Open, CheckPending, Lock, Plan, MarkDirty,
           Apply, MarkClean, ForceVersion, Continue, Exit
      <4>3. p = q
        BY <1>1, <4>2 DEF Goto, Ind, TypeOK
      <4>4. \A next : Goto(p, next) => next = "refused"
        BY <1>1 DEF Goto, Ind, TypeOK
      <4>5. ~Boot(p) /\ ~Command(p)
        BY <4>4 DEF Boot, Command
      <4>6. pc[p] \notin Busy
        BY <1>1, <3>1, <4>4 DEF Ind, JobsFit, Busy, UnderLock
      <4> QED
        BY <4>1, <4>3, <4>5, <4>6 DEF Step, Abort, Open, CheckPending, Lock, Plan, MarkDirty,
           Apply, MarkClean, ForceVersion, Busy, UnderLock
    <3> QED
      BY <3>1
  <2>3. CheckPending(p) \/ (Plan(p) /\ Exit(p, "refused"))
    BY <1>1, <2>2, HowItEnded DEF vars, Exit, Goto, Ind, TypeOK
  <2>4. schema = Applied(version) /\ version \in Int
    BY <1>1, Current
  <2>5. CASE CheckPending(p)
    <3>1. HasPending(p)
      BY <1>1, <2>5 DEF CheckPending, Exit, Goto, Ind, TypeOK
    <3> QED
      BY <1>1, <2>1, <2>4, <3>1 DEF HasPending, Applied
  <2>6. CASE Plan(p) /\ Exit(p, "refused")
    <3>1. version \notin {Nil} \cup 1..Known[p]
      BY <1>1, <2>6 DEF Plan, Outcome, Exit, Goto, Ind, TypeOK
    <3> QED
      BY <2>1, <2>4, <3>1 DEF Applied
  <2> QED
    BY <2>3, <2>5, <2>6
<1>2. Ind /\ [Next]_vars =>
        [\A p \in Process :
           pc'[p] = "refused" /\ pc[p] # "refused" /\ job[p].kind # "down" /\ trusted =>
              dirty \/ schema # Known[p]]_vars
  BY <1>1
<1> QED
  BY <1>2, SchemaInvariance, PTL DEF Spec, RefusalJustified

(* Nobody changes the schema without the lock, nor by booting in           *)
(* production.                                                             *)
THEOREM WritesAreAllowed == Spec => WritesAllowed
<1>1. ASSUME Ind, [Next]_vars, Changes
      PROVE  \E p \in Process :
                holder = p /\ ~(job[p].kind = "auto" /\ ToLower(job[p].env) = "prod")
  <2>1. PICK p \in Process : Boot(p) \/ Command(p) \/ Step(p) \/ Abort(p)
    BY <1>1 DEF Next, vars, Changes
  <2>2. MarkDirty(p) \/ Apply(p) \/ MarkClean(p) \/ ForceVersion(p)
    BY <1>1, <2>1 DEF Changes, Boot, Command, Step, Abort, Open, CheckPending, Lock, Plan,
       SameData
  <2>3. holder = p
    BY <1>1, <2>2 DEF MarkDirty, Apply, MarkClean, ForceVersion, Ind, LockHeld, UnderLock
  <2> QED
    BY <1>1, <2>3 DEF Ind, JobsFit
<1>2. Ind /\ [Next]_vars =>
        [Changes => \E p \in Process :
           holder = p /\ ~(job[p].kind = "auto" /\ ToLower(job[p].env) = "prod")]_vars
  BY <1>1
<1> QED
  BY <1>2, SchemaInvariance, PTL DEF Spec, WritesAllowed

(***************************************************************************)
(* Every run ends: what lies under RunsEnd.                                *)
(***************************************************************************)
(* The lock is never left behind: whoever holds it is at work. *)
HolderWorks == holder # None => holder \in Process /\ pc[holder] \in UnderLock

(* Each step is taken by one process, which ends, goes on under the lock   *)
(* or has not had the lock; the others stay where they are.                *)
LEMMA OneMoves ==
    ASSUME Next
    PROVE  \E p \in Process :
              \/ \E how \in Idle : Exit(p, how)
              \/ /\ \E next \in UnderLock : Goto(p, next)
                 /\ holder' = holder \/ holder' = p
              \/ /\ pc[p] \notin UnderLock /\ \E next \in Idle \cup Busy : Goto(p, next)
                 /\ UNCHANGED holder
<1>1. PICK p \in Process : Boot(p) \/ Command(p) \/ Step(p) \/ Abort(p)
  BY DEF Next
<1>2. CASE Boot(p) \/ Command(p)
  BY <1>2 DEF Boot, Command, Idle, Busy, UnderLock
<1>3. CASE Open(p)
  BY <1>3 DEF Open, AfterOpen, Idle, Busy, UnderLock
<1>4. CASE CheckPending(p) \/ ForceVersion(p) \/ Abort(p)
  BY <1>4 DEF CheckPending, ForceVersion, Abort, Idle
<1>5. CASE Lock(p)
  BY <1>5 DEF Lock, UnderLock
<1>6. CASE Plan(p)
  BY <1>6 DEF Plan, Outcome, Idle, UnderLock
<1>7. CASE MarkDirty(p) \/ Apply(p) \/ MarkClean(p)
  BY <1>7 DEF MarkDirty, Apply, MarkClean, Continue, Idle, UnderLock
<1> QED
  BY <1>1, <1>2, <1>3, <1>4, <1>5, <1>6, <1>7 DEF Step

(* A process that ends, fails or is killed takes the lock with it. *)
LEMMA HolderWorksStep ==
    ASSUME Ind, HolderWorks, [Next]_vars
    PROVE  HolderWorks'
<1>1. CASE UNCHANGED vars
  BY <1>1 DEF vars, HolderWorks
<1>2. CASE Next
  <2>1. PICK p \in Process :
              \/ \E how \in Idle : Exit(p, how)
              \/ /\ \E next \in UnderLock : Goto(p, next)
                 /\ holder' = holder \/ holder' = p
              \/ /\ pc[p] \notin UnderLock /\ \E next \in Idle \cup Busy : Goto(p, next)
                 /\ UNCHANGED holder
    BY <1>2, OneMoves
  <2>2. pc \in [Process -> Idle \cup Busy]
    BY DEF Ind, TypeOK
  <2>3. CASE \E how \in Idle : Exit(p, how)
    BY <2>2, <2>3 DEF HolderWorks, Exit, Goto
  <2>4. CASE /\ \E next \in UnderLock : Goto(p, next)
             /\ holder' = holder \/ holder' = p
    BY <2>2, <2>4 DEF HolderWorks, Goto
  <2>5. CASE /\ pc[p] \notin UnderLock /\ \E next \in Idle \cup Busy : Goto(p, next)
             /\ UNCHANGED holder
    BY <2>2, <2>5 DEF HolderWorks, Goto
  <2> QED
    BY <2>1, <2>3, <2>4, <2>5
<1> QED
  BY <1>1, <1>2

(* Nobody who ends, fails or is killed leaves the advisory lock behind. *)
THEOREM LockIsNeverOrphaned == Spec => []HolderWorks
<1>1. Init => HolderWorks
  BY DEF Init, HolderWorks
<1> QED
  BY <1>1, HolderWorksStep, SchemaInvariance, PTL DEF Spec

(* The next statement of p does not have to wait for anybody. *)
Ready(p) == \/ pc[p] \in {"opening", "locking"} /\ holder = None
            \/ pc[p] \in {"checking"} \cup UnderLock

(* A run that has begun can go on, or it waits for the lock of one that    *)
(* can: the migrators never wait for one another in a circle, nor for one  *)
(* that is gone.                                                           *)
NoStalemate ==
    \A p \in Process : pc[p] \in Busy =>
        \/ Ready(p)
        \/ holder \in Process \ {p} /\ Ready(holder)

(* No deadlock, with any number of replicas and operators. *)
THEOREM MigratorsNeverStall == Spec => []NoStalemate
<1>1. HolderWorks => NoStalemate
  BY DEF HolderWorks, NoStalemate, Ready, Busy, UnderLock
<1> QED
  BY <1>1, LockIsNeverOrphaned, PTL

(* How many migrations p goes through at most, from version v on. *)
Count(n) == IF n > 0 THEN n ELSE 0
Most(p) == IF job[p].kind = "down" THEN Count(job[p].arg) ELSE Known[p]
More(p, v) == IF job[p].kind = "down" THEN Count(job[p].arg) ELSE Count(Known[p] - Applied(v))

(* How many steps a run that has begun takes at most. *)
Left(p) ==
    CASE pc[p] = "opening" -> 4 * Most(p) + 3
      [] pc[p] = "locking" -> 4 * Most(p) + 2
      [] pc[p] = "planning" -> 4 * More(p, version) + 1
      [] pc[p] = "marking" -> 4 * More(p, job[p].to) + 4
      [] pc[p] = "applying" -> 4 * More(p, job[p].to) + 3
      [] pc[p] = "cleaning" -> 4 * More(p, job[p].to) + 2
      [] pc[p] \in {"checking", "forcing"} -> 1
      [] OTHER -> 0

(* Each step begins a run, or brings one that has begun nearer to its end  *)
(* and no other further from it: also where replicas of several releases   *)
(* migrate up while operators migrate down, or force a version, in         *)
(* between.                                                                *)
RunDown ==
    [][\E p \in Process :
         /\ \A q \in Process \ {p} : pc'[q] = pc[q] /\ Left(q)' = Left(q)
         /\ pc'[p] # "start"
         /\ pc[p] = "start" \/ Left(p)' < Left(p)]_vars

(* The numbers that a process counts down with. *)
LEMMA LeftTyped ==
    ASSUME Ind, NEW p \in Process
    PROVE  /\ Most(p) \in Nat
           /\ \A v \in Version : Applied(v) \in Int /\ More(p, v) \in Nat
           /\ version \in Version /\ job[p].to \in Version
           /\ Left(p) \in Nat
<1>1. Known[p] \in Nat \ {0} /\ job[p].arg \in Int
  BY MigrationsAssumption DEF Ind, TypeOK
<1>2. Most(p) \in Nat
  BY <1>1 DEF Most, Count
<1>3. ASSUME NEW v \in Version PROVE Applied(v) \in Int /\ More(p, v) \in Nat
  <2>1. v \in Int
    <3>1. CASE v \in Arg \cup {Nil}
      BY <3>1, MigrationsAssumption DEF Nil
    <3>2. CASE \E q \in Process : v \in 1..Known[q]
      BY <3>2
    <3> QED
      BY <3>1, <3>2 DEF Version
  <2> QED
    BY <1>1, <2>1 DEF More, Count, Applied
<1>4. version \in Version /\ job[p].to \in Version
  BY DEF Ind, TypeOK
<1>5. Left(p) \in Nat
  <2>1. More(p, version) \in Nat /\ More(p, job[p].to) \in Nat
    BY <1>3, <1>4
  <2> QED
    BY <1>2, <2>1 DEF Left
<1> QED
  BY <1>2, <1>3, <1>4, <1>5

(* What p's step does to p alone leaves the count of q as it is: a process *)
(* that counts from the version holds the lock.                            *)
LEMMA OthersCount ==
    ASSUME Ind, NEW p \in Process, NEW q \in Process \ {p},
           pc'[q] = pc[q], job'[q] = job[q],
           UNCHANGED version \/ pc[p] \in UnderLock
    PROVE  Left(q)' = Left(q)
<1>1. pc[q] = "planning" => UNCHANGED version
  BY DEF Ind, LockHeld, UnderLock
<1>2. Most(q)' = Most(q)
  BY DEF Most, Count
<1>3. pc[q] = "planning" => More(q, version)' = More(q, version)
  BY <1>1 DEF More, Count, Applied
<1>4. More(q, job[q].to)' = More(q, job[q].to)
  BY DEF More, Count, Applied
<1> QED
  BY <1>2, <1>3, <1>4 DEF Left

(* Who ends has nothing left. *)
LEMMA ExitCounts ==
    ASSUME Ind, NEW p \in Process, pc[p] \in Busy, NEW how \in Idle, Exit(p, how)
    PROVE  Left(p)' < Left(p) /\ pc'[p] = how
<1>1. Left(p)' = 0
  BY ExitEffect DEF Ind, Left, Idle
<1>2. pc'[p] = how
  BY ExitEffect DEF Ind
<1>3. Left(p) > 0
  <2>1. More(p, version) \in Nat /\ More(p, job[p].to) \in Nat /\ Most(p) \in Nat
    BY LeftTyped
  <2> QED
    BY <2>1 DEF Left, Busy, UnderLock
<1> QED
  BY <1>1, <1>2, <1>3

(* p has moved on; its count goes by its new place. *)
LEMMA MoveCounts ==
    ASSUME Ind, NEW p \in Process, NEW next \in Idle \cup Busy, Goto(p, next)
    PROVE  pc'[p] = next
  BY GotoEffect DEF Ind

(* Opening, checking and the lock. *)
LEMMA ArrivalCounts ==
    ASSUME Ind, NEW p \in Process, Open(p) \/ CheckPending(p) \/ Lock(p)
    PROVE  Left(p)' < Left(p) /\ pc'[p] # "start"
<1>1. /\ Most(p) \in Nat /\ More(p, version) \in Nat
      /\ Known[p] \in Nat \ {0} /\ job[p].arg \in Int /\ Applied(version) \in Int
  BY LeftTyped, MigrationsAssumption DEF Ind, TypeOK
<1>2. CASE Exit(p, "rejected") \/ Exit(p, "refused") \/ Exit(p, "booted")
  <2>1. pc[p] \in Busy
    BY DEF Open, CheckPending, Lock, Busy
  <2> QED
    BY <1>2, <2>1, ExitCounts DEF Idle
<1>3. CASE Open(p) /\ Goto(p, AfterOpen(p)) /\ UNCHANGED job
  <2>1. AfterOpen(p) \in {"checking", "locking", "rejected"}
    BY DEF AfterOpen
  <2>2. pc'[p] = AfterOpen(p)
    BY <1>3, <2>1, MoveCounts DEF Idle, Busy
  <2>3. Most(p)' = Most(p)
    BY <1>3 DEF Most, Count
  <2> QED
    BY <1>1, <1>3, <2>1, <2>2, <2>3 DEF Open, Left
<1>4. CASE Lock(p)
  <2>1. pc[p] = "locking" /\ pc'[p] \in {"forcing", "planning"}
    BY <1>4, MoveCounts DEF Lock, Busy, UnderLock
  <2>2. job[p].kind \in {"auto", "up", "down", "force"}
    BY <2>1 DEF Ind, JobsFit
  <2>3. More(p, version)' = More(p, version)
    BY <1>4 DEF Lock, SameData, More, Count, Applied
  <2>4. Applied(version) >= 0
    BY MigrationsAssumption DEF Ind, TypeOK, Version, Applied, Nil
  <2>5. More(p, version) <= Most(p)
    BY <1>1, <2>4 DEF More, Most, Count
  <2> QED
    BY <1>1, <2>1, <2>3, <2>5 DEF Left
<1> QED
  BY <1>2, <1>3, <1>4 DEF Open, CheckPending

(* A migration that is chosen is one of those that are left. *)
LEMMA PlanCounts ==
    ASSUME Ind, NEW p \in Process, Plan(p)
    PROVE  Left(p)' < Left(p) /\ pc'[p] # "start"
<1>1. /\ More(p, version) \in Nat /\ Known[p] \in Nat \ {0} /\ job[p].arg \in Int
      /\ pc[p] = "planning" /\ job[p].kind \in {"auto", "up", "down"}
  BY LeftTyped, MigrationsAssumption DEF Ind, TypeOK, Plan, JobsFit, UnderLock
<1>2. CASE \E how \in Idle \ {"start"} : Exit(p, how)
  BY <1>1, <1>2, ExitCounts DEF Busy, UnderLock
<1>3. CASE /\ version \in {Nil} \cup 1..Known[p]
           /\ HasNext(p) /\ Goto(p, "marking")
           /\ job' = [job EXCEPT ![p] = Towards(job[p], Target(p))]
  <2>1. pc'[p] = "marking"
    BY <1>3, MoveCounts DEF Busy, UnderLock
  <2>2. job'[p] = Towards(job[p], Target(p))
    BY <1>3 DEF Ind, TypeOK
  <2>3. CASE job[p].kind = "down"
    <3>1. job[p].arg > 0
      BY <1>3, <2>3 DEF HasNext
    <3>2. job'[p].kind = "down" /\ job'[p].arg = job[p].arg - 1
      BY <2>2, <2>3 DEF Towards
    <3>3. More(p, version) = job[p].arg
      BY <1>1, <2>3, <3>1 DEF More, Count
    <3>4. More(p, job[p].to)' = job[p].arg - 1
      BY <1>1, <3>1, <3>2 DEF More, Count
    <3> QED
      BY <1>1, <2>1, <3>1, <3>3, <3>4 DEF Left
  <2>4. CASE job[p].kind # "down"
    <3>1. /\ job'[p].kind # "down" /\ job'[p].to = Target(p)
          /\ Target(p) = IF version = Nil THEN 1 ELSE version + 1
      BY <2>2, <2>4 DEF Towards, Target
    <3>2. version < Known[p]
      BY <1>3, <2>4 DEF HasNext
    <3>3. More(p, version) = Known[p] - Applied(version)
      BY <1>1, <1>3, <2>4, <3>2 DEF More, Count, Applied, Nil
    <3>4. Applied(job'[p].to) = Applied(version) + 1 /\ Applied(version) < Known[p]
          /\ Applied(version) \in Nat
      BY <1>1, <1>3, <3>1, <3>2 DEF Applied, Nil
    <3>5. More(p, job[p].to)' = Known[p] - (Applied(version) + 1)
      BY <1>1, <3>1, <3>4 DEF More, Count, Applied
    <3> QED
      BY <1>1, <2>1, <3>3, <3>4, <3>5 DEF Left
  <2> QED
    BY <2>3, <2>4
<1> QED
  BY <1>2, <1>3 DEF Plan, Outcome, Idle

(* The three statements of a migration, and that of force. *)
LEMMA StatementCounts ==
    ASSUME Ind, NEW p \in Process,
           MarkDirty(p) \/ Apply(p) \/ MarkClean(p) \/ ForceVersion(p)
    PROVE  Left(p)' < Left(p) /\ pc'[p] # "start"
<1>1. More(p, job[p].to) \in Nat
  BY LeftTyped
<1>2. pc[p] \in Busy
  BY DEF MarkDirty, Apply, MarkClean, ForceVersion, Busy, UnderLock
<1>3. CASE Exit(p, "failed") \/ Exit(p, "ok")
  BY <1>2, <1>3, ExitCounts DEF Idle
<1>4. CASE MarkDirty(p) /\ Goto(p, "applying") /\ UNCHANGED job
  <2>1. pc'[p] = "applying"
    BY <1>4, MoveCounts DEF Busy, UnderLock
  <2>2. More(p, job[p].to)' = More(p, job[p].to)
    BY <1>4 DEF More, Count, Applied
  <2> QED
    BY <1>1, <1>4, <2>1, <2>2 DEF MarkDirty, Left
<1>5. CASE Apply(p) /\ Goto(p, "cleaning") /\ UNCHANGED job
  <2>1. pc'[p] = "cleaning"
    BY <1>5, MoveCounts DEF Busy, UnderLock
  <2>2. More(p, job[p].to)' = More(p, job[p].to)
    BY <1>5 DEF More, Count, Applied
  <2> QED
    BY <1>1, <1>5, <2>1, <2>2 DEF Apply, Left
<1>6. CASE MarkClean(p) /\ Goto(p, "planning") /\ UNCHANGED job
  <2>1. pc'[p] = "planning"
    BY <1>6, MoveCounts DEF Busy, UnderLock
  <2>2. More(p, version)' = More(p, job[p].to)
    BY <1>6 DEF MarkClean, More, Count, Applied
  <2> QED
    BY <1>1, <1>6, <2>1, <2>2 DEF MarkClean, Left
<1> QED
  BY <1>3, <1>4, <1>5, <1>6 DEF MarkDirty, Apply, MarkClean, ForceVersion, Continue

(* The others stay where they are, with the jobs they have. *)
LEMMA OthersStay ==
    ASSUME Ind, NEW p \in Process, Boot(p) \/ Command(p) \/ Step(p) \/ Abort(p),
           NEW q \in Process \ {p}
    PROVE  /\ pc'[q] = pc[q] /\ job'[q] = job[q]
           /\ UNCHANGED version \/ pc[p] \in UnderLock
<1>1. \E next : Goto(p, next)
  BY DEF Boot, Command, Step, Abort, Open, CheckPending, Lock, Plan, MarkDirty, Apply,
     MarkClean, ForceVersion, Continue, Exit
<1>2. UNCHANGED job \/ \E j : job' = [job EXCEPT ![p] = j]
  BY DEF Boot, Command, Step, Abort, Open, CheckPending, Lock, Plan, MarkDirty, Apply,
     MarkClean, ForceVersion, Continue, Exit
<1>3. UNCHANGED version \/ pc[p] \in UnderLock
  BY DEF Boot, Command, Step, Abort, Open, CheckPending, Lock, Plan, MarkDirty, Apply,
     MarkClean, ForceVersion, SameData, UnderLock
<1> QED
  BY <1>1, <1>2, <1>3 DEF Goto, Ind, TypeOK

(* Every run that has begun ends after a number of its own steps that is   *)
(* known from its job and its release, whatever the others do.             *)
THEOREM RunsRunDown == Spec => RunDown /\ [](\A p \in Process : Left(p) \in Nat)
<1>1. ASSUME Ind, Next
      PROVE  \E p \in Process :
                /\ \A q \in Process \ {p} : pc'[q] = pc[q] /\ Left(q)' = Left(q)
                /\ pc'[p] # "start"
                /\ pc[p] = "start" \/ Left(p)' < Left(p)
  <2>1. PICK p \in Process : Boot(p) \/ Command(p) \/ Step(p) \/ Abort(p)
    BY <1>1 DEF Next
  <2>2. \A q \in Process \ {p} : pc'[q] = pc[q] /\ Left(q)' = Left(q)
    BY <1>1, <2>1, OthersStay, OthersCount
  <2>3. CASE Boot(p) \/ Command(p)
    <3>1. pc[p] = "start"
      BY <2>3 DEF Boot, Command
    <3>2. \E next \in (Idle \cup Busy) \ {"start"} : Goto(p, next)
      BY <2>3 DEF Boot, Command, Idle, Busy
    <3>3. pc'[p] # "start"
      BY <1>1, <3>2, MoveCounts
    <3> QED
      BY <2>2, <3>1, <3>3
  <2>4. CASE Step(p) \/ Abort(p)
    <3>1. Left(p)' < Left(p) /\ pc'[p] # "start"
      BY <1>1, <2>4, ArrivalCounts, PlanCounts, StatementCounts, ExitCounts
         DEF Step, Abort, Idle
    <3> QED
      BY <2>2, <3>1
  <2> QED
    BY <2>1, <2>3, <2>4
<1>2. Ind /\ [Next]_vars =>
        [\E p \in Process :
           /\ \A q \in Process \ {p} : pc'[q] = pc[q] /\ Left(q)' = Left(q)
           /\ pc'[p] # "start"
           /\ pc[p] = "start" \/ Left(p)' < Left(p)]_vars
  BY <1>1
<1>3. Ind => \A p \in Process : Left(p) \in Nat
  BY LeftTyped
<1> QED
  BY <1>2, <1>3, SchemaInvariance, PTL DEF Spec, RunDown
=============================================================================
