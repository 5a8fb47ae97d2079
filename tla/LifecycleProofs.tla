-------------------------- MODULE LifecycleProofs --------------------------
(***************************************************************************)
(* Proofs that the process of Lifecycle is torn down in order and that the *)
(* books of its pool balance, for any requests and any pool size.          *)
(***************************************************************************)
EXTENDS Lifecycle, SequenceTheorems, FiniteSetTheorems, TLAPS

Phases == {"config", "tracing", "migrate", "pool", "seed", "http", "admin", "run",
           "shutdown", "exited"}

(* The variables the teardown depends on have their types. *)
Types ==
    /\ main \in Phases
    /\ code \in {0, 1} /\ signalled \in BOOLEAN /\ expired \in BOOLEAN
    /\ ran \in 0..4
    /\ tracer \in {"off", "on", "stopped"}
    /\ server \in [Servers -> {"none", "built", "listening", "failed", "closed"}]
    /\ pool \in {"none", "open", "closing", "closed"}
    /\ queue \in Seq(Request)
    /\ stage \in [Request \cup Scrape -> {"none", "handling", "waiting", "querying", "done"}]

(* What each phase has registered, above the tracer if there is one. *)
Base == IF tracer = "off" THEN 0 ELSE 1
Depth == IF main \in {"run", "shutdown"} THEN 3
         ELSE IF main = "admin" THEN 2
         ELSE IF main \in {"seed", "http"} THEN 1
         ELSE 0
Registered ==
    /\ cleanups \in Seq({"tracing", "pool"} \cup Servers)
    /\ main \in {"config", "tracing"} => tracer = "off"
    /\ main # "exited" => Len(cleanups) = Base + Depth
    /\ main # "exited" /\ tracer # "off" => cleanups[1] = "tracing"
    /\ main \in {"seed", "http", "admin", "run", "shutdown"} => cleanups[Base + 1] = "pool"
    /\ main \in {"admin", "run", "shutdown"} => cleanups[Base + 2] = "http"
    /\ main \in {"run", "shutdown"} => cleanups[Base + 3] = "admin"

(* What each phase has built. *)
Built ==
    /\ main \notin {"admin", "run", "shutdown", "exited"} => server["http"] = "none"
    /\ main \notin {"run", "shutdown", "exited"} => server["admin"] = "none"
    /\ main \in {"admin", "run", "shutdown"} => server["http"] # "none"
    /\ main \in {"run", "shutdown"} => server["admin"] # "none"
    /\ main \in {"seed", "http", "admin", "run"} => pool = "open"
    /\ main \in {"config", "tracing", "migrate", "pool"} => pool = "none"
    /\ main = "shutdown" => pool # "none"
    /\ \A s \in Servers : server[s] = "none" => Drained(s)

(* What Shutdown has released: admin server, public server, pool, tracer,  *)
(* in this order.                                                          *)
Released ==
    /\ main \notin {"shutdown", "exited"} => ran = 0
    /\ ran >= 1 => server["admin"] = "closed" /\ (Drained("admin") \/ expired)
    /\ ran >= 2 => server["http"] = "closed" /\ (Drained("http") \/ expired)
    /\ pool \in {"closing", "closed"} => ran >= 2
    /\ ran >= 3 <=> pool = "closed"
    /\ tracer = "stopped" <=> ran = 4
    /\ tracer = "off" => ran <= 3

Exited ==
    main = "exited" =>
        /\ code = 0 => signalled
        /\ \/ server["http"] = "none" /\ server["admin"] = "none" /\ ran = 0
           \/ ran = IF tracer = "off" THEN 3 ELSE 4
ToldToStop == main = "shutdown" /\ code = 0 => signalled

IInv == Types /\ Registered /\ Built /\ Released /\ Exited /\ ToldToStop

(* The cleanup Shutdown runs next is known from how many it has run. *)
LEMMA CurrentByCount ==
    ASSUME IInv, NEW c, Running(c)
    PROVE  /\ \/ c = "admin" /\ ran = 0
              \/ c = "http" /\ ran = 1
              \/ c = "pool" /\ ran = 2
              \/ c = "tracing" /\ ran = 3 /\ tracer # "off"
           /\ main = "shutdown"
<1>1. main = "shutdown" /\ ran < Len(cleanups) /\ cleanups[Len(cleanups) - ran] = c
  BY DEF Running, Current
<1>2. ran \in Nat
  BY DEF IInv, Types
<1>3. Len(cleanups) = Base + 3 /\ cleanups[Base + 1] = "pool" /\ cleanups[Base + 2] = "http"
      /\ cleanups[Base + 3] = "admin" /\ (tracer # "off" => cleanups[1] = "tracing")
  BY <1>1 DEF IInv, Registered, Depth
<1>4. CASE tracer = "off"
  <2>1. ran = 0 \/ ran = 1 \/ ran = 2
    BY <1>1, <1>2, <1>3, <1>4 DEF Base
  <2> QED
    BY <1>1, <1>3, <1>4, <2>1 DEF Base
<1>5. CASE tracer # "off"
  <2>1. ran = 0 \/ ran = 1 \/ ran = 2 \/ ran = 3
    BY <1>1, <1>2, <1>3, <1>5 DEF Base
  <2> QED
    BY <1>1, <1>3, <1>5, <2>1 DEF Base
<1> QED
  BY <1>4, <1>5

(* A step of requests only leaves a drained server drained. *)
LEMMA RequestStep ==
    ASSUME IInv, LifecycleAssumption, SameProcess,
           stage' \in [Request \cup Scrape ->
                         {"none", "handling", "waiting", "querying", "done"}],
           queue' \in Seq(Request),
           \A r \in Request \cup Scrape :
              Active(r)' => server[ServerOf(r)] = "listening" \/ ~Drained(ServerOf(r))
    PROVE  IInv'
<1> USE DEF IInv, SameProcess
<1>1. \A s \in Servers : server[s] # "listening" /\ Drained(s) => Drained(s)'
  BY DEF Drained, ServerOf
<1>2. Types'
  BY DEF Types
<1>3. Registered' /\ Exited' /\ ToldToStop'
  BY DEF Registered, Base, Depth, Exited, ToldToStop
<1>4. Built'
  BY <1>1 DEF Built
<1>5. Released'
  BY <1>1 DEF Released, Servers
<1> QED
  BY <1>2, <1>3, <1>4, <1>5

(* A request is accepted only by a server that is up. *)
LEMMA AcceptKeeps == ASSUME IInv, LifecycleAssumption, NEW r \in Request \cup Scrape, Accept(r) PROVE IInv'
<1>1. SameProcess /\ queue' = queue /\ stage' = [stage EXCEPT ![r] = "handling"]
      /\ server[ServerOf(r)] = "listening"
  BY DEF Accept, Move
<1>2. \A q \in Request \cup Scrape :
          Active(q)' => server[ServerOf(q)] = "listening" \/ ~Drained(ServerOf(q))
  BY <1>1 DEF Active, Drained, IInv, Types
<1> QED
  BY <1>1, <1>2, RequestStep DEF IInv, Types

(* A request that was answered leaves. *)
LEMMA FinishKeeps == ASSUME IInv, LifecycleAssumption, NEW r \in Request \cup Scrape, Finish(r) PROVE IInv'
<1>1. SameProcess /\ queue' = queue /\ stage' = [stage EXCEPT ![r] = "done"]
  BY DEF Finish, Move
<1>2. \A q \in Request \cup Scrape :
          Active(q)' => server[ServerOf(q)] = "listening" \/ ~Drained(ServerOf(q))
  BY <1>1 DEF Active, Drained, IInv, Types
<1> QED
  BY <1>1, <1>2, RequestStep DEF IInv, Types

(* A statement takes a free connection or queues. *)
LEMMA AcquireKeeps == ASSUME IInv, LifecycleAssumption, NEW r \in Request, Acquire(r) PROVE IInv'
<1>1. SameProcess /\ stage[r] = "handling"
      /\ \/ queue' = queue /\ stage' = [stage EXCEPT ![r] = "querying"]
         \/ queue' = Append(queue, r) /\ stage' = [stage EXCEPT ![r] = "waiting"]
  BY DEF Acquire, Move
<1>2. queue' \in Seq(Request)
  BY <1>1 DEF IInv, Types
<1>3. \A q \in Request \cup Scrape :
          Active(q)' => server[ServerOf(q)] = "listening" \/ ~Drained(ServerOf(q))
  BY <1>1 DEF Active, Drained, IInv, Types
<1> QED
  BY <1>1, <1>2, <1>3, RequestStep DEF IInv, Types

(* The waiter that inherits the connection is a request to the public      *)
(* server, which is not drained: the request that hands it over is there.  *)
LEMMA AnswerKeeps == ASSUME IInv, LifecycleAssumption, NEW r \in Request, Answer(r) PROVE IInv'
<1>1. SameProcess /\ stage[r] = "querying"
      /\ \/ queue' = queue /\ stage' = [stage EXCEPT ![r] = "handling"]
         \/ /\ queue # <<>> /\ queue' = Tail(queue)
            /\ stage' = [stage EXCEPT ![r] = "handling", ![Head(queue)] = "querying"]
  BY DEF Answer, Move
<1>2. queue # <<>> => Head(queue) \in Request /\ Tail(queue) \in Seq(Request)
  BY DEF IInv, Types
<1>3. queue' \in Seq(Request)
  BY <1>1, <1>2 DEF IInv, Types
<1>4. \A q \in Request : ServerOf(q) = "http"
  BY DEF ServerOf, LifecycleAssumption
<1>5. ~Drained("http")
  BY <1>1, <1>4 DEF Drained, Active
<1>6. stage' \in [Request \cup Scrape ->
                     {"none", "handling", "waiting", "querying", "done"}]
  BY <1>1, <1>2 DEF IInv, Types
<1>7. \A q \in Request \cup Scrape : q # r /\ stage'[q] # stage[q] => q \in Request
  BY <1>1, <1>2 DEF IInv, Types
<1>8. \A q \in Request \cup Scrape :
          Active(q)' => server[ServerOf(q)] = "listening" \/ ~Drained(ServerOf(q))
  BY <1>4, <1>5, <1>7 DEF Active, Drained
<1> QED
  BY <1>1, <1>3, <1>6, <1>8, RequestStep

(* A client that leaves takes its place in the queue along. *)
LEMMA GiveUpKeeps == ASSUME IInv, LifecycleAssumption, NEW r \in Request, GiveUp(r) PROVE IInv'
<1>1. SameProcess /\ stage[r] = "waiting" /\ stage' = [stage EXCEPT ![r] = "handling"]
  BY DEF GiveUp, Move
<1>2. PICK k \in DOMAIN queue : queue' = RemoveAt(queue, k)
  BY DEF GiveUp
<1>3. queue' \in Seq(Request)
  <2>1. queue \in Seq(Request) /\ k \in 1..Len(queue)
    BY <1>2 DEF IInv, Types
  <2>2. SubSeq(queue, 1, k - 1) \in Seq(Request) /\ SubSeq(queue, k + 1, Len(queue)) \in Seq(Request)
    BY <2>1, SubSeqProperties
  <2> QED
    BY <1>2, <2>2, ConcatProperties DEF RemoveAt
<1>4. \A q \in Request \cup Scrape :
          Active(q)' => server[ServerOf(q)] = "listening" \/ ~Drained(ServerOf(q))
  BY <1>1 DEF Active, Drained, IInv, Types
<1> QED
  BY <1>1, <1>3, <1>4, RequestStep DEF IInv, Types

(* Steps that leave the requests alone drain nothing and fill nothing. *)
LEMMA SameRequests == ASSUME stage' = stage PROVE \A s : Drained(s)' <=> Drained(s)
  BY DEF Drained, Active

(* Registering a cleanup keeps those below it. *)
LEMMA RegisterAppends ==
    ASSUME Registered, NEW c \in {"tracing", "pool"} \cup Servers, Register(c)
    PROVE  /\ cleanups' \in Seq({"tracing", "pool"} \cup Servers)
           /\ Len(cleanups') = Len(cleanups) + 1
           /\ cleanups'[Len(cleanups) + 1] = c
           /\ Len(cleanups) >= 1 => cleanups'[1] = cleanups[1]
           /\ Len(cleanups) >= Base + 1 => cleanups'[Base + 1] = cleanups[Base + 1]
           /\ Len(cleanups) >= Base + 2 => cleanups'[Base + 2] = cleanups[Base + 2]
<1>1. /\ cleanups' = Append(cleanups, c) /\ Len(cleanups) \in Nat
      /\ \A k \in 1..Len(cleanups) : cleanups'[k] = cleanups[k]
  BY AppendProperties DEF Register, Registered
<1>2. Base \in Nat
  BY DEF Base
<1> QED
  BY <1>1, <1>2, AppendProperties DEF Registered

(* Each phase of Init registers what it has acquired. *)
LEMMA BootKeeps == ASSUME IInv, Boot PROVE IInv'
<1> stage' = stage
  BY DEF Boot, InitConfig, InitTracing, RunMigrations, OpenPool, SeedOnBoot, InitHTTP,
         InitAdminHTTP, Build, Fail
<1> USE SameRequests DEF IInv
<1>1. ASSUME main \in {"config", "migrate", "pool", "seed"}, Fail PROVE IInv'
  BY <1>1 DEF Fail, Types, Phases, Registered, Base, Depth, Built, Released, Exited, ToldToStop
<1>2. CASE InitConfig
  <2>1. ASSUME ~Fail PROVE Registered'
    BY <1>2, <2>1 DEF InitConfig, Registered, Base, Depth
  <2> QED
    BY <1>1, <1>2, <2>1 DEF InitConfig, Types, Phases, Built, Released, Exited, ToldToStop
<1>3. CASE InitTracing
  <2>1. Registered'
    <3>1. main = "tracing" /\ main' = "migrate" /\ tracer = "off" /\ Len(cleanups) = 0
      BY <1>3 DEF InitTracing, Registered, Base, Depth
    <3>2. CASE tracer' = "on" /\ Register("tracing")
      BY <3>1, <3>2, RegisterAppends DEF Registered, Base, Depth
    <3>3. CASE UNCHANGED <<tracer, cleanups>>
      BY <3>1, <3>3 DEF Registered, Base, Depth
    <3> QED
      BY <1>3, <3>2, <3>3 DEF InitTracing
  <2> QED
    BY <1>3, <2>1 DEF InitTracing, Types, Phases, Built, Released, Exited, ToldToStop
<1>4. CASE RunMigrations
  <2>1. ASSUME ~Fail PROVE Registered'
    BY <1>4, <2>1 DEF RunMigrations, Registered, Base, Depth
  <2> QED
    BY <1>1, <1>4, <2>1 DEF RunMigrations, Types, Phases, Built, Released, Exited, ToldToStop
<1>5. CASE OpenPool
  <2>1. ASSUME ~Fail PROVE Registered'
    <3>1. main = "pool" /\ main' = "seed" /\ tracer' = tracer /\ Register("pool")
      BY <1>5, <2>1 DEF OpenPool
    <3>2. Base' = Base /\ Depth = 0 /\ Depth' = 1 /\ Base \in {0, 1}
      BY <3>1 DEF Base, Depth
    <3>3. Len(cleanups) = Base + 0
      BY <3>1, <3>2 DEF Registered
    <3>4. /\ cleanups' \in Seq({"tracing", "pool"} \cup Servers) /\ Len(cleanups') = Base + 1
          /\ cleanups'[Base + 1] = "pool"
          /\ tracer # "off" => cleanups'[1] = "tracing"
      BY <3>1, <3>2, <3>3, RegisterAppends DEF Registered, Servers, Base
    <3> QED
      BY <3>1, <3>2, <3>4 DEF Registered
  <2> QED
    BY <1>1, <1>5, <2>1 DEF OpenPool, Types, Phases, Built, Released, Exited, ToldToStop
<1>6. CASE SeedOnBoot
  <2>1. ASSUME ~Fail PROVE Registered'
    BY <1>6, <2>1 DEF SeedOnBoot, Registered, Base, Depth
  <2> QED
    BY <1>1, <1>6, <2>1 DEF SeedOnBoot, Types, Phases, Built, Released, Exited, ToldToStop
<1>7. CASE InitHTTP
  <2>1. Registered'
    <3>1. main = "http" /\ main' = "admin" /\ tracer' = tracer /\ Register("http")
      BY <1>7 DEF InitHTTP, Build
    <3>2. Base' = Base /\ Depth = 1 /\ Depth' = 2 /\ Base \in {0, 1}
      BY <3>1 DEF Base, Depth
    <3>3. Len(cleanups) = Base + 1
      BY <3>1, <3>2 DEF Registered
    <3>4. /\ cleanups' \in Seq({"tracing", "pool"} \cup Servers) /\ Len(cleanups') = Base + 2
          /\ cleanups'[Base + 2] = "http"
          /\ tracer # "off" => cleanups'[1] = "tracing"
          /\ cleanups'[Base + 1] = "pool"
      BY <3>1, <3>2, <3>3, RegisterAppends DEF Registered, Servers, Base
    <3> QED
      BY <3>1, <3>2, <3>4 DEF Registered
  <2> QED
    BY <1>7, <2>1 DEF InitHTTP, Build, Servers, Types, Phases, Built, Released, Exited, ToldToStop
<1>8. CASE InitAdminHTTP
  <2>1. Registered'
    <3>1. main = "admin" /\ main' = "run" /\ tracer' = tracer /\ Register("admin")
      BY <1>8 DEF InitAdminHTTP, Build
    <3>2. Base' = Base /\ Depth = 2 /\ Depth' = 3 /\ Base \in {0, 1}
      BY <3>1 DEF Base, Depth
    <3>3. Len(cleanups) = Base + 2
      BY <3>1, <3>2 DEF Registered
    <3>4. /\ cleanups' \in Seq({"tracing", "pool"} \cup Servers) /\ Len(cleanups') = Base + 3
          /\ cleanups'[Base + 3] = "admin"
          /\ tracer # "off" => cleanups'[1] = "tracing"
          /\ cleanups'[Base + 1] = "pool"
          /\ cleanups'[Base + 2] = "http"
      BY <3>1, <3>2, <3>3, RegisterAppends DEF Registered, Servers, Base
    <3> QED
      BY <3>1, <3>2, <3>4 DEF Registered
  <2> QED
    BY <1>8, <2>1 DEF InitAdminHTTP, Build, Servers, Types, Phases, Built, Released, Exited,
                      ToldToStop
<1> QED
  BY <1>2, <1>3, <1>4, <1>5, <1>6, <1>7, <1>8 DEF Boot

(* A server that begins to serve had been built. *)
LEMMA ServeKeeps == ASSUME IInv, NEW s \in Servers, Serve(s) PROVE IInv'
<1> stage' = stage
  BY DEF Serve
<1> QED
  BY SameRequests DEF IInv, Serve, Servers, Types, Phases, Registered, Base, Depth, Built, Released, Exited,
                      ToldToStop

(* The end of Run, a signal and the deadline touch no resource. *)
LEMMA RunKeeps == ASSUME IInv, Run \/ Signal \/ Expire PROVE IInv'
<1> stage' = stage
  BY DEF Run, RunReturns, Signal, Expire
<1> USE SameRequests DEF IInv
<1>1. CASE Run
  BY <1>1 DEF Run, RunReturns, Types, Phases, Registered, Base, Depth, Built, Released, Exited, ToldToStop
<1>2. CASE Signal
  BY <1>2 DEF Signal, Alive, Types, Phases, Registered, Base, Depth, Built, Released, Exited, ToldToStop
<1>3. CASE Expire
  BY <1>3 DEF Expire, Types, Phases, Registered, Base, Depth, Built, Released, Exited, ToldToStop
<1> QED
  BY <1>1, <1>2, <1>3

(* Each cleanup releases its resource before the next one runs. *)
LEMMA ShutdownKeeps == ASSUME IInv, LifecycleAssumption, Shutdown PROVE IInv'
<1> USE DEF IInv
<1>1. ASSUME NEW s \in Servers, CloseListener(s) PROVE IInv'
  <2> stage' = stage
    BY <1>1 DEF CloseListener
  <2> QED
    BY <1>1, SameRequests, CurrentByCount
       DEF CloseListener, Running, Servers, Types, Phases, Registered, Base, Depth, Built, Released, Exited, ToldToStop
<1>2. ASSUME NEW s \in Servers, ShutdownReturns(s) PROVE IInv'
  <2>1. stage' = stage
    BY <1>2 DEF ShutdownReturns
  <2>2. (s = "admin" /\ ran = 0) \/ (s = "http" /\ ran = 1)
    <3>1. Running(s) /\ s # "pool" /\ s # "tracing"
      BY <1>2 DEF ShutdownReturns, Servers
    <3> QED
      BY <3>1, CurrentByCount
  <2> QED
    BY <1>2, <2>1, <2>2, SameRequests
       DEF ShutdownReturns, Running, Types, Phases, Registered, Base, Depth, Built, Released, Exited, ToldToStop
<1>3. CASE ClosePool
  <2>1. ran = 2
    BY <1>3, CurrentByCount DEF ClosePool
  <2>2. \A s : Drained(s) => Drained(s)'
    BY <1>3 DEF ClosePool, Drained, Active, Types
  <2>3. Types'
    BY <1>3 DEF ClosePool, Types
  <2> QED
    BY <1>3, <2>1, <2>2, <2>3
       DEF ClosePool, Running, Registered, Base, Depth, Built, Released, Exited, ToldToStop
<1>4. CASE PoolCloseReturns
  <2>1. ran = 2 /\ stage' = stage
    BY <1>4, CurrentByCount DEF PoolCloseReturns
  <2> QED
    BY <1>4, <2>1, SameRequests
       DEF PoolCloseReturns, Running, Types, Phases, Registered, Base, Depth, Built, Released, Exited, ToldToStop
<1>5. CASE StopTracing
  <2>1. ran = 3 /\ tracer # "off" /\ stage' = stage
    BY <1>5, CurrentByCount DEF StopTracing
  <2> QED
    BY <1>5, <2>1, SameRequests
       DEF StopTracing, Running, Types, Phases, Registered, Base, Depth, Built, Released, Exited, ToldToStop
<1>6. CASE Exit
  <2>1. stage' = stage
    BY <1>6 DEF Exit
  <2>2. ran = IF tracer = "off" THEN 3 ELSE 4
    BY <1>6 DEF Exit, Registered, Base, Depth
  <2> QED
    BY <1>6, <2>1, <2>2, SameRequests
       DEF Exit, Types, Phases, Registered, Base, Depth, Built, Released, Exited, ToldToStop
<1> QED
  BY <1>1, <1>2, <1>3, <1>4, <1>5, <1>6 DEF Shutdown

(* A process that has not booted satisfies the invariant. *)
LEMMA InitIInv == Init => IInv
<1> SUFFICES ASSUME Init PROVE IInv
  OBVIOUS
<1> USE DEF Init
<1>1. Types
  <2>1. queue \in Seq(Request)
    OBVIOUS
  <2>2. /\ server \in [Servers -> {"none", "built", "listening", "failed", "closed"}]
        /\ stage \in [Request \cup Scrape -> {"none", "handling", "waiting", "querying", "done"}]
    OBVIOUS
  <2>3. main \in Phases /\ ran \in 0..4
    BY DEF Phases
  <2> QED
    BY <2>1, <2>2, <2>3 DEF Types
<1>2. Registered
  BY DEF Registered, Base, Depth
<1>3. Built
  BY DEF Built, Servers, Drained, Active
<1>4. Released /\ Exited /\ ToldToStop
  BY DEF Released, Exited, ToldToStop
<1> QED
  BY <1>1, <1>2, <1>3, <1>4 DEF IInv

(* Every step preserves the inductive invariant. *)
LEMMA NextIInv == LifecycleAssumption /\ IInv /\ [Next]_vars => IInv'
<1> SUFFICES ASSUME LifecycleAssumption, IInv, [Next]_vars PROVE IInv'
  OBVIOUS
<1>1. CASE UNCHANGED vars
  BY <1>1 DEF vars, IInv, Types, Phases, Registered, Base, Depth, Built, Released, Exited, ToldToStop, Drained,
              Active
<1>2. CASE Next
  BY <1>2, BootKeeps, RunKeeps, ShutdownKeeps, ServeKeeps, AcceptKeeps, FinishKeeps, AcquireKeeps,
     AnswerKeeps, GiveUpKeeps DEF Next, Main
<1> QED
  BY <1>1, <1>2

(* The teardown invariant holds for any requests and any pool size. *)
THEOREM TeardownInvariance == Spec => []IInv
  BY LifecycleAssumption, InitIInv, NextIInv, PTL DEF Spec

(* Nothing is cut off before the deadline: when the pool begins to close   *)
(* or the process exits in time, no request is active.                     *)
THEOREM NothingCutOff == Spec => []GracefulOrExpired
<1>1. IInv => GracefulOrExpired
  BY DEF IInv, Types, Built, Released, Exited, GracefulOrExpired, Drained, ServerOf, Servers
<1> QED
  BY <1>1, TeardownInvariance, PTL

(* Whoever is served came to a server that was built, and a process that   *)
(* ends before it has built one ends with 1.                               *)
Unserved ==
    /\ \A r \in Request \cup Scrape : server[ServerOf(r)] = "none" => stage[r] = "none"
    /\ main = "exited" /\ server["http"] = "none" => code = 1

(* Requests come to a server that listens; the one that hands a connection *)
(* over came to the server that the waiter came to.                        *)
LEMMA RequestsFindServers ==
    ASSUME IInv, Unserved, LifecycleAssumption, NEW r \in Request \cup Scrape,
           \/ Accept(r) \/ Finish(r)
           \/ r \in Request /\ (Acquire(r) \/ Answer(r) \/ GiveUp(r))
    PROVE  Unserved'
<1>1. SameProcess
  BY DEF Accept, Finish, Acquire, Answer, GiveUp
<1>2. ASSUME NEW q \in Request \cup Scrape, stage'[q] # stage[q]
      PROVE  server[ServerOf(q)] # "none"
  <2>1. CASE Accept(r) \/ Finish(r) \/ (r \in Request /\ (Acquire(r) \/ GiveUp(r)))
    <3>1. q = r
      BY <1>2, <2>1 DEF Accept, Finish, Acquire, GiveUp, Move, IInv, Types
    <3> QED
      BY <2>1, <3>1 DEF Accept, Finish, Acquire, GiveUp, Unserved
  <2>2. CASE r \in Request /\ Answer(r)
    <3>1. q \in Request
      BY <1>2, <2>2 DEF Answer, Move, IInv, Types
    <3>2. ServerOf(q) = "http" /\ ServerOf(r) = "http"
      BY <2>2, <3>1 DEF ServerOf, LifecycleAssumption
    <3> QED
      BY <2>2, <3>2 DEF Answer, Unserved
  <2> QED
    BY <2>1, <2>2
<1> QED
  BY <1>1, <1>2 DEF SameProcess, Unserved, ServerOf

(* The process builds servers and never takes one apart, and Init is the   *)
(* only place where it can end without one.                                *)
LEMMA ProcessKeepsServers ==
    ASSUME IInv, Unserved,
           Main \/ Signal \/ Expire \/ (\E s \in Servers : Serve(s)) \/ UNCHANGED vars
    PROVE  Unserved'
<1> USE DEF Unserved, IInv, Types, ServerOf
<1>1. CASE Boot
  BY <1>1 DEF Boot, InitConfig, InitTracing, RunMigrations, OpenPool, SeedOnBoot, InitHTTP,
              InitAdminHTTP, Build, Fail, Servers
<1>2. CASE Run \/ Signal \/ Expire
  BY <1>2 DEF Run, RunReturns, Signal, Expire, Alive
<1>3. ASSUME NEW s \in Servers, Serve(s) \/ CloseListener(s)
      PROVE  Unserved'
  BY <1>3 DEF Serve, CloseListener, Running, Built, Servers
<1>4. ASSUME NEW s \in Servers, ShutdownReturns(s)
      PROVE  Unserved'
  BY <1>4 DEF ShutdownReturns, Running
<1>5. CASE ClosePool
  BY <1>5 DEF ClosePool, Running
<1>6. CASE PoolCloseReturns \/ StopTracing
  BY <1>6 DEF PoolCloseReturns, StopTracing, Running
<1>7. CASE Exit
  BY <1>7 DEF Exit, Built
<1>8. CASE UNCHANGED vars
  BY <1>8 DEF vars
<1> QED
  BY <1>1, <1>2, <1>3, <1>4, <1>5, <1>6, <1>7, <1>8 DEF Main, Shutdown

(* A process that built its servers exits with nothing left open, and with *)
(* 0 only when it was told to stop; one whose Init failed exits with 1 and *)
(* has served nobody.                                                      *)
THEOREM ExitsClean == Spec => []ExitCleansUp
<1>1. Init => Unserved
  BY DEF Init, Unserved
<1>2. LifecycleAssumption /\ IInv /\ Unserved /\ [Next]_vars => Unserved'
  BY RequestsFindServers, ProcessKeepsServers DEF Next
<1>3. IInv /\ Unserved => ExitCleansUp
  <2> SUFFICES ASSUME IInv, Unserved, main = "exited"
               PROVE  /\ code = 0 => signalled
                      /\ server["http"] = "none" =>
                            code = 1 /\ \A r \in Request \cup Scrape : stage[r] = "none"
                      /\ server["http"] # "none" =>
                            /\ \A s \in Servers : server[s] = "closed"
                            /\ pool = "closed"
                            /\ tracer # "on"
    BY DEF ExitCleansUp
  <2>1. server["http"] = "none" => \A s \in Servers : server[s] = "none"
    BY DEF IInv, Types, Released, Exited, Servers
  <2>2. server["http"] = "none" => \A r \in Request \cup Scrape : stage[r] = "none"
    BY <2>1 DEF Unserved, ServerOf, Servers
  <2> QED
    BY <2>2 DEF IInv, Types, Built, Released, Exited, Unserved, Servers
<1> QED
  BY <1>1, <1>2, <1>3, LifecycleAssumption, TeardownInvariance, PTL DEF Spec

(***************************************************************************)
(* The books of the pool.                                                  *)
(***************************************************************************)
Querying == {r \in Request : stage[r] = "querying"}
Waiting == {r \in Request : stage[r] = "waiting"}

(* Requests queue once. *)
Distinct(q) == \A j, k \in 1..Len(q) : q[j] = q[k] => j = k
Elements(q) == {q[k] : k \in 1..Len(q)}
Without(q, k, p) ==
    /\ Len(p) = Len(q) - 1
    /\ \A j \in 1..Len(p) : p[j] = IF j < k THEN q[j] ELSE q[j + 1]

Books ==
    /\ ran \in 0..Len(cleanups)
    /\ idle \in Nat
    /\ pool = "none" => idle = 0 /\ queue = <<>> /\ Querying = {} /\ Waiting = {}
    /\ pool # "none" => idle + Cardinality(Querying) = MaxConns
    /\ Distinct(queue) /\ Elements(queue) = Waiting
    /\ queue # <<>> => idle = 0

(* Sets of requests are finite. *)
LEMMA RequestsFinite ==
    ASSUME LifecycleAssumption, NEW S \in SUBSET Request
    PROVE  IsFiniteSet(S) /\ Cardinality(S) \in Nat
  BY FS_Subset, FS_CardinalityType DEF LifecycleAssumption

(* A sequence without repetition is as long as it has elements. *)
LEMMA LengthOfDistinct ==
    ASSUME NEW q \in Seq(Request), Distinct(q)
    PROVE  Len(q) = Cardinality(Elements(q))
<1> DEFINE places == 1..Len(q)
           at == [k \in places |-> q[k]]
<1>1. Len(q) \in Nat /\ 1 \in Int
  OBVIOUS
<1>2. IsFiniteSet(places) /\ Cardinality(places) = Len(q)
  <2>1. Cardinality(places) = IF 1 > Len(q) THEN 0 ELSE Len(q) - 1 + 1
    BY <1>1, FS_Interval
  <2>2. (IF 1 > Len(q) THEN 0 ELSE Len(q) - 1 + 1) = Len(q)
    BY <1>1
  <2> QED
    BY <1>1, <2>1, <2>2, FS_Interval
<1>3. at \in Bijection(places, Elements(q))
  <2>1. at \in [places -> Elements(q)]
    BY DEF Elements
  <2>2. \A j, k \in places : at[j] = at[k] => j = k
    BY DEF Distinct
  <2>3. \A e \in Elements(q) : \E k \in places : at[k] = e
    BY DEF Elements
  <2> QED
    BY <2>1, <2>2, <2>3 DEF Bijection, Injection, IsInjective, Surjection
<1>4. ExistsBijection(places, Elements(q))
  BY <1>3 DEF ExistsBijection
<1> HIDE DEF places, at
<1> QED
  BY <1>2, <1>4, FS_Bijection

(* Without position k a sequence has lost that element and no other. *)
LEMMA OneLeaves ==
    ASSUME NEW q \in Seq(Request), NEW p \in Seq(Request), Distinct(q), NEW k \in 1..Len(q),
           Without(q, k, p)
    PROVE  Distinct(p) /\ Elements(p) = Elements(q) \ {q[k]}
<1> USE DEF Without
<1>1. Len(q) \in Nat /\ Len(p) \in Nat
  OBVIOUS
<1>2. \A j \in 1..Len(p) : \E i \in 1..Len(q) :
         p[j] = q[i] /\ i = (IF j < k THEN j ELSE j + 1)
  BY <1>1
<1>3. Distinct(p)
  BY <1>1, <1>2 DEF Distinct
<1>4. \A j \in 1..Len(p) : p[j] \in Elements(q) \ {q[k]}
  BY <1>1, <1>2 DEF Distinct, Elements
<1>5. \A i \in 1..Len(q) : q[i] # q[k] => q[i] \in Elements(p)
  <2> SUFFICES ASSUME NEW i \in 1..Len(q), q[i] # q[k]
               PROVE  \E j \in 1..Len(p) : p[j] = q[i]
    BY DEF Elements
  <2>1. CASE i < k
    BY <1>1, <2>1
  <2>2. CASE i > k
    <3>1. i - 1 \in 1..Len(p) /\ ~(i - 1 < k) /\ (i - 1) + 1 = i
      BY <1>1, <2>2
    <3> QED
      BY <3>1
  <2> QED
    BY <2>1, <2>2
<1> QED
  BY <1>3, <1>4, <1>5 DEF Elements

(* The request at the end of a longer queue. *)
LEMMA OneJoins ==
    ASSUME NEW q \in Seq(Request), Distinct(q), NEW r \in Request \ Elements(q)
    PROVE  Distinct(Append(q, r)) /\ Elements(Append(q, r)) = Elements(q) \cup {r}
<1>1. /\ Len(q) \in Nat /\ Len(Append(q, r)) = Len(q) + 1
      /\ \A j \in 1..Len(q) : Append(q, r)[j] = q[j]
      /\ Append(q, r)[Len(q) + 1] = r
  BY AppendProperties
<1>2. \A j \in 1..(Len(q) + 1) : j \in 1..Len(q) \/ j = Len(q) + 1
  BY <1>1
<1>3. \A j \in 1..Len(q) : q[j] # r
  BY DEF Elements
<1>4. Distinct(Append(q, r))
  BY <1>1, <1>2, <1>3 DEF Distinct
<1>5. Elements(Append(q, r)) = Elements(q) \cup {r}
  BY <1>1, <1>2 DEF Elements
<1> QED
  BY <1>4, <1>5

(* Steps that leave the pool and the requests alone leave the books alone. *)
LEMMA SameBooks ==
    ASSUME Books, UNCHANGED <<pool, idle, queue, stage>>, ran' \in 0..Len(cleanups')
    PROVE  Books'
  BY DEF Books, Querying, Waiting

(* Steps of the requests among themselves. *)
LEMMA SamePool ==
    ASSUME Books, SameProcess, pool # "none", idle' \in Nat,
           idle' + Cardinality(Querying') = MaxConns,
           Distinct(queue'), Elements(queue') = Waiting', queue' # <<>> => idle' = 0
    PROVE  Books'
  BY DEF Books, SameProcess


(* At first there is no pool and no request. *)
LEMMA InitBooks == LifecycleAssumption /\ Init => Books
<1> SUFFICES ASSUME LifecycleAssumption, Init PROVE Books
  OBVIOUS
<1>1. Querying = {} /\ Waiting = {} /\ queue = <<>> /\ Len(queue) = 0
  BY DEF Init, Querying, Waiting
<1>2. Distinct(queue) /\ Elements(queue) = {}
  BY <1>1 DEF Distinct, Elements
<1> QED
  BY <1>1, <1>2 DEF Init, Books

(* A request that arrives or leaves holds no connection and waits for none. *)
LEMMA ComeAndGo ==
    ASSUME Books, Types, NEW r \in Request \cup Scrape, Accept(r) \/ Finish(r)
    PROVE  Books'
<1>1. /\ SameProcess /\ idle' = idle /\ queue' = queue
      /\ \/ stage[r] = "none" /\ stage' = [stage EXCEPT ![r] = "handling"]
         \/ stage[r] = "handling" /\ stage' = [stage EXCEPT ![r] = "done"]
  BY DEF Accept, Finish, Move
<1>2. Querying' = Querying /\ Waiting' = Waiting
  BY <1>1 DEF Querying, Waiting, Types
<1> QED
  BY <1>1, <1>2 DEF Books, SameProcess

(* A statement takes a connection, or its request joins the queue. *)
LEMMA AcquireBooks ==
    ASSUME Books, Types, LifecycleAssumption, NEW r \in Request, Acquire(r)
    PROVE  Books'
<1>1. /\ SameProcess /\ pool # "none" /\ stage[r] = "handling"
      /\ r \notin Querying /\ r \notin Waiting /\ queue \in Seq(Request)
  BY DEF Acquire, Querying, Waiting, Types
<1>2. IsFiniteSet(Querying) /\ Cardinality(Querying) \in Nat
  BY RequestsFinite DEF Querying
<1>3. CASE /\ idle > 0 /\ queue = <<>>
           /\ Move(r, "querying") /\ idle' = idle - 1 /\ UNCHANGED queue
  <2>1. Querying' = Querying \cup {r} /\ Waiting' = Waiting
    BY <1>1, <1>3 DEF Move, Querying, Waiting, Types
  <2>2. Cardinality(Querying') = Cardinality(Querying) + 1
    BY <1>1, <1>2, <2>1, FS_AddElement
  <2>3. idle' \in Nat /\ idle' + Cardinality(Querying') = MaxConns
    BY <1>1, <1>2, <1>3, <2>2 DEF Books, LifecycleAssumption
  <2> QED
    BY <1>1, <1>3, <2>1, <2>3, SamePool DEF Books
<1>4. CASE /\ idle = 0 \/ queue # <<>>
           /\ Move(r, "waiting") /\ queue' = Append(queue, r) /\ UNCHANGED idle
  <2>1. Querying' = Querying /\ Waiting' = Waiting \cup {r}
    BY <1>1, <1>4 DEF Move, Querying, Waiting, Types
  <2>2. Distinct(queue') /\ Elements(queue') = Elements(queue) \cup {r}
    BY <1>1, <1>4, OneJoins DEF Books
  <2>3. idle' = 0
    BY <1>4 DEF Books
  <2> QED
    BY <1>1, <1>4, <2>1, <2>2, <2>3, SamePool DEF Books
<1> QED
  BY <1>3, <1>4 DEF Acquire

(* A connection that changes hands goes to the first in the queue. *)
LEMMA HandOver ==
    ASSUME Books, Types, NEW r \in Request, Answer(r), queue # <<>>
    PROVE  /\ Len(queue) \in Nat /\ 1 \in 1..Len(queue) /\ queue[1] \in Waiting
           /\ queue' \in Seq(Request) /\ Without(queue, 1, queue')
           /\ queue[1] # r /\ queue[1] \in Request /\ queue[1] \notin Querying
           /\ Querying' = (Querying \ {r}) \cup {queue[1]}
           /\ Waiting' = Waiting \ {queue[1]}
           /\ Distinct(queue') /\ Elements(queue') = Elements(queue) \ {queue[1]}
<1>1. queue \in Seq(Request) /\ r \in Querying /\ r \notin Waiting
  BY DEF Types, Querying, Waiting, Answer
<1>2. /\ Len(queue) \in Nat /\ 1 \in 1..Len(queue) /\ Head(queue) = queue[1]
      /\ queue' \in Seq(Request) /\ Len(queue') = Len(queue) - 1
      /\ \A j \in 1..Len(queue') : queue'[j] = queue[j + 1]
  <2>1. queue' = Tail(queue)
    BY DEF Answer
  <2>2. /\ Len(queue) \in Nat /\ 1 \in 1..Len(queue) /\ Head(queue) = queue[1]
        /\ Tail(queue) \in Seq(Request) /\ Len(Tail(queue)) = Len(queue) - 1
        /\ \A j \in 1..Len(Tail(queue)) : Tail(queue)[j] = queue[j + 1]
    BY <1>1, HeadTailProperties
  <2> QED
    BY <2>1, <2>2
<1>3. queue[1] \in Waiting
  BY <1>2 DEF Books, Elements
<1>4. queue[1] # r /\ queue[1] \in Request /\ queue[1] \notin Querying
  BY <1>1, <1>3 DEF Waiting, Querying
<1>5. /\ Querying' = (Querying \ {r}) \cup {queue[1]}
      /\ Waiting' = Waiting \ {queue[1]}
  BY <1>1, <1>2, <1>4 DEF Querying, Waiting, Types, Answer
<1>6. Without(queue, 1, queue')
  BY <1>2 DEF Without
<1>7. Distinct(queue)
  BY DEF Books
<1>8. Distinct(queue') /\ Elements(queue') = Elements(queue) \ {queue[1]}
  BY <1>1, <1>2, <1>6, <1>7, OneLeaves
<1> QED
  BY <1>2, <1>3, <1>4, <1>5, <1>6, <1>8

(* The end of a statement: a connection comes back or changes hands. *)
LEMMA AnswerBooks ==
    ASSUME Books, Types, LifecycleAssumption, NEW r \in Request, Answer(r)
    PROVE  Books'
<1>1. SameProcess /\ stage[r] = "querying" /\ r \in Querying /\ r \notin Waiting
      /\ queue \in Seq(Request)
  BY DEF Answer, Querying, Waiting, Types
<1>2. pool # "none"
  BY <1>1 DEF Books
<1>3. /\ IsFiniteSet(Querying) /\ Cardinality(Querying) \in Nat
      /\ IsFiniteSet(Querying \ {r})
      /\ Cardinality(Querying \ {r}) = Cardinality(Querying) - 1
  <2>1. IsFiniteSet(Querying) /\ Cardinality(Querying) \in Nat
    BY RequestsFinite DEF Querying
  <2> QED
    BY <1>1, <2>1, FS_RemoveElement
<1>4. CASE queue = <<>> /\ Move(r, "handling") /\ idle' = idle + 1 /\ UNCHANGED queue
  <2>1. Querying' = Querying \ {r} /\ Waiting' = Waiting
    BY <1>1, <1>4 DEF Move, Querying, Waiting, Types
  <2>2. idle' \in Nat /\ idle' + Cardinality(Querying') = MaxConns
    BY <1>2, <1>3, <1>4, <2>1 DEF Books
  <2> QED
    BY <1>1, <1>2, <1>4, <2>1, <2>2, SamePool DEF Books
<1>5. CASE /\ queue # <<>>
           /\ stage' = [stage EXCEPT ![r] = "handling", ![Head(queue)] = "querying"]
           /\ queue' = Tail(queue) /\ UNCHANGED idle
  <2>1. /\ queue[1] # r /\ queue[1] \in Request /\ queue[1] \notin Querying
        /\ Querying' = (Querying \ {r}) \cup {queue[1]}
        /\ Waiting' = Waiting \ {queue[1]}
        /\ Distinct(queue') /\ Elements(queue') = Elements(queue) \ {queue[1]}
    BY <1>1, <1>5, HandOver
  <2>2. Cardinality(Querying') = Cardinality(Querying)
    <3>1. queue[1] \notin Querying \ {r}
      BY <2>1
    <3>2. Cardinality((Querying \ {r}) \cup {queue[1]}) = Cardinality(Querying \ {r}) + 1
      BY <1>3, <3>1, FS_AddElement
    <3> QED
      BY <1>3, <2>1, <3>2
  <2>3. idle' \in Nat /\ idle' = 0 /\ idle' + Cardinality(Querying') = MaxConns
    BY <1>2, <1>5, <2>2 DEF Books
  <2> QED
    BY <1>1, <1>2, <2>1, <2>3, SamePool DEF Books
<1> QED
  BY <1>4, <1>5 DEF Answer

(* A client that gives up takes its place out of the queue. *)
LEMMA Leaves ==
    ASSUME Books, Types, NEW r \in Request, GiveUp(r)
    PROVE  /\ r \in Waiting /\ Querying' = Querying /\ Waiting' = Waiting \ {r}
           /\ queue' \in Seq(Request)
           /\ \E k \in 1..Len(queue) : queue[k] = r /\ Without(queue, k, queue')
           /\ Distinct(queue') /\ Elements(queue') = Elements(queue) \ {r}
<1>1. /\ stage[r] = "waiting" /\ r \in Waiting
      /\ queue \in Seq(Request) /\ Len(queue) \in Nat
  BY DEF GiveUp, Waiting, Types
<1>2. Querying' = Querying /\ Waiting' = Waiting \ {r}
  BY <1>1 DEF GiveUp, Move, Querying, Waiting, Types
<1>3. PICK k \in 1..Len(queue) : queue[k] = r /\ queue' = RemoveAt(queue, k)
  BY <1>1 DEF GiveUp
<1>4. queue' \in Seq(Request) /\ Without(queue, k, queue')
  <2> DEFINE front == SubSeq(queue, 1, k - 1)
             back == SubSeq(queue, k + 1, Len(queue))
  <2>1. front \in Seq(Request) /\ Len(front) = k - 1 /\ \A j \in 1..(k - 1) : front[j] = queue[j]
    BY <1>1, SubSeqProperties
  <2>2. /\ back \in Seq(Request) /\ Len(back) = Len(queue) - k
        /\ \A j \in 1..(Len(queue) - k) : back[j] = queue[k + j]
    BY <1>1, SubSeqProperties
  <2>3. queue' = front \o back
    BY <1>3 DEF RemoveAt
  <2> HIDE DEF front, back
  <2>4. /\ queue' \in Seq(Request) /\ Len(queue') = Len(front) + Len(back)
        /\ \A j \in 1..(Len(front) + Len(back)) :
              queue'[j] = IF j <= Len(front) THEN front[j] ELSE back[j - Len(front)]
    BY <2>1, <2>2, <2>3, ConcatProperties
  <2>5. Len(queue') = Len(queue) - 1
    BY <1>1, <2>1, <2>2, <2>4
  <2>6. ASSUME NEW j \in 1..Len(queue')
        PROVE  queue'[j] = IF j < k THEN queue[j] ELSE queue[j + 1]
    <3>1. CASE j < k
      BY <1>1, <2>1, <2>2, <2>4, <3>1
    <3>2. CASE ~(j < k)
      <4>1. j - Len(front) \in 1..(Len(queue) - k) /\ k + (j - Len(front)) = j + 1
            /\ ~(j <= Len(front))
        BY <1>1, <2>1, <2>5, <3>2
      <4> QED
        BY <2>1, <2>2, <2>4, <3>2, <4>1
    <3> QED
      BY <3>1, <3>2
  <2> QED
    BY <2>4, <2>5, <2>6 DEF Without
<1>5. Distinct(queue') /\ Elements(queue') = Elements(queue) \ {r}
  <2>1. Distinct(queue)
    BY DEF Books
  <2> QED
    BY <1>1, <1>3, <1>4, <2>1, OneLeaves
<1> QED
  BY <1>1, <1>2, <1>3, <1>4, <1>5

(* A client that gives up leaves its place in the queue to the next. *)
LEMMA GiveUpBooks ==
    ASSUME Books, Types, LifecycleAssumption, NEW r \in Request, GiveUp(r)
    PROVE  Books'
<1>1. /\ SameProcess /\ stage[r] = "waiting" /\ idle' = idle
      /\ queue \in Seq(Request) /\ Len(queue) \in Nat
  BY DEF GiveUp, Types
<1>2. /\ r \in Waiting /\ Querying' = Querying /\ Waiting' = Waiting \ {r}
      /\ \E k \in 1..Len(queue) : queue[k] = r
      /\ Distinct(queue') /\ Elements(queue') = Elements(queue) \ {r}
  BY Leaves
<1>3. pool # "none"
  BY <1>2 DEF Books
<1>4. idle' \in Nat /\ idle' = 0 /\ idle' + Cardinality(Querying') = MaxConns
  <2>1. queue # <<>>
    BY <1>1, <1>2
  <2> QED
    BY <1>1, <1>2, <1>3, <2>1 DEF Books
<1> QED
  BY <1>1, <1>2, <1>3, <1>4, SamePool DEF Books

(* The pool opens with every connection idle. *)
LEMMA OpenBooks == ASSUME Books, Types, IInv', LifecycleAssumption, OpenPool, IInv PROVE Books'
<1>1. CASE Fail
  BY <1>1, SameBooks DEF Fail, Books
<1>2. CASE ~Fail
  <2>1. /\ main = "pool" /\ pool' = "open" /\ idle' = MaxConns /\ Register("pool")
        /\ ran' = ran /\ queue' = queue /\ stage' = stage
    BY <1>2 DEF OpenPool
  <2>2. pool = "none" /\ ran = 0
    BY <2>1 DEF IInv, Built, Released
  <2>3. Querying' = {} /\ Waiting' = {} /\ queue' = <<>> /\ Len(queue') = 0
    BY <2>1, <2>2 DEF Books, Querying, Waiting
  <2>4. Distinct(queue') /\ Elements(queue') = {}
    BY <2>3 DEF Distinct, Elements
  <2>5. idle' \in Nat /\ idle' + Cardinality(Querying') = MaxConns
    BY <2>1, <2>3, FS_EmptySet DEF LifecycleAssumption
  <2>6. ran' \in 0..Len(cleanups')
    <3>1. Len(cleanups') \in Nat
      BY DEF IInv, Registered
    <3> QED
      BY <2>1, <2>2, <3>1
  <2> QED
    BY <2>1, <2>3, <2>4, <2>5, <2>6 DEF Books
<1> QED
  BY <1>1, <1>2

(* Pool.Close turns away whoever waits. *)
LEMMA CloseBooks == ASSUME Books, Types, LifecycleAssumption, ClosePool PROVE Books'
<1>1. /\ pool = "open" /\ pool' = "closing" /\ idle' = idle /\ queue' = <<>> /\ Len(queue') = 0
      /\ UNCHANGED <<ran, cleanups>>
  BY DEF ClosePool
<1>2. Querying' = Querying /\ Waiting' = {}
  BY DEF ClosePool, Querying, Waiting, Types
<1>3. Distinct(queue') /\ Elements(queue') = {}
  BY <1>1 DEF Distinct, Elements
<1> QED
  BY <1>1, <1>2, <1>3 DEF Books

(* What runs is counted: never more cleanups than are registered. *)
LEMMA RanCounted ==
    ASSUME Books, IInv, IInv', [Next]_vars, ~OpenPool
    PROVE  ran' \in 0..Len(cleanups')
<1>1. Len(cleanups) \in Nat /\ Len(cleanups') \in Nat /\ ran \in 0..Len(cleanups)
  BY DEF IInv, Registered, Books
<1>2. CASE Boot
  <2>1. ran' = 0
    BY <1>2 DEF Boot, InitConfig, InitTracing, RunMigrations, SeedOnBoot, InitHTTP,
                InitAdminHTTP, Build, Fail, OpenPool, IInv, Released
  <2> QED
    BY <1>1, <2>1
<1>3. CASE Shutdown
  BY <1>1, <1>3 DEF Shutdown, CloseListener, ShutdownReturns, ClosePool, PoolCloseReturns,
                    StopTracing, Exit, Running
<1>4. CASE UNCHANGED <<ran, cleanups>>
  BY <1>1, <1>4
<1>5. [Next]_vars => Boot \/ Shutdown \/ UNCHANGED <<ran, cleanups>>
  BY DEF Next, Main, Run, RunReturns, Signal, Expire, Serve, Accept, Finish, Acquire, Answer,
         GiveUp, SameProcess, vars
<1> QED
  BY <1>2, <1>3, <1>4, <1>5

(* Every step keeps the books. *)
LEMMA BooksKept == LifecycleAssumption /\ IInv /\ IInv' /\ Books /\ [Next]_vars => Books'
<1> SUFFICES ASSUME LifecycleAssumption, IInv, IInv', Books, [Next]_vars PROVE Books'
  OBVIOUS
<1> USE DEF IInv
<1>1. CASE OpenPool
  BY <1>1, OpenBooks
<1>2. CASE ClosePool
  BY <1>2, CloseBooks
<1>3. CASE UNCHANGED <<pool, idle, queue, stage>> /\ ~OpenPool
  BY <1>3, SameBooks, RanCounted
<1>4. CASE PoolCloseReturns /\ ~OpenPool
  <2>1. /\ pool = "closing" /\ pool' = "closed" /\ UNCHANGED <<idle, queue, stage>>
        /\ ran' \in 0..Len(cleanups')
    BY <1>4, RanCounted DEF PoolCloseReturns
  <2> QED
    BY <2>1 DEF Books, Querying, Waiting
<1>5. ASSUME NEW r \in Request \cup Scrape, Accept(r) \/ Finish(r) PROVE Books'
  BY <1>5, ComeAndGo
<1>6. ASSUME NEW r \in Request, Acquire(r) \/ Answer(r) \/ GiveUp(r) PROVE Books'
  BY <1>6, AcquireBooks, AnswerBooks, GiveUpBooks
<1>7. \/ OpenPool \/ ClosePool \/ PoolCloseReturns
      \/ UNCHANGED <<pool, idle, queue, stage>>
      \/ \E r \in Request \cup Scrape : Accept(r) \/ Finish(r)
      \/ \E r \in Request : Acquire(r) \/ Answer(r) \/ GiveUp(r)
  BY DEF Next, Main, Boot, InitConfig, InitTracing, RunMigrations, SeedOnBoot, InitHTTP,
         InitAdminHTTP, Build, Fail, Run, RunReturns, Shutdown, CloseListener, ShutdownReturns,
         StopTracing, Exit, Signal, Expire, Serve, vars
<1> QED
  BY <1>1, <1>2, <1>3, <1>4, <1>5, <1>6, <1>7

(* The books balance in every state, for any requests and any pool size: a *)
(* connection is held by one statement or idle, the queue holds exactly    *)
(* the requests that wait, each once, and nobody waits beside an idle      *)
(* connection.                                                             *)
THEOREM BooksBalance == Spec => []TypeOK
<1>1. ASSUME LifecycleAssumption, IInv, Books PROVE TypeOK
  <2>1. queue \in Seq(Request)
    BY <1>1 DEF IInv, Types
  <2>2. Cardinality(Querying) \in Nat
    BY <1>1, RequestsFinite DEF Querying
  <2>3. idle \in 0..MaxConns
    BY <1>1, <2>2 DEF Books, LifecycleAssumption
  <2>4. Len(queue) = Cardinality(Waiting)
    BY <1>1, <2>1, LengthOfDistinct DEF Books
  <2>5. DOMAIN queue = 1..Len(queue)
    BY <2>1
  <2>6. PoolBalanced
    BY <1>1, <2>4, <2>5 DEF PoolBalanced, Books, Elements, Querying, Waiting
  <2> QED
    BY <1>1, <2>1, <2>3, <2>6 DEF TypeOK, IInv, Types, Phases, Registered, Books
<1> QED
  BY <1>1, LifecycleAssumption, InitBooks, BooksKept, TeardownInvariance, PTL DEF Spec

(* The books on their own, for what follows. *)
THEOREM BooksInvariance == Spec => []Books
  BY LifecycleAssumption, InitBooks, BooksKept, TeardownInvariance, PTL DEF Spec

(***************************************************************************)
(* The queue of the pool: what lies under WaitersServed.                   *)
(***************************************************************************)
(* Those who have to be served, or to leave, before r is. *)
AheadIn(q, r) == {x \in Elements(q) : \E j, k \in 1..Len(q) : j < k /\ q[j] = x /\ q[k] = r}
Ahead(r) == AheadIn(queue, r)

(* First come, first served: while r waits nobody new gets ahead of it,    *)
(* only those ahead of it get connections, and every statement that ends   *)
(* makes their number smaller, whoever joins or leaves the queue meanwhile *)
(* and however the process ends.                                           *)
Overtaken(r) ==
    \/ ~(Ahead(r)' \subseteq Ahead(r))
    \/ ~(Querying' \ Querying \subseteq Ahead(r))
    \/ Querying \ Querying' # {} /\ Ahead(r)' = Ahead(r)
FirstComeFirstServed ==
    [][\A r \in Request : r \in Waiting /\ r \in Waiting' => ~Overtaken(r)]_vars

(* Who joins the queue goes behind everybody in it. *)
LEMMA AheadOfJoiner ==
    ASSUME NEW q \in Seq(Request), NEW r \in Request \ Elements(q), NEW x \in Elements(q)
    PROVE  AheadIn(Append(q, r), x) \subseteq AheadIn(q, x)
<1>1. /\ Len(q) \in Nat /\ Len(Append(q, r)) = Len(q) + 1
      /\ \A j \in 1..Len(q) : Append(q, r)[j] = q[j]
      /\ Append(q, r)[Len(q) + 1] = r
  BY AppendProperties
<1>2. r # x
  OBVIOUS
<1>3. ASSUME NEW y, NEW j \in 1..(Len(q) + 1), NEW k \in 1..(Len(q) + 1),
             j < k, Append(q, r)[j] = y, Append(q, r)[k] = x
      PROVE  j \in 1..Len(q) /\ k \in 1..Len(q) /\ q[j] = y /\ q[k] = x
  <2>1. k # Len(q) + 1
    BY <1>1, <1>2, <1>3
  <2>2. j \in 1..Len(q) /\ k \in 1..Len(q)
    BY <1>1, <1>3, <2>1
  <2> QED
    BY <1>1, <1>3, <2>2
<1> QED
  BY <1>1, <1>3 DEF AheadIn, Elements

(* Who leaves it is ahead of nobody any more, and lets nobody overtake. *)
LEMMA AheadOfLeaver ==
    ASSUME NEW q \in Seq(Request), NEW p \in Seq(Request), Distinct(q), NEW k \in 1..Len(q),
           Without(q, k, p), NEW x
    PROVE  AheadIn(p, x) \subseteq AheadIn(q, x) \ {q[k]}
<1>1. Len(q) \in Nat /\ Len(p) = Len(q) - 1
  BY DEF Without
<1> DEFINE was(j) == IF j < k THEN j ELSE j + 1
<1>2. \A j \in 1..Len(p) : was(j) \in 1..Len(q) /\ was(j) # k /\ p[j] = q[was(j)]
  BY <1>1 DEF Without
<1>3. \A i, j \in 1..Len(p) : i < j => was(i) < was(j)
  BY <1>1
<1> HIDE DEF was
<1>4. ASSUME NEW y, NEW i \in 1..Len(p), NEW j \in 1..Len(p), i < j, p[i] = y, p[j] = x
      PROVE  y \in AheadIn(q, x) \ {q[k]}
  <2>1. was(i) \in 1..Len(q) /\ was(j) \in 1..Len(q) /\ was(i) < was(j)
        /\ q[was(i)] = y /\ q[was(j)] = x
    BY <1>2, <1>3, <1>4
  <2>2. y # q[k]
    BY <1>2, <2>1 DEF Distinct
  <2> QED
    BY <2>1, <2>2 DEF AheadIn, Elements
<1> QED
  BY <1>4 DEF AheadIn

(* Steps that leave the queue and the statements alone overtake nobody. *)
LEMMA SameQueue ==
    ASSUME queue' = queue, Querying' = Querying, NEW r
    PROVE  ~Overtaken(r)
  BY DEF Overtaken, Ahead

(* No step of the requests overtakes a waiter. *)
LEMMA RequestsQueue ==
    ASSUME Books, Types, NEW r \in Waiting, r \in Waiting', NEW q \in Request,
           Acquire(q) \/ Answer(q) \/ GiveUp(q)
    PROVE  ~Overtaken(r)
<1>1. queue \in Seq(Request) /\ r \in Request
      /\ Elements(queue) = Waiting /\ Distinct(queue)
  BY DEF Types, Books, Waiting
<1>2. /\ queue # <<>> /\ Len(queue) \in Nat /\ 1 \in 1..Len(queue)
      /\ \E k \in 1..Len(queue) : queue[k] = r
  BY <1>1 DEF Elements
<1>3. CASE Acquire(q)
  <2>1. /\ queue' = Append(queue, q) /\ Move(q, "waiting") /\ stage[q] = "handling"
    BY <1>2, <1>3 DEF Acquire
  <2>2. Querying' = Querying /\ q \notin Elements(queue)
    BY <1>1, <2>1 DEF Move, Querying, Waiting, Types
  <2>3. Ahead(r)' \subseteq Ahead(r)
    BY <1>1, <2>1, <2>2, AheadOfJoiner DEF Ahead
  <2> QED
    BY <2>2, <2>3 DEF Overtaken
<1>4. CASE Answer(q)
  <2>1. /\ queue' \in Seq(Request) /\ Without(queue, 1, queue')
        /\ Querying' = (Querying \ {q}) \cup {queue[1]}
        /\ Waiting' = Waiting \ {queue[1]}
    BY <1>2, <1>4, HandOver
  <2>2. Ahead(r)' \subseteq Ahead(r) \ {queue[1]}
    BY <1>1, <1>2, <2>1, AheadOfLeaver DEF Ahead
  <2>3. queue[1] # r
    BY <2>1
  <2>4. queue[1] \in Ahead(r)
    <3>1. PICK k \in 1..Len(queue) : queue[k] = r
      BY <1>2
    <3>2. 1 < k
      BY <1>2, <2>3, <3>1
    <3> QED
      BY <1>2, <3>1, <3>2 DEF Ahead, AheadIn, Elements
  <2> QED
    BY <2>1, <2>2, <2>4 DEF Overtaken
<1>5. CASE GiveUp(q)
  <2>1. /\ Querying' = Querying /\ queue' \in Seq(Request)
        /\ \E k \in 1..Len(queue) : queue[k] = q /\ Without(queue, k, queue')
    BY <1>5, Leaves
  <2>2. Ahead(r)' \subseteq Ahead(r)
    BY <1>1, <2>1, AheadOfLeaver DEF Ahead
  <2> QED
    BY <2>1, <2>2 DEF Overtaken
<1> QED
  BY <1>3, <1>4, <1>5

(* The queue of the pool is fair, for any requests and any pool size. *)
THEOREM QueueIsFair == Spec => FirstComeFirstServed
<1>1. ASSUME Books, Types, [Next]_vars, NEW r \in Request, r \in Waiting, r \in Waiting'
      PROVE  ~Overtaken(r)
  <2>1. CASE queue' = queue /\ stage' = stage
    BY <1>1, <2>1, SameQueue DEF Querying
  <2>2. CASE ClosePool
    BY <1>1, <2>2 DEF ClosePool, Waiting, Types
  <2>3. CASE \E q \in Request \cup Scrape : Accept(q) \/ Finish(q)
    <3>1. queue' = queue /\ Querying' = Querying
      BY <1>1, <2>3 DEF Accept, Finish, Move, Querying, Types
    <3> QED
      BY <1>1, <3>1, SameQueue
  <2>4. CASE \E q \in Request : Acquire(q) \/ Answer(q) \/ GiveUp(q)
    BY <1>1, <2>4, RequestsQueue
  <2>5. \/ ClosePool
        \/ queue' = queue /\ stage' = stage
        \/ \E q \in Request \cup Scrape : Accept(q) \/ Finish(q)
        \/ \E q \in Request : Acquire(q) \/ Answer(q) \/ GiveUp(q)
    BY <1>1 DEF Next, Main, Boot, InitConfig, InitTracing, RunMigrations, OpenPool, SeedOnBoot,
           InitHTTP, InitAdminHTTP, Build, Fail, Run, RunReturns, Shutdown, CloseListener,
           ShutdownReturns, PoolCloseReturns, StopTracing, Exit, Signal, Expire, Serve, vars
  <2> QED
    BY <2>1, <2>2, <2>3, <2>4, <2>5
<1>2. Books /\ IInv /\ [Next]_vars =>
         [\A r \in Request : r \in Waiting /\ r \in Waiting' => ~Overtaken(r)]_vars
  BY <1>1 DEF IInv
<1> QED
  BY <1>2, BooksInvariance, TeardownInvariance, PTL DEF Spec, FirstComeFirstServed

(* Who waits does so because every connection is at work for another. *)
WaitingIsForWork ==
    \A r \in Waiting : r \notin Querying /\ Cardinality(Querying) = MaxConns

(* Nobody waits beside a connection that is free. *)
THEOREM WaitersHaveWork == Spec => []WaitingIsForWork
<1>1. ASSUME Books, LifecycleAssumption PROVE WaitingIsForWork
  <2> SUFFICES ASSUME NEW r \in Waiting
               PROVE  r \notin Querying /\ Cardinality(Querying) = MaxConns
    BY DEF WaitingIsForWork
  <2>1. queue # <<>> /\ pool # "none"
    BY <1>1 DEF Books, Elements
  <2>2. Cardinality(Querying) \in Nat
    BY <1>1, RequestsFinite DEF Querying
  <2> QED
    BY <1>1, <2>1, <2>2 DEF Books, Querying, Waiting, LifecycleAssumption
<1> QED
  BY <1>1, LifecycleAssumption, BooksInvariance, PTL

(* From the moment the pool begins to close (Pool.Close), nobody waits for *)
(* one of its connections.                                                 *)
ClosedToWaiters == pool # "open" => queue = <<>>

(* Nor does a statement start any more: Pool.Close, the cleanup that the   *)
(* servers' shutdown leaves to the end, waits for a set that only shrinks. *)
PoolOnlyDrains == [][(pool = "closing" \/ pool = "closed") => Querying' \subseteq Querying]_vars

(* Nobody joins the queue of a pool that has begun to close. *)
THEOREM ClosingEmptiesQueue == Spec => []ClosedToWaiters
<1>1. Init => ClosedToWaiters
  BY DEF Init, ClosedToWaiters
<1>2. ASSUME ClosedToWaiters, [Next]_vars, NEW r \in Request, Acquire(r) \/ Answer(r) \/ GiveUp(r),
             pool # "open"
      PROVE  queue' = <<>>
  BY <1>2 DEF ClosedToWaiters, Acquire, Answer, GiveUp
<1>3. ClosedToWaiters /\ Books /\ [Next]_vars => ClosedToWaiters'
  <2> SUFFICES ASSUME ClosedToWaiters, Books, [Next]_vars PROVE ClosedToWaiters'
    OBVIOUS
  <2>1. CASE UNCHANGED <<pool, queue>>
    BY <2>1 DEF ClosedToWaiters
  <2>2. CASE OpenPool \/ ClosePool
    BY <2>2 DEF OpenPool, Fail, ClosePool, ClosedToWaiters
  <2>3. CASE PoolCloseReturns
    BY <2>3 DEF PoolCloseReturns, ClosedToWaiters
  <2>4. CASE \E r \in Request : Acquire(r) \/ Answer(r) \/ GiveUp(r)
    <3>1. pool' = pool
      BY <2>4 DEF Acquire, Answer, GiveUp, SameProcess
    <3> QED
      BY <1>2, <2>4, <3>1 DEF ClosedToWaiters
  <2>5. \/ UNCHANGED <<pool, queue>>
        \/ OpenPool \/ ClosePool \/ PoolCloseReturns
        \/ \E r \in Request : Acquire(r) \/ Answer(r) \/ GiveUp(r)
    BY DEF Next, Main, Boot, InitConfig, InitTracing, RunMigrations, SeedOnBoot, InitHTTP,
           InitAdminHTTP, Build, Fail, Run, RunReturns, Shutdown, CloseListener,
           ShutdownReturns, StopTracing, Exit, Signal, Expire, Serve, Accept, Finish,
           SameProcess, vars
  <2> QED
    BY <2>1, <2>2, <2>3, <2>4, <2>5
<1> QED
  BY <1>1, <1>3, BooksInvariance, PTL DEF Spec

(* So the statements that Pool.Close waits for are never joined by others. *)
THEOREM PoolNeverRefills == Spec => PoolOnlyDrains
<1>1. ASSUME ClosedToWaiters, Types, [Next]_vars, pool = "closing" \/ pool = "closed"
      PROVE  Querying' \subseteq Querying
  <2>1. pool # "open" /\ queue = <<>>
    BY <1>1 DEF ClosedToWaiters
  <2>2. CASE stage' = stage
    BY <2>2 DEF Querying
  <2>3. CASE \E r \in Request \cup Scrape : Accept(r) \/ Finish(r)
    BY <1>1, <2>3 DEF Accept, Finish, Move, Querying, Types
  <2>4. CASE \E r \in Request : Acquire(r) \/ Answer(r) \/ GiveUp(r)
    BY <1>1, <2>1, <2>4 DEF Acquire, Answer, GiveUp, Move, Querying, Types
  <2>5. \/ stage' = stage
        \/ \E r \in Request \cup Scrape : Accept(r) \/ Finish(r)
        \/ \E r \in Request : Acquire(r) \/ Answer(r) \/ GiveUp(r)
    BY <1>1, <2>1 DEF Next, Main, Boot, InitConfig, InitTracing, RunMigrations, OpenPool,
           SeedOnBoot, InitHTTP, InitAdminHTTP, Build, Fail, Run, RunReturns, Shutdown,
           CloseListener, ShutdownReturns, ClosePool, PoolCloseReturns, StopTracing, Exit,
           Signal, Expire, Serve, vars
  <2> QED
    BY <2>2, <2>3, <2>4, <2>5
<1>2. ClosedToWaiters /\ IInv /\ [Next]_vars =>
         [(pool = "closing" \/ pool = "closed") => Querying' \subseteq Querying]_vars
  BY <1>1 DEF IInv
<1> QED
  BY <1>2, ClosingEmptiesQueue, TeardownInvariance, PTL DEF Spec, PoolOnlyDrains

(***************************************************************************)
(* The end of the process: what lies under StopsWhenTold and               *)
(* FailureStopsAll.                                                        *)
(***************************************************************************)
(* How many steps the main goroutine takes at most before it exits. *)
Unclosed(s) == IF server[s] = "closed" THEN 0 ELSE 1
ToRelease == IF pool \in {"closing", "closed"} THEN 0 ELSE 1
Left ==
    CASE main = "config" -> 16
      [] main = "tracing" -> 15
      [] main = "migrate" -> 14
      [] main = "pool" -> 13
      [] main = "seed" -> 12
      [] main = "http" -> 11
      [] main = "admin" -> 10
      [] main = "run" -> 9
      [] main = "shutdown" -> 1 + (Len(cleanups) - ran) + Unclosed("http") + Unclosed("admin")
                                + ToRelease
      [] OTHER -> 0

(* The main goroutine never does a thing twice, and nothing that servers,  *)
(* clients or signals do gives it more to do.                              *)
MainRunsDown == [][Left' <= Left /\ (Main => Left' < Left)]_vars

(* What is left of a shutdown, part by part. *)
LEMMA LeftParts ==
    ASSUME IInv, Books
    PROVE  /\ Unclosed("http") \in 0..1 /\ Unclosed("admin") \in 0..1 /\ ToRelease \in 0..1
           /\ Len(cleanups) - ran \in Nat
           /\ main \in {"run", "shutdown"} => Len(cleanups) - ran \in 0..4
<1>1. Len(cleanups) \in Nat /\ ran \in 0..Len(cleanups)
  BY DEF IInv, Registered, Books
<1>2. main \in {"run", "shutdown"} => Len(cleanups) \in 0..4
  BY DEF IInv, Registered, Base, Depth
<1>3. Len(cleanups) - ran \in Nat /\ Len(cleanups) - ran <= Len(cleanups)
  BY <1>1
<1>4. Unclosed("http") \in 0..1 /\ Unclosed("admin") \in 0..1 /\ ToRelease \in 0..1
  BY DEF Unclosed, ToRelease
<1>5. ASSUME main \in {"run", "shutdown"} PROVE Len(cleanups) - ran \in 0..4
  <2>1. PICK n \in 0..4 : n = Len(cleanups)
    BY <1>2, <1>5
  <2>2. PICK k \in 0..n : k = ran
    BY <1>1, <2>1
  <2>3. n - k \in 0..4
    OBVIOUS
  <2> QED
    BY <2>1, <2>2, <2>3
<1> QED
  BY <1>3, <1>4, <1>5

(* The measure is a natural number, and in a shutdown it has these parts. *)
LeftBounds ==
    /\ Left \in Nat
    /\ main \notin {"shutdown", "exited"} => Left >= 9
    /\ main = "shutdown" =>
          /\ Left = 1 + (Len(cleanups) - ran) + Unclosed("http") + Unclosed("admin") + ToRelease
          /\ Left \in 1..8
    /\ main = "exited" => Left = 0

(* The measure keeps to its bounds. *)
LEMMA LeftTyped == ASSUME IInv, Books PROVE LeftBounds
<1>1. main \in Phases
  BY DEF IInv, Types
<1>2. CASE main = "shutdown"
  <2>1. Left = 1 + (Len(cleanups) - ran) + Unclosed("http") + Unclosed("admin") + ToRelease
    BY <1>2 DEF Left
  <2>2. Left \in 1..8
    BY <1>2, <2>1, LeftParts
  <2> QED
    BY <1>2, <2>1, <2>2 DEF LeftBounds
<1>3. CASE main # "shutdown"
  BY <1>1, <1>3 DEF Left, Phases, LeftBounds
<1> QED
  BY <1>2, <1>3

(* The phases of Init follow each other. *)
LEMMA BootDown == ASSUME LeftBounds, LeftBounds', Boot PROVE Left' < Left
<1>1. \/ main' = "exited" /\ main \notin {"run", "shutdown", "exited"}
      \/ main = "config" /\ main' = "tracing"
      \/ main = "tracing" /\ main' = "migrate"
      \/ main = "migrate" /\ main' = "pool"
      \/ main = "pool" /\ main' = "seed"
      \/ main = "seed" /\ main' = "http"
      \/ main = "http" /\ main' = "admin"
      \/ main = "admin" /\ main' = "run"
  BY DEF Boot, InitConfig, InitTracing, RunMigrations, OpenPool, SeedOnBoot, InitHTTP,
         InitAdminHTTP, Fail
<1>2. CASE main' = "exited" /\ main \notin {"run", "shutdown", "exited"}
  <2>1. Left >= 9 /\ Left \in Nat
    BY <1>2 DEF LeftBounds
  <2>2. Left' = 0
    BY <1>2 DEF LeftBounds
  <2> QED
    BY <2>1, <2>2
<1>3. CASE main' # "exited"
  BY <1>1, <1>3 DEF Left
<1> QED
  BY <1>1, <1>2, <1>3

(* Run returns once. *)
LEMMA RunDown == ASSUME LeftBounds, LeftBounds', Run PROVE Left' < Left
<1>1. main = "run" /\ main' = "shutdown"
  BY DEF Run, RunReturns
<1>2. Left \in Nat /\ Left >= 9
  BY <1>1 DEF LeftBounds
<1>3. Left' \in 1..8
  BY <1>1 DEF LeftBounds
<1> QED
  BY <1>2, <1>3

(* Every step of Shutdown closes, returns or exits, once each. *)
LEMMA ShutdownDown == ASSUME IInv, Books, LeftBounds, LeftBounds', Shutdown PROVE Left' < Left
<1>1. main = "shutdown" /\ ran \in Nat /\ Len(cleanups) \in Nat /\ cleanups' = cleanups
  BY DEF Shutdown, CloseListener, ShutdownReturns, ClosePool, PoolCloseReturns, StopTracing,
         Exit, Running, IInv, Types, Registered
<1>2. /\ Left = 1 + (Len(cleanups) - ran) + Unclosed("http") + Unclosed("admin") + ToRelease
      /\ Left \in 1..8
      /\ Unclosed("http") \in 0..1 /\ Unclosed("admin") \in 0..1 /\ ToRelease \in 0..1
  BY <1>1, LeftParts DEF LeftBounds
<1>3. CASE Exit
  <2>1. Left' = 0
    BY <1>3 DEF Exit, LeftBounds
  <2> QED
    BY <1>2, <2>1
<1>4. CASE ~Exit
  <2>1. main' = "shutdown"
    BY <1>1, <1>4 DEF Shutdown, CloseListener, ShutdownReturns, ClosePool, PoolCloseReturns,
                      StopTracing
  <2>2. Left' = 1 + (Len(cleanups) - ran') + Unclosed("http")' + Unclosed("admin")' + ToRelease'
    BY <1>1, <2>1 DEF LeftBounds
  <2>3. CASE \E s \in Servers : CloseListener(s)
    <3>1. PICK s \in Servers : CloseListener(s)
      BY <2>3
    <3>2. /\ server[s] # "closed" /\ server' = [server EXCEPT ![s] = "closed"]
          /\ ran' = ran /\ pool' = pool
      BY <3>1 DEF CloseListener
    <3>3. ToRelease' = ToRelease
      BY <3>2 DEF ToRelease
    <3>4. \/ /\ Unclosed("http") = 1 /\ Unclosed("http")' = 0
             /\ Unclosed("admin")' = Unclosed("admin")
          \/ /\ Unclosed("admin") = 1 /\ Unclosed("admin")' = 0
             /\ Unclosed("http")' = Unclosed("http")
      BY <3>2 DEF Unclosed, Servers, IInv, Types
    <3> QED
      BY <1>1, <1>2, <2>2, <3>2, <3>3, <3>4
  <2>4. CASE ClosePool
    <3>1. ran' = ran /\ server' = server /\ pool = "open" /\ pool' = "closing"
      BY <2>4 DEF ClosePool
    <3>2. ToRelease = 1 /\ ToRelease' = 0
      BY <3>1 DEF ToRelease
    <3>3. Unclosed("http")' = Unclosed("http") /\ Unclosed("admin")' = Unclosed("admin")
      BY <3>1 DEF Unclosed
    <3> QED
      BY <1>1, <1>2, <2>2, <3>1, <3>2, <3>3
  <2>5. CASE PoolCloseReturns \/ StopTracing \/ \E s \in Servers : ShutdownReturns(s)
    <3>1. /\ ran' = ran + 1 /\ server' = server
          /\ pool' = pool \/ (pool = "closing" /\ pool' = "closed")
      BY <2>5 DEF PoolCloseReturns, StopTracing, ShutdownReturns
    <3>2. ToRelease' = ToRelease
      BY <3>1 DEF ToRelease
    <3>3. Unclosed("http")' = Unclosed("http") /\ Unclosed("admin")' = Unclosed("admin")
      BY <3>1 DEF Unclosed
    <3> QED
      BY <1>1, <1>2, <2>2, <3>1, <3>2, <3>3
  <2> QED
    BY <1>4, <2>3, <2>4, <2>5 DEF Shutdown
<1> QED
  BY <1>3, <1>4

(* Nothing that others do gives the main goroutine more to do. *)
LEMMA OthersLeave ==
    ASSUME IInv, Books, [Next]_vars, ~Main
    PROVE  Left' = Left
<1>1. /\ UNCHANGED <<main, cleanups, ran, pool>>
      /\ \A s \in Servers : server'[s] = "closed" <=> server[s] = "closed"
  BY DEF Next, Signal, Expire, Serve, Accept, Finish, Acquire, Answer, GiveUp, SameProcess, vars,
         IInv, Types
<1>2. Unclosed("http")' = Unclosed("http") /\ Unclosed("admin")' = Unclosed("admin")
  BY <1>1 DEF Unclosed, Servers
<1>3. ToRelease' = ToRelease
  BY <1>1 DEF ToRelease
<1> QED
  BY <1>1, <1>2, <1>3 DEF Left

(* The end of the process comes after a bounded number of its own steps,   *)
(* whatever the servers, the clients and the signals do in between.        *)
THEOREM ProcessRunsDown == Spec => MainRunsDown /\ [](Left \in Nat)
<1>1. ASSUME IInv, Books, LeftBounds, LeftBounds', [Next]_vars
      PROVE  Left' <= Left /\ (Main => Left' < Left)
  <2>1. Left \in Nat /\ Left' \in Nat
    BY <1>1 DEF LeftBounds
  <2>2. CASE Main
    <3>1. Left' < Left
      BY <1>1, <2>2, BootDown, RunDown, ShutdownDown DEF Main
    <3> QED
      BY <2>1, <3>1
  <2>3. CASE ~Main
    BY <1>1, <2>1, <2>3, OthersLeave
  <2> QED
    BY <2>2, <2>3
<1>2. IInv /\ Books /\ LeftBounds /\ LeftBounds' /\ [Next]_vars =>
         [Left' <= Left /\ (Main => Left' < Left)]_vars
  BY <1>1
<1>3. IInv /\ Books => LeftBounds
  BY LeftTyped
<1>4. LeftBounds => Left \in Nat
  BY DEF LeftBounds
<1> QED
  BY <1>2, <1>3, <1>4, BooksInvariance, TeardownInvariance, PTL DEF Spec, MainRunsDown

(* What the main goroutine does next waits for nobody. *)
MainReady ==
    \/ main \in {"config", "tracing", "migrate", "pool", "seed", "http", "admin"}
    \/ main = "run" /\ (signalled \/ \E s \in Servers : server[s] = "failed")
    \/ \E s \in Servers : Running(s) /\ (server[s] # "closed" \/ Drained(s) \/ expired)
    \/ Running("pool") /\ (pool = "open" \/ (pool = "closing" /\ idle = MaxConns))
    \/ Running("tracing")
    \/ main = "shutdown" /\ ran = Len(cleanups)

(* A process that has been told to stop, or has lost a server, can go on   *)
(* to its end, or waits for two things only: the deadline, which fires by  *)
(* itself, and statements that the database has still to answer.           *)
StopIsNeverStuck ==
    Alive /\ (signalled \/ \E s \in Servers : server[s] = "failed") =>
        \/ MainReady
        \/ main = "shutdown" /\ ~expired
        \/ pool = "closing" /\ Querying # {}

(* In a shutdown some cleanup is running, known from the count, or all have run. *)
LEMMA NextCleanup ==
    ASSUME IInv, Books, main = "shutdown"
    PROVE  \/ \E s \in Servers : Running(s)
           \/ Running("pool") /\ ran = 2
           \/ Running("tracing")
           \/ ran = Len(cleanups)
<1>1. /\ Len(cleanups) = Base + 3 /\ Base \in 0..1 /\ ran \in 0..(Base + 3)
      /\ cleanups[Base + 1] = "pool" /\ cleanups[Base + 2] = "http"
      /\ cleanups[Base + 3] = "admin" /\ (Base = 1 => cleanups[1] = "tracing")
  <2>1. Len(cleanups) = Base + 3
    BY DEF IInv, Registered, Depth
  <2>2. Base \in 0..1 /\ (Base = 1 => tracer # "off")
    BY DEF Base
  <2>3. ran \in 0..(Base + 3)
    BY <2>1 DEF Books
  <2> QED
    BY <2>1, <2>2, <2>3 DEF IInv, Registered
<1>2. CASE ran = 0
  BY <1>1, <1>2 DEF Running, Current, Servers
<1>3. CASE ran = 1
  <2>1. Len(cleanups) - ran = Base + 2
    BY <1>1, <1>3
  <2> QED
    BY <1>1, <1>3, <2>1 DEF Running, Current, Servers
<1>4. CASE ran = 2
  <2>1. Len(cleanups) - ran = Base + 1
    BY <1>1, <1>4
  <2> QED
    BY <1>1, <1>4, <2>1 DEF Running, Current
<1>5. CASE ran = 3
  <2>1. Base = 0 => ran = Len(cleanups)
    BY <1>1, <1>5
  <2>2. Base = 1 => ran < Len(cleanups) /\ Len(cleanups) - ran = 1
    BY <1>1, <1>5
  <2> QED
    BY <1>1, <2>1, <2>2 DEF Running, Current
<1>6. CASE ran = 4
  BY <1>1, <1>6
<1> QED
  BY <1>1, <1>2, <1>3, <1>4, <1>5, <1>6

(* The way to the exit is always open: with the measure of MainRunsDown,   *)
(* the deadline and the database decide when it ends, never another        *)
(* goroutine that waits for this one.                                      *)
THEOREM StopGetsThrough == Spec => []StopIsNeverStuck
<1>1. ASSUME IInv, Books, LifecycleAssumption, main = "shutdown", expired,
             pool # "closing" \/ Querying = {}
      PROVE  MainReady
  <2>1. CASE \E s \in Servers : Running(s)
    BY <1>1, <2>1 DEF MainReady
  <2>2. CASE Running("pool") /\ ran = 2
    <3>1. pool \in {"open", "closing"}
      BY <1>1, <2>2 DEF IInv, Types, Built, Released
    <3>2. CASE pool = "closing"
      <4>1. Cardinality(Querying) = 0 /\ idle \in Nat /\ idle + Cardinality(Querying) = MaxConns
        BY <1>1, <3>2, FS_EmptySet DEF Books
      <4>2. idle = MaxConns
        BY <4>1
      <4> QED
        BY <2>2, <3>2, <4>2 DEF MainReady
    <3> QED
      BY <2>2, <3>1, <3>2 DEF MainReady
  <2>3. CASE Running("tracing") \/ ran = Len(cleanups)
    BY <1>1, <2>3 DEF MainReady
  <2> QED
    BY <1>1, <2>1, <2>2, <2>3, NextCleanup
<1>2. ASSUME IInv, main # "shutdown", Alive, signalled \/ \E s \in Servers : server[s] = "failed"
      PROVE  MainReady
  BY <1>2 DEF IInv, Types, Phases, Alive, MainReady
<1>3. IInv /\ Books /\ LifecycleAssumption => StopIsNeverStuck
  <2>1. IInv => expired \in BOOLEAN
    BY DEF IInv, Types
  <2> QED
    BY <1>1, <1>2, <2>1 DEF StopIsNeverStuck
<1> QED
  BY <1>3, LifecycleAssumption, BooksInvariance, TeardownInvariance, PTL
=============================================================================
