----------------------------- MODULE Lifecycle -----------------------------
(***************************************************************************)
(* One process of cmd/api, from main to exit: the phases of Init, the two  *)
(* HTTP servers of Run, and Shutdown, which runs the registered cleanups   *)
(* last to first under one deadline.  Requests run concurrently with all   *)
(* of it and share a connection pool that hands its connections to waiters *)
(* in the order they came.                                                 *)
(*                                                                         *)
(* Two things the code leaves open decide how it ends.  Server.Shutdown    *)
(* gives up when the deadline passes; Pool.Close takes no context and      *)
(* waits for every connection.  And an Init that fails calls os.Exit: the  *)
(* cleanups registered so far do not run.                                  *)
(***************************************************************************)
EXTENDS Naturals, FiniteSets, SequencesExt

CONSTANTS
    Request,    \* requests to the public server
    Scrape,     \* requests to the admin server; they use no connection
    MaxConns    \* the size of the pool

ASSUME LifecycleAssumption ==
    /\ Request \cap Scrape = {}
    /\ IsFiniteSet(Request)
    /\ MaxConns \in Nat \ {0}

VARIABLES
    main,       \* the phase the main goroutine is in
    code,       \* the exit code it is going to use
    signalled,  \* SIGTERM or interrupt received: the context of Init and Run is done
    expired,    \* the deadline of the shutdown context has passed
    cleanups,   \* App.cleanups, in the order of registration
    ran,        \* how many of them Shutdown has run
    tracer,     \* "off", "on" or "stopped"
    server,     \* server[s]: "none", "built", "listening", "failed" or "closed"
    pool,       \* "none", "open", "closing" or "closed"
    idle,       \* connections that no request holds
    queue,      \* requests that wait for a connection, first come first
    stage       \* stage[r]: "none", "handling", "waiting", "querying" or "done"

vars == <<main, code, signalled, expired, cleanups, ran, tracer, server, pool, idle,
          queue, stage>>

Servers == {"http", "admin"}
ServerOf(r) == IF r \in Scrape THEN "admin" ELSE "http"
Active(r) == stage[r] \in {"handling", "waiting", "querying"}
Drained(s) == \A r \in Request \cup Scrape : ServerOf(r) = s => ~Active(r)

(* Goroutines run until the process exits. *)
Alive == main # "exited"

(***************************************************************************)
(* Init.  A phase that fails ends the process.                             *)
(***************************************************************************)
Register(cleanup) == cleanups' = Append(cleanups, cleanup)

FailQuietly == /\ main' = "exited"
               /\ UNCHANGED <<code, signalled, expired, cleanups, ran, tracer, server,
                              pool, idle, queue, stage>>
Fail == /\ main' = "exited" /\ code' = 1
        /\ UNCHANGED <<signalled, expired, cleanups, ran, tracer, server, pool, idle,
                       queue, stage>>

InitConfig ==
    /\ main = "config"
    /\ \/ /\ main' = "tracing"
          /\ UNCHANGED <<code, signalled, expired, cleanups, ran, tracer, server, pool,
                         idle, queue, stage>>
       \/ Fail

(* Tracing may be disabled, and a tracer that cannot start is no failure. *)
InitTracing ==
    /\ main = "tracing" /\ main' = "migrate"
    /\ \/ tracer' = "on" /\ Register("tracing")
       \/ UNCHANGED <<tracer, cleanups>>
    /\ UNCHANGED <<code, signalled, expired, ran, server, pool, idle, queue, stage>>

(* The migrator takes no context: a signal does not stop it. *)
RunMigrations ==
    /\ main = "migrate"
    /\ \/ /\ main' = "pool"
          /\ UNCHANGED <<code, signalled, expired, cleanups, ran, tracer, server, pool,
                         idle, queue, stage>>
       \/ Fail

(* The ping fails when the context is done. *)
OpenPool ==
    /\ main = "pool"
    /\ \/ /\ ~signalled
          /\ main' = "seed" /\ pool' = "open" /\ idle' = MaxConns
          /\ Register("pool")
          /\ UNCHANGED <<code, signalled, expired, ran, tracer, server, queue, stage>>
       \/ Fail

SeedOnBoot ==
    /\ main = "seed"
    /\ \/ /\ main' = "http"
          /\ UNCHANGED <<code, signalled, expired, cleanups, ran, tracer, server, pool,
                         idle, queue, stage>>
       \/ Fail

Build(s) == /\ server' = [server EXCEPT ![s] = "built"]
            /\ Register(s)
            /\ UNCHANGED <<code, signalled, expired, ran, tracer, pool, idle, queue, stage>>

InitHTTP == main = "http" /\ main' = "admin" /\ Build("http")
InitAdminHTTP == main = "admin" /\ main' = "run" /\ Build("admin")

(***************************************************************************)
(* Run: one goroutine per server, and a select.  When a signal and a       *)
(* failure are both there, either case may be taken.                       *)
(***************************************************************************)
Serve(s) ==
    /\ main \in {"run", "shutdown"}
    /\ \/ server[s] = "built" /\ server' = [server EXCEPT ![s] = "listening"]
       \/ server[s] \in {"built", "listening"} /\ server' = [server EXCEPT ![s] = "failed"]
    /\ UNCHANGED <<main, code, signalled, expired, cleanups, ran, tracer, pool, idle,
                   queue, stage>>

Signal ==
    /\ Alive /\ ~signalled /\ signalled' = TRUE
    /\ UNCHANGED <<main, code, expired, cleanups, ran, tracer, server, pool, idle, queue,
                   stage>>

RunReturns(result) ==
    /\ main = "run" /\ main' = "shutdown" /\ code' = result
    /\ UNCHANGED <<signalled, expired, cleanups, ran, tracer, server, pool, idle, queue,
                   stage>>

WaitForSignal == signalled /\ RunReturns(0)
Run == \/ signalled /\ RunReturns(0)
       \/ (\E s \in Servers : server[s] = "failed") /\ RunReturns(1)

(***************************************************************************)
(* Shutdown.                                                               *)
(***************************************************************************)
Oldest == cleanups[ran + 1]
Current == cleanups[Len(cleanups) - ran]

Running(cleanup) == main = "shutdown" /\ ran < Len(cleanups) /\ Current = cleanup

NoDeadline == FALSE /\ UNCHANGED vars
Expire ==
    /\ main = "shutdown" /\ ~expired /\ expired' = TRUE
    /\ UNCHANGED <<main, code, signalled, cleanups, ran, tracer, server, pool, idle, queue,
                   stage>>

(* Server.Shutdown closes the listener, then waits for the connections or  *)
(* the deadline.                                                           *)
CloseListener(s) ==
    /\ Running(s) /\ server[s] # "closed"
    /\ server' = [server EXCEPT ![s] = "closed"]
    /\ UNCHANGED <<main, code, signalled, expired, cleanups, ran, tracer, pool, idle, queue,
                   stage>>

ShutdownReturns(s) ==
    /\ Running(s) /\ server[s] = "closed"
    /\ Drained(s) \/ expired
    /\ ran' = ran + 1
    /\ UNCHANGED <<main, code, signalled, expired, cleanups, tracer, server, pool, idle,
                   queue, stage>>

(* Pool.Close turns the waiters away, then waits for every connection. *)
ClosePool ==
    /\ Running("pool") /\ pool = "open" /\ pool' = "closing"
    /\ queue' = <<>>
    /\ stage' = [r \in DOMAIN stage |-> IF stage[r] = "waiting" THEN "handling" ELSE stage[r]]
    /\ UNCHANGED <<main, code, signalled, expired, cleanups, ran, tracer, server, idle>>

PoolCloseReturns ==
    /\ Running("pool") /\ pool = "closing" /\ idle = MaxConns
    /\ pool' = "closed" /\ ran' = ran + 1
    /\ UNCHANGED <<main, code, signalled, expired, cleanups, tracer, server, idle, queue,
                   stage>>

StopTracing ==
    /\ Running("tracing") /\ tracer' = "stopped" /\ ran' = ran + 1
    /\ UNCHANGED <<main, code, signalled, expired, cleanups, server, pool, idle, queue, stage>>

ExitEarly ==
    /\ main = "shutdown" /\ ran + 1 >= Len(cleanups) /\ main' = "exited"
    /\ UNCHANGED <<code, signalled, expired, cleanups, ran, tracer, server, pool, idle,
                   queue, stage>>
Exit ==
    /\ main = "shutdown" /\ ran = Len(cleanups) /\ main' = "exited"
    /\ UNCHANGED <<code, signalled, expired, cleanups, ran, tracer, server, pool, idle,
                   queue, stage>>

(***************************************************************************)
(* Requests.  A handler sends its statements one at a time and holds a     *)
(* connection for each; between two statements, and while it writes to a   *)
(* slow client, it holds none.  A statement on a closed pool fails at once.*)
(***************************************************************************)
Move(r, to) == stage' = [stage EXCEPT ![r] = to]
SameProcess == UNCHANGED <<main, code, signalled, expired, cleanups, ran, tracer, server, pool>>

Accept(r) ==
    /\ Alive /\ stage[r] = "none" /\ server[ServerOf(r)] = "listening"
    /\ Move(r, "handling")
    /\ SameProcess /\ UNCHANGED <<idle, queue>>

Acquire(r) ==
    /\ Alive /\ stage[r] = "handling" /\ pool = "open"
    /\ \/ /\ idle > 0 /\ queue = <<>>
          /\ Move(r, "querying") /\ idle' = idle - 1 /\ UNCHANGED queue
       \/ /\ idle = 0 \/ queue # <<>>
          /\ Move(r, "waiting") /\ queue' = Append(queue, r) /\ UNCHANGED idle
    /\ SameProcess

(* The statement ends: the connection goes to the first waiter. *)
AnswerTwice(r) ==
    /\ Alive /\ stage[r] = "querying"
    /\ Move(r, "handling") /\ idle' = idle + 2 /\ UNCHANGED queue
    /\ SameProcess
AnswerIdly(r) ==
    /\ Alive /\ stage[r] = "querying"
    /\ Move(r, "handling") /\ idle' = idle + 1 /\ UNCHANGED queue
    /\ SameProcess
Answer(r) ==
    /\ Alive /\ stage[r] = "querying"
    /\ \/ /\ queue = <<>>
          /\ Move(r, "handling") /\ idle' = idle + 1 /\ UNCHANGED queue
       \/ /\ queue # <<>>
          /\ stage' = [stage EXCEPT ![r] = "handling", ![Head(queue)] = "querying"]
          /\ queue' = Tail(queue) /\ UNCHANGED idle
    /\ SameProcess

(* The client goes away: its request stops waiting. *)
GiveUp(r) ==
    /\ Alive /\ stage[r] = "waiting"
    /\ \E k \in DOMAIN queue : queue[k] = r /\ queue' = RemoveAt(queue, k)
    /\ Move(r, "handling") /\ UNCHANGED idle
    /\ SameProcess

Finish(r) ==
    /\ Alive /\ stage[r] = "handling"
    /\ Move(r, "done")
    /\ SameProcess /\ UNCHANGED <<idle, queue>>

(***************************************************************************)
(* The specification.                                                      *)
(***************************************************************************)
Init ==
    /\ main = "config" /\ code = 0
    /\ signalled = FALSE /\ expired = FALSE
    /\ cleanups = <<>> /\ ran = 0
    /\ tracer = "off" /\ pool = "none" /\ idle = 0 /\ queue = <<>>
    /\ server = [s \in Servers |-> "none"]
    /\ stage = [r \in Request \cup Scrape |-> "none"]

Boot == \/ InitConfig \/ InitTracing \/ RunMigrations \/ OpenPool \/ SeedOnBoot
        \/ InitHTTP \/ InitAdminHTTP
Shutdown == \/ \E s \in Servers : CloseListener(s) \/ ShutdownReturns(s)
            \/ ClosePool \/ PoolCloseReturns \/ StopTracing \/ Exit
Main == Boot \/ Run \/ Shutdown

Next ==
    \/ Main
    \/ Signal
    \/ Expire
    \/ \E s \in Servers : Serve(s)
    \/ \E r \in Request \cup Scrape : Accept(r) \/ Finish(r)
    \/ \E r \in Request : Acquire(r) \/ Answer(r) \/ GiveUp(r)

(* The main goroutine runs, its phases of Init to an end, and the timer    *)
(* fires.  Nothing is assumed of clients, nor of the statements of         *)
(* requests: none has a deadline.                                          *)
Fairness == WF_vars(Main) /\ WF_vars(Expire)

Spec == Init /\ [][Next]_vars /\ Fairness

(* The database answers every statement of a request that it has accepted. *)
(* Properties that need this say so.                                       *)
DatabaseAnswers == \A r \in Request : WF_vars(Answer(r))

(***************************************************************************)
(* Invariants.                                                             *)
(***************************************************************************)
(* Every variable keeps its type, and the pool's books balance: a          *)
(* connection is held by one statement or idle, exactly the requests in    *)
(* the queue wait, each once, and none of them while a connection is idle. *)
PoolBalanced ==
    /\ pool # "none" => idle + Cardinality({r \in Request : stage[r] = "querying"}) = MaxConns
    /\ {queue[k] : k \in DOMAIN queue} = {r \in Request : stage[r] = "waiting"}
    /\ Len(queue) = Cardinality({r \in Request : stage[r] = "waiting"})
    /\ queue # <<>> => idle = 0

TypeOK ==
    /\ main \in {"config", "tracing", "migrate", "pool", "seed", "http", "admin", "run",
                 "shutdown", "exited"}
    /\ code \in {0, 1}
    /\ signalled \in BOOLEAN /\ expired \in BOOLEAN
    /\ cleanups \in Seq({"tracing", "pool"} \cup Servers)
    /\ ran \in 0..Len(cleanups)
    /\ tracer \in {"off", "on", "stopped"}
    /\ server \in [Servers -> {"none", "built", "listening", "failed", "closed"}]
    /\ pool \in {"none", "open", "closing", "closed"}
    /\ idle \in 0..MaxConns
    /\ queue \in Seq(Request)
    /\ stage \in [Request \cup Scrape -> {"none", "handling", "waiting", "querying", "done"}]
    /\ PoolBalanced

(* Until the deadline passes, no request is cut off: the pool does not     *)
(* begin to close, and the process does not exit, while one is active.     *)
GracefulOrExpired ==
    (pool \in {"closing", "closed"} \/ main = "exited") /\ ~expired =>
        \A r \in Request \cup Scrape : ~Active(r)

(* A process that got as far as building its servers exits with nothing    *)
(* left open, and exits with 0 only when it was told to stop.  One whose   *)
(* Init failed runs no cleanup, so it must not have served anybody whom    *)
(* the cleanups would wait for, and it never looks like a success, not     *)
(* even when a signal made it fail.                                        *)
ExitCleansUp ==
    main = "exited" =>
        /\ code = 0 => signalled
        /\ server["http"] = "none" =>
              code = 1 /\ \A r \in Request \cup Scrape : stage[r] = "none"
        /\ server["http"] # "none" =>
              /\ \A s \in Servers : server[s] = "closed"
              /\ pool = "closed"
              /\ tracer # "on"

(***************************************************************************)
(* Liveness.                                                               *)
(***************************************************************************)
(* Pool.Close waits for a statement that the database has not answered.    *)
HeldUp == main = "shutdown" /\ pool = "closing" /\ \E r \in Request : stage[r] = "querying"

(* A signal ends the process, whatever its clients do and whichever phase  *)
(* of Init it interrupts.  Pool.Close takes no context, so one thing can   *)
(* hold the process up past its deadline, and nothing else: a statement    *)
(* the database does not answer.                                           *)
StopsWhenTold ==
    /\ signalled ~> (~Alive \/ HeldUp)
    /\ DatabaseAnswers => (signalled ~> ~Alive)

(* When one of the two servers fails the process ends: it never lingers    *)
(* serving only the other one, though it may be held up.                   *)
AServerFailed == \E s \in Servers : server[s] = "failed"
FailureStopsAll ==
    /\ AServerFailed ~> (~Alive \/ HeldUp)
    /\ DatabaseAnswers => (AServerFailed ~> ~Alive)

(* While the database answers, a request that waits for a connection gets  *)
(* one or is turned away, also when the pool closes or other clients give  *)
(* up.                                                                     *)
WaitersServed ==
    DatabaseAnswers => \A r \in Request : stage[r] = "waiting" ~> stage[r] # "waiting"
=============================================================================
