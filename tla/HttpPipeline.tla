--------------------------- MODULE HttpPipeline ---------------------------
(***************************************************************************)
(* The middleware around the handlers: a request goes down the chain of    *)
(* NewRouter, is answered by the handler or by a middleware that refuses   *)
(* it, and comes up again, unless a panic unwinds the chain instead.  What *)
(* a middleware finds in the context depends on which others are above it. *)
(***************************************************************************)
EXTENDS Integers, FiniteSets, Sequences

CONSTANT Request

VARIABLES
    asked,      \* path and credentials of each request, and whether its parameters parse
    phase,      \* "new", "down", "up", "panic" or "done"
    at,         \* the place in the chain where the request is
    route,      \* the pattern that chi resolved; shared by the whole chain
    sent,       \* the class of the status that the client received
    recorded,   \* recorded[r][m]: what the status recorder of m saw
    log,        \* log[r]: the records written for it
    inFlight,   \* the gauge
    counted     \* the counter, by route and class

vars == <<asked, phase, at, route, sent, recorded, log, inFlight, counted>>

Path == {"/healthz", "/metrics", "/device-profiles", "/elsewhere"}
Credentials == {"none", "wrong", "right"}
Skipped == {"/healthz", "/metrics"}
Pattern == {"/healthz", "/device-profiles"}
Class == {"2xx", "4xx", "5xx"}
Recorder == {"metrics", "accessLog"}

LoggerInside == <<"requestID", "metrics", "recoverer", "logger", "accessLog", "auth", "routing">>
RecovererOutside ==
    <<"requestID", "recoverer", "metrics", "logger", "accessLog", "auth", "routing">>
Chain == <<"requestID", "metrics", "logger", "recoverer", "accessLog", "auth", "routing">>

Position(m) == CHOOSE i \in DOMAIN Chain : Chain[i] = m
IsAbove(m, n) == Position(m) < Position(n)
Down(r, m) == phase[r] = "down" /\ Chain[at[r]] = m
Up(r, m) == phase[r] = "up" /\ at[r] > 0 /\ Chain[at[r]] = m
Unwinding(r, m) == phase[r] = "panic" /\ at[r] > 0 /\ Chain[at[r]] = m

Deeper(r) == at' = [at EXCEPT ![r] = @ + 1] /\ UNCHANGED phase
Back(r, how) == at' = [at EXCEPT ![r] = @ - 1] /\ phase' = [phase EXCEPT ![r] = how]

(* A status goes to the client through the recorders on its way, and each  *)
(* keeps the first it sees.                                                *)
First(old, new) == IF old = "none" THEN new ELSE old
Write(r, class) ==
    /\ sent' = [sent EXCEPT ![r] = First(@, class)]
    /\ recorded' = [recorded EXCEPT ![r] = [m \in Recorder |->
                      IF Position(m) < at[r] THEN First(@[m], class) ELSE @[m]]]
Unwritten == UNCHANGED <<sent, recorded>>

Verified(r) == asked[r].credentials = "right"

(* What the logger of injectLoggerMW carries, and what a middleware below  *)
(* or above it logs with.                                                  *)
LoggerAttributes(r) ==
    {"method"} \cup (IF IsAbove("requestID", "logger") THEN {"request_id"} ELSE {})
               \cup (IF IsAbove("auth", "logger") /\ Verified(r) THEN {"user_id"} ELSE {})
Entry(r, event, level, status, m) ==
    [event |-> event, level |-> level, status |-> status,
     attributes |-> IF IsAbove("logger", m) THEN LoggerAttributes(r) ELSE {}]
Logs(r, event, level, status, m) ==
    log' = [log EXCEPT ![r] = @ \cup {Entry(r, event, level, status, m)}]

(***************************************************************************)
(* On the way down.                                                        *)
(***************************************************************************)
Arrive(r) ==
    /\ phase[r] = "new"
    /\ phase' = [phase EXCEPT ![r] = "down"] /\ at' = [at EXCEPT ![r] = 1]
    /\ \E path \in Path, credentials \in Credentials, binds \in BOOLEAN :
         asked' = [asked EXCEPT ![r] = [path |-> path, credentials |-> credentials,
                                        binds |-> binds]]
    /\ Unwritten /\ UNCHANGED <<route, log, inFlight, counted>>

Enter(r) ==
    /\ \E m \in {"requestID", "logger", "recoverer", "accessLog"} : Down(r, m)
    /\ Deeper(r)
    /\ Unwritten /\ UNCHANGED <<asked, route, log, inFlight, counted>>

EnterMetrics(r) ==
    /\ Down(r, "metrics") /\ Deeper(r) /\ inFlight' = inFlight + 1
    /\ Unwritten /\ UNCHANGED <<asked, route, log, counted>>

AuthGoesOn(r) ==
    /\ Down(r, "auth")
    /\ \/ (asked[r].path \in Skipped \/ Verified(r)) /\ Unwritten
       \/ asked[r].path \notin Skipped /\ ~Verified(r) /\ Write(r, "4xx")
    /\ Deeper(r)
    /\ UNCHANGED <<asked, route, log, inFlight, counted>>
Auth(r) ==
    /\ Down(r, "auth")
    /\ \/ (asked[r].path \in Skipped \/ Verified(r)) /\ Deeper(r) /\ Unwritten
       \/ /\ asked[r].path \notin Skipped /\ ~Verified(r)
          /\ Write(r, "4xx") /\ Back(r, "up")
    /\ UNCHANGED <<asked, route, log, inFlight, counted>>

(* chi finds the handler, or answers 404 itself. *)
NotFound(r) ==
    /\ Down(r, "routing") /\ asked[r].path \notin Pattern
    /\ Write(r, "4xx") /\ Back(r, "up")
    /\ UNCHANGED <<asked, route, log, inFlight, counted>>

Routed(r, path) ==
    /\ Down(r, "routing") /\ asked[r].path = path
    /\ route' = [route EXCEPT ![r] = path]

(* The generated wrapper of an operation parses its parameters, and        *)
(* answers 400 itself when one of them does not.                           *)
RefuseParameters(r) ==
    /\ Routed(r, "/device-profiles") /\ ~asked[r].binds
    /\ Write(r, "4xx") /\ Back(r, "up")
    /\ UNCHANGED <<asked, log, inFlight, counted>>

GetHealth(r) ==
    /\ Routed(r, "/healthz")
    /\ Write(r, "2xx") /\ Back(r, "up")
    /\ UNCHANGED <<asked, log, inFlight, counted>>

(* DomainErrorCtx logs what it answers, refused bodies are not logged.     *)
DomainErrorUnlogged(r) ==
    \E class \in {"4xx", "5xx"} : Write(r, class) /\ UNCHANGED log
DomainError(r) ==
    \/ Write(r, "4xx") /\ Logs(r, "domain", "warn", "none", "routing")
    \/ Write(r, "5xx") /\ Logs(r, "domain", "error", "none", "routing")

(* A handler answers, and may panic before or after. *)
Handle(r) ==
    /\ Routed(r, "/device-profiles") /\ asked[r].binds
    /\ \/ \E class \in {"2xx", "4xx"} : Write(r, class) /\ UNCHANGED log
       \/ DomainError(r)
       \/ Unwritten /\ UNCHANGED log
    /\ \/ Back(r, "up") /\ sent'[r] # "none"
       \/ Back(r, "panic")
    /\ UNCHANGED <<asked, inFlight, counted>>

(***************************************************************************)
(* On the way up.                                                          *)
(***************************************************************************)
Leave(r) ==
    /\ \E m \in {"requestID", "logger", "recoverer", "auth"} : Up(r, m)
    /\ Back(r, "up")
    /\ Unwritten /\ UNCHANGED <<asked, route, log, inFlight, counted>>

LogsDefaultStatus(r) ==
    /\ Up(r, "accessLog") /\ Back(r, "up")
    /\ Logs(r, "http", "info", "2xx", "accessLog")
    /\ Unwritten /\ UNCHANGED <<asked, route, inFlight, counted>>
LeaveAccessLog(r) ==
    /\ Up(r, "accessLog") /\ Back(r, "up")
    /\ Logs(r, "http", "info", First(recorded[r]["accessLog"], "2xx"), "accessLog")
    /\ Unwritten /\ UNCHANGED <<asked, route, inFlight, counted>>

LeaveMetricsTwice(r) ==
    /\ Up(r, "metrics") /\ Back(r, "up")
    /\ inFlight' = inFlight - 2
    /\ counted' = [counted EXCEPT ![<<route[r], First(recorded[r]["metrics"], "2xx")>>] = @ + 1]
    /\ Unwritten /\ UNCHANGED <<asked, route, log>>
LeaveMetrics(r) ==
    /\ Up(r, "metrics") /\ Back(r, "up")
    /\ inFlight' = inFlight - 1
    /\ counted' = [counted EXCEPT ![<<route[r], First(recorded[r]["metrics"], "2xx")>>] = @ + 1]
    /\ Unwritten /\ UNCHANGED <<asked, route, log>>

(***************************************************************************)
(* A panic: only the deferred functions run.                               *)
(***************************************************************************)
RecoverSilently(r) ==
    /\ Unwinding(r, "recoverer") /\ Logs(r, "panic", "error", "none", "recoverer")
    /\ Unwritten /\ Back(r, "up")
    /\ UNCHANGED <<asked, route, inFlight, counted>>
RecoverUnlogged(r) ==
    /\ Unwinding(r, "recoverer") /\ Write(r, "5xx") /\ Back(r, "up")
    /\ UNCHANGED <<asked, route, log, inFlight, counted>>
Recover(r) ==
    /\ Unwinding(r, "recoverer") /\ Logs(r, "panic", "error", "none", "recoverer")
    /\ Write(r, "5xx") /\ Back(r, "up")
    /\ UNCHANGED <<asked, route, inFlight, counted>>

Unwind(r) ==
    /\ \E m \in {"requestID", "metrics", "logger", "accessLog", "auth"} :
         Unwinding(r, m) /\ inFlight' = IF m = "metrics" THEN inFlight - 1 ELSE inFlight
    /\ Back(r, "panic")
    /\ Unwritten /\ UNCHANGED <<asked, route, log, counted>>

(* net/http ends the exchange. *)
Finish(r) ==
    /\ phase[r] \in {"up", "panic"} /\ at[r] = 0
    /\ phase' = [phase EXCEPT ![r] = "done"]
    /\ Unwritten /\ UNCHANGED <<asked, at, route, log, inFlight, counted>>

(***************************************************************************)
(* The specification.  Handlers return: a request that has begun goes on.  *)
(***************************************************************************)
Init ==
    /\ asked = [r \in Request |-> [path |-> "/elsewhere", credentials |-> "none",
                                   binds |-> FALSE]]
    /\ phase = [r \in Request |-> "new"] /\ at = [r \in Request |-> 0]
    /\ route = [r \in Request |-> "unknown"] /\ sent = [r \in Request |-> "none"]
    /\ recorded = [r \in Request |-> [m \in Recorder |-> "none"]]
    /\ log = [r \in Request |-> {}]
    /\ inFlight = 0 /\ counted = [k \in (Pattern \cup {"unknown"}) \X Class |-> 0]

Serve(r) ==
    \/ Enter(r) \/ EnterMetrics(r) \/ Auth(r) \/ NotFound(r)
    \/ RefuseParameters(r) \/ GetHealth(r) \/ Handle(r)
    \/ Leave(r) \/ LeaveAccessLog(r) \/ LeaveMetrics(r)
    \/ Recover(r) \/ Unwind(r) \/ Finish(r)

Next == \E r \in Request : Arrive(r) \/ Serve(r)

Spec == Init /\ [][Next]_vars /\ \A r \in Request : WF_vars(Serve(r))

(***************************************************************************)
(* Properties.                                                             *)
(***************************************************************************)
TypeOK ==
    /\ asked \in [Request -> [path : Path, credentials : Credentials, binds : BOOLEAN]]
    /\ phase \in [Request -> {"new", "down", "up", "panic", "done"}]
    /\ at \in [Request -> 0..Len(Chain)]
    /\ route \in [Request -> Pattern \cup {"unknown"}]
    /\ sent \in [Request -> Class \cup {"none"}]
    /\ recorded \in [Request -> [Recorder -> Class \cup {"none"}]]
    /\ \A r \in Request : \A entry \in log[r] : 
         entry \in [event : {"http", "panic", "domain"}, level : {"info", "warn", "error"},
                   status : Class \cup {"none"},
                   attributes : SUBSET {"method", "request_id", "user_id"}]
    /\ inFlight \in Nat /\ DOMAIN counted = (Pattern \cup {"unknown"}) \X Class

(* The metrics tell what clients experienced: the gauge counts the         *)
(* requests that are inside, and every request that came out is counted    *)
(* once, under the class its client received, panic or not.                *)
BelowMetrics(r) == /\ phase[r] \in {"down", "panic", "up"}
                   /\ IF phase[r] = "down" THEN at[r] > Position("metrics")
                                           ELSE at[r] >= Position("metrics")
PastMetrics(r) == \/ phase[r] = "done"
                  \/ phase[r] \in {"up", "panic"} /\ at[r] < Position("metrics")
MetricsAreTrue ==
    /\ inFlight = Cardinality({r \in Request : BelowMetrics(r)})
    /\ \A p \in Pattern \cup {"unknown"}, class \in Class :
         counted[<<p, class>>] =
            Cardinality({r \in Request : PastMetrics(r) /\ route[r] = p /\ sent[r] = class})

(* No handler runs for a caller who is not verified, apart from the paths  *)
(* that need no credentials; refused requests show in no route either.     *)
OnlyVerified ==
    \A r \in Request : route[r] # "unknown" => asked[r].path \in Skipped \/ Verified(r)

(* Who reads the logs learns what clients experienced: a request that is   *)
(* over has one record of how it went, which is the access log with the    *)
(* status its client received or, instead of it, that of a panic.          *)
Outcomes(r) == {entry \in log[r] : entry.event \in {"http", "panic"}}
LogsTellOutcome ==
    \A r \in Request : phase[r] = "done" =>
       \E entry \in Outcomes(r) :
          Outcomes(r) = {entry} /\ entry.status \in {sent[r], "none"}

(* Every 5xx leaves a record at level Error, and each of these names its   *)
(* request.                                                                *)
FailuresAttributed ==
    \A r \in Request :
       LET errors == {entry \in log[r] : entry.level = "error"} IN
       /\ phase[r] = "done" /\ sent[r] = "5xx" => errors # {}
       /\ \A entry \in errors : "request_id" \in entry.attributes

(* Every request is answered, also when its handler panics before it has   *)
(* written anything.                                                       *)
AllAnswered ==
    \A r \in Request : phase[r] = "down" ~> phase[r] = "done" /\ sent[r] # "none"

(***************************************************************************)
(* What the documentation says and the code does not do.                   *)
(***************************************************************************)
(* "Every HTTP request gets a request-scoped logger carrying: ...          *)
(* user_id (once Basic Auth resolves)"                                     *)
LogsCarryUser ==
    \A r \in Request : \A entry \in log[r] :
       asked[r].path \notin Skipped /\ Verified(r) => "user_id" \in entry.attributes
=============================================================================
