------------------------ MODULE HttpPipelineProofs ------------------------
(***************************************************************************)
(* What metrics and logs say of a request is what its client experienced,  *)
(* and no handler runs for a stranger, for any number of requests.         *)
(***************************************************************************)
EXTENDS HttpPipeline, FiniteSetTheorems, TLAPS

(***************************************************************************)
(* The chain.                                                              *)
(***************************************************************************)
(* The seven places. *)
LEMMA ChainIs ==
    /\ Len(Chain) = 7 /\ DOMAIN Chain = 1..7
    /\ Chain[1] = "requestID" /\ Chain[2] = "metrics" /\ Chain[3] = "logger"
    /\ Chain[4] = "recoverer" /\ Chain[5] = "accessLog" /\ Chain[6] = "auth"
    /\ Chain[7] = "routing"
  BY DEF Chain

(* A middleware is where it says. *)
LEMMA AtPlace ==
    \A i \in 1..7 :
       /\ Chain[i] = "requestID" <=> i = 1
       /\ Chain[i] = "metrics" <=> i = 2
       /\ Chain[i] = "logger" <=> i = 3
       /\ Chain[i] = "recoverer" <=> i = 4
       /\ Chain[i] = "accessLog" <=> i = 5
       /\ Chain[i] = "auth" <=> i = 6
       /\ Chain[i] = "routing" <=> i = 7
<1> SUFFICES ASSUME NEW i \in 1..7
             PROVE  /\ Chain[i] = "requestID" <=> i = 1
                    /\ Chain[i] = "metrics" <=> i = 2
                    /\ Chain[i] = "logger" <=> i = 3
                    /\ Chain[i] = "recoverer" <=> i = 4
                    /\ Chain[i] = "accessLog" <=> i = 5
                    /\ Chain[i] = "auth" <=> i = 6
                    /\ Chain[i] = "routing" <=> i = 7
  OBVIOUS
<1>1. i \in {1, 2, 3, 4, 5, 6, 7}
  OBVIOUS
<1> QED
  BY <1>1, ChainIs

(* The places of the middlewares, as numbers. *)
LEMMA Positions ==
    /\ Position("requestID") = 1 /\ Position("metrics") = 2 /\ Position("logger") = 3
    /\ Position("recoverer") = 4 /\ Position("accessLog") = 5 /\ Position("auth") = 6
    /\ Position("routing") = 7
<1>1. \A m : (\E i \in 1..7 : Chain[i] = m) =>
               Position(m) \in 1..7 /\ Chain[Position(m)] = m
  BY ChainIs DEF Position
<1>2. 1 \in 1..7 /\ 2 \in 1..7 /\ 3 \in 1..7 /\ 4 \in 1..7 /\ 5 \in 1..7 /\ 6 \in 1..7 /\ 7 \in 1..7
  OBVIOUS
<1> QED
  BY <1>1, <1>2, AtPlace

(***************************************************************************)
(* The invariant of one request.                                           *)
(***************************************************************************)
Level == {"info", "warn", "error"}
Event == {"http", "panic", "domain"}
Attributes == SUBSET {"method", "request_id", "user_id"}
Record == [event : Event, level : Level, status : Class \cup {"none"}, attributes : Attributes]
Typed ==
    /\ asked \in [Request -> [path : Path, credentials : Credentials, binds : BOOLEAN]]
    /\ phase \in [Request -> {"new", "down", "up", "panic", "done"}]
    /\ at \in [Request -> 0..7]
    /\ route \in [Request -> Pattern \cup {"unknown"}]
    /\ sent \in [Request -> Class \cup {"none"}]
    /\ recorded \in [Request -> [Recorder -> Class \cup {"none"}]]
    /\ log \in [Request -> SUBSET Record]

(* Where a request can be. *)
Somewhere(r) ==
    /\ phase[r] = "new" => at[r] = 0
    /\ phase[r] = "down" => at[r] \in 1..7
    /\ phase[r] = "up" => at[r] \in 0..6
    /\ phase[r] = "panic" => at[r] \in 4..6
    /\ phase[r] = "done" => at[r] = 0

(* What the recorders saw is what the client got. *)
Untouched(r) ==
    /\ sent[r] = "none" /\ recorded[r]["metrics"] = "none" /\ recorded[r]["accessLog"] = "none"
    /\ log[r] = {} /\ route[r] = "unknown"
Heard(r) ==
    /\ phase[r] \in {"new", "down"} => Untouched(r)
    /\ phase[r] \in {"up", "done"} => sent[r] # "none"
    /\ phase[r] \in {"up", "panic"} /\ at[r] >= 2 => recorded[r]["metrics"] = sent[r]
    /\ phase[r] \in {"up", "panic"} /\ at[r] >= 5 => recorded[r]["accessLog"] = sent[r]

(* Nobody reaches the routing who is not let through. *)
LetThrough(r) ==
    (phase[r] = "down" /\ at[r] = 7) \/ route[r] # "unknown" =>
        asked[r].path \in Skipped \/ Verified(r)

(* The outcome is logged when the request has left the access log or the   *)
(* recoverer, once.                                                        *)
Logged(r) ==
    /\ (phase[r] = "panic" \/ (phase[r] = "up" /\ at[r] >= 5)) => Outcomes(r) = {}
    /\ (phase[r] = "done" \/ (phase[r] = "up" /\ at[r] < 5)) =>
          \E entry \in Outcomes(r) :
             Outcomes(r) = {entry} /\ entry.status \in {sent[r], "none"}
    /\ sent[r] = "5xx" => \E entry \in log[r] : entry.level = "error"
    /\ \A entry \in log[r] : entry.level = "error" => "request_id" \in entry.attributes

One(r) == Somewhere(r) /\ Heard(r) /\ LetThrough(r) /\ Logged(r)

(* Nothing about a request changes by what others do. *)
LEMMA OthersKeep ==
    ASSUME NEW q \in Request, One(q), asked'[q] = asked[q], phase'[q] = phase[q],
           at'[q] = at[q], route'[q] = route[q], sent'[q] = sent[q],
           recorded'[q] = recorded[q], log'[q] = log[q]
    PROVE  One(q)'
  BY DEF One, Somewhere, Heard, Untouched, LetThrough, Verified, Logged, Outcomes

(* A record of a level and an event, written below the logger. *)
LEMMA RecordTyped ==
    ASSUME Typed, NEW r \in Request, NEW event \in Event, NEW level \in Level,
           NEW status \in Class \cup {"none"}, NEW m \in {"recoverer", "accessLog", "routing"}
    PROVE  /\ Entry(r, event, level, status, m) \in Record
           /\ Entry(r, event, level, status, m).event = event
           /\ Entry(r, event, level, status, m).level = level
           /\ Entry(r, event, level, status, m).status = status
           /\ "request_id" \in Entry(r, event, level, status, m).attributes
<1>1. IsAbove("requestID", "logger") /\ IsAbove("logger", m)
  BY Positions DEF IsAbove
<1>2. LoggerAttributes(r) \in Attributes /\ "request_id" \in LoggerAttributes(r)
  BY <1>1 DEF LoggerAttributes, Attributes
<1>3. Entry(r, event, level, status, m) =
        [event |-> event, level |-> level, status |-> status,
         attributes |-> LoggerAttributes(r)]
  BY <1>1 DEF Entry
<1> QED
  BY <1>2, <1>3 DEF Record

(* What Logs adds. *)
LEMMA LogsAdds ==
    ASSUME Typed, NEW r \in Request, NEW event \in Event, NEW level \in Level,
           NEW status \in Class \cup {"none"}, NEW m \in {"recoverer", "accessLog", "routing"},
           Logs(r, event, level, status, m)
    PROVE  /\ log' \in [Request -> SUBSET Record]
           /\ \A q \in Request : q # r => log'[q] = log[q]
           /\ \E e \in Record : /\ log'[r] = log[r] \cup {e}
                                /\ e.event = event /\ e.level = level /\ e.status = status
                                /\ "request_id" \in e.attributes
<1> DEFINE e == Entry(r, event, level, status, m)
<1>1. e \in Record /\ e.event = event /\ e.level = level /\ e.status = status
      /\ "request_id" \in e.attributes
  BY RecordTyped
<1>2. log' = [log EXCEPT ![r] = @ \cup {e}]
  BY DEF Logs
<1> HIDE DEF e
<1>3. log'[r] = log[r] \cup {e} /\ \A q \in Request : q # r => log'[q] = log[q]
  BY <1>2 DEF Typed
<1>4. log' \in [Request -> SUBSET Record]
  BY <1>1, <1>2 DEF Typed
<1> QED
  BY <1>1, <1>3, <1>4

(* What Write does. *)
LEMMA WriteEffect ==
    ASSUME Typed, NEW r \in Request, NEW class \in Class, Write(r, class)
    PROVE  /\ sent' \in [Request -> Class \cup {"none"}]
           /\ recorded' \in [Request -> [Recorder -> Class \cup {"none"}]]
           /\ sent'[r] = First(sent[r], class) /\ sent'[r] # "none"
           /\ at[r] > 2 => recorded'[r]["metrics"] = First(recorded[r]["metrics"], class)
           /\ at[r] > 5 => recorded'[r]["accessLog"] = First(recorded[r]["accessLog"], class)
           /\ \A q \in Request : q # r => sent'[q] = sent[q] /\ recorded'[q] = recorded[q]
<1> DEFINE rec == [m \in Recorder |->
                     IF Position(m) < at[r] THEN First(recorded[r][m], class)
                     ELSE recorded[r][m]]
<1>1. sent' = [sent EXCEPT ![r] = First(@, class)] /\ recorded' = [recorded EXCEPT ![r] = rec]
  BY DEF Write, Typed
<1>2. First(sent[r], class) \in Class
  BY DEF First, Typed
<1>3. "none" \notin Class /\ "metrics" \in Recorder /\ "accessLog" \in Recorder
  BY DEF Class, Recorder
<1>4. rec \in [Recorder -> Class \cup {"none"}]
  BY DEF First, Typed
<1>5. /\ at[r] > 2 => rec["metrics"] = First(recorded[r]["metrics"], class)
      /\ at[r] > 5 => rec["accessLog"] = First(recorded[r]["accessLog"], class)
  BY <1>3, Positions
<1> HIDE DEF rec
<1> QED
  BY <1>1, <1>2, <1>3, <1>4, <1>5 DEF Typed

(* What the moves do. *)
LEMMA DeeperEffect ==
    ASSUME Typed, NEW r \in Request, at[r] \in 0..6, Deeper(r)
    PROVE  /\ at' \in [Request -> 0..7] /\ at'[r] = at[r] + 1 /\ phase' = phase
           /\ \A q \in Request : q # r => at'[q] = at[q]
  BY DEF Deeper, Typed
(* A request that goes one place back. *)
LEMMA BackEffect ==
    ASSUME Typed, NEW r \in Request, at[r] \in 1..7, NEW how \in {"up", "panic"}, Back(r, how)
    PROVE  /\ at' \in [Request -> 0..7] /\ at'[r] = at[r] - 1 /\ phase'[r] = how
           /\ phase' \in [Request -> {"new", "down", "up", "panic", "done"}]
           /\ \A q \in Request : q # r => at'[q] = at[q] /\ phase'[q] = phase[q]
  BY DEF Back, Typed

(* The place that a guard speaks of. *)
LEMMA WhereAt ==
    ASSUME Typed, NEW r \in Request, Somewhere(r), NEW m, Down(r, m) \/ Up(r, m) \/ Unwinding(r, m)
    PROVE  at[r] \in 1..7 /\ Chain[at[r]] = m
  BY DEF Typed, Somewhere, Down, Up, Unwinding

Alone(r) ==
    \A q \in Request : q # r =>
       /\ asked'[q] = asked[q] /\ phase'[q] = phase[q] /\ at'[q] = at[q]
       /\ route'[q] = route[q] /\ sent'[q] = sent[q] /\ recorded'[q] = recorded[q]
       /\ log'[q] = log[q]

(***************************************************************************)
(* The steps of a request.                                                 *)
(***************************************************************************)
(* A request that arrives. *)
LEMMA ArriveKeeps ==
    ASSUME Typed, NEW r \in Request, One(r), Arrive(r)
    PROVE  Typed' /\ One(r)' /\ Alone(r)
<1>1. PICK path \in Path, credentials \in Credentials, binds \in BOOLEAN :
        asked' = [asked EXCEPT ![r] = [path |-> path, credentials |-> credentials, binds |-> binds]]
  BY DEF Arrive
<1>2. /\ phase[r] = "new" /\ phase' = [phase EXCEPT ![r] = "down"] /\ at' = [at EXCEPT ![r] = 1]
      /\ UNCHANGED <<route, log, sent, recorded>>
  BY DEF Arrive, Unwritten
<1>3. asked' \in [Request -> [path : Path, credentials : Credentials, binds : BOOLEAN]]
  BY <1>1 DEF Typed
<1>4. Typed' /\ Alone(r)
  BY <1>1, <1>2, <1>3 DEF Typed, Alone
<1>5. phase'[r] = "down" /\ at'[r] = 1
  BY <1>2 DEF Typed
<1>6. Untouched(r)'
  BY <1>2 DEF One, Heard, Untouched
<1> QED
  BY <1>4, <1>5, <1>6 DEF One, Somewhere, Heard, Untouched, LetThrough, Logged

(* A middleware that only passes a request on. *)
LEMMA PassOn ==
    ASSUME Typed, NEW r \in Request, One(r), phase[r] = "down", at[r] \in 1..5, Deeper(r),
           UNCHANGED <<asked, route, log, sent, recorded>>
    PROVE  Typed' /\ One(r)' /\ Alone(r)
<1>1. /\ at' \in [Request -> 0..7] /\ at'[r] = at[r] + 1 /\ phase' = phase
      /\ \A q \in Request : q # r => at'[q] = at[q]
  BY DeeperEffect
<1>2. Typed' /\ Alone(r)
  BY <1>1 DEF Typed, Alone
<1> QED
  BY <1>1, <1>2 DEF One, Somewhere, Heard, Untouched, LetThrough, Logged

(* A request that passes a middleware on its way in. *)
LEMMA EnterKeeps ==
    ASSUME Typed, NEW r \in Request, One(r), Enter(r) \/ EnterMetrics(r)
    PROVE  Typed' /\ One(r)' /\ Alone(r) /\ phase[r] = "down"
<1>1. PICK m \in {"requestID", "logger", "recoverer", "accessLog", "metrics"} : Down(r, m)
  BY DEF Enter, EnterMetrics
<1>2. at[r] \in 1..5 /\ phase[r] = "down"
  BY <1>1, WhereAt, AtPlace DEF One, Down
<1> QED
  BY <1>2, PassOn DEF Enter, EnterMetrics, Unwritten

(* An answer without a record of an outcome, given at the place of the     *)
(* request; a 5xx comes with a record.                                     *)
LEMMA Answered ==
    ASSUME Typed, NEW r \in Request, One(r), phase[r] = "down", at[r] \in {6, 7},
           NEW class \in Class, Write(r, class), NEW how \in {"up", "panic"}, Back(r, how),
           asked' = asked, route' \in [Request -> Pattern \cup {"unknown"}],
           \A q \in Request : q # r => route'[q] = route[q] /\ log'[q] = log[q],
           log' \in [Request -> SUBSET Record],
           route'[r] # "unknown" => asked[r].path \in Skipped \/ Verified(r),
           \/ log'[r] = {} /\ class # "5xx"
           \/ \E e \in Record : /\ log'[r] = {e} /\ e.event = "domain"
                                /\ class = "5xx" => e.level = "error"
                                /\ "request_id" \in e.attributes
    PROVE  Typed' /\ One(r)' /\ Alone(r)
<1>1. Untouched(r)
  BY DEF One, Heard
<1>2. /\ at' \in [Request -> 0..7] /\ at'[r] = at[r] - 1 /\ phase'[r] = how
      /\ phase' \in [Request -> {"new", "down", "up", "panic", "done"}]
      /\ \A q \in Request : q # r => at'[q] = at[q] /\ phase'[q] = phase[q]
  BY BackEffect
<1>3. /\ sent' \in [Request -> Class \cup {"none"}]
      /\ recorded' \in [Request -> [Recorder -> Class \cup {"none"}]]
      /\ \A q \in Request : q # r => sent'[q] = sent[q] /\ recorded'[q] = recorded[q]
  BY WriteEffect
<1>4. /\ sent'[r] = class /\ recorded'[r]["metrics"] = class /\ recorded'[r]["accessLog"] = class
  BY <1>1, WriteEffect DEF Untouched, First
<1>5. Typed' /\ Alone(r)
  BY <1>2, <1>3 DEF Typed, Alone
<1>6. at'[r] \in {5, 6}
  BY <1>2
<1>7. Somewhere(r)'
  BY <1>2, <1>6 DEF Somewhere
<1>8. Heard(r)'
  BY <1>2, <1>4 DEF Heard, Class
<1>9. LetThrough(r)'
  BY <1>2, <1>6 DEF LetThrough, Verified
<1>10. Outcomes(r)' = {}
  BY DEF Outcomes
<1>11. Logged(r)'
  BY <1>2, <1>4, <1>6, <1>10 DEF Logged
<1> QED
  BY <1>5, <1>7, <1>8, <1>9, <1>11 DEF One

(* Auth lets a request through or answers 401. *)
LEMMA AuthKeeps ==
    ASSUME Typed, NEW r \in Request, One(r), Auth(r)
    PROVE  Typed' /\ One(r)' /\ Alone(r) /\ phase[r] = "down" /\ at[r] = 6
<1>1. at[r] = 6 /\ phase[r] = "down" /\ UNCHANGED <<asked, route, log>>
  BY WhereAt, AtPlace DEF Auth, One, Down
<1>2. CASE (asked[r].path \in Skipped \/ Verified(r)) /\ Deeper(r) /\ Unwritten
  <2>1. /\ at' \in [Request -> 0..7] /\ at'[r] = 7 /\ phase' = phase
        /\ \A q \in Request : q # r => at'[q] = at[q]
    BY <1>1, <1>2, DeeperEffect
  <2>2. Typed' /\ Alone(r)
    BY <1>1, <1>2, <2>1 DEF Typed, Alone, Unwritten
  <2> QED
    BY <1>1, <1>2, <2>1, <2>2
       DEF One, Somewhere, Heard, Untouched, LetThrough, Verified, Logged, Unwritten
<1>3. CASE Write(r, "4xx") /\ Back(r, "up")
  <2>1. "4xx" \in Class /\ log[r] = {} /\ route[r] = "unknown"
    BY <1>1 DEF Class, One, Heard, Untouched
  <2>2. Typed' /\ One(r)' /\ Alone(r)
    BY <1>1, <1>3, <2>1, Answered DEF Typed
  <2> QED
    BY <1>1, <2>2
<1> QED
  BY <1>1, <1>2, <1>3 DEF Auth

(* The router passes a request to its handler or answers itself. *)
LEMMA RoutingKeeps ==
    ASSUME Typed, NEW r \in Request, One(r),
           NotFound(r) \/ RefuseParameters(r) \/ GetHealth(r)
    PROVE  Typed' /\ One(r)' /\ Alone(r) /\ phase[r] = "down" /\ at[r] = 7
<1>1. Down(r, "routing") /\ UNCHANGED <<asked, log>>
  BY DEF NotFound, RefuseParameters, GetHealth, Routed
<1>2. at[r] = 7 /\ phase[r] = "down"
  BY <1>1, WhereAt, AtPlace DEF One, Down
<1>3. log[r] = {} /\ route[r] = "unknown" /\ (asked[r].path \in Skipped \/ Verified(r))
  BY <1>2 DEF One, Heard, Untouched, LetThrough
<1>4. /\ route' \in [Request -> Pattern \cup {"unknown"}]
      /\ \A q \in Request : q # r => route'[q] = route[q]
  BY DEF NotFound, RefuseParameters, GetHealth, Routed, Typed, Pattern
<1>5. \E class \in {"2xx", "4xx"} : Write(r, class) /\ Back(r, "up")
  BY DEF NotFound, RefuseParameters, GetHealth
<1>6. Typed' /\ One(r)' /\ Alone(r)
  BY <1>1, <1>2, <1>3, <1>4, <1>5, Answered DEF Typed, Class
<1> QED
  BY <1>2, <1>6

(* A handler that panics before it has written anything. *)
LEMMA HandleKeeps ==
    ASSUME Typed, NEW r \in Request, One(r), Handle(r)
    PROVE  Typed' /\ One(r)' /\ Alone(r) /\ phase[r] = "down" /\ at[r] = 7
<1>1. Down(r, "routing") /\ asked' = asked
  BY DEF Handle, Routed
<1>2. at[r] = 7 /\ phase[r] = "down"
  BY <1>1, WhereAt, AtPlace DEF One, Down
<1>3. Untouched(r) /\ (asked[r].path \in Skipped \/ Verified(r))
  BY <1>2 DEF One, Heard, LetThrough
<1>4. /\ route' \in [Request -> Pattern \cup {"unknown"}]
      /\ \A q \in Request : q # r => route'[q] = route[q]
  BY DEF Handle, Routed, Typed, Pattern
<1>5. PICK how \in {"up", "panic"} : Back(r, how) /\ (how = "up" => sent'[r] # "none")
  BY DEF Handle
<1>6. CASE \E class \in {"2xx", "4xx"} : Write(r, class) /\ UNCHANGED log
  <2>1. PICK class \in {"2xx", "4xx"} : Write(r, class) /\ UNCHANGED log
    BY <1>6
  <2>2. log'[r] = {} /\ class \in Class /\ class # "5xx" /\ log' \in [Request -> SUBSET Record]
    BY <1>3, <2>1 DEF Untouched, Class, Typed
  <2>3. Typed' /\ One(r)' /\ Alone(r)
    BY <1>1, <1>2, <1>3, <1>4, <1>5, <2>1, <2>2, Answered
  <2> QED
    BY <1>2, <2>3
<1>7. CASE DomainError(r)
  <2>1. PICK class \in Class, level \in Level :
          /\ Write(r, class) /\ Logs(r, "domain", level, "none", "routing")
          /\ class = "5xx" => level = "error"
    BY <1>7 DEF DomainError, Class, Level
  <2>2. /\ log' \in [Request -> SUBSET Record]
        /\ \A q \in Request : q # r => log'[q] = log[q]
        /\ \E e \in Record : /\ log'[r] = log[r] \cup {e}
                             /\ e.event = "domain" /\ e.level = level /\ e.status = "none"
                             /\ "request_id" \in e.attributes
    BY <2>1, LogsAdds DEF Event
  <2>3. \E e \in Record : /\ log'[r] = {e} /\ e.event = "domain"
                          /\ class = "5xx" => e.level = "error"
                          /\ "request_id" \in e.attributes
    BY <1>3, <2>1, <2>2 DEF Untouched
  <2>4. Typed' /\ One(r)' /\ Alone(r)
    BY <1>1, <1>2, <1>3, <1>4, <1>5, <2>1, <2>2, <2>3, Answered
  <2> QED
    BY <1>2, <2>4
<1>8. CASE Unwritten /\ UNCHANGED log
  <2>1. sent'[r] = "none" /\ recorded'[r] = recorded[r] /\ log'[r] = {}
    BY <1>3, <1>8 DEF Unwritten, Untouched
  <2>2. how = "panic"
    BY <1>5, <2>1
  <2>3. /\ at' \in [Request -> 0..7] /\ at'[r] = 6 /\ phase'[r] = "panic"
        /\ phase' \in [Request -> {"new", "down", "up", "panic", "done"}]
        /\ \A q \in Request : q # r => at'[q] = at[q] /\ phase'[q] = phase[q]
    BY <1>2, <1>5, <2>2, BackEffect
  <2>4. Typed' /\ Alone(r)
    BY <1>1, <1>4, <1>8, <2>3 DEF Typed, Alone, Unwritten
  <2>5. Somewhere(r)' /\ Heard(r)' /\ LetThrough(r)' /\ Logged(r)'
    BY <1>1, <1>3, <2>1, <2>3
       DEF Somewhere, Heard, Untouched, LetThrough, Verified, Logged, Outcomes
  <2> QED
    BY <1>2, <2>4, <2>5 DEF One
<1> QED
  BY <1>6, <1>7, <1>8 DEF Handle

(* A request that goes back without a record or an answer. *)
LEMMA GoesBack ==
    ASSUME Typed, NEW r \in Request, One(r), phase[r] \in {"up", "panic"}, at[r] \in 1..6,
           at[r] # 5 \/ phase[r] = "panic", phase[r] = "panic" => at[r] >= 5,
           Back(r, phase[r]), UNCHANGED <<asked, route, log, sent, recorded>>
    PROVE  Typed' /\ One(r)' /\ Alone(r)
<1>1. /\ at' \in [Request -> 0..7] /\ at'[r] = at[r] - 1 /\ phase'[r] = phase[r]
      /\ phase' \in [Request -> {"new", "down", "up", "panic", "done"}]
      /\ \A q \in Request : q # r => at'[q] = at[q] /\ phase'[q] = phase[q]
  BY BackEffect
<1>2. Typed' /\ Alone(r)
  BY <1>1 DEF Typed, Alone
<1>3. Outcomes(r)' = Outcomes(r)
  BY DEF Outcomes
<1>4. at[r] \in Int /\ (at[r] < 5 <=> at'[r] < 5 /\ at[r] # 5)
  BY <1>1
<1>5. Somewhere(r)' /\ Heard(r)' /\ LetThrough(r)'
  BY <1>1 DEF One, Somewhere, Heard, LetThrough, Verified
<1>6. Logged(r)'
  BY <1>1, <1>3, <1>4 DEF One, Logged
<1> QED
  BY <1>2, <1>5, <1>6 DEF One

(* A request that passes a middleware on its way out. *)
LEMMA LeaveKeeps ==
    ASSUME Typed, NEW r \in Request, One(r), Leave(r)
    PROVE  Typed' /\ One(r)' /\ Alone(r) /\ phase[r] = "up" /\ at[r] \in {1, 3, 4, 6}
<1>1. PICK m \in {"requestID", "logger", "recoverer", "auth"} : Up(r, m)
  BY DEF Leave
<1>2. at[r] \in {1, 3, 4, 6} /\ phase[r] = "up"
  BY <1>1, WhereAt, AtPlace DEF One, Up
<1>3. Typed' /\ One(r)' /\ Alone(r)
  BY <1>2, GoesBack DEF Leave, Unwritten
<1> QED
  BY <1>2, <1>3

(* The metrics middleware on the way out of a request. *)
LEMMA LeaveMetricsKeeps ==
    ASSUME Typed, NEW r \in Request, One(r), LeaveMetrics(r)
    PROVE  Typed' /\ One(r)' /\ Alone(r) /\ phase[r] = "up" /\ at[r] = 2
<1>1. at[r] = 2 /\ phase[r] = "up"
  BY WhereAt, AtPlace DEF One, Up, LeaveMetrics
<1>2. Typed' /\ One(r)' /\ Alone(r)
  BY <1>1, GoesBack DEF LeaveMetrics, Unwritten
<1> QED
  BY <1>1, <1>2

(* A panic that passes a middleware. *)
LEMMA UnwindKeeps ==
    ASSUME Typed, NEW r \in Request, One(r), Unwind(r)
    PROVE  /\ Typed' /\ One(r)' /\ Alone(r)
           /\ phase[r] = "panic" /\ at[r] \in {5, 6} /\ inFlight' = inFlight
<1>1. PICK m \in {"requestID", "metrics", "logger", "accessLog", "auth"} :
        Unwinding(r, m) /\ inFlight' = IF m = "metrics" THEN inFlight - 1 ELSE inFlight
  BY DEF Unwind
<1>2. phase[r] = "panic" /\ at[r] \in 4..6 /\ at[r] # 4 /\ m # "metrics"
  BY <1>1, WhereAt, AtPlace DEF One, Somewhere, Unwinding
<1>3. Typed' /\ One(r)' /\ Alone(r)
  BY <1>2, GoesBack DEF Unwind, Unwritten
<1> QED
  BY <1>1, <1>2, <1>3

(* The access log writes its record. *)
LEMMA AccessLogKeeps ==
    ASSUME Typed, NEW r \in Request, One(r), LeaveAccessLog(r)
    PROVE  Typed' /\ One(r)' /\ Alone(r) /\ phase[r] = "up" /\ at[r] = 5
<1>1. at[r] = 5 /\ phase[r] = "up" /\ UNCHANGED <<asked, route, sent, recorded>>
  BY WhereAt, AtPlace DEF One, Up, LeaveAccessLog, Unwritten
<1>2. /\ recorded[r]["accessLog"] = sent[r] /\ sent[r] # "none" /\ sent[r] \in Class
      /\ Outcomes(r) = {}
  BY <1>1 DEF One, Heard, Logged, Typed
<1>3. Logs(r, "http", "info", sent[r], "accessLog") /\ Back(r, "up")
  BY <1>2 DEF LeaveAccessLog, First
<1>4. /\ log' \in [Request -> SUBSET Record]
      /\ \A q \in Request : q # r => log'[q] = log[q]
      /\ \E e \in Record : /\ log'[r] = log[r] \cup {e}
                           /\ e.event = "http" /\ e.level = "info" /\ e.status = sent[r]
                           /\ "request_id" \in e.attributes
  BY <1>2, <1>3, LogsAdds DEF Event, Level
<1>5. PICK e \in Record : /\ log'[r] = log[r] \cup {e} /\ e.event = "http"
                          /\ e.level = "info" /\ e.status = sent[r]
  BY <1>4
<1>6. /\ at' \in [Request -> 0..7] /\ at'[r] = 4 /\ phase'[r] = "up"
      /\ phase' \in [Request -> {"new", "down", "up", "panic", "done"}]
      /\ \A q \in Request : q # r => at'[q] = at[q] /\ phase'[q] = phase[q]
  BY <1>1, <1>3, BackEffect
<1>7. Typed' /\ Alone(r)
  BY <1>1, <1>4, <1>6 DEF Typed, Alone
<1>8. Outcomes(r)' = {e}
  BY <1>2, <1>5 DEF Outcomes
<1>9. Somewhere(r)' /\ Heard(r)' /\ LetThrough(r)'
  BY <1>1, <1>2, <1>6 DEF One, Somewhere, Heard, LetThrough, Verified
<1>10. Logged(r)'
  <2>1. \A x \in log'[r] : x.level = "error" => x \in log[r]
    BY <1>5
  <2>2. e \in Outcomes(r)' /\ e.status \in {sent'[r], "none"}
    BY <1>1, <1>5, <1>8
  <2>3. sent'[r] = "5xx" => \E x \in log'[r] : x.level = "error"
    BY <1>1, <1>5 DEF One, Logged
  <2> QED
    BY <1>6, <1>8, <2>1, <2>2, <2>3 DEF One, Logged
<1> QED
  BY <1>1, <1>7, <1>9, <1>10 DEF One

(* The recoverer turns a panic into a 500 and a record. *)
LEMMA RecoverKeeps ==
    ASSUME Typed, NEW r \in Request, One(r), Recover(r)
    PROVE  Typed' /\ One(r)' /\ Alone(r) /\ phase[r] = "panic" /\ at[r] = 4
<1>1. at[r] = 4 /\ phase[r] = "panic" /\ UNCHANGED <<asked, route>>
  BY WhereAt, AtPlace DEF One, Unwinding, Recover
<1>2. "5xx" \in Class /\ Outcomes(r) = {} /\ recorded[r]["metrics"] = sent[r]
  BY <1>1 DEF One, Heard, Logged, Class
<1>3. Write(r, "5xx") /\ Logs(r, "panic", "error", "none", "recoverer") /\ Back(r, "up")
  BY DEF Recover
<1>4. /\ log' \in [Request -> SUBSET Record]
      /\ \A q \in Request : q # r => log'[q] = log[q]
      /\ \E e \in Record : /\ log'[r] = log[r] \cup {e}
                           /\ e.event = "panic" /\ e.level = "error" /\ e.status = "none"
                           /\ "request_id" \in e.attributes
  BY <1>3, LogsAdds DEF Event, Level
<1>5. PICK e \in Record : /\ log'[r] = log[r] \cup {e} /\ e.event = "panic"
                          /\ e.level = "error" /\ e.status = "none"
                          /\ "request_id" \in e.attributes
  BY <1>4
<1>6. /\ at' \in [Request -> 0..7] /\ at'[r] = 3 /\ phase'[r] = "up"
      /\ phase' \in [Request -> {"new", "down", "up", "panic", "done"}]
      /\ \A q \in Request : q # r => at'[q] = at[q] /\ phase'[q] = phase[q]
  BY <1>1, <1>3, BackEffect
<1>7. /\ sent' \in [Request -> Class \cup {"none"}]
      /\ recorded' \in [Request -> [Recorder -> Class \cup {"none"}]]
      /\ sent'[r] = First(sent[r], "5xx") /\ sent'[r] # "none"
      /\ recorded'[r]["metrics"] = First(recorded[r]["metrics"], "5xx")
      /\ \A q \in Request : q # r => sent'[q] = sent[q] /\ recorded'[q] = recorded[q]
  BY <1>1, <1>2, <1>3, WriteEffect
<1>8. Typed' /\ Alone(r)
  BY <1>1, <1>4, <1>6, <1>7 DEF Typed, Alone
<1>9. Outcomes(r)' = {e}
  BY <1>2, <1>5 DEF Outcomes
<1>10. Somewhere(r)' /\ Heard(r)' /\ LetThrough(r)'
  BY <1>1, <1>2, <1>6, <1>7 DEF One, Somewhere, Heard, LetThrough, Verified
<1>11. Logged(r)'
  <2>1. \A x \in log'[r] : x.level = "error" => "request_id" \in x.attributes
    BY <1>5 DEF One, Logged
  <2>2. e \in Outcomes(r)' /\ e.status \in {sent'[r], "none"} /\ e \in log'[r]
    BY <1>5, <1>9
  <2> QED
    BY <1>5, <1>6, <1>9, <2>1, <2>2 DEF Logged
<1> QED
  BY <1>1, <1>8, <1>10, <1>11 DEF One

(* A request that leaves the chain. *)
LEMMA FinishKeeps ==
    ASSUME Typed, NEW r \in Request, One(r), Finish(r)
    PROVE  Typed' /\ One(r)' /\ Alone(r) /\ phase[r] = "up" /\ at[r] = 0
<1>1. at[r] = 0 /\ phase[r] = "up"
  BY DEF Finish, One, Somewhere
<1>2. phase' = [phase EXCEPT ![r] = "done"] /\ UNCHANGED <<asked, at, route, sent, recorded, log>>
  BY DEF Finish, Unwritten
<1>3. phase'[r] = "done"
  BY <1>2 DEF Typed
<1>4. Typed' /\ Alone(r)
  BY <1>2 DEF Typed, Alone
<1>5. Outcomes(r)' = Outcomes(r)
  BY <1>2 DEF Outcomes
<1> QED
  BY <1>1, <1>2, <1>3, <1>4, <1>5
     DEF One, Somewhere, Heard, LetThrough, Verified, Logged

(***************************************************************************)
(* The metrics.                                                            *)
(***************************************************************************)
Route == Pattern \cup {"unknown"}
Inside == {r \in Request : BelowMetrics(r)}
Out(p, class) == {r \in Request : PastMetrics(r) /\ route[r] = p /\ sent[r] = class}
Account ==
    /\ counted \in [Route \X Class -> Nat]
    /\ IsFiniteSet(Inside) /\ inFlight = Cardinality(Inside)
    /\ \A p \in Route, class \in Class :
         IsFiniteSet(Out(p, class)) /\ counted[<<p, class>>] = Cardinality(Out(p, class))

(* Being inside and being past, by place. *)
LEMMA InsideIs ==
    \A r : /\ BelowMetrics(r) <=> \/ phase[r] = "down" /\ at[r] > 2
                                  \/ phase[r] \in {"up", "panic"} /\ at[r] >= 2
           /\ PastMetrics(r) <=> \/ phase[r] = "done"
                                 \/ phase[r] \in {"up", "panic"} /\ at[r] < 2
  BY Positions DEF BelowMetrics, PastMetrics
(* Being inside and being past, by place, after a step. *)
LEMMA InsideIsNext ==
    \A r : /\ BelowMetrics(r)' <=> \/ phase'[r] = "down" /\ at'[r] > 2
                                   \/ phase'[r] \in {"up", "panic"} /\ at'[r] >= 2
           /\ PastMetrics(r)' <=> \/ phase'[r] = "done"
                                  \/ phase'[r] \in {"up", "panic"} /\ at'[r] < 2
  BY Positions DEF BelowMetrics, PastMetrics

(* Steps that do not cross the middleware leave the account alone. *)
LEMMA NotCrossing ==
    ASSUME Account, Typed, NEW r \in Request, Alone(r), UNCHANGED <<inFlight, counted>>,
           BelowMetrics(r)' <=> BelowMetrics(r), PastMetrics(r)' <=> PastMetrics(r),
           PastMetrics(r) => route'[r] = route[r] /\ sent'[r] = sent[r]
    PROVE  Account'
<1>1. \A q \in Request : q # r => /\ BelowMetrics(q)' <=> BelowMetrics(q)
                                  /\ PastMetrics(q)' <=> PastMetrics(q)
                                  /\ route'[q] = route[q] /\ sent'[q] = sent[q]
  BY InsideIs, InsideIsNext DEF Alone
<1>2. Inside' = Inside
  BY <1>1 DEF Inside
<1>3. \A p \in Route, class \in Class : Out(p, class)' = Out(p, class)
  BY <1>1 DEF Out
<1> QED
  BY <1>2, <1>3 DEF Account

(* A request that enters. *)
LEMMA Entering ==
    ASSUME Account, Typed, NEW r \in Request, One(r), EnterMetrics(r)
    PROVE  Account'
<1>1. at[r] = 2 /\ phase[r] = "down" /\ UNCHANGED counted /\ inFlight' = inFlight + 1
  BY WhereAt, AtPlace DEF One, Down, EnterMetrics
<1>2. at'[r] = 3 /\ phase' = phase /\ Alone(r)
  BY <1>1, DeeperEffect, EnterKeeps DEF EnterMetrics
<1>3. \A q \in Request : q # r => /\ BelowMetrics(q)' <=> BelowMetrics(q)
                                  /\ PastMetrics(q)' <=> PastMetrics(q)
                                  /\ route'[q] = route[q] /\ sent'[q] = sent[q]
  BY <1>2, InsideIs, InsideIsNext DEF Alone
<1>4. ~BelowMetrics(r) /\ BelowMetrics(r)' /\ ~PastMetrics(r) /\ ~PastMetrics(r)'
  BY <1>1, <1>2, InsideIs, InsideIsNext
<1>5. Inside' = Inside \cup {r} /\ r \notin Inside
  BY <1>3, <1>4 DEF Inside
<1>6. \A p \in Route, class \in Class : Out(p, class)' = Out(p, class)
  BY <1>3, <1>4 DEF Out
<1>7. IsFiniteSet(Inside') /\ Cardinality(Inside') = Cardinality(Inside) + 1
  BY <1>5, FS_AddElement DEF Account
<1> QED
  BY <1>1, <1>6, <1>7 DEF Account

(* A request that comes out: the recorder saw what the client got, so the  *)
(* counter of the client's class goes up.                                  *)
LEMMA ComingOut ==
    ASSUME Account, Typed, NEW r \in Request, One(r), LeaveMetrics(r)
    PROVE  Account'
<1>1. at[r] = 2 /\ phase[r] = "up" /\ Alone(r)
  BY LeaveMetricsKeeps
<1>2. at'[r] = 1 /\ phase'[r] = "up" /\ UNCHANGED <<route, sent>>
  BY <1>1, BackEffect DEF LeaveMetrics, Unwritten
<1>3. sent[r] \in Class /\ route[r] \in Route /\ recorded[r]["metrics"] = sent[r]
  BY <1>1 DEF One, Heard, Typed, Route
<1>4. First(recorded[r]["metrics"], "2xx") = sent[r]
  BY <1>3 DEF First, Class
<1>5. /\ inFlight' = inFlight - 1
      /\ counted' = [counted EXCEPT ![<<route[r], sent[r]>>] = @ + 1]
  BY <1>4 DEF LeaveMetrics
<1>6. \A q \in Request : q # r => /\ BelowMetrics(q)' <=> BelowMetrics(q)
                                  /\ PastMetrics(q)' <=> PastMetrics(q)
                                  /\ route'[q] = route[q] /\ sent'[q] = sent[q]
  BY <1>1, InsideIs, InsideIsNext DEF Alone
<1>7. BelowMetrics(r) /\ ~BelowMetrics(r)' /\ ~PastMetrics(r) /\ PastMetrics(r)'
  BY <1>1, <1>2, InsideIs, InsideIsNext
<1>8. Inside' = Inside \ {r} /\ r \in Inside
  BY <1>6, <1>7 DEF Inside
<1>9. IsFiniteSet(Inside') /\ Cardinality(Inside') = Cardinality(Inside) - 1
  BY <1>8, FS_RemoveElement DEF Account
<1>10. ASSUME NEW p \in Route, NEW class \in Class
       PROVE  /\ IsFiniteSet(Out(p, class)')
              /\ counted'[<<p, class>>] = Cardinality(Out(p, class)')
  <2>1. CASE p = route[r] /\ class = sent[r]
    <3>1. Out(p, class)' = Out(p, class) \cup {r} /\ r \notin Out(p, class)
      BY <1>2, <1>6, <1>7, <2>1 DEF Out
    <3>2. counted'[<<p, class>>] = counted[<<p, class>>] + 1
      BY <1>3, <1>5, <2>1 DEF Account
    <3> QED
      BY <3>1, <3>2, FS_AddElement DEF Account
  <2>2. CASE ~(p = route[r] /\ class = sent[r])
    <3>1. Out(p, class)' = Out(p, class)
      BY <1>2, <1>6, <1>7, <2>2 DEF Out
    <3>2. counted'[<<p, class>>] = counted[<<p, class>>]
      BY <1>3, <1>5, <2>2 DEF Account
    <3> QED
      BY <3>1, <3>2 DEF Account
  <2> QED
    BY <2>1, <2>2
<1>11. counted' \in [Route \X Class -> Nat]
  BY <1>3, <1>5 DEF Account
<1> QED
  BY <1>5, <1>9, <1>10, <1>11 DEF Account

(***************************************************************************)
(* The theorems.                                                           *)
(***************************************************************************)
Ind == Typed /\ (\A r \in Request : One(r)) /\ Account

(* A step keeps every request and the account. *)
LEMMA StepKeeps == Ind /\ [Next]_vars => Ind'
<1>1. ASSUME Ind, UNCHANGED vars PROVE Ind'
  <2>1. \A r \in Request : One(r)'
    BY <1>1, OthersKeep DEF Ind, vars
  <2>2. Typed'
    BY <1>1 DEF Ind, Typed, vars
  <2>3. \A r \in Request : /\ BelowMetrics(r)' <=> BelowMetrics(r)
                           /\ PastMetrics(r)' <=> PastMetrics(r)
    BY <1>1, InsideIs, InsideIsNext DEF vars
  <2>4. Inside' = Inside /\ \A p \in Route, class \in Class : Out(p, class)' = Out(p, class)
    BY <1>1, <2>3 DEF Inside, Out, vars
  <2>5. Account'
    BY <1>1, <2>4 DEF Ind, Account, vars
  <2> QED
    BY <2>1, <2>2, <2>5 DEF Ind
<1>2. ASSUME Ind, NEW r \in Request, Arrive(r) \/ Serve(r) PROVE Ind'
  <2>0. Typed /\ Account /\ One(r)
    BY <1>2 DEF Ind
  <2>1. SUFFICES Typed' /\ One(r)' /\ Alone(r) /\ Account'
    <3>1. ASSUME Typed' /\ One(r)' /\ Alone(r) /\ Account', NEW q \in Request PROVE One(q)'
      BY <1>2, <3>1, OthersKeep DEF Ind, Alone
    <3> QED
      BY <3>1 DEF Ind
  <2>2. CASE Arrive(r)
    <3>1. Typed' /\ One(r)' /\ Alone(r)
      BY <2>0, <2>2, ArriveKeeps
    <3>2. phase[r] = "new" /\ phase'[r] = "down" /\ at'[r] = 1 /\ UNCHANGED <<inFlight, counted>>
      BY <2>0, <2>2 DEF Arrive, Typed
    <3> QED
      BY <2>0, <3>1, <3>2, NotCrossing, InsideIs, InsideIsNext
  <2>3. CASE Enter(r)
    <3>1. Typed' /\ One(r)' /\ Alone(r) /\ phase[r] = "down"
      BY <2>0, <2>3, EnterKeeps
    <3>2. PICK m \in {"requestID", "logger", "recoverer", "accessLog"} : Down(r, m)
      BY <2>3 DEF Enter
    <3>3. at[r] \in {1, 3, 4, 5} /\ Deeper(r) /\ UNCHANGED <<inFlight, counted>>
      BY <2>0, <2>3, <3>2, WhereAt, AtPlace DEF One, Enter
    <3>4. at'[r] = at[r] + 1 /\ phase' = phase
      BY <2>0, <3>3, DeeperEffect
    <3> QED
      BY <2>0, <3>1, <3>3, <3>4, NotCrossing, InsideIs, InsideIsNext
  <2>4. CASE EnterMetrics(r)
    BY <2>0, <2>4, EnterKeeps, Entering
  <2>5. CASE Auth(r)
    <3>1. Typed' /\ One(r)' /\ Alone(r) /\ phase[r] = "down" /\ at[r] = 6
      BY <2>0, <2>5, AuthKeeps
    <3>2. (at'[r] = 7 /\ phase' = phase) \/ (at'[r] = 5 /\ phase'[r] = "up")
      BY <2>0, <2>5, <3>1, DeeperEffect, BackEffect DEF Auth
    <3>3. UNCHANGED <<inFlight, counted>>
      BY <2>5 DEF Auth
    <3> QED
      BY <2>0, <3>1, <3>2, <3>3, NotCrossing, InsideIs, InsideIsNext
  <2>6. CASE NotFound(r) \/ RefuseParameters(r) \/ GetHealth(r) \/ Handle(r)
    <3>1. Typed' /\ One(r)' /\ Alone(r) /\ phase[r] = "down" /\ at[r] = 7
      BY <2>0, <2>6, RoutingKeeps, HandleKeeps
    <3>2. PICK how \in {"up", "panic"} : Back(r, how)
      BY <2>6 DEF NotFound, RefuseParameters, GetHealth, Handle
    <3>3. at'[r] = 6 /\ phase'[r] \in {"up", "panic"}
      BY <2>0, <3>1, <3>2, BackEffect
    <3>4. UNCHANGED <<inFlight, counted>>
      BY <2>6 DEF NotFound, RefuseParameters, GetHealth, Handle
    <3> QED
      BY <2>0, <3>1, <3>3, <3>4, NotCrossing, InsideIs, InsideIsNext
  <2>7. CASE Leave(r)
    <3>1. Typed' /\ One(r)' /\ Alone(r) /\ phase[r] = "up" /\ at[r] \in {1, 3, 4, 6}
      BY <2>0, <2>7, LeaveKeeps
    <3>2. at'[r] = at[r] - 1 /\ phase'[r] = "up"
      BY <2>0, <2>7, <3>1, BackEffect DEF Leave
    <3>3. UNCHANGED <<inFlight, counted, route, sent>>
      BY <2>7 DEF Leave, Unwritten
    <3> QED
      BY <2>0, <3>1, <3>2, <3>3, NotCrossing, InsideIs, InsideIsNext
  <2>8. CASE LeaveAccessLog(r)
    <3>1. Typed' /\ One(r)' /\ Alone(r) /\ phase[r] = "up" /\ at[r] = 5
      BY <2>0, <2>8, AccessLogKeeps
    <3>2. at'[r] = 4 /\ phase'[r] = "up"
      BY <2>0, <2>8, <3>1, BackEffect DEF LeaveAccessLog
    <3>3. UNCHANGED <<inFlight, counted>>
      BY <2>8 DEF LeaveAccessLog
    <3> QED
      BY <2>0, <3>1, <3>2, <3>3, NotCrossing, InsideIs, InsideIsNext
  <2>9. CASE LeaveMetrics(r)
    BY <2>0, <2>9, LeaveMetricsKeeps, ComingOut
  <2>10. CASE Recover(r)
    <3>1. Typed' /\ One(r)' /\ Alone(r) /\ phase[r] = "panic" /\ at[r] = 4
      BY <2>0, <2>10, RecoverKeeps
    <3>2. at'[r] = 3 /\ phase'[r] = "up"
      BY <2>0, <2>10, <3>1, BackEffect DEF Recover
    <3>3. UNCHANGED <<inFlight, counted>>
      BY <2>10 DEF Recover
    <3> QED
      BY <2>0, <3>1, <3>2, <3>3, NotCrossing, InsideIs, InsideIsNext
  <2>11. CASE Unwind(r)
    <3>1. /\ Typed' /\ One(r)' /\ Alone(r)
          /\ phase[r] = "panic" /\ at[r] \in {5, 6} /\ inFlight' = inFlight
      BY <2>0, <2>11, UnwindKeeps
    <3>2. at'[r] = at[r] - 1 /\ phase'[r] = "panic"
      BY <2>0, <2>11, <3>1, BackEffect DEF Unwind
    <3>3. UNCHANGED counted
      BY <2>11 DEF Unwind
    <3> QED
      BY <2>0, <3>1, <3>2, <3>3, NotCrossing, InsideIs, InsideIsNext
  <2>12. CASE Finish(r)
    <3>1. Typed' /\ One(r)' /\ Alone(r) /\ phase[r] = "up" /\ at[r] = 0
      BY <2>0, <2>12, FinishKeeps
    <3>2. phase'[r] = "done"
      BY <2>0, <2>12 DEF Finish, Typed
    <3>3. UNCHANGED <<inFlight, counted, route, sent>>
      BY <2>12 DEF Finish, Unwritten
    <3> QED
      BY <2>0, <3>1, <3>2, <3>3, NotCrossing, InsideIs, InsideIsNext
  <2> QED
    BY <1>2, <2>2, <2>3, <2>4, <2>5, <2>6, <2>7, <2>8, <2>9, <2>10, <2>11, <2>12 DEF Serve
<1> QED
  BY <1>1, <1>2 DEF Next

(* At first nobody is inside and nothing is counted. *)
LEMMA IndAtFirst == Init => Ind
<1> SUFFICES ASSUME Init PROVE Ind
  OBVIOUS
<1>1. Typed
  BY DEF Init, Typed, Path, Credentials, Pattern, Class, Recorder
<1>2. \A r \in Request : One(r)
  BY DEF Init, One, Somewhere, Heard, Untouched, LetThrough, Logged, Recorder
<1>3. Inside = {} /\ \A p \in Route, class \in Class : Out(p, class) = {}
  BY InsideIs DEF Init, Inside, Out
<1>4. counted = [k \in Route \X Class |-> 0] /\ inFlight = 0
  BY DEF Init, Route
<1>5. Account
  BY <1>3, <1>4, FS_EmptySet DEF Account
<1> QED
  BY <1>1, <1>2, <1>5 DEF Ind

(* The invariant holds in every state. *)
THEOREM PipelineInvariance == Spec => []Ind
  BY IndAtFirst, StepKeeps, PTL DEF Spec

(* Type correctness of the pipeline. *)
THEOREM PipelineTyped == Spec => []TypeOK
<1>1. Ind => TypeOK
  <2> SUFFICES ASSUME Ind PROVE TypeOK
    OBVIOUS
  <2>1. inFlight \in Nat /\ DOMAIN counted = (Pattern \cup {"unknown"}) \X Class
    BY FS_CardinalityType DEF Ind, Account, Route
  <2>2. \A r \in Request : \A entry \in log[r] : entry \in Record
    BY DEF Ind, Typed
  <2> QED
    BY <2>1, <2>2, ChainIs DEF Ind, Typed, TypeOK, Record, Event, Level, Attributes
<1> QED
  BY <1>1, PipelineInvariance, PTL

(* The gauge and the counter tell what clients experienced. *)
THEOREM MetricsTrue == Spec => []MetricsAreTrue
<1>1. Ind => MetricsAreTrue
  BY DEF Ind, Account, MetricsAreTrue, Inside, Out, Route
<1> QED
  BY <1>1, PipelineInvariance, PTL

(* No handler runs for a caller who is not verified. *)
THEOREM StrangersStayOut == Spec => []OnlyVerified
<1>1. Ind => OnlyVerified
  BY DEF Ind, One, LetThrough, OnlyVerified
<1> QED
  BY <1>1, PipelineInvariance, PTL

(* One record tells the outcome of a request that is over. *)
THEOREM OutcomesLogged == Spec => []LogsTellOutcome
<1>1. Ind => LogsTellOutcome
  BY DEF Ind, One, Logged, LogsTellOutcome
<1> QED
  BY <1>1, PipelineInvariance, PTL

(* Every 5xx has an error record, and those name their request. *)
THEOREM FailuresLogged == Spec => []FailuresAttributed
<1>1. Ind => FailuresAttributed
  BY DEF Ind, One, Logged, FailuresAttributed
<1> QED
  BY <1>1, PipelineInvariance, PTL

(***************************************************************************)
(* What lies under AllAnswered.                                            *)
(***************************************************************************)
(* How many steps a request takes at most: down the chain and up again. *)
Left(r) ==
    CASE phase[r] = "new" -> 16
      [] phase[r] = "down" -> 16 - at[r]
      [] phase[r] \in {"up", "panic"} -> at[r] + 1
      [] phase[r] = "done" -> 0

(* A request never turns back on its way: every step of it brings it       *)
(* nearer to its end, and no step of another request takes it back.        *)
RequestsRunDown ==
    [][\A r \in Request : /\ Arrive(r) \/ Serve(r) => Left(r)' < Left(r)
                          /\ Left(r)' <= Left(r)]_vars

(* Somebody has the request in hand, wherever a panic has left it. *)
InHand(r) ==
    \/ \E m \in {"requestID", "metrics", "logger", "recoverer", "accessLog", "auth"} :
          Down(r, m) \/ Up(r, m)
    \/ \E m \in {"recoverer", "accessLog", "auth"} : Unwinding(r, m)
    \/ Down(r, "routing")
    \/ phase[r] = "up" /\ at[r] = 0

(* A request that is not over is in the hands of a middleware or of the    *)
(* routing, and a panic never gets past the recoverer; one that is over    *)
(* has been answered.                                                      *)
NoneForgotten ==
    \A r \in Request :
       /\ phase[r] \in {"down", "up", "panic"} => InHand(r)
       /\ phase[r] = "done" => sent[r] # "none"

(* Where a step can take a request. *)
OneOn(r) == phase[r] = "down" /\ phase'[r] = "down" /\ at'[r] = at[r] + 1
TurnsBack(r) == phase[r] = "down" /\ phase'[r] \in {"up", "panic"} /\ at'[r] = at[r] - 1
OneUp(r) == /\ phase[r] \in {"up", "panic"} /\ phase'[r] \in {"up", "panic"}
            /\ at'[r] = at[r] - 1
Ends(r) == phase[r] \in {"up", "panic"} /\ phase'[r] = "done"

(* Every step moves its request by one place and lets the others be. *)
LEMMA StepsOfOne ==
    ASSUME Typed, NEW r \in Request, One(r), Serve(r)
    PROVE  Alone(r) /\ (OneOn(r) \/ TurnsBack(r) \/ OneUp(r) \/ Ends(r))
<1> USE DEF OneOn, TurnsBack, OneUp, Ends
<1>1. CASE Enter(r) \/ EnterMetrics(r)
  <2>1. Alone(r) /\ phase[r] = "down"
    BY <1>1, EnterKeeps
  <2>2. PICK m \in {"requestID", "logger", "recoverer", "accessLog", "metrics"} : Down(r, m)
    BY <1>1 DEF Enter, EnterMetrics
  <2>3. at[r] \in 0..6
    BY <2>2, WhereAt, AtPlace DEF One
  <2>4. at'[r] = at[r] + 1 /\ phase' = phase
    BY <1>1, <2>3, DeeperEffect DEF Enter, EnterMetrics
  <2> QED
    BY <2>1, <2>4
<1>2. CASE Auth(r)
  <2>1. Alone(r) /\ phase[r] = "down" /\ at[r] = 6
    BY <1>2, AuthKeeps
  <2>2. (at'[r] = 7 /\ phase' = phase) \/ (at'[r] = 5 /\ phase'[r] = "up")
    BY <1>2, <2>1, DeeperEffect, BackEffect DEF Auth
  <2> QED
    BY <2>1, <2>2
<1>3. CASE NotFound(r) \/ RefuseParameters(r) \/ GetHealth(r) \/ Handle(r)
  <2>1. Alone(r) /\ phase[r] = "down" /\ at[r] = 7
    BY <1>3, RoutingKeeps, HandleKeeps
  <2>2. PICK how \in {"up", "panic"} : Back(r, how)
    BY <1>3 DEF NotFound, RefuseParameters, GetHealth, Handle
  <2>3. at'[r] = 6 /\ phase'[r] \in {"up", "panic"}
    BY <2>1, <2>2, BackEffect
  <2> QED
    BY <2>1, <2>3
<1>4. CASE Leave(r) \/ LeaveAccessLog(r) \/ LeaveMetrics(r)
  <2>1. Alone(r) /\ phase[r] = "up" /\ at[r] \in 1..6
    BY <1>4, LeaveKeeps, AccessLogKeeps, LeaveMetricsKeeps
  <2>2. at'[r] = at[r] - 1 /\ phase'[r] = "up"
    BY <1>4, <2>1, BackEffect DEF Leave, LeaveAccessLog, LeaveMetrics
  <2> QED
    BY <2>1, <2>2
<1>5. CASE Recover(r)
  <2>1. Alone(r) /\ phase[r] = "panic" /\ at[r] = 4
    BY <1>5, RecoverKeeps
  <2>2. at'[r] = at[r] - 1 /\ phase'[r] = "up"
    BY <1>5, <2>1, BackEffect DEF Recover
  <2> QED
    BY <2>1, <2>2
<1>6. CASE Unwind(r)
  <2>1. Alone(r) /\ phase[r] = "panic" /\ at[r] \in {5, 6}
    BY <1>6, UnwindKeeps
  <2>2. at'[r] = at[r] - 1 /\ phase'[r] = "panic"
    BY <1>6, <2>1, BackEffect DEF Unwind
  <2> QED
    BY <2>1, <2>2
<1>7. CASE Finish(r)
  <2>1. Alone(r) /\ phase[r] = "up"
    BY <1>7, FinishKeeps
  <2>2. phase'[r] = "done"
    BY <1>7 DEF Finish, Typed
  <2> QED
    BY <2>1, <2>2
<1> QED
  BY <1>1, <1>2, <1>3, <1>4, <1>5, <1>6, <1>7 DEF Serve

(* The measure, by phase. *)
LEMMA LeftIs ==
    ASSUME Typed, NEW r \in Request, One(r)
    PROVE  /\ Left(r) \in Nat
           /\ phase[r] = "new" => Left(r) = 16
           /\ phase[r] = "down" => Left(r) = 16 - at[r] /\ at[r] \in 1..7
           /\ phase[r] \in {"up", "panic"} => Left(r) = at[r] + 1 /\ at[r] \in 0..6
           /\ phase[r] = "done" => Left(r) = 0
<1>1. phase[r] \in {"new", "down", "up", "panic", "done"} /\ at[r] \in 0..7
  BY DEF Typed
<1>2. /\ phase[r] = "down" => at[r] \in 1..7
      /\ phase[r] \in {"up", "panic"} => at[r] \in 0..6
  BY DEF One, Somewhere
<1> QED
  BY <1>1, <1>2 DEF Left

(* A step of a request shortens its own way, and no other. *)
LEMMA WaysShorten ==
    ASSUME Ind, NEW r \in Request, Arrive(r) \/ Serve(r)
    PROVE  /\ Left(r)' \in Int /\ Left(r)' < Left(r)
           /\ \A q \in Request : q # r => Left(q)' = Left(q)
<1>1. Typed /\ One(r)
  BY DEF Ind
<1>2. ASSUME Alone(r) PROVE \A q \in Request : q # r => Left(q)' = Left(q)
  BY <1>2 DEF Alone, Left
<1>3. CASE Arrive(r)
  <2>1. Alone(r) /\ phase[r] = "new" /\ phase'[r] = "down" /\ at'[r] = 1
    BY <1>1, <1>3, ArriveKeeps DEF Arrive, Typed
  <2>2. Left(r) = 16 /\ Left(r)' = 15
    BY <2>1 DEF Left
  <2> QED
    BY <1>2, <2>1, <2>2
<1>4. CASE Serve(r)
  <2>1. Alone(r) /\ (OneOn(r) \/ TurnsBack(r) \/ OneUp(r) \/ Ends(r))
    BY <1>1, <1>4, StepsOfOne
  <2>2. ASSUME OneOn(r) \/ TurnsBack(r) PROVE Left(r)' \in Int /\ Left(r)' < Left(r)
    <3>1. Left(r) = 16 - at[r] /\ at[r] \in 1..7
      BY <1>1, <2>2, LeftIs DEF OneOn, TurnsBack
    <3>2. CASE OneOn(r)
      <4>1. Left(r)' = 16 - (at[r] + 1)
        BY <3>2 DEF OneOn, Left
      <4> QED
        BY <3>1, <4>1
    <3>3. CASE TurnsBack(r)
      <4>1. Left(r)' = (at[r] - 1) + 1
        BY <3>3 DEF TurnsBack, Left
      <4> QED
        BY <3>1, <4>1
    <3> QED
      BY <2>2, <3>2, <3>3
  <2>3. ASSUME OneUp(r) \/ Ends(r) PROVE Left(r)' \in Int /\ Left(r)' < Left(r)
    <3>1. Left(r) = at[r] + 1 /\ at[r] \in 0..6
      BY <1>1, <2>3, LeftIs DEF OneUp, Ends
    <3>2. CASE OneUp(r)
      <4>1. Left(r)' = (at[r] - 1) + 1
        BY <3>2 DEF OneUp, Left
      <4> QED
        BY <3>1, <4>1
    <3>3. CASE Ends(r)
      <4>1. Left(r)' = 0
        BY <3>3 DEF Ends, Left
      <4> QED
        BY <3>1, <4>1
    <3> QED
      BY <2>3, <3>2, <3>3
  <2> QED
    BY <1>2, <2>1, <2>2, <2>3
<1> QED
  BY <1>3, <1>4

(* At most sixteen steps answer a request, whatever the others do. *)
THEOREM RequestsAreBounded ==
    Spec => RequestsRunDown /\ [](\A r \in Request : Left(r) \in 0..16)
<1>1. ASSUME Ind, [Next]_vars, NEW r \in Request
      PROVE  /\ Arrive(r) \/ Serve(r) => Left(r)' < Left(r)
             /\ Left(r)' <= Left(r)
  <2>1. Left(r) \in Nat
    BY <1>1, LeftIs DEF Ind
  <2>2. CASE UNCHANGED vars
    <3>1. Left(r)' = Left(r)
      BY <2>2 DEF vars, Left
    <3>2. Arrive(r) \/ Serve(r) => Left(r)' < Left(r)
      BY <1>1, WaysShorten
    <3> QED
      BY <2>1, <3>1, <3>2
  <2>3. CASE \E q \in Request : Arrive(q) \/ Serve(q)
    <3>1. PICK q \in Request : Arrive(q) \/ Serve(q)
      BY <2>3
    <3>2. q # r => Left(r)' = Left(r)
      BY <1>1, <3>1, WaysShorten
    <3>3. Arrive(r) \/ Serve(r) => Left(r)' < Left(r)
      BY <1>1, WaysShorten
    <3>4. q = r => Left(r)' \in Int /\ Left(r)' < Left(r)
      BY <1>1, <3>1, WaysShorten
    <3>5. Left(r)' <= Left(r)
      BY <2>1, <3>2, <3>4
    <3> QED
      BY <3>3, <3>5
  <2> QED
    BY <1>1, <2>2, <2>3 DEF Next
<1>2. Ind /\ [Next]_vars =>
         [\A r \in Request : /\ Arrive(r) \/ Serve(r) => Left(r)' < Left(r)
                             /\ Left(r)' <= Left(r)]_vars
  BY <1>1
<1>3. Ind => \A r \in Request : Left(r) \in 0..16
  <2> SUFFICES ASSUME Ind, NEW r \in Request PROVE Left(r) \in 0..16
    OBVIOUS
  <2>1. Typed /\ One(r)
    BY DEF Ind
  <2>2. phase[r] \in {"new", "down", "up", "panic", "done"}
    BY <2>1 DEF Typed
  <2> QED
    BY <2>1, <2>2, LeftIs
<1> QED
  BY <1>2, <1>3, PipelineInvariance, PTL DEF Spec, RequestsRunDown

(* No request is lost on its way, also when a handler panics, and none is  *)
(* over without an answer: with the measure this is AllAnswered but for    *)
(* the fairness of the goroutines.                                         *)
THEOREM NobodyForgotten == Spec => []NoneForgotten
<1>1. ASSUME Typed, NEW r \in Request, One(r), phase[r] \in {"down", "up", "panic"}
      PROVE  InHand(r)
  <2>1. CASE phase[r] = "down"
    <3>1. at[r] \in {1, 2, 3, 4, 5, 6, 7}
      BY <1>1, <2>1 DEF One, Somewhere
    <3> QED
      BY <2>1, <3>1, ChainIs DEF InHand, Down
  <2>2. CASE phase[r] = "up"
    <3>1. at[r] = 0 \/ (at[r] > 0 /\ at[r] \in {1, 2, 3, 4, 5, 6})
      BY <1>1, <2>2 DEF One, Somewhere
    <3> QED
      BY <2>2, <3>1, ChainIs DEF InHand, Up
  <2>3. CASE phase[r] = "panic"
    <3>1. at[r] > 0 /\ at[r] \in {4, 5, 6}
      BY <1>1, <2>3 DEF One, Somewhere
    <3> QED
      BY <2>3, <3>1, ChainIs DEF InHand, Unwinding
  <2> QED
    BY <1>1, <2>1, <2>2, <2>3
<1>2. Ind => NoneForgotten
  BY <1>1 DEF Ind, One, Heard, NoneForgotten
<1> QED
  BY <1>2, PipelineInvariance, PTL
=============================================================================
