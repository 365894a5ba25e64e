------------------------------ MODULE ApiCalls ------------------------------
(***************************************************************************)
(* One call of the mobile app to the platform API, from the method of the  *)
(* client to what the caller gets (shared/api, the controllers of the      *)
(* platform and what lies behind them, as far as it decides the answer).   *)
(*                                                                         *)
(* Server and client are written against the same contract, but each has   *)
(* its own idea of it: the server formats and bounds what it sends, the    *)
(* client refuses a body its guard does not know and decides by status and *)
(* "retryable" whether a query is repeated.                                *)
(*                                                                         *)
(* A body is the record of the fields its guard looks at.  A decimal       *)
(* number is its number of decimals; Null is JSON's null.                  *)
(***************************************************************************)
EXTENDS Integers, FiniteSets, FiniteSetsExt

CONSTANTS
    Days,      \* numbers of days for which a customer may have a snapshot
    MaxVersion \* bound on the updates of the risk profile

Null == "null"

Queries == {"health", "me", "riskProfile", "stocks", "quote", "bars", "connections",
            "sync", "summary", "history", "accounts", "account", "holdings",
            "transactions", "simulation", "order", "orders"}
Mutations == {"connect", "startSync", "simulate", "preview", "buy", "saveProfile",
              "scenario", "reset"}

VARIABLES
    backend,  \* createConfiguredPlatformApi: "http", "mock" or "unavailable"
    held,     \* what the server has of the customer
    apiCall   \* the call: [pc, name, failures, replayed, executed, reply, outcome];
              \* "executed" counts how often the handler of a mutation has run

vars == <<backend, held, apiCall>>

Idle == [pc |-> "idle", name |-> "none", failures |-> 0, replayed |-> FALSE,
         executed |-> 0, reply |-> Null, outcome |-> "none"]

Init ==
    /\ backend \in {"http", "mock", "unavailable"}
    /\ held = [connected |-> FALSE, sync |-> "none", days |-> 0, version |-> 0,
               order |-> "none"]
    /\ apiCall = Idle

-----------------------------------------------------------------------------
(* What the server answers *)

Reply(status, retryable, body) == [status |-> status, retryable |-> retryable, body |-> body]
Ok(body) == Reply(200, Null, body)
\* A problem of a controller says itself whether it may be repeated; the error
\* nobody has caught is answered by the framework, which says nothing of it.
Problem(status, retryable) == Reply(status, retryable, [x \in {} |-> Null])
Invalid  == Problem(400, "no")
NotFound == Problem(404, "no")
Conflict == Problem(409, "no")
Uncaught == Problem(500, Null)

\* Bounds and formats of the server.
SearchLimit == 30
Intervals == {"MINUTE", "DAILY", "WEEKLY", "MONTHLY", "YEARLY"}
BarLimit(interval) == IF interval = "WEEKLY" THEN 156
                      ELSE IF interval = "YEARLY" THEN 40 ELSE 120
HistoryLimit(range) == IF range = "ALL" THEN 1000 ELSE 366
MoneyDecimals == 4
QuantityDecimals == 8

HealthAnswers == {Ok([status |-> "ok", service |-> "platform-api"])}

RiskLevels == {"CONSERVATIVE", "BALANCED", "GROWTH"}

IdentityAnswers(name) ==
    IF name = "me" THEN {Ok([level |-> l]) : l \in RiskLevels}
    ELSE {Ok([level |-> l, months |-> m, contribution |-> MoneyDecimals,
              version |-> held.version]) : l \in RiskLevels, m \in {1, 600}}

MarketRefusals == {Invalid, Problem(429, "yes"), Problem(503, "yes"), Problem(502, "no")}

MarketAnswers(name) ==
    CASE name = "stocks" -> {Ok([items |-> n]) : n \in {0, 1, SearchLimit}} \cup {Invalid}
      [] name = "quote" -> {Ok([price |-> MoneyDecimals, change |-> MoneyDecimals])}
                           \cup MarketRefusals
      [] name = "bars" ->
           {Ok(b) : b \in [items : {0, 1} \cup {BarLimit(i) : i \in Intervals},
                           low : 1..2, high : 2..3]}
           \cup MarketRefusals

Connections == IF held.connected THEN 1 ELSE 0

MyDataAnswers(name) ==
    CASE name = "connections" -> {Ok([items |-> Connections, status |-> "ACTIVE"])}
      [] name = "sync" -> IF held.sync = "none" THEN {NotFound}
                          ELSE {Ok([status |-> held.sync, counts |-> n]) : n \in {0, 3}}

\* Weights are hundredths of the total; without a snapshot there are none.
WealthAnswers(name) ==
    CASE name = "summary" -> {Ok([total |-> MoneyDecimals, weights |-> w]) :
                                w \in IF held.days = 0 THEN {{}} ELSE {{0, 100}, {40, 60}}}
      [] name = "history" -> {Ok([items |-> Min({held.days, HistoryLimit(r)})]) :
                                r \in {"1Y", "ALL"}}
      [] name = "account" -> {NotFound} \cup (IF held.days = 0 THEN {}
                               ELSE {Ok([masked |-> TRUE, cash |-> MoneyDecimals])})
      [] name \in {"accounts", "holdings", "transactions"} ->
           {Ok([items |-> IF held.days = 0 THEN 0 ELSE 2, cursor |-> Null,
                amount |-> MoneyDecimals])}

SimulationView(months) == [goal |-> 50, series |-> months + 1, p10 |-> 1, p50 |-> 2, p90 |-> 2]
SimulationAnswers == {Ok(SimulationView(m)) : m \in {1, 600}} \cup {NotFound}

\* orderView: when to ask for the order again, 0 for null.
RefreshAfter(status) == IF status \in {"PENDING_SUBMISSION", "UNKNOWN"} THEN 2000 ELSE 0

OrderView(status) ==
    [status |-> status, quantity |-> QuantityDecimals, estimated |-> MoneyDecimals,
     filled |-> IF status = "FILLED" THEN MoneyDecimals ELSE 0,
     after |-> RefreshAfter(status)]

TradingAnswers(name) ==
    IF name = "order"
    THEN IF held.order = "none" THEN {NotFound} ELSE {Ok(OrderView(held.order))}
    ELSE {Ok([items |-> IF held.order = "none" THEN {} ELSE {OrderView(held.order)},
              next |-> n]) : n \in {Null, "uuid"}}

Answers(name) ==
    {Uncaught} \cup
    CASE name = "health" -> HealthAnswers
      [] name \in {"me", "riskProfile"} -> IdentityAnswers(name)
      [] name \in {"stocks", "quote", "bars"} -> MarketAnswers(name)
      [] name \in {"connections", "sync"} -> MyDataAnswers(name)
      [] name = "simulation" -> SimulationAnswers
      [] name \in {"order", "orders"} -> TradingAnswers(name)
      [] OTHER -> WealthAnswers(name)

-----------------------------------------------------------------------------
(* What a mutation does at the server *)

\* The handler of a mutation ends with a reply and what it leaves behind.
Effect(reply, after) == [reply |-> reply, after |-> after]
Refused(replies) == {Effect(r, held) : r \in replies}

\* POST /connections: a consent in the past by the server's clock is refused.
Connect ==
    Refused({Invalid, Uncaught}) \cup
    IF held.connected THEN Refused({Conflict})
    ELSE {Effect(Ok([items |-> 1, status |-> "ACTIVE"]), [held EXCEPT !.connected = TRUE])}

Unfinished == {"QUEUED", "FETCHING", "RAW_STORED", "NORMALIZING"}

\* POST /syncs: the job that is under way, or a new one.
StartSync ==
    Refused({Uncaught}) \cup
    IF ~held.connected THEN Refused({NotFound})
    ELSE LET status == IF held.sync \in Unfinished THEN held.sync ELSE "QUEUED"
         IN  {Effect(Ok([status |-> status, counts |-> 0]), [held EXCEPT !.sync = status])}

\* POST /simulations: values beyond the numeric range are an uncaught error.
Simulate == Refused({Ok(SimulationView(m)) : m \in {1, 600}} \cup {Invalid, Uncaught})

\* POST /orders/preview: the open circuit is 503, and said not to be repeatable.
Preview == Refused({Ok([quantity |-> QuantityDecimals, price |-> MoneyDecimals]),
                    Invalid, NotFound, Problem(503, "no"), Uncaught})

\* POST /orders: validation, the refusals of prepareOrder, the brokerage's answer.
Buy ==
    Refused({Invalid, NotFound, Conflict}) \cup
    {Effect(Ok(OrderView(s)), [held EXCEPT !.order = s]) :
        s \in {"UNKNOWN", "FILLED", "REJECTED"}} \cup
    {Effect(Uncaught, h) : h \in {held, [held EXCEPT !.order = "PENDING_SUBMISSION"]}}

\* PUT /me/risk-profile: one update per version; the audit may fail after it.
SaveProfile ==
    Refused({Invalid, Conflict, Uncaught}) \cup
    IF held.version = MaxVersion THEN {}
    ELSE LET after == [held EXCEPT !.version = @ + 1]
         IN  {Effect(Uncaught, after)} \cup
             {Effect(Ok([level |-> l, months |-> 120, contribution |-> MoneyDecimals,
                         version |-> after.version]), after) : l \in RiskLevels}

Modes == {"NORMAL", "TIMEOUT", "HTTP_500", "MALFORMED_RESPONSE", "ORDER_REJECT",
          "ORDER_UNKNOWN_THEN_FILLED"}
SetScenario == Refused({Ok([mode |-> m, scope |-> "GLOBAL"]) : m \in Modes} \cup {Uncaught})
Reset == Refused({Ok([mode |-> "NORMAL", scope |-> "GLOBAL"]), Uncaught})

Effects(name) ==
    CASE name = "connect" -> Connect
      [] name = "startSync" -> StartSync
      [] name = "simulate" -> Simulate
      [] name = "preview" -> Preview
      [] name = "buy" -> Buy
      [] name = "saveProfile" -> SaveProfile
      [] name = "scenario" -> SetScenario
      [] name = "reset" -> Reset
      [] OTHER -> Refused(Answers(name))

-----------------------------------------------------------------------------
(* What the client accepts *)

Money(decimals) == decimals = 4
Quantity(decimals) == decimals = 8

isPlatformHealth(b) == b.status = "ok" /\ b.service = "platform-api"
isCurrentUser(b) == b.level \in {"BALANCED", "CONSERVATIVE", "GROWTH"}
isRiskProfile(b) ==
    /\ b.level \in {"BALANCED", "CONSERVATIVE", "GROWTH"}
    /\ b.months \in 1..600
    /\ Money(b.contribution) /\ b.version >= 0
isMarketStockSearch(b) == b.items <= 30
isMarketQuote(b) == Money(b.price) /\ Money(b.change)
isMarketBars(b) == b.items <= 156 /\ b.high >= b.low
isConnection(b) == b.status \in {"ACTIVE", "REVOKED", "EXPIRED"}
isConnections(b) == b.items <= 1 /\ isConnection(b)
isSync(b) ==
    /\ b.status \in {"QUEUED", "FETCHING", "RAW_STORED", "NORMALIZING", "COMPLETED", "FAILED"}
    /\ b.counts >= 0
isSummary(b) == Money(b.total) /\ \A w \in b.weights : 0 <= w /\ w <= 100
isAccount(b) == b.masked /\ Money(b.cash)
isPage(b) == b.cursor = Null /\ Money(b.amount)
isHistory(b) == b.items <= 1000
isSimulation(b) ==
    /\ 0 <= b.goal /\ b.goal <= 100
    /\ 2 <= b.series /\ b.series <= 601
    /\ b.p10 <= b.p50 /\ b.p50 <= b.p90
isQuote(b) == Quantity(b.quantity) /\ Money(b.price)
isOrder(b) ==
    /\ b.status \in {"PENDING_SUBMISSION", "UNKNOWN", "FILLED", "REJECTED", "FAILED"}
    /\ Quantity(b.quantity) /\ Money(b.estimated)
    /\ b.filled = 0 \/ Money(b.filled)
    /\ b.after \in {0, 2000}
isOrderPage(b) == (\A o \in b.items : isOrder(o)) /\ b.next \in {Null, "uuid"}
isDeveloper(b) ==
    /\ b.mode \in {"NORMAL", "TIMEOUT", "HTTP_500", "MALFORMED_RESPONSE",
                   "ORDER_REJECT", "ORDER_UNKNOWN_THEN_FILLED"}
    /\ b.scope = "GLOBAL"

\* The guard each method of HttpPlatformApi passes to requestJson.
Validate(name, b) ==
    CASE name = "health" -> isPlatformHealth(b)
      [] name = "me" -> isCurrentUser(b)
      [] name \in {"riskProfile", "saveProfile"} -> isRiskProfile(b)
      [] name = "stocks" -> isMarketStockSearch(b)
      [] name = "quote" -> isMarketQuote(b)
      [] name = "bars" -> isMarketBars(b)
      [] name = "connections" -> isConnections(b)
      [] name = "connect" -> isConnection(b)
      [] name \in {"sync", "startSync"} -> isSync(b)
      [] name = "summary" -> isSummary(b)
      [] name = "history" -> isHistory(b)
      [] name = "account" -> isAccount(b)
      [] name \in {"accounts", "holdings", "transactions"} -> isPage(b)
      [] name \in {"simulation", "simulate"} -> isSimulation(b)
      [] name = "preview" -> isQuote(b)
      [] name \in {"order", "buy"} -> isOrder(b)
      [] name = "orders" -> isOrderPage(b)
      [] name \in {"scenario", "reset"} -> isDeveloper(b)

-----------------------------------------------------------------------------
(* The call *)

\* Mutant: mutations are repeated like queries.
RepeatedAlways(name, failures, retryable) == failures < 2 /\ retryable
\* shouldRetryQuery; a mutation is never repeated.
Repeated(name, failures, retryable) == name \in Queries /\ failures < 2 /\ retryable

\* The attempt failed: the query client asks again or gives the error out.
Failed(outcome, retryable) ==
    apiCall' = IF Repeated(apiCall.name, apiCall.failures, retryable)
            THEN [apiCall EXCEPT !.pc = "sending", !.failures = @ + 1, !.replayed = FALSE,
                              !.reply = Null]
            ELSE [apiCall EXCEPT !.pc = "ended", !.outcome = outcome, !.reply = Null]

\* A screen calls a method of its PlatformApi.
Issue(name) ==
    /\ apiCall.pc = "idle"
    /\ apiCall' = [Idle EXCEPT !.pc = "sending", !.name = name]
    /\ UNCHANGED <<backend, held>>

\* UnavailablePlatformApi rejects every method.
Unavailable ==
    /\ backend = "unavailable" /\ apiCall.pc = "sending"
    /\ Failed("network", FALSE)
    /\ UNCHANGED <<backend, held>>

\* ContractMockPlatformApi answers from its fixtures, and knows one instrument,
\* one simulation and its accounts.
MockQuery ==
    /\ backend = "mock" /\ apiCall.pc = "sending" /\ apiCall.name \in Queries
    /\ \/ apiCall' = [apiCall EXCEPT !.pc = "ended", !.outcome = "ok"]
       \/ /\ apiCall.name \in {"account", "quote", "bars", "simulation"}
          /\ Failed("http", FALSE)
       \/ /\ apiCall.name = "health"
          /\ Failed("http", TRUE)
    /\ UNCHANGED <<backend, held>>

\* It keeps the last order and the profile, which has a version here too.
MockMutation ==
    /\ backend = "mock" /\ apiCall.pc = "sending" /\ apiCall.name \in Mutations
    /\ \/ /\ apiCall' = [apiCall EXCEPT !.pc = "ended", !.executed = @ + 1, !.outcome = "ok"]
          /\ held' = CASE apiCall.name = "buy" -> [held EXCEPT !.order = "FILLED"]
                       [] apiCall.name = "reset" -> [held EXCEPT !.order = "none"]
                       [] apiCall.name = "saveProfile" /\ held.version < MaxVersion ->
                            [held EXCEPT !.version = @ + 1]
                       [] OTHER -> held
       \/ /\ apiCall.name = "saveProfile"
          /\ Failed("http", FALSE)
          /\ UNCHANGED held
    /\ UNCHANGED backend

\* The guard of the platform refuses an access token that has run out.  The
\* token is refreshed, but only a GET is sent again, and only once; a second
\* refusal ends the session, which requestJson takes for a network error.
TokenRefused ==
    /\ backend = "http" /\ apiCall.pc = "sending" /\ apiCall.name # "health"
    /\ \/ /\ apiCall.name \in Queries /\ ~apiCall.replayed
          /\ apiCall' = [apiCall EXCEPT !.replayed = TRUE]
       \/ /\ apiCall.name \in Queries /\ apiCall.replayed
          /\ Failed("network", TRUE)
       \/ /\ apiCall.name \in Mutations
          /\ Failed("http", FALSE)
    /\ UNCHANGED <<backend, held>>

\* The handler runs.
Handle ==
    /\ backend = "http" /\ apiCall.pc = "sending"
    /\ \E e \in Effects(apiCall.name) :
          /\ held' = e.after
          /\ apiCall' = [apiCall EXCEPT !.pc = "answered", !.reply = e.reply,
                                 !.executed = IF apiCall.name \in Mutations THEN @ + 1 ELSE @]
    /\ UNCHANGED backend

\* The request, its answer or the refresh of the token is lost.
Lost ==
    /\ backend = "http" /\ apiCall.pc \in {"sending", "answered"}
    /\ Failed("network", TRUE)
    /\ UNCHANGED <<backend, held>>

\* requestJson: by status and "retryable", then by the guard of the method.
Receive ==
    LET r == apiCall.reply IN
    /\ apiCall.pc = "answered"
    /\ \/ /\ r.status >= 400
          /\ Failed("http", IF r.retryable = Null THEN r.status = 429 \/ r.status >= 500
                            ELSE r.retryable = "yes")
       \/ /\ r.status < 400 /\ Validate(apiCall.name, r.body)
          /\ apiCall' = [apiCall EXCEPT !.pc = "ended", !.outcome = "ok"]
       \/ /\ r.status < 400 /\ ~Validate(apiCall.name, r.body)
          /\ Failed("contract", FALSE)
    /\ UNCHANGED <<backend, held>>

\* The caller has gone: the signal aborts the request, and nobody repeats it.
Abort ==
    /\ apiCall.pc \in {"sending", "answered"} /\ apiCall.name \in Queries
    /\ apiCall' = [apiCall EXCEPT !.pc = "ended", !.outcome = "aborted", !.reply = Null]
    /\ UNCHANGED <<backend, held>>

\* The screen has used the result; another call follows.
Used ==
    /\ apiCall.pc = "ended"
    /\ apiCall' = Idle
    /\ UNCHANGED <<backend, held>>

-----------------------------------------------------------------------------
(* Meanwhile, at the server *)

Successors == [QUEUED |-> {"FETCHING"}, FETCHING |-> {"RAW_STORED", "QUEUED", "FAILED"},
               RAW_STORED |-> {"NORMALIZING"}, NORMALIZING |-> {"COMPLETED", "QUEUED", "FAILED"}]

\* The sync worker; a completed sync leaves a snapshot of the day.
SyncProceeds ==
    /\ backend = "http" /\ held.sync \in Unfinished
    /\ \E s \in Successors[held.sync], d \in Days \cup {held.days} :
          /\ d >= held.days /\ (s = "COMPLETED" \/ d = held.days)
          /\ held' = [held EXCEPT !.sync = s, !.days = d]
    /\ UNCHANGED <<backend, apiCall>>

\* The reconciliation worker.
OrderProceeds ==
    /\ backend = "http" /\ held.order \in {"PENDING_SUBMISSION", "UNKNOWN"}
    /\ \E s \in {"FILLED", "REJECTED", "FAILED"} : held' = [held EXCEPT !.order = s]
    /\ UNCHANGED <<backend, apiCall>>

Next ==
    \/ \E name \in Queries \cup Mutations : Issue(name)
    \/ Unavailable \/ MockQuery \/ MockMutation \/ TokenRefused \/ Handle \/ Lost \/ Receive
    \/ Abort \/ Used \/ SyncProceeds \/ OrderProceeds

Spec == Init /\ [][Next]_vars

-----------------------------------------------------------------------------
(* Properties *)

\* Whatever the server has come to hold, the client's guards accept what it
\* answers of it: no screen shows a contract error that repeats for ever.
AnswersAccepted == apiCall.outcome # "contract"

\* A mutation runs at most once at the server for one call, though answers are
\* lost, tokens run out under it and queries are sent up to six times.
RunsOnce == apiCall.name \in Mutations => apiCall.executed <= 1

\* A call of the phone is served as its two sides agreed: what it changes is
\* changed once at most, and its answer is one the phone accepts.
CallsAreServed == AnswersAccepted /\ RunsOnce
=============================================================================
