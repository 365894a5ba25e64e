----------------------------- MODULE MarketCache -----------------------------
(***************************************************************************)
(* Quotes and charts of one stock as the platform serves them              *)
(* (modules/market): read the stored value, answer it while it is fresh,   *)
(* otherwise join the refresh that is running or start one, and fall back  *)
(* on the value read before if the provider fails.  Behind a refresh lies  *)
(* the access token of the KIS provider, which both kinds of refresh share.*)
(*                                                                         *)
(* A value is the time it was captured at, 0 for none.  Between the read   *)
(* of the database and the code that looks at the result other callbacks   *)
(* of the process run: Look and Decide are two steps.  The refreshes, the  *)
(* token and barRefreshAt are those of one process.  Others run beside it  *)
(* on the same database, with the same provider and clock: of them there   *)
(* is what they store (StoreElsewhere).                                    *)
(***************************************************************************)
EXTENDS Naturals

CONSTANTS
    Gets,        \* GET calls for the quote or the chart
    FreshFor,    \* MARKET_QUOTE_FRESH_SECONDS, and the same for the chart
    Wait,        \* KIS_HTTP_TIMEOUT_MS: the longest an HTTP request takes
    TokenLife,   \* expires_in of an access token
    Margin,      \* how long before its end a cached token is not used any more
    MaxTime,     \* bound on the clock
    MaxUnnoticed \* bound on the stores this process does not notice

Kinds == {"quote", "bars"}
Sources == {"KIS", "LOCAL"}

VARIABLES
    now,         \* the clock
    provider,    \* MARKET_DATA_PROVIDER of the running process
    stored,      \* per kind, the stored rows: [at, source]
    get,         \* each call: [pc, kind, cached]; pc is idle, looked, joined, over
    refresh,     \* quoteRequests, barRequests: [pc, cached, got, since, ends]; pc
                 \* none, token, fetch, save, and for a chart saved, reread
    barRefreshAt,\* time of the last chart refresh of this process, 0 for none
    token,       \* tokenCache: [until, ends] (believed and true end), 0 for none
    tokenSince,  \* start of the token request that is running, 0 for none
    unnoticed,   \* per kind, how often it was stored without this process's notice
    wentBack     \* kinds of which a call was answered an older value than it had read

memory == <<refresh, barRefreshAt, token, tokenSince>>
vars   == <<now, provider, stored, get, memory, unnoticed, wentBack>>

NoRow   == [at |-> 0, source |-> "NONE"]
Idle    == [pc |-> "idle", kind |-> "none", cached |-> NoRow]
Resting == [pc |-> "none", cached |-> NoRow, got |-> NoRow, since |-> 0, ends |-> 0]
NoToken == [until |-> 0, ends |-> 0]
\* A token that is not used any more from now on.
Ending  == [until |-> now + Margin, ends |-> now + Margin - Wait]

\* Nothing is stored yet; or a process has run for a while: the values are fresh
\* until the next tick, perhaps from before the provider was exchanged, and it
\* got its access token before (Restart forgets it).
Init ==
    /\ now = FreshFor + 2
    /\ provider \in Sources
    /\ stored \in {[k \in Kinds |-> {}]} \cup
                  {[k \in Kinds |-> {[at |-> 2, source |-> s]}] : s \in Sources}
    /\ get = [g \in Gets |-> Idle]
    /\ refresh = [k \in Kinds |-> Resting]
    /\ barRefreshAt = 0
    /\ token = IF provider = "KIS" /\ stored["quote"] # {} THEN Ending ELSE NoToken
    /\ tokenSince = 0
    /\ unnoticed = [k \in Kinds |-> 0]
    /\ wentBack = {}

-----------------------------------------------------------------------------
(* Reading and answering *)

\* latestQuote, listBars.  A chart is one row: it is replaced as a whole.
Latest(k) == IF stored[k] = {} THEN NoRow
             ELSE CHOOSE r \in stored[k] : \A o \in stored[k] : o.at <= r.at

\* Calls are answered one row, as FRESH or as STALE; or an error.
Over(calls) == get' = [g \in Gets |-> IF g \in calls THEN [Idle EXCEPT !.pc = "over"] ELSE get[g]]
Older(g, row) == 0 < row.at /\ row.at < get[g].cached.at
Answer(calls, row) ==
    /\ Over(calls)
    /\ wentBack' = wentBack \cup {get[g].kind : g \in {c \in calls : Older(c, row)}}
Fail(calls) == Over(calls) /\ UNCHANGED wentBack

Joined(k) == {g \in Gets : get[g].pc = "joined" /\ get[g].kind = k}

\* A call arrives: requireStock and the read of what is stored.
Look(g, k) ==
    /\ get[g].pc = "idle"
    /\ get' = [get EXCEPT ![g] = [pc |-> "looked", kind |-> k, cached |-> Latest(k)]]
    /\ UNCHANGED <<now, provider, stored, memory, unnoticed, wentBack>>

QuoteIsFresh(row) == row # NoRow /\ row.source = provider /\ now - row.at <= FreshFor
BarsAreFresh(row) == row # NoRow /\ barRefreshAt > 0 /\ barRefreshAt + FreshFor > now
IsFresh(k, row) == IF k = "quote" THEN QuoteIsFresh(row) ELSE BarsAreFresh(row)

\* Mutant: a token is used up to its last second.
UsableToTheEnd == provider = "LOCAL" \/ token.until > now
\* getAccessToken is content with the token it has.  LOCAL needs none.
Usable == provider = "LOCAL" \/ token.until > now + Margin

\* A refresh with what the call that starts it has read, up to its first await.
StartRefresh(k, row) ==
    LET begun == [Resting EXCEPT !.cached = row, !.since = now] IN
    \/ /\ Usable
       /\ refresh' = [refresh EXCEPT ![k] = [begun EXCEPT !.pc = "fetch", !.ends = token.ends]]
       /\ UNCHANGED tokenSince
    \/ /\ ~Usable
       /\ refresh' = [refresh EXCEPT ![k] = [begun EXCEPT !.pc = "token"]]
       /\ tokenSince' = IF tokenSince = 0 THEN now ELSE tokenSince

\* quote() and bars() after their read: answer, join or start.
Decide(g) ==
    LET k == get[g].kind
        row == get[g].cached
    IN
    /\ get[g].pc = "looked"
    /\ \/ /\ IsFresh(k, row)
          /\ Answer({g}, row)
          /\ UNCHANGED memory
       \/ /\ ~IsFresh(k, row)
          /\ get' = [get EXCEPT ![g].pc = "joined"]
          /\ IF refresh[k].pc = "none" THEN StartRefresh(k, row)
                                       ELSE UNCHANGED <<refresh, tokenSince>>
          /\ UNCHANGED <<barRefreshAt, token, wentBack>>
    /\ UNCHANGED <<now, provider, stored, unnoticed>>

-----------------------------------------------------------------------------
(* The refresh *)

\* The catch of refreshQuote and refreshBars, for an error of the provider.
FallBack(k) == IF refresh[k].cached # NoRow THEN Answer(Joined(k), refresh[k].cached)
                                            ELSE Fail(Joined(k))

\* Refreshes that wait for the token request.
AwaitToken == {k \in Kinds : refresh[k].pc = "token"}

\* requestAccessToken is answered.  The provider issued the token at some time
\* since the request; the cache counts its life from now.
TokenAnswered(issued) ==
    /\ tokenSince # 0 /\ issued \in tokenSince..now
    /\ token' = [until |-> now + TokenLife, ends |-> issued + TokenLife]
    /\ tokenSince' = 0
    /\ refresh' = [k \in Kinds |-> IF k \in AwaitToken
                     THEN [refresh[k] EXCEPT !.pc = "fetch", !.since = now,
                                             !.ends = issued + TokenLife]
                     ELSE refresh[k]]
    /\ UNCHANGED <<now, provider, stored, get, wentBack, barRefreshAt, unnoticed>>

\* It fails, or its time is over: so do the refreshes that wait for it.  Each
\* falls back on what it had; they are answered together.
TokenFailed ==
    /\ tokenSince # 0
    /\ tokenSince' = 0
    /\ LET waiting == {g \in Gets : \E k \in AwaitToken : g \in Joined(k)}
           older == {g \in waiting : Older(g, refresh[get[g].kind].cached)}
       IN  Over(waiting) /\ wentBack' = wentBack \cup {get[g].kind : g \in older}
    /\ refresh' = [k \in Kinds |-> IF k \in AwaitToken THEN Resting ELSE refresh[k]]
    /\ UNCHANGED <<now, provider, stored, barRefreshAt, token, unnoticed>>

\* The provider's answer arrives.  A chart may come without bars.
Fetched(k) ==
    /\ refresh[k].pc = "fetch"
    /\ \E at \in IF k = "bars" THEN {now, 0} ELSE {now} :
          refresh' = [refresh EXCEPT ![k].pc = "save",
                                     ![k].got = [at |-> at, source |-> provider]]
    /\ UNCHANGED <<now, provider, stored, get, wentBack, barRefreshAt, token,
                   tokenSince, unnoticed>>

\* No answer, a refusal, too many requests, an answer that makes no sense.
FetchFailed(k) ==
    /\ refresh[k].pc = "fetch" /\ provider = "KIS"
    /\ FallBack(k)
    /\ refresh' = [refresh EXCEPT ![k] = Resting]
    /\ UNCHANGED <<now, provider, stored, barRefreshAt, token, tokenSince,
                   unnoticed>>

\* saveQuote inserts, replaceBars deletes and inserts in one transaction.
Written(k, row) ==
    CASE k = "quote"                -> stored[k] \cup {row}
      [] k = "bars" /\ row.at = 0  -> {}
      [] k = "bars" /\ row.at # 0  -> {row}

\* The quote is stored: its calls are answered what was fetched.
SaveQuote ==
    LET row == refresh["quote"].got IN
    /\ refresh["quote"].pc = "save"
    /\ stored' = [stored EXCEPT !["quote"] = Written("quote", row)]
    /\ Answer(Joined("quote"), row)
    /\ refresh' = [refresh EXCEPT !["quote"] = Resting]
    /\ UNCHANGED <<now, provider, barRefreshAt, token, tokenSince, unnoticed>>

\* The transaction of replaceBars commits.
ReplaceBars ==
    /\ refresh["bars"].pc = "save"
    /\ stored' = [stored EXCEPT !["bars"] = Written("bars", refresh["bars"].got)]
    /\ refresh' = [refresh EXCEPT !["bars"].pc = "saved"]
    /\ UNCHANGED <<now, provider, get, wentBack, barRefreshAt, token,
                   tokenSince, unnoticed>>

\* Mutant: the time of the refresh is not kept.
ForgetRefresh ==
    /\ refresh["bars"].pc = "saved"
    /\ refresh' = [refresh EXCEPT !["bars"].pc = "reread"]
    /\ UNCHANGED <<now, provider, stored, get, wentBack, barRefreshAt, token,
                   tokenSince, unnoticed>>
\* refreshBars goes on: barRefreshAt is set, the chart is read again.
NoteRefresh ==
    /\ refresh["bars"].pc = "saved"
    /\ barRefreshAt' = now
    /\ refresh' = [refresh EXCEPT !["bars"].pc = "reread"]
    /\ UNCHANGED <<now, provider, stored, get, wentBack, token, tokenSince,
                   unnoticed>>

\* The chart that was read again is the answer.
AnswerChart ==
    /\ refresh["bars"].pc = "reread"
    /\ Answer(Joined("bars"), Latest("bars"))
    /\ refresh' = [refresh EXCEPT !["bars"] = Resting]
    /\ UNCHANGED <<now, provider, stored, barRefreshAt, token, tokenSince,
                   unnoticed>>

\* The kind is stored and this process does not know it.
Unnoticed(k) ==
    /\ unnoticed["quote"] + unnoticed["bars"] < MaxUnnoticed
    /\ unnoticed' = [unnoticed EXCEPT ![k] = @ + 1]

\* An error of the database is not recoverable: the callers get it, before or
\* after the commit, or instead of its answer.
SaveFailed(k) ==
    /\ refresh[k].pc \in {"save", "reread"}
    /\ Fail(Joined(k))
    /\ refresh' = [refresh EXCEPT ![k] = Resting]
    /\ \/ UNCHANGED <<stored, unnoticed>>
       \/ /\ refresh[k].pc = "save"
          /\ stored' = [stored EXCEPT ![k] = Written(k, refresh[k].got)]
          /\ Unnoticed(k)
    /\ UNCHANGED <<now, provider, barRefreshAt, token, tokenSince>>

-----------------------------------------------------------------------------
(* Time and the processes *)

\* HTTP requests end within Wait.  The database answers within the tick.
Tick ==
    /\ now < MaxTime
    /\ \A g \in Gets : get[g].pc # "looked"
    /\ \A k \in Kinds : /\ refresh[k].pc \notin {"save", "saved", "reread"}
                        /\ refresh[k].pc = "fetch" => now < refresh[k].since + Wait
    /\ tokenSince # 0 => now < tokenSince + Wait
    /\ now' = now + 1
    /\ UNCHANGED <<provider, stored, get, wentBack, memory, unnoticed>>

\* The process is restarted.  (When the provider is exchanged, all processes end
\* at once: that is another behaviour, which begins with what is stored.)
Restart ==
    /\ refresh' = [k \in Kinds |-> Resting]
    /\ barRefreshAt' = 0
    /\ token' = NoToken
    /\ tokenSince' = 0
    /\ Fail({g \in Gets : get[g].pc \in {"looked", "joined"}})
    /\ UNCHANGED <<now, provider, stored, unnoticed>>

\* Another process stores what it has fetched.
StoreElsewhere(k) ==
    /\ \E at \in IF k = "bars" THEN {now, 0} ELSE {now} :
          stored' = [stored EXCEPT ![k] = Written(k, [at |-> at, source |-> provider])]
    /\ Unnoticed(k)
    /\ UNCHANGED <<now, provider, get, wentBack, memory>>

Next ==
    \/ \E g \in Gets : (\E k \in Kinds : Look(g, k)) \/ Decide(g)
    \/ \E k \in Kinds : Fetched(k) \/ FetchFailed(k) \/ SaveFailed(k) \/ StoreElsewhere(k)
    \/ SaveQuote \/ ReplaceBars \/ NoteRefresh \/ AnswerChart
    \/ \E t \in 1..MaxTime : TokenAnswered(t)
    \/ TokenFailed \/ Tick \/ Restart

Spec == Init /\ [][Next]_vars

-----------------------------------------------------------------------------
(* Properties *)

\* Nobody is answered a quote older than the newest that any process had
\* stored when they asked, though the quote a refresh falls back on was read by
\* the call that started it and not by those that joined it.  It needs a value
\* to stay fresh for as long as the token request and the fetch take together.
\* The same holds of charts until one is stored that the barRefreshAt of this
\* process knows nothing of.
NeverRollsBack ==
    /\ "quote" \notin wentBack
    /\ "bars" \in wentBack => unnoticed["bars"] > 0

\* While a request is on its way with an access token the token is accepted,
\* though the cache counts its life from the arrival of the answer.
TokenAccepted ==
    \A k \in Kinds : refresh[k].pc = "fetch" /\ provider = "KIS" => refresh[k].ends > now
=============================================================================
