------------------------------ MODULE ChartBars ------------------------------
(***************************************************************************)
(* The chart of one stock in one interval: what the provider answers, how  *)
(* it is stored and what is shown of it (modules/market).  A bar belongs   *)
(* to a bucket, a minute up to a year that starts at its first instant.    *)
(* Older versions stored bars at any instant of their bucket; the reader   *)
(* and a repair command cope with what they have left behind.              *)
(*                                                                         *)
(* A bar is the instant it is dated at and an id, which stands for prices  *)
(* and volume and orders the bars of one instant as the answer does.  Bars *)
(* are kept as sets: every list of them is sorted by instant.              *)
(***************************************************************************)
EXTENDS Naturals, FiniteSets, FiniteSetsExt

CONSTANTS
    End,      \* the last instant
    Width,    \* instants of a bucket
    Limit,    \* MARKET_BAR_LIMITS of the interval
    MaxRows   \* bound on the rows of an answer

VARIABLES
    barSource,  \* MARKET_DATA_PROVIDER, also the source of the rows that are stored
    listed,     \* the stock is in finapp_market_instrument
    storedBars, \* finapp_market_price_bar: at most one row of an instant
    shown,      \* the chart that was answered last
    basis       \* history: the bars it was made from

vars == <<barSource, listed, storedBars, shown, basis>>

Instants == 0..End
Bar(at, id) == [at |-> at, id |-> id]

\* What is stored is empty, or what an older version wrote.
Init ==
    /\ barSource \in {"KIS", "LOCAL"}
    /\ listed \in BOOLEAN
    /\ \E written \in SUBSET Instants : storedBars = {Bar(t, t) : t \in written}
    /\ shown = {} /\ basis = {}

-----------------------------------------------------------------------------
(* Buckets *)

\* normalizeMarketBucketAt
Bucket(t) == t - (t % Width)
Buckets(bars) == {Bucket(b.at) : b \in bars}
Before(a, b) == a.at < b.at \/ (a.at = b.at /\ a.id < b.id)

\* The map of the buckets is filled in ascending order: the last bar stays.
Latest(bars) == CHOOSE b \in bars : \A o \in bars \ {b} : Before(o, b)

\* deduplicateMarketBars
Deduplicate(bars) ==
    {Bar(u, Latest({b \in bars : Bucket(b.at) = u}).id) : u \in Buckets(bars)}

\* The last n of a list, or the first n of a descending one.
Newest(n, bars) == {b \in bars : Cardinality({o \in bars : Before(b, o)}) < n}

\* listBars reads more rows than it needs buckets, for rows of one bucket.
Fetched(bars) == Newest(Min({Limit * 8, 1000}), bars)
Chart(bars) == Newest(Limit, Deduplicate(Fetched(bars)))

-----------------------------------------------------------------------------
(* Providers *)

\* Mutant: the limit before the buckets.
LimitedFirst(rows) == Deduplicate(Newest(Limit, rows))
\* KisMarketDataAdapter: the rows that make sense, one of each bucket, not more
\* than the limit.
KisBars(rows) == Newest(Limit, Deduplicate(rows))

\* LocalMarketDataAdapter: as many bars as the limit, up to a fixed instant.
LocalBars == {Bar(Bucket(End) - i * Width, i) : i \in 0..(Limit - 1)}

-----------------------------------------------------------------------------
(* Operations *)

Show(bars) == shown' = Chart(bars) /\ basis' = bars

\* The commands that fill the catalogue.  A stock that is not in the file any
\* more stays as it is.
SyncInstruments ==
    /\ listed' = TRUE
    /\ UNCHANGED <<barSource, storedBars, shown, basis>>

\* bars() from what is stored: fresh, or stale after an error of the provider.
ShowStored ==
    /\ listed
    /\ Show(storedBars)
    /\ UNCHANGED <<barSource, listed, storedBars>>

\* refreshBars: replaceBars deletes and inserts in one transaction, and what is
\* read back is answered.
Replace(bars) ==
    /\ storedBars' = Deduplicate(bars)
    /\ shown' = Deduplicate(Chart(storedBars'))
    /\ UNCHANGED <<barSource, listed>>

\* The rows of an answer that make sense, by their place in it.  When none of
\* its rows does, the answer is an error.
RefreshFromKis ==
    /\ listed /\ barSource = "KIS"
    /\ \E n \in 0..MaxRows : \E at \in [1..n -> Instants] :
          LET rows == {Bar(at[i], i) : i \in 1..n}
          IN  Replace(KisBars(rows)) /\ basis' = rows

RefreshFromLocal ==
    /\ listed /\ barSource = "LOCAL"
    /\ Replace(LocalBars)
    /\ basis' = LocalBars

\* The rows that the repair leaves, moved to the start of their bucket.
Repaired(rows) ==
    LET duplicates == {b \in rows : \E o \in rows : Bucket(o.at) = Bucket(b.at) /\ Before(b, o)}
    IN  {Bar(Bucket(b.at), b.id) : b \in rows \ duplicates}

\* market-repair-local-bars-cli --execute, in one transaction.
Repair ==
    /\ barSource = "LOCAL"
    /\ storedBars' = Repaired(storedBars)
    /\ UNCHANGED <<barSource, listed, shown, basis>>

Next == SyncInstruments \/ ShowStored \/ RefreshFromKis \/ RefreshFromLocal \/ Repair

Spec == Init /\ [][Next]_vars

-----------------------------------------------------------------------------
(* Properties *)

\* A chart shows the newest buckets there are, as many as its limit lets it,
\* and of each the bar that came last: nothing is lost between the rows of a
\* provider and the screen, though they are cut, stored and read back, and rows
\* of one bucket are merged at every stage; and the repair of what older
\* versions stored would change no chart.
ChartIsNewest ==
    /\ Cardinality(shown) = Min({Limit, Cardinality(Buckets(basis))})
    /\ \A c \in shown :
          \E b \in basis :
             /\ b.id = c.id /\ Bucket(b.at) = c.at
             /\ \A o \in basis \ {b} : Bucket(o.at) = c.at => Before(o, b)
    /\ \A u \in Buckets(basis) : \A c \in shown : u > c.at => \E d \in shown : d.at = u
    /\ Chart(Repaired(storedBars)) = Chart(storedBars)
=============================================================================
