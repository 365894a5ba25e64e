------------------------------ MODULE AssetData ------------------------------
(***************************************************************************)
(* What a sync makes of the pages of an institution, and what the wealth   *)
(* API shows of it: accounts with their cash, holdings, transactions, and  *)
(* one snapshot of the totals per day.  The three pages are fetched one    *)
(* apart from the other while the institution goes on; completeSync then   *)
(* writes everything in one transaction.  Orders move the cash of the same *)
(* rows (OrderSettlement models them, here only their amounts).            *)
(*                                                                         *)
(* Quantities have `Scale` parts, as the code's have 10^8.  Amounts are    *)
(* whole numbers of the smallest unit.                                     *)
(***************************************************************************)
EXTENDS Integers, FiniteSets, FiniteSetsExt, Functions

CONSTANTS Accounts,    \* numbers; the first is open from the start
          Codes,       \* numbers of the instruments; their order is that of the holdings' ids
          Cash,        \* the balances an account may have at the institution
          Quantities,  \* what may be held of an instrument
          Scale,       \* 10^8 in the code
          MaxMoves,    \* the number of the institution's moves
          MaxDay,      \* the last day
          MaxSyncs,
          Limit        \* the points a history may have: 1000 in the code for ALL

VARIABLES book,        \* the institution: [cash |-> balance of each account,
                       \* held |-> set of holdings, log |-> transactions]
          day, moves, syncs,
          pages,       \* the pages of the running sync: a function on those that have arrived
          cash,        \* finapp_cash_account: account -> [available, reserved]
          holdings,    \* finapp_holding: set of rows
          transactions,
          snapshots,   \* finapp_asset_snapshot with its allocations: day -> totals
          touched      \* history: since the last sync an order spent cash; or the last
                       \* sync left a holding that is gone, wrote the snapshot of an
                       \* earlier day, or set the cash of an account with a reservation

vars == <<book, day, moves, syncs, pages, cash, holdings, transactions, snapshots, touched>>

\* Instruments 1 and 2 are of one class.
ClassOf(code) == IF code <= 2 THEN "EQUITY" ELSE "BOND"

Price(code) == code + 1

Worth(h) == (h.quantity * Price(h.code)) \div Scale

\* As many elements as the numbers of a function have units, and how many they
\* are: the sum of the numbers.
Units(f) == UNION {{x} \X (1..f[x]) : x \in DOMAIN f}
SumOf(f) == Cardinality(Units(f))

\* A function that has the value v at k, too.
With(f, k, v) == [x \in DOMAIN f \cup {k} |-> IF x = k THEN v ELSE f[x]]

Value(held) == SumOf([h \in held |-> Worth(h)])

Row(h) == <<h.account, h.code>>

\* Ordered by externalHoldingId.
LastOf(held) ==
    CHOOSE h \in held : \A g \in held : 10 * g.code + g.account <= 10 * h.code + h.account

Syncing == DOMAIN pages # {}

Init ==
    /\ book = [cash |-> [a \in {1} |-> Max(Cash)],
               held |-> {[account |-> 1, code |-> 1, quantity |-> Max(Quantities), asOf |-> 1]},
               log |-> {0}]
    /\ day = 1
    /\ moves = 0
    /\ syncs = 0
    /\ pages = <<>>
    /\ cash = <<>>
    /\ holdings = {}
    /\ transactions = {}
    /\ snapshots = <<>>
    /\ touched = FALSE

-----------------------------------------------------------------------------
(* The institution, between any two of the platform's calls. *)

Moves == moves < MaxMoves /\ moves' = moves + 1

Deposit == \E a \in Accounts, c \in Cash :
    /\ Moves
    /\ book' = [book EXCEPT !.cash = With(@, a, c), !.log = @ \cup {moves'}]
    /\ UNCHANGED touched

Trade == \E a \in DOMAIN book.cash, code \in Codes, q \in Quantities :
    /\ Moves
    /\ LET others == {h \in book.held : Row(h) # <<a, code>>}
           bought == [account |-> a, code |-> code, quantity |-> q, asOf |-> day]
       IN book' = [book EXCEPT !.held = others \cup {bought}]
    /\ UNCHANGED touched

Sell == \E h \in book.held :
    /\ Moves
    /\ book' = [book EXCEPT !.held = @ \ {h}]
    /\ UNCHANGED touched

Institution == /\ Deposit \/ Trade \/ Sell
               /\ UNCHANGED <<day, syncs, pages, cash, holdings, transactions, snapshots>>

NextDay ==
    /\ day < MaxDay
    /\ day' = day + 1
    /\ UNCHANGED <<book, moves, syncs, pages, cash, holdings, transactions, snapshots, touched>>

-----------------------------------------------------------------------------
(* A sync: fetchDataset asks for the three pages at once, each answers with *)
(* what the book is at its moment.                                          *)

Page(kind) == CASE kind = "accounts"     -> book.cash
                [] kind = "holdings"     -> book.held
                [] kind = "transactions" -> book.log

FetchPage == \E kind \in {"accounts", "holdings", "transactions"} \ DOMAIN pages :
    /\ syncs < MaxSyncs
    /\ pages' = With(pages, kind, Page(kind))
    /\ UNCHANGED <<book, day, moves, syncs, cash, holdings, transactions, snapshots, touched>>

Complete == DOMAIN pages = {"accounts", "holdings", "transactions"}

\* "Holding references an unknown account."
Known == \A h \in pages.holdings : h.account \in DOMAIN pages.accounts

\* An account that is no longer reported keeps its row, and a holding too.
UpsertedAccounts ==
    [a \in DOMAIN cash \cup DOMAIN pages.accounts |->
        IF a \notin DOMAIN pages.accounts THEN cash[a]
        ELSE [available |-> pages.accounts[a],
              reserved  |-> IF a \in DOMAIN cash THEN cash[a].reserved ELSE 0]]

\* Mutant: rows that exist already keep what they say.
InsertedHoldings ==
    holdings \cup {h \in pages.holdings : \A g \in holdings : Row(g) # Row(h)}

UpsertedHoldings ==
    pages.holdings \cup {h \in holdings : \A g \in pages.holdings : Row(g) # Row(h)}

SnapshotDate == IF pages.holdings = {} THEN day ELSE LastOf(pages.holdings).asOf

Investments(class) == Value({h \in pages.holdings : ClassOf(h.code) = class})

Allocation ==
    LET amount == [class \in {"CASH"} \cup {ClassOf(h.code) : h \in pages.holdings} |->
                       IF class = "CASH" THEN SumOf(pages.accounts) ELSE Investments(class)]
    IN Restrict(amount, {class \in DOMAIN amount : amount[class] > 0})

Snapshot ==
    LET c == SumOf(pages.accounts)
        i == SumOf([class \in {ClassOf(h.code) : h \in pages.holdings} |-> Investments(class)])
    IN [total |-> c + i, cash |-> c, investments |-> i, allocation |-> Allocation]

CompleteSync ==
    /\ Complete /\ Known
    /\ cash' = UpsertedAccounts
    /\ holdings' = UpsertedHoldings
    /\ transactions' = transactions \cup pages.transactions
    /\ snapshots' = With(snapshots, SnapshotDate, Snapshot)
    /\ touched' = \/ \E h \in holdings' : Row(h) \notin {Row(g) : g \in pages.holdings}
                  \/ \E d \in DOMAIN snapshots : d > SnapshotDate
                  \/ \E a \in DOMAIN cash : cash[a].reserved > 0
    /\ pages' = <<>>
    /\ syncs' = syncs + 1
    /\ UNCHANGED <<book, day, moves>>

\* The transaction rolls back, or the circuit is open, or the answer lost: the
\* pages are fetched again by a later attempt.
Reschedule ==
    /\ Syncing
    /\ ~(Complete /\ Known)
    /\ syncs' = syncs + 1
    /\ pages' = <<>>
    /\ UNCHANGED <<book, day, moves, cash, holdings, transactions, snapshots, touched>>

-----------------------------------------------------------------------------
(* Orders on the same rows, one unit at a time. *)

Reserve == \E a \in DOMAIN cash :
    /\ cash[a].available >= 1 /\ cash[a].reserved = 0
    /\ cash' = [cash EXCEPT ![a] = [available |-> @.available - 1, reserved |-> @.reserved + 1]]
    /\ UNCHANGED touched

Settle == \E a \in DOMAIN cash :
    /\ cash[a].reserved >= 1
    /\ cash' = [cash EXCEPT ![a].reserved = @ - 1]
    /\ touched' = TRUE

Release == \E a \in DOMAIN cash :
    /\ cash[a].reserved >= 1
    /\ cash' = [cash EXCEPT ![a] = [available |-> @.available + 1, reserved |-> @.reserved - 1]]
    /\ UNCHANGED touched

Order == /\ Reserve \/ Settle \/ Release
         /\ UNCHANGED <<book, day, moves, syncs, pages, holdings, transactions, snapshots>>

Next == Institution \/ NextDay \/ FetchPage \/ CompleteSync \/ Reschedule \/ Order

Spec == Init /\ [][Next]_vars

-----------------------------------------------------------------------------
(* What the API answers. *)

Summary ==
    IF snapshots = <<>> THEN [total |-> 0, cash |-> 0, investments |-> 0, allocation |-> <<>>]
    ELSE snapshots[Max(DOMAIN snapshots)]

AccountsView == [a \in DOMAIN cash |-> cash[a].available]

HoldingsView == [h \in holdings |-> Worth(h)]

\* The first days are returned when there are more than the limit.
History == {d \in DOMAIN snapshots : Cardinality({e \in DOMAIN snapshots : e <= d}) <= Limit}

Reserved == [a \in DOMAIN cash |-> cash[a].reserved]

\* The total of the summary is the sum of what the accounts have: cash, reserved
\* or not, and the value of every holding.
TotalIsSum == Summary.total = SumOf(AccountsView) + SumOf(Reserved) + SumOf(HoldingsView)

\* The same, as far as the syncs alone can keep it: after a sync that left no
\* holding behind, wrote the snapshot of the latest day and met no reservation,
\* until an order spends cash, total and accounts agree; every snapshot's
\* allocation adds up to its total with one row per class; and the history ends
\* where the summary is, while it is within the limit.
SyncedTotalIsSum ==
    /\ ~touched => TotalIsSum
    /\ \A d \in DOMAIN snapshots :
          /\ SumOf(snapshots[d].allocation) = snapshots[d].total
          /\ snapshots[d].total = snapshots[d].cash + snapshots[d].investments
    /\ snapshots # <<>> /\ Cardinality(DOMAIN snapshots) <= Limit
          => Max(History) = Max(DOMAIN snapshots)
=============================================================================
