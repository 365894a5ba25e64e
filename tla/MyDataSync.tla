----------------------------- MODULE MyDataSync -----------------------------
(***************************************************************************)
(* Synchronisation of a customer's data with an institution (modules/      *)
(* mydata): jobs that a request or the scheduler creates, at most one      *)
(* active per connection; runs that claim a job, fetch the dataset outside *)
(* any transaction and store it in one; retries with a limit; and the      *)
(* recovery of jobs whose run has been silent for longer than the lease.   *)
(*                                                                         *)
(* Unlike the workers of the trading module a run is not named in the row  *)
(* it claims (locked_by is the process and is never compared): completing  *)
(* and rescheduling select the job by its id and status alone.  A dataset  *)
(* is the version of the institution's data it was fetched from.           *)
(***************************************************************************)
EXTENDS Naturals, FiniteSets

CONSTANTS
    Connections,   \* institution connections
    Jobs,          \* rows that finapp_sync_job may get
    Runs,          \* calls of runSync that can be under way at a time
    MaxAttempts,   \* MYDATA_SYNC_MAX_ATTEMPTS
    MaxVersion,    \* bound on the changes of an institution's data
    MaxFaults,     \* bound on crashes, failed commits and overrun leases
    NoConnection, NoJob

ASSUME CountsAssumption ==
    MaxAttempts \in Nat \ {0} /\ MaxVersion \in Nat /\ MaxFaults \in Nat
ASSUME NoneAssumption == NoConnection \notin Connections /\ NoJob \notin Jobs

VARIABLES
    job,       \* finapp_sync_job: [status, attempt, connection]
    data,      \* version of the normalised data and snapshot of a connection
    consent,   \* connections whose consent has not expired
    run,       \* where each run is: [pc, job, version, attempt]
    inst,      \* version of the data the institution has
    asOf,      \* history: inst when the job was created
    outlived,  \* history: a job was taken from a run that was still at it
    faults

vars == <<job, data, consent, run, inst, asOf, outlived, faults>>

\* RAW_STORED and NORMALIZING exist only inside the storing transaction.
Active == {"QUEUED", "FETCHING"}
Final  == {"COMPLETED", "FAILED"}

NoRow == [status |-> "NONE", attempt |-> 0, connection |-> NoConnection]
Idle  == [pc |-> "idle", job |-> NoJob, version |-> 0, attempt |-> 0]

Init ==
    /\ job = [j \in Jobs |-> NoRow]
    /\ data = [c \in Connections |-> 0]
    /\ consent = Connections
    /\ run = [r \in Runs |-> Idle]
    /\ inst = [c \in Connections |-> 1]
    /\ asOf = [j \in Jobs |-> 0]
    /\ outlived = FALSE
    /\ faults = 0

ActiveJobs(c) == {j \in Jobs : job[j].connection = c /\ job[j].status \in Active}
Working(j)    == {r \in Runs : run[r].job = j}

Fault == faults < MaxFaults /\ faults' = faults + 1

Go(r, pc) == run' = [run EXCEPT ![r].pc = pc]

-----------------------------------------------------------------------------
\* createSync inserts a job unless the connection has an active one (the
\* partial unique index decides between two that try at a time).
Insert(c, j) ==
    /\ ActiveJobs(c) = {} /\ job[j] = NoRow
    /\ job' = [job EXCEPT ![j] = [status |-> "QUEUED", attempt |-> 0, connection |-> c]]
    /\ asOf' = [asOf EXCEPT ![j] = inst[c]]
    /\ UNCHANGED <<data, consent, run, inst, outlived, faults>>

\* POST /mydata/syncs asks for no consent; the scheduler does.
RequestSync(c, j)  == Insert(c, j)
ScheduleSync(c, j) == c \in consent /\ Insert(c, j)

\* WHERE status = 'QUEUED'.
\* Mutants: a job that was listed as due is taken without looking again; a job
\* is not taken for its last attempt.
ClaimableLess(j) == job[j].status = "QUEUED" /\ job[j].attempt + 1 < MaxAttempts
ClaimableActive(j) == job[j].status \in Active
Claimable(j) == job[j].status = "QUEUED"

\* beginSync, called in the process that created the job or by the scheduler
\* for a job that is due.  It does nothing unless the job is still queued.
Begin(r, j) ==
    /\ run[r] = Idle
    /\ Claimable(j)
    /\ job' = [job EXCEPT ![j].status = "FETCHING", ![j].attempt = @ + 1]
    /\ run' = [run EXCEPT ![r] = [pc |-> "fetching", job |-> j,
                                  version |-> 0, attempt |-> 0]]
    /\ UNCHANGED <<data, consent, inst, asOf, outlived, faults>>

\* fetchDataset answers, or fails (as may the audit record and the decryption
\* of the customer id before it).
Fetch(r) ==
    /\ run[r].pc = "fetching"
    /\ \/ run' = [run EXCEPT ![r].pc = "fetched",
                             ![r].version = inst[job[run[r].job].connection]]
       \/ Go(r, "failing")
    /\ UNCHANGED <<job, data, consent, inst, asOf, outlived, faults>>

\* completeSync reads the job without a lock.
Fetchable(r) == job[run[r].job].status = "FETCHING"

CheckFetching(r) ==
    /\ run[r].pc = "fetched"
    /\ Go(r, IF Fetchable(r) THEN "storing" ELSE "failing")
    /\ UNCHANGED <<job, data, consent, inst, asOf, outlived, faults>>

\* The rest of completeSync, which selects the job by its id.  On its way it
\* makes the job active again, which the partial unique index refuses if
\* another job of the connection is active.
\* Mutant: the status is written before the data and outside the transaction.
StoredLater(j, version) ==
    /\ job' = [job EXCEPT ![j].status = "COMPLETED"]
    /\ data' \in {data, [data EXCEPT ![job[j].connection] = version]}
Stored(j, version) ==
    /\ job' = [job EXCEPT ![j].status = "COMPLETED"]
    /\ data' = [data EXCEPT ![job[j].connection] = version]

Commit(r) ==
    LET j == run[r].job IN
    /\ run[r].pc = "storing"
    /\ IF ActiveJobs(job[j].connection) \subseteq {j}
       THEN /\ Stored(j, run[r].version)
            /\ run' = [run EXCEPT ![r] = Idle]
       ELSE /\ UNCHANGED <<job, data>>
            /\ Go(r, "failing")
    /\ UNCHANGED <<consent, inst, asOf, outlived, faults>>

\* The transaction is rolled back, or its answer or the audit record after it
\* is lost: the run takes the sync for failed.
CommitFails(r) ==
    LET j == run[r].job IN
    /\ Fault
    /\ run[r].pc = "storing"
    /\ \/ UNCHANGED <<job, data>>
       \/ /\ ActiveJobs(job[j].connection) \subseteq {j}
          /\ Stored(j, run[r].version)
    /\ Go(r, "failing")
    /\ UNCHANGED <<consent, inst, asOf, outlived>>

\* The status after a failure of an attempt.
Retried(n) == IF n >= MaxAttempts THEN "FAILED" ELSE "QUEUED"

\* rescheduleOrFailSync reads the attempts, then updates the job if it is
\* active, whoever is at it.
Reschedulable(j) == job[j].status \in Active

ReadAttempt(r) ==
    /\ run[r].pc = "failing"
    /\ run' = [run EXCEPT ![r].pc = "rescheduling", ![r].attempt = job[run[r].job].attempt]
    /\ UNCHANGED <<job, data, consent, inst, asOf, outlived, faults>>

Reschedule(r) ==
    LET j == run[r].job IN
    /\ run[r].pc = "rescheduling"
    /\ IF Reschedulable(j)
       THEN job' = [job EXCEPT ![j].status = Retried(run[r].attempt)]
       ELSE UNCHANGED job
    /\ run' = [run EXCEPT ![r] = Idle]
    /\ UNCHANGED <<data, consent, inst, asOf, outlived, faults>>

\* The process dies, or rescheduling fails too.
RunStops(r) ==
    /\ Fault
    /\ run[r] # Idle
    /\ run' = [run EXCEPT ![r] = Idle]
    /\ UNCHANGED <<job, data, consent, inst, asOf, outlived>>

\* recoverStaleSyncs: the job's run has been silent for the lease's time.
Recover(j) ==
    /\ job[j].status = "FETCHING"
    /\ IF Working(j) = {} THEN UNCHANGED <<outlived, faults>> ELSE outlived' = TRUE /\ Fault
    /\ job' = [job EXCEPT ![j].status = Retried(job[j].attempt)]
    /\ UNCHANGED <<data, consent, run, inst, asOf>>

\* The consent runs out, and the institution's data change.
ConsentExpires(c) ==
    /\ c \in consent
    /\ consent' = consent \ {c}
    /\ UNCHANGED <<job, data, run, inst, asOf, outlived, faults>>

InstitutionChanges(c) ==
    /\ inst[c] < MaxVersion
    /\ inst' = [inst EXCEPT ![c] = @ + 1]
    /\ UNCHANGED <<job, data, consent, run, asOf, outlived, faults>>

-----------------------------------------------------------------------------
Step(r) == Fetch(r) \/ CheckFetching(r) \/ Commit(r) \/ ReadAttempt(r) \/ Reschedule(r)

Next ==
    \/ \E c \in Connections :
          \/ \E j \in Jobs : RequestSync(c, j) \/ ScheduleSync(c, j)
          \/ ConsentExpires(c) \/ InstitutionChanges(c)
    \/ \E j \in Jobs :
          \/ \E r \in Runs : Begin(r, j)
          \/ Recover(j)
    \/ \E r \in Runs : Step(r) \/ CommitFails(r) \/ RunStops(r)

Spec == Init /\ [][Next]_vars

\* A run goes on (its calls time out), and every tick of the scheduler
\* recovers what is stale and begins what is due.
FairSpec ==
    /\ Spec
    /\ \A r \in Runs : WF_vars(Step(r))
    /\ \A j \in Jobs : /\ SF_vars(\E r \in Runs : Begin(r, j))
                       /\ SF_vars(Working(j) = {} /\ Recover(j))

-----------------------------------------------------------------------------
(* Properties *)

TypeOK ==
    /\ job \in [Jobs -> [status : {"NONE"} \cup Active \cup Final, attempt : Nat,
                         connection : Connections \cup {NoConnection}]]
    /\ data \in [Connections -> Nat]
    /\ consent \subseteq Connections
    /\ run \in [Runs -> [pc : {"idle", "fetching", "fetched", "storing", "failing", "rescheduling"},
                         job : Jobs \cup {NoJob}, version : Nat, attempt : Nat]]
    /\ inst \in [Connections -> Nat] /\ asOf \in [Jobs -> Nat]
    /\ outlived \in BOOLEAN /\ faults \in Nat

\* While no run outlives its lease, a completed sync leaves the connection with
\* data at least as new as what the institution had when the sync was asked for.
CompletedIsFresh ==
    \A j \in Jobs :
        job[j].status = "COMPLETED" /\ ~ outlived => data[job[j].connection] >= asOf[j]

\* While no run outlives its lease, a job that is being fetched has one run at
\* most, and a job that is over has none that could still store anything.
OneRunPerJob ==
    ~ outlived => \A j \in Jobs :
        LET at == {r \in Working(j) : run[r].pc \in {"fetching", "fetched", "storing"}}
        IN  /\ Cardinality(at) <= 1
            /\ at # {} => job[j].status = "FETCHING"

\* A sync never replaces data by older data, unless its run is a late one.
NeverOlder == [][~ outlived => \A c \in Connections : data'[c] >= data[c]]_vars

\* Every job ends completed or failed, through crashes and lost answers.
SyncEnds == \A j \in Jobs : job[j].status \in Active ~> job[j].status \in Final
=============================================================================
