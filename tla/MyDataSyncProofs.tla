-------------------------- MODULE MyDataSyncProofs --------------------------
(***************************************************************************)
(* Proofs about MyDataSync, for every number of connections, jobs, runs,   *)
(* attempts, versions and faults.                                          *)
(***************************************************************************)
EXTENDS MyDataSync, FiniteSetTheorems, TLAPS

Storing == {"fetched", "storing"}
Giving  == {"failing", "rescheduling"}

\* A row that exists has a connection; a run that is under way has a row.
Linked ==
    /\ \A j \in Jobs : job[j].status # "NONE" => job[j].connection \in Connections
    /\ \A r \in Runs : IF run[r].pc = "idle" THEN run[r].job = NoJob
                       ELSE run[r].job \in Jobs /\ job[run[r].job].status # "NONE"

\* The partial unique index: a connection has one active job.
OneActive ==
    \A j, k \in Jobs : (/\ job[j].status \in Active /\ job[k].status \in Active
                        /\ job[j].connection = job[k].connection) => j = k

\* The institution has what was stored, asked for or fetched, and a dataset is
\* fetched after it was asked for.
FromInstitution ==
    /\ \A c \in Connections : data[c] <= inst[c]
    /\ \A j \in Jobs : job[j].status # "NONE" => asOf[j] <= inst[job[j].connection]
    /\ \A r \in Runs : run[r].pc \in Storing =>
          /\ run[r].version <= inst[job[run[r].job].connection]
          /\ asOf[run[r].job] <= run[r].version

\* While no run outlives its lease, a job has one run, and the run has a job
\* that is being fetched, or one that it completed without knowing.
Alone ==
    ~ outlived =>
        /\ \A r, q \in Runs : (run[r].pc # "idle" /\ run[q].job = run[r].job) => r = q
        /\ \A r \in Runs : run[r].pc # "idle" =>
              \/ job[run[r].job].status = "FETCHING"
              \/ run[r].pc \in Giving /\ job[run[r].job].status = "COMPLETED"

\* ... and what a run has fetched is no older than what is stored.
Fresh ==
    ~ outlived =>
        /\ \A r \in Runs : run[r].pc \in Storing =>
              data[job[run[r].job].connection] <= run[r].version
        /\ \A j \in Jobs : job[j].status = "COMPLETED" => asOf[j] <= data[job[j].connection]

IInv == TypeOK /\ Linked /\ OneActive /\ FromInstitution /\ Alone /\ Fresh

USE CountsAssumption, NoneAssumption

-----------------------------------------------------------------------------
(* The inductive invariant *)

\* The initial state satisfies the inductive invariant.
LEMMA InitEstablishes == Init => IInv
<1> SUFFICES ASSUME Init PROVE IInv
  OBVIOUS
<1>1. \A j \in Jobs : job[j].status = "NONE"
  BY DEF Init, NoRow
<1>2. \A r \in Runs : run[r].pc = "idle" /\ run[r].job = NoJob
  BY DEF Init, Idle
<1>3. \A c \in Connections : data[c] = 0 /\ inst[c] = 1
  BY DEF Init
<1>4. TypeOK
  BY DEF Init, TypeOK, NoRow, Idle, Active, Final
<1>5. Linked /\ OneActive /\ FromInstitution /\ Alone /\ Fresh
  BY <1>1, <1>2, <1>3
     DEF Linked, OneActive, FromInstitution, Alone, Fresh, Active, Storing
<1>6. QED
  BY <1>4, <1>5 DEF IInv

Statuses == {"NONE"} \cup Active \cup Final
Places   == {"idle", "fetching", "fetched", "storing", "failing", "rescheduling"}

\* What the rows and runs are made of.
LEMMA Parts ==
    ASSUME TypeOK
    PROVE  /\ \A j \in Jobs : /\ job[j].status \in Statuses /\ job[j].attempt \in Nat
                              /\ job[j].connection \in Connections \cup {NoConnection}
           /\ \A r \in Runs : /\ run[r].pc \in Places /\ run[r].job \in Jobs \cup {NoJob}
                              /\ run[r].version \in Nat /\ run[r].attempt \in Nat
BY DEF TypeOK, Statuses, Places

\* Run r alone moves, to a place with the job, version and attempt given.
Moves(r, pc, j, version, attempt) ==
    /\ \A q \in Runs \ {r} : run'[q] = run[q]
    /\ run'[r].pc = pc /\ run'[r].job = j
    /\ run'[r].version = version /\ run'[r].attempt = attempt

\* Job j alone is written: its status and attempt.
Writes(j, status, attempt) ==
    /\ \A k \in Jobs \ {j} : job'[k] = job[k]
    /\ job'[j].status = status /\ job'[j].attempt = attempt
    /\ job'[j].connection = job[j].connection

LEMMA GoMoves ==
    ASSUME TypeOK, NEW r \in Runs, NEW pc \in Places, Go(r, pc)
    PROVE  /\ run' \in [Runs -> [pc : Places, job : Jobs \cup {NoJob}, version : Nat, attempt : Nat]]
           /\ Moves(r, pc, run[r].job, run[r].version, run[r].attempt)
BY DEF TypeOK, Go, Moves, Places

LEMMA FetchMoves ==
    ASSUME TypeOK, NEW r \in Runs, NEW v \in Nat,
           run' = [run EXCEPT ![r].pc = "fetched", ![r].version = v]
    PROVE  /\ run' \in [Runs -> [pc : Places, job : Jobs \cup {NoJob}, version : Nat, attempt : Nat]]
           /\ Moves(r, "fetched", run[r].job, v, run[r].attempt)
<1> DEFINE gone == [run EXCEPT ![r].pc = "fetched"]
<1>1. gone \in [Runs -> [pc : Places, job : Jobs \cup {NoJob}, version : Nat, attempt : Nat]]
  BY DEF TypeOK, Places
<1>2. /\ \A q \in Runs \ {r} : gone[q] = run[q]
      /\ gone[r].pc = "fetched" /\ gone[r].job = run[r].job /\ gone[r].attempt = run[r].attempt
  BY DEF TypeOK
<1>3. run' = [gone EXCEPT ![r] = [gone[r] EXCEPT !.version = v]]
  <2>1. run' = [[run EXCEPT ![r].pc = "fetched"] EXCEPT ![r].version = v]
    OBVIOUS
  <2>2. QED
    BY <2>1
<1> HIDE DEF gone
<1>4. /\ run' \in [Runs -> [pc : Places, job : Jobs \cup {NoJob}, version : Nat, attempt : Nat]]
      /\ \A q \in Runs \ {r} : run'[q] = gone[q]
      /\ run'[r].pc = gone[r].pc /\ run'[r].job = gone[r].job
      /\ run'[r].version = v /\ run'[r].attempt = gone[r].attempt
  <2> DEFINE late == [gone[r] EXCEPT !.version = v]
  <2>1. gone[r] \in [pc : Places, job : Jobs \cup {NoJob}, version : Nat, attempt : Nat]
    BY <1>1
  <2>2. /\ late \in [pc : Places, job : Jobs \cup {NoJob}, version : Nat, attempt : Nat]
        /\ late.pc = gone[r].pc /\ late.job = gone[r].job
        /\ late.version = v /\ late.attempt = gone[r].attempt
    BY <2>1
  <2> HIDE DEF late
  <2>3. run' = [gone EXCEPT ![r] = late]
    BY <1>3 DEF late
  <2>4. QED
    BY <1>1, <2>2, <2>3
<1>5. QED
  BY <1>2, <1>4 DEF Moves

LEMMA IdleMoves ==
    ASSUME TypeOK, NEW r \in Runs, run' = [run EXCEPT ![r] = Idle]
    PROVE  /\ run' \in [Runs -> [pc : Places, job : Jobs \cup {NoJob}, version : Nat, attempt : Nat]]
           /\ Moves(r, "idle", NoJob, 0, 0)
BY DEF TypeOK, Idle, Moves, Places

LEMMA StatusWrites ==
    ASSUME TypeOK, NEW j \in Jobs, NEW status \in Statuses,
           job' = [job EXCEPT ![j].status = status]
    PROVE  /\ job' \in [Jobs -> [status : Statuses, attempt : Nat,
                                 connection : Connections \cup {NoConnection}]]
           /\ Writes(j, status, job[j].attempt)
BY DEF TypeOK, Writes, Statuses

\* A run that takes no row and holds no more than before moves freely.
LEMMA RunMoves ==
    ASSUME IInv, NEW r \in Runs, NEW pc \in Places,
           UNCHANGED <<job, data, consent, inst, asOf, outlived>>, faults' \in Nat,
           run' \in [Runs -> [pc : Places, job : Jobs \cup {NoJob}, version : Nat, attempt : Nat]],
           \/ Moves(r, "idle", NoJob, 0, 0)
           \/ \E v, a : /\ Moves(r, pc, run[r].job, v, a) /\ run[r].pc # "idle" /\ pc # "idle"
                        /\ pc \in Storing =>
                             /\ v <= inst[job[run[r].job].connection]
                             /\ asOf[run[r].job] <= v
                             /\ ~ outlived => data[job[run[r].job].connection] <= v
                        /\ (~ outlived /\ job[run[r].job].status = "COMPLETED") => pc \in Giving
    PROVE  IInv'
<1>1. TypeOK'
  BY DEF IInv, TypeOK, Places
<1>2. CASE Moves(r, "idle", NoJob, 0, 0)
  <2>1. \A q \in Runs : run'[q] = run[q] \/ (run'[q].pc = "idle" /\ run'[q].job = NoJob)
    BY <1>2 DEF Moves
  <2>2. Linked' /\ OneActive' /\ FromInstitution'
    BY <2>1 DEF IInv, Linked, OneActive, FromInstitution, Storing
  <2>3. Alone'
    BY <2>1, <2>2 DEF IInv, Alone, Linked
  <2>4. Fresh'
    BY <2>1 DEF IInv, Fresh, Storing
  <2>5. QED
    BY <1>1, <2>2, <2>3, <2>4 DEF IInv
<1>3. ASSUME NEW v, NEW a,
             Moves(r, pc, run[r].job, v, a), run[r].pc # "idle", pc # "idle",
             pc \in Storing =>
                 /\ v <= inst[job[run[r].job].connection]
                 /\ asOf[run[r].job] <= v
                 /\ ~ outlived => data[job[run[r].job].connection] <= v,
             (~ outlived /\ job[run[r].job].status = "COMPLETED") => pc \in Giving
      PROVE  IInv'
  <2>1. \A q \in Runs : /\ run'[q].job = run[q].job
                        /\ run'[q].pc = "idle" <=> run[q].pc = "idle"
                        /\ q # r => run'[q] = run[q]
    BY <1>3 DEF Moves
  <2>2. run'[r].pc = pc /\ run'[r].version = v
    BY <1>3 DEF Moves
  <2>3. Linked' /\ OneActive'
    BY <2>1 DEF IInv, Linked, OneActive
  <2>4. FromInstitution'
    BY <1>3, <2>1, <2>2 DEF IInv, FromInstitution
  <2>5. Alone'
    BY <1>3, <2>1, <2>2 DEF IInv, Alone
  <2>6. Fresh'
    BY <1>3, <2>1, <2>2 DEF IInv, Fresh
  <2>7. QED
    BY <1>1, <2>3, <2>4, <2>5, <2>6 DEF IInv
<1>4. QED
  BY <1>2, <1>3

\* A new row: nobody is at it, and its connection has no other active one.
LEMMA InsertKeeps ==
    ASSUME IInv, NEW c \in Connections, NEW j \in Jobs, Insert(c, j) PROVE IInv'
<1>1. /\ job[j].status = "NONE"
      /\ job'[j].status = "QUEUED" /\ job'[j].connection = c
      /\ asOf'[j] = inst[c]
      /\ \A k \in Jobs \ {j} : job'[k] = job[k] /\ asOf'[k] = asOf[k]
      /\ UNCHANGED <<data, consent, run, inst, outlived, faults>>
  BY DEF Insert, NoRow, IInv, TypeOK
<1>2. TypeOK'
  BY DEF Insert, IInv, TypeOK, Active
<1>3. \A k \in Jobs : job[k].connection = c => job[k].status \notin Active
  BY DEF Insert, ActiveJobs
<1>4. \A r \in Runs : run[r].pc # "idle" => run[r].job \in Jobs \ {j}
  BY <1>1 DEF IInv, Linked
<1>5. Linked'
  BY <1>1, <1>4 DEF IInv, Linked
<1>6. OneActive'
  BY <1>1, <1>3 DEF IInv, OneActive
<1>7. \A r \in Runs : run[r].pc \in Storing => run[r].job \in Jobs \ {j}
  BY <1>4 DEF Storing
<1>8. inst[c] \in Nat
  BY DEF IInv, TypeOK
<1>9. FromInstitution'
  BY <1>1, <1>7, <1>8 DEF IInv, FromInstitution
<1>10. Alone'
  BY <1>1, <1>4 DEF IInv, Alone
<1>11. Fresh'
  BY <1>1, <1>7 DEF IInv, Fresh
<1>12. QED
  BY <1>2, <1>5, <1>6, <1>9, <1>10, <1>11 DEF IInv

\* A job that is queued has no run, so the one that begins is alone.
LEMMA BeginKeeps ==
    ASSUME IInv, NEW r \in Runs, NEW j \in Jobs, Begin(r, j) PROVE IInv'
<1>1. /\ run[r].pc = "idle" /\ job[j].status = "QUEUED"
      /\ UNCHANGED <<data, consent, inst, asOf, outlived, faults>>
  BY DEF Begin, Idle, Claimable
<1>2. job[j].attempt \in Nat
  BY Parts DEF IInv
<1>3. Writes(j, "FETCHING", job[j].attempt + 1)
  BY <1>2 DEF Begin, Writes, IInv, TypeOK
<1>4. Moves(r, "fetching", j, 0, 0)
  BY DEF Begin, Moves, IInv, TypeOK
<1>5. TypeOK'
  <2>1. job' \in [Jobs -> [status : Statuses, attempt : Nat,
                           connection : Connections \cup {NoConnection}]]
    <3>1. "FETCHING" \in Statuses /\ job[j].attempt + 1 \in Nat
      BY <1>2 DEF Statuses, Active
    <3>2. job \in [Jobs -> [status : Statuses, attempt : Nat,
                            connection : Connections \cup {NoConnection}]]
      BY DEF IInv, TypeOK, Statuses
    <3>3. job' = [job EXCEPT ![j].status = "FETCHING", ![j].attempt = job[j].attempt + 1]
      BY DEF Begin
    <3>4. QED
      BY <3>1, <3>2, <3>3
  <2>2. run' \in [Runs -> [pc : Places, job : Jobs \cup {NoJob}, version : Nat, attempt : Nat]]
    BY DEF Begin, IInv, TypeOK, Places
  <2>3. QED
    BY <1>1, <2>1, <2>2 DEF IInv, TypeOK, Places, Statuses
<1>6. \A k \in Jobs : /\ job'[k].connection = job[k].connection
                      /\ job'[k].status \in Active <=> job[k].status \in Active
                      /\ job'[k].status = "NONE" <=> job[k].status = "NONE"
                      /\ job'[k].status = "COMPLETED" <=> job[k].status = "COMPLETED"
                      /\ k # j => job'[k] = job[k]
  BY <1>1, <1>3 DEF Writes, Active
<1>7. \A q \in Runs : /\ q # r => run'[q] = run[q]
                      /\ run'[q].pc \in Storing => q # r /\ run[q].pc \in Storing
                      /\ run'[q].pc \in Giving => q # r
  BY <1>4 DEF Moves, Storing, Giving
<1>8. run'[r].pc = "fetching" /\ run'[r].job = j
  BY <1>4 DEF Moves
<1>9. Linked'
  BY <1>1, <1>6, <1>7, <1>8 DEF IInv, Linked
<1>10. OneActive'
  BY <1>6 DEF IInv, OneActive
<1>11. \A q \in Runs : run[q].pc \in Storing => run[q].job \in Jobs
  BY DEF IInv, Linked, Storing
<1>12. FromInstitution'
  BY <1>1, <1>6, <1>7, <1>11 DEF IInv, FromInstitution
<1>13. Alone'
  <2> SUFFICES ASSUME ~ outlived PROVE Alone'
    BY <1>1 DEF Alone
  <2>1. \A q \in Runs : run[q].pc # "idle" => run[q].job \in Jobs \ {j}
    BY <1>1 DEF IInv, Alone, Linked
  <2>2. \A q \in Runs : run[q].pc = "idle" => run[q].job = NoJob
    BY DEF IInv, Linked
  <2>3. \A q \in Runs : run[q].job # j
    BY <2>1, <2>2
  <2>4. \A p, q \in Runs : (run'[p].pc # "idle" /\ run'[q].job = run'[p].job) => p = q
    BY <1>1, <1>7, <1>8, <2>3 DEF IInv, Alone
  <2>5. \A q \in Runs : run'[q].pc # "idle" =>
           \/ job'[run'[q].job].status = "FETCHING"
           \/ run'[q].pc \in Giving /\ job'[run'[q].job].status = "COMPLETED"
    BY <1>1, <1>3, <1>6, <1>7, <1>8, <2>1 DEF IInv, Alone, Writes
  <2>6. QED
    BY <2>4, <2>5 DEF Alone
<1>14. Fresh'
  BY <1>1, <1>6, <1>7, <1>11 DEF IInv, Fresh
<1>15. QED
  BY <1>5, <1>9, <1>10, <1>12, <1>13, <1>14 DEF IInv

\* A job that nobody is at any more, or that is over, is written without data.
LEMMA JobOnlyKeeps ==
    ASSUME IInv, NEW j \in Jobs, NEW status \in {"QUEUED", "FAILED"}, NEW r \in Runs,
           job' = [job EXCEPT ![j].status = status], job[j].status \in Active,
           run' = run \/ (run' = [run EXCEPT ![r] = Idle] /\ run[r].job = j),
           ~ outlived' => ~ outlived /\ \A q \in Runs : run'[q].job # j,
           outlived' \in BOOLEAN, faults' \in Nat, UNCHANGED <<data, consent, inst, asOf>>
    PROVE  IInv'
<1>1. status \in Statuses
  BY DEF Statuses, Active, Final
<1>2. Writes(j, status, job[j].attempt)
      /\ job' \in [Jobs -> [status : Statuses, attempt : Nat,
                            connection : Connections \cup {NoConnection}]]
  BY <1>1, StatusWrites DEF IInv
<1>3. run' = run \/ Moves(r, "idle", NoJob, 0, 0)
  BY IdleMoves DEF IInv
<1>4. run' \in [Runs -> [pc : Places, job : Jobs \cup {NoJob}, version : Nat, attempt : Nat]]
  BY IdleMoves DEF IInv, TypeOK, Places
<1>5. TypeOK'
  BY <1>2, <1>4 DEF IInv, TypeOK, Places, Statuses
<1>6. \A k \in Jobs : /\ job'[k].connection = job[k].connection
                      /\ job'[k].status \in Active => job[k].status \in Active
                      /\ job'[k].status = "NONE" <=> job[k].status = "NONE"
                      /\ job'[k].status = "COMPLETED" <=> job[k].status = "COMPLETED"
                      /\ k # j => job'[k] = job[k]
  BY <1>2 DEF Writes, Active
<1>7. \A q \in Runs : run'[q] = run[q] \/ (run'[q].pc = "idle" /\ run'[q].job = NoJob)
  BY <1>3 DEF Moves
<1>8. \A q \in Runs : run'[q].pc # "idle" => run'[q] = run[q] /\ run[q].job \in Jobs
  BY <1>7 DEF IInv, Linked
<1>9. \A q \in Runs : run'[q].pc \in Storing => run'[q] = run[q] /\ run[q].job \in Jobs
  BY <1>8 DEF Storing
<1>10. Linked'
  BY <1>6, <1>7 DEF IInv, Linked
<1>11. OneActive'
  BY <1>6 DEF IInv, OneActive
<1>12. FromInstitution'
  BY <1>6, <1>9 DEF IInv, FromInstitution
<1>13. Alone'
  <2> SUFFICES ASSUME ~ outlived' PROVE Alone'
    BY DEF Alone
  <2>1. ~ outlived /\ \A q \in Runs : run'[q].job # j
    OBVIOUS
  <2>2. \A p, q \in Runs : (run'[p].pc # "idle" /\ run'[q].job = run'[p].job) => p = q
    <3> SUFFICES ASSUME NEW p \in Runs, NEW q \in Runs, run'[p].pc # "idle",
                        run'[q].job = run'[p].job
                 PROVE  p = q
      OBVIOUS
    <3>1. run'[p] = run[p] /\ run[p].job \in Jobs
      BY <1>8
    <3>2. run'[q] = run[q]
      BY <1>7, <3>1
    <3>3. QED
      BY <2>1, <3>1, <3>2 DEF IInv, Alone
  <2>3. \A q \in Runs : run'[q].pc # "idle" =>
           \/ job'[run'[q].job].status = "FETCHING"
           \/ run'[q].pc \in Giving /\ job'[run'[q].job].status = "COMPLETED"
    BY <1>6, <1>8, <2>1 DEF IInv, Alone
  <2>4. QED
    BY <2>2, <2>3 DEF Alone
<1>14. Fresh'
  BY <1>6, <1>9 DEF IInv, Fresh
<1>15. QED
  BY <1>5, <1>10, <1>11, <1>12, <1>13, <1>14 DEF IInv

\* The dataset of a run is stored and its job completed; the run knows, or does
\* not.
LEMMA StoredKeeps ==
    ASSUME IInv, NEW r \in Runs, run[r].pc = "storing", Stored(run[r].job, run[r].version),
           run' = [run EXCEPT ![r] = Idle] \/ Go(r, "failing"),
           faults' \in Nat, UNCHANGED <<consent, inst, asOf, outlived>>
    PROVE  /\ IInv'
           /\ ~ outlived => \A c \in Connections : data'[c] >= data[c]
<1> DEFINE j == run[r].job
           c == job[j].connection
           v == run[r].version
<1>1. /\ j \in Jobs /\ c \in Connections /\ v \in Nat /\ job[j].status # "NONE"
      /\ v <= inst[c] /\ asOf[j] <= v
  BY Parts DEF IInv, Linked, FromInstitution, Storing
<1>2. job' = [job EXCEPT ![j].status = "COMPLETED"] /\ data' = [data EXCEPT ![c] = v]
  BY DEF Stored
<1>3. "COMPLETED" \in Statuses /\ "failing" \in Places
  BY DEF Statuses, Final, Places
<1>4. Writes(j, "COMPLETED", job[j].attempt)
      /\ job' \in [Jobs -> [status : Statuses, attempt : Nat,
                            connection : Connections \cup {NoConnection}]]
  BY <1>1, <1>2, <1>3, StatusWrites DEF IInv
<1>5. run' \in [Runs -> [pc : Places, job : Jobs \cup {NoJob}, version : Nat, attempt : Nat]]
      /\ \/ Moves(r, "idle", NoJob, 0, 0)
         \/ Moves(r, "failing", j, v, run[r].attempt)
  BY <1>3, IdleMoves, GoMoves DEF IInv
<1>6. data' \in [Connections -> Nat] /\ data'[c] = v
      /\ \A d \in Connections \ {c} : data'[d] = data[d]
  BY <1>1, <1>2 DEF IInv, TypeOK
<1>7. TypeOK'
  BY <1>4, <1>5, <1>6 DEF IInv, TypeOK, Places, Statuses
<1>8. \A k \in Jobs : /\ job'[k].connection = job[k].connection
                      /\ job'[k].status \in Active => k # j
                      /\ job'[k].status = "NONE" <=> job[k].status = "NONE"
                      /\ k # j => job'[k] = job[k]
  BY <1>1, <1>4 DEF Writes, Active
<1>9. job'[j].status = "COMPLETED"
  BY <1>4 DEF Writes
<1>10. \A q \in Runs : /\ q # r => run'[q] = run[q]
                       /\ run'[q].pc \in Storing => q # r /\ run[q].pc \in Storing
  BY <1>5 DEF Moves, Storing
<1>11. \/ run'[r].pc = "idle" /\ run'[r].job = NoJob
       \/ run'[r].pc = "failing" /\ run'[r].job = j
  BY <1>5 DEF Moves
<1>12. Linked'
  BY <1>1, <1>8, <1>10, <1>11 DEF IInv, Linked
<1>13. OneActive'
  BY <1>8 DEF IInv, OneActive
<1>14. \A q \in Runs : run[q].pc \in Storing => run[q].job \in Jobs
  BY DEF IInv, Linked, Storing
<1>15. FromInstitution'
  <2>1. \A d \in Connections : data'[d] <= inst'[d]
    BY <1>1, <1>6 DEF IInv, FromInstitution
  <2>2. \A k \in Jobs : job'[k].status # "NONE" => asOf'[k] <= inst'[job'[k].connection]
    BY <1>8 DEF IInv, FromInstitution
  <2>3. \A q \in Runs : run'[q].pc \in Storing =>
           /\ run'[q].version <= inst'[job'[run'[q].job].connection]
           /\ asOf'[run'[q].job] <= run'[q].version
    BY <1>8, <1>10, <1>14 DEF IInv, FromInstitution
  <2>4. QED
    BY <2>1, <2>2, <2>3 DEF FromInstitution
<1>16. Alone'
  <2> SUFFICES ASSUME ~ outlived PROVE Alone'
    BY DEF Alone
  <2>1. \A q \in Runs : run[q].job = j => q = r
    BY DEF IInv, Alone
  <2>2. \A p, q \in Runs : (run'[p].pc # "idle" /\ run'[q].job = run'[p].job) => p = q
    <3>1. \A q \in Runs : run[q].pc # "idle" => run[q].job \in Jobs
      BY DEF IInv, Linked
    <3>2. \A p, q \in Runs : (run[p].pc # "idle" /\ run[q].job = run[p].job) => p = q
      BY DEF IInv, Alone
    <3>3. QED
      BY <1>1, <1>10, <1>11, <2>1, <3>1, <3>2
  <2>3. \A q \in Runs : run'[q].pc # "idle" =>
           \/ job'[run'[q].job].status = "FETCHING"
           \/ run'[q].pc \in Giving /\ job'[run'[q].job].status = "COMPLETED"
    BY <1>8, <1>9, <1>10, <1>11, <2>1 DEF IInv, Alone, Linked, Giving
  <2>4. QED
    BY <2>2, <2>3 DEF Alone
<1>17. ASSUME ~ outlived
       PROVE  /\ data[c] <= v
              /\ \A q \in Runs \ {r} : run[q].pc \in Storing =>
                    run[q].job # j /\ job[run[q].job].connection # c
  <2>1. data[c] <= v
    BY <1>17 DEF IInv, Fresh, Storing
  <2>2. job[j].status = "FETCHING"
    BY <1>17 DEF IInv, Alone, Giving
  <2>3. ASSUME NEW q \in Runs \ {r}, run[q].pc \in Storing
        PROVE  run[q].job # j /\ job[run[q].job].connection # c
    <3>1. run[q].job # j
      BY <1>17, <2>3 DEF IInv, Alone, Storing
    <3>2. job[run[q].job].status = "FETCHING" /\ run[q].job \in Jobs
      BY <1>14, <1>17, <2>3 DEF IInv, Alone, Storing, Giving
    <3>3. QED
      BY <1>1, <2>2, <3>1, <3>2 DEF IInv, OneActive, Active
  <2>4. QED
    BY <2>1, <2>3
<1>18. ~ outlived => \A d \in Connections : data'[d] >= data[d]
  BY <1>1, <1>6, <1>17 DEF IInv, TypeOK
<1>19. Fresh'
  <2> SUFFICES ASSUME ~ outlived PROVE Fresh'
    BY DEF Fresh
  <2>1. \A q \in Runs : run'[q].pc \in Storing =>
           data'[job'[run'[q].job].connection] <= run'[q].version
    <3> SUFFICES ASSUME NEW q \in Runs, run'[q].pc \in Storing
                 PROVE  data'[job'[run'[q].job].connection] <= run'[q].version
      OBVIOUS
    <3>1. q # r /\ run[q].pc \in Storing /\ run'[q] = run[q] /\ run[q].job \in Jobs
      BY <1>10, <1>14
    <3>2. job'[run[q].job].connection = job[run[q].job].connection
      BY <1>8, <3>1
    <3>3. job[run[q].job].connection \in Connections \ {c}
      BY <1>17, <3>1 DEF IInv, Linked, Storing
    <3>4. data'[job[run[q].job].connection] = data[job[run[q].job].connection]
      BY <1>6, <3>3
    <3>5. QED
      BY <3>1, <3>2, <3>4 DEF IInv, Fresh
  <2>2. \A k \in Jobs : job'[k].status = "COMPLETED" => asOf'[k] <= data'[job'[k].connection]
    <3> SUFFICES ASSUME NEW k \in Jobs, job'[k].status = "COMPLETED"
                 PROVE  asOf[k] <= data'[job[k].connection]
      BY <1>8
    <3>1. CASE k = j
      BY <1>1, <1>6, <3>1
    <3>2. CASE k # j
      <4>1. job[k].status = "COMPLETED" /\ job[k].connection \in Connections
        BY <1>8, <3>2 DEF IInv, Linked
      <4>2. asOf[k] <= data[job[k].connection]
        BY <4>1 DEF IInv, Fresh
      <4>3. data'[job[k].connection] >= data[job[k].connection]
        BY <1>18, <4>1
      <4>4. asOf[k] \in Nat /\ data[job[k].connection] \in Nat /\ data'[job[k].connection] \in Nat
        BY <1>6, <4>1 DEF IInv, TypeOK
      <4>5. QED
        BY <4>2, <4>3, <4>4
    <3>3. QED
      BY <3>1, <3>2
  <2>3. QED
    BY <2>1, <2>2 DEF Fresh
<1>20. QED
  BY <1>7, <1>12, <1>13, <1>15, <1>16, <1>18, <1>19 DEF IInv

\* Every step keeps the inductive invariant, and no step replaces data by older
\* data while no run outlives its lease.
LEMMA NextKeeps ==
    IInv /\ [Next]_vars => /\ IInv'
                           /\ ~ outlived => \A c \in Connections : data'[c] >= data[c]
<1> SUFFICES ASSUME IInv, [Next]_vars
             PROVE  IInv' /\ (~ outlived => \A c \in Connections : data'[c] >= data[c])
  OBVIOUS
<1>0. ASSUME UNCHANGED data PROVE \A c \in Connections : data'[c] >= data[c]
  <2>1. \A c \in Connections : data[c] \in Nat
    BY DEF IInv, TypeOK
  <2>2. QED
    BY <1>0, <2>1
<1>1. ASSUME NEW c \in Connections, NEW j \in Jobs, RequestSync(c, j) \/ ScheduleSync(c, j)
      PROVE  IInv' /\ UNCHANGED data
  <2>1. Insert(c, j)
    BY <1>1 DEF RequestSync, ScheduleSync
  <2>2. QED
    BY <2>1, InsertKeeps DEF Insert
<1>2. ASSUME NEW c \in Connections, ConsentExpires(c) PROVE IInv' /\ UNCHANGED data
  BY <1>2 DEF ConsentExpires, IInv, TypeOK, Linked, OneActive, FromInstitution, Alone, Fresh
<1>3. ASSUME NEW c \in Connections, InstitutionChanges(c) PROVE IInv' /\ UNCHANGED data
  <2>1. /\ inst' \in [Connections -> Nat]
        /\ \A d \in Connections : inst[d] \in Nat /\ inst'[d] \in Nat /\ inst[d] <= inst'[d]
        /\ UNCHANGED <<job, data, consent, run, asOf, outlived, faults>>
    BY <1>3 DEF InstitutionChanges, IInv, TypeOK
  <2>2. TypeOK'
    BY <2>1 DEF IInv, TypeOK
  <2>3. Linked' /\ OneActive' /\ Alone' /\ Fresh'
    BY <2>1 DEF IInv, Linked, OneActive, Alone, Fresh
  <2>4. FromInstitution'
    <3>1. \A d \in Connections : data[d] \in Nat
      BY DEF IInv, TypeOK
    <3>2. \A j \in Jobs : /\ asOf[j] \in Nat
                          /\ job[j].status # "NONE" => job[j].connection \in Connections
      BY DEF IInv, TypeOK, Linked
    <3>3. \A r \in Runs : /\ run[r].version \in Nat
                          /\ run[r].pc \in Storing => job[run[r].job].connection \in Connections
      BY Parts DEF IInv, Linked, Storing
    <3>4. \A d \in Connections : data[d] <= inst'[d]
      BY <2>1, <3>1 DEF IInv, FromInstitution
    <3>5. \A j \in Jobs : job[j].status # "NONE" => asOf[j] <= inst'[job[j].connection]
      BY <2>1, <3>2 DEF IInv, FromInstitution
    <3>6. \A r \in Runs : run[r].pc \in Storing =>
             run[r].version <= inst'[job[run[r].job].connection]
      BY <2>1, <3>3 DEF IInv, FromInstitution
    <3>7. QED
      BY <2>1, <3>4, <3>5, <3>6 DEF IInv, FromInstitution
  <2>5. QED
    BY <2>1, <2>2, <2>3, <2>4 DEF IInv
<1>4. ASSUME NEW r \in Runs, NEW j \in Jobs, Begin(r, j) PROVE IInv' /\ UNCHANGED data
  BY <1>4, BeginKeeps DEF Begin
<1>5. ASSUME NEW j \in Jobs, Recover(j) PROVE IInv' /\ UNCHANGED data
  <2>1. /\ job[j].status = "FETCHING" /\ job' = [job EXCEPT ![j].status = Retried(job[j].attempt)]
        /\ UNCHANGED <<data, consent, run, inst, asOf>>
    BY <1>5 DEF Recover
  <2>2. Retried(job[j].attempt) \in {"QUEUED", "FAILED"}
    BY DEF Retried
  <2>3. outlived' \in BOOLEAN /\ faults' \in Nat
    <3>1. \/ outlived' = outlived /\ faults' = faults
          \/ outlived' = TRUE /\ faults' = faults + 1
      <4>1. CASE Working(j) = {}
        BY <1>5, <4>1 DEF Recover
      <4>2. CASE Working(j) # {}
        BY <1>5, <4>2 DEF Recover, Fault
      <4>3. QED
        BY <4>1, <4>2
    <3>2. faults \in Nat /\ outlived \in BOOLEAN
      BY DEF IInv, TypeOK
    <3>3. faults' \in Nat
      BY <3>1, <3>2
    <3>4. outlived' \in BOOLEAN
      BY <3>1, <3>2, Zenon
    <3>5. QED
      BY <3>3, <3>4
  <2>4. ~ outlived' => ~ outlived /\ \A q \in Runs : run'[q].job # j
    BY <1>5, <2>1 DEF Recover, Working
  <2>5. CASE Runs = {}
    <3>1. Writes(j, Retried(job[j].attempt), job[j].attempt)
          /\ job' \in [Jobs -> [status : Statuses, attempt : Nat,
                                connection : Connections \cup {NoConnection}]]
      BY <2>1, <2>2, StatusWrites DEF IInv, Statuses, Active, Final
    <3>2. TypeOK'
      BY <2>1, <2>3, <3>1 DEF IInv, TypeOK, Statuses
    <3>3. \A k \in Jobs : /\ job'[k].connection = job[k].connection
                          /\ job'[k].status \in Active => job[k].status \in Active
                          /\ job'[k].status # "NONE" => job[k].status # "NONE"
                          /\ job'[k].status = "COMPLETED" => job[k].status = "COMPLETED"
      BY <2>1, <2>2, <3>1 DEF Writes, Active
    <3>4. Linked' /\ OneActive' /\ FromInstitution' /\ Alone' /\ Fresh'
      BY <2>1, <2>4, <2>5, <3>3 DEF IInv, Linked, OneActive, FromInstitution, Alone, Fresh
    <3>5. QED
      BY <2>1, <3>2, <3>4 DEF IInv
  <2>6. ASSUME NEW r \in Runs PROVE IInv'
    BY <2>1, <2>2, <2>3, <2>4, JobOnlyKeeps DEF Active
  <2>7. QED
    BY <2>1, <2>5, <2>6
<1>6. ASSUME NEW r \in Runs, Fetch(r) PROVE IInv' /\ UNCHANGED data
  <2>1. /\ run[r].pc = "fetching"
        /\ UNCHANGED <<job, data, consent, inst, asOf, outlived, faults>> /\ faults' \in Nat
    BY <1>6 DEF Fetch, IInv, TypeOK
  <2>2. /\ run[r].job \in Jobs /\ job[run[r].job].status # "NONE"
        /\ job[run[r].job].connection \in Connections
    BY <2>1 DEF IInv, Linked
  <2>3. ~ outlived => job[run[r].job].status = "FETCHING"
    BY <2>1 DEF IInv, Alone, Giving
  <2>4. CASE Go(r, "failing")
    <3>1. "failing" \in Places /\ "failing" \notin Storing /\ "failing" \in Giving
      BY DEF Places, Storing, Giving
    <3>2. QED
      BY <2>1, <2>4, <3>1, GoMoves, RunMoves DEF IInv
  <2>5. CASE run' = [run EXCEPT ![r].pc = "fetched",
                                ![r].version = inst[job[run[r].job].connection]]
    <3> DEFINE v == inst[job[run[r].job].connection]
    <3>1. v \in Nat
      BY <2>2 DEF IInv, TypeOK
    <3>2. Moves(r, "fetched", run[r].job, v, run[r].attempt)
          /\ run' \in [Runs -> [pc : Places, job : Jobs \cup {NoJob}, version : Nat, attempt : Nat]]
      BY <2>5, <3>1, FetchMoves DEF IInv
    <3>3. v <= v /\ asOf[run[r].job] <= v /\ data[job[run[r].job].connection] <= v
      BY <2>2, <3>1 DEF IInv, FromInstitution
    <3>4. "fetched" \in Places
      BY DEF Places
    <3>5. QED
      BY <2>1, <2>3, <3>2, <3>3, <3>4, RunMoves
  <2>6. QED
    BY <1>6, <2>1, <2>4, <2>5 DEF Fetch
<1>7. ASSUME NEW r \in Runs, CheckFetching(r) PROVE IInv' /\ UNCHANGED data
  <2>1. /\ run[r].pc = "fetched"
        /\ UNCHANGED <<job, data, consent, inst, asOf, outlived, faults>> /\ faults' \in Nat
    BY <1>7 DEF CheckFetching, IInv, TypeOK
  <2>2. PICK pc \in {"storing", "failing"} :
           Go(r, pc) /\ (pc = "storing" => job[run[r].job].status = "FETCHING")
    BY <1>7 DEF CheckFetching, Fetchable
  <2>3. pc \in Places /\ pc # "idle"
    BY DEF Places
  <2>4. /\ run[r].version <= inst[job[run[r].job].connection]
        /\ asOf[run[r].job] <= run[r].version
        /\ ~ outlived => data[job[run[r].job].connection] <= run[r].version
    BY <2>1 DEF IInv, FromInstitution, Fresh, Storing
  <2>5. (~ outlived /\ job[run[r].job].status = "COMPLETED") => pc \in Giving
    BY <2>2 DEF Giving
  <2>6. QED
    BY <2>1, <2>2, <2>3, <2>4, <2>5, GoMoves, RunMoves DEF IInv
<1>8. ASSUME NEW r \in Runs, run[r].pc = "storing", Go(r, "failing"),
             UNCHANGED <<job, data, consent, inst, asOf, outlived>>, faults' \in Nat
      PROVE  IInv'
  <2>1. "failing" \in Places /\ "failing" \notin Storing /\ "failing" \in Giving
    BY DEF Places, Storing, Giving
  <2>2. QED
    BY <1>8, <2>1, GoMoves, RunMoves DEF IInv
<1>9. ASSUME NEW r \in Runs, Commit(r)
      PROVE  IInv' /\ (~ outlived => \A c \in Connections : data'[c] >= data[c])
  <2>1. /\ run[r].pc = "storing" /\ UNCHANGED <<consent, inst, asOf, outlived, faults>>
        /\ faults' \in Nat
    BY <1>9 DEF Commit, IInv, TypeOK
  <2>2. CASE Stored(run[r].job, run[r].version) /\ run' = [run EXCEPT ![r] = Idle]
    BY <2>1, <2>2, StoredKeeps
  <2>3. CASE UNCHANGED <<job, data>> /\ Go(r, "failing")
    BY <1>0, <1>8, <2>1, <2>3
  <2>4. QED
    BY <1>9, <2>2, <2>3 DEF Commit
<1>10. ASSUME NEW r \in Runs, CommitFails(r)
       PROVE  IInv' /\ (~ outlived => \A c \in Connections : data'[c] >= data[c])
  <2>1. /\ run[r].pc = "storing" /\ UNCHANGED <<consent, inst, asOf, outlived>>
        /\ faults' \in Nat /\ Go(r, "failing")
    BY <1>10 DEF CommitFails, Fault, IInv, TypeOK
  <2>2. CASE Stored(run[r].job, run[r].version)
    BY <2>1, <2>2, StoredKeeps
  <2>3. CASE UNCHANGED <<job, data>>
    BY <1>0, <1>8, <2>1, <2>3
  <2>4. QED
    BY <1>10, <2>2, <2>3 DEF CommitFails
<1>11. ASSUME NEW r \in Runs, ReadAttempt(r) PROVE IInv' /\ UNCHANGED data
  <2>1. /\ run[r].pc = "failing"
        /\ UNCHANGED <<job, data, consent, inst, asOf, outlived, faults>> /\ faults' \in Nat
    BY <1>11 DEF ReadAttempt, IInv, TypeOK
  <2>2. job[run[r].job].attempt \in Nat
    BY <2>1, Parts DEF IInv, Linked
  <2>3. Moves(r, "rescheduling", run[r].job, run[r].version, job[run[r].job].attempt)
        /\ run' \in [Runs -> [pc : Places, job : Jobs \cup {NoJob}, version : Nat, attempt : Nat]]
    BY <1>11, <2>2 DEF ReadAttempt, Moves, IInv, TypeOK, Places
  <2>4. "rescheduling" \in Places /\ "rescheduling" \notin Storing /\ "rescheduling" \in Giving
    BY DEF Places, Storing, Giving
  <2>5. QED
    BY <2>1, <2>3, <2>4, RunMoves
<1>12. ASSUME NEW r \in Runs, Reschedule(r) PROVE IInv' /\ UNCHANGED data
  <2>1. /\ run[r].pc = "rescheduling" /\ run' = [run EXCEPT ![r] = Idle]
        /\ UNCHANGED <<data, consent, inst, asOf, outlived, faults>> /\ faults' \in Nat
    BY <1>12 DEF Reschedule, IInv, TypeOK
  <2>2. run[r].job \in Jobs
    BY <2>1 DEF IInv, Linked
  <2>3. CASE Reschedulable(run[r].job)
    <3>1. PICK status \in {"QUEUED", "FAILED"} : job' = [job EXCEPT ![run[r].job].status = status]
      BY <1>12, <2>3 DEF Reschedule, Retried
    <3>2. ~ outlived => \A q \in Runs : run'[q].job # run[r].job
      <4> SUFFICES ASSUME ~ outlived, NEW q \in Runs PROVE run'[q].job # run[r].job
        OBVIOUS
      <4>1. CASE q = r
        BY <2>1, <2>2, <4>1 DEF IInv, TypeOK, Idle
      <4>2. CASE q # r
        <5>1. run'[q] = run[q]
          BY <2>1, <4>2 DEF IInv, TypeOK
        <5>2. QED
          BY <2>1, <4>2, <5>1 DEF IInv, Alone
      <4>3. QED
        BY <4>1, <4>2
    <3>3. outlived' \in BOOLEAN
      BY <2>1 DEF IInv, TypeOK
    <3>4. job[run[r].job].status \in Active
      BY <2>3 DEF Reschedulable
    <3>5. QED
      BY <2>1, <2>2, <3>1, <3>2, <3>3, <3>4, JobOnlyKeeps
  <2>4. CASE ~ Reschedulable(run[r].job)
    <3>1. UNCHANGED job
      BY <1>12, <2>4 DEF Reschedule
    <3>2. "idle" \in Places
      BY DEF Places
    <3>3. QED
      BY <2>1, <3>1, <3>2, IdleMoves, RunMoves DEF IInv
  <2>5. QED
    BY <2>1, <2>3, <2>4
<1>13. ASSUME NEW r \in Runs, RunStops(r) PROVE IInv' /\ UNCHANGED data
  <2>1. /\ run' = [run EXCEPT ![r] = Idle] /\ faults' \in Nat
        /\ UNCHANGED <<job, data, consent, inst, asOf, outlived>>
    BY <1>13 DEF RunStops, Fault, IInv, TypeOK
  <2>2. "idle" \in Places
    BY DEF Places
  <2>3. QED
    BY <2>1, <2>2, IdleMoves, RunMoves DEF IInv
<1>14. CASE UNCHANGED vars
  BY <1>0, <1>14 DEF vars, IInv, TypeOK, Linked, OneActive, FromInstitution, Alone, Fresh
<1>15. QED
  BY <1>0, <1>1, <1>2, <1>3, <1>4, <1>5, <1>6, <1>7, <1>9, <1>10, <1>11, <1>12, <1>13, <1>14
     DEF Next, Step

LEMMA Inductive == Spec => []IInv
<1>1. IInv /\ [Next]_vars => IInv'
  BY NextKeeps
<1>2. QED
  BY <1>1, InitEstablishes, PTL DEF Spec

-----------------------------------------------------------------------------
\* Every variable keeps to its type, with or without outlived leases.
THEOREM TypeCorrect == Spec => []TypeOK
<1>1. IInv => TypeOK
  BY DEF IInv
<1>2. QED
  BY <1>1, Inductive, PTL

\* While no run outlives its job, a completed sync has stored data at least as
\* new as when it was asked for, although completeSync asks for nothing but the
\* status of the job.
THEOREM CompletedSyncsAreFresh == Spec => []CompletedIsFresh
<1>1. IInv => CompletedIsFresh
  BY DEF IInv, Fresh, FromInstitution, Linked, TypeOK, CompletedIsFresh
<1>2. QED
  BY <1>1, Inductive, PTL

\* The runs that could still store something for a job are one at most, and
\* the job is then being fetched.
LEMMA AloneIsOne == IInv => OneRunPerJob
<1> SUFFICES ASSUME IInv, ~ outlived, NEW j \in Jobs
             PROVE  LET at == {r \in Working(j) : run[r].pc \in {"fetching", "fetched", "storing"}}
                    IN  /\ Cardinality(at) <= 1
                        /\ at # {} => job[j].status = "FETCHING"
  BY DEF OneRunPerJob
<1> DEFINE at == {r \in Working(j) : run[r].pc \in {"fetching", "fetched", "storing"}}
<1>1. \A r, q \in at : r = q
  BY DEF IInv, Alone, Working
<1>2. \A r \in at : job[j].status = "FETCHING"
  BY DEF IInv, Alone, Working, Giving
<1>3. Cardinality(at) <= 1
  <2>1. CASE at = {}
    BY <2>1, FS_EmptySet
  <2>2. CASE at # {}
    <3>1. PICK r : r \in at
      BY <2>2
    <3>2. at = {r}
      BY <1>1, <3>1
    <3>3. Cardinality({r}) = 1
      BY FS_Singleton
    <3> HIDE DEF at
    <3>4. QED
      BY <3>2, <3>3
  <2>3. QED
    BY <2>1, <2>2
<1>4. QED
  BY <1>2, <1>3

\* The status that beginSync asks for keeps a job to one run while leases hold,
\* although the row does not say whose it is.
THEOREM JobsHaveOneRun == Spec => []OneRunPerJob
<1>1. QED
  BY Inductive, AloneIsOne, PTL

\* Syncs only ever bring newer data while no run outlives its lease: between
\* the fetch of a dataset and its commit no other is stored for the connection.
THEOREM DataOnlyGetsNewer == Spec => NeverOlder
<1>1. IInv /\ [Next]_vars => [~ outlived => \A c \in Connections : data'[c] >= data[c]]_vars
  BY NextKeeps
<1>2. QED
  BY <1>1, Inductive, PTL DEF Spec, NeverOlder
=============================================================================
