--------------------------- MODULE PlatformProofs ---------------------------
(***************************************************************************)
(* Theorems about the server's components of Platform, for any value of    *)
(* its constants.  Each component has an inductive invariant of its own: a *)
(* step of Platform is a step of one component and leaves the variables of *)
(* the others alone (Frame), so that the invariant of a component need be  *)
(* kept by its own actions only.                                           *)
(***************************************************************************)
EXTENDS Platform, FiniteSetTheorems, FunctionTheorems, SequenceTheorems, WellFoundedInduction,
        TLAPS

\* A step of the whole is for each component one of its own or none.
LEMMA Frame ==
    ASSUME [PlatformNext]_platformVars
    PROVE  /\ Identities!Next \/ UNCHANGED identityVars
           /\ Market!Next \/ UNCHANGED marketVars
           /\ Bars!Next \/ UNCHANGED barVars
           /\ Plans!Next \/ UNCHANGED planVars
           /\ Assets!Next \/ UNCHANGED assetVars
  BY DEF PlatformNext, Only, Still, Parts, platformVars

-----------------------------------------------------------------------------
(* Identity: users and profiles *)

Progress == {"idle", "find", "findAgain", "findWinner", "insert", "commit", "known", "audit",
             "ended"}

\* A call has the subject of its token once it is let through; as long as it has
\* no user, it works for nobody.
RequestsInv ==
    \A c \in Calls :
        /\ request[c].pc \notin {"idle", "ended"} => request[c].subject \in Subjects
        /\ request[c].pc \in Progress \ {"known", "audit", "ended"} => request[c].user = NoUser
        /\ request[c].pc \in {"known", "audit"} => request[c].user # NoUser
        /\ request[c].user # NoUser => identity[request[c].subject] = request[c].user

\* A call about to commit holds the key of its subject, which has no user yet.
ClaimsInv ==
    /\ \A c \in Calls : request[c].pc = "commit" =>
          claim[request[c].subject] = c /\ identity[request[c].subject] = NoUser

\* A version of a profile was written by an update for that user, based on the
\* version before it, that is on its way to the trail or was told what it did.
ProfilesInv ==
    \A u \in Calls : \A i \in 1..Len(profile[u]) :
        /\ request[profile[u][i]].pc \in {"audit", "ended"}
        /\ request[profile[u][i]].expected = i - 1
        /\ request[profile[u][i]].operation = "update"
        /\ request[profile[u][i]].user = u
        /\ request[profile[u][i]].status \in {0, 200, 500}

\* A call has its answer at its end; what was let through to update may write.
AnswersInv ==
    \A c \in Calls :
        /\ request[c].pc # "ended" => request[c].status = 0
        /\ request[c].operation = "update" => "financial.write" \in request[c].scopes

\* Nothing gets to the trail that is not applied, and an update is told so only
\* once it is in the trail.
TrailInv ==
    \A c \in Calls :
        /\ request[c].pc = "audit" \/ c \in audited => Identities!Applied(c)
        /\ request[c].operation = "update" /\ request[c].status = 200 => c \in audited

CallRecords == [pc : Progress, subject : Subjects \cup {"none"},
                scopes : SUBSET {"financial.read", "financial.write"},
                operation : {"none", "read", "update"},
                expected : Nat, user : Calls \cup {NoUser}, status : Nat]

IdentityTypeOK ==
    /\ request \in [Calls -> CallRecords]
    /\ identity \in [Subjects -> Calls \cup {NoUser}]
    /\ claim \in [Subjects -> Calls \cup {NoUser}]
    /\ profile \in [Calls -> Seq(Calls)]

UsersInv == users = {identity[s] : s \in Subjects} \ {NoUser}

IdentityInv == /\ IdentityTypeOK /\ RequestsInv /\ ClaimsInv /\ UsersInv
               /\ ProfilesInv /\ AnswersInv /\ TrailInv

USE NoUserAssumption

LEMMA IdentityInit == ASSUME PlatformInit PROVE IdentityInv
<1>1. /\ \A c \in Calls : request[c] = Identities!Idle /\ profile[c] = <<>>
      /\ request = [c \in Calls |-> Identities!Idle] /\ profile = [c \in Calls |-> <<>>]
      /\ identity = [s \in Subjects |-> NoUser] /\ claim = [s \in Subjects |-> NoUser]
      /\ users = {} /\ audited = {}
  BY DEF PlatformInit, Identities!Init
<1>2. Identities!Idle \in CallRecords
  BY DEF Identities!Idle, CallRecords, Progress
<1>3. IdentityTypeOK
  BY <1>1, <1>2 DEF IdentityTypeOK
<1>4. RequestsInv /\ ClaimsInv /\ AnswersInv /\ TrailInv
  BY <1>1 DEF Identities!Idle, RequestsInv, ClaimsInv, AnswersInv, TrailInv, Progress
<1>5. UsersInv /\ ProfilesInv
  BY <1>1 DEF UsersInv, ProfilesInv
<1>6. QED
  BY <1>3, <1>4, <1>5 DEF IdentityInv

\* What a step of one call leaves of the other calls, and of this one.
Moved(c) ==
    /\ request' \in [Calls -> CallRecords]
    /\ \A d \in Calls \ {c} : request'[d] = request[d]

Kept(c) ==
    /\ request'[c].subject = request[c].subject
    /\ request'[c].scopes = request[c].scopes
    /\ request'[c].operation = request[c].operation
    /\ request'[c].expected = request[c].expected

LEMMA CallGoesOn ==
    ASSUME IdentityTypeOK, NEW c \in Calls, NEW pc \in Progress, NEW u \in Calls \cup {NoUser},
           Identities!To(c, pc, u)
    PROVE  /\ Moved(c) /\ Kept(c) /\ request'[c].pc = pc /\ request'[c].user = u
           /\ request'[c].status = request[c].status
<1> DEFINE next == [request[c] EXCEPT !.pc = pc, !.user = u]
<1>1. request[c] \in CallRecords
  BY DEF IdentityTypeOK
<1>2. /\ next \in CallRecords /\ next.pc = pc /\ next.user = u
      /\ next.subject = request[c].subject /\ next.scopes = request[c].scopes
      /\ next.operation = request[c].operation /\ next.expected = request[c].expected
      /\ next.status = request[c].status
  BY <1>1 DEF CallRecords
<1>3. request' = [request EXCEPT ![c] = next]
  BY DEF Identities!To
<1> HIDE DEF next
<1>4. QED
  BY <1>2, <1>3 DEF IdentityTypeOK, Moved, Kept

LEMMA CallEnds ==
    ASSUME IdentityTypeOK, NEW c \in Calls, NEW n \in Nat, Identities!End(c, n)
    PROVE  /\ Moved(c) /\ Kept(c)
           /\ request'[c].pc = "ended" /\ request'[c].user = request[c].user
           /\ request'[c].status = n
<1> DEFINE stopped == [request[c] EXCEPT !.pc = "ended", !.status = n]
<1>1. request[c] \in CallRecords
  BY DEF IdentityTypeOK
<1>2. /\ stopped \in CallRecords /\ stopped.pc = "ended" /\ stopped.status = n
      /\ stopped.user = request[c].user /\ stopped.subject = request[c].subject
      /\ stopped.scopes = request[c].scopes
      /\ stopped.operation = request[c].operation /\ stopped.expected = request[c].expected
  BY <1>1 DEF CallRecords, Progress
<1>3. request' = [request EXCEPT ![c] = stopped]
  BY DEF Identities!End
<1> HIDE DEF stopped
<1>4. QED
  BY <1>2, <1>3 DEF IdentityTypeOK, Moved, Kept

\* The versions of a profile stay as they are as long as no call that has
\* written one changes what it was.
LEMMA ProfilesKept ==
    ASSUME IdentityTypeOK, ProfilesInv, UNCHANGED profile, NEW c \in Calls, Moved(c),
           request[c].pc \in {"audit", "ended"} =>
              /\ Kept(c) /\ request'[c].pc \in {"audit", "ended"}
              /\ request'[c].user = request[c].user /\ request'[c].status \in {0, 200, 500}
    PROVE  ProfilesInv'
<1>1. \A u \in Calls : \A i \in 1..Len(profile[u]) : profile[u][i] \in Calls
  BY DEF IdentityTypeOK
<1>2. QED
  BY <1>1 DEF ProfilesInv, Moved, Kept

\* The trail is right as long as no update is told that it was applied.
LEMMA TrailKept ==
    ASSUME AnswersInv, TrailInv, UNCHANGED <<profile, audited>>, NEW c \in Calls, Moved(c),
           Kept(c), request'[c].pc # "audit",
           request'[c].pc # "ended" => request'[c].status = request[c].status,
           request[c].pc # "ended",
           request[c].operation = "update" => request'[c].status # 200
    PROVE  AnswersInv' /\ TrailInv'
<1>1. \A d \in Calls : Identities!Applied(d) => Identities!Applied(d)'
  BY DEF Identities!Applied, Identities!Version
<1>2. AnswersInv'
  BY DEF AnswersInv, Moved, Kept
<1>3. ASSUME NEW d \in Calls
      PROVE  /\ request'[d].pc = "audit" \/ d \in audited' => Identities!Applied(d)'
             /\ request'[d].operation = "update" /\ request'[d].status = 200 => d \in audited'
  <2>1. CASE d = c
    BY <1>1, <2>1 DEF TrailInv, Kept
  <2>2. CASE d # c
    BY <1>1, <2>2 DEF TrailInv, Moved
  <2>3. QED
    BY <2>1, <2>2
<1>4. QED
  BY <1>2, <1>3 DEF TrailInv

\* What RequestsInv says of one call.
CallInv(d) ==
    /\ request[d].pc \notin {"idle", "ended"} => request[d].subject \in Subjects
    /\ request[d].pc \in Progress \ {"known", "audit", "ended"} => request[d].user = NoUser
    /\ request[d].pc \in {"known", "audit"} => request[d].user # NoUser
    /\ request[d].user # NoUser => identity[request[d].subject] = request[d].user

\* A call that goes on without touching users, identities and claims.
LEMMA OthersKept ==
    ASSUME IdentityInv, UNCHANGED <<identity, users, claim>>, NEW c \in Calls, Moved(c), Kept(c),
           request[c].pc # "ended", request'[c].pc \notin {"idle", "commit"},
           request[c].pc = "idle" => request'[c].pc = "ended",
           \/ request'[c].user = request[c].user
           \/ request'[c].user = identity[request[c].subject],
           request'[c].pc \in {"known", "audit"} => request'[c].user # NoUser,
           request'[c].pc \in {"find", "findAgain", "findWinner", "insert"} =>
              request'[c].user = NoUser
    PROVE  RequestsInv' /\ ClaimsInv' /\ UsersInv'
<1>1. CallInv(c)'
  BY DEF IdentityInv, RequestsInv, CallInv, Kept, Progress
<1>2. ASSUME NEW d \in Calls \ {c} PROVE CallInv(d)'
  BY <1>2 DEF IdentityInv, RequestsInv, CallInv, Moved
<1>3. RequestsInv'
  BY <1>1, <1>2 DEF RequestsInv, CallInv
<1>4. ClaimsInv'
  BY DEF IdentityInv, ClaimsInv, Moved
<1>5. QED
  BY <1>3, <1>4 DEF IdentityInv, UsersInv

\* The same of a call that neither writes nor tells what it wrote.
LEMMA QuietStep ==
    ASSUME IdentityInv, UNCHANGED <<identity, users, profile, claim, audited>>, NEW c \in Calls,
           Moved(c), Kept(c),
           request[c].pc # "ended", request'[c].pc \notin {"idle", "commit", "audit"},
           request[c].pc \in {"idle", "audit"} => request'[c].pc = "ended",
           \/ request'[c].user = request[c].user
           \/ /\ request[c].pc # "audit"
              /\ request'[c].user = identity[request[c].subject],
           request'[c].pc = "known" => request'[c].user # NoUser,
           request'[c].pc \in {"find", "findAgain", "findWinner", "insert"} =>
              request'[c].user = NoUser,
           request'[c].pc # "ended" => request'[c].status = request[c].status,
           request[c].pc = "audit" => request'[c].status = 500,
           request[c].operation = "update" => request'[c].status # 200
    PROVE  IdentityInv'
<1>1. RequestsInv' /\ ClaimsInv' /\ UsersInv'
  BY OthersKept
<1>2. ProfilesInv'
  BY ProfilesKept DEF IdentityInv
<1>3. AnswersInv' /\ TrailInv'
  BY TrailKept DEF IdentityInv
<1>4. IdentityTypeOK'
  BY DEF IdentityInv, IdentityTypeOK, Moved
<1>5. QED
  BY <1>1, <1>2, <1>3, <1>4 DEF IdentityInv

\* The UPDATE takes effect: one version more, of this call.
LEMMA AppliedStep ==
    ASSUME IdentityInv, NEW c \in Calls, NEW u \in Calls, u = request[c].user,
           request[c].pc = "known", request[c].operation = "update",
           UNCHANGED <<identity, users, claim, audited>>,
           Len(profile[u]) = request[c].expected,
           profile' = [profile EXCEPT ![u] = Append(@, c)],
           Moved(c), Kept(c), request'[c].user = u,
           \/ request'[c].pc = "audit" /\ request'[c].status = request[c].status
           \/ request'[c].pc = "ended" /\ request'[c].status = 500
    PROVE  IdentityInv'
<1> USE DEF IdentityInv
<1>1. RequestsInv' /\ ClaimsInv' /\ UsersInv'
  BY OthersKept
<1>2. /\ profile' \in [Calls -> Seq(Calls)]
      /\ \A v \in Calls \ {u} : profile'[v] = profile[v]
      /\ profile'[u] = Append(profile[u], c)
  <2>1. profile[u] \in Seq(Calls) /\ Append(profile[u], c) \in Seq(Calls)
    BY DEF IdentityTypeOK
  <2>2. QED
    BY <2>1 DEF IdentityTypeOK
<1>3. IdentityTypeOK'
  BY <1>2 DEF IdentityTypeOK, Moved
<1>4. \A v \in Calls : \A i \in 1..Len(profile[v]) :
        i \in 1..Len(profile'[v]) /\ profile'[v][i] = profile[v][i] /\ profile[v][i] \in Calls
  <2>1. SUFFICES ASSUME NEW v \in Calls, NEW i \in 1..Len(profile[v])
                 PROVE  /\ i \in 1..Len(profile'[v]) /\ profile'[v][i] = profile[v][i]
                        /\ profile[v][i] \in Calls
    OBVIOUS
  <2>2. profile[v] \in Seq(Calls) /\ profile[v][i] \in Calls
    BY DEF IdentityTypeOK
  <2>3. CASE v = u
    BY <1>2, <2>2, <2>3, AppendProperties
  <2>4. CASE v # u
    BY <1>2, <2>2, <2>4
  <2>5. QED
    BY <2>3, <2>4
<1>5. /\ Len(profile[u]) + 1 \in 1..Len(profile'[u])
      /\ profile'[u][Len(profile[u]) + 1] = c
      /\ \A i \in 1..Len(profile'[u]) : i \in 1..Len(profile[u]) \/ i = Len(profile[u]) + 1
  <2>1. profile[u] \in Seq(Calls) /\ profile'[u] = Append(profile[u], c)
    BY <1>2 DEF IdentityTypeOK
  <2>2. Len(profile'[u]) = Len(profile[u]) + 1 /\ Len(profile[u]) \in Nat
    BY <2>1
  <2>3. profile'[u][Len(profile[u]) + 1] = c
    BY <2>1, AppendProperties
  <2>4. QED
    BY <2>2, <2>3
<1>6. ASSUME NEW v \in Calls, NEW i \in 1..Len(profile'[v])
      PROVE  /\ request'[profile'[v][i]].pc \in {"audit", "ended"}
             /\ request'[profile'[v][i]].expected = i - 1
             /\ request'[profile'[v][i]].operation = "update"
             /\ request'[profile'[v][i]].user = v
             /\ request'[profile'[v][i]].status \in {0, 200, 500}
  <2>1. CASE v = u /\ i = Len(profile[u]) + 1
    <3>1. request[c].status = 0 /\ Len(profile[u]) \in Nat
      BY DEF AnswersInv, IdentityTypeOK
    <3>2. profile'[v][i] = c /\ i - 1 = request[c].expected
      BY <1>5, <2>1, <3>1
    <3>3. /\ request'[c].pc \in {"audit", "ended"} /\ request'[c].user = v
          /\ request'[c].status \in {0, 200, 500}
      BY <2>1, <3>1
    <3>4. QED
      BY <3>2, <3>3 DEF Kept
  <2>2. CASE ~(v = u /\ i = Len(profile[u]) + 1)
    <3>1. i \in 1..Len(profile[v])
      BY <1>2, <1>5, <1>6, <2>2
    <3>2. profile'[v][i] = profile[v][i] /\ profile[v][i] \in Calls
      BY <1>4, <3>1
    <3>3. profile[v][i] # c
      BY <3>1 DEF ProfilesInv
    <3>4. request'[profile'[v][i]] = request[profile[v][i]]
      BY <3>2, <3>3 DEF Moved
    <3>5. /\ request[profile[v][i]].pc \in {"audit", "ended"}
          /\ request[profile[v][i]].expected = i - 1
          /\ request[profile[v][i]].operation = "update"
          /\ request[profile[v][i]].user = v
          /\ request[profile[v][i]].status \in {0, 200, 500}
      BY <3>1 DEF ProfilesInv
    <3>6. QED
      BY <3>4, <3>5
  <2>3. QED
    BY <2>1, <2>2
<1>7. ProfilesInv'
  BY <1>6 DEF ProfilesInv
<1>8. AnswersInv'
  BY DEF AnswersInv, Moved, Kept
<1>9. /\ \A d \in Calls : Identities!Applied(d) => Identities!Applied(d)'
      /\ Identities!Applied(c)'
  BY <1>4, <1>5 DEF Identities!Applied, Identities!Version
<1>10. ASSUME NEW d \in Calls
       PROVE  /\ request'[d].pc = "audit" \/ d \in audited' => Identities!Applied(d)'
              /\ request'[d].operation = "update" /\ request'[d].status = 200 => d \in audited'
  <2>1. CASE d = c
    BY <1>9, <2>1 DEF TrailInv, AnswersInv, Kept
  <2>2. CASE d # c
    BY <1>9, <2>2 DEF TrailInv, Moved
  <2>3. QED
    BY <2>1, <2>2
<1>11. TrailInv'
  BY <1>10 DEF TrailInv
<1>12. QED
  BY <1>1, <1>3, <1>7, <1>8, <1>11

LEMMA ArriveStep ==
    ASSUME IdentityInv, NEW c \in Calls, NEW s \in Subjects, NEW t \in Identities!Tokens,
           NEW o \in {"read", "update"}, NEW v \in 0..1, Identities!Arrive(c, s, o, t, v)
    PROVE  IdentityInv'
<1> USE DEF IdentityInv
<1>1. request[c].pc = "idle" /\ UNCHANGED <<identity, users, profile, claim, audited>>
  BY DEF Identities!Arrive
<1>2. CASE /\ Identities!Verdict(t, o) = 200
           /\ request' = [request EXCEPT ![c] =
                 [pc |-> "find", subject |-> s, scopes |-> Identities!Scopes(t),
                  operation |-> o, expected |-> v, user |-> NoUser, status |-> 0]]
  <2>1. /\ Identities!Scopes(t) \in SUBSET {"financial.read", "financial.write"}
        /\ o = "update" => "financial.write" \in Identities!Scopes(t)
    BY <1>2 DEF Identities!Verdict, Identities!Required, Identities!Scopes, Identities!Tokens
  <2>2. /\ Moved(c) /\ request'[c].pc = "find" /\ request'[c].user = NoUser
        /\ request'[c].subject = s /\ request'[c].status = 0
        /\ request'[c].scopes = Identities!Scopes(t) /\ request'[c].operation = o
    <3> DEFINE let == [pc |-> "find", subject |-> s, scopes |-> Identities!Scopes(t),
                       operation |-> o, expected |-> v, user |-> NoUser, status |-> 0]
    <3>1. /\ let \in CallRecords /\ let.pc = "find" /\ let.user = NoUser
          /\ let.subject = s /\ let.status = 0
          /\ let.scopes = Identities!Scopes(t) /\ let.operation = o
      BY <2>1 DEF CallRecords, Progress
    <3>2. request' = [request EXCEPT ![c] = let]
      BY <1>2
    <3> HIDE DEF let
    <3>3. QED
      BY <3>1, <3>2 DEF Moved, IdentityTypeOK
  <2>3. ProfilesInv' /\ IdentityTypeOK'
    BY <1>1, <2>2, ProfilesKept DEF IdentityTypeOK, Moved
  <2>4. AnswersInv'
    BY <2>1, <2>2 DEF AnswersInv, Moved
  <2>5. \A d \in Calls : Identities!Applied(d) => Identities!Applied(d)'
    BY <1>1 DEF Identities!Applied, Identities!Version
  <2>6. TrailInv'
    <3>1. ASSUME NEW d \in Calls
          PROVE  /\ request'[d].pc = "audit" \/ d \in audited' => Identities!Applied(d)'
                 /\ request'[d].operation = "update" /\ request'[d].status = 200 =>
                       d \in audited'
      <4>1. CASE d = c
        BY <1>1, <2>2, <2>5, <4>1 DEF TrailInv
      <4>2. CASE d # c
        BY <1>1, <2>2, <2>5, <4>2 DEF TrailInv, Moved
      <4>3. QED
        BY <4>1, <4>2
    <3>2. QED
      BY <3>1 DEF TrailInv
  <2>7. CallInv(c)'
    BY <2>2 DEF CallInv
  <2>8. ASSUME NEW d \in Calls \ {c} PROVE CallInv(d)'
    BY <1>1, <2>2, <2>8 DEF RequestsInv, CallInv, Moved
  <2>9. RequestsInv'
    BY <2>7, <2>8 DEF RequestsInv, CallInv
  <2>10. ClaimsInv' /\ UsersInv'
    BY <1>1, <2>2 DEF ClaimsInv, UsersInv, Moved
  <2>11. QED
    BY <2>3, <2>4, <2>6, <2>9, <2>10
<1>3. CASE Identities!Verdict(t, o) # 200 /\ Identities!End(c, Identities!Verdict(t, o))
  <2>1. Identities!Verdict(t, o) \in Nat
    BY DEF Identities!Verdict
  <2>2. /\ Moved(c) /\ Kept(c) /\ request'[c].pc = "ended"
        /\ request'[c].user = request[c].user /\ request'[c].status # 200
    BY <1>3, <2>1, CallEnds
  <2>3. QED
    BY <1>1, <2>2, QuietStep
<1>4. QED
  BY <1>2, <1>3 DEF Identities!Arrive

LEMMA IdentityStep == ASSUME IdentityInv, Identities!Next PROVE IdentityInv'
<1> USE DEF IdentityInv
<1>1. PICK c \in Calls :
        \/ \E s \in Subjects, t \in Identities!Tokens, o \in {"read", "update"},
              v \in 0..1 : Identities!Arrive(c, s, o, t, v)
        \/ Identities!Validate(c) \/ Identities!Find(c) \/ Identities!Insert(c)
        \/ Identities!Commit(c) \/ Identities!Abort(c)
        \/ Identities!Read(c) \/ Identities!Update(c) \/ Identities!Audit(c)
  BY DEF Identities!Next
<1>2. CASE \E s \in Subjects, t \in Identities!Tokens, o \in {"read", "update"},
              v \in 0..1 : Identities!Arrive(c, s, o, t, v)
  BY <1>2, ArriveStep
<1>3. CASE Identities!Validate(c)
  <2>1. /\ Identities!End(c, 400) /\ request[c].pc = "find"
        /\ UNCHANGED <<identity, users, profile, claim, audited>>
    BY <1>3 DEF Identities!Validate, Identities!logs
  <2>2. QED
    BY <2>1, CallEnds, QuietStep
<1>4. CASE Identities!Find(c)
  <2>1. PICK pc \in {"known", "findAgain", "insert"}, u \in Calls \cup {NoUser} :
          /\ Identities!To(c, pc, u)
          /\ pc = "known" => u = identity[request[c].subject] /\ u # NoUser
          /\ pc # "known" => u = NoUser
          /\ request[c].pc \in {"find", "findAgain", "findWinner"}
          /\ request[c].subject \in Subjects
          /\ UNCHANGED <<identity, users, profile, claim, audited>>
    BY <1>4 DEF Identities!Find, IdentityTypeOK, RequestsInv, Identities!logs
  <2>2. /\ Moved(c) /\ Kept(c) /\ request'[c].pc = pc /\ request'[c].user = u
        /\ request'[c].status = request[c].status
    BY <2>1, CallGoesOn DEF Progress
  <2>3. request[c].user = NoUser /\ request[c].status = 0
    BY <2>1 DEF RequestsInv, AnswersInv, Progress
  <2>4. QED
    BY <2>1, <2>2, <2>3, QuietStep
<1>5. CASE Identities!Insert(c)
  <2>1. UNCHANGED <<identity, users, profile, audited>> /\ request[c].pc = "insert"
    BY <1>5 DEF Identities!Insert, Identities!logs
  <2>4. request[c].user = NoUser /\ request[c].subject \in Subjects /\ request[c].status = 0
    BY <2>1 DEF RequestsInv, AnswersInv, Progress
  <2>2. CASE /\ claim[request[c].subject] = NoUser /\ identity[request[c].subject] = NoUser
             /\ claim' = [claim EXCEPT ![request[c].subject] = c]
             /\ Identities!To(c, "commit", NoUser)
    <3>1. /\ Moved(c) /\ Kept(c) /\ request'[c].pc = "commit" /\ request'[c].user = NoUser
          /\ request'[c].status = request[c].status
      BY <2>2, CallGoesOn DEF Progress
    <3>2. ProfilesInv'
      BY <2>1, <3>1, ProfilesKept
    <3>3. CallInv(c)'
      BY <2>1, <2>4, <3>1 DEF CallInv, Kept
    <3>4. ASSUME NEW d \in Calls \ {c} PROVE CallInv(d)'
      BY <2>1, <3>1, <3>4 DEF RequestsInv, CallInv, Moved
    <3>5. RequestsInv'
      BY <3>3, <3>4 DEF RequestsInv, CallInv
    <3>6. AnswersInv' /\ TrailInv'
      BY <2>1, <2>4, <3>1, TrailKept
    <3>7. ClaimsInv'
      <4>1. ASSUME NEW d \in Calls, request'[d].pc = "commit"
            PROVE  claim'[request'[d].subject] = d /\ identity'[request'[d].subject] = NoUser
        <5>1. CASE d = c
          BY <2>1, <2>2, <2>4, <3>1, <5>1 DEF IdentityTypeOK, Kept
        <5>2. CASE d # c
          BY <2>1, <2>2, <2>4, <3>1, <4>1, <5>2, NoUserAssumption
          DEF IdentityTypeOK, ClaimsInv, Moved
        <5>3. QED
          BY <5>1, <5>2
      <4>2. QED
        BY <4>1 DEF ClaimsInv
    <3>8. UsersInv' /\ IdentityTypeOK'
      BY <2>1, <2>2, <3>1 DEF IdentityTypeOK, UsersInv, Moved
    <3>9. QED
      BY <3>2, <3>5, <3>6, <3>7, <3>8
  <2>3. CASE /\ UNCHANGED claim
             /\ Identities!To(c, "findWinner", NoUser) \/ Identities!End(c, 500)
    <3>1. /\ Moved(c) /\ Kept(c) /\ request'[c].pc \in {"findWinner", "ended"}
          /\ request'[c].user = NoUser /\ request'[c].status # 200
          /\ request'[c].pc = "findWinner" => request'[c].status = request[c].status
      BY <2>3, <2>4, CallGoesOn, CallEnds DEF Progress
    <3>2. QED
      BY <2>1, <2>3, <2>4, <3>1, QuietStep
  <2>5. QED
    BY <1>5, <2>2, <2>3 DEF Identities!Insert, Identities!AfterError
<1>6. CASE Identities!Commit(c)
  <2> DEFINE s == request[c].subject
  <2>1. /\ request[c].pc = "commit" /\ s \in Subjects /\ claim[s] = c /\ identity[s] = NoUser
        /\ identity' = [identity EXCEPT ![s] = c]
        /\ users' = users \cup {c}
        /\ claim' = [claim EXCEPT ![s] = NoUser]
        /\ Identities!To(c, "known", c) \/ Identities!End(c, 500)
        /\ UNCHANGED <<profile, audited>>
        /\ request[c].user = NoUser /\ request[c].status = 0
    BY <1>6 DEF Identities!Commit, RequestsInv, ClaimsInv, AnswersInv, Progress, Identities!logs
  <2>2. /\ Moved(c) /\ Kept(c)
        /\ \/ /\ request'[c].pc = "known" /\ request'[c].user = c
              /\ request'[c].status = request[c].status
           \/ /\ request'[c].pc = "ended" /\ request'[c].user = NoUser
              /\ request'[c].status = 500
    BY <2>1, CallGoesOn, CallEnds DEF Progress
  <2>3. IdentityTypeOK' /\ ProfilesInv'
    <3>1. ProfilesInv'
      BY <2>1, <2>2, ProfilesKept
    <3>2. IdentityTypeOK'
      BY <2>1, <2>2 DEF IdentityTypeOK, Moved
    <3>3. QED
      BY <3>1, <3>2
  <2>4. RequestsInv'
    <3>1. CallInv(c)'
      BY <2>1, <2>2 DEF CallInv, Kept, IdentityTypeOK, Progress
    <3>2. ASSUME NEW d \in Calls \ {c} PROVE CallInv(d)'
      BY <2>1, <2>2, <3>2 DEF RequestsInv, CallInv, Moved, IdentityTypeOK
    <3>3. QED
      BY <3>1, <3>2 DEF RequestsInv, CallInv
  <2>5. ClaimsInv'
    <3>1. ASSUME NEW d \in Calls, request'[d].pc = "commit"
          PROVE  claim'[request'[d].subject] = d /\ identity'[request'[d].subject] = NoUser
      <4>1. d # c /\ request'[d] = request[d]
        BY <2>2, <3>1 DEF Moved
      <4>2. claim[request[d].subject] = d /\ identity[request[d].subject] = NoUser
        BY <3>1, <4>1 DEF ClaimsInv
      <4>3. request[d].subject # s
        BY <2>1, <4>1, <4>2
      <4>4. QED
        BY <2>1, <4>1, <4>2, <4>3 DEF IdentityTypeOK
    <3>2. QED
      BY <3>1 DEF ClaimsInv
  <2>6. UsersInv'
    BY <2>1 DEF IdentityTypeOK, UsersInv
  <2>7. AnswersInv' /\ TrailInv'
    BY <2>1, <2>2, TrailKept
  <2>8. QED
    BY <2>3, <2>4, <2>5, <2>6, <2>7
<1>7. CASE Identities!Abort(c)
  <2> DEFINE s == request[c].subject
  <2>1. /\ request[c].pc = "commit" /\ s \in Subjects /\ claim[s] = c
        /\ claim' = [claim EXCEPT ![s] = NoUser]
        /\ Identities!End(c, 500)
        /\ UNCHANGED <<identity, users, profile, audited>>
    BY <1>7 DEF Identities!Abort, RequestsInv, ClaimsInv, Progress, Identities!logs
  <2>2. /\ Moved(c) /\ Kept(c) /\ request'[c].pc = "ended"
        /\ request'[c].user = request[c].user /\ request'[c].status = 500
    BY <2>1, CallEnds
  <2>3. IdentityTypeOK' /\ ProfilesInv'
    BY <2>1, <2>2, ProfilesKept DEF IdentityTypeOK, Moved
  <2>4. RequestsInv' /\ ClaimsInv' /\ UsersInv'
    <3>1. request[c].user = NoUser
      BY <2>1 DEF RequestsInv, Progress
    <3>2. CallInv(c)'
      BY <2>1, <2>2, <3>1 DEF CallInv, Kept
    <3>3. ASSUME NEW d \in Calls \ {c} PROVE CallInv(d)'
      BY <2>1, <2>2, <3>3 DEF RequestsInv, CallInv, Moved
    <3>4. RequestsInv' /\ UsersInv'
      BY <2>1, <3>2, <3>3 DEF RequestsInv, CallInv, UsersInv
    <3>5. ASSUME NEW d \in Calls, request'[d].pc = "commit"
          PROVE  claim'[request'[d].subject] = d /\ identity'[request'[d].subject] = NoUser
      <4>1. d # c /\ request'[d] = request[d]
        BY <2>2, <3>5 DEF Moved
      <4>2. claim[request[d].subject] = d /\ identity[request[d].subject] = NoUser
        BY <3>5, <4>1 DEF ClaimsInv
      <4>3. request[d].subject # s
        BY <2>1, <4>1, <4>2
      <4>4. QED
        BY <2>1, <4>1, <4>2, <4>3 DEF IdentityTypeOK
    <3>6. QED
      BY <3>4, <3>5 DEF ClaimsInv
  <2>5. AnswersInv' /\ TrailInv'
    BY <2>1, <2>2, TrailKept
  <2>6. QED
    BY <2>3, <2>4, <2>5
<1>8. CASE Identities!Read(c)
  <2>1. /\ Identities!End(c, 200) /\ request[c].pc = "known" /\ request[c].operation = "read"
        /\ UNCHANGED <<identity, users, profile, claim, audited>>
    BY <1>8 DEF Identities!Read, Identities!logs
  <2>2. QED
    BY <2>1, CallEnds, QuietStep
<1>9. CASE Identities!Update(c)
  <2> DEFINE u == request[c].user
  <2>1. /\ request[c].pc = "known" /\ u \in Calls /\ UNCHANGED <<identity, users, claim, audited>>
        /\ request[c].operation = "update"
    BY <1>9 DEF Identities!Update, RequestsInv, IdentityTypeOK, CallRecords, Identities!logs
  <2>2. CASE /\ Len(profile[u]) = request[c].expected
             /\ profile' = [profile EXCEPT ![u] = Append(@, c)]
             /\ Identities!To(c, "audit", u) \/ Identities!End(c, 500)
    <3>1. /\ Moved(c) /\ Kept(c) /\ request'[c].user = u
          /\ \/ request'[c].pc = "audit" /\ request'[c].status = request[c].status
             \/ request'[c].pc = "ended" /\ request'[c].status = 500
      BY <2>1, <2>2, CallGoesOn, CallEnds DEF Progress
    <3>2. QED
      BY <2>1, <2>2, <3>1, AppliedStep
  <2>3. ASSUME NEW n \in {409, 500}, Identities!End(c, n), UNCHANGED profile
        PROVE  IdentityInv'
    BY <2>1, <2>3, CallEnds, QuietStep
  <2>4. QED
    BY <1>9, <2>2, <2>3 DEF Identities!Update, Identities!VersionMatches, Identities!Version
<1>10. CASE Identities!Audit(c)
  <2>1. request[c].pc = "audit" /\ UNCHANGED <<identity, users, profile, claim>>
    BY <1>10 DEF Identities!Audit
  <2>2. CASE Identities!End(c, 500) /\ UNCHANGED audited
    BY <2>1, <2>2, CallEnds, QuietStep
  <2>3. ASSUME NEW n \in {200, 500}, Identities!End(c, n), audited' = audited \cup {c}
        PROVE  IdentityInv'
    <3>1. /\ Moved(c) /\ Kept(c) /\ request'[c].pc = "ended" /\ request'[c].status = n
          /\ request'[c].user = request[c].user
      BY <2>3, CallEnds
    <3>2. RequestsInv' /\ ClaimsInv' /\ UsersInv'
      BY <2>1, <3>1, OthersKept
    <3>3. ProfilesInv' /\ IdentityTypeOK'
      BY <2>1, <2>3, <3>1, ProfilesKept DEF IdentityTypeOK, Moved
    <3>4. AnswersInv'
      BY <3>1 DEF AnswersInv, Moved, Kept
    <3>5. \A d \in Calls : Identities!Applied(d) => Identities!Applied(d)'
      BY <2>1 DEF Identities!Applied, Identities!Version
    <3>6. ASSUME NEW d \in Calls
          PROVE  /\ request'[d].pc = "audit" \/ d \in audited' => Identities!Applied(d)'
                 /\ request'[d].operation = "update" /\ request'[d].status = 200 =>
                       d \in audited'
      <4>1. CASE d = c
        BY <2>1, <2>3, <3>1, <3>5, <4>1 DEF TrailInv
      <4>2. CASE d # c
        BY <2>3, <3>1, <3>5, <4>2 DEF TrailInv, Moved
      <4>3. QED
        BY <4>1, <4>2
    <3>7. TrailInv'
      BY <3>6 DEF TrailInv
    <3>8. QED
      BY <3>2, <3>3, <3>4, <3>7
  <2>4. QED
    BY <1>10, <2>2, <2>3 DEF Identities!Audit
<1>11. QED
  BY <1>1, <1>2, <1>3, <1>4, <1>5, <1>6, <1>7, <1>8, <1>9, <1>10

\* The invariant of a component is kept by the steps of the others.
LEMMA IdentityAlways == PlatformSpec => []IdentityInv
<1>1. ASSUME IdentityInv, UNCHANGED identityVars PROVE IdentityInv'
  BY <1>1 DEF identityVars, IdentityInv, IdentityTypeOK, RequestsInv, ClaimsInv, UsersInv,
              ProfilesInv, AnswersInv, TrailInv, Identities!Applied, Identities!Version
<1>2. IdentityInv /\ [PlatformNext]_platformVars => IdentityInv'
  BY <1>1, IdentityStep, Frame
<1>3. PlatformInit => IdentityInv
  BY IdentityInit
<1>4. QED
  BY <1>2, <1>3, PTL DEF PlatformSpec

\* Concurrent first requests of one subject work for one user, and every user
\* is reached by its identity (provisionFromOidc).
THEOREM UsersAreUnique == PlatformSpec => []OneUserPerSubject
<1>1. IdentityInv => OneUserPerSubject
  BY DEF IdentityInv, IdentityTypeOK, RequestsInv, UsersInv, OneUserPerSubject,
         Identities!OneUserPerSubject, Progress
<1>2. QED
  BY <1>1, IdentityAlways, PTL

\* Every version of a risk profile was written over the one before it, by a call
\* with the scope to write and for that user; what is answered and audited is
\* applied, what is refused is not (saveRiskProfile, OidcJwtGuard).
THEOREM UpdatesAreAccounted == PlatformSpec => []UpdatesAccounted
<1>1. ASSUME IdentityInv PROVE Identities!WrittenByRight
  <2>1. SUFFICES ASSUME NEW u \in Calls, NEW i \in 1..Len(profile[u])
                 PROVE  /\ request[profile[u][i]].expected = i - 1
                        /\ "financial.write" \in request[profile[u][i]].scopes
                        /\ identity[request[profile[u][i]].subject] = u
    BY DEF Identities!WrittenByRight, Identities!Version
  <2>2. profile[u][i] \in Calls
    BY <1>1 DEF IdentityInv, IdentityTypeOK
  <2>3. /\ request[profile[u][i]].expected = i - 1
        /\ request[profile[u][i]].operation = "update"
        /\ request[profile[u][i]].user = u /\ u # NoUser
    BY <1>1 DEF IdentityInv, ProfilesInv
  <2>4. QED
    BY <1>1, <2>2, <2>3 DEF IdentityInv, AnswersInv, RequestsInv
<1>2. ASSUME IdentityInv PROVE Identities!AnsweredTruly
  <2>1. ASSUME NEW c \in Calls, Identities!Applied(c) PROVE request[c].status \in {0, 200, 500}
    BY <1>2, <2>1 DEF IdentityInv, ProfilesInv, Identities!Applied, Identities!Version
  <2>2. QED
    BY <1>2, <2>1 DEF IdentityInv, TrailInv, Identities!AnsweredTruly
<1>3. IdentityInv => UpdatesAccounted
  BY <1>1, <1>2 DEF UpdatesAccounted, Identities!UpdatesAccounted
<1>4. QED
  BY <1>3, IdentityAlways, PTL

HIDE NoUserAssumption

-----------------------------------------------------------------------------
(* MarketCache: typing and the access token *)

Rows == [at : Nat, source : {"KIS", "LOCAL", "NONE"}]
GetRecords == [pc : {"idle", "looked", "joined", "over"}, kind : {"none", "quote", "bars"},
               cached : Rows]
RefreshRecords == [pc : {"none", "token", "fetch", "save", "saved", "reread"}, cached : Rows,
                   got : Rows, since : Nat, ends : Nat]

MarketTypeOK ==
    /\ now \in Nat /\ now > 0
    /\ provider \in Market!Sources
    /\ stored \in [Market!Kinds -> SUBSET Rows]
    /\ get \in [Gets -> GetRecords]
    /\ refresh \in [Market!Kinds -> RefreshRecords]
    /\ barRefreshAt \in Nat
    /\ token \in [until : Nat, ends : Nat]
    /\ tokenSince \in Nat
    /\ unnoticed \in [Market!Kinds -> Nat]

\* The token request ends within Wait, and the cache believes the token to end
\* at most as much too late.
TokenInv ==
    /\ tokenSince # 0 => tokenSince <= now /\ now <= tokenSince + Wait
    /\ token.until <= token.ends + Wait

\* A fetch ends within Wait, before the token does; what it brings is stored in
\* the same instant.
FetchInv(k) ==
    /\ refresh[k].pc # "none" => refresh[k].since <= now
    /\ refresh[k].pc = "token" => tokenSince # 0 /\ tokenSince <= refresh[k].since
    /\ refresh[k].pc \notin {"none", "token"} => now <= refresh[k].since + Wait
    /\ refresh[k].pc = "fetch" /\ provider = "KIS" =>
          refresh[k].ends > refresh[k].since + Wait
    /\ refresh[k].pc = "save" =>
          /\ refresh[k].got.at = now \/ (k = "bars" /\ refresh[k].got.at = 0)
          /\ refresh[k].got.source = provider

RefreshInv == MarketTypeOK /\ TokenInv /\ \A k \in Market!Kinds : FetchInv(k)

-----------------------------------------------------------------------------
(* MarketCache: the values that are answered *)

\* There is a newest row, and it is of the past.
StoredInv(k) ==
    /\ \A r \in stored[k] : r.at > 0 /\ r.at <= now
    /\ stored[k] # {} => \E r \in stored[k] : \A o \in stored[k] : o.at <= r.at

\* A call has read a value of the past; one that waits has a refresh to wait for.
GetInv(g) ==
    /\ get[g].pc \in {"looked", "joined"} => /\ get[g].kind \in Market!Kinds
                                             /\ get[g].cached.at <= now
    /\ get[g].pc = "joined" => refresh[get[g].kind].pc # "none"

\* Quotes stay stored.  One newer than what a call has just read was stored in the
\* same instant; one newer than what a refresh falls back on was fresh when the
\* refresh began, so that whoever has read it does not join.
QuoteInv ==
    /\ refresh["quote"].pc # "none" =>
          /\ refresh["quote"].cached \in stored["quote"] \cup {Market!NoRow}
          /\ \A r \in stored["quote"] : r.at > refresh["quote"].cached.at =>
                /\ r.source = provider
                /\ refresh["quote"].pc = "token" => r.at >= refresh["quote"].since
                /\ r.at + Wait >= refresh["quote"].since
    /\ \A g \in Gets : get[g].kind = "quote" =>
          /\ get[g].pc = "looked" =>
                /\ get[g].cached \in stored["quote"] \cup {Market!NoRow}
                /\ \A r \in stored["quote"] : r.at > get[g].cached.at =>
                      r.source = provider /\ r.at = now
          /\ get[g].pc = "joined" => \/ refresh["quote"].cached = Market!NoRow
                                     \/ get[g].cached.at <= refresh["quote"].cached.at

\* A chart that this process has just replaced is new.
ReplacedInv ==
    /\ barRefreshAt <= now
    /\ \/ refresh["bars"].pc \in {"saved", "reread"}
       \/ barRefreshAt = now
       => stored["bars"] = {} \/ Market!Latest("bars").at = now

\* As long as the process knows of all charts that are stored: what a call has
\* read and what a refresh falls back on is the chart that is stored, unless the
\* process has just replaced it.
ChartInv ==
    unnoticed["bars"] = 0 =>
        /\ refresh["bars"].pc \in {"token", "fetch", "save"} =>
              refresh["bars"].cached \in {Market!NoRow, Market!Latest("bars")}
        /\ \A g \in Gets : get[g].kind = "bars" =>
              /\ get[g].pc = "looked" => \/ barRefreshAt = now
                                         \/ refresh["bars"].pc = "saved"
                                         \/ get[g].cached = Market!Latest("bars")
              /\ get[g].pc = "joined" => \/ refresh["bars"].pc \in {"saved", "reread"}
                                         \/ refresh["bars"].cached = Market!NoRow
                                         \/ get[g].cached.at <= refresh["bars"].cached.at

ValuesInv ==
    /\ \A k \in Market!Kinds : StoredInv(k)
    /\ \A g \in Gets : GetInv(g)
    /\ QuoteInv /\ ReplacedInv /\ ChartInv

MarketInv == RefreshInv /\ ValuesInv /\ NeverRollsBack

LEMMA MarketInit == PlatformInit => MarketInv
<1>1. ASSUME PlatformInit PROVE MarketInv
  <2>1. Market!Init
    BY <1>1 DEF PlatformInit
  <2>2. now \in Nat /\ now > 1 /\ now > 0
    BY <2>1, FreshnessAssumption DEF Market!Init
  <2>3. token \in [until : Nat, ends : Nat] /\ token.until <= token.ends + Wait
    <3>1. token = Market!NoToken \/ token = Market!Ending
      BY <2>1 DEF Market!Init
    <3>2. CASE token = Market!NoToken
      BY <3>2, TokenAssumption DEF Market!NoToken
    <3>3. CASE token = Market!Ending
      <4>1. /\ now + Margin \in Nat /\ now + Margin - Wait \in Nat
            /\ now + Margin <= (now + Margin - Wait) + Wait
        BY <2>2, TokenAssumption
      <4>2. QED
        BY <3>3, <4>1 DEF Market!Ending
    <3>4. QED
      BY <3>1, <3>2, <3>3
  <2>4. MarketTypeOK
    BY <2>1, <2>2, <2>3 DEF Market!Init, MarketTypeOK, Market!Kinds, Market!Sources,
                      Market!NoRow, Market!Resting, Market!Idle, Rows, GetRecords,
                      RefreshRecords
  <2>5. RefreshInv
    BY <2>1, <2>4, <2>3 DEF Market!Init, RefreshInv, TokenInv, FetchInv, Market!Resting
  <2>6. ASSUME NEW k \in Market!Kinds PROVE StoredInv(k)
    <3>1. stored[k] = {} \/ \E s \in Market!Sources : stored[k] = {[at |-> 2, source |-> s]}
      BY <2>1 DEF Market!Init
    <3>2. QED
      BY <2>2, <3>1 DEF StoredInv
  <2>7. \A g \in Gets : get[g].pc = "idle"
    BY <2>1 DEF Market!Init, Market!Idle
  <2>8. \A k \in Market!Kinds : refresh[k].pc = "none"
    BY <2>1 DEF Market!Init, Market!Resting
  <2>9. QuoteInv /\ ReplacedInv /\ ChartInv /\ \A g \in Gets : GetInv(g)
    <3>1. barRefreshAt = 0
      BY <2>1 DEF Market!Init
    <3>2. QED
      BY <2>2, <2>7, <2>8, <3>1 DEF QuoteInv, ReplacedInv, ChartInv, GetInv, Market!Kinds
  <2>10. NeverRollsBack
    BY <2>1 DEF Market!Init, NeverRollsBack, Market!NeverRollsBack
  <2>11. QED
    BY <2>5, <2>6, <2>9, <2>10 DEF MarketInv, ValuesInv
<1>2. QED
  BY <1>1

\* What the end of some calls, the end and the start of a refresh change.
LEMMA OverGives ==
    ASSUME MarketTypeOK, NEW calls, Market!Over(calls)
    PROVE  /\ get' \in [Gets -> GetRecords]
           /\ \A g \in Gets : g \notin calls => get'[g] = get[g]
           /\ \A g \in Gets : g \in calls => get'[g].pc = "over"
<1> DEFINE over == [Market!Idle EXCEPT !.pc = "over"]
<1>1. over \in GetRecords /\ over.pc = "over"
  BY DEF Market!Idle, Market!NoRow, GetRecords, Rows
<1>2. get' = [g \in Gets |-> IF g \in calls THEN over ELSE get[g]]
  BY DEF Market!Over
<1> HIDE DEF over
<1>3. QED
  BY <1>1, <1>2 DEF MarketTypeOK

\* An answer is held against the process only if it is older than what the call
\* had read.
LEMMA AnswerKeeps ==
    ASSUME NeverRollsBack, MarketTypeOK, MarketTypeOK', NEW calls \in SUBSET Gets, NEW row,
           Market!Answer(calls, row), unnoticed'["bars"] >= unnoticed["bars"],
           \A g \in calls : Market!Older(g, row) =>
              get[g].kind = "bars" /\ unnoticed["bars"] > 0
    PROVE  NeverRollsBack'
<1>1. \A k \in wentBack' \ wentBack : k = "bars" /\ unnoticed["bars"] > 0
  BY DEF Market!Answer
<1>2. unnoticed["bars"] \in Nat /\ unnoticed'["bars"] \in Nat
  BY DEF MarketTypeOK, Market!Kinds
<1>3. QED
  BY <1>1, <1>2 DEF NeverRollsBack, Market!NeverRollsBack

LEMMA SilenceKeeps ==
    ASSUME NeverRollsBack, MarketTypeOK, MarketTypeOK', wentBack' = wentBack,
           unnoticed'["bars"] >= unnoticed["bars"]
    PROVE  NeverRollsBack'
<1>1. unnoticed["bars"] \in Nat /\ unnoticed'["bars"] \in Nat
  BY DEF MarketTypeOK, Market!Kinds
<1>2. QED
  BY <1>1 DEF NeverRollsBack, Market!NeverRollsBack

\* A refresh ends: nothing else of the refreshes changes.
Rested(k) ==
    /\ refresh' \in [Market!Kinds -> RefreshRecords]
    /\ refresh'[k].pc = "none"
    /\ \A j \in Market!Kinds : j # k => refresh'[j] = refresh[j]

LEMMA RestGives ==
    ASSUME MarketTypeOK, NEW k \in Market!Kinds, refresh' = [refresh EXCEPT ![k] = Market!Resting]
    PROVE  Rested(k)
  BY DEF MarketTypeOK, Rested, RefreshRecords, Market!Resting, Market!NoRow, Rows

\* It goes on.
GoneOn(k, pc) ==
    /\ refresh' \in [Market!Kinds -> RefreshRecords]
    /\ refresh'[k].pc = pc
    /\ refresh'[k].cached = refresh[k].cached /\ refresh'[k].since = refresh[k].since
    /\ \A j \in Market!Kinds : j # k => refresh'[j] = refresh[j]

LEMMA GoOnGives ==
    ASSUME MarketTypeOK, NEW k \in Market!Kinds, NEW pc \in {"save", "saved", "reread"},
           refresh' = [refresh EXCEPT ![k].pc = pc]
    PROVE  GoneOn(k, pc) /\ refresh'[k].got = refresh[k].got
  BY DEF MarketTypeOK, GoneOn, RefreshRecords

LEMMA FetchedGives ==
    ASSUME MarketTypeOK, NEW k \in Market!Kinds, Market!Fetched(k)
    PROVE  /\ GoneOn(k, "save") /\ refresh'[k].got.source = provider
           /\ refresh'[k].got.at = now \/ (k = "bars" /\ refresh'[k].got.at = 0)
<1>1. PICK at \in IF k = "bars" THEN {now, 0} ELSE {now} :
        refresh' = [refresh EXCEPT ![k].pc = "save",
                                   ![k].got = [at |-> at, source |-> provider]]
  BY DEF Market!Fetched
<1> DEFINE brought == [refresh EXCEPT ![k].pc = "save"]
           row == [at |-> at, source |-> provider]
<1>2. /\ brought \in [Market!Kinds -> RefreshRecords] /\ brought[k].pc = "save"
      /\ brought[k].since = refresh[k].since /\ brought[k].cached = refresh[k].cached
      /\ \A j \in Market!Kinds : j # k => brought[j] = refresh[j]
  BY DEF MarketTypeOK, RefreshRecords
<1>3. row \in Rows /\ row.at = at /\ row.source = provider
  BY <1>1 DEF Rows, MarketTypeOK, Market!Sources
<1>4. refresh' = [brought EXCEPT ![k].got = row]
  BY <1>1
<1> HIDE DEF brought, row
<1>5. GoneOn(k, "save") /\ refresh'[k].got = row
  BY <1>2, <1>3, <1>4 DEF RefreshRecords, GoneOn
<1>6. QED
  BY <1>1, <1>3, <1>5

LEMMA StartGives ==
    ASSUME RefreshInv, NEW k \in Market!Kinds, NEW row \in Rows, Market!StartRefresh(k, row),
           UNCHANGED now
    PROVE  /\ refresh' \in [Market!Kinds -> RefreshRecords]
           /\ \A j \in Market!Kinds : j # k => refresh'[j] = refresh[j]
           /\ refresh'[k].pc \in {"token", "fetch"} /\ refresh'[k].cached = row
           /\ refresh'[k].since = now
           /\ refresh'[k].pc = "token" => tokenSince' # 0
           /\ refresh'[k].pc = "fetch" /\ provider = "KIS" => refresh'[k].ends > now + Wait
           /\ tokenSince' = tokenSince \/ (tokenSince = 0 /\ tokenSince' = now)
<1> USE DEF RefreshInv, MarketTypeOK
<1> DEFINE begun == [Market!Resting EXCEPT !.cached = row, !.since = now]
           fetching == [begun EXCEPT !.pc = "fetch", !.ends = token.ends]
           waiting == [begun EXCEPT !.pc = "token"]
<1>1. begun \in RefreshRecords /\ begun.cached = row /\ begun.since = now
  BY DEF Market!Resting, Market!NoRow, Rows, RefreshRecords
<1> HIDE DEF begun
<1>2. /\ fetching \in RefreshRecords /\ fetching.pc = "fetch" /\ fetching.ends = token.ends
      /\ fetching.cached = row /\ fetching.since = now
  BY <1>1 DEF RefreshRecords
<1>3. /\ waiting \in RefreshRecords /\ waiting.pc = "token"
      /\ waiting.cached = row /\ waiting.since = now
  BY <1>1 DEF RefreshRecords
<1> HIDE DEF fetching, waiting
<1>4. CASE Market!Usable /\ refresh' = [refresh EXCEPT ![k] = fetching] /\ UNCHANGED tokenSince
  <2>1. provider = "KIS" => token.ends > now + Wait
    <3>1. provider = "KIS" => token.until > now + Margin
      BY <1>4 DEF Market!Usable
    <3>2. token.until \in Nat /\ token.ends \in Nat /\ token.until <= token.ends + Wait
      BY DEF TokenInv
    <3>3. QED
      BY <3>1, <3>2, TokenAssumption
  <2>2. QED
    BY <1>2, <1>4, <2>1
<1>5. CASE /\ refresh' = [refresh EXCEPT ![k] = waiting]
           /\ tokenSince' = IF tokenSince = 0 THEN now ELSE tokenSince
  BY <1>3, <1>5
<1>6. QED
  BY <1>4, <1>5 DEF Market!StartRefresh, fetching, waiting, begun

LEMMA LatestIsRow ==
    ASSUME MarketTypeOK, NEW k \in Market!Kinds, StoredInv(k)
    PROVE  /\ Market!Latest(k) \in Rows
           /\ stored[k] = {} => Market!Latest(k) = Market!NoRow
           /\ stored[k] # {} => /\ Market!Latest(k) \in stored[k]
                                /\ Market!Latest(k) # Market!NoRow
                                /\ \A r \in stored[k] : r.at <= Market!Latest(k).at
           /\ Market!Latest(k).at \in Nat /\ Market!Latest(k).at <= now
  BY DEF StoredInv, MarketTypeOK, Market!Latest, Market!NoRow, Rows

\* The rows stay, and with them what is newest of them.
LEMMA LatestKept ==
    ASSUME NEW k \in Market!Kinds, stored'[k] = stored[k]
    PROVE  Market!Latest(k)' = Market!Latest(k)
  BY DEF Market!Latest

\* What is stored of a value that was captured now, or of a chart without bars.
LEMMA WrittenGives ==
    ASSUME MarketTypeOK, NEW k \in Market!Kinds, NEW row \in Rows, StoredInv(k), UNCHANGED now,
           row.at = now \/ (k = "bars" /\ row.at = 0),
           stored' = [stored EXCEPT ![k] = Market!Written(k, row)]
    PROVE  /\ stored' \in [Market!Kinds -> SUBSET Rows]
           /\ \A j \in Market!Kinds : j # k => stored'[j] = stored[j]
           /\ k = "quote" => stored'[k] = stored[k] \cup {row}
           /\ StoredInv(k)'
           /\ k = "bars" => stored'["bars"] = {} \/ Market!Latest("bars")'.at = now
<1>1. k = "quote" => Market!Written(k, row) = stored[k] \cup {row}
  BY DEF Market!Written
<1>2. k = "bars" => Market!Written(k, row) = IF row.at = 0 THEN {} ELSE {row}
  BY DEF Market!Written
<1>3. stored[k] \in SUBSET Rows /\ row.at \in Nat /\ now \in Nat /\ now > 0
  BY DEF MarketTypeOK, Rows
<1>4. Market!Written(k, row) \in SUBSET Rows
  BY <1>1, <1>2, <1>3 DEF Market!Kinds
<1>5. /\ stored' \in [Market!Kinds -> SUBSET Rows] /\ stored'[k] = Market!Written(k, row)
      /\ \A j \in Market!Kinds : j # k => stored'[j] = stored[j]
  BY <1>4 DEF MarketTypeOK
<1>6. StoredInv(k)'
  <2>1. CASE k = "quote"
    <3>1. \A r \in stored'[k] : r.at > 0 /\ r.at <= now
      BY <1>1, <1>3, <1>5, <2>1 DEF StoredInv
    <3>2. row \in stored'[k] /\ \A o \in stored'[k] : o.at <= row.at
      BY <1>1, <1>5, <2>1, <3>1
    <3>3. QED
      BY <3>1, <3>2 DEF StoredInv
  <2>2. CASE k = "bars"
    BY <1>2, <1>3, <1>5, <2>2 DEF StoredInv
  <2>3. QED
    BY <2>1, <2>2 DEF Market!Kinds
<1>7. ASSUME k = "bars", stored'["bars"] # {} PROVE Market!Latest("bars")'.at = now
  <2>1. stored'["bars"] = {row} /\ row.at = now
    BY <1>2, <1>5, <1>7
  <2>2. Market!Latest("bars")' = row
    BY <1>3, <2>1 DEF Market!Latest
  <2>3. QED
    BY <2>1, <2>2
<1>8. QED
  BY <1>1, <1>5, <1>6, <1>7

\* Typing and the token, in a step of one kind of refresh.
LEMMA OneKindKeeps ==
    ASSUME RefreshInv, NEW k \in Market!Kinds, UNCHANGED <<now, provider, token, tokenSince>>,
           get' \in [Gets -> GetRecords], stored' \in [Market!Kinds -> SUBSET Rows],
           barRefreshAt' \in Nat, unnoticed' \in [Market!Kinds -> Nat],
           refresh' \in [Market!Kinds -> RefreshRecords],
           \A j \in Market!Kinds : j # k => refresh'[j] = refresh[j], FetchInv(k)'
    PROVE  RefreshInv'
<1>1. MarketTypeOK' /\ TokenInv'
  BY DEF RefreshInv, MarketTypeOK, TokenInv
<1>2. ASSUME NEW j \in Market!Kinds, j # k PROVE FetchInv(j)'
  BY <1>2 DEF RefreshInv, FetchInv
<1>3. QED
  BY <1>1, <1>2 DEF RefreshInv

LEMMA UnnoticedGives ==
    ASSUME MarketTypeOK, NEW k \in Market!Kinds, Market!Unnoticed(k)
    PROVE  /\ unnoticed' \in [Market!Kinds -> Nat] /\ unnoticed'[k] > 0
           /\ \A j \in Market!Kinds : j # k => unnoticed'[j] = unnoticed[j]
           /\ unnoticed'["bars"] >= unnoticed["bars"]
  BY DEF MarketTypeOK, Market!Unnoticed, Market!Kinds

LEMMA DecideKeepsRefresh ==
    ASSUME RefreshInv, NEW g \in Gets, Market!Decide(g), NEW k \in Market!Kinds, k = get[g].kind
    PROVE  RefreshInv'
<1> USE DEF RefreshInv
<1> DEFINE row == get[g].cached
<1>1. row \in Rows /\ get[g] \in GetRecords
  BY DEF MarketTypeOK, GetRecords
<1>2. UNCHANGED <<now, provider, stored, barRefreshAt, token, unnoticed>>
  BY DEF Market!Decide, Market!memory
<1>3. CASE Market!Answer({g}, row) /\ UNCHANGED Market!memory
  <2>1. get' \in [Gets -> GetRecords]
    BY <1>3, OverGives DEF Market!Answer
  <2>2. QED
    BY <1>2, <1>3, <2>1 DEF MarketTypeOK, TokenInv, FetchInv, Market!memory
<1>4. CASE /\ get' = [get EXCEPT ![g].pc = "joined"]
           /\ IF refresh[k].pc = "none" THEN Market!StartRefresh(k, row)
                                        ELSE UNCHANGED <<refresh, tokenSince>>
  <2>1. get' \in [Gets -> GetRecords]
    BY <1>4 DEF MarketTypeOK, GetRecords
  <2>2. CASE refresh[k].pc # "none"
    BY <1>2, <1>4, <2>1, <2>2 DEF MarketTypeOK, TokenInv, FetchInv
  <2>3. CASE refresh[k].pc = "none"
    <3>1. /\ refresh' \in [Market!Kinds -> RefreshRecords]
          /\ \A j \in Market!Kinds : j # k => refresh'[j] = refresh[j]
          /\ refresh'[k].pc \in {"token", "fetch"}
          /\ refresh'[k].since = now
          /\ refresh'[k].pc = "token" => tokenSince' # 0
          /\ refresh'[k].pc = "fetch" /\ provider = "KIS" => refresh'[k].ends > now + Wait
          /\ tokenSince' = tokenSince \/ (tokenSince = 0 /\ tokenSince' = now)
      BY <1>1, <1>2, <1>4, <2>3, StartGives
    <3>2. now \in Nat /\ now > 0 /\ tokenSince \in Nat
      BY DEF MarketTypeOK
    <3>3. MarketTypeOK' /\ TokenInv'
      BY <1>2, <2>1, <3>1, <3>2, TokenAssumption DEF MarketTypeOK, TokenInv
    <3>4. FetchInv(k)'
      BY <1>2, <3>1, <3>2, TokenAssumption DEF FetchInv, TokenInv
    <3>5. ASSUME NEW j \in Market!Kinds, j # k PROVE FetchInv(j)'
      BY <1>2, <3>1, <3>2, <3>5 DEF FetchInv
    <3>6. QED
      BY <3>3, <3>4, <3>5
  <2>4. QED
    BY <2>2, <2>3
<1>5. QED
  BY <1>3, <1>4 DEF Market!Decide

LEMMA TokenKeepsRefresh ==
    ASSUME RefreshInv, NEW t \in 1..MaxTime, Market!TokenAnswered(t)
    PROVE  RefreshInv'
<1> USE DEF RefreshInv
<1> DEFINE fetching(k) == [refresh[k] EXCEPT !.pc = "fetch", !.since = now,
                                             !.ends = t + TokenLife]
<1>1. /\ tokenSince # 0 /\ t \in tokenSince..now
      /\ token' = [until |-> now + TokenLife, ends |-> t + TokenLife]
      /\ tokenSince' = 0
      /\ refresh' = [k \in Market!Kinds |->
                        IF refresh[k].pc = "token" THEN fetching(k) ELSE refresh[k]]
      /\ UNCHANGED <<now, provider, stored, get, barRefreshAt, unnoticed>>
  BY DEF Market!TokenAnswered, Market!AwaitToken
<1>2. /\ now \in Nat /\ tokenSince \in Nat /\ t \in Nat /\ t <= now /\ now <= t + Wait
      /\ Wait \in Nat /\ TokenLife \in Nat /\ TokenLife > 2 * Wait
  <2>1. now \in Nat /\ tokenSince \in Nat /\ now <= tokenSince + Wait
    BY <1>1 DEF MarketTypeOK, TokenInv
  <2>2. t \in tokenSince..now
    BY <1>1
  <2>3. t \in Nat /\ t <= now /\ tokenSince <= t
    BY <2>1, <2>2
  <2>4. QED
    BY <2>1, <2>3, TokenAssumption
<1>3. ASSUME NEW k \in Market!Kinds
      PROVE  /\ fetching(k) \in RefreshRecords /\ fetching(k).pc = "fetch"
             /\ fetching(k).since = now /\ fetching(k).ends = t + TokenLife
  <2>1. refresh[k] \in RefreshRecords /\ t + TokenLife \in Nat /\ now \in Nat
    BY <1>2 DEF MarketTypeOK
  <2>2. QED
    BY <2>1 DEF RefreshRecords
<1> HIDE DEF fetching
<1>4. MarketTypeOK' /\ TokenInv'
  BY <1>1, <1>2, <1>3 DEF MarketTypeOK, TokenInv
<1>5. ASSUME NEW k \in Market!Kinds PROVE FetchInv(k)'
  <2>1. CASE refresh[k].pc = "token"
    BY <1>1, <1>2, <1>3, <2>1 DEF FetchInv
  <2>2. CASE refresh[k].pc # "token"
    BY <1>1, <2>2 DEF FetchInv
  <2>3. QED
    BY <2>1, <2>2
<1>6. QED
  BY <1>4, <1>5

LEMMA RefreshStep ==
    ASSUME RefreshInv, Market!Next, \A k \in Market!Kinds : StoredInv(k), \A g \in Gets : GetInv(g)
    PROVE  RefreshInv'
<1> USE DEF RefreshInv
<1>1. ASSUME NEW g \in Gets, NEW k \in Market!Kinds, Market!Look(g, k) PROVE RefreshInv'
  <2>1. Market!Latest(k) \in Rows /\ k \in {"none", "quote", "bars"}
    BY LatestIsRow DEF Market!Kinds
  <2>2. get' \in [Gets -> GetRecords]
    BY <1>1, <2>1 DEF Market!Look, MarketTypeOK, GetRecords
  <2>3. QED
    BY <1>1, <2>2 DEF Market!Look, MarketTypeOK, TokenInv, FetchInv, Market!memory
<1>2. ASSUME NEW g \in Gets, Market!Decide(g) PROVE RefreshInv'
  <2>1. get[g].kind \in Market!Kinds
    BY <1>2 DEF Market!Decide, GetInv
  <2>2. QED
    BY <1>2, <2>1, DecideKeepsRefresh
<1>3. ASSUME NEW k \in Market!Kinds, Market!Fetched(k) PROVE RefreshInv'
  <2>1. /\ refresh[k].pc = "fetch"
        /\ UNCHANGED <<now, provider, stored, get, barRefreshAt, token, tokenSince, unnoticed>>
    BY <1>3 DEF Market!Fetched
  <2>2. /\ GoneOn(k, "save") /\ refresh'[k].got.source = provider
        /\ refresh'[k].got.at = now \/ (k = "bars" /\ refresh'[k].got.at = 0)
    BY <1>3, FetchedGives
  <2>3. FetchInv(k)'
    BY <2>1, <2>2 DEF FetchInv, GoneOn
  <2>4. QED
    BY <2>1, <2>2, <2>3, OneKindKeeps DEF MarketTypeOK, GoneOn
<1>4. ASSUME NEW k \in Market!Kinds, UNCHANGED <<now, provider, token, tokenSince>>, Rested(k),
             \E calls : Market!Over(calls), stored' \in [Market!Kinds -> SUBSET Rows],
             barRefreshAt' = barRefreshAt, unnoticed' \in [Market!Kinds -> Nat]
      PROVE  RefreshInv'
  <2>1. get' \in [Gets -> GetRecords]
    BY <1>4, OverGives
  <2>2. FetchInv(k)'
    BY <1>4 DEF FetchInv, Rested
  <2>3. QED
    BY <1>4, <2>1, <2>2, OneKindKeeps DEF MarketTypeOK, Rested
<1>5. ASSUME NEW k \in Market!Kinds, Market!FetchFailed(k) PROVE RefreshInv'
  <2>1. /\ UNCHANGED <<now, provider, stored, barRefreshAt, token, tokenSince, unnoticed>>
        /\ Rested(k)
    BY <1>5, RestGives DEF Market!FetchFailed
  <2>2. Market!Over(Market!Joined(k))
    BY <1>5 DEF Market!FetchFailed, Market!FallBack, Market!Answer, Market!Fail
  <2>3. QED
    BY <1>4, <2>1, <2>2 DEF MarketTypeOK
<1>6. ASSUME NEW k \in Market!Kinds, Market!SaveFailed(k) PROVE RefreshInv'
  <2>1. /\ UNCHANGED <<now, provider, barRefreshAt, token, tokenSince>>
        /\ Rested(k) /\ Market!Over(Market!Joined(k))
    BY <1>6, RestGives DEF Market!SaveFailed, Market!Fail
  <2>2. CASE UNCHANGED <<stored, unnoticed>>
    BY <1>4, <2>1, <2>2 DEF MarketTypeOK
  <2>3. CASE /\ refresh[k].pc = "save" /\ Market!Unnoticed(k)
             /\ stored' = [stored EXCEPT ![k] = Market!Written(k, refresh[k].got)]
    <3>1. refresh[k].got \in Rows
      BY DEF MarketTypeOK, RefreshRecords
    <3>2. stored' \in [Market!Kinds -> SUBSET Rows]
      BY <2>1, <2>3, <3>1, WrittenGives DEF FetchInv
    <3>3. unnoticed' \in [Market!Kinds -> Nat]
      BY <2>3, UnnoticedGives
    <3>4. QED
      BY <1>4, <2>1, <3>2, <3>3
  <2>4. QED
    BY <1>6, <2>2, <2>3 DEF Market!SaveFailed
<1>7. CASE Market!SaveQuote
  <2>1. /\ UNCHANGED <<now, provider, barRefreshAt, token, tokenSince, unnoticed>>
        /\ refresh["quote"].pc = "save" /\ Market!Over(Market!Joined("quote"))
        /\ stored' = [stored EXCEPT !["quote"] =
                         Market!Written("quote", refresh["quote"].got)]
        /\ refresh' = [refresh EXCEPT !["quote"] = Market!Resting]
    BY <1>7 DEF Market!SaveQuote, Market!Answer
  <2>2. "quote" \in Market!Kinds /\ refresh["quote"].got \in Rows
    BY DEF MarketTypeOK, RefreshRecords, Market!Kinds
  <2>3. Rested("quote")
    BY <2>1, <2>2, RestGives
  <2>4. stored' \in [Market!Kinds -> SUBSET Rows]
    BY <2>1, <2>2, WrittenGives DEF FetchInv
  <2>5. QED
    BY <1>4, <2>1, <2>2, <2>3, <2>4 DEF MarketTypeOK
<1>8. CASE Market!ReplaceBars
  <2>1. /\ UNCHANGED <<now, provider, get, barRefreshAt, token, tokenSince, unnoticed>>
        /\ refresh["bars"].pc = "save"
        /\ stored' = [stored EXCEPT !["bars"] = Market!Written("bars", refresh["bars"].got)]
        /\ refresh' = [refresh EXCEPT !["bars"].pc = "saved"]
    BY <1>8 DEF Market!ReplaceBars
  <2>2. "bars" \in Market!Kinds /\ refresh["bars"].got \in Rows
    BY DEF MarketTypeOK, RefreshRecords, Market!Kinds
  <2>3. GoneOn("bars", "saved")
    BY <2>1, <2>2, GoOnGives
  <2>4. stored' \in [Market!Kinds -> SUBSET Rows]
    BY <2>1, <2>2, WrittenGives DEF FetchInv
  <2>5. FetchInv("bars")'
    BY <2>1, <2>2, <2>3 DEF FetchInv, GoneOn
  <2>6. QED
    BY <2>1, <2>2, <2>3, <2>4, <2>5, OneKindKeeps DEF MarketTypeOK, GoneOn
<1>9. CASE Market!NoteRefresh
  <2>1. /\ UNCHANGED <<now, provider, stored, get, token, tokenSince, unnoticed>>
        /\ refresh["bars"].pc = "saved" /\ barRefreshAt' = now
        /\ refresh' = [refresh EXCEPT !["bars"].pc = "reread"]
    BY <1>9 DEF Market!NoteRefresh
  <2>2. "bars" \in Market!Kinds
    BY DEF Market!Kinds
  <2>3. GoneOn("bars", "reread")
    BY <2>1, <2>2, GoOnGives
  <2>4. FetchInv("bars")'
    BY <2>1, <2>2, <2>3 DEF FetchInv, GoneOn
  <2>5. QED
    BY <2>1, <2>2, <2>3, <2>4, OneKindKeeps DEF MarketTypeOK, GoneOn
<1>10. CASE Market!AnswerChart
  <2>1. /\ UNCHANGED <<now, provider, stored, barRefreshAt, token, tokenSince, unnoticed>>
        /\ Market!Over(Market!Joined("bars"))
        /\ refresh' = [refresh EXCEPT !["bars"] = Market!Resting]
        /\ "bars" \in Market!Kinds
    BY <1>10 DEF Market!AnswerChart, Market!Answer, Market!Kinds
  <2>2. Rested("bars")
    BY <2>1, RestGives
  <2>3. QED
    BY <1>4, <2>1, <2>2 DEF MarketTypeOK
<1>11. ASSUME NEW t \in 1..MaxTime, Market!TokenAnswered(t) PROVE RefreshInv'
  BY <1>11, TokenKeepsRefresh
<1>12. CASE Market!TokenFailed
  <2>1. /\ tokenSince' = 0
        /\ refresh' = [k \in Market!Kinds |->
                          IF refresh[k].pc = "token" THEN Market!Resting ELSE refresh[k]]
        /\ \E calls : Market!Over(calls)
        /\ UNCHANGED <<now, provider, stored, barRefreshAt, token, unnoticed>>
    BY <1>12 DEF Market!TokenFailed, Market!AwaitToken
  <2>2. Market!Resting \in RefreshRecords /\ Market!Resting.pc = "none"
    BY DEF Market!Resting, Market!NoRow, Rows, RefreshRecords
  <2>3. get' \in [Gets -> GetRecords]
    BY <2>1, OverGives
  <2>4. MarketTypeOK' /\ TokenInv'
    BY <2>1, <2>2, <2>3 DEF MarketTypeOK, TokenInv
  <2>5. ASSUME NEW k \in Market!Kinds PROVE FetchInv(k)'
    BY <2>1, <2>2, <2>5 DEF FetchInv
  <2>6. QED
    BY <2>4, <2>5
<1>13. CASE Market!Tick
  <2>1. /\ now' = now + 1 /\ now \in Nat
        /\ UNCHANGED <<provider, stored, get, refresh, barRefreshAt, token, tokenSince,
                       unnoticed>>
        /\ tokenSince # 0 => now < tokenSince + Wait
    BY <1>13 DEF Market!Tick, Market!memory, MarketTypeOK
  <2>2. tokenSince \in Nat /\ Wait \in Nat
    BY TokenAssumption DEF MarketTypeOK
  <2>3. MarketTypeOK' /\ TokenInv'
    BY <2>1, <2>2 DEF MarketTypeOK, TokenInv
  <2>4. ASSUME NEW k \in Market!Kinds PROVE FetchInv(k)'
    <3>1. /\ refresh[k].pc \notin {"save", "saved", "reread"}
          /\ refresh[k].pc = "fetch" => now < refresh[k].since + Wait
      BY <1>13 DEF Market!Tick
    <3>2. /\ refresh[k].since \in Nat
          /\ refresh[k].pc \in {"none", "token", "fetch", "save", "saved", "reread"}
      BY DEF MarketTypeOK, RefreshRecords
    <3>3. QED
      BY <2>1, <2>2, <3>1, <3>2 DEF FetchInv
  <2>5. QED
    BY <2>3, <2>4
<1>14. CASE Market!Restart
  <2>1. /\ refresh' = [k \in Market!Kinds |-> Market!Resting]
        /\ barRefreshAt' = 0 /\ token' = Market!NoToken /\ tokenSince' = 0
        /\ \E calls : Market!Over(calls)
        /\ UNCHANGED <<now, provider, stored, unnoticed>>
    BY <1>14 DEF Market!Restart, Market!Fail
  <2>2. Market!Resting \in RefreshRecords /\ Market!Resting.pc = "none"
    BY DEF Market!Resting, Market!NoRow, Rows, RefreshRecords
  <2>3. get' \in [Gets -> GetRecords]
    BY <2>1, OverGives
  <2>4. QED
    BY <2>1, <2>2, <2>3, TokenAssumption DEF MarketTypeOK, TokenInv, FetchInv, Market!NoToken
<1>15. ASSUME NEW k \in Market!Kinds, Market!StoreElsewhere(k) PROVE RefreshInv'
  <2>1. PICK at \in IF k = "bars" THEN {now, 0} ELSE {now} :
          stored' = [stored EXCEPT ![k] =
                        Market!Written(k, [at |-> at, source |-> provider])]
    BY <1>15 DEF Market!StoreElsewhere
  <2>2. UNCHANGED <<now, provider, get, refresh, barRefreshAt, token, tokenSince>>
    BY <1>15 DEF Market!StoreElsewhere, Market!memory
  <2> DEFINE row == [at |-> at, source |-> provider]
  <2>3. row.at = now \/ (k = "bars" /\ row.at = 0)
    BY <2>1
  <2>6. row \in Rows
    BY <2>1 DEF MarketTypeOK, Rows, Market!Sources
  <2> HIDE DEF row
  <2>4. stored' \in [Market!Kinds -> SUBSET Rows]
    BY <2>1, <2>2, <2>3, <2>6, WrittenGives DEF row
  <2>5. unnoticed' \in [Market!Kinds -> Nat]
    BY <1>15, UnnoticedGives DEF Market!StoreElsewhere
  <2>7. QED
    BY <2>2, <2>4, <2>5 DEF MarketTypeOK, TokenInv, FetchInv
<1>16. QED
  BY <1>1, <1>2, <1>3, <1>5, <1>6, <1>7, <1>8, <1>9, <1>10, <1>11, <1>12, <1>13, <1>14, <1>15
  DEF Market!Next

\* What a step that has nothing to do with quotes, or with charts, or with a call,
\* leaves true of them.
LEMMA QuoteKept ==
    ASSUME QuoteInv, stored'["quote"] = stored["quote"], refresh'["quote"] = refresh["quote"],
           UNCHANGED <<now, provider>>,
           \A g \in Gets : \/ get'[g] = get[g] \/ get'[g].kind = "bars"
                           \/ get'[g].pc \notin {"looked", "joined"}
    PROVE  QuoteInv'
  BY DEF QuoteInv

LEMMA ChartKept ==
    ASSUME ChartInv, ReplacedInv, stored'["bars"] = stored["bars"],
           refresh'["bars"] = refresh["bars"], unnoticed'["bars"] = unnoticed["bars"],
           UNCHANGED <<now, barRefreshAt>>,
           \A g \in Gets : \/ get'[g] = get[g] \/ get'[g].kind = "quote"
                           \/ get'[g].pc \notin {"looked", "joined"}
    PROVE  ChartInv' /\ ReplacedInv'
<1>1. Market!Latest("bars")' = Market!Latest("bars")
  BY LatestKept DEF Market!Kinds
<1>2. QED
  BY <1>1 DEF ChartInv, ReplacedInv

LEMMA GetsKept ==
    ASSUME \A g \in Gets : GetInv(g), UNCHANGED now,
           \A g \in Gets : \/ get'[g].pc \notin {"looked", "joined"}
                           \/ /\ get'[g] = get[g]
                              /\ get[g].pc = "joined" => refresh'[get[g].kind].pc # "none"
    PROVE  \A g \in Gets : GetInv(g)'
  BY DEF GetInv

\* The calls that waited are answered, or told of an error, when their refresh ends.
LEMMA QuoteEnds ==
    ASSUME QuoteInv, refresh'["quote"].pc = "none", UNCHANGED <<now, provider>>,
           \/ stored'["quote"] = stored["quote"]
           \/ \E row \in Rows : /\ row.at = now /\ row.source = provider
                                /\ stored'["quote"] = stored["quote"] \cup {row},
           \A g \in Gets : \/ get'[g].pc \notin {"looked", "joined"}
                           \/ /\ get'[g] = get[g]
                              /\ ~(get[g].pc = "joined" /\ get[g].kind = "quote")
    PROVE  QuoteInv'
  BY DEF QuoteInv

LEMMA ChartEnds ==
    ASSUME ChartInv, ReplacedInv, refresh["bars"].pc # "saved", refresh'["bars"].pc = "none",
           UNCHANGED <<now, barRefreshAt>>,
           \/ stored'["bars"] = stored["bars"] /\ unnoticed'["bars"] = unnoticed["bars"]
           \/ /\ unnoticed'["bars"] > 0
              /\ stored'["bars"] = {} \/ Market!Latest("bars")'.at = now,
           unnoticed'["bars"] \in Nat,
           \A g \in Gets : \/ get'[g].pc \notin {"looked", "joined"}
                           \/ /\ get'[g] = get[g]
                              /\ ~(get[g].pc = "joined" /\ get[g].kind = "bars")
    PROVE  ChartInv' /\ ReplacedInv'
<1>1. stored'["bars"] = stored["bars"] => Market!Latest("bars")' = Market!Latest("bars")
  BY LatestKept DEF Market!Kinds
<1>2. ReplacedInv'
  BY <1>1 DEF ReplacedInv
<1>3. ChartInv'
  BY <1>1 DEF ChartInv
<1>4. QED
  BY <1>2, <1>3

\* A step that ends the refresh of k and the calls that wait for it.
LEMMA EndKeepsValues ==
    ASSUME RefreshInv, ValuesInv, RefreshInv', NEW k \in Market!Kinds, Rested(k),
           Market!Over(Market!Joined(k)), refresh[k].pc # "saved",
           UNCHANGED <<now, provider, stored, barRefreshAt, unnoticed>>
    PROVE  ValuesInv'
<1> USE DEF ValuesInv, RefreshInv
<1>1. \A g \in Gets : \/ get'[g].pc \notin {"looked", "joined"}
                      \/ /\ get'[g] = get[g]
                         /\ ~(get[g].pc = "joined" /\ get[g].kind = k)
  BY OverGives DEF Market!Joined
<1>2. \A g \in Gets : GetInv(g)'
  <2>1. \A g \in Gets : \/ get'[g].pc \notin {"looked", "joined"}
                        \/ /\ get'[g] = get[g]
                           /\ get[g].pc = "joined" => refresh'[get[g].kind].pc # "none"
    BY <1>1 DEF GetInv, Rested
  <2>2. QED
    BY <2>1, GetsKept
<1>3. \A j \in Market!Kinds : StoredInv(j)'
  BY DEF StoredInv
<1>4. "quote" \in Market!Kinds /\ "bars" \in Market!Kinds /\ unnoticed'["bars"] \in Nat
  BY DEF Market!Kinds, MarketTypeOK
<1>5. CASE k = "quote"
  <2>1. QuoteInv'
    BY <1>1, <1>5, QuoteEnds DEF Rested
  <2>2. ChartInv' /\ ReplacedInv'
    BY <1>1, <1>4, <1>5, ChartKept DEF Rested
  <2>3. QED
    BY <1>2, <1>3, <2>1, <2>2
<1>6. CASE k = "bars"
  <2>1. QuoteInv'
    BY <1>1, <1>4, <1>6, QuoteKept DEF Rested
  <2>2. ChartInv' /\ ReplacedInv'
    BY <1>1, <1>4, <1>6, ChartEnds DEF Rested
  <2>3. QED
    BY <1>2, <1>3, <2>1, <2>2
<1>7. QED
  BY <1>5, <1>6 DEF Market!Kinds

\* What a refresh falls back on is no older than what those who wait for it have
\* read, as long as the process knows of all charts.
LEMMA FallsBack ==
    ASSUME RefreshInv, ValuesInv, NEW g \in Gets, get[g].pc = "joined",
           refresh[get[g].kind].pc \in {"token", "fetch"},
           Market!Older(g, refresh[get[g].kind].cached)
    PROVE  get[g].kind = "bars" /\ unnoticed["bars"] > 0
<1>1. get[g].kind \in Market!Kinds
  BY DEF ValuesInv, GetInv
<1>2. /\ get[g].cached.at \in Nat /\ refresh[get[g].kind].cached.at \in Nat
      /\ unnoticed["bars"] \in Nat
  BY <1>1 DEF RefreshInv, MarketTypeOK, GetRecords, RefreshRecords, Rows, Market!Kinds
<1>3. ~(\/ refresh[get[g].kind].cached = Market!NoRow
        \/ get[g].cached.at <= refresh[get[g].kind].cached.at)
  BY <1>2 DEF Market!Older, Market!NoRow
<1>4. get[g].kind # "quote"
  BY <1>3 DEF ValuesInv, QuoteInv
<1>5. get[g].kind = "bars"
  BY <1>1, <1>4 DEF Market!Kinds
<1>6. unnoticed["bars"] # 0
  BY <1>3, <1>5 DEF ValuesInv, ChartInv
<1>7. QED
  BY <1>2, <1>5, <1>6

LEMMA LookKeeps ==
    ASSUME MarketInv, RefreshInv', NEW g \in Gets, NEW k \in Market!Kinds, Market!Look(g, k)
    PROVE  MarketInv'
<1> USE DEF MarketInv, ValuesInv, RefreshInv
<1>1. /\ UNCHANGED <<now, provider, stored, refresh, barRefreshAt, token, tokenSince,
                     unnoticed, wentBack>>
      /\ get[g].pc = "idle"
    BY DEF Market!Look, Market!memory
<1>2. /\ get'[g].pc = "looked" /\ get'[g].kind = k /\ get'[g].cached = Market!Latest(k)
      /\ \A h \in Gets : h # g => get'[h] = get[h]
  BY DEF Market!Look, MarketTypeOK
<1>3. /\ Market!Latest(k).at <= now /\ Market!Latest(k).at \in Nat
      /\ Market!Latest(k) \in stored[k] \cup {Market!NoRow}
      /\ \A r \in stored[k] : ~(r.at > Market!Latest(k).at)
  <2>1. \A r \in stored[k] : r.at \in Nat
    BY DEF MarketTypeOK, Rows
  <2>2. QED
    BY <2>1, LatestIsRow
<1>4. \A j \in Market!Kinds : StoredInv(j)' /\ Market!Latest(j)' = Market!Latest(j)
  BY <1>1, LatestKept DEF StoredInv
<1>5. \A h \in Gets : GetInv(h)'
  BY <1>1, <1>2, <1>3 DEF GetInv
<1>6. QuoteInv'
  <2>1. CASE k = "bars"
    BY <1>1, <1>2, <2>1, QuoteKept
  <2>2. CASE k = "quote"
    BY <1>1, <1>2, <1>3, <2>2 DEF QuoteInv
  <2>3. QED
    BY <2>1, <2>2 DEF Market!Kinds
<1>7. ChartInv' /\ ReplacedInv'
  <2>1. CASE k = "quote"
    BY <1>1, <1>2, <2>1, ChartKept
  <2>2. CASE k = "bars"
    <3>1. ReplacedInv'
      BY <1>1, <1>4 DEF ReplacedInv, Market!Kinds
    <3>2. ChartInv'
      BY <1>1, <1>2, <1>4, <2>2 DEF ChartInv, Market!Kinds
    <3>3. QED
      BY <3>1, <3>2
  <2>3. QED
    BY <2>1, <2>2 DEF Market!Kinds
<1>8. NeverRollsBack'
  BY <1>1 DEF NeverRollsBack, Market!NeverRollsBack
<1>9. QED
  BY <1>4, <1>5, <1>6, <1>7, <1>8

\* A call that finds fresh what it has read is answered that.
LEMMA FreshKeeps ==
    ASSUME MarketInv, RefreshInv', NEW g \in Gets, get[g].pc = "looked",
           Market!Answer({g}, get[g].cached), UNCHANGED <<now, provider, stored, unnoticed>>,
           UNCHANGED Market!memory
    PROVE  MarketInv'
<1> USE DEF MarketInv, ValuesInv, RefreshInv
<1>1. UNCHANGED <<refresh, barRefreshAt>>
  BY DEF Market!memory
<1>2. \A h \in Gets : get'[h] = get[h] \/ get'[h].pc = "over"
  BY OverGives DEF Market!Answer
<1>3. \A j \in Market!Kinds : StoredInv(j)'
  BY DEF StoredInv
<1>4. \A h \in Gets : GetInv(h)'
  <2>1. \A h \in Gets : \/ get'[h].pc \notin {"looked", "joined"}
                        \/ /\ get'[h] = get[h]
                           /\ get[h].pc = "joined" => refresh'[get[h].kind].pc # "none"
    BY <1>1, <1>2 DEF GetInv
  <2>2. QED
    BY <2>1, GetsKept
<1>5. QuoteInv' /\ ChartInv' /\ ReplacedInv'
  BY <1>1, <1>2, QuoteKept, ChartKept
<1>6. NeverRollsBack'
  <2>1. get[g].cached.at \in Nat /\ unnoticed["bars"] \in Nat
    BY DEF MarketTypeOK, GetRecords, Rows, Market!Kinds
  <2>2. ~Market!Older(g, get[g].cached)
    BY <2>1 DEF Market!Older
  <2>3. QED
    BY <2>1, <2>2, AnswerKeeps
<1>7. QED
  BY <1>3, <1>4, <1>5, <1>6

\* Otherwise it waits for the refresh that runs.
LEMMA JoinKeeps ==
    ASSUME MarketInv, RefreshInv', NEW g \in Gets, NEW k \in Market!Kinds, k = get[g].kind,
           get[g].pc = "looked", ~Market!IsFresh(k, get[g].cached),
           get' = [get EXCEPT ![g].pc = "joined"], refresh[k].pc # "none",
           UNCHANGED <<now, provider, stored, refresh, barRefreshAt, unnoticed, wentBack>>
    PROVE  MarketInv'
<1> USE DEF MarketInv, ValuesInv, RefreshInv
<1> DEFINE row == get[g].cached
           old == refresh[k].cached
<1>1. /\ row \in Rows /\ row.at \in Nat /\ now \in Nat
      /\ old \in Rows /\ old.at \in Nat /\ Wait \in Nat /\ FreshFor \in Nat
      /\ refresh[k].since \in Nat
  BY TokenAssumption, FreshnessAssumption
  DEF MarketTypeOK, GetRecords, RefreshRecords, Rows
<1>2. /\ get'[g].pc = "joined" /\ get'[g].kind = k /\ get'[g].cached = row
      /\ \A h \in Gets : h # g => get'[h] = get[h]
  BY DEF MarketTypeOK, GetRecords
<1>3. \A j \in Market!Kinds : StoredInv(j)' /\ Market!Latest(j)' = Market!Latest(j)
  BY LatestKept DEF StoredInv
<1>4. \A h \in Gets : GetInv(h)'
  BY <1>2 DEF GetInv
<1>5. k = "quote" => old = Market!NoRow \/ row.at <= old.at
  <2> SUFFICES ASSUME k = "quote", row.at > old.at PROVE FALSE
    BY <1>1
  <2>1. row # Market!NoRow
    BY <1>1 DEF Market!NoRow
  <2>2. row \in stored["quote"]
    BY <2>1 DEF QuoteInv
  <2>3. row.source = provider /\ row.at + Wait >= refresh[k].since
    BY <2>2 DEF QuoteInv
  <2>4. refresh[k].pc = "token" => now <= row.at + Wait
    <3>1. refresh[k].pc = "token" => row.at >= refresh[k].since
      BY <2>2 DEF QuoteInv
    <3>2. refresh[k].pc = "token" =>
             tokenSince <= refresh[k].since /\ now <= tokenSince + Wait /\ tokenSince \in Nat
      BY DEF FetchInv, TokenInv, MarketTypeOK
    <3>3. QED
      BY <1>1, <3>1, <3>2
  <2>5. refresh[k].pc # "token" => now <= refresh[k].since + Wait
    BY DEF FetchInv
  <2>6. now - row.at <= FreshFor
    BY <1>1, <2>3, <2>4, <2>5, FreshnessAssumption
  <2>7. QED
    BY <2>1, <2>3, <2>6 DEF Market!IsFresh, Market!QuoteIsFresh
<1>6. k = "bars" /\ unnoticed["bars"] = 0 =>
         \/ refresh["bars"].pc \in {"saved", "reread"}
         \/ old = Market!NoRow \/ row.at <= old.at
  <2> SUFFICES ASSUME k = "bars", unnoticed["bars"] = 0,
                      refresh["bars"].pc \notin {"saved", "reread"}, old # Market!NoRow
               PROVE  row.at <= old.at
    OBVIOUS
  <2>1. old = Market!Latest("bars") /\ stored["bars"] # {}
    <3>1. refresh["bars"].pc \in {"token", "fetch", "save"}
      BY DEF MarketTypeOK, RefreshRecords
    <3>2. old = Market!Latest("bars")
      BY <3>1 DEF ChartInv
    <3>3. QED
      BY <3>2, LatestIsRow
  <2>2. CASE barRefreshAt = now
    BY <1>1, <2>1, <2>2 DEF ReplacedInv, GetInv
  <2>3. CASE barRefreshAt # now
    <3>1. row = Market!Latest("bars")
      BY <2>3 DEF ChartInv
    <3>2. QED
      BY <1>1, <2>1, <3>1
  <2>4. QED
    BY <2>2, <2>3
<1>7. QuoteInv'
  <2>1. CASE k = "quote"
    BY <1>2, <1>5, <2>1 DEF QuoteInv
  <2>2. CASE k = "bars"
    BY <1>2, <2>2, QuoteKept
  <2>3. QED
    BY <2>1, <2>2 DEF Market!Kinds
<1>8. ChartInv' /\ ReplacedInv'
  <2>1. CASE k = "quote"
    BY <1>2, <2>1, ChartKept
  <2>2. CASE k = "bars"
    <3>1. ReplacedInv'
      BY <1>3 DEF ReplacedInv, Market!Kinds
    <3>2. ChartInv'
      BY <1>2, <1>3, <1>6, <2>2 DEF ChartInv, Market!Kinds
    <3>3. QED
      BY <3>1, <3>2
  <2>3. QED
    BY <2>1, <2>2 DEF Market!Kinds
<1>9. NeverRollsBack'
  BY DEF NeverRollsBack, Market!NeverRollsBack
<1>10. QED
  BY <1>3, <1>4, <1>7, <1>8, <1>9

\* Or starts one itself, with what it has read.
LEMMA StartKeeps ==
    ASSUME MarketInv, RefreshInv', NEW g \in Gets, NEW k \in Market!Kinds, k = get[g].kind,
           get[g].pc = "looked", ~Market!IsFresh(k, get[g].cached),
           get' = [get EXCEPT ![g].pc = "joined"],
           refresh[k].pc = "none", Market!StartRefresh(k, get[g].cached),
           UNCHANGED <<now, provider, stored, barRefreshAt, unnoticed, wentBack>>
    PROVE  MarketInv'
<1> USE DEF MarketInv, ValuesInv, RefreshInv
<1> DEFINE row == get[g].cached
<1>1. /\ row \in Rows /\ row.at \in Nat /\ now \in Nat /\ now > 0
      /\ Wait \in Nat /\ FreshFor \in Nat /\ FreshFor > 0
  BY TokenAssumption, FreshnessAssumption DEF MarketTypeOK, GetRecords, Rows
<1>2. /\ get'[g].pc = "joined" /\ get'[g].kind = k /\ get'[g].cached = row
      /\ \A h \in Gets : h # g => get'[h] = get[h]
  BY DEF MarketTypeOK, GetRecords
<1>3. \A j \in Market!Kinds : StoredInv(j)' /\ Market!Latest(j)' = Market!Latest(j)
  BY LatestKept DEF StoredInv
<1>4. /\ \A j \in Market!Kinds : j # k => refresh'[j] = refresh[j]
      /\ refresh'[k].pc \in {"token", "fetch"} /\ refresh'[k].cached = row
      /\ refresh'[k].since = now
  BY <1>1, StartGives
<1>5. \A h \in Gets : GetInv(h)'
  <2>1. GetInv(g)'
    BY <1>2, <1>4 DEF GetInv
  <2>2. ASSUME NEW h \in Gets, h # g PROVE GetInv(h)'
    BY <1>2, <1>4, <2>2 DEF GetInv
  <2>3. QED
    BY <2>1, <2>2
<1>6. \A h \in Gets : ~(get[h].pc = "joined" /\ get[h].kind = k)
  BY DEF GetInv
<1>7. QuoteInv'
  <2>1. CASE k = "quote"
    <3>1. row \in stored["quote"] \cup {Market!NoRow}
      BY <2>1 DEF QuoteInv
    <3>2. ASSUME NEW r \in stored["quote"], r.at > row.at
          PROVE  r.source = provider /\ r.at >= now /\ r.at + Wait >= now
      <4>1. r.source = provider /\ r.at = now
        BY <2>1, <3>2 DEF QuoteInv
      <4>2. QED
        BY <1>1, <4>1
    <3>3. ASSUME NEW h \in Gets, get'[h].kind = "quote"
          PROVE  /\ get'[h].pc = "looked" =>
                       /\ get'[h].cached \in stored'["quote"] \cup {Market!NoRow}
                       /\ \A r \in stored'["quote"] : r.at > get'[h].cached.at =>
                             r.source = provider' /\ r.at = now'
                 /\ get'[h].pc = "joined" => get'[h].cached.at <= refresh'["quote"].cached.at
      <4>1. CASE h = g
        BY <1>1, <1>2, <1>4, <2>1, <4>1
      <4>2. CASE h # g
        BY <1>2, <1>6, <2>1, <3>3, <4>2 DEF QuoteInv
      <4>3. QED
        BY <4>1, <4>2
    <3>4. QED
      BY <1>4, <2>1, <3>1, <3>2, <3>3 DEF QuoteInv
  <2>2. CASE k = "bars"
    BY <1>2, <1>4, <2>2, QuoteKept DEF Market!Kinds
  <2>3. QED
    BY <2>1, <2>2 DEF Market!Kinds
<1>8. ChartInv' /\ ReplacedInv'
  <2>1. CASE k = "quote"
    BY <1>2, <1>4, <2>1, ChartKept DEF Market!Kinds
  <2>2. CASE k = "bars"
    <3>1. unnoticed["bars"] = 0 => row \in {Market!NoRow, Market!Latest("bars")}
      <4>1. barRefreshAt = now => row = Market!NoRow
        BY <1>1, <2>2 DEF Market!IsFresh, Market!BarsAreFresh
      <4>2. QED
        BY <2>2, <4>1 DEF ChartInv
    <3>2. ReplacedInv'
      BY <1>3, <1>4, <2>2 DEF ReplacedInv, Market!Kinds
    <3>3. ASSUME NEW h \in Gets, get'[h].kind = "bars", unnoticed["bars"] = 0
          PROVE  /\ get'[h].pc = "looked" => \/ barRefreshAt' = now'
                                             \/ get'[h].cached = Market!Latest("bars")'
                 /\ get'[h].pc = "joined" => get'[h].cached.at <= refresh'["bars"].cached.at
      <4>1. CASE h = g
        BY <1>1, <1>2, <1>4, <2>2, <4>1
      <4>2. CASE h # g
        BY <1>2, <1>3, <1>6, <2>2, <3>3, <4>2 DEF ChartInv, Market!Kinds
      <4>3. QED
        BY <4>1, <4>2
    <3>4. ChartInv'
      BY <1>3, <1>4, <2>2, <3>1, <3>3 DEF ChartInv, Market!Kinds
    <3>5. QED
      BY <3>2, <3>4
  <2>3. QED
    BY <2>1, <2>2 DEF Market!Kinds
<1>9. NeverRollsBack'
  BY DEF NeverRollsBack, Market!NeverRollsBack
<1>10. QED
  BY <1>3, <1>5, <1>7, <1>8, <1>9

LEMMA DecideKeeps ==
    ASSUME MarketInv, RefreshInv', NEW g \in Gets, Market!Decide(g)
    PROVE  MarketInv'
<1>1. get[g].pc = "looked" /\ get[g].kind \in Market!Kinds
  BY DEF Market!Decide, MarketInv, ValuesInv, GetInv
<1>2. CASE Market!Answer({g}, get[g].cached) /\ UNCHANGED Market!memory
  BY <1>1, <1>2, FreshKeeps DEF Market!Decide
<1>3. CASE /\ ~Market!IsFresh(get[g].kind, get[g].cached)
           /\ get' = [get EXCEPT ![g].pc = "joined"]
           /\ IF refresh[get[g].kind].pc = "none"
              THEN Market!StartRefresh(get[g].kind, get[g].cached)
              ELSE UNCHANGED <<refresh, tokenSince>>
           /\ UNCHANGED <<barRefreshAt, wentBack>>
  <2>1. UNCHANGED <<now, provider, stored, unnoticed>>
    BY DEF Market!Decide
  <2>2. CASE refresh[get[g].kind].pc = "none"
    BY <1>1, <1>3, <2>1, <2>2, StartKeeps
  <2>3. CASE refresh[get[g].kind].pc # "none"
    BY <1>1, <1>3, <2>1, <2>3, JoinKeeps
  <2>4. QED
    BY <2>2, <2>3
<1>4. QED
  BY <1>2, <1>3 DEF Market!Decide

\* What the provider answers leaves the refresh what it falls back on.
LEMMA FetchedKeeps ==
    ASSUME MarketInv, RefreshInv', NEW k \in Market!Kinds, Market!Fetched(k)
    PROVE  MarketInv'
<1> USE DEF MarketInv, ValuesInv, RefreshInv
<1>1. /\ UNCHANGED <<now, provider, stored, get, barRefreshAt, unnoticed, wentBack>>
      /\ refresh[k].pc = "fetch"
  BY DEF Market!Fetched
<1>2. GoneOn(k, "save")
  BY FetchedGives
<1>3. \A j \in Market!Kinds : StoredInv(j)' /\ Market!Latest(j)' = Market!Latest(j)
  BY <1>1, LatestKept DEF StoredInv
<1>4. \A h \in Gets : GetInv(h)'
  BY <1>1, <1>2 DEF GetInv, GoneOn
<1>5. QuoteInv'
  <2>1. CASE k = "quote"
    BY <1>1, <1>2, <2>1 DEF QuoteInv, GoneOn
  <2>2. CASE k = "bars"
    BY <1>1, <1>2, <2>2, QuoteKept DEF GoneOn, Market!Kinds
  <2>3. QED
    BY <2>1, <2>2 DEF Market!Kinds
<1>6. ChartInv' /\ ReplacedInv'
  <2>1. CASE k = "quote"
    BY <1>1, <1>2, <2>1, ChartKept DEF GoneOn, Market!Kinds
  <2>2. CASE k = "bars"
    <3>1. ReplacedInv'
      BY <1>1, <1>2, <1>3, <2>2 DEF ReplacedInv, GoneOn, Market!Kinds
    <3>2. ChartInv'
      BY <1>1, <1>2, <1>3, <2>2 DEF ChartInv, GoneOn, Market!Kinds
    <3>3. QED
      BY <3>1, <3>2
  <2>3. QED
    BY <2>1, <2>2 DEF Market!Kinds
<1>7. NeverRollsBack'
  BY <1>1 DEF NeverRollsBack, Market!NeverRollsBack
<1>8. QED
  BY <1>3, <1>4, <1>5, <1>6, <1>7

\* A refresh that fails leaves its calls with what it had.
LEMMA FetchFailedKeeps ==
    ASSUME MarketInv, RefreshInv', NEW k \in Market!Kinds, Market!FetchFailed(k)
    PROVE  MarketInv'
<1> USE DEF MarketInv, RefreshInv
<1>1. /\ UNCHANGED <<now, provider, stored, barRefreshAt, unnoticed>>
      /\ refresh[k].pc = "fetch" /\ Market!FallBack(k) /\ Rested(k)
  BY RestGives DEF Market!FetchFailed
<1>2. Market!Over(Market!Joined(k))
  BY <1>1 DEF Market!FallBack, Market!Answer, Market!Fail
<1>3. ValuesInv'
  BY <1>1, <1>2, EndKeepsValues
<1>4. NeverRollsBack'
  <2>1. unnoticed["bars"] \in Nat
    BY DEF MarketTypeOK, Market!Kinds
  <2>2. CASE Market!Answer(Market!Joined(k), refresh[k].cached)
    <3>1. ASSUME NEW g \in Market!Joined(k), Market!Older(g, refresh[k].cached)
          PROVE  get[g].kind = "bars" /\ unnoticed["bars"] > 0
      BY <1>1, <3>1, FallsBack DEF Market!Joined
    <3>2. Market!Joined(k) \in SUBSET Gets
      BY DEF Market!Joined
    <3>3. QED
      BY <1>1, <2>1, <2>2, <3>1, <3>2, AnswerKeeps
  <2>3. CASE wentBack' = wentBack
    BY <1>1, <2>1, <2>3, SilenceKeeps
  <2>4. QED
    BY <1>1, <2>2, <2>3 DEF Market!FallBack, Market!Fail
<1>5. QED
  BY <1>3, <1>4

\* A value of this instant that is stored, by whichever process.
LEMMA StoredAnew ==
    ASSUME RefreshInv, ValuesInv, NEW k \in Market!Kinds, NEW row \in Rows, UNCHANGED now,
           row.at = now \/ (k = "bars" /\ row.at = 0),
           stored' = [stored EXCEPT ![k] = Market!Written(k, row)]
    PROVE  /\ \A j \in Market!Kinds : StoredInv(j)'
           /\ \A j \in Market!Kinds : j # k => stored'[j] = stored[j]
           /\ k = "quote" => stored'[k] = stored[k] \cup {row}
           /\ k = "bars" => stored'["bars"] = {} \/ Market!Latest("bars")'.at = now
<1>1. /\ \A j \in Market!Kinds : j # k => stored'[j] = stored[j]
      /\ k = "quote" => stored'[k] = stored[k] \cup {row}
      /\ StoredInv(k)'
      /\ k = "bars" => stored'["bars"] = {} \/ Market!Latest("bars")'.at = now
  BY WrittenGives DEF RefreshInv, ValuesInv
<1>2. ASSUME NEW j \in Market!Kinds, j # k PROVE StoredInv(j)'
  BY <1>1, <1>2 DEF ValuesInv, StoredInv
<1>3. QED
  BY <1>1, <1>2

\* The quote is stored and answered, or stored without the answer.
LEMMA QuoteStoredKeeps ==
    ASSUME RefreshInv, ValuesInv, RefreshInv', refresh["quote"].pc = "save", Rested("quote"),
           Market!Over(Market!Joined("quote")),
           stored' = [stored EXCEPT !["quote"] = Market!Written("quote", refresh["quote"].got)],
           UNCHANGED <<now, provider, barRefreshAt>>, unnoticed'["bars"] = unnoticed["bars"]
    PROVE  ValuesInv'
<1> USE DEF RefreshInv, ValuesInv
<1>1. /\ refresh["quote"].got \in Rows
      /\ refresh["quote"].got.at = now /\ refresh["quote"].got.source = provider
      /\ "quote" \in Market!Kinds /\ "bars" \in Market!Kinds
  BY DEF MarketTypeOK, RefreshRecords, FetchInv, Market!Kinds
<1>2. /\ \A j \in Market!Kinds : StoredInv(j)'
      /\ stored'["bars"] = stored["bars"]
      /\ stored'["quote"] = stored["quote"] \cup {refresh["quote"].got}
  BY <1>1, StoredAnew
<1>3. \A g \in Gets : \/ get'[g].pc \notin {"looked", "joined"}
                      \/ /\ get'[g] = get[g]
                         /\ ~(get[g].pc = "joined" /\ get[g].kind = "quote")
  BY OverGives DEF Market!Joined
<1>4. \A g \in Gets : GetInv(g)'
  <2>1. \A g \in Gets : \/ get'[g].pc \notin {"looked", "joined"}
                        \/ /\ get'[g] = get[g]
                           /\ get[g].pc = "joined" => refresh'[get[g].kind].pc # "none"
    BY <1>3 DEF GetInv, Rested
  <2>2. QED
    BY <2>1, GetsKept
<1>5. QuoteInv'
  BY <1>1, <1>2, <1>3, QuoteEnds DEF Rested
<1>6. ChartInv' /\ ReplacedInv'
  BY <1>1, <1>2, <1>3, ChartKept DEF Rested
<1>7. QED
  BY <1>2, <1>4, <1>5, <1>6

LEMMA SaveQuoteKeeps ==
    ASSUME MarketInv, RefreshInv', Market!SaveQuote
    PROVE  MarketInv'
<1> USE DEF MarketInv, RefreshInv
<1>1. "quote" \in Market!Kinds
  BY DEF Market!Kinds
<1>2. /\ refresh["quote"].pc = "save" /\ UNCHANGED <<now, provider, barRefreshAt, unnoticed>>
      /\ stored' = [stored EXCEPT !["quote"] = Market!Written("quote", refresh["quote"].got)]
      /\ Market!Answer(Market!Joined("quote"), refresh["quote"].got)
      /\ Rested("quote")
  BY <1>1, RestGives DEF Market!SaveQuote
<1>3. ValuesInv'
  BY <1>2, QuoteStoredKeeps DEF Market!Answer
<1>4. NeverRollsBack'
  <2>1. refresh["quote"].got.at = now /\ now \in Nat
    BY <1>1, <1>2 DEF FetchInv, MarketTypeOK
  <2>2. ASSUME NEW g \in Market!Joined("quote") PROVE ~Market!Older(g, refresh["quote"].got)
    <3>1. g \in Gets /\ get[g].cached.at <= now /\ get[g].cached.at \in Nat
      BY <2>2 DEF Market!Joined, ValuesInv, GetInv, MarketTypeOK, GetRecords, Rows
    <3>2. QED
      BY <2>1, <3>1 DEF Market!Older
  <2>3. Market!Joined("quote") \in SUBSET Gets /\ unnoticed["bars"] \in Nat
    BY DEF Market!Joined, MarketTypeOK, Market!Kinds
  <2>4. QED
    BY <1>2, <2>2, <2>3, AnswerKeeps
<1>5. QED
  BY <1>3, <1>4

\* The transaction that replaces the chart commits.
LEMMA ReplaceBarsKeeps ==
    ASSUME MarketInv, RefreshInv', Market!ReplaceBars
    PROVE  MarketInv'
<1> USE DEF MarketInv, ValuesInv, RefreshInv
<1>1. "bars" \in Market!Kinds
  BY DEF Market!Kinds
<1>2. /\ refresh["bars"].pc = "save"
      /\ UNCHANGED <<now, provider, get, barRefreshAt, unnoticed, wentBack>>
      /\ stored' = [stored EXCEPT !["bars"] = Market!Written("bars", refresh["bars"].got)]
      /\ GoneOn("bars", "saved")
  BY <1>1, GoOnGives DEF Market!ReplaceBars
<1>3. /\ refresh["bars"].got \in Rows
      /\ refresh["bars"].got.at = now \/ refresh["bars"].got.at = 0
  BY <1>1, <1>2 DEF MarketTypeOK, RefreshRecords, FetchInv
<1>4. /\ \A j \in Market!Kinds : StoredInv(j)'
      /\ stored'["quote"] = stored["quote"]
      /\ stored'["bars"] = {} \/ Market!Latest("bars")'.at = now
  BY <1>1, <1>2, <1>3, StoredAnew DEF Market!Kinds
<1>5. \A h \in Gets : GetInv(h)'
  BY <1>2 DEF GetInv, GoneOn
<1>6. QuoteInv'
  BY <1>1, <1>2, <1>4, QuoteKept DEF GoneOn, Market!Kinds
<1>7. ReplacedInv'
  BY <1>2, <1>4 DEF ReplacedInv
<1>8. ChartInv'
  BY <1>2 DEF ChartInv, GoneOn
<1>9. NeverRollsBack'
  BY <1>2 DEF NeverRollsBack, Market!NeverRollsBack
<1>10. QED
  BY <1>4, <1>5, <1>6, <1>7, <1>8, <1>9

\* The process notes that it has replaced the chart.
LEMMA NoteRefreshKeeps ==
    ASSUME MarketInv, RefreshInv', Market!NoteRefresh
    PROVE  MarketInv'
<1> USE DEF MarketInv, ValuesInv, RefreshInv
<1>1. "bars" \in Market!Kinds
  BY DEF Market!Kinds
<1>2. /\ refresh["bars"].pc = "saved" /\ barRefreshAt' = now
      /\ UNCHANGED <<now, provider, stored, get, unnoticed, wentBack>>
      /\ GoneOn("bars", "reread")
  BY <1>1, GoOnGives DEF Market!NoteRefresh
<1>3. \A j \in Market!Kinds : StoredInv(j)' /\ Market!Latest(j)' = Market!Latest(j)
  BY <1>2, LatestKept DEF StoredInv
<1>4. \A h \in Gets : GetInv(h)'
  BY <1>2 DEF GetInv, GoneOn
<1>5. QuoteInv'
  BY <1>1, <1>2, QuoteKept DEF GoneOn, Market!Kinds
<1>6. ReplacedInv'
  <2>1. stored["bars"] = {} \/ Market!Latest("bars").at = now
    BY <1>2 DEF ReplacedInv
  <2>2. QED
    BY <1>1, <1>2, <1>3, <2>1 DEF ReplacedInv, MarketTypeOK
<1>7. ChartInv'
  BY <1>2 DEF ChartInv, GoneOn
<1>8. NeverRollsBack'
  BY <1>2 DEF NeverRollsBack, Market!NeverRollsBack
<1>9. QED
  BY <1>3, <1>4, <1>5, <1>6, <1>7, <1>8

\* The chart that is read again is the new one.
LEMMA AnswerChartKeeps ==
    ASSUME MarketInv, RefreshInv', Market!AnswerChart
    PROVE  MarketInv'
<1> USE DEF MarketInv, RefreshInv
<1>1. "bars" \in Market!Kinds
  BY DEF Market!Kinds
<1>2. /\ refresh["bars"].pc = "reread"
      /\ UNCHANGED <<now, provider, stored, barRefreshAt, unnoticed>>
      /\ Market!Answer(Market!Joined("bars"), Market!Latest("bars"))
      /\ Rested("bars")
  BY <1>1, RestGives DEF Market!AnswerChart
<1>3. ValuesInv'
  BY <1>1, <1>2, EndKeepsValues DEF Market!Answer
<1>4. NeverRollsBack'
  <2>1. Market!Latest("bars").at \in {0, now} /\ now \in Nat
    BY <1>1, <1>2, LatestIsRow DEF ValuesInv, ReplacedInv, MarketTypeOK, Market!NoRow
  <2>2. ASSUME NEW g \in Market!Joined("bars") PROVE ~Market!Older(g, Market!Latest("bars"))
    <3>1. g \in Gets /\ get[g].cached.at <= now /\ get[g].cached.at \in Nat
      BY <2>2 DEF Market!Joined, ValuesInv, GetInv, MarketTypeOK, GetRecords, Rows
    <3>2. QED
      BY <2>1, <3>1 DEF Market!Older
  <2>3. Market!Joined("bars") \in SUBSET Gets /\ unnoticed["bars"] \in Nat
    BY DEF Market!Joined, MarketTypeOK, Market!Kinds
  <2>4. QED
    BY <1>2, <2>2, <2>3, AnswerKeeps
<1>5. QED
  BY <1>3, <1>4

\* The database fails: the callers are told so, what it did may be done.
LEMMA SaveFailedKeeps ==
    ASSUME MarketInv, RefreshInv', NEW k \in Market!Kinds, Market!SaveFailed(k)
    PROVE  MarketInv'
<1> USE DEF MarketInv, RefreshInv
<1>1. /\ refresh[k].pc \in {"save", "reread"} /\ Rested(k) /\ Market!Over(Market!Joined(k))
      /\ UNCHANGED <<now, provider, barRefreshAt, wentBack>>
  BY RestGives DEF Market!SaveFailed, Market!Fail
<1>2. unnoticed["bars"] \in Nat
  BY DEF MarketTypeOK, Market!Kinds
<1>3. CASE UNCHANGED <<stored, unnoticed>>
  BY <1>1, <1>2, <1>3, EndKeepsValues, SilenceKeeps
<1>4. CASE /\ refresh[k].pc = "save" /\ Market!Unnoticed(k)
           /\ stored' = [stored EXCEPT ![k] = Market!Written(k, refresh[k].got)]
  <2>1. /\ unnoticed'[k] > 0 /\ unnoticed'["bars"] >= unnoticed["bars"]
        /\ \A j \in Market!Kinds : j # k => unnoticed'[j] = unnoticed[j]
        /\ unnoticed'["bars"] \in Nat
    BY <1>4, UnnoticedGives DEF Market!Kinds
  <2>2. NeverRollsBack'
    BY <1>1, <2>1, SilenceKeeps
  <2>3. CASE k = "quote"
    BY <1>1, <1>4, <2>1, <2>2, <2>3, QuoteStoredKeeps DEF Market!Kinds
  <2>4. CASE k = "bars"
    <3>1. /\ refresh["bars"].got \in Rows
          /\ refresh["bars"].got.at = now \/ refresh["bars"].got.at = 0
      BY <1>4, <2>4 DEF MarketTypeOK, RefreshRecords, FetchInv, Market!Kinds
    <3>2. /\ \A j \in Market!Kinds : StoredInv(j)'
          /\ stored'["quote"] = stored["quote"]
          /\ stored'["bars"] = {} \/ Market!Latest("bars")'.at = now
      BY <1>1, <1>4, <2>4, <3>1, StoredAnew DEF Market!Kinds
    <3>3. \A g \in Gets : \/ get'[g].pc \notin {"looked", "joined"}
                          \/ /\ get'[g] = get[g]
                             /\ ~(get[g].pc = "joined" /\ get[g].kind = "bars")
      BY <1>1, <2>4, OverGives DEF Market!Joined
    <3>4. \A g \in Gets : GetInv(g)'
      <4>1. \A g \in Gets : \/ get'[g].pc \notin {"looked", "joined"}
                            \/ /\ get'[g] = get[g]
                               /\ get[g].pc = "joined" => refresh'[get[g].kind].pc # "none"
        BY <1>1, <2>4, <3>3 DEF ValuesInv, GetInv, Rested
      <4>2. QED
        BY <1>1, <4>1, GetsKept DEF ValuesInv
    <3>5. QuoteInv'
      BY <1>1, <2>4, <3>2, <3>3, QuoteKept DEF ValuesInv, Rested, Market!Kinds
    <3>6. ChartInv' /\ ReplacedInv'
      BY <1>1, <1>4, <2>1, <2>4, <3>2, <3>3, ChartEnds DEF ValuesInv, Rested
    <3>7. QED
      BY <2>2, <3>2, <3>4, <3>5, <3>6 DEF ValuesInv
  <2>5. QED
    BY <2>3, <2>4 DEF Market!Kinds
<1>5. QED
  BY <1>3, <1>4 DEF Market!SaveFailed

\* The token arrives: who waited for it fetches.
LEMMA TokenAnsweredKeeps ==
    ASSUME MarketInv, RefreshInv', NEW t \in 1..MaxTime, Market!TokenAnswered(t)
    PROVE  MarketInv'
<1> USE DEF MarketInv, ValuesInv, RefreshInv
<1>1. /\ UNCHANGED <<now, provider, stored, get, barRefreshAt, unnoticed, wentBack>>
      /\ refresh' = [k \in Market!Kinds |-> IF refresh[k].pc = "token"
                        THEN [refresh[k] EXCEPT !.pc = "fetch", !.since = now,
                                                !.ends = t + TokenLife]
                        ELSE refresh[k]]
  BY DEF Market!TokenAnswered, Market!AwaitToken
<1>2. ASSUME NEW k \in Market!Kinds
      PROVE  /\ refresh[k].pc = "token" =>
                   /\ refresh'[k].pc = "fetch" /\ refresh'[k].cached = refresh[k].cached
                   /\ refresh'[k].since = now
             /\ refresh[k].pc # "token" => refresh'[k] = refresh[k]
  BY <1>1 DEF MarketTypeOK, RefreshRecords
<1>3. \A j \in Market!Kinds : StoredInv(j)' /\ Market!Latest(j)' = Market!Latest(j)
  BY <1>1, LatestKept DEF StoredInv
<1>4. \A h \in Gets : GetInv(h)'
  BY <1>1, <1>2 DEF GetInv
<1>5. QuoteInv'
  <2>1. CASE refresh["quote"].pc = "token"
    <3>1. ASSUME NEW r \in stored["quote"], r.at > refresh["quote"].cached.at
          PROVE  r.at + Wait >= now
      <4>1. r.at >= refresh["quote"].since
        BY <2>1, <3>1 DEF QuoteInv
      <4>2. /\ tokenSince <= refresh["quote"].since /\ now <= tokenSince + Wait
            /\ tokenSince \in Nat /\ now \in Nat /\ Wait \in Nat /\ r.at \in Nat
            /\ refresh["quote"].since \in Nat
        BY <2>1, TokenAssumption
        DEF FetchInv, TokenInv, MarketTypeOK, RefreshRecords, Rows, Market!Kinds
      <4>3. QED
        BY <4>1, <4>2
    <3>2. QED
      BY <1>1, <1>2, <2>1, <3>1 DEF QuoteInv, Market!Kinds
  <2>2. CASE refresh["quote"].pc # "token"
    BY <1>1, <1>2, <2>2, QuoteKept DEF Market!Kinds
  <2>3. QED
    BY <2>1, <2>2
<1>6. ChartInv' /\ ReplacedInv'
  <2>1. CASE refresh["bars"].pc = "token"
    <3>1. refresh'["bars"].pc = "fetch" /\ refresh'["bars"].cached = refresh["bars"].cached
      BY <1>2, <2>1 DEF Market!Kinds
    <3>2. ReplacedInv'
      BY <1>1, <1>3, <2>1, <3>1 DEF ReplacedInv, Market!Kinds
    <3>3. ChartInv'
      BY <1>1, <1>3, <2>1, <3>1 DEF ChartInv, Market!Kinds
    <3>4. QED
      BY <3>2, <3>3
  <2>2. CASE refresh["bars"].pc # "token"
    BY <1>1, <1>2, <2>2, ChartKept DEF Market!Kinds
  <2>3. QED
    BY <2>1, <2>2
<1>7. NeverRollsBack'
  BY <1>1 DEF NeverRollsBack, Market!NeverRollsBack
<1>8. QED
  BY <1>3, <1>4, <1>5, <1>6, <1>7

\* It does not: they end, quotes and charts together.
LEMMA TokenFailedKeeps ==
    ASSUME MarketInv, RefreshInv', Market!TokenFailed
    PROVE  MarketInv'
<1> USE DEF MarketInv, ValuesInv, RefreshInv
<1> DEFINE waiting == {g \in Gets : \E k \in Market!AwaitToken : g \in Market!Joined(k)}
           older == {g \in waiting : Market!Older(g, refresh[get[g].kind].cached)}
<1>1. /\ UNCHANGED <<now, provider, stored, barRefreshAt, unnoticed>>
      /\ refresh' = [k \in Market!Kinds |->
                        IF refresh[k].pc = "token" THEN Market!Resting ELSE refresh[k]]
      /\ Market!Over(waiting)
      /\ wentBack' = wentBack \cup {get[g].kind : g \in older}
  BY DEF Market!TokenFailed, Market!AwaitToken
<1>2. \A g \in waiting : /\ g \in Gets /\ get[g].pc = "joined"
                         /\ refresh[get[g].kind].pc = "token"
  BY DEF Market!Joined, Market!AwaitToken
<1>3. \A g \in older : get[g].kind = "bars" /\ unnoticed["bars"] > 0
  BY <1>2, FallsBack
<1>4. \A g \in Gets : \/ get'[g].pc \notin {"looked", "joined"}
                      \/ /\ get'[g] = get[g]
                         /\ get[g].pc = "joined" => refresh[get[g].kind].pc # "token"
  <2>1. \A g \in Gets : get'[g].pc = "over" \/ (get'[g] = get[g] /\ g \notin waiting)
    BY <1>1, OverGives
  <2>2. \A g \in Gets : g \notin waiting =>
           (get[g].pc = "joined" => refresh[get[g].kind].pc # "token")
    BY DEF Market!Joined, Market!AwaitToken, GetInv
  <2>3. QED
    BY <2>1, <2>2
<1> HIDE DEF waiting, older
<1>5. \A k \in Market!Kinds :
         /\ refresh[k].pc = "token" => refresh'[k].pc = "none"
         /\ refresh[k].pc # "token" => refresh'[k] = refresh[k]
  BY <1>1 DEF Market!Resting
<1>6. \A j \in Market!Kinds : StoredInv(j)'
  BY <1>1 DEF StoredInv
<1>7. \A g \in Gets : GetInv(g)'
  BY <1>1, <1>4, <1>5 DEF GetInv
<1>8. QuoteInv'
  <2>1. CASE refresh["quote"].pc = "token"
    BY <1>1, <1>4, <1>5, <2>1, QuoteEnds DEF Market!Kinds
  <2>2. CASE refresh["quote"].pc # "token"
    BY <1>1, <1>4, <1>5, <2>2, QuoteKept DEF Market!Kinds
  <2>3. QED
    BY <2>1, <2>2
<1>9. ChartInv' /\ ReplacedInv'
  <2>1. CASE refresh["bars"].pc = "token"
    <3>1. unnoticed'["bars"] \in Nat
      BY <1>1 DEF MarketTypeOK, Market!Kinds
    <3>2. QED
      BY <1>1, <1>4, <1>5, <2>1, <3>1, ChartEnds DEF Market!Kinds
  <2>2. CASE refresh["bars"].pc # "token"
    BY <1>1, <1>4, <1>5, <2>2, ChartKept DEF Market!Kinds
  <2>3. QED
    BY <2>1, <2>2
<1>10. NeverRollsBack'
  BY <1>1, <1>3 DEF NeverRollsBack, Market!NeverRollsBack
<1>11. QED
  BY <1>6, <1>7, <1>8, <1>9, <1>10

\* Time passes while nothing is read or stored.
LEMMA TickKeeps == ASSUME MarketInv, RefreshInv', Market!Tick PROVE MarketInv'
<1> USE DEF MarketInv, ValuesInv, RefreshInv
<1>1. /\ UNCHANGED <<provider, stored, get, refresh, barRefreshAt, unnoticed, wentBack>>
      /\ now' = now + 1 /\ now \in Nat
      /\ \A g \in Gets : get[g].pc # "looked"
      /\ \A k \in Market!Kinds : refresh[k].pc \notin {"save", "saved", "reread"}
  BY DEF Market!Tick, Market!memory, MarketTypeOK
<1>2. ASSUME NEW j \in Market!Kinds PROVE StoredInv(j)' /\ Market!Latest(j)' = Market!Latest(j)
  <2>1. \A r \in stored[j] : r.at \in Nat
    BY DEF MarketTypeOK, Rows
  <2>2. QED
    BY <1>1, <2>1, LatestKept DEF StoredInv
<1>3. \A g \in Gets : GetInv(g)'
  <2>1. \A g \in Gets : get[g].cached.at \in Nat
    BY DEF MarketTypeOK, GetRecords, Rows
  <2>2. QED
    BY <1>1, <2>1 DEF GetInv
<1>4. QuoteInv'
  BY <1>1 DEF QuoteInv
<1>5. ReplacedInv'
  <2>1. barRefreshAt \in Nat /\ barRefreshAt <= now
    BY DEF MarketTypeOK, ReplacedInv
  <2>2. QED
    BY <1>1, <2>1 DEF ReplacedInv, Market!Kinds
<1>6. ChartInv'
  BY <1>1, <1>2 DEF ChartInv, Market!Kinds
<1>7. NeverRollsBack'
  BY <1>1 DEF NeverRollsBack, Market!NeverRollsBack
<1>8. QED
  BY <1>2, <1>3, <1>4, <1>5, <1>6, <1>7

\* With the process goes what it knew, and who waited for it.
LEMMA RestartKeeps == ASSUME MarketInv, RefreshInv', Market!Restart PROVE MarketInv'
<1> USE DEF MarketInv, ValuesInv, RefreshInv
<1>1. /\ refresh' = [k \in Market!Kinds |-> Market!Resting]
      /\ barRefreshAt' = 0 /\ UNCHANGED <<now, provider, stored, unnoticed, wentBack>>
      /\ Market!Over({g \in Gets : get[g].pc \in {"looked", "joined"}})
  BY DEF Market!Restart, Market!Fail
<1>2. \A k \in Market!Kinds : refresh'[k].pc = "none"
  BY <1>1 DEF Market!Resting
<1>3. \A g \in Gets : get'[g].pc \notin {"looked", "joined"}
  BY <1>1, OverGives
<1>4. \A j \in Market!Kinds : StoredInv(j)'
  BY <1>1 DEF StoredInv
<1>5. now \in Nat /\ now > 0
  BY DEF MarketTypeOK
<1>6. QuoteInv' /\ \A g \in Gets : GetInv(g)'
  BY <1>2, <1>3 DEF QuoteInv, GetInv, Market!Kinds
<1>7. ReplacedInv' /\ ChartInv'
  BY <1>1, <1>2, <1>3, <1>5 DEF ReplacedInv, ChartInv, Market!Kinds
<1>8. NeverRollsBack'
  BY <1>1 DEF NeverRollsBack, Market!NeverRollsBack
<1>9. QED
  BY <1>4, <1>6, <1>7, <1>8

\* Another process stores a quote of this instant, or a chart: of that this process
\* knows nothing.
LEMMA StoreElsewhereKeeps ==
    ASSUME MarketInv, RefreshInv', NEW k \in Market!Kinds, Market!StoreElsewhere(k)
    PROVE  MarketInv'
<1> USE DEF MarketInv, ValuesInv, RefreshInv
<1>1. /\ UNCHANGED <<now, provider, get, refresh, barRefreshAt, wentBack>>
      /\ Market!Unnoticed(k)
  BY DEF Market!StoreElsewhere, Market!memory
<1>2. PICK at \in IF k = "bars" THEN {now, 0} ELSE {now} :
        stored' = [stored EXCEPT ![k] = Market!Written(k, [at |-> at, source |-> provider])]
  BY DEF Market!StoreElsewhere
<1> DEFINE row == [at |-> at, source |-> provider]
<1>3. row \in Rows
  BY <1>2 DEF MarketTypeOK, Rows, Market!Sources
<1>4. /\ row.at = now \/ (k = "bars" /\ row.at = 0)
      /\ row.source = provider
      /\ stored' = [stored EXCEPT ![k] = Market!Written(k, row)]
  BY <1>2
<1> HIDE DEF row
<1>5. /\ \A j \in Market!Kinds : StoredInv(j)'
      /\ \A j \in Market!Kinds : j # k => stored'[j] = stored[j]
      /\ k = "quote" => stored'[k] = stored[k] \cup {row}
      /\ k = "bars" => stored'["bars"] = {} \/ Market!Latest("bars")'.at = now
  BY <1>1, <1>3, <1>4, StoredAnew
<1>6. /\ unnoticed'[k] > 0 /\ unnoticed'["bars"] >= unnoticed["bars"]
      /\ \A j \in Market!Kinds : j # k => unnoticed'[j] = unnoticed[j]
  BY <1>1, UnnoticedGives
<1>7. \A g \in Gets : GetInv(g)'
  BY <1>1 DEF GetInv
<1>8. NeverRollsBack'
  BY <1>1, <1>6, SilenceKeeps
<1>9. CASE k = "quote"
  <2>1. ChartInv' /\ ReplacedInv'
    BY <1>1, <1>5, <1>6, <1>9, ChartKept DEF Market!Kinds
  <2>2. row.at = now /\ now \in Nat /\ Wait \in Nat
    BY <1>4, <1>9, TokenAssumption DEF MarketTypeOK
  <2>3. refresh["quote"].since \in Nat /\ (refresh["quote"].pc # "none" =>
           refresh["quote"].since <= now)
    BY DEF MarketTypeOK, RefreshRecords, FetchInv, Market!Kinds
  <2>4. now + Wait >= refresh["quote"].since \/ refresh["quote"].pc = "none"
    BY <2>2, <2>3
  <2>5. QuoteInv'
    BY <1>1, <1>4, <1>5, <1>9, <2>2, <2>3, <2>4 DEF QuoteInv
  <2>6. QED
    BY <1>5, <1>7, <1>8, <2>1, <2>5
<1>10. CASE k = "bars"
  <2>1. QuoteInv'
    BY <1>1, <1>5, <1>10, QuoteKept DEF Market!Kinds
  <2>2. ReplacedInv'
    BY <1>1, <1>5, <1>10 DEF ReplacedInv
  <2>3. ChartInv'
    BY <1>6, <1>10 DEF ChartInv
  <2>4. QED
    BY <1>5, <1>7, <1>8, <2>1, <2>2, <2>3
<1>11. QED
  BY <1>9, <1>10 DEF Market!Kinds

LEMMA MarketStep == ASSUME MarketInv, Market!Next PROVE MarketInv'
<1>1. RefreshInv'
  BY RefreshStep DEF MarketInv, ValuesInv
<1>2. ASSUME NEW g \in Gets, (\E k \in Market!Kinds : Market!Look(g, k)) \/ Market!Decide(g)
      PROVE  MarketInv'
  BY <1>1, <1>2, LookKeeps, DecideKeeps
<1>3. ASSUME NEW k \in Market!Kinds, Market!Fetched(k) \/ Market!FetchFailed(k)
      PROVE  MarketInv'
  BY <1>1, <1>3, FetchedKeeps, FetchFailedKeeps
<1>4. ASSUME NEW k \in Market!Kinds, Market!SaveFailed(k) \/ Market!StoreElsewhere(k)
      PROVE  MarketInv'
  BY <1>1, <1>4, SaveFailedKeeps, StoreElsewhereKeeps
<1>5. CASE \/ Market!SaveQuote \/ Market!ReplaceBars \/ Market!NoteRefresh
           \/ Market!AnswerChart
  BY <1>1, <1>5, SaveQuoteKeeps, ReplaceBarsKeeps, NoteRefreshKeeps, AnswerChartKeeps
<1>6. CASE \E t \in 1..MaxTime : Market!TokenAnswered(t)
  BY <1>1, <1>6, TokenAnsweredKeeps
<1>7. CASE Market!TokenFailed \/ Market!Tick \/ Market!Restart
  BY <1>1, <1>7, TokenFailedKeeps, TickKeeps, RestartKeeps
<1>8. QED
  BY <1>2, <1>3, <1>4, <1>5, <1>6, <1>7 DEF Market!Next

LEMMA MarketAlways == PlatformSpec => []MarketInv
<1>1. ASSUME MarketInv, UNCHANGED marketVars PROVE MarketInv'
  <2>1. RefreshInv'
    BY <1>1 DEF marketVars, MarketInv, RefreshInv, MarketTypeOK, TokenInv, FetchInv
  <2>2. /\ \A k \in Market!Kinds : StoredInv(k)' /\ Market!Latest(k)' = Market!Latest(k)
        /\ \A g \in Gets : GetInv(g)'
    BY <1>1, LatestKept DEF marketVars, MarketInv, ValuesInv, StoredInv, GetInv
  <2>3. QuoteInv' /\ ChartInv' /\ ReplacedInv'
    BY <1>1, QuoteKept, ChartKept DEF marketVars, MarketInv, ValuesInv
  <2>4. NeverRollsBack'
    BY <1>1 DEF marketVars, MarketInv, NeverRollsBack, Market!NeverRollsBack
  <2>5. QED
    BY <2>1, <2>2, <2>3, <2>4 DEF MarketInv, ValuesInv
<1>2. MarketInv /\ [PlatformNext]_platformVars => MarketInv'
  BY <1>1, MarketStep, Frame
<1>3. PlatformInit => MarketInv
  BY MarketInit
<1>4. QED
  BY <1>2, <1>3, PTL DEF PlatformSpec

\* An access token outlives every request that is sent with it, for a margin
\* of twice the longest request (getAccessToken).
THEOREM TokensOutliveRequests == PlatformSpec => []TokenAccepted
<1>1. ASSUME MarketInv PROVE TokenAccepted
  <2>1. ASSUME NEW k \in Market!Kinds, refresh[k].pc = "fetch", provider = "KIS"
        PROVE  refresh[k].ends > now
    <3>1. /\ refresh[k].ends \in Nat /\ refresh[k].since \in Nat /\ now \in Nat
          /\ refresh[k].ends > refresh[k].since + Wait /\ now <= refresh[k].since + Wait
      BY <1>1, <2>1 DEF MarketInv, RefreshInv, MarketTypeOK, RefreshRecords, FetchInv
    <3>2. QED
      BY <3>1, TokenAssumption
  <2>2. QED
    BY <2>1 DEF TokenAccepted, Market!TokenAccepted
<1>2. QED
  BY <1>1, MarketAlways, PTL

\* A call is not answered a quote older than the newest that was stored when it
\* asked, whichever refresh it joined and whatever other processes store; nor a chart,
\* as long as this process knows of every chart stored (MarketService.quote, bars).
THEOREM AnswersNeverRollBack == PlatformSpec => []NeverRollsBack
<1>1. MarketInv => NeverRollsBack
  BY DEF MarketInv
<1>2. QED
  BY <1>1, MarketAlways, PTL

-----------------------------------------------------------------------------
(* The bars of a chart *)

BarRecords == [at : Int, id : Int]

\* A finite set of bars.
Chartable(S) == IsFiniteSet(S) /\ S \subseteq BarRecords

\* The bars of a set that come after a bar, and how many there are.
After(S, b) == {o \in S : Bars!Before(b, o)}
Rank(S) == [b \in S |-> Cardinality(After(S, b))]

\* The module of the bars counts as this one does.
LEMMA CountsAlike == ASSUME NEW S PROVE Bars!Cardinality(S) = Cardinality(S)
  BY DEF Bars!Cardinality, Cardinality

LEMMA BeforeOrders ==
    ASSUME NEW a \in BarRecords, NEW b \in BarRecords, NEW c \in BarRecords
    PROVE  /\ ~ Bars!Before(a, a)
           /\ a # b => Bars!Before(a, b) \/ Bars!Before(b, a)
           /\ Bars!Before(a, b) /\ Bars!Before(b, c) => Bars!Before(a, c)
  BY DEF BarRecords, Bars!Before

LEMMA AfterIsFinite ==
    ASSUME NEW S, Chartable(S), NEW b \in S
    PROVE  /\ IsFiniteSet(After(S, b)) /\ Cardinality(After(S, b)) \in Nat
           /\ Cardinality(S) \in Nat /\ Cardinality(After(S, b)) <= Cardinality(S) - 1
<1>1. IsFiniteSet(S \ {b}) /\ Cardinality(S \ {b}) = Cardinality(S) - 1
  BY FS_RemoveElement DEF Chartable
<1>2. After(S, b) \in SUBSET (S \ {b})
  BY BeforeOrders DEF Chartable, After
<1>3. IsFiniteSet(After(S, b)) /\ Cardinality(After(S, b)) <= Cardinality(S \ {b})
  BY <1>1, <1>2, FS_Subset
<1>4. Cardinality(S) \in Nat /\ Cardinality(After(S, b)) \in Nat
  BY <1>3, FS_CardinalityType DEF Chartable
<1>5. QED
  BY <1>1, <1>3, <1>4

\* The later of two bars has fewer bars after it.
LEMMA LaterRanksLower ==
    ASSUME NEW S, Chartable(S), NEW a \in S, NEW b \in S, Bars!Before(a, b)
    PROVE  Rank(S)[b] < Rank(S)[a]
<1>1. After(S, b) \subseteq After(S, a) /\ b \in After(S, a) /\ b \notin After(S, b)
  BY BeforeOrders DEF Chartable, After
<1>2. Cardinality(After(S, b)) <= Cardinality(After(S, a))
      /\ Cardinality(After(S, b)) # Cardinality(After(S, a))
  BY <1>1, AfterIsFinite, FS_Subset
<1>3. QED
  BY <1>2, AfterIsFinite DEF Rank

\* Ranks number the bars from the last one on.
LEMMA RanksNumber ==
    ASSUME NEW S, Chartable(S)
    PROVE  /\ Cardinality(S) \in Nat
           /\ Rank(S) \in [S -> 0..(Cardinality(S) - 1)]
           /\ \A a, b \in S : Rank(S)[a] = Rank(S)[b] => a = b
           /\ \A r \in 0..(Cardinality(S) - 1) : \E b \in S : Rank(S)[b] = r
<1>1. Cardinality(S) \in Nat
  BY FS_CardinalityType DEF Chartable
<1>2. Rank(S) \in [S -> 0..(Cardinality(S) - 1)]
  BY AfterIsFinite DEF Rank
<1>3. \A a, b \in S : Rank(S)[a] = Rank(S)[b] => a = b
  <2> SUFFICES ASSUME NEW a \in S, NEW b \in S, a # b PROVE Rank(S)[a] # Rank(S)[b]
    OBVIOUS
  <2>1. Rank(S)[a] < Rank(S)[b] \/ Rank(S)[b] < Rank(S)[a]
    BY LaterRanksLower, BeforeOrders DEF Chartable
  <2>2. QED
    BY <1>2, <2>1
<1>4. Rank(S) \in Injection(S, 0..(Cardinality(S) - 1))
  BY <1>2, <1>3, Fun_IsInj
<1>5. /\ IsFiniteSet(0..(Cardinality(S) - 1))
      /\ Cardinality(0..(Cardinality(S) - 1)) = Cardinality(S)
  BY <1>1, FS_Interval
<1>6. Rank(S) \in Surjection(S, 0..(Cardinality(S) - 1))
  BY <1>4, <1>5, FS_Injection
<1>7. QED
  BY <1>1, <1>2, <1>3, <1>6 DEF Surjection

LEMMA SmallerOf ==
    ASSUME NEW m \in Nat, NEW n \in Nat
    PROVE  Bars!Min({m, n}) = IF m <= n THEN m ELSE n
<1>1. \E x \in {m, n} : \A y \in {m, n} : x <= y
  OBVIOUS
<1>2. Bars!Min({m, n}) \in {m, n} /\ \A y \in {m, n} : Bars!Min({m, n}) <= y
  BY <1>1 DEF Bars!Min
<1>3. QED
  BY <1>2

\* Newest takes as many bars as it may, or all there are.
LEMMA NewestCounts ==
    ASSUME NEW S, Chartable(S), NEW n \in Nat
    PROVE  /\ Chartable(Bars!Newest(n, S)) /\ Bars!Newest(n, S) \subseteq S
           /\ Cardinality(Bars!Newest(n, S)) = Bars!Min({n, Cardinality(S)})
           /\ \A b \in S : b \in Bars!Newest(n, S) <=> Rank(S)[b] < n
<1> DEFINE N == Bars!Newest(n, S)
           c == IF n <= Cardinality(S) THEN n ELSE Cardinality(S)
<1>1. ASSUME NEW b \in S PROVE b \in N <=> Rank(S)[b] < n
  <2>1. b \in N <=> Bars!Cardinality({o \in S : Bars!Before(b, o)}) < n
    BY DEF Bars!Newest
  <2>2. Rank(S)[b] = Cardinality(After(S, b))
    BY DEF Rank
  <2>3. After(S, b) = {o \in S : Bars!Before(b, o)}
    BY DEF After
  <2> HIDE DEF N
  <2>4. QED
    BY <2>1, <2>2, <2>3, CountsAlike
<1>2. N \in SUBSET S
  BY DEF Bars!Newest
<1>3. Chartable(N)
  BY <1>2, FS_Subset DEF Chartable
<1>4. Cardinality(S) \in Nat
  BY FS_CardinalityType DEF Chartable
<1> DEFINE f == [b \in N |-> Rank(S)[b]]
<1> HIDE DEF N
<1>5. f \in Bijection(N, 0..(c - 1))
  <2>0. Rank(S) \in [S -> 0..(Cardinality(S) - 1)]
    BY RanksNumber
  <2>1. ASSUME NEW b \in N PROVE Rank(S)[b] \in 0..(c - 1)
    <3>1. Rank(S)[b] \in 0..(Cardinality(S) - 1) /\ Rank(S)[b] < n
      BY <1>1, <1>2, <2>0
    <3>2. QED
      BY <1>4, <3>1
  <2>2. f \in [N -> 0..(c - 1)]
    BY <2>1
  <2>3. \A a, b \in N : f[a] = f[b] => a = b
    BY <1>2, RanksNumber
  <2>4. ASSUME NEW r \in 0..(c - 1) PROVE \E b \in N : f[b] = r
    <3>1. r \in 0..(Cardinality(S) - 1) /\ r < n
      BY <1>4
    <3>2. PICK b \in S : Rank(S)[b] = r
      BY <3>1, RanksNumber
    <3>3. b \in N
      BY <1>1, <3>1, <3>2
    <3>4. QED
      BY <3>2, <3>3
  <2>5. f \in Injection(N, 0..(c - 1)) /\ f \in Surjection(N, 0..(c - 1))
    BY <2>2, <2>3, <2>4, Fun_IsInj, Fun_IsSurj
  <2>6. QED
    BY <2>5 DEF Bijection
<1>6. Cardinality(0..(c - 1)) = Cardinality(N)
  BY <1>3, <1>5, FS_Bijection DEF Chartable, ExistsBijection
<1>7. c \in Nat /\ Cardinality(0..(c - 1)) = c
  <2>1. c \in Nat
    BY <1>4
  <2> HIDE DEF c
  <2>2. Cardinality(0..(c - 1)) = IF 0 > c - 1 THEN 0 ELSE (c - 1) - 0 + 1
    BY <2>1, FS_Interval
  <2>3. QED
    BY <2>1, <2>2
<1>8. Cardinality(N) = Bars!Min({n, Cardinality(S)})
  BY <1>4, <1>6, <1>7, SmallerOf
<1>9. QED
  BY <1>1, <1>2, <1>3, <1>8 DEF N

LEMMA NewestIsAll ==
    ASSUME NEW S, Chartable(S), NEW n \in Nat, Cardinality(S) <= n
    PROVE  Bars!Newest(n, S) = S
<1>1. Cardinality(S) \in Nat
  BY FS_CardinalityType DEF Chartable
<1>2. ASSUME NEW b \in S PROVE Rank(S)[b] < n
  BY <1>1, AfterIsFinite DEF Rank
<1>3. /\ Bars!Newest(n, S) \subseteq S
      /\ \A b \in S : b \in Bars!Newest(n, S) <=> Rank(S)[b] < n
  BY NewestCounts
<1>4. \A b \in S : b \in Bars!Newest(n, S)
  BY <1>2, <1>3
<1>5. QED
  BY <1>3, <1>4

\* A set of bars that is not empty has a last one.
LEMMA LatestIsLast ==
    ASSUME NEW S, Chartable(S), S # {}
    PROVE  /\ Bars!Latest(S) \in S
           /\ \A o \in S \ {Bars!Latest(S)} : Bars!Before(o, Bars!Latest(S))
<1>1. Cardinality(S) \in Nat /\ Cardinality(S) # 0
  BY FS_CardinalityType, FS_EmptySet DEF Chartable
<1>2. PICK b \in S : Rank(S)[b] = 0
  BY <1>1, RanksNumber
<1>3. ASSUME NEW o \in S \ {b} PROVE Bars!Before(o, b)
  <2>1. Bars!Before(o, b) \/ Bars!Before(b, o)
    BY BeforeOrders DEF Chartable
  <2>2. ASSUME Bars!Before(b, o) PROVE FALSE
    <3>1. Rank(S)[o] < 0 /\ Rank(S)[o] \in Nat
      BY <1>2, <2>2, LaterRanksLower, AfterIsFinite DEF Rank
    <3>2. QED
      BY <3>1
  <2>3. QED
    BY <2>1, <2>2
<1>4. QED
  BY <1>3 DEF Bars!Latest

-----------------------------------------------------------------------------
(* Buckets *)

\* What remains of a division, whatever the sign.
LEMMA Remainder ==
    ASSUME NEW t \in Int
    PROVE  /\ t % Width \in 0..(Width - 1)
           /\ \E q \in Int : t = q * Width + (t % Width)
  BY WidthAssumption

LEMMA BucketFacts ==
    ASSUME NEW t \in Int
    PROVE  /\ Bars!Bucket(t) \in Int /\ Bars!Bucket(t) <= t
           /\ t - Bars!Bucket(t) \in 0..(Width - 1)
           /\ \E q \in Int : Bars!Bucket(t) = q * Width
<1>1. PICK q \in Int : t = q * Width + (t % Width)
  BY Remainder
<1>2. Width \in Nat /\ t % Width \in 0..(Width - 1)
  BY WidthAssumption, Remainder
<1>3. q * Width \in Int /\ t % Width \in Int
  BY <1>2
<1>4. \A x, y, z \in Int : x = y + z => x - z = y
  OBVIOUS
<1>5. Bars!Bucket(t) = q * Width
  BY <1>1, <1>3, <1>4 DEF Bars!Bucket
<1>6. \A x, y, z \in Int : x = y + z /\ z \in 0..(Width - 1) => y <= x /\ x - y \in 0..(Width - 1)
  BY <1>2
<1>7. QED
  BY <1>1, <1>2, <1>3, <1>5, <1>6

\* A multiple of the width is the only one within the width after it.
LEMMA MultiplesApart ==
    ASSUME NEW p \in Int, NEW q \in Int, q * Width <= p * Width + (Width - 1)
    PROVE  q <= p
<1>1. Width \in Nat /\ Width > 0
  BY WidthAssumption
<1>2. SUFFICES ASSUME q >= p + 1 PROVE FALSE
  OBVIOUS
<1>3. q * Width >= (p + 1) * Width
  BY <1>1, <1>2
<1>4. (p + 1) * Width = p * Width + Width
  BY <1>1
<1>5. p * Width \in Int /\ q * Width \in Int
  BY <1>1
<1>6. QED
  BY <1>1, <1>3, <1>4, <1>5

LEMMA BucketsAscend ==
    ASSUME NEW s \in Int, NEW t \in Int, s <= t
    PROVE  Bars!Bucket(s) <= Bars!Bucket(t)
<1>1. PICK p \in Int : Bars!Bucket(t) = p * Width
  BY BucketFacts
<1>2. PICK q \in Int : Bars!Bucket(s) = q * Width
  BY BucketFacts
<1>3. /\ t - p * Width \in 0..(Width - 1) /\ q * Width <= s
      /\ Width \in Nat /\ p * Width \in Int /\ q * Width \in Int
  BY <1>1, <1>2, BucketFacts, WidthAssumption
<1>4. q * Width <= p * Width + (Width - 1)
  BY <1>3
<1>5. q <= p
  BY <1>4, MultiplesApart
<1>6. q * Width <= p * Width
  BY <1>3, <1>5
<1>7. QED
  BY <1>1, <1>2, <1>6

LEMMA BucketOfBucket ==
    ASSUME NEW t \in Int
    PROVE  Bars!Bucket(Bars!Bucket(t)) = Bars!Bucket(t)
<1> DEFINE u == Bars!Bucket(t)
<1>1. u \in Int /\ Bars!Bucket(u) \in Int /\ Bars!Bucket(u) <= u
  BY BucketFacts
<1>2. PICK p \in Int : u = p * Width
  BY BucketFacts
<1>3. PICK q \in Int : Bars!Bucket(u) = q * Width
  BY <1>1, BucketFacts
<1>4. u - Bars!Bucket(u) \in 0..(Width - 1)
  BY <1>1, BucketFacts
<1>5. /\ Width \in Nat /\ p * Width \in Int /\ q * Width \in Int
      /\ p * Width <= q * Width + (Width - 1) /\ q * Width <= p * Width
  BY <1>1, <1>2, <1>3, <1>4, WidthAssumption
<1>6. p <= q
  BY <1>5, MultiplesApart
<1>7. p * Width <= q * Width
  BY <1>5, <1>6
<1>8. QED
  BY <1>2, <1>3, <1>5, <1>7

-----------------------------------------------------------------------------
(* One bar of each bucket *)

\* The bars of a bucket, and the last of them.
Of(S, u) == {b \in S : Bars!Bucket(b.at) = u}

\* Every bar is dated at the start of its bucket, which has no other.
Merged(S) ==
    /\ Chartable(S)
    /\ \A b \in S : Bars!Bucket(b.at) = b.at
    /\ \A a, b \in S : a.at = b.at => a = b

LEMMA BucketsOfBars ==
    ASSUME NEW S, Chartable(S)
    PROVE  /\ \A b \in S : Bars!Bucket(b.at) \in Bars!Buckets(S)
           /\ \A u \in Bars!Buckets(S) : u \in Int /\ Of(S, u) # {} /\ Chartable(Of(S, u))
           /\ IsFiniteSet(Bars!Buckets(S)) /\ Cardinality(Bars!Buckets(S)) <= Cardinality(S)
           /\ Cardinality(Bars!Buckets(S)) \in Nat
<1>1. \A b \in S : Bars!Bucket(b.at) \in Bars!Buckets(S)
  BY DEF Bars!Buckets
<1>2. ASSUME NEW u \in Bars!Buckets(S) PROVE u \in Int /\ Of(S, u) # {} /\ Chartable(Of(S, u))
  <2>1. PICK b \in S : u = Bars!Bucket(b.at)
    BY DEF Bars!Buckets
  <2>2. b \in Of(S, u) /\ b.at \in Int
    BY <2>1 DEF Of, Chartable, BarRecords
  <2>3. Of(S, u) \in SUBSET S
    BY DEF Of
  <2>4. QED
    BY <2>1, <2>2, <2>3, BucketFacts, FS_Subset DEF Chartable
<1> DEFINE f == [b \in S |-> Bars!Bucket(b.at)]
<1>3. f \in Surjection(S, Bars!Buckets(S))
  <2>1. f \in [S -> Bars!Buckets(S)]
    BY <1>1
  <2>2. ASSUME NEW u \in Bars!Buckets(S) PROVE \E b \in S : f[b] = u
    BY DEF Bars!Buckets
  <2>3. QED
    BY <2>1, <2>2, Fun_IsSurj
<1>4. IsFiniteSet(Bars!Buckets(S)) /\ Cardinality(Bars!Buckets(S)) <= Cardinality(S)
  BY <1>3, FS_Surjection DEF Chartable
<1>5. QED
  BY <1>1, <1>2, <1>4, FS_CardinalityType

\* What Deduplicate makes of the bars of a bucket.
BarOf(S, u) == Bars!Bar(u, Bars!Latest(Of(S, u)).id)

LEMMA DeduplicateKeeps ==
    ASSUME NEW S, Chartable(S)
    PROVE  Bars!Deduplicate(S) = {BarOf(S, u) : u \in Bars!Buckets(S)}
  BY DEF Bars!Deduplicate, BarOf, Of

LEMMA DeduplicateMerges ==
    ASSUME NEW S, Chartable(S)
    PROVE  /\ Merged(Bars!Deduplicate(S))
           /\ \A u \in Bars!Buckets(S) : \E d \in Bars!Deduplicate(S) : d.at = u
           /\ \A d \in Bars!Deduplicate(S) :
                 /\ d.at \in Bars!Buckets(S)
                 /\ \E b \in S : /\ b.id = d.id /\ Bars!Bucket(b.at) = d.at
                                 /\ \A o \in S \ {b} : Bars!Bucket(o.at) = d.at => Bars!Before(o, b)
           /\ Cardinality(Bars!Deduplicate(S)) = Cardinality(Bars!Buckets(S))
<1> DEFINE D == Bars!Deduplicate(S)
<1>1. D = {BarOf(S, u) : u \in Bars!Buckets(S)}
  BY DeduplicateKeeps
<1>2. ASSUME NEW u \in Bars!Buckets(S)
      PROVE  /\ BarOf(S, u) \in BarRecords /\ BarOf(S, u).at = u /\ Bars!Bucket(u) = u
             /\ \E b \in S : /\ b.id = BarOf(S, u).id /\ Bars!Bucket(b.at) = u
                             /\ \A o \in S \ {b} : Bars!Bucket(o.at) = u => Bars!Before(o, b)
  <2>1. u \in Int /\ Of(S, u) # {} /\ Chartable(Of(S, u))
    BY BucketsOfBars
  <2> DEFINE b == Bars!Latest(Of(S, u))
  <2>2. b \in Of(S, u) /\ \A o \in Of(S, u) \ {b} : Bars!Before(o, b)
    BY <2>1, LatestIsLast
  <2> HIDE DEF b
  <2>3. b \in S /\ b.id \in Int /\ b.at \in Int /\ Bars!Bucket(b.at) = u
    BY <2>2 DEF Of, Chartable, BarRecords
  <2>4. Bars!Bucket(u) = u
    BY <2>3, BucketOfBucket
  <2>5. BarOf(S, u) = [at |-> u, id |-> b.id]
    BY DEF BarOf, Bars!Bar, b
  <2>6. \A o \in S \ {b} : Bars!Bucket(o.at) = u => Bars!Before(o, b)
    BY <2>2 DEF Of
  <2>7. QED
    BY <2>1, <2>3, <2>4, <2>5, <2>6 DEF BarRecords
<1> HIDE DEF D
<1> DEFINE f == [u \in Bars!Buckets(S) |-> BarOf(S, u)]
<1>3. f \in Bijection(Bars!Buckets(S), D)
  <2>1. f \in [Bars!Buckets(S) -> D]
    BY <1>1
  <2>2. \A u, v \in Bars!Buckets(S) : f[u] = f[v] => u = v
    BY <1>2
  <2>3. \A d \in D : \E u \in Bars!Buckets(S) : f[u] = d
    BY <1>1
  <2>4. f \in Injection(Bars!Buckets(S), D) /\ f \in Surjection(Bars!Buckets(S), D)
    BY <2>1, <2>2, <2>3, Fun_IsInj, Fun_IsSurj
  <2>5. QED
    BY <2>4 DEF Bijection
<1>4. IsFiniteSet(D) /\ Cardinality(D) = Cardinality(Bars!Buckets(S))
  BY <1>3, BucketsOfBars, FS_Bijection DEF ExistsBijection
<1>5. Merged(D)
  <2>1. Chartable(D)
    BY <1>1, <1>2, <1>4 DEF Chartable
  <2>2. \A b \in D : Bars!Bucket(b.at) = b.at
    BY <1>1, <1>2
  <2>3. \A a, b \in D : a.at = b.at => a = b
    BY <1>1, <1>2
  <2>4. QED
    BY <2>1, <2>2, <2>3 DEF Merged
<1>6. \A u \in Bars!Buckets(S) : \E d \in D : d.at = u
  BY <1>1, <1>2
<1>7. ASSUME NEW d \in D
      PROVE  /\ d.at \in Bars!Buckets(S)
             /\ \E b \in S : /\ b.id = d.id /\ Bars!Bucket(b.at) = d.at
                             /\ \A o \in S \ {b} : Bars!Bucket(o.at) = d.at => Bars!Before(o, b)
  <2>1. PICK u \in Bars!Buckets(S) : d = BarOf(S, u)
    BY <1>1
  <2>2. d.at = u
    BY <1>2, <2>1
  <2>3. QED
    BY <1>2, <2>1, <2>2
<1>8. QED
  BY <1>4, <1>5, <1>6, <1>7 DEF D

\* Merging merged bars changes nothing.
LEMMA MergedIsMerged ==
    ASSUME NEW S, Merged(S)
    PROVE  Bars!Deduplicate(S) = S
<1>1. Chartable(S)
  BY DEF Merged
<1> DEFINE D == Bars!Deduplicate(S)
<1>2. /\ Merged(D)
      /\ \A u \in Bars!Buckets(S) : \E d \in D : d.at = u
      /\ \A d \in D : \E b \in S : b.id = d.id /\ Bars!Bucket(b.at) = d.at
  BY <1>1, DeduplicateMerges
<1> HIDE DEF D
<1>3. ASSUME NEW d \in D PROVE d \in S
  <2>1. PICK b \in S : b.id = d.id /\ Bars!Bucket(b.at) = d.at
    BY <1>2
  <2>2. b.at = d.at /\ b \in BarRecords /\ d \in BarRecords
    BY <1>2, <2>1 DEF Merged, Chartable
  <2>3. b = d
    BY <2>1, <2>2 DEF BarRecords
  <2>4. QED
    BY <2>3
<1>4. ASSUME NEW b \in S PROVE b \in D
  <2>1. b.at \in Bars!Buckets(S)
    BY <1>1, BucketsOfBars DEF Merged
  <2>2. PICK d \in D : d.at = b.at
    BY <1>2, <2>1
  <2>3. d = b
    BY <1>3, <2>2 DEF Merged
  <2>4. QED
    BY <2>3
<1>5. QED
  BY <1>3, <1>4 DEF D

LEMMA PartsAreMerged ==
    ASSUME NEW S, Merged(S), NEW T, T \subseteq S
    PROVE  Merged(T)
  BY FS_Subset DEF Merged, Chartable

-----------------------------------------------------------------------------
(* As many rows as a chart needs *)

Distinct(S) == \A a, b \in S : a.at = b.at => a = b

\* Rows of different instants: a bucket has no more of them than it has
\* instants.
LEMMA RowsOfBuckets ==
    ASSUME NEW S, Chartable(S), Distinct(S)
    PROVE  Cardinality(S) <= Cardinality(Bars!Buckets(S)) * Width
<1> DEFINE T == 0..(Width - 1)
           f == [b \in S |-> <<Bars!Bucket(b.at), b.at - Bars!Bucket(b.at)>>]
<1>1. IsFiniteSet(T) /\ Cardinality(T) = Width
  <2>1. Width \in Nat /\ Width > 0
    BY WidthAssumption
  <2>2. Cardinality(T) = IF 0 > Width - 1 THEN 0 ELSE (Width - 1) - 0 + 1
    BY <2>1, FS_Interval
  <2>3. QED
    BY <2>1, <2>2, FS_Interval
<1>2. IsFiniteSet(Bars!Buckets(S) \X T)
      /\ Cardinality(Bars!Buckets(S) \X T) = Cardinality(Bars!Buckets(S)) * Width
  BY <1>1, BucketsOfBars, FS_Product
<1>3. \A b \in S : /\ b.at \in Int /\ Bars!Bucket(b.at) \in Int
                   /\ Bars!Bucket(b.at) \in Bars!Buckets(S)
                   /\ b.at - Bars!Bucket(b.at) \in T
  BY BucketsOfBars, BucketFacts DEF Chartable, BarRecords
<1>4. f \in [S -> Bars!Buckets(S) \X T]
  BY <1>3
<1>5. \A a, b \in S : f[a] = f[b] => a = b
  <2> SUFFICES ASSUME NEW a \in S, NEW b \in S, f[a] = f[b] PROVE a = b
    OBVIOUS
  <2>1. Bars!Bucket(a.at) = Bars!Bucket(b.at)
        /\ a.at - Bars!Bucket(a.at) = b.at - Bars!Bucket(b.at)
    OBVIOUS
  <2>2. a.at = b.at
    BY <1>3, <2>1
  <2>3. QED
    BY <2>2 DEF Distinct
<1>6. f \in Injection(S, Bars!Buckets(S) \X T)
  BY <1>4, <1>5, Fun_IsInj
<1>7. QED
  BY <1>2, <1>6, FS_Injection

\* A bar of a chart is out of its limit when there are too many later buckets.
LEMMA ManyAfter ==
    ASSUME NEW X, Merged(X), NEW x \in X, NEW K, K \subseteq Int,
           \A u \in K : u > x.at /\ \E d \in X : d.at = u
    PROVE  Cardinality(K) <= Rank(X)[x]
<1> DEFINE f == [u \in K |-> CHOOSE d \in X : d.at = u]
<1>1. \A u \in K : f[u] \in X /\ f[u].at = u
  OBVIOUS
<1> HIDE DEF f
<1>2. f \in [K -> After(X, x)]
  <2>1. \A u \in K : f[u] \in After(X, x)
    BY <1>1 DEF After, Bars!Before, Merged, Chartable, BarRecords
  <2>2. QED
    BY <2>1 DEF f
<1>3. f \in Injection(K, After(X, x))
  BY <1>1, <1>2, Fun_IsInj
<1>4. IsFiniteSet(After(X, x))
  BY AfterIsFinite DEF Merged
<1>5. Cardinality(K) <= Cardinality(After(X, x))
  BY <1>3, <1>4, FS_Injection
<1>6. QED
  BY <1>5 DEF Rank

\* Bars of the buckets that two sets have in common from an instant on.
LEMMA SameFrom ==
    ASSUME NEW S, Chartable(S), NEW F, Chartable(F), F \subseteq S, NEW v \in Int,
           \A r \in S : Bars!Bucket(r.at) > v => r \in F
    PROVE  \A x : x.at > v => (x \in Bars!Deduplicate(S) <=> x \in Bars!Deduplicate(F))
<1>1. ASSUME NEW u \in Int, u > v
      PROVE  Of(S, u) = Of(F, u) /\ (u \in Bars!Buckets(S) <=> u \in Bars!Buckets(F))
  <2>1. Of(S, u) = Of(F, u)
    BY <1>1 DEF Of
  <2>2. u \in Bars!Buckets(S) <=> Of(S, u) # {}
    BY BucketsOfBars DEF Of, Bars!Buckets
  <2>3. u \in Bars!Buckets(F) <=> Of(F, u) # {}
    BY BucketsOfBars DEF Of, Bars!Buckets
  <2>4. QED
    BY <2>1, <2>2, <2>3
<1>2. \A u \in Int : u > v => BarOf(S, u) = BarOf(F, u)
  BY <1>1 DEF BarOf
<1>3. Bars!Deduplicate(S) = {BarOf(S, u) : u \in Bars!Buckets(S)}
      /\ Bars!Deduplicate(F) = {BarOf(F, u) : u \in Bars!Buckets(F)}
  BY DeduplicateKeeps
<1>4. /\ \A u \in Bars!Buckets(S) : u \in Int /\ BarOf(S, u).at = u
      /\ \A u \in Bars!Buckets(F) : u \in Int /\ BarOf(F, u).at = u
  BY BucketsOfBars DEF BarOf, Bars!Bar
<1>5. QED
  BY <1>1, <1>2, <1>3, <1>4

\* The rows that are read make the same chart as all that are stored.
LEMMA ReadsEnough ==
    ASSUME NEW S, Chartable(S), Distinct(S)
    PROVE  Bars!Chart(S) = Bars!Newest(BarsShown, Bars!Deduplicate(S))
<1> DEFINE N == Bars!Min({BarsShown * 8, 1000})
           F == Bars!Newest(N, S)
           D == Bars!Deduplicate(S)
           E == Bars!Deduplicate(F)
<1>1. N \in Nat /\ BarsShown * Width <= N /\ BarsShown \in Nat
  BY LimitAssumption, SmallerOf
<1>2. Bars!Chart(S) = Bars!Newest(BarsShown, E)
  BY DEF Bars!Chart, Bars!Fetched
<1> HIDE DEF N
<1>3. Chartable(F) /\ F \subseteq S /\ \A b \in S : b \in F <=> Rank(S)[b] < N
  BY <1>1, NewestCounts
<1> HIDE DEF F
<1>4. CASE F = S
  BY <1>2, <1>4
<1>5. CASE F # S
  <2>1. Chartable(S \ F) /\ S \ F # {}
    <3>1. (S \ F) \in SUBSET S
      OBVIOUS
    <3>2. QED
      BY <1>3, <1>5, <3>1, FS_Subset DEF Chartable
  <2> DEFINE b == Bars!Latest(S \ F)
             v == Bars!Bucket(b.at)
             K == {u \in Bars!Buckets(S) : u > v}
  <2>2. b \in S \ F /\ \A r \in (S \ F) \ {b} : Bars!Before(r, b)
    BY <2>1, LatestIsLast
  <2> HIDE DEF b
  <2>3. b.at \in Int /\ v \in Int
    BY <2>2, BucketFacts DEF Chartable, BarRecords
  <2>4. ASSUME NEW r \in S, Bars!Bucket(r.at) > v PROVE r \in F
    <3>1. r.at \in Int /\ Bars!Bucket(r.at) \in Int
      BY BucketFacts DEF Chartable, BarRecords
    <3>2. ~ (r.at <= b.at)
      BY <2>3, <2>4, <3>1, BucketsAscend
    <3>3. r # b /\ ~ Bars!Before(r, b)
      BY <2>3, <3>1, <3>2 DEF Bars!Before
    <3>4. QED
      BY <2>2, <3>3
  <2>5. IsFiniteSet(K) /\ Cardinality(K) \in Nat /\ K \subseteq Int
    <3>1. K \in SUBSET Bars!Buckets(S)
      OBVIOUS
    <3>2. QED
      BY <3>1, BucketsOfBars, FS_Subset, FS_CardinalityType
  <2>6. Cardinality(K) >= BarsShown
    <3> DEFINE R == After(S, b) \cup {b}
    <3>1. /\ IsFiniteSet(R) /\ Cardinality(R) = Cardinality(After(S, b)) + 1
          /\ Cardinality(After(S, b)) \in Nat
      <4>1. b \in S /\ b \in BarRecords
        BY <2>2 DEF Chartable
      <4>2. IsFiniteSet(After(S, b)) /\ Cardinality(After(S, b)) \in Nat
        BY <4>1, AfterIsFinite
      <4>3. b \notin After(S, b)
        BY <4>1, BeforeOrders DEF After
      <4>4. QED
        BY <4>2, <4>3, FS_AddElement
    <3>2. Cardinality(After(S, b)) >= N
      BY <1>1, <1>3, <2>2, <3>1 DEF Rank
    <3>3. Chartable(R) /\ Distinct(R)
      BY <2>2, <3>1 DEF Chartable, Distinct, After
    <3>4. Bars!Buckets(R) \in SUBSET (K \cup {v})
      <4> SUFFICES ASSUME NEW r \in R PROVE Bars!Bucket(r.at) \in K \cup {v}
        BY DEF Bars!Buckets
      <4>1. r \in S /\ r.at \in Int /\ b.at <= r.at
        BY <2>2, <2>3 DEF After, Bars!Before, Chartable, BarRecords
      <4>2. v <= Bars!Bucket(r.at) /\ Bars!Bucket(r.at) \in Int
        BY <2>3, <4>1, BucketsAscend, BucketFacts
      <4>3. QED
        BY <2>3, <4>1, <4>2, BucketsOfBars
    <3>5. Cardinality(Bars!Buckets(R)) <= Cardinality(K) + 1
      <4>0. /\ IsFiniteSet(K \cup {v})
            /\ Cardinality(K \cup {v}) = IF v \in K THEN Cardinality(K)
                                         ELSE Cardinality(K) + 1
        <5> HIDE DEF K, v
        <5>1. QED
          BY <2>5, FS_AddElement
      <4>1. IsFiniteSet(K \cup {v}) /\ Cardinality(K \cup {v}) <= Cardinality(K) + 1
        <5> HIDE DEF K, v
        <5>1. QED
          BY <2>5, <4>0
      <4>2. Cardinality(Bars!Buckets(R)) <= Cardinality(K \cup {v})
        BY <3>4, <4>1, FS_Subset
      <4>3. Cardinality(Bars!Buckets(R)) \in Nat /\ Cardinality(K \cup {v}) \in Nat
        BY <3>3, <4>1, BucketsOfBars, FS_CardinalityType
      <4>4. QED
        BY <2>5, <4>1, <4>2, <4>3
    <3>6. Cardinality(R) <= Cardinality(Bars!Buckets(R)) * Width
      BY <3>3, RowsOfBuckets
    <3>7. Cardinality(Bars!Buckets(R)) \in Nat
      BY <3>3, BucketsOfBars
    <3>8. \A m, n \in Nat : m <= n => m * Width <= n * Width
      BY WidthAssumption
    <3>9. ~ (Cardinality(Bars!Buckets(R)) <= BarsShown)
      <4>1. SUFFICES ASSUME Cardinality(Bars!Buckets(R)) <= BarsShown PROVE FALSE
        OBVIOUS
      <4>2. Cardinality(Bars!Buckets(R)) * Width <= BarsShown * Width
        BY <1>1, <3>7, <3>8, <4>1
      <4>3. Cardinality(Bars!Buckets(R)) * Width \in Nat /\ BarsShown * Width \in Nat
        BY <1>1, <3>7, WidthAssumption
      <4>4. QED
        BY <1>1, <3>1, <3>2, <3>6, <4>2, <4>3
    <3>10. QED
      BY <1>1, <2>5, <3>5, <3>7, <3>9
  <2>7. Merged(D) /\ Merged(E)
    BY <1>3, DeduplicateMerges
  <2>8. \A u \in K : u \in Bars!Buckets(S) /\ u \in Bars!Buckets(F)
    BY <2>4 DEF Bars!Buckets
  <2>9. \A u \in K : (\E d \in D : d.at = u) /\ (\E d \in E : d.at = u)
    BY <1>3, <2>8, DeduplicateMerges
  <2>10. ASSUME NEW X \in {D, E}, NEW x \in X, Rank(X)[x] < BarsShown PROVE x.at > v
    <3>1. Merged(X) /\ \A u \in K : \E d \in X : d.at = u
      BY <2>7, <2>9
    <3>2. x.at \in Int /\ Rank(X)[x] \in Nat
      BY <3>1, AfterIsFinite DEF Merged, Chartable, BarRecords, Rank
    <3>3. SUFFICES ASSUME x.at <= v PROVE FALSE
      BY <2>3, <3>2
    <3>4. \A u \in K : u > x.at
      BY <2>3, <2>5, <3>2, <3>3
    <3>5. Cardinality(K) <= Rank(X)[x]
      BY <2>5, <3>1, <3>4, ManyAfter
    <3>6. QED
      BY <1>1, <2>5, <2>6, <2>10, <3>2, <3>5
  <2>11. \A x : x.at > v => (x \in D <=> x \in E)
    BY <1>3, <2>3, <2>4, SameFrom
  <2> HIDE DEF D, E, K, v
  <2>12. ASSUME NEW x, x \in D, x \in E, x.at > v PROVE Rank(D)[x] = Rank(E)[x]
    <3>1. After(D, x) = After(E, x)
      <4>1. \A o \in D \cup E : Bars!Before(x, o) => o.at > v
        BY <2>3, <2>7, <2>12 DEF Bars!Before, Merged, Chartable, BarRecords
      <4>2. QED
        BY <2>11, <4>1 DEF After
    <3>2. QED
      BY <2>12, <3>1 DEF Rank
  <2>13. ASSUME NEW x PROVE x \in Bars!Newest(BarsShown, D) <=> x \in Bars!Newest(BarsShown, E)
    <3>1. /\ \A d \in D : d \in Bars!Newest(BarsShown, D) <=> Rank(D)[d] < BarsShown
          /\ \A d \in E : d \in Bars!Newest(BarsShown, E) <=> Rank(E)[d] < BarsShown
          /\ Bars!Newest(BarsShown, D) \subseteq D /\ Bars!Newest(BarsShown, E) \subseteq E
      BY <1>1, <2>7, NewestCounts DEF Merged
    <3>2. QED
      BY <2>10, <2>11, <2>12, <3>1
  <2>14. Bars!Newest(BarsShown, D) = Bars!Newest(BarsShown, E)
    BY <2>13
  <2>15. QED
    BY <1>2, <2>14 DEF D
<1>6. QED
  BY <1>4, <1>5

-----------------------------------------------------------------------------
(* What is stored and what is shown *)

\* As many bars as there are numbers for them.
LEMMA NumberedBars ==
    ASSUME NEW T, IsFiniteSet(T), NEW f, \A t \in T : f[t] \in BarRecords
    PROVE  /\ Chartable({f[t] : t \in T})
           /\ Cardinality({f[t] : t \in T}) <= Cardinality(T)
<1> DEFINE B == {f[t] : t \in T}
           g == [t \in T |-> f[t]]
<1>1. B \subseteq BarRecords
  OBVIOUS
<1>2. g \in Surjection(T, B)
  <2>1. g \in [T -> B]
    OBVIOUS
  <2>2. \A b \in B : \E t \in T : g[t] = b
    OBVIOUS
  <2> HIDE DEF B, g
  <2>3. QED
    BY <2>1, <2>2, Fun_IsSurj
<1> HIDE DEF B, g
<1>3. IsFiniteSet(B) /\ Cardinality(B) <= Cardinality(T)
  BY <1>2, FS_Surjection
<1>4. Chartable(B) /\ Cardinality(B) <= Cardinality(T)
  BY <1>1, <1>3 DEF Chartable
<1>5. QED
  BY <1>4 DEF B

\* The rows of an answer of KIS, by their place in it.
LEMMA RowsAreChartable ==
    ASSUME NEW n \in 0..MaxRows, NEW at, at \in [1..n -> Bars!Instants]
    PROVE  Chartable({Bars!Bar(at[i], i) : i \in 1..n})
<1> DEFINE f == [i \in 1..n |-> Bars!Bar(at[i], i)]
<1>1. IsFiniteSet(1..n)
  BY FS_Interval
<1>2. \A i \in 1..n : f[i] \in BarRecords
  BY DEF Bars!Bar, Bars!Instants, BarRecords
<1>3. {f[i] : i \in 1..n} = {Bars!Bar(at[i], i) : i \in 1..n}
  OBVIOUS
<1> HIDE DEF f
<1>4. Chartable({f[i] : i \in 1..n})
  BY <1>1, <1>2, NumberedBars
<1>5. QED
  BY <1>3, <1>4

\* What an older version wrote.
LEMMA WrittenIsChartable ==
    ASSUME NEW written \in SUBSET Bars!Instants
    PROVE  /\ Chartable({Bars!Bar(t, t) : t \in written})
           /\ Distinct({Bars!Bar(t, t) : t \in written})
<1> DEFINE f == [t \in written |-> Bars!Bar(t, t)]
<1>1. IsFiniteSet(written)
  <2>1. IsFiniteSet(0..LastInstant)
    BY InstantsAssumption, FS_Interval
  <2>2. QED
    BY <2>1, FS_Subset DEF Bars!Instants
<1>2. \A t \in written : f[t] \in BarRecords
  BY DEF Bars!Bar, Bars!Instants, BarRecords
<1>3. {f[t] : t \in written} = {Bars!Bar(t, t) : t \in written}
  OBVIOUS
<1>4. Distinct({Bars!Bar(t, t) : t \in written})
  BY DEF Bars!Bar, Distinct
<1> HIDE DEF f
<1>5. Chartable({f[t] : t \in written})
  BY <1>1, <1>2, NumberedBars
<1>6. QED
  BY <1>3, <1>4, <1>5

\* The local provider has no more bars than a chart.
LEMMA LocalBarsAreFew ==
    Chartable(Bars!LocalBars) /\ Cardinality(Bars!LocalBars) <= BarsShown
<1> DEFINE T == 0..(BarsShown - 1)
           f == [i \in T |-> Bars!Bar(Bars!Bucket(LastInstant) - i * Width, i)]
<1>1. BarsShown \in Nat
  BY LimitAssumption
<1>2. IsFiniteSet(T) /\ Cardinality(T) <= BarsShown
  <2>1. /\ IsFiniteSet(0..(BarsShown - 1))
        /\ Cardinality(0..(BarsShown - 1)) =
             IF 0 > BarsShown - 1 THEN 0 ELSE (BarsShown - 1) - 0 + 1
    BY <1>1, FS_Interval
  <2>2. QED
    BY <1>1, <2>1
<1>3. \A i \in T : f[i] \in BarRecords
  <2>1. Bars!Bucket(LastInstant) \in Int
    BY InstantsAssumption, BucketFacts
  <2>2. \A i \in T : i \in Int /\ Bars!Bucket(LastInstant) - i * Width \in Int
    BY <2>1, WidthAssumption
  <2>3. QED
    BY <2>2 DEF Bars!Bar, BarRecords
<1>4. {f[i] : i \in T} = Bars!LocalBars
  BY DEF Bars!LocalBars
<1> HIDE DEF f, T
<1>5. Chartable({f[i] : i \in T}) /\ Cardinality({f[i] : i \in T}) <= Cardinality(T)
  BY <1>2, <1>3, NumberedBars
<1>6. Cardinality({f[i] : i \in T}) \in Nat /\ Cardinality(T) \in Nat
  BY <1>2, <1>5, FS_CardinalityType DEF Chartable
<1>7. Cardinality({f[i] : i \in T}) <= BarsShown
  BY <1>1, <1>2, <1>5, <1>6
<1>8. QED
  BY <1>4, <1>5, <1>7

\* The repair leaves what Deduplicate would.
LEMMA RepairMerges ==
    ASSUME NEW S, Chartable(S)
    PROVE  Bars!Repaired(S) = Bars!Deduplicate(S)
<1> DEFINE Dup == {b \in S : \E o \in S : Bars!Bucket(o.at) = Bars!Bucket(b.at)
                                          /\ Bars!Before(b, o)}
<1>1. Bars!Repaired(S) = {Bars!Bar(Bars!Bucket(b.at), b.id) : b \in S \ Dup}
  BY DEF Bars!Repaired
<1>2. Bars!Deduplicate(S) = {BarOf(S, u) : u \in Bars!Buckets(S)}
  BY DeduplicateKeeps
<1>3. ASSUME NEW b \in S, NEW u, u = Bars!Bucket(b.at)
      PROVE  b \notin Dup <=> b = Bars!Latest(Of(S, u))
  <2>1. u \in Bars!Buckets(S) /\ b \in Of(S, u)
    BY <1>3, BucketsOfBars DEF Of
  <2> DEFINE l == Bars!Latest(Of(S, u))
  <2>2. l \in Of(S, u) /\ \A o \in Of(S, u) \ {l} : Bars!Before(o, l)
    BY <2>1, BucketsOfBars, LatestIsLast
  <2> HIDE DEF l
  <2>3. l \in S /\ Bars!Bucket(l.at) = Bars!Bucket(b.at)
    BY <1>3, <2>2 DEF Of
  <2>4. ASSUME b # l PROVE b \in Dup
    BY <2>1, <2>2, <2>3, <2>4
  <2>5. ASSUME b = l, b \in Dup PROVE FALSE
    <3>1. PICK o \in S : Bars!Bucket(o.at) = u /\ Bars!Before(b, o)
      BY <1>3, <2>5
    <3>2. o \in Of(S, u) /\ o \in BarRecords /\ b \in BarRecords
      BY <3>1 DEF Of, Chartable
    <3>3. o # b
      BY <3>1, <3>2, BeforeOrders
    <3>4. Bars!Before(o, b)
      BY <2>2, <2>5, <3>2, <3>3
    <3>5. QED
      BY <3>1, <3>2, <3>4, BeforeOrders
  <2>6. QED
    BY <2>4, <2>5 DEF l
<1> HIDE DEF Dup
<1>4. ASSUME NEW u \in Bars!Buckets(S)
      PROVE  \E b \in S \ Dup : BarOf(S, u) = Bars!Bar(Bars!Bucket(b.at), b.id)
  <2> DEFINE b == Bars!Latest(Of(S, u))
  <2>1. b \in Of(S, u)
    BY <1>4, BucketsOfBars, LatestIsLast
  <2>2. b \in S /\ u = Bars!Bucket(b.at)
    BY <2>1 DEF Of
  <2>3. b \notin Dup
    BY <1>3, <2>2
  <2>4. BarOf(S, u) = Bars!Bar(Bars!Bucket(b.at), b.id)
    BY <2>2 DEF BarOf
  <2>5. QED
    BY <2>2, <2>3, <2>4
<1>5. ASSUME NEW b \in S \ Dup
      PROVE  \E u \in Bars!Buckets(S) : BarOf(S, u) = Bars!Bar(Bars!Bucket(b.at), b.id)
  <2> DEFINE u == Bars!Bucket(b.at)
  <2>1. u \in Bars!Buckets(S)
    BY BucketsOfBars
  <2>2. b = Bars!Latest(Of(S, u))
    BY <1>3
  <2>3. BarOf(S, u) = Bars!Bar(u, b.id)
    BY <2>2 DEF BarOf
  <2>4. QED
    BY <2>1, <2>3
<1>6. QED
  BY <1>1, <1>2, <1>4, <1>5

\* Merged bars that fit in a chart are not changed by anything that is done to
\* them.
LEMMA FewAreKept ==
    ASSUME NEW M, Merged(M), Cardinality(M) <= BarsShown
    PROVE  /\ Bars!Deduplicate(M) = M /\ Bars!Chart(M) = M
           /\ Bars!Newest(BarsShown, M) = M
<1>1. Chartable(M) /\ Distinct(M) /\ BarsShown \in Nat
  BY LimitAssumption DEF Merged, Distinct
<1>2. Bars!Deduplicate(M) = M
  BY MergedIsMerged
<1>3. Bars!Newest(BarsShown, M) = M
  BY <1>1, NewestIsAll
<1>4. Bars!Chart(M) = Bars!Newest(BarsShown, Bars!Deduplicate(M))
  BY <1>1, ReadsEnough
<1>5. QED
  BY <1>2, <1>3, <1>4

\* Rows are stored at different instants, and the chart that was answered last
\* is the newest buckets of the rows it was made from.
BarsInv ==
    /\ Chartable(storedBars) /\ Distinct(storedBars)
    /\ Chartable(basis)
    /\ shown = Bars!Newest(BarsShown, Bars!Deduplicate(basis))

LEMMA BarsInit == Bars!Init => BarsInv
<1> SUFFICES ASSUME Bars!Init PROVE BarsInv
  OBVIOUS
<1>1. PICK written \in SUBSET Bars!Instants :
         storedBars = {Bars!Bar(t, t) : t \in written}
  BY DEF Bars!Init
<1>2. Chartable(storedBars) /\ Distinct(storedBars)
  BY <1>1, WrittenIsChartable
<1>3. basis = {} /\ shown = {} /\ Chartable(basis)
  BY FS_EmptySet DEF Bars!Init, Chartable
<1>4. Bars!Newest(BarsShown, Bars!Deduplicate({})) = {}
  BY DEF Bars!Newest, Bars!Deduplicate, Bars!Buckets
<1>5. QED
  BY <1>2, <1>3, <1>4 DEF BarsInv

LEMMA BarsKept == BarsInv /\ UNCHANGED barVars => BarsInv'
  BY DEF BarsInv, barVars, Bars!Bar

LEMMA BarsStep == BarsInv /\ Bars!Next => BarsInv'
<1> SUFFICES ASSUME BarsInv, Bars!Next PROVE BarsInv'
  OBVIOUS
<1>0. /\ Chartable(storedBars) /\ Distinct(storedBars) /\ Chartable(basis)
      /\ shown = Bars!Newest(BarsShown, Bars!Deduplicate(basis))
      /\ BarsShown \in Nat
  BY LimitAssumption DEF BarsInv
<1> SUFFICES /\ Chartable(storedBars') /\ Distinct(storedBars') /\ Chartable(basis')
             /\ shown' = Bars!Newest(BarsShown, Bars!Deduplicate(basis'))
  BY DEF BarsInv
<1>1. CASE Bars!SyncInstruments
  BY <1>0, <1>1 DEF Bars!SyncInstruments
<1>2. CASE Bars!ShowStored
  <2>1. storedBars' = storedBars /\ basis' = storedBars /\ shown' = Bars!Chart(storedBars)
    BY <1>2 DEF Bars!ShowStored, Bars!Show
  <2>2. QED
    BY <1>0, <2>1, ReadsEnough
<1>3. ASSUME NEW rows, Chartable(rows), basis' = rows, NEW M, Merged(M),
             Cardinality(M) <= BarsShown, storedBars' = M,
             shown' = Bars!Deduplicate(Bars!Chart(M)),
             Bars!Newest(BarsShown, Bars!Deduplicate(rows)) = M
      PROVE  /\ Chartable(storedBars') /\ Distinct(storedBars') /\ Chartable(basis')
             /\ shown' = Bars!Newest(BarsShown, Bars!Deduplicate(basis'))
  BY <1>3, FewAreKept DEF Merged, Distinct
<1>4. CASE Bars!RefreshFromKis
  <2>0. PICK n \in 0..MaxRows : \E at \in [1..n -> Bars!Instants] :
           /\ Bars!Replace(Bars!KisBars({Bars!Bar(at[i], i) : i \in 1..n}))
           /\ basis' = {Bars!Bar(at[i], i) : i \in 1..n}
    BY <1>4 DEF Bars!RefreshFromKis
  <2>1. PICK at \in [1..n -> Bars!Instants] :
           /\ Bars!Replace(Bars!KisBars({Bars!Bar(at[i], i) : i \in 1..n}))
           /\ basis' = {Bars!Bar(at[i], i) : i \in 1..n}
    BY <2>0
  <2> DEFINE rows == {Bars!Bar(at[i], i) : i \in 1..n}
             M == Bars!Newest(BarsShown, Bars!Deduplicate(rows))
  <2>2. Chartable(rows)
    BY RowsAreChartable
  <2> HIDE DEF rows
  <2>3. Merged(Bars!Deduplicate(rows))
    BY <2>2, DeduplicateMerges
  <2>4. Chartable(Bars!Deduplicate(rows)) /\ Cardinality(Bars!Deduplicate(rows)) \in Nat
    BY <2>3, FS_CardinalityType DEF Merged, Chartable
  <2>5. /\ M \subseteq Bars!Deduplicate(rows)
        /\ Cardinality(M) = Bars!Min({BarsShown, Cardinality(Bars!Deduplicate(rows))})
    BY <1>0, <2>4, NewestCounts
  <2>6. Merged(M) /\ Cardinality(M) <= BarsShown
    BY <1>0, <2>3, <2>4, <2>5, PartsAreMerged, SmallerOf
  <2>7. storedBars' = Bars!Deduplicate(M) /\ shown' = Bars!Deduplicate(Bars!Chart(storedBars'))
        /\ basis' = rows
    BY <2>1 DEF Bars!Replace, Bars!KisBars, rows
  <2>8. storedBars' = M
    BY <2>6, <2>7, MergedIsMerged
  <2>9. M = Bars!Newest(BarsShown, Bars!Deduplicate(rows))
    OBVIOUS
  <2> HIDE DEF M
  <2>10. QED
    BY <1>3, <2>2, <2>6, <2>7, <2>8, <2>9
<1>5. CASE Bars!RefreshFromLocal
  <2> DEFINE M == Bars!Deduplicate(Bars!LocalBars)
  <2>1. /\ storedBars' = M /\ shown' = Bars!Deduplicate(Bars!Chart(storedBars'))
        /\ basis' = Bars!LocalBars
    BY <1>5 DEF Bars!RefreshFromLocal, Bars!Replace
  <2>2. Chartable(Bars!LocalBars) /\ Cardinality(Bars!LocalBars) <= BarsShown
    BY LocalBarsAreFew
  <2>3. /\ Merged(M) /\ Cardinality(M) = Cardinality(Bars!Buckets(Bars!LocalBars))
        /\ Cardinality(Bars!Buckets(Bars!LocalBars)) <= Cardinality(Bars!LocalBars)
        /\ Cardinality(Bars!Buckets(Bars!LocalBars)) \in Nat
        /\ Cardinality(Bars!LocalBars) \in Nat
    BY <2>2, DeduplicateMerges, BucketsOfBars, FS_CardinalityType DEF Chartable
  <2>4. Cardinality(M) <= BarsShown
    BY <1>0, <2>2, <2>3
  <2>5. Bars!Newest(BarsShown, M) = M
    BY <2>3, <2>4, FewAreKept
  <2>6. Bars!Newest(BarsShown, Bars!Deduplicate(Bars!LocalBars)) = M
    BY <2>5
  <2> HIDE DEF M
  <2>7. QED
    BY <1>3, <2>1, <2>2, <2>3, <2>4, <2>6
<1>6. CASE Bars!Repair
  <2>1. storedBars' = Bars!Deduplicate(storedBars) /\ shown' = shown /\ basis' = basis
    BY <1>0, <1>6, RepairMerges DEF Bars!Repair
  <2>2. Merged(Bars!Deduplicate(storedBars))
    BY <1>0, DeduplicateMerges
  <2>3. QED
    BY <1>0, <2>1, <2>2 DEF Merged, Distinct
<1>7. QED
  BY <1>1, <1>2, <1>4, <1>5, <1>6 DEF Bars!Next

LEMMA BarsAlways == PlatformSpec => []BarsInv
<1>1. PlatformInit => BarsInv
  BY BarsInit DEF PlatformInit
<1>2. BarsInv /\ [PlatformNext]_platformVars => BarsInv'
  BY Frame, BarsStep, BarsKept
<1>3. QED
  BY <1>1, <1>2, PTL DEF PlatformSpec

LEMMA NewestOfAll == BarsInv => ChartIsNewest
<1> SUFFICES ASSUME BarsInv PROVE ChartIsNewest
  OBVIOUS
<1> DEFINE D == Bars!Deduplicate(basis)
<1>1. /\ Chartable(storedBars) /\ Distinct(storedBars) /\ Chartable(basis)
      /\ shown = Bars!Newest(BarsShown, D) /\ BarsShown \in Nat
  BY LimitAssumption DEF BarsInv
<1>2. /\ Merged(D)
      /\ \A u \in Bars!Buckets(basis) : \E d \in D : d.at = u
      /\ \A d \in D :
            /\ d.at \in Bars!Buckets(basis)
            /\ \E b \in basis : /\ b.id = d.id /\ Bars!Bucket(b.at) = d.at
                                /\ \A o \in basis \ {b} :
                                      Bars!Bucket(o.at) = d.at => Bars!Before(o, b)
      /\ Cardinality(D) = Cardinality(Bars!Buckets(basis))
  BY <1>1, DeduplicateMerges
<1> HIDE DEF D
<1>3. Chartable(D)
  BY <1>2 DEF Merged
<1>4. /\ shown \subseteq D
      /\ Cardinality(shown) = Bars!Min({BarsShown, Cardinality(D)})
      /\ \A d \in D : d \in shown <=> Rank(D)[d] < BarsShown
  BY <1>1, <1>3, NewestCounts
<1>5. Bars!Cardinality(shown) = Bars!Min({BarsShown, Bars!Cardinality(Bars!Buckets(basis))})
  BY <1>2, <1>4, CountsAlike
<1>6. \A c \in shown :
         \E b \in basis :
            /\ b.id = c.id /\ Bars!Bucket(b.at) = c.at
            /\ \A o \in basis \ {b} : Bars!Bucket(o.at) = c.at => Bars!Before(o, b)
  BY <1>2, <1>4
<1>7. ASSUME NEW u \in Bars!Buckets(basis), NEW c \in shown, u > c.at
      PROVE  \E d \in shown : d.at = u
  <2>1. PICK d \in D : d.at = u
    BY <1>2
  <2>2. c \in D /\ Bars!Before(c, d)
    BY <1>4, <1>7, <2>1 DEF Bars!Before
  <2>3. Rank(D)[d] < Rank(D)[c] /\ Rank(D)[c] < BarsShown
    BY <1>3, <1>4, <2>2, LaterRanksLower
  <2>4. Rank(D)[d] \in Nat /\ Rank(D)[c] \in Nat
    BY <1>3, <2>2, AfterIsFinite DEF Rank
  <2>5. d \in shown
    BY <1>1, <1>4, <2>3, <2>4
  <2>6. QED
    BY <2>1, <2>5
<1>8. Bars!Chart(Bars!Repaired(storedBars)) = Bars!Chart(storedBars)
  <2> DEFINE M == Bars!Deduplicate(storedBars)
  <2>1. Merged(M)
    BY <1>1, DeduplicateMerges
  <2>2. Bars!Repaired(storedBars) = M
    BY <1>1, RepairMerges
  <2>3. Bars!Chart(storedBars) = Bars!Newest(BarsShown, M)
    BY <1>1, ReadsEnough
  <2> HIDE DEF M
  <2>4. Bars!Chart(M) = Bars!Newest(BarsShown, Bars!Deduplicate(M))
    BY <2>1, ReadsEnough DEF Merged, Distinct
  <2>5. QED
    BY <2>1, <2>2, <2>3, <2>4, MergedIsMerged
<1>9. QED
  BY <1>5, <1>6, <1>7, <1>8 DEF ChartIsNewest, Bars!ChartIsNewest

\* A chart shows the newest buckets there are, and of each the bar that came
\* last, for every number of bars a provider answers, and the repair of what
\* older versions stored changes no chart (bars, refreshBars, listBars,
\* replaceBars, market-repair-local-bars-cli).
THEOREM ChartsAreNewest == PlatformSpec => []ChartIsNewest
  BY BarsAlways, NewestOfAll, PTL

-----------------------------------------------------------------------------
(* Sums of stored assets *)

\* A finite set of numbers has a largest one: the bar that is the latest, were
\* the numbers instants.
LEMMA LargestOf ==
    ASSUME NEW S, IsFiniteSet(S), S # {}, S \subseteq Int
    PROVE  \E x \in S : \A y \in S : y <= x
<1> DEFINE f == [x \in S |-> Bars!Bar(x, 0)]
           B == {f[x] : x \in S}
<1>1. /\ \A x \in S : f[x].at = x /\ f[x].id = 0
      /\ B \subseteq BarRecords
  BY DEF Bars!Bar, BarRecords
<1>2. f \in Surjection(S, B)
  BY DEF Surjection
<1>3. IsFiniteSet(B)
  BY <1>2, FS_Surjection
<1>4. PICK s \in S : TRUE
  OBVIOUS
<1>5. f[s] \in B
  BY <1>4
<1> HIDE DEF f
<1>6. PICK b \in B : \A o \in B \ {b} : Bars!Before(o, b)
  BY <1>1, <1>3, <1>5, LatestIsLast DEF Chartable
<1>7. PICK x \in S : b = f[x]
  BY <1>6
<1>8. ASSUME NEW y \in S PROVE y <= x
  <2>1. f[y] \in B /\ f[y].at = y /\ f[x].at = x
    BY <1>1, <1>7
  <2>2. CASE f[y] = f[x]
    BY <2>1, <2>2
  <2>3. CASE f[y] # f[x]
    <3>1. Bars!Before(f[y], f[x])
      BY <1>6, <1>7, <2>1, <2>3
    <3>2. QED
      BY <2>1, <3>1 DEF Bars!Before
  <2>4. QED
    BY <2>2, <2>3
<1>9. QED
  BY <1>7, <1>8

\* A function on a finite set whose values are whole numbers.
Summable(f) == IsFiniteSet(DOMAIN f) /\ \A x \in DOMAIN f : f[x] \in Nat

LEMMA SumCounts == ASSUME NEW f PROVE Assets!SumOf(f) = Cardinality(Assets!Units(f))
  BY DEF Assets!SumOf, Assets!Cardinality, Cardinality

\* A set that is the image of a finite one.
LEMMA ImageIsFinite ==
    ASSUME NEW S, IsFiniteSet(S), NEW f
    PROVE  IsFiniteSet({f[x] : x \in S})
<1> DEFINE T == {f[x] : x \in S}
           g == [x \in S |-> f[x]]
<1>1. g \in [S -> T]
  OBVIOUS
<1>2. \A y \in T : \E x \in S : g[x] = y
  OBVIOUS
<1> HIDE DEF T, g
<1>3. g \in Surjection(S, T)
  BY <1>1, <1>2, Fun_IsSurj
<1>4. IsFiniteSet(T)
  BY <1>3, FS_Surjection
<1>5. QED
  BY <1>4 DEF T

\* The units of one number.
LEMMA UnitsOfOne ==
    ASSUME NEW x, NEW n \in Nat
    PROVE  IsFiniteSet({x} \X (1..n)) /\ Cardinality({x} \X (1..n)) = n
<1> DEFINE g == [i \in 1..n |-> <<x, i>>]
<1>1. IsFiniteSet(1..n) /\ Cardinality(1..n) = n
  <2>1. IsFiniteSet(1..n) /\ Cardinality(1..n) = IF 1 > n THEN 0 ELSE n - 1 + 1
    BY FS_Interval
  <2>2. QED
    BY <2>1
<1>2. g \in [1..n -> {x} \X (1..n)]
  OBVIOUS
<1>3. \A i, j \in 1..n : g[i] = g[j] => i = j
  OBVIOUS
<1>4. \A u \in {x} \X (1..n) : \E i \in 1..n : g[i] = u
  OBVIOUS
<1> HIDE DEF g
<1>5. g \in Bijection(1..n, {x} \X (1..n))
  BY <1>2, <1>3, <1>4, Fun_IsInj, Fun_IsSurj DEF Bijection
<1>6. QED
  BY <1>1, <1>5, FS_Bijection DEF ExistsBijection

LEMMA SumIsNat ==
    ASSUME NEW f, Summable(f)
    PROVE  IsFiniteSet(Assets!Units(f)) /\ Assets!SumOf(f) \in Nat
<1> DEFINE U == [x \in DOMAIN f |-> {x} \X (1..f[x])]
           C == {U[x] : x \in DOMAIN f}
<1>0. IsFiniteSet(DOMAIN f) /\ \A x \in DOMAIN f : IsFiniteSet(U[x])
  BY UnitsOfOne DEF Summable
<1>3. Assets!Units(f) = UNION C
  BY DEF Assets!Units
<1> HIDE DEF U
<1>1. IsFiniteSet(C)
  BY <1>0, ImageIsFinite
<1>2. \A S \in C : IsFiniteSet(S)
  BY <1>0
<1> HIDE DEF C
<1>4. IsFiniteSet(Assets!Units(f))
  BY <1>1, <1>2, <1>3, FS_UNION
<1>5. QED
  BY <1>4, SumCounts, FS_CardinalityType

\* The sum of a function is that of two parts.
LEMMA SumSplits ==
    ASSUME NEW f, NEW g, NEW h, Summable(g), Summable(h),
           DOMAIN f = DOMAIN g \cup DOMAIN h, DOMAIN g \cap DOMAIN h = {},
           \A x \in DOMAIN g : f[x] = g[x], \A x \in DOMAIN h : f[x] = h[x]
    PROVE  Assets!SumOf(f) = Assets!SumOf(g) + Assets!SumOf(h)
<1> DEFINE F == Assets!Units(f)
           G == Assets!Units(g)
           H == Assets!Units(h)
<1>1. IsFiniteSet(G) /\ IsFiniteSet(H)
  BY SumIsNat
<1>2. F = G \cup H
  BY DEF Assets!Units
<1>3. G \cap H = {}
  BY DEF Assets!Units
<1>4. Assets!SumOf(f) = Cardinality(F) /\ Assets!SumOf(g) = Cardinality(G)
      /\ Assets!SumOf(h) = Cardinality(H)
  BY SumCounts
<1> HIDE DEF F, G, H
<1>5. Cardinality(F) = Cardinality(G) + Cardinality(H) - Cardinality(G \cap H)
  BY <1>1, <1>2, FS_Union
<1>6. Cardinality(G \cap H) = 0
  BY <1>3, FS_EmptySet
<1>7. Cardinality(G) \in Nat /\ Cardinality(H) \in Nat
  BY <1>1, FS_CardinalityType
<1>8. QED
  BY <1>4, <1>5, <1>6, <1>7

LEMMA SumOfOne ==
    ASSUME NEW f, NEW x, DOMAIN f = {x}, f[x] \in Nat
    PROVE  Summable(f) /\ Assets!SumOf(f) = f[x]
<1>1. Assets!Units(f) = {x} \X (1..f[x])
  BY DEF Assets!Units
<1>2. IsFiniteSet({x})
  BY FS_Singleton
<1>3. QED
  BY <1>1, <1>2, SumCounts, UnitsOfOne DEF Summable

\* What is nothing adds nothing.
LEMMA SumOfNothing ==
    ASSUME NEW f, \A x \in DOMAIN f : f[x] = 0
    PROVE  Assets!SumOf(f) = 0
<1>1. Assets!Units(f) = {}
  BY DEF Assets!Units
<1>2. QED
  BY <1>1, SumCounts, FS_EmptySet

LEMMA SumOfSame ==
    ASSUME NEW f, NEW g,
           \A x \in DOMAIN f \cup DOMAIN g, i \in Nat \ {0} :
              (x \in DOMAIN f /\ i <= f[x]) <=> (x \in DOMAIN g /\ i <= g[x])
    PROVE  Assets!SumOf(f) = Assets!SumOf(g)
<1>1. Assets!Units(f) = Assets!Units(g)
  BY DEF Assets!Units
<1>2. QED
  BY <1>1, SumCounts

\* Two functions that differ in one place.
LEMMA SumMoves ==
    ASSUME NEW f, NEW g, NEW a \in DOMAIN f, Summable(f), DOMAIN g = DOMAIN f, g[a] \in Nat,
           \A x \in DOMAIN f \ {a} : g[x] = f[x]
    PROVE  /\ Summable(g) /\ Assets!SumOf(f) \in Nat /\ Assets!SumOf(g) \in Nat
           /\ Assets!SumOf(g) + f[a] = Assets!SumOf(f) + g[a]
<1> DEFINE D == DOMAIN f \ {a}
           r == [x \in D |-> f[x]]
           p == [x \in {a} |-> f[a]]
           q == [x \in {a} |-> g[a]]
<1>1. IsFiniteSet(D)
  BY FS_RemoveElement DEF Summable
<1>2. Summable(r) /\ Summable(g)
  BY <1>1 DEF Summable
<1>3. /\ Summable(p) /\ Assets!SumOf(p) = f[a]
      /\ Summable(q) /\ Assets!SumOf(q) = g[a]
  <2>1. DOMAIN p = {a} /\ p[a] \in Nat /\ p[a] = f[a] /\ DOMAIN q = {a} /\ q[a] \in Nat /\ q[a] = g[a]
    BY DEF Summable
  <2> HIDE DEF p, q
  <2>2. QED
    BY <2>1, SumOfOne
<1>4. Assets!SumOf(f) = Assets!SumOf(r) + Assets!SumOf(p)
  <2>1. /\ DOMAIN f = DOMAIN r \cup DOMAIN p /\ DOMAIN r \cap DOMAIN p = {}
        /\ \A x \in DOMAIN r : f[x] = r[x]
        /\ \A x \in DOMAIN p : f[x] = p[x]
    OBVIOUS
  <2> HIDE DEF r, p
  <2>2. QED
    BY <1>2, <1>3, <2>1, SumSplits
<1>5. Assets!SumOf(g) = Assets!SumOf(r) + Assets!SumOf(q)
  <2>1. /\ DOMAIN g = DOMAIN r \cup DOMAIN q /\ DOMAIN r \cap DOMAIN q = {}
        /\ \A x \in DOMAIN r : g[x] = r[x]
        /\ \A x \in DOMAIN q : g[x] = q[x]
    OBVIOUS
  <2> HIDE DEF r, q
  <2>2. QED
    BY <1>2, <1>3, <2>1, SumSplits
<1> HIDE DEF r, p, q
<1>6. Assets!SumOf(r) \in Nat
  BY <1>2, SumIsNat
<1>7. f[a] \in Nat /\ g[a] \in Nat
  BY DEF Summable
<1>8. QED
  BY <1>2, <1>3, <1>4, <1>5, <1>6, <1>7

-----------------------------------------------------------------------------
(* What a sync stores, and what the summary shows of it *)

HoldingRecords == [account : Nat, code : Nat, quantity : Nat, asOf : Nat]
Holdings(H) == IsFiniteSet(H) /\ H \subseteq HoldingRecords
CashRecords == [available : Nat, reserved : Nat]

\* A snapshot tells of its allocation and of its parts what they add up to.
Sound(s) ==
    /\ Assets!SumOf(s.allocation) = s.total
    /\ s.total = s.cash + s.investments

BookInv ==
    /\ book = [cash |-> book.cash, held |-> book.held, log |-> book.log]
    /\ Summable(book.cash) /\ DOMAIN book.cash \subseteq Nat
    /\ Holdings(book.held) /\ day \in Nat

\* No account is closed: what a page has not is not stored either.
PagesInv ==
    /\ DOMAIN pages \subseteq {"accounts", "holdings", "transactions"}
    /\ "accounts" \in DOMAIN pages =>
          /\ Summable(pages.accounts)
          /\ DOMAIN cash \subseteq DOMAIN pages.accounts
          /\ DOMAIN pages.accounts \subseteq DOMAIN book.cash
    /\ "holdings" \in DOMAIN pages => Holdings(pages.holdings)

CashInv ==
    /\ IsFiniteSet(DOMAIN cash) /\ cash \in [DOMAIN cash -> CashRecords]
    /\ DOMAIN cash \subseteq DOMAIN book.cash

SnapshotsInv ==
    /\ IsFiniteSet(DOMAIN snapshots) /\ DOMAIN snapshots \subseteq Nat
    /\ \A d \in DOMAIN snapshots : Sound(snapshots[d])

AssetsInv ==
    /\ BookInv /\ PagesInv /\ CashInv /\ SnapshotsInv
    /\ touched \in BOOLEAN
    /\ ~touched => Assets!TotalIsSum

LEMMA LargestNumber ==
    ASSUME NEW S \in SUBSET Int, NEW m \in S, \A n \in S : m >= n
    PROVE  Assets!Max(S) = m
<1>1. Assets!Max(S) \in S /\ \A n \in S : Assets!Max(S) >= n
  BY DEF Assets!Max
<1> DEFINE x == Assets!Max(S)
<1>2. x \in Int /\ m \in Int /\ x >= m /\ m >= x
  BY <1>1
<1> HIDE DEF x
<1>3. x = m
  BY <1>2
<1>4. QED
  BY <1>3 DEF x

LEMMA AssetsInit == Assets!Init => AssetsInv
<1> SUFFICES ASSUME Assets!Init PROVE AssetsInv
  OBVIOUS
<1>1. /\ cash = <<>> /\ holdings = {} /\ pages = <<>> /\ snapshots = <<>> /\ day = 1
      /\ touched = FALSE
      /\ book = [cash |-> [a \in {1} |-> Assets!Max(Balances)],
                 held |-> {[account |-> 1, code |-> 1, quantity |-> Assets!Max(Quantities),
                            asOf |-> 1]},
                 log |-> {0}]
  BY DEF Assets!Init
<1>2. Assets!Max(Balances) \in Nat /\ Assets!Max(Quantities) \in Nat
  BY AssetsAssumption DEF Assets!Max
<1>3. DOMAIN cash = {} /\ DOMAIN pages = {} /\ DOMAIN snapshots = {}
  BY <1>1
<1>4. BookInv
  <2>1. Summable(book.cash)
    <3>1. DOMAIN book.cash = {1} /\ book.cash[1] \in Nat
      BY <1>1, <1>2
    <3>2. QED
      BY <3>1, FS_Singleton DEF Summable
  <2>4. DOMAIN book.cash \subseteq Nat
    BY <1>1
  <2>2. Holdings(book.held)
    <3> DEFINE h == [account |-> 1, code |-> 1, quantity |-> Assets!Max(Quantities), asOf |-> 1]
    <3>1. h \in HoldingRecords
      BY <1>2 DEF HoldingRecords
    <3>2. book.held = {h}
      BY <1>1
    <3> HIDE DEF h
    <3>3. QED
      BY <3>1, <3>2, FS_Singleton DEF Holdings
  <2>3. QED
    BY <1>1, <2>1, <2>2, <2>4 DEF BookInv
<1>5. PagesInv /\ CashInv /\ SnapshotsInv
  <2>1. IsFiniteSet({})
    BY FS_EmptySet
  <2>2. cash \in [DOMAIN cash -> CashRecords]
    BY <1>1, <1>3
  <2>3. QED
    BY <1>3, <2>1, <2>2 DEF PagesInv, CashInv, SnapshotsInv
<1>6. Assets!TotalIsSum
  <2>1. /\ Assets!SumOf(Assets!AccountsView) = 0 /\ Assets!SumOf(Assets!Reserved) = 0
        /\ Assets!SumOf(Assets!HoldingsView) = 0
    BY <1>1, <1>3, SumOfNothing DEF Assets!AccountsView, Assets!Reserved, Assets!HoldingsView
  <2>2. Assets!Summary.total = 0
    BY <1>1 DEF Assets!Summary
  <2>3. QED
    BY <2>1, <2>2 DEF Assets!TotalIsSum
<1>7. QED
  BY <1>1, <1>4, <1>5, <1>6 DEF AssetsInv

LEMMA AssetsKept == AssetsInv /\ UNCHANGED assetVars => AssetsInv'
<1> SUFFICES ASSUME AssetsInv, UNCHANGED assetVars PROVE AssetsInv'
  OBVIOUS
<1>1. UNCHANGED <<book, day, moves, syncs, pages, cash, holdings, transactions, snapshots, touched>>
  BY DEF assetVars
<1>2. BookInv' /\ PagesInv' /\ CashInv' /\ SnapshotsInv'
  BY <1>1 DEF AssetsInv, BookInv, PagesInv, CashInv, SnapshotsInv
<1>3. Assets!TotalIsSum => Assets!TotalIsSum'
  BY <1>1 DEF Assets!TotalIsSum, Assets!Summary, Assets!AccountsView, Assets!Reserved,
              Assets!HoldingsView
<1>4. QED
  BY <1>1, <1>2, <1>3 DEF AssetsInv

\* The institution goes on.
LEMMA AssetsInstitution == AssetsInv /\ Assets!Institution => AssetsInv'
<1> SUFFICES ASSUME AssetsInv, Assets!Institution PROVE AssetsInv'
  OBVIOUS
<1>1. UNCHANGED <<day, syncs, pages, cash, holdings, transactions, snapshots, touched>>
  BY DEF Assets!Institution, Assets!Deposit, Assets!Trade, Assets!Sell
<1> DEFINE Grown ==
             /\ book' = [cash |-> book'.cash, held |-> book'.held, log |-> book'.log]
             /\ Summable(book'.cash) /\ DOMAIN book'.cash \subseteq Nat
             /\ DOMAIN book.cash \subseteq DOMAIN book'.cash
             /\ Holdings(book'.held)
<1>3. Grown
  <2>0. /\ book = [cash |-> book.cash, held |-> book.held, log |-> book.log]
        /\ Summable(book.cash) /\ DOMAIN book.cash \subseteq Nat
        /\ Holdings(book.held) /\ day \in Nat
    BY DEF AssetsInv, BookInv
  <2>1. ASSUME NEW a \in Accounts, NEW c \in Balances,
               book' = [book EXCEPT !.cash = Assets!With(@, a, c), !.log = @ \cup {moves'}]
        PROVE  Grown
    <3> DEFINE f == Assets!With(book.cash, a, c)
    <3>1. book' = [cash |-> f, held |-> book.held, log |-> book.log \cup {moves'}]
      BY <2>0, <2>1
    <3>2. DOMAIN f = DOMAIN book.cash \cup {a}
          /\ \A x \in DOMAIN f : f[x] = IF x = a THEN c ELSE book.cash[x]
      BY DEF Assets!With
    <3>3. IsFiniteSet(DOMAIN book.cash \cup {a})
      BY <2>0, FS_AddElement DEF Summable
    <3>4. Summable(f)
      BY <2>0, <3>2, <3>3, AssetsAssumption DEF Summable
    <3>5. DOMAIN f \subseteq Nat
      BY <2>0, <3>2, AssetsAssumption
    <3> HIDE DEF f
    <3>6. QED
      BY <2>0, <3>1, <3>2, <3>4, <3>5
  <2>2. ASSUME NEW H, Holdings(H), book' = [book EXCEPT !.held = H]
        PROVE  Grown
    BY <2>0, <2>2
  <2>3. CASE Assets!Deposit
    BY <2>1, <2>3 DEF Assets!Deposit
  <2>4. CASE Assets!Trade
    <3>1. PICK a \in DOMAIN book.cash, code \in Codes, q \in Quantities :
             book' = [book EXCEPT !.held =
                        {h \in book.held : Assets!Row(h) # <<a, code>>} \cup
                        {[account |-> a, code |-> code, quantity |-> q, asOf |-> day]}]
      BY <2>4 DEF Assets!Trade
    <3> DEFINE others == {h \in book.held : Assets!Row(h) # <<a, code>>}
               bought == [account |-> a, code |-> code, quantity |-> q, asOf |-> day]
    <3>2. IsFiniteSet(others) /\ others \subseteq HoldingRecords
      BY <2>0, FS_Subset DEF Holdings
    <3>3. bought \in HoldingRecords
      BY <2>0, AssetsAssumption DEF HoldingRecords
    <3>4. Holdings(others \cup {bought})
      BY <3>2, <3>3, FS_AddElement DEF Holdings
    <3> HIDE DEF others
    <3>5. QED
      BY <2>2, <3>1, <3>4 DEF others
  <2>5. CASE Assets!Sell
    <3>1. PICK h \in book.held : book' = [book EXCEPT !.held = @ \ {h}]
      BY <2>5 DEF Assets!Sell
    <3>2. Holdings(book.held \ {h})
      BY <2>0, FS_Subset DEF Holdings
    <3>3. QED
      BY <2>2, <3>1, <3>2
  <2>6. QED
    BY <2>3, <2>4, <2>5 DEF Assets!Institution
<1>4. BookInv' /\ PagesInv' /\ CashInv' /\ SnapshotsInv'
  BY <1>1, <1>3 DEF AssetsInv, BookInv, PagesInv, CashInv, SnapshotsInv
<1>5. Assets!TotalIsSum => Assets!TotalIsSum'
  BY <1>1 DEF Assets!TotalIsSum, Assets!Summary, Assets!AccountsView, Assets!Reserved,
              Assets!HoldingsView
<1>6. QED
  BY <1>1, <1>4, <1>5 DEF AssetsInv

\* The platform stores nothing: a day, a page or a failed sync.
LEMMA AssetsUnstored ==
    ASSUME AssetsInv, Assets!NextDay \/ Assets!FetchPage \/ Assets!Reschedule
    PROVE  AssetsInv'
<1>1. UNCHANGED <<book, cash, holdings, transactions, snapshots, touched>>
  BY DEF Assets!NextDay, Assets!FetchPage, Assets!Reschedule
<1>2. day' \in Nat
  BY DEF AssetsInv, BookInv, Assets!NextDay, Assets!FetchPage, Assets!Reschedule
<1>3. BookInv' /\ CashInv' /\ SnapshotsInv'
  BY <1>1, <1>2 DEF AssetsInv, BookInv, CashInv, SnapshotsInv
<1>4. PagesInv'
  <2>1. CASE Assets!NextDay
    BY <1>1, <2>1 DEF AssetsInv, PagesInv, Assets!NextDay
  <2>2. CASE Assets!Reschedule
    <3>1. pages' = <<>> /\ DOMAIN pages' = {}
      BY <2>2 DEF Assets!Reschedule
    <3>2. QED
      BY <3>1 DEF PagesInv
  <2>3. CASE Assets!FetchPage
    <3>1. PICK kind \in {"accounts", "holdings", "transactions"} :
             pages' = Assets!With(pages, kind, Assets!Page(kind))
      BY <2>3 DEF Assets!FetchPage
    <3>2. /\ DOMAIN pages' = DOMAIN pages \cup {kind}
          /\ \A x \in DOMAIN pages' :
                pages'[x] = IF x = kind THEN Assets!Page(kind) ELSE pages[x]
      BY <3>1 DEF Assets!With
    <3>3. DOMAIN pages' \subseteq {"accounts", "holdings", "transactions"}
      BY <3>2 DEF AssetsInv, PagesInv
    <3>4. "accounts" \in DOMAIN pages' =>
             /\ Summable(pages'.accounts)
             /\ DOMAIN cash \subseteq DOMAIN pages'.accounts
             /\ DOMAIN pages'.accounts \subseteq DOMAIN book.cash
      <4>1. CASE kind = "accounts"
        <5>1. pages'.accounts = book.cash
          BY <3>2, <4>1 DEF Assets!Page
        <5>2. QED
          BY <5>1 DEF AssetsInv, BookInv, CashInv
      <4>2. CASE kind # "accounts"
        BY <3>2, <4>2 DEF AssetsInv, PagesInv
      <4>3. QED
        BY <4>1, <4>2
    <3>5. "holdings" \in DOMAIN pages' => Holdings(pages'.holdings)
      <4>1. CASE kind = "holdings"
        <5>1. pages'.holdings = book.held
          BY <3>2, <4>1 DEF Assets!Page
        <5>2. QED
          BY <5>1 DEF AssetsInv, BookInv
      <4>2. CASE kind # "holdings"
        BY <3>2, <4>2 DEF AssetsInv, PagesInv
      <4>3. QED
        BY <4>1, <4>2
    <3>6. QED
      BY <1>1, <3>3, <3>4, <3>5 DEF PagesInv
  <2>4. QED
    BY <2>1, <2>2, <2>3
<1>5. Assets!TotalIsSum => Assets!TotalIsSum'
  BY <1>1 DEF Assets!TotalIsSum, Assets!Summary, Assets!AccountsView, Assets!Reserved,
              Assets!HoldingsView
<1>6. QED
  BY <1>1, <1>3, <1>4, <1>5 DEF AssetsInv

\* Orders move units between what is available and what is reserved, or spend
\* them.
LEMMA AssetsOrder == AssetsInv /\ Assets!Order => AssetsInv'
<1> SUFFICES ASSUME AssetsInv, Assets!Order PROVE AssetsInv'
  OBVIOUS
<1>1. UNCHANGED <<book, day, moves, syncs, pages, holdings, transactions, snapshots>>
  BY DEF Assets!Order
<1>2. IsFiniteSet(DOMAIN cash) /\ cash \in [DOMAIN cash -> CashRecords]
  BY DEF AssetsInv, CashInv
<1>3. ASSUME NEW a \in DOMAIN cash, NEW r \in CashRecords, cash' = [cash EXCEPT ![a] = r]
      PROVE  DOMAIN cash' = DOMAIN cash /\ BookInv' /\ PagesInv' /\ CashInv' /\ SnapshotsInv'
  <2>1. DOMAIN cash' = DOMAIN cash /\ cash' \in [DOMAIN cash -> CashRecords]
    BY <1>2, <1>3
  <2>2. QED
    BY <1>1, <2>1 DEF AssetsInv, BookInv, PagesInv, CashInv, SnapshotsInv
<1>4. ASSUME NEW a \in DOMAIN cash, NEW r \in CashRecords, cash' = [cash EXCEPT ![a] = r],
             r.available + r.reserved = cash[a].available + cash[a].reserved
      PROVE  Assets!TotalIsSum => Assets!TotalIsSum'
  <2> DEFINE f == [b \in DOMAIN cash |-> cash[b].available]
             g == [b \in DOMAIN cash |-> cash'[b].available]
             h == [b \in DOMAIN cash |-> cash[b].reserved]
             k == [b \in DOMAIN cash |-> cash'[b].reserved]
  <2>1. /\ DOMAIN cash' = DOMAIN cash /\ cash'[a] = r
        /\ \A b \in DOMAIN cash \ {a} : cash'[b] = cash[b]
    BY <1>2, <1>4
  <2>2. /\ Assets!AccountsView = f /\ Assets!Reserved = h
        /\ Assets!AccountsView' = g /\ Assets!Reserved' = k
    BY <2>1 DEF Assets!AccountsView, Assets!Reserved
  <2>3. /\ Summable(f) /\ Summable(h) /\ a \in DOMAIN f /\ a \in DOMAIN h
        /\ DOMAIN g = DOMAIN f /\ DOMAIN k = DOMAIN h
        /\ f[a] = cash[a].available /\ h[a] = cash[a].reserved
        /\ g[a] = r.available /\ k[a] = r.reserved
        /\ f[a] \in Nat /\ h[a] \in Nat /\ g[a] \in Nat /\ k[a] \in Nat
        /\ \A b \in DOMAIN f \ {a} : g[b] = f[b]
        /\ \A b \in DOMAIN h \ {a} : k[b] = h[b]
    BY <1>2, <2>1 DEF Summable, CashRecords
  <2> HIDE DEF f, g, h, k
  <2>4. /\ Assets!SumOf(f) \in Nat /\ Assets!SumOf(g) \in Nat
        /\ Assets!SumOf(g) + f[a] = Assets!SumOf(f) + g[a]
        /\ Assets!SumOf(h) \in Nat /\ Assets!SumOf(k) \in Nat
        /\ Assets!SumOf(k) + h[a] = Assets!SumOf(h) + k[a]
    BY <2>3, SumMoves
  <2>5. Assets!SumOf(g) + Assets!SumOf(k) = Assets!SumOf(f) + Assets!SumOf(h)
    BY <1>4, <2>3, <2>4
  <2>6. Assets!Summary' = Assets!Summary /\ Assets!HoldingsView' = Assets!HoldingsView
    BY <1>1 DEF Assets!Summary, Assets!HoldingsView
  <2>7. QED
    BY <2>2, <2>5, <2>6 DEF Assets!TotalIsSum
<1>5. CASE Assets!Reserve
  <2>1. PICK a \in DOMAIN cash :
           /\ cash[a].available >= 1
           /\ cash' = [cash EXCEPT ![a] = [available |-> cash[a].available - 1,
                                           reserved |-> cash[a].reserved + 1]]
           /\ UNCHANGED touched
    BY <1>5 DEF Assets!Reserve
  <2>2. /\ [available |-> cash[a].available - 1, reserved |-> cash[a].reserved + 1] \in CashRecords
        /\ (cash[a].available - 1) + (cash[a].reserved + 1) = cash[a].available + cash[a].reserved
    BY <1>2, <2>1 DEF CashRecords
  <2>3. QED
    BY <1>3, <1>4, <2>1, <2>2 DEF AssetsInv
<1>6. CASE Assets!Release
  <2>1. PICK a \in DOMAIN cash :
           /\ cash[a].reserved >= 1
           /\ cash' = [cash EXCEPT ![a] = [available |-> cash[a].available + 1,
                                           reserved |-> cash[a].reserved - 1]]
           /\ UNCHANGED touched
    BY <1>6 DEF Assets!Release
  <2>2. /\ [available |-> cash[a].available + 1, reserved |-> cash[a].reserved - 1] \in CashRecords
        /\ (cash[a].available + 1) + (cash[a].reserved - 1) = cash[a].available + cash[a].reserved
    BY <1>2, <2>1 DEF CashRecords
  <2>3. QED
    BY <1>3, <1>4, <2>1, <2>2 DEF AssetsInv
<1>7. CASE Assets!Settle
  <2>1. PICK a \in DOMAIN cash :
           /\ cash[a].reserved >= 1
           /\ cash' = [cash EXCEPT ![a].reserved = @ - 1]
           /\ touched' = TRUE
    BY <1>7 DEF Assets!Settle
  <2> DEFINE r == [cash[a] EXCEPT !.reserved = @ - 1]
  <2>2. cash' = [cash EXCEPT ![a] = r] /\ r \in CashRecords
    BY <1>2, <2>1 DEF CashRecords
  <2> HIDE DEF r
  <2>3. QED
    BY <1>3, <2>1, <2>2 DEF AssetsInv
<1>8. QED
  BY <1>5, <1>6, <1>7 DEF Assets!Order

-----------------------------------------------------------------------------
(* The snapshot of a sync *)

Worths(H) == [h \in H |-> Assets!Worth(h)]

LEMMA WorthIsNat == ASSUME NEW h \in HoldingRecords PROVE Assets!Worth(h) \in Nat
<1>1. \A n, s \in Nat : s > 0 => n \div s \in Nat
  OBVIOUS
<1>2. \A q, p \in Nat : q * (p + 1) \in Nat
  OBVIOUS
<1>3. h.quantity \in Nat /\ h.code \in Nat
  BY DEF HoldingRecords
<1>4. h.quantity * (h.code + 1) \in Nat
  BY <1>2, <1>3
<1>5. QED
  BY <1>1, <1>4, AssetsAssumption DEF Assets!Worth, Assets!Price

LEMMA ValueOf ==
    ASSUME NEW H, Holdings(H)
    PROVE  /\ Summable(Worths(H)) /\ DOMAIN Worths(H) = H
           /\ Assets!Value(H) = Assets!SumOf(Worths(H)) /\ Assets!Value(H) \in Nat
<1>1. Summable(Worths(H)) /\ DOMAIN Worths(H) = H
  BY WorthIsNat DEF Summable, Worths, Holdings
<1>2. Assets!Value(H) = Assets!SumOf(Worths(H))
  BY DEF Assets!Value, Worths
<1>3. QED
  BY <1>1, <1>2, SumIsNat

\* Holdings by class, and what they are worth.
OfClass(H, class) == {h \in H : Assets!ClassOf(h.code) = class}
Classes(H) == {Assets!ClassOf(h.code) : h \in H}
ByClass(H) == [class \in Classes(H) |-> Assets!Value(OfClass(H, class))]

\* The values of the classes add up to that of the holdings.
LEMMA ClassesAddUp ==
    ASSUME NEW H, Holdings(H)
    PROVE  /\ Summable(ByClass(H)) /\ DOMAIN ByClass(H) = Classes(H)
           /\ Classes(H) \subseteq {"EQUITY", "BOND"}
           /\ Assets!SumOf(ByClass(H)) = Assets!Value(H)
<1> DEFINE E == OfClass(H, "EQUITY")
           B == OfClass(H, "BOND")
           e == [class \in {"EQUITY"} |-> Assets!Value(E)]
           b == [class \in {"BOND"} |-> Assets!Value(B)]
           both == [class \in {"EQUITY", "BOND"} |-> Assets!Value(OfClass(H, class))]
<1>1. Classes(H) \subseteq {"EQUITY", "BOND"} /\ \A c : Assets!ClassOf(c) \in {"EQUITY", "BOND"}
  BY DEF Classes, Assets!ClassOf
<1>2. \A class : Holdings(OfClass(H, class))
  <2>1. TAKE class
  <2>2. OfClass(H, class) \in SUBSET H
    BY DEF OfClass
  <2>3. QED
    BY <2>2, FS_Subset DEF Holdings
<1>3. \A class : Assets!Value(OfClass(H, class)) \in Nat
  BY <1>2, ValueOf
<1>4. Summable(ByClass(H)) /\ DOMAIN ByClass(H) = Classes(H)
  <2>1. IsFiniteSet({"EQUITY", "BOND"})
    <3>1. IsFiniteSet({"EQUITY"}) /\ {"EQUITY", "BOND"} = {"EQUITY"} \cup {"BOND"}
      BY FS_Singleton
    <3>2. IsFiniteSet({"EQUITY"} \cup {"BOND"})
      BY <3>1, FS_AddElement
    <3>3. QED
      BY <3>1, <3>2
  <2>2. IsFiniteSet(Classes(H))
    BY <1>1, <2>1, FS_Subset
  <2>3. QED
    BY <1>3, <2>2 DEF Summable, ByClass
<1>5. /\ Summable(e) /\ Assets!SumOf(e) = Assets!Value(E)
      /\ Summable(b) /\ Assets!SumOf(b) = Assets!Value(B)
  <2>1. /\ DOMAIN e = {"EQUITY"} /\ e["EQUITY"] = Assets!Value(E) /\ e["EQUITY"] \in Nat
        /\ DOMAIN b = {"BOND"} /\ b["BOND"] = Assets!Value(B) /\ b["BOND"] \in Nat
    BY <1>3
  <2> HIDE DEF e, b, E, B
  <2>2. QED
    BY <2>1, SumOfOne
<1>6. Assets!SumOf(both) = Assets!SumOf(e) + Assets!SumOf(b)
  <2>1. /\ DOMAIN both = DOMAIN e \cup DOMAIN b /\ DOMAIN e \cap DOMAIN b = {}
        /\ \A x \in DOMAIN e : both[x] = e[x]
        /\ \A x \in DOMAIN b : both[x] = b[x]
    OBVIOUS
  <2> HIDE DEF e, b, both
  <2>2. QED
    BY <1>5, <2>1, SumSplits
<1>7. Assets!SumOf(ByClass(H)) = Assets!SumOf(both)
  <2>1. DOMAIN both = {"EQUITY", "BOND"} /\ DOMAIN ByClass(H) = Classes(H)
    BY <1>4
  <2>2. \A x \in Classes(H) : x \in DOMAIN both /\ both[x] = ByClass(H)[x]
    BY <1>1 DEF ByClass
  <2>3. ASSUME NEW x \in {"EQUITY", "BOND"}, x \notin Classes(H) PROVE both[x] = 0
    <3>1. OfClass(H, x) = {}
      BY <2>3 DEF OfClass, Classes
    <3>2. DOMAIN Worths({}) = {}
      BY DEF Worths
    <3>3. Assets!SumOf(Worths({})) = 0
      BY <3>2, SumOfNothing
    <3>4. Assets!Value({}) = 0
      BY <3>3 DEF Assets!Value, Worths
    <3>5. QED
      BY <3>1, <3>4
  <2> HIDE DEF both
  <2>4. \A x \in DOMAIN ByClass(H) \cup DOMAIN both, i \in Nat \ {0} :
           (x \in DOMAIN ByClass(H) /\ i <= ByClass(H)[x]) <=> (x \in DOMAIN both /\ i <= both[x])
    BY <1>1, <2>1, <2>2, <2>3
  <2>5. QED
    BY <2>4, SumOfSame
<1>8. Assets!Value(H) = Assets!Value(E) + Assets!Value(B)
  <2>1. DOMAIN Worths(H) = DOMAIN Worths(E) \cup DOMAIN Worths(B)
        /\ DOMAIN Worths(E) \cap DOMAIN Worths(B) = {}
    BY <1>1 DEF Worths, OfClass
  <2>2. /\ \A x \in DOMAIN Worths(E) : Worths(H)[x] = Worths(E)[x]
        /\ \A x \in DOMAIN Worths(B) : Worths(H)[x] = Worths(B)[x]
    BY DEF Worths, OfClass
  <2>3. /\ Summable(Worths(E)) /\ Assets!Value(E) = Assets!SumOf(Worths(E))
        /\ Summable(Worths(B)) /\ Assets!Value(B) = Assets!SumOf(Worths(B))
        /\ Assets!Value(H) = Assets!SumOf(Worths(H))
    BY <1>2, ValueOf
  <2> HIDE DEF E, B
  <2>4. QED
    BY <2>1, <2>2, <2>3, SumSplits
<1>9. QED
  BY <1>1, <1>4, <1>5, <1>6, <1>7, <1>8

\* A snapshot is sound, and dated at a day.
LEMMA SnapshotIsSound ==
    ASSUME Summable(pages.accounts), Holdings(pages.holdings), day \in Nat
    PROVE  /\ Sound(Assets!Snapshot) /\ Assets!SnapshotDate \in Nat
           /\ Assets!Snapshot.total =
                 Assets!SumOf(pages.accounts) + Assets!SumOf(Worths(pages.holdings))
<1> DEFINE A == pages.accounts
           H == pages.holdings
           c == Assets!SumOf(A)
           amount == [class \in {"CASH"} \cup Classes(H) |->
                         IF class = "CASH" THEN c ELSE Assets!Value(OfClass(H, class))]
           g == [class \in {"CASH"} |-> c]
<1>1. c \in Nat
  BY SumIsNat
<1>2. /\ Summable(ByClass(H)) /\ DOMAIN ByClass(H) = Classes(H) /\ "CASH" \notin Classes(H)
      /\ Assets!SumOf(ByClass(H)) = Assets!Value(H)
  BY ClassesAddUp
<1>3. Summable(g) /\ Assets!SumOf(g) = c
  <2>1. DOMAIN g = {"CASH"} /\ g["CASH"] = c /\ g["CASH"] \in Nat
    BY <1>1
  <2> HIDE DEF g, c
  <2>2. QED
    BY <2>1, SumOfOne
<1>4. Assets!SumOf(amount) = c + Assets!Value(H)
  <2>1. /\ DOMAIN amount = DOMAIN g \cup DOMAIN ByClass(H)
        /\ DOMAIN g \cap DOMAIN ByClass(H) = {}
        /\ \A x \in DOMAIN g : amount[x] = g[x]
        /\ \A x \in DOMAIN ByClass(H) : amount[x] = ByClass(H)[x]
    BY <1>2 DEF ByClass
  <2> HIDE DEF amount, g, c, H
  <2>2. QED
    BY <1>2, <1>3, <2>1, SumSplits
<1>5. Assets!Allocation = Assets!Restrict(amount, {class \in DOMAIN amount : amount[class] > 0})
  BY DEF Assets!Allocation, Assets!Investments, OfClass, Classes
<1>6. Assets!SumOf(Assets!Allocation) = Assets!SumOf(amount)
  <2>1. \A x \in DOMAIN amount : amount[x] \in Nat
    BY <1>1, <1>2 DEF Summable, ByClass
  <2> HIDE DEF amount
  <2>2. /\ DOMAIN Assets!Allocation = {class \in DOMAIN amount : amount[class] > 0}
        /\ \A x \in DOMAIN Assets!Allocation : Assets!Allocation[x] = amount[x]
    BY <1>5 DEF Assets!Restrict
  <2>3. \A x \in DOMAIN Assets!Allocation \cup DOMAIN amount, i \in Nat \ {0} :
           (x \in DOMAIN Assets!Allocation /\ i <= Assets!Allocation[x])
              <=> (x \in DOMAIN amount /\ i <= amount[x])
    BY <2>1, <2>2
  <2>4. QED
    BY <2>3, SumOfSame
<1>7. Assets!Snapshot = [total |-> c + Assets!SumOf(ByClass(H)), cash |-> c,
                         investments |-> Assets!SumOf(ByClass(H)),
                         allocation |-> Assets!Allocation]
  BY DEF Assets!Snapshot, Assets!Investments, ByClass, OfClass, Classes
<1>8. Assets!SnapshotDate \in Nat
  <2>1. CASE H = {}
    BY <2>1 DEF Assets!SnapshotDate
  <2>2. CASE H # {}
    <3> DEFINE k == [h \in H |-> 10 * h.code + h.account]
               T == {k[h] : h \in H}
    <3>1. IsFiniteSet(H) /\ T # {} /\ T \subseteq Int
      <4>1. IsFiniteSet(H) /\ \A h \in H : h.code \in Nat /\ h.account \in Nat
        BY DEF Holdings, HoldingRecords
      <4>2. \A h \in H : k[h] \in Int
        BY <4>1
      <4>3. PICK h \in H : TRUE
        BY <2>2
      <4> HIDE DEF k
      <4>4. k[h] \in T
        OBVIOUS
      <4>5. QED
        BY <4>1, <4>2, <4>4
    <3>2. IsFiniteSet(T)
      <4> HIDE DEF k
      <4>1. QED
        BY <3>1, ImageIsFinite
    <3>3. PICK n \in T : \A m \in T : m <= n
      BY <3>1, <3>2, LargestOf
    <3>4. PICK h \in H : n = k[h]
      OBVIOUS
    <3>5. \A f \in H : 10 * f.code + f.account <= 10 * h.code + h.account
      BY <3>3, <3>4
    <3>6. Assets!LastOf(H) \in H
      BY <3>5 DEF Assets!LastOf
    <3>7. QED
      BY <2>2, <3>6 DEF Assets!SnapshotDate, Holdings, HoldingRecords
  <2>3. QED
    BY <2>1, <2>2
<1>9. Assets!Value(H) = Assets!SumOf(Worths(H))
  BY ValueOf
<1>10. /\ Assets!Snapshot.total = c + Assets!SumOf(Worths(H))
       /\ Assets!Snapshot.total = Assets!Snapshot.cash + Assets!Snapshot.investments
       /\ Assets!SumOf(Assets!Snapshot.allocation) = Assets!Snapshot.total
  <2> HIDE DEF amount, c, H
  <2>1. QED
    BY <1>2, <1>4, <1>6, <1>7, <1>9
<1>11. QED
  BY <1>8, <1>10 DEF Sound

-----------------------------------------------------------------------------
(* A sync that is completed *)

LEMMA AssetsComplete == AssetsInv /\ Assets!CompleteSync => AssetsInv'
<1> SUFFICES ASSUME AssetsInv, Assets!CompleteSync PROVE AssetsInv'
  OBVIOUS
<1> DEFINE A == pages.accounts
           H == pages.holdings
           dated == Assets!SnapshotDate
           snapshot == Assets!Snapshot
<1>1. /\ cash' = Assets!UpsertedAccounts /\ holdings' = Assets!UpsertedHoldings
      /\ snapshots' = Assets!With(snapshots, dated, snapshot)
      /\ touched' = (\/ \E h \in holdings' : Assets!Row(h) \notin {Assets!Row(g) : g \in H}
                     \/ \E d \in DOMAIN snapshots : d > dated
                     \/ \E a \in DOMAIN cash : cash[a].reserved > 0)
      /\ pages' = <<>> /\ UNCHANGED <<book, day, moves>>
  BY DEF Assets!CompleteSync
<1>2. DOMAIN pages = {"accounts", "holdings", "transactions"}
  BY DEF Assets!CompleteSync, Assets!Complete
<1>3. /\ Summable(A) /\ DOMAIN cash \subseteq DOMAIN A /\ DOMAIN A \subseteq DOMAIN book.cash
      /\ Holdings(H) /\ day \in Nat
      /\ IsFiniteSet(DOMAIN cash) /\ cash \in [DOMAIN cash -> CashRecords]
      /\ DOMAIN snapshots \subseteq Nat /\ IsFiniteSet(DOMAIN snapshots)
      /\ \A d \in DOMAIN snapshots : Sound(snapshots[d])
  BY <1>2 DEF AssetsInv, BookInv, PagesInv, CashInv, SnapshotsInv
<1>4. /\ Sound(snapshot) /\ dated \in Nat
      /\ snapshot.total = Assets!SumOf(A) + Assets!SumOf(Worths(H))
  BY <1>3, SnapshotIsSound
<1> HIDE DEF dated, snapshot
<1>5. /\ DOMAIN snapshots' = DOMAIN snapshots \cup {dated}
      /\ \A d \in DOMAIN snapshots' :
            snapshots'[d] = IF d = dated THEN snapshot ELSE snapshots[d]
  BY <1>1 DEF Assets!With
<1>6. /\ DOMAIN cash' = DOMAIN A
      /\ \A a \in DOMAIN A : cash'[a] = [available |-> A[a],
                                         reserved |-> IF a \in DOMAIN cash THEN cash[a].reserved
                                                      ELSE 0]
      /\ cash' = [a \in DOMAIN cash' |-> cash'[a]]
  BY <1>1, <1>3 DEF Assets!UpsertedAccounts
<1>7. BookInv'
  BY <1>1 DEF AssetsInv, BookInv
<1>8. PagesInv'
  <2>1. DOMAIN pages' = {}
    BY <1>1
  <2>2. QED
    BY <2>1 DEF PagesInv
<1>9. CashInv'
  <2>1. ASSUME NEW a \in DOMAIN A PROVE cash'[a] \in CashRecords
    <3>1. A[a] \in Nat
      BY <1>3 DEF Summable
    <3>2. CASE a \in DOMAIN cash
      <4>1. cash[a] \in CashRecords
        BY <1>3, <3>2
      <4>2. cash[a].reserved \in Nat
        BY <4>1 DEF CashRecords
      <4>3. cash'[a] = [available |-> A[a], reserved |-> cash[a].reserved]
        BY <1>6, <3>2
      <4> HIDE DEF A
      <4>4. QED
        BY <3>1, <4>2, <4>3 DEF CashRecords
    <3>3. CASE a \notin DOMAIN cash
      <4>1. cash'[a] = [available |-> A[a], reserved |-> 0]
        BY <1>6, <3>3
      <4> HIDE DEF A
      <4>2. QED
        BY <3>1, <4>1 DEF CashRecords
    <3>4. QED
      BY <3>2, <3>3
  <2>2. cash' \in [DOMAIN cash' -> CashRecords]
    BY <1>6, <2>1
  <2>3. QED
    BY <1>1, <1>3, <1>6, <2>2 DEF CashInv, Summable
<1>10. SnapshotsInv'
  <2>1. IsFiniteSet(DOMAIN snapshots \cup {dated})
    BY <1>3, FS_AddElement
  <2>2. DOMAIN snapshots \cup {dated} \subseteq Nat
    BY <1>3, <1>4
  <2>3. \A d \in DOMAIN snapshots \cup {dated} : Sound(snapshots'[d])
    BY <1>3, <1>4, <1>5
  <2>4. QED
    BY <1>5, <2>1, <2>2, <2>3 DEF SnapshotsInv
<1>11. touched' \in BOOLEAN
  BY <1>1
<1>12. ASSUME ~touched' PROVE Assets!TotalIsSum'
  <2>1. /\ \A h \in holdings' : Assets!Row(h) \in {Assets!Row(g) : g \in H}
        /\ \A d \in DOMAIN snapshots : ~(d > dated)
        /\ \A a \in DOMAIN cash : ~(cash[a].reserved > 0)
    BY <1>1, <1>12
  <2>2. holdings' = H
    BY <1>1, <2>1 DEF Assets!UpsertedHoldings
  <2>3. Assets!HoldingsView' = Worths(H)
    BY <2>2 DEF Assets!HoldingsView, Worths
  <2>4. Assets!SumOf(Assets!AccountsView') = Assets!SumOf(A)
    <3>0. Assets!AccountsView' = [a \in DOMAIN cash' |-> cash'[a].available]
      BY DEF Assets!AccountsView
    <3>1. DOMAIN Assets!AccountsView' = DOMAIN A /\ \A a \in DOMAIN A : Assets!AccountsView'[a] = A[a]
      <4>1. ASSUME NEW a \in DOMAIN A PROVE cash'[a].available = A[a]
        <5> DEFINE r == IF a \in DOMAIN cash THEN cash[a].reserved ELSE 0
        <5>1. cash'[a] = [available |-> A[a], reserved |-> r]
          BY <1>6
        <5> HIDE DEF r, A
        <5>2. QED
          BY <5>1
      <4> HIDE DEF A
      <4>2. QED
        BY <1>6, <3>0, <4>1
    <3> DEFINE v == Assets!AccountsView'
    <3>2. DOMAIN v = DOMAIN A /\ \A a \in DOMAIN A : v[a] = A[a]
      BY <3>1
    <3> HIDE DEF v, A
    <3>3. Assets!SumOf(v) = Assets!SumOf(A)
      BY <3>2, SumOfSame
    <3>4. QED
      BY <3>3 DEF v
  <2>5. Assets!SumOf(Assets!Reserved') = 0
    <3>1. \A a \in DOMAIN cash : cash[a].reserved = 0
      BY <1>3, <2>1 DEF CashRecords
    <3>0. Assets!Reserved' = [a \in DOMAIN cash' |-> cash'[a].reserved]
      BY DEF Assets!Reserved
    <3>4. ASSUME NEW a \in DOMAIN A PROVE cash'[a].reserved = 0
      <4> DEFINE r == IF a \in DOMAIN cash THEN cash[a].reserved ELSE 0
      <4>1. cash'[a] = [available |-> A[a], reserved |-> r]
        BY <1>6
      <4>2. r = 0
        BY <3>1
      <4> HIDE DEF r, A
      <4>3. QED
        BY <4>1, <4>2
    <3>2. \A a \in DOMAIN Assets!Reserved' : Assets!Reserved'[a] = 0
      BY <1>6, <3>0, <3>4
    <3>3. QED
      BY <3>2, SumOfNothing
  <2>6. Assets!Summary'.total = snapshot.total
    <3>1. Assets!Max(DOMAIN snapshots \cup {dated}) = dated
      <4>1. \A d \in DOMAIN snapshots \cup {dated} : dated >= d
        BY <1>3, <1>4, <2>1
      <4>2. DOMAIN snapshots \cup {dated} \in SUBSET Int /\ dated \in DOMAIN snapshots \cup {dated}
        BY <1>3, <1>4
      <4>3. QED
        BY <4>1, <4>2, LargestNumber
    <3>2. snapshots' # <<>> /\ snapshots'[dated] = snapshot
      BY <1>5
    <3>3. Assets!Max(DOMAIN snapshots') = dated
      BY <1>5, <3>1
    <3>4. QED
      BY <3>2, <3>3 DEF Assets!Summary
  <2>7. Assets!SumOf(A) \in Nat /\ Assets!SumOf(Worths(H)) \in Nat
    BY <1>3, SumIsNat, ValueOf
  <2>8. QED
    BY <1>4, <2>3, <2>4, <2>5, <2>6, <2>7 DEF Assets!TotalIsSum
<1>13. QED
  BY <1>7, <1>8, <1>9, <1>10, <1>11, <1>12 DEF AssetsInv

LEMMA AssetsStep == AssetsInv /\ Assets!Next => AssetsInv'
  BY AssetsInstitution, AssetsUnstored, AssetsOrder, AssetsComplete DEF Assets!Next

LEMMA AssetsAlways == PlatformSpec => []AssetsInv
<1>1. PlatformInit => AssetsInv
  BY AssetsInit DEF PlatformInit
<1>2. AssetsInv /\ [PlatformNext]_platformVars => AssetsInv'
  BY Frame, AssetsStep, AssetsKept
<1>3. QED
  BY <1>1, <1>2, PTL DEF PlatformSpec

LEMMA SyncsAddUp == AssetsInv => SyncedTotalIsSum
<1> SUFFICES ASSUME AssetsInv PROVE SyncedTotalIsSum
  OBVIOUS
<1>1. ~touched => Assets!TotalIsSum
  BY DEF AssetsInv
<1>2. \A d \in DOMAIN snapshots :
         /\ Assets!SumOf(snapshots[d].allocation) = snapshots[d].total
         /\ snapshots[d].total = snapshots[d].cash + snapshots[d].investments
  BY DEF AssetsInv, SnapshotsInv, Sound
<1>3. ASSUME Assets!Cardinality(DOMAIN snapshots) <= PointsShown
      PROVE  Assets!History = DOMAIN snapshots
  <2>1. \A S : Assets!Cardinality(S) = Cardinality(S)
    BY DEF Assets!Cardinality, Cardinality
  <2>2. IsFiniteSet(DOMAIN snapshots)
    BY DEF AssetsInv, SnapshotsInv
  <2>3. ASSUME NEW d \in DOMAIN snapshots
        PROVE  Cardinality({e \in DOMAIN snapshots : e <= d}) <= PointsShown
    <3> DEFINE E == {e \in DOMAIN snapshots : e <= d}
    <3>1. E \in SUBSET DOMAIN snapshots
      OBVIOUS
    <3> HIDE DEF E
    <3>2. /\ Cardinality(E) <= Cardinality(DOMAIN snapshots)
          /\ Cardinality(E) \in Nat /\ Cardinality(DOMAIN snapshots) \in Nat
      BY <2>2, <3>1, FS_Subset, FS_CardinalityType
    <3>3. Cardinality(DOMAIN snapshots) <= PointsShown
      BY <1>3, <2>1
    <3>4. Cardinality(E) <= PointsShown
      BY <3>2, <3>3, PointsAssumption
    <3>5. QED
      BY <3>4 DEF E
  <2>4. QED
    BY <2>1, <2>3 DEF Assets!History
<1>4. QED
  BY <1>1, <1>2, <1>3 DEF SyncedTotalIsSum, Assets!SyncedTotalIsSum

\* What a sync stores adds up, for any accounts, balances and holdings: until
\* an order spends cash, and unless the sync has left a holding behind, dated
\* its snapshot back or met a reservation, the total of the summary is the sum
\* of what the API shows; and every allocation is that of its total
\* (completeSync, summary, history).
THEOREM SyncedTotalsAreSums == PlatformSpec => []SyncedTotalIsSum
  BY AssetsAlways, SyncsAddUp, PTL

-----------------------------------------------------------------------------
(* Plans: the percentiles of a month *)

\* Some order of the places sorts any values: by the ranks of the bars that
\* had the values for their instants.
LEMMA OrderExists ==
    ASSUME NEW n \in Nat, NEW v \in [1..n -> Int]
    PROVE  \E perm \in Plans!Orders(1..n) : Plans!Ascend(v, perm)
<1> DEFINE f == [i \in 1..n |-> Bars!Bar(v[i], i)]
           S == {f[i] : i \in 1..n}
           perm == [k \in 1..n |-> CHOOSE i \in 1..n : Rank(S)[f[i]] = n - k]
<1>1. \A i \in 1..n : f[i] \in BarRecords /\ f[i].at = v[i] /\ f[i].id = i
  BY DEF Bars!Bar, BarRecords
<1>2. IsFiniteSet(1..n) /\ Cardinality(1..n) = n
  BY FS_Interval
<1>3. f \in Bijection(1..n, S)
  <2>1. f \in [1..n -> S] /\ \A s \in S : \E i \in 1..n : f[i] = s
    OBVIOUS
  <2>2. \A i, j \in 1..n : f[i] = f[j] => i = j
    BY <1>1
  <2> HIDE DEF f, S
  <2>3. f \in Injection(1..n, S) /\ f \in Surjection(1..n, S)
    BY <2>1, <2>2, Fun_IsInj, Fun_IsSurj
  <2>4. QED
    BY <2>3 DEF Bijection
<1>4. \A i \in 1..n : f[i] \in S
  OBVIOUS
<1>5. \A s \in S : s \in BarRecords /\ \E i \in 1..n : s = f[i]
  BY <1>1
<1> HIDE DEF f, S
<1>6. Chartable(S) /\ Cardinality(S) = n
  BY <1>2, <1>3, <1>5, FS_Bijection DEF Chartable, ExistsBijection
<1>7. ASSUME NEW k \in 1..n PROVE perm[k] \in 1..n /\ Rank(S)[f[perm[k]]] = n - k
  <2>1. n - k \in 0..(n - 1)
    OBVIOUS
  <2>2. PICK s \in S : Rank(S)[s] = n - k
    BY <1>6, <2>1, RanksNumber
  <2>3. PICK i \in 1..n : Rank(S)[f[i]] = n - k
    BY <1>5, <2>2
  <2>4. QED
    BY <2>3
<1>8. perm \in [1..n -> 1..n]
  BY <1>7
<1> HIDE DEF perm
<1>9. ASSUME NEW i \in 1..n, NEW j \in 1..n, i # j PROVE perm[i] # perm[j]
  <2>1. n - i # n - j
    BY <1>9
  <2>2. Rank(S)[f[perm[i]]] = n - i /\ Rank(S)[f[perm[j]]] = n - j
    BY <1>7
  <2>3. QED
    BY <2>1, <2>2
<1>10. ASSUME NEW i \in 1..n, NEW j \in 1..n, i < j PROVE v[perm[i]] <= v[perm[j]]
  <2>1. perm[i] \in 1..n /\ perm[j] \in 1..n /\ v[perm[i]] \in Int /\ v[perm[j]] \in Int
    BY <1>7
  <2>2. ASSUME v[perm[j]] < v[perm[i]] PROVE FALSE
    <3>1. Bars!Before(f[perm[j]], f[perm[i]])
      BY <1>1, <2>1, <2>2 DEF Bars!Before
    <3>2. Rank(S)[f[perm[i]]] < Rank(S)[f[perm[j]]]
      BY <1>4, <1>6, <2>1, <3>1, LaterRanksLower
    <3>3. QED
      BY <1>7, <1>10, <3>2
  <2>3. QED
    BY <2>1, <2>2
<1>11. perm \in Plans!Orders(1..n)
  BY <1>8, <1>9 DEF Plans!Orders
<1>12. Plans!Ascend(v, perm)
  BY <1>10 DEF Plans!Ascend
<1>13. QED
  BY <1>11, <1>12

\* So sorting is what it says.
LEMMA SortedAscends ==
    ASSUME NEW n \in Nat, NEW v \in [1..n -> Int]
    PROVE  \E perm \in [1..n -> 1..n] :
              /\ \A i, j \in 1..n : i # j => perm[i] # perm[j]
              /\ \A i, j \in 1..n : i < j => v[perm[i]] <= v[perm[j]]
              /\ Plans!Sorted(v) = [i \in 1..n |-> v[perm[i]]]
<1> DEFINE perm == CHOOSE perm \in Plans!Orders(DOMAIN v) : Plans!Ascend(v, perm)
<1>1. DOMAIN v = 1..n
  OBVIOUS
<1>2. perm \in Plans!Orders(1..n) /\ Plans!Ascend(v, perm)
  BY <1>1, OrderExists
<1>3. Plans!Sorted(v) = [i \in 1..n |-> v[perm[i]]]
  BY <1>1 DEF Plans!Sorted
<1> HIDE DEF perm
<1>4. /\ perm \in [1..n -> 1..n]
      /\ \A i, j \in 1..n : i # j => perm[i] # perm[j]
  BY <1>2 DEF Plans!Orders
<1>5. \A i, j \in 1..n : i < j => v[perm[i]] <= v[perm[j]]
  BY <1>1, <1>2 DEF Plans!Ascend
<1>6. QED
  BY <1>3, <1>4, <1>5

\* Where a value lies among the sorted ones tells how many reach a target.
LEMMA PlaceTellsCount ==
    ASSUME NEW n \in Nat, NEW v \in [1..n -> Int], NEW k \in 1..n, NEW t \in Int,
           NEW R, R = {i \in 1..n : v[i] >= t}
    PROVE  /\ Cardinality(R) \in Nat
           /\ Plans!Sorted(v)[k] >= t => Cardinality(R) >= n - k + 1
           /\ Plans!Sorted(v)[k] < t => Cardinality(R) <= n - k
<1>1. PICK perm \in [1..n -> 1..n] :
          /\ \A i, j \in 1..n : i # j => perm[i] # perm[j]
          /\ \A i, j \in 1..n : i < j => v[perm[i]] <= v[perm[j]]
          /\ Plans!Sorted(v) = [i \in 1..n |-> v[perm[i]]]
  BY SortedAscends
<1>2. Plans!Sorted(v)[k] = v[perm[k]]
  BY <1>1
<1>2a. \A i \in 1..n : perm[i] \in 1..n /\ v[perm[i]] \in Int
  BY <1>1
<1>3. IsFiniteSet(1..n) /\ Cardinality(1..n) = n /\ R \in SUBSET (1..n)
  BY FS_Interval
<1>4. IsFiniteSet(R) /\ Cardinality(R) \in Nat
  BY <1>3, FS_Subset, FS_CardinalityType
<1>5. ASSUME v[perm[k]] >= t PROVE Cardinality(R) >= n - k + 1
  <2> DEFINE f == [i \in k..n |-> perm[i]]
  <2>1. ASSUME NEW i \in k..n PROVE perm[i] \in R
    <3>1. i \in 1..n /\ k <= i
      OBVIOUS
    <3>2. /\ i = k \/ v[perm[k]] <= v[perm[i]]
          /\ perm[i] \in 1..n /\ v[perm[i]] \in Int /\ v[perm[k]] \in Int
      BY <1>1, <1>2a, <3>1
    <3>3. \A x, y \in Int : y >= t /\ (x = y \/ y <= x) => x >= t
      OBVIOUS
    <3>4. v[perm[i]] >= t
      <4>1. v[perm[i]] = v[perm[k]] \/ v[perm[k]] <= v[perm[i]]
        BY <3>2
      <4>2. QED
        BY <1>5, <3>2, <3>3, <4>1
    <3>5. QED
      BY <3>2, <3>4
  <2>2. \A a, b \in k..n : f[a] = f[b] => a = b
    BY <1>1
  <2>3. f \in [k..n -> R]
    BY <2>1
  <2> HIDE DEF f
  <2>4. f \in Injection(k..n, R)
    BY <2>2, <2>3, Fun_IsInj
  <2>5. Cardinality(k..n) <= Cardinality(R)
    BY <1>4, <2>4, FS_Injection
  <2>6. Cardinality(k..n) = n - k + 1
    BY FS_Interval
  <2>7. QED
    BY <2>5, <2>6
<1>6. ASSUME v[perm[k]] < t PROVE Cardinality(R) <= n - k
  <2> DEFINE f == [i \in 1..k |-> perm[i]]
             Q == (1..n) \ R
  <2>1. ASSUME NEW i \in 1..k PROVE perm[i] \in Q
    <3>1. i \in 1..n /\ i <= k
      OBVIOUS
    <3>2. /\ i = k \/ v[perm[i]] <= v[perm[k]]
          /\ perm[i] \in 1..n /\ v[perm[i]] \in Int /\ v[perm[k]] \in Int
      BY <1>1, <1>2a, <3>1
    <3>3. \A x, y \in Int : y < t /\ (x = y \/ x <= y) => ~(x >= t)
      OBVIOUS
    <3>4. ~(v[perm[i]] >= t)
      <4>1. v[perm[i]] = v[perm[k]] \/ v[perm[i]] <= v[perm[k]]
        BY <3>2
      <4>2. QED
        BY <1>6, <3>2, <3>3, <4>1
    <3>5. QED
      BY <3>2, <3>4
  <2>2. \A a, b \in 1..k : f[a] = f[b] => a = b
    BY <1>1
  <2>3. f \in [1..k -> Q]
    BY <2>1
  <2>4. IsFiniteSet(Q) /\ Cardinality(Q) = n - Cardinality(R)
    <3>1. (1..n) \cap R = R
      BY <1>3
    <3>2. /\ IsFiniteSet((1..n) \ R)
          /\ Cardinality((1..n) \ R) = Cardinality(1..n) - Cardinality((1..n) \cap R)
      BY <1>3, FS_Difference
    <3>3. QED
      BY <1>3, <3>1, <3>2
  <2> HIDE DEF f, Q
  <2>5. f \in Injection(1..k, Q)
    BY <2>2, <2>3, Fun_IsInj
  <2>6. Cardinality(1..k) <= Cardinality(Q)
    BY <2>4, <2>5, FS_Injection
  <2>7. Cardinality(1..k) = k
    BY FS_Interval
  <2>8. QED
    BY <1>4, <2>4, <2>6, <2>7
<1>7. QED
  BY <1>2, <1>4, <1>5, <1>6

\* Where the percentiles are among n values.
Place(n, tenths) == (tenths * (n - 1) + 5) \div 10 + 1

LEMMA Places ==
    ASSUME NEW n \in Nat, n > 0
    PROVE  /\ Place(n, 1) \in 1..n /\ Place(n, 5) \in 1..n /\ Place(n, 9) \in 1..n
           /\ Place(n, 1) <= Place(n, 5) /\ Place(n, 5) <= Place(n, 9)
           /\ 10 * (n - Place(n, 1) + 1) >= 9 * n - 4
           /\ 2 * (n - Place(n, 5) + 1) >= n /\ 2 * (n - Place(n, 5)) <= n
           /\ 10 * (n - Place(n, 9)) <= n + 4
<1>1. \A a \in Nat : /\ a \div 10 \in Nat
                     /\ 10 * (a \div 10) <= a /\ a < 10 * (a \div 10) + 10
  OBVIOUS
<1>2. /\ Place(n, 1) = (n + 4) \div 10 + 1 /\ Place(n, 5) = (5 * n) \div 10 + 1
      /\ Place(n, 9) = (9 * n - 4) \div 10 + 1
  <2>1. 1 * (n - 1) + 5 = n + 4 /\ 5 * (n - 1) + 5 = 5 * n /\ 9 * (n - 1) + 5 = 9 * n - 4
    OBVIOUS
  <2>2. QED
    BY <2>1 DEF Place
<1> DEFINE a == (n + 4) \div 10
           b == (5 * n) \div 10
           c == (9 * n - 4) \div 10
<1>3. n + 4 \in Nat /\ 5 * n \in Nat /\ 9 * n - 4 \in Nat
  OBVIOUS
<1>4. /\ a \in Nat /\ 10 * a <= n + 4 /\ n + 4 < 10 * a + 10
      /\ b \in Nat /\ 10 * b <= 5 * n /\ 5 * n < 10 * b + 10
      /\ c \in Nat /\ 10 * c <= 9 * n - 4 /\ 9 * n - 4 < 10 * c + 10
  BY <1>1, <1>3
<1>5. Place(n, 1) = a + 1 /\ Place(n, 5) = b + 1 /\ Place(n, 9) = c + 1
  BY <1>2
<1> HIDE DEF a, b, c
<1>6. a < n /\ b < n /\ c < n /\ a <= b /\ b <= c
  BY <1>4
<1>7. QED
  BY <1>4, <1>5, <1>6

-----------------------------------------------------------------------------
(* Plans: what is stored of a value *)

LEMMA Quotient ==
    ASSUME NEW a \in Nat, NEW d \in Nat, d > 0
    PROVE  a \div d \in Nat /\ (a \div d) * d <= a /\ a < (a \div d) * d + d
  BY SMTT(30)

\* Of two quotients by the same number the smaller is smaller by all of it.
LEMMA Multiples ==
    ASSUME NEW p \in Nat, NEW q \in Nat, NEW d \in Nat, d > 0
    PROVE  /\ p < q => p * d + d <= q * d
           /\ p <= q => p * d <= q * d
  BY SMTT(30)

\* The amount that is stored differs from the value by half of the smallest
\* amount at the most.
LEMMA MoneyNear ==
    ASSUME NEW v \in Nat
    PROVE  /\ Plans!money(v) \in Nat
           /\ Plans!money(v) * (2 * Grain) <= 2 * v + Grain
           /\ 2 * v + Grain < Plans!money(v) * (2 * Grain) + 2 * Grain
<1>1. Grain \in Nat /\ Grain > 0
  BY PlansAssumption
<1>2. 2 * v + Grain \in Nat /\ 2 * Grain \in Nat /\ 2 * Grain > 0
  BY <1>1
<1>3. Plans!money(v) = (2 * v + Grain) \div (2 * Grain)
  BY DEF Plans!money
<1>4. QED
  BY <1>2, <1>3, Quotient

\* So an amount that can be written is stored as it is, the order of values is
\* kept, and what is stored above or below a target was not beyond it.
LEMMA MoneyOfWhole ==
    ASSUME NEW i \in Nat
    PROVE  Plans!money(i * Grain) = i
<1> DEFINE q == Plans!money(i * Grain)
           d == 2 * Grain
           v == i * Grain
<1>1. Grain \in Nat /\ Grain > 0 /\ v \in Nat /\ d \in Nat /\ d > 0 /\ Grain < d
  BY PlansAssumption
<1>2. q \in Nat /\ q * d <= 2 * v + Grain /\ 2 * v + Grain < q * d + d
  BY <1>1, MoneyNear
<1>3. 2 * v = i * d
  BY <1>1
<1> HIDE DEF q, d, v
<1>4. /\ q < i => q * d + d <= i * d
      /\ i < q => i * d + d <= q * d
  BY <1>1, <1>2, Multiples
<1>5. q * d \in Nat /\ i * d \in Nat
  BY <1>1, <1>2
<1>6. ~ (q < i) /\ ~ (i < q)
  BY <1>1, <1>2, <1>3, <1>4, <1>5
<1>7. QED
  BY <1>2, <1>6 DEF q, v

LEMMA MoneyKeepsOrder ==
    ASSUME NEW v \in Nat, NEW w \in Nat, v <= w
    PROVE  Plans!money(v) <= Plans!money(w)
<1> DEFINE p == Plans!money(v)
           q == Plans!money(w)
           d == 2 * Grain
<1>1. Grain \in Nat /\ d \in Nat /\ d > 0
  BY PlansAssumption
<1>2. /\ p \in Nat /\ p * d <= 2 * v + Grain
      /\ q \in Nat /\ 2 * w + Grain < q * d + d
  BY MoneyNear
<1> HIDE DEF p, q, d
<1>3. q < p => q * d + d <= p * d
  BY <1>1, <1>2, Multiples
<1>4. p * d \in Nat /\ q * d \in Nat
  BY <1>1, <1>2
<1>5. ~ (q < p)
  BY <1>1, <1>2, <1>3, <1>4
<1>6. QED
  BY <1>2, <1>5 DEF p, q

LEMMA MoneyBeyond ==
    ASSUME NEW v \in Nat, NEW t \in Nat
    PROVE  /\ Plans!money(v) > t => v >= t * Grain
           /\ Plans!money(v) < t => v < t * Grain
<1> DEFINE q == Plans!money(v)
           d == 2 * Grain
           b == t * Grain
<1>1. Grain \in Nat /\ Grain > 0 /\ d \in Nat /\ d > 0 /\ d = 2 * Grain /\ b \in Nat
  BY PlansAssumption
<1>2. q \in Nat /\ q * d <= 2 * v + Grain /\ 2 * v + Grain < q * d + d
  BY MoneyNear
<1>3. t * d = 2 * b
  BY <1>1
<1> HIDE DEF q, d, b
<1>4. /\ t < q => t * d + d <= q * d
      /\ q < t => q * d + d <= t * d
  BY <1>1, <1>2, Multiples
<1>5. q * d \in Nat
  BY <1>1, <1>2
<1>6. /\ t < q => v >= b
      /\ q < t => v < b
  BY <1>1, <1>2, <1>3, <1>4, <1>5
<1>7. QED
  BY <1>2, <1>6 DEF q, b

-----------------------------------------------------------------------------
(* Plans: the values of a path *)

\* A set of numbers has a least one.
LEMMA LeastOf ==
    ASSUME NEW S \in SUBSET Nat, S # {}
    PROVE  \E n \in S : \A m \in S : ~ (m < n)
<1>1. PICK n \in S : \A m \in S : ~ (<<m, n>> \in OpToRel(<, Nat))
  BY WFMin, NatLessThanWellFounded
<1>2. ASSUME NEW m \in S, m < n PROVE <<m, n>> \in OpToRel(<, Nat)
  BY <1>2 DEF OpToRel
<1>3. QED
  BY <1>1, <1>2

PlanRecords == [initial : Nat, contribution : Nat, target : Nat, months : Nat]

\* The value after m months, if f has that of the month before.
Grown(input, growth, f, m) ==
    IF m = 0 THEN input.initial * Grain
    ELSE (f[m - 1] * growth[m]) \div FactorUnit + input.contribution * Grain

\* The values are defined up to the last month: were there a first month up to
\* which they are not, they would be defined up to the one before, and so up
\* to this one.
LEMMA ValuesUnfold ==
    ASSUME NEW input \in PlanRecords, NEW growth
    PROVE  \A m \in 0..input.months :
              Plans!Values(input, growth)[m]
                  = Grown(input, growth, Plans!Values(input, growth), m)
<1> DEFINE Defined(n) == \E f : f = [m \in 0..n |-> Grown(input, growth, f, m)]
           Undefined == {n \in Nat : ~Defined(n)}
<1>1. input.months \in Nat
  BY DEF PlanRecords
<1>2. Defined(0)
  <2> DEFINE f == [m \in 0..0 |-> input.initial * Grain]
  <2>1. \A m \in 0..0 : Grown(input, growth, f, m) = input.initial * Grain
    BY DEF Grown
  <2>2. f = [m \in 0..0 |-> Grown(input, growth, f, m)]
    BY <2>1
  <2>3. QED
    BY <2>2
<1>3. ASSUME NEW n \in Nat, Defined(n) PROVE Defined(n + 1)
  <2>1. PICK f : f = [m \in 0..n |-> Grown(input, growth, f, m)]
    BY <1>3
  <2> DEFINE g == [m \in 0..(n + 1) |-> Grown(input, growth, f, m)]
  <2>2. \A m \in 0..(n + 1) : m # 0 => m - 1 \in 0..n /\ m - 1 \in 0..(n + 1)
    OBVIOUS
  <2>3. ASSUME NEW m \in 0..(n + 1)
        PROVE  Grown(input, growth, g, m) = Grown(input, growth, f, m)
    <3>1. m # 0 => g[m - 1] = Grown(input, growth, f, m - 1)
                   /\ f[m - 1] = Grown(input, growth, f, m - 1)
      BY <2>1, <2>2
    <3>2. QED
      BY <3>1 DEF Grown
  <2>4. g = [m \in 0..(n + 1) |-> Grown(input, growth, g, m)]
    BY <2>3
  <2>5. QED
    BY <2>4
<1> HIDE DEF Defined
<1>4. Undefined = {}
  <2> SUFFICES ASSUME Undefined # {} PROVE FALSE
    OBVIOUS
  <2>1. Undefined \in SUBSET Nat /\ \A n \in Nat : n \in Undefined <=> ~Defined(n)
    OBVIOUS
  <2> HIDE DEF Undefined
  <2>2. PICK n \in Undefined : \A m \in Undefined : ~ (m < n)
    BY <2>1, LeastOf
  <2>3. n # 0 /\ n \in Nat
    BY <1>2, <2>1, <2>2
  <2>4. n - 1 \in Nat /\ n - 1 < n /\ (n - 1) + 1 = n
    BY <2>3
  <2>5. Defined(n - 1)
    BY <2>1, <2>2, <2>4
  <2>6. QED
    BY <1>3, <2>1, <2>2, <2>4, <2>5
<1> DEFINE Loop(f) == f = [m \in 0..input.months |->
                              IF m = 0 THEN input.initial * Grain
                              ELSE (f[m - 1] * growth[m]) \div FactorUnit
                                       + input.contribution * Grain]
<1>5. \E f : Loop(f)
  BY <1>1, <1>4 DEF Defined, Grown
<1>6. Plans!Values(input, growth) = CHOOSE f : Loop(f)
  BY DEF Plans!Values
<1> HIDE DEF Loop
<1>7. Loop(Plans!Values(input, growth))
  BY <1>5, <1>6
<1>8. QED
  BY <1>7 DEF Loop, Grown

\* They are whole numbers.
LEMMA ValuesAreNat ==
    ASSUME NEW input \in PlanRecords, NEW growth \in [1..input.months -> Nat]
    PROVE  \A m \in 0..input.months : Plans!Values(input, growth)[m] \in Nat
<1> DEFINE v == Plans!Values(input, growth)
           Bad == {m \in 0..input.months : v[m] \notin Nat}
<1>1. /\ input.months \in Nat /\ input.initial \in Nat /\ input.contribution \in Nat
      /\ Grain \in Nat /\ FactorUnit \in Nat /\ FactorUnit > 0
  BY PlansAssumption DEF PlanRecords
<1>2. \A m \in 0..input.months : v[m] = Grown(input, growth, v, m)
  BY ValuesUnfold
<1> SUFFICES ASSUME Bad # {} PROVE FALSE
  OBVIOUS
<1>3. Bad \in SUBSET Nat /\ \A m \in 0..input.months : m \in Bad <=> v[m] \notin Nat
  BY <1>1
<1>4. \A m \in Bad : m \in 0..input.months
  OBVIOUS
<1> HIDE DEF Bad, v
<1>5. PICK m \in Bad : \A l \in Bad : ~ (l < m)
  BY <1>3, LeastOf
<1>6. m \in 0..input.months /\ v[m] \notin Nat
  BY <1>3, <1>4
<1>6a. \A a, b \in Nat : a * b \in Nat
  OBVIOUS
<1>7. m # 0
  BY <1>1, <1>2, <1>6, <1>6a DEF Grown
<1>8. m \in 1..input.months /\ m - 1 \in 0..input.months /\ m - 1 < m
  BY <1>1, <1>6, <1>7
<1>9. v[m - 1] \in Nat /\ growth[m] \in Nat
  BY <1>3, <1>5, <1>8
<1>10. v[m] = (v[m - 1] * growth[m]) \div FactorUnit + input.contribution * Grain
  BY <1>2, <1>6, <1>7 DEF Grown
<1>11. (v[m - 1] * growth[m]) \div FactorUnit \in Nat
  <2>1. v[m - 1] * growth[m] \in Nat
    BY <1>6a, <1>9
  <2>2. QED
    BY <1>1, <2>1, Quotient
<1>12. input.contribution * Grain \in Nat
  BY <1>1, <1>6a
<1>13. \A a, b \in Nat : a + b \in Nat
  OBVIOUS
<1>14. QED
  BY <1>6, <1>10, <1>11, <1>12, <1>13

-----------------------------------------------------------------------------
(* Plans: what a run stores *)

\* What the screen puts side by side fits together.
Consistent(run) ==
    LET last == run.points[run.input.months + 1]
        first == run.points[1]
    IN  /\ {first.p10, first.p50, first.p90} = {run.input.initial}
        /\ \A m \in DOMAIN run.points :
              run.points[m].p10 <= run.points[m].p50 /\ run.points[m].p50 <= run.points[m].p90
        /\ last.p50 > run.input.target => 2 * run.goals >= Paths
        /\ last.p50 < run.input.target => 2 * run.goals <= Paths
        /\ last.p10 > run.input.target => 10 * run.goals >= 9 * Paths - 4
        /\ last.p90 < run.input.target => 10 * run.goals <= Paths + 4

LEMMA CountsPlans == ASSUME NEW S PROVE Plans!Cardinality(S) = Cardinality(S)
  BY DEF Plans!Cardinality, Cardinality

\* What is stored of the percentiles are amounts of the values at their places.
LEMMA PointPlaces ==
    ASSUME NEW v \in [1..Paths -> Nat]
    PROVE  /\ Plans!Point(v).p10 = Plans!money(Plans!Sorted(v)[Place(Paths, 1)])
           /\ Plans!Point(v).p50 = Plans!money(Plans!Sorted(v)[Place(Paths, 5)])
           /\ Plans!Point(v).p90 = Plans!money(Plans!Sorted(v)[Place(Paths, 9)])
           /\ \A k \in 1..Paths : \E i \in 1..Paths : Plans!Sorted(v)[k] = v[i]
           /\ Plans!Point(v).p10 <= Plans!Point(v).p50
           /\ Plans!Point(v).p50 <= Plans!Point(v).p90
<1>1. Paths \in Nat /\ Paths > 0 /\ v \in [1..Paths -> Int]
  BY PlansAssumption
<1>2. PICK perm \in [1..Paths -> 1..Paths] :
          /\ \A i, j \in 1..Paths : i < j => v[perm[i]] <= v[perm[j]]
          /\ Plans!Sorted(v) = [i \in 1..Paths |-> v[perm[i]]]
  BY <1>1, SortedAscends
<1> DEFINE s == Plans!Sorted(v)
<1>3. Len(s) = Paths
  BY <1>1, <1>2
<1>4. /\ Place(Paths, 1) \in 1..Paths /\ Place(Paths, 5) \in 1..Paths
      /\ Place(Paths, 9) \in 1..Paths
      /\ Place(Paths, 1) <= Place(Paths, 5) /\ Place(Paths, 5) <= Place(Paths, 9)
  BY <1>1, Places
<1>5. ASSUME NEW tenths PROVE Plans!Percentile(s, tenths) = s[Place(Paths, tenths)]
  BY <1>3 DEF Plans!Percentile, Place
<1>6. Plans!Point(v) = [p10 |-> Plans!money(Plans!Percentile(s, 1)),
                        p50 |-> Plans!money(Plans!Percentile(s, 5)),
                        p90 |-> Plans!money(Plans!Percentile(s, 9))]
  BY DEF Plans!Point
<1>7. /\ Plans!Point(v).p10 = Plans!money(s[Place(Paths, 1)])
      /\ Plans!Point(v).p50 = Plans!money(s[Place(Paths, 5)])
      /\ Plans!Point(v).p90 = Plans!money(s[Place(Paths, 9)])
  BY <1>5, <1>6
<1>8. ASSUME NEW i \in 1..Paths, NEW j \in 1..Paths, i <= j
      PROVE  Plans!money(s[i]) <= Plans!money(s[j])
  <2>1. /\ perm[i] \in 1..Paths /\ v[perm[i]] \in Nat /\ s[i] = v[perm[i]]
        /\ perm[j] \in 1..Paths /\ v[perm[j]] \in Nat /\ s[j] = v[perm[j]]
    BY <1>2
  <2>2. v[perm[i]] <= v[perm[j]]
    <3>1. CASE i = j
      BY <2>1, <3>1
    <3>2. CASE i < j
      BY <1>2, <3>2
    <3>3. QED
      BY <1>8, <3>1, <3>2
  <2>3. QED
    BY <2>1, <2>2, MoneyKeepsOrder
<1>9. \A k \in 1..Paths : \E i \in 1..Paths : s[k] = v[i]
  BY <1>2
<1> HIDE DEF s
<1>10. QED
  BY <1>4, <1>7, <1>8, <1>9 DEF s

\* A run is consistent, whatever its paths draw.
LEMMA RunsAreConsistent ==
    ASSUME NEW input \in Inputs, NEW growths \in [1..Paths -> Plans!Growths(input)]
    PROVE  Consistent(Plans!runSimulation(input, growths))
<1> DEFINE run == Plans!runSimulation(input, growths)
           n == input.months
           At(m) == [p \in 1..Paths |-> Plans!Values(input, growths[p])[m]]
           R == Plans!Reached(input, growths)
<1>1. /\ input \in PlanRecords /\ Paths \in Nat /\ Paths > 0 /\ Factors \subseteq Nat
      /\ n \in Nat /\ input.target \in Nat /\ input.initial \in Nat
      /\ input.target * Grain \in Nat /\ input.initial * Grain \in Nat
  BY PlansAssumption DEF PlanRecords
<1>2. /\ run.input = input /\ run.goals = Cardinality(R)
      /\ run.points = [m \in 1..(n + 1) |->
                          Plans!Point([p \in 1..Paths |-> Plans!Values(input, growths[p])[m - 1]])]
  <2>1. run = [input |-> input, goals |-> Plans!Cardinality(R),
               points |-> [m \in 1..(n + 1) |->
                   Plans!Point([p \in 1..Paths |-> Plans!Values(input, growths[p])[m - 1]])]]
    BY DEF Plans!runSimulation
  <2>2. Plans!Cardinality(R) = Cardinality(R)
    BY CountsPlans
  <2> HIDE DEF run, R
  <2>3. QED
    BY <2>1, <2>2
<1>3. ASSUME NEW p \in 1..Paths, NEW m \in 0..n
      PROVE  Plans!Values(input, growths[p])[m] \in Nat
  <2>1. growths[p] \in [1..n -> Nat]
    BY <1>1 DEF Plans!Growths
  <2>2. QED
    BY <1>1, <2>1, ValuesAreNat
<1>4. ASSUME NEW m \in 0..n PROVE At(m) \in [1..Paths -> Nat]
  BY <1>3
<1>5. \A p \in 1..Paths : At(0)[p] = input.initial * Grain
  <2>1. ASSUME NEW p \in 1..Paths
        PROVE  Plans!Values(input, growths[p])[0] = input.initial * Grain
    <3>1. 0 \in 0..n
      BY <1>1
    <3>2. QED
      BY <1>1, <3>1, ValuesUnfold DEF Grown
  <2>2. QED
    BY <2>1
<1>6. R = {p \in 1..Paths : At(n)[p] >= input.target * Grain}
  BY DEF Plans!Reached
<1>7. \A m \in 1..(n + 1) : m - 1 \in 0..n /\ run.points[m] = Plans!Point(At(m - 1))
  BY <1>1, <1>2
<1>8. 1 \in 1..(n + 1) /\ n + 1 \in 1..(n + 1) /\ 0 \in 0..n /\ n \in 0..n
      /\ 1 - 1 = 0 /\ (n + 1) - 1 = n /\ DOMAIN run.points = 1..(n + 1)
  BY <1>1, <1>2
<1>9. run.points[1] = Plans!Point(At(0)) /\ run.points[n + 1] = Plans!Point(At(n))
  BY <1>7, <1>8
<1> HIDE DEF run, n, At, R
<1>10. {run.points[1].p10, run.points[1].p50, run.points[1].p90} = {input.initial}
  <2>1. At(0) \in [1..Paths -> Nat]
    BY <1>4, <1>8
  <2>2. /\ Place(Paths, 1) \in 1..Paths /\ Place(Paths, 5) \in 1..Paths
        /\ Place(Paths, 9) \in 1..Paths
    BY <1>1, Places
  <2>3. \A k \in 1..Paths : Plans!Sorted(At(0))[k] = input.initial * Grain
    BY <1>5, <2>1, PointPlaces
  <2>4. Plans!money(input.initial * Grain) = input.initial
    BY <1>1, MoneyOfWhole
  <2>5. QED
    BY <1>9, <2>1, <2>2, <2>3, <2>4, PointPlaces
<1>11. ASSUME NEW m \in DOMAIN run.points
       PROVE  /\ run.points[m].p10 <= run.points[m].p50
              /\ run.points[m].p50 <= run.points[m].p90
  <2>1. m - 1 \in 0..n /\ run.points[m] = Plans!Point(At(m - 1))
    BY <1>7, <1>8
  <2>2. At(m - 1) \in [1..Paths -> Nat]
    BY <1>4, <2>1
  <2>3. QED
    BY <2>1, <2>2, PointPlaces
<1> DEFINE last == Plans!Point(At(n))
           t == input.target
<1>12. /\ Cardinality(R) \in Nat
       /\ last.p10 > t => Cardinality(R) >= Paths - Place(Paths, 1) + 1
       /\ last.p50 > t => Cardinality(R) >= Paths - Place(Paths, 5) + 1
       /\ last.p50 < t => Cardinality(R) <= Paths - Place(Paths, 5)
       /\ last.p90 < t => Cardinality(R) <= Paths - Place(Paths, 9)
  <2>1. At(n) \in [1..Paths -> Nat] /\ At(n) \in [1..Paths -> Int]
    BY <1>4, <1>8
  <2>2. /\ Place(Paths, 1) \in 1..Paths /\ Place(Paths, 5) \in 1..Paths
        /\ Place(Paths, 9) \in 1..Paths
    BY <1>1, Places
  <2>3. t \in Nat /\ t * Grain \in Int
    BY <1>1
  <2> HIDE DEF t
  <2>4. ASSUME NEW k \in 1..Paths
        PROVE  /\ Cardinality(R) \in Nat
               /\ Plans!money(Plans!Sorted(At(n))[k]) > t => Cardinality(R) >= Paths - k + 1
               /\ Plans!money(Plans!Sorted(At(n))[k]) < t => Cardinality(R) <= Paths - k
    <3> DEFINE s == Plans!Sorted(At(n))[k]
    <3>1. R = {p \in 1..Paths : At(n)[p] >= t * Grain}
      BY <1>6 DEF t
    <3>2. s \in Nat
      BY <2>1, PointPlaces
    <3>3. /\ Cardinality(R) \in Nat
          /\ s >= t * Grain => Cardinality(R) >= Paths - k + 1
          /\ s < t * Grain => Cardinality(R) <= Paths - k
      BY <1>1, <2>1, <2>3, <3>1, PlaceTellsCount
    <3> HIDE DEF s
    <3>4. /\ Plans!money(s) > t => s >= t * Grain
          /\ Plans!money(s) < t => s < t * Grain
      BY <2>3, <3>2, MoneyBeyond
    <3>5. QED
      BY <3>3, <3>4 DEF s
  <2>5. /\ last.p10 = Plans!money(Plans!Sorted(At(n))[Place(Paths, 1)])
        /\ last.p50 = Plans!money(Plans!Sorted(At(n))[Place(Paths, 5)])
        /\ last.p90 = Plans!money(Plans!Sorted(At(n))[Place(Paths, 9)])
    BY <2>1, PointPlaces
  <2> HIDE DEF last
  <2>6. QED
    BY <2>2, <2>4, <2>5
<1>13. /\ last.p10 > t => 10 * Cardinality(R) >= 9 * Paths - 4
       /\ last.p50 > t => 2 * Cardinality(R) >= Paths
       /\ last.p50 < t => 2 * Cardinality(R) <= Paths
       /\ last.p90 < t => 10 * Cardinality(R) <= Paths + 4
  <2> DEFINE a == Place(Paths, 1)
             b == Place(Paths, 5)
             c == Place(Paths, 9)
             g == Cardinality(R)
  <2>1. /\ a \in 1..Paths /\ b \in 1..Paths /\ c \in 1..Paths
        /\ 10 * (Paths - a + 1) >= 9 * Paths - 4
        /\ 2 * (Paths - b + 1) >= Paths /\ 2 * (Paths - b) <= Paths
        /\ 10 * (Paths - c) <= Paths + 4
    BY <1>1, Places
  <2> HIDE DEF a, b, c, g
  <2>2. g \in Nat
    BY <1>12 DEF g
  <2>3. /\ g >= Paths - a + 1 => 10 * g >= 9 * Paths - 4
        /\ g >= Paths - b + 1 => 2 * g >= Paths
        /\ g <= Paths - b => 2 * g <= Paths
        /\ g <= Paths - c => 10 * g <= Paths + 4
    BY <1>1, <2>1, <2>2
  <2> HIDE DEF last, t
  <2>4. QED
    BY <1>12, <2>3 DEF a, b, c, g
<1>14. run.points[run.input.months + 1] = last /\ run.input = input /\ run.goals = Cardinality(R)
  BY <1>2, <1>9 DEF n
<1>15. Consistent(run)
  BY <1>10, <1>11, <1>13, <1>14 DEF Consistent
<1>16. QED
  BY <1>15 DEF run

\* What the engine may make of a plan, and of all of them.
RunsOf(input) ==
    {Plans!runSimulation(input, growths) : growths \in [1..Paths -> Plans!Growths(input)]}
Simulated == UNION {RunsOf(input) : input \in Inputs}

\* What is stored is what the engine made of some plan; the mutation and the
\* query of the phone know a stored run if they know one; and what was fetched
\* is such a run.
PlansInv ==
    /\ DOMAIN create = {"pc", "input", "run"} /\ DOMAIN result = {"run", "pc", "data"}
    /\ runs \in Seq(Simulated)
    /\ create.pc = "sent" => create.input \in Inputs
    /\ create.pc \in {"saved", "created"} => create.run \in 1..Len(runs)
    /\ result.run # 0 \/ result.pc = "fetching" => result.run \in 1..Len(runs)
    /\ \A i \in DOMAIN result.data : result.data[i] \in Simulated

LEMMA PlansInit == Plans!Init => PlansInv
<1> SUFFICES ASSUME Plans!Init PROVE PlansInv
  OBVIOUS
<1>1. /\ create = [pc |-> "idle", input |-> Plans!NoInput, run |-> 0]
      /\ result = [run |-> 0, pc |-> "idle", data |-> <<>>] /\ runs = <<>>
  BY DEF Plans!Init, Plans!NoCreate, Plans!NoResult
<1>2. \A i \in DOMAIN result.data : result.data[i] \in Simulated
  BY <1>1
<1>3. QED
  BY <1>1, <1>2 DEF PlansInv

LEMMA PlansKept == PlansInv /\ UNCHANGED planVars => PlansInv'
  BY DEF PlansInv, planVars

\* What the phone does leaves the stored runs alone.
LEMMA PlansPhone ==
    ASSUME PlansInv,
           \/ \E input \in Inputs : Plans!Submit(input)
           \/ Plans!Created \/ Plans!CreateFails
    PROVE  PlansInv'
<1>1. DOMAIN create = {"pc", "input", "run"} /\ DOMAIN result = {"run", "pc", "data"}
      /\ \A i \in 1..Len(runs) : runs[i] \in Simulated
  BY DEF PlansInv
<1>2. ASSUME NEW input \in Inputs, Plans!Submit(input) PROVE PlansInv'
  <2>1. create' = [pc |-> "sent", input |-> input, run |-> 0] /\ UNCHANGED <<result, runs>>
    BY <1>2 DEF Plans!Submit, Plans!NoCreate
  <2>2. QED
    BY <2>1 DEF PlansInv
<1>3. CASE Plans!Created
  <2>1. /\ create' = [pc |-> "idle", input |-> Plans!NoInput, run |-> 0]
        /\ result' = [run |-> create.run, pc |-> "fetching", data |-> <<>>]
        /\ create.pc = "created" /\ runs' = runs
    BY <1>3 DEF Plans!Created, Plans!NoCreate
  <2>2. DOMAIN result'.data = {}
    BY <2>1
  <2>3. result'.run \in 1..Len(runs)
    BY <2>1 DEF PlansInv
  <2>4. QED
    BY <2>1, <2>2, <2>3 DEF PlansInv
<1>4. CASE Plans!CreateFails
  <2>1. /\ create' = [pc |-> "idle", input |-> Plans!NoInput, run |-> 0]
        /\ UNCHANGED <<result, runs>>
    BY <1>4 DEF Plans!CreateFails, Plans!NoCreate
  <2>2. QED
    BY <2>1 DEF PlansInv
<1>5. QED
  BY <1>2, <1>3, <1>4

LEMMA PlansQuery ==
    ASSUME PlansInv, Plans!Fetched \/ Plans!FetchFails \/ Plans!Refetch
    PROVE  PlansInv'
<1>1. /\ DOMAIN create = {"pc", "input", "run"} /\ DOMAIN result = {"run", "pc", "data"}
      /\ runs \in Seq(Simulated)
  BY DEF PlansInv
<1>2. CASE Plans!Fetched
  <2>1. /\ result.pc = "fetching" /\ UNCHANGED <<create, runs>>
        /\ result' = [result EXCEPT !.pc = "idle", !.data = <<runs[result.run]>>]
    BY <1>2 DEF Plans!Fetched
  <2>2. result.run \in 1..Len(runs)
    BY <2>1 DEF PlansInv
  <2>3. /\ DOMAIN result' = {"run", "pc", "data"} /\ result'.run = result.run
        /\ result'.data = <<runs[result.run]>>
    BY <1>1, <2>1
  <2>4. runs[result.run] \in Simulated
    BY <1>1, <2>2
  <2>5. \A i \in DOMAIN result'.data : result'.data[i] \in Simulated
    BY <2>3, <2>4
  <2>6. QED
    BY <2>1, <2>2, <2>3, <2>5 DEF PlansInv
<1>3. CASE Plans!FetchFails
  <2>1. /\ result.pc = "fetching" /\ UNCHANGED <<create, runs>>
        /\ result' = [result EXCEPT !.pc = "idle"]
    BY <1>3 DEF Plans!FetchFails
  <2>2. /\ DOMAIN result' = {"run", "pc", "data"} /\ result'.run = result.run
        /\ result'.data = result.data
    BY <1>1, <2>1
  <2>3. QED
    BY <2>1, <2>2 DEF PlansInv
<1>4. CASE Plans!Refetch
  <2>1. /\ result.run # 0 /\ UNCHANGED <<create, runs>>
        /\ result' = [result EXCEPT !.pc = "fetching"]
    BY <1>4 DEF Plans!Refetch
  <2>2. /\ DOMAIN result' = {"run", "pc", "data"} /\ result'.run = result.run
        /\ result'.data = result.data
    BY <1>1, <2>1
  <2>3. QED
    BY <2>1, <2>2 DEF PlansInv
<1>5. QED
  BY <1>2, <1>3, <1>4

\* The service appends a run, and goes on with it.
LEMMA PlansService ==
    ASSUME PlansInv, Plans!Run \/ Plans!Refuse \/ Plans!Audit
    PROVE  PlansInv'
<1>1. /\ DOMAIN create = {"pc", "input", "run"} /\ DOMAIN result = {"run", "pc", "data"}
      /\ runs \in Seq(Simulated)
  BY DEF PlansInv
<1>2. CASE Plans!Run
  <2>1. PICK growths \in [1..Paths -> Plans!Growths(create.input)] :
            runs' = Append(runs, Plans!runSimulation(create.input, growths))
    BY <1>2 DEF Plans!Run
  <2>2. /\ create.pc = "sent" /\ result' = result
        /\ create' = [create EXCEPT !.pc = "saved", !.run = Len(runs) + 1]
    BY <1>2 DEF Plans!Run
  <2>3. create.input \in Inputs
    BY <2>2 DEF PlansInv
  <2> DEFINE run == Plans!runSimulation(create.input, growths)
  <2>4. run \in Simulated
    <3>1. run \in RunsOf(create.input)
      BY <2>1 DEF RunsOf
    <3>2. QED
      BY <2>3, <3>1 DEF Simulated
  <2>5. runs' = Append(runs, run)
    BY <2>1
  <2> HIDE DEF run
  <2>6. /\ runs' \in Seq(Simulated) /\ Len(runs') = Len(runs) + 1 /\ Len(runs) \in Nat
    BY <1>1, <2>4, <2>5
  <2>7. /\ DOMAIN create' = {"pc", "input", "run"} /\ create'.pc = "saved"
        /\ create'.run = Len(runs) + 1
    BY <1>1, <2>2
  <2>8. 1..Len(runs) \subseteq 1..Len(runs') /\ create'.run \in 1..Len(runs')
    BY <2>6, <2>7
  <2>9. result.run # 0 \/ result.pc = "fetching" => result.run \in 1..Len(runs')
    BY <2>8 DEF PlansInv
  <2>10. QED
    BY <2>2, <2>6, <2>7, <2>8, <2>9 DEF PlansInv
<1>3. CASE Plans!Refuse
  <2>1. create' = [create EXCEPT !.pc = "refused"] /\ UNCHANGED <<result, runs>>
    BY <1>3 DEF Plans!Refuse
  <2>2. DOMAIN create' = {"pc", "input", "run"} /\ create'.pc = "refused"
    BY <1>1, <2>1
  <2>3. QED
    BY <2>1, <2>2 DEF PlansInv
<1>4. CASE Plans!Audit
  <2>1. /\ create.pc = "saved" /\ UNCHANGED <<result, runs>>
        /\ \/ create' = [create EXCEPT !.pc = "created"]
           \/ create' = [create EXCEPT !.pc = "refused"]
    BY <1>4 DEF Plans!Audit
  <2>2. /\ DOMAIN create' = {"pc", "input", "run"} /\ create'.pc \in {"created", "refused"}
        /\ create'.run = create.run /\ create.run \in 1..Len(runs)
    BY <1>1, <2>1 DEF PlansInv
  <2>3. QED
    BY <2>1, <2>2 DEF PlansInv
<1>5. QED
  BY <1>2, <1>3, <1>4

LEMMA PlansAlways == PlatformSpec => []PlansInv
<1>1. PlatformInit => PlansInv
  BY PlansInit DEF PlatformInit
<1>2. PlansInv /\ [PlatformNext]_platformVars => PlansInv'
  <2>1. PlansInv /\ Plans!Next => PlansInv'
    BY PlansPhone, PlansQuery, PlansService DEF Plans!Next
  <2>2. QED
    BY <2>1, Frame, PlansKept
<1>3. QED
  BY <1>1, <1>2, PTL DEF PlatformSpec

LEMMA FetchedIsConsistent == PlansInv => ResultIsConsistent
<1> SUFFICES ASSUME PlansInv, NEW i \in DOMAIN result.data
             PROVE  Consistent(result.data[i])
  BY DEF ResultIsConsistent, Plans!ResultIsConsistent, Consistent
<1>1. result.data[i] \in Simulated
  BY DEF PlansInv
<1>2. PICK input \in Inputs : result.data[i] \in RunsOf(input)
  BY <1>1 DEF Simulated
<1>3. PICK growths \in [1..Paths -> Plans!Growths(input)] :
          result.data[i] = Plans!runSimulation(input, growths)
  BY <1>2 DEF RunsOf
<1>4. QED
  BY <1>3, RunsAreConsistent

\* What the screen shows of a simulation fits together, for any plan, number of
\* paths, number of months and draws, though the percentiles are rounded when
\* they are stored and the goals are counted before: the chart begins at the
\* initial assets and is ordered in every month, and the probability of the goal
\* agrees with where the target lies in the spread of the last month, if it is
\* not shown equal to a percentile (runSimulation, percentile, money, create,
\* get).
THEOREM ResultsAreConsistent == PlatformSpec => []ResultIsConsistent
  BY PlansAlways, FetchedIsConsistent, PTL
=============================================================================
