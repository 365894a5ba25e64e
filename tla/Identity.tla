------------------------------ MODULE Identity ------------------------------
(***************************************************************************)
(* Who a call to the platform API is: the guard that verifies its access   *)
(* token, the user that the first call of an OIDC subject provisions, and  *)
(* the risk profile with its optimistic version (core/auth,                *)
(* modules/identity).  Every authenticated operation of the API begins     *)
(* with these steps, and a client that has just signed in sends several    *)
(* of them at once.                                                        *)
(*                                                                         *)
(* A user bears the name of the call whose transaction created it.  The    *)
(* queries of a transaction are steps of their own: what two first calls   *)
(* race for is the unique key of (issuer, subject).                        *)
(***************************************************************************)
EXTENDS Naturals, Sequences, FiniteSets

CONSTANTS
    Calls,      \* calls of the API
    Subjects,   \* OIDC subjects of one issuer
    NoUser      \* the user of a subject that has none

VARIABLES
    request,    \* each call: [pc, subject, scopes, operation, expected, user, status]
    identity,   \* finapp_oidc_identity: the committed user of each subject
    users,      \* finapp_app_user: committed users
    profile,    \* finapp_risk_profile: who wrote each version after 0, per user
    claim,      \* the call whose open transaction holds the key of a subject
    audited,    \* finapp_audit_event: calls with RISK_PROFILE_UPDATED
    recorded    \* finapp_security_event: calls that the guard turned away

logs == <<audited, recorded>>
vars == <<request, identity, users, profile, claim, logs>>

-----------------------------------------------------------------------------
(* The guard *)

\* An Authorization header as OidcJwtGuard tells them apart.  "forged" is any
\* token that jwtVerify refuses: signature, issuer, audience, expiry.  A token with
\* both scopes passes wherever one of the other two does.
Tokens == {"missing", "forged", "anonymous", "read", "write"}

Scopes(token) == CASE token = "read"  -> {"financial.read"}
                   [] token = "write" -> {"financial.write"}
                   [] OTHER           -> {}

\* Mutant: the handler of the update has no scopes of its own.
RequiredByClass(operation) == {"financial.read"}
\* The scopes of the handler stand in for those of the controller's class.
Required(operation) == IF operation = "read" THEN {"financial.read"} ELSE {"financial.write"}

\* Status of a call after the guard; "anonymous" verifies but has no subject.
Verdict(token, operation) ==
    IF token \in {"missing", "forged", "anonymous"} THEN 401
    ELSE IF Required(operation) \subseteq Scopes(token) THEN 200 ELSE 403

-----------------------------------------------------------------------------
(* Errors of the driver and how the repository reads them *)

UniqueViolation == [code |-> "23505", cause |-> "none"]

\* drizzle-orm 0.45 throws its own error, with what the driver threw as cause.
Wrapped(error) == [code |-> "none", cause |-> error.code]

IsUniqueViolation(error) == error.code = "23505"

-----------------------------------------------------------------------------

Idle == [pc |-> "idle", subject |-> "none", scopes |-> {}, operation |-> "none",
         expected |-> 0, user |-> NoUser, status |-> 0]

Init ==
    /\ request = [c \in Calls |-> Idle]
    /\ identity = [s \in Subjects |-> NoUser]
    /\ users = {}
    /\ profile = [u \in Calls |-> <<>>]
    /\ claim = [s \in Subjects |-> NoUser]
    /\ audited = {} /\ recorded = {}

\* Call c goes on to pc, for user u.
To(c, pc, u) == request' = [request EXCEPT ![c].pc = pc, ![c].user = u]
End(c, status) == request' = [request EXCEPT ![c].pc = "ended", ![c].status = status]

\* recordSafely: the event may not be stored, the call is turned away all the same.
Record(c) == recorded' \in {recorded, recorded \cup {c}}

\* A call arrives and the guard lets it through, as the principal that the token
\* names, or turns it away, and then nothing of it is kept.
Arrive(c, s, operation, token, expected) ==
    LET verdict == Verdict(token, operation)
    IN  /\ request[c].pc = "idle"
        /\ \/ /\ verdict = 200
              /\ request' = [request EXCEPT ![c] =
                    [pc |-> "find", subject |-> s, scopes |-> Scopes(token),
                     operation |-> operation, expected |-> expected,
                     user |-> NoUser, status |-> 0]]
              /\ UNCHANGED recorded
           \/ verdict # 200 /\ End(c, verdict) /\ Record(c)
        /\ UNCHANGED <<identity, users, profile, claim, audited>>

\* validate: a body that is no risk profile is refused before anything is read.
Validate(c) ==
    /\ request[c].pc = "find" /\ request[c].operation = "update"
    /\ End(c, 400)
    /\ UNCHANGED <<identity, users, profile, claim, logs>>

\* provisionFromOidc: look for the user, outside and then inside a transaction.
Find(c) ==
    LET known == identity[request[c].subject] IN
    /\ request[c].pc \in {"find", "findAgain", "findWinner"}
    /\ \/ /\ known # NoUser
          /\ To(c, "known", known)
       \/ /\ known = NoUser
          /\ request[c].pc = "find"
          /\ To(c, "findAgain", NoUser)
       \/ /\ known = NoUser
          /\ request[c].pc = "findAgain"
          /\ To(c, "insert", NoUser)
    /\ UNCHANGED <<identity, users, profile, claim, logs>>

\* What becomes of a call whose insert was refused.
AfterError(c, error) == IF IsUniqueViolation(error) THEN To(c, "findWinner", NoUser)
                                                    ELSE End(c, 500)

\* Mutant: no unique key, so nothing is waited for.
InsertUnchecked(c) ==
    /\ request[c].pc = "insert"
    /\ claim' = [claim EXCEPT ![request[c].subject] = c]
    /\ To(c, "commit", NoUser)
    /\ UNCHANGED <<identity, users, profile, logs>>

\* The insert of the identity waits for a transaction that holds the key, and
\* fails when that one has committed; the user inserted before it is undone.
Insert(c) ==
    LET s == request[c].subject IN
    /\ request[c].pc = "insert"
    /\ claim[s] = NoUser
    /\ \/ /\ identity[s] = NoUser
          /\ claim' = [claim EXCEPT ![s] = c]
          /\ To(c, "commit", NoUser)
       \/ /\ identity[s] # NoUser
          /\ AfterError(c, Wrapped(UniqueViolation))
          /\ UNCHANGED claim
    /\ UNCHANGED <<identity, users, profile, logs>>

\* The transaction commits user, identity and a profile of version 0; the answer
\* to the commit may be lost with the connection.
Commit(c) ==
    LET s == request[c].subject IN
    /\ request[c].pc = "commit"
    /\ identity' = [identity EXCEPT ![s] = c]
    /\ users' = users \cup {c}
    /\ claim' = [claim EXCEPT ![s] = NoUser]
    /\ To(c, "known", c) \/ End(c, 500)
    /\ UNCHANGED <<profile, logs>>

\* A query of an open transaction fails (the connection is lost): rolled back.
Abort(c) ==
    LET s == request[c].subject IN
    /\ request[c].pc = "commit"
    /\ claim' = [claim EXCEPT ![s] = NoUser]
    /\ End(c, 500)
    /\ UNCHANGED <<identity, users, profile, logs>>

\* GET /me and GET /me/risk-profile.
Read(c) ==
    /\ request[c].pc = "known"
    /\ request[c].operation = "read"
    /\ End(c, 200)
    /\ UNCHANGED <<identity, users, profile, claim, logs>>

Version(u) == Len(profile[u])
VersionMatches(c) == Version(request[c].user) = request[c].expected

\* PUT /me/risk-profile: one UPDATE with the expected version in its condition.
\* With the connection its answer is lost, or the UPDATE itself.
Update(c) ==
    LET u == request[c].user IN
    /\ request[c].pc = "known"
    /\ request[c].operation = "update"
    /\ \/ /\ VersionMatches(c)
          /\ profile' = [profile EXCEPT ![u] = Append(@, c)]
          /\ To(c, "audit", u) \/ End(c, 500)
       \/ /\ ~VersionMatches(c)
          /\ End(c, 409)
          /\ UNCHANGED profile
       \/ End(c, 500) /\ UNCHANGED profile
    /\ UNCHANGED <<identity, users, claim, logs>>

\* The audit event is a statement of its own: when it fails, or its answer is
\* lost, the update stays.
Audit(c) ==
    /\ request[c].pc = "audit"
    /\ \/ audited' = audited \cup {c} /\ (End(c, 200) \/ End(c, 500))
       \/ UNCHANGED audited /\ End(c, 500)
    /\ UNCHANGED <<identity, users, profile, claim, recorded>>

Next ==
    \E c \in Calls :
        \/ \E s \in Subjects, t \in Tokens :
              \/ Arrive(c, s, "read", t, 0)
              \/ \E v \in 0..1 : Arrive(c, s, "update", t, v)
        \/ Validate(c) \/ Find(c) \/ Insert(c) \/ Commit(c) \/ Abort(c)
        \/ Read(c) \/ Update(c) \/ Audit(c)

\* The database answers a call that waits for it.
Fairness ==
    \A c \in Calls : WF_vars(Validate(c) \/ Find(c) \/ Insert(c) \/ Commit(c) \/ Read(c)
                                       \/ Update(c) \/ Audit(c))

FairSpec == Init /\ [][Next]_vars /\ Fairness

-----------------------------------------------------------------------------
(* Properties *)

\* Calls of one subject, however they race, work for one user, and no user is
\* left without the identity that leads to it.
OneUserPerSubject ==
    /\ \A c, d \in Calls : /\ request[c].subject = request[d].subject
                           /\ request[c].user # NoUser /\ request[d].user # NoUser
                           => request[c].user = request[d].user
    /\ users = {identity[s] : s \in Subjects} \ {NoUser}

Applied(c) == \E u \in Calls : \E i \in 1..Version(u) : profile[u][i] = c

\* Every version of a profile is the work of one call, over the version that call
\* names, for a token that had the scope to write and whose subject is the
\* user of the profile, however that user was provisioned.
WrittenByRight ==
    \A u \in Calls : \A i \in 1..Version(u) :
        LET call == request[profile[u][i]] IN
        /\ call.expected = i - 1
        /\ "financial.write" \in call.scopes
        /\ identity[call.subject] = u

\* What callers are told, the profiles and the audit trail are one story: an
\* update answered with 200 is applied and audited, one that is refused is not
\* applied, and nothing is audited that is not applied.
AnsweredTruly ==
    \A c \in Calls :
        /\ request[c].operation = "update" /\ request[c].status = 200 => c \in audited
        /\ request[c].status \in {400, 401, 403, 409} => ~Applied(c)
        /\ c \in audited => Applied(c)

\* Both, while calls race for the user and the version, answers are lost, and
\* callers that were answered 500 try once more.
UpdatesAccounted == WrittenByRight /\ AnsweredTruly

\* API_CONTRACTS.md has the first call with a valid token provision the user
\* idempotently: a call that lost the race for the key is served all the same.
LoserIsServed ==
    [][\A c \in Calls : request[c].pc = "insert" => request'[c].status # 500]_vars
=============================================================================
