---------------------------- MODULE AuthSession ----------------------------
(***************************************************************************)
(* The session of the mobile app (shared/auth, shared/api): an access      *)
(* token in memory, a refresh token in the secure store, the presence that *)
(* decides between the login screen and the app, a coordinator that        *)
(* refreshes for all requests at a time, and requests that refresh after a *)
(* 401 and are then sent once more.                                        *)
(*                                                                         *)
(* JavaScript runs to the next await: that is one step.  Operations of the *)
(* secure store take effect in the order in which they are issued, and     *)
(* their callers go on later.  The provider rotates the refresh token with *)
(* every refresh and accepts only the newest one of a session.             *)
(***************************************************************************)
EXTENDS Naturals

CONSTANTS
    Sessions,     \* logins; each begins a session at the provider
    Requests,     \* API requests that can be under way at a time
    MaxRefreshes  \* bound on the refreshes of a session

VARIABLES
    accessToken,   \* the access token in memory
    storedToken,   \* the refresh token in the secure store
    presence,      \* SessionPresence
    op,            \* the login or logout under way: [pc, token]
    activeRefresh, \* the refresh all requests share: [pc, token]
    sending,       \* where each request is: [pc, token]
    newestToken,   \* the provider's newest refresh token of each session, 0 if none
    user,          \* history: the session the user has logged in to, if any
    broken,        \* history: the secure store has failed to delete the token
    disturbed,     \* history: a login or logout overlapped with a refresh or with the
                   \* clearing after a second 401, or that began during a refresh
    rotatedAway    \* history: sessions whose last rotation was lost by a restart

vars == <<accessToken, storedToken, presence, op, activeRefresh, sending, newestToken,
          user, broken, disturbed, rotatedAway>>

None == [session |-> "none", n |-> 0]
Token == {None} \cup [session : Sessions, n : 1..(MaxRefreshes + 1)]
NoOp == [pc |-> "none", token |-> None]
NoRefresh == [pc |-> "idle", token |-> None]
NoRequest == [pc |-> "idle", token |-> None]

Init ==
    /\ accessToken = None /\ storedToken = None /\ presence = "unknown"
    /\ op = NoOp /\ activeRefresh = NoRefresh
    /\ sending = [r \in Requests |-> NoRequest]
    /\ newestToken = [s \in Sessions |-> 0]
    /\ user = "none" /\ broken = FALSE /\ disturbed = FALSE /\ rotatedAway = {}

Disturb(overlap) == disturbed' = (disturbed \/ overlap)
Refreshed == activeRefresh.pc # "idle"
Clearing == \E r \in Requests : sending[r].pc = "clearing"

\* deleteItemAsync; its failure leaves the token.
DeleteStored ==
    \/ storedToken' = None /\ UNCHANGED broken
    \/ UNCHANGED storedToken /\ broken' = TRUE

-----------------------------------------------------------------------------
(* Boot, login and logout *)

\* inspectSessionPresence, at boot and when the user retries: the session of
\* the stored token goes on, or the store fails to read it.
Inspect ==
    /\ presence \in {"unknown", "unavailable"}
    /\ \/ /\ presence' = IF storedToken = None THEN "absent" ELSE "active"
          /\ user' = storedToken.session
       \/ presence' = "unavailable" /\ UNCHANGED user
    /\ UNCHANGED <<accessToken, storedToken, op, activeRefresh, sending, newestToken,
                   broken, disturbed, rotatedAway>>

Refreshable(token) ==
    token # None /\ token.n = newestToken[token.session] /\ token.n <= MaxRefreshes
Rotates(token) == newestToken' = [newestToken EXCEPT ![token.session] = @ + 1]

\* The process is killed and started again, maybe after the provider rotated
\* the token and before its answer arrived.
Restart ==
    /\ accessToken' = None /\ presence' = "unknown" /\ op' = NoOp
    /\ activeRefresh' = NoRefresh /\ sending' = [r \in Requests |-> NoRequest]
    /\ \/ UNCHANGED <<newestToken, rotatedAway>>
       \/ /\ activeRefresh.pc = "calling" /\ Refreshable(activeRefresh.token)
          /\ Rotates(activeRefresh.token)
          /\ rotatedAway' = rotatedAway \cup {activeRefresh.token.session}
    /\ UNCHANGED <<storedToken, user, broken, disturbed>>

\* The user authorizes, and establish issues the write of the refresh token;
\* when that fails the session is cleared and the login fails.
Login(s) ==
    /\ presence = "absent" /\ op = NoOp /\ Disturb(Refreshed \/ Clearing)
    /\ newestToken[s] = 0
    /\ newestToken' = [newestToken EXCEPT ![s] = 1]
    /\ \/ /\ storedToken' = [session |-> s, n |-> 1]
          /\ op' = [pc |-> "login", token |-> storedToken']
          /\ UNCHANGED <<accessToken, broken>>
       \/ accessToken' = None /\ DeleteStored /\ UNCHANGED op
    /\ UNCHANGED <<presence, activeRefresh, sending, user, rotatedAway>>

LoggedIn ==
    /\ op.pc = "login"
    /\ accessToken' = op.token /\ presence' = "active" /\ op' = NoOp
    /\ user' = op.token.session
    /\ UNCHANGED <<storedToken, activeRefresh, sending, newestToken, broken, disturbed,
                   rotatedAway>>

\* clear, called by the screens; it throws when the store fails.
\* Mutant: the access token stays in memory.
LogoutStored ==
    /\ presence = "active" /\ op = NoOp /\ Disturb(Refreshed \/ Clearing)
    /\ DeleteStored
    /\ op' = IF broken' = broken THEN [pc |-> "logout", token |-> None] ELSE op
    /\ UNCHANGED <<accessToken, presence, activeRefresh, sending, newestToken, user,
                   rotatedAway>>

Logout ==
    /\ presence = "active" /\ op = NoOp /\ Disturb(Refreshed \/ Clearing)
    /\ accessToken' = None
    /\ DeleteStored
    /\ op' = IF broken' = broken THEN [pc |-> "logout", token |-> None] ELSE op
    /\ UNCHANGED <<presence, activeRefresh, sending, newestToken, user,
                   rotatedAway>>

LoggedOut ==
    /\ op.pc = "logout"
    /\ presence' = "absent" /\ op' = NoOp /\ user' = "none"
    /\ UNCHANGED <<accessToken, storedToken, activeRefresh, sending, newestToken, broken,
                   disturbed, rotatedAway>>

-----------------------------------------------------------------------------
(* The refresh coordinator *)

\* refreshAccessToken: join the refresh under way, or read the stored token.
JoinRefresh ==
    /\ activeRefresh' = IF Refreshed THEN activeRefresh
                                     ELSE [pc |-> "calling", token |-> storedToken]
    /\ Disturb(~ Refreshed /\ op # NoOp)

Rotated(token) == [token EXCEPT !.n = @ + 1]

\* The provider answers with a new pair of tokens; the write is issued.
RefreshAnswers ==
    /\ activeRefresh.pc = "calling" /\ Refreshable(activeRefresh.token)
    /\ Rotates(activeRefresh.token)
    /\ storedToken' = Rotated(activeRefresh.token)
    /\ activeRefresh' = [pc |-> "writing", token |-> Rotated(activeRefresh.token)]
    /\ UNCHANGED <<accessToken, presence, op, sending, user, broken, disturbed,
                   rotatedAway>>

\* performRefresh resolves, and the requests that wait for it go on: to their
\* first try, or to a replay if their method is safe.
Resumed(r, replayed) ==
    CASE sending[r].pc = "first" -> [pc |-> "sent", token |-> accessToken']
      [] sending[r].pc = "again" -> IF r \in replayed
                                    THEN [pc |-> "resent", token |-> accessToken']
                                    ELSE NoRequest
      [] OTHER -> sending[r]

RefreshSucceeds ==
    /\ activeRefresh.pc = "writing"
    /\ accessToken' = activeRefresh.token /\ activeRefresh' = NoRefresh
    /\ \E replayed \in SUBSET Requests : sending' = [r \in Requests |-> Resumed(r, replayed)]
    /\ UNCHANGED <<storedToken, presence, op, newestToken, user, broken, disturbed,
                   rotatedAway>>

\* The call of the provider or the write of its answer fails, or there is no
\* token to refresh: clearLocalSession.  The provider may have rotated.
\* Mutant: a missing token is not handled.
Failing ==
    \/ activeRefresh.pc = "writing" /\ UNCHANGED newestToken
    \/ activeRefresh.pc = "calling" /\ UNCHANGED newestToken
    \/ /\ activeRefresh.pc = "calling" /\ Refreshable(activeRefresh.token)
       /\ Rotates(activeRefresh.token)

RefreshFailsWithToken ==
    /\ Failing /\ activeRefresh.token # None
    /\ accessToken' = None /\ DeleteStored
    /\ activeRefresh' = [activeRefresh EXCEPT !.pc = "expiring"]
    /\ UNCHANGED <<presence, op, sending, user, disturbed, rotatedAway>>

RefreshFails ==
    /\ Failing
    /\ accessToken' = None /\ DeleteStored
    /\ activeRefresh' = [activeRefresh EXCEPT !.pc = "expiring"]
    /\ UNCHANGED <<presence, op, sending, user, disturbed, rotatedAway>>

\* onSessionExpired, and the requests that wait for the refresh fail.
Expired ==
    /\ activeRefresh.pc = "expiring"
    /\ activeRefresh' = NoRefresh
    /\ presence' = "absent" /\ user' = "none"
    /\ sending' = [r \in Requests |->
                  IF sending[r].pc \in {"first", "again"} THEN NoRequest ELSE sending[r]]
    /\ UNCHANGED <<accessToken, storedToken, op, newestToken, broken, disturbed,
                   rotatedAway>>

-----------------------------------------------------------------------------
(* Requests *)

\* AuthenticatedFetch.request.
Request(r) ==
    /\ presence = "active" /\ sending[r] = NoRequest
    /\ IF accessToken # None
       THEN /\ sending' = [sending EXCEPT ![r] = [pc |-> "sent", token |-> accessToken]]
            /\ UNCHANGED <<activeRefresh, disturbed>>
       ELSE /\ sending' = [sending EXCEPT ![r].pc = "first"]
            /\ JoinRefresh
    /\ UNCHANGED <<accessToken, storedToken, presence, op, newestToken, user, broken,
                   rotatedAway>>

\* The answer to the first or the second try, whatever it is but a 401.
Answered(r) ==
    /\ sending[r].pc \in {"sent", "resent"}
    /\ sending' = [sending EXCEPT ![r] = NoRequest]
    /\ UNCHANGED <<accessToken, storedToken, presence, op, activeRefresh, newestToken,
                   user, broken, disturbed, rotatedAway>>

\* A 401: another request may have refreshed the token since this one was sent.
Unauthorized(r) ==
    /\ sending[r].pc = "sent"
    /\ IF accessToken \notin {None, sending[r].token}
       THEN /\ sending' \in {[sending EXCEPT ![r] = [pc |-> "resent", token |-> accessToken]],
                         [sending EXCEPT ![r] = NoRequest]}
            /\ UNCHANGED <<activeRefresh, disturbed>>
       ELSE /\ sending' = [sending EXCEPT ![r].pc = "again"]
            /\ JoinRefresh
    /\ UNCHANGED <<accessToken, storedToken, presence, op, newestToken, user, broken,
                   rotatedAway>>

\* A second 401 clears the session; a failure of the store is swallowed.
UnauthorizedAgain(r) ==
    /\ sending[r].pc = "resent"
    /\ Disturb(Refreshed \/ op # NoOp)
    /\ accessToken' = None /\ DeleteStored
    /\ sending' = [sending EXCEPT ![r] =
                      IF broken' = broken THEN [pc |-> "clearing", token |-> None] ELSE NoRequest]
    /\ UNCHANGED <<presence, op, activeRefresh, newestToken, user, rotatedAway>>

Cleared(r) ==
    /\ sending[r].pc = "clearing"
    /\ presence' = "absent" /\ user' = "none"
    /\ sending' = [sending EXCEPT ![r] = NoRequest]
    /\ UNCHANGED <<accessToken, storedToken, op, activeRefresh, newestToken, broken,
                   disturbed, rotatedAway>>

-----------------------------------------------------------------------------
Refreshing == RefreshAnswers \/ RefreshSucceeds \/ RefreshFails \/ Expired
Going(r) == Answered(r) \/ Unauthorized(r) \/ UnauthorizedAgain(r) \/ Cleared(r)

Next ==
    \/ Inspect \/ Restart
    \/ \E s \in Sessions : Login(s)
    \/ LoggedIn \/ Logout \/ LoggedOut
    \/ Refreshing
    \/ \E r \in Requests : Request(r) \/ Going(r)

Spec == Init /\ [][Next]_vars

\* Calls of the provider, of the API and of the store come back.
FairSpec ==
    /\ Spec
    /\ WF_vars(Refreshing)
    /\ \A r \in Requests : WF_vars(Going(r))

-----------------------------------------------------------------------------
(* Properties *)

TypeOK ==
    /\ accessToken \in Token /\ storedToken \in Token
    /\ presence \in {"unknown", "active", "absent", "unavailable"}
    /\ op \in [pc : {"none", "login", "logout"}, token : Token]
    /\ activeRefresh \in [pc : {"idle", "calling", "writing", "expiring"}, token : Token]
    /\ sending \in [Requests -> [pc : {"idle", "first", "sent", "again", "resent", "clearing"},
                             token : Token]]
    /\ newestToken \in [Sessions -> 0..(MaxRefreshes + 1)]
    /\ user \in Sessions \cup {"none"}
    /\ broken \in BOOLEAN /\ disturbed \in BOOLEAN
    /\ rotatedAway \subseteq Sessions

\* Nothing is under way that will still touch the session, and every token
\* that was to be deleted is.
Quiet ==
    /\ op = NoOp /\ activeRefresh = NoRefresh /\ ~ broken
    /\ \A r \in Requests : sending[r].pc # "clearing"

\* Once the login screen is shown no token is left, in memory or in the
\* store, after a logout, an expired session or a refresh that failed.
Forgotten == Quiet /\ presence = "absent" => accessToken = None /\ storedToken = None

\* The same in a behaviour that is not disturbed: no login or logout has yet
\* overlapped with a refresh or with the clearing after a second 401, and no such
\* clearing has begun during a refresh.  Requests may be under way all the time.
LoggedOutForgets == ~ disturbed => Forgotten

\* The access token in memory belongs to the session of the user who is
\* logged in, under the same condition and if no deletion has failed.
OneUser == accessToken # None /\ ~ broken /\ ~ disturbed => accessToken.session = user

\* While the app is shown its session can be refreshed, under the same two
\* conditions: the stored token is the newest one of its session, unless a
\* restart has lost the answer to a refresh of that session.
ActiveCanRefresh ==
    Quiet /\ presence = "active" /\ ~ disturbed =>
        /\ storedToken # None
        /\ storedToken.session \notin rotatedAway =>
              storedToken.n = newestToken[storedToken.session]

\* Tokens, presence and user agree, through restarts, refused refreshes, lost
\* answers and requests at any time, until a deletion fails or a login, a logout,
\* a clearing and a refresh overlap as LoggedOutForgets says.
TokensAgree == LoggedOutForgets /\ OneUser /\ ActiveCanRefresh

\* Every request of the app ends, the ones that wait for the shared refresh
\* included, however logins, logouts and other requests interleave with it.
RequestsEnd == \A r \in Requests : sending[r].pc # "idle" ~> sending[r].pc = "idle"
=============================================================================
