---------------------------- MODULE RiskProfile ----------------------------
(***************************************************************************)
(* The risk profile on the phone: the entry of the query cache that four   *)
(* screens share (shared/query), the questionnaire of the coach and the    *)
(* form of the settings that both update it with the version they know,    *)
(* and the profile on the server, which other devices update as well.      *)
(*                                                                         *)
(* What a profile says is identified by its version: an update carries     *)
(* along the contents of the version it is based on.  The library lets a   *)
(* mutation run on when its screen is gone, or the whole tree with the     *)
(* query client in it: its answer then goes to the client it began with.   *)
(***************************************************************************)
EXTENDS Naturals, FiniteSets
LOCAL INSTANCE Functions

CONSTANTS
    Users,       \* customers who use this phone one after the other
    Questions,   \* RISK_QUESTIONS; every answer scores 0, 1 or 2
    Saves,       \* updates that can be under way at a time
    MaxVersion   \* bound on the versions of a profile

NoProfile == [user |-> "none", version |-> 0]
Unanswered == 3

VARIABLES
    session,     \* who is logged in, "none" without anyone
    server,      \* version of each customer's profile
    cached,      \* query cache, key risk-profile: [user, version]
    isError,     \* the last fetch of it failed
    fetch,       \* the fetch: [pc, got, failures]
    top,         \* the screen on top
    answers,     \* the answers of the questionnaire, as scores
    resultVisible,
    filled,      \* the profile that the fields of the settings were filled from
    save,        \* updates: [pc, from, orphan, user, expected, basis]
    overdue,     \* updates whose caller has given up and that the server may still get
    mine,        \* the update whose state the screen shows, "none" without one
    blind        \* history: an update replaced a profile it was not made from

screenVars == <<top, answers, resultVisible, filled, mine>>
queryVars == <<cached, isError, fetch>>
updateVars == <<save, overdue, blind>>
vars == <<session, server, queryVars, screenVars, updateVars>>

NoFetch == [pc |-> "none", got |-> NoProfile, failures |-> 0]
NoSave == [pc |-> "none", from |-> "none", orphan |-> FALSE, user |-> "none", expected |-> 0,
           basis |-> NoProfile]
NoAnswers == [q \in Questions |-> Unanswered]

Init ==
    /\ session \in Users
    /\ server = [u \in Users |-> 0]
    /\ cached = NoProfile /\ isError = FALSE /\ fetch = NoFetch
    /\ top = "home" /\ answers = NoAnswers /\ resultVisible = FALSE
    /\ filled = NoProfile /\ mine = "none"
    /\ save = [s \in Saves |-> NoSave]
    /\ overdue = {} /\ blind = FALSE

-----------------------------------------------------------------------------
(* The questionnaire *)

RISK_SCORE_BANDS == <<[maximumScore |-> 2, riskLevel |-> "CONSERVATIVE"],
                      [maximumScore |-> 4, riskLevel |-> "BALANCED"],
                      [maximumScore |-> 6, riskLevel |-> "GROWTH"]>>

\* calculateRiskQuestionnaire: the first band that reaches the score, and
\* nothing before every question is answered.
Score(given) == FoldFunction(+, 0, given)
Complete(given) == \A q \in Questions : given[q] # Unanswered
Reaching(given) == {i \in DOMAIN RISK_SCORE_BANDS : Score(given) <= RISK_SCORE_BANDS[i].maximumScore}
Result(given) ==
    IF ~Complete(given) THEN "none"
    ELSE RISK_SCORE_BANDS[CHOOSE i \in Reaching(given) : \A j \in Reaching(given) : i <= j].riskLevel

-----------------------------------------------------------------------------
(* The query cache *)

\* Mutant: the effect fills the form once.
FillOnce(data) == IF filled = NoProfile THEN data ELSE filled
\* The effect of the settings runs for every new profile of the cache.
Fill(data) == data

\* The entry gets data; the settings, when mounted, fill in their fields.
Cache(data) ==
    /\ cached' = data /\ isError' = FALSE
    /\ filled' = IF top = "settings" /\ data # cached THEN Fill(data) ELSE filled

\* A screen that uses the profile is mounted, the app comes to the foreground,
\* the network is back, or the customer asks for it.
StartFetch ==
    /\ session # "none" /\ top # "home" /\ fetch.pc = "none"
    /\ fetch' = [NoFetch EXCEPT !.pc = "asked"]
    /\ UNCHANGED <<session, server, cached, isError, screenVars, updateVars>>

\* The server reads the profile.
ServerReads ==
    /\ fetch.pc = "asked"
    /\ fetch' = [fetch EXCEPT !.pc = "answered",
                              !.got = [user |-> session, version |-> server[session]]]
    /\ UNCHANGED <<session, server, cached, isError, screenVars, updateVars>>

FetchArrives ==
    /\ fetch.pc = "answered"
    /\ Cache(fetch.got)
    /\ fetch' = NoFetch
    /\ UNCHANGED <<session, server, top, answers, resultVisible, mine, updateVars>>

\* shouldRetryQuery: two retries, of errors that can be retried.
FetchFails(retryable) ==
    /\ fetch.pc # "none"
    /\ IF retryable /\ fetch.failures < 2
         THEN /\ fetch' = [NoFetch EXCEPT !.pc = "asked", !.failures = fetch.failures + 1]
              /\ UNCHANGED isError
         ELSE fetch' = NoFetch /\ isError' = TRUE
    /\ UNCHANGED <<session, server, cached, screenVars, updateVars>>

-----------------------------------------------------------------------------
(* The screens *)

\* A screen is opened from home: its own state is new.
OpenScreen(to) ==
    /\ session # "none" /\ top = "home"
    /\ top' = to
    /\ filled' = IF to = "settings" THEN cached ELSE NoProfile
    /\ UNCHANGED <<session, server, queryVars, answers, resultVisible, mine, updateVars>>

Home == top' = "home" /\ answers' = NoAnswers /\ resultVisible' = FALSE
                         /\ filled' = NoProfile /\ mine' = "none"

Back ==
    /\ top # "home"
    /\ Home
    /\ UNCHANGED <<session, server, queryVars, updateVars>>

isPending == mine # "none" /\ save[mine].pc \in {"sent", "applied", "refused"}
QuestionsShow == top = "risk" /\ cached # NoProfile /\ ~isError

\* selectAnswer; answers may change below a result that is shown.
SelectAnswer(q, score) ==
    /\ QuestionsShow /\ ~isPending
    /\ answers' = [answers EXCEPT ![q] = score]
    /\ mine' = "none"
    /\ UNCHANGED <<session, server, queryVars, top, resultVisible, filled, updateVars>>

ShowResult ==
    /\ QuestionsShow /\ Result(answers) # "none"
    /\ resultVisible' = TRUE
    /\ UNCHANGED <<session, server, queryVars, top, answers, filled, mine, updateVars>>

\* The update of a screen, with the version the cache has now.
Send(s, basis) ==
    /\ save[s].pc = "none"
    /\ save' = [save EXCEPT ![s] = [pc |-> "sent", from |-> top, orphan |-> FALSE,
                                    user |-> session, expected |-> cached.version, basis |-> basis]]
    /\ mine' = s

\* The coach keeps the monthly contribution that the cache has.
SaveResult(s) ==
    /\ QuestionsShow /\ resultVisible /\ Result(answers) # "none" /\ ~isPending
    /\ Send(s, cached)
    /\ UNCHANGED <<session, server, queryVars, top, answers, resultVisible, filled,
                   overdue, blind>>

\* The settings send what their fields say, if it is valid.
SaveForm(s) ==
    /\ top = "settings" /\ cached # NoProfile /\ ~isPending
    /\ Send(s, filled)
    /\ UNCHANGED <<session, server, queryVars, top, answers, resultVisible, filled,
                   overdue, blind>>

-----------------------------------------------------------------------------
(* The server and its answers *)

\* One UPDATE with the version in its condition.
Applies(update) ==
    LET u == update.user IN
    /\ server[u] = update.expected /\ server[u] < MaxVersion
    /\ server' = [server EXCEPT ![u] = @ + 1]
    /\ blind' = (blind \/ update.basis # [user |-> u, version |-> server[u]])
Refused(update) == server[update.user] # update.expected /\ UNCHANGED <<server, blind>>

ServerUpdates(s) ==
    /\ save[s].pc = "sent"
    /\ \/ Applies(save[s]) /\ save' = [save EXCEPT ![s].pc = "applied"]
       \/ Refused(save[s]) /\ save' = [save EXCEPT ![s].pc = "refused"]
    /\ UNCHANGED <<session, queryVars, screenVars, overdue>>

\* The same of an update whose caller has given up: the answer goes nowhere.
ServerUpdatesLate(update) ==
    /\ update \in overdue /\ overdue' = overdue \ {update}
    /\ Applies(update) \/ Refused(update)
    /\ UNCHANGED <<session, queryVars, screenVars, save>>

\* onSuccess: the profile goes to the cache; the coach goes back, whichever
\* screen is on top by then.
SaveSucceeds(s) ==
    LET data == [user |-> save[s].user, version |-> save[s].expected + 1] IN
    /\ save[s].pc = "applied"
    /\ IF save[s].orphan THEN UNCHANGED <<cached, isError>>
                         ELSE cached' = data /\ isError' = FALSE
    /\ IF save[s].from = "risk"
         THEN Home
         ELSE /\ filled' = IF top = "settings" /\ cached' # cached THEN Fill(data) ELSE filled
              /\ mine' = IF mine = s THEN "none" ELSE mine
              /\ UNCHANGED <<top, answers, resultVisible>>
    /\ save' = [save EXCEPT ![s] = NoSave]
    /\ UNCHANGED <<session, server, fetch, overdue, blind>>

\* The conflict, another refusal, or no answer, although the update is applied
\* already or will be.
SaveFails(s) ==
    /\ save[s].pc \in {"sent", "applied", "refused"}
    /\ save' = [save EXCEPT ![s] = NoSave]
    /\ mine' = IF mine = s THEN "none" ELSE mine
    /\ \/ UNCHANGED overdue
       \/ /\ save[s].pc = "sent"
          /\ overdue' = overdue \cup {[user |-> save[s].user, expected |-> save[s].expected,
                                       basis |-> save[s].basis]}
    /\ UNCHANGED <<session, server, queryVars, top, answers, resultVisible, filled, blind>>

\* Another device of the customer updates the profile.
OtherDevice(u) ==
    /\ server[u] < MaxVersion
    /\ server' = [server EXCEPT ![u] = @ + 1]
    /\ UNCHANGED <<session, queryVars, screenVars, updateVars>>

-----------------------------------------------------------------------------
(* The session *)

\* The tree below the login and the lock is gone: the next one has a client of
\* its own, and the updates under way belong to the old one.
Orphaned == save' = [s \in Saves |-> [save[s] EXCEPT !.orphan = save[s].pc # "none"]]

Unmount ==
    /\ cached' = NoProfile /\ isError' = FALSE /\ fetch' = NoFetch
    /\ Home
    /\ Orphaned

\* Logout locks the portfolio too.
Logout ==
    /\ session # "none"
    /\ session' = "none"
    /\ Unmount
    /\ UNCHANGED <<server, overdue, blind>>

\* The app locks after its time in the background.
Lock ==
    /\ session # "none"
    /\ Unmount
    /\ UNCHANGED <<session, server, overdue, blind>>

Login(u) ==
    /\ session = "none"
    /\ session' = u
    /\ UNCHANGED <<server, queryVars, screenVars, updateVars>>

Next ==
    \/ StartFetch \/ ServerReads \/ FetchArrives \/ Back \/ ShowResult
    \/ Logout \/ Lock
    \/ \E retryable \in BOOLEAN : FetchFails(retryable)
    \/ \E to \in {"risk", "settings", "simulation"} : OpenScreen(to)
    \/ \E q \in Questions, score \in 0..2 : SelectAnswer(q, score)
    \/ \E s \in Saves : \/ SaveResult(s) \/ SaveForm(s) \/ ServerUpdates(s)
                        \/ SaveSucceeds(s) \/ SaveFails(s)
    \/ \E update \in overdue : ServerUpdatesLate(update)
    \/ \E u \in Users : OtherDevice(u) \/ Login(u)

Spec == Init /\ [][Next]_vars

-----------------------------------------------------------------------------
(* Properties *)

\* An update never replaces a profile other than the one it was made from:
\* what another device, or an update of this one whose answer was lost, has
\* changed meanwhile is not undone by a form that was filled before.
NoBlindOverwrite == ~blind
=============================================================================
