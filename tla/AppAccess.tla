----------------------------- MODULE AppAccess -----------------------------
(***************************************************************************)
(* What stands between the start of the mobile app and its content: the    *)
(* launch sequence with the keys it keeps in the secure store, the         *)
(* biometric prompt of PortfolioAccessProvider, the lock after a time in   *)
(* the background, and logout and reset, which end the access.             *)
(*                                                                         *)
(* A generation counter tells the prompts of today from those that a lock  *)
(* or a reset overtook; here a prompt is "current" or "stale".  Time is    *)
(* the time passed since the app left the foreground, up to Timeout.       *)
(* Between two awaits JavaScript runs alone; the secure store answers      *)
(* before the user acts again, the prompts and the exits take longer.      *)
(***************************************************************************)
EXTENDS Naturals, FiniteSets

CONSTANTS
    Timeout,  \* ticks in the background after which the app locks
    Prompts,  \* native prompts that can be open at a time
    Exits     \* logouts and resets that can be under way at a time

ASSUME TimeoutAssumption == Timeout \in Nat
ASSUME PromptsAssumption == "none" \notin Prompts

VARIABLES
    app,      \* AppState
    away,     \* clock.now() - backgroundStartedAt
    launch,   \* phase of AppLaunchBoundary
    marks,    \* the keys that LaunchNoticeStore has stored
    saving,   \* the set-up key is being stored: onAuthenticated is under way
    access,   \* phase of PortfolioAccessProvider
    prompt,   \* the native prompts: none, current or stale
    inFlight, \* inFlightRef: the prompt that authenticate() returns
    callers,  \* the launch screens that wait for inFlight
    exit,     \* where each logout or reset is; a reset that failed stays so until
              \* the exit is begun anew
    gone,     \* history: ticks since the app left the foreground or its
              \* content was entered
    fresh,    \* history: the prompts begun since the last lock or reset
    proved    \* history: the user has passed a fresh prompt since the last lock

vars == <<app, away, launch, marks, saving, access, prompt, inFlight, callers, exit,
          gone, fresh, proved>>
accessVars == <<access, prompt, inFlight, callers, fresh, proved>>
timeVars == <<app, away, gone>>

None == "none"
Keys == {"permissions", "onboarding", "verification", "setup"}
Phases == {"splash", "notice", "onboarding", "verification", "setup", "unlock", "ready"}

Init ==
    /\ app = "active" /\ away = 0 /\ gone = 0
    /\ launch = "splash" /\ marks = {} /\ saving = FALSE
    /\ access = "locked" /\ prompt = [p \in Prompts |-> None] /\ inFlight = None
    /\ callers = {} /\ exit = [e \in Exits |-> "idle"]
    /\ fresh = {} /\ proved = FALSE

-----------------------------------------------------------------------------
(* The launch sequence *)

\* resolvePhase.
Resolve(keys) ==
    CASE "permissions" \notin keys  -> "notice"
      [] "onboarding" \notin keys   -> "onboarding"
      [] "verification" \notin keys -> "verification"
      [] "setup" \notin keys        -> "setup"
      [] OTHER                      -> "unlock"

\* setPhase; with "ready" the lifecycle of the content is installed.
Enter(phase) ==
    /\ launch' = phase
    /\ IF phase = "ready" /\ launch # "ready" THEN away' = 0 /\ gone' = 0
                                              ELSE UNCHANGED <<away, gone>>

\* A key whose store fails is read as missing; a mark whose store fails is
\* given up, except the one of the biometric set-up.
Reads == SUBSET marks
Mark(key) == marks' \in {marks, marks \cup {key}}

SplashEnds ==
    /\ launch = "splash"
    /\ \E read \in Reads : Enter(Resolve(read))
    /\ UNCHANGED <<app, marks, saving, accessVars, exit>>

\* Only the confirmed sheet is remembered.
ConfirmNotice ==
    /\ launch = "notice"
    /\ Mark("permissions")
    /\ \E read \in Reads : Enter(Resolve(read \cup {"permissions"}))
    /\ UNCHANGED <<app, saving, accessVars, exit>>

DismissNotice ==
    /\ launch = "notice"
    /\ \E read \in Reads : Enter(Resolve(read \cup {"permissions"}))
    /\ UNCHANGED <<app, marks, saving, accessVars, exit>>

CompleteOnboarding ==
    /\ launch = "onboarding"
    /\ Mark("onboarding")
    /\ \E read \in Reads : Enter(Resolve(read \cup {"permissions", "onboarding"}))
    /\ UNCHANGED <<app, saving, accessVars, exit>>

CompleteVerification ==
    /\ launch = "verification"
    /\ Mark("verification")
    /\ Enter("setup")
    /\ UNCHANGED <<app, saving, accessVars, exit>>

-----------------------------------------------------------------------------
(* Access *)

\* The screen that asks for biometrics: one of the launch sequence, or the
\* one in place of the content.
Screen == CASE launch \in {"setup", "unlock"}               -> launch
            [] launch = "ready" /\ access # "unlocked" -> "content"
            [] OTHER                                        -> None

\* The next generation: prompts that are open are overtaken.
Overtaken == [p \in Prompts |-> IF prompt[p] = None THEN None ELSE "stale"]

\* Mutants: the prompts of before stay current; a new prompt can be opened.
LockKeepingPrompts ==
    /\ access' = "locked" /\ prompt' = prompt
    /\ fresh' = {} /\ proved' = FALSE
    /\ UNCHANGED <<inFlight, callers>>

LockForgettingPrompt ==
    /\ access' = "locked" /\ prompt' = Overtaken /\ inFlight' = None
    /\ fresh' = {} /\ proved' = FALSE
    /\ UNCHANGED callers

Lock ==
    /\ access' = "locked" /\ prompt' = Overtaken
    /\ fresh' = {} /\ proved' = FALSE
    /\ UNCHANGED <<inFlight, callers>>

\* onAuthenticated of the launch screens: the set-up is stored first.
Authenticated(screens) ==
    /\ saving' = (saving \/ "setup" \in screens)
    /\ IF "unlock" \in screens THEN Enter("ready") ELSE UNCHANGED <<launch, away, gone>>

\* The screen starts by itself, or its button is pressed.
Authenticate ==
    /\ app = "active" /\ Screen # None /\ ~ saving /\ access # "authenticating"
    /\ IF access = "unlocked"
       THEN Authenticated({Screen}) /\ UNCHANGED accessVars
       ELSE /\ IF inFlight # None
               THEN callers' = callers \cup {Screen} /\ UNCHANGED <<access, prompt, inFlight, fresh>>
               ELSE \E p \in Prompts :
                      /\ prompt[p] = None
                      /\ prompt' = [prompt EXCEPT ![p] = "current"]
                      /\ inFlight' = p /\ access' = "authenticating" /\ callers' = {Screen}
                      /\ fresh' = fresh \cup {p}
            /\ UNCHANGED <<saving, launch, away, gone, proved>>
    /\ UNCHANGED <<app, marks, exit>>

\* The user passes, fails or cancels, or the prompt reports an error.
\* Mutant: a prompt that rejects is not caught.
Results == {"authenticated", "retry", "blocked"}
Outcome(result) == CASE result = "authenticated" -> "unlocked"
                     [] result = "retry"         -> "locked"
                     [] result = "blocked"       -> "blocked"

PromptEndsOrRejects(p) ==
    /\ prompt[p] # None
    /\ prompt' = [prompt EXCEPT ![p] = None]
    /\ fresh' = fresh \ {p}
    /\ \E result \in Results \cup {"rejected"} :
         /\ inFlight' = IF inFlight = p /\ result # "rejected" THEN None ELSE inFlight
         /\ IF prompt[p] = "current" /\ result # "rejected"
            THEN /\ access' = Outcome(result)
                 /\ proved' = (proved \/ (result = "authenticated" /\ p \in fresh))
            ELSE UNCHANGED <<access, proved>>
         /\ callers' = {}
         /\ IF prompt[p] = "current" /\ result = "authenticated"
            THEN Authenticated(callers)
            ELSE UNCHANGED <<saving, launch, away, gone>>
    /\ UNCHANGED <<app, marks, exit>>

PromptEnds(p) ==
    /\ prompt[p] # None
    /\ prompt' = [prompt EXCEPT ![p] = None]
    /\ inFlight' = IF inFlight = p THEN None ELSE inFlight
    /\ fresh' = fresh \ {p} /\ callers' = {}
    /\ \E result \in Results :
         IF prompt[p] = "current"
         THEN /\ access' = Outcome(result)
              /\ proved' = (proved \/ (result = "authenticated" /\ p \in fresh))
              /\ IF result = "authenticated" THEN Authenticated(callers)
                                             ELSE UNCHANGED <<saving, launch, away, gone>>
         ELSE UNCHANGED <<access, proved, saving, launch, away, gone>>
    /\ UNCHANGED <<app, marks, exit>>

\* The set-up is entered once its key is stored; when that fails, the access
\* locks again.
Save ==
    /\ saving /\ saving' = FALSE
    /\ \/ /\ marks' = marks \cup {"setup"} /\ Enter("ready")
          /\ UNCHANGED accessVars
       \/ Lock /\ UNCHANGED <<launch, marks, away, gone>>
    /\ UNCHANGED <<app, exit>>

-----------------------------------------------------------------------------
(* The lifecycle, the exits and the end of the process *)

\* The listener of AppState; it is installed with the content.
\* Mutant: the departure is noted again on the way to the background.
MoveToRestarting(state) ==
    /\ state # app /\ app' = state
    /\ away' = IF state # "active" THEN 0 ELSE away
    /\ gone' = IF app = "active" THEN 0 ELSE gone
    /\ IF state = "active" /\ launch = "ready" /\ away >= Timeout
       THEN Lock ELSE UNCHANGED accessVars
    /\ UNCHANGED <<launch, marks, saving, exit>>

MoveTo(state) ==
    /\ state # app /\ app' = state
    /\ away' = IF app = "active" THEN 0 ELSE away
    /\ gone' = IF app = "active" THEN 0 ELSE gone
    /\ IF state = "active" /\ launch = "ready" /\ away >= Timeout
       THEN Lock ELSE UNCHANGED accessVars
    /\ UNCHANGED <<launch, marks, saving, exit>>

Tick ==
    /\ app # "active"
    /\ away' = IF away < Timeout THEN away + 1 ELSE away
    /\ gone' = IF gone < Timeout THEN gone + 1 ELSE gone
    /\ UNCHANGED <<app, launch, marks, saving, accessVars, exit>>

\* Pressed in the settings: the session is cleared first.
Leave(e, way) ==
    /\ app = "active" /\ launch = "ready" /\ access = "unlocked"
    /\ exit[e] \in {"idle", "failed"}
    /\ exit' = [exit EXCEPT ![e] = way]
    /\ UNCHANGED <<timeVars, launch, marks, saving, accessVars>>

\* The session is cleared, or that failed: logout locks, reset goes on.
LogoutEnds(e) ==
    /\ exit[e] = "logout"
    /\ exit' = [exit EXCEPT ![e] = "idle"]
    /\ Lock \/ UNCHANGED accessVars
    /\ UNCHANGED <<timeVars, launch, marks, saving>>

ResetGivesUp(e) ==
    /\ exit[e] = "reset"
    /\ exit' = [exit EXCEPT ![e] = "idle"]
    /\ UNCHANGED <<timeVars, launch, marks, saving, accessVars>>

\* PortfolioAccessProvider.reset, up to the removal of the keys.
ResetBegins(e) ==
    /\ exit[e] = "reset"
    /\ exit' = [exit EXCEPT ![e] = "keys"]
    /\ prompt' = Overtaken /\ fresh' = {}
    /\ UNCHANGED <<timeVars, launch, marks, saving, access, inFlight, callers, proved>>

\* The keys are gone: the launch sequence is mounted anew.
ResetEnds(e) ==
    /\ exit[e] = "keys"
    /\ exit' = [exit EXCEPT ![e] = "idle"]
    /\ marks' = {} /\ Enter("splash") /\ saving' = FALSE /\ callers' = {}
    /\ access' = "locked" /\ proved' = FALSE
    /\ UNCHANGED <<app, prompt, inFlight, fresh>>

\* Some keys could not be removed.
ResetFails(e) ==
    /\ exit[e] = "keys"
    /\ exit' = [exit EXCEPT ![e] = "failed"]
    /\ \E kept \in SUBSET marks : marks' = kept
    /\ UNCHANGED <<timeVars, launch, saving, accessVars>>

Restart ==
    /\ app' = "active" /\ away' = 0 /\ gone' = 0
    /\ launch' = "splash" /\ saving' = FALSE
    /\ access' = "locked" /\ prompt' = [p \in Prompts |-> None] /\ inFlight' = None
    /\ callers' = {} /\ exit' = [e \in Exits |-> "idle"]
    /\ fresh' = {} /\ proved' = FALSE
    /\ UNCHANGED marks

-----------------------------------------------------------------------------
Launching == SplashEnds \/ ConfirmNotice \/ DismissNotice \/ CompleteOnboarding
                \/ CompleteVerification
Exiting(e) == LogoutEnds(e) \/ ResetGivesUp(e) \/ ResetBegins(e) \/ ResetEnds(e) \/ ResetFails(e)

Next ==
    \/ Launching
    \/ Authenticate
    \/ \E p \in Prompts : PromptEnds(p)
    \/ Save
    \/ \E state \in {"active", "inactive", "background"} : MoveTo(state)
    \/ Tick
    \/ \E e \in Exits, way \in {"logout", "reset"} : Leave(e, way)
    \/ \E e \in Exits : Exiting(e)
    \/ Restart

Spec == Init /\ [][Next]_vars

\* A prompt is answered or given up by the system, and the secure store answers.
FairSpec ==
    /\ Spec
    /\ \A p \in Prompts : WF_vars(PromptEnds(p))
    /\ WF_vars(Save)
    /\ \A e \in Exits : WF_vars(Exiting(e))

-----------------------------------------------------------------------------
(* Properties *)

TypeOK ==
    /\ app \in {"active", "inactive", "background"}
    /\ away \in 0..Timeout /\ gone \in 0..Timeout
    /\ launch \in Phases /\ marks \subseteq Keys /\ saving \in BOOLEAN
    /\ access \in {"locked", "authenticating", "unlocked", "blocked"}
    /\ prompt \in [Prompts -> {None, "current", "stale"}]
    /\ inFlight \in Prompts \cup {None}
    /\ callers \subseteq {"setup", "unlock", "content"}
    /\ exit \in [Exits -> {"idle", "logout", "reset", "keys", "failed"}]
    /\ fresh \subseteq Prompts /\ proved \in BOOLEAN

\* The system never shows two prompts at a time, however locks, resets and
\* retries follow on each other.
OnePrompt == Cardinality({p \in Prompts : prompt[p] # None}) <= 1

\* The content is shown only to a user who passed a prompt that was begun
\* after the last lock: the late answer of an older one does not open it.
ContentGuarded == launch = "ready" /\ access = "unlocked" => proved

\* The content is first entered with a biometric set-up that is on record.
EnteredIsSetUp == [][launch # "ready" /\ launch' = "ready" => "setup" \in marks']_vars

\* The app locks when it comes back after Timeout or more, counted from the
\* moment it left the foreground, and not after a shorter time.
LockedAfterTimeout ==
    [][app # "active" /\ app' = "active" /\ launch = "ready" /\ launch' = "ready"
         => IF gone >= Timeout THEN access' = "locked" ELSE access' = access]_vars

\* Nobody gets past the launch without a recorded set-up, and nobody stays in
\* beyond the timeout: neither a store that fails nor any order of inactive,
\* background and active opens a way around.
AccessKept == EnteredIsSetUp /\ LockedAfterTimeout

\* A user who waits for a prompt is not left waiting, unless a reset failed on
\* the way: the retry button, which is disabled in the meantime, comes back or
\* the screen goes away.
WaitingEnds ==
    access = "authenticating" ~> access # "authenticating" \/ \E e \in Exits : exit[e] = "failed"
=============================================================================
