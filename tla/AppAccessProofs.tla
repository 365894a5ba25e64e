--------------------------- MODULE AppAccessProofs ---------------------------
(***************************************************************************)
(* Proofs about AppAccess, for every timeout and every number of prompts,  *)
(* logouts and resets.                                                     *)
(***************************************************************************)
EXTENDS AppAccess, FiniteSetTheorems, TLAPS

\* The prompt that is open, if any, is the one in flight.
OpenInFlight == \A p \in Prompts : prompt[p] # None => inFlight = p

\* A lock or a reset leaves no prompt current.
CurrentIsFresh == \A p \in Prompts : prompt[p] = "current" => p \in fresh

UnlockedIsProved == access = "unlocked" => proved

IInv == TypeOK /\ OpenInFlight /\ CurrentIsFresh /\ UnlockedIsProved

USE TimeoutAssumption, PromptsAssumption

\* The initial state satisfies the inductive invariant.
LEMMA InitEstablishes == Init => IInv
<1> SUFFICES ASSUME Init PROVE IInv
  OBVIOUS
<1>1. away \in 0..Timeout /\ gone \in 0..Timeout
  BY DEF Init
<1>2. TypeOK
  BY <1>1 DEF Init, TypeOK, Phases, None
<1>3. QED
  BY <1>2 DEF Init, IInv, OpenInFlight, CurrentIsFresh, UnlockedIsProved, None

\* Entering a phase keeps the types of the phase and of the clocks.
LEMMA EnterTyped ==
    ASSUME TypeOK, NEW phase \in Phases, Enter(phase)
    PROVE  launch' \in Phases /\ away' \in 0..Timeout /\ gone' \in 0..Timeout
<1>1. 0 \in 0..Timeout
  OBVIOUS
<1>2. QED
  BY <1>1 DEF TypeOK, Enter

\* What the launch screens do with a prompt that was passed.
LEMMA AuthenticatedTyped ==
    ASSUME TypeOK, NEW screens, Authenticated(screens)
    PROVE  /\ launch' \in Phases /\ away' \in 0..Timeout /\ gone' \in 0..Timeout
           /\ saving' \in BOOLEAN
<1>1. saving' \in BOOLEAN
  BY DEF TypeOK, Authenticated
<1>2. CASE "unlock" \in screens
  <2>1. "ready" \in Phases /\ Enter("ready")
    BY <1>2 DEF Authenticated, Phases
  <2>2. QED
    BY <1>1, <2>1, EnterTyped
<1>3. CASE "unlock" \notin screens
  BY <1>1, <1>3 DEF Authenticated, TypeOK
<1>4. QED
  BY <1>2, <1>3

\* A lock keeps the inductive invariant of the access.
LEMMA LockKeeps ==
    ASSUME IInv, Lock
    PROVE  /\ access' \in {"locked", "authenticating", "unlocked", "blocked"}
           /\ prompt' \in [Prompts -> {None, "current", "stale"}]
           /\ inFlight' \in Prompts \cup {None}
           /\ callers' \subseteq {"setup", "unlock", "content"}
           /\ fresh' \subseteq Prompts /\ proved' \in BOOLEAN
           /\ OpenInFlight' /\ CurrentIsFresh' /\ UnlockedIsProved'
BY DEF IInv, TypeOK, Lock, Overtaken, OpenInFlight, CurrentIsFresh, UnlockedIsProved, None

\* Steps that leave the access alone keep its part of the invariant.
LEMMA AccessUnchanged ==
    ASSUME IInv, UNCHANGED accessVars, TypeOK' PROVE IInv'
BY DEF IInv, accessVars, OpenInFlight, CurrentIsFresh, UnlockedIsProved

\* Every step keeps the inductive invariant.
LEMMA NextKeeps == IInv /\ [Next]_vars => IInv'
<1> SUFFICES ASSUME IInv, [Next]_vars PROVE IInv'
  OBVIOUS
<1>1. CASE Launching
  <2>1. UNCHANGED <<app, saving, accessVars, exit>> /\ marks' \subseteq Keys
    BY <1>1 DEF Launching, SplashEnds, ConfirmNotice, DismissNotice, CompleteOnboarding,
                CompleteVerification, Mark, Keys, IInv, TypeOK
  <2>2. \E phase \in Phases : Enter(phase)
    BY <1>1 DEF Launching, SplashEnds, ConfirmNotice, DismissNotice, CompleteOnboarding,
                CompleteVerification, Resolve, Phases
  <2>3. TypeOK'
    BY <2>1, <2>2, EnterTyped DEF IInv, TypeOK, accessVars
  <2>4. QED
    BY <2>1, <2>3, AccessUnchanged
<1>2. CASE Authenticate
  <2>1. CASE access = "unlocked"
    <3>1. Authenticated({Screen}) /\ UNCHANGED <<accessVars, app, marks, exit>>
      BY <1>2, <2>1 DEF Authenticate
    <3>2. TypeOK'
      BY <3>1, AuthenticatedTyped DEF IInv, TypeOK, accessVars
    <3>3. QED
      BY <3>1, <3>2, AccessUnchanged
  <2>2. CASE access # "unlocked"
    <3>1. UNCHANGED <<saving, launch, away, gone, proved, app, marks, exit>>
      BY <1>2, <2>2 DEF Authenticate
    <3>2. Screen \in {"setup", "unlock", "content"}
      BY <1>2 DEF Authenticate, Screen
    <3>3. CASE inFlight # None
      BY <1>2, <2>2, <3>1, <3>2, <3>3
         DEF Authenticate, IInv, TypeOK, OpenInFlight, CurrentIsFresh, UnlockedIsProved
    <3>4. CASE inFlight = None
      <4>1. PICK p \in Prompts :
               /\ prompt' = [prompt EXCEPT ![p] = "current"]
               /\ inFlight' = p /\ access' = "authenticating" /\ callers' = {Screen}
               /\ fresh' = fresh \cup {p}
        BY <1>2, <2>2, <3>4 DEF Authenticate
      <4>2. \A q \in Prompts : prompt[q] = None
        BY <3>4 DEF IInv, OpenInFlight, None
      <4>3. TypeOK'
        BY <3>1, <3>2, <4>1 DEF IInv, TypeOK
      <4>4. OpenInFlight' /\ CurrentIsFresh' /\ UnlockedIsProved'
        BY <4>1, <4>2 DEF IInv, TypeOK, OpenInFlight, CurrentIsFresh, UnlockedIsProved, None
      <4>5. QED
        BY <4>3, <4>4 DEF IInv
    <3>5. QED
      BY <3>3, <3>4
  <2>3. QED
    BY <2>1, <2>2
<1>3. ASSUME NEW p \in Prompts, PromptEnds(p) PROVE IInv'
  <2>1. /\ prompt[p] # None /\ prompt' = [prompt EXCEPT ![p] = None]
        /\ inFlight' = IF inFlight = p THEN None ELSE inFlight
        /\ fresh' = fresh \ {p} /\ callers' = {} /\ UNCHANGED <<app, marks, exit>>
    BY <1>3 DEF PromptEnds
  <2>2. PICK result \in Results :
          IF prompt[p] = "current"
          THEN /\ access' = Outcome(result)
               /\ proved' = (proved \/ (result = "authenticated" /\ p \in fresh))
               /\ IF result = "authenticated" THEN Authenticated(callers)
                                              ELSE UNCHANGED <<saving, launch, away, gone>>
          ELSE UNCHANGED <<access, proved, saving, launch, away, gone>>
    BY <1>3 DEF PromptEnds
  <2>3. /\ launch' \in Phases /\ away' \in 0..Timeout /\ gone' \in 0..Timeout
        /\ saving' \in BOOLEAN
    BY <2>2, AuthenticatedTyped DEF IInv, TypeOK
  <2>4. proved' \in BOOLEAN /\ access' \in {"locked", "authenticating", "unlocked", "blocked"}
    BY <2>2 DEF IInv, TypeOK, Outcome, Results
  <2>5. TypeOK'
    BY <2>1, <2>3, <2>4 DEF IInv, TypeOK
  <2>6. OpenInFlight' /\ CurrentIsFresh'
    BY <2>1 DEF IInv, TypeOK, OpenInFlight, CurrentIsFresh, None
  <2>7. UnlockedIsProved'
    BY <2>2 DEF IInv, TypeOK, UnlockedIsProved, CurrentIsFresh, Outcome, Results
  <2>8. QED
    BY <2>5, <2>6, <2>7 DEF IInv
<1>4. CASE Save
  <2>1. saving' = FALSE /\ UNCHANGED <<app, exit>>
    BY <1>4 DEF Save
  <2>2. CASE marks' = marks \cup {"setup"} /\ Enter("ready") /\ UNCHANGED accessVars
    <3>1. "ready" \in Phases
      BY DEF Phases
    <3>2. TypeOK'
      BY <2>1, <2>2, <3>1, EnterTyped DEF IInv, TypeOK, accessVars, Keys
    <3>3. QED
      BY <2>2, <3>2, AccessUnchanged
  <2>3. CASE Lock /\ UNCHANGED <<launch, marks, away, gone>>
    BY <2>1, <2>3, LockKeeps DEF IInv, TypeOK
  <2>4. QED
    BY <1>4, <2>2, <2>3 DEF Save
<1>5. ASSUME NEW state \in {"active", "inactive", "background"}, MoveTo(state) PROVE IInv'
  <2>1. away' \in 0..Timeout /\ gone' \in 0..Timeout
    BY <1>5 DEF MoveTo, IInv, TypeOK
  <2>2. app' = state /\ UNCHANGED <<launch, marks, saving, exit>>
    BY <1>5 DEF MoveTo
  <2>3. CASE Lock
    BY <2>1, <2>2, <2>3, LockKeeps DEF IInv, TypeOK
  <2>4. CASE UNCHANGED accessVars
    <3>1. TypeOK'
      BY <2>1, <2>2, <2>4 DEF IInv, TypeOK, accessVars
    <3>2. QED
      BY <2>4, <3>1, AccessUnchanged
  <2>5. QED
    BY <1>5, <2>3, <2>4 DEF MoveTo
<1>6. CASE Tick
  <2>1. away' \in 0..Timeout /\ gone' \in 0..Timeout
    BY <1>6 DEF Tick, IInv, TypeOK
  <2>2. TypeOK'
    BY <1>6, <2>1 DEF Tick, IInv, TypeOK, accessVars
  <2>3. QED
    BY <1>6, <2>2, AccessUnchanged DEF Tick
<1>7. ASSUME NEW e \in Exits, NEW way \in {"logout", "reset"}, Leave(e, way) PROVE IInv'
  <2>1. TypeOK'
    BY <1>7 DEF Leave, IInv, TypeOK, accessVars, timeVars
  <2>2. QED
    BY <1>7, <2>1, AccessUnchanged DEF Leave
<1>8. ASSUME NEW e \in Exits, Exiting(e) PROVE IInv'
  <2>1. exit' \in [Exits -> {"idle", "logout", "reset", "keys", "failed"}]
    BY <1>8 DEF Exiting, LogoutEnds, ResetGivesUp, ResetBegins, ResetEnds, ResetFails, IInv, TypeOK
  <2>2. CASE LogoutEnds(e)
    <3>1. UNCHANGED <<timeVars, launch, marks, saving>> /\ (Lock \/ UNCHANGED accessVars)
      BY <2>2 DEF LogoutEnds
    <3>2. CASE Lock
      BY <2>1, <3>1, <3>2, LockKeeps DEF IInv, TypeOK, timeVars
    <3>3. CASE UNCHANGED accessVars
      <4>1. TypeOK'
        BY <2>1, <3>1, <3>3 DEF IInv, TypeOK, accessVars, timeVars
      <4>2. QED
        BY <3>3, <4>1, AccessUnchanged
    <3>4. QED
      BY <3>1, <3>2, <3>3
  <2>3. CASE ResetGivesUp(e) \/ ResetFails(e)
    <3>1. UNCHANGED <<timeVars, launch, saving, accessVars>> /\ marks' \subseteq Keys
      BY <2>3 DEF ResetGivesUp, ResetFails, IInv, TypeOK
    <3>2. TypeOK'
      BY <2>1, <3>1 DEF IInv, TypeOK, accessVars, timeVars
    <3>3. QED
      BY <3>1, <3>2, AccessUnchanged
  <2>4. CASE ResetBegins(e)
    BY <2>1, <2>4 DEF ResetBegins, Overtaken, timeVars, IInv, TypeOK, OpenInFlight,
                      CurrentIsFresh, UnlockedIsProved, None
  <2>5. CASE ResetEnds(e)
    <3>1. /\ Enter("splash") /\ "splash" \in Phases
          /\ marks' = {} /\ saving' = FALSE /\ callers' = {} /\ access' = "locked"
          /\ proved' = FALSE /\ UNCHANGED <<app, prompt, inFlight, fresh>>
      BY <2>5 DEF ResetEnds, Phases
    <3>2. TypeOK'
      BY <2>1, <3>1, EnterTyped DEF IInv, TypeOK
    <3>3. QED
      BY <3>1, <3>2 DEF IInv, OpenInFlight, CurrentIsFresh, UnlockedIsProved
  <2>6. QED
    BY <1>8, <2>2, <2>3, <2>4, <2>5 DEF Exiting
<1>9. CASE Restart
  <2>1. 0 \in 0..Timeout
    OBVIOUS
  <2>2. QED
    BY <1>9, <2>1 DEF Restart, IInv, TypeOK, OpenInFlight, CurrentIsFresh, UnlockedIsProved,
                      Phases, None
<1>10. CASE UNCHANGED vars
  BY <1>10 DEF vars, accessVars, IInv, TypeOK, OpenInFlight, CurrentIsFresh, UnlockedIsProved
<1>11. QED
  BY <1>1, <1>2, <1>3, <1>4, <1>5, <1>6, <1>7, <1>8, <1>9, <1>10 DEF Next

LEMMA Inductive == Spec => []IInv
<1>1. IInv /\ [Next]_vars => IInv'
  BY NextKeeps
<1>2. QED
  BY <1>1, InitEstablishes, PTL DEF Spec

-----------------------------------------------------------------------------
\* Every variable keeps to its type.
THEOREM TypeCorrect == Spec => []TypeOK
<1>1. IInv => TypeOK
  BY DEF IInv
<1>2. QED
  BY <1>1, Inductive, PTL

\* What is open is in flight, and only one prompt is.
LEMMA OneInFlight == IInv => OnePrompt
<1> SUFFICES ASSUME IInv PROVE OnePrompt
  OBVIOUS
<1> DEFINE Open == {p \in Prompts : prompt[p] # None}
<1>1. Open \subseteq {inFlight}
  BY DEF IInv, OpenInFlight
<1>2. IsFiniteSet({inFlight}) /\ Cardinality({inFlight}) = 1
  BY FS_Singleton
<1>3. Cardinality(Open) <= 1
  BY <1>1, <1>2, FS_Subset
<1>4. QED
  BY <1>3 DEF OnePrompt

\* authenticate() keeps one flight: however locks, resets and retries follow on
\* each other, the system shows one prompt at a time.
THEOREM SinglePrompt == Spec => []OnePrompt
<1>1. QED
  BY Inductive, OneInFlight, PTL

\* The generation of authenticate(): the content opens only to a prompt that was
\* begun after the last lock, whatever older prompts answer and when.
THEOREM ContentIsGuarded == Spec => []ContentGuarded
<1>1. IInv => ContentGuarded
  BY DEF IInv, UnlockedIsProved, ContentGuarded
<1>2. QED
  BY <1>1, Inductive, PTL

-----------------------------------------------------------------------------
(* The set-up and the timeout *)

\* The clock of the lifecycle is the time since the app left the foreground.
ClocksAgree == away = gone

\* The unlock screen stands for a recorded set-up: what removes the record is a
\* reset, and no reset is under way before the content except one after which
\* the record is gone.
RecordStands ==
    /\ launch = "unlock" => "setup" \in marks
    /\ launch # "ready" => \/ "setup" \notin marks
                           \/ \A e \in Exits : exit[e] \in {"idle", "failed"}
    /\ "unlock" \in callers => launch \in {"unlock", "ready"}

SetupInv == IInv /\ ClocksAgree /\ RecordStands

\* Steps that only enter another phase, or none, keep the clocks together.
LEMMA EnterAgrees ==
    ASSUME ClocksAgree, NEW phase, Enter(phase) PROVE ClocksAgree' /\ launch' = phase
BY DEF ClocksAgree, Enter

\* The launch screens enter the content for a recorded set-up only.
LEMMA AuthenticatedEnters ==
    ASSUME SetupInv, NEW screens, Authenticated(screens), UNCHANGED <<marks, exit>>,
           "unlock" \in screens => launch \in {"unlock", "ready"},
           callers' \subseteq callers \/ callers' = {} \/ UNCHANGED callers
    PROVE  /\ ClocksAgree' /\ RecordStands'
           /\ launch # "ready" /\ launch' = "ready" => "setup" \in marks'
<1>1. CASE "unlock" \in screens
  <2>1. Enter("ready")
    BY <1>1 DEF Authenticated
  <2>2. QED
    BY <1>1, <2>1, EnterAgrees DEF SetupInv, RecordStands
<1>2. CASE "unlock" \notin screens
  <2>1. UNCHANGED <<launch, away, gone>>
    BY <1>2 DEF Authenticated
  <2>2. QED
    BY <2>1 DEF SetupInv, RecordStands, ClocksAgree
<1>3. QED
  BY <1>1, <1>2

\* A lock changes none of what the set-up rests on.
LEMMA LockLeavesSetup == Lock => UNCHANGED callers
BY DEF Lock

\* Every step keeps the record, enters the content with a recorded set-up only,
\* and locks when the app comes back late.
LEMMA NextKeepsSetup ==
    SetupInv /\ [Next]_vars =>
        /\ ClocksAgree' /\ RecordStands'
        /\ launch # "ready" /\ launch' = "ready" => "setup" \in marks'
        /\ app # "active" /\ app' = "active" /\ launch = "ready" /\ launch' = "ready"
              => IF gone >= Timeout THEN access' = "locked" ELSE access' = access
<1> DEFINE Entered == launch # "ready" /\ launch' = "ready" => "setup" \in marks'
           Back == app # "active" /\ app' = "active"
           Goal == ClocksAgree' /\ RecordStands' /\ Entered
<1> SUFFICES ASSUME SetupInv, [Next]_vars
             PROVE  /\ Goal
                    /\ Back /\ launch = "ready" /\ launch' = "ready"
                          => IF gone >= Timeout THEN access' = "locked" ELSE access' = access
  OBVIOUS
<1>0. ASSUME UNCHANGED <<away, gone, launch, marks, exit>>, callers' \subseteq callers
      PROVE  Goal
  BY <1>0 DEF SetupInv, ClocksAgree, RecordStands
<1>1. CASE Launching
  <2>1. UNCHANGED <<app, accessVars, exit>> /\ launch \notin {"unlock", "ready"}
    BY <1>1 DEF Launching, SplashEnds, ConfirmNotice, DismissNotice, CompleteOnboarding,
                CompleteVerification
  <2>2. "setup" \in marks' <=> "setup" \in marks
    BY <1>1 DEF Launching, SplashEnds, ConfirmNotice, DismissNotice, CompleteOnboarding,
                CompleteVerification, Mark
  <2>3. \E phase : /\ Enter(phase) /\ phase # "ready"
                   /\ phase = "unlock" => "setup" \in marks
    <3>1. CASE CompleteVerification
      BY <3>1 DEF CompleteVerification
    <3>2. CASE ~ CompleteVerification
      <4>1. PICK read \in Reads, more \in {{}, {"permissions"}, {"permissions", "onboarding"}} :
               Enter(Resolve(read \cup more))
        <5>1. ASSUME NEW read \in Reads PROVE read \cup {} = read
          OBVIOUS
        <5>2. CASE SplashEnds
          <6>1. PICK read \in Reads : Enter(Resolve(read))
            BY <5>2 DEF SplashEnds
          <6>2. Enter(Resolve(read \cup {}))
            BY <5>1, <6>1
          <6>3. QED
            BY <6>2
        <5>3. CASE ConfirmNotice \/ DismissNotice \/ CompleteOnboarding
          BY <5>3 DEF ConfirmNotice, DismissNotice, CompleteOnboarding
        <5>4. QED
          BY <1>1, <3>2, <5>2, <5>3 DEF Launching
      <4>2. Resolve(read \cup more) # "ready"
        BY DEF Resolve
      <4>3. Resolve(read \cup more) = "unlock" => "setup" \in marks
        BY DEF Resolve, Reads
      <4>4. QED
        BY <4>1, <4>2, <4>3
    <3>3. QED
      BY <3>1, <3>2
  <2>4. PICK phase : Enter(phase) /\ phase # "ready" /\ (phase = "unlock" => "setup" \in marks)
    BY <2>3
  <2>5. ClocksAgree' /\ launch' = phase
    BY <2>4, EnterAgrees DEF SetupInv
  <2>6. RecordStands'
    BY <2>1, <2>2, <2>4, <2>5 DEF SetupInv, RecordStands, accessVars
  <2>7. QED
    BY <2>1, <2>4, <2>5, <2>6
<1>2. CASE Authenticate
  <2>1. UNCHANGED <<app, marks, exit>>
    BY <1>2 DEF Authenticate
  <2>2. CASE access = "unlocked"
    <3>1. Authenticated({Screen}) /\ UNCHANGED accessVars
      BY <1>2, <2>2 DEF Authenticate
    <3>2. "unlock" \in {Screen} => launch \in {"unlock", "ready"}
      BY DEF Screen, None
    <3>3. UNCHANGED callers
      BY <3>1 DEF accessVars
    <3>4. Goal
      BY <2>1, <3>1, <3>2, <3>3, AuthenticatedEnters
    <3>5. QED
      BY <2>1, <3>4
  <2>3. CASE access # "unlocked"
    <3>1. UNCHANGED <<launch, away, gone>>
      BY <1>2, <2>3 DEF Authenticate
    <3>2. callers' \subseteq callers \cup {Screen}
      BY <1>2, <2>3 DEF Authenticate
    <3>3. Screen = "unlock" => launch = "unlock"
      BY DEF Screen, None
    <3>4. QED
      BY <2>1, <3>1, <3>2, <3>3 DEF SetupInv, ClocksAgree, RecordStands
  <2>4. QED
    BY <2>2, <2>3
<1>3. ASSUME NEW p \in Prompts, PromptEnds(p) PROVE Goal /\ ~ Back
  <2>1. UNCHANGED <<app, marks, exit>> /\ callers' = {}
    BY <1>3 DEF PromptEnds
  <2>2. Authenticated(callers) \/ UNCHANGED <<launch, away, gone>>
    BY <1>3 DEF PromptEnds
  <2>3. CASE Authenticated(callers)
    BY <2>1, <2>3, AuthenticatedEnters DEF SetupInv, RecordStands
  <2>4. CASE UNCHANGED <<launch, away, gone>>
    BY <1>0, <2>1, <2>4
  <2>5. QED
    BY <2>1, <2>2, <2>3, <2>4
<1>4. CASE Save
  <2>1. UNCHANGED <<app, exit>>
    BY <1>4 DEF Save
  <2>2. CASE marks' = marks \cup {"setup"} /\ Enter("ready") /\ UNCHANGED accessVars
    <3>1. ClocksAgree' /\ launch' = "ready"
      BY <2>2, EnterAgrees DEF SetupInv
    <3>2. QED
      BY <2>1, <2>2, <3>1 DEF RecordStands
  <2>3. CASE Lock /\ UNCHANGED <<launch, marks, away, gone>>
    BY <1>0, <2>1, <2>3, LockLeavesSetup
  <2>4. QED
    BY <1>4, <2>1, <2>2, <2>3 DEF Save
<1>5. ASSUME NEW state \in {"active", "inactive", "background"}, MoveTo(state)
      PROVE  /\ Goal
             /\ Back /\ launch = "ready" =>
                   IF gone >= Timeout THEN access' = "locked" ELSE access' = access
  <2>1. /\ app' = state /\ UNCHANGED <<launch, marks, exit>>
        /\ away' = IF app = "active" THEN 0 ELSE away
        /\ gone' = IF app = "active" THEN 0 ELSE gone
        /\ IF state = "active" /\ launch = "ready" /\ away >= Timeout
           THEN Lock ELSE UNCHANGED accessVars
    BY <1>5 DEF MoveTo
  <2>2. UNCHANGED callers
    BY <2>1, LockLeavesSetup DEF accessVars
  <2>3. ClocksAgree'
    BY <2>1 DEF SetupInv, ClocksAgree
  <2>4. RecordStands' /\ Entered
    BY <2>1, <2>2 DEF SetupInv, RecordStands
  <2>5. ASSUME Back, launch = "ready"
        PROVE  IF gone >= Timeout THEN access' = "locked" ELSE access' = access
    BY <2>1, <2>5 DEF SetupInv, ClocksAgree, Lock, accessVars
  <2>6. QED
    BY <2>3, <2>4, <2>5
<1>6. CASE Tick
  <2>1. /\ UNCHANGED <<app, launch, marks, exit, accessVars>>
        /\ away' = IF away < Timeout THEN away + 1 ELSE away
        /\ gone' = IF gone < Timeout THEN gone + 1 ELSE gone
    BY <1>6 DEF Tick
  <2>2. QED
    BY <2>1 DEF SetupInv, ClocksAgree, RecordStands, accessVars
<1>7. ASSUME NEW e \in Exits, NEW way \in {"logout", "reset"}, Leave(e, way)
      PROVE  Goal /\ ~ Back
  BY <1>7 DEF Leave, timeVars, accessVars, SetupInv, ClocksAgree, RecordStands
<1>8. ASSUME NEW e \in Exits, Exiting(e) PROVE Goal /\ ~ Back
  <2>1. UNCHANGED app
    BY <1>8 DEF Exiting, LogoutEnds, ResetGivesUp, ResetBegins, ResetEnds, ResetFails, timeVars
  <2>2. exit \in [Exits -> {"idle", "logout", "reset", "keys", "failed"}]
    BY DEF SetupInv, IInv, TypeOK
  <2>3. CASE LogoutEnds(e) \/ ResetGivesUp(e) \/ ResetBegins(e)
    <3>1. UNCHANGED <<away, gone, launch, marks, callers>>
      BY <2>3, LockLeavesSetup DEF LogoutEnds, ResetGivesUp, ResetBegins, timeVars, accessVars
    <3>2. exit[e] \in {"logout", "reset"} /\ \E x : exit' = [exit EXCEPT ![e] = x]
      BY <2>3 DEF LogoutEnds, ResetGivesUp, ResetBegins
    <3>3. QED
      BY <2>1, <2>2, <3>1, <3>2 DEF SetupInv, ClocksAgree, RecordStands
  <2>4. CASE ResetEnds(e)
    <3>1. marks' = {} /\ callers' = {} /\ Enter("splash")
      BY <2>4 DEF ResetEnds
    <3>2. ClocksAgree' /\ launch' = "splash"
      BY <3>1, EnterAgrees DEF SetupInv
    <3>3. QED
      BY <2>1, <3>1, <3>2 DEF RecordStands
  <2>5. CASE ResetFails(e)
    <3>1. /\ exit[e] = "keys" /\ marks' \subseteq marks
          /\ UNCHANGED <<away, gone, launch, callers>>
      BY <2>5 DEF ResetFails, timeVars, accessVars
    <3>2. launch # "ready" => "setup" \notin marks
      BY <3>1 DEF SetupInv, RecordStands
    <3>3. QED
      BY <2>1, <3>1, <3>2 DEF SetupInv, ClocksAgree, RecordStands
  <2>6. QED
    BY <1>8, <2>3, <2>4, <2>5 DEF Exiting
<1>9. CASE Restart
  BY <1>9 DEF Restart, ClocksAgree, RecordStands
<1>10. CASE UNCHANGED vars
  <2>1. UNCHANGED <<app, away, gone, launch, marks, exit, callers>>
    BY <1>10 DEF vars
  <2>2. QED
    BY <1>0, <2>1
<1>11. Launching \/ Authenticate \/ Save => ~ Back
  BY DEF Launching, SplashEnds, ConfirmNotice, DismissNotice, CompleteOnboarding,
         CompleteVerification, Authenticate, Save
<1>12. Tick => ~ Back
  BY DEF Tick
<1>13. Restart => launch' # "ready"
  BY DEF Restart
<1>14. UNCHANGED vars => ~ Back
  BY DEF vars
<1>15. QED
  BY <1>1, <1>2, <1>3, <1>4, <1>5, <1>6, <1>7, <1>8, <1>9, <1>10, <1>11, <1>12, <1>13, <1>14
     DEF Next

\* Whoever gets past the launch has a recorded set-up, and whoever comes back
\* after the timeout finds the app locked, whichever keys the store loses and
\* whatever states the app went through meanwhile.
THEOREM AccessIsKept == Spec => AccessKept
<1>1. Init => ClocksAgree /\ RecordStands
  BY DEF Init, ClocksAgree, RecordStands
<1>2. IInv /\ ClocksAgree /\ RecordStands /\ [Next]_vars => ClocksAgree' /\ RecordStands'
  BY NextKeepsSetup DEF SetupInv
<1>3. /\ IInv /\ ClocksAgree /\ RecordStands /\ [Next]_vars
         => [launch # "ready" /\ launch' = "ready" => "setup" \in marks']_vars
      /\ IInv /\ ClocksAgree /\ RecordStands /\ [Next]_vars
         => [app # "active" /\ app' = "active" /\ launch = "ready" /\ launch' = "ready"
               => IF gone >= Timeout THEN access' = "locked" ELSE access' = access]_vars
  BY NextKeepsSetup DEF SetupInv
<1>4. QED
  BY <1>1, <1>2, <1>3, Inductive, PTL DEF Spec, AccessKept, EnteredIsSetUp, LockedAfterTimeout
=============================================================================
