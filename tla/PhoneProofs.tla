----------------------------- MODULE PhoneProofs -----------------------------
(***************************************************************************)
(* Theorems about the phone's components of Platform, for any value of its *)
(* constants: the order screen, which is also a specification of its own   *)
(* (Spec of OrderFlow), the session, the risk check, the calls, and the    *)
(* forms of onboarding and coach.  A step of Platform is a step of one     *)
(* component and leaves the variables of the others alone (Frame).         *)
(***************************************************************************)
EXTENDS Platform, SequenceTheorems, WellFoundedInduction, TLAPS

\* A step of the whole is for each component one of its own or none.
LEMMA Frame ==
    ASSUME [PlatformNext]_platformVars
    PROVE  /\ Login!Next \/ UNCHANGED sessionVars
           /\ Risk!Next \/ UNCHANGED riskVars
           /\ Client!Next \/ UNCHANGED clientVars
           /\ Forms!Next \/ UNCHANGED formVars
           /\ Visits!Next \/ UNCHANGED visitVars
           /\ Coach!Next \/ UNCHANGED coachVars
  BY DEF PlatformNext, Only, Still, Parts, platformVars

-----------------------------------------------------------------------------
(* The order screen buys a quote once.  What each quote may still meet is any *)
(* POST that carries it, so the invariant is about all of them, wherever they *)
(* are: in a confirm, late on their way, or recorded as an order.             *)

PostAt(c) == confirm[c].pc \in {"sent", "taken"}

\* A POST of quote q under key k was sent and can still create an order, or
\* already has.
Posted(q, k) ==
    \/ \E c \in Confirms : PostAt(c) /\ confirm[c].quote = q /\ confirm[c].key = k
    \/ <<q, k>> \in delayed
    \/ order[k] # NoOrder /\ order[k].quote = q

Places   == {"idle", "prompt", "sent", "taken"}
Statuses == {"NONE", "PENDING", "UNKNOWN", "FILLED", "FAILED"}

TypeOK ==
    /\ asked \subseteq Quotes /\ made \subseteq Quotes /\ asked \subseteq made
    /\ current \in (made \ asked) \cup {Unset} /\ latest \in Quotes \cup {Unset}
    /\ key \in Keys \cup {Unset} /\ orderId \in Keys \cup {Unset}
    /\ delayed \subseteq Quotes \X Keys
    /\ order \in [Keys -> [quote : Quotes \cup {Unset}, status : Statuses]]
    /\ confirm \in [Confirms -> [pc : Places, quote : Quotes \cup {Unset},
                                 key : Keys \cup {Unset}]]
    /\ moved \in BOOLEAN

\* What a confirm has in hand at its place, and what a record of an order says.
InHand ==
    /\ current # Unset => key # Unset
    /\ \A c \in Confirms :
          /\ confirm[c].pc # "idle" => confirm[c].quote \in made \ asked /\ key # Unset
          /\ PostAt(c) => confirm[c].key \in Keys
    /\ \A k \in Keys : order[k] # NoOrder => order[k].quote \in Quotes

\* No POST carries a quote that is yet to be shown.
NewIsUnsent == \A q \in Quotes, k \in Keys : Posted(q, k) => q \in made \ asked

\* Until a preview is answered under an open prompt, a prompt is about the
\* quote that is shown, and all POSTs of that quote have the key of now.
PromptsAreCurrent == \A c \in Confirms : confirm[c].pc = "prompt" => confirm[c].quote = current
CurrentKey == \A k \in Keys : current # Unset /\ Posted(current, k) => k = key
OneKey == \A q \in Quotes, k, l \in Keys : Posted(q, k) /\ Posted(q, l) => k = l

KeysInv == ~ moved => PromptsAreCurrent /\ CurrentKey /\ OneKey

IInv == TypeOK /\ InHand /\ NewIsUnsent /\ KeysInv

USE UnsetAssumption

\* The initial state satisfies the inductive invariant.
LEMMA InitEstablishes == Init => IInv
<1> SUFFICES ASSUME Init PROVE IInv
  OBVIOUS
<1>1. TypeOK
  BY DEF Init, TypeOK, Idle, NoOrder, Places, Statuses
<1>2. \A q, k : k \in Keys => ~ Posted(q, k)
  BY DEF Init, Posted, PostAt, Idle, NoOrder
<1>3. InHand
  BY DEF Init, InHand, PostAt, Idle, NoOrder
<1>4. PromptsAreCurrent
  BY DEF Init, PromptsAreCurrent, Idle
<1>5. QED
  BY <1>1, <1>2, <1>3, <1>4 DEF IInv, NewIsUnsent, KeysInv, CurrentKey, OneKey, TypeOK, Init

\* A step that sends nothing new, opens no prompt and shows what it showed.
LEMMA NothingSent ==
    ASSUME IInv,
           UNCHANGED <<asked, made, current, key, moved>>,
           \A q \in Quotes, k \in Keys : Posted(q, k)' => Posted(q, k),
           \A c \in Confirms : confirm'[c].pc = "prompt"
               => confirm[c].pc = "prompt" /\ confirm'[c].quote = confirm[c].quote
    PROVE  NewIsUnsent' /\ KeysInv'
<1>1. NewIsUnsent'
  BY DEF IInv, NewIsUnsent
<1>2. ASSUME ~ moved' PROVE PromptsAreCurrent' /\ CurrentKey' /\ OneKey'
  <2>1. PromptsAreCurrent /\ CurrentKey /\ OneKey
    BY <1>2 DEF IInv, KeysInv
  <2>2. PromptsAreCurrent'
    BY <2>1 DEF PromptsAreCurrent
  <2>3. current \in Quotes \cup {Unset}
    BY DEF IInv, TypeOK
  <2>4. CurrentKey'
    BY <2>1, <2>3 DEF CurrentKey
  <2>5. OneKey'
    BY <2>1 DEF OneKey
  <2>6. QED
    BY <2>2, <2>4, <2>5
<1>3. QED
  BY <1>1, <1>2 DEF KeysInv

\* Previews that are asked for or fail.
LEMMA PreviewKeeps ==
    ASSUME IInv, NEW q \in Quotes, TapPreview(q) \/ PreviewFails(q)
    PROVE  IInv'
<1>0. UNCHANGED <<current, key, orderId, delayed, order, confirm, moved>>
  BY DEF TapPreview, PreviewFails, platform
<1>1. made \ asked \subseteq made' \ asked'
  BY DEF TapPreview, PreviewFails
<1>2. TypeOK'
  BY <1>0, <1>1 DEF IInv, TypeOK, TapPreview, PreviewFails
<1>3. InHand'
  BY <1>0, <1>1 DEF IInv, InHand, PostAt
<1>4. \A r, k : Posted(r, k)' <=> Posted(r, k)
  BY <1>0 DEF Posted, PostAt
<1>5. NewIsUnsent'
  BY <1>1, <1>4 DEF IInv, NewIsUnsent
<1>6. KeysInv'
  BY <1>0, <1>4 DEF IInv, KeysInv, PromptsAreCurrent, CurrentKey, OneKey
<1>7. QED
  BY <1>2, <1>3, <1>5, <1>6 DEF IInv

\* A preview is answered: nothing was sent for its quote yet.
LEMMA AnswerKeeps ==
    ASSUME IInv, NEW q \in Quotes, PreviewAnswered(q)
    PROVE  IInv'
<1>0. /\ q \in asked /\ asked' = asked \ {q} /\ current' = q
      /\ key' \in Keys /\ orderId' = Unset /\ moved' = (moved \/ Prompting)
      /\ UNCHANGED <<made, latest, delayed, order, confirm>>
  BY DEF PreviewAnswered, Unused, platform
<1>1. TypeOK'
  <2>1. moved' \in BOOLEAN
    BY <1>0, Zenon DEF IInv, TypeOK, Prompting
  <2>2. current' \in (made' \ asked') \cup {Unset}
    BY <1>0 DEF IInv, TypeOK
  <2>3. QED
    BY <1>0, <2>1, <2>2 DEF IInv, TypeOK
<1>2. InHand'
  <2>1. made \ asked \subseteq made' \ asked'
    BY <1>0
  <2>2. QED
    BY <1>0, <2>1 DEF IInv, InHand, PostAt
<1>3. \A r, k : Posted(r, k)' <=> Posted(r, k)
  BY <1>0 DEF Posted, PostAt
<1>4. NewIsUnsent'
  BY <1>0, <1>3 DEF IInv, NewIsUnsent
<1>5. KeysInv'
  <2> SUFFICES ASSUME ~ moved' PROVE PromptsAreCurrent' /\ CurrentKey' /\ OneKey'
    BY DEF KeysInv
  <2>1. ~ moved /\ ~ Prompting
    BY <1>0
  <2>2. OneKey'
    BY <1>3, <2>1 DEF IInv, KeysInv, OneKey
  <2>3. CurrentKey'
    BY <1>0, <1>3 DEF IInv, NewIsUnsent, CurrentKey
  <2>4. PromptsAreCurrent'
    BY <1>0, <2>1 DEF PromptsAreCurrent, Prompting
  <2>5. QED
    BY <2>2, <2>3, <2>4
<1>6. QED
  BY <1>1, <1>2, <1>4, <1>5 DEF IInv

\* A confirm opens its prompt, for the quote that is shown, or leaves it.
LEMMA PromptKeeps ==
    ASSUME IInv, NEW c \in Confirms, TapConfirm(c) \/ PromptFails(c)
    PROVE  IInv'
<1>0. UNCHANGED <<asked, made, latest, current, key, orderId, delayed, order, moved>>
  BY DEF TapConfirm, PromptFails, screen, platform
<1>1. PICK r \in [pc : {"idle", "prompt"},
                  quote : Quotes \cup {Unset}, key : Keys \cup {Unset}] :
        /\ confirm' = [confirm EXCEPT ![c] = r]
        /\ r.pc = "prompt" => r.quote = current /\ current # Unset
        /\ ~ PostAt(c)
  <2>1. CASE TapConfirm(c)
    <3>1. [pc |-> "prompt", quote |-> current, key |-> Unset]
            \in [pc : {"idle", "prompt"}, quote : Quotes \cup {Unset}, key : Keys \cup {Unset}]
      BY DEF IInv, TypeOK
    <3>2. confirm' = [confirm EXCEPT ![c] = [pc |-> "prompt", quote |-> current, key |-> Unset]]
          /\ current # Unset /\ ~ PostAt(c)
      BY <2>1 DEF TapConfirm, Idle, PostAt
    <3>3. QED
      BY <3>1, <3>2
  <2>2. CASE PromptFails(c)
    <3>1. Idle \in [pc : {"idle", "prompt"}, quote : Quotes \cup {Unset},
                     key : Keys \cup {Unset}]
      BY DEF Idle
    <3>2. confirm' = [confirm EXCEPT ![c] = Idle] /\ Idle.pc # "prompt" /\ ~ PostAt(c)
      BY <2>2 DEF PromptFails, Idle, PostAt
    <3>3. QED
      BY <3>1, <3>2
  <2>3. QED
    BY <2>1, <2>2
<1>2. \A d \in Confirms : confirm'[d] = IF d = c THEN r ELSE confirm[d]
  BY <1>1 DEF IInv, TypeOK
<1>3. TypeOK'
  <2>1. confirm' \in [Confirms ->
            [pc : Places, quote : Quotes \cup {Unset}, key : Keys \cup {Unset}]]
    BY <1>1 DEF IInv, TypeOK, Places
  <2>2. QED
    BY <1>0, <2>1 DEF IInv, TypeOK
<1>4. InHand'
  <2>1. current # Unset => current \in made \ asked
    BY DEF IInv, TypeOK
  <2>2. QED
    BY <1>0, <1>1, <1>2, <2>1 DEF IInv, InHand, PostAt
<1>5. \A q, k : Posted(q, k)' => Posted(q, k)
  BY <1>0, <1>1, <1>2 DEF Posted, PostAt
<1>6. NewIsUnsent'
  BY <1>0, <1>5 DEF IInv, NewIsUnsent
<1>7. KeysInv'
  <2> SUFFICES ASSUME ~ moved' PROVE PromptsAreCurrent' /\ CurrentKey' /\ OneKey'
    BY DEF KeysInv
  <2>1. PromptsAreCurrent /\ CurrentKey /\ OneKey
    BY <1>0 DEF IInv, KeysInv
  <2>2. PromptsAreCurrent'
    BY <1>0, <1>1, <1>2, <2>1 DEF PromptsAreCurrent
  <2>3. CurrentKey' /\ OneKey'
    BY <1>0, <1>5, <2>1 DEF CurrentKey, OneKey
  <2>4. QED
    BY <2>2, <2>3
<1>8. QED
  BY <1>3, <1>4, <1>6, <1>7 DEF IInv

\* A passed prompt sends its quote with the key of now.
LEMMA PassKeeps ==
    ASSUME IInv, NEW c \in Confirms, PromptPasses(c)
    PROVE  IInv'
<1>0. /\ confirm[c].pc = "prompt"
      /\ UNCHANGED <<asked, made, latest, current, key, orderId, delayed, order, moved>>
  BY DEF PromptPasses, screen, platform
<1> DEFINE r == [pc |-> "sent", quote |-> confirm[c].quote, key |-> key]
<1>1. confirm[c] \in [pc : Places, quote : Quotes \cup {Unset}, key : Keys \cup {Unset}]
  BY DEF IInv, TypeOK
<1>2. confirm' = [confirm EXCEPT ![c] = r]
  <2> DEFINE f == [confirm EXCEPT ![c].pc = "sent"]
  <2>1. confirm' = [f EXCEPT ![c].key = key]
    BY DEF PromptPasses
  <2>2. confirm \in [Confirms -> [pc : Places, quote : Quotes \cup {Unset},
                                  key : Keys \cup {Unset}]]
    BY DEF IInv, TypeOK
  <2>3. f[c] = [pc |-> "sent", quote |-> confirm[c].quote, key |-> confirm[c].key]
    BY <1>1, <2>2
  <2>4. DOMAIN f = Confirms /\ \A d \in Confirms \ {c} : f[d] = confirm[d]
    BY <2>2
  <2> HIDE DEF f
  <2>5. [f[c] EXCEPT !.key = key] = r
    BY <2>3
  <2>6. confirm' = [f EXCEPT ![c] = r]
    BY <2>1, <2>5
  <2>7. confirm' = [d \in Confirms |-> IF d = c THEN r ELSE f[d]]
    BY <2>4, <2>6
  <2>8. [confirm EXCEPT ![c] = r] = [d \in Confirms |-> IF d = c THEN r ELSE confirm[d]]
    BY <2>2
  <2>9. QED
    BY <2>4, <2>7, <2>8
<1>3. confirm[c].quote \in made \ asked /\ key \in Keys
  BY <1>0 DEF IInv, InHand, TypeOK
<1> HIDE DEF r
<1>4. r.pc = "sent" /\ r.quote = confirm[c].quote /\ r.key = key
  BY DEF r
<1>5. \A d \in Confirms : confirm'[d] = IF d = c THEN r ELSE confirm[d]
  BY <1>2 DEF IInv, TypeOK
<1>6. r \in [pc : Places, quote : Quotes \cup {Unset}, key : Keys \cup {Unset}]
  BY <1>1 DEF IInv, TypeOK, r, Places
<1>7. TypeOK'
  BY <1>0, <1>2, <1>6 DEF IInv, TypeOK
<1>8. \A q, k : Posted(q, k)' => Posted(q, k) \/ (q = confirm[c].quote /\ k = key)
  BY <1>0, <1>4, <1>5 DEF Posted, PostAt
<1>9. NewIsUnsent'
  BY <1>0, <1>3, <1>8 DEF IInv, NewIsUnsent
<1>10. InHand'
  <2>2. \A d \in Confirms :
           confirm'[d].pc # "idle" => confirm'[d].quote \in made' \ asked' /\ key' # Unset
    BY <1>0, <1>3, <1>4, <1>5 DEF IInv, InHand
  <2>3. \A k \in Keys : order'[k] # NoOrder => order'[k].quote \in Quotes
    BY <1>0 DEF IInv, InHand
  <2>4. \A d \in Confirms : PostAt(d)' => confirm'[d].key \in Keys
    BY <1>3, <1>4, <1>5 DEF IInv, InHand, PostAt
  <2>5. current' # Unset => key' # Unset
    BY <1>0 DEF IInv, InHand
  <2>6. QED
    BY <2>2, <2>3, <2>4, <2>5 DEF InHand
<1>11. KeysInv'
  <2> SUFFICES ASSUME ~ moved' PROVE PromptsAreCurrent' /\ CurrentKey' /\ OneKey'
    BY DEF KeysInv
  <2>1. PromptsAreCurrent /\ CurrentKey /\ OneKey
    BY <1>0 DEF IInv, KeysInv
  <2>2. confirm[c].quote = current /\ current \in Quotes /\ current # Unset
    BY <1>0, <1>3, <2>1 DEF PromptsAreCurrent, IInv, TypeOK
  <2>3. PromptsAreCurrent'
    BY <1>0, <1>4, <1>5, <2>1 DEF PromptsAreCurrent
  <2>4. CurrentKey'
    BY <1>0, <1>8, <2>1 DEF CurrentKey
  <2>5. OneKey'
    BY <1>8, <2>1, <2>2 DEF OneKey, CurrentKey
  <2>6. QED
    BY <2>3, <2>4, <2>5
<1>12. QED
  BY <1>7, <1>9, <1>10, <1>11 DEF IInv

\* What the platform records of a POST is that POST, or nothing new.
LEMMA TakenRecords ==
    ASSUME IInv, NEW q \in Quotes, NEW k \in Keys, Taken(q, k)
    PROVE  /\ order' \in [Keys -> [quote : Quotes \cup {Unset}, status : Statuses]]
           /\ \A l \in Keys : order'[l] # NoOrder => order'[l].quote \in Quotes
           /\ \A l \in Keys : order'[l] = order[l] \/ (l = k /\ order'[l].quote = q)
<1>1. CASE order[k] = NoOrder
  <2>1. order' = [order EXCEPT ![k] = [quote |-> q, status |-> "PENDING"]]
    BY <1>1 DEF Taken, Created
  <2>2. [quote |-> q, status |-> "PENDING"] \in [quote : Quotes \cup {Unset}, status : Statuses]
    BY DEF Statuses
  <2>3. QED
    BY <2>1, <2>2 DEF IInv, TypeOK, InHand
<1>2. CASE order[k] # NoOrder
  <2>1. order' = order
    BY <1>2 DEF Taken
  <2>2. QED
    BY <2>1 DEF IInv, TypeOK, InHand
<1>3. QED
  BY <1>1, <1>2

\* A confirm that waits for its answer goes on or ends, and what is left on
\* its way or recorded is the POST it has sent.
LEMMA PostMoves ==
    ASSUME IInv, NEW c \in Confirms, PostAt(c),
           NEW r \in [pc : {"idle", "taken"},
                      quote : Quotes \cup {Unset}, key : Keys \cup {Unset}],
           confirm' = [confirm EXCEPT ![c] = r],
           r.pc # "idle" => r.quote = confirm[c].quote /\ r.key = confirm[c].key,
           \/ UNCHANGED delayed
           \/ delayed' = delayed \cup {<<confirm[c].quote, confirm[c].key>>},
           UNCHANGED order \/ Taken(confirm[c].quote, confirm[c].key),
           UNCHANGED <<asked, made, latest, current, key, moved>>,
           orderId' \in Keys \cup {Unset}
    PROVE  IInv'
<1> DEFINE q == confirm[c].quote
           k == confirm[c].key
<1>1. q \in Quotes /\ k \in Keys
  BY DEF IInv, InHand, TypeOK, PostAt
<1>2. /\ order' \in [Keys -> [quote : Quotes \cup {Unset}, status : Statuses]]
      /\ \A l \in Keys : order'[l] # NoOrder => order'[l].quote \in Quotes
      /\ \A l \in Keys : order'[l] = order[l] \/ (l = k /\ order'[l].quote = q)
  <2>1. CASE UNCHANGED order
    BY <2>1 DEF IInv, TypeOK, InHand
  <2>2. CASE Taken(confirm[c].quote, confirm[c].key)
    BY <1>1, <2>2, TakenRecords
  <2>3. QED
    BY <2>1, <2>2
<1>3. \A d \in Confirms : confirm'[d] = IF d = c THEN r ELSE confirm[d]
  BY DEF IInv, TypeOK
<1>4. Posted(q, k)
  BY DEF Posted
<1>5. TypeOK'
  <2>1. delayed' \subseteq Quotes \X Keys
    BY <1>1 DEF IInv, TypeOK
  <2>2. r \in [pc : Places, quote : Quotes \cup {Unset}, key : Keys \cup {Unset}]
    BY DEF Places
  <2>3. QED
    BY <1>2, <2>1, <2>2 DEF IInv, TypeOK
<1>6. InHand'
  <2>1. r.pc # "idle" => r.quote \in made \ asked /\ r.key \in Keys /\ key # Unset
    BY <1>1 DEF IInv, InHand, PostAt
  <2>2. QED
    BY <1>2, <1>3, <2>1 DEF IInv, InHand, PostAt
<1>7. \A s \in Quotes, l \in Keys : Posted(s, l)' => Posted(s, l)
  <2> SUFFICES ASSUME NEW s \in Quotes, NEW l \in Keys, Posted(s, l)' PROVE Posted(s, l)
    OBVIOUS
  <2>1. CASE \E d \in Confirms : PostAt(d)' /\ confirm'[d].quote = s /\ confirm'[d].key = l
    BY <1>3, <2>1 DEF Posted, PostAt
  <2>2. CASE <<s, l>> \in delayed'
    BY <1>4, <2>2 DEF Posted
  <2>3. CASE order'[l] # NoOrder /\ order'[l].quote = s
    BY <1>2, <1>4, <2>3 DEF Posted
  <2>4. QED
    BY <2>1, <2>2, <2>3 DEF Posted
<1>8. NewIsUnsent' /\ KeysInv'
  <2>1. \A d \in Confirms : confirm'[d].pc = "prompt"
           => confirm[d].pc = "prompt" /\ confirm'[d].quote = confirm[d].quote
    BY <1>3
  <2>2. QED
    BY <1>7, <2>1, NothingSent
<1>9. QED
  BY <1>5, <1>6, <1>8 DEF IInv

\* The answers to a confirm, and none.
LEMMA PostKeeps ==
    ASSUME IInv, NEW c \in Confirms,
           PostTaken(c) \/ PostRefused(c) \/ PostAnswered(c) \/ PostFails(c)
    PROVE  IInv'
<1>0. PostAt(c)
  BY DEF PostAt, PostTaken, PostRefused, PostAnswered, PostFails
<1>1. Idle \in [pc : {"idle", "taken"}, quote : Quotes \cup {Unset}, key : Keys \cup {Unset}]
      /\ Idle.pc = "idle"
  BY DEF Idle
<1>2. confirm[c] \in [pc : Places, quote : Quotes \cup {Unset}, key : Keys \cup {Unset}]
      /\ orderId \in Keys \cup {Unset} /\ confirm[c].key \in Keys
  BY <1>0 DEF IInv, TypeOK, InHand
<1>3. CASE PostTaken(c)
  <2> DEFINE r == [pc |-> "taken", quote |-> confirm[c].quote, key |-> confirm[c].key]
  <2>1. r \in [pc : {"idle", "taken"}, quote : Quotes \cup {Unset}, key : Keys \cup {Unset}]
        /\ r.quote = confirm[c].quote /\ r.key = confirm[c].key
    BY <1>2
  <2>2. confirm' = [confirm EXCEPT ![c] = r]
    <3>1. confirm' = [confirm EXCEPT ![c].pc = "taken"]
      BY <1>3 DEF PostTaken, Go
    <3>2. [confirm[c] EXCEPT !.pc = "taken"] = r
      BY <1>2
    <3> HIDE DEF r
    <3>3. QED
      BY <3>1, <3>2
  <2> HIDE DEF r
  <2>3. /\ Taken(confirm[c].quote, confirm[c].key)
        /\ UNCHANGED <<asked, made, latest, current, key, moved, orderId, delayed>>
    BY <1>3 DEF PostTaken, screen
  <2>4. QED
    BY <1>0, <1>2, <2>1, <2>2, <2>3, PostMoves
<1>4. CASE PostRefused(c)
  <2>1. /\ confirm' = [confirm EXCEPT ![c] = Idle]
        /\ UNCHANGED <<asked, made, latest, current, key, moved, orderId, delayed, order>>
    BY <1>4 DEF PostRefused, screen, platform
  <2>2. QED
    BY <1>0, <1>1, <1>2, <2>1, PostMoves
<1>5. CASE PostAnswered(c)
  <2>1. /\ confirm' = [confirm EXCEPT ![c] = Idle] /\ orderId' = confirm[c].key
        /\ UNCHANGED <<asked, made, latest, current, key, moved, delayed, order>>
    BY <1>5 DEF PostAnswered, platform
  <2>2. QED
    BY <1>0, <1>1, <1>2, <2>1, PostMoves
<1>6. CASE PostFails(c)
  <2>1. /\ confirm' = [confirm EXCEPT ![c] = Idle]
        /\ \/ UNCHANGED delayed
           \/ delayed' = delayed \cup {<<confirm[c].quote, confirm[c].key>>}
        /\ UNCHANGED <<asked, made, latest, current, key, moved, orderId, order>>
    BY <1>6 DEF PostFails, screen
  <2>2. QED
    BY <1>0, <1>1, <1>2, <2>1, PostMoves
<1>7. QED
  BY <1>3, <1>4, <1>5, <1>6

\* A late POST, the platform's work on an order, and the polls of the screen.
LEMMA PlatformKeeps ==
    ASSUME IInv,
           \/ \E post \in delayed : LatePost(post)
           \/ \E k \in Keys : Settle(k)
           \/ Poll
    PROVE  IInv'
<1>0. UNCHANGED <<asked, made, latest, current, key, orderId, confirm, moved>>
  BY DEF LatePost, Settle, Poll, screen
<1>1. /\ delayed' \subseteq delayed
      /\ order' \in [Keys -> [quote : Quotes \cup {Unset}, status : Statuses]]
      /\ \A l \in Keys : order'[l] # NoOrder => order'[l].quote \in Quotes
      /\ \A l \in Keys : order'[l] # NoOrder => Posted(order'[l].quote, l)
  <2>0. \A l \in Keys : order[l] # NoOrder => Posted(order[l].quote, l)
    BY DEF Posted
  <2>1. ASSUME NEW post \in delayed, LatePost(post)
        PROVE  <1>1
    <3>1. PICK q \in Quotes, k \in Keys : post = <<q, k>>
      BY DEF IInv, TypeOK
    <3>2. Posted(q, k) /\ (Taken(q, k) \/ UNCHANGED order) /\ delayed' \subseteq delayed
      BY <2>1, <3>1 DEF LatePost, Posted
    <3>3. CASE Taken(q, k)
      BY <2>0, <3>2, <3>3, TakenRecords
    <3>4. CASE UNCHANGED order
      BY <2>0, <3>2, <3>4 DEF IInv, TypeOK, InHand
    <3>5. QED
      BY <3>2, <3>3, <3>4
  <2>2. ASSUME NEW k \in Keys, Settle(k)
        PROVE  <1>1
    <3>1. PICK status \in {"UNKNOWN"} \cup Final :
            order' = [order EXCEPT ![k].status = status] /\ UNCHANGED delayed
      BY <2>2 DEF Settle
    <3>2. order[k] \in [quote : Quotes \cup {Unset}, status : Statuses] /\ order[k] # NoOrder
      BY <2>2 DEF Settle, NoOrder, IInv, TypeOK
    <3>3. order' \in [Keys -> [quote : Quotes \cup {Unset}, status : Statuses]]
          /\ order'[k].quote = order[k].quote
          /\ \A l \in Keys \ {k} : order'[l] = order[l]
      BY <3>1, <3>2 DEF IInv, TypeOK, Statuses, Final
    <3>4. QED
      BY <2>0, <3>1, <3>2, <3>3 DEF IInv, InHand
  <2>3. ASSUME Poll
        PROVE  <1>1
    BY <2>0, <2>3 DEF Poll, platform, IInv, TypeOK, InHand
  <2>4. QED
    BY <2>1, <2>2, <2>3
<1>2. TypeOK'
  BY <1>0, <1>1 DEF IInv, TypeOK
<1>3. InHand'
  BY <1>0, <1>1 DEF IInv, InHand, PostAt
<1>4. \A q \in Quotes, l \in Keys : Posted(q, l)' => Posted(q, l)
  BY <1>0, <1>1 DEF Posted, PostAt
<1>5. NewIsUnsent' /\ KeysInv'
  BY <1>0, <1>4, NothingSent
<1>6. QED
  BY <1>2, <1>3, <1>5 DEF IInv

\* Every step keeps the inductive invariant.
LEMMA NextKeeps ==
    ASSUME IInv, [Next]_vars
    PROVE  IInv'
<1>1. CASE \E q \in Quotes : TapPreview(q) \/ PreviewAnswered(q) \/ PreviewFails(q)
  BY <1>1, PreviewKeeps, AnswerKeeps
<1>2. CASE \E c \in Confirms : TapConfirm(c) \/ PromptFails(c) \/ PromptPasses(c)
  BY <1>2, PromptKeeps, PassKeeps
<1>3. CASE \E c \in Confirms :
              PostTaken(c) \/ PostRefused(c) \/ PostAnswered(c) \/ PostFails(c)
  BY <1>3, PostKeeps
<1>4. CASE (\E post \in delayed : LatePost(post)) \/ (\E k \in Keys : Settle(k)) \/ Poll
  BY <1>4, PlatformKeeps
<1>5. CASE UNCHANGED vars
  <2>1. UNCHANGED <<asked, made, latest, current, key, orderId, delayed, order, confirm, moved>>
    BY <1>5 DEF vars, screen, platform
  <2>2. TypeOK' /\ InHand'
    BY <2>1 DEF IInv, TypeOK, InHand, PostAt
  <2>3. \A q, k : Posted(q, k)' <=> Posted(q, k)
    BY <2>1 DEF Posted, PostAt
  <2>4. NewIsUnsent' /\ KeysInv'
    BY <2>1, <2>3, NothingSent
  <2>5. QED
    BY <2>2, <2>4 DEF IInv
<1>6. QED
  BY <1>1, <1>2, <1>3, <1>4, <1>5 DEF Next

\* A quote is bought once for any number of previews, confirms and keys,
\* whatever answers are lost and POSTs are late, until a preview is answered
\* under an open prompt.
THEOREM QuotesAreBoughtOnce == Spec => []QuoteBoughtOnce
<1>1. Init => IInv
  BY InitEstablishes
<1>2. IInv /\ [Next]_vars => IInv'
  BY NextKeeps
<1>3. IInv => QuoteBoughtOnce
  <2> SUFFICES ASSUME IInv, ~ moved, NEW k \in Keys, NEW l \in Keys,
                      order[k] # NoOrder, order[k].quote = order[l].quote
               PROVE  k = l
    BY DEF QuoteBoughtOnce
  <2>1. order[k].quote \in Quotes
    BY DEF IInv, InHand
  <2>2. order[l] # NoOrder
    BY <2>1 DEF NoOrder
  <2>3. Posted(order[k].quote, k) /\ Posted(order[k].quote, l)
    BY <2>2 DEF Posted
  <2>4. QED
    BY <2>1, <2>3 DEF IInv, KeysInv, OneKey
<1>4. QED
  BY <1>1, <1>2, <1>3, PTL DEF Spec

\* Every variable of the screen and of the platform's orders keeps to its type.
THEOREM TypeCorrect == Spec => []TypeOK
<1>1. Init => IInv
  BY InitEstablishes
<1>2. IInv /\ [Next]_vars => IInv'
  BY NextKeeps
<1>3. IInv => TypeOK
  BY DEF IInv
<1>4. QED
  BY <1>1, <1>2, <1>3, PTL DEF Spec

HIDE UnsetAssumption

-----------------------------------------------------------------------------
(* The session of the app *)

\* The stored token is the newest one of its session, unless a restart has
\* lost the answer to a refresh.
StoredIsNewest ==
    storedToken.session \notin rotatedAway => storedToken.n = newestToken[storedToken.session]

\* No refresh and no clearing after a second 401 is under way.
Undisturbed ==
    activeRefresh.pc = "idle" /\ \A r \in Requests : sending[r].pc # "clearing"

\* Nothing of the session is read yet, after a start of the app.
Unread ==
    /\ presence \in {"unknown", "unavailable"} /\ accessToken = Login!None
    /\ op.pc = "none" /\ activeRefresh.pc = "idle"
    /\ \A r \in Requests : sending[r].pc = "idle"
    /\ storedToken # Login!None => StoredIsNewest

\* The user is logged in, with tokens of one session, which a refresh under
\* way carries on.
Steady ==
    /\ presence = "active" /\ op.pc = "none"
    /\ storedToken # Login!None /\ storedToken.session = user /\ StoredIsNewest
    /\ accessToken # Login!None => accessToken.session = user
    /\ activeRefresh.pc \in {"idle", "calling", "writing"}
    /\ activeRefresh.pc # "idle" => activeRefresh.token = storedToken
    /\ \A r \in Requests : sending[r].pc # "clearing"

\* The user logs in, and the refresh token is being stored.
Entering ==
    /\ op.pc = "login" /\ presence = "absent" /\ accessToken = Login!None
    /\ storedToken = op.token /\ storedToken # Login!None /\ StoredIsNewest
    /\ Undisturbed

\* No token is left; a logout, a refresh that finds none or a request that
\* clears the session will show the login screen, unless it is shown.
Gone ==
    /\ presence \in {"active", "absent"}
    /\ accessToken = Login!None /\ storedToken = Login!None
    /\ op.pc \in {"none", "logout"} /\ (op.pc = "logout" => Undisturbed)
    /\ activeRefresh.pc \in {"idle", "calling", "expiring"}
    /\ activeRefresh.pc = "calling" => activeRefresh.token = Login!None
    /\ presence = "active" => \/ op.pc = "logout" \/ activeRefresh.pc # "idle"
                              \/ \E r \in Requests : sending[r].pc = "clearing"

SessionInv ==
    /\ Login!TypeOK
    /\ ~ broken /\ ~ disturbed => Unread \/ Steady \/ Entering \/ Gone

LEMMA TokensAreTokens ==
    /\ Login!None \in Login!Token
    /\ \A s \in Sessions : [session |-> s, n |-> 1] \in Login!Token \ {Login!None}
    /\ \A t \in Login!Token \ {Login!None} :
          /\ t.session \in Sessions /\ t.n \in 1..(MaxRefreshes + 1)
          /\ t.n <= MaxRefreshes => Login!Rotated(t) \in Login!Token \ {Login!None}
          /\ Login!Rotated(t).session = t.session
  BY RefreshesAssumption DEF Login!None, Login!Token, Login!Rotated

LEMMA SessionInit == ASSUME PlatformInit PROVE SessionInv
<1>0. Login!Init
  BY DEF PlatformInit
<1>1. Login!TypeOK
  <2>1. sending \in [Requests -> [pc : {"idle", "first", "sent", "again", "resent", "clearing"},
                                 token : Login!Token]]
    BY <1>0, TokensAreTokens DEF Login!Init, Login!NoRequest
  <2>2. newestToken \in [Sessions -> 0..(MaxRefreshes + 1)]
    BY <1>0, RefreshesAssumption DEF Login!Init
  <2>3. QED
    BY <1>0, <2>1, <2>2, TokensAreTokens
       DEF Login!Init, Login!TypeOK, Login!NoOp, Login!NoRefresh
<1>2. Unread
  BY DEF PlatformInit, Login!Init, Unread, Login!None, Login!NoOp, Login!NoRefresh,
         Login!NoRequest
<1>3. QED
  BY <1>1, <1>2 DEF SessionInv

\* Where a request can be.
RequestSteps == {"idle", "first", "sent", "again", "resent", "clearing"}
Sendings == [Requests -> [pc : RequestSteps, token : Login!Token]]

\* The boot of the app, logins and logouts.
LEMMA EntryTyped ==
    ASSUME Login!TypeOK,
           \/ Login!Inspect \/ Login!Restart \/ (\E s \in Sessions : Login!Login(s))
           \/ Login!LoggedIn \/ Login!Logout \/ Login!LoggedOut
    PROVE  Login!TypeOK'
<1> USE RefreshesAssumption, TokensAreTokens DEF Login!TypeOK
<1>1. CASE Login!Inspect
  <2>1. storedToken.session \in Sessions \cup {"none"}
    BY DEF Login!None
  <2>2. QED
    BY <1>1, <2>1 DEF Login!Inspect
<1>2. CASE Login!Restart
  <2>1. newestToken' \in [Sessions -> 0..(MaxRefreshes + 1)]
    BY <1>2 DEF Login!Restart, Login!Refreshable, Login!Rotates
  <2>2. rotatedAway' \subseteq Sessions
    BY <1>2 DEF Login!Restart, Login!Refreshable
  <2>3. QED
    BY <1>2, <2>1, <2>2 DEF Login!Restart, Login!NoOp, Login!NoRefresh, Login!NoRequest
<1>3. ASSUME NEW s \in Sessions, Login!Login(s) PROVE Login!TypeOK'
  <2>1. newestToken' \in [Sessions -> 0..(MaxRefreshes + 1)]
    BY <1>3 DEF Login!Login
  <2>2. storedToken' \in Login!Token
    BY <1>3 DEF Login!Login, Login!DeleteStored
  <2>3. op' \in [pc : {"none", "login", "logout"}, token : Login!Token]
    BY <1>3, <2>2 DEF Login!Login
  <2>4. accessToken' \in Login!Token /\ broken' \in BOOLEAN
    BY <1>3 DEF Login!Login, Login!DeleteStored
  <2>5. disturbed' \in BOOLEAN
    BY <1>3 DEF Login!Login, Login!Disturb
  <2>6. QED
    BY <1>3, <2>1, <2>2, <2>3, <2>4, <2>5 DEF Login!Login
<1>4. CASE Login!LoggedIn
  <2>1. op.token.session \in Sessions \cup {"none"}
    BY DEF Login!None
  <2>2. QED
    BY <1>4, <2>1 DEF Login!LoggedIn, Login!NoOp
<1>5. CASE Login!Logout
  BY <1>5 DEF Login!Logout, Login!DeleteStored, Login!Disturb
<1>6. CASE Login!LoggedOut
  BY <1>6 DEF Login!LoggedOut, Login!NoOp
<1>7. QED
  BY <1>1, <1>2, <1>3, <1>4, <1>5, <1>6

\* The refresh.
LEMMA RefreshTyped ==
    ASSUME Login!TypeOK, Login!Refreshing
    PROVE  Login!TypeOK'
<1> USE RefreshesAssumption, TokensAreTokens DEF Login!TypeOK
<1>1. ASSUME Login!Refreshable(activeRefresh.token), Login!Rotates(activeRefresh.token)
      PROVE  newestToken' \in [Sessions -> 0..(MaxRefreshes + 1)]
  BY <1>1 DEF Login!Refreshable, Login!Rotates
<1>2. CASE Login!RefreshAnswers
  <2>1. Login!Rotated(activeRefresh.token) \in Login!Token
    BY <1>2 DEF Login!RefreshAnswers, Login!Refreshable
  <2>2. QED
    BY <1>1, <1>2, <2>1 DEF Login!RefreshAnswers
<1>3. CASE Login!RefreshSucceeds
  <2>1. PICK replayed \in SUBSET Requests :
          sending' = [r \in Requests |-> Login!Resumed(r, replayed)]
    BY <1>3 DEF Login!RefreshSucceeds
  <2>2. accessToken' \in Login!Token
    BY <1>3 DEF Login!RefreshSucceeds
  <2>3. ASSUME NEW r \in Requests
        PROVE  Login!Resumed(r, replayed) \in [pc : RequestSteps, token : Login!Token]
    BY <2>2 DEF Login!Resumed, Login!NoRequest, RequestSteps
  <2>4. sending' \in Sendings
    BY <2>1, <2>3 DEF Sendings
  <2>5. QED
    BY <1>3, <2>2, <2>4 DEF Login!RefreshSucceeds, Sendings, RequestSteps, Login!NoRefresh
<1>4. CASE Login!RefreshFails
  <2>1. newestToken' \in [Sessions -> 0..(MaxRefreshes + 1)]
    BY <1>1, <1>4 DEF Login!RefreshFails, Login!Failing
  <2>2. QED
    BY <1>4, <2>1 DEF Login!RefreshFails, Login!DeleteStored
<1>5. CASE Login!Expired
  BY <1>5 DEF Login!Expired, Login!NoRefresh, Login!NoRequest
<1>6. QED
  BY <1>2, <1>3, <1>4, <1>5 DEF Login!Refreshing

\* The requests.
LEMMA RequestTyped ==
    ASSUME Login!TypeOK, NEW r \in Requests, Login!Request(r) \/ Login!Going(r)
    PROVE  Login!TypeOK'
<1> USE RefreshesAssumption, TokensAreTokens DEF Login!TypeOK
<1>1. Login!JoinRefresh => activeRefresh' \in [pc : {"idle", "calling", "writing", "expiring"},
                                               token : Login!Token]
                         /\ disturbed' \in BOOLEAN
  BY DEF Login!JoinRefresh, Login!Refreshed, Login!Disturb
<1>2. CASE Login!Request(r)
  BY <1>1, <1>2 DEF Login!Request, Login!Disturb
<1>3. CASE Login!Answered(r)
  BY <1>3 DEF Login!Answered, Login!NoRequest
<1>4. CASE Login!Unauthorized(r)
  BY <1>1, <1>4 DEF Login!Unauthorized, Login!NoRequest
<1>5. CASE Login!UnauthorizedAgain(r)
  BY <1>5 DEF Login!UnauthorizedAgain, Login!NoRequest, Login!DeleteStored, Login!Disturb
<1>6. CASE Login!Cleared(r)
  BY <1>6 DEF Login!Cleared, Login!NoRequest
<1>7. QED
  BY <1>2, <1>3, <1>4, <1>5, <1>6 DEF Login!Going

\* Where the session is, in every step.
Place == Unread \/ Steady \/ Entering \/ Gone

LEMMA WhatDisturbs ==
    ASSUME Login!TypeOK
    PROVE  Undisturbed <=> ~ Login!Refreshed /\ ~ Login!Clearing
  BY DEF Undisturbed, Login!Refreshed, Login!Clearing

\* The boot of the app, logins and logouts.
LEMMA EntryPlaced ==
    ASSUME Login!TypeOK, ~ broken /\ ~ disturbed => Place, ~ broken', ~ disturbed',
           \/ Login!Inspect \/ Login!Restart \/ (\E s \in Sessions : Login!Login(s))
           \/ Login!LoggedIn \/ Login!Logout \/ Login!LoggedOut
    PROVE  Place'
<1>1. CASE Login!Inspect
  <2>1. Unread
    BY <1>1 DEF Place, Unread, Steady, Entering, Gone, Login!Inspect
  <2>2. CASE presence' = "unavailable"
    BY <1>1, <2>1, <2>2 DEF Unread, Login!Inspect, Place, StoredIsNewest, Login!None
  <2>3. CASE presence' # "unavailable" /\ storedToken = Login!None
    <3>1. Gone'
      BY <1>1, <2>1, <2>3 DEF Unread, Gone, Login!Inspect, Login!None
    <3>2. QED
      BY <3>1 DEF Place
  <2>4. CASE presence' # "unavailable" /\ storedToken # Login!None
    <3>1. Steady'
      BY <1>1, <2>1, <2>4 DEF Unread, Steady, Login!Inspect, StoredIsNewest, Login!None
    <3>2. QED
      BY <3>1 DEF Place
  <2>5. QED
    BY <2>2, <2>3, <2>4
<1>2. CASE Login!Restart
  <2>1. Place /\ UNCHANGED storedToken
    BY <1>2 DEF Login!Restart
  <2>2. storedToken # Login!None => StoredIsNewest
    BY <2>1 DEF Place, Unread, Steady, Entering, Gone
  <2>3. activeRefresh.pc = "calling" /\ storedToken # Login!None =>
            activeRefresh.token = storedToken
    BY <2>1 DEF Place, Unread, Steady, Entering, Gone, Undisturbed
  <2>4. storedToken' # Login!None => StoredIsNewest'
    <3>1. CASE UNCHANGED <<newestToken, rotatedAway>>
      BY <2>1, <2>2, <3>1 DEF StoredIsNewest
    <3>2. CASE /\ activeRefresh.pc = "calling"
               /\ rotatedAway' = rotatedAway \cup {activeRefresh.token.session}
      BY <2>1, <2>3, <3>2 DEF StoredIsNewest
    <3>3. QED
      BY <1>2, <3>1, <3>2 DEF Login!Restart
  <2>5. Unread'
    BY <1>2, <2>4 DEF Login!Restart, Unread, Login!NoOp, Login!NoRefresh, Login!NoRequest,
                      Login!None
  <2>6. QED
    BY <2>5 DEF Place
<1>3. ASSUME NEW s \in Sessions, Login!Login(s) PROVE Place'
  <2>1. ~ broken /\ ~ disturbed /\ Undisturbed /\ presence = "absent" /\ op.pc = "none"
    BY <1>3, WhatDisturbs
       DEF Login!Login, Login!Disturb, Login!DeleteStored, Login!TypeOK, Login!NoOp
  <2>2. Gone /\ Undisturbed'
    BY <1>3, <2>1 DEF Place, Unread, Steady, Entering, Login!Login, Undisturbed
  <2>3. CASE storedToken' = [session |-> s, n |-> 1]
             /\ op' = [pc |-> "login", token |-> storedToken']
    <3>1. StoredIsNewest'
      BY <1>3, <2>3 DEF Login!Login, StoredIsNewest, Login!TypeOK
    <3>2. Entering'
      BY <1>3, <2>2, <2>3, <3>1, TokensAreTokens DEF Login!Login, Gone, Entering, Login!None
    <3>3. QED
      BY <3>2 DEF Place
  <2>4. CASE accessToken' = Login!None /\ Login!DeleteStored /\ UNCHANGED op
    <3>1. Gone'
      BY <1>3, <2>1, <2>2, <2>4
         DEF Login!Login, Gone, Login!DeleteStored, Login!None, Undisturbed
    <3>2. QED
      BY <3>1 DEF Place
  <2>5. QED
    BY <1>3, <2>3, <2>4 DEF Login!Login
<1>4. CASE Login!LoggedIn
  <2>1. Entering
    BY <1>4 DEF Place, Unread, Steady, Entering, Gone, Login!LoggedIn
  <2>2. Steady'
    BY <1>4, <2>1 DEF Entering, Undisturbed, Steady, StoredIsNewest, Login!LoggedIn, Login!NoOp,
                      Login!None
  <2>3. QED
    BY <2>2 DEF Place
<1>5. CASE Login!Logout
  <2>1. ~ broken /\ ~ disturbed /\ Undisturbed /\ storedToken' = Login!None /\ broken' = broken
    BY <1>5, WhatDisturbs
       DEF Login!Logout, Login!Disturb, Login!DeleteStored, Login!TypeOK, Login!None
  <2>2. Undisturbed' /\ op'.pc = "logout"
    BY <1>5, <2>1 DEF Login!Logout, Undisturbed
  <2>3. Gone'
    BY <1>5, <2>1, <2>2 DEF Gone, Undisturbed, Login!Logout, Login!None
  <2>4. QED
    BY <2>3 DEF Place
<1>6. CASE Login!LoggedOut
  <2>1. Gone
    BY <1>6 DEF Place, Unread, Steady, Entering, Login!LoggedOut
  <2>2. Gone'
    BY <1>6, <2>1 DEF Gone, Undisturbed, Login!LoggedOut, Login!NoOp, Login!None
  <2>3. QED
    BY <2>2 DEF Place
<1>7. QED
  BY <1>1, <1>2, <1>3, <1>4, <1>5, <1>6

\* The refresh.
LEMMA RefreshPlaced ==
    ASSUME Login!TypeOK, ~ broken /\ ~ disturbed => Place, ~ broken', ~ disturbed',
           Login!Refreshing
    PROVE  Place'
<1>1. CASE Login!RefreshAnswers
  <2>1. Steady /\ activeRefresh.token = storedToken /\ storedToken # Login!None
    BY <1>1 DEF Place, Unread, Steady, Entering, Gone, Undisturbed, Login!RefreshAnswers,
                Login!Refreshable
  <2>2. /\ Login!Rotated(storedToken) # Login!None
        /\ Login!Rotated(storedToken).session = storedToken.session
    BY <1>1, <2>1, TokensAreTokens DEF Login!RefreshAnswers, Login!Refreshable, Login!TypeOK
  <2>3. StoredIsNewest'
    <3>1. storedToken.session \in Sessions /\ storedToken.n = newestToken[storedToken.session]
      BY <1>1, <2>1, TokensAreTokens DEF Login!RefreshAnswers, Login!Refreshable, Login!TypeOK
    <3>2. Login!Rotated(storedToken).n = storedToken.n + 1
      BY <2>1, TokensAreTokens DEF Login!Rotated, Login!TypeOK, Login!Token, Login!None
    <3>3. newestToken'[storedToken.session] = storedToken.n + 1
      BY <1>1, <2>1, <3>1 DEF Login!RefreshAnswers, Login!Rotates, Login!TypeOK
    <3>4. QED
      BY <1>1, <2>1, <2>2, <3>2, <3>3 DEF Login!RefreshAnswers, StoredIsNewest
  <2>4. Steady'
    BY <1>1, <2>1, <2>2, <2>3 DEF Steady, Login!RefreshAnswers, Login!None
  <2>5. QED
    BY <2>4 DEF Place
<1>2. CASE Login!RefreshSucceeds
  <2>1. Steady /\ activeRefresh.token = storedToken
    BY <1>2 DEF Place, Unread, Steady, Entering, Gone, Undisturbed, Login!RefreshSucceeds
  <2>2. \A r \in Requests : sending'[r].pc # "clearing"
    BY <1>2, <2>1 DEF Steady, Login!RefreshSucceeds, Login!Resumed, Login!NoRequest
  <2>3. Steady'
    BY <1>2, <2>1, <2>2
       DEF Steady, StoredIsNewest, Login!RefreshSucceeds, Login!NoRefresh, Login!None
  <2>4. QED
    BY <2>3 DEF Place
<1>3. CASE Login!RefreshFails
  <2>1. ~ broken /\ ~ disturbed /\ storedToken' = Login!None
    BY <1>3 DEF Login!RefreshFails, Login!DeleteStored, Login!TypeOK, Login!None
  <2>2. Steady \/ Gone
    BY <1>3, <2>1 DEF Place, Unread, Entering, Undisturbed, Login!RefreshFails, Login!Failing
  <2>3. activeRefresh'.pc = "expiring" /\ accessToken' = Login!None
    BY <1>3 DEF Login!RefreshFails, Login!TypeOK, Login!None
  <2>4. op.pc # "logout"
    BY <1>3, <2>2 DEF Steady, Gone, Undisturbed, Login!RefreshFails, Login!Failing
  <2>5. Gone'
    BY <1>3, <2>1, <2>2, <2>3, <2>4 DEF Steady, Gone, Login!RefreshFails, Login!None
  <2>6. QED
    BY <2>5 DEF Place
<1>4. CASE Login!Expired
  <2>1. Gone
    BY <1>4 DEF Place, Unread, Steady, Entering, Undisturbed, Login!Expired
  <2>2. op.pc = "none"
    BY <1>4, <2>1 DEF Gone, Undisturbed, Login!Expired
  <2>3. Gone'
    BY <1>4, <2>1, <2>2 DEF Gone, Login!Expired, Login!NoRefresh, Login!None
  <2>4. QED
    BY <2>3 DEF Place
<1>5. QED
  BY <1>1, <1>2, <1>3, <1>4 DEF Login!Refreshing

\* Requests other than r stay as they are.
OthersWait(r) == \A q \in Requests \ {r} : sending'[q] = sending[q]

\* A request that starts or goes on, and may join a refresh or start one.
Joining == \/ Login!JoinRefresh
           \/ UNCHANGED <<activeRefresh, disturbed>>

LEMMA JoinPlaced ==
    ASSUME Login!TypeOK, Place, ~ disturbed', NEW r \in Requests, ~ Unread,
           OthersWait(r), sending[r].pc # "clearing", sending'[r].pc # "clearing", Joining,
           UNCHANGED <<accessToken, storedToken, presence, op, user, newestToken, rotatedAway>>
    PROVE  Place'
<1>1. Undisturbed /\ op # Login!NoOp => UNCHANGED activeRefresh
  BY DEF Undisturbed, Joining, Login!JoinRefresh, Login!Refreshed, Login!Disturb
<1>2. \A q \in Requests : sending[q].pc = "clearing" <=> sending'[q].pc = "clearing"
  BY DEF OthersWait
<1>3. CASE Steady
  <2>1. Steady'
    BY <1>2, <1>3 DEF Steady, StoredIsNewest, Joining, Login!JoinRefresh, Login!Refreshed,
                      Login!None
  <2>2. QED
    BY <2>1 DEF Place
<1>4. CASE Entering
  <2>1. UNCHANGED activeRefresh
    BY <1>1, <1>4 DEF Entering, Login!NoOp
  <2>2. Entering'
    BY <1>2, <1>4, <2>1 DEF Entering, StoredIsNewest, Undisturbed, Login!None
  <2>3. QED
    BY <2>2 DEF Place
<1>5. CASE Gone
  <2>1. op.pc = "logout" => UNCHANGED activeRefresh
    BY <1>1, <1>5 DEF Gone, Login!NoOp
  <2>2. activeRefresh'.pc \in {"idle", "calling", "expiring"}
    BY <1>5 DEF Gone, Joining, Login!JoinRefresh, Login!Refreshed
  <2>3. activeRefresh'.pc = "calling" => activeRefresh'.token = Login!None
    BY <1>5 DEF Gone, Joining, Login!JoinRefresh, Login!Refreshed
  <2>4. activeRefresh.pc # "idle" => activeRefresh'.pc # "idle"
    BY DEF Joining, Login!JoinRefresh, Login!Refreshed
  <2>5. Gone'
    BY <1>2, <1>5, <2>1, <2>2, <2>3, <2>4 DEF Gone, Undisturbed, Login!None
  <2>6. QED
    BY <2>5 DEF Place
<1>6. QED
  BY <1>3, <1>4, <1>5 DEF Place

LEMMA JoiningDisturbs == ASSUME Joining, ~ disturbed' PROVE ~ disturbed
<1>1. CASE Login!JoinRefresh
  BY <1>1, Zenon DEF Login!JoinRefresh, Login!Disturb
<1>2. CASE UNCHANGED <<activeRefresh, disturbed>>
  BY <1>2
<1>3. QED
  BY <1>1, <1>2 DEF Joining

\* The requests.
LEMMA RequestPlaced ==
    ASSUME Login!TypeOK, ~ broken /\ ~ disturbed => Place, ~ broken', ~ disturbed',
           NEW r \in Requests, Login!Request(r) \/ Login!Going(r)
    PROVE  Place'
<1>1. CASE Login!Request(r)
  <2>1. Joining
    <3>1. CASE accessToken # Login!None
      BY <1>1, <3>1 DEF Login!Request, Joining
    <3>2. CASE accessToken = Login!None
      BY <1>1, <3>2 DEF Login!Request, Joining
    <3>3. QED
      BY <3>1, <3>2
  <2>2. ~ broken /\ ~ disturbed
    BY <1>1, <2>1, JoiningDisturbs DEF Login!Request
  <2>3. Place /\ ~ Unread
    BY <1>1, <2>2 DEF Unread, Login!Request
  <2>4. sending[r].pc # "clearing" /\ sending'[r].pc # "clearing" /\ OthersWait(r)
    BY <1>1 DEF Login!Request, Login!NoRequest, Login!TypeOK, OthersWait
  <2>5. QED
    BY <1>1, <2>1, <2>3, <2>4, JoinPlaced DEF Login!Request
<1>2. ASSUME sending[r].pc # "idle" PROVE ~ Unread
  BY <1>2 DEF Unread
<1>3. CASE Login!Answered(r)
  <2>1. sending[r].pc \notin {"clearing", "idle"} /\ sending'[r].pc # "clearing" /\ OthersWait(r)
    BY <1>3 DEF Login!Answered, Login!NoRequest, Login!TypeOK, OthersWait
  <2>2. QED
    BY <1>2, <1>3, <2>1, JoinPlaced DEF Login!Answered, Joining
<1>4. CASE Login!Unauthorized(r)
  <2>1. sending[r].pc \notin {"clearing", "idle"} /\ sending'[r].pc # "clearing" /\ OthersWait(r)
    BY <1>4 DEF Login!Unauthorized, Login!NoRequest, Login!TypeOK, OthersWait
  <2>2. Joining
    <3>1. CASE accessToken \notin {Login!None, sending[r].token}
      BY <1>4, <3>1 DEF Login!Unauthorized, Joining
    <3>2. CASE accessToken \in {Login!None, sending[r].token}
      BY <1>4, <3>2 DEF Login!Unauthorized, Joining
    <3>3. QED
      BY <3>1, <3>2
  <2>3. ~ broken /\ ~ disturbed
    BY <1>4, <2>2, JoiningDisturbs DEF Login!Unauthorized
  <2>4. QED
    BY <1>2, <1>4, <2>1, <2>2, <2>3, JoinPlaced DEF Login!Unauthorized
<1>5. CASE Login!UnauthorizedAgain(r)
  <2>1. ~ broken /\ ~ disturbed /\ storedToken' = Login!None /\ broken' = broken
    BY <1>5 DEF Login!UnauthorizedAgain, Login!Disturb, Login!DeleteStored, Login!TypeOK, Login!None
  <2>2. activeRefresh.pc = "idle" /\ op.pc = "none"
    <3>1. ~ Login!Refreshed /\ op = Login!NoOp
      BY <1>5, Zenon DEF Login!UnauthorizedAgain, Login!Disturb
    <3>2. QED
      BY <3>1 DEF Login!Refreshed, Login!NoOp
  <2>3. Steady \/ Gone
    BY <1>2, <1>5, <2>1, <2>2 DEF Login!UnauthorizedAgain, Place, Entering
  <2>4. sending'[r].pc = "clearing"
    BY <1>5, <2>1 DEF Login!UnauthorizedAgain, Login!TypeOK
  <2>5. Gone'
    BY <1>5, <2>1, <2>2, <2>3, <2>4 DEF Login!UnauthorizedAgain, Steady, Gone, Login!None
  <2>6. QED
    BY <2>5 DEF Place
<1>6. CASE Login!Cleared(r)
  <2>1. Gone /\ op.pc = "none"
    BY <1>2, <1>6 DEF Login!Cleared, Steady, Gone, Place, Entering, Undisturbed
  <2>2. Gone'
    BY <1>6, <2>1 DEF Login!Cleared, Gone, Login!None
  <2>3. QED
    BY <2>2 DEF Place
<1>7. QED
  BY <1>1, <1>3, <1>4, <1>5, <1>6 DEF Login!Going

LEMMA SessionStep == SessionInv /\ [PlatformNext]_platformVars => SessionInv'
<1>1. ASSUME SessionInv, UNCHANGED sessionVars PROVE SessionInv'
  <2>1. Login!TypeOK'
    BY <1>1 DEF SessionInv, sessionVars, Login!TypeOK, Login!Token, Login!None
  <2>2. Place => Place'
    BY <1>1 DEF sessionVars, Place, Unread, Steady, Entering, Gone, Undisturbed, StoredIsNewest,
                Login!None
  <2>3. QED
    BY <1>1, <2>1, <2>2 DEF SessionInv, Place, sessionVars
<1>2. ASSUME SessionInv, Login!Next PROVE SessionInv'
  <2>1. Login!TypeOK'
    BY <1>2, EntryTyped, RefreshTyped, RequestTyped DEF SessionInv, Login!Next
  <2>2. ASSUME ~ broken', ~ disturbed' PROVE Place'
    BY <1>2, <2>2, EntryPlaced, RefreshPlaced, RequestPlaced DEF SessionInv, Place, Login!Next
  <2>3. QED
    BY <2>1, <2>2 DEF SessionInv, Place
<1>3. QED
  BY <1>1, <1>2, Frame

LEMMA SessionAlways == PlatformSpec => []SessionInv
  BY SessionInit, SessionStep, PTL DEF PlatformSpec

\* The session of the app keeps the types of its variables.
THEOREM SessionTypeCorrect == PlatformSpec => []Login!TypeOK
<1>1. SessionInv => Login!TypeOK
  BY DEF SessionInv
<1>2. QED
  BY <1>1, SessionAlways, PTL

\* As long as no login or logout has overlapped with a refresh or a clearing,
\* no clearing has begun during a refresh and no deletion has failed: no token is
\* left behind the login screen, the access token belongs to the user who is
\* logged in, and the app has the newest token of the session it shows, unless a
\* restart has lost the answer to a refresh; whatever the provider refuses,
\* whenever the app is killed and however many requests share a refresh.
THEOREM TokensAlwaysAgree == PlatformSpec => []TokensAgree
<1>1. SessionInv => TokensAgree
  <2> SUFFICES ASSUME SessionInv PROVE TokensAgree
    OBVIOUS
  <2>1. ASSUME ~ disturbed, Login!Quiet, presence = "absent"
        PROVE  accessToken = Login!None /\ storedToken = Login!None
    BY <2>1 DEF SessionInv, Unread, Steady, Entering, Gone, Login!Quiet, Login!NoOp
  <2>2. ASSUME accessToken # Login!None, ~ broken, ~ disturbed PROVE accessToken.session = user
    BY <2>2 DEF SessionInv, Unread, Steady, Entering, Gone
  <2>3. ASSUME Login!Quiet, presence = "active", ~ disturbed
        PROVE  storedToken # Login!None /\ StoredIsNewest
    BY <2>3 DEF SessionInv, Unread, Steady, Entering, Gone, Login!Quiet, Login!NoOp,
                Login!NoRefresh
  <2>4. QED
    BY <2>1, <2>2, <2>3 DEF TokensAgree, Login!TokensAgree, Login!LoggedOutForgets,
                            Login!Forgotten, Login!OneUser, Login!ActiveCanRefresh, StoredIsNewest
<1>2. QED
  BY <1>1, SessionAlways, PTL

-----------------------------------------------------------------------------
(* The risk profile on the phone *)

Versions == [user : Customers \cup {"none"}, version : Nat]
Answering == {"none", "sent", "applied", "refused"}
SaveRecords == [pc : Answering, from : {"none", "home", "risk", "settings", "simulation"},
                orphan : BOOLEAN, user : Customers \cup {"none"}, expected : Nat, basis : Versions]

RiskTypeOK ==
    /\ session \in Customers \cup {"none"}
    /\ server \in [Customers -> Nat]
    /\ cached \in Versions /\ filled \in Versions
    /\ fetch \in [pc : {"none", "asked", "answered"}, got : Versions, failures : Nat]
    /\ top \in {"home", "risk", "settings", "simulation"}
    /\ save \in [Saves -> SaveRecords]

\* The cache and the fetch that fills it are those of the customer.
CacheInv ==
    /\ cached # Risk!NoProfile => cached.user = session /\ session # "none"
    /\ fetch.pc # "none" => session # "none"
    /\ fetch.pc = "answered" => fetch.got.user = session

\* The fields of the settings show what the cache has.
FilledInv == top = "settings" => filled = cached

\* An update was made from the very version it names.  One of this client is
\* of the customer who is logged in.
SaveInv(s) ==
    /\ save[s].pc = "sent" =>
          save[s].basis = [user |-> save[s].user, version |-> save[s].expected]
    /\ save[s].pc # "none" => save[s].user \in Customers
    /\ save[s].pc # "none" /\ ~ save[s].orphan => save[s].user = session /\ session # "none"

\* So was one whose caller has given up.
OverdueInv ==
    /\ overdue \subseteq [user : Customers, expected : Nat, basis : Versions]
    /\ \A update \in overdue :
          update.basis = [user |-> update.user, version |-> update.expected]

RiskInv ==
    /\ RiskTypeOK /\ CacheInv /\ FilledInv /\ OverdueInv
    /\ \A s \in Saves : SaveInv(s)
    /\ ~ blind

LEMMA RiskInit == ASSUME PlatformInit PROVE RiskInv
<1>1. Risk!Init
  BY DEF PlatformInit
<1>2. RiskTypeOK
  <2>1. save \in [Saves -> SaveRecords]
    BY <1>1 DEF Risk!Init, Risk!NoSave, Risk!NoProfile, SaveRecords, Answering, Versions
  <2>2. QED
    BY <1>1, <2>1 DEF Risk!Init, Risk!NoFetch, Risk!NoProfile, RiskTypeOK, Versions
<1>3. \A s \in Saves : SaveInv(s)
  BY <1>1 DEF Risk!Init, Risk!NoSave, SaveInv
<1>4. CacheInv /\ FilledInv /\ OverdueInv /\ ~ blind
  BY <1>1 DEF Risk!Init, Risk!NoFetch, CacheInv, FilledInv, OverdueInv
<1>5. QED
  BY <1>2, <1>3, <1>4 DEF RiskInv

\* A step that leaves the updates alone.
LEMMA SavesKept ==
    ASSUME \A s \in Saves : SaveInv(s), UNCHANGED <<session, save>>
    PROVE  \A s \in Saves : SaveInv(s)'
  BY DEF SaveInv

LEMMA OverdueKept == ASSUME OverdueInv, UNCHANGED overdue PROVE OverdueInv'
  BY DEF OverdueInv

\* The fetch of the profile.
LEMMA FetchKeepsRisk ==
    ASSUME RiskInv, \/ Risk!StartFetch \/ Risk!ServerReads \/ Risk!FetchArrives
                    \/ \E retryable \in BOOLEAN : Risk!FetchFails(retryable)
    PROVE  RiskInv'
<1> USE DEF RiskInv, RiskTypeOK, CacheInv
<1>1. CASE Risk!StartFetch
  <2>1. fetch' = [pc |-> "asked", got |-> Risk!NoProfile, failures |-> 0] /\ session # "none"
    BY <1>1 DEF Risk!updateVars, Risk!StartFetch, Risk!NoFetch
  <2>2. Risk!NoProfile \in Versions
    BY DEF Risk!updateVars, Risk!NoProfile, Versions
  <2>3. /\ fetch' \in [pc : {"none", "asked", "answered"}, got : Versions, failures : Nat]
        /\ fetch'.pc = "asked"
    BY <2>1, <2>2
  <2>4. QED
    BY <1>1, <2>1, <2>3, SavesKept, OverdueKept
       DEF Risk!updateVars, Risk!StartFetch, Risk!screenVars, FilledInv,
                                       Risk!NoProfile
<1>2. CASE Risk!ServerReads
  <2>1. /\ fetch' \in [pc : {"none", "asked", "answered"}, got : Versions, failures : Nat]
        /\ fetch'.pc = "answered" /\ fetch'.got.user = session
    <3> DEFINE got == [user |-> session, version |-> server[session]]
    <3>1. session # "none" /\ session \in Customers
      BY <1>2 DEF Risk!updateVars, Risk!ServerReads
    <3>2. got \in Versions /\ got.user = session
      BY <3>1 DEF Versions
    <3> HIDE DEF got
    <3>3. fetch' = [fetch EXCEPT !.pc = "answered", !.got = got]
      BY <1>2 DEF Risk!updateVars, Risk!ServerReads, got
    <3>4. QED
      BY <3>2, <3>3
  <2>2. session # "none"
    BY <1>2 DEF Risk!updateVars, Risk!ServerReads
  <2>3. QED
    BY <1>2, <2>1, <2>2, SavesKept, OverdueKept
       DEF Risk!updateVars, Risk!ServerReads, Risk!screenVars, FilledInv,
                                       Risk!NoProfile
<1>3. CASE Risk!FetchArrives
  <2>1. /\ cached' = fetch.got /\ fetch.got.user = session /\ session # "none"
        /\ fetch' = [pc |-> "none", got |-> Risk!NoProfile, failures |-> 0]
    BY <1>3 DEF Risk!updateVars, Risk!FetchArrives, Risk!Cache, Risk!NoFetch
  <2>2. FilledInv' /\ filled' \in Versions
    BY <1>3, <2>1 DEF Risk!updateVars, Risk!FetchArrives, Risk!Cache, Risk!Fill, FilledInv
  <2>3. QED
    BY <1>3, <2>1, <2>2, SavesKept, OverdueKept
       DEF Risk!updateVars, Risk!FetchArrives, Risk!NoProfile, Versions
<1>4. ASSUME NEW retryable \in BOOLEAN, Risk!FetchFails(retryable) PROVE RiskInv'
  <2>1. /\ fetch' \in [pc : {"none", "asked", "answered"}, got : Versions, failures : Nat]
        /\ fetch'.pc \in {"none", "asked"} /\ session # "none"
    <3>1. \/ fetch' = [pc |-> "asked", got |-> Risk!NoProfile, failures |-> fetch.failures + 1]
          \/ fetch' = [pc |-> "none", got |-> Risk!NoProfile, failures |-> 0]
      BY <1>4 DEF Risk!updateVars, Risk!FetchFails, Risk!NoFetch
    <3>2. fetch.failures + 1 \in Nat /\ Risk!NoProfile \in Versions
      BY DEF Risk!updateVars, Risk!NoProfile, Versions
    <3>3. QED
      BY <1>4, <3>1, <3>2 DEF Risk!updateVars, Risk!FetchFails
  <2>2. QED
    BY <1>4, <2>1, SavesKept, OverdueKept
       DEF Risk!updateVars, Risk!FetchFails, Risk!screenVars, FilledInv, Risk!NoProfile
<1>5. QED
  BY <1>1, <1>2, <1>3, <1>4

\* The screens, as long as they send nothing, the other devices and the login.
LEMMA ScreenKeepsRisk ==
    ASSUME RiskInv,
           \/ Risk!Back \/ Risk!ShowResult
           \/ \E to \in {"risk", "settings", "simulation"} : Risk!OpenScreen(to)
           \/ \E q \in Questions, score \in 0..2 : Risk!SelectAnswer(q, score)
           \/ \E u \in Customers : Risk!OtherDevice(u) \/ Risk!Login(u)
    PROVE  RiskInv'
<1> USE DEF RiskInv, RiskTypeOK, CacheInv, FilledInv
<1>0. Risk!NoProfile \in Versions
  BY DEF Risk!updateVars, Risk!NoProfile, Versions
<1>1. CASE Risk!Back
  BY <1>0, <1>1, SavesKept, OverdueKept
     DEF Risk!updateVars, Risk!Back, Risk!Home, Risk!queryVars, Risk!NoProfile
<1>2. CASE Risk!ShowResult
  BY <1>2, SavesKept, OverdueKept
     DEF Risk!updateVars, Risk!ShowResult, Risk!queryVars, Risk!NoProfile
<1>4. ASSUME NEW to \in {"risk", "settings", "simulation"}, Risk!OpenScreen(to) PROVE RiskInv'
  BY <1>0, <1>4, SavesKept, OverdueKept
     DEF Risk!updateVars, Risk!OpenScreen, Risk!queryVars, Risk!NoProfile
<1>5. ASSUME NEW q \in Questions, NEW score \in 0..2, Risk!SelectAnswer(q, score) PROVE RiskInv'
  BY <1>5, SavesKept, OverdueKept
     DEF Risk!updateVars, Risk!SelectAnswer, Risk!queryVars, Risk!NoProfile
<1>6. ASSUME NEW u \in Customers, Risk!OtherDevice(u) PROVE RiskInv'
  <2>1. server' \in [Customers -> Nat]
    BY <1>6 DEF Risk!updateVars, Risk!OtherDevice
  <2>2. QED
    BY <1>6, <2>1, SavesKept, OverdueKept
       DEF Risk!updateVars, Risk!OtherDevice, Risk!queryVars, Risk!screenVars, Risk!NoProfile
<1>7. ASSUME NEW u \in Customers, Risk!Login(u) PROVE RiskInv'
  <2>1. \A s \in Saves : SaveInv(s)'
    BY <1>7 DEF Risk!updateVars, Risk!Login, SaveInv
  <2>2. QED
    BY <1>7, <2>1, OverdueKept
       DEF Risk!updateVars, Risk!Login, Risk!queryVars, Risk!screenVars, Risk!NoProfile
<1>8. QED
  BY <1>1, <1>2, <1>4, <1>5, <1>6, <1>7

\* An update of the coach or of the settings.
LEMMA SendKeepsRisk ==
    ASSUME RiskInv, NEW s \in Saves, Risk!SaveResult(s) \/ Risk!SaveForm(s)
    PROVE  RiskInv'
<1> DEFINE sent == [pc |-> "sent", from |-> top, orphan |-> FALSE, user |-> session,
                    expected |-> cached.version, basis |-> cached]
<1>1. save' = [save EXCEPT ![s] = sent] /\ cached # Risk!NoProfile
  BY DEF RiskInv, FilledInv, Risk!SaveResult, Risk!SaveForm, Risk!Send, Risk!QuestionsShow
<1>2. /\ session \in Customers /\ session # "none"
      /\ cached = [user |-> session, version |-> cached.version]
  BY <1>1 DEF RiskInv, RiskTypeOK, CacheInv, Versions
<1>3. /\ sent \in SaveRecords /\ sent.pc = "sent" /\ sent.user = session /\ ~ sent.orphan
      /\ sent.basis = [user |-> sent.user, version |-> sent.expected]
  BY <1>2 DEF RiskInv, RiskTypeOK, SaveRecords, Answering, Versions
<1> HIDE DEF sent
<1>4. UNCHANGED <<session, server, cached, filled, fetch, top, blind>>
  BY DEF Risk!SaveResult, Risk!SaveForm, Risk!queryVars
<1>5. save' \in [Saves -> SaveRecords] /\ save'[s] = sent
  BY <1>1, <1>3 DEF RiskInv, RiskTypeOK
<1>6. \A d \in Saves \ {s} : save'[d] = save[d]
  BY <1>1 DEF RiskInv, RiskTypeOK
<1>7. SaveInv(s)'
  BY <1>2, <1>3, <1>4, <1>5 DEF SaveInv
<1>8. \A d \in Saves \ {s} : SaveInv(d)'
  BY <1>4, <1>6 DEF RiskInv, SaveInv
<1>9. OverdueInv'
  BY OverdueKept DEF RiskInv, Risk!SaveResult, Risk!SaveForm
<1>10. QED
  BY <1>4, <1>5, <1>7, <1>8, <1>9 DEF RiskInv, RiskTypeOK, CacheInv, FilledInv, Risk!NoProfile

\* The server decides on an update that was made from the version it names.
LEMMA ServerDecides ==
    ASSUME RiskInv, NEW update, update.user \in Customers,
           update.basis = [user |-> update.user, version |-> update.expected],
           Risk!Applies(update) \/ Risk!Refused(update)
    PROVE  server' \in [Customers -> Nat] /\ ~ blind'
<1>0. server \in [Customers -> Nat] /\ ~ blind
  BY DEF RiskInv, RiskTypeOK
<1>1. CASE Risk!Applies(update)
  <2>1. server' = [server EXCEPT ![update.user] = @ + 1] /\ server[update.user] = update.expected
    BY <1>1 DEF Risk!Applies
  <2>2. server' \in [Customers -> Nat]
    BY <1>0, <2>1
  <2>3. update.basis = [user |-> update.user, version |-> server[update.user]]
    BY <2>1
  <2>4. ~ blind'
    BY <1>0, <1>1, <2>3, Zenon DEF Risk!Applies
  <2>5. QED
    BY <2>2, <2>4
<1>2. CASE Risk!Refused(update)
  BY <1>0, <1>2 DEF Risk!Refused
<1>3. QED
  BY <1>1, <1>2

LEMMA ServerKeepsRisk ==
    ASSUME RiskInv, NEW s \in Saves, Risk!ServerUpdates(s)
    PROVE  RiskInv'
<1>1. UNCHANGED <<session, cached, filled, fetch, top, overdue>> /\ save[s].pc = "sent"
  BY DEF Risk!ServerUpdates, Risk!queryVars, Risk!screenVars
<1>2. PICK pc \in {"applied", "refused"} : save' = [save EXCEPT ![s].pc = pc]
  BY DEF Risk!ServerUpdates
<1>3. /\ save' \in [Saves -> SaveRecords]
      /\ save'[s].pc = pc /\ save'[s].user = save[s].user /\ save'[s].orphan = save[s].orphan
  BY <1>2 DEF RiskInv, RiskTypeOK, SaveRecords, Answering
<1>4. \A d \in Saves \ {s} : save'[d] = save[d]
  BY <1>2 DEF RiskInv, RiskTypeOK
<1>5. SaveInv(s)'
  BY <1>1, <1>3 DEF RiskInv, SaveInv
<1>6. \A d \in Saves \ {s} : SaveInv(d)'
  BY <1>1, <1>4 DEF RiskInv, SaveInv
<1>7. server' \in [Customers -> Nat] /\ ~ blind'
  BY <1>1, ServerDecides DEF RiskInv, SaveInv, Risk!ServerUpdates
<1>8. OverdueInv'
  BY <1>1, OverdueKept DEF RiskInv
<1>9. QED
  BY <1>1, <1>3, <1>5, <1>6, <1>7, <1>8
     DEF RiskInv, RiskTypeOK, CacheInv, FilledInv, Risk!NoProfile

LEMMA LateKeepsRisk ==
    ASSUME RiskInv, NEW update \in overdue, Risk!ServerUpdatesLate(update)
    PROVE  RiskInv'
<1>1. UNCHANGED <<session, cached, filled, fetch, top, save>>
  BY DEF Risk!ServerUpdatesLate, Risk!queryVars, Risk!screenVars
<1>2. server' \in [Customers -> Nat] /\ ~ blind'
  BY ServerDecides DEF RiskInv, OverdueInv, Risk!ServerUpdatesLate
<1>3. OverdueInv'
  BY DEF RiskInv, OverdueInv, Risk!ServerUpdatesLate
<1>4. \A s \in Saves : SaveInv(s)'
  BY <1>1, SavesKept DEF RiskInv
<1>5. QED
  BY <1>1, <1>2, <1>3, <1>4 DEF RiskInv, RiskTypeOK, CacheInv, FilledInv, Risk!NoProfile

\* The phone hears of it, or of nothing.
LEMMA EndKeepsRisk ==
    ASSUME RiskInv, NEW s \in Saves, Risk!SaveSucceeds(s) \/ Risk!SaveFails(s)
    PROVE  RiskInv'
<1>1. UNCHANGED <<session, server, fetch, blind>> /\ save' = [save EXCEPT ![s] = Risk!NoSave]
  BY DEF Risk!SaveSucceeds, Risk!SaveFails, Risk!queryVars
<1>2. Risk!NoSave \in SaveRecords /\ Risk!NoSave.pc = "none" /\ Risk!NoProfile \in Versions
  BY DEF Risk!NoSave, SaveRecords, Answering, Versions, Risk!NoProfile
<1>3. save' \in [Saves -> SaveRecords] /\ save'[s].pc = "none"
  BY <1>1, <1>2 DEF RiskInv, RiskTypeOK
<1>4. \A d \in Saves : SaveInv(d)'
  <2>1. \A d \in Saves \ {s} : save'[d] = save[d]
    BY <1>1 DEF RiskInv, RiskTypeOK
  <2>2. QED
    BY <1>1, <1>3, <2>1 DEF RiskInv, SaveInv
<1>0. OverdueInv'
  <2>1. CASE UNCHANGED overdue
    BY <2>1, OverdueKept DEF RiskInv
  <2>2. CASE Risk!SaveFails(s) /\ ~ UNCHANGED overdue
    <3> DEFINE given == [user |-> save[s].user, expected |-> save[s].expected,
                         basis |-> save[s].basis]
    <3>1. overdue' = overdue \cup {given} /\ save[s].pc = "sent"
      BY <2>2 DEF Risk!SaveFails
    <3>2. save[s] \in SaveRecords /\ SaveInv(s)
      BY DEF RiskInv, RiskTypeOK
    <3>3. given \in [user : Customers, expected : Nat, basis : Versions]
      BY <3>1, <3>2 DEF SaveInv, SaveRecords
    <3>4. given.basis = [user |-> given.user, version |-> given.expected]
      BY <3>1, <3>2 DEF SaveInv
    <3> HIDE DEF given
    <3>5. QED
      BY <3>1, <3>3, <3>4 DEF RiskInv, OverdueInv
  <2>3. QED
    BY <2>1, <2>2 DEF Risk!SaveSucceeds
<1>5. CASE Risk!SaveSucceeds(s)
  <2>1. save[s].user \in Customers /\ save[s].expected \in Nat
    BY <1>5 DEF Risk!SaveSucceeds, RiskInv, SaveInv, RiskTypeOK, SaveRecords
  <2>2. /\ cached' \in Versions
        /\ cached' # Risk!NoProfile => cached'.user = session /\ session # "none"
    <3>1. CASE save[s].orphan
      BY <1>5, <3>1 DEF Risk!SaveSucceeds, RiskInv, RiskTypeOK, CacheInv
    <3>2. CASE ~ save[s].orphan
      <4>1. cached' = [user |-> save[s].user, version |-> save[s].expected + 1]
        BY <1>5, <3>2 DEF Risk!SaveSucceeds
      <4>2. save[s].user = session /\ session # "none"
        BY <1>5, <3>2 DEF Risk!SaveSucceeds, RiskInv, SaveInv
      <4>3. QED
        BY <2>1, <4>1, <4>2 DEF Versions
    <3>3. QED
      BY <3>1, <3>2
  <2>3. /\ top' \in {"home", "risk", "settings", "simulation"} /\ filled' \in Versions
        /\ top' = "settings" => filled' = cached'
    BY <1>2, <1>5, <2>2 DEF Risk!SaveSucceeds, Risk!Home, Risk!Fill, RiskInv, RiskTypeOK, FilledInv
  <2>4. QED
    BY <1>0, <1>1, <1>3, <1>4, <2>2, <2>3
       DEF RiskInv, RiskTypeOK, CacheInv, FilledInv, Risk!NoProfile
<1>6. CASE Risk!SaveFails(s)
  BY <1>0, <1>1, <1>3, <1>4, <1>6
     DEF Risk!SaveFails, Risk!queryVars, RiskInv, RiskTypeOK, CacheInv, FilledInv, Risk!NoProfile
<1>7. QED
  BY <1>5, <1>6

\* Logout and lock take the tree away.
LEMMA UnmountKeepsRisk ==
    ASSUME RiskInv, Risk!Logout \/ Risk!Lock
    PROVE  RiskInv'
<1>0. OverdueInv'
  BY OverdueKept DEF RiskInv, Risk!Logout, Risk!Lock
<1>1. /\ Risk!Unmount /\ UNCHANGED <<server, blind>>
      /\ session' \in {session, "none"}
  BY DEF Risk!Logout, Risk!Lock
<1>2. /\ cached' = Risk!NoProfile /\ filled' = Risk!NoProfile /\ top' = "home"
      /\ fetch' = [pc |-> "none", got |-> Risk!NoProfile, failures |-> 0]
      /\ Risk!NoProfile \in Versions
  BY <1>1 DEF Risk!Unmount, Risk!Home, Risk!NoFetch, Versions, Risk!NoProfile
<1>3. save' = [s \in Saves |-> [save[s] EXCEPT !.orphan = save[s].pc # "none"]]
  BY <1>1 DEF Risk!Unmount, Risk!Orphaned
<1>4. \A s \in Saves : save'[s] = [save[s] EXCEPT !.orphan = save[s].pc # "none"]
  BY <1>3
<1>5. ASSUME NEW s \in Saves
      PROVE  /\ save'[s] \in SaveRecords
             /\ save'[s].pc = save[s].pc /\ save'[s].user = save[s].user
             /\ save'[s].expected = save[s].expected /\ save'[s].basis = save[s].basis
             /\ save[s].pc # "none" => save'[s].orphan
  <2>1. save[s] \in SaveRecords
    BY DEF RiskInv, RiskTypeOK
  <2> DEFINE busy == save[s].pc # "none"
  <2>2. busy \in BOOLEAN /\ save'[s] = [save[s] EXCEPT !.orphan = busy]
    BY <1>4
  <2>3. save[s].pc # "none" => busy
    OBVIOUS
  <2> HIDE DEF busy
  <2>4. QED
    BY <2>1, <2>2, <2>3 DEF SaveRecords
<1>6. save' \in [Saves -> SaveRecords]
  BY <1>3, <1>5
<1>7. \A s \in Saves : SaveInv(s)'
  BY <1>5 DEF RiskInv, SaveInv
<1>8. QED
  BY <1>0, <1>1, <1>2, <1>6, <1>7
     DEF RiskInv, RiskTypeOK, CacheInv, FilledInv, Risk!NoProfile

LEMMA RiskStep == RiskInv /\ [PlatformNext]_platformVars => RiskInv'
<1>1. ASSUME RiskInv, UNCHANGED riskVars PROVE RiskInv'
  <2>1. \A s \in Saves : SaveInv(s)'
    BY <1>1, SavesKept DEF RiskInv, riskVars
  <2>2. OverdueInv'
    BY <1>1, OverdueKept DEF RiskInv, riskVars
  <2>3. QED
    BY <1>1, <2>1, <2>2 DEF RiskInv, RiskTypeOK, CacheInv, FilledInv, Risk!NoProfile, riskVars
<1>2. ASSUME RiskInv, Risk!Next PROVE RiskInv'
  BY <1>2, FetchKeepsRisk, ScreenKeepsRisk, SendKeepsRisk, ServerKeepsRisk, LateKeepsRisk,
     EndKeepsRisk, UnmountKeepsRisk DEF Risk!Next
<1>3. QED
  BY <1>1, <1>2, Frame

\* No update of the phone replaces a profile other than the one it was made
\* from, however fetches, updates of other devices, answers that are lost, the
\* lock and a change of customer interleave with a form or a questionnaire
\* that is open.
THEOREM NothingOverwrittenBlindly == PlatformSpec => []NoBlindOverwrite
<1>1. RiskInv => NoBlindOverwrite
  BY DEF RiskInv, NoBlindOverwrite, Risk!NoBlindOverwrite
<1>2. PlatformSpec => []RiskInv
  BY RiskInit, RiskStep, PTL DEF PlatformSpec
<1>3. QED
  BY <1>1, <1>2, PTL

-----------------------------------------------------------------------------
(* The calls of the phone *)

\* What the server has of the customer.
HeldInv ==
    /\ held.sync \in {"none", "QUEUED", "FETCHING", "RAW_STORED", "NORMALIZING", "COMPLETED",
                      "FAILED"}
    /\ held.order \in {"none", "PENDING_SUBMISSION", "UNKNOWN", "FILLED", "REJECTED", "FAILED"}
    /\ held.days \in Nat /\ held.version \in Nat /\ held.connected \in BOOLEAN
    /\ DOMAIN held = {"connected", "sync", "days", "version", "order"}

\* The guard of a method accepts a reply, or the status says that it failed.
Accepted(name, reply) == reply.status >= 400 \/ Client!Validate(name, reply.body)

\* A mutation has not run while it is being sent; nothing but a mutation is
\* counted; and an answer on its way is one that its guard accepts.
CallInvariant ==
    /\ DOMAIN apiCall = DOMAIN Client!Idle
    /\ apiCall.pc \in {"idle", "sending", "answered", "ended"}
    /\ apiCall.pc # "idle" => apiCall.name \in Client!Queries \cup Client!Mutations
    /\ apiCall.executed \in {0, 1}
    /\ apiCall.pc \in {"idle", "sending"} \/ apiCall.name \in Client!Queries => apiCall.executed = 0
    /\ apiCall.pc = "answered" =>
          apiCall.reply.status \in Nat /\ Accepted(apiCall.name, apiCall.reply)
    /\ apiCall.outcome # "contract"

ClientInv == HeldInv /\ CallInvariant

LEMMA ClientInit == ASSUME PlatformInit PROVE ClientInv
  BY DEF PlatformInit, Client!Init, Client!Idle, ClientInv, HeldInv, CallInvariant

LEMMA QueriesAreNotMutations ==
    \A name \in Client!Queries : name \notin Client!Mutations
  BY DEF Client!Queries, Client!Mutations

\* What is answered to a request that is refused, or that fails.
Refusals == {Client!Invalid, Client!NotFound, Client!Conflict, Client!Uncaught,
             Client!Problem(429, "yes"), Client!Problem(502, "no"),
             Client!Problem(503, "yes"), Client!Problem(503, "no")}

LEMMA RefusalsAreAccepted ==
    ASSUME NEW name, NEW reply \in Refusals
    PROVE  reply.status \in Nat /\ Accepted(name, reply)
  BY DEF Client!Invalid, Client!NotFound, Client!Conflict, Client!Uncaught, Client!Problem,
         Client!Reply, Refusals, Accepted

LEMMA OkIsAccepted ==
    ASSUME NEW name, NEW body, Client!Validate(name, body)
    PROVE  Client!Ok(body).status \in Nat /\ Accepted(name, Client!Ok(body))
  BY DEF Client!Ok, Client!Reply, Accepted

LEMMA SmallerIsSmall ==
    ASSUME NEW m \in Nat, NEW n \in Nat, n <= 1000
    PROVE  Client!Min({m, n}) <= 1000
<1>1. \E x \in {m, n} : \A y \in {m, n} : x <= y
  OBVIOUS
<1>2. Client!Min({m, n}) \in {m, n} /\ \A y \in {m, n} : Client!Min({m, n}) <= y
  BY <1>1 DEF Client!Min
<1>3. QED
  BY <1>2

\* The answers to a query.
LEMMA AnswersAreAccepted ==
    ASSUME HeldInv, NEW name \in Client!Queries, NEW reply \in Client!Answers(name)
    PROVE  reply.status \in Nat /\ Accepted(name, reply)
<1>1. CASE reply # Client!Uncaught /\ name = "health"
  <2>1. reply \in Client!HealthAnswers
    BY <1>1 DEF Client!Answers
  <2>2. \/ \E b : reply = Client!Ok(b) /\ Client!isPlatformHealth(b)
        \/ reply \in Refusals
    BY <1>1, <2>1 DEF Client!HealthAnswers, Client!isPlatformHealth, Refusals,
           Client!MarketRefusals
  <2>3. \A b : Client!isPlatformHealth(b) => Client!Validate(name, b)
    BY <1>1 DEF Client!Validate
  <2>4. QED
    BY <2>2, <2>3, RefusalsAreAccepted, OkIsAccepted
<1>2. CASE reply # Client!Uncaught /\ name = "me"
  <2>1. reply \in Client!IdentityAnswers(name)
    BY <1>2 DEF Client!Answers
  <2>2. \/ \E b : reply = Client!Ok(b) /\ Client!isCurrentUser(b)
        \/ reply \in Refusals
    BY <1>2, <2>1 DEF Client!IdentityAnswers, Client!isCurrentUser, Client!RiskLevels, Refusals,
           Client!MarketRefusals
  <2>3. \A b : Client!isCurrentUser(b) => Client!Validate(name, b)
    BY <1>2 DEF Client!Validate
  <2>4. QED
    BY <2>2, <2>3, RefusalsAreAccepted, OkIsAccepted
<1>3. CASE reply # Client!Uncaught /\ name = "riskProfile"
  <2>1. reply \in Client!IdentityAnswers(name)
    BY <1>3 DEF Client!Answers
  <2>2. \/ \E b : reply = Client!Ok(b) /\ Client!isRiskProfile(b)
        \/ reply \in Refusals
    BY <1>3, <2>1 DEF Client!IdentityAnswers, Client!isRiskProfile, Client!RiskLevels,
           Client!MoneyDecimals, Client!Money, HeldInv, Refusals, Client!MarketRefusals
  <2>3. \A b : Client!isRiskProfile(b) => Client!Validate(name, b)
    BY <1>3 DEF Client!Validate
  <2>4. QED
    BY <2>2, <2>3, RefusalsAreAccepted, OkIsAccepted
<1>4. CASE reply # Client!Uncaught /\ name = "stocks"
  <2>1. reply \in Client!MarketAnswers(name)
    BY <1>4 DEF Client!Answers
  <2>2. \/ \E b : reply = Client!Ok(b) /\ Client!isMarketStockSearch(b)
        \/ reply \in Refusals
    BY <1>4, <2>1 DEF Client!MarketAnswers, Client!isMarketStockSearch, Client!SearchLimit,
           Refusals, Client!MarketRefusals
  <2>3. \A b : Client!isMarketStockSearch(b) => Client!Validate(name, b)
    BY <1>4 DEF Client!Validate
  <2>4. QED
    BY <2>2, <2>3, RefusalsAreAccepted, OkIsAccepted
<1>5. CASE reply # Client!Uncaught /\ name = "quote"
  <2>1. reply \in Client!MarketAnswers(name)
    BY <1>5 DEF Client!Answers
  <2>2. \/ \E b : reply = Client!Ok(b) /\ Client!isMarketQuote(b)
        \/ reply \in Refusals
    BY <1>5, <2>1 DEF Client!MarketAnswers, Client!isMarketQuote, Client!MoneyDecimals,
           Client!Money, Refusals, Client!MarketRefusals
  <2>3. \A b : Client!isMarketQuote(b) => Client!Validate(name, b)
    BY <1>5 DEF Client!Validate
  <2>4. QED
    BY <2>2, <2>3, RefusalsAreAccepted, OkIsAccepted
<1>6. CASE reply # Client!Uncaught /\ name = "bars"
  <2>1. reply \in Client!MarketAnswers(name)
    BY <1>6 DEF Client!Answers
  <2>2. \/ \E b : reply = Client!Ok(b) /\ Client!isMarketBars(b)
        \/ reply \in Refusals
    <3>1. {Client!BarLimit(i) : i \in Client!Intervals} \subseteq {120, 156, 40}
      BY DEF Client!BarLimit, Client!Intervals
    <3>2. \A b \in [items : {0, 1} \cup {Client!BarLimit(i) : i \in Client!Intervals},
                     low : 1..2, high : 2..3] : Client!isMarketBars(b)
      BY <3>1 DEF Client!isMarketBars
    <3>3. Client!MarketRefusals \subseteq Refusals
      BY DEF Client!MarketRefusals, Refusals
    <3>4. QED
      BY <1>6, <2>1, <3>2, <3>3 DEF Client!MarketAnswers
  <2>3. \A b : Client!isMarketBars(b) => Client!Validate(name, b)
    BY <1>6 DEF Client!Validate
  <2>4. QED
    BY <2>2, <2>3, RefusalsAreAccepted, OkIsAccepted
<1>7. CASE reply # Client!Uncaught /\ name = "connections"
  <2>1. reply \in Client!MyDataAnswers(name)
    BY <1>7 DEF Client!Answers
  <2>2. \/ \E b : reply = Client!Ok(b) /\ Client!isConnections(b)
        \/ reply \in Refusals
    BY <1>7, <2>1 DEF Client!MyDataAnswers, Client!isConnections, Client!Connections,
           Client!isConnection, Refusals, Client!MarketRefusals
  <2>3. \A b : Client!isConnections(b) => Client!Validate(name, b)
    BY <1>7 DEF Client!Validate
  <2>4. QED
    BY <2>2, <2>3, RefusalsAreAccepted, OkIsAccepted
<1>8. CASE reply # Client!Uncaught /\ name = "sync"
  <2>1. reply \in Client!MyDataAnswers(name)
    BY <1>8 DEF Client!Answers
  <2>2. \/ \E b : reply = Client!Ok(b) /\ Client!isSync(b)
        \/ reply \in Refusals
    BY <1>8, <2>1 DEF Client!MyDataAnswers, Client!isSync, HeldInv, Refusals,
           Client!MarketRefusals
  <2>3. \A b : Client!isSync(b) => Client!Validate(name, b)
    BY <1>8 DEF Client!Validate
  <2>4. QED
    BY <2>2, <2>3, RefusalsAreAccepted, OkIsAccepted
<1>9. CASE reply # Client!Uncaught /\ name = "summary"
  <2>1. reply \in Client!WealthAnswers(name)
    BY <1>9 DEF Client!Answers
  <2>2. \E b : reply = Client!Ok(b) /\ Client!isSummary(b)
    <3>1. \E w \in {{}, {0, 100}, {40, 60}} :
             reply = Client!Ok([total |-> Client!MoneyDecimals, weights |-> w])
      BY <1>9, <2>1 DEF Client!WealthAnswers
    <3>2. \A w \in {{}, {0, 100}, {40, 60}} :
             Client!isSummary([total |-> Client!MoneyDecimals, weights |-> w])
      BY DEF Client!isSummary, Client!Money, Client!MoneyDecimals
    <3>3. QED
      BY <3>1, <3>2
  <2>3. \A b : Client!isSummary(b) => Client!Validate(name, b)
    BY <1>9 DEF Client!Validate
  <2>4. QED
    BY <2>2, <2>3, RefusalsAreAccepted, OkIsAccepted
<1>10. CASE reply # Client!Uncaught /\ name = "account"
  <2>1. reply \in Client!WealthAnswers(name)
    BY <1>10 DEF Client!Answers
  <2>2. \/ \E b : reply = Client!Ok(b) /\ Client!isAccount(b)
        \/ reply \in Refusals
    BY <1>10, <2>1 DEF Client!WealthAnswers, Client!isAccount, Client!MoneyDecimals, Client!Money,
           Refusals, Client!MarketRefusals
  <2>3. \A b : Client!isAccount(b) => Client!Validate(name, b)
    BY <1>10 DEF Client!Validate
  <2>4. QED
    BY <2>2, <2>3, RefusalsAreAccepted, OkIsAccepted
<1>11. CASE reply # Client!Uncaught /\ name \in {"accounts", "holdings", "transactions"}
  <2>1. reply \in Client!WealthAnswers(name)
    BY <1>11 DEF Client!Answers
  <2>2. \/ \E b : reply = Client!Ok(b) /\ Client!isPage(b)
        \/ reply \in Refusals
    BY <1>11, <2>1 DEF Client!WealthAnswers, Client!isPage, Client!MoneyDecimals, Client!Money,
           Refusals, Client!MarketRefusals
  <2>3. \A b : Client!isPage(b) => Client!Validate(name, b)
    BY <1>11 DEF Client!Validate
  <2>4. QED
    BY <2>2, <2>3, RefusalsAreAccepted, OkIsAccepted
<1>12. CASE reply # Client!Uncaught /\ name = "simulation"
  <2>1. reply \in Client!SimulationAnswers
    BY <1>12 DEF Client!Answers
  <2>2. \/ \E b : reply = Client!Ok(b) /\ Client!isSimulation(b)
        \/ reply \in Refusals
    BY <1>12, <2>1 DEF Client!SimulationAnswers, Client!isSimulation, Client!SimulationView,
           Refusals, Client!MarketRefusals
  <2>3. \A b : Client!isSimulation(b) => Client!Validate(name, b)
    BY <1>12 DEF Client!Validate
  <2>4. QED
    BY <2>2, <2>3, RefusalsAreAccepted, OkIsAccepted
<1>13. CASE reply # Client!Uncaught /\ name = "order"
  <2>1. reply \in Client!TradingAnswers(name)
    BY <1>13 DEF Client!Answers
  <2>2. \/ \E b : reply = Client!Ok(b) /\ Client!isOrder(b)
        \/ reply \in Refusals
    BY <1>13, <2>1 DEF Client!TradingAnswers, Client!isOrder, Client!OrderView,
           Client!RefreshAfter, Client!QuantityDecimals, Client!MoneyDecimals, Client!Quantity,
           Client!Money, HeldInv, Refusals, Client!MarketRefusals
  <2>3. \A b : Client!isOrder(b) => Client!Validate(name, b)
    BY <1>13 DEF Client!Validate
  <2>4. QED
    BY <2>2, <2>3, RefusalsAreAccepted, OkIsAccepted
<1>14. CASE reply # Client!Uncaught /\ name = "orders"
  <2>1. reply \in Client!TradingAnswers(name)
    BY <1>14 DEF Client!Answers
  <2>2. \/ \E b : reply = Client!Ok(b) /\ Client!isOrderPage(b)
        \/ reply \in Refusals
    BY <1>14, <2>1 DEF Client!TradingAnswers, Client!isOrderPage, Client!OrderView,
           Client!isOrder, Client!RefreshAfter, Client!QuantityDecimals, Client!MoneyDecimals,
           Client!Quantity, Client!Money, HeldInv, Refusals, Client!MarketRefusals
  <2>3. \A b : Client!isOrderPage(b) => Client!Validate(name, b)
    BY <1>14 DEF Client!Validate
  <2>4. QED
    BY <2>2, <2>3, RefusalsAreAccepted, OkIsAccepted
<1>15. CASE reply # Client!Uncaught /\ name = "history"
  <2>1. reply \in Client!WealthAnswers(name)
    BY <1>15 DEF Client!Answers
  <2>2. PICK range \in {"1Y", "ALL"} :
           reply = Client!Ok([items |-> Client!Min({held.days, Client!HistoryLimit(range)})])
    BY <1>15, <2>1 DEF Client!WealthAnswers
  <2>3. Client!Min({held.days, Client!HistoryLimit(range)}) <= 1000
    BY SmallerIsSmall DEF Client!HistoryLimit, HeldInv
  <2>4. \A b : Client!isHistory(b) => Client!Validate(name, b)
    BY <1>15 DEF Client!Validate
  <2>5. QED
    BY <2>2, <2>3, <2>4, OkIsAccepted DEF Client!isHistory
<1>16. CASE reply = Client!Uncaught
  BY <1>16, RefusalsAreAccepted DEF Refusals
<1>17. QED
  BY <1>1, <1>2, <1>3, <1>4, <1>5, <1>6, <1>7, <1>8, <1>9, <1>10, <1>11, <1>12, <1>13, <1>14,
     <1>15, <1>16 DEF Client!Queries

\* An effect is served when its answer is accepted and what it leaves behind is
\* what the server may hold.
Served(name, effect) ==
    /\ effect.reply.status \in Nat /\ Accepted(name, effect.reply)
    /\ DOMAIN effect.after = DOMAIN held
    /\ effect.after.sync \in {held.sync} \cup Client!Unfinished
    /\ effect.after.order \in {held.order, "PENDING_SUBMISSION", "UNKNOWN", "FILLED", "REJECTED"}
    /\ effect.after.days = held.days /\ effect.after.version \in Nat
    /\ effect.after.connected \in BOOLEAN

LEMMA RefusedIsServed ==
    ASSUME HeldInv, NEW name, NEW replies, NEW effect \in Client!Refused(replies),
           \A reply \in replies : reply.status \in Nat /\ Accepted(name, reply)
    PROVE  Served(name, effect)
<1>1. PICK reply \in replies : effect = [reply |-> reply, after |-> held]
  BY DEF Client!Refused, Client!Effect
<1>2. effect.reply = reply /\ effect.after = held
  BY <1>1
<1>3. QED
  BY <1>2 DEF Served, HeldInv

LEMMA EffectIsServed ==
    ASSUME HeldInv, NEW name, NEW body, Client!Validate(name, body), NEW after,
           DOMAIN after = DOMAIN held, after.days = held.days, after.version \in Nat,
           after.sync \in {held.sync} \cup Client!Unfinished, after.connected \in BOOLEAN,
           after.order \in {held.order, "PENDING_SUBMISSION", "UNKNOWN", "FILLED", "REJECTED"}
    PROVE  Served(name, Client!Effect(Client!Ok(body), after))
<1>1. /\ Client!Effect(Client!Ok(body), after).reply = Client!Ok(body)
      /\ Client!Effect(Client!Ok(body), after).after = after
  BY DEF Client!Effect
<1>2. QED
  BY <1>1, OkIsAccepted DEF Served

\* The handlers of the mutations.
LEMMA ConnectIsServed ==
    ASSUME HeldInv, NEW effect \in Client!Connect
    PROVE  Served("connect", effect)
<1>1. CASE effect \in Client!Refused({Client!Invalid, Client!Uncaught})
  BY <1>1, RefusedIsServed, RefusalsAreAccepted DEF Refusals
<1>2. CASE effect \in Client!Refused({Client!Conflict})
  BY <1>2, RefusedIsServed, RefusalsAreAccepted DEF Refusals
<1>3. CASE effect = Client!Effect(Client!Ok([items |-> 1, status |-> "ACTIVE"]),
                                  [held EXCEPT !.connected = TRUE])
  <2> DEFINE after == [held EXCEPT !.connected = TRUE]
             body == [items |-> 1, status |-> "ACTIVE"]
  <2>1. Client!Validate("connect", body)
    BY DEF Client!Validate, Client!isConnection
  <2>2. /\ DOMAIN after = DOMAIN held /\ after.days = held.days /\ after.version = held.version
        /\ after.sync = held.sync /\ after.order = held.order /\ after.connected
    BY DEF HeldInv
  <2> HIDE DEF after, body
  <2>3. Served("connect", Client!Effect(Client!Ok(body), after))
    BY <2>1, <2>2, EffectIsServed DEF HeldInv
  <2>4. QED
    BY <1>3, <2>3 DEF after, body
<1>4. QED
  BY <1>1, <1>2, <1>3 DEF Client!Connect

LEMMA StartSyncIsServed ==
    ASSUME HeldInv, NEW effect \in Client!StartSync
    PROVE  Served("startSync", effect)
<1>1. CASE effect \in Client!Refused({Client!Uncaught})
  BY <1>1, RefusedIsServed, RefusalsAreAccepted DEF Refusals
<1>2. CASE effect \in Client!Refused({Client!NotFound})
  BY <1>2, RefusedIsServed, RefusalsAreAccepted DEF Refusals
<1>3. ASSUME NEW status \in Client!Unfinished,
             effect = Client!Effect(Client!Ok([status |-> status, counts |-> 0]),
                                    [held EXCEPT !.sync = status])
      PROVE  Served("startSync", effect)
  <2> DEFINE after == [held EXCEPT !.sync = status]
             body == [status |-> status, counts |-> 0]
  <2>1. Client!Validate("startSync", body)
    BY DEF Client!Validate, Client!isSync, Client!Unfinished
  <2>2. /\ DOMAIN after = DOMAIN held /\ after.days = held.days /\ after.version = held.version
        /\ after.sync = status /\ after.order = held.order /\ after.connected = held.connected
    BY DEF HeldInv
  <2> HIDE DEF after, body
  <2>3. Served("startSync", Client!Effect(Client!Ok(body), after))
    BY <2>1, <2>2, EffectIsServed DEF HeldInv
  <2>4. QED
    BY <1>3, <2>3 DEF after, body
<1>4. QED
  BY <1>1, <1>2, <1>3 DEF Client!StartSync, Client!Unfinished

LEMMA SimulateIsServed ==
    ASSUME HeldInv, NEW effect \in Client!Simulate
    PROVE  Served("simulate", effect)
<1>1. \A m \in {1, 600} : Client!Validate("simulate", Client!SimulationView(m))
  BY DEF Client!Validate, Client!isSimulation, Client!SimulationView
<1>2. ASSUME NEW reply \in {Client!Ok(Client!SimulationView(m)) : m \in {1, 600}}
                          \cup {Client!Invalid, Client!Uncaught}
      PROVE  reply.status \in Nat /\ Accepted("simulate", reply)
  BY <1>1, RefusalsAreAccepted, OkIsAccepted DEF Refusals
<1>3. QED
  BY <1>2, RefusedIsServed DEF Client!Simulate

LEMMA PreviewIsServed ==
    ASSUME HeldInv, NEW effect \in Client!Preview
    PROVE  Served("preview", effect)
<1> DEFINE body == [quantity |-> Client!QuantityDecimals, price |-> Client!MoneyDecimals]
<1>1. Client!Validate("preview", body)
  BY DEF Client!Validate, Client!isQuote, Client!Quantity, Client!Money,
         Client!QuantityDecimals, Client!MoneyDecimals
<1> HIDE DEF body
<1>2. ASSUME NEW reply \in {Client!Ok(body), Client!Invalid, Client!NotFound,
                            Client!Problem(503, "no"), Client!Uncaught}
      PROVE  reply.status \in Nat /\ Accepted("preview", reply)
  BY <1>1, RefusalsAreAccepted, OkIsAccepted DEF Refusals
<1>3. QED
  BY <1>2, RefusedIsServed DEF Client!Preview, body

LEMMA BuyIsServed ==
    ASSUME HeldInv, NEW effect \in Client!Buy
    PROVE  Served("buy", effect)
<1>1. CASE effect \in Client!Refused({Client!Invalid, Client!NotFound, Client!Conflict})
  BY <1>1, RefusedIsServed, RefusalsAreAccepted DEF Refusals
<1>2. ASSUME NEW status \in {"UNKNOWN", "FILLED", "REJECTED", "PENDING_SUBMISSION"}
      PROVE  LET after == [held EXCEPT !.order = status]
             IN  /\ DOMAIN after = DOMAIN held /\ after.days = held.days
                 /\ after.version = held.version /\ after.sync = held.sync
                 /\ after.order = status /\ after.connected = held.connected
  BY DEF HeldInv
<1>3. ASSUME NEW status \in {"UNKNOWN", "FILLED", "REJECTED"},
             effect = Client!Effect(Client!Ok(Client!OrderView(status)),
                                    [held EXCEPT !.order = status])
      PROVE  Served("buy", effect)
  <2> DEFINE after == [held EXCEPT !.order = status]
  <2>1. Client!Validate("buy", Client!OrderView(status))
    BY DEF Client!Validate, Client!OrderView, Client!isOrder, Client!RefreshAfter,
           Client!QuantityDecimals, Client!MoneyDecimals, Client!Quantity, Client!Money
  <2>2. /\ DOMAIN after = DOMAIN held /\ after.days = held.days /\ after.version = held.version
        /\ after.sync = held.sync /\ after.order = status /\ after.connected = held.connected
    BY <1>2
  <2> HIDE DEF after
  <2>3. Served("buy", Client!Effect(Client!Ok(Client!OrderView(status)), after))
    BY <2>1, <2>2, EffectIsServed DEF HeldInv
  <2>4. QED
    BY <1>3, <2>3 DEF after
<1>4. ASSUME NEW after \in {held, [held EXCEPT !.order = "PENDING_SUBMISSION"]},
             effect = Client!Effect(Client!Uncaught, after)
      PROVE  Served("buy", effect)
  <2>1. effect.reply = Client!Uncaught /\ effect.after = after
    BY <1>4 DEF Client!Effect
  <2>2. /\ DOMAIN after = DOMAIN held /\ after.days = held.days /\ after.version = held.version
        /\ after.sync = held.sync /\ after.order \in {held.order, "PENDING_SUBMISSION"}
        /\ after.connected = held.connected
    BY <1>2
  <2>3. QED
    BY <2>1, <2>2, RefusalsAreAccepted DEF Served, Refusals, HeldInv
<1>5. QED
  BY <1>1, <1>3, <1>4 DEF Client!Buy

LEMMA SaveProfileIsServed ==
    ASSUME HeldInv, NEW effect \in Client!SaveProfile
    PROVE  Served("saveProfile", effect)
<1> DEFINE after == [held EXCEPT !.version = held.version + 1]
           body(l) == [level |-> l, months |-> 120, contribution |-> Client!MoneyDecimals,
                       version |-> after.version]
<1>1. /\ DOMAIN after = DOMAIN held /\ after.days = held.days
      /\ after.version = held.version + 1 /\ after.version \in Nat
      /\ after.sync = held.sync /\ after.order = held.order /\ after.connected = held.connected
  BY DEF HeldInv
<1>2. ASSUME NEW l \in Client!RiskLevels PROVE Client!Validate("saveProfile", body(l))
  BY <1>1 DEF Client!Validate, Client!isRiskProfile, Client!RiskLevels, Client!Money,
              Client!MoneyDecimals
<1>3. CASE effect \in Client!Refused({Client!Invalid, Client!Conflict, Client!Uncaught})
  BY <1>3, RefusedIsServed, RefusalsAreAccepted DEF Refusals
<1>4. \/ effect \in Client!Refused({Client!Invalid, Client!Conflict, Client!Uncaught})
      \/ effect = Client!Effect(Client!Uncaught, after)
      \/ \E l \in Client!RiskLevels : effect = Client!Effect(Client!Ok(body(l)), after)
  BY DEF Client!SaveProfile
<1> HIDE DEF after, body
<1>5. CASE effect = Client!Effect(Client!Uncaught, after)
  <2>1. effect.reply = Client!Uncaught /\ effect.after = after
    BY <1>5 DEF Client!Effect
  <2>2. QED
    BY <1>1, <2>1, RefusalsAreAccepted DEF Served, Refusals, HeldInv
<1>6. ASSUME NEW l \in Client!RiskLevels, effect = Client!Effect(Client!Ok(body(l)), after)
      PROVE  Served("saveProfile", effect)
  BY <1>1, <1>2, <1>6, EffectIsServed DEF HeldInv
<1>7. QED
  BY <1>3, <1>4, <1>5, <1>6

LEMMA DeveloperIsServed ==
    ASSUME HeldInv, NEW name \in {"scenario", "reset"}, NEW effect \in Client!Effects(name)
    PROVE  Served(name, effect)
<1>1. \A m \in Client!Modes : Client!Validate(name, [mode |-> m, scope |-> "GLOBAL"])
  BY DEF Client!Validate, Client!isDeveloper, Client!Modes
<1>2. ASSUME NEW reply \in {Client!Ok([mode |-> m, scope |-> "GLOBAL"]) : m \in Client!Modes}
                          \cup {Client!Uncaught}
      PROVE  reply.status \in Nat /\ Accepted(name, reply)
  <2>1. CASE reply = Client!Uncaught
    BY <2>1, RefusalsAreAccepted DEF Refusals
  <2>2. ASSUME NEW m \in Client!Modes, reply = Client!Ok([mode |-> m, scope |-> "GLOBAL"])
        PROVE  reply.status \in Nat /\ Accepted(name, reply)
    <3> DEFINE body == [mode |-> m, scope |-> "GLOBAL"]
    <3>1. Client!Validate(name, body)
      BY <1>1
    <3> HIDE DEF body
    <3>2. Client!Ok(body).status \in Nat /\ Accepted(name, Client!Ok(body))
      BY <3>1, OkIsAccepted
    <3>3. QED
      BY <2>2, <3>2 DEF body
  <2>3. QED
    BY <2>1, <2>2
<1>3. CASE effect \in Client!SetScenario
  BY <1>2, <1>3, RefusedIsServed DEF Client!SetScenario
<1>4. CASE effect \in Client!Reset
  <2>1. \A reply \in {Client!Ok([mode |-> "NORMAL", scope |-> "GLOBAL"]), Client!Uncaught} :
           reply.status \in Nat /\ Accepted(name, reply)
    BY <1>2 DEF Client!Modes
  <2>2. QED
    BY <1>4, <2>1, RefusedIsServed DEF Client!Reset
<1>5. QED
  BY <1>3, <1>4 DEF Client!Effects

LEMMA EffectsAreServed ==
    ASSUME HeldInv, NEW name \in Client!Queries \cup Client!Mutations,
           NEW effect \in Client!Effects(name)
    PROVE  Served(name, effect)
<1>1. CASE name \in Client!Queries
  <2>1. effect \in Client!Refused(Client!Answers(name))
    BY <1>1 DEF Client!Effects, Client!Queries
  <2>2. QED
    BY <1>1, <2>1, AnswersAreAccepted, RefusedIsServed
<1>2. CASE name = "connect"
  BY <1>2, ConnectIsServed DEF Client!Effects
<1>3. CASE name = "startSync"
  BY <1>3, StartSyncIsServed DEF Client!Effects
<1>4. CASE name = "simulate"
  BY <1>4, SimulateIsServed DEF Client!Effects
<1>5. CASE name = "preview"
  BY <1>5, PreviewIsServed DEF Client!Effects
<1>6. CASE name = "buy"
  BY <1>6, BuyIsServed DEF Client!Effects
<1>7. CASE name = "saveProfile"
  BY <1>7, SaveProfileIsServed DEF Client!Effects
<1>8. CASE name \in {"scenario", "reset"}
  BY <1>8, DeveloperIsServed
<1>9. QED
  BY <1>1, <1>2, <1>3, <1>4, <1>5, <1>6, <1>7, <1>8 DEF Client!Mutations

\* The fields of the call after it has changed.
LEMMA FailedKeepsCall ==
    ASSUME CallInvariant, apiCall.pc \in {"sending", "answered"}, NEW retryable,
           NEW outcome, outcome # "contract", Client!Failed(outcome, retryable)
    PROVE  CallInvariant'
<1>1. apiCall.name \in Client!Queries \cup Client!Mutations
  BY DEF CallInvariant
<1>2. CASE Client!Repeated(apiCall.name, apiCall.failures, retryable)
  <2>1. apiCall.name \in Client!Queries /\ apiCall.executed = 0
    BY <1>2 DEF CallInvariant, Client!Repeated
  <2> DEFINE a == [apiCall EXCEPT !.pc = "sending"]
             b == [a EXCEPT !.failures = apiCall.failures + 1]
             c == [b EXCEPT !.replayed = FALSE]
  <2>2. /\ DOMAIN a = DOMAIN apiCall /\ a.pc = "sending" /\ a.name = apiCall.name
        /\ a.executed = apiCall.executed /\ a.outcome = apiCall.outcome
        /\ a.failures = apiCall.failures
    BY DEF CallInvariant, Client!Idle
  <2>3. apiCall' = [c EXCEPT !.reply = Client!Null]
    BY <1>2, <2>2 DEF Client!Failed
  <2> HIDE DEF a
  <2>4. /\ DOMAIN b = DOMAIN apiCall /\ b.pc = "sending" /\ b.name = apiCall.name
        /\ b.executed = apiCall.executed /\ b.outcome = apiCall.outcome
    BY <2>2 DEF CallInvariant, Client!Idle
  <2> HIDE DEF b
  <2>5. /\ DOMAIN c = DOMAIN apiCall /\ c.pc = "sending" /\ c.name = apiCall.name
        /\ c.executed = apiCall.executed /\ c.outcome = apiCall.outcome
    BY <2>4 DEF CallInvariant, Client!Idle
  <2> HIDE DEF c
  <2>6. /\ DOMAIN apiCall' = DOMAIN apiCall /\ apiCall'.pc = "sending"
        /\ apiCall'.name = apiCall.name
        /\ apiCall'.executed = apiCall.executed /\ apiCall'.outcome = apiCall.outcome
    BY <2>3, <2>5 DEF CallInvariant, Client!Idle
  <2>7. QED
    BY <1>1, <2>1, <2>6 DEF CallInvariant, Client!Idle
<1>3. CASE ~ Client!Repeated(apiCall.name, apiCall.failures, retryable)
  <2> DEFINE a == [apiCall EXCEPT !.pc = "ended"]
             b == [a EXCEPT !.outcome = outcome]
  <2>1. apiCall' = [b EXCEPT !.reply = Client!Null]
    BY <1>3 DEF Client!Failed
  <2>2. /\ DOMAIN a = DOMAIN apiCall /\ a.pc = "ended" /\ a.name = apiCall.name
        /\ a.executed = apiCall.executed
    BY DEF CallInvariant, Client!Idle
  <2> HIDE DEF a
  <2>3. /\ DOMAIN b = DOMAIN apiCall /\ b.pc = "ended" /\ b.name = apiCall.name
        /\ b.executed = apiCall.executed /\ b.outcome = outcome
    BY <2>2 DEF CallInvariant, Client!Idle
  <2> HIDE DEF b
  <2>4. /\ DOMAIN apiCall' = DOMAIN apiCall /\ apiCall'.pc = "ended"
        /\ apiCall'.name = apiCall.name
        /\ apiCall'.executed = apiCall.executed /\ apiCall'.outcome = outcome
    BY <2>1, <2>3 DEF CallInvariant, Client!Idle
  <2>5. QED
    BY <1>1, <2>4 DEF CallInvariant, Client!Idle
<1>4. QED
  BY <1>2, <1>3

\* The call ends with an outcome, after its handler has run or has not.
LEMMA EndKeepsCall ==
    ASSUME CallInvariant, apiCall.pc \in {"sending", "answered"}, NEW outcome,
           outcome # "contract",
           \/ apiCall' = [apiCall EXCEPT !.pc = "ended", !.outcome = outcome]
           \/ apiCall' = [apiCall EXCEPT !.pc = "ended", !.outcome = outcome, !.reply = Client!Null]
           \/ /\ apiCall.pc = "sending" /\ apiCall.name \in Client!Mutations
              /\ apiCall' = [apiCall EXCEPT !.pc = "ended", !.executed = @ + 1,
                                           !.outcome = outcome]
    PROVE  CallInvariant'
<1> DEFINE a == [apiCall EXCEPT !.pc = "ended"]
<1>1. /\ DOMAIN a = DOMAIN apiCall /\ a.pc = "ended" /\ a.name = apiCall.name
      /\ a.executed = apiCall.executed
  BY DEF CallInvariant, Client!Idle
<1>2. \/ apiCall' = [a EXCEPT !.outcome = outcome]
      \/ apiCall' = [a EXCEPT !.outcome = outcome, !.reply = Client!Null]
      \/ /\ apiCall.pc = "sending" /\ apiCall.name \in Client!Mutations
         /\ apiCall' = [a EXCEPT !.executed = apiCall.executed + 1, !.outcome = outcome]
  BY <1>1
<1> HIDE DEF a
<1>3. /\ DOMAIN apiCall' = DOMAIN apiCall /\ apiCall'.pc = "ended"
      /\ apiCall'.name = apiCall.name /\ apiCall'.outcome = outcome
      /\ \/ apiCall'.executed = apiCall.executed
         \/ /\ apiCall.pc = "sending" /\ apiCall.name \in Client!Mutations
            /\ apiCall'.executed = apiCall.executed + 1
  BY <1>1, <1>2 DEF CallInvariant, Client!Idle
<1>4. QED
  BY <1>3, QueriesAreNotMutations DEF CallInvariant, Client!Idle

\* Calls that begin, are refused, go wrong or are given up.
LEMMA CallGoesOnServed ==
    ASSUME ClientInv,
           \/ (\E name \in Client!Queries \cup Client!Mutations : Client!Issue(name))
           \/ Client!Unavailable \/ Client!MockQuery \/ Client!TokenRefused \/ Client!Lost
           \/ Client!Receive \/ Client!Abort \/ Client!Used
    PROVE  ClientInv'
<1>1. HeldInv'
  <2>1. UNCHANGED held
    BY DEF Client!Issue, Client!Unavailable, Client!MockQuery, Client!TokenRefused, Client!Lost,
           Client!Receive, Client!Abort, Client!Used
  <2>2. QED
    BY <2>1 DEF ClientInv, HeldInv
<1>2. CallInvariant
  BY DEF ClientInv
<1> SUFFICES CallInvariant'
  BY <1>1 DEF ClientInv
<1>3. ASSUME NEW name \in Client!Queries \cup Client!Mutations, Client!Issue(name)
      PROVE  CallInvariant'
  <2>1. /\ DOMAIN apiCall' = DOMAIN Client!Idle /\ apiCall'.pc = "sending"
        /\ apiCall'.name = name /\ apiCall'.executed = 0 /\ apiCall'.outcome = "none"
    BY <1>3 DEF Client!Issue, Client!Idle
  <2>2. QED
    BY <2>1 DEF CallInvariant
<1>4. CASE Client!Unavailable
  BY <1>2, <1>4, FailedKeepsCall DEF Client!Unavailable
<1>5. CASE Client!MockQuery
  BY <1>2, <1>5, FailedKeepsCall, EndKeepsCall DEF Client!MockQuery
<1>6. CASE Client!TokenRefused
  <2>1. CASE apiCall' = [apiCall EXCEPT !.replayed = TRUE]
    <3>1. /\ DOMAIN apiCall' = DOMAIN apiCall /\ apiCall'.pc = apiCall.pc
          /\ apiCall'.name = apiCall.name /\ apiCall'.executed = apiCall.executed
          /\ apiCall'.outcome = apiCall.outcome /\ apiCall'.reply = apiCall.reply
      BY <1>2, <2>1 DEF CallInvariant, Client!Idle
    <3>2. QED
      BY <1>2, <1>6, <3>1 DEF CallInvariant, Client!TokenRefused
  <2>2. CASE Client!Failed("network", TRUE) \/ Client!Failed("http", FALSE)
    BY <1>2, <1>6, <2>2, FailedKeepsCall DEF Client!TokenRefused
  <2>3. QED
    BY <1>6, <2>1, <2>2 DEF Client!TokenRefused
<1>7. CASE Client!Lost
  BY <1>2, <1>7, FailedKeepsCall DEF Client!Lost
<1>8. CASE Client!Receive
  <2>1. CASE apiCall.reply.status >= 400
    <3> DEFINE retryable == IF apiCall.reply.retryable = Client!Null
                            THEN apiCall.reply.status = 429 \/ apiCall.reply.status >= 500
                            ELSE apiCall.reply.retryable = "yes"
    <3>0. ~ (apiCall.reply.status < 400)
      BY <1>2, <1>8, <2>1 DEF Client!Receive, CallInvariant
    <3>1. Client!Failed("http", retryable)
      BY <1>8, <3>0, Zenon DEF Client!Receive
    <3> HIDE DEF retryable
    <3>2. QED
      BY <1>2, <1>8, <3>1, FailedKeepsCall DEF Client!Receive
  <2>2. CASE ~ (apiCall.reply.status >= 400)
    <3>1. Client!Validate(apiCall.name, apiCall.reply.body)
      BY <1>2, <1>8, <2>2 DEF Client!Receive, CallInvariant, Accepted
    <3>2. apiCall' = [apiCall EXCEPT !.pc = "ended", !.outcome = "ok"]
      BY <1>8, <2>2, <3>1 DEF Client!Receive
    <3>3. QED
      BY <1>2, <1>8, <3>2, EndKeepsCall DEF Client!Receive
  <2>3. QED
    BY <2>1, <2>2
<1>9. CASE Client!Abort
  BY <1>2, <1>9, EndKeepsCall DEF Client!Abort
<1>10. CASE Client!Used
  BY <1>10 DEF Client!Used, Client!Idle, CallInvariant
<1>11. QED
  BY <1>3, <1>4, <1>5, <1>6, <1>7, <1>8, <1>9, <1>10

\* The handler runs.
LEMMA HandleServed ==
    ASSUME ClientInv, Client!Handle
    PROVE  ClientInv'
<1>1. PICK effect \in Client!Effects(apiCall.name) :
        /\ held' = effect.after
        /\ apiCall' = [apiCall EXCEPT !.pc = "answered", !.reply = effect.reply,
              !.executed = IF apiCall.name \in Client!Mutations THEN @ + 1 ELSE @]
  BY DEF Client!Handle
<1>2. apiCall.pc = "sending" /\ apiCall.name \in Client!Queries \cup Client!Mutations
  BY DEF Client!Handle, ClientInv, CallInvariant
<1>3. Served(apiCall.name, effect)
  BY <1>2, EffectsAreServed DEF ClientInv
<1>4. HeldInv'
  BY <1>1, <1>3 DEF Served, ClientInv, HeldInv, Client!Unfinished
<1>5. /\ DOMAIN apiCall' = DOMAIN apiCall /\ apiCall'.pc = "answered"
      /\ apiCall'.reply = effect.reply
      /\ apiCall'.executed = IF apiCall.name \in Client!Mutations THEN 1 ELSE 0
      /\ apiCall'.name = apiCall.name /\ apiCall'.outcome = apiCall.outcome
  <2> DEFINE a == [apiCall EXCEPT !.pc = "answered"]
             b == [a EXCEPT !.reply = effect.reply]
  <2>1. apiCall.executed = 0
    BY <1>2 DEF ClientInv, CallInvariant
  <2>2. /\ DOMAIN a = DOMAIN apiCall /\ a.pc = "answered" /\ a.executed = apiCall.executed
        /\ a.name = apiCall.name /\ a.outcome = apiCall.outcome
    BY DEF ClientInv, CallInvariant, Client!Idle
  <2>3. apiCall' = [b EXCEPT !.executed = IF apiCall.name \in Client!Mutations
                                         THEN apiCall.executed + 1 ELSE apiCall.executed]
    BY <1>1, <2>2
  <2> HIDE DEF a
  <2>4. /\ DOMAIN b = DOMAIN apiCall /\ b.pc = "answered" /\ b.reply = effect.reply
        /\ b.name = apiCall.name /\ b.outcome = apiCall.outcome
    BY <2>2 DEF ClientInv, CallInvariant, Client!Idle
  <2> HIDE DEF b
  <2>5. QED
    BY <2>1, <2>3, <2>4 DEF ClientInv, CallInvariant, Client!Idle
<1>6. CallInvariant'
  BY <1>2, <1>3, <1>5, QueriesAreNotMutations DEF ClientInv, CallInvariant, Served
<1>7. QED
  BY <1>4, <1>6 DEF ClientInv

\* What else changes what is held: the fixtures of the mock, the workers.
LEMMA HeldGoesOn ==
    ASSUME ClientInv, Client!MockMutation \/ Client!SyncProceeds \/ Client!OrderProceeds
    PROVE  ClientInv'
<1>1. CASE Client!MockMutation
  <2>1. HeldInv'
    <3>1. \/ held' = held
          \/ held' = [held EXCEPT !.order = "FILLED"] \/ held' = [held EXCEPT !.order = "none"]
          \/ held' = [held EXCEPT !.version = held.version + 1]
      BY <1>1 DEF Client!MockMutation
    <3>2. QED
      BY <3>1 DEF ClientInv, HeldInv
  <2>2. CallInvariant'
    BY <1>1, FailedKeepsCall, EndKeepsCall DEF ClientInv, Client!MockMutation
  <2>3. QED
    BY <2>1, <2>2 DEF ClientInv
<1>2. CASE Client!SyncProceeds
  <2>1. PICK s \in Client!Successors[held.sync], d \in Snapshots \cup {held.days} :
           held' = [held EXCEPT !.sync = s, !.days = d]
    BY <1>2 DEF Client!SyncProceeds
  <2>2. s \in {"QUEUED", "FETCHING", "RAW_STORED", "NORMALIZING", "COMPLETED", "FAILED"}
    <3>1. CASE held.sync = "QUEUED"
      BY <3>1 DEF Client!Successors
    <3>2. CASE held.sync = "FETCHING"
      BY <3>2 DEF Client!Successors
    <3>3. CASE held.sync = "RAW_STORED"
      BY <3>3 DEF Client!Successors
    <3>4. CASE held.sync = "NORMALIZING"
      BY <3>4 DEF Client!Successors
    <3>5. QED
      BY <1>2, <3>1, <3>2, <3>3, <3>4 DEF Client!SyncProceeds, Client!Unfinished
  <2>3. d \in Nat
    BY <2>1, SnapshotsAssumption DEF ClientInv, HeldInv
  <2> DEFINE a == [held EXCEPT !.sync = s]
  <2>4. /\ DOMAIN a = DOMAIN held /\ a.sync = s /\ a.order = held.order
        /\ a.version = held.version /\ a.connected = held.connected
    BY DEF ClientInv, HeldInv
  <2>5. held' = [a EXCEPT !.days = d]
    BY <2>1
  <2> HIDE DEF a
  <2>6. HeldInv'
    BY <2>2, <2>3, <2>4, <2>5 DEF ClientInv, HeldInv
  <2>7. CallInvariant'
    <3>1. UNCHANGED apiCall
      BY <1>2 DEF Client!SyncProceeds
    <3>2. QED
      BY <3>1 DEF ClientInv, CallInvariant, Accepted
  <2>8. QED
    BY <2>6, <2>7 DEF ClientInv
<1>3. CASE Client!OrderProceeds
  <2>1. HeldInv'
    BY <1>3 DEF Client!OrderProceeds, ClientInv, HeldInv
  <2>2. CallInvariant'
    <3>1. UNCHANGED apiCall
      BY <1>3 DEF Client!OrderProceeds
    <3>2. QED
      BY <3>1 DEF ClientInv, CallInvariant, Accepted
  <2>3. QED
    BY <2>1, <2>2 DEF ClientInv
<1>4. QED
  BY <1>1, <1>2, <1>3

LEMMA ClientStep == ClientInv /\ [PlatformNext]_platformVars => ClientInv'
<1>1. ASSUME ClientInv, UNCHANGED clientVars PROVE ClientInv'
  BY <1>1 DEF ClientInv, HeldInv, CallInvariant, Accepted, clientVars
<1>2. ASSUME ClientInv, Client!Next PROVE ClientInv'
  BY <1>2, CallGoesOnServed, HandleServed, HeldGoesOn DEF Client!Next
<1>3. QED
  BY <1>1, <1>2, Frame

\* Whatever the server has come to hold, its answers pass the guards of the
\* client; and a mutation runs at most once for a call, however answers are
\* lost, tokens run out and queries are repeated.
THEOREM CallsAreAlwaysServed == PlatformSpec => []CallsAreServed
<1>1. ClientInv => CallsAreServed
  BY DEF ClientInv, CallInvariant, CallsAreServed, Client!CallsAreServed,
         Client!AnswersAccepted, Client!RunsOnce
<1>2. PlatformSpec => []ClientInv
  BY ClientInit, ClientStep, PTL DEF PlatformSpec
<1>3. QED
  BY <1>1, <1>2, PTL

-----------------------------------------------------------------------------
(* Verification: the agreements and the keypad *)

KeySet == {Keypad[i] : i \in DOMAIN Keypad}
Last == Len(Keypad)

\* The keypads that show every digit.
Keypads == {k \in [1..Last -> KeySet] : {k[i] : i \in 1..Last} = KeySet}

LEMMA KeypadFacts == Last \in Nat /\ Last >= 2 /\ DOMAIN Keypad = 1..Last /\ Keypad \in Keypads
  BY KeypadAssumption DEF Last, KeySet, Keypads

\* An exchange of two keys hides none.
LEMMA SwapKeeps ==
    ASSUME NEW k \in Keypads, NEW i \in 1..Last, NEW j \in 1..Last
    PROVE  Forms!Swapped(k, i, j) \in Keypads
<1> DEFINE turned == [k EXCEPT ![i] = k[j]]
           swapped == [turned EXCEPT ![j] = k[i]]
<1>1. /\ turned \in [1..Last -> KeySet] /\ turned[i] = k[j]
      /\ \A n \in 1..Last : n # i => turned[n] = k[n]
  BY DEF Keypads
<1> HIDE DEF turned
<1>2. /\ swapped \in [1..Last -> KeySet] /\ swapped[j] = k[i] /\ swapped[i] = k[j]
      /\ \A n \in 1..Last : n # i /\ n # j => swapped[n] = k[n]
  BY <1>1 DEF Keypads
<1>3. Forms!Swapped(k, i, j) = swapped
  BY DEF Forms!Swapped, turned
<1> HIDE DEF swapped
<1>4. \A d \in KeySet : \E n \in 1..Last : swapped[n] = d
  <2>1. TAKE d \in KeySet
  <2>2. PICK n \in 1..Last : k[n] = d
    BY DEF Keypads
  <2>3. QED
    BY <1>2, <2>2
<1>5. {swapped[n] : n \in 1..Last} = KeySet
  BY <1>2, <1>4
<1>6. QED
  BY <1>2, <1>3, <1>5 DEF Keypads

\* A set of numbers has a least one.
LEMMA LeastOf ==
    ASSUME NEW S \in SUBSET Nat, S # {}
    PROVE  \E n \in S : \A m \in S : ~ (m < n)
<1>1. PICK n \in S : \A m \in S : ~ (<<m, n>> \in OpToRel(<, Nat))
  BY WFMin, NatLessThanWellFounded
<1>2. ASSUME NEW m \in S, m < n PROVE <<m, n>> \in OpToRel(<, Nat)
  BY <1>2 DEF OpToRel
<1>3. QED
  BY <1>1, <1>2

\* What the loop of shuffledDigits makes, in the turn of the place i, of what
\* f has at the place after.
Turn(f, i) == Forms!Exchanged(IF i = Last THEN {Keypad} ELSE f[i + 1], i)

\* The loop is defined from any place on: were there a last place from which
\* it is not, it would be defined from the one after, and so from this one.
LEMMA ShuffledUnfolds ==
    \A i \in 1..Last : Forms!Shuffled[i] = Turn(Forms!Shuffled, i)
<1> DEFINE Defined(n) == \E f : f = [i \in (Last - n)..Last |-> Turn(f, i)]
           Undefined == {n \in 0..(Last - 1) : ~Defined(n)}
<1>1. Last \in Nat /\ Last >= 2
  BY KeypadFacts
<1>2. Defined(0)
  <2> DEFINE f == [i \in (Last - 0)..Last |-> Forms!Exchanged({Keypad}, i)]
  <2>1. \A i \in (Last - 0)..Last : i = Last
    BY <1>1
  <2>2. \A i \in (Last - 0)..Last : Turn(f, i) = Forms!Exchanged({Keypad}, i)
    BY <2>1 DEF Turn
  <2>3. QED
    BY <2>2
<1>3. ASSUME NEW n \in 0..(Last - 2), Defined(n) PROVE Defined(n + 1)
  <2>1. PICK f : f = [i \in (Last - n)..Last |-> Turn(f, i)]
    BY <1>3
  <2> DEFINE m == Last - (n + 1)
             g == [i \in m..Last |-> Turn(f, i)]
  <2>2. /\ m \in Int /\ m < Last
        /\ \A i \in m..Last : i # Last => i + 1 \in (Last - n)..Last /\ i + 1 \in m..Last
    BY <1>1
  <2>3. ASSUME NEW i \in m..Last PROVE Turn(g, i) = Turn(f, i)
    <3>1. i # Last => g[i + 1] = Turn(f, i + 1) /\ f[i + 1] = Turn(f, i + 1)
      BY <2>1, <2>2
    <3>2. QED
      BY <3>1 DEF Turn
  <2>4. g = [i \in m..Last |-> Turn(g, i)]
    BY <2>3
  <2>5. QED
    BY <2>4
<1> HIDE DEF Defined
<1>4. Undefined = {}
  <2> SUFFICES ASSUME Undefined # {} PROVE FALSE
    OBVIOUS
  <2>1. Undefined \in SUBSET Nat /\ \A n \in Undefined : n \in 0..(Last - 1) /\ ~Defined(n)
    BY <1>1
  <2>2. \A n \in 0..(Last - 1) : n \notin Undefined => Defined(n)
    OBVIOUS
  <2> HIDE DEF Undefined
  <2>3. PICK n \in Undefined : \A m \in Undefined : ~ (m < n)
    BY <2>1, LeastOf
  <2>4. n # 0 /\ n \in 0..(Last - 1)
    BY <1>2, <2>1, <2>3
  <2>5. n - 1 \in 0..(Last - 2) /\ n - 1 \in 0..(Last - 1) /\ n - 1 < n /\ (n - 1) + 1 = n
    BY <1>1, <2>4
  <2>6. Defined(n - 1)
    BY <2>2, <2>3, <2>5
  <2>7. QED
    BY <1>3, <2>1, <2>3, <2>5, <2>6
<1>5. Last - 1 \in 0..(Last - 1) /\ Last - (Last - 1) = 1
  BY <1>1
<1>6. \E f : f = [i \in 1..Last |-> Turn(f, i)]
  BY <1>4, <1>5 DEF Defined
<1> DEFINE Loop(f) == f = [i \in 1..Len(Keypad) |->
                   Forms!Exchanged(IF i = Len(Keypad) THEN {Keypad} ELSE f[i + 1], i)]
<1>7. \E f : Loop(f)
  BY <1>6 DEF Turn, Last
<1>8. Forms!Shuffled = CHOOSE f : Loop(f)
  BY DEF Forms!Shuffled
<1> HIDE DEF Loop
<1>9. Loop(Forms!Shuffled)
  BY <1>7, <1>8
<1>10. QED
  BY <1>9 DEF Loop, Turn, Last

\* A shuffle shows every digit: the last place after which one were missing
\* is not there, an exchange hides none.
LEMMA ShufflesShowAll == Forms!Shuffles \subseteq Keypads
<1> DEFINE Bad == {n \in 0..(Last - 1) : ~(Forms!Shuffled[Last - n] \subseteq Keypads)}
<1>1. Last \in Nat /\ Last >= 2 /\ Keypad \in Keypads
  BY KeypadFacts
<1>2. ASSUME NEW i \in 1..Last, NEW k, k \subseteq Keypads
      PROVE  Forms!Exchanged(k, i) \subseteq Keypads
  <2>1. 1..i \subseteq 1..Last
    BY <1>1
  <2>2. QED
    BY <1>2, <2>1, SwapKeeps DEF Forms!Exchanged
<1>3. Bad = {}
  <2> SUFFICES ASSUME Bad # {} PROVE FALSE
    OBVIOUS
  <2>1. Bad \in SUBSET Nat /\ \A n \in Bad : n \in 0..(Last - 1)
    BY <1>1
  <2>2. \A n \in 0..(Last - 1) : n \in Bad <=> ~(Forms!Shuffled[Last - n] \subseteq Keypads)
    OBVIOUS
  <2> HIDE DEF Bad
  <2>3. PICK n \in Bad : \A m \in Bad : ~ (m < n)
    BY <2>1, LeastOf
  <2>4. n \in 0..(Last - 1) /\ Last - n \in 1..Last
    BY <1>1, <2>1
  <2>5. Forms!Shuffled[Last - n] = Turn(Forms!Shuffled, Last - n)
    BY <2>4, ShuffledUnfolds
  <2>6. CASE Last - n = Last
    BY <1>1, <1>2, <2>2, <2>4, <2>5, <2>6 DEF Turn
  <2>7. CASE Last - n # Last
    <3>1. n - 1 \in 0..(Last - 1) /\ n - 1 < n /\ Last - (n - 1) = Last - n + 1
      BY <1>1, <2>4, <2>7
    <3>2. Forms!Shuffled[Last - n + 1] \subseteq Keypads
      BY <2>2, <2>3, <3>1
    <3>3. Turn(Forms!Shuffled, Last - n) \subseteq Keypads
      BY <1>2, <2>4, <2>7, <3>2 DEF Turn
    <3>4. QED
      BY <2>2, <2>4, <2>5, <3>3
  <2>8. QED
    BY <2>6, <2>7
<1>4. Last - 2 \in 0..(Last - 1) /\ Last - (Last - 2) = 2
  BY <1>1
<1>5. Forms!Shuffled[2] \subseteq Keypads
  BY <1>3, <1>4
<1>6. QED
  BY <1>5 DEF Forms!Shuffles

FormsInv ==
    /\ agreed \subseteq Forms!agreementKeys
    /\ "marketing" \in agreed <=> Forms!Marketing \subseteq agreed
    /\ stage \in {"pin", "complete"} => Forms!Mandatory \subseteq agreed
    /\ "keypad" \in DOMAIN pin /\ pin.keypad \in Keypads

LEMMA FormsInit == PlatformInit => FormsInv
  BY KeypadFacts DEF PlatformInit, Forms!Init, Forms!NewPin, FormsInv, Forms!Marketing

LEMMA FormsStep == ASSUME FormsInv, Forms!Next PROVE FormsInv'
<1> USE DEF FormsInv, Forms!formVars
<1>1. CASE \/ \E offset \in 0..(Pages + 1) : Forms!ScrollEnds(offset)
           \/ Forms!StartForm \/ Forms!FocusFires \/ Forms!OpenCarriers \/ Forms!OpenTerms
           \/ \E field \in {"phone", "front", "back", "name"} : Forms!Tap(field)
           \/ \E value \in {"partial", "whole"} : Forms!Edit(value)
           \/ \E c \in Carriers : Forms!SelectCarrier(c)
           \/ \E sheet \in {"carrier", "terms"} : Forms!DismissSheet(sheet)
  BY <1>1 DEF Forms!ScrollEnds, Forms!StartForm, Forms!FocusFires, Forms!OpenCarriers,
              Forms!OpenTerms, Forms!Tap, Forms!Edit, Forms!SelectCarrier, Forms!DismissSheet
<1>2. ASSUME NEW box \in Forms!agreementKeys, Forms!Toggle(box) PROVE FormsInv'
  <2>1. agreed' = Forms!Toggled(box) /\ UNCHANGED <<stage, pin>> /\ stage = "form"
    BY <1>2 DEF Forms!Toggle
  <2>2. Forms!Toggled(box) \subseteq Forms!agreementKeys
    BY <1>2 DEF Forms!Toggled, Forms!Flipped, Forms!agreementKeys
  <2>3. "marketing" \in Forms!Toggled(box) <=> Forms!Marketing \subseteq Forms!Toggled(box)
    BY <1>2 DEF Forms!Toggled, Forms!Flipped, Forms!agreementKeys, Forms!Marketing,
                Forms!Mandatory
  <2>4. QED
    BY <2>1, <2>2, <2>3
<1>3. CASE Forms!ToggleAll
  BY <1>3 DEF Forms!ToggleAll, Forms!agreementKeys, Forms!Marketing
<1>4. CASE Forms!Agree
  BY <1>4, ShufflesShowAll DEF Forms!Agree, Forms!NewPin
<1>5. ASSUME NEW p, "keypad" \in DOMAIN p, p.keypad = pin.keypad, Forms!Renders(p),
             stage = "pin", UNCHANGED agreed
      PROVE  FormsInv'
  <2>1. PICK keypad \in Forms!Shuffles : pin' = Forms!Settled(p, keypad)
    BY <1>5 DEF Forms!Renders
  <2>2. "keypad" \in DOMAIN pin' /\ pin'.keypad \in {pin.keypad, keypad}
    BY <1>5, <2>1 DEF Forms!Settled
  <2>3. QED
    BY <1>5, <2>1, <2>2, ShufflesShowAll
<1>6. ASSUME NEW places, Forms!PressDigits(places) PROVE FormsInv'
  <2> DEFINE taps == [i \in DOMAIN places |-> pin.keypad[places[i]]]
             typed == [pin EXCEPT !.typed = @ \o taps, !.error = FALSE]
  <2>1. Forms!Renders(typed) /\ stage = "pin" /\ UNCHANGED agreed
    BY <1>6 DEF Forms!PressDigits, Forms!formVars
  <2> HIDE DEF taps
  <2>2. "keypad" \in DOMAIN typed /\ typed.keypad = pin.keypad
    OBVIOUS
  <2> HIDE DEF typed
  <2>3. QED
    BY <1>5, <2>1, <2>2
<1>7. CASE Forms!RemoveDigit
  <2> DEFINE kept == SubSeq(pin.typed, 1, IF Len(pin.typed) = 0 THEN 0 ELSE Len(pin.typed) - 1)
             removed == [pin EXCEPT !.error = FALSE, !.typed = kept]
  <2>1. Forms!Renders(removed) /\ stage = "pin" /\ UNCHANGED agreed
    BY <1>7 DEF Forms!RemoveDigit, Forms!formVars
  <2> HIDE DEF kept
  <2>2. "keypad" \in DOMAIN removed /\ removed.keypad = pin.keypad
    OBVIOUS
  <2> HIDE DEF removed
  <2>3. QED
    BY <1>5, <2>1, <2>2
<1>8. QED
  BY <1>1, <1>2, <1>3, <1>4, <1>6, <1>7 DEF Forms!Next

LEMMA FormsAlways == PlatformSpec => []FormsInv
<1>1. ASSUME FormsInv, UNCHANGED formVars PROVE FormsInv'
  BY <1>1 DEF formVars, FormsInv
<1>2. FormsInv /\ [PlatformNext]_platformVars => FormsInv'
  BY <1>1, FormsStep, Frame
<1>3. QED
  BY <1>2, FormsInit, PTL DEF PlatformSpec

\* Consent to marketing is consent to each of its parts, and the PIN is chosen
\* with the mandatory agreements and on a keypad that has every digit
\* (toggleAgreement, shuffledDigits).
THEOREM ConsentsAlwaysAgree == PlatformSpec => []ConsentsAgree
<1>1. FormsInv => ConsentsAgree
  BY KeypadFacts DEF FormsInv, ConsentsAgree, Forms!ConsentsAgree, Keypads, KeySet
<1>2. QED
  BY <1>1, FormsAlways, PTL

-----------------------------------------------------------------------------
(* Consultation: the proposed slot *)

\* Where the customer stands in the calendar and in the dialog.
VisitsInv ==
    /\ weekday \in 0..6
    /\ date \in {0} \cup Visits!Days
    /\ slot # 0 => slot \in Visits!Available(date)
    /\ dialog.open => slot # 0 /\ dialog.draft \in Visits!Available(date)
    /\ dialog = [open |-> dialog.open, draft |-> dialog.draft]

LEMMA FourSlots == \A d : Visits!Available(d) \subseteq {1, 2, 3, 4}
  BY DEF Visits!Available, Visits!slots, Visits!SlotsOf

\* The order in which two slots are preferred has a first one.
LEMMA NearestOfFour ==
    ASSUME NEW S \in SUBSET {1, 2, 3, 4}, S # {}, NEW f \in [{1, 2, 3, 4} -> Int]
    PROVE  \E i \in S : \A j \in S : f[i] < f[j] \/ (f[i] = f[j] /\ i <= j)
<1> DEFINE First(T) == \E i \in T : \A j \in T : f[i] < f[j] \/ (f[i] = f[j] /\ i <= j)
<1>1. ASSUME NEW T \in SUBSET {1, 2, 3, 4}, T = {} \/ First(T), NEW n \in {1, 2, 3, 4}
      PROVE  First(T \cup {n})
  <2>1. CASE T = {}
    BY <2>1
  <2>2. ASSUME NEW i \in T, \A j \in T : f[i] < f[j] \/ (f[i] = f[j] /\ i <= j)
        PROVE  First(T \cup {n})
    <3>1. /\ f[i] \in Int /\ f[n] \in Int /\ i \in Int /\ n \in Int
          /\ \A j \in T : f[j] \in Int /\ j \in Int
      OBVIOUS
    <3>2. CASE f[i] < f[n] \/ (f[i] = f[n] /\ i <= n)
      BY <2>2, <3>2
    <3>3. CASE f[n] < f[i] \/ (f[n] = f[i] /\ n <= i)
      BY <2>2, <3>1, <3>3
    <3>4. QED
      BY <3>1, <3>2, <3>3
  <2>3. QED
    BY <1>1, <2>1, <2>2
<1>2. ASSUME NEW T \in SUBSET {1, 2, 3, 4}, T = {} \/ First(T), NEW n \in {1, 2, 3, 4}
      PROVE  T \cup (S \cap {n}) = {} \/ First(T \cup (S \cap {n}))
  <2>1. S \cap {n} = {} \/ S \cap {n} = {n}
    OBVIOUS
  <2>2. QED
    BY <1>1, <1>2, <2>1
<1>3. S \cap {1} = {} \/ First(S \cap {1})
  BY <1>2, {} \cup (S \cap {1}) = S \cap {1}
<1> DEFINE Two == (S \cap {1}) \cup (S \cap {2})
           Three == Two \cup (S \cap {3})
<1> HIDE DEF First
<1>4. Two = {} \/ First(Two)
  BY <1>2, <1>3
<1>5. Three = {} \/ First(Three)
  BY <1>2, <1>4
<1>6. Three \cup (S \cap {4}) = {} \/ First(Three \cup (S \cap {4}))
  BY <1>2, <1>5
<1>7. S = Three \cup (S \cap {4})
  OBVIOUS
<1>8. First(S)
  BY <1>6, <1>7
<1>9. QED
  BY <1>8 DEF First

LEMMA FirstIsAvailable ==
    ASSUME NEW d, Visits!Available(d) # {}
    PROVE  Visits!FirstAvailable(d) \in Visits!Available(d)
<1>1. \E i \in Visits!Available(d) : \A j \in Visits!Available(d) : i <= j
  BY FourSlots
<1>2. QED
  BY <1>1 DEF Visits!FirstAvailable

LEMMA NearestIsAvailable ==
    ASSUME NEW d, NEW n \in Int, Visits!Available(d) # {}
    PROVE  Visits!nearestAvailableIndex(d, n) \in Visits!Available(d)
<1> DEFINE far == [i \in {1, 2, 3, 4} |-> Visits!Distance(i, n)]
<1>1. far \in [{1, 2, 3, 4} -> Int]
  BY DEF Visits!Distance
<1>2. \A i \in {1, 2, 3, 4} : Visits!Distance(i, n) = far[i]
  OBVIOUS
<1> HIDE DEF far
<1>3. \E i \in Visits!Available(d) : \A j \in Visits!Available(d) :
        far[i] < far[j] \/ (far[i] = far[j] /\ i <= j)
  BY <1>1, FourSlots, NearestOfFour
<1>4. QED
  BY <1>2, <1>3, FourSlots DEF Visits!nearestAvailableIndex

LEMMA VisitsInit == PlatformInit => VisitsInv
  BY DEF PlatformInit, Visits!Init, VisitsInv, Visits!None

LEMMA VisitsStep == ASSUME VisitsInv, Visits!Next PROVE VisitsInv'
<1> USE DEF VisitsInv, Visits!None, Visits!screenVars, Visits!bannerVars
<1>1. CASE \E d \in Visits!Days : Visits!PressDay(d)
  BY <1>1, FirstIsAvailable DEF Visits!PressDay, Visits!Available, Visits!slots
<1>2. CASE \E m \in Visits!CONSULTATION_METHODS : Visits!ChooseMethod(m)
  BY <1>2 DEF Visits!ChooseMethod, Visits!Available, Visits!slots
<1>3. CASE Visits!OpenPicker \/ Visits!ClosePicker \/ Visits!ConfirmPicker
  BY <1>3 DEF Visits!OpenPicker, Visits!ClosePicker, Visits!ConfirmPicker, Visits!Available,
              Visits!slots
<1>4. ASSUME NEW i \in DOMAIN Visits!slots(date), Visits!WheelStops(i) \/ Visits!TapRow(i)
      PROVE  VisitsInv'
  <2>1. PICK n \in Visits!Available(date) :
          dialog' = [dialog EXCEPT !.draft = n] /\ UNCHANGED <<weekday, date, slot>>
    <3>1. CASE Visits!WheelStops(i)
      <4>1. i \in Int
        BY DEF Visits!slots, Visits!SlotsOf
      <4>2. Visits!Available(date) # {}
        BY <3>1 DEF Visits!WheelStops
      <4>3. QED
        BY <3>1, <4>1, <4>2, NearestIsAvailable DEF Visits!WheelStops
    <3>2. CASE Visits!TapRow(i)
      <4>1. Visits!slots(date)[i] \in {"FULL", "AVAILABLE"}
        BY DEF Visits!slots, Visits!SlotsOf
      <4>2. QED
        BY <3>2, <4>1 DEF Visits!TapRow, Visits!Available
    <3>3. QED
      BY <1>4, <3>1, <3>2
  <2>2. dialog.open
    BY <1>4 DEF Visits!WheelStops, Visits!TapRow
  <2>3. Visits!Available(date)' = Visits!Available(date)
    BY <2>1 DEF Visits!Available, Visits!slots
  <2>4. QED
    BY <2>1, <2>2, <2>3
<1>5. CASE Visits!Request \/ Visits!Change \/ Visits!Tick
  BY <1>5 DEF Visits!Request, Visits!Change, Visits!Tick, Visits!Available, Visits!slots
<1>6. CASE Visits!Reopen
  BY <1>6 DEF Visits!Reopen
<1>7. CASE \E n \in 1..MaxVisits : Visits!Delivered(n)
  BY <1>7 DEF Visits!Delivered, Visits!Available, Visits!slots
<1>8. QED
  BY <1>1, <1>2, <1>3, <1>4, <1>5, <1>6, <1>7 DEF Visits!Next

LEMMA VisitsAlways == PlatformSpec => []VisitsInv
<1>1. ASSUME VisitsInv, UNCHANGED visitVars PROVE VisitsInv'
  BY <1>1 DEF visitVars, VisitsInv, Visits!Available, Visits!slots
<1>2. VisitsInv /\ [PlatformNext]_platformVars => VisitsInv'
  BY <1>1, VisitsStep, Frame
<1>3. QED
  BY <1>2, VisitsInit, PTL DEF PlatformSpec

\* The slot that the dialog proposes and the one that a request names are free.
THEOREM ProposedSlotsAreFree == PlatformSpec => []ProposedIsFree
<1>1. VisitsInv => ProposedIsFree
  BY DEF VisitsInv, ProposedIsFree, Visits!ProposedIsFree, Visits!None
<1>2. QED
  BY <1>1, VisitsAlways, PTL

-----------------------------------------------------------------------------
(* Diagnosis: the verdict *)

Held == {"CASH", "BOND", "EQUITY", "OTHER"}

CoachInv ==
    /\ assetSummary = [data |-> assetSummary.data, isError |-> assetSummary.isError,
                       isFetching |-> assetSummary.isFetching]
    /\ riskProfile = [data |-> riskProfile.data, isError |-> riskProfile.isError,
                      isFetching |-> riskProfile.isFetching]
    /\ assetSummary.data = Coach!NoSummary \/ assetSummary.data \in [Held -> Nat]
    /\ riskProfile.data \in {"none", "CONSERVATIVE", "BALANCED", "GROWTH"}

LEMMA CoachInit == PlatformInit => CoachInv
  BY DEF PlatformInit, Coach!Init, Coach!Started, CoachInv

LEMMA CoachStep == ASSUME CoachInv, Coach!Next PROVE CoachInv'
<1> USE DEF CoachInv
<1>1. CASE Coach!SummaryArrives
  BY <1>1, WeightsAssumption DEF Coach!SummaryArrives, Coach!Brought, Held
<1>2. CASE Coach!ProfileArrives
  BY <1>2 DEF Coach!ProfileArrives, Coach!Brought, Coach!Suggested
<1>3. CASE Coach!SummaryFails
  BY <1>3 DEF Coach!SummaryFails
<1>4. CASE Coach!ProfileFails
  BY <1>4 DEF Coach!ProfileFails
<1>5. CASE Coach!Retry
  BY <1>5 DEF Coach!Retry
<1>6. QED
  BY <1>1, <1>2, <1>3, <1>4, <1>5 DEF Coach!Next

LEMMA CoachAlways == PlatformSpec => []CoachInv
<1>1. ASSUME CoachInv, UNCHANGED coachVars PROVE CoachInv'
  BY <1>1 DEF coachVars, CoachInv
<1>2. CoachInv /\ [PlatformNext]_platformVars => CoachInv'
  BY <1>1, CoachStep, Frame
<1>3. QED
  BY <1>2, CoachInit, PTL DEF PlatformSpec

\* The focus is a class, and none is further off.
LEMMA FocusIsFurthest ==
    ASSUME NEW actual, NEW suggested,
           \A c \in Coach!PLANNING_ASSET_CLASSES : Coach!Off(actual, suggested, c) \in Int
    PROVE  LET worst == Coach!focusAssetClassFor(actual, suggested)
               far(c) == Coach!Magnitude(Coach!Off(actual, suggested, c))
           IN  /\ worst \in Coach!PLANNING_ASSET_CLASSES
               /\ \A c \in Coach!PLANNING_ASSET_CLASSES : far(c) <= far(worst)
<1> DEFINE far(c) == Coach!Magnitude(Coach!Off(actual, suggested, c))
           f == [i \in 1..3 |-> far(Coach!FOCUS_PRIORITY[i])]
           Best(i) == \A j \in 1..3 : f[i] > f[j] \/ (f[i] = f[j] /\ i <= j)
<1>1. /\ Coach!FOCUS_PRIORITY[1] = "EQUITY" /\ Coach!FOCUS_PRIORITY[2] = "BOND"
      /\ Coach!FOCUS_PRIORITY[3] = "CASH"
  BY DEF Coach!FOCUS_PRIORITY
<1>2. \A i \in 1..3 : Coach!FOCUS_PRIORITY[i] \in Coach!PLANNING_ASSET_CLASSES
  BY <1>1 DEF Coach!PLANNING_ASSET_CLASSES
<1>3. \A c \in Coach!PLANNING_ASSET_CLASSES : far(c) \in Int
  BY DEF Coach!Magnitude
<1>4. f[1] \in Int /\ f[2] \in Int /\ f[3] \in Int
  BY <1>2, <1>3
<1>5. Coach!focusAssetClassFor(actual, suggested)
        = Coach!FOCUS_PRIORITY[CHOOSE i \in 1..3 : Best(i)]
  BY DEF Coach!focusAssetClassFor, Coach!FirstGreatest
<1>6. 1..3 = {1, 2, 3}
  OBVIOUS
<1>7. \E i \in 1..3 : Best(i)
  <2> HIDE DEF f
  <2>1. CASE f[1] >= f[2] /\ f[1] >= f[3]
    <3>1. Best(1)
      BY <1>4, <1>6, <2>1
    <3>2. QED
      BY <3>1
  <2>2. CASE f[2] > f[1] /\ f[2] >= f[3]
    <3>1. Best(2)
      BY <1>4, <1>6, <2>2
    <3>2. QED
      BY <3>1
  <2>3. CASE f[3] > f[1] /\ f[3] > f[2]
    <3>1. Best(3)
      BY <1>4, <1>6, <2>3
    <3>2. QED
      BY <3>1
  <2>4. QED
    BY <1>4, <2>1, <2>2, <2>3
<1> HIDE DEF Best
<1>8. PICK i \in 1..3 : Best(i) /\ Coach!focusAssetClassFor(actual, suggested)
                                      = Coach!FOCUS_PRIORITY[i]
  BY <1>5, <1>7
<1>9. \A j \in 1..3 : f[j] <= f[i]
  BY <1>4, <1>6, <1>8 DEF Best
<1>10. far("EQUITY") <= f[i] /\ far("BOND") <= f[i] /\ far("CASH") <= f[i]
  BY <1>1, <1>6, <1>9
<1>11. f[i] = far(Coach!focusAssetClassFor(actual, suggested))
  BY <1>8
<1> HIDE DEF f, far
<1>12. \A c \in Coach!PLANNING_ASSET_CLASSES :
          far(c) <= far(Coach!focusAssetClassFor(actual, suggested))
  BY <1>10, <1>11 DEF Coach!PLANNING_ASSET_CLASSES
<1>13. QED
  BY <1>2, <1>8, <1>12 DEF far

\* What is too much of one class is too little of another: the suggestions add
\* up to a hundred.
LEMMA OffBalances ==
    ASSUME NEW items \in [Held -> Nat], NEW level \in {"CONSERVATIVE", "BALANCED", "GROWTH"}
    PROVE  LET actual == Coach!Normalized(items)
               off(c) == Coach!Off(actual, Coach!Suggested[level], c)
           IN  /\ actual.total \in Nat
               /\ \A c \in Coach!PLANNING_ASSET_CLASSES : off(c) \in Int
               /\ actual.total = 0 =>
                     \A c \in Coach!PLANNING_ASSET_CLASSES : off(c) < 0
               /\ actual.total # 0 => off("CASH") + off("BOND") + off("EQUITY") = 0
<1> DEFINE x == items["CASH"]
           y == items["BOND"]
           z == items["EQUITY"]
           a == Coach!Suggested[level]["CASH"]
           b == Coach!Suggested[level]["BOND"]
           e == Coach!Suggested[level]["EQUITY"]
<1>1. /\ x \in Nat /\ y \in Nat /\ z \in Nat
  BY DEF Held
<1>2. a \in Nat /\ b \in Nat /\ e \in Nat /\ a > 0 /\ b > 0 /\ e > 0 /\ a + b + e = 100
  BY DEF Coach!Suggested
<1>3. Coach!Normalized(items) = [weight |-> items, total |-> x + y + z]
  BY DEF Coach!Normalized
<1> DEFINE T == x + y + z
<1> HIDE DEF a, b, e, x, y, z
<1>4. /\ T # 0 =>
            /\ Coach!Off(Coach!Normalized(items), Coach!Suggested[level], "CASH")
                 = 100 * x - a * T
            /\ Coach!Off(Coach!Normalized(items), Coach!Suggested[level], "BOND")
                 = 100 * y - b * T
            /\ Coach!Off(Coach!Normalized(items), Coach!Suggested[level], "EQUITY")
                 = 100 * z - e * T
      /\ T = 0 =>
            /\ Coach!Off(Coach!Normalized(items), Coach!Suggested[level], "CASH") = -a
            /\ Coach!Off(Coach!Normalized(items), Coach!Suggested[level], "BOND") = -b
            /\ Coach!Off(Coach!Normalized(items), Coach!Suggested[level], "EQUITY") = -e
  BY <1>3 DEF Coach!Off, a, b, e, x, y, z
<1>5. (100 * x - a * T) + (100 * y - b * T) + (100 * z - e * T) = 0
  <2>1. a * T + b * T + e * T = 100 * T
    BY <1>1, <1>2
  <2>2. a * T \in Int /\ b * T \in Int /\ e * T \in Int
    BY <1>1, <1>2
  <2>3. QED
    BY <1>1, <2>1, <2>2
<1>6. T \in Nat /\ a * T \in Int /\ b * T \in Int /\ e * T \in Int
  BY <1>1, <1>2
<1>7. QED
  BY <1>1, <1>2, <1>3, <1>4, <1>5, <1>6 DEF Coach!PLANNING_ASSET_CLASSES

\* The verdict about the class that is furthest off holds for all of them
\* (createCoachDiagnosis).
THEOREM VerdictIsForAll == PlatformSpec => []VerdictHolds
<1>1. ASSUME CoachInv PROVE VerdictHolds
  <2> DEFINE actual == Coach!Normalized(assetSummary.data)
             suggested == Coach!Suggested[riskProfile.data]
             off(c) == Coach!Off(actual, suggested, c)
             worst == Coach!focusAssetClassFor(actual, suggested)
  <2> SUFFICES ASSUME Coach!hasData
               PROVE  /\ Coach!viewModel.status = "ALIGNED" =>
                            \A c \in Coach!PLANNING_ASSET_CLASSES :
                               Coach!Magnitude(off(c)) <= 5 * Coach!Scale(actual)
                      /\ Coach!viewModel.direction = "OVER" =>
                            \E c \in Coach!PLANNING_ASSET_CLASSES : off(c) < 0
                      /\ Coach!viewModel.direction = "UNDER" =>
                            \/ actual.total = 0
                            \/ \E c \in Coach!PLANNING_ASSET_CLASSES : off(c) > 0
    BY DEF VerdictHolds, Coach!VerdictHolds
  <2>1. /\ assetSummary.data \in [Held -> Nat]
        /\ riskProfile.data \in {"CONSERVATIVE", "BALANCED", "GROWTH"}
    BY <1>1 DEF CoachInv, Coach!hasData
  <2>2. /\ actual.total \in Nat
        /\ \A c \in Coach!PLANNING_ASSET_CLASSES : off(c) \in Int
        /\ actual.total = 0 => \A c \in Coach!PLANNING_ASSET_CLASSES : off(c) < 0
        /\ actual.total # 0 => off("CASH") + off("BOND") + off("EQUITY") = 0
    BY <2>1, OffBalances
  <2>3. /\ worst \in Coach!PLANNING_ASSET_CLASSES
        /\ \A c \in Coach!PLANNING_ASSET_CLASSES :
              Coach!Magnitude(off(c)) <= Coach!Magnitude(off(worst))
    BY <2>2, FocusIsFurthest
  <2> DEFINE aligned == Coach!Magnitude(off(worst)) <= 5 * Coach!Scale(actual)
  <2>4. /\ Coach!viewModel.status = IF aligned THEN "ALIGNED" ELSE "NEEDS_ATTENTION"
        /\ Coach!viewModel.direction = IF aligned THEN "ALIGNED"
                                       ELSE IF off(worst) > 0 THEN "OVER" ELSE "UNDER"
    BY DEF Coach!viewModel, Coach!createCoachDiagnosis,
           Coach!ALIGNED_THRESHOLD_PERCENTAGE_POINTS
  <2>5. Coach!Scale(actual) \in Nat /\ Coach!Scale(actual) > 0
    BY <2>2 DEF Coach!Scale
  <2> HIDE DEF actual, suggested, off, worst
  <2>6. CASE aligned
    <3>1. \A c \in Coach!PLANNING_ASSET_CLASSES : Coach!Magnitude(off(c)) \in Int
      BY <2>2 DEF Coach!Magnitude
    <3>2. QED
      BY <2>3, <2>4, <2>5, <2>6, <3>1
  <2>7. CASE ~aligned
    <3>1. off(worst) # 0
      BY <2>2, <2>3, <2>5, <2>7 DEF Coach!Magnitude
    <3>2. /\ "CASH" \in Coach!PLANNING_ASSET_CLASSES /\ "BOND" \in Coach!PLANNING_ASSET_CLASSES
          /\ "EQUITY" \in Coach!PLANNING_ASSET_CLASSES
          /\ worst \in {"CASH", "BOND", "EQUITY"}
      BY <2>3 DEF Coach!PLANNING_ASSET_CLASSES
    <3>3. /\ off("CASH") \in Int /\ off("BOND") \in Int /\ off("EQUITY") \in Int
          /\ off(worst) \in {off("CASH"), off("BOND"), off("EQUITY")}
      BY <2>2, <3>2
    <3>4. CASE off(worst) > 0
      <4>1. off("CASH") < 0 \/ off("BOND") < 0 \/ off("EQUITY") < 0
        <5>1. \A p, q, r \in Int : p + q + r = 0 /\ (p > 0 \/ q > 0 \/ r > 0)
                                      => p < 0 \/ q < 0 \/ r < 0
          OBVIOUS
        <5>2. off("CASH") > 0 \/ off("BOND") > 0 \/ off("EQUITY") > 0
          BY <3>3, <3>4
        <5>3. actual.total # 0
          BY <2>2, <3>2, <3>3, <5>2
        <5>4. QED
          BY <2>2, <3>3, <5>1, <5>2, <5>3
      <4>2. QED
        BY <2>4, <2>7, <3>2, <3>4, <4>1
    <3>5. CASE off(worst) < 0
      <4>1. actual.total = 0 \/ off("CASH") > 0 \/ off("BOND") > 0 \/ off("EQUITY") > 0
        <5>1. \A p, q, r \in Int : p + q + r = 0 /\ (p < 0 \/ q < 0 \/ r < 0)
                                      => p > 0 \/ q > 0 \/ r > 0
          OBVIOUS
        <5>2. off("CASH") < 0 \/ off("BOND") < 0 \/ off("EQUITY") < 0
          BY <3>3, <3>5
        <5>3. QED
          BY <2>2, <3>3, <5>1, <5>2
      <4>2. ~(off(worst) > 0)
        BY <3>3, <3>5
      <4>3. QED
        BY <2>4, <2>7, <3>2, <4>1, <4>2
    <3>6. QED
      BY <3>1, <3>3, <3>4, <3>5
  <2>8. QED
    BY <2>6, <2>7 DEF off
<1>2. QED
  BY <1>1, CoachAlways, PTL
=============================================================================
