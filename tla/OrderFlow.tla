------------------------------ MODULE OrderFlow ------------------------------
(***************************************************************************)
(* The order screen of the mobile app (features/order): the customer      *)
(* previews a purchase, confirms the quote behind a biometric prompt, and  *)
(* watches the order until it is final.  Previews, prompts, POSTs and      *)
(* polls are asynchronous and end in any order.  The amount is left out:   *)
(* a quote for another amount than the typed one is hidden, which is here  *)
(* a quote that the customer does not confirm.                             *)
(*                                                                         *)
(* A confirm keeps the quote of the moment it was pressed; the idempotency *)
(* key is read after the prompt, from a ref that every answered preview    *)
(* replaces.  The platform is what OrderSettlement shows of it: a key has  *)
(* one order, and another body under the key is a conflict.                *)
(***************************************************************************)
EXTENDS Naturals, FiniteSets

CONSTANTS
    Quotes,   \* quotes the platform may make, one per preview
    Keys,     \* idempotency keys of the screen
    Confirms, \* confirms that can be under way at a time
    Unset      \* no quote and no key

ASSUME UnsetAssumption == Unset \notin Quotes /\ Unset \notin Keys

VARIABLES
    asked,    \* previews under way
    made,     \* previews that were ever asked for
    latest,   \* the preview whose isPending disables the confirm button
    current,  \* the quote state
    key,      \* the idempotencyKey ref
    confirm,  \* where each confirm is: [pc, quote, key]
    delayed,  \* POSTs on their way whose caller has stopped waiting
    order,    \* the platform's order under each key: [quote, status]
    orderId,  \* the orderId state, as the key of the order
    closed,   \* orders whose polling has ended
    renewed,  \* orders after whose fill the wealth queries were invalidated
    moved     \* history: a preview was answered while a prompt was open

screen   == <<asked, made, latest, current, key, orderId>>
platform == <<delayed, order>>
watched  == <<closed, renewed>>
vars     == <<screen, platform, watched, confirm, moved>>

Idle    == [pc |-> "idle", quote |-> Unset, key |-> Unset]
NoOrder == [quote |-> Unset, status |-> "NONE"]

\* finalStatuses; FAILED stands for REJECTED too.
Final == {"FILLED", "FAILED"}

Init ==
    /\ asked = {} /\ made = {} /\ latest = Unset /\ current = Unset
    /\ key = Unset /\ orderId = Unset
    /\ delayed = {} /\ order = [k \in Keys |-> NoOrder]
    /\ closed = {} /\ renewed = {}
    /\ confirm = [c \in Confirms |-> Idle] /\ moved = FALSE

Go(c, pc) == confirm' = [confirm EXCEPT ![c].pc = pc]
Prompting == \E c \in Confirms : confirm[c].pc = "prompt"

\* Keys are random: a new one is in no use.
Unused == {k \in Keys : /\ k # key /\ order[k] = NoOrder
                        /\ \A c \in Confirms : confirm[c].key # k
                        /\ \A post \in delayed : post[2] # k}

-----------------------------------------------------------------------------
(* Preview *)

\* runPreview.  The button is never disabled.
TapPreview(q) ==
    /\ q \notin made /\ made' = made \cup {q}
    /\ asked' = asked \cup {q} /\ latest' = q
    /\ UNCHANGED <<current, key, orderId, platform, watched, confirm, moved>>

\* onSuccess of the preview, also of one that a later preview has overtaken.
PreviewAnswered(q) ==
    /\ q \in asked /\ asked' = asked \ {q}
    /\ current' = q /\ orderId' = Unset
    /\ key' \in Unused
    /\ moved' = (moved \/ Prompting)
    /\ UNCHANGED <<made, latest, platform, watched, confirm>>

PreviewFails(q) ==
    /\ q \in asked /\ asked' = asked \ {q}
    /\ UNCHANGED <<made, latest, current, key, orderId, platform, watched, confirm, moved>>

-----------------------------------------------------------------------------
(* Confirm *)

\* Mutant: a new key for every confirm.
TapConfirmRekeying(c) ==
    /\ current # Unset /\ latest \notin asked
    /\ confirm[c] = Idle
    /\ confirm' = [confirm EXCEPT ![c] = [pc |-> "prompt", quote |-> current, key |-> Unset]]
    /\ key' \in Unused
    /\ UNCHANGED <<asked, made, latest, current, orderId, platform, watched, moved>>

\* confirm of a quote that has not expired yet, up to the prompt; nothing
\* disables the button while it is open.
TapConfirm(c) ==
    /\ current # Unset /\ latest \notin asked
    /\ confirm[c] = Idle
    /\ confirm' = [confirm EXCEPT ![c] = [pc |-> "prompt", quote |-> current, key |-> Unset]]
    /\ UNCHANGED <<screen, platform, watched, moved>>

PromptFails(c) ==
    /\ confirm[c].pc = "prompt"
    /\ confirm' = [confirm EXCEPT ![c] = Idle]
    /\ UNCHANGED <<screen, platform, watched, moved>>

\* submit.mutate, and the POST that its mutationFn sends with the key of now.
PromptPasses(c) ==
    /\ confirm[c].pc = "prompt"
    /\ confirm' = [confirm EXCEPT ![c].pc = "sent", ![c].key = key]
    /\ UNCHANGED <<screen, platform, watched, moved>>

\* The platform takes POST [q, k]: refused (expired, short of cash), replayed,
\* a conflict, or recorded as a new order.
Created(q, k) == [order EXCEPT ![k] = [quote |-> q, status |-> "PENDING"]]
Refusable(q, k) == order[k].quote # q
Taken(q, k) ==
    IF order[k] = NoOrder
    THEN order' = Created(q, k)
    ELSE order[k].quote = q /\ UNCHANGED order

PostTaken(c) ==
    /\ confirm[c].pc = "sent"
    /\ Taken(confirm[c].quote, confirm[c].key)
    /\ Go(c, "taken")
    /\ UNCHANGED <<screen, delayed, watched, moved>>

PostRefused(c) ==
    /\ confirm[c].pc = "sent" /\ Refusable(confirm[c].quote, confirm[c].key)
    /\ confirm' = [confirm EXCEPT ![c] = Idle]
    /\ UNCHANGED <<screen, platform, watched, moved>>

\* onSuccess of the submission.
PostAnswered(c) ==
    /\ confirm[c].pc = "taken"
    /\ orderId' = confirm[c].key
    /\ confirm' = [confirm EXCEPT ![c] = Idle]
    /\ UNCHANGED <<asked, made, latest, current, key, platform, watched, moved>>

\* No answer in time: the POST or its answer is lost, or the POST is late.
PostFails(c) ==
    /\ confirm[c].pc \in {"sent", "taken"}
    /\ \/ UNCHANGED delayed
       \/ /\ confirm[c].pc = "sent"
          /\ delayed' = delayed \cup {<<confirm[c].quote, confirm[c].key>>}
    /\ confirm' = [confirm EXCEPT ![c] = Idle]
    /\ UNCHANGED <<screen, order, watched, moved>>

LatePost(post) ==
    /\ post \in delayed /\ delayed' = delayed \ {post}
    /\ \/ Taken(post[1], post[2])
       \/ Refusable(post[1], post[2]) /\ UNCHANGED order
    /\ UNCHANGED <<screen, watched, confirm, moved>>

-----------------------------------------------------------------------------
(* The order afterwards *)

\* The platform submits and reconciles.
Settle(k) ==
    /\ order[k].status \in {"PENDING", "UNKNOWN"}
    /\ \E status \in {"UNKNOWN"} \cup Final :
          status # order[k].status /\ order' = [order EXCEPT ![k].status = status]
    /\ UNCHANGED <<screen, delayed, watched, confirm, moved>>

\* refetchInterval ends with a final status.
\* Mutant: UNKNOWN is taken for final.
EndsPollingEarly(status) == status \in Final \cup {"UNKNOWN"}
EndsPolling(status) == status \in Final

\* One poll; a fill that becomes known invalidates the wealth queries.
Poll ==
    /\ orderId # Unset /\ orderId \notin closed
    /\ closed' = IF EndsPolling(order[orderId].status) THEN closed \cup {orderId} ELSE closed
    /\ renewed' = IF order[orderId].status = "FILLED" THEN renewed \cup {orderId} ELSE renewed
    /\ UNCHANGED <<screen, platform, confirm, moved>>

-----------------------------------------------------------------------------
Next ==
    \/ \E q \in Quotes : TapPreview(q) \/ PreviewAnswered(q) \/ PreviewFails(q)
    \/ \E c \in Confirms :
          \/ TapConfirm(c) \/ PromptFails(c) \/ PromptPasses(c)
          \/ PostTaken(c) \/ PostRefused(c) \/ PostAnswered(c) \/ PostFails(c)
    \/ \E post \in delayed : LatePost(post)
    \/ \E k \in Keys : Settle(k)
    \/ Poll

Spec == Init /\ [][Next]_vars

\* The app stays in the foreground, and its polls get answers.
FairSpec == Spec /\ WF_vars(Poll)

-----------------------------------------------------------------------------
(* Properties *)

\* A quote is bought once, however often its confirm is pressed, retried after
\* a lost answer or overtaken by late POSTs, unless a preview is answered
\* while a prompt is open: then the key of the next quote is sent with this one.
QuoteBoughtOnce ==
    ~ moved => \A k, l \in Keys :
        order[k] # NoOrder /\ order[k].quote = order[l].quote => k = l

\* A fill of the order that the screen watches becomes known, and the wealth
\* data of before it are dropped, unless another order or preview comes first.
FillsAreSeen ==
    \A k \in Keys : orderId = k /\ order[k].status = "FILLED" ~> k \in renewed \/ orderId # k
=============================================================================
