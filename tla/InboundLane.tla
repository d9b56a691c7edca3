---------------------------- MODULE InboundLane ----------------------------
(***************************************************************************)
(* The reply path of ghl_bridge, end to end: WebhookIntake receives a      *)
(* delivery, Bridge drafts and gates a reply, ApprovedSender sends it, a   *)
(* person releases a parked one; the sender of webhooks retries, calls to  *)
(* the platform fail or lose their reply, the process restarts.            *)
(*                                                                         *)
(* The code is sequential Python; a step here ends where the code calls    *)
(* something outside the process (the platform, the generator, a durable   *)
(* store), because that is where it can wait, raise, or be overtaken by a  *)
(* restart, a clock, a person, or another thread of the host.              *)
(***************************************************************************)
EXTENDS PolicyGate, KeyStore, Sequences

CONSTANTS
  Events,         \* facts the platform reports, by event key
  KindOf,         \* [Events -> Kinds]: how the bridge will take the event
  ContactOf,      \* [Events -> Contacts]: who wrote the inbound message
  IntentOf,       \* [Events -> Intents]: what the classifier says of it
  Workers,        \* threads of the host that call receive or release_draft
  Durability,     \* whether the injected KeyStores survive a restart: the choices
  MaxAttempts,    \* [Events -> Nat], bound: deliveries of each event
  Limit,          \* [EnvKinds -> Nat], bound: how often each disturbance occurs
  None            \* Python's None

\* "poison" stands for the events handle_event raises on before any call:
\* another location's event, or a payload without contact_id or body.
Kinds == {"inbound", "ignored", "poison", "malformed"}

\* What the surroundings may do a bounded number of times.
EnvKinds == {"forged",       \* a delivery whose signature does not verify
             "release",      \* a person asks to release a parked draft
             "opt_change",   \* a contact opts out or back in
             "call_fails",   \* a call, or a durable store's get, raises; no effect
             "lost_reply",   \* a send took effect but the call raises
             "store_fails",  \* a durable store's set raises, with effect or without
             "crash"}        \* the process restarts

ASSUME EventAssumption ==
  /\ KindOf \in [Events -> Kinds]
  /\ ContactOf \in [Events -> Contacts]
  /\ IntentOf \in [Events -> Intents]
  /\ None \notin Events /\ None \notin Approvals
ASSUME BoundAssumption ==
  /\ Durability \subseteq BOOLEAN
  /\ MaxAttempts \in [Events -> Nat]
  /\ Limit \in [EnvKinds -> Nat]

VARIABLES
  durable,    \* whether the two injected KeyStores survive a restart
  seen,       \* WebhookIntake._seen: event key -> first delivery id
  spent,      \* ApprovedSender._spent: decision id -> message id
  decisions,  \* PolicyGate._decisions, the id counter
  pending,    \* Bridge._pending: decision id -> parked draft
  ledger,     \* AuditLedger._records
  messages,   \* the platform's outbound messages; "by" records why each left
  optedOut,   \* contacts the platform marks opted out
  open,       \* the clock is inside the location's business hours
  attempts,   \* deliveries of each event so far; the next delivery's id
  work,       \* what each worker is in the middle of
  env         \* how often each disturbance has occurred

stores == <<durable, seen, spent>>
vars == <<stores, decisions, pending, ledger, messages, optedOut, open,
          attempts, work, env>>
-----------------------------------------------------------------------------
\* A call in progress.  delivery = 0 marks a release_draft, which has none.
\* "check", "spend" and "mark" wait for a KeyStore, "record" for nothing.
Steps == {"idle", "fetch", "decide", "check", "send", "spend", "record", "mark"}
Jobs == [pc : Steps, event : Events \cup {None}, delivery : Nat,
         optedOut : BOOLEAN, decision : Decisions \cup {None}, message : Nat]

Idle == [pc |-> "idle", event |-> None, delivery |-> 0,
         optedOut |-> FALSE, decision |-> None, message |-> 0]

IsRelease(j) == j.delivery = 0
\* Mutant: every send is recorded as the gate's own.
ModeAuto(j)  == "auto"
ModeOf(j)    == IF IsRelease(j) THEN "human" ELSE "auto"

\* A ledger line: its kind, its event key, and the details it names.
LineKinds == {"webhook_rejected", "webhook_malformed", "webhook_duplicate",
              "webhook_received", "webhook_handler_failed", "event_ignored",
              "draft_generated", "gate_decision", "message_drafted",
              "message_blocked", "guard_breach", "message_sent"}
Lines == [kind : LineKinds, event : Events \cup {None}, delivery : Nat,
          decision : Nat, message : Nat, says : Outcomes \cup Modes \cup {None}]

Line(kind, e) == [kind |-> kind, event |-> e, delivery |-> 0,
                  decision |-> 0, message |-> 0, says |-> None]
Failed(j) == [Line("webhook_handler_failed", j.event) EXCEPT !.delivery = j.delivery]

Messages == [contact : Contacts, body : Bodies,
             by : [event : Events, delivery : Nat, decision : Decisions, open : BOOLEAN]]

\* A PendingDraft; its inbound text is the event's.
Parked == [decision : Decisions, event : Events]

Record(lines) == ledger' = ledger \o lines
Goto(w, j)    == work' = [work EXCEPT ![w] = j]
Disturb(k)    == env[k] < Limit[k] /\ env' = [env EXCEPT ![k] = @ + 1]
Pc(w, l)      == work[w].pc = l

Init ==
  /\ durable \in Durability
  /\ seen = EmptyStore
  /\ spent = EmptyStore
  /\ decisions = 0
  /\ pending = EmptyStore
  /\ ledger = <<>>
  /\ messages = <<>>
  /\ optedOut = {}
  /\ open = TRUE
  /\ attempts = [e \in Events |-> 0]
  /\ work = [w \in Workers |-> Idle]
  /\ env = [k \in EnvKinds |-> 0]
-----------------------------------------------------------------------------
(* WebhookIntake.receive, up to the handler's first outside call.          *)

\* Nothing of the body is read, so nothing but the ledger line happens.
RejectForged(w) ==
  /\ Pc(w, "idle") /\ Disturb("forged")
  /\ Record(<<Line("webhook_rejected", None)>>)
  /\ UNCHANGED <<stores, decisions, pending, messages, optedOut, open, attempts, work>>

\* Every delivery carries a fresh delivery id.
NextAttempt(w, e) ==
  /\ Pc(w, "idle") /\ attempts[e] < MaxAttempts[e]
  /\ attempts' = [attempts EXCEPT ![e] = @ + 1]
  /\ UNCHANGED <<stores, decisions, pending, messages, optedOut, open>>

\* Mutant: dedupe on the delivery id, which every retry renews.
DedupeOnDelivery(e) == FALSE
\* Mutant: an event that was ever begun counts as done.
BegunIsDone(e) == attempts[e] > 0
IsDuplicate(e) == Remembers(seen, e)

\* The signature holds but the body does not parse: recorded, then raised.
ReceiveMalformed(w, e) ==
  /\ KindOf[e] = "malformed"
  /\ NextAttempt(w, e)
  /\ Record(<<[Line("webhook_malformed", None) EXCEPT !.delivery = attempts[e] + 1]>>)
  /\ UNCHANGED <<work, env>>

\* A durable store of seen keys raises on get: nothing is recorded.
LookupFails(w, e) ==
  /\ KindOf[e] # "malformed" /\ durable /\ Disturb("call_fails")
  /\ NextAttempt(w, e)
  /\ UNCHANGED <<ledger, work>>

ReceiveDuplicate(w, e) ==
  /\ KindOf[e] # "malformed" /\ IsDuplicate(e)
  /\ NextAttempt(w, e)
  /\ Record(<<[Line("webhook_duplicate", e) EXCEPT !.delivery = attempts[e] + 1]>>)
  /\ UNCHANGED <<work, env>>

\* The key is new: recorded, then Bridge.handle_event dispatches on the type.
ReceiveNew(w, e) ==
  LET j == [Idle EXCEPT !.event = e, !.delivery = attempts[e] + 1]
      received == [Line("webhook_received", e) EXCEPT !.delivery = j.delivery]
  IN  /\ ~IsDuplicate(e)
      /\ NextAttempt(w, e)
      /\ \/ /\ KindOf[e] = "poison"
            /\ Record(<<received, Failed(j)>>)
            /\ UNCHANGED work
         \/ /\ KindOf[e] = "ignored"
            /\ Record(<<received, Line("event_ignored", e)>>)
            /\ Goto(w, [j EXCEPT !.pc = "mark"])
         \/ /\ KindOf[e] = "inbound"
            /\ Record(<<received>>)
            /\ Goto(w, [j EXCEPT !.pc = "fetch"])
      /\ UNCHANGED env
-----------------------------------------------------------------------------
(* Bridge._handle_inbound.                                                 *)

\* get_contact: the gate will judge this snapshot, not the platform's state.
FetchContact(w) ==
  /\ Pc(w, "fetch")
  /\ Goto(w, [work[w] EXCEPT !.pc = "decide",
                             !.optedOut = ContactOf[work[w].event] \in optedOut])
  /\ UNCHANGED <<stores, decisions, pending, ledger, messages, optedOut, open, attempts, env>>

\* The three ways the handler leaves the gate, each after the two lines
\* "said" that record the draft and the decision.
Submit(w, d, said) ==
  /\ CanApproveAuto(d)
  /\ Record(said)
  /\ Goto(w, [work[w] EXCEPT !.pc = "check", !.decision = d])
  /\ UNCHANGED pending

\* Mutant: the event the draft answers is not kept with it.
ParkBare(w, d, said) ==
  /\ d.outcome = "draft_for_human"
  /\ pending' = SetKey(pending, d.id, [decision |-> d])
  /\ Record(said) /\ Goto(w, [work[w] EXCEPT !.pc = "mark"])

Park(w, d, said) ==
  /\ d.outcome = "draft_for_human"
  /\ pending' = SetKey(pending, d.id, [decision |-> d, event |-> work[w].event])
  /\ Record(said \o <<[Line("message_drafted", work[w].event) EXCEPT !.decision = d.id]>>)
  /\ Goto(w, [work[w] EXCEPT !.pc = "mark"])

Block(w, d, said) ==
  /\ d.outcome = "blocked"
  /\ Record(said \o <<[Line("message_blocked", work[w].event) EXCEPT !.decision = d.id]>>)
  /\ Goto(w, [work[w] EXCEPT !.pc = "mark"])
  /\ UNCHANGED pending

\* What the gate sees when the generator has answered with this body.
Reading(j, body) ==
  [optedOut |-> j.optedOut, intent |-> IntentOf[j.event],
   draft |-> [contact |-> ContactOf[j.event], body |-> body], open |-> open]

\* Mutant: the counter is not advanced.
SameId == 1
NextId == decisions + 1

\* The generator answers, the gate evaluates, the outcome is acted on.
Decide(w) ==
  /\ Pc(w, "decide")
  /\ decisions' = NextId
  /\ \E body \in Bodies :
       LET e    == work[w].event
           d    == Decision(NextId, Reading(work[w], body))
           said == <<Line("draft_generated", e),
                     [Line("gate_decision", e) EXCEPT !.decision = d.id, !.says = d.outcome]>>
       IN  \/ Submit(w, d, said)
           \/ Park(w, d, said)
           \/ Block(w, d, said)
  /\ UNCHANGED <<stores, messages, optedOut, open, attempts, env>>
-----------------------------------------------------------------------------
(* ApprovedSender.send: the checks, the port call, the spent store.        *)

\* An exception unwinds the handler into receive, which records it, or out of
\* release_draft, which does not.
FailureLines(j) == IF IsRelease(j) THEN <<>> ELSE <<Failed(j)>>

\* Mutant: receive does not raise it again, so it goes on to mark the key.
SwallowFailure(w) ==
  /\ Goto(w, IF IsRelease(work[w]) THEN Idle ELSE [work[w] EXCEPT !.pc = "mark"])
  /\ Record(FailureLines(work[w]))

Raise(w) == Goto(w, Idle) /\ Record(FailureLines(work[w]))

\* The three checks: an approval, for this content, not spent before.
GuardRefuses(approval, draft) ==
  \/ approval = None
  \/ approval.content # content_fingerprint(draft)
  \/ Remembers(spent, approval.decision)

Refused(j) == GuardRefuses(Approval(j.decision, ModeOf(j)), j.decision.reading.draft)

Breach(e) == Line("guard_breach", e)

\* The spent store has answered, and the port is called next.
GuardPasses(w) ==
  /\ Pc(w, "check") /\ ~Refused(work[w])
  /\ Goto(w, [work[w] EXCEPT !.pc = "send"])
  /\ UNCHANGED <<stores, decisions, pending, ledger, messages, optedOut, open, attempts, env>>

\* A breach is recorded and raised before the port is called; a draft on
\* release stays parked.
GuardStops(w) ==
  /\ Pc(w, "check") /\ Refused(work[w])
  /\ Goto(w, Idle)
  /\ Record(<<Breach(work[w].event)>> \o FailureLines(work[w]))
  /\ UNCHANGED <<stores, decisions, pending, messages, optedOut, open, attempts, env>>

\* What the platform now holds for the call of job j, and why.
Outbound(j) ==
  [contact |-> j.decision.reading.draft.contact, body |-> j.decision.reading.draft.body,
   by |-> [event |-> j.event, delivery |-> j.delivery, decision |-> j.decision, open |-> open]]

\* The platform refuses a contact that opted out after the snapshot.
SendRefused(w) ==
  /\ Pc(w, "send") /\ work[w].decision.reading.draft.contact \in optedOut
  /\ Raise(w)
  /\ UNCHANGED <<stores, decisions, pending, messages, optedOut, open, attempts, env>>

Send(w) ==
  /\ Pc(w, "send") /\ work[w].decision.reading.draft.contact \notin optedOut
  /\ messages' = Append(messages, Outbound(work[w]))
  /\ UNCHANGED <<stores, decisions, pending, optedOut, open, attempts>>

\* The reply arrives and names the message.
SendAccepted(w) ==
  /\ Send(w)
  /\ Goto(w, [work[w] EXCEPT !.pc = "spend", !.message = Len(messages) + 1])
  /\ UNCHANGED <<ledger, env>>

\* Mutant: the caller tries a failed send again under the same approval.
SendAgain(w) ==
  /\ Send(w) /\ Disturb("lost_reply") /\ UNCHANGED <<work, ledger>>

\* A timeout or a reset connection: the message is out, the caller is told
\* it failed.
SendReplyLost(w) ==
  /\ Send(w) /\ Disturb("lost_reply") /\ Raise(w)

\* The two writes to the KeyStores.
Spent(j)  == SetKey(spent, j.decision.id, j.message)
Marked(j) == SetKey(seen, j.event, j.delivery)

\* Mutant: a loop around the send that does not stop at success.
SpendAndRepeat(w) ==
  /\ Pc(w, "spend")
  /\ spent' = Spent(work[w])
  /\ Goto(w, [work[w] EXCEPT !.pc = "send"])
  /\ UNCHANGED <<durable, seen, decisions, pending, ledger, messages, optedOut, open, attempts, env>>

\* The approval is spent; a draft on release is still parked.
Spend(w) ==
  /\ Pc(w, "spend")
  /\ spent' = Spent(work[w])
  /\ Goto(w, [work[w] EXCEPT !.pc = "record"])
  /\ UNCHANGED <<durable, seen, decisions, pending, ledger, messages, optedOut, open, attempts, env>>

\* The store has returned: the send is recorded, a released draft taken off
\* the queue (by whichever of two releases comes first).
RecordSent(w) ==
  LET j == work[w] IN
  /\ Pc(w, "record")
  /\ Record(<<[Line("message_sent", j.event) EXCEPT
                 !.decision = j.decision.id, !.message = j.message, !.says = ModeOf(j)]>>)
  /\ IF IsRelease(j)
     THEN pending' = DropKey(pending, j.decision.id) /\ Goto(w, Idle)
     ELSE Goto(w, [j EXCEPT !.pc = "mark"]) /\ UNCHANGED pending
  /\ UNCHANGED <<stores, decisions, messages, optedOut, open, attempts, env>>

\* Mutant: the key is never marked.
MarkNothing(w) ==
  /\ Pc(w, "mark") /\ Goto(w, Idle)
  /\ UNCHANGED <<stores, decisions, pending, ledger, messages, optedOut, open, attempts, env>>

\* Only after the handler has returned is the event key marked seen.
MarkSeen(w) ==
  /\ Pc(w, "mark")
  /\ seen' = Marked(work[w])
  /\ Goto(w, Idle)
  /\ UNCHANGED <<durable, spent, decisions, pending, ledger, messages, optedOut, open, attempts, env>>
-----------------------------------------------------------------------------
(* A call raises without effect: get_contact, the generator, the get of a  *)
(* durable store, or the send (a refused token, a spent retry budget, a    *)
(* connection never made).                                                 *)
CallFails(w) ==
  /\ \/ work[w].pc \in {"fetch", "decide", "send"}
     \/ Pc(w, "check") /\ durable
  /\ Disturb("call_fails")
  /\ Raise(w)
  /\ UNCHANGED <<stores, decisions, pending, messages, optedOut, open, attempts>>

\* A durable store raises on set, and may have stored the key all the same.
\* In send that fails the handler; in receive it is past the handler, so no
\* line records it.
StoreFails(w) ==
  /\ durable /\ Disturb("store_fails")
  /\ \/ /\ Pc(w, "spend") /\ Raise(w)
        /\ spent' \in {spent, Spent(work[w])} /\ UNCHANGED seen
     \/ /\ Pc(w, "mark") /\ Goto(w, Idle)
        /\ seen' \in {seen, Marked(work[w])} /\ UNCHANGED <<spent, ledger>>
  /\ UNCHANGED <<durable, decisions, pending, messages, optedOut, open, attempts>>
-----------------------------------------------------------------------------
(* Bridge.release_draft, up to the guard's look at the spent store.        *)

OnRelease(p) == [Idle EXCEPT !.pc = "check", !.event = p.event, !.decision = p.decision]

\* Mutant: the draft is taken off the queue before it is sent.
TakeAndRelease(w, id) ==
  /\ Pc(w, "idle") /\ Disturb("release")
  /\ CanApproveHuman(pending[id].decision)
  /\ Goto(w, OnRelease(pending[id]))
  /\ pending' = DropKey(pending, id)
  /\ UNCHANGED <<stores, decisions, ledger, messages, optedOut, open, attempts>>

ReleaseDraft(w, id) ==
  /\ Pc(w, "idle") /\ Disturb("release")
  /\ CanApproveHuman(pending[id].decision)
  /\ Goto(w, OnRelease(pending[id]))
  /\ UNCHANGED <<stores, decisions, pending, ledger, messages, optedOut, open, attempts>>
-----------------------------------------------------------------------------
(* The surroundings.                                                       *)
ChangeOptOut(c) ==
  /\ Disturb("opt_change")
  /\ optedOut' = IF c \in optedOut THEN optedOut \ {c} ELSE optedOut \cup {c}
  /\ UNCHANGED <<stores, decisions, pending, ledger, messages, open, attempts, work>>

OpenOrClose ==
  /\ open' = ~open
  /\ UNCHANGED <<stores, decisions, pending, ledger, messages, optedOut, attempts, work, env>>

\* A restart forgets everything the process held: the calls in progress,
\* the parked drafts, the ledger, the id counter, and the two key stores
\* unless durable ones were injected.
Crash ==
  /\ Disturb("crash")
  /\ work' = [w \in Workers |-> Idle]
  /\ pending' = EmptyStore
  /\ ledger' = <<>>
  /\ decisions' = 0
  /\ seen' = IF durable THEN seen ELSE EmptyStore
  /\ spent' = IF durable THEN spent ELSE EmptyStore
  /\ UNCHANGED <<durable, messages, optedOut, open, attempts>>

Receive(w, e) == ReceiveMalformed(w, e) \/ ReceiveDuplicate(w, e) \/ ReceiveNew(w, e)

\* What a worker in the middle of a call does next when nothing goes wrong.
Continue(w) ==
  \/ FetchContact(w) \/ Decide(w)
  \/ GuardPasses(w) \/ GuardStops(w)
  \/ SendRefused(w) \/ SendAccepted(w)
  \/ Spend(w) \/ RecordSent(w) \/ MarkSeen(w)

Next ==
  \/ \E w \in Workers :
       \/ RejectForged(w)
       \/ \E e \in Events : Receive(w, e) \/ LookupFails(w, e)
       \/ Continue(w)
       \/ SendReplyLost(w) \/ CallFails(w) \/ StoreFails(w)
       \/ \E id \in DOMAIN pending : ReleaseDraft(w, id)
  \/ \E c \in Contacts : ChangeOptOut(c)
  \/ OpenOrClose
  \/ Crash

Spec == Init /\ [][Next]_vars

\* The host runs the calls it has accepted, and the webhook sender delivers
\* an event until a delivery of it is answered with success.
Fairness ==
  /\ \A w \in Workers : WF_vars(Continue(w))
  /\ \A e \in Events  : WF_vars(\E w \in Workers : Receive(w, e))

FairSpec == Spec /\ Fairness
=============================================================================
