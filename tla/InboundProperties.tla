------------------------- MODULE InboundProperties -------------------------
(***************************************************************************)
(* What the reply path promises, stated over InboundLane.                  *)
(***************************************************************************)
EXTENDS InboundLane, FiniteSets

\* Every variable holds the kind of value the code keeps there.
TypeOK ==
  /\ durable \in BOOLEAN
  /\ DOMAIN seen \subseteq Events /\ seen \in [DOMAIN seen -> Nat]
  /\ DOMAIN spent \subseteq Nat   /\ spent \in [DOMAIN spent -> Nat]
  /\ decisions \in Nat
  /\ DOMAIN pending \subseteq Nat /\ pending \in [DOMAIN pending -> Parked]
  /\ ledger \in Seq(Lines)
  /\ messages \in Seq(Messages)
  /\ optedOut \subseteq Contacts
  /\ open \in BOOLEAN
  /\ attempts \in [Events -> Nat]
  /\ work \in [Workers -> Jobs]
  /\ env \in [EnvKinds -> Nat]
-----------------------------------------------------------------------------
(* The gate (policy.py, guard.py).                                         *)

AllPoliciesPass(r) == FailedBlocks(r) = {} /\ FailedDrafts(r) = {}

\* A message the gate's decision d justifies: same person, same text, a
\* decision about the event it answers, never a blocked one, and, when no
\* human released it, one where every policy passed.
Justified(m) ==
  LET d == m.by.decision IN
  /\ m.contact = d.reading.draft.contact
  /\ m.body = d.reading.draft.body
  /\ m.contact = ContactOf[m.by.event]
  /\ d.reading.intent = IntentOf[m.by.event]
  /\ FailedBlocks(d.reading) = {}
  /\ IsRelease(m.by) \/ AllPoliciesPass(d.reading)

\* Whatever fails, retries, restarts or overlaps, every message on the
\* platform is one the gate or a named person approved with this content,
\* and a reply to STOP, a blank draft or a request for payment details is
\* on no path at all ("every other outcome is named", policy.py).
EveryMessageWasApproved ==
  \A i \in 1..Len(messages) : Justified(messages[i])

\* An automatic reply leaves inside business hours.  The gate judges the
\* hours when it decides; the send can be much later.
AutoRepliesLeaveInHours ==
  \A i \in 1..Len(messages) : IsRelease(messages[i].by) \/ messages[i].by.open
-----------------------------------------------------------------------------
(* Retries (webhook.py, guard.py).                                         *)

\* What can hide from the process that a reply has left: a restart, a send
\* whose reply was lost, a key store that failed to keep a key or to say so.
Faults == env["crash"] + env["lost_reply"] + env["store_fails"]

RepliesTo(e) == {i \in 1..Len(messages) : messages[i].by.event = e}

\* With one thread a retry is free of effect: an event has no more replies
\* than one and one for every fault.
ExtraRepliesArePaidFor ==
  \A e \in Events : Cardinality(RepliesTo(e)) <= 1 + Faults

AutoReplies(e) == {i \in RepliesTo(e) : ~IsRelease(messages[i].by)}

\* With one thread the reply path is an EffectOnce: the automatic reply is
\* the effect, a seen key is an event done, and restarts, lost replies and
\* failing stores are the faults.  A released draft is its person's doing.
Once == INSTANCE EffectOnce WITH
  done    <- DOMAIN seen,
  effects <- [e \in Events |-> Cardinality(AutoReplies(e))],
  faults  <- Faults

RepliesOnce == Once!Spec

ReleasesOf(d) ==
  {i \in 1..Len(messages) : IsRelease(messages[i].by) /\ messages[i].by.decision = d}

\* The stores have no locks, so overlapping calls repeat each other.  But
\* without a fault nothing else repeats: an event has no more automatic
\* replies, and a draft no more releases, than the host has threads.
RepeatsNeedOverlap ==
  Faults = 0 =>
    /\ \A e \in Events : Cardinality(AutoReplies(e)) <= Cardinality(Workers)
    /\ \A i \in 1..Len(messages) : IsRelease(messages[i].by) =>
         Cardinality(ReleasesOf(messages[i].by.decision)) <= Cardinality(Workers)

\* One delivery of an event sends at most one message by itself, even when
\* deliveries overlap or a send fails: a second message takes a redelivery.
OneAutoReplyPerDelivery ==
  \A i, k \in 1..Len(messages) :
    i # k /\ ~IsRelease(messages[i].by) =>
      <<messages[i].by.event, messages[i].by.delivery>>
        # <<messages[k].by.event, messages[k].by.delivery>>

\* The duplicate answer names the first delivery: a seen key is never given
\* to a later delivery, and only a restart of volatile stores forgets it.
FirstDeliveryStands ==
  [][\A e \in DOMAIN seen :
       \/ e \in DOMAIN seen' /\ seen'[e] = seen[e]
       \/ ~durable /\ env'["crash"] > env["crash"]]_vars

Settling == {"event_ignored", "message_drafted", "message_blocked"}
Settles(line) ==
  line.kind \in Settling \/ (line.kind = "message_sent" /\ line.says = "auto")

\* A key is marked seen only for a delivery whose handler completed: where
\* the ledger still holds that delivery, the line of its effect follows it
\* and no line says that it failed.
SeenMeansSettled ==
  \A e \in DOMAIN seen : \A i \in 1..Len(ledger) :
    /\ ledger[i].event = e
    /\ ledger[i].delivery = seen[e]
    => /\ ledger[i].kind # "webhook_handler_failed"
       /\ ledger[i].kind = "webhook_received" =>
            \E k \in i..Len(ledger) : ledger[k].event = e /\ Settles(ledger[k])

\* Every event the bridge can handle is in the end marked seen, however the
\* bounded failures fall: a failed handler leaves the key open to a retry.
EveryEventIsSettled ==
  \A e \in Events : KindOf[e] \in {"inbound", "ignored"} => <>Remembers(seen, e)
-----------------------------------------------------------------------------
(* Parked drafts (bridge.py).                                              *)

\* Short of a restart, a parked draft leaves the queue only when a message
\* with exactly its content is on the platform and its approval is spent.
DraftLeavesBySending ==
  [][\A id \in DOMAIN pending :
       id \in DOMAIN pending' => pending'[id] = pending[id]]_vars
  /\ [][\A id \in DOMAIN pending \ DOMAIN pending' :
          \/ env'["crash"] > env["crash"]
          \/ /\ Remembers(spent', id)
             /\ LET m == messages[spent'[id]] IN
                /\ <<m.contact, m.body>> = content_fingerprint(pending[id].decision.reading.draft)
                /\ m.by.event = pending[id].event]_vars

\* Somebody has the question, or it needs nobody: a message answers it, a
\* draft of it is parked, or the gate blocked every answer.
Attended(e) ==
  \/ RepliesTo(e) # {}
  \/ \E id \in DOMAIN pending : pending[id].event = e
  \/ \E i \in 1..Len(ledger) : ledger[i].kind = "message_blocked" /\ ledger[i].event = e

Dropped(e) == Remembers(seen, e) /\ ~Attended(e)

\* A question the sender will not ask again (its key is seen) is attended to,
\* through every failure and release; only a restart loses it, for parked
\* drafts live in memory while the key may be durable.
NoQuestionIsDropped ==
  [][\A e \in Events : KindOf[e] = "inbound" /\ Dropped(e)' =>
       Dropped(e) \/ env'["crash"] > env["crash"]]_vars
-----------------------------------------------------------------------------
(* The guard and the ledger (guard.py, ledger.py).                         *)

Breaches == {i \in 1..Len(ledger) : ledger[i].kind = "guard_breach"}

\* The bridge only sends what the gate stamped, so the guard never fires.
GuardNeverFires == Breaches = {}

Sent(d) == \E i \in 1..Len(messages) : messages[i].by.decision = d

\* Within one life of the process the guard stops nothing but a repeat: what
\* it refuses is the release of a draft that is out already, as it was
\* decided, and that is tried only when releases overlap or when the store
\* raised after it had kept the id.  After a restart with a durable store it
\* may stop anything, because the ids start again from one.
GuardStopsOnlyRepeats ==
  [][Breaches' \ Breaches # {} =>
       \/ durable /\ env["crash"] > 0
       \/ \E w \in Workers :
            /\ work'[w] # work[w]
            /\ IsRelease(work[w]) /\ Sent(work[w].decision)
            /\ env["store_fails"] > 0 \/ Workers # {w}]_vars

\* explain_message: the lines that share the key of the first line naming
\* message n.
Explains(n, i) ==
  \E k \in 1..Len(ledger) :
    /\ ledger[k].message = n /\ ledger[k].event = ledger[i].event
    /\ \A h \in 1..(k - 1) : ledger[h].message # n

\* For every message the ledger names, explain_message tells the whole story
\* in order: received, drafted, judged, and sent under the decision judged,
\* with the mode that decision allows.
LedgerTellsTheStory ==
  \A s \in 1..Len(ledger) : ledger[s].kind = "message_sent" =>
    \E r \in 1..s : /\ ledger[r].kind = "webhook_received"
      /\ \E d \in r..s : /\ ledger[d].kind = "draft_generated"
         /\ \E g \in d..s :
              /\ ledger[g].kind = "gate_decision"
              /\ ledger[g].decision = ledger[s].decision
              /\ ledger[g].says = IF ledger[s].says = "auto" THEN "auto_send" ELSE "draft_for_human"
              /\ \A i \in {r, d, g, s} : Explains(ledger[s].message, i)
=============================================================================
