# ghl-bridge, specified

TLA+ specifications of `src/ghl_bridge`: the bridge between one GoHighLevel
location's webhooks and what is done about them.  TLC checks the modules on
small instances, TLAPS proves safety properties for all of them.

    tlc -workers 2 -config InboundRetry.cfg MCInbound.tla
    tlapm InboundProofs.tla

Line numbers are those of `src/src/ghl_bridge/`.

## 1. The system

| part | state | operations | talks to |
| --- | --- | --- | --- |
| `webhook.WebhookIntake` | seen keys (a `KeyStore`) | `receive` | ledger, bridge |
| `bridge.Bridge` | parked drafts | `handle_event`, `release_draft` | deduper, gate, sender, port, generator, ledger |
| `policy.PolicyGate` | decision counter | `evaluate`, `approval_for`; `approve_draft` | clock |
| `guard.ApprovedSender` | spent decision ids (a `KeyStore`) | `send` | port, ledger |
| `dedupe.ContactDeduper` | none | `resolve` | port, ledger |
| `identity` | none | `normalise_email`, `normalise_phone` | - |
| `ratelimit.LocationPacer`, `PacedCaller`, `PacedPort` | recent calls, the day and its count | `wait_before_call`, `record_call`, `call` | clock, sleeper, port, ledger |
| `ledger.AuditLedger` | the records | `record`, `explain_message` | - |
| `store.KeyStore` | keys and values, volatile or durable | `get`, `set` | - |
| `fakes.FakeHighLevel` | by location: contacts and two indexes, pipelines, opportunities, conversations, calendars, appointments, registrations, a rate record | the port; seeding | clock |
| `live.LiveHighLevel` | none (one location, one transport) | the port over HTTP | the platform |
| `models`, `clock`, `ports` | none | validation, `BusinessHours.contains` | - |

Everything is synchronous: `receive` runs the whole handler on the caller's
thread, and every arrow is a call.  What makes it hard lies around the calls:

* the webhook's sender delivers an event again, under a fresh delivery id,
  until a delivery is answered with success;
* a call of the platform may fail, may have taken effect and still fail
  (the reply is lost), and may wait for hours in the pacer;
* the process may stop between any two calls and forget its memory, while the
  platform, the sender and durable stores remember;
* people release drafts, opt out and edit contacts meanwhile, a host may call
  from several threads, another client may use the same token.

What must be right: nothing leaves unapproved (gate, guard); a retry has no
second effect (intake, stores); a failed effect is retried and never marked
done (intake); a parked draft leaves by being sent; one contact per key and
each deal under its person (deduper); the limits are met and every wait ends
(pacer); a token reaches its own location only, and the workspace's records
stay consistent (platform, port); two texts share a key only if they are one
identifier (identity); the ledger's story is the true one.  `PROJECT.json` lists the hazards
one by one, at their lines.

## 2. The modules

| module | models |
| --- | --- |
| `KeyStore` | `get`/`set` of `store.py` on finite functions |
| `EffectOnce` | what `WebhookIntake` promises its sender, abstractly: events done, effects run, faults |
| `PolicyGate` | the eight policies, outcome, approvals, `content_fingerprint` |
| `InboundLane` | `receive`, `_handle_inbound`, `send`, `release_draft`, and the surroundings; EXTENDS `KeyStore` and `PolicyGate` |
| `InboundProperties` | what the reply path promises; maps it to `EffectOnce` |
| `LeadLane` | `receive`, `_handle_new_lead`, `resolve`, the platform's contact store; its properties; maps it to `EffectOnce` |
| `Pacing` | pacer, paced caller and the platform's limiter, in time; its properties |
| `Workspace` | the port's twelve operations in the fake and in the live adapter, the seeding methods, the records of all locations; its properties |
| `Keys` | `normalise_email`, `normalise_phone`, `event_key` over characters; their properties |
| `MCInbound`, `MCLeads`, `MCPacing`, `MCWorkspace`, `MCKeys` | instances for TLC |
| `InboundProofs`, `InboundHistory`, `InboundOverlaps`, `InboundRefinement` | proofs of the reply path: types and approvals; what its records say of the past; how often overlapping calls repeat each other; that it implements `EffectOnce` |
| `LeadProofs` | proofs of the lead path; that it implements `EffectOnce` |
| `WorkspaceProofs`, `PacingProofs`, `KeysProofs` | proofs of the modules they are named for |

**Where steps end.**  A step of `InboundLane` and `LeadLane` runs from one call
out of the process to the next, and a durable key store is outside too.  In
`InboundLane`: up to `get_contact` (`Receive`), to the generator's answer
(`FetchContact`), through `evaluate` to the spent store's `get` (`Decide`,
`ReleaseDraft`), its answer (`GuardPasses`, `GuardStops`), the platform's effect
(`SendAccepted`, `SendRefused`, `SendReplyLost`), the spent store's `set`
(`Spend`), the ledger line and the end of `release_draft` (`RecordSent`), the
seen store's `set` (`MarkSeen`).  Between them anything else may happen; only in
`Receive` are the `get` of the seen store and the lines that record its answer
one step.  Ledger lines are written in the step that reaches them, in the code's
order; the exception paths (`Raise`, `GuardStops`, `ReceiveMalformed`) write the
line the code's `except` writes.

**Stores.**  Both stores of `InboundLane`, and the one of `LeadLane`, are either
volatile (`InMemoryKeyStore`, gone with the process, never failing) or durable.
A durable one may raise on `get` (`LookupFails`, `CallFails`) and on `set`, and
then may have kept the key or not (`StoreFails`).

**Texts.**  A draft is the set of the marks the policies look for (blank,
payment, commitment, long), an inbound text its intent.  The regular
expressions that find them are not modelled.  Contact, event and delivery ids
are model values and numbers; the hash of `content_fingerprint` is taken as
collision free.  `Keys` alone looks at characters: a text is what somebody has
typed so far, and the keys are functions of it.

**Ids.**  Decision ids are the counter's numbers, so they repeat after a
restart exactly when the code's do.  Each message on the platform carries, in
`by`, the decision and delivery it left for: a history variable for the
properties, which no guard reads.

**Time.**  `InboundLane` only knows whether the location is open, which may
change between any two steps.  `Pacing` counts ticks; a call that is due runs
before the clock moves.

**Keys.**  In `LeadLane` two raw forms of one address are one model value;
`Bad` is a value the normaliser refuses.  Stored fields and indexes are
separate, as in the fake, so a replaced phone keeps its index entry.

**One promise, two ways.**  `WebhookIntake` says that a completed effect never
runs twice.  Without transactions that cannot be had, and `EffectOnce` says
what can: an effect runs again only while there have been at least as many
faults as runs of it.  (It counts faults, whatever they hid: one fault allows one
more run of every event.)  Its `effects` are the messages sent on their own in
`InboundLane` and the opportunities in `LeadLane`; its `done` are the seen keys;
its `faults` the restarts, the lost replies and the stores that raised on `set`.

**The workspace.**  A call is one step of `Workspace`: the scope is looked at,
then the quota, then the operation runs (`_ScopedPort._state`), and `last`
keeps its answer.  The live port has no scope check of its own
(`LiveHighLevel._send`): the platform behind it is taken to answer 403 when a
request names a location that is not the token's, and to act in the token's
own when the request names none.  `CarriesLocation` is the list of requests
that do (`live/mapping.py`, the `plan_` functions).  Contacts there have one
key, since the two keys are `LeadLane`'s matter; ids come from one counter.

## 3. The runs

| run | question | instance |
| --- | --- | --- |
| `InboundRetry` | one life of the process, durable stores that work | five events, one of each kind and a STOP; the question delivered twice; one release, one opt change, one failing call |
| `InboundFaults` | failures and restarts | one event; volatile and durable stores; one restart, one lost reply, one store that raises on `set`, two releases; six deliveries |
| `InboundOverlap` | two threads | one event delivered three times, three releases, a forged delivery; symmetric workers |
| `LeadsFiled` | keys that cross, failures and restarts | three leads over two emails and two phones; volatile and durable stores; one lost reply, one store that raises on `set`, one restart; four deliveries |
| `LeadsOverlap` | search-to-upsert races | two threads, another writer, two leads that share an email, one that nothing can be made of; one failing call, one lost reply |
| `PacingWaits` | waits and refusals | two calls per three ticks, three per five-tick day; five calls, two of another client, one restart |
| `WorkspaceCalls` | what a token can reach and leave behind | two locations, one equipped; a token for it, fake or live; one person, pipeline, calendar, two stages, three slots that overlap; four writes |
| `KeysTyped` | texts and keys | emails of six characters over seven, phones of seven over six; three plans and no region; all pairs of 432 events |

What they show:

* `EveryMessageWasApproved`: each message is one the gate passed entirely, or
  one a person released that no block policy refuses; right contact, right
  text, right event.  It survives restarts, id reuse and overlap.
* `RepliesOnce`, `FiledAtMostOnce`: with one thread, replying and filing are
  each an `EffectOnce`, step by step.  `ExtraRepliesArePaidFor` counts the
  same for one life of the process and all kinds of event: retries are free of
  effect.  `OneAutoReplyPerDelivery`: no delivery repeats its own send.
* `SeenMeansSettled`, `FirstDeliveryStands`, `EveryEventIsSettled`: a key is
  marked only for a handler that completed, is never given to a later
  delivery, and every event the bridge can handle is marked in the end.
* `DraftLeavesBySending`: short of a restart a parked draft never changes and
  leaves only when exactly it was sent.  `NoQuestionIsDropped`: an event that
  is marked without a reply, a refusal or a parked draft has been through a
  restart.
* `GuardStopsOnlyRepeats`: within one life of the process the guard stops
  nothing but a release of a draft that has left already; for one thread that
  takes a spent store that raised although it kept the id.
* `RepeatsNeedOverlap`: overlapping calls do repeat each other, since no store
  holds its `get` and `set` together.  But without faults an event has no more
  replies of its own, and a draft no more releases, than the host has threads.
* `LedgerTellsTheStory`: `explain_message` on any recorded message returns
  receipt, draft, decision and send, in order and about one decision.
* `NoTwinContacts`, `FiledUnderThePerson`, `LedgerNamesThePerson`: emails are
  unique and keep their owner against any writer; phones, and the ledger's
  merges by phone, only while the bridge is the only writer.
  `ReviewFilesNothing`: a retry never sends to review what it filed before.
* `RefusalsHaveAReason`, `ExhaustedOnlyInCompany`,
  `PacerCountsAtLeastTheServer`, `CallsEnd`: the pacer alone, if calls arrive
  at once, is refused only after a midnight sleep or a restart; two retries
  outlast that; no wait is without end.
  With `MaxRetries` 1 a lone client can exhaust the budget after a restart
  near midnight.
* `TokensStayInTheirLocation`: no call of a token, whoever it names and over
  either port, changes, shows or charges another location.
* `RecordsNameTheirOwn`, `NothingFiledOffTheLadder`, `NoDoubleBooking`,
  `OptOutHolds`: ids of other locations, stale stage maps, overlapping slots
  and merges of an opted-out contact, in any order with people's changes.
* `KeysSurviveASecondReading`: a key is a fixed point of its normaliser in any
  region, so the deduper's search and the platform's upsert agree.
  `KeysAreTheOnlyReading`: a text gets a key exactly if it can be read as one
  identifier, against a definition that asks which numbers a text writes
  rather than how to parse it.  `EventKeyTellsFactsApart`.

### What the code does not keep

Four runs end in a violation of something the repository says of itself.

* `GuardAfterRestart`: decision ids start again at one while the spent store is
  durable, as the RUNBOOK asks; the guard then refuses correct sends.
* `LeadFiledTwice`: `create_opportunity` is not safe to re-run after a restart
  or a lost reply; neither is the reply (`RepliesOnce` tells when it is sent
  again).
* `AutoReplyAfterHours`: the hours are judged before the wait, not at the send.
* `PacingMidnight`: the daily wait skips the look at the burst window.

Known beside these, and excepted in the properties:

* parked drafts die with the process although the event stays marked;
* overlapping deliveries or releases send twice, though not more often than
  there are threads;
* a draft whose id the spent store kept while it raised stays parked for good:
  it has been sent, and every later release of it is refused;
* with network latency between `record_call` and the platform's charge the
  sliding window no longer protects the fixed one (set `Latencies` to `{0, 1}`
  in `PacingWaits`, and `RefusalsHaveAReason` fails);
* `ports.py:134-137` wants every implementation to refuse a foreign location;
  the live port leaves that to the platform, and five requests do not carry the
  location, so such a call is answered "ok" out of the token's own;
* a calendar that offers overlapping slots can be double-booked;
* `event_key` can confuse two facts if a type, location or time has a bar in
  it, against `webhook.py:83-84`;
* a trunk zero is kept where the count of digits hides it ("0" and nine digits
  in a region of ten, "+44 (0)20..."), so one line may have two keys.

### Bounds

`Limit`, `MaxAttempts`, `MaxCalls`, `MaxOthers`, `MaxRestarts` and `Horizon`
bound what the surroundings do; nothing in the code's part is bounded.  Each
fault happens once: the properties that count them (`... <= 1 + ...`)
would already break at one if the code lost a second fact.  `MaxAttempts` is
chosen so that the retries outlast the failures: in the runs of one thread one
delivery per failure and one more, and in `InboundFaults` two beside, because
after a restart the guard may refuse a delivery once for every id spent before
(with five deliveries liveness fails, for want of a sixth).  Two releases let
one meet the id that a raising store has kept.  Two contents per draft (three
in `InboundFaults`, one in `InboundOverlap`, where closing parks it) reach all
three outcomes.  Two threads are enough for a pair to race, and three deliveries
and three releases are one more than can overlap, so that `RepeatsNeedOverlap`
has something to exclude.  `LeadsFiled` does without calls that fail and change
nothing: what such a call leaves is what the lost reply of the call before it
leaves; `LeadsOverlap` has them.  Three
leads are the least whose keys can conflict.  In `Pacing` the limits are small
so that burst window, day and horizon cross at all alignments: nine ticks hold
a whole day, its midnight and the next window.  The run has one caller whose
calls arrive at once; section 4 says which properties need that.

`Workspace` is bounded by `MaxWrites` = 4: the longest story a property needs
is a contact, a slot, a booking and one more of each of the last two, or a
contact, a deal, a new pipeline and a move.  `Quota` 1 lets every second call
meet the limit.  A second token would only add calls that the first can make
too.  `Keys` scales the numbering plans to two national digits and E.164 to
three to five, so that all boundaries (trunk zero, country code, mobile nine,
`00`, too short, too long) lie within seven characters; country codes begin
no other, as in `identity.py`.  `PlanAssumption` is what the properties need of
the real plans, and those satisfy it.

Every run is checked for deadlock too.  `Rest`, in `Pacing` and `LeadLane`, is
the stuttering step of an instance whose bounded surroundings have nothing
left to do; in `InboundLane` the clock always moves.

### Fairness

`EveryEventIsSettled` and `EveryLeadIsSettled` assume weak fairness of each
worker's next step (a synchronous host runs the call it accepted) and of each
event's delivery (the sender retries until answered).  Failures, people and
the clock are not fair: they may or may not happen.  `CallsEnd` assumes that
time passes and that the platform answers.

## 4. The proofs

All theorems hold for every value of the constants that satisfies the named
assumptions (`EventAssumption`, `LeadAssumption`, ... in the module that declares the
constants).  None of them bounds the number of events, locations or steps; those
that need a single thread, a finite number of them, or calls that arrive at once, have
that as a hypothesis of their own (`OneThread`, `Alone`, `FiniteHost`, `AtOnce`).

**The reply path** (`InboundProofs`): `TypeCorrect`, and `ApprovedOnly`, which
is `Spec => []EveryMessageWasApproved`.  The property is not inductive: it
speaks of messages already sent, while a step that sends knows only what the
worker holds, which for a release came from the queue of parked drafts.
`IInv` carries the decision the whole way: `WorkOK` (from the send on, a worker
holds a decision of the gate about its own event, fit for the mode it is sent
under), `PendingOK` (each parked draft is a decision of the gate that is not
blocked, about the event it is parked with), the types, and the property.
`DecideOK` is the heart, where the outcome computed from the reading becomes
what the worker or the queue carries; `SendOK` spends it.  A restart keeps
`IInv` because it empties both carriers together.  Nothing in it rests on ids
being fresh, which is why the property survives their reuse.

**The lead path** (`LeadProofs`): `LeadsTyped`, `OneContactPerKey`,
`DealsStayWithTheirPerson`, `LedgerIsTrue`, `ReviewedIsNotFiled`.  They share
one invariant, `Inv`.  Its centre is that a key, once it leads to a contact,
leads to it for good (`StoreKeepsEmails`, `StoreKeepsPhones`): for emails
because `_store_contact` looks at them first; for phones because the deduper
has compared the two hits, so `Inv` must say of every worker what its hits
still mean (`HitsStand`), which holds only while nobody else writes.  From
there a worker's contact stays the owner of its lead's keys (`ContactStands`)
until the deal is filed.  `ReviewsOK` adds that a reviewed lead is
unusable as it came or that its two keys lead to two contacts (`KeysDiffer`); as
keys lead to theirs for good, no retry can file it, whether or not its mark was
kept.

**The past of a reply** (`InboundHistory`).  Six properties relate a record to
what led to it, with any number of threads; each needs that what is still under
way has not been recorded before.  `Numbered` comes first, the other invariants
are built on it.

* `Numbered`: a decision id is given once in a life of the process, so a
  parked or held id is not above the counter and belongs to one decision; two
  calls under one id are two releases of one draft; a call past its send knows a
  message that carries its decision.  From it `DraftsLeaveBySending`: the id
  under which a release clears the queue still parks the same draft, and is
  spent for a message with exactly its content.
* `SpentAreSent` and `Tidy`: short of a restart with a durable store, a spent id
  that is still parked, or about to be checked, is that of a draft already sent;
  and a single thread whose store never failed has none but the one it is about
  to record.  From them `GuardOnlyStopsRepeats`.
* `Delivered`: nothing is recorded of a delivery that is still to come, and no
  two workers have the same one.  From it `OneReplyPerDelivery` and
  `SeenIsSettled`: up to its send a delivery has no message, and up to its mark
  no failure in the ledger.
* `Storied`: whoever holds a decision finds receipt, draft and decision in the
  ledger, in order (`Told`), and so does each parked draft; lines are only
  added, so a story stays told.  From it `LedgerTellsStories`.
* `MarksAttended`: whoever is about to mark a question has seen to it.  From it
  `NoQuestionDropped`.

**Overlaps** (`InboundOverlaps`).  `RepeatsTakeThreads` is `RepeatsNeedOverlap`
for any finite number of threads (`FiniteHost`).  Its invariant `Crowded` says
of a message whose purpose, to answer an event or to release a draft, is not
done yet that it is still with the call that sent it; so as long as calls can
be added, the messages and the calls on their way to a send sit on different
threads (`EachWithOne`), and once the purpose is done none is added
(`CalmStep`, `SendStep`).  A fault is exactly what parts a message from its call.

**One effect** (`LeadProofs`, `InboundRefinement`):
`FilingIsAnEffectOnce` shows that with one thread `LeadLane` implements it: an
invariant (`DealsCounted`) says that a lead has no more deals than faults, and
one more only if it is seen or about to be marked; then each action is a quiet
step (`QuietStepMaps`, a stutter or a fault), a filing (`FilingStep`) or a
marking (`MarkingStep`).  `RepliesAreAnEffectOnce` is the same of the reply
path, and `RepliesArePaidFor` of all its replies, released ones included.
There `RepliesCounted` is the invariant: it counts what was sent together with
what is parked and may still be sent, since a release is no delivery that an
intake could refuse.  `FirstDeliveriesStand` follows from `OneAtWork`: an
event at work is not seen yet.  All four have the hypothesis that there is one
thread, and are false without it: overlapping deliveries of one event both
pass as new, and both have their effect.

**The workspace** (`WorkspaceProofs`): `WorkspaceTyped` (the quota is never
exceeded), `OwnRecordsOnly`, `NoStartBookedTwice`, which needs, beside
itself, that every booked slot is one the calendar offers and that offers
only grow; `StagesAreChecked`, `TokensStayHome` (`CallStaysHome`, operation by operation)
and `OptOutIsRespected`, of single steps under the same invariant.

**The rate discipline** (`PacingProofs`).  `PacingTyped` contains the
platform's own limits.  It needs the pacer's calls in time order, because only
then is a window cut off from the left the set of the recent calls
(`ExpiredArePrefix`).  The other three theorems say under which hypotheses the
pacer works.

* `PacerIsConservative`: the pacer counts a call before the platform charges
  it.  The invariant compares the two counts with the calls in flight between
  them; the number of callers is any finite one, but calls must arrive in the
  tick they leave (`AtOnce`), or one recorded before midnight is charged after.
* `TwoRetriesSuffice`, for one caller (`Alone`) and any latency: `Patient`
  says of a caller that was refused once that the day has room when it tries
  again, of one refused twice that the window is over by then too.
* `RefusedForAReason`, for one caller and `AtOnce`: `Paced` says that the calls
  of the pacer are spread (any `BurstLimit` + 1 of them take a window at
  least), and that those the platform has charged in its window are the last
  ones of the pacer, all of them in that window.  A fixed window that is full
  thus shows the sliding one full, which is what ratelimit.py:6-9 says.

`Alone` and `AtOnce` are not there for the proof: two threads that slept for
the same window leave together when it ends, without another look, so that two
can be refused and four exhaust a budget (TLC shows both); and with latency the
two windows slide apart (section 3).

**The keys** (`KeysProofs`): the states of `Keys` are inputs, so an invariant
of it is a fact about all texts and events, of any length; only `Typed` (texts
are sequences of characters) is carried along.

* `KeysSurvive`: an email key is an address with nothing to trim or to fold;
  a phone key is the plus and the digits of a full number, and is read as such
  before a region is asked (`KeyIsReadAsItself`).
* `KeysAreReadings`: for emails that the tests of `normalise_email` hold of
  addresses exactly (`KeyOfEmail`).  For phones, what a text writes is what it
  is read as (`WhatIsWrittenIsRead`) and the other way round
  (`WhatIsReadIsWritten`).  At home that comes down to whether the lengths of
  two ways to write a number can be confused, which is where `PlanAssumption`
  enters: a mobile number with its nine could be taken for a national number
  with a code of one digit, or for one with a trunk zero.
* `EventKeysTellFactsApart`: the first two bars and the last one divide the
  material, wherever the resource has more of them.

The proofs take characters for strings (`TextAssumption`).  `Numeral` is
defined by rank (the k-th digit of a text) and `Trimmed` by the first and last
position that is kept, as no fold can be reasoned about here.

Model-checked only: the liveness properties (`EveryEventIsSettled`,
`EveryLeadIsSettled`, `CallsEnd`), since the prover has no fairness.  Every
other property of a run that passes is a theorem.  The properties of the four
runs that do not pass are false.

## 5. Not modelled

The wire formats of `live`, their parsing and the reading of its rate-limit headers; the comparison of
clock times in `BusinessHours.contains` and time zones; names, tags and custom
fields of contacts; constructors' refusals; the demo.  The reply path does not
run under `Pacing`: its waits are an arbitrary time between steps.
`_decisions += 1` is one step.  `Workspace` stands beside the two lanes and is
not composed with them: the bridge's calls are a subset of those its client
may make.

## 6. Plan

Done, in this order: `KeyStore`, `PolicyGate`, `InboundLane` with properties,
runs and proofs; `Pacing`; `LeadLane`; `EffectOnce` and the two lanes under it;
`Workspace`; `Keys`; the proofs of `LeadLane`, its refinement and `Workspace`.

Since then, the properties of the reply path's past, its refinement, `Pacing`
(its window is now cut off by a count of expired calls, not by a filter),
`TokensStayInTheirLocation`, `OptOutHolds`, and `Keys`; then stores that fail in
both lanes, the spent store's `set` as a step of its own, and `InboundOverlaps`.

Next:

1. `RefusalsHaveAReason` for calls that take time: what an interval of latency
   costs, as a margin of the window.
2. The lead path with several threads: its deals and reviews bounded as
   `RepeatsNeedOverlap` bounds the replies, in place of `OneThread`.
3. The reply path under `Pacing`: a send that waits, to say how late it can be
   (`AutoRepliesLeaveInHours` in terms of the limits).
