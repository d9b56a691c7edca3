--------------------------- MODULE InboundProofs ---------------------------
(***************************************************************************)
(* For every set of events, contacts, workers and bodies, whatever stores  *)
(* are injected and however the surroundings behave: the reply path keeps  *)
(* its types, and no message leaves that the gate or a person did not      *)
(* approve with exactly that content.                                      *)
(***************************************************************************)
EXTENDS InboundProperties, TLAPS

\* A decision the gate really took about event e.
Sound(d, e) ==
  /\ d.outcome = OutcomeOf(d.reading)
  /\ d.reading.draft.contact = ContactOf[e]
  /\ d.reading.intent = IntentOf[e]

\* What a call in progress knows: the event it is about, and, from the guard
\* on, a sound decision; on the automatic path one that passed everything.
JobOK(j) ==
  /\ j.pc # "idle" => j.event \in Events
  /\ j.pc \in {"check", "send", "spend", "record"} =>
       /\ j.decision \in Decisions
       /\ Sound(j.decision, j.event)
       /\ IF IsRelease(j) THEN CanApproveHuman(j.decision) ELSE CanApproveAuto(j.decision)

WorkOK    == \A w \in Workers : JobOK(work[w])
PendingOK == \A id \in DOMAIN pending :
               /\ Sound(pending[id].decision, pending[id].event)
               /\ CanApproveHuman(pending[id].decision)

IInv == TypeOK /\ WorkOK /\ PendingOK /\ EveryMessageWasApproved

-----------------------------------------------------------------------------
(* Dictionaries and ledger lines.                                          *)

LEMMA SetKeyType ==
  ASSUME NEW K, NEW V, NEW s, DOMAIN s \subseteq K, s \in [DOMAIN s -> V],
         NEW k \in K, NEW v \in V
  PROVE  /\ DOMAIN SetKey(s, k, v) \subseteq K
         /\ SetKey(s, k, v) \in [DOMAIN SetKey(s, k, v) -> V]
BY DEF SetKey

LEMMA DropKeyType ==
  ASSUME NEW K, NEW V, NEW s, DOMAIN s \subseteq K, s \in [DOMAIN s -> V], NEW k
  PROVE  /\ DOMAIN DropKey(s, k) \subseteq K
         /\ DropKey(s, k) \in [DOMAIN DropKey(s, k) -> V]
BY DEF DropKey

LEMMA EmptyStoreType ==
  ASSUME NEW K, NEW V
  PROVE  DOMAIN EmptyStore \subseteq K /\ EmptyStore \in [DOMAIN EmptyStore -> V]
BY DEF EmptyStore

LEMMA LineType ==
  ASSUME NEW kind \in LineKinds, NEW e \in Events \cup {None}
  PROVE  Line(kind, e) \in Lines
BY DEF Line, Lines

\* A line stays a line when it is given its details.
LEMMA DetailType ==
  ASSUME NEW l \in Lines, NEW n \in Nat, NEW m \in Nat,
         NEW s \in Outcomes \cup Modes \cup {None}
  PROVE  /\ [l EXCEPT !.delivery = n] \in Lines
         /\ [l EXCEPT !.decision = n] \in Lines
         /\ [l EXCEPT !.decision = n, !.says = s] \in Lines
         /\ [l EXCEPT !.decision = n, !.message = m, !.says = s] \in Lines
BY DEF Lines

LEMMA FailedType ==
  ASSUME NEW j \in Jobs
  PROVE  Failed(j) \in Lines
BY LineType, DetailType DEF Failed, Jobs, LineKinds

LEMMA FailureType ==
  ASSUME NEW j \in Jobs
  PROVE  FailureLines(j) \in Seq(Lines)
<1>1. Failed(j) \in Lines
  BY FailedType
<1> QED  BY <1>1 DEF FailureLines

LEMMA RecordType ==
  ASSUME ledger \in Seq(Lines), NEW s \in Seq(Lines), Record(s)
  PROVE  ledger' \in Seq(Lines)
BY DEF Record

LEMMA RecordOne ==
  ASSUME ledger \in Seq(Lines), NEW l \in Lines, Record(<<l>>)
  PROVE  ledger' \in Seq(Lines)
<1>1. <<l>> \in Seq(Lines)
  OBVIOUS
<1> QED  BY <1>1, RecordType

LEMMA RecordTwo ==
  ASSUME ledger \in Seq(Lines), NEW l \in Lines, NEW m \in Lines, Record(<<l, m>>)
  PROVE  ledger' \in Seq(Lines)
<1>1. <<l, m>> \in Seq(Lines)
  OBVIOUS
<1> QED  BY <1>1, RecordType

LEMMA RecordMore ==
  ASSUME ledger \in Seq(Lines), NEW s \in Seq(Lines), NEW t \in Seq(Lines), Record(s \o t)
  PROVE  ledger' \in Seq(Lines)
<1>1. s \o t \in Seq(Lines)
  OBVIOUS
<1> QED  BY <1>1, RecordType

LEMMA DisturbType ==
  ASSUME env \in [EnvKinds -> Nat], NEW k \in EnvKinds, Disturb(k)
  PROVE  env' \in [EnvKinds -> Nat]
BY DEF Disturb

LEMMA IdleOK == Idle \in Jobs /\ JobOK(Idle)
BY DEF Idle, Jobs, Steps, JobOK
-----------------------------------------------------------------------------
(* The gate.                                                               *)

LEMMA OutcomeType == ASSUME NEW r PROVE OutcomeOf(r) \in Outcomes
BY DEF OutcomeOf, Outcomes

\* Only an unblocked reading can be approved, and only one with nothing
\* failed at all is approved by the gate itself.
LEMMA ApprovalMeans ==
  ASSUME NEW d, d.outcome = OutcomeOf(d.reading)
  PROVE  /\ CanApproveHuman(d) => FailedBlocks(d.reading) = {}
         /\ CanApproveAuto(d)  => AllPoliciesPass(d.reading)
BY DEF CanApproveHuman, CanApproveAuto, OutcomeOf, AllPoliciesPass

LEMMA DecisionSound ==
  ASSUME NEW e \in Events, NEW j \in Jobs, j.event = e, NEW body \in Bodies,
         NEW id \in Nat, open \in BOOLEAN
  PROVE  LET d == Decision(id, Reading(j, body)) IN
         d \in Decisions /\ Sound(d, e) /\ d.id = id
<1> DEFINE r == Reading(j, body)
<1>1. r \in Readings
  BY EventAssumption DEF Reading, Readings, Drafts, Jobs
<1>2. r.draft.contact = ContactOf[e] /\ r.intent = IntentOf[e]
  BY DEF Reading
<1>3. OutcomeOf(r) \in Outcomes
  BY OutcomeType
<1> DEFINE d == Decision(id, r)
<1> HIDE DEF r
<1>4. d.id = id /\ d.outcome = OutcomeOf(r) /\ d.reading = r
  BY DEF Decision
<1>5. d \in Decisions
  BY <1>1, <1>3 DEF Decision, Decisions
<1>6. Sound(d, e)
  BY <1>2, <1>4 DEF Sound
<1> QED  BY <1>4, <1>5, <1>6 DEF r
-----------------------------------------------------------------------------
(* One step of a worker.                                                   *)

LEMMA GotoOK ==
  ASSUME work \in [Workers -> Jobs], WorkOK, NEW w \in Workers,
         NEW j \in Jobs, JobOK(j), Goto(w, j)
  PROVE  work' \in [Workers -> Jobs] /\ WorkOK'
BY DEF Goto, WorkOK

LEMMA RaiseOK ==
  ASSUME TypeOK, WorkOK, NEW w \in Workers, Raise(w)
  PROVE  /\ work' \in [Workers -> Jobs]
         /\ WorkOK'
         /\ ledger' \in Seq(Lines)
<1>1. work[w] \in Jobs /\ ledger \in Seq(Lines) /\ work \in [Workers -> Jobs]
  BY DEF TypeOK
<1>2. work' \in [Workers -> Jobs] /\ WorkOK'
  BY <1>1, GotoOK, IdleOK DEF Raise
<1>4. FailureLines(work[w]) \in Seq(Lines)
  BY <1>1, FailureType
<1>5. ledger' \in Seq(Lines)
  BY <1>1, <1>4, RecordType DEF Raise
<1> QED  BY <1>2, <1>5

LEMMA RejectForgedOK ==
  ASSUME IInv, NEW w \in Workers, RejectForged(w)
  PROVE  IInv'
<1> USE DEF IInv
<1>1. Line("webhook_rejected", None) \in Lines
  BY LineType DEF LineKinds
<1>2. ledger' \in Seq(Lines)
  BY <1>1, RecordOne DEF RejectForged, TypeOK
<1>3. env' \in [EnvKinds -> Nat]
  BY DisturbType DEF RejectForged, TypeOK, EnvKinds
<1>4. TypeOK'
  BY <1>2, <1>3 DEF RejectForged, TypeOK, stores
<1>5. WorkOK' /\ PendingOK' /\ EveryMessageWasApproved'
  BY DEF RejectForged, stores, WorkOK, PendingOK, EveryMessageWasApproved
<1> QED  BY <1>4, <1>5

\* What the three ways of taking a delivery have in common.
LEMMA NextAttemptOK ==
  ASSUME IInv, NEW w \in Workers, NEW e \in Events, NextAttempt(w, e),
         ledger' \in Seq(Lines), work' \in [Workers -> Jobs], WorkOK',
         env' \in [EnvKinds -> Nat]
  PROVE  IInv'
<1> USE DEF IInv
<1>1. attempts' \in [Events -> Nat]
  BY DEF NextAttempt, TypeOK
<1>2. TypeOK'
  BY <1>1 DEF NextAttempt, TypeOK, stores
<1>3. PendingOK' /\ EveryMessageWasApproved'
  BY DEF NextAttempt, stores, PendingOK, EveryMessageWasApproved
<1> QED  BY <1>2, <1>3

LEMMA ReceiveOK ==
  ASSUME IInv, NEW w \in Workers, NEW e \in Events, Receive(w, e)
  PROVE  IInv'
<1> USE DEF IInv
<1> DEFINE n == attempts[e] + 1
           j == [Idle EXCEPT !.event = e, !.delivery = n]
           received == [Line("webhook_received", e) EXCEPT !.delivery = n]
<1>1. /\ n \in Nat /\ ledger \in Seq(Lines) /\ work \in [Workers -> Jobs] /\ WorkOK
      /\ env \in [EnvKinds -> Nat]
  BY DEF TypeOK
<1>2. \A k \in LineKinds : \A v \in {e, None} :
        Line(k, v) \in Lines /\ [Line(k, v) EXCEPT !.delivery = n] \in Lines
  BY <1>1, LineType, DetailType
<1> HIDE DEF n
<1>3. CASE ReceiveMalformed(w, e)
  <2>1. ledger' \in Seq(Lines)
    <3>1. [Line("webhook_malformed", None) EXCEPT !.delivery = n] \in Lines
      BY <1>2 DEF LineKinds
    <3> QED  BY <1>1, <1>3, <3>1, RecordOne DEF ReceiveMalformed, n
  <2> QED  BY <1>1, <1>3, <2>1, NextAttemptOK DEF ReceiveMalformed, WorkOK
<1>4. CASE ReceiveDuplicate(w, e)
  <2>1. ledger' \in Seq(Lines)
    <3>1. [Line("webhook_duplicate", e) EXCEPT !.delivery = n] \in Lines
      BY <1>2 DEF LineKinds
    <3> QED  BY <1>1, <1>4, <3>1, RecordOne DEF ReceiveDuplicate, n
  <2> QED  BY <1>1, <1>4, <2>1, NextAttemptOK DEF ReceiveDuplicate, WorkOK
<1>5. CASE ReceiveNew(w, e)
  <2>1. j \in Jobs /\ j.event = e
    BY <1>1 DEF Idle, Jobs, Steps
  <2>2. Failed(j) \in Lines /\ received \in Lines /\ Line("event_ignored", e) \in Lines
    BY <1>2, <2>1, FailedType DEF LineKinds
  <2>3. \A pc \in {"mark", "fetch"} : [j EXCEPT !.pc = pc] \in Jobs /\ JobOK([j EXCEPT !.pc = pc])
    BY <2>1 DEF Idle, Jobs, Steps, JobOK
  <2>4. ledger' \in Seq(Lines)
    <3>1. \/ Record(<<received, Failed(j)>>)
          \/ Record(<<received, Line("event_ignored", e)>>)
          \/ Record(<<received>>)
      BY <1>5 DEF ReceiveNew, n
    <3> HIDE DEF received, j
    <3> QED  BY <1>1, <2>2, <3>1, RecordOne, RecordTwo
  <2>5. work' \in [Workers -> Jobs] /\ WorkOK'
    <3>1. UNCHANGED work \/ Goto(w, [j EXCEPT !.pc = "mark"]) \/ Goto(w, [j EXCEPT !.pc = "fetch"])
      BY <1>5 DEF ReceiveNew, n
    <3>2. CASE UNCHANGED work
      BY <1>1, <3>2 DEF WorkOK
    <3> QED  BY <1>1, <2>3, <3>1, <3>2, GotoOK
  <2>6. NextAttempt(w, e) /\ env' \in [EnvKinds -> Nat]
    BY <1>1, <1>5 DEF ReceiveNew
  <2> QED  BY <2>4, <2>5, <2>6, NextAttemptOK
<1> QED  BY <1>3, <1>4, <1>5 DEF Receive

LEMMA LookupFailsOK ==
  ASSUME IInv, NEW w \in Workers, NEW e \in Events, LookupFails(w, e)
  PROVE  IInv'
<1>1. ledger' \in Seq(Lines) /\ work' \in [Workers -> Jobs] /\ WorkOK'
  BY DEF LookupFails, IInv, TypeOK, WorkOK
<1>2. env' \in [EnvKinds -> Nat]
  BY DisturbType DEF LookupFails, IInv, TypeOK, EnvKinds
<1> QED  BY <1>1, <1>2, NextAttemptOK DEF LookupFails

LEMMA FetchContactOK ==
  ASSUME IInv, NEW w \in Workers, FetchContact(w)
  PROVE  IInv'
<1> USE DEF IInv
<1> DEFINE b == ContactOf[work[w].event] \in optedOut
           j == [work[w] EXCEPT !.pc = "decide", !.optedOut = b]
<1>a. b \in BOOLEAN
  OBVIOUS
<1>b. Goto(w, j)
  BY DEF FetchContact
<1> HIDE DEF b
<1>1. j \in Jobs /\ JobOK(j)
  <2>1. work[w] \in Jobs /\ JobOK(work[w]) /\ work[w].pc = "fetch"
    BY DEF FetchContact, TypeOK, WorkOK, Pc
  <2>2. j \in Jobs /\ j.pc = "decide" /\ j.event = work[w].event
    BY <1>a, <2>1 DEF Jobs, Steps
  <2> QED  BY <2>1, <2>2 DEF JobOK
<1>2. work' \in [Workers -> Jobs] /\ WorkOK'
  BY <1>1, <1>b, GotoOK DEF TypeOK
<1>3. TypeOK'
  BY <1>2 DEF FetchContact, TypeOK, stores
<1>4. PendingOK' /\ EveryMessageWasApproved'
  BY DEF FetchContact, stores, PendingOK, EveryMessageWasApproved
<1> QED  BY <1>2, <1>3, <1>4

LEMMA DecideOK ==
  ASSUME IInv, NEW w \in Workers, Decide(w)
  PROVE  IInv'
<1> USE DEF IInv
<1> DEFINE e == work[w].event
<1>1. /\ work[w] \in Jobs /\ e \in Events /\ decisions \in Nat /\ NextId \in Nat
      /\ ledger \in Seq(Lines) /\ open \in BOOLEAN /\ work \in [Workers -> Jobs] /\ WorkOK
  BY DEF Decide, TypeOK, WorkOK, JobOK, Pc, NextId
<1>2. PICK body \in Bodies :
        LET d    == Decision(NextId, Reading(work[w], body))
            said == <<Line("draft_generated", e),
                      [Line("gate_decision", e) EXCEPT !.decision = d.id, !.says = d.outcome]>>
        IN  Submit(w, d, said) \/ Park(w, d, said) \/ Block(w, d, said)
  BY DEF Decide
<1> DEFINE d == Decision(NextId, Reading(work[w], body))
           said == <<Line("draft_generated", e),
                     [Line("gate_decision", e) EXCEPT !.decision = d.id, !.says = d.outcome]>>
<1>3. d \in Decisions /\ Sound(d, e) /\ d.id \in Nat
  BY <1>1, DecisionSound
<1>4. Submit(w, d, said) \/ Park(w, d, said) \/ Block(w, d, said)
  BY <1>2
<1> HIDE DEF d
<1>5. \A k \in LineKinds : Line(k, e) \in Lines /\ [Line(k, e) EXCEPT !.decision = d.id] \in Lines
  BY <1>1, <1>3, LineType, DetailType
<1>6. said \in Seq(Lines)
  <2>1. d.outcome \in Outcomes \cup Modes \cup {None}
    BY <1>3 DEF Decisions
  <2>2. Line("draft_generated", e) \in Lines /\ Line("gate_decision", e) \in Lines
    BY <1>5 DEF LineKinds
  <2>3. [Line("gate_decision", e) EXCEPT !.decision = d.id, !.says = d.outcome] \in Lines
    BY <1>3, <2>1, <2>2, DetailType
  <2> QED  BY <2>2, <2>3
<1> HIDE DEF said
<1>7. \A pc \in {"mark", "decide"} : LET j == [work[w] EXCEPT !.pc = pc] IN j \in Jobs /\ JobOK(j)
  BY <1>1 DEF Jobs, JobOK, Steps
<1>9. /\ ledger' \in Seq(Lines)
      /\ work' \in [Workers -> Jobs] /\ WorkOK'
      /\ DOMAIN pending' \subseteq Nat /\ pending' \in [DOMAIN pending' -> Parked]
      /\ PendingOK'
  <2>a. DOMAIN pending \subseteq Nat /\ pending \in [DOMAIN pending -> Parked] /\ PendingOK
    BY DEF TypeOK
  <2>1. CASE Submit(w, d, said)
    <3> DEFINE j == [work[w] EXCEPT !.pc = "check", !.decision = d]
    <3>1. CanApproveAuto(d) /\ CanApproveHuman(d)
      BY <2>1 DEF Submit, CanApproveAuto, CanApproveHuman
    <3>2. j \in Jobs /\ j.event = e /\ j.decision = d
      BY <1>1, <1>3 DEF Jobs, Steps
    <3>3. JobOK(j)
      BY <1>1, <1>3, <3>1, <3>2 DEF JobOK
    <3>4. Goto(w, j)
      BY <2>1 DEF Submit
    <3>5. work' \in [Workers -> Jobs] /\ WorkOK'
      BY <1>1, <3>2, <3>3, <3>4, GotoOK
    <3>6. ledger' \in Seq(Lines)
      BY <1>1, <1>6, <2>1, RecordType DEF Submit
    <3> QED  BY <2>a, <2>1, <3>5, <3>6 DEF Submit, PendingOK
  <2>3. CASE Park(w, d, said)
    <3>1. <<[Line("message_drafted", e) EXCEPT !.decision = d.id]>> \in Seq(Lines)
      BY <1>5 DEF LineKinds
    <3>2. ledger' \in Seq(Lines)
      BY <1>1, <1>6, <2>3, <3>1, RecordMore DEF Park
    <3>3. work' \in [Workers -> Jobs] /\ WorkOK'
      BY <1>1, <1>7, <2>3, GotoOK DEF Park
    <3> DEFINE p == [decision |-> d, event |-> e]
    <3>4. p \in Parked /\ pending' = SetKey(pending, d.id, p)
      BY <1>1, <1>3, <2>3 DEF Park, Parked
    <3>5. Sound(p.decision, p.event) /\ CanApproveHuman(p.decision)
      BY <1>3, <2>3 DEF Park, CanApproveHuman
    <3> HIDE DEF p
    <3>6. DOMAIN pending' \subseteq Nat /\ pending' \in [DOMAIN pending' -> Parked]
      <4>1. /\ DOMAIN SetKey(pending, d.id, p) \subseteq Nat
            /\ SetKey(pending, d.id, p) \in [DOMAIN SetKey(pending, d.id, p) -> Parked]
        BY <1>3, <2>a, <3>4, SetKeyType
      <4> QED  BY <3>4, <4>1
    <3>7. PendingOK'
      BY <2>a, <3>4, <3>5 DEF PendingOK, SetKey
    <3> QED  BY <3>2, <3>3, <3>6, <3>7
  <2>4. CASE Block(w, d, said)
    <3>1. <<[Line("message_blocked", e) EXCEPT !.decision = d.id]>> \in Seq(Lines)
      BY <1>5 DEF LineKinds
    <3>2. ledger' \in Seq(Lines)
      BY <1>1, <1>6, <2>4, <3>1, RecordMore DEF Block
    <3>3. work' \in [Workers -> Jobs] /\ WorkOK'
      BY <1>1, <1>7, <2>4, GotoOK DEF Block
    <3> QED  BY <2>a, <2>4, <3>2, <3>3 DEF Block, PendingOK
  <2> QED  BY <1>4, <2>1, <2>3, <2>4
<1>10. TypeOK'
  BY <1>1, <1>9 DEF Decide, TypeOK, stores
<1>11. EveryMessageWasApproved'
  BY DEF Decide, EveryMessageWasApproved
<1> QED  BY <1>9, <1>10, <1>11
-----------------------------------------------------------------------------
(* The port call and what follows it.                                      *)

\* The shared shape of the steps that change only the calls in progress,
\* the ledger and the count of disturbances.
LEMMA QuietStepOK ==
  ASSUME IInv, UNCHANGED <<stores, decisions, pending, messages, open, attempts>>,
         optedOut' \subseteq Contacts,
         ledger' \in Seq(Lines), work' \in [Workers -> Jobs], WorkOK',
         env' \in [EnvKinds -> Nat]
  PROVE  IInv'
<1> USE DEF IInv
<1>1. TypeOK'
  BY DEF TypeOK, stores
<1>2. PendingOK' /\ EveryMessageWasApproved'
  BY DEF PendingOK, EveryMessageWasApproved
<1> QED  BY <1>1, <1>2

\* The guard and a store pass a call on: its content is as it was.
LEMMA PassOnOK ==
  ASSUME IInv, NEW w \in Workers, NEW pc \in {"send", "record"},
         work[w].pc \in {"check", "spend"}, Goto(w, [work[w] EXCEPT !.pc = pc])
  PROVE  work' \in [Workers -> Jobs] /\ WorkOK'
<1> DEFINE k == [work[w] EXCEPT !.pc = pc]
<1>1. work[w] \in Jobs /\ JobOK(work[w]) /\ work \in [Workers -> Jobs] /\ WorkOK
  BY DEF IInv, TypeOK, WorkOK
<1>2. k \in Jobs /\ k.event = work[w].event /\ k.decision = work[w].decision
      /\ k.delivery = work[w].delivery
  BY <1>1 DEF Jobs, Steps
<1>3. JobOK(k)
  BY <1>1, <1>2 DEF JobOK, IsRelease
<1> QED  BY <1>1, <1>2, <1>3, GotoOK

LEMMA GuardPassesOK ==
  ASSUME IInv, NEW w \in Workers, GuardPasses(w)
  PROVE  IInv'
<1>1. work' \in [Workers -> Jobs] /\ WorkOK'
  BY PassOnOK DEF GuardPasses, Pc
<1>2. env' \in [EnvKinds -> Nat] /\ optedOut' \subseteq Contacts /\ ledger' \in Seq(Lines)
  BY DEF GuardPasses, IInv, TypeOK
<1> QED  BY <1>1, <1>2, QuietStepOK DEF GuardPasses

LEMMA GuardStopsOK ==
  ASSUME IInv, NEW w \in Workers, GuardStops(w)
  PROVE  IInv'
<1>1. /\ work[w] \in Jobs /\ work[w].event \in Events /\ ledger \in Seq(Lines)
      /\ work \in [Workers -> Jobs] /\ WorkOK
  BY DEF GuardStops, IInv, TypeOK, WorkOK, JobOK, Pc
<1>2. <<Breach(work[w].event)>> \in Seq(Lines)
  <2>1. Breach(work[w].event) \in Lines
    BY <1>1, LineType DEF Breach, LineKinds
  <2> QED  BY <2>1
<1>3. ledger' \in Seq(Lines)
  BY <1>1, <1>2, FailureType, RecordMore DEF GuardStops
<1>4. work' \in [Workers -> Jobs] /\ WorkOK'
  BY <1>1, IdleOK, GotoOK DEF GuardStops
<1>5. env' \in [EnvKinds -> Nat] /\ optedOut' \subseteq Contacts
  BY DEF GuardStops, IInv, TypeOK
<1> QED  BY <1>3, <1>4, <1>5, QuietStepOK DEF GuardStops

LEMMA SendRefusedOK ==
  ASSUME IInv, NEW w \in Workers, SendRefused(w)
  PROVE  IInv'
<1>1. env' \in [EnvKinds -> Nat] /\ optedOut' \subseteq Contacts
  BY DEF SendRefused, IInv, TypeOK
<1> QED  BY <1>1, RaiseOK, QuietStepOK DEF SendRefused, IInv

\* The message the platform takes is the one the decision is about.
LEMMA SendOK ==
  ASSUME IInv, NEW w \in Workers, Send(w)
  PROVE  messages' \in Seq(Messages) /\ EveryMessageWasApproved'
<1> DEFINE j == work[w]
           m == Outbound(j)
<1>1. /\ j \in Jobs /\ j.event \in Events /\ j.decision \in Decisions
      /\ Sound(j.decision, j.event)
      /\ IF IsRelease(j) THEN CanApproveHuman(j.decision) ELSE CanApproveAuto(j.decision)
      /\ messages \in Seq(Messages) /\ open \in BOOLEAN
  BY DEF Send, Pc, IInv, TypeOK, WorkOK, JobOK
<1>2. m \in Messages
  <2>1. j.decision.reading.draft \in Drafts /\ j.delivery \in Nat
    BY <1>1 DEF Decisions, Readings, Jobs
  <2> QED  BY <1>1, <2>1 DEF Outbound, Messages, Drafts
<1>3. Justified(m)
  <2>1. IsRelease(m.by) <=> IsRelease(j)
    BY DEF Outbound, IsRelease
  <2>2. /\ CanApproveHuman(j.decision) => FailedBlocks(j.decision.reading) = {}
        /\ CanApproveAuto(j.decision)  => AllPoliciesPass(j.decision.reading)
    BY <1>1, ApprovalMeans DEF Sound
  <2>3. /\ FailedBlocks(j.decision.reading) = {}
        /\ IsRelease(j) \/ AllPoliciesPass(j.decision.reading)
    BY <1>1, <2>2 DEF AllPoliciesPass
  <2>4. /\ m.by.decision = j.decision /\ m.by.event = j.event
        /\ m.contact = j.decision.reading.draft.contact
        /\ m.body = j.decision.reading.draft.body
    BY DEF Outbound
  <2> HIDE DEF m, j
  <2> QED  BY <1>1, <2>1, <2>3, <2>4 DEF Justified, Sound
<1>4. messages' = Append(messages, m)
  BY DEF Send
<1> HIDE DEF m
<1>5. messages' \in Seq(Messages)
  BY <1>1, <1>2, <1>4
<1>6. ASSUME NEW i \in 1..Len(messages') PROVE Justified(messages'[i])
  <2>1. CASE i = Len(messages) + 1
    BY <1>1, <1>2, <1>3, <1>4, <2>1
  <2>2. CASE i # Len(messages) + 1
    <3>1. i \in 1..Len(messages) /\ messages'[i] = messages[i]
      BY <1>1, <1>2, <1>4, <2>2
    <3> QED  BY <3>1 DEF IInv, EveryMessageWasApproved
  <2> QED  BY <2>1, <2>2
<1> QED  BY <1>5, <1>6 DEF EveryMessageWasApproved, Justified, IsRelease, AllPoliciesPass

LEMMA SendAcceptedOK ==
  ASSUME IInv, NEW w \in Workers, SendAccepted(w)
  PROVE  IInv'
<1> USE DEF IInv
<1> DEFINE j == [work[w] EXCEPT !.pc = "spend", !.message = Len(messages) + 1]
<1>1. messages' \in Seq(Messages) /\ EveryMessageWasApproved'
  BY SendOK DEF SendAccepted
<1>2. j \in Jobs /\ JobOK(j) /\ Goto(w, j)
  <2>1. work[w] \in Jobs /\ JobOK(work[w]) /\ work[w].pc = "send" /\ Len(messages) + 1 \in Nat
    BY DEF SendAccepted, Send, TypeOK, WorkOK, Pc
  <2>2. j \in Jobs
    BY <2>1 DEF Jobs, Steps
  <2>3. JobOK(j)
    BY <2>1 DEF JobOK, Jobs, IsRelease
  <2> QED  BY <2>2, <2>3 DEF SendAccepted
<1>3. work' \in [Workers -> Jobs] /\ WorkOK'
  BY <1>2, GotoOK DEF TypeOK
<1>4. TypeOK'
  BY <1>1, <1>3 DEF SendAccepted, Send, TypeOK, stores
<1>5. PendingOK'
  BY DEF SendAccepted, Send, PendingOK
<1> QED  BY <1>1, <1>3, <1>4, <1>5

LEMMA SendReplyLostOK ==
  ASSUME IInv, NEW w \in Workers, SendReplyLost(w)
  PROVE  IInv'
<1> USE DEF IInv
<1>1. messages' \in Seq(Messages) /\ EveryMessageWasApproved'
  BY SendOK DEF SendReplyLost
<1>2. work' \in [Workers -> Jobs] /\ WorkOK' /\ ledger' \in Seq(Lines)
  BY RaiseOK DEF SendReplyLost
<1>3. env' \in [EnvKinds -> Nat]
  BY DisturbType DEF SendReplyLost, TypeOK, EnvKinds
<1>4. TypeOK'
  BY <1>1, <1>2, <1>3 DEF SendReplyLost, Send, TypeOK, stores
<1>5. PendingOK'
  BY DEF SendReplyLost, Send, PendingOK
<1> QED  BY <1>1, <1>2, <1>4, <1>5

\* What a write to a KeyStore leaves behind has its type.
LEMMA SpentType ==
  ASSUME IInv, NEW w \in Workers, Pc(w, "spend")
  PROVE  DOMAIN Spent(work[w]) \subseteq Nat /\ Spent(work[w]) \in [DOMAIN Spent(work[w]) -> Nat]
<1>1. work[w].decision.id \in Nat /\ work[w].message \in Nat
  BY DEF IInv, TypeOK, WorkOK, JobOK, Pc, Jobs, Decisions
<1>2. DOMAIN spent \subseteq Nat /\ spent \in [DOMAIN spent -> Nat]
  BY DEF IInv, TypeOK
<1> QED  BY <1>1, <1>2, SetKeyType DEF Spent

LEMMA MarkedType ==
  ASSUME IInv, NEW w \in Workers, Pc(w, "mark")
  PROVE  DOMAIN Marked(work[w]) \subseteq Events /\ Marked(work[w]) \in [DOMAIN Marked(work[w]) -> Nat]
<1>1. work[w].event \in Events /\ work[w].delivery \in Nat
  BY DEF IInv, TypeOK, WorkOK, JobOK, Pc, Jobs
<1>2. DOMAIN seen \subseteq Events /\ seen \in [DOMAIN seen -> Nat]
  BY DEF IInv, TypeOK
<1> QED  BY <1>1, <1>2, SetKeyType DEF Marked

LEMMA SpendOK ==
  ASSUME IInv, NEW w \in Workers, Spend(w)
  PROVE  IInv'
<1> USE DEF IInv
<1>1. DOMAIN spent' \subseteq Nat /\ spent' \in [DOMAIN spent' -> Nat]
  BY SpentType DEF Spend
<1>2. work' \in [Workers -> Jobs] /\ WorkOK'
  BY PassOnOK DEF Spend, Pc
<1>3. TypeOK'
  BY <1>1, <1>2 DEF Spend, TypeOK
<1>4. PendingOK' /\ EveryMessageWasApproved'
  BY DEF Spend, PendingOK, EveryMessageWasApproved
<1> QED  BY <1>2, <1>3, <1>4

LEMMA RecordSentOK ==
  ASSUME IInv, NEW w \in Workers, RecordSent(w)
  PROVE  IInv'
<1> USE DEF IInv
<1> DEFINE j == work[w]
           k == [j EXCEPT !.pc = "mark"]
           l == [Line("message_sent", j.event) EXCEPT
                   !.decision = j.decision.id, !.message = j.message, !.says = ModeOf(j)]
<1>1. /\ j \in Jobs /\ j.event \in Events /\ j.decision.id \in Nat /\ j.message \in Nat
      /\ work \in [Workers -> Jobs]
  BY DEF RecordSent, TypeOK, WorkOK, JobOK, Pc, Jobs, Decisions
<1>2. l \in Lines
  <2>1. ModeOf(j) \in Outcomes \cup Modes \cup {None}
    BY DEF ModeOf, Modes
  <2>2. Line("message_sent", j.event) \in Lines
    BY <1>1, LineType DEF LineKinds
  <2> HIDE DEF j
  <2> QED  BY <1>1, <2>1, <2>2, DetailType
<1>3. ledger' \in Seq(Lines)
  <2>1. Record(<<l>>)
    BY DEF RecordSent
  <2> HIDE DEF l
  <2> QED  BY <1>2, <2>1, RecordOne DEF TypeOK
<1>5. k \in Jobs /\ JobOK(k)
  BY <1>1 DEF Jobs, Steps, JobOK
<1>6. work' \in [Workers -> Jobs] /\ WorkOK'
  <2>1. Goto(w, Idle) \/ Goto(w, k)
    BY DEF RecordSent
  <2> QED  BY <1>1, <1>5, <2>1, IdleOK, GotoOK
<1>7. DOMAIN pending' \subseteq Nat /\ pending' \in [DOMAIN pending' -> Parked] /\ PendingOK'
  <2>1. UNCHANGED pending \/ pending' = DropKey(pending, j.decision.id)
    BY DEF RecordSent
  <2>2. DOMAIN pending \subseteq Nat /\ pending \in [DOMAIN pending -> Parked] /\ PendingOK
    BY DEF TypeOK
  <2> HIDE DEF j
  <2> QED  BY <2>1, <2>2 DEF PendingOK, DropKey
<1>8. TypeOK'
  BY <1>3, <1>6, <1>7 DEF RecordSent, TypeOK, stores
<1>9. EveryMessageWasApproved'
  BY DEF RecordSent, EveryMessageWasApproved
<1> QED  BY <1>6, <1>7, <1>8, <1>9

LEMMA MarkSeenOK ==
  ASSUME IInv, NEW w \in Workers, MarkSeen(w)
  PROVE  IInv'
<1> USE DEF IInv
<1>2. DOMAIN seen' \subseteq Events /\ seen' \in [DOMAIN seen' -> Nat]
  BY MarkedType DEF MarkSeen
<1>3. work' \in [Workers -> Jobs] /\ WorkOK'
  BY IdleOK, GotoOK DEF MarkSeen, TypeOK
<1>4. TypeOK'
  BY <1>2, <1>3 DEF MarkSeen, TypeOK
<1>5. PendingOK' /\ EveryMessageWasApproved'
  BY DEF MarkSeen, PendingOK, EveryMessageWasApproved
<1> QED  BY <1>3, <1>4, <1>5

LEMMA CallFailsOK ==
  ASSUME IInv, NEW w \in Workers, CallFails(w)
  PROVE  IInv'
<1>1. env' \in [EnvKinds -> Nat]
  BY DisturbType DEF CallFails, IInv, TypeOK, EnvKinds
<1>2. work' \in [Workers -> Jobs] /\ WorkOK' /\ ledger' \in Seq(Lines)
  BY RaiseOK DEF CallFails, IInv
<1>3. optedOut' \subseteq Contacts
  BY DEF CallFails, IInv, TypeOK
<1> QED  BY <1>1, <1>2, <1>3, QuietStepOK DEF CallFails

LEMMA StoreFailsOK ==
  ASSUME IInv, NEW w \in Workers, StoreFails(w)
  PROVE  IInv'
<1> USE DEF IInv
<1>1. env' \in [EnvKinds -> Nat]
  BY DisturbType DEF StoreFails, TypeOK, EnvKinds
<1>2. work' \in [Workers -> Jobs] /\ WorkOK' /\ ledger' \in Seq(Lines)
  <2>1. CASE Raise(w)
    BY <2>1, RaiseOK
  <2>2. CASE Goto(w, Idle) /\ UNCHANGED ledger
    BY <2>2, IdleOK, GotoOK DEF TypeOK
  <2> QED  BY <2>1, <2>2 DEF StoreFails
<1>3. DOMAIN spent' \subseteq Nat /\ spent' \in [DOMAIN spent' -> Nat]
  <2>1. CASE spent' = spent
    BY <2>1 DEF TypeOK
  <2>2. CASE Pc(w, "spend") /\ spent' = Spent(work[w])
    BY <2>2, SpentType
  <2> QED  BY <2>1, <2>2 DEF StoreFails
<1>4. DOMAIN seen' \subseteq Events /\ seen' \in [DOMAIN seen' -> Nat]
  <2>1. CASE seen' = seen
    BY <2>1 DEF TypeOK
  <2>2. CASE Pc(w, "mark") /\ seen' = Marked(work[w])
    BY <2>2, MarkedType
  <2> QED  BY <2>1, <2>2 DEF StoreFails
<1>5. TypeOK'
  BY <1>1, <1>2, <1>3, <1>4 DEF StoreFails, TypeOK
<1>6. PendingOK' /\ EveryMessageWasApproved'
  BY DEF StoreFails, PendingOK, EveryMessageWasApproved
<1> QED  BY <1>2, <1>5, <1>6

LEMMA ReleaseDraftOK ==
  ASSUME IInv, NEW w \in Workers, NEW id \in DOMAIN pending,
         ReleaseDraft(w, id)
  PROVE  IInv'
<1> DEFINE p == pending[id]
           j == OnRelease(p)
<1>1. /\ p \in Parked /\ Sound(p.decision, p.event) /\ CanApproveHuman(p.decision)
      /\ ledger \in Seq(Lines) /\ work \in [Workers -> Jobs] /\ WorkOK
  BY DEF IInv, TypeOK, PendingOK
<1>2. env' \in [EnvKinds -> Nat]
  BY DisturbType DEF ReleaseDraft, IInv, TypeOK, EnvKinds
<1>3. ledger' \in Seq(Lines) /\ work' \in [Workers -> Jobs] /\ WorkOK'
  <2>1. /\ j \in Jobs /\ j.event = p.event /\ j.decision = p.decision
        /\ IsRelease(j) /\ j.pc = "check" /\ p.decision \in Decisions /\ p.event \in Events
    BY <1>1 DEF OnRelease, Idle, Jobs, Steps, Parked, IsRelease
  <2>2. JobOK(j) /\ Goto(w, j)
    BY <1>1, <2>1 DEF JobOK, ReleaseDraft
  <2> QED  BY <1>1, <2>1, <2>2, GotoOK DEF ReleaseDraft
<1>4. optedOut' \subseteq Contacts
  BY DEF ReleaseDraft, IInv, TypeOK
<1> QED  BY <1>2, <1>3, <1>4, QuietStepOK DEF ReleaseDraft
-----------------------------------------------------------------------------
(* The surroundings.                                                       *)

LEMMA ChangeOptOutOK ==
  ASSUME IInv, NEW c \in Contacts, ChangeOptOut(c)
  PROVE  IInv'
<1>1. env' \in [EnvKinds -> Nat]
  BY DisturbType DEF ChangeOptOut, IInv, TypeOK, EnvKinds
<1>2. optedOut' \subseteq Contacts
  BY DEF ChangeOptOut, IInv, TypeOK
<1>3. ledger' \in Seq(Lines) /\ work' \in [Workers -> Jobs] /\ WorkOK'
  BY DEF ChangeOptOut, IInv, TypeOK, WorkOK
<1> QED  BY <1>1, <1>2, <1>3, QuietStepOK DEF ChangeOptOut

LEMMA OpenOrCloseOK ==
  ASSUME IInv, OpenOrClose
  PROVE  IInv'
<1>1. TypeOK'
  BY DEF OpenOrClose, IInv, TypeOK, stores
<1>2. WorkOK' /\ PendingOK' /\ EveryMessageWasApproved'
  BY DEF OpenOrClose, IInv, WorkOK, PendingOK, EveryMessageWasApproved
<1> QED  BY <1>1, <1>2 DEF IInv

LEMMA CrashOK ==
  ASSUME IInv, Crash
  PROVE  IInv'
<1>1. env' \in [EnvKinds -> Nat]
  BY DisturbType DEF Crash, IInv, TypeOK, EnvKinds
<1>2. work' \in [Workers -> Jobs] /\ WorkOK'
  BY IdleOK DEF Crash, WorkOK
<1>3. /\ DOMAIN seen' \subseteq Events /\ seen' \in [DOMAIN seen' -> Nat]
      /\ DOMAIN spent' \subseteq Nat /\ spent' \in [DOMAIN spent' -> Nat]
  <2>1. /\ seen' = seen \/ seen' = EmptyStore
        /\ spent' = spent \/ spent' = EmptyStore
    BY DEF Crash
  <2> QED  BY <2>1, EmptyStoreType DEF IInv, TypeOK
<1>4. pending' = EmptyStore
  BY DEF Crash
<1>5. DOMAIN pending' \subseteq Nat /\ pending' \in [DOMAIN pending' -> Parked]
  BY <1>4, EmptyStoreType
<1>6. TypeOK'
  BY <1>1, <1>2, <1>3, <1>5 DEF Crash, IInv, TypeOK
<1>7. PendingOK'
  BY <1>4 DEF PendingOK, EmptyStore
<1>8. EveryMessageWasApproved'
  BY DEF Crash, IInv, EveryMessageWasApproved
<1> QED  BY <1>2, <1>6, <1>7, <1>8 DEF IInv
-----------------------------------------------------------------------------
LEMMA InitOK == Init => IInv
<1> SUFFICES ASSUME Init PROVE IInv
  OBVIOUS
<1>1. TypeOK
  <2>1. work \in [Workers -> Jobs] /\ env \in [EnvKinds -> Nat] /\ attempts \in [Events -> Nat]
    BY IdleOK DEF Init
  <2>2. durable \in BOOLEAN
    BY BoundAssumption DEF Init
  <2>3. /\ DOMAIN seen \subseteq Events /\ seen \in [DOMAIN seen -> Nat]
        /\ DOMAIN spent \subseteq Nat /\ spent \in [DOMAIN spent -> Nat]
        /\ DOMAIN pending \subseteq Nat /\ pending \in [DOMAIN pending -> Parked]
    BY DEF Init, EmptyStore
  <2> QED  BY <2>1, <2>2, <2>3 DEF Init, TypeOK
<1>2. WorkOK /\ PendingOK
  BY IdleOK DEF Init, WorkOK, PendingOK, EmptyStore
<1>3. EveryMessageWasApproved
  BY DEF Init, EveryMessageWasApproved
<1> QED  BY <1>1, <1>2, <1>3 DEF IInv

LEMMA NextOK == IInv /\ [Next]_vars => IInv'
<1> SUFFICES ASSUME IInv, [Next]_vars PROVE IInv'
  OBVIOUS
<1>1. CASE UNCHANGED vars
  <2>1. TypeOK'
    BY <1>1 DEF IInv, TypeOK, vars, stores
  <2>2. WorkOK' /\ PendingOK' /\ EveryMessageWasApproved'
    BY <1>1 DEF IInv, vars, WorkOK, PendingOK, EveryMessageWasApproved
  <2> QED  BY <2>1, <2>2 DEF IInv
<1>2. CASE Next
  <2> USE <1>2
  <2>1. ASSUME NEW w \in Workers, Continue(w) PROVE IInv'
    BY <2>1, FetchContactOK, DecideOK, GuardPassesOK, GuardStopsOK, SendRefusedOK,
       SendAcceptedOK, SpendOK, RecordSentOK, MarkSeenOK DEF Continue
  <2>2. ASSUME NEW w \in Workers,
               \/ RejectForged(w) \/ \E e \in Events : Receive(w, e) \/ LookupFails(w, e)
               \/ SendReplyLost(w) \/ CallFails(w) \/ StoreFails(w)
               \/ \E id \in DOMAIN pending : ReleaseDraft(w, id)
        PROVE  IInv'
    BY <2>2, RejectForgedOK, ReceiveOK, LookupFailsOK, SendReplyLostOK, CallFailsOK, StoreFailsOK, ReleaseDraftOK
  <2>3. ASSUME (\E c \in Contacts : ChangeOptOut(c)) \/ OpenOrClose \/ Crash PROVE IInv'
    BY <2>3, ChangeOptOutOK, OpenOrCloseOK, CrashOK
  <2> QED  BY <2>1, <2>2, <2>3 DEF Next
<1> QED  BY <1>1, <1>2

\* Every variable keeps the kind of value the code gives it.
THEOREM TypeCorrect == Spec => []TypeOK
<1>1. IInv => TypeOK
  BY DEF IInv
<1> QED  BY <1>1, InitOK, NextOK, PTL DEF Spec

\* Across failures, retries, restarts and overlapping calls, each message on
\* the platform was approved with exactly its content: by the gate with every
\* policy passed, or by a person when no block policy failed.
THEOREM ApprovedOnly == Spec => []EveryMessageWasApproved
<1>1. IInv => EveryMessageWasApproved
  BY DEF IInv
<1> QED  BY <1>1, InitOK, NextOK, PTL DEF Spec
=============================================================================
