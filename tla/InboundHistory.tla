--------------------------- MODULE InboundHistory ---------------------------
(***************************************************************************)
(* What the reply path's records say of its past, for every set of events, *)
(* contacts, workers and bodies: which decision a parked draft and a spent *)
(* id belong to, which delivery a message and a seen key, which story a    *)
(* line of the ledger.                                                     *)
(***************************************************************************)
EXTENDS InboundProofs, SequenceTheorems

-----------------------------------------------------------------------------
(* Decision ids.                                                           *)

Parks(j) == [decision |-> j.decision, event |-> j.event]

\* A call that has its decision.
Decided(j) == j.pc \in {"check", "send", "spend", "record"}

\* No other decision has that id; a released draft is the one parked under it,
\* as long as it is, and the gate's own send is parked nowhere.  A release does
\* nothing but send and record.
JobNumbered(j) ==
  /\ j.pc \in {"fetch", "decide", "mark"} => ~IsRelease(j)
  /\ Decided(j) =>
       /\ j.decision.id \in 1..decisions
       /\ j.decision.id \in DOMAIN pending =>
            IsRelease(j) /\ pending[j.decision.id] = Parks(j)

\* Message n carries out what call j was decided to say.
Carries(n, j) ==
  /\ n \in 1..Len(messages)
  /\ LET m == messages[n] IN
     /\ <<m.contact, m.body>> = content_fingerprint(j.decision.reading.draft)
     /\ m.by.event = j.event
     /\ m.by.decision = j.decision

\* A call past its send knows its message; to record it, the id is spent for
\* that message, or for the same one of another release of the draft.
JobDelivered(j) ==
  /\ j.pc \in {"spend", "record"} => Carries(j.message, j)
  /\ j.pc = "record" => j.decision.id \in DOMAIN spent /\ Carries(spent[j.decision.id], j)

ParkedNumbered ==
  \A id \in DOMAIN pending : id \in 1..decisions /\ pending[id].decision.id = id

\* Two calls under one decision are two releases of one draft.
Alike(i, j) ==
  Decided(i) /\ Decided(j) /\ i.decision.id = j.decision.id =>
    IsRelease(i) /\ IsRelease(j) /\ Parks(i) = Parks(j)

Numbered ==
  /\ ParkedNumbered
  /\ \A w \in Workers : JobNumbered(work[w]) /\ JobDelivered(work[w])
  /\ \A v, w \in Workers : v # w => Alike(work[v], work[w])

-----------------------------------------------------------------------------
(* Spent ids.                                                              *)

\* A restart has started the ids again below those a durable store holds.
RestartedOver == durable /\ env["crash"] > 0

\* Otherwise a spent id that is still parked, or about to be checked, belongs
\* to a draft that was released before.
JobSent(j) ==
  j.pc = "check" /\ j.decision.id \in DOMAIN spent => IsRelease(j) /\ Sent(j.decision)

SpentAreSent ==
  RestartedOver \/
    /\ DOMAIN spent \subseteq 1..decisions
    /\ \A id \in DOMAIN pending : id \in DOMAIN spent => Sent(pending[id].decision)
    /\ \A w \in Workers : JobSent(work[w])

\* A single thread leaves a spent id parked only until it has recorded the
\* send, if its store never fails.
Careless(w) == RestartedOver \/ env["store_fails"] > 0 \/ Workers # {w}

TidyAt(w) ==
  /\ \A id \in DOMAIN pending : id \in DOMAIN spent =>
       work[w].pc = "record" /\ work[w].decision.id = id
  /\ work[w].pc = "check" => work[w].decision.id \notin DOMAIN spent

Tidy == \A w \in Workers : Careless(w) \/ TidyAt(w)

-----------------------------------------------------------------------------
(* Deliveries.                                                             *)

Active(j)   == j.pc # "idle" /\ ~IsRelease(j)
\* Before its send.
Fresh(j)    == Active(j) /\ j.pc \in {"fetch", "decide", "check", "send"}
Of(j)       == <<j.event, j.delivery>>

\* A delivery is with one worker, who is not the one its event is seen by,
\* has no failure in the ledger, has sent nothing before its send, and once
\* it is to be marked, the ledger has the line of its effect.
JobOfDelivery(j) ==
  Active(j) =>
    /\ j.delivery <= attempts[j.event]
    /\ Remembers(seen, j.event) => seen[j.event] # j.delivery
    /\ \A i \in 1..Len(ledger) : Of(ledger[i]) = Of(j) =>
         /\ ledger[i].kind # "webhook_handler_failed"
         /\ j.pc = "mark" /\ ledger[i].kind = "webhook_received" =>
              \E k \in i..Len(ledger) : ledger[k].event = j.event /\ Settles(ledger[k])
    /\ Fresh(j) => \A i \in 1..Len(messages) : Of(messages[i].by) # Of(j)

\* Nothing is remembered of a delivery that is still to come.
NothingOfTheFuture ==
  /\ \A e \in DOMAIN seen : seen[e] \in 1..attempts[e]
  /\ \A i \in 1..Len(ledger) :
       ledger[i].event \in Events => ledger[i].delivery <= attempts[ledger[i].event]
  /\ \A i \in 1..Len(messages) :
       messages[i].by.delivery <= attempts[messages[i].by.event]

Delivered ==
  /\ NothingOfTheFuture
  /\ \A w \in Workers : JobOfDelivery(work[w])
  /\ \A v, w \in Workers :
       v # w /\ Active(work[v]) /\ Active(work[w]) => Of(work[v]) # Of(work[w])
  /\ SeenMeansSettled /\ OneAutoReplyPerDelivery

-----------------------------------------------------------------------------
(* Stories.                                                                *)

\* The first n lines tell that e was received, drafted for and judged: under
\* decision id, with this outcome.
Told(e, id, outcome, n) ==
  \E r \in 1..n : /\ ledger[r].kind = "webhook_received" /\ ledger[r].event = e
    /\ \E d \in r..n : /\ ledger[d].kind = "draft_generated" /\ ledger[d].event = e
       /\ \E g \in d..n : /\ ledger[g].kind = "gate_decision" /\ ledger[g].event = e
                          /\ ledger[g].decision = id /\ ledger[g].says = outcome

ToldOf(d, e) == Told(e, d.id, d.outcome, Len(ledger))

Unnamed(n) == \A i \in 1..Len(ledger) : ledger[i].message # n

JobTold(j) ==
  /\ j.pc \in {"fetch", "decide"} =>
       \E r \in 1..Len(ledger) : ledger[r].kind = "webhook_received" /\ ledger[r].event = j.event
  /\ Decided(j) =>
       /\ ToldOf(j.decision, j.event)
       /\ j.decision.outcome = IF IsRelease(j) THEN "draft_for_human" ELSE "auto_send"
  /\ j.pc \in {"spend", "record"} => j.message \in 1..Len(messages) /\ Unnamed(j.message)

OutcomeFor(mode) == IF mode = "auto" THEN "auto_send" ELSE "draft_for_human"

\* A line that names a message is the only one that names it, and it ends a
\* story.
LineTold(s) ==
  /\ ledger[s].message \in 0..Len(messages)
  /\ ledger[s].kind = "message_sent" =>
       /\ ledger[s].message # 0
       /\ Told(ledger[s].event, ledger[s].decision, OutcomeFor(ledger[s].says), s)
  /\ ledger[s].message # 0 =>
       \A i \in 1..Len(ledger) : ledger[i].message = ledger[s].message => i = s

Storied ==
  /\ \A s \in 1..Len(ledger) : LineTold(s)
  /\ \A id \in DOMAIN pending :
       /\ ToldOf(pending[id].decision, pending[id].event)
       /\ pending[id].decision.outcome = "draft_for_human"
  /\ \A w \in Workers : JobTold(work[w])
  /\ \A v, w \in Workers :
       v # w /\ work[v].pc \in {"spend", "record"} /\ work[w].pc \in {"spend", "record"} =>
         work[v].message # work[w].message

-----------------------------------------------------------------------------
(* Questions.                                                              *)

\* Whoever is about to mark a question as seen knows that it is attended to.
MarksAttended ==
  \A w \in Workers :
    work[w].pc = "mark" /\ KindOf[work[w].event] = "inbound" => Attended(work[w].event)

-----------------------------------------------------------------------------
(* What a step writes.                                                     *)

\* A line of this kind that names no message.
Is(l, kind, e, n) == l.kind = kind /\ l.event = e /\ l.delivery = n /\ l.message = 0

LedgerGrows ==
  /\ Len(ledger) \in Nat /\ Len(ledger') \in Nat /\ Len(ledger) <= Len(ledger')
  /\ ledger' \in Seq(Lines)
  /\ \A i \in 1..Len(ledger) : ledger'[i] = ledger[i]

JobIs(k, pc, e, n) == k \in Jobs /\ k.pc = pc /\ k.event = e /\ k.delivery = n

\* A step of one worker.
Moves(w) == work' \in [Workers -> Jobs] /\ \A v \in Workers \ {w} : work'[v] = work[v]

LEMMA TypesOf ==
  ASSUME IInv
  PROVE  /\ ledger \in Seq(Lines) /\ Len(ledger) \in Nat
         /\ messages \in Seq(Messages) /\ Len(messages) \in Nat
         /\ work \in [Workers -> Jobs] /\ attempts \in [Events -> Nat]
         /\ DOMAIN seen \subseteq Events /\ seen \in [DOMAIN seen -> Nat]
         /\ DOMAIN spent \subseteq Nat
         /\ decisions \in Nat /\ DOMAIN pending \subseteq Nat
         /\ pending \in [DOMAIN pending -> Parked] /\ env \in [EnvKinds -> Nat]
BY DEF IInv, TypeOK

LEMMA JobTypes ==
  ASSUME IInv, NEW w \in Workers
  PROVE  /\ work[w] \in Jobs /\ work[w].delivery \in Nat /\ work[w].message \in Nat
         /\ work[w].pc # "idle" => work[w].event \in Events
         /\ Decided(work[w]) =>
              work[w].decision \in Decisions /\ work[w].decision.id \in Nat
<1>1. work[w] \in Jobs
  BY TypesOf
<1>2. JobOK(work[w])
  BY DEF IInv, WorkOK
<1> QED
  BY <1>1, <1>2 DEF JobOK, Jobs, Decisions, Decided

LEMMA LineTypes ==
  ASSUME NEW s \in Seq(Lines), NEW i \in 1..Len(s)
  PROVE  /\ s[i] \in Lines /\ s[i].delivery \in Nat /\ s[i].message \in Nat
         /\ s[i].event \in Events \cup {None}
<1>1. s[i] \in Lines
  OBVIOUS
<1> QED
  BY <1>1 DEF Lines

LEMMA MessageTypes ==
  ASSUME NEW s \in Seq(Messages), NEW i \in 1..Len(s)
  PROVE  /\ s[i] \in Messages /\ s[i].by.delivery \in Nat /\ s[i].by.event \in Events
         /\ s[i].by.decision \in Decisions
<1>1. s[i] \in Messages
  OBVIOUS
<1> QED
  BY <1>1 DEF Messages

LEMMA GoesTo ==
  ASSUME IInv, NEW w \in Workers, NEW j \in Jobs, Goto(w, j)
  PROVE  Moves(w) /\ work'[w] = j
BY TypesOf DEF Goto, Moves

LEMMA Wrote ==
  ASSUME IInv, NEW s \in Seq(Lines), Record(s)
  PROVE  /\ LedgerGrows /\ Len(ledger') = Len(ledger) + Len(s)
         /\ \A i \in 1..Len(s) : ledger'[Len(ledger) + i] = s[i]
<1>1. ledger \in Seq(Lines) /\ Len(ledger) \in Nat /\ Len(s) \in Nat
  BY TypesOf
<1>2. ledger' = ledger \o s
  BY DEF Record
<1>3. /\ ledger' \in Seq(Lines) /\ Len(ledger') = Len(ledger) + Len(s)
      /\ \A i \in 1..(Len(ledger) + Len(s)) :
           ledger'[i] = IF i <= Len(ledger) THEN ledger[i] ELSE s[i - Len(ledger)]
  BY <1>1, <1>2, ConcatProperties
<1>4. \A i \in 1..Len(ledger) : ledger'[i] = ledger[i]
  BY <1>1, <1>3
<1>5. ASSUME NEW i \in 1..Len(s) PROVE ledger'[Len(ledger) + i] = s[i]
  <2>1. /\ Len(ledger) + i \in 1..(Len(ledger) + Len(s)) /\ ~(Len(ledger) + i <= Len(ledger))
        /\ (Len(ledger) + i) - Len(ledger) = i
    BY <1>1
  <2> QED
    BY <1>3, <2>1
<1> QED
  BY <1>1, <1>3, <1>4, <1>5 DEF LedgerGrows

LEMMA WroteOne ==
  ASSUME IInv, NEW l \in Lines, Record(<<l>>)
  PROVE  LedgerGrows /\ Len(ledger') = Len(ledger) + 1 /\ ledger'[Len(ledger) + 1] = l
<1>1. <<l>> \in Seq(Lines) /\ Len(<<l>>) = 1 /\ <<l>>[1] = l
  OBVIOUS
<1> DEFINE s == <<l>>
<1> HIDE DEF s
<1>2. 1 \in 1..Len(s) /\ Record(s) /\ s \in Seq(Lines) /\ Len(s) = 1 /\ s[1] = l
  BY <1>1 DEF s
<1> QED
  BY <1>2, Wrote

LEMMA WroteTwo ==
  ASSUME IInv, NEW l \in Lines, NEW m \in Lines, Record(<<l, m>>)
  PROVE  /\ LedgerGrows /\ Len(ledger') = Len(ledger) + 2
         /\ ledger'[Len(ledger) + 1] = l /\ ledger'[Len(ledger) + 2] = m
<1>1. <<l, m>> \in Seq(Lines) /\ Len(<<l, m>>) = 2 /\ <<l, m>>[1] = l /\ <<l, m>>[2] = m
  OBVIOUS
<1> DEFINE s == <<l, m>>
<1> HIDE DEF s
<1>2. /\ 1 \in 1..Len(s) /\ 2 \in 1..Len(s) /\ Record(s) /\ s \in Seq(Lines)
      /\ Len(s) = 2 /\ s[1] = l /\ s[2] = m
  BY <1>1 DEF s
<1> QED
  BY <1>2, Wrote

\* Two lines, then the lines of t.
LEMMA WroteMore ==
  ASSUME IInv, NEW l \in Lines, NEW m \in Lines, NEW t \in Seq(Lines), Record(<<l, m>> \o t)
  PROVE  /\ LedgerGrows /\ Len(ledger') = Len(ledger) + 2 + Len(t)
         /\ ledger'[Len(ledger) + 1] = l /\ ledger'[Len(ledger) + 2] = m
         /\ \A i \in 1..Len(t) : ledger'[Len(ledger) + 2 + i] = t[i]
<1>1. <<l, m>> \in Seq(Lines) /\ Len(<<l, m>>) = 2 /\ <<l, m>>[1] = l /\ <<l, m>>[2] = m
  OBVIOUS
<1> DEFINE u == <<l, m>>
           s == u \o t
<1> HIDE DEF u
<1>2. u \in Seq(Lines) /\ Len(u) = 2 /\ u[1] = l /\ u[2] = m /\ Len(t) \in Nat
  BY <1>1 DEF u
<1>3. /\ s \in Seq(Lines) /\ Len(s) = 2 + Len(t)
      /\ \A i \in 1..(2 + Len(t)) : s[i] = IF i <= 2 THEN u[i] ELSE t[i - 2]
  <2>1. /\ s \in Seq(Lines) /\ Len(s) = Len(u) + Len(t)
        /\ \A i \in 1..(Len(u) + Len(t)) : s[i] = IF i <= Len(u) THEN u[i] ELSE t[i - Len(u)]
    BY <1>2, ConcatProperties, ZenonT(60)
  <2> HIDE DEF s
  <2> QED
    BY <1>2, <2>1
<1>4. Record(s)
  BY DEF u
<1> HIDE DEF s
<1>5. /\ LedgerGrows /\ Len(ledger') = Len(ledger) + (2 + Len(t)) /\ Len(ledger) \in Nat
      /\ \A i \in 1..(2 + Len(t)) : ledger'[Len(ledger) + i] = s[i]
  BY <1>3, <1>4, Wrote, TypesOf
<1>6. s[1] = l /\ s[2] = m /\ \A i \in 1..Len(t) : s[2 + i] = t[i]
  BY <1>2, <1>3
<1>7. /\ 1 \in 1..(2 + Len(t)) /\ 2 \in 1..(2 + Len(t))
      /\ \A i \in 1..Len(t) :
           2 + i \in 1..(2 + Len(t)) /\ Len(ledger) + (2 + i) = Len(ledger) + 2 + i
  BY <1>2, <1>5
<1>8. ASSUME NEW i \in 1..Len(t) PROVE ledger'[Len(ledger) + 2 + i] = t[i]
  BY <1>5, <1>6, <1>7
<1>9. Len(ledger') = Len(ledger) + 2 + Len(t)
  BY <1>2, <1>5
<1> QED
  BY <1>5, <1>6, <1>7, <1>8, <1>9

LEMMA WroteNothing ==
  ASSUME IInv, UNCHANGED ledger
  PROVE  LedgerGrows
BY TypesOf DEF LedgerGrows

\* A forged or malformed delivery, one already seen, or one whose key the
\* store would not look up.
TurnsAway(w) ==
  \/ RejectForged(w)
  \/ \E e \in Events : ReceiveMalformed(w, e) \/ ReceiveDuplicate(w, e) \/ LookupFails(w, e)

\* The line that records it, if there is one.
LEMMA TurnAwayIs ==
  ASSUME IInv, NEW w \in Workers, TurnsAway(w)
  PROVE  /\ LedgerGrows
         /\ \A i \in (Len(ledger) + 1)..Len(ledger') :
              /\ ledger'[i].message = 0
              /\ ledger'[i].kind \in {"webhook_rejected", "webhook_malformed", "webhook_duplicate"}
              /\ ledger'[i].event \in Events =>
                   /\ ledger'[i].delivery = attempts[ledger'[i].event] + 1
                   /\ attempts'[ledger'[i].event] = ledger'[i].delivery
         /\ \A e \in Events : attempts[e] <= attempts'[e]
         /\ UNCHANGED <<stores, decisions, pending, messages, work>>
         /\ env'["crash"] = env["crash"] /\ env'["store_fails"] = env["store_fails"]
         /\ work[w].pc = "idle"
<1>1. /\ ledger \in Seq(Lines) /\ Len(ledger) \in Nat /\ env \in [EnvKinds -> Nat]
      /\ attempts \in [Events -> Nat]
  BY TypesOf
<1>2. ASSUME NEW l \in Lines, Record(<<l>>)
      PROVE  LedgerGrows /\ \A i \in (Len(ledger) + 1)..Len(ledger') : ledger'[i] = l
  <2>1. LedgerGrows /\ Len(ledger') = Len(ledger) + 1 /\ ledger'[Len(ledger) + 1] = l
    BY <1>2, WroteOne
  <2>2. \A i \in (Len(ledger) + 1)..Len(ledger') : i = Len(ledger) + 1
    BY <1>1, <2>1
  <2> QED
    BY <2>1, <2>2
<1>3. CASE RejectForged(w)
  <2>1. PICK l : l = Line("webhook_rejected", None)
    OBVIOUS
  <2>2. Record(<<l>>) /\ l \in Lines
    BY <1>3, <2>1, LineType DEF RejectForged, LineKinds
  <2>3. l.event \notin Events /\ l.message = 0 /\ l.kind = "webhook_rejected"
    BY <2>1, EventAssumption DEF Line
  <2>4. env'["crash"] = env["crash"] /\ env'["store_fails"] = env["store_fails"]
    BY <1>1, <1>3 DEF RejectForged, Disturb, EnvKinds
  <2> QED
    BY <1>1, <1>2, <1>3, <2>2, <2>3, <2>4 DEF RejectForged, Pc
<1>4. ASSUME NEW e \in Events, NextAttempt(w, e), UNCHANGED work
      PROVE  /\ \A x \in Events : attempts[x] <= attempts'[x]
             /\ attempts'[e] = attempts[e] + 1 /\ attempts[e] + 1 \in Nat
             /\ UNCHANGED <<stores, decisions, pending, messages, work>>
             /\ work[w].pc = "idle"
  BY <1>1, <1>4 DEF NextAttempt, Pc
<1>5. ASSUME NEW e \in Events, NEW kind \in {"webhook_malformed", "webhook_duplicate"},
             NEW v \in {e, None}, NextAttempt(w, e), UNCHANGED <<work, env>>,
             Record(<<[Line(kind, v) EXCEPT !.delivery = attempts[e] + 1]>>)
      PROVE  /\ LedgerGrows
             /\ \A i \in (Len(ledger) + 1)..Len(ledger') :
                  /\ ledger'[i].message = 0 /\ ledger'[i].kind = kind
                  /\ ledger'[i].event \in Events =>
                       /\ ledger'[i].delivery = attempts[ledger'[i].event] + 1
                       /\ attempts'[ledger'[i].event] = ledger'[i].delivery
  <2>1. PICK n \in Nat : n = attempts[e] + 1 /\ attempts'[e] = n
    BY <1>4, <1>5
  <2>2. PICK l : l = [Line(kind, v) EXCEPT !.delivery = n]
    OBVIOUS
  <2>3. Record(<<l>>) /\ l \in Lines
    <3>1. Line(kind, v) \in Lines
      BY LineType DEF LineKinds
    <3> QED
      BY <1>5, <2>1, <2>2, <3>1, DetailType
  <2>4. l.message = 0 /\ l.kind = kind /\ l.event = v /\ l.delivery = n
    BY <2>2 DEF Line
  <2>5. v \in Events => v = e
    BY EventAssumption
  <2> QED
    BY <1>2, <2>1, <2>3, <2>4, <2>5
<1>6. ASSUME NEW e \in Events, LookupFails(w, e)
      PROVE  /\ LedgerGrows /\ \A i \in (Len(ledger) + 1)..Len(ledger') : FALSE
             /\ env'["crash"] = env["crash"] /\ env'["store_fails"] = env["store_fails"]
             /\ NextAttempt(w, e) /\ UNCHANGED work
  <2>1. UNCHANGED <<ledger, work>> /\ NextAttempt(w, e)
    BY <1>6 DEF LookupFails
  <2>2. env'["crash"] = env["crash"] /\ env'["store_fails"] = env["store_fails"]
    BY <1>1, <1>6 DEF LookupFails, Disturb, EnvKinds
  <2>3. \A i \in (Len(ledger) + 1)..Len(ledger') : FALSE
    BY <1>1, <2>1
  <2> QED
    BY <2>1, <2>2, <2>3, WroteNothing
<1>7. CASE \E e \in Events : ReceiveMalformed(w, e) \/ ReceiveDuplicate(w, e) \/ LookupFails(w, e)
  <2>1. PICK e \in Events : ReceiveMalformed(w, e) \/ ReceiveDuplicate(w, e) \/ LookupFails(w, e)
    BY <1>7
  <2>2. CASE ReceiveMalformed(w, e)
    <3>1. /\ NextAttempt(w, e) /\ UNCHANGED <<work, env>>
          /\ Record(<<[Line("webhook_malformed", None) EXCEPT !.delivery = attempts[e] + 1]>>)
      BY <2>2 DEF ReceiveMalformed
    <3> QED
      BY <1>4, <1>5, <3>1
  <2>3. CASE ReceiveDuplicate(w, e)
    <3>1. /\ NextAttempt(w, e) /\ UNCHANGED <<work, env>>
          /\ Record(<<[Line("webhook_duplicate", e) EXCEPT !.delivery = attempts[e] + 1]>>)
      BY <2>3 DEF ReceiveDuplicate
    <3> QED
      BY <1>4, <1>5, <3>1
  <2>4. CASE LookupFails(w, e)
    BY <1>4, <1>6, <2>4
  <2> QED
    BY <2>1, <2>2, <2>3, <2>4
<1> QED
  BY <1>3, <1>7 DEF TurnsAway

\* A new event: its delivery is recorded, and what it turns out to be.
LEMMA TakeIs ==
  ASSUME IInv, NEW w \in Workers, NEW e \in Events, ReceiveNew(w, e),
         NEW n \in Nat, n = attempts[e] + 1
  PROVE  /\ LedgerGrows /\ Is(ledger'[Len(ledger) + 1], "webhook_received", e, n)
         /\ ~Remembers(seen, e) /\ work[w].pc = "idle"
         /\ UNCHANGED <<stores, decisions, pending, messages, env>>
         /\ attempts' = [attempts EXCEPT ![e] = n]
         /\ Moves(w)
         /\ \/ /\ UNCHANGED work /\ Len(ledger') = Len(ledger) + 2
               /\ Is(ledger'[Len(ledger) + 2], "webhook_handler_failed", e, n)
            \/ /\ JobIs(work'[w], "mark", e, n) /\ Len(ledger') = Len(ledger) + 2
               /\ KindOf[e] = "ignored"
               /\ Is(ledger'[Len(ledger) + 2], "event_ignored", e, 0)
            \/ JobIs(work'[w], "fetch", e, n) /\ Len(ledger') = Len(ledger) + 1
<1> DEFINE j == [Idle EXCEPT !.event = e, !.delivery = n]
           l == [Line("webhook_received", e) EXCEPT !.delivery = n]
           m == Line("event_ignored", e)
<1>1. ledger \in Seq(Lines) /\ Len(ledger) \in Nat /\ work \in [Workers -> Jobs]
  BY TypesOf
<1>2. l \in Lines /\ m \in Lines
  BY <1>1, LineType, DetailType DEF LineKinds
<1>3. Is(l, "webhook_received", e, n) /\ Is(m, "event_ignored", e, 0)
  BY DEF Is, Line
<1>4. j \in Jobs /\ j.event = e /\ j.delivery = n
  BY <1>1 DEF Idle, Jobs, Steps
<1>5. Failed(j) \in Lines /\ Is(Failed(j), "webhook_handler_failed", e, n)
  BY <1>4, FailedType DEF Failed, Is, Line
<1>6. /\ ~Remembers(seen, e) /\ work[w].pc = "idle"
      /\ UNCHANGED <<stores, decisions, pending, messages, env>>
      /\ attempts' = [attempts EXCEPT ![e] = n]
  BY DEF ReceiveNew, NextAttempt, IsDuplicate, Pc
<1>7. \/ Record(<<l, Failed(j)>>) /\ UNCHANGED work
      \/ Record(<<l, m>>) /\ Goto(w, [j EXCEPT !.pc = "mark"]) /\ KindOf[e] = "ignored"
      \/ Record(<<l>>) /\ Goto(w, [j EXCEPT !.pc = "fetch"])
  BY DEF ReceiveNew
<1>8. \A pc \in {"mark", "fetch"} : JobIs([j EXCEPT !.pc = pc], pc, e, n)
  BY <1>4 DEF JobIs, Jobs, Steps
<1> HIDE DEF j, l, m
<1>9. CASE Record(<<l, Failed(j)>>) /\ UNCHANGED work
  <2>1. Moves(w)
    BY <1>1, <1>9 DEF Moves
  <2> QED
    BY <1>2, <1>3, <1>5, <1>6, <1>9, <2>1, WroteTwo
<1>10. CASE Record(<<l, m>>) /\ Goto(w, [j EXCEPT !.pc = "mark"]) /\ KindOf[e] = "ignored"
  <2>1. Moves(w) /\ JobIs(work'[w], "mark", e, n)
    BY <1>8, <1>10, GoesTo DEF JobIs
  <2> QED
    BY <1>2, <1>3, <1>6, <1>10, <2>1, WroteTwo
<1>11. CASE Record(<<l>>) /\ Goto(w, [j EXCEPT !.pc = "fetch"])
  <2>1. Moves(w) /\ JobIs(work'[w], "fetch", e, n)
    BY <1>8, <1>11, GoesTo DEF JobIs
  <2> QED
    BY <1>2, <1>3, <1>6, <1>11, <2>1, WroteOne
<1> QED
  BY <1>7, <1>9, <1>10, <1>11

\* The contact is fetched; nothing the records hold changes.
LEMMA FetchIs ==
  ASSUME IInv, NEW w \in Workers, FetchContact(w)
  PROVE  /\ work[w].pc = "fetch" /\ Moves(w) /\ LedgerGrows
         /\ JobIs(work'[w], "decide", work[w].event, work[w].delivery)
         /\ UNCHANGED <<stores, decisions, pending, ledger, messages, attempts, env>>
<1> DEFINE j == work[w]
           b == ContactOf[j.event] \in optedOut
           k == [j EXCEPT !.pc = "decide", !.optedOut = b]
<1>1. j \in Jobs /\ b \in BOOLEAN
  BY JobTypes
<1>3. Goto(w, k) /\ j.pc = "fetch"
  BY DEF FetchContact, Pc
<1> HIDE DEF b
<1>2. k \in Jobs /\ k.pc = "decide" /\ k.event = j.event /\ k.delivery = j.delivery
  BY <1>1 DEF Jobs, Steps
<1>4. UNCHANGED <<stores, decisions, pending, ledger, messages, attempts, env>>
  BY DEF FetchContact
<1> HIDE DEF k
<1>5. Moves(w) /\ work'[w] = k
  BY <1>2, <1>3, GoesTo
<1> QED
  BY <1>2, <1>3, <1>4, <1>5, WroteNothing DEF JobIs

\* The guard knows its own approvals by their content: it stops one whose id
\* is spent.
LEMMA GuardStopsSpent ==
  ASSUME NEW d \in Decisions, NEW mode \in Modes
  PROVE  GuardRefuses(Approval(d, mode), d.reading.draft) <=> d.id \in DOMAIN spent
<1>1. d.reading.draft \in Drafts /\ d.id \in Nat
  BY DEF Decisions, Readings
<1>2. content_fingerprint(d.reading.draft) \in Contacts \X Bodies
  BY <1>1 DEF content_fingerprint, Drafts
<1>3. Approval(d, mode) \in Approvals
  BY <1>1, <1>2 DEF Approval, Approvals
<1>4. Approval(d, mode) # None
  BY <1>3, EventAssumption
<1> QED
  BY <1>4 DEF GuardRefuses, Approval, Remembers

\* What the gate's decision d does for worker w.
Judged(w, d, more) ==
  /\ d \in Decisions /\ d.id = decisions + 1 /\ Sound(d, work[w].event)
  /\ work[w].pc = "decide" /\ decisions' = d.id /\ UNCHANGED <<stores, messages, attempts, env>>
  /\ LedgerGrows /\ Moves(w)
  /\ Is(ledger'[Len(ledger) + 1], "draft_generated", work[w].event, 0)
  /\ Is(ledger'[Len(ledger) + 2], "gate_decision", work[w].event, 0)
  /\ ledger'[Len(ledger) + 2].decision = d.id /\ ledger'[Len(ledger) + 2].says = d.outcome
  /\ Len(ledger') = Len(ledger) + 2 + more

IsSubmitted(w, d) ==
  /\ Judged(w, d, 0) /\ d.outcome = "auto_send" /\ UNCHANGED pending
  /\ JobIs(work'[w], "check", work[w].event, work[w].delivery) /\ work'[w].decision = d

IsParked(w, d) ==
  /\ Judged(w, d, 1) /\ d.outcome = "draft_for_human"
  /\ pending' = SetKey(pending, d.id, [decision |-> d, event |-> work[w].event])
  /\ JobIs(work'[w], "mark", work[w].event, work[w].delivery)
  /\ Is(ledger'[Len(ledger) + 3], "message_drafted", work[w].event, 0)

IsBlocked(w, d) ==
  /\ Judged(w, d, 1) /\ UNCHANGED pending
  /\ JobIs(work'[w], "mark", work[w].event, work[w].delivery)
  /\ Is(ledger'[Len(ledger) + 3], "message_blocked", work[w].event, 0)

LEMMA DecideIs ==
  ASSUME IInv, NEW w \in Workers, Decide(w)
  PROVE  \E d \in Decisions :
           IsSubmitted(w, d) \/ IsParked(w, d) \/ IsBlocked(w, d)
<1> DEFINE j == work[w]
           e == j.event
<1>1. /\ j \in Jobs /\ e \in Events /\ j.pc = "decide" /\ open \in BOOLEAN
      /\ decisions + 1 \in Nat /\ j.delivery \in Nat
  BY JobTypes, TypesOf, SMTT(60) DEF Decide, Pc, IInv, TypeOK
<1>2. PICK body \in Bodies :
        LET d    == Decision(decisions + 1, Reading(j, body))
            said == <<Line("draft_generated", e),
                      [Line("gate_decision", e) EXCEPT !.decision = d.id, !.says = d.outcome]>>
        IN  Submit(w, d, said) \/ Park(w, d, said) \/ Block(w, d, said)
  BY DEF Decide, NextId
<1> DEFINE d == Decision(decisions + 1, Reading(j, body))
<1>3. d \in Decisions /\ Sound(d, e) /\ d.id = decisions + 1
  BY <1>1, DecisionSound
<1>15. work[w].pc = "decide" /\ decisions' = d.id /\ UNCHANGED <<stores, messages, attempts, env>>
  BY <1>1, <1>3 DEF Decide, NextId
<1> HIDE DEF d
<1> DEFINE a == Line("draft_generated", e)
           b == [Line("gate_decision", e) EXCEPT !.decision = d.id, !.says = d.outcome]
<1>4. Submit(w, d, <<a, b>>) \/ Park(w, d, <<a, b>>) \/ Block(w, d, <<a, b>>)
  BY <1>2 DEF d
<1>5. a \in Lines /\ b \in Lines
  BY <1>1, <1>3, LineType, DetailType DEF LineKinds, Decisions
<1>6. /\ Is(a, "draft_generated", e, 0) /\ Is(b, "gate_decision", e, 0)
      /\ b.decision = d.id /\ b.says = d.outcome
  BY DEF Is, Line
<1>7. JobIs([j EXCEPT !.pc = "mark"], "mark", e, j.delivery)
  BY <1>1 DEF JobIs, Jobs, Steps
<1>8. LET k == [j EXCEPT !.pc = "check", !.decision = d]
      IN  JobIs(k, "check", e, j.delivery) /\ k.decision = d
  BY <1>1, <1>3 DEF JobIs, Jobs, Steps
<1>9. \A kind \in LineKinds :
        LET l == [Line(kind, e) EXCEPT !.decision = d.id]
        IN  l \in Lines /\ Is(l, kind, e, 0)
  BY <1>1, <1>3, LineType, DetailType DEF Is, Line
<1> HIDE DEF a, b, e
<1>11. CASE Submit(w, d, <<a, b>>)
  <2> DEFINE k == [j EXCEPT !.pc = "check", !.decision = d]
  <2>1. /\ Record(<<a, b>>) /\ Goto(w, k) /\ UNCHANGED pending /\ d.outcome = "auto_send"
    BY <1>11 DEF Submit, CanApproveAuto
  <2>2. JobIs(k, "check", e, j.delivery) /\ k.decision = d
    BY <1>8
  <2> HIDE DEF k
  <2>3. Moves(w) /\ work'[w] = k
    BY <2>1, <2>2, GoesTo DEF JobIs
  <2>4. /\ LedgerGrows /\ Len(ledger') = Len(ledger) + 2
        /\ ledger'[Len(ledger) + 1] = a /\ ledger'[Len(ledger) + 2] = b
    BY <1>5, <2>1, WroteTwo
  <2>5. Len(ledger') = Len(ledger) + 2 + 0
    BY <2>4, TypesOf
  <2>6. Judged(w, d, 0)
    BY <1>3, <1>6, <1>15, <2>3, <2>4, <2>5 DEF Judged, e
  <2> QED
    BY <1>3, <2>1, <2>2, <2>3, <2>6 DEF IsSubmitted, e
<1>13. CASE Park(w, d, <<a, b>>)
  <2> DEFINE l == [Line("message_drafted", e) EXCEPT !.decision = d.id]
             t == <<l>>
             k == [j EXCEPT !.pc = "mark"]
  <2>1. /\ Record(<<a, b>> \o t) /\ Goto(w, k) /\ d.outcome = "draft_for_human"
        /\ pending' = SetKey(pending, d.id, [decision |-> d, event |-> e])
    BY <1>13 DEF Park, e
  <2>2. l \in Lines /\ Is(l, "message_drafted", e, 0) /\ JobIs(k, "mark", e, j.delivery)
    BY <1>7, <1>9 DEF LineKinds
  <2> HIDE DEF l, k
  <2>3. t \in Seq(Lines) /\ Len(t) = 1 /\ t[1] = l
    BY <2>2
  <2> HIDE DEF t
  <2>4. /\ LedgerGrows /\ Len(ledger') = Len(ledger) + 2 + Len(t)
        /\ ledger'[Len(ledger) + 1] = a /\ ledger'[Len(ledger) + 2] = b
        /\ \A i \in 1..Len(t) : ledger'[Len(ledger) + 2 + i] = t[i]
    BY <1>5, <2>1, <2>3, WroteMore
  <2>5. ledger'[Len(ledger) + 3] = l
    <3>1. Len(ledger) + 2 + 1 = Len(ledger) + 3
      BY TypesOf
    <3> QED
      BY <2>3, <2>4, <3>1
  <2>6. Moves(w) /\ work'[w] = k
    BY <2>1, <2>2, GoesTo DEF JobIs
  <2>7. Judged(w, d, 1)
    BY <1>3, <1>6, <1>15, <2>3, <2>4, <2>6 DEF Judged, e
  <2> QED
    BY <1>3, <2>1, <2>2, <2>5, <2>6, <2>7 DEF IsParked, e
<1>14. CASE Block(w, d, <<a, b>>)
  <2> DEFINE l == [Line("message_blocked", e) EXCEPT !.decision = d.id]
             t == <<l>>
             k == [j EXCEPT !.pc = "mark"]
  <2>1. /\ Record(<<a, b>> \o t) /\ Goto(w, k) /\ UNCHANGED pending
    BY <1>14 DEF Block, e
  <2>2. l \in Lines /\ Is(l, "message_blocked", e, 0) /\ JobIs(k, "mark", e, j.delivery)
    BY <1>7, <1>9 DEF LineKinds
  <2> HIDE DEF l, k
  <2>3. t \in Seq(Lines) /\ Len(t) = 1 /\ t[1] = l
    BY <2>2
  <2> HIDE DEF t
  <2>4. /\ LedgerGrows /\ Len(ledger') = Len(ledger) + 2 + Len(t)
        /\ ledger'[Len(ledger) + 1] = a /\ ledger'[Len(ledger) + 2] = b
        /\ \A i \in 1..Len(t) : ledger'[Len(ledger) + 2 + i] = t[i]
    BY <1>5, <2>1, <2>3, WroteMore
  <2>5. ledger'[Len(ledger) + 3] = l
    <3>1. Len(ledger) + 2 + 1 = Len(ledger) + 3
      BY TypesOf
    <3> QED
      BY <2>3, <2>4, <3>1
  <2>6. Moves(w) /\ work'[w] = k
    BY <2>1, <2>2, GoesTo DEF JobIs
  <2>7. Judged(w, d, 1)
    BY <1>3, <1>6, <1>15, <2>3, <2>4, <2>6 DEF Judged, e
  <2> QED
    BY <1>3, <2>1, <2>2, <2>5, <2>6, <2>7 DEF IsBlocked, e
<1> QED
  BY <1>4, <1>11, <1>13, <1>14

-----------------------------------------------------------------------------
\* A call that gives up leaves the line that it failed, if it came by webhook,
\* and before it the line that the guard stopped a spent id.
GivesUp(w) ==
  /\ Moves(w) /\ work'[w] = Idle /\ LedgerGrows /\ work[w].pc \notin {"idle", "record"}
  /\ \A i \in (Len(ledger) + 1)..Len(ledger') :
       \/ ~IsRelease(work[w])
          /\ Is(ledger'[i], "webhook_handler_failed", work[w].event, work[w].delivery)
       \/ /\ work[w].pc = "check" /\ work[w].decision.id \in DOMAIN spent
          /\ Is(ledger'[i], "guard_breach", work[w].event, 0)

LEMMA FailureLinesAre ==
  ASSUME IInv, NEW w \in Workers
  PROVE  /\ FailureLines(work[w]) \in Seq(Lines)
         /\ \A i \in 1..Len(FailureLines(work[w])) :
              /\ ~IsRelease(work[w])
              /\ Is(FailureLines(work[w])[i], "webhook_handler_failed", work[w].event, work[w].delivery)
<1>1. FailureLines(work[w]) \in Seq(Lines)
  BY JobTypes, FailureType
<1>2. Is(Failed(work[w]), "webhook_handler_failed", work[w].event, work[w].delivery)
  BY DEF Failed, Line, Is
<1>3. PICK l : l = Failed(work[w])
  OBVIOUS
<1>4. \A i \in 1..Len(<<l>>) : <<l>>[i] = l
  OBVIOUS
<1>5. CASE IsRelease(work[w])
  <2>1. FailureLines(work[w]) = <<>> /\ Len(<<>>) = 0
    BY <1>5 DEF FailureLines
  <2> QED
    BY <1>1, <2>1
<1>6. CASE ~IsRelease(work[w])
  <2>1. FailureLines(work[w]) = <<l>>
    BY <1>3, <1>6 DEF FailureLines
  <2> QED
    BY <1>1, <1>2, <1>3, <1>4, <1>6, <2>1
<1> QED
  BY <1>5, <1>6

LEMMA RaiseIs ==
  ASSUME IInv, NEW w \in Workers, Raise(w), work[w].pc \notin {"idle", "record"}
  PROVE  /\ GivesUp(w)
         /\ \A i \in (Len(ledger) + 1)..Len(ledger') : ledger'[i].kind = "webhook_handler_failed"
<1>1. PICK t : t = FailureLines(work[w])
  OBVIOUS
<1>2. /\ t \in Seq(Lines) /\ Record(t) /\ Goto(w, Idle)
      /\ \A i \in 1..Len(t) :
           ~IsRelease(work[w]) /\ Is(t[i], "webhook_handler_failed", work[w].event, work[w].delivery)
  BY <1>1, FailureLinesAre DEF Raise
<1>3. Moves(w) /\ work'[w] = Idle
  BY <1>2, IdleOK, GoesTo
<1>4. /\ LedgerGrows /\ Len(ledger') = Len(ledger) + Len(t)
      /\ \A i \in 1..Len(t) : ledger'[Len(ledger) + i] = t[i]
  BY <1>2, Wrote
<1>5. ASSUME NEW i \in (Len(ledger) + 1)..Len(ledger')
      PROVE  ~IsRelease(work[w]) /\ Is(ledger'[i], "webhook_handler_failed", work[w].event, work[w].delivery)
  <2>1. /\ Len(ledger) \in Nat /\ Len(t) \in Nat /\ i \in Int
    BY <1>2, TypesOf
  <2>2. PICK x : x = i - Len(ledger)
    OBVIOUS
  <2>3. x \in 1..Len(t) /\ Len(ledger) + x = i
    BY <1>4, <2>1, <2>2
  <2> QED
    BY <1>2, <1>4, <2>3
<1>6. \A i \in (Len(ledger) + 1)..Len(ledger') : ledger'[i].kind = "webhook_handler_failed"
  BY <1>5 DEF Is
<1> QED
  BY <1>3, <1>4, <1>5, <1>6 DEF GivesUp

\* The guard refuses a call only for its id.
LEMMA StopIs ==
  ASSUME IInv, NEW w \in Workers, GuardStops(w)
  PROVE  /\ GivesUp(w) /\ work[w].pc = "check" /\ work[w].decision.id \in DOMAIN spent
         /\ UNCHANGED <<stores, decisions, pending, messages, attempts, env>>
<1>1. PICK t : t = FailureLines(work[w])
  OBVIOUS
<1>2. PICK b : b = Breach(work[w].event)
  OBVIOUS
<1>3. /\ t \in Seq(Lines) /\ Record(<<b>> \o t) /\ Goto(w, Idle) /\ work[w].pc = "check"
      /\ \A i \in 1..Len(t) :
           ~IsRelease(work[w]) /\ Is(t[i], "webhook_handler_failed", work[w].event, work[w].delivery)
  BY <1>1, <1>2, FailureLinesAre DEF GuardStops, Pc
<1>4. b \in Lines /\ Is(b, "guard_breach", work[w].event, 0)
  <2>1. work[w].event \in Events
    BY <1>3, JobTypes
  <2> QED
    BY <1>2, <2>1, LineType DEF Breach, LineKinds, Is, Line
<1>5. work[w].decision.id \in DOMAIN spent
  <2>1. work[w].decision \in Decisions /\ ModeOf(work[w]) \in Modes
    BY <1>3, JobTypes DEF Decided, ModeOf, Modes
  <2> QED
    BY <2>1, GuardStopsSpent DEF GuardStops, Refused
<1>6. Moves(w) /\ work'[w] = Idle
  BY <1>3, IdleOK, GoesTo
<1>7. PICK u : u = <<b>>
  OBVIOUS
<1>8. u \in Seq(Lines) /\ Len(u) = 1 /\ u[1] = b
  BY <1>4, <1>7
<1>9. PICK s : s = u \o t
  OBVIOUS
<1>10. /\ s \in Seq(Lines) /\ Len(s) = Len(u) + Len(t)
       /\ \A i \in 1..(Len(u) + Len(t)) : s[i] = IF i <= Len(u) THEN u[i] ELSE t[i - Len(u)]
  BY <1>3, <1>8, <1>9, ConcatProperties, ZenonT(60)
<1>11. ASSUME NEW i \in 1..Len(s) PROVE s[i] = b \/ \E k \in 1..Len(t) : s[i] = t[k]
  <2>1. Len(t) \in Nat /\ i \in 1..(1 + Len(t))
    BY <1>3, <1>8, <1>10
  <2>2. CASE i = 1
    BY <1>8, <1>10, <2>1, <2>2
  <2>3. CASE i # 1
    <3>1. i - 1 \in 1..Len(t) /\ ~(i <= 1)
      BY <2>1, <2>3
    <3>2. s[i] = t[i - 1]
      BY <1>8, <1>10, <2>1, <3>1
    <3> QED
      BY <3>1, <3>2
  <2> QED
    BY <2>2, <2>3
<1>12. /\ LedgerGrows /\ Len(ledger') = Len(ledger) + Len(s)
       /\ \A i \in 1..Len(s) : ledger'[Len(ledger) + i] = s[i]
  <2>1. Record(s)
    BY <1>3, <1>7, <1>9
  <2> QED
    BY <1>10, <2>1, Wrote
<1>13. ASSUME NEW i \in (Len(ledger) + 1)..Len(ledger')
       PROVE  ledger'[i] = b \/ \E k \in 1..Len(t) : ledger'[i] = t[k]
  <2>1. /\ Len(ledger) \in Nat /\ Len(s) \in Nat /\ i \in Int
    BY <1>10, TypesOf
  <2>2. PICK x : x = i - Len(ledger)
    OBVIOUS
  <2>3. x \in 1..Len(s) /\ Len(ledger) + x = i
    BY <1>12, <2>1, <2>2
  <2> QED
    BY <1>11, <1>12, <2>3
<1>14. GivesUp(w)
  BY <1>3, <1>4, <1>5, <1>6, <1>12, <1>13 DEF GivesUp
<1> QED
  BY <1>3, <1>5, <1>14 DEF GuardStops

LEMMA SameFaults ==
  ASSUME IInv, NEW k \in EnvKinds, Disturb(k)
  PROVE  /\ k # "crash" => env'["crash"] = env["crash"]
         /\ k # "store_fails" => env'["store_fails"] = env["store_fails"]
         /\ k = "store_fails" => env'["store_fails"] > 0
BY TypesOf DEF Disturb, EnvKinds

\* What a step does to the store of spent ids: nothing, or it writes the one
\* that worker w is to spend.
Writes(w) == work[w].pc = "spend" /\ spent' = SetKey(spent, work[w].decision.id, work[w].message)
KeepsSpent(w) == UNCHANGED spent \/ Writes(w)

\* The failures that leave no message behind.
LEMMA FailIs ==
  ASSUME IInv, NEW w \in Workers,
         SendRefused(w) \/ CallFails(w) \/ GuardStops(w) \/ (StoreFails(w) /\ UNCHANGED seen)
  PROVE  /\ GivesUp(w) /\ UNCHANGED <<durable, seen, decisions, pending, messages, attempts>>
         /\ env'["crash"] = env["crash"]
         /\ KeepsSpent(w) /\ (UNCHANGED spent \/ env'["store_fails"] > 0)
         /\ GuardStops(w) \/ \A i \in (Len(ledger) + 1)..Len(ledger') :
                                ledger'[i].kind # "guard_breach"
         /\ env'["store_fails"] > 0 \/ env'["store_fails"] = env["store_fails"]
<1>1. CASE SendRefused(w) \/ CallFails(w)
  <2>1. /\ UNCHANGED <<durable, seen, spent, decisions, pending, messages, attempts>>
        /\ Raise(w) /\ work[w].pc \notin {"idle", "record"}
    BY <1>1 DEF SendRefused, CallFails, Pc, stores
  <2>2. env'["crash"] = env["crash"] /\ env'["store_fails"] = env["store_fails"]
    BY <1>1, SameFaults DEF SendRefused, CallFails, EnvKinds
  <2> QED
    BY <2>1, <2>2, RaiseIs DEF KeepsSpent
<1>2. CASE GuardStops(w)
  BY <1>2, StopIs DEF KeepsSpent, stores
<1>3. CASE StoreFails(w) /\ UNCHANGED seen
  <2>1. /\ UNCHANGED <<durable, decisions, pending, messages, attempts>>
        /\ env'["crash"] = env["crash"] /\ env'["store_fails"] > 0
    BY <1>3, SameFaults DEF StoreFails, EnvKinds
  <2>2. CASE Pc(w, "spend") /\ Raise(w) /\ spent' \in {spent, Spent(work[w])}
    <3>1. work[w].pc = "spend" /\ KeepsSpent(w)
      BY <2>2 DEF Pc, Spent, KeepsSpent, Writes
    <3> QED
      BY <1>3, <2>1, <2>2, <3>1, RaiseIs
  <2>3. CASE Pc(w, "mark") /\ Goto(w, Idle) /\ UNCHANGED <<spent, ledger>>
    <3>1. Moves(w) /\ work'[w] = Idle /\ work[w].pc \notin {"idle", "record"}
      BY <2>3, IdleOK, GoesTo DEF Pc
    <3>2. \A i \in (Len(ledger) + 1)..Len(ledger') : FALSE
      BY <2>3, TypesOf
    <3> QED
      BY <1>3, <2>1, <2>3, <3>1, <3>2, WroteNothing DEF GivesUp, KeepsSpent
  <2> QED
    BY <1>3, <2>2, <2>3 DEF StoreFails
<1> QED
  BY <1>1, <1>2, <1>3

\* A message reaches the platform.
Posted(w) ==
  /\ work[w].pc = "send" /\ Len(messages') = Len(messages) + 1
  /\ messages' \in Seq(Messages)
  /\ \A i \in 1..Len(messages) : messages'[i] = messages[i]
  /\ messages'[Len(messages) + 1] = Outbound(work[w])
  /\ UNCHANGED <<stores, decisions, pending, attempts>>

LEMMA SendIs ==
  ASSUME IInv, NEW w \in Workers, Send(w)
  PROVE  Posted(w)
<1> DEFINE m == Outbound(work[w])
<1>1. messages' = Append(messages, m) /\ messages \in Seq(Messages)
  BY TypesOf DEF Send
<1>2. messages' \in Seq(Messages)
  BY SendOK
<1> HIDE DEF m
<1>3. /\ Len(messages') = Len(messages) + 1 /\ messages'[Len(messages) + 1] = m
      /\ \A i \in 1..Len(messages) : messages'[i] = messages[i]
  BY <1>1, AppendProperties
<1> QED
  BY <1>2, <1>3 DEF Send, Posted, Pc, m

\* Why it left.
LEMMA OutboundIs ==
  ASSUME IInv, NEW w \in Workers
  PROVE  LET m == Outbound(work[w]) IN
         /\ m.by.event = work[w].event /\ m.by.delivery = work[w].delivery
         /\ Of(m.by) = Of(work[w]) /\ (IsRelease(m.by) <=> IsRelease(work[w]))
         /\ <<m.contact, m.body>> = content_fingerprint(work[w].decision.reading.draft)
         /\ m.by.decision = work[w].decision
BY DEF Outbound, Of, IsRelease, content_fingerprint

LEMMA AcceptIs ==
  ASSUME IInv, NEW w \in Workers, SendAccepted(w)
  PROVE  /\ Posted(w) /\ Moves(w) /\ LedgerGrows /\ UNCHANGED <<ledger, env>>
         /\ JobIs(work'[w], "spend", work[w].event, work[w].delivery)
         /\ work'[w].decision = work[w].decision /\ work'[w].message = Len(messages) + 1
<1> DEFINE j == work[w]
           n == Len(messages) + 1
           k == [j EXCEPT !.pc = "spend", !.message = n]
<1>1. j \in Jobs /\ n \in Nat
  BY TypesOf, JobTypes
<1>2. Goto(w, k) /\ UNCHANGED <<ledger, env>> /\ Posted(w)
  BY SendIs DEF SendAccepted
<1> HIDE DEF n
<1>3. JobIs(k, "spend", j.event, j.delivery) /\ k.decision = j.decision /\ k.message = n
  BY <1>1 DEF JobIs, Jobs, Steps
<1> HIDE DEF k
<1>4. Moves(w) /\ work'[w] = k
  BY <1>2, <1>3, GoesTo DEF JobIs
<1> QED
  BY <1>2, <1>3, <1>4, WroteNothing DEF n

LEMMA LoseIs ==
  ASSUME IInv, NEW w \in Workers, SendReplyLost(w)
  PROVE  /\ Posted(w) /\ GivesUp(w) /\ env'["crash"] = env["crash"]
         /\ env'["store_fails"] = env["store_fails"]
         /\ \A i \in (Len(ledger) + 1)..Len(ledger') : ledger'[i].kind # "guard_breach"
<1>1. Posted(w) /\ work[w].pc \notin {"idle", "record"}
  BY SendIs DEF SendReplyLost, Posted
<1> QED
  BY <1>1, RaiseIs, SameFaults DEF SendReplyLost, EnvKinds

\* The guard lets the call through, or the store has kept its id.
LEMMA PassIs ==
  ASSUME IInv, NEW w \in Workers, GuardPasses(w) \/ Spend(w)
  PROVE  /\ Moves(w) /\ LedgerGrows /\ KeepsSpent(w)
         /\ \/ /\ GuardPasses(w) /\ work[w].pc = "check" /\ work'[w].pc = "send" /\ UNCHANGED spent
            \/ /\ Spend(w) /\ work[w].pc = "spend" /\ work'[w].pc = "record" /\ Writes(w)
         /\ work'[w].event = work[w].event /\ work'[w].delivery = work[w].delivery
         /\ work'[w].decision = work[w].decision /\ work'[w].message = work[w].message
         /\ UNCHANGED <<durable, seen, decisions, pending, ledger, messages, attempts, env>>
<1>1. PICK pc \in {"send", "record"} :
        /\ Goto(w, [work[w] EXCEPT !.pc = pc])
        /\ \/ GuardPasses(w) /\ work[w].pc = "check" /\ pc = "send" /\ UNCHANGED spent
           \/ Spend(w) /\ work[w].pc = "spend" /\ pc = "record" /\ Writes(w)
  BY DEF GuardPasses, Spend, Spent, Writes, Pc, stores
<1>2. PICK k : k = [work[w] EXCEPT !.pc = pc]
  OBVIOUS
<1>3. k \in Jobs /\ k.pc = pc /\ k.event = work[w].event /\ k.delivery = work[w].delivery
      /\ k.decision = work[w].decision /\ k.message = work[w].message
  BY <1>2, JobTypes DEF Jobs, Steps
<1>4. Moves(w) /\ work'[w] = k
  BY <1>1, <1>2, <1>3, GoesTo
<1>5. UNCHANGED <<durable, seen, decisions, pending, ledger, messages, attempts, env>>
  BY DEF GuardPasses, Spend, stores
<1> QED
  BY <1>1, <1>3, <1>4, <1>5, WroteNothing DEF KeepsSpent

LEMMA RecordIs ==
  ASSUME IInv, NEW w \in Workers, RecordSent(w)
  PROVE  /\ work[w].pc = "record" /\ Moves(w)
         /\ LedgerGrows /\ Len(ledger') = Len(ledger) + 1
         /\ LET l == ledger'[Len(ledger) + 1] IN
            /\ l.kind = "message_sent" /\ l.event = work[w].event /\ l.delivery = 0
            /\ l.decision = work[w].decision.id /\ l.message = work[w].message
            /\ l.says = ModeOf(work[w])
         /\ IF IsRelease(work[w])
            THEN pending' = DropKey(pending, work[w].decision.id) /\ work'[w] = Idle
            ELSE UNCHANGED pending /\ JobIs(work'[w], "mark", work[w].event, work[w].delivery)
         /\ UNCHANGED <<stores, decisions, messages, attempts, env>>
<1> DEFINE j == work[w]
           k == [j EXCEPT !.pc = "mark"]
           l == [Line("message_sent", j.event) EXCEPT
                   !.decision = j.decision.id, !.message = j.message, !.says = ModeOf(j)]
<1>1. j \in Jobs /\ j.pc = "record" /\ j.event \in Events /\ j.decision.id \in Nat /\ j.message \in Nat
  BY JobTypes DEF RecordSent, Pc, Decided
<1>2. /\ Record(<<l>>)
      /\ IF IsRelease(j) THEN pending' = DropKey(pending, j.decision.id) /\ Goto(w, Idle)
                         ELSE Goto(w, k) /\ UNCHANGED pending
      /\ UNCHANGED <<stores, decisions, messages, attempts, env>>
  BY DEF RecordSent
<1>3. l \in Lines
  <2>1. ModeOf(j) \in Outcomes \cup Modes \cup {None}
    BY DEF ModeOf, Modes
  <2>2. Line("message_sent", j.event) \in Lines
    BY <1>1, LineType DEF LineKinds
  <2> HIDE DEF j
  <2> QED
    BY <1>1, <2>1, <2>2, DetailType
<1>4. /\ l.kind = "message_sent" /\ l.event = j.event /\ l.delivery = 0
      /\ l.decision = j.decision.id /\ l.message = j.message /\ l.says = ModeOf(j)
  BY DEF Line
<1>5. JobIs(k, "mark", j.event, j.delivery)
  BY <1>1 DEF JobIs, Jobs, Steps
<1> HIDE DEF l, k
<1>6. LedgerGrows /\ Len(ledger') = Len(ledger) + 1 /\ ledger'[Len(ledger) + 1] = l
  BY <1>2, <1>3, WroteOne
<1>7. Moves(w) /\ work'[w] = IF IsRelease(j) THEN Idle ELSE k
  BY <1>2, <1>5, IdleOK, GoesTo DEF JobIs
<1> QED
  BY <1>1, <1>2, <1>4, <1>5, <1>6, <1>7

\* The store has kept the event's key, and perhaps raised.
LEMMA MarkIs ==
  ASSUME IInv, NEW w \in Workers, MarkSeen(w) \/ (StoreFails(w) /\ ~UNCHANGED seen)
  PROVE  /\ work[w].pc = "mark" /\ Moves(w) /\ LedgerGrows /\ work'[w] = Idle
         /\ seen' = SetKey(seen, work[w].event, work[w].delivery)
         /\ UNCHANGED <<durable, spent, decisions, pending, ledger, messages, attempts>>
         /\ env'["crash"] = env["crash"]
         /\ env'["store_fails"] > 0 \/ env'["store_fails"] = env["store_fails"]
<1>1. /\ work[w].pc = "mark" /\ Goto(w, Idle)
      /\ seen' = SetKey(seen, work[w].event, work[w].delivery)
      /\ UNCHANGED <<durable, spent, decisions, pending, ledger, messages, attempts>>
  BY DEF MarkSeen, StoreFails, Marked, Pc
<1>2. Moves(w) /\ work'[w] = Idle /\ LedgerGrows
  BY <1>1, IdleOK, GoesTo, WroteNothing
<1>3. /\ env'["crash"] = env["crash"]
      /\ env'["store_fails"] > 0 \/ env'["store_fails"] = env["store_fails"]
  BY SameFaults DEF MarkSeen, StoreFails, EnvKinds
<1> QED
  BY <1>1, <1>2, <1>3

LEMMA ReleaseIs ==
  ASSUME IInv, NEW w \in Workers, NEW id \in DOMAIN pending, ReleaseDraft(w, id)
  PROVE  /\ work[w].pc = "idle" /\ LedgerGrows /\ Moves(w)
         /\ UNCHANGED <<stores, decisions, pending, ledger, messages, attempts>>
         /\ env'["crash"] = env["crash"] /\ env'["store_fails"] = env["store_fails"]
         /\ JobIs(work'[w], "check", pending[id].event, 0)
         /\ work'[w].decision = pending[id].decision
<1>1. PICK p : p = pending[id]
  OBVIOUS
<1>2. p \in Parked /\ p.decision \in Decisions /\ p.event \in Events
  BY <1>1, TypesOf DEF Parked
<1>3. /\ work[w].pc = "idle" /\ Goto(w, OnRelease(p))
      /\ UNCHANGED <<stores, decisions, pending, ledger, messages, attempts>>
  BY <1>1 DEF ReleaseDraft, Pc
<1>4. env'["crash"] = env["crash"] /\ env'["store_fails"] = env["store_fails"]
  BY SameFaults DEF ReleaseDraft, EnvKinds
<1>5. PICK k : k = OnRelease(p)
  OBVIOUS
<1>6. JobIs(k, "check", p.event, 0) /\ k.decision = p.decision
  BY <1>2, <1>5 DEF OnRelease, Idle, JobIs, Jobs, Steps
<1>7. Moves(w) /\ work'[w] = k
  BY <1>3, <1>5, <1>6, GoesTo DEF JobIs
<1> QED
  BY <1>1, <1>3, <1>4, <1>6, <1>7, WroteNothing

\* The surroundings leave the records alone, short of a restart.
LEMMA QuietIs ==
  ASSUME IInv, UNCHANGED vars \/ OpenOrClose \/ \E c \in Contacts : ChangeOptOut(c)
  PROVE  /\ UNCHANGED <<stores, decisions, pending, ledger, messages, attempts, work>>
         /\ env'["crash"] = env["crash"] /\ env'["store_fails"] = env["store_fails"]
BY SameFaults DEF vars, OpenOrClose, ChangeOptOut, EnvKinds

-----------------------------------------------------------------------------
(* Decision ids, step by step.                                             *)

\* What the other workers know of their decisions stays true: ids grow, an
\* old id is parked only as it was, and messages stay.
NumbersGrow ==
  /\ decisions' \in Nat /\ decisions <= decisions'
  /\ \A id \in DOMAIN pending' : id \in 1..decisions => id \in DOMAIN pending /\ pending'[id] = pending[id]
  /\ Len(messages') \in Nat /\ Len(messages) <= Len(messages')
  /\ \A i \in 1..Len(messages) : messages'[i] = messages[i]

LEMMA JobsStayNumbered ==
  ASSUME IInv, Numbered, NumbersGrow, NEW w \in Workers, Moves(w), KeepsSpent(w),
         NEW k, k = work'[w], JobNumbered(k)', JobDelivered(k)',
         \A v \in Workers : v # w => Alike(work[v], k)
  PROVE  /\ (\A v \in Workers : JobNumbered(work[v]) /\ JobDelivered(work[v]))'
         /\ (\A u, v \in Workers : u # v => Alike(work[u], work[v]))'
<1>1. decisions \in Nat /\ Len(messages) \in Nat
  BY TypesOf
<1>2. ASSUME NEW v \in Workers, v # w
      PROVE  (JobNumbered(work[v]) /\ JobDelivered(work[v]))'
  <2>0. PICK j : j = work[v]
    OBVIOUS
  <2>1. work'[v] = j
    BY <1>2, <2>0 DEF Moves
  <2>2. JobNumbered(j) /\ JobDelivered(j)
    BY <2>0 DEF Numbered
  <2>3. ASSUME Decided(j)
        PROVE  /\ j.decision.id \in 1..decisions'
               /\ j.decision.id \in DOMAIN pending' => pending'[j.decision.id] = Parks(j) /\ IsRelease(j)
    <3>1. j.decision.id \in 1..decisions
      BY <2>2, <2>3 DEF JobNumbered
    <3>2. j.decision.id \in 1..decisions'
      BY <1>1, <3>1 DEF NumbersGrow
    <3>3. ASSUME j.decision.id \in DOMAIN pending'
          PROVE  pending'[j.decision.id] = Parks(j) /\ IsRelease(j)
      <4>1. j.decision.id \in DOMAIN pending /\ pending'[j.decision.id] = pending[j.decision.id]
        BY <3>1, <3>3 DEF NumbersGrow
      <4> QED
        BY <2>2, <2>3, <4>1 DEF JobNumbered
    <3> QED
      BY <3>2, <3>3
  <2>4. ASSUME NEW n, Carries(n, j) PROVE Carries(n, j)'
    <3>1. n \in 1..Len(messages') /\ messages'[n] = messages[n]
      BY <1>1, <2>4 DEF Carries, NumbersGrow
    <3> QED
      BY <2>4, <3>1 DEF Carries
  <2>5. ASSUME j.pc = "record"
        PROVE  (j.decision.id \in DOMAIN spent /\ Carries(spent[j.decision.id], j))'
    <3>1. PICK id : id = j.decision.id
      OBVIOUS
    <3>2. id \in DOMAIN spent /\ Carries(spent[id], j)
      BY <2>2, <2>5, <3>1 DEF JobDelivered
    <3>3. CASE Writes(w) /\ work[w].decision.id = id
      <4>1. PICK i : i = work[w]
        OBVIOUS
      <4>2. Parks(i) = Parks(j)
        <5>1. Decided(i) /\ Decided(j)
          BY <2>5, <3>3, <4>1 DEF Decided, Writes
        <5> QED
          BY <1>2, <2>0, <3>1, <3>3, <4>1, <5>1 DEF Numbered, Alike
      <4>3. i.decision = j.decision /\ i.event = j.event
        BY <4>2 DEF Parks
      <4>4. Carries(i.message, i)
        BY <3>3, <4>1 DEF Writes, Numbered, JobDelivered
      <4>5. Carries(i.message, j)
        BY <4>3, <4>4 DEF Carries
      <4>6. id \in DOMAIN spent' /\ spent'[id] = i.message
        BY <3>3, <4>1 DEF Writes, SetKey
      <4>7. PICK n : n = i.message
        OBVIOUS
      <4> QED
        BY <2>4, <3>1, <4>5, <4>6, <4>7
    <3>4. CASE ~(Writes(w) /\ work[w].decision.id = id)
      <4>1. id \in DOMAIN spent' /\ spent'[id] = spent[id]
        BY <3>2, <3>4 DEF KeepsSpent, Writes, SetKey
      <4>2. PICK n : n = spent[id]
        OBVIOUS
      <4> QED
        BY <2>4, <3>1, <3>2, <4>1, <4>2
    <3> QED
      BY <3>3, <3>4
  <2>6. JobNumbered(j)'
    BY <2>2, <2>3 DEF JobNumbered
  <2>7. JobDelivered(j)'
    <3>1. ASSUME j.pc \in {"spend", "record"} PROVE Carries(j.message, j)'
      <4>1. PICK n : n = j.message
        OBVIOUS
      <4> QED
        BY <2>2, <2>4, <3>1, <4>1 DEF JobDelivered
    <3> QED
      BY <2>5, <3>1 DEF JobDelivered
  <2> QED
    BY <2>1, <2>6, <2>7 DEF JobNumbered, JobDelivered, Carries
<1>3. (JobNumbered(work[w]) /\ JobDelivered(work[w]))'
  BY DEF JobNumbered, JobDelivered, Carries
<1>4. ASSUME NEW u \in Workers, NEW v \in Workers, u # v PROVE Alike(work'[u], work'[v])
  <2>1. CASE u = w
    BY <1>4, <2>1 DEF Moves, Alike
  <2>2. CASE v = w
    BY <1>4, <2>2 DEF Moves
  <2>3. CASE u # w /\ v # w
    BY <1>4, <2>3 DEF Moves, Numbered
  <2> QED
    BY <2>1, <2>2, <2>3
<1>5. (\A u, v \in Workers : u # v => Alike(work[u], work[v]))'
  BY <1>4 DEF Alike, Decided
<1> QED
  BY <1>2, <1>3, <1>5

\* A worker that is idle, or at intake, has no decision to know of.
LEMMA NoDecision ==
  ASSUME NEW k, ~Decided(k), k.pc = "idle" \/ ~IsRelease(k)
  PROVE  JobNumbered(k)' /\ JobDelivered(k)' /\ \A v \in Workers : Alike(work[v], k)
BY DEF JobNumbered, JobDelivered, Decided, Alike

LEMMA IdleNumbered ==
  JobNumbered(Idle)' /\ JobDelivered(Idle)' /\ \A v \in Workers : Alike(work[v], Idle)
<1>1. PICK k : k = Idle
  OBVIOUS
<1>2. ~Decided(k) /\ k.pc = "idle"
  BY <1>1 DEF Decided, Idle
<1> QED
  BY <1>1, <1>2, NoDecision

\* Nothing about ids, drafts and messages changes.
LEMMA NumbersSame ==
  ASSUME IInv, UNCHANGED <<decisions, pending, messages>>
  PROVE  NumbersGrow
BY TypesOf DEF NumbersGrow

LEMMA AllSame ==
  ASSUME Numbered, UNCHANGED <<spent, decisions, pending, messages, work>>
  PROVE  Numbered'
BY DEF Numbered, ParkedNumbered, JobNumbered, JobDelivered, Carries, Alike, Decided

LEMMA TakeNumbered ==
  ASSUME IInv, Numbered, NEW w \in Workers, NEW e \in Events, ReceiveNew(w, e)
  PROVE  Numbered'
<1> DEFINE n == attempts[e] + 1
<1>1. n \in Nat \ {0}
  BY TypesOf
<1> HIDE DEF n
<1>2. UNCHANGED <<spent, decisions, pending, messages>> /\ Moves(w)
  BY <1>1, TakeIs DEF n, stores
<1>3. \/ UNCHANGED work
      \/ work'[w].pc \in {"fetch", "mark"} /\ ~IsRelease(work'[w])
  BY <1>1, TakeIs DEF n, JobIs, IsRelease
<1>4. CASE UNCHANGED work
  BY <1>2, <1>4, AllSame
<1>5. CASE work'[w].pc \in {"fetch", "mark"} /\ ~IsRelease(work'[w])
  <2>1. PICK k : k = work'[w]
    OBVIOUS
  <2>2. JobNumbered(k)' /\ JobDelivered(k)' /\ \A v \in Workers : Alike(work[v], k)
    BY <1>5, <2>1, NoDecision DEF Decided
  <2>3. ParkedNumbered'
    BY <1>2 DEF Numbered, ParkedNumbered
  <2> QED
    BY <1>2, <2>1, <2>2, <2>3, NumbersSame, JobsStayNumbered DEF Numbered, KeepsSpent
<1> QED
  BY <1>3, <1>4, <1>5

LEMMA FetchNumbered ==
  ASSUME IInv, Numbered, NEW w \in Workers, FetchContact(w)
  PROVE  Numbered'
<1>1. /\ work[w].pc = "fetch" /\ Moves(w) /\ JobIs(work'[w], "decide", work[w].event, work[w].delivery)
      /\ UNCHANGED <<spent, decisions, pending, messages>>
  BY FetchIs DEF stores
<1>2. PICK k : k = work'[w]
  OBVIOUS
<1>3. JobNumbered(k)' /\ JobDelivered(k)' /\ \A v \in Workers : Alike(work[v], k)
  <2>1. ~IsRelease(work[w])
    BY <1>1 DEF Numbered, JobNumbered
  <2> QED
    BY <1>1, <1>2, <2>1, NoDecision DEF JobIs, IsRelease, Decided
<1>4. ParkedNumbered'
  BY <1>1 DEF Numbered, ParkedNumbered
<1> QED
  BY <1>1, <1>2, <1>3, <1>4, NumbersSame, JobsStayNumbered DEF Numbered, KeepsSpent

LEMMA FailNumbered ==
  ASSUME IInv, Numbered, NEW w \in Workers, GivesUp(w), NumbersGrow, KeepsSpent(w),
         UNCHANGED <<decisions, pending>>
  PROVE  Numbered'
<1>1. ParkedNumbered'
  BY DEF Numbered, ParkedNumbered
<1>2. PICK k : k = Idle
  OBVIOUS
<1>3. k = work'[w] /\ Moves(w) /\ JobNumbered(k)' /\ JobDelivered(k)'
      /\ \A v \in Workers : Alike(work[v], k)
  BY <1>2, IdleNumbered DEF GivesUp
<1> QED
  BY <1>1, <1>3, JobsStayNumbered DEF Numbered

\* Whoever goes on with its decision is like the others as it was.
LEMMA StillAlike ==
  ASSUME Numbered, NEW w \in Workers, Decided(work[w]), NEW k,
         k.decision = work[w].decision, k.event = work[w].event, k.delivery = work[w].delivery
  PROVE  \A v \in Workers : v # w => Alike(work[v], k)
<1> SUFFICES ASSUME NEW v \in Workers, v # w PROVE Alike(work[v], k)
  OBVIOUS
<1>1. PICK i, j : i = work[v] /\ j = work[w]
  OBVIOUS
<1>2. Alike(i, j) /\ Decided(j) /\ k.decision = j.decision /\ k.event = j.event /\ k.delivery = j.delivery
  BY <1>1 DEF Numbered
<1>3. Parks(k) = Parks(j) /\ (IsRelease(k) <=> IsRelease(j))
  BY <1>2 DEF Parks, IsRelease
<1> QED
  BY <1>1, <1>2, <1>3 DEF Alike

LEMMA DecideNumbered ==
  ASSUME IInv, Numbered, NEW w \in Workers, Decide(w)
  PROVE  Numbered'
<1> DEFINE n == decisions + 1
           N == 1..decisions
<1>1. PICK d \in Decisions : IsSubmitted(w, d) \/ IsParked(w, d) \/ IsBlocked(w, d)
  BY DecideIs
<1>2. PICK k : k = work'[w]
  OBVIOUS
<1>3. n \in Nat /\ n \in 1..n /\ n \notin N /\ N \subseteq 1..n /\ decisions \in Nat /\ decisions <= n
  BY TypesOf
<1>4. /\ d.id = n /\ decisions' = n /\ UNCHANGED <<spent, messages>> /\ work[w].pc = "decide"
      /\ Moves(w)
  BY <1>1 DEF IsSubmitted, IsParked, IsBlocked, Judged, stores
<1> HIDE DEF n
<1>5. ~IsRelease(work[w])
  BY <1>4 DEF Numbered, JobNumbered
<1>6. /\ \A id \in DOMAIN pending : id \in N /\ pending[id].decision.id = id
      /\ n \notin DOMAIN pending
  BY <1>3 DEF Numbered, ParkedNumbered
<1>7. pending' = pending \/ pending' = SetKey(pending, n, [decision |-> d, event |-> work[w].event])
  BY <1>1, <1>4 DEF IsSubmitted, IsParked, IsBlocked
<1>8. /\ \A id \in DOMAIN pending : id \in DOMAIN pending' /\ pending'[id] = pending[id]
      /\ \A id \in DOMAIN pending' : id \in DOMAIN pending \/ (id = n /\ pending'[n].decision.id = n)
  BY <1>4, <1>6, <1>7 DEF SetKey
<1>9. NumbersGrow
  BY <1>3, <1>4, <1>8, TypesOf DEF NumbersGrow, N
<1>10. ParkedNumbered'
  <2>1. ASSUME NEW id \in DOMAIN pending' PROVE id \in 1..n /\ pending'[id].decision.id = id
    BY <1>3, <1>6, <1>8
  <2> QED
    BY <1>4, <2>1 DEF ParkedNumbered
<1>11. JobNumbered(k)' /\ JobDelivered(k)' /\ \A v \in Workers : v # w => Alike(work[v], k)
  <2>1. CASE IsSubmitted(w, d)
    <3>1. k.pc = "check" /\ k.decision.id = n /\ n \notin DOMAIN pending'
      BY <1>2, <1>4, <1>6, <2>1 DEF IsSubmitted, JobIs
    <3>2. \A v \in Workers : Decided(work[v]) => work[v].decision.id # n
      BY <1>3 DEF Numbered, JobNumbered
    <3>3. \A v \in Workers : Alike(work[v], k)
      BY <3>1, <3>2 DEF Alike
    <3> QED
      BY <1>3, <1>4, <3>1, <3>3 DEF JobNumbered, JobDelivered
  <2>3. CASE IsParked(w, d) \/ IsBlocked(w, d)
    <3>1. k.pc = "mark" /\ ~IsRelease(k)
      BY <1>2, <1>5, <2>3 DEF IsParked, IsBlocked, JobIs, IsRelease
    <3> QED
      BY <3>1, NoDecision DEF Decided
  <2> QED
    BY <1>1, <2>1, <2>3
<1> QED
  BY <1>2, <1>4, <1>9, <1>10, <1>11, JobsStayNumbered DEF Numbered, KeepsSpent

LEMMA PostedGrows ==
  ASSUME IInv, NEW w \in Workers, Posted(w)
  PROVE  NumbersGrow
BY TypesOf DEF Posted, NumbersGrow

LEMMA AcceptNumbered ==
  ASSUME IInv, Numbered, NEW w \in Workers, SendAccepted(w)
  PROVE  Numbered'
<1>1. PICK k : k = work'[w]
  OBVIOUS
<1>2. /\ Posted(w) /\ Moves(w) /\ UNCHANGED <<spent, decisions, pending>> /\ work[w].pc = "send"
      /\ k.pc = "spend" /\ k.event = work[w].event /\ k.delivery = work[w].delivery
      /\ k.decision = work[w].decision /\ k.message = Len(messages) + 1
  BY <1>1, AcceptIs DEF JobIs, Posted, stores
<1>3. JobNumbered(k)'
  <2>1. JobNumbered(work[w]) /\ Decided(work[w]) /\ Parks(k) = Parks(work[w])
        /\ (IsRelease(k) <=> IsRelease(work[w]))
    BY <1>2 DEF Numbered, Decided, Parks, IsRelease
  <2> QED
    BY <1>2, <2>1 DEF JobNumbered
<1>4. JobDelivered(k)'
  <2>1. Len(messages') = Len(messages) + 1 /\ Len(messages) + 1 \in 1..Len(messages')
        /\ messages'[Len(messages) + 1] = Outbound(work[w])
    BY <1>2, TypesOf DEF Posted
  <2> QED
    BY <1>2, <2>1, OutboundIs DEF JobDelivered, Carries
<1>5. ParkedNumbered'
  BY <1>2 DEF Numbered, ParkedNumbered
<1>6. \A v \in Workers : v # w => Alike(work[v], k)
  BY <1>2, StillAlike DEF Decided
<1> QED
  BY <1>1, <1>2, <1>3, <1>4, <1>5, <1>6, PostedGrows, JobsStayNumbered DEF Numbered, KeepsSpent

LEMMA PassNumbered ==
  ASSUME IInv, Numbered, NEW w \in Workers, GuardPasses(w) \/ Spend(w)
  PROVE  Numbered'
<1>1. PICK k, j : k = work'[w] /\ j = work[w]
  OBVIOUS
<1>2. /\ Moves(w) /\ KeepsSpent(w) /\ UNCHANGED <<decisions, pending, messages>>
      /\ k.event = j.event /\ k.delivery = j.delivery /\ k.decision = j.decision /\ k.message = j.message
      /\ \/ j.pc = "check" /\ k.pc = "send"
         \/ j.pc = "spend" /\ k.pc = "record" /\ spent' = SetKey(spent, j.decision.id, j.message)
  BY <1>1, PassIs DEF Writes
<1>3. Decided(j) /\ Decided(k) /\ Parks(k) = Parks(j) /\ (IsRelease(k) <=> IsRelease(j))
  BY <1>2 DEF Decided, Parks, IsRelease
<1>4. JobNumbered(j) /\ JobDelivered(j)
  BY <1>1 DEF Numbered
<1>5. JobNumbered(k)'
  BY <1>2, <1>3, <1>4 DEF JobNumbered
<1>6. JobDelivered(k)'
  <2>1. CASE k.pc = "send"
    BY <2>1 DEF JobDelivered
  <2>2. CASE j.pc = "spend" /\ k.pc = "record" /\ spent' = SetKey(spent, j.decision.id, j.message)
    <3>1. Carries(j.message, j)
      BY <1>4, <2>2 DEF JobDelivered
    <3>2. Carries(k.message, k)'
      BY <1>2, <3>1 DEF Carries
    <3>3. k.decision.id \in DOMAIN spent' /\ spent'[k.decision.id] = k.message
      BY <1>2, <2>2 DEF SetKey
    <3> QED
      BY <3>2, <3>3 DEF JobDelivered, Carries
  <2> QED
    BY <1>2, <2>1, <2>2
<1>7. ParkedNumbered'
  BY <1>2 DEF Numbered, ParkedNumbered
<1>8. \A v \in Workers : v # w => Alike(work[v], k)
  BY <1>1, <1>2, <1>3, StillAlike
<1> QED
  BY <1>1, <1>2, <1>5, <1>6, <1>7, <1>8, NumbersSame, JobsStayNumbered DEF Numbered

LEMMA RecordNumbered ==
  ASSUME IInv, Numbered, NEW w \in Workers, RecordSent(w)
  PROVE  Numbered'
<1> DEFINE id == work[w].decision.id
<1>1. PICK k : k = work'[w]
  OBVIOUS
<1>2. /\ work[w].pc = "record" /\ Moves(w)
      /\ IF IsRelease(work[w]) THEN pending' = DropKey(pending, id) /\ k = Idle
         ELSE UNCHANGED pending /\ k.pc = "mark" /\ k.delivery = work[w].delivery
      /\ UNCHANGED <<spent, decisions, messages>>
  BY <1>1, RecordIs DEF JobIs, stores
<1> HIDE DEF id
<1>4. \A x \in DOMAIN pending' : x \in DOMAIN pending /\ pending'[x] = pending[x]
  BY <1>2 DEF DropKey
<1>5. NumbersGrow
  BY <1>2, <1>4, TypesOf DEF NumbersGrow
<1>6. ParkedNumbered'
  BY <1>2, <1>4 DEF Numbered, ParkedNumbered
<1>8. JobNumbered(k)' /\ JobDelivered(k)' /\ \A v \in Workers : Alike(work[v], k)
  BY <1>2, IdleNumbered, NoDecision DEF IsRelease, Decided
<1> QED
  BY <1>1, <1>2, <1>5, <1>6, <1>8, JobsStayNumbered DEF Numbered, KeepsSpent

LEMMA MarkNumbered ==
  ASSUME IInv, Numbered, NEW w \in Workers, MarkSeen(w) \/ (StoreFails(w) /\ ~UNCHANGED seen)
  PROVE  Numbered'
<1>1. Moves(w) /\ work'[w] = Idle /\ UNCHANGED <<spent, decisions, pending, messages>>
  BY MarkIs
<1>2. ParkedNumbered'
  BY <1>1 DEF Numbered, ParkedNumbered
<1>3. PICK k : k = Idle
  OBVIOUS
<1>4. k = work'[w] /\ JobNumbered(k)' /\ JobDelivered(k)' /\ \A v \in Workers : Alike(work[v], k)
  BY <1>1, <1>3, IdleNumbered
<1> QED
  BY <1>1, <1>2, <1>4, NumbersSame, JobsStayNumbered DEF Numbered, KeepsSpent

LEMMA ReleaseNumbered ==
  ASSUME IInv, Numbered, NEW w \in Workers, NEW id \in DOMAIN pending, ReleaseDraft(w, id)
  PROVE  Numbered'
<1>1. PICK k : k = work'[w]
  OBVIOUS
<1>2. /\ Moves(w) /\ UNCHANGED <<spent, decisions, pending, messages>>
      /\ k.pc = "check" /\ k.event = pending[id].event /\ k.delivery = 0
      /\ k.decision = pending[id].decision
  BY <1>1, ReleaseIs DEF JobIs, stores
<1>3. id \in 1..decisions /\ pending[id].decision.id = id /\ pending[id] \in Parked
  BY TypesOf DEF Numbered, ParkedNumbered
<1>4. k.decision.id = id /\ IsRelease(k) /\ Parks(k) = pending[id]
  BY <1>2, <1>3 DEF IsRelease, Parks, Parked
<1>5. JobNumbered(k)' /\ JobDelivered(k)'
  BY <1>2, <1>3, <1>4 DEF JobNumbered, JobDelivered
<1>6. \A v \in Workers : Alike(work[v], k)
  <2>1. \A v \in Workers : Decided(work[v]) /\ work[v].decision.id = id =>
          IsRelease(work[v]) /\ pending[id] = Parks(work[v])
    BY DEF Numbered, JobNumbered
  <2> QED
    BY <1>4, <2>1 DEF Alike
<1>7. ParkedNumbered'
  BY <1>2 DEF Numbered, ParkedNumbered
<1> QED
  BY <1>1, <1>2, <1>5, <1>6, <1>7, NumbersSame, JobsStayNumbered DEF Numbered, KeepsSpent

LEMMA CrashNumbered ==
  ASSUME Crash
  PROVE  Numbered'
<1>1. work' = [w \in Workers |-> Idle] /\ pending' = EmptyStore
  BY DEF Crash
<1>2. ParkedNumbered'
  BY <1>1 DEF ParkedNumbered, EmptyStore
<1>3. \A w \in Workers : work'[w].pc = "idle"
  BY <1>1 DEF Idle
<1> QED
  BY <1>2, <1>3 DEF Numbered, JobNumbered, JobDelivered, Alike, Decided

LEMMA InitNumbered == Init => Numbered
<1> SUFFICES ASSUME Init PROVE Numbered
  OBVIOUS
<1>1. ParkedNumbered
  BY DEF Init, ParkedNumbered, EmptyStore
<1>2. \A w \in Workers : work[w].pc = "idle"
  BY DEF Init, Idle
<1> QED
  BY <1>1, <1>2 DEF Numbered, JobNumbered, JobDelivered, Alike, Decided

LEMMA NextNumbered == IInv /\ Numbered /\ [Next]_vars => Numbered'
<1> SUFFICES ASSUME IInv, Numbered, [Next]_vars PROVE Numbered'
  OBVIOUS
<1>1. ASSUME NEW w \in Workers, Continue(w) \/ CallFails(w) \/ StoreFails(w) \/ SendReplyLost(w)
      PROVE  Numbered'
  <2>1. CASE SendRefused(w) \/ CallFails(w) \/ GuardStops(w) \/ (StoreFails(w) /\ UNCHANGED seen)
    BY <2>1, FailIs, NumbersSame, FailNumbered
  <2>2. CASE SendReplyLost(w)
    BY <2>2, LoseIs, PostedGrows, FailNumbered DEF Posted, KeepsSpent, stores
  <2> QED
    BY <1>1, <2>1, <2>2, FetchNumbered, DecideNumbered, PassNumbered, AcceptNumbered,
       RecordNumbered, MarkNumbered DEF Continue
<1>2. ASSUME NEW w \in Workers,
             RejectForged(w) \/ \E e \in Events : Receive(w, e) \/ LookupFails(w, e)
      PROVE  Numbered'
  <2>1. CASE TurnsAway(w)
    BY <2>1, TurnAwayIs, AllSame DEF stores
  <2> QED
    BY <1>2, <2>1, TakeNumbered DEF Receive, TurnsAway
<1>3. ASSUME NEW w \in Workers, NEW id \in DOMAIN pending, ReleaseDraft(w, id) PROVE Numbered'
  BY <1>3, ReleaseNumbered
<1>4. CASE UNCHANGED vars \/ OpenOrClose \/ \E c \in Contacts : ChangeOptOut(c)
  BY <1>4, QuietIs, AllSame DEF stores
<1> QED
  BY <1>1, <1>2, <1>3, <1>4, CrashNumbered DEF Next

LEMMA InvNumbered == Spec => [](IInv /\ Numbered)
<1>1. Init => IInv /\ Numbered
  BY InitOK, InitNumbered
<1>2. IInv /\ Numbered /\ [Next]_vars => (IInv /\ Numbered)'
  BY NextOK, NextNumbered
<1> QED
  BY <1>1, <1>2, PTL DEF Spec

-----------------------------------------------------------------------------
(* What the guard stops.                                                   *)

LEMMA SentStays ==
  ASSUME IInv, NumbersGrow, NEW d, Sent(d)
  PROVE  Sent(d)'
<1>1. PICK i \in 1..Len(messages) : messages[i].by.decision = d
  BY DEF Sent
<1>2. i \in 1..Len(messages') /\ messages'[i] = messages[i]
  BY TypesOf DEF NumbersGrow
<1> QED
  BY <1>1, <1>2 DEF Sent

\* The id a worker is to spend is spent for its decision, which is sent.
LEMMA WritesSent ==
  ASSUME Numbered, NEW w \in Workers, Writes(w)
  PROVE  /\ work[w].decision.id \in 1..decisions /\ Sent(work[w].decision)
         /\ DOMAIN spent' = DOMAIN spent \cup {work[w].decision.id}
<1>1. PICK j : j = work[w]
  OBVIOUS
<1>2. Decided(j) /\ JobNumbered(j) /\ JobDelivered(j) /\ j.pc = "spend"
  BY <1>1 DEF Numbered, Writes, Decided
<1>3. Carries(j.message, j)
  BY <1>2 DEF JobDelivered
<1> QED
  BY <1>1, <1>2, <1>3 DEF Carries, Sent, JobNumbered, Writes, SetKey

LEMMA SpentStaySent ==
  ASSUME IInv, Numbered, SpentAreSent, NEW w \in Workers, Moves(w), NumbersGrow, KeepsSpent(w),
         UNCHANGED durable, env'["crash"] = env["crash"],
         NEW k, k = work'[w], RestartedOver \/ JobSent(k)'
  PROVE  SpentAreSent'
<1> SUFFICES ASSUME ~RestartedOver PROVE SpentAreSent'
  BY DEF SpentAreSent, RestartedOver
<1>0. decisions \in Nat /\ decisions' \in Nat /\ decisions <= decisions'
  BY TypesOf DEF NumbersGrow
<1>1. /\ DOMAIN spent \subseteq 1..decisions
      /\ \A id \in DOMAIN pending : id \in DOMAIN spent => Sent(pending[id].decision)
      /\ \A v \in Workers : JobSent(work[v])
  BY DEF SpentAreSent
<1>2. ASSUME NEW id \in DOMAIN spent'
      PROVE  /\ id \in 1..decisions
             /\ id \in DOMAIN spent \/ (Writes(w) /\ id = work[w].decision.id)
  BY <1>1, <1>2, WritesSent DEF KeepsSpent
<1>3. DOMAIN spent' \subseteq 1..decisions'
  BY <1>0, <1>2
<1>4. ASSUME NEW id \in DOMAIN pending', id \in DOMAIN spent' PROVE Sent(pending[id].decision)'
  <2>1. id \in DOMAIN pending /\ pending'[id] = pending[id]
    BY <1>2, <1>4 DEF NumbersGrow
  <2>2. PICK d : d = pending[id].decision
    OBVIOUS
  <2>3. Sent(d)
    <3>1. CASE id \in DOMAIN spent
      BY <1>1, <2>1, <2>2, <3>1
    <3>2. CASE Writes(w) /\ id = work[w].decision.id
      <4>1. pending[id] = Parks(work[w])
        BY <2>1, <3>2 DEF Numbered, JobNumbered, Writes, Decided
      <4>2. d = work[w].decision
        BY <2>2, <4>1 DEF Parks
      <4> QED
        BY <3>2, <4>2, WritesSent
    <3> QED
      BY <1>2, <1>4, <3>1, <3>2
  <2> QED
    BY <2>1, <2>2, <2>3, SentStays DEF Sent
<1>5. ASSUME NEW v \in Workers PROVE JobSent(work[v])'
  <2>1. CASE v = w
    BY <2>1 DEF JobSent, Sent
  <2>2. CASE v # w
    <3>1. PICK j : j = work[v]
      OBVIOUS
    <3>2. work'[v] = j
      BY <2>2, <3>1 DEF Moves
    <3>3. ASSUME j.pc = "check", j.decision.id \in DOMAIN spent'
          PROVE  IsRelease(j) /\ Sent(j.decision)
      <4>1. CASE j.decision.id \in DOMAIN spent
        BY <1>1, <3>1, <3>3, <4>1 DEF JobSent
      <4>2. CASE Writes(w) /\ j.decision.id = work[w].decision.id
        <5>1. Decided(j) /\ Decided(work[w])
          BY <3>3, <4>2 DEF Decided, Writes
        <5>2. IsRelease(j) /\ Parks(j) = Parks(work[w])
          BY <2>2, <3>1, <4>2, <5>1 DEF Numbered, Alike
        <5>3. j.decision = work[w].decision
          BY <5>2 DEF Parks
        <5> QED
          BY <4>2, <5>2, <5>3, WritesSent
      <4> QED
        BY <1>2, <3>3, <4>1, <4>2
    <3>4. PICK d : d = j.decision
      OBVIOUS
    <3>5. j.pc = "check" /\ j.decision.id \in DOMAIN spent' => IsRelease(j) /\ Sent(d)'
      BY <3>3, <3>4, SentStays
    <3> QED
      BY <3>2, <3>4, <3>5 DEF JobSent, Sent
  <2> QED
    BY <2>1, <2>2
<1> QED
  BY <1>3, <1>4, <1>5 DEF SpentAreSent, JobSent, Sent

\* A thread alone, whose store keeps what it says, stays tidy if it does in
\* its own step.
LEMMA TidyStays ==
  ASSUME IInv, Tidy, NEW w \in Workers, UNCHANGED durable, env'["crash"] = env["crash"],
         env'["store_fails"] > 0 \/ env'["store_fails"] = env["store_fails"],
         ~RestartedOver /\ ~(env'["store_fails"] > 0) /\ Workers = {w} /\ TidyAt(w) => TidyAt(w)'
  PROVE  Tidy'
<1> SUFFICES ASSUME NEW v \in Workers, ~Careless(v)' PROVE TidyAt(v)'
  BY DEF Tidy
<1>1. Workers = {v} /\ v = w /\ ~RestartedOver /\ ~(env'["store_fails"] > 0)
  BY DEF Careless, RestartedOver
<1>2. ~Careless(w)
  BY <1>1 DEF Careless, RestartedOver
<1>3. TidyAt(w)
  BY <1>2 DEF Tidy
<1> QED
  BY <1>1, <1>3

Guarded == SpentAreSent /\ Tidy

LEMMA SameGuarded ==
  ASSUME IInv, Guarded, UNCHANGED <<durable, spent, decisions, pending, messages, work>>,
         env'["crash"] = env["crash"], env'["store_fails"] = env["store_fails"]
  PROVE  Guarded'
<1>1. SpentAreSent'
  BY DEF Guarded, SpentAreSent, RestartedOver, JobSent, Sent
<1>2. Tidy'
  BY DEF Guarded, Tidy, Careless, RestartedOver, TidyAt
<1> QED
  BY <1>1, <1>2 DEF Guarded

\* A step that keeps the spent ids, the drafts and the faults, and checks no
\* id; it is not the one that takes a draft off the queue.
LEMMA CalmGuarded ==
  ASSUME IInv, Numbered, Guarded, NEW w \in Workers, Moves(w), NumbersGrow,
         UNCHANGED <<durable, pending>>, KeepsSpent(w), UNCHANGED spent \/ env'["store_fails"] > 0,
         env'["crash"] = env["crash"],
         env'["store_fails"] > 0 \/ env'["store_fails"] = env["store_fails"],
         work[w].pc # "record", work'[w].pc # "check"
  PROVE  Guarded'
<1>1. PICK k : k = work'[w]
  OBVIOUS
<1>2. SpentAreSent'
  BY <1>1, SpentStaySent DEF Guarded, JobSent
<1>3. Tidy'
  <2>1. ASSUME ~(env'["store_fails"] > 0), TidyAt(w) PROVE TidyAt(w)'
    BY <2>1 DEF TidyAt
  <2> QED
    BY <2>1, TidyStays DEF Guarded
<1> QED
  BY <1>2, <1>3 DEF Guarded

LEMMA DecideGuarded ==
  ASSUME IInv, Numbered, Guarded, NEW w \in Workers, Decide(w)
  PROVE  Guarded'
<1> DEFINE n == decisions + 1
<1>1. PICK d \in Decisions : IsSubmitted(w, d) \/ IsParked(w, d) \/ IsBlocked(w, d)
  BY DecideIs
<1>2. n \notin 1..decisions /\ n \in Nat /\ decisions <= n /\ Len(messages) \in Nat
  BY TypesOf
<1>3. /\ d.id = n /\ decisions' = n /\ work[w].pc = "decide" /\ Moves(w)
      /\ UNCHANGED <<durable, spent, messages, env>>
  BY <1>1 DEF IsSubmitted, IsParked, IsBlocked, Judged, stores
<1> HIDE DEF n
<1>4. pending' = pending \/ pending' = SetKey(pending, n, [decision |-> d, event |-> work[w].event])
  BY <1>1, <1>3 DEF IsSubmitted, IsParked, IsBlocked
<1>5. \A id \in DOMAIN pending' : id = n \/ (id \in DOMAIN pending /\ pending'[id] = pending[id])
  BY <1>4 DEF SetKey
<1>6. NumbersGrow
  BY <1>2, <1>3, <1>5 DEF NumbersGrow
<1>7. PICK k : k = work'[w]
  OBVIOUS
<1>8. k.pc # "check" \/ k.decision.id = n
  BY <1>1, <1>3, <1>7 DEF IsSubmitted, IsParked, IsBlocked, JobIs
<1>9. RestartedOver \/ n \notin DOMAIN spent
  BY <1>2 DEF Guarded, SpentAreSent
<1>10. SpentAreSent'
  <2>1. RestartedOver \/ JobSent(k)'
    BY <1>3, <1>8, <1>9 DEF JobSent
  <2> QED
    BY <1>3, <1>6, <1>7, <2>1, SpentStaySent DEF Guarded, KeepsSpent
<1>11. Tidy'
  <2>1. ASSUME ~RestartedOver, TidyAt(w) PROVE TidyAt(w)'
    BY <1>3, <1>5, <1>7, <1>8, <1>9, <2>1 DEF TidyAt
  <2> QED
    BY <1>3, <2>1, TidyStays DEF Guarded
<1> QED
  BY <1>10, <1>11 DEF Guarded

LEMMA PassGuarded ==
  ASSUME IInv, Numbered, Guarded, NEW w \in Workers, GuardPasses(w) \/ Spend(w)
  PROVE  Guarded'
<1>1. /\ Moves(w) /\ KeepsSpent(w) /\ UNCHANGED <<durable, decisions, pending, messages, env>>
      /\ work[w].pc # "record" /\ work'[w].pc # "check" /\ work'[w].decision = work[w].decision
      /\ UNCHANGED spent \/ (Writes(w) /\ work'[w].pc = "record")
  BY PassIs
<1>2. CASE UNCHANGED spent
  BY <1>1, <1>2, NumbersSame, CalmGuarded
<1>3. CASE Writes(w) /\ work'[w].pc = "record"
  <2>1. PICK k : k = work'[w]
    OBVIOUS
  <2>2. SpentAreSent'
    BY <1>1, <2>1, NumbersSame, SpentStaySent DEF Guarded, JobSent
  <2>3. ASSUME TidyAt(w) PROVE TidyAt(w)'
    BY <1>1, <1>3, <2>3, WritesSent DEF TidyAt
  <2>4. Tidy'
    BY <1>1, <2>3, TidyStays DEF Guarded
  <2> QED
    BY <2>2, <2>4 DEF Guarded
<1> QED
  BY <1>1, <1>2, <1>3

LEMMA RecordGuarded ==
  ASSUME IInv, Numbered, Guarded, NEW w \in Workers, RecordSent(w)
  PROVE  Guarded'
<1> DEFINE id == work[w].decision.id
<1>1. PICK k : k = work'[w]
  OBVIOUS
<1>2. /\ work[w].pc = "record" /\ Moves(w) /\ k.pc # "check"
      /\ IF IsRelease(work[w]) THEN pending' = DropKey(pending, id) ELSE UNCHANGED pending
      /\ UNCHANGED <<durable, spent, decisions, messages, env>>
  BY <1>1, RecordIs DEF JobIs, stores, Idle
<1> HIDE DEF id
<1>3. /\ \A x \in DOMAIN pending' : x \in DOMAIN pending /\ pending'[x] = pending[x]
      /\ id \notin DOMAIN pending'
  <2>1. ~IsRelease(work[w]) => id \notin DOMAIN pending
    BY <1>2 DEF Numbered, JobNumbered, Decided, id
  <2> QED
    BY <1>2, <2>1 DEF DropKey
<1>4. NumbersGrow
  BY <1>2, <1>3, TypesOf DEF NumbersGrow
<1>5. SpentAreSent'
  BY <1>1, <1>2, <1>4, SpentStaySent DEF Guarded, JobSent, KeepsSpent
<1>6. ASSUME TidyAt(w) PROVE TidyAt(w)'
  BY <1>1, <1>2, <1>3, <1>6 DEF TidyAt, id
<1>7. Tidy'
  BY <1>2, <1>6, TidyStays DEF Guarded
<1> QED
  BY <1>5, <1>7 DEF Guarded

LEMMA ReleaseGuarded ==
  ASSUME IInv, Numbered, Guarded, NEW w \in Workers, NEW id \in DOMAIN pending, ReleaseDraft(w, id)
  PROVE  Guarded'
<1>1. PICK k : k = work'[w]
  OBVIOUS
<1>2. /\ Moves(w) /\ UNCHANGED <<durable, spent, decisions, pending, messages>> /\ work[w].pc = "idle"
      /\ env'["crash"] = env["crash"] /\ env'["store_fails"] = env["store_fails"]
      /\ k.pc = "check" /\ k.delivery = 0 /\ k.decision = pending[id].decision
  BY <1>1, ReleaseIs DEF JobIs, stores
<1>3. k.decision.id = id
  BY <1>2 DEF Numbered, ParkedNumbered
<1>4. RestartedOver \/ JobSent(k)'
  <2>1. RestartedOver \/ (id \in DOMAIN spent => Sent(k.decision))
    BY <1>2 DEF Guarded, SpentAreSent
  <2> QED
    BY <1>2, <1>3, <2>1 DEF JobSent, IsRelease, Sent
<1>5. SpentAreSent'
  BY <1>1, <1>2, <1>4, NumbersSame, SpentStaySent DEF Guarded, KeepsSpent
<1>6. ASSUME TidyAt(w) PROVE TidyAt(w)'
  BY <1>1, <1>2, <1>3, <1>6 DEF TidyAt
<1>7. Tidy'
  BY <1>2, <1>6, TidyStays DEF Guarded
<1> QED
  BY <1>5, <1>7 DEF Guarded

LEMMA CrashGuarded ==
  ASSUME IInv, Crash
  PROVE  Guarded'
<1>1. /\ work' = [w \in Workers |-> Idle] /\ pending' = EmptyStore
      /\ durable' = durable /\ spent' = IF durable THEN spent ELSE EmptyStore
  BY DEF Crash
<1>2. env'["crash"] > 0
  BY TypesOf DEF Crash, Disturb, EnvKinds
<1>3. RestartedOver' \/ DOMAIN spent' = {}
  BY <1>1, <1>2, TypesOf DEF RestartedOver, EmptyStore, IInv, TypeOK
<1>4. DOMAIN pending' = {} /\ \A w \in Workers : work'[w].pc = "idle"
  BY <1>1 DEF EmptyStore, Idle
<1> QED
  BY <1>3, <1>4 DEF Guarded, SpentAreSent, JobSent, Tidy, TidyAt, Careless

LEMMA InitGuarded == Init => Guarded
BY DEF Init, Guarded, SpentAreSent, JobSent, Tidy, TidyAt, EmptyStore, Idle

LEMMA NextGuarded == IInv /\ Numbered /\ Guarded /\ [Next]_vars => Guarded'
<1> SUFFICES ASSUME IInv, Numbered, Guarded, [Next]_vars PROVE Guarded'
  OBVIOUS
<1>1. ASSUME NEW w \in Workers, Continue(w) \/ CallFails(w) \/ StoreFails(w) \/ SendReplyLost(w)
      PROVE  Guarded'
  <2>0. Idle.pc # "check"
    BY DEF Idle
  <2>1. CASE SendRefused(w) \/ CallFails(w) \/ GuardStops(w) \/ (StoreFails(w) /\ UNCHANGED seen)
    BY <2>0, <2>1, FailIs, NumbersSame, CalmGuarded DEF GivesUp
  <2>2. CASE SendReplyLost(w)
    BY <2>0, <2>2, LoseIs, PostedGrows, CalmGuarded DEF GivesUp, Posted, KeepsSpent, stores
  <2>3. CASE FetchContact(w)
    BY <2>3, FetchIs, NumbersSame, CalmGuarded DEF JobIs, KeepsSpent, stores
  <2>4. CASE SendAccepted(w)
    BY <2>4, AcceptIs, PostedGrows, CalmGuarded DEF JobIs, Posted, KeepsSpent, stores
  <2>5. CASE MarkSeen(w) \/ (StoreFails(w) /\ ~UNCHANGED seen)
    BY <2>0, <2>5, MarkIs, NumbersSame, CalmGuarded DEF KeepsSpent
  <2> QED
    BY <1>1, <2>1, <2>2, <2>3, <2>4, <2>5, DecideGuarded, PassGuarded, RecordGuarded DEF Continue
<1>2. ASSUME NEW w \in Workers,
             RejectForged(w) \/ \E e \in Events : Receive(w, e) \/ LookupFails(w, e)
      PROVE  Guarded'
  <2>1. CASE TurnsAway(w)
    BY <2>1, TurnAwayIs, SameGuarded DEF stores
  <2>2. ASSUME NEW e \in Events, ReceiveNew(w, e) PROVE Guarded'
    <3>1. attempts[e] + 1 \in Nat
      BY TypesOf
    <3>2. /\ UNCHANGED <<stores, decisions, pending, messages, env>> /\ Moves(w)
          /\ UNCHANGED work \/ work'[w].pc \in {"mark", "fetch"}
          /\ work[w].pc = "idle"
      BY <2>2, <3>1, TakeIs DEF JobIs
    <3> QED
      BY <3>2, NumbersSame, CalmGuarded DEF KeepsSpent, stores
  <2> QED
    BY <1>2, <2>1, <2>2 DEF Receive, TurnsAway
<1>3. ASSUME NEW w \in Workers, NEW id \in DOMAIN pending, ReleaseDraft(w, id) PROVE Guarded'
  BY <1>3, ReleaseGuarded
<1>4. CASE UNCHANGED vars \/ OpenOrClose \/ \E c \in Contacts : ChangeOptOut(c)
  BY <1>4, QuietIs, SameGuarded DEF stores
<1> QED
  BY <1>1, <1>2, <1>3, <1>4, CrashGuarded DEF Next

-----------------------------------------------------------------------------
\* What GuardStopsOnlyRepeats says of one step.
StopsARepeat ==
  Breaches' \ Breaches # {} =>
    \/ durable /\ env["crash"] > 0
    \/ \E w \in Workers :
         /\ work'[w] # work[w]
         /\ IsRelease(work[w]) /\ Sent(work[w].decision)
         /\ env["store_fails"] > 0 \/ Workers # {w}

LEMMA NoBreach ==
  ASSUME LedgerGrows, \A i \in (Len(ledger) + 1)..Len(ledger') : ledger'[i].kind # "guard_breach"
  PROVE  StopsARepeat
<1>1. ASSUME NEW i \in Breaches' PROVE i \in Breaches
  <2>1. i \in 1..Len(ledger') /\ ledger'[i].kind = "guard_breach"
    BY <1>1 DEF Breaches
  <2>2. i \in 1..Len(ledger)
    BY <2>1 DEF LedgerGrows
  <2> QED
    BY <2>1, <2>2 DEF Breaches, LedgerGrows
<1> QED
  BY <1>1 DEF StopsARepeat

LEMMA SilentStep ==
  ASSUME IInv, UNCHANGED ledger
  PROVE  StopsARepeat
BY DEF StopsARepeat, Breaches

LEMMA GuardStopsARepeat ==
  ASSUME IInv, Guarded, NEW w \in Workers, GuardStops(w)
  PROVE  StopsARepeat
<1>1. /\ work[w].pc = "check" /\ work[w].decision.id \in DOMAIN spent /\ work'[w] = Idle
  BY StopIs DEF GivesUp
<1>2. work'[w] # work[w]
  BY <1>1 DEF Idle
<1>3. RestartedOver \/ (IsRelease(work[w]) /\ Sent(work[w].decision))
  BY <1>1 DEF Guarded, SpentAreSent, JobSent
<1>4. RestartedOver \/ env["store_fails"] > 0 \/ Workers # {w}
  BY <1>1 DEF Guarded, Tidy, TidyAt, Careless
<1> QED
  BY <1>2, <1>3, <1>4 DEF StopsARepeat, RestartedOver

LEMMA DecideBreachesNot ==
  ASSUME IInv, NEW w \in Workers, Decide(w)
  PROVE  StopsARepeat
<1>1. PICK d \in Decisions : IsSubmitted(w, d) \/ IsParked(w, d) \/ IsBlocked(w, d)
  BY DecideIs
<1>2. /\ LedgerGrows
      /\ ledger'[Len(ledger) + 1].kind # "guard_breach"
      /\ ledger'[Len(ledger) + 2].kind # "guard_breach"
      /\ \/ Len(ledger') = Len(ledger) + 2 + 0
         \/ Len(ledger') = Len(ledger) + 2 + 1 /\ ledger'[Len(ledger) + 3].kind # "guard_breach"
  BY <1>1 DEF IsSubmitted, IsParked, IsBlocked, Judged, Is
<1>3. \A i \in (Len(ledger) + 1)..Len(ledger') :
        \/ i = Len(ledger) + 1 \/ i = Len(ledger) + 2
        \/ i = Len(ledger) + 3 /\ Len(ledger') = Len(ledger) + 2 + 1
  BY <1>2, TypesOf
<1>4. Len(ledger) + 2 + 0 # Len(ledger) + 2 + 1
  BY TypesOf
<1> QED
  BY <1>2, <1>3, <1>4, NoBreach

LEMMA NextStopsRepeats == IInv /\ Guarded /\ [Next]_vars => StopsARepeat
<1> SUFFICES ASSUME IInv, Guarded, [Next]_vars PROVE StopsARepeat
  OBVIOUS
<1>0. Len(ledger) \in Nat
  BY TypesOf
<1>1. ASSUME NEW w \in Workers, Continue(w) \/ CallFails(w) \/ StoreFails(w) \/ SendReplyLost(w)
      PROVE  StopsARepeat
  <2>1. CASE SendRefused(w) \/ CallFails(w) \/ GuardStops(w) \/ (StoreFails(w) /\ UNCHANGED seen)
    BY <2>1, FailIs, NoBreach, GuardStopsARepeat DEF GivesUp
  <2>2. CASE SendReplyLost(w)
    BY <2>2, LoseIs, NoBreach DEF GivesUp
  <2>3. CASE \/ FetchContact(w) \/ SendAccepted(w) \/ GuardPasses(w) \/ Spend(w)
             \/ MarkSeen(w) \/ (StoreFails(w) /\ ~UNCHANGED seen)
    BY <2>3, FetchIs, AcceptIs, PassIs, MarkIs, SilentStep
  <2>4. CASE RecordSent(w)
    <3>1. /\ LedgerGrows /\ Len(ledger') = Len(ledger) + 1
          /\ ledger'[Len(ledger) + 1].kind = "message_sent"
      BY <2>4, RecordIs
    <3>2. \A i \in (Len(ledger) + 1)..Len(ledger') : i = Len(ledger) + 1
      BY <1>0, <3>1
    <3> QED
      BY <3>1, <3>2, NoBreach
  <2> QED
    BY <1>1, <2>1, <2>2, <2>3, <2>4, DecideBreachesNot DEF Continue
<1>2. ASSUME NEW w \in Workers,
             RejectForged(w) \/ \E e \in Events : Receive(w, e) \/ LookupFails(w, e)
      PROVE  StopsARepeat
  <2>1. CASE TurnsAway(w)
    BY <2>1, TurnAwayIs, NoBreach
  <2>2. ASSUME NEW e \in Events, ReceiveNew(w, e) PROVE StopsARepeat
    <3>1. attempts[e] + 1 \in Nat
      BY TypesOf
    <3>2. /\ LedgerGrows /\ Len(ledger') \in {Len(ledger) + 1, Len(ledger) + 2}
          /\ ledger'[Len(ledger) + 1].kind # "guard_breach"
          /\ Len(ledger') = Len(ledger) + 2 => ledger'[Len(ledger) + 2].kind # "guard_breach"
      BY <1>0, <2>2, <3>1, TakeIs DEF Is
    <3>3. \A i \in (Len(ledger) + 1)..Len(ledger') :
            i = Len(ledger) + 1 \/ (i = Len(ledger) + 2 /\ Len(ledger') = Len(ledger) + 2)
      BY <1>0, <3>2
    <3> QED
      BY <3>2, <3>3, NoBreach
  <2> QED
    BY <1>2, <2>1, <2>2 DEF Receive, TurnsAway
<1>3. ASSUME NEW w \in Workers, NEW id \in DOMAIN pending, ReleaseDraft(w, id) PROVE StopsARepeat
  BY <1>3, ReleaseIs, SilentStep
<1>4. CASE UNCHANGED vars \/ OpenOrClose \/ \E c \in Contacts : ChangeOptOut(c)
  BY <1>4, QuietIs, SilentStep
<1>5. CASE Crash
  <2>1. ledger' = <<>>
    BY <1>5 DEF Crash
  <2> QED
    BY <2>1 DEF StopsARepeat, Breaches
<1> QED
  BY <1>1, <1>2, <1>3, <1>4, <1>5 DEF Next

\* Within one life of the process the guard stops nothing but the release of
\* a draft that is out already, and that only where two calls overlap or a
\* durable store raised after it had kept the id: for any number of threads
\* and any failure of a store.  After a restart with a durable store of spent
\* ids nothing is promised, for the counter that gives the ids (policy.py)
\* starts again from one.
THEOREM GuardOnlyStopsRepeats == Spec => GuardStopsOnlyRepeats
<1>1. Init => IInv /\ Numbered /\ Guarded
  BY InitOK, InitNumbered, InitGuarded
<1>2. IInv /\ Numbered /\ Guarded /\ [Next]_vars => (IInv /\ Numbered /\ Guarded)'
  BY NextOK, NextNumbered, NextGuarded
<1>3. IInv /\ Guarded /\ [Next]_vars =>
        (Breaches' \ Breaches # {} =>
           \/ durable /\ env["crash"] > 0
           \/ \E w \in Workers :
                /\ work'[w] # work[w]
                /\ IsRelease(work[w]) /\ Sent(work[w].decision)
                /\ env["store_fails"] > 0 \/ Workers # {w})
  BY NextStopsRepeats DEF StopsARepeat
<1> QED
  BY <1>1, <1>2, <1>3, PTL DEF Spec, GuardStopsOnlyRepeats

-----------------------------------------------------------------------------
(* Parked drafts leave by being sent.                                      *)

Stays(id) == id \in DOMAIN pending' => pending'[id] = pending[id]

LeftBySending(id) ==
  \/ env'["crash"] > env["crash"]
  \/ /\ Remembers(spent', id)
     /\ LET m == messages[spent'[id]] IN
        /\ <<m.contact, m.body>> = content_fingerprint(pending[id].decision.reading.draft)
        /\ m.by.event = pending[id].event

DraftsKept ==
  /\ \A id \in DOMAIN pending : Stays(id)
  /\ \A id \in DOMAIN pending \ DOMAIN pending' : LeftBySending(id)

LEMMA DecideKeepsDrafts ==
  ASSUME IInv, Numbered, NEW w \in Workers, Decide(w)
  PROVE  DraftsKept
<1>1. PICK d \in Decisions : IsSubmitted(w, d) \/ IsParked(w, d) \/ IsBlocked(w, d)
  BY DecideIs
<1>2. decisions + 1 \notin DOMAIN pending
  BY TypesOf DEF Numbered, ParkedNumbered
<1>3. \/ UNCHANGED pending
      \/ pending' = SetKey(pending, d.id, [decision |-> d, event |-> work[w].event]) /\ d.id \notin DOMAIN pending
  BY <1>1, <1>2 DEF IsSubmitted, IsParked, IsBlocked, Judged
<1> QED
  BY <1>3 DEF SetKey, DraftsKept, Stays

LEMMA RecordKeepsDrafts ==
  ASSUME IInv, Numbered, NEW w \in Workers, RecordSent(w)
  PROVE  DraftsKept
<1> DEFINE j == work[w]
           id == j.decision.id
<1>1. /\ j.pc = "record" /\ UNCHANGED spent
      /\ UNCHANGED pending \/ pending' = DropKey(pending, id)
  BY RecordIs DEF stores
<1>2. JobNumbered(j) /\ JobDelivered(j)
  BY DEF Numbered
<1> HIDE DEF j
<1>3. ASSUME id \in DOMAIN pending PROVE LeftBySending(id)
  <2>1. pending[id] = Parks(j)
    BY <1>1, <1>2, <1>3 DEF JobNumbered, Decided
  <2>2. pending[id].decision = j.decision /\ pending[id].event = j.event
    BY <2>1 DEF Parks
  <2>3. Remembers(spent', id) /\ Carries(spent'[id], j)
    BY <1>1, <1>2 DEF JobDelivered, Remembers
  <2> QED
    BY <2>2, <2>3 DEF Carries, LeftBySending
<1>4. \A x \in DOMAIN pending :
        Stays(x) /\ (x \notin DOMAIN pending' => x = id)
  BY <1>1 DEF DropKey, Stays
<1> QED
  BY <1>3, <1>4 DEF DraftsKept

LEMMA NextKeepsDrafts == IInv /\ Numbered /\ [Next]_vars => DraftsKept
<1> SUFFICES ASSUME IInv, Numbered, [Next]_vars PROVE DraftsKept
  OBVIOUS
<1>1. ASSUME UNCHANGED pending PROVE DraftsKept
  BY <1>1 DEF DraftsKept, Stays
<1>2. ASSUME NEW w \in Workers, Continue(w) \/ CallFails(w) \/ StoreFails(w) \/ SendReplyLost(w)
      PROVE  DraftsKept
  <2>1. CASE SendRefused(w) \/ CallFails(w) \/ GuardStops(w) \/ (StoreFails(w) /\ UNCHANGED seen)
    BY <1>1, <2>1, FailIs
  <2>2. CASE SendReplyLost(w)
    BY <1>1, <2>2, LoseIs DEF Posted
  <2>3. CASE \/ FetchContact(w) \/ GuardPasses(w) \/ SendAccepted(w) \/ Spend(w)
             \/ MarkSeen(w) \/ (StoreFails(w) /\ ~UNCHANGED seen)
    BY <1>1, <2>3, FetchIs, PassIs, AcceptIs, MarkIs DEF Posted
  <2> QED
    BY <1>2, <2>1, <2>2, <2>3, DecideKeepsDrafts, RecordKeepsDrafts DEF Continue
<1>3. ASSUME NEW w \in Workers,
             RejectForged(w) \/ \E e \in Events : Receive(w, e) \/ LookupFails(w, e)
      PROVE  DraftsKept
  <2>1. CASE TurnsAway(w)
    BY <1>1, <2>1, TurnAwayIs
  <2>2. ASSUME NEW e \in Events, ReceiveNew(w, e) PROVE DraftsKept
    BY <1>1, <2>2 DEF ReceiveNew, NextAttempt
  <2> QED
    BY <1>3, <2>1, <2>2 DEF Receive, TurnsAway
<1>4. ASSUME NEW w \in Workers, NEW id \in DOMAIN pending, ReleaseDraft(w, id) PROVE DraftsKept
  BY <1>1, <1>4, ReleaseIs
<1>5. ASSUME UNCHANGED vars \/ OpenOrClose \/ \E c \in Contacts : ChangeOptOut(c) PROVE DraftsKept
  BY <1>1, <1>5, QuietIs
<1>6. ASSUME Crash PROVE DraftsKept
  <2>1. env'["crash"] > env["crash"] /\ pending' = EmptyStore
    BY <1>6, TypesOf DEF Crash, Disturb, EnvKinds
  <2> QED
    BY <2>1 DEF DraftsKept, Stays, LeftBySending, EmptyStore
<1> QED
  BY <1>2, <1>3, <1>4, <1>5, <1>6 DEF Next

\* A parked draft is never exchanged for another, and short of a restart it
\* leaves the queue only when a message with exactly its content is on the
\* platform and its approval is spent: however many people release drafts at
\* once, while webhooks are answered (bridge.py, release_draft).
THEOREM DraftsLeaveBySending == Spec => DraftLeavesBySending
<1>1. IInv /\ Numbered /\ [Next]_vars =>
        /\ [\A id \in DOMAIN pending : id \in DOMAIN pending' => pending'[id] = pending[id]]_vars
        /\ [\A id \in DOMAIN pending \ DOMAIN pending' :
             \/ env'["crash"] > env["crash"]
             \/ /\ Remembers(spent', id)
                /\ LET m == messages[spent'[id]] IN
                   /\ <<m.contact, m.body>> = content_fingerprint(pending[id].decision.reading.draft)
                   /\ m.by.event = pending[id].event]_vars
  BY NextKeepsDrafts DEF DraftsKept, Stays, LeftBySending
<1> QED
  BY <1>1, InvNumbered, PTL DEF Spec, DraftLeavesBySending

-----------------------------------------------------------------------------
(* Deliveries, step by step.                                               *)

\* Delivery n of event e is nothing another worker has in hand: worker w has
\* it, or it is just being made, or it is no delivery at all.
Own(w, e, n) ==
  \/ e \notin Events \/ n = 0
  \/ Active(work[w]) /\ work[w].event = e /\ work[w].delivery = n
  \/ n = attempts[e] + 1 /\ n <= attempts'[e]

\* All that a step of worker w writes, sends and goes on with is its own.
MindsItsOwn(w) ==
  /\ Moves(w) /\ LedgerGrows /\ \A e \in Events : attempts[e] <= attempts'[e]
  /\ attempts' \in [Events -> Nat]
  /\ Active(work'[w]) => Own(w, work'[w].event, work'[w].delivery)
  /\ \A i \in (Len(ledger) + 1)..Len(ledger') : Own(w, ledger'[i].event, ledger'[i].delivery)

LEMMA OwnIsNobodyElses ==
  ASSUME IInv, Delivered, NEW w \in Workers, NEW v \in Workers, v # w, Active(work[v]),
         NEW e, NEW n, Own(w, e, n)
  PROVE  <<e, n>> # Of(work[v])
<1>1. /\ work[v].event \in Events /\ work[v].delivery # 0 /\ work[v].delivery \in Nat
      /\ work[v].delivery <= attempts[work[v].event] /\ attempts[work[v].event] \in Nat
  BY JobTypes, TypesOf DEF Active, IsRelease, Delivered, JobOfDelivery
<1>2. CASE e \notin Events \/ n = 0
  BY <1>1, <1>2 DEF Of
<1>3. CASE Active(work[w]) /\ work[w].event = e /\ work[w].delivery = n
  <2>1. Of(work[v]) # Of(work[w])
    BY <1>3 DEF Delivered
  <2> QED
    BY <1>3, <2>1 DEF Of
<1>4. CASE n = attempts[e] + 1
  <2>1. SUFFICES ASSUME e = work[v].event, n = work[v].delivery PROVE FALSE
    BY DEF Of
  <2> QED
    BY <1>1, <1>4, <2>1
<1> QED
  BY <1>2, <1>3, <1>4 DEF Own

\* The other workers' deliveries stay theirs.
LEMMA OthersStayDelivered ==
  ASSUME IInv, Delivered, NEW w \in Workers, MindsItsOwn(w),
         NEW v \in Workers, v # w,
         \A e \in DOMAIN seen' : \/ e \in DOMAIN seen /\ seen'[e] = seen[e]
                                 \/ Own(w, e, seen'[e]),
         Len(messages') \in Nat,
         \A i \in 1..Len(messages') : \/ i \in 1..Len(messages) /\ messages'[i] = messages[i]
                                      \/ Own(w, messages'[i].by.event, messages'[i].by.delivery)
  PROVE  work'[v] = work[v] /\ (JobOfDelivery(work[v]))'
<1>0. PICK j : j = work[v]
  OBVIOUS
<1>1. work'[v] = j /\ JobOfDelivery(j)
  BY <1>0 DEF MindsItsOwn, Moves, Delivered
<1>2. SUFFICES ASSUME Active(j) PROVE JobOfDelivery(j)'
  <2>1. ~Active(j) => JobOfDelivery(j)'
    BY DEF JobOfDelivery
  <2> QED
    BY <1>0, <1>1, <1>2, <2>1 DEF JobOfDelivery
<1>3. \A e, n : Own(w, e, n) => <<e, n>> # Of(j)
  BY <1>0, <1>2, OwnIsNobodyElses
<1>4. j.event \in Events /\ j.delivery \in Nat
  BY <1>0, <1>2, JobTypes DEF Active
<1>5. j.delivery <= attempts'[j.event]
  <2>1. /\ attempts[j.event] \in Nat /\ attempts'[j.event] \in Nat
        /\ attempts[j.event] <= attempts'[j.event] /\ j.delivery <= attempts[j.event]
    BY <1>1, <1>2, <1>4, TypesOf DEF MindsItsOwn, JobOfDelivery
  <2> QED
    BY <1>4, <2>1
<1>6. Remembers(seen', j.event) => seen'[j.event] # j.delivery
  BY <1>1, <1>2, <1>3 DEF JobOfDelivery, Remembers, Of
<1>7. ASSUME NEW i \in 1..Len(ledger'), Of(ledger'[i]) = Of(j)
      PROVE  /\ ledger'[i].kind # "webhook_handler_failed"
             /\ j.pc = "mark" /\ ledger'[i].kind = "webhook_received" =>
                  \E k \in i..Len(ledger') : ledger'[k].event = j.event /\ Settles(ledger'[k])
  <2>1. i \in 1..Len(ledger)
    <3>1. i \notin (Len(ledger) + 1)..Len(ledger')
      BY <1>3, <1>7 DEF MindsItsOwn, Of
    <3> QED
      BY <3>1 DEF MindsItsOwn, LedgerGrows
  <2>2. ledger'[i] = ledger[i]
    BY <2>1 DEF MindsItsOwn, LedgerGrows
  <2>3. /\ ledger[i].kind # "webhook_handler_failed"
        /\ j.pc = "mark" /\ ledger[i].kind = "webhook_received" =>
             \E k \in i..Len(ledger) : ledger[k].event = j.event /\ Settles(ledger[k])
    BY <1>1, <1>2, <1>7, <2>1, <2>2 DEF JobOfDelivery
  <2>4. \A k \in i..Len(ledger) : k \in i..Len(ledger') /\ ledger'[k] = ledger[k]
    BY <2>1 DEF MindsItsOwn, LedgerGrows
  <2> QED
    BY <2>2, <2>3, <2>4
<1>8. Fresh(j) => \A i \in 1..Len(messages') : Of(messages'[i].by) # Of(j)
  BY <1>1, <1>2, <1>3 DEF JobOfDelivery, Of
<1> QED
  BY <1>5, <1>6, <1>7, <1>8 DEF JobOfDelivery

\* A step that only does its own and marks nothing keeps the invariant, given
\* what it does for its own job and the messages it sends.
LEMMA OwnStepDelivered ==
  ASSUME IInv, Delivered, NEW w \in Workers, MindsItsOwn(w), UNCHANGED seen,
         messages' \in Seq(Messages), OneAutoReplyPerDelivery',
         \A i \in 1..Len(messages') : \/ i \in 1..Len(messages) /\ messages'[i] = messages[i]
                                      \/ Own(w, messages'[i].by.event, messages'[i].by.delivery)
                                         /\ messages'[i].by.event \in Events,
         NEW k, k = work'[w], JobOfDelivery(k)'
  PROVE  Delivered'
<1>1. \A v \in Workers : v # w => work'[v] = work[v] /\ (JobOfDelivery(work[v]))'
  <2>1. Len(messages') \in Nat
    OBVIOUS
  <2> QED
    BY <2>1, OthersStayDelivered
<1>2. \A v \in Workers : (JobOfDelivery(work[v]))'
  <2>1. (JobOfDelivery(work[w]))'
    BY DEF JobOfDelivery
  <2> QED
    BY <1>1, <2>1
<1>3. ASSUME NEW v \in Workers, v # w, Active(work'[v]), Active(work'[w])
      PROVE  Of(work'[v]) # Of(work'[w])
  <2>1. Own(w, k.event, k.delivery) /\ Active(work[v]) /\ work'[v] = work[v]
    BY <1>1, <1>3 DEF MindsItsOwn
  <2>2. <<k.event, k.delivery>> # Of(work[v])
    BY <1>3, <2>1, OwnIsNobodyElses
  <2> QED
    BY <2>1, <2>2 DEF Of
<1>4. ASSUME NEW u \in Workers, NEW v \in Workers, u # v, Active(work'[u]), Active(work'[v])
      PROVE  Of(work'[u]) # Of(work'[v])
  <2>1. CASE u = w \/ v = w
    BY <1>3, <1>4, <2>1
  <2>2. CASE u # w /\ v # w
    BY <1>1, <1>4, <2>2 DEF Delivered
  <2> QED
    BY <2>1, <2>2
<1>5. NothingOfTheFuture'
  <2>1. ASSUME NEW e \in Events, NEW n \in Nat, Own(w, e, n) PROVE n <= attempts'[e]
    <3>1. attempts[e] \in Nat /\ attempts'[e] \in Nat /\ attempts[e] <= attempts'[e]
      BY TypesOf DEF MindsItsOwn
    <3>2. CASE Active(work[w]) /\ work[w].event = e /\ work[w].delivery = n
      BY <3>1, <3>2 DEF Delivered, JobOfDelivery
    <3> QED
      BY <2>1, <3>1, <3>2 DEF Own
  <2>2. ASSUME NEW e \in DOMAIN seen' PROVE seen'[e] \in 1..attempts'[e]
    <3>1. /\ e \in Events /\ seen'[e] \in 1..attempts[e] /\ attempts[e] \in Nat
          /\ attempts'[e] \in Nat /\ attempts[e] <= attempts'[e]
      BY TypesOf DEF Delivered, NothingOfTheFuture, MindsItsOwn
    <3> QED
      BY <3>1
  <2>3. ASSUME NEW i \in 1..Len(ledger'), ledger'[i].event \in Events
        PROVE  ledger'[i].delivery <= attempts'[ledger'[i].event]
    <3>1. CASE i \in 1..Len(ledger)
      <4> DEFINE e == ledger[i].event
      <4>1. ledger'[i] = ledger[i] /\ e \in Events /\ ledger[i].delivery \in Nat
        BY <2>3, <3>1, TypesOf, LineTypes DEF MindsItsOwn, LedgerGrows
      <4>2. /\ ledger[i].delivery <= attempts[e] /\ attempts[e] \in Nat
            /\ attempts'[e] \in Nat /\ attempts[e] <= attempts'[e]
        BY <3>1, <4>1, TypesOf DEF Delivered, NothingOfTheFuture, MindsItsOwn
      <4> QED
        BY <4>1, <4>2
    <3>2. CASE i \notin 1..Len(ledger)
      <4>1. i \in (Len(ledger) + 1)..Len(ledger') /\ ledger'[i] \in Lines
        BY <3>2 DEF MindsItsOwn, LedgerGrows
      <4>2. Own(w, ledger'[i].event, ledger'[i].delivery) /\ ledger'[i].delivery \in Nat
        BY <4>1 DEF MindsItsOwn, Lines
      <4> QED
        BY <2>1, <2>3, <4>2
    <3> QED
      BY <3>1, <3>2
  <2>4. ASSUME NEW i \in 1..Len(messages')
        PROVE  messages'[i].by.delivery <= attempts'[messages'[i].by.event]
    <3>1. CASE i \in 1..Len(messages) /\ messages'[i] = messages[i]
      <4> DEFINE b == messages[i].by
      <4>1. b.event \in Events /\ b.delivery \in Nat /\ messages'[i].by = b
        BY <3>1, MessageTypes, TypesOf
      <4>2. /\ b.delivery <= attempts[b.event] /\ attempts[b.event] \in Nat
            /\ attempts'[b.event] \in Nat /\ attempts[b.event] <= attempts'[b.event]
        BY <3>1, <4>1, TypesOf DEF Delivered, NothingOfTheFuture, MindsItsOwn
      <4> QED
        BY <4>1, <4>2
    <3>2. CASE Own(w, messages'[i].by.event, messages'[i].by.delivery) /\ messages'[i].by.event \in Events
      <4>1. messages'[i].by.delivery \in Nat
        BY MessageTypes
      <4> QED
        BY <2>1, <3>2, <4>1
    <3> QED
      BY <3>1, <3>2
  <2> QED
    BY <2>2, <2>3, <2>4 DEF NothingOfTheFuture
<1>6. SeenMeansSettled'
  <2>1. SUFFICES ASSUME NEW e \in DOMAIN seen, NEW i \in 1..Len(ledger'),
                        ledger'[i].event = e, ledger'[i].delivery = seen[e]
                 PROVE  /\ ledger'[i].kind # "webhook_handler_failed"
                        /\ ledger'[i].kind = "webhook_received" =>
                             \E x \in i..Len(ledger') : ledger'[x].event = e /\ Settles(ledger'[x])
    BY DEF SeenMeansSettled
  <2>2. i \in 1..Len(ledger)
    <3>1. SUFFICES ASSUME i \notin 1..Len(ledger) PROVE FALSE
      OBVIOUS
    <3>2. Own(w, e, seen[e])
      BY <2>1, <3>1 DEF MindsItsOwn, LedgerGrows
    <3>3. e \in Events /\ seen[e] \in 1..attempts[e] /\ attempts[e] \in Nat
      BY TypesOf DEF Delivered, NothingOfTheFuture
    <3>4. Active(work[w]) /\ work[w].event = e => work[w].delivery # seen[e]
      BY DEF Delivered, JobOfDelivery, Remembers
    <3> QED
      BY <3>2, <3>3, <3>4 DEF Own
  <2>3. ledger'[i] = ledger[i]
    BY <2>2 DEF MindsItsOwn, LedgerGrows
  <2>4. /\ ledger[i].kind # "webhook_handler_failed"
        /\ ledger[i].kind = "webhook_received" =>
             \E x \in i..Len(ledger) : ledger[x].event = e /\ Settles(ledger[x])
    BY <2>1, <2>2, <2>3 DEF Delivered, SeenMeansSettled
  <2>5. \A x \in i..Len(ledger) : x \in i..Len(ledger') /\ ledger'[x] = ledger[x]
    BY <2>2 DEF MindsItsOwn, LedgerGrows
  <2> QED
    BY <2>3, <2>4, <2>5
<1> QED
  BY <1>2, <1>4, <1>5, <1>6 DEF Delivered

LEMMA ChecksOneAutoReply ==
  ASSUME UNCHANGED messages, OneAutoReplyPerDelivery
  PROVE  OneAutoReplyPerDelivery'
BY DEF OneAutoReplyPerDelivery

LEMMA IdleDelivered == JobOfDelivery(Idle)'
BY DEF JobOfDelivery, Active, Idle

LEMMA ReleaseDelivered == ASSUME NEW k, k.delivery = 0 PROVE JobOfDelivery(k)'
BY DEF JobOfDelivery, Active, IsRelease

\* A delivery goes on; once it is to be marked, its effect is recorded.
LEMMA GoesOnDelivered ==
  ASSUME IInv, Delivered, NEW w \in Workers, Active(work[w]), LedgerGrows, Moves(w),
         NEW k, k = work'[w], k.event = work[w].event, k.delivery = work[w].delivery,
         UNCHANGED <<seen, attempts>>, work[w].pc # "mark",
         \A i \in (Len(ledger) + 1)..Len(ledger') : ledger'[i].delivery = 0,
         k.pc = "mark" =>
           /\ Len(ledger') > Len(ledger) /\ ledger'[Len(ledger')].event = work[w].event
           /\ Settles(ledger'[Len(ledger')]),
         Fresh(k) => UNCHANGED messages /\ Fresh(work[w])
  PROVE  JobOfDelivery(k)' /\ MindsItsOwn(w)
<1>0. PICK j : j = work[w]
  OBVIOUS
<1>1. /\ JobOfDelivery(j) /\ Active(j) /\ j.delivery # 0 /\ j.event \in Events
  BY <1>0, JobTypes DEF Delivered, Active, IsRelease
<1>2. Of(k) = Of(j)
  BY <1>0 DEF Of
<1>3. ASSUME NEW i \in 1..Len(ledger'), Of(ledger'[i]) = Of(j)
      PROVE  /\ ledger'[i].kind # "webhook_handler_failed"
             /\ k.pc = "mark" => \E x \in i..Len(ledger') : ledger'[x].event = j.event /\ Settles(ledger'[x])
  <2>1. i \in 1..Len(ledger)
    <3>1. i \notin (Len(ledger) + 1)..Len(ledger')
      BY <1>1, <1>3 DEF Of
    <3> QED
      BY <3>1 DEF LedgerGrows
  <2>2. ledger'[i] = ledger[i] /\ Len(ledger') \in i..Len(ledger')
    BY <2>1 DEF LedgerGrows
  <2>3. ledger[i].kind # "webhook_handler_failed"
    BY <1>1, <1>3, <2>1, <2>2 DEF JobOfDelivery
  <2> QED
    BY <1>0, <2>2, <2>3
<1>4. JobOfDelivery(k)'
  BY <1>0, <1>1, <1>2, <1>3 DEF JobOfDelivery
<1>5. MindsItsOwn(w)
  BY <1>0, <1>1, TypesOf DEF MindsItsOwn, Own
<1> QED
  BY <1>4, <1>5

LEMMA TurnAwayDelivered ==
  ASSUME IInv, Delivered, NEW w \in Workers, TurnsAway(w)
  PROVE  Delivered'
<1>1. PICK k : k = work'[w]
  OBVIOUS
<1>2. /\ LedgerGrows
      /\ \A i \in (Len(ledger) + 1)..Len(ledger') : ledger'[i].event \in Events =>
           /\ ledger'[i].delivery = attempts[ledger'[i].event] + 1
           /\ attempts'[ledger'[i].event] = ledger'[i].delivery
      /\ \A e \in Events : attempts[e] <= attempts'[e]
      /\ UNCHANGED <<seen, messages, work>> /\ work[w].pc = "idle"
  BY TurnAwayIs DEF stores
<1>3. MindsItsOwn(w)
  <2>1. attempts' \in [Events -> Nat]
    BY NextOK DEF IInv, TypeOK, TurnsAway, Next, Receive
  <2>2. Moves(w) /\ ~Active(work'[w])
    BY <1>2, TypesOf DEF Moves, Active
  <2>3. ASSUME NEW i \in (Len(ledger) + 1)..Len(ledger')
        PROVE  Own(w, ledger'[i].event, ledger'[i].delivery)
    <3>1. PICK l : l = ledger'[i]
      OBVIOUS
    <3>2. l.event \in Events => l.delivery = attempts[l.event] + 1 /\ l.delivery = attempts'[l.event]
      BY <1>2, <3>1
    <3>3. l.event \in Events => attempts'[l.event] \in Nat
      BY <2>1
    <3> QED
      BY <3>1, <3>2, <3>3 DEF Own
  <2> QED
    BY <1>2, <2>1, <2>2, <2>3 DEF MindsItsOwn
<1>4. JobOfDelivery(k)'
  BY <1>1, <1>2 DEF JobOfDelivery, Active
<1>5. messages' \in Seq(Messages) /\ OneAutoReplyPerDelivery'
  BY <1>2, TypesOf, ChecksOneAutoReply DEF Delivered
<1> QED
  BY <1>1, <1>2, <1>3, <1>4, <1>5, OwnStepDelivered

LEMMA TakeDelivered ==
  ASSUME IInv, Delivered, NEW w \in Workers, NEW e \in Events, ReceiveNew(w, e)
  PROVE  Delivered'
<1> DEFINE n == attempts[e] + 1
           L == Len(ledger)
<1>1. PICK k : k = work'[w]
  OBVIOUS
<1>2. n \in Nat /\ n # 0 /\ attempts[e] \in Nat /\ attempts \in [Events -> Nat] /\ L \in Nat
  BY TypesOf
<1>3. n = attempts[e] + 1
  OBVIOUS
<1> HIDE DEF n
<1>4. /\ LedgerGrows /\ Is(ledger'[L + 1], "webhook_received", e, n)
      /\ ~Remembers(seen, e) /\ work[w].pc = "idle"
      /\ UNCHANGED <<seen, messages>> /\ attempts' = [attempts EXCEPT ![e] = n] /\ Moves(w)
      /\ \/ /\ UNCHANGED work /\ Len(ledger') = L + 2
            /\ Is(ledger'[L + 2], "webhook_handler_failed", e, n)
         \/ /\ JobIs(k, "mark", e, n) /\ Len(ledger') = L + 2
            /\ Is(ledger'[L + 2], "event_ignored", e, 0)
         \/ JobIs(k, "fetch", e, n) /\ Len(ledger') = L + 1
  BY <1>1, <1>2, <1>3, TakeIs DEF stores
<1>5. Own(w, e, n) /\ Own(w, e, 0) /\ attempts'[e] = n
  BY <1>2, <1>3, <1>4 DEF Own
<1>6. \A i \in (L + 1)..Len(ledger') : i = L + 1 \/ (i = L + 2 /\ Len(ledger') = L + 2)
  BY <1>2, <1>4
<1>7. MindsItsOwn(w)
  <2>1. \A i \in (L + 1)..Len(ledger') : Own(w, ledger'[i].event, ledger'[i].delivery)
    <3>1. ledger'[L + 1].event = e /\ ledger'[L + 1].delivery = n
      BY <1>4 DEF Is
    <3>2. Len(ledger') = L + 2 => ledger'[L + 2].event = e /\ ledger'[L + 2].delivery \in {n, 0}
      BY <1>2, <1>4 DEF Is
    <3> QED
      BY <1>5, <1>6, <3>1, <3>2
  <2>2. Active(work'[w]) => Own(w, work'[w].event, work'[w].delivery)
    BY <1>1, <1>4, <1>5 DEF Active, JobIs
  <2>3. attempts' \in [Events -> Nat] /\ \A x \in Events : attempts[x] <= attempts'[x]
    BY <1>2, <1>3, <1>4
  <2> QED
    BY <1>4, <2>1, <2>2, <2>3 DEF MindsItsOwn
<1>8. JobOfDelivery(k)'
  <2>1. CASE k.pc = "idle"
    BY <2>1 DEF JobOfDelivery, Active
  <2>2. CASE k.pc # "idle"
    <3>1. /\ k.event = e /\ k.delivery = n
          /\ \/ k.pc = "fetch" /\ Len(ledger') = L + 1
             \/ k.pc = "mark" /\ Len(ledger') = L + 2 /\ Is(ledger'[L + 2], "event_ignored", e, 0)
      BY <1>1, <1>4, <2>2 DEF JobIs
    <3>2. ASSUME NEW i \in 1..Len(ledger'), Of(ledger'[i]) = Of(k)
          PROVE  /\ ledger'[i].kind # "webhook_handler_failed"
                 /\ k.pc = "mark" => \E x \in i..Len(ledger') : ledger'[x].event = e /\ Settles(ledger'[x])
      <4>1. ledger'[i].event = e /\ ledger'[i].delivery = n
        BY <3>1, <3>2 DEF Of
      <4>2. i \notin 1..L
        <5>1. SUFFICES ASSUME i \in 1..L PROVE FALSE
          OBVIOUS
        <5>2. ledger'[i] = ledger[i] /\ ledger[i].delivery <= attempts[ledger[i].event]
          BY <4>1, <5>1, <1>4 DEF LedgerGrows, Delivered, NothingOfTheFuture
        <5> QED
          BY <1>2, <1>3, <4>1, <5>2
      <4>3. i = L + 1
        <5>1. i \in (L + 1)..Len(ledger')
          BY <1>2, <4>2
        <5> QED
          BY <1>2, <1>6, <3>1, <4>1, <5>1 DEF Is
      <4>4. k.pc = "mark" => /\ L + 2 \in i..Len(ledger') /\ ledger'[L + 2].event = e
                             /\ Settles(ledger'[L + 2])
        BY <1>2, <3>1, <4>3 DEF Is, Settles, Settling
      <4> QED
        BY <1>4, <4>3, <4>4 DEF Is
    <3>3. ASSUME NEW i \in 1..Len(messages') PROVE Of(messages'[i].by) # Of(k)
      <4>1. messages[i].by.delivery <= attempts[messages[i].by.event]
        BY <1>4 DEF Delivered, NothingOfTheFuture
      <4> QED
        BY <1>2, <1>3, <1>4, <3>1, <4>1 DEF Of
    <3>4. k.delivery <= attempts'[k.event] /\ ~Remembers(seen', k.event)
      BY <1>2, <1>4, <1>5, <3>1
    <3> QED
      BY <3>1, <3>2, <3>3, <3>4 DEF JobOfDelivery
  <2> QED
    BY <2>1, <2>2
<1>9. messages' \in Seq(Messages) /\ OneAutoReplyPerDelivery'
  BY <1>4, TypesOf, ChecksOneAutoReply DEF Delivered
<1> QED
  BY <1>1, <1>4, <1>7, <1>8, <1>9, OwnStepDelivered

LEMMA FetchDelivered ==
  ASSUME IInv, Numbered, Delivered, NEW w \in Workers, FetchContact(w)
  PROVE  Delivered'
<1>1. PICK k : k = work'[w]
  OBVIOUS
<1>2. /\ work[w].pc = "fetch" /\ Moves(w) /\ LedgerGrows /\ UNCHANGED <<seen, ledger, messages, attempts>>
      /\ k.pc = "decide" /\ k.event = work[w].event /\ k.delivery = work[w].delivery
  BY <1>1, FetchIs DEF JobIs, stores
<1>3. Active(work[w]) /\ Fresh(work[w])
  BY <1>2 DEF Numbered, JobNumbered, Active, Fresh
<1>4. \A i \in (Len(ledger) + 1)..Len(ledger') : FALSE
  BY <1>2, TypesOf
<1>5. JobOfDelivery(k)' /\ MindsItsOwn(w)
  BY <1>1, <1>2, <1>3, <1>4, GoesOnDelivered
<1>6. messages' \in Seq(Messages) /\ OneAutoReplyPerDelivery'
  BY <1>2, TypesOf, ChecksOneAutoReply DEF Delivered
<1> QED
  BY <1>1, <1>2, <1>5, <1>6, OwnStepDelivered

LEMMA GivesUpOwn ==
  ASSUME IInv, NEW w \in Workers, GivesUp(w), UNCHANGED attempts
  PROVE  MindsItsOwn(w)
<1>1. ASSUME NEW i \in (Len(ledger) + 1)..Len(ledger')
      PROVE  Own(w, ledger'[i].event, ledger'[i].delivery)
  <2>1. \/ /\ ~IsRelease(work[w]) /\ work[w].pc # "idle"
           /\ ledger'[i].event = work[w].event /\ ledger'[i].delivery = work[w].delivery
        \/ ledger'[i].delivery = 0
    BY DEF GivesUp, Is
  <2> QED
    BY <2>1 DEF Own, Active
<1>2. ~Active(work'[w])
  BY DEF GivesUp, Active, Idle
<1> QED
  BY <1>1, <1>2, TypesOf DEF MindsItsOwn, GivesUp

\* What a send adds is the one automatic reply of its own delivery, or a
\* person's.
LEMMA PostedOnce ==
  ASSUME IInv, Delivered, NEW w \in Workers, Posted(w)
  PROVE  /\ OneAutoReplyPerDelivery'
         /\ \A i \in 1..Len(messages') :
              \/ i \in 1..Len(messages) /\ messages'[i] = messages[i]
              \/ Own(w, messages'[i].by.event, messages'[i].by.delivery)
                 /\ messages'[i].by.event \in Events
<1> DEFINE n == Len(messages) + 1
           m == Outbound(work[w])
<1>1. /\ work[w].pc = "send" /\ Len(messages') = n /\ Len(messages) \in Nat
      /\ \A i \in 1..Len(messages) : messages'[i] = messages[i]
      /\ messages'[n] = m
  BY TypesOf DEF Posted
<1>2. /\ m.by.event = work[w].event /\ m.by.delivery = work[w].delivery
      /\ Of(m.by) = Of(work[w]) /\ (IsRelease(m.by) <=> IsRelease(work[w]))
      /\ work[w].event \in Events
  BY <1>1, OutboundIs, JobTypes
<1>3. \A i \in 1..n : i = n \/ i \in 1..Len(messages)
  BY <1>1
<1> HIDE DEF n, m
<1>4. Own(w, m.by.event, m.by.delivery)
  BY <1>1, <1>2 DEF Own, Active, IsRelease
<1>5. ASSUME NEW i \in 1..Len(messages) PROVE ~IsRelease(m.by) \/ ~IsRelease(messages[i].by) => Of(messages[i].by) # Of(m.by)
  <2>1. CASE IsRelease(m.by)
    BY <2>1 DEF IsRelease, Of
  <2>2. CASE ~IsRelease(m.by)
    <3>1. Fresh(work[w])
      BY <1>1, <1>2, <2>2 DEF Fresh, Active
    <3>2. Of(messages[i].by) # Of(work[w])
      BY <3>1 DEF Delivered, JobOfDelivery, Fresh
    <3> QED
      BY <1>2, <3>2
  <2> QED
    BY <2>1, <2>2
<1>6. OneAutoReplyPerDelivery'
  <2>1. SUFFICES ASSUME NEW i \in 1..n, NEW k \in 1..n, i # k, ~IsRelease(messages'[i].by)
                 PROVE  Of(messages'[i].by) # Of(messages'[k].by)
    BY <1>1 DEF OneAutoReplyPerDelivery, Of, IsRelease
  <2>2. CASE i = n
    BY <1>1, <1>3, <1>5, <2>1, <2>2
  <2>3. CASE k = n
    BY <1>1, <1>3, <1>5, <2>1, <2>3
  <2>4. CASE i # n /\ k # n
    BY <1>1, <1>3, <2>1, <2>4 DEF Delivered, OneAutoReplyPerDelivery, Of
  <2> QED
    BY <2>2, <2>3, <2>4
<1> QED
  BY <1>1, <1>2, <1>3, <1>4, <1>6

LEMMA FailDelivered ==
  ASSUME IInv, Delivered, NEW w \in Workers, GivesUp(w), UNCHANGED <<seen, attempts>>,
         UNCHANGED messages \/ Posted(w)
  PROVE  Delivered'
<1>1. MindsItsOwn(w) /\ work'[w] = Idle
  BY GivesUpOwn DEF GivesUp
<1>2. CASE UNCHANGED messages
  <2>1. messages' \in Seq(Messages) /\ OneAutoReplyPerDelivery'
    BY <1>2, TypesOf, ChecksOneAutoReply DEF Delivered
  <2> QED
    BY <1>1, <1>2, <2>1, IdleDelivered, OwnStepDelivered
<1>3. CASE Posted(w)
  <2>1. messages' \in Seq(Messages)
    BY <1>3 DEF Posted
  <2> QED
    BY <1>1, <1>3, <2>1, PostedOnce, IdleDelivered, OwnStepDelivered
<1> QED
  BY <1>2, <1>3

LEMMA DecideDelivered ==
  ASSUME IInv, Numbered, Delivered, NEW w \in Workers, Decide(w)
  PROVE  Delivered'
<1> DEFINE L == Len(ledger)
<1>1. PICK d \in Decisions : IsSubmitted(w, d) \/ IsParked(w, d) \/ IsBlocked(w, d)
  BY DecideIs
<1>2. PICK k : k = work'[w]
  OBVIOUS
<1>3. /\ work[w].pc = "decide" /\ LedgerGrows /\ Moves(w) /\ UNCHANGED <<seen, messages, attempts>>
      /\ ledger'[L + 1].delivery = 0 /\ ledger'[L + 2].delivery = 0 /\ L \in Nat
  BY <1>1, TypesOf DEF IsSubmitted, IsParked, IsBlocked, Judged, Is, stores
<1>4. Active(work[w]) /\ Fresh(work[w])
  BY <1>3 DEF Numbered, JobNumbered, Active, Fresh
<1>5. messages' \in Seq(Messages) /\ OneAutoReplyPerDelivery'
  BY <1>3, TypesOf, ChecksOneAutoReply DEF Delivered
<1>6. JobOfDelivery(k)' /\ MindsItsOwn(w)
  <2>1. CASE IsSubmitted(w, d)
    <3>1. /\ Len(ledger') = L + 2 + 0 /\ k.pc = "check"
          /\ k.event = work[w].event /\ k.delivery = work[w].delivery
      BY <1>2, <2>1 DEF IsSubmitted, Judged, JobIs
    <3>2. \A i \in (L + 1)..Len(ledger') : i = L + 1 \/ i = L + 2
      BY <1>3, <3>1
    <3> QED
      BY <1>2, <1>3, <1>4, <3>1, <3>2, GoesOnDelivered
  <2>2. CASE IsParked(w, d) \/ IsBlocked(w, d)
    <3> DEFINE l == ledger'[L + 3]
    <3>1. /\ Len(ledger') = L + 2 + 1 /\ k.pc = "mark"
          /\ k.event = work[w].event /\ k.delivery = work[w].delivery
          /\ l.kind \in {"message_drafted", "message_blocked"} /\ l.event = work[w].event /\ l.delivery = 0
      BY <1>2, <2>2 DEF IsParked, IsBlocked, Judged, JobIs, Is
    <3>2. Settles(l)
      BY <3>1 DEF Settles, Settling
    <3>3. Len(ledger') = L + 3 /\ \A i \in (L + 1)..Len(ledger') : i = L + 1 \/ i = L + 2 \/ i = L + 3
      BY <1>3, <3>1
    <3>4. Len(ledger') > L
      BY <1>3, <3>3
    <3> QED
      BY <1>2, <1>3, <1>4, <3>1, <3>2, <3>3, <3>4, GoesOnDelivered DEF Fresh
  <2> QED
    BY <1>1, <2>1, <2>2
<1> QED
  BY <1>2, <1>3, <1>5, <1>6, OwnStepDelivered

LEMMA AcceptDelivered ==
  ASSUME IInv, Delivered, NEW w \in Workers, SendAccepted(w)
  PROVE  Delivered'
<1>1. PICK k : k = work'[w]
  OBVIOUS
<1>2. /\ Posted(w) /\ Moves(w) /\ LedgerGrows /\ UNCHANGED <<seen, ledger, attempts>>
      /\ work[w].pc = "send" /\ messages' \in Seq(Messages)
      /\ k.pc = "spend" /\ k.event = work[w].event /\ k.delivery = work[w].delivery
  BY <1>1, AcceptIs DEF JobIs, stores, Posted
<1>3. \A i \in (Len(ledger) + 1)..Len(ledger') : FALSE
  BY <1>2, TypesOf
<1>4. JobOfDelivery(k)' /\ MindsItsOwn(w)
  <2>1. CASE Active(work[w])
    BY <1>1, <1>2, <1>3, <2>1, GoesOnDelivered DEF Fresh
  <2>2. CASE ~Active(work[w])
    <3>1. k.delivery = 0
      BY <1>2, <2>2 DEF Active, IsRelease
    <3>2. MindsItsOwn(w)
      BY <1>1, <1>2, <1>3, <3>1, TypesOf DEF MindsItsOwn, Own
    <3> QED
      BY <3>1, <3>2, ReleaseDelivered
  <2> QED
    BY <2>1, <2>2
<1> QED
  BY <1>1, <1>2, <1>4, PostedOnce, OwnStepDelivered

LEMMA PassDelivered ==
  ASSUME IInv, Delivered, NEW w \in Workers, GuardPasses(w) \/ Spend(w)
  PROVE  Delivered'
<1>1. PICK k : k = work'[w]
  OBVIOUS
<1>2. /\ Moves(w) /\ LedgerGrows /\ UNCHANGED <<seen, ledger, messages, attempts>>
      /\ \/ work[w].pc = "check" /\ k.pc = "send"
         \/ work[w].pc = "spend" /\ k.pc = "record"
      /\ k.event = work[w].event /\ k.delivery = work[w].delivery
  BY <1>1, PassIs
<1>3. \A i \in (Len(ledger) + 1)..Len(ledger') : FALSE
  BY <1>2, TypesOf
<1>4. JobOfDelivery(k)' /\ MindsItsOwn(w)
  <2>1. CASE Active(work[w])
    <3>1. /\ k.pc # "mark" /\ work[w].pc # "mark"
          /\ Fresh(k) => UNCHANGED messages /\ Fresh(work[w])
      BY <1>2, <2>1 DEF Fresh
    <3> QED
      BY <1>1, <1>2, <1>3, <2>1, <3>1, GoesOnDelivered
  <2>2. CASE ~Active(work[w])
    <3>1. k.delivery = 0
      BY <1>2, <2>2 DEF Active, IsRelease
    <3>2. MindsItsOwn(w)
      BY <1>1, <1>2, <1>3, <3>1, TypesOf DEF MindsItsOwn, Own
    <3> QED
      BY <3>1, <3>2, ReleaseDelivered
  <2> QED
    BY <2>1, <2>2
<1>5. messages' \in Seq(Messages) /\ OneAutoReplyPerDelivery'
  BY <1>2, TypesOf, ChecksOneAutoReply DEF Delivered
<1> QED
  BY <1>1, <1>2, <1>4, <1>5, OwnStepDelivered

LEMMA RecordDelivered ==
  ASSUME IInv, Delivered, NEW w \in Workers, RecordSent(w)
  PROVE  Delivered'
<1> DEFINE l == ledger'[Len(ledger) + 1]
<1>1. PICK k : k = work'[w]
  OBVIOUS
<1>2. /\ work[w].pc = "record" /\ Moves(w) /\ LedgerGrows /\ Len(ledger') = Len(ledger) + 1
      /\ l.kind = "message_sent" /\ l.event = work[w].event /\ l.delivery = 0
      /\ l.says = ModeOf(work[w]) /\ UNCHANGED <<seen, messages, attempts>>
      /\ IF IsRelease(work[w]) THEN k = Idle
         ELSE k.pc = "mark" /\ k.event = work[w].event /\ k.delivery = work[w].delivery
  BY <1>1, RecordIs DEF JobIs, stores
<1>3. /\ \A i \in (Len(ledger) + 1)..Len(ledger') : i = Len(ledger) + 1
      /\ Len(ledger') > Len(ledger)
  BY <1>2, TypesOf
<1>4. JobOfDelivery(k)' /\ MindsItsOwn(w)
  <2>1. CASE IsRelease(work[w])
    <3>1. k = Idle /\ ~Active(work'[w])
      BY <1>1, <1>2, <2>1 DEF Active, Idle
    <3>2. Own(w, l.event, l.delivery)
      BY <1>2 DEF Own
    <3>3. MindsItsOwn(w)
      BY <1>2, <1>3, <3>1, <3>2, TypesOf DEF MindsItsOwn
    <3> QED
      BY <3>1, <3>3, IdleDelivered
  <2>2. CASE ~IsRelease(work[w])
    <3>1. Active(work[w]) /\ Settles(l)
      BY <1>2, <2>2 DEF Active, Settles, ModeOf
    <3> QED
      BY <1>1, <1>2, <1>3, <2>2, <3>1, GoesOnDelivered DEF Fresh
  <2> QED
    BY <2>1, <2>2
<1>5. messages' \in Seq(Messages) /\ OneAutoReplyPerDelivery'
  BY <1>2, TypesOf, ChecksOneAutoReply DEF Delivered
<1> QED
  BY <1>1, <1>2, <1>4, <1>5, OwnStepDelivered

LEMMA MarkDelivered ==
  ASSUME IInv, Numbered, Delivered, NEW w \in Workers, MarkSeen(w) \/ (StoreFails(w) /\ ~UNCHANGED seen)
  PROVE  Delivered'
<1>0. PICK j : j = work[w]
  OBVIOUS
<1>1. /\ j.pc = "mark" /\ Moves(w) /\ LedgerGrows /\ work'[w] = Idle
      /\ seen' = SetKey(seen, j.event, j.delivery)
      /\ UNCHANGED <<ledger, messages, attempts>>
  BY <1>0, MarkIs
<1>2. /\ Active(j) /\ JobOfDelivery(j) /\ j.event \in Events /\ j.delivery \in Nat /\ j.delivery # 0
      /\ attempts[j.event] \in Nat
  BY <1>0, <1>1, JobTypes, TypesOf DEF Numbered, JobNumbered, Active, IsRelease, Delivered
<1>3. /\ \A i \in (Len(ledger) + 1)..Len(ledger') : FALSE
      /\ ~Active(work'[w]) /\ Len(messages') \in Nat
  BY <1>1, TypesOf DEF Active, Idle
<1>4. MindsItsOwn(w)
  BY <1>1, <1>3, TypesOf DEF MindsItsOwn
<1>5. \A e \in DOMAIN seen' : \/ e \in DOMAIN seen /\ seen'[e] = seen[e]
                              \/ e = j.event /\ seen'[e] = j.delivery
  BY <1>1 DEF SetKey
<1>6. \A v \in Workers : v # w => work'[v] = work[v] /\ (JobOfDelivery(work[v]))'
  <2>1. Own(w, j.event, j.delivery)
    BY <1>0, <1>2 DEF Own
  <2> QED
    BY <1>1, <1>3, <1>4, <1>5, <2>1, OthersStayDelivered
<1>7. \A v \in Workers : (JobOfDelivery(work[v]))'
  <2>1. (JobOfDelivery(work[w]))'
    BY <1>1, IdleDelivered DEF JobOfDelivery
  <2> QED
    BY <1>6, <2>1
<1>8. \A u, v \in Workers :
        u # v /\ Active(work'[u]) /\ Active(work'[v]) => Of(work'[u]) # Of(work'[v])
  <2>1. \A u \in Workers : Active(work'[u]) => work'[u] = work[u]
    BY <1>3, <1>6
  <2> QED
    BY <2>1 DEF Delivered
<1>9. NothingOfTheFuture'
  <2>1. ASSUME NEW e \in DOMAIN seen' PROVE seen'[e] \in 1..attempts[e]
    <3>1. j.delivery \in 1..attempts[j.event]
      BY <1>2 DEF JobOfDelivery
    <3> QED
      BY <1>5, <3>1 DEF Delivered, NothingOfTheFuture
  <2> QED
    BY <1>1, <2>1 DEF Delivered, NothingOfTheFuture
<1>10. SeenMeansSettled'
  <2>1. SUFFICES ASSUME NEW e \in DOMAIN seen', NEW i \in 1..Len(ledger),
                        ledger[i].event = e, ledger[i].delivery = seen'[e]
                 PROVE  /\ ledger[i].kind # "webhook_handler_failed"
                        /\ ledger[i].kind = "webhook_received" =>
                             \E x \in i..Len(ledger) : ledger[x].event = e /\ Settles(ledger[x])
    BY <1>1 DEF SeenMeansSettled
  <2>2. CASE e \in DOMAIN seen /\ seen'[e] = seen[e]
    BY <2>1, <2>2 DEF Delivered, SeenMeansSettled
  <2>3. CASE e = j.event /\ seen'[e] = j.delivery
    <3>1. Of(ledger[i]) = Of(j)
      BY <2>1, <2>3 DEF Of
    <3> QED
      BY <1>1, <1>2, <2>3, <3>1 DEF JobOfDelivery
  <2> QED
    BY <1>5, <2>2, <2>3
<1>11. OneAutoReplyPerDelivery'
  BY <1>1, ChecksOneAutoReply DEF Delivered
<1> QED
  BY <1>7, <1>8, <1>9, <1>10, <1>11 DEF Delivered

LEMMA ReleaseDraftDelivered ==
  ASSUME IInv, Delivered, NEW w \in Workers, NEW id \in DOMAIN pending, ReleaseDraft(w, id)
  PROVE  Delivered'
<1>1. PICK k : k = work'[w]
  OBVIOUS
<1>2. /\ LedgerGrows /\ Moves(w) /\ UNCHANGED <<seen, messages, ledger, attempts>>
      /\ k.delivery = 0
  BY <1>1, ReleaseIs DEF JobIs, stores
<1>3. \A i \in (Len(ledger) + 1)..Len(ledger') : FALSE
  BY <1>2, TypesOf
<1>4. ~Active(work'[w])
  BY <1>1, <1>2 DEF Active, IsRelease
<1>5. MindsItsOwn(w)
  BY <1>2, <1>3, <1>4, TypesOf DEF MindsItsOwn
<1>6. JobOfDelivery(k)'
  BY <1>2, ReleaseDelivered
<1>7. messages' \in Seq(Messages) /\ OneAutoReplyPerDelivery'
  BY <1>2, TypesOf, ChecksOneAutoReply DEF Delivered
<1> QED
  BY <1>1, <1>2, <1>5, <1>6, <1>7, OwnStepDelivered

LEMMA QuietDelivered ==
  ASSUME IInv, Delivered, UNCHANGED vars \/ OpenOrClose \/ \E c \in Contacts : ChangeOptOut(c)
  PROVE  Delivered'
<1>1. UNCHANGED <<seen, ledger, messages, attempts, work>>
  BY QuietIs DEF stores
<1> QED
  BY <1>1 DEF Delivered, NothingOfTheFuture, JobOfDelivery, SeenMeansSettled, OneAutoReplyPerDelivery

LEMMA CrashDelivered ==
  ASSUME IInv, Delivered, Crash
  PROVE  Delivered'
<1>1. /\ work' = [w \in Workers |-> Idle] /\ ledger' = <<>> /\ UNCHANGED <<messages, attempts>>
      /\ seen' = seen \/ seen' = EmptyStore
  BY DEF Crash
<1>2. Len(ledger') = 0
  BY <1>1
<1>3. NothingOfTheFuture'
  BY <1>1, <1>2 DEF Delivered, NothingOfTheFuture, EmptyStore
<1>4. SeenMeansSettled' /\ OneAutoReplyPerDelivery'
  BY <1>1, <1>2, ChecksOneAutoReply DEF SeenMeansSettled, Delivered
<1>5. \A w \in Workers : ~Active(work'[w]) /\ (JobOfDelivery(work[w]))'
  BY <1>1 DEF Active, Idle, JobOfDelivery
<1> QED
  BY <1>3, <1>4, <1>5 DEF Delivered

LEMMA InitDelivered == Init => Delivered
<1> SUFFICES ASSUME Init PROVE Delivered
  OBVIOUS
<1>1. NothingOfTheFuture /\ SeenMeansSettled /\ OneAutoReplyPerDelivery
  BY DEF Init, NothingOfTheFuture, SeenMeansSettled, OneAutoReplyPerDelivery, EmptyStore
<1>2. \A w \in Workers : ~Active(work[w]) /\ JobOfDelivery(work[w])
  BY DEF Init, Active, Idle, JobOfDelivery
<1> QED
  BY <1>1, <1>2 DEF Delivered

LEMMA NextDelivered == IInv /\ Numbered /\ Delivered /\ [Next]_vars => Delivered'
<1> SUFFICES ASSUME IInv, Numbered, Delivered, [Next]_vars PROVE Delivered'
  OBVIOUS
<1>1. ASSUME NEW w \in Workers, Continue(w) \/ CallFails(w) \/ StoreFails(w) \/ SendReplyLost(w)
      PROVE  Delivered'
  <2>1. CASE SendRefused(w) \/ CallFails(w) \/ GuardStops(w) \/ (StoreFails(w) /\ UNCHANGED seen)
    BY <2>1, FailIs, FailDelivered DEF stores
  <2>2. CASE SendReplyLost(w)
    BY <2>2, LoseIs, FailDelivered DEF Posted, stores
  <2> QED
    BY <1>1, <2>1, <2>2, FetchDelivered, DecideDelivered, PassDelivered, AcceptDelivered,
       RecordDelivered, MarkDelivered DEF Continue
<1>2. ASSUME NEW w \in Workers,
             RejectForged(w) \/ \E e \in Events : Receive(w, e) \/ LookupFails(w, e)
      PROVE  Delivered'
  BY <1>2, TakeDelivered, TurnAwayDelivered DEF Receive, TurnsAway
<1>3. ASSUME NEW w \in Workers, NEW id \in DOMAIN pending, ReleaseDraft(w, id) PROVE Delivered'
  BY <1>3, ReleaseDraftDelivered
<1> QED
  BY <1>1, <1>2, <1>3, QuietDelivered, CrashDelivered DEF Next

LEMMA InvDelivered == Spec => [](IInv /\ Numbered /\ Delivered)
<1>1. IInv /\ Numbered /\ Delivered /\ [Next]_vars => Delivered'
  BY NextDelivered
<1> QED
  BY <1>1, InitDelivered, InvNumbered, PTL DEF Spec

\* One delivery of an event sends at most one message by itself: however
\* deliveries overlap, fail, or are cut off by restarts, a second automatic
\* reply takes a redelivery (webhook.py, bridge.py).
THEOREM OneReplyPerDelivery == Spec => []OneAutoReplyPerDelivery
BY InvDelivered, PTL DEF Delivered

\* A key is seen only by a delivery whose handler completed: where the ledger
\* still holds that delivery, the line of its effect follows it and none says
\* that it failed (WebhookIntake.receive marks last).
THEOREM SeenIsSettled == Spec => []SeenMeansSettled
BY InvDelivered, PTL DEF Delivered

-----------------------------------------------------------------------------
(* Stories, step by step.                                                  *)

\* What was told stays told.
LEMMA ToldGrows ==
  ASSUME LedgerGrows, NEW n \in 0..Len(ledger), NEW m \in Nat, n <= m,
         NEW e, NEW id, NEW o, Told(e, id, o, n)
  PROVE  Told(e, id, o, m)'
<1>1. PICK r \in 1..n :
        /\ ledger[r].kind = "webhook_received" /\ ledger[r].event = e
        /\ \E d \in r..n : /\ ledger[d].kind = "draft_generated" /\ ledger[d].event = e
           /\ \E g \in d..n : /\ ledger[g].kind = "gate_decision" /\ ledger[g].event = e
                              /\ ledger[g].decision = id /\ ledger[g].says = o
  BY DEF Told
<1>2. PICK d \in r..n :
        /\ ledger[d].kind = "draft_generated" /\ ledger[d].event = e
        /\ \E g \in d..n : /\ ledger[g].kind = "gate_decision" /\ ledger[g].event = e
                           /\ ledger[g].decision = id /\ ledger[g].says = o
  BY <1>1
<1>3. PICK g \in d..n : /\ ledger[g].kind = "gate_decision" /\ ledger[g].event = e
                        /\ ledger[g].decision = id /\ ledger[g].says = o
  BY <1>2
<1>4. r \in 1..m /\ d \in r..m /\ g \in d..m
  OBVIOUS
<1>5. ledger'[r] = ledger[r] /\ ledger'[d] = ledger[d] /\ ledger'[g] = ledger[g]
  BY DEF LedgerGrows
<1> QED
  BY <1>1, <1>2, <1>3, <1>4, <1>5, SMTT(60) DEF Told

\* A step that names no message.
NamesNothing(w) ==
  /\ Moves(w) /\ LedgerGrows /\ Len(messages') \in Nat /\ Len(messages) <= Len(messages')
  /\ \A i \in (Len(ledger) + 1)..Len(ledger') :
       ledger'[i].message = 0 /\ ledger'[i].kind # "message_sent"

\* A worker that holds no decision and owes its ledger line to nobody.
LEMMA NothingToTell ==
  ASSUME NEW k, k.pc \in {"idle", "mark"}
  PROVE  JobTold(k)'
BY DEF JobTold, Decided

LEMMA JobStaysTold ==
  ASSUME IInv, LedgerGrows, Len(messages') \in Nat, Len(messages) <= Len(messages'),
         NEW j, JobTold(j), j.pc \in {"spend", "record"} => Unnamed(j.message)'
  PROVE  JobTold(j)'
<1>1. Len(ledger) \in Nat /\ Len(ledger') \in Nat /\ Len(ledger) <= Len(ledger') /\ Len(messages) \in Nat
  BY TypesOf DEF LedgerGrows
<1>2. ASSUME j.pc \in {"fetch", "decide"}
      PROVE  \E r \in 1..Len(ledger') : ledger'[r].kind = "webhook_received" /\ ledger'[r].event = j.event
  <2>1. PICK r \in 1..Len(ledger) : ledger[r].kind = "webhook_received" /\ ledger[r].event = j.event
    BY <1>2 DEF JobTold
  <2>2. r \in 1..Len(ledger') /\ ledger'[r] = ledger[r]
    BY <1>1 DEF LedgerGrows
  <2> QED
    BY <2>1, <2>2
<1>3. ASSUME Decided(j) PROVE ToldOf(j.decision, j.event)'
  <2>1. Told(j.event, j.decision.id, j.decision.outcome, Len(ledger))
    BY <1>3 DEF JobTold, ToldOf
  <2>2. PICK n, m : n = Len(ledger) /\ m = Len(ledger')
    OBVIOUS
  <2>3. n \in 0..Len(ledger) /\ m \in Nat /\ n <= m /\ Told(j.event, j.decision.id, j.decision.outcome, n)
    BY <1>1, <2>1, <2>2
  <2>4. Told(j.event, j.decision.id, j.decision.outcome, m)'
    BY <2>3, ToldGrows
  <2> QED
    BY <2>2, <2>4 DEF ToldOf, Told
<1>4. j.pc \in {"spend", "record"} => j.message \in 1..Len(messages')
  BY <1>1 DEF JobTold
<1>5. Decided(j) => j.decision.outcome = IF IsRelease(j) THEN "draft_for_human" ELSE "auto_send"
  BY DEF JobTold
<1> QED
  BY <1>2, <1>3, <1>4, <1>5 DEF JobTold

LEMMA OldLineStaysTold ==
  ASSUME IInv, Storied, LedgerGrows, Len(messages') \in Nat, Len(messages) <= Len(messages'),
         NEW s \in 1..Len(ledger),
         \A i \in (Len(ledger) + 1)..Len(ledger') :
           ledger'[i].message = 0 \/ ledger'[i].message # ledger[s].message
  PROVE  LineTold(s)'
<1>1. /\ ledger'[s] = ledger[s] /\ Len(messages) \in Nat /\ Len(ledger) \in Nat /\ Len(ledger') \in Nat
      /\ s \in 0..Len(ledger) /\ s \in Nat /\ LineTold(s)
  BY TypesOf DEF LedgerGrows, Storied
<1>2. ledger[s].message \in 0..Len(messages')
  BY <1>1 DEF LineTold
<1>3. ASSUME ledger[s].kind = "message_sent"
      PROVE  Told(ledger[s].event, ledger[s].decision, OutcomeFor(ledger[s].says), s)'
  <2>1. PICK e, id, o : e = ledger[s].event /\ id = ledger[s].decision /\ o = OutcomeFor(ledger[s].says)
    OBVIOUS
  <2>2. Told(e, id, o, s)
    BY <1>1, <1>3, <2>1 DEF LineTold
  <2>3. Told(e, id, o, s)'
    BY <1>1, <2>2, ToldGrows
  <2> QED
    BY <1>1, <2>1, <2>3, SMTT(60) DEF Told
<1>4. ASSUME ledger[s].message # 0, NEW i \in 1..Len(ledger'), ledger'[i].message = ledger[s].message
      PROVE  i = s
  <2>1. CASE i \in 1..Len(ledger)
    BY <1>1, <1>4, <2>1 DEF LineTold, LedgerGrows
  <2>2. CASE i \notin 1..Len(ledger)
    <3>1. i \in (Len(ledger) + 1)..Len(ledger')
      BY <1>1, <2>2
    <3> QED
      BY <1>4, <3>1
  <2> QED
    BY <2>1, <2>2
<1> QED
  BY <1>1, <1>2, <1>3, <1>4 DEF LineTold, Told

LEMMA PendingStaysTold ==
  ASSUME IInv, Storied, LedgerGrows, NEW p, p \in {pending[id] : id \in DOMAIN pending}
  PROVE  ToldOf(p.decision, p.event)' /\ p.decision.outcome = "draft_for_human"
<1>1. Told(p.event, p.decision.id, p.decision.outcome, Len(ledger)) /\ p.decision.outcome = "draft_for_human"
  BY DEF Storied, ToldOf
<1>2. PICK n, m : n = Len(ledger) /\ m = Len(ledger')
  OBVIOUS
<1>3. n \in 0..Len(ledger) /\ m \in Nat /\ n <= m /\ Told(p.event, p.decision.id, p.decision.outcome, n)
  BY <1>1, <1>2 DEF LedgerGrows
<1>4. Told(p.event, p.decision.id, p.decision.outcome, m)'
  BY <1>3, ToldGrows
<1> QED
  BY <1>1, <1>2, <1>4, SMTT(60) DEF ToldOf, Told

\* The message a worker goes on with is new, or was its own.
NamesItsOwn(w, k) ==
  k.pc \in {"spend", "record"} =>
    \/ k.message = Len(messages) + 1
    \/ work[w].pc \in {"spend", "record"} /\ k.message = work[w].message

\* A step that names no message keeps the stories, given what it does for its
\* own job and the drafts it parks.
LEMMA NamelessStepStoried ==
  ASSUME IInv, Storied, NEW w \in Workers, NamesNothing(w),
         NEW k, k = work'[w], JobTold(k)', NamesItsOwn(w, k),
         NEW p, \A id \in DOMAIN pending' : \/ id \in DOMAIN pending /\ pending'[id] = pending[id]
                                            \/ /\ pending'[id] = p /\ ToldOf(p.decision, p.event)'
                                               /\ p.decision.outcome = "draft_for_human"
  PROVE  Storied'
<1>1. Len(ledger) \in Nat /\ Len(ledger') \in Nat /\ Len(messages) \in Nat
  BY TypesOf
     DEF NamesNothing, LedgerGrows
<1>2. ASSUME NEW s \in 1..Len(ledger') PROVE LineTold(s)'
  <2>1. CASE s \in 1..Len(ledger)
    BY <2>1, OldLineStaysTold DEF NamesNothing
  <2>2. CASE s \notin 1..Len(ledger)
    <3>1. s \in (Len(ledger) + 1)..Len(ledger')
      BY <1>1, <2>2
    <3>2. ledger'[s].message = 0 /\ ledger'[s].kind # "message_sent" /\ 0 \in 0..Len(messages')
      BY <3>1 DEF NamesNothing
    <3> QED
      BY <3>2 DEF LineTold
  <2> QED
    BY <2>1, <2>2
<1>3. ASSUME NEW id \in DOMAIN pending'
      PROVE  (ToldOf(pending[id].decision, pending[id].event) /\ pending[id].decision.outcome = "draft_for_human")'
  <2>1. PICK q : q = pending'[id]
    OBVIOUS
  <2>2. ToldOf(q.decision, q.event)' /\ q.decision.outcome = "draft_for_human"
    BY <2>1, PendingStaysTold DEF NamesNothing
  <2> QED
    BY <2>1, <2>2 DEF ToldOf, Told
<1>4. ASSUME NEW v \in Workers PROVE (JobTold(work[v]))'
  <2>1. CASE v = w
    BY <2>1 DEF JobTold, ToldOf, Told, Unnamed
  <2>2. CASE v # w
    <3>1. PICK j : j = work[v]
      OBVIOUS
    <3>2. work'[v] = j /\ JobTold(j)
      BY <2>2, <3>1 DEF NamesNothing, Moves, Storied
    <3>3. j.pc \in {"spend", "record"} => Unnamed(j.message)'
      <4>1. SUFFICES ASSUME j.pc \in {"spend", "record"}, NEW i \in 1..Len(ledger') PROVE ledger'[i].message # j.message
        BY DEF Unnamed
      <4>2. Unnamed(j.message) /\ j.message # 0
        BY <3>2, <4>1 DEF JobTold
      <4>3. CASE i \in 1..Len(ledger)
        BY <4>2, <4>3 DEF NamesNothing, LedgerGrows, Unnamed
      <4>4. CASE i \notin 1..Len(ledger)
        BY <1>1, <4>2, <4>4 DEF NamesNothing
      <4> QED
        BY <4>3, <4>4
    <3>4. JobTold(j)'
      BY <3>2, <3>3, JobStaysTold DEF NamesNothing
    <3> QED
      BY <3>2, <3>4 DEF JobTold, ToldOf, Told, Unnamed
  <2> QED
    BY <2>1, <2>2
<1>5. ASSUME NEW u \in Workers, NEW v \in Workers, u # v,
             work'[u].pc \in {"spend", "record"}, work'[v].pc \in {"spend", "record"}
      PROVE  work'[u].message # work'[v].message
  <2>1. \A x \in Workers : x # w => work'[x] = work[x]
    BY DEF NamesNothing, Moves
  <2>2. \A x \in Workers : work[x].pc \in {"spend", "record"} => work[x].message \in 1..Len(messages)
    BY DEF Storied, JobTold
  <2>3. work'[w].pc \in {"spend", "record"} =>
          \/ work'[w].message \notin 1..Len(messages)
          \/ work[w].pc \in {"spend", "record"} /\ work'[w].message = work[w].message
    BY <1>1 DEF NamesItsOwn
  <2> QED
    BY <1>5, <2>1, <2>2, <2>3 DEF Storied
<1> QED
  BY <1>2, <1>3, <1>4, <1>5 DEF Storied

\* The same, when nothing is parked.
LEMMA PlainStepStoried ==
  ASSUME IInv, Storied, NEW w \in Workers, NamesNothing(w), UNCHANGED pending,
         NEW k, k = work'[w], JobTold(k)', NamesItsOwn(w, k)
  PROVE  Storied'
<1>1. PICK p : p = None
  OBVIOUS
<1>2. \A id \in DOMAIN pending' : id \in DOMAIN pending /\ pending'[id] = pending[id]
  OBVIOUS
<1>3. \A id \in DOMAIN pending' : \/ id \in DOMAIN pending /\ pending'[id] = pending[id]
                                  \/ /\ pending'[id] = p /\ ToldOf(p.decision, p.event)'
                                     /\ p.decision.outcome = "draft_for_human"
  BY <1>2
<1> QED
  BY <1>3, NamelessStepStoried

LEMMA TurnAwayStoried ==
  ASSUME IInv, Storied, NEW w \in Workers, TurnsAway(w)
  PROVE  Storied'
<1>1. PICK k : k = work'[w]
  OBVIOUS
<1>2. /\ LedgerGrows
      /\ \A i \in (Len(ledger) + 1)..Len(ledger') :
           ledger'[i].message = 0 /\ ledger'[i].kind # "message_sent"
      /\ UNCHANGED <<pending, messages, work>> /\ k.pc = "idle"
  BY <1>1, TurnAwayIs
<1>4. NamesNothing(w)
  BY <1>2, TypesOf DEF NamesNothing, Moves
<1> QED
  BY <1>1, <1>2, <1>4, NothingToTell, PlainStepStoried DEF NamesItsOwn

LEMMA TakeStoried ==
  ASSUME IInv, Storied, NEW w \in Workers, NEW e \in Events, ReceiveNew(w, e)
  PROVE  Storied'
<1> DEFINE n == attempts[e] + 1
           L == Len(ledger)
<1>1. PICK k : k = work'[w]
  OBVIOUS
<1>2. n \in Nat /\ L \in Nat /\ n = attempts[e] + 1
  BY TypesOf
<1> HIDE DEF n
<1>3. /\ LedgerGrows /\ Is(ledger'[L + 1], "webhook_received", e, n)
      /\ UNCHANGED <<pending, messages>> /\ Moves(w)
      /\ \/ /\ k.pc \in {"idle", "mark"} /\ Len(ledger') = L + 2 /\ ledger'[L + 2].message = 0
            /\ ledger'[L + 2].kind # "message_sent"
         \/ k.pc = "fetch" /\ k.event = e /\ Len(ledger') = L + 1
  BY <1>1, <1>2, TakeIs DEF JobIs, Is
<1>4. \A i \in (L + 1)..Len(ledger') : i = L + 1 \/ (i = L + 2 /\ Len(ledger') = L + 2)
  BY <1>2, <1>3
<1>5. NamesNothing(w)
  BY <1>2, <1>3, <1>4, TypesOf DEF NamesNothing, Is
<1>6. JobTold(k)'
  <2>1. CASE k.pc \in {"idle", "mark"}
    BY <2>1, NothingToTell
  <2>2. CASE k.pc = "fetch" /\ k.event = e /\ Len(ledger') = L + 1
    <3>1. L + 1 \in 1..Len(ledger')
      BY <1>2, <2>2
    <3> QED
      BY <1>3, <2>2, <3>1 DEF JobTold, Is, Decided
  <2> QED
    BY <1>3, <2>1, <2>2
<1>7. NamesItsOwn(w, k)
  BY <1>3 DEF NamesItsOwn
<1> QED
  BY <1>1, <1>3, <1>5, <1>6, <1>7, PlainStepStoried

LEMMA FetchStoried ==
  ASSUME IInv, Storied, NEW w \in Workers, FetchContact(w)
  PROVE  Storied'
<1>1. PICK k : k = work'[w]
  OBVIOUS
<1>2. /\ work[w].pc = "fetch" /\ Moves(w) /\ LedgerGrows /\ UNCHANGED <<pending, ledger, messages>>
      /\ k.pc = "decide" /\ k.event = work[w].event
  BY <1>1, FetchIs DEF JobIs
<1>3. \A i \in (Len(ledger) + 1)..Len(ledger') : FALSE
  BY <1>2, TypesOf
<1>4. NamesNothing(w)
  BY <1>2, <1>3, TypesOf DEF NamesNothing
<1>5. JobTold(work[w])
  BY DEF Storied
<1>6. JobTold(k)'
  BY <1>2, <1>5 DEF JobTold, Decided
<1> QED
  BY <1>1, <1>2, <1>4, <1>6, PlainStepStoried DEF NamesItsOwn

LEMMA FailStoried ==
  ASSUME IInv, Storied, NEW w \in Workers, GivesUp(w), UNCHANGED pending,
         UNCHANGED messages \/ Posted(w)
  PROVE  Storied'
<1>1. /\ Len(messages') \in Nat /\ Len(messages) <= Len(messages')
  BY TypesOf DEF Posted
<1>2. \A i \in (Len(ledger) + 1)..Len(ledger') :
        ledger'[i].message = 0 /\ ledger'[i].kind # "message_sent"
  BY DEF GivesUp, Is
<1>3. NamesNothing(w) /\ work'[w] = Idle /\ Idle.pc = "idle"
  BY <1>1, <1>2 DEF NamesNothing, GivesUp, Idle
<1> QED
  BY <1>3, NothingToTell, PlainStepStoried DEF NamesItsOwn

LEMMA DecideStoried ==
  ASSUME IInv, Numbered, Storied, NEW w \in Workers, Decide(w)
  PROVE  Storied'
<1> DEFINE L == Len(ledger)
<1>0. PICK e : e = work[w].event
  OBVIOUS
<1>1. PICK d \in Decisions : IsSubmitted(w, d) \/ IsParked(w, d) \/ IsBlocked(w, d)
  BY DecideIs
<1>2. PICK k : k = work'[w]
  OBVIOUS
<1>3. /\ work[w].pc = "decide" /\ LedgerGrows /\ Moves(w) /\ UNCHANGED messages
      /\ Is(ledger'[L + 1], "draft_generated", e, 0) /\ Is(ledger'[L + 2], "gate_decision", e, 0)
      /\ ledger'[L + 2].decision = d.id /\ ledger'[L + 2].says = d.outcome /\ L \in Nat
  BY <1>0, <1>1, TypesOf DEF IsSubmitted, IsParked, IsBlocked, Judged
<1>4. ~IsRelease(work[w])
  BY <1>3 DEF Numbered, JobNumbered
<1>5. /\ Len(ledger') \in {L + 2, L + 3}
      /\ Len(ledger') # L + 2 => ledger'[L + 3].message = 0 /\ ledger'[L + 3].kind # "message_sent"
  <2>1. L + 2 + 0 = L + 2 /\ L + 2 + 1 = L + 3
    BY <1>3
  <2> QED
    BY <1>1, <2>1 DEF IsSubmitted, IsParked, IsBlocked, Judged, Is
<1>6. NamesNothing(w)
  <2>1. \A i \in (L + 1)..Len(ledger') :
          \/ i = L + 1 \/ i = L + 2
          \/ i = L + 3 /\ Len(ledger') # L + 2
    BY <1>3, <1>5
  <2>2. \A i \in (L + 1)..Len(ledger') : ledger'[i].message = 0 /\ ledger'[i].kind # "message_sent"
    BY <1>3, <1>5, <2>1 DEF Is
  <2> QED
    BY <1>3, <2>2, TypesOf DEF NamesNothing
<1>7. ToldOf(d, e)'
  <2>1. PICK r \in 1..L : ledger[r].kind = "webhook_received" /\ ledger[r].event = e
    BY <1>0, <1>3 DEF Storied, JobTold
  <2>2. r \in 1..Len(ledger') /\ ledger'[r].kind = "webhook_received" /\ ledger'[r].event = e
    BY <1>3, <1>5, <2>1 DEF LedgerGrows
  <2>3. L + 1 \in r..Len(ledger') /\ L + 2 \in (L + 1)..Len(ledger')
    BY <1>3, <1>5, <2>1
  <2> QED
    BY <1>3, <2>2, <2>3 DEF ToldOf, Told, Is
<1>8. JobTold(k)' /\ NamesItsOwn(w, k)
  <2>1. CASE IsSubmitted(w, d)
    <3>1. k.pc = "check" /\ k.event = e /\ k.delivery = work[w].delivery /\ k.decision = d
          /\ d.outcome = "auto_send"
      BY <1>0, <1>2, <2>1 DEF IsSubmitted, JobIs
    <3> QED
      BY <1>4, <1>7, <3>1 DEF JobTold, IsRelease, NamesItsOwn
  <2>2. CASE ~IsSubmitted(w, d)
    <3>1. k.pc = "mark"
      BY <1>1, <1>2, <2>2 DEF IsParked, IsBlocked, JobIs
    <3> QED
      BY <3>1, NothingToTell DEF NamesItsOwn
  <2> QED
    BY <2>1, <2>2
<1>9. PICK p : p = [decision |-> d, event |-> e]
  OBVIOUS
<1>10. \A id \in DOMAIN pending' : \/ id \in DOMAIN pending /\ pending'[id] = pending[id]
                                   \/ /\ pending'[id] = p /\ ToldOf(p.decision, p.event)'
                                      /\ p.decision.outcome = "draft_for_human"
  <2>1. CASE IsParked(w, d)
    <3>1. p.decision = d /\ p.event = e /\ d.outcome = "draft_for_human"
          /\ pending' = SetKey(pending, d.id, p)
      BY <1>0, <1>9, <2>1 DEF IsParked
    <3>2. ToldOf(p.decision, p.event)'
      BY <1>7, <3>1
    <3> QED
      BY <3>1, <3>2 DEF SetKey
  <2>2. CASE ~IsParked(w, d)
    BY <1>1, <2>2 DEF IsSubmitted, IsBlocked
  <2> QED
    BY <2>1, <2>2
<1> QED
  BY <1>2, <1>6, <1>8, <1>10, NamelessStepStoried

LEMMA AcceptStoried ==
  ASSUME IInv, Storied, NEW w \in Workers, SendAccepted(w)
  PROVE  Storied'
<1>1. PICK k : k = work'[w]
  OBVIOUS
<1>2. /\ Posted(w) /\ Moves(w) /\ LedgerGrows /\ UNCHANGED <<ledger, pending>>
      /\ work[w].pc = "send" /\ k.pc = "spend" /\ k.event = work[w].event
      /\ k.delivery = work[w].delivery /\ k.decision = work[w].decision
      /\ k.message = Len(messages) + 1
  BY <1>1, AcceptIs DEF JobIs, Posted
<1>3. \A i \in (Len(ledger) + 1)..Len(ledger') : FALSE
  BY <1>2, TypesOf
<1>4. Len(messages') = Len(messages) + 1 /\ Len(messages) \in Nat
  BY <1>2, TypesOf DEF Posted
<1>5. NamesNothing(w)
  BY <1>2, <1>3, <1>4 DEF NamesNothing
<1>6. JobTold(k)'
  <2>1. JobTold(work[w])
    BY DEF Storied
  <2>2. \A i \in 1..Len(ledger) : ledger[i].message # Len(messages) + 1
    <3>1. \A i \in 1..Len(ledger) : ledger[i].message \in 0..Len(messages)
      BY DEF Storied, LineTold
    <3> QED
      BY <1>4, <3>1
  <2>3. Unnamed(k.message)' /\ k.message \in 1..Len(messages')
    BY <1>2, <1>4, <2>2 DEF Unnamed
  <2>4. ToldOf(k.decision, k.event)'
    BY <1>2, <2>1 DEF JobTold, ToldOf, Told, Decided
  <2> QED
    BY <1>2, <2>1, <2>3, <2>4 DEF JobTold, IsRelease, Decided
<1> QED
  BY <1>1, <1>2, <1>5, <1>6, PlainStepStoried DEF NamesItsOwn

LEMMA PassStoried ==
  ASSUME IInv, Storied, NEW w \in Workers, GuardPasses(w) \/ Spend(w)
  PROVE  Storied'
<1>1. PICK k, j : k = work'[w] /\ j = work[w]
  OBVIOUS
<1>2. /\ Moves(w) /\ LedgerGrows /\ UNCHANGED <<pending, ledger, messages>>
      /\ \/ j.pc = "check" /\ k.pc = "send"
         \/ j.pc = "spend" /\ k.pc = "record"
      /\ k.event = j.event /\ k.delivery = j.delivery
      /\ k.decision = j.decision /\ k.message = j.message
  BY <1>1, PassIs
<1>3. \A i \in (Len(ledger) + 1)..Len(ledger') : FALSE
  BY <1>2, TypesOf
<1>4. NamesNothing(w)
  BY <1>2, <1>3, TypesOf DEF NamesNothing
<1>5. JobTold(j) /\ Decided(j) /\ Decided(k) /\ (IsRelease(k) <=> IsRelease(j))
  BY <1>1, <1>2 DEF Storied, Decided, IsRelease
<1>6. JobTold(k)'
  <2>1. ToldOf(k.decision, k.event)'
    BY <1>2, <1>5 DEF JobTold, ToldOf, Told
  <2>2. k.pc = "record" => k.message \in 1..Len(messages') /\ Unnamed(k.message)'
    BY <1>2, <1>5 DEF JobTold, Unnamed
  <2> QED
    BY <1>2, <1>5, <2>1, <2>2 DEF JobTold
<1> QED
  BY <1>1, <1>2, <1>4, <1>6, PlainStepStoried DEF NamesItsOwn

LEMMA MarkStoried ==
  ASSUME IInv, Storied, NEW w \in Workers, MarkSeen(w) \/ (StoreFails(w) /\ ~UNCHANGED seen)
  PROVE  Storied'
<1>1. /\ Moves(w) /\ LedgerGrows /\ work'[w] = Idle /\ UNCHANGED <<pending, ledger, messages>>
      /\ Idle.pc = "idle"
  BY MarkIs DEF Idle
<1>2. \A i \in (Len(ledger) + 1)..Len(ledger') : FALSE
  BY <1>1, TypesOf
<1>3. NamesNothing(w)
  BY <1>1, <1>2, TypesOf DEF NamesNothing
<1> QED
  BY <1>1, <1>3, NothingToTell, PlainStepStoried DEF NamesItsOwn

LEMMA ReleaseStoried ==
  ASSUME IInv, Storied, NEW w \in Workers, NEW id \in DOMAIN pending, ReleaseDraft(w, id)
  PROVE  Storied'
<1>1. PICK k : k = work'[w]
  OBVIOUS
<1>2. /\ LedgerGrows /\ Moves(w) /\ UNCHANGED <<pending, ledger, messages>>
      /\ k.pc = "check" /\ k.event = pending[id].event /\ k.delivery = 0
      /\ k.decision = pending[id].decision
  BY <1>1, ReleaseIs DEF JobIs
<1>3. \A i \in (Len(ledger) + 1)..Len(ledger') : FALSE
  BY <1>2, TypesOf
<1>4. NamesNothing(w)
  BY <1>2, <1>3, TypesOf DEF NamesNothing
<1>5. JobTold(k)'
  <2>1. ToldOf(k.decision, k.event) /\ k.decision.outcome = "draft_for_human"
    BY <1>2 DEF Storied
  <2> QED
    BY <1>2, <2>1 DEF JobTold, IsRelease, ToldOf, Told
<1> QED
  BY <1>1, <1>2, <1>4, <1>5, PlainStepStoried DEF NamesItsOwn

LEMMA RecordStoried ==
  ASSUME IInv, Storied, NEW w \in Workers, RecordSent(w)
  PROVE  Storied'
<1> DEFINE L == Len(ledger)
           l == ledger'[L + 1]
<1>0. PICK j : j = work[w]
  OBVIOUS
<1>1. PICK k : k = work'[w]
  OBVIOUS
<1>2. /\ j.pc = "record" /\ Moves(w) /\ LedgerGrows /\ Len(ledger') = L + 1
      /\ l.kind = "message_sent" /\ l.event = j.event
      /\ l.decision = j.decision.id /\ l.message = j.message /\ l.says = ModeOf(j)
      /\ UNCHANGED messages /\ k.pc \in {"idle", "mark"}
      /\ UNCHANGED pending \/ pending' = DropKey(pending, j.decision.id)
  BY <1>0, <1>1, RecordIs DEF JobIs, Idle
<1>3. /\ L \in Nat /\ Len(ledger') \in Nat /\ Len(messages) \in Nat
      /\ \A i \in 1..Len(ledger') : i \in 1..L \/ i = L + 1
      /\ \A i \in (L + 1)..Len(ledger') : i = L + 1
      /\ JobTold(j) /\ L + 1 \in Nat /\ L \in 0..L /\ L <= L + 1
  BY <1>0, <1>2, TypesOf DEF Storied
<1>4. j.message \in 1..Len(messages) /\ Unnamed(j.message)
  BY <1>2, <1>3 DEF JobTold
<1>5. ASSUME NEW s \in 1..L PROVE LineTold(s)'
  <2>1. l.message # ledger[s].message
    BY <1>2, <1>4 DEF Unnamed
  <2> QED
    BY <1>2, <1>3, <2>1, OldLineStaysTold
<1>6. ASSUME NEW s, s = L + 1 PROVE LineTold(s)'
  <2>1. PICK e, id, o : e = j.event /\ id = j.decision.id /\ o = j.decision.outcome
    OBVIOUS
  <2>2. Told(e, id, o, s)'
    <3>1. PICK n : n = L
      OBVIOUS
    <3>2. Told(e, id, o, n) /\ n \in 0..Len(ledger) /\ n <= s /\ s \in Nat
      BY <1>2, <1>3, <1>6, <2>1, <3>1 DEF JobTold, ToldOf, Decided
    <3> QED
      BY <1>2, <3>2, ToldGrows
  <2>3. OutcomeFor(ModeOf(j)) = o
    BY <1>2, <1>3, <2>1 DEF JobTold, OutcomeFor, ModeOf, Decided
  <2>4. PICK ll : ll = ledger'[s]
    OBVIOUS
  <2>5. ll.event = e /\ ll.decision = id /\ OutcomeFor(ll.says) = o /\ ll.message = j.message
    BY <1>2, <1>6, <2>1, <2>3, <2>4
  <2>6. Told(ll.event, ll.decision, OutcomeFor(ll.says), s)'
    BY <2>2, <2>5 DEF Told
  <2>7. \A i \in 1..Len(ledger') : ledger'[i].message = ll.message => i = s
    <3>1. \A i \in 1..L : ledger'[i].message # j.message
      BY <1>2, <1>4 DEF Unnamed, LedgerGrows
    <3> QED
      BY <1>2, <1>3, <1>6, <2>5, <3>1
  <2>8. ll.message \in 0..Len(messages') /\ ll.message # 0
    BY <1>2, <1>3, <1>4, <2>5
  <2> HIDE DEF l, L
  <2> QED
    BY <2>4, <2>6, <2>7, <2>8 DEF LineTold, Told
<1>7. ASSUME NEW s \in 1..Len(ledger') PROVE LineTold(s)'
  BY <1>3, <1>5, <1>6
<1>8. ASSUME NEW id \in DOMAIN pending'
      PROVE  (ToldOf(pending[id].decision, pending[id].event) /\ pending[id].decision.outcome = "draft_for_human")'
  <2>1. PICK q : q = pending'[id]
    OBVIOUS
  <2>2. q \in {pending[x] : x \in DOMAIN pending}
    BY <1>2, <2>1 DEF DropKey
  <2>3. ToldOf(q.decision, q.event)' /\ q.decision.outcome = "draft_for_human"
    BY <1>2, <2>2, PendingStaysTold
  <2> QED
    BY <2>1, <2>3 DEF ToldOf, Told
<1>9. ASSUME NEW v \in Workers PROVE (JobTold(work[v]))'
  <2>1. CASE v = w
    BY <1>1, <1>2, <2>1, NothingToTell DEF JobTold, ToldOf, Told, Unnamed
  <2>2. CASE v # w
    <3>1. PICK i : i = work[v]
      OBVIOUS
    <3>2. work'[v] = i /\ JobTold(i)
      BY <1>2, <2>2, <3>1 DEF Moves, Storied
    <3>3. i.pc \in {"spend", "record"} => Unnamed(i.message)'
      <4>1. SUFFICES ASSUME i.pc \in {"spend", "record"}, NEW x \in 1..Len(ledger') PROVE ledger'[x].message # i.message
        BY DEF Unnamed
      <4>2. i.message # j.message /\ Unnamed(i.message)
        BY <1>0, <1>2, <2>2, <3>1, <3>2, <4>1 DEF Storied, JobTold
      <4> QED
        BY <1>2, <1>3, <4>2 DEF LedgerGrows, Unnamed
    <3>4. JobTold(i)'
      BY <1>2, <1>3, <3>2, <3>3, JobStaysTold
    <3> QED
      BY <3>2, <3>4, SMTT(60) DEF JobTold, ToldOf, Told, Unnamed
  <2> QED
    BY <2>1, <2>2
<1>10. ASSUME NEW u \in Workers, NEW v \in Workers, u # v,
              work'[u].pc \in {"spend", "record"}, work'[v].pc \in {"spend", "record"}
       PROVE  work'[u].message # work'[v].message
  <2>1. \A x \in Workers : work'[x].pc \in {"spend", "record"} => work'[x] = work[x]
    BY <1>1, <1>2 DEF Moves
  <2> QED
    BY <1>10, <2>1 DEF Storied
<1> QED
  BY <1>7, <1>8, <1>9, <1>10 DEF Storied

LEMMA QuietStoried ==
  ASSUME IInv, Storied, UNCHANGED vars \/ OpenOrClose \/ \E c \in Contacts : ChangeOptOut(c)
  PROVE  Storied'
<1>1. UNCHANGED <<pending, ledger, messages, work>>
  BY QuietIs
<1>2. \A s \in 1..Len(ledger) : LineTold(s)'
  BY <1>1, SMTT(60) DEF Storied, LineTold, Told
<1>3. \A d, e : ToldOf(d, e)' <=> ToldOf(d, e)
  BY <1>1 DEF ToldOf, Told
<1>4. \A w \in Workers : JobTold(work[w])'
  BY <1>1, <1>3 DEF Storied, JobTold, Unnamed
<1> QED
  BY <1>1, <1>2, <1>3, <1>4 DEF Storied

LEMMA CrashStoried ==
  ASSUME IInv, Crash
  PROVE  Storied'
<1>1. work' = [w \in Workers |-> Idle] /\ ledger' = <<>> /\ pending' = EmptyStore
  BY DEF Crash
<1>2. \A s \in 1..Len(ledger') : FALSE
  BY <1>1
<1>3. \A w \in Workers : work'[w] = Idle /\ (JobTold(work[w]))'
  BY <1>1 DEF JobTold, Idle, Decided
<1>4. \A w \in Workers : work'[w].pc \notin {"spend", "record"}
  BY <1>3 DEF Idle
<1>5. \A s \in 1..Len(ledger') : LineTold(s)'
  BY <1>2
<1>6. DOMAIN pending' = {}
  BY <1>1 DEF EmptyStore
<1> QED
  BY <1>3, <1>4, <1>5, <1>6 DEF Storied

LEMMA InitStoried == Init => Storied
<1> SUFFICES ASSUME Init PROVE Storied
  OBVIOUS
<1>1. \A w \in Workers : JobTold(work[w]) /\ work[w].pc \notin {"spend", "record"}
  BY DEF Init, JobTold, Idle, Decided
<1>2. DOMAIN pending = {} /\ \A s \in 1..Len(ledger) : FALSE
  BY DEF Init, EmptyStore
<1> QED
  BY <1>1, <1>2 DEF Storied

LEMMA NextStoried == IInv /\ Numbered /\ Storied /\ [Next]_vars => Storied'
<1> SUFFICES ASSUME IInv, Numbered, Storied, [Next]_vars PROVE Storied'
  OBVIOUS
<1>1. ASSUME NEW w \in Workers, Continue(w) \/ CallFails(w) \/ StoreFails(w) \/ SendReplyLost(w)
      PROVE  Storied'
  <2>1. CASE SendRefused(w) \/ CallFails(w) \/ GuardStops(w) \/ (StoreFails(w) /\ UNCHANGED seen)
    BY <2>1, FailIs, FailStoried
  <2>2. CASE SendReplyLost(w)
    BY <2>2, LoseIs, FailStoried DEF Posted
  <2> QED
    BY <1>1, <2>1, <2>2, FetchStoried, DecideStoried, PassStoried, AcceptStoried,
       RecordStoried, MarkStoried DEF Continue
<1>2. ASSUME NEW w \in Workers,
             RejectForged(w) \/ \E e \in Events : Receive(w, e) \/ LookupFails(w, e)
      PROVE  Storied'
  BY <1>2, TakeStoried, TurnAwayStoried DEF Receive, TurnsAway
<1>3. ASSUME NEW w \in Workers, NEW id \in DOMAIN pending, ReleaseDraft(w, id) PROVE Storied'
  BY <1>3, ReleaseStoried
<1> QED
  BY <1>1, <1>2, <1>3, QuietStoried, CrashStoried DEF Next

\* A line that ends a story is the first that names its message, so the whole
\* story is among the lines that explain_message picks.
LEMMA StoryExplains ==
  ASSUME IInv, Storied
  PROVE  LedgerTellsTheStory
<1> SUFFICES ASSUME NEW s \in 1..Len(ledger), ledger[s].kind = "message_sent"
             PROVE  \E r \in 1..s : /\ ledger[r].kind = "webhook_received"
                      /\ \E d \in r..s : /\ ledger[d].kind = "draft_generated"
                         /\ \E g \in d..s :
                              /\ ledger[g].kind = "gate_decision"
                              /\ ledger[g].decision = ledger[s].decision
                              /\ ledger[g].says = IF ledger[s].says = "auto" THEN "auto_send" ELSE "draft_for_human"
                              /\ \A i \in {r, d, g, s} : Explains(ledger[s].message, i)
  BY DEF LedgerTellsTheStory
<1> DEFINE n == ledger[s].message
           e == ledger[s].event
<1>1. n # 0 /\ Told(e, ledger[s].decision, OutcomeFor(ledger[s].says), s)
      /\ \A i \in 1..Len(ledger) : ledger[i].message = n => i = s
  BY DEF Storied, LineTold
<1>2. Len(ledger) \in Nat
  BY TypesOf
<1>3. \A h \in 1..(s - 1) : ledger[h].message # n
  <2>1. \A h \in 1..(s - 1) : h \in 1..Len(ledger) /\ h # s
    BY <1>2
  <2> QED
    BY <1>1, <2>1
<1>4. ASSUME NEW i, ledger[i].event = e PROVE Explains(n, i)
  BY <1>3, <1>4 DEF Explains
<1> HIDE DEF n, e
<1>5. PICK r \in 1..s :
        /\ ledger[r].kind = "webhook_received" /\ ledger[r].event = e
        /\ \E d \in r..s : /\ ledger[d].kind = "draft_generated" /\ ledger[d].event = e
           /\ \E g \in d..s : /\ ledger[g].kind = "gate_decision" /\ ledger[g].event = e
                              /\ ledger[g].decision = ledger[s].decision
                              /\ ledger[g].says = OutcomeFor(ledger[s].says)
  BY <1>1 DEF Told
<1>6. PICK d \in r..s :
        /\ ledger[d].kind = "draft_generated" /\ ledger[d].event = e
        /\ \E g \in d..s : /\ ledger[g].kind = "gate_decision" /\ ledger[g].event = e
                           /\ ledger[g].decision = ledger[s].decision
                           /\ ledger[g].says = OutcomeFor(ledger[s].says)
  BY <1>5
<1>7. PICK g \in d..s : /\ ledger[g].kind = "gate_decision" /\ ledger[g].event = e
                        /\ ledger[g].decision = ledger[s].decision
                        /\ ledger[g].says = OutcomeFor(ledger[s].says)
  BY <1>6
<1>8. \A i \in {r, d, g, s} : Explains(n, i)
  BY <1>4, <1>5, <1>6, <1>7 DEF e
<1> QED
  BY <1>5, <1>6, <1>7, <1>8 DEF OutcomeFor, n

LEMMA InvStoried == Spec => [](IInv /\ Storied)
<1>1. IInv /\ Numbered /\ Storied /\ [Next]_vars => Storied'
  BY NextStoried
<1> QED
  BY <1>1, InitStoried, InvNumbered, PTL DEF Spec

\* For every message the ledger names, explain_message gives its whole story
\* in order, down to the decision and the mode it was sent under: however many
\* threads interleave their lines (AuditLedger.explain_message).
THEOREM LedgerTellsStories == Spec => []LedgerTellsTheStory
<1>1. IInv /\ Storied => LedgerTellsTheStory
  BY StoryExplains
<1> QED
  BY <1>1, InvStoried, PTL

-----------------------------------------------------------------------------
(* Questions, step by step.                                                *)

\* Whoever has a question keeps it: messages stay, a draft leaves only by
\* being sent, lines stay.
AttendedStays ==
  \A e \in Events : Attended(e) => env'["crash"] > env["crash"] \/ Attended(e)'

LEMMA DraftsGoToMessages ==
  ASSUME IInv, Numbered, LedgerGrows, messages' \in Seq(Messages),
         Len(messages) <= Len(messages'),
         \A i \in 1..Len(messages) : messages'[i] = messages[i],
         \A id \in DOMAIN pending : \/ id \in DOMAIN pending' /\ pending'[id] = pending[id]
                                    \/ \E i \in 1..Len(messages) : messages[i].by.event = pending[id].event
  PROVE  AttendedStays
<1>1. Len(messages) \in Nat /\ Len(messages') \in Nat /\ Len(ledger) \in Nat
  BY TypesOf
<1> SUFFICES ASSUME NEW e \in Events, Attended(e) PROVE Attended(e)'
  BY DEF AttendedStays
<1>2. ASSUME NEW i \in 1..Len(messages), messages[i].by.event = e PROVE Attended(e)'
  <2>1. i \in 1..Len(messages') /\ messages'[i].by.event = e
    BY <1>1, <1>2
  <2> QED
    BY <2>1 DEF Attended, RepliesTo
<1>3. ASSUME NEW id \in DOMAIN pending, pending[id].event = e PROVE Attended(e)'
  <2>1. CASE id \in DOMAIN pending' /\ pending'[id] = pending[id]
    BY <1>3, <2>1 DEF Attended
  <2>2. CASE \E i \in 1..Len(messages) : messages[i].by.event = pending[id].event
    BY <1>2, <1>3, <2>2
  <2> QED
    BY <2>1, <2>2
<1>4. ASSUME NEW i \in 1..Len(ledger), ledger[i].kind = "message_blocked", ledger[i].event = e
      PROVE  Attended(e)'
  <2>1. i \in 1..Len(ledger') /\ ledger'[i] = ledger[i]
    BY DEF LedgerGrows
  <2> QED
    BY <1>4, <2>1 DEF Attended
<1> QED
  BY <1>2, <1>3, <1>4 DEF Attended, RepliesTo

\* A step of worker w keeps the promise of the others that are about to mark.
LEMMA MarksStayAttended ==
  ASSUME IInv, MarksAttended, NEW w \in Workers, Moves(w), AttendedStays,
         env'["crash"] = env["crash"], env["crash"] \in Nat,
         NEW k, k = work'[w],
         k.pc = "mark" /\ KindOf[k.event] = "inbound" => Attended(k.event)'
  PROVE  MarksAttended'
<1> SUFFICES ASSUME NEW v \in Workers, work'[v].pc = "mark", KindOf[work'[v].event] = "inbound"
             PROVE  (Attended(work[v].event))'
  BY DEF MarksAttended
<1>1. CASE v = w
  BY <1>1 DEF Attended, RepliesTo
<1>2. CASE v # w
  <2>1. PICK e : e = work[v].event
    OBVIOUS
  <2>2. work'[v] = work[v] /\ e \in Events /\ Attended(e)
    BY <1>2, <2>1, JobTypes DEF Moves, MarksAttended
  <2>3. Attended(e)'
    BY <2>2 DEF AttendedStays
  <2> QED
    BY <2>1, <2>2, <2>3 DEF Attended, RepliesTo
<1> QED
  BY <1>1, <1>2

\* What a step must do: nobody loses a question, and an event is seen only
\* when it is attended to.
KeepsAttending ==
  /\ AttendedStays /\ MarksAttended'
  /\ \A e \in DOMAIN seen' : e \in DOMAIN seen \/ KindOf[e] # "inbound" \/ Attended(e)

LEMMA PlainAttended ==
  ASSUME IInv, Numbered, MarksAttended, NEW w \in Workers, Moves(w), LedgerGrows,
         UNCHANGED <<seen, pending, messages>>, env'["crash"] = env["crash"],
         work'[w].pc = "mark" => KindOf[work'[w].event] # "inbound"
  PROVE  KeepsAttending
<1>1. AttendedStays
  BY DraftsGoToMessages, TypesOf
<1>2. env["crash"] \in Nat
  BY TypesOf DEF EnvKinds
<1>3. PICK k : k = work'[w]
  OBVIOUS
<1>4. MarksAttended'
  BY <1>1, <1>2, <1>3, MarksStayAttended
<1> QED
  BY <1>1, <1>4 DEF KeepsAttending

LEMMA PostedAttended ==
  ASSUME IInv, Numbered, MarksAttended, NEW w \in Workers, Moves(w), LedgerGrows,
         Posted(w), env'["crash"] = env["crash"], work'[w].pc # "mark"
  PROVE  KeepsAttending
<1>1. /\ Len(messages') = Len(messages) + 1 /\ messages' \in Seq(Messages)
      /\ \A i \in 1..Len(messages) : messages'[i] = messages[i]
      /\ UNCHANGED <<seen, pending>> /\ Len(messages) \in Nat
  BY TypesOf DEF Posted, stores
<1>2. Len(messages) <= Len(messages')
  BY <1>1
<1>3. AttendedStays
  BY <1>1, <1>2, DraftsGoToMessages
<1>4. env["crash"] \in Nat
  BY TypesOf DEF EnvKinds
<1>5. PICK k : k = work'[w]
  OBVIOUS
<1>6. MarksAttended'
  BY <1>3, <1>4, <1>5, MarksStayAttended
<1> QED
  BY <1>1, <1>3, <1>6 DEF KeepsAttending

LEMMA DecideAttended ==
  ASSUME IInv, Numbered, MarksAttended, NEW w \in Workers, Decide(w)
  PROVE  KeepsAttending
<1>1. PICK d \in Decisions : IsSubmitted(w, d) \/ IsParked(w, d) \/ IsBlocked(w, d)
  BY DecideIs
<1>2. PICK k : k = work'[w]
  OBVIOUS
<1>3. /\ d.id = decisions + 1 /\ UNCHANGED <<seen, messages, env>> /\ LedgerGrows /\ Moves(w)
  BY <1>1 DEF IsSubmitted, IsParked, IsBlocked, Judged, stores
<1>4. d.id \notin DOMAIN pending
  BY <1>3, TypesOf DEF Numbered, ParkedNumbered
<1>5. \A id \in DOMAIN pending : id \in DOMAIN pending' /\ pending'[id] = pending[id]
  BY <1>1, <1>4 DEF IsSubmitted, IsParked, IsBlocked, SetKey
<1>6. AttendedStays
  BY <1>3, <1>5, DraftsGoToMessages, TypesOf
<1>7. env["crash"] \in Nat
  BY TypesOf DEF EnvKinds
<1>8. k.pc = "mark" => Attended(k.event)'
  <2>1. CASE IsParked(w, d)
    <3>1. d.id \in DOMAIN pending' /\ pending'[d.id].event = k.event
      BY <1>2, <2>1 DEF IsParked, JobIs, SetKey
    <3> QED
      BY <3>1 DEF Attended
  <2>2. CASE IsBlocked(w, d)
    <3>1. /\ ledger'[Len(ledger) + 3].kind = "message_blocked" /\ ledger'[Len(ledger) + 3].event = k.event
          /\ Len(ledger') = Len(ledger) + 2 + 1
      BY <1>2, <2>2 DEF IsBlocked, JobIs, Is, Judged
    <3>2. Len(ledger) + 3 \in 1..Len(ledger')
      BY <3>1, TypesOf
    <3> QED
      BY <3>1, <3>2 DEF Attended
  <2>3. CASE IsSubmitted(w, d)
    BY <1>2, <2>3 DEF IsSubmitted, JobIs
  <2> QED
    BY <1>1, <2>1, <2>2, <2>3
<1>9. MarksAttended'
  BY <1>2, <1>3, <1>6, <1>7, <1>8, MarksStayAttended
<1> QED
  BY <1>3, <1>6, <1>9 DEF KeepsAttending

LEMMA RecordAttended ==
  ASSUME IInv, Numbered, MarksAttended, NEW w \in Workers, RecordSent(w)
  PROVE  KeepsAttending
<1>0. PICK j : j = work[w]
  OBVIOUS
<1>1. PICK k : k = work'[w]
  OBVIOUS
<1>2. /\ j.pc = "record" /\ Moves(w) /\ LedgerGrows /\ UNCHANGED <<seen, messages, env>>
      /\ UNCHANGED pending \/ (pending' = DropKey(pending, j.decision.id) /\ IsRelease(j))
      /\ k = Idle \/ k.event = j.event
  BY <1>0, <1>1, RecordIs DEF JobIs, stores
<1>3. /\ j.message \in 1..Len(messages) /\ messages[j.message].by.event = j.event
      /\ j.decision.id \in DOMAIN pending => pending[j.decision.id].event = j.event
  <2>1. JobNumbered(j) /\ JobDelivered(j)
    BY <1>0 DEF Numbered
  <2>2. j.message \in 1..Len(messages) /\ messages[j.message].by.event = j.event
    BY <1>2, <2>1 DEF JobDelivered, Carries
  <2>3. j.decision.id \in DOMAIN pending => pending[j.decision.id] = Parks(j)
    BY <1>2, <2>1 DEF JobNumbered, Decided
  <2> QED
    BY <2>2, <2>3 DEF Parks
<1>4. \A id \in DOMAIN pending : \/ id \in DOMAIN pending' /\ pending'[id] = pending[id]
                                 \/ \E i \in 1..Len(messages) : messages[i].by.event = pending[id].event
  <2>1. \A id \in DOMAIN pending : \/ id \in DOMAIN pending' /\ pending'[id] = pending[id]
                                   \/ id = j.decision.id
    BY <1>2 DEF DropKey
  <2> QED
    BY <1>3, <2>1
<1>5. AttendedStays
  BY <1>2, <1>4, DraftsGoToMessages, TypesOf
<1>6. env["crash"] \in Nat
  BY TypesOf DEF EnvKinds
<1>7. k.pc = "mark" => Attended(k.event)'
  BY <1>2, <1>3 DEF Idle, Attended, RepliesTo
<1>8. MarksAttended'
  BY <1>1, <1>2, <1>5, <1>6, <1>7, MarksStayAttended
<1> QED
  BY <1>2, <1>5, <1>8 DEF KeepsAttending

LEMMA MarkAttended ==
  ASSUME IInv, Numbered, MarksAttended, NEW w \in Workers, MarkSeen(w) \/ (StoreFails(w) /\ ~UNCHANGED seen)
  PROVE  KeepsAttending
<1>1. /\ work[w].pc = "mark" /\ Moves(w) /\ LedgerGrows /\ work'[w] = Idle
      /\ seen' = SetKey(seen, work[w].event, work[w].delivery)
      /\ UNCHANGED <<pending, messages>> /\ env'["crash"] = env["crash"] /\ Idle.pc # "mark"
  BY MarkIs DEF Idle
<1>2. AttendedStays
  BY <1>1, DraftsGoToMessages, TypesOf
<1>3. env["crash"] \in Nat
  BY TypesOf DEF EnvKinds
<1>4. MarksAttended'
  BY <1>1, <1>2, <1>3, MarksStayAttended
<1>5. \A e \in DOMAIN seen' : e \in DOMAIN seen \/ e = work[w].event
  BY <1>1 DEF SetKey
<1> QED
  BY <1>1, <1>2, <1>4, <1>5 DEF KeepsAttending, MarksAttended

LEMMA TakeAttended ==
  ASSUME IInv, Numbered, MarksAttended, NEW w \in Workers, NEW e \in Events, ReceiveNew(w, e)
  PROVE  KeepsAttending
<1>1. PICK n \in Nat : n = attempts[e] + 1
  BY TypesOf
<1>2. /\ Moves(w) /\ LedgerGrows /\ UNCHANGED <<seen, pending, messages, env>>
      /\ work[w].pc = "idle"
      /\ work'[w].pc = "mark" => UNCHANGED work \/ KindOf[work'[w].event] = "ignored"
  BY <1>1, TakeIs DEF JobIs, stores
<1> QED
  BY <1>2, PlainAttended

LEMMA CrashAttended ==
  ASSUME IInv, Crash
  PROVE  KeepsAttending
<1>1. /\ work' = [w \in Workers |-> Idle] /\ env'["crash"] > env["crash"]
      /\ seen' = seen \/ seen' = EmptyStore
  BY TypesOf DEF Crash, Disturb, EnvKinds
<1>2. MarksAttended'
  <2>1. \A w \in Workers : work'[w].pc # "mark"
    BY <1>1 DEF Idle
  <2> QED
    BY <2>1 DEF MarksAttended
<1> QED
  BY <1>1, <1>2 DEF KeepsAttending, AttendedStays, EmptyStore

LEMMA QuietAttended ==
  ASSUME IInv, Numbered, MarksAttended,
         UNCHANGED vars \/ OpenOrClose \/ \E c \in Contacts : ChangeOptOut(c)
  PROVE  KeepsAttending
<1>1. UNCHANGED <<seen, pending, ledger, messages, work>>
  BY QuietIs DEF stores
<1> QED
  BY <1>1 DEF KeepsAttending, AttendedStays, MarksAttended, Attended, RepliesTo

LEMMA NextAttended == IInv /\ Numbered /\ MarksAttended /\ [Next]_vars => KeepsAttending
<1> SUFFICES ASSUME IInv, Numbered, MarksAttended, [Next]_vars PROVE KeepsAttending
  OBVIOUS
<1>1. ASSUME NEW w \in Workers, Continue(w) \/ CallFails(w) \/ StoreFails(w) \/ SendReplyLost(w)
      PROVE  KeepsAttending
  <2>1. CASE SendRefused(w) \/ CallFails(w) \/ GuardStops(w) \/ (StoreFails(w) /\ UNCHANGED seen)
    <3>1. /\ GivesUp(w) /\ UNCHANGED <<seen, pending, messages>> /\ env'["crash"] = env["crash"]
      BY <2>1, FailIs DEF stores
    <3> QED
      BY <3>1, PlainAttended DEF GivesUp, Idle
  <2>2. CASE SendReplyLost(w)
    BY <2>2, LoseIs, PostedAttended DEF GivesUp, Idle
  <2>3. CASE FetchContact(w)
    BY <2>3, FetchIs, PlainAttended DEF JobIs, stores
  <2>4. CASE SendAccepted(w)
    BY <2>4, AcceptIs, PostedAttended DEF JobIs
  <2>5. CASE GuardPasses(w) \/ Spend(w)
    BY <2>5, PassIs, PlainAttended
  <2> QED
    BY <1>1, <2>1, <2>2, <2>3, <2>4, <2>5, DecideAttended, RecordAttended, MarkAttended DEF Continue
<1>2. ASSUME NEW w \in Workers, TurnsAway(w) PROVE KeepsAttending
  <2>1. /\ LedgerGrows /\ UNCHANGED <<seen, pending, messages, work>> /\ env'["crash"] = env["crash"]
        /\ work[w].pc = "idle"
    BY <1>2, TurnAwayIs DEF stores
  <2> QED
    BY <2>1, TypesOf, PlainAttended DEF Moves
<1>3. ASSUME NEW w \in Workers, NEW e \in Events, ReceiveNew(w, e) PROVE KeepsAttending
  BY <1>3, TakeAttended
<1>4. ASSUME NEW w \in Workers, NEW id \in DOMAIN pending, ReleaseDraft(w, id) PROVE KeepsAttending
  <2>1. /\ LedgerGrows /\ Moves(w) /\ UNCHANGED <<seen, pending, messages>>
        /\ env'["crash"] = env["crash"] /\ work'[w].pc # "mark"
    BY <1>4, ReleaseIs DEF JobIs, stores
  <2> QED
    BY <2>1, PlainAttended
<1> QED
  BY <1>1, <1>2, <1>3, <1>4, QuietAttended, CrashAttended DEF Next, Receive, TurnsAway

LEMMA InitAttended == Init => MarksAttended
BY DEF Init, MarksAttended, Idle

\* A question whose key is seen is answered, parked or blocked, through every
\* failure, release and overlap of calls; only a restart takes a parked draft
\* from it (webhook.py marks after the handler, bridge.py keeps the drafts).
THEOREM NoQuestionDropped == Spec => NoQuestionIsDropped
<1>1. IInv /\ Numbered /\ MarksAttended /\ [Next]_vars => MarksAttended'
  BY NextAttended DEF KeepsAttending
<1>2. IInv /\ Numbered /\ MarksAttended /\ [Next]_vars =>
        [\A e \in Events : KindOf[e] = "inbound" /\ Dropped(e)' =>
           Dropped(e) \/ env'["crash"] > env["crash"]]_vars
  <2> SUFFICES ASSUME IInv, Numbered, MarksAttended, [Next]_vars,
                      NEW e \in Events, KindOf[e] = "inbound", Dropped(e)', ~Dropped(e)
               PROVE  env'["crash"] > env["crash"]
    OBVIOUS
  <2>1. KeepsAttending
    BY NextAttended
  <2>2. Remembers(seen', e) /\ ~Attended(e)'
    BY DEF Dropped
  <2>3. Attended(e)
    BY <2>1, <2>2 DEF KeepsAttending, Dropped, Remembers
  <2> QED
    BY <2>1, <2>2, <2>3 DEF KeepsAttending, AttendedStays
<1> QED
  BY <1>1, <1>2, InitAttended, InvNumbered, PTL DEF Spec, NoQuestionIsDropped

=============================================================================
