------------------------------ MODULE LeadLane ------------------------------
(***************************************************************************)
(* The new-lead path of ghl_bridge: WebhookIntake hands a lead to          *)
(* Bridge._handle_new_lead, ContactDeduper.resolve searches the platform   *)
(* by the normalised keys and upserts, and an opportunity is filed.  The   *)
(* platform's contact store and its two indexes are those of the fake      *)
(* (FakeHighLevel._store_contact).                                         *)
(*                                                                         *)
(* A key is a model value: two raw forms of one address are one key, as    *)
(* normalise_email and normalise_phone make them.  Between two calls of    *)
(* the platform anything else may happen.                                  *)
(***************************************************************************)
EXTENDS Naturals, Sequences, FiniteSets, KeyStore

CONSTANTS
  Events,        \* new-lead events, by event key
  LeadOf,        \* [Events -> Leads]: the contact details each carries
  OtherLeads,    \* contact details somebody else may upsert
  Emails, Phones,  \* normalised keys
  Workers,       \* threads of the host
  Durability,    \* whether the injected KeyStore survives a restart: the choices
  MaxAttempts,   \* bound: deliveries of one event
  Limit,         \* [EnvKinds -> Nat], bound: how often each disturbance occurs
  None, Bad      \* no value given; a value given that does not normalise

\* What a ContactUpsert says of email and phone.
Leads == [email : Emails \cup {None, Bad}, phone : Phones \cup {None, Bad}]

EnvKinds == {"call_fails",   \* a call, or a durable store's get, raises; no effect
             "lost_reply",   \* a write took effect but the call raises
             "store_fails",  \* a durable store's set raises, with effect or without
             "crash",        \* the process restarts
             "other_write"}  \* someone else upserts a contact

ASSUME LeadAssumption ==
  /\ LeadOf \in [Events -> Leads]
  /\ OtherLeads \subseteq {l \in Leads : l.email # Bad}
  /\ None \notin Emails \cup Phones \cup Events \cup Nat
  /\ Bad \notin Emails \cup Phones \cup {None}
  /\ IsFiniteSet(Workers)
ASSUME LeadBoundAssumption ==
  Durability \subseteq BOOLEAN /\ MaxAttempts \in Nat /\ Limit \in [EnvKinds -> Nat]

VARIABLES
  durable,      \* whether the injected KeyStore survives a restart
  contacts,     \* the platform's contacts, by order of creation
  emailIndex,   \* email key -> contact
  phoneIndex,   \* phone key -> contact
  deals,        \* the platform's opportunities; "event" records for which lead
  seen,         \* WebhookIntake._seen: event key -> the delivery that was marked
  ledger,       \* AuditLedger._records, the lines this lane writes
  work,         \* what each worker is in the middle of
  attempts,     \* deliveries of each event so far
  env           \* how often each disturbance has occurred

platform == <<contacts, emailIndex, phoneIndex, deals>>
vars == <<durable, platform, seen, ledger, work, attempts, env>>

Steps == {"idle", "byEmail", "byPhone", "upsert", "file", "mark"}
Idle == [pc |-> "idle", event |-> None, emailHit |-> None, phoneHit |-> None, contact |-> 0]
Jobs == [pc : Steps, event : Events \cup {None}, emailHit : Nat \cup {None},
         phoneHit : Nat \cup {None}, contact : Nat]

\* matched_on is the code's; hit is the contact the search found under that
\* key, for which the line's "key" stands.
Lines == [kind : {"contact_created", "contact_merged", "lead_needs_review",
                  "opportunity_created"},
          event : Events, contact : Nat,
          matched_on : {"email", "phone", "none"}, hit : Nat \cup {None}]

Line(kind, e, c) ==
  [kind |-> kind, event |-> e, contact |-> c, matched_on |-> "none", hit |-> None]
Record(line) == ledger' = Append(ledger, line)
Goto(w, j)  == work' = [work EXCEPT ![w] = j]
Pc(w, l)    == work[w].pc = l
Lead(w)     == LeadOf[work[w].event]
Disturb(k)  == env[k] < Limit[k] /\ env' = [env EXCEPT ![k] = @ + 1]
HasEmail(l) == l.email \in Emails
HasPhone(l) == l.phone \in Phones

Init ==
  /\ durable \in Durability
  /\ contacts = <<>> /\ deals = <<>> /\ ledger = <<>>
  /\ emailIndex = EmptyStore /\ phoneIndex = EmptyStore /\ seen = EmptyStore
  /\ work = [w \in Workers |-> Idle]
  /\ attempts = [e \in Events |-> 0]
  /\ env = [k \in EnvKinds |-> 0]
-----------------------------------------------------------------------------
(* The platform: _store_contact.                                           *)

\* Who answers to a key, or None.
Lookup(index, k) == IF Remembers(index, k) THEN index[k] ELSE None

\* Mutant: the phone is looked at first.
PhoneFirst(l) ==
  IF HasPhone(l) /\ Remembers(phoneIndex, l.phone) THEN phoneIndex[l.phone]
  ELSE IF HasEmail(l) THEN Lookup(emailIndex, l.email)
  ELSE None

\* Mutant: the phone is not looked at.
EmailOnly(l) == IF HasEmail(l) THEN Lookup(emailIndex, l.email) ELSE None

\* The documented match: by email if that is known, else by phone.
Existing(l) ==
  IF HasEmail(l) /\ Remembers(emailIndex, l.email) THEN emailIndex[l.email]
  ELSE IF HasPhone(l) THEN Lookup(phoneIndex, l.phone)
  ELSE None

\* The contact the upsert ends in.
Upserted(l) == IF Existing(l) = None THEN Len(contacts) + 1 ELSE Existing(l)

\* A given value replaces the stored one, normalisable or not.
MergeField(new, old) == IF new = None THEN old ELSE new

\* Only keys are added; the keys of replaced values stay.
IndexKey(index, Keys, k, id) == IF k \in Keys THEN SetKey(index, k, id) ELSE index

Store(l) ==
  LET id == Upserted(l)
      c  == IF Existing(l) = None THEN l
            ELSE [email |-> MergeField(l.email, contacts[id].email),
                  phone |-> MergeField(l.phone, contacts[id].phone)]
  IN  /\ contacts' = IF Existing(l) = None THEN Append(contacts, c)
                     ELSE [contacts EXCEPT ![id] = c]
      /\ emailIndex' = IndexKey(emailIndex, Emails, c.email, id)
      /\ phoneIndex' = IndexKey(phoneIndex, Phones, c.phone, id)
      /\ UNCHANGED deals
-----------------------------------------------------------------------------
(* The bridge's side.                                                      *)

\* Mutant: the event key is not passed on.
RefuseKeyless(w, j) ==
  /\ Record(Line("lead_needs_review", None, 0))
  /\ Goto(w, [j EXCEPT !.pc = "mark"])

\* NeedsHumanReview ends the handler without an error.
Refuse(w, j) ==
  /\ Record(Line("lead_needs_review", j.event, 0))
  /\ Goto(w, [j EXCEPT !.pc = "mark"])

\* Refused on sight: a bad email, or nothing to match on.
Unusable(l) == l.email = Bad \/ (~HasEmail(l) /\ ~HasPhone(l))

NextAttempt(w, e) ==
  /\ Pc(w, "idle") /\ ~Remembers(seen, e) /\ attempts[e] < MaxAttempts
  /\ attempts' = [attempts EXCEPT ![e] = @ + 1]

\* A new event reaches the deduper; a seen one ends in receive.
Receive(w, e) ==
  LET j == [Idle EXCEPT !.event = e] IN
  /\ NextAttempt(w, e)
  /\ \/ Unusable(LeadOf[e]) /\ Refuse(w, j)
     \/ /\ ~Unusable(LeadOf[e])
        /\ Goto(w, [j EXCEPT !.pc = IF HasEmail(LeadOf[e]) THEN "byEmail" ELSE "byPhone"])
        /\ UNCHANGED ledger
  /\ UNCHANGED <<durable, platform, seen, env>>

\* Mutant: the two hits are not compared.
NoConflict(j) == FALSE

\* The email names one contact, the phone another.
Conflict(j) == j.emailHit # None /\ j.phoneHit # None /\ j.emailHit # j.phoneHit

SearchByEmail(w) ==
  /\ Pc(w, "byEmail")
  /\ Goto(w, [work[w] EXCEPT !.emailHit = Lookup(emailIndex, Lead(w).email),
                             !.pc = IF HasPhone(Lead(w)) THEN "byPhone" ELSE "upsert"])
  /\ UNCHANGED <<durable, platform, seen, ledger, attempts, env>>

\* Mutant: nobody with that phone is taken for an error.
SearchRaises(w) ==
  /\ Pc(w, "byPhone")
  /\ IF Remembers(phoneIndex, Lead(w).phone)
     THEN Goto(w, [work[w] EXCEPT !.pc = "upsert"]) ELSE Goto(w, Idle)
  /\ UNCHANGED <<durable, platform, seen, ledger, attempts, env>>

SearchByPhone(w) ==
  LET j == [work[w] EXCEPT !.phoneHit = Lookup(phoneIndex, Lead(w).phone)] IN
  /\ Pc(w, "byPhone")
  /\ \/ Conflict(j) /\ Refuse(w, j)
     \/ ~Conflict(j) /\ Goto(w, [j EXCEPT !.pc = "upsert"]) /\ UNCHANGED ledger
  /\ UNCHANGED <<durable, platform, seen, attempts, env>>

\* The line of the search's verdict, written after the upsert.
Verdict(j, id) ==
  CASE j.emailHit # None ->
         [Line("contact_merged", j.event, id) EXCEPT !.matched_on = "email", !.hit = j.emailHit]
    [] j.emailHit = None /\ j.phoneHit # None ->
         [Line("contact_merged", j.event, id) EXCEPT !.matched_on = "phone", !.hit = j.phoneHit]
    [] OTHER -> Line("contact_created", j.event, id)

\* The raw lead goes to the upsert; the line says what the search said.
Upsert(w) ==
  LET j == work[w]
      id == Upserted(Lead(w)) IN
  /\ Pc(w, "upsert")
  /\ Store(Lead(w))
  /\ Record(Verdict(j, id))
  /\ Goto(w, [j EXCEPT !.pc = "file", !.contact = id])
  /\ UNCHANGED <<durable, seen, attempts, env>>

Deal(w) == [contact |-> work[w].contact, event |-> work[w].event]

\* Mutant: the lead is filed under the contact last created.
FileUnderLast(w) ==
  /\ Pc(w, "file")
  /\ deals' = Append(deals, [Deal(w) EXCEPT !.contact = Len(contacts)])
  /\ Record(Line("opportunity_created", work[w].event, work[w].contact))
  /\ Goto(w, [work[w] EXCEPT !.pc = "mark"])
  /\ UNCHANGED <<durable, contacts, emailIndex, phoneIndex, seen, attempts, env>>

\* create_opportunity, in the stage the bridge was wired with.
FileDeal(w) ==
  /\ Pc(w, "file")
  /\ deals' = Append(deals, Deal(w))
  /\ Record(Line("opportunity_created", work[w].event, work[w].contact))
  /\ Goto(w, [work[w] EXCEPT !.pc = "mark"])
  /\ UNCHANGED <<durable, contacts, emailIndex, phoneIndex, seen, attempts, env>>

\* Mutant: the key is never marked.
MarkNothing(w) ==
  /\ Pc(w, "mark") /\ Goto(w, Idle)
  /\ UNCHANGED <<durable, platform, seen, ledger, attempts, env>>

Marked(j) == SetKey(seen, j.event, attempts[j.event])

MarkSeen(w) ==
  /\ Pc(w, "mark")
  /\ seen' = Marked(work[w])
  /\ Goto(w, Idle)
  /\ UNCHANGED <<durable, platform, ledger, attempts, env>>
-----------------------------------------------------------------------------
(* Failures: the exception leaves the event to the sender's retry.         *)

\* The store of seen keys raises on get: nothing was begun.
LookupFails(w, e) ==
  /\ durable /\ Disturb("call_fails") /\ NextAttempt(w, e)
  /\ UNCHANGED <<durable, platform, seen, ledger, work>>

CallFails(w) ==
  /\ work[w].pc \in {"byEmail", "byPhone", "upsert", "file"} /\ Disturb("call_fails")
  /\ Goto(w, Idle)
  /\ UNCHANGED <<durable, platform, seen, ledger, attempts>>

UpsertReplyLost(w) ==
  /\ Pc(w, "upsert") /\ Disturb("lost_reply")
  /\ Store(Lead(w)) /\ Goto(w, Idle)
  /\ UNCHANGED <<durable, seen, ledger, attempts>>

FileReplyLost(w) ==
  /\ Pc(w, "file") /\ Disturb("lost_reply")
  /\ deals' = Append(deals, Deal(w)) /\ Goto(w, Idle)
  /\ UNCHANGED <<durable, contacts, emailIndex, phoneIndex, seen, ledger, attempts>>

\* The store of seen keys raises on set, and may have kept the key all the
\* same; the handler has done its work by then.
StoreFails(w) ==
  /\ Pc(w, "mark") /\ durable /\ Disturb("store_fails")
  /\ seen' \in {seen, Marked(work[w])}
  /\ Goto(w, Idle)
  /\ UNCHANGED <<durable, platform, ledger, attempts>>

\* A restart forgets the calls in progress, the ledger, and the seen keys
\* unless a durable store was injected.
Crash ==
  /\ Disturb("crash")
  /\ work' = [w \in Workers |-> Idle] /\ ledger' = <<>>
  /\ seen' = IF durable THEN seen ELSE EmptyStore
  /\ UNCHANGED <<durable, platform, attempts>>

\* A person or another automation of the workspace upserts these details.
OtherWrite(l) ==
  /\ Disturb("other_write") /\ Store(l)
  /\ UNCHANGED <<durable, seen, ledger, work, attempts>>

\* All events are settled or given up by the sender.
Rest ==
  /\ \A w \in Workers : Pc(w, "idle")
  /\ \A e \in Events : Remembers(seen, e) \/ attempts[e] = MaxAttempts
  /\ UNCHANGED vars

Continue(w) ==
  SearchByEmail(w) \/ SearchByPhone(w) \/ Upsert(w) \/ FileDeal(w) \/ MarkSeen(w)

Next ==
  \/ \E w \in Workers :
       \/ \E e \in Events : Receive(w, e) \/ LookupFails(w, e)
       \/ Continue(w)
       \/ CallFails(w) \/ UpsertReplyLost(w) \/ FileReplyLost(w) \/ StoreFails(w)
  \/ Crash
  \/ \E l \in OtherLeads : OtherWrite(l)
  \/ Rest

Spec == Init /\ [][Next]_vars

\* The host runs what it accepted; the sender retries until it is answered.
FairSpec ==
  /\ Spec
  /\ \A w \in Workers : WF_vars(Continue(w))
  /\ \A e \in Events  : WF_vars(\E w \in Workers : Receive(w, e))
-----------------------------------------------------------------------------
\* Every variable holds the kind of value the code keeps there.
TypeOK ==
  /\ durable \in BOOLEAN
  /\ contacts \in Seq(Leads)
  /\ DOMAIN emailIndex \subseteq Emails /\ emailIndex \in [DOMAIN emailIndex -> Nat]
  /\ DOMAIN phoneIndex \subseteq Phones /\ phoneIndex \in [DOMAIN phoneIndex -> Nat]
  /\ deals \in Seq([contact : Nat, event : Events])
  /\ DOMAIN seen \subseteq Events /\ seen \in [DOMAIN seen -> Nat]
  /\ ledger \in Seq(Lines)
  /\ work \in [Workers -> Jobs]
  /\ attempts \in [Events -> Nat] /\ env \in [EnvKinds -> Nat]

\* Nobody but one worker of the bridge writes to the workspace.
SoleWriter == env["other_write"] = 0 /\ Cardinality(Workers) = 1

\* The deduper keeps the CRM free of near-duplicates: no two contacts carry
\* the same email, and as long as the bridge is the only writer none carry
\* the same phone, however often an upsert is retried after a failure.
NoTwinContacts ==
  \A i, k \in 1..Len(contacts) : i # k =>
    /\ contacts[i].email \in Emails => contacts[i].email # contacts[k].email
    /\ SoleWriter /\ contacts[i].phone \in Phones => contacts[i].phone # contacts[k].phone

\* The ledger's account of identity is true: a merge names the contact the
\* search found, and a creation names one no line knew before.  Whoever else
\* writes between the search and the upsert, a merge by email is true; the
\* rest holds while the bridge is the only writer.
LedgerNamesThePerson ==
  \A i \in 1..Len(ledger) :
    /\ ledger[i].kind = "contact_merged" /\ (SoleWriter \/ ledger[i].matched_on = "email")
         => ledger[i].hit = ledger[i].contact
    /\ SoleWriter /\ ledger[i].kind = "contact_created" =>
         \A k \in 1..(i - 1) : ledger[k].contact # ledger[i].contact

\* Every deal is filed under the contact its lead's keys lead to, then and
\* for good: no later lead or retry takes a key over to somebody else.  The
\* email holds against any writer, the phone only against the bridge itself.
FiledUnderThePerson ==
  \A i \in 1..Len(deals) :
    LET l == LeadOf[deals[i].event] IN
    /\ HasEmail(l) => Lookup(emailIndex, l.email) = deals[i].contact
    /\ SoleWriter /\ HasPhone(l) => Lookup(phoneIndex, l.phone) = deals[i].contact

\* A lead sent to a person for review is not filed as well, by any attempt:
\* not by an earlier one that failed, nor by a later one when the mark was
\* lost.
ReviewFilesNothing ==
  SoleWriter => \A i \in 1..Len(ledger) : ledger[i].kind = "lead_needs_review" =>
    \A k \in 1..Len(deals) : deals[k].event # ledger[i].event

DealsOf(e) == {i \in 1..Len(deals) : deals[i].event = e}

\* A redelivered lead is filed once (webhook.py: handlers keep their partial
\* writes safe to re-run).
FiledOnce == \A e \in Events : Cardinality(DealsOf(e)) <= 1

Faults == env["lost_reply"] + env["store_fails"] + env["crash"]

\* What the code does keep: with one thread filing is an EffectOnce.  The
\* deal is the effect, a seen key is an event done, and a deal beyond a
\* lead's first is paid for by a lost reply, a failing store or a restart.
Once == INSTANCE EffectOnce WITH
  done    <- DOMAIN seen,
  effects <- [e \in Events |-> Cardinality(DealsOf(e))],
  faults  <- Faults

FiledAtMostOnce == Once!Spec

\* Every lead is in the end filed or put before a person.
EveryLeadIsSettled == \A e \in Events : <>Remembers(seen, e)
=============================================================================
