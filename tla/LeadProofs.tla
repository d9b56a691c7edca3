----------------------------- MODULE LeadProofs -----------------------------
(***************************************************************************)
(* The safety of the new-lead path for every set of leads, keys, workers   *)
(* and writers.  The heart of it is that a key, once it leads to a         *)
(* contact, leads to that contact for good: an email because               *)
(* _store_contact looks at it first, a phone because the deduper compares  *)
(* the two hits and, with one writer, nothing happens between its searches *)
(* and its upsert.  The last section shows that filing implements          *)
(* EffectOnce.                                                             *)
(***************************************************************************)
EXTENDS LeadLane, SequenceTheorems, FiniteSetTheorems, TLAPS

EmailOwner(l) == IF HasEmail(l) THEN Lookup(emailIndex, l.email) ELSE None
PhoneOwner(l) == IF HasPhone(l) THEN Lookup(phoneIndex, l.phone) ELSE None

\* The indexes name contacts there are; each contact is found by its email.
IndexesPoint ==
  /\ \A k \in DOMAIN emailIndex : emailIndex[k] \in 1..Len(contacts)
  /\ \A k \in DOMAIN phoneIndex : phoneIndex[k] \in 1..Len(contacts)
EmailsFound == \A i \in 1..Len(contacts) : contacts[i].email \in Emails =>
  Lookup(emailIndex, contacts[i].email) = i
PhonesFound == \A i \in 1..Len(contacts) : contacts[i].phone \in Phones =>
  Lookup(phoneIndex, contacts[i].phone) = i

\* The lead's keys lead to contact c.
Held(l, c) ==
  /\ HasEmail(l) => Lookup(emailIndex, l.email) = c
  /\ SoleWriter /\ HasPhone(l) => Lookup(phoneIndex, l.phone) = c

\* What a worker knows at each of its steps.
Begun(w) ==
  /\ work[w].pc # "idle" => work[w].event \in Events
  /\ work[w].pc \in {"byEmail", "byPhone", "upsert", "file"} => ~Unusable(Lead(w))
  /\ work[w].pc = "byEmail" =>
       HasEmail(Lead(w)) /\ work[w].emailHit = None /\ work[w].phoneHit = None
  /\ work[w].pc = "byPhone" => HasPhone(Lead(w)) /\ work[w].phoneHit = None
EmailHitStands(w) ==
  work[w].pc \in {"byPhone", "upsert"} /\ work[w].emailHit # None =>
    work[w].emailHit = EmailOwner(Lead(w))
HitsStand(w) == SoleWriter =>
  /\ work[w].pc \in {"byPhone", "upsert"} => work[w].emailHit = EmailOwner(Lead(w))
  /\ work[w].pc = "upsert" => /\ work[w].phoneHit = PhoneOwner(Lead(w))
                              /\ ~Conflict(work[w])
ContactStands(w) ==
  work[w].pc = "file" =>
    work[w].contact \in 1..Len(contacts) /\ Held(Lead(w), work[w].contact)
JobsOK == \A w \in Workers : Begun(w) /\ EmailHitStands(w) /\ HitsStand(w) /\ ContactStands(w)

DealsOK == \A d \in 1..Len(deals) : /\ ~Unusable(LeadOf[deals[d].event])
                                    /\ Held(LeadOf[deals[d].event], deals[d].contact)

LinesOK ==
  /\ LedgerNamesThePerson
  /\ \A i \in 1..Len(ledger) : ledger[i].contact \in 0..Len(contacts)

\* Why a lead went to review stays so: it is unusable as it came, or its two
\* keys lead to different contacts, and do so for good.  That alone keeps it
\* from being filed by any attempt, even if the mark is lost.
KeysDiffer(l) ==
  EmailOwner(l) # None /\ PhoneOwner(l) # None /\ EmailOwner(l) # PhoneOwner(l)
ReviewStands(l) == Unusable(l) \/ KeysDiffer(l)
ReviewsOK == SoleWriter =>
  \A i \in 1..Len(ledger) : ledger[i].kind = "lead_needs_review" =>
    ReviewStands(LeadOf[ledger[i].event])

KeysOK == IndexesPoint /\ EmailsFound /\ (SoleWriter => PhonesFound)
Inv == TypeOK /\ KeysOK /\ JobsOK /\ DealsOK /\ LinesOK /\ ReviewsOK

-----------------------------------------------------------------------------
LEMMA ContactsAreLeads == TypeOK => /\ Len(contacts) \in Nat
                                    /\ \A i \in 1..Len(contacts) : contacts[i] \in Leads
BY ElementOfSeq DEF TypeOK

LEMMA InvGivesKeys == Inv => NoTwinContacts /\ FiledUnderThePerson /\ ReviewFilesNothing
<1> SUFFICES ASSUME Inv PROVE NoTwinContacts /\ FiledUnderThePerson /\ ReviewFilesNothing
  OBVIOUS
<1>1. NoTwinContacts
  BY DEF Inv, KeysOK, EmailsFound, PhonesFound, NoTwinContacts
<1>2. FiledUnderThePerson
  BY DEF Inv, DealsOK, Held, FiledUnderThePerson
<1>3. ReviewFilesNothing
  <2> SUFFICES ASSUME SoleWriter, NEW i \in 1..Len(ledger), ledger[i].kind = "lead_needs_review",
                      NEW k \in 1..Len(deals), deals[k].event = ledger[i].event
               PROVE  FALSE
    BY DEF ReviewFilesNothing
  <2>1. PICK l : l = LeadOf[ledger[i].event]
    OBVIOUS
  <2>2. ~Unusable(l) /\ Held(l, deals[k].contact)
    BY <2>1 DEF Inv, DealsOK
  <2>3. KeysDiffer(l)
    BY <2>1, <2>2 DEF Inv, ReviewsOK, ReviewStands
  <2> QED
    BY <2>2, <2>3 DEF Held, KeysDiffer, EmailOwner, PhoneOwner
<1> QED
  BY <1>1, <1>2, <1>3

LEMMA Initially == Init => Inv
<1> SUFFICES ASSUME Init PROVE Inv
  OBVIOUS
<1>1. TypeOK
  <2>1. durable \in BOOLEAN
    BY LeadBoundAssumption DEF Init
  <2>2. /\ DOMAIN emailIndex \subseteq Emails /\ emailIndex \in [DOMAIN emailIndex -> Nat]
        /\ DOMAIN phoneIndex \subseteq Phones /\ phoneIndex \in [DOMAIN phoneIndex -> Nat]
        /\ DOMAIN seen \subseteq Events /\ seen \in [DOMAIN seen -> Nat]
    BY DEF Init, EmptyStore
  <2>3. work \in [Workers -> Jobs]
    BY DEF Init, Idle, Jobs, Steps
  <2>4. /\ contacts \in Seq(Leads) /\ deals \in Seq([contact : Nat, event : Events])
        /\ ledger \in Seq(Lines) /\ attempts \in [Events -> Nat] /\ env \in [EnvKinds -> Nat]
    BY DEF Init
  <2> QED
    BY <2>1, <2>2, <2>3, <2>4 DEF TypeOK
<1>2. KeysOK /\ DealsOK /\ LinesOK
  BY DEF Init, KeysOK, IndexesPoint, EmailsFound, PhonesFound, DealsOK, LinesOK,
         LedgerNamesThePerson, EmptyStore
<1>3. JobsOK
  BY DEF Init, JobsOK, Begun, EmailHitStands, HitsStand, ContactStands, Idle
<1>4. ReviewsOK
  BY DEF Init, ReviewsOK
<1> QED
  BY <1>1, <1>2, <1>3, <1>4 DEF Inv

-----------------------------------------------------------------------------
(* _store_contact.                                                         *)

\* The record the store ends with.
Merged(l) ==
  IF Existing(l) = None THEN l
  ELSE [email |-> MergeField(l.email, contacts[Upserted(l)].email),
        phone |-> MergeField(l.phone, contacts[Upserted(l)].phone)]

LEMMA MatchIsThere ==
  ASSUME TypeOK, IndexesPoint, NEW l \in Leads
  PROVE  /\ Existing(l) \in 1..Len(contacts) \cup {None} /\ None \notin Nat
         /\ Upserted(l) \in 1..(Len(contacts) + 1)
<1>1. Existing(l) \in 1..Len(contacts) \cup {None}
  BY DEF IndexesPoint, Existing, Lookup, Remembers
<1> QED
  BY <1>1, ContactsAreLeads, LeadAssumption DEF Upserted

\* One record changes or is added, the others stay.
LEMMA StoreChangesOne ==
  ASSUME TypeOK, IndexesPoint, NEW l \in Leads, Store(l)
  PROVE  /\ contacts' \in Seq(Leads) /\ Len(contacts') \in Nat
         /\ Len(contacts) <= Len(contacts') /\ Upserted(l) \in 1..Len(contacts')
         /\ contacts'[Upserted(l)] = Merged(l)
         /\ \A i \in 1..Len(contacts') : i # Upserted(l) =>
              i \in 1..Len(contacts) /\ contacts'[i] = contacts[i]
         /\ emailIndex' = IndexKey(emailIndex, Emails, Merged(l).email, Upserted(l))
         /\ phoneIndex' = IndexKey(phoneIndex, Phones, Merged(l).phone, Upserted(l))
<1>1. /\ contacts' = IF Existing(l) = None THEN Append(contacts, Merged(l))
                     ELSE [contacts EXCEPT ![Upserted(l)] = Merged(l)]
      /\ emailIndex' = IndexKey(emailIndex, Emails, Merged(l).email, Upserted(l))
      /\ phoneIndex' = IndexKey(phoneIndex, Phones, Merged(l).phone, Upserted(l))
  BY DEF Store, Merged
<1>2. contacts \in Seq(Leads) /\ Len(contacts) \in Nat
  BY DEF TypeOK
<1>3. CASE Existing(l) = None
  <2>1. Merged(l) \in Leads /\ Upserted(l) = Len(contacts) + 1
    BY <1>3 DEF Merged, Upserted
  <2> QED
    BY <1>1, <1>2, <1>3, <2>1, AppendProperties
<1>4. CASE Existing(l) # None
  <2>1. Upserted(l) \in 1..Len(contacts)
    BY <1>4, MatchIsThere DEF Upserted
  <2>2. Merged(l) \in Leads
    BY <1>4, <2>1, ContactsAreLeads DEF Merged, MergeField, Leads
  <2> QED
    BY <1>1, <1>2, <1>4, <2>1, <2>2, ExceptSeq
<1> QED
  BY <1>3, <1>4

LEMMA StoreTypes ==
  ASSUME TypeOK, IndexesPoint, NEW l \in Leads, Store(l)
  PROVE  /\ IndexesPoint'
         /\ DOMAIN emailIndex' \subseteq Emails /\ emailIndex' \in [DOMAIN emailIndex' -> Nat]
         /\ DOMAIN phoneIndex' \subseteq Phones /\ phoneIndex' \in [DOMAIN phoneIndex' -> Nat]
<1>1. /\ Len(contacts) \in Nat /\ Len(contacts') \in Nat
      /\ Len(contacts) <= Len(contacts') /\ Upserted(l) \in 1..Len(contacts')
      /\ emailIndex' = IndexKey(emailIndex, Emails, Merged(l).email, Upserted(l))
      /\ phoneIndex' = IndexKey(phoneIndex, Phones, Merged(l).phone, Upserted(l))
  BY StoreChangesOne, ContactsAreLeads
<1>2. /\ DOMAIN emailIndex' \subseteq Emails
      /\ \A k \in DOMAIN emailIndex' : emailIndex'[k] \in 1..Len(contacts')
      /\ emailIndex' \in [DOMAIN emailIndex' -> Nat]
  BY <1>1 DEF TypeOK, IndexesPoint, IndexKey, SetKey
<1>3. /\ DOMAIN phoneIndex' \subseteq Phones
      /\ \A k \in DOMAIN phoneIndex' : phoneIndex'[k] \in 1..Len(contacts')
      /\ phoneIndex' \in [DOMAIN phoneIndex' -> Nat]
  BY <1>1 DEF TypeOK, IndexesPoint, IndexKey, SetKey
<1> QED
  BY <1>2, <1>3 DEF IndexesPoint

\* No email changes hands, and the lead's own leads to its contact.
LEMMA StoreKeepsEmails ==
  ASSUME TypeOK, IndexesPoint, EmailsFound, NEW l \in Leads, Store(l)
  PROVE  /\ EmailsFound'
         /\ \A k \in DOMAIN emailIndex : Lookup(emailIndex', k) = emailIndex[k]
         /\ HasEmail(l) => Lookup(emailIndex', l.email) = Upserted(l)
<1> DEFINE id == Upserted(l)
           key == Merged(l).email
<1>1. /\ id \in 1..Len(contacts') /\ contacts'[id] = Merged(l)
      /\ \A i \in 1..Len(contacts') : i # id => i \in 1..Len(contacts) /\ contacts'[i] = contacts[i]
      /\ emailIndex' = IndexKey(emailIndex, Emails, key, id)
  BY StoreChangesOne
<1>2. None \notin Emails /\ None \notin Nat
  BY LeadAssumption
<1>3. key \in DOMAIN emailIndex => key \in Emails /\ emailIndex[key] = id
  <2>1. CASE Existing(l) = None
    BY <1>2, <2>1 DEF Existing, Merged, HasEmail, Remembers, TypeOK
  <2>2. CASE Existing(l) # None
    <3>1. id = Existing(l) /\ id \in 1..Len(contacts)
      BY <2>2, MatchIsThere DEF Upserted
    <3>2. key = MergeField(l.email, contacts[id].email)
      BY <2>2 DEF Merged
    <3>3. CASE l.email = None
      BY <3>1, <3>2, <3>3 DEF MergeField, EmailsFound, Lookup, Remembers, TypeOK
    <3>4. CASE l.email # None
      BY <3>1, <3>2, <3>4 DEF MergeField, Existing, HasEmail, Remembers, TypeOK
    <3> QED
      BY <3>3, <3>4
  <2> QED
    BY <2>1, <2>2
<1>4. HasEmail(l) => key = l.email
  BY <1>2 DEF Merged, MergeField, HasEmail
<1> HIDE DEF id, key
<1>5. \A k \in DOMAIN emailIndex : Lookup(emailIndex', k) = emailIndex[k]
  BY <1>1, <1>3 DEF IndexKey, SetKey, Lookup, Remembers
<1>6. key \in Emails => Lookup(emailIndex', key) = id
  BY <1>1 DEF IndexKey, SetKey, Lookup, Remembers
<1>7. EmailsFound'
  <2> SUFFICES ASSUME NEW i \in 1..Len(contacts'), contacts'[i].email \in Emails
               PROVE  Lookup(emailIndex', contacts'[i].email) = i
    BY DEF EmailsFound
  <2>1. CASE i = id
    BY <1>1, <1>6, <2>1 DEF key
  <2>2. CASE i # id
    <3>1. i \in 1..Len(contacts) /\ contacts'[i] = contacts[i]
      BY <1>1, <2>2
    <3>2. Lookup(emailIndex, contacts[i].email) = i
      BY <3>1 DEF EmailsFound
    <3>3. contacts[i].email \in DOMAIN emailIndex /\ emailIndex[contacts[i].email] = i
      BY <1>2, <3>1, <3>2 DEF Lookup, Remembers
    <3> QED
      BY <1>5, <3>1, <3>3
  <2> QED
    BY <2>1, <2>2
<1> QED
  BY <1>4, <1>5, <1>6, <1>7 DEF HasEmail, id

\* The same of phones, if the two keys do not lead to different contacts.
LEMMA StoreKeepsPhones ==
  ASSUME TypeOK, IndexesPoint, PhonesFound, NEW l \in Leads, Store(l),
         EmailOwner(l) # None /\ PhoneOwner(l) # None => EmailOwner(l) = PhoneOwner(l)
  PROVE  /\ PhonesFound'
         /\ \A k \in DOMAIN phoneIndex : Lookup(phoneIndex', k) = phoneIndex[k]
         /\ HasPhone(l) => Lookup(phoneIndex', l.phone) = Upserted(l)
<1> DEFINE id == Upserted(l)
           key == Merged(l).phone
<1>1. /\ id \in 1..Len(contacts') /\ contacts'[id] = Merged(l)
      /\ \A i \in 1..Len(contacts') : i # id => i \in 1..Len(contacts) /\ contacts'[i] = contacts[i]
      /\ phoneIndex' = IndexKey(phoneIndex, Phones, key, id)
  BY StoreChangesOne
<1>2. None \notin Phones /\ None \notin Nat
  BY LeadAssumption
<1>3. key \in DOMAIN phoneIndex => key \in Phones /\ phoneIndex[key] = id
  <2>1. CASE Existing(l) = None
    BY <1>2, <2>1 DEF Existing, Merged, HasEmail, HasPhone, Lookup, Remembers, TypeOK
  <2>2. CASE Existing(l) # None
    <3>1. id = Existing(l) /\ id \in 1..Len(contacts)
      BY <2>2, MatchIsThere DEF Upserted
    <3>2. key = MergeField(l.phone, contacts[id].phone)
      BY <2>2 DEF Merged
    <3>3. CASE l.phone = None
      BY <3>1, <3>2, <3>3 DEF MergeField, PhonesFound, Lookup, Remembers, TypeOK
    <3>4. CASE l.phone # None
      <4>1. key = l.phone
        BY <3>2, <3>4 DEF MergeField
      <4>2. SUFFICES ASSUME key \in DOMAIN phoneIndex
                     PROVE  key \in Phones /\ phoneIndex[key] = id
        OBVIOUS
      <4>3. HasPhone(l) /\ PhoneOwner(l) = phoneIndex[key] /\ phoneIndex[key] \in Nat
        BY <4>1, <4>2 DEF PhoneOwner, HasPhone, Lookup, Remembers, TypeOK
      <4>4. CASE HasEmail(l) /\ Remembers(emailIndex, l.email)
        <5>1. EmailOwner(l) = id /\ id \in Nat
          BY <3>1, <4>4 DEF EmailOwner, Existing, Lookup
        <5> QED
          BY <1>2, <4>1, <4>3, <5>1 DEF HasPhone
      <4>5. CASE ~(HasEmail(l) /\ Remembers(emailIndex, l.email))
        BY <3>1, <4>1, <4>3, <4>5 DEF Existing, PhoneOwner, HasPhone
      <4> QED
        BY <4>4, <4>5
    <3> QED
      BY <3>3, <3>4
  <2> QED
    BY <2>1, <2>2
<1>4. HasPhone(l) => key = l.phone
  BY <1>2 DEF Merged, MergeField, HasPhone
<1> HIDE DEF id, key
<1>5. \A k \in DOMAIN phoneIndex : Lookup(phoneIndex', k) = phoneIndex[k]
  BY <1>1, <1>3 DEF IndexKey, SetKey, Lookup, Remembers
<1>6. key \in Phones => Lookup(phoneIndex', key) = id
  BY <1>1 DEF IndexKey, SetKey, Lookup, Remembers
<1>7. PhonesFound'
  <2> SUFFICES ASSUME NEW i \in 1..Len(contacts'), contacts'[i].phone \in Phones
               PROVE  Lookup(phoneIndex', contacts'[i].phone) = i
    BY DEF PhonesFound
  <2>1. CASE i = id
    BY <1>1, <1>6, <2>1 DEF key
  <2>2. CASE i # id
    <3>1. i \in 1..Len(contacts) /\ contacts'[i] = contacts[i]
      BY <1>1, <2>2
    <3>2. Lookup(phoneIndex, contacts[i].phone) = i
      BY <3>1 DEF PhonesFound
    <3>3. contacts[i].phone \in DOMAIN phoneIndex /\ phoneIndex[contacts[i].phone] = i
      BY <1>2, <3>1, <3>2 DEF Lookup, Remembers
    <3> QED
      BY <1>5, <3>1, <3>3
  <2> QED
    BY <2>1, <2>2
<1> QED
  BY <1>4, <1>5, <1>6, <1>7 DEF HasPhone, id

\* The lead at hand may be stored: nobody came between its two hits.
StoredInPeace(l) == SoleWriter =>
  (EmailOwner(l) # None /\ PhoneOwner(l) # None => EmailOwner(l) = PhoneOwner(l))

\* Everything a store does for the invariant, for whoever stores.
LEMMA StoreKeepsKeys ==
  ASSUME TypeOK, KeysOK, NEW l \in Leads, Store(l),
         SoleWriter' => SoleWriter /\ StoredInPeace(l)
  PROVE  /\ KeysOK'
         /\ \A c : c = Upserted(l) => Held(l, c)'
         /\ \A m \in Leads, c \in Nat : Held(m, c) => Held(m, c)'
         /\ \A m \in Leads : EmailOwner(m) # None => EmailOwner(m)' = EmailOwner(m)
<1>1. IndexesPoint'
  BY StoreTypes DEF KeysOK
<1>2. /\ EmailsFound'
      /\ \A k \in DOMAIN emailIndex : Lookup(emailIndex', k) = emailIndex[k]
      /\ HasEmail(l) => Lookup(emailIndex', l.email) = Upserted(l)
  BY StoreKeepsEmails DEF KeysOK
<1>3. ASSUME SoleWriter'
      PROVE  /\ SoleWriter /\ PhonesFound'
             /\ \A k \in DOMAIN phoneIndex : Lookup(phoneIndex', k) = phoneIndex[k]
             /\ HasPhone(l) => Lookup(phoneIndex', l.phone) = Upserted(l)
  BY <1>3, StoreKeepsPhones DEF KeysOK, StoredInPeace
<1>4. KeysOK'
  BY <1>1, <1>2, <1>3 DEF KeysOK
<1>5. None \notin Nat
  BY LeadAssumption
<1>6. ASSUME NEW m \in Leads, NEW c \in Nat, Held(m, c)
      PROVE  Held(m, c)'
  BY <1>2, <1>3, <1>5, <1>6 DEF Held, Lookup, Remembers, HasEmail, HasPhone
<1>7. ASSUME NEW m \in Leads, EmailOwner(m) # None
      PROVE  EmailOwner(m)' = EmailOwner(m)
  BY <1>2, <1>7 DEF EmailOwner, Lookup, Remembers, HasEmail
<1>8. ASSUME NEW c, c = Upserted(l)
      PROVE  Held(l, c)'
  BY <1>2, <1>3, <1>8 DEF Held, HasEmail, HasPhone
<1> QED
  BY <1>4, <1>6, <1>7, <1>8

-----------------------------------------------------------------------------
(* What steps have in common.                                              *)

LEMMA OneWorker == SoleWriter => \A v, w \in Workers : v = w
<1> SUFFICES ASSUME SoleWriter PROVE \A v, w \in Workers : v = w
  OBVIOUS
<1>1. IsFiniteSet(Workers) /\ Cardinality(Workers) = 1
  BY LeadAssumption DEF SoleWriter
<1>2. \E x : Workers = {x}
  BY <1>1, FS_Singleton
<1> QED
  BY <1>2

\* Nobody becomes the sole writer again.
LEMMA SoleBefore ==
  ASSUME TypeOK, UNCHANGED env \/ \E k \in EnvKinds : Disturb(k)
  PROVE  SoleWriter' => SoleWriter
BY DEF TypeOK, Disturb, SoleWriter, EnvKinds

LEMMA DisturbType ==
  ASSUME env \in [EnvKinds -> Nat], NEW k \in EnvKinds, UNCHANGED env \/ Disturb(k)
  PROVE  env' \in [EnvKinds -> Nat]
<1>1. CASE UNCHANGED env
  BY <1>1
<1>2. CASE Disturb(k)
  BY <1>2 DEF Disturb
<1> QED
  BY <1>1, <1>2

\* What the platform knows stays true.
PlatformGrows ==
  /\ KeysOK' /\ (SoleWriter' => SoleWriter)
  /\ Len(contacts) \in Nat /\ Len(contacts') \in Nat /\ Len(contacts) <= Len(contacts')
  /\ \A m \in Leads, c \in Nat : Held(m, c) => Held(m, c)'
  /\ \A m \in Leads : EmailOwner(m) # None => EmailOwner(m)' = EmailOwner(m)

LEMMA GrowsByNothing ==
  ASSUME Inv, UNCHANGED <<contacts, emailIndex, phoneIndex>>, SoleWriter' => SoleWriter
  PROVE  PlatformGrows
<1>1. Len(contacts) \in Nat
  BY DEF Inv, TypeOK
<1>2. KeysOK'
  BY DEF Inv, KeysOK, IndexesPoint, EmailsFound, PhonesFound, Lookup
<1>3. \A m \in Leads : EmailOwner(m)' = EmailOwner(m)
  BY DEF EmailOwner, Lookup, HasEmail
<1>4. \A m \in Leads, c \in Nat : Held(m, c) => Held(m, c)'
  BY DEF Held, Lookup, HasEmail, HasPhone
<1> QED
  BY <1>1, <1>2, <1>3, <1>4 DEF PlatformGrows

LEMMA GrowsByStore ==
  ASSUME Inv, NEW l \in Leads, Store(l), SoleWriter' => SoleWriter /\ StoredInPeace(l)
  PROVE  /\ PlatformGrows
         /\ Upserted(l) \in 1..Len(contacts')
         /\ \A c : c = Upserted(l) => Held(l, c)'
         /\ contacts' \in Seq(Leads)
         /\ DOMAIN emailIndex' \subseteq Emails /\ emailIndex' \in [DOMAIN emailIndex' -> Nat]
         /\ DOMAIN phoneIndex' \subseteq Phones /\ phoneIndex' \in [DOMAIN phoneIndex' -> Nat]
<1>1. TypeOK /\ KeysOK /\ IndexesPoint /\ Len(contacts) \in Nat
  BY ContactsAreLeads DEF Inv, KeysOK
<1> QED
  BY <1>1, StoreKeepsKeys, StoreChangesOne, StoreTypes DEF PlatformGrows

JobStands(w) == Begun(w) /\ EmailHitStands(w) /\ HitsStand(w) /\ ContactStands(w)

LEMMA JobsAreTyped ==
  ASSUME TypeOK, NEW w \in Workers
  PROVE  /\ work[w] \in Jobs
         /\ work[w].event \in Events => Lead(w) \in Leads
BY LeadAssumption DEF TypeOK, Lead

LEMMA GoesThere ==
  ASSUME TypeOK, NEW w \in Workers, NEW j, Goto(w, j)
  PROVE  /\ work'[w] = j
         /\ \A v \in Workers : v # w => work'[v] = work[v]
         /\ j \in Jobs => work' \in [Workers -> Jobs]
BY DEF TypeOK, Goto

\* A worker that does nothing while the platform grows.
LEMMA IdleJobStands ==
  ASSUME Inv, PlatformGrows, NEW v \in Workers, work'[v] = work[v],
         SoleWriter' => UNCHANGED <<emailIndex, phoneIndex>>
  PROVE  JobStands(v)'
<1>1. /\ Begun(v) /\ EmailHitStands(v) /\ HitsStand(v) /\ ContactStands(v)
      /\ work[v] \in Jobs
  BY JobsAreTyped DEF Inv, JobsOK
<1>2. Lead(v)' = Lead(v)
  BY DEF Lead
<1>3. Begun(v)'
  BY <1>1, <1>2 DEF Begun, Unusable, HasEmail, HasPhone
<1>4. work[v].pc \in {"byPhone", "upsert", "file"} => Lead(v) \in Leads
  BY <1>1, JobsAreTyped DEF Begun, Inv
<1>5. EmailHitStands(v)'
  <2> SUFFICES ASSUME work[v].pc \in {"byPhone", "upsert"}, work[v].emailHit # None
               PROVE  work[v].emailHit = EmailOwner(Lead(v))'
    BY DEF EmailHitStands
  <2>1. work[v].emailHit = EmailOwner(Lead(v)) /\ Lead(v) \in Leads
    BY <1>1, <1>4 DEF EmailHitStands
  <2>2. EmailOwner(Lead(v))' = EmailOwner(Lead(v))
    BY <1>2, <2>1 DEF PlatformGrows, EmailOwner
  <2> QED
    BY <2>1, <2>2
<1>6. HitsStand(v)'
  <2> SUFFICES ASSUME SoleWriter'
               PROVE  HitsStand(v)'
    BY DEF HitsStand
  <2>1. SoleWriter
    BY DEF PlatformGrows
  <2> QED
    BY <1>1, <1>2, <2>1 DEF HitsStand, EmailOwner, PhoneOwner, Lookup, Conflict, HasEmail, HasPhone
<1>7. ContactStands(v)'
  <2> SUFFICES ASSUME work[v].pc = "file"
               PROVE  work[v].contact \in 1..Len(contacts') /\ Held(Lead(v), work[v].contact)'
    BY DEF ContactStands
  <2>1. /\ work[v].contact \in 1..Len(contacts) /\ Held(Lead(v), work[v].contact)
        /\ Lead(v) \in Leads /\ work[v].contact \in Nat
    BY <1>1, <1>4 DEF ContactStands
  <2> QED
    BY <1>2, <2>1 DEF PlatformGrows, Held
<1> QED
  BY <1>3, <1>5, <1>6, <1>7 DEF JobStands

\* One worker takes a step, the others stand.
LEMMA JobsStand ==
  ASSUME Inv, PlatformGrows, NEW w \in Workers, NEW j, Goto(w, j), JobStands(w)',
         UNCHANGED <<emailIndex, phoneIndex>> \/ \A v \in Workers : SoleWriter => v = w
  PROVE  JobsOK'
<1>1. ASSUME NEW v \in Workers
      PROVE  JobStands(v)'
  <2>1. CASE v = w
    BY <2>1
  <2>2. CASE v # w
    BY <2>2, GoesThere, IdleJobStands DEF Inv, PlatformGrows
  <2> QED
    BY <2>1, <2>2
<1> QED
  BY <1>1 DEF JobsOK, JobStands

LEMMA DealsStand ==
  ASSUME Inv, PlatformGrows, UNCHANGED deals
  PROVE  DealsOK'
<1> SUFFICES ASSUME NEW d \in 1..Len(deals)
             PROVE  /\ ~Unusable(LeadOf[deals[d].event])
                    /\ Held(LeadOf[deals[d].event], deals[d].contact)'
  BY DEF DealsOK, Unusable, HasEmail, HasPhone
<1>1. deals[d] \in [contact : Nat, event : Events]
  BY ElementOfSeq DEF Inv, TypeOK
<1>2. LeadOf[deals[d].event] \in Leads /\ deals[d].contact \in Nat
  BY <1>1, LeadAssumption
<1> QED
  BY <1>2 DEF Inv, DealsOK, PlatformGrows

LEMMA DealAdded ==
  ASSUME Inv, PlatformGrows, NEW deal \in [contact : Nat, event : Events],
         deals' = Append(deals, deal), ~Unusable(LeadOf[deal.event]),
         Held(LeadOf[deal.event], deal.contact)
  PROVE  DealsOK' /\ deals' \in Seq([contact : Nat, event : Events])
<1>1. /\ deals' \in Seq([contact : Nat, event : Events])
      /\ Len(deals') = Len(deals) + 1 /\ Len(deals) \in Nat
      /\ deals'[Len(deals) + 1] = deal
      /\ \A d \in 1..Len(deals) : deals'[d] = deals[d]
  BY AppendProperties DEF Inv, TypeOK
<1>2. ASSUME NEW x \in [contact : Nat, event : Events], ~Unusable(LeadOf[x.event]),
             Held(LeadOf[x.event], x.contact)
      PROVE  Held(LeadOf[x.event], x.contact)' /\ ~Unusable(LeadOf[x.event])'
  <2>1. LeadOf[x.event] \in Leads /\ x.contact \in Nat
    BY LeadAssumption
  <2> QED
    BY <1>2, <2>1 DEF PlatformGrows, Unusable, HasEmail, HasPhone
<1>3. ASSUME NEW d \in 1..Len(deals)
      PROVE  /\ deals[d] \in [contact : Nat, event : Events]
             /\ ~Unusable(LeadOf[deals[d].event])
             /\ Held(LeadOf[deals[d].event], deals[d].contact)
  BY ElementOfSeq DEF Inv, TypeOK, DealsOK
<1>4. ASSUME NEW d \in 1..Len(deals'), NEW x, x = deals'[d]
      PROVE  Held(LeadOf[x.event], x.contact)' /\ ~Unusable(LeadOf[x.event])'
  <2>1. CASE d \in 1..Len(deals)
    BY <1>1, <1>2, <1>3, <1>4, <2>1
  <2>2. CASE d = Len(deals) + 1
    BY <1>1, <1>2, <1>4, <2>2
  <2> QED
    BY <1>1, <2>1, <2>2
<1>5. DealsOK'
  BY <1>4 DEF DealsOK, Unusable, HasEmail, HasPhone, Held
<1> QED
  BY <1>1, <1>5

LEMMA LinesStand ==
  ASSUME Inv, PlatformGrows, UNCHANGED ledger
  PROVE  LinesOK'
BY DEF Inv, PlatformGrows, LinesOK, LedgerNamesThePerson

\* A new line has to tell the truth; the old ones are not touched.
LEMMA LineAdded ==
  ASSUME Inv, PlatformGrows, NEW line \in Lines, Record(line),
         line.contact \in 0..Len(contacts'),
         line.kind = "contact_merged" /\ (SoleWriter \/ line.matched_on = "email")
           => line.hit = line.contact,
         SoleWriter /\ line.kind = "contact_created" => line.contact > Len(contacts)
  PROVE  /\ LinesOK' /\ ledger' \in Seq(Lines)
         /\ Len(ledger) \in Nat /\ Len(ledger') = Len(ledger) + 1
         /\ ledger'[Len(ledger) + 1] = line
         /\ \A i \in 1..Len(ledger) : ledger'[i] = ledger[i]
<1>1. /\ ledger' \in Seq(Lines)
      /\ Len(ledger) \in Nat /\ Len(ledger') = Len(ledger) + 1
      /\ ledger'[Len(ledger) + 1] = line
      /\ \A i \in 1..Len(ledger) : ledger'[i] = ledger[i]
  BY AppendProperties DEF Inv, TypeOK, Record
<1>2. SoleWriter' => SoleWriter
  BY DEF PlatformGrows
<1>3. \A i \in 1..Len(ledger') : i \in 1..Len(ledger) \/ i = Len(ledger) + 1
  BY <1>1
<1>4. \A i \in 1..Len(ledger') : ledger'[i].contact \in 0..Len(contacts')
  BY <1>1, <1>3 DEF Inv, LinesOK, PlatformGrows
<1>5. \A i \in 1..Len(ledger') :
        ledger'[i].kind = "contact_merged" /\ (SoleWriter \/ ledger'[i].matched_on = "email")
          => ledger'[i].hit = ledger'[i].contact
  BY <1>1, <1>3 DEF Inv, LinesOK, LedgerNamesThePerson
<1>6. ASSUME SoleWriter, NEW i \in 1..Len(ledger'), ledger'[i].kind = "contact_created",
             NEW k \in 1..(i - 1)
      PROVE  ledger'[k].contact # ledger'[i].contact
  <2>1. CASE i \in 1..Len(ledger)
    BY <1>1, <1>6, <2>1 DEF Inv, LinesOK, LedgerNamesThePerson
  <2>2. CASE i = Len(ledger) + 1
    <3>1. k \in 1..Len(ledger)
      BY <1>1, <2>2
    <3>2. ledger[k].contact \in 0..Len(contacts) /\ Len(contacts) \in Nat
      BY <3>1 DEF Inv, LinesOK, PlatformGrows
    <3> QED
      BY <1>1, <1>6, <2>2, <3>1, <3>2
  <2> QED
    BY <1>3, <2>1, <2>2
<1>7. LedgerNamesThePerson'
  BY <1>2, <1>5, <1>6 DEF LedgerNamesThePerson
<1> QED
  BY <1>1, <1>4, <1>7 DEF LinesOK

LEMMA ReviewStaysSo ==
  ASSUME Inv, PlatformGrows, SoleWriter', NEW l \in Leads, ReviewStands(l)
  PROVE  ReviewStands(l)'
<1>1. SoleWriter /\ None \notin Nat /\ None \notin Emails
  BY LeadAssumption DEF PlatformGrows
<1>2. Unusable(l) => Unusable(l)'
  BY DEF Unusable, HasEmail, HasPhone
<1>3. ASSUME KeysDiffer(l)
      PROVE  KeysDiffer(l)'
  <2> PICK c : c = PhoneOwner(l)
    OBVIOUS
  <2> PICK m : m = [email |-> None, phone |-> l.phone]
    OBVIOUS
  <2>1. EmailOwner(l)' = EmailOwner(l)
    BY <1>3 DEF PlatformGrows, KeysDiffer
  <2>2. HasPhone(l) /\ c = Lookup(phoneIndex, l.phone) /\ c \in Nat
    BY <1>3 DEF KeysDiffer, PhoneOwner, Lookup, Remembers, Inv, TypeOK
  <2>3. m \in Leads /\ m.phone = l.phone /\ ~HasEmail(m) /\ HasPhone(m)
    BY <1>1, <2>2 DEF Leads, HasEmail, HasPhone
  <2>4. Held(m, c)
    BY <2>2, <2>3 DEF Held
  <2>5. Held(m, c)'
    BY <2>2, <2>3, <2>4 DEF PlatformGrows
  <2>6. PhoneOwner(l)' = c
    BY <2>2, <2>3, <2>5 DEF Held, PhoneOwner, HasPhone, SoleWriter
  <2> QED
    BY <1>3, <2>1, <2>6 DEF KeysDiffer
<1> QED
  BY <1>2, <1>3 DEF ReviewStands

\* The reviews there are stand, and a new one has its reason.
LEMMA ReviewsStand ==
  ASSUME Inv, PlatformGrows, ledger' \in Seq(Lines),
         \A i \in 1..Len(ledger') : ledger'[i].kind = "lead_needs_review" =>
           \/ i \in 1..Len(ledger) /\ ledger'[i] = ledger[i]
           \/ SoleWriter => ReviewStands(LeadOf[ledger'[i].event])
  PROVE  ReviewsOK'
<1> SUFFICES ASSUME SoleWriter', NEW i \in 1..Len(ledger'), ledger'[i].kind = "lead_needs_review"
             PROVE  ReviewStands(LeadOf[ledger[i].event])'
  BY DEF ReviewsOK
<1>1. PICK l : l = LeadOf[ledger'[i].event]
  OBVIOUS
<1>2. l \in Leads
  <2>1. ledger'[i] \in Lines
    BY ElementOfSeq
  <2> QED
    BY <1>1, <2>1, LeadAssumption DEF Lines
<1>3. ReviewStands(l)
  BY <1>1 DEF Inv, ReviewsOK, PlatformGrows
<1>4. ReviewStands(l)'
  BY <1>2, <1>3, ReviewStaysSo
<1> QED
  BY <1>1, <1>4 DEF ReviewStands, KeysDiffer, Unusable, EmailOwner, PhoneOwner, HasEmail, HasPhone,
                    Lookup, Remembers

\* Nothing is reviewed.
LEMMA ReviewsCarry ==
  ASSUME Inv, PlatformGrows, UNCHANGED ledger
  PROVE  ReviewsOK'
<1>1. ledger' \in Seq(Lines)
  BY DEF Inv, TypeOK
<1> QED
  BY <1>1, ReviewsStand

-----------------------------------------------------------------------------
(* One lemma for each step.                                                *)

\* The line of a refusal is true because it names nobody.
LEMMA RefusalLine ==
  ASSUME Inv, PlatformGrows, NEW w \in Workers, NEW j \in Jobs, j.event \in Events, Refuse(w, j)
  PROVE  /\ LinesOK' /\ ledger' \in Seq(Lines)
         /\ Len(ledger) \in Nat /\ Len(ledger') = Len(ledger) + 1
         /\ ledger'[Len(ledger) + 1] = Line("lead_needs_review", j.event, 0)
         /\ \A i \in 1..Len(ledger) : ledger'[i] = ledger[i]
<1> DEFINE line == Line("lead_needs_review", j.event, 0)
<1>1. line \in Lines /\ line.kind = "lead_needs_review" /\ line.contact = 0
  BY DEF Line, Lines
<1>2. line.contact \in 0..Len(contacts')
  BY <1>1 DEF PlatformGrows
<1>3. Record(line)
  BY DEF Refuse
<1> HIDE DEF line
<1>4. /\ LinesOK' /\ ledger' \in Seq(Lines)
      /\ Len(ledger) \in Nat /\ Len(ledger') = Len(ledger) + 1
      /\ ledger'[Len(ledger) + 1] = line
      /\ \A i \in 1..Len(ledger) : ledger'[i] = ledger[i]
  BY <1>1, <1>2, <1>3, LineAdded
<1> QED
  BY <1>4 DEF line

LEMMA ReceiveKeeps ==
  ASSUME Inv, NEW w \in Workers, NEW e \in Events, Receive(w, e)
  PROVE  Inv'
<1> DEFINE j == [Idle EXCEPT !.event = e]
           next == IF HasEmail(LeadOf[e]) THEN "byEmail" ELSE "byPhone"
<1>1. /\ Pc(w, "idle") /\ ~Remembers(seen, e) /\ LeadOf[e] \in Leads
      /\ UNCHANGED <<durable, contacts, emailIndex, phoneIndex, deals, seen, env>>
  BY LeadAssumption DEF Receive, NextAttempt, platform
<1>0. attempts' \in [Events -> Nat]
  BY DEF Receive, NextAttempt, Inv, TypeOK
<1>2. PlatformGrows
  BY <1>1, GrowsByNothing, SoleBefore DEF Inv
<1>3. KeysOK' /\ DealsOK' /\ (SoleWriter' => SoleWriter)
  BY <1>1, <1>2, DealsStand DEF PlatformGrows
<1>4. /\ j \in Jobs /\ j.event = e /\ j.emailHit = None /\ j.phoneHit = None
      /\ \A s \in Steps : [j EXCEPT !.pc = s] \in Jobs
  BY DEF Idle, Jobs, Steps
<1>5. CASE Unusable(LeadOf[e]) /\ Refuse(w, j)
  <2>1. Goto(w, [j EXCEPT !.pc = "mark"]) /\ [j EXCEPT !.pc = "mark"] \in Jobs
    BY <1>4, <1>5 DEF Refuse, Steps
  <2>2. work' \in [Workers -> Jobs] /\ work'[w] = [j EXCEPT !.pc = "mark"]
    BY <2>1, GoesThere DEF Inv
  <2>3. JobStands(w)'
    BY <1>4, <2>2 DEF JobStands, Begun, EmailHitStands, HitsStand, ContactStands, Idle
  <2>4. JobsOK'
    BY <1>1, <1>2, <2>1, <2>3, JobsStand
  <2> HIDE DEF j
  <2>5. /\ LinesOK' /\ ledger' \in Seq(Lines)
        /\ Len(ledger) \in Nat /\ Len(ledger') = Len(ledger) + 1
        /\ ledger'[Len(ledger) + 1] = Line("lead_needs_review", j.event, 0)
        /\ \A i \in 1..Len(ledger) : ledger'[i] = ledger[i]
    BY <1>2, <1>4, <1>5, RefusalLine
  <2>6. ReviewStands(LeadOf[j.event])
    BY <1>4, <1>5 DEF ReviewStands
  <2>7. ReviewsOK'
    BY <1>2, <2>5, <2>6, ReviewsStand DEF Line
  <2>8. TypeOK'
    BY <1>0, <1>1, <2>2, <2>5 DEF Inv, TypeOK
  <2> QED
    BY <1>3, <2>4, <2>5, <2>7, <2>8 DEF Inv
<1>6. CASE ~Unusable(LeadOf[e]) /\ Goto(w, [j EXCEPT !.pc = next]) /\ UNCHANGED ledger
  <2>1. next \in Steps
    BY DEF Steps
  <2>2. work' \in [Workers -> Jobs] /\ work'[w] = [j EXCEPT !.pc = next]
    BY <1>4, <1>6, <2>1, GoesThere DEF Inv
  <2>3. Lead(w)' = LeadOf[e]
    BY <1>4, <2>2 DEF Lead, Idle
  <2>4. next = "byPhone" => ~HasEmail(LeadOf[e]) /\ HasPhone(LeadOf[e])
    BY <1>6 DEF Unusable
  <2>5. Begun(w)'
    BY <1>4, <1>6, <2>2, <2>3, <2>4 DEF Begun, Unusable, HasEmail, HasPhone, Idle
  <2>6. EmailHitStands(w)' /\ HitsStand(w)' /\ ContactStands(w)'
    BY <1>4, <2>2, <2>3, <2>4
       DEF EmailHitStands, HitsStand, ContactStands, EmailOwner, HasEmail, Idle
  <2>7. JobsOK'
    BY <1>1, <1>2, <1>6, <2>5, <2>6, JobsStand DEF JobStands
  <2>8. LinesOK'
    BY <1>2, <1>6, LinesStand
  <2>9. ReviewsOK'
    BY <1>2, <1>6, ReviewsCarry
  <2>10. TypeOK'
    BY <1>0, <1>1, <1>6, <2>2 DEF Inv, TypeOK
  <2> QED
    BY <1>3, <2>7, <2>8, <2>9, <2>10 DEF Inv
<1> QED
  BY <1>5, <1>6 DEF Receive

\* Nothing was begun.
LEMMA LookupFailsKeeps ==
  ASSUME Inv, NEW w \in Workers, NEW e \in Events, LookupFails(w, e)
  PROVE  Inv'
<1>1. /\ Disturb("call_fails")
      /\ UNCHANGED <<durable, contacts, emailIndex, phoneIndex, deals, seen, ledger, work>>
  BY DEF LookupFails, platform
<1>2. (SoleWriter' => SoleWriter) /\ env' \in [EnvKinds -> Nat]
  BY <1>1, SoleBefore, SMTT(60) DEF Inv, Disturb, TypeOK, EnvKinds
<1>3. PlatformGrows
  BY <1>1, <1>2, GrowsByNothing
<1>4. KeysOK' /\ DealsOK' /\ LinesOK' /\ ReviewsOK'
  BY <1>1, <1>3, DealsStand, LinesStand, ReviewsCarry DEF PlatformGrows
<1>5. JobsOK'
  BY <1>1, <1>3, IdleJobStands DEF JobsOK, JobStands
<1>6. attempts' \in [Events -> Nat]
  BY DEF LookupFails, NextAttempt, Inv, TypeOK
<1>7. TypeOK'
  BY <1>1, <1>2, <1>6 DEF Inv, TypeOK
<1> QED
  BY <1>4, <1>5, <1>7 DEF Inv

LEMMA SearchByEmailKeeps ==
  ASSUME Inv, NEW w \in Workers, SearchByEmail(w)
  PROVE  Inv'
<1> DEFINE next == IF HasPhone(Lead(w)) THEN "byPhone" ELSE "upsert"
           hit  == Lookup(emailIndex, Lead(w).email)
           j    == [work[w] EXCEPT !.emailHit = hit, !.pc = next]
<1>1. /\ work[w] \in Jobs /\ work[w].pc = "byEmail" /\ Goto(w, j)
      /\ UNCHANGED <<durable, contacts, emailIndex, phoneIndex, deals, seen, ledger, attempts, env>>
  BY JobsAreTyped DEF SearchByEmail, Pc, platform, Inv
<1>2. PlatformGrows
  BY <1>1, GrowsByNothing, SoleBefore DEF Inv
<1>3. KeysOK' /\ DealsOK' /\ LinesOK' /\ (SoleWriter' => SoleWriter)
  BY <1>1, <1>2, DealsStand, LinesStand DEF PlatformGrows
<1>4. /\ Begun(w) /\ work[w].event \in Events /\ ~Unusable(Lead(w)) /\ HasEmail(Lead(w))
      /\ work[w].phoneHit = None
  BY <1>1 DEF Inv, JobsOK, Begun
<1>5. hit = EmailOwner(Lead(w)) /\ hit \in Nat \cup {None}
  BY <1>4 DEF EmailOwner, Lookup, Remembers, Inv, TypeOK
<1> HIDE DEF hit
<1>6. /\ j \in Jobs /\ j.pc = next /\ j.event = work[w].event /\ j.emailHit = hit
      /\ j.phoneHit = None
  BY <1>1, <1>4, <1>5 DEF Jobs, Steps
<1> HIDE DEF j
<1>7. work'[w] = j /\ work' \in [Workers -> Jobs]
  BY <1>1, <1>6, GoesThere DEF Inv
<1>8. Lead(w)' = Lead(w)
  BY <1>6, <1>7 DEF Lead
<1>9. EmailOwner(Lead(w))' = EmailOwner(Lead(w)) /\ PhoneOwner(Lead(w))' = PhoneOwner(Lead(w))
  BY <1>1, <1>8 DEF EmailOwner, PhoneOwner, Lookup, HasEmail, HasPhone
<1>10. ~HasPhone(Lead(w)) => PhoneOwner(Lead(w)) = None
  BY DEF PhoneOwner
<1>11. JobStands(w)'
  <2>1. Begun(w)'
    BY <1>4, <1>6, <1>7, <1>8 DEF Begun, Unusable, HasEmail, HasPhone
  <2>2. EmailHitStands(w)' /\ ContactStands(w)'
    BY <1>5, <1>6, <1>7, <1>9 DEF EmailHitStands, ContactStands
  <2>3. HitsStand(w)'
    BY <1>5, <1>6, <1>7, <1>9, <1>10 DEF HitsStand, Conflict
  <2> QED
    BY <2>1, <2>2, <2>3 DEF JobStands
<1>12. JobsOK'
  BY <1>1, <1>2, <1>11, JobsStand
<1>13. ReviewsOK'
  BY <1>1, <1>2, ReviewsCarry
<1>14. TypeOK'
  BY <1>1, <1>7 DEF Inv, TypeOK
<1> QED
  BY <1>3, <1>12, <1>13, <1>14 DEF Inv

\* Two hits that differ are the reason of a review.
LEMMA SearchByPhoneKeeps ==
  ASSUME Inv, NEW w \in Workers, SearchByPhone(w)
  PROVE  Inv'
<1> DEFINE hit == Lookup(phoneIndex, Lead(w).phone)
           j   == [work[w] EXCEPT !.phoneHit = hit]
<1>1. /\ work[w] \in Jobs /\ work[w].pc = "byPhone"
      /\ UNCHANGED <<durable, contacts, emailIndex, phoneIndex, deals, seen, attempts, env>>
  BY JobsAreTyped DEF SearchByPhone, Pc, platform, Inv
<1>2. PlatformGrows
  BY <1>1, GrowsByNothing, SoleBefore DEF Inv
<1>3. KeysOK' /\ DealsOK' /\ (SoleWriter' => SoleWriter)
  BY <1>1, <1>2, DealsStand DEF PlatformGrows
<1>4. /\ Begun(w) /\ EmailHitStands(w) /\ HitsStand(w)
      /\ work[w].event \in Events /\ ~Unusable(Lead(w)) /\ HasPhone(Lead(w))
  BY <1>1 DEF Inv, JobsOK, Begun
<1>5. hit = PhoneOwner(Lead(w)) /\ hit \in Nat \cup {None}
  BY <1>4 DEF PhoneOwner, Lookup, Remembers, Inv, TypeOK
<1>6. /\ j \in Jobs /\ j.pc = "byPhone" /\ j.event = work[w].event
      /\ j.emailHit = work[w].emailHit /\ j.phoneHit = PhoneOwner(Lead(w))
  BY <1>1, <1>5 DEF Jobs
<1>7. CASE Conflict(j) /\ Refuse(w, j)
  <2> HIDE DEF j
  <2>1. /\ Goto(w, [j EXCEPT !.pc = "mark"]) /\ [j EXCEPT !.pc = "mark"] \in Jobs
        /\ [j EXCEPT !.pc = "mark"].pc = "mark" /\ [j EXCEPT !.pc = "mark"].event = j.event
    BY <1>6, <1>7 DEF Refuse, Jobs, Steps
  <2>2. work' \in [Workers -> Jobs] /\ work'[w].pc = "mark" /\ work'[w].event = j.event
    BY <2>1, GoesThere DEF Inv
  <2>3. JobStands(w)'
    BY <1>4, <1>6, <2>2 DEF JobStands, Begun, EmailHitStands, HitsStand, ContactStands
  <2>4. JobsOK'
    BY <1>1, <1>2, <2>1, <2>3, JobsStand
  <2>5. /\ LinesOK' /\ ledger' \in Seq(Lines)
        /\ Len(ledger) \in Nat /\ Len(ledger') = Len(ledger) + 1
        /\ ledger'[Len(ledger) + 1] = Line("lead_needs_review", j.event, 0)
        /\ \A i \in 1..Len(ledger) : ledger'[i] = ledger[i]
    BY <1>2, <1>4, <1>6, <1>7, RefusalLine
  <2>6. SoleWriter => ReviewStands(LeadOf[j.event])
    <3> SUFFICES ASSUME SoleWriter PROVE KeysDiffer(Lead(w))
      BY <1>6 DEF ReviewStands, Lead
    <3>1. EmailOwner(Lead(w)) = j.emailHit
      BY <1>1, <1>4, <1>6 DEF HitsStand
    <3> QED
      BY <1>6, <1>7, <3>1 DEF KeysDiffer, Conflict
  <2>7. ledger'[Len(ledger) + 1].event = j.event
    BY <2>5 DEF Line
  <2>8. ReviewsOK'
    BY <1>2, <2>5, <2>6, <2>7, ReviewsStand
  <2>9. TypeOK'
    BY <1>1, <2>2, <2>5 DEF Inv, TypeOK
  <2> QED
    BY <1>3, <2>4, <2>5, <2>8, <2>9 DEF Inv
<1>8. CASE ~Conflict(j) /\ Goto(w, [j EXCEPT !.pc = "upsert"]) /\ UNCHANGED ledger
  <2> DEFINE n == [j EXCEPT !.pc = "upsert"]
  <2> HIDE DEF j
  <2>1. /\ n \in Jobs /\ n.pc = "upsert" /\ n.event = work[w].event
        /\ n.emailHit = work[w].emailHit /\ n.phoneHit = PhoneOwner(Lead(w))
    BY <1>6 DEF Jobs, Steps
  <2>2. ~Conflict(n)
    BY <1>6, <1>8, <2>1 DEF Conflict
  <2>3. Goto(w, n)
    BY <1>8
  <2> HIDE DEF n
  <2>4. work'[w] = n /\ work' \in [Workers -> Jobs]
    BY <2>1, <2>3, GoesThere DEF Inv
  <2>5. Lead(w)' = Lead(w)
    BY <2>1, <2>4 DEF Lead
  <2>6. EmailOwner(Lead(w))' = EmailOwner(Lead(w)) /\ PhoneOwner(Lead(w))' = PhoneOwner(Lead(w))
    BY <1>1, <2>5 DEF EmailOwner, PhoneOwner, Lookup, HasEmail, HasPhone
  <2>7. Begun(w)'
    BY <1>4, <2>1, <2>4, <2>5 DEF Begun, Unusable, HasEmail, HasPhone
  <2>8. EmailHitStands(w)' /\ ContactStands(w)'
    BY <1>1, <1>4, <2>1, <2>4, <2>6 DEF EmailHitStands, ContactStands
  <2>9. HitsStand(w)'
    BY <1>1, <1>3, <1>4, <2>1, <2>2, <2>4, <2>6 DEF HitsStand
  <2>10. JobsOK'
    BY <1>1, <1>2, <2>3, <2>7, <2>8, <2>9, JobsStand DEF JobStands
  <2>11. LinesOK'
    BY <1>2, <1>8, LinesStand
  <2>12. ReviewsOK'
    BY <1>2, <1>8, ReviewsCarry
  <2>13. TypeOK'
    BY <1>1, <1>8, <2>4 DEF Inv, TypeOK
  <2> QED
    BY <1>3, <2>10, <2>11, <2>12, <2>13 DEF Inv
<1> QED
  BY <1>7, <1>8 DEF SearchByPhone

\* At the upsert the hits are still what the platform answers to the keys.
LEMMA UpsertInPeace ==
  ASSUME Inv, NEW w \in Workers, Pc(w, "upsert")
  PROVE  Lead(w) \in Leads /\ StoredInPeace(Lead(w)) /\ work[w].event \in Events
<1>1. Begun(w) /\ HitsStand(w) /\ work[w].event \in Events
  BY DEF Inv, JobsOK, Begun, Pc
<1>2. Lead(w) \in Leads
  BY <1>1, JobsAreTyped DEF Inv
<1>3. StoredInPeace(Lead(w))
  BY <1>1 DEF StoredInPeace, HitsStand, Conflict, Pc
<1> QED
  BY <1>1, <1>2, <1>3

\* The verdict's line is true of the contact the upsert ended in.
LEMMA VerdictIsTrue ==
  ASSUME Inv, NEW w \in Workers, Pc(w, "upsert"),
         NEW line, line = Verdict(work[w], Upserted(Lead(w))), Upserted(Lead(w)) \in Nat
  PROVE  /\ line \in Lines /\ line.contact = Upserted(Lead(w))
         /\ line.kind # "lead_needs_review"
         /\ line.kind = "contact_merged" /\ (SoleWriter \/ line.matched_on = "email")
              => line.hit = line.contact
         /\ SoleWriter /\ line.kind = "contact_created" => line.contact > Len(contacts)
<1> DEFINE id == Upserted(Lead(w))
<1>1. /\ work[w] \in Jobs /\ work[w].event \in Events /\ Lead(w) \in Leads
      /\ EmailHitStands(w) /\ HitsStand(w) /\ work[w].pc = "upsert"
  BY UpsertInPeace, JobsAreTyped DEF Inv, JobsOK, Pc
<1>2. /\ work[w].emailHit \in Nat \cup {None} /\ work[w].phoneHit \in Nat \cup {None}
      /\ None \notin Nat /\ Len(contacts) \in Nat
  BY <1>1, LeadAssumption, ContactsAreLeads DEF Jobs, Inv
<1>3. EmailOwner(Lead(w)) # None => id = EmailOwner(Lead(w))
  BY LeadAssumption DEF EmailOwner, Existing, Upserted, Lookup, Remembers, Inv, TypeOK
<1>4. EmailOwner(Lead(w)) = None /\ PhoneOwner(Lead(w)) # None => id = PhoneOwner(Lead(w))
  BY <1>2 DEF EmailOwner, PhoneOwner, Existing, Upserted, Lookup, Remembers, Inv, TypeOK
<1>5. EmailOwner(Lead(w)) = None /\ PhoneOwner(Lead(w)) = None => id = Len(contacts) + 1
  BY <1>2 DEF EmailOwner, PhoneOwner, Existing, Upserted, Lookup, Remembers, Inv, TypeOK
<1> HIDE DEF id
<1>6. CASE work[w].emailHit # None
  <2>1. line = [Line("contact_merged", work[w].event, id)
                  EXCEPT !.matched_on = "email", !.hit = work[w].emailHit]
    BY <1>6 DEF Verdict, id
  <2>2. work[w].emailHit = id
    BY <1>1, <1>3, <1>6 DEF EmailHitStands
  <2> QED
    BY <1>1, <1>2, <2>1, <2>2 DEF Line, Lines, id
<1>7. CASE work[w].emailHit = None /\ work[w].phoneHit # None
  <2>1. line = [Line("contact_merged", work[w].event, id)
                  EXCEPT !.matched_on = "phone", !.hit = work[w].phoneHit]
    BY <1>7 DEF Verdict, id
  <2>2. SoleWriter => work[w].phoneHit = id
    BY <1>1, <1>4, <1>7 DEF HitsStand
  <2> QED
    BY <1>1, <1>2, <1>7, <2>1, <2>2 DEF Line, Lines, id
<1>8. CASE work[w].emailHit = None /\ work[w].phoneHit = None
  <2>1. line = Line("contact_created", work[w].event, id)
    BY <1>8 DEF Verdict, id
  <2>2. SoleWriter => id = Len(contacts) + 1
    BY <1>1, <1>5, <1>8 DEF HitsStand
  <2> QED
    BY <1>1, <1>2, <2>1, <2>2 DEF Line, Lines, id
<1> QED
  BY <1>6, <1>7, <1>8

LEMMA UpsertKeeps ==
  ASSUME Inv, NEW w \in Workers, Upsert(w)
  PROVE  Inv'
<1>0. PICK l : l = Lead(w)
  OBVIOUS
<1> DEFINE id == Upserted(l)
           j  == [work[w] EXCEPT !.pc = "file", !.contact = id]
<1>1. /\ Pc(w, "upsert") /\ Store(l) /\ Record(Verdict(work[w], id)) /\ Goto(w, j)
      /\ UNCHANGED <<durable, deals, seen, attempts, env>>
  BY <1>0 DEF Upsert, Store
<1>2. l \in Leads /\ StoredInPeace(l) /\ work[w].event \in Events
  BY <1>0, <1>1, UpsertInPeace
<1>3. SoleWriter' => SoleWriter
  BY <1>1, SoleBefore DEF Inv
<1>4. /\ PlatformGrows /\ id \in 1..Len(contacts')
      /\ \A c : c = id => Held(l, c)'
      /\ contacts' \in Seq(Leads)
      /\ DOMAIN emailIndex' \subseteq Emails /\ emailIndex' \in [DOMAIN emailIndex' -> Nat]
      /\ DOMAIN phoneIndex' \subseteq Phones /\ phoneIndex' \in [DOMAIN phoneIndex' -> Nat]
  BY <1>1, <1>2, <1>3, GrowsByStore
<1> HIDE DEF id
<1>5. KeysOK' /\ DealsOK' /\ id \in Nat
  BY <1>1, <1>4, DealsStand DEF PlatformGrows
<1>6. /\ work[w] \in Jobs /\ Begun(w) /\ work[w].pc = "upsert" /\ ~Unusable(l)
  BY <1>0, <1>1, JobsAreTyped DEF Inv, JobsOK, Pc, Begun
<1>7. j \in Jobs /\ j.pc = "file" /\ j.event = work[w].event /\ j.contact = id
  BY <1>5, <1>6 DEF Jobs, Steps
<1> HIDE DEF j
<1>8. work'[w] = j /\ work' \in [Workers -> Jobs]
  BY <1>1, <1>7, GoesThere DEF Inv
<1>9. Lead(w)' = l
  BY <1>0, <1>7, <1>8 DEF Lead
<1>10. Begun(w)' /\ EmailHitStands(w)' /\ HitsStand(w)'
  BY <1>2, <1>6, <1>7, <1>8, <1>9
     DEF Begun, EmailHitStands, HitsStand, Unusable, HasEmail, HasPhone
<1>11. ContactStands(w)'
  BY <1>4, <1>7, <1>8, <1>9 DEF ContactStands, Held, HasEmail, HasPhone
<1>12. JobsOK'
  BY <1>1, <1>4, <1>10, <1>11, JobsStand, OneWorker DEF JobStands
<1>13. PICK line : line = Verdict(work[w], id)
  OBVIOUS
<1>14. /\ line \in Lines /\ line.contact = id /\ line.kind # "lead_needs_review"
       /\ line.kind = "contact_merged" /\ (SoleWriter \/ line.matched_on = "email")
            => line.hit = line.contact
       /\ SoleWriter /\ line.kind = "contact_created" => line.contact > Len(contacts)
  BY <1>0, <1>1, <1>5, <1>13, VerdictIsTrue DEF id
<1>15. /\ LinesOK' /\ ledger' \in Seq(Lines)
       /\ Len(ledger) \in Nat /\ Len(ledger') = Len(ledger) + 1
       /\ ledger'[Len(ledger) + 1] = line
       /\ \A i \in 1..Len(ledger) : ledger'[i] = ledger[i]
  BY <1>1, <1>4, <1>13, <1>14, LineAdded
<1>16. \A i \in 1..Len(ledger') : ledger'[i].kind = "lead_needs_review" =>
         i \in 1..Len(ledger) /\ ledger'[i] = ledger[i]
  BY <1>14, <1>15
<1>17. ReviewsOK'
  BY <1>4, <1>15, <1>16, ReviewsStand
<1>18. TypeOK'
  BY <1>1, <1>4, <1>8, <1>15 DEF Inv, TypeOK
<1> QED
  BY <1>5, <1>12, <1>15, <1>17, <1>18 DEF Inv

LEMMA UpsertReplyLostKeeps ==
  ASSUME Inv, NEW w \in Workers, UpsertReplyLost(w)
  PROVE  Inv'
<1> DEFINE l == Lead(w)
<1>1. /\ Pc(w, "upsert") /\ Store(l) /\ Goto(w, Idle) /\ Disturb("lost_reply")
      /\ UNCHANGED <<durable, deals, seen, ledger, attempts>>
  BY DEF UpsertReplyLost, Store
<1>2. l \in Leads /\ StoredInPeace(l)
  BY <1>1, UpsertInPeace
<1>3. (SoleWriter' => SoleWriter) /\ env' \in [EnvKinds -> Nat]
  BY <1>1, SoleBefore, SMTT(60) DEF Inv, Disturb, TypeOK, EnvKinds
<1> HIDE DEF l
<1>4. /\ PlatformGrows /\ contacts' \in Seq(Leads)
      /\ DOMAIN emailIndex' \subseteq Emails /\ emailIndex' \in [DOMAIN emailIndex' -> Nat]
      /\ DOMAIN phoneIndex' \subseteq Phones /\ phoneIndex' \in [DOMAIN phoneIndex' -> Nat]
  BY <1>1, <1>2, <1>3, GrowsByStore
<1>5. KeysOK' /\ DealsOK' /\ LinesOK'
  BY <1>1, <1>4, DealsStand, LinesStand DEF PlatformGrows
<1>6. Idle \in Jobs /\ Idle.pc = "idle"
  BY DEF Idle, Jobs, Steps
<1>7. work'[w] = Idle /\ work' \in [Workers -> Jobs]
  BY <1>1, <1>6, GoesThere DEF Inv
<1>8. JobStands(w)'
  BY <1>6, <1>7 DEF JobStands, Begun, EmailHitStands, HitsStand, ContactStands
<1>9. JobsOK'
  BY <1>1, <1>4, <1>8, JobsStand, OneWorker
<1>10. ReviewsOK'
  BY <1>1, <1>4, ReviewsCarry
<1>11. TypeOK'
  BY <1>1, <1>3, <1>4, <1>7 DEF Inv, TypeOK
<1> QED
  BY <1>5, <1>9, <1>10, <1>11 DEF Inv

\* The deal of a worker that has its contact.
LEMMA DealIsHeld ==
  ASSUME Inv, NEW w \in Workers, Pc(w, "file")
  PROVE  /\ Deal(w) \in [contact : Nat, event : Events] /\ Deal(w).event = work[w].event
         /\ ~Unusable(LeadOf[Deal(w).event]) /\ Held(LeadOf[Deal(w).event], Deal(w).contact)
         /\ work[w].contact \in 1..Len(contacts) /\ work[w].event \in Events
         /\ work[w] \in Jobs
<1>1. Begun(w) /\ ContactStands(w) /\ work[w] \in Jobs
  BY JobsAreTyped DEF Inv, JobsOK
<1>2. /\ work[w].event \in Events /\ ~Unusable(Lead(w))
      /\ work[w].contact \in 1..Len(contacts) /\ Held(Lead(w), work[w].contact)
  BY <1>1 DEF Begun, ContactStands, Pc
<1>3. work[w].contact \in Nat
  BY <1>1 DEF Jobs
<1> QED
  BY <1>1, <1>2, <1>3 DEF Deal, Lead

LEMMA FileDealKeeps ==
  ASSUME Inv, NEW w \in Workers, FileDeal(w)
  PROVE  Inv'
<1> DEFINE j == [work[w] EXCEPT !.pc = "mark"]
           line == Line("opportunity_created", work[w].event, work[w].contact)
<1>1. /\ Pc(w, "file") /\ deals' = Append(deals, Deal(w)) /\ Record(line) /\ Goto(w, j)
      /\ UNCHANGED <<durable, contacts, emailIndex, phoneIndex, seen, attempts, env>>
  BY DEF FileDeal
<1>2. /\ Deal(w) \in [contact : Nat, event : Events] /\ Deal(w).event = work[w].event
      /\ ~Unusable(LeadOf[Deal(w).event]) /\ Held(LeadOf[Deal(w).event], Deal(w).contact)
      /\ work[w].contact \in 1..Len(contacts) /\ work[w].event \in Events
      /\ work[w] \in Jobs
  BY <1>1, DealIsHeld
<1>3. PlatformGrows
  BY <1>1, GrowsByNothing, SoleBefore DEF Inv
<1>4. DealsOK' /\ deals' \in Seq([contact : Nat, event : Events])
  BY <1>1, <1>2, <1>3, DealAdded
<1>5. line \in Lines /\ line.kind = "opportunity_created" /\ line.contact = work[w].contact
  BY <1>2 DEF Line, Lines, Jobs
<1>6. j \in Jobs /\ j.pc = "mark" /\ j.event = work[w].event
  BY <1>2 DEF Jobs, Steps
<1> HIDE DEF j, line
<1>7. /\ LinesOK' /\ ledger' \in Seq(Lines)
      /\ Len(ledger) \in Nat /\ Len(ledger') = Len(ledger) + 1
      /\ ledger'[Len(ledger) + 1] = line
      /\ \A i \in 1..Len(ledger) : ledger'[i] = ledger[i]
  <2>1. line.contact \in 0..Len(contacts')
    BY <1>1, <1>2, <1>5
  <2> QED
    BY <1>1, <1>3, <1>5, <2>1, LineAdded
<1>8. work'[w] = j /\ work' \in [Workers -> Jobs]
  BY <1>1, <1>6, GoesThere DEF Inv
<1>9. JobStands(w)'
  BY <1>2, <1>6, <1>8 DEF JobStands, Begun, EmailHitStands, HitsStand, ContactStands
<1>10. JobsOK'
  BY <1>1, <1>3, <1>9, JobsStand
<1>11. \A i \in 1..Len(ledger') : ledger'[i].kind = "lead_needs_review" =>
         i \in 1..Len(ledger) /\ ledger'[i] = ledger[i]
  BY <1>5, <1>7
<1>12. ReviewsOK'
  BY <1>3, <1>7, <1>11, ReviewsStand
<1>13. TypeOK'
  BY <1>1, <1>4, <1>7, <1>8 DEF Inv, TypeOK
<1> QED
  BY <1>3, <1>4, <1>7, <1>10, <1>12, <1>13 DEF Inv, PlatformGrows

LEMMA FileReplyLostKeeps ==
  ASSUME Inv, NEW w \in Workers, FileReplyLost(w)
  PROVE  Inv'
<1>1. /\ Pc(w, "file") /\ deals' = Append(deals, Deal(w)) /\ Goto(w, Idle)
      /\ Disturb("lost_reply")
      /\ UNCHANGED <<durable, contacts, emailIndex, phoneIndex, seen, ledger, attempts>>
  BY DEF FileReplyLost
<1>2. /\ Deal(w) \in [contact : Nat, event : Events] /\ Deal(w).event = work[w].event
      /\ ~Unusable(LeadOf[Deal(w).event]) /\ Held(LeadOf[Deal(w).event], Deal(w).contact)
  BY <1>1, DealIsHeld
<1>3. (SoleWriter' => SoleWriter) /\ env' \in [EnvKinds -> Nat]
  BY <1>1, SoleBefore, SMTT(60) DEF Inv, Disturb, TypeOK, EnvKinds
<1>4. PlatformGrows
  BY <1>1, <1>3, GrowsByNothing
<1>5. DealsOK' /\ deals' \in Seq([contact : Nat, event : Events])
  BY <1>1, <1>2, <1>4, DealAdded
<1>6. LinesOK' /\ KeysOK'
  BY <1>1, <1>4, LinesStand DEF PlatformGrows
<1>7. Idle \in Jobs /\ Idle.pc = "idle"
  BY DEF Idle, Jobs, Steps
<1>8. work'[w] = Idle /\ work' \in [Workers -> Jobs]
  BY <1>1, <1>7, GoesThere DEF Inv
<1>9. JobStands(w)'
  BY <1>7, <1>8 DEF JobStands, Begun, EmailHitStands, HitsStand, ContactStands
<1>10. JobsOK'
  BY <1>1, <1>4, <1>9, JobsStand
<1>12. ReviewsOK'
  BY <1>1, <1>4, ReviewsCarry
<1>13. TypeOK'
  BY <1>1, <1>3, <1>5, <1>8 DEF Inv, TypeOK
<1> QED
  BY <1>5, <1>6, <1>10, <1>12, <1>13 DEF Inv

\* The completed event is seen, or the store failed to keep it.
LEMMA MarkSeenKeeps ==
  ASSUME Inv, NEW w \in Workers, MarkSeen(w) \/ StoreFails(w)
  PROVE  Inv'
<1>1. /\ Pc(w, "mark") /\ Goto(w, Idle) /\ seen' \in {seen, Marked(work[w])}
      /\ UNCHANGED <<durable, contacts, emailIndex, phoneIndex, deals, ledger, attempts>>
      /\ UNCHANGED env \/ Disturb("store_fails")
  BY DEF MarkSeen, StoreFails, platform
<1>2. (SoleWriter' => SoleWriter) /\ env' \in [EnvKinds -> Nat]
  <2>1. TypeOK /\ "store_fails" \in EnvKinds
    BY DEF Inv, EnvKinds
  <2>2. SoleWriter' => SoleWriter
    BY <1>1, <2>1, SoleBefore
  <2>3. env' \in [EnvKinds -> Nat]
    BY <1>1, <2>1, DisturbType DEF TypeOK
  <2> QED
    BY <2>2, <2>3
<1>3. PlatformGrows
  BY <1>1, <1>2, GrowsByNothing
<1>4. KeysOK' /\ DealsOK' /\ LinesOK' /\ ReviewsOK'
  BY <1>1, <1>3, DealsStand, LinesStand, ReviewsCarry DEF PlatformGrows
<1>5. work[w].event \in Events
  BY <1>1 DEF Inv, JobsOK, Begun, Pc
<1>6. Idle \in Jobs /\ Idle.pc = "idle"
  BY DEF Idle, Jobs, Steps
<1>7. work'[w] = Idle /\ work' \in [Workers -> Jobs]
  BY <1>1, <1>6, GoesThere DEF Inv
<1>8. JobStands(w)'
  BY <1>6, <1>7 DEF JobStands, Begun, EmailHitStands, HitsStand, ContactStands
<1>9. JobsOK'
  BY <1>1, <1>3, <1>8, JobsStand
<1>10. DOMAIN seen' \subseteq Events /\ seen' \in [DOMAIN seen' -> Nat]
  BY <1>1, <1>5 DEF Inv, TypeOK, SetKey, Marked
<1>11. TypeOK'
  BY <1>1, <1>2, <1>7, <1>10 DEF Inv, TypeOK
<1> QED
  BY <1>4, <1>9, <1>11 DEF Inv

LEMMA CallFailsKeeps ==
  ASSUME Inv, NEW w \in Workers, CallFails(w)
  PROVE  Inv'
<1>1. /\ work[w].pc \notin {"idle", "mark"} /\ Goto(w, Idle) /\ Disturb("call_fails")
      /\ UNCHANGED <<durable, contacts, emailIndex, phoneIndex, deals, seen, ledger, attempts>>
  BY DEF CallFails, platform
<1>2. (SoleWriter' => SoleWriter) /\ env' \in [EnvKinds -> Nat]
  BY <1>1, SoleBefore, SMTT(60) DEF Inv, Disturb, TypeOK, EnvKinds
<1>3. PlatformGrows
  BY <1>1, <1>2, GrowsByNothing
<1>4. KeysOK' /\ DealsOK' /\ LinesOK'
  BY <1>1, <1>3, DealsStand, LinesStand DEF PlatformGrows
<1>5. Idle \in Jobs /\ Idle.pc = "idle"
  BY DEF Idle, Jobs, Steps
<1>6. work'[w] = Idle /\ work' \in [Workers -> Jobs]
  BY <1>1, <1>5, GoesThere DEF Inv
<1>7. JobStands(w)'
  BY <1>5, <1>6 DEF JobStands, Begun, EmailHitStands, HitsStand, ContactStands
<1>8. JobsOK'
  BY <1>1, <1>3, <1>7, JobsStand
<1>9. ReviewsOK'
  BY <1>1, <1>3, ReviewsCarry
<1>10. TypeOK'
  BY <1>1, <1>2, <1>6 DEF Inv, TypeOK
<1> QED
  BY <1>4, <1>8, <1>9, <1>10 DEF Inv

\* A restart forgets the ledger and every worker's knowledge.
LEMMA CrashKeeps == Inv /\ Crash => Inv'
<1> SUFFICES ASSUME Inv, Crash PROVE Inv'
  OBVIOUS
<1>1. /\ work' = [w \in Workers |-> Idle] /\ ledger' = <<>> /\ Disturb("crash")
      /\ seen' = (IF durable THEN seen ELSE EmptyStore)
      /\ UNCHANGED <<durable, contacts, emailIndex, phoneIndex, deals, attempts>>
  BY DEF Crash, platform
<1>2. (SoleWriter' => SoleWriter) /\ env' \in [EnvKinds -> Nat]
  BY <1>1, SoleBefore, SMTT(60) DEF Inv, Disturb, TypeOK, EnvKinds
<1>3. PlatformGrows
  BY <1>1, <1>2, GrowsByNothing
<1>4. KeysOK' /\ DealsOK'
  BY <1>1, <1>3, DealsStand DEF PlatformGrows
<1>5. Idle \in Jobs /\ Idle.pc = "idle"
  BY DEF Idle, Jobs, Steps
<1>6. JobsOK'
  BY <1>1, <1>5 DEF JobsOK, Begun, EmailHitStands, HitsStand, ContactStands
<1>7. LinesOK' /\ ReviewsOK'
  BY <1>1 DEF LinesOK, LedgerNamesThePerson, ReviewsOK
<1>8. DOMAIN seen' \subseteq Events /\ seen' \in [DOMAIN seen' -> Nat]
  BY <1>1 DEF Inv, TypeOK, EmptyStore
<1>9. TypeOK'
  BY <1>1, <1>2, <1>5, <1>8 DEF Inv, TypeOK
<1> QED
  BY <1>4, <1>6, <1>7, <1>9 DEF Inv

\* Another writer ends what holds for a sole one, and takes no email away.
LEMMA OtherWriteKeeps ==
  ASSUME Inv, NEW l \in OtherLeads, OtherWrite(l)
  PROVE  Inv'
<1>1. /\ Disturb("other_write") /\ Store(l) /\ l \in Leads
      /\ UNCHANGED <<durable, deals, seen, ledger, work, attempts>>
  BY LeadAssumption DEF OtherWrite, Store
<1>2. ~SoleWriter' /\ env' \in [EnvKinds -> Nat]
  BY <1>1 DEF Inv, Disturb, TypeOK, EnvKinds, SoleWriter
<1>3. /\ PlatformGrows /\ contacts' \in Seq(Leads)
      /\ DOMAIN emailIndex' \subseteq Emails /\ emailIndex' \in [DOMAIN emailIndex' -> Nat]
      /\ DOMAIN phoneIndex' \subseteq Phones /\ phoneIndex' \in [DOMAIN phoneIndex' -> Nat]
  BY <1>1, <1>2, GrowsByStore
<1>4. KeysOK' /\ DealsOK' /\ LinesOK'
  BY <1>1, <1>3, DealsStand, LinesStand DEF PlatformGrows
<1>5. JobsOK'
  BY <1>1, <1>2, <1>3, IdleJobStands DEF JobsOK, JobStands
<1>6. ReviewsOK'
  BY <1>2 DEF ReviewsOK
<1>7. TypeOK'
  BY <1>1, <1>2, <1>3 DEF Inv, TypeOK
<1> QED
  BY <1>4, <1>5, <1>6, <1>7 DEF Inv

LEMMA StutterKeeps == Inv /\ UNCHANGED vars => Inv'
<1> SUFFICES ASSUME Inv, UNCHANGED vars PROVE Inv'
  OBVIOUS
<1>1. UNCHANGED <<durable, contacts, emailIndex, phoneIndex, deals, seen, ledger, work, attempts, env>>
  BY DEF vars, platform
<1>2. PlatformGrows
  BY <1>1, GrowsByNothing DEF SoleWriter
<1>3. KeysOK' /\ DealsOK' /\ LinesOK'
  BY <1>1, <1>2, DealsStand, LinesStand DEF PlatformGrows
<1>4. JobsOK'
  BY <1>1, <1>2, IdleJobStands DEF JobsOK, JobStands
<1>5. ReviewsOK' /\ TypeOK'
  BY <1>1, <1>2, ReviewsCarry DEF Inv, TypeOK
<1> QED
  BY <1>3, <1>4, <1>5 DEF Inv

LEMMA StepKeeps == Inv /\ [Next]_vars => Inv'
<1> SUFFICES ASSUME Inv, [Next]_vars PROVE Inv'
  OBVIOUS
<1>1. CASE Crash
  BY <1>1, CrashKeeps
<1>2. CASE UNCHANGED vars
  BY <1>2, StutterKeeps
<1>3. CASE Rest
  BY <1>3, StutterKeeps DEF Rest
<1> QED
  BY <1>1, <1>2, <1>3, ReceiveKeeps, LookupFailsKeeps, SearchByEmailKeeps, SearchByPhoneKeeps, UpsertKeeps,
     FileDealKeeps, MarkSeenKeeps, CallFailsKeeps, UpsertReplyLostKeeps, FileReplyLostKeeps,
     OtherWriteKeeps DEF Next, Continue

-----------------------------------------------------------------------------
LEMMA Invariant == Spec => []Inv
BY Initially, StepKeeps, PTL DEF Spec

\* The lead path keeps its types through every failure and every other writer.
THEOREM LeadsTyped == Spec => []TypeOK
<1>1. Inv => TypeOK
  BY DEF Inv
<1> QED
  BY <1>1, Invariant, PTL

\* ContactDeduper and _store_contact keep the CRM free of near-duplicates: one
\* contact per email whoever writes, one per phone if the bridge alone does.
THEOREM OneContactPerKey == Spec => []NoTwinContacts
<1>1. Inv => NoTwinContacts
  BY InvGivesKeys
<1> QED
  BY <1>1, Invariant, PTL

\* _handle_new_lead files every deal under the person its lead's keys lead to.
THEOREM DealsStayWithTheirPerson == Spec => []FiledUnderThePerson
<1>1. Inv => FiledUnderThePerson
  BY InvGivesKeys
<1> QED
  BY <1>1, Invariant, PTL

\* The deduper's lines in the ledger tell who was merged and who is new.
THEOREM LedgerIsTrue == Spec => []LedgerNamesThePerson
<1>1. Inv => LedgerNamesThePerson
  BY DEF Inv, LinesOK
<1> QED
  BY <1>1, Invariant, PTL

\* NeedsHumanReview means that no attempt has filed the lead, nor will: what
\* sent it to review stays so, though its mark may be lost with the store.
THEOREM ReviewedIsNotFiled == Spec => []ReviewFilesNothing
<1>1. Inv => ReviewFilesNothing
  BY InvGivesKeys
<1> QED
  BY <1>1, Invariant, PTL

-----------------------------------------------------------------------------
(***************************************************************************)
(* With one thread the lead path implements EffectOnce: for every set of   *)
(* leads, every other writer and every run of failures and restarts.       *)
(***************************************************************************)
\* The lead is seen, or about to be marked.
Ended(e) == Remembers(seen, e) \/ \E w \in Workers : Pc(w, "mark") /\ work[w].event = e

Filed(e) == Cardinality(DealsOf(e))

\* A lead at work is not seen yet; a deal more than the faults have hidden was
\* filed only for a lead that is seen, or about to be marked.
DealsCounted ==
  /\ \A w \in Workers : ~Pc(w, "idle") =>
       work[w].event \in Events /\ ~Remembers(seen, work[w].event)
  /\ \A e \in Events : Filed(e) <= Faults + (IF Ended(e) THEN 1 ELSE 0)

Counted == TypeOK /\ DealsCounted

LEMMA DealsAreFinite ==
  ASSUME TypeOK, NEW e
  PROVE  IsFiniteSet(DealsOf(e)) /\ Filed(e) \in Nat /\ Faults \in Nat
<1>1. Len(deals) \in Nat
  BY DEF TypeOK
<1>2. IsFiniteSet(1..Len(deals))
  BY <1>1, FS_Interval
<1>3. IsFiniteSet(DealsOf(e))
  BY <1>2, FS_Subset DEF DealsOf
<1> QED
  BY <1>3, FS_CardinalityType DEF Filed, Faults, TypeOK, EnvKinds

\* One deal more is one more for its lead and none for the others.
LEMMA DealCounts ==
  ASSUME TypeOK, NEW deal \in [contact : Nat, event : Events], deals' = Append(deals, deal)
  PROVE  \A e \in Events : Filed(e)' = IF e = deal.event THEN Filed(e) + 1 ELSE Filed(e)
<1>1. /\ Len(deals') = Len(deals) + 1 /\ Len(deals) \in Nat
      /\ deals'[Len(deals) + 1] = deal
      /\ \A d \in 1..Len(deals) : deals'[d] = deals[d]
  BY AppendProperties DEF TypeOK
<1> SUFFICES ASSUME NEW e \in Events
             PROVE  Filed(e)' = IF e = deal.event THEN Filed(e) + 1 ELSE Filed(e)
  OBVIOUS
<1>2. CASE e = deal.event
  <2>1. DealsOf(e)' = DealsOf(e) \cup {Len(deals) + 1} /\ Len(deals) + 1 \notin DealsOf(e)
    BY <1>1, <1>2 DEF DealsOf
  <2> QED
    BY <1>2, <2>1, DealsAreFinite, FS_AddElement DEF Filed
<1>3. CASE e # deal.event
  <2>1. DealsOf(e)' = DealsOf(e)
    BY <1>1, <1>3 DEF DealsOf
  <2> QED
    BY <1>3, <2>1 DEF Filed
<1> QED
  BY <1>2, <1>3

LEMMA FiledStays ==
  ASSUME UNCHANGED deals
  PROVE  \A e : Filed(e)' = Filed(e)
BY DEF Filed, DealsOf

LEMMA CountedInitially == Init => Counted
<1> SUFFICES ASSUME Init PROVE Counted
  OBVIOUS
<1>1. TypeOK
  BY Initially DEF Inv
<1>2. \A e : DealsOf(e) = {}
  BY DEF Init, DealsOf
<1>3. \A e : Filed(e) = 0
  BY <1>2, FS_EmptySet DEF Filed
<1>4. \A w \in Workers : Pc(w, "idle")
  BY DEF Init, Pc, Idle
<1> QED
  BY <1>1, <1>3, <1>4, DealsAreFinite DEF Counted, DealsCounted

-----------------------------------------------------------------------------
(* Steps.  The mapping is the one of LeadLane!Once.                        *)

OneThread == \A v, w \in Workers : v = w

\* A step that leaves deals and seen alone and may add to the faults.
LEMMA QuietStep ==
  ASSUME Counted, OneThread, TypeOK', UNCHANGED <<deals, seen>>,
         Faults' = Faults \/ Faults' = Faults + 1,
         \A w \in Workers : ~Pc(w, "idle")' =>
           work'[w].event \in Events /\ ~Remembers(seen, work'[w].event),
         \A e \in Events : Ended(e) => Ended(e)' \/ Faults' = Faults + 1
  PROVE  DealsCounted'
<1>1. \A e \in Events : Filed(e)' = Filed(e) /\ Filed(e) \in Nat
  BY FiledStays, DealsAreFinite DEF Counted
<1>2. Faults \in Nat
  BY DealsAreFinite DEF Counted
<1> QED
  BY <1>1, <1>2 DEF Counted, DealsCounted, Remembers

\* EffectOnce sees nothing of it, or one fault.
LEMMA QuietStepMaps ==
  ASSUME Counted, UNCHANGED <<deals, seen>>, Faults' = Faults \/ Faults' = Faults + 1
  PROVE  [Once!Next]_(Once!vars)
<1>1. [e \in Events |-> Cardinality(DealsOf(e))]' = [e \in Events |-> Cardinality(DealsOf(e))]
  BY DEF DealsOf
<1>2. CASE Faults' = Faults
  BY <1>1, <1>2 DEF Once!vars, Faults
<1>3. CASE Faults' = Faults + 1
  <2>1. Once!Fault
    BY <1>1, <1>3 DEF Once!Fault, Faults
  <2> QED
    BY <2>1 DEF Once!Next
<1> QED
  BY <1>2, <1>3

\* Filing a deal, seen by its worker or not, is a run that EffectOnce allows.
LEMMA FilingStep ==
  ASSUME Counted, OneThread, TypeOK', NEW w \in Workers, Pc(w, "file"),
         deals' = Append(deals, Deal(w)), UNCHANGED seen, work[w] \in Jobs,
         \/ Faults' = Faults /\ work'[w].pc = "mark" /\ work'[w].event = work[w].event
         \/ Faults' = Faults + 1 /\ work'[w].pc = "idle"
  PROVE  DealsCounted' /\ [Once!Next]_(Once!vars)
<1>0. PICK e \in Events : e = work[w].event
  BY DEF Counted, DealsCounted, Pc
<1>1. ~Remembers(seen, e) /\ ~Ended(e)
  BY <1>0 DEF Counted, DealsCounted, Pc, OneThread, Ended
<1>2. Faults \in Nat /\ (\A f \in Events : Filed(f) \in Nat) /\ Filed(e) <= Faults
  BY <1>1, DealsAreFinite DEF Counted, DealsCounted
<1>3. Deal(w) \in [contact : Nat, event : Events] /\ Deal(w).event = e
  BY <1>0 DEF Deal, Jobs
<1>4. \A f \in Events : Filed(f)' = IF f = e THEN Filed(f) + 1 ELSE Filed(f)
  BY <1>3, DealCounts DEF Counted
<1>5. \A f \in Events : Ended(f) => Ended(f)'
  BY DEF Ended, OneThread, Pc
<1>6. Faults' = Faults => Ended(e)'
  BY <1>0, <1>2 DEF Ended, Pc
<1>7. \A v \in Workers : ~Pc(v, "idle")' =>
        work'[v].event \in Events /\ ~Remembers(seen, work'[v].event)
  BY <1>0, <1>1, <1>2 DEF OneThread, Pc
<1>8. \A f \in Events : Filed(f)' <= Faults' + (IF Ended(f)' THEN 1 ELSE 0)
  <2> SUFFICES ASSUME NEW f \in Events
               PROVE  Filed(f)' <= Faults' + (IF Ended(f)' THEN 1 ELSE 0)
    OBVIOUS
  <2>1. Filed(f) \in Nat /\ (Faults' = Faults \/ Faults' = Faults + 1)
    BY <1>2
  <2>2. CASE f = e
    <3>1. Filed(f)' = Filed(f) + 1 /\ Filed(f) <= Faults
      BY <1>2, <1>4, <2>2
    <3>2. Faults' = Faults => Ended(f)'
      BY <1>6, <2>2
    <3> QED
      BY <1>2, <2>1, <3>1, <3>2
  <2>3. CASE f # e
    <3>1. Filed(f)' = Filed(f)
      BY <1>4, <2>3
    <3>2. Filed(f) <= Faults + (IF Ended(f) THEN 1 ELSE 0)
      BY DEF Counted, DealsCounted
    <3> QED
      BY <1>2, <1>5, <2>1, <3>1, <3>2
  <2> QED
    BY <2>2, <2>3
<1>9. DealsCounted'
  BY <1>7, <1>8 DEF DealsCounted, Remembers
<1>10. [f \in Events |-> Cardinality(DealsOf(f))]' =
         [[f \in Events |-> Cardinality(DealsOf(f))] EXCEPT ![e] = @ + 1]
  BY <1>1, <1>4 DEF Filed
<1>11. Once!MayRun(e) /\ Once!Run(e)
  BY <1>1, <1>2, <1>10 DEF Once!MayRun, Once!Run, Faults, Filed, Remembers
<1>12. Once!Perform(e) \/ Once!PerformUnseen(e)
  BY <1>11 DEF Once!Perform, Once!PerformUnseen, Faults
<1> QED
  BY <1>1, <1>9, <1>12 DEF Once!Next

\* The key is kept, and the store may raise all the same.
LEMMA MarkingStep ==
  ASSUME Counted, OneThread, TypeOK', NEW w \in Workers, Pc(w, "mark"), Goto(w, Idle),
         seen' = Marked(work[w]), UNCHANGED deals, Faults' = Faults \/ Faults' = Faults + 1
  PROVE  DealsCounted' /\ [Once!Next]_(Once!vars)
<1>0. PICK e \in Events : e = work[w].event
  BY DEF Counted, DealsCounted, Pc
<1>1. DOMAIN seen' = DOMAIN seen \cup {e}
  BY <1>0 DEF Marked, SetKey
<1>2. work'[w] = Idle
  BY DEF Counted, TypeOK, Goto
<1>3. \A v \in Workers : Pc(v, "idle")'
  BY <1>2 DEF OneThread, Pc, Idle
<1>4. \A f : Ended(f) => Ended(f)'
  BY <1>0, <1>1 DEF Ended, OneThread, Remembers, Pc
<1>5. (\A f \in Events : Filed(f)' = Filed(f) /\ Filed(f) \in Nat) /\ Faults \in Nat
  BY FiledStays, DealsAreFinite DEF Counted
<1>6. DealsCounted'
  BY <1>3, <1>4, <1>5 DEF Counted, DealsCounted
<1>7. [f \in Events |-> Cardinality(DealsOf(f))]' = [f \in Events |-> Cardinality(DealsOf(f))]
  BY DEF DealsOf
<1>8. Once!Finish(e) \/ Once!FinishUnseen(e)
  BY <1>1, <1>7 DEF Once!Finish, Once!FinishUnseen
<1> QED
  BY <1>6, <1>8 DEF Once!Next

-----------------------------------------------------------------------------
(* Each action is one of the three steps.                                  *)

LEMMA Disturbed ==
  ASSUME TypeOK, NEW k \in EnvKinds, Disturb(k)
  PROVE  Faults' = IF k \in {"lost_reply", "store_fails", "crash"} THEN Faults + 1 ELSE Faults
<1>1. env \in [EnvKinds -> Nat] /\ env' = [env EXCEPT ![k] = env[k] + 1]
  BY DEF TypeOK, Disturb
<1> QED
  BY <1>1 DEF EnvKinds, Faults

\* The only worker goes on with its lead, or gives it up.
LEMMA WorkerStep ==
  ASSUME Counted, OneThread, TypeOK', NEW w \in Workers, NEW j \in Jobs, Goto(w, j),
         UNCHANGED <<deals, seen>>,
         Faults' = Faults \/ Faults' = Faults + 1,
         j.pc # "idle" => j.event \in Events /\ ~Remembers(seen, j.event),
         Pc(w, "mark") => Faults' = Faults + 1
  PROVE  DealsCounted' /\ [Once!Next]_(Once!vars)
<1>1. work' = [work EXCEPT ![w] = j] /\ work'[w] = j
  BY DEF Goto, Counted, TypeOK
<1>2. \A v \in Workers : ~Pc(v, "idle")' =>
        work'[v].event \in Events /\ ~Remembers(seen, work'[v].event)
  BY <1>1 DEF OneThread, Pc
<1>3. \A e \in Events : Ended(e) => Ended(e)' \/ Faults' = Faults + 1
  BY <1>1 DEF OneThread, Ended, Pc, Remembers
<1>4. DealsCounted'
  BY <1>2, <1>3, QuietStep
<1> QED
  BY <1>4, QuietStepMaps

LEMMA ReceiveMaps ==
  ASSUME Counted, Inv, Inv', OneThread, NEW w \in Workers, NEW e \in Events, Receive(w, e)
  PROVE  DealsCounted' /\ [Once!Next]_(Once!vars)
<1> DEFINE j == work'[w]
<1>1. /\ Pc(w, "idle") /\ ~Remembers(seen, e) /\ UNCHANGED <<deals, seen, env>>
      /\ work' = [work EXCEPT ![w] = j] /\ j.event = e
  BY DEF Receive, NextAttempt, Refuse, Goto, platform, Idle, Counted, TypeOK
<1>2. j \in Jobs /\ Faults' = Faults
  BY <1>1 DEF Inv, TypeOK, Faults
<1> HIDE DEF j
<1>3. Goto(w, j) /\ ~Pc(w, "mark")
  BY <1>1 DEF Goto, Pc
<1> QED
  BY <1>1, <1>2, <1>3, WorkerStep DEF Inv

\* Searches and the upsert.
LEMMA ProgressMaps ==
  ASSUME Counted, Inv, Inv', OneThread, NEW w \in Workers,
         SearchByEmail(w) \/ SearchByPhone(w) \/ Upsert(w)
  PROVE  DealsCounted' /\ [Once!Next]_(Once!vars)
<1> DEFINE j == work'[w]
<1>1. /\ ~Pc(w, "idle") /\ ~Pc(w, "mark") /\ UNCHANGED <<deals, seen, env>>
      /\ work' = [work EXCEPT ![w] = j] /\ j.event = work[w].event
  <2>1. work \in [Workers -> Jobs] /\ work[w] \in Jobs
    BY DEF Inv, TypeOK
  <2>2. CASE SearchByEmail(w)
    BY <2>1, <2>2 DEF SearchByEmail, Goto, Pc, platform, Jobs
  <2>3. CASE SearchByPhone(w)
    BY <2>1, <2>3 DEF SearchByPhone, Refuse, Goto, Pc, platform, Jobs
  <2>4. CASE Upsert(w)
    BY <2>1, <2>4 DEF Upsert, Store, Goto, Pc, Jobs
  <2> QED
    BY <2>2, <2>3, <2>4
<1>2. j \in Jobs /\ Faults' = Faults
  BY <1>1 DEF Inv, TypeOK, Faults
<1>3. work[w].event \in Events /\ ~Remembers(seen, work[w].event)
  BY <1>1 DEF Counted, DealsCounted
<1> HIDE DEF j
<1>4. Goto(w, j)
  BY <1>1 DEF Goto
<1> QED
  BY <1>1, <1>2, <1>3, <1>4, WorkerStep DEF Inv

LEMMA FailureMaps ==
  ASSUME Counted, Inv, Inv', OneThread, NEW w \in Workers,
         CallFails(w) \/ UpsertReplyLost(w)
  PROVE  DealsCounted' /\ [Once!Next]_(Once!vars)
<1>1. ~Pc(w, "mark") /\ UNCHANGED <<deals, seen>> /\ Goto(w, Idle)
      /\ (Disturb("call_fails") \/ Disturb("lost_reply"))
  BY DEF CallFails, UpsertReplyLost, Pc, platform, Store
<1>2. Faults' = Faults \/ Faults' = Faults + 1
  BY <1>1, Disturbed DEF Counted, EnvKinds
<1>3. Idle \in Jobs /\ Idle.pc = "idle"
  BY DEF Idle, Jobs, Steps
<1> QED
  BY <1>1, <1>2, <1>3, WorkerStep DEF Inv

\* The handler has completed; the store keeps the key, or hides that it did not.
LEMMA MarkingMaps ==
  ASSUME Counted, Inv, Inv', OneThread, NEW w \in Workers, MarkSeen(w) \/ StoreFails(w)
  PROVE  DealsCounted' /\ [Once!Next]_(Once!vars)
<1>1. Pc(w, "mark") /\ Goto(w, Idle) /\ UNCHANGED deals
  BY DEF MarkSeen, StoreFails, platform
<1>2. \/ seen' = Marked(work[w]) /\ UNCHANGED env
      \/ seen' = Marked(work[w]) /\ Faults' = Faults + 1
      \/ UNCHANGED seen /\ Faults' = Faults + 1
  BY Disturbed DEF MarkSeen, StoreFails, Counted, EnvKinds
<1>3. UNCHANGED env => Faults' = Faults
  BY DEF Faults
<1>4. CASE seen' = Marked(work[w])
  BY <1>1, <1>2, <1>3, <1>4, MarkingStep DEF Inv
<1>5. CASE UNCHANGED seen /\ Faults' = Faults + 1
  <2>1. Idle \in Jobs /\ Idle.pc = "idle"
    BY DEF Idle, Jobs, Steps
  <2> QED
    BY <1>1, <1>5, <2>1, WorkerStep DEF Inv
<1> QED
  BY <1>2, <1>4, <1>5

LEMMA FilingMaps ==
  ASSUME Counted, Inv, Inv', OneThread, NEW w \in Workers,
         FileDeal(w) \/ FileReplyLost(w)
  PROVE  DealsCounted' /\ [Once!Next]_(Once!vars)
<1>1. work \in [Workers -> Jobs] /\ work[w] \in Jobs
  BY DEF Inv, TypeOK
<1>2. Pc(w, "file") /\ deals' = Append(deals, Deal(w)) /\ UNCHANGED seen
  BY DEF FileDeal, FileReplyLost
<1>3. CASE FileDeal(w)
  <2>1. Faults' = Faults /\ work'[w].pc = "mark" /\ work'[w].event = work[w].event
    BY <1>1, <1>3 DEF FileDeal, Goto, Faults, Jobs
  <2> QED
    BY <1>1, <1>2, <2>1, FilingStep DEF Inv
<1>4. CASE FileReplyLost(w)
  <2>1. work'[w] = Idle /\ Disturb("lost_reply")
    BY <1>1, <1>4 DEF FileReplyLost, Goto
  <2>2. Faults' = Faults + 1 /\ work'[w].pc = "idle"
    BY <2>1, Disturbed DEF Counted, EnvKinds, Idle
  <2> QED
    BY <1>1, <1>2, <2>2, FilingStep DEF Inv
<1> QED
  BY <1>3, <1>4

\* A restart hides what was filed and not marked, or forgets the marks; it is
\* one fault.
LEMMA CrashMaps ==
  ASSUME Counted, Inv, Inv', OneThread, Crash
  PROVE  DealsCounted' /\ [Once!Next]_(Once!vars)
<1>1. /\ Disturb("crash") /\ UNCHANGED deals /\ work' = [w \in Workers |-> Idle]
      /\ DOMAIN seen' \in {DOMAIN seen, {}}
  BY DEF Crash, platform, EmptyStore
<1>2. Faults' = Faults + 1
  BY <1>1, Disturbed DEF Counted, EnvKinds
<1>3. \A w \in Workers : Pc(w, "idle")'
  BY <1>1 DEF Pc, Idle
<1>4. \A e \in Events : Filed(e)' = Filed(e) /\ Filed(e) \in Nat /\ Faults \in Nat
  BY <1>1, FiledStays, DealsAreFinite DEF Counted
<1>5. DealsCounted'
  BY <1>2, <1>3, <1>4 DEF Counted, DealsCounted
<1>6. [e \in Events |-> Cardinality(DealsOf(e))]' = [e \in Events |-> Cardinality(DealsOf(e))]
  BY <1>1 DEF DealsOf
<1>7. Once!Fault
  BY <1>1, <1>2, <1>6 DEF Once!Fault
<1> QED
  BY <1>5, <1>7 DEF Once!Next

\* Nobody of the bridge moves.
LEMMA BystanderMaps ==
  ASSUME Counted, Inv, Inv', OneThread,
         \/ \E l \in OtherLeads : OtherWrite(l)
         \/ \E w \in Workers, e \in Events : LookupFails(w, e)
         \/ UNCHANGED vars
  PROVE  DealsCounted' /\ [Once!Next]_(Once!vars)
<1>1. UNCHANGED <<deals, seen, work>>
  BY DEF OtherWrite, LookupFails, Store, vars, platform
<1>2. Faults' = Faults
  BY Disturbed DEF Counted, EnvKinds, OtherWrite, LookupFails, vars, Faults
<1>3. DealsCounted'
  BY <1>1, <1>2, QuietStep DEF Inv, Counted, DealsCounted, Pc, Ended, Remembers
<1> QED
  BY <1>1, <1>2, <1>3, QuietStepMaps

LEMMA StepMaps ==
  ASSUME OneThread, Counted, Inv, Inv', [Next]_vars
  PROVE  Counted' /\ [Once!Next]_(Once!vars)
<1>1. DealsCounted' /\ [Once!Next]_(Once!vars)
  BY ReceiveMaps, ProgressMaps, FilingMaps, MarkingMaps, FailureMaps, CrashMaps, BystanderMaps
  DEF Next, Continue, Rest
<1> QED
  BY <1>1 DEF Counted, Inv

LEMMA InitMaps == Init => Once!Init
<1> SUFFICES ASSUME Init PROVE Once!Init
  OBVIOUS
<1>1. \A e : DealsOf(e) = {}
  BY DEF Init, DealsOf
<1>2. \A e : Cardinality(DealsOf(e)) = 0
  BY <1>1, FS_EmptySet
<1> QED
  BY <1>2 DEF Init, Once!Init, EmptyStore, EnvKinds, Faults

\* With one thread, filing a lead in _handle_new_lead keeps the promise that
\* the intake makes: a deal beyond a lead's first is paid for by a lost reply, a
\* failing store or a restart.
THEOREM FilingIsAnEffectOnce == OneThread /\ Spec => FiledAtMostOnce
<1> SUFFICES ASSUME OneThread PROVE Spec => FiledAtMostOnce
  OBVIOUS
<1>1. Init => Counted /\ Once!Init
  BY CountedInitially, InitMaps
<1>2. Counted /\ Inv /\ Inv' /\ [Next]_vars => Counted' /\ [Once!Next]_(Once!vars)
  BY StepMaps
<1>3. Spec => []Inv
  BY Invariant
<1>4. Spec => Once!Init /\ [][Once!Next]_(Once!vars)
  BY <1>1, <1>2, <1>3, PTL DEF Spec
<1> QED
  BY <1>4 DEF FiledAtMostOnce, Once!Spec
=============================================================================
