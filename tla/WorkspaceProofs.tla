-------------------------- MODULE WorkspaceProofs --------------------------
(***************************************************************************)
(* For every instance of Workspace: its types, that records name contacts  *)
(* of their own location, that no start of a calendar is booked twice, and *)
(* what one call may never do: reach or charge another location, file off  *)
(* the ladder, write to somebody who opted out.                            *)
(***************************************************************************)
EXTENDS Workspace, SequenceTheorems, TLAPS

Contacts == [location : Locations, person : Persons, optedOut : BOOLEAN]
Threads  == [location : Locations, contact : Nat, log : Seq({"in", "out"})]
Deals    == [location : Locations, pipeline : Pipelines, stage : Stages, contact : Nat]
Bookings == [location : Locations, calendar : Calendars, contact : Nat, slot : Slots]
Calls    == [client : Clients, op : ReadOps \cup WriteOps, asked : Locations,
             answer : Answers, shown : SUBSET Nat]

\* TypeOK in two: what the workspace keeps, and what a call leaves of itself.
RecordsOK ==
  /\ contacts \in Seq(Contacts) /\ threads \in Seq(Threads)
  /\ deals \in Seq(Deals) /\ bookings \in Seq(Bookings)
LaddersOK == \A l \in Locations : \A p \in DOMAIN ladders[l] :
               p \in Pipelines /\ ladders[l][p] \subseteq Stages
OffersOK  == \A l \in Locations : \A k \in DOMAIN offers[l] :
               k \in Calendars /\ offers[l][k] \subseteq Slots
CallOK ==
  /\ port \in [Clients -> {"fake", "live"}]
  /\ used \in [Locations -> 0..Quota] /\ writes \in Nat
  /\ last = NoCall \/ last \in Calls

\* Every location has its dictionaries, empty or not.
LocationsKept == DOMAIN ladders = Locations /\ DOMAIN offers = Locations

\* What a calendar was made to offer stays offered, so what is booked is offered.
BookedAsOffered == \A b \in 1..Len(bookings) :
  /\ bookings[b].calendar \in DOMAIN offers[bookings[b].location]
  /\ bookings[b].slot \in offers[bookings[b].location][bookings[b].calendar]

StartsDiffer == \A a, b \in 1..Len(bookings) :
  a # b /\ bookings[a].location = bookings[b].location
        /\ bookings[a].calendar = bookings[b].calendar
    => bookings[a].slot.start # bookings[b].slot.start

Inv ==
  /\ RecordsOK /\ LaddersOK /\ OffersOK /\ CallOK /\ LocationsKept
  /\ hooks \in [Locations -> Nat]
  /\ RecordsNameTheirOwn
  /\ BookedAsOffered /\ StartsDiffer

-----------------------------------------------------------------------------
LEMMA FunctionIsSeq ==
  ASSUME NEW S, NEW n \in Nat, NEW f \in [1..n -> S]
  PROVE  f \in Seq(S) /\ Len(f) = n
OBVIOUS

LEMMA InvGivesTypes == Inv => TypeOK
BY DEF Inv, RecordsOK, LaddersOK, OffersOK, CallOK, TypeOK,
       Contacts, Threads, Deals, Bookings, Calls

LEMMA RecordsAreTyped ==
  ASSUME Inv
  PROVE  /\ \A i \in 1..Len(contacts) : contacts[i] \in Contacts
         /\ \A t \in 1..Len(threads) : threads[t] \in Threads
         /\ \A d \in 1..Len(deals) : deals[d] \in Deals
         /\ \A b \in 1..Len(bookings) : bookings[b] \in Bookings
BY ElementOfSeq DEF Inv, RecordsOK

LEMMA InvGivesBookings == Inv => NoDoubleBooking
<1> SUFFICES ASSUME Inv, NEW l \in Locations, NEW k \in Calendars,
                    NEW a \in BookedAt(l, k), NEW b \in BookedAt(l, k), a # b
             PROVE  /\ bookings[a].slot.start # bookings[b].slot.start
                    /\ Overlap(bookings[a].slot, bookings[b].slot) => ~Disjoint(offers[l][k])
  BY DEF NoDoubleBooking
<1>1. bookings[a].slot.start # bookings[b].slot.start
  BY DEF Inv, StartsDiffer, BookedAt
<1>2. bookings[a].slot \in offers[l][k] /\ bookings[b].slot \in offers[l][k]
  BY DEF Inv, BookedAsOffered, BookedAt
<1> QED
  BY <1>1, <1>2 DEF Disjoint

LEMMA Initially == Init => Inv
<1> SUFFICES ASSUME Init PROVE Inv
  OBVIOUS
<1>1. LaddersOK /\ OffersOK /\ LocationsKept
  BY WorkspaceAssumption DEF Init, LaddersOK, OffersOK, LocationsKept, EmptyStore
<1>2. RecordsOK /\ RecordsNameTheirOwn /\ BookedAsOffered /\ StartsDiffer
  BY DEF Init, RecordsOK, RecordsNameTheirOwn, BookedAsOffered, StartsDiffer
<1>3. CallOK /\ hooks \in [Locations -> Nat]
  BY WorkspaceAssumption DEF Init, CallOK
<1> QED
  BY <1>1, <1>2, <1>3 DEF Inv

-----------------------------------------------------------------------------
(* The parts that actions share.                                           *)

\* Whichever port a client calls, its call runs in a location there is.
LEMMA TargetIsALocation ==
  ASSUME NEW c \in Clients, NEW l \in Locations
  PROVE  Target(c, l) \in Locations
BY WorkspaceAssumption DEF Target

LEMMA AnswerIsACall ==
  ASSUME NEW c \in Clients, NEW l \in Locations, NEW op \in ReadOps \cup WriteOps,
         NEW answer \in Answers, NEW shown \in SUBSET Nat,
         Answered(c, op, l, answer, shown)
  PROVE  last' \in Calls
BY DEF Answered, Calls

\* A charge stays within the quota because it is made below it.
LEMMA ChargeWithinQuota ==
  ASSUME Inv, NEW c \in Clients, NEW l \in Locations, NEW op, Admitted(c, op, l)
  PROVE  port' = port /\ used' \in [Locations -> 0..Quota]
<1>1. Target(c, l) \in Locations
  BY TargetIsALocation
<1> QED
  BY <1>1, WorkspaceAssumption DEF Inv, CallOK, Admitted

\* Nothing that the records say can change when they do not.
LEMMA RecordsStay ==
  ASSUME Inv, UNCHANGED records, CallOK'
  PROVE  Inv'
BY DEF Inv, records, RecordsOK, LaddersOK, OffersOK, LocationsKept,
       RecordsNameTheirOwn, ContactsOf, BookedAsOffered, StartsDiffer

\* The refusing half of a writing call.
LEMMA RefusalKeeps ==
  ASSUME Inv, NEW c \in Clients, NEW l \in Locations, NEW op \in WriteOps,
         NEW answer \in Answers, Admitted(c, op, l), Refuse(c, op, l, answer)
  PROVE  Inv'
<1>1. As(c, answer) \in Answers
  BY DEF As, Answers
<1>2. last' \in Calls
  BY <1>1, AnswerIsACall DEF Refuse
<1>3. port' = port /\ used' \in [Locations -> 0..Quota]
  BY ChargeWithinQuota
<1>4. CallOK'
  BY <1>2, <1>3 DEF Inv, CallOK, Refuse
<1> QED
  BY <1>4, RecordsStay DEF Refuse

\* The accepting half, as far as the call itself goes.
LEMMA AcceptanceCounts ==
  ASSUME Inv, NEW c \in Clients, NEW l \in Locations, NEW op \in WriteOps, NEW answer,
         Admitted(c, op, l), Accept(c, op, l, answer)
  PROVE  CallOK' /\ answer = "ok" /\ Target(c, l) \in Locations
<1>1. last' \in Calls
  BY AnswerIsACall DEF Accept, Answers
<1>2. port' = port /\ used' \in [Locations -> 0..Quota]
  BY ChargeWithinQuota
<1> QED
  BY <1>1, <1>2, TargetIsALocation DEF Inv, CallOK, Accept, Writes

LEMMA SeedingCounts == Inv /\ Seed => CallOK'
BY DEF Inv, CallOK, Seed, Writes

\* A stored contact is a new one at the end, or an old one that stays.
LEMMA ContactsGrow ==
  ASSUME Inv, NEW l \in Locations, NEW p \in Persons, StoreContact(l, p)
  PROVE  /\ contacts' \in Seq(Contacts)
         /\ \A m \in Locations : ContactsOf(m) \subseteq ContactsOf(m)'
<1>1. CASE contacts' = contacts
  BY <1>1 DEF Inv, RecordsOK, ContactsOf
<1>2. CASE contacts' = Append(contacts, [location |-> l, person |-> p, optedOut |-> FALSE])
  <2> DEFINE new == [location |-> l, person |-> p, optedOut |-> FALSE]
  <2>1. new \in Contacts
    BY DEF Contacts
  <2> HIDE DEF new
  <2>2. /\ contacts' \in Seq(Contacts) /\ Len(contacts') = Len(contacts) + 1
        /\ Len(contacts) \in Nat
        /\ \A i \in 1..Len(contacts) : contacts'[i] = contacts[i]
    BY <1>2, <2>1, AppendProperties DEF Inv, RecordsOK, new
  <2> QED
    BY <2>2 DEF ContactsOf
<1> QED
  BY <1>1, <1>2 DEF StoreContact

\* A message goes into the one thread of its contact, old or new.
LEMMA ThreadsGrow ==
  ASSUME Inv, NEW l \in Locations, NEW i \in ContactsOf(l),
         NEW direction \in {"in", "out"}, AppendMessage(l, i, direction)
  PROVE  /\ threads' \in Seq(Threads)
         /\ \A t \in 1..Len(threads') : threads'[t].contact \in ContactsOf(threads'[t].location)
<1>1. CASE ThreadWith(i) = {}
  <2> DEFINE new == [location |-> l, contact |-> i, log |-> <<direction>>]
  <2>1. new \in Threads /\ new.contact \in ContactsOf(new.location)
    BY DEF Threads, ContactsOf
  <2>2. threads' = Append(threads, new)
    BY <1>1 DEF AppendMessage
  <2> HIDE DEF new
  <2>3. /\ threads' \in Seq(Threads) /\ Len(threads') = Len(threads) + 1
        /\ Len(threads) \in Nat /\ threads'[Len(threads) + 1] = new
        /\ \A t \in 1..Len(threads) : threads'[t] = threads[t]
    BY <2>1, <2>2, AppendProperties DEF Inv, RecordsOK
  <2> QED
    BY <2>1, <2>3 DEF Inv, RecordsNameTheirOwn
<1>2. CASE ThreadWith(i) # {}
  <2> DEFINE grown(t) == IF t \in ThreadWith(i)
                         THEN [threads[t] EXCEPT !.log = Append(@, direction)] ELSE threads[t]
  <2>1. threads' = [t \in 1..Len(threads) |-> grown(t)]
    BY <1>2 DEF AppendMessage
  <2>2. ASSUME NEW t \in 1..Len(threads)
        PROVE  /\ grown(t) \in Threads /\ grown(t).contact = threads[t].contact
               /\ grown(t).location = threads[t].location
    <3>1. threads[t] \in Threads
      BY ElementOfSeq DEF Inv, RecordsOK
    <3>2. threads[t].log \in Seq({"in", "out"})
      BY <3>1 DEF Threads
    <3>3. Append(threads[t].log, direction) \in Seq({"in", "out"})
      BY <3>2, AppendProperties
    <3> QED
      BY <3>1, <3>3 DEF Threads
  <2>3. Len(threads) \in Nat
    BY DEF Inv, RecordsOK
  <2> HIDE DEF grown
  <2>4. threads' \in Seq(Threads) /\ Len(threads') = Len(threads)
    BY <2>1, <2>2, <2>3, FunctionIsSeq
  <2> QED
    BY <2>1, <2>2, <2>4 DEF Inv, RecordsNameTheirOwn
<1> QED
  BY <1>1, <1>2

\* No record loses its contact as long as contacts only come.
LEMMA NamesStand ==
  ASSUME Inv, contacts' \in Seq(Contacts),
         \A m \in Locations : ContactsOf(m) \subseteq ContactsOf(m)',
         UNCHANGED <<threads, deals, bookings, ladders, offers, hooks>>, CallOK'
  PROVE  Inv'
<1>1. RecordsOK' /\ LaddersOK' /\ OffersOK' /\ LocationsKept' /\ BookedAsOffered' /\ StartsDiffer'
  BY DEF Inv, RecordsOK, LaddersOK, OffersOK, LocationsKept, BookedAsOffered, StartsDiffer
<1>2. /\ \A t \in 1..Len(threads) : threads[t].location \in Locations
      /\ \A d \in 1..Len(deals) : deals[d].location \in Locations
      /\ \A b \in 1..Len(bookings) : bookings[b].location \in Locations
  BY RecordsAreTyped DEF Threads, Deals, Bookings
<1>3. RecordsNameTheirOwn'
  BY <1>2 DEF Inv, RecordsNameTheirOwn
<1> QED
  BY <1>1, <1>3 DEF Inv

-----------------------------------------------------------------------------
(* One lemma for each kind of step.                                        *)

LEMMA NoEffect ==
  ASSUME Inv, NEW c \in Clients, NEW l \in Locations, NEW op \in ReadOps \cup WriteOps,
         Denied(c, op, l) \/ Limited(c, op, l)
  PROVE  Inv'
<1>1. last' \in Calls
  BY AnswerIsACall DEF Denied, Limited, Answers
<1>2. CallOK' /\ UNCHANGED records
  BY <1>1 DEF Inv, CallOK, Denied, Limited
<1> QED
  BY <1>2, RecordsStay

LEMMA ReadKeeps ==
  ASSUME Inv, NEW c \in Clients, NEW l \in Locations, Read(c, l)
  PROVE  Inv'
<1> DEFINE here == Target(c, l)
           Reads == {GetContact(here, i) : i \in 1..Len(contacts)}
                      \cup {SearchContacts(here, p) : p \in Persons}
                      \cup {GetConversation(here, t) : t \in 1..Len(threads)}
                      \cup {FreeSlots(here, k) : k \in Calendars}
                      \cup {ListPipelines}
<1>1. PICK r \in Reads : /\ Admitted(c, r.op, l)
                         /\ Answered(c, r.op, l, r.answer, r.shown)
                         /\ UNCHANGED <<records, writes>>
  BY DEF Read
<1>2. r.op \in ReadOps /\ r.answer \in Answers
  BY DEF GetContact, SearchContacts, GetConversation, FreeSlots, ListPipelines, ReadOps, Answers
<1>3. ContactsOf(here) \subseteq Nat
  BY DEF Inv, RecordsOK, ContactsOf
<1>4. \A t \in 1..Len(threads) : threads[t].contact \in Nat
  BY RecordsAreTyped DEF Threads
<1>5. r.shown \in SUBSET Nat
  BY <1>3, <1>4 DEF GetContact, SearchContacts, GetConversation, FreeSlots, ListPipelines,
                    Known, ThreadsOf
<1>6. last' \in Calls
  BY <1>1, <1>2, <1>5, AnswerIsACall
<1>7. port' = port /\ used' \in [Locations -> 0..Quota]
  BY <1>1, ChargeWithinQuota
<1>8. CallOK' /\ UNCHANGED records
  BY <1>1, <1>6, <1>7 DEF Inv, CallOK
<1> QED
  BY <1>8, RecordsStay

LEMMA UpsertKeeps ==
  ASSUME Inv, NEW c \in Clients, NEW l \in Locations, NEW p \in Persons \cup {None},
         UpsertContact(c, l, p)
  PROVE  Inv'
<1> USE DEF UpsertContact, WriteOps, Answers
<1>1. CASE Refuse(c, "upsert_contact", l, IF p = None THEN "InvalidRequest" ELSE "ok")
  BY <1>1, RefusalKeeps
<1>2. CASE /\ p # None /\ Accept(c, "upsert_contact", l, "ok")
           /\ StoreContact(Target(c, l), p)
           /\ UNCHANGED <<threads, deals, bookings, ladders, offers, hooks>>
  <2>1. CallOK' /\ Target(c, l) \in Locations
    BY <1>2, AcceptanceCounts
  <2>2. /\ contacts' \in Seq(Contacts)
        /\ \A m \in Locations : ContactsOf(m) \subseteq ContactsOf(m)'
    BY <1>2, <2>1, ContactsGrow
  <2> QED
    BY <1>2, <2>1, <2>2, NamesStand
<1> QED
  BY <1>1, <1>2

\* A deal is filed for a contact that is there.
LEMMA FilingKeeps ==
  ASSUME Inv, NEW c \in Clients, NEW l \in Locations, NEW p \in Pipelines, NEW s \in Stages,
         NEW i \in 1..Len(contacts), CreateOpportunity(c, l, p, s, i)
  PROVE  Inv'
<1> DEFINE here == Target(c, l)
           answer == Filing(here, p, s, i)
           new == [location |-> here, pipeline |-> p, stage |-> s, contact |-> i]
<1>1. answer \in Answers /\ "create_opportunity" \in WriteOps
  BY DEF Filing, Answers, WriteOps
<1>2. CASE Refuse(c, "create_opportunity", l, answer)
  BY <1>1, <1>2, RefusalKeeps DEF CreateOpportunity
<1>3. CASE /\ Accept(c, "create_opportunity", l, answer)
           /\ deals' = Append(deals, new)
           /\ UNCHANGED <<contacts, threads, bookings, ladders, offers, hooks>>
  <2>1. CallOK' /\ answer = "ok" /\ here \in Locations
    BY <1>1, <1>3, AcceptanceCounts DEF CreateOpportunity
  <2>2. i \in ContactsOf(here)
    BY <2>1 DEF Filing
  <2>3. new \in Deals /\ new.contact \in ContactsOf(new.location)
    BY <2>1, <2>2 DEF Deals
  <2> HIDE DEF new, answer
  <2>4. /\ deals' \in Seq(Deals) /\ Len(deals') = Len(deals) + 1
        /\ Len(deals) \in Nat /\ deals'[Len(deals) + 1] = new
        /\ \A d \in 1..Len(deals) : deals'[d] = deals[d]
    BY <1>3, <2>3, AppendProperties DEF Inv, RecordsOK
  <2>5. RecordsNameTheirOwn'
    BY <1>3, <2>3, <2>4 DEF Inv, RecordsNameTheirOwn, ContactsOf
  <2> QED
    BY <1>3, <2>1, <2>4, <2>5
       DEF Inv, RecordsOK, LaddersOK, OffersOK, LocationsKept, BookedAsOffered, StartsDiffer
<1> QED
  BY <1>2, <1>3 DEF CreateOpportunity

LEMMA MovingKeeps ==
  ASSUME Inv, NEW c \in Clients, NEW l \in Locations, NEW d \in 1..Len(deals), NEW s \in Stages,
         MoveOpportunity(c, l, d, s)
  PROVE  Inv'
<1> DEFINE answer == Moving(Target(c, l), d, s)
<1>1. answer \in Answers /\ "move_opportunity" \in WriteOps
  BY DEF Moving, Answers, WriteOps
<1>2. CASE Refuse(c, "move_opportunity", l, answer)
  BY <1>1, <1>2, RefusalKeeps DEF MoveOpportunity
<1>3. CASE /\ Accept(c, "move_opportunity", l, answer)
           /\ deals' = [deals EXCEPT ![d].stage = s]
           /\ UNCHANGED <<contacts, threads, bookings, ladders, offers, hooks>>
  <2> DEFINE moved == [deals[d] EXCEPT !.stage = s]
  <2>1. CallOK'
    BY <1>1, <1>3, AcceptanceCounts DEF MoveOpportunity
  <2>2. deals[d] \in Deals
    BY ElementOfSeq DEF Inv, RecordsOK
  <2>3. moved \in Deals /\ moved.contact = deals[d].contact /\ moved.location = deals[d].location
    BY <2>2 DEF Deals
  <2>4. deals' = [deals EXCEPT ![d] = moved]
    BY <1>3
  <2> HIDE DEF moved, answer
  <2>5. /\ deals' \in Seq(Deals) /\ Len(deals') = Len(deals)
        /\ \A e \in 1..Len(deals) : deals'[e] = IF e = d THEN moved ELSE deals[e]
    BY <2>3, <2>4, ExceptSeq DEF Inv, RecordsOK
  <2>6. RecordsNameTheirOwn'
    BY <1>3, <2>3, <2>5 DEF Inv, RecordsNameTheirOwn, ContactsOf
  <2> QED
    BY <1>3, <2>1, <2>5, <2>6
       DEF Inv, RecordsOK, LaddersOK, OffersOK, LocationsKept, BookedAsOffered, StartsDiffer
<1> QED
  BY <1>2, <1>3 DEF MoveOpportunity

\* A thread that grows changes nothing else.
LEMMA MessageKeeps ==
  ASSUME Inv, NEW l \in Locations, NEW i \in ContactsOf(l), NEW direction \in {"in", "out"},
         AppendMessage(l, i, direction), CallOK',
         UNCHANGED <<contacts, deals, bookings, ladders, offers, hooks>>
  PROVE  Inv'
<1>1. /\ threads' \in Seq(Threads)
      /\ \A t \in 1..Len(threads') : threads'[t].contact \in ContactsOf(threads'[t].location)
  BY ThreadsGrow
<1>2. RecordsNameTheirOwn'
  BY <1>1 DEF Inv, RecordsNameTheirOwn, ContactsOf
<1> QED
  BY <1>1, <1>2
     DEF Inv, RecordsOK, LaddersOK, OffersOK, LocationsKept, BookedAsOffered, StartsDiffer

LEMMA SendingKeeps ==
  ASSUME Inv, NEW c \in Clients, NEW l \in Locations, NEW i \in 1..Len(contacts),
         SendMessage(c, l, i)
  PROVE  Inv'
<1> DEFINE here == Target(c, l)
           answer == Sending(here, i)
<1>1. answer \in Answers /\ "send_message" \in WriteOps
  BY DEF Sending, Answers, WriteOps
<1>2. CASE Refuse(c, "send_message", l, answer)
  BY <1>1, <1>2, RefusalKeeps DEF SendMessage
<1>3. CASE /\ Accept(c, "send_message", l, answer)
           /\ AppendMessage(here, i, "out")
           /\ UNCHANGED <<contacts, deals, bookings, ladders, offers, hooks>>
  <2>1. CallOK' /\ answer = "ok" /\ here \in Locations
    BY <1>1, <1>3, AcceptanceCounts DEF SendMessage
  <2>2. i \in ContactsOf(here)
    BY <2>1 DEF Sending
  <2> QED
    BY <1>3, <2>1, <2>2, MessageKeeps
<1> QED
  BY <1>2, <1>3 DEF SendMessage

\* The start of an accepted booking was free, and its slot was on offer.
LEMMA BookingKeeps ==
  ASSUME Inv, NEW c \in Clients, NEW l \in Locations, NEW k \in Calendars, NEW s \in Slots,
         NEW i \in 1..Len(contacts), BookAppointment(c, l, k, i, s)
  PROVE  Inv'
<1> DEFINE here == Target(c, l)
           answer == Booking(here, k, i, s)
           new == [location |-> here, calendar |-> k, contact |-> i, slot |-> s]
<1>1. answer \in Answers /\ "book_appointment" \in WriteOps
  BY DEF Booking, Answers, WriteOps
<1>2. CASE Refuse(c, "book_appointment", l, answer)
  BY <1>1, <1>2, RefusalKeeps DEF BookAppointment
<1>3. CASE /\ Accept(c, "book_appointment", l, answer)
           /\ bookings' = Append(bookings, new)
           /\ UNCHANGED <<contacts, threads, deals, ladders, offers, hooks>>
  <2>1. CallOK' /\ answer = "ok" /\ here \in Locations
    BY <1>1, <1>3, AcceptanceCounts DEF BookAppointment
  <2>2. /\ i \in ContactsOf(here) /\ k \in DOMAIN offers[here]
        /\ s \in offers[here][k] /\ ~Taken(here, k, s)
    BY <2>1 DEF Booking
  <2>3. /\ new \in Bookings /\ new.location = here /\ new.calendar = k
        /\ new.contact = i /\ new.slot = s
    BY <2>1, <2>2 DEF Bookings, ContactsOf
  <2> HIDE DEF new, answer
  <2>4. /\ bookings' \in Seq(Bookings) /\ Len(bookings') = Len(bookings) + 1
        /\ Len(bookings) \in Nat /\ bookings'[Len(bookings) + 1] = new
        /\ \A b \in 1..Len(bookings) : bookings'[b] = bookings[b]
    BY <1>3, <2>3, AppendProperties DEF Inv, RecordsOK
  <2>5. RecordsNameTheirOwn'
    BY <1>3, <2>2, <2>3, <2>4 DEF Inv, RecordsNameTheirOwn, ContactsOf
  <2>6. BookedAsOffered'
    BY <1>3, <2>2, <2>3, <2>4 DEF Inv, BookedAsOffered
  <2>7. StartsDiffer'
    <3>1. \A b \in 1..Len(bookings) :
            bookings[b].location = here /\ bookings[b].calendar = k
              => bookings[b].slot.start # s.start
      BY <2>2 DEF Taken, BookedAt
    <3>2. \A b \in 1..Len(bookings') : b \in 1..Len(bookings) \/ b = Len(bookings) + 1
      BY <2>4
    <3> HIDE DEF here
    <3> QED
      BY <2>3, <2>4, <3>1, <3>2, SMTT(60) DEF Inv, StartsDiffer
  <2> QED
    BY <1>3, <2>1, <2>4, <2>5, <2>6, <2>7
       DEF Inv, RecordsOK, LaddersOK, OffersOK, LocationsKept
<1> QED
  BY <1>2, <1>3 DEF BookAppointment

LEMMA WebhookKeeps ==
  ASSUME Inv, NEW c \in Clients, NEW l \in Locations, RegisterWebhook(c, l)
  PROVE  Inv'
<1>1. "register_webhook" \in WriteOps
  BY DEF WriteOps
<1>2. CASE /\ Admitted(c, "register_webhook", l) /\ Accept(c, "register_webhook", l, "ok")
           /\ hooks' = [hooks EXCEPT ![Target(c, l)] = @ + 1]
           /\ UNCHANGED <<contacts, threads, deals, bookings, ladders, offers>>
  <2>1. CallOK' /\ Target(c, l) \in Locations
    BY <1>1, <1>2, AcceptanceCounts
  <2>2. hooks' \in [Locations -> Nat]
    BY <1>2, <2>1 DEF Inv
  <2>3. RecordsOK' /\ LaddersOK' /\ OffersOK' /\ LocationsKept'
    BY <1>2 DEF Inv, RecordsOK, LaddersOK, OffersOK, LocationsKept
  <2>4. RecordsNameTheirOwn' /\ BookedAsOffered' /\ StartsDiffer'
    BY <1>2 DEF Inv, RecordsNameTheirOwn, ContactsOf, BookedAsOffered, StartsDiffer
  <2> QED
    BY <2>1, <2>2, <2>3, <2>4 DEF Inv
<1>3. CASE /\ Answered(c, "register_webhook", l, "NotImplemented", {})
           /\ UNCHANGED <<port, records, used, writes>>
  <2>1. last' \in Calls
    BY <1>1, <1>3, AnswerIsACall DEF Answers
  <2>2. CallOK' /\ UNCHANGED records
    BY <1>3, <2>1 DEF Inv, CallOK
  <2> QED
    BY <2>2, RecordsStay
<1> QED
  BY <1>2, <1>3 DEF RegisterWebhook

LEMMA CallKeeps ==
  ASSUME Inv, NEW c \in Clients, NEW l \in Locations, Call(c, l)
  PROVE  Inv'
BY NoEffect, ReadKeeps, UpsertKeeps, FilingKeeps, BookingKeeps, SendingKeeps,
   MovingKeeps, WebhookKeeps DEF Call

\* People and operators only add to what a record may refer to.
LEMMA PeopleKeep ==
  ASSUME Inv, NEW l \in Locations, People(l)
  PROVE  Inv'
<1>1. ASSUME NEW p \in Persons, SeedContact(l, p)
      PROVE  Inv'
  BY <1>1, SeedingCounts, ContactsGrow, NamesStand DEF SeedContact
<1>2. ASSUME NEW i \in ContactsOf(l), SeedInbound(l, i)
      PROVE  Inv'
  BY <1>2, SeedingCounts, MessageKeeps DEF SeedInbound
<1>3. ASSUME NEW i \in ContactsOf(l), NEW f \in BOOLEAN, SetOptedOut(i, f)
      PROVE  Inv'
  <2> DEFINE flagged == [contacts[i] EXCEPT !.optedOut = f]
  <2>1. i \in 1..Len(contacts) /\ contacts[i] \in Contacts
    BY RecordsAreTyped DEF ContactsOf
  <2>2. flagged \in Contacts /\ flagged.location = contacts[i].location
    BY <2>1 DEF Contacts
  <2>3. contacts' = [contacts EXCEPT ![i] = flagged]
    BY <1>3 DEF SetOptedOut
  <2> HIDE DEF flagged
  <2>4. /\ contacts' \in Seq(Contacts) /\ Len(contacts') = Len(contacts)
        /\ \A j \in 1..Len(contacts) : contacts'[j] = IF j = i THEN flagged ELSE contacts[j]
    BY <2>1, <2>2, <2>3, ExceptSeq DEF Inv, RecordsOK
  <2>5. \A m \in Locations : ContactsOf(m) \subseteq ContactsOf(m)'
    BY <2>2, <2>4 DEF ContactsOf
  <2> QED
    BY <1>3, <2>4, <2>5, SeedingCounts, NamesStand DEF SetOptedOut
<1>4. ASSUME NEW p \in Pipelines, NEW stages \in SUBSET Stages, AddPipeline(l, p, stages)
      PROVE  Inv'
  <2>1. CallOK'
    BY <1>4, SeedingCounts DEF AddPipeline
  <2>2. LaddersOK' /\ LocationsKept'
    BY <1>4 DEF Inv, AddPipeline, SetKey, LaddersOK, LocationsKept
  <2> QED
    BY <1>4, <2>1, <2>2 DEF AddPipeline, Inv, RecordsOK, OffersOK, RecordsNameTheirOwn,
                            ContactsOf, BookedAsOffered, StartsDiffer
<1>5. ASSUME NEW k \in Calendars, NEW s \in Slots, AddCalendarSlots(l, k, s)
      PROVE  Inv'
  <2>1. CallOK'
    BY <1>5, SeedingCounts DEF AddCalendarSlots
  <2>2. OffersOK' /\ LocationsKept'
    BY <1>5 DEF Inv, AddCalendarSlots, SetKey, Remembers, OffersOK, LocationsKept
  <2>3. \A m \in Locations : \A j \in DOMAIN offers[m] :
          j \in DOMAIN offers'[m] /\ offers[m][j] \subseteq offers'[m][j]
    BY <1>5 DEF Inv, AddCalendarSlots, SetKey, Remembers, LocationsKept
  <2>4. BookedAsOffered'
    BY <1>5, <2>3, RecordsAreTyped DEF Inv, AddCalendarSlots, BookedAsOffered, Bookings
  <2> QED
    BY <1>5, <2>1, <2>2, <2>4, ZenonT(60) DEF AddCalendarSlots, Inv, RecordsOK, LaddersOK,
                                             RecordsNameTheirOwn, ContactsOf, StartsDiffer
<1> QED
  BY <1>1, <1>2, <1>3, <1>4, <1>5 DEF People

LEMMA StepKeeps == Inv /\ [Next]_vars => Inv'
<1> SUFFICES ASSUME Inv, [Next]_vars PROVE Inv'
  OBVIOUS
<1>1. ASSUME NEW l \in Locations, WindowPasses(l)
      PROVE  Inv'
  <2>1. CallOK' /\ UNCHANGED records
    BY <1>1, WorkspaceAssumption DEF WindowPasses, Inv, CallOK
  <2> QED
    BY <2>1, RecordsStay
<1>2. CASE UNCHANGED vars
  BY <1>2, RecordsStay DEF vars, Inv, CallOK
<1> QED
  BY <1>1, <1>2, CallKeeps, PeopleKeep DEF Next

-----------------------------------------------------------------------------
(* What a step may do.                                                     *)

\* The deals of a step are on the ladder, or they were as they are.
LEMMA FilingStaysOnTheLadder ==
  ASSUME Inv, NEW c \in Clients, NEW l \in Locations, NEW p \in Pipelines, NEW s \in Stages,
         NEW i \in 1..Len(contacts), CreateOpportunity(c, l, p, s, i),
         NEW d \in 1..Len(deals')
  PROVE  OnLadder(d)' \/ (d <= Len(deals) /\ deals'[d] = deals[d])
<1> DEFINE here == Target(c, l)
           answer == Filing(here, p, s, i)
           new == [location |-> here, pipeline |-> p, stage |-> s, contact |-> i]
<1>1. CASE Refuse(c, "create_opportunity", l, answer)
  BY <1>1 DEF Refuse, records, Inv, RecordsOK
<1>2. CASE /\ Accept(c, "create_opportunity", l, answer)
           /\ deals' = Append(deals, new)
           /\ UNCHANGED <<contacts, threads, bookings, ladders, offers, hooks>>
  <2>1. p \in DOMAIN ladders[here] /\ s \in ladders[here][p] /\ i \in ContactsOf(here)
    BY <1>2 DEF Accept, Filing
  <2>2. new \in Deals /\ new.location = here /\ new.pipeline = p /\ new.stage = s
    BY <2>1, TargetIsALocation DEF Deals
  <2> HIDE DEF new, answer
  <2>3. /\ Len(deals') = Len(deals) + 1 /\ Len(deals) \in Nat
        /\ deals'[Len(deals) + 1] = new
        /\ \A e \in 1..Len(deals) : deals'[e] = deals[e]
    BY <1>2, <2>2, AppendProperties DEF Inv, RecordsOK
  <2> QED
    BY <1>2, <2>1, <2>2, <2>3 DEF OnLadder
<1> QED
  BY <1>1, <1>2 DEF CreateOpportunity

LEMMA MovingStaysOnTheLadder ==
  ASSUME Inv, NEW c \in Clients, NEW l \in Locations, NEW m \in 1..Len(deals), NEW s \in Stages,
         MoveOpportunity(c, l, m, s), NEW d \in 1..Len(deals')
  PROVE  OnLadder(d)' \/ (d <= Len(deals) /\ deals'[d] = deals[d])
<1> DEFINE answer == Moving(Target(c, l), m, s)
           moved == [deals[m] EXCEPT !.stage = s]
<1>1. CASE Refuse(c, "move_opportunity", l, answer)
  BY <1>1 DEF Refuse, records, Inv, RecordsOK
<1>2. CASE /\ Accept(c, "move_opportunity", l, answer)
           /\ deals' = [deals EXCEPT ![m].stage = s]
           /\ UNCHANGED <<contacts, threads, bookings, ladders, offers, hooks>>
  <2>1. m \in DealsOf(Target(c, l)) /\ s \in ladders[Target(c, l)][deals[m].pipeline]
    BY <1>2 DEF Accept, Moving
  <2>2. deals[m] \in Deals /\ deals[m].location = Target(c, l)
    BY <2>1, RecordsAreTyped DEF DealsOf
  <2>3. /\ moved \in Deals /\ moved.stage = s
        /\ moved.pipeline = deals[m].pipeline /\ moved.location = deals[m].location
    BY <2>2 DEF Deals
  <2>4. deals' = [deals EXCEPT ![m] = moved]
    BY <1>2
  <2> HIDE DEF moved, answer
  <2>5. /\ Len(deals') = Len(deals) /\ Len(deals) \in Nat
        /\ \A e \in 1..Len(deals) : deals'[e] = IF e = m THEN moved ELSE deals[e]
    BY <2>3, <2>4, ExceptSeq DEF Inv, RecordsOK
  <2> QED
    BY <1>2, <2>1, <2>2, <2>3, <2>5 DEF OnLadder
<1> QED
  BY <1>1, <1>2 DEF MoveOpportunity

\* Only those two file; a replaced pipeline leaves its deals as they are.
LEMMA LadderStep ==
  ASSUME Inv, [Next]_vars, NEW d \in 1..Len(deals')
  PROVE  OnLadder(d)' \/ (d <= Len(deals) /\ deals'[d] = deals[d])
<1>1. CASE UNCHANGED deals
  BY <1>1 DEF Inv, RecordsOK
<1>2. ASSUME NEW c \in Clients, NEW l \in Locations, Call(c, l), ~UNCHANGED deals
      PROVE  \/ \E m \in 1..Len(deals), s \in Stages : MoveOpportunity(c, l, m, s)
             \/ \E i \in 1..Len(contacts), p \in Pipelines, s \in Stages :
                  CreateOpportunity(c, l, p, s, i)
  BY <1>2 DEF Call, Denied, Limited, Read, UpsertContact, BookAppointment, SendMessage,
              RegisterWebhook, Refuse, records
<1>3. ASSUME NEW l \in Locations, People(l) \/ WindowPasses(l)
      PROVE  UNCHANGED deals
  BY <1>3 DEF People, WindowPasses, SeedContact, SeedInbound, SetOptedOut, AddPipeline,
              AddCalendarSlots, records
<1>4. UNCHANGED vars => UNCHANGED deals
  BY DEF vars, records
<1> QED
  BY <1>1, <1>2, <1>3, <1>4, FilingStaysOnTheLadder, MovingStaysOnTheLadder DEF Next

-----------------------------------------------------------------------------
(* Whom a step touches.                                                    *)

\* Two records that hold the same of location m, at the same places.
Alike(s, t, m) ==
  \A i : /\ i \in 1..Len(t) /\ t[i].location = m <=> i \in 1..Len(s) /\ s[i].location = m
         /\ i \in 1..Len(s) /\ s[i].location = m => t[i] = s[i]

\* A record that gained an entry for another location.
LEMMA AppendedElsewhere ==
  ASSUME NEW S, NEW s \in Seq(S), NEW x \in S, NEW m, x.location # m, NEW t, t = Append(s, x)
  PROVE  Alike(s, t, m)
<1>1. /\ Len(t) = Len(s) + 1 /\ Len(s) \in Nat /\ t[Len(s) + 1] = x
      /\ \A i \in 1..Len(s) : t[i] = s[i]
  BY AppendProperties
<1> QED
  BY <1>1 DEF Alike

\* A record whose changed entries are of another location, before and after.
LEMMA ChangedElsewhere ==
  ASSUME NEW s, NEW t, NEW m, Len(t) = Len(s),
         \A i \in 1..Len(s) : t[i] = s[i] \/ (s[i].location # m /\ t[i].location # m)
  PROVE  Alike(s, t, m)
BY DEF Alike

LEMMA AlikeItself == ASSUME NEW s, NEW t, t = s, NEW m PROVE Alike(s, t, m)
BY DEF Alike

LEMMA HoldingsStay ==
  ASSUME NEW m \in Locations,
         Alike(contacts, contacts', m), Alike(threads, threads', m),
         Alike(deals, deals', m), Alike(bookings, bookings', m),
         ladders'[m] = ladders[m], offers'[m] = offers[m],
         hooks'[m] = hooks[m], used'[m] = used[m]
  PROVE  Holdings(m)' = Holdings(m)
<1>1. {<<i, contacts[i]>> : i \in ContactsOf(m)}' = {<<i, contacts[i]>> : i \in ContactsOf(m)}
  <2>1. ContactsOf(m)' = ContactsOf(m) /\ \A i \in ContactsOf(m) : contacts'[i] = contacts[i]
    BY DEF Alike, ContactsOf
  <2> QED
    BY <2>1
<1>2. {<<t, threads[t]>> : t \in ThreadsOf(m)}' = {<<t, threads[t]>> : t \in ThreadsOf(m)}
  <2>1. ThreadsOf(m)' = ThreadsOf(m) /\ \A t \in ThreadsOf(m) : threads'[t] = threads[t]
    BY DEF Alike, ThreadsOf
  <2> QED
    BY <2>1
<1>3. {<<d, deals[d]>> : d \in DealsOf(m)}' = {<<d, deals[d]>> : d \in DealsOf(m)}
  <2>1. DealsOf(m)' = DealsOf(m) /\ \A d \in DealsOf(m) : deals'[d] = deals[d]
    BY DEF Alike, DealsOf
  <2> QED
    BY <2>1
<1>4. {b \in 1..Len(bookings') : bookings'[b].location = m} =
        {b \in 1..Len(bookings) : bookings[b].location = m}
  BY DEF Alike
<1> QED
  BY <1>1, <1>2, <1>3, <1>4 DEF Holdings

\* The only threads a message goes into are its contact's, all of which are
\* of the contact's location.
LEMMA ThreadsElsewhere ==
  ASSUME Inv, NEW l \in Locations, NEW i \in ContactsOf(l), NEW direction \in {"in", "out"},
         AppendMessage(l, i, direction), NEW m \in Locations, m # l
  PROVE  Alike(threads, threads', m)
<1>1. CASE ThreadWith(i) = {}
  <2> DEFINE new == [location |-> l, contact |-> i, log |-> <<direction>>]
  <2>1. new \in Threads /\ new.location # m
    BY DEF Threads, ContactsOf
  <2>2. threads' = Append(threads, new) /\ threads \in Seq(Threads)
    BY <1>1 DEF AppendMessage, Inv, RecordsOK
  <2> HIDE DEF new
  <2> QED
    BY <2>1, <2>2, AppendedElsewhere
<1>2. CASE ThreadWith(i) # {}
  <2> DEFINE grown(t) == IF t \in ThreadWith(i)
                         THEN [threads[t] EXCEPT !.log = Append(@, direction)] ELSE threads[t]
  <2>1. threads' = [t \in 1..Len(threads) |-> grown(t)] /\ Len(threads) \in Nat
    BY <1>2 DEF AppendMessage, Inv, RecordsOK
  <2>2. ASSUME NEW t \in 1..Len(threads)
        PROVE  \/ grown(t) = threads[t]
               \/ threads[t].location # m /\ grown(t).location # m
    <3>1. threads[t] \in Threads
      BY RecordsAreTyped
    <3>2. CASE t \in ThreadWith(i)
      <4>1. threads[t].location = l
        BY <3>2 DEF Inv, RecordsNameTheirOwn, ThreadWith, ContactsOf
      <4> QED
        BY <3>1, <3>2, <4>1 DEF Threads
    <3> QED
      BY <3>2
  <2> HIDE DEF grown
  <2>3. Len(threads') = Len(threads)
    BY <2>1
  <2> QED
    BY <2>1, <2>2, <2>3, ChangedElsewhere
<1> QED
  BY <1>1, <1>2

LEMMA ContactsElsewhere ==
  ASSUME Inv, NEW l \in Locations, NEW p \in Persons, StoreContact(l, p),
         NEW m \in Locations, m # l
  PROVE  Alike(contacts, contacts', m)
<1>1. CASE contacts' = contacts
  BY <1>1, AlikeItself
<1>2. CASE contacts' = Append(contacts, [location |-> l, person |-> p, optedOut |-> FALSE])
  <2> DEFINE new == [location |-> l, person |-> p, optedOut |-> FALSE]
  <2>1. new \in Contacts /\ new.location # m /\ contacts \in Seq(Contacts)
    BY DEF Contacts, Inv, RecordsOK
  <2> HIDE DEF new
  <2> QED
    BY <1>2, <2>1, AppendedElsewhere DEF new
<1> QED
  BY <1>1, <1>2 DEF StoreContact

\* A call that its token covers runs in the token's location and is charged
\* there.
LEMMA AdmittedAtHome ==
  ASSUME Inv, NEW c \in Clients, NEW l \in Locations, NEW op, Admitted(c, op, l)
  PROVE  /\ Target(c, l) = TokenOf[c] /\ TokenOf[c] \in Locations
         /\ \A m \in Locations \ {TokenOf[c]} : used'[m] = used[m]
<1>1. Target(c, l) = TokenOf[c] /\ TokenOf[c] \in Locations
  BY WorkspaceAssumption DEF Admitted, Covers, Target, Inv, CallOK
<1> QED
  BY <1>1 DEF Admitted, Inv, CallOK

\* What a call may do to the locations of others.
Elsewhere(c) == \A m \in Locations \ {TokenOf[c]} : Holdings(m)' = Holdings(m)

LEMMA RefusedElsewhere ==
  ASSUME Inv, NEW c \in Clients, UNCHANGED records,
         \A m \in Locations \ {TokenOf[c]} : used'[m] = used[m]
  PROVE  Elsewhere(c)
BY AlikeItself, HoldingsStay DEF Elsewhere, records

LEMMA FilingElsewhere ==
  ASSUME Inv, NEW c \in Clients, NEW l \in Locations, NEW p \in Pipelines, NEW s \in Stages,
         NEW i \in 1..Len(contacts), CreateOpportunity(c, l, p, s, i)
  PROVE  Elsewhere(c)
<1> DEFINE here == Target(c, l)
           new == [location |-> here, pipeline |-> p, stage |-> s, contact |-> i]
<1>1. /\ here = TokenOf[c] /\ here \in Locations
      /\ \A m \in Locations \ {TokenOf[c]} : used'[m] = used[m]
  BY AdmittedAtHome DEF CreateOpportunity
<1>2. CASE UNCHANGED records
  BY <1>1, <1>2, RefusedElsewhere
<1>3. CASE /\ deals' = Append(deals, new)
           /\ UNCHANGED <<contacts, threads, bookings, ladders, offers, hooks>>
  <2> SUFFICES ASSUME NEW m \in Locations \ {TokenOf[c]} PROVE Holdings(m)' = Holdings(m)
    BY DEF Elsewhere
  <2>1. new \in Deals /\ new.location # m /\ deals \in Seq(Deals)
    BY <1>1, RecordsAreTyped DEF Deals, Inv, RecordsOK
  <2> HIDE DEF new
  <2>2. Alike(deals, deals', m)
    BY <1>3, <2>1, AppendedElsewhere
  <2> QED
    BY <1>1, <1>3, <2>2, AlikeItself, HoldingsStay
<1> QED
  BY <1>2, <1>3 DEF CreateOpportunity, Refuse

LEMMA MovingElsewhere ==
  ASSUME Inv, NEW c \in Clients, NEW l \in Locations, NEW d \in 1..Len(deals), NEW s \in Stages,
         MoveOpportunity(c, l, d, s)
  PROVE  Elsewhere(c)
<1> DEFINE here == Target(c, l)
           moved == [deals[d] EXCEPT !.stage = s]
<1>1. /\ here = TokenOf[c] /\ here \in Locations
      /\ \A m \in Locations \ {TokenOf[c]} : used'[m] = used[m]
  BY AdmittedAtHome DEF MoveOpportunity
<1>2. CASE UNCHANGED records
  BY <1>1, <1>2, RefusedElsewhere
<1>3. CASE /\ Accept(c, "move_opportunity", l, Moving(here, d, s))
           /\ deals' = [deals EXCEPT ![d].stage = s]
           /\ UNCHANGED <<contacts, threads, bookings, ladders, offers, hooks>>
  <2> SUFFICES ASSUME NEW m \in Locations \ {TokenOf[c]} PROVE Holdings(m)' = Holdings(m)
    BY DEF Elsewhere
  <2>1. d \in DealsOf(here)
    BY <1>3 DEF Accept, Moving
  <2>2. /\ deals[d] \in Deals /\ deals[d].location = here
        /\ moved \in Deals /\ moved.location = here
    BY <2>1, RecordsAreTyped DEF DealsOf, Deals
  <2>3. deals' = [deals EXCEPT ![d] = moved] /\ deals \in Seq(Deals)
    BY <1>3 DEF Inv, RecordsOK
  <2> HIDE DEF moved
  <2>4. /\ Len(deals') = Len(deals)
        /\ \A e \in 1..Len(deals) : deals'[e] = IF e = d THEN moved ELSE deals[e]
    BY <2>2, <2>3, ExceptSeq
  <2>5. Alike(deals, deals', m)
    BY <1>1, <2>2, <2>4, ChangedElsewhere
  <2> QED
    BY <1>1, <1>3, <2>5, AlikeItself, HoldingsStay
<1> QED
  BY <1>2, <1>3 DEF MoveOpportunity, Refuse

LEMMA BookingElsewhere ==
  ASSUME Inv, NEW c \in Clients, NEW l \in Locations, NEW k \in Calendars,
         NEW i \in 1..Len(contacts), NEW s \in Slots, BookAppointment(c, l, k, i, s)
  PROVE  Elsewhere(c)
<1> DEFINE here == Target(c, l)
           new == [location |-> here, calendar |-> k, contact |-> i, slot |-> s]
<1>1. /\ here = TokenOf[c] /\ here \in Locations
      /\ \A m \in Locations \ {TokenOf[c]} : used'[m] = used[m]
  BY AdmittedAtHome DEF BookAppointment
<1>2. CASE UNCHANGED records
  BY <1>1, <1>2, RefusedElsewhere
<1>3. CASE /\ bookings' = Append(bookings, new)
           /\ UNCHANGED <<contacts, threads, deals, ladders, offers, hooks>>
  <2> SUFFICES ASSUME NEW m \in Locations \ {TokenOf[c]} PROVE Holdings(m)' = Holdings(m)
    BY DEF Elsewhere
  <2>1. new \in Bookings /\ new.location # m /\ bookings \in Seq(Bookings)
    BY <1>1 DEF Bookings, Inv, RecordsOK
  <2> HIDE DEF new
  <2>2. Alike(bookings, bookings', m)
    BY <1>3, <2>1, AppendedElsewhere
  <2> QED
    BY <1>1, <1>3, <2>2, AlikeItself, HoldingsStay
<1> QED
  BY <1>2, <1>3 DEF BookAppointment, Refuse

LEMMA SendingElsewhere ==
  ASSUME Inv, NEW c \in Clients, NEW l \in Locations, NEW i \in 1..Len(contacts),
         SendMessage(c, l, i)
  PROVE  Elsewhere(c)
<1> DEFINE here == Target(c, l)
<1>1. /\ here = TokenOf[c] /\ here \in Locations
      /\ \A m \in Locations \ {TokenOf[c]} : used'[m] = used[m]
  BY AdmittedAtHome DEF SendMessage
<1>2. CASE UNCHANGED records
  BY <1>1, <1>2, RefusedElsewhere
<1>3. CASE /\ Accept(c, "send_message", l, Sending(here, i))
           /\ AppendMessage(here, i, "out")
           /\ UNCHANGED <<contacts, deals, bookings, ladders, offers, hooks>>
  <2> SUFFICES ASSUME NEW m \in Locations \ {TokenOf[c]} PROVE Holdings(m)' = Holdings(m)
    BY DEF Elsewhere
  <2>1. i \in ContactsOf(here)
    BY <1>3 DEF Accept, Sending
  <2>2. Alike(threads, threads', m)
    BY <1>1, <1>3, <2>1, ThreadsElsewhere
  <2> QED
    BY <1>1, <1>3, <2>2, AlikeItself, HoldingsStay
<1> QED
  BY <1>2, <1>3 DEF SendMessage, Refuse

LEMMA UpsertElsewhere ==
  ASSUME Inv, NEW c \in Clients, NEW l \in Locations, NEW p \in Persons \cup {None},
         UpsertContact(c, l, p)
  PROVE  Elsewhere(c)
<1> DEFINE here == Target(c, l)
<1>1. /\ here = TokenOf[c] /\ here \in Locations
      /\ \A m \in Locations \ {TokenOf[c]} : used'[m] = used[m]
  BY AdmittedAtHome DEF UpsertContact
<1>2. CASE UNCHANGED records
  BY <1>1, <1>2, RefusedElsewhere
<1>3. CASE /\ p # None /\ StoreContact(here, p)
           /\ UNCHANGED <<threads, deals, bookings, ladders, offers, hooks>>
  <2> SUFFICES ASSUME NEW m \in Locations \ {TokenOf[c]} PROVE Holdings(m)' = Holdings(m)
    BY DEF Elsewhere
  <2>1. Alike(contacts, contacts', m)
    BY <1>1, <1>3, ContactsElsewhere
  <2> QED
    BY <1>1, <1>3, <2>1, AlikeItself, HoldingsStay
<1> QED
  BY <1>2, <1>3 DEF UpsertContact, Refuse

LEMMA WebhookElsewhere ==
  ASSUME Inv, NEW c \in Clients, NEW l \in Locations, RegisterWebhook(c, l)
  PROVE  Elsewhere(c)
<1> DEFINE here == Target(c, l)
<1>1. CASE UNCHANGED <<records, used>>
  BY <1>1, RefusedElsewhere
<1>2. CASE /\ Admitted(c, "register_webhook", l)
           /\ hooks' = [hooks EXCEPT ![here] = @ + 1]
           /\ UNCHANGED <<contacts, threads, deals, bookings, ladders, offers>>
  <2>1. /\ here = TokenOf[c]
        /\ \A m \in Locations \ {TokenOf[c]} : used'[m] = used[m]
    BY <1>2, AdmittedAtHome
  <2>2. \A m \in Locations \ {TokenOf[c]} : hooks'[m] = hooks[m]
    BY <1>2, <2>1 DEF Inv
  <2> QED
    BY <1>2, <2>1, <2>2, AlikeItself, HoldingsStay DEF Elsewhere
<1> QED
  BY <1>1, <1>2 DEF RegisterWebhook

\* A reading call changes nothing and shows contacts of its own location.
LEMMA ReadStaysHome ==
  ASSUME Inv, NEW c \in Clients, NEW l \in Locations, Read(c, l)
  PROVE  Elsewhere(c) /\ last'.client = c /\ ShowsItsOwn'
<1> DEFINE here == Target(c, l)
           Reads == {GetContact(here, i) : i \in 1..Len(contacts)}
                      \cup {SearchContacts(here, p) : p \in Persons}
                      \cup {GetConversation(here, t) : t \in 1..Len(threads)}
                      \cup {FreeSlots(here, k) : k \in Calendars}
                      \cup {ListPipelines}
<1>1. PICK r \in Reads : /\ Admitted(c, r.op, l)
                         /\ Answered(c, r.op, l, r.answer, r.shown)
                         /\ UNCHANGED <<records, writes>>
  BY DEF Read
<1>2. /\ here = TokenOf[c]
      /\ \A m \in Locations \ {TokenOf[c]} : used'[m] = used[m]
  BY <1>1, AdmittedAtHome
<1>3. \A t \in ThreadsOf(here) : threads[t].contact \in ContactsOf(here)
  BY DEF Inv, RecordsNameTheirOwn, ThreadsOf
<1>4. r.shown \subseteq ContactsOf(here)
  BY <1>3 DEF GetContact, SearchContacts, GetConversation, FreeSlots, ListPipelines, Known
<1>5. last'.client = c /\ last'.shown = r.shown
  BY <1>1 DEF Answered
<1>6. ShowsItsOwn'
  BY <1>1, <1>2, <1>4, <1>5 DEF ShowsItsOwn, records, ContactsOf
<1> QED
  BY <1>1, <1>2, <1>5, <1>6, RefusedElsewhere

LEMMA CallStaysHome ==
  ASSUME Inv, NEW c \in Clients, NEW l \in Locations, Call(c, l)
  PROVE  Elsewhere(c) /\ last'.client = c /\ ShowsItsOwn'
<1>1. ASSUME last'.client = c, last'.shown = {} PROVE ShowsItsOwn'
  BY <1>1 DEF ShowsItsOwn
<1>2. ASSUME NEW op, Denied(c, op, l) \/ Limited(c, op, l)
      PROVE  Elsewhere(c) /\ last'.client = c /\ last'.shown = {}
  BY <1>2, RefusedElsewhere DEF Denied, Limited, Answered
<1>3. ASSUME NEW op, NEW answer, Refuse(c, op, l, answer) \/ Accept(c, op, l, answer)
      PROVE  last'.client = c /\ last'.shown = {}
  BY <1>3 DEF Refuse, Accept, Answered
<1>4. ASSUME NEW p \in Persons \cup {None}, UpsertContact(c, l, p)
      PROVE  Elsewhere(c) /\ last'.client = c /\ last'.shown = {}
  BY <1>3, <1>4, UpsertElsewhere DEF UpsertContact
<1>5. ASSUME NEW i \in 1..Len(contacts), NEW p \in Pipelines, NEW s \in Stages,
             CreateOpportunity(c, l, p, s, i)
      PROVE  Elsewhere(c) /\ last'.client = c /\ last'.shown = {}
  BY <1>3, <1>5, FilingElsewhere DEF CreateOpportunity
<1>6. ASSUME NEW i \in 1..Len(contacts), NEW k \in Calendars, NEW s \in Slots,
             BookAppointment(c, l, k, i, s)
      PROVE  Elsewhere(c) /\ last'.client = c /\ last'.shown = {}
  BY <1>3, <1>6, BookingElsewhere DEF BookAppointment
<1>7. ASSUME NEW i \in 1..Len(contacts), SendMessage(c, l, i)
      PROVE  Elsewhere(c) /\ last'.client = c /\ last'.shown = {}
  BY <1>3, <1>7, SendingElsewhere DEF SendMessage
<1>8. ASSUME NEW d \in 1..Len(deals), NEW s \in Stages, MoveOpportunity(c, l, d, s)
      PROVE  Elsewhere(c) /\ last'.client = c /\ last'.shown = {}
  BY <1>3, <1>8, MovingElsewhere DEF MoveOpportunity
<1>9. ASSUME RegisterWebhook(c, l)
      PROVE  Elsewhere(c) /\ last'.client = c /\ last'.shown = {}
  BY <1>3, <1>9, WebhookElsewhere DEF RegisterWebhook, Answered
<1> QED
  BY <1>1, <1>2, <1>4, <1>5, <1>6, <1>7, <1>8, <1>9, ReadStaysHome DEF Call

LEMMA SeedingsHaveNoClient ==
  ASSUME NEW l \in Locations, People(l) \/ WindowPasses(l)
  PROVE  last' = NoCall
BY DEF People, WindowPasses, Seed, SeedContact, SeedInbound, SetOptedOut, AddPipeline,
       AddCalendarSlots

-----------------------------------------------------------------------------
(* Who hears what.                                                         *)

\* Entry n of thread t is a message out to contact i.
IsHeard(i, t, n) ==
  /\ t \in 1..Len(threads) /\ n \in 1..MaxWrites
  /\ threads[t].contact = i /\ n <= Len(threads[t].log) /\ threads[t].log[n] = "out"

LEMMA HeardIs ==
  ASSUME NEW i
  PROVE  /\ Heard(i) = {x \in Nat \X Nat : IsHeard(i, x[1], x[2])}
         /\ Heard(i)' = {x \in Nat \X Nat : IsHeard(i, x[1], x[2])'}
<1>1. Heard(i) = {x \in Nat \X Nat : IsHeard(i, x[1], x[2])}
  BY DEF Heard, IsHeard
<1>2. Heard(i)' = {x \in Nat \X Nat : IsHeard(i, x[1], x[2])'}
  BY DEF Heard, IsHeard
<1> QED
  BY <1>1, <1>2

\* A message to somebody else, or one that comes in, is not heard.
LEMMA NothingIsHeard ==
  ASSUME Inv, NEW l \in Locations, NEW j \in ContactsOf(l), NEW direction \in {"in", "out"},
         AppendMessage(l, j, direction), NEW i, i # j \/ direction = "in"
  PROVE  Heard(i)' = Heard(i)
<1> SUFFICES ASSUME NEW t \in Nat, NEW n \in Nat
             PROVE  IsHeard(i, t, n)' <=> IsHeard(i, t, n)
  BY HeardIs
<1>1. MaxWrites \in Nat /\ Len(threads) \in Nat /\ threads \in Seq(Threads)
  BY WorkspaceAssumption DEF Inv, RecordsOK
<1>2. CASE ThreadWith(j) = {}
  <2> DEFINE new == [location |-> l, contact |-> j, log |-> <<direction>>]
  <2>1. new \in Threads
    BY DEF Threads, ContactsOf
  <2>2. threads' = Append(threads, new)
    BY <1>2 DEF AppendMessage
  <2>3. new.contact = j /\ Len(new.log) = 1 /\ new.log[1] = direction
    OBVIOUS
  <2> HIDE DEF new
  <2>4. /\ Len(threads') = Len(threads) + 1 /\ threads'[Len(threads) + 1] = new
        /\ \A u \in 1..Len(threads) : threads'[u] = threads[u]
    BY <1>1, <2>1, <2>2, AppendProperties
  <2>5. CASE t = Len(threads) + 1
    <3>1. ~IsHeard(i, t, n)
      BY <1>1, <2>5 DEF IsHeard
    <3>2. threads'[t] = new
      BY <2>4, <2>5
    <3>3. ~IsHeard(i, t, n)'
      BY <1>1, <2>3, <3>2 DEF IsHeard
    <3> QED
      BY <3>1, <3>3
  <2>6. CASE t # Len(threads) + 1
    <3>1. t \in 1..Len(threads') <=> t \in 1..Len(threads)
      BY <1>1, <2>4, <2>6
    <3>2. t \in 1..Len(threads) => threads'[t] = threads[t]
      BY <2>4
    <3> QED
      BY <3>1, <3>2 DEF IsHeard
  <2> QED
    BY <2>5, <2>6
<1>3. CASE ThreadWith(j) # {}
  <2> DEFINE grown(u) == IF u \in ThreadWith(j)
                         THEN [threads[u] EXCEPT !.log = Append(@, direction)] ELSE threads[u]
  <2>1. threads' = [u \in 1..Len(threads) |-> grown(u)]
    BY <1>3 DEF AppendMessage
  <2>2. Len(threads') = Len(threads)
    BY <1>1, <2>1
  <2>3. CASE t \notin 1..Len(threads)
    BY <2>2, <2>3 DEF IsHeard
  <2>4. CASE t \in 1..Len(threads) /\ t \notin ThreadWith(j)
    <3>1. threads'[t] = threads[t]
      BY <2>1, <2>4
    <3> QED
      BY <2>2, <3>1 DEF IsHeard
  <2>5. CASE t \in 1..Len(threads) /\ t \in ThreadWith(j)
    <3> DEFINE log == threads[t].log
               longer == Append(log, direction)
    <3>1. threads[t] \in Threads /\ threads[t].contact = j
      BY <2>5, RecordsAreTyped DEF ThreadWith
    <3>2. log \in Seq({"in", "out"})
      BY <3>1 DEF Threads
    <3>3. threads'[t].contact = j /\ threads'[t].log = longer
      BY <2>1, <2>5, <3>1 DEF Threads
    <3> HIDE DEF log
    <3>4. /\ Len(longer) = Len(log) + 1 /\ longer[Len(log) + 1] = direction
          /\ \A k \in 1..Len(log) : longer[k] = log[k]
          /\ Len(log) \in Nat
      BY <3>2, AppendProperties
    <3> HIDE DEF longer
    <3>5. CASE i # j
      BY <3>1, <3>3, <3>5 DEF IsHeard
    <3>6. CASE i = j /\ direction = "in"
      <4>1. n \in 1..MaxWrites /\ n <= Len(longer) /\ longer[n] = "out"
              <=> n \in 1..MaxWrites /\ n <= Len(log) /\ log[n] = "out"
        BY <1>1, <3>4, <3>6
      <4>2. IsHeard(i, t, n) <=> n \in 1..MaxWrites /\ n <= Len(log) /\ log[n] = "out"
        BY <2>5, <3>1, <3>6 DEF IsHeard, log
      <4>3. IsHeard(i, t, n)' <=> n \in 1..MaxWrites /\ n <= Len(longer) /\ longer[n] = "out"
        BY <2>2, <2>5, <3>3, <3>6 DEF IsHeard
      <4> QED
        BY <4>1, <4>2, <4>3
    <3> QED
      BY <3>5, <3>6
  <2> QED
    BY <2>3, <2>4, <2>5
<1> QED
  BY <1>2, <1>3

\* A call writes threads only by sending, to a contact that did not opt out,
\* and contacts only by storing one, which keeps the flags.
LEMMA CallRespectsOptOut ==
  ASSUME Inv, NEW c \in Clients, NEW l \in Locations, Call(c, l),
         NEW i \in 1..Len(contacts), contacts[i].optedOut
  PROVE  Heard(i)' = Heard(i) /\ contacts'[i] = contacts[i]
<1>1. UNCHANGED threads => Heard(i)' = Heard(i)
  BY DEF Heard
<1>2. ASSUME NEW p \in Persons \cup {None}, UpsertContact(c, l, p)
      PROVE  UNCHANGED threads /\ contacts'[i] = contacts[i]
  <2>1. CASE UNCHANGED records
    BY <2>1 DEF records
  <2>2. CASE /\ p # None /\ StoreContact(Target(c, l), p)
             /\ UNCHANGED <<threads, deals, bookings, ladders, offers, hooks>>
    <3> DEFINE new == [location |-> Target(c, l), person |-> p, optedOut |-> FALSE]
    <3>1. new \in Contacts /\ contacts \in Seq(Contacts)
      BY <2>2, TargetIsALocation DEF Contacts, Inv, RecordsOK
    <3> HIDE DEF new
    <3>2. contacts' = contacts \/ contacts' = Append(contacts, new)
      BY <2>2 DEF StoreContact, new
    <3> QED
      BY <2>2, <3>1, <3>2, AppendProperties
  <2> QED
    BY <1>2, <2>1, <2>2 DEF UpsertContact, Refuse
<1>3. ASSUME NEW j \in 1..Len(contacts), SendMessage(c, l, j)
      PROVE  Heard(i)' = Heard(i) /\ contacts'[i] = contacts[i]
  <2>1. CASE UNCHANGED records
    BY <1>1, <2>1 DEF records
  <2>2. CASE /\ Accept(c, "send_message", l, Sending(Target(c, l), j))
             /\ AppendMessage(Target(c, l), j, "out")
             /\ UNCHANGED <<contacts, deals, bookings, ladders, offers, hooks>>
    <3>1. j \in ContactsOf(Target(c, l)) /\ ~contacts[j].optedOut
      BY <2>2 DEF Accept, Sending
    <3>2. Target(c, l) \in Locations /\ i # j
      BY <3>1, TargetIsALocation
    <3> QED
      BY <2>2, <3>1, <3>2, NothingIsHeard
  <2> QED
    BY <1>3, <2>1, <2>2 DEF SendMessage, Refuse
<1>4. \/ \E p \in Persons \cup {None} : UpsertContact(c, l, p)
      \/ \E j \in 1..Len(contacts) : SendMessage(c, l, j)
      \/ UNCHANGED <<threads, contacts>>
  BY DEF Call, Denied, Limited, Read, CreateOpportunity, BookAppointment, MoveOpportunity,
         RegisterWebhook, Refuse, records
<1> QED
  BY <1>1, <1>2, <1>3, <1>4

LEMMA PeopleRespectOptOut ==
  ASSUME Inv, NEW l \in Locations, People(l), NEW i \in 1..Len(contacts)
  PROVE  Heard(i)' = Heard(i)
<1>1. UNCHANGED threads => Heard(i)' = Heard(i)
  BY DEF Heard
<1>2. ASSUME NEW j \in ContactsOf(l), SeedInbound(l, j) PROVE Heard(i)' = Heard(i)
  BY <1>2, NothingIsHeard DEF SeedInbound
<1> QED
  BY <1>1, <1>2 DEF People, SeedContact, SetOptedOut, AddPipeline, AddCalendarSlots

-----------------------------------------------------------------------------
LEMMA Invariant == Spec => []Inv
BY Initially, StepKeeps, PTL DEF Spec

\* FakeHighLevel keeps its types: the quota of _charge is never passed, and no
\* call ends but by an answer of the port.
THEOREM WorkspaceTyped == Spec => []TypeOK
BY Invariant, InvGivesTypes, PTL

\* Whatever ids its callers hold and whichever port they call through, the
\* platform never writes a record that names a contact of another location.
THEOREM OwnRecordsOnly == Spec => []RecordsNameTheirOwn
<1>1. Inv => RecordsNameTheirOwn
  BY DEF Inv
<1> QED
  BY <1>1, Invariant, PTL

\* book_appointment compares starts only; that is enough for any calendar whose
\* offered slots do not overlap, and no two bookings ever share a start.
THEOREM NoStartBookedTwice == Spec => []NoDoubleBooking
BY Invariant, InvGivesBookings, PTL

\* create_opportunity and move_opportunity check the stage against the ladder
\* there is, whatever stage map their caller remembers.
THEOREM StagesAreChecked == Spec => NothingFiledOffTheLadder
<1>1. Inv /\ [Next]_vars =>
        [\A d \in 1..MaxWrites : d <= Len(deals') =>
           OnLadder(d)' \/ (d <= Len(deals) /\ deals'[d] = deals[d])]_vars
  <2> SUFFICES ASSUME Inv, [Next]_vars, NEW d \in 1..MaxWrites, d <= Len(deals')
               PROVE  OnLadder(d)' \/ (d <= Len(deals) /\ deals'[d] = deals[d])
    OBVIOUS
  <2>1. Inv'
    BY StepKeeps
  <2>2. Len(deals') \in Nat /\ MaxWrites \in Nat
    BY <2>1, WorkspaceAssumption DEF Inv, RecordsOK
  <2> QED
    BY <2>2, LadderStep
<1> QED
  BY <1>1, Invariant, PTL DEF Spec, NothingFiledOffTheLadder

\* A token reaches its own location and no other: whatever location its holder
\* names and whatever ids it knows, through either port its call changes
\* nothing of another location, shows nobody there, and charges its quota to
\* nobody else (_require_scope before _charge, LiveHighLevel's own location).
THEOREM TokensStayHome == Spec => TokensStayInTheirLocation
<1>1. Inv /\ [Next]_vars =>
        [last'.client # None =>
           /\ \A l \in Locations \ {TokenOf[last'.client]} : Holdings(l)' = Holdings(l)
           /\ ShowsItsOwn']_vars
  <2> SUFFICES ASSUME Inv, Next, last'.client # None
               PROVE  /\ \A l \in Locations \ {TokenOf[last'.client]} : Holdings(l)' = Holdings(l)
                      /\ ShowsItsOwn'
    OBVIOUS
  <2>1. PICK c \in Clients, l \in Locations : Call(c, l)
    BY SeedingsHaveNoClient DEF Next, NoCall
  <2> QED
    BY <2>1, CallStaysHome DEF Elsewhere
<1> QED
  BY <1>1, Invariant, PTL DEF Spec, TokensStayInTheirLocation

\* A contact that opted out is sent nothing, over either port, until a person
\* lifts the flag; _store_contact keeps it through every merge.
THEOREM OptOutIsRespected == Spec => OptOutHolds
<1>1. Inv /\ [Next]_vars =>
        [\A i \in 1..Len(contacts) : contacts[i].optedOut =>
           /\ Heard(i)' = Heard(i)
           /\ contacts'[i].optedOut \/ last'.client = None]_vars
  <2> SUFFICES ASSUME Inv, Next, NEW i \in 1..Len(contacts), contacts[i].optedOut
               PROVE  Heard(i)' = Heard(i) /\ (contacts'[i].optedOut \/ last'.client = None)
    OBVIOUS
  <2>1. ASSUME NEW c \in Clients, NEW l \in Locations, Call(c, l)
        PROVE  Heard(i)' = Heard(i) /\ contacts'[i].optedOut
    BY <2>1, CallRespectsOptOut
  <2>2. ASSUME NEW l \in Locations, People(l) \/ WindowPasses(l)
        PROVE  Heard(i)' = Heard(i) /\ last'.client = None
    <3>1. last'.client = None
      BY <2>2, SeedingsHaveNoClient DEF NoCall
    <3>2. WindowPasses(l) => Heard(i)' = Heard(i)
      BY DEF WindowPasses, records, Heard
    <3> QED
      BY <2>2, <3>1, <3>2, PeopleRespectOptOut
  <2> QED
    BY <2>1, <2>2 DEF Next
<1> QED
  BY <1>1, Invariant, PTL DEF Spec, OptOutHolds
=============================================================================
