----------------------------- MODULE Workspace -----------------------------
(***************************************************************************)
(* The platform behind the port: FakeHighLevel with its seeding methods,   *)
(* and the port a token holder calls, either the fake's _ScopedPort or     *)
(* LiveHighLevel in front of the real platform, which is taken to behave   *)
(* as the fake does inside the token's location and to answer 403 to a     *)
(* request that names another one.                                         *)
(*                                                                         *)
(* A call is one step: scope, then quota, then the operation.  A contact's *)
(* key is a person; LeadLane models the two keys of the dedupe.            *)
(***************************************************************************)
EXTENDS Naturals, Sequences, KeyStore

CONSTANTS
  Locations, Clients,
  TokenOf,      \* [Clients -> Locations]: the sub-account of each token
  Persons, Pipelines, Stages, Calendars,
  Slots,        \* records [start, end]: intervals somebody may offer or ask for
  Equipped,     \* the locations that have their pipelines and calendars already
  Ladder,       \* the stages of those pipelines
  Offer,        \* the slots of those calendars
  Quota,        \* calls per window and location
  MaxWrites,    \* bound: steps that change what the workspace holds
  None          \* no email and no phone; no client

ASSUME WorkspaceAssumption ==
  /\ TokenOf \in [Clients -> Locations]
  /\ Slots \subseteq [start : Nat, end : Nat]
  /\ Equipped \subseteq Locations /\ Ladder \subseteq Stages /\ Offer \subseteq Slots
  /\ Quota \in Nat \ {0} /\ MaxWrites \in Nat
  /\ None \notin Persons \cup Clients \cup Locations

VARIABLES
  port,       \* [Clients -> {"fake", "live"}]: the implementation each calls
  contacts,   \* all contacts by id: the id counter is the server's
  threads,    \* conversations by id
  deals,      \* opportunities by id
  bookings,   \* appointments by id
  ladders,    \* for each location, pipeline id -> its stages
  offers,     \* for each location, calendar id -> offered slots
  hooks,      \* [Locations -> Nat]: webhook registrations
  used,       \* [Locations -> Nat]: calls charged in the current window
  last,       \* the last call, its answer and the contacts it showed
  writes      \* what the bound is on

records == <<contacts, threads, deals, bookings, ladders, offers, hooks>>
vars == <<port, records, used, last, writes>>

ReadOps  == {"get_contact", "search_contacts", "list_pipelines",
             "get_conversation", "free_slots"}
WriteOps == {"upsert_contact", "create_opportunity", "move_opportunity",
             "send_message", "book_appointment", "register_webhook"}
Answers  == {"ok", "CrossLocationDenied", "RateLimited", "NotFound",
             "StageNotInPipeline", "SlotTaken", "InvalidRequest", "NotImplemented"}

NoCall == [client |-> None, op |-> None, asked |-> None, answer |-> None, shown |-> {}]

Init ==
  /\ port \in [Clients -> {"fake", "live"}]
  /\ contacts = <<>> /\ threads = <<>> /\ deals = <<>> /\ bookings = <<>>
  /\ ladders = [l \in Locations |-> IF l \in Equipped THEN [p \in Pipelines |-> Ladder] ELSE EmptyStore]
  /\ offers = [l \in Locations |-> IF l \in Equipped THEN [k \in Calendars |-> Offer] ELSE EmptyStore]
  /\ hooks = [l \in Locations |-> 0]
  /\ used = [l \in Locations |-> 0]
  /\ last = NoCall
  /\ writes = 0
-----------------------------------------------------------------------------
(* What one location holds.                                                *)
ContactsOf(l) == {i \in 1..Len(contacts) : contacts[i].location = l}
DealsOf(l)    == {i \in 1..Len(deals) : deals[i].location = l}
ThreadsOf(l)  == {i \in 1..Len(threads) : threads[i].location = l}
BookedAt(l, k) == {b \in 1..Len(bookings) : bookings[b].location = l /\ bookings[b].calendar = k}

\* One write more: the named parts change, the rest of the records do not.
Writes == writes < MaxWrites /\ writes' = writes + 1

\* Who has this key in the location, as a set of at most one.
Known(l, p) == {i \in ContactsOf(l) : contacts[i].person = p}

\* Mutant: the merged record is built anew and its flags start over.
StoreAnew(l, p) ==
  contacts' =
    IF Known(l, p) # {}
    THEN [i \in 1..Len(contacts) |->
            IF i \in Known(l, p) THEN [contacts[i] EXCEPT !.optedOut = FALSE] ELSE contacts[i]]
    ELSE Append(contacts, [location |-> l, person |-> p, optedOut |-> FALSE])

\* _store_contact: a merge keeps the record and its opt-out flag.
StoreContact(l, p) ==
  contacts' = IF Known(l, p) # {} THEN contacts
              ELSE Append(contacts, [location |-> l, person |-> p, optedOut |-> FALSE])

ThreadWith(i) == {t \in 1..Len(threads) : threads[t].contact = i}

\* _append_message: one conversation per contact, opened on first use.
AppendMessage(l, i, direction) ==
  threads' = IF ThreadWith(i) = {}
             THEN Append(threads, [location |-> l, contact |-> i, log |-> <<direction>>])
             ELSE [t \in 1..Len(threads) |->
                     IF t \in ThreadWith(i)
                     THEN [threads[t] EXCEPT !.log = Append(@, direction)] ELSE threads[t]]
-----------------------------------------------------------------------------
(* Scope and quota.                                                        *)

\* LiveHighLevel: the requests that carry the location to the platform.
CarriesLocation ==
  {"upsert_contact", "search_contacts", "list_pipelines",
   "create_opportunity", "book_appointment"}

\* The fake compares the locations itself, the live port leaves it to the
\* platform, which can only compare what it is told.
Covers(c, op, l) ==
  l = TokenOf[c] \/ (port[c] = "live" /\ op \notin CarriesLocation)

\* Where the call is executed: the fake goes by the argument, the platform
\* by the token.
Target(c, l) == IF port[c] = "fake" THEN l ELSE TokenOf[c]

Answered(c, op, l, answer, shown) ==
  last' = [client |-> c, op |-> op, asked |-> l, answer |-> answer, shown |-> shown]

\* Mutant: the quota is charged before the scope is looked at.
DeniedAndCharged(c, op, l) ==
  /\ ~Covers(c, op, l)
  /\ used[l] < Quota /\ used' = [used EXCEPT ![l] = @ + 1]
  /\ Answered(c, op, l, "CrossLocationDenied", {})
  /\ UNCHANGED <<port, records, writes>>

Denied(c, op, l) ==
  /\ ~Covers(c, op, l)
  /\ Answered(c, op, l, "CrossLocationDenied", {})
  /\ UNCHANGED <<port, records, used, writes>>

\* LiveHighLevel.register_webhook raises before any request.
Unsupported(c, op) == port[c] = "live" /\ op = "register_webhook"

\* _charge; its window and day are Pacing's matter.
Limited(c, op, l) ==
  /\ Covers(c, op, l) /\ ~Unsupported(c, op) /\ used[Target(c, l)] = Quota
  /\ Answered(c, op, l, "RateLimited", {})
  /\ UNCHANGED <<port, records, used, writes>>

\* Mutant: the limit itself is still admitted.
AdmitOneMore(c, op, l) ==
  /\ Covers(c, op, l) /\ used[Target(c, l)] <= Quota
  /\ used' = [used EXCEPT ![Target(c, l)] = @ + 1]
  /\ UNCHANGED port

\* A call is charged whatever the operation then answers.
Admitted(c, op, l) ==
  /\ Covers(c, op, l) /\ used[Target(c, l)] < Quota
  /\ used' = [used EXCEPT ![Target(c, l)] = @ + 1]
  /\ UNCHANGED port

\* The live port tells five refusals apart by status (401, 403, 404, 422 and
\* 429).  A stale stage and a taken slot have none of their own; they are
\* taken to be 422.
As(c, answer) ==
  IF port[c] = "live" /\ answer \in {"StageNotInPipeline", "SlotTaken"}
  THEN "InvalidRequest" ELSE answer

\* The end of a writing call: its answer, and an effect only if that is ok.
Refuse(c, op, l, answer) ==
  /\ answer # "ok"
  /\ Answered(c, op, l, As(c, answer), {})
  /\ UNCHANGED <<records, writes>>

Accept(c, op, l, answer) ==
  /\ answer = "ok" /\ Writes
  /\ Answered(c, op, l, "ok", {})
-----------------------------------------------------------------------------
(* The port's operations.                                                  *)

GetContact(here, i) ==
  [op |-> "get_contact", shown |-> {i} \cap ContactsOf(here),
   answer |-> IF i \in ContactsOf(here) THEN "ok" ELSE "NotFound"]

SearchContacts(here, p) ==
  [op |-> "search_contacts", shown |-> Known(here, p), answer |-> "ok"]

GetConversation(here, t) ==
  [op |-> "get_conversation",
   shown |-> {threads[x].contact : x \in {t} \cap ThreadsOf(here)},
   answer |-> IF t \in ThreadsOf(here) THEN "ok" ELSE "NotFound"]

\* list_pipelines and free_slots name no contact.
ListPipelines == [op |-> "list_pipelines", shown |-> {}, answer |-> "ok"]
FreeSlots(here, k) ==
  [op |-> "free_slots", shown |-> {},
   answer |-> IF Remembers(offers[here], k) THEN "ok" ELSE "NotFound"]

Read(c, l) ==
  LET here == Target(c, l) IN
  \E r \in {GetContact(here, i) : i \in 1..Len(contacts)}
        \cup {SearchContacts(here, p) : p \in Persons}
        \cup {GetConversation(here, t) : t \in 1..Len(threads)}
        \cup {FreeSlots(here, k) : k \in Calendars}
        \cup {ListPipelines} :
    /\ Admitted(c, r.op, l)
    /\ Answered(c, r.op, l, r.answer, r.shown)
    /\ UNCHANGED <<records, writes>>

UpsertContact(c, l, p) ==
  /\ Admitted(c, "upsert_contact", l)
  /\ \/ Refuse(c, "upsert_contact", l, IF p = None THEN "InvalidRequest" ELSE "ok")
     \/ /\ p # None /\ Accept(c, "upsert_contact", l, "ok")
        /\ StoreContact(Target(c, l), p)
        /\ UNCHANGED <<threads, deals, bookings, ladders, offers, hooks>>

\* Mutant: any contact of the server will do.
FilingAnybody(here, p, s, i) ==
  CASE p \notin DOMAIN ladders[here] -> "NotFound"
    [] p \in DOMAIN ladders[here] /\ s \notin ladders[here][p] -> "StageNotInPipeline"
    [] OTHER -> "ok"

Filing(here, p, s, i) ==
  IF p \notin DOMAIN ladders[here] THEN "NotFound"
  ELSE IF s \notin ladders[here][p] THEN "StageNotInPipeline"
  ELSE IF i \notin ContactsOf(here) THEN "NotFound" ELSE "ok"

CreateOpportunity(c, l, p, s, i) ==
  LET here == Target(c, l)
      answer == Filing(here, p, s, i) IN
  /\ Admitted(c, "create_opportunity", l)
  /\ \/ Refuse(c, "create_opportunity", l, answer)
     \/ /\ Accept(c, "create_opportunity", l, answer)
        /\ deals' = Append(deals, [location |-> here, pipeline |-> p, stage |-> s, contact |-> i])
        /\ UNCHANGED <<contacts, threads, bookings, ladders, offers, hooks>>

\* Mutant: the stage map of the caller is trusted.
MovingAnywhere(here, d, s) == IF d \notin DealsOf(here) THEN "NotFound" ELSE "ok"

Moving(here, d, s) ==
  IF d \notin DealsOf(here) THEN "NotFound"
  ELSE IF s \notin ladders[here][deals[d].pipeline] THEN "StageNotInPipeline" ELSE "ok"

MoveOpportunity(c, l, d, s) ==
  LET answer == Moving(Target(c, l), d, s) IN
  /\ Admitted(c, "move_opportunity", l)
  /\ \/ Refuse(c, "move_opportunity", l, answer)
     \/ /\ Accept(c, "move_opportunity", l, answer)
        /\ deals' = [deals EXCEPT ![d].stage = s]
        /\ UNCHANGED <<contacts, threads, bookings, ladders, offers, hooks>>

Sending(here, i) ==
  IF i \notin ContactsOf(here) THEN "NotFound"
  ELSE IF contacts[i].optedOut THEN "InvalidRequest" ELSE "ok"

SendMessage(c, l, i) ==
  LET here == Target(c, l)
      answer == Sending(here, i) IN
  /\ Admitted(c, "send_message", l)
  /\ \/ Refuse(c, "send_message", l, answer)
     \/ /\ Accept(c, "send_message", l, answer)
        /\ AppendMessage(here, i, "out")
        /\ UNCHANGED <<contacts, deals, bookings, ladders, offers, hooks>>

\* Mutant: a slot is taken only if the very same interval is booked.
TakenWhole(here, k, s) == \E b \in BookedAt(here, k) : bookings[b].slot = s

Taken(here, k, s) == \E b \in BookedAt(here, k) : bookings[b].slot.start = s.start

Booking(here, k, i, s) ==
  IF k \notin DOMAIN offers[here] THEN "NotFound"
  ELSE IF i \notin ContactsOf(here) THEN "NotFound"
  ELSE IF s \notin offers[here][k] THEN "InvalidRequest"
  ELSE IF Taken(here, k, s) THEN "SlotTaken" ELSE "ok"

BookAppointment(c, l, k, i, s) ==
  LET here == Target(c, l)
      answer == Booking(here, k, i, s) IN
  /\ Admitted(c, "book_appointment", l)
  /\ \/ Refuse(c, "book_appointment", l, answer)
     \/ /\ Accept(c, "book_appointment", l, answer)
        /\ bookings' = Append(bookings,
             [location |-> here, calendar |-> k, contact |-> i, slot |-> s])
        /\ UNCHANGED <<contacts, threads, deals, ladders, offers, hooks>>

RegisterWebhook(c, l) ==
  \/ /\ ~Unsupported(c, "register_webhook") /\ Admitted(c, "register_webhook", l)
     /\ Accept(c, "register_webhook", l, "ok")
     /\ hooks' = [hooks EXCEPT ![Target(c, l)] = @ + 1]
     /\ UNCHANGED <<contacts, threads, deals, bookings, ladders, offers>>
  \/ /\ Unsupported(c, "register_webhook")
     /\ Answered(c, "register_webhook", l, "NotImplemented", {})
     /\ UNCHANGED <<port, records, used, writes>>
-----------------------------------------------------------------------------
(* People, other automations and the operators of the workspace: no token. *)
Seed == Writes /\ last' = NoCall /\ UNCHANGED <<port, used>>

SeedContact(l, p) ==
  /\ Seed /\ StoreContact(l, p)
  /\ UNCHANGED <<threads, deals, bookings, ladders, offers, hooks>>

SeedInbound(l, i) ==
  /\ Seed /\ AppendMessage(l, i, "in")
  /\ UNCHANGED <<contacts, deals, bookings, ladders, offers, hooks>>

SetOptedOut(i, flag) ==
  /\ Seed /\ contacts' = [contacts EXCEPT ![i].optedOut = flag]
  /\ UNCHANGED <<threads, deals, bookings, ladders, offers, hooks>>

\* A pipeline of the same id is replaced, deals and all left as they are.
AddPipeline(l, p, stages) ==
  /\ Seed /\ ladders' = [ladders EXCEPT ![l] = SetKey(@, p, stages)]
  /\ UNCHANGED <<contacts, threads, deals, bookings, offers, hooks>>

\* New slots are added to the old ones, overlapping or not.
AddCalendarSlots(l, k, s) ==
  /\ Seed
  /\ offers' = [offers EXCEPT ![l] =
       SetKey(@, k, {s} \cup (IF Remembers(@, k) THEN @[k] ELSE {}))]
  /\ UNCHANGED <<contacts, threads, deals, bookings, ladders, hooks>>

\* The burst window of a location passes.
WindowPasses(l) ==
  /\ used[l] > 0 /\ used' = [used EXCEPT ![l] = 0]
  /\ last' = NoCall
  /\ UNCHANGED <<port, records, writes>>

Call(c, l) ==
  \/ \E op \in ReadOps \cup WriteOps : Denied(c, op, l) \/ Limited(c, op, l)
  \/ Read(c, l)
  \/ \E p \in Persons \cup {None} : UpsertContact(c, l, p)
  \/ \E i \in 1..Len(contacts) :
       \/ \E p \in Pipelines, s \in Stages : CreateOpportunity(c, l, p, s, i)
       \/ \E k \in Calendars, s \in Slots : BookAppointment(c, l, k, i, s)
       \/ SendMessage(c, l, i)
  \/ \E d \in 1..Len(deals), s \in Stages : MoveOpportunity(c, l, d, s)
  \/ RegisterWebhook(c, l)

People(l) ==
  \/ \E p \in Persons : SeedContact(l, p)
  \/ \E i \in ContactsOf(l) : SeedInbound(l, i) \/ \E f \in BOOLEAN : SetOptedOut(i, f)
  \/ \E p \in Pipelines, stages \in SUBSET Stages : AddPipeline(l, p, stages)
  \/ \E k \in Calendars, s \in Slots : AddCalendarSlots(l, k, s)

Next ==
  \/ \E c \in Clients, l \in Locations : Call(c, l)
  \/ \E l \in Locations : People(l) \/ WindowPasses(l)

Spec == Init /\ [][Next]_vars
-----------------------------------------------------------------------------
\* Every variable holds the kind of value the server keeps there.
TypeOK ==
  /\ port \in [Clients -> {"fake", "live"}]
  /\ contacts \in Seq([location : Locations, person : Persons, optedOut : BOOLEAN])
  /\ threads \in Seq([location : Locations, contact : Nat, log : Seq({"in", "out"})])
  /\ deals \in Seq([location : Locations, pipeline : Pipelines, stage : Stages, contact : Nat])
  /\ bookings \in Seq([location : Locations, calendar : Calendars, contact : Nat, slot : Slots])
  /\ \A l \in Locations :
       /\ \A p \in DOMAIN ladders[l] : p \in Pipelines /\ ladders[l][p] \subseteq Stages
       /\ \A k \in DOMAIN offers[l] : k \in Calendars /\ offers[l][k] \subseteq Slots
  /\ hooks \in [Locations -> Nat] /\ used \in [Locations -> 0..Quota] /\ writes \in Nat
  /\ \/ last = NoCall
     \/ last \in [client : Clients, op : ReadOps \cup WriteOps, asked : Locations,
                 answer : Answers, shown : SUBSET Nat]

\* Everything kept for one location, its quota included.
Holdings(l) ==
  << {<<i, contacts[i]>> : i \in ContactsOf(l)}, {<<t, threads[t]>> : t \in ThreadsOf(l)},
     {<<d, deals[d]>> : d \in DealsOf(l)}, {b \in 1..Len(bookings) : bookings[b].location = l},
     ladders[l], offers[l], hooks[l], used[l] >>

ShowsItsOwn == last.shown \subseteq ContactsOf(TokenOf[last.client])

\* Whatever location a caller names and whatever ids it holds, over either
\* port its call neither changes nor shows anything of a location its token
\* is not for, and does not use up that location's quota ("the denial does
\* not burn the legitimate traffic's window", highlevel.py).
TokensStayInTheirLocation ==
  [][last'.client # None =>
       /\ \A l \in Locations \ {TokenOf[last'.client]} : Holdings(l)' = Holdings(l)
       /\ ShowsItsOwn']_vars

\* No record reaches over to another location: conversations, deals and
\* appointments name contacts of their own, whoever the ids came from.
RecordsNameTheirOwn ==
  /\ \A t \in 1..Len(threads) : threads[t].contact \in ContactsOf(threads[t].location)
  /\ \A d \in 1..Len(deals) : deals[d].contact \in ContactsOf(deals[d].location)
  /\ \A b \in 1..Len(bookings) : bookings[b].contact \in ContactsOf(bookings[b].location)

OnLadder(d) == deals[d].stage \in ladders[deals[d].location][deals[d].pipeline]

\* A caller that remembers an old stage map files nothing into a stage that
\* no longer exists: a deal that is not on its pipeline's ladder was there
\* before the pipeline was replaced under it.
NothingFiledOffTheLadder ==
  [][\A d \in 1..MaxWrites : d <= Len(deals') =>
       OnLadder(d)' \/ (d <= Len(deals) /\ deals'[d] = deals[d])]_vars

Overlap(s, t) == s.start < t.end /\ t.start < s.end
Disjoint(slots) == \A s, t \in slots : s # t => ~Overlap(s, t)

\* "Double-booking is refused" (ports.py), as far as the code does: two
\* appointments of a calendar never share a start, and they overlap only if
\* the calendar was made to offer overlapping slots.
NoDoubleBooking ==
  \A l \in Locations, k \in Calendars : \A a, b \in BookedAt(l, k) :
    a # b /\ Overlap(bookings[a].slot, bookings[b].slot) =>
      bookings[a].slot.start # bookings[b].slot.start /\ ~Disjoint(offers[l][k])

Heard(i) ==
  {x \in (1..Len(threads)) \X (1..MaxWrites) :
     LET t == threads[x[1]]
     IN  t.contact = i /\ x[2] <= Len(t.log) /\ t.log[x[2]] = "out"}

\* A contact that opted out hears nothing until a person opts it back in: no
\* merge of later contact details loses the flag.
OptOutHolds ==
  [][\A i \in 1..Len(contacts) : contacts[i].optedOut =>
       /\ Heard(i)' = Heard(i)
       /\ contacts'[i].optedOut \/ last'.client = None]_vars
=============================================================================
