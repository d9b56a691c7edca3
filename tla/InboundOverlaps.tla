-------------------------- MODULE InboundOverlaps --------------------------
(***************************************************************************)
(* How often calls that overlap can repeat each other, for every finite    *)
(* number of threads and every set of events, contacts and bodies.         *)
(***************************************************************************)
EXTENDS InboundHistory, FiniteSetTheorems

FiniteHost == IsFiniteSet(Workers)

\* What a call is for, or the message of one: to release what was decided, or
\* to answer an event.
Purpose(b) == IF IsRelease(b) THEN <<"release", b.decision>> ELSE <<"reply", b.event>>
Purposes   == {<<"release", d>> : d \in Decisions} \cup {<<"reply", e>> : e \in Events}

\* No further call is begun for it.
Done(x) == IF x[1] = "reply" THEN x[2] \in DOMAIN seen ELSE x[2].id \notin DOMAIN pending

\* A call up to its send, and after it.
Early(j) == j.pc \in {"fetch", "decide", "check", "send"}
Late(j)  == j.pc \in {"spend", "record", "mark"}

SentFor(x)    == {i \in 1..Len(messages) : Purpose(messages[i].by) = x}
WaitingFor(x) == {w \in Workers : Early(work[w]) /\ Purpose(work[w]) = x}
Holds(w, i) ==
  Late(work[w]) /\ work[w].message = i /\ Purpose(work[w]) = Purpose(messages[i].by)

\* Without faults, each message whose purpose is not done yet is with the call
\* that sent it.  So there are no more calls and messages of one purpose than
\* threads, and once it is done no call is added to them.
Crowded ==
  Faults = 0 =>
    /\ \A i \in 1..Len(messages) :
         /\ IsRelease(messages[i].by) => messages[i].by.decision.id <= decisions
         /\ Done(Purpose(messages[i].by)) \/ \E w \in Workers : Holds(w, i)
    /\ \A x \in Purposes :
         Cardinality(SentFor(x)) + Cardinality(WaitingFor(x)) <= Cardinality(Workers)
-----------------------------------------------------------------------------
(* Counting.                                                               *)

\* If each of S is with one of H, there are no more of them.
LEMMA EachWithOne ==
  ASSUME NEW W, IsFiniteSet(W), NEW H \in SUBSET W, NEW V \in SUBSET W, H \cap V = {},
         NEW S, NEW f, DOMAIN f = H, \A s \in S : \E w \in H : f[w] = s
  PROVE  Cardinality(S) + Cardinality(V) <= Cardinality(W)
<1> DEFINE T == {f[w] : w \in H}
<1>1. IsFiniteSet(H) /\ IsFiniteSet(V)
  BY FS_Subset
<1>2. PICK g : g = [w \in H |-> f[w]]
  OBVIOUS
<1>3. g \in Surjection(H, T)
  BY <1>2 DEF Surjection
<1>4. IsFiniteSet(T) /\ Cardinality(T) <= Cardinality(H)
  BY <1>1, <1>3, FS_Surjection
<1>5. S \in SUBSET T
  OBVIOUS
<1>6. IsFiniteSet(S) /\ Cardinality(S) <= Cardinality(T)
  BY <1>4, <1>5, FS_Subset
<1>7. IsFiniteSet(H \cup V) /\ Cardinality(H \cup V) = Cardinality(H) + Cardinality(V) - 0
  BY <1>1, FS_Union, FS_EmptySet
<1>8. Cardinality(H \cup V) <= Cardinality(W)
  BY FS_Subset
<1>9. /\ Cardinality(S) \in Nat /\ Cardinality(T) \in Nat /\ Cardinality(H) \in Nat
      /\ Cardinality(V) \in Nat /\ Cardinality(W) \in Nat
  BY <1>1, <1>4, <1>6, FS_CardinalityType
<1> HIDE DEF T
<1> QED
  BY <1>4, <1>6, <1>7, <1>8, <1>9

LEMMA CrowdsAreFinite ==
  ASSUME IInv, FiniteHost, NEW x
  PROVE  /\ IsFiniteSet(SentFor(x)) /\ IsFiniteSet(WaitingFor(x))
         /\ Cardinality(SentFor(x)) \in Nat /\ Cardinality(WaitingFor(x)) \in Nat
         /\ Cardinality(Workers) \in Nat
<1>1. IsFiniteSet(1..Len(messages))
  <2>1. 1 \in Int /\ Len(messages) \in Int
    BY TypesOf
  <2> QED
    BY <2>1, FS_Interval
<1>2. SentFor(x) \in SUBSET (1..Len(messages)) /\ WaitingFor(x) \in SUBSET Workers
  BY DEF SentFor, WaitingFor
<1>3. IsFiniteSet(SentFor(x)) /\ IsFiniteSet(WaitingFor(x))
  BY <1>1, <1>2, FS_Subset DEF FiniteHost
<1> QED
  BY <1>3, FS_CardinalityType DEF FiniteHost

-----------------------------------------------------------------------------
(* Purposes.                                                               *)

LEMMA PurposeIs ==
  ASSUME NEW j
  PROVE  /\ IsRelease(j) => Purpose(j) = <<"release", j.decision>>
         /\ ~IsRelease(j) => Purpose(j) = <<"reply", j.event>>
BY DEF Purpose

LEMMA MessagePurpose ==
  ASSUME IInv, NEW i \in 1..Len(messages)
  PROVE  Purpose(messages[i].by) \in Purposes
BY TypesOf, MessageTypes DEF Purpose, Purposes

LEMMA DoneIs ==
  /\ \A e : Done(<<"reply", e>>) <=> e \in DOMAIN seen
  /\ \A d : Done(<<"release", d>>) <=> d.id \notin DOMAIN pending
BY DEF Done
-----------------------------------------------------------------------------
(* Steps without a fault.                                                  *)

\* A call past its send keeps its message until its purpose is done.
KeepsItsOwn(w) ==
  \A x \in Purposes : Late(work[w]) /\ Purpose(work[w]) = x =>
    \/ Done(x)'
    \/ Late(work'[w]) /\ work'[w].message = work[w].message /\ Purpose(work'[w]) = x

\* A call is begun only for a purpose that is not done.
BeginsOnlyNew(w) ==
  \A x \in Purposes : Early(work'[w]) /\ Purpose(work'[w]) = x =>
    \/ ~Done(x)'
    \/ Early(work[w]) /\ Purpose(work[w]) = x

\* What was done for a message stays done, and its id stays given.
StaysDone ==
  /\ decisions' \in Nat /\ decisions <= decisions'
  /\ \A i \in 1..Len(messages) : \A x \in Purposes :
       Purpose(messages[i].by) = x /\ Done(x) => Done(x)'

\* A step that sends nothing.
LEMMA CalmStep ==
  ASSUME IInv, FiniteHost, Crowded, Faults = 0, NEW w \in Workers, Moves(w), UNCHANGED messages,
         KeepsItsOwn(w), BeginsOnlyNew(w), StaysDone
  PROVE  Crowded'
<1>1. ASSUME NEW i \in 1..Len(messages)
      PROVE  /\ IsRelease(messages[i].by) => messages[i].by.decision.id <= decisions'
             /\ \A x \in Purposes : Purpose(messages[i].by) = x =>
                  Done(x)' \/ \E v \in Workers : Holds(v, i)'
  <2>1. IsRelease(messages[i].by) => messages[i].by.decision.id <= decisions'
    <3> SUFFICES ASSUME IsRelease(messages[i].by) PROVE messages[i].by.decision.id <= decisions'
      OBVIOUS
    <3>1. messages[i].by.decision.id \in Nat
      BY TypesOf, MessageTypes DEF Decisions
    <3>2. messages[i].by.decision.id <= decisions
      BY DEF Crowded
    <3> QED
      BY <3>1, <3>2, TypesOf DEF StaysDone
  <2>2. ASSUME NEW x \in Purposes, Purpose(messages[i].by) = x, ~Done(x)'
        PROVE  \E v \in Workers : Holds(v, i)'
    <3>1. ~Done(x)
      BY <2>2 DEF StaysDone
    <3>2. PICK v \in Workers : Holds(v, i)
      BY <2>2, <3>1 DEF Crowded
    <3>3. CASE v = w
      BY <2>2, <3>2, <3>3 DEF Holds, KeepsItsOwn
    <3>4. CASE v # w
      BY <3>2, <3>4 DEF Holds, Moves, Late
    <3> QED
      BY <3>3, <3>4
  <2> QED
    BY <2>1, <2>2
<1>2. ASSUME NEW x \in Purposes
      PROVE  Cardinality(SentFor(x)') + Cardinality(WaitingFor(x)') <= Cardinality(Workers)
  <2>1. SentFor(x)' = SentFor(x)
    BY DEF SentFor
  <2>2. CASE Done(x)'
    <3>1. WaitingFor(x)' \in SUBSET WaitingFor(x)
      BY <2>2 DEF WaitingFor, BeginsOnlyNew, Moves
    <3>2. Cardinality(WaitingFor(x)') <= Cardinality(WaitingFor(x)) /\ IsFiniteSet(WaitingFor(x)')
      BY <3>1, CrowdsAreFinite, FS_Subset
    <3>3. Cardinality(SentFor(x)) + Cardinality(WaitingFor(x)) <= Cardinality(Workers)
      BY DEF Crowded
    <3>4. Cardinality(WaitingFor(x)') \in Nat
      BY <3>2, FS_CardinalityType
    <3> QED
      BY <2>1, <3>2, <3>3, <3>4, CrowdsAreFinite
  <2>3. CASE ~Done(x)'
    <3> DEFINE H == {v \in Workers : Late(work'[v]) /\ Purpose(work'[v]) = x}
               V == WaitingFor(x)'
    <3>1. PICK f : f = [v \in H |-> work'[v].message]
      OBVIOUS
    <3>2. H \in SUBSET Workers /\ V \in SUBSET Workers /\ H \cap V = {}
      BY DEF WaitingFor, Early, Late
    <3>3. \A i \in SentFor(x) : \E v \in H : f[v] = i
      BY <1>1, <2>3, <3>1 DEF SentFor, Holds
    <3>4. DOMAIN f = H
      BY <3>1
    <3> HIDE DEF H, V
    <3>5. Cardinality(SentFor(x)) + Cardinality(V) <= Cardinality(Workers)
      BY <3>2, <3>3, <3>4, EachWithOne DEF FiniteHost
    <3> QED
      BY <2>1, <3>5 DEF V
  <2> QED
    BY <2>2, <2>3
<1>3. ASSUME NEW i \in 1..Len(messages)
      PROVE  Done(Purpose(messages[i].by))' \/ \E v \in Workers : Holds(v, i)'
  <2>1. PICK x \in Purposes : x = Purpose(messages[i].by)
    BY MessagePurpose
  <2>2. Done(x)' \/ \E v \in Workers : Holds(v, i)'
    BY <1>1, <2>1
  <2>3. x = Purpose(messages[i].by)'
    BY <2>1
  <2> QED
    BY <2>2, <2>3
<1> QED
  BY <1>1, <1>2, <1>3 DEF Crowded

\* A send: one call less that waits, one message more, and a call that holds it.
LEMMA SendStep ==
  ASSUME IInv, FiniteHost, Numbered, Crowded, Faults = 0, NEW w \in Workers, SendAccepted(w)
  PROVE  Crowded'
<1> DEFINE n == Len(messages) + 1
<1>1. /\ work[w].pc = "send" /\ Moves(w) /\ UNCHANGED <<seen, pending, decisions>>
      /\ Len(messages') = n /\ n \in Nat /\ \A i \in 1..Len(messages) : messages'[i] = messages[i]
      /\ work'[w].pc = "spend" /\ work'[w].message = n
      /\ work'[w].decision = work[w].decision /\ work'[w].event = work[w].event
      /\ work'[w].delivery = work[w].delivery
  BY AcceptIs, TypesOf DEF Posted, JobIs, stores
<1>2. PICK b : b = messages'[n].by
  OBVIOUS
<1>3. b.event = work[w].event /\ b.delivery = work[w].delivery /\ b.decision = work[w].decision
  BY <1>2, AcceptIs, OutboundIs DEF Posted
<1>4. PICK p : p = Purpose(work[w])
  OBVIOUS
<1>5. p = Purpose(work'[w]) /\ p = Purpose(b)
  BY <1>1, <1>3, <1>4 DEF Purpose, IsRelease
<1>6. \A i \in 1..Len(messages') : i \in 1..Len(messages) \/ i = n
  BY <1>1, TypesOf
<1>7. ASSUME NEW i \in 1..Len(messages')
      PROVE  /\ IsRelease(messages'[i].by) => messages'[i].by.decision.id <= decisions'
             /\ \A x : x = Purpose(messages'[i].by) =>
                  Done(x)' \/ \E v \in Workers : Holds(v, i)'
  <2>1. CASE i = n
    <3>1. Holds(w, i)'
      BY <1>1, <1>2, <1>5, <2>1 DEF Holds, Late
    <3>2. IsRelease(b) => b.decision.id <= decisions
      BY <1>1, <1>3 DEF Numbered, JobNumbered, Decided
    <3> QED
      BY <1>1, <1>2, <2>1, <3>1, <3>2
  <2>2. CASE i \in 1..Len(messages)
    <3>1. messages'[i] = messages[i]
      BY <1>1, <2>2
    <3>2. ASSUME ~Done(Purpose(messages[i].by)) PROVE \E v \in Workers : Holds(v, i)'
      <4>1. PICK v \in Workers : Holds(v, i)
        BY <2>2, <3>2 DEF Crowded
      <4>2. v # w
        BY <1>1, <4>1 DEF Holds, Late
      <4>3. work'[v] = work[v]
        BY <1>1, <4>2 DEF Moves
      <4> QED
        BY <3>1, <4>1, <4>3 DEF Holds
    <3>3. \A x : Done(x) => Done(x)'
      BY <1>1 DEF Done
    <3> QED
      BY <1>1, <2>2, <3>1, <3>2, <3>3 DEF Crowded
  <2> QED
    BY <1>6, <2>1, <2>2
<1>8. ASSUME NEW x \in Purposes
      PROVE  Cardinality(SentFor(x)') + Cardinality(WaitingFor(x)') <= Cardinality(Workers)
  <2>1. Cardinality(SentFor(x)) + Cardinality(WaitingFor(x)) <= Cardinality(Workers)
    BY DEF Crowded
  <2>2. CASE x # p
    <3>1. SentFor(x)' = SentFor(x)
      BY <1>1, <1>2, <1>5, <1>6, <2>2 DEF SentFor
    <3>2. WaitingFor(x)' = WaitingFor(x)
      BY <1>1, <1>4, <2>2 DEF WaitingFor, Moves, Early
    <3> QED
      BY <2>1, <3>1, <3>2
  <2>3. CASE x = p
    <3>1. SentFor(x)' = SentFor(x) \cup {n} /\ n \notin SentFor(x)
      BY <1>1, <1>2, <1>5, <1>6, <2>3, TypesOf DEF SentFor
    <3>2. WaitingFor(x)' = WaitingFor(x) \ {w} /\ w \in WaitingFor(x)
      BY <1>1, <1>4, <2>3 DEF WaitingFor, Moves, Early
    <3>3. Cardinality(SentFor(x) \cup {n}) = Cardinality(SentFor(x)) + 1
      BY <3>1, CrowdsAreFinite, FS_AddElement
    <3>4. Cardinality(WaitingFor(x) \ {w}) = Cardinality(WaitingFor(x)) - 1
      BY <3>2, CrowdsAreFinite, FS_RemoveElement
    <3> QED
      BY <2>1, <3>1, <3>2, <3>3, <3>4, CrowdsAreFinite
  <2> QED
    BY <2>2, <2>3
<1>9. ASSUME NEW i \in 1..Len(messages')
      PROVE  Done(Purpose(messages[i].by))' \/ \E v \in Workers : Holds(v, i)'
  <2>1. PICK x : x = Purpose(messages'[i].by)
    OBVIOUS
  <2>2. Done(x)' \/ \E v \in Workers : Holds(v, i)'
    BY <1>7, <2>1
  <2>3. x = Purpose(messages[i].by)'
    BY <2>1
  <2> QED
    BY <2>2, <2>3
<1> QED
  BY <1>7, <1>8, <1>9 DEF Crowded

\* A step that changes nothing of it.
LEMMA NothingMoves ==
  ASSUME Crowded, Faults = 0, UNCHANGED <<seen, decisions, pending, messages, work>>
  PROVE  Crowded'
<1>1. \A i \in 1..Len(messages) : Done(Purpose(messages[i].by))' <=> Done(Purpose(messages[i].by))
  BY DEF Done, Purpose, IsRelease
<1>2. \A i \in 1..Len(messages) : \A v \in Workers : Holds(v, i)' <=> Holds(v, i)
  BY DEF Holds, Late, Purpose, IsRelease
<1>3. \A x \in Purposes : SentFor(x)' = SentFor(x) /\ WaitingFor(x)' = WaitingFor(x)
  BY DEF SentFor, WaitingFor, Early
<1> QED
  BY <1>1, <1>2, <1>3 DEF Crowded, IsRelease

\* A step that leaves the stores and the queue alone undoes nothing.
LEMMA StaysAsItWas ==
  ASSUME IInv, UNCHANGED <<seen, decisions, pending>>
  PROVE  StaysDone /\ \A x : Done(x)' <=> Done(x)
BY TypesOf DEF StaysDone, Done

LEMMA FaultFree ==
  ASSUME IInv, Faults' = 0, NEW k \in EnvKinds, UNCHANGED env \/ Disturb(k)
  PROVE  /\ Faults = 0
         /\ UNCHANGED env \/ k \notin {"crash", "lost_reply", "store_fails"}
<1>1. CASE UNCHANGED env
  BY <1>1 DEF Faults
<1>2. CASE Disturb(k)
  <2>1. env \in [EnvKinds -> Nat] /\ env' = [env EXCEPT ![k] = env[k] + 1]
    BY <1>2, TypesOf DEF Disturb
  <2> QED
    BY <2>1 DEF EnvKinds, Faults
<1> QED
  BY <1>1, <1>2

-----------------------------------------------------------------------------
(* The actions.                                                            *)

\* A call that does not release, and stays with its event and delivery.
LEMMA SamePurpose ==
  ASSUME NEW j, NEW k, k.event = j.event, k.delivery = j.delivery,
         IsRelease(j) => k.decision = j.decision
  PROVE  Purpose(k) = Purpose(j)
BY DEF Purpose, IsRelease

LEMMA TakeCrowded ==
  ASSUME IInv, FiniteHost, Crowded, Faults = 0, NEW w \in Workers, NEW e \in Events, ReceiveNew(w, e)
  PROVE  Crowded'
<1>1. PICK n \in Nat : n = attempts[e] + 1
  BY TypesOf
<1>2. /\ ~Remembers(seen, e) /\ work[w].pc = "idle" /\ Moves(w)
      /\ UNCHANGED <<seen, decisions, pending, messages>>
      /\ UNCHANGED work \/ (work'[w].pc \in {"mark", "fetch"} /\ work'[w].event = e
                              /\ work'[w].delivery = n)
  BY <1>1, TakeIs DEF JobIs, stores
<1>3. KeepsItsOwn(w) /\ StaysDone /\ \A x : Done(x)' <=> Done(x)
  BY <1>2, StaysAsItWas DEF KeepsItsOwn, Late
<1>4. BeginsOnlyNew(w)
  <2>1. CASE UNCHANGED work
    BY <1>2, <2>1 DEF BeginsOnlyNew, Early
  <2>2. CASE work'[w].event = e /\ work'[w].delivery = n
    <3>1. n # 0
      BY <1>1, TypesOf
    <3>2. Purpose(work'[w]) = <<"reply", e>>
      BY <2>2, <3>1 DEF Purpose, IsRelease
    <3>3. ~Done(<<"reply", e>>)
      BY <1>2, DoneIs DEF Remembers
    <3> QED
      BY <1>3, <3>2, <3>3 DEF BeginsOnlyNew
  <2> QED
    BY <1>2, <2>1, <2>2
<1> QED
  BY <1>2, <1>3, <1>4, CalmStep

\* A call that goes on before its send, or ends there.
LEMMA EarlyStep ==
  ASSUME IInv, FiniteHost, Crowded, Faults = 0, NEW w \in Workers, Moves(w), UNCHANGED messages,
         StaysDone, Early(work[w]),
         Early(work'[w]) => Purpose(work'[w]) = Purpose(work[w])
  PROVE  Crowded'
<1>1. KeepsItsOwn(w)
  BY DEF KeepsItsOwn, Early, Late
<1>2. BeginsOnlyNew(w)
  BY DEF BeginsOnlyNew
<1> QED
  BY <1>1, <1>2, CalmStep

LEMMA FetchCrowded ==
  ASSUME IInv, FiniteHost, Numbered, Crowded, Faults = 0, NEW w \in Workers, FetchContact(w)
  PROVE  Crowded'
<1>1. /\ work[w].pc = "fetch" /\ Moves(w) /\ UNCHANGED <<seen, decisions, pending, messages>>
      /\ work'[w].event = work[w].event /\ work'[w].delivery = work[w].delivery
  BY FetchIs DEF JobIs, stores
<1>2. ~IsRelease(work[w])
  BY <1>1 DEF Numbered, JobNumbered
<1>3. Purpose(work'[w]) = Purpose(work[w])
  BY <1>1, <1>2, SamePurpose
<1> QED
  BY <1>1, <1>3, StaysAsItWas, EarlyStep DEF Early

LEMMA DecideCrowded ==
  ASSUME IInv, FiniteHost, Numbered, Crowded, Faults = 0, NEW w \in Workers, Decide(w)
  PROVE  Crowded'
<1>1. PICK d \in Decisions : IsSubmitted(w, d) \/ IsParked(w, d) \/ IsBlocked(w, d)
  BY DecideIs
<1>2. /\ work[w].pc = "decide" /\ Moves(w) /\ d.id = decisions + 1 /\ decisions' = d.id
      /\ UNCHANGED <<seen, messages>>
  BY <1>1 DEF IsSubmitted, IsParked, IsBlocked, Judged, stores
<1>3. work'[w].event = work[w].event /\ work'[w].delivery = work[w].delivery
  BY <1>1 DEF IsSubmitted, IsParked, IsBlocked, JobIs
<1>4. ~IsRelease(work[w])
  BY <1>2 DEF Numbered, JobNumbered
<1>5. Purpose(work'[w]) = Purpose(work[w])
  BY <1>3, <1>4, SamePurpose
<1>6. DOMAIN pending' \subseteq DOMAIN pending \cup {d.id}
  BY <1>1 DEF IsSubmitted, IsParked, IsBlocked, SetKey
<1>7. StaysDone
  <2>1. ASSUME NEW i \in 1..Len(messages), NEW x \in Purposes, Purpose(messages[i].by) = x, Done(x)
        PROVE  Done(x)'
    <3>1. PICK b : b = messages[i].by
      OBVIOUS
    <3>2. CASE IsRelease(b)
      <4>1. x = <<"release", b.decision>>
        BY <2>1, <3>1, <3>2 DEF Purpose
      <4>2. b.decision.id <= decisions /\ b.decision.id \in Nat
        BY <3>1, <3>2, TypesOf, MessageTypes DEF Crowded, Decisions
      <4>3. b.decision.id # d.id
        BY <1>2, <4>2, TypesOf
      <4>4. b.decision.id \notin DOMAIN pending
        BY <2>1, <4>1, DoneIs
      <4> QED
        BY <1>6, <4>1, <4>3, <4>4 DEF Done
    <3>3. CASE ~IsRelease(b)
      <4>1. x = <<"reply", b.event>>
        BY <2>1, <3>1, <3>3 DEF Purpose
      <4> QED
        BY <1>2, <2>1, <4>1 DEF Done
    <3> QED
      BY <3>2, <3>3
  <2>2. decisions' \in Nat /\ decisions <= decisions'
    BY <1>2, TypesOf
  <2> QED
    BY <2>1, <2>2 DEF StaysDone
<1> QED
  BY <1>2, <1>5, <1>7, EarlyStep DEF Early

LEMMA FailCrowded ==
  ASSUME IInv, FiniteHost, Crowded, Faults = 0, NEW w \in Workers,
         SendRefused(w) \/ CallFails(w) \/ GuardStops(w)
  PROVE  Crowded'
<1>1. /\ Moves(w) /\ work'[w] = Idle /\ UNCHANGED <<seen, decisions, pending, messages>>
  BY FailIs DEF GivesUp
<1>2. Early(work[w])
  BY DEF SendRefused, CallFails, GuardStops, Pc, Early
<1>3. ~Early(work'[w])
  BY <1>1 DEF Early, Idle
<1> QED
  BY <1>1, <1>2, <1>3, StaysAsItWas, EarlyStep

LEMMA PassCrowded ==
  ASSUME IInv, FiniteHost, Crowded, Faults = 0, NEW w \in Workers, GuardPasses(w) \/ Spend(w)
  PROVE  Crowded'
<1>1. /\ Moves(w) /\ UNCHANGED <<seen, decisions, pending, messages>>
      /\ work'[w].event = work[w].event /\ work'[w].delivery = work[w].delivery
      /\ work'[w].decision = work[w].decision /\ work'[w].message = work[w].message
      /\ \/ work[w].pc = "check" /\ work'[w].pc = "send"
         \/ work[w].pc = "spend" /\ work'[w].pc = "record"
  BY PassIs
<1>2. Purpose(work'[w]) = Purpose(work[w])
  BY <1>1, SamePurpose
<1>3. StaysDone
  BY <1>1, StaysAsItWas
<1>4. CASE work[w].pc = "check"
  BY <1>1, <1>2, <1>3, <1>4, EarlyStep DEF Early
<1>5. CASE work[w].pc = "spend" /\ work'[w].pc = "record"
  <2>1. KeepsItsOwn(w) /\ BeginsOnlyNew(w)
    BY <1>1, <1>2, <1>5 DEF KeepsItsOwn, BeginsOnlyNew, Early, Late
  <2> QED
    BY <1>1, <1>3, <2>1, CalmStep
<1> QED
  BY <1>1, <1>4, <1>5

LEMMA RecordCrowded ==
  ASSUME IInv, FiniteHost, Crowded, Faults = 0, NEW w \in Workers, RecordSent(w)
  PROVE  Crowded'
<1>1. work[w].pc = "record" /\ Moves(w) /\ UNCHANGED <<seen, decisions, messages>>
  BY RecordIs DEF stores
<1>2. CASE IsRelease(work[w])
  <2>1. pending' = DropKey(pending, work[w].decision.id) /\ work'[w] = Idle
    BY <1>2, RecordIs
  <2>2. DOMAIN pending' = DOMAIN pending \ {work[w].decision.id}
    BY <2>1 DEF DropKey
  <2>3. KeepsItsOwn(w)
    BY <1>2, <2>2, PurposeIs DEF KeepsItsOwn, Done
  <2>4. BeginsOnlyNew(w)
    BY <2>1 DEF BeginsOnlyNew, Early, Idle
  <2>5. StaysDone
    BY <1>1, <2>2, TypesOf DEF StaysDone, Done
  <2> QED
    BY <1>1, <2>3, <2>4, <2>5, CalmStep
<1>3. CASE ~IsRelease(work[w])
  <2>1. UNCHANGED pending /\ Goto(w, [work[w] EXCEPT !.pc = "mark"])
    BY <1>3 DEF RecordSent
  <2>2. /\ work'[w].pc = "mark" /\ work'[w].event = work[w].event
        /\ work'[w].delivery = work[w].delivery /\ work'[w].message = work[w].message
    BY <2>1, TypesOf, JobTypes DEF Goto, Jobs
  <2>3. Purpose(work'[w]) = Purpose(work[w])
    BY <1>3, <2>2, SamePurpose
  <2>4. KeepsItsOwn(w) /\ BeginsOnlyNew(w)
    BY <2>2, <2>3 DEF KeepsItsOwn, BeginsOnlyNew, Early, Late
  <2>5. StaysDone
    BY <1>1, <2>1, StaysAsItWas
  <2> QED
    BY <1>1, <2>4, <2>5, CalmStep
<1> QED
  BY <1>2, <1>3

LEMMA MarkCrowded ==
  ASSUME IInv, FiniteHost, Numbered, Crowded, Faults = 0, NEW w \in Workers, MarkSeen(w)
  PROVE  Crowded'
<1>1. /\ work[w].pc = "mark" /\ Moves(w) /\ work'[w] = Idle
      /\ seen' = SetKey(seen, work[w].event, work[w].delivery)
      /\ UNCHANGED <<decisions, pending, messages>>
  BY MarkIs
<1>2. DOMAIN seen' = DOMAIN seen \cup {work[w].event}
  BY <1>1 DEF SetKey
<1>3. ~IsRelease(work[w])
  BY <1>1 DEF Numbered, JobNumbered
<1>4. KeepsItsOwn(w)
  BY <1>2, <1>3, PurposeIs DEF KeepsItsOwn, Done
<1>5. BeginsOnlyNew(w)
  BY <1>1 DEF BeginsOnlyNew, Early, Idle
<1>6. StaysDone
  BY <1>1, <1>2, TypesOf DEF StaysDone, Done
<1> QED
  BY <1>1, <1>4, <1>5, <1>6, CalmStep

LEMMA ReleaseCrowded ==
  ASSUME IInv, FiniteHost, Numbered, Crowded, Faults = 0, NEW w \in Workers,
         NEW id \in DOMAIN pending, ReleaseDraft(w, id)
  PROVE  Crowded'
<1>1. /\ work[w].pc = "idle" /\ Moves(w) /\ UNCHANGED <<seen, decisions, pending, messages>>
      /\ work'[w].delivery = 0 /\ work'[w].decision = pending[id].decision
  BY ReleaseIs DEF JobIs, stores
<1>2. Purpose(work'[w]) = <<"release", pending[id].decision>>
  BY <1>1 DEF Purpose, IsRelease
<1>3. pending[id].decision.id = id
  BY DEF Numbered, ParkedNumbered
<1>4. StaysDone /\ \A x : Done(x)' <=> Done(x)
  BY <1>1, StaysAsItWas
<1>5. BeginsOnlyNew(w)
  BY <1>2, <1>3, <1>4, DoneIs DEF BeginsOnlyNew
<1>6. KeepsItsOwn(w)
  BY <1>1 DEF KeepsItsOwn, Late
<1> QED
  BY <1>1, <1>4, <1>5, <1>6, CalmStep

-----------------------------------------------------------------------------
(* The invariant.                                                          *)

LEMMA InitCrowded == FiniteHost /\ Init => Crowded
<1> SUFFICES ASSUME FiniteHost, Init PROVE Crowded
  OBVIOUS
<1>1. Len(messages) = 0 /\ \A w \in Workers : ~Early(work[w])
  BY DEF Init, Early, Idle
<1>2. \A x \in Purposes : SentFor(x) = {} /\ WaitingFor(x) = {}
  BY <1>1 DEF SentFor, WaitingFor
<1>3. Cardinality({}) = 0 /\ Cardinality(Workers) \in Nat
  BY FS_EmptySet, FS_CardinalityType DEF FiniteHost
<1>4. \A x \in Purposes : Cardinality(SentFor(x)) + Cardinality(WaitingFor(x)) <= Cardinality(Workers)
  BY <1>2, <1>3
<1> QED
  BY <1>1, <1>4 DEF Crowded

LEMMA NextCrowded == FiniteHost /\ IInv /\ Numbered /\ Crowded /\ [Next]_vars => Crowded'
<1> SUFFICES ASSUME FiniteHost, IInv, Numbered, Crowded, [Next]_vars, Faults' = 0 PROVE Crowded'
  BY DEF Crowded
<1>1. ASSUME UNCHANGED env PROVE Faults = 0
  BY <1>1 DEF Faults
<1>2. ASSUME NEW k \in EnvKinds, Disturb(k)
      PROVE  Faults = 0 /\ k \notin {"crash", "lost_reply", "store_fails"}
  <2>1. env' # env
    BY <1>2, TypesOf DEF Disturb
  <2> QED
    BY <1>2, <2>1, FaultFree
<1>3. ASSUME NEW w \in Workers, TurnsAway(w) PROVE Crowded'
  <2>1. UNCHANGED <<seen, decisions, pending, messages, work>>
    BY <1>3, TurnAwayIs DEF stores
  <2>2. UNCHANGED env \/ Disturb("forged") \/ Disturb("call_fails")
    BY <1>3 DEF TurnsAway, RejectForged, ReceiveMalformed, ReceiveDuplicate, LookupFails
  <2>3. Faults = 0
    BY <1>1, <1>2, <2>2 DEF EnvKinds
  <2> QED
    BY <2>1, <2>3, NothingMoves
<1>4. ASSUME NEW w \in Workers, NEW e \in Events, ReceiveNew(w, e) PROVE Crowded'
  <2>1. Faults = 0
    BY <1>1, <1>4 DEF ReceiveNew
  <2> QED
    BY <1>4, <2>1, TakeCrowded
<1>5. ASSUME NEW w \in Workers, Continue(w) PROVE Crowded'
  <2>1. Faults = 0
    BY <1>1, <1>5 DEF Continue, FetchContact, Decide, GuardPasses, GuardStops, SendRefused,
       SendAccepted, Spend, RecordSent, MarkSeen
  <2> QED
    BY <1>5, <2>1, FetchCrowded, DecideCrowded, PassCrowded, FailCrowded, SendStep,
       RecordCrowded, MarkCrowded DEF Continue
<1>6. ASSUME NEW w \in Workers, SendReplyLost(w) \/ CallFails(w) \/ StoreFails(w) PROVE Crowded'
  <2>1. CallFails(w) /\ Faults = 0
    BY <1>2, <1>6 DEF SendReplyLost, CallFails, StoreFails, EnvKinds
  <2> QED
    BY <2>1, FailCrowded
<1>7. ASSUME NEW w \in Workers, NEW id \in DOMAIN pending, ReleaseDraft(w, id) PROVE Crowded'
  <2>1. Faults = 0
    BY <1>2, <1>7 DEF ReleaseDraft, EnvKinds
  <2> QED
    BY <1>7, <2>1, ReleaseCrowded
<1>8. ~Crash
  BY <1>2 DEF Crash, EnvKinds
<1>9. ASSUME UNCHANGED vars \/ OpenOrClose \/ \E c \in Contacts : ChangeOptOut(c) PROVE Crowded'
  <2>1. UNCHANGED env \/ Disturb("opt_change")
    BY <1>9 DEF vars, OpenOrClose, ChangeOptOut
  <2>2. Faults = 0
    BY <1>1, <1>2, <2>1 DEF EnvKinds
  <2> QED
    BY <1>9, <2>2, QuietIs, NothingMoves DEF stores
<1> QED
  BY <1>3, <1>4, <1>5, <1>6, <1>7, <1>8, <1>9 DEF Next, Receive, TurnsAway

LEMMA CrowdedBounds == FiniteHost /\ IInv /\ Crowded => RepeatsNeedOverlap
<1> SUFFICES ASSUME FiniteHost, IInv, Crowded, Faults = 0 PROVE RepeatsNeedOverlap
  BY DEF RepeatsNeedOverlap
<1>1. ASSUME NEW x \in Purposes PROVE Cardinality(SentFor(x)) <= Cardinality(Workers)
  BY CrowdsAreFinite DEF Crowded
<1>2. ASSUME NEW e \in Events PROVE Cardinality(AutoReplies(e)) <= Cardinality(Workers)
  <2>1. AutoReplies(e) = SentFor(<<"reply", e>>)
    BY DEF AutoReplies, RepliesTo, SentFor, Purpose
  <2>2. <<"reply", e>> \in Purposes
    BY DEF Purposes
  <2> QED
    BY <1>1, <2>1, <2>2
<1>3. ASSUME NEW i \in 1..Len(messages), IsRelease(messages[i].by)
      PROVE  Cardinality(ReleasesOf(messages[i].by.decision)) <= Cardinality(Workers)
  <2>1. PICK d \in Decisions : d = messages[i].by.decision
    BY TypesOf, MessageTypes
  <2>2. ReleasesOf(d) = SentFor(<<"release", d>>)
    BY DEF ReleasesOf, SentFor, Purpose
  <2>3. <<"release", d>> \in Purposes
    BY DEF Purposes
  <2> QED
    BY <1>1, <2>1, <2>2, <2>3
<1> QED
  BY <1>2, <1>3 DEF RepeatsNeedOverlap

\* The stores of webhook.py and guard.py are read before an effect and written
\* after it.  However many calls overlap on them, without faults an event has
\* no more replies of its own, and a draft no more releases, than the host has
\* threads (webhook.py:193-225, guard.py:109-126).
THEOREM RepeatsTakeThreads == FiniteHost /\ Spec => []RepeatsNeedOverlap
<1> SUFFICES ASSUME FiniteHost PROVE Spec => []RepeatsNeedOverlap
  OBVIOUS
<1>1. IInv /\ Numbered /\ Crowded /\ [Next]_vars => Crowded'
  BY NextCrowded
<1>2. IInv /\ Crowded => RepeatsNeedOverlap
  BY CrowdedBounds
<1>3. Init => Crowded
  BY InitCrowded
<1> QED
  BY <1>1, <1>2, <1>3, InvNumbered, PTL DEF Spec
=============================================================================
