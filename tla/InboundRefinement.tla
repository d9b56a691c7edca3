------------------------- MODULE InboundRefinement -------------------------
(***************************************************************************)
(* With one thread the reply path implements EffectOnce, and pays for every*)
(* reply beyond the first with a fault: for every set of events, contacts  *)
(* and bodies and every run of failures, releases and restarts.            *)
(***************************************************************************)
EXTENDS InboundHistory, FiniteSetTheorems

OneThread == \A v, w \in Workers : v = w

\* Its message is out and not recorded yet.
Out(j) == j.pc \in {"spend", "record"}

\* The event is seen, or its handler got as far as its effect.
Ended(e) ==
  \/ Remembers(seen, e)
  \/ \E w \in Workers : /\ Active(work[w]) /\ (Out(work[w]) \/ work[w].pc = "mark")
                        /\ work[w].event = e

\* Parked drafts of e that may still become a reply: all but the one whose
\* message is out and not recorded yet.
Releasing(id) ==
  \E w \in Workers : Out(work[w]) /\ IsRelease(work[w]) /\ work[w].decision.id = id
ToCome(e) == {id \in DOMAIN pending : pending[id].event = e /\ ~Releasing(id)}

Load(e)      == Cardinality(RepliesTo(e)) + Cardinality(ToCome(e))
Allowance(e) == Faults + IF Ended(e) THEN 1 ELSE 0

\* An event at work is not seen yet; a draft being released is still parked.
OneAtWork ==
  \A w \in Workers :
    /\ Active(work[w]) => ~Remembers(seen, work[w].event)
    /\ Decided(work[w]) /\ IsRelease(work[w]) => work[w].decision.id \in DOMAIN pending

\* Every reply, sent or still to come, beyond the one of an event that has
\* ended is paid for by a fault.
RepliesCounted == \A e \in Events : Load(e) <= Allowance(e)

Counted == OneAtWork /\ RepliesCounted
-----------------------------------------------------------------------------
(* Counting.                                                               *)

LEMMA CountsAreFinite ==
  ASSUME IInv, Numbered, NEW e
  PROVE  /\ IsFiniteSet(RepliesTo(e)) /\ IsFiniteSet(AutoReplies(e)) /\ IsFiniteSet(ToCome(e))
         /\ Cardinality(RepliesTo(e)) \in Nat /\ Cardinality(AutoReplies(e)) \in Nat
         /\ Cardinality(ToCome(e)) \in Nat
         /\ Cardinality(AutoReplies(e)) <= Cardinality(RepliesTo(e))
<1>1. Len(messages) \in Nat /\ decisions \in Nat
  BY TypesOf
<1>2. IsFiniteSet(1..Len(messages)) /\ IsFiniteSet(1..decisions)
  BY <1>1, FS_Interval
<1>3. RepliesTo(e) \subseteq 1..Len(messages) /\ AutoReplies(e) \subseteq RepliesTo(e)
  BY DEF RepliesTo, AutoReplies
<1>4. ToCome(e) \subseteq 1..decisions
  BY DEF ToCome, Numbered, ParkedNumbered
<1>5. IsFiniteSet(RepliesTo(e)) /\ IsFiniteSet(ToCome(e))
  BY <1>2, <1>3, <1>4, FS_Subset
<1>6. IsFiniteSet(AutoReplies(e)) /\ Cardinality(AutoReplies(e)) <= Cardinality(RepliesTo(e))
  BY <1>3, <1>5, FS_Subset
<1> QED
  BY <1>5, <1>6, FS_CardinalityType

LEMMA SumsAreNumbers ==
  ASSUME IInv, Numbered, NEW e
  PROVE  /\ Faults \in Nat /\ Load(e) \in Nat /\ Allowance(e) \in Nat
         /\ Cardinality(AutoReplies(e)) <= Load(e)
<1>1. Faults \in Nat
  BY TypesOf DEF Faults, EnvKinds
<1> QED
  BY <1>1, CountsAreFinite DEF Load, Allowance

\* The only worker is the one to ask.
LEMMA OnlyWorker ==
  ASSUME OneThread, NEW w \in Workers
  PROVE  /\ \A e : Ended(e) <=> \/ Remembers(seen, e)
                                \/ /\ Active(work[w]) /\ (Out(work[w]) \/ work[w].pc = "mark")
                                   /\ work[w].event = e
         /\ \A e : Ended(e)' <=> \/ Remembers(seen', e)
                                 \/ /\ Active(work'[w]) /\ (Out(work'[w]) \/ work'[w].pc = "mark")
                                    /\ work'[w].event = e
         /\ \A id : Releasing(id) <=> /\ Out(work[w]) /\ IsRelease(work[w])
                                      /\ work[w].decision.id = id
         /\ \A id : Releasing(id)' <=> /\ Out(work'[w]) /\ IsRelease(work'[w])
                                       /\ work'[w].decision.id = id
         /\ OneAtWork <=> /\ Active(work[w]) => ~Remembers(seen, work[w].event)
                          /\ Decided(work[w]) /\ IsRelease(work[w]) =>
                               work[w].decision.id \in DOMAIN pending
         /\ OneAtWork' <=> /\ Active(work'[w]) => ~Remembers(seen', work'[w].event)
                           /\ Decided(work'[w]) /\ IsRelease(work'[w]) =>
                                work'[w].decision.id \in DOMAIN pending'
BY DEF OneThread, Ended, Releasing, OneAtWork, Active, IsRelease, Out, Decided

LEMMA LaterSumsAreNumbers ==
  ASSUME IInv', Numbered', NEW e
  PROVE  Faults' \in Nat /\ Load(e)' \in Nat /\ Allowance(e)' \in Nat
<1>1. messages' \in Seq(Messages) /\ decisions' \in Nat /\ env' \in [EnvKinds -> Nat]
  BY DEF IInv, TypeOK
<1>2. Len(messages') \in Nat
  BY <1>1
<1>3. Faults' \in Nat
  BY <1>1 DEF Faults, EnvKinds
<1>4. IsFiniteSet(1..Len(messages')) /\ IsFiniteSet(1..decisions')
  BY <1>1, <1>2, FS_Interval
<1>5. RepliesTo(e)' \subseteq 1..Len(messages') /\ ToCome(e)' \subseteq 1..decisions'
  BY DEF RepliesTo, ToCome, Numbered, ParkedNumbered
<1>6. IsFiniteSet(RepliesTo(e)') /\ IsFiniteSet(ToCome(e)')
  BY <1>4, <1>5, FS_Subset
<1>7. Cardinality(RepliesTo(e)') \in Nat /\ Cardinality(ToCome(e)') \in Nat
  BY <1>6, FS_CardinalityType
<1>8. Load(e)' \in Nat
  BY <1>7 DEF Load
<1>9. Allowance(e)' = Faults' + 1 \/ Allowance(e)' = Faults' + 0
  BY DEF Allowance
<1> QED
  BY <1>3, <1>8, <1>9

\* The books balance when every event's load and allowance move together.
LEMMA BooksBalance ==
  ASSUME IInv, Numbered, IInv', Numbered', RepliesCounted,
         \A e \in Events :
           \/ Load(e)' <= Load(e) /\ Allowance(e) <= Allowance(e)'
           \/ Load(e)' <= Load(e) + 1 /\ Allowance(e) + 1 <= Allowance(e)'
  PROVE  RepliesCounted'
<1> SUFFICES ASSUME NEW e \in Events PROVE Load(e)' <= Allowance(e)'
  BY DEF RepliesCounted
<1>1. Load(e) \in Nat /\ Allowance(e) \in Nat
  BY SumsAreNumbers
<1>2. Load(e)' \in Nat /\ Allowance(e)' \in Nat
  BY LaterSumsAreNumbers
<1>3. Load(e) <= Allowance(e)
  BY DEF RepliesCounted
<1> QED
  BY <1>1, <1>2, <1>3
LEMMA LoadStays ==
  ASSUME IInv, Numbered, UNCHANGED messages, NEW e, ToCome(e)' \subseteq ToCome(e)
  PROVE  Load(e)' <= Load(e)
<1>1. RepliesTo(e)' = RepliesTo(e)
  BY DEF RepliesTo
<1>2. /\ Cardinality(RepliesTo(e)) \in Nat /\ Cardinality(ToCome(e)) \in Nat
      /\ IsFiniteSet(ToCome(e))
  BY CountsAreFinite
<1>3. IsFiniteSet(ToCome(e)') /\ Cardinality(ToCome(e)') <= Cardinality(ToCome(e))
  BY <1>2, FS_Subset
<1>4. Cardinality(ToCome(e)') \in Nat
  BY <1>3, FS_CardinalityType
<1> QED
  BY <1>1, <1>2, <1>3, <1>4 DEF Load

\* One draft more, at most.
LEMMA LoadGainsDraft ==
  ASSUME IInv, Numbered, UNCHANGED messages, NEW e, NEW id,
         ToCome(e)' \subseteq ToCome(e) \cup {id}
  PROVE  Load(e)' <= Load(e) + 1
<1>1. RepliesTo(e)' = RepliesTo(e)
  BY DEF RepliesTo
<1>2. /\ Cardinality(RepliesTo(e)) \in Nat /\ Cardinality(ToCome(e)) \in Nat
      /\ IsFiniteSet(ToCome(e))
  BY CountsAreFinite
<1>3. /\ IsFiniteSet(ToCome(e) \cup {id})
      /\ Cardinality(ToCome(e) \cup {id}) <= Cardinality(ToCome(e)) + 1
      /\ Cardinality(ToCome(e) \cup {id}) \in Nat
  BY <1>2, FS_AddElement
<1>4. /\ IsFiniteSet(ToCome(e)')
      /\ Cardinality(ToCome(e)') <= Cardinality(ToCome(e) \cup {id})
  BY <1>3, FS_Subset
<1>5. Cardinality(ToCome(e)') \in Nat
  BY <1>4, FS_CardinalityType
<1> QED
  BY <1>1, <1>2, <1>3, <1>4, <1>5 DEF Load

\* One message more is one reply more to the event it answers.
LEMMA PostedCounts ==
  ASSUME IInv, Numbered, NEW w \in Workers, Posted(w), NEW e
  PROVE  /\ Cardinality(RepliesTo(e)') =
              Cardinality(RepliesTo(e)) + (IF e = work[w].event THEN 1 ELSE 0)
         /\ Cardinality(AutoReplies(e)') =
              Cardinality(AutoReplies(e))
                + (IF e = work[w].event /\ ~IsRelease(work[w]) THEN 1 ELSE 0)
<1> DEFINE n == Len(messages) + 1
           m == messages'[n]
<1>1. /\ Len(messages) \in Nat /\ Len(messages') = n
      /\ \A i \in 1..Len(messages) : messages'[i] = messages[i]
  BY TypesOf DEF Posted
<1>2. m.by.event = work[w].event /\ (IsRelease(m.by) <=> IsRelease(work[w]))
  BY OutboundIs DEF Posted
<1>3. /\ IsFiniteSet(RepliesTo(e)) /\ IsFiniteSet(AutoReplies(e))
      /\ Cardinality(RepliesTo(e)) \in Nat /\ Cardinality(AutoReplies(e)) \in Nat
  BY CountsAreFinite
<1>4. n \notin RepliesTo(e) /\ n \notin AutoReplies(e)
  BY <1>1 DEF RepliesTo, AutoReplies
<1> HIDE DEF m
<1>5. \A i : i \in RepliesTo(e)' <=> i \in RepliesTo(e) \/ (i = n /\ e = work[w].event)
  <2>1. \A i : i \in 1..n <=> i \in 1..Len(messages) \/ i = n
    BY <1>1
  <2>2. n \notin 1..Len(messages) /\ 1..Len(messages') = 1..n
    BY <1>1
  <2>3. \A i : i \in RepliesTo(e)' <=> i \in 1..n /\ messages'[i].by.event = e
    BY <2>2 DEF RepliesTo
  <2>4. \A i : i \in RepliesTo(e) <=> i \in 1..Len(messages) /\ messages[i].by.event = e
    BY DEF RepliesTo
  <2>5. messages'[n].by.event = work[w].event
    BY <1>2 DEF m
  <2> QED
    BY <1>1, <2>1, <2>2, <2>3, <2>4, <2>5
<1>6. \A i : i \in AutoReplies(e)' <=>
        i \in AutoReplies(e) \/ (i = n /\ e = work[w].event /\ ~IsRelease(work[w]))
  <2>1. \A i : i \in AutoReplies(e)' <=> i \in RepliesTo(e)' /\ ~IsRelease(messages'[i].by)
    BY DEF AutoReplies
  <2>2. \A i : i \in AutoReplies(e) <=> i \in RepliesTo(e) /\ ~IsRelease(messages[i].by)
    BY DEF AutoReplies
  <2>3. \A i \in RepliesTo(e) : messages'[i] = messages[i]
    BY <1>1 DEF RepliesTo
  <2>4. IsRelease(messages'[n].by) <=> IsRelease(work[w])
    BY <1>2 DEF m
  <2> QED
    BY <1>4, <1>5, <2>1, <2>2, <2>3, <2>4
<1>7. ASSUME NEW S, NEW T, NEW b \in BOOLEAN, IsFiniteSet(S), Cardinality(S) \in Nat, n \notin S,
             \A i : i \in T <=> i \in S \/ (i = n /\ b)
      PROVE  Cardinality(T) = Cardinality(S) + (IF b THEN 1 ELSE 0)
  <2>1. CASE b
    <3>1. T = S \cup {n}
      BY <1>7, <2>1
    <3> QED
      BY <1>7, <2>1, <3>1, FS_AddElement
  <2>2. CASE ~b
    <3>1. T = S
      BY <1>7, <2>2
    <3> QED
      BY <1>7, <2>2, <3>1
  <2> QED
    BY <1>7, <2>1, <2>2
<1> HIDE DEF n
<1>8. Cardinality(RepliesTo(e)') =
        Cardinality(RepliesTo(e)) + (IF e = work[w].event THEN 1 ELSE 0)
  <2> DEFINE b == e = work[w].event
  <2>1. b \in BOOLEAN /\ (\A i : i \in RepliesTo(e)' <=> i \in RepliesTo(e) \/ (i = n /\ b))
    BY <1>5
  <2> HIDE DEF b
  <2>2. Cardinality(RepliesTo(e)') = Cardinality(RepliesTo(e)) + (IF b THEN 1 ELSE 0)
    BY <1>3, <1>4, <1>7, <2>1
  <2> QED
    BY <2>2 DEF b
<1>9. Cardinality(AutoReplies(e)') =
        Cardinality(AutoReplies(e)) + (IF e = work[w].event /\ ~IsRelease(work[w]) THEN 1 ELSE 0)
  <2> DEFINE b == e = work[w].event /\ ~IsRelease(work[w])
  <2>1. b \in BOOLEAN /\ (\A i : i \in AutoReplies(e)' <=> i \in AutoReplies(e) \/ (i = n /\ b))
    BY <1>6
  <2> HIDE DEF b
  <2>2. Cardinality(AutoReplies(e)') = Cardinality(AutoReplies(e)) + (IF b THEN 1 ELSE 0)
    BY <1>3, <1>4, <1>7, <2>1
  <2> QED
    BY <2>2 DEF b
<1> QED
  BY <1>8, <1>9
-----------------------------------------------------------------------------
(* Steps.  The mapping is the one of InboundProperties!Once.               *)

LEMMA Disturbed ==
  ASSUME IInv, NEW k \in EnvKinds, Disturb(k)
  PROVE  Faults' = IF k \in {"crash", "lost_reply", "store_fails"} THEN Faults + 1 ELSE Faults
<1>1. env \in [EnvKinds -> Nat] /\ env' = [env EXCEPT ![k] = env[k] + 1]
  BY TypesOf DEF Disturb
<1> QED
  BY <1>1 DEF EnvKinds, Faults

LEMMA AllowanceKept ==
  ASSUME IInv, Numbered, NEW e, Faults' = Faults \/ Faults' = Faults + 1,
         Ended(e) => Ended(e)' \/ Faults' = Faults + 1
  PROVE  Allowance(e) <= Allowance(e)'
BY SumsAreNumbers DEF Allowance

LEMMA AllowanceRaised ==
  ASSUME IInv, Numbered, NEW e,
         \/ Faults' = Faults + 1 /\ (Ended(e) => Ended(e)')
         \/ Faults' = Faults /\ ~Ended(e) /\ Ended(e)'
  PROVE  Allowance(e) + 1 <= Allowance(e)'
BY SumsAreNumbers DEF Allowance

\* EffectOnce sees nothing of a step that sends and marks nothing, or a fault.
LEMMA QuietMaps ==
  ASSUME \A e \in Events : Cardinality(AutoReplies(e)') = Cardinality(AutoReplies(e)),
         UNCHANGED seen, Faults' = Faults \/ Faults' = Faults + 1
  PROVE  [Once!Next]_(Once!vars)
<1>1. [e \in Events |-> Cardinality(AutoReplies(e))]' =
        [e \in Events |-> Cardinality(AutoReplies(e))]
  OBVIOUS
<1>2. CASE Faults' = Faults
  BY <1>1, <1>2 DEF Once!vars, Faults
<1>3. CASE Faults' = Faults + 1
  <2>1. Once!Fault
    BY <1>1, <1>3 DEF Once!Fault, Faults
  <2> QED
    BY <2>1 DEF Once!Next
<1> QED
  BY <1>2, <1>3

\* The handler completes, whether or not the store says so.
LEMMA FinishMaps ==
  ASSUME \A e \in Events : Cardinality(AutoReplies(e)') = Cardinality(AutoReplies(e)),
         NEW e \in Events, DOMAIN seen' = DOMAIN seen \cup {e},
         Faults' = Faults \/ Faults' = Faults + 1
  PROVE  [Once!Next]_(Once!vars)
<1>1. [f \in Events |-> Cardinality(AutoReplies(f))]' =
        [f \in Events |-> Cardinality(AutoReplies(f))]
  OBVIOUS
<1>2. Once!Finish(e) \/ Once!FinishUnseen(e)
  BY <1>1 DEF Once!Finish, Once!FinishUnseen
<1> QED
  BY <1>2 DEF Once!Next

LEMMA AutoStays ==
  ASSUME UNCHANGED messages
  PROVE  \A e : Cardinality(AutoReplies(e)') = Cardinality(AutoReplies(e))
BY DEF AutoReplies, RepliesTo

\* Nothing is sent, marked or parked, and no effect is pending.
LEMMA PlainStep ==
  ASSUME IInv, Numbered, IInv', Numbered', Counted, OneThread, NEW w \in Workers,
         work[w].pc \notin {"spend", "record", "mark"}, UNCHANGED <<seen, pending, messages>>,
         Faults' = Faults,
         Active(work'[w]) => ~Remembers(seen, work'[w].event),
         Decided(work'[w]) /\ IsRelease(work'[w]) => work'[w].decision.id \in DOMAIN pending
  PROVE  Counted' /\ [Once!Next]_(Once!vars)
<1>1. OneAtWork'
  BY OnlyWorker
<1>2. \A e : Ended(e) => Ended(e)'
  BY OnlyWorker DEF Out
<1>3. \A id : ~Releasing(id)
  BY OnlyWorker DEF Out
<1>4. \A e : ToCome(e)' \subseteq ToCome(e)
  BY <1>3 DEF ToCome
<1>5. \A e : Load(e)' <= Load(e) /\ Allowance(e) <= Allowance(e)'
  BY <1>2, <1>4, LoadStays, AllowanceKept
<1>6. RepliesCounted'
  BY <1>5, BooksBalance DEF Counted
<1> QED
  BY <1>1, <1>6, AutoStays, QuietMaps DEF Counted

\* A draft is parked under a new id.
LEMMA ParkStep ==
  ASSUME IInv, Numbered, IInv', Numbered', Counted, OneThread,
         NEW w \in Workers, NEW d \in Decisions, IsParked(w, d)
  PROVE  Counted' /\ [Once!Next]_(Once!vars)
<1>1. /\ work[w].pc = "decide" /\ UNCHANGED <<seen, messages, env>>
      /\ work'[w].pc = "mark" /\ work'[w].event = work[w].event
      /\ work'[w].delivery = work[w].delivery
      /\ pending' = SetKey(pending, d.id, [decision |-> d, event |-> work[w].event])
  BY DEF IsParked, Judged, JobIs, stores
<1>2. Active(work[w]) /\ Active(work'[w]) /\ ~Remembers(seen, work[w].event)
  <2>1. ~IsRelease(work[w])
    BY <1>1 DEF Numbered, JobNumbered
  <2>2. Active(work[w]) /\ Active(work'[w])
    BY <1>1, <2>1 DEF Active, IsRelease
  <2> QED
    BY <2>2 DEF Counted, OneAtWork
<1>3. OneAtWork'
  BY <1>1, <1>2, OnlyWorker DEF Out, Decided
<1>4. /\ \A e : Ended(e) => Ended(e)'
      /\ \A e : e = work[w].event => ~Ended(e) /\ Ended(e)'
  BY <1>1, <1>2, OnlyWorker DEF Out, Decided
<1>5. \A id : ~Releasing(id) /\ ~Releasing(id)'
  BY <1>1, OnlyWorker DEF Out, Decided
<1>6. /\ DOMAIN pending' = DOMAIN pending \cup {d.id}
      /\ \A id \in DOMAIN pending : id # d.id => pending'[id] = pending[id]
      /\ pending'[d.id].event = work[w].event
  BY <1>1 DEF SetKey
<1>7. Faults' = Faults
  BY <1>1 DEF Faults
<1>8. ASSUME NEW e \in Events
      PROVE  \/ Load(e)' <= Load(e) /\ Allowance(e) <= Allowance(e)'
             \/ Load(e)' <= Load(e) + 1 /\ Allowance(e) + 1 <= Allowance(e)'
  <2>1. CASE e = work[w].event
    <3>1. ToCome(e)' \subseteq ToCome(e) \cup {d.id}
      BY <1>5, <1>6 DEF ToCome
    <3>2. Load(e)' <= Load(e) + 1
      BY <1>1, <3>1, LoadGainsDraft
    <3>3. ~Ended(e) /\ Ended(e)'
      BY <1>4, <2>1
    <3>4. Allowance(e) + 1 <= Allowance(e)'
      BY <1>7, <3>3, AllowanceRaised
    <3> QED
      BY <3>2, <3>4
  <2>2. CASE e # work[w].event
    <3>1. ToCome(e)' \subseteq ToCome(e)
      BY <1>5, <1>6, <2>2 DEF ToCome
    <3> QED
      BY <1>1, <1>4, <1>7, <3>1, LoadStays, AllowanceKept
  <2> QED
    BY <2>1, <2>2
<1>9. RepliesCounted'
  BY <1>8, BooksBalance DEF Counted
<1> QED
  BY <1>1, <1>3, <1>7, <1>9, AutoStays, QuietMaps DEF Counted
\* The platform takes a reply.  An automatic one is a run that EffectOnce
\* allows; a released one turns a parked draft into a message.
LEMMA PostStep ==
  ASSUME IInv, Numbered, IInv', Numbered', Counted, OneThread, NEW w \in Workers, Posted(w),
         \/ /\ Faults' = Faults + 1 /\ work'[w].pc = "idle"
         \/ /\ Faults' = Faults /\ work'[w].pc = "spend"
            /\ work'[w].event = work[w].event /\ work'[w].delivery = work[w].delivery
            /\ work'[w].decision = work[w].decision
  PROVE  Counted' /\ [Once!Next]_(Once!vars)
<1>1. /\ work[w].pc = "send" /\ UNCHANGED <<seen, pending>>
      /\ Faults' = Faults \/ Faults' = Faults + 1
  BY DEF Posted, stores
<1>2. PICK e \in Events : e = work[w].event
  BY <1>1, JobTypes
<1>3. PICK id : id = work[w].decision.id
  OBVIOUS
<1>4. OneAtWork'
  BY <1>1, OnlyWorker DEF Counted, Active, IsRelease, Decided
<1>5. /\ \A f : Ended(f) => Ended(f)'
      /\ \A i : ~Releasing(i)
  BY <1>1, OnlyWorker DEF Out
<1>6. \A f : ToCome(f)' \subseteq ToCome(f)
  BY <1>1, <1>5 DEF ToCome
<1>7. /\ Faults \in Nat
      /\ \A f : /\ Cardinality(RepliesTo(f)) \in Nat /\ Cardinality(ToCome(f)) \in Nat
                /\ IsFiniteSet(ToCome(f)) /\ Cardinality(AutoReplies(f)) \in Nat
  BY CountsAreFinite, SumsAreNumbers
<1>8. \A f : /\ Cardinality(ToCome(f)') \in Nat
             /\ Cardinality(ToCome(f)') <= Cardinality(ToCome(f))
  <2> TAKE f
  <2>1. IsFiniteSet(ToCome(f)') /\ Cardinality(ToCome(f)') <= Cardinality(ToCome(f))
    BY <1>6, <1>7, FS_Subset
  <2> QED
    BY <2>1, FS_CardinalityType
<1>9. \A f : Cardinality(RepliesTo(f)') = Cardinality(RepliesTo(f)) + (IF f = e THEN 1 ELSE 0)
  BY <1>2, PostedCounts
<1>10. \A f : f # e => Load(f)' <= Load(f)
  BY <1>7, <1>8, <1>9 DEF Load
<1>11. Load(e)' <= Load(e) + 1
  <2>1. Cardinality(RepliesTo(e)') = Cardinality(RepliesTo(e)) + 1
    BY <1>9
  <2> QED
    BY <1>7, <1>8, <2>1 DEF Load
<1>12. \A f : Allowance(f) <= Allowance(f)'
  BY <1>1, <1>5, AllowanceKept
<1>13. CASE IsRelease(work[w])
  <2>1. \A f \in Events : Cardinality(AutoReplies(f)') = Cardinality(AutoReplies(f))
    BY <1>7, <1>13, PostedCounts
  <2>2. \/ Load(e)' <= Load(e)
        \/ Allowance(e) + 1 <= Allowance(e)'
    <3>1. CASE Faults' = Faults + 1
      BY <1>5, <3>1, AllowanceRaised
    <3>2. CASE Faults' = Faults
      <4>1. work'[w].pc = "spend" /\ work'[w].delivery = work[w].delivery
            /\ work'[w].decision = work[w].decision
        BY <1>7, <3>2
      <4>2. Releasing(id)'
        BY <1>3, <1>13, <4>1, OnlyWorker DEF IsRelease, Out
      <4>3. id \in DOMAIN pending /\ pending[id] = Parks(work[w])
        BY <1>1, <1>3, <1>13 DEF Counted, OneAtWork, Numbered, JobNumbered, Decided
      <4>4. id \in ToCome(e) /\ id \notin ToCome(e)'
        BY <1>2, <1>5, <4>2, <4>3 DEF ToCome, Parks
      <4>5. ToCome(e)' \subseteq ToCome(e) \ {id}
        BY <1>6, <4>4
      <4>6. /\ IsFiniteSet(ToCome(e) \ {id})
            /\ Cardinality(ToCome(e) \ {id}) = Cardinality(ToCome(e)) - 1
        BY <1>7, <4>4, FS_RemoveElement
      <4>7. Cardinality(ToCome(e)') <= Cardinality(ToCome(e)) - 1
        BY <4>5, <4>6, FS_Subset
      <4>8. Cardinality(RepliesTo(e)') = Cardinality(RepliesTo(e)) + 1
        BY <1>9
      <4> QED
        BY <1>7, <1>8, <4>7, <4>8 DEF Load
    <3> QED
      BY <1>1, <3>1, <3>2
  <2>3. RepliesCounted'
    BY <1>10, <1>11, <1>12, <2>2, BooksBalance DEF Counted
  <2> QED
    BY <1>1, <1>4, <2>1, <2>3, QuietMaps DEF Counted
<1>14. CASE ~IsRelease(work[w])
  <2>1. Active(work[w]) /\ ~Remembers(seen, e) /\ ~Ended(e)
    <3>1. Active(work[w])
      BY <1>1, <1>14 DEF Active
    <3>2. ~Remembers(seen, e)
      BY <1>2, <3>1 DEF Counted, OneAtWork
    <3> QED
      BY <1>1, <3>1, <3>2, OnlyWorker DEF Out
  <2>2. Faults' = Faults => Ended(e)'
    <3> SUFFICES ASSUME Faults' = Faults PROVE Ended(e)'
      OBVIOUS
    <3>1. /\ work'[w].pc = "spend" /\ work'[w].delivery = work[w].delivery
          /\ work'[w].event = e
      BY <1>2, <1>7
    <3> QED
      BY <1>14, <3>1, OnlyWorker DEF Active, IsRelease, Out
  <2>3. Allowance(e) + 1 <= Allowance(e)'
    BY <1>1, <1>5, <2>1, <2>2, AllowanceRaised
  <2>4. RepliesCounted'
    BY <1>10, <1>11, <1>12, <2>3, BooksBalance DEF Counted
  <2>5. Cardinality(AutoReplies(e)) <= Faults
    <3>1. Load(e) <= Faults
      BY <1>2, <1>7, <2>1 DEF Counted, RepliesCounted, Allowance
    <3> QED
      BY <1>7, <3>1, SumsAreNumbers
  <2>6. [f \in Events |-> Cardinality(AutoReplies(f))]' =
          [[f \in Events |-> Cardinality(AutoReplies(f))] EXCEPT ![e] = @ + 1]
    <3>1. Cardinality(AutoReplies(e)') = Cardinality(AutoReplies(e)) + 1
      BY <1>2, <1>14, PostedCounts
    <3>2. \A f \in Events : f # e => Cardinality(AutoReplies(f)') = Cardinality(AutoReplies(f))
      BY <1>2, <1>7, PostedCounts
    <3> QED
      BY <3>1, <3>2
  <2>7. Once!MayRun(e) /\ Once!Run(e)
    BY <1>1, <2>1, <2>5, <2>6 DEF Once!MayRun, Once!Run, Faults, Remembers
  <2>8. Once!Perform(e) \/ Once!PerformUnseen(e)
    BY <1>1, <2>7 DEF Once!Perform, Once!PerformUnseen, Faults
  <2> QED
    BY <1>4, <2>4, <2>8 DEF Once!Next, Counted
<1> QED
  BY <1>13, <1>14
\* The message is recorded: a released draft leaves the queue, an automatic
\* reply goes on to be marked.
LEMMA RecordStep ==
  ASSUME IInv, Numbered, IInv', Numbered', Counted, OneThread, NEW w \in Workers, RecordSent(w)
  PROVE  Counted' /\ [Once!Next]_(Once!vars)
<1>1. /\ work[w].pc = "record" /\ UNCHANGED <<seen, messages, env>> /\ Faults' = Faults
      /\ IF IsRelease(work[w])
         THEN pending' = DropKey(pending, work[w].decision.id) /\ work'[w] = Idle
         ELSE /\ UNCHANGED pending /\ work'[w].pc = "mark" /\ work'[w].event = work[w].event
              /\ work'[w].delivery = work[w].delivery
  BY RecordIs DEF JobIs, Faults, stores
<1>2. OneAtWork'
  BY <1>1, OnlyWorker DEF Counted, Active, IsRelease, Idle, Decided
<1>3. \A e : Ended(e) => Ended(e)'
  BY <1>1, OnlyWorker DEF Active, IsRelease, Out
<1>4. \A e : ToCome(e)' \subseteq ToCome(e)
  <2>1. CASE IsRelease(work[w])
    <3>1. \A id : Releasing(id) <=> id = work[w].decision.id
      BY <1>1, <2>1, OnlyWorker DEF Out
    <3>2. /\ DOMAIN pending' = DOMAIN pending \ {work[w].decision.id}
          /\ \A id \in DOMAIN pending' : pending'[id] = pending[id]
      BY <1>1, <2>1 DEF DropKey
    <3> QED
      BY <3>1, <3>2 DEF ToCome
  <2>2. CASE ~IsRelease(work[w])
    <3>1. \A id : ~Releasing(id)
      BY <2>2, OnlyWorker DEF Out
    <3> QED
      BY <1>1, <2>2, <3>1 DEF ToCome
  <2> QED
    BY <2>1, <2>2
<1>5. \A e : Load(e)' <= Load(e) /\ Allowance(e) <= Allowance(e)'
  BY <1>1, <1>3, <1>4, LoadStays, AllowanceKept
<1>6. RepliesCounted'
  BY <1>5, BooksBalance DEF Counted
<1> QED
  BY <1>1, <1>2, <1>6, AutoStays, QuietMaps DEF Counted

\* The approval is spent: the call moves on, and nothing it is counted by
\* changes.
LEMMA SpendStep ==
  ASSUME IInv, Numbered, IInv', Numbered', Counted, OneThread, NEW w \in Workers, Spend(w)
  PROVE  Counted' /\ [Once!Next]_(Once!vars)
<1>1. /\ work[w].pc = "spend" /\ work'[w].pc = "record" /\ UNCHANGED <<seen, pending, messages, env>>
      /\ work'[w].event = work[w].event /\ work'[w].delivery = work[w].delivery
      /\ work'[w].decision = work[w].decision
  BY PassIs DEF Spend, GuardPasses, Pc
<1>2. Active(work'[w]) <=> Active(work[w])
  BY <1>1 DEF Active, IsRelease
<1>3. Decided(work[w]) /\ Out(work[w]) /\ Out(work'[w]) /\ (IsRelease(work'[w]) <=> IsRelease(work[w]))
  BY <1>1 DEF Decided, Out, IsRelease
<1>4. OneAtWork'
  BY <1>1, <1>2, <1>3, OnlyWorker DEF Counted
<1>5. \A e : Ended(e) => Ended(e)'
  BY <1>1, <1>2, <1>3, OnlyWorker
<1>6. \A id : Releasing(id) => Releasing(id)'
  BY <1>1, <1>3, OnlyWorker
<1>7. \A e : ToCome(e)' \subseteq ToCome(e)
  BY <1>1, <1>6 DEF ToCome
<1>8. Faults' = Faults
  BY <1>1 DEF Faults
<1>9. \A e : Load(e)' <= Load(e) /\ Allowance(e) <= Allowance(e)'
  BY <1>1, <1>5, <1>7, <1>8, LoadStays, AllowanceKept
<1>10. RepliesCounted'
  BY <1>9, BooksBalance DEF Counted
<1> QED
  BY <1>1, <1>4, <1>8, <1>10, AutoStays, QuietMaps DEF Counted

\* A store that raises after the effect and keeps no key of an event: the
\* effect is hidden, or the draft whose message is out is parked as before.
LEMMA StoreFailsStep ==
  ASSUME IInv, Numbered, IInv', Numbered', Counted, OneThread, NEW w \in Workers,
         StoreFails(w), UNCHANGED seen
  PROVE  Counted' /\ [Once!Next]_(Once!vars)
<1>1. /\ work[w].pc \in {"spend", "mark"} /\ work'[w] = Idle
      /\ UNCHANGED <<seen, pending, messages>>
  BY FailIs DEF StoreFails, GivesUp, Pc
<1>2. Faults' = Faults + 1
  BY Disturbed DEF StoreFails, EnvKinds
<1>3. OneAtWork'
  BY <1>1, OnlyWorker DEF Active, Decided, Idle
<1>4. ASSUME NEW e \in Events
      PROVE  \/ Load(e)' <= Load(e) /\ Allowance(e) <= Allowance(e)'
             \/ Load(e)' <= Load(e) + 1 /\ Allowance(e) + 1 <= Allowance(e)'
  <2>1. CASE Out(work[w]) /\ IsRelease(work[w])
    <3>1. PICK id : id = work[w].decision.id
      OBVIOUS
    <3>2. \A i : Releasing(i) => i = id
      BY <3>1, OnlyWorker
    <3>3. ToCome(e)' \subseteq ToCome(e) \cup {id}
      BY <1>1, <3>2 DEF ToCome
    <3>4. Load(e)' <= Load(e) + 1
      BY <1>1, <3>3, LoadGainsDraft
    <3>5. Ended(e) => Ended(e)'
      BY <1>1, <2>1, OnlyWorker DEF Active
    <3> QED
      BY <1>2, <3>4, <3>5, AllowanceRaised
  <2>2. CASE ~(Out(work[w]) /\ IsRelease(work[w]))
    <3>1. \A id : ~Releasing(id)
      BY <2>2, OnlyWorker
    <3>2. ToCome(e)' \subseteq ToCome(e)
      BY <1>1, <3>1 DEF ToCome
    <3> QED
      BY <1>1, <1>2, <3>2, LoadStays, AllowanceKept
  <2> QED
    BY <2>1, <2>2
<1>5. RepliesCounted'
  BY <1>4, BooksBalance DEF Counted
<1> QED
  BY <1>1, <1>2, <1>3, <1>5, AutoStays, QuietMaps DEF Counted

\* The handler has completed, and the store has kept the key.
LEMMA MarkStep ==
  ASSUME IInv, Numbered, IInv', Numbered', Counted, OneThread, NEW w \in Workers,
         MarkSeen(w) \/ (StoreFails(w) /\ ~UNCHANGED seen)
  PROVE  Counted' /\ [Once!Next]_(Once!vars)
<1>1. /\ work[w].pc = "mark" /\ work'[w] = Idle /\ UNCHANGED <<pending, messages>>
      /\ DOMAIN seen' = DOMAIN seen \cup {work[w].event}
  BY MarkIs DEF SetKey
<1>2. PICK e \in Events : e = work[w].event
  BY <1>1, JobTypes
<1>3. Faults' = Faults \/ Faults' = Faults + 1
  <2>1. CASE MarkSeen(w)
    BY <2>1 DEF MarkSeen, Faults
  <2>2. CASE StoreFails(w)
    BY <2>2, Disturbed DEF StoreFails, EnvKinds
  <2> QED
    BY <2>1, <2>2
<1>4. OneAtWork'
  BY <1>1, OnlyWorker DEF Active, Decided, Idle
<1>5. \A f : Ended(f) => Ended(f)'
  BY <1>1, OnlyWorker DEF Remembers, Out
<1>6. \A id : ~Releasing(id)
  BY <1>1, OnlyWorker DEF Out
<1>7. \A f : ToCome(f)' \subseteq ToCome(f)
  BY <1>1, <1>6 DEF ToCome
<1>8. \A f : Load(f)' <= Load(f) /\ Allowance(f) <= Allowance(f)'
  BY <1>1, <1>3, <1>5, <1>7, LoadStays, AllowanceKept
<1>9. RepliesCounted'
  BY <1>8, BooksBalance DEF Counted
<1> QED
  BY <1>1, <1>2, <1>3, <1>4, <1>9, AutoStays, FinishMaps DEF Counted

\* A restart forgets the parked drafts and what was begun, and may forget
\* what was done; it is one fault.
LEMMA CrashStep ==
  ASSUME IInv, Numbered, IInv', Numbered', Counted, Crash
  PROVE  Counted' /\ [Once!Next]_(Once!vars)
<1>1. /\ work' = [w \in Workers |-> Idle] /\ pending' = EmptyStore /\ UNCHANGED messages
      /\ DOMAIN seen' \in {DOMAIN seen, {}} /\ (\A e : Remembers(seen', e) => Remembers(seen, e))
  BY DEF Crash, EmptyStore, Remembers
<1>2. Faults' = Faults + 1 /\ Faults \in Nat
  BY Disturbed, SumsAreNumbers DEF Crash, EnvKinds
<1>3. OneAtWork'
  BY <1>1 DEF OneAtWork, Active, Decided, Idle
<1>4. \A e : ToCome(e)' \subseteq ToCome(e)
  BY <1>1 DEF ToCome, EmptyStore
<1>5. \A e : Load(e)' <= Load(e) /\ Allowance(e) <= Allowance(e)'
  BY <1>1, <1>2, <1>4, LoadStays, AllowanceKept
<1>6. RepliesCounted'
  BY <1>5, BooksBalance DEF Counted
<1>7. [f \in Events |-> Cardinality(AutoReplies(f))]' = [f \in Events |-> Cardinality(AutoReplies(f))]
  BY <1>1, AutoStays
<1>8. Once!Fault
  BY <1>1, <1>2, <1>7 DEF Once!Fault, Faults
<1> QED
  BY <1>3, <1>6, <1>8 DEF Once!Next, Counted
-----------------------------------------------------------------------------
(* Each action is one of these steps.                                      *)

LEMMA ReceiveCounted ==
  ASSUME IInv, Numbered, IInv', Numbered', Counted, OneThread, NEW w \in Workers,
         RejectForged(w) \/ \E e \in Events : Receive(w, e) \/ LookupFails(w, e)
  PROVE  Counted' /\ [Once!Next]_(Once!vars)
<1>1. CASE TurnsAway(w)
  <2>1. work[w].pc = "idle" /\ UNCHANGED <<seen, pending, messages, work>>
    BY <1>1, TurnAwayIs DEF stores
  <2>2. Faults' = Faults
    <3>1. CASE RejectForged(w) \/ \E e \in Events : LookupFails(w, e)
      BY <3>1, Disturbed DEF RejectForged, LookupFails, EnvKinds
    <3>2. CASE UNCHANGED env
      BY <3>2 DEF Faults
    <3> QED
      BY <1>1, <3>1, <3>2 DEF TurnsAway, ReceiveMalformed, ReceiveDuplicate
  <2>3. work'[w].pc = "idle"
    BY <2>1
  <2> QED
    BY <2>1, <2>2, <2>3, PlainStep DEF Active, Decided
<1>2. ASSUME NEW e \in Events, ReceiveNew(w, e)
      PROVE  Counted' /\ [Once!Next]_(Once!vars)
  <2>1. attempts[e] + 1 \in Nat
    BY TypesOf
  <2>2. PICK n \in Nat : n = attempts[e] + 1
    BY <2>1
  <2>3. /\ ~Remembers(seen, e) /\ work[w].pc = "idle" /\ UNCHANGED <<seen, pending, messages, env>>
        /\ \/ UNCHANGED work
           \/ JobIs(work'[w], "mark", e, n)
           \/ JobIs(work'[w], "fetch", e, n)
    BY <1>2, <2>2, TakeIs DEF stores
  <2>4. Faults' = Faults
    BY <2>3 DEF Faults
  <2>5. work'[w].pc \in {"idle", "mark", "fetch"} /\ (work'[w].pc # "idle" => work'[w].event = e)
    BY <2>3 DEF JobIs
  <2> QED
    BY <2>3, <2>4, <2>5, PlainStep DEF Active, Decided
<1> QED
  BY <1>1, <1>2 DEF Receive, TurnsAway

LEMMA HandlerCounted ==
  ASSUME IInv, Numbered, IInv', Numbered', Counted, OneThread, NEW w \in Workers,
         \/ FetchContact(w) \/ Decide(w) \/ GuardPasses(w) \/ GuardStops(w)
         \/ SendRefused(w) \/ CallFails(w)
  PROVE  Counted' /\ [Once!Next]_(Once!vars)
<1>1. Active(work[w]) => ~Remembers(seen, work[w].event)
  BY DEF Counted, OneAtWork
<1>2. CASE FetchContact(w)
  <2>1. /\ work[w].pc = "fetch" /\ UNCHANGED <<seen, pending, messages, env>>
        /\ JobIs(work'[w], "decide", work[w].event, work[w].delivery)
    BY <1>2, FetchIs DEF stores
  <2>2. Faults' = Faults
    BY <2>1 DEF Faults
  <2> QED
    BY <1>1, <2>1, <2>2, PlainStep DEF JobIs, Active, IsRelease, Decided
<1>3. CASE Decide(w)
  <2>1. PICK d \in Decisions : IsSubmitted(w, d) \/ IsParked(w, d) \/ IsBlocked(w, d)
    BY <1>3, DecideIs
  <2>2. CASE IsParked(w, d)
    BY <2>2, ParkStep
  <2>3. CASE ~IsParked(w, d)
    <3>1. /\ work[w].pc = "decide" /\ UNCHANGED <<seen, pending, messages, env>>
          /\ \/ JobIs(work'[w], "check", work[w].event, work[w].delivery)
             \/ JobIs(work'[w], "mark", work[w].event, work[w].delivery)
      BY <2>1, <2>3 DEF IsSubmitted, IsBlocked, Judged, stores
    <3>2. Faults' = Faults
      BY <3>1 DEF Faults
    <3>3. ~IsRelease(work[w])
      BY <3>1 DEF Numbered, JobNumbered
    <3>4. /\ work'[w].pc \in {"check", "mark"} /\ work'[w].event = work[w].event
          /\ ~IsRelease(work'[w])
      BY <3>1, <3>3 DEF JobIs, IsRelease
    <3> QED
      BY <1>1, <3>1, <3>2, <3>3, <3>4, PlainStep DEF Active
  <2> QED
    BY <2>2, <2>3
<1>4. CASE GuardPasses(w)
  <2>1. /\ work[w].pc = "check" /\ work'[w].pc = "send" /\ UNCHANGED <<seen, pending, messages, env>>
        /\ work'[w].event = work[w].event /\ work'[w].delivery = work[w].delivery
        /\ work'[w].decision = work[w].decision
    BY <1>4, PassIs DEF Spend, GuardPasses, Pc
  <2>2. Decided(work[w]) /\ (Active(work'[w]) <=> Active(work[w])) /\ (IsRelease(work'[w]) <=> IsRelease(work[w]))
    BY <2>1 DEF Decided, Active, IsRelease
  <2>3. Faults' = Faults
    BY <2>1 DEF Faults
  <2>4. IsRelease(work[w]) => work[w].decision.id \in DOMAIN pending
    BY <2>2 DEF Counted, OneAtWork
  <2> QED
    BY <1>1, <2>1, <2>2, <2>3, <2>4, PlainStep
<1>5. CASE SendRefused(w) \/ CallFails(w) \/ GuardStops(w)
  <2>1. /\ work[w].pc \in {"fetch", "decide", "check", "send"} /\ work'[w] = Idle
        /\ UNCHANGED <<seen, pending, messages>>
    BY <1>5, FailIs DEF SendRefused, CallFails, GuardStops, GivesUp, Pc
  <2>2. Faults' = Faults
    <3>1. CASE SendRefused(w) \/ GuardStops(w)
      BY <3>1 DEF SendRefused, GuardStops, Faults
    <3>2. CASE CallFails(w)
      BY <3>2, Disturbed DEF CallFails, EnvKinds
    <3> QED
      BY <1>5, <3>1, <3>2
  <2>3. work'[w].pc = "idle"
    BY <2>1 DEF Idle
  <2> QED
    BY <2>1, <2>2, <2>3, PlainStep DEF Active, Decided
<1> QED
  BY <1>2, <1>3, <1>4, <1>5

LEMMA SendCounted ==
  ASSUME IInv, Numbered, IInv', Numbered', Counted, OneThread, NEW w \in Workers,
         SendAccepted(w) \/ SendReplyLost(w)
  PROVE  Counted' /\ [Once!Next]_(Once!vars)
<1>1. CASE SendAccepted(w)
  <2>1. /\ Posted(w) /\ UNCHANGED env /\ work'[w].decision = work[w].decision
        /\ JobIs(work'[w], "spend", work[w].event, work[w].delivery)
    BY <1>1, AcceptIs
  <2>2. Faults' = Faults
    BY <2>1 DEF Faults
  <2> QED
    BY <2>1, <2>2, PostStep DEF JobIs
<1>2. CASE SendReplyLost(w)
  <2>1. Posted(w) /\ work'[w] = Idle
    BY <1>2, LoseIs DEF GivesUp
  <2>2. Faults' = Faults + 1
    BY <1>2, Disturbed DEF SendReplyLost, EnvKinds
  <2>3. work'[w].pc = "idle"
    BY <2>1 DEF Idle
  <2> QED
    BY <2>1, <2>2, <2>3, PostStep
<1> QED
  BY <1>1, <1>2

LEMMA ReleaseCounted ==
  ASSUME IInv, Numbered, IInv', Numbered', Counted, OneThread, NEW w \in Workers,
         NEW id \in DOMAIN pending, ReleaseDraft(w, id)
  PROVE  Counted' /\ [Once!Next]_(Once!vars)
<1>1. /\ work[w].pc = "idle" /\ UNCHANGED <<seen, pending, messages>>
      /\ JobIs(work'[w], "check", pending[id].event, 0)
      /\ work'[w].decision = pending[id].decision
  BY ReleaseIs DEF stores
<1>2. Faults' = Faults
  BY Disturbed DEF ReleaseDraft, EnvKinds
<1>3. pending[id].decision.id = id
  BY DEF Numbered, ParkedNumbered
<1>4. IsRelease(work'[w]) /\ work'[w].decision.id \in DOMAIN pending
  BY <1>1, <1>3 DEF JobIs, IsRelease
<1> QED
  BY <1>1, <1>2, <1>4, PlainStep DEF Active

LEMMA QuietCounted ==
  ASSUME IInv, Numbered, IInv', Numbered', Counted,
         UNCHANGED vars \/ OpenOrClose \/ \E c \in Contacts : ChangeOptOut(c)
  PROVE  Counted' /\ [Once!Next]_(Once!vars)
<1>1. UNCHANGED <<seen, pending, messages, work>>
  BY QuietIs DEF stores
<1>2. Faults' = Faults
  <2>1. CASE UNCHANGED env
    BY <2>1 DEF Faults
  <2>2. CASE \E c \in Contacts : ChangeOptOut(c)
    BY <2>2, Disturbed DEF ChangeOptOut, EnvKinds
  <2> QED
    BY <2>1, <2>2 DEF vars, OpenOrClose
<1>3. OneAtWork'
  BY <1>1 DEF Counted, OneAtWork
<1>4. \A e : ToCome(e)' \subseteq ToCome(e) /\ (Ended(e) => Ended(e)')
  BY <1>1 DEF ToCome, Releasing, Ended
<1>5. \A e : Load(e)' <= Load(e) /\ Allowance(e) <= Allowance(e)'
  BY <1>1, <1>2, <1>4, LoadStays, AllowanceKept
<1>6. RepliesCounted'
  BY <1>5, BooksBalance DEF Counted
<1> QED
  BY <1>1, <1>2, <1>3, <1>6, AutoStays, QuietMaps DEF Counted

LEMMA StepCounted ==
  ASSUME IInv, Numbered, IInv', Numbered', Counted, OneThread, [Next]_vars
  PROVE  Counted' /\ [Once!Next]_(Once!vars)
<1>1. ASSUME NEW w \in Workers,
             Continue(w) \/ SendReplyLost(w) \/ CallFails(w) \/ StoreFails(w)
      PROVE  Counted' /\ [Once!Next]_(Once!vars)
  BY <1>1, HandlerCounted, SendCounted, SpendStep, RecordStep, MarkStep, StoreFailsStep DEF Continue
<1>2. ASSUME NEW w \in Workers,
             RejectForged(w) \/ \E e \in Events : Receive(w, e) \/ LookupFails(w, e)
      PROVE  Counted' /\ [Once!Next]_(Once!vars)
  BY <1>2, ReceiveCounted
<1>3. ASSUME NEW w \in Workers, NEW id \in DOMAIN pending, ReleaseDraft(w, id)
      PROVE  Counted' /\ [Once!Next]_(Once!vars)
  BY <1>3, ReleaseCounted
<1> QED
  BY <1>1, <1>2, <1>3, CrashStep, QuietCounted DEF Next

LEMMA InitCounted == Init => Counted /\ Once!Init
<1> SUFFICES ASSUME Init PROVE Counted /\ Once!Init
  OBVIOUS
<1>1. IInv /\ Numbered
  BY InitOK, InitNumbered
<1>2. \A e : RepliesTo(e) = {} /\ AutoReplies(e) = {} /\ ToCome(e) = {}
  BY DEF Init, RepliesTo, AutoReplies, ToCome, EmptyStore
<1>3. \A e : Cardinality(AutoReplies(e)) = 0 /\ Load(e) = 0
  BY <1>2, FS_EmptySet DEF Load
<1>4. OneAtWork
  BY DEF Init, OneAtWork, Active, Decided, Idle
<1>5. RepliesCounted
  BY <1>1, <1>3, SumsAreNumbers DEF RepliesCounted
<1>6. Once!Init
  BY <1>3 DEF Init, Once!Init, EmptyStore, EnvKinds, Faults
<1> QED
  BY <1>4, <1>5, <1>6 DEF Counted

LEMMA InvCounted == OneThread /\ Spec => [](IInv /\ Numbered /\ Counted)
<1> SUFFICES ASSUME OneThread PROVE Spec => [](IInv /\ Numbered /\ Counted)
  OBVIOUS
<1>1. IInv /\ Numbered /\ IInv' /\ Numbered' /\ Counted /\ [Next]_vars => Counted'
  BY StepCounted
<1> QED
  BY <1>1, InitCounted, InvNumbered, PTL DEF Spec

-----------------------------------------------------------------------------
\* With one thread the reply path keeps the promise of the intake: an
\* automatic reply runs again only when a restart, a lost reply or a failing
\* store hid an earlier one (webhook.py marks a key after the handler).
THEOREM RepliesAreAnEffectOnce == OneThread /\ Spec => RepliesOnce
<1> SUFFICES ASSUME OneThread PROVE Spec => RepliesOnce
  OBVIOUS
<1>1. IInv /\ Numbered /\ IInv' /\ Numbered' /\ Counted /\ [Next]_vars => [Once!Next]_(Once!vars)
  BY StepCounted
<1>2. Init => Once!Init
  BY InitCounted
<1>3. Spec => Once!Init /\ [][Once!Next]_(Once!vars)
  BY <1>1, <1>2, InvCounted, PTL DEF Spec
<1> QED
  BY <1>3 DEF RepliesOnce, Once!Spec

\* With one thread no event draws more replies, automatic or released, than
\* one and one for each restart, lost reply and failing store: what is out
\* and what is still parked for it are counted together (guard.py spends an
\* approval, bridge.py drops a draft, only after the send).
THEOREM RepliesArePaidFor == OneThread /\ Spec => []ExtraRepliesArePaidFor
<1> SUFFICES ASSUME OneThread PROVE Spec => []ExtraRepliesArePaidFor
  OBVIOUS
<1>1. IInv /\ Numbered /\ Counted => ExtraRepliesArePaidFor
  <2> SUFFICES ASSUME IInv, Numbered, Counted, NEW e \in Events
               PROVE  Cardinality(RepliesTo(e)) <= 1 + Faults
    BY DEF ExtraRepliesArePaidFor
  <2>1. Load(e) <= Allowance(e)
    BY DEF Counted, RepliesCounted
  <2>2. Faults \in Nat
    BY SumsAreNumbers
  <2>3. Cardinality(RepliesTo(e)) <= Load(e)
    BY CountsAreFinite DEF Load
  <2>4. Cardinality(RepliesTo(e)) \in Nat /\ Load(e) \in Nat /\ Allowance(e) \in Nat
    BY CountsAreFinite, SumsAreNumbers
  <2>5. Allowance(e) <= Faults + 1
    BY SumsAreNumbers DEF Allowance
  <2> QED
    BY <2>1, <2>2, <2>3, <2>4, <2>5
<1> QED
  BY <1>1, InvCounted, PTL

\* With one thread the delivery a duplicate answer names is the first one that
\* completed, until a restart of volatile stores forgets it: an event at work
\* is not seen yet, so no mark overwrites another (webhook.py, receive).
THEOREM FirstDeliveriesStand == OneThread /\ Spec => FirstDeliveryStands
<1> SUFFICES ASSUME OneThread PROVE Spec => FirstDeliveryStands
  OBVIOUS
<1>1. IInv /\ Numbered /\ Counted /\ [Next]_vars =>
        [\A e \in DOMAIN seen :
           \/ e \in DOMAIN seen' /\ seen'[e] = seen[e]
           \/ ~durable /\ env'["crash"] > env["crash"]]_vars
  <2> SUFFICES ASSUME IInv, Numbered, Counted, [Next]_vars, NEW e \in DOMAIN seen
               PROVE  \/ e \in DOMAIN seen' /\ seen'[e] = seen[e]
                      \/ ~durable /\ env'["crash"] > env["crash"]
    OBVIOUS
  <2>1. CASE UNCHANGED seen
    BY <2>1
  <2>2. ASSUME NEW w \in Workers, MarkSeen(w) \/ (StoreFails(w) /\ ~UNCHANGED seen)
        PROVE  e \in DOMAIN seen' /\ seen'[e] = seen[e]
    <3>1. work[w].pc = "mark" /\ seen' = SetKey(seen, work[w].event, work[w].delivery)
      BY <2>2, MarkIs
    <3>2. Active(work[w])
      BY <3>1 DEF Numbered, JobNumbered, Active
    <3>3. work[w].event # e
      BY <3>2 DEF Counted, OneAtWork, Remembers
    <3> QED
      BY <3>1, <3>3 DEF SetKey
  <2>3. CASE Crash
    <3>1. env' = [env EXCEPT !["crash"] = env["crash"] + 1] /\ env \in [EnvKinds -> Nat]
          /\ (durable => seen' = seen)
      BY <2>3, TypesOf DEF Crash, Disturb
    <3>2. env'["crash"] > env["crash"]
      BY <3>1 DEF EnvKinds
    <3> QED
      BY <3>1, <3>2
  <2>4. \/ UNCHANGED seen
        \/ \E w \in Workers : MarkSeen(w) \/ (StoreFails(w) /\ ~UNCHANGED seen)
        \/ Crash
    BY ZenonT(60) DEF Next, Receive, RejectForged, ReceiveMalformed, ReceiveDuplicate, ReceiveNew,
           LookupFails, NextAttempt, Continue, FetchContact, Decide, GuardPasses, GuardStops,
           Spend, SendRefused, SendAccepted, Send,
           RecordSent, SendReplyLost, CallFails, StoreFails, ReleaseDraft, ChangeOptOut,
           OpenOrClose, stores, vars
  <2> QED
    BY <2>1, <2>2, <2>3, <2>4
<1> QED
  BY <1>1, InvCounted, PTL DEF Spec, FirstDeliveryStands
=============================================================================
