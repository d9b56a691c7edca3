---------------------------- MODULE PacingProofs ----------------------------
(***************************************************************************)
(* For all limits, windows, days, latencies and budgets: what the rate     *)
(* discipline keeps, and what it keeps for a caller that is alone.         *)
(***************************************************************************)
EXTENDS Pacing, FiniteSetTheorems, SequenceTheorems, TLAPS

Pacers  == [calls : Seq(Nat), day : Nat, count : Nat]
Servers == [start : Nat, used : 0..BurstLimit, day : Nat, count : 0..DailyLimit]
Jobs    == [pc : {"idle", "sleep", "flight", "backoff"}, until : Nat,
            retries : 0..MaxRetries, slept : {"none", "burst", "day"}]
Counts  == [{"begun", "others", "restarts", "unchecked", "refused", "exhausted"} -> Nat]

\* A window of calls in time order, none of them in the future.
InOrder(s) ==
  /\ s \in Seq(Nat)
  /\ \A i, k \in 1..Len(s) : i <= k => s[i] <= s[k]
  /\ \A i \in 1..Len(s) : s[i] <= now

IInv == TypeOK /\ InOrder(pacer.calls)

-----------------------------------------------------------------------------
(* Days.                                                                   *)

LEMMA TodayType ==
  ASSUME NEW t \in Nat
  PROVE  Today(t) \in Nat /\ Today(t) * DayLength <= t /\ t < Midnight(t) /\ Midnight(t) \in Nat
BY LimitAssumption DEF Today, Midnight

LEMMA TodayGrows ==
  ASSUME NEW s \in Nat, NEW t \in Nat, s <= t
  PROVE  Today(s) <= Today(t)
BY LimitAssumption, TodayType DEF Today

\* From midnight on it is another day.
LEMMA MidnightTurnsTheDay ==
  ASSUME NEW s \in Nat, NEW t \in Nat, Midnight(s) <= t
  PROVE  Today(s) < Today(t)
BY LimitAssumption, TodayType DEF Today, Midnight

-----------------------------------------------------------------------------
(* The window.                                                             *)

\* In an ordered window the expired calls are a prefix.
LEMMA ExpiredArePrefix ==
  ASSUME now \in Nat, NEW s, InOrder(s)
  PROVE  /\ Cardinality(Expired(s)) \in 0..Len(s)
         /\ Expired(s) = 1..Cardinality(Expired(s))
<1> DEFINE n == Cardinality(Expired(s))
<1>1. Len(s) \in Nat /\ \A i \in 1..Len(s) : s[i] \in Nat
  BY DEF InOrder
<1>2. /\ Expired(s) \subseteq 1..Len(s)
      /\ \A k \in Nat : IsFiniteSet(1..k) /\ Cardinality(1..k) = k
  <2>1. ASSUME NEW k \in Nat PROVE IsFiniteSet(1..k) /\ Cardinality(1..k) = k
    <3>1. IsFiniteSet(1..k) /\ Cardinality(1..k) = IF 1 > k THEN 0 ELSE k - 1 + 1
      BY FS_Interval
    <3> QED
      BY <3>1
  <2> QED
    BY <1>1, <2>1 DEF Expired
<1>3. IsFiniteSet(Expired(s)) /\ n \in Nat /\ n <= Len(s)
  BY <1>1, <1>2, FS_Subset, FS_CardinalityType
<1>4. \A i, k \in 1..Len(s) : k \in Expired(s) /\ i <= k => i \in Expired(s)
  BY <1>1, LimitAssumption, SMTT(60) DEF InOrder, Expired
<1> HIDE DEF n
<1>5. ASSUME NEW k \in Expired(s) PROVE k <= n
  <2>1. 1..k \subseteq Expired(s) /\ k \in Nat
    BY <1>1, <1>2, <1>4
  <2>2. Cardinality(1..k) = k
    BY <1>2, <2>1
  <2> QED
    BY <1>3, <2>1, <2>2, FS_Subset DEF n
<1>6. ASSUME NEW i \in 1..n PROVE i \in Expired(s)
  <2> SUFFICES ASSUME i \notin Expired(s) PROVE FALSE
    OBVIOUS
  <2>2. Expired(s) \subseteq 1..(i - 1)
    BY <1>1, <1>2, <1>3, <1>4
  <2>3. IsFiniteSet(1..(i - 1)) /\ Cardinality(1..(i - 1)) = i - 1
    BY <1>2, <1>3
  <2>4. n <= i - 1
    BY <2>2, <2>3, FS_Subset DEF n
  <2> QED
    BY <1>3, <2>4
<1>7. Expired(s) = 1..n
  <2>1. \A k \in Expired(s) : k \in 1..n
    BY <1>1, <1>2, <1>3, <1>5
  <2> QED
    BY <1>6, <2>1
<1> QED
  BY <1>3, <1>7 DEF n

\* How many calls the popleft loop drops from s.
Gone(s) == Cardinality(Expired(s))

\* What wait_before_call looks at: the calls of the last Window ticks, and
\* all of them.
LEMMA RecentIs ==
  ASSUME now \in Nat, NEW s, InOrder(s)
  PROVE  /\ Gone(s) \in 0..Len(s)
         /\ Len(Recent(s)) = Len(s) - Gone(s)
         /\ \A i \in 1..Len(Recent(s)) :
              Recent(s)[i] = s[Gone(s) + i] /\ now - Recent(s)[i] < Window
         /\ \A i \in 1..Gone(s) : s[i] + Window <= now
         /\ InOrder(Recent(s))
<1> DEFINE n == Gone(s)
           r == Recent(s)
<1>1. n \in 0..Len(s) /\ Expired(s) = 1..n
  BY ExpiredArePrefix DEF Gone
<1>2. Len(s) \in Nat /\ \A i \in 1..Len(s) : s[i] \in Nat
  BY DEF InOrder
<1>3. r = SubSeq(s, n + 1, Len(s))
  BY DEF Recent, Gone
<1> HIDE DEF n, r
<1>4. \A i \in (n + 1)..Len(s) : s[i] \in Nat
  BY <1>1, <1>2
<1>5. /\ r \in Seq(Nat)
      /\ Len(r) = Len(s) - n
      /\ \A i \in 1..(Len(s) - n) : r[i] = s[n + i]
  <2>1. n + 1 \in Int /\ Len(s) \in Int
    BY <1>1, <1>2
  <2>2. /\ r \in Seq(Nat)
        /\ Len(r) = IF n + 1 <= Len(s) THEN Len(s) - (n + 1) + 1 ELSE 0
        /\ \A i \in 1..(Len(s) - (n + 1) + 1) : r[i] = s[(n + 1) + i - 1]
    BY <1>3, <1>4, <2>1, SubSeqProperties
  <2>3. \A i \in 1..(Len(s) - n) : (n + 1) + i - 1 = n + i
    BY <1>1, <1>2
  <2> QED
    BY <1>1, <1>2, <2>2, <2>3
<1>6. \A i \in 1..Len(s) : i \in Expired(s) <=> now - s[i] >= Window
  BY DEF Expired
<1>7. ASSUME NEW i \in 1..Len(r) PROVE r[i] = s[n + i] /\ now - r[i] < Window /\ r[i] <= now
  <2>1. n + i \in 1..Len(s) /\ ~(n + i \in 1..n) /\ r[i] = s[n + i]
    BY <1>1, <1>2, <1>5
  <2>2. ~(now - s[n + i] >= Window) /\ s[n + i] <= now /\ s[n + i] \in Nat
    BY <1>1, <1>2, <1>6, <2>1 DEF InOrder
  <2> QED
    BY <2>1, <2>2, LimitAssumption
<1>8. \A i \in 1..n : s[i] + Window <= now
  BY <1>1, <1>2, <1>6, LimitAssumption
<1>9. \A i, k \in 1..Len(r) : i <= k => r[i] <= r[k]
  <2> TAKE i, k \in 1..Len(r)
  <2> HAVE i <= k
  <2>1. n + i \in 1..Len(s) /\ n + k \in 1..Len(s) /\ n + i <= n + k
    BY <1>1, <1>2, <1>5
  <2>2. s[n + i] <= s[n + k]
    BY <2>1 DEF InOrder
  <2> QED
    BY <1>7, <2>2
<1>10. InOrder(r)
  BY <1>5, <1>7, <1>9 DEF InOrder
<1> QED
  BY <1>1, <1>5, <1>7, <1>8, <1>10 DEF n, r

LEMMA AppendInOrder ==
  ASSUME now \in Nat, NEW s, InOrder(s)
  PROVE  InOrder(Append(s, now))
BY AppendProperties DEF InOrder

-----------------------------------------------------------------------------
(* Records.                                                                *)

LEMMA PacerType ==
  ASSUME NEW p \in Pacers, NEW s \in Seq(Nat), NEW d \in Nat, NEW n \in Nat
  PROVE  /\ [p EXCEPT !.day = d, !.count = n] \in Pacers
         /\ [p EXCEPT !.calls = s] \in Pacers
         /\ [p EXCEPT !.calls = s, !.count = n] \in Pacers
BY DEF Pacers

LEMMA ServerType ==
  ASSUME NEW r \in Servers, NEW t \in Nat, NEW d \in Nat,
         NEW m \in 0..BurstLimit, NEW n \in 0..DailyLimit
  PROVE  /\ [r EXCEPT !.day = d, !.count = n] \in Servers
         /\ [r EXCEPT !.start = t, !.used = m] \in Servers
         /\ [r EXCEPT !.used = m, !.count = n] \in Servers
<1> DEFINE M == 0..BurstLimit
           N == 0..DailyLimit
<1>1. Servers = [start : Nat, used : M, day : Nat, count : N]
  BY DEF Servers
<1> HIDE DEF M, N
<1>2. m \in M /\ n \in N
  BY DEF M, N
<1> QED
  BY <1>1, <1>2

LEMMA JobType ==
  ASSUME NEW j \in Jobs, NEW pc \in {"idle", "sleep", "flight", "backoff"}, NEW t \in Nat,
         NEW r \in 0..MaxRetries, NEW s \in {"none", "burst", "day"}
  PROVE  /\ [j EXCEPT !.pc = pc, !.until = t] \in Jobs
         /\ [j EXCEPT !.pc = pc, !.until = t, !.retries = r] \in Jobs
         /\ [j EXCEPT !.pc = pc, !.until = t, !.slept = s] \in Jobs
         /\ [j EXCEPT !.slept = s] \in Jobs
<1> DEFINE R == 0..MaxRetries
<1>1. Jobs = [pc : {"idle", "sleep", "flight", "backoff"}, until : Nat,
              retries : R, slept : {"none", "burst", "day"}]
  BY DEF Jobs
<1> HIDE DEF R
<1>2. r \in R
  BY DEF R
<1> QED
  BY <1>1, <1>2

-----------------------------------------------------------------------------
(* LocationPacer.                                                          *)

LEMMA LookedIs ==
  ASSUME IInv
  PROVE  /\ Looked \in Pacers /\ InOrder(Looked.calls)
         /\ Looked.day = Today(now)
         /\ Looked.count = IF pacer.day = Today(now) THEN pacer.count ELSE 0
         /\ DayIsSpent => Looked.calls = pacer.calls
         /\ ~DayIsSpent => Looked.calls = Recent(pacer.calls) /\ Looked.count < DailyLimit
<1>1. pacer \in Pacers /\ now \in Nat /\ Today(now) \in Nat /\ InOrder(pacer.calls)
  BY TodayType DEF IInv, TypeOK, Pacers
<1>2. /\ Rolled \in Pacers /\ Rolled.calls = pacer.calls /\ Rolled.day = Today(now)
      /\ Rolled.count = IF pacer.day = Today(now) THEN pacer.count ELSE 0
  BY <1>1 DEF Rolled, RollDay, Pacers
<1>3. CASE DayIsSpent
  BY <1>1, <1>2, <1>3 DEF Looked
<1>4. CASE ~DayIsSpent
  <2>1. InOrder(Recent(pacer.calls)) /\ Recent(pacer.calls) \in Seq(Nat)
    BY <1>1, RecentIs DEF InOrder
  <2>2. /\ Looked \in Pacers /\ Looked.calls = Recent(pacer.calls)
        /\ Looked.day = Rolled.day /\ Looked.count = Rolled.count
    BY <1>2, <1>4, <2>1 DEF Looked, Pacers
  <2>3. Rolled.count < DailyLimit
    BY <1>2, <1>4, LimitAssumption DEF DayIsSpent, Pacers
  <2> QED
    BY <1>2, <1>4, <2>1, <2>2, <2>3
<1> QED
  BY <1>3, <1>4

\* The wait is to midnight, or until the oldest call leaves the window.
LEMMA WaitIs ==
  ASSUME IInv
  PROVE  /\ WaitBeforeCall \in Nat
         /\ DayIsSpent => WaitBeforeCall > 0 /\ now + WaitBeforeCall = Midnight(now)
         /\ ~DayIsSpent /\ Len(Looked.calls) < BurstLimit => WaitBeforeCall = 0
         /\ ~DayIsSpent /\ Len(Looked.calls) >= BurstLimit =>
              WaitBeforeCall > 0 /\ now + WaitBeforeCall = Looked.calls[1] + Window
<1>1. now \in Nat /\ Midnight(now) \in Nat /\ now < Midnight(now) /\ InOrder(pacer.calls)
  BY TodayType DEF IInv, TypeOK
<1>2. CASE DayIsSpent
  BY <1>1, <1>2 DEF WaitBeforeCall
<1>5. Len(Looked.calls) \in Nat /\ BurstLimit \in Nat
  BY LookedIs, LimitAssumption DEF InOrder
<1>3. CASE ~DayIsSpent /\ Len(Looked.calls) < BurstLimit
  BY <1>3, <1>5 DEF WaitBeforeCall
<1>4. CASE ~DayIsSpent /\ ~(Len(Looked.calls) < BurstLimit)
  <2>1. Looked.calls = Recent(pacer.calls) /\ InOrder(Looked.calls)
    BY <1>4, LookedIs
  <2>2. Len(Looked.calls) \in Nat /\ BurstLimit \in Nat \ {0} /\ Window \in Nat
    BY <2>1, LimitAssumption DEF InOrder
  <2>3. 1 \in 1..Len(Looked.calls)
    BY <1>4, <2>2
  <2>4. Looked.calls[1] \in Nat /\ now - Looked.calls[1] < Window /\ Looked.calls[1] <= now
    <3> DEFINE r == Recent(pacer.calls)
    <3>1. \A i \in 1..Len(r) : now - r[i] < Window
      BY <1>1, RecentIs
    <3> HIDE DEF r
    <3>2. \A i \in 1..Len(Looked.calls) : now - Looked.calls[i] < Window
      BY <2>1, <3>1 DEF r
    <3> QED
      BY <2>1, <2>3, <3>2 DEF InOrder
  <2>5. WaitBeforeCall = Window - (now - Looked.calls[1])
    BY <1>4 DEF WaitBeforeCall
  <2> QED
    BY <1>1, <1>4, <2>2, <2>4, <2>5
<1> QED
  BY <1>2, <1>3, <1>4, <1>5

\* The call leaves, and will be charged after one of the latencies.
LEMMA LaunchFlies ==
  ASSUME IInv, NEW c \in Callers, NEW p \in Pacers, NEW j \in Jobs, Launch(c, p, j)
  PROVE  \E k \in Jobs :
           /\ k.pc = "flight" /\ k.retries = j.retries /\ k.slept = j.slept
           /\ \E l \in Latencies : l \in Nat /\ k.until = now + l
           /\ work' = [work EXCEPT ![c] = k]
<1>1. now \in Nat
  BY DEF IInv, TypeOK
<1>2. PICK l \in Latencies :
        work' = [work EXCEPT ![c] = [j EXCEPT !.pc = "flight", !.until = now + l]]
  BY DEF Launch, Goto
<1>3. l \in Nat
  BY <1>2, LimitAssumption
<1> DEFINE k == [j EXCEPT !.pc = "flight", !.until = now + l]
<1>4. k \in Jobs
  <2>1. now + l \in Nat /\ j.retries \in 0..MaxRetries /\ j.slept \in {"none", "burst", "day"}
    BY <1>1, <1>3 DEF Jobs
  <2> QED
    BY <2>1, JobType
<1>5. k.pc = "flight" /\ k.retries = j.retries /\ k.slept = j.slept /\ k.until = now + l
  BY DEF Jobs
<1>6. work' = [work EXCEPT ![c] = k]
  BY <1>2
<1> HIDE DEF k
<1> QED
  BY <1>3, <1>4, <1>5, <1>6

\* record_call from a pacer p.
LEMMA LaunchIs ==
  ASSUME IInv, NEW c \in Callers, NEW p \in Pacers, InOrder(p.calls), NEW j \in Jobs,
         Launch(c, p, j)
  PROVE  /\ pacer' \in Pacers /\ InOrder(pacer'.calls)
         /\ pacer'.calls = Append(p.calls, now)
         /\ pacer'.day = Today(now)
         /\ pacer'.count = (IF p.day = Today(now) THEN p.count ELSE 0) + 1
         /\ work' \in [Callers -> Jobs]
<1>1. now \in Nat /\ Today(now) \in Nat /\ work \in [Callers -> Jobs]
  BY TodayType DEF IInv, TypeOK, Jobs
<1>2. InOrder(Append(p.calls, now)) /\ Append(p.calls, now) \in Seq(Nat)
  BY <1>1, AppendInOrder DEF InOrder
<1>3. pacer' = RecordCall(p)
  BY DEF Launch
<1>4. /\ pacer' \in Pacers /\ pacer'.calls = Append(p.calls, now)
      /\ pacer'.day = Today(now)
      /\ pacer'.count = (IF p.day = Today(now) THEN p.count ELSE 0) + 1
  <2>1. p.count \in Nat /\ 0 \in Nat
    BY DEF Pacers
  <2>2. /\ RollDay(p) \in Pacers /\ RollDay(p).day = Today(now) /\ RollDay(p).calls = p.calls
        /\ RollDay(p).count = IF p.day = Today(now) THEN p.count ELSE 0
    BY <1>1, <2>1, PacerType DEF RollDay, Pacers
  <2>3. RollDay(p).count + 1 \in Nat
    BY <2>1, <2>2
  <2> QED
    BY <1>2, <1>3, <2>2, <2>3, PacerType DEF RecordCall, Pacers
<1>5. work' \in [Callers -> Jobs]
  BY <1>1, LaunchFlies
<1> QED
  BY <1>2, <1>4, <1>5

-----------------------------------------------------------------------------
(* The platform's side.                                                    *)

\* The record _charge starts from: today's count, and a window that is not
\* over.
LEMMA ServerIs ==
  ASSUME IInv
  PROVE  /\ ServerToday \in Servers /\ ServerWindow \in Servers
         /\ ServerToday.day = Today(now) /\ ServerWindow.day = Today(now)
         /\ ServerToday.count = IF server.day = Today(now) THEN server.count ELSE 0
         /\ ServerWindow.count = ServerToday.count
         /\ ServerToday.start = server.start /\ ServerToday.used = server.used
         /\ IF server.used = 0 \/ now - server.start >= Window
            THEN ServerWindow.start = now /\ ServerWindow.used = 0
            ELSE ServerWindow.start = server.start /\ ServerWindow.used = server.used
<1>1. server \in Servers /\ now \in Nat /\ Today(now) \in Nat
  BY TodayType DEF IInv, TypeOK, Servers
<1>2. BurstLimit \in Nat /\ DailyLimit \in Nat
  BY LimitAssumption
<1>3. /\ ServerToday \in Servers /\ ServerToday.day = Today(now)
      /\ ServerToday.count = IF server.day = Today(now) THEN server.count ELSE 0
      /\ ServerToday.start = server.start /\ ServerToday.used = server.used
  <2>1. 0 \in 0..DailyLimit
    BY <1>2
  <2> QED
    BY <1>1, <2>1, ServerType DEF ServerToday, Servers
<1>4. [ServerToday EXCEPT !.start = now, !.used = 0] \in Servers
  <2>1. 0 \in 0..BurstLimit /\ 0 \in 0..DailyLimit
    BY <1>2
  <2> QED
    BY <1>1, <1>3, <2>1, ServerType
<1>5. /\ ServerWindow \in Servers /\ ServerWindow.day = Today(now)
      /\ ServerWindow.count = ServerToday.count
  BY <1>3, <1>4 DEF ServerWindow, Servers
<1>6. IF server.used = 0 \/ now - server.start >= Window
      THEN ServerWindow.start = now /\ ServerWindow.used = 0
      ELSE ServerWindow.start = server.start /\ ServerWindow.used = server.used
  BY <1>3 DEF ServerWindow, Servers
<1> QED
  BY <1>3, <1>5, <1>6

\* A call is admitted exactly if both limits leave room for it; a refused
\* one is told to wait for the limit that refused it.
LEMMA HintIs ==
  ASSUME IInv
  PROVE  /\ Hint \in Nat
         /\ Hint = 0 <=> ServerToday.count < DailyLimit /\ ServerWindow.used < BurstLimit
         /\ DaySpentAtServer => now + Hint = Midnight(now)
         /\ Hint > 0 /\ ~DaySpentAtServer =>
              /\ now + Hint = ServerWindow.start + Window
              /\ ServerWindow.start = server.start /\ ServerWindow.used = server.used
<1>1. now \in Nat /\ Midnight(now) \in Nat /\ now < Midnight(now)
  BY TodayType DEF IInv, TypeOK
<1>2. BurstLimit \in Nat \ {0} /\ DailyLimit \in Nat /\ Window \in Nat
  BY LimitAssumption
<1>3. ServerToday.count \in Nat /\ ServerWindow.used \in Nat /\ server.start \in Nat
  BY <1>2, ServerIs, SMTT(60) DEF Servers, IInv, TypeOK
<1>4. CASE DaySpentAtServer
  BY <1>1, <1>2, <1>3, <1>4 DEF Hint, DaySpentAtServer
<1>5. CASE ~DaySpentAtServer /\ ServerWindow.used < BurstLimit
  BY <1>2, <1>3, <1>5 DEF Hint, DaySpentAtServer
<1>6. CASE ~DaySpentAtServer /\ ServerWindow.used >= BurstLimit
  <2>1. ~(server.used = 0 \/ now - server.start >= Window)
    BY <1>2, <1>6, ServerIs
  <2>2. ServerWindow.start = server.start /\ ServerWindow.used = server.used
    BY <2>1, ServerIs
  <2>3. Hint = server.start + Window - now
    BY <1>6, <2>2 DEF Hint
  <2>4. Hint \in Nat /\ Hint > 0 /\ now + Hint = server.start + Window
    BY <1>1, <1>2, <1>3, <2>1, <2>3
  <2> QED
    BY <1>2, <1>3, <1>6, <2>2, <2>4 DEF DaySpentAtServer
<1> QED
  BY <1>2, <1>3, <1>4, <1>5, <1>6

LEMMA ChargeIs ==
  ASSUME IInv, Charge
  PROVE  /\ server' \in Servers /\ server'.day = Today(now)
         /\ Hint = 0 => /\ server'.start = ServerWindow.start
                        /\ server'.used = ServerWindow.used + 1
                        /\ server'.count = ServerToday.count + 1
         /\ Hint > 0 => /\ server'.count = ServerToday.count
                        /\ server'.start = server.start \/ server'.start = now
                        /\ ~DaySpentAtServer => server'.start = server.start
<1>1. BurstLimit \in Nat /\ DailyLimit \in Nat /\ Hint \in Nat
  BY LimitAssumption, HintIs
<1>2. CASE Hint = 0
  <2>1. /\ ServerToday.count < DailyLimit /\ ServerWindow.used < BurstLimit
        /\ ServerWindow \in Servers /\ ServerWindow.count = ServerToday.count
        /\ ServerWindow.day = Today(now)
    BY <1>2, HintIs, ServerIs
  <2>2. ~DaySpentAtServer
    BY <1>1, <2>1 DEF DaySpentAtServer, Servers
  <2>3. server' = [ServerWindow EXCEPT !.used = @ + 1, !.count = @ + 1]
    BY <1>2, <2>2 DEF Charge
  <2>4. ServerWindow.used + 1 \in 0..BurstLimit /\ ServerWindow.count + 1 \in 0..DailyLimit
    BY <1>1, <2>1 DEF Servers
  <2>5. server' \in Servers
    BY <1>1, <2>1, <2>3, <2>4, ServerType DEF Servers
  <2>6. /\ server'.start = ServerWindow.start /\ server'.used = ServerWindow.used + 1
        /\ server'.count = ServerToday.count + 1 /\ server'.day = Today(now)
    BY <2>1, <2>3 DEF Servers
  <2> QED
    BY <1>2, <2>5, <2>6
<1>3. CASE Hint > 0
  <2>1. server' = IF DaySpentAtServer THEN ServerToday ELSE ServerWindow
    BY <1>1, <1>3 DEF Charge
  <2> QED
    BY <1>1, <1>3, <2>1, HintIs, ServerIs
<1> QED
  BY <1>1, <1>2, <1>3

-----------------------------------------------------------------------------
(* Types and order, step by step.                                          *)

\* What the steps have in common: each part keeps its type.
LEMMA PartsKeepIInv ==
  ASSUME IInv, now' \in Nat, now <= now', server' \in Servers, work' \in [Callers -> Jobs],
         did' \in Counts, pacer' \in Pacers,
         InOrder(pacer'.calls) \/ UNCHANGED pacer
  PROVE  IInv'
<1>1. TypeOK'
  BY DEF TypeOK, Servers, Jobs, Counts, Pacers
<1>2. now \in Nat /\ pacer' \in Pacers
  BY DEF IInv, TypeOK
<1>3. InOrder(pacer'.calls)
  BY DEF IInv
<1>4. InOrder(pacer.calls)'
  BY <1>2, <1>3 DEF InOrder
<1> QED
  BY <1>1, <1>4 DEF IInv

LEMMA PartsOf ==
  ASSUME IInv
  PROVE  /\ now \in Nat /\ server \in Servers /\ work \in [Callers -> Jobs] /\ did \in Counts
         /\ pacer \in Pacers /\ InOrder(pacer.calls)
BY DEF IInv, TypeOK, Servers, Jobs, Counts, Pacers

LEMMA IdleType == Idle \in Jobs /\ 0 \in 0..MaxRetries
BY LimitAssumption DEF Idle, Jobs

LEMMA CountsType ==
  ASSUME NEW d \in Counts, NEW n \in Nat, NEW m \in Nat
  PROVE  \A k, l \in {"begun", "others", "restarts", "unchecked", "refused", "exhausted"} :
           /\ [d EXCEPT ![k] = n] \in Counts
           /\ [d EXCEPT ![k] = n, ![l] = m] \in Counts
BY DEF Counts

\* The head of the loop.
LEMMA LookIs ==
  ASSUME IInv, NEW c \in Callers, NEW j \in Jobs, Look(c, j)
  PROVE  /\ pacer' \in Pacers /\ InOrder(pacer'.calls) /\ work' \in [Callers -> Jobs]
         /\ \/ /\ WaitBeforeCall = 0
               /\ Launch(c, Looked, [j EXCEPT !.slept = "none"])
            \/ /\ WaitBeforeCall > 0 /\ pacer' = Looked
               /\ work' = [work EXCEPT ![c] =
                    [j EXCEPT !.pc = "sleep", !.until = now + WaitBeforeCall,
                              !.slept = IF DayIsSpent THEN "day" ELSE "burst"]]
<1>1. Looked \in Pacers /\ InOrder(Looked.calls) /\ WaitBeforeCall \in Nat
  BY LookedIs, WaitIs
<1>2. now \in Nat /\ work \in [Callers -> Jobs]
  BY PartsOf
<1>3. CASE WaitBeforeCall = 0 /\ Launch(c, Looked, [j EXCEPT !.slept = "none"])
  <2>1. [j EXCEPT !.slept = "none"] \in Jobs
    BY DEF Jobs
  <2> QED
    BY <1>1, <1>3, <2>1, LaunchIs
<1> DEFINE s == IF DayIsSpent THEN "day" ELSE "burst"
           k == [j EXCEPT !.pc = "sleep", !.until = now + WaitBeforeCall, !.slept = s]
<1>4. CASE WaitBeforeCall > 0 /\ pacer' = Looked /\ Goto(c, k)
  <2>1. s \in {"none", "burst", "day"}
    OBVIOUS
  <2>2. now + WaitBeforeCall \in Nat
    BY <1>1, <1>2
  <2> HIDE DEF s
  <2>3. k \in Jobs
    BY <2>1, <2>2, IdleType, JobType
  <2>4. work' = [work EXCEPT ![c] = k]
    BY <1>4 DEF Goto
  <2>5. work' \in [Callers -> Jobs]
    BY <1>2, <2>3, <2>4
  <2> QED
    BY <1>1, <1>4, <2>4, <2>5 DEF s
<1> QED
  BY <1>3, <1>4 DEF Look

LEMMA BeginOK ==
  ASSUME IInv, NEW c \in Callers, Begin(c)
  PROVE  IInv'
<1>1. pacer' \in Pacers /\ InOrder(pacer'.calls) /\ work' \in [Callers -> Jobs]
  BY IdleType, LookIs DEF Begin
<1>2. did.begun + 1 \in Nat
  BY PartsOf DEF Counts
<1>3. did' \in Counts
  BY <1>2, PartsOf, CountsType DEF Begin
<1> QED
  BY <1>1, <1>3, PartsOf, PartsKeepIInv DEF Begin

LEMMA WakeIs ==
  ASSUME IInv, NEW c \in Callers, Wake(c)
  PROVE  /\ work[c] \in Jobs /\ pacer' \in Pacers /\ InOrder(pacer'.calls)
         /\ work' \in [Callers -> Jobs] /\ did' \in Counts
         /\ did' = [did EXCEPT !.unchecked =
              @ + IF work[c].slept = "day" /\ Len(Recent(pacer.calls)) >= BurstLimit THEN 1 ELSE 0]
<1>1. work[c] \in Jobs
  BY PartsOf
<1>2. pacer' \in Pacers /\ InOrder(pacer'.calls) /\ work' \in [Callers -> Jobs]
  BY <1>1, PartsOf, LaunchIs DEF Wake
<1> DEFINE n == IF work[c].slept = "day" /\ Len(Recent(pacer.calls)) >= BurstLimit THEN 1 ELSE 0
<1>3. n \in Nat
  OBVIOUS
<1>4. did' = [did EXCEPT !.unchecked = @ + n]
  BY DEF Wake
<1> HIDE DEF n
<1>5. did' \in Counts
  BY <1>3, <1>4, PartsOf DEF Counts
<1> QED
  BY <1>1, <1>2, <1>4, <1>5 DEF n

LEMMA WakeOK ==
  ASSUME IInv, NEW c \in Callers, Wake(c)
  PROVE  IInv'
BY WakeIs, PartsOf, PartsKeepIInv DEF Wake

LEMMA AdmittedOK ==
  ASSUME IInv, NEW c \in Callers, Admitted(c)
  PROVE  IInv'
<1>1. server' \in Servers
  BY ChargeIs DEF Admitted
<1>2. work' \in [Callers -> Jobs]
  BY IdleType, PartsOf DEF Admitted, Goto
<1> QED
  BY <1>1, <1>2, PartsOf, PartsKeepIInv DEF Admitted

LEMMA DroppedOK ==
  ASSUME IInv, NEW c \in Callers, Dropped(c)
  PROVE  IInv'
<1>1. work' \in [Callers -> Jobs]
  BY IdleType, PartsOf DEF Dropped, Goto
<1> QED
  BY <1>1, PartsOf, PartsKeepIInv DEF Dropped

\* The refused caller sleeps for exactly the hint, one retry spent.
LEMMA RefusedIs ==
  ASSUME IInv, NEW c \in Callers, Refused(c)
  PROVE  \E k \in Jobs : /\ k.pc = "backoff" /\ k.until = now + Hint
                         /\ k.retries = work[c].retries + 1
                         /\ work' = [work EXCEPT ![c] = k]
<1> DEFINE k == [work[c] EXCEPT !.pc = "backoff", !.until = now + Hint, !.retries = @ + 1]
<1>1. work[c] \in Jobs /\ now + Hint \in Nat
  BY PartsOf, HintIs
<1>2. work[c].retries + 1 \in 0..MaxRetries
  BY <1>1, LimitAssumption DEF Refused, Jobs
<1>3. k \in Jobs
  BY <1>1, <1>2, JobType
<1>4. k.pc = "backoff" /\ k.until = now + Hint /\ k.retries = work[c].retries + 1
  BY <1>1 DEF Jobs
<1>5. work' = [work EXCEPT ![c] = k]
  BY DEF Refused, Goto
<1> HIDE DEF k
<1> QED
  BY <1>3, <1>4, <1>5

LEMMA RefusedOK ==
  ASSUME IInv, NEW c \in Callers, Refused(c)
  PROVE  IInv'
<1>1. server' \in Servers
  BY ChargeIs DEF Refused
<1>2. work' \in [Callers -> Jobs]
  BY PartsOf, RefusedIs
<1>3. did' \in Counts
  BY PartsOf DEF Refused, Counts
<1> QED
  BY <1>1, <1>2, <1>3, PartsOf, PartsKeepIInv DEF Refused

LEMMA ExhaustedOK ==
  ASSUME IInv, NEW c \in Callers, Exhausted(c)
  PROVE  IInv'
<1>1. server' \in Servers
  BY ChargeIs DEF Exhausted
<1>2. work' \in [Callers -> Jobs]
  BY IdleType, PartsOf DEF Exhausted, Goto
<1>3. did' \in Counts
  <2>1. did.refused + 1 \in Nat /\ did.exhausted + 1 \in Nat /\ did \in Counts
    BY PartsOf DEF Counts
  <2>2. did' = [did EXCEPT !.refused = did.refused + 1, !.exhausted = did.exhausted + 1]
    BY DEF Exhausted
  <2> QED
    BY <2>1, <2>2, CountsType
<1> QED
  BY <1>1, <1>2, <1>3, PartsOf, PartsKeepIInv DEF Exhausted

LEMMA RetryOK ==
  ASSUME IInv, NEW c \in Callers, Retry(c)
  PROVE  IInv'
<1>1. work[c] \in Jobs
  BY PartsOf
<1>2. pacer' \in Pacers /\ InOrder(pacer'.calls) /\ work' \in [Callers -> Jobs]
  BY <1>1, LookIs DEF Retry
<1> QED
  BY <1>2, PartsOf, PartsKeepIInv DEF Retry

LEMMA OtherClientOK ==
  ASSUME IInv, OtherClient
  PROVE  IInv'
<1>1. server' \in Servers
  BY ChargeIs DEF OtherClient
<1>2. did' \in Counts
  BY PartsOf DEF OtherClient, Counts
<1> QED
  BY <1>1, <1>2, PartsOf, PartsKeepIInv DEF OtherClient

LEMMA RestartOK ==
  ASSUME IInv, Restart
  PROVE  IInv'
<1>1. pacer' \in Pacers /\ InOrder(pacer'.calls)
  BY PartsOf, TodayType DEF Restart, Pacers, InOrder
<1>2. work' \in [Callers -> Jobs]
  BY IdleType DEF Restart
<1>3. did' \in Counts
  BY PartsOf DEF Restart, Counts
<1> QED
  BY <1>1, <1>2, <1>3, PartsOf, PartsKeepIInv DEF Restart

LEMMA TickOK ==
  ASSUME IInv, Tick
  PROVE  IInv'
<1>1. now' \in Nat /\ now <= now'
  BY PartsOf DEF Tick
<1> QED
  BY <1>1, PartsOf, PartsKeepIInv DEF Tick

LEMMA InitOK == Init => IInv
<1> SUFFICES ASSUME Init PROVE IInv
  OBVIOUS
<1>1. work \in [Callers -> Jobs]
  BY IdleType DEF Init
<1>2. pacer \in Pacers /\ InOrder(pacer.calls)
  BY DEF Init, Pacers, InOrder
<1>3. server \in Servers
  BY LimitAssumption DEF Init, Servers
<1>4. did \in Counts
  BY DEF Init, Counts
<1> QED
  BY <1>1, <1>2, <1>3, <1>4 DEF Init, IInv, TypeOK, Jobs, Pacers, Servers, Counts

LEMMA NextOK == IInv /\ [Next]_vars => IInv'
<1> SUFFICES ASSUME IInv, [Next]_vars PROVE IInv'
  OBVIOUS
<1>1. CASE UNCHANGED vars
  BY <1>1, PartsOf, PartsKeepIInv DEF vars
<1>2. ASSUME NEW c \in Callers, Begin(c) \/ Proceed(c) PROVE IInv'
  BY <1>2, BeginOK, WakeOK, AdmittedOK, DroppedOK, RefusedOK, ExhaustedOK, RetryOK DEF Proceed
<1> QED
  BY <1>1, <1>2, OtherClientOK, RestartOK, TickOK DEF Next, Rest

LEMMA Invariant == Spec => []IInv
BY InitOK, NextOK, PTL DEF Spec

\* For all limits and budgets and any number of callers the pacer and the
\* platform keep their types: the platform admits no more than its limits in
\* a window or a day, and no call is tried more often than its budget.
THEOREM PacingTyped == Spec => []TypeOK
<1>1. IInv => TypeOK
  BY DEF IInv
<1> QED
  BY <1>1, Invariant, PTL

LEMMA NumbersAre ==
  ASSUME IInv
  PROVE  /\ now \in Nat /\ Today(now) \in Nat
         /\ server.day \in Nat /\ server.count \in Nat /\ server.start \in Nat /\ server.used \in Nat
         /\ pacer.day \in Nat /\ pacer.count \in Nat
         /\ pacer.calls \in Seq(Nat) /\ Len(pacer.calls) \in Nat
<1>1. BurstLimit \in Nat /\ DailyLimit \in Nat
  BY LimitAssumption
<1>2. server.count \in 0..DailyLimit /\ server.used \in 0..BurstLimit
  BY PartsOf DEF Servers
<1>3. server.count \in Nat /\ server.used \in Nat
  BY <1>1, <1>2
<1>4. /\ server.day \in Nat /\ server.start \in Nat /\ pacer.day \in Nat /\ pacer.count \in Nat
      /\ pacer.calls \in Seq(Nat)
  BY PartsOf DEF Servers, Pacers
<1>5. now \in Nat /\ Today(now) \in Nat
  <2>1. now \in Nat
    BY PartsOf
  <2> QED
    BY <2>1, TodayType
<1>6. Len(pacer.calls) \in Nat
  BY <1>4
<1> QED
  BY <1>3, <1>4, <1>5, <1>6

-----------------------------------------------------------------------------
(* The day's count.                                                        *)

\* Calls recorded by the pacer and not yet charged by the platform.
Flying == {c \in Callers : work[c].pc = "flight"}

\* A recorded call reaches the platform within the tick.
AtOnce == Latencies = {0}

\* Of today's calls the pacer has counted those the platform has charged and
\* those on their way.
CountsAgree ==
  did.others = 0 /\ did.restarts = 0 =>
    /\ server.day <= pacer.day /\ pacer.day <= Today(now)
    /\ \A c \in Flying : work[c].until = now /\ pacer.day = Today(now)
    /\ (IF server.day = pacer.day THEN server.count ELSE 0) + Cardinality(Flying) <= pacer.count

LEMMA FlyingMoves ==
  ASSUME IInv, IsFiniteSet(Callers), NEW c \in Callers, NEW j \in Jobs,
         work' = [work EXCEPT ![c] = j]
  PROVE  /\ Cardinality(Flying) \in Nat
         /\ j.pc = "flight" => Flying' = Flying \cup {c}
         /\ j.pc # "flight" => Flying' = Flying \ {c}
         /\ j.pc = "flight" /\ c \notin Flying => Cardinality(Flying)' = Cardinality(Flying) + 1
         /\ j.pc # "flight" /\ c \in Flying    => Cardinality(Flying)' = Cardinality(Flying) - 1
         /\ j.pc # "flight" /\ c \notin Flying => Cardinality(Flying)' = Cardinality(Flying)
<1>1. IsFiniteSet(Flying)
  BY FS_Subset DEF Flying
<1>2. Cardinality(Flying) \in Nat
  BY <1>1, FS_CardinalityType
<1>3. work'[c] = j /\ \A d \in Callers : d # c => work'[d] = work[d]
  BY PartsOf
<1>4. j.pc = "flight" => Flying' = Flying \cup {c}
  BY <1>3 DEF Flying
<1>5. j.pc # "flight" => Flying' = Flying \ {c}
  BY <1>3 DEF Flying
<1>6. c \notin Flying => Cardinality(Flying \cup {c}) = Cardinality(Flying) + 1
  BY <1>1, FS_AddElement
<1>7. c \in Flying => Cardinality(Flying \ {c}) = Cardinality(Flying) - 1
  BY <1>1, FS_RemoveElement
<1>8. c \notin Flying => Flying \ {c} = Flying
  OBVIOUS
<1> QED
  BY <1>2, <1>4, <1>5, <1>6, <1>7, <1>8

LEMMA NobodyFlies ==
  ASSUME Flying = {}
  PROVE  Cardinality(Flying) = 0
BY FS_EmptySet

\* A call leaves from a pacer that knows of all that the real one knows.
LEMMA LaunchCounts ==
  ASSUME IInv, CountsAgree, AtOnce, IsFiniteSet(Callers), NEW c \in Callers, c \notin Flying,
         NEW p \in Pacers, InOrder(p.calls), NEW j \in Jobs, Launch(c, p, j),
         \/ p.day = pacer.day /\ p.count = pacer.count
         \/ p.day = Today(now) /\ p.count = IF pacer.day = Today(now) THEN pacer.count ELSE 0,
         UNCHANGED <<now, server>>,
         did'.others = 0 /\ did'.restarts = 0 => did.others = 0 /\ did.restarts = 0
  PROVE  CountsAgree'
<1>1. /\ pacer'.day = Today(now)
      /\ pacer'.count = (IF p.day = Today(now) THEN p.count ELSE 0) + 1
  BY LaunchIs
<1>2. pacer'.count = (IF pacer.day = Today(now) THEN pacer.count ELSE 0) + 1
  BY <1>1
<1>3. PICK k \in Jobs :
        /\ k.pc = "flight" /\ \E l \in Latencies : l \in Nat /\ k.until = now + l
        /\ work' = [work EXCEPT ![c] = k]
  BY LaunchFlies
<1>5. k \in Jobs /\ k.pc = "flight" /\ k.until = now
  BY <1>3, PartsOf DEF AtOnce
<1>6. work' = [work EXCEPT ![c] = k]
  BY <1>3
<1>7. /\ Flying' = Flying \cup {c} /\ Cardinality(Flying)' = Cardinality(Flying) + 1
      /\ Cardinality(Flying) \in Nat
  BY <1>5, <1>6, FlyingMoves
<1>8. work'[c] = k /\ \A d \in Callers : d # c => work'[d] = work[d]
  BY <1>6, PartsOf
<1> SUFFICES ASSUME did.others = 0 /\ did.restarts = 0
             PROVE  /\ server.day <= Today(now)
                    /\ \A d \in Flying' : work'[d].until = now
                    /\ (IF server.day = Today(now) THEN server.count ELSE 0)
                         + (Cardinality(Flying) + 1) <= pacer'.count
  BY <1>1, <1>7, TodayType, PartsOf DEF CountsAgree
<1>9. /\ server.day \in Nat /\ pacer.day \in Nat /\ Today(now) \in Nat
      /\ server.count \in Nat /\ pacer.count \in Nat
  BY NumbersAre
<1>10. /\ server.day <= pacer.day /\ pacer.day <= Today(now)
       /\ \A d \in Flying : work[d].until = now /\ pacer.day = Today(now)
       /\ (IF server.day = pacer.day THEN server.count ELSE 0) + Cardinality(Flying) <= pacer.count
  BY DEF CountsAgree
<1>11. \A d \in Flying' : work'[d].until = now
  BY <1>5, <1>7, <1>8, <1>10 DEF Flying
<1>12. CASE pacer.day = Today(now)
  BY <1>2, <1>7, <1>9, <1>10, <1>11, <1>12
<1>13. CASE pacer.day # Today(now)
  <2>1. Flying = {} /\ Cardinality(Flying) = 0
    BY <1>10, <1>13, NobodyFlies
  <2>2. server.day # Today(now) /\ server.day <= Today(now)
    BY <1>9, <1>10, <1>13
  <2> QED
    BY <1>2, <1>11, <1>13, <2>1, <2>2
<1> QED
  BY <1>12, <1>13

\* The head of the loop, for a caller whose call is not on its way.
LEMMA LookCounts ==
  ASSUME IInv, CountsAgree, AtOnce, IsFiniteSet(Callers), NEW c \in Callers, c \notin Flying,
         NEW j \in Jobs, Look(c, j), UNCHANGED <<now, server>>,
         did'.others = 0 /\ did'.restarts = 0 => did.others = 0 /\ did.restarts = 0
  PROVE  CountsAgree'
<1>1. /\ Looked \in Pacers /\ InOrder(Looked.calls) /\ Looked.day = Today(now)
      /\ Looked.count = IF pacer.day = Today(now) THEN pacer.count ELSE 0
  BY LookedIs
<1>2. CASE Launch(c, Looked, [j EXCEPT !.slept = "none"])
  <2>1. [j EXCEPT !.slept = "none"] \in Jobs
    BY DEF Jobs
  <2> QED
    BY <1>1, <1>2, <2>1, LaunchCounts
<1> DEFINE s == IF DayIsSpent THEN "day" ELSE "burst"
           k == [j EXCEPT !.pc = "sleep", !.until = now + WaitBeforeCall, !.slept = s]
<1>3. CASE pacer' = Looked /\ work' = [work EXCEPT ![c] = k]
  <2>1. k \in Jobs /\ k.pc = "sleep"
    <3>1. now + WaitBeforeCall \in Nat /\ s \in {"none", "burst", "day"}
      BY PartsOf, WaitIs
    <3> HIDE DEF s
    <3>2. k \in Jobs
      BY <3>1, IdleType, JobType
    <3> QED
      BY <3>2 DEF Jobs
  <2> HIDE DEF k
  <2>2. /\ Flying' = Flying /\ Cardinality(Flying)' = Cardinality(Flying)
        /\ Cardinality(Flying) \in Nat
    BY <1>3, <2>1, FlyingMoves
  <2>3. \A d \in Flying : work'[d] = work[d]
    BY <1>3, PartsOf
  <2> SUFFICES ASSUME did.others = 0 /\ did.restarts = 0
               PROVE  /\ server.day <= Today(now)
                      /\ \A d \in Flying : work[d].until = now
                      /\ (IF server.day = Today(now) THEN server.count ELSE 0)
                           + Cardinality(Flying) <= Looked.count
    BY <1>1, <1>3, <2>2, <2>3, TodayType, PartsOf DEF CountsAgree
  <2>4. /\ server.day \in Nat /\ pacer.day \in Nat /\ Today(now) \in Nat
        /\ server.count \in Nat /\ pacer.count \in Nat
    BY NumbersAre
  <2>5. /\ server.day <= pacer.day /\ pacer.day <= Today(now)
        /\ \A d \in Flying : work[d].until = now /\ pacer.day = Today(now)
        /\ (IF server.day = pacer.day THEN server.count ELSE 0) + Cardinality(Flying) <= pacer.count
    BY DEF CountsAgree
  <2>6. CASE pacer.day = Today(now)
    BY <1>1, <2>4, <2>5, <2>6
  <2>7. CASE pacer.day # Today(now)
    <3>1. Flying = {} /\ Cardinality(Flying) = 0
      BY <2>5, <2>7, NobodyFlies
    <3> QED
      BY <1>1, <2>4, <2>5, <2>7, <3>1
  <2> QED
    BY <2>6, <2>7
<1> QED
  BY <1>2, <1>3, LookIs

\* The platform answers, or the call is lost before it gets there.
LEMMA LandingCounts ==
  ASSUME IInv, CountsAgree, IsFiniteSet(Callers), NEW c \in Flying, NEW j \in Jobs,
         j.pc # "flight", work' = [work EXCEPT ![c] = j], Charge \/ UNCHANGED server,
         UNCHANGED <<now, pacer>>,
         did'.others = 0 /\ did'.restarts = 0 => did.others = 0 /\ did.restarts = 0
  PROVE  CountsAgree'
<1>1. c \in Callers
  BY DEF Flying
<1>2. /\ Flying' = Flying \ {c} /\ Cardinality(Flying)' = Cardinality(Flying) - 1
      /\ Cardinality(Flying) \in Nat
  BY <1>1, FlyingMoves
<1>3. \A d \in Flying \ {c} : work'[d] = work[d]
  BY PartsOf DEF Flying
<1> SUFFICES ASSUME did.others = 0 /\ did.restarts = 0
             PROVE  /\ server'.day <= pacer.day /\ pacer.day <= Today(now)
                    /\ \A d \in Flying : work[d].until = now /\ pacer.day = Today(now)
                    /\ (IF server'.day = pacer.day THEN server'.count ELSE 0)
                         + (Cardinality(Flying) - 1) <= pacer.count
  BY <1>2, <1>3 DEF CountsAgree
<1>4. /\ server.day \in Nat /\ pacer.day \in Nat /\ Today(now) \in Nat
      /\ server.count \in Nat /\ pacer.count \in Nat
  BY NumbersAre
<1>5. /\ server.day <= pacer.day /\ pacer.day = Today(now)
      /\ \A d \in Flying : work[d].until = now /\ pacer.day = Today(now)
      /\ (IF server.day = pacer.day THEN server.count ELSE 0) + Cardinality(Flying) <= pacer.count
  BY DEF CountsAgree
<1>6. CASE UNCHANGED server
  BY <1>2, <1>4, <1>5, <1>6
<1>7. CASE Charge
  <2>1. /\ server'.day = Today(now)
        /\ server'.count = ServerToday.count \/ server'.count = ServerToday.count + 1
    BY <1>7, ChargeIs, HintIs
  <2>2. ServerToday.count = IF server.day = Today(now) THEN server.count ELSE 0
    BY ServerIs
  <2> QED
    BY <1>2, <1>4, <1>5, <2>1, <2>2
<1> QED
  BY <1>6, <1>7

LEMMA CountsAgreeInitially == Init /\ IsFiniteSet(Callers) => CountsAgree
<1> SUFFICES ASSUME Init PROVE CountsAgree
  OBVIOUS
<1>1. Flying = {} /\ Cardinality(Flying) = 0
  BY FS_EmptySet DEF Init, Flying, Idle
<1>2. Today(now) \in Nat
  BY TodayType DEF Init
<1> QED
  BY <1>1, <1>2 DEF Init, CountsAgree

LEMMA CountsAgreeStep ==
  ASSUME IInv, CountsAgree, AtOnce, IsFiniteSet(Callers), [Next]_vars
  PROVE  CountsAgree'
<1>1. ASSUME NEW c \in Callers, Begin(c) PROVE CountsAgree'
  <2>1. c \notin Flying /\ Look(c, Idle) /\ UNCHANGED <<now, server>>
        /\ did'.others = did.others /\ did'.restarts = did.restarts
    BY <1>1, PartsOf DEF Begin, Flying, Counts
  <2> QED
    BY <2>1, IdleType, LookCounts
<1>2. ASSUME NEW c \in Callers, Retry(c) PROVE CountsAgree'
  <2>1. c \notin Flying /\ Look(c, work[c]) /\ UNCHANGED <<now, server, did>> /\ work[c] \in Jobs
    BY <1>2, PartsOf DEF Retry, Flying
  <2> QED
    BY <2>1, LookCounts
<1>3. ASSUME NEW c \in Callers, Wake(c) PROVE CountsAgree'
  <2>1. /\ c \notin Flying /\ Launch(c, pacer, work[c]) /\ UNCHANGED <<now, server>>
        /\ work[c] \in Jobs
    BY <1>3, PartsOf DEF Wake, Flying
  <2>2. did'.others = did.others /\ did'.restarts = did.restarts
    BY <1>3, PartsOf, WakeIs DEF Counts
  <2> QED
    BY <2>1, <2>2, PartsOf, LaunchCounts
<1>4. ASSUME NEW c \in Callers, Admitted(c) \/ Dropped(c) \/ Exhausted(c) PROVE CountsAgree'
  <2>1. /\ c \in Flying /\ Idle \in Jobs /\ Idle.pc # "flight" /\ work' = [work EXCEPT ![c] = Idle]
        /\ Charge \/ UNCHANGED server
        /\ UNCHANGED <<now, pacer>>
    BY <1>4, IdleType DEF Admitted, Dropped, Exhausted, Flying, Goto, Idle
  <2>2. did'.others = did.others /\ did'.restarts = did.restarts
    BY <1>4, PartsOf DEF Admitted, Dropped, Exhausted, Counts
  <2> QED
    BY <2>1, <2>2, LandingCounts
<1>5. ASSUME NEW c \in Callers, Refused(c) PROVE CountsAgree'
  <2>1. c \in Flying /\ Charge /\ UNCHANGED <<now, pacer>>
    BY <1>5 DEF Refused, Flying
  <2>2. did'.others = did.others /\ did'.restarts = did.restarts
    BY <1>5, PartsOf DEF Refused, Counts
  <2>3. PICK k \in Jobs : k.pc = "backoff" /\ work' = [work EXCEPT ![c] = k]
    BY <1>5, RefusedIs
  <2> QED
    BY <2>1, <2>2, <2>3, LandingCounts
<1>6. CASE OtherClient
  BY <1>6, PartsOf DEF OtherClient, Counts, CountsAgree
<1>7. CASE Restart
  BY <1>7, PartsOf DEF Restart, Counts, CountsAgree
<1>8. CASE Tick
  <2>1. UNCHANGED <<pacer, server, work, did>> /\ now' = now + 1 /\ Flying' = Flying
    BY <1>8 DEF Tick, Flying
  <2> SUFFICES ASSUME did.others = 0 /\ did.restarts = 0
               PROVE  pacer.day <= Today(now)' /\ Flying = {}
    BY <2>1 DEF CountsAgree
  <2>2. \A c \in Flying : work[c].until = now /\ now \in Nat /\ c \in Callers
    BY PartsOf DEF CountsAgree, Flying
  <2>3. Flying = {}
    BY <1>8, <2>2 DEF Tick, Due, Flying
  <2>4. Today(now) <= Today(now + 1) /\ Today(now + 1) \in Nat
    <3>1. now \in Nat /\ now + 1 \in Nat /\ now <= now + 1
      BY NumbersAre
    <3> QED
      BY <3>1, TodayGrows, TodayType
  <2>5. pacer.day <= Today(now + 1)
    <3>1. pacer.day <= Today(now)
      BY DEF CountsAgree
    <3> QED
      BY <2>4, <3>1, NumbersAre
  <2>6. Today(now)' = Today(now + 1)
    BY <2>1 DEF Today
  <2> QED
    BY <2>3, <2>5, <2>6
<1>9. CASE UNCHANGED vars
  BY <1>9 DEF vars, CountsAgree, Flying, Today
<1> QED
  BY <1>1, <1>2, <1>3, <1>4, <1>5, <1>6, <1>7, <1>8, <1>9 DEF Next, Proceed, Rest

\* However many threads share the pacer: without another client, a restart or
\* latency, the pacer has counted at least what the platform charged today.
THEOREM PacerIsConservative ==
  AtOnce /\ IsFiniteSet(Callers) /\ Spec => []PacerCountsAtLeastTheServer
<1> SUFFICES ASSUME AtOnce, IsFiniteSet(Callers)
             PROVE  Spec => []PacerCountsAtLeastTheServer
  OBVIOUS
<1>1. Init => CountsAgree
  BY CountsAgreeInitially
<1>2. IInv /\ CountsAgree /\ [Next]_vars => CountsAgree'
  BY CountsAgreeStep
<1>3. IInv /\ CountsAgree => PacerCountsAtLeastTheServer
  <2> SUFFICES ASSUME IInv, CountsAgree PROVE PacerCountsAtLeastTheServer
    OBVIOUS
  <2>1. IsFiniteSet(Flying) /\ Cardinality(Flying) \in Nat
    BY FS_Subset, FS_CardinalityType DEF Flying
  <2> QED
    BY <2>1, NumbersAre DEF CountsAgree, PacerCountsAtLeastTheServer
<1> QED
  BY <1>1, <1>2, <1>3, Invariant, PTL DEF Spec
-----------------------------------------------------------------------------
(* The budget of one caller.                                               *)

\* One thread calls through the pacer.
Alone == \A c, d \in Callers : c = d

\* What the hints of a first and of a second 429 leave behind: room in the
\* day by the time of the retry, then a window that is over by then.
DayLeft(j)    == \/ server.count < DailyLimit
                 \/ server.day < Today(j.until) \/ server.day < Today(now)
WindowOver(j) == server.start + Window <= j.until \/ server.start + Window <= now

Patient ==
  did.others = 0 /\ MaxRetries >= 2 =>
    /\ did.exhausted = 0
    /\ \A c \in Callers : /\ work[c].retries >= 1 => DayLeft(work[c])
                          /\ work[c].retries >= 2 => WindowOver(work[c])

\* The job of the one caller is the only one.
LEMMA OnlyJob ==
  ASSUME IInv, Alone, NEW c \in Callers, NEW k, work' = [work EXCEPT ![c] = k]
  PROVE  \A d \in Callers : work'[d] = k
BY PartsOf DEF Alone

\* A caller that goes on without a 429 keeps what its retries have earned.
LEMMA PatientGoesOn ==
  ASSUME IInv, Patient, Alone, NEW c \in Callers, NEW j \in Jobs, NEW k \in Jobs,
         (j = work[c] /\ j.until <= now) \/ j.retries = 0,
         k.retries = j.retries, work' = [work EXCEPT ![c] = k], UNCHANGED <<now, server>>,
         did'.others = did.others /\ did'.exhausted = did.exhausted
  PROVE  Patient'
<1> SUFFICES ASSUME did.others = 0, MaxRetries >= 2
             PROVE  /\ did.exhausted = 0
                    /\ k.retries >= 1 => DayLeft(k)'
                    /\ k.retries >= 2 => WindowOver(k)'
  BY OnlyJob DEF Patient, DayLeft, WindowOver, Today
<1>1. now \in Nat /\ server.day \in Nat /\ server.start \in Nat /\ Window \in Nat
  BY NumbersAre, LimitAssumption
<1>2. j.retries \in Nat /\ j.until \in Nat
  BY LimitAssumption DEF Jobs
<1>3. CASE j = work[c] /\ j.until <= now
  <2>1. /\ j.retries >= 1 => DayLeft(j)
        /\ j.retries >= 2 => WindowOver(j)
        /\ did.exhausted = 0
    BY <1>3 DEF Patient
  <2>2. Today(j.until) <= Today(now) /\ Today(j.until) \in Nat /\ Today(now) \in Nat
    BY <1>1, <1>2, <1>3, TodayGrows, TodayType
  <2>3. j.retries >= 1 => server.count < DailyLimit \/ server.day < Today(now)
    BY <1>1, <2>1, <2>2 DEF DayLeft
  <2>4. j.retries >= 2 => server.start + Window <= now
    BY <1>1, <1>2, <1>3, <2>1 DEF WindowOver
  <2> QED
    BY <2>1, <2>3, <2>4 DEF DayLeft, WindowOver, Today
<1>4. CASE j.retries = 0
  BY <1>4 DEF Patient
<1> QED
  BY <1>3, <1>4

\* A 429 at its time: the first may be for the day or for the window, the
\* second is for the window, and there is no third.
LEMMA RefusalIs ==
  ASSUME IInv, Patient, NEW c \in Callers, did.others = 0, MaxRetries >= 2,
         work[c].until <= now, Hint > 0, Charge, UNCHANGED now, NEW k \in Jobs,
         k.until = now + Hint
  PROVE  /\ work[c].retries < 2
         /\ DayLeft(k)'
         /\ work[c].retries >= 1 => WindowOver(k)'
<1> DEFINE j == work[c]
<1>1. j \in Jobs /\ j.retries \in Nat /\ j.until \in Nat /\ MaxRetries \in Nat
  BY PartsOf, LimitAssumption DEF Jobs
<1>2. /\ now \in Nat /\ Today(now) \in Nat /\ server.day \in Nat /\ server.start \in Nat
      /\ server.count \in Nat
      /\ Window \in Nat /\ BurstLimit \in Nat \ {0} /\ DailyLimit \in Nat \ {0}
  BY NumbersAre, LimitAssumption
<1>3. j.retries >= 1 => DayLeft(j)
  BY DEF Patient
<1>4. j.retries >= 2 => WindowOver(j)
  BY DEF Patient
<1> HIDE DEF j
<1>5. j.until <= now
  BY DEF j
<1>6. Today(j.until) <= Today(now) /\ Today(j.until) \in Nat
  BY <1>1, <1>2, <1>5, TodayGrows, TodayType
<1>7. j.retries >= 1 => ServerToday.count < DailyLimit
  BY <1>2, <1>3, <1>6, ServerIs DEF DayLeft
<1>8. ServerToday.count \in Nat
  BY <1>2, ServerIs
<1>9. j.retries >= 1 => ~DaySpentAtServer
  BY <1>2, <1>7, <1>8 DEF DaySpentAtServer
<1>10. j.retries < 2
  <2> SUFFICES ASSUME j.retries >= 2 PROVE Hint = 0
    BY <1>1, HintIs
  <2>1. server.start + Window <= now
    BY <1>1, <1>2, <1>4, <1>5 DEF WindowOver
  <2>2. now - server.start >= Window
    BY <1>2, <2>1
  <2>3. ServerWindow.used = 0
    BY <2>2, ServerIs
  <2> QED
    BY <1>1, <1>2, <1>7, <2>3, HintIs
<1>11. server'.day = Today(now) /\ server'.count = ServerToday.count
  BY ChargeIs
<1>12. DayLeft(k)'
  <2>1. CASE DaySpentAtServer
    <3>1. now + Hint = Midnight(now) /\ Hint \in Nat
      BY <2>1, HintIs
    <3>2. Today(now) < Today(k.until)
      BY <1>2, <3>1, TodayType, MidnightTurnsTheDay
    <3> QED
      BY <1>11, <3>2 DEF DayLeft, Today
  <2>2. CASE ~DaySpentAtServer
    BY <1>2, <1>8, <1>11, <2>2 DEF DayLeft, DaySpentAtServer
  <2> QED
    BY <2>1, <2>2
<1>13. j.retries >= 1 => WindowOver(k)'
  <2> SUFFICES ASSUME j.retries >= 1 PROVE server'.start + Window <= k.until
    BY DEF WindowOver
  <2>1. now + Hint = server.start + Window
    BY <1>9, HintIs
  <2>2. server'.start = server.start
    BY <1>9, ChargeIs
  <2> QED
    BY <1>2, <2>1, <2>2
<1> QED
  BY <1>10, <1>12, <1>13 DEF j

LEMMA PatientLooks ==
  ASSUME IInv, Patient, Alone, NEW c \in Callers, NEW j \in Jobs,
         (j = work[c] /\ j.until <= now) \/ j.retries = 0, Look(c, j),
         UNCHANGED <<now, server>>,
         did'.others = did.others /\ did'.exhausted = did.exhausted
  PROVE  Patient'
<1>1. CASE Launch(c, Looked, [j EXCEPT !.slept = "none"])
  <2> DEFINE i == [j EXCEPT !.slept = "none"]
  <2>1. i \in Jobs /\ i.retries = j.retries
    BY DEF Jobs
  <2> HIDE DEF i
  <2>2. PICK k \in Jobs : k.retries = i.retries /\ work' = [work EXCEPT ![c] = k]
    <3>1. Looked \in Pacers /\ Launch(c, Looked, i)
      BY <1>1, LookedIs DEF i
    <3> QED
      BY <2>1, <3>1, LaunchFlies
  <2> QED
    BY <2>1, <2>2, PatientGoesOn
<1> DEFINE s == IF DayIsSpent THEN "day" ELSE "burst"
           k == [j EXCEPT !.pc = "sleep", !.until = now + WaitBeforeCall, !.slept = s]
<1>2. CASE work' = [work EXCEPT ![c] = k]
  <2>1. now + WaitBeforeCall \in Nat /\ s \in {"none", "burst", "day"}
    BY PartsOf, WaitIs
  <2> HIDE DEF s
  <2>2. k \in Jobs
    BY <2>1, IdleType, JobType
  <2>3. k.retries = j.retries
    BY DEF Jobs
  <2> HIDE DEF k
  <2> QED
    BY <1>2, <2>2, <2>3, PatientGoesOn
<1> QED
  BY <1>1, <1>2, LookIs

LEMMA PatientStep ==
  ASSUME IInv, Patient, Alone, [Next]_vars
  PROVE  Patient'
<1>1. ASSUME NEW c \in Callers, Begin(c) PROVE Patient'
  <2>1. /\ Idle.retries = 0 /\ Look(c, Idle) /\ UNCHANGED <<now, server>>
        /\ did'.others = did.others /\ did'.exhausted = did.exhausted
    BY <1>1, PartsOf DEF Begin, Idle, Counts
  <2> QED
    BY <2>1, IdleType, PatientLooks
<1>2. ASSUME NEW c \in Callers, Retry(c) PROVE Patient'
  <2>1. /\ work[c] \in Jobs /\ work[c].until <= now /\ Look(c, work[c])
        /\ UNCHANGED <<now, server, did>>
    BY <1>2, PartsOf DEF Retry, Due
  <2> QED
    BY <2>1, PatientLooks
<1>3. ASSUME NEW c \in Callers, Wake(c) PROVE Patient'
  <2>1. /\ work[c] \in Jobs /\ work[c].until <= now /\ Launch(c, pacer, work[c])
        /\ UNCHANGED <<now, server>>
    BY <1>3, PartsOf DEF Wake, Due
  <2>2. did'.others = did.others /\ did'.exhausted = did.exhausted
    BY <1>3, PartsOf, WakeIs DEF Counts
  <2>3. PICK k \in Jobs : k.retries = work[c].retries /\ work' = [work EXCEPT ![c] = k]
    BY <2>1, PartsOf, LaunchFlies
  <2> QED
    BY <2>1, <2>2, <2>3, PatientGoesOn
<1>4. ASSUME NEW c \in Callers, Admitted(c) \/ Dropped(c) PROVE Patient'
  <2>1. work' = [work EXCEPT ![c] = Idle] /\ did' = did
    BY <1>4 DEF Admitted, Dropped, Goto
  <2>2. \A d \in Callers : work'[d] = Idle
    BY <2>1, OnlyJob
  <2> QED
    BY <2>1, <2>2 DEF Patient, Idle
<1>5. ASSUME NEW c \in Callers, Exhausted(c) PROVE Patient'
  <2> SUFFICES ASSUME did.others = 0, MaxRetries >= 2 PROVE FALSE
    BY <1>5, PartsOf DEF Exhausted, Patient, Counts
  <2>1. \E k \in Jobs : k.until = now + Hint
    <3> DEFINE k == [Idle EXCEPT !.pc = "backoff", !.until = now + Hint]
    <3>1. Idle \in Jobs /\ now + Hint \in Nat
      BY IdleType, HintIs, PartsOf
    <3>2. k \in Jobs
      BY <3>1, IdleType, JobType
    <3>3. k.until = now + Hint
      BY <3>1 DEF Jobs
    <3> QED
      BY <3>2, <3>3
  <2>2. /\ work[c].until <= now /\ Hint > 0 /\ Charge /\ UNCHANGED now
        /\ work[c].retries + 1 > MaxRetries
    BY <1>5 DEF Exhausted, Due
  <2>3. work[c].retries < 2
    BY <2>1, <2>2, RefusalIs
  <2>4. work[c].retries \in Nat /\ MaxRetries \in Nat
    BY LimitAssumption, PartsOf DEF Jobs
  <2> QED
    BY <2>2, <2>3, <2>4
<1>6. ASSUME NEW c \in Callers, Refused(c) PROVE Patient'
  <2>1. work[c].until <= now /\ Hint > 0 /\ Charge /\ UNCHANGED now
    BY <1>6 DEF Refused, Due
  <2>2. did'.others = did.others /\ did'.exhausted = did.exhausted
    BY <1>6, PartsOf DEF Refused, Counts
  <2>3. work[c].retries \in Nat
    BY LimitAssumption, PartsOf DEF Jobs
  <2>4. PICK k \in Jobs : /\ k.until = now + Hint /\ k.retries = work[c].retries + 1
                          /\ work' = [work EXCEPT ![c] = k]
    BY <1>6, RefusedIs
  <2>5. \A d \in Callers : work'[d] = k
    BY <2>4, OnlyJob
  <2> SUFFICES ASSUME did.others = 0, MaxRetries >= 2
               PROVE  /\ did.exhausted = 0
                      /\ DayLeft(k)'
                      /\ work[c].retries >= 1 => WindowOver(k)'
    BY <2>2, <2>3, <2>4, <2>5 DEF Patient, DayLeft, WindowOver
  <2>6. did.exhausted = 0
    BY DEF Patient
  <2> QED
    BY <2>1, <2>4, <2>6, RefusalIs
<1>7. CASE OtherClient
  BY <1>7, PartsOf DEF OtherClient, Counts, Patient
<1>8. CASE Restart
  <2>1. /\ \A c \in Callers : work'[c].retries = 0
        /\ did'.others = did.others /\ did'.exhausted = did.exhausted
    BY <1>8, PartsOf DEF Restart, Idle, Counts
  <2> QED
    BY <2>1 DEF Patient
<1>9. CASE Tick
  <2>1. now' = now + 1 /\ UNCHANGED <<server, work, did>>
    BY <1>9 DEF Tick
  <2>2. /\ now \in Nat /\ Today(now) \in Nat /\ server.day \in Nat /\ server.start \in Nat
        /\ Window \in Nat
    BY NumbersAre, LimitAssumption
  <2>3. Today(now) <= Today(now') /\ Today(now') \in Nat
    BY <2>1, <2>2, TodayGrows, TodayType
  <2>4. ASSUME NEW c \in Callers
        PROVE  /\ DayLeft(work[c]) => DayLeft(work[c])'
               /\ WindowOver(work[c]) => WindowOver(work[c])'
    <3>1. DayLeft(work[c]) => DayLeft(work[c])'
      BY <2>1, <2>2, <2>3 DEF DayLeft, Today
    <3>2. WindowOver(work[c]) => WindowOver(work[c])'
      BY <2>1, <2>2 DEF WindowOver
    <3> QED
      BY <3>1, <3>2
  <2> QED
    BY <2>1, <2>4 DEF Patient
<1>10. CASE UNCHANGED vars
  BY <1>10 DEF vars, Patient, DayLeft, WindowOver, Today
<1> QED
  BY <1>1, <1>2, <1>3, <1>4, <1>5, <1>6, <1>7, <1>8, <1>9, <1>10 DEF Next, Proceed, Rest

\* With a budget of two retries or more a caller alone on its token always
\* gets its call through, whatever the latency and however often the process
\* restarts.
THEOREM TwoRetriesSuffice == Alone /\ Spec => []ExhaustedOnlyInCompany
<1> SUFFICES ASSUME Alone PROVE Spec => []ExhaustedOnlyInCompany
  OBVIOUS
<1>1. Init => Patient
  BY DEF Init, Patient, Idle
<1>2. IInv /\ Patient /\ [Next]_vars => Patient'
  BY PatientStep
<1>3. IInv /\ Patient => ExhaustedOnlyInCompany
  BY PartsOf, LimitAssumption DEF Patient, ExhaustedOnlyInCompany, Counts
<1> QED
  BY <1>1, <1>2, <1>3, Invariant, PTL DEF Spec

-----------------------------------------------------------------------------
(* The window of one caller.                                               *)

Unforced == did.others = 0 /\ did.restarts = 0 /\ did.unchecked = 0

\* No window holds more calls than its limit.
Spread(s) ==
  \A i \in 1..Len(s) : i + BurstLimit <= Len(s) => s[i] + Window <= s[i + BurstLimit]

\* The last n calls of s all fall into the window the platform has open.
Covers(s, n) ==
  server.used > 0 /\ now - server.start < Window =>
    n <= Len(s) /\ server.start <= s[Len(s) + 1 - n]

\* What the platform has charged in its window, and the call on its way.
Charged(j) == server.used + IF j.pc = "flight" THEN 1 ELSE 0

\* A sleep is long enough, a call that has left was recorded this tick, and
\* the pacer remembers whatever the platform still holds against it.
JobPaced(j) ==
  /\ j.pc # "backoff"
  /\ j.pc = "sleep" => j.slept \in {"burst", "day"}
  /\ j.pc = "sleep" /\ j.slept = "burst" =>
       /\ BurstLimit <= Len(pacer.calls) /\ pacer.count < DailyLimit
       /\ pacer.calls[Len(pacer.calls) + 1 - BurstLimit] + Window <= j.until
  /\ j.pc = "sleep" /\ j.slept = "day" => pacer.day < Today(j.until)
  /\ j.pc = "flight" => 1 <= Len(pacer.calls) /\ pacer.calls[Len(pacer.calls)] = now
  /\ Covers(pacer.calls, Charged(j))

Paced ==
  Unforced =>
    /\ did.refused = 0 /\ pacer.count <= DailyLimit /\ Spread(pacer.calls)
    /\ \A c \in Callers : JobPaced(work[c])

\* Dropping the expired calls keeps the spread, and drops nothing that the
\* platform's window still holds.
LEMMA RecentKeeps ==
  ASSUME IInv, NEW s, InOrder(s), Spread(s), NEW n \in Nat, Covers(s, n),
         server.used > 0 => n > 0
  PROVE  Spread(Recent(s)) /\ Covers(Recent(s), n) /\ Len(Recent(s)) <= BurstLimit
<1> DEFINE r == Recent(s)
           g == Gone(s)
<1>1. /\ g \in 0..Len(s) /\ Len(r) = Len(s) - g
      /\ \A i \in 1..Len(r) : r[i] = s[g + i] /\ now - r[i] < Window
      /\ \A i \in 1..g : s[i] + Window <= now
      /\ InOrder(r)
  BY PartsOf, RecentIs
<1>2. /\ Len(s) \in Nat /\ \A i \in 1..Len(s) : s[i] \in Nat /\ s[i] <= now
      /\ now \in Nat /\ server.start \in Nat /\ Window \in Nat \ {0} /\ BurstLimit \in Nat \ {0}
  <2>1. now \in Nat /\ server.start \in Nat
    BY NumbersAre
  <2>2. Len(s) \in Nat /\ \A i \in 1..Len(s) : s[i] \in Nat /\ s[i] <= now
    BY DEF InOrder
  <2> QED
    BY <2>1, <2>2, LimitAssumption
<1> HIDE DEF r, g
<1>3. Spread(r)
  <2> SUFFICES ASSUME NEW i \in 1..Len(r), i + BurstLimit <= Len(r)
               PROVE  r[i] + Window <= r[i + BurstLimit]
    BY DEF Spread
  <2>1. /\ g + i \in 1..Len(s) /\ (g + i) + BurstLimit <= Len(s)
        /\ i + BurstLimit \in 1..Len(r) /\ g + (i + BurstLimit) = (g + i) + BurstLimit
    BY <1>1, <1>2
  <2>2. s[g + i] + Window <= s[(g + i) + BurstLimit]
    BY <2>1 DEF Spread
  <2>3. r[i] = s[g + i] /\ r[i + BurstLimit] = s[g + (i + BurstLimit)]
    BY <1>1, <2>1
  <2> QED
    BY <2>1, <2>2, <2>3
<1>4. Covers(r, n)
  <2> SUFFICES ASSUME server.used > 0, now - server.start < Window
               PROVE  n <= Len(r) /\ server.start <= r[Len(r) + 1 - n]
    BY DEF Covers
  <2>1. n <= Len(s) /\ server.start <= s[Len(s) + 1 - n]
    BY DEF Covers
  <2>2. Len(s) + 1 - n \in 1..Len(s)
    BY <1>2, <2>1
  <2>3. ~(Len(s) + 1 - n \in 1..g)
    BY <1>1, <1>2, <2>1, <2>2, SMTT(60)
  <2>4. Len(r) + 1 - n \in 1..Len(r) /\ g + (Len(r) + 1 - n) = Len(s) + 1 - n /\ n <= Len(r)
    BY <1>1, <1>2, <2>2, <2>3
  <2> QED
    BY <1>1, <2>1, <2>4
<1>5. Len(r) <= BurstLimit
  <2> SUFFICES ASSUME Len(r) > BurstLimit PROVE FALSE
    BY <1>1, <1>2
  <2>1. 1 \in 1..Len(r) /\ 1 + BurstLimit \in 1..Len(r) /\ 1 + BurstLimit <= Len(r)
    BY <1>1, <1>2
  <2>2. r[1] + Window <= r[1 + BurstLimit]
    BY <1>3, <2>1 DEF Spread
  <2>3. now - r[1] < Window /\ r[1 + BurstLimit] <= now /\ r[1] \in Nat /\ r[1 + BurstLimit] \in Nat
    <3>1. r \in Seq(Nat) /\ \A i \in 1..Len(r) : r[i] <= now
      BY <1>1 DEF InOrder
    <3>2. \A i \in 1..Len(r) : r[i] \in Nat
      BY <3>1
    <3> QED
      BY <1>1, <2>1, <3>1, <3>2
  <2> QED
    BY <1>2, <2>2, <2>3
<1> QED
  BY <1>3, <1>4, <1>5 DEF r

\* A call made when the last window's worth is over keeps the spread.
LEMMA AppendKeeps ==
  ASSUME IInv, NEW s, InOrder(s), Spread(s), NEW n \in Nat, Covers(s, n),
         server.used > 0 => n > 0,
         BurstLimit <= Len(s) => s[Len(s) + 1 - BurstLimit] + Window <= now
  PROVE  LET r == Append(s, now)
         IN  /\ Spread(r) /\ Covers(r, n + 1)
             /\ 1 <= Len(r) /\ r[Len(r)] = now
<1> DEFINE r == Append(s, now)
<1>1. /\ Len(s) \in Nat /\ \A i \in 1..Len(s) : s[i] \in Nat
      /\ now \in Nat /\ server.start \in Nat /\ Window \in Nat \ {0} /\ BurstLimit \in Nat \ {0}
  BY NumbersAre, LimitAssumption, SMTT(60) DEF InOrder
<1>2. Len(r) = Len(s) + 1 /\ r[Len(r)] = now /\ \A i \in 1..Len(s) : r[i] = s[i]
  BY <1>1, AppendProperties DEF InOrder
<1> HIDE DEF r
<1>3. Spread(r)
  <2> SUFFICES ASSUME NEW i \in 1..Len(r), i + BurstLimit <= Len(r)
               PROVE  r[i] + Window <= r[i + BurstLimit]
    BY DEF Spread
  <2>1. i \in 1..Len(s)
    BY <1>1, <1>2
  <2>2. CASE i + BurstLimit <= Len(s)
    <3>1. s[i] + Window <= s[i + BurstLimit] /\ i + BurstLimit \in 1..Len(s)
      BY <1>1, <2>1, <2>2 DEF Spread
    <3> QED
      BY <1>2, <2>1, <3>1
  <2>3. CASE i + BurstLimit > Len(s)
    <3>1. i + BurstLimit = Len(r) /\ i = Len(s) + 1 - BurstLimit /\ BurstLimit <= Len(s)
      <4>1. Len(r) = Len(s) + 1 /\ Len(s) \in Nat /\ i \in Nat /\ BurstLimit \in Nat /\ 1 <= i
        BY <1>1, <1>2, <2>1
      <4> QED
        BY <2>3, <4>1
    <3> QED
      BY <1>2, <2>1, <3>1
  <2> QED
    BY <1>1, <2>1, <2>2, <2>3
<1>4. Covers(r, n + 1)
  <2> SUFFICES ASSUME server.used > 0, now - server.start < Window
               PROVE  n + 1 <= Len(r) /\ server.start <= r[Len(r) + 1 - (n + 1)]
    BY DEF Covers
  <2>1. n <= Len(s) /\ server.start <= s[Len(s) + 1 - n]
    BY DEF Covers
  <2>2. Len(s) + 1 - n \in 1..Len(s) /\ Len(r) + 1 - (n + 1) = Len(s) + 1 - n /\ n + 1 <= Len(r)
    BY <1>1, <1>2, <2>1
  <2> QED
    BY <1>2, <2>1, <2>2
<1> QED
  BY <1>1, <1>2, <1>3, <1>4 DEF r

\* The numbers a job is measured by.
LEMMA ChargedIs ==
  ASSUME IInv, NEW j \in Jobs
  PROVE  /\ Charged(j) \in Nat /\ server.used > 0 => Charged(j) > 0
         /\ j.pc = "flight" => Charged(j) = server.used + 1
         /\ j.pc # "flight" => Charged(j) = server.used
BY NumbersAre DEF Charged

\* One caller: the state is paced if its job is.
LEMMA PacedBecomes ==
  ASSUME IInv, Alone, NEW c \in Callers, NEW k, work' = [work EXCEPT ![c] = k],
         Unforced' => /\ did'.refused = 0 /\ pacer'.count <= DailyLimit
                      /\ Spread(pacer'.calls) /\ JobPaced(k)'
  PROVE  Paced'
BY OnlyJob DEF Paced, Spread

\* A call leaves from a pacer p that leaves it room.
LEMMA LaunchPaced ==
  ASSUME IInv, Alone, NEW c \in Callers, NEW p \in Pacers, InOrder(p.calls), NEW j \in Jobs,
         Launch(c, p, j), UNCHANGED <<now, server>>,
         Unforced' =>
           /\ did'.refused = 0
           /\ Spread(p.calls) /\ Covers(p.calls, server.used)
           /\ BurstLimit <= Len(p.calls) =>
                p.calls[Len(p.calls) + 1 - BurstLimit] + Window <= now
           /\ (IF p.day = Today(now) THEN p.count ELSE 0) < DailyLimit
  PROVE  Paced'
<1>1. PICK k \in Jobs : k.pc = "flight" /\ work' = [work EXCEPT ![c] = k]
  BY LaunchFlies
<1>2. /\ pacer'.calls = Append(p.calls, now)
      /\ pacer'.count = (IF p.day = Today(now) THEN p.count ELSE 0) + 1
  BY LaunchIs
<1> SUFFICES ASSUME Unforced'
             PROVE  /\ pacer'.count <= DailyLimit /\ Spread(pacer'.calls) /\ JobPaced(k)'
  BY <1>1, PacedBecomes
<1>3. server.used \in Nat /\ DailyLimit \in Nat /\ p.count \in Nat
  BY NumbersAre, LimitAssumption DEF Pacers
<1>4. pacer'.count <= DailyLimit
  BY <1>2, <1>3
<1> DEFINE r == Append(p.calls, now)
<1>5. Spread(r) /\ Covers(r, server.used + 1) /\ 1 <= Len(r) /\ r[Len(r)] = now
  <2>1. server.used > 0 => server.used > 0
    OBVIOUS
  <2> QED
    BY <1>3, <2>1, AppendKeeps
<1> HIDE DEF r
<1>6. pacer'.calls = r
  BY <1>2 DEF r
<1>7. Charged(k)' = server.used + 1
  BY <1>1 DEF Charged
<1>8. JobPaced(k)'
  BY <1>1, <1>5, <1>6, <1>7 DEF JobPaced, Covers
<1> QED
  BY <1>4, <1>5, <1>6, <1>8

\* The head of the loop, for a caller whose call is not on its way.
LEMMA LookPaced ==
  ASSUME IInv, Paced, Alone, NEW c \in Callers, work[c].pc # "flight", NEW j \in Jobs,
         Look(c, j), UNCHANGED <<now, server>>,
         Unforced' => Unforced /\ did'.refused = did.refused
  PROVE  Paced'
<1>1. /\ Looked \in Pacers /\ InOrder(Looked.calls) /\ Looked.day = Today(now)
      /\ Looked.count = IF pacer.day = Today(now) THEN pacer.count ELSE 0
      /\ DayIsSpent => Looked.calls = pacer.calls
      /\ ~DayIsSpent => Looked.calls = Recent(pacer.calls) /\ Looked.count < DailyLimit
  BY LookedIs
<1>2. Unforced' => /\ did'.refused = 0 /\ pacer.count <= DailyLimit
                   /\ Spread(pacer.calls) /\ Covers(pacer.calls, server.used)
  BY PartsOf, ChargedIs DEF Paced, JobPaced
<1>3. /\ server.used \in Nat /\ now \in Nat /\ Window \in Nat /\ BurstLimit \in Nat \ {0}
      /\ DailyLimit \in Nat \ {0} /\ Len(Looked.calls) \in Nat
  BY <1>1, NumbersAre, LimitAssumption DEF InOrder
<1>4. Unforced' /\ ~DayIsSpent => /\ Spread(Looked.calls) /\ Covers(Looked.calls, server.used)
                                  /\ Len(Looked.calls) <= BurstLimit
  <2>1. server.used > 0 => server.used > 0
    OBVIOUS
  <2> QED
    BY <1>1, <1>2, <1>3, <2>1, PartsOf, RecentKeeps
<1>5. CASE WaitBeforeCall = 0 /\ Launch(c, Looked, [j EXCEPT !.slept = "none"])
  <2>1. [j EXCEPT !.slept = "none"] \in Jobs
    BY DEF Jobs
  <2>2. ~DayIsSpent /\ ~(Len(Looked.calls) >= BurstLimit)
    BY <1>5, WaitIs
  <2>3. ~(BurstLimit <= Len(Looked.calls))
    BY <1>3, <2>2
  <2>4. (IF Looked.day = Today(now) THEN Looked.count ELSE 0) < DailyLimit
    BY <1>1, <2>2
  <2> QED
    BY <1>1, <1>2, <1>4, <1>5, <2>1, <2>2, <2>3, <2>4, LaunchPaced
<1> DEFINE s == IF DayIsSpent THEN "day" ELSE "burst"
           w == [j EXCEPT !.pc = "sleep", !.until = now + WaitBeforeCall, !.slept = s]
<1>6. CASE WaitBeforeCall > 0 /\ pacer' = Looked /\ work' = [work EXCEPT ![c] = w]
  <2>1. now + WaitBeforeCall \in Nat /\ s \in {"none", "burst", "day"}
    BY PartsOf, WaitIs
  <2>2. /\ w \in Jobs /\ w.pc = "sleep" /\ w.until = now + WaitBeforeCall
        /\ w.slept = IF DayIsSpent THEN "day" ELSE "burst"
    <3> HIDE DEF s
    <3>1. w \in Jobs
      BY <2>1, IdleType, JobType
    <3>2. w.pc = "sleep" /\ w.until = now + WaitBeforeCall /\ w.slept = s
      BY DEF Jobs
    <3> QED
      BY <3>1, <3>2 DEF s
  <2> HIDE DEF w
  <2>3. PICK k \in Jobs : /\ k.pc = "sleep" /\ k.until = now + WaitBeforeCall
                          /\ k.slept = IF DayIsSpent THEN "day" ELSE "burst"
                          /\ work' = [work EXCEPT ![c] = k]
    BY <1>6, <2>2
  <2>4. Charged(k)' = server.used
    BY <1>3, <2>3 DEF Charged
  <2> SUFFICES ASSUME Unforced'
               PROVE  pacer'.count <= DailyLimit /\ Spread(pacer'.calls) /\ JobPaced(k)'
    BY <1>2, <2>3, PacedBecomes
  <2>5. pacer'.count <= DailyLimit
    BY <1>1, <1>2, <1>3, <1>6
  <2>6. Spread(pacer'.calls) /\ Covers(pacer'.calls, server.used)
    BY <1>1, <1>2, <1>4, <1>6
  <2>7. Covers(pacer.calls, Charged(k))'
    BY <2>4, <2>6 DEF Covers
  <2>8. CASE DayIsSpent
    <3>1. k.until = Midnight(now)
      BY <2>3, <2>8, WaitIs
    <3>2. pacer'.day < Today(k.until)
      <4>1. Midnight(now) \in Nat
        BY <1>3, TodayType
      <4>2. k.until \in Nat /\ Midnight(now) <= k.until
        BY <3>1, <4>1
      <4>3. Today(now) < Today(k.until)
        BY <1>3, <4>2, MidnightTurnsTheDay
      <4> QED
        BY <1>1, <1>6, <4>3
    <3> QED
      BY <2>3, <2>5, <2>6, <2>7, <2>8, <3>2 DEF JobPaced, Today
  <2>9. CASE ~DayIsSpent
    <3>1. Len(Looked.calls) = BurstLimit
      BY <1>3, <1>4, <1>6, <2>9, WaitIs
    <3>2. k.until = Looked.calls[1] + Window
      BY <1>3, <2>3, <2>9, <3>1, WaitIs
    <3>3. Looked.calls[Len(Looked.calls) + 1 - BurstLimit] + Window <= k.until
      <4>1. Len(Looked.calls) + 1 - BurstLimit = 1 /\ 1 \in 1..Len(Looked.calls)
        BY <1>3, <3>1
      <4>2. Looked.calls[1] \in Nat
        BY <1>1, <4>1 DEF InOrder
      <4> QED
        BY <1>3, <3>2, <4>1, <4>2
    <3>4. BurstLimit <= Len(Looked.calls) /\ Looked.count < DailyLimit
      BY <1>1, <1>3, <2>9, <3>1
    <3> QED
      BY <1>6, <2>3, <2>5, <2>6, <2>7, <2>9, <3>3, <3>4 DEF JobPaced
  <2> QED
    BY <2>8, <2>9
<1> QED
  BY <1>5, <1>6, LookIs

\* A call on its way finds room: in the day because the pacer has counted it,
\* in the window because the pacer has spread it.
LEMMA PacedIsAdmitted ==
  ASSUME IInv, Paced, CountsAgree, IsFiniteSet(Callers), NEW c \in Callers,
         work[c].pc = "flight", Unforced
  PROVE  Hint = 0
<1>1. /\ now \in Nat /\ server.day \in Nat /\ server.count \in Nat /\ pacer.day \in Nat
      /\ pacer.count \in Nat /\ Today(now) \in Nat /\ server.start \in Nat
      /\ server.used \in Nat /\ pacer.calls \in Seq(Nat) /\ Len(pacer.calls) \in Nat
      /\ Window \in Nat \ {0} /\ BurstLimit \in Nat \ {0} /\ DailyLimit \in Nat \ {0}
  BY NumbersAre, LimitAssumption
<1>2. /\ JobPaced(work[c]) /\ Spread(pacer.calls) /\ pacer.count <= DailyLimit
      /\ work[c] \in Jobs
  BY PartsOf DEF Paced
<1>3. ServerToday.count < DailyLimit
  <2>1. IsFiniteSet(Flying) /\ c \in Flying
    BY FS_Subset DEF Flying
  <2>2. Cardinality(Flying) \in Nat /\ Cardinality(Flying) # 0
    BY <2>1, FS_CardinalityType, FS_EmptySet
  <2>3. /\ pacer.day = Today(now)
        /\ (IF server.day = pacer.day THEN server.count ELSE 0) + Cardinality(Flying) <= pacer.count
    BY <2>1 DEF CountsAgree, Unforced
  <2>4. ServerToday.count = IF server.day = Today(now) THEN server.count ELSE 0
    BY ServerIs
  <2> QED
    BY <1>1, <1>2, <2>2, <2>3, <2>4
<1>4. ServerWindow.used < BurstLimit
  <2>1. CASE server.used = 0 \/ now - server.start >= Window
    BY <1>1, <2>1, ServerIs
  <2>2. CASE ~(server.used = 0 \/ now - server.start >= Window)
    <3> SUFFICES ASSUME server.used >= BurstLimit PROVE FALSE
      BY <1>1, <2>2, ServerIs
    <3>1. server.used = BurstLimit
      <4>1. server.used \in 0..BurstLimit
        BY PartsOf DEF Servers
      <4> QED
        BY <1>1, <4>1
    <3>2. Charged(work[c]) = BurstLimit + 1
      BY <1>2, <3>1, ChargedIs
    <3>3. server.used > 0 /\ now - server.start < Window
      BY <1>1, <2>2
    <3> DEFINE s == pacer.calls
               n == Len(s)
               i == n - BurstLimit
    <3>4. /\ BurstLimit + 1 <= n /\ server.start <= s[n + 1 - (BurstLimit + 1)]
          /\ s[n] = now /\ s \in Seq(Nat) /\ n \in Nat /\ Spread(s)
          /\ \A l \in 1..n : s[l] \in Nat
      <4>1. BurstLimit + 1 <= n /\ server.start <= s[n + 1 - (BurstLimit + 1)] /\ s[n] = now
        BY <1>2, <3>2, <3>3 DEF JobPaced, Covers
      <4>2. s \in Seq(Nat) /\ n \in Nat /\ Spread(s)
        BY <1>1, <1>2
      <4>3. \A l \in 1..n : s[l] \in Nat
        BY <4>2
      <4> QED
        BY <4>1, <4>2, <4>3
    <3> HIDE DEF s
    <3>5. i \in 1..n /\ i + BurstLimit = n /\ n + 1 - (BurstLimit + 1) = i
      <4> HIDE DEF n
      <4>1. n \in Nat /\ BurstLimit \in Nat /\ 1 <= BurstLimit /\ BurstLimit + 1 <= n
        BY <1>1, <3>4
      <4> QED
        BY <4>1
    <3>6. s[i] + Window <= s[i + BurstLimit] /\ s[i] \in Nat
      <4> HIDE DEF i
      <4>1. s[i] + Window <= s[i + BurstLimit]
        BY <3>4, <3>5 DEF Spread
      <4>2. s[i] \in Nat
        BY <3>4, <3>5
      <4> QED
        BY <4>1, <4>2
    <3> HIDE DEF i, n
    <3>7. server.start <= s[i] /\ s[i] + Window <= now /\ s[i] \in Nat
      BY <3>4, <3>5, <3>6
    <3> QED
      BY <1>1, <3>3, <3>7
  <2> QED
    BY <2>1, <2>2
<1> QED
  BY <1>3, <1>4, HintIs

\* The answer, or the loss, of the one call.
LEMMA LandingPaced ==
  ASSUME IInv, Paced, CountsAgree, Alone, IsFiniteSet(Callers), NEW c \in Callers,
         Admitted(c) \/ Dropped(c)
  PROVE  Paced'
<1>1. /\ work[c].pc = "flight" /\ work[c] \in Jobs /\ UNCHANGED <<now, pacer, did>>
      /\ work' = [work EXCEPT ![c] = Idle]
  BY PartsOf DEF Admitted, Dropped, Goto
<1>2. /\ now \in Nat /\ server.start \in Nat /\ server.used \in Nat
      /\ pacer.calls \in Seq(Nat) /\ Len(pacer.calls) \in Nat /\ Window \in Nat \ {0}
  BY NumbersAre, LimitAssumption
<1>3. PICK k \in Jobs : k.pc = "idle" /\ work' = [work EXCEPT ![c] = k]
  BY <1>1, IdleType DEF Idle
<1> SUFFICES ASSUME Unforced
             PROVE  /\ did.refused = 0 /\ pacer.count <= DailyLimit
                    /\ Spread(pacer.calls) /\ Covers(pacer.calls, Charged(k))'
  BY <1>1, <1>3, PacedBecomes DEF JobPaced, Unforced
<1>4. /\ did.refused = 0 /\ pacer.count <= DailyLimit /\ Spread(pacer.calls)
      /\ JobPaced(work[c])
  BY DEF Paced
<1> DEFINE s == pacer.calls
<1>5. /\ 1 <= Len(s) /\ s[Len(s)] = now
      /\ server.used > 0 /\ now - server.start < Window =>
           server.used + 1 <= Len(s) /\ server.start <= s[Len(s) + 1 - (server.used + 1)]
  BY <1>1, <1>4, ChargedIs DEF JobPaced, Covers
<1>6. Charged(k)' = server'.used /\ UNCHANGED s
  <2>1. server'.used \in Nat
    BY <1>1, ChargeIs, NumbersAre, LimitAssumption DEF Admitted, Dropped, Servers
  <2> QED
    BY <1>1, <1>3, <2>1 DEF Charged
<1>7. ASSUME server'.used > 0, now - server'.start < Window
      PROVE  server'.used <= Len(s) /\ server'.start <= s[Len(s) + 1 - server'.used]
  <2> HIDE DEF s
  <2>1. /\ \A i, l \in 1..Len(s) : i <= l => s[i] <= s[l]
        /\ \A i \in 1..Len(s) : s[i] \in Nat
        /\ Len(s) \in Nat
    BY <1>2, PartsOf, SMTT(60) DEF s, InOrder
  <2>2. CASE Dropped(c)
    <3>1. server' = server
      BY <2>2 DEF Dropped
    <3>2. server.used + 1 <= Len(s) /\ server.start <= s[Len(s) + 1 - (server.used + 1)]
      BY <1>5, <1>7, <3>1
    <3> DEFINE i == Len(s) + 1 - (server.used + 1)
               l == Len(s) + 1 - server.used
    <3>3. i \in 1..Len(s) /\ l \in 1..Len(s) /\ i <= l /\ server.used <= Len(s)
      <4>1. Len(s) \in Nat /\ server.used \in Nat /\ 1 <= server.used /\ server.used + 1 <= Len(s)
        BY <1>2, <1>7, <2>1, <3>1, <3>2
      <4> QED
        BY <4>1, SMTT(60)
    <3>4. s[i] <= s[l] /\ s[i] \in Nat /\ s[l] \in Nat /\ server.start <= s[i]
      BY <2>1, <3>2, <3>3
    <3> HIDE DEF i, l
    <3>5. server.start <= s[l]
      BY <1>2, <3>4
    <3> QED
      BY <3>1, <3>3, <3>5 DEF l
  <2>3. CASE Admitted(c)
    <3>1. server'.start = ServerWindow.start /\ server'.used = ServerWindow.used + 1
      BY <2>3, ChargeIs DEF Admitted
    <3>2. CASE server.used = 0 \/ now - server.start >= Window
      <4>1. server'.start = now /\ server'.used = 1
        BY <3>1, <3>2, ServerIs
      <4>2. Len(s) + 1 - server'.used = Len(s)
        BY <2>1, <4>1
      <4> QED
        BY <1>2, <1>5, <4>1, <4>2
    <3>3. CASE ~(server.used = 0 \/ now - server.start >= Window)
      <4>1. server'.start = server.start /\ server'.used = server.used + 1
        BY <3>1, <3>3, ServerIs
      <4> QED
        BY <1>2, <1>5, <3>3, <4>1
    <3> QED
      BY <3>2, <3>3
  <2> QED
    BY <2>2, <2>3
<1> QED
  BY <1>1, <1>4, <1>6, <1>7 DEF Covers

\* The sleeper goes without another look: the sleep was long enough for the
\* limit it slept for, and a sleep to midnight that was not long enough for
\* the window is counted as unchecked.
LEMMA WakePaced ==
  ASSUME IInv, Paced, Alone, NEW c \in Callers, Wake(c)
  PROVE  Paced'
<1>1. /\ work[c].pc = "sleep" /\ work[c].until <= now /\ Launch(c, pacer, work[c])
      /\ work[c] \in Jobs /\ UNCHANGED <<now, server>>
  BY PartsOf DEF Wake, Due
<1>2. /\ now \in Nat /\ server.used \in Nat /\ pacer.count \in Nat /\ pacer.day \in Nat
      /\ Today(now) \in Nat
      /\ pacer.calls \in Seq(Nat) /\ Len(pacer.calls) \in Nat
      /\ Window \in Nat /\ BurstLimit \in Nat \ {0} /\ DailyLimit \in Nat \ {0}
  BY NumbersAre, LimitAssumption
<1>3. work[c].until \in Nat
  BY <1>1 DEF Jobs
<1>4. /\ did'.others = did.others /\ did'.restarts = did.restarts /\ did'.refused = did.refused
      /\ did.unchecked \in Nat
      /\ did'.unchecked = did.unchecked +
           IF work[c].slept = "day" /\ Len(Recent(pacer.calls)) >= BurstLimit THEN 1 ELSE 0
  BY PartsOf, WakeIs DEF Counts
<1>5. Unforced' => /\ Unforced
                   /\ ~(work[c].slept = "day" /\ Len(Recent(pacer.calls)) >= BurstLimit)
  BY <1>4 DEF Unforced
<1> DEFINE n == Len(pacer.calls)
           i == n + 1 - BurstLimit
<1> SUFFICES ASSUME Unforced'
             PROVE  /\ did'.refused = 0
                    /\ Spread(pacer.calls) /\ Covers(pacer.calls, server.used)
                    /\ BurstLimit <= n => pacer.calls[i] + Window <= now
                    /\ (IF pacer.day = Today(now) THEN pacer.count ELSE 0) < DailyLimit
  BY <1>1, PartsOf, LaunchPaced
<1>6. /\ did.refused = 0 /\ Spread(pacer.calls) /\ JobPaced(work[c])
      /\ Charged(work[c]) = server.used
  BY <1>1, <1>5, ChargedIs DEF Paced
<1>7. Covers(pacer.calls, server.used)
  BY <1>6 DEF JobPaced
<1>8. CASE work[c].slept = "burst"
  <2>1. /\ BurstLimit <= n /\ pacer.count < DailyLimit
        /\ pacer.calls[i] + Window <= work[c].until
    BY <1>1, <1>6, <1>8 DEF JobPaced
  <2>2. i \in 1..n
    BY <1>2, <2>1
  <2>3. pacer.calls[i] \in Nat
    BY <1>2, <2>2, SMTT(60)
  <2>4. pacer.calls[i] + Window <= now
    <3> DEFINE t == pacer.calls[i]
    <3>1. t \in Nat /\ t + Window <= work[c].until
      BY <2>1, <2>3
    <3> HIDE DEF t
    <3>2. t + Window <= now
      BY <1>1, <1>2, <1>3, <3>1
    <3> QED
      BY <3>2 DEF t
  <2> QED
    BY <1>2, <1>4, <1>6, <1>7, <2>1, <2>4
<1>9. CASE work[c].slept = "day"
  <2>1. pacer.day < Today(work[c].until)
    BY <1>1, <1>6, <1>9 DEF JobPaced
  <2>2. Today(work[c].until) <= Today(now) /\ Today(work[c].until) \in Nat
    BY <1>1, <1>2, <1>3, TodayGrows, TodayType
  <2>3. pacer.day # Today(now)
    BY <1>2, <2>1, <2>2
  <2>4. ASSUME BurstLimit <= n PROVE pacer.calls[i] + Window <= now
    <3>1. /\ Gone(pacer.calls) \in 0..n /\ Len(Recent(pacer.calls)) = n - Gone(pacer.calls)
          /\ \A k \in 1..Gone(pacer.calls) : pacer.calls[k] + Window <= now
      BY PartsOf, RecentIs
    <3> HIDE DEF n
    <3>2. Gone(pacer.calls) \in Nat /\ n - Gone(pacer.calls) < BurstLimit /\ n \in Nat
      BY <1>2, <1>5, <1>9, <3>1 DEF n
    <3>3. i \in 1..Gone(pacer.calls)
      BY <1>2, <2>4, <3>2
    <3> QED
      BY <3>1, <3>3
  <2> QED
    BY <1>2, <1>4, <1>6, <1>7, <2>3, <2>4
<1> QED
  BY <1>1, <1>6, <1>8, <1>9 DEF JobPaced

LEMMA PacedInitially == Init => Paced
<1> SUFFICES ASSUME Init PROVE Paced
  OBVIOUS
<1>1. Len(pacer.calls) = 0 /\ pacer.count = 0 /\ server.used = 0 /\ did.refused = 0
  BY DEF Init
<1>2. Spread(pacer.calls)
  BY <1>1 DEF Spread
<1>3. \A c \in Callers : work[c].pc = "idle"
  BY DEF Init, Idle
<1> QED
  BY <1>1, <1>2, <1>3, LimitAssumption DEF Paced, JobPaced, Covers

LEMMA PacedStep ==
  ASSUME IInv, Paced, CountsAgree, Alone, AtOnce, IsFiniteSet(Callers), [Next]_vars
  PROVE  Paced'
<1>1. ASSUME NEW c \in Callers, Begin(c) PROVE Paced'
  <2>1. /\ work[c].pc # "flight" /\ Look(c, Idle) /\ UNCHANGED <<now, server>>
        /\ did' = [did EXCEPT !.begun = @ + 1]
    BY <1>1 DEF Begin
  <2>2. Unforced' => Unforced /\ did'.refused = did.refused
    BY <2>1, PartsOf DEF Counts, Unforced
  <2> QED
    BY <2>1, <2>2, IdleType, LookPaced
<1>2. ASSUME NEW c \in Callers, Retry(c) PROVE Paced'
  <2>1. /\ work[c].pc # "flight" /\ Look(c, work[c]) /\ UNCHANGED <<now, server, did>>
        /\ work[c] \in Jobs
    BY <1>2, PartsOf DEF Retry
  <2>2. Unforced' => Unforced /\ did'.refused = did.refused
    BY <2>1 DEF Unforced
  <2> QED
    BY <2>1, <2>2, LookPaced
<1>3. ASSUME NEW c \in Callers, Refused(c) \/ Exhausted(c) PROVE Paced'
  <2>1. work[c].pc = "flight" /\ Hint > 0
    BY <1>3 DEF Refused, Exhausted
  <2>2. did'.others = did.others /\ did'.restarts = did.restarts /\ did'.unchecked = did.unchecked
    BY <1>3, PartsOf DEF Refused, Exhausted, Counts
  <2>3. ~Unforced
    BY <2>1, HintIs, PacedIsAdmitted
  <2> QED
    BY <2>2, <2>3 DEF Unforced, Paced
<1>4. CASE OtherClient
  BY <1>4, PartsOf DEF OtherClient, Counts, Unforced, Paced
<1>5. CASE Restart
  BY <1>5, PartsOf DEF Restart, Counts, Unforced, Paced
<1>6. CASE Tick
  <2>1. now' = now + 1 /\ UNCHANGED <<pacer, server, work, did>>
    BY <1>6 DEF Tick
  <2>2. /\ now \in Nat /\ server.start \in Nat /\ Window \in Nat
    BY NumbersAre, LimitAssumption
  <2> SUFFICES ASSUME Unforced, NEW c \in Callers
               PROVE  JobPaced(work[c])'
    BY <2>1 DEF Paced, Unforced, Spread
  <2>3. work[c].pc # "flight"
    <3> SUFFICES ASSUME work[c].pc = "flight" PROVE FALSE
      OBVIOUS
    <3>1. work[c].until = now
      BY DEF CountsAgree, Unforced, Flying
    <3> QED
      BY <1>6, <2>2, <3>1 DEF Tick, Due
  <2>4. JobPaced(work[c])
    BY DEF Paced
  <2>5. Covers(pacer.calls, Charged(work[c])) => Covers(pacer.calls, Charged(work[c]))'
    BY <2>1, <2>2 DEF Covers, Charged
  <2> QED
    BY <2>1, <2>3, <2>4, <2>5 DEF JobPaced, Today
<1>7. CASE UNCHANGED vars
  BY <1>7 DEF vars, Paced, Unforced, Spread, JobPaced, Covers, Charged, Today
<1> QED
  BY <1>1, <1>2, <1>3, <1>4, <1>5, <1>6, <1>7, WakePaced, LandingPaced DEF Next, Proceed, Rest

\* One caller whose calls reach the platform within the tick: a 429 comes only
\* from another client, a restart, or a window not looked at after midnight.
THEOREM RefusedForAReason == Alone /\ AtOnce /\ Spec => []RefusalsHaveAReason
<1> SUFFICES ASSUME Alone, AtOnce PROVE Spec => []RefusalsHaveAReason
  OBVIOUS
<1>1. IsFiniteSet(Callers)
  <2>1. CASE Callers = {}
    BY <2>1, FS_EmptySet
  <2>2. CASE Callers # {}
    <3>1. PICK c \in Callers : TRUE
      BY <2>2
    <3>2. Callers = {c}
      BY DEF Alone
    <3> QED
      BY <3>2, FS_Singleton
  <2> QED
    BY <2>1, <2>2
<1>2. Init => CountsAgree /\ Paced
  BY <1>1, CountsAgreeInitially, PacedInitially
<1>3. IInv /\ CountsAgree /\ Paced /\ [Next]_vars => CountsAgree' /\ Paced'
  BY <1>1, CountsAgreeStep, PacedStep
<1>4. IInv /\ Paced => RefusalsHaveAReason
  BY PartsOf DEF Paced, Unforced, RefusalsHaveAReason, Counts
<1> QED
  BY <1>2, <1>3, <1>4, Invariant, PTL DEF Spec

=============================================================================
