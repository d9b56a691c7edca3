------------------------------- MODULE Pacing -------------------------------
(***************************************************************************)
(* Rate discipline for one location: LocationPacer and PacedCaller         *)
(* (ghl_bridge.ratelimit) against the limits the platform enforces         *)
(* (FakeHighLevel._charge), with another client of the same token, network *)
(* latency, and restarts that forget what the pacer knew.                  *)
(*                                                                         *)
(* Time is a natural number of ticks; a day is DayLength of them.  A call  *)
(* that is due runs before the clock moves on.                             *)
(***************************************************************************)
EXTENDS Naturals, Sequences, FiniteSets

CONSTANTS
  Callers,       \* threads that call through the one PacedCaller
  BurstLimit,    \* calls per window
  Window,        \* length of the burst window
  DailyLimit,    \* calls per day
  DayLength,
  MaxRetries,    \* PacedCaller._max_retries
  Latencies,     \* ticks between record_call and the platform's charge
  MaxCalls,      \* bound: calls begun
  MaxOthers,     \* bound: calls of the other client
  MaxRestarts,   \* bound: restarts of the process
  Horizon        \* bound: the clock passes it only while a call is under way

\* The constructors refuse anything less.
ASSUME LimitAssumption ==
  /\ BurstLimit \in Nat \ {0} /\ DailyLimit \in Nat \ {0}
  /\ Window \in Nat \ {0} /\ DayLength \in Nat \ {0}
  /\ MaxRetries \in Nat /\ Latencies \subseteq Nat /\ Latencies # {}
ASSUME PacingBoundAssumption ==
  MaxCalls \in Nat /\ MaxOthers \in Nat /\ MaxRestarts \in Nat /\ Horizon \in Nat

VARIABLES
  now,      \* the clock both sides read
  pacer,    \* LocationPacer: times of recent calls, the day and its count
  server,   \* the platform's rate record: window start and count, day and count
  work,     \* each caller's place in PacedCaller.call
  did       \* counts the bounds are on, and what is observed

vars == <<now, pacer, server, work, did>>

Today(t)    == t \div DayLength
Midnight(t) == (Today(t) + 1) * DayLength

\* pc: "sleep" before a call, "flight" on its way to the platform,
\*     "backoff" after a 429.  slept says what the last wait was for.
Idle == [pc |-> "idle", until |-> 0, retries |-> 0, slept |-> "none"]

Init ==
  /\ now = 0
  /\ pacer = [calls |-> <<>>, day |-> 0, count |-> 0]
  /\ server = [start |-> 0, used |-> 0, day |-> 0, count |-> 0]
  /\ work = [c \in Callers |-> Idle]
  /\ did = [begun |-> 0, others |-> 0, restarts |-> 0,
            unchecked |-> 0, refused |-> 0, exhausted |-> 0]
-----------------------------------------------------------------------------
(* LocationPacer.                                                          *)

\* _roll_day
RollDay(p) == IF p.day = Today(now) THEN p ELSE [p EXCEPT !.day = Today(now), !.count = 0]

\* The popleft loop: calls are in time order, so the expired ones come first.
Expired(calls) == {i \in 1..Len(calls) : now - calls[i] >= Window}
Recent(calls)  == SubSeq(calls, Cardinality(Expired(calls)) + 1, Len(calls))

\* wait_before_call: the pacer it leaves behind, and the wait it answers.
\* The daily branch answers before the burst window is looked at.
Rolled     == RollDay(pacer)
DayIsSpent == Rolled.count >= DailyLimit
Looked     == IF DayIsSpent THEN Rolled ELSE [Rolled EXCEPT !.calls = Recent(@)]

\* Mutant: the window is taken to reopen one tick early.
WaitOneShort ==
  IF DayIsSpent THEN Midnight(now) - now
  ELSE IF Len(Looked.calls) < BurstLimit THEN 0
  ELSE Window - (now - Looked.calls[1]) - 1

WaitBeforeCall ==
  IF DayIsSpent THEN Midnight(now) - now
  ELSE IF Len(Looked.calls) < BurstLimit THEN 0
  ELSE Window - (now - Looked.calls[1])

\* Mutant: the day's count is never taken.
RecordNoCount(p) == [RollDay(p) EXCEPT !.calls = Append(@, now)]

\* record_call
RecordCall(p) == [RollDay(p) EXCEPT !.calls = Append(@, now), !.count = @ + 1]
-----------------------------------------------------------------------------
(* The platform's side: _charge.                                           *)

ServerToday ==
  IF server.day = Today(now) THEN server ELSE [server EXCEPT !.day = Today(now), !.count = 0]

\* used = 0 before the first call, when window_start is still None.
ServerWindow ==
  IF server.used = 0 \/ now - server.start >= Window
  THEN [ServerToday EXCEPT !.start = now, !.used = 0]
  ELSE ServerToday

\* The 429's own hint, or 0 when the call is admitted.
DaySpentAtServer == ServerToday.count >= DailyLimit
Hint ==
  IF DaySpentAtServer THEN Midnight(now) - now
  ELSE IF ServerWindow.used >= BurstLimit THEN ServerWindow.start + Window - now
  ELSE 0

\* Whether admitted or refused, the platform's record moves on.
Charge ==
  server' = IF DaySpentAtServer THEN ServerToday
            ELSE IF Hint > 0 THEN ServerWindow
            ELSE [ServerWindow EXCEPT !.used = @ + 1, !.count = @ + 1]
-----------------------------------------------------------------------------
(* PacedCaller.call.                                                       *)
Goto(c, j) == work' = [work EXCEPT ![c] = j]
Due(c)     == work[c].pc \in {"sleep", "flight", "backoff"} /\ work[c].until <= now

\* record_call, then fn(): the call is on the wire.
Launch(c, p, j) ==
  /\ pacer' = RecordCall(p)
  /\ \E l \in Latencies : Goto(c, [j EXCEPT !.pc = "flight", !.until = now + l])

\* The head of the loop: look once, then either go or sleep.
Look(c, j) ==
  \/ /\ WaitBeforeCall = 0
     /\ Launch(c, Looked, [j EXCEPT !.slept = "none"])
  \/ /\ WaitBeforeCall > 0
     /\ pacer' = Looked
     /\ Goto(c, [j EXCEPT !.pc = "sleep", !.until = now + WaitBeforeCall,
                          !.slept = IF DayIsSpent THEN "day" ELSE "burst"])

Begin(c) ==
  /\ work[c].pc = "idle" /\ did.begun < MaxCalls
  /\ Look(c, Idle)
  /\ did' = [did EXCEPT !.begun = @ + 1]
  /\ UNCHANGED <<now, server>>

\* The sleeper returns; nothing is looked at again before the call.
Wake(c) ==
  /\ work[c].pc = "sleep" /\ Due(c)
  /\ Launch(c, pacer, work[c])
  /\ did' = [did EXCEPT !.unchecked =
       @ + IF work[c].slept = "day" /\ Len(Recent(pacer.calls)) >= BurstLimit THEN 1 ELSE 0]
  /\ UNCHANGED <<now, server>>

\* The platform answers, with a result or an error other than 429: either
\* leaves the loop.
Admitted(c) ==
  /\ work[c].pc = "flight" /\ Due(c) /\ Hint = 0
  /\ Charge
  /\ Goto(c, Idle)
  /\ UNCHANGED <<now, pacer, did>>

\* The connection fails on the way: the pacer has counted a call the
\* platform never saw.
Dropped(c) ==
  /\ work[c].pc = "flight" /\ Due(c)
  /\ Goto(c, Idle)
  /\ UNCHANGED <<now, pacer, server, did>>

\* Mutant: the budget is compared before the retry is counted.
RefusedOnceMore(c) ==
  /\ work[c].pc = "flight" /\ Due(c) /\ Hint > 0 /\ work[c].retries <= MaxRetries
  /\ Charge
  /\ Goto(c, [work[c] EXCEPT !.pc = "backoff", !.until = now + Hint, !.retries = @ + 1])
  /\ did' = [did EXCEPT !.refused = @ + 1]
  /\ UNCHANGED <<now, pacer>>

\* A 429 within the budget: sleep for exactly what the platform said.
Refused(c) ==
  /\ work[c].pc = "flight" /\ Due(c) /\ Hint > 0
  /\ work[c].retries + 1 <= MaxRetries
  /\ Charge
  /\ Goto(c, [work[c] EXCEPT !.pc = "backoff", !.until = now + Hint, !.retries = @ + 1])
  /\ did' = [did EXCEPT !.refused = @ + 1]
  /\ UNCHANGED <<now, pacer>>

\* Mutant: the last retry of the budget is not granted.
ExhaustedEarly(c) ==
  /\ work[c].pc = "flight" /\ Due(c) /\ Hint > 0
  /\ work[c].retries + 1 >= MaxRetries
  /\ Charge
  /\ Goto(c, Idle)
  /\ did' = [did EXCEPT !.refused = @ + 1, !.exhausted = @ + 1]
  /\ UNCHANGED <<now, pacer>>

\* RetryBudgetExhausted is raised to the caller.
Exhausted(c) ==
  /\ work[c].pc = "flight" /\ Due(c) /\ Hint > 0
  /\ work[c].retries + 1 > MaxRetries
  /\ Charge
  /\ Goto(c, Idle)
  /\ did' = [did EXCEPT !.refused = @ + 1, !.exhausted = @ + 1]
  /\ UNCHANGED <<now, pacer>>

\* Mutant: nothing comes back from the back-off.
NeverRetry(c) == FALSE

\* Back to the head of the loop.
Retry(c) ==
  /\ work[c].pc = "backoff" /\ Due(c)
  /\ Look(c, work[c])
  /\ UNCHANGED <<now, server, did>>
-----------------------------------------------------------------------------
(* The surroundings.                                                       *)

\* Another process on the same token makes a call of its own.
OtherClient ==
  /\ did.others < MaxOthers
  /\ Charge
  /\ did' = [did EXCEPT !.others = @ + 1]
  /\ UNCHANGED <<now, pacer, work>>

\* The process restarts: the pacer starts empty, calls under way are gone.
Restart ==
  /\ did.restarts < MaxRestarts
  /\ pacer' = [calls |-> <<>>, day |-> Today(now), count |-> 0]
  /\ work' = [c \in Callers |-> Idle]
  /\ did' = [did EXCEPT !.restarts = @ + 1]
  /\ UNCHANGED <<now, server>>

Busy == \E c \in Callers : work[c].pc # "idle"

Tick ==
  /\ \A c \in Callers : ~Due(c)
  /\ Busy \/ now < Horizon
  /\ now' = now + 1
  /\ UNCHANGED <<pacer, server, work, did>>

\* All the calls of the instance are made and the bounded clock has run out.
Rest == did.begun = MaxCalls /\ ~Busy /\ now >= Horizon /\ UNCHANGED vars

Proceed(c) == Wake(c) \/ Admitted(c) \/ Dropped(c) \/ Refused(c) \/ Exhausted(c) \/ Retry(c)

Next ==
  \/ \E c \in Callers : Begin(c) \/ Proceed(c)
  \/ OtherClient \/ Restart \/ Tick \/ Rest

Spec == Init /\ [][Next]_vars

\* Sleeps end because time passes, and the platform answers every call.
FairSpec == Spec /\ WF_vars(Tick) /\ \A c \in Callers : WF_vars(Proceed(c))
-----------------------------------------------------------------------------
\* Every variable holds the kind of value the code keeps there.
TypeOK ==
  /\ now \in Nat
  /\ pacer \in [calls : Seq(Nat), day : Nat, count : Nat]
  /\ server \in [start : Nat, used : 0..BurstLimit, day : Nat, count : 0..DailyLimit]
  /\ work \in [Callers -> [pc : {"idle", "sleep", "flight", "backoff"}, until : Nat,
                           retries : 0..MaxRetries, slept : {"none", "burst", "day"}]]
  /\ did \in [{"begun", "others", "restarts", "unchecked", "refused", "exhausted"} -> Nat]

\* wait_before_call promises the seconds "so the next call cannot trip the
\* limit": a bridge alone on its token is never answered 429.
PacedNeverRefused == did.others = 0 /\ did.restarts = 0 => did.refused = 0

\* What is true of the code for one caller whose calls reach the platform in
\* the tick they leave: a 429 comes only if another client used the token, a
\* restart emptied the pacer, or a call that had slept to midnight went out
\* without a look at the burst window.
RefusalsHaveAReason ==
  did.refused > 0 => did.others > 0 \/ did.restarts > 0 \/ did.unchecked > 0

\* "The caller above sees a slower call, never an exception": waiting out
\* the platform's hints is enough unless another client takes the room.  Two
\* retries are needed: a hint to midnight can end inside a burst window.
ExhaustedOnlyInCompany == did.exhausted > 0 => did.others > 0 \/ MaxRetries < 2

\* Pacing is conservative: of the calls of one day the pacer never counts
\* fewer than the platform does.
PacerCountsAtLeastTheServer ==
  did.others = 0 /\ did.restarts = 0 /\ pacer.day = server.day => server.count <= pacer.count

\* Every call returns or raises: no wait is without end.
CallsEnd == \A c \in Callers : work[c].pc # "idle" ~> work[c].pc = "idle"
=============================================================================
