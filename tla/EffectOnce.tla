----------------------------- MODULE EffectOnce -----------------------------
(***************************************************************************)
(* What the intake promises its sender (ghl_bridge.webhook, WebhookIntake):*)
(* "a completed effect never runs twice", said so that code without        *)
(* transactions can keep it: an effect runs again only while there have    *)
(* been at least as many faults as runs of it.                             *)
(***************************************************************************)
EXTENDS Naturals

CONSTANT Events

VARIABLES
  done,      \* events whose retries are answered Duplicate
  effects,   \* [Events -> Nat]: how often each event's effect has run
  faults     \* restarts, lost replies, failed stores so far

vars == <<done, effects, faults>>

Init ==
  /\ done = {}
  /\ effects = [e \in Events |-> 0]
  /\ faults = 0

\* An effect that has run more often than there were faults may not run again.
MayRun(e) == e \notin done /\ effects[e] <= faults

Run(e) == effects' = [effects EXCEPT ![e] = @ + 1]

\* The effect runs and the handler knows that it did.
Perform(e) == MayRun(e) /\ Run(e) /\ UNCHANGED <<done, faults>>

\* The effect runs and its reply is lost.
PerformUnseen(e) == MayRun(e) /\ Run(e) /\ faults' = faults + 1 /\ UNCHANGED done

\* The handler has completed.
Finish(e) == done' = done \cup {e} /\ UNCHANGED <<effects, faults>>

\* The handler has completed, and the store kept that though it raised.
FinishUnseen(e) == done' = done \cup {e} /\ faults' = faults + 1 /\ UNCHANGED effects

\* A restart may forget what was done, if the store was volatile.
Fault == faults' = faults + 1 /\ done' \in {done, {}} /\ UNCHANGED effects

Next ==
  \/ \E e \in Events :
       Perform(e) \/ PerformUnseen(e) \/ Finish(e) \/ FinishUnseen(e)
  \/ Fault

Spec == Init /\ [][Next]_vars
=============================================================================
