----------------------------- MODULE MCInbound -----------------------------
(* Small instances of InboundLane for TLC.                                 *)
EXTENDS InboundProperties, TLC

CONSTANTS ask, stop, news, junk, lost, ann

\* An ordinary question, a STOP, and events of the other kinds.
MCKindOf == [e \in Events |->
  CASE e \in {ask, stop} -> "inbound"
    [] e = news -> "ignored"
    [] e = junk -> "poison"
    [] OTHER -> "malformed"]
MCContactOf == [e \in Events |-> ann]
MCIntentOf  == [e \in Events |-> IF e = stop THEN "opt_out" ELSE "hours"]

\* A clean answer, one that promises money, one the gate must block.
MCBodies  == {{}, {"commitment"}, {"payment", "commitment"}}
TwoBodies == {{}, {"commitment"}}
OneBody   == {{}}
MCCovered == {"hours", "general"}

\* Deliveries of each event: enough for every disturbance the run allows.
AskTwice  == [e \in Events |-> IF e = ask THEN 2 ELSE 1]
ThriceEach == [e \in Events |-> 3]
SixTimes  == [e \in Events |-> 6]

None_       == [k \in EnvKinds |-> 0]
Disturbed(ks) == [k \in EnvKinds |-> IF k \in ks THEN 1 ELSE 0]
RetryLimits == Disturbed({"release", "opt_change", "call_fails"})
FaultLimits == [Disturbed({"lost_reply", "store_fails", "crash"}) EXCEPT !["release"] = 2]
OverlapLimits == [Disturbed({"forged"}) EXCEPT !["release"] = 3]
CrashLimits == Disturbed({"release", "crash"})

WorkerSymmetry == Permutations(Workers)
=============================================================================
