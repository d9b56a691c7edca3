------------------------------ MODULE MCLeads ------------------------------
(* Small instances of LeadLane for TLC.                                    *)
EXTENDS LeadLane, TLC

CONSTANTS anna, bert, m1, m2, p1, p2, both, swap, moved, vague

\* Two emails and two phones in the combinations that make keys cross: a
\* lead with both keys, one that joins the other email to the same phone,
\* one whose phone changed, and one nothing can be made of.
MCLeadOf == [e \in Events |->
  CASE e = anna  -> [email |-> m1, phone |-> None]
    [] e = bert  -> [email |-> None, phone |-> p1]
    [] e = both  -> [email |-> m1, phone |-> p1]
    [] e = swap  -> [email |-> m2, phone |-> p1]
    [] e = moved -> [email |-> m1, phone |-> p2]
    [] OTHER     -> [email |-> None, phone |-> Bad]]

\* Somebody else joins the first phone to the second email.
MCOtherLeads == {[email |-> m2, phone |-> p1]}

NoneOf     == [k \in EnvKinds |-> 0]
OneOf(ks)  == [k \in EnvKinds |-> IF k \in ks THEN 1 ELSE 0]

\* In one thread a call that fails without effect leaves what the lost reply
\* of the call before it leaves, so the first run does without it.
LeadFaults == OneOf({"lost_reply", "store_fails", "crash"})
Company    == OneOf({"other_write", "call_fails", "lost_reply"})
ReplyLost  == OneOf({"lost_reply"})

WorkerSymmetry == Permutations(Workers)
=============================================================================
