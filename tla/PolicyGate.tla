----------------------------- MODULE PolicyGate -----------------------------
(***************************************************************************)
(* The deterministic half of the reply path: the eight policies, the       *)
(* outcome they add up to, and the two ways an approval is minted          *)
(* (ghl_bridge.policy), with the content an approval covers                *)
(* (ghl_bridge.guard.content_fingerprint).                                 *)
(*                                                                         *)
(* A text is the set of the facts the policies can tell about it.  An      *)
(* inbound text is its intent; a draft body is the set of its marks:       *)
(*   "blank"       nothing but white space (or nothing at all)             *)
(*   "payment"     asks for payment details                                *)
(*   "commitment"  names money or makes a promise                          *)
(*   "long"        longer than max_draft_chars                             *)
(***************************************************************************)
EXTENDS Naturals

CONSTANTS Contacts,   \* contact ids of the one location
          Bodies,     \* draft bodies the generator may return
          Covered     \* covered_intents

Marks   == {"blank", "payment", "commitment", "long"}
Intents == {"opt_out", "scheduling", "pricing", "hours", "general"}

ASSUME BodiesAssumption  == Bodies \subseteq SUBSET Marks
ASSUME CoveredAssumption == Covered \subseteq Intents

\* An OutboundSend; the channel is always the default one.
Drafts == [contact : Contacts, body : Bodies]

\* What one evaluation looks at: the contact snapshot, the inbound intent,
\* the draft, and whether the clock is inside the answering window.
Readings == [optedOut : BOOLEAN, intent : Intents, draft : Drafts, open : BOOLEAN]

-----------------------------------------------------------------------------
FailedBlocks(r) ==
  {p \in {"contact_not_opted_out", "not_a_reply_to_opt_out",
          "draft_not_empty", "no_payment_details_request"} :
     \/ p = "contact_not_opted_out"      /\ r.optedOut
     \/ p = "not_a_reply_to_opt_out"     /\ r.intent = "opt_out"
     \/ p = "draft_not_empty"            /\ "blank" \in r.draft.body
     \/ p = "no_payment_details_request" /\ "payment" \in r.draft.body}

FailedDrafts(r) ==
  {p \in {"within_business_hours", "intent_covered",
          "no_price_commitment", "draft_length"} :
     \/ p = "within_business_hours" /\ ~r.open
     \/ p = "intent_covered"        /\ r.intent \notin Covered
     \/ p = "no_price_commitment"   /\ "commitment" \in r.draft.body
     \/ p = "draft_length"          /\ "long" \in r.draft.body}

Outcomes == {"auto_send", "draft_for_human", "blocked"}

\* Mutant: the draft policies are looked at first.
DraftsFirst(r) ==
  CASE FailedDrafts(r) # {}                          -> "draft_for_human"
    [] FailedDrafts(r) = {} /\ FailedBlocks(r) # {}  -> "blocked"
    [] OTHER                                         -> "auto_send"

\* A failed block policy wins over any failed draft policy.
OutcomeOf(r) ==
  CASE FailedBlocks(r) # {}                          -> "blocked"
    [] FailedBlocks(r) = {} /\ FailedDrafts(r) # {}  -> "draft_for_human"
    [] OTHER                                         -> "auto_send"

\* The GateDecision for a reading.  The reading itself stands for the list
\* of policy results the decision carries.
Decision(id, r) == [id |-> id, outcome |-> OutcomeOf(r), reading |-> r]

Decisions == [id : Nat, outcome : Outcomes, reading : Readings]
-----------------------------------------------------------------------------
Modes == {"auto", "human"}

\* The hash is taken as collision free: each field is length-prefixed.
content_fingerprint(draft) == <<draft.contact, draft.body>>

Approval(d, mode) ==
  [decision |-> d.id, mode |-> mode, content |-> content_fingerprint(d.reading.draft)]

Approvals == [decision : Nat, mode : Modes, content : Contacts \X Bodies]

\* Which decisions each way of minting accepts.
CanApproveHuman(d) == d.outcome # "blocked"
CanApproveAuto(d)  == d.outcome = "auto_send"
=============================================================================
