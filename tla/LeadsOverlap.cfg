SPECIFICATION Spec
CONSTANTS
  anna = anna
  bert = bert
  both = both
  swap = swap
  moved = moved
  vague = vague
  m1 = m1
  m2 = m2
  p1 = p1
  p2 = p2
  None = None
  Bad = Bad
  Emails = {m1, m2}
  Phones = {p1, p2}
  Events = {both, moved, vague}
  LeadOf <- MCLeadOf
  OtherLeads <- MCOtherLeads
  Workers = {w1, w2}
  Durability = {TRUE}
  MaxAttempts = 2
  Limit <- Company
INVARIANT LedgerNamesThePerson
INVARIANT FiledUnderThePerson
SYMMETRY WorkerSymmetry
