SPECIFICATION FairSpec
CONSTANTS
  anna = anna
  bert = bert
  both = both
  swap = swap
  moved = moved
  vague = vague
  m1 = m1
  m2 = m2
  p1 = p1
  p2 = p2
  None = None
  Bad = Bad
  Emails = {m1, m2}
  Phones = {p1, p2}
  Events = {swap, moved, both}
  LeadOf <- MCLeadOf
  OtherLeads <- MCOtherLeads
  Workers = {w1}
  Durability = {TRUE, FALSE}
  MaxAttempts = 4
  Limit <- LeadFaults
INVARIANT TypeOK
INVARIANT NoTwinContacts
INVARIANT LedgerNamesThePerson
INVARIANT FiledUnderThePerson
INVARIANT ReviewFilesNothing
PROPERTY FiledAtMostOnce
PROPERTY EveryLeadIsSettled
