SPECIFICATION Spec
CONSTANTS
  anna = anna
  bert = bert
  both = both
  swap = swap
  moved = moved
  vague = vague
  m1 = m1
  m2 = m2
  p1 = p1
  p2 = p2
  None = None
  Bad = Bad
  Emails = {m1, m2}
  Phones = {p1, p2}
  Events = {anna, bert}
  LeadOf <- MCLeadOf
  OtherLeads <- MCOtherLeads
  Workers = {w1}
  Durability = {TRUE}
  MaxAttempts = 2
  Limit <- ReplyLost
INVARIANT FiledOnce
