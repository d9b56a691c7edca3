SPECIFICATION Spec
CONSTANTS
  ann = ann
  ask = ask
  stop = stop
  news = news
  junk = junk
  lost = lost
  None = None
  Contacts = {ann}
  Events = {ask}
  Workers = {w1}
  Durability = {TRUE}
  MaxAttempts <- ThriceEach
  Limit <- None_
  Bodies <- TwoBodies
  Covered <- MCCovered
  KindOf <- MCKindOf
  ContactOf <- MCContactOf
  IntentOf <- MCIntentOf
INVARIANT AutoRepliesLeaveInHours
