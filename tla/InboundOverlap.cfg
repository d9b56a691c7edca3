SPECIFICATION Spec
CONSTANTS
  ann = ann
  ask = ask
  stop = stop
  news = news
  junk = junk
  lost = lost
  None = None
  Contacts = {ann}
  Events = {ask}
  Workers = {w1, w2}
  Durability = {TRUE}
  MaxAttempts <- ThriceEach
  Limit <- OverlapLimits
  Bodies <- OneBody
  Covered <- MCCovered
  KindOf <- MCKindOf
  ContactOf <- MCContactOf
  IntentOf <- MCIntentOf
INVARIANT EveryMessageWasApproved
INVARIANT OneAutoReplyPerDelivery
INVARIANT LedgerTellsTheStory
PROPERTY GuardStopsOnlyRepeats
INVARIANT RepeatsNeedOverlap
SYMMETRY WorkerSymmetry
