SPECIFICATION Spec
CONSTANTS
  ann = ann
  ask = ask
  stop = stop
  news = news
  junk = junk
  lost = lost
  None = None
  Contacts = {ann}
  Events = {ask, stop, news, junk, lost}
  Workers = {w1}
  Durability = {TRUE}
  MaxAttempts <- AskTwice
  Limit <- RetryLimits
  Bodies <- TwoBodies
  Covered <- MCCovered
  KindOf <- MCKindOf
  ContactOf <- MCContactOf
  IntentOf <- MCIntentOf
INVARIANT TypeOK
INVARIANT ExtraRepliesArePaidFor
INVARIANT SeenMeansSettled
INVARIANT LedgerTellsTheStory
PROPERTY DraftLeavesBySending
