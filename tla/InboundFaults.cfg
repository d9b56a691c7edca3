SPECIFICATION FairSpec
CONSTANTS
  ann = ann
  ask = ask
  stop = stop
  news = news
  junk = junk
  lost = lost
  None = None
  Contacts = {ann}
  Events = {ask}
  Workers = {w1}
  Durability = {TRUE, FALSE}
  MaxAttempts <- SixTimes
  Limit <- FaultLimits
  Bodies <- MCBodies
  Covered <- MCCovered
  KindOf <- MCKindOf
  ContactOf <- MCContactOf
  IntentOf <- MCIntentOf
INVARIANT EveryMessageWasApproved
INVARIANT OneAutoReplyPerDelivery
PROPERTY GuardStopsOnlyRepeats
PROPERTY RepliesOnce
PROPERTY FirstDeliveryStands
PROPERTY NoQuestionIsDropped
PROPERTY EveryEventIsSettled
