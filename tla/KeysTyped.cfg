SPECIFICATION Spec
CONSTANTS
  US = US
  GB = GB
  BR = BR
  Review = Review
  None = None
  EmailAlphabet <- MCEmailAlphabet
  PhoneAlphabet <- MCPhoneAlphabet
  Plans <- MCPlans
  Facts <- MCFacts
  MaxEmail = 6
  MaxPhone = 7
  E164Min = 3
  E164Max = 5
INVARIANT KeysSurviveASecondReading
INVARIANT KeysAreTheOnlyReading
INVARIANT EventKeyTellsFactsApart
