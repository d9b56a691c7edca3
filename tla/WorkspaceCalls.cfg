SPECIFICATION Spec
CONSTANTS
  river = river
  hill = hill
  app = app
  None = None
  Locations = {river, hill}
  Clients = {app}
  TokenOf <- MCTokenOf
  Persons = {ann}
  Pipelines = {sales}
  Stages = {new, won}
  Calendars = {cal}
  Slots <- MCSlots
  Equipped = {river}
  Ladder = {new}
  Offer <- MCOffer
  Quota = 1
  MaxWrites = 4
INVARIANT TypeOK
INVARIANT RecordsNameTheirOwn
INVARIANT NoDoubleBooking
PROPERTY TokensStayInTheirLocation
PROPERTY NothingFiledOffTheLadder
PROPERTY OptOutHolds
