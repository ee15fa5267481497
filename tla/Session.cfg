SPECIFICATION FairSpec
CONSTANTS
  MaxClicks = 4
  SEATS = 1
  FLIGHT_NUM = 2
INVARIANTS TypeOK OwnAnswer SuccessIsSale AnswersInOrder
PROPERTY HandlersReturn
