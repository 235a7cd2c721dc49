\* A client that may run ahead, well-formed and malformed requests, reads that
\* cut the stream anywhere.
SPECIFICATION FairSpec
CONSTANTS
  Requests <- AnyRequest
  None = None
  NotANumber = NotANumber
  Width = 64
  MaxBody = 2
  MaxRequests = 3
INVARIANT AnswersInOrder
INVARIANT HandledAsSent
PROPERTY LoneRequestAnswered
CHECK_DEADLOCK FALSE
