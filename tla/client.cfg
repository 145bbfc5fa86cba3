CONSTANTS
  MaxLines = 2
  MaxNotifications = 2
  MaxLength = 2

SPECIFICATION MCSpec

INVARIANTS
  TypeOK
  CommandsInOrder
  AnswersKept
  CommandsRoundTrip
  FieldsRoundTrip

PROPERTIES
  ExitEnds
  SessionCloses

CHECK_DEADLOCK FALSE
