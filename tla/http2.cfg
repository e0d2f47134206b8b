\* Two streams of the client and one with an even number, one odd frame.
SPECIFICATION Spec
CONSTANTS
  StreamId = {1, 2, 3}
  Limit = 2
  DefaultWindow = 2
  MaxWindow = 3
  BodyLimit = 2
  MinimumWindow = 1
  MaxIncrement = 2
  Chunk = {1}
  Increment = {1}
  Setting = {1, 4}
  Length = {1, 3}
  MaxBreaches = 1
CHECK_DEADLOCK FALSE
INVARIANTS SlotsAccounted PlainClientIsKept UploadGoesOn
PROPERTIES WithinWindow CutByWindowOnly AnsweredOnce
