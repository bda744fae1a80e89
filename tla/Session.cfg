CONSTANTS
  Msgs <- MCMsgs
  Size <- MCSize
  LenUnits = 2
  ID = id
  Requests = {r1}
  ReqUnits = 2
  UpCap = 2
  DownCap = 2
  MaxPosted = 2
  MaxAsked = 2
  MaxLines = 2
SPECIFICATION Spec
INVARIANTS
  TypeOK
  NoOneWaitsInVain
  JunkOnlyOnce
PROPERTIES
  RequestsArrive
  MessagesArrive
  Delivered
  EndNoticed
  LinesTaken
CHECK_DEADLOCK FALSE
