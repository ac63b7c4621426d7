CONSTANTS
  p1 = p1
  p2 = p2
  p3 = p3
  Pages <- MCPages
  FirstPage = p1
  NoLink = NoLink
  Listings <- MCListings
  MaxAttempts = 3
  Traces <- MCTraces
  Cap = 2

SPECIFICATION Spec
CHECK_DEADLOCK FALSE

INVARIANTS
  ReadyListIsWhole
  ReceiptIsTrue
  UploadIsExact
PROPERTY
  CallsEnd
