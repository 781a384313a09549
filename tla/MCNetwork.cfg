SPECIFICATION Spec
CONSTANTS
  LF = LF
  CR = CR
  c = c
  Chars <- MCChars
  MaxLine = 3
  RecvSize = 5
  PeerMaxLine = 4
  MaxBytes = 7
INVARIANTS
  TypeOK
  NeverWedged
  NothingParked
PROPERTIES
  ImplementsLineStream
  LossNoticed
