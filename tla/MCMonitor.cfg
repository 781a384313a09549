SPECIFICATION Spec
CONSTANTS
  RetryInterval = 1
  ResetAfter = 2
  apple = apple
  msx = msx
  small = small
  large = large
  Emus <- MCEmus
  Sizes <- MCSizes
  NoEmu = NoEmu
  MaxPending = 1
  MaxErrors = 1
INVARIANTS
  TypeOK
  UiAgrees
  ScreenCurrent
  ResizeNotLost
PROPERTIES
  OnlyLongOutagesReset
  StaleDataReset
  KeepsTrying
  StopObeyed
CHECK_DEADLOCK FALSE
