SPECIFICATION FairSpec
CONSTANTS
  Link = {t, r, s}
  TxLink = {t, s}
  RxLink = {r, s}
  NULL = NULL
  TtlExpires = TRUE
INVARIANTS TypeOK LockExcludesTransmission NextLinkInstalled
PROPERTIES LockGranted
CHECK_DEADLOCK FALSE
