SPECIFICATION FairSpec
CONSTANTS
  Link = {t, r, s}
  TxLink = {t, s}
  RxLink = {r, s}
  NULL = NULL
  TtlExpires = TRUE
PROPERTIES SlotsEnd
CHECK_DEADLOCK FALSE
