SPECIFICATION Spec
CONSTANTS
  Key = {1, 2, 4, 5, 7, 8}
  Val = {1, 2}
  Size = 4
  KeyModulus = 6
INVARIANTS ChainsEnd
PROPERTIES IsFlowMap
