SPECIFICATION Spec
CONSTANTS
  MaxDepth = 8
  Sources <- AllTexts
  Builtins = {"str", "ez_register_test", "__input__"}
INVARIANTS TextMeansTree RecoverySound SiblingsInAnyOrder
CHECK_DEADLOCK FALSE
