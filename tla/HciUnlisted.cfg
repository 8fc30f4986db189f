SPECIFICATION Spec
CONSTANTS
  Options = {"ISO", "OBSERVER"}
  Commands = {"LE_RAND", "LE_CREATE_CONN", "LE_RX_TEST_V2", "LE_CS_TEST"}
  Reserved = 1
  Discardable = 1
  MaxMessages = 1
INVARIANTS
  AnswersWhole
