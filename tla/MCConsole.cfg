SPECIFICATION ConsoleSpec
CONSTANTS
  Ring = 3
  Length = 6
  ArgLength = 3
  Keys = {"x", "space", "backspace", "enter", "none"}
INVARIANTS
  TypeOK
  ReturnedOnce
  ParsesWords
PROPERTY
  KeysKeepComing
