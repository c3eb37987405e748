\* Lines of up to three characters, in a buf of four.

SPECIFICATION Spec
CONSTANTS
  Letters <- LetterB
  Size = 4
INVARIANTS TypeOK OverrunNeedsFullRecall CrashNeedsBlanks
PROPERTIES KeysActAsOne
CHECK_DEADLOCK FALSE
