\* The first shell and up to three processes more.

SPECIFICATION Spec
CONSTANTS
  MaxProcs = 4
INVARIANTS TypeOK OneForAnother FewReaders TerminalGivenBack
CHECK_DEADLOCK FALSE
