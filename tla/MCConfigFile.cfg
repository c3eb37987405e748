\* Two shells that may be killed and started again, three aliases,
\* and three with colons.

SPECIFICATION Spec
CONSTANTS
  s1 = s1
  s2 = s2
  a = a
  b = b
  home = home
  tmp = tmp
  NoFile = NoFile
  Shells <- TwoShells
  Pieces <- PiecesUsed
  Aliases <- SomeAliases
CONSTRAINT RivalsAgree
VIEW View
INVARIANTS TypeOK  FileIsList WaitsForOneThatRuns
PROPERTIES AliasesLast
