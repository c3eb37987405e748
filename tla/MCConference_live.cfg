\* Sleeps last, everyone answers, nobody speaks for less than a slice.
SPECIFICATION FairSpec
CONSTANTS
  N = 3
  Q = 2
  P <- Always
  B <- Sometimes
  SpeechSlices <- AlwaysSpeaks
  Timely = TRUE
INVARIANTS HeardWhatWasAsked CountIsComplete
PROPERTY Termination
CHECK_DEADLOCK FALSE
