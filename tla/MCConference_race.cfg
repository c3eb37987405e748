\* Sleeps last, but a commentator may stay silent.
SPECIFICATION Spec
CONSTANTS
  N = 2
  Q = 2
  P <- Sometimes
  B <- Sometimes
  SpeechSlices <- AlwaysSpeaks
  Timely = TRUE
INVARIANT HeardWhatWasAsked
CHECK_DEADLOCK FALSE
