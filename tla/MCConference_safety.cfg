\* Any schedule: sleeps may end at once.
SPECIFICATION Spec
CONSTANTS
  N = 2
  Q = 2
  P <- Sometimes
  B <- Sometimes
  SpeechSlices <- MayPassWord
  Timely = FALSE
INVARIANTS TypeOK OneSpeaker NewsInterrupt AnswersFit CutShortIsSpeaker
PROPERTIES SilenceIsFinal TurnsSpec
CHECK_DEADLOCK FALSE
