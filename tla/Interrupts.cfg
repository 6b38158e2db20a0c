SPECIFICATION Spec
CONSTANTS
    MaxFrames = 3
    MaxNodes = 4
INVARIANTS AnswerIsWhole FrameFaultNeedsRestart  ListDamageNeedsRing
PROPERTIES CaptureRefined
