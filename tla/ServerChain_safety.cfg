SPECIFICATION Spec
CONSTANTS
  Chains <- UpToFour
INVARIANTS
  TypeOK
  DoneExactlyOnce
  PanicContained
  AccessLogged
  AccessLogMatchesReply
  NoFailureSwallowed
  AuthContextReaches
