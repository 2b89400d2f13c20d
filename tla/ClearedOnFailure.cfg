SPECIFICATION Spec
CONSTANTS
  default = default  noCall = noCall  noReply = noReply

  Names <- MCNames
  Default <- default
  MaxMisses = 2
  MaxClock = 3
  NoCall <- noCall  NoReply <- noReply
PROPERTY ClearedOnFailure
