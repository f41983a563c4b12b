SPECIFICATION Spec
CONSTANTS
  U16 <- MCU16
  Code <- MCCode
  Payload <- MCPayload
  PseudoSum <- MCPseudoSum
  Stamps <- MCStamps
  HeaderWords <- MCHeaderWords
  ForeignHead <- MCForeignHead
  ForeignBody <- MCForeignBody
INVARIANTS TypeOK RoundTrip FlipDetected VerifyMatchesRfc ParseKeepsMessage
CHECK_DEADLOCK FALSE
