\* Six texts in every place, under the limits of the code.
CONSTANTS
  None = None
  Texts <- MCTexts
  MaxPayload = 63
  HostChars = 10
  AgentChars = 8
  DetailChars = 18
SPECIFICATION Spec
INVARIANT TypeOK
INVARIANT CommandFits
INVARIANT ReadsBack
INVARIANT StateIsShown
CHECK_DEADLOCK FALSE
