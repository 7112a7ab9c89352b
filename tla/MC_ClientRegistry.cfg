CONSTANTS
  Letter <- MCLetter
  Digit <- MCDigit
  Keyword <- MCKeyword
  NumberOf <- MCNumberOf
  NaN = NaN
  Printed <- Format
  Client <- MCClient
  Metadata <- MCMetadata
  InnerState <- MCInnerState
  Alphabet <- MCAlphabet
  Spelling <- MCSpelling
  Verdict <- Judge
  Truth <- MCTruth
  Sample <- MCSample
  LabelTest <- MCLabelTest
  Value <- MCValue
  Field <- MCField
  MaxPieces = 5
  MaxServed = 1
SPECIFICATION Spec
INVARIANTS TypeOK ParsesStandardLogic ParserStaysInside  OperatorsAgree GroupsAsWritten
