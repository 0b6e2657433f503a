SPECIFICATION Spec
CONSTANTS
  Byte <- MCByte
  Word = {"ana", "bo", "e'", " ", "nl"}
  Length <- MCLength
  Rune = {"e'"}
  Space = " "
  Newline = "nl"
  Entity = {"PERSON"}
  PlaceholderLen = 2
  ChunkSize = 3
  Prompt <- MCPrompt
  Chain <- MCChain
  MaxSpans = 2
  MaxTokens = 1
  MaxChoices = 2
INVARIANT FoundIsNotSent
CHECK_DEADLOCK FALSE
