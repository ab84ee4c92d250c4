SPECIFICATION Spec
CONSTANTS
  Alphabet = {"x", "newline", "sz", "wide"}
  MaxText = 4
  MaxChars = 4
  Keywords <- SomeKeywords
INVARIANTS
  TailIsTail
  SearchFindsFirst
