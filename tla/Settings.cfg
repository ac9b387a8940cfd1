SPECIFICATION Spec
CONSTANTS
  old = old
  new = new
  quotedNew = quotedNew
  unknownVariable = unknownVariable
  Empty = Empty
  Unset = Unset
  Texts <- MCTexts
  Resolve <- MCResolve
PROPERTIES
  SavedTakesEffect
CHECK_DEADLOCK FALSE
