CONSTANTS
  name = name
  note = note
  late = late
  agree = agree
  Fields <- MCFields
  Initially <- MCInitially
  Required <- MCFields
  Texts <- MCTexts
  Groups <- MCGroups
  Position <- MCPosition
  HasButtons = TRUE
  Encodes = FALSE
  MaxSends = 2
  MaxWidgets = 2
SPECIFICATION Spec
PROPERTIES ErrorsDisplayed
