CONSTANTS
  name = name
  note = note
  late = late
  agree = agree
  Fields <- MCFields
  Initially <- MCInitially
  Required <- MCFields
  Texts <- MCTexts
  Groups <- MCGroups
  Position <- MCPosition
  HasButtons = TRUE
  Encodes = TRUE
  MaxSends = 2
  MaxWidgets = 2
SPECIFICATION Spec
INVARIANTS MarksAgree ErrorsAreTrue OneInFlight LatestErrors NothingInvalidSent
PROPERTIES ButtonsComeBack
