SPECIFICATION Spec
CONSTANTS
  pic = pic
  doc = doc
  File <- TheFiles
  Image <- TheImages
  Carries <- ThreeMessages
  NoRow = NoRow
  NoCopy = NoCopy
  MaxRows = 3
  MaxErasures = 2
  MaxRestores = 1
  MaxFaults = 2
INVARIANTS
  IndexIsTheRecord
  BytesAreThere
  ErasedStaysOut
CHECK_DEADLOCK FALSE
