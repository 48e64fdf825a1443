SPECIFICATION MCSpec
CONSTANTS
  s1 = s1
  s2 = s2
  s3 = s3
  Blank = Blank
  Glyph = Glyph
  Rows = 2
  Cols = 3
  TabWidth = 2
  MaxBytes = 3
  MaxItems = 2
  MaxInputs = 1
  Room = 2
  Slices <- MCSlices
  Digits <- MCDigits
SYMMETRY Interchangeable
INVARIANTS OscEndsAtST
