SPECIFICATION Spec
CONSTANTS
  Browser = {b1}
  Slot = {s1, s2}
  Email = {e1, e2}
  Password = {p1}
  Blank = blank
  NoEmail = noEmail
  Language = {en}
  Default = en
  Mode = {}
  MaxId = 2
  UniqueEmail = TRUE
  OneTab = FALSE
SYMMETRY Symmetry
INVARIANTS TypeOK NoBlankPassword
PROPERTIES EmptiedOnlyByRevoked AsIfAlone
