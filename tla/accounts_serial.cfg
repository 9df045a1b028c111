SPECIFICATION Spec
CONSTANTS
  Browser = {b1, b2}
  Slot = {s1}
  Email = {e1, e2}
  Password = {p1, p2}
  Blank = blank
  NoEmail = noEmail
  Language = {en, es}
  Default = en
  Mode = {"touch", "desktop"}
  MaxId = 3
  UniqueEmail = FALSE
  OneTab = TRUE
SYMMETRY Symmetry
INVARIANTS EmailsUnique
PROPERTIES IdentityOnlyByLogin RevokedStaysRevoked PreferencesKept
