SPECIFICATION Spec
CONSTANTS
  Slot = {1, 2}
  Image = {}
  Text = {t1}
  Content = {long, short}
  long = long
  short = short
  Length <- MCLength
  Inode = {1, 2, 3}
  MaxFiles = 2
  NoInode = noInode
  Torn = torn
INVARIANTS TypeOK AtRestWhole ServedWhole ProcessedWhole ListComplete
