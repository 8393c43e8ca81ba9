SPECIFICATION FairSpec
CONSTANTS
  Files = {f1, f2}
  Names = {f1, f2}
  NameOf <- MCNameOf
  Textures = {t1, t2}
  Objects = {o1, o2}
  None = None
  Width = 4
  MaxLost = 1
INVARIANTS
  TypeOK
  CountIsUsers
  LoadedWhileUsed
  RegisteredIsFound
PROPERTIES
  AnsweredGetsLoaded
CHECK_DEADLOCK FALSE
