SPECIFICATION Spec
CONSTANTS
  Main = main
  Callers = {main}
  Workers = {w0, w1}
  Requests = {r1, r2, r3}
  NoRequest = NoRequest
  Priorities = {5}
  Textures = {t1, t2}
  NoTexture = NoTexture
INVARIANTS
  TypeOK
  ImagesNotShared
  NoUseAfterDelete
  SingleLoader
CHECK_DEADLOCK FALSE
