CONSTANTS
  a = a
  b = b
  c = c
  aPath = aPath
  aLink = aLink
  bPath = bPath
  cPath = cPath
  gone = gone
  core = core
  unknown = unknown
  Inline = Inline
  Missing = Missing
  X = X
  A = A
  B = B
  k = k
  NoAlias = NoAlias
  S = S
  T = T
  x = x
  y = y
  None = None
  Programs <- AppPrograms
  Roots <- AppRoots
  Units <- NamingUnits
  Tasks <- BodyTasks
  Reserved <- BodyReserved
SPECIFICATION FrontEndSpec
INVARIANTS NamesMeanSources RefusalJustified LinkedFromSource NamesAgree AccessesMeanSource UsesKeepMeaning HidingRefused
PROPERTIES GraphDiscovered
CHECK_DEADLOCK FALSE
