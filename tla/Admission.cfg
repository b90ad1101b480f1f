SPECIFICATION Spec
CONSTANTS
  a = a
  b = b
  s1 = s1
  s2 = s2
  n1 = n1
  n2 = n2
  good = good
  small = small
  usb = usb
  bare = bare
  locked = locked
  remote = remote
  Id = {a, b}
  Dotted = {}
  MaxSize = 2
  Disk = {good, small, usb, bare, locked, remote}
  Name = {n1, n2}
  Attr <- MCAttr
  NoDisk = NoDisk
  Request = {r1, r2}
  Reload = {l1}
  Server = {s1, s2}
  DeployServer = s1
  Published <- MCPublished
  Additions <- MCAdditions
  Boot <- MCBoot
  Config <- MCConfig
  Plugged <- MCPlugged
  None = None
  MaxLen = 2
  MaxEdits = 1
  MaxReplugs = 1
SYMMETRY Symmetry
CONSTRAINT OneThingAtATime
INVARIANTS
  TypeOK
  CatalogIsWhole
  MetadataIsCurrent
  FitsTheNode
  OpenedIsChecked
  OpenedIsAllowed
  RefusedForAReason
CHECK_DEADLOCK FALSE
