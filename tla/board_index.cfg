SPECIFICATION Spec
CONSTANTS
  Procs = {q1, q2}
  Platforms = {p1, p2}
  usb = usb
  bridge = bridge
  link = link
  b1 = b1
  b2 = b2
  Ids = {usb, bridge, link}
  Boards = {b1, b2}
  Manifests <- MCManifests
  Curated = {link}
  Bridges = {bridge}
  TTL = 1
  MaxTime = 1
  MaxChanges = 1
  None = None
  Torn = Torn
INVARIANT TypeOK
INVARIANT CacheIsCurrent
INVARIANT NamesAreUnambiguous
SYMMETRY Symmetry
CHECK_DEADLOCK FALSE
