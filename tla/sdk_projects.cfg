SPECIFICATION Spec
CONSTANTS
  Calls = {t1, t2}
  Commands = {}
  Syncs = {}
  Projects = {P, Q}
  Sketchbook = Sketchbook
  hdr = hdr
  core = core
  Files = {hdr, core}
  Required = {hdr}
  Versions = {1, 2}
  Absent = Absent
  Torn = Torn
  Archives <- MCArchives
  None = None
  Server = Server
INVARIANT PropsMeanWhole
SYMMETRY Symmetry
CHECK_DEADLOCK FALSE
