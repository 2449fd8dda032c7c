SPECIFICATION Spec
CONSTANTS
  Calls = {}
  Commands = {}
  Syncs = {s1, s2}
  Projects = {P}
  Sketchbook = Sketchbook
  hdr = hdr
  core = core
  Files = {hdr, core}
  Required = {hdr}
  Versions = {1, 2}
  Absent = Absent
  Torn = Torn
  Archives <- MCArchives
  None = None
  Server = Server
INVARIANT PropsMeanWhole
INVARIANT EditIsNoticed
CHECK_DEADLOCK FALSE
