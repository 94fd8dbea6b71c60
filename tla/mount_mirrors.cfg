CONSTANTS
  Handlers = {h1, h2}
  Sandboxes = {b1}
  x = x
  y = y
  d = d
  Files = {x, y}
  Dirs = {d}
  Under <- OneUnder
  Prefixed <- TwoPrefixed
  Data = {v1, v2}
  NoData = NoData
  Inside <- WritesX
  NoFile = NoFile
  Api = Api
  Builds = {v1, v2}
  Names = {n1}
  Hashes = {f1}
  Starters = {h1, h2}
  NoBuild = NoBuild

SPECIFICATION MCSpec
SYMMETRY Symmetry
CHECK_DEADLOCK FALSE
INVARIANT MountMirrorsBack
