SPECIFICATION Spec
CONSTANTS
  Workers = {w1, w2}
  Handlers = {h1}
  Commands = {"cancel", "stop", "link", "generate"}
  Items = 2
  Dry = {FALSE}
SYMMETRY Symmetry
INVARIANTS
  GuardBacked NoEscape
