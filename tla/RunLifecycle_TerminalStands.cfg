SPECIFICATION Spec
CONSTANTS
  Workers = {w1}
  Handlers = {h1}
  Commands = {"generate", "cancel"}
  Items = 1
  Dry = {FALSE}
PROPERTIES
  TerminalStands
