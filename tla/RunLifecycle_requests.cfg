SPECIFICATION Spec
CONSTANTS
  Workers = {w1}
  Handlers = {h1}
  Commands = {"cancel", "stop", "retry", "regenerate", "delete", "link", "generate", "execute", "prepare", "publish"}
  Items = 2
  Dry = {TRUE}
INVARIANTS
  BoundedOverrun
