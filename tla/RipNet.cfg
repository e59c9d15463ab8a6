SPECIFICATION Spec
CONSTANTS
  Prefixes = {"net"}
  Martian = {}
  Ifs <- MCRouters
  Infinity = 4
  Routers <- MCRouters
  Origin = "A"
  Worlds <- MCWorlds
PROPERTIES Converges
CHECK_DEADLOCK FALSE
