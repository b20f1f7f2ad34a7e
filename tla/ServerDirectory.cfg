SPECIFICATION Spec
CONSTANTS
  lobby = lobby
  world = world
  host1 = host1
  host2 = host2
  Ids = {lobby, world}
  Agents = {host1, host2}
  None = none
  Base <- MCBase
  SourceAgent <- MCSourceAgent
  Fleets <- MCFleets
  Handlers = {h1, h2}
  MaxPairings = 2
  Requests = 3
  Faults = 2
INVARIANTS TypeOK MemoryAsSaved RegisteredFirst OnlyServed
PROPERTIES NoTakeover Converges
CHECK_DEADLOCK FALSE
