SPECIFICATION Spec
CONSTANTS
  Clients = {g1, g2}
  Natives = {}
  MaxToken = 2
  MaxCalls = 1
  Operations <- Everything
  Reentry <- OnlyApply
INVARIANTS
  SlotTokenRegistered
  OnlyPanickedConstructorsLeak
SYMMETRY AnyGoroutine
