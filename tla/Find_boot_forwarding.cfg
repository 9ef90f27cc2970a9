SPECIFICATION Spec
CONSTANTS
  unit = unit
  op = op
  eth = eth
  wlan = wlan
  odd = odd
  None = None
  Unit = unit
  Applier = {unit, op}
  Config = {eth, wlan, odd}
  Refused = {odd}
  Provisioned = eth
INVARIANT NoForwardingBeforePolicy
