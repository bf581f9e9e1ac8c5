SPECIFICATION LiveSpec
CONSTANTS
  Conns = {c1, c2}
  proxy = proxy
  near = near
  next = next
  far = far
  block = block
  Addrs = {proxy, near}
  Keys <- AllKeys
  KeyOf <- SourceKey
  Peers = {near}
  Masks <- NearMask
  Listeners = {"plain", "tls"}
  Mode <- Cutover
  HeaderFree = {}
  Trusted = {near}
  Exempt = {proxy}
  MaxClients = 1
  MaxClones = 2
  MaxConnects = 2
  MaxMessages = 1
  MaxViolations = 2
INVARIANTS SlotAccounting RecordServed
PROPERTIES HangUpReleases SilentReleased
