SPECIFICATION Spec
CONSTANTS
  Conns = {c1, c2}
  proxy = proxy
  near = near
  next = next
  far = far
  block = block
  Addrs = {near}
  Keys = {block}
  KeyOf <- SourceKey
  Peers = {near}
  Masks <- NearMask
  Listeners = {"tls"}
  Mode <- Unproxied
  HeaderFree = {}
  Trusted = {}
  Exempt = {proxy}
  MaxClients = 1
  MaxClones = 2
  MaxConnects = 0
  MaxMessages = 0
  MaxViolations = 2
INVARIANT CountsHeld
