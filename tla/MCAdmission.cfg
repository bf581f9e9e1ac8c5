SPECIFICATION Spec
CONSTANTS
  Conns = {c1, c2, c3}
  proxy = proxy
  near = near
  next = next
  far = far
  block = block
  Addrs <- AllAddrs
  Keys <- AllKeys
  KeyOf <- SourceKey
  Peers = {proxy, near}
  Masks <- NearMask
  Listeners = {"plain"}
  Mode <- Proxied
  HeaderFree = {}
  Trusted = {proxy}
  Exempt = {proxy}
  MaxClients = 2
  MaxClones = 1
  MaxConnects = 2
  MaxMessages = 0
  MaxViolations = 1
SYMMETRY Symmetry
INVARIANTS TypeOK Bounded ForwardedBounded ConnectRate
