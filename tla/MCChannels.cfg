SPECIFICATION Spec
CONSTANTS
  ann = ann
  bob = bob
  Users = {ann, bob}
  Remotes = {rem}
  Chans = {main, side}
  main = main
  side = side
  Accounts = {acc}
  Flags = {"i", "t", "R"}
  Masks <- BobMask
  ChanKeys = {key}
  Topics = {topic}
  Empty = Empty
  MaxChannels = 1
  MaxModes = 1
CONSTRAINT Bounded
INVARIANTS TypeOK MembershipAgrees WithinCap InviteSpent
PROPERTIES NoStrays LeaversSweep TopicKept Ownership
