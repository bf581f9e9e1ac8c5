SPECIFICATION Spec
CONSTANTS
  east = east
  west = west
  ann = ann
  amy = amy
  bob = bob
  Servers = {east, west}
  Users = {ann}
  Home <- UserHome
  Chans = {main}
  Ends <- TwoConns
  Other <- OtherEnd
  At <- EndAt
  Outbound <- Dialling
  Queue = 2
  Times <- Created
INVARIANT HandleKept
