SPECIFICATION LiveSpec
CONSTANTS
  east = east
  west = west
  ann = ann
  amy = amy
  bob = bob
  Servers = {east, west}
  Users = {ann, bob}
  Home <- UserHome
  Chans = {main}
  Ends <- OneConn
  Other <- OtherEnd
  At <- EndAt
  Outbound <- Dialling
  Queue = 2
  Times <- Created
INVARIANTS TypeOK NoOrphans JoinsSeen OlderWins
CONSTRAINT Bounded
PROPERTIES SplitNoticed
