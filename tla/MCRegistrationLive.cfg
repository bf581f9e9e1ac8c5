SPECIFICATION LiveSpec
CONSTANTS
  Conns = {c1, c2}
  Nicks = {a}
  None = None
  Challenge = TRUE
  HistoryCap = 1
  MaxHeld = 1
INVARIANTS ChallengeKept WelcomeOnce
PROPERTIES MarkResolved PairingEnds PingSettled
