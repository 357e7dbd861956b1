SPECIFICATION LinkFairSpec
CONSTANTS
  MaxIds = 2
  Commands = {c1, c2}
  MaxMishaps = 6
CHECK_DEADLOCK FALSE
INVARIANTS
  LinkTypeOK
  ReconnectionIsSound
PROPERTIES
  LinkRecovers
