CONSTANTS
  NumOfBlock = 3
  BlockSize = 2
  Thread = {t1, t2}
  NoBlock = NoBlock
  BadAddress <- MCBadAddress
SPECIFICATION Spec
INVARIANTS TypeOK NoSharedBlock NoLostBlock OwnDataOnly
PROPERTIES QueueSpec
