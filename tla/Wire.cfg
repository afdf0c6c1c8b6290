SPECIFICATION FairWireSpec
CONSTANTS
  loop = loop
  watcher = watcher
  nobody = nobody
  zero = zero
  space = space
  noise = noise
  Senders = {loop, watcher}
  BurstLen <- Bursts
  Content <- Traffic
  MachineName <- Name
  MaxID = 5
  Room = 3
INVARIANTS
  TypeOK
  WireIDsConsecutive
  BurstsKeepOrder
  PayloadIntact
  StreamStaysAligned
PROPERTIES
  SendReturns
