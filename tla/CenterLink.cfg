CONSTANTS
  Vids = {v1, v2}
  MaxActive = 2
  MaxQueue = 3
SPECIFICATION FairSpec
INVARIANTS
  ConsumerDriven
  NoStaleRequest
PROPERTIES
  ConsumerRecovers
  ProducerRecovers
