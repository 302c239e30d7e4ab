SPECIFICATION FairSpec
CONSTANTS
  MaxVersions = 2
  MaxRestarts = 1
INVARIANTS IdCarriesHashOutsideWindow AdvertVolunteered
PROPERTIES EventuallyRegistered StopsAsking BrokerLearnsAdverts
