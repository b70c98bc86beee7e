SPECIFICATION FairSpec
CONSTANTS
  TimeoutOf <- DefaultTimeouts
  Senders = {o, b}
  Observers = {o}
  ClientTimeout = 2
  MaxFaults = 2
INVARIANTS TypeOK RecordedIsDelivered
PROPERTIES HealthyReached DeliveryRecorded
