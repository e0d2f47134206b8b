\* Two calls of subscribe, two publishers, two messages, a channel of one, one fault.
SPECIFICATION FairSpec
CONSTANTS
  s1 = s1
  s2 = s2
  p1 = p1
  p2 = p2
  Subscriber = {s1, s2}
  Publisher = {p1, p2}
  Absent = Absent
  Starting = Starting
  Capacity = 1
  MaxMessages = 2
  MaxFaults = 1
CHECK_DEADLOCK FALSE
INVARIANTS HeardOnceInOrder OneConsumerAtMost OwedIsComing PlaceHasOwner
PROPERTIES SleeperHears SubscribeRestarts
