SPECIFICATION MCSpec
CONSTANTS
  e1 = e1  e2 = e2  e3 = e3
  w1 = w1  w2 = w2
  a = a  b = b
  NoOwner = NoOwner
  NoToken = NoToken
  Events = {e1, e2, e3}
  CreatedAt <- ThreeEvents
  Workers = {w1, w2}
  ConsumerOf <- OneConsumerEach
  Tokens = {1, 2, 3, 4}
  Limits = {2}
  Leases = {1}
  Mortal = {w1}
  Poison = {e1, e3}
  MaxLag = 1
INVARIANTS HolderSettles
PROPERTIES TakeoverNeedsExpiry DeliverySpec Drains
