CONSTANTS
  c1 = c1
  c2 = c2
  Sessions = {c1, c2}
  Requests <- AllButResumed
  MaxTokens = 2
  MaxEvents = 5
SPECIFICATION Spec
SYMMETRY AnySession
INVARIANTS TxnTypeOK NoLeaseInReview LeasedIsHeld
PROPERTIES OneHolder LeaseAsPromised
