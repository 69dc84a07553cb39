SPECIFICATION Spec
CONSTANTS
  Slots = {1, 2}
  InboxCapacity = 1
  OutboxCapacity = 2
  MaxOutstanding = 1
  MaxGen = 2
  MaxToken = 2
  MaxChanges = 1
  Offered <- MCOffered
INVARIANT EveryRequestAnswered BrowsersServed
PROPERTY SessionUndisturbed
CHECK_DEADLOCK FALSE
