SPECIFICATION AuthSpec
CONSTANTS
  Requests = {r1}
  ChanCap = 1
  Life = 1
  Grace = 0
  MaxTime = 3
  MaxFaults = 1
  MaxDecisions = 2
INVARIANT AuthTypeOK
INVARIANT SessionsMatch
INVARIANT ExpiryIsOfTheToken
PROPERTY DecisionIsFollowed
