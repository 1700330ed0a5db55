\* Two redirects, a request body of at most one byte, a response of at most one,
\* under the fairness of the handler, the resolver and the deadline.
SPECIFICATION FairSpec
CONSTANTS
  MaxRedirects = 2
  MaxRequest = 1
  MaxResponse = 1
  None = None
INVARIANTS
  DestinationAllowed
  NamesKeepNetwork
PROPERTIES
  TruncationExact
  EveryRequestAnswered
