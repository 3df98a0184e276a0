CONSTANTS
  Capacity = 5
  RefillRate = 2
  MaxElapsed = 3
  MaxAge = 4
  Amounts <- MCAmounts
SPECIFICATION FairBucketSpec
INVARIANT BucketTypeOK
INVARIANT RateLimited
PROPERTY ImplementsEager
PROPERTY Served
