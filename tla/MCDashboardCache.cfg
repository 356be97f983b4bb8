\* A video, a bucket and two more to create, one key and one invented key.
CONSTANTS
  Videos = {v1}
  Buckets = {b1, b2, b3}
  Owned = {b1}
  Keys = {k1}
  Invented = {i1}
  None = None
SPECIFICATION FairSpec
INVARIANTS DeletedRowIsReplaced CreatedBucketIsKept NotFoundIsFailure
PROPERTIES LoadingEnds
