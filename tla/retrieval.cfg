\* One search with two sub-queries over two documents of one chunk; a call
\* returns one chunk, the cache holds one entry for two ticks.
CONSTANTS
  a = a
  b = b
  d1 = d1
  d2 = d2
  s1 = s1
  s2 = s2
  q1 = q1
  q2 = q2
  Malformed = Malformed
  OddQuery = OddQuery
  WordsOf <- MCWordsOf
  Words <- MCWords
  Files <- MCFiles
  DefaultDocs <- MCDefaults
  Searches <- MCSearches
  Queries <- MCQueries
  WordOf <- MCWordOf
  MaxFailures = 0
  CacheTtl = 2
  CacheMax = 1
  Evicted = 1
  Threshold = 2
  Recovery = 1
  TopK = 1
  MaxRewrites = 1
  MaxClock = 4
SPECIFICATION Spec
INVARIANTS TypeOK BreakerSettles
PROPERTIES StaleAtMostTtl NothingMeansNothing EverySearchEnds
CHECK_DEADLOCK FALSE
