SPECIFICATION Spec
CONSTANTS
  u1 = u1  u2 = u2  a = a  b = b  c = c  w1 = w1  w2 = w2
  NoDoc = NoDoc
  NoHash = NoHash
  Urls <- MCOneUrl
  Hashes <- MCHashes
  Workers <- MCWorkers
  Times <- MCOneTime
INVARIANT DifferentHashSupersedes
