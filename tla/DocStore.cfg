SPECIFICATION Spec
CONSTANTS
  u1 = u1  u2 = u2  a = a  b = b  c = c  w1 = w1  w2 = w2
  NoDoc = NoDoc
  NoHash = NoHash
  Urls <- MCUrls
  Hashes <- MCHashes
  Workers <- MCWorkers
  Times <- MCOneTime
INVARIANTS OneLiveVersion SupersedeDag DecisionIsCurrent
PROPERTIES HistoryImmutable ImplementsVersionHistory
SYMMETRY Symmetry
