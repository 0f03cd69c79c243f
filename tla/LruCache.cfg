CONSTANTS
  Origins = {o1, o2}
  SeqNos <- MCSeqNos
  CACHE_SIZE = 3
  None = None
SPECIFICATION Spec
INVARIANTS KeepsLast
PROPERTIES IsRecencyList
