CONSTANTS
  Origins = {o1, o2}
  SeqNos <- MCWideSeqNos
  CACHE_SIZE = 3
  None = None
SPECIFICATION Spec
INVARIANTS RemembersLast
