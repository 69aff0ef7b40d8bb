CONSTANTS
  Threads = {t1, t2}
  Questions <- MCTwoPorts
  Key <- MCKey
  Hash <- MCHash
  InitSize = 1
  MaxVersion = 1
  MaxSize = 8
SPECIFICATION Spec
SYMMETRY SessionSymmetry
INVARIANT CredsAreForAddress
