CONSTANTS
  Threads = {t1, t2}
  Questions <- MCQuestions
  Key <- MCKey
  Hash <- MCHash
  InitSize = 1
  MaxVersion = 1
  MaxSize = 8
SPECIFICATION Spec
SYMMETRY SessionSymmetry
INVARIANT TypeOK
INVARIANT ProbesEnd
INVARIANT KeysAreFound
INVARIANT AnswerHasKey
PROPERTY ImplementsStore
