SPECIFICATION FairWriterSpec
CONSTANTS
  t1 = t1
  t2 = t2
  t3 = t3
  c1 = c1
  Texts <- ThreeTexts
  Conflicts = {c1}
  MaxAttempts = 8
PROPERTIES NothingIsLost OperationsEnd
