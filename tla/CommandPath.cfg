SPECIFICATION Spec
CONSTANT MaxOdd = 8
INVARIANTS
  SaidIsDone
  ContradictionsRefused
