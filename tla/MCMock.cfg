SPECIFICATION MockSpec
CONSTANTS
  Mocker = {m1, m2}
  m1 = m1
  m2 = m2
  Nobody = Nobody
  Argument = {"a", "b", "c"}
  Routine = {"r1", "r2"}
  Original = "original"
  Text <- MCText
  MaxCall = 4
INVARIANTS
  MockTypeOK
  PassIffExpected
  EarliestAnswers
