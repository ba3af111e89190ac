SPECIFICATION Spec
CONSTANTS
  q1 = q1
  q2 = q2
  Requests = {q1, q2}
  n1 = n1
  n2 = n2
  Names = {n1, n2}
  NoDoor = NoDoor
  Gc = Gc
  MaxRooms = 2
INVARIANT AnswersThroughOwnDoor
