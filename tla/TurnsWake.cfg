SPECIFICATION Spec
CONSTANTS
  h1 = h1
  Heads = {h1}
  t1 = t1
  ToolIds = {t1}
  r1 = r1
  Results = {r1}
  NoResult = NoResult
  MaxNotifies = 2
PROPERTY ResultWakesHead
