CONSTANTS
  w1 = w1
  w2 = w2
  p1 = p1
  p2 = p2
  p3 = p3
  r1 = r1
  r2 = r2
  None = None
  Works = {w1,w2}
  Pictures = {p1, p2, p3}
  Runs = {r1, r2}
  MaxRow = 20
  MaxChanges = 1
  MaxLost = 2
  First <- MCFirst
  Later <- MCLater
  Lacking <- MCLacking
  Droppable <- MCDroppable
SPECIFICATION Spec
INVARIANTS SameUrlSamePicture PairsWhole FilesBehindRows
PROPERTIES CoversSettle NothingLeftOver
