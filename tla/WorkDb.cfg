SPECIFICATION Spec
CONSTANTS
  Absent = Absent
  p1 = p1
  p2 = p2
  o1 = o1
  o2 = o2
  f1 = f1
  f2 = f2
  r1 = r1
  r2 = r2
  m1 = m1
  m2 = m2
  Pair = {p1, p2}
  Day = {1, 2, 3}
  Org = {o1, o2}
  Facts = {f1, f2}
  Rec = {r1, r2}
  Memo = {m1}
  EmptyMemo = m1
  MaxCommits = 3
SYMMETRY Symmetry
INVARIANTS TypeOK ReplicaFollows OkRowDescribesLive FreshRowDescribesMap
PROPERTIES NoSpuriousEvent ImplementsBoard
CHECK_DEADLOCK FALSE
