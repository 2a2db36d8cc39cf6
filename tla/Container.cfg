SPECIFICATION PodFair
CONSTANTS
  s1 = s1
  s2 = s2
  p1 = p1
  k1 = k1
  a1 = a1
  t1 = t1
  e1 = e1
  e2 = e2
  x1 = x1
  x2 = x2
  ExecStarters = {e1, e2}
  ExecAskers = {x1, x2}
  Starters = {s1, s2}
  Stoppers = {p1}
  Killers = {k1}
  Askers = {a1}
  Attachers = {t1}
  Scenarios <- MCScenarios
  MaxStreams = 2
INVARIANTS
  RunsAreWatched
  
  ExecIsAnswered

  
CHECK_DEADLOCK FALSE
