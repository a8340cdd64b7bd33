SPECIFICATION Spec
CONSTANTS
  Key = {k1}
  Session = {s1, s2}
  Handler = {h1, h2}
  Turn = {t1, t2}
  State = {x1, x2, x3}
  Agent = {a1, a2}
  Request = {r1}
  Input = {"text", "answer", "allow all", "new", "switch", "model", "mode", "stop", "quiet", "compress", "cron"}
  MaxArrivals = 2
  MaxBuffer = 1
  Nil = Nil
SYMMETRY Symmetry
INVARIANTS TypeOK OneTurnPerSession ClosedAtMostOnce AnswersReachAsker
CHECK_DEADLOCK FALSE
