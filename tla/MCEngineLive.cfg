SPECIFICATION FairSpec
CONSTANTS
  Key = {k1}
  Session = {s1}
  Handler = {h1}
  Turn = {t1, t2}
  State = {x1, x2, x3, x4}
  Agent = {a1, a2}
  Request = {r1, r2}
  Input = {"text", "answer", "compress", "cron"}
  MaxArrivals = 2
  MaxBuffer = 1
  Nil = Nil
PROPERTIES TurnsEnd
CHECK_DEADLOCK FALSE
