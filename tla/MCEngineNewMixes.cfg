SPECIFICATION Spec
CONSTANTS
  Key = {k1}
  Session = {s1, s2}
  Handler = {h1, h2}
  Turn = {t1, t2}
  State = {x1, x2, x3}
  Agent = {a1, a2}
  Request = {r1}
  Input = {"text", "new"}
  MaxArrivals = 4
  MaxBuffer = 1
  Nil = Nil

INVARIANTS FreshConversation
CHECK_DEADLOCK FALSE
