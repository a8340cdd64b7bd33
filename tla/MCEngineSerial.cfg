SPECIFICATION Spec
CONSTANTS
  Key = {k1}
  Session = {s1}
  Handler = {h1}
  Turn = {t1, t2}
  State = {x1, x2, x3}
  Agent = {a1, a2}
  Request = {r1, r2}
  Input = {"text", "answer", "allow all", "switch", "stop", "mode"}
  MaxArrivals = 3
  MaxBuffer = 1
  Nil = Nil
SYMMETRY Symmetry
PROPERTIES TurnClosesOwnAgent
INVARIANTS WaitingIsAnswerable OneDecision AutoApprovalIsEarned
CHECK_DEADLOCK FALSE
