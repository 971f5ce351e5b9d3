SPECIFICATION Spec
CONSTANTS
  c1 = c1
  c2 = c2
  h1 = h1
  h2 = h2
  t1 = t1
  t2 = t2
  Composes = {c1, c2}
  OldStatus = {"running"}
  Host = {"qcow2", "ec2-sap", "ec2-ha"}
  Foreign = {"other"}
  Unmapped = {"ec2-sap", "ec2-ha"}
  Denied = {"ec2-ha"}
  Handlers = {h1, h2}
  Tokens = {t1, t2}
  Nil = Nil
  Faults = {"crash", "write"}
SYMMETRY Interchangeable
INVARIANTS ComposesAreKept UnfinishedIsOwned RequestsAreAnswered
PROPERTIES StatusIsFinal
CHECK_DEADLOCK FALSE
