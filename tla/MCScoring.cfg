SPECIFICATION Spec
CONSTANTS
  e1 = e1  e2 = e2  e3 = e3  e4 = e4  e5 = e5
  bcc = bcc  tls = tls  tpa = tpa  rule = rule  schema = schema
  Row = {e1, e2, bcc, tls, tpa, rule, schema}
  KindOf <- Kinds
  SeverityWeight <- DefaultSeverity
  WeightOf <- DefaultWeightOf
  Rules <- DefaultRules
  Popularity = {0, 10}
SYMMETRY Symmetric
INVARIANTS
  TypeOK
  RouterWithinPriority
  SmallServersAgree
PROPERTIES
  ScoreMonotone
  PriorityMonotone
