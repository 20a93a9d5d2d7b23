SPECIFICATION Spec
CONSTANTS
  Requests = {q1, q2, q3, q4, q5}
  Mappings = {m1, m2} Rules = {u1, u2}
  ValidMappings = {m1, m2} ValidRules = {u1}
  CreateStatuses = {"DRAFT", "PUBLISHED"}
  Numbers = {1, 7}
  Keys = {k1}
SYMMETRY Symmetry
INVARIANT TypeOK
INVARIANT CaseReproducible
INVARIANT OneCasePerKey
PROPERTY OnlyRacesMutate
CHECK_DEADLOCK FALSE
