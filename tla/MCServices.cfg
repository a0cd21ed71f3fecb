SPECIFICATION ServicesSpec
CONSTANTS
  Requests = 3
  Tests = {t1, t2}
  Retained = 1
  Presets = {p1}
  Names = {n1, n2}
  Guidance = {g1, g2, g3}
  MaxRevised = 4
  MaxMishaps = 2
  Commands = {c1, c2}
  Keys = {k1, k2}
  MaxOffer = 1
  MaxFailures = 1
  Segments = {s1, s2}
  Selected = {s1}
  Expected <- PricedModel
  Reported <- NamedModels
  MaxText = 3
  Contents = {good, better, bad}
  Sound = {good, better}
  Details = {d1}
  Times = {1, 2, 3}
  LastRevision = 4
INVARIANTS
  OneHeavyModel
  OneTestPerSource
  PresetSurvives
  ValidatedAsStored
  AnswerWhole
  ChangesApply
PROPERTIES
  RunningCallReturns
  BridgeEnds
CHECK_DEADLOCK FALSE
