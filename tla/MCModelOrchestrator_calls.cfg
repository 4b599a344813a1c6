\* The composer and a pipeline or the models page, two 7B models and the router model.
CONSTANTS
  h1 = h1
  h2 = h2
  relay = relay
  c1 = c1
  c2 = c2
  None = None
  Caller = {c1, c2}
  GoalsOf <- MCGoalsOf
  NoSignal = {c1}
  Model = {h1, h2, relay}
  Heavy = {h1, h2}
  MaxAbandoned = 1
SYMMETRY Twins
SPECIFICATION Spec
INVARIANTS
  EvictionsChained
  SingleHeavyUndisturbed
  HeadroomRespected
PROPERTIES
  UnloadAllFrees
