\* Two threads, the first calls race for the initialisation.
SPECIFICATION Spec
CONSTANTS
  GenesisKey = k0
  Keys = {k0, k1}
  Threads = {t1, t2}
  Texts = {text1}
  Ders <- MCDers
  MaxCalls = 2
INVARIANTS HandedAreLive EndedCallsClean CallsKeepPromise
PROPERTIES CallsReturn
CHECK_DEADLOCK FALSE
