SPECIFICATION IntakeSpec
CHECK_DEADLOCK FALSE
CONSTANTS
  r1 = r1 r2 = r2 r3 = r3 r4 = r4 d1 = d1 d2 = d2 d3 = d3
  k1 = k1 k2 = k2 t1 = t1 t2 = t2
  Definitions = {d1, d2, d3}
  Ticks = {t1, t2}
  Period <- OneRecurs
  Malformed = {d3}
  MaxMinute = 3
  MaxFaults = 1
  Requests = {r1, r2, r3, r4, d1, d2, d3}
  Keys = {k1, k2}
  NoKey = NoKey
  Body <- Bodies
  Bursts <- BurstsToSend
INVARIANTS
  IntakeTypeOK OneRowPerKey AnswersAreTrue OneJobPerRunTime
PROPERTIES
  EveryRequestEnds DueDefinitionsRun
