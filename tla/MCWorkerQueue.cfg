SPECIFICATION Spec
CONSTANTS
  w1 = w1
  w2 = w2
  c1 = c1
  c2 = c2
  c3 = c3
  c4 = c4
  NoWorker = NoWorker
  Workers <- MCWorkers
  Callers <- MCCallers
INVARIANTS NoEmptyPop WorkersConserved
PROPERTY Served
