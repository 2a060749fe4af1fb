SPECIFICATION Spec
CONSTANTS
  Starters = {http, matter}
  Early = {http}
  Tasks = {t1, t2}
  NoMutex = NoMutex
  Nobody = Nobody
  NoTask = NoTask
INVARIANTS StartInv OneTask QueueOfTask
PROPERTIES MutexComesBack
