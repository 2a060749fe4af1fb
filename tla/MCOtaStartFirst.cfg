SPECIFICATION Spec
CONSTANTS
  Starters = {http, matter}
  Early = {http, matter}
  Tasks = {t1, t2}
  NoMutex = NoMutex
  Nobody = Nobody
  NoTask = NoTask
PROPERTIES SecondStartIsBusy
