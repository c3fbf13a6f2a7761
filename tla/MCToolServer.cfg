\* Three calls, two of which may need the same backend; two worker threads.
SPECIFICATION Spec
CONSTANTS
  c1 = c1  c2 = c2  c3 = c3
  Calls = {c1, c2, c3}
  NoCall = NoCall
  Asks <- MCAsks
  Hosts <- MCHosts
  Starts <- MCStarts
  Workers = 2
  Cap <- MCCap
  LoadErrors = {"ModelLoad", "Inference"}
  Levels = {0, 1}
INVARIANTS TypeOK RaisedExactlyFor  AgreeUnlessRaced BestKept PoisonContained
PROPERTIES EveryCallAnswered
\* All calls are answered, or the server has not started.
CHECK_DEADLOCK FALSE
