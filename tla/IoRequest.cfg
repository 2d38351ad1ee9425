SPECIFICATION FairSpec
CONSTANTS
  Waiter = {timed1, timed2, forever}
  Timed = {timed1, timed2}
  Completer = {c1, c2}
  Status <- Statuses
  Nobody = Nobody
INVARIANTS SleeperIsNotified
PROPERTIES TrueTimeout WaitsReturn ImplementsCompletion
