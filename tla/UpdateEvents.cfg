CONSTANTS
  Adapters = {a1, a2}
  States = {"RUNNING", "STOPPED"}
  Tasks = {t1, t2}
  Watchers = {w1}
  NoEvent = NoEvent
  Capacity = 2
  MaxEvents = 3
SPECIFICATION FairSpec
INVARIANTS ViewIsCurrent ViewIsExplained EventsChain
PROPERTIES LostOnlyWhenOverwritten
