CONSTANTS
  Kinds = {"lane", "craze", "roost", "create"}
  Claims = {c1, c2}
  Touchers = {t1}
  MaxChanges = 3
SPECIFICATION FairSpec
INVARIANT NudgeIsOwed
INVARIANT CountersAreHonest
INVARIANT EndedIsSaid
PROPERTY ClosedGoesQuiet
PROPERTY GoneListenerIsNoticed
PROPERTY ImplementsContract
CHECK_DEADLOCK FALSE
