CONSTANTS
  Points <- TestPoints
  Configurations <- TestConfigurations
  Operators <- TestOperators
  Threshold = 1
  ZoneIds = {"a", "b", "c"}
SPECIFICATION Spec
INVARIANTS ResultIsFilter InsideIsRight ResultIsRight
PROPERTIES ReplyIsComplete
