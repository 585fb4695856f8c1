\* Two connections save specs at the same time.
CONSTANTS
  SpecData = {s1}
  Forwarder = f
  OtherValidators = {o}
  MaxReports = 1
SPECIFICATION SpecsSpec
CHECK_DEADLOCK FALSE
INVARIANT OtherSpecsAreUnique
