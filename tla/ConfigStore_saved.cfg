SPECIFICATION Spec
CONSTANTS
  Readings = {temp, adc}
  Adc = {adc}
  Orgs = {o1, o2}
  Pings = {p1, p2}
  DefOrg = o1
  DefPing = p1
  Garbage = garbage
INVARIANT SavedWhenQuiet
INVARIANT PublishedIsMeasured
PROPERTY BootsWhole
