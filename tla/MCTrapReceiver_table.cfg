SPECIFICATION FairSpec
CONSTANTS
  p162 = p162
  p10162 = p10162
  Ports = {p162, p10162}
  MaxUsers = 3
INVARIANTS TypeOK ServesActive NoChangeMissed
PROPERTY TableIsFollowed
