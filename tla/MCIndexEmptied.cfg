SPECIFICATION EmptiedSpec
CONSTANTS
  GroupSize <- Sizes
  Keys = {1, 2, 3, 4}
  Valued = {2}
INVARIANT
  NeverWild
