\* Two boxes, one or two wallets, two prizes, two reads at a time.  A page may stay
\* as it is.
SPECIFICATION SceneSpec
CONSTANTS
  Finish <- TwoBoxes
  Site <- Turns
  Panel <- Overlapping
  MaxOpenings = 2
CHECK_DEADLOCK FALSE
INVARIANT OnEveryPage
PROPERTY EveryBoxOpensInTheEnd
