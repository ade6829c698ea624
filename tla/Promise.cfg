\* Refinement of BoxPromise with a token and a badge to win: three tickets,
\* two bundles, two openings, a bounty for each and a receipt for every draw.
SPECIFICATION FairSpec
CONSTANTS
  MaxBundles = 2
  MaxAssets = 1
  MaxTickets = 3
  Timeout = 1
  OpensAt = 2
  Quantities = {1, 2}
  Prizes <- TokenAndBadge
  Randomness = {r1, r2}
  Entropy = {0, 1}
  Rejecting = {}
  ReceiptChoices = {TRUE}
  Bounties = {1}
  ReceiptRent = 1
  RentMin = 1
  Donations = {0}
PROPERTIES PromiseKept MissedDeadlineRecovers
