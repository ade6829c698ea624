\* Entropy 1 stands for a value whose eight digests are all rejected.  The
\* queue behind it stops for good, hence no deadlock check.
SPECIFICATION FairSpec
CONSTANTS
  MaxBundles = 1
  MaxAssets = 1
  MaxTickets = 2
  Timeout = 1
  OpensAt = 2
  Quantities = {2}
  Prizes <- SolOnly
  Randomness = {r1, r2}
  Entropy = {0, 1}
  Rejecting = {1}
  ReceiptChoices = {FALSE}
  Bounties = {0}
  ReceiptRent = 1
  RentMin = 1
  Donations = {0}
CHECK_DEADLOCK FALSE
PROPERTY VerifiedIsAllocated
