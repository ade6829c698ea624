\* Three tickets in up to two bundles of up to two prizes, two openings in
\* flight at once; a donation may cover the whole service budget.
SPECIFICATION Spec
CONSTANTS
  MaxBundles = 2
  MaxAssets = 2
  MaxTickets = 3
  Timeout = 1
  OpensAt = 2
  Quantities = {1, 2}
  Prizes <- SolAndBadge
  Randomness = {r1, r2}
  Entropy = {0, 1}
  Rejecting = {}
  ReceiptChoices = {FALSE, TRUE}
  Bounties = {0, 2}
  ReceiptRent = 3
  RentMin = 4
  Donations = {0, 30}
SYMMETRY Openings
INVARIANTS TypeOK Solvent QueueExact SelectionLands ServiceCovered AccountsExact
PROPERTIES OutcomeFixed TermsFrozen
