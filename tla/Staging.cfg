\* Two drafts of two bundles each.  A tab and a launch may rest.
SPECIFICATION FillSpec
CONSTANTS
  sol = sol
  nft = nft
  art = art
  t1 = t1
  t2 = t2
  home = home
  press1 = press1
  press2 = press2
  Nothing = Nothing
  Tabs = {t1, t2}
  Prizes = {sol, nft, art}
  Fungible = {sol}
  Plans <- AllPlans
  Forms <- AllForms
  MaxDrafts = 3
  MaxLive = 4
  MaxLate = 1
INVARIANT NothingLost
PROPERTIES StagedEnds LaunchEnds
CHECK_DEADLOCK FALSE
