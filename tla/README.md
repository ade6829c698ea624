# Verification of lootbox

TLA+ modules, TLC configurations and TLAPS proofs for the Solana program in
`programs/lootbox_program` and for the software that drives it: the TypeScript
client, the relayer, the hosted platform and its pages. Paths in this file are
relative to the repository.

```
tlc -config Draw.cfg MCTreasury       # one configuration per question
tlapm TreasuryProofs.tla              # the proofs of a module
```

`PROJECT.json` maps every definition to the lines it stands for, lists the
hazards the properties are aimed at, and gives for each property a mutation of
the code's behaviour that breaks it.

## 1. The system

### Components

| component | source | state it keeps | operations | module |
| --- | --- | --- | --- | --- |
| template staging and issuance | `templates.rs` | template header, tickets per bundle, bundles with prize slots, escrow, box mint supply | create, add / fund / activate / cancel bundle, seal, mint boxes | `Treasury` |
| market lock and service vault | `templates.rs`, `close.rs` | `locked_at`, receipt and bounty counters, the vault's lamports | lock, close vault | `Treasury` |
| openings, allocation, receipts | `opening.rs`, `claims.rs` | opening accounts, queue counters, result receipts | request, fulfill, forfeit, allocate | `Treasury` |
| claims, retirement, closing | `claims.rs`, `retirement.rs`, `close.rs` | claimed masks, slot counts and escrow, badge authority | claim, retire, reclaim, close opening | `Treasury` |
| outcome selection | `lib.rs` | none between calls | `select_outcome`, `accept_uniform_candidate` | `OutcomeSelection` |
| box curve | `box_curve.rs`, `curve.ts` | curve account, its boxes and lamports | open, buy, sell, close | `BoxCurve` |
| prize pool | `prize_pool.rs` | items, bitmap, assigned, claimed and reclaimed counts | prepare, deposit, unwind, seal, reserve, claim, stranded claim, reclaim, close | `PrizePool` |
| client: pools | `sdks/typescript/src/client.ts` | none that lasts; reads the chain | fund, resume, cancel a pool | `PoolFunding` |
| client: bundles | `client.ts`, `apps/web/src/lootbox/playground.ts`, `lootbox.manage.tsx` | the saved draft | stage, resume, cancel, publish | `Staging` |
| client: claims | `client.ts` | none that lasts | claim in batches | `Delivery` |
| relayer | `sdks/typescript/src/relayer.ts` | the view of one pass | walk a queue of openings | `Relay` |
| hosted runs | `apps/platform/app/lib/.server/relayer*.ts`, `db.ts` | lease and cursor rows, budgets | one run each minute | `Cron` |
| cover images | `storage.ts`, `db.ts`, SQL triggers | upload rows, bucket objects, quota | reserve, put, complete, delete, hourly pass | `Storage` |
| launch wizard | `create/draft.ts`, `create/launch.ts`, `api.drafts*.ts`, `api.lootboxes.ts` | draft and page rows, keys in the browser | edit, save, pin, stage, publish | `Launch` |
| sign-in and drafts | `auth.ts`, `session.tsx`, `draft.ts` | nonces, sessions, cookie, drafts | challenge, verify, sign out, save | `Session` |
| manage page and edge cache | `lootbox.manage.tsx`, `chain-cache.ts`, `db.ts` | cached view, labels | append, label, lock, retire | `ManagePage` |
| curve pages | `CurveMarket.tsx`, `lib/curve.ts` | a view and an order per page | quote, buy, sell, plan, open, close | `CurveTrade` |
| opening pages | `HolderPanel.tsx`, `LaunchApp.tsx`, `openingMachine.ts` | the page's machine and its flows | hold, burn, settle, finish, show, claim | `OpeningPage` |
| handing out boxes | `AirdropCard.tsx` | the list in the text field | check, estimate, send batches | `Airdrop` |

### How they interact

The program is the only memory that all actors share. A client sends instructions;
Solana runs each of them atomically and rolls it back when a check fails, so what
interleaves are whole instructions of different senders. The creator stages and locks
a template. Holders burn a box and commit to a Switchboard randomness account in one
instruction (`request_template_open`). The oracle reveals later and in any order;
whoever submits `fulfill` earns the bounty. Allocation is permissionless and takes the
head of the queue only. Winners claim slot by slot, at any time. The creator may retire
the template and reclaim what is undrawn while winners still claim. A box curve trades
boxes of a locked template and never touches its treasury.

A client reads accounts, decides, and sends; other clients act in between. It stops
waiting for a confirmation before the transaction's blockhash expires, so that a
transaction it has given up may still land. Relayers and holders' browsers compete
to send the permissionless instructions. The platform keeps drafts, pages, labels and
covers in a database and a bucket that no transaction spans, shows the chain through an
edge cache, and knows its creators by a session cookie that all tabs share. A launch
crosses all of them: its identity is pinned in the draft before the first transaction,
and the page is inserted after the last.

### What is hard

* openings are answered out of order but must be drawn in order, and only the head
  may be drawn or forfeited; an answer after the timeout races a forfeit;
* three counters describe a queue whose accounts are closed and whose addresses are
  used again; boxes are also burned outside the program;
* copies of a prize leave the escrow by claims and reclaims in any order, and the
  last of them revokes a badge's mint authority;
* a prepaid vault pays services in an order nobody knows beforehand;
* the terms holders bought must not move after the lock, or after a retirement
  without one;
* the items of a pool are addressed by position, in a bitmap, and the pool may be
  closed while winners have not claimed; the same addresses are used again after a
  cancellation, and the tree changes under the leaves that are held;
* the curve's reserve is updated by a closed form whose parts must add up exactly,
  and overflow is checked once, in advance;
* every client acts on a view that is already old; requests fail, time out, are
  repeated or land late; a tab, a run or a request dies between any two of its calls;
* leases, cursors, uploads, drafts and keys have to survive that;
* what looks like one step in a handler is several: reads that are answered at two
  moments, a check before an `await` and a write after it, a debounce that waits for no
  earlier request.

`PROJECT.json` "hazards" lists these by line, with the properties that cover them.

## 2. The modules

`X` is a component, `XProofs` its proofs, `MCX` gives constants to TLC. An MC module
that covers several components has a variable `scene`: the initial states choose the
component (or the constants) that moves, and what is not chosen rests. So one run
answers one question about components that share nothing.

| module | what it is |
| --- | --- |
| `Treasury`, `MCTreasury` | the whole lifecycle of a template, and the environment |
| `BoxPromise`, `TreasuryPromise` | what a treasury promises the holder of a box, and the mapping from `Treasury` to it |
| `OutcomeSelection` | from entropy to a ticket |
| `BoxCurve`, `CurveTrade` | the bonding curve; pages that quote and trade on it (`CurveTrade` extends it) |
| `PrizePool`, `PoolFunding` | the pool in the program; a client that fills or empties it (`PoolFunding` extends it) |
| `Relay`, `SettledQueue` | relayers on one queue; the abstract queue they implement |
| `Delivery` | claims of one drawn bundle by several claimers |
| `Cron`, `Storage` | the Worker's scheduled runs; uploads and covers |
| `Staging`, `Launch`, `Session` | filling a treasury; the wizard; sign-in and saved drafts |
| `ManagePage`, `OpeningPage`, `Airdrop` | pages |
| `MCMarket`, `MCRelay`, `MCSettling`, `MCOpeningPage`, `MCPlatform`, `MCWizard`, `MCStaging`, `MCPool`, `MCCreator` | the scenes of the runs below |
| `Sums` | lemmas: what the library's sum over a finite set of indices computes |
| `TreasuryProofs` | proofs about `Treasury`: types, counters, accounts and the refinement |
| `DeliveryProofs` | proofs about `Delivery` and, through the instances in `MCOpeningPage`, `OpeningPage` |
| `MarketProofs` | proofs about `OutcomeSelection`, `BoxCurve`, `CurveTrade` and `Airdrop` |
| `PlatformProofs` | proofs about `Cron` and `Storage` and, through the instance in `MCStaging`, `Staging` |
| `RelayProofs` | proofs about `Relay` and, through the instance in `MCRelay`, `ManagePage` |
| `LaunchProofs` | proofs about `Launch` and, through the instances in `MCWizard`, `Session` |
| `PrizePoolProofs` | proofs about `PrizePool` |

### Treasury

`template` is the header of `TemplateState` and `remaining` its array of tickets;
`bundle` and `asset` are the `BundleState` accounts, split into header and prize slots;
`asset[i][s].held` is what the escrow of slot `s` holds; `boxMint` is supply and
authority of the box mint; `badge` says who may mint each badge; `opening` holds
`TemplateOpeningState` together with its randomness account (`age`, `revealed`);
`vault` is the lamports of the service vault; `receipts` are the `ResultReceiptState`
accounts; `now` and `opening[r].age` are the two clocks.

Every instruction is an action of its own name. Its checks are the guard, all its
writes and transfers are the primed variables, and CPIs that change modelled state
(token transfers, mint, burn, authority revocation, account creation and closing)
are part of the step. `RecordPrize`, `RecordClaim`, `PaySettlementBounty`,
`IssueReceipt`, `RecordForfeit` and `Drawn` are the helpers of the same name in
snake case, except that the last two and the receipt are pulled out of handlers.

What is abstracted:

* a box is a unit of the supply, not a token of somebody: boxes are fungible and
  an opening stores its beneficiary when it is requested;
* the authority checks: creator instructions are sent by the creator;
* entropy is a small number. `SelectOutcome` is the residue of an accepted digest;
  entropies in `Rejecting` are those whose eight digests are all rejected. How a
  digest becomes a residue is the subject of `OutcomeSelection`;
* metadata, hashes, addresses and the rent of accounts other than the vault and
  receipts;
* collection and exclusive prizes, which are slots with other deliveries, and the
  items of a pool, which are `PrizePool`.

Three actions are not instructions: `AdvanceClock`, `AdvanceSlot`, and `BurnBox`, a
burn through the token program. `WoundUp` lets a behaviour stop, and only when the
template is retired, nothing is outstanding, every prize is delivered or reclaimed
and the vault is empty: with it, checking for deadlock means that inventory and
lamports never get stuck.

`BoxPromise` says it without accounts: stock is put up, boxes are issued only against
it, stock and boxes are sealed, openings queue in the order of their requests, each
takes one item or lapses, and what was won is delivered. `TreasuryPromise` maps the
queue to the openings that wait, ordered by sequence; `sealed` to "locked or retired";
`won` to allocated openings with undelivered slots. Staging, the vault, receipts, escrow
and the clocks are stuttering steps.

### Numbers

`OutcomeSelection` is the loop of `select_outcome` over arbitrary digests, with the
width of the word as a constant; wrapping negation is taken modulo the word.

In `BoxCurve`, `curve` is the `BoxCurveState` account, `lamports` its balance, `held`
the boxes in its token account, `boxes` those anywhere else. The four instructions are
actions; `BuyAccepted` and `SellAccepted` are their checks beyond "the curve trades". The
limit a trader signs is not a parameter: a trade that misses it changes nothing. The
environment passes time, retires the lootbox, burns boxes, and gives boxes and lamports
to the curve's accounts, both before it exists and while it trades. `CurveTrade` adds
pages: a page prices from the view it has read (`curve.ts` repeats the program's
quotes), signs the price with its allowance, and the order lands on whatever the curve
has become.

### Prize pool

`pool` is `PrizePoolState`, `item[i]` the account of an item, `owner` and `flag` the
compressed tree (who owns a leaf; what its collection says of it), and `bundle`,
`template` and `opening` what the handlers read of the treasury. Leaf metadata, proofs
and hashes are abstracted to the leaf and its verification flag. `PoolFunding` runs
`fundPrizePool` and `cancelPrizePool` of the client in tabs: an iteration that reads,
decides and sends; refusals; landings that come late; the collection's authority that
toggles a flag in between.

### Relayers, claims, runs

In `Relay` each relayer reads the template, lists the openings, and walks them with one
transaction per step (`Walk`, `NextOpening`, `Advance`); the list is read at a weaker
commitment and may be behind (`Confirm`); a transaction lies in `wire` until it lands or
expires. `SettledQueue` knows only requests and results. `Delivery` takes a claim apart:
the mask, batches of what fits one transaction, a proof that may be too old, the item of
a pool. `Cron` is the run around them: the conditional update that takes the lease,
the cursor, one lootbox after the other, the two deadlines and the two budgets. Times are
kept as what is left of them, so that the state space is finite without a last time.

### The platform

`Storage` has the row of an upload, the bucket and what refers to a cover as separate
state, and lets every request and the hourly pass die between two calls. `Launch` has one
draft as the database keeps it, the saves and the requests to pin on their way, and the chain
reduced to how far a treasury has been built. Its `Browsers` are places where the wizard is
open: those with the same `StoreOf` are tabs of one browser and share the keys in its local
storage. `prepareIdentity` looks for keys, makes them and writes them in steps that its awaits
separate (`ReadKeys`, `WriteKeys`), so what one tab writes may replace the keys of another; a
request to pin outlives the launch that sent it. `Session` has the cookie jar that
tabs share, and nonces, sessions and drafts on the server. Only the debounce spaces the saves
of a wizard: they overlap, overtake each other, and outlive the page that sent them; the
server checks the cookie of a save (`SaveChecked`) and writes it (`SaveWrites`) at two
moments. `ManagePage` has the cache with the age
of what it holds, and a request that reads record and chain one after the other.
`OpeningPage` is the reducer of both sites (`App` says which) with the flows it started,
each an asynchronous function that continues after its await whatever the page has become.
What the page knows of the chain comes from reads of a wallet: the boxes and the unfinished
openings are answered at two moments (`BoxesAnswered`, `OpeningsAnswered`) and taken up at a
third, or the read fails and nothing is taken up. On the launch site several reads are under
way at a time, for whichever wallet they were asked, and the last to come back is what the
page knows; the end of a resumed opening asks for none. The platform drops all but its last.
`Airdrop` is the text field, the batch under way and the chain. `Staging` is the saved
draft or the form, the client's calls, and the chain's staged and live bundles.

## 3. What TLC checks

| run | question | scenes | properties |
| --- | --- | --- | --- |
| `Draw` | the program by itself: staged, minted, locked, opened, answered, forfeited, drawn, claimed, reclaimed in any order | | `TypeOK`, `Solvent`, `QueueExact`, `SelectionLands`, `ServiceCovered`, `AccountsExact`, `OutcomeFixed`, `TermsFrozen` |
| `Promise` | `Treasury` implements `BoxPromise`, its fairness included | | `PromiseKept`, `MissedDeadlineRecovers` |
| `Exhaustion` | an entropy with eight rejected digests | | `VerifiedIsAllocated` (violated) |
| `Market` | the numbers, and the pages that quote them | curve, draw, trader, desk | `PricesExact`, `BuybackGuaranteed`, `DeliveryGuaranteed`, `Uniform`, `PagesAgree`, `CreatorWaits`, `TradesSound` |
| `Pool` | the pool in the program, and filled by a client | program, retries, tabs | `PoolSound`, `LiveFromOneDraft` |
| `Race` | actors that act on a chain they read a moment ago | race, cached, tabs | `PassSound`, `PagesSound` |
| `Settling` | relayers implement the queue; claimers deliver a bundle once | relay, claim | `ClaimsSound`, `QueueKept`, `DeliveredInTheEnd` |
| `Opening` | the pages where boxes are opened | finish, site, panel | `OnEveryPage`, `EveryBoxOpensInTheEnd` |
| `Platform` | hosted runs; uploads against the hourly pass | relayer, images | `RelayerSound`, `StorageSound`, `EveryLootboxHasTurns` |
| `Wizard` | a launch from two browsers, from two tabs of one browser, and from one tab; sign-ins and saves | browsers, tabs (then crossed), alone, sign-ins, turns, draft | `PageIsTrue`, `TreasuryIsPinned`, `KeptTillThePage`, `StoredAsShown`, `SessionsSound` |
| `Staging` | how a treasury is filled | workshop, tabs, late, page, launch | `NothingLost`, `StagedEnds`, `LaunchEnds` |
| `Creator` | what a creator starts and must be able to end | airdrop, timeouts, persistent, pool, staged | `AirdropSound`, `ListIsServed`, `PoolsWindUp` |

What the properties say:

* `Solvent`: unopened boxes plus pending openings never exceed undrawn tickets.
* `QueueExact`: the counters describe exactly the waiting openings, without hole or
  duplicate.
* `SelectionLands`: any ticket a waiting opening may draw is owned by an active
  bundle of its own revision that has a copy left.
* `OutcomeFixed`: once verified at the head, nothing changes what an opening wins.
* `ServiceCovered`: the vault pays for every box.
* `AccountsExact`: unreleased copies are exactly those of winners and those undrawn, the
  escrow matches, a badge can be minted exactly as long as one is owed; every draw
  leaves its own receipt although opening addresses are used again.
* `TermsFrozen`: after the lock, or a retirement without one, no ticket, box or
  bundle is added and no prize changes.
* `PromiseKept`, `MissedDeadlineRecovers`: the refinement; and a creator who never locks
  cannot keep holders waiting.
* `PricesExact`, `BuybackGuaranteed`, `DeliveryGuaranteed`, `CreatorWaits`: the reserve is
  the sum of the sold positions and splitting a trade never pays; all of them can be sold
  back and all others bought; the creator takes from the reserve only when the sale is over.
* `Uniform`: every ticket is the result of the same number of words.
* `PagesAgree`, `TradesSound`: what a page offers is what the program accepts, and a trade
  costs what the page said within the allowance.
* `PoolSound`: leaves and items match one to one, bitmap and counts agree with the bundle,
  the announced manifest is what was deposited, and a winner can claim his item until he
  has the leaf announced at its place, also after the pool is closed.
* `LiveFromOneDraft`: a bundle goes live with the leaves of one draft, never a mixture.
* `PassSound`: a relayer that reports a failure had a cause for it, and one that reports
  an end has left nothing it could have done. `QueueKept`: relayers, stale views, late
  transactions and forfeits together implement `SettledQueue`.
* `ClaimsSound`, `DeliveredInTheEnd`: delivered once; a claim that returns has delivered all;
  and the winner gets all in the end.
* `PagesSound`: the manage page tells the age and time of the chain truly, labels name what
  is on it, and a lock covers every bundle.
* `OnEveryPage`: what the screen says of an opening is what the chain says, whatever reads
  and flows come back in whatever order.
* `EveryBoxOpensInTheEnd`, of the launch site: a holder who goes on pressing what the page
  offers, and loads it again when it offers nothing, opens every box and receives every
  prize, although reads show two moments, fail, or are not asked for. That he must load it
  again is a fact about the code (below); the property says that it helps, and that nothing
  on the page ever holds him up otherwise. The platform's panel does not have this property.
* `RelayerSound`, `EveryLootboxHasTurns`: two runs never send together, a recorded turn had
  budget; every lootbox gets its turn again and again although runs are killed.
* `StorageSound`: covers that are referred to are served, a launch keeps the cover it has
  read, no object lies in the bucket uncounted.
* `TreasuryIsPinned`: one treasury per draft, whatever browsers and tabs do at the same time.
* `KeptTillThePage`: some browser's storage has the keys of the pinned template until the
  launch has its page, so that it can be resumed there. It is checked for two browsers, which
  may look for keys at the same time, and for two tabs of one browser as long as they have
  not: from the moment both are between reading and writing keys (`TakeTurns` fails) the
  scene is `crossed`, and there the keys may be lost (below). The pin itself stays unique in
  `crossed` too.
* `LaunchEnds`: a launch with a pinned identity gets its page, from one tab whose launches
  follow one another.
* `PageIsTrue`: the page describes the treasury that was built, for a creator who waits
  (section 3 has what happens to one who does not).
* `StoredAsShown`: a signature opens one session; and "Draft saved" is true of a save that
  was sent when no other of its draft was under way, neither of this page nor of one that
  was left, through whatever is selected, signed in or out, reloaded or sent afterwards.
  Of saves that overlap it is not (below).
* `SessionsSound`: nobody is refused who signed in time; a save passes the check only with a
  session that is live at that moment and for its wallet, none passes it with a session
  whose sign-out was answered, and a draft changes only by a save that has passed it, for
  the wallet found then. A save that has passed it is still written (below).
* `NothingLost`, `StagedEnds`: a prize is in one place, always; what is live was asked for
  with its copies and prizes, by one draft in any tabs or by several in one tab (section 3
  has what two tabs with two drafts can do); a draft is kept as long as something depends
  on it; what is staged goes live or back.
* `AirdropSound`, `ListIsServed`: nobody gets boxes twice, the list is what is left, no run
  is dearer than shown; who keeps pressing the button has served the list.
* `PoolsWindUp`: a retired pool is closed although winners do not claim, and a staged one
  goes live or back.

### Bounds

`Draw` and `Promise`: `MaxTickets` 3 with two opening addresses: two openings show a pair
out of order, and as there are fewer addresses than tickets an address is used again.
`MaxBundles` 2 gives a prefix that stops before a bundle that is activated later. `Timeout`
1 and `OpensAt` 2 give a step before and after each deadline. Quantities of one and two
make the last copy differ from the first. `Draw` has a held prize and a badge,
`Promise` a token in escrow and a badge; `Draw` has receipts and bounty each on and
off and a donation that covers the whole budget. These bounds are constants in guards of
the code (`MAX_TEMPLATE_BUNDLES`, `MAX_PRIZE_ASSETS`, `MAX_TOTAL_WEIGHT`,
`RANDOMNESS_TIMEOUT_SLOTS`), so TLC also sees what happens at them. A box is spent by
every request, so sequences are bounded by `MaxTickets` without a further cap.

`Market`: the word is scaled to 36 lamports and the minimums to 2 boxes and 3 lamports,
with terms inside and outside all limits, among them one that only the fee pushes over the
word; the draw uses a word of 16 with bounds on both sides of its half (the program's are
all in the lower half). `MaxGift` bounds the lamports strangers leave in the curve account.
The pages are followed on a curve of three boxes, the fewest with a position in between:
`trader` is a page that buys and sells one or two boxes while another wallet does the same
and the creator opens flat and steep curves elsewhere, `desk` is the creator alone, who
plans, opens, trades one box at a time and closes, with a last price that the step does
not divide. `MCMarket` states these limits as conditions on the step, so what the run
checks are the properties of `BoxCurve`, `OutcomeSelection` and `CurveTrade` themselves.

`Pool`: two copies, three leaves and three openings: an item can be drawn, claimed,
forfeited before it is drawn, or reclaimed while its neighbour is not, and a leaf that was
given back can be deposited again at another position. One client sends at most two
transactions that land late; two tabs share one draft, and one flag toggles.

`Race`, `Settling`: two openings and two relayers, of which the browser stops at its own
opening; two bundles of one ticket each, so that the second draw depends on the first;
one transaction may land late in `Race` and none in `Settling` (late ones are left to
`QueueRespected`). Two claimers, three assets of which one is a pool's, one
failure and one move of the tree. `Platform`: two runs with a lease of 4, a duration of
2 and timeouts of 1, the smallest numbers with room between the limits, and budgets of one;
two images of one draft, one upload and one removal at a time.

`Opening`: in `finish`, two boxes of one wallet on the launch site, one bundle, no forfeit, and
a reload only when nothing is offered; in `site`, a wallet with a box and one without that take
turns, two bundles, forfeits and reloads at any time; in `panel`, two boxes of one wallet on
the platform, with forfeits, reloads at any time and flows that overlap. Two reads at a time
(`MaxReads`) on the launch site are the fewest that can come back in the wrong order; the
platform looks at one.

`Wizard`: `browsers` and `tabs` have a launch in each of two places, one edit, one fault and a
reveal time that is far; in `tabs` nobody goes back to an earlier step while a launch runs.
`alone` has one tab with two edits, two faults and a reveal time that comes near; there the
creator does not edit behind a launch and requests keep their order. Signing in: two tabs,
two challenges valid for two moments, each request sent once or twice; or two wallets that take
turns in a tab with a save under way at most; or one wallet with two drafts, two edits, saves
that overlap and sessions of one moment. `Staging`: a launch from one tab with one edit and
two faults. A treasury
is filled by one tab with three drafts of two bundles, where the first bundle of one can be
staged where the second of another was; by two tabs with two drafts; by one tab of which
one transaction lands late, with drafts whose second bundles have the same shape; and from
the form. `MCStaging` and `MCWizard` state these limits as conditions on the step (`Within`,
`OneTab`, `Only`, `Both`, `Stays`, `AtHome`), so the modules themselves have no such bound.

`Creator`: four lists (a wallet twice, a batch and a half, lines that are not
readable, more than there is), two recipients per transaction, one or two faults; no
confirmation times out in `airdrop`, two do in `timeouts` and one in `persistent`. A status
that cannot be read after a batch was submitted counts as a timeout, as in the client.
Recipients open accounts for boxes but do not close empty ones.

Every such bound is a constant of its module (`MaxLate`, `MaxFaults`, `MaxReads`,
`MaxEdits`, `MaxTyped`, `MaxTemplates`, `MaxDrafts`, `MaxToggles`, `MaxMoves`, `MaxTimeouts`, `MaxSpent`, `MaxOpened`,
`MaxTime`) and stops only the environment's action that it counts.

`CHECK_DEADLOCK FALSE` is set where somebody may rest: a page nobody touches, a tab or a
creator who does not go on, a queue that stops (`Exhaustion`). `Draw`, `Promise` and
`Platform` are checked for deadlock.

### Fairness

* `Treasury`: time passes, and permissionless instructions which stay possible are
  sent: retirement once the reveal time of an unlocked template is reached, forfeit,
  allocation, claims. Anybody may send the first three and gains or loses nothing by it; the
  relayer exists to send them. A claim needs no signature of the beneficiary either. Weak
  fairness is enough, because each, once possible, stays so until it is taken or its
  opening is settled by another one. Nothing is assumed of the creator, of holders or of the
  oracle: an oracle that never answers is covered by the forfeit.
* `Relay`, `Delivery`, `Cron`: relayers run again and again (the cron trigger, the page's
  poll), a request that is repeated for ever does not fail for ever, nor does a transaction
  somebody waits for always time out. Of `Cron` nothing is assumed about how a run ends:
  a lootbox may kill every run that walks it.
* `Staging`, `Launch`, `PoolFunding`, `Airdrop`: the person in front of the
  page goes on pressing what the page offers (finish, resume, cancel, send), and calls
  that are repeated succeed in the end. The properties say that this is enough: no
  reload, no other browser, no button that is not there. Strong fairness is used where
  the offer comes and goes with a reading of the chain.
* `OpeningPage`: the same, with a reload when the page offers nothing. Strong fairness is
  assumed of opening and finishing, which a read hides and another offers again, of
  some flow's success, and of some read's return: retried calls do not fail for ever.
  Everything else is weakly fair, and nothing makes a read ask again.
* `PrizePool`: the creator of a retired treasury reclaims what is undrawn and closes.

### Where code and documentation differ

`Exhaustion` is kept as a run: `docs/architecture.md:68` and `docs/security-review.md:36`
say that a deterministic fallback follows eight rejected digests and guarantees settlement;
`select_outcome` (`lib.rs:431`) returns `EntropyRejectionExhausted` instead. The opening
stays verified at the head of the queue: it cannot be allocated, and a verified opening
cannot be forfeited. By `MostWordsAccepted` and the size of `MAX_TOTAL_WEIGHT` against a
64-bit word its probability is negligible.

The others were met on the way. Each is a definition of its module, stated from the quoted
place and violated by the model; no configuration checks them.

| definition | code | what happens | what is said |
| --- | --- | --- | --- |
| `Relay.RaceIsProgress` | `sdks/typescript/src/relayer.ts:240` | after a lost race the next bundle is predicted from the old inventory, refused, and reported as failed | `relayer.ts:7` of the platform: "treats a race lost to the holder's browser as progress" |
| `OpeningPage.ShownPrizeIsRecorded` | `HolderPanel.tsx:142` | a forfeited opening is shown as a prize | `openingMachine.ts:22`: "a reveal of the already-recorded result" |
| `OpeningPage.ClaimedIsDelivered` (platform) | `HolderPanel.tsx:201` | the end of one claim announces another prize | `openingMachine.ts:174`: "delivered to your wallet." |
| `OpeningPage.EveryBoxOpens` (platform) | `HolderPanel.tsx:82` | after a claim the panel stays disabled until a reload | `HolderPanel.tsx:2`: "Everything a connected holder does" |
| `OpeningPage.DeliveredToYou` | `LaunchApp.tsx:826` | the next wallet is shown the prize of the previous one | `launch/openingMachine.ts:173` |
| `Launch.PageShowsTreasury` (saves overtake) | `create/draft.ts:172` | an older save arrives after the newer one and is what is pinned | `draft.ts:171`: "Launching must never race the debounce" |
| `Launch.PageShowsTreasury` (edits go on) | `create.tsx:310` | contents are edited behind a running launch | `draft.ts:114`: "Saves only while the draft is still editable" |
| `Launch.KeysOutliveLaunch` (two tabs of one browser) | `create/launch.ts:142` | both tabs find no keys, and the second to write its own replaces those of the template that is pinned: every resume is refused | `LaunchStep.tsx:60`: "come back and press Resume." |
| `Launch.PublishedIsFinished` | `api.lootboxes.ts:50` | a published draft stays in signing for ever | `api.drafts.ts:4`: "latest unfinished draft" |
| `Launch.LaunchEnds` (time passes) | `create.tsx:272` | a pinned launch that is resumed late can not be finished | `LaunchStep.tsx:60`: "come back and press Resume." |
| `Staging.AddedOnce` | `lootbox.manage.tsx:629` | a repeated addition starts at the new count and adds live bundles again | `docs/treasury-templates.md:42`: "resumable from chain" |
| `Staging.LiveAsPlanned` (two drafts; two tabs, or two late landings) | `client.ts:2470` | an asset for one draft is funded into a bundle that was staged for another in its place | `client.ts:2440`: "the staged append differs from this bundle" |
| `Staging.StagedHasDraft` (late) | `client.ts:2540` | a staging that lands late belongs to no draft | `client.ts:2541`: "is already complete" |
| `Staging.TemplateHasDraft` (late) | `playground.ts:1132` | a creation that lands late has lost its identity | `playground.ts:1173`: "not orphaned" |
| `PrizePool.CloseWaits` | `prize_pool.rs:963` | a pool closes while winners have not claimed | `docs/security-templates.md:28`: "waits until every assigned item is claimed or reclaimed" |
| `Delivery.LosersGoOn` | `client.ts:3640` | a lost race ends in a thrown refusal | `docs/prize-pools.md:167`: "instead of reporting a false failure" |
| `Delivery.AllDelivered` (retired) | `client.ts:3625` | the client cannot claim from a closed pool | `AUDIT-2026-09-21.md:169`: "Holder rights are fully preserved" |
| `PoolFunding.LiveAsPlanned` (two drafts; two tabs, or three late landings) | `client.ts:1797` | a bundle goes live with leaves of two drafts | `client.ts:1600`: "sealed PrizePool differs from this funding plan" |
| `Airdrop.NobodyTwice` (timeouts) | `AirdropCard.tsx:203` | a batch given up lands and is sent again | `AirdropCard.tsx:210`: "Retain only undelivered recipients" |
| `ManagePage.OnlyMissingRefused` | `api.lootboxes.bundles.ts:26` | labels of a bundle on chain are refused because of the cache | line 25: "only bundles that exist on chain" |
| `ManagePage.ExactlyTTL` | `chain-cache.ts:55` | a view is served longer than its time | `chain-cache.ts:7`: "exactly how stale" |
| `ManagePage.MintsShown` | `lootbox.manage.tsx:726` | the lock mints another number than shown | line 691: "will be minted now" |
| `ManagePage.LabelsKept` | `db.ts:274` | one of two simultaneous label writes is lost | `db.ts:267`: "Merge display labels" |
| `CurveTrade.GoesThrough` | `lib/curve.ts:85` | an order just after another is refused for its price | line 75: "still goes through" |
| `CurveTrade.SaysWhatItPaid` | `CurveMarket.tsx:159` | the message tells the old quote | the same line: "Sold ... back for ..." |
| `Session.SavedToYourWallet` | `create/draft.ts:127` | a draft is saved for the wallet of another tab's cookie | `create.tsx:331`: "saved to your wallet" |
| `Session.PicksUp` | `create.tsx:99` | a wallet that comes back gets an empty draft | `create.tsx:331`: "pick up where you left off" |

Three properties are narrower than what a reader of the code would hope for; where they stop:

* `EveryBoxOpens` on the launch site needs a reload. `refreshWallet` (`LaunchApp.tsx:634`) asks
  for boxes and openings separately, and `resumeOpening` (line 781) ends without it: a box
  burned in between, by another tab or by a burn that was given up and landed, is in neither
  answer, and a page with no box and nothing to resume offers nothing and reads no more.
  The same follows from a read that fails.
* `SavedIsStored` excludes saves that overlap. The debounce (`create/draft.ts:155`) waits for no
  answer, so an older save, of this page or of the one before a reload, can be written after
  a newer one, and "Draft saved" is shown for contents that are not stored.
* `SignOutEnds` is about the check. `POST /api/drafts` checks the session, then reads the body,
  then writes (`api.drafts.ts:45`, `:46`, `:74`), so a save that has passed is written even when
  the sign-out has been answered in between.

## 4. What is proved

Each theorem holds for every value of the constants that meets the named assumptions
(`BoundsAssumption`, `RelayAssumption`, `TermsAssumption`, `ServiceAssumption`, `CurveAssumption`,
`SelectionAssumption`, `TimesAssumption`, `LimitsAssumption`, `LaunchAssumption`,
`PoolAssumption`, `DeliveryAssumption`, `StorageAssumption`, `PagesAssumption`,
`SessionsAssumption`, `TradeAssumption`, `SettingsAssumption`, `BrowserAssumption`,
`FundingAssumption`, `FillAssumption`, `AirdropAssumption`), all of which TLC evaluates.
They say that bounds and prices are natural numbers in the ranges the program checks, that the sets of opening addresses, runs and
the like are finite and that names of different kinds differ, that a badge is won one at a
time, that lamports left in the vault beforehand, if any, are at least its rent minimum (as
the runtime demands), that no more openings are requested than there are tickets (for `Relay`;
`Solvent` is that fact about the program), and, for `Cron`, that a run's duration and a call's timeout are
together shorter than the lease, which is how the limits of `relayer.ts` are chosen.

| theorem | states | argument |
| --- | --- | --- |
| `TypeCorrect` | `TypeOK` of `Treasury` | one lemma per action |
| `AlwaysSolvent` | `Solvent` | inductive given types: minting checks it, a request moves one unit from supply to pending, a draw lowers both sides, a forfeit or a burn only the left |
| `QueueAlwaysExact` | `QueueExact` | inductive given types; the sequences are an interval with one opening at each place, and a step adds one at its end or removes one at its start |
| `ServicesAlwaysCovered` | `ServiceCovered` | inductive given types and `QueueExact`: the lock buys one service per box; each step uses up a box or an opening with the service it pays for |
| `TermsAlwaysFrozen` | `TermsFrozen` | by cases on the step; a bundle that is active has its slots funded, so no funding instruction accepts it |
| `SelectionAlwaysLands` | `SelectionLands` | `Inventory` ties `remaining` to the header's sum and to active bundles, `Turns` ties the revision and prefix an opening has stored to the bundles of today; a ticket below a sum lies in one of its parts (`Sums`) |
| `OutcomeIsFixed` | `OutcomeFixed` | at the head nothing that a step may still do touches the prefix the opening draws from |
| `AccountsAlwaysExact` | `AccountsExact` | `Slots` counts, for each funded slot, copies released, owed and undrawn against escrow and mint authority; `Filed` and `Issued` do the same for receipts |
| `PromiseRespected` | every step of `Treasury` is a step of `BoxPromise` or a stutter | `LineExact`: the sequence of waiting openings that the mapping builds is the one the counters describe; a request appends to it, a settlement takes its head |
| `TicketAlwaysExists` | `SelectionTypeOK` | a residue is below its modulus |
| `MostWordsAlwaysAccepted` | `MostWordsAccepted` | the band is below the bound and, for a bound above one half of the word, is what is left of the word |
| `DrawAlwaysUniform` | `Uniform` | adding a difference of tickets is a bijection between the accepted words of one and of the other |
| `ReserveAlwaysExact` | `IInv` of `MarketProofs` | the reserve is the closed-form cost of what is sold; needs that the closed form is additive (`CostAdds`), hence that n(n-1) is even (`TriangleExact`) |
| `BuybackAlwaysGuaranteed` | `BuybackGuaranteed` | a sale costs the tail of a prefix |
| `DeliveryAlwaysGuaranteed` | `DeliveryGuaranteed` | cost and fee are monotone, so the check of the whole inventory bounds every purchase |
| `CreatorAlwaysWaits` | `CreatorWaits` | by cases on the step, from the same invariant |
| `PricesAlwaysExact` | `PricesExact` | the closed form is the sum of the prices position by position (`RunningSum`), and fees rounded up are subadditive |
| `PagesAlwaysAgree` | `PagesAgree` of `CurveTrade` | from `TradeInv` below, with `BuybackGuaranteed` and `DeliveryGuaranteed` behind it |
| `TradesAlwaysSound` | `TradesSound` of `CurveTrade` | only the step that lands an order moves boxes and ends it; see below |
| `PoolAlwaysSound` | `PoolSound` | see below |
| `FundedPoolsSound` | `PoolSound` in every scene of `MCPool` | what any tab sends is one of the program's steps, with the leaf and flag of a draft; see below |
| `LiveAlwaysFromOneDraft` | `LiveFromOneDraft`, for one draft at most or no late landings | see below |
| `PassAlwaysSound` | `PassSound` | see below |
| `QueueRespected` | every step of `Relay` is a step of `SettledQueue` or a stutter | a draw that is accepted is `Select` of the tickets left, which `Queue` shows to be those of the results so far; a request adds one, a settlement appends one |
| `ClaimsAlwaysSound` | `ClaimsSound` of `Delivery` | see below |
| `ScreenAlwaysTrue` | `ScreenIsTrue` of `OpeningPage` in every scene | see below |
| `CronTypeCorrect`, `RunsNeverSendTogether`, `TurnsHaveBudget`, `RunsAreSound` | `RelayerSound` and its parts | until its deadline and the timeout of a call have passed, a run in possession is named in the row, and the row's time is its own plus the difference of the limits |
| `StorageAlwaysSound` | `StorageSound` of `Storage` | see below |
| `PagesAlwaysSound` | `PageSound` of `ManagePage` | see below |
| `SavesAlwaysTrue`, `SessionsAlwaysSound` | `StoredAsShown`, `SessionsSound` of `Session` | see below |
| `LaunchTypeCorrect`, `OneTreasury` | `TypeOK`, `TreasuryIsPinned` of `Launch` | what a flow builds was pinned before it began and pins never change |
| `KeysAreKept` | `KeysOutliveLaunch` of `Launch`, if `TakeTurns` always holds | see below |
| `PageAlwaysTrue` | `PageIsTrue` of `MCWizard` | see below |
| `StagingAlwaysSound` | `NothingLost` of `MCStaging`, but for late landings among several drafts | see below |
| `AirdropsAlwaysSound` | `AirdropSound` of `MCCreator` | see below |

`TreasuryProofs` gathers the actions that leave a counter alone in `QuietStaging`,
`QuietOpening` and `QuietRest`, so each invariant is shown for them once;
for the accounts, what leaves the openings alone is gathered in `Prepares`, `Reclaims`,
`Answers` and `Idles`. Hardly any of these invariants is inductive alone: that the opening paid for was
counted needs the queue to be exact; that a draw lands needs `Inventory` and `Turns`; that the
escrow is exact when a bundle becomes active needs it of funded slots before.

`PoolSound` is proved from

```
IInv == TypeOK /\ Quiet /\ Counted /\ Filling /\ Sealed /\ Closed /\ LeavesBacked
          /\ WinnerGetsAnnounced
```

(`Placed` is the conjunction of the middle three). `Counted` says that the counts of treasury
and pool are those of the openings and that no two draws took the same item, without
which an assignment could take a bit that is set. `Filling` describes a pool that is being
filled, item by item, with the hash chain of what came before; only with it does the seal
make the manifest true. `Sealed` says what is left of each item: it waits for a draw, or
its winner does; and `Closed` that what outlives the pool is owed. One lemma per
instruction (`PrepareKeeps` to `CloseUsedKeeps`) shows that it keeps all of it.

For the client, `TabsWork` says once what all its steps have in common: a tab that is at
work goes on, or sends a transaction, with what its draft says, or its draft is done with.
`LiveFromOneDraft` is then proved from

```
Funding == Clients /\ (Single \/ OneTab) /\ (NotBegun \/ \E P \in asked : UnderWay(P))
```

`UnderWay(P)` says that every tab at work, every transaction that may still land, every
item of the pool and what was sealed are of the draft `P`. With one draft (`Single`) nothing
else can come in, however many tabs share it and however many transactions land late; with
one tab that awaits each of them (`OneTab`) a draft is only done with when the bundle is
live or nothing of it is left. The theorem has this as its hypothesis, because beyond it
the property is false: with two tabs, and with one tab as soon as three transactions land
late (the reclaim of an item that was checked already, the preparation and the deposit of
an older draft in its place), a seal can follow that mixes two drafts. The run has two drafts
and two late landings in one tab, where TLC finds no mixture.

`PagesAgree` and `TradesSound` are proved from

```
TradeInv == TradeAssumption /\ IInv /\ TradeTypeOK /\ PlanOpens /\ Signed
```

`IInv` is the invariant of the curve, which every step of the pages keeps, whatever the
terms. From it follows that a curve that trades sells every box it has left and buys back
every one it sold, so that the button, which only looks at prices and numbers, promises no
more than the program keeps. `Signed` says that the limit of an order is the shown price with
its allowance; the program's comparison with that limit does the rest. For
`affordableCurveBoxes` the recursion over rounds is first shown to have a solution
(`AffordExists`), by the least number of rounds for which there is none; then each round
keeps that the lower end was affordable and the one above the upper end was not
(`AffordKeeps`). That prices grow with the number of boxes is not needed.

`PassSound` is proved from

```
IInv == Typed /\ Queue /\ Earlier(confirmed...) /\ (\A t \in wire : Vouched(t))
          /\ \A r \in Relayers : Earlier(view...) /\ Position(r) /\ Knows(r) /\ Honest(r)
```

`Earlier` says that what was read is the chain of an earlier moment: it lists openings in the
order of their requests, and each status in it has only grown since. So what a pass left
behind needs no work now (`Position`, hence a report of an end is true), and whatever precedes
the opening it works on has settled: if that one has not moved, it is the head
(`WorkIsAtHead`). `Knows` says that a relayer nobody overtook has the inventory of the chain,
and `Vouched` that a transaction somebody waits for is the one its sender would send again;
together a refusal without a fault means that the opening moved on (`Refused`), and so a
failure that is reported has a cause. `Queue` is the chain's part: the openings before the
head are settled, the tickets left are the stock without those drawn, and there is one for
every opening to come.

`ClaimsSound` is proved from `IInv` of `DeliveryProofs`. `Fits` is its core: an attempt after
the first starts from a larger mask than the one before, so a claim has made at most as many
attempts as the mask it read last has assets, and the limit is not reached before the mask is
full; a batch that was confirmed put an asset into the mask; an item that is gone was
delivered. `Flying` adds that a transaction somebody waits for is the one its claimer has just
sent. The groups of a walk are not disjoint from the mask, since the walk may read it again:
it is the program's refusal of a bit that is set on which `DeliveredOnce` rests.

`OnEveryPage` is proved from `ScreenInv` of `DeliveryProofs`, about `Of(s)`, the page in setting
`s`; the settings of the scenes are constants, so there may be any number of reads under way.
Openings only move on (`Onwards`), so a result that the reducer holds stays the one drawn
(`Drawn`), and a read that was answered "allocated" (`Reading`) may come back at any time: the
page that remembers it may still show the prize (`Remembered`). `OneClaim` is what the launch site adds and
the platform lacks: while it shows a claim, the only flow is the claim of that opening, so the
one that comes back is the one announced; a flow that outlives a change of wallet finds the
reducer in another phase.

`StorageSound` is proved from `ImagesInv` of `PlatformProofs`. `Kept` is the promise: what a
draft or a page names is ready, and what is ready is in the bucket. It survives a deletion
because the row is fenced first, under the conditions of the SQL statements that nothing
refers to the key, and from then on no write may name it (`Fenced`); the object goes next and
the row last, so no object is left uncounted whichever call is the last. It survives an
upload because its key is its own, pending, and unknown to everybody until it has ended
(`Uploading`): an upload that died is reached only by the pass, and only after a week, when
nobody sends to it any more. And a launch that has read a draft finds it pinned, so its cover
stays referred to until the page refers to it (`Launching`).

`PageSound` is proved from `PagesInv` of `RelayProofs`. A view is of the past wherever it is
(`Past`): in a read that rests, in the cache, on a tab. A read takes `MaxRead` at most and a
cached view is handed out for `TTL`, so an answer is younger than both together (`Reads`,
`CacheSound`). A label that is on its way names a bundle that its tab saw confirmed before it
sent the label (`Describes`), and the bundles of the chain are only appended to, so it still
does when it is written; a save is on its way exactly while its tab waits (`Saving`), so what a
tab takes up after it is the next step of its own run. The treasury needs only that
a lock mints what is missing.

`KeysAreKept` has a hypothesis: `Spec /\ []TakeTurns => []KeysOutliveLaunch`. No launch looks at
the keys again before it writes its own, so without `TakeTurns` the conclusion is false
(the scene `crossed`). With it, a launch that makes keys still finds the storage
as it was when it looked, empty, until it writes them (`NewKeysFit`): no other launch of that
browser can have written in between, and what is forgotten is forgotten after the page. So
nothing is overwritten, and each template that is pinned, or that a request on its way
asks to pin, whoever still waits for that request, has its keys in some storage
(`PinsAreHeld`). That keys are forgotten only after the page is `MarksHavePages`. How many
tabs share how many storages does not matter.

`PageIsTrue` is proved from `WaitInv` of `LaunchProofs`, about `Waits`, the launch without edits
behind it and with requests in order, used from the browser `b1` alone. Contents only move from
the screen to the draft (`DataInOrder`), so once the save of the launch is served, every save
still under way has the contents it has (`Saved`): here the order of requests is needed, and
that a save is waited for by one flow (`SavesAreAwaited`). A request to pin is waited for by the flow that sent
it, and is for its template (`PinsAreAwaited`). From the pin on the draft does
not change, nor does the screen, through reloads too, and what is staged, read and
inserted is the draft (`BuiltAsPinned`). Every step of `Waits` is a step of `Launch`, whose
types and pins (`FlowsArePinned`, `BuiltIsPinned`) are proved already.

`StoredAsShown` and `SessionsSound` are proved from `Sound` of `LaunchProofs`. `OneUse` says
that a request which has consumed its nonce is the only one with this nonce and that its
session is still to come, and that a nonce once spent (used, or its row gone) stays spent: so
of two copies of a message one inserts a session. `Dated` says that a message carries the
dates of its nonce, which were true when it was issued up to the drift of the wallet's clock:
so the bounds of `checkSiwsFields` refuse no message that has not expired. A save carries
the wallet its check has found from then on (`OnlyCheckedInSession`); it is all the upsert
looks at, so a draft stays with its wallet (`DraftsStay`); and a sign-out deletes the session that the
requests with its cookie would be checked against (`SignedOutForGood`). `Shown` and
`Saving` say that a wizard is shown to the wallet that is signed in only, and that an answer
for which somebody waits is for the wizard with the id of its draft. With one tab and one
wallet, of a save that was sent alone (`alone` remembers that no other of its draft was under
way) either it is still the only one, or it was written as it was sent and nothing of the
draft is under way: this is `Stored`, and it makes "Draft saved" true of it. The lemmas are about `Of(T, W)`, a session
of the tabs `T` and the wallets `W`; the theorems state the properties for the two instances
that the run walks, whose tabs and wallets are constants, and for the run's specification.

`NothingLost` is proved from `StagingInv` of `PlatformProofs`, which has three parts, one for each
thing promised. `FillTyped` holds whatever is sent, and by whomever: each kind of transaction
moves a prize or leaves it (`LandsAs` lists what one does to the chain), so a prize stays in
one place. `ForOneDraft` holds as long as there is one draft, in any number of tabs and with
any late landings: what a tab sends is what its plan asks at that position (`SentFor`),
so what is staged is (`StagedFor`), and as the program takes no prize twice a bundle that is
full has all the planned ones, by counting (`FullIsPlanned`), in whatever order they came.
`Alone` is the invariant of one tab of which nothing is late, with any number of drafts: what
it has read of the template is still so (`HasRead`), and it forgets its draft only where
nothing is staged (`IsAt`), so what is staged is for the saved draft. That is more than
can be said of several tabs: one of them can fund, for a draft that another has cancelled,
the bundle which that one has staged for its next. For one tab and several drafts one late
landing is not enough for this and two are; that boundary, of the scene `late`, is left
to TLC, and the theorem says so.

`AirdropSound` is proved from `HandOutInv` of `MarketProofs`. A run works through the list it
was given (`WorksThrough`), wallet by wallet, so what arrived and what is left of the list
add up to what was pasted (`ListKept`), and at most the batch that is waited for can still
land (`WireIsOld`, `NothingElse`). An estimate was right for the accounts of an earlier
moment (`CostIsOfBefore`), accounts are only ever opened, and so no run is dearer than
shown (`ChargedFor`). The list is read by the library's fold, which is defined with a
recursive function over subsets of positions: `Reader` is shown to exist, as the sums are,
by the smallest set for which an equation fails, and reading line by line follows
(`RecipientsByReader`). The batches of the rest of a list are the rest of its batches
(`RestOfBatches`), which is what the text field is set to when a run stops.

`Sums` shows what the library's `SumFunctionOnSet` computes. The induction theorems of the
library take an operator as a parameter and cannot be used here, but that strict inclusion
is well-founded on the subsets of a finite set is a plain fact: the sets for which an
equation fails have a smallest member, and it has none. So sums over data are in reach;
recursive operators are not, and the modules with theorems use none.

Only model-checked:

* liveness and fairness, which the prover does not treat: `MissedDeadlineRecovers`, the
  fairness of `PromiseKept` and of `QueueKept`, `DeliveredInTheEnd`, `EveryBoxOpensInTheEnd`,
  `EveryLootboxHasTurns`, `StagedEnds`, `LaunchEnds`, `ListIsServed`, `PoolsWindUp`;
* what holds within a bound of the environment and not beyond it: `LiveFromOneDraft` with two
  drafts and two transactions that land late, and the live bundles of `NothingLost` with
  several drafts and one;
* `KeptTillThePage` in the scene `browsers`, whose browsers have a storage each: the theorem
  covers it wherever `TakeTurns` holds, which there it does because each has one launch;
* `MissedDeadlineRecovers` aside, that nothing gets stuck: the deadlock checks.

## 5. Not modelled

* Overflow of the treasury's `u64` counters: the arithmetic is checked and an
  overflow fails the instruction. `BoxCurve` models it, because there a promise
  depends on it not happening.
* Balances of beneficiaries and of the creator. The runtime refuses a payment
  that leaves an account between zero and its rent minimum, so a bounty or a
  fee to an empty account can fail an instruction; see the hazards.
* Failure of one instruction in a transaction of several: the runtime rolls back.
* Collection prizes and exclusive NFTs: other deliveries of a slot; the trait derivation
  is hashing. `issuer_stock.rs`, migration and dispatch keep no protocol state.
* The oracle: `FulfillTemplateOpen` takes any value at a later slot.
* Building of instructions, decoding of accounts, generated clients, and the helpers that
  compute odds, budgets, templates of prizes and costs for a form.
* The workspace around the playground (`App.tsx`), forms, layout, animation, and the
  promotion material.

## 6. Plan

Left to model: collection prizes, that is the delegation of each asset from funding to
claim or reclaim.
