# MetaNodePledge: a verification project

MetaNodePledge is a fixed-term lending protocol. Lenders put a *settle token* into a
pool, borrowers a *pledge token*; at a set time the two sides are matched, and at the
end collateral is sold to repay the loan. The money and every rule about it are in the
Solidity contracts of `src/pledge-contract`; `src/pledge-backend` (Go) copies the chain
into a database for `src/pledge-fe`, the web application, which has pages for lending and
an exchange derived from a Uniswap interface. This directory holds TLA+ models of the
three, the TLC runs that check them, and proofs of theorems about them.

    tlc -workers 2 -config MCPledgePool.cfg MCPledgePool.tla
    tlapm PledgePoolProofs.tla

## 1. The system

| component | state | operations | status |
|---|---|---|---|
| lending pool: `PoolStorage.sol`, `PoolLendBorrow.sol`, `PledgePool.sol` | pools, a lend and a borrow position per pool and user, address arrays, configuration, token balances | create, deposit, settle, refund, claim, finish, liquidate, withdraw, emergency withdrawal, setters | modelled |
| wallet, version 1: `MultiSignature.sol` | transactions, confirmations, ether | submit, confirm, revoke, execute, receive | modelled |
| wallet, version 2: `MultiSigWallet.sol` | list of owners, applications with lists of signatures | transferOwner, createApplication, signApplication, revokeSignApplication, getValidSignature | modelled |
| `MultiSigClient.sol` | the wallet's address | validCall, the guard of every administrative function | its question to the wallet |
| `AddressArrayLib.sol` | - | addAddress, removeAddress, contains | as the wallet uses it |
| `DebtToken.sol`, `AddressPrivileges.sol` | SP and JP balances, minters | mint, burn, addMinter, delMinter | balances only |
| `Oracle.sol` | aggregators, decimals, manual prices | setters, getPrice | as a changing price |
| scheduler (`pledge-backend/schedule`) | MySQL rows, Redis digests and token records | jobs that copy pools, prices, symbols, logos | modelled, but for the PLGR price it sends to the oracle and ABI files |
| price feed and websocket server (`api/models/kucoin`, `api/models/ws`) | channels, a map of sockets | feed, broadcast, read, write, heartbeat | not modelled |
| backend queries, login, multi-signature record | MySQL rows, tokens | request handlers | not modelled |
| lending pages: deposit form, claim and refund rows, home table, header, order lists, faucet | React state, module-level arrays | handlers, effects, timers, calls of the pool | modelled |
| multicall (`state/multicall`) | results per chain and call, fetches in flight | subscribe, fetch, retry, cancel, reduce | modelled |
| transactions, block number, popups (`state/transactions`, `state/application`) | Redux slices, part of them persisted | poll, finalise, announce, expire | modelled |
| token lists (`state/lists`) | lists by url, versions, pending updates | fetch, accept, announce | modelled, without the unreachable list selection |
| exchange: swap, add, remove, positions, token search, settings | Redux slices and modal state | inputs, approvals, permits, confirmations, wallet answers | modelled; of the token search the choice by address |
| wallet session (`useAuth`, connectors) | - | decided by web3-react | as a chain that changes |
| mocks, tests, deployment scripts, generated bindings, layout | - | - | not modelled |

How they interact: an administrator applies to the version 2 wallet for the pair (itself,
contract), owners sign, and from then on the contract's `validCall` functions accept the
administrator. The pool reads prices from the oracle, mints and burns SP tokens (a lender's
claim) and JP tokens (a borrower's claim on the collateral), and sells collateral through a
DEX router. The backend's jobs read the pool, the oracle and the tokens, and write Redis and
MySQL, from which the frontend is served pools and tokens; the frontend reads and calls the
contracts itself as well. The version 1 wallet stands alone.

What makes it hard. On the chain, a transaction is atomic, but users, keepers and
administrators order their transactions as they like; prices move between any two of them;
every amount is a truncated quotient; several pools pay out of one balance; SP and JP tokens
change hands; a wallet's callee can call back and can fail; ownership changes between two
signatures. Off it, answers come late, twice, in another order or not at all, from a chain
that was left meanwhile; an effect runs after the state it looks at changed again; a dialog
stays open while what it shows moves on; a page is reloaded with half of its state; a job
overlaps with itself, and of two stores it writes one write fails. `PROJECT.json` lists each
hazard at its line.

## 2. Modules

| module | role |
|---|---|
| `PoolMath` | the arithmetic of settlement, repayment, sale, fees and shares, as operators on naturals |
| `PledgePool` | the pool contract: one action per external function that changes state |
| `PoolProperties` | what is promised of `PledgePool` |
| `PledgePoolProofs` | theorems: the arithmetic, the course of one pool, the lenders, the pause |
| `PoolSolvencyProofs` | theorems: the books, solvency and the backing of SP and JP tokens |
| `SumProofs` | lemmas about sums of a function over a finite set |
| `MCPledgePool` | instances for TLC |
| `MultiSignature`, `MCMultiSignature`, `MultiSignatureProofs` | the version 1 wallet, its instance, its theorems |
| `MultiSigApproval` | abstract specification: approval by a set of owners |
| `MultiSigWallet`, `MCMultiSigWallet`, `MultiSigWalletProofs` | the version 2 wallet, its instance, its refinement of `MultiSigApproval` |
| `LendingForm`, `OrderRow`, `HomePage`, `OrderList` | the lending pages: the deposit form (`Coin_pool`), a row that claims, refunds or withdraws (`ClaimTime`, `Refund`, `AccessTab`), the home table under the header, the order lists with the faucet |
| `MCLendingApp`, `LendingAppProofs` | the lending pages, for TLC; theorems about them |
| `Multicall` | batched reads of contracts |
| `Transactions`, `BlockFeed` | block number, transactions and popups; `BlockFeed` is the abstract specification of the block number |
| `TokenLists` | token lists and their updates |
| `PoolMirror`, `TokenMirror` | the backend's jobs, the rows of a pool and of a token |
| `MCNetwork`, `NetworkProofs` | what copies the chain, for TLC; theorems about the frontend's stores |
| `SwapPage`, `AddPage`, `RemovePage`, `Positions`, `TokenSearch`, `Settings` | the exchange |
| `MCExchange`, `ExchangeProofs` | the exchange, for TLC; theorems about it |

### PledgePool and the code

An external function is an action whose guard is the conjunction of the function's
`require`s and of those of the calls it makes; a call that reverts is an action that is
not enabled. `validCall` functions are enabled for a caller the wallet approved.

| variable | code |
|---|---|
| `pools`, `lendInfos`, `borrowInfos`, `poolCounter` | the mappings of `PoolStorage.sol` |
| `lenders`, `borrowers` | the two address arrays; a user's number of entries stands for the entries, since only membership and the sums of `_calculateTotals` depend on them |
| `config` | fees, minimum, pause flag, and whether oracle, router and fee address are set |
| `balance` | the contract's balance of each token |
| `debt` | balances of the SP and JP tokens, which their holders may transfer |
| `price`, `now` | what the oracle answers, `block.timestamp` |

Left out, because nothing reads them: the pool fields `creator`, `borrowAmount`,
`autoLiquidateThreshold`, `lendAmount`, the lender's `interestAmount` and `settled`, the
default debt token of `setDebtToken`. The ETH branches of the transfer functions cannot be
reached by a pool, since `createPool` refuses the zero address as a token. `nonReentrant`
and ERC20 tokens without hooks make each call atomic. Overflow of 256-bit products is not
modelled: amounts are naturals.

A direct `createPool` (`BareTerms`) makes a pool without SP and JP tokens and times as
given; `createPoolInfo` (`PoolTerms`) sets them up in one call. The router is an exchange
rate chosen at each sale: `getAmountsIn` rounds the input up, the swap pays what it quoted.

### The wallets and the code

`MultiSignature` keeps the transactions, the confirmation mapping and the ether. `execute`
is split where it calls out: the state changes before the call and the transfer of the
value are one action, and the call ends in `Return` or `Fail`. In between, owners that are
contracts may act, as the callee or from it. A failed call restores what `calls` saved.
Target and data of a transaction are not modelled; the callee may do anything.

`MultiSigWallet` keeps lists, as the code does: `removeAddress` moves the last element into
the gap. Its refinement mapping turns the lists into the sets of `MultiSigApproval`, and
`validCall`'s answer into its `approved`.

### The frontend and the code

JavaScript runs one callback at a time. So an action is what runs to completion: an event
handler up to its first `await`, the rest of it when the promise is answered, an effect, a
timer. A closure keeps the values it was made with: a pending call carries what its
continuation will use, and actions say whether they read the closure's value or the current
one. Effects run after every render in which a dependency changed: where nothing can come
between, the effect is part of the action that caused it, and where something can (a
response in the same tick, a debounce) it is an action of its own.

- `LendingForm`: `form` is the state hooks of `Coin_pool`, `calls` the approvals and deposits
  in flight, each with the stage it has reached. The deposits' `require`s decide whether one
  is mined. A request for the pool that fails leaves what was there. In `OrderRow` the effects
  without a dependency list make every render ask the contract what is still open: `asked` are
  the questions with the chain and the balance of the render that asked, `answers` come in any
  order, and a read that fails is not handled. The row stays when the wallet changes chain or
  account (`Reconnect`), and then asks the pool of its number there. `HomePage` joins the table of
  pools with the header's switch of chains, in which the wallet's change (`Switched`) and the
  promise's answer (`SwitchAnswered`) are two steps; a failed request renders nothing. `OrderList`
  keeps the arrays that outlive a visit of the page, and the visits that still push into them; a
  timer sets the number of its own render plus one, and React draws only if that is another.
- `Multicall`: `callResults` is the reducer's state, `fetches` the promises of `retry`,
  `cancelled` those the updater has forgotten. Return data is abstracted to the block it was
  read at. `MULTICALL_MAX_CALLS` chunks become `ChunkSize`.
- `Transactions`: `feed` and `feedDebounced` are the updater's state and its debounced copy,
  `receiptQueries` the unanswered `getTransactionReceipt`s. A reload keeps what
  `PERSISTED_KEYS` names.
- `TokenLists`: a version is a number, `majorOf` its major part, `Breaking` those a minor
  upgrade does not fit.
- `SwapPage`, `AddPage`, `RemovePage`: the slice of the store, the modal's `useState` object,
  and the calls with the trade, amount or signature they were made with. Prices, balances and
  allowances change at any time. The best route is an answer of the environment, described by
  a rate and an impact. In `RemovePage` an amount is typed as a percentage, in liquidity or in
  either token; of a token it is a part of `worth`, which follows the pair's reserves.
- `Positions`: pairs come from the user's state, from `PINNED_PAIRS` and from every token
  against the bases of its chain; the cards wait for every balance (`v2IsLoading`).
- `TokenSearch`: a token may be in the list, be the user's, both or neither. What useToken asks
  of a contract is fetched once (`NEVER_RELOAD`): `contracts` says whether it was asked for, is
  being fetched, was read, failed or was cancelled, per chain.
- `Settings`: a tolerance is counted in `BIP`ths of a bip, since the field holds a percentage and
  the store a hundred times as much, both binary fractions. `timesHundred` and `overHundred` are
  those products, off by at most a unit; `basisPointsToPercent` and `calculateSlippageAmount` are
  what swaps and the liquidity pages make of the stored one.

### The backend and the code

`PoolMirror` has one pool and any number of overlapping runs of `UpdatePoolInfo`: every read
of the node, of Redis and every write of Redis and MySQL is a step. A digest stands for what
it is taken of. `SavePoolBase` writes the time into the very structure the next digest is
taken of: a digest of that equals no other (`stamped`). `TokenMirror` has one token, whose
Redis record the price, symbol, logo and pool jobs read and write in separate steps. MySQL
statements fail, with the error logged as the code does; a restart begins with
`RedisFlushDB`. Redis itself does not fail. The pool job and the price job are started every few
minutes whether or not they have ended, so runs of each overlap; the oracle's prices are numbered
in the order it had them, so that an older one is seen to replace a newer.

## 3. Runs

| run | question | instance |
|---|---|---|
| `lending` | Is the contract solvent, are claims covered, do lenders get their deposit back, is a settlement final and collateralised? | 1 pool, 2 users who each lend and borrow, 2 prices, 2 exchange rates, 10% fees |
| `two_pools` | Do pools that trade the same tokens in opposite directions stay out of each other's money, and is everything owed paid in the end? | 2 pools, 1 user, collateral that covers the debt |
| `administration` | From a contract with nothing but its swap router, with every setter at any moment and pools from `createPool`: do the books of positions and supplies agree, and what does a pause freeze? | 1 pool, 1 user |
| `wallet_v1` | Does each transaction pay once and by a quorum, through callbacks and failures? | 3 owners, 2 of them contracts, a stranger, 2 transactions, nesting of 2 |
| `wallet_v2` | Does the list-based wallet implement approval by a set of owners? | 3 accounts, 2 seats, threshold 2, 2 contracts, 2 applications each |
| `lending_app` | Do the lending pages show what is the case: steps, spinners, pools of the right chain, orders once each, no payment offered twice? | 2 chains; the form with 2 calls and 1 switch, the home page with 2 moves, 1 component of a row at a time with 3 clicks and reconnections (1 for `ClaimTime`), lists of 3 visits, 1 faucet call |
| `network` | Do the frontend's and the backend's copies of the chain never go back, and become current in the end: contract reads, block number, transactions, lists; pools, prices? | 2 chains, 2 calls, 3 fetches, 3 blocks; 2 overlapping runs of the pool and of the price job, 1 failure or restart |
| `exchange` | Is what is sent what the user agreed to, does every attempt end and show its own outcome, are positions and tokens found once, do the settings say what is used? | 2 rates, 2 swaps, 2 supplies, 2 removals, 1 permit, 2 units held of each token supplied (`Holds`); 2 chains, 5 tokens |
| `healthy_liquidation`, `refund_or_loan`, `underwater_loan`, `blocked_impact` | Does the program do what its documents, messages and comments say? | violated, see section 5 |

Deadlock is not checked: a pool whose users have been paid, a wallet at its bounds, and a
page nobody touches have nothing left to do.

`MCLendingApp`, `MCExchange` and `MCNetwork` explore one page or part at a time while
the others rest. This loses nothing: the router mounts one page at a time, pages start from their
hooks' initial values, slices are disjoint, and each module lets what it shares with others
(the wallet's chain, the page's visibility, a token's information) change at any moment.

**Bounds.** A year is two ticks, a loan runs for one of them at 100%, so interest is half the
principal and not lost in truncation; four ticks reach one past the end, when
finished pools pay out. `administration` stops at three, so only liquidated pools pay out in it. `LendAmounts` and
`PledgeAmounts` give supplies above and below what the other side covers, so settlement
takes both branches and truncates in each; two users suffice for truncated shares of one
pot to compete. A settle token is worth two or four pledge tokens (`MCPrices`), which against
a liquidation rate of 1.3 and a pledge rate of 1.5 crosses the threshold, and leaves
collateral of which a fee of 10% is not truncated away; the lenders' fee is paid where the
rate of 1:2 makes the sale bring more than is due. In the other runs of the pool both tokens
are worth the same. `MaxRedeem` covers the tokens one user can hold. In the wallets, three
accounts are the fewest for which removing a middle entry of a list matters, nesting of two
is the least in which an inner execution fails and the outer returns, and the reverse.

In the frontend, two chains are the fewest of which one can be left and returned to, and two
calls in flight the fewest that overtake each other; the counters (`MaxCalls`, `MaxSwitches`,
`MaxMoves`, `MaxVisits`, `MaxEvents`, `MaxSwaps` ...) bound how often users and
wallets act, each at least at what a violation of the mutants needs. `MaxFetches` of three is two chunks and one
late answer; `Infinity` is any number past the last block. Three blocks with a check
interval of two after ageing let a check be missed. Four list versions hold an update accepted unasked,
one that breaks something and a major one. Two runs of the pool job, or of the price job, are the fewest
in which an older one writes last, and one change of the pool or the price is all that is to be mirrored;
one failure or restart may come at any step, and what heals one, expiry, does not depend on how many there
were. Beside the scheduled run of the price job at most two others are under way (`MaxAlongside`). One component
of a row is followed at a time: each has its own state and asks for itself, and what one is paid the others do
not read. Three clicks and reconnections (`MCRowMoves`) are a payment on one
connection and its return to it; `ClaimTime`, which asks twice per render, is given one. The user's other
positions are fresh or paid out. The order page's lists are left with at most two requests unanswered
(`MaxLate`): one that comes late, and one that fails or comes later. `Worths` gives a token of which the liquidity is worth less and more than
what is typed. With eight units to a bip, `MCTolerances` has 0.29%, whose product falls short of 29 bips,
0.125%, which is no whole number of bips, and the limits of risk and validity. On the first chain two tokens
are bases, one pair of which is pinned in the unsorted order.

**Symmetry** is used where users are interchangeable (`lending`, `wallet_v1`'s contracts) and only
with safety properties.

**Fairness.** Contracts run only when called. In `FairSpec` (runs `two_pools` and
`underwater_loan`) weak fairness of `Tick` says blocks are produced; of `Advance(p)`, that somebody
makes the call that `checkoutSettle`, `checkoutFinish` or `checkoutLiquidate` says is possible; of
`Collect(p)`, that users fetch what a call would give them. Nobody is assumed to deposit or to
call an administrative function. `underwater_loan` fails in spite of this fairness: the calls
are not enabled. In the frontend no user is assumed to do anything: React runs effects after
renders and timers fire; requests are answered, with data or an error, `retry` ends, blocks
arrive; what was confirmed is estimated, and the wallet answers it. A read of a contract ends
read, failed or cancelled, and nothing says which. Only the home page, which asks again and again
while it can, is granted more (`SF` of `getPoolInfoHome`): a request repeated for ever does not fail
for ever; that its polling ends at a failure remains possible, and is excepted. In the backend the
scheduler starts the pool and the price job again, a job that was started ends, and Redis drops what has
expired; the symbol and logo jobs need not run at all.

**Mutants.** Operators named `X_Something` after an operator `X` are wrong versions of it; the table in
`PROJECT.json` says which property each of them breaks.

## 4. Proofs

Every safety property a passing run checks is also a theorem. Two devices recur. An induction theorem takes
a predicate, which none of the provers instantiates; where a proof needs induction, the set of
counterexamples is shown empty because it would have a minimal member (`SmallestSubset` and `EveryNat` of
`SumProofs`, `LeastOfNat` of `MultiSigWalletProofs`). And each module of theorems first reduces a step of
the whole to a few shapes of step (`EveryStep`, `PagesStep`, `ExchangeStep`), so that an invariant is proved
once per shape.

### The pool (`PledgePoolProofs`)

For all users, tokens, terms, prices, exchange rates and fees, from the assumptions in `PledgePool` and
`PoolMath` only:

- `TypeCorrect`: `[]TypeOK`. Inductive with `TInv`, which adds `TermsSane`: a pool that exists has real
  tokens, the minimal pledge rate and ordered times. Without these the quotients and differences of
  settlement and sale have no type.
- `SettlementStaysBounded`: `[]SettlementBounded`, even with `setPoolState`.
- `SettlementNeverReopens`: `SettlementFinal`.
- `SettlementsAreCollateralised`: `SettlementCollateralised`.
- `LendersAreMadeWhole`: `[]LendersMadeWhole`. The invariant is `PotsCoverLoan`: a closed pool's pot for
  lenders is at least the matched amount, because the repayment includes the principal and a sale that
  brings less is refused. With it, two truncated shares lose at most one unit of a deposit
  (`SharesOfDeposit`).

`SettlementNeverReopens`, `SettlementsAreCollateralised` and `LendersAreMadeWhole` assume that
`setPoolState` is not called after creation (`"setPoolState" \notin AdminCalls`): with it an administrator
can reopen a settled pool and they are false.

The argument goes through `EveryStep`: every step leaves a given pool as it was, deposits into it, settles
it, closes it or overrides its state (`PoolStep`), or creates it (`Fresh`). Each theorem is then a case
split on those shapes, and the arithmetic is in lemmas about `PoolMath`, with which the module begins.

- `PauseFreezes` (`PauseFreezesBorrowers`): under a pause no deposit or pledge changes, no borrower is
  served, and a token leaves only to lenders of a closed pool or to repay a loan which that step closes. The
  property speaks of all pools at once because `withdrawLend` is not paused: a token that is one pool's
  collateral may be what lenders of another still withdraw.

### The pool's money (`PoolSolvencyProofs`, `SumProofs`)

For any finite set of users (`UsersAssumption`: there are 2^160 addresses):

- `SuppliesAreSums` (`PositionsAccounted`) and `TheBooksAreKept` (`BooksKept`): supplies are the sums of the
  positions, and each participant is listed once, whichever setters are called. `LendAdded` and its likes
  say which positions a step may change; `SumProofs` gives what that does to a sum.
- `PoolsStaySolvent` (`Solvent`), `ClaimsStayBacked` (`ClaimsBacked`): the balance of each token covers what
  all pools that use it owe, and SP and JP tokens are never over-issued. Both assume that the administrator
  calls none of `setPoolState`, `setPoolSpToken` and `setPoolJpToken` after creation: with them a settled
  pool can be reopened, or redeem tokens that were minted for another one.

The inductive invariant is `SolvencyInv`, `BooksInv /\ (DebtTokensDedicated => Safe)`. A pool is looked at
as an account (`Account(p)`): its record, its positions and its SP and JP tokens. `Kept` is what the books
say of an account, `Backed` that its claims do not exceed what was settled, and `Moves(a, b, x, y)` that on
the way from account `a` to `b` what is owed falls at least by the `x` settle tokens and `y` pledge tokens
paid. Each operation moves the account it is about. The hard part are the truncated shares: what is left
after a share is paid covers the shares of those left, because quotients by a fixed divisor add up to at
most the quotient of the sum. `Balanced` adds the accounts up per token, and `TokensTogether` says that a
pool has both debt tokens or neither. A debt token no pool has taken yet has no holders (`UnusedEmpty`), so
a new pool starts backed.

### The version 1 wallet (`MultiSignatureProofs`)

For any owners, quorum and nesting: `WalletTypeCorrect`, `CountersAgree` (`ConfirmationsCounted`),
`QuorumOnExecution` (`ExecutedByQuorum`), `ExecutionsAreFinal` (`ExecutedIsFinal`). A failing call brings
back an earlier state, so the invariant `IInv` states what is true of the current transactions and
confirmations (`Sound`) of every saved pair as well, and `Chained` says that no saved state has an executed
transaction that a later one lacks.

`EtherIsPaidOnce` (`PaidOnce`): the ether is what was received less the values of the executed transactions.
`PaidInv` claims it of each saved state, since a failing call restores the ether together with the
transactions; the sum over a sequence is that of its partial totals (`Totals`), which are unique.

### The version 2 wallet (`MultiSigWalletProofs`)

For any accounts, list of owners and threshold the constructor accepts: `ListsStayWellFormed` (`TypeOK`) and
`WalletKeepsPromise` (`KeepsPromise`), the refinement of `MultiSigApproval`: every step maps to a step of
the abstract specification or a stutter. `WalletInv` says that no list of signatures has an account twice,
which `removeAddress` keeps although it moves the last entry (`RemoveKeeps`); only then does counting
entries count signers. It also says that nobody signs an application but the first of its pair, which is the
one `getValidSignature` looks at.

### The stores of the frontend (`NetworkProofs`)

For any chains, calls, chunk sizes, transactions, lists, versions and bounds:

- `FetchesAreAhead`: a call marked as fetching is fetched for a later block than its result has. With
  `McTypeOK` this is the inductive invariant `McInv`: an error is recorded only over an older result.
- `McResultsAdvance` (`ResultsAdvance`): results never move back. It needs `McInv`, because
  `errorFetchingMulticallResults` compares with the mark and not with the result.
- `ListsUpdatesAreNewer` (`UpdatesAreNewer`): what a user is asked to accept is newer than what is in use.
  It is inductive list by list: every case of the reducer keeps it, whatever versions and request ids are.
- `FollowsChain` (`BlockNumberFollowsChain`): the block number implements `BlockFeed`, the refinement proved
  step by step. `FeedInv` says that every number in the feed, its debounced copy and the answers under way
  is one the chain it is labelled with has reached.
- `PopupsAreOfFinal` (`PopupsOfFinal`): a popup is of a transaction with its receipt, at most one of each.
  `PopupInv` adds that receipts are of mined transactions.

### The lending pages (`LendingAppProofs`)

For any chains, pools, amounts and bounds. The inductive invariant is `PagesInv`:

- `FormInv` says of the deposit form that each call in flight was made at the step its kind belongs to, that
  the second step is reached only over a mined approval, that a spinner has a call or an answer it waits
  for, and that the latest request for the pool's information is for the chain the wallet is on: it is
  under way, its answer came last, or it failed (`StepsFollowApproved`, a part of `NoSpinnerIsStuck` and of
  `PagesFollowWallet`).
- `RowInv` says that a row's spinner is on only with its call under way.
- `HeaderInv` numbers the changes of the wallet's chain: the promise of the latest, if it is one the header
  asked for, is of the chain the wallet is on, and either it is still to be answered or the header names
  that chain already. `HeaderNamesChain` alone is not inductive, because a promise may be answered when the
  chain has changed again.
- `ListInv` counts: the rows shown, the answers due and the lists still to be asked for never outnumber the
  visits, order by order; this is why no order shows twice although the array outlives the visit. Its part
  `DrawnSoon` says that all rows are drawn, a row is late, or a timer runs that will set another number
  (`OrdersAreShown`).

### The exchange (`ExchangeProofs`)

For any tokens, prices, amounts and bounds. The inductive invariant `ExchangeInv` has a part per page:

- `SendsAsAgreed` (`SentAsAgreed`) and `ShowsItsOutcomes` (`OutcomesShown`), from `SwapInv`, `AddInv` and
  `RemoveInv`: while a modal is open the trade in it is the one agreed to, and each call that may still
  answer was confirmed in it or is marked as overlapping an earlier one; a permit in the state fits the
  amount and pair, or the change that `SignatureFits` excepts has happened.
- `ImportsAreKept` (`ImportedOnce`), from `PositionsInv`: an imported pair is saved with its tokens sorted,
  so it equals the tracked pair however it was found, as one of the user's, a pinned or a generated one. It
  assumes that a chain's wrapped token and its bases are tokens of that chain, and a pinned pair two tokens
  of one chain (`PositionsAssumption`).
- `SettingsAreInForce` (`SettingsShown`), from `SettingsInv`: what is stored is what the field's value
  becomes (`FieldsAreStored`), and dividing a stored tolerance by a hundred and multiplying again yields it
  (`StoredFromField`). With `WholeBips` this bounds what transactions use. Of the arithmetic of binary
  fractions `SettingsAssumption` takes no more than that a product is off by at most a unit and that this
  way there and back is exact for what was stored; of the default deadline, that it is a positive whole
  number of minutes, as `60 * 20` is: the field shows minutes and the store keeps seconds.

### Checked by TLC only

Liveness is out of the prover's reach: `EverythingPaidOut`, `Refreshed`, `MinedFinalized`, `PoolsMirrored`,
`PricesMirrored`, `SpinnerStops`, `LocksAfterPayment`, `HomeShownChain`, `AttemptsEnd`, `SelectedResolves`.
So `PoolMirror`, `TokenMirror`, `HomePage`'s table and `TokenSearch`, whose promises are of this kind, have
no theorem. `TokenSearch` is written for TLC's runs alone. The violated properties of section 5 are shown by
TLC's counterexamples.

### What is assumed

`Solvent`, `ClaimsBacked` and `EverythingPaidOut` are stated for pools with SP and JP tokens of their own
(`DebtTokensDedicated`); nothing in the code enforces it. The pool is a minter of its tokens. Different
pairs have different keccak256 hashes. The frontend is the one with `USE_MOCK` false: with the mock the
pools' information is the same on every chain.

Some properties except what the code does not promise. History variables say when that is, and each is a
way in which the code goes wrong:

| exception | what happened | what then fails |
|---|---|---|
| `overtaken`, `failed` (`LendingForm`) | the pool information of two chains was answered in the other order; the request of the chain joined failed | the form shows the pool of the chain left |
| `unseen` (`HomePage`) | the chain changed in the wallet, an error of it was swallowed, or a promise was answered after a later change | the header names another chain |
| `stopped` (`HomePage`) | a request failed while no other was under way and no timer ran | the home page asks no more |
| `late` (`OrderList`) | a row came when no timer was left that would draw it | the row is not drawn until something else is |
| `doubled`, `lost` (`OrderRow`) | a row was clicked while its call was under way; a read failed | a button stays usable after the payment |
| `overtaken`, `moved` (`RemovePage`) | an input overtook a signature; the pair, the balance, or the worth of an amount typed in a token changed after it | a permit is sent with an amount it was not signed for |
| `left` (`RemovePage`, `AddPage`), `overlapped` (`SwapPage`) | a modal was dismissed before its answer, or opened while a call was unanswered | the next one shows the earlier outcome |
| `retyped` (`Settings`) | a risky tolerance was typed, cleared and typed again | it is not warned of |
| "failed", "cancelled" (`TokenSearch`) | the one fetch of a contract came to nothing | the token stays unresolved until a reload |
| `missed`, `overwritten` (`TokenMirror`) | MySQL refused a price; a run of the price job saved an older price over a newer one | the older price stays until it changes again |

## 5. Where code and documents differ

1. **A healthy pool can be liquidated** (`healthy_liquidation`). Until a borrower has claimed or been
   refunded, `calculateHealthFactor` has nothing to add up and answers `RATE_BASE`, below every
   liquidation rate (`PledgePool.sol:327`). `CHANGELOG.md:42` defines the factor as collateral
   over loan and liquidates below the threshold.
2. **A refund costs the loan** (`refund_or_loan`). `refundBorrow` and `claimBorrow` set the same flag
   (`PoolLendBorrow.sol:256`, `:277`): after taking the excess pledge back a borrower is told
   "already claimed" and gets no loan.
3. **Some loans never close** (`underwater_loan`). `settleAmountBorrow - amountSell` reverts in both `finish` and
   `liquidate` when the debt costs more collateral than the pool has (`PledgePool.sol:312`, `:352`).
   The contract README says a loan completes at maturity or is liquidated.
4. **A blocked swap is sent** (`blocked_impact`). `constants/index.ts:72` says that above the limit swaps are
   disabled for users who are not experts. Only the button that opens the confirmation dialog compares
   (`Swap/index.tsx:445-496`): if the price moves while the dialog is open, accepting the new trade and
   confirming it calls `handleSwap` (`:179`), which merely asks.

Noticed on reading, without a run:

*Contracts.* `claimLend` and `withdrawLend` work while the contract is paused; `transferOwner` needs one owner, not
the multi-signature the wallet's README speaks of, and accepts duplicate owners and the zero address, which the
constructor refuses; signatures of former owners still count; `createApplication` returns an index, but only the first
application of a pair can be signed (`DEFAULT_INDEX`); an approval is not used up by the call it admits; the 5%
liquidation reward and 10% penalty of `CHANGELOG.md:45-46` are constants nothing uses.

*Backend.* The digest of a pool is kept although saving it failed, and only its expiry after half an hour heals that;
the digest of a pool's data is taken of its base information. A price whose save failed is not retried, since Redis already
has it, and of two overlapping runs of the price job the one with the older price may save last (`overwritten`). `BTC` and `BTCB` of the
local logos share an address, so their logo and symbol alternate; a symbol can remain the logo list's.
`Servers.Delete` of the websocket server is given the socket and not its key, and goroutines block on an unbuffered
error channel after the socket closed.

*Lending pages.* The order row's Claim can be clicked twice; a borrower's Approve sets its spinner before it checks the
amounts; the header names a chain the wallet is not on after an error it swallowed; orders pushed later than the
timer of one second are not drawn until the next visit, nor those of a second visit whose timer sets the number
the first one's did; a failed request leaves the pool of the chain left on the deposit form, and can end the polling of
the home page; a failed read leaves a paid button open, and `ClaimTime` decides by the balance of the render before.

*Network.* A fetch cancelled on leaving a chain stays marked, so on return it is not repeated before the next block; a
failed refetch of a list discards the good copy, and one that finds no new version leaves `loadingRequestId` set; the popup
for a major update can outlive the update, and Accept then throws; lists are not persisted; `clearAllTransactions` is never
dispatched, and a popup links to the explorer of the current chain.

*Exchange.* `approvalSubmitted` is reset by some changes of the input only (against the comment at `Swap/index.tsx:156`);
Confirm clicked twice before the estimate sends two removals with one permit; a permit is kept across
changes of pair or balance, and of the reserves when the amount was typed in a token; `AddLiquidity` can push a route with a literal `:currencyIdA`; Enter in the token
search chooses a single match although BNB is the first row; a token both listed and added by the user has no
Remove button; one whose single fetch failed is `undefined`, which `hooks/Tokens.ts:52` says of what is invalid or does not
exist; 0.29%, like many tolerances of two digits, is 28 bips for a swap and 29 for liquidity, and one with a
third digit throws in the liquidity pages.

## 6. Not modelled

- **Wallet session.** Which connector is active and when it changes is decided inside web3-react; ENS names never
  resolve because no registrar is configured. The other modules let chain and account change at any moment.
- **Websocket server and price feed.** Goroutines and channels per connection; see `PriceSocket` below.
- **Backend queries, login, multi-signature record.** Handlers that read a row, or replace one, without a protocol.
- **Oracle arithmetic and minter rights.** A price is a number that changes, and the pool always is a minter.
- **Screens without a state of their own**, drivers, generated bindings and mocks; `ListSelect`, which no
  screen opens; the warning about unknown tokens in a swap's address.

The plan:

1. proofs: the pool's liquidation bounds, and `LoanLifecycle` below;
2. `DebtToken` with `AddressPrivileges`, and `AddressArray` against a set;
3. `PriceOracle`: numeric conversion with widths, and staleness;
4. `LoanLifecycle`, an abstract loan which `PledgePool` implements, from the shapes of `PoolStep`;
   interest against the time of settlement; the health factor over several borrowers; two pools with
   one debt token;
5. `Governance`: `MultiSigWallet` composed with guarded contracts, approvals that are reused;
6. `PriceSocket`: the feed, the broadcast and the goroutines of a connection.
