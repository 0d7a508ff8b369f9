# ByteBlock in TLA+

ByteBlock is a trading bot for Uniswap-V2-like exchanges, written in Go and
driven by Telegram commands. It watches pending transactions, recognises
liquidity that is about to be added to a new pair, checks the token, and buys.
This directory holds TLA+ models of its concurrent and stateful parts, the TLC
runs that check them, and proofs checked by TLAPS. `PROJECT.json` lists the
runs, the source lines of every definition, the mutants, the findings and the
hazards.

## 1. Inventory

| Part | State | Operations | Talks to |
|---|---|---|---|
| Mempool watcher (`internal/mempool/mempool.go`) | two channels, two worker pools, counters, `stopping`, a `WaitGroup` | `Start`, `Wait`, four goroutines | node (websocket), callback `OnTx` |
| Controller (`internal/telegram/controller.go`) | `running`, `cancelFn`, `watcher`, client, registry, executor, runtime settings; no lock | update loop with the commands, `/stop` goroutines, `OnTx`, auto-buy goroutines | everything |
| Trade executor (`internal/executor/executor.go`) | positions (with a mutex) | `ExecuteBuy`, `ExecuteSell`, positions | node, bundler |
| Bundler (`internal/bundle/bundler.go`) | keys only | make, simulate, send a bundle | relay, node |
| Pair registry (`internal/signals/pairs.go`) | two maps under one lock | event stream with reconnect, `gc`, lookups | node, mint watcher |
| Mint watcher (`startMintWatcher`) | subscription, the number of pairs it covers | subscribe, listen, resubscribe | registry, node |
| Log ring (`internal/telemetry/logger.go`) | channel, ring of 2000 entries | `Start`, `Stop`, `enqueue`, `Tail` | every goroutine |
| Configuration (`internal/config/config.go`) and start-up (`cmd/sniper/main.go`) | `config.yml`, environment, `Config` | `Load`, `Save`, token wait | controller, user |
| Honeypot checker (`internal/scanner/honeypot.go`) | one `TokenSafety` per check, shared by three goroutines without a lock; a deadline | `CheckToken` | node, `/buy`, auto-buys |
| Liquidity analyzer (`internal/signals/liquidity.go`, `mint.go`), scanner (`internal/scanner/scanner.go`) | a signal per transaction | `AnalyzePending`, `Run`, `FindMintInReceipt` | node, pair registry, callback |
| Profit analysis (`internal/scanner/analysis.go`) | - | nothing makes one | - |
| DEX tables, helpers | none | decoding, conversion | - |
| Liquidity lab (`tools/`) | - | Solidity scripts for manual tests | - |

How they interact: `main` loads the configuration, waits for a token, and runs
the update loop, which handles one command at a time. `/start` makes a context,
a client, a registry of pairs, a mint watcher, an executor and a mempool
watcher, and returns; from then on the goroutines of the watcher call the
callback, which reads fields of the controller while the loop writes them. The callback
asks the liquidity analyzer and the scanner what a transaction is, then spawns
an auto-buy and a monitor of the receipt, both on contexts of their own. The
auto-buy asks the honeypot checker, and then the executor. `/stop` cancels the session's
context and leaves a goroutine that waits for the watcher and clears `running`.

What is hard here: channels closed under their senders' feet; shutdown that
must neither hang nor leave anybody behind; lossy queues that must count what
they lose; fields of the controller shared without a lock; settings in four
copies; nonces read by concurrent buyers; relay errors that are swallowed;
reconnects; a ring buffer's arithmetic; a score summed up by goroutines that
race, from calls each of which may fail; goroutines that outlive their session
and find another one's fields. What makes each part correct is stated
as the properties in section 3; `hazards` in `PROJECT.json` lists where each can go
wrong, and for the ones without a property, why.

## 2. Modules

| Module | Models | How state and actions correspond |
|---|---|---|
| `Watcher` | the mempool watcher | one variable per goroutine (`sub`, `pool`, `fetch[f]`, `crew`, `proc[p]`, `reporter`) saying where it is; a channel is its length and whether it is closed; each `select` branch is an action |
| `EventPipe` | what the watcher promises | an abstract lossy stream: received, delivered, lost, active, quiet |
| `WatcherPipe` | the refinement | `INSTANCE EventPipe WITH` the counters of the watcher; part of `MCWatcher` |
| `Lifecycle` | `/net`, `/start`, `/stop` | the fields of `Controller`; `startOnActivePreset` is cut where it calls the node; each `/stop` goroutine is a waiter |
| `Session` | what the controller promises of its sessions | shown, asked to end, calling back, over, and what the commands act on |
| `LifecycleSession` | the refinement | `INSTANCE Session WITH` the fields of the controller and the sessions' pipelines; part of `MCLifecycle` |
| `Signals` | pair registry and mint watcher | both maps, where the two goroutines are, what each subscription covers and whether it still delivers |
| `Detection` | callback, liquidity analyzer, scanner, auto-buy up to the executor, receipt monitor | per call of the callback: where it is, its signal, its auto-buy and its monitor; one action per stretch of code between two calls of the node; blocks, registry and commands around them |
| `Checker` | one call of `CheckToken` | the fields of `TokenSafety` that decide; each goroutine with the score it has loaded; one action per call of the node; the token and its pool are the environment |
| `Trading` | buys on every path, the wallet's account | one record per buyer (the loop, the auto-buys) with its place and local variables; node pool, relay and chain are the environment |
| `LogRing` | telemetry | the ring with its indices; entries are numbered |
| `Settings` | configuration, start-up, setting commands | file, environment, `Config`, and the copies the controller acts on; the phases of the start-up loop; a command is two steps, its save and its reply |
| `MC*` | TLC instances | the constants' values, in the `.cfg` or defined there |
| `WatcherProofs`, `LifecycleProofs`, `SignalsProofs`, `DetectionProofs`, `CheckerProofs`, `TradingProofs`, `LogRingProofs`, `SettingsProofs` | proofs | section 5 |

How they fit together: `Watcher` hands transactions to what `Detection` calls
`HandOver`; `Signals` is the registry that `Detection` looks pairs up in (`Learn`,
`Forget`); `Detection` ends an auto-buy where `Trading` begins to build a
transaction (`Execute`); both take the verdict of `Checker` as a choice, which
`Detection` narrows to what `SafeVerdictIsEarned` of `Checker` shows (no clean verdict
without a pool on the chain). `Lifecycle` is the session around
all of them, and each of the others has `/start` and `/stop` as far as it can tell.

Abstractions a reader should know of:

* `Watcher` does not tell hashes apart. Whether a hash is fetched or not does
  not depend on which it is, and at-most-once follows from the counts.
* `Lifecycle` takes from `Watcher` that a watcher runs until it is cancelled
  and ends after that (checked there as `ShutdownCompletes` and `QuietAfterWait`).
  A watcher whose subscription ended by itself idles until `/stop`; it is "running".
* In `Detection` a transaction is the function it calls, its pair, and whether its
  value reaches the minimum; a transaction to another address ends in the
  callback at once and is left out. The second network shares nothing with the
  first. A failed call of the node and a cancelled context are the same.
* In `Checker` a token is what the checks can tell: whether it has code, which
  findings that code contains, its owner, and who may sell it. Its tax is not part of it: the loss
  of a round trip is what the router tells from the reserves at two calls (`honeypot.go:443`, `515`), so
  any loss may come with any token, and none is looked at when the answer is not decoded (`504`).
  Each selector or pattern found takes its risk off the score; the model has
  them in any order, since Go's maps have none. `getTokenInfo` writes only what is displayed. A risk of 0
  changes nothing and is left out.
* In `Trading`, two fields of a transaction are history: how its token was
  vetted and which executor it was given to, the one of the controller when `ExecuteBuy` is called; so are `submitted` and `unanswered`. `StopWatcher` stands for the whole of `/stop` up to the end of
  the watcher. A buy that is refused for its amount, gas price or an error of
  the node gives up (`GiveUp`). Auto-buys have a time limit of 30 s, and any
  `GiveUp` may be that. The relay may take or refuse any bundle.
  `/sell` is no action: it passes the amount nil, which `ExecuteSell` refuses first of all.
* In `Signals` a pair stands for its two tokens: a factory has one pair for two
  tokens, so both maps are sets of pairs.
* In `Settings` the environment is fixed for the whole behaviour: whether it has `TELEGRAM_TOKEN` and
  `PRIVATE_KEY`, the chat `TELEGRAM_CHAT_ID` gives if any, and `HONEYPOT_CHECK_ENABLED` unset, on or off.
  `Save` truncates the file before it writes: one that fails, or that the end of the process cuts off,
  leaves the file as it was, cut after any of the settings, or not to be parsed (`CutShort`). A file that
  does not parse, from such a write or the user's hand (`Break`), makes `Load` fail, and
  the start-up loop calls it again: that is no step of `LoadFile`, so the loop stands still until the file is mended,
  whatever the environment holds. `waitForToken` looks at the environment only after a `Stat` that
  succeeds, and panics (`Panic`) when it has no time to compare with. The branches of `main` for an error of
  `Controller.Start`, the one for invalid tokens among them, are unreachable (it returns nil only) and left out.

## 3. Runs

Passing runs. Every one of their properties has a mutant of the code, listed in
`PROJECT.json` and defined in the module before the operator it replaces.

| Run | Bounds | What it shows |
|---|---|---|
| `MCWatcher` | 2 + 2 workers, queues of 2 and 1, 3 hashes | `NoSendOnClosedChannel`, `QuietAfterWait`, `NoTxLeftBehind`, both accountings; the watcher implements `EventPipe` (`ImplementsPipe`: at-most-once delivery, at most as many callbacks in parallel as workers, silence after `Wait`); `ShutdownCompletes`, `Resubscribes`, `GracefulDrain` |
| `MCLifecycle` | 2 networks, 3 starts, one `/stop` at a time | a live watcher is always the one `/stop` would stop; never two sessions; everything on one network; every `/stop` is answered; the controller implements `Session` (`ImplementsSession`: one session after the other, each with the client, registry and executor it began with, reported stopped only when asked and after its last call) |
| `MCSignals` | 2 pairs | both maps agree; no subscription outlives its goroutine; cancelling ends both goroutines; every known pair is watched at last, as long as none expires |
| `MCChecker` | findings that cost 15, 20 and 50 (the last a blacklist), losses of none, 9, 10, 26 and 51, every owner, every way of trade, every pool | a clean verdict is earned; a race loses the deductions of one side at most; when nothing fails the verdict on a token of small risks is that of its simulated sale (`VerdictTurnsOnSale`): one anybody can sell passes and `/buy` takes it, every other, an ordinary clean token included, is called a honeypot |
| `MCDetection` | 1 transaction of every kind handed over twice, a pair with WETH and one without, 1 worker | liquidity of the promised minimum is detected, and what is detected besides is told exactly; nothing is confirmed, or bought under the check, before the chain has the pair; what a transaction sets off ends |
| `MCTrading` | 2 tokens (a honeypot and a risky one), loop + 1 auto-buy, 2 transactions, a relay with bundles switched on and off, a restart | honeypots are refused on every path; what is bought is listed; no buy goes to both relay and pool |
| `MCLogRing` | ring of 4, channel of 3, 10 entries | the ring is the window of the last entries; accepted entries are printed |
| `MCSettings` | 1 chat id and "any", 2 gas texts, 5 environments (nothing set; the token, the chat, or the check; everything), failing and torn writes, files removed, spoiled and mended | acknowledged settings survive restarts but for what the environment overrides; auto-buy is armed exactly when config and wallet say so; the bot comes up with a token in the environment if in the end the file parses |

Why the bounds are enough: two workers per pool are needed for one to be inside
a send, a fetch or the callback while the other leaves, and no action looks at
more than one worker and one channel; the queues are small enough to be full
and empty many times, and three hashes fill each with one to spare that is dropped. That hashes run out
takes nothing from the liveness properties of `MCWatcher`: each says that somebody leaves or comes back, the goroutines are fair one by
one, and the one loop that endless hashes could keep busy has its fairness for leaving on its own
(`ForwardingCancelled`). Three starts let a session begin while the previous one
ends and its `/stop` goroutine is pending, and another one after that. Two pairs
let one be watched while the other is new or takes its place. Two transactions
are what it takes to displace one. Ten entries wrap a ring of four twice.
Two calls of the callback for one transaction are what a repeated announcement
makes, with the first one's auto-buy and monitor still alive in the second; no
action of `Detection` looks at two transactions. Three findings let sums of
risks fall on both sides of both limits (30 and 40), the losses are those at
the edges of the branches, and one goroutine can lose its deduction to the
other before, between and after the other's.
`MaxHashes`, `MaxSeen`, `MaxStarts`, `MaxBuys`, `Restarts`, `MaxEntries`, `MaxTail` and the number
of `Waiters` are the bounds in guards; each is a named constant. `MaxBuys` bounds the transactions built, and after the
last no buy begins; `MoreToCome` of `Detection` keeps `autoBuyEnabled` and the registry as they are once the last
callback has reported, for nothing reads them after that.

No run uses symmetry: most of them check liveness, where it is unsound.

Deadlock is not checked: every model may really stop (a watcher that has ended,
a process that has exited, bounds used up). That nothing stops too early is
what the liveness properties are for.

Violation runs. Each states what a message, comment or document of the
repository says, and TLC finds a behaviour of the code against it:

| Run | Property | The behaviour |
|---|---|---|
| `MCLifecycle_twostops` | `OneSession` | two `/stop`s, then `/start`: the second goroutine clears `running` of the new session, `/start` starts another |
| `MCDetection_minimum` | `MinimumKept` | liquidity below the minimum is bought: the transaction is not given a second time, and its value is not looked at. `addLiquidity` gets there without a failure: its amounts have no minimum |
| `MCTrading_race` | `ListedNotDisplaced` | two buyers with one nonce |
| `MCSettings_wait` | `TokenIsFound` | the file is edited between `Load` and `Stat` |

`OneSession` is in a passing run too: it holds as long as no second `/stop` is
sent before the first is answered. `BoughtIsListed` excepts two kinds of buys,
which the code has no way to list: those whose answer the node lost, and those
an executor made that `/start` has since replaced. `RestartKeeps` excepts writes
that fail and files that are removed, lets a command the end of the process has cut off before its reply count or not,
and leaves the chat and the safety check to the environment where that overrides
them (`config.go:72`, `87`): an acknowledged `/set_chat` does not survive then. `EnvTokenStarts` supposes that in the end there is a file that
parses: without one the bot does not come up, though the token is there (`main.go:66`, `138`).
`SafeVerdictIsEarned` says nothing of a token's tax but that the router told no loss above half. `PairsAreWatched` excepts sessions in which a pair expires or
a Mint subscription fails. `FilterExact` excepts calls the node did not answer, by which promised
liquidity may be dropped; what passes below the promised minimum it only delimits (`addLiquidity`, or a
transaction not given again), and `MinimumKept`, which forbids it, is violated.

Also seen while modelling. The models contain each of these behaviours; they
are short enough to be read off the code, and have no run of their own:

* `controller.go:197`: a `/start` that fails after the dial leaves a client of the
  new network beside the registry and executor of the old one.
* `logger.go:155`: the index of `Tail` adds the write position twice. It is negative
  soon after a wrap, and panics in the update loop (`Index`, `ReadTail` in `LogRing`);
  otherwise it shows other lines than the last ones. `logger.go:86`: an entry
  logged after `Stop` panics.
* `controller.go:529`: after an error of the Mint subscription the loop finds `sub`
  set and the number of pairs unchanged and sleeps for good, whatever the comment at 566
  ("resubscribe") says (`MintSeesError`, `MintBackoffOver` in `Signals`).
* `honeypot.go:486`: the simulated sale is a call of its own, in which the test
  address holds nothing and has approved nothing. Every token that checks a
  seller's balance is called a honeypot, so the check errs on the safe side.
  For the same reason a token whose pool is still pending is never cleared: a
  vetted auto-buy comes after the liquidity is on the chain, never beside it.
* `honeypot.go:530`: a tax of exactly 10 % costs nothing; `555`: an error when the
  liquidity is looked up costs nothing either; `282` and `346`: two goroutines
  change one score without a lock.
* `honeypot.go:504`: a sale whose answer is not decoded counts as one without a loss; `443`: the
  loss of one that is comes from what the router estimates of its reserves, not from a token's tax.
* `main.go:66`: the file that does not parse is loaded for good, whatever the environment holds; `126`: `Save`
  fails, the file appears later, and `144` panics.
* `honeypot.go:92`: each check leaves a goroutine of `cleanupCache` behind.
* `liquidity.go:97`: the signal of a pair that does not exist yet has the pair
  address zero, for which `mint.go:97` finds no Mint: the first liquidity of
  a pair is never reported as confirmed.
* `controller.go:1398`, `1420`, `1453` and `465`: goroutines that outlive their session
  read client, registry and executor anew; after `/stop`, `/net` and `/start` an
  auto-buy goes to the other network's executor.
* `mempool.go:118`: the clients of the fetch workers are dialed once; when every
  dial fails the watcher lives on and fetches nothing, whatever `UPGRADE.md:4`
  says of resilience.
* `bundler.go:175`: the bribe takes the pending nonce read after the swap's; with
  another transaction in between, the bundle has a gap.
* `executor.go:398`: a bundle refused by the relay three times is listed as a buy.
* `controller.go:382`: an auto-buy spawned before `/autobuy off` goes through.
* `controller.go:1170`: `/sell` passes nil, and sells nothing.
* `controller.go:236`: `/start` forgets the positions, those of buys in flight too.
* `controller.go:845` and `839`: `/safety` takes effect at the next start of the
  process, `/setgas` at the next `/start`; `273`: a gas text that does not parse
  means no limit.
* `controller.go:225` and `784`: `PRIVATE_KEY` added to the file, as `controller.go:721`
  asks, is not read by `/start`, and erased by the next command that saves.

## 4. Fairness

`Watcher`: every goroutine that can step does (the Go scheduler); a dial, a
fetch and the callback end, because they have timeouts or the session's
context; `SF` on a successful dial says that a node asked again and again is up
at last, and only `Resubscribes` needs it. Nothing makes hashes arrive, sockets
drop or the caller cancel. `select` is fair only between branches that stay
ready, so each goroutine has one `WF` on all its branches, except that a
cancelled context is noticed by a forwarding loop that is never out of hashes
(`ForwardingCancelled`): Go picks among ready branches at random.

`Lifecycle`: calls of the node end, goroutines run, a cancelled watcher ends
(proved of nothing, checked as `ShutdownCompletes`). No command has to come.
`Signals`: goroutines run; subscribing succeeds at last. `LogRing`: the consumer
runs. `Settings`: the start-up loop runs while it can step, and Telegram, asked again and again, answers
at last (`SF` on `Create`); a `Load` that fails is no step, and nobody has to mend the file.
`Detection`: the goroutines run, and every call they wait for ends: it has a time limit of the program (30 s, 60 s),
or, with `getPair` (`liquidity.go:151`), the session's context only, so that
it is the node or `/stop` that ends it; nobody has to mine a transaction or to send
a command. `Trading` has no liveness property, since a buy may always be refused, and
`Checker` none either: its deadline makes it a sequence of steps that ends.

## 5. What is proved

Of the watcher, for every number of workers and every queue size (assumption:
`WatcherAssumption`, finite pools and natural sizes):

* `TypeCorrect`, `SendsAreSafe`, `WaitWaits`, `WorkersLeaveNothing`: the safety
  invariants of `MCWatcher`. None but the first is inductive. `ShutdownInv` adds
  what the shutdown rests on: a channel is closed only when its owner has left
  and the pool's owner leaves only when its workers have (`OwnersClose`), a
  caller of `Wait` returned only after all four goroutines did (`WaitersWait`),
  and a worker leaves an open context only for a drained channel
  (`WorkersDrain`). The proof has one step per action.
* `HashesAccounted`, `TxsAccounted`: the two conservation laws. The sums are over
  cardinalities of sets of workers (`Fetching`, `Sending`, `Handling`). Lemma
  `StepHasEffect` shows that each action has one of a few effects on the
  numbers (`Effect`), using `MoveCount`: one worker that changes its place
  changes each cardinality by at most one. `AccountStep` is then arithmetic.
* `WatcherImplementsPipe`: for `CountMetrics = TRUE`, the specification implies
  `EventPipe!Spec` under the mapping of `WatcherPipe`. It needs the accountings
  (to know that something is pending when the watcher loses or begins an item),
  `QuietAfterWait` (nothing happens after quiet), and the bound on `Handling`.

Of the sessions, for any networks, starts and `/stop` goroutines
(`LifecycleAssumption`):

* `LifecycleProofs!TypeCorrect`, the type invariant, which is inductive alone.
* `NetsAgree`: `RunningOnOneNet`. `EquipInv` says which fields a start under way has
  set, and that nothing runs meanwhile. A second `/stop` may stop showing a session, but
  never mixes networks.

The rest has the hypothesis `OneStopAtATime` (at most one `/stop` goroutine), without which
`MCLifecycle_twostops` refutes it:

* `LiveIsReached`, `SessionsApart`: `LiveIsReachable` and `OneSession`. `LifecycleInv`
  adds what a running session owns (`RunningInv`: the fields
  of the controller are those of the last start), what a pending `/stop` waits for
  (`WaitersInv`: the watcher it has cancelled, while `running` stays up), that
  nothing else runs and the sessions to come are untouched (`OthersInv`, `StartingInv`).
* `ClearedWhenEnded`, an action property: the one step that
  clears `running` is `ReportStopped`, whose target is the watcher by then.
* `LifecycleImplementsSession`: the specification implies `Session!Spec` under the mapping
  of `LifecycleSession`. `Launch` opens a session, `Stop` or a signal asks it to end,
  `WatcherEnds` finishes it, `ReportStopped` closes it, and every other step leaves what is seen of
  the sessions alone (`UnseenStep`) or prepares the fields while none is shown.

Of the signals, for any set of pairs: `TypeCorrect`, `RegistryIsSound`, `SubscriptionsEnd`. The three
invariants of `MCSignals` are inductive together: both maps change in the same step, and every way out
of a goroutine gives up its subscription.

Of a transaction's way, for any transactions, pairs and number of workers:
`FilterIsExact`, `ChainComesFirst` and the type invariant. `DetectionInv`
says of each call of the callback that the signal it has made stays what it is
(`SignalStays`), that what is still to be reported is one of what `FilterExact` lets be detected (`Filtered`), and that what
it has seen on the chain is there (`SeenOnChain`); and of the chain that a
transaction that succeeded has left its pair there (`ChainHasPairs`). A step of the chain
can only add to that (`ChainGrows`), a step of a goroutine changes one call
(`OneCall`).

Of the buys, for any tokens, any number of concurrent auto-buys and any bound
(`TradingAssumption`):

* `HoneypotsStayOut`. `HoneypotsNotBought` speaks of what is submitted;
  `VettingInv` follows the buy from the command or signal (`BeginAllowed`) through
  every place in `ExecuteBuy` and the bundler (`BuyStep`): wherever a buyer holds a honeypot, and in
  whatever transaction is built, bundled or submitted of it, it was forced or unchecked.
* `SentOneWay`, `SentIsListed`. `SentInv` knows a transaction by its number: a
  buyer holds one of its own that nobody has seen until it sends it (`HoldsOwn`),
  all that is pending, bundled or mined was sent (`FromSubmitted`), and all that was
  sent, mined or not, is listed or about to be (`ListingInv`); the new executor of a `/start` has sent
  nothing yet.
* `TypeCorrect`. What needs an argument is that the nonces stay in their bounds: the transaction
  numbered i has a nonce of at most 2(i - 1), and the next nonce of the chain is at most twice the
  transactions built (`NonceInv`), so that a free one is always found (`FreeNonce`, from
  `LeastNumber`: `Min` of a non-empty set of numbers is its least).
* `AloneNothingIsDisplaced`, under the hypothesis `Alone` (no auto-buys, no bundler): `ListedNotDisplaced`,
  which `MCTrading_race` refutes with two buyers, holds with one. A pending transaction has
  a nonce of its own, and nobody takes the one the loop has read (`AloneInv`). On the public
  path it takes a second buyer to displace a buy.

Of the checker, for any findings, risks and losses (`CheckerAssumption`; a blacklist
risks more than 20 there, in the code it is 50):

* `VerdictsAreEarned`. The score plays no part in it, so that the race for the
  score cannot hurt: `VerdictInv` says that the flags only ever go up, and that what
  has left a stage without raising its flag has what the stage looks for (`ScanFinds`:
  code was read and every blacklist is either flagged or still to be found;
  `SalesAreJudged`: `canSell` stands for a sale that went through, and a loss that was told for
  one of at most half or a honeypot; `VerdictWaits`: nothing is decided before both goroutines have joined).
* `CheckerTypeCorrect`, `RaceLosesOneSideAlways`, `VerdictTurnsOnSaleAlways`: the theorems about the score. It is
  a sum over a set, and a fold has no induction theorem the provers can use. The lemmas on `Total`
  (`TotalUnfolds`, `TotalRemove`, `TotalSplit`, `TotalGrows`) are proved
  from a smallest counterexample instead (`SmallestSet`). `ScoreInv`
  keeps bounds for the score and what each goroutine has loaded (`ScoreBounds`), tells which
  deductions the score lacks while the goroutines race (`RaceInv`: the owner's, or some of those for functions
  found, and whoever holds an old score is about to lose only one side), and what a token of small risks
  has left at each stage (`CleanInv`).

Of the log, for a ring, a channel and a number of entries of any size
(`LogRingAssumption`), the 2000 slots of the code included: `TypeCorrect`, and `RingIsRecent` for both parts of
`RingHoldsRecent`. `RingInv` tells the slot of the i-th last entry without a remainder (`Back`), ties write
position and flag to the number of entries (`Wraps`), and says that a slot not written yet is
empty (`Unwritten`); `StepUp` and `StepsBack` are all that the code's remainders do. So any slot that is not empty holds a recent
entry (`SlotsAreRecent`), and whichever the loop of `Tail` reads, it collects only such
(`LoopCollects`, on the loop as a recursive function).

Of the settings, for any chats, gas texts and environments (`SettingsAssumption`): `TypeCorrect`, `ArmedAsConfigured`,
`SettingsSurvive`. While no write fails, the file (`FileAgrees`) and the
config (`CfgAgrees`) hold, of what the environment leaves alone, what the last reply has stated or a
command since has asked for; a command that has saved has not been overtaken when it replies (`ReplyIsTrue`);
and what the controller acts on comes from a config with the overrides (`CopiesInUse`: one
without them, of a file `Load` has just created, has no token and makes no controller).

Every safety invariant of the passing runs and both refinements are theorems. Before they were
proved TLC found no violation of `ShutdownInv`, the accountings, `EquipInv` (also with two `/stop`s), `LifecycleInv`, `DetectionInv`,
`VerdictInv`, `ScoreInv`, `VettingInv`, `SentInv`, `NonceInv`, `RingInv` and `SettingsInv` in the instances of section 3, nor of
`AloneInv` in one of `Trading` without auto-buys and with 3 transactions.

Only model-checked: liveness (`ShutdownCompletes`, `Resubscribes`, `GracefulDrain`, `StopIsAnswered`,
`SignalsShutDown`, `PairsAreWatched`, `BackgroundEnds`, `AcceptedIsPrinted`, `EnvTokenStarts`), since fairness and
ENABLED are out of the prover's reach.

## 6. Not modelled

Of the honeypot checker, the facts that are only displayed (name, symbol, supply,
`CanApprove`, the risk factors), the cache (each caller makes a checker of its
own, so it is always empty) and `QuickCheck` (nothing calls it). The profit
analysis: nothing makes a `ProfitAnalyzer`. Amounts and balances: two auto-buys
that together spend more than there is are not told from any other refusal.
The decoding tables and the conversions between decimal text and wei: pure, the
latter in floating point. What `ExecuteSell` would do after its first check:
`/sell` never gets there. `/balance`, `/check`, `/status`, `/show_config`, `/whoami`,
`/help`: they change nothing. The Solidity lab.

## 7. Plan

Written in this order, the most important behaviour first:

1. `Watcher` with its refinement and proofs - done.
2. `Lifecycle`, `Trading`, `Signals`, `LogRing`, `Settings` - done as models.
3. `Checker`, `Detection` - done as models.
4. Proofs of all modules: every safety invariant of the passing runs, and both refinements - done.
5. Left: a composition of `Lifecycle` with `Watcher` in which the session's end is not
   assumed; an abstract wallet (buys that are either listed and submitted, or
   refused) for `Trading` to implement without bundles; an abstract log (the last
   entries as a sequence) for `LogRing` to implement.
