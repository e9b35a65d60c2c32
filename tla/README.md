# econ.me in TLA+

A verification development kept beside the code of econ.me: a tick-driven
economy engine (`src/engine/econengine/`) served by a FastAPI application
(`src/econ/`), with the contract packs (`src/contracts/`) and the stone-age
world (`src/experiments/world/stone_age.py`) that run on it.  The modules model
the engine's state machines and the application's concurrency; TLC checks them
on small instances and TLAPS proves theorems about them for every value of
their constants.

## The system

A world is one relational database.  Entities (houses, firms, wolves,
governments) hold goods, money and parcels; they run recipes, trade, travel,
vote and die.  Everything moves in `tick.run_tick`, one transaction that makes
a fixed sequence of passes; between ticks, and inside the intent pass, scripts
and players act through intents resolved one at a time, each in a savepoint.
Validators may veto an operation, hooks react to one inside the transaction
that performed it.  The application closes *rounds* of K ticks: by an
operator's request, by the consent of every player, by a deadline, or on a
wall clock.

| Component | State | Operations | What makes it correct | Module |
|---|---|---|---|---|
| Processes and resume ledger (`production.py`) | processes, banked ticks, holdings | start, resume, cancel, complete, charge per tick | every job is paid, no due run is taken back, a tool backs one run | `Production` |
| Tick (`tick.py`) | ticks, events hash | the pass order | a due run is completed before anyone acts | in each module, its own passes |
| Behaviour scripts (`services.py`, `tick.py`) | scripts, active flags, crash streaks | submit, legislate, crash, revert | an edit leaves one behaviour; a crasher is given up | `Behaviour` |
| Markets (`markets.py`) | orders, shelf escrow, trades | place, cancel, clear, reclaim | the shelf backs the book; the auction is fair | `Market` |
| Rounds and clocks (`econ/api/rounds.py`, `main.py`) | round counter, readiness register, ticks | ready, unready, advance, deadline poll, clock tick, raw tick | a round closes once, with K ticks, by fresh consent | `Rounds` |
| Epochs (`econ/api/epochs.py`) | epoch, stamps, eliminations | start, observe, scan, close, join | a stamp is a crossing; an extinction is recorded once | `Epochs` |
| Governance (`services.py`, `weights.py`, `councils.py`, `delegations.py`) | proposals, votes, registers, law | propose, vote, enact, delegate, order | a decision is all or nothing; nobody outruns the constitution | `Polity`, `Statute` |
| Money, land, storage, estate (`services.py`, `parcels.py`, `conditions.py`) | accounts, parcels, shelves, piles, fires, deposits | transfer, levy, seize, issue, retire, store, drop, claim, stoke, die | conservation; land in use stays; a death settles | `Land` |
| Intents (`scripting.py`) | outbox, savepoints | queue, drain, resolve | a refusal leaves nothing behind | `Land`, `Polity` |
| Travel (`travel.py`, `edges.py`) | routes, hops, loads | set out, arrive, wait for light, cancel | the cheapest road is walked; every journey ends | `Travel` |
| Combat, needs, conditions, threats, spawns | body, wounds, sleep | strike, prowl, eat, fester, press, renew | a death is final and told once; an attack wakes, a drawn outcome stands | `Body` |
| Stone-age pack (`stone_age.py`) | goods, ranks, places | a hundred recipes | survival needs no study; every rank can be climbed | `StoneAge` |
| Contract packs (`src/contracts`) | books, oracles, pools | lend, deposit, issue, margin, settle, insure | books agree with money; force is lawful | `Contracts` and its parts |
| Presence (`econ/world/presence.py`) | connections, revisions | attach, move, release | one body per connection, ordered deltas | none |

The tick calls every engine component in order; production and markets share
holdings through `markets.adjust_holding` and the query
`markets.reserved_quantity`; mints ride `services.deposit` and so run
validators and hooks; death cancels processes, orders and journeys and passes
the estate on; rounds call the tick, the epochs and the spawn programs.

### Hard behaviour

What the tests of the repository hardly reach; `hazards` in `PROJECT.json` lists
each at its line with the properties that are about it.

- *Two sessions over one database.*  Under SQLite a read before the first write
  takes no lock, so a request may act on what a tick or another request has
  since changed: rounds, edits of scripts, API orders, joins, epoch requests.
- *Lists read once and walked while the world changes under them*: due runs with
  hooks firing between them, the script list of a tick, the routes of a pass,
  the queues of an auction.
- *Bookkeeping by a query instead of an escrow*: reservations, the resume
  ledger, buyers' money, the backing of asks, margins in one pool.
- *Nesting*: a hook fired by a mutation may enact the bill being enacted.
- *Long legal sequences*: pause, resume, short ration, veto and death of one
  recipe; edits, crashes and reverts of one lineage; requote, partial fill,
  departure and rot at one place; issue, trade, missed ticks and redemption of a
  bond.
- *Progress*: a run ends, a crashing script is given up, a round closes, a bill
  is decided, a journey ends.

## Modules

One module per component, an `MC*` module beside it with its small world, a
`.cfg`, and a `*_proofs` module where there are theorems.  `PROJECT.json` maps
every definition to the lines it models.

### Production

A process is `<<entity, recipe, slot>>`: `run` is its row, in relative time
(`age` ticks since `started_tick`, `left` to `completes_tick`), `bank` the resume
ledger, `held` the holdings.  `credit`, `paid` and `worked` are history.

| Action | Code |
|---|---|
| `Start`, `Resume` | `start_process`: the ledger decides whether the lump is drawn |
| `Cancel` | `cancel_process`: window check, banking |
| `BeginTick`, `Complete`, `MintOutputs`, `FinishMint`, `Veto`, `EndComplete` | `complete_processes`: the list read once, deposits with their validators and hooks |
| `Charge`, `Fail` | `consume_per_tick_inputs`: draw, or bank and fail |
| `Gain`, `Sell`, `Take` | auto-issue; draws that honour reservations; draws that do not (consumption, decay, storage, seizure) |
| `Incapacitate` | `conditions._incapacitate` and the estate |
| `Commit` | the tick row: every run ages and the events hash is fixed |

Gates that can only refuse a start are the freedom not to start.  Left out: the
outcome branches, herd factor, woodpile, parcel deposits and fuel (the last
three are in `Land`), and the hooks of a duration-0 mint.

### Rounds

`counter` is `round.state`, `register` the readiness row, `mode` the gate, `work`
what each session has in hand and has read.  A request is a chain of reads and
then one writing step: `AdvanceRound` or `Refuse`, `RecordReady` / `FinalReady` /
`LateReady`, `WriteUnready` or `Withdraws`, `Anchor`, `ClockTick`, `RawTick`.
`Elapse` lets the window run out.  The eligible players and the counter are read
as one step; two sessions that insert the register for the first time at once
are not modelled; what the session's identity map may serve as the counter is a
choice.

### Behaviour

`set_entity_behaviour` (`EditReads`, `EditWrites`, `EditFails`), `set_script`
(`Enact`), the operator's endpoints (`Switch`, `Delete`), and the script pass with
its crash revert (`TickReads`, `Succeed`, `Skip`, `Limp`, `Revert`).  Rows are
numbered in creation order; the version number of an edit is counted before the
lock only if there is nothing to retire, as in the code.  Streaks saturate at
the threshold, where they are acted on.  Three variables are history: `crashes`
of each activation, the rows the operator `switched` on with the streak they had,
and `alone`, whether the last edit replaced just what was active and nobody else
has switched a row since.

### Market

One market: `book`, oldest first; `shelf`, each seller's delivered goods; `held`,
unreserved holdings; `coins`; while an auction settles the orders each side has
yet to pass, whose foremost are `BestBid` and `BestAsk`, the heads of the sorted
lists of `_settle`; `hand`, the API's order between its read and its write.

| Action | Code |
|---|---|
| `Place`, `CancelOrder` | `place_order` and `cancel_order` in a script, inside the tick |
| `Ask`, `Answer` | the same from the API: reads without the lock, then the writes |
| `OpenAuction`, `StepAside`, `Broke`, `Bare`, `Trade`, `CloseAuction` | `clear_market`, `_clearing_price`, `_settle` |
| `Reclaim` | `_reclaim_escrows` |
| `Walk`, `Spend`, `Rot`, `Die`, `Commit` | arrivals, draws, decay, death and estate, the end of the tick |

What is closed is dropped from the book (`Kept`), unless a request in hand has
seen it open.  Of an entity's own two orders the younger steps aside and is not
looked at again, so that `NobodyLeftWilling` promises no more than it can: with
four orders in the book a seller who stepped aside for her own bid may end
opposite a buyer who would have had her.  Quantities are whole quanta.  The
market is sited or not by a choice in `Init`; creating and switching markets and
several of them sharing a purse are not modelled.

### Statute and Polity

`Statute` is the promise: the law is a value per topic and changes by the order
of one who holds the power, or by decisions each of which is all or nothing.
`Polity` is how it is kept.  Five weight models, the delegation and council
registers, `Propose`, `Vote`, and an enactment that opens a frame (`Enact`),
applies its mutations one by one (`Apply`), fires hooks inside (`HookOrders`,
`HookEnacts`, `HookRests`), and either finishes or is rejected with everything it
did (`Finish`, `Reject`).  `Life` moves shares, registers and deaths between
enactments.  `AllOrNothing` is `Lawmaking!Spec`, the `INSTANCE` of `Statute` over
the law and the statuses as they stand outside the transaction.  Left out: the
quorum of the constitutional floor (`services.py:1271`); thresholds are whole
percents.

### Land

Accounts, parcels, facilities, private and shared shelves, the woodpile, fires,
deposits and the processes that work them.  A controller parks intents in the
outbox (`Submit`), acts at once between ticks (`ResolveNow`) or by script
(`ScriptActs`); `Drain` resolves what is parked or refuses it; the phases are
dawn (completions, regeneration), intents, dusk (burning, rot, deaths) and idle.
A death passes land, shelves and accounts by the estate rule in force.

The quantities a controller stores, takes, drops or picks up have any sign:
`scripting.resolve_intent` asks that they are finite, and the four services in
`parcels.py` compare them with what is there and nothing else.  A drop of less
than nothing leaves the shelf owing what it puts in a hand, so a shelf is a whole
number, and `Stock` is what is in hand and on shelves less what shelves owe.  The
other quantities are positive because the code asks (`services.seize`, the money
intents); payments are of one unit.  A seizure takes goods, parcels or both into
the hands it names; money is a levy's.

### Travel

A journey is a route with an itinerary frozen at departure, walked hop by hop;
a hop is a process.  `StartRoute` plans and sets out, `EndHop` cancels, and the
arrival pass (`stage` is `"pass"`) visits first the routes that wait for light,
then those that were active when it began (`todo`, by `Ongoing` status).  A start
that finds two journeys active dies with its tick and leaves nothing behind, so
it is no action.

`Searched` is the search of `edges.route` as a recursive function of the number
of pops: `Sought` pops the heap until the destination is settled, `Relaxed`
settles a place and pushes the neighbours it improves on.  `way` keeps for each
place the roads by which `came_from` leads to it, and its cost is `dist`.  Of
parallel roads to one place each that improves on what was known is pushed and
the first of the cheapest is kept (`BestOf`); the others are popped when the
place is settled, and skipped, as in the code.  Shedding drops from each good
what is left of the excess once the goods ahead of it (`Ahead`: larger bundles,
then the symbol) have gone.

### Epochs

Entities are a bag of rows (owner, birth, death, money).  `RoundTick` runs the
observer after each tick and the scan at the closing; `Heartbeat` is the world
clock's tick; `RawTick` runs no observer; `AskJoin`/`AnswerJoin` and
`AskStart`, `AskClose`/`AnswerOperator` are reads and writes of two steps;
`CreateEntity` is `POST /entities`.  Ticks, joins and foundings may fall inside an
operator's request.  The clock stops when nobody is `Alive`, the `Wild` creatures
that are nobody's counted, as they are in `_any_active_entities`.  `begun`, the
tick at which the running epoch was written, is history.

### Body

A creature through attacks (`Strike`, `Prowl`), needs, conditions, the dark, old
age and decay, in the order of the passes (`Dawn`, `Dusk`), and the renewal of
the fauna (`Renew`).  Rolls are fixed by the seed of a tick, so a pair rolls
once between two dawns.  Rolls are of three classes; a prowler remembers what
was said in one tick, not eleven; one need with one satisfier; lit places and
embers are left out.  A sleep is the hours it has to go; an attack cancels it by
the window of `cancel_process`, which counts from the running tick while intents
are resolved and from the coming one between ticks (`ToGo`).  `seeded`, the
sleepers whose outcome the committed events have drawn, and `visited`, whom an
attempt found asleep before that, are history.  `_incapacitate` cancels what
runs without asking the window, so a death ends a sleep that is drawn.
`Buried(b, S)` buries all of S at once: what one leaves after another is clipped
in the heir's hands as the whole of it would be, and an heir who is one of them
ends with nothing, before or after the others.

### StoneAge

The web of recipes, ranks, books, places, births and beasts as data, and the
life of one body in it (`Live`, `Fight`, `Turn`, `Miss`, `Fester`, `Fade`):
a body has a good once it can come by it at all.  Quantities, hours and odds,
bought hours of `LABOR` and the spring are left out.  The book is the union of
its chapters, and the reach of a walk and the ladder above a rank are steps
repeated as often as the map and the ladders are long.

### Catalogue, Readings, Genesis and Queries

No state: operators, evaluated on the rows of the stone age.

- `Catalogue` is what a world may declare: the columns of the engine's tables
  (`GoodRow`, `NeedRow`, ...) and what each `create_*` service refuses
  (`MayCreateGood`, `MayCreateRecipe`, `MayAddFacility`, ...).  The passes never
  check a row again, so the state machines may only be run on worlds that
  install: `MCLand`, `MCTravel` and `MCEpochs` assume it of theirs, and TLC
  evaluates the assumption.
- `Readings` is what the engine reads off a body without keeping it: the
  calendar, the factors of its conditions, the draw of a need, the names it
  bears in the conditions register, strength and odds in a fight, the load a
  road refuses, the shelf and the seat it may use, the waves of the fauna.
- `Genesis` is the rows `create_content` installs and, as assumptions TLC
  evaluates before the run of `StoneAge`, what the pack's notes promise of them:
  every row is one the engine takes and the tech graph can be installed in some
  order (`Installs`, `NoCycleInstalls`); `StoneAge` plays these rows
  (`SameWorld`); who joins is seated as a house is (`SeatsAlike`); which neglect
  kills and when (`Clocks`); torch, ember and firelight (`Kits`, `Torchlight`,
  `Firelight`); the duels (`Duels`); the seasons (`HoursOfNeed`); shared ground
  (`Commonage`); the packs (`Waves`); the roads (`Distances`).
- `Queries` is what a script may ask of the world and who may ask it: balances
  and holdings, the top of a book and the goods on a shelf, the laws, bills and
  tallies, kin and ages, roads and public seats (`scripting.py`); with the feed
  of witnessed events and its delivery (`witness.py`) and the standings of the
  leaderboard.  `Genesis` evaluates them on a village.

### Contracts

`Purse` is the accounts, the pledged good and the clock; `Loan`, `Bank`, `Bond`,
`Exchange` (futures and options) and `Insurance` are the packs, each with the
operations of its Python module, its script and its validator; `Contracts` puts
one of them at work on the purse.  A refused call is rolled back; queued payments
of a bond are resolved holder by holder in any order, a symbol's coupons before
its faces; rounding, tolerances, the issue cap on base money and the stamps kept
for observation are left out.

### Totals

`Total(f, S)` counts units, so that sums are cardinalities, which TLC evaluates
and the prover can reason about; `Totals_proofs` has its laws (adding, splitting,
moving a unit, one more or less, renaming what is summed over) and what choices
rest on: the least of a set of numbers, the foremost of a finite set under an
order, and that ranks number a set.

## Runs

| Run | World | Properties | States |
|---|---|---|---|
| `production_craft` | one entity, FORGE (3 ticks) and COIN_STRIKE (2, vetoed at will), a shared tool | `TypeOK`, `JobsArePaid`, `CommitReveal`, `OnlyTakingBreaksBacking`, `EveryRunEnds` | 135,180 |
| `parallel_restarts` | one recipe, two runs of it at a time | *violation* of `LumpPerCompletion` | |
| `rounds` | two players, two sessions under each of three deployments, K = 2, four ticks | `TypeOK`, `Calendar`, `ConsentIsFresh`, `BackstopCloses` | 511,144 |
| `behaviour` | an owner alone, or two editors, a legislature and the operator overlapping; five rows | `TypeOK`, `OneUnlessOverlapped`, `NextIsFresh`, `NeverSilenced`, `CrasherStopped` | 630,438 |
| `market_book` | a seller who comes and goes, a buyer, a mortal on both sides; sited and not | `ShelfServesBook`, `AuctionIsFair` | 567,598 |
| `polity` | three persons, two governments, an ordinary and a constitutional bill, each under two weight models | `TypeOK`, `LiquidIsSound`, `AllOrNothing`, `BarsHold`, `BillsAreDecided` | 156,348 |
| `land` | three citizens, a camp with five facilities and a wood, each estate rule | `TypeOK`, `LandInUse`, `Conserved`, `DeathSettles` | 223,197 |
| `travel` | one traveller, two maps of three places, a raft, a night of two hours | `RoadsAreWalked`, `JourneysEnd` | 369,867 |
| `epochs` | two players, K = 2, four ticks, two epochs, two conditions | `TypeOK`, `StampsAreTheWin`, `EliminatedInTime`, `NoRicherLoser` | 4,675,941 |
| `body` | a person, an institution and two beasts of one program | `DeathIsFinal`, `NoOutcomeIsDodged` | 519,505 |
| `stone_age` | thirteen lives: houses denied things, in two seasons, the keeper, the beasts | `LifeTypeOK`, `SurvivalIsFree`, `CraftsAreInHands`, `LadderClimbs` | 16,205 |
| `contracts` | two people and two houses, each pack in turn, three ticks | `TypeOK`, `BooksBalance`, `ForceIsLawful` | 1,207,618 |

`ShelfServesBook`, `RoadsAreWalked` and `DeathIsFinal` have the type invariant of
their module as a conjunct.

What the runs say less of than it may seem.  In `production_craft` a sale and a
taking are one transition, so a sale that ignored reservations is not told from a
taking, which may; and `EveryRunEnds` is of recipes no validator can veto, of which
the one there, FORGE, has no input per tick.  `NoRicherLoser` is of one observation's
choice.  `OneUnlessOverlapped` and `NextIsFresh` are what the code keeps of three
statements it does not, listed below.

Bounds, and why they reach the interesting cases.  *Production*: durations 2 and
3 have a first, a middle and a last tick to pause at; `MaxHolding` 2 a full and a
short holding; `MaxCredit` bounds lumps paid ahead.  *Rounds*, *Epochs*:
`MaxTick` and K give two whole rounds; `MaxEpochs` 2 lets a closed epoch be
followed; `MaxEntities` and `MaxMoney` let a dynasty have two members and cross
either condition.  *Behaviour*: three rows are the least with a crasher, a
fallback and an original, five let both change twice (`MaxScripts`, and
`MaxShared` where the entity is shared).  *Market*: three orders of up to two
quanta (`MaxBook`, `MaxQty`) are the least with a partial fill, a requote and a
second order at a level; two prices the least with a spread.  *Polity*:
`MaxBallots` 2 can carry or sink a bill, `MaxStirs` 1 is a death, a trade or a new
register between vote and tally.  *Land*: `MaxActs` 2 intents, one parked
(`MaxPending`), around one tick (`MaxTicks`); capacities of one and two are full
and not; `MaxIssued`, `MaxWood`, `MaxAmount` bound money and goods, `MaxAmount` on
either side of zero.  *Travel*:
`MaxRoutes` 2 allows a second journey while one waits, `MaxGifts` 1 an overload
underway.  *Body*: `MaxDeeds` 2 in a tick or between two, two `Names`.  *StoneAge*:
`Ills` 2 conditions at once.  *Contracts*: `LastTick` 3, `MaxDeposit`,
`MaxUnits`, `MaxPositions` 2: two positions in one pool.

`CHECK_DEADLOCK FALSE` where a world really may stop: the operator may delete
every row (`Behaviour`), every bill may be decided and everybody settled
(`Polity`), everybody may be dead or the bounded ticks over (`Epochs`, `Land`,
`Contracts`).

### Fairness

- `Production`, `Travel`: weak fairness of a tick's own steps.  `run_tick` is one
  call that runs its passes to the end, and the loops of `main.py` keep calling
  it.  Nothing is assumed of starts, cancellations, takings or deaths.
- `Rounds`: weak fairness of `Elapse`, for wall-clock time passes, and of every
  step of a poll, for `_deadline_scheduler` sleeps and polls for ever and
  survives an exception.  Nothing is assumed of players or operators.
- `Behaviour`: weak fairness of the tick's read, of its next script, and of the
  end of an edit in hand: a request once begun is answered.
- `Polity`: weak fairness of the steps of an enactment and of its hooks, one
  call; strong fairness of `Enact(b)`, for the operator's sweep
  (`econ/api/governance.py`) and a clerk's script try every open bill again and
  again, and other enactments come between.  Nothing is assumed of voters.
- The other modules state no liveness.

### Disagreements with what the repository says

One is a run: `parallel_restarts`, where `start_process` reads the ledger and
leaves it, so two restarts of one recipe both skip the lump and both complete.
The others are stated in the modules with the line they quote and are left out of
the runs; each is violated by what the code does.

| Statement | Module | What the code does |
|---|---|---|
| `OnlyTheLivingComplete` | `Production` | the due list is not looked at again after a hook has killed an owner: his cancelled run still completes |
| `ConsentCloses` | `Rounds` | with polls, `maybe_auto_advance` writes an old register back under the open round |
| `LivesOn` | `Behaviour` | the fallback is the newest other row, not the last that worked |
| `ExactlyOne` (`services.py:804`, `806`) | `Behaviour` | an edit retires the rows it read before the lock, so one that a tick, a law or another edit has switched meanwhile stays; a revert may cross lineages and stand beside a current version; the operator may switch on a second |
| `FreshWindow` (`tick.py:355`) | `Behaviour` | the operator's switch leaves the old streak of the row |
| `NamesNeverRunOut` (`services.py:687`, `730`) | `Behaviour` | the version is a count of rows: with one deleted below another the next name is taken and every edit refused |
| `GoodsAccounted`, `Overlapping` TRUE | `Market` | `adjust_holding` computes from the balance read before the lock |
| `TurnoutIsAFraction` | `Polity` | votes keep the weight of when they were cast |
| `TheDeadTakeNoPart` | `Land` | a parked intent of somebody dead by then is resolved where nothing asks |
| `NoShelfOwes` ("the pool cannot go negative", `parcels.py:376`, `docs/camp-storage.md:138`) | `Land` | a quantity dropped or stored may be negative, which no check on the row refuses |
| `StorageConserves` (`parcels.py:322`, `services.py:331`, `docs/camp-storage.md:46`, `test_camp_storage.py:291`) | `Land` | what moves to a hand that is full at `max_holding` is gone; `seize`, likewise, loses what the recipient has no room for |
| `NoRunPinsAnEstate` (`conditions.py:460`, `parcels.py:18`) | `Land` | the estate passes land on under a run of somebody else at a public facility of the dead |
| `OneJourney`, `ShedOnlyToWalk` | `Travel` | a waiting route does not count; a load is shed before the hop is refused |
| `TheEliminatedNeverWin`; `StampedIsWon` (`epochs.py:15`, `196`) | `Epochs` | `POST /entities` asks no register; closing writes back what was read before the lock, so a win in between keeps its stamps and loses its winners |
| `DeathAsVisible` | `Body` | without the world clock a nested death is lost |
| `RankKeepsItsPromise` | `StoneAge` | TANNING promises what needs LEATHER, of LEATHERWORK |
| `OnlyOnDefault`; `ForeclosureIsLawful` with two lenders | `Loan` | `enforce` asks no status; the mirror is one per borrower |
| `NoLoanIsForgotten` | `Bank` | a second loan is written over the first |
| `CouponsArePaidOnce`, `Tidy` FALSE | `Bond` | old units are paid again under a symbol issued again |
| `SettlementCanBeHad` | `Exchange` | a loss of exactly the margin pays nothing and is refused; a price of zero divides |
| `PaidIsPaid` with a shared heir; `NoDeathIsMissed` | `Insurance` | the coverage oracle has a row per account: a second policy on one heir's account overwrites the first with less cover, and the validator vetoes the payout the script has marked paid; events are shown for one tick |

Smaller ones, in no run.  `Genesis` computes with the code's numbers where a
comment has others: a total fast kills at hour 85 and not at 55
(`stone_age.py:294`), because the incapacity pass reads what the rot has left and
the equilibrium of hunger there is 15.2 against a line of 15; the grant of
exposure is 1 and not 1.5; the wolves are bounded by 3 alive and not four
(`stone_age.py:483`); an ember can be struck from for one hour after the
burnout, whose own hour is the first of its two; infection, frostbite and the
blizzard alone never reach their kill lines.  By night `required_quantity` lets
the night's rate go before the season's, which its docstring puts first
(`needs.py:184`).  In no model: "whole-hour work refuses" of squalor, the hours of
STOKE_FIRE, "only exits" of infection.

## Proofs

TLAPS checks the theorems below for every value of the constants that meets the
named assumptions of each module (`ProductionAssumption`, `RoundsAssumption`, ...;
TLC evaluates each on its run) and the hypothesis given.  With them every
invariant and every safety property of the runs of Production, Rounds, Behaviour,
Market, Polity, Land, Travel, Epochs, Body, StoneAge and Contracts is a theorem.
`Behaviour_proofs` also extends StoneAge, `Rounds_proofs` also Market,
`Epochs_proofs` also Body and `Land_proofs` also Travel, each in a half of its
own: two specifications side by side, with no variable in common.

| Theorem | Of | Rests on |
|---|---|---|
| `ProductionTypes` | `TypeOK`: no run and no bank exceeds its recipe | inductive itself |
| `CommitRevealHolds` | no due run is taken back but by completion, death, or a failed charge of a vetoed run | `DueInv`: past the completion pass only a vetoed mint is due |
| `JobsArePaidHolds` (`OneRun`) | time, effort and lumps of every completion are paid | `LedgerInv`: ticks banked and run are ticks worked, lumps paid are claims open |
| `OnlyTakingBreaksBackingHolds` (`ToolsAreKept`) | reservations stay covered until a draw that ignores them | `HoldingInv`: no holding above its cap |
| `RoundsTypes` | no session has read further than the world has come | inductive itself |
| `CalendarHolds` | `counter + missed = ticks \div K` | `TypeOK`, `WholeRound`, `OneTick` |
| `ConsentIsFreshHolds` | without polls, a round resolved by the last ready was asked for by all who live | `FreshInv`: what a session or the register counts, was asked in this round |
| `BehaviourTypes` | names are unique, what is listed or seen exists | inductive itself |
| `OneBehaviour` | an edit that replaced just what was active leaves exactly one, until somebody else switches one | `OneInv`: what a tick has yet to run is active, or the active row is newer than every other |
| `NextIsFreshHolds` | an old streak is the operator's doing, a taken name a deletion's | the streaks part in his switch alone; `NamesInv`: a number given was preceded by all below it |
| `NeverSilencedHolds` | only the operator leaves an entity without a script | the step itself |
| `MarketTypes` (`MarketTypeOK`) | no account overdrawn, no holding past its cap, no order overfilled | `Orderly`: what is in a queue is open and eligible, and what is eligible and in none stepped aside |
| `AuctionIsFairHolds` | the most changes hands, price and age decide, nobody willing is left | `Orderly`, `QuotedIsBest`, `ClearingPriceIs` |
| `ShelfServesBookHolds` (`Overlapping` FALSE) | the shelf backs what it backed; goods are accounted for | `Orderly`, `Straight`: what a request has read is so when it writes |
| `OnlyTheLivingTradeHolds` (`Overlapping` FALSE) | whoever has an order is alive | `Straight`, `Living` |
| `PolityTypes` | frames, ballots and registers keep their types | `IInv`, `BodyOK` |
| `AllOrNothingHolds` | `Polity` implements `Statute` | `IInv`: a frame has moved the law by its mutations so far, the bills inside it and hooks |
| `BarsHoldHolds` | what is enacted cleared the floor it was tallied under; no power comes from nothing | `BarInv` |
| `LiquidIsSoundHolds` | a voter's weight is the number of the living whose chain ends with them | `TypeOK` and a lemma about chains |
| `LandTypes`, `ConservedHolds`, `DeathSettlesHolds` | ranges; conservation of money and goods, debts of shelves counted; the estate | `WorldInv` |
| `LandInUseHolds` | land in use stays with its user; only a death takes it, and only from under work in public | `LandInv` |
| `TravelTypes` (`TravelTypeOK`) | routes, walkers and passes keep their types | `TravelInv` |
| `RoadsAreWalkedHolds` | the cheapest road is planned and walked hop by hop | `TravelInv`: a route is active while it has a hop, and goes on only with a hop to walk; `Found`, `Heaped`, `Relieved` of the search |
| `RoadIsFoundHolds` | where there is a way, the search finds a cheapest | the same, and `PopsOnce` |
| `EpochsTypes` | the registers keep their types | `TypeInv` |
| `StampsHold`, `EliminatedInTimeHolds` | a stamp is a crossing and the winners on record, or a close was in flight; extinctions are recorded once | `StampInv`, `ElimInv` |
| `NoRicherLoserHolds` | nobody who stands as high as a winner is passed over | `TypeInv`, `FreshInv`: no stamp is ahead of its epoch |
| `BodyTypes` (`BodyTypeOK`) | no holding past its cap, no counter below zero | `BodyInv` |
| `DeathIsFinalHolds` | who is dead is bare, told of once and not born again; a kill makes no more food than its bite and its carcass | `BodyInv`: who lives has hits and is below the threshold in the middle of a tick too; the names given are the first of the list |
| `NoOutcomeIsDodgedHolds` | an attempt ends every sleep but one whose outcome is drawn, which finishes | `SeedInv`: between ticks whose last hour is next is seeded, among a tick's deeds nobody is |
| `StoneAgeTypes` (`LifeTypeOK`) | what a life holds, knows and has at hand is the pack's | inductive itself |
| `CraftsAreInHandsHolds` | no craft without its rank, but by trade | `LifeTypeOK`, every recipe of the book by its chapter |
| `SurvivalIsFreeHolds` | whatever is denied but its own ground, a settled life is fed and sheltered | `Provided`: hands, nature and own ground are kept and, in winter, comforts or a roof and a bed |
| `LadderClimbsHolds` | a rank denied takes down those above it and no others | `Denied`: a rank denied is never known, nor one above it |
| `ContractsTypes` | no account overdrawn, rows in range | inductive itself |
| `ForceIsLawfulHolds` (`OneLender`) | force stays within law and contract | `MirrorInv`: the oracle is the book |
| `BooksBalanceHolds` (`Tidy`, `OwnHeirs`) | every book agrees with its money | `BooksInv`: per pack, what is on the book, what is queued and what is covered |

The hypotheses.  `OneRun`: an entity has one run of a recipe at a time;
`parallel_restarts` shows the code does not enforce it and why it is needed.
`ToolsAreKept`: no recipe draws what it also requires as a tool.  A start checks
the requirement and the inputs one after the other (`production.py:662`, `720`),
so a recipe that did both could start on one hammer and lose it; the recipes of
the stone age satisfy it.  `OneLender`, `Tidy`, `OwnHeirs`: without them the
statements fail, as the table above says.  `Overlapping` FALSE: likewise.
`GroundAssumption` of StoneAge says that no life is barred from the hearth, the
thicket and the river, and that whoever may not fight can hunt: a boar, or a
house shut out of the forest, would starve of it.

How the arguments go.

- *Sums are cardinalities.*  A conserved sum is the number of its units, so that
  a movement between two accounts is `TotalMove` of `Totals_proofs` and no
  induction over a fold is needed.
- *One behaviour.*  A tick may have listed scripts that an edit has since retired.
  Had it to give one of them up for another, two would be active; but the fallback
  is the newest other row, and after an edit that is the row the edit wrote
  (`Latest`), which is active already.
- *Names.*  Numbers of a lineage are given densely, so a count that names a taken
  version is short of a row below it, which was deleted (`TakenAfterDeletion`).
- *Conservation on land* (`WorldInv`) adds to the types that the balances and
  what was buried with the dead add up to what was issued, which bounds every
  balance, and that who works land owns it or works in public.  What a shelf owes
  counts as less than nothing (`Net`), so that a negative drop and the hand it
  fills cancel, and a hand is never overdrawn by one because every service credits
  or draws it through `adjust_holding`.  Each of the twelve
  intents, the drain, the passes and the death has its own step.
- *Lawmaking* is proved by saying what an open frame may have done: every
  topic is as it was when the frame opened, or as a mutation applied, a bill
  enacted inside, or a hook has it.  An abandoned frame restores, a finished one
  hands over to its parent or commits one step of `Statute`.
- *Liquid weight.*  The constituency of a voter is defined from below, as the
  least set closed under delegation; the code walks chains.  `CountUp` is
  induction over `1..n` by least counterexample; `ChainRepeats` is the pigeonhole
  by which a chain as long as there are people has met itself; so a chain that
  ends, ends within the walk, and its head is counted by exactly one voter.
- *The price of an auction.*  The code looks for the greatest volume among the
  quoted prices only.  `QuotedIsBest`: from any price at which anything trades,
  falling to the dearest ask at or below it leaves supply as it is and demand no
  smaller, so no price between quotes moves more.  Then `Orderly` follows the two
  queues through the fills: whoever is eligible and no longer in a queue is
  filled, cancelled or stepped aside for an older order of its own.
- *The shelf.*  An order of the API writes what it read, so `Straight` carries from
  the read to the write that the claims and the balance are still those; between
  ticks nothing else moves a holding.  Claims are sums over the open asks, by
  `TotalMove`; an auction's fill takes the same off a claim and off the shelf.
- *The search for a road.*  `Iterated` unfolds the recursive function, and the
  invariant of its steps says that every way kept leads where it says by fewer
  roads than places are settled (`Found`), that what is known and not settled is
  on the heap at its cost, and nothing settled cost more than what is (`Heaped`),
  and that the neighbours of the settled cost at most a road more (`Relieved`).
  A place is then *worth* what its way costs where that is below the cost of
  the destination, and the latter elsewhere; a road is worth at most its cost, so
  no trip to the destination costs less than the way kept (`NoneCheaper`).
  Nothing is pushed twice under one `tie`, so what has been popped numbers the
  steps (`PopsOnce`): within two for a road the search has nothing left or what
  it sought (`SearchEnds`), and with nothing left it has settled all that roads
  lead to (`AllSettled`).
- *The load.*  The bundles stand in an order, and one of them makes up the excess:
  all before it go whole, those after it stay, and what is left is what the road
  takes (`Turning`, `ShedFits`).
- *The body.*  A bite, a cut, a seizure, an estate and each pass of the evening is
  a lemma about one record or one larder.  Food is a sum over everybody: a burial
  hands the larders of the buried to one heir at most (`FareHandedOn`), and every
  pass only takes (`FareFalls`).  `DuskSteps` then shows that nobody is both of the
  sick and of the old buried after them, so that no death is told twice.
- *The web of recipes.*  A recipe is sound by the chapter it is written in, and a
  settled life has what it can come by; each meal, bed and study is then reached
  by naming the recipe that gives it and the ones that give what it needs.
- *The bond* (`IssueInv`): what was spent and what is still queued is at most what
  the periods settled have promised on the units sold, so that a skipped tick that
  is caught up with pays each period once.

Only model-checked.  Liveness (`EveryRunEnds`, `BackstopCloses`,
`CrasherStopped`, `BillsAreDecided`, `JourneysEnd`), for the prover does not
reason about fairness.  In `Land` the drain's refusal is `~ENABLED Resolve(i)`, which
the proofs treat as a step that changes nothing but the outbox.

## Not modelled

Listed in `PROJECT.json` with the reason.  The Lua and Python engines are
interpreters: a script is any choice of intents, a crash any choice of failure.
Routers, schemas and MCP tools are adapters.  The catalog and the witness feed
only read.  Presence is not modelled yet.  Of the experiments, the agents and
dashboards act through the API like any client.

## Plan

1. Two markets on one purse; creation and switching of markets.
2. The rest of goods and needs in a state machine: several needs on one larder,
   the woodpile and the herd factor inside a completion.
3. `Presence`: revisions assigned under the lock and published after it.
4. `Tick`: the passes of all modules in one order.
5. Two legislated lineages: two current versions after a cross-lineage revert.
