----------------------------- MODULE Production -----------------------------
(***************************************************************************)
(* Processes and the resume ledger (engine/econengine/production.py) under *)
(* the passes of engine/econengine/tick.py.                                *)
(*                                                                         *)
(* A process is a run of a recipe by an entity.  Starting one draws the    *)
(* lump inputs, or, when the ledger holds ticks already paid into the      *)
(* recipe, draws nothing and runs only what remains.  Each tick completes  *)
(* the runs that are due, lets scripts and the API start and cancel,       *)
(* charges the per-tick inputs, lets consumption and decay eat, and        *)
(* commits the events hash that seeds the next tick's outcome rolls.       *)
(*                                                                         *)
(* Time is relative: the code's started_tick and completes_tick are kept   *)
(* as age = next_tick - started_tick and left = completes_tick - next_tick *)
(* where next_tick is production.next_tick_number.  The many gates that    *)
(* can only refuse a start (daylight, season, place, technology, parcel)   *)
(* are the freedom not to take the action; the world has no woodpile.      *)
(***************************************************************************)
EXTENDS Integers, Totals

CONSTANTS
  Entity,     \* entities that run recipes
  Recipe,     \* recipe codes
  Slot,       \* bounds how many runs of one recipe an entity has at once
  Good,       \* symbols held (COIN included, for the currency leg)
  Labor,      \* the effort good: a short ration weakens the run
  Dur,        \* duration_ticks of a recipe
  Lump,       \* inputs (and currency_cost) drawn at a paid start
  PerTick,    \* per_tick_inputs drawn by every tick of a run
  Need,       \* good_requirements: present, reserved, not consumed
  Yield,      \* outputs credited at completion
  Mint,       \* recipes with a money output, which a validator may veto
  MaxHolding, \* max_holding of every good: credits are clipped there
  MaxCredit   \* bounds the lumps an entity pays ahead of completions

Bundle == [Good -> Nat]

ASSUME ProductionAssumption ==
  /\ Labor \in Good
  /\ Dur \in [Recipe -> Nat]
  /\ Lump \in [Recipe -> Bundle]
  /\ PerTick \in [Recipe -> Bundle]
  /\ Need \in [Recipe -> Bundle]
  /\ Yield \in [Recipe -> Bundle]
  /\ Mint \subseteq Recipe
  /\ MaxHolding \in Nat
  /\ MaxCredit \in Nat

VARIABLES
  phase,    \* the pass of run_tick in progress; "idle" between ticks
  todo,     \* runs the pass in progress selected and has not visited
  minting,  \* the completion whose deposit is firing hooks, if any
  alive,    \* entities whose status is ACTIVE
  held,     \* holdings
  run,      \* processes; off when not RUNNING
  bank,     \* the resume ledger: ticks paid and weakest effort
  credit,   \* history: lump draws minus completions of a recipe
  paid,     \* history: LABOR the last lump draw of a recipe took
  worked    \* history: ticks of work paid towards the next completion

vars == <<phase, todo, minting, alive, held, run, bank, credit, paid, worked>>

Run == Entity \X Recipe \X Slot
Phase == {"idle", "complete", "intents", "charge", "rot"}

(* Full effort: the declared LABOR input, in the quarter-units a world     *)
(* counts labour in; a recipe without one always runs at full effort.      *)
FullEffort(r) == Lump[r][Labor]

Off(r) == [on |-> FALSE, age |-> 0, left |-> 0, effort |-> FullEffort(r)]
NoBank(r) == [ticks |-> 0, effort |-> FullEffort(r)]

Smaller(a, b) == IF a <= b THEN a ELSE b
Clip(n) == Smaller(n, MaxHolding)

-----------------------------------------------------------------------------
(* Holdings.                                                               *)

Running(e) == {j \in Run : j[1] = e /\ run[j].on}

(* What the running processes of e reserve: a query, not an escrow.        *)
Reserved(e, g) ==
  Total([j \in Run |-> Need[j[2]][g]], Running(e))

Free(e, g) == held[e][g] - Reserved(e, g)

(* Mutant: draws look at the whole balance.                                *)
CoversHeld(e, b) == \A g \in Good : held[e][g] >= b[g]

(* The unreserved balance covers a bundle; a good the bundle does not name *)
(* is not looked at.                                                       *)
Covers(e, b) == \A g \in Good : b[g] > 0 => Free(e, g) >= b[g]

(* A draw never takes a holding below zero, whatever is reserved.          *)
CanDraw(h, b) == \A g \in Good : b[g] <= h[g]
Draw(h, b) == [g \in Good |-> h[g] - b[g]]

(* Outputs priced by the effort paid at start, clipped at max_holding.     *)
Scaled(q, r, effort) ==
  IF FullEffort(r) = 0 THEN q ELSE (q * effort) \div FullEffort(r)
Credited(h, r, effort) ==
  [g \in Good |->
     IF Yield[r][g] = 0 THEN h[g]
                        ELSE Clip(h[g] + Scaled(Yield[r][g], r, effort))]

-----------------------------------------------------------------------------
(* Starting.                                                               *)

(* The API between ticks, intents and the retry during the intent pass,    *)
(* and the hooks a minting completion fires.                               *)
Open == phase \in {"idle", "intents"} \/ minting # {}

CanStart(e, r, s) ==
  /\ Open
  /\ alive[e]
  /\ ~run[<<e, r, s>>].on
  /\ Covers(e, Need[r])

(* The lump inputs at a labour draw of d: every good but LABOR is hard,    *)
(* LABOR is drawn down to EFFORT_FLOOR, a quarter of what is declared.     *)
LumpAt(r, d) == [Lump[r] EXCEPT ![Labor] = d]

LumpDraw(e, r, d) ==
  /\ Covers(e, LumpAt(r, 0))
  /\ IF FullEffort(r) = 0
     THEN d = 0
     ELSE /\ d > 0
          /\ 4 * Free(e, Labor) >= FullEffort(r)
          /\ d = Smaller(Free(e, Labor), FullEffort(r))
  /\ CanDraw(held[e], LumpAt(r, d))

(* The row is created with the ticks still to run; with none left the      *)
(* start completes inline, clearing the ledger.                            *)
Launch(e, r, s, effort, holdings, paidLump) ==
  LET remaining == Dur[r] - bank[<<e, r>>].ticks
  IN  IF remaining = 0
      THEN /\ held' = [held EXCEPT ![e] = Credited(holdings, r, effort)]
           /\ worked' = [worked EXCEPT ![<<e, r>>] = 0]
           /\ bank' = [bank EXCEPT ![<<e, r>>] = NoBank(r)]
           /\ credit' = [credit EXCEPT ![<<e, r>>] = @ + paidLump - 1]
           /\ UNCHANGED run
      ELSE /\ held' = [held EXCEPT ![e] = holdings]
           /\ run' = [run EXCEPT ![<<e, r, s>>] =
                [on |-> TRUE, age |-> 0, left |-> remaining, effort |-> effort]]
           /\ credit' = [credit EXCEPT ![<<e, r>>] = @ + paidLump]
           /\ UNCHANGED <<bank, worked>>

(* start_process with nothing banked: the lump is paid.                    *)
Start(e, r, s) ==
  /\ CanStart(e, r, s)
  /\ bank[<<e, r>>].ticks = 0
  /\ credit[<<e, r>>] < MaxCredit
  /\ \E d \in 0..FullEffort(r) :
       /\ LumpDraw(e, r, d)
       /\ Launch(e, r, s, d, Draw(held[e], LumpAt(r, d)), 1)
       /\ paid' = [paid EXCEPT ![<<e, r>>] = d]
  /\ UNCHANGED <<phase, todo, minting, alive>>

(* start_process with banked ticks: no lump, the banked run's effort.      *)
Resume(e, r, s) ==
  /\ CanStart(e, r, s)
  /\ bank[<<e, r>>].ticks > 0
  /\ Launch(e, r, s, bank[<<e, r>>].effort, held[e], 0)
  /\ UNCHANGED <<phase, todo, minting, alive, paid>>

-----------------------------------------------------------------------------
(* Pausing: cancellation and per-tick failure bank the ticks paid.         *)

(* Mutant: the bank is not capped at the duration.                         *)
BankedUncapped(b, r, p) ==
  [ticks |-> b.ticks + p.age, effort |-> Smaller(b.effort, p.effort)]

Banked(b, r, p) ==
  IF p.age = 0 THEN b
  ELSE [ticks  |-> Smaller(Dur[r], b.ticks + p.age),
        effort |-> Smaller(b.effort, p.effort)]

Pause(e, r, s) ==
  /\ bank' = [bank EXCEPT ![<<e, r>>] = Banked(@, r, run[<<e, r, s>>])]
  /\ run' = [run EXCEPT ![<<e, r, s>>] = Off(r)]

(* Mutant: a run that is due may still be cancelled.                       *)
WindowLate(p) == p.left >= 0

(* The cancellation window closes once the completing tick is the next     *)
(* one: the seed of its outcome roll is then committed.                    *)
WindowOpen(p) == p.left > 0

Cancel(e, r, s) ==
  /\ Open
  /\ run[<<e, r, s>>].on
  /\ WindowOpen(run[<<e, r, s>>])
  /\ Pause(e, r, s)
  /\ UNCHANGED <<phase, todo, minting, alive, held, credit, paid, worked>>

-----------------------------------------------------------------------------
(* The passes of run_tick that touch processes.                            *)

Due(p) == p.on /\ p.left = 0

(* Mutant: runs resumed from the ledger are not selected.                  *)
BeginTickFresh ==
  /\ phase = "idle"
  /\ phase' = "complete"
  /\ todo' = {j \in Run : Due(run[j]) /\ bank[<<j[1], j[2]>>].ticks = 0}
  /\ UNCHANGED <<minting, alive, held, run, bank, credit, paid, worked>>

BeginTick ==
  /\ phase = "idle"
  /\ phase' = "complete"
  /\ todo' = {j \in Run : Due(run[j])}
  /\ UNCHANGED <<minting, alive, held, run, bank, credit, paid, worked>>

(* Mutant: the ledger outlives the job.                                    *)
SpentNot(b, r) == b

(* The banked time is spent: the ledger must not discount a second job.    *)
Spent(b, r) == NoBank(r)

Selected(e, r, s) == phase = "complete" /\ minting = {} /\ <<e, r, s>> \in todo

CreditOutputs(e, r, s) ==
  held' = [held EXCEPT ![e] = Credited(@, r, run[<<e, r, s>>].effort)]

CloseRun(e, r, s) ==
  /\ run' = [run EXCEPT ![<<e, r, s>>] = Off(r)]
  /\ bank' = [bank EXCEPT ![<<e, r>>] = Spent(@, r)]
  /\ credit' = [credit EXCEPT ![<<e, r>>] = @ - 1]
  /\ worked' = [worked EXCEPT ![<<e, r>>] = 0]

(* The list of due runs was read once; their status is not looked at again.*)
Complete(e, r, s) ==
  /\ Selected(e, r, s)
  /\ r \notin Mint
  /\ CreditOutputs(e, r, s)
  /\ CloseRun(e, r, s)
  /\ todo' = todo \ {<<e, r, s>>}
  /\ UNCHANGED <<phase, minting, alive, paid>>

(* A money output rides services.deposit, whose hooks act while the run    *)
(* that minted is still RUNNING and the ledger not yet cleared.            *)
MintOutputs(e, r, s) ==
  /\ Selected(e, r, s)
  /\ r \in Mint
  /\ CreditOutputs(e, r, s)
  /\ minting' = {<<e, r, s>>}
  /\ todo' = todo \ {<<e, r, s>>}
  /\ UNCHANGED <<phase, alive, run, bank, credit, paid, worked>>

FinishMint(e, r, s) ==
  /\ minting = {<<e, r, s>>}
  /\ CloseRun(e, r, s)
  /\ minting' = {}
  /\ UNCHANGED <<phase, todo, alive, held, paid>>

(* A validator refuses the mint: the savepoint rolls the completion back   *)
(* and the process stays RUNNING, to be tried again next tick.             *)
Veto(e, r, s) ==
  /\ Selected(e, r, s)
  /\ r \in Mint
  /\ todo' = todo \ {<<e, r, s>>}
  /\ UNCHANGED <<phase, minting, alive, held, run, bank, credit, paid, worked>>

EndComplete ==
  /\ phase = "complete"
  /\ minting = {}
  /\ todo = {}
  /\ phase' = "intents"
  /\ UNCHANGED <<todo, minting, alive, held, run, bank, credit, paid, worked>>

(* Intents, auctions and the retry are over: per-tick inputs are charged.  *)
EndIntents ==
  /\ phase = "intents"
  /\ phase' = "charge"
  /\ todo' = {j \in Run : run[j].on /\ \E g \in Good : PerTick[j[2]][g] > 0}
  /\ UNCHANGED <<minting, alive, held, run, bank, credit, paid, worked>>

(* All or nothing: every input is checked before any is drawn.             *)
Charge(e, r, s) ==
  /\ phase = "charge"
  /\ <<e, r, s>> \in todo
  /\ Covers(e, PerTick[r])
  /\ CanDraw(held[e], PerTick[r])
  /\ held' = [held EXCEPT ![e] = Draw(@, PerTick[r])]
  /\ todo' = todo \ {<<e, r, s>>}
  /\ UNCHANGED <<phase, minting, alive, run, bank, credit, paid, worked>>

Fail(e, r, s) ==
  /\ phase = "charge"
  /\ <<e, r, s>> \in todo
  /\ ~Covers(e, PerTick[r])
  /\ Pause(e, r, s)
  /\ todo' = todo \ {<<e, r, s>>}
  /\ UNCHANGED <<phase, minting, alive, held, credit, paid, worked>>

EndCharge ==
  /\ phase = "charge"
  /\ todo = {}
  /\ phase' = "rot"
  /\ UNCHANGED <<todo, minting, alive, held, run, bank, credit, paid, worked>>

(* The Tick row is written with its events hash; next_tick moves on.       *)
Aged(p, r) ==
  IF p.on
  THEN [on |-> TRUE, age |-> Smaller(Dur[r], p.age + 1),
        left |-> IF p.left = 0 THEN 0 ELSE p.left - 1, effort |-> p.effort]
  ELSE p

Commit ==
  /\ phase = "rot"
  /\ phase' = "idle"
  /\ run' = [j \in Run |-> Aged(run[j], j[2])]
  /\ worked' = [k \in Entity \X Recipe |->
       IF \E s \in Slot : run[<<k[1], k[2], s>>].on
       THEN Smaller(Dur[k[2]], worked[k] + 1) ELSE worked[k]]
  /\ UNCHANGED <<todo, minting, alive, held, bank, credit, paid>>

-----------------------------------------------------------------------------
(* The rest of the world, as far as processes can tell.                    *)

(* Auto-issue, purchases, grants: one unit more, up to max_holding.        *)
Gain(e, g) ==
  /\ Open
  /\ alive[e]
  /\ held[e][g] < MaxHolding
  /\ held' = [held EXCEPT ![e][g] = @ + 1]
  /\ UNCHANGED <<phase, todo, minting, alive, run, bank, credit, paid, worked>>

(* Settlement sells only what no running process reserves.                 *)
Sell(e, g) ==
  /\ phase = "intents"
  /\ held[e][g] > 0
  /\ Free(e, g) >= 1
  /\ held' = [held EXCEPT ![e][g] = @ - 1]
  /\ UNCHANGED <<phase, todo, minting, alive, run, bank, credit, paid, worked>>

(* Consumption and decay eat a holding, storing and dropping put it down,  *)
(* a seizure, an overload or a bite takes it: none of them asks whether a  *)
(* running process reserved it.                                            *)
Take(e, g) ==
  /\ phase = "rot" \/ Open
  /\ held[e][g] > 0
  /\ held' = [held EXCEPT ![e][g] = @ - 1]
  /\ UNCHANGED <<phase, todo, minting, alive, run, bank, credit, paid, worked>>

(* conditions._incapacitate, from the incapacity pass or from an attack:   *)
(* runs are cancelled with nothing banked and the estate leaves.           *)
Incapacitate(e) ==
  /\ phase = "rot" \/ Open
  /\ alive[e]
  /\ alive' = [alive EXCEPT ![e] = FALSE]
  /\ run' = [j \in Run |->
       IF j[1] = e THEN [run[j] EXCEPT !.on = FALSE] ELSE run[j]]
  /\ held' = [held EXCEPT ![e] = [g \in Good |-> 0]]
  /\ UNCHANGED <<phase, todo, minting, bank, credit, paid, worked>>

-----------------------------------------------------------------------------
Init ==
  /\ phase = "idle"
  /\ todo = {}
  /\ minting = {}
  /\ alive = [e \in Entity |-> TRUE]
  /\ held = [e \in Entity |-> [g \in Good |-> 0]]
  /\ run = [j \in Run |-> Off(j[2])]
  /\ bank = [k \in Entity \X Recipe |-> NoBank(k[2])]
  /\ credit = [k \in Entity \X Recipe |-> 0]
  /\ paid = [k \in Entity \X Recipe |-> FullEffort(k[2])]
  /\ worked = [k \in Entity \X Recipe |-> 0]

Act(e, r, s) == Start(e, r, s) \/ Resume(e, r, s) \/ Cancel(e, r, s)

Visit(e, r, s) ==
  \/ Complete(e, r, s) \/ MintOutputs(e, r, s) \/ FinishMint(e, r, s)
  \/ Veto(e, r, s)
  \/ Charge(e, r, s) \/ Fail(e, r, s)

TickStep ==
  \/ BeginTick \/ EndComplete \/ EndIntents \/ EndCharge \/ Commit
  \/ \E e \in Entity, r \in Recipe, s \in Slot : Visit(e, r, s)

World ==
  \/ \E e \in Entity, g \in Good : Gain(e, g) \/ Sell(e, g) \/ Take(e, g)
  \/ \E e \in Entity : Incapacitate(e)

Next ==
  \/ TickStep
  \/ \E e \in Entity, r \in Recipe, s \in Slot : Act(e, r, s)
  \/ World

Spec == Init /\ [][Next]_vars

(* The clock keeps ticking: a pass that has begun runs to its end, and the *)
(* scheduler (or the operator) keeps calling run_tick.                     *)
FairSpec == Spec /\ WF_vars(TickStep)

-----------------------------------------------------------------------------
(* Every variable has its type, and no run and no bank holds more than the *)
(* duration or the effort the recipe declares.                             *)
RunRow == [on : BOOLEAN, age : Nat, left : Nat, effort : Nat]
BankRow == [ticks : Nat, effort : Nat]

RunOK ==
  /\ run \in [Run -> RunRow]
  /\ \A e \in Entity, r \in Recipe, s \in Slot :
       /\ run[<<e, r, s>>].age <= Dur[r]
       /\ run[<<e, r, s>>].left <= Dur[r]
       /\ run[<<e, r, s>>].effort <= FullEffort(r)

BankOK ==
  /\ bank \in [Entity \X Recipe -> BankRow]
  /\ \A e \in Entity, r \in Recipe :
       /\ bank[<<e, r>>].ticks <= Dur[r]
       /\ bank[<<e, r>>].effort <= FullEffort(r)

HistoryOK ==
  /\ credit \in [Entity \X Recipe -> Int]
  /\ paid \in [Entity \X Recipe -> Nat]
  /\ worked \in [Entity \X Recipe -> Nat]
  /\ \A e \in Entity, r \in Recipe : worked[<<e, r>>] <= Dur[r]

TypeOK ==
  /\ phase \in Phase
  /\ todo \subseteq Run
  /\ minting \subseteq Run
  /\ alive \in [Entity -> BOOLEAN]
  /\ held \in [Entity -> [Good -> Nat]]
  /\ RunOK
  /\ BankOK
  /\ HistoryOK

(* "A recipe transforms exactly what it declares" (production.py:9): over  *)
(* any history of failures, cancellations and restarts an entity has       *)
(* drawn a recipe's lump inputs at least as often as it was credited its   *)
(* outputs.  Resuming skips the draw, so the ledger must fund one job.     *)
LumpPerCompletion ==
  \A e \in Entity, r \in Recipe : credit[<<e, r>>] >= 0

(* "The ledger credits time, it never mints work"                          *)
(* (tests/test_process_resume.py:96): across any number of pauses the      *)
(* ticks paid since the last completion and the ticks a run still has to   *)
(* go add up to the duration, so no completion is early or pays twice.     *)
TimeIsPaid ==
  \A e \in Entity, r \in Recipe, s \in Slot :
    run[<<e, r, s>>].on => worked[<<e, r>>] + run[<<e, r, s>>].left = Dur[r]

(* A run works at the effort the lump that funds it drew, however often it *)
(* is paused and resumed: a job begun on a short ration cannot be          *)
(* laundered into a full one, nor a full one weakened (_bank_progress      *)
(* keeps the effort, start_process stamps it on the resumed process).      *)
EffortIsPaid ==
  \A e \in Entity, r \in Recipe, s \in Slot :
    run[<<e, r, s>>].on => run[<<e, r, s>>].effort = paid[<<e, r>>]

(* A job is paid for: by one lump, at the effort that lump drew, and by as *)
(* many ticks as the recipe takes, whatever pauses, failures, vetoes and   *)
(* hooks come in between (_bank_progress, start_process, _complete).       *)
JobsArePaid == LumpPerCompletion /\ TimeIsPaid /\ EffortIsPaid

(* Commit-reveal (production.py:18-23): once the hash that seeds a run's   *)
(* roll is committed, nothing its owner does takes the run back.  It ends  *)
(* by completing, by the owner's death, or, if a validator refused the     *)
(* mint, by failing its per-tick inputs in a later charge pass.            *)
CommitReveal ==
  [][\A j \in Run :
       Due(run[j]) /\ ~run'[j].on =>
         \/ phase = "complete" /\ (j \in todo \ todo' \/ j \in minting)
         \/ phase = "charge" /\ j[2] \in Mint
         \/ ~alive'[j[1]]]_vars

(* While the holdings back every running process, starts, draws, sales and *)
(* completions keep it so: inputs, per-tick inputs and settlement draw     *)
(* only on the unreserved balance.  What is put down, eaten, rotted or     *)
(* seized is the one way a process loses its hammer.                       *)
Backed(e) == \A g \in Good : Reserved(e, g) <= held[e][g]
StaysBacked == \A e \in Entity : Backed(e) => Backed(e)' \/ \E g \in Good : Take(e, g)
OnlyTakingBreaksBacking == [][StaysBacked]_vars

(* What it rests on: no recipe uses up the tool it is worked with, for a   *)
(* start looks at the requirement and at the inputs one after the other;   *)
(* and no holding exceeds its cap, for then a credit would clip it.        *)
ToolsAreKept == \A r \in Recipe, g \in Good : Need[r][g] > 0 => Lump[r][g] = 0
HoldingInv ==
  \A e \in Entity : /\ IsFiniteSet(Running(e))
                    /\ \A g \in Good : held[e][g] <= MaxHolding

(* Death cancels the running processes and their inputs are forfeit        *)
(* (conditions.py:365-371): no run completes for an entity that was        *)
(* incapacitated before the completion pass reached the run.               *)
OnlyTheLivingComplete ==
  [][\A e \in Entity, r \in Recipe :
       credit'[<<e, r>>] < credit[<<e, r>>] =>
         alive[e] \/ \E s \in Slot : <<e, r, s>> \in minting]_vars

(* No run is stuck: a recipe no validator can veto ends every run of it,   *)
(* resumed ones included, by completion, failure, cancellation or death.   *)
EveryRunEnds ==
  \A j \in Run : j[2] \notin Mint => (run[j].on ~> ~run[j].on)

-----------------------------------------------------------------------------
(* What the ledger properties rest on, when an entity has one run of a     *)
(* recipe at a time.                                                       *)
OneRun == Slot # {} /\ \A s, t \in Slot : s = t

(* The ticks banked and the ticks this run has paid are the ticks worked.  *)
TimeInv(e, r, s) ==
  LET p == run[<<e, r, s>>]
      b == bank[<<e, r>>]
      w == worked[<<e, r>>]
  IN  /\ p.on => /\ alive[e]
                 /\ w + p.left = Dur[r]
                 /\ Smaller(Dur[r], b.ticks + p.age) = w
      /\ alive[e] /\ ~p.on => b.ticks = w

(* A run and the bank it feeds carry the effort of the lump.               *)
EffortInv(e, r, s) ==
  LET p == run[<<e, r, s>>]
      b == bank[<<e, r>>]
  IN  /\ p.on => p.effort = paid[<<e, r>>]
      /\ b.effort = IF b.ticks > 0 THEN paid[<<e, r>>] ELSE FullEffort(r)

(* Whatever may still complete has a lump behind it, and only one such     *)
(* claim is open: a selected run of the living is still running and due.   *)
ClaimInv(e, r, s) ==
  LET j == <<e, r, s>>
      p == run[j]
      selected == j \in todo \cup minting
  IN  /\ credit[<<e, r>>] >= 0
      /\ p.on \/ bank[<<e, r>>].ticks > 0 \/ selected => credit[<<e, r>>] >= 1
      /\ selected /\ (alive[e] \/ phase = "charge") => p.on
      /\ selected /\ p.on /\ phase = "complete" => p.left = 0
      /\ ~(j \in todo /\ j \in minting)

LedgerInv ==
  /\ phase \in {"idle", "intents", "rot"} => todo = {}
  /\ minting # {} => phase = "complete"
  /\ \A e \in Entity, r \in Recipe, s \in Slot :
       TimeInv(e, r, s) /\ EffortInv(e, r, s) /\ ClaimInv(e, r, s)

(* What commit-reveal rests on: a due run is selected by the next          *)
(* completion pass, so past that pass only a vetoed mint is still due.     *)
DueInv ==
  /\ minting # {} => phase = "complete"
  /\ \A j \in minting : j[2] \in Mint
  /\ \A j \in Run : Due(run[j]) =>
       \/ phase = "idle"
       \/ phase = "complete" /\ j \in todo
       \/ j[2] \in Mint
=============================================================================
