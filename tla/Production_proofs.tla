-------------------------- MODULE Production_proofs -------------------------
(* Production, for every world, any entities, recipes, durations, inputs,  *)
(* outputs and holding caps: every variable keeps its type, the committed  *)
(* roll is not escaped, a job is paid for, and only taking unbacks a run.  *)
EXTENDS Production, Totals_proofs

LEMMA Parameters ==
  ASSUME NEW r \in Recipe
  PROVE  /\ Dur[r] \in Nat
         /\ FullEffort(r) \in Nat
         /\ Lump[r] \in [Good -> Nat]
         /\ PerTick[r] \in [Good -> Nat]
         /\ Yield[r] \in [Good -> Nat]
         /\ MaxHolding \in Nat
  BY ProductionAssumption DEF ProductionAssumption, Bundle, FullEffort

LEMMA DivNat ==
  ASSUME NEW a \in Nat, NEW b \in Nat, b # 0
  PROVE  a \div b \in Nat
  OBVIOUS

LEMMA ProductNat ==
  ASSUME NEW a \in Nat, NEW b \in Nat
  PROVE  a * b \in Nat
  OBVIOUS

(* Crediting outputs leaves every holding a natural number.                *)
LEMMA CreditedType ==
  ASSUME NEW r \in Recipe, NEW effort \in Nat, NEW h \in [Good -> Nat]
  PROVE  Credited(h, r, effort) \in [Good -> Nat]
<1>1. ASSUME NEW q \in Nat PROVE Scaled(q, r, effort) \in Nat
  <2>1. q * effort \in Nat
    BY ProductNat
  <2>2. CASE FullEffort(r) = 0
    BY <2>2 DEF Scaled
  <2>3. CASE FullEffort(r) # 0
    <3>1. (q * effort) \div FullEffort(r) \in Nat
      BY <2>1, <2>3, DivNat, Parameters
    <3> QED BY <3>1, <2>3 DEF Scaled
  <2> QED BY <2>2, <2>3
<1>2. ASSUME NEW g \in Good PROVE Clip(h[g] + Scaled(Yield[r][g], r, effort)) \in Nat
  <2>1. Scaled(Yield[r][g], r, effort) \in Nat
    BY <1>1, Parameters
  <2> QED BY <2>1, Parameters DEF Clip, Smaller
<1> QED BY <1>2 DEF Credited

(* A draw that is covered leaves every holding a natural number.           *)
LEMMA DrawType ==
  ASSUME NEW h \in [Good -> Nat], NEW b \in [Good -> Nat], CanDraw(h, b)
  PROVE  Draw(h, b) \in [Good -> Nat]
  BY DEF CanDraw, Draw

(* What the ledger holds after a pause stays within what was declared.     *)
LEMMA BankedType ==
  ASSUME NEW r \in Recipe, NEW b \in BankRow, NEW p \in RunRow,
         b.ticks <= Dur[r], b.effort <= FullEffort(r),
         p.effort <= FullEffort(r)
  PROVE  /\ Banked(b, r, p) \in BankRow
         /\ Banked(b, r, p).ticks <= Dur[r]
         /\ Banked(b, r, p).effort <= FullEffort(r)
  BY Parameters DEF Banked, BankRow, RunRow, Smaller

LEMMA AgedType ==
  ASSUME NEW r \in Recipe, NEW p \in RunRow, p.age <= Dur[r],
         p.left <= Dur[r], p.effort <= FullEffort(r)
  PROVE  /\ Aged(p, r) \in RunRow
         /\ Aged(p, r).age <= Dur[r]
         /\ Aged(p, r).left <= Dur[r]
         /\ Aged(p, r).effort <= FullEffort(r)
  BY Parameters DEF Aged, RunRow, Smaller

LEMMA InitTypes == Init => TypeOK
<1> SUFFICES ASSUME Init PROVE TypeOK
  OBVIOUS
<1>1. RunOK
  <2>1. \A j \in Run : Off(j[2]) \in RunRow
    BY Parameters DEF Run, Off, RunRow
  <2>2. \A e \in Entity, r \in Recipe, s \in Slot : run[<<e, r, s>>] = Off(r)
    BY DEF Init, Run
  <2>3. run \in [Run -> RunRow]
    BY <2>1 DEF Init
  <2>4. ASSUME NEW e \in Entity, NEW r \in Recipe, NEW s \in Slot
        PROVE  /\ run[<<e, r, s>>].age <= Dur[r]
               /\ run[<<e, r, s>>].left <= Dur[r]
               /\ run[<<e, r, s>>].effort <= FullEffort(r)
    <3>1. run[<<e, r, s>>] = Off(r)
      BY <2>2
    <3>2. Dur[r] \in Nat /\ FullEffort(r) \in Nat
      BY Parameters
    <3> QED BY <3>1, <3>2 DEF Off
  <2> QED BY <2>3, <2>4 DEF RunOK
<1>2. BankOK
  <2>1. \A k \in Entity \X Recipe : NoBank(k[2]) \in BankRow
    BY Parameters DEF NoBank, BankRow
  <2>2. \A e \in Entity, r \in Recipe : bank[<<e, r>>] = NoBank(r)
    BY DEF Init
  <2> QED BY <2>1, <2>2, Parameters DEF Init, BankOK, NoBank
<1>3. HistoryOK
  BY Parameters DEF Init, HistoryOK
<1>4. /\ phase \in Phase
      /\ todo \subseteq Run
      /\ minting \subseteq Run
      /\ alive \in [Entity -> BOOLEAN]
      /\ held \in [Entity -> [Good -> Nat]]
  BY DEF Init, Phase
<1> QED BY <1>1, <1>2, <1>3, <1>4 DEF TypeOK

LEMMA LaunchTypes ==
  ASSUME TypeOK, NEW e \in Entity, NEW r \in Recipe, NEW s \in Slot,
         NEW effort \in 0..FullEffort(r), NEW holdings \in [Good -> Nat],
         NEW n \in Int, Launch(e, r, s, effort, holdings, n)
  PROVE  /\ held' \in [Entity -> [Good -> Nat]]
         /\ RunOK'
         /\ BankOK'
         /\ credit' \in [Entity \X Recipe -> Int]
         /\ worked' \in [Entity \X Recipe -> Nat]
         /\ \A f \in Entity, q \in Recipe : worked'[<<f, q>>] <= Dur[q]
<1> DEFINE remaining == Dur[r] - bank[<<e, r>>].ticks
<1>1. remaining \in 0..Dur[r]
  BY Parameters DEF TypeOK, BankOK, BankRow
<1>2. CASE remaining = 0
  <2>1. Credited(holdings, r, effort) \in [Good -> Nat]
    BY CreditedType, Parameters
  <2>2. NoBank(r) \in BankRow /\ NoBank(r).ticks = 0 /\ NoBank(r).effort = FullEffort(r)
    BY Parameters DEF NoBank, BankRow
  <2>3. /\ held' = [held EXCEPT ![e] = Credited(holdings, r, effort)]
        /\ worked' = [worked EXCEPT ![<<e, r>>] = 0]
        /\ bank' = [bank EXCEPT ![<<e, r>>] = NoBank(r)]
        /\ credit' = [credit EXCEPT ![<<e, r>>] = @ + n - 1]
        /\ run' = run
    BY <1>2 DEF Launch
  <2>4. BankOK'
    BY <2>2, <2>3, Parameters DEF TypeOK, BankOK
  <2> QED BY <2>1, <2>3, <2>4, Parameters DEF TypeOK, RunOK, HistoryOK
<1>3. CASE remaining # 0
  <2>1. /\ held' = [held EXCEPT ![e] = holdings]
        /\ run' = [run EXCEPT ![<<e, r, s>>] =
             [on |-> TRUE, age |-> 0, left |-> remaining, effort |-> effort]]
        /\ credit' = [credit EXCEPT ![<<e, r>>] = @ + n]
        /\ bank' = bank /\ worked' = worked
    BY <1>3 DEF Launch
  <2>2. [on |-> TRUE, age |-> 0, left |-> remaining, effort |-> effort] \in RunRow
    BY <1>1, Parameters DEF RunRow
  <2>3. RunOK'
    BY <1>1, <2>1, <2>2, Parameters DEF TypeOK, RunOK, Run
  <2> QED BY <2>1, <2>3 DEF TypeOK, BankOK, HistoryOK
<1> QED BY <1>2, <1>3

LEMMA PauseTypes ==
  ASSUME TypeOK, NEW e \in Entity, NEW r \in Recipe, NEW s \in Slot,
         Pause(e, r, s)
  PROVE  RunOK' /\ BankOK'
<1>1. run[<<e, r, s>>] \in RunRow /\ run[<<e, r, s>>].effort <= FullEffort(r)
  BY DEF TypeOK, RunOK, Run
<1>2. bank[<<e, r>>] \in BankRow
  BY DEF TypeOK, BankOK
<1>3. /\ Banked(bank[<<e, r>>], r, run[<<e, r, s>>]) \in BankRow
      /\ Banked(bank[<<e, r>>], r, run[<<e, r, s>>]).ticks <= Dur[r]
      /\ Banked(bank[<<e, r>>], r, run[<<e, r, s>>]).effort <= FullEffort(r)
  BY <1>1, <1>2, BankedType DEF TypeOK, BankOK
<1>4. BankOK'
  BY <1>3 DEF Pause, TypeOK, BankOK
<1>5. /\ Off(r) \in RunRow /\ Off(r).age = 0 /\ Off(r).left = 0
      /\ Off(r).effort = FullEffort(r)
  BY Parameters DEF Off, RunRow
<1>6. RunOK'
  BY <1>5, Parameters DEF Pause, TypeOK, RunOK, Run
<1> QED BY <1>4, <1>6

LEMMA CloseRunTypes ==
  ASSUME TypeOK, NEW e \in Entity, NEW r \in Recipe, NEW s \in Slot,
         CloseRun(e, r, s), paid' = paid
  PROVE  RunOK' /\ BankOK' /\ HistoryOK'
<1>1. /\ Off(r) \in RunRow /\ Off(r).age = 0 /\ Off(r).left = 0
      /\ Off(r).effort = FullEffort(r)
  BY Parameters DEF Off, RunRow
<1>2. NoBank(r) \in BankRow /\ NoBank(r).ticks = 0 /\ NoBank(r).effort = FullEffort(r)
  BY Parameters DEF NoBank, BankRow
<1>3. RunOK'
  BY <1>1, Parameters DEF CloseRun, TypeOK, RunOK, Run
<1>4. BankOK'
  BY <1>2, Parameters DEF CloseRun, Spent, TypeOK, BankOK
<1>5. HistoryOK'
  BY Parameters DEF CloseRun, TypeOK, HistoryOK
<1> QED BY <1>3, <1>4, <1>5

(* A start either completes inline or begins a run that is not due.        *)
Inline(e, r, n) ==
  /\ bank[<<e, r>>].ticks = Dur[r]
  /\ run' = run
  /\ bank' = [bank EXCEPT ![<<e, r>>] = NoBank(r)]
  /\ worked' = [worked EXCEPT ![<<e, r>>] = 0]
  /\ credit' = [credit EXCEPT ![<<e, r>>] = @ + n - 1]

Begun(e, r, s, left, effort, n) ==
  /\ bank[<<e, r>>].ticks + left = Dur[r]
  /\ run' = [run EXCEPT ![<<e, r, s>>] =
       [on |-> TRUE, age |-> 0, left |-> left, effort |-> effort]]
  /\ bank' = bank
  /\ worked' = worked
  /\ credit' = [credit EXCEPT ![<<e, r>>] = @ + n]

LEMMA LaunchCases ==
  ASSUME TypeOK, NEW e \in Entity, NEW r \in Recipe, NEW s \in Slot,
         NEW effort \in 0..FullEffort(r), NEW h \in [Good -> Nat], NEW n \in Int,
         Launch(e, r, s, effort, h, n)
  PROVE  \/ Inline(e, r, n)
         \/ \E left \in 1..Dur[r] : Begun(e, r, s, left, effort, n)
<1> DEFINE remaining == Dur[r] - bank[<<e, r>>].ticks
<1>1. remaining \in 0..Dur[r] /\ bank[<<e, r>>].ticks + remaining = Dur[r]
  BY Parameters DEF TypeOK, BankOK, BankRow
<1>2. CASE remaining = 0
  <2>1. bank[<<e, r>>].ticks = Dur[r]
    BY <1>1, <1>2, Parameters DEF TypeOK, BankOK, BankRow
  <2> QED BY <1>2, <2>1 DEF Launch, Inline
<1>3. CASE remaining # 0
  <2>1. remaining \in 1..Dur[r]
    BY <1>1, <1>3, Parameters
  <2>2. Begun(e, r, s, remaining, effort, n)
    BY <1>1, <1>3 DEF Launch, Begun
  <2> HIDE DEF remaining
  <2> QED BY <2>1, <2>2
<1> QED BY <1>2, <1>3

(* What a paid start and a resumption launch.                              *)
LEMMA StartLaunches ==
  ASSUME TypeOK, NEW e \in Entity, NEW r \in Recipe, NEW s \in Slot,
         Start(e, r, s)
  PROVE  \E d \in 0..FullEffort(r), h \in [Good -> Nat] :
           /\ Launch(e, r, s, d, h, 1)
           /\ paid' = [paid EXCEPT ![<<e, r>>] = d]
<1>1. PICK d \in 0..FullEffort(r) :
        /\ LumpDraw(e, r, d)
        /\ Launch(e, r, s, d, Draw(held[e], LumpAt(r, d)), 1)
        /\ paid' = [paid EXCEPT ![<<e, r>>] = d]
  BY DEF Start
<1>2. d \in Nat
  BY Parameters
<1>3. held[e] \in [Good -> Nat] /\ LumpAt(r, d) \in [Good -> Nat]
  BY <1>2, Parameters DEF TypeOK, LumpAt
<1>4. Draw(held[e], LumpAt(r, d)) \in [Good -> Nat]
  BY <1>1, <1>3, DrawType DEF LumpDraw
<1> QED BY <1>1, <1>4

LEMMA ResumeLaunches ==
  ASSUME TypeOK, NEW e \in Entity, NEW r \in Recipe, NEW s \in Slot,
         Resume(e, r, s)
  PROVE  /\ bank[<<e, r>>].effort \in 0..FullEffort(r)
         /\ held[e] \in [Good -> Nat]
         /\ Launch(e, r, s, bank[<<e, r>>].effort, held[e], 0)
<1>1. Launch(e, r, s, bank[<<e, r>>].effort, held[e], 0)
  BY DEF Resume
<1>2. bank[<<e, r>>].effort \in 0..FullEffort(r) /\ held[e] \in [Good -> Nat]
  BY Parameters DEF TypeOK, BankOK, BankRow
<1> QED BY <1>1, <1>2

LEMMA StartCases ==
  ASSUME TypeOK, NEW e \in Entity, NEW r \in Recipe, NEW s \in Slot,
         Start(e, r, s)
  PROVE  \E d \in 0..FullEffort(r) :
           /\ \/ Inline(e, r, 1)
              \/ \E left \in 1..Dur[r] : Begun(e, r, s, left, d, 1)
           /\ paid' = [paid EXCEPT ![<<e, r>>] = d]
<1>1. PICK d \in 0..FullEffort(r), h \in [Good -> Nat] :
        /\ Launch(e, r, s, d, h, 1)
        /\ paid' = [paid EXCEPT ![<<e, r>>] = d]
  BY StartLaunches
<1>2. 1 \in Int
  OBVIOUS
<1>3. \/ Inline(e, r, 1)
      \/ \E left \in 1..Dur[r] : Begun(e, r, s, left, d, 1)
  BY <1>1, <1>2, LaunchCases
<1> QED BY <1>1, <1>3

LEMMA ResumeCases ==
  ASSUME TypeOK, NEW e \in Entity, NEW r \in Recipe, NEW s \in Slot,
         Resume(e, r, s)
  PROVE  \/ Inline(e, r, 0)
         \/ \E left \in 1..Dur[r] :
              Begun(e, r, s, left, bank[<<e, r>>].effort, 0)
<1>1. 0 \in Int
  OBVIOUS
<1> QED BY <1>1, ResumeLaunches, LaunchCases

(* Neither takes a run away or makes one due.                              *)
LEMMA StartsNoneDue ==
  ASSUME TypeOK, NEW e \in Entity, NEW r \in Recipe, NEW s \in Slot,
         Start(e, r, s) \/ Resume(e, r, s)
  PROVE  \A j \in Run : /\ Due(run'[j]) => Due(run[j])
                        /\ run[j].on => run'[j].on
<1>1. ASSUME NEW left \in 1..Dur[r], NEW effort \in Nat, NEW n \in Int,
             Begun(e, r, s, left, effort, n)
      PROVE  \A j \in Run : /\ Due(run'[j]) => Due(run[j])
                            /\ run[j].on => run'[j].on
  <2>1. run'[<<e, r, s>>].left # 0 /\ run'[<<e, r, s>>].on
    BY <1>1, Parameters DEF Begun, TypeOK, RunOK, Run
  <2>2. \A j \in Run : j # <<e, r, s>> => run'[j] = run[j]
    BY <1>1 DEF Begun, TypeOK, RunOK
  <2> QED BY <2>1, <2>2 DEF Due
<1>2. ASSUME NEW n \in Int, Inline(e, r, n)
      PROVE  run' = run
  BY <1>2 DEF Inline
<1>3. CASE Start(e, r, s)
  <2>1. PICK d \in 0..FullEffort(r) :
          \/ Inline(e, r, 1)
          \/ \E left \in 1..Dur[r] : Begun(e, r, s, left, d, 1)
    BY <1>3, StartCases
  <2>2. d \in Nat /\ 1 \in Int
    BY Parameters
  <2> QED BY <1>1, <1>2, <2>1, <2>2
<1>4. CASE Resume(e, r, s)
  <2>1. bank[<<e, r>>].effort \in Nat /\ 0 \in Int
    BY DEF TypeOK, BankOK, BankRow
  <2> QED BY <1>1, <1>2, <1>4, <2>1, ResumeCases
<1> QED BY <1>3, <1>4

(* Per action: types survive the step.                                     *)
LEMMA ActTypes ==
  ASSUME TypeOK, NEW e \in Entity, NEW r \in Recipe, NEW s \in Slot,
         Act(e, r, s)
  PROVE  TypeOK'
<1>1. CASE Start(e, r, s)
  <2>1. PICK d \in 0..FullEffort(r), h \in [Good -> Nat] :
          /\ Launch(e, r, s, d, h, 1)
          /\ paid' = [paid EXCEPT ![<<e, r>>] = d]
    BY <1>1, StartLaunches
  <2>2. 1 \in Int
    OBVIOUS
  <2>3. /\ held' \in [Entity -> [Good -> Nat]] /\ RunOK' /\ BankOK'
        /\ credit' \in [Entity \X Recipe -> Int]
        /\ worked' \in [Entity \X Recipe -> Nat]
        /\ \A f \in Entity, q \in Recipe : worked'[<<f, q>>] <= Dur[q]
    BY <2>1, <2>2, LaunchTypes
  <2>4. HistoryOK'
    BY <2>1, <2>3, Parameters DEF TypeOK, HistoryOK
  <2> QED BY <1>1, <2>3, <2>4 DEF Start, TypeOK
<1>2. CASE Resume(e, r, s)
  <2>1. 0 \in Int
    OBVIOUS
  <2>2. /\ held' \in [Entity -> [Good -> Nat]] /\ RunOK' /\ BankOK'
        /\ credit' \in [Entity \X Recipe -> Int]
        /\ worked' \in [Entity \X Recipe -> Nat]
        /\ \A f \in Entity, q \in Recipe : worked'[<<f, q>>] <= Dur[q]
    BY <1>2, <2>1, ResumeLaunches, LaunchTypes
  <2>3. HistoryOK'
    BY <1>2, <2>2 DEF Resume, TypeOK, HistoryOK
  <2> QED BY <1>2, <2>2, <2>3 DEF Resume, TypeOK
<1>3. CASE Cancel(e, r, s)
  <2>1. RunOK' /\ BankOK'
    BY <1>3, PauseTypes DEF Cancel
  <2> QED BY <1>3, <2>1 DEF Cancel, TypeOK, HistoryOK
<1> QED BY <1>1, <1>2, <1>3 DEF Act

LEMMA VisitTypes ==
  ASSUME TypeOK, NEW e \in Entity, NEW r \in Recipe, NEW s \in Slot,
         Visit(e, r, s)
  PROVE  TypeOK'
<1>1. CreditOutputs(e, r, s) => held' \in [Entity -> [Good -> Nat]]
  <2>1. run[<<e, r, s>>].effort \in Nat /\ held[e] \in [Good -> Nat]
    BY DEF TypeOK, RunOK, RunRow, Run
  <2>2. Credited(held[e], r, run[<<e, r, s>>].effort) \in [Good -> Nat]
    BY <2>1, CreditedType
  <2> QED BY <2>2 DEF CreditOutputs, TypeOK
<1>2. CASE Complete(e, r, s)
  <2>1. RunOK' /\ BankOK' /\ HistoryOK'
    BY <1>2, CloseRunTypes DEF Complete
  <2> QED BY <1>1, <1>2, <2>1 DEF Complete, TypeOK
<1>3. CASE MintOutputs(e, r, s)
  BY <1>1, <1>3 DEF MintOutputs, TypeOK, RunOK, BankOK, HistoryOK, Run
<1>4. CASE FinishMint(e, r, s)
  <2>1. RunOK' /\ BankOK' /\ HistoryOK'
    BY <1>4, CloseRunTypes DEF FinishMint
  <2> QED BY <1>4, <2>1 DEF FinishMint, TypeOK
<1>5. CASE Veto(e, r, s)
  BY <1>5 DEF Veto, TypeOK, RunOK, BankOK, HistoryOK
<1>6. CASE Charge(e, r, s)
  <2>1. Draw(held[e], PerTick[r]) \in [Good -> Nat]
    BY <1>6, DrawType, Parameters DEF Charge, TypeOK
  <2> QED BY <1>6, <2>1 DEF Charge, TypeOK, RunOK, BankOK, HistoryOK
<1>7. CASE Fail(e, r, s)
  <2>1. RunOK' /\ BankOK'
    BY <1>7, PauseTypes DEF Fail
  <2> QED BY <1>7, <2>1 DEF Fail, TypeOK, HistoryOK
<1> QED BY <1>2, <1>3, <1>4, <1>5, <1>6, <1>7 DEF Visit

LEMMA CommitTypes ==
  ASSUME TypeOK, Commit
  PROVE  TypeOK'
<1>1. \A e \in Entity, r \in Recipe, s \in Slot :
        /\ run'[<<e, r, s>>] = Aged(run[<<e, r, s>>], r)
        /\ run[<<e, r, s>>] \in RunRow
  BY DEF Commit, TypeOK, RunOK, Run
<1>2. \A e \in Entity, r \in Recipe, s \in Slot :
        /\ Aged(run[<<e, r, s>>], r) \in RunRow
        /\ Aged(run[<<e, r, s>>], r).age <= Dur[r]
        /\ Aged(run[<<e, r, s>>], r).left <= Dur[r]
        /\ Aged(run[<<e, r, s>>], r).effort <= FullEffort(r)
  BY <1>1, AgedType DEF TypeOK, RunOK
<1>3. RunOK'
  <2>1. \A j \in Run : Aged(run[j], j[2]) \in RunRow
    BY <1>2 DEF Run
  <2>2. run' \in [Run -> RunRow]
    BY <2>1 DEF Commit
  <2> QED BY <1>1, <1>2, <2>2 DEF RunOK
<1>4. HistoryOK'
  <2>1. \A k \in Entity \X Recipe : /\ worked'[k] \in Nat
                                    /\ worked'[k] <= Dur[k[2]]
    BY Parameters DEF Commit, TypeOK, HistoryOK, Smaller
  <2>2. worked' \in [Entity \X Recipe -> Nat]
    BY <2>1 DEF Commit
  <2> QED BY <2>1, <2>2 DEF Commit, TypeOK, HistoryOK
<1> QED BY <1>3, <1>4 DEF Commit, TypeOK, BankOK, Phase

LEMMA TickTypes ==
  ASSUME TypeOK, TickStep
  PROVE  TypeOK'
<1>1. CASE BeginTick
  BY <1>1 DEF BeginTick, TypeOK, RunOK, BankOK, HistoryOK, Phase
<1>2. CASE EndComplete
  BY <1>2 DEF EndComplete, TypeOK, RunOK, BankOK, HistoryOK, Phase
<1>3. CASE EndIntents
  BY <1>3 DEF EndIntents, TypeOK, RunOK, BankOK, HistoryOK, Phase
<1>4. CASE EndCharge
  BY <1>4 DEF EndCharge, TypeOK, RunOK, BankOK, HistoryOK, Phase
<1>5. CASE Commit
  BY <1>5, CommitTypes
<1>6. CASE \E e \in Entity, r \in Recipe, s \in Slot : Visit(e, r, s)
  BY <1>6, VisitTypes
<1> QED BY <1>1, <1>2, <1>3, <1>4, <1>5, <1>6 DEF TickStep

LEMMA WorldTypes ==
  ASSUME TypeOK, World
  PROVE  TypeOK'
<1>1. ASSUME NEW e \in Entity, NEW g \in Good, NEW n \in Nat,
             held' = [held EXCEPT ![e][g] = n]
      PROVE  held' \in [Entity -> [Good -> Nat]]
  BY <1>1 DEF TypeOK
<1>2. \A e \in Entity, g \in Good : held[e][g] \in Nat
  BY DEF TypeOK
<1>3. ASSUME NEW e \in Entity, NEW g \in Good, Gain(e, g)
      PROVE  TypeOK'
  <2>1. held[e][g] + 1 \in Nat
    BY <1>2
  <2>2. held' \in [Entity -> [Good -> Nat]]
    BY <1>1, <1>3, <2>1 DEF Gain
  <2> QED BY <1>3, <2>2 DEF Gain, TypeOK, RunOK, BankOK, HistoryOK
<1>4. ASSUME NEW e \in Entity, NEW g \in Good, Sell(e, g) \/ Take(e, g)
      PROVE  TypeOK'
  <2>1. held[e][g] - 1 \in Nat
    BY <1>2, <1>4 DEF Sell, Take
  <2>2. held' \in [Entity -> [Good -> Nat]]
    BY <1>1, <1>4, <2>1 DEF Sell, Take
  <2> QED BY <1>4, <2>2 DEF Sell, Take, TypeOK, RunOK, BankOK, HistoryOK
<1>5. ASSUME NEW e \in Entity, Incapacitate(e)
      PROVE  TypeOK'
  <2>1. RunOK'
    <3>1. \A j \in Run : /\ [run[j] EXCEPT !.on = FALSE] \in RunRow
                          /\ [run[j] EXCEPT !.on = FALSE].age = run[j].age
                          /\ [run[j] EXCEPT !.on = FALSE].left = run[j].left
                          /\ [run[j] EXCEPT !.on = FALSE].effort = run[j].effort
      BY DEF TypeOK, RunOK, RunRow
    <3>2. /\ run' \in [Run -> RunRow]
          /\ \A j \in Run : /\ run'[j].age = run[j].age
                            /\ run'[j].left = run[j].left
                            /\ run'[j].effort = run[j].effort
      BY <1>5, <3>1 DEF Incapacitate, TypeOK, RunOK
    <3> QED BY <3>2 DEF TypeOK, RunOK, Run
  <2> QED BY <1>5, <2>1 DEF Incapacitate, TypeOK, BankOK, HistoryOK
<1> QED BY <1>3, <1>4, <1>5 DEF World

LEMMA StepTypes == TypeOK /\ [Next]_vars => TypeOK'
<1> SUFFICES ASSUME TypeOK, [Next]_vars PROVE TypeOK'
  OBVIOUS
<1>1. CASE TickStep
  BY <1>1, TickTypes
<1>2. CASE \E e \in Entity, r \in Recipe, s \in Slot : Act(e, r, s)
  BY <1>2, ActTypes
<1>3. CASE World
  BY <1>3, WorldTypes
<1>4. CASE UNCHANGED vars
  BY <1>4 DEF vars, TypeOK, RunOK, BankOK, HistoryOK
<1> QED BY <1>1, <1>2, <1>3, <1>4 DEF Next

(* In every world a holding stays a natural number, no run is older than   *)
(* its recipe is long, and neither the resume ledger nor an effort exceeds *)
(* what the recipe declares: production.py never overdraws or overbanks.   *)
THEOREM ProductionTypes == Spec => []TypeOK
BY InitTypes, StepTypes, PTL DEF Spec

-----------------------------------------------------------------------------
(* Commit-reveal.                                                          *)

LEMMA InitDue == Init => DueInv
BY DEF Init, DueInv, Due, Off

LEMMA StepDue == TypeOK /\ DueInv /\ [Next]_vars => DueInv'
<1> SUFFICES ASSUME TypeOK, DueInv, [Next]_vars PROVE DueInv'
  OBVIOUS
<1> USE DEF DueInv, Due
<1>1. CASE BeginTick
  BY <1>1 DEF BeginTick
<1>2. CASE EndComplete
  BY <1>2 DEF EndComplete
<1>3. CASE EndIntents
  BY <1>3 DEF EndIntents
<1>4. CASE EndCharge
  BY <1>4 DEF EndCharge
<1>5. CASE Commit
  BY <1>5 DEF Commit
<1>6. ASSUME NEW e \in Entity, NEW r \in Recipe, NEW s \in Slot, Visit(e, r, s)
      PROVE  DueInv'
  <2>1. CASE Complete(e, r, s)
    BY <1>6, <2>1 DEF Complete, Selected, CloseRun, Off, TypeOK, RunOK, Run
  <2>2. CASE MintOutputs(e, r, s)
    BY <2>2 DEF MintOutputs, Selected, Run
  <2>3. CASE FinishMint(e, r, s)
    BY <2>3 DEF FinishMint, CloseRun, Off, TypeOK, RunOK, Run
  <2>4. CASE Veto(e, r, s)
    BY <2>4 DEF Veto, Selected, Run
  <2>5. CASE Charge(e, r, s)
    BY <2>5 DEF Charge
  <2>6. CASE Fail(e, r, s)
    BY <2>6 DEF Fail, Pause, Off, TypeOK, RunOK, Run
  <2> QED BY <1>6, <2>1, <2>2, <2>3, <2>4, <2>5, <2>6 DEF Visit
<1>7. ASSUME NEW e \in Entity, NEW r \in Recipe, NEW s \in Slot, Act(e, r, s)
      PROVE  DueInv'
  <2>1. Start(e, r, s) \/ Resume(e, r, s) =>
          \A j \in Run : Due(run'[j]) => Due(run[j])
    BY StartsNoneDue
  <2>2. CASE Start(e, r, s)
    BY <2>1, <2>2 DEF Start
  <2>3. CASE Resume(e, r, s)
    BY <2>1, <2>3 DEF Resume
  <2>4. CASE Cancel(e, r, s)
    BY <2>4 DEF Cancel, Pause, Off, TypeOK, RunOK, Run
  <2> QED BY <1>7, <2>2, <2>3, <2>4 DEF Act
<1>8. ASSUME NEW e \in Entity, NEW g \in Good, Gain(e, g) \/ Sell(e, g) \/ Take(e, g)
      PROVE  DueInv'
  BY <1>8 DEF Gain, Sell, Take
<1>9. ASSUME NEW e \in Entity, Incapacitate(e)
      PROVE  DueInv'
  <2>1. \A j \in Run : Due(run'[j]) => Due(run[j])
    BY <1>9 DEF Incapacitate, TypeOK, RunOK, RunRow
  <2> QED BY <1>9, <2>1 DEF Incapacitate
<1>10. CASE UNCHANGED vars
  BY <1>10 DEF vars
<1> QED BY <1>1, <1>2, <1>3, <1>4, <1>5, <1>6, <1>7, <1>8, <1>9, <1>10
        DEF Next, TickStep, World

(* Commit-reveal holds in every world: whatever the recipes, a run whose   *)
(* outcome is already seeded cannot be cancelled (production.py:815-819),  *)
(* and only a mint that validators refuse can go on to fail.               *)
THEOREM CommitRevealHolds == Spec => CommitReveal
<1>1. TypeOK /\ DueInv /\ [Next]_vars =>
        [\A j \in Run :
           Due(run[j]) /\ ~run'[j].on =>
             \/ phase = "complete" /\ (j \in todo \ todo' \/ j \in minting)
             \/ phase = "charge" /\ j[2] \in Mint
             \/ ~alive'[j[1]]]_vars
  <2> SUFFICES ASSUME TypeOK, DueInv, Next,
                      NEW j \in Run, Due(run[j]), ~run'[j].on
               PROVE  \/ phase = "complete" /\ (j \in todo \ todo' \/ j \in minting)
                      \/ phase = "charge" /\ j[2] \in Mint
                      \/ ~alive'[j[1]]
    BY DEF vars
  <2> USE DEF Due
  <2>1. ASSUME NEW e \in Entity, NEW r \in Recipe, NEW s \in Slot, Visit(e, r, s)
        PROVE  \/ phase = "complete" /\ (j \in todo \ todo' \/ j \in minting)
               \/ phase = "charge" /\ j[2] \in Mint
    <3>1. CASE Complete(e, r, s)
      BY <3>1 DEF Complete, Selected, CloseRun, TypeOK, RunOK
    <3>2. CASE FinishMint(e, r, s)
      BY <3>2 DEF FinishMint, CloseRun, TypeOK, RunOK, DueInv
    <3>3. CASE Fail(e, r, s)
      BY <3>3 DEF Fail, Pause, TypeOK, RunOK, DueInv
    <3>4. CASE MintOutputs(e, r, s) \/ Veto(e, r, s) \/ Charge(e, r, s)
      BY <3>4 DEF MintOutputs, Veto, Charge
    <3> QED BY <2>1, <3>1, <3>2, <3>3, <3>4 DEF Visit
  <2>2. ASSUME NEW e \in Entity, NEW r \in Recipe, NEW s \in Slot
        PROVE  ~Act(e, r, s)
    <3>1. ~(Start(e, r, s) \/ Resume(e, r, s))
      BY StartsNoneDue
    <3>2. ~Cancel(e, r, s)
      <4> SUFFICES ASSUME Cancel(e, r, s) PROVE FALSE
        OBVIOUS
      <4>1. j # <<e, r, s>>
        BY DEF Cancel, WindowOpen
      <4>2. run'[j] = run[j]
        BY <4>1 DEF Cancel, Pause, TypeOK, RunOK
      <4> QED BY <4>2
    <3> QED BY <3>1, <3>2 DEF Act
  <2>3. ASSUME NEW e \in Entity, Incapacitate(e)
        PROVE  ~alive'[j[1]]
    BY <2>3 DEF Incapacitate, TypeOK, RunOK, Run
  <2>4. ~Commit
    BY DEF Commit, Aged
  <2> QED BY <2>1, <2>2, <2>3, <2>4
          DEF Next, TickStep, World, BeginTick, EndComplete, EndIntents,
              EndCharge, Gain, Sell, Take
<1> QED BY <1>1, InitTypes, StepTypes, InitDue, StepDue, PTL
        DEF Spec, CommitReveal

-----------------------------------------------------------------------------
(* Jobs are paid for: one lump, its effort and the recipe's ticks.         *)

(* What the ledger says of one run, its bank and its recipe's history.     *)
Books(e, r, s) == TimeInv(e, r, s) /\ EffortInv(e, r, s) /\ ClaimInv(e, r, s)

LEMMA RowTypes ==
  ASSUME TypeOK, NEW e \in Entity, NEW r \in Recipe, NEW s \in Slot
  PROVE  /\ <<e, r, s>> \in Run /\ <<e, r>> \in Entity \X Recipe
         /\ run[<<e, r, s>>].on \in BOOLEAN
         /\ run[<<e, r, s>>].age \in Nat /\ run[<<e, r, s>>].age <= Dur[r]
         /\ run[<<e, r, s>>].left \in Nat /\ run[<<e, r, s>>].left <= Dur[r]
         /\ run[<<e, r, s>>].effort \in Nat /\ run[<<e, r, s>>].effort <= FullEffort(r)
         /\ bank[<<e, r>>].ticks \in Nat /\ bank[<<e, r>>].ticks <= Dur[r]
         /\ bank[<<e, r>>].effort \in Nat
         /\ credit[<<e, r>>] \in Int /\ paid[<<e, r>>] \in Nat
         /\ worked[<<e, r>>] \in Nat /\ worked[<<e, r>>] <= Dur[r]
         /\ Dur[r] \in Nat /\ FullEffort(r) \in Nat
         /\ alive[e] \in BOOLEAN
<1>1. <<e, r, s>> \in Run /\ <<e, r>> \in Entity \X Recipe
  BY DEF Run
<1>2. run[<<e, r, s>>] \in RunRow /\ bank[<<e, r>>] \in BankRow
  BY <1>1 DEF TypeOK, RunOK, BankOK
<1> QED BY <1>1, <1>2, Parameters DEF TypeOK, RunOK, BankOK, HistoryOK, RunRow, BankRow

(* A step that leaves the rows alone and selects nothing leaves the books. *)
LEMMA Frame ==
  ASSUME NEW e \in Entity, NEW r \in Recipe, NEW s \in Slot, Books(e, r, s),
         run'[<<e, r, s>>] = run[<<e, r, s>>], bank'[<<e, r>>] = bank[<<e, r>>],
         worked'[<<e, r>>] = worked[<<e, r>>], credit'[<<e, r>>] = credit[<<e, r>>],
         paid'[<<e, r>>] = paid[<<e, r>>], alive'[e] = alive[e],
         phase' \in {"complete", "charge"} => phase' = phase,
         <<e, r, s>> \in todo' \cup minting' => <<e, r, s>> \in todo \cup minting,
         ~(<<e, r, s>> \in todo' /\ <<e, r, s>> \in minting')
  PROVE  Books(e, r, s)'
BY DEF Books, TimeInv, EffortInv, ClaimInv

(* The books of a run that is over and paid for, and of one that is not.   *)
LEMMA Emptied ==
  ASSUME TypeOK, NEW e \in Entity, NEW r \in Recipe, NEW s \in Slot,
         run'[<<e, r, s>>].on = FALSE,
         bank'[<<e, r>>].ticks = 0, bank'[<<e, r>>].effort = FullEffort(r),
         worked'[<<e, r>>] = 0, credit'[<<e, r>>] >= 0,
         <<e, r, s>> \notin todo', <<e, r, s>> \notin minting'
  PROVE  Books(e, r, s)'
BY DEF Books, TimeInv, EffortInv, ClaimInv

(* A run that goes off with its bank funded, or with its entity dead.      *)
LEMMA Paused ==
  ASSUME TypeOK, NEW e \in Entity, NEW r \in Recipe, NEW s \in Slot, Books(e, r, s),
         Pause(e, r, s), run[<<e, r, s>>].on,
         alive' = alive, credit' = credit, paid' = paid, worked' = worked,
         <<e, r, s>> \notin todo', <<e, r, s>> \notin minting'
  PROVE  Books(e, r, s)'
<1> DEFINE p == run[<<e, r, s>>]
           b == bank[<<e, r>>]
           c == bank'[<<e, r>>]
<1>1. c = Banked(b, r, p) /\ ~run'[<<e, r, s>>].on
  BY RowTypes DEF Pause, Off, TypeOK, RunOK, BankOK
<1>2. /\ alive[e] /\ worked[<<e, r>>] + p.left = Dur[r]
      /\ Smaller(Dur[r], b.ticks + p.age) = worked[<<e, r>>]
      /\ p.effort = paid[<<e, r>>]
      /\ b.effort = IF b.ticks > 0 THEN paid[<<e, r>>] ELSE FullEffort(r)
      /\ credit[<<e, r>>] >= 1
  BY DEF Books, TimeInv, EffortInv, ClaimInv
<1>3. c.ticks = worked[<<e, r>>]
  BY <1>1, <1>2, RowTypes DEF Banked, Smaller
<1>4. c.effort = IF c.ticks > 0 THEN paid[<<e, r>>] ELSE FullEffort(r)
  BY <1>1, <1>2, RowTypes DEF Banked, Smaller
<1> HIDE DEF c
<1>5. TimeInv(e, r, s)'
  BY <1>1, <1>3 DEF TimeInv, c
<1>6. EffortInv(e, r, s)'
  BY <1>1, <1>4 DEF EffortInv, c
<1>7. ClaimInv(e, r, s)'
  BY <1>1, <1>2, RowTypes DEF ClaimInv
<1> QED BY <1>5, <1>6, <1>7 DEF Books

(* A run begins on what the ledger and the lump have paid.                 *)
LEMMA Opened ==
  ASSUME TypeOK, NEW e \in Entity, NEW r \in Recipe, NEW s \in Slot, Books(e, r, s),
         NEW left \in 1..Dur[r], NEW effort \in Nat, NEW n \in {0, 1},
         Begun(e, r, s, left, effort, n), alive[e], alive' = alive, ~run[<<e, r, s>>].on,
         effort = paid'[<<e, r>>],
         bank[<<e, r>>].ticks > 0 => paid'[<<e, r>>] = paid[<<e, r>>],
         n = 1 \/ bank[<<e, r>>].ticks > 0,
         todo' = todo, minting' = minting, phase' = phase
  PROVE  Books(e, r, s)'
<1> DEFINE p == run'[<<e, r, s>>]
<1>1. /\ p.on /\ p.age = 0 /\ p.left = left /\ p.effort = effort
      /\ bank' = bank /\ worked' = worked
      /\ credit'[<<e, r>>] = credit[<<e, r>>] + n
      /\ bank[<<e, r>>].ticks + left = Dur[r]
  BY RowTypes DEF Begun, TypeOK, RunOK, HistoryOK
<1>2. /\ bank[<<e, r>>].ticks = worked[<<e, r>>]
      /\ credit[<<e, r>>] >= 0
      /\ bank[<<e, r>>].ticks > 0 => credit[<<e, r>>] >= 1
      /\ <<e, r, s>> \notin todo \cup minting
      /\ bank[<<e, r>>].effort =
           IF bank[<<e, r>>].ticks > 0 THEN paid[<<e, r>>] ELSE FullEffort(r)
  BY DEF Books, TimeInv, EffortInv, ClaimInv
<1> HIDE DEF p
<1>3. worked'[<<e, r>>] + p.left = Dur[r]
  BY <1>1, <1>2, RowTypes
<1>4. Smaller(Dur[r], bank'[<<e, r>>].ticks + p.age) = worked'[<<e, r>>]
  BY <1>1, <1>2, RowTypes DEF Smaller
<1>5. TimeInv(e, r, s)'
  BY <1>1, <1>3, <1>4 DEF TimeInv, p
<1>6. EffortInv(e, r, s)'
  BY <1>1, <1>2 DEF EffortInv, p
<1>7. credit'[<<e, r>>] \in Int /\ credit'[<<e, r>>] >= 1
  BY <1>1, <1>2, RowTypes
<1>8. ClaimInv(e, r, s)'
  BY <1>1, <1>2, <1>7 DEF ClaimInv, p
<1> QED BY <1>5, <1>6, <1>8 DEF Books

(* The ledger is its rows: one for every run there may be.                 *)
LEMMA OneRow ==
  ASSUME OneRun, LedgerInv, NEW e \in Entity, NEW r \in Recipe, NEW s \in Slot,
         phase' \in {"idle", "intents", "rot"} => todo' = {},
         minting' # {} => phase' = "complete",
         Books(e, r, s)',
         \A f \in Entity, q \in Recipe, t \in Slot :
           <<f, q>> # <<e, r>> => Books(f, q, t)'
  PROVE  LedgerInv'
BY DEF OneRun, LedgerInv, Books

LEMMA ActLedger ==
  ASSUME OneRun, TypeOK, LedgerInv, NEW e \in Entity, NEW r \in Recipe, NEW s \in Slot,
         Act(e, r, s)
  PROVE  LedgerInv'
<1>1. \A f \in Entity, q \in Recipe, t \in Slot : Books(f, q, t)
  BY DEF LedgerInv, Books
<1>2. UNCHANGED <<phase, todo, minting, alive>>
  BY DEF Act, Start, Resume, Cancel
<1>3. <<e, r, s>> \in Run /\ <<e, r>> \in Entity \X Recipe
  BY RowTypes
<1>4. ASSUME NEW f \in Entity, NEW q \in Recipe, NEW t \in Slot, <<f, q>> # <<e, r>>,
             run'[<<f, q, t>>] = run[<<f, q, t>>] /\ bank'[<<f, q>>] = bank[<<f, q>>],
             worked'[<<f, q>>] = worked[<<f, q>>] /\ credit'[<<f, q>>] = credit[<<f, q>>],
             paid'[<<f, q>>] = paid[<<f, q>>]
      PROVE  Books(f, q, t)'
  <2>1. ~(<<f, q, t>> \in todo' /\ <<f, q, t>> \in minting')
    BY <1>1, <1>2 DEF Books, ClaimInv
  <2> QED BY <1>1, <1>2, <1>4, <2>1, Frame
<1>5. CASE Start(e, r, s)
  <2>1. PICK d \in 0..FullEffort(r) :
          /\ \/ Inline(e, r, 1)
             \/ \E left \in 1..Dur[r] : Begun(e, r, s, left, d, 1)
          /\ paid' = [paid EXCEPT ![<<e, r>>] = d]
    BY <1>5, StartCases
  <2>2. alive[e] /\ ~run[<<e, r, s>>].on /\ bank[<<e, r>>].ticks = 0
    BY <1>5 DEF Start, CanStart
  <2>3. d \in Nat /\ paid'[<<e, r>>] = d
    BY <2>1, <1>3, RowTypes DEF TypeOK, HistoryOK
  <2>4. ASSUME NEW f \in Entity, NEW q \in Recipe, NEW t \in Slot, <<f, q>> # <<e, r>>
        PROVE  Books(f, q, t)'
    <3>1. /\ <<f, q, t>> # <<e, r, s>> /\ <<f, q, t>> \in Run
          /\ <<f, q>> \in Entity \X Recipe
      BY <2>4 DEF Run
    <3> QED BY <1>4, <2>1, <2>4, <3>1 DEF Inline, Begun, TypeOK, RunOK, BankOK, HistoryOK
  <2>5. CASE Inline(e, r, 1)
    <3>1. credit[<<e, r>>] >= 0 /\ <<e, r, s>> \notin todo \cup minting
      BY <1>1, <2>2 DEF Books, ClaimInv
    <3>2. /\ bank'[<<e, r>>].ticks = 0 /\ bank'[<<e, r>>].effort = FullEffort(r)
          /\ worked'[<<e, r>>] = 0 /\ credit'[<<e, r>>] = credit[<<e, r>>] + 1 - 1
          /\ run' = run
      BY <1>3, <2>5 DEF Inline, NoBank, TypeOK, BankOK, HistoryOK
    <3>3. credit'[<<e, r>>] >= 0
      BY <3>1, <3>2, RowTypes
    <3>4. run'[<<e, r, s>>].on = FALSE
      BY <2>2, <3>2, RowTypes
    <3>5. Books(e, r, s)'
      BY <1>2, <3>1, <3>2, <3>3, <3>4, Emptied
    <3> QED BY <1>2, <2>4, <3>5, OneRow DEF LedgerInv
  <2>6. ASSUME NEW left \in 1..Dur[r], Begun(e, r, s, left, d, 1)
        PROVE  LedgerInv'
    <3>1. Books(e, r, s)'
      BY <1>1, <1>2, <2>2, <2>3, <2>6, Opened
    <3> QED BY <1>2, <2>4, <3>1, OneRow DEF LedgerInv
  <2> QED BY <2>1, <2>5, <2>6
<1>6. CASE Resume(e, r, s)
  <2>1. \/ Inline(e, r, 0)
        \/ \E left \in 1..Dur[r] : Begun(e, r, s, left, bank[<<e, r>>].effort, 0)
    BY <1>6, ResumeCases
  <2>2. /\ alive[e] /\ ~run[<<e, r, s>>].on /\ bank[<<e, r>>].ticks > 0
        /\ paid' = paid
    BY <1>6 DEF Resume, CanStart
  <2>3. /\ bank[<<e, r>>].effort \in Nat /\ bank[<<e, r>>].effort = paid'[<<e, r>>]
        /\ credit[<<e, r>>] >= 1 /\ <<e, r, s>> \notin todo \cup minting
    BY <1>1, <2>2, RowTypes DEF Books, EffortInv, ClaimInv
  <2>4. ASSUME NEW f \in Entity, NEW q \in Recipe, NEW t \in Slot, <<f, q>> # <<e, r>>
        PROVE  Books(f, q, t)'
    <3>1. /\ <<f, q, t>> # <<e, r, s>> /\ <<f, q, t>> \in Run
          /\ <<f, q>> \in Entity \X Recipe
      BY <2>4 DEF Run
    <3> QED BY <1>4, <2>1, <2>2, <2>4, <3>1 DEF Inline, Begun, TypeOK, RunOK, BankOK, HistoryOK
  <2>5. CASE Inline(e, r, 0)
    <3>1. /\ bank'[<<e, r>>].ticks = 0 /\ bank'[<<e, r>>].effort = FullEffort(r)
          /\ worked'[<<e, r>>] = 0 /\ credit'[<<e, r>>] = credit[<<e, r>>] + 0 - 1
          /\ run' = run
      BY <1>3, <2>5 DEF Inline, NoBank, TypeOK, BankOK, HistoryOK
    <3>2. credit'[<<e, r>>] >= 0
      BY <2>3, <3>1, RowTypes
    <3>3. run'[<<e, r, s>>].on = FALSE
      BY <2>2, <3>1, RowTypes
    <3>4. Books(e, r, s)'
      BY <1>2, <2>3, <3>1, <3>2, <3>3, Emptied
    <3> QED BY <1>2, <2>4, <3>4, OneRow DEF LedgerInv
  <2>6. ASSUME NEW left \in 1..Dur[r], Begun(e, r, s, left, bank[<<e, r>>].effort, 0)
        PROVE  LedgerInv'
    <3>1. Books(e, r, s)'
      BY <1>1, <1>2, <2>2, <2>3, <2>6, Opened
    <3> QED BY <1>2, <2>4, <3>1, OneRow DEF LedgerInv
  <2> QED BY <2>1, <2>5, <2>6
<1>7. CASE Cancel(e, r, s)
  <2>1. /\ Pause(e, r, s) /\ run[<<e, r, s>>].on /\ run[<<e, r, s>>].left > 0
        /\ UNCHANGED <<credit, paid, worked>> /\ Open
    BY <1>7 DEF Cancel, WindowOpen
  <2>2. phase = "complete" => <<e, r, s>> \notin todo \cup minting
    <3>1. run[<<e, r, s>>].left # 0
      BY <2>1, RowTypes
    <3>2. ClaimInv(e, r, s)
      BY <1>1 DEF Books
    <3> QED BY <2>1, <3>1, <3>2 DEF ClaimInv
  <2>3. <<e, r, s>> \notin todo \cup minting
    BY <2>1, <2>2 DEF LedgerInv, Open
  <2>4. Books(e, r, s)'
    BY <1>1, <1>2, <2>1, <2>3, Paused
  <2>5. ASSUME NEW f \in Entity, NEW q \in Recipe, NEW t \in Slot, <<f, q>> # <<e, r>>
        PROVE  Books(f, q, t)'
    <3>1. /\ <<f, q, t>> # <<e, r, s>> /\ <<f, q, t>> \in Run
          /\ <<f, q>> \in Entity \X Recipe
      BY <2>5 DEF Run
    <3> QED BY <1>4, <2>1, <2>5, <3>1 DEF Pause, TypeOK, RunOK, BankOK
  <2> QED BY <1>2, <2>4, <2>5, OneRow DEF LedgerInv
<1> QED BY <1>5, <1>6, <1>7 DEF Act

(* A completion closes a run that a lump has funded.                       *)
LEMMA Closed ==
  ASSUME OneRun, TypeOK, LedgerInv, NEW e \in Entity, NEW r \in Recipe, NEW s \in Slot,
         CloseRun(e, r, s), <<e, r, s>> \in todo \cup minting,
         alive' = alive, paid' = paid, phase' = phase, phase = "complete",
         todo' = todo \ {<<e, r, s>>}, minting' = {}, minting \subseteq {<<e, r, s>>}
  PROVE  LedgerInv'
<1>1. \A f \in Entity, q \in Recipe, t \in Slot : Books(f, q, t)
  BY DEF LedgerInv, Books
<1>2. <<e, r, s>> \in Run /\ <<e, r>> \in Entity \X Recipe
  BY RowTypes
<1>3. credit[<<e, r>>] >= 1
  BY <1>1 DEF Books, ClaimInv
<1>4. /\ bank'[<<e, r>>].ticks = 0 /\ bank'[<<e, r>>].effort = FullEffort(r)
      /\ worked'[<<e, r>>] = 0 /\ credit'[<<e, r>>] = credit[<<e, r>>] - 1
      /\ run'[<<e, r, s>>].on = FALSE
  BY <1>2 DEF CloseRun, Spent, NoBank, Off, TypeOK, RunOK, BankOK, HistoryOK
<1>5. credit'[<<e, r>>] >= 0
  BY <1>3, <1>4, RowTypes
<1>6. Books(e, r, s)'
  BY <1>4, <1>5, Emptied
<1>7. ASSUME NEW f \in Entity, NEW q \in Recipe, NEW t \in Slot, <<f, q>> # <<e, r>>
      PROVE  Books(f, q, t)'
  <2>1. /\ <<f, q, t>> # <<e, r, s>> /\ <<f, q, t>> \in Run
        /\ <<f, q>> \in Entity \X Recipe
    BY <1>7 DEF Run
  <2>2. /\ run'[<<f, q, t>>] = run[<<f, q, t>>] /\ bank'[<<f, q>>] = bank[<<f, q>>]
        /\ worked'[<<f, q>>] = worked[<<f, q>>] /\ credit'[<<f, q>>] = credit[<<f, q>>]
    BY <1>7, <2>1 DEF CloseRun, TypeOK, RunOK, BankOK, HistoryOK
  <2> QED BY <1>1, <2>1, <2>2, Frame
<1> QED BY <1>6, <1>7, OneRow

LEMMA VisitLedger ==
  ASSUME OneRun, TypeOK, LedgerInv, NEW e \in Entity, NEW r \in Recipe, NEW s \in Slot,
         Visit(e, r, s)
  PROVE  LedgerInv'
<1>1. \A f \in Entity, q \in Recipe, t \in Slot : Books(f, q, t)
  BY DEF LedgerInv, Books
<1>2. ASSUME UNCHANGED <<phase, alive, run, bank, credit, paid, worked>>,
             todo' = todo \ {<<e, r, s>>},
             \/ minting' = minting
             \/ minting' = {<<e, r, s>>} /\ <<e, r, s>> \in todo /\ minting = {},
             minting' # {} => phase = "complete"
      PROVE  LedgerInv'
  <2>1. ASSUME NEW f \in Entity, NEW q \in Recipe, NEW t \in Slot
        PROVE  Books(f, q, t)'
    <3>1. <<f, q, t>> \in todo' \cup minting' => <<f, q, t>> \in todo \cup minting
      BY <1>2
    <3>2. ~(<<f, q, t>> \in todo' /\ <<f, q, t>> \in minting')
      BY <1>1, <1>2 DEF Books, ClaimInv
    <3> QED BY <1>1, <1>2, <3>1, <3>2, Frame
  <2> QED BY <1>2, <2>1 DEF LedgerInv, Books
<1>3. CASE Complete(e, r, s)
  BY <1>3, Closed DEF Complete, Selected
<1>4. CASE MintOutputs(e, r, s)
  BY <1>2, <1>4 DEF MintOutputs, Selected
<1>5. CASE FinishMint(e, r, s)
  <2>1. <<e, r, s>> \notin todo /\ phase = "complete"
    BY <1>1, <1>5 DEF FinishMint, LedgerInv, Books, ClaimInv
  <2> QED BY <1>5, <2>1, Closed DEF FinishMint
<1>6. CASE Veto(e, r, s)
  BY <1>2, <1>6 DEF Veto, Selected
<1>7. CASE Charge(e, r, s)
  BY <1>2, <1>7 DEF Charge, LedgerInv
<1>8. CASE Fail(e, r, s)
  <2>1. /\ phase = "charge" /\ <<e, r, s>> \in todo /\ minting = {}
        /\ todo' = todo \ {<<e, r, s>>} /\ Pause(e, r, s)
        /\ UNCHANGED <<phase, minting, alive, credit, paid, worked>>
    BY <1>8 DEF Fail, LedgerInv
  <2>2. run[<<e, r, s>>].on
    BY <1>1, <2>1 DEF Books, ClaimInv
  <2>3. Books(e, r, s)'
    BY <1>1, <2>1, <2>2, Paused
  <2>4. ASSUME NEW f \in Entity, NEW q \in Recipe, NEW t \in Slot, <<f, q>> # <<e, r>>
        PROVE  Books(f, q, t)'
    <3>1. /\ <<f, q, t>> # <<e, r, s>> /\ <<f, q, t>> \in Run
          /\ <<f, q>> \in Entity \X Recipe
      BY <2>4 DEF Run
    <3>2. run'[<<f, q, t>>] = run[<<f, q, t>>] /\ bank'[<<f, q>>] = bank[<<f, q>>]
      BY <2>1, <2>4, <3>1 DEF Pause, TypeOK, RunOK, BankOK
    <3> QED BY <1>1, <2>1, <3>1, <3>2, Frame
  <2> QED BY <2>1, <2>3, <2>4, OneRow DEF LedgerInv
<1> QED BY <1>3, <1>4, <1>5, <1>6, <1>7, <1>8 DEF Visit

(* The tick row ages every run by one tick that has been paid.             *)
LEMMA CommitLedger ==
  ASSUME OneRun, TypeOK, LedgerInv, Commit
  PROVE  LedgerInv'
<1>1. ASSUME NEW e \in Entity, NEW r \in Recipe, NEW s \in Slot
      PROVE  Books(e, r, s)'
  <2> DEFINE p == run[<<e, r, s>>]
             w == worked[<<e, r>>]
             b == bank[<<e, r>>]
  <2>1. /\ TimeInv(e, r, s) /\ EffortInv(e, r, s) /\ ClaimInv(e, r, s)
        /\ todo = {} /\ minting = {} /\ phase' = "idle"
        /\ UNCHANGED <<todo, minting, alive, bank, credit, paid>>
    BY DEF LedgerInv, Commit
  <2>2. run'[<<e, r, s>>] = Aged(p, r)
    BY RowTypes DEF Commit
  <2>3. worked'[<<e, r>>] = IF p.on THEN Smaller(Dur[r], w + 1) ELSE w
    BY RowTypes DEF Commit, OneRun
  <2>4. CASE p.on
    <3>1. /\ run'[<<e, r, s>>].on
          /\ run'[<<e, r, s>>].age = Smaller(Dur[r], p.age + 1)
          /\ run'[<<e, r, s>>].left = IF p.left = 0 THEN 0 ELSE p.left - 1
          /\ run'[<<e, r, s>>].effort = p.effort
      BY <2>2, <2>4 DEF Aged
    <3>2. /\ alive[e] /\ w + p.left = Dur[r]
          /\ Smaller(Dur[r], b.ticks + p.age) = w
      BY <2>1, <2>4 DEF TimeInv
    <3>3. worked'[<<e, r>>] + run'[<<e, r, s>>].left = Dur[r]
      BY <2>3, <2>4, <3>1, <3>2, RowTypes DEF Smaller
    <3>4. Smaller(Dur[r], b.ticks + run'[<<e, r, s>>].age) = worked'[<<e, r>>]
      BY <2>3, <2>4, <3>1, <3>2, RowTypes DEF Smaller
    <3>5. TimeInv(e, r, s)'
      BY <2>1, <3>1, <3>2, <3>3, <3>4 DEF TimeInv
    <3>6. EffortInv(e, r, s)'
      BY <2>1, <2>4, <3>1 DEF EffortInv
    <3>7. ClaimInv(e, r, s)'
      BY <2>1, <2>4, <3>1 DEF ClaimInv
    <3> QED BY <3>5, <3>6, <3>7 DEF Books
  <2>5. CASE ~p.on
    <3>1. run'[<<e, r, s>>] = p /\ worked'[<<e, r>>] = w
      BY <2>2, <2>3, <2>5 DEF Aged
    <3> QED BY <2>1, <2>5, <3>1, Frame DEF Books
  <2> QED BY <2>4, <2>5
<1> QED BY <1>1 DEF LedgerInv, Books, Commit

LEMMA PassLedger ==
  ASSUME TypeOK, LedgerInv,
         BeginTick \/ EndComplete \/ EndIntents \/ EndCharge
  PROVE  LedgerInv'
<1>1. \A e \in Entity, r \in Recipe, s \in Slot : Books(e, r, s)
  BY DEF LedgerInv, Books
<1>2. UNCHANGED <<minting, alive, run, bank, credit, paid, worked>> /\ minting = {}
  BY DEF LedgerInv, BeginTick, EndComplete, EndIntents, EndCharge
<1>3. ASSUME NEW e \in Entity, NEW r \in Recipe, NEW s \in Slot,
             \/ todo' = {}
             \/ <<e, r, s>> \in todo' => /\ run[<<e, r, s>>].on
                                         /\ phase' = "complete" => run[<<e, r, s>>].left = 0
      PROVE  Books(e, r, s)'
  BY <1>1, <1>2, <1>3 DEF Books, TimeInv, EffortInv, ClaimInv
<1>4. CASE BeginTick
  BY <1>2, <1>3, <1>4 DEF BeginTick, Due, LedgerInv, Books
<1>5. CASE EndIntents
  BY <1>2, <1>3, <1>5 DEF EndIntents, LedgerInv, Books
<1>6. CASE EndComplete \/ EndCharge
  BY <1>2, <1>3, <1>6 DEF EndComplete, EndCharge, LedgerInv, Books
<1> QED BY <1>4, <1>5, <1>6

LEMMA WorldLedger ==
  ASSUME TypeOK, LedgerInv, World
  PROVE  LedgerInv'
<1>1. \A e \in Entity, r \in Recipe, s \in Slot : Books(e, r, s)
  BY DEF LedgerInv, Books
<1>2. CASE \E e \in Entity, g \in Good : Gain(e, g) \/ Sell(e, g) \/ Take(e, g)
  BY <1>2 DEF Gain, Sell, Take, LedgerInv, TimeInv, EffortInv, ClaimInv
<1>3. ASSUME NEW e \in Entity, Incapacitate(e)
      PROVE  LedgerInv'
  <2>1. /\ UNCHANGED <<phase, todo, minting, bank, credit, paid, worked>>
        /\ phase # "charge" /\ ~alive'[e]
    BY <1>3 DEF Incapacitate, Open, LedgerInv, TypeOK
  <2>2. ASSUME NEW f \in Entity, NEW r \in Recipe, NEW s \in Slot
        PROVE  Books(f, r, s)'
    <3>1. CASE f = e
      <4>1. run'[<<f, r, s>>].on = FALSE
        <5>1. <<f, r, s>> \in Run /\ <<f, r, s>>[1] = e
          BY <3>1, RowTypes
        <5>2. run'[<<f, r, s>>] = [run[<<f, r, s>>] EXCEPT !.on = FALSE]
          BY <1>3, <5>1 DEF Incapacitate
        <5>3. run[<<f, r, s>>] \in RunRow
          BY <5>1 DEF TypeOK, RunOK
        <5> QED BY <5>2, <5>3 DEF RunRow
      <4> QED BY <1>1, <2>1, <3>1, <4>1 DEF Books, TimeInv, EffortInv, ClaimInv
    <3>2. CASE f # e
      <4>1. run'[<<f, r, s>>] = run[<<f, r, s>>] /\ alive'[f] = alive[f]
        BY <1>3, <3>2, RowTypes DEF Incapacitate, TypeOK
      <4>2. ~(<<f, r, s>> \in todo /\ <<f, r, s>> \in minting)
        BY <1>1 DEF Books, ClaimInv
      <4> QED BY <1>1, <2>1, <4>1, <4>2, Frame
    <3> QED BY <3>1, <3>2
  <2> QED BY <2>1, <2>2 DEF LedgerInv, Books
<1> QED BY <1>2, <1>3 DEF World

LEMMA InitLedger == Init => LedgerInv
<1> SUFFICES ASSUME Init PROVE LedgerInv
  OBVIOUS
<1>1. ASSUME NEW e \in Entity, NEW r \in Recipe, NEW s \in Slot
      PROVE  Books(e, r, s)
  <2>1. /\ run[<<e, r, s>>] = Off(r) /\ bank[<<e, r>>] = NoBank(r)
        /\ worked[<<e, r>>] = 0 /\ credit[<<e, r>>] = 0
        /\ todo = {} /\ minting = {}
    BY DEF Init, Run
  <2> QED BY <2>1 DEF Books, TimeInv, EffortInv, ClaimInv, Off, NoBank
<1> QED BY <1>1 DEF Init, LedgerInv, Books

LEMMA StepLedger == OneRun /\ TypeOK /\ LedgerInv /\ [Next]_vars => LedgerInv'
<1> SUFFICES ASSUME OneRun, TypeOK, LedgerInv, [Next]_vars PROVE LedgerInv'
  OBVIOUS
<1>1. CASE TickStep
  BY <1>1, CommitLedger, PassLedger, VisitLedger DEF TickStep
<1>2. CASE \E e \in Entity, r \in Recipe, s \in Slot : Act(e, r, s)
  BY <1>2, ActLedger
<1>3. CASE World
  BY <1>3, WorldLedger
<1>4. CASE UNCHANGED vars
  BY <1>4 DEF vars, LedgerInv, TimeInv, EffortInv, ClaimInv
<1> QED BY <1>1, <1>2, <1>3, <1>4 DEF Next

LEMMA LedgerPays == OneRun /\ LedgerInv => JobsArePaid
BY DEF OneRun, LedgerInv, TimeInv, EffortInv, ClaimInv,
       JobsArePaid, LumpPerCompletion, TimeIsPaid, EffortIsPaid

(* Where nobody runs a recipe twice at once, the resume ledger never gives *)
(* work away: for any recipes, pauses, failures, vetoes, hooks and deaths, *)
(* a job completes on one lump, at its effort, after its recipe's ticks    *)
(* (start_process, _bank_progress and _complete in production.py).         *)
THEOREM JobsArePaidHolds == ASSUME OneRun PROVE Spec => []JobsArePaid
<1>1. Init => TypeOK /\ LedgerInv
  BY InitTypes, InitLedger
<1>2. OneRun /\ TypeOK /\ LedgerInv /\ [Next]_vars => (TypeOK /\ LedgerInv)'
  BY StepTypes, StepLedger
<1>3. OneRun /\ LedgerInv => JobsArePaid
  BY LedgerPays
<1> QED BY <1>1, <1>2, <1>3, PTL DEF Spec

-----------------------------------------------------------------------------
(* Reservations.  What the running processes of an entity need, added up,  *)
(* grows only by a start, and by no more than what the start looked for.   *)

NeedOf(g) == [j \in Run |-> Need[j[2]][g]]

LEMMA NeedType ==
  ASSUME NEW g \in Good, NEW S \in SUBSET Run
  PROVE  Counts(NeedOf(g), S)
<1>1. ASSUME NEW j \in S PROVE NeedOf(g)[j] \in Nat
  <2>1. j \in Run /\ j[2] \in Recipe
    BY DEF Run
  <2> QED BY <2>1, ProductionAssumption DEF ProductionAssumption, NeedOf, Bundle
<1> QED BY <1>1 DEF Counts

LEMMA ReservedIs ==
  ASSUME NEW e, NEW g
  PROVE  Reserved(e, g) = Total(NeedOf(g), Running(e)) /\ Running(e) \in SUBSET Run
BY DEF Reserved, NeedOf, Running

LEMMA ReservedType ==
  ASSUME HoldingInv, NEW e \in Entity, NEW g \in Good
  PROVE  Reserved(e, g) \in Nat
<1>1. IsFiniteSet(Running(e)) /\ Counts(NeedOf(g), Running(e))
  BY NeedType, ReservedIs DEF HoldingInv
<1> QED BY <1>1, TotalType, ReservedIs

(* Of the runs in S, those in T need no more.                              *)
LEMMA NeedLess ==
  ASSUME NEW g \in Good, NEW S \in SUBSET Run, IsFiniteSet(S), NEW T, T \subseteq S
  PROVE  /\ IsFiniteSet(T) /\ Total(NeedOf(g), T) \in Nat
         /\ Total(NeedOf(g), T) <= Total(NeedOf(g), S)
<1>1. Counts(NeedOf(g), S) /\ Counts(NeedOf(g), T) /\ IsFiniteSet(T)
  BY NeedType, FS_Subset
<1>2. \A j \in T : NeedOf(g)[j] \in Nat /\ NeedOf(g)[j] <= NeedOf(g)[j]
  BY <1>1 DEF Counts
<1>3. Total(NeedOf(g), T) \in Nat
  BY <1>1, TotalType
<1>4. Total(NeedOf(g), T) <= Total(NeedOf(g), S)
  BY <1>1, <1>2, TotalLess
<1> QED BY <1>1, <1>3, <1>4

LEMMA NeedOneMore ==
  ASSUME NEW g \in Good, NEW S \in SUBSET Run, IsFiniteSet(S), NEW j \in Run, j \notin S,
         NEW T, T \subseteq S \union {j}
  PROVE  /\ IsFiniteSet(T)
         /\ Total(NeedOf(g), T) <= Total(NeedOf(g), S) + Need[j[2]][g]
<1>1. /\ IsFiniteSet(S \union {j}) /\ S \union {j} \in SUBSET Run
      /\ Counts(NeedOf(g), S) /\ NeedOf(g)[j] = Need[j[2]][g] /\ NeedOf(g)[j] \in Nat
  <2>1. Counts(NeedOf(g), S) /\ Counts(NeedOf(g), {j})
    BY NeedType
  <2> QED BY <2>1, FS_AddElement DEF Counts, NeedOf
<1>2. Total(NeedOf(g), S \union {j}) = Total(NeedOf(g), S) + NeedOf(g)[j]
  BY <1>1, TotalAdd
<1>3. IsFiniteSet(T) /\ Total(NeedOf(g), T) <= Total(NeedOf(g), S \union {j})
  BY <1>1, NeedLess
<1> QED BY <1>1, <1>2, <1>3

-----------------------------------------------------------------------------
(* An entity keeps its backing.                                            *)

Kept(f) ==
  /\ IsFiniteSet(Running(f))'
  /\ \A g \in Good : held'[f][g] <= MaxHolding
  /\ Backed(f) => Backed(f)'

LEMMA HeldType ==
  ASSUME TypeOK, HoldingInv, NEW f \in Entity, NEW g \in Good
  PROVE  held[f][g] \in Nat /\ held[f][g] <= MaxHolding /\ held[f] \in [Good -> Nat]
BY DEF TypeOK, HoldingInv

(* No run begins, and nothing is drawn beyond what is free.                *)
LEMMA KeptIf ==
  ASSUME TypeOK, HoldingInv, NEW f \in Entity,
         \A j \in Run : j[1] = f /\ run'[j].on => run[j].on,
         \A g \in Good : /\ held'[f][g] \in Nat /\ held'[f][g] <= MaxHolding
                         /\ held'[f][g] >= held[f][g] \/ held'[f][g] >= Reserved(f, g)
  PROVE  Kept(f)
<1> DEFINE S == Running(f)
           T == Running(f)'
<1>1. S \in SUBSET Run /\ IsFiniteSet(S) /\ T \subseteq S
  BY DEF Running, HoldingInv
<1>2. \A g \in Good : Reserved(f, g) = Total(NeedOf(g), S) /\ Reserved(f, g)' = Total(NeedOf(g), T)
  BY DEF Reserved, NeedOf
<1> HIDE DEF S, T
<1>3. IsFiniteSet(T)
  BY <1>1, FS_Subset
<1>4. ASSUME NEW g \in Good, Reserved(f, g) <= held[f][g] PROVE Reserved(f, g)' <= held'[f][g]
  <2>1. /\ Total(NeedOf(g), T) \in Nat /\ Total(NeedOf(g), S) \in Nat
        /\ Total(NeedOf(g), T) <= Total(NeedOf(g), S)
    BY <1>1, NeedLess
  <2>2. /\ held'[f][g] \in Nat /\ held[f][g] \in Nat
        /\ held'[f][g] >= held[f][g] \/ held'[f][g] >= Total(NeedOf(g), S)
        /\ Total(NeedOf(g), S) <= held[f][g]
    BY <1>2, <1>4, HeldType
  <2>3. Total(NeedOf(g), T) <= held'[f][g]
    BY <2>1, <2>2
  <2> QED BY <1>2, <2>3
<1> QED BY <1>3, <1>4 DEF Kept, Backed, T

LEMMA KeptApart ==
  ASSUME TypeOK, HoldingInv, NEW f \in Entity, held'[f] = held[f],
         \A j \in Run : j[1] = f /\ run'[j].on => run[j].on
  PROVE  Kept(f)
<1>1. \A g \in Good : /\ held'[f][g] \in Nat /\ held'[f][g] <= MaxHolding
                      /\ held'[f][g] >= held[f][g]
  BY HeldType
<1> QED BY <1>1, KeptIf

(* One run begins, of a recipe whose tools are free.                       *)
LEMMA KeptBegun ==
  ASSUME TypeOK, HoldingInv, NEW e \in Entity, NEW r \in Recipe, NEW s \in Slot,
         ~run[<<e, r, s>>].on, Covers(e, Need[r]),
         \A j \in Run : j[1] = e /\ run'[j].on => run[j].on \/ j = <<e, r, s>>,
         \A g \in Good : /\ held'[e][g] \in Nat /\ held'[e][g] <= MaxHolding
                         /\ held'[e][g] = held[e][g]
                            \/ (Need[r][g] = 0 /\ held'[e][g] >= Reserved(e, g))
  PROVE  Kept(e)
<1> DEFINE S == Running(e)
           T == Running(e)'
           j == <<e, r, s>>
<1>1. /\ S \in SUBSET Run /\ IsFiniteSet(S) /\ T \subseteq S \union {j}
      /\ j \in Run /\ j \notin S /\ j[2] = r
  BY DEF Running, HoldingInv, Run
<1>2. \A g \in Good : Reserved(e, g) = Total(NeedOf(g), S) /\ Reserved(e, g)' = Total(NeedOf(g), T)
  BY DEF Reserved, NeedOf
<1> HIDE DEF S, T, j
<1>3. ASSUME NEW g \in Good
      PROVE  /\ IsFiniteSet(T)
             /\ Total(NeedOf(g), T) <= Total(NeedOf(g), S) + Need[r][g]
  BY <1>1, NeedOneMore
<1>4. ASSUME NEW g \in Good, Reserved(e, g) <= held[e][g] PROVE Reserved(e, g)' <= held'[e][g]
  <2>1. /\ Total(NeedOf(g), T) <= Total(NeedOf(g), S) + Need[r][g]
        /\ Total(NeedOf(g), S) \in Nat /\ Total(NeedOf(g), T) \in Nat /\ Need[r][g] \in Nat
    <3>1. Total(NeedOf(g), S) \in Nat
      BY <1>1, NeedLess
    <3>2. Total(NeedOf(g), T) \in Nat
      BY <1>1, <1>3, NeedLess
    <3> QED BY <1>3, <3>1, <3>2, ProductionAssumption DEF ProductionAssumption, Bundle
  <2>2. /\ held'[e][g] \in Nat /\ held[e][g] \in Nat
        /\ Total(NeedOf(g), S) <= held[e][g]
        /\ held'[e][g] = held[e][g] \/ (Need[r][g] = 0 /\ held'[e][g] >= Total(NeedOf(g), S))
    BY <1>2, <1>4, HeldType
  <2>3. Need[r][g] > 0 => held[e][g] - Total(NeedOf(g), S) >= Need[r][g]
    BY <1>2 DEF Covers, Free
  <2>4. Total(NeedOf(g), T) <= held'[e][g]
    BY <2>1, <2>2, <2>3
  <2> QED BY <1>2, <2>4
<1>5. Good # {} /\ IsFiniteSet(T)
  BY <1>3, ProductionAssumption DEF ProductionAssumption
<1> QED BY <1>4, <1>5 DEF Kept, Backed, T

(* Outputs only add, as long as the holding is within its cap.             *)
LEMMA CreditedMore ==
  ASSUME NEW r \in Recipe, NEW effort \in Nat, NEW h \in [Good -> Nat],
         \A g \in Good : h[g] <= MaxHolding, NEW g \in Good
  PROVE  /\ Credited(h, r, effort)[g] \in Nat
         /\ Credited(h, r, effort)[g] >= h[g] /\ Credited(h, r, effort)[g] <= MaxHolding
<1>1. Credited(h, r, effort)[g] = IF Yield[r][g] = 0 THEN h[g]
                                  ELSE Clip(h[g] + Scaled(Yield[r][g], r, effort))
  BY DEF Credited
<1>2. Scaled(Yield[r][g], r, effort) \in Nat
  <2>1. Yield[r][g] \in Nat /\ FullEffort(r) \in Nat
    BY Parameters
  <2>2. Yield[r][g] * effort \in Nat
    BY <2>1, ProductNat
  <2>3. CASE FullEffort(r) = 0
    BY <2>1, <2>3 DEF Scaled
  <2>4. CASE FullEffort(r) # 0
    <3>1. (Yield[r][g] * effort) \div FullEffort(r) \in Nat
      BY <2>1, <2>2, <2>4, DivNat
    <3> QED BY <2>4, <3>1 DEF Scaled
  <2> QED BY <2>3, <2>4
<1>3. PICK q \in Nat : q = Scaled(Yield[r][g], r, effort)
  BY <1>2
<1>4. h[g] \in Nat /\ h[g] <= MaxHolding /\ MaxHolding \in Nat
  BY Parameters
<1>5. Clip(h[g] + q) \in Nat /\ Clip(h[g] + q) >= h[g] /\ Clip(h[g] + q) <= MaxHolding
  BY <1>4 DEF Clip, Smaller
<1> QED BY <1>1, <1>3, <1>4, <1>5

-----------------------------------------------------------------------------
(* Per action: backing survives the step, unless something is taken.       *)

(* What a lump leaves of each good: all of it, or what is reserved, and    *)
(* then of a good that is no tool of the recipe.                           *)
LEMMA LumpLeaves ==
  ASSUME TypeOK, HoldingInv, ToolsAreKept, NEW e \in Entity, NEW r \in Recipe,
         NEW d \in Nat, LumpDraw(e, r, d), NEW g \in Good
  PROVE  LET h == Draw(held[e], LumpAt(r, d))
         IN  /\ h[g] \in Nat /\ h[g] <= held[e][g] /\ held[e][g] <= MaxHolding
             /\ h[g] = held[e][g] \/ (Need[r][g] = 0 /\ h[g] >= Reserved(e, g))
<1> DEFINE h == Draw(held[e], LumpAt(r, d))
<1>1. /\ held[e][g] \in Nat /\ held[e][g] <= MaxHolding
      /\ Reserved(e, g) \in Nat
      /\ Lump[r] \in [Good -> Nat] /\ Need[r][g] \in Nat
  BY HeldType, ReservedType, Parameters, ProductionAssumption DEF ProductionAssumption, Bundle
<1>2. h[g] = held[e][g] - LumpAt(r, d)[g] /\ LumpAt(r, d)[g] <= held[e][g]
  BY DEF LumpDraw, CanDraw, Draw
<1>3. Lump[r][g] > 0 => Need[r][g] = 0
  BY <1>1 DEF ToolsAreKept
<1>4. CASE g = Labor
  <2>1. LumpAt(r, d)[g] = d
    BY <1>1, <1>4 DEF LumpAt
  <2>2. CASE FullEffort(r) = 0
    <3>1. d = 0
      BY <2>2 DEF LumpDraw
    <3> QED BY <1>1, <1>2, <2>1, <3>1
  <2>3. CASE FullEffort(r) # 0
    <3>1. d <= Free(e, g)
      <4>1. d = Smaller(Free(e, Labor), FullEffort(r))
        BY <2>3 DEF LumpDraw
      <4>2. Free(e, Labor) \in Int /\ FullEffort(r) \in Nat
        BY <1>1, <1>4, Parameters DEF Free
      <4> QED BY <1>4, <4>1, <4>2 DEF Smaller
    <3>2. Lump[r][g] > 0
      BY <1>1, <1>4, <2>3 DEF FullEffort
    <3> QED BY <1>1, <1>2, <1>3, <2>1, <3>1, <3>2 DEF Free
  <2> QED BY <2>2, <2>3
<1>5. CASE g # Labor
  <2>1. LumpAt(r, d)[g] = Lump[r][g] /\ LumpAt(r, 0)[g] = Lump[r][g] /\ Lump[r][g] \in Nat
    BY <1>1, <1>5 DEF LumpAt
  <2>2. Lump[r][g] > 0 => Free(e, g) >= Lump[r][g]
    BY <2>1 DEF LumpDraw, Covers
  <2>3. CASE Lump[r][g] = 0
    BY <1>1, <1>2, <2>1, <2>3
  <2>4. CASE Lump[r][g] > 0
    BY <1>1, <1>2, <1>3, <2>1, <2>2, <2>4 DEF Free
  <2> QED BY <2>1, <2>3, <2>4
<1> QED BY <1>1, <1>2, <1>4, <1>5

(* A launch from what a start leaves keeps the backing.                    *)
LEMMA LaunchKeeps ==
  ASSUME TypeOK, HoldingInv, NEW e \in Entity, NEW r \in Recipe, NEW s \in Slot,
         CanStart(e, r, s), NEW effort \in Nat, NEW h \in [Good -> Nat], NEW n,
         Launch(e, r, s, effort, h, n),
         \A g \in Good : /\ h[g] \in Nat /\ h[g] <= held[e][g] /\ held[e][g] <= MaxHolding
                         /\ h[g] = held[e][g] \/ (Need[r][g] = 0 /\ h[g] >= Reserved(e, g)),
         NEW f \in Entity
  PROVE  Kept(f)
<1> DEFINE remaining == Dur[r] - bank[<<e, r>>].ticks
<1>1. ~run[<<e, r, s>>].on /\ Covers(e, Need[r]) /\ held \in [Entity -> [Good -> Nat]]
  BY DEF CanStart, TypeOK
<1>2. CASE remaining = 0
  <2>1. held' = [held EXCEPT ![e] = Credited(h, r, effort)] /\ run' = run
    BY <1>2 DEF Launch
  <2>2. CASE f = e
    <3>1. held'[f] = Credited(h, r, effort)
      BY <1>1, <2>1, <2>2
    <3>2. \A g \in Good : h[g] <= MaxHolding
      BY HeldType, Parameters
    <3>3. ASSUME NEW g \in Good
          PROVE  /\ held'[f][g] \in Nat /\ held'[f][g] <= MaxHolding
                 /\ held'[f][g] >= held[f][g] \/ held'[f][g] >= Reserved(f, g)
      <4>1. held'[f][g] \in Nat /\ held'[f][g] >= h[g] /\ held'[f][g] <= MaxHolding
        BY <3>1, <3>2, CreditedMore
      <4>2. held[e][g] \in Nat /\ Reserved(e, g) \in Nat /\ h[g] \in Nat
        BY HeldType, ReservedType
      <4>3. h[g] = held[e][g] \/ h[g] >= Reserved(e, g)
        OBVIOUS
      <4> QED BY <2>2, <4>1, <4>2, <4>3
    <3>4. \A j \in Run : j[1] = f /\ run'[j].on => run[j].on
      BY <2>1
    <3> QED BY <3>3, <3>4, KeptIf
  <2>3. CASE f # e
    BY <1>1, <2>1, <2>3, KeptApart
  <2> QED BY <2>2, <2>3
<1>3. CASE remaining # 0
  <2>1. /\ held' = [held EXCEPT ![e] = h]
        /\ run' = [run EXCEPT ![<<e, r, s>>] =
             [on |-> TRUE, age |-> 0, left |-> remaining, effort |-> effort]]
    BY <1>3 DEF Launch
  <2>2. \A j \in Run : run'[j].on => run[j].on \/ j = <<e, r, s>>
    <3> HIDE DEF remaining
    <3> QED BY <2>1 DEF TypeOK, RunOK
  <2>3. CASE f = e
    <3>1. held'[e] = h
      BY <1>1, <2>1
    <3>2. \A g \in Good : /\ held'[e][g] \in Nat /\ held'[e][g] <= MaxHolding
                          /\ held'[e][g] = held[e][g]
                             \/ (Need[r][g] = 0 /\ held'[e][g] >= Reserved(e, g))
      BY <3>1, HeldType, Parameters
    <3>3. \A j \in Run : j[1] = e /\ run'[j].on => run[j].on \/ j = <<e, r, s>>
      BY <2>2
    <3>4. Kept(e)
      BY <1>1, <3>2, <3>3, KeptBegun
    <3> QED BY <2>3, <3>4
  <2>4. CASE f # e
    <3>1. held'[f] = held[f]
      BY <1>1, <2>1, <2>4
    <3>2. \A j \in Run : j[1] = f /\ run'[j].on => run[j].on
      BY <2>2, <2>4
    <3> QED BY <3>1, <3>2, KeptApart
  <2> QED BY <2>3, <2>4
<1> QED BY <1>2, <1>3

LEMMA ActKeeps ==
  ASSUME TypeOK, HoldingInv, ToolsAreKept,
         NEW e \in Entity, NEW r \in Recipe, NEW s \in Slot, Act(e, r, s), NEW f \in Entity
  PROVE  Kept(f)
<1>1. CASE Start(e, r, s)
  <2>1. PICK d \in 0..FullEffort(r) :
          /\ LumpDraw(e, r, d)
          /\ Launch(e, r, s, d, Draw(held[e], LumpAt(r, d)), 1)
    BY <1>1 DEF Start
  <2>2. d \in Nat
    BY Parameters
  <2> DEFINE h == Draw(held[e], LumpAt(r, d))
  <2>3. h \in [Good -> Nat]
    <3>1. held[e] \in [Good -> Nat] /\ LumpAt(r, d) \in [Good -> Nat]
      BY <2>2, Parameters DEF TypeOK, LumpAt
    <3> QED BY <2>1, <3>1, DrawType DEF LumpDraw
  <2>4. \A g \in Good :
          /\ h[g] \in Nat /\ h[g] <= held[e][g] /\ held[e][g] <= MaxHolding
          /\ h[g] = held[e][g] \/ (Need[r][g] = 0 /\ h[g] >= Reserved(e, g))
    BY <2>1, <2>2, LumpLeaves
  <2>5. CanStart(e, r, s) /\ Launch(e, r, s, d, h, 1)
    BY <1>1, <2>1 DEF Start
  <2> HIDE DEF h
  <2> QED BY <2>2, <2>3, <2>4, <2>5, LaunchKeeps
<1>2. CASE Resume(e, r, s)
  <2>1. /\ CanStart(e, r, s)
        /\ bank[<<e, r>>].effort \in Nat
        /\ held[e] \in [Good -> Nat]
        /\ Launch(e, r, s, bank[<<e, r>>].effort, held[e], 0)
    BY <1>2, ResumeLaunches, Parameters DEF Resume
  <2>2. \A g \in Good :
          /\ held[e][g] \in Nat /\ held[e][g] <= held[e][g] /\ held[e][g] <= MaxHolding
          /\ held[e][g] = held[e][g] \/ (Need[r][g] = 0 /\ held[e][g] >= Reserved(e, g))
    BY HeldType
  <2> QED BY <2>1, <2>2, LaunchKeeps
<1>3. CASE Cancel(e, r, s)
  <2>1. held'[f] = held[f] /\ \A j \in Run : run'[j].on => run[j].on
    BY <1>3 DEF Cancel, Pause, Off, TypeOK, RunOK
  <2> QED BY <2>1, KeptApart
<1> QED BY <1>1, <1>2, <1>3 DEF Act

(* Outputs are credited to e, whose runs stay as they are or end.          *)
LEMMA CreditKeeps ==
  ASSUME TypeOK, HoldingInv, NEW e \in Entity, NEW r \in Recipe, NEW s \in Slot,
         CreditOutputs(e, r, s), \A j \in Run : run'[j].on => run[j].on, NEW f \in Entity
  PROVE  Kept(f)
<1>1. run[<<e, r, s>>].effort \in Nat /\ held \in [Entity -> [Good -> Nat]]
  BY DEF TypeOK, RunOK, RunRow, Run
<1>2. CASE f = e
  <2>1. held'[f] = Credited(held[e], r, run[<<e, r, s>>].effort)
    BY <1>1, <1>2 DEF CreditOutputs
  <2>2. held[e] \in [Good -> Nat] /\ \A g \in Good : held[e][g] <= MaxHolding
    BY HeldType, <1>1
  <2>3. \A g \in Good : /\ held'[f][g] \in Nat /\ held'[f][g] <= MaxHolding
                        /\ held'[f][g] >= held[f][g] \/ held'[f][g] >= Reserved(f, g)
    BY <1>1, <1>2, <2>1, <2>2, CreditedMore
  <2> QED BY <2>3, KeptIf
<1>3. CASE f # e
  <2>1. held'[f] = held[f]
    BY <1>1, <1>3 DEF CreditOutputs
  <2> QED BY <2>1, KeptApart
<1> QED BY <1>2, <1>3

LEMMA VisitKeeps ==
  ASSUME TypeOK, HoldingInv,
         NEW e \in Entity, NEW r \in Recipe, NEW s \in Slot, Visit(e, r, s), NEW f \in Entity
  PROVE  Kept(f)
<1>0. CloseRun(e, r, s) => \A j \in Run : run'[j].on => run[j].on
  BY DEF CloseRun, Off, TypeOK, RunOK
<1>1. CASE Complete(e, r, s)
  BY <1>0, <1>1, CreditKeeps DEF Complete
<1>2. CASE MintOutputs(e, r, s)
  BY <1>2, CreditKeeps DEF MintOutputs
<1>3. CASE FinishMint(e, r, s)
  BY <1>0, <1>3, KeptApart DEF FinishMint
<1>4. CASE Veto(e, r, s)
  BY <1>4, KeptApart DEF Veto
<1>5. CASE Charge(e, r, s)
  <2>1. /\ held' = [held EXCEPT ![e] = Draw(held[e], PerTick[r])] /\ run' = run
        /\ Covers(e, PerTick[r]) /\ CanDraw(held[e], PerTick[r])
        /\ held \in [Entity -> [Good -> Nat]]
    BY <1>5 DEF Charge, TypeOK
  <2>2. CASE f = e
    <3>1. ASSUME NEW g \in Good
          PROVE  /\ held'[f][g] \in Nat /\ held'[f][g] <= MaxHolding
                 /\ held'[f][g] >= held[f][g] \/ held'[f][g] >= Reserved(f, g)
      <4>1. held'[f][g] = held[e][g] - PerTick[r][g] /\ PerTick[r][g] <= held[e][g]
        BY <2>1, <2>2 DEF Draw, CanDraw
      <4>2. /\ held[e][g] \in Nat /\ held[e][g] <= MaxHolding /\ Reserved(e, g) \in Nat
            /\ PerTick[r][g] \in Nat /\ MaxHolding \in Nat
        BY HeldType, ReservedType, Parameters
      <4>3. PerTick[r][g] > 0 => held[e][g] - Reserved(e, g) >= PerTick[r][g]
        BY <2>1 DEF Covers, Free
      <4> QED BY <2>2, <4>1, <4>2, <4>3
    <3>2. \A j \in Run : j[1] = f /\ run'[j].on => run[j].on
      BY <2>1
    <3> QED BY <3>1, <3>2, KeptIf
  <2>3. CASE f # e
    BY <2>1, <2>3, KeptApart
  <2> QED BY <2>2, <2>3
<1>6. CASE Fail(e, r, s)
  <2>1. held'[f] = held[f] /\ \A j \in Run : run'[j].on => run[j].on
    BY <1>6 DEF Fail, Pause, Off, TypeOK, RunOK
  <2> QED BY <2>1, KeptApart
<1> QED BY <1>1, <1>2, <1>3, <1>4, <1>5, <1>6 DEF Visit

LEMMA TickKeeps ==
  ASSUME TypeOK, HoldingInv, TickStep, NEW f \in Entity
  PROVE  Kept(f)
<1>1. CASE BeginTick \/ EndComplete \/ EndIntents \/ EndCharge
  BY <1>1, KeptApart DEF BeginTick, EndComplete, EndIntents, EndCharge
<1>2. CASE Commit
  <2>1. \A j \in Run : run'[j].on => run[j].on
    BY <1>2 DEF Commit, Aged
  <2> QED BY <1>2, <2>1, KeptApart DEF Commit
<1>3. CASE \E e \in Entity, r \in Recipe, s \in Slot : Visit(e, r, s)
  BY <1>3, VisitKeeps
<1> QED BY <1>1, <1>2, <1>3 DEF TickStep

(* What is gained or sold keeps the backing; what is taken from e keeps    *)
(* everyone else's; a death leaves the entity nothing, and nothing to back.*)
LEMMA WorldKeeps ==
  ASSUME TypeOK, HoldingInv, World, NEW f \in Entity
  PROVE  \/ Kept(f)
         \/ /\ \E g \in Good : Take(f, g)
            /\ IsFiniteSet(Running(f))' /\ \A g \in Good : held'[f][g] <= MaxHolding
<1>0. held \in [Entity -> [Good -> Nat]] /\ MaxHolding \in Nat
  BY ProductionAssumption DEF ProductionAssumption, TypeOK
<1>1. ASSUME NEW e \in Entity, NEW g \in Good, Gain(e, g) \/ Sell(e, g) PROVE Kept(f)
  <2>1. CASE f = e
    <3>1. run' = run
      BY <1>1 DEF Gain, Sell
    <3>2. ASSUME NEW k \in Good
          PROVE  /\ held'[f][k] \in Nat /\ held'[f][k] <= MaxHolding
                 /\ held'[f][k] >= held[f][k] \/ held'[f][k] >= Reserved(f, k)
      <4>1. held[f][k] \in Nat /\ held[f][k] <= MaxHolding /\ Reserved(f, k) \in Nat
        BY HeldType, ReservedType
      <4>2. k # g => held'[f][k] = held[f][k]
        BY <1>0, <1>1, <2>1 DEF Gain, Sell
      <4>3. CASE Gain(e, g) /\ k = g
        <5>1. held'[f][k] = held[f][k] + 1 /\ held[f][k] < MaxHolding
          BY <1>0, <2>1, <4>3 DEF Gain
        <5> QED BY <1>0, <4>1, <5>1
      <4>4. CASE Sell(e, g) /\ k = g
        <5>1. /\ held'[f][k] = held[f][k] - 1 /\ held[f][k] > 0
              /\ held[f][k] - Reserved(f, k) >= 1
          BY <1>0, <2>1, <4>4 DEF Sell, Free
        <5> QED BY <1>0, <4>1, <5>1
      <4> QED BY <1>0, <1>1, <4>1, <4>2, <4>3, <4>4
    <3> QED BY <3>1, <3>2, KeptIf
  <2>2. CASE f # e
    BY <1>0, <1>1, <2>2, KeptApart DEF Gain, Sell
  <2> QED BY <2>1, <2>2
<1>2. ASSUME NEW e \in Entity, NEW g \in Good, Take(e, g)
      PROVE  \/ Kept(f)
             \/ /\ Take(f, g)
                /\ IsFiniteSet(Running(f))' /\ \A k \in Good : held'[f][k] <= MaxHolding
  <2>1. CASE f = e
    <3>1. IsFiniteSet(Running(f))'
      <4>1. Running(f)' = Running(f)
        BY <1>2 DEF Take, Running
      <4> QED BY <4>1 DEF HoldingInv
    <3>2. ASSUME NEW k \in Good PROVE held'[f][k] <= MaxHolding
      <4>1. held[f][k] \in Nat /\ held[f][k] <= MaxHolding
        BY HeldType
      <4>2. held'[f][k] = held[f][k] \/ held'[f][k] = held[f][k] - 1
        BY <1>0, <1>2, <2>1 DEF Take
      <4> QED BY <1>0, <4>1, <4>2
    <3> QED BY <1>2, <2>1, <3>1, <3>2
  <2>2. CASE f # e
    BY <1>0, <1>2, <2>2, KeptApart DEF Take
  <2> QED BY <2>1, <2>2
<1>3. ASSUME NEW e \in Entity, Incapacitate(e) PROVE Kept(f)
  <2>1. \A j \in Run : run'[j].on => run[j].on /\ j[1] # e
    BY <1>3 DEF Incapacitate, TypeOK, RunOK
  <2>2. CASE f = e
    <3>1. Running(f)' = {}
      BY <2>1, <2>2 DEF Running
    <3>2. \A g \in Good : held'[f][g] = 0
      BY <1>0, <1>3, <2>2 DEF Incapacitate
    <3>3. \A g \in Good : Reserved(f, g)' = Total(NeedOf(g), {})
      BY <3>1 DEF Reserved, NeedOf
    <3>4. \A g \in Good : Reserved(f, g)' = 0
      BY <3>3, TotalEmpty
    <3>5. IsFiniteSet(Running(f))'
      BY <3>1, FS_EmptySet
    <3>6. Backed(f)'
      BY <3>2, <3>4 DEF Backed
    <3>7. \A g \in Good : held'[f][g] <= MaxHolding
      BY <1>0, <3>2
    <3> QED BY <3>5, <3>6, <3>7 DEF Kept
  <2>3. CASE f # e
    <3>1. held'[f] = held[f]
      BY <1>0, <1>3, <2>3 DEF Incapacitate
    <3> QED BY <2>1, <3>1, KeptApart
  <2> QED BY <2>2, <2>3
<1> QED BY <1>1, <1>2, <1>3 DEF World

LEMMA InitHolding == Init => HoldingInv
<1> SUFFICES ASSUME Init PROVE HoldingInv
  OBVIOUS
<1>1. ASSUME NEW e \in Entity PROVE IsFiniteSet(Running(e))
  <2>1. Running(e) = {}
    BY DEF Running, Init, Off
  <2> QED BY <2>1, FS_EmptySet
<1>2. ASSUME NEW e \in Entity, NEW g \in Good PROVE held[e][g] <= MaxHolding
  BY ProductionAssumption DEF Init, ProductionAssumption
<1> QED BY <1>1, <1>2 DEF HoldingInv

LEMMA StepBacking ==
  ToolsAreKept /\ TypeOK /\ HoldingInv /\ [Next]_vars => HoldingInv' /\ [StaysBacked]_vars
<1> SUFFICES ASSUME ToolsAreKept, TypeOK, HoldingInv, [Next]_vars
             PROVE  HoldingInv' /\ [StaysBacked]_vars
  OBVIOUS
<1>1. CASE UNCHANGED vars
  <2>1. ASSUME NEW e \in Entity PROVE IsFiniteSet(Running(e))' /\ \A g \in Good : held'[e][g] <= MaxHolding
    <3>1. Running(e)' = Running(e) /\ held' = held
      BY <1>1 DEF vars, Running
    <3> QED BY <3>1 DEF HoldingInv
  <2> QED BY <1>1, <2>1 DEF HoldingInv
<1>2. CASE Next
  <2>1. ASSUME NEW f \in Entity
        PROVE  \/ Kept(f)
               \/ /\ \E g \in Good : Take(f, g)
                  /\ IsFiniteSet(Running(f))' /\ \A g \in Good : held'[f][g] <= MaxHolding
    <3>1. CASE TickStep
      BY <3>1, TickKeeps
    <3>2. CASE \E e \in Entity, r \in Recipe, s \in Slot : Act(e, r, s)
      BY <3>2, ActKeeps
    <3>3. CASE World
      BY <3>3, WorldKeeps
    <3> QED BY <1>2, <3>1, <3>2, <3>3 DEF Next
  <2>2. HoldingInv'
    BY <2>1 DEF Kept, HoldingInv
  <2>3. StaysBacked
    BY <2>1 DEF Kept, StaysBacked
  <2> QED BY <2>2, <2>3
<1> QED BY <1>1, <1>2

(* Where no recipe uses up the tool it is worked with, an entity whose     *)
(* holdings back its running processes stays backed, whatever it starts,   *)
(* resumes, draws, sells, completes or mints, and whoever else acts: only  *)
(* putting down, eating, rot or seizure unbacks it (_available_quantity in *)
(* the start and the per-tick charge of production.py, and settlement).    *)
THEOREM OnlyTakingBreaksBackingHolds ==
  ASSUME ToolsAreKept PROVE Spec => OnlyTakingBreaksBacking
<1>1. Init => TypeOK /\ HoldingInv
  BY InitTypes, InitHolding
<1>2. ToolsAreKept /\ TypeOK /\ HoldingInv /\ [Next]_vars => (TypeOK /\ HoldingInv)' /\ [StaysBacked]_vars
  BY StepTypes, StepBacking
<1> QED BY <1>1, <1>2, PTL DEF Spec, OnlyTakingBreaksBacking
=============================================================================
