---------------------------- MODULE Epochs_proofs ----------------------------
(* Epochs, for any users, conditions, caps and bounds: every variable      *)
(* keeps its type, the stamps are the win, the eliminated are registered   *)
(* in time, and nobody stands above a winner without winning.              *)
(*                                                                         *)
(* And the body, for any people, beasts, rules and rates: a death is final *)
(* and told once, and no outcome of a sleep is dodged.                     *)
EXTENDS Epochs, Body, Totals_proofs

EpochShape ==
  [number : Nat, condition : Conditions \union {NoEpoch.condition}, started : Nat, ended : Int,
   winners : SUBSET User]
StampShape == [epoch : Nat \ {0}, user : User, tick : Nat]

Of(won, ep) == {s \in won : s.epoch = ep.number}

(* An epoch is won by whom its stamps name, when it ends; or nobody wins   *)
(* it, and what is stamped was won after the tick its close was read at.   *)
Won(ep, won) == {s.user : s \in Of(won, ep)} = ep.winners /\ \A s \in Of(won, ep) : s.tick = ep.ended
Lost(ep, won) == ep.winners = {} /\ ep.ended >= 0 /\ \A s \in Of(won, ep) : s.tick > ep.ended

(* The stamps of the register, given the epoch on record.                  *)
StampInv(ep, won) ==
  /\ ep \in EpochShape
  /\ won \subseteq StampShape
  /\ \A s \in won : s.epoch <= ep.number
  /\ \A s, r \in Of(won, ep) : s.tick = r.tick /\ s.tick > ep.started
  /\ Won(ep, won) \/ Lost(ep, won)
  /\ Running(ep) => ep.winners = {} /\ Of(won, ep) = {}

(* What the operator will write follows from the epoch on record, though   *)
(* that may have been won since it was read.                               *)
DeskInv ==
  desk # NoDesk =>
    /\ desk.to \in EpochShape /\ desk.to.winners = {}
    /\ \/ desk.op = "start" /\ ~Running(epoch) /\ desk.to.number = epoch.number + 1
       \/ /\ desk.op = "close" /\ desk.to.number = epoch.number /\ desk.to.started = epoch.started
          /\ desk.to.ended \in 0..tick
          /\ \A s \in Of(stamps, epoch) : s.tick > desk.to.ended

WinInv == tick \in Nat /\ batch \in Int /\ StampInv(epoch, stamps) /\ DeskInv

LEMMA CrossersAreUsers ==
  ASSUME NEW es, NEW ep, NEW t
  PROVE  Crossers(es, ep, t) \in SUBSET User
  BY DEF Crossers, Candidates

(* The stamps of a decided tick are the win of the epoch they end.         *)
LEMMA SealKeeps ==
  ASSUME NEW ep, NEW won, StampInv(ep, won),
         NEW t \in Nat, NEW U \in SUBSET User, U # {}, Judges(ep, t),
         NEW new, new = Sealed(ep, U, t),
         NEW all, all = won \union {[epoch |-> ep.number, user |-> u, tick |-> t] : u \in U}
  PROVE  /\ StampInv(new, all) /\ ~Running(new)
         /\ new.number = ep.number /\ new.started = ep.started
         /\ \A s \in Of(all, new) : s.tick = t
         /\ won \subseteq all
         /\ \A s \in all \ won : s.epoch = ep.number /\ s.user \in U /\ s.tick = t
<1> DEFINE fresh == {[epoch |-> ep.number, user |-> u, tick |-> t] : u \in U}
<1>1. /\ ep \in EpochShape /\ ep.number \in Nat \ {0} /\ ep.started \in Nat
      /\ Running(ep) /\ t > ep.started /\ won \subseteq StampShape
      /\ \A s \in won : s.epoch <= ep.number /\ s.epoch # ep.number
  BY DEF StampInv, Judges, Running, EpochShape, Of
<1>2. /\ new \in EpochShape
      /\ new.number = ep.number /\ new.started = ep.started /\ new.ended = t /\ new.winners = U
  <2>1. new = [ep EXCEPT !.ended = t, !.winners = U]
    BY DEF Sealed
  <2> DEFINE mid == [ep EXCEPT !.ended = t]
  <2>2. mid \in EpochShape /\ mid.number = ep.number /\ mid.started = ep.started /\ mid.ended = t
    BY <1>1 DEF EpochShape
  <2>3. new = [mid EXCEPT !.winners = U]
    BY <2>1, <1>1 DEF EpochShape
  <2> HIDE DEF mid
  <2> QED BY <2>2, <2>3 DEF EpochShape
<1>3. /\ \A s \in fresh : s \in StampShape /\ s.epoch = ep.number /\ s.user \in U /\ s.tick = t
      /\ \A u \in U : \E s \in fresh : s.user = u
  <2> DEFINE stamp(u) == [epoch |-> ep.number, user |-> u, tick |-> t]
  <2>1. ASSUME NEW u \in U
        PROVE  /\ stamp(u) \in StampShape /\ stamp(u).epoch = ep.number
               /\ stamp(u).user = u /\ stamp(u).tick = t
    BY <1>1 DEF StampShape
  <2> HIDE DEF stamp
  <2>2. fresh = {stamp(u) : u \in U}
    BY DEF stamp
  <2> HIDE DEF fresh
  <2> QED BY <2>1, <2>2
<1>4. ~Running(new)
  BY <1>2 DEF Running
<1>5. all = won \union fresh
  OBVIOUS
<1> HIDE DEF fresh
<1>6. Of(all, new) = fresh
  BY <1>1, <1>2, <1>3, <1>5 DEF Of
<1>7. {s.user : s \in fresh} = U
  BY <1>3
<1>8. Won(new, all)
  BY <1>2, <1>3, <1>6, <1>7 DEF Won
<1>9. \A s \in all : s.epoch <= new.number /\ s \in StampShape
  BY <1>1, <1>2, <1>3, <1>5
<1>10. StampInv(new, all)
  <2>1. \A s, r \in Of(all, new) : s.tick = r.tick /\ s.tick > new.started
    BY <1>1, <1>2, <1>3, <1>6
  <2>2. all \subseteq StampShape
    BY <1>9
  <2> QED BY <1>2, <1>4, <1>8, <1>9, <2>1, <2>2 DEF StampInv
<1> QED BY <1>2, <1>3, <1>4, <1>5, <1>6, <1>10

(* The observer keeps the register true, whatever the tick did, and stamps *)
(* only who crosses.                                                       *)
LEMMA ObserveKeeps ==
  ASSUME WinInv, NEW t \in Nat, t = tick + 1, tick' = t, Observe(entities', t)
  PROVE  /\ StampInv(epoch', stamps') /\ WinsAreCrossings
         /\ epoch'.number = epoch.number /\ epoch'.started = epoch.started
         /\ Running(epoch') => Running(epoch)
         /\ \A s \in Of(stamps', epoch') : s \in Of(stamps, epoch) \/ s.tick = t
         /\ ~Running(epoch) => UNCHANGED <<epoch, stamps>>
<1> DEFINE U == IF Judges(epoch, t) THEN Crossers(entities', epoch, t) ELSE {}
<1>1. CASE U = {}
  <2>1. epoch' = epoch /\ stamps' = stamps
    BY <1>1 DEF Observe
  <2> QED BY <2>1 DEF WinInv, WinsAreCrossings
<1>2. CASE U # {}
  <2>1. Judges(epoch, t) /\ U \in SUBSET User /\ U = Crossers(entities', epoch, t)
    BY <1>2, CrossersAreUsers
  <2>2. /\ epoch' = Sealed(epoch, U, t)
        /\ stamps' = stamps \union {[epoch |-> epoch.number, user |-> u, tick |-> t] : u \in U}
    BY <1>2 DEF Observe
  <2> HIDE DEF U
  <2>3. /\ StampInv(epoch', stamps') /\ ~Running(epoch')
        /\ epoch'.number = epoch.number /\ epoch'.started = epoch.started
        /\ \A s \in Of(stamps', epoch') : s.tick = t
        /\ stamps \subseteq stamps'
        /\ \A s \in stamps' \ stamps : s.epoch = epoch.number /\ s.user \in U /\ s.tick = t
    BY <1>2, <2>1, <2>2, SealKeeps DEF WinInv
  <2>4. Running(epoch)
    BY <2>1 DEF Judges
  <2>5. WinsAreCrossings
    BY <2>1, <2>3, <2>4 DEF WinsAreCrossings, Crossers, Candidates
  <2> QED BY <2>3, <2>4, <2>5
<1> QED BY <1>1, <1>2

(* The operator writes over the epoch that was read.                       *)
LEMMA DeskKeeps ==
  ASSUME WinInv, desk # NoDesk
  PROVE  StampInv(desk.to, stamps)
<1>1. /\ epoch \in EpochShape /\ desk.to \in EpochShape /\ desk.to.winners = {}
      /\ epoch.number \in Nat /\ desk.to.number \in Nat
      /\ stamps \subseteq StampShape /\ \A s \in stamps : s.epoch \in Nat /\ s.epoch <= epoch.number
  BY DEF WinInv, StampInv, DeskInv, EpochShape, StampShape
<1>2. CASE desk.to.number = epoch.number + 1
  <2>1. \A s \in stamps : s.epoch <= desk.to.number /\ s.epoch # desk.to.number
    BY <1>1, <1>2
  <2>2. Of(stamps, desk.to) = {}
    BY <2>1 DEF Of
  <2> QED BY <1>1, <2>1, <2>2 DEF StampInv, Won
<1>3. CASE /\ desk.to.number = epoch.number /\ desk.to.started = epoch.started
           /\ desk.to.ended \in 0..tick
           /\ \A s \in Of(stamps, epoch) : s.tick > desk.to.ended
  <2>1. Of(stamps, desk.to) = Of(stamps, epoch)
    BY <1>3 DEF Of
  <2>2. desk.to.ended >= 0 /\ ~Running(desk.to)
    BY <1>3 DEF WinInv, Running
  <2> QED BY <1>1, <1>3, <2>1, <2>2 DEF WinInv, StampInv, Lost
<1> QED BY <1>2, <1>3 DEF WinInv, DeskInv

LEMMA InitWin == Init => WinInv
<1> SUFFICES ASSUME Init PROVE WinInv
  OBVIOUS
<1>1. epoch = NoEpoch /\ stamps = {} /\ tick = 0 /\ batch = 0 /\ desk = NoDesk
  BY DEF Init
<1>2. epoch \in EpochShape /\ epoch.winners = {} /\ ~Running(epoch)
  BY <1>1 DEF NoEpoch, EpochShape, Running
<1>3. Of(stamps, epoch) = {}
  BY <1>1 DEF Of
<1>4. StampInv(epoch, stamps)
  BY <1>1, <1>2, <1>3 DEF StampInv, Won
<1> QED BY <1>1, <1>4 DEF WinInv, DeskInv

LEMMA StepWin ==
  ASSUME WinInv, [Next]_vars
  PROVE  WinInv' /\ (UNCHANGED stamps \/ WinsAreCrossings)
<1> DEFINE Goal == WinInv' /\ (UNCHANGED stamps \/ WinsAreCrossings)
<1>0. K \in Nat /\ tick \in Nat /\ batch \in Int /\ StampInv(epoch, stamps) /\ DeskInv
  BY EpochsAssumption DEF EpochsAssumption, WinInv
<1>1. ASSUME UNCHANGED <<epoch, stamps, desk>>, tick' \in {tick, tick + 1}, batch' \in Int PROVE Goal
  <2>1. tick' \in Nat /\ \A n \in 0..tick : n \in 0..tick'
    BY <1>0, <1>1
  <2>2. DeskInv'
    BY <1>0, <1>1, <2>1 DEF DeskInv
  <2> QED BY <1>0, <1>1, <2>1, <2>2 DEF WinInv
<1>2. ASSUME Observe(entities', tick + 1), UNCHANGED desk, tick' = tick + 1, batch' \in Int
      PROVE  Goal
  <2>1. /\ StampInv(epoch', stamps') /\ WinsAreCrossings
        /\ epoch'.number = epoch.number /\ epoch'.started = epoch.started
        /\ Running(epoch') => Running(epoch)
        /\ \A s \in Of(stamps', epoch') : s \in Of(stamps, epoch) \/ s.tick = tick + 1
    BY <1>0, <1>2, ObserveKeeps
  <2>2. \A n \in 0..tick : n \in 0..tick' /\ tick + 1 > n
    BY <1>0, <1>2
  <2>3. DeskInv'
    BY <1>0, <1>2, <2>1, <2>2 DEF DeskInv
  <2> QED BY <1>0, <1>2, <2>1, <2>3 DEF WinInv
<1> HIDE DEF Goal
<1> SUFFICES Goal
  BY DEF Goal
<1>3. CASE BeginRound
  BY <1>3, <1>1, <1>0 DEF BeginRound
<1>4. CASE RoundTick
  BY <1>4, <1>0, <1>2 DEF RoundTick
<1>5. CASE Heartbeat
  BY <1>5, <1>0, <1>2 DEF Heartbeat
<1>6. CASE RawTick
  BY <1>6, <1>0, <1>1 DEF RawTick
<1>7. CASE \E u \in User : AskJoin(u) \/ AnswerJoin(u) \/ CreateEntity(u)
  BY <1>7, <1>0, <1>1 DEF AskJoin, AnswerJoin, CreateEntity
<1>8. ASSUME NEW c \in Conditions, AskStart(c) PROVE Goal
  <2> DEFINE new == [number |-> epoch.number + 1, condition |-> c, started |-> tick, ended |-> -1, winners |-> {}]
  <2>1. /\ desk' = [op |-> "start", to |-> new] /\ ~Running(epoch)
        /\ UNCHANGED <<tick, batch, epoch, stamps>>
    BY <1>8 DEF AskStart
  <2>2. new \in EpochShape /\ new.number = epoch.number + 1 /\ new.winners = {}
    BY <1>0 DEF StampInv, EpochShape
  <2> HIDE DEF new
  <2>3. desk'.to = new /\ desk'.op = "start"
    BY <2>1
  <2>4. DeskInv'
    BY <2>1, <2>2, <2>3 DEF DeskInv
  <2> QED BY <1>0, <2>1, <2>4 DEF WinInv, Goal
<1>9. CASE AskClose
  <2> DEFINE new == [epoch EXCEPT !.ended = tick]
  <2>1. /\ desk' = [op |-> "close", to |-> new] /\ Running(epoch)
        /\ UNCHANGED <<tick, batch, epoch, stamps>>
    BY <1>9 DEF AskClose
  <2>2. /\ new \in EpochShape /\ new.number = epoch.number /\ new.started = epoch.started
        /\ new.winners = epoch.winners /\ new.ended = tick
    BY <1>0 DEF StampInv, EpochShape
  <2> HIDE DEF new
  <2>3. desk'.to = new /\ desk'.op = "close"
    BY <2>1
  <2>4. epoch.winners = {} /\ Of(stamps, epoch) = {}
    BY <1>0, <2>1 DEF StampInv
  <2>5. DeskInv'
    BY <1>0, <2>1, <2>2, <2>3, <2>4 DEF DeskInv
  <2> QED BY <1>0, <2>1, <2>5 DEF WinInv, Goal
<1>10. CASE AnswerOperator
  <2>1. /\ epoch' = desk.to /\ desk' = NoDesk /\ stamps' = stamps /\ desk # NoDesk
        /\ UNCHANGED <<tick, batch>>
    BY <1>10 DEF AnswerOperator
  <2>2. StampInv(desk.to, stamps)
    BY <2>1, DeskKeeps
  <2> QED BY <1>0, <2>1, <2>2 DEF DeskInv, WinInv, Goal
<1>11. CASE UNCHANGED vars
  BY <1>0, <1>11, <1>1 DEF vars
<1> QED BY <1>3, <1>4, <1>5, <1>6, <1>7, <1>8, <1>9, <1>10, <1>11 DEF Next

LEMMA WinFromInv ==
  ASSUME WinInv
  PROVE  WinOnRecord
<1>1. StampInv(epoch, stamps)
  BY DEF WinInv
<1>2. \A s, r \in Of(stamps, epoch) : s.tick = r.tick /\ s.tick > epoch.started
  BY <1>1 DEF StampInv
<1>3. Won(epoch, stamps) \/ Lost(epoch, stamps)
  BY <1>1 DEF StampInv
<1> QED BY <1>2, <1>3 DEF WinOnRecord, Of, Won, Lost

(* The stamps are the win, whoever acts inside an operator's request: a    *)
(* stamp is never taken back and none is made but of a living dynasty that *)
(* crosses, of the tick just run, in the epoch that runs; those of the     *)
(* epoch on record are of one tick after its start and name its winners,   *)
(* or a close in flight over the win left it without any.                  *)
THEOREM StampsHold == Spec => StampsAreTheWin
<1>1. Init => WinInv
  BY InitWin
<1>2. WinInv /\ [Next]_vars => WinInv'
  BY StepWin
<1>3. WinInv /\ WinInv' /\ [Next]_vars => [WinOnRecord' /\ WinsAreCrossings]_vars
  <2> SUFFICES ASSUME WinInv, WinInv', Next PROVE WinOnRecord' /\ WinsAreCrossings
    OBVIOUS
  <2>1. WinOnRecord'
    BY WinFromInv, PTL
  <2>2. UNCHANGED stamps => WinsAreCrossings
    BY DEF WinsAreCrossings
  <2> QED BY <2>1, <2>2, StepWin
<1> QED BY <1>1, <1>2, <1>3, PTL DEF Spec, StampsAreTheWin

-----------------------------------------------------------------------------
(* Dynasties: what a tick, a founder or a child does to the bag of rows.   *)

RowShape == [owner : User, birth : Nat, died : Nat, money : Int]

LEMMA BornRows ==
  ASSUME NEW es, IsABag(es), NEW e
  PROVE  IsABag(Born(es, e)) /\ DOMAIN Born(es, e) = DOMAIN es \union {e}
BY DEF Born, SetToBag, (+), IsABag

LEMMA ChangedRows ==
  ASSUME NEW es, IsABag(es), NEW e \in DOMAIN es, NEW f
  PROVE  /\ IsABag(Changed(es, e, f))
         /\ f \in DOMAIN Changed(es, e, f)
         /\ DOMAIN Changed(es, e, f) \subseteq DOMAIN es \union {f}
         /\ DOMAIN es \ {e} \subseteq DOMAIN Changed(es, e, f)
<1> DEFINE less == es (-) SetToBag({e})
<1>1. IsABag(less) /\ DOMAIN less \subseteq DOMAIN es /\ DOMAIN es \ {e} \subseteq DOMAIN less
  BY DEF SetToBag, (-), IsABag
<1>2. Changed(es, e, f) = Born(less, f)
  BY DEF Changed, Born
<1> HIDE DEF less
<1>3. IsABag(Born(less, f)) /\ DOMAIN Born(less, f) = DOMAIN less \union {f}
  BY <1>1, BornRows
<1>4. IsABag(Changed(es, e, f)) /\ DOMAIN Changed(es, e, f) = DOMAIN less \union {f}
  BY <1>2, <1>3
<1> QED BY <1>1, <1>4

(* What becomes of the rows by time t: the dead stay, who is new lives or  *)
(* died just now, and no living dynasty is lost from sight.                *)
Follows(es, fs, t) ==
  /\ IsABag(fs) /\ DOMAIN fs \subseteq RowShape
  /\ \A e \in DOMAIN es : e.died # 0 => e \in DOMAIN fs
  /\ \A f \in DOMAIN fs : f \in DOMAIN es \/ f.died = 0 \/ f.died = t
  /\ \A e \in DOMAIN es : e.died = 0 =>
       \E f \in DOMAIN fs : f.owner = e.owner /\ (f.died = 0 \/ f.died = t)

LEMMA FollowsSame ==
  ASSUME NEW es, IsABag(es), DOMAIN es \subseteq RowShape, NEW t
  PROVE  Follows(es, es, t)
BY DEF Follows

LEMMA FollowsBorn ==
  ASSUME NEW es, IsABag(es), DOMAIN es \subseteq RowShape, NEW t, NEW e \in RowShape, e.died = 0
  PROVE  Follows(es, Born(es, e), t)
<1> DEFINE fs == Born(es, e)
<1>1. IsABag(fs) /\ DOMAIN fs = DOMAIN es \union {e}
  BY BornRows
<1> HIDE DEF fs
<1>2. Follows(es, fs, t)
  BY <1>1 DEF Follows
<1> QED BY <1>2 DEF fs

LEMMA FollowsChanged ==
  ASSUME NEW es, IsABag(es), DOMAIN es \subseteq RowShape, NEW t,
         NEW e \in Active(es), NEW f \in RowShape, f.owner = e.owner, f.died = 0 \/ f.died = t
  PROVE  Follows(es, Changed(es, e, f), t)
<1> DEFINE fs == Changed(es, e, f)
<1>1. e \in DOMAIN es /\ e.died = 0
  BY DEF Active
<1>2. /\ IsABag(fs) /\ f \in DOMAIN fs
      /\ DOMAIN fs \subseteq DOMAIN es \union {f} /\ DOMAIN es \ {e} \subseteq DOMAIN fs
  BY <1>1, ChangedRows
<1> HIDE DEF fs
<1>3. Follows(es, fs, t)
  BY <1>1, <1>2 DEF Follows
<1> QED BY <1>3 DEF fs

LEMMA NewRow ==
  ASSUME NEW u \in User, NEW t \in Nat, NEW m \in Int
  PROVE  Row(u, t, m) \in RowShape /\ Row(u, t, m).died = 0 /\ Row(u, t, m).owner = u
BY DEF Row, RowShape

LEMMA AfterFollows ==
  ASSUME NEW es, IsABag(es), DOMAIN es \subseteq RowShape, NEW t \in Nat, NEW fs \in After(es, t)
  PROVE  Follows(es, fs, t)
<1>1. CASE fs = es
  BY <1>1, FollowsSame
<1>2. CASE fs \in Spawned(es, t)
  <2>1. PICK u \in User : fs = Born(es, Row(u, t, 0))
    BY <1>2 DEF Spawned
  <2> QED BY <2>1, NewRow, FollowsBorn
<1>3. CASE fs \in Died(es, t)
  <2>1. PICK e \in Active(es) : fs = Changed(es, e, [e EXCEPT !.died = t, !.money = 0])
    BY <1>3 DEF Died
  <2> DEFINE f == [e EXCEPT !.died = t, !.money = 0]
  <2>2. e \in RowShape
    BY DEF Active
  <2>3. f \in RowShape /\ f.owner = e.owner /\ f.died = t
    <3> DEFINE mid == [e EXCEPT !.died = t]
    <3>1. mid \in RowShape /\ mid.owner = e.owner /\ mid.died = t
      BY <2>2 DEF RowShape
    <3>2. f = [mid EXCEPT !.money = 0]
      BY <2>2 DEF RowShape
    <3> HIDE DEF f, mid
    <3> QED BY <3>1, <3>2 DEF RowShape
  <2> HIDE DEF f
  <2>4. fs = Changed(es, e, f)
    BY <2>1 DEF f
  <2> QED BY <2>3, <2>4, FollowsChanged
<1>4. CASE fs \in Earned(es) \/ fs \in Spent(es)
  <2>1. \E e \in Active(es) : \/ fs = Changed(es, e, [e EXCEPT !.money = @ + 1])
                              \/ fs = Changed(es, e, [e EXCEPT !.money = @ - 1])
    BY <1>4 DEF Earned, Spent
  <2>2. PICK e \in Active(es) : \/ fs = Changed(es, e, [e EXCEPT !.money = @ + 1])
                                \/ fs = Changed(es, e, [e EXCEPT !.money = @ - 1])
    BY <2>1
  <2>3. e \in RowShape /\ e.died = 0
    BY DEF Active
  <2>4. PICK m \in Int : fs = Changed(es, e, [e EXCEPT !.money = m])
    <3>1. e.money + 1 \in Int /\ e.money - 1 \in Int
      BY <2>3 DEF RowShape
    <3>2. fs = Changed(es, e, [e EXCEPT !.money = e.money + 1]) \/ fs = Changed(es, e, [e EXCEPT !.money = e.money - 1])
      BY <2>2
    <3> QED BY <3>1, <3>2, Zenon
  <2> DEFINE f == [e EXCEPT !.money = m]
  <2>5. f \in RowShape /\ f.owner = e.owner /\ f.died = 0
    BY <2>3 DEF RowShape
  <2> HIDE DEF f
  <2>6. fs = Changed(es, e, f)
    BY <2>4 DEF f
  <2> QED BY <2>5, <2>6, FollowsChanged
<1> QED BY <1>1, <1>2, <1>3, <1>4 DEF After

-----------------------------------------------------------------------------
(* Extinctions.  Who died out in the running epoch by the last closing is  *)
(* in the register.                                                        *)

Perished(es, ep, c, b, u) ==
  /\ Running(ep) /\ c > b
  /\ Owned(es, u) # {} /\ Living(es, u) = {}
  /\ \A e \in Owned(es, u) : e.died <= c /\ e.birth <= c
  /\ \E e \in Owned(es, u) : e.died > ep.started

Listed(g, ep, u) == \E x \in g : x.user = u /\ x.epoch = ep.number

RowsInv(es, c, t) ==
  /\ IsABag(es) /\ DOMAIN es \subseteq RowShape
  /\ t \in Nat /\ c \in Nat /\ c <= t
  /\ \A e \in DOMAIN es : e.died <= t

GoneInv(es, ep, c, b, g) == \A u \in User : Perished(es, ep, c, b, u) => Listed(g, ep, u)

ElimInv ==
  /\ WinInv
  /\ RowsInv(entities, closed, tick)
  /\ GoneInv(entities, epoch, closed, begun, gone)

(* Nobody perishes by a change of rows after the last closing.             *)
LEMMA PerishedBefore ==
  ASSUME NEW es, NEW fs, NEW ep, NEW c \in Nat, NEW b, NEW t \in Nat, c < t, NEW u,
         DOMAIN es \subseteq RowShape, Follows(es, fs, t), Perished(fs, ep, c, b, u)
  PROVE  Perished(es, ep, c, b, u)
<1>1. ASSUME NEW f \in Owned(fs, u) PROVE f \in Owned(es, u) /\ f.died # 0 /\ f.died # t
  <2>1. f.died # 0 /\ f.died <= c /\ f \in DOMAIN fs /\ f.owner = u /\ f.died \in Nat
    BY <1>1 DEF Perished, Living, Owned, Follows, RowShape
  <2> QED BY <2>1 DEF Follows, Owned
<1>2. ASSUME NEW e \in Owned(es, u) PROVE e \in Owned(fs, u) /\ e.died # 0
  <2>1. e.died # 0
    BY <1>1, <1>2 DEF Follows, Owned
  <2> QED BY <2>1, <1>2 DEF Follows, Owned
<1>3. Owned(es, u) = Owned(fs, u) /\ Living(es, u) = {}
  BY <1>1, <1>2 DEF Living
<1> QED BY <1>3 DEF Perished

(* A founder or a child: a living row at time t.                           *)
LEMMA BirthKeeps ==
  ASSUME ElimInv, NEW u \in User, NEW m \in Int
  PROVE  /\ RowsInv(Born(entities, Row(u, tick, m)), closed, tick)
         /\ GoneInv(Born(entities, Row(u, tick, m)), epoch, closed, begun, gone)
<1> DEFINE r == Row(u, tick, m)
           fs == Born(entities, r)
<1>1. r \in RowShape /\ r.died = 0 /\ r.owner = u /\ tick \in Nat
  BY NewRow DEF ElimInv, RowsInv
<1>2. IsABag(fs) /\ DOMAIN fs = DOMAIN entities \union {r}
  BY BornRows DEF ElimInv, RowsInv
<1> HIDE DEF fs, r
<1>3. RowsInv(fs, closed, tick)
  BY <1>1, <1>2 DEF ElimInv, RowsInv
<1>4. ASSUME NEW v \in User, Perished(fs, epoch, closed, begun, v) PROVE Perished(entities, epoch, closed, begun, v)
  <2>1. v # u
    BY <1>1, <1>2, <1>4 DEF Perished, Living, Owned
  <2>2. Owned(fs, v) = Owned(entities, v) /\ Living(fs, v) = Living(entities, v)
    BY <1>1, <1>2, <2>1 DEF Living, Owned
  <2> QED BY <1>4, <2>2 DEF Perished
<1>5. GoneInv(fs, epoch, closed, begun, gone)
  BY <1>4 DEF GoneInv, ElimInv
<1> QED BY <1>3, <1>5 DEF fs, r

(* The observer leaves the running epoch as it is, or ends it.             *)
LEMMA ObserveEpoch ==
  ASSUME epoch \in EpochShape, NEW es, NEW t \in Nat, Observe(es, t), Running(epoch')
  PROVE  epoch' = epoch
<1> DEFINE U == IF Judges(epoch, t) THEN Crossers(es, epoch, t) ELSE {}
<1>1. CASE U = {}
  BY <1>1 DEF Observe
<1>2. CASE U # {}
  <2>1. epoch' = Sealed(epoch, U, t)
    BY <1>2 DEF Observe
  <2>2. epoch' = [epoch EXCEPT !.ended = t, !.winners = U]
    BY <2>1 DEF Sealed
  <2> HIDE DEF U
  <2>3. epoch'.ended = t
    BY <2>2 DEF EpochShape
  <2> QED BY <2>3 DEF Running
<1> QED BY <1>1, <1>2

(* A tick: its deaths are after the last closing, and a closing lists      *)
(* whoever died out.                                                       *)
LEMMA TickKeeps ==
  ASSUME ElimInv, tick' = tick + 1, entities' \in After(entities, tick + 1),
         Running(epoch') => epoch' = epoch,
         UNCHANGED <<gone, closed>> \/ Scan(tick + 1), UNCHANGED begun
  PROVE  RowsInv(entities', closed', tick') /\ GoneInv(entities', epoch', closed', begun', gone')
<1>1. /\ IsABag(entities) /\ DOMAIN entities \subseteq RowShape
      /\ tick \in Nat /\ closed \in Nat /\ closed <= tick
      /\ \A e \in DOMAIN entities : e.died <= tick
  BY DEF ElimInv, RowsInv
<1>2. Follows(entities, entities', tick + 1)
  BY <1>1, AfterFollows
<1>3. closed' \in Nat /\ closed' <= tick'
  BY <1>1 DEF Scan
<1>4. \A e \in DOMAIN entities' : e.died <= tick'
  <2> TAKE e \in DOMAIN entities'
  <2>1. e.died \in Nat
    BY <1>2 DEF Follows, RowShape
  <2> QED BY <1>1, <1>2, <2>1 DEF Follows, RowShape
<1>5. RowsInv(entities', closed', tick')
  BY <1>1, <1>2, <1>3, <1>4 DEF RowsInv, Follows
<1>6. ASSUME NEW u \in User, Perished(entities', epoch', closed', begun', u) PROVE Listed(gone', epoch', u)
  <2>1. Running(epoch') /\ epoch' = epoch
    BY <1>6 DEF Perished
  <2>2. CASE UNCHANGED <<gone, closed>>
    <3>1. Perished(entities', epoch, closed, begun, u)
      BY <1>6, <2>1, <2>2
    <3>2. Perished(entities, epoch, closed, begun, u)
      BY <1>1, <1>2, <3>1, PerishedBefore
    <3> QED BY <2>1, <2>2, <3>2 DEF ElimInv, GoneInv
  <2>3. CASE Scan(tick + 1)
    <3> DEFINE entry(v) == [epoch |-> epoch'.number, user |-> v, tick |-> tick + 1]
    <3>1. gone' = gone \union {entry(v) : v \in Extinct(entities', epoch')}
      BY <2>1, <2>3 DEF Scan
    <3>2. entry(u).user = u /\ entry(u).epoch = epoch'.number
      OBVIOUS
    <3> HIDE DEF entry
    <3>3. u \in Extinct(entities', epoch') \/ Listed(gone, epoch', u)
      BY <1>6 DEF Perished, Extinct, TookPart, Listed
    <3> QED BY <3>1, <3>2, <3>3 DEF Listed
  <2> QED BY <2>2, <2>3
<1> QED BY <1>5, <1>6 DEF GoneInv

LEMMA InitElim == Init => ElimInv
<1> SUFFICES ASSUME Init PROVE ElimInv
  OBVIOUS
<1>1. IsABag(EmptyBag) /\ DOMAIN EmptyBag = {}
  BY DEF EmptyBag, SetToBag, IsABag
<1>2. ~Running(epoch) /\ desk = NoDesk
  BY DEF Init, Running, NoEpoch
<1> QED BY <1>1, <1>2, InitWin DEF Init, ElimInv, RowsInv, GoneInv, Perished

LEMMA StepElim ==
  ASSUME ElimInv, [Next]_vars
  PROVE  ElimInv'
<1>0. WinInv' /\ epoch \in EpochShape /\ tick \in Nat
  BY StepWin DEF ElimInv, WinInv, StampInv
<1>1. CASE UNCHANGED <<tick, entities, epoch, gone, closed, begun>>
  BY <1>0, <1>1 DEF ElimInv
<1>2. ASSUME UNCHANGED begun, tick' = tick + 1, entities' \in After(entities, tick + 1),
             Observe(entities', tick + 1) \/ UNCHANGED epoch,
             UNCHANGED <<gone, closed>> \/ Scan(tick + 1)
      PROVE  ElimInv'
  <2>1. Running(epoch') => epoch' = epoch
    BY <1>0, <1>2, ObserveEpoch
  <2>2. RowsInv(entities', closed', tick') /\ GoneInv(entities', epoch', closed', begun', gone')
    BY <1>2, <2>1, TickKeeps
  <2> QED BY <1>0, <1>2, <2>2 DEF ElimInv
<1>3. CASE BeginRound
  BY <1>3, <1>1 DEF BeginRound
<1>4. CASE RoundTick
  BY <1>4, <1>2 DEF RoundTick
<1>5. CASE Heartbeat
  BY <1>5, <1>2 DEF Heartbeat
<1>6. CASE RawTick
  BY <1>6, <1>2 DEF RawTick
<1>7. ASSUME NEW u \in User, AskJoin(u) PROVE ElimInv'
  BY <1>7, <1>1 DEF AskJoin
<1>8. ASSUME NEW u \in User, AnswerJoin(u) \/ CreateEntity(u) PROVE ElimInv'
  <2>1. PICK m \in Int : entities' = Born(entities, Row(u, tick, m))
    BY <1>8, EpochsAssumption DEF AnswerJoin, CreateEntity, EpochsAssumption
  <2>2. UNCHANGED <<tick, epoch, gone, closed, begun>>
    BY <1>8 DEF AnswerJoin, CreateEntity
  <2>3. RowsInv(entities', closed, tick) /\ GoneInv(entities', epoch, closed, begun, gone)
    BY <2>1, BirthKeeps
  <2> QED BY <1>0, <2>2, <2>3 DEF ElimInv
<1>9. CASE \E c \in Conditions : AskStart(c)
  BY <1>9, <1>1 DEF AskStart
<1>10. CASE AskClose
  BY <1>10, <1>1 DEF AskClose
<1>11. CASE AnswerOperator
  <2>1. /\ epoch' = desk.to /\ desk # NoDesk /\ begun' = (IF desk.op = "start" THEN tick ELSE begun)
        /\ UNCHANGED <<tick, entities, gone, closed>>
    BY <1>11 DEF AnswerOperator
  <2>2. (desk.op = "start" /\ desk.op # "close") \/ (desk.op = "close" /\ ~Running(desk.to))
    BY <2>1 DEF ElimInv, WinInv, DeskInv, Running
  <2>3. closed \in Nat /\ closed <= tick
    BY DEF ElimInv, RowsInv
  <2>4. ASSUME NEW u \in User PROVE ~Perished(entities, desk.to, closed, begun', u)
    BY <1>0, <2>1, <2>2, <2>3 DEF Perished
  <2>5. GoneInv(entities', epoch', closed', begun', gone')
    BY <2>1, <2>4 DEF GoneInv
  <2> QED BY <1>0, <2>1, <2>5 DEF ElimInv
<1>12. CASE UNCHANGED vars
  BY <1>12, <1>1 DEF vars
<1> QED BY <1>3, <1>4, <1>5, <1>6, <1>7, <1>8, <1>9, <1>10, <1>11, <1>12 DEF Next

(* Only a closing writes the register, and only for who is not in it.      *)
LEMMA OnceEach ==
  ASSUME [Next]_vars
  PROVE  EliminatedOnce
<1>1. CASE UNCHANGED gone
  BY <1>1 DEF EliminatedOnce
<1>2. CASE Scan(tick + 1)
  <2>1. CASE ~Running(epoch')
    BY <1>2, <2>1, <1>1 DEF Scan
  <2>2. CASE Running(epoch')
    <3> DEFINE entry(v) == [epoch |-> epoch'.number, user |-> v, tick |-> tick + 1]
    <3>1. gone' = gone \union {entry(v) : v \in Extinct(entities', epoch')}
      BY <1>2, <2>2 DEF Scan
    <3>2. \A v : entry(v).user = v /\ entry(v).epoch = epoch'.number
      OBVIOUS
    <3> HIDE DEF entry
    <3>3. ASSUME NEW v \in Extinct(entities', epoch')
          PROVE  Living(entities', v) = {} /\ ~\E g \in gone : g.user = v /\ g.epoch = epoch'.number
      BY DEF Extinct
    <3>4. ASSUME NEW g \in gone' \ gone
          PROVE  /\ Living(entities', g.user) = {}
                 /\ \A h \in gone' : h # g => <<h.user, h.epoch>> # <<g.user, g.epoch>>
      <4>1. PICK v \in Extinct(entities', epoch') : g = entry(v)
        BY <3>1
      <4> QED BY <3>1, <3>2, <3>3, <4>1
    <3> QED BY <2>2, <3>4 DEF EliminatedOnce
  <2> QED BY <2>1, <2>2
<1> QED BY <1>1, <1>2 DEF Next, vars, BeginRound, RoundTick, Heartbeat, RawTick, AskJoin, AnswerJoin,
                         CreateEntity, AskStart, AskClose, AnswerOperator

LEMMA RecordedFromInv ==
  ASSUME ElimInv
  PROVE  ExtinctionIsRecorded
<1>1. ASSUME NEW u \in User, DiedOutThisEpoch(u) PROVE Standing(u) = "eliminated"
  <2>1. Perished(entities, epoch, closed, begun, u)
    BY <1>1 DEF DiedOutThisEpoch, Perished
  <2>2. EliminatedNow(u) /\ Living(entities, u) = {}
    BY <2>1 DEF ElimInv, GoneInv, Listed, EliminatedNow, Perished
  <2> QED BY <2>2 DEF Standing
<1> QED BY <1>1 DEF ExtinctionIsRecorded

(* Whoever died out in the running epoch is in the register once the first *)
(* round after its writing is closed, whoever ran the ticks and acted      *)
(* inside the operator's request; and a step enters a player at most once  *)
(* in an epoch, with nobody left, and never when the epoch has ended.      *)
THEOREM EliminatedInTimeHolds == Spec => EliminatedInTime
<1>1. Init => ElimInv
  BY InitElim
<1>2. ElimInv /\ [Next]_vars => ElimInv'
  BY StepElim
<1>3. ElimInv => ExtinctionIsRecorded
  BY RecordedFromInv
<1>4. [Next]_vars => [EliminatedOnce]_vars
  BY OnceEach
<1> QED BY <1>1, <1>2, <1>3, <1>4, PTL DEF Spec, EliminatedInTime

-----------------------------------------------------------------------------
(* Types.  A founder or a child is one row more, a change of a row none.   *)

LEMMA BornCount ==
  ASSUME NEW es, IsABag(es), IsFiniteSet(DOMAIN es), NEW e
  PROVE  /\ IsFiniteSet(DOMAIN Born(es, e))
         /\ Rows(Born(es, e), DOMAIN Born(es, e)) = Rows(es, DOMAIN es) + 1
<1> DEFINE fs == Born(es, e)
           S == DOMAIN es
<1>1. DOMAIN fs = S \union {e} /\ IsABag(fs)
  BY BornRows
<1>2. /\ \A x \in S \ {e} : fs[x] = es[x]
      /\ fs[e] = IF e \in S THEN es[e] + 1 ELSE 1
  BY DEF Born, SetToBag, (+), IsABag
<1>3. Counts(es, S) /\ Counts(fs, S \union {e}) /\ Counts(fs, S)
  BY <1>1 DEF Counts, IsABag
<1>4. IsFiniteSet(S \union {e})
  BY FS_AddElement
<1> HIDE DEF fs, S
<1>5. IsFiniteSet(S)
  BY DEF S
<1>6. Total(fs, S \union {e}) = Total(es, S) + 1
  <2>1. CASE e \in S
    <3>1. Total(fs, S) = Total(es, S) - es[e] + fs[e]
      BY <1>2, <1>3, <1>5, <2>1, TotalChange
    <3>2. es[e] \in Nat /\ Total(es, S) \in Nat /\ S \union {e} = S
      BY <1>3, <1>5, <2>1, TotalType DEF Counts
    <3> QED BY <1>2, <2>1, <3>1, <3>2
  <2>2. CASE e \notin S
    <3>1. fs[e] = 1 /\ \A x \in S : fs[x] = es[x]
      BY <1>2, <2>2
    <3>2. Total(fs, S \union {e}) = Total(fs, S) + fs[e]
      BY <1>3, <1>5, <2>2, <3>1, TotalAdd
    <3>3. Total(fs, S) = Total(es, S)
      BY <3>1, TotalSame
    <3> QED BY <3>1, <3>2, <3>3
  <2> QED BY <2>1, <2>2
<1> QED BY <1>1, <1>4, <1>6 DEF fs, S, Rows

LEMMA LessCount ==
  ASSUME NEW es, IsABag(es), IsFiniteSet(DOMAIN es), NEW e \in DOMAIN es,
         NEW less, less = es (-) SetToBag({e})
  PROVE  /\ IsABag(less) /\ IsFiniteSet(DOMAIN less)
         /\ Rows(less, DOMAIN less) = Rows(es, DOMAIN es) - 1
<1> DEFINE S == DOMAIN es
<1>1. /\ \A x \in S : es[x] \in Nat /\ es[x] > 0
      /\ IsABag(less) /\ DOMAIN less \subseteq S
  BY DEF SetToBag, (-), IsABag
<1>2. IsFiniteSet(DOMAIN less) /\ Counts(es, S)
  BY <1>1, FS_Subset DEF Counts
<1>3. CASE es[e] = 1
  <2>1. DOMAIN less = S \ {e} /\ \A x \in S \ {e} : less[x] = es[x]
    BY <1>1, <1>3 DEF SetToBag, (-)
  <2>2. Total(es, S) = Total(es, S \ {e}) + es[e] /\ Total(es, S \ {e}) \in Nat
    BY <1>2, TotalSplit
  <2>3. Total(less, S \ {e}) = Total(es, S \ {e})
    BY <2>1, TotalSame
  <2> QED BY <1>1, <1>2, <1>3, <2>1, <2>2, <2>3 DEF Rows
<1>4. CASE es[e] # 1
  <2>1. DOMAIN less = S /\ less[e] = es[e] - 1 /\ \A x \in S \ {e} : less[x] = es[x]
    <3> DEFINE B == [x \in S |-> IF x \in {e} THEN es[x] - 1 ELSE es[x]]
    <3>1. less = [x \in {d \in S : B[d] > 0} |-> B[x]]
      BY DEF SetToBag, (-)
    <3>2. B[e] = es[e] - 1 /\ B[e] > 0 /\ \A x \in S \ {e} : B[x] = es[x] /\ B[x] > 0
      BY <1>1, <1>4
    <3> HIDE DEF B
    <3>3. {d \in S : B[d] > 0} = S
      BY <3>2
    <3> QED BY <3>1, <3>2, <3>3
  <2>2. Counts(less, S)
    BY <1>1, <2>1 DEF Counts
  <2>3. Total(less, S) = Total(es, S) - es[e] + less[e]
    BY <1>2, <2>1, <2>2, TotalChange
  <2>4. Total(es, S) \in Nat /\ es[e] \in Nat
    BY <1>1, <1>2, TotalType
  <2> QED BY <1>1, <1>2, <2>1, <2>3, <2>4 DEF Rows
<1> QED BY <1>3, <1>4

LEMMA ChangedCount ==
  ASSUME NEW es, IsABag(es), IsFiniteSet(DOMAIN es), NEW e \in DOMAIN es, NEW f
  PROVE  /\ IsFiniteSet(DOMAIN Changed(es, e, f))
         /\ Rows(Changed(es, e, f), DOMAIN Changed(es, e, f)) = Rows(es, DOMAIN es)
<1>1. PICK less : less = es (-) SetToBag({e})
  OBVIOUS
<1>2. /\ IsABag(less) /\ IsFiniteSet(DOMAIN less)
      /\ Rows(less, DOMAIN less) = Rows(es, DOMAIN es) - 1
  BY <1>1, LessCount
<1>3. Changed(es, e, f) = Born(less, f)
  BY <1>1 DEF Changed, Born
<1>4. /\ IsFiniteSet(DOMAIN Born(less, f))
      /\ Rows(Born(less, f), DOMAIN Born(less, f)) = Rows(less, DOMAIN less) + 1
  BY <1>2, BornCount
<1>5. Rows(es, DOMAIN es) \in Nat
  <2>1. Counts(es, DOMAIN es)
    BY DEF Counts, IsABag
  <2> QED BY <2>1, TotalType DEF Rows
<1> QED BY <1>2, <1>3, <1>4, <1>5

RowType == [owner : User, birth : 0..MaxTick, died : 0..MaxTick, money : 0..MaxMoney]
RowsOK(es) ==
  /\ IsABag(es) /\ IsFiniteSet(DOMAIN es)
  /\ Rows(es, DOMAIN es) <= MaxEntities /\ DOMAIN es \subseteq RowType

LEMMA RowsOKBorn ==
  ASSUME NEW es, RowsOK(es), Rows(es, DOMAIN es) < MaxEntities,
         NEW u \in User, NEW t \in 0..MaxTick, NEW m \in 0..MaxMoney
  PROVE  RowsOK(Born(es, Row(u, t, m)))
<1>1. Row(u, t, m) \in RowType
  BY EpochsAssumption DEF EpochsAssumption, Row, RowType
<1>2. PICK r : r = Row(u, t, m)
  OBVIOUS
<1>3. /\ IsABag(Born(es, r)) /\ DOMAIN Born(es, r) = DOMAIN es \union {r}
      /\ IsFiniteSet(DOMAIN Born(es, r))
      /\ Rows(Born(es, r), DOMAIN Born(es, r)) = Rows(es, DOMAIN es) + 1
  BY BornRows, BornCount DEF RowsOK
<1>4. Rows(es, DOMAIN es) \in Nat /\ MaxEntities \in Nat
  <2>1. Counts(es, DOMAIN es)
    BY DEF Counts, IsABag, RowsOK
  <2> QED BY <2>1, TotalType, EpochsAssumption DEF EpochsAssumption, Rows, RowsOK
<1> QED BY <1>1, <1>2, <1>3, <1>4 DEF RowsOK

LEMMA RowsOKChanged ==
  ASSUME NEW es, RowsOK(es), NEW e \in DOMAIN es, NEW f \in RowType
  PROVE  RowsOK(Changed(es, e, f))
<1>1. /\ IsABag(Changed(es, e, f)) /\ DOMAIN Changed(es, e, f) \subseteq DOMAIN es \union {f}
      /\ IsFiniteSet(DOMAIN Changed(es, e, f))
      /\ Rows(Changed(es, e, f), DOMAIN Changed(es, e, f)) = Rows(es, DOMAIN es)
  BY ChangedRows, ChangedCount DEF RowsOK
<1> QED BY <1>1 DEF RowsOK

LEMMA AfterTyped ==
  ASSUME RowsOK(entities), NEW t \in 0..MaxTick, NEW fs \in After(entities, t)
  PROVE  RowsOK(fs)
<1>0. /\ MaxMoney \in Nat /\ MaxTick \in Nat /\ 0 \in 0..MaxMoney
      /\ \A e \in Active(entities) : e \in DOMAIN entities /\ e \in RowType
  BY EpochsAssumption DEF EpochsAssumption, Active, RowsOK
<1>1. CASE fs \in Spawned(entities, t)
  BY <1>0, <1>1, RowsOKBorn DEF Spawned, Room
<1>2. CASE fs \in Died(entities, t)
  <2>1. PICK e \in Active(entities) : fs = Changed(entities, e, [e EXCEPT !.died = t, !.money = 0])
    BY <1>2 DEF Died
  <2>2. PICK f : f = [e EXCEPT !.died = t, !.money = 0]
    OBVIOUS
  <2>3. f = [owner |-> e.owner, birth |-> e.birth, died |-> t, money |-> 0]
    BY <1>0, <2>2 DEF RowType
  <2>4. f \in RowType
    BY <1>0, <2>3 DEF RowType
  <2> QED BY <1>0, <2>1, <2>2, <2>4, RowsOKChanged
<1>3. CASE fs \in Earned(entities)
  <2>1. PICK e \in Active(entities) : e.money < MaxMoney /\ fs = Changed(entities, e, [e EXCEPT !.money = @ + 1])
    BY <1>3 DEF Earned
  <2>2. [e EXCEPT !.money = @ + 1] \in RowType
    BY <1>0, <2>1 DEF RowType
  <2> QED BY <1>0, <2>1, <2>2, RowsOKChanged
<1>4. CASE fs \in Spent(entities)
  <2>1. PICK e \in Active(entities) : e.money > 0 /\ fs = Changed(entities, e, [e EXCEPT !.money = @ - 1])
    BY <1>4 DEF Spent
  <2>2. [e EXCEPT !.money = @ - 1] \in RowType
    BY <1>0, <2>1 DEF RowType
  <2> QED BY <1>0, <2>1, <2>2, RowsOKChanged
<1> QED BY <1>1, <1>2, <1>3, <1>4 DEF After

(* A tick never runs past the bound: a round begins only where all of its  *)
(* ticks fit.                                                              *)
TypeInv == TypeOK /\ RowsOK(entities) /\ tick + batch <= MaxTick

StampType == [epoch : 1..MaxEpochs, user : User, tick : 1..MaxTick]

LEMMA ObserveTyped ==
  ASSUME epoch \in EpochRow, stamps \subseteq StampType, NEW es, NEW t \in 1..MaxTick, Observe(es, t)
  PROVE  epoch' \in EpochRow /\ stamps' \subseteq StampType
<1> DEFINE U == IF Judges(epoch, t) THEN Crossers(es, epoch, t) ELSE {}
<1>1. CASE U = {}
  BY <1>1 DEF Observe
<1>2. CASE U # {}
  <2>1. /\ epoch' = Sealed(epoch, U, t) /\ Judges(epoch, t) /\ U \in SUBSET User
        /\ stamps' = stamps \union {[epoch |-> epoch.number, user |-> u, tick |-> t] : u \in U}
    BY <1>2, CrossersAreUsers DEF Observe
  <2> HIDE DEF U
  <2>2. epoch' = [number |-> epoch.number, condition |-> epoch.condition, started |-> epoch.started,
                  ended |-> t, winners |-> U]
    BY <2>1 DEF Sealed, EpochRow
  <2>3. epoch.number \in 1..MaxEpochs /\ t \in -1..MaxTick
    BY <2>1, EpochsAssumption DEF EpochsAssumption, Judges, Running, EpochRow
  <2>4. epoch' \in EpochRow
    BY <2>1, <2>2, <2>3 DEF EpochRow
  <2>5. \A u \in U : [epoch |-> epoch.number, user |-> u, tick |-> t] \in StampType
    BY <2>1, <2>3 DEF StampType
  <2> QED BY <2>1, <2>4, <2>5
<1> QED BY <1>1, <1>2

LEMMA ScanTyped ==
  ASSUME epoch' \in EpochRow, gone \subseteq StampType, NEW t \in 1..MaxTick, Scan(t)
  PROVE  closed' \in 0..MaxTick /\ gone' \subseteq StampType
<1>1. closed' = t /\ MaxTick \in Nat /\ MaxEpochs \in Nat
  BY EpochsAssumption DEF EpochsAssumption, Scan
<1>2. CASE ~Running(epoch')
  BY <1>1, <1>2 DEF Scan
<1>3. CASE Running(epoch')
  <2>1. gone' = gone \union {[epoch |-> epoch'.number, user |-> u, tick |-> t] : u \in Extinct(entities', epoch')}
    BY <1>3 DEF Scan
  <2>2. epoch'.number \in 1..MaxEpochs
    BY <1>1, <1>3 DEF Running, EpochRow
  <2>3. Extinct(entities', epoch') \subseteq User
    BY DEF Extinct
  <2>4. \A u \in User : [epoch |-> epoch'.number, user |-> u, tick |-> t] \in StampType
    BY <2>2 DEF StampType
  <2> QED BY <1>1, <2>1, <2>3, <2>4
<1> QED BY <1>2, <1>3

LEMMA TickTyped ==
  ASSUME TypeInv, NEW t \in 1..MaxTick, t = tick + 1, tick' = t, entities' \in After(entities, t),
         Observe(entities', t) \/ UNCHANGED <<epoch, stamps>>,
         UNCHANGED <<gone, closed>> \/ Scan(t), UNCHANGED <<asked, desk, begun>>,
         batch' \in 0..K, t + batch' <= MaxTick
  PROVE  TypeInv'
<1>1. RowsOK(entities')
  BY AfterTyped, EpochsAssumption DEF EpochsAssumption, TypeInv
<1>2. epoch' \in EpochRow /\ stamps' \subseteq StampType
  BY ObserveTyped DEF TypeInv, TypeOK, StampType
<1>3. closed' \in 0..MaxTick /\ gone' \subseteq StampType
  BY <1>2, ScanTyped DEF TypeInv, TypeOK, StampType
<1>4. tick' \in 0..MaxTick /\ tick' + batch' <= MaxTick
  BY EpochsAssumption DEF EpochsAssumption
<1>5. begun' \in 0..MaxTick /\ asked' \subseteq User /\ (desk' = NoDesk \/ (desk'.op \in {"start", "close"} /\ desk'.to \in EpochRow))
  BY DEF TypeInv, TypeOK
<1>6. TypeOK'
  BY <1>1, <1>2, <1>3, <1>4, <1>5 DEF TypeOK, RowsOK, RowType, StampType
<1> QED BY <1>1, <1>4, <1>6 DEF TypeInv

LEMMA InitTyped == Init => TypeInv
<1> SUFFICES ASSUME Init PROVE TypeInv
  OBVIOUS
<1>0. MaxTick \in Nat /\ MaxEpochs \in Nat /\ MaxEntities \in Nat /\ K \in Nat
  BY EpochsAssumption DEF EpochsAssumption
<1>1. IsABag(entities) /\ DOMAIN entities = {}
  BY DEF Init, EmptyBag, SetToBag, IsABag
<1>2. RowsOK(entities)
  BY <1>0, <1>1, TotalEmpty, FS_EmptySet DEF RowsOK, Rows
<1>3. epoch \in EpochRow
  BY <1>0 DEF Init, NoEpoch, EpochRow
<1>4. TypeOK
  BY <1>0, <1>1, <1>2, <1>3 DEF Init, TypeOK, RowsOK, RowType
<1> QED BY <1>0, <1>2, <1>4 DEF Init, TypeInv

LEMMA StepTyped ==
  ASSUME TypeInv, [Next]_vars
  PROVE  TypeInv'
<1>0. /\ K \in Nat \ {0} /\ MaxTick \in Nat /\ MaxEpochs \in Nat /\ 0 \in 0..MaxMoney
      /\ tick \in 0..MaxTick /\ batch \in 0..K /\ tick + batch <= MaxTick
  BY EpochsAssumption DEF EpochsAssumption, TypeInv, TypeOK
<1>1. ASSUME UNCHANGED <<tick, entities, epoch, stamps, gone, closed, begun>>, asked' \subseteq User,
             batch' \in 0..K, tick + batch' <= MaxTick,
             desk' = NoDesk \/ (desk'.op \in {"start", "close"} /\ desk'.to \in EpochRow)
      PROVE  TypeInv'
  BY <1>1 DEF TypeInv, TypeOK, RowsOK
<1>2. asked \subseteq User /\ (desk = NoDesk \/ (desk.op \in {"start", "close"} /\ desk.to \in EpochRow))
      /\ epoch \in EpochRow
  BY DEF TypeInv, TypeOK
<1>3. CASE BeginRound
  BY <1>0, <1>1, <1>2, <1>3 DEF BeginRound
<1>4. CASE RoundTick
  <2>1. tick + 1 \in 1..MaxTick /\ batch' \in 0..K /\ (tick + 1) + batch' <= MaxTick
    BY <1>0, <1>4 DEF RoundTick
  <2>2. /\ tick' = tick + 1 /\ entities' \in After(entities, tick + 1) /\ Observe(entities', tick + 1)
        /\ UNCHANGED <<gone, closed>> \/ Scan(tick + 1)
        /\ UNCHANGED <<asked, desk, begun>>
    BY <1>4 DEF RoundTick
  <2> QED BY <2>1, <2>2, TickTyped
<1>5. CASE Heartbeat
  <2>1. tick + 1 \in 1..MaxTick /\ batch' \in 0..K /\ (tick + 1) + batch' <= MaxTick
    BY <1>0, <1>5 DEF Heartbeat, Idle
  <2>2. /\ tick' = tick + 1 /\ entities' \in After(entities, tick + 1) /\ Observe(entities', tick + 1)
        /\ UNCHANGED <<gone, closed>> \/ Scan(tick + 1)
        /\ UNCHANGED <<asked, desk, begun>>
    BY <1>5 DEF Heartbeat
  <2> QED BY <2>1, <2>2, TickTyped
<1>6. CASE RawTick
  <2>1. tick + 1 \in 1..MaxTick /\ batch' \in 0..K /\ (tick + 1) + batch' <= MaxTick
    BY <1>0, <1>6 DEF RawTick, Idle
  <2>2. /\ tick' = tick + 1 /\ entities' \in After(entities, tick + 1)
        /\ UNCHANGED <<epoch, stamps>> /\ UNCHANGED <<gone, closed>> /\ UNCHANGED <<asked, desk, begun>>
    BY <1>6 DEF RawTick
  <2> QED BY <2>1, <2>2, TickTyped
<1>7. ASSUME NEW u \in User, AskJoin(u) PROVE TypeInv'
  BY <1>0, <1>1, <1>2, <1>7 DEF AskJoin
<1>8. ASSUME NEW u \in User, AnswerJoin(u) \/ CreateEntity(u) PROVE TypeInv'
  <2>1. PICK m \in 0..MaxMoney : entities' = Born(entities, Row(u, tick, m))
    BY <1>0, <1>8, EpochsAssumption DEF EpochsAssumption, AnswerJoin, CreateEntity
  <2>2. /\ UNCHANGED <<tick, epoch, stamps, gone, closed, batch, desk, begun>> /\ asked' \subseteq User
        /\ Rows(entities, DOMAIN entities) < MaxEntities
    BY <1>2, <1>8 DEF AnswerJoin, CreateEntity, Room
  <2>3. RowsOK(entities')
    BY <1>0, <2>1, <2>2, RowsOKBorn DEF TypeInv
  <2> QED BY <1>2, <2>2, <2>3 DEF TypeInv, TypeOK, RowsOK, RowType
<1>9. ASSUME NEW c \in Conditions, AskStart(c) PROVE TypeInv'
  <2>1. PICK new : new = [number |-> epoch.number + 1, condition |-> c, started |-> tick, ended |-> -1, winners |-> {}]
    OBVIOUS
  <2>2. desk' = [op |-> "start", to |-> new] /\ epoch.number < MaxEpochs
        /\ UNCHANGED <<tick, entities, epoch, stamps, gone, batch, closed, asked, begun>>
    BY <1>9, <2>1 DEF AskStart
  <2>3. new \in EpochRow
    BY <1>0, <1>2, <2>1, <2>2 DEF EpochRow
  <2>4. desk'.op = "start" /\ desk'.to = new
    BY <2>2
  <2> QED BY <1>0, <1>1, <1>2, <2>2, <2>3, <2>4
<1>10. CASE AskClose
  <2>1. PICK new : new = [epoch EXCEPT !.ended = tick]
    OBVIOUS
  <2>2. desk' = [op |-> "close", to |-> new]
        /\ UNCHANGED <<tick, entities, epoch, stamps, gone, batch, closed, asked, begun>>
    BY <1>10, <2>1 DEF AskClose
  <2>3. new \in EpochRow
    BY <1>0, <1>2, <2>1 DEF EpochRow
  <2>4. desk'.op = "close" /\ desk'.to = new
    BY <2>2
  <2> QED BY <1>0, <1>1, <1>2, <2>2, <2>3, <2>4
<1>11. CASE AnswerOperator
  <2>1. /\ epoch' \in EpochRow /\ desk' = NoDesk
        /\ UNCHANGED <<tick, entities, stamps, gone, batch, closed, asked>> /\ begun' \in {tick, begun}
    BY <1>2, <1>11 DEF AnswerOperator
  <2> QED BY <2>1 DEF TypeInv, TypeOK, RowsOK
<1>12. CASE UNCHANGED vars
  BY <1>0, <1>1, <1>2, <1>12 DEF vars
<1> QED BY <1>3, <1>4, <1>5, <1>6, <1>7, <1>8, <1>9, <1>10, <1>11, <1>12 DEF Next

(* Every variable keeps its type, whoever acts inside whose request: no    *)
(* balance is overdrawn, no register knows an epoch or a tick that has not *)
(* been, and no more rows are written than there is room for.              *)
THEOREM EpochsTypes == Spec => []TypeOK
<1>1. Init => TypeInv
  BY InitTyped
<1>2. TypeInv /\ [Next]_vars => TypeInv'
  BY StepTyped
<1>3. TypeInv => TypeOK
  BY DEF TypeInv
<1> QED BY <1>1, <1>2, <1>3, PTL DEF Spec

-----------------------------------------------------------------------------
(* Winning.  A running epoch has no stamp yet, also while an operator's    *)
(* request is in flight: only a close can cross a win, and it leaves the   *)
(* epoch over.                                                             *)

Known(ep) == ep.number > 0 => ep.condition \in Conditions
Mine(w, u) == {s \in w : s.user = u}

FreshInv ==
  /\ \A u : IsFiniteSet(Mine(stamps, u))
  /\ \A s \in stamps : s.epoch <= epoch.number
  /\ Running(epoch) => \A s \in stamps : s.epoch # epoch.number
  /\ Known(epoch)
  /\ desk # NoDesk => Known(desk.to)
  /\ desk # NoDesk /\ desk.op = "start" => ~Running(epoch) /\ desk.to.number = epoch.number + 1
  /\ desk # NoDesk /\ desk.op = "close" => desk.to.number = epoch.number /\ ~Running(desk.to)

LEMMA MoneyType ==
  ASSUME NEW es, RowsOK(es), NEW u
  PROVE  Money(es, u) \in Nat /\ Size(es, u) \in Nat
<1> DEFINE f == [e \in DOMAIN es |-> es[e] * e.money]
           S == Living(es, u)
<1>1. S \subseteq DOMAIN es /\ IsFiniteSet(S)
  <2>1. S \subseteq DOMAIN es
    BY DEF Living, Owned
  <2> QED BY <2>1, FS_Subset DEF RowsOK
<1>2. \A e \in DOMAIN es : es[e] \in Nat /\ e.money \in Nat
  BY DEF RowsOK, RowType, IsABag
<1>3. Counts(es, S)
  BY <1>1, <1>2 DEF Counts
<1>4. Counts(f, S)
  <2>1. ASSUME NEW x \in Nat, NEW y \in Nat PROVE x * y \in Nat
    OBVIOUS
  <2>2. ASSUME NEW e \in DOMAIN es PROVE f[e] \in Nat
    BY <1>2, <2>1
  <2> HIDE DEF f
  <2> QED BY <1>1, <2>2 DEF Counts
<1>5. Money(es, u) = Total(f, S) /\ Size(es, u) = Total(es, S)
  BY DEF Money, Size, Rows
<1> HIDE DEF f, S
<1> QED BY <1>1, <1>3, <1>4, <1>5, TotalType

(* Who has as much as one who crosses crosses as well.                     *)
LEMMA CrossesToo ==
  ASSUME NEW es, RowsOK(es), NEW ep, ep.condition \in Conditions, NEW u, NEW v, NEW t,
         Crosses(es, ep, v, t),
         CASE ep.condition.code = "accumulate" -> Money(es, u) >= Money(es, v)
           [] ep.condition.code = "grow" -> Size(es, u) >= Size(es, v)
           [] ep.condition.code = "endure" -> TRUE
  PROVE  Crosses(es, ep, u, t)
<1>1. /\ ep.condition.code \in {"accumulate", "endure", "grow"}
      /\ ep.condition.at \in Nat
  BY EpochsAssumption DEF EpochsAssumption
<1>2. /\ Money(es, u) \in Nat /\ Money(es, v) \in Nat
      /\ Size(es, u) \in Nat /\ Size(es, v) \in Nat
  BY MoneyType
<1>3. CASE ep.condition.code = "accumulate"
  <2>1. Money(es, v) >= ep.condition.at
    BY <1>3 DEF Crosses
  <2>2. Money(es, u) >= Money(es, v)
    BY <1>3
  <2>3. Money(es, u) >= ep.condition.at
    BY <1>1, <1>2, <2>1, <2>2
  <2> QED BY <1>3, <2>3 DEF Crosses
<1>4. CASE ep.condition.code = "grow"
  <2>1. Size(es, v) >= ep.condition.at
    BY <1>4 DEF Crosses
  <2>2. Size(es, u) >= Size(es, v)
    BY <1>4
  <2>3. Size(es, u) >= ep.condition.at
    BY <1>1, <1>2, <2>1, <2>2
  <2> QED BY <1>4, <2>3 DEF Crosses
<1>5. CASE ep.condition.code = "endure"
  BY <1>5 DEF Crosses
<1> QED BY <1>1, <1>3, <1>4, <1>5

(* A win is one stamp more for each who crosses, and for nobody else.      *)
Entries(n, t, U) == {[epoch |-> n, user |-> v, tick |-> t] : v \in U}

LEMMA StampMore ==
  ASSUME NEW w, NEW n, NEW t, NEW U, NEW u, IsFiniteSet(Mine(w, u)),
         NEW x, x = w \union Entries(n, t, U)
  PROVE  /\ IsFiniteSet(Mine(x, u))
         /\ u \in U /\ (\A s \in w : s.epoch # n) => Cardinality(Mine(x, u)) = Cardinality(Mine(w, u)) + 1
<1> DEFINE entry(v) == [epoch |-> n, user |-> v, tick |-> t]
<1>1. \A v : entry(v).epoch = n /\ entry(v).user = v
  OBVIOUS
<1>2. x = w \union {entry(v) : v \in U}
  BY DEF Entries
<1> HIDE DEF entry
<1>3. Mine(x, u) \subseteq Mine(w, u) \union {entry(u)}
  BY <1>1, <1>2 DEF Mine
<1>4. IsFiniteSet(Mine(w, u) \union {entry(u)})
  BY FS_AddElement
<1>5. ASSUME u \in U, \A s \in w : s.epoch # n
      PROVE  Cardinality(Mine(x, u)) = Cardinality(Mine(w, u)) + 1
  <2>1. entry(u) \notin Mine(w, u)
    BY <1>1, <1>5 DEF Mine
  <2>2. Mine(x, u) = Mine(w, u) \union {entry(u)}
    BY <1>1, <1>2, <1>3, <1>5 DEF Mine
  <2> QED BY <2>1, <2>2, FS_AddElement
<1> QED BY <1>3, <1>4, <1>5, FS_Subset

LEMMA ObserveFresh ==
  ASSUME TypeInv, FreshInv, NEW t \in 1..MaxTick, entities' \in After(entities, t),
         Observe(entities', t), UNCHANGED desk
  PROVE  FreshInv' /\ NobodyPassedOver
<1> DEFINE U == IF Judges(epoch, t) THEN Crossers(entities', epoch, t) ELSE {}
<1>0. /\ epoch \in EpochRow
      /\ desk = NoDesk \/ desk.op \in {"start", "close"}
      /\ \A s \in stamps : s.epoch \in Nat
  BY DEF TypeInv, TypeOK
<1>1. CASE U = {}
  BY <1>1 DEF Observe, FreshInv, NobodyPassedOver
<1>2. CASE U # {}
  <2>1. /\ epoch' = Sealed(epoch, U, t) /\ Judges(epoch, t) /\ U = Crossers(entities', epoch, t)
        /\ stamps' = stamps \union {[epoch |-> epoch.number, user |-> v, tick |-> t] : v \in U}
    BY <1>2 DEF Observe
  <2> HIDE DEF U
  <2>2. /\ epoch.number \in Nat /\ epoch.number > 0 /\ Running(epoch)
        /\ epoch.condition \in Conditions
        /\ \A s \in stamps : s.epoch # epoch.number
    <3>1. epoch.number \in Nat /\ epoch.number > 0 /\ Running(epoch)
      BY <1>0, <2>1, EpochsAssumption DEF EpochsAssumption, Judges, Running, EpochRow
    <3> QED BY <3>1 DEF FreshInv, Known
  <2>3. /\ epoch'.number = epoch.number /\ epoch'.condition = epoch.condition
        /\ epoch'.ended = t /\ ~Running(epoch')
    BY <1>0, <2>1 DEF Sealed, EpochRow, Running
  <2>4. \A u : /\ IsFiniteSet(Mine(stamps', u))
               /\ u \in U => Cardinality(Mine(stamps', u)) = Cardinality(Mine(stamps, u)) + 1
    <3> TAKE u
    <3>1. IsFiniteSet(Mine(stamps, u))
      BY DEF FreshInv
    <3>2. PICK n : n = epoch.number
      OBVIOUS
    <3>3. stamps' = stamps \union Entries(n, t, U) /\ \A s \in stamps : s.epoch # n
      BY <2>1, <2>2, <3>2 DEF Entries
    <3> QED BY <3>1, <3>3, StampMore
  <2>5. /\ \A s \in stamps' : s.epoch <= epoch'.number
        /\ \A s \in stamps' \ stamps : s.user \in U
    <3> DEFINE entry(v) == [epoch |-> epoch.number, user |-> v, tick |-> t]
    <3>1. \A v : entry(v).epoch = epoch.number /\ entry(v).user = v
      OBVIOUS
    <3>2. stamps' = stamps \union {entry(v) : v \in U}
      BY <2>1
    <3> HIDE DEF entry
    <3>3. \A s \in stamps' : s \in stamps \/ (s.epoch = epoch.number /\ s.user \in U)
      BY <3>1, <3>2
    <3> QED BY <2>2, <2>3, <3>3 DEF FreshInv
  <2>6. FreshInv'
    <3>1. desk # NoDesk => desk.op # "start"
      BY <2>2 DEF FreshInv
    <3>2. Known(epoch')
      BY <2>3 DEF FreshInv, Known
    <3> QED BY <2>3, <2>4, <2>5, <3>1, <3>2 DEF FreshInv
  <2>7. RowsOK(entities')
    BY AfterTyped, EpochsAssumption DEF EpochsAssumption, TypeInv
  <2>8. ASSUME NEW s \in stamps' \ stamps, NEW u \in User, Standing(u)' = "active",
               CASE epoch.condition.code = "accumulate" -> Money(entities', u) >= Money(entities', s.user)
                 [] epoch.condition.code = "grow" -> Size(entities', u) >= Size(entities', s.user)
                 [] epoch.condition.code = "endure" -> TRUE
        PROVE  Wins(u)' = Wins(u) + 1
    <3>1. Crosses(entities', epoch, s.user, t)
      BY <2>1, <2>5 DEF Crossers
    <3>2. Crosses(entities', epoch, u, t)
      BY <2>2, <2>7, <2>8, <3>1, CrossesToo
    <3>3. Living(entities', u) # {}
      BY <2>8 DEF Standing
    <3>4. u \in U
      BY <2>1, <3>2, <3>3 DEF Crossers, Candidates
    <3> QED BY <2>4, <3>4 DEF Wins, Mine
  <2> QED BY <2>6, <2>8 DEF NobodyPassedOver
<1> QED BY <1>1, <1>2

LEMMA StepFresh ==
  ASSUME TypeInv, FreshInv, [Next]_vars
  PROVE  FreshInv' /\ NobodyPassedOver
<1>0. /\ epoch \in EpochRow /\ tick \in 0..MaxTick /\ batch \in 0..K /\ tick + batch <= MaxTick
      /\ K \in Nat /\ MaxTick \in Nat /\ MaxEpochs \in Nat
  BY EpochsAssumption DEF EpochsAssumption, TypeInv, TypeOK
<1>1. ASSUME UNCHANGED <<epoch, stamps, desk>> PROVE FreshInv' /\ NobodyPassedOver
  BY <1>1 DEF FreshInv, NobodyPassedOver
<1>2. CASE BeginRound \/ RawTick \/ UNCHANGED vars
  BY <1>1, <1>2 DEF BeginRound, RawTick, vars
<1>3. CASE RoundTick
  <2>1. tick + 1 \in 1..MaxTick
    BY <1>0, <1>3 DEF RoundTick
  <2> QED BY <1>3, <2>1, ObserveFresh DEF RoundTick
<1>4. CASE Heartbeat
  <2>1. tick + 1 \in 1..MaxTick
    BY <1>0, <1>4 DEF Heartbeat
  <2> QED BY <1>4, <2>1, ObserveFresh DEF Heartbeat
<1>5. CASE \E u \in User : AskJoin(u) \/ AnswerJoin(u) \/ CreateEntity(u)
  BY <1>1, <1>5 DEF AskJoin, AnswerJoin, CreateEntity
<1>6. ASSUME NEW c \in Conditions, AskStart(c) PROVE FreshInv' /\ NobodyPassedOver
  <2>1. PICK new : new = [number |-> epoch.number + 1, condition |-> c, started |-> tick, ended |-> -1, winners |-> {}]
    OBVIOUS
  <2>2. desk' = [op |-> "start", to |-> new] /\ ~Running(epoch) /\ UNCHANGED <<epoch, stamps>>
    BY <1>6, <2>1 DEF AskStart
  <2>3. /\ desk'.op = "start" /\ desk'.to = new
        /\ new.number = epoch.number + 1 /\ new.condition \in Conditions
    BY <2>1, <2>2
  <2> QED BY <2>2, <2>3 DEF FreshInv, NobodyPassedOver, Known
<1>7. CASE AskClose
  <2>1. PICK new : new = [epoch EXCEPT !.ended = tick]
    OBVIOUS
  <2>2. desk' = [op |-> "close", to |-> new] /\ UNCHANGED <<epoch, stamps>>
    BY <1>7, <2>1 DEF AskClose
  <2>3. /\ desk'.op = "close" /\ desk'.to = new
        /\ new.number = epoch.number /\ new.condition = epoch.condition /\ new.ended = tick
    BY <1>0, <2>1, <2>2 DEF EpochRow
  <2>4. ~Running(new)
    BY <1>0, <2>3 DEF Running
  <2> QED BY <2>2, <2>3, <2>4 DEF FreshInv, NobodyPassedOver, Known
<1>8. CASE AnswerOperator
  <2>1. epoch' = desk.to /\ desk # NoDesk /\ desk' = NoDesk /\ stamps' = stamps
    BY <1>8 DEF AnswerOperator
  <2>2. desk.op \in {"start", "close"} /\ \A s \in stamps : s.epoch \in Nat
    BY <2>1 DEF TypeInv, TypeOK
  <2>3. epoch.number \in Nat
    BY <1>0 DEF EpochRow
  <2>4. CASE desk.op = "start"
    <3>1. epoch'.number = epoch.number + 1
      BY <2>1, <2>4 DEF FreshInv
    <3>2. \A s \in stamps : s.epoch <= epoch'.number /\ s.epoch # epoch'.number
      BY <2>2, <2>3, <3>1 DEF FreshInv
    <3> QED BY <2>1, <3>2 DEF FreshInv, NobodyPassedOver
  <2>5. CASE desk.op = "close"
    BY <2>1, <2>5 DEF FreshInv, NobodyPassedOver
  <2> QED BY <2>2, <2>4, <2>5
<1> QED BY <1>2, <1>3, <1>4, <1>5, <1>6, <1>7, <1>8 DEF Next

LEMMA InitFresh == Init => FreshInv
<1> SUFFICES ASSUME Init PROVE FreshInv
  OBVIOUS
<1>1. epoch.number = 0 /\ stamps = {} /\ desk = NoDesk
  BY DEF Init, NoEpoch
<1>2. \A u : Mine(stamps, u) = {}
  BY <1>1 DEF Mine
<1> QED BY <1>1, <1>2, FS_EmptySet DEF FreshInv, Known

(* Nobody stands above a winner without winning (observe_tick stamps all   *)
(* who cross at the tick), whoever acts inside an operator's request.      *)
THEOREM NoRicherLoserHolds == Spec => NoRicherLoser
<1>1. Init => TypeInv /\ FreshInv
  BY InitTyped, InitFresh
<1>2. TypeInv /\ FreshInv /\ [Next]_vars => TypeInv' /\ FreshInv' /\ [NobodyPassedOver]_vars
  BY StepTyped, StepFresh
<1> QED BY <1>1, <1>2, PTL DEF Spec, NoRicherLoser

-----------------------------------------------------------------------------
(* THE BODY                                                                *)
(*                                                                         *)
(* A death empties the body once: whatever the passes of a tick and the    *)
(* blows of a night do, one event tells of it, no name comes back, and a   *)
(* kill makes no more food than its bite and its carcass.                  *)

LEMMA Amounts ==
  /\ Rules.bite \in Nat /\ Rules.carcass \in Nat /\ Rules.on_hit \in Nat
  /\ Cap.food \in Nat /\ Cap.torch \in Nat /\ Cap.wound \in Nat /\ Cap.ill \in Nat
  /\ Need.grant \in Nat /\ Drip.quantity \in Nat /\ Dark.rate \in Nat /\ Dark.per_say \in Nat
  /\ Lifespan \in Nat /\ SleepFor \in Nat \ {0} /\ MaxDeeds \in Nat /\ Program.max_alive \in Nat /\ Program.up_to \in Nat
  /\ Need.day \in Nat \ {0} /\ Need.night \in Nat \ {0} /\ Lethal \in Nat \ {0} /\ Day \in Nat \ {0}
BY BodyAssumption

LEMMA KindsAre ==
  ASSUME NEW w
  PROVE  /\ Kind(w) \in {"person", "post", "beast"}
         /\ Stat[Kind(w)].attack \in Nat /\ Stat[Kind(w)].defense \in Nat /\ Stat[Kind(w)].hits \in Nat
         /\ w \in Beasts => Kind(w) = "beast" /\ Stat["beast"].hits > 0
         /\ w \in Everyone \ {Post} => Stat[Kind(w)].hits > 0
<1>1. Kind(w) \in {"person", "post", "beast"} /\ (w \in Beasts => Kind(w) = "beast")
        /\ (w \in Everyone \ {Post} => Kind(w) \in {"person", "beast"})
  BY DEF Kind, Everyone
<1>2. \A k \in {"person", "post", "beast"} :
         Stat[k].attack \in Nat /\ Stat[k].defense \in Nat /\ Stat[k].hits \in Nat
  BY BodyAssumption
<1>3. Stat["person"].hits > 0 /\ Stat["beast"].hits > 0
  BY BodyAssumption
<1> QED BY <1>1, <1>2, <1>3

(* The names a program may ever give, and everybody there ever is.         *)
LEMMA EveryoneFinite ==
  /\ DOMAIN Names = 1..Len(Names) /\ Len(Names) \in Nat
  /\ IsFiniteSet(Beasts) /\ IsFiniteSet(Everyone)
<1>1. DOMAIN Names = 1..Len(Names) /\ Len(Names) \in Nat
  BY BodyAssumption
<1>2. IsFiniteSet(Beasts)
  <2>1. IsFiniteSet(1..Len(Names))
    BY <1>1, FS_Interval
  <2>2. [i \in 1..Len(Names) |-> Names[i]] \in Surjection(1..Len(Names), Beasts)
    BY <1>1 DEF Surjection, Beasts
  <2> QED BY <2>1, <2>2, FS_Surjection
<1>3. IsFiniteSet(People) /\ IsFiniteSet({Post})
  BY BodyAssumption, FS_Singleton
<1> QED BY <1>1, <1>2, <1>3, FS_Union DEF Everyone

-----------------------------------------------------------------------------
(* One creature.                                                           *)
LEMMA ClipIs ==
  ASSUME NEW q \in Nat, NEW c \in Nat
  PROVE  Clip(q, c) \in 0..c /\ Clip(q, c) \in Nat /\ Clip(q, c) <= q
BY DEF Clip

LEMMA BeingIs ==
  ASSUME NEW r \in Being
  PROVE  /\ r.life \in {"unborn", "active", "dead"} /\ r.age \in -1..Lifespan /\ r.age \in Int /\ r.hits \in Nat
         /\ r.food \in 0..Cap.food /\ r.torch \in 0..Cap.torch /\ r.wound \in 0..Cap.wound /\ r.ill \in Nat
         /\ r.food \in Nat /\ r.torch \in Nat /\ r.wound \in Nat
<1>1. /\ r.life \in {"unborn", "active", "dead"} /\ r.age \in -1..Lifespan /\ r.hits \in Nat
      /\ r.food \in 0..Cap.food /\ r.torch \in 0..Cap.torch /\ r.wound \in 0..Cap.wound /\ r.ill \in Nat
  BY DEF Being
<1> QED BY <1>1, Amounts

Made(life, age, hits, food, torch, wound, ill) ==
  [life |-> life, age |-> age, hits |-> hits, food |-> food, torch |-> torch, wound |-> wound, ill |-> ill]

LEMMA MadeIs ==
  ASSUME NEW life \in {"unborn", "active", "dead"}, NEW age \in -1..Lifespan, NEW hits \in Nat, NEW food \in 0..Cap.food,
         NEW torch \in 0..Cap.torch, NEW wound \in 0..Cap.wound, NEW ill \in Nat
  PROVE  Made(life, age, hits, food, torch, wound, ill) \in Being
BY DEF Made, Being

LEMMA EatsIs ==
  ASSUME NEW r \in Being, NEW n \in Nat
  PROVE  /\ Eats(r, n) \in Being /\ Eats(r, n).food <= r.food + n
         /\ \A f \in {"life", "age", "hits", "torch", "wound", "ill"} : Eats(r, n)[f] = r[f]
<1>1. r.food + n \in Nat
  BY BeingIs
<1>2. Clip(r.food + n, Cap.food) \in 0..Cap.food /\ Clip(r.food + n, Cap.food) <= r.food + n
  BY <1>1, ClipIs, Amounts
<1>3. /\ Eats(r, n).food = Clip(r.food + n, Cap.food)
      /\ \A f \in {"life", "age", "hits", "torch", "wound", "ill"} : Eats(r, n)[f] = r[f]
  BY DEF Eats, Being
<1>4. Eats(r, n) \in Being
  BY <1>2 DEF Eats, Being
<1> QED BY <1>2, <1>3, <1>4

LEMMA CutIs ==
  ASSUME NEW r \in Being, NEW n \in Nat
  PROVE  /\ Cut(r, n) \in Being
         /\ \A f \in {"life", "age", "food", "torch", "ill"} : Cut(r, n)[f] = r[f]
<1> DEFINE left == IF r.hits > n THEN r.hits - n ELSE 0
           sore == Clip(r.wound + Rules.on_hit, Cap.wound)
<1>1. left \in Nat
  BY BeingIs
<1>2. sore \in 0..Cap.wound
  <2>1. r.wound + Rules.on_hit \in Nat
    BY BeingIs, Amounts
  <2> QED BY <2>1, ClipIs, Amounts
<1>3. Cut(r, n) = Made(r.life, r.age, left, r.food, r.torch, sore, r.ill)
  <2> DEFINE mid == [r EXCEPT !.hits = left]
  <2>1. mid = Made(r.life, r.age, left, r.food, r.torch, r.wound, r.ill)
    BY DEF Being, Made
  <2>2. Cut(r, n) = [mid EXCEPT !.wound = Clip(mid.wound + Rules.on_hit, Cap.wound)]
    BY DEF Cut
  <2> HIDE DEF mid, left
  <2>3. mid.wound = r.wound
    BY <2>1 DEF Made
  <2>4. [mid EXCEPT !.wound = sore] = Made(r.life, r.age, left, r.food, r.torch, sore, r.ill)
    BY <2>1 DEF Made
  <2> QED BY <2>2, <2>3, <2>4
<1> HIDE DEF left, sore
<1>4. Made(r.life, r.age, left, r.food, r.torch, sore, r.ill) \in Being
  BY <1>1, <1>2, MadeIs, BeingIs
<1> QED BY <1>3, <1>4 DEF Made

Bare(r) == r.hits = 0 /\ r.food = 0 /\ r.torch = 0 /\ r.wound = 0 /\ r.ill = 0

LEMMA CorpseIs ==
  ASSUME NEW r \in Being
  PROVE  Corpse(r) \in Being /\ Corpse(r).life = "dead" /\ Corpse(r).age = r.age /\ Bare(Corpse(r))
<1>1. Corpse(r) = Made("dead", r.age, 0, 0, 0, 0, 0)
  BY DEF Corpse, Creature, Made
<1>2. Made("dead", r.age, 0, 0, 0, 0, 0) \in Being
  <2>1. 0 \in 0..Cap.food /\ 0 \in 0..Cap.torch /\ 0 \in 0..Cap.wound /\ r.age \in -1..Lifespan
    BY BeingIs, Amounts
  <2> QED BY <2>1, MadeIs
<1> QED BY <1>1, <1>2 DEF Made, Bare

LEMMA InheritsIs ==
  ASSUME NEW r \in Being, NEW x, x.food \in Nat, x.torch \in Nat
  PROVE  /\ Inherits(r, x) \in Being /\ Inherits(r, x).food <= r.food + x.food
         /\ \A f \in {"life", "age", "hits", "wound", "ill"} : Inherits(r, x)[f] = r[f]
<1> DEFINE food == Clip(r.food + x.food, Cap.food)
           torch == Clip(r.torch + x.torch, Cap.torch)
           mid == [r EXCEPT !.food = food]
<1>1. r.food + x.food \in Nat /\ r.torch + x.torch \in Nat
  BY BeingIs
<1>2. food \in 0..Cap.food /\ torch \in 0..Cap.torch /\ food <= r.food + x.food
  BY <1>1, ClipIs, Amounts
<1>3. mid = Made(r.life, r.age, r.hits, food, r.torch, r.wound, r.ill)
  BY DEF Being, Made
<1>4. Inherits(r, x) = [mid EXCEPT !.torch = Clip(mid.torch + x.torch, Cap.torch)]
  BY DEF Inherits
<1> HIDE DEF mid, food
<1>5. mid.torch = r.torch
  BY <1>3 DEF Made
<1>6. [mid EXCEPT !.torch = torch] = Made(r.life, r.age, r.hits, food, torch, r.wound, r.ill)
  BY <1>3 DEF Made
<1>7. Inherits(r, x) = Made(r.life, r.age, r.hits, food, torch, r.wound, r.ill)
  BY <1>4, <1>5, <1>6
<1> HIDE DEF torch
<1>8. Made(r.life, r.age, r.hits, food, torch, r.wound, r.ill) \in Being
  BY <1>2, MadeIs, BeingIs
<1> QED BY <1>2, <1>7, <1>8 DEF Made

Stripped(r) == [r EXCEPT !.food = 0, !.torch = 0]

LEMMA StrippedIs ==
  ASSUME NEW r \in Being
  PROVE  /\ Stripped(r) \in Being /\ Stripped(r).food = 0
         /\ \A f \in {"life", "age", "hits", "wound", "ill"} : Stripped(r)[f] = r[f]
<1> DEFINE mid == [r EXCEPT !.food = 0]
<1>1. mid = Made(r.life, r.age, r.hits, 0, r.torch, r.wound, r.ill)
  BY DEF Being, Made
<1>2. Stripped(r) = [mid EXCEPT !.torch = 0]
  BY DEF Stripped
<1> HIDE DEF mid
<1>3. Stripped(r) = Made(r.life, r.age, r.hits, 0, 0, r.wound, r.ill)
  BY <1>1, <1>2 DEF Made
<1>4. Made(r.life, r.age, r.hits, 0, 0, r.wound, r.ill) \in Being
  <2>1. 0 \in 0..Cap.food /\ 0 \in 0..Cap.torch
    BY Amounts
  <2> QED BY <2>1, MadeIs, BeingIs
<1> QED BY <1>3, <1>4 DEF Made

-----------------------------------------------------------------------------
(* Everybody: what a death leaves of the food there is.                    *)
Cast == [Everyone -> Being]

Larder(b) == [w \in Everyone |-> b[w].food]

LEMMA LarderIs ==
  ASSUME NEW b \in Cast
  PROVE  /\ \A w \in Everyone : b[w] \in Being /\ Larder(b)[w] = b[w].food /\ b[w].food \in Nat
         /\ \A S : S \subseteq Everyone => IsFiniteSet(S) /\ Counts(Larder(b), S)
         /\ Fare(b) = Total(Larder(b), Everyone) /\ Fare(b) \in Nat
<1>1. \A w \in Everyone : b[w] \in Being /\ Larder(b)[w] = b[w].food
  BY DEF Cast, Larder
<1>2. \A w \in Everyone : b[w].food \in Nat
  BY <1>1, BeingIs
<1>3. \A S : S \subseteq Everyone => IsFiniteSet(S) /\ Counts(Larder(b), S)
  <2> TAKE S
  <2> HAVE S \subseteq Everyone
  <2>1. IsFiniteSet(S)
    BY EveryoneFinite, FS_Subset
  <2>2. Counts(Larder(b), S)
    BY <1>1, <1>2 DEF Counts
  <2> QED BY <2>1, <2>2
<1>4. Fare(b) = Total(Larder(b), Everyone)
  BY DEF Fare, Larder
<1>5. Total(Larder(b), Everyone) \in Nat
  BY <1>3, TotalType
<1> QED BY <1>1, <1>2, <1>3, <1>4, <1>5

(* Who eats no more has no more, all together.                             *)
LEMMA FareFalls ==
  ASSUME NEW b \in Cast, NEW c \in Cast, \A w \in Everyone : c[w].food <= b[w].food
  PROVE  Fare(c) <= Fare(b)
<1>1. \A w \in Everyone : Larder(c)[w] \in Nat /\ Larder(c)[w] <= Larder(b)[w]
  BY LarderIs
<1>2. IsFiniteSet(Everyone) /\ Counts(Larder(b), Everyone)
  BY LarderIs
<1>3. Total(Larder(c), Everyone) <= Total(Larder(b), Everyone)
  BY <1>1, <1>2, TotalLess
<1> QED BY <1>3, LarderIs

LEMMA FareGains ==
  ASSUME NEW b \in Cast, NEW c \in Cast, NEW a \in Everyone, NEW n \in Nat,
         c[a].food <= b[a].food + n, \A w \in Everyone \ {a} : c[w].food <= b[w].food
  PROVE  Fare(c) <= Fare(b) + n
<1>1. Larder(c)[a] <= Larder(b)[a] + n /\ \A w \in Everyone \ {a} : Larder(c)[w] <= Larder(b)[w]
  BY LarderIs
<1>2. IsFiniteSet(Everyone) /\ Counts(Larder(b), Everyone) /\ Counts(Larder(c), Everyone)
  BY LarderIs
<1>3. Total(Larder(c), Everyone) <= Total(Larder(b), Everyone) + n
  BY <1>1, <1>2, TotalGain
<1> QED BY <1>3, LarderIs

(* What S had passes to one who had no part of it, at most.                *)
LEMMA FareHandedOn ==
  ASSUME NEW b \in Cast, NEW c \in Cast, NEW S, S \subseteq Everyone, NEW h \in Everyone \ S,
         \A w \in S : c[w].food = 0, c[h].food <= b[h].food + Total(Larder(b), S),
         \A w \in (Everyone \ S) \ {h} : c[w].food <= b[w].food
  PROVE  Fare(c) <= Fare(b)
<1> DEFINE R == Everyone \ S
           f == Larder(b)
           g == Larder(c)
<1>1. /\ IsFiniteSet(S) /\ IsFiniteSet(R) /\ Counts(f, S) /\ Counts(g, S) /\ Counts(f, R) /\ Counts(g, R)
  BY LarderIs
<1>2. R \intersect S = {} /\ R \union S = Everyone /\ h \in R
  OBVIOUS
<1>3. /\ \A w \in S : g[w] = 0
      /\ g[h] <= f[h] + Total(f, S)
      /\ \A w \in R \ {h} : g[w] <= f[w]
  BY LarderIs
<1>4. Fare(b) = Total(f, Everyone) /\ Fare(c) = Total(g, Everyone)
  BY LarderIs
<1> HIDE DEF R, f, g
<1>5. Total(f, S) \in Nat /\ Total(f, R) \in Nat /\ Total(g, R) \in Nat
  BY <1>1, TotalType
<1>6. Total(f, Everyone) = Total(f, R) + Total(f, S) /\ Total(g, Everyone) = Total(g, R) + Total(g, S)
  BY <1>1, <1>2, TotalUnion
<1>7. Total(g, S) = 0
  BY <1>3, TotalZero
<1>8. Total(g, R) <= Total(f, R) + Total(f, S)
  BY <1>1, <1>2, <1>3, <1>5, TotalGain
<1> QED BY <1>4, <1>5, <1>6, <1>7, <1>8

LEMMA EstateIs ==
  ASSUME NEW b \in Cast, NEW S, S \subseteq Everyone
  PROVE  /\ Estate(b, S).food = Total(Larder(b), S) /\ Estate(b, S).food \in Nat
         /\ Estate(b, S).torch \in Nat
<1> DEFINE food == [w \in S |-> b[w].food]
           torch == [w \in S |-> b[w].torch]
<1>1. Estate(b, S).food = Total(food, S) /\ Estate(b, S).torch = Total(torch, S)
  BY DEF Estate
<1>2. \A w \in S : food[w] = Larder(b)[w]
  BY LarderIs
<1>3. \A w \in S : torch[w] \in Nat
  <2>1. \A w \in S : b[w] \in Being
    BY LarderIs
  <2> QED BY <2>1, BeingIs
<1>4. IsFiniteSet(S) /\ Counts(Larder(b), S)
  BY LarderIs
<1> HIDE DEF food, torch
<1>5. Total(food, S) = Total(Larder(b), S)
  BY <1>2, TotalSame
<1>6. Total(Larder(b), S) \in Nat
  BY <1>4, TotalType
<1>7. Total(torch, S) \in Nat
  BY <1>3, <1>4, TotalType DEF Counts
<1> QED BY <1>1, <1>5, <1>6, <1>7

LEMMA BuriedIs ==
  ASSUME NEW b \in Cast, NEW S, S \subseteq Everyone
  PROVE  /\ Buried(b, S) \in Cast
         /\ \A w \in S : Buried(b, S)[w].life = "dead" /\ Bare(Buried(b, S)[w])
         /\ \A w \in Everyone \ S : \A f \in {"life", "age", "hits", "wound", "ill"} : Buried(b, S)[w][f] = b[w][f]
         /\ \A w \in Everyone \ S : ~Lives(b, w) => Buried(b, S)[w] = b[w]
         /\ Fare(Buried(b, S)) <= Fare(b)
<1> DEFINE c == Buried(b, S)
           left == Estate(b, S)
<1>1. \A w \in Everyone : b[w] \in Being /\ b[w].food \in Nat
  BY LarderIs
<1>2. left.food = Total(Larder(b), S) /\ left.food \in Nat /\ left.torch \in Nat
  BY EstateIs
<1>3. c = [w \in Everyone |-> IF w \in S THEN Corpse(b[w])
                              ELSE IF w = heir /\ Lives(b, w) THEN Inherits(b[w], left) ELSE b[w]]
  BY DEF Buried
<1> HIDE DEF c, left
<1>4. \A w \in S : c[w] = Corpse(b[w])
  BY <1>3
<1>5. \A w \in Everyone \ S : w = heir /\ Lives(b, w) => c[w] = Inherits(b[w], left)
  BY <1>3
<1>6. \A w \in Everyone \ S : ~(w = heir /\ Lives(b, w)) => c[w] = b[w]
  BY <1>3
<1>7. \A w \in S : c[w] \in Being /\ c[w].life = "dead" /\ Bare(c[w])
  BY <1>1, <1>4, CorpseIs
<1>8. ASSUME NEW w \in Everyone \ S
      PROVE  c[w] \in Being /\ \A f \in {"life", "age", "hits", "wound", "ill"} : c[w][f] = b[w][f]
  <2>1. CASE w = heir /\ Lives(b, w)
    BY <1>1, <1>2, <1>5, <2>1, InheritsIs
  <2>2. CASE ~(w = heir /\ Lives(b, w))
    BY <1>1, <1>6, <2>2
  <2> QED BY <2>1, <2>2
<1>9. c \in Cast
  <2>1. DOMAIN c = Everyone /\ c = [w \in Everyone |-> c[w]]
    BY <1>3
  <2>2. \A w \in Everyone : c[w] \in Being
    BY <1>7, <1>8
  <2> QED BY <2>1, <2>2 DEF Cast
<1>10. Fare(c) <= Fare(b)
  <2>1. \A w \in S : c[w].food = 0
    BY <1>7 DEF Bare
  <2>2. CASE heir \in Everyone \ S /\ Lives(b, heir)
    <3>1. c[heir].food <= b[heir].food + left.food
      BY <1>1, <1>2, <1>5, <2>2, InheritsIs
    <3>2. \A w \in (Everyone \ S) \ {heir} : c[w].food <= b[w].food
      BY <1>1, <1>6
    <3> QED BY <1>2, <1>9, <2>1, <2>2, <3>1, <3>2, FareHandedOn
  <2>3. CASE ~(heir \in Everyone \ S /\ Lives(b, heir))
    <3>1. \A w \in Everyone \ S : c[w] = b[w]
      BY <1>6, <2>3
    <3>2. \A w \in Everyone : c[w].food <= b[w].food
      BY <1>1, <2>1, <3>1
    <3> QED BY <1>9, <3>2, FareFalls
  <2> QED BY <2>2, <2>3
<1>11. \A w \in Everyone \ S : ~Lives(b, w) => c[w] = b[w]
  BY <1>6
<1> QED BY <1>7, <1>8, <1>9, <1>10, <1>11 DEF c

-----------------------------------------------------------------------------
(* The blow.                                                               *)
LEMMA DamageIs ==
  ASSUME NEW b, NEW a, NEW d, NEW roll
  PROVE  Damage(b, a, d, roll) \in Nat
<1>1. Penalty(b, a) \in {0, 1} /\ Penalty(b, d) \in {0, 1}
  BY DEF Penalty
<1>2. Stat[Kind(a)].attack \in Nat /\ Stat[Kind(d)].defense \in Nat
  BY KindsAre
<1>3. Edge(b, a, d) \in Int
  BY <1>1, <1>2 DEF Edge
<1> QED BY <1>3 DEF Damage

LEMMA BittenIs ==
  ASSUME NEW b \in Cast, NEW a \in Everyone, NEW d \in Everyone, a # d, NEW roll
  PROVE  /\ Bitten(b, a, d, roll) \in Cast
         /\ \A w \in Everyone \ {a, d} : Bitten(b, a, d, roll)[w] = b[w]
         /\ \A f \in {"life", "age", "hits", "torch", "wound", "ill"} : Bitten(b, a, d, roll)[a][f] = b[a][f]
         /\ \A f \in {"life", "age", "food", "torch", "ill"} : Bitten(b, a, d, roll)[d][f] = b[d][f]
         /\ Fare(Bitten(b, a, d, roll)) <= Fare(b) + Rules.bite
<1> DEFINE c == Bitten(b, a, d, roll)
           n == Damage(b, a, d, roll)
           cut == Cut(b[d], n)
           fed == Eats(b[a], Rules.bite)
<1>1. b \in [Everyone -> Being] /\ b[a] \in Being /\ b[d] \in Being /\ n \in Nat /\ Rules.bite \in Nat
  BY DamageIs, Amounts DEF Cast
<1>2. c = [[b EXCEPT ![d] = cut] EXCEPT ![a] = fed]
  BY <1>1 DEF Bitten
<1>3. cut \in Being /\ \A f \in {"life", "age", "food", "torch", "ill"} : cut[f] = b[d][f]
  BY <1>1, CutIs
<1>4. /\ fed \in Being /\ fed.food <= b[a].food + Rules.bite
      /\ \A f \in {"life", "age", "hits", "torch", "wound", "ill"} : fed[f] = b[a][f]
  BY <1>1, EatsIs
<1> HIDE DEF c, n, cut, fed
<1>5. c \in [Everyone -> Being] /\ c[d] = cut /\ c[a] = fed /\ \A w \in Everyone \ {a, d} : c[w] = b[w]
  BY <1>1, <1>2, <1>3, <1>4
<1>6. c \in Cast
  BY <1>5 DEF Cast
<1>7. Fare(c) <= Fare(b) + Rules.bite
  <2>1. c[d].food = b[d].food /\ c[a].food <= b[a].food + Rules.bite
    BY <1>3, <1>4, <1>5
  <2>2. \A w \in Everyone : b[w].food \in Nat
    BY LarderIs
  <2>3. \A w \in Everyone \ {a} : c[w].food <= b[w].food
    BY <1>5, <2>1, <2>2
  <2> QED BY <1>1, <1>6, <2>1, <2>3, FareGains
<1> QED BY <1>3, <1>4, <1>5, <1>6, <1>7 DEF c

(* What the victor seizes the dead no longer has.                          *)
LEMMA SeizedIs ==
  ASSUME NEW b \in Cast, NEW a \in Everyone, NEW d \in Everyone, a # d
  PROVE  /\ Seized(b, a, d) \in Cast
         /\ \A w \in Everyone \ {a, d} : Seized(b, a, d)[w] = b[w]
         /\ \A w \in {a, d} : \A f \in {"life", "age", "hits", "wound", "ill"} : Seized(b, a, d)[w][f] = b[w][f]
         /\ Fare(Seized(b, a, d)) <= Fare(b)
<1>1. CASE Stat[Kind(a)].carry
  <2> DEFINE c == Seized(b, a, d)
             rich == Inherits(b[a], b[d])
             poor == Stripped(b[d])
  <2>1. b \in [Everyone -> Being] /\ b[a] \in Being /\ b[d] \in Being
    BY DEF Cast
  <2>2. c = [[b EXCEPT ![a] = rich] EXCEPT ![d] = poor]
    BY <1>1, <2>1 DEF Seized, Stripped
  <2>3. poor \in Being /\ poor.food = 0 /\ \A f \in {"life", "age", "hits", "wound", "ill"} : poor[f] = b[d][f]
    BY <2>1, StrippedIs
  <2>4. /\ rich \in Being /\ rich.food <= b[a].food + b[d].food
        /\ \A f \in {"life", "age", "hits", "wound", "ill"} : rich[f] = b[a][f]
    <3>1. b[d].food \in Nat /\ b[d].torch \in Nat
      BY <2>1, BeingIs
    <3> QED BY <2>1, <3>1, InheritsIs
  <2> HIDE DEF c, rich, poor
  <2>5. c \in [Everyone -> Being] /\ c[d] = poor /\ c[a] = rich /\ \A w \in Everyone \ {a, d} : c[w] = b[w]
    BY <2>1, <2>2, <2>3, <2>4
  <2>6. c \in Cast
    BY <2>5 DEF Cast
  <2>7. Fare(c) <= Fare(b)
    <3>1. IsFiniteSet(Everyone) /\ Counts(Larder(b), Everyone) /\ Counts(Larder(c), Everyone)
      BY <2>6, LarderIs
    <3>2. \A w \in Everyone : Larder(b)[w] = b[w].food /\ Larder(c)[w] = c[w].food /\ b[w].food \in Nat /\ c[w].food \in Nat
      BY <2>6, LarderIs
    <3>3. \A w \in Everyone \ {a, d} : Larder(c)[w] = Larder(b)[w]
      BY <2>5, <3>2
    <3>4. Total(Larder(c), Everyone) =
            Total(Larder(b), Everyone) - Larder(b)[a] - Larder(b)[d] + Larder(c)[a] + Larder(c)[d]
      BY <3>1, <3>3, TotalMove
    <3>5. Fare(b) = Total(Larder(b), Everyone) /\ Fare(c) = Total(Larder(c), Everyone) /\ Fare(b) \in Nat
      BY <2>6, LarderIs
    <3>6. Fare(c) = Fare(b) - b[a].food - b[d].food + c[a].food + c[d].food
      BY <3>2, <3>4, <3>5
    <3>7. c[a].food <= b[a].food + b[d].food /\ c[d].food = 0
      BY <2>3, <2>4, <2>5
    <3>8. b[a].food \in Nat /\ b[d].food \in Nat /\ c[a].food \in Nat
      BY <3>2
    <3> QED BY <3>5, <3>6, <3>7, <3>8
  <2>8. \A w \in {a, d} : \A f \in {"life", "age", "hits", "wound", "ill"} : c[w][f] = b[w][f]
    BY <2>3, <2>4, <2>5
  <2> QED BY <2>5, <2>6, <2>7, <2>8 DEF c
<1>2. CASE ~Stat[Kind(a)].carry
  <2>1. Seized(b, a, d) = b
    BY <1>2 DEF Seized
  <2>2. Fare(b) <= Fare(b)
    BY LarderIs
  <2> QED BY <2>1, <2>2
<1> QED BY <1>1, <1>2

LEMMA KilledIs ==
  ASSUME NEW b \in Cast, NEW a \in Everyone, NEW d \in Everyone, a # d
  PROVE  /\ Killed(b, a, d) \in Cast
         /\ Killed(b, a, d)[d].life = "dead" /\ Bare(Killed(b, a, d)[d])
         /\ \A w \in Everyone \ {d} : \A f \in {"life", "age", "hits", "wound", "ill"} : Killed(b, a, d)[w][f] = b[w][f]
         /\ \A w \in Everyone \ {a, d} : ~Lives(b, w) => Killed(b, a, d)[w] = b[w]
         /\ Fare(Killed(b, a, d)) <= Fare(b) + Rules.carcass
<1> DEFINE s == Seized(b, a, d)
           u == Buried(s, {d})
           k == Killed(b, a, d)
           fed == Eats(u[a], Rules.carcass)
<1>1. /\ s \in Cast
      /\ \A w \in Everyone \ {a, d} : s[w] = b[w]
      /\ \A w \in {a, d} : \A f \in {"life", "age", "hits", "wound", "ill"} : s[w][f] = b[w][f]
      /\ Fare(s) <= Fare(b)
  BY SeizedIs
<1>2. k = [u EXCEPT ![a] = Eats(u[a], Rules.carcass)]
  BY DEF Killed
<1> HIDE DEF s
<1>3. /\ u \in Cast /\ u[d].life = "dead" /\ Bare(u[d])
      /\ \A w \in Everyone \ {d} : \A f \in {"life", "age", "hits", "wound", "ill"} : u[w][f] = s[w][f]
      /\ \A w \in Everyone \ {d} : ~Lives(s, w) => u[w] = s[w]
      /\ Fare(u) <= Fare(s)
  BY <1>1, BuriedIs
<1> HIDE DEF u
<1>4. u \in [Everyone -> Being] /\ u[a] \in Being /\ Rules.carcass \in Nat
  BY <1>3, Amounts DEF Cast
<1>5. /\ fed \in Being /\ fed.food <= u[a].food + Rules.carcass
      /\ \A f \in {"life", "age", "hits", "torch", "wound", "ill"} : fed[f] = u[a][f]
  BY <1>4, EatsIs
<1> HIDE DEF k, fed
<1>6. k \in [Everyone -> Being] /\ k[a] = fed /\ \A w \in Everyone \ {a} : k[w] = u[w]
  BY <1>2, <1>4, <1>5 DEF fed
<1>7. k \in Cast
  BY <1>6 DEF Cast
<1>8. Fare(k) <= Fare(u) + Rules.carcass
  <2>1. \A w \in Everyone : u[w].food \in Nat
    BY <1>3, LarderIs
  <2>2. \A w \in Everyone \ {a} : k[w].food <= u[w].food
    BY <1>6, <2>1
  <2>3. k[a].food <= u[a].food + Rules.carcass
    BY <1>5, <1>6
  <2> QED BY <1>3, <1>4, <1>7, <2>2, <2>3, FareGains
<1>9. Fare(k) <= Fare(b) + Rules.carcass
  <2>1. Fare(k) \in Nat /\ Fare(u) \in Nat /\ Fare(s) \in Nat /\ Fare(b) \in Nat
    BY <1>1, <1>3, <1>7, LarderIs
  <2> QED BY <1>1, <1>3, <1>4, <1>8, <2>1
<1>10. \A w \in Everyone \ {d} : \A f \in {"life", "age", "hits", "wound", "ill"} : s[w][f] = b[w][f]
  BY <1>1
<1>11. ASSUME NEW w \in Everyone \ {d}, NEW f \in {"life", "age", "hits", "wound", "ill"}
       PROVE  k[w][f] = b[w][f]
  <2>1. u[w][f] = b[w][f]
    BY <1>3, <1>10
  <2>2. k[w][f] = u[w][f]
    BY <1>5, <1>6
  <2> QED BY <2>1, <2>2
<1>12. ASSUME NEW w \in Everyone \ {a, d}, ~Lives(b, w)
       PROVE  k[w] = b[w]
  <2>1. s[w] = b[w]
    BY <1>1
  <2>2. ~Lives(s, w)
    BY <1>12, <2>1 DEF Lives
  <2> QED BY <1>3, <1>6, <2>1, <2>2
<1>13. k[d] = u[d]
  BY <1>6
<1> QED BY <1>3, <1>7, <1>9, <1>11, <1>12, <1>13 DEF k

(* An attempt: it changes the life of none but the one attacked, who lives *)
(* with hits left or is dead and bare.                                     *)
LEMMA StruckIs ==
  ASSUME NEW b \in Cast, NEW a \in Everyone, NEW d \in Everyone, a # d, Lives(b, a), Lives(b, d), b[d].hits > 0, NEW roll
  PROVE  /\ Struck(b, a, d, roll) \in Cast
         /\ \A w \in Everyone \ {d} : \A f \in {"life", "age", "hits", "ill"} : Struck(b, a, d, roll)[w][f] = b[w][f]
         /\ \A w \in Everyone \ {d} : ~Lives(b, w) => Struck(b, a, d, roll)[w] = b[w]
         /\ \/ /\ Struck(b, a, d, roll)[d].life = "active" /\ Struck(b, a, d, roll)[d].hits > 0
               /\ Struck(b, a, d, roll)[d].ill = b[d].ill
            \/ /\ Struck(b, a, d, roll)[d].life = "dead" /\ Bare(Struck(b, a, d, roll)[d])
         /\ Fare(Struck(b, a, d, roll)) <= Fare(b) + Rules.bite + Rules.carcass
<1> DEFINE t == Bitten(b, a, d, roll)
           c == Struck(b, a, d, roll)
           k == Killed(t, a, d)
<1>1. /\ t \in Cast
      /\ \A w \in Everyone \ {a, d} : t[w] = b[w]
      /\ \A f \in {"life", "age", "hits", "torch", "wound", "ill"} : t[a][f] = b[a][f]
      /\ \A f \in {"life", "age", "food", "torch", "ill"} : t[d][f] = b[d][f]
      /\ Fare(t) <= Fare(b) + Rules.bite
  BY BittenIs
<1>2. c = IF ~Hits(b, a, d, roll) THEN b ELSE IF t[d].hits > 0 THEN t ELSE k
  BY DEF Struck
<1>3. b[d].life = "active" /\ b[a].life = "active" /\ Fare(b) \in Nat /\ Fare(t) \in Nat
        /\ Rules.bite \in Nat /\ Rules.carcass \in Nat
  BY <1>1, LarderIs, Amounts DEF Lives
<1> HIDE DEF t
<1>4. /\ k \in Cast
      /\ k[d].life = "dead" /\ Bare(k[d])
      /\ \A w \in Everyone \ {d} : \A f \in {"life", "age", "hits", "wound", "ill"} : k[w][f] = t[w][f]
      /\ \A w \in Everyone \ {a, d} : ~Lives(t, w) => k[w] = t[w]
      /\ Fare(k) <= Fare(t) + Rules.carcass /\ Fare(k) \in Nat
  BY <1>1, KilledIs, LarderIs
<1> HIDE DEF k, c
<1>5. \A w \in Everyone \ {d} : \A f \in {"life", "age", "hits", "ill"} : t[w][f] = b[w][f]
  BY <1>1
<1>6. CASE c = b
  BY <1>3, <1>6 DEF c
<1>7. CASE c = t /\ t[d].hits > 0
  <2>1. t[d].life = "active" /\ t[d].ill = b[d].ill
    BY <1>1, <1>3
  <2>2. \A w \in Everyone \ {d} : ~Lives(b, w) => t[w] = b[w]
    BY <1>1, <1>3 DEF Lives
  <2>3. Fare(t) <= Fare(b) + Rules.bite + Rules.carcass
    BY <1>1, <1>3
  <2> QED BY <1>1, <1>5, <1>7, <2>1, <2>2, <2>3 DEF c
<1>8. CASE c = k
  <2>1. \A w \in Everyone \ {d} : \A f \in {"life", "age", "hits", "ill"} : k[w][f] = b[w][f]
    BY <1>4, <1>5
  <2>2. \A w \in Everyone \ {d} : ~Lives(b, w) => k[w] = b[w]
    BY <1>1, <1>3, <1>4 DEF Lives
  <2>3. Fare(k) <= Fare(b) + Rules.bite + Rules.carcass
    BY <1>1, <1>3, <1>4
  <2> QED BY <1>4, <1>8, <2>1, <2>2, <2>3 DEF c
<1> QED BY <1>2, <1>6, <1>7, <1>8

-----------------------------------------------------------------------------
(* The passes.                                                             *)
LEMMA NatDiv ==
  ASSUME NEW n \in Nat, NEW k \in Nat \ {0}
  PROVE  n \div k \in Nat
  OBVIOUS

LEMMA NatTimes ==
  ASSUME NEW m \in Nat, NEW n \in Nat
  PROVE  m * n \in Nat
  OBVIOUS

LEMMA LeftIs ==
  ASSUME NEW q \in Nat, NEW per \in {2, 4}
  PROVE  Left(q, per) \in 0..q /\ Left(q, per) \in Nat
<1>1. CASE per = 2
  <2> DEFINE lost == (2 * q + 2) \div 4
  <2>1. lost \in Nat /\ 4 * lost <= 2 * q + 2
    OBVIOUS
  <2>2. Left(q, 2) = IF lost = 0 THEN 0 ELSE q - lost
    BY DEF Left
  <2> HIDE DEF lost
  <2>3. lost # 0 => lost <= q
    BY <2>1
  <2> QED BY <1>1, <2>1, <2>2, <2>3
<1>2. CASE per = 4
  <2> DEFINE lost == (2 * q + 4) \div 8
  <2>1. lost \in Nat /\ 8 * lost <= 2 * q + 4
    OBVIOUS
  <2>2. Left(q, 4) = IF lost = 0 THEN 0 ELSE q - lost
    BY DEF Left
  <2> HIDE DEF lost
  <2>3. lost # 0 => lost <= q
    BY <2>1
  <2> QED BY <1>2, <2>1, <2>2, <2>3
<1> QED BY <1>1, <1>2

LEMMA LeftOfNone == Left(0, 2) = 0 /\ Left(0, 4) = 0
<1>1. Left(0, 2) \in 0..0 /\ Left(0, 4) \in 0..0
  BY LeftIs
<1> QED BY <1>1

LEMMA FedIs ==
  ASSUME NEW w, NEW r \in Being
  PROVE  /\ Fed(w, r) \in Being /\ Fed(w, r).food <= r.food
         /\ \A f \in {"life", "age", "hits", "torch", "wound"} : Fed(w, r)[f] = r[f]
<1>1. CASE w \notin People
  <2>1. Fed(w, r) = r /\ r.food <= r.food
    BY <1>1, BeingIs DEF Fed
  <2> QED BY <2>1
<1>2. CASE w \in People
  <2> DEFINE eaten == Clip(r.food, Draw)
             food == r.food - eaten
             ill == r.ill + Granted(eaten)
             mid == [r EXCEPT !.food = food]
  <2>1. Draw \in Nat \ {0}
    BY Amounts DEF Draw
  <2>2. r.food \in Nat /\ r.food \in 0..Cap.food /\ Cap.food \in Nat
    BY BeingIs, Amounts
  <2>3. eaten \in 0..Draw /\ eaten \in Nat /\ eaten <= r.food
    BY <2>1, <2>2, ClipIs
  <2>4. food \in 0..Cap.food /\ food <= r.food
    <3> HIDE DEF eaten
    <3> QED BY <2>2, <2>3
  <2>5. Granted(eaten) \in Nat
    <3> HIDE DEF eaten
    <3>1. Draw - eaten \in Nat
      BY <2>1, <2>3
    <3>2. Need.grant * (Draw - eaten) \in Nat
      BY <3>1, NatTimes, Amounts
    <3> QED BY <2>1, <3>2, NatDiv DEF Granted
  <2>6. ill \in Nat
    BY <2>5, BeingIs
  <2>7. Fed(w, r) = [mid EXCEPT !.ill = mid.ill + Granted(eaten)]
    BY <1>2 DEF Fed
  <2>8. mid = Made(r.life, r.age, r.hits, food, r.torch, r.wound, r.ill)
    BY DEF Being, Made
  <2> HIDE DEF mid, food, eaten
  <2>9. mid.ill = r.ill
    BY <2>8 DEF Made
  <2>10. Fed(w, r) = [mid EXCEPT !.ill = ill]
    BY <2>7, <2>9
  <2> HIDE DEF ill
  <2>11. Fed(w, r) = Made(r.life, r.age, r.hits, food, r.torch, r.wound, ill)
    BY <2>8, <2>10 DEF Made
  <2>12. Made(r.life, r.age, r.hits, food, r.torch, r.wound, ill) \in Being
    BY <2>4, <2>6, MadeIs, BeingIs
  <2> QED BY <2>4, <2>11, <2>12 DEF Made
<1> QED BY <1>1, <1>2

LEMMA SickenedIs ==
  ASSUME NEW r \in Being, NEW n \in Nat
  PROVE  /\ [r EXCEPT !.ill = n] \in Being
         /\ \A f \in {"life", "age", "hits", "food", "torch", "wound"} : [r EXCEPT !.ill = n][f] = r[f]
BY DEF Being

LEMMA FesteredIs ==
  ASSUME NEW r \in Being
  PROVE  /\ Festered(r) \in Being
         /\ \A f \in {"life", "age", "hits", "food", "torch", "wound"} : Festered(r)[f] = r[f]
<1>1. r.ill + Drip.quantity \in Nat
  BY BeingIs, Amounts
<1>2. Clip(r.ill + Drip.quantity, Cap.ill) \in Nat
  BY <1>1, ClipIs, Amounts
<1> DEFINE t == [r EXCEPT !.ill = Clip(r.ill + Drip.quantity, Cap.ill)]
<1>3. t \in Being /\ \A f \in {"life", "age", "hits", "food", "torch", "wound"} : t[f] = r[f]
  BY <1>2, SickenedIs
<1>4. Festered(r) = r \/ Festered(r) = t
  BY DEF Festered
<1> HIDE DEF t
<1> QED BY <1>3, <1>4

LEMMA PressedIs ==
  ASSUME NEW w, NEW r \in Being
  PROVE  /\ Pressed(w, r) \in Being
         /\ \A f \in {"life", "age", "hits", "food", "torch", "wound"} : Pressed(w, r)[f] = r[f]
<1> DEFINE rate == Dark.rate + (IF w \in spoke THEN Dark.per_say ELSE 0)
<1>1. rate \in Nat
  BY Amounts
<1>2. Pressure(w, r) = IF r.torch >= Rules.lit THEN (rate + 1) \div 2 ELSE rate
  BY DEF Pressure
<1> HIDE DEF rate
<1>3. Pressure(w, r) \in Nat
  <2>1. (rate + 1) \div 2 \in Nat
    BY <1>1
  <2> QED BY <1>1, <1>2, <2>1
<1>4. r.ill + Pressure(w, r) \in Nat
  BY <1>3, BeingIs
<1> DEFINE t == [r EXCEPT !.ill = r.ill + Pressure(w, r)]
<1>5. t \in Being /\ \A f \in {"life", "age", "hits", "food", "torch", "wound"} : t[f] = r[f]
  BY <1>4, SickenedIs
<1>6. Pressed(w, r) = r \/ Pressed(w, r) = t
  BY DEF Pressed
<1> HIDE DEF t
<1> QED BY <1>5, <1>6

LEMMA DecayedIs ==
  ASSUME NEW r \in Being
  PROVE  /\ Decayed(r) \in Being
         /\ \A f \in {"life", "age", "hits", "food"} : Decayed(r)[f] = r[f]
         /\ Bare(r) => Bare(Decayed(r))
<1> DEFINE torch == Left(r.torch, 2)
           wound == Left(r.wound, 2)
           ill == Left(r.ill, 4)
           one == [r EXCEPT !.torch = torch]
           two == [one EXCEPT !.wound = Left(one.wound, 2)]
<1>1. r.torch \in Nat /\ r.wound \in Nat /\ r.ill \in Nat /\ r.torch \in 0..Cap.torch /\ r.wound \in 0..Cap.wound
        /\ Cap.torch \in Nat /\ Cap.wound \in Nat
  BY BeingIs, Amounts
<1>2. torch \in 0..Cap.torch /\ wound \in 0..Cap.wound /\ ill \in Nat
  <2>1. torch \in 0..r.torch /\ wound \in 0..r.wound /\ ill \in Nat
    BY <1>1, LeftIs
  <2> HIDE DEF torch, wound, ill
  <2> QED BY <1>1, <2>1
<1>3. Decayed(r) = [two EXCEPT !.ill = Left(two.ill, 4)]
  BY DEF Decayed
<1>4. one = Made(r.life, r.age, r.hits, r.food, torch, r.wound, r.ill)
  BY DEF Being, Made
<1> HIDE DEF one, torch
<1>5. one.wound = r.wound
  BY <1>4 DEF Made
<1>6. two = [one EXCEPT !.wound = wound]
  BY <1>5
<1> HIDE DEF two, wound
<1>7. two = Made(r.life, r.age, r.hits, r.food, torch, wound, r.ill)
  BY <1>4, <1>6 DEF Made
<1>8. two.ill = r.ill
  BY <1>7 DEF Made
<1>9. Decayed(r) = [two EXCEPT !.ill = ill]
  BY <1>3, <1>8
<1> HIDE DEF ill
<1>10. Decayed(r) = Made(r.life, r.age, r.hits, r.food, torch, wound, ill)
  BY <1>7, <1>9 DEF Made
<1>11. Decayed(r) \in Being
  <2>1. /\ r.life \in {"unborn", "active", "dead"} /\ r.age \in -1..Lifespan /\ r.hits \in Nat
        /\ r.food \in 0..Cap.food
    BY BeingIs
  <2>2. Made(r.life, r.age, r.hits, r.food, torch, wound, ill) \in Being
    BY <1>2, <2>1, MadeIs
  <2> QED BY <1>10, <2>2
<1>12. /\ \A f \in {"life", "age", "hits", "food"} : Decayed(r)[f] = r[f]
       /\ Decayed(r).torch = torch /\ Decayed(r).wound = wound /\ Decayed(r).ill = ill
  BY <1>10 DEF Made
<1>13. ASSUME Bare(r) PROVE Bare(Decayed(r))
  <2>1. torch = 0 /\ wound = 0 /\ ill = 0
    BY <1>13, LeftOfNone DEF Bare, torch, wound, ill
  <2> QED BY <1>12, <1>13, <2>1 DEF Bare
<1> QED BY <1>11, <1>12, <1>13

(* The passes of a tick end no life, and nobody has more to eat of them.   *)
LEMMA WornIs ==
  ASSUME NEW b \in Cast
  PROVE  /\ Worn(b) \in Cast
         /\ \A w \in Everyone : \A f \in {"life", "age", "hits"} : Worn(b)[w][f] = b[w][f]
         /\ \A w \in Everyone : ~Lives(b, w) /\ Bare(b[w]) => Bare(Worn(b)[w])
         /\ Fare(Worn(b)) <= Fare(b)
<1> DEFINE c == Worn(b)
           mid(w) == IF b[w].life = "active" THEN Pressed(w, Festered(Fed(w, b[w]))) ELSE b[w]
<1>1. \A w \in Everyone : b[w] \in Being /\ b[w].food \in Nat
  BY LarderIs
<1>2. c = [w \in Everyone |-> Decayed(mid(w))]
  BY DEF Worn
<1>3. ASSUME NEW w \in Everyone
      PROVE  mid(w) \in Being /\ mid(w).food <= b[w].food /\ \A f \in {"life", "age", "hits"} : mid(w)[f] = b[w][f]
  <2>1. CASE b[w].life = "active"
    <3> DEFINE one == Fed(w, b[w])
               two == Festered(one)
               three == Pressed(w, two)
    <3>1. mid(w) = three
      BY <2>1
    <3>2. one \in Being /\ one.food <= b[w].food /\ \A f \in {"life", "age", "hits"} : one[f] = b[w][f]
      BY <1>1, FedIs
    <3> HIDE DEF one
    <3>3. two \in Being /\ \A f \in {"life", "age", "hits", "food"} : two[f] = one[f]
      BY <3>2, FesteredIs
    <3> HIDE DEF two
    <3>4. three \in Being /\ \A f \in {"life", "age", "hits", "food"} : three[f] = two[f]
      BY <3>3, PressedIs
    <3> HIDE DEF three, mid
    <3> QED BY <3>1, <3>2, <3>3, <3>4
  <2>2. CASE b[w].life # "active"
    <3>1. mid(w) = b[w]
      BY <2>2
    <3> QED BY <1>1, <3>1
  <2> QED BY <2>1, <2>2
<1>4. \A w \in Everyone : ~Lives(b, w) => mid(w) = b[w]
  BY DEF Lives
<1> HIDE DEF mid, c
<1>5. \A w \in Everyone : c[w] = Decayed(mid(w))
  BY <1>2
<1>6. ASSUME NEW w \in Everyone
      PROVE  /\ c[w] \in Being /\ c[w].food <= b[w].food
             /\ \A f \in {"life", "age", "hits"} : c[w][f] = b[w][f]
             /\ ~Lives(b, w) /\ Bare(b[w]) => Bare(c[w])
  <2>1. /\ c[w] \in Being /\ \A f \in {"life", "age", "hits", "food"} : c[w][f] = mid(w)[f]
        /\ Bare(mid(w)) => Bare(c[w])
    BY <1>3, <1>5, DecayedIs
  <2> QED BY <1>3, <1>4, <2>1
<1>7. c \in Cast
  <2>1. c = [w \in Everyone |-> c[w]]
    BY <1>2
  <2> QED BY <1>6, <2>1 DEF Cast
<1>8. Fare(c) <= Fare(b)
  BY <1>6, <1>7, FareFalls
<1> QED BY <1>6, <1>7, <1>8 DEF c

-----------------------------------------------------------------------------
(* The invariant.  Besides the types: who does not live holds nothing and  *)
(* sleeps not, who lives has hits and is below the threshold, between the  *)
(* passes as at their end; each death is told once; and the names given    *)
(* are the first of the list, so that the next is one nobody had.          *)
Bares(b) == \A w \in Everyone : ~Lives(b, w) => Bare(b[w])
Hale(b) == \A w \in Everyone \ {Post} : Lives(b, w) => b[w].hits > 0 /\ b[w].ill < Lethal
BornInOrder(b) == \E m \in 0..Len(Names) : EverBorn(b) = {Names[i] : i \in 1..m}
SoundAsleep == \A w \in Everyone : ~Lives(body, w) => asleep[w] = 0

BodyInv ==
  BodyTypeOK /\ Bares(body) /\ Hale(body) /\ SoundAsleep /\ DeathToldOnce /\ BornInOrder(body)

LEMMA CastIs == BodyTypeOK => body \in Cast
BY DEF BodyTypeOK, Cast

(* A step ends lives and begins none.                                      *)
Outlives(b, c) == \A w \in Everyone : c[w].life = b[w].life \/ (b[w].life = "active" /\ c[w].life = "dead")

LEMMA NobodyIsBorn ==
  ASSUME NEW b, NEW c, Outlives(b, c)
  PROVE  EverBorn(c) = EverBorn(b) /\ (BornInOrder(b) => BornInOrder(c))
<1>1. EverBorn(c) = EverBorn(b)
  BY DEF EverBorn, Outlives, Everyone
<1> QED BY <1>1 DEF BornInOrder

LEMMA NobodyRisesOf ==
  ASSUME Outlives(body, body')
  PROVE  NobodyRises
BY DEF Outlives, NobodyRises

LEMMA SettlesOf ==
  ASSUME BodyInv
  PROVE  TheBodySettles
<1>1. \A w \in Everyone : ~Lives(body, w) =>
        /\ asleep[w] = 0
        /\ \A f \in {"hits", "food", "torch", "wound", "ill"} : body[w][f] = 0
  BY DEF BodyInv, Bares, SoundAsleep, Bare
<1>2. phase = "idle" => \A w \in Everyone \ {Post} : Lives(body, w) => body[w].hits > 0 /\ body[w].ill < Lethal
  BY DEF BodyInv, Hale
<1> QED BY <1>1, <1>2 DEF TheBodySettles

(* What every step shows.                                                  *)
Lawful == BodyInv' /\ NobodyRises /\ KillsMakeNothing

LEMMA NobodyHurt ==
  ASSUME BodyInv, \A w \in Everyone : body'[w].hits = body[w].hits
  PROVE  KillsMakeNothing
<1>1. \A w \in Everyone : body[w].hits \in Nat
  BY CastIs, BeingIs DEF BodyInv, Cast
<1>2. \A w \in Everyone : ~(body'[w].hits < body[w].hits)
  BY <1>1
<1> QED BY <1>2 DEF KillsMakeNothing

LEMMA NoMoreFood ==
  ASSUME BodyInv, body' \in Cast, Fare(body') <= Fare(body)
  PROVE  KillsMakeNothing
<1>1. Fare(body) \in Nat /\ Fare(body') \in Nat /\ Rules.bite \in Nat /\ Rules.carcass \in Nat
  BY CastIs, LarderIs, Amounts DEF BodyInv
<1>2. Fare(body') <= Fare(body) + Rules.bite + Rules.carcass
  BY <1>1
<1> QED BY <1>2 DEF KillsMakeNothing

(* A step that leaves every body as it was, and lets none sleep who does   *)
(* not live.                                                               *)
LEMMA BodiesRest ==
  ASSUME BodyInv, UNCHANGED <<body, told, armed>>, BodyTypeOK', SoundAsleep'
  PROVE  Lawful
<1>1. Bares(body)' /\ Hale(body)' /\ BornInOrder(body)'
  BY DEF BodyInv, Bares, Hale, BornInOrder, Lives, EverBorn
<1>2. DeathToldOnce'
  BY DEF BodyInv, DeathToldOnce
<1>3. NobodyRises
  BY DEF NobodyRises
<1>4. KillsMakeNothing
  BY NobodyHurt
<1> QED BY <1>1, <1>2, <1>3, <1>4 DEF Lawful, BodyInv

LEMMA SaySteps ==
  ASSUME BodyInv, NEW w \in Everyone, Say(w), deeds < MaxDeeds, deeds' = deeds + 1
  PROVE  Lawful
<1>1. BodyTypeOK'
  <2>1. deeds' \in 0..MaxDeeds
    BY Amounts DEF BodyInv, BodyTypeOK
  <2>2. spoke' \subseteq Everyone
    BY DEF Say, BodyInv, BodyTypeOK
  <2> QED BY <2>1, <2>2 DEF Say, BodyInv, BodyTypeOK
<1>2. SoundAsleep'
  BY DEF Say, BodyInv, SoundAsleep, Lives
<1> QED BY <1>1, <1>2, BodiesRest DEF Say

LEMMA SleepSteps ==
  ASSUME BodyInv, NEW w \in Everyone, Sleep(w), deeds < MaxDeeds, deeds' = deeds + 1
  PROVE  Lawful
<1>1. BodyTypeOK'
  <2>1. deeds' \in 0..MaxDeeds
    BY Amounts DEF BodyInv, BodyTypeOK
  <2>2. asleep' \in [Everyone -> 0..SleepFor + 1]
    <3>1. SleepFor + (IF phase = "idle" THEN 1 ELSE 0) \in 0..SleepFor + 1
      BY Amounts
    <3> QED BY <3>1 DEF Sleep, BodyInv, BodyTypeOK
  <2>3. visited' \subseteq Everyone
    BY DEF Sleep, BodyInv, BodyTypeOK
  <2> QED BY <2>1, <2>2, <2>3 DEF Sleep, BodyInv, BodyTypeOK
<1>2. SoundAsleep'
  <2>1. asleep' = [asleep EXCEPT ![w] = SleepFor + (IF phase = "idle" THEN 1 ELSE 0)] /\ Lives(body, w) /\ body' = body
    BY DEF Sleep
  <2>2. asleep \in [Everyone -> 0..SleepFor + 1]
    BY DEF BodyInv, BodyTypeOK
  <2> QED BY <2>1, <2>2 DEF BodyInv, SoundAsleep, Lives
<1> QED BY <1>1, <1>2, BodiesRest DEF Sleep

LEMMA LawfulOf ==
  ASSUME BodyInv, BodyTypeOK', SoundAsleep', DeathToldOnce', Bares(body'), Hale(body'),
         Outlives(body, body'), KillsMakeNothing
  PROVE  Lawful
<1>1. BornInOrder(body') /\ NobodyRises
  BY NobodyIsBorn, NobodyRisesOf DEF BodyInv
<1>2. Bares(body)' /\ Hale(body)' /\ BornInOrder(body)'
  BY <1>1
<1> QED BY <1>1, <1>2 DEF Lawful, BodyInv

(* Every body keeps its life, its hits and its illness, and nobody's bare  *)
(* body changes.                                                           *)
LEMMA BodiesKeep ==
  ASSUME BodyInv, BodyTypeOK', UNCHANGED <<told, armed>>,
         \A w \in Everyone : body'[w].life = body[w].life /\ body'[w].hits = body[w].hits /\ body'[w].ill = body[w].ill,
         \A w \in Everyone : ~Lives(body, w) => Bare(body'[w]) /\ asleep'[w] = 0
  PROVE  Lawful
<1>1. \A w \in Everyone : Lives(body', w) <=> Lives(body, w)
  BY DEF Lives
<1>2. Bares(body') /\ SoundAsleep'
  BY <1>1 DEF Bares, SoundAsleep
<1>3. Hale(body')
  BY <1>1 DEF BodyInv, Hale
<1>4. DeathToldOnce'
  BY DEF BodyInv, DeathToldOnce
<1>5. Outlives(body, body')
  BY DEF Outlives
<1>6. KillsMakeNothing
  BY NobodyHurt
<1> QED BY <1>2, <1>3, <1>4, <1>5, <1>6, LawfulOf

LEMMA GainSteps ==
  ASSUME BodyInv, NEW w \in Everyone, Gain(w), deeds < MaxDeeds, deeds' = deeds + 1
  PROVE  Lawful
<1>1. deeds' \in 0..MaxDeeds /\ body \in [Everyone -> Being] /\ body[w] \in Being /\ Lives(body, w)
  BY Amounts DEF BodyInv, BodyTypeOK, Gain
<1>2. CASE UNCHANGED body
  <2>1. BodyTypeOK'
    <3>1. place' \in [Everyone -> Ground]
      BY DEF Gain, BodyInv, BodyTypeOK
    <3> QED BY <1>1, <1>2, <3>1 DEF Gain, BodyInv, BodyTypeOK
  <2>2. SoundAsleep'
    BY <1>2 DEF Gain, BodyInv, SoundAsleep, Lives
  <2> QED BY <1>2, <2>1, <2>2, BodiesRest DEF Gain
<1>3. ASSUME NEW r \in Being, body' = [body EXCEPT ![w] = r], UNCHANGED place,
             r.life = body[w].life, r.hits = body[w].hits, r.ill = body[w].ill
      PROVE  Lawful
  <2>1. body' \in [Everyone -> Being] /\ body'[w] = r /\ \A v \in Everyone \ {w} : body'[v] = body[v]
    BY <1>1, <1>3
  <2>2. BodyTypeOK'
    BY <1>1, <1>3, <2>1 DEF Gain, BodyInv, BodyTypeOK
  <2>3. \A v \in Everyone : body'[v].life = body[v].life /\ body'[v].hits = body[v].hits /\ body'[v].ill = body[v].ill
    BY <1>3, <2>1
  <2>4. \A v \in Everyone : ~Lives(body, v) => Bare(body'[v]) /\ asleep'[v] = 0
    BY <1>1, <2>1 DEF Gain, BodyInv, Bares, SoundAsleep
  <2> QED BY <2>2, <2>3, <2>4, BodiesKeep DEF Gain
<1>4. CASE body' = [body EXCEPT ![w].food = Clip(@ + 2, Cap.food)] /\ UNCHANGED place
  <2>1. body' = [body EXCEPT ![w] = Eats(body[w], 2)]
    BY <1>1, <1>4 DEF Eats
  <2>2. Eats(body[w], 2) \in Being /\ \A f \in {"life", "hits", "ill"} : Eats(body[w], 2)[f] = body[w][f]
    BY <1>1, EatsIs
  <2> QED BY <1>3, <1>4, <2>1, <2>2
<1>5. CASE body' = [body EXCEPT ![w].torch = Cap.torch] /\ UNCHANGED place
  <2> DEFINE r == [body[w] EXCEPT !.torch = Cap.torch]
  <2>1. body' = [body EXCEPT ![w] = r]
    BY <1>1, <1>5
  <2>2. Cap.torch \in 0..Cap.torch
    BY Amounts
  <2>3. r \in Being /\ r.life = body[w].life /\ r.hits = body[w].hits /\ r.ill = body[w].ill
    BY <1>1, <2>2 DEF Being
  <2> HIDE DEF r
  <2> QED BY <1>3, <1>5, <2>1, <2>3
<1> QED BY <1>2, <1>4, <1>5 DEF Gain

LEMMA DawnSteps ==
  ASSUME BodyInv, Dawn
  PROVE  Lawful
<1> DEFINE older(r) == [r EXCEPT !.age = r.age + 1]
<1>1. body \in [Everyone -> Being] /\ asleep \in [Everyone -> 0..SleepFor + 1] /\ hour \in 0..Day - 1
  BY DEF BodyInv, BodyTypeOK
<1>2. body' = [w \in Everyone |-> IF body[w].age \in 0..Lifespan - 1 THEN older(body[w]) ELSE body[w]]
  BY DEF Dawn
<1>3. ASSUME NEW r \in Being, r.age \in 0..Lifespan - 1
      PROVE  older(r) \in Being /\ \A f \in {"life", "hits", "food", "torch", "wound", "ill"} : older(r)[f] = r[f]
  <2>1. r.age + 1 \in -1..Lifespan
    BY <1>3, Amounts
  <2> QED BY <2>1 DEF Being
<1> HIDE DEF older
<1>4. ASSUME NEW w \in Everyone
      PROVE  body'[w] \in Being /\ \A f \in {"life", "hits", "food", "torch", "wound", "ill"} : body'[w][f] = body[w][f]
  <2>1. body[w] \in Being
    BY <1>1
  <2>2. body'[w] = IF body[w].age \in 0..Lifespan - 1 THEN older(body[w]) ELSE body[w]
    BY <1>2
  <2> QED BY <1>3, <2>1, <2>2
<1>5. BodyTypeOK'
  <2>1. body' \in [Everyone -> Being]
    <3>1. body' = [w \in Everyone |-> body'[w]]
      BY <1>2
    <3> QED BY <1>4, <3>1
  <2>2. asleep' \in [Everyone -> 0..SleepFor + 1]
    <3>1. \A w \in Everyone : (IF asleep[w] = 0 THEN 0 ELSE asleep[w] - 1) \in 0..SleepFor + 1
      BY <1>1, Amounts
    <3> QED BY <3>1 DEF Dawn
  <2>3. hour' \in 0..Day - 1
    <3>1. Day \in Nat \ {0} /\ hour + 1 \in Nat
      BY <1>1, Amounts
    <3> QED BY <3>1 DEF Dawn
  <2>4. DOMAIN rolled' \subseteq Everyone \X Everyone
    BY DEF Dawn
  <2>5. deeds' \in 0..MaxDeeds
    BY Amounts DEF Dawn
  <2> QED BY <2>1, <2>2, <2>3, <2>4, <2>5 DEF Dawn, BodyInv, BodyTypeOK
<1>6. \A w \in Everyone : ~Lives(body, w) => Bare(body'[w]) /\ asleep'[w] = 0
  <2>1. \A w \in Everyone : ~Lives(body, w) => Bare(body[w]) /\ asleep[w] = 0
    BY DEF BodyInv, Bares, SoundAsleep
  <2>2. \A w \in Everyone : asleep[w] = 0 => asleep'[w] = 0
    BY DEF Dawn
  <2>3. \A w \in Everyone : Bare(body[w]) => Bare(body'[w])
    BY <1>4 DEF Bare
  <2> QED BY <2>1, <2>2, <2>3
<1>7. \A w \in Everyone : body'[w].life = body[w].life /\ body'[w].hits = body[w].hits /\ body'[w].ill = body[w].ill
  BY <1>4
<1> QED BY <1>5, <1>6, <1>7, BodiesKeep DEF Dawn

-----------------------------------------------------------------------------
(* A new name is none that was given: the names given are the first of the *)
(* list, and so many.                                                      *)
LEMMA GivenAre ==
  ASSUME NEW b, NEW m \in 0..Len(Names), EverBorn(b) = {Names[i] : i \in 1..m}
  PROVE  Numbered(b) = m
<1>1. Len(Names) \in Nat /\ DOMAIN Names = 1..Len(Names) /\ m \in Nat
  BY EveryoneFinite
<1>2. \A i, j \in 1..m : i \in DOMAIN Names /\ j \in DOMAIN Names
  BY <1>1
<1>3. \A i, j \in 1..m : Names[i] = Names[j] => i = j
  BY <1>2, BodyAssumption
<1>4. IsFiniteSet(1..m) /\ Cardinality(1..m) = m
  BY <1>1, FS_Interval
<1> DEFINE given == [i \in 1..m |-> Names[i]]
<1>5. given \in Bijection(1..m, EverBorn(b))
  BY <1>3 DEF Bijection, Injection, Surjection, IsInjective
<1>6. ExistsBijection(1..m, EverBorn(b))
  BY <1>5 DEF ExistsBijection
<1>7. Cardinality(EverBorn(b)) = Cardinality(1..m)
  BY <1>4, <1>6, FS_Bijection
<1> QED BY <1>4, <1>7 DEF Numbered

LEMMA LitterIs ==
  ASSUME NEW b, NEW m \in 0..Len(Names), EverBorn(b) = {Names[i] : i \in 1..m}, NEW n \in Int,
         NEW litter, litter = {Names[i] : i \in (Numbered(b) + 1..Numbered(b) + n) \cap DOMAIN Names}
  PROVE  /\ litter \subseteq Beasts
         /\ \A w \in litter : b[w].life = "unborn"
         /\ \E k \in 0..Len(Names) : EverBorn(b) \cup litter = {Names[i] : i \in 1..k}
<1>1. Len(Names) \in Nat /\ DOMAIN Names = 1..Len(Names) /\ m \in Nat /\ m <= Len(Names)
  BY EveryoneFinite
<1>2. litter = {Names[i] : i \in (m + 1..m + n) \cap (1..Len(Names))}
  BY <1>1, GivenAre
<1>3. litter \subseteq Beasts
  BY <1>1, <1>2 DEF Beasts
<1>4. ASSUME NEW w \in litter PROVE b[w].life = "unborn"
  <2>1. PICK i \in (m + 1..m + n) \cap (1..Len(Names)) : w = Names[i]
    BY <1>2
  <2>2. SUFFICES ASSUME w \in EverBorn(b) PROVE FALSE
    BY <1>3 DEF EverBorn
  <2>3. PICK j \in 1..m : w = Names[j]
    BY <2>2
  <2>4. i \in DOMAIN Names /\ j \in DOMAIN Names /\ i # j
    BY <1>1
  <2> QED BY <2>1, <2>3, <2>4, BodyAssumption
<1>5. \E k \in 0..Len(Names) : EverBorn(b) \cup litter = {Names[i] : i \in 1..k}
  <2>1. CASE n <= 0
    <3>1. (m + 1..m + n) = {}
      BY <1>1, <2>1
    <3>2. litter = {}
      BY <1>2, <3>1
    <3> QED BY <3>2
  <2>2. CASE n > 0
    <3> DEFINE last == IF m + n > Len(Names) THEN Len(Names) ELSE m + n
    <3>1. last \in 0..Len(Names) /\ \A i \in Int : i \in 1..last <=> i \in 1..m \/ i \in (m + 1..m + n) \cap (1..Len(Names))
      BY <1>1, <2>2
    <3> HIDE DEF last
    <3>2. 1..last = (1..m) \cup ((m + 1..m + n) \cap (1..Len(Names)))
      BY <1>1, <3>1
    <3> DEFINE first(k) == {Names[i] : i \in 1..k}
    <3>3. EverBorn(b) \cup litter = first(last)
      BY <1>2, <3>2
    <3>4. \E k \in 0..Len(Names) : EverBorn(b) \cup litter = first(k)
      <4> HIDE DEF first
      <4> QED BY <3>1, <3>3
    <3> QED BY <3>4
  <2>3. n <= 0 \/ n > 0
    OBVIOUS
  <2> QED BY <2>1, <2>2, <2>3, Zenon
<1> QED BY <1>3, <1>4, <1>5

LEMMA AliveIs ==
  ASSUME NEW b
  PROVE  Cardinality({w \in Beasts : Lives(b, w)}) \in Nat
<1>1. {w \in Beasts : Lives(b, w)} \in SUBSET Beasts
  OBVIOUS
<1> QED BY <1>1, EveryoneFinite, FS_Subset, FS_CardinalityType

LEMMA WhelpIs ==
  ASSUME NEW w \in Beasts
  PROVE  /\ Creature("active", Stat["beast"].hits, 0) \in Being
         /\ Creature("active", Stat["beast"].hits, 0).life = "active"
         /\ Creature("active", Stat["beast"].hits, 0).hits > 0
         /\ Creature("active", Stat["beast"].hits, 0).ill = 0
<1>1. Stat["beast"].hits \in Nat /\ Stat["beast"].hits > 0
  BY KindsAre
<1>2. 0 \in 0..Cap.food /\ 0 \in 0..Cap.torch /\ 0 \in 0..Cap.wound /\ -1 \in -1..Lifespan
  BY Amounts
<1>3. Creature("active", Stat["beast"].hits, 0) = Made("active", -1, Stat["beast"].hits, 0, 0, 0, 0)
  BY DEF Creature, Made
<1>4. Made("active", -1, Stat["beast"].hits, 0, 0, 0, 0) \in Being
  BY <1>1, <1>2, MadeIs
<1> QED BY <1>1, <1>3, <1>4 DEF Made

LEMMA RenewSteps ==
  ASSUME BodyInv, Renew
  PROVE  Lawful
<1> DEFINE alive == Cardinality({w \in Beasts : Lives(body, w)})
           room == Program.max_alive - alive
           n == IF room < Program.up_to THEN room ELSE Program.up_to
           litter == {Names[i] : i \in (Numbered(body) + 1..Numbered(body) + n) \cap DOMAIN Names}
           whelp == Creature("active", Stat["beast"].hits, 0)
<1>1. /\ body' = [w \in Everyone |-> IF w \in litter THEN whelp ELSE body[w]]
      /\ place' = [w \in Everyone |-> IF w \in litter THEN Lair ELSE place[w]]
  BY DEF Renew
<1>2. n \in Int
  <2>1. alive \in Nat
    BY AliveIs
  <2> HIDE DEF alive
  <2> QED BY <2>1, Amounts
<1>3. PICK m \in 0..Len(Names) : EverBorn(body) = {Names[i] : i \in 1..m}
  BY DEF BodyInv, BornInOrder
<1> HIDE DEF n
<1>4. /\ litter \subseteq Beasts
      /\ \A w \in litter : body[w].life = "unborn"
      /\ \E k \in 0..Len(Names) : EverBorn(body) \cup litter = {Names[i] : i \in 1..k}
  BY <1>2, <1>3, LitterIs
<1> HIDE DEF litter
<1>5. litter # {} => whelp \in Being /\ whelp.life = "active" /\ whelp.hits > 0 /\ whelp.ill = 0
  BY <1>4, WhelpIs
<1> HIDE DEF whelp
<1>6. \A w \in Everyone : body[w] \in Being
  BY CastIs DEF BodyInv, Cast
<1>7. /\ \A w \in litter : body'[w] = whelp
      /\ \A w \in Everyone \ litter : body'[w] = body[w]
  BY <1>1, <1>4 DEF Everyone
<1>8. BodyTypeOK'
  <2>1. body' \in [Everyone -> Being]
    BY <1>1, <1>5, <1>6
  <2>2. place' \in [Everyone -> Ground]
    BY <1>1, BodyAssumption DEF BodyInv, BodyTypeOK
  <2> QED BY <2>1, <2>2 DEF Renew, BodyInv, BodyTypeOK
<1>9. Bares(body)' /\ Hale(body)' /\ SoundAsleep'
  <2>1. \A w \in litter : Lives(body', w)
    BY <1>5, <1>7 DEF Lives
  <2>2. \A w \in Everyone \ litter : Lives(body', w) <=> Lives(body, w)
    BY <1>7 DEF Lives
  <2>3. Bares(body')
    BY <1>7, <2>1, <2>2 DEF BodyInv, Bares
  <2>4. Hale(body')
    <3>1. 0 < Lethal
      BY Amounts
    <3> QED BY <1>5, <1>7, <2>2, <3>1 DEF BodyInv, Hale
  <2>5. SoundAsleep'
    BY <2>1, <2>2 DEF Renew, BodyInv, SoundAsleep
  <2> QED BY <2>3, <2>4, <2>5
<1>10. DeathToldOnce'
  <2>1. \A w \in Everyone : body'[w].life = "dead" <=> body[w].life = "dead"
    BY <1>4, <1>5, <1>7
  <2> QED BY <2>1 DEF Renew, BodyInv, DeathToldOnce
<1>11. BornInOrder(body)'
  <2>1. EverBorn(body') = EverBorn(body) \cup litter
    BY <1>4, <1>5, <1>7 DEF EverBorn, Everyone
  <2> QED BY <1>4, <2>1 DEF BornInOrder
<1>12. NobodyRises
  BY <1>4, <1>5, <1>7 DEF NobodyRises
<1>13. KillsMakeNothing
  <2>1. \A w \in litter : Bare(body[w])
    BY <1>4 DEF BodyInv, Bares, Lives, Everyone
  <2>2. \A w \in litter : ~(body'[w].hits < body[w].hits)
    <3> SUFFICES ASSUME NEW w \in litter PROVE ~(body'[w].hits < body[w].hits)
      OBVIOUS
    <3>1. body'[w].hits > 0 /\ body'[w].hits \in Nat /\ body[w].hits = 0
      BY <1>5, <1>7, <2>1, BeingIs DEF Bare
    <3> QED BY <3>1
  <2>3. \A w \in Everyone \ litter : ~(body'[w].hits < body[w].hits)
    <3>1. \A w \in Everyone : body[w].hits \in Nat
      BY <1>6, BeingIs
    <3> QED BY <1>7, <3>1
  <2> QED BY <2>2, <2>3 DEF KillsMakeNothing
<1> QED BY <1>8, <1>9, <1>10, <1>11, <1>12, <1>13 DEF Lawful, BodyInv

-----------------------------------------------------------------------------
(* An attempt.  Between ticks with the world clock on nothing is done, so  *)
(* a death by the blow has a stream to be told in.                         *)
LEMMA WokenIs ==
  ASSUME BodyTypeOK, NEW d \in Everyone
  PROVE  /\ Woken(d) \in [Everyone -> 0..SleepFor + 1]
         /\ Woken(d)[d] = (IF ToGo(d) > 0 THEN 0 ELSE asleep[d])
         /\ \A w \in Everyone \ {d} : Woken(d)[w] = asleep[w]
<1>1. asleep \in [Everyone -> 0..SleepFor + 1] /\ SleepFor \in Nat
  BY Amounts DEF BodyTypeOK
<1>2. 0 \in 0..SleepFor + 1
  BY <1>1
<1> QED BY <1>1, <1>2 DEF Woken

LEMMA AttackSteps ==
  ASSUME BodyInv, MayAct, NEW a \in Everyone, NEW d \in Everyone, Attack(a, d), deeds < MaxDeeds, deeds' = deeds + 1
  PROVE  Lawful
<1>1. /\ BodyTypeOK /\ body \in Cast /\ deeds' \in 0..MaxDeeds
      /\ asleep \in [Everyone -> 0..SleepFor + 1] /\ SleepFor \in Nat
  BY CastIs, Amounts DEF BodyInv, BodyTypeOK
<1>2. Lives(body, a) /\ Lives(body, d) /\ a # d /\ d # Post
  BY DEF Attack, MayFight, Fightable
<1>3. CASE Lit(body, d)
  <2>1. UNCHANGED <<body, told, rolled, armed>> /\ asleep' = Woken(d)
    BY <1>3 DEF Attack
  <2>2. BodyTypeOK'
    <3>1. visited' \subseteq Everyone
      BY <1>1 DEF Attack, BodyTypeOK
    <3> QED BY <1>1, <2>1, <3>1, WokenIs DEF Attack, BodyTypeOK
  <2>3. SoundAsleep'
    BY <1>1, <1>2, <2>1, WokenIs DEF BodyInv, SoundAsleep, Lives
  <2> QED BY <2>1, <2>2, <2>3, BodiesRest
<1>4. CASE ~Lit(body, d)
  <2>1. PICK roll : 
          /\ body' = Struck(body, a, d, roll)
          /\ told' = Told(a, d, body')
          /\ asleep' = IF body'[d].life = "dead" THEN [asleep EXCEPT ![d] = 0] ELSE Woken(d)
          /\ rolled' = [p \in DOMAIN rolled \cup {<<a, d>>} |-> IF p = <<a, d>> THEN roll ELSE rolled[p]]
    BY <1>4 DEF Attack
  <2>2. body[d].hits > 0
    BY <1>2 DEF BodyInv, Hale
  <2>3. /\ body' \in Cast
        /\ \A w \in Everyone \ {d} : \A f \in {"life", "age", "hits", "ill"} : body'[w][f] = body[w][f]
        /\ \A w \in Everyone \ {d} : ~Lives(body, w) => body'[w] = body[w]
        /\ \/ body'[d].life = "active" /\ body'[d].hits > 0 /\ body'[d].ill = body[d].ill
           \/ body'[d].life = "dead" /\ Bare(body'[d])
        /\ Fare(body') <= Fare(body) + Rules.bite + Rules.carcass
    <3>1. /\ Struck(body, a, d, roll) \in Cast
          /\ \A w \in Everyone \ {d} : \A f \in {"life", "age", "hits", "ill"} : Struck(body, a, d, roll)[w][f] = body[w][f]
          /\ \A w \in Everyone \ {d} : ~Lives(body, w) => Struck(body, a, d, roll)[w] = body[w]
          /\ \/ /\ Struck(body, a, d, roll)[d].life = "active" /\ Struck(body, a, d, roll)[d].hits > 0
                /\ Struck(body, a, d, roll)[d].ill = body[d].ill
             \/ /\ Struck(body, a, d, roll)[d].life = "dead" /\ Bare(Struck(body, a, d, roll)[d])
          /\ Fare(Struck(body, a, d, roll)) <= Fare(body) + Rules.bite + Rules.carcass
      BY <1>1, <1>2, <2>2, StruckIs
    <3> QED BY <2>1, <3>1
  <2>4. body[d].life = "active" /\ UNCHANGED <<armed, phase>>
    BY <1>2 DEF Lives, Attack
  <2>5. \A w \in Everyone : asleep'[w] \in 0..SleepFor + 1 /\ (w # d => asleep'[w] = asleep[w])
          /\ (body'[d].life = "dead" => asleep'[d] = 0)
    BY <1>1, <2>1, WokenIs
  <2>6. BodyTypeOK'
    <3>1. body' \in [Everyone -> Being]
      BY <2>3 DEF Cast
    <3>2. asleep' \in [Everyone -> 0..SleepFor + 1]
      <4>1. asleep' = [w \in Everyone |-> asleep'[w]]
        BY <1>1, <2>1, WokenIs
      <4> QED BY <2>5, <4>1
    <3>3. told' \in [Everyone -> Nat]
      <4>1. told \in [Everyone -> Nat]
        BY <1>1 DEF BodyTypeOK
      <4> QED BY <2>1, <4>1 DEF Told
    <3>4. DOMAIN rolled' \subseteq Everyone \X Everyone
      <4>1. DOMAIN rolled' = DOMAIN rolled \cup {<<a, d>>}
        BY <2>1
      <4> QED BY <1>1, <4>1 DEF BodyTypeOK
    <3>5. visited' \subseteq Everyone
      BY <1>1 DEF Attack, BodyTypeOK
    <3> QED BY <1>1, <3>1, <3>2, <3>3, <3>4, <3>5 DEF Attack, BodyTypeOK
  <2>7. \A w \in Everyone \ {d} : body'[w].life = body[w].life /\ body'[w].hits = body[w].hits /\ body'[w].ill = body[w].ill
    BY <2>3
  <2>8. \A w \in Everyone \ {d} : Lives(body', w) <=> Lives(body, w)
    BY <2>7 DEF Lives
  <2>9. Bares(body')
    <3>1. \A w \in Everyone \ {d} : ~Lives(body', w) => Bare(body'[w])
      BY <2>3, <2>8 DEF BodyInv, Bares
    <3>2. ~Lives(body', d) => Bare(body'[d])
      BY <2>3 DEF Lives
    <3> QED BY <3>1, <3>2 DEF Bares
  <2>10. Hale(body')
    <3>1. \A w \in (Everyone \ {Post}) \ {d} : Lives(body', w) => body'[w].hits > 0 /\ body'[w].ill < Lethal
      BY <2>7, <2>8 DEF BodyInv, Hale
    <3>2. Lives(body', d) => body'[d].hits > 0 /\ body'[d].ill < Lethal
      BY <1>2, <2>3 DEF BodyInv, Hale, Lives
    <3> QED BY <3>1, <3>2 DEF Hale
  <2>11. SoundAsleep'
    <3>1. \A w \in Everyone \ {d} : ~Lives(body', w) => asleep'[w] = 0
      BY <2>5, <2>8 DEF BodyInv, SoundAsleep
    <3>2. ~Lives(body', d) => asleep'[d] = 0
      BY <2>3, <2>5 DEF Lives
    <3> QED BY <3>1, <3>2 DEF SoundAsleep
  <2>12. DeathToldOnce'
    <3> SUFFICES ASSUME armed PROVE \A w \in Everyone : told'[w] = (IF body'[w].life = "dead" THEN 1 ELSE 0)
      BY <2>4 DEF DeathToldOnce
    <3>1. phase = "deeds"
      BY DEF MayAct
    <3>2. told \in [Everyone -> Nat] /\ \A w \in Everyone : told[w] = (IF body[w].life = "dead" THEN 1 ELSE 0)
      BY <1>1 DEF BodyInv, BodyTypeOK, DeathToldOnce
    <3>3. told' = IF body'[d].life = "dead" THEN [told EXCEPT ![d] = told[d] + 1] ELSE told
      BY <2>1, <3>1 DEF Told
    <3>4. told[d] = 0
      BY <2>4, <3>2
    <3>5. told'[d] = (IF body'[d].life = "dead" THEN 1 ELSE 0)
      BY <3>2, <3>3, <3>4
    <3>6. \A w \in Everyone \ {d} : told'[w] = told[w]
      BY <3>2, <3>3
    <3> QED BY <2>7, <3>2, <3>5, <3>6
  <2>13. Outlives(body, body')
    BY <2>3, <2>4, <2>7 DEF Outlives
  <2>14. KillsMakeNothing
    BY <2>3 DEF KillsMakeNothing
  <2> QED BY <2>6, <2>9, <2>10, <2>11, <2>12, <2>13, <2>14, LawfulOf
<1> QED BY <1>3, <1>4

LEMMA StrikeSteps ==
  ASSUME BodyInv, NEW a \in Everyone, NEW d \in Everyone, Strike(a, d), deeds < MaxDeeds, deeds' = deeds + 1
  PROVE  Lawful
BY AttackSteps DEF Strike

LEMMA ProwlSteps ==
  ASSUME BodyInv, NEW a \in Everyone, Prowl(a), deeds < MaxDeeds, deeds' = deeds + 1
  PROVE  Lawful
<1>1. PICK d \in Prey(a) : Attack(a, d)
  BY DEF Prowl
<1>2. d \in Everyone
  BY DEF Prey, AtHand, Everyone
<1> QED BY <1>1, <1>2, AttackSteps DEF Prowl

-----------------------------------------------------------------------------
(* The end of a tick: the illness the passes leave buries the sick, and    *)
(* age the old of those left, so that nobody is buried twice.              *)
LEMMA DuskSteps ==
  ASSUME BodyInv, Dusk
  PROVE  Lawful
<1> DEFINE spent == Worn(body)
           sick == Sick(spent)
           culled == Buried(spent, sick)
           aged == Old(culled)
<1>1. /\ body' = Buried(culled, aged)
      /\ told' = [w \in Everyone |-> told[w] + (IF w \in sick THEN 1 ELSE 0) + (IF w \in aged THEN 1 ELSE 0)]
      /\ asleep' = [w \in Everyone |-> IF w \in sick \cup aged THEN 0 ELSE asleep[w]]
  BY DEF Dusk
<1>2. /\ BodyTypeOK /\ body \in Cast /\ asleep \in [Everyone -> 0..SleepFor + 1] /\ told \in [Everyone -> Nat]
      /\ SleepFor \in Nat /\ MaxDeeds \in Nat /\ Lethal \in Nat
  BY CastIs, Amounts DEF BodyInv, BodyTypeOK
<1>3. /\ spent \in Cast
      /\ \A w \in Everyone : \A f \in {"life", "age", "hits"} : spent[w][f] = body[w][f]
      /\ \A w \in Everyone : ~Lives(body, w) /\ Bare(body[w]) => Bare(spent[w])
      /\ Fare(spent) <= Fare(body)
  BY <1>2, WornIs
<1>4. sick \subseteq Everyone /\ \A w \in sick : Lives(spent, w)
  BY DEF Sick
<1>5. \A w \in Everyone \ {Post} : w \notin sick /\ Lives(spent, w) => spent[w].ill < Lethal
  <2>1. \A w \in Everyone : spent[w].ill \in Nat
    BY <1>3, BeingIs DEF Cast
  <2> HIDE DEF spent
  <2> QED BY <1>2, <2>1 DEF Sick
<1> HIDE DEF spent, sick
<1>6. /\ culled \in Cast
      /\ \A w \in sick : culled[w].life = "dead" /\ Bare(culled[w])
      /\ \A w \in Everyone \ sick : \A f \in {"life", "age", "hits", "wound", "ill"} : culled[w][f] = spent[w][f]
      /\ \A w \in Everyone \ sick : ~Lives(spent, w) => culled[w] = spent[w]
      /\ Fare(culled) <= Fare(spent)
  BY <1>3, <1>4, BuriedIs
<1>7. aged \subseteq Everyone /\ \A w \in aged : Lives(culled, w)
  BY DEF Old
<1> HIDE DEF culled, aged
<1>8. /\ body' \in Cast
      /\ \A w \in aged : body'[w].life = "dead" /\ Bare(body'[w])
      /\ \A w \in Everyone \ aged : \A f \in {"life", "age", "hits", "wound", "ill"} : body'[w][f] = culled[w][f]
      /\ \A w \in Everyone \ aged : ~Lives(culled, w) => body'[w] = culled[w]
      /\ Fare(body') <= Fare(culled)
  BY <1>1, <1>6, <1>7, BuriedIs
<1>9. sick \cap aged = {}
  BY <1>6, <1>7 DEF Lives
<1>10. \A w \in sick \cup aged : Lives(body, w)
  <2>1. \A w \in sick : Lives(body, w)
    BY <1>3, <1>4 DEF Lives
  <2>2. \A w \in aged : Lives(body, w)
    BY <1>3, <1>6, <1>7, <1>9 DEF Lives
  <2> QED BY <2>1, <2>2
<1>11. \A w \in sick \cup aged : body'[w].life = "dead" /\ Bare(body'[w])
  <2>1. \A w \in sick : body'[w] = culled[w]
    BY <1>4, <1>6, <1>8, <1>9 DEF Lives
  <2> QED BY <1>6, <1>8, <2>1
<1>12. ASSUME NEW w \in Everyone \ (sick \cup aged)
       PROVE  /\ body'[w].life = body[w].life /\ body'[w].hits = body[w].hits /\ body'[w].ill = spent[w].ill
              /\ ~Lives(body, w) => body'[w] = spent[w]
  <2>1. body'[w].life = culled[w].life /\ body'[w].hits = culled[w].hits /\ body'[w].ill = culled[w].ill
    BY <1>8
  <2>2. culled[w].life = spent[w].life /\ culled[w].hits = spent[w].hits /\ culled[w].ill = spent[w].ill
    BY <1>6
  <2>3. spent[w].life = body[w].life /\ spent[w].hits = body[w].hits
    BY <1>3
  <2>4. ~Lives(body, w) => body'[w] = spent[w]
    BY <1>6, <1>8, <2>2, <2>3 DEF Lives
  <2> QED BY <2>1, <2>2, <2>3, <2>4
<1>13. BodyTypeOK'
  <2>1. body' \in [Everyone -> Being]
    BY <1>8 DEF Cast
  <2>2. asleep' \in [Everyone -> 0..SleepFor + 1]
    <3>1. \A w \in Everyone : (IF w \in sick \cup aged THEN 0 ELSE asleep[w]) \in 0..SleepFor + 1
      BY <1>2
    <3> QED BY <1>1, <3>1
  <2>3. told' \in [Everyone -> Nat]
    <3>1. \A w \in Everyone : told[w] + (IF w \in sick THEN 1 ELSE 0) + (IF w \in aged THEN 1 ELSE 0) \in Nat
      BY <1>2
    <3> QED BY <1>1, <3>1
  <2>4. due' \in BOOLEAN /\ deeds' \in 0..MaxDeeds /\ DOMAIN rolled' \subseteq Everyone \X Everyone
    BY <1>2 DEF Dusk, BodyTypeOK
  <2> QED BY <1>2, <2>1, <2>2, <2>3, <2>4 DEF Dusk, BodyTypeOK
<1>14. Bares(body') /\ SoundAsleep'
  <2>1. ASSUME NEW w \in Everyone, ~Lives(body', w)
        PROVE  Bare(body'[w]) /\ asleep'[w] = 0
    <3>1. CASE w \in sick \cup aged
      BY <1>1, <1>11, <3>1
    <3>2. CASE w \notin sick \cup aged
      <4>1. ~Lives(body, w)
        BY <1>12, <2>1, <3>2 DEF Lives
      <4>2. Bare(body[w]) /\ asleep[w] = 0
        BY <4>1 DEF BodyInv, Bares, SoundAsleep
      <4> QED BY <1>1, <1>3, <1>12, <3>2, <4>1, <4>2
    <3> QED BY <3>1, <3>2
  <2> QED BY <2>1 DEF Bares, SoundAsleep
<1>15. Hale(body')
  <2> SUFFICES ASSUME NEW w \in Everyone \ {Post}, Lives(body', w)
               PROVE  body'[w].hits > 0 /\ body'[w].ill < Lethal
    BY DEF Hale
  <2>1. w \notin sick \cup aged
    BY <1>11 DEF Lives
  <2>2. Lives(body, w) /\ Lives(spent, w)
    BY <1>3, <1>12, <2>1 DEF Lives
  <2>3. body[w].hits > 0
    BY <2>2 DEF BodyInv, Hale
  <2> QED BY <1>5, <1>12, <2>1, <2>2, <2>3
<1>16. DeathToldOnce'
  <2> SUFFICES ASSUME armed, NEW w \in Everyone PROVE told'[w] = (IF body'[w].life = "dead" THEN 1 ELSE 0)
    BY DEF DeathToldOnce, Dusk
  <2>1. told[w] = (IF body[w].life = "dead" THEN 1 ELSE 0)
    BY DEF BodyInv, DeathToldOnce
  <2>2. told'[w] = told[w] + (IF w \in sick THEN 1 ELSE 0) + (IF w \in aged THEN 1 ELSE 0)
    BY <1>1
  <2>3. CASE w \in sick \cup aged
    <3>1. body[w].life = "active" /\ body'[w].life = "dead"
      BY <1>10, <1>11, <2>3 DEF Lives
    <3> QED BY <1>9, <2>1, <2>2, <2>3, <3>1
  <2>4. CASE w \notin sick \cup aged
    <3>1. body'[w].life = body[w].life
      BY <1>12, <2>4
    <3> QED BY <2>1, <2>2, <2>4, <3>1
  <2> QED BY <2>3, <2>4
<1>17. Outlives(body, body')
  <2> SUFFICES ASSUME NEW w \in Everyone
               PROVE  body'[w].life = body[w].life \/ (body[w].life = "active" /\ body'[w].life = "dead")
    BY DEF Outlives
  <2> QED BY <1>10, <1>11, <1>12 DEF Lives
<1>18. KillsMakeNothing
  <2>1. Fare(body) \in Nat /\ Fare(spent) \in Nat /\ Fare(culled) \in Nat /\ Fare(body') \in Nat
    BY <1>2, <1>3, <1>6, <1>8, LarderIs
  <2>2. Fare(body') <= Fare(body)
    BY <1>3, <1>6, <1>8, <2>1
  <2> QED BY <1>8, <2>2, NoMoreFood
<1> QED BY <1>13, <1>14, <1>15, <1>16, <1>17, <1>18, LawfulOf

-----------------------------------------------------------------------------
LEMMA BodyStarts ==
  ASSUME BodyInit
  PROVE  BodyInv
<1> DEFINE born(w) == [Creature("active", Stat[Kind(w)].hits, 0) EXCEPT !.age = IF w \in Aging THEN 0 ELSE -1]
           no == Creature("unborn", 0, 0)
<1>1. body = [w \in Everyone |-> IF w \in Beasts THEN no ELSE born(w)]
  BY DEF BodyInit
<1>2. 0 \in 0..Cap.food /\ 0 \in 0..Cap.torch /\ 0 \in 0..Cap.wound /\ -1 \in -1..Lifespan /\ 0 \in -1..Lifespan
        /\ 0 < Lethal /\ Lethal \in Nat
  BY Amounts
<1>3. no \in Being /\ no.life = "unborn" /\ Bare(no)
  <2>1. no = Made("unborn", -1, 0, 0, 0, 0, 0)
    BY DEF Creature, Made
  <2>2. Made("unborn", -1, 0, 0, 0, 0, 0) \in Being
    BY <1>2, MadeIs
  <2> QED BY <2>1, <2>2 DEF Made, Bare
<1>4. ASSUME NEW w
      PROVE  born(w) \in Being /\ born(w).life = "active" /\ born(w).hits = Stat[Kind(w)].hits /\ born(w).ill = 0
  <2> DEFINE age == IF w \in Aging THEN 0 ELSE -1
  <2>1. Stat[Kind(w)].hits \in Nat /\ age \in -1..Lifespan
    BY <1>2, KindsAre
  <2>2. born(w) = Made("active", age, Stat[Kind(w)].hits, 0, 0, 0, 0)
    BY DEF Creature, Made
  <2> HIDE DEF age, born
  <2>3. Made("active", age, Stat[Kind(w)].hits, 0, 0, 0, 0) \in Being
    BY <1>2, <2>1, MadeIs
  <2> QED BY <2>1, <2>2, <2>3 DEF Made
<1> HIDE DEF no, born
<1>5. \A w \in Everyone : body[w] \in Being
  BY <1>1, <1>3, <1>4
<1>6. \A w \in Everyone : w \in Beasts => body[w] = no
  BY <1>1
<1>7. \A w \in Everyone : w \notin Beasts => body[w] = born(w)
  BY <1>1
<1>8. BodyTypeOK
  <2>1. body \in [Everyone -> Being]
    BY <1>1, <1>5
  <2>2. place \in [Everyone -> Ground]
    BY BodyAssumption DEF BodyInit
  <2>3. asleep \in [Everyone -> 0..SleepFor + 1] /\ told \in [Everyone -> Nat]
    BY Amounts DEF BodyInit
  <2>4. hour \in 0..Day - 1 /\ deeds \in 0..MaxDeeds
    BY Amounts DEF BodyInit
  <2>5. DOMAIN rolled \subseteq Everyone \X Everyone
    BY DEF BodyInit
  <2> QED BY <2>1, <2>2, <2>3, <2>4, <2>5 DEF BodyInit, BodyTypeOK
<1>9. Bares(body)
  BY <1>3, <1>4, <1>6, <1>7 DEF Bares, Lives
<1>10. Hale(body)
  <2> SUFFICES ASSUME NEW w \in Everyone \ {Post}, Lives(body, w)
               PROVE  body[w].hits > 0 /\ body[w].ill < Lethal
    BY DEF Hale
  <2>1. w \notin Beasts
    BY <1>3, <1>6 DEF Lives
  <2>2. Stat[Kind(w)].hits > 0
    BY KindsAre
  <2> QED BY <1>2, <1>4, <1>7, <2>1, <2>2
<1>11. SoundAsleep
  BY DEF BodyInit, SoundAsleep
<1>12. DeathToldOnce
  <2>1. \A w \in Everyone : body[w].life # "dead"
    BY <1>3, <1>4, <1>6, <1>7
  <2>2. \A w \in Everyone : told[w] = 0
    BY DEF BodyInit
  <2> QED BY <2>1, <2>2 DEF DeathToldOnce
<1>13. BornInOrder(body)
  <2>1. EverBorn(body) = {}
    BY <1>3, <1>6 DEF EverBorn, Everyone
  <2>2. 0 \in 0..Len(Names) /\ {Names[i] : i \in 1..0} = {}
    BY EveryoneFinite
  <2> DEFINE first(k) == {Names[i] : i \in 1..k}
  <2>3. EverBorn(body) = first(0)
    BY <2>1, <2>2
  <2>4. \E m \in 0..Len(Names) : EverBorn(body) = first(m)
    <3> HIDE DEF first
    <3> QED BY <2>2, <2>3
  <2> QED BY <2>4 DEF BornInOrder
<1> QED BY <1>8, <1>9, <1>10, <1>11, <1>12, <1>13 DEF BodyInv

LEMMA BodySteps ==
  ASSUME BodyInv, BodyNext
  PROVE  Lawful
<1>1. CASE Dawn
  BY <1>1, DawnSteps
<1>2. CASE Dusk
  BY <1>2, DuskSteps
<1>3. CASE Renew
  BY <1>3, RenewSteps
<1>4. ASSUME deeds < MaxDeeds, deeds' = deeds + 1, NEW a \in Everyone, NEW d \in Everyone, Strike(a, d)
      PROVE  Lawful
  BY <1>4, StrikeSteps
<1>5. ASSUME deeds < MaxDeeds, deeds' = deeds + 1, NEW w \in Everyone, Prowl(w) \/ Say(w) \/ Sleep(w) \/ Gain(w)
      PROVE  Lawful
  BY <1>5, ProwlSteps, SaySteps, SleepSteps, GainSteps
<1> QED BY <1>1, <1>2, <1>3, <1>4, <1>5 DEF BodyNext

LEMMA BodyStutters ==
  ASSUME BodyInv, UNCHANGED bodyVars
  PROVE  BodyInv'
<1>1. BodyTypeOK'
  BY DEF bodyVars, BodyInv, BodyTypeOK
<1>2. SoundAsleep'
  BY DEF bodyVars, BodyInv, SoundAsleep, Lives
<1>3. UNCHANGED <<body, told, armed>>
  BY DEF bodyVars
<1> QED BY <1>1, <1>2, <1>3, BodiesRest DEF Lawful

LEMMA BodyKeepsItsInvariant == BodySpec => []BodyInv
<1>1. BodyInit => BodyInv
  BY BodyStarts
<1>2. BodyInv /\ [BodyNext]_bodyVars => BodyInv'
  BY BodySteps, BodyStutters DEF Lawful
<1> QED BY <1>1, <1>2, PTL DEF BodySpec

(* Every body is of its type throughout: no deed of the night and no pass  *)
(* of a tick leaves a holding above its cap or a counter below zero        *)
(* (combat.py, needs.py, conditions.py, threats.py, goods.py).             *)
THEOREM BodyTypes == BodySpec => []BodyTypeOK
<1>1. BodyInv => BodyTypeOK
  BY DEF BodyInv
<1> QED BY <1>1, BodyKeepsItsInvariant, PTL

(* A death is final: the body is emptied and stays so, one event tells of  *)
(* it, the name is given to no other, and a kill makes no more food than   *)
(* its bite and its carcass (_incapacitate, resolve_attack, run_tick and   *)
(* ever_count), whoever dies with whom and whoever inherits.               *)
THEOREM DeathIsFinalHolds == BodySpec => DeathIsFinal
<1> DEFINE A == BodyTypeOK' /\ TheBodySettles' /\ DeathToldOnce' /\ NobodyRises /\ KillsMakeNothing
<1>1. BodyInv => TheBodySettles
  BY SettlesOf
<1>2. ASSUME BodyInv, BodyNext, BodyInv', TheBodySettles' PROVE A
  BY <1>2, BodySteps DEF Lawful, BodyInv
<1> HIDE DEF A
<1>3. BodyInv /\ BodyInv' /\ TheBodySettles' /\ [BodyNext]_bodyVars => [A]_bodyVars
  BY <1>2
<1>4. BodySpec => [][A]_bodyVars
  BY <1>1, <1>3, BodyKeepsItsInvariant, PTL DEF BodySpec
<1> QED BY <1>4 DEF DeathIsFinal, A

(* The seed of a sleep's outcome.  It is drawn in the tick before the one  *)
(* the sleep ends with, so between ticks the seeded are the sleepers with  *)
(* nothing to go but the next tick, and while intents are resolved there   *)
(* are none.                                                               *)
SeedInv ==
  /\ phase = "deeds" => seeded = {}
  /\ phase = "idle" => \A w \in Everyone : asleep[w] = 1 => w \in seeded
  /\ \A w \in seeded : body[w].life # "unborn"
  /\ NoOutcomeIsDodged

LEMMA StillAlive ==
  ASSUME NobodyRises, NEW w \in Everyone, body[w].life # "unborn"
  PROVE  body'[w].life # "unborn" /\ (Lives(body', w) => Lives(body, w))
BY DEF NobodyRises, Lives

LEMMA SeedsRest ==
  ASSUME BodyTypeOK, SeedInv, NobodyRises, UNCHANGED <<asleep, seeded, visited, phase>>
  PROVE  SeedInv'
<1>1. seeded \subseteq Everyone
  BY DEF BodyTypeOK
<1>2. \A w \in seeded' : body'[w].life # "unborn" /\ (Lives(body', w) => asleep'[w] = 1)
  BY <1>1, StillAlive DEF SeedInv, NoOutcomeIsDodged
<1>3. NoOutcomeIsDodged'
  BY <1>2 DEF SeedInv, NoOutcomeIsDodged, Lives
<1> QED BY <1>2, <1>3 DEF SeedInv

(* An attempt: what is not seeded has time to go and is cancelled, what is *)
(* seeded has none.                                                        *)
LEMMA AttackSeeds ==
  ASSUME BodyTypeOK, SeedInv, NobodyRises, NEW a \in Everyone, NEW d \in Everyone, Attack(a, d)
  PROVE  SeedInv'
<1>1. /\ asleep \in [Everyone -> 0..SleepFor + 1] /\ seeded \subseteq Everyone /\ visited \subseteq Everyone
      /\ phase \in {"idle", "deeds"} /\ asleep[d] \in Nat
  BY Amounts DEF BodyTypeOK
<1>2. UNCHANGED <<phase, seeded>>
  BY DEF Attack
<1>3. asleep' = Woken(d) \/ (asleep' = [asleep EXCEPT ![d] = 0] /\ body'[d].life = "dead")
  BY DEF Attack
<1>4. \A w \in Everyone \ {d} : asleep'[w] = asleep[w]
  BY <1>1, <1>3, WokenIs
<1>5. asleep'[d] = 0 \/ (asleep'[d] = asleep[d] /\ ~(ToGo(d) > 0))
  BY <1>1, <1>3, WokenIs
<1>6. ASSUME NEW w \in seeded
      PROVE  body'[w].life # "unborn" /\ (Lives(body', w) => asleep'[w] = 1)
  <2>1. w \in Everyone /\ body'[w].life # "unborn" /\ (Lives(body', w) => asleep[w] = 1)
    BY <1>1, StillAlive DEF SeedInv, NoOutcomeIsDodged
  <2>2. CASE w = d /\ Lives(body', d)
    <3>1. asleep[d] = 1 /\ phase = "idle"
      BY <1>1, <2>1, <2>2 DEF SeedInv
    <3>2. asleep' = Woken(d) /\ ~(ToGo(d) > 0)
      BY <1>3, <2>2, <3>1 DEF Lives, ToGo
    <3> QED BY <2>1, <2>2, <3>1, <3>2, WokenIs
  <2> QED BY <1>4, <2>1, <2>2
<1>7. ASSUME NEW w \in visited'
      PROVE  asleep'[w] = 0
  <2>1. CASE w \in visited
    <3>1. asleep[w] = 0 /\ w \in Everyone
      BY <1>1, <2>1 DEF SeedInv, NoOutcomeIsDodged
    <3> QED BY <1>4, <1>5, <3>1
  <2>2. CASE w \notin visited
    <3>1. w = d /\ asleep[d] > 0 /\ d \notin seeded
      BY <1>7, <2>2 DEF Attack
    <3>2. phase = "idle" => asleep[d] # 1
      BY <3>1 DEF SeedInv
    <3>3. ToGo(d) > 0
      BY <1>1, <3>1, <3>2 DEF ToGo
    <3> QED BY <1>5, <3>1, <3>3
  <2> QED BY <2>1, <2>2
<1>8. NoOutcomeIsDodged'
  BY <1>2, <1>6, <1>7 DEF NoOutcomeIsDodged, Lives
<1>9. \A w \in Everyone : asleep'[w] = 1 => asleep[w] = 1
  BY <1>4, <1>5
<1> QED BY <1>2, <1>6, <1>8, <1>9 DEF SeedInv

LEMMA SleepSeeds ==
  ASSUME BodyTypeOK, SeedInv, NobodyRises, NEW v \in Everyone, Sleep(v)
  PROVE  SeedInv'
<1>1. /\ asleep \in [Everyone -> 0..SleepFor + 1] /\ seeded \subseteq Everyone
      /\ visited \subseteq Everyone /\ SleepFor \in Nat \ {0}
  BY Amounts DEF BodyTypeOK
<1>2. UNCHANGED <<phase, seeded, body>> /\ Lives(body, v) /\ asleep[v] = 0 /\ visited' = visited \ {v}
  BY DEF Sleep
<1>3. v \notin seeded
  BY <1>2 DEF SeedInv, NoOutcomeIsDodged
<1>4. asleep'[v] = SleepFor + (IF phase = "idle" THEN 1 ELSE 0) /\ \A w \in Everyone \ {v} : asleep'[w] = asleep[w]
  BY <1>1 DEF Sleep
<1>5. NoOutcomeIsDodged'
  BY <1>1, <1>2, <1>3, <1>4 DEF SeedInv, NoOutcomeIsDodged, Lives
<1>6. phase = "idle" => asleep'[v] # 1
  BY <1>1, <1>4
<1> QED BY <1>1, <1>2, <1>4, <1>5, <1>6 DEF SeedInv

LEMMA TurnSeeds ==
  ASSUME BodyTypeOK, SeedInv, BodyInv', Dawn \/ Dusk
  PROVE  SeedInv'
<1>1. asleep \in [Everyone -> 0..SleepFor + 1] /\ visited \subseteq Everyone
  BY DEF BodyTypeOK
<1>2. \A w \in Everyone : asleep[w] = 0 => asleep'[w] = 0
  BY DEF Dawn, Dusk
<1>3. UNCHANGED visited
  BY DEF Dawn, Dusk
<1>4. \A w \in visited' : asleep'[w] = 0
  BY <1>1, <1>2, <1>3 DEF SeedInv, NoOutcomeIsDodged
<1>5. CASE Dawn
  <2>1. seeded' = {} /\ phase' = "deeds"
    BY <1>5 DEF Dawn
  <2> QED BY <1>4, <2>1 DEF SeedInv, NoOutcomeIsDodged
<1>6. CASE Dusk
  <2>1. seeded' = {w \in Everyone : asleep'[w] = 1} /\ phase' = "idle"
    BY <1>6 DEF Dusk
  <2>2. \A w \in Everyone : ~Lives(body', w) => asleep'[w] = 0
    BY DEF BodyInv, SoundAsleep, Lives
  <2>3. \A w \in seeded' : body'[w].life # "unborn"
    BY <2>1, <2>2 DEF Lives
  <2>4. NoOutcomeIsDodged'
    BY <1>4, <2>1 DEF NoOutcomeIsDodged
  <2> QED BY <2>1, <2>3, <2>4 DEF SeedInv
<1> QED BY <1>5, <1>6

LEMMA SeedSteps ==
  ASSUME BodyInv, BodyInv', SeedInv, BodyNext
  PROVE  SeedInv'
<1>1. BodyTypeOK /\ NobodyRises
  BY BodySteps DEF BodyInv, Lawful
<1>2. CASE Dawn \/ Dusk
  BY <1>1, <1>2, TurnSeeds
<1>3. CASE Renew
  BY <1>1, <1>3, SeedsRest DEF Renew
<1>4. ASSUME NEW a \in Everyone, NEW d \in Everyone, Strike(a, d)
      PROVE  SeedInv'
  BY <1>1, <1>4, AttackSeeds DEF Strike
<1>5. ASSUME NEW w \in Everyone, Prowl(w)
      PROVE  SeedInv'
  <2>1. PICK d \in Prey(w) : Attack(w, d)
    BY <1>5 DEF Prowl
  <2>2. d \in Everyone
    BY DEF Prey, AtHand
  <2> QED BY <1>1, <2>1, <2>2, AttackSeeds
<1>6. ASSUME NEW w \in Everyone, Say(w) \/ Gain(w)
      PROVE  SeedInv'
  BY <1>1, <1>6, SeedsRest DEF Say, Gain
<1>7. ASSUME NEW w \in Everyone, Sleep(w)
      PROVE  SeedInv'
  BY <1>1, <1>7, SleepSeeds
<1> QED BY <1>2, <1>3, <1>4, <1>5, <1>6, <1>7 DEF BodyNext

(* No outcome is dodged, and nobody sleeps on: an attempt, whether it      *)
(* lands, misses or is turned away by a light, ends every sleep whose seed *)
(* is not drawn and none whose seed is, which is the commitment of rng.py, *)
(* whatever the length of the sleep and of the day and whether the world   *)
(* clock parks intents or not.                                             *)
THEOREM NoOutcomeIsDodgedHolds == BodySpec => []NoOutcomeIsDodged
<1>1. BodyInit => SeedInv
  BY DEF BodyInit, SeedInv, NoOutcomeIsDodged
<1>2. ASSUME BodyInv, BodyInv', SeedInv, [BodyNext]_bodyVars
      PROVE  SeedInv'
  <2>1. CASE UNCHANGED bodyVars
    <3>1. NobodyRises /\ UNCHANGED <<asleep, seeded, visited, phase>>
      BY <2>1 DEF bodyVars, NobodyRises
    <3> QED BY <1>2, <3>1, SeedsRest DEF BodyInv
  <2> QED BY <1>2, <2>1, SeedSteps
<1>3. SeedInv => NoOutcomeIsDodged
  BY DEF SeedInv
<1> QED BY <1>1, <1>2, <1>3, BodyKeepsItsInvariant, PTL DEF BodySpec
=============================================================================
