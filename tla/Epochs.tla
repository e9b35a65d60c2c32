------------------------------- MODULE Epochs -------------------------------
(***************************************************************************)
(* Dynasties, epochs and the victory observer: econ/api/epochs.py, called  *)
(* by the rounds of econ/api/rounds.py, with the doors by which an entity  *)
(* enters a dynasty: POST /join, POST /entities and a spawn.               *)
(*                                                                         *)
(* A round runs its K ticks, the observer after each, and closes with the  *)
(* extinction scan in one transaction; a heartbeat of the world clock is   *)
(* one tick, the observer and, at a multiple of K, the closing; a raw tick *)
(* runs no observer.  Requests are answered in two steps where they read   *)
(* before they hold the write lock.  While a round holds it they read the  *)
(* state before the round, as if they had asked before it.                 *)
(***************************************************************************)
EXTENDS Integers, FiniteSets, Bags, Totals

CONSTANTS
  User,
  Conditions,   \* victory conditions the operator may declare
  K,            \* ticks_per_round
  ActiveCap, OwnerCap,  \* ECON_MAX_ACTIVE_ENTITIES and _PER_OWNER
  Endowment,    \* of the join config
  Wild,         \* how many creatures are ACTIVE and nobody's
  MaxTick, MaxEntities, MaxEpochs, MaxMoney  \* bounds

ASSUME EpochsAssumption ==
  /\ K \in Nat \ {0} /\ MaxTick \in Nat /\ MaxEntities \in Nat /\ MaxEpochs \in Nat
  /\ MaxMoney \in Nat /\ Wild \in Nat /\ Endowment \in 0..MaxMoney
  /\ \A c \in Conditions : c.code \in {"accumulate", "endure", "grow"} /\ c.at \in Nat \ {0}

VARIABLES
  tick,       \* ticks committed or run by the round
  entities,   \* a bag of rows: owner, birth, died (0 while ACTIVE), money
  epoch,      \* the epoch.state register
  stamps,     \* the victory.stamps register
  gone,       \* the epoch.eliminations register
  batch,      \* what holds the write lock: "none", or the ticks a round has left
  closed,     \* the last tick of the last round closed
  asked,      \* users whose join has passed its checks and is not written
  desk,       \* the operator's request: what it read before it writes
  begun       \* history: the tick at which the running epoch was written

vars == <<tick, entities, epoch, stamps, gone, batch, closed, asked, desk, begun>>

NoEpoch == [number |-> 0, condition |-> [code |-> "none", at |-> 0], started |-> 0, ended |-> 0, winners |-> {}]
NoDesk == [op |-> "none"]
Running(ep) == ep.number > 0 /\ ep.ended < 0
Owned(es, u) == {e \in DOMAIN es : e.owner = u}
Living(es, u) == {e \in Owned(es, u) : e.died = 0}
Active(es) == {e \in DOMAIN es : e.died = 0}
Rows(es, S) == Total(es, S)

Init ==
  /\ tick = 0 /\ closed = 0 /\ batch = 0
  /\ entities = EmptyBag
  /\ epoch = NoEpoch
  /\ stamps = {} /\ gone = {}
  /\ asked = {} /\ desk = NoDesk /\ begun = 0

-----------------------------------------------------------------------------
(* The observer and the scan.                                              *)

Money(es, u) == Total([e \in DOMAIN es |-> es[e] * e.money], Living(es, u))
Size(es, u) == Rows(es, Living(es, u))

Crosses(es, ep, u, t) ==
  CASE ep.condition.code = "accumulate" -> Money(es, u) >= ep.condition.at
    [] ep.condition.code = "endure" -> t - ep.started >= ep.condition.at
    [] ep.condition.code = "grow" -> Size(es, u) >= ep.condition.at

Candidates(es) == {u \in User : Living(es, u) # {}}

(* Mutant: one crosser is stamped, the first in the order of the users.    *)
CrossersFirst(es, ep, t) ==
  LET all == {u \in Candidates(es) : Crosses(es, ep, u, t)}
  IN  IF all = {} THEN {} ELSE {CHOOSE u \in all : TRUE}

Crossers(es, ep, t) == {u \in Candidates(es) : Crosses(es, ep, u, t)}

Judges(ep, t) == Running(ep) /\ t > ep.started

(* Mutant: the stamps are made and the epoch goes on.                      *)
SealedNot(ep, won, t) == [ep EXCEPT !.winners = won]

Sealed(ep, won, t) == [ep EXCEPT !.ended = t, !.winners = won]

(* observe_tick: everyone who crosses at this tick is stamped, and the     *)
(* epoch ends with it.                                                     *)
Observe(es, t) ==
  LET won == IF Judges(epoch, t) THEN Crossers(es, epoch, t) ELSE {} IN
  IF won = {} THEN UNCHANGED <<epoch, stamps>>
  ELSE /\ epoch' = Sealed(epoch, won, t)
       /\ stamps' = stamps \union {[epoch |-> epoch.number, user |-> u, tick |-> t] : u \in won}

(* Mutant: only who was born in the epoch took part in it.                 *)
TookPartBorn(es, u, ep) == \E e \in Owned(es, u) : e.birth > ep.started

(* Took part: an entity was born or died after the epoch began.            *)
TookPart(es, u, ep) == \E e \in Owned(es, u) : e.died > ep.started \/ e.birth > ep.started

Extinct(es, ep) ==
  {u \in User : /\ Owned(es, u) # {} /\ Living(es, u) = {} /\ TookPart(es, u, ep)
                /\ ~\E g \in gone : g.user = u /\ g.epoch = ep.number}

(* _close_round's scan, of the epoch the observer has left.                *)
Scan(t) ==
  /\ closed' = t
  /\ gone' = IF Running(epoch') THEN gone \union {[epoch |-> epoch'.number, user |-> u, tick |-> t] :
                                                        u \in Extinct(entities', epoch')}
                                ELSE gone

-----------------------------------------------------------------------------
(* What a tick does to dynasties: nothing, or one of these.                *)

Row(u, t, m) == [owner |-> u, birth |-> t, died |-> 0, money |-> m]
Born(es, e) == es (+) SetToBag({e})
Changed(es, e, f) == (es (-) SetToBag({e})) (+) SetToBag({f})

CapsAllow(es, u) == Wild + Rows(es, Active(es)) < ActiveCap /\ Rows(es, Owned(es, u)) < OwnerCap
Room == Rows(entities, DOMAIN entities) < MaxEntities

Idle == batch = 0

(* Is anyone alive, whoever's.                                             *)
Alive(es) == Wild > 0 \/ Active(es) # {}

(* A caller spawns a child for its own dynasty or, naming one, another's.  *)
Spawned(es, t) ==
  {Born(es, Row(u, t, 0)) : u \in {v \in User : Alive(es) /\ CapsAllow(es, v) /\ Room}}

Died(es, t) == {Changed(es, e, [e EXCEPT !.died = t, !.money = 0]) : e \in Active(es)}
Earned(es) == {Changed(es, e, [e EXCEPT !.money = @ + 1]) : e \in {f \in Active(es) : f.money < MaxMoney}}

(* Mutant: a balance is not asked for before it is drawn on.               *)
SpentOverdrawn(es) == {Changed(es, e, [e EXCEPT !.money = @ - 1]) : e \in Active(es)}

Spent(es) == {Changed(es, e, [e EXCEPT !.money = @ - 1]) : e \in {f \in Active(es) : f.money > 0}}
After(es, t) == {es} \union Spawned(es, t) \union Died(es, t) \union Earned(es) \union Spent(es)

-----------------------------------------------------------------------------
(* Ticks.                                                                  *)

(* A round begins: the operator's advance, the final ready or the deadline.*)
BeginRound ==
  /\ Idle /\ tick + K <= MaxTick
  /\ batch' = K
  /\ UNCHANGED <<tick, entities, epoch, stamps, gone, closed, asked, desk, begun>>

(* One of its ticks, the observer after it, and the closing after the last.*)
RoundTick ==
  /\ batch > 0 /\ batch' = batch - 1 /\ tick' = tick + 1
  /\ entities' \in After(entities, tick + 1)
  /\ Observe(entities', tick + 1)
  /\ IF batch = 1 THEN Scan(tick + 1) ELSE UNCHANGED <<gone, closed>>
  /\ UNCHANGED <<asked, desk, begun>>

(* A heartbeat of the world clock, which a dead world holds.               *)
Heartbeat ==
  /\ Idle /\ Alive(entities) /\ tick < MaxTick /\ tick' = tick + 1
  /\ entities' \in After(entities, tick + 1)
  /\ Observe(entities', tick + 1)
  /\ IF (tick + 1) % K = 0 THEN Scan(tick + 1) ELSE UNCHANGED <<gone, closed>>
  /\ UNCHANGED <<batch, asked, desk, begun>>

(* POST /ticks runs no observer.                                           *)
RawTick ==
  /\ Idle /\ tick < MaxTick /\ tick' = tick + 1
  /\ entities' \in After(entities, tick + 1)
  /\ UNCHANGED <<epoch, stamps, gone, batch, closed, asked, desk, begun>>

-----------------------------------------------------------------------------
(* Requests.                                                               *)

EliminatedNow(u) ==
  Running(epoch) /\ \E g \in gone : g.user = u /\ g.epoch = epoch.number

(* join: the register and the caps are read, and the founder is written    *)
(* when the lock is had; one join at a time is in flight.                  *)
AskJoin(u) ==
  /\ Idle /\ asked = {}
  /\ ~EliminatedNow(u) /\ CapsAllow(entities, u)
  /\ asked' = asked \union {u}
  /\ UNCHANGED <<tick, entities, epoch, stamps, gone, batch, closed, desk, begun>>

AnswerJoin(u) ==
  /\ Idle /\ u \in asked /\ Room
  /\ asked' = asked \ {u}
  /\ entities' = Born(entities, Row(u, tick, Endowment))
  /\ UNCHANGED <<tick, epoch, stamps, gone, batch, closed, desk, begun>>

(* POST /entities, for oneself or by an operator for anybody: no account,  *)
(* no cap, no register.  Asked for here by who has nobody.                 *)
CreateEntity(u) ==
  /\ Idle /\ Room /\ Living(entities, u) = {}
  /\ entities' = Born(entities, Row(u, tick, 0))
  /\ UNCHANGED <<tick, epoch, stamps, gone, batch, closed, asked, desk, begun>>

(* start_epoch and close_epoch: what they read of the register and of the  *)
(* ticks is what they write back.                                          *)
AskStart(c) ==
  /\ batch = 0 /\ desk = NoDesk
  /\ ~Running(epoch) /\ epoch.number < MaxEpochs
  /\ desk' = [op |-> "start", to |-> [number |-> epoch.number + 1, condition |-> c, started |-> tick,
                                      ended |-> -1, winners |-> {}]]
  /\ UNCHANGED <<tick, entities, epoch, stamps, gone, batch, closed, asked, begun>>

AskClose ==
  /\ batch = 0 /\ desk = NoDesk
  /\ Running(epoch)
  /\ desk' = [op |-> "close", to |-> [epoch EXCEPT !.ended = tick]]
  /\ UNCHANGED <<tick, entities, epoch, stamps, gone, batch, closed, asked, begun>>

AnswerOperator ==
  /\ batch = 0 /\ desk # NoDesk
  /\ epoch' = desk.to
  /\ begun' = IF desk.op = "start" THEN tick ELSE begun
  /\ desk' = NoDesk
  /\ UNCHANGED <<tick, entities, stamps, gone, batch, closed, asked>>

Next ==
  \/ BeginRound \/ RoundTick \/ Heartbeat \/ RawTick
  \/ \E u \in User : AskJoin(u) \/ AnswerJoin(u) \/ CreateEntity(u)
  \/ \E c \in Conditions : AskStart(c)
  \/ AskClose \/ AnswerOperator

Spec == Init /\ [][Next]_vars

-----------------------------------------------------------------------------
(* The leaderboard, a read over the same rows.                             *)

Standing(u) ==
  CASE Living(entities, u) # {} -> "active"
    [] Living(entities, u) = {} /\ EliminatedNow(u) -> "eliminated"
    [] Living(entities, u) = {} /\ ~EliminatedNow(u) -> "extinct"

Wins(u) == Cardinality({s \in stamps : s.user = u})

-----------------------------------------------------------------------------
(* Properties.                                                             *)

EpochRow == [number : 0..MaxEpochs, condition : Conditions \union {NoEpoch.condition}, started : 0..MaxTick,
             ended : -1..MaxTick, winners : SUBSET User]
TypeOK ==
  /\ tick \in 0..MaxTick /\ closed \in 0..MaxTick /\ batch \in 0..K
  /\ IsABag(entities) /\ Rows(entities, DOMAIN entities) <= MaxEntities
  /\ DOMAIN entities \subseteq [owner : User, birth : 0..MaxTick, died : 0..MaxTick, money : 0..MaxMoney]
  /\ epoch \in EpochRow
  /\ stamps \subseteq [epoch : 1..MaxEpochs, user : User, tick : 1..MaxTick]
  /\ gone \subseteq [epoch : 1..MaxEpochs, user : User, tick : 1..MaxTick]
  /\ asked \subseteq User /\ begun \in 0..MaxTick
  /\ desk = NoDesk \/ (desk.op \in {"start", "close"} /\ desk.to \in EpochRow)

(* The stamps of the epoch on record are all of one tick after its start.  *)
(* Either its winners are whom they name and it ended at that tick, or the *)
(* operator's close read it as running and was written after the win.      *)
WinOnRecord ==
  LET mine == {s \in stamps : s.epoch = epoch.number} IN
  /\ \A s, r \in mine : s.tick = r.tick /\ s.tick > epoch.started
  /\ \/ {s.user : s \in mine} = epoch.winners /\ \A s \in mine : s.tick = epoch.ended
     \/ epoch.winners = {} /\ epoch.ended >= 0 /\ \A s \in mine : s.tick > epoch.ended

(* A stamp is never taken back, and one is made only of a living dynasty   *)
(* that meets the condition of the epoch that runs, with what it holds     *)
(* when the tick commits.                                                  *)
WinsAreCrossings ==
  /\ stamps \subseteq stamps'
  /\ \A s \in stamps' \ stamps :
       /\ Running(epoch) /\ s.epoch = epoch.number /\ s.tick = tick'
       /\ Living(entities', s.user) # {} /\ Crosses(entities', epoch, s.user, tick')

(* The stamps are the win: a stamp is a crossing the observer saw, and the *)
(* epoch on record is won by whom its stamps name or, where an operator's  *)
(* close was in flight over the win, by nobody.                            *)
StampsAreTheWin == [][WinOnRecord' /\ WinsAreCrossings]_vars

(* A stamp is the win (epochs.py:15), and a close leaves an epoch without  *)
(* a winner (epochs.py:196): so no epoch without a winner is stamped.      *)
StampedIsWon == epoch.winners = {s.user : s \in {r \in stamps : r.epoch = epoch.number}}

(* Whoever died out in the running epoch, before its last round was        *)
(* closed, stands eliminated and not merely extinct: no death falls        *)
(* between two scans, whoever ran the ticks and however late the epoch was *)
(* written that began at an earlier one.                                   *)
DiedOutThisEpoch(u) ==
  /\ Running(epoch) /\ closed > begun
  /\ Owned(entities, u) # {} /\ Living(entities, u) = {}
  /\ \A e \in Owned(entities, u) : e.died <= closed /\ e.birth <= closed
  /\ \E e \in Owned(entities, u) : e.died > epoch.started
ExtinctionIsRecorded ==
  batch = 0 => \A u \in User : DiedOutThisEpoch(u) => Standing(u) = "eliminated"

(* A player is eliminated once in an epoch, at the end of a round, with    *)
(* nobody left, and never in the step that ends the epoch.                 *)
EliminatedOnce ==
  \A g \in gone' \ gone :
    /\ Living(entities', g.user) = {} /\ Running(epoch')
    /\ \A h \in gone' : h # g => <<h.user, h.epoch>> # <<g.user, g.epoch>>

(* The register of the eliminated is true: who died out in the running     *)
(* epoch is in it when the round is closed, once, and nobody else is       *)
(* (scan_eliminations in _close_round).                                    *)
EliminatedInTime == [][ExtinctionIsRecorded' /\ EliminatedOnce]_vars

(* Nobody on the board stands above a winner without winning: when an      *)
(* epoch of fortune or of size is won, every living dynasty that has as    *)
(* much as the least of the winners is a winner of that tick.              *)
NobodyPassedOver ==
  \A s \in stamps' \ stamps : \A u \in User :
    (/\ Standing(u)' = "active"
     /\ CASE epoch.condition.code = "accumulate" -> Money(entities', u) >= Money(entities', s.user)
          [] epoch.condition.code = "grow" -> Size(entities', u) >= Size(entities', s.user)
          [] epoch.condition.code = "endure" -> TRUE)
    => Wins(u)' = Wins(u) + 1
NoRicherLoser == [][NobodyPassedOver]_vars

(* "the eliminated cannot win a *future* crossing" (epochs.py:32)          *)
TheEliminatedNeverWin ==
  \A s \in stamps : \A g \in gone : s.user = g.user => s.epoch # g.epoch
=============================================================================
