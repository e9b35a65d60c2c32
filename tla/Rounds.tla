------------------------------- MODULE Rounds -------------------------------
(***************************************************************************)
(* Rounds, readiness and the clocks (econ/api/rounds.py, main.py and the   *)
(* routers of rounds and ticks) over one database.                         *)
(*                                                                         *)
(* A request runs in a session of its own.  Under SQLite a SELECT before   *)
(* the first write takes no lock and sees what is committed at that        *)
(* moment; the first write takes the writer's lock, and what the session   *)
(* does from there to its commit or rollback nobody else can come between. *)
(* So a request is a few reads, each a step of its own, and then one step  *)
(* that writes and commits, or rolls back.                                 *)
(*                                                                         *)
(* A round resolves K ticks.  An operator advances it; in readiness mode   *)
(* the last player to consent does; a scheduler's poll does when the       *)
(* round's window has run out; or the world clock runs tick after tick and *)
(* a tick whose number is a multiple of K closes a round.                  *)
(***************************************************************************)
EXTENDS Integers

CONSTANTS
  User,      \* the players
  Worker,    \* sessions at work at once: the threadpool and the scheduler
  Deployments, \* the ways the server may be deployed: who serves what
  K,         \* ticks_per_round
  MaxTick    \* bounds the world's history

Kind == {"ready", "unready", "advance", "poll", "clock", "raw"}
Offered(d) == UNION {d[w] : w \in Worker}

(* lifespan starts the clock or the deadline scheduler, never both.        *)
ASSUME RoundsAssumption ==
  /\ K \in Nat \ {0}
  /\ MaxTick \in Nat
  /\ Deployments \subseteq [Worker -> SUBSET Kind]
  /\ \A d \in Deployments : ~("clock" \in Offered(d) /\ "poll" \in Offered(d))

VARIABLES
  serves,    \* the deployment: the kinds of request each worker serves
  counter,   \* rounds completed (round.state)
  ticks,     \* number of the last committed tick; unique in the table
  register,  \* the readiness register: round, who is ready, its window
  mode,      \* the gate: "readiness" or "operator"
  living,    \* users who own an ACTIVE entity
  work,      \* what each worker is doing and has read
  asked,     \* history: users whose ready was in hand while this round is open
  missed     \* history: boundaries run by raw ticks, which close nothing

db == <<counter, ticks, register, mode, living>>
vars == <<serves, counter, ticks, register, mode, living, work, asked, missed>>

ClockArmed == "clock" \in Offered(serves)
Polled == "poll" \in Offered(serves)

(* opened_at: no anchor, a window still open, a window run out.            *)
Window == {"none", "open", "past"}
Register == [round : Nat, ready : SUBSET User, window : Window]
Genesis == [round |-> 0, ready |-> {}, window |-> "none"]

NoUser == "nobody"
Idle == [kind |-> "none", at |-> "none", user |-> NoUser,
         count |-> 0, seen |-> Genesis, base |-> 0]

Doing(w, kind, at) == work[w].kind = kind /\ work[w].at = at
Finish(w) == work' = [work EXCEPT ![w] = Idle]
Current(w) == work[w].count + 1

(* The readies in hand at the workers other than w.                        *)
InHand(w) ==
  {u \in User : \E v \in Worker \ {w} :
                  work[v].kind = "ready" /\ work[v].user = u}

-----------------------------------------------------------------------------
(* Reads.                                                                  *)

Begin(w, kind, u, at) ==
  /\ work[w] = Idle
  /\ kind \in serves[w]
  /\ work' = [work EXCEPT ![w] =
       [kind |-> kind, at |-> at, user |-> u,
        count |-> counter, seen |-> Genesis, base |-> ticks]]

(* A ready is refused to a user who owns nobody ACTIVE.                    *)
CallReady(w, u) ==
  /\ u \in living
  /\ Begin(w, "ready", u, "register")
  /\ asked' = asked \cup {u}
  /\ UNCHANGED <<db, missed>>

CallUnready(w, u) ==
  /\ Begin(w, "unready", u, "register")
  /\ UNCHANGED <<db, asked, missed>>

CallAdvance(w) ==
  /\ Begin(w, "advance", NoUser, "tick")
  /\ UNCHANGED <<db, asked, missed>>

(* The poll looks only in readiness mode and while somebody lives.         *)
CallPoll(w) ==
  /\ mode = "readiness"
  /\ living # {}
  /\ Begin(w, "poll", NoUser, "register")
  /\ UNCHANGED <<db, asked, missed>>

(* A lone tick: the clock's, held by the extinction brake, or an admin's.  *)
CallTick(w, kind) ==
  /\ kind \in {"clock", "raw"}
  /\ kind = "clock" => living # {}
  /\ Begin(w, kind, NoUser, "write")
  /\ UNCHANGED <<db, asked, missed>>

ReadRegister(w) ==
  /\ Doing(w, "ready", "register") \/ Doing(w, "unready", "register")
  /\ work' = [work EXCEPT ![w].seen = register, ![w].at = "write"]
  /\ UNCHANGED <<db, asked, missed>>

RunOut(reg, current) == reg.round = current /\ reg.window = "past"
Unanchored(reg, current) == reg.round # current \/ reg.window = "none"

(* The poll reads the register: it waits, anchors a window it has not seen *)
(* before, or goes on to advance the round.                                *)
PollReads(w) ==
  /\ Doing(w, "poll", "register")
  /\ work' = [work EXCEPT ![w] =
       IF Unanchored(register, Current(w))
       THEN [@ EXCEPT !.seen = register, !.at = "anchor"]
       ELSE IF RunOut(register, Current(w)) THEN [@ EXCEPT !.at = "recount"]
       ELSE Idle]
  /\ UNCHANGED <<db, asked, missed>>

(* advance_round counts the rounds again; session.get may still hold the   *)
(* row it read before.                                                     *)
PollRecounts(w) ==
  /\ Doing(w, "poll", "recount")
  /\ \E c \in {work[w].count, counter} :
       work' = [work EXCEPT ![w].count = c, ![w].at = "tick"]
  /\ UNCHANGED <<db, asked, missed>>

(* run_tick's first read: the number of the last tick.                     *)
ReadTick(w) ==
  /\ Doing(w, "advance", "tick") \/ Doing(w, "poll", "tick")
  /\ work' = [work EXCEPT ![w].base = ticks, ![w].at = "write"]
  /\ UNCHANGED <<db, asked, missed>>

-----------------------------------------------------------------------------
(* Closing a round.                                                        *)

(* Mutant: the next round's consents are filed one round too far.          *)
OpenedTooFar(before) == [round |-> before + 3, ready |-> {}, window |-> "open"]

Opened(before) == [round |-> before + 2, ready |-> {}, window |-> "open"]

(* _close_round: the counter moves on, the register is reset and anchored. *)
(* A ready in hand now is a straggler, heard in the round that opens.      *)
Close(w, before) ==
  /\ counter' = before + 1
  /\ register' = Opened(before)
  /\ asked' = InHand(w)

(* Ticks kill.                                                             *)
Run(n) ==
  /\ ticks + n <= MaxTick
  /\ ticks' = ticks + n
  /\ living' \in SUBSET living

(* The tick this session numbered has not been committed by another.       *)
Unique(w) == work[w].base = ticks

(* Mutant: the counter is not read again before the round is closed.       *)
UnguardedOpen(before) == TRUE

(* The double-advance guard: the round is still the one to close.          *)
StillOpen(before) == before = counter

AdvanceRound(w) ==
  /\ Doing(w, "advance", "write") \/ Doing(w, "poll", "write")
  /\ Unique(w)
  /\ StillOpen(work[w].count)
  /\ Run(K)
  /\ Close(w, work[w].count)
  /\ Finish(w)
  /\ UNCHANGED <<mode, missed>>

(* The number is taken, or the round is closed: all of it rolls back.      *)
Refuse(w) ==
  /\ \/ Doing(w, "advance", "write") \/ Doing(w, "poll", "write")
     \/ Doing(w, "clock", "write") \/ Doing(w, "raw", "write")
  /\ \/ ~Unique(w)
     \/ /\ work[w].kind \in {"advance", "poll"}
        /\ ~StillOpen(work[w].count)
  /\ Finish(w)
  /\ UNCHANGED <<db, asked, missed>>

Boundary == (ticks + 1) % K = 0

(* run_scheduled_tick: a tick, and the round's closure at a boundary.      *)
ClockTick(w) ==
  /\ Doing(w, "clock", "write")
  /\ Unique(w)
  /\ Run(1)
  /\ IF Boundary THEN Close(w, counter)
                 ELSE UNCHANGED <<counter, register, asked>>
  /\ Finish(w)
  /\ UNCHANGED <<mode, missed>>

(* The single-tick escape hatch runs no boundary work.                     *)
RawTick(w) ==
  /\ Doing(w, "raw", "write")
  /\ Unique(w)
  /\ Run(1)
  /\ missed' = missed + IF Boundary THEN 1 ELSE 0
  /\ Finish(w)
  /\ UNCHANGED <<counter, register, mode, asked>>

-----------------------------------------------------------------------------
(* Consent.                                                                *)

(* Mutant: the register of an older round keeps its consents.              *)
SeenReadyAnyRound(w) == work[w].seen.ready

(* A register of another round reads as empty.                             *)
SeenReady(w) ==
  IF work[w].seen.round = Current(w) THEN work[w].seen.ready ELSE {}

(* Mutant: every ready opens the window anew.                              *)
WindowReopened(w) == "open"

(* opened_at survives a rewrite; a first consent anchors the window.       *)
WindowKept(w) ==
  IF work[w].seen.round = Current(w) THEN register.window ELSE "open"

WithReady(w) ==
  [round  |-> Current(w),
   ready  |-> SeenReady(w) \cup {work[w].user},
   window |-> WindowKept(w)]

(* The register written and the counter read again (before rounds are      *)
(* completed) say that everyone who lives has consented.                   *)
Resolves(reg, before) ==
  /\ ~ClockArmed
  /\ mode = "readiness"
  /\ living # {}
  /\ reg.round = before + 1
  /\ living \subseteq reg.ready

(* The counter as the session finds it after its write: read afresh, or    *)
(* served by the identity map from its first read.                         *)
Recounted(w) == {work[w].count, counter}

RecordReady(w) ==
  /\ Doing(w, "ready", "write")
  /\ \E before \in Recounted(w) : ~Resolves(WithReady(w), before)
  /\ register' = WithReady(w)
  /\ Finish(w)
  /\ UNCHANGED <<counter, ticks, mode, living, asked, missed>>

(* The final ready advances the round in its own transaction.              *)
FinalReady(w) ==
  /\ Doing(w, "ready", "write")
  /\ \E before \in Recounted(w) :
       /\ Resolves(WithReady(w), before)
       /\ StillOpen(before)
       /\ Close(w, before)
  /\ Run(K)
  /\ Finish(w)
  /\ UNCHANGED <<mode, missed>>

(* It lost to another closure of the round: nothing of it is recorded.     *)
LateReady(w) ==
  /\ Doing(w, "ready", "write")
  /\ \E before \in Recounted(w) :
       Resolves(WithReady(w), before) /\ ~StillOpen(before)
  /\ Finish(w)
  /\ UNCHANGED <<db, asked, missed>>

(* An unready writes only where the user is in the open round's register.  *)
Withdraws(w) ==
  /\ work[w].seen.round = Current(w)
  /\ work[w].user \in work[w].seen.ready

WriteUnready(w) ==
  /\ Doing(w, "unready", "write")
  /\ register' =
       IF Withdraws(w)
       THEN [round  |-> Current(w),
             ready  |-> work[w].seen.ready \ {work[w].user},
             window |-> register.window]
       ELSE register
  /\ Finish(w)
  /\ UNCHANGED <<counter, ticks, mode, living, asked, missed>>

(* The poll anchors the window and keeps the names it read.                *)
Anchor(w) ==
  /\ Doing(w, "poll", "anchor")
  /\ register' = [round  |-> Current(w), ready |-> work[w].seen.ready,
                  window |-> "open"]
  /\ Finish(w)
  /\ UNCHANGED <<counter, ticks, mode, living, asked, missed>>

-----------------------------------------------------------------------------
(* The world and the operator.                                             *)

Elapse ==
  /\ register.window = "open"
  /\ register' = [register EXCEPT !.window = "past"]
  /\ UNCHANGED <<counter, ticks, mode, living, work, asked, missed>>

SetGate(m) ==
  /\ mode' = m
  /\ UNCHANGED <<counter, ticks, register, living, work, asked, missed>>

(* A spawn or a join gives a user somebody to play; an attack resolved     *)
(* between ticks takes the last one away.                                  *)
Enter(u) ==
  /\ living' = living \cup {u}
  /\ UNCHANGED <<counter, ticks, register, mode, work, asked, missed>>

Leave(u) ==
  /\ ~ClockArmed
  /\ living' = living \ {u}
  /\ UNCHANGED <<counter, ticks, register, mode, work, asked, missed>>

Init ==
  /\ serves \in Deployments
  /\ counter = 0
  /\ ticks = 0
  /\ register = Genesis
  /\ mode = "operator"
  /\ living = {}
  /\ work = [w \in Worker |-> Idle]
  /\ asked = {}
  /\ missed = 0

Step(w) ==
  \/ \E u \in User : CallReady(w, u) \/ CallUnready(w, u)
  \/ CallAdvance(w) \/ CallPoll(w) \/ CallTick(w, "clock") \/ CallTick(w, "raw")
  \/ ReadRegister(w) \/ PollReads(w) \/ PollRecounts(w) \/ ReadTick(w)
  \/ AdvanceRound(w) \/ Refuse(w) \/ ClockTick(w) \/ RawTick(w)
  \/ RecordReady(w) \/ FinalReady(w) \/ LateReady(w)
  \/ WriteUnready(w) \/ Anchor(w)

World ==
  \/ Elapse
  \/ \E m \in {"readiness", "operator"} : SetGate(m)
  \/ \E u \in User : Enter(u) \/ Leave(u)

Next ==
  /\ (\E w \in Worker : Step(w)) \/ World
  /\ UNCHANGED serves

Spec == Init /\ [][Next]_vars

(* The scheduler keeps polling and its poll runs to its end (the loop in   *)
(* main.py survives every exception); wall-clock time passes.              *)
Poll(w) ==
  \/ CallPoll(w) \/ PollReads(w) \/ PollRecounts(w) \/ Anchor(w)
  \/ work[w].kind = "poll" /\ (ReadTick(w) \/ AdvanceRound(w) \/ Refuse(w))

FairSpec ==
  /\ Spec
  /\ WF_vars(Elapse /\ UNCHANGED serves)
  /\ \A w \in Worker : WF_vars(Poll(w) /\ UNCHANGED serves)

-----------------------------------------------------------------------------
(* Every variable has its type; no register is of a round after the open   *)
(* one, and no request has read further than the world has come.           *)
Stage == {"none", "register", "recount", "tick", "anchor", "write"}

TypeOK ==
  /\ counter \in Nat
  /\ ticks \in Nat
  /\ register \in Register
  /\ register.round <= counter + 1
  /\ mode \in {"readiness", "operator"}
  /\ living \subseteq User
  /\ work \in [Worker -> [kind : Kind \cup {"none"}, at : Stage,
                          user : User \cup {NoUser}, count : Nat,
                          seen : Register, base : Nat]]
  /\ \A w \in Worker :
       /\ work[w].count <= counter
       /\ work[w].base <= ticks
       /\ work[w].kind = "ready" => work[w].user \in User
  /\ asked \subseteq User
  /\ missed \in Nat

(* One closure for every K ticks, whoever runs them: "the loser's rollback *)
(* keeps 2K ticks from running under one consent" (rounds.py:396).  Every  *)
(* multiple of K a tick has passed is one round closed, save those a raw   *)
(* tick landed on, however requests, polls and heartbeats interleave.      *)
Calendar == counter + missed = ticks \div K

(* "Rounds close by player consent" (routers/rounds.py:77): the round a    *)
(* final ready resolves had everyone who lives ask for it while it was     *)
(* open; no consent is carried over from a round already closed.           *)
ConsentCloses ==
  [][\A w \in Worker : FinalReady(w) => living \subseteq asked]_vars

(* Consent closes rounds, however readies, withdrawals, advances, raw ticks*)
(* and heartbeats interleave, where no deadline is polled (the double-     *)
(* advance guard and the register by round, rounds.py:386 and 259).        *)
ConsentIsFresh ==
  [][\A w \in Worker : FinalReady(w) /\ ~Polled => living \subseteq asked]_vars

(* "The server closes rounds nobody closes" (rounds.py:505): in readiness  *)
(* mode with somebody alive, every round is closed in the end, whatever    *)
(* the players do or fail to do.                                           *)
BackstopCloses ==
  \A n \in 0..(MaxTick \div K) - 1 :
    (Polled /\ counter = n) ~> counter # n \/ mode = "operator" \/ living = {}
=============================================================================
