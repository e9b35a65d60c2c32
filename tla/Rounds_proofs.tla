---------------------------- MODULE Rounds_proofs ----------------------------
(* Proofs about Rounds: its types, the calendar, and that a counted        *)
(* consent is fresh, for any players, any workers whatever they serve, any *)
(* K and any length of history.  The second half proves the properties of  *)
(* Market, for any entities, prices and bounds: its types, that the        *)
(* auction is fair, and, where no request straddles a tick, that the shelf *)
(* serves the book and only the living trade.                              *)
EXTENDS Rounds, Market, Totals_proofs

LEMMA Parameters == K \in Nat /\ K > 0 /\ MaxTick \in Nat
BY RoundsAssumption

-----------------------------------------------------------------------------
(* Division.                                                               *)

(* K ticks pass exactly one multiple of K, wherever they start.            *)
LEMMA WholeRound ==
  ASSUME NEW t \in Nat
  PROVE  (t + K) \div K = t \div K + 1
BY Parameters

(* One tick passes a multiple of K when it lands on it, and no other.      *)
LEMMA OneTick ==
  ASSUME NEW t \in Nat
  PROVE  (t + 1) \div K = t \div K + (IF (t + 1) % K = 0 THEN 1 ELSE 0)
BY Parameters

-----------------------------------------------------------------------------
(* Types.                                                                  *)

WorkRecord ==
  [kind : Kind \cup {"none"}, at : Stage, user : User \cup {NoUser},
   count : Nat, seen : Register, base : Nat]

(* Everything TypeOK says of one worker.                                   *)
WorkerOK(w) ==
  /\ work[w] \in WorkRecord
  /\ work[w].count <= counter
  /\ work[w].base <= ticks
  /\ work[w].kind = "ready" => work[w].user \in User

LEMMA InitTypes == Init => TypeOK
<1> SUFFICES ASSUME Init PROVE TypeOK
  OBVIOUS
<1>1. Genesis \in Register
  BY DEF Genesis, Register, Window
<1>2. work \in [Worker -> WorkRecord]
  BY <1>1 DEF Init, Idle, WorkRecord, Stage
<1>3. \A w \in Worker : work[w].count = 0 /\ work[w].base = 0 /\ work[w].kind = "none"
  BY DEF Init, Idle
<1> QED BY <1>1, <1>2, <1>3 DEF Init, TypeOK, WorkRecord, Genesis

(* A step that changes the work of one worker only, and moves neither      *)
(* counter back, keeps every worker's record sound if it leaves w's so.    *)
LEMMA OneWorker ==
  ASSUME TypeOK, NEW w \in Worker, NEW r \in WorkRecord,
         work' = [work EXCEPT ![w] = r],
         counter' \in Nat, ticks' \in Nat,
         counter <= counter', ticks <= ticks',
         r.count <= counter', r.base <= ticks',
         r.kind = "ready" => r.user \in User
  PROVE  /\ work' \in [Worker -> WorkRecord]
         /\ \A v \in Worker : WorkerOK(v)'
<1>1. work \in [Worker -> WorkRecord]
  BY DEF TypeOK, WorkRecord
<1>2. work' \in [Worker -> WorkRecord]
  BY <1>1
<1>3. ASSUME NEW v \in Worker PROVE WorkerOK(v)'
  <2>1. CASE v = w
    BY <2>1, <1>1, <1>2 DEF WorkerOK
  <2>2. CASE v # w
    <3>1. work'[v] = work[v]
      BY <1>1, <2>2
    <3>2. work[v].count \in Nat /\ work[v].base \in Nat /\ work[v].count <= counter
          /\ work[v].base <= ticks /\ (work[v].kind = "ready" => work[v].user \in User)
      BY <1>1 DEF TypeOK, WorkRecord
    <3>3. counter \in Nat /\ ticks \in Nat
      BY DEF TypeOK
    <3> QED BY <1>2, <3>1, <3>2, <3>3 DEF WorkerOK
  <2> QED BY <2>1, <2>2
<1> QED BY <1>2, <1>3

(* What a step owes besides the workers.                                   *)
RestOK ==
  /\ counter \in Nat
  /\ ticks \in Nat
  /\ register \in Register
  /\ register.round <= counter + 1
  /\ mode \in {"readiness", "operator"}
  /\ living \subseteq User
  /\ asked \subseteq User
  /\ missed \in Nat

LEMMA Whole ==
  TypeOK <=> RestOK /\ work \in [Worker -> WorkRecord]
                    /\ \A w \in Worker : WorkerOK(w)
BY DEF TypeOK, RestOK, WorkRecord, WorkerOK

LEMMA WholeNext ==
  TypeOK' <=> RestOK' /\ work' \in [Worker -> WorkRecord]
                     /\ \A w \in Worker : WorkerOK(w)'
BY DEF TypeOK, RestOK, WorkRecord, WorkerOK

LEMMA RecordOf ==
  ASSUME TypeOK, NEW w \in Worker
  PROVE  work[w] \in WorkRecord /\ WorkerOK(w)
BY Whole DEF WorkerOK

LEMMA IdleRecord == Idle \in WorkRecord /\ Idle.count = 0 /\ Idle.base = 0 /\ Idle.kind = "none"
BY DEF Idle, WorkRecord, Stage, Genesis, Register, Window

(* Finishing is always sound.                                              *)
LEMMA FinishTypes ==
  ASSUME TypeOK, NEW w \in Worker, Finish(w), RestOK',
         counter <= counter', ticks <= ticks'
  PROVE  TypeOK'
<1>1. counter' \in Nat /\ ticks' \in Nat
  BY DEF RestOK
<1>2. work' = [work EXCEPT ![w] = Idle]
  BY DEF Finish
<1> Idle.count <= counter' /\ Idle.base <= ticks' /\ (Idle.kind = "ready" => Idle.user \in User)
  BY <1>1, IdleRecord
<1>3. /\ work' \in [Worker -> WorkRecord]
      /\ \A v \in Worker : WorkerOK(v)'
  BY <1>1, <1>2, IdleRecord, OneWorker
<1> QED BY <1>3, WholeNext

(* A step that only reads.                                                 *)
LEMMA ReadTypes ==
  ASSUME TypeOK, NEW w \in Worker, NEW r \in WorkRecord,
         work' = [work EXCEPT ![w] = r],
         UNCHANGED <<db, missed>>, asked' \subseteq User,
         r.count <= counter, r.base <= ticks,
         r.kind = "ready" => r.user \in User
  PROVE  TypeOK'
<1>1. RestOK'
  BY DEF TypeOK, RestOK, db
<1>2. /\ counter' \in Nat /\ counter <= counter' /\ r.count <= counter'
      /\ ticks' \in Nat /\ ticks <= ticks' /\ r.base <= ticks'
  BY DEF db, TypeOK
<1>3. /\ work' \in [Worker -> WorkRecord]
      /\ \A v \in Worker : WorkerOK(v)'
  BY <1>2, OneWorker
<1> QED BY <1>1, <1>3, WholeNext

LEMMA BeginTypes ==
  ASSUME TypeOK, NEW w \in Worker, NEW kind \in Kind, NEW u \in User \cup {NoUser},
         NEW at \in Stage, Begin(w, kind, u, at), kind = "ready" => u \in User,
         UNCHANGED <<db, missed>>, asked' \subseteq User
  PROVE  TypeOK'
<1> DEFINE r == [kind |-> kind, at |-> at, user |-> u,
                 count |-> counter, seen |-> Genesis, base |-> ticks]
<1>1. counter \in Nat /\ ticks \in Nat
  BY DEF TypeOK
<1>2. r \in WorkRecord
  BY <1>1, IdleRecord DEF WorkRecord, Genesis, Register, Window
<1>3. work' = [work EXCEPT ![w] = r]
  BY DEF Begin
<1>4. r.count <= counter /\ r.base <= ticks /\ (r.kind = "ready" => r.user \in User)
  BY <1>1
<1> HIDE DEF r
<1> QED BY <1>2, <1>3, <1>4, ReadTypes

(* Reads, whichever request makes them.                                    *)
LEMMA CallTypes ==
  ASSUME TypeOK, NEW w \in Worker,
         \/ \E u \in User : CallReady(w, u) \/ CallUnready(w, u)
         \/ CallAdvance(w) \/ CallPoll(w) \/ CallTick(w, "clock") \/ CallTick(w, "raw")
  PROVE  TypeOK'
<1>1. asked \subseteq User
  BY DEF TypeOK
<1>2. ASSUME NEW u \in User, CallReady(w, u) PROVE TypeOK'
  BY <1>1, <1>2, BeginTypes DEF CallReady, Kind, Stage
<1>3. ASSUME NEW u \in User, CallUnready(w, u) PROVE TypeOK'
  BY <1>1, <1>3, BeginTypes DEF CallUnready, Kind, Stage
<1>4. CASE CallAdvance(w)
  BY <1>1, <1>4, BeginTypes DEF CallAdvance, Kind, Stage
<1>5. CASE CallPoll(w)
  BY <1>1, <1>5, BeginTypes DEF CallPoll, Kind, Stage
<1>6. ASSUME NEW k \in {"clock", "raw"}, CallTick(w, k) PROVE TypeOK'
  BY <1>1, <1>6, BeginTypes DEF CallTick, Kind, Stage
<1> QED BY <1>2, <1>3, <1>4, <1>5, <1>6

LEMMA StageTypes ==
  ASSUME TypeOK, NEW w \in Worker,
         ReadRegister(w) \/ PollReads(w) \/ PollRecounts(w) \/ ReadTick(w)
  PROVE  TypeOK'
<1> USE RecordOf DEF WorkerOK
<1>1. /\ asked \subseteq User /\ register \in Register /\ counter \in Nat /\ ticks \in Nat
      /\ work \in [Worker -> WorkRecord]
  BY DEF TypeOK, WorkRecord
<1>2. /\ work[w].count \in Nat /\ work[w].base \in Nat
      /\ work[w].count <= counter /\ work[w].base <= ticks
  BY DEF WorkRecord
<1>3. CASE ReadRegister(w)
  <2> DEFINE r == [work[w] EXCEPT !.seen = register, !.at = "write"]
  <2>1. work' = [work EXCEPT ![w] = r]
    BY <1>1, <1>3 DEF ReadRegister, WorkRecord
  <2>2. r \in WorkRecord /\ r.count = work[w].count /\ r.base = work[w].base
        /\ r.kind = work[w].kind /\ r.user = work[w].user
    BY <1>1 DEF WorkRecord, Stage
  <2> HIDE DEF r
  <2> QED BY <1>1, <1>2, <1>3, <2>1, <2>2, ReadTypes DEF ReadRegister
<1>4. CASE PollReads(w)
  <2> DEFINE a == [work[w] EXCEPT !.seen = register, !.at = "anchor"]
             b == [work[w] EXCEPT !.at = "recount"]
  <2>1. \/ work' = [work EXCEPT ![w] = a]
        \/ work' = [work EXCEPT ![w] = b]
        \/ work' = [work EXCEPT ![w] = Idle]
    BY <1>1, <1>4 DEF PollReads, WorkRecord
  <2>2. a \in WorkRecord /\ a.count = work[w].count /\ a.base = work[w].base
        /\ a.kind = work[w].kind /\ a.user = work[w].user
    BY <1>1 DEF WorkRecord, Stage
  <2>3. b \in WorkRecord /\ b.count = work[w].count /\ b.base = work[w].base
        /\ b.kind = work[w].kind /\ b.user = work[w].user
    BY <1>1 DEF WorkRecord, Stage
  <2>4. /\ Idle.count <= counter /\ Idle.base <= ticks
        /\ Idle \in WorkRecord /\ Idle.kind # "ready"
    BY <1>1, IdleRecord
  <2>5. UNCHANGED <<db, missed>> /\ asked' \subseteq User
    BY <1>1, <1>4 DEF PollReads
  <2> HIDE DEF a, b
  <2>6. CASE work' = [work EXCEPT ![w] = a]
    BY <1>2, <2>2, <2>5, <2>6, ReadTypes
  <2>7. CASE work' = [work EXCEPT ![w] = b]
    BY <1>2, <2>3, <2>5, <2>7, ReadTypes
  <2>8. CASE work' = [work EXCEPT ![w] = Idle]
    BY <2>4, <2>5, <2>8, ReadTypes
  <2> QED BY <2>1, <2>6, <2>7, <2>8
<1>5. CASE PollRecounts(w)
  <2>1. PICK c \in {work[w].count, counter} :
          work' = [work EXCEPT ![w].count = c, ![w].at = "tick"]
    BY <1>5 DEF PollRecounts
  <2> DEFINE r == [work[w] EXCEPT !.count = c, !.at = "tick"]
  <2>2. work' = [work EXCEPT ![w] = r]
    BY <1>1, <2>1 DEF WorkRecord
  <2>3. r \in WorkRecord /\ r.count = c /\ r.base = work[w].base
        /\ r.kind = work[w].kind /\ r.user = work[w].user
    BY <1>1, <1>2 DEF WorkRecord, Stage
  <2>4. UNCHANGED <<db, missed>> /\ asked' \subseteq User
    BY <1>1, <1>5 DEF PollRecounts
  <2>5. r.count <= counter
    BY <1>1, <1>2, <2>3
  <2> HIDE DEF r
  <2> QED BY <1>2, <2>2, <2>3, <2>4, <2>5, ReadTypes
<1>6. CASE ReadTick(w)
  <2> DEFINE r == [work[w] EXCEPT !.base = ticks, !.at = "write"]
  <2>1. work' = [work EXCEPT ![w] = r]
    BY <1>1, <1>6 DEF ReadTick, WorkRecord
  <2>2. r \in WorkRecord /\ r.count = work[w].count /\ r.base = ticks
        /\ r.kind = work[w].kind /\ r.user = work[w].user
    BY <1>1 DEF WorkRecord, Stage
  <2>3. UNCHANGED <<db, missed>> /\ asked' \subseteq User /\ r.base <= ticks
    BY <1>1, <1>6, <2>2 DEF ReadTick
  <2> HIDE DEF r
  <2> QED BY <1>2, <2>1, <2>2, <2>3, ReadTypes
<1> QED BY <1>3, <1>4, <1>5, <1>6

-----------------------------------------------------------------------------
(* Writes.                                                                 *)

LEMMA ClosedRegister ==
  ASSUME NEW before \in Nat
  PROVE  Opened(before) \in Register /\ Opened(before).round = before + 2
BY DEF Opened, Register, Window

(* Closing a round and running n ticks.                                    *)
LEMMA CloseTypes ==
  ASSUME TypeOK, NEW w \in Worker, NEW n \in Nat, Run(n), Close(w, counter),
         mode' = mode, missed' = missed, Finish(w)
  PROVE  TypeOK'
<1>1. counter \in Nat /\ ticks \in Nat /\ missed \in Nat
      /\ mode \in {"readiness", "operator"} /\ living \subseteq User
  BY DEF TypeOK
<1>2. /\ counter' = counter + 1 /\ ticks' = ticks + n
      /\ register' = Opened(counter) /\ asked' = InHand(w)
      /\ living' \subseteq User
  BY <1>1 DEF Close, Run
<1>3. register' \in Register /\ register'.round <= counter' + 1
  BY <1>1, <1>2, ClosedRegister
<1>4. InHand(w) \subseteq User
  BY DEF InHand
<1>5. RestOK' /\ counter <= counter' /\ ticks <= ticks'
  BY <1>1, <1>2, <1>3, <1>4 DEF RestOK
<1> QED BY <1>5, FinishTypes

LEMMA AdvanceTypes ==
  ASSUME TypeOK, NEW w \in Worker,
         AdvanceRound(w) \/ FinalReady(w)
  PROVE  TypeOK'
<1>1. CASE AdvanceRound(w)
  BY <1>1, Parameters, CloseTypes DEF AdvanceRound, StillOpen
<1>2. CASE FinalReady(w)
  BY <1>2, Parameters, CloseTypes DEF FinalReady, StillOpen
<1> QED BY <1>1, <1>2

LEMMA TickTypes ==
  ASSUME TypeOK, NEW w \in Worker, ClockTick(w) \/ RawTick(w)
  PROVE  TypeOK'
<1>1. CASE ClockTick(w) /\ Boundary
  BY <1>1, CloseTypes DEF ClockTick
<1>2. CASE ClockTick(w) /\ ~Boundary
  <2>1. RestOK' /\ counter <= counter' /\ ticks <= ticks'
    BY <1>2 DEF TypeOK, RestOK, ClockTick, Run
  <2> QED BY <1>2, <2>1, FinishTypes DEF ClockTick
<1>3. CASE RawTick(w)
  <2>1. RestOK' /\ counter <= counter' /\ ticks <= ticks'
    BY <1>3 DEF TypeOK, RestOK, RawTick, Run
  <2> QED BY <1>3, <2>1, FinishTypes DEF RawTick
<1> QED BY <1>1, <1>2, <1>3

(* What a worker writes into the register is a register of a round no      *)
(* later than the open one.                                                *)
LEMMA RegisterTypes ==
  ASSUME TypeOK, NEW w \in Worker,
         RecordReady(w) \/ WriteUnready(w) \/ Anchor(w)
  PROVE  /\ register' \in Register
         /\ register'.round <= counter + 1
<1> USE RecordOf DEF WorkerOK
<1>1. /\ register \in Register /\ counter \in Nat /\ register.round <= counter + 1
      /\ work[w].seen \in Register /\ work[w].count \in Nat /\ work[w].count <= counter
  BY DEF TypeOK, WorkRecord
<1>2. work[w].seen.ready \subseteq User /\ register.window \in Window
      /\ "open" \in Window /\ Current(w) \in Nat /\ Current(w) <= counter + 1
  BY <1>1 DEF Register, Window, Current
<1>3. CASE RecordReady(w)
  <2>1. work[w].user \in User
    BY <1>3 DEF RecordReady, Doing
  <2>2. SeenReady(w) \cup {work[w].user} \subseteq User /\ WindowKept(w) \in Window
    BY <1>2, <2>1 DEF SeenReady, WindowKept
  <2>3. WithReady(w) \in Register /\ WithReady(w).round = Current(w)
    BY <1>2, <2>2 DEF WithReady, Register
  <2> QED BY <1>2, <1>3, <2>3 DEF RecordReady
<1>4. CASE WriteUnready(w)
  <2> DEFINE r == [round  |-> Current(w), ready |-> work[w].seen.ready \ {work[w].user},
                   window |-> register.window]
  <2>1. r \in Register /\ r.round = Current(w)
    BY <1>2 DEF Register
  <2>2. register' = r \/ register' = register
    BY <1>4 DEF WriteUnready
  <2> HIDE DEF r
  <2> QED BY <1>1, <1>2, <2>1, <2>2
<1>5. CASE Anchor(w)
  <2> DEFINE r == [round  |-> Current(w), ready |-> work[w].seen.ready, window |-> "open"]
  <2>1. r \in Register /\ r.round = Current(w)
    BY <1>2 DEF Register
  <2>2. register' = r
    BY <1>5 DEF Anchor
  <2> HIDE DEF r
  <2> QED BY <1>2, <2>1, <2>2
<1> QED BY <1>3, <1>4, <1>5

LEMMA ConsentTypes ==
  ASSUME TypeOK, NEW w \in Worker,
         RecordReady(w) \/ WriteUnready(w) \/ Anchor(w)
  PROVE  TypeOK'
<1>1. register' \in Register /\ register'.round <= counter + 1
  BY RegisterTypes
<1>2. CASE RecordReady(w)
  <2>1. work[w].user \in User
    BY <1>2, RecordOf DEF RecordReady, Doing, WorkerOK
  <2>2. RestOK' /\ counter <= counter' /\ ticks <= ticks'
    BY <1>1, <1>2, <2>1 DEF TypeOK, RestOK, RecordReady
  <2> QED BY <1>2, <2>2, FinishTypes DEF RecordReady
<1>3. CASE WriteUnready(w)
  <2>1. RestOK' /\ counter <= counter' /\ ticks <= ticks'
    BY <1>1, <1>3 DEF TypeOK, RestOK, WriteUnready
  <2> QED BY <1>3, <2>1, FinishTypes DEF WriteUnready
<1>4. CASE Anchor(w)
  <2>1. RestOK' /\ counter <= counter' /\ ticks <= ticks'
    BY <1>1, <1>4 DEF TypeOK, RestOK, Anchor
  <2> QED BY <1>4, <2>1, FinishTypes DEF Anchor
<1> QED BY <1>2, <1>3, <1>4

LEMMA RolledBackTypes ==
  ASSUME TypeOK, NEW w \in Worker, Refuse(w) \/ LateReady(w)
  PROVE  TypeOK'
<1>1. Finish(w) /\ UNCHANGED <<db, asked, missed>>
  BY DEF Refuse, LateReady
<1>2. RestOK' /\ counter <= counter' /\ ticks <= ticks'
  BY <1>1 DEF TypeOK, RestOK, db
<1> QED BY <1>1, <1>2, FinishTypes

LEMMA WorldTypes == TypeOK /\ World => TypeOK'
<1> SUFFICES ASSUME TypeOK, World PROVE TypeOK'
  OBVIOUS
<1>1. CASE Elapse
  BY <1>1 DEF Elapse, TypeOK, Register, Window
<1>2. ASSUME NEW m \in {"readiness", "operator"}, SetGate(m) PROVE TypeOK'
  BY <1>2 DEF SetGate, TypeOK
<1>3. ASSUME NEW u \in User, Enter(u) PROVE TypeOK'
  BY <1>3 DEF Enter, TypeOK
<1>4. ASSUME NEW u \in User, Leave(u) PROVE TypeOK'
  BY <1>4 DEF Leave, TypeOK
<1> QED BY <1>1, <1>2, <1>3, <1>4 DEF World

LEMMA StepTypes == TypeOK /\ [Next]_vars => TypeOK'
<1> SUFFICES ASSUME TypeOK, [Next]_vars PROVE TypeOK'
  OBVIOUS
<1>1. ASSUME NEW w \in Worker, Step(w) PROVE TypeOK'
  BY <1>1, CallTypes, StageTypes, AdvanceTypes, TickTypes, ConsentTypes, RolledBackTypes
     DEF Step
<1>2. CASE World
  BY <1>2, WorldTypes
<1>3. CASE UNCHANGED vars
  BY <1>3 DEF TypeOK, vars
<1> QED BY <1>1, <1>2, <1>3 DEF Next

(* Every variable keeps its type; no register is of a later round than the *)
(* open one, and no request has read further than the world has come.      *)
THEOREM RoundsTypes == Spec => []TypeOK
<1>1. Init => TypeOK
  BY InitTypes
<1>2. TypeOK /\ [Next]_vars => TypeOK'
  BY StepTypes
<1> QED BY <1>1, <1>2, PTL DEF Spec

-----------------------------------------------------------------------------
(* The calendar.  With the types it is inductive: only four actions move   *)
(* the ticks, and each of them runs a whole round and closes one, or one   *)
(* tick and closes, misses or leaves the round it lands in.                *)

LEMMA WholeRoundKeeps ==
  ASSUME TypeOK, Calendar, NEW w \in Worker, AdvanceRound(w) \/ FinalReady(w)
  PROVE  Calendar'
<1>1. counter \in Nat /\ ticks \in Nat /\ missed \in Nat
  BY DEF TypeOK
<1>2. counter' = counter + 1 /\ ticks' = ticks + K /\ missed' = missed
  BY DEF AdvanceRound, FinalReady, StillOpen, Close, Run
<1>3. ticks' \div K = ticks \div K + 1
  BY <1>1, <1>2, WholeRound
<1> QED BY <1>1, <1>2, <1>3 DEF Calendar

LEMMA OneTickKeeps ==
  ASSUME TypeOK, Calendar, NEW w \in Worker, ClockTick(w) \/ RawTick(w)
  PROVE  Calendar'
<1>1. counter \in Nat /\ ticks \in Nat /\ missed \in Nat
  BY DEF TypeOK
<1>2. ticks' = ticks + 1
  BY DEF ClockTick, RawTick, Run
<1>3. counter' + missed' = counter + missed + (IF (ticks + 1) % K = 0 THEN 1 ELSE 0)
  BY <1>1 DEF ClockTick, RawTick, Close, Boundary
<1>4. ticks' \div K = ticks \div K + (IF (ticks + 1) % K = 0 THEN 1 ELSE 0)
  BY <1>1, <1>2, OneTick
<1> QED BY <1>3, <1>4 DEF Calendar

LEMMA OthersKeep ==
  ASSUME Calendar, UNCHANGED <<counter, ticks, missed>>
  PROVE  Calendar'
BY DEF Calendar

LEMMA StepCalendar == TypeOK /\ Calendar /\ [Next]_vars => Calendar'
<1> SUFFICES ASSUME TypeOK, Calendar, [Next]_vars PROVE Calendar'
  OBVIOUS
<1>1. ASSUME NEW w \in Worker, Step(w) PROVE Calendar'
  <2>1. CASE AdvanceRound(w) \/ FinalReady(w)
    BY <2>1, WholeRoundKeeps
  <2>2. CASE ClockTick(w) \/ RawTick(w)
    BY <2>2, OneTickKeeps
  <2>3. CASE \/ \E u \in User : CallReady(w, u) \/ CallUnready(w, u)
             \/ CallAdvance(w) \/ CallPoll(w)
             \/ CallTick(w, "clock") \/ CallTick(w, "raw")
    BY <2>3, OthersKeep
       DEF CallReady, CallUnready, CallAdvance, CallPoll, CallTick, db
  <2>4. CASE ReadRegister(w) \/ PollReads(w) \/ PollRecounts(w) \/ ReadTick(w)
    BY <2>4, OthersKeep DEF ReadRegister, PollReads, PollRecounts, ReadTick, db
  <2>5. CASE Refuse(w) \/ LateReady(w)
    BY <2>5, OthersKeep DEF Refuse, LateReady, db
  <2>6. CASE RecordReady(w) \/ WriteUnready(w) \/ Anchor(w)
    BY <2>6, OthersKeep DEF RecordReady, WriteUnready, Anchor
  <2> QED BY <1>1, <2>1, <2>2, <2>3, <2>4, <2>5, <2>6 DEF Step
<1>2. CASE World
  BY <1>2, OthersKeep DEF World, Elapse, SetGate, Enter, Leave
<1>3. CASE UNCHANGED vars
  BY <1>3, OthersKeep DEF vars
<1> QED BY <1>1, <1>2, <1>3 DEF Next

LEMMA InitCalendar == Init => Calendar
<1>1. 0 \div K = 0
  BY Parameters
<1> QED BY <1>1 DEF Init, Calendar

(* One closure for every K ticks, whoever runs them and however requests,  *)
(* polls and heartbeats interleave.                                        *)
THEOREM CalendarHolds == Spec => []Calendar
<1>1. Init => Calendar
  BY InitCalendar
<1>2. TypeOK /\ Calendar /\ [Next]_vars => Calendar'
  BY StepCalendar
<1>3. Spec => []TypeOK
  BY RoundsTypes
<1> QED BY <1>1, <1>2, <1>3, PTL DEF Spec

-----------------------------------------------------------------------------
(* Consent.  Without a poll, whatever a session has read of the open       *)
(* round's register, and whatever stands there, was asked for while the    *)
(* round is open; what was read before is of an older round.               *)

FreshRecord(r, c, S) ==
  /\ r.kind # "poll"
  /\ r.seen.round <= c + 1
  /\ r.seen.round = c + 1 => r.seen.ready \subseteq S
  /\ r.kind = "ready" => r.user \in S

FreshRegister(g, c, S) == g.round = c + 1 => g.ready \subseteq S

FreshInv ==
  /\ FreshRegister(register, counter, asked)
  /\ \A w \in Worker : FreshRecord(work[w], counter, asked)

LEMMA NoPollServed ==
  ASSUME ~Polled, NEW w \in Worker
  PROVE  "poll" \notin serves[w]
BY DEF Polled, Offered

LEMMA IdleFresh ==
  ASSUME NEW c \in Nat, NEW S
  PROVE  FreshRecord(Idle, c, S)
BY DEF FreshRecord, Idle, Genesis

(* A step of one session that writes nothing.                              *)
LEMMA ReadFresh ==
  ASSUME TypeOK, FreshInv, NEW w \in Worker, NEW r,
         work' = [work EXCEPT ![w] = r], UNCHANGED db, asked \subseteq asked',
         FreshRecord(r, counter, asked')
  PROVE  FreshInv'
<1>1. register' = register /\ counter' = counter
  BY DEF db
<1>2. ASSUME NEW v \in Worker PROVE FreshRecord(work'[v], counter, asked')
  <2>1. work'[v] = IF v = w THEN r ELSE work[v]
    BY DEF TypeOK
  <2>2. FreshRecord(work[v], counter, asked)
    BY DEF FreshInv
  <2> QED BY <2>1, <2>2 DEF FreshRecord
<1> QED BY <1>1, <1>2 DEF FreshInv, FreshRegister

(* A step that writes the register and closes nothing.                     *)
LEMMA WriteFresh ==
  ASSUME TypeOK, FreshInv, NEW w \in Worker, Finish(w), UNCHANGED <<counter, asked>>,
         FreshRegister(register', counter, asked)
  PROVE  FreshInv'
<1>1. counter \in Nat
  BY DEF TypeOK
<1>2. ASSUME NEW v \in Worker PROVE FreshRecord(work'[v], counter, asked)
  <2>1. work'[v] = IF v = w THEN Idle ELSE work[v]
    BY DEF Finish, TypeOK
  <2>2. FreshRecord(work[v], counter, asked)
    BY DEF FreshInv
  <2> QED BY <1>1, <2>1, <2>2, IdleFresh
<1> QED BY <1>2 DEF FreshInv

(* Closing a round ages everything that was read.                          *)
LEMMA CloseFresh ==
  ASSUME TypeOK, FreshInv, NEW w \in Worker, Finish(w), Close(w, counter)
  PROVE  FreshInv'
<1>1. counter \in Nat /\ counter' = counter + 1 /\ asked' = InHand(w) /\ register' = Opened(counter)
  BY DEF TypeOK, Close
<1>2. FreshRegister(register', counter', asked')
  BY <1>1 DEF FreshRegister, Opened
<1>3. ASSUME NEW v \in Worker PROVE FreshRecord(work'[v], counter', asked')
  <2>1. work'[v] = IF v = w THEN Idle ELSE work[v]
    BY DEF Finish, TypeOK
  <2>2. CASE v = w
    BY <1>1, <2>1, <2>2, IdleFresh
  <2>3. CASE v # w
    <3>1. FreshRecord(work[v], counter, asked) /\ work[v].seen.round \in Nat
      BY RecordOf DEF FreshInv, WorkRecord, Register
    <3>2. work[v].kind = "ready" => work[v].user \in asked'
      BY <1>1, <2>3, RecordOf DEF WorkerOK, InHand
    <3> QED BY <1>1, <2>1, <2>3, <3>1, <3>2 DEF FreshRecord
  <2> QED BY <2>2, <2>3
<1> QED BY <1>2, <1>3 DEF FreshInv

LEMMA BeginFresh ==
  ASSUME TypeOK, FreshInv, ~Polled, NEW w \in Worker, NEW kind, NEW u, NEW at,
         Begin(w, kind, u, at), UNCHANGED db, asked \subseteq asked',
         kind = "ready" => u \in asked'
  PROVE  FreshInv'
<1> DEFINE r == [kind |-> kind, at |-> at, user |-> u,
                 count |-> counter, seen |-> Genesis, base |-> ticks]
<1>1. work' = [work EXCEPT ![w] = r] /\ kind # "poll"
  BY NoPollServed DEF Begin
<1>2. FreshRecord(r, counter, asked')
  BY <1>1 DEF FreshRecord, Genesis, TypeOK
<1> HIDE DEF r
<1> QED BY <1>1, <1>2, ReadFresh

LEMMA StageFresh ==
  ASSUME TypeOK, FreshInv, NEW w \in Worker,
         ReadRegister(w) \/ PollReads(w) \/ PollRecounts(w) \/ ReadTick(w)
  PROVE  FreshInv'
<1>1. FreshRecord(work[w], counter, asked) /\ work[w] \in WorkRecord
      /\ work \in [Worker -> WorkRecord] /\ register.round <= counter + 1
  BY RecordOf DEF FreshInv, TypeOK, WorkRecord
<1>2. ~PollReads(w) /\ ~PollRecounts(w)
  BY <1>1 DEF PollReads, PollRecounts, Doing, FreshRecord
<1>3. CASE ReadRegister(w)
  <2> DEFINE r == [work[w] EXCEPT !.seen = register, !.at = "write"]
  <2>1. work' = [work EXCEPT ![w] = r] /\ UNCHANGED <<db, asked>>
    BY <1>1, <1>3 DEF ReadRegister
  <2>2. r.seen = register /\ r.kind = work[w].kind /\ r.user = work[w].user
    BY <1>1 DEF WorkRecord
  <2> HIDE DEF r
  <2>3. FreshRecord(r, counter, asked)
    BY <1>1, <2>2 DEF FreshRecord, FreshInv, FreshRegister
  <2> QED BY <2>1, <2>3, ReadFresh
<1>4. CASE ReadTick(w)
  <2> DEFINE r == [work[w] EXCEPT !.base = ticks, !.at = "write"]
  <2>1. work' = [work EXCEPT ![w] = r] /\ UNCHANGED <<db, asked>>
    BY <1>1, <1>4 DEF ReadTick
  <2>2. r.seen = work[w].seen /\ r.kind = work[w].kind /\ r.user = work[w].user
    BY <1>1 DEF WorkRecord
  <2> HIDE DEF r
  <2>3. FreshRecord(r, counter, asked)
    BY <1>1, <2>2 DEF FreshRecord
  <2> QED BY <2>1, <2>3, ReadFresh
<1> QED BY <1>2, <1>3, <1>4

(* What a ready or an unready writes under the open round was asked for.   *)
LEMMA ConsentFresh ==
  ASSUME TypeOK, FreshInv, NEW w \in Worker, RecordReady(w) \/ WriteUnready(w) \/ Anchor(w)
  PROVE  FreshInv'
<1>1. FreshRecord(work[w], counter, asked)
  BY DEF FreshInv
<1>2. CASE RecordReady(w)
  <2>1. work[w].user \in asked
    BY <1>1, <1>2 DEF RecordReady, Doing, FreshRecord
  <2>2. FreshRegister(WithReady(w), counter, asked)
    BY <1>1, <2>1 DEF FreshRegister, FreshRecord, WithReady, SeenReady
  <2> QED BY <1>2, <2>2, WriteFresh DEF RecordReady
<1>3. CASE WriteUnready(w)
  <2> DEFINE r == [round  |-> Current(w), ready |-> work[w].seen.ready \ {work[w].user},
                   window |-> register.window]
  <2>1. register' = IF Withdraws(w) THEN r ELSE register
    BY <1>3 DEF WriteUnready
  <2>2. Withdraws(w) => FreshRegister(r, counter, asked)
    BY <1>1 DEF Withdraws, FreshRegister, FreshRecord
  <2> HIDE DEF r
  <2>3. FreshRegister(register', counter, asked)
    BY <2>1, <2>2 DEF FreshInv
  <2> QED BY <1>3, <2>3, WriteFresh DEF WriteUnready
<1>4. ~Anchor(w)
  BY <1>1 DEF Anchor, Doing, FreshRecord
<1> QED BY <1>2, <1>3, <1>4

LEMMA WorkFresh ==
  ASSUME TypeOK, FreshInv, ~Polled, NEW w \in Worker, Step(w)
  PROVE  FreshInv'
<1>1. ASSUME NEW u \in User, CallReady(w, u) \/ CallUnready(w, u) PROVE FreshInv'
  BY <1>1, BeginFresh DEF CallReady, CallUnready
<1>2. CASE CallAdvance(w) \/ CallPoll(w)
  BY <1>2, BeginFresh DEF CallAdvance, CallPoll
<1>3. ASSUME NEW k \in {"clock", "raw"}, CallTick(w, k) PROVE FreshInv'
  BY <1>3, BeginFresh DEF CallTick
<1>4. CASE ReadRegister(w) \/ PollReads(w) \/ PollRecounts(w) \/ ReadTick(w)
  BY <1>4, StageFresh
<1>5. CASE AdvanceRound(w) \/ FinalReady(w)
  BY <1>5, CloseFresh DEF AdvanceRound, FinalReady, StillOpen
<1>6. CASE ClockTick(w) \/ RawTick(w)
  <2>1. CASE ClockTick(w) /\ Boundary
    BY <2>1, CloseFresh DEF ClockTick
  <2>2. CASE ClockTick(w) /\ ~Boundary
    BY <2>2, WriteFresh DEF ClockTick, FreshInv
  <2>3. CASE RawTick(w)
    BY <2>3, WriteFresh DEF RawTick, FreshInv
  <2> QED BY <1>6, <2>1, <2>2, <2>3
<1>7. CASE Refuse(w) \/ LateReady(w)
  BY <1>7, WriteFresh DEF Refuse, LateReady, db, FreshInv
<1>8. CASE RecordReady(w) \/ WriteUnready(w) \/ Anchor(w)
  BY <1>8, ConsentFresh
<1> QED BY <1>1, <1>2, <1>3, <1>4, <1>5, <1>6, <1>7, <1>8 DEF Step

LEMMA WorldFresh ==
  ASSUME TypeOK, FreshInv, World
  PROVE  FreshInv'
<1>1. CASE Elapse
  <2>1. register'.round = register.round /\ register'.ready = register.ready
    BY <1>1 DEF Elapse, TypeOK, Register
  <2> QED BY <1>1, <2>1 DEF Elapse, FreshInv, FreshRegister, FreshRecord
<1>2. CASE UNCHANGED <<counter, register, work, asked>>
  BY <1>2 DEF FreshInv, FreshRegister, FreshRecord
<1> QED BY <1>1, <1>2 DEF World, SetGate, Enter, Leave

LEMMA StepFresh ==
  ASSUME TypeOK, ~Polled => FreshInv, [Next]_vars
  PROVE  (~Polled => FreshInv)'
<1>1. Polled' <=> Polled
  BY DEF Next, vars, Polled
<1>2. CASE UNCHANGED vars
  BY <1>1, <1>2 DEF vars, FreshInv, FreshRegister, FreshRecord
<1> QED BY <1>1, <1>2, WorkFresh, WorldFresh DEF Next

(* The final ready of a round finds only consents asked for in it.         *)
LEMMA FinalAsked ==
  ASSUME TypeOK, FreshInv, NEW w \in Worker, FinalReady(w)
  PROVE  living \subseteq asked
<1>1. FreshRecord(work[w], counter, asked) /\ work[w].user \in asked
  BY DEF FreshInv, FreshRecord, FinalReady, Doing
<1>2. living \subseteq WithReady(w).ready /\ WithReady(w).round = counter + 1
  BY DEF FinalReady, Resolves, StillOpen
<1>3. WithReady(w).round = Current(w)
      /\ WithReady(w).ready = SeenReady(w) \union {work[w].user}
  BY DEF WithReady
<1>4. SeenReady(w) \subseteq asked
  BY <1>1, <1>2, <1>3 DEF SeenReady, FreshRecord
<1> QED BY <1>1, <1>2, <1>3, <1>4

(* Without a deadline poll, the round that a final ready resolves had      *)
(* everyone who lives ask for it while it was open, however readies,       *)
(* withdrawals, advances, ticks and heartbeats interleave.                 *)
THEOREM ConsentIsFreshHolds == Spec => ConsentIsFresh
<1>1. Init => (~Polled => FreshInv)
  <2> SUFFICES ASSUME Init PROVE FreshInv
    OBVIOUS
  <2>1. \A w \in Worker : FreshRecord(work[w], 0, {})
    BY IdleFresh DEF Init
  <2> QED BY <2>1 DEF Init, FreshInv, FreshRegister, Genesis
<1>2. TypeOK /\ (~Polled => FreshInv) /\ [Next]_vars => (~Polled => FreshInv)'
  BY StepFresh
<1>3. TypeOK /\ (~Polled => FreshInv) /\ [Next]_vars
        => [\A w \in Worker : FinalReady(w) /\ ~Polled => living \subseteq asked]_vars
  BY FinalAsked
<1>4. Spec => []TypeOK
  BY RoundsTypes
<1> QED BY <1>1, <1>2, <1>3, <1>4, PTL DEF Spec, ConsentIsFresh

-----------------------------------------------------------------------------
(* The market.                                                             *)


LEMMA Sizes ==
  /\ IsFiniteSet(Entity) /\ MaxQty \in Nat /\ MaxBook \in Nat /\ Cap \in Nat /\ Rate \in 0..10
  /\ Price \subseteq Nat \ {0} /\ Endowment \in [Entity -> 0..Cap] /\ Purse \in [Entity -> Nat]
  /\ Siting \subseteq BOOLEAN
<1>1. {MaxQty, MaxBook, Cap, Rate} \subseteq Nat /\ Rate <= 10
  BY MarketAssumption
<1>2. Rate \in 0..10
  BY <1>1
<1> QED BY <1>1, <1>2, MarketAssumption

-----------------------------------------------------------------------------
(* A price is a number, and more than none.                                *)
LEMMA PricesAre == \A p \in Price : p \in Nat \ {0} /\ p \in Nat /\ p > 0
<1>1. Price \subseteq Nat \ {0}
  BY Sizes
<1>2. \A p \in Nat \ {0} : p \in Nat /\ p > 0
  OBVIOUS
<1> QED BY <1>1, <1>2

(* The book.                                                               *)
LEMMA RestingFinite ==
  ASSUME NEW bk \in Seq(Order)
  PROVE  /\ IsFiniteSet(Resting(bk)) /\ Resting(bk) \subseteq Nat /\ Resting(bk) \subseteq 1..Len(bk)
         /\ Cardinality(Resting(bk)) \in 0..Len(bk)
         /\ DOMAIN bk = 1..Len(bk) /\ Len(bk) \in Nat
<1>1. DOMAIN bk = 1..Len(bk) /\ Len(bk) \in Nat
  OBVIOUS
<1>2. IsFiniteSet(1..Len(bk)) /\ Cardinality(1..Len(bk)) = Len(bk)
  BY <1>1, FS_Interval
<1>3. Resting(bk) \in SUBSET (1..Len(bk))
  BY <1>1 DEF Resting
<1>4. IsFiniteSet(Resting(bk)) /\ Cardinality(Resting(bk)) <= Len(bk)
  BY <1>2, <1>3, FS_Subset
<1>5. Cardinality(Resting(bk)) \in Nat
  BY <1>4, FS_CardinalityType
<1> QED BY <1>1, <1>3, <1>4, <1>5

LEMMA OrderIs ==
  ASSUME NEW o \in Order
  PROVE  /\ o.owner \in Entity /\ o.side \in {"buy", "sell"} /\ o.price \in Price /\ o.price \in Nat /\ o.price > 0
         /\ o.left \in 0..MaxQty /\ o.left \in Nat /\ o.open \in BOOLEAN
<1>1. o.owner \in Entity /\ o.side \in {"buy", "sell"} /\ o.price \in Price /\ o.left \in 0..MaxQty /\ o.open \in BOOLEAN
  BY DEF Order, Side
<1>2. o.price \in Nat \ {0}
  BY <1>1, PricesAre
<1>3. o.left \in Nat
  BY <1>1, Sizes
<1>4. o.price \in Nat /\ o.price > 0
  BY <1>2
<1> QED BY <1>1, <1>3, <1>4

(* The k-th of a set of orders runs through it.                            *)
LEMMA NthIs ==
  ASSUME NEW S, S \subseteq Nat, IsFiniteSet(S)
  PROVE  [k \in 1..Cardinality(S) |-> Nth(S, k)] \in Bijection(1..Cardinality(S), S)
<1> DEFINE n == Cardinality(S)
           rank == [i \in S |-> Cardinality({j \in S : j <= i})]
           nth == [k \in 1..n |-> Nth(S, k)]
<1>1. rank \in Bijection(S, 1..n)
  BY Ranks
<1>2. /\ \A i \in S : rank[i] \in 1..n
      /\ \A i, j \in S : rank[i] = rank[j] => i = j
      /\ \A k \in 1..n : \E i \in S : rank[i] = k
  <2> HIDE DEF rank, n
  <2> QED BY <1>1 DEF Bijection, Injection, Surjection, IsInjective
<1>3. ASSUME NEW k \in 1..n PROVE Nth(S, k) \in S /\ rank[Nth(S, k)] = k
  <2>1. PICK i \in S : rank[i] = k
    BY <1>2
  <2>2. Cardinality({j \in S : j <= i}) = k
    BY <2>1
  <2>3. Nth(S, k) \in S /\ Cardinality({j \in S : j <= Nth(S, k)}) = k
    <3> DEFINE at(m) == m \in S /\ Cardinality({j \in S : j <= m}) = k
    <3>1. \E m : at(m)
      BY <2>2
    <3>2. at(CHOOSE m : at(m))
      BY <3>1
    <3>3. Nth(S, k) = CHOOSE m : at(m)
      BY DEF Nth
    <3> QED BY <3>2, <3>3
  <2> QED BY <2>3
<1> HIDE DEF rank, n
<1>4. nth \in [1..n -> S]
  BY <1>3
<1>5. \A k, l \in 1..n : nth[k] = nth[l] => k = l
  BY <1>3
<1>6. \A i \in S : \E k \in 1..n : nth[k] = i
  <2> TAKE i \in S
  <2>1. rank[i] \in 1..n
    BY <1>2
  <2>2. nth[rank[i]] = i
    BY <1>2, <1>3, <2>1
  <2> QED BY <2>1, <2>2
<1> HIDE DEF nth
<1>7. nth \in Bijection(1..n, S)
  BY <1>4, <1>5, <1>6 DEF Bijection, Injection, Surjection, IsInjective
<1> QED BY <1>7 DEF nth, n

(* A purge keeps the open orders, as they are.                             *)
LEMMA KeptIs ==
  ASSUME NEW bk \in Seq(Order)
  PROVE  /\ Kept(bk) \in Seq(Order)
         /\ Len(Kept(bk)) = Cardinality(Resting(bk)) /\ Len(Kept(bk)) <= Len(bk)
         /\ Resting(Kept(bk)) = 1..Len(Kept(bk))
         /\ [k \in 1..Len(Kept(bk)) |-> Nth(Resting(bk), k)] \in Bijection(1..Len(Kept(bk)), Resting(bk))
         /\ \A k \in 1..Len(Kept(bk)) : /\ Kept(bk)[k] = bk[Nth(Resting(bk), k)]
                                         /\ Nth(Resting(bk), k) \in Resting(bk)
<1> DEFINE T == Resting(bk)
           n == Cardinality(T)
<1>1. IsFiniteSet(T) /\ T \subseteq Nat /\ n \in 0..Len(bk) /\ T \subseteq DOMAIN bk /\ n \in Nat
  BY RestingFinite
<1>2. [k \in 1..n |-> Nth(T, k)] \in Bijection(1..n, T)
  BY <1>1, NthIs
<1>3. \A k \in 1..n : Nth(T, k) \in T
  <2> HIDE DEF n, T
  <2> QED BY <1>2 DEF Bijection, Injection
<1>4. Kept(bk) = [k \in 1..n |-> bk[Nth(T, k)]]
  BY DEF Kept
<1>5. \A i \in T : bk[i] \in Order /\ bk[i].open
  BY DEF Resting
<1> HIDE DEF n, T
<1>6. Kept(bk) \in [1..n -> Order]
  BY <1>3, <1>4, <1>5
<1>7. Kept(bk) \in Seq(Order) /\ Len(Kept(bk)) = n /\ DOMAIN Kept(bk) = 1..n
  BY <1>1, <1>6
<1>8. \A k \in 1..n : Kept(bk)[k] = bk[Nth(T, k)] /\ Kept(bk)[k].open
  BY <1>3, <1>4, <1>5
<1>9. Resting(Kept(bk)) = 1..n
  BY <1>7, <1>8 DEF Resting
<1> QED BY <1>1, <1>2, <1>3, <1>7, <1>8, <1>9 DEF n, T

(* What an entity claims of the shelf: the asks of a set of its orders.    *)
Asking(bk, e) == {i \in DOMAIN bk : bk[i].open /\ bk[i].owner = e /\ bk[i].side = "sell"}
Lefts(bk) == [i \in DOMAIN bk |-> bk[i].left]

LEMMA LeftIs ==
  ASSUME NEW bk \in Seq(Order), NEW S, S \subseteq DOMAIN bk
  PROVE  /\ Left(bk, S) = Total(Lefts(bk), S) /\ Left(bk, S) \in Nat
         /\ IsFiniteSet(S) /\ Counts(Lefts(bk), S)
<1>1. IsFiniteSet(S)
  <2>1. DOMAIN bk = 1..Len(bk) /\ Len(bk) \in Nat
    OBVIOUS
  <2>2. IsFiniteSet(1..Len(bk))
    BY <2>1, FS_Interval
  <2> QED BY <2>1, <2>2, FS_Subset
<1>2. Counts(Lefts(bk), S)
  <2> SUFFICES ASSUME NEW i \in S PROVE Lefts(bk)[i] \in Nat
    BY DEF Counts
  <2>1. bk[i] \in Order
    OBVIOUS
  <2> QED BY <2>1, OrderIs DEF Lefts
<1>3. Left(bk, S) = Total([i \in S |-> bk[i].left], S)
  BY DEF Left
<1>4. \A i \in S : [j \in S |-> bk[j].left][i] = Lefts(bk)[i]
  BY DEF Lefts
<1>5. Left(bk, S) = Total(Lefts(bk), S)
  BY <1>3, <1>4, TotalSame
<1> QED BY <1>1, <1>2, <1>5, TotalType

LEMMA ClaimedIs ==
  ASSUME NEW bk \in Seq(Order), NEW e
  PROVE  /\ Claimed(bk, e) = Total(Lefts(bk), Asking(bk, e)) /\ Claimed(bk, e) \in Nat
         /\ Asking(bk, e) \subseteq DOMAIN bk
         /\ IsFiniteSet(Asking(bk, e)) /\ Counts(Lefts(bk), Asking(bk, e))
<1>1. Asking(bk, e) \subseteq DOMAIN bk
  BY DEF Asking
<1>2. Of(bk, e) \cap On(bk, "sell") = Asking(bk, e)
  BY DEF Of, On, Resting, Asking
<1> QED BY <1>1, <1>2, LeftIs DEF Claimed

(* Orders of the same kinds claim alike.                                   *)
LEMMA KeptClaims ==
  ASSUME NEW bk \in Seq(Order), NEW e
  PROVE  Claimed(Kept(bk), e) = Claimed(bk, e)
<1> DEFINE kb == Kept(bk)
           n == Len(kb)
           nth == [k \in 1..n |-> Nth(Resting(bk), k)]
           X == Asking(kb, e)
           Y == Asking(bk, e)
           h == [k \in X |-> nth[k]]
<1>1. /\ kb \in Seq(Order) /\ nth \in Bijection(1..n, Resting(bk))
      /\ \A k \in 1..n : kb[k] = bk[nth[k]] /\ nth[k] \in Resting(bk)
      /\ DOMAIN kb = 1..n
  BY KeptIs
<1>2. /\ \A k, l \in 1..n : nth[k] = nth[l] => k = l
      /\ \A i \in Resting(bk) : \E k \in 1..n : nth[k] = i
  <2> HIDE DEF nth, n
  <2> QED BY <1>1 DEF Bijection, Injection, Surjection, IsInjective
<1> HIDE DEF nth, kb
<1>3. X \subseteq 1..n
  BY <1>1 DEF Asking
<1>4. \A k \in X : nth[k] \in Y
  BY <1>1, <1>3 DEF Asking, Resting
<1>5. \A i \in Y : \E k \in X : nth[k] = i
  <2> TAKE i \in Y
  <2>1. i \in Resting(bk) /\ bk[i].open /\ bk[i].owner = e /\ bk[i].side = "sell"
    BY DEF Asking, Resting
  <2>2. PICK k \in 1..n : nth[k] = i
    BY <1>2, <2>1
  <2>3. k \in X
    BY <1>1, <2>1, <2>2 DEF Asking
  <2> QED BY <2>2, <2>3
<1> HIDE DEF X, Y
<1>6. h \in Bijection(X, Y)
  <2>1. h \in [X -> Y] /\ \A k \in X : h[k] = nth[k]
    BY <1>4
  <2> HIDE DEF h
  <2>2. \A k, l \in X : h[k] = h[l] => k = l
    BY <1>2, <1>3, <2>1
  <2>3. \A i \in Y : \E k \in X : h[k] = i
    BY <1>5, <2>1
  <2> QED BY <2>1, <2>2, <2>3 DEF Bijection, Injection, Surjection, IsInjective
<1>7. \A k \in X : Lefts(bk)[h[k]] = Lefts(kb)[k]
  <2> TAKE k \in X
  <2>1. h[k] = nth[k] /\ kb[k] = bk[nth[k]] /\ k \in DOMAIN kb /\ nth[k] \in DOMAIN bk
    BY <1>1, <1>3 DEF Resting
  <2> QED BY <2>1 DEF Lefts
<1>8. IsFiniteSet(X) /\ Counts(Lefts(kb), X)
  BY <1>1, ClaimedIs DEF X
<1> HIDE DEF h
<1>9. Total(Lefts(bk), Y) = Total(Lefts(kb), X)
  BY <1>6, <1>7, <1>8, TotalRenamed
<1> QED BY <1>1, <1>9, ClaimedIs DEF X, Y, kb

(* A cancellation takes orders off the book and touches nothing else.      *)
LEMMA CancelledIs ==
  ASSUME NEW bk \in Seq(Order), NEW S
  PROVE  /\ Cancelled(bk, S) \in Seq(Order) /\ Len(Cancelled(bk, S)) = Len(bk)
         /\ DOMAIN Cancelled(bk, S) = DOMAIN bk
         /\ Resting(Cancelled(bk, S)) = Resting(bk) \ S
         /\ \A i \in DOMAIN bk : /\ Cancelled(bk, S)[i].owner = bk[i].owner
                                 /\ Cancelled(bk, S)[i].side = bk[i].side
                                 /\ Cancelled(bk, S)[i].price = bk[i].price
                                 /\ Cancelled(bk, S)[i].left = bk[i].left
                                 /\ Cancelled(bk, S)[i].open <=> bk[i].open /\ i \notin S
<1> DEFINE cb == Cancelled(bk, S)
<1>1. DOMAIN bk = 1..Len(bk) /\ Len(bk) \in Nat /\ \A i \in DOMAIN bk : bk[i] \in Order
  OBVIOUS
<1>2. cb = [i \in DOMAIN bk |-> IF i \in S THEN [bk[i] EXCEPT !.open = FALSE] ELSE bk[i]]
  BY DEF Cancelled
<1>3. \A i \in DOMAIN bk : [bk[i] EXCEPT !.open = FALSE] \in Order
  BY <1>1 DEF Order
<1>4. cb \in [1..Len(bk) -> Order]
  BY <1>1, <1>2, <1>3
<1>5. cb \in Seq(Order) /\ Len(cb) = Len(bk) /\ DOMAIN cb = DOMAIN bk
  BY <1>1, <1>4
<1>6. ASSUME NEW i \in DOMAIN bk
      PROVE  /\ cb[i].owner = bk[i].owner /\ cb[i].side = bk[i].side
             /\ cb[i].price = bk[i].price /\ cb[i].left = bk[i].left
             /\ cb[i].open <=> bk[i].open /\ i \notin S
  <2>1. bk[i] \in Order
    BY <1>1
  <2>2. CASE i \in S
    <3>1. cb[i] = [bk[i] EXCEPT !.open = FALSE]
      BY <1>2, <2>2
    <3> HIDE DEF cb
    <3> QED BY <2>1, <2>2, <3>1 DEF Order
  <2>3. CASE i \notin S
    BY <1>2, <2>3
  <2> QED BY <2>2, <2>3
<1> HIDE DEF cb
<1>7. Resting(cb) = Resting(bk) \ S
  BY <1>5, <1>6 DEF Resting
<1> QED BY <1>5, <1>6, <1>7 DEF cb

LEMMA CancelledClaims ==
  ASSUME NEW bk \in Seq(Order), NEW S, NEW e
  PROVE  /\ Claimed(Cancelled(bk, S), e) <= Claimed(bk, e)
         /\ S = {} => Claimed(Cancelled(bk, S), e) = Claimed(bk, e)
<1> DEFINE cb == Cancelled(bk, S)
<1>1. /\ cb \in Seq(Order) /\ DOMAIN cb = DOMAIN bk
      /\ \A i \in DOMAIN bk : /\ cb[i].owner = bk[i].owner /\ cb[i].side = bk[i].side /\ cb[i].left = bk[i].left
                              /\ cb[i].open <=> bk[i].open /\ i \notin S
  BY CancelledIs
<1> HIDE DEF cb
<1>2. Asking(cb, e) \subseteq Asking(bk, e) /\ (S = {} => Asking(cb, e) = Asking(bk, e))
  BY <1>1 DEF Asking
<1>3. Lefts(cb) = Lefts(bk)
  BY <1>1 DEF Lefts
<1>4. Counts(Lefts(bk), Asking(bk, e)) /\ IsFiniteSet(Asking(bk, e))
  BY ClaimedIs
<1>5. \A i \in Asking(cb, e) : Lefts(bk)[i] \in Nat /\ Lefts(bk)[i] <= Lefts(bk)[i]
  BY <1>2, <1>4 DEF Counts
<1>6. Total(Lefts(cb), Asking(cb, e)) <= Total(Lefts(bk), Asking(bk, e))
  BY <1>2, <1>3, <1>4, <1>5, TotalLess
<1> QED BY <1>1, <1>2, <1>3, <1>6, ClaimedIs DEF cb

LEMMA PurgedIs ==
  ASSUME NEW bk \in Seq(Order)
  PROVE  /\ Purged(bk) \in Seq(Order) /\ Len(Purged(bk)) <= Len(bk) /\ Len(Purged(bk)) \in Nat
         /\ \A e : Claimed(Purged(bk), e) = Claimed(bk, e)
         /\ \A k \in Resting(Purged(bk)) : \E i \in Resting(bk) : Purged(bk)[k] = bk[i]
<1>1. CASE Purged(bk) = bk
  BY <1>1
<1>2. CASE Purged(bk) = Kept(bk)
  <2> DEFINE kb == Kept(bk)
             nth(k) == Nth(Resting(bk), k)
  <2>1. /\ kb \in Seq(Order) /\ Len(kb) <= Len(bk) /\ Resting(kb) = 1..Len(kb)
        /\ \A k \in 1..Len(kb) : kb[k] = bk[nth(k)] /\ nth(k) \in Resting(bk)
    BY KeptIs
  <2>2. \A e : Claimed(kb, e) = Claimed(bk, e)
    BY KeptClaims
  <2> HIDE DEF kb, nth
  <2>3. Len(kb) \in Nat
    BY <2>1
  <2>4. \A k \in Resting(kb) : \E i \in Resting(bk) : kb[k] = bk[i]
    BY <2>1
  <2> QED BY <1>2, <2>1, <2>2, <2>3, <2>4 DEF kb
<1> QED BY <1>1, <1>2 DEF Purged

(* A new order claims what it asks.                                        *)
Asked(d, e, side, q) == IF d = e /\ side = "sell" THEN q ELSE 0
Appended(nb, bk, o) == nb = Append(bk, o)
NewOrder(e, side, p, q) == [owner |-> e, side |-> side, price |-> p, left |-> q, open |-> TRUE]

LEMMA AppendedClaims ==
  ASSUME NEW bk \in Seq(Order), NEW e \in Entity, NEW side \in {"buy", "sell"},
         NEW p \in Price, NEW q \in 1..MaxQty, NEW nb, Appended(nb, bk, NewOrder(e, side, p, q)), NEW d
  PROVE  /\ nb \in Seq(Order) /\ Len(nb) = Len(bk) + 1
         /\ \A k \in Resting(nb) : (k \in Resting(bk) /\ nb[k] = bk[k]) \/ nb[k] = NewOrder(e, side, p, q)
         /\ Claimed(nb, d) = Claimed(bk, d) + Asked(d, e, side, q)
<1> DEFINE o == NewOrder(e, side, p, q)
           z == Len(bk) + 1
<1>1. o \in Order /\ o.owner = e /\ o.side = side /\ o.left = q /\ o.open /\ q \in Nat
  BY Sizes DEF Order, NewOrder, Side
<1>2. DOMAIN bk = 1..Len(bk) /\ Len(bk) \in Nat
  OBVIOUS
<1> HIDE DEF o
<1>3. nb \in Seq(Order) /\ Len(nb) = z /\ nb[z] = o /\ DOMAIN nb = 1..z
      /\ \A i \in DOMAIN bk : nb[i] = bk[i]
  BY <1>1, <1>2 DEF o, Appended
<1>4. DOMAIN nb = DOMAIN bk \cup {z} /\ z \notin DOMAIN bk
  BY <1>2, <1>3
<1> HIDE DEF z
<1>5. \A k \in Resting(nb) : (k \in Resting(bk) /\ nb[k] = bk[k]) \/ nb[k] = o
  BY <1>3, <1>4 DEF Resting
<1>6. \A i \in DOMAIN bk : Lefts(nb)[i] = Lefts(bk)[i]
  BY <1>3, <1>4 DEF Lefts
<1>7. Lefts(nb)[z] = q
  BY <1>1, <1>3, <1>4 DEF Lefts
<1>8. IsFiniteSet(Asking(bk, d)) /\ Counts(Lefts(bk), Asking(bk, d)) /\ Asking(bk, d) \subseteq DOMAIN bk
  BY ClaimedIs
<1>9. Total(Lefts(nb), Asking(bk, d)) = Total(Lefts(bk), Asking(bk, d))
  BY <1>6, <1>8, TotalSame
<1>10. Counts(Lefts(nb), Asking(bk, d))
  BY <1>6, <1>8 DEF Counts
<1>11. Claimed(bk, d) = Total(Lefts(bk), Asking(bk, d)) /\ Claimed(nb, d) = Total(Lefts(nb), Asking(nb, d))
  BY <1>3, ClaimedIs
<1>12. CASE d = e /\ side = "sell"
  <2>1. Asking(nb, d) = Asking(bk, d) \cup {z} /\ z \notin Asking(bk, d)
    BY <1>1, <1>3, <1>4, <1>12 DEF Asking
  <2>2. Total(Lefts(nb), Asking(nb, d)) = Total(Lefts(nb), Asking(bk, d)) + q
    BY <1>1, <1>7, <1>8, <1>10, <2>1, TotalAdd
  <2>3. Claimed(nb, d) = Claimed(bk, d) + Asked(d, e, side, q)
    BY <1>9, <1>11, <1>12, <2>2 DEF Asked
  <2> QED BY <1>3, <1>5, <2>3 DEF o, z
<1>13. CASE ~(d = e /\ side = "sell")
  <2>1. Asking(nb, d) = Asking(bk, d)
    BY <1>1, <1>3, <1>4, <1>13 DEF Asking
  <2>2. Claimed(bk, d) \in Nat
    BY ClaimedIs
  <2>3. Claimed(nb, d) = Claimed(bk, d) + Asked(d, e, side, q)
    BY <1>9, <1>11, <1>13, <2>1, <2>2 DEF Asked
  <2> QED BY <1>3, <1>5, <2>3 DEF o, z
<1> QED BY <1>12, <1>13

-----------------------------------------------------------------------------
(* What holds between any two steps of the market.                         *)
WhoTyped ==
  /\ phase \in {"idle", "arrive", "intents", "settle", "sweep", "rot", "death"}
  /\ placed \in BOOLEAN /\ alive \subseteq Entity /\ here \subseteq Entity

StockTyped == held \in [Entity -> 0..Cap] /\ shelf \in [Entity -> Nat] /\ coins \in [Entity -> Nat]

BookTyped ==
  /\ book \in Seq(Order) /\ Len(book) + Pending <= MaxBook
  /\ \A i \in Resting(book) : book[i].left > 0

Requested ==
  hand # NoRequest =>
    /\ hand.for \in Entity /\ hand.side \in {"buy", "sell"} /\ hand.price \in Price
    /\ hand.qty \in 1..MaxQty /\ hand.short \in Nat /\ hand.have \in 0..Cap

(* What is in the queues is open and eligible, and what is eligible and    *)
(* not in them has stepped aside.                                          *)
QueuesTyped ==
  /\ {last, price} \subseteq Price \cup {0}
  /\ bids \subseteq On(book, "buy") /\ asks \subseteq On(book, "sell")
  /\ phase # "settle" => bids = {} /\ asks = {}
  /\ phase = "settle" =>
       /\ price \in Price
       /\ \A i \in bids : book[i].price >= price
       /\ \A i \in asks : book[i].price <= price
       /\ \A i \in Eligible("buy") : i \in bids \/ SteppedAside(i)
       /\ \A i \in Eligible("sell") : i \in asks \/ SteppedAside(i)

Orderly == WhoTyped /\ StockTyped /\ BookTyped /\ Requested /\ QueuesTyped

LEMMA InHandIs == Pending \in {0, 1} /\ (hand = NoRequest => Pending = 0) /\ (hand # NoRequest => Pending = 1)
BY DEF Pending

LEMMA OrderlyTypes ==
  ASSUME Orderly
  PROVE  MarketTypeOK
<1>1. Len(book) \in Nat /\ Len(book) <= MaxBook
  BY InHandIs, Sizes DEF Orderly, BookTyped
<1>2. bids \cup asks \subseteq DOMAIN book
  BY DEF Orderly, QueuesTyped, On, Resting
<1> QED BY <1>1, <1>2 DEF Orderly, MarketTypeOK, WhoTyped, StockTyped, BookTyped, QueuesTyped

LEMMA StartsOrderly ==
  ASSUME MarketInit
  PROVE  Orderly
<1>1. WhoTyped /\ StockTyped
  BY Sizes DEF MarketInit, WhoTyped, StockTyped
<1>2. BookTyped
  BY Sizes, InHandIs DEF MarketInit, BookTyped, Resting
<1>3. Requested /\ QueuesTyped
  BY DEF MarketInit, Requested, QueuesTyped
<1> QED BY <1>1, <1>2, <1>3 DEF Orderly

(* Weeding the book.                                                       *)
LEMMA Weeded ==
  ASSUME BookTyped, NEW S,
         NEW rest \in {Purged(Cancelled(book, S)), Kept(Cancelled(book, S))}
  PROVE  /\ rest \in Seq(Order) /\ Len(rest) <= Len(book) /\ Len(rest) \in Nat
         /\ \A k \in Resting(rest) :
              \E i \in Resting(book) \ S : rest[k].left = book[i].left /\ rest[k].owner = book[i].owner
         /\ \A e : Claimed(rest, e) <= Claimed(book, e)
         /\ S = {} => \A e : Claimed(rest, e) = Claimed(book, e)
<1> DEFINE cb == Cancelled(book, S)
<1>1. /\ cb \in Seq(Order) /\ Len(cb) = Len(book) /\ Resting(cb) = Resting(book) \ S
      /\ \A i \in Resting(cb) : cb[i].left = book[i].left /\ cb[i].owner = book[i].owner
  <2>1. book \in Seq(Order)
    BY DEF BookTyped
  <2> QED BY <2>1, CancelledIs DEF Resting
<1>2. \A e : Claimed(cb, e) <= Claimed(book, e) /\ (S = {} => Claimed(cb, e) = Claimed(book, e))
  BY CancelledClaims DEF BookTyped
<1> HIDE DEF cb
<1>3. /\ rest \in Seq(Order) /\ Len(rest) <= Len(cb) /\ Len(rest) \in Nat
      /\ \A e : Claimed(rest, e) = Claimed(cb, e)
      /\ \A k \in Resting(rest) : \E i \in Resting(cb) : rest[k] = cb[i]
  <2>1. CASE rest = Purged(cb)
    BY <1>1, <2>1, PurgedIs
  <2>2. CASE rest = Kept(cb)
    <3> DEFINE nth(k) == Nth(Resting(cb), k)
    <3>1. /\ rest \in Seq(Order) /\ Len(rest) <= Len(cb) /\ Resting(rest) = 1..Len(rest)
          /\ \A k \in 1..Len(rest) : rest[k] = cb[nth(k)] /\ nth(k) \in Resting(cb)
      BY <1>1, <2>2, KeptIs
    <3> HIDE DEF nth
    <3>2. Len(rest) \in Nat
      BY <3>1
    <3> QED BY <1>1, <2>2, <3>1, <3>2, KeptClaims
  <2> QED BY <2>1, <2>2 DEF cb
<1>4. \A k \in Resting(rest) :
         \E i \in Resting(book) \ S : rest[k].left = book[i].left /\ rest[k].owner = book[i].owner
  BY <1>1, <1>3
<1> QED BY <1>1, <1>2, <1>3, <1>4

(* The arithmetic of the shelf.                                            *)
LEMMA ShortfallIs ==
  ASSUME shelf \in [Entity -> Nat], NEW bk \in Seq(Order), NEW e \in Entity,
         NEW side \in {"buy", "sell"}, NEW q \in 1..MaxQty
  PROVE  /\ FreeShelf(bk, e) \in 0..shelf[e]
         /\ shelf[e] - FreeShelf(bk, e) <= Claimed(bk, e)
         /\ Claimed(bk, e) <= shelf[e] => shelf[e] - FreeShelf(bk, e) = Claimed(bk, e)
         /\ Shortfall(bk, e, side, q) \in 0..q
         /\ Shortfall(bk, e, side, q) > 0 =>
              placed /\ side = "sell" /\ Shortfall(bk, e, side, q) = q - FreeShelf(bk, e)
         /\ placed /\ side = "sell" => q <= FreeShelf(bk, e) + Shortfall(bk, e, side, q)
<1>1. Claimed(bk, e) \in Nat /\ shelf[e] \in Nat /\ q \in Nat
  BY ClaimedIs, Sizes
<1>2. FreeShelf(bk, e) = IF shelf[e] <= Claimed(bk, e) THEN 0 ELSE shelf[e] - Claimed(bk, e)
  BY <1>1 DEF FreeShelf, Smaller
<1>3. Shortfall(bk, e, side, q) =
        IF placed /\ side = "sell" /\ q > FreeShelf(bk, e) THEN q - FreeShelf(bk, e) ELSE 0
  BY <1>1, <1>2 DEF Shortfall, Excess
<1> QED BY <1>1, <1>2, <1>3

(* An order accepted, its shortfall delivered.                             *)
LEMMA Accepting ==
  ASSUME StockTyped, NEW bk \in Seq(Order), NEW e \in Entity, NEW side \in {"buy", "sell"},
         NEW p \in Price, NEW q \in 1..MaxQty, NEW short \in Nat, NEW have \in 0..Cap, short <= have,
         Accept(bk, e, side, p, q, short, have),
         \A k \in Resting(bk) : bk[k].left > 0
  PROVE  /\ held' \in [Entity -> 0..Cap] /\ shelf' \in [Entity -> Nat]
         /\ book' \in Seq(Order) /\ Len(book') = Len(bk) + 1
         /\ \A k \in Resting(book') : book'[k].left > 0
         /\ \A k \in Resting(book') : book'[k].owner = e \/ \E i \in Resting(bk) : book'[k] = bk[i]
         /\ \A d : Claimed(book', d) = Claimed(bk, d) + Asked(d, e, side, q)
         /\ \A d \in Entity : shelf'[d] = shelf[d] + (IF d = e THEN short ELSE 0)
         /\ held' = (IF short = 0 THEN held ELSE [held EXCEPT ![e] = have - short])
<1>1. Appended(book', bk, NewOrder(e, side, p, q))
  BY DEF Accept, NewOrder, Appended
<1>2. NewOrder(e, side, p, q).left > 0 /\ NewOrder(e, side, p, q).owner = e
  <2>1. NewOrder(e, side, p, q).left = q /\ NewOrder(e, side, p, q).owner = e
    BY DEF NewOrder
  <2> QED BY <2>1, Sizes
<1>3. /\ book' \in Seq(Order) /\ Len(book') = Len(bk) + 1
      /\ \A k \in Resting(book') : (k \in Resting(bk) /\ book'[k] = bk[k]) \/ book'[k] = NewOrder(e, side, p, q)
      /\ \A d : Claimed(book', d) = Claimed(bk, d) + Asked(d, e, side, q)
  <2> DEFINE o == NewOrder(e, side, p, q)
  <2>1. ASSUME NEW d
        PROVE  /\ book' \in Seq(Order) /\ Len(book') = Len(bk) + 1
               /\ \A k \in Resting(book') : (k \in Resting(bk) /\ book'[k] = bk[k]) \/ book'[k] = o
               /\ Claimed(book', d) = Claimed(bk, d) + Asked(d, e, side, q)
    BY <1>1, AppendedClaims, SMTT(40)
  <2> HIDE DEF o
  <2>2. /\ book' \in Seq(Order) /\ Len(book') = Len(bk) + 1
        /\ \A k \in Resting(book') : (k \in Resting(bk) /\ book'[k] = bk[k]) \/ book'[k] = o
    BY <2>1, Zenon
  <2>3. \A d : Claimed(book', d) = Claimed(bk, d) + Asked(d, e, side, q)
    BY <2>1, Zenon
  <2> QED BY <2>2, <2>3, Zenon DEF o
<1>4. /\ \A k \in Resting(book') : book'[k].left > 0
      /\ \A k \in Resting(book') : book'[k].owner = e \/ \E i \in Resting(bk) : book'[k] = bk[i]
  BY <1>2, <1>3
<1>5. /\ held' = (IF short = 0 THEN held ELSE [held EXCEPT ![e] = have - short])
      /\ shelf' = (IF short = 0 THEN shelf ELSE [shelf EXCEPT ![e] = @ + short])
  BY DEF Accept
<1>6. have - short \in 0..Cap
  BY Sizes
<1>7. held' \in [Entity -> 0..Cap] /\ shelf' \in [Entity -> Nat]
  BY <1>5, <1>6 DEF StockTyped
<1>8. \A d \in Entity : shelf'[d] = shelf[d] + (IF d = e THEN short ELSE 0)
  BY <1>5 DEF StockTyped
<1> QED BY <1>3, <1>4, <1>5, <1>7, <1>8

(* Outside an auction its queues are empty.                                *)
LEMMA QueuesRest ==
  ASSUME QueuesTyped, phase # "settle", phase' # "settle", UNCHANGED <<last, auction>>
  PROVE  QueuesTyped'
BY DEF QueuesTyped, auction

(* Within one nobody joins them, and who leaves is closed or steps aside.  *)
LEMMA QueuesShrink ==
  ASSUME BookTyped, BookTyped', QueuesTyped, phase = "settle", phase' = phase, price' = price,
         last' \in {last, price}, DOMAIN book' = DOMAIN book,
         \A i \in DOMAIN book : /\ book'[i].owner = book[i].owner /\ book'[i].side = book[i].side
                                /\ book'[i].price = book[i].price
                                /\ book'[i].open => book[i].open,
         bids' \subseteq bids, asks' \subseteq asks,
         \A i \in bids' \cup asks' : book'[i].open,
         \A i \in bids \ bids' : ~book'[i].open \/ SteppedAside(i),
         \A i \in asks \ asks' : ~book'[i].open \/ SteppedAside(i)
  PROVE  QueuesTyped'
<1>1. bids' \subseteq On(book, "buy")' /\ asks' \subseteq On(book, "sell")'
  BY DEF QueuesTyped, On, Resting
<1>2. /\ \A i \in bids' : book'[i].price >= price'
      /\ \A i \in asks' : book'[i].price <= price'
  BY DEF QueuesTyped, On, Resting
<1>3. \A i \in DOMAIN book : SteppedAside(i) => SteppedAside(i)'
  <2> TAKE i \in DOMAIN book
  <2>1. DOMAIN book = 1..Len(book) /\ Len(book) \in Nat
    BY DEF BookTyped
  <2>2. \A j \in 1..i : j \in DOMAIN book
    BY <2>1
  <2> QED BY <2>2 DEF SteppedAside
<1>4. \A i \in Eligible("buy")' : i \in bids' \/ SteppedAside(i)'
  <2> TAKE i \in Eligible("buy")'
  <2>1. i \in DOMAIN book /\ book'[i].open /\ i \in Eligible("buy")
    BY DEF Eligible, On, Resting
  <2> QED BY <1>3, <2>1 DEF QueuesTyped
<1>5. \A i \in Eligible("sell")' : i \in asks' \/ SteppedAside(i)'
  <2> TAKE i \in Eligible("sell")'
  <2>1. i \in DOMAIN book /\ book'[i].open /\ i \in Eligible("sell")
    BY DEF Eligible, On, Resting
  <2> QED BY <1>3, <2>1 DEF QueuesTyped
<1> QED BY <1>1, <1>2, <1>4, <1>5 DEF QueuesTyped

(* The foremost of a queue.                                                *)
LEMMA QueueFinite ==
  ASSUME BookTyped, NEW S, S \subseteq DOMAIN book
  PROVE  IsFiniteSet(S) /\ S \subseteq Nat
<1>1. DOMAIN book = 1..Len(book) /\ Len(book) \in Nat
  BY DEF BookTyped
<1>2. IsFiniteSet(1..Len(book))
  BY <1>1, FS_Interval
<1> QED BY <1>1, <1>2, FS_Subset

LEMMA OrdersAre ==
  ASSUME BookTyped
  PROVE  \A i \in DOMAIN book : /\ i \in Nat /\ book[i] \in Order
                                /\ book[i].owner \in Entity /\ book[i].side \in {"buy", "sell"}
                                /\ book[i].price \in Price /\ book[i].price \in Nat /\ book[i].price > 0
                                /\ book[i].left \in Nat /\ book[i].left <= MaxQty /\ book[i].open \in BOOLEAN
<1> TAKE i \in DOMAIN book
<1>1. book[i] \in Order /\ i \in Nat
  BY DEF BookTyped
<1> QED BY <1>1, OrderIs, Sizes

LEMMA BestBidIs ==
  ASSUME BookTyped, QueuesTyped, bids # {}
  PROVE  BestBid \in bids /\ \A j \in bids \ {BestBid} : BuyFirst(BestBid, j)
<1> DEFINE R == {w \in bids \X bids : BuyFirst(w[1], w[2])}
<1>1. bids \subseteq DOMAIN book
  BY DEF QueuesTyped, On, Resting
<1>2. IsFiniteSet(bids)
  BY <1>1, QueueFinite
<1>3. \A i \in bids : i \in Nat /\ book[i].price \in Nat
  BY <1>1, OrdersAre
<1>4. \A i, j \in bids : BuyFirst(i, j) <=> book[i].price > book[j].price \/ (book[i].price = book[j].price /\ i < j)
  BY <1>3 DEF BuyFirst, Before
<1>5. \A i, j \in bids : <<i, j>> \in R <=> BuyFirst(i, j)
  OBVIOUS
<1> HIDE DEF R
<1>6. \A i \in bids : <<i, i>> \notin R
  BY <1>3, <1>4, <1>5
<1>7. \A i, j, k \in bids : <<i, j>> \in R /\ <<j, k>> \in R => <<i, k>> \in R
  BY <1>3, <1>4, <1>5
<1>8. PICK i \in bids : \A j \in bids : <<j, i>> \notin R
  BY <1>2, <1>6, <1>7, Foremost
<1>9. \A j \in bids \ {i} : BuyFirst(i, j)
  <2> TAKE j \in bids \ {i}
  <2>1. i \in Nat /\ j \in Nat /\ i # j /\ book[i].price \in Nat /\ book[j].price \in Nat
    BY <1>3
  <2>2. ~BuyFirst(j, i)
    BY <1>5, <1>8
  <2> QED BY <1>4, <2>1, <2>2
<1> QED BY <1>9 DEF BestBid

LEMMA BestAskIs ==
  ASSUME BookTyped, QueuesTyped, asks # {}
  PROVE  BestAsk \in asks /\ \A j \in asks \ {BestAsk} : SellFirst(BestAsk, j)
<1> DEFINE R == {w \in asks \X asks : SellFirst(w[1], w[2])}
<1>1. asks \subseteq DOMAIN book
  BY DEF QueuesTyped, On, Resting
<1>2. IsFiniteSet(asks)
  BY <1>1, QueueFinite
<1>3. \A i \in asks : i \in Nat /\ book[i].price \in Nat
  BY <1>1, OrdersAre
<1>4. \A i, j \in asks : SellFirst(i, j) <=> book[i].price < book[j].price \/ (book[i].price = book[j].price /\ i < j)
  BY <1>3 DEF SellFirst, Before
<1>5. \A i, j \in asks : <<i, j>> \in R <=> SellFirst(i, j)
  OBVIOUS
<1> HIDE DEF R
<1>6. \A i \in asks : <<i, i>> \notin R
  BY <1>3, <1>4, <1>5
<1>7. \A i, j, k \in asks : <<i, j>> \in R /\ <<j, k>> \in R => <<i, k>> \in R
  BY <1>3, <1>4, <1>5
<1>8. PICK i \in asks : \A j \in asks : <<j, i>> \notin R
  BY <1>2, <1>6, <1>7, Foremost
<1>9. \A j \in asks \ {i} : SellFirst(i, j)
  <2> TAKE j \in asks \ {i}
  <2>1. i \in Nat /\ j \in Nat /\ i # j /\ book[i].price \in Nat /\ book[j].price \in Nat
    BY <1>3
  <2>2. ~SellFirst(j, i)
    BY <1>5, <1>8
  <2> QED BY <1>4, <2>1, <2>2
<1> QED BY <1>9 DEF BestAsk

-----------------------------------------------------------------------------
(* Every step keeps the market orderly.                                    *)
LEMMA PlaceOrderly ==
  ASSUME Orderly, NEW e \in Entity, NEW side \in Side, NEW p \in Price, NEW q \in 1..MaxQty,
         Place(e, side, p, q)
  PROVE  Orderly'
<1> DEFINE rest == Purged(Cancelled(book, Level(book, e, side, p)))
           short == Shortfall(rest, e, side, q)
<1>1. /\ phase = "intents" /\ Len(rest) + Pending < MaxBook /\ short <= held[e]
      /\ Accept(rest, e, side, p, q, short, held[e])
      /\ UNCHANGED <<phase, placed, alive, here, coins, last, price, bids, asks, hand>>
  BY DEF Place, who, auction
<1>2. /\ rest \in Seq(Order) /\ Len(rest) \in Nat
      /\ \A k \in Resting(rest) : rest[k].left > 0
  <2>1. /\ rest \in Seq(Order) /\ Len(rest) \in Nat
        /\ \A k \in Resting(rest) :
             \E i \in Resting(book) \ Level(book, e, side, p) :
               rest[k].left = book[i].left /\ rest[k].owner = book[i].owner
    BY Weeded DEF Orderly
  <2> HIDE DEF rest
  <2> QED BY <2>1 DEF Orderly, BookTyped
<1> HIDE DEF rest
<1>3. side \in {"buy", "sell"} /\ short \in Nat /\ held[e] \in 0..Cap
  BY <1>2, ShortfallIs, Sizes DEF Orderly, StockTyped, Side
<1> HIDE DEF short
<1>4. /\ held' \in [Entity -> 0..Cap] /\ shelf' \in [Entity -> Nat]
      /\ book' \in Seq(Order) /\ Len(book') = Len(rest) + 1
      /\ \A k \in Resting(book') : book'[k].left > 0
  BY <1>1, <1>2, <1>3, Accepting DEF Orderly
<1>5. BookTyped'
  <2>1. Pending' = Pending
    BY <1>1 DEF Pending
  <2>2. Len(book') + Pending' <= MaxBook
    BY <1>1, <1>2, <1>4, <2>1, InHandIs, Sizes
  <2> QED BY <1>4, <2>2 DEF BookTyped, Resting
<1>6. QueuesTyped'
  BY <1>1, QueuesRest DEF Orderly, auction
<1>7. WhoTyped' /\ StockTyped' /\ Requested'
  BY <1>1, <1>4 DEF Orderly, WhoTyped, StockTyped, Requested
<1> QED BY <1>5, <1>6, <1>7 DEF Orderly

LEMMA AskOrderly ==
  ASSUME Orderly, NEW e \in Entity, NEW side \in Side, NEW p \in Price, NEW q \in 1..MaxQty,
         Ask(e, side, p, q)
  PROVE  Orderly'
<1>1. /\ phase = "idle" /\ hand = NoRequest /\ Len(book) < MaxBook
      /\ hand' = [for |-> e, side |-> side, price |-> p, qty |-> q, level |-> Level(book, e, side, p),
                  short |-> Shortfall(book, e, side, q), have |-> held[e]]
      /\ UNCHANGED <<phase, placed, alive, here, held, shelf, coins, book, last, price, bids, asks>>
  BY DEF Ask, who, auction, stock
<1>2. Shortfall(book, e, side, q) \in Nat /\ held[e] \in 0..Cap /\ side \in {"buy", "sell"}
  BY ShortfallIs, Sizes DEF Orderly, StockTyped, BookTyped, Side
<1>3. Requested'
  BY <1>1, <1>2 DEF Requested
<1>4. Len(book') + Pending' <= MaxBook
  <2>1. Pending' \in {0, 1} /\ Len(book) \in Nat
    BY DEF Pending, Orderly, BookTyped
  <2> QED BY <1>1, <2>1, Sizes
<1>5. BookTyped'
  BY <1>1, <1>4 DEF Orderly, BookTyped, Resting
<1>6. QueuesTyped'
  BY <1>1, QueuesRest DEF Orderly, auction
<1> QED BY <1>1, <1>3, <1>5, <1>6 DEF Orderly, WhoTyped, StockTyped

LEMMA AnswerOrderly ==
  ASSUME Orderly, Answer
  PROVE  Orderly'
<1> DEFINE rest == Cancelled(book, hand.level)
           kept == Kept(rest)
           due == Due(hand, rest)
           have == Balance(hand)
<1>1. /\ phase = "idle" /\ hand # NoRequest /\ hand' = NoRequest
      /\ UNCHANGED <<phase, placed, alive, here, coins, last, price, bids, asks>>
      /\ IF due <= have
         THEN Accept(kept, hand.for, hand.side, hand.price, hand.qty, due, have)
         ELSE book' = Kept(book) /\ UNCHANGED <<held, shelf>>
  BY DEF Answer, who, auction
<1>2. /\ hand.for \in Entity /\ hand.side \in {"buy", "sell"} /\ hand.price \in Price
      /\ hand.qty \in 1..MaxQty /\ hand.short \in Nat /\ hand.have \in 0..Cap
  BY <1>1 DEF Orderly, Requested
<1>3. /\ kept \in Seq(Order) /\ Len(kept) \in Nat /\ Len(kept) <= Len(book)
      /\ \A k \in Resting(kept) : kept[k].left > 0
  <2>1. /\ kept \in Seq(Order) /\ Len(kept) \in Nat /\ Len(kept) <= Len(book)
        /\ \A k \in Resting(kept) :
             \E i \in Resting(book) \ hand.level :
               kept[k].left = book[i].left /\ kept[k].owner = book[i].owner
    BY Weeded DEF Orderly
  <2> HIDE DEF kept, rest
  <2> QED BY <2>1 DEF Orderly, BookTyped
<1>4. rest \in Seq(Order)
  BY CancelledIs DEF Orderly, BookTyped
<1>5. due \in Nat /\ have \in 0..Cap
  <2> HIDE DEF rest
  <2>1. Shortfall(rest, hand.for, hand.side, hand.qty) \in Nat
    <3>1. \A e \in Entity, side \in {"buy", "sell"}, q \in 1..MaxQty : Shortfall(rest, e, side, q) \in 0..q
      BY <1>4, ShortfallIs DEF Orderly, StockTyped
    <3> QED BY <1>2, <3>1, Sizes
  <2>2. held[hand.for] \in 0..Cap
    BY <1>2 DEF Orderly, StockTyped
  <2> QED BY <1>2, <2>1, <2>2 DEF Due, Balance
<1> HIDE DEF rest, kept, due, have
<1>6. Pending = 1 /\ Pending' = 0
  BY <1>1 DEF Pending
<1>7. Len(book) + 1 <= MaxBook /\ Len(book) \in Nat
  BY <1>6 DEF Orderly, BookTyped
<1>8. BookTyped' /\ held' \in [Entity -> 0..Cap] /\ shelf' \in [Entity -> Nat]
  <2>1. CASE due <= have
    <3>1. Accept(kept, hand.for, hand.side, hand.price, hand.qty, due, have)
      BY <1>1, <2>1
    <3>2. /\ held' \in [Entity -> 0..Cap] /\ shelf' \in [Entity -> Nat]
          /\ book' \in Seq(Order) /\ Len(book') = Len(kept) + 1
          /\ \A k \in Resting(book') : book'[k].left > 0
      BY <1>2, <1>3, <1>5, <2>1, <3>1, Accepting DEF Orderly
    <3>3. Len(book') + Pending' <= MaxBook
      BY <1>3, <1>6, <1>7, <3>2, Sizes
    <3> QED BY <3>2, <3>3 DEF BookTyped, Resting
  <2>2. CASE ~(due <= have)
    <3> DEFINE kb == Kept(book)
               nth(k) == Nth(Resting(book), k)
    <3>1. book' = kb /\ UNCHANGED <<held, shelf>>
      BY <1>1, <2>2
    <3>2. /\ kb \in Seq(Order) /\ Len(kb) <= Len(book) /\ Resting(kb) = 1..Len(kb)
          /\ \A k \in 1..Len(kb) : kb[k] = book[nth(k)] /\ nth(k) \in Resting(book)
      BY KeptIs DEF Orderly, BookTyped
    <3> HIDE DEF kb, nth
    <3>3. \A k \in Resting(kb) : kb[k].left > 0
      BY <3>2 DEF Orderly, BookTyped
    <3>4. Len(kb) \in Nat
      BY <3>2
    <3>5. Len(book') + Pending' <= MaxBook
      BY <1>6, <1>7, <3>1, <3>2, <3>4, Sizes
    <3> QED BY <3>1, <3>2, <3>3, <3>5 DEF BookTyped, Resting, Orderly, StockTyped
  <2> QED BY <2>1, <2>2
<1>9. QueuesTyped'
  BY <1>1, QueuesRest DEF Orderly, auction
<1> QED BY <1>1, <1>8, <1>9 DEF Orderly, WhoTyped, StockTyped, Requested

(* What takes orders off the book by purging it.                           *)
LEMMA WeedsOrderly ==
  ASSUME Orderly, NEW S, book' = Purged(Cancelled(book, S)), hand' = hand
  PROVE  BookTyped' /\ Requested'
<1>1. /\ book' \in Seq(Order) /\ Len(book') <= Len(book) /\ Len(book') \in Nat
      /\ \A k \in Resting(book') : \E i \in Resting(book) \ S : book'[k].left = book[i].left
  <2> DEFINE rest == Purged(Cancelled(book, S))
  <2>1. /\ rest \in Seq(Order) /\ Len(rest) <= Len(book) /\ Len(rest) \in Nat
        /\ \A k \in Resting(rest) : \E i \in Resting(book) \ S : rest[k].left = book[i].left
    BY Weeded DEF Orderly
  <2> HIDE DEF rest
  <2>2. book' = rest
    BY DEF rest
  <2> QED BY <2>1, <2>2
<1>2. Pending' = Pending
  BY DEF Pending
<1>3. Len(book') + Pending' <= MaxBook
  BY <1>1, <1>2, InHandIs, Sizes DEF Orderly, BookTyped
<1> QED BY <1>1, <1>3 DEF Orderly, BookTyped, Requested, Resting

LEMMA CancelOrderOrderly ==
  ASSUME Orderly, NEW i, CancelOrder(i)
  PROVE  Orderly'
<1>1. /\ phase # "settle" /\ book' = Purged(Cancelled(book, {i}))
      /\ UNCHANGED <<phase, placed, alive, here, held, shelf, coins, last, price, bids, asks, hand>>
  BY DEF CancelOrder, who, stock, auction
<1>2. BookTyped' /\ Requested'
  BY <1>1, WeedsOrderly
<1>3. QueuesTyped'
  BY <1>1, QueuesRest DEF Orderly, auction
<1> QED BY <1>1, <1>2, <1>3 DEF Orderly, WhoTyped, StockTyped

LEMMA DieOrderly ==
  ASSUME Orderly, NEW e \in Mortal, Die(e)
  PROVE  Orderly'
<1>1. /\ phase # "settle" /\ book' = Purged(Cancelled(book, Of(book, e)))
      /\ e \in Entity /\ alive' = alive \ {e}
      /\ UNCHANGED <<phase, placed, here, shelf, last, price, bids, asks, hand>>
  BY MarketAssumption DEF Die, auction, Withdrawn
<1>2. BookTyped' /\ Requested'
  BY <1>1, WeedsOrderly
<1>3. QueuesTyped'
  BY <1>1, QueuesRest DEF Orderly, auction
<1>4. held' \in [Entity -> 0..Cap] /\ coins' \in [Entity -> Nat]
  <2>1. CASE held' = [held EXCEPT ![e] = 0] /\ coins' = [coins EXCEPT ![e] = 0]
    BY <1>1, <2>1, Sizes DEF Orderly, StockTyped
  <2>2. CASE \E h \in alive \ {e} :
              /\ held' = [held EXCEPT ![h] = IF held[e] = 0 THEN @ ELSE Clip(@ + held[e]), ![e] = 0]
              /\ coins' = [coins EXCEPT ![h] = @ + coins[e], ![e] = 0]
    <3>1. PICK h \in alive \ {e} :
              /\ held' = [held EXCEPT ![h] = IF held[e] = 0 THEN @ ELSE Clip(@ + held[e]), ![e] = 0]
              /\ coins' = [coins EXCEPT ![h] = @ + coins[e], ![e] = 0]
      BY <2>2
    <3>2. h \in Entity /\ h # e
      BY DEF Orderly, WhoTyped
    <3>3. held[h] \in 0..Cap /\ held[e] \in 0..Cap /\ coins[h] \in Nat /\ coins[e] \in Nat
      BY <1>1, <3>2 DEF Orderly, StockTyped
    <3>4. Clip(held[h] + held[e]) \in 0..Cap
      BY <3>3, Sizes DEF Clip, Smaller
    <3> QED BY <1>1, <3>1, <3>2, <3>3, <3>4, Sizes DEF Orderly, StockTyped
  <2> QED BY <2>1, <2>2 DEF Die
<1> QED BY <1>1, <1>2, <1>3, <1>4 DEF Orderly, WhoTyped, StockTyped

(* The passes that leave the book as it is.                                *)
LEMMA SameBook ==
  ASSUME BookTyped, Requested, UNCHANGED <<book, hand>>
  PROVE  BookTyped' /\ Requested'
<1>1. Pending' = Pending
  BY DEF Pending
<1> QED BY <1>1 DEF BookTyped, Requested, Resting

(* No more rots than there is.                                             *)
LEMMA LostIs ==
  ASSUME NEW n \in Nat
  PROVE  Lost(n) \in 0..n
<1> DEFINE r == n * Rate
<1>1. Rate \in 0..10
  BY Sizes
<1>2. r \in Nat /\ r <= n * 10
  BY <1>1
<1>3. 2 * n * Rate = 2 * r
  BY <1>1
<1>4. (2 * r + 10) \div 20 \in 0..n
  <2> HIDE DEF r
  <2> QED BY <1>2
<1> HIDE DEF r
<1> QED BY <1>3, <1>4 DEF Lost

(* Never more is returned than lies on the shelf unclaimed.                *)
LEMMA ReturnedIs ==
  ASSUME Orderly, NEW e \in Entity
  PROVE  /\ Returned(e) \in 0..shelf[e]
         /\ Claimed(book, e) <= shelf[e] => Claimed(book, e) <= shelf[e] - Returned(e)
<1>1. book \in Seq(Order) /\ shelf \in [Entity -> Nat] /\ shelf[e] \in Nat
  BY DEF Orderly, BookTyped, StockTyped
<1>2. Claimed(book, e) \in Nat
  BY <1>1, ClaimedIs
<1>3. FreeShelf(book, e) = IF shelf[e] <= Claimed(book, e) THEN 0 ELSE shelf[e] - Claimed(book, e)
  BY <1>1, <1>2 DEF FreeShelf, Smaller
<1> QED BY <1>1, <1>2, <1>3 DEF Returned

LEMMA WorldOrderly ==
  ASSUME Orderly,
         BeginTick \/ BeginIntents \/ Commit \/ Reclaim \/ Rot
           \/ (\E e \in Walker : Walk(e)) \/ (\E e \in Entity : Spend(e))
  PROVE  Orderly'
<1>1. phase # "settle" /\ phase' # "settle" /\ UNCHANGED <<placed, alive, coins, book, last, auction, hand>>
  BY DEF BeginTick, BeginIntents, Commit, Reclaim, Rot, Walk, Spend, who, stock
<1>2. BookTyped' /\ Requested'
  BY <1>1, SameBook DEF Orderly
<1>3. QueuesTyped'
  BY <1>1, QueuesRest DEF Orderly
<1>4. WhoTyped'
  <2>1. phase' \in {"idle", "arrive", "intents", "settle", "sweep", "rot", "death"}
    BY DEF Orderly, WhoTyped, BeginTick, BeginIntents, Commit, Reclaim, Rot, Walk, Spend
  <2>2. here' \subseteq Entity
    <3>1. Walker \subseteq Entity
      BY MarketAssumption
    <3> QED BY <3>1 DEF Orderly, WhoTyped, BeginTick, BeginIntents, Commit, Reclaim, Rot, Walk, Spend, who
  <2> QED BY <1>1, <2>1, <2>2 DEF Orderly, WhoTyped
<1>5. held' \in [Entity -> 0..Cap] /\ shelf' \in [Entity -> Nat]
  <2>1. CASE Reclaim
    <3>1. \A e \in Entity : /\ shelf[e] - Returned(e) \in Nat
                            /\ (IF Returned(e) = 0 THEN held[e] ELSE Clip(held[e] + Returned(e))) \in 0..Cap
      <4> TAKE e \in Entity
      <4>1. Returned(e) \in 0..shelf[e] /\ shelf[e] \in Nat /\ held[e] \in 0..Cap
        BY ReturnedIs DEF Orderly, StockTyped
      <4> QED BY <4>1, Sizes DEF Clip, Smaller
    <3> QED BY <2>1, <3>1 DEF Reclaim
  <2>2. CASE Rot
    <3>1. \A e \in Entity : held[e] - Lost(held[e]) \in 0..Cap /\ shelf[e] - Lost(shelf[e]) \in Nat
      <4> TAKE e \in Entity
      <4>1. held[e] \in Nat /\ held[e] <= Cap /\ shelf[e] \in Nat
        BY Sizes DEF Orderly, StockTyped
      <4>2. Lost(held[e]) \in 0..held[e] /\ Lost(shelf[e]) \in 0..shelf[e]
        BY <4>1, LostIs
      <4> QED BY <4>1, <4>2, Sizes
    <3> QED BY <2>2, <3>1 DEF Rot
  <2>3. CASE \E e \in Entity : Spend(e)
    <3>1. PICK e \in Entity : Spend(e)
      BY <2>3
    <3>2. held[e] \in 0..Cap /\ held[e] > 0
      BY <3>1 DEF Spend, Orderly, StockTyped
    <3> QED BY <3>1, <3>2, Sizes DEF Spend, Orderly, StockTyped
  <2>4. CASE UNCHANGED <<held, shelf>>
    BY <2>4 DEF Orderly, StockTyped
  <2> QED BY <2>1, <2>2, <2>3, <2>4 DEF BeginTick, BeginIntents, Commit, Walk, stock
<1> QED BY <1>1, <1>2, <1>3, <1>4, <1>5 DEF Orderly, StockTyped

-----------------------------------------------------------------------------
(* The auction.                                                            *)
LEMMA VolumeIs ==
  ASSUME BookTyped, NEW p
  PROVE  Demand(p) \in Nat /\ Supply(p) \in Nat
<1>1. book \in Seq(Order)
  BY DEF BookTyped
<1>2. /\ {i \in On(book, "buy") : book[i].price >= p} \subseteq DOMAIN book
      /\ {i \in On(book, "sell") : book[i].price <= p} \subseteq DOMAIN book
  BY DEF On, Resting
<1> QED BY <1>1, <1>2, LeftIs DEF Demand, Supply

LEMMA FewerLeft ==
  ASSUME BookTyped, NEW S, NEW T, S \subseteq T, T \subseteq DOMAIN book
  PROVE  Left(book, S) <= Left(book, T)
<1>1. book \in Seq(Order) /\ S \subseteq DOMAIN book
  BY DEF BookTyped
<1>2. /\ Left(book, S) = Total(Lefts(book), S) /\ Left(book, T) = Total(Lefts(book), T)
      /\ IsFiniteSet(T) /\ Counts(Lefts(book), T)
  BY <1>1, LeftIs
<1>3. \A i \in S : Lefts(book)[i] \in Nat /\ Lefts(book)[i] <= Lefts(book)[i]
  BY <1>2 DEF Counts
<1> QED BY <1>2, <1>3, TotalLess

(* Nobody trades at an unquoted price what would not trade at a quoted one.*)
LEMMA QuotedIsBest ==
  ASSUME BookTyped, NEW p \in Nat, Volume(p) > 0
  PROVE  \E c \in Candidates : Volume(p) <= Volume(c)
<1> DEFINE S == {i \in On(book, "sell") : book[i].price <= p}
           R == {w \in S \X S : book[w[1]].price > book[w[2]].price}
<1>1. Demand(p) \in Nat /\ Supply(p) \in Nat /\ Supply(p) = Left(book, S)
  BY VolumeIs DEF Supply
<1>2. Supply(p) > 0
  BY <1>1 DEF Volume, Smaller
<1>3. S \subseteq DOMAIN book
  BY DEF On, Resting
<1>4. S # {}
  <2> SUFFICES ASSUME S = {} PROVE FALSE
    OBVIOUS
  <2>1. Left(book, S) = Total(Lefts(book), S) /\ Total(Lefts(book), {}) = 0
    <3>1. book \in Seq(Order)
      BY DEF BookTyped
    <3>2. Left(book, S) = Total(Lefts(book), S)
      BY <1>3, <3>1, LeftIs
    <3>3. Total(Lefts(book), {}) = 0
      BY TotalEmpty
    <3> QED BY <3>2, <3>3
  <2> HIDE DEF S
  <2> QED BY <1>1, <1>2, <2>1
<1>5. IsFiniteSet(S) /\ \A i \in S : book[i].price \in Nat /\ book[i].price <= p /\ i \in Resting(book) /\ book[i].side = "sell"
  <2>1. \A i \in S : book[i].price \in Nat
    BY <1>3, OrdersAre
  <2> QED BY <1>3, <2>1, QueueFinite DEF On
<1>6. \A i, j \in S : <<i, j>> \in R <=> book[i].price > book[j].price
  OBVIOUS
<1>7. PICK i \in S : \A j \in S : <<j, i>> \notin R
  <2> HIDE DEF S, R
  <2>1. \A j \in S : <<j, j>> \notin R
    BY <1>5, <1>6
  <2>2. \A x, y, z \in S : <<x, y>> \in R /\ <<y, z>> \in R => <<x, z>> \in R
    BY <1>5, <1>6
  <2> QED BY <1>4, <1>5, <2>1, <2>2, Foremost
<1> DEFINE c == book[i].price
<1>8. c \in Nat /\ c <= p /\ \A j \in S : book[j].price <= c
  <2>1. c \in Nat /\ c <= p
    BY <1>5
  <2>2. ASSUME NEW j \in S PROVE book[j].price <= c
    <3>1. book[j].price \in Nat /\ book[i].price \in Nat
      BY <1>5
    <3>2. ~(book[j].price > book[i].price)
      <4> HIDE DEF S, R
      <4> QED BY <1>6, <1>7
    <3> DEFINE pj == book[j].price
    <3>3. pj \in Nat /\ c \in Nat /\ ~(pj > c)
      BY <3>1, <3>2
    <3> HIDE DEF pj, c
    <3>4. pj <= c
      BY <3>3
    <3> QED BY <3>4 DEF pj
  <2> QED BY <2>1, <2>2
<1>9. S = {j \in On(book, "sell") : book[j].price <= c}
  <2>1. \A j \in On(book, "sell") : book[j].price \in Nat
    BY OrdersAre DEF On, Resting
  <2> HIDE DEF c
  <2>2. \A j \in On(book, "sell") : book[j].price <= c => book[j].price <= p
    BY <1>8, <2>1
  <2>3. \A j \in On(book, "sell") : book[j].price <= p => book[j].price <= c
    BY <1>8
  <2> QED BY <2>2, <2>3
<1>10. Supply(c) = Supply(p)
  BY <1>1, <1>9 DEF Supply
<1>11. Demand(p) <= Demand(c)
  <2> DEFINE X == {j \in On(book, "buy") : book[j].price >= p}
             Y == {j \in On(book, "buy") : book[j].price >= c}
  <2>1. \A j \in On(book, "buy") : book[j].price \in Nat
    BY OrdersAre DEF On, Resting
  <2>2. X \subseteq Y
    <3> HIDE DEF c
    <3> QED BY <1>8, <2>1
  <2>3. Y \subseteq DOMAIN book
    BY DEF On, Resting
  <2>4. Demand(p) = Left(book, X) /\ Demand(c) = Left(book, Y)
    BY DEF Demand
  <2> HIDE DEF X, Y
  <2> QED BY <2>2, <2>3, <2>4, FewerLeft
<1>12. Demand(c) \in Nat
  BY VolumeIs
<1>13. Volume(p) <= Volume(c) /\ Volume(c) > 0
  <2> HIDE DEF c
  <2> QED BY <1>1, <1>10, <1>11, <1>12 DEF Volume, Smaller
<1>14. c \in Candidates
  BY <1>5, <1>13 DEF Candidates
<1> QED BY <1>13, <1>14

LEMMA TiedAre ==
  ASSUME BookTyped
  PROVE  /\ Tied \subseteq Candidates /\ Candidates \subseteq Price /\ Tied \subseteq Nat
         /\ IsFiniteSet(Tied)
         /\ \A p \in Tied : \A c \in Candidates : Volume(c) <= Volume(p)
<1>1. Tied \subseteq Candidates /\ \A p \in Tied : \A c \in Candidates : Volume(c) <= Volume(p)
  BY DEF Tied
<1>2. Candidates \subseteq {book[i].price : i \in Resting(book)}
  BY DEF Candidates
<1>3. Candidates \subseteq Price /\ Price \subseteq Nat
  <2>1. \A i \in Resting(book) : book[i].price \in Price
    BY OrdersAre DEF Resting
  <2> QED BY <1>2, <2>1, Sizes
<1>4. IsFiniteSet(Tied)
  <2> DEFINE f == [i \in Resting(book) |-> book[i].price]
             P == {book[i].price : i \in Resting(book)}
  <2>1. f \in Surjection(Resting(book), P)
    BY DEF Surjection
  <2>2. IsFiniteSet(Resting(book))
    BY RestingFinite DEF BookTyped
  <2>3. IsFiniteSet(P)
    <3> HIDE DEF f, P
    <3> QED BY <2>1, <2>2, FS_Surjection
  <2> QED BY <1>1, <1>2, <2>3, FS_Subset
<1> QED BY <1>1, <1>3, <1>4

LEMMA ClearingPriceIs ==
  ASSUME BookTyped, QueuesTyped, Tied # {}
  PROVE  ClearingPrice \in Tied
<1> DEFINE T == Tied
<1>1. T \subseteq Nat /\ IsFiniteSet(T) /\ T # {}
  BY TiedAre
<1>2. last \in Nat
  <2>1. last \in Price \cup {0}
    BY DEF QueuesTyped
  <2> QED BY <2>1, PricesAre
<1>3. Nearest(T) \in T
  <2> DEFINE near(p, c) == Before(Apart(p, last), p, Apart(c, last), c)
             R == {w \in T \X T : near(w[1], w[2])}
  <2>1. \A p \in Nat : Apart(p, last) \in Nat
    BY <1>2 DEF Apart, Excess
  <2>2. \A p, c \in T : p \in Nat /\ c \in Nat /\ Apart(p, last) \in Nat /\ Apart(c, last) \in Nat
    BY <1>1, <2>1
  <2>3. \A p, c \in T : near(p, c) <=> (\/ Apart(p, last) < Apart(c, last)
                                      \/ (Apart(p, last) = Apart(c, last) /\ p < c))
    BY DEF Before
  <2>4. \A p, c \in T : <<p, c>> \in R <=> near(p, c)
    OBVIOUS
  <2> HIDE DEF T, R, near
  <2>5. \A p \in T : <<p, p>> \notin R
    BY <2>2, <2>3, <2>4
  <2>6. \A x, y, z \in T : <<x, y>> \in R /\ <<y, z>> \in R => <<x, z>> \in R
    BY <2>2, <2>3, <2>4
  <2>7. PICK p \in T : \A c \in T : <<c, p>> \notin R
    BY <1>1, <2>5, <2>6, Foremost
  <2>8. \A c \in T \ {p} : near(p, c)
    <3> TAKE c \in T \ {p}
    <3>1. ~near(c, p) /\ c # p
      BY <2>4, <2>7
    <3> QED BY <2>2, <2>3, <3>1
  <2>9. \A c \in T \ {p} : Before(Apart(p, last), p, Apart(c, last), c)
    BY <2>8 DEF near
  <2> QED BY <2>9 DEF Nearest
<1>4. Median(T) \in T
  <2> DEFINE n == Cardinality(T)
             m == (n - 1) \div 2
             rank == [i \in T |-> Cardinality({j \in T : j <= i})]
  <2>1. n \in Nat /\ n > 0
    BY <1>1, FS_CardinalityType, FS_EmptySet
  <2>2. m + 1 \in 1..n /\ m \in Nat
    <3> HIDE DEF n
    <3> QED BY <2>1
  <2>3. rank \in Bijection(T, 1..n)
    BY <1>1, Ranks
  <2>4. PICK p \in T : rank[p] = m + 1
    <3> HIDE DEF T, n, m, rank
    <3> QED BY <2>2, <2>3 DEF Bijection, Surjection
  <2>5. {j \in T : j <= p} = {j \in T : j < p} \cup {p} /\ p \notin {j \in T : j < p} /\ {j \in T : j < p} \in SUBSET T
    <3> HIDE DEF T
    <3>1. p \in Nat /\ p \in T /\ \A j \in T : j \in Nat
      BY <1>1, <2>4
    <3>2. \A j \in T : j <= p <=> (j < p \/ j = p)
      BY <3>1
    <3>3. ~(p < p)
      BY <3>1
    <3> QED BY <3>1, <3>2, <3>3
  <2>6. Cardinality({j \in T : j <= p}) = m + 1
    BY <2>4
  <2>7. Cardinality({j \in T : j < p}) = m
    <3> DEFINE A == {j \in T : j < p}
    <3>1. IsFiniteSet(A) /\ Cardinality(A) \in Nat
      <4> HIDE DEF T
      <4> QED BY <1>1, <2>5, FS_Subset, FS_CardinalityType
    <3>2. Cardinality(A \cup {p}) = Cardinality(A) + 1
      BY <2>5, <3>1, FS_AddElement
    <3>3. Cardinality(A) + 1 = m + 1
      BY <2>5, <2>6, <3>2
    <3> DEFINE k == Cardinality(A)
    <3>4. k = m
      <4>1. k \in Nat /\ m \in Nat /\ k + 1 = m + 1
        BY <2>2, <3>1, <3>3
      <4> HIDE DEF k, m
      <4> QED BY <4>1
    <3> QED BY <3>4
  <2>8. Cardinality({j \in T : j < p}) = (Cardinality(T) - 1) \div 2
    BY <2>7
  <2> DEFINE mid(q) == q \in T /\ Cardinality({j \in T : j < q}) = (Cardinality(T) - 1) \div 2
  <2>9. \E q : mid(q)
    BY <2>8
  <2>10. Median(T) = CHOOSE q : mid(q)
    BY DEF Median
  <2> HIDE DEF mid
  <2>11. mid(Median(T))
    BY <2>9, <2>10
  <2> QED BY <2>11 DEF mid
<1> QED BY <1>3, <1>4 DEF ClearingPrice

(* What the opening of an auction makes sure of.                           *)
LEMMA OpeningOrderly ==
  ASSUME Orderly, OpenAuction
  PROVE  Orderly' /\ MostChangesHands
<1>1. phase = "intents" /\ UNCHANGED <<placed, alive, here, held, shelf, coins, book, last, hand>>
  BY DEF OpenAuction, who, stock
<1>2. BookTyped' /\ Requested'
  BY <1>1, SameBook DEF Orderly
<1>3. CASE Tied = {}
  <2>1. phase' = "sweep" /\ UNCHANGED auction
    BY <1>3 DEF OpenAuction
  <2>2. QueuesTyped'
    BY <1>1, <2>1, QueuesRest DEF Orderly
  <2> QED BY <1>1, <1>2, <2>1, <2>2 DEF Orderly, WhoTyped, StockTyped, MostChangesHands
<1>4. CASE Tied # {}
  <2>1. /\ phase' = "settle" /\ price' = ClearingPrice
        /\ bids' = {i \in On(book, "buy") : book[i].price >= price'}
        /\ asks' = {i \in On(book, "sell") : book[i].price <= price'}
    BY <1>4 DEF OpenAuction
  <2>2. /\ price' \in Candidates /\ price' \in Price
        /\ \A c \in Candidates : Volume(c) <= Volume(price')
    BY <1>4, <2>1, ClearingPriceIs, TiedAre DEF Orderly
  <2>3. QueuesTyped'
    <3>1. /\ bids' = Eligible("buy")' /\ asks' = Eligible("sell")'
      BY <1>1, <2>1 DEF Eligible, On, Resting
    <3>2. bids' \subseteq On(book, "buy")' /\ asks' \subseteq On(book, "sell")'
      BY <1>1, <2>1 DEF On, Resting
    <3>3. \A i \in bids' : book'[i].price >= price'
      BY <1>1, <2>1
    <3>4. \A i \in asks' : book'[i].price <= price'
      BY <1>1, <2>1
    <3> QED BY <1>1, <2>1, <2>2, <3>1, <3>2, <3>3, <3>4 DEF QueuesTyped, Orderly
  <2>4. MostChangesHands
    <3> SUFFICES ASSUME NEW c \in Price, NEW p \in 1..c PROVE Volume(p) <= Volume(price')
      BY DEF MostChangesHands
    <3>1. p \in Nat
      BY Sizes
    <3>2. Volume(p) \in Nat /\ Volume(price') \in Nat
      <4>1. \A q : Volume(q) \in Nat
        BY VolumeIs DEF Orderly, Volume, Smaller
      <4> DEFINE new == price'
      <4>2. Volume(new) \in Nat
        BY <4>1
      <4> QED BY <4>1, <4>2
    <3>3. CASE Volume(p) = 0
      BY <3>2, <3>3
    <3>4. CASE Volume(p) > 0
      <4>1. PICK d \in Candidates : Volume(p) <= Volume(d)
        BY <3>1, <3>4, QuotedIsBest DEF Orderly
      <4>2. Volume(d) \in Nat /\ Volume(d) <= Volume(price')
        BY <2>2, VolumeIs DEF Orderly, Volume, Smaller
      <4> QED BY <3>2, <4>1, <4>2
    <3> QED BY <3>2, <3>3, <3>4
  <2> QED BY <1>1, <1>2, <2>1, <2>3, <2>4 DEF Orderly, WhoTyped, StockTyped
<1> QED BY <1>3, <1>4

(* The two orders an auction matches next.                                 *)
LEMMA MatchIs ==
  ASSUME Orderly, Settling
  PROVE  /\ phase = "settle" /\ price \in Price /\ price \in Nat /\ price > 0
         /\ BestBid \in bids /\ BestAsk \in asks /\ BestBid # BestAsk
         /\ BestBid \in DOMAIN book /\ BestAsk \in DOMAIN book
         /\ BestBid \in Nat /\ BestAsk \in Nat
         /\ book[BestBid].side = "buy" /\ book[BestAsk].side = "sell"
         /\ book[BestBid].open /\ book[BestAsk].open
         /\ book[BestBid].owner \in Entity /\ book[BestAsk].owner \in Entity
         /\ book[BestBid].left \in Nat /\ book[BestAsk].left \in Nat
         /\ Fill \in Nat /\ Fill > 0 /\ Fill <= book[BestBid].left /\ Fill <= book[BestAsk].left
         /\ Cost \in Nat
<1>1. phase = "settle" /\ bids # {} /\ asks # {}
  BY DEF Settling
<1>2. price \in Price /\ price \in Nat /\ price > 0
  <2>1. price \in Price
    BY <1>1 DEF Orderly, QueuesTyped
  <2> QED BY <2>1, PricesAre
<1>3. BestBid \in bids /\ BestAsk \in asks
  BY <1>1, BestBidIs, BestAskIs DEF Orderly
<1>4. /\ BestBid \in Resting(book) /\ book[BestBid].side = "buy"
      /\ BestAsk \in Resting(book) /\ book[BestAsk].side = "sell"
  BY <1>3 DEF Orderly, QueuesTyped, On
<1>5. BestBid \in DOMAIN book /\ BestAsk \in DOMAIN book /\ book[BestBid].open /\ book[BestAsk].open
  BY <1>4 DEF Resting
<1>6. /\ BestBid \in Nat /\ BestAsk \in Nat
      /\ book[BestBid].owner \in Entity /\ book[BestAsk].owner \in Entity
      /\ book[BestBid].left \in Nat /\ book[BestAsk].left \in Nat
  BY <1>5, OrdersAre DEF Orderly
<1>7. book[BestBid].left > 0 /\ book[BestAsk].left > 0
  BY <1>4 DEF Orderly, BookTyped
<1>8. Fill \in Nat /\ Fill > 0 /\ Fill <= book[BestBid].left /\ Fill <= book[BestAsk].left
  BY <1>6, <1>7 DEF Fill, Smaller, Buy, Sell
<1>9. Cost \in Nat
  <2> HIDE DEF Fill
  <2> QED BY <1>2, <1>8 DEF Cost
<1> QED BY <1>1, <1>2, <1>3, <1>4, <1>5, <1>6, <1>8, <1>9

LEMMA StepAsideOrderly ==
  ASSUME Orderly, StepAside
  PROVE  Orderly'
<1> DEFINE b == BestBid
           a == BestAsk
<1>1. /\ Settling /\ book[b].owner = book[a].owner
      /\ UNCHANGED <<phase, placed, alive, here, held, shelf, coins, book, last, price, hand>>
      /\ IF a > b THEN asks' = asks \ {a} /\ bids' = bids ELSE bids' = bids \ {b} /\ asks' = asks
  BY DEF StepAside, who, stock, Buy, Sell
<1>2. /\ phase = "settle" /\ b \in bids /\ a \in asks /\ b \in DOMAIN book /\ a \in DOMAIN book
      /\ book[b].side = "buy" /\ book[a].side = "sell" /\ book[b].open /\ book[a].open
  BY <1>1, MatchIs
<1>3. a \in Nat /\ a > 0 /\ b \in Nat /\ b > 0
  BY <1>2 DEF Orderly, BookTyped
<1> HIDE DEF a, b
<1>4. a > b => SteppedAside(a)
  <2> SUFFICES ASSUME a > b PROVE SteppedAside(a)
    OBVIOUS
  <2>1. b \in 1..a
    BY <1>3
  <2> QED BY <1>1, <1>2, <2>1 DEF SteppedAside
<1>5. ~(a > b) => SteppedAside(b)
  <2> SUFFICES ASSUME ~(a > b) PROVE SteppedAside(b)
    OBVIOUS
  <2>1. a \in 1..b
    BY <1>3
  <2> QED BY <1>1, <1>2, <2>1 DEF SteppedAside
<1>6. BookTyped' /\ Requested'
  BY <1>1, SameBook DEF Orderly
<1>7. bids' \subseteq bids /\ asks' \subseteq asks
  BY <1>1
<1>8. /\ \A i \in bids \ bids' : SteppedAside(i)
      /\ \A i \in asks \ asks' : SteppedAside(i)
  BY <1>1, <1>4, <1>5
<1>9. \A i \in bids' \cup asks' : book'[i].open
  BY <1>1, <1>7 DEF Orderly, QueuesTyped, On, Resting
<1>10. QueuesTyped'
  BY <1>1, <1>2, <1>6, <1>7, <1>8, <1>9, QueuesShrink DEF Orderly
<1> QED BY <1>1, <1>6, <1>10 DEF Orderly, WhoTyped, StockTyped

(* An order the auction closes as it leaves its queue.                     *)
LEMMA CancelOrderly ==
  ASSUME Orderly, Settling, NEW side \in {"buy", "sell"}, Cancel(side)
  PROVE  Orderly'
<1> DEFINE i == IF side = "buy" THEN BestBid ELSE BestAsk
<1>1. /\ book' = Cancelled(book, {i})
      /\ bids' \subseteq bids /\ asks' \subseteq asks
      /\ (bids' = bids \ {i} \/ (side = "sell" /\ bids' = bids))
      /\ (asks' = asks \ {i} \/ (side = "buy" /\ asks' = asks))
      /\ UNCHANGED <<phase, placed, alive, here, held, shelf, coins, last, price, hand>>
  BY DEF Cancel, who, stock
<1>2. /\ phase = "settle" /\ i \in bids \cup asks /\ i \in DOMAIN book
      /\ book[i].side = side
  BY MatchIs
<1> HIDE DEF i
<1>3. book \in Seq(Order)
  BY DEF Orderly, BookTyped
<1> DEFINE cb == Cancelled(book, {i})
<1>4. /\ cb \in Seq(Order) /\ Len(cb) = Len(book) /\ DOMAIN cb = DOMAIN book
      /\ \A j \in DOMAIN book : /\ cb[j].owner = book[j].owner /\ cb[j].side = book[j].side
                                /\ cb[j].price = book[j].price /\ cb[j].left = book[j].left
                                /\ cb[j].open <=> book[j].open /\ j \notin {i}
  BY <1>3, CancelledIs
<1>5. book' = cb
  BY <1>1
<1> HIDE DEF cb
<1>6. \A j \in DOMAIN book : /\ book'[j].owner = book[j].owner /\ book'[j].side = book[j].side
                             /\ book'[j].price = book[j].price /\ book'[j].left = book[j].left
                             /\ book'[j].open <=> book[j].open /\ j # i
  BY <1>4, <1>5
<1>7. BookTyped'
  <2>1. Pending' = Pending
    BY <1>1 DEF Pending
  <2>2. \A j \in Resting(book)' : book'[j].left > 0
    BY <1>4, <1>5, <1>6 DEF Orderly, BookTyped, Resting
  <2> QED BY <1>4, <1>5, <2>1, <2>2 DEF Orderly, BookTyped
<1>8. \A j \in bids' \cup asks' : j \in DOMAIN book /\ book'[j].open
  <2>1. \A j \in bids \cup asks : j \in DOMAIN book /\ book[j].open
    BY DEF Orderly, QueuesTyped, On, Resting
  <2>2. i \notin bids' \cup asks'
    <3>1. \A j \in bids : book[j].side = "buy"
      BY DEF Orderly, QueuesTyped, On
    <3>2. \A j \in asks : book[j].side = "sell"
      BY DEF Orderly, QueuesTyped, On
    <3> QED BY <1>1, <1>2, <3>1, <3>2
  <2> QED BY <1>1, <1>6, <2>1, <2>2
<1>9. /\ \A j \in bids \ bids' : ~book'[j].open \/ SteppedAside(j)
      /\ \A j \in asks \ asks' : ~book'[j].open \/ SteppedAside(j)
  <2>1. ~book'[i].open
    BY <1>2, <1>6
  <2> QED BY <1>1, <2>1
<1>10. QueuesTyped'
  <2>1. /\ phase' = phase /\ price' = price /\ last' \in {last, price} /\ DOMAIN book' = DOMAIN book
        /\ \A j \in DOMAIN book : /\ book'[j].owner = book[j].owner /\ book'[j].side = book[j].side
                                  /\ book'[j].price = book[j].price
                                  /\ book'[j].open => book[j].open
    BY <1>1, <1>4, <1>5, <1>6
  <2> QED BY <1>1, <1>2, <1>7, <1>8, <1>9, <2>1, QueuesShrink DEF Orderly
<1> QED BY <1>1, <1>7, <1>10 DEF Orderly, WhoTyped, StockTyped, Requested

(* What a fill does to the book and to the balances.                       *)
LEMMA TradeIs ==
  ASSUME Orderly, Trade
  PROVE  /\ Settling /\ book[BestBid].owner # book[BestAsk].owner
         /\ book' \in Seq(Order) /\ Len(book') = Len(book) /\ DOMAIN book' = DOMAIN book
         /\ \A i \in DOMAIN book :
              /\ book'[i].owner = book[i].owner /\ book'[i].side = book[i].side /\ book'[i].price = book[i].price
              /\ i \notin {BestBid, BestAsk} => book'[i] = book[i]
              /\ i \in {BestBid, BestAsk} => /\ book'[i].left = book[i].left - Fill
                                             /\ book'[i].open <=> book[i].left > Fill
<1> DEFINE b == BestBid
           a == BestAsk
           f == Fill
<1>1. /\ Settling /\ book[b].owner # book[a].owner
      /\ book' = [book EXCEPT ![b] = Filled(b), ![a] = Filled(a)]
  BY DEF Trade, Counterparties, Buy, Sell
<1>2. /\ b \in DOMAIN book /\ a \in DOMAIN book /\ a # b /\ f \in Nat /\ f <= book[b].left /\ f <= book[a].left
  BY <1>1, MatchIs
<1>3. \A i \in {a, b} : book[i] \in Order /\ book[i].left \in Nat /\ book[i].left <= MaxQty /\ f <= book[i].left
  BY <1>2, OrdersAre DEF Orderly
<1> HIDE DEF a, b
<1>4. \A i \in {a, b} : /\ Filled(i) \in Order
                        /\ Filled(i).owner = book[i].owner /\ Filled(i).side = book[i].side
                        /\ Filled(i).price = book[i].price
                        /\ Filled(i).left = book[i].left - f
                        /\ Filled(i).open <=> book[i].left > f
  <2> TAKE i \in {a, b}
  <2>1. Filled(i) = [book[i] EXCEPT !.left = @ - f, !.open = book[i].left > f]
    BY DEF Filled
  <2>2. book[i] \in Order /\ book[i].left - f \in 0..MaxQty /\ (book[i].left > f) \in BOOLEAN
    <3> HIDE DEF f
    <3> QED BY <1>2, <1>3, Sizes
  <2> HIDE DEF f
  <2>3. Filled(i) \in Order
    BY <2>1, <2>2 DEF Order
  <2>4. /\ Filled(i).owner = book[i].owner /\ Filled(i).side = book[i].side
        /\ Filled(i).price = book[i].price
        /\ Filled(i).left = book[i].left - f
    BY <2>1, <2>2 DEF Order
  <2>5. Filled(i).open <=> book[i].left > f
    BY <2>1, <2>2 DEF Order
  <2> QED BY <2>3, <2>4, <2>5
<1> DEFINE fb == [i \in DOMAIN book |-> IF i \in {a, b} THEN Filled(i) ELSE book[i]]
<1>5. book' = fb
  <2> HIDE DEF f
  <2> QED BY <1>1, <1>2 DEF Orderly, BookTyped
<1>6. fb \in Seq(Order) /\ Len(fb) = Len(book) /\ DOMAIN fb = DOMAIN book
  <2>1. DOMAIN book = 1..Len(book) /\ Len(book) \in Nat /\ \A i \in DOMAIN book : book[i] \in Order
    BY DEF Orderly, BookTyped
  <2> HIDE DEF f
  <2> QED BY <1>4, <2>1
<1>7. \A i \in DOMAIN book : fb[i] = IF i \in {a, b} THEN Filled(i) ELSE book[i]
  OBVIOUS
<1> HIDE DEF fb
<1>8. book' \in Seq(Order) /\ Len(book') = Len(book) /\ DOMAIN book' = DOMAIN book
  BY <1>5, <1>6
<1>9. \A i \in DOMAIN book :
         /\ book'[i].owner = book[i].owner /\ book'[i].side = book[i].side /\ book'[i].price = book[i].price
         /\ i \notin {b, a} => book'[i] = book[i]
         /\ i \in {b, a} => /\ book'[i].left = book[i].left - f
                            /\ book'[i].open <=> book[i].left > f
  <2> HIDE DEF f
  <2> QED BY <1>4, <1>5, <1>7
<1> QED BY <1>1, <1>8, <1>9 DEF a, b

LEMMA TradeOrderly ==
  ASSUME Orderly, Trade
  PROVE  Orderly'
<1> DEFINE b == BestBid
           a == BestAsk
           f == Fill
           c == Cost
           x == book[b].owner
           y == book[a].owner
<1>1. /\ Settling /\ x # y
      /\ UNCHANGED <<phase, placed, alive, here, price, hand>> /\ last' = price
      /\ bids' = Passed(bids, b) /\ asks' = Passed(asks, a)
      /\ coins[x] >= c /\ Goods(y) >= f
      /\ coins' = [coins EXCEPT ![x] = @ - c, ![y] = @ + c]
      /\ Drawn(y)
  BY DEF Trade, Counterparties, Buy, Sell, who
<1>2. /\ phase = "settle" /\ b \in bids /\ a \in asks /\ b # a /\ b \in DOMAIN book /\ a \in DOMAIN book
      /\ book[b].open /\ book[a].open /\ book[b].side = "buy" /\ book[a].side = "sell"
      /\ x \in Entity /\ y \in Entity /\ f \in Nat /\ c \in Nat
      /\ f <= book[b].left /\ f <= book[a].left /\ book[b].left \in Nat /\ book[a].left \in Nat
  BY <1>1, MatchIs
<1>3. /\ book' \in Seq(Order) /\ Len(book') = Len(book) /\ DOMAIN book' = DOMAIN book
      /\ \A i \in DOMAIN book :
           /\ book'[i].owner = book[i].owner /\ book'[i].side = book[i].side /\ book'[i].price = book[i].price
           /\ i \notin {b, a} => book'[i] = book[i]
           /\ i \in {b, a} => /\ book'[i].left = book[i].left - f
                              /\ book'[i].open <=> book[i].left > f
  BY TradeIs
<1>4. coins' \in [Entity -> Nat]
  <2>1. coins \in [Entity -> Nat] /\ coins[x] \in Nat /\ coins[y] \in Nat
    BY <1>2 DEF Orderly, StockTyped
  <2> HIDE DEF c, x, y
  <2>2. coins[x] - c \in Nat /\ coins[y] + c \in Nat
    BY <1>1, <1>2, <2>1
  <2> QED BY <1>1, <1>2, <2>1, <2>2
<1>5. held' \in [Entity -> 0..Cap] /\ shelf' \in [Entity -> Nat]
  <2>1. held \in [Entity -> 0..Cap] /\ shelf \in [Entity -> Nat]
    BY DEF Orderly, StockTyped
  <2>2. Clip(held[x] + f) \in 0..Cap
    <3>1. held[x] \in Nat
      BY <1>2, <2>1, Sizes
    <3> HIDE DEF f, x
    <3> QED BY <1>2, <3>1, Sizes DEF Clip, Smaller
  <2>3. CASE placed
    <3>1. shelf' = [shelf EXCEPT ![y] = @ - f] /\ held' = [held EXCEPT ![x] = Clip(held[x] + f)] /\ shelf[y] >= f
      BY <1>1, <2>3, <1>2, <2>1 DEF Drawn, Buy, Goods
    <3> HIDE DEF f, x, y
    <3> QED BY <1>2, <2>1, <2>2, <3>1
  <2>4. CASE ~placed
    <3>1. held' = [held EXCEPT ![y] = held[y] - f, ![x] = Clip(held[x] + f)] /\ shelf' = shelf /\ held[y] >= f
      BY <1>1, <2>4, <1>2, <2>1 DEF Drawn, Buy, Goods
    <3> HIDE DEF f, x, y
    <3>2. held[y] - f \in 0..Cap
      BY <1>2, <2>1, <3>1, Sizes
    <3> QED BY <1>2, <2>1, <2>2, <3>1, <3>2
  <2> QED BY <2>3, <2>4
<1> HIDE DEF a, b, c, f
<1>6. BookTyped'
  <2>1. Pending' = Pending
    BY <1>1 DEF Pending
  <2>2. \A i \in Resting(book)' : book'[i].left > 0
    <3> SUFFICES ASSUME NEW i \in DOMAIN book, book'[i].open PROVE book'[i].left > 0
      BY <1>3 DEF Resting
    <3>1. CASE i \in {a, b}
      BY <1>2, <1>3, <3>1
    <3>2. CASE i \notin {a, b}
      BY <1>3, <3>2 DEF Orderly, BookTyped, Resting
    <3> QED BY <3>1, <3>2
  <2> QED BY <1>3, <2>1, <2>2 DEF Orderly, BookTyped
<1>7. /\ bids' = (IF book[b].left = f THEN bids \ {b} ELSE bids)
      /\ asks' = (IF book[a].left = f THEN asks \ {a} ELSE asks)
  BY <1>1 DEF Passed, f
<1>8. book[b].left = f <=> ~book'[b].open
  BY <1>2, <1>3
<1>9. book[a].left = f <=> ~book'[a].open
  BY <1>2, <1>3
<1>10. /\ bids \subseteq DOMAIN book /\ asks \subseteq DOMAIN book
       /\ \A i \in bids : book[i].open /\ book[i].side = "buy"
       /\ \A i \in asks : book[i].open /\ book[i].side = "sell"
  BY DEF Orderly, QueuesTyped, On, Resting
<1>11. /\ bids' \subseteq bids /\ asks' \subseteq asks
       /\ \A i \in bids' \cup asks' : book'[i].open
       /\ \A i \in bids \ bids' : ~book'[i].open
       /\ \A i \in asks \ asks' : ~book'[i].open
  <2>1. \A i \in bids : i # a
    BY <1>2, <1>10
  <2>2. \A i \in asks : i # b
    BY <1>2, <1>10
  <2>3. \A i \in (bids \cup asks) \ {a, b} : book'[i].open
    BY <1>3, <1>10
  <2> QED BY <1>7, <1>8, <1>9, <2>1, <2>2, <2>3
<1>12. QueuesTyped'
  <2>1. \A i \in DOMAIN book : book'[i].open => book[i].open
    BY <1>2, <1>3
  <2> QED BY <1>1, <1>2, <1>3, <1>6, <1>11, <2>1, QueuesShrink DEF Orderly
<1> QED BY <1>1, <1>4, <1>5, <1>6, <1>12 DEF Orderly, WhoTyped, StockTyped, Requested

LEMMA CloseOrderly ==
  ASSUME Orderly, CloseAuction
  PROVE  Orderly'
<1>1. /\ phase' = "sweep" /\ book' = Purged(book) /\ price' = 0 /\ bids' = {} /\ asks' = {}
      /\ UNCHANGED <<placed, alive, here, held, shelf, coins, last, hand>>
  BY DEF CloseAuction, who, stock
<1>2. /\ book' \in Seq(Order) /\ Len(book') <= Len(book) /\ Len(book') \in Nat
      /\ \A k \in Resting(book') : \E i \in Resting(book) : book'[k] = book[i]
  <2> DEFINE pb == Purged(book)
  <2>1. /\ pb \in Seq(Order) /\ Len(pb) <= Len(book) /\ Len(pb) \in Nat
        /\ \A k \in Resting(pb) : \E i \in Resting(book) : pb[k] = book[i]
    BY PurgedIs DEF Orderly, BookTyped
  <2>2. book' = pb
    BY <1>1
  <2> HIDE DEF pb
  <2> QED BY <2>1, <2>2
<1>3. BookTyped'
  <2>1. Pending' = Pending
    BY <1>1 DEF Pending
  <2>2. Len(book') + Pending' <= MaxBook
    BY <1>2, <2>1, InHandIs, Sizes DEF Orderly, BookTyped
  <2> QED BY <1>2, <2>2 DEF Orderly, BookTyped, Resting
<1>4. QueuesTyped'
  BY <1>1 DEF Orderly, QueuesTyped, On, Resting
<1> QED BY <1>1, <1>3, <1>4 DEF Orderly, WhoTyped, StockTyped, Requested

LEMMA SettleOrderly ==
  ASSUME Orderly, Settle
  PROVE  Orderly'
<1>1. CASE OpenAuction
  BY <1>1, OpeningOrderly
<1>2. CASE StepAside
  BY <1>2, StepAsideOrderly
<1>3. CASE Broke
  BY <1>3, CancelOrderly DEF Broke, Counterparties
<1>4. CASE Bare
  BY <1>4, CancelOrderly DEF Bare, Counterparties
<1>5. CASE Trade
  BY <1>5, TradeOrderly
<1>6. CASE CloseAuction
  BY <1>6, CloseOrderly
<1> QED BY <1>1, <1>2, <1>3, <1>4, <1>5, <1>6 DEF Settle

LEMMA MarketStep ==
  ASSUME Orderly, [MarketNext]_marketVars
  PROVE  Orderly'
<1>1. CASE Bidding
  BY <1>1, PlaceOrderly, AskOrderly DEF Bidding
<1>2. CASE Answer
  BY <1>2, AnswerOrderly
<1>3. CASE \E i \in DOMAIN book : CancelOrder(i)
  BY <1>3, CancelOrderOrderly
<1>4. CASE Settle
  BY <1>4, SettleOrderly
<1>5. CASE Pass /\ ~Settle
  BY <1>5, WorldOrderly DEF Pass
<1>6. CASE Elsewhere
  BY <1>6, WorldOrderly, DieOrderly DEF Elsewhere
<1>7. CASE UNCHANGED marketVars
  <2>1. UNCHANGED <<phase, placed, alive, here, held, shelf, coins, book, last, price, bids, asks, hand>>
    BY <1>7 DEF marketVars, who, stock, auction
  <2>2. BookTyped' /\ Requested'
    BY <2>1, SameBook DEF Orderly
  <2>3. QueuesTyped'
    BY <2>1 DEF Orderly, QueuesTyped, Eligible, On, Resting, SteppedAside
  <2> QED BY <2>1, <2>2, <2>3 DEF Orderly, WhoTyped, StockTyped
<1> QED BY <1>1, <1>2, <1>3, <1>4, <1>5, <1>6, <1>7 DEF MarketNext

(* A fill takes the best of each queue, and who is out of it stepped aside.*)
LEMMA NoJumpingStep ==
  ASSUME Orderly
  PROVE  NoQueueJumping
<1> SUFFICES ASSUME Trade, NEW i \in Resting(book),
                    PassedOver(i, BestBid) \/ PassedOver(i, BestAsk)
             PROVE  SteppedAside(i)
  BY DEF NoQueueJumping
<1> DEFINE b == BestBid
           a == BestAsk
<1>1. Settling /\ bids # {} /\ asks # {}
  BY DEF Trade, Counterparties, Settling
<1>2. /\ phase = "settle" /\ price \in Nat
      /\ b \in bids /\ a \in asks /\ b \in DOMAIN book /\ a \in DOMAIN book
      /\ book[b].side = "buy" /\ book[a].side = "sell"
  BY <1>1, MatchIs
<1>3. /\ \A j \in bids \ {b} : BuyFirst(b, j)
      /\ \A j \in asks \ {a} : SellFirst(a, j)
  BY <1>1, BestBidIs, BestAskIs DEF Orderly
<1>4. /\ book[b].price >= price /\ book[a].price <= price
      /\ \A j \in Eligible("buy") : j \in bids \/ SteppedAside(j)
      /\ \A j \in Eligible("sell") : j \in asks \/ SteppedAside(j)
  BY <1>2 DEF Orderly, QueuesTyped
<1>5. /\ i \in DOMAIN book /\ i \in Nat /\ book[i].price \in Nat
      /\ b \in Nat /\ a \in Nat /\ book[b].price \in Nat /\ book[a].price \in Nat
  BY <1>2, OrdersAre DEF Resting, Orderly
<1> HIDE DEF a, b
<1>6. CASE PassedOver(i, b)
  <2>1. /\ book[i].side = "buy"
        /\ (book[i].price = book[b].price /\ i < b) \/ book[i].price > book[b].price
    BY <1>2, <1>6 DEF PassedOver
  <2>2. i \in Eligible("buy")
    BY <1>2, <1>4, <1>5, <2>1 DEF Eligible, On
  <2>3. i # b /\ ~BuyFirst(b, i)
    BY <1>5, <2>1 DEF BuyFirst, Before
  <2> QED BY <1>3, <1>4, <2>2, <2>3
<1>7. CASE PassedOver(i, a)
  <2>1. /\ book[i].side = "sell"
        /\ (book[i].price = book[a].price /\ i < a) \/ book[i].price < book[a].price
    BY <1>2, <1>7 DEF PassedOver
  <2>2. i \in Eligible("sell")
    BY <1>2, <1>4, <1>5, <2>1 DEF Eligible, On
  <2>3. i # a /\ ~SellFirst(a, i)
    BY <1>5, <2>1 DEF SellFirst, Before
  <2> QED BY <1>3, <1>4, <2>2, <2>3
<1> QED BY <1>6, <1>7 DEF a, b

LEMMA FairStep ==
  ASSUME Orderly
  PROVE  MostChangesHands /\ NoQueueJumping /\ NobodyLeftWilling
<1>1. MostChangesHands
  BY OpeningOrderly DEF MostChangesHands
<1>2. NobodyLeftWilling
  <2> SUFFICES ASSUME CloseAuction, NEW i \in Eligible("buy"), NEW j \in Eligible("sell")
               PROVE  SteppedAside(i) \/ SteppedAside(j)
    BY DEF NobodyLeftWilling
  <2>1. phase = "settle" /\ (bids = {} \/ asks = {})
    BY DEF CloseAuction
  <2> QED BY <2>1 DEF Orderly, QueuesTyped
<1> QED BY <1>1, <1>2, NoJumpingStep

(* Whatever the entities, the prices and the bounds, no account is         *)
(* overdrawn, no holding is past its cap and no order is filled beyond its *)
(* quantity (_settle, _place_order, _reclaim_escrows).                     *)
THEOREM MarketTypes == MarketSpec => []MarketTypeOK
<1>1. MarketInit => Orderly
  BY StartsOrderly
<1>2. Orderly /\ [MarketNext]_marketVars => Orderly'
  BY MarketStep
<1>3. Orderly => MarketTypeOK
  BY OrderlyTypes
<1> QED BY <1>1, <1>2, <1>3, PTL DEF MarketSpec

(* No price would have made more change hands than the auction's; a fill   *)
(* passes over a better or older order only if that one stepped aside for  *)
(* an older order of its own entity; and when the auction stops no buyer   *)
(* and seller are left who would both have traded at its price, unless one *)
(* of the two had stepped aside (_clearing_price and _settle).             *)
THEOREM AuctionIsFairHolds == MarketSpec => AuctionIsFair
<1>1. MarketInit => Orderly
  BY StartsOrderly
<1>2. Orderly /\ [MarketNext]_marketVars => Orderly'
  BY MarketStep
<1>3. Orderly => MostChangesHands /\ NoQueueJumping /\ NobodyLeftWilling
  BY FairStep
<1> QED BY <1>1, <1>2, <1>3, PTL DEF MarketSpec, AuctionIsFair

-----------------------------------------------------------------------------
(* The goods there are.                                                    *)
Stocked == [e \in Entity |-> held[e] + shelf[e]]

LEMMA AllIs ==
  ASSUME StockTyped, StockTyped'
  PROVE  /\ All = Total(Stocked, Entity) /\ All' = Total(Stocked', Entity)
         /\ Counts(Stocked, Entity) /\ Counts(Stocked', Entity) /\ IsFiniteSet(Entity)
         /\ All \in Nat /\ All' \in Nat
<1>1. IsFiniteSet(Entity) /\ Cap \in Nat
  BY Sizes
<1>2. Counts(Stocked, Entity) /\ Counts(Stocked', Entity)
  BY <1>1 DEF Counts, Stocked, StockTyped
<1>3. All = Total(Stocked, Entity)
  BY DEF All, Stocked
<1>4. All' = Total(Stocked', Entity)
  BY DEF All, Stocked
<1> QED BY <1>1, <1>2, <1>3, <1>4, TotalType

(* Where no entity has more than before, there is no more than before.     *)
LEMMA NoMoreGoods ==
  ASSUME StockTyped, StockTyped', \A e \in Entity : held'[e] + shelf'[e] <= held[e] + shelf[e]
  PROVE  All' <= All
<1>1. \A e \in Entity : Stocked'[e] \in Nat /\ Stocked'[e] <= Stocked[e]
  <2>1. \A e \in Entity : Stocked'[e] \in Nat
    BY AllIs DEF Counts
  <2> QED BY <2>1 DEF Stocked
<1> QED BY <1>1, AllIs, TotalLess

LEMMA SameGoods ==
  ASSUME StockTyped, StockTyped', \A e \in Entity : held'[e] + shelf'[e] = held[e] + shelf[e]
  PROVE  All' = All
<1>1. \A e \in Entity : Stocked'[e] = Stocked[e]
  BY DEF Stocked
<1> QED BY <1>1, AllIs, TotalSame

LEMMA MovedGoods ==
  ASSUME StockTyped, StockTyped', NEW x \in Entity, NEW y \in Entity, x # y,
         \A e \in Entity \ {x, y} : held'[e] = held[e] /\ shelf'[e] = shelf[e]
  PROVE  All' = All - (held[x] + shelf[x]) - (held[y] + shelf[y])
                        + (held'[x] + shelf'[x]) + (held'[y] + shelf'[y])
<1>1. \A e \in Entity \ {x, y} : Stocked'[e] = Stocked[e]
  BY DEF Stocked
<1>2. Total(Stocked', Entity) = Total(Stocked, Entity) - Stocked[x] - Stocked[y] + Stocked'[x] + Stocked'[y]
  BY <1>1, AllIs, TotalMove
<1>3. /\ Stocked[x] = held[x] + shelf[x] /\ Stocked[y] = held[y] + shelf[y]
      /\ Stocked'[x] = held'[x] + shelf'[x] /\ Stocked'[y] = held'[y] + shelf'[y]
  BY DEF Stocked
<1> QED BY <1>2, <1>3, AllIs

(* What the shelf promises, step by step.                                  *)
Serving == OnlyRotUnbacks /\ DeliverOnlyShortfall /\ GoodsAccounted

LEMMA Unmoved ==
  ASSUME Orderly, Orderly', UNCHANGED <<held, shelf>>,
         \A e : Claimed(book', e) <= Claimed(book, e)
  PROVE  Serving
<1>1. \A e \in Entity : /\ Claimed(book, e) \in Nat /\ Claimed(book', e) \in Nat
                        /\ shelf[e] \in Nat /\ shelf'[e] = shelf[e]
  BY ClaimedIs DEF Orderly, BookTyped, StockTyped
<1>2. OnlyRotUnbacks
  BY <1>1 DEF OnlyRotUnbacks, Backed
<1>3. DeliverOnlyShortfall
  BY <1>1 DEF DeliverOnlyShortfall
<1>4. All' = All /\ All \in Nat
  BY SameGoods, AllIs DEF Orderly
<1> QED BY <1>2, <1>3, <1>4 DEF Serving, GoodsAccounted

(* An accepted order delivers what the shelf lacks of it, and no more.     *)
LEMMA AcceptServes ==
  ASSUME Orderly, Orderly', NEW bk \in Seq(Order), NEW e \in Entity, NEW side \in {"buy", "sell"},
         NEW p \in Price, NEW q \in 1..MaxQty, NEW short, short = Shortfall(bk, e, side, q), short <= held[e],
         Accept(bk, e, side, p, q, short, held[e]),
         \A k \in Resting(bk) : bk[k].left > 0,
         \A d : Claimed(bk, d) <= Claimed(book, d)
  PROVE  Serving
<1>0. StockTyped /\ StockTyped'
  BY DEF Orderly
<1>1. /\ held \in [Entity -> 0..Cap] /\ shelf \in [Entity -> Nat] /\ StockTyped /\ StockTyped'
      /\ held[e] \in 0..Cap /\ Cap \in Nat /\ q \in Nat
      /\ held' \in [Entity -> 0..Cap] /\ shelf' \in [Entity -> Nat]
  <2>1. /\ held \in [Entity -> 0..Cap] /\ shelf \in [Entity -> Nat]
        /\ held' \in [Entity -> 0..Cap] /\ shelf' \in [Entity -> Nat]
    BY <1>0 DEF StockTyped
  <2>2. Cap \in Nat /\ q \in Nat
    BY Sizes
  <2>3. held[e] \in 0..Cap
    BY <2>1
  <2> QED BY <1>0, <2>1, <2>2, <2>3
<1>2. /\ FreeShelf(bk, e) \in 0..shelf[e]
      /\ shelf[e] - FreeShelf(bk, e) <= Claimed(bk, e)
      /\ Claimed(bk, e) <= shelf[e] => shelf[e] - FreeShelf(bk, e) = Claimed(bk, e)
      /\ short \in 0..q
      /\ short > 0 => placed /\ side = "sell" /\ short = q - FreeShelf(bk, e)
      /\ placed /\ side = "sell" => q <= FreeShelf(bk, e) + short
  BY <1>1, ShortfallIs
<1>3. short \in Nat /\ short <= held[e]
  BY <1>1, <1>2
<1>4. /\ \A d : Claimed(book', d) = Claimed(bk, d) + Asked(d, e, side, q)
      /\ \A d \in Entity : shelf'[d] = shelf[d] + (IF d = e THEN short ELSE 0)
      /\ held' = (IF short = 0 THEN held ELSE [held EXCEPT ![e] = held[e] - short])
  <2>1. ASSUME NEW have \in 0..Cap, short <= have, Accept(bk, e, side, p, q, short, have)
        PROVE  /\ \A d : Claimed(book', d) = Claimed(bk, d) + Asked(d, e, side, q)
               /\ \A d \in Entity : shelf'[d] = shelf[d] + (IF d = e THEN short ELSE 0)
               /\ held' = (IF short = 0 THEN held ELSE [held EXCEPT ![e] = have - short])
    <3>1. short \in Nat
      BY <1>3
    <3> QED BY <1>0, <2>1, <3>1, Accepting
  <2>2. held[e] \in 0..Cap /\ short <= held[e] /\ Accept(bk, e, side, p, q, short, held[e])
    BY <1>1
  <2> QED BY <2>1, <2>2
<1>5. \A d \in Entity : /\ Claimed(bk, d) \in Nat /\ Claimed(book, d) \in Nat
                        /\ Claimed(bk, d) <= Claimed(book, d) /\ shelf[d] \in Nat
  BY <1>1, ClaimedIs DEF Orderly, BookTyped
<1> DEFINE free == FreeShelf(bk, e)
<1>6. free \in Nat
  BY <1>1, <1>2
<1> HIDE DEF free
<1>7. OnlyRotUnbacks
  <2> SUFFICES ASSUME NEW d \in Entity, placed, Claimed(book, d) <= shelf[d]
               PROVE  Claimed(book', d) <= shelf'[d]
    BY DEF OnlyRotUnbacks, Backed
  <2>1. CASE d # e
    BY <1>4, <1>5, <2>1 DEF Asked
  <2>2. CASE d = e /\ side = "sell"
    <3>1. shelf[e] - free = Claimed(bk, e) /\ q <= free + short
      BY <1>2, <1>5, <2>2 DEF free
    <3>2. Claimed(book', e) = Claimed(bk, e) + q /\ shelf'[e] = shelf[e] + short
      BY <1>4, <2>2 DEF Asked
    <3> QED BY <1>1, <1>3, <1>5, <1>6, <2>2, <3>1, <3>2
  <2>3. CASE d = e /\ side # "sell"
    BY <1>3, <1>4, <1>5, <2>3 DEF Asked
  <2> QED BY <2>1, <2>2, <2>3
<1>8. DeliverOnlyShortfall
  <2> SUFFICES ASSUME NEW d \in Entity, shelf'[d] > shelf[d]
               PROVE  shelf'[d] <= Claimed(book', d)
    BY DEF DeliverOnlyShortfall
  <2>1. d = e /\ short > 0
    BY <1>3, <1>4, <1>5
  <2>2. side = "sell" /\ short = q - free /\ shelf[e] - free <= Claimed(bk, e)
    BY <1>2, <2>1 DEF free
  <2>3. Claimed(book', e) = Claimed(bk, e) + q /\ shelf'[e] = shelf[e] + short
    BY <1>4, <2>1, <2>2 DEF Asked
  <2> DEFINE s == shelf[e]
             c == Claimed(bk, e)
  <2>4. s \in Nat /\ c \in Nat /\ s - free <= c
    BY <1>5, <2>2
  <2>5. s + short <= c + q
    <3> HIDE DEF s, c
    <3> QED BY <1>1, <1>3, <1>6, <2>2, <2>4
  <2> QED BY <2>1, <2>3, <2>5
<1>9. \A d \in Entity : held'[d] + shelf'[d] = held[d] + shelf[d]
  <2> TAKE d \in Entity
  <2>1. held[d] \in Nat /\ held'[d] = (IF d = e THEN held[e] - short ELSE held[d])
    BY <1>1, <1>3, <1>4
  <2>2. held[e] \in Nat /\ shelf[d] \in Nat /\ shelf'[d] = shelf[d] + (IF d = e THEN short ELSE 0)
    BY <1>1, <1>4, <1>5
  <2>3. CASE d = e
    <3> DEFINE h == held[e]
               s == shelf[d]
    <3>1. h \in Nat /\ s \in Nat /\ held'[d] = h - short /\ shelf'[d] = s + short
      BY <2>1, <2>2, <2>3
    <3>2. (h - short) + (s + short) = h + s
      <4> HIDE DEF h, s
      <4> QED BY <1>3, <3>1
    <3> QED BY <2>3, <3>1, <3>2
  <2>4. CASE d # e
    BY <2>1, <2>2, <2>4
  <2> QED BY <2>3, <2>4
<1>10. All' = All /\ All \in Nat
  BY <1>1, <1>9, SameGoods, AllIs
<1> QED BY <1>7, <1>8, <1>10 DEF Serving, GoodsAccounted

LEMMA PlaceServes ==
  ASSUME Orderly, Orderly', NEW e \in Entity, NEW side \in Side, NEW p \in Price, NEW q \in 1..MaxQty,
         Place(e, side, p, q)
  PROVE  Serving
<1> DEFINE rest == Purged(Cancelled(book, Level(book, e, side, p)))
<1>1. /\ Shortfall(rest, e, side, q) <= held[e]
      /\ Accept(rest, e, side, p, q, Shortfall(rest, e, side, q), held[e])
  BY DEF Place
<1>2. /\ rest \in Seq(Order)
      /\ \A d : Claimed(rest, d) <= Claimed(book, d)
      /\ \A k \in Resting(rest) :
           \E i \in Resting(book) \ Level(book, e, side, p) :
             rest[k].left = book[i].left /\ rest[k].owner = book[i].owner
  BY Weeded DEF Orderly
<1>3. side \in {"buy", "sell"}
  BY DEF Side
<1> HIDE DEF rest
<1>4. \A k \in Resting(rest) : rest[k].left > 0
  BY <1>2 DEF Orderly, BookTyped
<1> QED BY <1>1, <1>2, <1>3, <1>4, AcceptServes

(* Where no request straddles a tick, what one has read is so when it      *)
(* writes.                                                                 *)
Straight ==
  hand # NoRequest =>
    /\ phase = "idle"
    /\ hand.level = Level(book, hand.for, hand.side, hand.price)
    /\ hand.short = Shortfall(book, hand.for, hand.side, hand.qty)
    /\ hand.have = held[hand.for]

LEMMA StraightStep ==
  ASSUME ~Overlapping, Straight, [MarketNext]_marketVars
  PROVE  Straight'
<1>1. CASE Bidding
  <2>1. CASE \E e \in Entity, side \in Side, p \in Price, q \in 1..MaxQty : Place(e, side, p, q)
    BY <2>1 DEF Place, Straight
  <2>2. CASE \E e \in Entity, side \in Side, p \in Price, q \in 1..MaxQty : Ask(e, side, p, q)
    <3>1. PICK e \in Entity, side \in Side, p \in Price, q \in 1..MaxQty : Ask(e, side, p, q)
      BY <2>2
    <3>2. /\ phase = "idle" /\ phase' = phase
          /\ hand' = [for |-> e, side |-> side, price |-> p, qty |-> q, level |-> Level(book, e, side, p),
                      short |-> Shortfall(book, e, side, q), have |-> held[e]]
          /\ UNCHANGED <<placed, held, shelf, book>>
      BY <3>1 DEF Ask, who, stock
    <3>3. Level(book', e, side, p) = Level(book, e, side, p)
      BY <3>2
    <3>4. Shortfall(book, e, side, q)' = Shortfall(book, e, side, q)
      BY <3>2 DEF Shortfall, FreeShelf
    <3>5. /\ hand'.for = e /\ hand'.side = side /\ hand'.price = p /\ hand'.qty = q
          /\ hand'.level = Level(book, e, side, p)
          /\ hand'.short = Shortfall(book, e, side, q) /\ hand'.have = held[e]
      BY <3>2
    <3>6. hand'.short = Shortfall(book, hand.for, hand.side, hand.qty)'
      BY <3>4, <3>5 DEF Shortfall, FreeShelf
    <3>7. hand'.level = Level(book, hand.for, hand.side, hand.price)'
      BY <3>2, <3>3, <3>5
    <3> QED BY <3>2, <3>5, <3>6, <3>7 DEF Straight
  <2> QED BY <1>1, <2>1, <2>2 DEF Bidding
<1>2. CASE Answer
  BY <1>2 DEF Answer, Straight
<1>3. CASE \E i \in DOMAIN book : CancelOrder(i)
  BY <1>3 DEF CancelOrder, Straight
<1>4. CASE Settle
  BY <1>4 DEF Settle, OpenAuction, StepAside, Broke, Bare, Trade, CloseAuction, Counterparties,
              Settling, Cancel, Straight
<1>5. CASE Pass /\ ~Settle
  BY <1>5 DEF Pass, BeginTick, BeginIntents, Reclaim, Rot, Commit, Straight
<1>6. CASE Elsewhere
  BY <1>6 DEF Elsewhere, Walk, Die, Spend, Straight
<1>7. CASE UNCHANGED marketVars
  <2>1. UNCHANGED <<phase, placed, alive, here, held, shelf, coins, book, last, price, bids, asks, hand>>
    BY <1>7 DEF marketVars, who, stock, auction
  <2> QED BY <2>1 DEF Straight, Shortfall, FreeShelf, Level, Of, Resting, Claimed, On
<1> QED BY <1>1, <1>2, <1>3, <1>4, <1>5, <1>6, <1>7 DEF MarketNext

LEMMA AnswerServes ==
  ASSUME Orderly, Orderly', Straight, Answer
  PROVE  Serving
<1> DEFINE rest == Cancelled(book, hand.level)
           kept == Kept(rest)
           due == Due(hand, rest)
<1>1. /\ hand # NoRequest
      /\ IF due <= Balance(hand)
         THEN Accept(kept, hand.for, hand.side, hand.price, hand.qty, due, Balance(hand))
         ELSE book' = Kept(book) /\ UNCHANGED <<held, shelf>>
  BY DEF Answer
<1>2. /\ hand.for \in Entity /\ hand.side \in {"buy", "sell"} /\ hand.price \in Price
      /\ hand.qty \in 1..MaxQty
  BY <1>1 DEF Orderly, Requested
<1>3. Balance(hand) = held[hand.for]
  BY <1>1 DEF Balance, Straight
<1>4. /\ kept \in Seq(Order)
      /\ \A k \in Resting(kept) :
           \E i \in Resting(book) \ hand.level : kept[k].left = book[i].left /\ kept[k].owner = book[i].owner
      /\ \A d : Claimed(kept, d) <= Claimed(book, d)
      /\ hand.level = {} => \A d : Claimed(kept, d) = Claimed(book, d)
  BY Weeded DEF Orderly
<1>5. \A d : Claimed(kept, d) = Claimed(rest, d)
  <2>1. rest \in Seq(Order)
    BY CancelledIs DEF Orderly, BookTyped
  <2> QED BY <2>1, KeptClaims
<1> HIDE DEF kept
<1>6. due = Shortfall(kept, hand.for, hand.side, hand.qty)
  <2>1. CASE hand.level = {}
    <3>1. due = Shortfall(book, hand.for, hand.side, hand.qty)
      BY <1>1, <2>1 DEF Due, Straight
    <3> QED BY <1>4, <2>1, <3>1 DEF Shortfall, FreeShelf
  <2>2. CASE hand.level # {}
    <3>1. due = Shortfall(rest, hand.for, hand.side, hand.qty)
      BY <2>2 DEF Due
    <3> QED BY <1>5, <3>1 DEF Shortfall, FreeShelf
  <2> QED BY <2>1, <2>2
<1>7. \A k \in Resting(kept) : kept[k].left > 0
  BY <1>4 DEF Orderly, BookTyped
<1> HIDE DEF rest, due
<1>8. CASE due <= Balance(hand)
  BY <1>1, <1>2, <1>3, <1>4, <1>6, <1>7, <1>8, AcceptServes
<1>9. CASE ~(due <= Balance(hand))
  <2>1. book' = Kept(book) /\ UNCHANGED <<held, shelf>>
    BY <1>1, <1>9
  <2>2. \A e : Claimed(Kept(book), e) = Claimed(book, e) /\ Claimed(book, e) \in Nat
    BY KeptClaims, ClaimedIs DEF Orderly, BookTyped
  <2>3. \A e : Claimed(book', e) <= Claimed(book, e)
    BY <2>1, <2>2
  <2> QED BY <2>1, <2>3, Unmoved
<1> QED BY <1>8, <1>9

(* A purge forgets no claim.                                               *)
LEMMA WeedingServes ==
  ASSUME Orderly, Orderly', NEW S, UNCHANGED <<held, shelf>>,
         book' \in {Purged(Cancelled(book, S)), Cancelled(book, S), Purged(book)}
  PROVE  Serving
<1>1. book \in Seq(Order)
  BY DEF Orderly, BookTyped
<1>2. \A e : Claimed(book, e) \in Nat
  BY <1>1, ClaimedIs
<1>3. CASE book' = Purged(Cancelled(book, S))
  <2>1. \A e : Claimed(Purged(Cancelled(book, S)), e) <= Claimed(book, e)
    BY Weeded DEF Orderly
  <2> QED BY <1>3, <2>1, Unmoved
<1>4. CASE book' = Cancelled(book, S)
  <2>1. \A e : Claimed(Cancelled(book, S), e) <= Claimed(book, e)
    BY <1>1, CancelledClaims
  <2> QED BY <1>4, <2>1, Unmoved
<1>5. CASE book' = Purged(book)
  <2>1. \A e : Claimed(Purged(book), e) = Claimed(book, e)
    BY <1>1, PurgedIs
  <2> QED BY <1>2, <1>5, <2>1, Unmoved
<1> QED BY <1>3, <1>4, <1>5

(* A fill takes off the seller's claim what it takes off the shelf.        *)
LEMMA TradeClaims ==
  ASSUME Orderly, Trade, NEW e
  PROVE  Claimed(book', e) = Claimed(book, e) - (IF e = book[BestAsk].owner THEN Fill ELSE 0)
<1> DEFINE b == BestBid
           a == BestAsk
           f == Fill
           X == Asking(book, e)
           Y == Asking(book', e)
<1>1. /\ Settling /\ book' \in Seq(Order) /\ DOMAIN book' = DOMAIN book
      /\ \A i \in DOMAIN book :
           /\ book'[i].owner = book[i].owner /\ book'[i].side = book[i].side /\ book'[i].price = book[i].price
           /\ i \notin {b, a} => book'[i] = book[i]
           /\ i \in {b, a} => /\ book'[i].left = book[i].left - f
                              /\ book'[i].open <=> book[i].left > f
  BY TradeIs
<1>2. /\ b \in DOMAIN book /\ a \in DOMAIN book /\ b # a /\ f \in Nat /\ f > 0 /\ f <= book[a].left /\ book[a].left \in Nat
      /\ book[b].side = "buy" /\ book[a].side = "sell" /\ book[a].open
  BY <1>1, MatchIs
<1>3. /\ Claimed(book, e) = Total(Lefts(book), X) /\ Claimed(book, e) \in Nat
      /\ X \subseteq DOMAIN book /\ IsFiniteSet(X) /\ Counts(Lefts(book), X)
  BY ClaimedIs DEF Orderly, BookTyped
<1>4. /\ Claimed(book', e) = Total(Lefts(book'), Y)
      /\ Y \subseteq DOMAIN book' /\ IsFiniteSet(Y) /\ Counts(Lefts(book'), Y)
  BY <1>1, ClaimedIs
<1> HIDE DEF a, b, f
<1>5. \A i \in X \ {a} : i \in Y /\ Lefts(book')[i] = Lefts(book)[i]
  <2> TAKE i \in X \ {a}
  <2>1. i \in DOMAIN book /\ i # a /\ i # b
    BY <1>2 DEF Asking
  <2> QED BY <1>1, <2>1 DEF Asking, Lefts
<1>6. Y \subseteq X
  <2> SUFFICES ASSUME NEW i \in Y PROVE i \in X
    OBVIOUS
  <2>1. i \in DOMAIN book /\ book'[i].open /\ book'[i].owner = e /\ book'[i].side = "sell"
    BY <1>1 DEF Asking
  <2>2. CASE i = a
    BY <1>1, <1>2, <2>1, <2>2 DEF Asking
  <2>3. CASE i # a
    BY <1>1, <1>2, <2>1, <2>3 DEF Asking
  <2> QED BY <2>2, <2>3
<1>7. CASE e # book[a].owner
  <2>1. a \notin X
    BY <1>7 DEF Asking
  <2>2. Y = X /\ \A i \in X : Lefts(book')[i] = Lefts(book)[i]
    BY <1>5, <1>6, <2>1
  <2> HIDE DEF X, Y
  <2>3. Total(Lefts(book'), X) = Total(Lefts(book), X)
    BY <2>2, TotalSame
  <2> QED BY <1>3, <1>4, <1>7, <2>2, <2>3 DEF a, f
<1>8. CASE e = book[a].owner
  <2>1. a \in X /\ Lefts(book)[a] = book[a].left /\ Lefts(book')[a] = book[a].left - f
    BY <1>1, <1>2, <1>8 DEF Asking, Lefts
  <2>2. CASE a \in Y
    <3>1. Y = X
      BY <1>5, <1>6, <2>1, <2>2
    <3> HIDE DEF X, Y
    <3>2. Counts(Lefts(book'), X)
      BY <1>4, <3>1
    <3>3. Total(Lefts(book'), X) = Total(Lefts(book), X) - Lefts(book)[a] + Lefts(book')[a]
      BY <1>3, <1>5, <2>1, <3>2, TotalChange
    <3> QED BY <1>2, <1>3, <1>4, <1>8, <2>1, <3>1, <3>3 DEF a, f
  <2>3. CASE a \notin Y
    <3>1. Y = X \ {a}
      BY <1>5, <1>6, <2>3
    <3>2. book[a].left = f
      BY <1>1, <1>2, <1>8, <2>3 DEF Asking
    <3> HIDE DEF X, Y
    <3>3. Total(Lefts(book), X) = Total(Lefts(book), X \ {a}) + Lefts(book)[a] /\ Total(Lefts(book), X \ {a}) \in Nat
      BY <1>3, <2>1, TotalSplit
    <3>4. Total(Lefts(book'), Y) = Total(Lefts(book), X \ {a})
      BY <1>5, <3>1, TotalSame
    <3> QED BY <1>2, <1>3, <1>4, <1>8, <2>1, <3>2, <3>3, <3>4 DEF a, f
  <2> QED BY <2>2, <2>3
<1> QED BY <1>7, <1>8 DEF a, f

LEMMA TradeServes ==
  ASSUME Orderly, Orderly', Trade
  PROVE  Serving
<1> DEFINE f == Fill
           x == book[BestBid].owner
           y == book[BestAsk].owner
<1>1. /\ Settling /\ x # y /\ Goods(y) >= f /\ Drawn(y)
  BY DEF Trade, Counterparties, Buy, Sell
<1>2. x \in Entity /\ y \in Entity /\ f \in Nat
  BY <1>1, MatchIs
<1>3. \A e : Claimed(book', e) = Claimed(book, e) - (IF e = y THEN f ELSE 0)
  BY TradeClaims
<1>4. held \in [Entity -> 0..Cap] /\ shelf \in [Entity -> Nat] /\ Cap \in Nat /\ StockTyped /\ StockTyped'
  BY Sizes DEF Orderly, StockTyped
<1>5. held[x] \in Nat /\ held[y] \in Nat /\ shelf[x] \in Nat /\ shelf[y] \in Nat /\ held[x] <= Cap
  BY <1>2, <1>4
<1>6. /\ held'[x] = Clip(held[x] + f) /\ shelf'[x] = shelf[x]
      /\ held'[y] + shelf'[y] = held[y] + shelf[y] - f
      /\ \A e \in Entity \ {x, y} : held'[e] = held[e] /\ shelf'[e] = shelf[e]
      /\ \A e \in Entity : shelf'[e] = shelf[e] - (IF placed /\ e = y THEN f ELSE 0)
  <2>1. CASE placed
    <3>1. shelf' = [shelf EXCEPT ![y] = @ - f] /\ held' = [held EXCEPT ![x] = Clip(held[x] + f)]
      BY <1>1, <2>1, <1>4, <1>2 DEF Drawn, Buy
    <3> HIDE DEF f, x, y
    <3>2. shelf'[y] = shelf[y] - f /\ held'[y] = held[y] /\ held'[x] = Clip(held[x] + f) /\ shelf'[x] = shelf[x]
      BY <1>1, <1>2, <1>4, <3>1
    <3>3. \A e \in Entity \ {x, y} : held'[e] = held[e] /\ shelf'[e] = shelf[e]
      BY <1>2, <1>4, <3>1
    <3>4. \A e \in Entity : shelf'[e] = shelf[e] - (IF placed /\ e = y THEN f ELSE 0)
      BY <1>2, <1>4, <2>1, <3>1
    <3> QED BY <1>2, <1>5, <3>2, <3>3, <3>4
  <2>2. CASE ~placed
    <3>1. held' = [held EXCEPT ![y] = held[y] - f, ![x] = Clip(held[x] + f)] /\ shelf' = shelf
      BY <1>1, <2>2, <1>4, <1>2 DEF Drawn, Buy
    <3> HIDE DEF f, x, y
    <3>2. shelf'[y] = shelf[y] /\ held'[y] = held[y] - f /\ held'[x] = Clip(held[x] + f) /\ shelf'[x] = shelf[x]
      BY <1>1, <1>2, <1>4, <3>1
    <3>3. \A e \in Entity \ {x, y} : held'[e] = held[e] /\ shelf'[e] = shelf[e]
      BY <1>2, <1>4, <3>1
    <3>4. \A e \in Entity : shelf'[e] = shelf[e] - (IF placed /\ e = y THEN f ELSE 0)
      BY <1>2, <1>4, <2>2, <3>1
    <3> QED BY <1>2, <1>5, <3>2, <3>3, <3>4
  <2> QED BY <2>1, <2>2
<1> HIDE DEF f, x, y
<1>7. OnlyRotUnbacks
  <2> SUFFICES ASSUME NEW e \in Entity, placed, Claimed(book, e) <= shelf[e]
               PROVE  Claimed(book', e) <= shelf'[e]
    BY DEF OnlyRotUnbacks, Backed
  <2>1. Claimed(book, e) \in Nat /\ shelf[e] \in Nat
    BY <1>4, ClaimedIs DEF Orderly, BookTyped
  <2> QED BY <1>2, <1>3, <1>6, <2>1
<1>8. DeliverOnlyShortfall
  <2> SUFFICES ASSUME NEW e \in Entity PROVE ~(shelf'[e] > shelf[e])
    BY DEF DeliverOnlyShortfall
  <2>1. shelf[e] \in Nat
    BY <1>4
  <2> QED BY <1>2, <1>6, <2>1
<1>9. GoodsAccounted
  <2>1. Clip(held[x] + f) <= held[x] + f /\ Clip(held[x] + f) \in Nat
        /\ (Clip(held[x] + f) < held[x] + f => Clip(held[x] + f) = Cap)
    BY <1>2, <1>4, <1>5 DEF Clip, Smaller
  <2>2. All' = All - (held[x] + shelf[x]) - (held[y] + shelf[y])
                       + (held'[x] + shelf'[x]) + (held'[y] + shelf'[y])
    BY <1>1, <1>2, <1>4, <1>6, MovedGoods
  <2>3. All' \in Nat /\ All \in Nat
    BY <1>4, AllIs
  <2>4. held'[x] \in Nat
    BY <1>6, <2>1
  <2>5. All' = All - held[x] - f + held'[x]
    <3> DEFINE k == held'[y] + shelf'[y]
    <3>1. k = held[y] + shelf[y] - f
      BY <1>6
    <3>2. All' = All - (held[x] + shelf[x]) - (held[y] + shelf[y]) + (held'[x] + shelf[x]) + k
      BY <1>6, <2>2
    <3> HIDE DEF k
    <3> QED BY <1>2, <1>5, <2>3, <2>4, <3>1, <3>2
  <2> QED BY <1>2, <1>5, <1>6, <2>1, <2>3, <2>5 DEF GoodsAccounted
<1> QED BY <1>7, <1>8, <1>9 DEF Serving

(* What use, rot and death take is accounted to them.                      *)
LEMMA TakenServes ==
  ASSUME Orderly, Orderly', Taken, All' <= All,
         \A e \in Entity : shelf'[e] <= shelf[e],
         Rot \/ (shelf' = shelf /\ \A e : Claimed(book', e) <= Claimed(book, e))
  PROVE  Serving
<1>1. \A e \in Entity : shelf[e] \in Nat /\ shelf'[e] \in Nat /\ Claimed(book, e) \in Nat /\ Claimed(book', e) \in Nat
  BY ClaimedIs DEF Orderly, StockTyped, BookTyped
<1>2. OnlyRotUnbacks
  BY <1>1 DEF OnlyRotUnbacks, Backed
<1>3. DeliverOnlyShortfall
  BY <1>1 DEF DeliverOnlyShortfall
<1> QED BY <1>2, <1>3 DEF Serving, GoodsAccounted

LEMMA SpendServes ==
  ASSUME Orderly, Orderly', NEW e \in Entity, Spend(e)
  PROVE  Serving
<1>1. /\ held' = [held EXCEPT ![e] = @ - 1] /\ shelf' = shelf /\ book' = book
      /\ held \in [Entity -> 0..Cap] /\ shelf \in [Entity -> Nat] /\ Cap \in Nat
  BY Sizes DEF Spend, Orderly, StockTyped
<1>2. \A d \in Entity : held'[d] + shelf'[d] <= held[d] + shelf[d] /\ shelf'[d] <= shelf[d]
  <2> TAKE d \in Entity
  <2>1. held[d] \in Nat /\ shelf[d] \in Nat /\ held'[d] = (IF d = e THEN held[d] - 1 ELSE held[d])
    BY <1>1
  <2> QED BY <1>1, <2>1
<1>3. All' <= All
  BY <1>2, NoMoreGoods DEF Orderly
<1>4. \A d : Claimed(book, d) \in Nat
  BY ClaimedIs DEF Orderly, BookTyped
<1>5. \A d : Claimed(book', d) <= Claimed(book, d)
  BY <1>1, <1>4
<1>6. Taken
  BY DEF Taken
<1> QED BY <1>1, <1>2, <1>3, <1>5, <1>6, TakenServes

LEMMA RotServes ==
  ASSUME Orderly, Orderly', Rot
  PROVE  Serving
<1>1. /\ held' = [e \in Entity |-> held[e] - Lost(held[e])]
      /\ shelf' = [e \in Entity |-> shelf[e] - Lost(shelf[e])]
  BY DEF Rot
<1>2. \A d \in Entity : held'[d] + shelf'[d] <= held[d] + shelf[d] /\ shelf'[d] <= shelf[d]
  <2> TAKE d \in Entity
  <2>1. held[d] \in Nat /\ shelf[d] \in Nat
    BY Sizes DEF Orderly, StockTyped
  <2>2. Lost(held[d]) \in 0..held[d] /\ Lost(shelf[d]) \in 0..shelf[d]
    BY <2>1, LostIs
  <2>3. held'[d] = held[d] - Lost(held[d]) /\ shelf'[d] = shelf[d] - Lost(shelf[d])
    BY <1>1
  <2> QED BY <2>1, <2>2, <2>3
<1>3. All' <= All
  BY <1>2, NoMoreGoods DEF Orderly
<1>4. Taken
  BY DEF Taken
<1> QED BY <1>2, <1>3, <1>4, TakenServes

LEMMA DieServes ==
  ASSUME Orderly, Orderly', NEW e \in Entity, Die(e)
  PROVE  Serving
<1>1. /\ book' = Purged(Cancelled(book, Of(book, e))) /\ shelf' = shelf
      /\ held \in [Entity -> 0..Cap] /\ shelf \in [Entity -> Nat] /\ Cap \in Nat
      /\ StockTyped /\ StockTyped'
  BY Sizes DEF Die, Withdrawn, Orderly, StockTyped
<1>2. \A d : Claimed(Purged(Cancelled(book, Of(book, e))), d) <= Claimed(book, d)
  BY Weeded DEF Orderly
<1>3. \A d : Claimed(book', d) <= Claimed(book, d)
  BY <1>1, <1>2
<1>4. All' <= All
  <2>1. CASE held' = [held EXCEPT ![e] = 0]
    <3>1. \A d \in Entity : held'[d] + shelf'[d] <= held[d] + shelf[d]
      <4> TAKE d \in Entity
      <4>1. held[d] \in Nat /\ shelf[d] \in Nat /\ held'[d] = (IF d = e THEN 0 ELSE held[d])
        BY <1>1, <2>1
      <4> QED BY <1>1, <4>1
    <3> QED BY <1>1, <3>1, NoMoreGoods
  <2>2. CASE \E h \in alive \ {e} :
              held' = [held EXCEPT ![h] = IF held[e] = 0 THEN @ ELSE Clip(@ + held[e]), ![e] = 0]
    <3>1. PICK h \in alive \ {e} :
              held' = [held EXCEPT ![h] = IF held[e] = 0 THEN @ ELSE Clip(@ + held[e]), ![e] = 0]
      BY <2>2
    <3>2. h \in Entity /\ h # e
      BY DEF Orderly, WhoTyped
    <3>3. held[h] \in Nat /\ held[e] \in Nat /\ shelf[h] \in Nat /\ shelf[e] \in Nat
      BY <1>1, <3>2
    <3>4. /\ held'[h] = (IF held[e] = 0 THEN held[h] ELSE Clip(held[h] + held[e])) /\ held'[e] = 0
          /\ \A d \in Entity \ {h, e} : held'[d] = held[d] /\ shelf'[d] = shelf[d]
      BY <1>1, <3>1, <3>2
    <3>5. held'[h] <= held[h] + held[e] /\ held'[h] \in Nat
      BY <1>1, <3>3, <3>4 DEF Clip, Smaller
    <3>6. All' = All - (held[h] + shelf[h]) - (held[e] + shelf[e])
                         + (held'[h] + shelf'[h]) + (held'[e] + shelf'[e])
      BY <1>1, <3>2, <3>4, MovedGoods
    <3>7. All' \in Nat /\ All \in Nat
      BY <1>1, AllIs
    <3> DEFINE k == held'[h]
    <3>8. All' = All - (held[h] + shelf[h]) - (held[e] + shelf[e]) + (k + shelf[h]) + (0 + shelf[e])
      BY <1>1, <3>4, <3>6
    <3>9. k \in Nat /\ k <= held[h] + held[e]
      BY <3>5
    <3> HIDE DEF k
    <3> QED BY <3>3, <3>7, <3>8, <3>9
  <2> QED BY <2>1, <2>2 DEF Die
<1>5. Taken
  BY DEF Taken
<1>6. \A d \in Entity : shelf'[d] <= shelf[d]
  BY <1>1
<1> QED BY <1>1, <1>3, <1>4, <1>5, <1>6, TakenServes

(* What is reclaimed comes home, but for what would exceed the cap.        *)
LEMMA ReclaimServes ==
  ASSUME Orderly, Orderly', Reclaim
  PROVE  Serving
<1>1. /\ shelf' = [e \in Entity |-> shelf[e] - Returned(e)]
      /\ held' = [e \in Entity |-> IF Returned(e) = 0 THEN held[e] ELSE Clip(held[e] + Returned(e))]
      /\ book' = book /\ Cap \in Nat /\ StockTyped /\ StockTyped'
  BY Sizes DEF Reclaim, Orderly
<1>2. \A e \in Entity :
        /\ held[e] \in Nat /\ held[e] <= Cap /\ shelf[e] \in Nat /\ Claimed(book, e) \in Nat
        /\ Returned(e) \in 0..shelf[e]
        /\ Claimed(book, e) <= shelf[e] => Claimed(book, e) <= shelf[e] - Returned(e)
        /\ shelf'[e] = shelf[e] - Returned(e)
        /\ held'[e] = IF Returned(e) = 0 THEN held[e] ELSE Clip(held[e] + Returned(e))
  <2> TAKE e \in Entity
  <2>1. held[e] \in 0..Cap /\ shelf[e] \in Nat
    BY <1>1 DEF StockTyped
  <2>2. Claimed(book, e) \in Nat
    BY ClaimedIs DEF Orderly, BookTyped
  <2>3. shelf'[e] = shelf[e] - Returned(e)
    BY <1>1
  <2>4. held'[e] = IF Returned(e) = 0 THEN held[e] ELSE Clip(held[e] + Returned(e))
    BY <1>1
  <2>5. held[e] \in Nat /\ held[e] <= Cap
    BY <1>1, <2>1
  <2> QED BY <2>1, <2>2, <2>3, <2>4, <2>5, ReturnedIs
<1>3. OnlyRotUnbacks
  BY <1>1, <1>2 DEF OnlyRotUnbacks, Backed
<1>4. DeliverOnlyShortfall
  <2> SUFFICES ASSUME NEW e \in Entity PROVE ~(shelf'[e] > shelf[e])
    BY DEF DeliverOnlyShortfall
  <2> QED BY <1>2
<1>5. \A e \in Entity : /\ held'[e] + shelf'[e] <= held[e] + shelf[e]
                        /\ held'[e] = Cap \/ held'[e] + shelf'[e] = held[e] + shelf[e]
  <2> TAKE e \in Entity
  <2> DEFINE n == Returned(e)
  <2>1. /\ held[e] \in Nat /\ held[e] <= Cap /\ shelf[e] \in Nat /\ n \in 0..shelf[e]
        /\ shelf'[e] = shelf[e] - n /\ held'[e] = IF n = 0 THEN held[e] ELSE Clip(held[e] + n)
    BY <1>2
  <2> HIDE DEF n
  <2> QED BY <1>1, <2>1 DEF Clip, Smaller
<1>6. All' <= All
  BY <1>1, <1>5, NoMoreGoods
<1>7. All' < All => \E e \in Entity : held'[e] = Cap
  <2> SUFFICES ASSUME \A e \in Entity : held'[e] # Cap PROVE ~(All' < All)
    OBVIOUS
  <2>1. All' = All /\ All \in Nat
    BY <1>1, <1>5, SameGoods, AllIs
  <2> QED BY <2>1
<1> QED BY <1>3, <1>4, <1>6, <1>7 DEF Serving, GoodsAccounted

LEMMA ServingStep ==
  ASSUME Orderly, Orderly', Straight, MarketNext
  PROVE  Serving
<1>0. \A e : Claimed(book, e) \in Nat
  BY ClaimedIs DEF Orderly, BookTyped
<1>1. CASE UNCHANGED <<held, shelf, book>>
  <2>1. \A e : Claimed(book', e) <= Claimed(book, e)
    BY <1>0, <1>1
  <2> QED BY <1>1, <2>1, Unmoved
<1>2. CASE Bidding
  <2>1. CASE \E e \in Entity, side \in Side, p \in Price, q \in 1..MaxQty : Place(e, side, p, q)
    BY <2>1, PlaceServes
  <2>2. CASE \E e \in Entity, side \in Side, p \in Price, q \in 1..MaxQty : Ask(e, side, p, q)
    BY <1>1, <2>2 DEF Ask, stock
  <2> QED BY <1>2, <2>1, <2>2 DEF Bidding
<1>3. CASE Answer
  BY <1>3, AnswerServes
<1>4. CASE \E i \in DOMAIN book : CancelOrder(i)
  BY <1>4, WeedingServes DEF CancelOrder, stock
<1>5. CASE Settle
  <2>1. CASE OpenAuction \/ StepAside
    BY <1>1, <2>1 DEF OpenAuction, StepAside, stock
  <2>2. CASE Broke \/ Bare
    BY <2>2, WeedingServes DEF Broke, Bare, Cancel, stock
  <2>3. CASE Trade
    BY <2>3, TradeServes
  <2>4. CASE CloseAuction
    BY <2>4, WeedingServes DEF CloseAuction, stock
  <2> QED BY <1>5, <2>1, <2>2, <2>3, <2>4 DEF Settle
<1>6. CASE Pass /\ ~Settle
  BY <1>1, <1>6, ReclaimServes, RotServes DEF Pass, BeginTick, BeginIntents, Commit, stock
<1>7. CASE Elsewhere
  <2>1. Mortal \subseteq Entity
    BY MarketAssumption
  <2> QED BY <1>1, <1>7, <2>1, SpendServes, DieServes DEF Elsewhere, Walk, stock
<1> QED BY <1>2, <1>3, <1>4, <1>5, <1>6, <1>7 DEF MarketNext

(* Where no request straddles a tick, the shelf backs every open ask it    *)
(* backed until rot eats it, goods go to it only to back what is asked,    *)
(* and none is made or lost by quoting, delivering, trading and reclaiming *)
(* (_deliver_ask, _claimed_on_shelf, _settle, _reclaim_escrows).           *)
THEOREM ShelfServesBookHolds ==
  ASSUME ~Overlapping
  PROVE  MarketSpec => ShelfServesBook
<1>1. MarketInit => Orderly /\ Straight
  BY StartsOrderly DEF MarketInit, Straight
<1>2. Orderly /\ Straight /\ [MarketNext]_marketVars => Orderly' /\ Straight'
  BY MarketStep, StraightStep
<1>3. Orderly /\ Straight /\ MarketNext => MarketTypeOK' /\ OnlyRotUnbacks /\ DeliverOnlyShortfall /\ GoodsAccounted
  <2> SUFFICES ASSUME Orderly, Straight, MarketNext
               PROVE  MarketTypeOK' /\ OnlyRotUnbacks /\ DeliverOnlyShortfall /\ GoodsAccounted
    OBVIOUS
  <2>1. Orderly'
    BY MarketStep
  <2>2. Serving
    BY <2>1, ServingStep
  <2>3. MarketTypeOK'
    BY <2>1, OrderlyTypes, PTL
  <2> QED BY <2>2, <2>3 DEF Serving
<1> QED BY <1>1, <1>2, <1>3, PTL DEF MarketSpec, ShelfServesBook

-----------------------------------------------------------------------------
(* Who quotes is alive, and stays so while the request is in hand.         *)
Living == OnlyTheLivingTrade /\ (hand # NoRequest => hand.for \in alive)

(* Orders weeded from the book bring no new owner.                         *)
LEMMA WeedingLives ==
  ASSUME Orderly, Living, UNCHANGED <<alive, hand>>, NEW S,
         book' \in {Purged(Cancelled(book, S)), Cancelled(book, S), Purged(book)}
  PROVE  Living'
<1>1. book \in Seq(Order)
  BY DEF Orderly, BookTyped
<1>2. \A k \in Resting(book') : \E i \in Resting(book) : book'[k].owner = book[i].owner
  <2>1. CASE book' = Purged(Cancelled(book, S))
    <3> DEFINE rest == Purged(Cancelled(book, S))
    <3>1. \A k \in Resting(rest) : \E i \in Resting(book) \ S : rest[k].owner = book[i].owner
      BY Weeded DEF Orderly
    <3> HIDE DEF rest
    <3>2. book' = rest
      BY <2>1 DEF rest
    <3> QED BY <3>1, <3>2
  <2>2. CASE book' = Cancelled(book, S)
    <3> DEFINE cb == Cancelled(book, S)
    <3>1. /\ Resting(cb) = Resting(book) \ S
          /\ \A i \in DOMAIN book : cb[i].owner = book[i].owner
      BY <1>1, CancelledIs
    <3> HIDE DEF cb
    <3>2. book' = cb
      BY <2>2 DEF cb
    <3> QED BY <3>1, <3>2 DEF Resting
  <2>3. CASE book' = Purged(book)
    <3> DEFINE pb == Purged(book)
    <3>1. \A k \in Resting(pb) : \E i \in Resting(book) : pb[k] = book[i]
      BY <1>1, PurgedIs
    <3> HIDE DEF pb
    <3>2. book' = pb
      BY <2>3 DEF pb
    <3> QED BY <3>1, <3>2
  <2> QED BY <2>1, <2>2, <2>3
<1>3. \A k \in Resting(book') : book'[k].owner \in alive
  BY <1>2 DEF Living, OnlyTheLivingTrade
<1>4. OnlyTheLivingTrade'
  BY <1>3 DEF OnlyTheLivingTrade, Resting
<1> QED BY <1>4 DEF Living

(* An order accepted from who is alive.                                    *)
LEMMA AcceptLives ==
  ASSUME Orderly, Living, alive' = alive, NEW bk \in Seq(Order), NEW e \in Entity \cap alive,
         NEW side \in {"buy", "sell"}, NEW p \in Price, NEW q \in 1..MaxQty, NEW short \in Nat, NEW have \in 0..Cap,
         short <= have, Accept(bk, e, side, p, q, short, have),
         \A k \in Resting(bk) : bk[k].left > 0 /\ \E i \in Resting(book) : bk[k].owner = book[i].owner
  PROVE  OnlyTheLivingTrade'
<1>1. \A k \in Resting(book') : book'[k].owner = e \/ \E i \in Resting(bk) : book'[k] = bk[i]
  BY Accepting DEF Orderly
<1>2. \A k \in Resting(bk) : bk[k].owner \in alive
  BY DEF Living, OnlyTheLivingTrade
<1>3. \A k \in Resting(book') : book'[k].owner \in alive
  BY <1>1, <1>2
<1> QED BY <1>3 DEF OnlyTheLivingTrade, Resting

LEMMA PlaceLives ==
  ASSUME Orderly, Living, NEW e \in Entity, NEW side \in Side, NEW p \in Price, NEW q \in 1..MaxQty,
         Place(e, side, p, q)
  PROVE  Living'
<1> DEFINE rest == Purged(Cancelled(book, Level(book, e, side, p)))
           short == Shortfall(rest, e, side, q)
<1>1. /\ short <= held[e] /\ e \in alive
      /\ Accept(rest, e, side, p, q, short, held[e])
      /\ UNCHANGED <<alive, hand>>
  BY DEF Place, who, MayQuote
<1>2. /\ rest \in Seq(Order)
      /\ \A k \in Resting(rest) :
           \E i \in Resting(book) \ Level(book, e, side, p) :
             rest[k].left = book[i].left /\ rest[k].owner = book[i].owner
  BY Weeded DEF Orderly
<1>3. side \in {"buy", "sell"} /\ held[e] \in 0..Cap
  BY DEF Side, Orderly, StockTyped
<1> HIDE DEF rest
<1>4. short \in Nat
  BY <1>2, <1>3, ShortfallIs, Sizes DEF Orderly, StockTyped
<1> HIDE DEF short
<1>5. \A k \in Resting(rest) : rest[k].left > 0 /\ \E i \in Resting(book) : rest[k].owner = book[i].owner
  BY <1>2 DEF Orderly, BookTyped
<1>6. OnlyTheLivingTrade'
  BY <1>1, <1>2, <1>3, <1>4, <1>5, AcceptLives
<1> QED BY <1>1, <1>6 DEF Living

LEMMA AnswerLives ==
  ASSUME Orderly, Living, Answer
  PROVE  Living'
<1> DEFINE rest == Cancelled(book, hand.level)
           kept == Kept(rest)
           due == Due(hand, rest)
           have == Balance(hand)
<1>1. /\ hand # NoRequest /\ hand' = NoRequest /\ alive' = alive
      /\ IF due <= have
         THEN Accept(kept, hand.for, hand.side, hand.price, hand.qty, due, have)
         ELSE book' = Kept(book) /\ UNCHANGED <<held, shelf>>
  BY DEF Answer, who
<1>2. /\ hand.for \in Entity \cap alive /\ hand.side \in {"buy", "sell"} /\ hand.price \in Price
      /\ hand.qty \in 1..MaxQty /\ hand.short \in Nat /\ hand.have \in 0..Cap
  BY <1>1 DEF Orderly, Requested, Living
<1>3. /\ kept \in Seq(Order)
      /\ \A k \in Resting(kept) :
           \E i \in Resting(book) \ hand.level : kept[k].left = book[i].left /\ kept[k].owner = book[i].owner
  BY Weeded DEF Orderly
<1>4. rest \in Seq(Order)
  BY CancelledIs DEF Orderly, BookTyped
<1>5. due \in Nat /\ have \in 0..Cap
  <2> HIDE DEF rest
  <2>1. Shortfall(rest, hand.for, hand.side, hand.qty) \in Nat
    <3>1. \A e \in Entity, side \in {"buy", "sell"}, q \in 1..MaxQty : Shortfall(rest, e, side, q) \in 0..q
      BY <1>4, ShortfallIs DEF Orderly, StockTyped
    <3> QED BY <1>2, <3>1, Sizes
  <2>2. held[hand.for] \in 0..Cap
    BY <1>2 DEF Orderly, StockTyped
  <2> QED BY <1>2, <2>1, <2>2 DEF Due, Balance
<1> HIDE DEF rest, kept, due, have
<1>6. \A k \in Resting(kept) : kept[k].left > 0 /\ \E i \in Resting(book) : kept[k].owner = book[i].owner
  BY <1>3 DEF Orderly, BookTyped
<1>7. OnlyTheLivingTrade'
  <2>1. CASE due <= have
    BY <1>1, <1>2, <1>3, <1>5, <1>6, <2>1, AcceptLives
  <2>2. CASE ~(due <= have)
    <3> DEFINE kb == Kept(book)
               nth(k) == Nth(Resting(book), k)
    <3>1. book' = kb
      BY <1>1, <2>2
    <3>2. /\ Resting(kb) = 1..Len(kb)
          /\ \A k \in 1..Len(kb) : kb[k] = book[nth(k)] /\ nth(k) \in Resting(book)
      BY KeptIs DEF Orderly, BookTyped
    <3> HIDE DEF kb, nth
    <3>3. \A k \in Resting(kb) : kb[k].owner \in alive
      BY <3>2 DEF Living, OnlyTheLivingTrade
    <3> QED BY <1>1, <3>1, <3>3 DEF OnlyTheLivingTrade, Resting
  <2> QED BY <2>1, <2>2
<1> QED BY <1>1, <1>7 DEF Living

LEMMA LivingStep ==
  ASSUME Orderly, Living, Straight, [MarketNext]_marketVars
  PROVE  Living'
<1>1. CASE UNCHANGED <<alive, book, hand>>
  BY <1>1 DEF Living, OnlyTheLivingTrade, Resting
<1>2. CASE Bidding
  <2>1. CASE \E e \in Entity, side \in Side, p \in Price, q \in 1..MaxQty : Place(e, side, p, q)
    BY <2>1, PlaceLives
  <2>2. CASE \E e \in Entity, side \in Side, p \in Price, q \in 1..MaxQty : Ask(e, side, p, q)
    <3>1. PICK e \in Entity, side \in Side, p \in Price, q \in 1..MaxQty : Ask(e, side, p, q)
      BY <2>2
    <3>2. e \in alive /\ hand'.for = e /\ UNCHANGED <<alive, book>>
      BY <3>1 DEF Ask, MayQuote, who
    <3> QED BY <3>2 DEF Living, OnlyTheLivingTrade, Resting
  <2> QED BY <1>2, <2>1, <2>2 DEF Bidding
<1>3. CASE Answer
  BY <1>3, AnswerLives
<1>4. CASE \E i \in DOMAIN book : CancelOrder(i)
  BY <1>4, WeedingLives DEF CancelOrder, who
<1>5. CASE Settle
  <2>1. CASE OpenAuction \/ StepAside
    BY <1>1, <2>1 DEF OpenAuction, StepAside, who
  <2>2. CASE Broke \/ Bare
    BY <2>2, WeedingLives DEF Broke, Bare, Cancel, who
  <2>3. CASE Trade
    <3>1. UNCHANGED <<alive, hand>>
      BY <2>3 DEF Trade, who
    <3>2. /\ DOMAIN book' = DOMAIN book
          /\ \A i \in DOMAIN book : book'[i].owner = book[i].owner /\ (book'[i].open => book[i].open)
      <4>1. /\ Settling /\ DOMAIN book' = DOMAIN book
            /\ \A i \in DOMAIN book :
                 /\ book'[i].owner = book[i].owner
                 /\ i \notin {BestBid, BestAsk} => book'[i] = book[i]
        BY <2>3, TradeIs
      <4>2. book[BestBid].open /\ book[BestAsk].open
        BY <4>1, MatchIs
      <4> QED BY <4>1, <4>2
    <3> QED BY <3>1, <3>2 DEF Living, OnlyTheLivingTrade, Resting
  <2>4. CASE CloseAuction
    BY <2>4, WeedingLives DEF CloseAuction, who
  <2> QED BY <1>5, <2>1, <2>2, <2>3, <2>4 DEF Settle
<1>6. CASE Pass /\ ~Settle
  BY <1>1, <1>6 DEF Pass, BeginTick, BeginIntents, Commit, Reclaim, Rot, who
<1>7. CASE Elsewhere
  <2>1. CASE \E e \in Mortal : Die(e)
    <3>1. PICK e \in Mortal : Die(e)
      BY <2>1
    <3>2. /\ phase # "idle" /\ alive' = alive \ {e} /\ hand' = hand
          /\ book' = Purged(Cancelled(book, Of(book, e)))
      BY <3>1 DEF Die, Withdrawn
    <3> DEFINE rest == Purged(Cancelled(book, Of(book, e)))
    <3>3. \A k \in Resting(rest) : \E i \in Resting(book) \ Of(book, e) : rest[k].owner = book[i].owner
      BY Weeded DEF Orderly
    <3>4. book' = rest
      BY <3>2
    <3> HIDE DEF rest
    <3>5. \A i \in Resting(book) \ Of(book, e) : book[i].owner \in alive /\ book[i].owner # e
      BY DEF Living, OnlyTheLivingTrade, Of
    <3>6. \A k \in Resting(book') : book'[k].owner \in alive'
      BY <3>2, <3>3, <3>4, <3>5
    <3> QED BY <3>2, <3>6 DEF Living, Straight, OnlyTheLivingTrade, Resting
  <2>2. CASE (\E e \in Walker : Walk(e)) \/ (\E e \in Entity : Spend(e))
    BY <1>1, <2>2 DEF Walk, Spend, who
  <2> QED BY <1>7, <2>1, <2>2 DEF Elsewhere
<1>8. CASE UNCHANGED marketVars
  BY <1>1, <1>8 DEF marketVars, who
<1> QED BY <1>2, <1>3, <1>4, <1>5, <1>6, <1>7, <1>8 DEF MarketNext

(* Where no request straddles a tick, whoever has an order in the book is  *)
(* alive: incapacity withdraws the orders of the dead, and none is         *)
(* accepted from them (conditions.py:359, _place_order).                   *)
THEOREM OnlyTheLivingTradeHolds ==
  ASSUME ~Overlapping
  PROVE  MarketSpec => []OnlyTheLivingTrade
<1>1. MarketInit => Orderly /\ Straight /\ Living
  <2> SUFFICES ASSUME MarketInit PROVE Living
    BY StartsOrderly DEF MarketInit, Straight
  <2> QED BY DEF MarketInit, Living, OnlyTheLivingTrade, Resting
<1>2. Orderly /\ Straight /\ Living /\ [MarketNext]_marketVars => Orderly' /\ Straight' /\ Living'
  BY MarketStep, StraightStep, LivingStep
<1>3. Living => OnlyTheLivingTrade
  BY DEF Living
<1> QED BY <1>1, <1>2, <1>3, PTL DEF MarketSpec
=============================================================================
