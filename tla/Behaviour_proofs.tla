-------------------------- MODULE Behaviour_proofs --------------------------
(* Proofs about Behaviour, for any threshold, any number of rows and any   *)
(* sources, however edits, laws, ticks and the operator overlap: its       *)
(* types; nothing but the operator silences an entity; an edit that        *)
(* replaced what was active leaves one behaviour until somebody else       *)
(* switches one; and what is written next starts afresh but for what the   *)
(* operator did.  The second half proves the four invariants of            *)
(* StoneAge: types; no craft without its rank but by trade; whatever a     *)
(* life is denied, its own ground feeds and shelters it; and a rank denied *)
(* takes down the ranks above it and no others.                            *)
EXTENDS Behaviour, StoneAge, Totals_proofs

LEMMA Parameters == MaxScripts \in Nat /\ Threshold \in Nat /\ Threshold > 0 /\ Own \notin Law
BY BehaviourAssumption

-----------------------------------------------------------------------------
(* The newest of a set of rows is one of them and none is newer.           *)
LEMMA NewestIsLast ==
  ASSUME NEW n \in Nat, NEW S \in SUBSET (1..n), S # {}
  PROVE  Newest(S) \in S /\ \A m \in S : m <= Newest(S)
<1> DEFINE T == {d \in 0..n : n - d \in S}
<1>1. \A m \in S : m \in Nat /\ n - m \in 0..n /\ n - (n - m) = m
  OBVIOUS
<1>2. T \subseteq Nat /\ \A m \in S : n - m \in T
  BY <1>1
<1>3. T # {}
  BY <1>2
<1>4. PICK t \in T : \A u \in T : t <= u
  <2> HIDE DEF T
  <2> QED BY <1>2, <1>3, LeastOf
<1>5. n - t \in S
  BY <1>4
<1>6. \A m \in S : m <= n - t
  <2> TAKE m \in S
  <2>1. t <= n - m /\ t \in Nat
    BY <1>2, <1>4
  <2> QED BY <1>1, <2>1
<1> QED BY <1>5, <1>6 DEF Newest

LEMMA RowsBelow ==
  ASSUME NEW n \in Nat, NEW S, S \subseteq 1..n
  PROVE  IsFiniteSet(S) /\ Cardinality(S) \in Nat
<1>1. IsFiniteSet(1..n)
  BY FS_Interval
<1> QED BY <1>1, FS_Subset, FS_CardinalityType

LEMMA CountNat ==
  ASSUME kept \subseteq 1..made, made \in Nat, NEW l
  PROVE  Count(l) \in Nat
<1>1. IsFiniteSet(1..made)
  BY FS_Interval
<1>2. IsFiniteSet({i \in kept : lineage[i] = l})
  BY <1>1, FS_Subset
<1> QED BY <1>2, FS_CardinalityType DEF Count

-----------------------------------------------------------------------------
(* Types.                                                                  *)

Columns ==
  /\ made \in 0..MaxScripts
  /\ kept \subseteq 1..made
  /\ active \subseteq kept
  /\ lineage \in [Id -> Lineage \cup {"spawned"}]
  /\ number \in [Id -> Nat]
  /\ quality \in [Id -> Quality]
  /\ streak \in [Id -> 0..Threshold]
  /\ crashes \in [Id -> 0..Threshold]
  /\ switched \subseteq active

Sessions ==
  /\ phase \in {"rest", "read", "run"}
  /\ due \subseteq kept
  /\ phase = "rest" <=> due = {}
  /\ hand \subseteq Editor
  /\ seen \in [Editor -> SUBSET kept]
  /\ \A e \in Editor : e \notin hand => seen[e] = {}
  /\ counted \in [Editor -> Nat]
  /\ alone \in BOOLEAN

Names ==
  \A i, j \in kept : lineage[i] = lineage[j] /\ number[i] = number[j] => i = j

LEMMA Parts == TypeOK <=> Columns /\ Sessions /\ Names
BY DEF TypeOK, Columns, Sessions, Names

LEMMA PartsNext == TypeOK' <=> Columns' /\ Sessions' /\ Names'
BY DEF TypeOK, Columns, Sessions, Names

LEMMA SourcesKnown == Sources \subseteq Quality
BY BehaviourAssumption DEF Sources

LEMMA InitTypes == Init => TypeOK
<1> SUFFICES ASSUME Init PROVE TypeOK
  OBVIOUS
<1>1. 0 \in 0..Threshold
  BY Parameters
<1>2. made \in 0..MaxScripts /\ kept = 1..made /\ active = 1..made
  BY Parameters DEF Init
<1>3. Columns
  BY <1>1, <1>2, SourcesKnown DEF Init, Columns
<1>4. Sessions
  BY DEF Init, Sessions
<1>5. Names
  <2>1. made = 0 \/ made = 1
    BY DEF Init
  <2> QED BY <1>2, <2>1 DEF Names
<1> QED BY <1>3, <1>4, <1>5, Parts

(* A new row under a name nobody has.                                      *)
LEMMA InsertTypes ==
  ASSUME Columns, Names, NEW l \in Lineage, NEW n \in Nat, NEW retired, NEW q \in Quality,
         Insert(l, n, retired, q), ~Taken(l, n)
  PROVE  /\ Columns'
         /\ Names'
         /\ kept \subseteq kept'
<1>1. made + 1 \in Id /\ made + 1 \notin kept /\ made' = made + 1 /\ kept' = kept \cup {made + 1}
  BY Parameters DEF Insert, Columns, Id
<1>2. 0 \in 0..Threshold
  BY Parameters
<1>3. Columns'
  <2>1. made' \in 0..MaxScripts /\ kept' \subseteq 1..made'
    BY <1>1, Parameters DEF Columns, Id
  <2>2. active' \subseteq kept' /\ switched' \subseteq active'
    BY <1>1 DEF Insert, Columns
  <2>3. /\ lineage' \in [Id -> Lineage \cup {"spawned"}]
        /\ number' \in [Id -> Nat]
        /\ quality' \in [Id -> Quality]
    BY <1>1 DEF Insert, Columns
  <2>4. streak' \in [Id -> 0..Threshold] /\ crashes' \in [Id -> 0..Threshold]
    BY <1>1, <1>2 DEF Insert, Columns
  <2> QED BY <2>1, <2>2, <2>3, <2>4 DEF Columns
<1>4. \A i \in kept : i \in Id /\ i # made + 1
                     /\ lineage'[i] = lineage[i] /\ number'[i] = number[i]
  BY <1>1, Parameters DEF Insert, Columns, Id
<1>5. lineage'[made + 1] = l /\ number'[made + 1] = n
  BY <1>1 DEF Insert, Columns
<1>6. Names'
  <2>1. ASSUME NEW i \in kept', NEW j \in kept',
               lineage'[i] = lineage'[j], number'[i] = number'[j]
        PROVE  i = j
    <3>1. CASE i \in kept /\ j \in kept
      BY <1>4, <2>1, <3>1 DEF Names
    <3>2. CASE i = made + 1 /\ j \in kept
      BY <1>4, <1>5, <2>1, <3>2 DEF Taken
    <3>3. CASE i \in kept /\ j = made + 1
      BY <1>4, <1>5, <2>1, <3>3 DEF Taken
    <3>4. CASE i = made + 1 /\ j = made + 1
      BY <3>4
    <3> QED BY <1>1, <3>1, <3>2, <3>3, <3>4
  <2> QED BY <2>1 DEF Names
<1> QED BY <1>1, <1>3, <1>6

LEMMA NumbersNat ==
  ASSUME Columns, Sessions
  PROVE  /\ \A l : FreshNumber(l) \in Nat
         /\ \A e \in Editor : EditNumber(e) \in Nat
<1>1. \A l : Count(l) \in Nat
  BY CountNat, Parameters DEF Columns
<1> QED BY <1>1 DEF FreshNumber, EditNumber, Sessions

LEMMA EditTypes ==
  ASSUME TypeOK, NEW e \in Editor
  PROVE  /\ EditReads(e) => TypeOK'
         /\ EditFails(e) => TypeOK'
         /\ \A q \in Quality : EditWrites(e, q) => TypeOK'
<1> USE Parts
<1>1. ASSUME EditReads(e) PROVE TypeOK'
  <2>1. Count(Own) \in Nat
    BY CountNat, Parameters DEF Columns
  <2>2. Columns' /\ Names'
    BY <1>1 DEF Columns, Names, EditReads, rows, past
  <2>3. Sessions'
    BY <1>1, <2>1 DEF Sessions, Columns, EditReads, rows, tick, past
  <2> QED BY <2>2, <2>3, PartsNext
<1>2. ASSUME EditFails(e) PROVE TypeOK'
  <2>1. Columns' /\ Names'
    BY <1>2 DEF Columns, Names, EditFails, rows, past
  <2>2. Sessions'
    BY <1>2 DEF Sessions, EditFails, Done, rows, tick, past
  <2> QED BY <2>1, <2>2, PartsNext
<1>3. ASSUME NEW q \in Quality, EditWrites(e, q) PROVE TypeOK'
  <2>1. EditNumber(e) \in Nat /\ Own \in Lineage
    BY NumbersNat DEF Lineage
  <2>2. Columns' /\ Names' /\ kept \subseteq kept'
    BY <1>3, <2>1, InsertTypes DEF EditWrites
  <2>3. Sessions'
    BY <1>3, <2>2 DEF Sessions, EditWrites, Done, tick
  <2> QED BY <2>2, <2>3, PartsNext
<1> QED BY <1>1, <1>2, <1>3

LEMMA EnactTypes ==
  ASSUME TypeOK, NEW l \in Law, NEW q \in Quality, Enact(l, q)
  PROVE  TypeOK'
<1>1. Columns /\ Sessions /\ Names
  BY Parts
<1>2. FreshNumber(l) \in Nat /\ l \in Lineage
  BY <1>1, NumbersNat DEF Lineage
<1>3. \/ Insert(l, FreshNumber(l), {}, q)
      \/ \E i \in active : Insert(l, FreshNumber(l), {i}, q)
  BY DEF Enact
<1>4. ~Taken(l, FreshNumber(l))
  BY DEF Enact
<1>5. Columns' /\ Names' /\ kept \subseteq kept'
  BY <1>1, <1>2, <1>3, <1>4, InsertTypes
<1>6. Sessions'
  BY <1>1, <1>5 DEF Enact, Sessions, tick, edits
<1> QED BY <1>5, <1>6, PartsNext

LEMMA AdminTypes ==
  ASSUME TypeOK, NEW i \in kept, Switch(i) \/ Delete(i)
  PROVE  TypeOK'
<1> USE Parts
<1>1. CASE Switch(i)
  <2>1. 0 \in 0..Threshold
    BY Parameters
  <2>2. Columns'
    BY <1>1, <2>1 DEF Switch, Columns, rows
  <2>3. Sessions' /\ Names'
    BY <1>1 DEF Switch, Sessions, Names, rows, tick, edits
  <2> QED BY <2>2, <2>3, PartsNext
<1>2. CASE Delete(i)
  <2>1. Columns' /\ Names'
    BY <1>2 DEF Delete, Columns, Names
  <2>2. \A e \in Editor : seen[e] = {}
    BY <1>2 DEF Delete, Quiet, Sessions
  <2>3. seen' \in [Editor -> SUBSET kept']
    BY <1>2, <2>2 DEF Delete, edits, Sessions
  <2>4. due' = {}
    BY <1>2 DEF Delete, Quiet, Sessions, tick
  <2>5. Sessions'
    BY <1>2, <2>3, <2>4 DEF Delete, Sessions, tick, edits
  <2> QED BY <2>1, <2>5, PartsNext
<1> QED BY <1>1, <1>2

-----------------------------------------------------------------------------
(* The tick.                                                               *)

LEMMA TickReadsTypes ==
  ASSUME TypeOK, TickReads
  PROVE  TypeOK'
<1>1. Columns' /\ Names'
  BY Parts DEF TickReads, Columns, Names, rows, past
<1>2. Sessions'
  BY Parts DEF TickReads, Sessions, Columns, rows, edits, past
<1> QED BY <1>1, <1>2, PartsNext

(* A script run leaves the rows and the editors alone.                     *)
LEMMA RanTypes ==
  ASSUME TypeOK, NEW i \in Id, NextUp(i), Ran(i), UNCHANGED <<rows, edits>>,
         active' \subseteq kept, switched' \subseteq active', alone' = alone,
         streak' \in [Id -> 0..Threshold], crashes' \in [Id -> 0..Threshold]
  PROVE  TypeOK'
<1>1. Columns' /\ Names'
  BY Parts DEF Columns, Names, rows
<1>2. due' = due \ {i} /\ i \in due /\ kept' = kept
  BY DEF Ran, NextUp, rows
<1>3. phase' \in {"rest", "run"} /\ (phase' = "rest" <=> due' = {})
  BY <1>2 DEF Ran
<1>4. Sessions'
  BY <1>2, <1>3, Parts DEF Sessions, rows, edits
<1> QED BY <1>1, <1>4, PartsNext

LEMMA CountedRange ==
  ASSUME Columns, NEW i \in Id
  PROVE  Counted(i) \in 0..Threshold /\ Smaller(crashes[i] + 1, Threshold) \in 0..Threshold
<1>1. streak[i] \in 0..Threshold /\ crashes[i] \in 0..Threshold
  BY DEF Columns
<1> QED BY <1>1, Parameters DEF Counted, Smaller

LEMMA FallbackKept ==
  ASSUME Columns, NEW i \in Id, Others(i) # {}
  PROVE  Fallback(i) \in kept /\ Fallback(i) # i /\ Fallback(i) \in Id
<1>1. made \in Nat /\ Others(i) \in SUBSET (1..made)
  <2>1. made \in Nat
    BY Parameters DEF Columns
  <2>2. Others(i) \subseteq 1..made
    BY DEF Columns, Others
  <2> QED BY <2>1, <2>2
<1>2. Newest(Others(i)) \in Others(i)
  BY <1>1, NewestIsLast
<1>3. kept \subseteq Id
  BY Parameters DEF Columns, Id
<1> QED BY <1>2, <1>3 DEF Others, Fallback

LEMMA RunTypes ==
  ASSUME TypeOK, NEW i \in Id, Succeed(i) \/ Skip(i) \/ Limp(i) \/ Revert(i)
  PROVE  TypeOK'
<1>1. Columns /\ 0 \in 0..Threshold
  BY Parts, Parameters
<1>2. /\ streak \in [Id -> 0..Threshold] /\ crashes \in [Id -> 0..Threshold]
      /\ active \subseteq kept /\ switched \subseteq active
  BY <1>1 DEF Columns
<1>3. CASE Succeed(i)
  BY <1>1, <1>2, <1>3, RanTypes DEF Succeed
<1>4. CASE Skip(i)
  BY <1>2, <1>4, RanTypes DEF Skip, past
<1>5. CASE Limp(i)
  <2>1. streak' \in [Id -> 0..Threshold] /\ crashes' \in [Id -> 0..Threshold]
    BY <1>1, <1>2, <1>5, CountedRange DEF Limp
  <2> QED BY <1>2, <1>5, <2>1, RanTypes DEF Limp, Crashes
<1>6. CASE Revert(i)
  <2>1. active' \subseteq kept
    BY <1>1, <1>2, <1>6, FallbackKept DEF Revert, Reverted
  <2>2. streak' \in [Id -> 0..Threshold] /\ crashes' \in [Id -> 0..Threshold]
    BY <1>1, <1>2, <1>6 DEF Revert, FreshStreaks
  <2>3. switched' \subseteq active'
    BY <1>2, <1>6 DEF Revert, Reverted
  <2> QED BY <1>6, <2>1, <2>2, <2>3, RanTypes DEF Revert, Crashes
<1> QED BY <1>3, <1>4, <1>5, <1>6

LEMMA StepTypes == TypeOK /\ [Next]_vars => TypeOK'
<1> SUFFICES ASSUME TypeOK, [Next]_vars PROVE TypeOK'
  OBVIOUS
<1>1. ASSUME NEW e \in Editor, EditReads(e) \/ EditFails(e) PROVE TypeOK'
  BY <1>1, EditTypes
<1>2. ASSUME NEW e \in Editor, NEW q \in Sources, EditWrites(e, q) PROVE TypeOK'
  BY <1>2, SourcesKnown, EditTypes
<1>3. ASSUME NEW l \in Law, NEW q \in Sources, Enact(l, q) PROVE TypeOK'
  BY <1>3, SourcesKnown, EnactTypes
<1>4. ASSUME NEW i \in kept, Switch(i) \/ Delete(i) PROVE TypeOK'
  BY <1>4, AdminTypes
<1>5. CASE TickReads
  BY <1>5, TickReadsTypes
<1>6. CASE RunNext
  BY <1>6, RunTypes DEF RunNext
<1>7. CASE UNCHANGED vars
  BY <1>7 DEF TypeOK, vars, rows, tick, edits, past
<1> QED BY <1>1, <1>2, <1>3, <1>4, <1>5, <1>6, <1>7 DEF Next, Step

(* What is listed or seen exists, names are unique and no streak passes    *)
(* the threshold, whoever writes and however requests and ticks overlap.   *)
THEOREM BehaviourTypes == Spec => []TypeOK
<1>1. Init => TypeOK
  BY InitTypes
<1>2. TypeOK /\ [Next]_vars => TypeOK'
  BY StepTypes
<1> QED BY <1>1, <1>2, PTL DEF Spec

-----------------------------------------------------------------------------
(* One behaviour.  Once an edit has replaced just what was active, either  *)
(* no script is listed but what is active, or one script is active that is *)
(* not listed and newer than every other, so that whatever listed script   *)
(* gives up falls back to it.                                              *)

Listed == due \subseteq active
Latest == \E a \in kept : active = {a} /\ a \notin due /\ \A m \in kept : m <= a
OnlyOne == made > 0 => \E i \in kept : active = {i}
OneInv == alone => OnlyOne /\ (Listed \/ Latest)

LEMMA InitOne == Init => OneInv
<1> SUFFICES ASSUME Init PROVE OneInv
  OBVIOUS
<1>1. (made = 0 \/ made = 1) /\ kept = 1..made /\ active = 1..made /\ due = {}
  BY DEF Init
<1>2. made > 0 => \E i \in kept : active = {i}
  BY <1>1
<1> QED BY <1>1, <1>2 DEF OneInv, OnlyOne, Listed

(* An edit that saw what is active leaves its new row alone active, and    *)
(* nothing listed before it is that row.                                   *)
LEMMA WriteLeavesOne ==
  ASSUME TypeOK, NEW e \in Editor, NEW q \in Quality, EditWrites(e, q), alone'
  PROVE  OnlyOne' /\ Latest'
<1>1. Retired(e) = active /\ UNCHANGED tick
  BY DEF EditWrites, Retired
<1>2. active' = {made + 1} /\ kept' = kept \cup {made + 1}
  BY <1>1 DEF EditWrites, Insert
<1>3. made \in Nat /\ kept \subseteq 1..made /\ due \subseteq kept
  BY Parameters DEF TypeOK
<1>4. made + 1 \notin due /\ \A m \in kept' : m <= made + 1
  BY <1>2, <1>3
<1> QED BY <1>1, <1>2, <1>4 DEF OnlyOne, Latest, tick

(* A revert puts one script in the place of the one there was, or leaves   *)
(* the one an edit put there meanwhile.                                    *)
LEMMA RevertKeepsOne ==
  ASSUME TypeOK, OnlyOne, Listed \/ Latest, NEW i \in Id, Revert(i)
  PROVE  OnlyOne' /\ (Listed \/ Latest)'
<1>1. /\ i \in due /\ due' = due \ {i} /\ Others(i) # {}
      /\ made' = made /\ kept' = kept /\ active' = Reverted(i)
  BY DEF Revert, Crashes, NextUp, Ran, rows
<1>2. /\ Fallback(i) \in kept /\ Fallback(i) # i
      /\ \A m \in Others(i) : m <= Fallback(i)
  <2>1. made \in Nat /\ Others(i) \in SUBSET (1..made)
    <3>1. made \in Nat /\ kept \subseteq 1..made
      BY Parameters DEF TypeOK
    <3> QED BY <3>1 DEF Others
  <2>2. Newest(Others(i)) \in Others(i) /\ \A m \in Others(i) : m <= Newest(Others(i))
    BY <1>1, <2>1, NewestIsLast
  <2> QED BY <2>2 DEF Fallback, Others
<1>3. CASE Listed
  <2>1. i \in active /\ i \in kept /\ made > 0
    BY <1>1, <1>3, Parameters DEF Listed, TypeOK
  <2>2. active = {i} /\ due' = {}
    BY <1>1, <1>3, <2>1 DEF OnlyOne, Listed
  <2>3. active' = {Fallback(i)}
    BY <1>1, <2>2 DEF Reverted
  <2> QED BY <1>1, <1>2, <2>2, <2>3 DEF OnlyOne, Listed
<1>4. CASE Latest
  <2>1. PICK a \in kept : active = {a} /\ a \notin due /\ \A m \in kept : m <= a
    BY <1>4 DEF Latest
  <2>2. a # i /\ a \in Others(i)
    BY <1>1, <2>1 DEF Others
  <2>3. Fallback(i) = a
    <3>1. a \in Int /\ Fallback(i) \in Int
      <4>1. kept \subseteq Int
        BY Parameters DEF TypeOK
      <4> QED BY <1>2, <2>1, <4>1
    <3>2. a <= Fallback(i) /\ Fallback(i) <= a
      BY <1>2, <2>1, <2>2
    <3> QED BY <3>1, <3>2
  <2>4. active' = {a}
    BY <1>1, <2>1, <2>2, <2>3 DEF Reverted
  <2>5. a \notin due'
    BY <1>1, <2>1
  <2> QED BY <1>1, <2>1, <2>4, <2>5 DEF OnlyOne, Latest
<1> QED BY <1>3, <1>4

(* Rows as they were, and nothing more listed.                             *)
LEMMA StillOne ==
  ASSUME OnlyOne, Listed \/ Latest, UNCHANGED <<made, kept, active>>,
         due' \subseteq due \/ due' \subseteq active
  PROVE  OnlyOne' /\ (Listed \/ Latest)'
BY DEF OnlyOne, Listed, Latest

LEMMA StepOne == TypeOK /\ OneInv /\ [Next]_vars => OneInv'
<1> SUFFICES ASSUME TypeOK, OneInv, [Next]_vars, alone' PROVE OnlyOne' /\ (Listed \/ Latest)'
  BY DEF OneInv
<1>1. ASSUME NEW e \in Editor, EditReads(e) \/ EditFails(e) PROVE OnlyOne' /\ (Listed \/ Latest)'
  BY <1>1, StillOne DEF OneInv, EditReads, EditFails, rows, tick, past
<1>2. ASSUME NEW e \in Editor, NEW q \in Sources, EditWrites(e, q) PROVE OnlyOne' /\ (Listed \/ Latest)'
  BY <1>2, SourcesKnown, WriteLeavesOne
<1>3. ASSUME NEW l \in Law, NEW q \in Sources, Enact(l, q) PROVE FALSE
  BY <1>3 DEF Enact
<1>4. ASSUME NEW i \in kept, Switch(i) PROVE FALSE
  BY <1>4 DEF Switch
<1>5. ASSUME NEW i \in kept, Delete(i) PROVE OnlyOne' /\ (Listed \/ Latest)'
  <2>1. alone /\ i \notin active /\ active' = active /\ made' = made /\ kept' = kept \ {i}
    BY <1>5 DEF Delete
  <2>2. due' = {}
    BY <1>5 DEF Delete, Quiet, tick, TypeOK
  <2> QED BY <2>1, <2>2 DEF OneInv, OnlyOne, Listed
<1>6. CASE TickReads
  BY <1>6, StillOne DEF OneInv, TickReads, rows, past
<1>7. ASSUME NEW i \in Id, Succeed(i) \/ Skip(i) \/ Limp(i) PROVE OnlyOne' /\ (Listed \/ Latest)'
  <2>1. UNCHANGED <<made, kept, active, alone>> /\ due' \subseteq due
    BY <1>7 DEF Succeed, Skip, Limp, Crashes, Ran, rows, past
  <2> QED BY <2>1, StillOne DEF OneInv
<1>8. ASSUME NEW i \in Id, Revert(i) PROVE OnlyOne' /\ (Listed \/ Latest)'
  BY <1>8, RevertKeepsOne DEF OneInv, Revert
<1>9. CASE UNCHANGED vars
  BY <1>9, StillOne DEF OneInv, vars, rows, tick, past
<1> QED BY <1>1, <1>2, <1>3, <1>4, <1>5, <1>6, <1>7, <1>8, <1>9 DEF Next, Step, RunNext

(* An edit that replaced just what was active leaves exactly one behaviour,*)
(* through any ticks, crashes, reverts, failed edits and deletions of      *)
(* retired rows, until somebody else switches one: whatever laws, the      *)
(* operator and other sessions did before it.                              *)
THEOREM OneBehaviour == Spec => []OneUnlessOverlapped
<1>1. Init => OneInv
  BY InitOne
<1>2. TypeOK /\ OneInv /\ [Next]_vars => OneInv'
  BY StepOne
<1>3. OneInv => OneUnlessOverlapped
  BY DEF OneInv, OnlyOne, OneUnlessOverlapped, ExactlyOne
<1>4. Spec => []TypeOK
  BY BehaviourTypes
<1> QED BY <1>1, <1>2, <1>3, <1>4, PTL DEF Spec

-----------------------------------------------------------------------------
(* Streaks: they part from their history only where the operator switches. *)

LEMMA InsertStreaks ==
  ASSUME Columns, StreakIsFresh, NEW l, NEW n, NEW retired, NEW q, Insert(l, n, retired, q)
  PROVE  StreakIsFresh'
<1>1. made + 1 \in Id /\ active \subseteq Id
  BY Parameters DEF Insert, Columns, Id
<1>2. /\ streak' = [streak EXCEPT ![made + 1] = 0]
      /\ crashes' = [crashes EXCEPT ![made + 1] = 0]
      /\ switched' = switched \ retired
      /\ active' = (active \ retired) \cup {made + 1}
  BY DEF Insert
<1>3. streak'[made + 1] = crashes'[made + 1]
  BY <1>1, <1>2 DEF Columns
<1>4. ASSUME NEW i \in active', i # made + 1
      PROVE  i \in active /\ i \notin retired /\ streak'[i] = streak[i] /\ crashes'[i] = crashes[i]
  BY <1>1, <1>2, <1>4 DEF Columns
<1> QED BY <1>2, <1>3, <1>4 DEF StreakIsFresh

LEMMA RunStreaks ==
  ASSUME Columns, StreakIsFresh, NEW i \in Id, Succeed(i) \/ Skip(i) \/ Limp(i) \/ Revert(i)
  PROVE  StreakIsFresh'
<1>1. active \subseteq Id /\ streak \in [Id -> 0..Threshold] /\ crashes \in [Id -> 0..Threshold]
  BY Parameters DEF Columns, Id
<1>2. ASSUME Succeed(i) PROVE StreakIsFresh'
  <2>1. \A j \in active : /\ streak'[j] = IF j = i THEN 0 ELSE streak[j]
                          /\ crashes'[j] = IF j = i THEN 0 ELSE crashes[j]
    BY <1>1, <1>2 DEF Succeed
  <2> QED BY <1>2, <2>1 DEF Succeed, StreakIsFresh
<1>3. ASSUME Skip(i) PROVE StreakIsFresh'
  BY <1>3 DEF Skip, StreakIsFresh, past
<1>4. ASSUME Limp(i) PROVE StreakIsFresh'
  <2>1. \A j \in active : streak'[j] = IF j = i THEN Counted(i) ELSE streak[j]
    BY <1>1, <1>4 DEF Limp
  <2>2. \A j \in active : crashes'[j] = IF j = i THEN Smaller(crashes[i] + 1, Threshold) ELSE crashes[j]
    BY <1>1, <1>4 DEF Limp
  <2>3. active' = active /\ switched' = switched
    BY <1>4 DEF Limp
  <2> QED BY <2>1, <2>2, <2>3 DEF StreakIsFresh, Counted
<1>5. ASSUME Revert(i) PROVE StreakIsFresh'
  <2>1. \A j \in Id : /\ streak'[j] = IF j \in {i, Fallback(i)} THEN 0 ELSE streak[j]
                      /\ crashes'[j] = IF j \in {i, Fallback(i)} THEN 0 ELSE crashes[j]
    <3>0. Fallback(i) \in Id
      BY <1>5, FallbackKept DEF Revert
    <3>1. /\ streak' = [streak EXCEPT ![i] = 0, ![Fallback(i)] = 0]
          /\ crashes' = [crashes EXCEPT ![i] = 0, ![Fallback(i)] = 0]
      BY <1>5 DEF Revert, FreshStreaks
    <3> HIDE DEF Fallback
    <3> QED BY <1>1, <3>0, <3>1
  <2>2. \A j \in active' : j \in Id /\ (j \notin {i, Fallback(i)} => j \in active)
    BY <1>1, <1>5, FallbackKept DEF Revert, Reverted
  <2>3. switched' = switched \ {i, Fallback(i)}
    BY <1>5 DEF Revert
  <2> HIDE DEF Fallback
  <2> QED BY <2>1, <2>2, <2>3 DEF StreakIsFresh
<1> QED BY <1>2, <1>3, <1>4, <1>5

LEMMA StepStreaks == TypeOK /\ StreakIsFresh /\ [Next]_vars => StreakIsFresh'
<1> SUFFICES ASSUME TypeOK, StreakIsFresh, [Next]_vars PROVE StreakIsFresh'
  OBVIOUS
<1>0. Columns
  BY Parts
<1>1. ASSUME NEW e \in Editor, EditReads(e) \/ EditFails(e) PROVE StreakIsFresh'
  BY <1>1 DEF EditReads, EditFails, StreakIsFresh, past
<1>2. ASSUME NEW e \in Editor, NEW q \in Sources, EditWrites(e, q) PROVE StreakIsFresh'
  BY <1>0, <1>2, InsertStreaks DEF EditWrites
<1>3. ASSUME NEW l \in Law, NEW q \in Sources, Enact(l, q) PROVE StreakIsFresh'
  BY <1>0, <1>3, InsertStreaks DEF Enact
<1>4. ASSUME NEW i \in kept, Switch(i) PROVE StreakIsFresh'
  <2>1. \A j \in active : j # i => crashes'[j] = crashes[j]
    BY <1>0, <1>4, Parameters DEF Switch, Columns, Id
  <2> QED BY <1>4, <2>1 DEF Switch, StreakIsFresh
<1>5. ASSUME NEW i \in kept, Delete(i) PROVE StreakIsFresh'
  BY <1>5 DEF Delete, StreakIsFresh
<1>6. CASE TickReads \/ UNCHANGED vars
  BY <1>6 DEF TickReads, StreakIsFresh, vars, past
<1>7. CASE RunNext
  BY <1>0, <1>7, RunStreaks DEF RunNext
<1> QED BY <1>1, <1>2, <1>3, <1>4, <1>5, <1>6, <1>7 DEF Next, Step

-----------------------------------------------------------------------------
(* Names.  Every number under one that was ever given in a lineage was     *)
(* given too, and an editor has counted no more rows than there are: while *)
(* one edits nothing is deleted.                                           *)

Rows(l) == {i \in kept : lineage[i] = l}
Gave(l, n) == \E i \in 1..made : lineage[i] = l /\ number[i] = n
Dense ==
  \A l \in Lineage : \A i \in 1..made :
    lineage[i] = l => number[i] > 0 /\ \A n \in 1..number[i] : Gave(l, n)
CountsLow == \A e \in hand : counted[e] <= Count(Own)
NamesInv == Dense /\ CountsLow

LEMMA RowsFinite ==
  ASSUME Columns, NEW l
  PROVE  /\ IsFiniteSet(Rows(l)) /\ Count(l) = Cardinality(Rows(l)) /\ Count(l) \in Nat
         /\ Rows(l) \subseteq kept /\ Rows(l) \subseteq 1..made /\ 1..made \subseteq Id /\ made \in Nat
<1>1. made \in Nat /\ kept \subseteq 1..made /\ 1..made \subseteq Id
  BY Parameters DEF Columns, Id
<1>2. Rows(l) \subseteq kept /\ Rows(l) \subseteq 1..made /\ Count(l) = Cardinality(Rows(l))
  BY <1>1 DEF Rows, Count
<1>3. IsFiniteSet(Rows(l)) /\ Cardinality(Rows(l)) \in Nat
  BY <1>1, <1>2, RowsBelow
<1> QED BY <1>1, <1>2, <1>3

(* More rows than numbers cannot all be named apart.                       *)
LEMMA NumbersSpread ==
  ASSUME Columns, Names, Dense, NEW l \in Lineage, NEW S \in SUBSET Rows(l), NEW n \in Nat,
         \A i \in S : number[i] <= n
  PROVE  Cardinality(S) <= n
<1>1. IsFiniteSet(S)
  BY RowsFinite, FS_Subset
<1>2. \A i \in S : number[i] \in 1..n
  <2> TAKE i \in S
  <2>1. i \in 1..made /\ i \in Id /\ lineage[i] = l
    BY RowsFinite DEF Rows
  <2>2. number[i] > 0 /\ number[i] \in Nat
    BY <2>1 DEF Dense, Columns
  <2> QED BY <2>2
<1>3. \A i, j \in S : number[i] = number[j] => i = j
  BY DEF Names, Rows
<1> DEFINE f == [i \in S |-> number[i]]
<1>4. f \in Injection(S, 1..n)
  BY <1>2, <1>3 DEF Injection, IsInjective
<1>5. IsFiniteSet(1..n) /\ Cardinality(1..n) = n
  <2>1. Cardinality(1..n) = IF 1 > n THEN 0 ELSE n - 1 + 1
    BY FS_Interval
  <2> QED BY <2>1, FS_Interval
<1>6. Cardinality(S) <= Cardinality(1..n)
  BY <1>4, <1>5, FS_Injection
<1> QED BY <1>5, <1>6

(* There are at least as many numbers given as there are rows.             *)
LEMMA CountedGiven ==
  ASSUME Columns, Names, Dense, NEW l \in Lineage, NEW n \in 1..Count(l)
  PROVE  Gave(l, n)
<1>1. Count(l) = Cardinality(Rows(l)) /\ Count(l) \in Nat
  BY RowsFinite
<1>2. PICK i \in Rows(l) : ~(number[i] <= Count(l) - 1)
  <2> SUFFICES ASSUME \A i \in Rows(l) : number[i] <= Count(l) - 1 PROVE FALSE
    OBVIOUS
  <2>1. Count(l) - 1 \in Nat
    BY <1>1
  <2>2. Cardinality(Rows(l)) <= Count(l) - 1
    BY <2>1, NumbersSpread
  <2> QED BY <1>1, <2>2
<1>3. i \in 1..made /\ i \in Id /\ lineage[i] = l
  BY RowsFinite DEF Rows
<1>4. number[i] \in Nat
  BY <1>3 DEF Columns
<1>5. n \in 1..number[i]
  BY <1>1, <1>2, <1>4
<1> QED BY <1>3, <1>5 DEF Dense

(* A row under a number no higher than the next of its lineage.            *)
LEMMA InsertDense ==
  ASSUME Columns, Names, Dense, NEW l \in Lineage, NEW n \in Nat, NEW retired, NEW q,
         Insert(l, n, retired, q), n > 0, n <= Count(l) + 1
  PROVE  Dense' /\ \A m \in Lineage : Count(m) <= Count(m)'
<1> DEFINE new == made + 1
<1>1. /\ new \in Id /\ new \notin 1..made /\ 1..made \subseteq Id /\ kept \subseteq 1..made
      /\ made' = new /\ 1..made' = (1..made) \cup {new} /\ kept' = kept \cup {new}
  BY Parameters DEF Insert, Columns, Id
<1>2. /\ lineage'[new] = l /\ number'[new] = n
      /\ \A i \in 1..made : lineage'[i] = lineage[i] /\ number'[i] = number[i]
  BY <1>1 DEF Insert, Columns
<1> HIDE DEF new
<1>3. ASSUME NEW k, NEW m, Gave(k, m) PROVE Gave(k, m)'
  BY <1>1, <1>2, <1>3 DEF Gave
<1>4. \A m \in 1..n : Gave(l, m)'
  <2> TAKE m \in 1..n
  <2>1. CASE m = n
    BY <1>1, <1>2, <2>1 DEF Gave
  <2>2. CASE m # n
    <3>1. m \in 1..Count(l)
      BY <2>2, RowsFinite
    <3> QED BY <1>3, <3>1, CountedGiven
  <2> QED BY <2>1, <2>2
<1>5. Dense'
  <2> SUFFICES ASSUME NEW k \in Lineage, NEW i \in 1..made', lineage'[i] = k
               PROVE  number'[i] > 0 /\ \A m \in 1..number'[i] : Gave(k, m)'
    BY DEF Dense
  <2>1. CASE i = new
    BY <1>2, <1>4, <2>1
  <2>2. CASE i \in 1..made
    BY <1>2, <1>3, <2>2 DEF Dense
  <2> QED BY <1>1, <2>1, <2>2
<1>6. ASSUME NEW m \in Lineage PROVE Count(m) <= Count(m)'
  <2> DEFINE S == {i \in kept' : lineage'[i] = m}
  <2>1. Rows(m) \subseteq S
    BY <1>1, <1>2 DEF Rows
  <2>2. IsFiniteSet(S)
    <3>1. kept' \subseteq 1..made' /\ made' \in Nat
      BY <1>1, Parameters DEF Id
    <3>2. S \subseteq 1..made'
      BY <3>1
    <3> HIDE DEF S
    <3> QED BY <3>1, <3>2, RowsBelow
  <2>3. Cardinality(Rows(m)) <= Cardinality(S)
    <3> HIDE DEF S
    <3> QED BY <2>1, <2>2, FS_Subset
  <2> QED BY <2>3, RowsFinite DEF Count
<1> QED BY <1>5, <1>6

LEMMA WriteNames ==
  ASSUME TypeOK, NamesInv, NEW e \in Editor, NEW q \in Quality, EditWrites(e, q)
  PROVE  NamesInv'
<1>1. Columns /\ Names /\ Sessions /\ Own \in Lineage /\ Count(Own) \in Nat
  BY Parts, RowsFinite DEF Lineage
<1>2. /\ Insert(Own, EditNumber(e), Retired(e), q) /\ e \in hand
      /\ hand' = hand \ {e} /\ counted' = [counted EXCEPT ![e] = 0] /\ hand \subseteq Editor
  BY <1>1 DEF EditWrites, Done, Sessions
<1>3. EditNumber(e) \in Nat /\ EditNumber(e) > 0 /\ EditNumber(e) <= Count(Own) + 1
  BY <1>1, <1>2 DEF EditNumber, FreshNumber, NamesInv, CountsLow, Sessions
<1>4. Dense' /\ Count(Own) <= Count(Own)'
  BY <1>1, <1>2, <1>3, InsertDense DEF NamesInv
<1>5. Columns' /\ Count(Own)' \in Nat
  <2>1. TypeOK'
    BY EditTypes
  <2>2. Columns'
    BY <2>1, PartsNext
  <2>3. kept' \subseteq 1..made' /\ made' \in Nat
    BY <2>2, Parameters DEF Columns
  <2>4. Cardinality({i \in kept' : lineage'[i] = Own}) \in Nat
    <3>1. {i \in kept' : lineage'[i] = Own} \subseteq 1..made'
      BY <2>3
    <3> QED BY <2>3, <3>1, RowsBelow
  <2> QED BY <2>2, <2>4 DEF Count
<1>6. \A f \in hand' : counted'[f] = counted[f] /\ counted[f] \in Nat /\ counted[f] <= Count(Own)
  BY <1>1, <1>2 DEF NamesInv, CountsLow, Sessions
<1>7. CountsLow'
  BY <1>1, <1>4, <1>5, <1>6 DEF CountsLow
<1> QED BY <1>4, <1>7 DEF NamesInv

LEMMA StepNames == TypeOK /\ NamesInv /\ [Next]_vars => NamesInv'
<1> SUFFICES ASSUME TypeOK, NamesInv, [Next]_vars PROVE NamesInv'
  OBVIOUS
<1>0. Columns /\ Names /\ Sessions /\ Count(Own) \in Nat
  BY Parts, RowsFinite
<1>1. ASSUME NEW e \in Editor, EditReads(e) PROVE NamesInv'
  <2>1. /\ hand' = hand \cup {e} /\ counted' = [counted EXCEPT ![e] = Count(Own)]
        /\ UNCHANGED <<made, kept, lineage, number>> /\ hand \subseteq Editor
    BY <1>0, <1>1 DEF EditReads, Sessions, rows
  <2>2. \A f \in hand' : counted'[f] <= Count(Own)
    BY <1>0, <2>1 DEF Sessions, NamesInv, CountsLow
  <2> QED BY <2>1, <2>2 DEF NamesInv, Dense, Gave, CountsLow, Count
<1>2. ASSUME NEW e \in Editor, EditFails(e) PROVE NamesInv'
  <2>1. /\ hand' = hand \ {e} /\ counted' = [counted EXCEPT ![e] = 0]
        /\ UNCHANGED <<made, kept, lineage, number>> /\ hand \subseteq Editor
    BY <1>0, <1>2 DEF EditFails, Done, Sessions, rows
  <2>2. \A f \in hand' : counted'[f] <= Count(Own)
    BY <1>0, <2>1 DEF Sessions, NamesInv, CountsLow
  <2> QED BY <2>1, <2>2 DEF NamesInv, Dense, Gave, CountsLow, Count
<1>3. ASSUME NEW e \in Editor, NEW q \in Sources, EditWrites(e, q) PROVE NamesInv'
  BY <1>3, SourcesKnown, WriteNames
<1>4. ASSUME NEW l \in Law, NEW q \in Sources, Enact(l, q) PROVE NamesInv'
  <2>1. l \in Lineage /\ Own \in Lineage /\ Count(l) \in Nat /\ FreshNumber(l) = Count(l) + 1
    BY <1>0, RowsFinite DEF Lineage, FreshNumber
  <2>2. \E retired : Insert(l, FreshNumber(l), retired, q)
    BY <1>4 DEF Enact
  <2>3. Dense' /\ Count(Own) <= Count(Own)'
    BY <1>0, <2>1, <2>2, InsertDense DEF NamesInv
  <2>4. hand' = hand /\ counted' = counted /\ hand \subseteq Editor
    BY <1>0, <1>4 DEF Enact, edits, Sessions
  <2>5. Columns'
    BY <1>4, SourcesKnown, EnactTypes, PartsNext
  <2>6. Count(Own)' \in Nat
    <3>1. kept' \subseteq 1..made' /\ made' \in Nat
      BY <2>5, Parameters DEF Columns
    <3>2. {i \in kept' : lineage'[i] = Own} \subseteq 1..made'
      BY <3>1
    <3>3. Cardinality({i \in kept' : lineage'[i] = Own}) \in Nat
      BY <3>1, <3>2, RowsBelow
    <3> QED BY <3>3 DEF Count
  <2>7. \A f \in hand' : counted'[f] \in Nat /\ counted'[f] <= Count(Own)
    BY <1>0, <2>4 DEF NamesInv, CountsLow, Sessions
  <2> QED BY <1>0, <2>3, <2>6, <2>7 DEF NamesInv, CountsLow
<1>5. ASSUME NEW i \in kept, Switch(i) PROVE NamesInv'
  BY <1>5 DEF Switch, Quiet, NamesInv, Dense, Gave, CountsLow, rows, edits
<1>6. ASSUME NEW i \in kept, Delete(i) PROVE NamesInv'
  BY <1>6 DEF Delete, Quiet, NamesInv, Dense, Gave, CountsLow, edits
<1>7. CASE TickReads \/ UNCHANGED vars
  BY <1>7 DEF TickReads, NamesInv, Dense, Gave, CountsLow, Count, vars, rows, edits
<1>8. ASSUME NEW i \in Id, Succeed(i) \/ Skip(i) \/ Limp(i) \/ Revert(i) PROVE NamesInv'
  BY <1>8 DEF Succeed, Skip, Limp, Revert, NamesInv, Dense, Gave, CountsLow, Count, rows, edits
<1> QED BY <1>1, <1>2, <1>3, <1>4, <1>5, <1>6, <1>7, <1>8 DEF Next, Step, RunNext

(* If the next number is taken, the rows left cannot have all the numbers  *)
(* under it: one of those was given to a row that is gone.                 *)
LEMMA TakenAfterDeletion == TypeOK /\ Dense => NextNameFree
<1> SUFFICES ASSUME TypeOK, Dense, NEW l \in Lineage, Taken(l, FreshNumber(l))
             PROVE  \E i \in (1..made) \ kept, j \in kept :
                      lineage[i] = l /\ lineage[j] = l /\ number[i] < number[j]
  BY DEF NextNameFree
<1>0. Columns /\ Names
  BY Parts
<1>1. Count(l) = Cardinality(Rows(l)) /\ Count(l) \in Nat /\ IsFiniteSet(Rows(l))
  BY <1>0, RowsFinite
<1>2. PICK j \in kept : lineage[j] = l /\ number[j] = Count(l) + 1
  BY DEF Taken, FreshNumber
<1>3. j \in Rows(l) /\ j \in 1..made
  BY <1>0, <1>2, RowsFinite DEF Rows
<1> SUFFICES ASSUME \A i \in 1..made : lineage[i] = l /\ number[i] <= Count(l) => i \in kept
             PROVE  FALSE
  <2>1. PICK i \in 1..made : lineage[i] = l /\ number[i] <= Count(l) /\ i \notin kept
    OBVIOUS
  <2>2. number[i] \in Nat
    BY <1>0, <2>1, RowsFinite DEF Columns
  <2> QED BY <1>1, <1>2, <2>1, <2>2
<1> DEFINE S == Rows(l) \ {j}
           own(n) == CHOOSE i \in S : number[i] = n
           f == [n \in 1..Count(l) |-> own(n)]
<1>4. \A n \in 1..Count(l) : \E i \in S : number[i] = n
  <2> TAKE n \in 1..Count(l)
  <2>1. n \in 1..number[j] /\ n # number[j] /\ n <= Count(l)
    BY <1>1, <1>2
  <2>2. PICK i \in 1..made : lineage[i] = l /\ number[i] = n
    BY <1>2, <1>3, <2>1 DEF Dense, Gave
  <2>3. i \in kept /\ i # j
    BY <2>1, <2>2
  <2> QED BY <2>2, <2>3 DEF Rows
<1>5. \A n \in 1..Count(l) : own(n) \in S /\ number[own(n)] = n
  BY <1>4
<1>6. IsFiniteSet(S) /\ Cardinality(S) = Count(l) - 1
  BY <1>1, <1>3, FS_RemoveElement
<1>7. f \in Injection(1..Count(l), S)
  <2> HIDE DEF own, S
  <2> QED BY <1>5 DEF Injection, IsInjective
<1>8. Cardinality(1..Count(l)) <= Cardinality(S)
  <2> HIDE DEF f, S
  <2> QED BY <1>6, <1>7, FS_Injection
<1>9. Cardinality(1..Count(l)) = Count(l)
  <2>1. Cardinality(1..Count(l)) = IF 1 > Count(l) THEN 0 ELSE Count(l) - 1 + 1
    BY <1>1, FS_Interval
  <2> QED BY <1>1, <2>1
<1> QED BY <1>1, <1>6, <1>8, <1>9

LEMMA SpawnedApart == "spawned" \notin Lineage
BY BehaviourAssumption

LEMMA InitFresh == Init => StreakIsFresh /\ NamesInv
<1> SUFFICES ASSUME Init PROVE StreakIsFresh /\ NamesInv
  OBVIOUS
<1>1. TypeOK /\ Columns
  BY InitTypes, Parts
<1>2. active \subseteq Id /\ 1..made \subseteq Id
  BY <1>1, Parameters DEF Columns, Id
<1>3. StreakIsFresh
  BY <1>2 DEF Init, StreakIsFresh
<1>4. Dense
  BY <1>2, SpawnedApart DEF Init, Dense
<1> QED BY <1>3, <1>4 DEF Init, NamesInv, CountsLow

(* However edits, laws, ticks and the operator overlap, for any number of  *)
(* edits and reverts: only a row the operator switched on has a streak of  *)
(* an earlier activation, and only a deletion takes the next version its   *)
(* name.                                                                   *)
THEOREM NextIsFreshHolds == Spec => []NextIsFresh
<1>1. Init => StreakIsFresh /\ NamesInv
  BY InitFresh
<1>2. TypeOK /\ StreakIsFresh /\ NamesInv /\ [Next]_vars => StreakIsFresh' /\ NamesInv'
  BY StepStreaks, StepNames
<1>3. TypeOK /\ StreakIsFresh /\ NamesInv => NextIsFresh
  BY TakenAfterDeletion DEF NextIsFresh, NamesInv
<1>4. Spec => []TypeOK
  BY BehaviourTypes
<1> QED BY <1>1, <1>2, <1>3, <1>4, PTL DEF Spec

-----------------------------------------------------------------------------
(* Silence.  A row that is switched off by anything but the operator's     *)
(* endpoints is switched off with another one switched on.                 *)
LEMMA StepSpeaks == [Next]_vars => [OperatorSilences]_vars
<1> SUFFICES ASSUME Next, active # {}, active' = {} PROVE \E i \in kept : Switch(i) \/ Delete(i)
  BY DEF OperatorSilences
<1>1. ASSUME NEW l, NEW n, NEW retired, NEW q, Insert(l, n, retired, q) PROVE FALSE
  BY <1>1 DEF Insert
<1>2. ASSUME NEW e \in Editor, EditReads(e) \/ EditFails(e) PROVE FALSE
  BY <1>2 DEF EditReads, EditFails
<1>3. ASSUME NEW e \in Editor, NEW q \in Sources, EditWrites(e, q) PROVE FALSE
  BY <1>1, <1>3 DEF EditWrites
<1>4. ASSUME NEW l \in Law, NEW q \in Sources, Enact(l, q) PROVE FALSE
  BY <1>1, <1>4 DEF Enact
<1>5. CASE TickReads
  BY <1>5 DEF TickReads
<1>6. ASSUME NEW i \in Id, Succeed(i) \/ Skip(i) \/ Limp(i) PROVE FALSE
  BY <1>6 DEF Succeed, Skip, Limp
<1>7. ASSUME NEW i \in Id, Revert(i) PROVE FALSE
  BY <1>7 DEF Revert, Reverted
<1> QED BY <1>2, <1>3, <1>4, <1>5, <1>6, <1>7 DEF Next, Step, RunNext

(* An entity that has a behaviour loses it to the operator's endpoints and *)
(* to nothing else: edits, enactments, crashes and reverts, overlapping in *)
(* any way, each leave some row active (set_entity_behaviour, set_script,  *)
(* _record_crash).                                                         *)
THEOREM NeverSilencedHolds == Spec => NeverSilenced
<1>1. [Next]_vars => [OperatorSilences]_vars
  BY StepSpeaks
<1> QED BY <1>1, PTL DEF Spec, NeverSilenced
-----------------------------------------------------------------------------
(* THE STONE-AGE WORLD                                                     *)
(*                                                                         *)
(* For any set Case of bodies and any ills; nothing of it touches the      *)
(* scripts above.  Its hundred recipes are laid out chapter by chapter,    *)
(* and what each step of the world needs to know of a recipe is that it is *)
(* sound: what it makes, needs, builds and risks is known to the           *)
(* catalogue, and a crafted good it makes is behind the rank that guards   *)
(* it.                                                                     *)
Facility == {"FIRE", "SHELTER", "PEN", "SALT_SHED"}
Field == {"in", "out", "tools", "ranks", "ground", "bench", "lit", "open", "hourly",
          "eases", "risks", "builds", "stokes", "ember", "unlocks"}

Recipe(r) ==
  /\ DOMAIN r = Field
  /\ r.out \subseteq Good
  /\ r.risks \subseteq Condition
  /\ r.builds \in Facility \cup {"NONE"}
  /\ r.unlocks \subseteq Rank
  /\ Accepted(r)

Guarded(r) == \A g \in r.out \cap DOMAIN Crafted : Crafted[g] \in r.ranks
Fit(r) == Recipe(r) /\ Guarded(r)
Sound(chapter) == \A x \in DOMAIN chapter : Fit(chapter[x])

LEMMA PlainIs ==
  ASSUME NEW in, NEW out \in SUBSET Good, in \cup out # {}
  PROVE  /\ Recipe(Plain(in, out))
         /\ Plain(in, out).out = out
         /\ out \cap DOMAIN Crafted = {} => Fit(Plain(in, out))
<1>1. Recipe(Plain(in, out))
  BY DEF Recipe, Plain, Facility, Field, Accepted
<1>2. Plain(in, out).out = out
  BY DEF Plain
<1> QED BY <1>1, <1>2 DEF Fit, Guarded

LEMMA AtKeeps ==
  ASSUME NEW r, NEW kind, Recipe(r)
  PROVE  /\ Recipe(At(r, kind)) /\ At(r, kind).out = r.out
         /\ Fit(r) => Fit(At(r, kind))
<1>1. At(r, kind).out = r.out /\ At(r, kind).ranks = r.ranks
  BY DEF Recipe, Field, At
<1>2. Recipe(At(r, kind))
  BY DEF Recipe, Field, At, Facility, Accepted
<1> QED BY <1>1, <1>2 DEF Fit, Guarded

LEMMA WithKeeps ==
  ASSUME NEW r, NEW tools, Recipe(r)
  PROVE  /\ Recipe(With(r, tools)) /\ With(r, tools).out = r.out
         /\ Fit(r) => Fit(With(r, tools))
<1>1. With(r, tools).out = r.out /\ With(r, tools).ranks = r.ranks
  BY DEF Recipe, Field, With
<1>2. Recipe(With(r, tools))
  BY DEF Recipe, Field, With, Facility, Accepted
<1> QED BY <1>1, <1>2 DEF Fit, Guarded

LEMMA BenchKeeps ==
  ASSUME NEW r, NEW facility \in Facility, Recipe(r)
  PROVE  /\ Recipe(Bench(r, facility)) /\ Bench(r, facility).out = r.out
         /\ Fit(r) => Fit(Bench(r, facility))
         /\ Bench(r, facility).bench = facility
<1>1. Bench(r, facility).out = r.out /\ Bench(r, facility).ranks = r.ranks
  BY DEF Recipe, Field, Bench
<1>2. Recipe(Bench(r, facility))
  BY DEF Recipe, Field, Bench, Facility, Accepted
<1>3. Bench(r, facility).bench = facility
  BY DEF Recipe, Field, Bench
<1> QED BY <1>1, <1>2, <1>3 DEF Fit, Guarded

LEMMA RaisesKeeps ==
  ASSUME NEW r, NEW facility \in Facility, Recipe(r)
  PROVE  /\ Recipe(Raises(r, facility)) /\ Raises(r, facility).out = r.out
         /\ Fit(r) => Fit(Raises(r, facility))
<1>1. Raises(r, facility).out = r.out /\ Raises(r, facility).ranks = r.ranks
  BY DEF Recipe, Field, Raises
<1>2. Recipe(Raises(r, facility))
  BY DEF Recipe, Field, Raises, Facility, Accepted
<1> QED BY <1>1, <1>2 DEF Fit, Guarded

LEMMA EasesKeeps ==
  ASSUME NEW r, NEW condition, Recipe(r)
  PROVE  /\ Recipe(Eases(r, condition)) /\ Eases(r, condition).out = r.out
         /\ Fit(r) => Fit(Eases(r, condition))
<1>1. Eases(r, condition).out = r.out /\ Eases(r, condition).ranks = r.ranks
  BY DEF Recipe, Field, Eases
<1>2. Recipe(Eases(r, condition))
  BY DEF Recipe, Field, Eases, Facility, Accepted
<1> QED BY <1>1, <1>2 DEF Fit, Guarded

LEMMA OpenSeasonsKeeps ==
  ASSUME NEW r, Recipe(r)
  PROVE  /\ Recipe(OpenSeasons(r)) /\ OpenSeasons(r).out = r.out
         /\ Fit(r) => Fit(OpenSeasons(r))
<1>1. OpenSeasons(r).out = r.out /\ OpenSeasons(r).ranks = r.ranks
  BY DEF Recipe, Field, OpenSeasons
<1>2. Recipe(OpenSeasons(r))
  BY DEF Recipe, Field, OpenSeasons, Facility, Accepted
<1> QED BY <1>1, <1>2 DEF Fit, Guarded

LEMMA FireKeeps ==
  ASSUME NEW r, Recipe(r)
  PROVE  /\ Recipe(Fire(r)) /\ Fire(r).out = r.out
         /\ Fit(r) => Fit(Fire(r))
<1>1. Fire(r).out = r.out /\ Fire(r).ranks = r.ranks
  BY DEF Recipe, Field, Fire
<1>2. Recipe(Fire(r))
  BY DEF Recipe, Field, Fire, Facility, Accepted
<1> QED BY <1>1, <1>2 DEF Fit, Guarded

LEMMA ByGuards ==
  ASSUME NEW r, NEW rank \in Rank \cup Trait, Recipe(r),
         \A g \in r.out \cap DOMAIN Crafted : Crafted[g] = rank
  PROVE  Recipe(By(r, rank)) /\ Fit(By(r, rank))
<1>1. By(r, rank).out = r.out /\ By(r, rank).ranks = {rank}
  BY DEF Recipe, Field, By
<1>2. Recipe(By(r, rank))
  BY DEF Recipe, Field, By, Accepted
<1> QED BY <1>1, <1>2 DEF Fit, Guarded

LEMMA StudyKeeps ==
  ASSUME NEW in, in # {}, NEW kind, NEW rank \in Rank
  PROVE  Fit(Study(in, kind, rank))
<1> DEFINE r == Plain(in, {})
<1>1. Recipe(r) /\ r.out = {}
  BY PlainIs
<1> HIDE DEF r
<1>2. Recipe(Study(in, kind, rank)) /\ Study(in, kind, rank).out = {}
  <2>1. Study(in, kind, rank) = [r EXCEPT !.ground = kind, !.hourly = TRUE, !.unlocks = {rank}]
    BY DEF Study, r
  <2> QED BY <1>1, <2>1 DEF Recipe, Field, Accepted
<1> QED BY <1>2 DEF Fit, Guarded

Stoking(r) == [r EXCEPT !.stokes = TRUE]
Chained(r) == [r EXCEPT !.ember = TRUE]
Hourly(r) == [r EXCEPT !.hourly = TRUE]
Relaxed(r) == [r EXCEPT !.hourly = FALSE]
Risking(r) == [r EXCEPT !.risks = {"DISEASE"}]

LEMMA StokingKeeps ==
  ASSUME NEW r, Fit(r), r.bench # "NONE"
  PROVE  Fit(Stoking(r))
<1> USE DEF Fit, Recipe, Field, Guarded, Accepted
<1>1. /\ DOMAIN Stoking(r) = Field /\ Stoking(r).out = r.out /\ Stoking(r).risks = r.risks
      /\ Stoking(r).builds = r.builds /\ Stoking(r).unlocks = r.unlocks /\ Stoking(r).in = r.in
      /\ Stoking(r).ranks = r.ranks /\ Stoking(r).bench = r.bench
  BY DEF Stoking
<1>2. Stoking(r).stokes
  BY DEF Stoking
<1> QED BY <1>1, <1>2

LEMMA GateKeeps ==
  ASSUME NEW r, Fit(r)
  PROVE  Fit(Chained(r)) /\ Fit(Hourly(r)) /\ Fit(Relaxed(r)) /\ Fit(Risking(r))
<1> USE DEF Fit, Recipe, Field, Guarded, Accepted
<1>1. Fit(Chained(r))
  BY DEF Chained
<1>2. Fit(Hourly(r))
  BY DEF Hourly
<1>3. Fit(Relaxed(r))
  BY DEF Relaxed
<1>4. Fit(Risking(r))
  BY DEF Risking, Condition
<1> QED BY <1>1, <1>2, <1>3, <1>4

LEMMA GatheringIsSound == Sound(Gathering)
<1> USE PlainIs, AtKeeps, WithKeeps, BenchKeeps, RaisesKeeps, EasesKeeps, OpenSeasonsKeeps, FireKeeps,
        ByGuards, StudyKeeps
    DEF Good, Fresh, Keeping, Capital, Worked, Kit, Trophies, Rank, Prerequisite,
        Trait, Crafted, Condition, Facility
<1>1. Fit(Gathering.GATHER)
  BY DEF Gathering
<1>2. Fit(Gathering.GATHER_BAG)
  BY DEF Gathering
<1>3. Fit(Gathering.CHOP_WOOD)
  BY DEF Gathering
<1>4. Fit(Gathering.DIG_FLINT)
  BY DEF Gathering
<1>5. Fit(Gathering.DIG_CLAY)
  BY DEF Gathering
<1> QED BY <1>1, <1>2, <1>3, <1>4, <1>5 DEF Gathering, Sound

LEMMA HuntingIsSound == Sound(Hunting)
<1> USE PlainIs, AtKeeps, WithKeeps, BenchKeeps, RaisesKeeps, EasesKeeps, OpenSeasonsKeeps, FireKeeps,
        ByGuards, StudyKeeps
    DEF Good, Fresh, Keeping, Capital, Worked, Kit, Trophies, Rank, Prerequisite,
        Trait, Crafted, Condition, Facility
<1>1. Fit(Hunting.HUNT)
  BY DEF Hunting
<1>2. Fit(Hunting.HUNT_SPEAR)
  BY DEF Hunting
<1>3. Fit(Hunting.HUNT_TRAPS)
  BY DEF Hunting
<1>4. Fit(Hunting.HUNT_BOW)
  BY DEF Hunting
<1>5. Fit(Hunting.FISH)
  BY DEF Hunting
<1> QED BY <1>1, <1>2, <1>3, <1>4, <1>5 DEF Hunting, Sound

LEMMA HearthsideIsSound == Sound(Hearthside)
<1> USE PlainIs, AtKeeps, WithKeeps, BenchKeeps, RaisesKeeps, EasesKeeps, OpenSeasonsKeeps, FireKeeps,
        ByGuards, StudyKeeps
    DEF Good, Fresh, Keeping, Capital, Worked, Kit, Trophies, Rank, Prerequisite,
        Trait, Crafted, Condition, Facility
<1>1. Fit(Hearthside.DRINK)
  BY DEF Hearthside
<1>2. Fit(Hearthside.FILL_SKIN)
  BY DEF Hearthside
<1>3. Fit(Hearthside.MAKE_FIRE)
  BY DEF Hearthside
<1>4. Fit(Hearthside.MAKE_FIRE_KINDLING)
  BY DEF Hearthside
<1>5. Fit(Hearthside.STOKE_FIRE)
  <2> DEFINE r == Bench(At(Plain({"WOOD"}, {}), "HEARTH"), "FIRE")
  <2>1. Fit(r) /\ r.bench # "NONE"
    OBVIOUS
  <2>2. Hearthside.STOKE_FIRE = Stoking(r)
    BY DEF Hearthside, Stoking
  <2> QED BY <2>1, <2>2, StokingKeeps
<1>6. Fit(Hearthside.WARM_BY_FIRE)
  BY DEF Hearthside
<1> QED BY <1>1, <1>2, <1>3, <1>4, <1>5, <1>6 DEF Hearthside, Sound

LEMMA KitchenIsSound == Sound(Kitchen)
<1> USE PlainIs, AtKeeps, WithKeeps, BenchKeeps, RaisesKeeps, EasesKeeps, OpenSeasonsKeeps, FireKeeps,
        ByGuards, StudyKeeps
    DEF Good, Fresh, Keeping, Capital, Worked, Kit, Trophies, Rank, Prerequisite,
        Trait, Crafted, Condition, Facility
<1>1. Fit(Kitchen.MAKE_TORCH)
  BY DEF Kitchen
<1>2. Fit(Kitchen.LIGHT_TORCH)
  BY DEF Kitchen
<1>3. Fit(Kitchen.CHAIN_TORCH)
  <2> DEFINE r == Plain({"TORCH"}, {"LIT_TORCH"})
  <2>1. Fit(r)
    OBVIOUS
  <2>2. Kitchen.CHAIN_TORCH = Chained(r)
    BY DEF Kitchen, Chained
  <2> QED BY <2>1, <2>2, GateKeeps
<1>4. Fit(Kitchen.COOK_MEAT)
  BY DEF Kitchen
<1>5. Fit(Kitchen.COOK_MEAT_KNIFE)
  BY DEF Kitchen
<1>6. Fit(Kitchen.TANN_HIDE)
  BY DEF Kitchen
<1>7. Fit(Kitchen.TANN_HIDE_KNIFE)
  BY DEF Kitchen
<1>8. Fit(Kitchen.SMOKE_MEAT)
  BY DEF Kitchen
<1> QED BY <1>1, <1>2, <1>3, <1>4, <1>5, <1>6, <1>7, <1>8 DEF Kitchen, Sound

LEMMA BackRoomIsSound == Sound(BackRoom)
<1> USE PlainIs, AtKeeps, WithKeeps, BenchKeeps, RaisesKeeps, EasesKeeps, OpenSeasonsKeeps, FireKeeps,
        ByGuards, StudyKeeps
    DEF Good, Fresh, Keeping, Capital, Worked, Kit, Trophies, Rank, Prerequisite,
        Trait, Crafted, Condition, Facility
<1>1. Fit(BackRoom.SALT_MEAT)
  BY DEF BackRoom
<1>2. Fit(BackRoom.BUILD_SALT_SHED)
  BY DEF BackRoom
<1>3. Fit(BackRoom.KEEP_SHOP_JERKY)
  BY DEF BackRoom, KeepShop
<1>4. Fit(BackRoom.KEEP_SHOP_EGGS)
  BY DEF BackRoom, KeepShop
<1>5. Fit(BackRoom.KEEP_SHOP_APPLES)
  BY DEF BackRoom, KeepShop
<1>6. Fit(BackRoom.KEEP_SHOP_BERRIES)
  BY DEF BackRoom, KeepShop
<1> QED BY <1>1, <1>2, <1>3, <1>4, <1>5, <1>6 DEF BackRoom, Sound

LEMMA MealsIsSound == Sound(Meals)
<1> USE PlainIs, AtKeeps, WithKeeps, BenchKeeps, RaisesKeeps, EasesKeeps, OpenSeasonsKeeps, FireKeeps,
        ByGuards, StudyKeeps
    DEF Good, Fresh, Keeping, Capital, Worked, Kit, Trophies, Rank, Prerequisite,
        Trait, Crafted, Condition, Facility
<1>1. Fit(Meals.EAT_BERRIES)
  BY DEF Meals, Meal
<1>2. Fit(Meals.EAT_APPLES)
  BY DEF Meals, Meal
<1>3. Fit(Meals.EAT_COOKED)
  BY DEF Meals, Meal
<1>4. Fit(Meals.EAT_EGGS)
  BY DEF Meals, Meal
<1>5. Fit(Meals.EAT_JERKY)
  BY DEF Meals, Meal
<1>6. Fit(Meals.FEAST)
  <2> DEFINE r == Fire(At(Plain({"JERKY", "WOOD"}, {"COMFORT"}), "HEARTH"))
  <2>1. Fit(r)
    OBVIOUS
  <2>2. Meals.FEAST = Hourly(r)
    BY DEF Meals, Hourly
  <2> QED BY <2>1, <2>2, GateKeeps
<1>7. Fit(Meals.FORAGE_POT)
  BY DEF Meals, Meal
<1>8. Fit(Meals.FORAGE_POT_EGGS)
  BY DEF Meals, Meal
<1>9. Fit(Meals.EAT_RAW)
  <2> DEFINE r == Meal({"MEAT"})
  <2>1. Fit(r)
    BY DEF Meal
  <2>2. Meals.EAT_RAW = Risking(r)
    BY DEF Meals, Risking
  <2> QED BY <2>1, <2>2, GateKeeps
<1> QED BY <1>1, <1>2, <1>3, <1>4, <1>5, <1>6, <1>7, <1>8, <1>9 DEF Meals, Sound

LEMMA RemediesIsSound == Sound(Remedies)
<1> USE PlainIs, AtKeeps, WithKeeps, BenchKeeps, RaisesKeeps, EasesKeeps, OpenSeasonsKeeps, FireKeeps,
        ByGuards, StudyKeeps
    DEF Good, Fresh, Keeping, Capital, Worked, Kit, Trophies, Rank, Prerequisite,
        Trait, Crafted, Condition, Facility
<1>1. Fit(Remedies.TAKE_TONIC)
  BY DEF Remedies, Meal
<1>2. Fit(Remedies.BIND_WOUND)
  BY DEF Remedies, Meal
<1>3. Fit(Remedies.CLEANSE)
  BY DEF Remedies, Meal
<1>4. Fit(Remedies.EAT_HONEY)
  BY DEF Remedies, Meal
<1>5. Fit(Remedies.MAKE_POULTICE)
  BY DEF Remedies, Meal
<1>6. Fit(Remedies.MAKE_TONIC)
  BY DEF Remedies, Meal
<1>7. Fit(Remedies.EAT_CARRION)
  BY DEF Remedies, Meal
<1>8. Fit(Remedies.PACE)
  BY DEF Remedies, Meal
<1> QED BY <1>1, <1>2, <1>3, <1>4, <1>5, <1>6, <1>7, <1>8 DEF Remedies, Sound

LEMMA ShelterIsSound == Sound(Shelter)
<1> USE PlainIs, AtKeeps, WithKeeps, BenchKeeps, RaisesKeeps, EasesKeeps, OpenSeasonsKeeps, FireKeeps,
        ByGuards, StudyKeeps
    DEF Good, Fresh, Keeping, Capital, Worked, Kit, Trophies, Rank, Prerequisite,
        Trait, Crafted, Condition, Facility
<1>1. Fit(Shelter.MAKE_SHELTER)
  BY DEF Shelter
<1>2. Fit(Shelter.SLEEP_SHELTERED)
  BY DEF Shelter
<1>3. Fit(Shelter.SLEEP_BY_FIRE)
  BY DEF Shelter
<1>4. Fit(Shelter.SLEEP_IN_BED)
  BY DEF Shelter
<1>5. Fit(Shelter.SLEEP_DEN)
  BY DEF Shelter
<1>6. Fit(Shelter.MAKE_CLOTHES)
  BY DEF Shelter
<1>7. Fit(Shelter.HUDDLE)
  BY DEF Shelter
<1> QED BY <1>1, <1>2, <1>3, <1>4, <1>5, <1>6, <1>7 DEF Shelter, Sound

LEMMA YardIsSound == Sound(Yard)
<1> USE PlainIs, AtKeeps, WithKeeps, BenchKeeps, RaisesKeeps, EasesKeeps, OpenSeasonsKeeps, FireKeeps,
        ByGuards, StudyKeeps
    DEF Good, Fresh, Keeping, Capital, Worked, Kit, Trophies, Rank, Prerequisite,
        Trait, Crafted, Condition, Facility
<1>1. Fit(Yard.MAKE_PEN)
  BY DEF Yard
<1>2. Fit(Yard.COLLECT_EGGS)
  BY DEF Yard
<1>3. Fit(Yard.COLLECT_HONEY)
  BY DEF Yard
<1> QED BY <1>1, <1>2, <1>3 DEF Yard, Sound

LEMMA FarValleyIsSound == Sound(FarValley)
<1> USE PlainIs, AtKeeps, WithKeeps, BenchKeeps, RaisesKeeps, EasesKeeps, OpenSeasonsKeeps, FireKeeps,
        ByGuards, StudyKeeps
    DEF Good, Fresh, Keeping, Capital, Worked, Kit, Trophies, Rank, Prerequisite,
        Trait, Crafted, Condition, Facility
<1>1. Fit(FarValley.DIG_SALT)
  BY DEF FarValley, Ibex
<1>2. Fit(FarValley.HEN_ROLL)
  BY DEF FarValley, Ibex
<1>3. Fit(FarValley.HUNT_IBEX)
  BY DEF FarValley, Ibex
<1>4. Fit(FarValley.HUNT_IBEX_BOW)
  BY DEF FarValley, Ibex
<1>5. Fit(FarValley.MAKE_FINE_CLOTHES)
  BY DEF FarValley, Ibex
<1>6. Fit(FarValley.HUDDLE_FINE)
  BY DEF FarValley, Ibex
<1> QED BY <1>1, <1>2, <1>3, <1>4, <1>5, <1>6 DEF FarValley, Sound

LEMMA StudiesIsSound == Sound(Studies)
<1> USE PlainIs, AtKeeps, WithKeeps, BenchKeeps, RaisesKeeps, EasesKeeps, OpenSeasonsKeeps, FireKeeps,
        ByGuards, StudyKeeps
    DEF Good, Fresh, Keeping, Capital, Worked, Kit, Trophies, Rank, Prerequisite,
        Trait, Crafted, Condition, Facility
<1>1. Fit(Studies.STUDY_KNAPPING)
  <2> DEFINE r == Study({"FLINT", "LABOR"}, "FLINT", "KNAPPING")
  <2>1. Fit(r)
    OBVIOUS
  <2>2. Studies.STUDY_KNAPPING = Relaxed(r)
    BY DEF Studies, Relaxed
  <2> QED BY <2>1, <2>2, GateKeeps
<1>2. Fit(Studies.STUDY_FIRE)
  BY DEF Studies
<1>3. Fit(Studies.STUDY_TANNING)
  BY DEF Studies
<1>4. Fit(Studies.STUDY_POTTERY)
  BY DEF Studies
<1>5. Fit(Studies.STUDY_ALCHEMY)
  BY DEF Studies
<1>6. Fit(Studies.STUDY_APIARY)
  BY DEF Studies
<1>7. Fit(Studies.STUDY_FLETCHING)
  BY DEF Studies
<1>8. Fit(Studies.STUDY_BONEWORK)
  BY DEF Studies
<1>9. Fit(Studies.STUDY_LEATHERWORK)
  BY DEF Studies
<1>10. Fit(Studies.STUDY_SALT)
  BY DEF Studies
<1> QED BY <1>1, <1>2, <1>3, <1>4, <1>5, <1>6, <1>7, <1>8, <1>9, <1>10 DEF Studies, Sound

LEMMA ToolsIsSound == Sound(Tools)
<1> USE PlainIs, AtKeeps, WithKeeps, BenchKeeps, RaisesKeeps, EasesKeeps, OpenSeasonsKeeps, FireKeeps,
        ByGuards, StudyKeeps
    DEF Good, Fresh, Keeping, Capital, Worked, Kit, Trophies, Rank, Prerequisite,
        Trait, Crafted, Condition, Facility
<1>1. Fit(Tools.MAKE_SPEAR)
  BY DEF Tools
<1>2. Fit(Tools.MAKE_AXE)
  BY DEF Tools
<1>3. Fit(Tools.MAKE_BAG)
  BY DEF Tools
<1>4. Fit(Tools.MAKE_WATERSKIN)
  BY DEF Tools
<1>5. Fit(Tools.MAKE_TRAP)
  BY DEF Tools
<1>6. Fit(Tools.MAKE_BED)
  BY DEF Tools
<1>7. Fit(Tools.MAKE_BOW)
  BY DEF Tools
<1> QED BY <1>1, <1>2, <1>3, <1>4, <1>5, <1>6, <1>7 DEF Tools, Sound

LEMMA BenchworkIsSound == Sound(Benchwork)
<1> USE PlainIs, AtKeeps, WithKeeps, BenchKeeps, RaisesKeeps, EasesKeeps, OpenSeasonsKeeps, FireKeeps,
        ByGuards, StudyKeeps
    DEF Good, Fresh, Keeping, Capital, Worked, Kit, Trophies, Rank, Prerequisite,
        Trait, Crafted, Condition, Facility
<1>1. Fit(Benchwork.MAKE_ARROW)
  BY DEF Benchwork
<1>2. Fit(Benchwork.MAKE_KNIFE)
  BY DEF Benchwork
<1>3. Fit(Benchwork.MAKE_SHIELD)
  BY DEF Benchwork
<1>4. Fit(Benchwork.MAKE_ROPE)
  BY DEF Benchwork
<1>5. Fit(Benchwork.MAKE_ROPE_KNIFE)
  BY DEF Benchwork
<1>6. Fit(Benchwork.MAKE_CHARCOAL)
  BY DEF Benchwork
<1>7. Fit(Benchwork.MAKE_KINDLING)
  BY DEF Benchwork
<1> QED BY <1>1, <1>2, <1>3, <1>4, <1>5, <1>6, <1>7 DEF Benchwork, Sound

LEMMA Pages ==
  /\ DOMAIN Gathering = {"GATHER", "GATHER_BAG", "CHOP_WOOD", "DIG_FLINT", "DIG_CLAY"}
  /\ DOMAIN Hunting = {"HUNT", "HUNT_SPEAR", "HUNT_TRAPS", "HUNT_BOW", "FISH"}
  /\ DOMAIN Hearthside = {"DRINK", "FILL_SKIN", "MAKE_FIRE", "MAKE_FIRE_KINDLING",
         "STOKE_FIRE", "WARM_BY_FIRE"}
  /\ DOMAIN Kitchen = {"MAKE_TORCH", "LIGHT_TORCH", "CHAIN_TORCH", "COOK_MEAT",
         "COOK_MEAT_KNIFE", "TANN_HIDE", "TANN_HIDE_KNIFE", "SMOKE_MEAT"}
  /\ DOMAIN BackRoom = {"SALT_MEAT", "BUILD_SALT_SHED", "KEEP_SHOP_JERKY",
         "KEEP_SHOP_EGGS", "KEEP_SHOP_APPLES", "KEEP_SHOP_BERRIES"}
  /\ DOMAIN Meals = {"EAT_BERRIES", "EAT_APPLES", "EAT_COOKED", "EAT_EGGS",
         "EAT_JERKY", "FEAST", "FORAGE_POT", "FORAGE_POT_EGGS", "EAT_RAW"}
  /\ DOMAIN Remedies = {"TAKE_TONIC", "BIND_WOUND", "CLEANSE", "EAT_HONEY",
         "MAKE_POULTICE", "MAKE_TONIC", "EAT_CARRION", "PACE"}
  /\ DOMAIN Shelter = {"MAKE_SHELTER", "SLEEP_SHELTERED", "SLEEP_BY_FIRE",
         "SLEEP_IN_BED", "SLEEP_DEN", "MAKE_CLOTHES", "HUDDLE"}
  /\ DOMAIN Yard = {"MAKE_PEN", "COLLECT_EGGS", "COLLECT_HONEY"}
  /\ DOMAIN FarValley = {"DIG_SALT", "HEN_ROLL", "HUNT_IBEX", "HUNT_IBEX_BOW",
         "MAKE_FINE_CLOTHES", "HUDDLE_FINE"}
  /\ DOMAIN Studies = {"STUDY_KNAPPING", "STUDY_FIRE", "STUDY_TANNING",
         "STUDY_POTTERY", "STUDY_ALCHEMY", "STUDY_APIARY", "STUDY_FLETCHING",
         "STUDY_BONEWORK", "STUDY_LEATHERWORK", "STUDY_SALT"}
  /\ DOMAIN Tools = {"MAKE_SPEAR", "MAKE_AXE", "MAKE_BAG", "MAKE_WATERSKIN",
         "MAKE_TRAP", "MAKE_BED", "MAKE_BOW"}
  /\ DOMAIN Benchwork = {"MAKE_ARROW", "MAKE_KNIFE", "MAKE_SHIELD", "MAKE_ROPE",
         "MAKE_ROPE_KNIFE", "MAKE_CHARCOAL", "MAKE_KINDLING"}
BY DEF Gathering, Hunting, Hearthside, Kitchen, BackRoom, Meals, Remedies,
   Shelter, Yard, FarValley, Studies, Tools, Benchwork

(* No two chapters give one recipe.                                        *)
LEMMA OneChapter ==
  ASSUME NEW c \in Chapters, NEW d \in Chapters, NEW x \in DOMAIN c, x \in DOMAIN d
  PROVE  c = d
<1>1. CASE c = Gathering
  BY <1>1, Pages DEF Chapters
<1>2. CASE c = Hunting
  BY <1>2, Pages DEF Chapters
<1>3. CASE c = Hearthside
  BY <1>3, Pages DEF Chapters
<1>4. CASE c = Kitchen
  BY <1>4, Pages DEF Chapters
<1>5. CASE c = BackRoom
  BY <1>5, Pages DEF Chapters
<1>6. CASE c = Meals
  BY <1>6, Pages DEF Chapters
<1>7. CASE c = Remedies
  BY <1>7, Pages DEF Chapters
<1>8. CASE c = Shelter
  BY <1>8, Pages DEF Chapters
<1>9. CASE c = Yard
  BY <1>9, Pages DEF Chapters
<1>10. CASE c = FarValley
  BY <1>10, Pages DEF Chapters
<1>11. CASE c = Studies
  BY <1>11, Pages DEF Chapters
<1>12. CASE c = Tools
  BY <1>12, Pages DEF Chapters
<1>13. CASE c = Benchwork
  BY <1>13, Pages DEF Chapters
<1> QED BY <1>1, <1>2, <1>3, <1>4, <1>5, <1>6, <1>7, <1>8, <1>9, <1>10, <1>11, <1>12, <1>13 DEF Chapters

LEMMA OpensAt ==
  ASSUME NEW c \in Chapters, NEW x \in DOMAIN c
  PROVE  x \in DOMAIN Book /\ Book[x] = c[x]
<1> DEFINE d == CHOOSE d \in Chapters : x \in DOMAIN d
<1>1. d \in Chapters /\ x \in DOMAIN d
  OBVIOUS
<1>2. d = c
  BY <1>1, OneChapter
<1>3. x \in UNION {DOMAIN e : e \in Chapters}
  OBVIOUS
<1> QED BY <1>2, <1>3 DEF Book

LEMMA BookIsSound == Sound(Book)
<1> SUFFICES ASSUME NEW x \in DOMAIN Book
             PROVE  Fit(Book[x])
  BY DEF Sound
<1>1. PICK c \in Chapters : x \in DOMAIN c
  BY DEF Book
<1>2. Sound(c)
  BY GatheringIsSound, HuntingIsSound, HearthsideIsSound, KitchenIsSound, BackRoomIsSound,
     MealsIsSound, RemediesIsSound, ShelterIsSound, YardIsSound, FarValleyIsSound,
     StudiesIsSound, ToolsIsSound, BenchworkIsSound DEF Chapters
<1>3. Book[x] = c[x]
  BY <1>1, OpensAt
<1> QED BY <1>1, <1>2, <1>3 DEF Sound

(* The catalogue refuses none of it.                                       *)
LEMMA AllRegistered ==
  /\ Recipes = Book
  /\ \A x \in DOMAIN Recipes : Fit(Recipes[x])
<1>1. DOMAIN Recipes = DOMAIN Book
  BY BookIsSound DEF Recipes, Sound, Fit, Recipe
<1>2. \A x \in DOMAIN Recipes : Recipes[x] = Book[x]
  BY DEF Recipes
<1>3. Recipes = Book
  BY <1>1, <1>2 DEF Recipes, Book
<1> QED BY <1>3, BookIsSound DEF Sound

-----------------------------------------------------------------------------
(* What the programs start is in the book.                                 *)
LEMMA ErrandsAreRecipes ==
  ASSUME LifeTypeOK
  PROVE  Doable \subseteq DOMAIN Recipes
<1>1. DOMAIN Hunting \cup DOMAIN Hearthside \cup DOMAIN Gathering \cup DOMAIN Meals
        \cup DOMAIN Remedies \cup DOMAIN Shelter \cup DOMAIN BackRoom \subseteq DOMAIN Recipes
  BY OpensAt, AllRegistered DEF Chapters
<1>2. Errands[who] \subseteq DOMAIN Recipes
  BY <1>1, Pages DEF Errands, LifeTypeOK, Home
<1> QED BY <1>2 DEF Doable

LEMMA Results ==
  ASSUME LifeTypeOK
  PROVE  /\ Gained(Doable, "out") \subseteq Good
         /\ Gained(Doable, "risks") \subseteq Condition
         /\ Learnt(Doable) \subseteq Rank
         /\ Raised(Doable) \subseteq Facility
         /\ Bargains \subseteq Good
         /\ Spoils \subseteq Good
<1>1. \A r \in Doable : Recipe(Recipes[r])
  BY ErrandsAreRecipes, AllRegistered DEF Fit
<1>2. Gained(Doable, "out") \subseteq Good
  BY <1>1 DEF Gained, Recipe
<1>3. Gained(Doable, "risks") \subseteq Condition
  BY <1>1 DEF Gained, Recipe
<1>4. Learnt(Doable) \subseteq Rank
  BY <1>1 DEF Learnt, Gained, Recipe
<1>5. Raised(Doable) \subseteq Facility
  BY <1>1 DEF Raised, Recipe
<1>6. Buyers \subseteq Good /\ Sellers \subseteq Good
  BY DEF Buyers, Sellers, Forest, Shelf, PostBook, Good, Fresh, Keeping, Capital,
         Worked, Kit, Trophies
<1>7. Forest \subseteq Good /\ FarBook \subseteq Good /\ Carcass \subseteq Good
        /\ {"COIN", "MEAT"} \subseteq Good
  BY DEF Forest, FarBook, Carcass, Good, Fresh, Keeping, Capital, Worked, Kit,
         Trophies
<1>8. Bargains \subseteq Good
  BY <1>6, <1>7 DEF Bargains
<1>9. Spoils \subseteq Good
  BY <1>7 DEF Spoils
<1> QED BY <1>2, <1>3, <1>4, <1>5, <1>8, <1>9

LEMMA StartsTyped == LifeInit => LifeTypeOK
<1> SUFFICES ASSUME LifeInit
             PROVE  LifeTypeOK
  OBVIOUS
<1>1. PICK life \in Case :
         /\ who = life.who /\ season = life.season /\ lit = life.lit /\ ails = life.ails
         /\ held = Born[life.who] /\ known = Gifts[life.who] /\ stands = Ground[life.who]
  BY DEF LifeInit
<1>2. who \in {"house", "keeper", "wolf", "boar"} /\ season \in {"OPEN", "WINTER"}
        /\ lit \in BOOLEAN /\ ails \subseteq Condition
  BY <1>1, BirthAssumption DEF Wellborn, Home
<1>3. Born[who] \subseteq Good
  BY <1>2 DEF Born, Shelf, Carcass, Good, Fresh, Keeping, Capital, Worked, Kit,
              Trophies
<1>4. Gifts[who] \subseteq Rank \cup Trait
  BY <1>2 DEF Gifts, Rank, Prerequisite, Trait
<1>5. Ground[who] \subseteq Facility
  BY <1>2 DEF Ground, Facility
<1>6. who \in DOMAIN Home
  BY <1>2 DEF Home
<1> QED BY <1>1, <1>2, <1>3, <1>4, <1>5, <1>6 DEF LifeTypeOK, Facility

LEMMA StaysTyped == LifeTypeOK /\ [LifeNext]_lifeVars => LifeTypeOK'
<1> SUFFICES ASSUME LifeTypeOK, [LifeNext]_lifeVars
             PROVE  LifeTypeOK'
  OBVIOUS
<1> USE DEF Facility
<1>1. CASE Live
  <2>1. /\ ails' \subseteq Condition
        /\ held' = held \cup Gained(Doable, "out") \cup Bargains
        /\ known' = known \cup Learnt(Doable)
        /\ stands' = stands \cup Raised(Doable)
    BY <1>1, Results DEF Live, Carries, LifeTypeOK
  <2>2. lit' = (lit \/ Stoked(Doable)) /\ who' = who /\ season' = season
    BY <1>1 DEF Live
  <2>3. lit' \in BOOLEAN
    BY <2>2, Zenon DEF LifeTypeOK
  <2> QED BY <2>1, <2>2, <2>3, Results DEF LifeTypeOK
<1>2. CASE Fight
  BY <1>2, Results DEF Fight, Carries, LifeTypeOK, Condition
<1>3. CASE Turn
  BY <1>3 DEF Turn, LifeTypeOK
<1>4. ASSUME NEW n \in DOMAIN Need, Miss(n)
      PROVE  LifeTypeOK'
  <2>1. Need[n].unmet \in Condition
    BY DEF Need, Condition
  <2> QED BY <1>4, <2>1 DEF Miss, Carries, LifeTypeOK
<1>5. ASSUME NEW c \in Condition, Fester(c)
      PROVE  LifeTypeOK'
  <2>1. c \in DOMAIN Breeds => Breeds[c] \in Condition
    BY DEF Breeds, Condition
  <2> QED BY <1>5, <2>1 DEF Fester, Carries, LifeTypeOK
<1>6. ASSUME NEW c \in Condition, Fade(c)
      PROVE  LifeTypeOK'
  BY <1>6 DEF Fade, LifeTypeOK
<1>7. CASE UNCHANGED lifeVars
  BY <1>7 DEF lifeVars, LifeTypeOK
<1> QED BY <1>1, <1>2, <1>3, <1>4, <1>5, <1>6, <1>7 DEF LifeNext

(* Nobody in the stone age comes by what the pack does not declare.        *)
THEOREM StoneAgeTypes == LifeSpec => []LifeTypeOK
<1>1. LifeInit => LifeTypeOK
  BY StartsTyped
<1> QED BY <1>1, StaysTyped, PTL DEF LifeSpec

-----------------------------------------------------------------------------
LEMMA GatesHold ==
  ASSUME LifeTypeOK, NEW g \in Gained(Doable, "out") \cap DOMAIN Crafted
  PROVE  Crafted[g] \in known
<1>1. PICK r \in Doable : g \in Recipes[r].out
  BY DEF Gained
<1>2. Crafted[g] \in Recipes[r].ranks
  BY <1>1, ErrandsAreRecipes, AllRegistered DEF Fit, Guarded
<1> QED BY <1>2 DEF Doable, Ready

LEMMA StaysInHands ==
  LifeTypeOK /\ CraftsAreInHands /\ [LifeNext]_lifeVars => CraftsAreInHands'
<1> SUFFICES ASSUME LifeTypeOK, CraftsAreInHands, [LifeNext]_lifeVars,
                    who' = "house", "TRADE" \in bar',
                    NEW g \in held' \cap DOMAIN Crafted
             PROVE  Crafted[g] \in known'
  BY DEF CraftsAreInHands
<1>1. who = "house" /\ "TRADE" \in bar /\ known \subseteq known'
  BY DEF LifeNext, Live, Fight, Turn, Miss, Fester, Fade, lifeVars
<1>2. CASE g \in held
  BY <1>1, <1>2 DEF CraftsAreInHands
<1>3. CASE g \notin held
  <2>1. Bargains = {}
    BY <1>1 DEF Bargains
  <2>2. g \notin Spoils
    BY DEF Spoils, Carcass, Crafted
  <2>3. CASE Live
    <3>1. g \in Gained(Doable, "out")
      BY <1>3, <2>1, <2>3 DEF Live
    <3> QED BY <3>1, <1>1, GatesHold
  <2> QED BY <1>3, <2>2, <2>3 DEF LifeNext, Fight, Turn, Miss, Fester, Fade, lifeVars
<1> QED BY <1>2, <1>3

(* A craft is in hands and never on shelves: a house that cannot trade has *)
(* no spear, no bow, no clothes and no tonic without the rank that gates   *)
(* the recipe, whatever else its life denies it.                           *)
THEOREM CraftsAreInHandsHolds == LifeSpec => []CraftsAreInHands
<1>1. LifeInit => CraftsAreInHands
  BY DEF LifeInit, CraftsAreInHands, Born, Crafted
<1>2. LifeInit => LifeTypeOK
  BY StartsTyped
<1> QED BY <1>1, <1>2, StaysTyped, StaysInHands, PTL DEF LifeSpec

-----------------------------------------------------------------------------
(* What it takes to start a recipe, constructor by constructor.            *)
LEMMA PlainReady ==
  ASSUME NEW in, NEW out \in SUBSET Good, in \cup out # {}, in \subseteq held
  PROVE  /\ Ready(Plain(in, out))
         /\ Recipe(Plain(in, out)) /\ Plain(in, out).out = out
BY PlainIs DEF Ready, Plain

LEMMA AtReady ==
  ASSUME NEW r, NEW kind \in Grounds, Recipe(r), Ready(r)
  PROVE  Ready(At(r, kind))
BY DEF Ready, At, Recipe, Field

LEMMA WithReady ==
  ASSUME NEW r, NEW tools \in SUBSET held, Recipe(r), Ready(r)
  PROVE  Ready(With(r, tools))
BY DEF Ready, With, Recipe, Field

LEMMA ByReady ==
  ASSUME NEW r, NEW rank \in known, Recipe(r), Ready(r)
  PROVE  Ready(By(r, rank)) /\ By(r, rank).out = r.out
BY DEF Ready, By, Recipe, Field

LEMMA OpenSeasonsReady ==
  ASSUME NEW r, season = "OPEN", Recipe(r), Ready(r)
  PROVE  Ready(OpenSeasons(r))
BY DEF Ready, OpenSeasons, Recipe, Field

LEMMA BenchReady ==
  ASSUME NEW r, NEW facility \in stands, Recipe(r), Ready(r)
  PROVE  Ready(Bench(r, facility))
BY DEF Ready, Bench, Recipe, Field

LEMMA RaisesReady ==
  ASSUME NEW r, NEW facility, Recipe(r), Ready(r)
  PROVE  Ready(Raises(r, facility)) /\ Raises(r, facility).builds = facility
BY DEF Ready, Raises, Recipe, Field

LEMMA RiskingReady ==
  ASSUME NEW r, Recipe(r), Ready(r)
  PROVE  Ready(Risking(r)) /\ Risking(r).out = r.out
BY DEF Ready, Risking, Recipe, Field

LEMMA StudyReady ==
  ASSUME NEW in \in SUBSET held, in # {}, NEW kind \in Grounds, NEW rank \in Rank,
         WholeHours, Prerequisite[rank] \subseteq known, {rank, "STUDY"} \cap bar = {}
  PROVE  Ready(Study(in, kind, rank)) /\ Study(in, kind, rank).unlocks = {rank}
<1> DEFINE r == Plain(in, {})
<1>1. Recipe(r) /\ Ready(r)
  BY PlainReady
<1>2. Study(in, kind, rank) = [r EXCEPT !.ground = kind, !.hourly = TRUE, !.unlocks = {rank}]
  BY DEF Study
<1> HIDE DEF r
<1> QED BY <1>1, <1>2 DEF Ready, Recipe, Field

LEMMA RelaxedReady ==
  ASSUME NEW r, Recipe(r), Ready(r)
  PROVE  Ready(Relaxed(r)) /\ Relaxed(r).unlocks = r.unlocks
BY DEF Ready, Relaxed, Recipe, Field

(* What can be done is done, once a life has settled.                      *)
LEMMA WhatCanBeDone ==
  ASSUME Settled, NEW x \in Errands[who], Ready(Recipes[x])
  PROVE  /\ Recipes[x].out \subseteq held
         /\ Recipes[x].unlocks \subseteq known
         /\ Recipes[x].builds \in stands \cup {"NONE"}
<1>1. x \in Doable
  BY DEF Doable
<1> QED BY <1>1 DEF Settled, Gained, Learnt, Raised

LEMMA FactsOfTheBook ==
  \A c \in Chapters : \A x \in DOMAIN c : x \in DOMAIN Recipes /\ Recipes[x] = c[x]
BY OpensAt, AllRegistered

-----------------------------------------------------------------------------
(* The ground at everybody's door.                                         *)
LEMMA OnwardKeeps ==
  ASSUME NEW T, NEW p \in T \cap Place, p \notin bar
  PROVE  p \in Onward(T)
BY DEF Onward

LEMMA OnwardGoes ==
  ASSUME NEW T, NEW q \in T, NEW p \in Place, {p, q} \in Roads, p \notin bar
  PROVE  p \in Onward(T)
BY DEF Onward

(* Eight roads lead wherever one or two do.                                *)
LEMMA ReachIs ==
  Reach = Onward(Onward(Onward(Onward(Onward(Onward(Onward(Onward({Home[who]}))))))))
BY DEF Reach

LEMMA NearIsReached ==
  ASSUME NEW p \in Place, p \notin bar,
         p \in Onward({Home[who]}) \/ p \in Onward(Onward({Home[who]}))
  PROVE  p \in Reach
BY ReachIs, OnwardKeeps

LEMMA OwnGroundIsNear ==
  ASSUME LifeTypeOK, who # "keeper", bar \cap OwnGround = {}
  PROVE  /\ {"THICKET", "RIVER"} \subseteq Grounds
         /\ "FOREST" \notin bar => "FOREST" \in Grounds
<1> USE DEF Place, Kind, Roads
<1>1. who \in {"house", "wolf", "boar"}
  BY DEF LifeTypeOK, Home
<1>2. "THICKET" \in Onward({Home[who]})
  BY <1>1, OnwardGoes, OnwardKeeps DEF Home, OwnGround
<1>3. "RIVER" \in Onward(Onward({Home[who]}))
  BY <1>2, OnwardGoes DEF OwnGround
<1>4. "FOREST" \notin bar => "FOREST" \in Onward(Onward({Home[who]}))
  BY <1>2, OnwardGoes DEF OwnGround
<1>5. {"THICKET", "RIVER"} \subseteq Reach
  BY <1>2, <1>3, NearIsReached DEF OwnGround
<1>6. "FOREST" \notin bar => "FOREST" \in Reach
  BY <1>4, NearIsReached
<1> QED BY <1>5, <1>6 DEF Grounds

-----------------------------------------------------------------------------
(* The recipes a life hangs on: what each takes and what it then brings.   *)
LEMMA Drinking ==
  ASSUME LifeTypeOK, Settled, who # "keeper", "RIVER" \in Grounds
  PROVE  "WATER" \in held
<1>1. "DRINK" \in Errands[who] /\ "DRINK" \in DOMAIN Hearthside /\ Hearthside \in Chapters
  BY FactsOfTheBook, Pages DEF Errands, LifeTypeOK, Home, Chapters
<1>2. Recipes["DRINK"] = At(Plain({}, {"WATER"}), "RIVER")
  BY <1>1, FactsOfTheBook DEF Hearthside
<1>3. {"WATER"} \in SUBSET Good
  BY DEF Good, Fresh, Keeping, Capital, Worked, Kit, Trophies
<1> DEFINE r0 == Plain({}, {"WATER"})
<1>4. Ready(r0) /\ Recipe(r0) /\ r0.out = {"WATER"}
  BY <1>3, PlainReady
<1> DEFINE r1 == At(r0, "RIVER")
<1>5. Ready(r1) /\ r1.out = {"WATER"}
  BY <1>4, AtReady, AtKeeps
<1>6. Recipes["DRINK"] = r1
  BY <1>2
<1> HIDE DEF r0, r1
<1> QED BY <1>1, <1>5, <1>6, WhatCanBeDone

LEMMA Gathered ==
  ASSUME LifeTypeOK, Settled, who = "house", "LABOR" \in held, season = "OPEN",
         "THICKET" \in Grounds
  PROVE  {"WOOD", "YARN", "FLINT", "HERB"} \subseteq held
<1>1. "GATHER" \in Errands[who] /\ "GATHER" \in DOMAIN Gathering /\ Gathering \in Chapters
  BY FactsOfTheBook, Pages DEF Errands, LifeTypeOK, Home, Chapters
<1>2. Recipes["GATHER"] = OpenSeasons(At(Plain({"LABOR"}, {"BERRIES", "APPLES", "WOOD", "YARN", "FLINT", "HERB"}), "THICKET"))
  BY <1>1, FactsOfTheBook DEF Gathering
<1>3. {"BERRIES", "APPLES", "WOOD", "YARN", "FLINT", "HERB"} \in SUBSET Good
  BY DEF Good, Fresh, Keeping, Capital, Worked, Kit, Trophies
<1> DEFINE r0 == Plain({"LABOR"}, {"BERRIES", "APPLES", "WOOD", "YARN", "FLINT", "HERB"})
<1>4. Ready(r0) /\ Recipe(r0) /\ r0.out = {"BERRIES", "APPLES", "WOOD", "YARN", "FLINT", "HERB"}
  BY <1>3, PlainReady
<1> DEFINE r1 == At(r0, "THICKET")
<1>5. Ready(r1) /\ r1.out = {"BERRIES", "APPLES", "WOOD", "YARN", "FLINT", "HERB"} /\ Recipe(r1)
  BY <1>4, AtReady, AtKeeps
<1> DEFINE r2 == OpenSeasons(r1)
<1>6. Ready(r2) /\ r2.out = {"BERRIES", "APPLES", "WOOD", "YARN", "FLINT", "HERB"}
  BY <1>5, OpenSeasonsReady, OpenSeasonsKeeps
<1>7. Recipes["GATHER"] = r2
  BY <1>2
<1> HIDE DEF r0, r1, r2
<1> QED BY <1>1, <1>6, <1>7, WhatCanBeDone

LEMMA Sheltered ==
  ASSUME LifeTypeOK, Settled, who = "house", {"LABOR", "WOOD", "YARN"} \subseteq held
  PROVE  "SHELTER" \in stands
<1>1. "MAKE_SHELTER" \in Errands[who] /\ "MAKE_SHELTER" \in DOMAIN Shelter /\ Shelter \in Chapters
  BY FactsOfTheBook, Pages DEF Errands, LifeTypeOK, Home, Chapters
<1>2. Recipes["MAKE_SHELTER"] = Raises(Plain({"LABOR", "WOOD", "YARN"}, {}), "SHELTER")
  BY <1>1, FactsOfTheBook DEF Shelter
<1>3. {} \in SUBSET Good
  BY DEF Good, Fresh, Keeping, Capital, Worked, Kit, Trophies
<1> DEFINE r0 == Plain({"LABOR", "WOOD", "YARN"}, {})
<1>4. Ready(r0) /\ Recipe(r0) /\ r0.out = {}
  BY <1>3, PlainReady
<1> DEFINE r1 == Raises(r0, "SHELTER")
<1>5. Ready(r1) /\ r1.out = {} /\ r1.builds = "SHELTER"
  BY <1>4, RaisesReady, RaisesKeeps DEF Facility
<1>6. Recipes["MAKE_SHELTER"] = r1
  BY <1>2
<1> HIDE DEF r0, r1
<1> QED BY <1>1, <1>5, <1>6, WhatCanBeDone

LEMMA Bedded ==
  ASSUME LifeTypeOK, Settled, who = "house", {"LABOR", "WOOD", "YARN"} \subseteq held
  PROVE  "BED" \in held
<1>1. "MAKE_BED" \in Errands[who] /\ "MAKE_BED" \in DOMAIN Tools /\ Tools \in Chapters
  BY FactsOfTheBook, Pages DEF Errands, LifeTypeOK, Home, Chapters
<1>2. Recipes["MAKE_BED"] = Plain({"LABOR", "WOOD", "YARN"}, {"BED"})
  BY <1>1, FactsOfTheBook DEF Tools
<1>3. {"BED"} \in SUBSET Good
  BY DEF Good, Fresh, Keeping, Capital, Worked, Kit, Trophies
<1> DEFINE r0 == Plain({"LABOR", "WOOD", "YARN"}, {"BED"})
<1>4. Ready(r0) /\ Recipe(r0) /\ r0.out = {"BED"}
  BY <1>3, PlainReady
<1>5. Recipes["MAKE_BED"] = r0
  BY <1>2
<1> HIDE DEF r0
<1> QED BY <1>1, <1>4, <1>5, WhatCanBeDone

LEMMA SleepsInBed ==
  ASSUME LifeTypeOK, Settled, who = "house", "BED" \in held, "SHELTER" \in stands
  PROVE  {"REST", "WARMTH", "COMFORT"} \subseteq held
<1>1. "SLEEP_IN_BED" \in Errands[who] /\ "SLEEP_IN_BED" \in DOMAIN Shelter /\ Shelter \in Chapters
  BY FactsOfTheBook, Pages DEF Errands, LifeTypeOK, Home, Chapters
<1>2. Recipes["SLEEP_IN_BED"] = With(Bench(Plain({}, {"REST", "WARMTH", "COMFORT"}), "SHELTER"), {"BED"})
  BY <1>1, FactsOfTheBook DEF Shelter
<1>3. {"REST", "WARMTH", "COMFORT"} \in SUBSET Good
  BY DEF Good, Fresh, Keeping, Capital, Worked, Kit, Trophies
<1> DEFINE r0 == Plain({}, {"REST", "WARMTH", "COMFORT"})
<1>4. Ready(r0) /\ Recipe(r0) /\ r0.out = {"REST", "WARMTH", "COMFORT"}
  BY <1>3, PlainReady
<1> DEFINE r1 == Bench(r0, "SHELTER")
<1>5. Ready(r1) /\ r1.out = {"REST", "WARMTH", "COMFORT"} /\ Recipe(r1)
  BY <1>4, BenchReady, BenchKeeps DEF Facility
<1> DEFINE r2 == With(r1, {"BED"})
<1>6. Ready(r2) /\ r2.out = {"REST", "WARMTH", "COMFORT"}
  BY <1>5, WithReady, WithKeeps
<1>7. Recipes["SLEEP_IN_BED"] = r2
  BY <1>2
<1> HIDE DEF r0, r1, r2
<1> QED BY <1>1, <1>6, <1>7, WhatCanBeDone

LEMMA Hunts ==
  ASSUME LifeTypeOK, Settled, who \in {"house", "wolf"}, "LABOR" \in held, "FOREST" \in Grounds
  PROVE  "MEAT" \in held
<1>1. "HUNT" \in Errands[who] /\ "HUNT" \in DOMAIN Hunting /\ Hunting \in Chapters
  BY FactsOfTheBook, Pages DEF Errands, LifeTypeOK, Home, Chapters
<1>2. Recipes["HUNT"] = At(Plain({"LABOR"}, {"MEAT"}), "FOREST")
  BY <1>1, FactsOfTheBook DEF Hunting
<1>3. {"MEAT"} \in SUBSET Good
  BY DEF Good, Fresh, Keeping, Capital, Worked, Kit, Trophies
<1> DEFINE r0 == Plain({"LABOR"}, {"MEAT"})
<1>4. Ready(r0) /\ Recipe(r0) /\ r0.out = {"MEAT"}
  BY <1>3, PlainReady
<1> DEFINE r1 == At(r0, "FOREST")
<1>5. Ready(r1) /\ r1.out = {"MEAT"}
  BY <1>4, AtReady, AtKeeps
<1>6. Recipes["HUNT"] = r1
  BY <1>2
<1> HIDE DEF r0, r1
<1> QED BY <1>1, <1>5, <1>6, WhatCanBeDone

LEMMA EatsRaw ==
  ASSUME LifeTypeOK, Settled, who = "house", "MEAT" \in held
  PROVE  "SATIETY" \in held
<1>1. "EAT_RAW" \in Errands[who] /\ "EAT_RAW" \in DOMAIN Meals /\ Meals \in Chapters
  BY FactsOfTheBook, Pages DEF Errands, LifeTypeOK, Home, Chapters
<1>2. Recipes["EAT_RAW"] = Risking(Plain({"MEAT"}, {"SATIETY", "WATER"}))
  BY <1>1, FactsOfTheBook DEF Meals, Meal, Risking
<1>3. {"SATIETY", "WATER"} \in SUBSET Good
  BY DEF Good, Fresh, Keeping, Capital, Worked, Kit, Trophies
<1> DEFINE r0 == Plain({"MEAT"}, {"SATIETY", "WATER"})
<1>4. Ready(r0) /\ Recipe(r0) /\ r0.out = {"SATIETY", "WATER"}
  BY <1>3, PlainReady
<1> DEFINE r1 == Risking(r0)
<1>5. Ready(r1) /\ r1.out = {"SATIETY", "WATER"}
  BY <1>4, RiskingReady
<1>6. Recipes["EAT_RAW"] = r1
  BY <1>2
<1> HIDE DEF r0, r1
<1> QED BY <1>1, <1>5, <1>6, WhatCanBeDone

LEMMA EatsCarrion ==
  ASSUME LifeTypeOK, Settled, who \in {"wolf", "boar"}, "MEAT" \in held, "CARNIVORE" \in known
  PROVE  "SATIETY" \in held
<1>1. "EAT_CARRION" \in Errands[who] /\ "EAT_CARRION" \in DOMAIN Remedies /\ Remedies \in Chapters
  BY FactsOfTheBook, Pages DEF Errands, LifeTypeOK, Home, Chapters
<1>2. Recipes["EAT_CARRION"] = By(Plain({"MEAT"}, {"SATIETY", "WATER"}), "CARNIVORE")
  BY <1>1, FactsOfTheBook DEF Remedies, Meal
<1>3. {"SATIETY", "WATER"} \in SUBSET Good
  BY DEF Good, Fresh, Keeping, Capital, Worked, Kit, Trophies
<1> DEFINE r0 == Plain({"MEAT"}, {"SATIETY", "WATER"})
<1>4. Ready(r0) /\ Recipe(r0) /\ r0.out = {"SATIETY", "WATER"}
  BY <1>3, PlainReady
<1> DEFINE r1 == By(r0, "CARNIVORE")
<1>5. Ready(r1) /\ r1.out = {"SATIETY", "WATER"}
  BY <1>4, ByReady, ByGuards
<1>6. Recipes["EAT_CARRION"] = r1
  BY <1>2
<1> HIDE DEF r0, r1
<1> QED BY <1>1, <1>5, <1>6, WhatCanBeDone

LEMMA SleepsInDen ==
  ASSUME LifeTypeOK, Settled, who \in {"wolf", "boar"}, "CARNIVORE" \in known
  PROVE  {"REST", "WARMTH"} \subseteq held
<1>1. "SLEEP_DEN" \in Errands[who] /\ "SLEEP_DEN" \in DOMAIN Shelter /\ Shelter \in Chapters
  BY FactsOfTheBook, Pages DEF Errands, LifeTypeOK, Home, Chapters
<1>2. Recipes["SLEEP_DEN"] = By(Plain({}, {"REST", "WARMTH", "COMFORT"}), "CARNIVORE")
  BY <1>1, FactsOfTheBook DEF Shelter
<1>3. {"REST", "WARMTH", "COMFORT"} \in SUBSET Good
  BY DEF Good, Fresh, Keeping, Capital, Worked, Kit, Trophies
<1> DEFINE r0 == Plain({}, {"REST", "WARMTH", "COMFORT"})
<1>4. Ready(r0) /\ Recipe(r0) /\ r0.out = {"REST", "WARMTH", "COMFORT"}
  BY <1>3, PlainReady
<1> DEFINE r1 == By(r0, "CARNIVORE")
<1>5. Ready(r1) /\ r1.out = {"REST", "WARMTH", "COMFORT"}
  BY <1>4, ByReady, ByGuards
<1>6. Recipes["SLEEP_DEN"] = r1
  BY <1>2
<1> HIDE DEF r0, r1
<1> QED BY <1>1, <1>5, <1>6, WhatCanBeDone

-----------------------------------------------------------------------------
(* What a life has kept: hands, its nature, its ground and, in winter,     *)
(* either the comforts it was born with or a roof and a bed.               *)
Provided ==
  who # "keeper" =>
    /\ "LABOR" \in held
    /\ who \in {"wolf", "boar"} => "CARNIVORE" \in known
    /\ bar \cap OwnGround = {}
    /\ "FIGHT" \in bar => who # "boar" /\ "FOREST" \notin bar
    /\ who = "house" /\ season = "WINTER" =>
         \/ {"WARMTH", "COMFORT", "REST"} \subseteq held
         \/ "BED" \in held /\ "SHELTER" \in stands

LEMMA StartsProvided == LifeInit => Provided
<1> SUFFICES ASSUME LifeInit, who # "keeper"
             PROVE  Provided
  BY DEF Provided
<1>1. PICK life \in Case :
         /\ who = life.who /\ bar = life.bar
         /\ held = Born[life.who] /\ known = Gifts[life.who]
  BY DEF LifeInit
<1>2. who \in {"house", "wolf", "boar"}
  BY <1>1, BirthAssumption DEF Wellborn, Home
<1>3. "LABOR" \in held /\ (who # "house" => "CARNIVORE" \in known)
  BY <1>1, <1>2 DEF Born, Gifts
<1>4. who = "house" => {"WARMTH", "COMFORT", "REST"} \subseteq held
  BY <1>1 DEF Born
<1>5. bar \cap OwnGround = {} /\ ("FIGHT" \in bar => who # "boar" /\ "FOREST" \notin bar)
  BY <1>1, GroundAssumption DEF Spared
<1> QED BY <1>2, <1>3, <1>4, <1>5 DEF Provided

LEMMA RoofIsRaised ==
  ASSUME LifeTypeOK, Provided, Settled, who = "house", season = "OPEN"
  PROVE  "BED" \in held /\ "SHELTER" \in stands
<1>1. "LABOR" \in held /\ bar \cap OwnGround = {}
  BY DEF Provided
<1>2. "THICKET" \in Grounds
  BY <1>1, OwnGroundIsNear
<1>3. {"LABOR", "WOOD", "YARN"} \subseteq held
  BY <1>1, <1>2, Gathered
<1> QED BY <1>3, Sheltered, Bedded

LEMMA StaysProvided == LifeTypeOK /\ Provided /\ [LifeNext]_lifeVars => Provided'
<1> SUFFICES ASSUME LifeTypeOK, Provided, [LifeNext]_lifeVars, who' # "keeper"
             PROVE  Provided'
  BY DEF Provided
<1>1. CASE Turn
  <2>1. who' = who /\ bar' = bar /\ known' = known /\ stands' = stands
          /\ held' = held \cap Lasting /\ Settled /\ season = "OPEN"
    BY <1>1 DEF Turn
  <2>2. who = "house" => "BED" \in held /\ "SHELTER" \in stands
    BY <2>1, RoofIsRaised
  <2>3. {"LABOR", "BED"} \subseteq Lasting
    BY DEF Lasting
  <2> QED BY <2>1, <2>2, <2>3 DEF Provided
<1>2. CASE ~Turn
  <2>1. who' = who /\ bar' = bar /\ season' = season
          /\ held \subseteq held' /\ known \subseteq known' /\ stands \subseteq stands'
    BY <1>2 DEF LifeNext, Live, Fight, Miss, Fester, Fade, lifeVars
  <2> QED BY <2>1 DEF Provided
<1> QED BY <1>1, <1>2

LEMMA Survives ==
  ASSUME LifeTypeOK, Provided
  PROVE  SurvivalIsFree
<1> SUFFICES ASSUME Settled, NEW n \in Wants
             PROVE  Met(n)
  BY DEF SurvivalIsFree
<1>1. who # "keeper"
  BY DEF Wants
<1>2. who \in {"house", "wolf", "boar"}
  BY <1>1 DEF LifeTypeOK, Home
<1>3. "LABOR" \in held /\ {"THICKET", "RIVER"} \subseteq Grounds
        /\ ("FOREST" \notin bar => "FOREST" \in Grounds)
  BY <1>1, OwnGroundIsNear DEF Provided
<1>4. "WATER" \in held
  BY <1>1, <1>3, Drinking
<1>5. "MEAT" \in held
  <2>1. CASE "FIGHT" \in bar
    BY <1>1, <1>2, <1>3, <2>1, Hunts DEF Provided
  <2>2. CASE "FIGHT" \notin bar
    BY <1>1, <2>2 DEF Settled, Spoils, Carcass
  <2> QED BY <2>1, <2>2
<1>6. "SATIETY" \in held
  BY <1>2, <1>5, EatsRaw, EatsCarrion DEF Provided
<1>7. {"REST", "WARMTH"} \subseteq held /\ (who = "house" => "COMFORT" \in held)
  <2>1. CASE who # "house"
    BY <1>2, <2>1, SleepsInDen DEF Provided
  <2>2. CASE who = "house" /\ season = "OPEN"
    BY <2>2, RoofIsRaised, SleepsInBed
  <2>3. CASE who = "house" /\ season = "WINTER"
    BY <2>3, SleepsInBed DEF Provided
  <2> QED BY <2>1, <2>2, <2>3 DEF LifeTypeOK
<1>8. n \in {"FOOD", "WARMTH", "WATER", "REST", "COMFORT"} /\ (n = "COMFORT" => who = "house")
  BY <1>2 DEF Wants, Need
<1> QED BY <1>4, <1>6, <1>7, <1>8 DEF Met, Need

(* Subsistence never grows a research prerequisite: whatever a life is     *)
(* denied that is not the ground it feeds on, study, trade, its neighbours *)
(* or any rank, once it has done what it can all it wants is answered, in  *)
(* the open seasons and in the winter that takes what does not last.       *)
THEOREM SurvivalIsFreeHolds == LifeSpec => []SurvivalIsFree
<1>1. LifeInit => LifeTypeOK /\ Provided
  BY StartsTyped, StartsProvided
<1>2. LifeTypeOK /\ Provided => SurvivalIsFree
  BY Survives
<1> QED BY <1>1, <1>2, StaysTyped, StaysProvided, PTL DEF LifeSpec

-----------------------------------------------------------------------------
(* The ladder.  What each study asks for, a life that has settled has.     *)
LEMMA DigsClay ==
  ASSUME LifeTypeOK, Settled, who = "house", "LABOR" \in held, "RIVER" \in Grounds
  PROVE  "CLAY" \in held
<1>1. "DIG_CLAY" \in Errands[who] /\ "DIG_CLAY" \in DOMAIN Gathering /\ Gathering \in Chapters
  BY FactsOfTheBook, Pages DEF Errands, LifeTypeOK, Home, Chapters
<1>2. Recipes["DIG_CLAY"] = At(Plain({"LABOR"}, {"CLAY"}), "RIVER")
  BY <1>1, FactsOfTheBook DEF Gathering
<1>3. {"CLAY"} \in SUBSET Good
  BY DEF Good, Fresh, Keeping, Capital, Worked, Kit, Trophies
<1> DEFINE r0 == Plain({"LABOR"}, {"CLAY"})
<1>4. Ready(r0) /\ Recipe(r0) /\ r0.out = {"CLAY"}
  BY <1>3, PlainReady
<1> DEFINE r1 == At(r0, "RIVER")
<1>5. Ready(r1) /\ r1.out = {"CLAY"}
  BY <1>4, AtReady, AtKeeps
<1>6. Recipes["DIG_CLAY"] = r1
  BY <1>2
<1> HIDE DEF r0, r1
<1> QED BY <1>1, <1>5, <1>6, WhatCanBeDone

LEMMA DigsSalt ==
  ASSUME LifeTypeOK, Settled, who = "house", "LABOR" \in held, "SALT" \in Grounds
  PROVE  "SALT" \in held
<1>1. "DIG_SALT" \in Errands[who] /\ "DIG_SALT" \in DOMAIN FarValley /\ FarValley \in Chapters
  BY FactsOfTheBook, Pages DEF Errands, LifeTypeOK, Home, Chapters
<1>2. Recipes["DIG_SALT"] = At(Plain({"LABOR"}, {"SALT"}), "SALT")
  BY <1>1, FactsOfTheBook DEF FarValley
<1>3. {"SALT"} \in SUBSET Good
  BY DEF Good, Fresh, Keeping, Capital, Worked, Kit, Trophies
<1> DEFINE r0 == Plain({"LABOR"}, {"SALT"})
<1>4. Ready(r0) /\ Recipe(r0) /\ r0.out = {"SALT"}
  BY <1>3, PlainReady
<1> DEFINE r1 == At(r0, "SALT")
<1>5. Ready(r1) /\ r1.out = {"SALT"}
  BY <1>4, AtReady, AtKeeps
<1>6. Recipes["DIG_SALT"] = r1
  BY <1>2
<1> HIDE DEF r0, r1
<1> QED BY <1>1, <1>5, <1>6, WhatCanBeDone

LEMMA Learns_KNAPPING ==
  ASSUME LifeTypeOK, Settled, who = "house", WholeHours, bar \cap {"KNAPPING", "STUDY"} = {},
         Prerequisite["KNAPPING"] \subseteq known, "FLINT" \in Grounds, {"FLINT", "LABOR"} \subseteq held
  PROVE  "KNAPPING" \in known
<1>1. "STUDY_KNAPPING" \in Errands[who] /\ "STUDY_KNAPPING" \in DOMAIN Studies /\ Studies \in Chapters
  BY FactsOfTheBook, Pages DEF Errands, LifeTypeOK, Home, Chapters
<1> DEFINE r == Study({"FLINT", "LABOR"}, "FLINT", "KNAPPING")
<1>2. Recipes["STUDY_KNAPPING"] = Relaxed(r)
  BY <1>1, FactsOfTheBook DEF Studies, Relaxed
<1>3. "KNAPPING" \in Rank /\ {"KNAPPING", "STUDY"} \cap bar = {}
  BY DEF Rank, Prerequisite
<1>4. Ready(r) /\ r.unlocks = {"KNAPPING"} /\ Recipe(r)
  BY <1>3, StudyReady, StudyKeeps DEF Fit
<1> HIDE DEF r
<1>5. Ready(Relaxed(r)) /\ Relaxed(r).unlocks = {"KNAPPING"}
  BY <1>4, RelaxedReady
<1> QED BY <1>1, <1>2, <1>5, WhatCanBeDone

LEMMA Learns_FIRE_HARDENING ==
  ASSUME LifeTypeOK, Settled, who = "house", WholeHours, bar \cap {"FIRE_HARDENING", "STUDY"} = {},
         Prerequisite["FIRE_HARDENING"] \subseteq known, "HEARTH" \in Grounds, {"WOOD", "FLINT"} \subseteq held
  PROVE  "FIRE_HARDENING" \in known
<1>1. "STUDY_FIRE" \in Errands[who] /\ "STUDY_FIRE" \in DOMAIN Studies /\ Studies \in Chapters
  BY FactsOfTheBook, Pages DEF Errands, LifeTypeOK, Home, Chapters
<1> DEFINE r == Study({"WOOD", "FLINT"}, "HEARTH", "FIRE_HARDENING")
<1>2. Recipes["STUDY_FIRE"] = r
  BY <1>1, FactsOfTheBook DEF Studies
<1>3. "FIRE_HARDENING" \in Rank /\ {"FIRE_HARDENING", "STUDY"} \cap bar = {}
  BY DEF Rank, Prerequisite
<1>4. Ready(r) /\ r.unlocks = {"FIRE_HARDENING"} /\ Recipe(r)
  BY <1>3, StudyReady, StudyKeeps DEF Fit
<1> HIDE DEF r
<1> QED BY <1>1, <1>2, <1>4, WhatCanBeDone

LEMMA Learns_TANNING ==
  ASSUME LifeTypeOK, Settled, who = "house", WholeHours, bar \cap {"TANNING", "STUDY"} = {},
         Prerequisite["TANNING"] \subseteq known, "HEARTH" \in Grounds, {"YARN", "PELT"} \subseteq held
  PROVE  "TANNING" \in known
<1>1. "STUDY_TANNING" \in Errands[who] /\ "STUDY_TANNING" \in DOMAIN Studies /\ Studies \in Chapters
  BY FactsOfTheBook, Pages DEF Errands, LifeTypeOK, Home, Chapters
<1> DEFINE r == Study({"YARN", "PELT"}, "HEARTH", "TANNING")
<1>2. Recipes["STUDY_TANNING"] = r
  BY <1>1, FactsOfTheBook DEF Studies
<1>3. "TANNING" \in Rank /\ {"TANNING", "STUDY"} \cap bar = {}
  BY DEF Rank, Prerequisite
<1>4. Ready(r) /\ r.unlocks = {"TANNING"} /\ Recipe(r)
  BY <1>3, StudyReady, StudyKeeps DEF Fit
<1> HIDE DEF r
<1> QED BY <1>1, <1>2, <1>4, WhatCanBeDone

LEMMA Learns_POTTERY ==
  ASSUME LifeTypeOK, Settled, who = "house", WholeHours, bar \cap {"POTTERY", "STUDY"} = {},
         Prerequisite["POTTERY"] \subseteq known, "RIVER" \in Grounds, {"CLAY", "WOOD"} \subseteq held
  PROVE  "POTTERY" \in known
<1>1. "STUDY_POTTERY" \in Errands[who] /\ "STUDY_POTTERY" \in DOMAIN Studies /\ Studies \in Chapters
  BY FactsOfTheBook, Pages DEF Errands, LifeTypeOK, Home, Chapters
<1> DEFINE r == Study({"CLAY", "WOOD"}, "RIVER", "POTTERY")
<1>2. Recipes["STUDY_POTTERY"] = r
  BY <1>1, FactsOfTheBook DEF Studies
<1>3. "POTTERY" \in Rank /\ {"POTTERY", "STUDY"} \cap bar = {}
  BY DEF Rank, Prerequisite
<1>4. Ready(r) /\ r.unlocks = {"POTTERY"} /\ Recipe(r)
  BY <1>3, StudyReady, StudyKeeps DEF Fit
<1> HIDE DEF r
<1> QED BY <1>1, <1>2, <1>4, WhatCanBeDone

LEMMA Learns_ALCHEMY ==
  ASSUME LifeTypeOK, Settled, who = "house", WholeHours, bar \cap {"ALCHEMY", "STUDY"} = {},
         Prerequisite["ALCHEMY"] \subseteq known, "HEARTH" \in Grounds, {"HERB", "WOOD"} \subseteq held
  PROVE  "ALCHEMY" \in known
<1>1. "STUDY_ALCHEMY" \in Errands[who] /\ "STUDY_ALCHEMY" \in DOMAIN Studies /\ Studies \in Chapters
  BY FactsOfTheBook, Pages DEF Errands, LifeTypeOK, Home, Chapters
<1> DEFINE r == Study({"HERB", "WOOD"}, "HEARTH", "ALCHEMY")
<1>2. Recipes["STUDY_ALCHEMY"] = r
  BY <1>1, FactsOfTheBook DEF Studies
<1>3. "ALCHEMY" \in Rank /\ {"ALCHEMY", "STUDY"} \cap bar = {}
  BY DEF Rank, Prerequisite
<1>4. Ready(r) /\ r.unlocks = {"ALCHEMY"} /\ Recipe(r)
  BY <1>3, StudyReady, StudyKeeps DEF Fit
<1> HIDE DEF r
<1> QED BY <1>1, <1>2, <1>4, WhatCanBeDone

LEMMA Learns_APIARY ==
  ASSUME LifeTypeOK, Settled, who = "house", WholeHours, bar \cap {"APIARY", "STUDY"} = {},
         Prerequisite["APIARY"] \subseteq known, "HEARTH" \in Grounds, {"YARN", "WOOD"} \subseteq held
  PROVE  "APIARY" \in known
<1>1. "STUDY_APIARY" \in Errands[who] /\ "STUDY_APIARY" \in DOMAIN Studies /\ Studies \in Chapters
  BY FactsOfTheBook, Pages DEF Errands, LifeTypeOK, Home, Chapters
<1> DEFINE r == Study({"YARN", "WOOD"}, "HEARTH", "APIARY")
<1>2. Recipes["STUDY_APIARY"] = r
  BY <1>1, FactsOfTheBook DEF Studies
<1>3. "APIARY" \in Rank /\ {"APIARY", "STUDY"} \cap bar = {}
  BY DEF Rank, Prerequisite
<1>4. Ready(r) /\ r.unlocks = {"APIARY"} /\ Recipe(r)
  BY <1>3, StudyReady, StudyKeeps DEF Fit
<1> HIDE DEF r
<1> QED BY <1>1, <1>2, <1>4, WhatCanBeDone

LEMMA Learns_FLETCHING ==
  ASSUME LifeTypeOK, Settled, who = "house", WholeHours, bar \cap {"FLETCHING", "STUDY"} = {},
         Prerequisite["FLETCHING"] \subseteq known, "HEARTH" \in Grounds, {"FEATHER", "WOOD"} \subseteq held
  PROVE  "FLETCHING" \in known
<1>1. "STUDY_FLETCHING" \in Errands[who] /\ "STUDY_FLETCHING" \in DOMAIN Studies /\ Studies \in Chapters
  BY FactsOfTheBook, Pages DEF Errands, LifeTypeOK, Home, Chapters
<1> DEFINE r == Study({"FEATHER", "WOOD"}, "HEARTH", "FLETCHING")
<1>2. Recipes["STUDY_FLETCHING"] = r
  BY <1>1, FactsOfTheBook DEF Studies
<1>3. "FLETCHING" \in Rank /\ {"FLETCHING", "STUDY"} \cap bar = {}
  BY DEF Rank, Prerequisite
<1>4. Ready(r) /\ r.unlocks = {"FLETCHING"} /\ Recipe(r)
  BY <1>3, StudyReady, StudyKeeps DEF Fit
<1> HIDE DEF r
<1> QED BY <1>1, <1>2, <1>4, WhatCanBeDone

LEMMA Learns_BONEWORK ==
  ASSUME LifeTypeOK, Settled, who = "house", WholeHours, bar \cap {"BONEWORK", "STUDY"} = {},
         Prerequisite["BONEWORK"] \subseteq known, "FLINT" \in Grounds, {"BONE", "FLINT"} \subseteq held
  PROVE  "BONEWORK" \in known
<1>1. "STUDY_BONEWORK" \in Errands[who] /\ "STUDY_BONEWORK" \in DOMAIN Studies /\ Studies \in Chapters
  BY FactsOfTheBook, Pages DEF Errands, LifeTypeOK, Home, Chapters
<1> DEFINE r == Study({"BONE", "FLINT"}, "FLINT", "BONEWORK")
<1>2. Recipes["STUDY_BONEWORK"] = r
  BY <1>1, FactsOfTheBook DEF Studies
<1>3. "BONEWORK" \in Rank /\ {"BONEWORK", "STUDY"} \cap bar = {}
  BY DEF Rank, Prerequisite
<1>4. Ready(r) /\ r.unlocks = {"BONEWORK"} /\ Recipe(r)
  BY <1>3, StudyReady, StudyKeeps DEF Fit
<1> HIDE DEF r
<1> QED BY <1>1, <1>2, <1>4, WhatCanBeDone

LEMMA Learns_LEATHERWORK ==
  ASSUME LifeTypeOK, Settled, who = "house", WholeHours, bar \cap {"LEATHERWORK", "STUDY"} = {},
         Prerequisite["LEATHERWORK"] \subseteq known, "HEARTH" \in Grounds, {"PELT", "WATER"} \subseteq held
  PROVE  "LEATHERWORK" \in known
<1>1. "STUDY_LEATHERWORK" \in Errands[who] /\ "STUDY_LEATHERWORK" \in DOMAIN Studies /\ Studies \in Chapters
  BY FactsOfTheBook, Pages DEF Errands, LifeTypeOK, Home, Chapters
<1> DEFINE r == Study({"PELT", "WATER"}, "HEARTH", "LEATHERWORK")
<1>2. Recipes["STUDY_LEATHERWORK"] = r
  BY <1>1, FactsOfTheBook DEF Studies
<1>3. "LEATHERWORK" \in Rank /\ {"LEATHERWORK", "STUDY"} \cap bar = {}
  BY DEF Rank, Prerequisite
<1>4. Ready(r) /\ r.unlocks = {"LEATHERWORK"} /\ Recipe(r)
  BY <1>3, StudyReady, StudyKeeps DEF Fit
<1> HIDE DEF r
<1> QED BY <1>1, <1>2, <1>4, WhatCanBeDone

LEMMA Learns_SALT_CURING ==
  ASSUME LifeTypeOK, Settled, who = "house", WholeHours, bar \cap {"SALT_CURING", "STUDY"} = {},
         Prerequisite["SALT_CURING"] \subseteq known, "POST" \in Grounds, {"SALT"} \subseteq held
  PROVE  "SALT_CURING" \in known
<1>1. "STUDY_SALT" \in Errands[who] /\ "STUDY_SALT" \in DOMAIN Studies /\ Studies \in Chapters
  BY FactsOfTheBook, Pages DEF Errands, LifeTypeOK, Home, Chapters
<1> DEFINE r == Study({"SALT"}, "POST", "SALT_CURING")
<1>2. Recipes["STUDY_SALT"] = r
  BY <1>1, FactsOfTheBook DEF Studies
<1>3. "SALT_CURING" \in Rank /\ {"SALT_CURING", "STUDY"} \cap bar = {}
  BY DEF Rank, Prerequisite
<1>4. Ready(r) /\ r.unlocks = {"SALT_CURING"} /\ Recipe(r)
  BY <1>3, StudyReady, StudyKeeps DEF Fit
<1> HIDE DEF r
<1> QED BY <1>1, <1>2, <1>4, WhatCanBeDone

(* The whole map is open to whom no place is denied.                       *)
LEMMA AllGroundIsReached ==
  ASSUME who = "house", bar \cap Place = {}
  PROVE  {"HEARTH", "THICKET", "RIVER", "FLINT", "POST", "SALT"} \subseteq Grounds
<1> USE DEF Place, Kind, Roads
<1> DEFINE T0 == {Home[who]}
           T1 == Onward(T0)
           T2 == Onward(T1)
           T3 == Onward(T2)
           T4 == Onward(T3)
<1>1. {"HEARTH", "THICKET", "RIVER", "FLINT", "POST"} \subseteq T1
  BY OnwardGoes, OnwardKeeps DEF Home
<1> HIDE DEF T1
<1>2. {"HEARTH", "THICKET", "RIVER", "FLINT", "POST", "RIDGE_PASS"} \subseteq T2
  BY <1>1, OnwardGoes, OnwardKeeps
<1> HIDE DEF T2
<1>3. {"HEARTH", "THICKET", "RIVER", "FLINT", "POST", "SALT_LICK"} \subseteq T3
  BY <1>2, OnwardGoes, OnwardKeeps
<1> HIDE DEF T3
<1>4. {"HEARTH", "THICKET", "RIVER", "FLINT", "POST", "SALT_LICK"} \subseteq Reach
  <2>1. Reach = Onward(Onward(Onward(Onward(Onward(T3)))))
    BY ReachIs DEF T1, T2, T3
  <2> QED BY <1>3, <2>1, OnwardKeeps
<1> QED BY <1>4 DEF Grounds

(* Who leans on what.                                                      *)
LEMMA Rungs ==
  ASSUME NEW T
  PROVE  /\ "KNAPPING" \in Upward(T) <=> "KNAPPING" \in T
         /\ "APIARY" \in Upward(T) <=> "APIARY" \in T \/ "KNAPPING" \in T
         /\ "FIRE_HARDENING" \in Upward(T) <=> "FIRE_HARDENING" \in T \/ "KNAPPING" \in T
         /\ "TANNING" \in Upward(T) <=> "TANNING" \in T
         /\ "POTTERY" \in Upward(T) <=> "POTTERY" \in T \/ "FIRE_HARDENING" \in T
         /\ "ALCHEMY" \in Upward(T) <=> "ALCHEMY" \in T \/ "POTTERY" \in T
         /\ "FLETCHING" \in Upward(T) <=> "FLETCHING" \in T \/ "FIRE_HARDENING" \in T
         /\ "BONEWORK" \in Upward(T) <=> "BONEWORK" \in T \/ "KNAPPING" \in T
         /\ "LEATHERWORK" \in Upward(T) <=> "LEATHERWORK" \in T \/ "TANNING" \in T
         /\ "SALT_CURING" \in Upward(T) <=> "SALT_CURING" \in T
BY DEF Upward, Rank, Prerequisite

LEMMA AboveItself ==
  ASSUME NEW t \in Rank
  PROVE  t \in Above(t)
BY DEF Above, Upward

(* What is above is above by what it leans on, and no ladder goes further. *)
LEMMA AboveLeans ==
  ASSUME NEW t \in Rank, NEW r \in Above(t), r # t
  PROVE  Prerequisite[r] \cap Above(t) # {}
BY DEF Above, Upward

LEMMA AboveIsClosed ==
  ASSUME NEW t \in Rank, NEW r \in Rank, Prerequisite[r] \cap Above(t) # {}
  PROVE  r \in Above(t)
<1> DEFINE T1 == Upward({t})
           T2 == Upward(T1)
           T3 == Upward(T2)
           T4 == Upward(T3)
           T5 == Upward(T4)
<1>1. r \in T5
  BY DEF Above, Upward
<1>2. r \in {"KNAPPING", "APIARY", "FIRE_HARDENING", "TANNING", "POTTERY", "ALCHEMY", "FLETCHING", "BONEWORK", "LEATHERWORK", "SALT_CURING"}
  BY DEF Rank, Prerequisite
<1> HIDE DEF T1, T2, T3, T4, T5
<1>3. r \in T4
  BY <1>1, <1>2, Rungs DEF T1, T2, T3, T4, T5
<1> QED BY <1>3 DEF Above, T1, T2, T3, T4

(* A denied rank is never held, nor one above it.                          *)
Denied ==
  who = "house" => \A t \in bar \cap Rank : Above(t) \cap known = {}

LEMMA StaysDenied == LifeTypeOK /\ Denied /\ [LifeNext]_lifeVars => Denied'
<1> SUFFICES ASSUME LifeTypeOK, Denied, [LifeNext]_lifeVars, who' = "house",
                    NEW t \in bar' \cap Rank, NEW r \in Above(t), r \in known'
             PROVE  FALSE
  BY DEF Denied
<1>1. who = "house" /\ bar' = bar
  BY DEF LifeNext, Live, Fight, Turn, Miss, Fester, Fade, lifeVars
<1>2. Above(t) \cap known = {}
  BY <1>1 DEF Denied
<1>3. Live /\ r \in Learnt(Doable)
  BY <1>2 DEF LifeNext, Live, Fight, Turn, Miss, Fester, Fade, lifeVars
<1>4. PICK x \in Doable : r \in Recipes[x].unlocks
  BY <1>3 DEF Learnt, Gained
<1>5. Prerequisite[r] \subseteq known /\ r \notin bar
  BY <1>4 DEF Doable, Ready
<1> QED BY <1>1, <1>2, <1>5, AboveLeans

LEMMA Climbs ==
  ASSUME LifeTypeOK, Denied
  PROVE  LadderClimbs
<1> DEFINE Lost == UNION {Above(t) : t \in bar \cap Rank}
<1> SUFFICES ASSUME who = "house", bar \subseteq Rank \cup {"TRADE"}, season = "OPEN",
                    WholeHours, Settled
             PROVE  Rank \ known = Lost
  BY DEF LadderClimbs
<1>1. Lost \subseteq Rank \ known
  BY DEF Denied, Above, Upward
<1>2. \A r \in Rank \ Lost : r \notin bar /\ Prerequisite[r] \cap Lost = {}
  BY AboveItself, AboveIsClosed
<1>3. bar \cap Place = {} /\ "STUDY" \notin bar /\ "FIGHT" \notin bar
  BY DEF Place, Kind, Rank, Prerequisite
<1>4. "LABOR" \in held /\ {"HEARTH", "THICKET", "RIVER", "FLINT", "POST", "SALT"} \subseteq Grounds
  BY <1>3, AllGroundIsReached DEF WholeHours
<1>5. {"WOOD", "YARN", "FLINT", "HERB"} \subseteq held
  BY <1>4, Gathered
<1>6. {"PELT", "BONE", "FEATHER"} \subseteq held
  BY <1>3 DEF Settled, Spoils, Carcass
<1>7. {"WATER", "CLAY", "SALT"} \subseteq held
  BY <1>4, Drinking, DigsClay, DigsSalt
<1> HIDE DEF Lost
<1> USE <1>2, <1>3, <1>4, <1>5, <1>6, <1>7
<1>8. "KNAPPING" \in Rank \ Lost => "KNAPPING" \in known
  BY Learns_KNAPPING DEF Rank, Prerequisite
<1>9. "TANNING" \in Rank \ Lost => "TANNING" \in known
  BY Learns_TANNING DEF Rank, Prerequisite
<1>10. "SALT_CURING" \in Rank \ Lost => "SALT_CURING" \in known
  BY Learns_SALT_CURING DEF Rank, Prerequisite
<1>11. "FIRE_HARDENING" \in Rank \ Lost => "FIRE_HARDENING" \in known
  BY <1>8, Learns_FIRE_HARDENING DEF Rank, Prerequisite
<1>12. "APIARY" \in Rank \ Lost => "APIARY" \in known
  BY <1>8, Learns_APIARY DEF Rank, Prerequisite
<1>13. "BONEWORK" \in Rank \ Lost => "BONEWORK" \in known
  BY <1>8, Learns_BONEWORK DEF Rank, Prerequisite
<1>14. "LEATHERWORK" \in Rank \ Lost => "LEATHERWORK" \in known
  BY <1>9, Learns_LEATHERWORK DEF Rank, Prerequisite
<1>15. "POTTERY" \in Rank \ Lost => "POTTERY" \in known
  BY <1>11, Learns_POTTERY DEF Rank, Prerequisite
<1>16. "FLETCHING" \in Rank \ Lost => "FLETCHING" \in known
  BY <1>11, Learns_FLETCHING DEF Rank, Prerequisite
<1>17. "ALCHEMY" \in Rank \ Lost => "ALCHEMY" \in known
  BY <1>15, Learns_ALCHEMY DEF Rank, Prerequisite
<1>18. Rank \ Lost \subseteq known
  BY <1>8, <1>9, <1>10, <1>11, <1>12, <1>13, <1>14, <1>15, <1>16, <1>17 DEF Rank, Prerequisite
<1> QED BY <1>1, <1>18

(* A rank denied takes down the ranks above it and no others: in the open  *)
(* seasons, with whole hours to work and nothing else denied but trade,    *)
(* every other rank is learnt, each study being paid for with what the     *)
(* ranks under it and free hands bring.                                    *)
THEOREM LadderClimbsHolds == LifeSpec => []LadderClimbs
<1>1. LifeInit => LifeTypeOK
  BY StartsTyped
<1>2. LifeInit => Denied
  BY DEF LifeInit, Denied, Gifts
<1>3. LifeTypeOK /\ Denied => LadderClimbs
  BY Climbs
<1> QED BY <1>1, <1>2, <1>3, StaysTyped, StaysDenied, PTL DEF LifeSpec

=============================================================================
