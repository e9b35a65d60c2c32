------------------------------ MODULE Behaviour ------------------------------
(***************************************************************************)
(* The BEHAVIOUR scripts of one entity: the owner's edits                  *)
(* (services.set_entity_behaviour), legislated lineages (set_script), the  *)
(* operator's script endpoints, and the script pass of a tick with its     *)
(* crash revert (tick.py).                                                 *)
(*                                                                         *)
(* Rows are numbered in the order they are created.  An edit reads the     *)
(* active rows before its first write and so, under SQLite, before it has  *)
(* the writer's lock; its writes and its commit are one step.  A tick      *)
(* reads the list of active scripts, also before its first write, and then *)
(* holds the lock from the first script that runs to the last: a read by   *)
(* somebody else in between sees what a read before it would have seen.    *)
(***************************************************************************)
EXTENDS Integers, FiniteSets

CONSTANTS
  MaxScripts,   \* bounds the rows ever created
  MaxShared,    \* bounds them where others than the owner write
  Threshold,    \* CRASH_REVERT_TICKS
  Law,          \* legislated BEHAVIOUR lineages bound to the entity
  Own,          \* the owner's lineage, "behaviour:{id}"
  Editor,       \* sessions in which the owner edits
  Admin,        \* which of "switch", "delete" the operator uses
  Sharing,      \* the worlds looked at: left to the owner, or shared
  Budget,       \* is there a compute budget that may skip a script?
  Quality,      \* the kinds of source written: "sound" never crashes,
                \* "broken" always does, "fragile" may
  SharedQuality \* those written in a shared world

Id == 1..MaxScripts
Lineage == Law \cup {Own}

ASSUME BehaviourAssumption ==
  /\ MaxScripts \in Nat
  /\ Threshold \in Nat \ {0}
  /\ Own \notin Law
  /\ "spawned" \notin Lineage  \* the row an entity spawned with has none
  /\ Admin \subseteq {"switch", "delete"}
  /\ Sharing \subseteq BOOLEAN
  /\ Budget \in BOOLEAN
  /\ Quality \subseteq {"sound", "fragile", "broken"}
  /\ SharedQuality \subseteq Quality

VARIABLES
  shared,   \* do laws and the operator write too, and do requests overlap?
  made,     \* rows created so far
  kept,     \* rows not deleted
  active,   \* rows with is_active
  lineage, number, quality, streak,   \* columns, by row
  phase,    \* the tick: "rest", "read" (list in hand) or "run" (lock held)
  due,      \* listed scripts it has yet to run
  hand,     \* editors between their read and their write
  seen,     \* the active rows an editor read
  counted,  \* the rows of the lineage it counted, if nothing is to retire
  crashes,  \* history: crashes in a row since the row was last activated
  switched, \* history: rows switched on with an old streak, until it ends
  alone     \* history: has the last edit replaced just what was active,
            \* and has nobody but it switched a row since?

tick == <<phase, due>>
edits == <<hand, seen, counted>>
rows == <<made, kept, lineage, number, quality>>
past == <<crashes, switched, alone>>
vars == <<shared, rows, active, streak, tick, edits, past>>

Room == IF shared THEN MaxShared ELSE MaxScripts
Sources == IF shared THEN SharedQuality ELSE Quality

Count(l) == Cardinality({i \in kept : lineage[i] = l})

-----------------------------------------------------------------------------
(* Creating a row.                                                         *)

(* Mutant: the version number counts the active rows only.                 *)
FreshNumberActive(l) == Cardinality({i \in active : lineage[i] = l}) + 1

(* {lineage}#{n}: the count of the lineage's rows, and one.                *)
FreshNumber(l) == Count(l) + 1

(* Mutant: names are not unique in the table.                              *)
NameTaken(l, n) == FALSE

(* The name of a row is unique among the rows there are.                   *)
Taken(l, n) == \E i \in kept : lineage[i] = l /\ number[i] = n

(* A new active row n of lineage l; the retired ones are switched off.     *)
Insert(l, n, retired, q) ==
  LET new == made + 1 IN
  /\ new \in Id
  /\ made' = new
  /\ kept' = kept \cup {new}
  /\ active' = (active \ retired) \cup {new}
  /\ lineage' = [lineage EXCEPT ![new] = l]
  /\ number' = [number EXCEPT ![new] = n]
  /\ quality' = [quality EXCEPT ![new] = q]
  /\ streak' = [streak EXCEPT ![new] = 0]
  /\ crashes' = [crashes EXCEPT ![new] = 0]
  /\ switched' = switched \ retired

-----------------------------------------------------------------------------
(* The owner's edit.                                                       *)

EditReads(e) ==
  /\ e \notin hand
  /\ made + Cardinality(hand) < Room
  /\ phase # "run"
  /\ ~shared => hand = {} /\ phase = "rest"
  /\ hand' = hand \cup {e}
  /\ seen' = [seen EXCEPT ![e] = active]
  /\ counted' = [counted EXCEPT ![e] = Count(Own)]
  /\ UNCHANGED <<rows, active, streak, tick, past>>

Done(e) ==
  /\ hand' = hand \ {e}
  /\ seen' = [seen EXCEPT ![e] = {}]
  /\ counted' = [counted EXCEPT ![e] = 0]

(* Mutant: an edit retires the owner's own lineage only.                   *)
RetiredOwn(e) == {i \in seen[e] : lineage[i] = Own}

(* Every BEHAVIOUR the edit found active is retired, whatever its lineage. *)
Retired(e) == seen[e]

(* Retiring a row takes the lock before the count; with none to retire the *)
(* count was made without it.                                              *)
EditNumber(e) == IF Retired(e) = {} THEN counted[e] + 1 ELSE FreshNumber(Own)

EditWrites(e, q) ==
  /\ e \in hand
  /\ phase # "run"
  /\ ~Taken(Own, EditNumber(e))
  /\ Insert(Own, EditNumber(e), Retired(e), q)
  /\ Done(e)
  /\ alone' = (seen[e] = active)
  /\ UNCHANGED tick

(* The name is taken: the request rolls back.                              *)
EditFails(e) ==
  /\ e \in hand
  /\ phase # "run"
  /\ Taken(Own, EditNumber(e))
  /\ Done(e)
  /\ UNCHANGED <<rows, active, streak, tick, past>>

(* set_script retires one active row of the lineage, if there is one.      *)
Enact(l, q) ==
  /\ shared
  /\ phase = "rest"
  /\ made + Cardinality(hand) < Room
  /\ ~Taken(l, FreshNumber(l))
  /\ LET current == {i \in active : lineage[i] = l} IN
       \/ current = {} /\ Insert(l, FreshNumber(l), {}, q)
       \/ \E i \in current : Insert(l, FreshNumber(l), {i}, q)
  /\ alone' = FALSE
  /\ UNCHANGED <<tick, edits>>

-----------------------------------------------------------------------------
(* The operator's endpoints, between ticks and edits.                      *)

Quiet == shared /\ phase = "rest" /\ hand = {}

(* Only is_active is written: a streak from before stays.                  *)
Switch(i) ==
  /\ "switch" \in Admin
  /\ Quiet
  /\ \/ /\ i \in active
        /\ active' = active \ {i}
        /\ switched' = switched \ {i}
     \/ /\ i \notin active
        /\ active' = active \cup {i}
        /\ switched' = switched \cup {i}
  /\ crashes' = [crashes EXCEPT ![i] = 0]
  /\ alone' = FALSE
  /\ UNCHANGED <<rows, streak, tick, edits>>

Delete(i) ==
  /\ "delete" \in Admin
  /\ Quiet
  /\ kept' = kept \ {i}
  /\ active' = active \ {i}
  /\ alone' = (alone /\ i \notin active)
  /\ switched' = switched \ {i}
  /\ UNCHANGED <<made, lineage, number, quality, streak, tick, edits, crashes>>

-----------------------------------------------------------------------------
(* The tick.                                                               *)

(* The list is read once; a tick without scripts is not a step.            *)
TickReads ==
  /\ phase = "rest"
  /\ ~shared => hand = {}
  /\ active # {}
  /\ phase' = "read"
  /\ due' = active
  /\ UNCHANGED <<rows, active, streak, edits, past>>

(* Scripts run in the order they were created.                             *)
NextUp(i) ==
  /\ phase # "rest"
  /\ i \in due
  /\ \A j \in due : i <= j

Ran(i) ==
  /\ due' = due \ {i}
  /\ phase' = IF due = {i} THEN "rest" ELSE "run"

Smaller(a, b) == IF a < b THEN a ELSE b

(* A clean run ends the streak.                                            *)
Succeed(i) ==
  /\ NextUp(i)
  /\ quality[i] # "broken"
  /\ streak' = [streak EXCEPT ![i] = 0]
  /\ crashes' = [crashes EXCEPT ![i] = 0]
  /\ switched' = switched \ {i}
  /\ Ran(i)
  /\ UNCHANGED <<rows, active, edits, alone>>

(* Over its compute budget, a script is not run and its streak stays.      *)
Skip(i) ==
  /\ Budget /\ shared
  /\ NextUp(i)
  /\ Ran(i)
  /\ UNCHANGED <<rows, active, streak, edits, past>>

(* Mutant: the streak is not kept from one tick to the next.               *)
CountedAnew(i) == 1

(* The streak with this crash; past the threshold its value tells nothing. *)
Counted(i) == Smaller(streak[i] + 1, Threshold)

Others(i) == kept \ {i}

(* The entity's most recent other behaviour, of whatever lineage.          *)
Newest(S) == CHOOSE n \in S : \A m \in S : m <= n
Fallback(i) == Newest(Others(i))

Crashes(i) ==
  /\ NextUp(i)
  /\ quality[i] # "sound"
  /\ Ran(i)

(* Under the threshold, or with nothing to fall back to, it limps along.   *)
Limp(i) ==
  /\ Crashes(i)
  /\ Counted(i) < Threshold \/ Others(i) = {}
  /\ streak' = [streak EXCEPT ![i] = Counted(i)]
  /\ crashes' = [crashes EXCEPT ![i] = Smaller(@ + 1, Threshold)]
  /\ UNCHANGED <<rows, active, edits, switched, alone>>

(* Mutant: the crasher is switched off and nothing is switched on.         *)
RevertedOff(i) == active \ {i}

Reverted(i) == (active \ {i}) \cup {Fallback(i)}

FreshStreaks(i) == [streak EXCEPT ![i] = 0, ![Fallback(i)] = 0]

(* The crasher is switched off and the fallback on, both with a fresh      *)
(* streak.                                                                 *)
Revert(i) ==
  /\ Crashes(i)
  /\ Counted(i) = Threshold
  /\ Others(i) # {}
  /\ active' = Reverted(i)
  /\ streak' = FreshStreaks(i)
  /\ crashes' = [crashes EXCEPT ![i] = 0, ![Fallback(i)] = 0]
  /\ switched' = switched \ {i, Fallback(i)}
  /\ UNCHANGED <<rows, edits, alone>>

RunNext == \E i \in Id : Succeed(i) \/ Skip(i) \/ Limp(i) \/ Revert(i)

-----------------------------------------------------------------------------
(* An entity begins without a behaviour, or with the one it spawned with.  *)
Init ==
  /\ shared \in Sharing
  /\ made \in {0, 1} /\ made <= MaxScripts
  /\ kept = 1..made
  /\ active = 1..made
  /\ lineage = [i \in Id |-> "spawned"]
  /\ number = [i \in Id |-> 0]
  /\ quality \in {[i \in Id |-> q] : q \in Sources}
  /\ streak = [i \in Id |-> 0]
  /\ phase = "rest"
  /\ due = {}
  /\ hand = {}
  /\ seen = [e \in Editor |-> {}]
  /\ counted = [e \in Editor |-> 0]
  /\ crashes = [i \in Id |-> 0]
  /\ switched = {}
  /\ alone = TRUE

Step ==
  \/ \E e \in Editor : EditReads(e) \/ EditFails(e)
  \/ \E e \in Editor, q \in Sources : EditWrites(e, q)
  \/ \E l \in Law, q \in Sources : Enact(l, q)
  \/ \E i \in kept : Switch(i) \/ Delete(i)
  \/ TickReads
  \/ RunNext

Next == Step /\ UNCHANGED shared

Spec == Init /\ [][Next]_vars

(* The world goes on ticking, a tick visits every script it listed, and a  *)
(* request in hand is answered.                                            *)
EditEnds == \E e \in Editor : EditFails(e) \/ \E q \in Sources : EditWrites(e, q)

FairSpec == /\ Spec
            /\ WF_vars(TickReads /\ UNCHANGED shared)
            /\ WF_vars(RunNext /\ UNCHANGED shared)
            /\ WF_vars(EditEnds /\ UNCHANGED shared)

-----------------------------------------------------------------------------
(* Types; what is listed or seen exists; names are unique; no streak is    *)
(* past the threshold.                                                     *)
TypeOK ==
  /\ made \in 0..MaxScripts
  /\ kept \subseteq 1..made
  /\ active \subseteq kept
  /\ lineage \in [Id -> Lineage \cup {"spawned"}]
  /\ number \in [Id -> Nat]
  /\ quality \in [Id -> Quality]
  /\ streak \in [Id -> 0..Threshold]
  /\ phase \in {"rest", "read", "run"}
  /\ due \subseteq kept
  /\ phase = "rest" <=> due = {}
  /\ hand \subseteq Editor
  /\ seen \in [Editor -> SUBSET kept]
  /\ \A e \in Editor : e \notin hand => seen[e] = {}
  /\ counted \in [Editor -> Nat]
  /\ crashes \in [Id -> 0..Threshold]
  /\ switched \subseteq active
  /\ alone \in BOOLEAN
  /\ \A i, j \in kept :
       lineage[i] = lineage[j] /\ number[i] = number[j] => i = j

(* "The entity ends each edit with exactly the script the owner set,       *)
(* whatever path set the previous one" (services.py:806).  False when two  *)
(* requests overlap (each retires the rows it read and adds its own), when *)
(* a law adds a row, when a tick reverts a law's row to the owner's next   *)
(* to the one running, and when the operator switches a row on.            *)
ExactlyOne == made > 0 => \E i \in kept : active = {i}

(* What the code keeps of it: an edit that replaced just what was active   *)
(* ends with exactly the script it set, however many were active before    *)
(* and whoever set them, and one stays active through every tick, crash    *)
(* and revert, of scripts listed before the edit too, and through failed   *)
(* edits and deletions of retired rows, until somebody else switches one.  *)
OneUnlessOverlapped == alone => ExactlyOne

(* Nothing but the operator leaves an entity without a behaviour it had:   *)
(* edits, enactments and crashes that overlap replace each other's rows    *)
(* and never end with none.                                                *)
OperatorSilences ==
  active # {} /\ active' = {} => \E i \in kept : Switch(i) \/ Delete(i)
NeverSilenced == [][OperatorSilences]_vars

(* "Fresh window on re-activation" (tick.py:355).  False of the operator's *)
(* switch, which leaves the streak of the row it switches on.              *)
FreshWindow == \A i \in active : streak[i] = crashes[i]

(* What the code keeps of it: only a row the operator switched on, and     *)
(* that has not run clean or been reverted to since, is given up for       *)
(* crashes of an earlier activation.                                       *)
StreakIsFresh == \A i \in active : streak[i] # crashes[i] => i \in switched

(* "Auto-versioned per row to keep the existing per-row uniqueness"        *)
(* (services.py:687): the next version of a lineage can be named.  False   *)
(* once the operator deleted a row that was not the last: the count then   *)
(* names a version that exists and every edit fails.                       *)
NamesNeverRunOut == \A l \in Lineage : ~Taken(l, FreshNumber(l))

(* What the code keeps of it: the next name is taken only where a version  *)
(* older than the one that has it was deleted.                             *)
NextNameFree ==
  \A l \in Lineage : Taken(l, FreshNumber(l)) =>
    \E i \in (1..made) \ kept, j \in kept :
      lineage[i] = l /\ lineage[j] = l /\ number[i] < number[j]

(* Whoever writes next starts afresh but for what the operator did: a      *)
(* streak counts the crashes of this activation and the next version has a *)
(* name of its own, whatever edits overlapped, laws wrote and ticks        *)
(* reverted (_record_crash, set_entity_behaviour).                         *)
NextIsFresh == StreakIsFresh /\ NextNameFree

(* A script that always crashes does not paralyse the entity for ever: it  *)
(* is given up if there is any other to fall back to.                      *)
CrasherStopped ==
  \A i \in Id :
    (~shared /\ i \in active /\ quality[i] = "broken" /\ Others(i) # {}) ~> i \notin active

(* "Reverted engine-side to its last working version" (docs/actors.md:726):*)
(* an entity with a sound version comes to run a script that can work.     *)
LivesOn ==
  (\E i \in kept : quality[i] = "sound") ~>
    (\E i \in active : quality[i] # "broken")
=============================================================================
