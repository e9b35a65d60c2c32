----------------------------- MODULE Land_proofs -----------------------------
(* Theorems about Land, for any map, recipes, facilities and citizens: that *)
(* its rows keep their types and ranges, that land in use stays with its  *)
(* user, that money and goods are conserved, and that a death settles; and  *)
(* about Travel, the roads between its places: that the search finds a    *)
(* cheapest way, and that journeys are walked hop by hop.                  *)
EXTENDS Land, Travel, Totals_proofs

Rows ==
  /\ owner \in [Parcel -> Entity \union {Nobody}]
  /\ bound \in [Run -> Parcel \union {Nobody}]
  /\ alive \subseteq Entity
  /\ pending \in Seq(Intent)

LandInv == Rows /\ PrivateWorks

(* A public facility of the type that the recipe requires.                 *)
InPublic(c, p) == Works[c] # "none" /\ \E f \in On(p, Works[c]) : f \in Public

Held == PrivateWorks' /\ PinnedLandStays /\ Rows'

LEMMA StartIntent ==
  ASSUME NEW i \in Intent, i.op \in {"start", "cancel"}
  PROVE  i.by \in Entity /\ i.recipe \in Recipe
  BY DEF Intent, Seizure

LEMMA StartParcel ==
  ASSUME NEW i \in Intent, i.op = "start"
  PROVE  i.parcel \in Parcel
  BY DEF Intent, Seizure

LEMMA DeedIntent ==
  ASSUME NEW i \in Intent, i.op = "deed"
  PROVE  i.parcel \in Parcel /\ i.to \in Entity
  BY DEF Intent, Seizure

LEMMA SeizeIntent ==
  ASSUME NEW i \in Intent, i.op = "seize"
  PROVE  i \in Seizure
  BY DEF Intent

(* A grant takes no parcel that a run stands on.                           *)
LEMMA GrantHolds ==
  ASSUME LandInv, NEW p \in Parcel, NEW e \in Entity \union {Nobody}, Grant(p, e),
         UNCHANGED <<bound, alive>>, pending' \in Seq(Intent)
  PROVE  Held
<1>1. /\ owner' = [owner EXCEPT ![p] = e]
      /\ \A r \in Run : bound[r] # p
  BY DEF Grant, Pinned
<1>2. /\ Rows'
      /\ \A q \in Parcel : q # p => owner'[q] = owner[q]
  BY <1>1 DEF LandInv, Rows
<1>3. PrivateWorks'
  <2> SUFFICES ASSUME NEW r \in Run, bound[r] # Nobody
               PROVE  owner'[bound[r]] = r[1] \/ InPublic(r[2], bound[r])
    BY DEF PrivateWorks, InPublic
  <2>1. bound[r] \in Parcel /\ bound[r] # p
    BY <1>1 DEF LandInv, Rows
  <2>2. owner[bound[r]] = r[1] \/ InPublic(r[2], bound[r])
    BY DEF LandInv, PrivateWorks, InPublic
  <2> QED BY <2>1, <2>2, <1>2
<1>4. PinnedLandStays
  BY <1>1, <1>2 DEF PinnedLandStays, Pinned
<1> QED BY <1>2, <1>3, <1>4 DEF Held

(* Nor does a seizure, of any parcels.                                     *)
LEMMA SeizeHolds ==
  ASSUME LandInv, NEW i \in Seizure, Seize(i), pending' \in Seq(Intent)
  PROVE  Held
<1>1. /\ i.parcels \in SUBSET Parcel /\ i.to \in Entity
      /\ \A p \in i.parcels : ~Pinned(p)
      /\ owner' = [p \in Parcel |-> IF p \in i.parcels THEN i.to ELSE owner[p]]
      /\ UNCHANGED <<bound, alive>>
  BY DEF Seize, Seizure
<1>2. /\ Rows'
      /\ \A p \in Parcel \ i.parcels : owner'[p] = owner[p]
  BY <1>1 DEF LandInv, Rows
<1>3. \A r \in Run : bound[r] \notin i.parcels
  BY <1>1 DEF Pinned
<1>4. PrivateWorks'
  <2> SUFFICES ASSUME NEW r \in Run, bound[r] # Nobody
               PROVE  owner'[bound[r]] = r[1] \/ InPublic(r[2], bound[r])
    BY <1>1 DEF PrivateWorks, InPublic
  <2>1. bound[r] \in Parcel \ i.parcels
    BY <1>3 DEF LandInv, Rows
  <2>2. owner[bound[r]] = r[1] \/ InPublic(r[2], bound[r])
    BY DEF LandInv, PrivateWorks, InPublic
  <2> QED BY <2>1, <2>2, <1>2
<1>5. PinnedLandStays
  BY <1>1, <1>2 DEF PinnedLandStays
<1> QED BY <1>2, <1>4, <1>5 DEF Held

(* A run binds only what MayBind lets it.                                  *)
LEMMA BindHolds ==
  ASSUME LandInv, NEW e \in Entity, NEW c \in Recipe, NEW p \in Parcel,
         MayBind(e, c, p), bound' = [bound EXCEPT ![<<e, c>>] = p],
         UNCHANGED <<owner, alive>>, pending' \in Seq(Intent)
  PROVE  Held
<1>1. Rows'
  BY DEF LandInv, Rows
<1>2. PrivateWorks'
  <2> SUFFICES ASSUME NEW r \in Run, bound'[r] # Nobody
               PROVE  owner[bound'[r]] = r[1] \/ InPublic(r[2], bound'[r])
    BY DEF PrivateWorks, InPublic
  <2>1. CASE r = <<e, c>>
    <3>1. bound'[r] = p /\ r[1] = e /\ r[2] = c
      BY <2>1 DEF LandInv, Rows
    <3>2. owner[p] = e \/ InPublic(c, p)
      BY DEF MayBind, InPublic
    <3> QED BY <3>1, <3>2
  <2>2. CASE r # <<e, c>>
    <3>1. bound'[r] = bound[r]
      BY <2>2 DEF LandInv, Rows
    <3> QED BY <3>1 DEF LandInv, PrivateWorks, InPublic
  <2> QED BY <2>1, <2>2
<1>3. PinnedLandStays
  BY DEF PinnedLandStays
<1> QED BY <1>1, <1>2, <1>3 DEF Held

(* A run that ends frees its parcel.                                       *)
LEMMA FreeHolds ==
  ASSUME LandInv, NEW r \in Run, bound' = [bound EXCEPT ![r] = Nobody],
         UNCHANGED <<owner, alive>>, pending' \in Seq(Intent)
  PROVE  Held
<1>1. Rows' /\ \A s \in Run : bound'[s] # Nobody => bound'[s] = bound[s]
  BY DEF LandInv, Rows
<1>2. PrivateWorks'
  BY <1>1 DEF LandInv, PrivateWorks
<1>3. PinnedLandStays
  BY DEF PinnedLandStays
<1> QED BY <1>1, <1>2, <1>3 DEF Held

LEMMA StillHolds ==
  ASSUME LandInv, UNCHANGED <<owner, bound, alive>>, pending' \in Seq(Intent)
  PROVE  Held
  BY DEF LandInv, Held, Rows, PrivateWorks, PinnedLandStays

LEMMA ResolveHolds ==
  ASSUME LandInv, NEW i \in Intent, Resolve(i), pending' \in Seq(Intent)
  PROVE  Held
<1>1. CASE Store(i) \/ Unstore(i) \/ Drop(i) \/ PickUp(i)
  BY <1>1, StillHolds DEF Store, Unstore, Drop, PickUp, Rest
<1>2. CASE Pay(i) \/ Levy(i) \/ Issue(i) \/ Retire(i)
  BY <1>2, StillHolds DEF Pay, Levy, Issue, Retire, Move, Supply
<1>3. CASE TransferParcel(i)
  BY <1>3, DeedIntent, GrantHolds DEF TransferParcel
<1>4. CASE Seize(i)
  <2>1. i.op = "seize"
    BY <1>4 DEF Seize
  <2> QED BY <1>4, <2>1, SeizeIntent, SeizeHolds
<1>5. CASE Start(i)
  <2>1. /\ i.op = "start" /\ MayBind(i.by, i.recipe, i.parcel)
        /\ bound' = [bound EXCEPT ![<<i.by, i.recipe>>] = i.parcel]
        /\ UNCHANGED <<owner, alive>>
    BY <1>5 DEF Start
  <2> QED BY <2>1, StartIntent, StartParcel, BindHolds
<1>6. CASE Cancel(i)
  <2>1. /\ i.op = "cancel"
        /\ bound' = [bound EXCEPT ![<<i.by, i.recipe>>] = Nobody]
        /\ UNCHANGED <<owner, alive>>
    BY <1>6 DEF Cancel
  <2>2. <<i.by, i.recipe>> \in Run
    BY <2>1, StartIntent DEF Run
  <2> QED BY <2>1, <2>2, FreeHolds
<1> QED BY <1>1, <1>2, <1>3, <1>4, <1>5, <1>6 DEF Resolve

(* The estate stops the work of the dead and hands over only their land;   *)
(* who works there works in public.                                        *)
LEMMA DieHolds ==
  ASSUME LandInv, NEW e \in Entity, e \in alive, Die(e), UNCHANGED pending
  PROVE  Held
<1>1. /\ alive' = alive \ {e}
      /\ bound' = [r \in Run |-> IF r[1] = e THEN Nobody ELSE bound[r]]
      /\ owner' = [p \in Parcel |-> IF owner[p] = e THEN Recipient(e) ELSE owner[p]]
  BY DEF Die, WorkStops
<1>2. Recipient(e) \in Entity \union {Nobody}
  BY DEF Recipient, LandInv, Rows
<1>3. Rows'
  BY <1>1, <1>2 DEF LandInv, Rows
<1>4. PrivateWorks'
  <2> SUFFICES ASSUME NEW r \in Run, bound'[r] # Nobody
               PROVE  owner'[bound'[r]] = r[1] \/ InPublic(r[2], bound'[r])
    BY DEF PrivateWorks, InPublic
  <2>1. r[1] # e /\ bound'[r] = bound[r] /\ bound[r] \in Parcel
    BY <1>1 DEF LandInv, Rows
  <2>2. owner[bound[r]] = r[1] \/ InPublic(r[2], bound[r])
    BY <2>1 DEF LandInv, PrivateWorks, InPublic
  <2> QED BY <2>1, <2>2, <1>1
<1>5. PinnedLandStays
  <2> SUFFICES ASSUME NEW p \in Parcel, owner'[p] # owner[p]
               PROVE  /\ owner[p] \in alive \ alive'
                      /\ \A r \in Run : bound'[r] = p => r[1] # owner[p] /\ InPublic(r[2], p)
    BY DEF PinnedLandStays, InPublic
  <2>1. owner[p] = e
    BY <1>1 DEF LandInv, Rows
  <2>2. ASSUME NEW r \in Run, bound'[r] = p PROVE r[1] # e /\ InPublic(r[2], p)
    <3>1. r[1] # e /\ bound[r] = p /\ p # Nobody
      BY <1>1, <2>2, LandAssumption
    <3> QED BY <3>1, <2>1 DEF LandInv, PrivateWorks, InPublic
  <2> QED BY <1>1, <2>1, <2>2
<1> QED BY <1>3, <1>4, <1>5 DEF Held

LEMMA StepHolds ==
  ASSUME LandInv, [Next]_vars
  PROVE  Held
<1>0. pending \in Seq(Intent)
  BY DEF LandInv, Rows
<1>1. ASSUME NEW i \in Intent, Submit(i) PROVE Held
  <2>1. pending' \in Seq(Intent) /\ UNCHANGED <<owner, bound, alive>>
    BY <1>0, <1>1 DEF Submit, world
  <2> QED BY <2>1, StillHolds
<1>2. ASSUME NEW i \in Intent, ResolveNow(i) \/ ScriptActs(i) PROVE Held
  BY <1>0, <1>2, ResolveHolds DEF ResolveNow, ScriptActs
<1>3. CASE Drain
  <2>1. pending # <<>> /\ pending' = Tail(pending)
    BY <1>3 DEF Drain
  <2>2. Head(pending) \in Intent /\ pending' \in Seq(Intent)
    BY <1>0, <2>1
  <2>3. Resolve(Head(pending)) \/ UNCHANGED world
    BY <1>3 DEF Drain
  <2>4. CASE UNCHANGED world
    BY <2>2, <2>4, StillHolds DEF world
  <2> QED BY <2>2, <2>3, <2>4, ResolveHolds
<1>4. ASSUME NEW p \in Parcel, NEW e \in Entity \union {Nobody}, Claim(p, e) PROVE Held
  <2>1. Grant(p, e) /\ UNCHANGED <<bound, alive, pending>>
    BY <1>4 DEF Claim
  <2> QED BY <1>0, <2>1, GrantHolds
<1>5. ASSUME NEW r \in Run, Complete(r) PROVE Held
  <2>1. bound' = [bound EXCEPT ![r] = Nobody] /\ UNCHANGED <<owner, alive, pending>>
    BY <1>5 DEF Complete
  <2> QED BY <1>0, <2>1, FreeHolds
<1>6. ASSUME NEW e \in Entity, Incapacitate(e) PROVE Held
  BY <1>6, DieHolds DEF Incapacitate
<1>7. CASE \E e \in Entity, pl \in Place : MoveEntity(e, pl)
  BY <1>0, <1>7, StillHolds DEF MoveEntity, world
<1>8. CASE BeginTick \/ RegenDeposits \/ Dusk \/ EndTick
  BY <1>0, <1>8, StillHolds DEF BeginTick, RegenDeposits, Dusk, EndTick, world
<1>9. CASE UNCHANGED vars
  BY <1>0, <1>9, StillHolds DEF vars, world
<1> QED BY <1>1, <1>2, <1>3, <1>4, <1>5, <1>6, <1>7, <1>8, <1>9 DEF Next

LEMMA InitHolds == Init => LandInv
  BY LandAssumption DEF Init, LandInv, Rows, PrivateWorks, LandAssumption

(* Land in use stays with its user, in every world: whoever works a parcel *)
(* owns it or works at a public facility of the type the recipe requires,  *)
(* and while anybody does, the parcel leaves its owner only by the owner's *)
(* death, and then from under public work of somebody else alone           *)
(* (parcels._change_owner, production.start_process, the estate).          *)
THEOREM LandInUseHolds == Spec => LandInUse
<1>1. LandInv /\ [Next]_vars => LandInv' /\ [PrivateWorks' /\ PinnedLandStays]_vars
  BY StepHolds DEF Held, LandInv
<1>2. Init => LandInv
  BY InitHolds
<1> QED BY <1>1, <1>2, PTL DEF Spec, LandInUse

-----------------------------------------------------------------------------
(* The rest of the world's rows, in parts that most operations leave alone *)
(* all but one of.                                                         *)
Clock ==
  /\ phase \in {"idle", "dawn", "intents", "dusk"}
  /\ ticks \in 0..MaxTicks /\ acts \in 0..MaxActs
  /\ Len(pending) <= MaxPending
  /\ rule \in {"burn", "heir", "treasury"} /\ at \in [Entity -> Place]

Ledger ==
  /\ money \in [Entity -> Nat] /\ buried \in Nat /\ issued \in 0..MaxIssued
  /\ Balanced

Piles ==
  /\ held \in [Entity -> [Good -> Nat]] /\ \A e \in Entity, g \in Good : held[e][g] <= Cap[g]
  /\ shelf \in [Facility -> [Holder -> [Good -> Int]]]

Fires ==
  /\ fuel \in [Facility -> Nat] /\ \A f \in Facility : fuel[f] <= FuelCap[f]
  /\ deposit \in [Parcel -> Nat] /\ \A p \in Parcel : deposit[p] <= Vein[p]

(* A balanced book bounds every balance by what was issued.                *)
LEMMA Parts == (TypeOK /\ Balanced) <=> (Clock /\ Rows /\ Ledger /\ Piles /\ Fires)
<1>1. ASSUME TypeOK, Balanced PROVE Clock /\ Rows /\ Ledger /\ Piles /\ Fires
  <2>1. Ledger
    BY <1>1, LandAssumption DEF TypeOK, Ledger
  <2> QED BY <1>1, <2>1 DEF TypeOK, Clock, Rows, Piles, Fires
<1>2. ASSUME Clock, Rows, Ledger, Piles, Fires PROVE TypeOK /\ Balanced
  <2>1. IsFiniteSet(Entity) /\ Counts(money, Entity) /\ MaxIssued \in Nat
    BY <1>2, LandAssumption DEF Ledger, Counts
  <2>2. Total(money, Entity) \in Nat /\ Total(money, Entity) + buried = issued
    BY <1>2, <2>1, TotalType DEF Ledger, Balanced
  <2>3. \A e \in Entity : money[e] <= Total(money, Entity)
    BY <2>1, TotalAtLeast
  <2>4. money \in [Entity -> 0..MaxIssued] /\ buried \in 0..MaxIssued
    BY <1>2, <2>1, <2>2, <2>3 DEF Ledger
  <2> QED BY <1>2, <2>4 DEF TypeOK, Clock, Rows, Piles, Fires, Ledger
<1> QED BY <1>1, <1>2

LEMMA Constants ==
  /\ IsFiniteSet(Entity) /\ IsFiniteSet(Facility) /\ IsFiniteSet(Good) /\ IsFiniteSet(Holder)
  /\ \A e \in Entity : e # Nobody /\ e # Shared /\ e \in Holder
  /\ Shared \in Holder /\ Shared # Nobody /\ Nobody \notin Holder
  /\ Wood \in Good /\ \A g \in Good : Cap[g] \in Nat /\ Cap[g] > 0
  /\ MaxAmount \in Nat /\ MaxActs \in Nat /\ MaxTicks \in Nat /\ MaxPending \in Nat
<1>1. IsFiniteSet(Holder)
  BY LandAssumption, FS_AddElement DEF Holder
<1> QED BY <1>1, LandAssumption DEF Holder

-----------------------------------------------------------------------------
(* Totals of goods.                                                        *)

(* One holding changes.                                                    *)
LEMMA HandTotal ==
  ASSUME Piles, Piles', NEW e \in Entity, NEW g \in Good,
         \A x \in Entity \ {e} : held'[x][g] = held[x][g]
  PROVE  InHand(g)' = InHand(g) - held[e][g] + held'[e][g]
<1> DEFINE a == [x \in Entity |-> held[x][g]]
           b == [x \in Entity |-> held'[x][g]]
<1>1. IsFiniteSet(Entity) /\ Counts(a, Entity) /\ Counts(b, Entity)
  BY Constants DEF Piles, Counts
<1>2. /\ \A x \in Entity \ {e} : b[x] = a[x]
      /\ a[e] = held[e][g] /\ b[e] = held'[e][g]
  OBVIOUS
<1>3. InHand(g) = Total(a, Entity) /\ InHand(g)' = Total(b, Entity)
  BY DEF InHand
<1> HIDE DEF a, b
<1>4. Total(b, Entity) = Total(a, Entity) - a[e] + b[e]
  BY <1>1, <1>2, TotalChange
<1> QED BY <1>2, <1>3, <1>4

LEMMA HandSame ==
  ASSUME NEW g \in Good, \A x \in Entity : held'[x][g] = held[x][g]
  PROVE  InHand(g)' = InHand(g)
<1>1. [x \in Entity |-> held'[x][g]] = [x \in Entity |-> held[x][g]]
  OBVIOUS
<1> QED BY <1>1 DEF InHand

(* Hands hold a number of a good; shelves, less what they owe, an integer. *)
LEMMA ShelvedType ==
  ASSUME Piles, NEW g \in Good
  PROVE  /\ \A f \in Facility : Signed([o \in Holder |-> shelf[f][o][g]], Holder) /\ Shelved(f, g) \in Int
         /\ Signed([f \in Facility |-> Shelved(f, g)], Facility)
         /\ OnShelves(g) \in Int /\ InHand(g) \in Nat
<1>1. \A f \in Facility : Signed([o \in Holder |-> shelf[f][o][g]], Holder)
  BY DEF Piles, Signed
<1>2. \A f \in Facility : Shelved(f, g) \in Int
  BY <1>1, Constants, NetType DEF Shelved
<1>3. Signed([f \in Facility |-> Shelved(f, g)], Facility)
  BY <1>2 DEF Signed
<1>4. Counts([e \in Entity |-> held[e][g]], Entity)
  BY DEF Piles, Counts
<1> QED BY <1>1, <1>2, <1>3, <1>4, Constants, NetType, TotalType DEF OnShelves, InHand

(* So they do in the next state.                                           *)
LEMMA NextTotals ==
  ASSUME Piles'
  PROVE  /\ \A g \in Good : /\ InHand(g)' \in Nat /\ OnShelves(g)' \in Int
                            /\ \A f \in Facility : Shelved(f, g)' \in Int
         /\ \A f \in Facility, o \in Holder : StoreTotal(f, o)' \in Int
<1>1. ASSUME NEW g \in Good PROVE /\ InHand(g)' \in Nat /\ OnShelves(g)' \in Int
                                  /\ \A f \in Facility : Shelved(f, g)' \in Int
  <2>1. Counts([e \in Entity |-> held'[e][g]], Entity)
    BY DEF Piles, Counts
  <2>2. \A f \in Facility : Signed([o \in Holder |-> shelf'[f][o][g]], Holder)
    BY DEF Piles, Signed
  <2>3. \A f \in Facility : Shelved(f, g)' \in Int
    BY <2>2, Constants, NetType DEF Shelved
  <2>4. Signed([f \in Facility |-> Shelved(f, g)'], Facility)
    BY <2>3 DEF Signed
  <2> QED BY <2>1, <2>3, <2>4, Constants, TotalType, NetType DEF InHand, OnShelves
<1>2. ASSUME NEW f \in Facility, NEW o \in Holder PROVE StoreTotal(f, o)' \in Int
  <2>1. Signed(shelf'[f][o], Good)
    BY DEF Piles, Signed
  <2> QED BY <2>1, Constants, NetType DEF StoreTotal
<1> QED BY <1>1, <1>2

(* The shelves of every facility keep their totals, or lose some.          *)
LEMMA ShelvedSame ==
  ASSUME NEW g \in Good, \A f \in Facility : Shelved(f, g)' = Shelved(f, g)
  PROVE  OnShelves(g)' = OnShelves(g)
<1>1. [f \in Facility |-> Shelved(f, g)'] = [f \in Facility |-> Shelved(f, g)]
  OBVIOUS
<1> QED BY <1>1 DEF OnShelves

LEMMA ShelfSame ==
  ASSUME NEW g \in Good, \A f \in Facility, o \in Holder : shelf'[f][o][g] = shelf[f][o][g]
  PROVE  OnShelves(g)' = OnShelves(g)
<1>1. ASSUME NEW f \in Facility PROVE Shelved(f, g)' = Shelved(f, g)
  <2>1. [o \in Holder |-> shelf'[f][o][g]] = [o \in Holder |-> shelf[f][o][g]]
    OBVIOUS
  <2> QED BY <2>1 DEF Shelved
<1> QED BY <1>1, ShelvedSame

LEMMA ShelvedLess ==
  ASSUME Piles, Piles', NEW g \in Good, \A f \in Facility : Shelved(f, g)' <= Shelved(f, g)
  PROVE  OnShelves(g)' <= OnShelves(g)
<1> DEFINE a == [f \in Facility |-> Shelved(f, g)]
           b == [f \in Facility |-> Shelved(f, g)']
<1>1. Signed(a, Facility) /\ IsFiniteSet(Facility)
  BY Constants, ShelvedType
<1>2. Signed(b, Facility) /\ \A f \in Facility : b[f] <= a[f]
  BY NextTotals DEF Signed
<1>3. OnShelves(g) = Net(a, Facility) /\ OnShelves(g)' = Net(b, Facility)
  BY DEF OnShelves
<1> HIDE DEF a, b
<1>4. Net(b, Facility) <= Net(a, Facility)
  BY <1>1, <1>2, NetLess
<1> QED BY <1>3, <1>4

(* Every row keeps what it has, or loses some.                             *)
LEMMA ShelfLess ==
  ASSUME Piles, Piles', NEW g \in Good,
         \A f \in Facility, o \in Holder : shelf'[f][o][g] <= shelf[f][o][g]
  PROVE  OnShelves(g)' <= OnShelves(g)
<1>1. ASSUME NEW f \in Facility PROVE Shelved(f, g)' <= Shelved(f, g)
  <2> DEFINE c == [o \in Holder |-> shelf[f][o][g]]
             d == [o \in Holder |-> shelf'[f][o][g]]
  <2>1. IsFiniteSet(Holder) /\ Signed(c, Holder) /\ Signed(d, Holder) /\ \A o \in Holder : d[o] <= c[o]
    BY Constants DEF Piles, Signed
  <2>2. Shelved(f, g) = Net(c, Holder) /\ Shelved(f, g)' = Net(d, Holder)
    BY DEF Shelved
  <2> HIDE DEF c, d
  <2> QED BY <2>1, <2>2, NetLess
<1> QED BY <1>1, ShelvedLess

(* One row of one facility changes.                                        *)
LEMMA ShelfTotal ==
  ASSUME Piles, Piles', NEW f \in Facility, NEW o \in Holder, NEW g \in Good,
         \A x \in Facility, y \in Holder : <<x, y>> # <<f, o>> => shelf'[x][y][g] = shelf[x][y][g]
  PROVE  OnShelves(g)' = OnShelves(g) - shelf[f][o][g] + shelf'[f][o][g]
<1> DEFINE a == [x \in Facility |-> Shelved(x, g)]
           b == [x \in Facility |-> Shelved(x, g)']
           c == [y \in Holder |-> shelf[f][y][g]]
           d == [y \in Holder |-> shelf'[f][y][g]]
<1>1. IsFiniteSet(Facility) /\ IsFiniteSet(Holder) /\ Signed(a, Facility) /\ Signed(c, Holder)
  BY Constants, ShelvedType
<1>2. Signed(d, Holder) /\ Signed(b, Facility)
  BY NextTotals DEF Piles, Signed
<1>3. Shelved(f, g) = Net(c, Holder) /\ Shelved(f, g)' = Net(d, Holder)
  BY DEF Shelved
<1>4. /\ \A y \in Holder \ {o} : d[y] = c[y]
      /\ c[o] = shelf[f][o][g] /\ d[o] = shelf'[f][o][g] /\ c[o] \in Int /\ d[o] \in Int
  BY DEF Piles
<1> HIDE DEF c, d
<1>5. Net(d, Holder) = Net(c, Holder) - c[o] + d[o] /\ Net(d, Holder) \in Int /\ Net(c, Holder) \in Int
  BY <1>1, <1>2, <1>4, NetChange, NetType
<1>6. ASSUME NEW x \in Facility \ {f} PROVE Shelved(x, g)' = Shelved(x, g)
  <2>1. [y \in Holder |-> shelf'[x][y][g]] = [y \in Holder |-> shelf[x][y][g]]
    OBVIOUS
  <2> QED BY <2>1 DEF Shelved
<1>7. /\ \A x \in Facility \ {f} : b[x] = a[x]
      /\ a[f] = Net(c, Holder) /\ b[f] = Net(d, Holder)
  BY <1>3, <1>6
<1>8. OnShelves(g) = Net(a, Facility) /\ OnShelves(g)' = Net(b, Facility)
  BY DEF OnShelves
<1> HIDE DEF a, b
<1>9. Net(b, Facility) = Net(a, Facility) - a[f] + b[f] /\ Net(a, Facility) \in Int
  BY <1>1, <1>2, <1>7, NetChange, NetType
<1> QED BY <1>4, <1>5, <1>7, <1>8, <1>9

(* A store whose rows do not grow does not fill.                           *)
LEMMA StoreLess ==
  ASSUME Piles, Piles', NEW f \in Facility, NEW o \in Holder,
         \A g \in Good : shelf'[f][o][g] <= shelf[f][o][g]
  PROVE  StoreTotal(f, o)' <= StoreTotal(f, o)
<1> DEFINE a == shelf[f][o]
           b == shelf'[f][o]
<1>1. Signed(a, Good) /\ Signed(b, Good) /\ \A g \in Good : b[g] <= a[g]
  BY DEF Piles, Signed
<1>2. StoreTotal(f, o) = Net(a, Good) /\ StoreTotal(f, o)' = Net(b, Good)
  BY DEF StoreTotal
<1> HIDE DEF a, b
<1>3. Net(b, Good) <= Net(a, Good)
  BY <1>1, Constants, NetLess
<1> QED BY <1>2, <1>3

LEMMA StoreType ==
  ASSUME Piles, NEW f \in Facility, NEW o \in Holder
  PROVE  StoreTotal(f, o) \in Int
<1>1. Signed(shelf[f][o], Good)
  BY DEF Piles, Signed
<1> QED BY <1>1, Constants, NetType DEF StoreTotal

-----------------------------------------------------------------------------
(* What an operation may do to goods: account for what it adds and takes,  *)
(* fill no store but as StoreCapped says, overdraw no row unasked.         *)
Goods == GoodsAccounted /\ StoreCapped /\ DebtIsAsked /\ Piles'

(* Every hand and every row, and what of a row is there.                   *)
LEMMA Cells ==
  /\ Piles => /\ \A e \in Entity, g \in Good : /\ held[e][g] \in Nat /\ held[e][g] <= Cap[g]
                                               /\ Cap[g] \in Nat
              /\ \A f \in Facility, o \in Holder, g \in Good : shelf[f][o][g] \in Int
  /\ Piles' => /\ \A e \in Entity, g \in Good : held'[e][g] \in Nat /\ held'[e][g] <= Cap[g]
               /\ \A f \in Facility, o \in Holder, g \in Good : shelf'[f][o][g] \in Int
<1>1. \A g \in Good : Cap[g] \in Nat
  BY Constants
<1> QED BY <1>1 DEF Piles

(* A step that adds to no good, and says what it takes from one.           *)
LEMMA GoodsSpent ==
  ASSUME \A g \in Good : /\ Stock(g)' \in Int /\ Stock(g) \in Int /\ Stock(g)' <= Stock(g)
                         /\ Stock(g)' < Stock(g) => Consumed(g)
  PROVE  GoodsAccounted
  BY DEF GoodsAccounted

LEMMA StockType ==
  ASSUME Piles
  PROVE  \A g \in Good : Stock(g) \in Int
<1>1. \A g \in Good : OnShelves(g) \in Int /\ InHand(g) \in Nat
  BY ShelvedType
<1> QED BY <1>1 DEF Stock

LEMMA NextStock ==
  ASSUME Piles'
  PROVE  \A g \in Good : Stock(g)' \in Int
  BY NextTotals DEF Stock

(* No store grows, and no row is below its own debt.                       *)
LEMMA NoStoreGrows ==
  ASSUME Piles, Piles', \A f \in Facility, e \in Entity : StoreTotal(f, e)' <= StoreTotal(f, e)
  PROVE  StoreCapped
<1>1. \A f \in Facility, e \in Entity : StoreTotal(f, e) \in Int /\ StoreTotal(f, e)' \in Int
  BY Constants, StoreType, NextTotals
<1> QED BY <1>1 DEF StoreCapped

LEMMA NoRowOwes ==
  ASSUME Piles, Piles',
         \A f \in Facility, o \in Holder, g \in Good :
            shelf'[f][o][g] >= 0 \/ shelf'[f][o][g] >= shelf[f][o][g]
  PROVE  DebtIsAsked
<1>1. \A f \in Facility, o \in Holder, g \in Good : shelf[f][o][g] \in Int /\ shelf'[f][o][g] \in Int
  BY Cells
<1>2. \A f \in Facility, o \in Holder, g \in Good : ~(shelf'[f][o][g] < Least(shelf[f][o][g], 0))
  BY <1>1 DEF Least
<1> QED BY <1>2 DEF DebtIsAsked

LEMMA GoodsStill ==
  ASSUME Piles, UNCHANGED <<held, shelf>>
  PROVE  Goods
<1>1. Piles'
  BY DEF Piles
<1>2. \A f \in Facility, e \in Entity : StoreTotal(f, e)' = StoreTotal(f, e) /\ StoreTotal(f, e) \in Int
  BY Constants, StoreType DEF StoreTotal
<1>3. StoreCapped
  BY <1>1, <1>2, NoStoreGrows
<1>4. DebtIsAsked
  <2>1. \A f \in Facility, o \in Holder, g \in Good : shelf'[f][o][g] = shelf[f][o][g] /\ shelf[f][o][g] \in Int
    BY Cells
  <2> QED BY <1>1, <2>1, NoRowOwes
<1> QED BY <1>1, <1>3, <1>4 DEF Goods, GoodsAccounted

(* Goods go between a hand and a row, either way: what does not reach the  *)
(* hand has found it full.                                                 *)
Shifted(f, o, e, g, n) ==
  /\ Piles'
  /\ \A h \in Good : /\ Stock(h)' \in Int /\ Stock(h) \in Int /\ Stock(h)' <= Stock(h)
                     /\ Stock(h)' < Stock(h) => h = g /\ held'[e][g] = Cap[g]
  /\ \A x \in Facility, y \in Holder : <<x, y>> # <<f, o>> => StoreTotal(x, y)' = StoreTotal(x, y)
  /\ StoreTotal(f, o)' = StoreTotal(f, o) - n
  /\ shelf'[f][o][g] = shelf[f][o][g] - n
  /\ \A x \in Facility, y \in Holder, h \in Good :
       <<x, y, h>> # <<f, o, g>> => shelf'[x][y][h] = shelf[x][y][h]

LEMMA ShiftIs ==
  ASSUME Piles, NEW f \in Facility, NEW o \in Holder, NEW e \in Entity, NEW g \in Good, NEW n \in Int,
         held[e][g] + n >= 0,
         held' = [held EXCEPT ![e][g] = Credited(e, g, n)],
         shelf' = [shelf EXCEPT ![f][o][g] = shelf[f][o][g] - n]
  PROVE  Shifted(f, o, e, g, n)
<1> DEFINE new == Credited(e, g, n)
           row == shelf[f][o][g] - n
<1>1. held[e][g] \in Nat /\ held[e][g] <= Cap[g] /\ Cap[g] \in Nat /\ shelf[f][o][g] \in Int
  BY Cells
<1>2. new \in Nat /\ new <= Cap[g] /\ new <= held[e][g] + n /\ (new < held[e][g] + n => new = Cap[g])
  BY <1>1 DEF Credited, Least
<1>3. row \in Int /\ row = shelf[f][o][g] - n
  BY <1>1
<1>4. held' = [held EXCEPT ![e][g] = new] /\ shelf' = [shelf EXCEPT ![f][o][g] = row]
  OBVIOUS
<1> HIDE DEF new, row
<1>5. /\ held' \in [Entity -> [Good -> Nat]] /\ held'[e][g] = new
      /\ \A x \in Entity, h \in Good : <<x, h>> # <<e, g>> => held'[x][h] = held[x][h]
  BY <1>2, <1>4 DEF Piles
<1>6. /\ shelf' \in [Facility -> [Holder -> [Good -> Int]]] /\ shelf'[f][o][g] = row
      /\ \A x \in Facility, y \in Holder, h \in Good :
            <<x, y, h>> # <<f, o, g>> => shelf'[x][y][h] = shelf[x][y][h]
  BY <1>3, <1>4 DEF Piles
<1>7. Piles'
  <2>1. \A x \in Entity, h \in Good : held'[x][h] <= Cap[h]
    BY <1>2, <1>5, Cells
  <2> QED BY <1>5, <1>6, <2>1 DEF Piles
<1>8. ASSUME NEW h \in Good, h # g
      PROVE  InHand(h)' = InHand(h) /\ OnShelves(h)' = OnShelves(h)
  BY <1>5, <1>6, <1>8, HandSame, ShelfSame
<1>9. InHand(g)' = InHand(g) - held[e][g] + new
  BY <1>5, <1>7, HandTotal
<1>10. OnShelves(g)' = OnShelves(g) - shelf[f][o][g] + row
  BY <1>6, <1>7, ShelfTotal
<1>11. \A h \in Good : InHand(h) \in Nat /\ OnShelves(h) \in Int
  BY ShelvedType
<1>12. \A h \in Good : /\ Stock(h)' \in Int /\ Stock(h) \in Int /\ Stock(h)' <= Stock(h)
                       /\ Stock(h)' < Stock(h) => h = g /\ held'[e][g] = Cap[g]
  <2> TAKE h \in Good
  <2>1. CASE h # g
    BY <1>8, <1>11, <2>1 DEF Stock
  <2>2. CASE h = g
    BY <1>1, <1>2, <1>3, <1>5, <1>9, <1>10, <1>11, <2>2 DEF Stock
  <2> QED BY <2>1, <2>2
<1>13. ASSUME NEW x \in Facility, NEW y \in Holder, <<x, y>> # <<f, o>>
       PROVE  StoreTotal(x, y)' = StoreTotal(x, y)
  <2>1. \A h \in Good : shelf'[x][y][h] = shelf[x][y][h]
    BY <1>6, <1>13
  <2> DEFINE a == shelf[x][y]
             b == shelf'[x][y]
  <2>2. \A h \in Good : b[h] = a[h]
    BY <2>1
  <2>3. StoreTotal(x, y) = Net(a, Good) /\ StoreTotal(x, y)' = Net(b, Good)
    BY DEF StoreTotal
  <2> HIDE DEF a, b
  <2> QED BY <2>2, <2>3, NetSame
<1>14. StoreTotal(f, o)' = StoreTotal(f, o) - n
  <2> DEFINE a == shelf[f][o]
             b == shelf'[f][o]
  <2>1. /\ Signed(a, Good) /\ Signed(b, Good) /\ IsFiniteSet(Good)
        /\ \A h \in Good \ {g} : b[h] = a[h]
        /\ a[g] \in Int /\ b[g] = a[g] - n
    BY <1>1, <1>3, <1>6, Constants DEF Piles, Signed
  <2>2. StoreTotal(f, o) = Net(a, Good) /\ StoreTotal(f, o)' = Net(b, Good)
    BY DEF StoreTotal
  <2> HIDE DEF a, b
  <2>3. Net(b, Good) = Net(a, Good) - a[g] + b[g] /\ Net(a, Good) \in Int
    BY <2>1, NetChange, NetType
  <2> QED BY <2>1, <2>2, <2>3
<1> QED BY <1>3, <1>6, <1>7, <1>12, <1>13, <1>14 DEF Shifted

LEMMA PutAwayShifts ==
  ASSUME Piles, NEW f \in Facility, NEW o \in Holder, NEW e \in Entity, NEW g \in Good, NEW q \in Int,
         PutAway(f, o, e, g, q)
  PROVE  /\ held[e][g] + (-q) >= 0
         /\ held' = [held EXCEPT ![e][g] = Credited(e, g, -q)]
         /\ shelf' = [shelf EXCEPT ![f][o][g] = shelf[f][o][g] - (-q)]
<1>1. held[e][g] \in Nat /\ shelf[f][o][g] \in Int
  BY Cells
<1>2. shelf[f][o][g] + q = shelf[f][o][g] - (-q) /\ (held[e][g] >= q => held[e][g] + (-q) >= 0)
  BY <1>1
<1>3. /\ held[e][g] >= q
      /\ held' = [held EXCEPT ![e][g] = Credited(e, g, -q)]
      /\ shelf' = [shelf EXCEPT ![f][o][g] = shelf[f][o][g] + q]
  BY DEF PutAway
<1> QED BY <1>2, <1>3

LEMMA TakeBackShifts ==
  ASSUME Piles, NEW f \in Facility, NEW o \in Holder, NEW e \in Entity, NEW g \in Good, NEW q \in Int,
         TakeBack(f, o, e, g, q)
  PROVE  /\ held[e][g] + q >= 0 /\ shelf[f][o][g] >= q
         /\ held' = [held EXCEPT ![e][g] = Credited(e, g, q)]
         /\ shelf' = [shelf EXCEPT ![f][o][g] = shelf[f][o][g] - q]
  BY DEF TakeBack

(* An intent that moves goods accounts for those it takes.                 *)
LEMMA MovedGoods ==
  ASSUME NEW i \in Intent, i.op \in Moving, Resolve(i), NEW e \in Entity,
         \A h \in Good : /\ Stock(h)' \in Int /\ Stock(h) \in Int /\ Stock(h)' <= Stock(h)
                         /\ Stock(h)' < Stock(h) => h = i.good /\ held'[e][i.good] = Cap[i.good]
  PROVE  GoodsAccounted
<1>1. \A h \in Good : Stock(h)' < Stock(h) => Consumed(h)
  BY DEF Consumed
<1> QED BY <1>1, GoodsSpent

(* Put away in one's own store, or dropped in the pool.                    *)
LEMMA StoreGoods ==
  ASSUME Piles, NEW i \in Intent, i.op \in {"store", "drop"}, Resolve(i),
         i.by \in Entity, i.good \in Good, i.q \in Int,
         NEW f \in Facility, NEW o \in Holder, PutAway(f, o, i.by, i.good, i.q),
         o = Shared \/ (o = i.by /\ StoreTotal(f, o) + i.q <= Seats[f])
  PROVE  Goods
<1> DEFINE e == i.by
           g == i.good
           n == -i.q
<1>1. e \in Entity /\ g \in Good /\ n \in Int /\ i.q = -n
  OBVIOUS
<1>2. /\ held[e][g] + n >= 0
      /\ held' = [held EXCEPT ![e][g] = Credited(e, g, n)]
      /\ shelf' = [shelf EXCEPT ![f][o][g] = shelf[f][o][g] - n]
  BY PutAwayShifts
<1> HIDE DEF e, g, n
<1>0. Shifted(f, o, e, g, n)
  BY <1>1, <1>2, ShiftIs
<1>3. /\ Piles'
      /\ \A h \in Good : /\ Stock(h)' \in Int /\ Stock(h) \in Int /\ Stock(h)' <= Stock(h)
                         /\ Stock(h)' < Stock(h) => h = g /\ held'[e][g] = Cap[g]
      /\ \A x \in Facility, y \in Holder : <<x, y>> # <<f, o>> => StoreTotal(x, y)' = StoreTotal(x, y)
      /\ StoreTotal(f, o)' = StoreTotal(f, o) - n
      /\ shelf'[f][o][g] = shelf[f][o][g] - n
      /\ \A x \in Facility, y \in Holder, h \in Good :
           <<x, y, h>> # <<f, o, g>> => shelf'[x][y][h] = shelf[x][y][h]
  BY <1>0 DEF Shifted
<1>4. GoodsAccounted
  BY <1>1, <1>3, MovedGoods DEF Moving, e, g
<1>5. StoreCapped
  <2> SUFFICES ASSUME NEW x \in Facility, NEW y \in Entity,
                      StoreTotal(x, y)' > StoreTotal(x, y), StoreTotal(x, y)' > Seats[x]
               PROVE  FALSE
    BY DEF StoreCapped
  <2>1. y \in Holder /\ y # Shared /\ StoreTotal(x, y) \in Int /\ StoreTotal(f, o) \in Int
    BY Constants, StoreType
  <2>2. x = f /\ y = o
    BY <1>3, <2>1
  <2>3. Seats[f] \in Nat
    BY LandAssumption
  <2> QED BY <1>1, <1>3, <2>1, <2>2, <2>3
<1>6. DebtIsAsked
  <2> SUFFICES ASSUME NEW x \in Facility, NEW y \in Holder, NEW h \in Good,
                      shelf'[x][y][h] < Least(shelf[x][y][h], 0)
               PROVE  i.q < 0
    BY DEF DebtIsAsked
  <2>1. shelf[x][y][h] \in Int /\ shelf[f][o][g] \in Int
    BY <1>1, Cells
  <2>2. <<x, y, h>> = <<f, o, g>>
    BY <1>3, <2>1 DEF Least
  <2> QED BY <1>1, <1>3, <2>1, <2>2 DEF Least
<1> QED BY <1>3, <1>4, <1>5, <1>6 DEF Goods

(* And taken back.                                                         *)
LEMMA TakeBackGoods ==
  ASSUME Piles, NEW i \in Intent, i.op \in {"take", "pickup"}, Resolve(i),
         i.by \in Entity, i.good \in Good, i.q \in Int,
         NEW f \in Facility, NEW o \in Holder, TakeBack(f, o, i.by, i.good, i.q),
         o = Shared \/ (i.op = "take" /\ Unstore(i))
  PROVE  Goods
<1> DEFINE e == i.by
           g == i.good
           n == i.q
<1>1. e \in Entity /\ g \in Good /\ n \in Int /\ i.q = n
  OBVIOUS
<1>2. /\ held[e][g] + n >= 0 /\ shelf[f][o][g] >= n
      /\ held' = [held EXCEPT ![e][g] = Credited(e, g, n)]
      /\ shelf' = [shelf EXCEPT ![f][o][g] = shelf[f][o][g] - n]
  BY TakeBackShifts
<1> HIDE DEF e, g, n
<1>0. Shifted(f, o, e, g, n)
  BY <1>1, <1>2, ShiftIs
<1>3. /\ Piles'
      /\ \A h \in Good : /\ Stock(h)' \in Int /\ Stock(h) \in Int /\ Stock(h)' <= Stock(h)
                         /\ Stock(h)' < Stock(h) => h = g /\ held'[e][g] = Cap[g]
      /\ \A x \in Facility, y \in Holder : <<x, y>> # <<f, o>> => StoreTotal(x, y)' = StoreTotal(x, y)
      /\ StoreTotal(f, o)' = StoreTotal(f, o) - n
      /\ shelf'[f][o][g] = shelf[f][o][g] - n
      /\ \A x \in Facility, y \in Holder, h \in Good :
           <<x, y, h>> # <<f, o, g>> => shelf'[x][y][h] = shelf[x][y][h]
  BY <1>0 DEF Shifted
<1>4. GoodsAccounted
  BY <1>1, <1>3, MovedGoods DEF Moving, e, g
<1>5. StoreCapped
  <2> SUFFICES ASSUME NEW x \in Facility, NEW y \in Entity, StoreTotal(x, y)' > StoreTotal(x, y)
               PROVE  i.op = "take" /\ i.q < 0 /\ Unstore(i)
    BY DEF StoreCapped
  <2>1. y \in Holder /\ y # Shared /\ StoreTotal(x, y) \in Int /\ StoreTotal(f, o) \in Int
    BY Constants, StoreType
  <2>2. x = f /\ y = o
    BY <1>3, <2>1
  <2> QED BY <1>1, <1>3, <2>1, <2>2
<1>6. DebtIsAsked
  <2>1. shelf[f][o][g] \in Int /\ shelf'[f][o][g] >= 0
    BY <1>1, <1>2, <1>3, Cells
  <2>2. ASSUME NEW x \in Facility, NEW y \in Holder, NEW h \in Good
        PROVE  shelf'[x][y][h] >= 0 \/ shelf'[x][y][h] >= shelf[x][y][h]
    <3>1. shelf[x][y][h] \in Int
      BY Cells
    <3>2. <<x, y, h>> = <<f, o, g>> \/ shelf'[x][y][h] = shelf[x][y][h]
      BY <1>3
    <3> QED BY <2>1, <3>1, <3>2
  <2> QED BY <1>3, <2>2, NoRowOwes
<1> QED BY <1>3, <1>4, <1>5, <1>6 DEF Goods

(* Nothing grows anywhere, and what shrinks is accounted for.              *)
LEMMA GoodsShrink ==
  ASSUME Piles, Piles',
         \A e \in Entity, g \in Good : held'[e][g] <= held[e][g],
         \A f \in Facility, o \in Holder, g \in Good : shelf'[f][o][g] <= shelf[f][o][g],
         \A f \in Facility, o \in Holder, g \in Good :
            shelf'[f][o][g] >= 0 \/ shelf'[f][o][g] >= shelf[f][o][g],
         \A g \in Good : \/ Consumed(g)
                         \/ /\ \A e \in Entity : held'[e][g] = held[e][g]
                            /\ \A f \in Facility, o \in Holder : shelf'[f][o][g] = shelf[f][o][g]
  PROVE  Goods
<1>1. ASSUME NEW g \in Good PROVE InHand(g)' <= InHand(g) /\ InHand(g)' \in Nat
  <2> DEFINE c == [x \in Entity |-> held[x][g]]
             d == [x \in Entity |-> held'[x][g]]
  <2>1. /\ IsFiniteSet(Entity) /\ Counts(c, Entity) /\ Counts(d, Entity)
        /\ \A x \in Entity : d[x] \in Nat /\ d[x] <= c[x]
    BY Constants DEF Piles, Counts
  <2>2. InHand(g) = Total(c, Entity) /\ InHand(g)' = Total(d, Entity)
    BY DEF InHand
  <2> HIDE DEF c, d
  <2>3. Total(d, Entity) <= Total(c, Entity) /\ Total(d, Entity) \in Nat
    BY <2>1, TotalLess, TotalType
  <2> QED BY <2>2, <2>3
<1>2. ASSUME NEW g \in Good PROVE OnShelves(g)' <= OnShelves(g) /\ OnShelves(g)' \in Int
  BY ShelfLess, NextTotals
<1>3. \A g \in Good : InHand(g) \in Nat /\ OnShelves(g) \in Int
  BY ShelvedType
<1>4. \A g \in Good : Stock(g)' \in Int /\ Stock(g) \in Int /\ Stock(g)' <= Stock(g)
  BY <1>1, <1>2, <1>3 DEF Stock
<1>5. ASSUME NEW g \in Good, Stock(g)' < Stock(g) PROVE Consumed(g)
  <2> SUFFICES ASSUME \A e \in Entity : held'[e][g] = held[e][g],
                      \A f \in Facility, o \in Holder : shelf'[f][o][g] = shelf[f][o][g]
               PROVE  FALSE
    OBVIOUS
  <2>1. InHand(g)' = InHand(g) /\ OnShelves(g)' = OnShelves(g)
    BY HandSame, ShelfSame
  <2> QED BY <1>3, <1>5, <2>1 DEF Stock
<1>6. GoodsAccounted
  BY <1>4, <1>5, GoodsSpent
<1>7. \A f \in Facility, e \in Entity : StoreTotal(f, e)' <= StoreTotal(f, e)
  BY Constants, StoreLess
<1>8. StoreCapped /\ DebtIsAsked
  BY <1>7, NoStoreGrows, NoRowOwes
<1> QED BY <1>6, <1>8 DEF Goods

(* Goods go from one hand to another, which may clip them.                 *)
LEMMA HandsGoods ==
  ASSUME Piles, NEW i \in Intent, i.op \in Moving, Resolve(i), UNCHANGED shelf,
         NEW a \in Entity, NEW b \in Entity, a # b, NEW g \in Good, g = i.good, NEW q \in Nat,
         held' \in [Entity -> [Good -> Nat]],
         held[b][g] >= q, held'[b][g] = held[b][g] - q,
         held'[a][g] <= held[a][g] + q, held'[a][g] <= Cap[g],
         held'[a][g] < held[a][g] + q => held'[a][g] = Cap[g],
         \A x \in Entity, h \in Good : <<x, h>> # <<a, g>> /\ <<x, h>> # <<b, g>> => held'[x][h] = held[x][h]
  PROVE  Goods
<1>1. \A x \in Entity, h \in Good :
         /\ held[x][h] \in Nat /\ held'[x][h] \in Nat /\ held[x][h] <= Cap[h] /\ Cap[h] \in Nat
  BY Constants DEF Piles
<1>2. Piles'
  <2>1. \A x \in Entity, h \in Good : held'[x][h] <= Cap[h]
    BY <1>1
  <2> QED BY <2>1 DEF Piles
<1>3. ASSUME NEW h \in Good, h # g PROVE InHand(h)' = InHand(h)
  BY <1>3, HandSame
<1>4. /\ InHand(g)' <= InHand(g) /\ InHand(g)' \in Nat
      /\ InHand(g)' < InHand(g) => held'[a][g] = Cap[g]
  <2> DEFINE c == [x \in Entity |-> held[x][g]]
             d == [x \in Entity |-> held'[x][g]]
  <2>1. IsFiniteSet(Entity) /\ Counts(c, Entity) /\ Counts(d, Entity)
    BY <1>1, Constants DEF Counts
  <2>2. /\ \A x \in Entity \ {a, b} : d[x] = c[x]
        /\ c[a] = held[a][g] /\ c[b] = held[b][g]
        /\ d[a] = held'[a][g] /\ d[b] = held'[b][g]
    OBVIOUS
  <2>3. InHand(g) = Total(c, Entity) /\ InHand(g)' = Total(d, Entity)
    BY DEF InHand
  <2> HIDE DEF c, d
  <2>4. /\ Total(d, Entity) = Total(c, Entity) - c[a] - c[b] + d[a] + d[b]
        /\ Total(c, Entity) \in Nat /\ Total(d, Entity) \in Nat
    BY <2>1, <2>2, TotalMove, TotalType
  <2> QED BY <1>1, <2>2, <2>3, <2>4
<1>5. \A h \in Good : OnShelves(h)' = OnShelves(h) /\ OnShelves(h) \in Int /\ InHand(h) \in Nat
  BY ShelfSame, ShelvedType
<1>6. \A h \in Good : /\ Stock(h)' \in Int /\ Stock(h) \in Int /\ Stock(h)' <= Stock(h)
                      /\ Stock(h)' < Stock(h) => h = i.good /\ held'[a][i.good] = Cap[i.good]
  <2> TAKE h \in Good
  <2>1. CASE h = g
    BY <1>4, <1>5, <2>1 DEF Stock
  <2>2. CASE h # g
    BY <1>3, <1>5, <2>2 DEF Stock
  <2> QED BY <2>1, <2>2
<1>7. GoodsAccounted
  BY <1>6, MovedGoods
<1>8. \A x \in Facility, y \in Entity : StoreTotal(x, y)' <= StoreTotal(x, y)
  <2>1. \A x \in Facility, y \in Entity : StoreTotal(x, y)' = StoreTotal(x, y) /\ StoreTotal(x, y) \in Int
    BY Constants, StoreType DEF StoreTotal
  <2> QED BY <2>1
<1>9. DebtIsAsked
  <2>1. \A x \in Facility, y \in Holder, h \in Good : shelf'[x][y][h] = shelf[x][y][h] /\ shelf[x][y][h] \in Int
    BY Cells
  <2> QED BY <1>2, <2>1, NoRowOwes
<1> QED BY <1>2, <1>7, <1>8, <1>9, NoStoreGrows DEF Goods

LEMMA SeizeGoods ==
  ASSUME Piles, NEW i \in Intent, i.op = "seize", Resolve(i), Seize(i),
         i.from \in Entity, i.to \in Entity, i.good \in Good, i.q \in Nat
  PROVE  Goods
<1> DEFINE a == i.to
           b == i.from
           g == i.good
           q == i.q
           left == held[b][g] - q
<1>1. /\ held[b][g] >= q /\ UNCHANGED shelf
      /\ a = b => held' = [held EXCEPT ![a][g] = Least(left + q, Cap[g])]
      /\ a # b => held' = [[held EXCEPT ![b][g] = left] EXCEPT ![a][g] = Credited(a, g, q)]
  BY DEF Seize
<1>2. a \in Entity /\ b \in Entity /\ g \in Good /\ q \in Nat /\ g = i.good
  OBVIOUS
<1>3. /\ held[b][g] \in Nat /\ held[a][g] \in Nat /\ held[a][g] <= Cap[g] /\ held[b][g] <= Cap[g]
      /\ Cap[g] \in Nat
  BY <1>2, Cells
<1> HIDE DEF a, b, g, q
<1>4. left \in Nat
  BY <1>1, <1>2, <1>3
<1>5. CASE a = b
  <2>1. Least(left + q, Cap[g]) = held[a][g]
    BY <1>2, <1>3, <1>5 DEF Least
  <2>2. held' = held
    BY <1>1, <1>2, <1>5, <2>1 DEF Piles
  <2> QED BY <1>1, <2>2, GoodsStill
<1>6. CASE a # b
  <2> DEFINE mid == [held EXCEPT ![b][g] = left]
             new == Credited(a, g, q)
  <2>1. held' = [mid EXCEPT ![a][g] = new]
    BY <1>1, <1>6
  <2>2. /\ mid \in [Entity -> [Good -> Nat]] /\ mid[b][g] = left
        /\ \A x \in Entity, h \in Good : <<x, h>> # <<b, g>> => mid[x][h] = held[x][h]
    BY <1>2, <1>4 DEF Piles
  <2>3. new \in Nat /\ new <= Cap[g] /\ new <= held[a][g] + q /\ (new < held[a][g] + q => new = Cap[g])
    BY <1>2, <1>3 DEF Credited, Least
  <2>7. left = held[b][g] - q
    OBVIOUS
  <2> HIDE DEF mid, new, left
  <2>4. /\ held' \in [Entity -> [Good -> Nat]] /\ held'[a][g] = new
        /\ \A x \in Entity, h \in Good : <<x, h>> # <<a, g>> => held'[x][h] = mid[x][h]
    BY <1>2, <2>1, <2>2, <2>3
  <2>5. /\ held'[b][g] = left
        /\ \A x \in Entity, h \in Good :
              <<x, h>> # <<a, g>> /\ <<x, h>> # <<b, g>> => held'[x][h] = held[x][h]
    BY <1>2, <1>6, <2>2, <2>4
  <2>6. i.op \in Moving
    BY DEF Moving
  <2> QED BY <1>1, <1>2, <1>6, <2>3, <2>4, <2>5, <2>6, <2>7, HandsGoods
<1> QED BY <1>5, <1>6

(* Wood drawn from the pile at hand and from one's own hands is the cost   *)
(* of a start.                                                             *)
LEMMA DrawsGoods ==
  ASSUME Piles, NEW e \in Entity, NEW q \in Nat, Draws(e, q), q > 0 => Consumed(Wood)
  PROVE  Goods
<1>0. /\ Wood \in Good /\ Shared \in Holder /\ held[e][Wood] \in Nat /\ held[e][Wood] <= Cap[Wood]
      /\ Cap[Wood] \in Nat
  BY Constants, Cells
<1>1. ASSUME NEW n \in Nat, n <= held[e][Wood], q > 0, held' = [held EXCEPT ![e][Wood] = @ - n],
             \/ UNCHANGED shelf
             \/ \E f \in Facility, m \in Nat :
                   /\ m = 0 \/ m <= shelf[f][Shared][Wood]
                   /\ shelf' = [shelf EXCEPT ![f][Shared][Wood] = @ - m]
      PROVE  Goods
  <2>1. /\ held' \in [Entity -> [Good -> Nat]] /\ held'[e][Wood] = held[e][Wood] - n
        /\ \A x \in Entity, h \in Good : <<x, h>> # <<e, Wood>> => held'[x][h] = held[x][h]
    BY <1>0, <1>1 DEF Piles
  <2> DEFINE shelved ==
               /\ shelf' \in [Facility -> [Holder -> [Good -> Int]]]
               /\ \A x \in Facility, y \in Holder, h \in Good :
                    /\ shelf'[x][y][h] <= shelf[x][y][h]
                    /\ shelf'[x][y][h] >= 0 \/ shelf'[x][y][h] >= shelf[x][y][h]
                    /\ h # Wood => shelf'[x][y][h] = shelf[x][y][h]
  <2>2. ASSUME NEW f \in Facility, NEW m \in Nat, m = 0 \/ m <= shelf[f][Shared][Wood],
               shelf' = [shelf EXCEPT ![f][Shared][Wood] = @ - m]
        PROVE  shelved
    <3>1. shelf[f][Shared][Wood] \in Int
      BY <1>0, Cells
    <3>2. /\ shelf' \in [Facility -> [Holder -> [Good -> Int]]]
          /\ shelf'[f][Shared][Wood] = shelf[f][Shared][Wood] - m
          /\ \A x \in Facility, y \in Holder, h \in Good :
                <<x, y, h>> # <<f, Shared, Wood>> => shelf'[x][y][h] = shelf[x][y][h]
      BY <1>0, <2>2, <3>1 DEF Piles
    <3>3. \A x \in Facility, y \in Holder, h \in Good : shelf[x][y][h] \in Int
      BY Cells
    <3> QED BY <2>2, <3>1, <3>2, <3>3
  <2>3. shelved
    <3>1. CASE UNCHANGED shelf
      <4>1. \A x \in Facility, y \in Holder, h \in Good : shelf[x][y][h] \in Int
        BY Cells
      <4> QED BY <3>1, <4>1 DEF Piles
    <3> HIDE DEF shelved
    <3> QED BY <1>1, <2>2, <3>1
  <2>4. \A x \in Entity, h \in Good : held'[x][h] <= held[x][h]
    <3>1. \A x \in Entity, h \in Good : held[x][h] \in Nat
      BY Cells
    <3> QED BY <1>0, <1>1, <2>1, <3>1
  <2>5. \A x \in Entity, h \in Good :
           /\ held[x][h] \in Nat /\ held'[x][h] \in Nat /\ held[x][h] <= Cap[h] /\ Cap[h] \in Nat
    BY <2>1, Cells
  <2>6. Piles'
    <3>1. \A x \in Entity, h \in Good : held'[x][h] <= Cap[h]
      BY <2>4, <2>5
    <3> QED BY <2>1, <2>3, <3>1 DEF Piles
  <2>7. \A h \in Good : \/ Consumed(h)
                        \/ /\ \A x \in Entity : held'[x][h] = held[x][h]
                           /\ \A x \in Facility, y \in Holder : shelf'[x][y][h] = shelf[x][y][h]
    BY <1>1, <2>1, <2>3
  <2> QED BY <2>3, <2>4, <2>6, <2>7, GoodsShrink
<1>2. CASE q = 0 /\ UNCHANGED <<held, shelf>>
  BY <1>2, GoodsStill
<1>3. CASE /\ q > 0 /\ held[e][Wood] >= q /\ held' = [held EXCEPT ![e][Wood] = @ - q] /\ UNCHANGED shelf
  BY <1>1, <1>3
<1>4. ASSUME NEW f \in Facility, q > 0, held[e][Wood] >= q - FromPile(f, q),
             held' = [held EXCEPT ![e][Wood] = @ - (q - FromPile(f, q))],
             shelf' = [shelf EXCEPT ![f][Shared][Wood] = @ - Greatest(FromPile(f, q), 0)]
      PROVE  Goods
  <2> DEFINE m == Greatest(FromPile(f, q), 0)
             n == q - FromPile(f, q)
  <2>1. shelf[f][Shared][Wood] \in Int
    BY <1>0, Cells
  <2>2. /\ FromPile(f, q) \in Int /\ FromPile(f, q) <= q
        /\ m \in Nat /\ (m = 0 \/ m <= shelf[f][Shared][Wood])
    BY <2>1 DEF FromPile, Least, Greatest
  <2>3. n \in Nat /\ n <= held[e][Wood]
    BY <1>0, <1>4, <2>2
  <2>4. /\ held' = [held EXCEPT ![e][Wood] = @ - n]
        /\ shelf' = [shelf EXCEPT ![f][Shared][Wood] = @ - m]
    BY <1>4
  <2> HIDE DEF m, n
  <2> QED BY <1>1, <1>4, <2>2, <2>3, <2>4
<1>5. \A f : f \in FacilityAt(e, "WOODPILE") => f \in Facility
  BY DEF FacilityAt
<1> QED BY <1>2, <1>3, <1>4, <1>5 DEF Draws

(* One hand takes up or puts down one good.                                *)
LEMMA HeldChange ==
  ASSUME Piles, NEW e \in Entity, NEW g \in Good, NEW n \in Nat, held' = [held EXCEPT ![e][g] = n]
  PROVE  /\ held' \in [Entity -> [Good -> Nat]] /\ held'[e][g] = n
         /\ \A x \in Entity, h \in Good : <<x, h>> # <<e, g>> => held'[x][h] = held[x][h]
  BY DEF Piles

(* Only the end of an extraction makes goods: wood, as much as was dug.    *)
LEMMA CompleteGoods ==
  ASSUME Piles, NEW r \in Run, phase = "dawn", bound[r] # Nobody, bound'[r] = Nobody, UNCHANGED shelf,
         NEW e \in Entity, NEW new \in Nat, new <= Cap[Wood], new <= held[e][Wood] + Dig[r[2]],
         new >= held[e][Wood],
         held' \in [Entity -> [Good -> Nat]], held'[e][Wood] = new,
         \A x \in Entity, h \in Good : <<x, h>> # <<e, Wood>> => held'[x][h] = held[x][h]
  PROVE  Goods
<1> DEFINE n == Dig[r[2]]
<1>1. n \in Nat /\ Wood \in Good
  BY Constants, LandAssumption DEF Run
<1>2. held[e][Wood] \in Nat
  BY <1>1, Cells
<1>6. Piles'
  <2>1. \A x \in Entity, h \in Good : held'[x][h] <= Cap[h]
    BY Cells
  <2>2. shelf' \in [Facility -> [Holder -> [Good -> Int]]]
    BY DEF Piles
  <2> QED BY <2>1, <2>2 DEF Piles
<1>7. \A g \in Good : /\ OnShelves(g)' = OnShelves(g) /\ OnShelves(g) \in Int
                      /\ InHand(g) \in Nat /\ InHand(g)' \in Nat
  BY <1>6, ShelfSame, ShelvedType, NextTotals
<1>8. ASSUME NEW g \in Good, g # Wood PROVE InHand(g)' = InHand(g)
  BY <1>8, HandSame
<1>9. InHand(Wood)' = InHand(Wood) - held[e][Wood] + held'[e][Wood]
  BY <1>1, <1>6, HandTotal
<1>10. GoodsAccounted
  <2> SUFFICES ASSUME NEW g \in Good
               PROVE  /\ Stock(g)' - Stock(g) > 0 => Extracted(g, Stock(g)' - Stock(g))
                      /\ ~(Stock(g)' - Stock(g) < 0)
    BY DEF GoodsAccounted
  <2>1. CASE g # Wood
    BY <1>7, <1>8, <2>1 DEF Stock
  <2>2. CASE g = Wood
    <3>1. Stock(g)' - Stock(g) <= n /\ Stock(g)' - Stock(g) >= 0
      BY <1>1, <1>2, <1>7, <1>9, <2>2 DEF Stock
    <3>2. Extracted(g, Stock(g)' - Stock(g))
      BY <2>2, <3>1 DEF Extracted
    <3> QED BY <1>1, <1>7, <2>2, <3>1, <3>2 DEF Stock
  <2> QED BY <2>1, <2>2
<1>11. \A x \in Facility, y \in Entity : StoreTotal(x, y)' <= StoreTotal(x, y)
  <2>1. \A x \in Facility, y \in Entity : StoreTotal(x, y)' = StoreTotal(x, y) /\ StoreTotal(x, y) \in Int
    BY Constants, StoreType DEF StoreTotal
  <2> QED BY <2>1
<1>12. DebtIsAsked
  <2>1. \A x \in Facility, y \in Holder, h \in Good : shelf'[x][y][h] = shelf[x][y][h] /\ shelf[x][y][h] \in Int
    BY Cells
  <2> QED BY <1>6, <2>1, NoRowOwes
<1> QED BY <1>6, <1>10, <1>11, <1>12, NoStoreGrows DEF Goods

(* What rots is no more than there was, and nothing of what does not rot.  *)
LEMMA LostIs ==
  ASSUME NEW g \in Good, NEW q \in Int
  PROVE  /\ q - Lost(g, q) \in Int /\ q - Lost(g, q) <= q
         /\ q >= 0 => q - Lost(g, q) >= 0
         /\ q < 0 \/ Rot[g] = 0 => q - Lost(g, q) = q
<1> DEFINE m == q * Rot[g]
           share == (m + 50) \div 100
<1>1. Rot[g] \in 0..100
  BY LandAssumption
<1>2. CASE q <= 0
  BY <1>2 DEF Lost
<1>3. CASE q > 0
  <2>1. m \in Nat /\ m <= 100 * q
    <3>1. q * Rot[g] <= q * 100 /\ q * Rot[g] >= 0 /\ q * Rot[g] \in Int
      BY <1>1, <1>3
    <3> QED BY <1>1, <1>3, <3>1
  <2>2. Lost(g, q) = IF Rot[g] = 0 THEN 0 ELSE IF share = 0 THEN q ELSE share
    BY <1>3 DEF Lost
  <2> HIDE DEF m
  <2>3. share \in Nat /\ share <= q
    BY <1>3, <2>1
  <2> HIDE DEF share
  <2> QED BY <1>3, <2>2, <2>3
<1> QED BY <1>2, <1>3

LEMMA DuskGoods ==
  ASSUME Piles, Dusk
  PROVE  Goods
<1>1. /\ held' = [e \in Entity |-> [g \in Good |-> held[e][g] - Lost(g, held[e][g])]]
      /\ shelf' = [f \in Facility |-> [o \in DOMAIN shelf[f] |-> [g \in Good |->
                     shelf[f][o][g] - Lost(g, shelf[f][o][g])]]]
      /\ phase = "intents" /\ phase' = "dusk"
  BY DEF Dusk
<1>2. \A e \in Entity, g \in Good : held[e][g] \in Nat /\ held[e][g] <= Cap[g] /\ Cap[g] \in Nat
  BY Cells
<1>3. \A f \in Facility, o \in Holder, g \in Good : shelf[f][o][g] \in Int
  BY Cells
<1>4. \A f \in Facility : DOMAIN shelf[f] = Holder
  BY DEF Piles
<1>5. \A e \in Entity, g \in Good :
         /\ held'[e][g] = held[e][g] - Lost(g, held[e][g])
         /\ held'[e][g] \in Nat /\ held'[e][g] <= held[e][g]
  <2> SUFFICES ASSUME NEW e \in Entity, NEW g \in Good
               PROVE  LET x == held[e][g] - Lost(g, held[e][g])
                      IN  held'[e][g] = x /\ x \in Nat /\ x <= held[e][g]
    OBVIOUS
  <2>1. held[e][g] \in Int /\ held[e][g] >= 0
    BY <1>2
  <2> QED BY <1>1, <2>1, LostIs
<1>6. \A f \in Facility, o \in Holder, g \in Good :
         /\ shelf'[f][o][g] = shelf[f][o][g] - Lost(g, shelf[f][o][g])
         /\ shelf'[f][o][g] \in Int /\ shelf'[f][o][g] <= shelf[f][o][g]
         /\ shelf'[f][o][g] >= 0 \/ shelf'[f][o][g] >= shelf[f][o][g]
  <2> SUFFICES ASSUME NEW f \in Facility, NEW o \in Holder, NEW g \in Good
               PROVE  LET x == shelf[f][o][g] - Lost(g, shelf[f][o][g])
                      IN  /\ shelf'[f][o][g] = x /\ x \in Int /\ x <= shelf[f][o][g]
                          /\ x >= 0 \/ x >= shelf[f][o][g]
    OBVIOUS
  <2>1. shelf[f][o][g] \in Int
    BY <1>3
  <2> QED BY <1>1, <1>4, <2>1, LostIs
<1>7. held' \in [Entity -> [Good -> Nat]]
  BY <1>1, <1>5
<1>8. shelf' \in [Facility -> [Holder -> [Good -> Int]]]
  <2>1. shelf' = [f \in Facility |-> [o \in Holder |-> [g \in Good |->
                    shelf[f][o][g] - Lost(g, shelf[f][o][g])]]]
    BY <1>1, <1>4
  <2>2. \A f \in Facility, o \in Holder, g \in Good : shelf[f][o][g] - Lost(g, shelf[f][o][g]) \in Int
    BY <1>3, LostIs
  <2> QED BY <2>1, <2>2
<1>9. Piles'
  <2>1. \A e \in Entity, g \in Good : held'[e][g] <= Cap[g]
    BY <1>2, <1>5
  <2> QED BY <1>7, <1>8, <2>1 DEF Piles
<1>10. ASSUME NEW g \in Good
       PROVE  \/ Consumed(g)
              \/ /\ \A e \in Entity : held'[e][g] = held[e][g]
                 /\ \A f \in Facility, o \in Holder : shelf'[f][o][g] = shelf[f][o][g]
  <2>1. Rot[g] \in 0..100
    BY LandAssumption
  <2>2. CASE Rot[g] > 0
    BY <1>1, <2>2 DEF Consumed
  <2>3. CASE Rot[g] = 0
    <3>1. \A e \in Entity : held[e][g] \in Int
      BY <1>2
    <3> QED BY <1>3, <1>5, <1>6, <2>3, <3>1, LostIs
  <2> QED BY <2>1, <2>2, <2>3
<1> QED BY <1>5, <1>6, <1>9, <1>10, GoodsShrink

(* What becomes of the goods of the dead.                                  *)
Inherited(x, g, e, r) ==
  IF x = e THEN 0
  ELSE IF x = r /\ g \notin Body THEN Credited(r, g, held[e][g]) ELSE held[x][g]

InheritedRow(f, o, g, e, r) ==
  IF o = e THEN Least(shelf[f][e][g], 0)
  ELSE IF o = r /\ g \notin Body THEN shelf[f][r][g] + Greatest(shelf[f][e][g], 0) ELSE shelf[f][o][g]

(* The estate of the dead.                                                 *)
LEMMA DieIs ==
  ASSUME Piles, Rows, NEW e \in Entity, e \in alive, Die(e)
  PROVE  LET r == Recipient(e)
         IN  /\ Piles' /\ r # e /\ (r \in alive' \/ r = Nobody) /\ alive' = alive \ {e}
             /\ \A x \in Entity, g \in Good : held'[x][g] = Inherited(x, g, e, r)
             /\ \A f \in Facility, o \in Holder, g \in Good : shelf'[f][o][g] = InheritedRow(f, o, g, e, r)
<1> DEFINE r == Recipient(e)
<1>1. alive' = alive \ {e} /\ (r \in alive \ {e} \/ r = Nobody)
  BY DEF Die, Recipient
<1>2. r # e /\ (r \in Entity \/ r = Nobody) /\ e \in Holder
  BY <1>1, Constants DEF Rows
<1>3. /\ held' = [x \in Entity |-> [g \in Good |->
           CASE x = e -> 0
             [] x = r /\ g \notin Body -> Credited(r, g, held[e][g])
             [] OTHER -> held[x][g]]]
      /\ shelf' = [f \in Facility |-> InheritedShelf(f, e, r)]
  BY DEF Die
<1> HIDE DEF r
<1>4. \A x \in Entity, g \in Good : held[x][g] \in Nat /\ held[x][g] <= Cap[g] /\ Cap[g] \in Nat
  BY Cells
<1>5. \A x \in Entity, g \in Good : held'[x][g] = Inherited(x, g, e, r)
  BY <1>2, <1>3 DEF Inherited
<1>6. \A g \in Good : r \in Entity => /\ Credited(r, g, held[e][g]) \in Nat
                                      /\ Credited(r, g, held[e][g]) <= Cap[g]
  BY <1>4 DEF Credited, Least
<1>7. \A x \in Entity, g \in Good : held'[x][g] \in Nat /\ held'[x][g] <= Cap[g]
  BY <1>2, <1>4, <1>5, <1>6 DEF Inherited
<1>8. held' \in [Entity -> [Good -> Nat]]
  BY <1>3, <1>7
<1>9. \A f \in Facility : DOMAIN shelf[f] = Holder
  BY DEF Piles
<1>10. \A f \in Facility :
          shelf'[f] = [o \in Holder |-> [g \in Good |->
            CASE o = e -> Least(shelf[f][e][g], 0)
              [] o = r /\ g \notin Body -> shelf[f][r][g] + Greatest(shelf[f][e][g], 0)
              [] OTHER -> shelf[f][o][g]]]
  BY <1>3, <1>9 DEF InheritedShelf
<1>11. \A f \in Facility, o \in Holder, g \in Good : shelf'[f][o][g] = InheritedRow(f, o, g, e, r)
  <2> SUFFICES ASSUME NEW f \in Facility, NEW o \in Holder, NEW g \in Good
               PROVE  shelf'[f][o][g] = InheritedRow(f, o, g, e, r)
    OBVIOUS
  <2>1. shelf'[f][o] = [h \in Good |->
            CASE o = e -> Least(shelf[f][e][h], 0)
              [] o = r /\ h \notin Body -> shelf[f][r][h] + Greatest(shelf[f][e][h], 0)
              [] OTHER -> shelf[f][o][h]]
    BY <1>10
  <2>2. shelf'[f][o][g] =
            CASE o = e -> Least(shelf[f][e][g], 0)
              [] o = r /\ g \notin Body -> shelf[f][r][g] + Greatest(shelf[f][e][g], 0)
              [] OTHER -> shelf[f][o][g]
    BY <2>1
  <2>3. CASE o = e
    BY <1>2, <2>2, <2>3 DEF InheritedRow
  <2>4. CASE o # e
    BY <2>2, <2>4 DEF InheritedRow
  <2> QED BY <2>3, <2>4
<1>12. \A f \in Facility, o \in Holder, g \in Good : shelf[f][o][g] \in Int
  BY Cells
<1>13. \A f \in Facility, o \in Holder, g \in Good : shelf'[f][o][g] \in Int
  <2>1. r \in Entity => r \in Holder
    BY Constants
  <2> QED BY <1>2, <1>11, <1>12, <2>1, Constants DEF InheritedRow, Least, Greatest
<1>14. shelf' \in [Facility -> [Holder -> [Good -> Int]]]
  <2>1. \A f \in Facility : shelf'[f] \in [Holder -> [Good -> Int]]
    BY <1>10, <1>13
  <2> QED BY <1>3, <2>1
<1>15. Piles'
  BY <1>7, <1>8, <1>14 DEF Piles
<1>16. r \in alive' \/ r = Nobody
  BY <1>1
<1> QED BY <1>1, <1>2, <1>5, <1>11, <1>15, <1>16 DEF r

(* What a death does to the goods of the world: no hand gains what nobody  *)
(* lost, the shelves keep what somebody inherits, and a store grows only   *)
(* where the dead had something.                                           *)
LEMMA DieGoods ==
  ASSUME Piles, Rows, NEW e \in Entity, e \in alive, Die(e)
  PROVE  /\ Goods
         /\ Recipient(e) # Nobody => \A g \in Good \ Body : OnShelves(g)' = OnShelves(g)
<1> DEFINE r == Recipient(e)
<1>1. /\ Piles' /\ r # e /\ (r \in alive' \/ r = Nobody) /\ alive' = alive \ {e}
      /\ \A x \in Entity, g \in Good : held'[x][g] = Inherited(x, g, e, r)
      /\ \A f \in Facility, o \in Holder, g \in Good : shelf'[f][o][g] = InheritedRow(f, o, g, e, r)
  BY DieIs
<1>0. ASSUME NEW g \in Good, g \in Body \/ r = Nobody \/ held'[r][g] = Cap[g] PROVE Consumed(g)
  BY <1>0, <1>1 DEF Consumed
<1> HIDE DEF r
<1>2. /\ r \in Entity \/ r = Nobody
      /\ e \in Holder /\ Nobody \notin Entity /\ Nobody \notin Holder
      /\ r \in Entity => r \in Holder
      /\ IsFiniteSet(Entity) /\ IsFiniteSet(Holder) /\ IsFiniteSet(Good)
  BY <1>1, Constants DEF Rows
<1>3. \A x \in Entity, g \in Good : held[x][g] \in Nat /\ held'[x][g] \in Nat /\ Cap[g] \in Nat
  BY <1>1, Cells
<1>4. \A f \in Facility, o \in Holder, g \in Good : shelf[f][o][g] \in Int /\ shelf'[f][o][g] \in Int
  BY <1>1, Cells
<1>5. ASSUME NEW g \in Good
      PROVE  /\ InHand(g)' <= InHand(g) /\ InHand(g)' \in Nat
             /\ r # Nobody /\ g \notin Body /\ InHand(g)' < InHand(g) => held'[r][g] = Cap[g]
  <2> DEFINE c == [x \in Entity |-> held[x][g]]
             d == [x \in Entity |-> held'[x][g]]
  <2>1. Counts(c, Entity) /\ Counts(d, Entity)
    BY <1>3 DEF Counts
  <2>2. InHand(g) = Total(c, Entity) /\ InHand(g)' = Total(d, Entity)
    BY DEF InHand
  <2>3. \A x \in Entity : c[x] = held[x][g] /\ d[x] = held'[x][g] /\ c[x] \in Nat /\ d[x] \in Nat
    BY <1>3
  <2> HIDE DEF c, d
  <2>4. Total(c, Entity) \in Nat /\ Total(d, Entity) \in Nat
    BY <1>2, <2>1, TotalType
  <2>5. CASE r \in Entity /\ g \notin Body
    <3>1. /\ \A x \in Entity \ {e, r} : d[x] = c[x]
          /\ d[e] = 0 /\ d[r] = Credited(r, g, c[e])
      BY <1>1, <2>3, <2>5 DEF Inherited
    <3>2. d[r] <= c[r] + c[e] /\ (d[r] < c[r] + c[e] => d[r] = Cap[g])
      BY <1>2, <1>3, <2>3, <2>5, <3>1 DEF Credited, Least
    <3>3. Total(d, Entity) = Total(c, Entity) - c[e] - c[r] + d[e] + d[r]
      BY <1>1, <1>2, <2>1, <2>5, <3>1, TotalMove
    <3> QED BY <2>2, <2>3, <2>4, <2>5, <3>1, <3>2, <3>3
  <2>6. CASE ~(r \in Entity /\ g \notin Body)
    <3>1. \A x \in Entity : d[x] \in Nat /\ d[x] <= c[x]
      BY <1>1, <2>3, <2>6 DEF Inherited
    <3>2. Total(d, Entity) <= Total(c, Entity)
      BY <1>2, <2>1, <3>1, TotalLess
    <3> QED BY <1>2, <2>2, <2>4, <2>6, <3>2
  <2> QED BY <2>5, <2>6
<1>6. ASSUME NEW f \in Facility, NEW g \in Good
      PROVE  /\ Shelved(f, g)' <= Shelved(f, g)
             /\ r # Nobody /\ g \notin Body => Shelved(f, g)' = Shelved(f, g)
  <2> DEFINE c == [o \in Holder |-> shelf[f][o][g]]
             d == [o \in Holder |-> shelf'[f][o][g]]
  <2>1. Signed(c, Holder) /\ Signed(d, Holder)
    BY <1>4 DEF Signed
  <2>2. Shelved(f, g) = Net(c, Holder) /\ Shelved(f, g)' = Net(d, Holder)
    BY DEF Shelved
  <2>3. \A o \in Holder : c[o] = shelf[f][o][g] /\ d[o] = shelf'[f][o][g] /\ c[o] \in Int /\ d[o] \in Int
    BY <1>4
  <2> HIDE DEF c, d
  <2>4. Net(c, Holder) \in Int /\ Net(d, Holder) \in Int
    BY <1>2, <2>1, NetType
  <2>5. CASE r \in Entity /\ g \notin Body
    <3>1. /\ \A o \in Holder \ {e, r} : d[o] = c[o]
          /\ d[e] = Least(c[e], 0) /\ d[r] = c[r] + Greatest(c[e], 0)
      BY <1>1, <1>2, <2>3, <2>5 DEF InheritedRow
    <3>2. d[e] + d[r] = c[e] + c[r]
      BY <1>2, <2>3, <2>5, <3>1 DEF Least, Greatest
    <3>3. Net(d, Holder) = Net(c, Holder) - c[e] - c[r] + d[e] + d[r]
      BY <1>1, <1>2, <2>1, <2>5, <3>1, NetMove
    <3> QED BY <1>2, <2>2, <2>3, <2>4, <2>5, <3>2, <3>3
  <2>6. CASE ~(r \in Entity /\ g \notin Body)
    <3>1. \A o \in Holder : d[o] <= c[o]
      BY <1>1, <1>2, <2>3, <2>6 DEF InheritedRow, Least
    <3>2. Net(d, Holder) <= Net(c, Holder)
      BY <1>2, <2>1, <3>1, NetLess
    <3> QED BY <1>2, <2>2, <2>6, <3>2
  <2> QED BY <2>5, <2>6
<1>7. \A g \in Good : OnShelves(g)' <= OnShelves(g)
  BY <1>1, <1>6, ShelvedLess
<1>8. r # Nobody => \A g \in Good \ Body : OnShelves(g)' = OnShelves(g)
  BY <1>6, ShelvedSame
<1>9. \A g \in Good : /\ InHand(g) \in Nat /\ OnShelves(g) \in Int
                      /\ InHand(g)' \in Nat /\ OnShelves(g)' \in Int
  BY <1>1, ShelvedType, NextTotals
<1>10. \A g \in Good : Stock(g)' \in Int /\ Stock(g) \in Int /\ Stock(g)' <= Stock(g)
  BY <1>5, <1>7, <1>9 DEF Stock
<1>11. ASSUME NEW g \in Good, Stock(g)' < Stock(g) PROVE Consumed(g)
  <2>1. CASE g \in Body \/ r = Nobody
    BY <1>0, <2>1
  <2>2. CASE g \notin Body /\ r # Nobody
    <3>1. InHand(g)' < InHand(g)
      BY <1>5, <1>8, <1>9, <1>11, <2>2 DEF Stock
    <3> QED BY <1>0, <1>5, <2>2, <3>1
  <2> QED BY <2>1, <2>2
<1>12. GoodsAccounted
  BY <1>10, <1>11, GoodsSpent
<1>13. StoreCapped
  <2> SUFFICES ASSUME NEW f \in Facility, NEW y \in Entity, StoreTotal(f, y)' > StoreTotal(f, y)
               PROVE  \E g \in Good : shelf[f][e][g] > 0
    BY <1>1 DEF StoreCapped
  <2> SUFFICES ASSUME \A g \in Good : ~(shelf[f][e][g] > 0) PROVE FALSE
    OBVIOUS
  <2>1. y \in Holder /\ StoreTotal(f, y) \in Int /\ StoreTotal(f, y)' \in Int
    BY <1>1, <1>2, Constants, StoreType, NextTotals
  <2>2. \A g \in Good : shelf'[f][y][g] <= shelf[f][y][g]
    BY <1>1, <1>2, <1>4, <2>1 DEF InheritedRow, Least, Greatest
  <2>3. StoreTotal(f, y)' <= StoreTotal(f, y)
    BY <1>1, <2>1, <2>2, StoreLess
  <2> QED BY <2>1, <2>3
<1>14. DebtIsAsked
  <2>1. \A f \in Facility, o \in Holder, g \in Good :
           shelf'[f][o][g] >= 0 \/ shelf'[f][o][g] >= shelf[f][o][g]
    BY <1>1, <1>2, <1>4 DEF InheritedRow, Least, Greatest
  <2> QED BY <1>1, <2>1, NoRowOwes
<1> QED BY <1>1, <1>8, <1>12, <1>13, <1>14 DEF Goods, r

-----------------------------------------------------------------------------
(* The books.                                                              *)

LEMMA LedgerStill ==
  ASSUME Ledger, UNCHANGED <<money, issued, buried>>
  PROVE  Ledger'
  BY DEF Ledger, Balanced

LEMMA LedgerTotal ==
  ASSUME Ledger
  PROVE  Counts(money, Entity) /\ Total(money, Entity) \in Nat
<1>1. Counts(money, Entity)
  BY DEF Ledger, Counts
<1> QED BY <1>1, Constants, TotalType

(* What leaves one account is in the other.                                *)
LEMMA MoveLedger ==
  ASSUME Ledger, NEW a \in Entity, NEW b \in Entity, NEW q \in Nat, Move(a, b, q)
  PROVE  Ledger'
<1>1. /\ money[a] >= q
      /\ money' = [e \in Entity |-> money[e] - (IF e = a THEN q ELSE 0)
                                             + (IF e = b THEN q ELSE 0)]
      /\ issued' = issued /\ buried' = buried
  BY DEF Move
<1>2. \A e \in Entity : money[e] \in Nat
  BY DEF Ledger
<1>3. \A e \in Entity : money'[e] \in Nat
  BY <1>1, <1>2
<1>4. money' \in [Entity -> Nat] /\ Counts(money', Entity)
  BY <1>1, <1>3 DEF Counts
<1>5. Counts(money, Entity) /\ Total(money, Entity) \in Nat /\ IsFiniteSet(Entity)
  BY LedgerTotal, Constants
<1>6. Total(money', Entity) = Total(money, Entity)
  <2>1. CASE a = b
    <3>1. \A e \in Entity : money'[e] = money[e]
      BY <1>1, <1>2, <2>1
    <3> QED BY <3>1, TotalSame
  <2>2. CASE a # b
    <3>1. /\ \A e \in Entity \ {a, b} : money'[e] = money[e]
          /\ money'[a] = money[a] - q /\ money'[b] = money[b] + q
      BY <1>1, <1>2, <2>2
    <3>2. Total(money', Entity) = Total(money, Entity) - money[a] - money[b] + money'[a] + money'[b]
      BY <1>4, <1>5, <2>2, <3>1, TotalMove
    <3> QED BY <1>2, <1>5, <3>1, <3>2
  <2> QED BY <2>1, <2>2
<1> QED BY <1>1, <1>4, <1>6 DEF Ledger, Balanced

(* The supply and one account change alike.                                *)
LEMMA SupplyLedger ==
  ASSUME Ledger, NEW e \in Entity, NEW q \in Int, Supply(e, q), issued + q <= MaxIssued
  PROVE  Ledger'
<1>1. /\ money[e] + q >= 0 /\ money' = [money EXCEPT ![e] = @ + q]
      /\ issued' = issued + q /\ buried' = buried
  BY DEF Supply
<1>2. money \in [Entity -> Nat] /\ buried \in Nat /\ issued \in 0..MaxIssued /\ MaxIssued \in Nat
  BY LandAssumption DEF Ledger
<1>3. /\ money' \in [Entity -> Nat] /\ money'[e] = money[e] + q /\ money[e] \in Nat
      /\ \A x \in Entity \ {e} : money'[x] = money[x]
  BY <1>1, <1>2
<1>4. Counts(money, Entity) /\ Total(money, Entity) \in Nat /\ IsFiniteSet(Entity)
  BY LedgerTotal, Constants
<1>5. Counts(money', Entity)
  BY <1>3 DEF Counts
<1>6. Total(money', Entity) = Total(money, Entity) - money[e] + money'[e] /\ Total(money', Entity) \in Nat
  BY <1>3, <1>4, <1>5, TotalChange, TotalType
<1>7. Total(money, Entity) + buried = issued
  BY DEF Ledger, Balanced
<1>8. Total(money', Entity) + buried' = issued' /\ issued' \in 0..MaxIssued
  BY <1>1, <1>2, <1>3, <1>4, <1>6, <1>7
<1> QED BY <1>1, <1>2, <1>3, <1>8 DEF Ledger, Balanced

(* A balance is inherited whole or buried whole.                           *)
LEMMA DieLedger ==
  ASSUME Ledger, Rows, NEW e \in Entity, e \in alive, Die(e)
  PROVE  Ledger'
<1> DEFINE r == Recipient(e)
<1>1. /\ money' = [x \in Entity |-> CASE x = e -> 0
                                      [] x = r -> money[r] + money[e]
                                      [] OTHER -> money[x]]
      /\ buried' = IF r = Nobody THEN buried + money[e] ELSE buried
      /\ issued' = issued
  BY DEF Die, Buried
<1>2. (r \in Entity \/ r = Nobody) /\ r # e
  BY Constants DEF Recipient, Rows
<1> HIDE DEF r
<1>3. \A x \in Entity : money'[x] = IF x = e THEN 0 ELSE IF x = r THEN money[r] + money[e] ELSE money[x]
  <2> SUFFICES ASSUME NEW x \in Entity
               PROVE  money'[x] = IF x = e THEN 0 ELSE IF x = r THEN money[r] + money[e] ELSE money[x]
    OBVIOUS
  <2>1. money'[x] = CASE x = e -> 0
                      [] x = r -> money[r] + money[e]
                      [] OTHER -> money[x]
    BY <1>1
  <2>2. CASE x = e
    BY <1>2, <2>1, <2>2
  <2>3. CASE x # e
    BY <2>1, <2>3
  <2> QED BY <2>2, <2>3
<1>4. money \in [Entity -> Nat] /\ buried \in Nat /\ issued \in 0..MaxIssued
  BY DEF Ledger
<1>5. \A x \in Entity : money'[x] \in Nat
  BY <1>2, <1>3, <1>4
<1>6. money' \in [Entity -> Nat] /\ Counts(money', Entity)
  BY <1>1, <1>5 DEF Counts
<1>7. Counts(money, Entity) /\ Total(money, Entity) \in Nat /\ IsFiniteSet(Entity)
  BY LedgerTotal, Constants
<1>8. Total(money, Entity) + buried = issued
  BY DEF Ledger, Balanced
<1>9. Total(money', Entity) + buried' = issued
  <2>1. CASE r = Nobody
    <3>1. \A x \in Entity \ {e} : money'[x] = money[x]
      BY <1>3, <2>1, Constants
    <3>2. Total(money', Entity) = Total(money, Entity) - money[e] + money'[e]
      BY <1>6, <1>7, <3>1, TotalChange
    <3> QED BY <1>1, <1>3, <1>4, <1>7, <1>8, <2>1, <3>2
  <2>2. CASE r # Nobody
    <3>1. /\ \A x \in Entity \ {e, r} : money'[x] = money[x]
          /\ money'[e] = 0 /\ money'[r] = money[r] + money[e]
      BY <1>2, <1>3, <2>2
    <3>2. Total(money', Entity) = Total(money, Entity) - money[e] - money[r] + money'[e] + money'[r]
      BY <1>2, <1>6, <1>7, <2>2, <3>1, TotalMove
    <3> QED BY <1>1, <1>2, <1>4, <1>7, <1>8, <2>2, <3>1, <3>2
  <2> QED BY <2>1, <2>2
<1>10. buried' \in Nat
  BY <1>1, <1>4
<1> QED BY <1>1, <1>4, <1>6, <1>9, <1>10 DEF Ledger, Balanced

(* Everybody begins with one.                                              *)
LEMMA OneEach == Total([e \in Entity |-> 1], Entity) = Cardinality(Entity)
<1> DEFINE one == [e \in Entity |-> 1]
           pair == [e \in Entity |-> <<e, 1>>]
<1>1. \A u : u \in Units(one, Entity) <=> \E e \in Entity : u = <<e, 1>>
  <2>1. \A e \in Entity : one[e] = 1 /\ 1..one[e] = {1}
    OBVIOUS
  <2> QED BY <2>1, UnitOf
<1>2. pair \in Bijection(Entity, Units(one, Entity))
  <2>1. pair \in [Entity -> Units(one, Entity)]
    BY <1>1
  <2>2. \A a, b \in Entity : pair[a] = pair[b] => a = b
    OBVIOUS
  <2>3. \A u \in Units(one, Entity) : \E e \in Entity : pair[e] = u
    BY <1>1
  <2> HIDE DEF pair, one
  <2> QED BY <2>1, <2>2, <2>3 DEF Bijection, Injection, Surjection, IsInjective
<1>3. Cardinality(Units(one, Entity)) = Cardinality(Entity)
  <2> HIDE DEF pair, one
  <2>1. ExistsBijection(Entity, Units(one, Entity))
    BY <1>2 DEF ExistsBijection
  <2> QED BY <2>1, Constants, FS_Bijection
<1> QED BY <1>3 DEF Total

LEMMA InitLedger == Init => Ledger
<1> SUFFICES ASSUME Init PROVE Ledger
  OBVIOUS
<1>1. money = [e \in Entity |-> 1] /\ issued = Cardinality(Entity) /\ buried = 0
  BY DEF Init
<1>2. issued \in 0..MaxIssued
  BY <1>1, LandAssumption, FS_CardinalityType
<1>3. Balanced
  <2>1. Total(money, Entity) = issued
    BY <1>1, OneEach
  <2> QED BY <1>1, <1>2, <2>1 DEF Balanced
<1> QED BY <1>1, <1>2, <1>3 DEF Ledger

-----------------------------------------------------------------------------
(* Fires and deposits.                                                     *)

LEMMA FiresStill ==
  ASSUME Fires, UNCHANGED <<fuel, deposit>>
  PROVE  Fires'
  BY DEF Fires

(* A deposit gives what it has.                                            *)
LEMMA StartFires ==
  ASSUME Fires, NEW p \in Parcel, NEW n \in Nat, deposit[p] >= n,
         deposit' = [deposit EXCEPT ![p] = @ - n], UNCHANGED fuel
  PROVE  Fires'
<1>1. \A q \in Parcel : deposit[q] \in Nat /\ deposit[q] <= Vein[q] /\ Vein[q] \in Nat
  BY LandAssumption DEF Fires
<1>2. \A q \in Parcel : deposit'[q] \in Nat /\ deposit'[q] <= Vein[q]
  BY <1>1 DEF Fires
<1>3. deposit' \in [Parcel -> Nat]
  BY <1>1 DEF Fires
<1> QED BY <1>2, <1>3 DEF Fires

(* A fire banks no more than it can hold.                                  *)
LEMMA StokedFires ==
  ASSUME Fires, NEW f \in Facility, NEW q \in Nat, fuel' = Stoked(f, q), UNCHANGED deposit
  PROVE  Fires'
<1>1. \A x \in Facility : fuel[x] \in Nat /\ fuel[x] <= FuelCap[x]
  BY DEF Fires
<1>2. fuel' = [fuel EXCEPT ![f] = IF fuel[f] + q <= FuelCap[f] THEN fuel[f] + q ELSE fuel[f]]
  BY DEF Stoked, Banks
<1>3. fuel' \in [Facility -> Nat] /\ \A x \in Facility : fuel'[x] <= FuelCap[x]
  BY <1>1, <1>2 DEF Fires
<1> QED BY <1>3 DEF Fires

LEMMA RegenFires ==
  ASSUME Fires, RegenDeposits
  PROVE  Fires'
<1>1. deposit' = [p \in Parcel |-> Least(Vein[p], deposit[p] + Regen[p])] /\ fuel' = fuel
  BY DEF RegenDeposits
<1>2. \A p \in Parcel : deposit[p] \in Nat /\ Vein[p] \in Nat /\ Regen[p] \in Nat
  BY LandAssumption DEF Fires
<1>3. \A p \in Parcel : deposit'[p] \in Nat /\ deposit'[p] <= Vein[p]
  BY <1>1, <1>2 DEF Least
<1>4. deposit' \in [Parcel -> Nat]
  BY <1>1, <1>3
<1> QED BY <1>1, <1>3, <1>4 DEF Fires

LEMMA DuskFires ==
  ASSUME Fires, Dusk
  PROVE  Fires'
<1>1. /\ fuel' = [f \in Facility |-> IF fuel[f] <= Burn[f] THEN 0 ELSE fuel[f] - Burn[f]]
      /\ deposit' = deposit
  BY DEF Dusk
<1>2. \A f \in Facility : fuel[f] \in Nat /\ fuel[f] <= FuelCap[f] /\ Burn[f] \in Nat /\ FuelCap[f] \in Nat
  BY LandAssumption DEF Fires
<1>3. \A f \in Facility : fuel'[f] \in Nat /\ fuel'[f] <= FuelCap[f]
  BY <1>1, <1>2
<1>4. fuel' \in [Facility -> Nat]
  BY <1>1, <1>3
<1> QED BY <1>1, <1>3, <1>4 DEF Fires

-----------------------------------------------------------------------------
(* Every operation, and every step, against the books, the goods and the   *)
(* fires.                                                                  *)

LEMMA GoodsIntent ==
  ASSUME NEW i \in Intent, i.op \in {"store", "take", "drop", "pickup"}
  PROVE  i.by \in Entity /\ i.good \in Good /\ i.q \in Int
  BY Constants DEF Intent, Seizure, Amount

LEMMA MoneyIntent ==
  ASSUME NEW i \in Intent, i.op \in {"pay", "levy"}
  PROVE  i.by \in Entity /\ i.to \in Entity /\ i.q \in Nat
  BY DEF Intent, Seizure

LEMMA SupplyIntent ==
  ASSUME NEW i \in Intent, i.op \in {"issue", "retire"}
  PROVE  i.by \in Entity /\ i.q = 1
  BY LandAssumption DEF Intent, Seizure

LEMMA SeizureIntent ==
  ASSUME NEW i \in Intent, i.op = "seize"
  PROVE  i.from \in Entity /\ i.to \in Entity /\ i.good \in Good /\ i.q \in Nat
  BY SeizeIntent, Constants DEF Seizure

Settled == Ledger' /\ Goods /\ Fires'

LEMMA SettledStill ==
  ASSUME Ledger, Piles, Fires, UNCHANGED <<money, issued, buried, held, shelf, fuel, deposit>>
  PROVE  Settled
  BY LedgerStill, GoodsStill, FiresStill DEF Settled

LEMMA ResolveSettles ==
  ASSUME Rows, Ledger, Piles, Fires, NEW i \in Intent, Resolve(i)
  PROVE  Settled
<1>1. CASE Store(i)
  <2>1. i.op = "store" /\ Rest
    BY <1>1 DEF Store
  <2>2. PICK f \in FacilityAt(i.by, "STORAGE") :
           StoreTotal(f, i.by) + i.q <= Seats[f] /\ PutAway(f, i.by, i.by, i.good, i.q)
    BY <1>1 DEF Store
  <2>3. f \in Facility
    BY DEF FacilityAt
  <2>4. i.by \in Entity /\ i.by \in Holder /\ i.good \in Good /\ i.q \in Int
    BY <2>1, GoodsIntent, Constants
  <2>5. Goods
    BY <2>1, <2>2, <2>3, <2>4, StoreGoods
  <2> QED BY <2>1, <2>5, LedgerStill, FiresStill DEF Rest, Settled
<1>2. CASE Unstore(i)
  <2>1. i.op = "take" /\ Rest
    BY <1>2 DEF Unstore
  <2>2. PICK f \in FacilityAt(i.by, "STORAGE") : TakeBack(f, i.by, i.by, i.good, i.q)
    BY <1>2 DEF Unstore
  <2>3. f \in Facility
    BY DEF FacilityAt
  <2>4. i.by \in Entity /\ i.by \in Holder /\ i.good \in Good /\ i.q \in Int
    BY <2>1, GoodsIntent, Constants
  <2>5. Goods
    BY <1>2, <2>1, <2>2, <2>3, <2>4, TakeBackGoods
  <2> QED BY <2>1, <2>5, LedgerStill, FiresStill DEF Rest, Settled
<1>3. CASE Drop(i)
  <2>1. i.op = "drop" /\ Rest
    BY <1>3 DEF Drop
  <2>2. PICK f \in DropTarget(i.by, i.good) : PutAway(f, Shared, i.by, i.good, i.q)
    BY <1>3 DEF Drop
  <2>3. f \in Facility
    BY DEF DropTarget, FacilityAt
  <2>4. i.by \in Entity /\ Shared \in Holder /\ i.good \in Good /\ i.q \in Int
    BY <2>1, GoodsIntent, Constants
  <2>5. Goods
    BY <2>1, <2>2, <2>3, <2>4, StoreGoods
  <2> QED BY <2>1, <2>5, LedgerStill, FiresStill DEF Rest, Settled
<1>4. CASE PickUp(i)
  <2>1. i.op = "pickup" /\ Rest
    BY <1>4 DEF PickUp
  <2>2. PICK f \in DropTarget(i.by, i.good) : TakeBack(f, Shared, i.by, i.good, i.q)
    BY <1>4 DEF PickUp
  <2>3. f \in Facility
    BY DEF DropTarget, FacilityAt
  <2>4. i.by \in Entity /\ Shared \in Holder /\ i.good \in Good /\ i.q \in Int
    BY <2>1, GoodsIntent, Constants
  <2>5. Goods
    BY <2>1, <2>2, <2>3, <2>4, TakeBackGoods
  <2> QED BY <2>1, <2>5, LedgerStill, FiresStill DEF Rest, Settled
<1>5. ASSUME NEW a \in Entity, NEW b \in Entity, NEW q \in Nat, Move(a, b, q) PROVE Settled
  <2>1. UNCHANGED <<held, shelf, fuel, deposit>>
    BY <1>5 DEF Move
  <2>2. Ledger'
    BY <1>5, MoveLedger
  <2> QED BY <2>1, <2>2, GoodsStill, FiresStill DEF Settled
<1>6. CASE Pay(i) \/ Levy(i)
  <2>1. i.op \in {"pay", "levy"} /\ (Move(i.by, i.to, i.q) \/ Move(i.to, i.by, i.q))
    BY <1>6 DEF Pay, Levy
  <2>2. i.by \in Entity /\ i.to \in Entity /\ i.q \in Nat
    BY <2>1, MoneyIntent
  <2> QED BY <1>5, <2>1, <2>2
<1>7. ASSUME NEW e \in Entity, NEW q \in Int, Supply(e, q), issued + q <= MaxIssued PROVE Settled
  <2>1. UNCHANGED <<held, shelf, fuel, deposit>>
    BY <1>7 DEF Supply
  <2>2. Ledger'
    BY <1>7, SupplyLedger
  <2> QED BY <2>1, <2>2, GoodsStill, FiresStill DEF Settled
<1>8. CASE Issue(i)
  <2>1. i.op = "issue" /\ issued + i.q <= MaxIssued /\ Supply(i.by, i.q)
    BY <1>8 DEF Issue
  <2>2. i.by \in Entity /\ i.q \in Int
    BY <2>1, SupplyIntent
  <2> QED BY <1>7, <2>1, <2>2
<1>9. CASE Retire(i)
  <2>1. i.op = "retire" /\ Supply(i.by, -i.q)
    BY <1>9 DEF Retire
  <2>2. i.by \in Entity /\ i.q = 1
    BY <2>1, SupplyIntent
  <2>3. issued + (-i.q) <= MaxIssued /\ -i.q \in Int
    BY <2>2, LandAssumption DEF Ledger
  <2> QED BY <1>7, <2>1, <2>2, <2>3
<1>10. CASE TransferParcel(i)
  BY <1>10, SettledStill DEF TransferParcel
<1>11. CASE Seize(i)
  <2>1. i.op = "seize" /\ UNCHANGED <<money, issued, buried, fuel, deposit>>
    BY <1>11 DEF Seize
  <2>2. Goods
    BY <1>11, <2>1, SeizureIntent, SeizeGoods
  <2> QED BY <2>1, <2>2, LedgerStill, FiresStill DEF Settled
<1>12. CASE Start(i)
  <2>1. /\ i.op = "start" /\ deposit[i.parcel] >= Dig[i.recipe] /\ Draws(i.by, Cost[i.recipe])
        /\ deposit' = [deposit EXCEPT ![i.parcel] = @ - Dig[i.recipe]]
        /\ UNCHANGED <<money, issued, buried, fuel>>
    BY <1>12 DEF Start
  <2>2. i.by \in Entity /\ i.recipe \in Recipe /\ i.parcel \in Parcel
    BY <2>1, StartIntent, StartParcel
  <2>3. Cost[i.recipe] \in Nat /\ Dig[i.recipe] \in Nat
    BY <2>2, LandAssumption
  <2>6. Cost[i.recipe] > 0 => Consumed(Wood)
    <3> DEFINE run == <<i.by, i.recipe>>
    <3>1. /\ run \in Run /\ bound[run] = Nobody /\ i.parcel # Nobody
          /\ bound' = [bound EXCEPT ![run] = i.parcel]
      BY <1>12, <2>2, LandAssumption DEF Start, Run
    <3>2. bound'[run] = i.parcel /\ run[2] = i.recipe
      BY <3>1 DEF Rows
    <3> HIDE DEF run
    <3> QED BY <3>1, <3>2 DEF Consumed
  <2>4. Goods
    BY <2>1, <2>2, <2>3, <2>6, DrawsGoods
  <2>5. Fires'
    BY <2>1, <2>2, <2>3, StartFires
  <2> QED BY <2>1, <2>4, <2>5, LedgerStill DEF Settled
<1>13. CASE Cancel(i)
  BY <1>13, SettledStill DEF Cancel
<1> QED BY <1>1, <1>2, <1>3, <1>4, <1>6, <1>8, <1>9, <1>10, <1>11, <1>12, <1>13 DEF Resolve

LEMMA CompleteSettles ==
  ASSUME Rows, Ledger, Piles, Fires, NEW r \in Run, Complete(r)
  PROVE  Settled
<1> DEFINE e == r[1]
           n == Dig[r[2]]
           new == IF n = 0 THEN held[e][Wood] ELSE Credited(e, Wood, n)
<1>1. /\ phase = "dawn" /\ bound[r] # Nobody /\ bound' = [bound EXCEPT ![r] = Nobody]
      /\ held' = [held EXCEPT ![e][Wood] = new]
      /\ UNCHANGED <<money, issued, buried, shelf, deposit>>
      /\ UNCHANGED fuel \/ \E f \in Facility : fuel' = Stoked(f, Fuel[r[2]])
  BY DEF Complete, On
<1>2. e \in Entity /\ r[2] \in Recipe /\ n \in Nat /\ Fuel[r[2]] \in Nat /\ Wood \in Good
  BY Constants, LandAssumption DEF Run
<1>3. held[e][Wood] \in Nat /\ held[e][Wood] <= Cap[Wood] /\ Cap[Wood] \in Nat
  BY <1>2, Constants DEF Piles
<1>4. new \in Nat /\ new <= Cap[Wood] /\ new <= held[e][Wood] + n /\ new >= held[e][Wood]
  BY <1>2, <1>3 DEF Credited, Least
<1>5. bound'[r] = Nobody
  BY <1>1 DEF Rows
<1>6. new <= held[e][Wood] + Dig[r[2]]
  BY <1>4
<1> HIDE DEF e, n, new
<1>7. /\ held' \in [Entity -> [Good -> Nat]] /\ held'[e][Wood] = new
      /\ \A x \in Entity, h \in Good : <<x, h>> # <<e, Wood>> => held'[x][h] = held[x][h]
  BY <1>1, <1>2, <1>4, HeldChange, ZenonT(60)
<1>8. Goods
  BY <1>1, <1>2, <1>4, <1>5, <1>6, <1>7, CompleteGoods
<1>9. Fires'
  BY <1>1, <1>2, FiresStill, StokedFires
<1> QED BY <1>1, <1>8, <1>9, LedgerStill DEF Settled

LEMMA StepSettles ==
  ASSUME Rows, Ledger, Piles, Fires, [Next]_vars
  PROVE  Settled
<1>0. pending \in Seq(Intent)
  BY DEF Rows
<1>1. ASSUME NEW i \in Intent, Submit(i) PROVE Settled
  BY <1>1, SettledStill DEF Submit, world
<1>2. ASSUME NEW i \in Intent, ResolveNow(i) \/ ScriptActs(i) PROVE Settled
  BY <1>2, ResolveSettles DEF ResolveNow, ScriptActs
<1>3. CASE Drain
  <2>1. pending # <<>> /\ (Resolve(Head(pending)) \/ UNCHANGED world)
    BY <1>3 DEF Drain
  <2>2. Head(pending) \in Intent
    BY <1>0, <2>1
  <2>3. CASE UNCHANGED world
    BY <2>3, SettledStill DEF world
  <2> QED BY <2>1, <2>2, <2>3, ResolveSettles
<1>4. ASSUME NEW p \in Parcel, NEW e \in Entity \union {Nobody}, Claim(p, e) PROVE Settled
  BY <1>4, SettledStill DEF Claim
<1>5. ASSUME NEW r \in Run, Complete(r) PROVE Settled
  BY <1>5, CompleteSettles
<1>6. ASSUME NEW e \in Entity, Incapacitate(e) PROVE Settled
  <2>1. e \in alive /\ Die(e) /\ UNCHANGED <<fuel, deposit>>
    BY <1>6 DEF Incapacitate, Die
  <2> QED BY <2>1, DieGoods, DieLedger, FiresStill DEF Settled
<1>7. CASE \E e \in Entity, pl \in Place : MoveEntity(e, pl)
  BY <1>7, SettledStill DEF MoveEntity, world
<1>8. CASE BeginTick \/ EndTick
  BY <1>8, SettledStill DEF BeginTick, EndTick, world
<1>9. CASE RegenDeposits
  <2>1. UNCHANGED <<money, issued, buried, held, shelf>>
    BY <1>9 DEF RegenDeposits
  <2> QED BY <1>9, <2>1, LedgerStill, GoodsStill, RegenFires DEF Settled
<1>10. CASE Dusk
  <2>1. UNCHANGED <<money, issued, buried>>
    BY <1>10 DEF Dusk
  <2> QED BY <1>10, <2>1, LedgerStill, DuskGoods, DuskFires DEF Settled
<1>11. CASE UNCHANGED vars
  BY <1>11, SettledStill DEF vars, world
<1> QED BY <1>1, <1>2, <1>3, <1>4, <1>5, <1>6, <1>7, <1>8, <1>9, <1>10, <1>11 DEF Next

-----------------------------------------------------------------------------
(* The clock, the outbox and the bounds.                                   *)

LEMMA ActsMore ==
  ASSUME Clock, Acts
  PROVE  acts' \in 0..MaxActs
  BY LandAssumption DEF Clock, Acts

LEMMA StepClock ==
  ASSUME Clock, Rows, [Next]_vars
  PROVE  Clock'
<1>0. /\ pending \in Seq(Intent) /\ Len(pending) <= MaxPending /\ MaxPending \in Nat
      /\ ticks \in 0..MaxTicks /\ MaxTicks \in Nat /\ acts \in 0..MaxActs
  BY LandAssumption DEF Rows, Clock
<1>1. ASSUME NEW i \in Intent, Submit(i) PROVE Clock'
  <2>1. /\ Len(pending) < MaxPending /\ pending' = Append(pending, i)
        /\ Acts /\ UNCHANGED <<phase, ticks, rule, at>>
    BY <1>1 DEF Submit
  <2>2. Len(pending') <= MaxPending
    BY <1>0, <2>1
  <2> QED BY <2>1, <2>2, ActsMore DEF Clock
<1>2. ASSUME NEW i \in Intent, ResolveNow(i) \/ ScriptActs(i) PROVE Clock'
  <2>1. Acts /\ UNCHANGED <<phase, ticks, pending, rule, at>>
    BY <1>2 DEF ResolveNow, ScriptActs
  <2> QED BY <2>1, ActsMore DEF Clock
<1>3. CASE Drain
  <2>1. pending # <<>> /\ pending' = Tail(pending) /\ UNCHANGED <<phase, ticks, acts, rule, at>>
    BY <1>3 DEF Drain
  <2>2. Len(pending') <= MaxPending
    BY <1>0, <2>1
  <2> QED BY <2>1, <2>2 DEF Clock
<1>4. ASSUME NEW p \in Parcel, NEW e \in Entity \union {Nobody}, Claim(p, e) PROVE Clock'
  <2>1. Acts /\ UNCHANGED <<phase, ticks, pending, rule, at>>
    BY <1>4 DEF Claim
  <2> QED BY <2>1, ActsMore DEF Clock
<1>5. ASSUME NEW r \in Run, Complete(r) PROVE Clock'
  BY <1>5 DEF Complete, Clock
<1>6. ASSUME NEW e \in Entity, Incapacitate(e) PROVE Clock'
  BY <1>6 DEF Incapacitate, Clock
<1>7. ASSUME NEW e \in Entity, NEW pl \in Place, MoveEntity(e, pl) PROVE Clock'
  <2>1. at' = [at EXCEPT ![e] = pl] /\ Acts /\ UNCHANGED <<phase, ticks, pending, rule>>
    BY <1>7 DEF MoveEntity
  <2> QED BY <2>1, ActsMore DEF Clock
<1>8. CASE BeginTick
  <2>1. ticks' \in 0..MaxTicks
    BY <1>0, <1>8 DEF BeginTick
  <2> QED BY <1>8, <2>1 DEF BeginTick, Clock
<1>9. CASE RegenDeposits \/ Dusk \/ EndTick
  BY <1>9 DEF RegenDeposits, Dusk, EndTick, Clock
<1>10. CASE UNCHANGED vars
  BY <1>10 DEF vars, Clock
<1> QED BY <1>1, <1>2, <1>3, <1>4, <1>5, <1>6, <1>7, <1>8, <1>9, <1>10 DEF Next

(* The inductive invariant: types and books together bound every balance,  *)
(* and the land rows are what keeps the rest well typed.                   *)
WorldInv == Clock /\ LandInv /\ Ledger /\ Piles /\ Fires

LEMMA InitStock == Init => Piles /\ Fires /\ Clock
<1> SUFFICES ASSUME Init PROVE Piles /\ Fires /\ Clock
  OBVIOUS
<1>1. Piles
  <2>1. /\ held = [e \in Entity |-> [g \in Good |-> IF g \in Body THEN 1 ELSE Cap[g]]]
        /\ shelf = [f \in Facility |-> [o \in Holder |-> [g \in Good |-> 0]]]
    BY DEF Init
  <2>2. \A e \in Entity, g \in Good : held[e][g] \in Nat /\ held[e][g] <= Cap[g]
    BY <2>1, Constants
  <2>3. held \in [Entity -> [Good -> Nat]]
    BY <2>1, <2>2
  <2> QED BY <2>1, <2>2, <2>3 DEF Piles
<1>2. Fires
  BY LandAssumption DEF Init, Fires
<1>3. Clock
  <2>1. /\ phase = "idle" /\ ticks = 0 /\ acts = 0 /\ pending = <<>> /\ at = Home
        /\ rule \in {"burn", "heir", "treasury"}
    BY DEF Init
  <2>2. Len(pending) = 0 /\ MaxPending \in Nat /\ MaxTicks \in Nat /\ MaxActs \in Nat
    BY <2>1, Constants
  <2> QED BY <2>1, <2>2, LandAssumption DEF Clock
<1> QED BY <1>1, <1>2, <1>3

LEMMA InitWorld == Init => WorldInv
  BY InitHolds, InitLedger, InitStock DEF WorldInv

LEMMA StepWorld ==
  ASSUME WorldInv, [Next]_vars
  PROVE  WorldInv' /\ Settled
<1>1. LandInv'
  BY StepHolds DEF WorldInv, Held, LandInv
<1>2. Settled
  BY StepSettles DEF WorldInv, LandInv
<1>3. Clock'
  BY StepClock DEF WorldInv, LandInv
<1> QED BY <1>1, <1>2, <1>3 DEF WorldInv, Settled, Goods

LEMMA WorldTypes == WorldInv => TypeOK
  BY Parts DEF WorldInv, LandInv

(* Every row keeps its type and its range in every world, whatever sign a  *)
(* script gives a quantity: no account, hand or deposit is overdrawn, no   *)
(* fire, deposit or hand overfilled.                                       *)
THEOREM LandTypes == Spec => []TypeOK
<1>1. Init => WorldInv
  BY InitWorld
<1>2. WorldInv /\ [Next]_vars => WorldInv'
  BY StepWorld
<1>3. WorldInv => TypeOK
  BY WorldTypes
<1> QED BY <1>1, <1>2, <1>3, PTL DEF Spec

(* Money and goods are conserved, for any number of citizens, goods and    *)
(* facilities and quantities of either sign: the accounts and the graves   *)
(* hold what was issued and not retired; what a row owes counted against   *)
(* it, only the end of an extraction adds to a good, and nothing takes     *)
(* from one but rot, death, the cost of a start and a hand too full for    *)
(* what is moved to it; a store passes its capacity only by inheritance or *)
(* a negative take, and a row owes only what was asked of it (services.py, *)
(* parcels.py, production.py and the estate in conditions.py).             *)
THEOREM ConservedHolds == Spec => Conserved
<1>1. Init => WorldInv
  BY InitWorld
<1>2. WorldInv /\ [Next]_vars => WorldInv'
  BY StepWorld
<1>3. WorldInv /\ [Next]_vars => [Balanced' /\ GoodsAccounted /\ StoreCapped /\ DebtIsAsked]_vars
  BY StepWorld DEF Settled, Goods, Ledger
<1> QED BY <1>1, <1>2, <1>3, PTL DEF Spec, Conserved

-----------------------------------------------------------------------------
(* Death.                                                                  *)

Settles(e) ==
  LET r == Recipient(e) IN
  /\ money'[e] = 0 /\ \A p \in Parcel : owner'[p] # e
  /\ \A c \in Recipe : bound'[<<e, c>>] = Nobody
  /\ \A g \in Good : held'[e][g] = 0 /\ \A f \in Facility : shelf'[f][e][g] <= 0
  /\ r # Nobody =>
       /\ r \in alive'
       /\ \A g \in Good \ Body : OnShelves(g)' = OnShelves(g)
       /\ \A p \in Parcel : owner'[p] = Nobody => owner[p] = Nobody
  /\ \A x \in Entity \ {e, r} : money'[x] = money[x] /\ held'[x] = held[x]

LEMMA DieSettles ==
  ASSUME Rows, Ledger, Piles, NEW e \in Entity, e \in alive, Die(e)
  PROVE  Settles(e) /\ alive \ alive' = {e}
<1> DEFINE r == Recipient(e)
<1>1. /\ Piles' /\ r # e /\ (r \in alive' \/ r = Nobody) /\ alive' = alive \ {e}
      /\ \A x \in Entity, g \in Good : held'[x][g] = Inherited(x, g, e, r)
      /\ \A f \in Facility, o \in Holder, g \in Good : shelf'[f][o][g] = InheritedRow(f, o, g, e, r)
  BY DieIs
<1>2. /\ money' = [x \in Entity |-> CASE x = e -> 0
                                      [] x = r -> money[r] + money[e]
                                      [] OTHER -> money[x]]
      /\ owner' = [p \in Parcel |-> IF owner[p] = e THEN r ELSE owner[p]]
      /\ bound' = [s \in Run |-> IF s[1] = e THEN Nobody ELSE bound[s]]
  BY DEF Die, WorkStops
<1>3. r # Nobody => \A g \in Good \ Body : OnShelves(g)' = OnShelves(g)
  BY DieGoods
<1> HIDE DEF r
<1>4. money'[e] = 0
  BY <1>1, <1>2
<1>5. \A p \in Parcel : owner'[p] # e
  BY <1>1, <1>2
<1>6. \A c \in Recipe : bound'[<<e, c>>] = Nobody
  <2> SUFFICES ASSUME NEW c \in Recipe PROVE bound'[<<e, c>>] = Nobody
    OBVIOUS
  <2>1. <<e, c>> \in Run
    BY DEF Run
  <2> QED BY <1>2, <2>1
<1>7. \A g \in Good : held'[e][g] = 0 /\ \A f \in Facility : shelf'[f][e][g] <= 0
  <2>1. \A f \in Facility, g \in Good : shelf[f][e][g] \in Int
    BY Cells, Constants
  <2> QED BY <1>1, <2>1, Constants DEF Inherited, InheritedRow, Least
<1>8. r # Nobody => \A p \in Parcel : owner'[p] = Nobody => owner[p] = Nobody
  BY <1>2
<1>9. \A x \in Entity \ {e, r} : money'[x] = money[x] /\ held'[x] = held[x]
  <2> SUFFICES ASSUME NEW x \in Entity \ {e, r} PROVE money'[x] = money[x] /\ held'[x] = held[x]
    OBVIOUS
  <2>1. money'[x] = money[x]
    BY <1>2
  <2>2. \A g \in Good : held'[x][g] = held[x][g]
    BY <1>1 DEF Inherited
  <2>3. held'[x] \in [Good -> Nat] /\ held[x] \in [Good -> Nat]
    BY <1>1 DEF Piles
  <2>4. held'[x] = [g \in Good |-> held'[x][g]] /\ held[x] = [g \in Good |-> held[x][g]]
    BY <2>3
  <2> QED BY <2>1, <2>2, <2>4
<1>10. alive \ alive' = {e}
  BY <1>1
<1> QED BY <1>1, <1>3, <1>4, <1>5, <1>6, <1>7, <1>8, <1>9, <1>10 DEF Settles, r

(* Nobody dies but by Incapacitate.                                        *)
LEMMA StepDeaths ==
  ASSUME WorldInv, [Next]_vars
  PROVE  \A e \in alive \ alive' : Settles(e)
<1>0. Rows /\ Ledger /\ Piles
  BY DEF WorldInv, LandInv
<1>1. ASSUME NEW e \in Entity, Incapacitate(e) PROVE \A d \in alive \ alive' : Settles(d)
  <2>1. e \in alive /\ Die(e)
    BY <1>1 DEF Incapacitate
  <2>2. Settles(e) /\ alive \ alive' = {e}
    BY <1>0, <2>1, DieSettles
  <2> QED BY <2>2
<1>2. ASSUME NEW i, Resolve(i) PROVE alive' = alive
  BY <1>2 DEF Resolve, Store, Unstore, Drop, PickUp, Rest, Pay, Levy, Issue, Retire, Move, Supply,
              TransferParcel, Seize, Start, Cancel
<1>3. CASE alive' = alive
  BY <1>3
<1>4. CASE \E i \in Intent : Submit(i) \/ ResolveNow(i) \/ ScriptActs(i)
  BY <1>2, <1>3, <1>4 DEF Submit, ResolveNow, ScriptActs, world
<1>5. CASE Drain
  BY <1>2, <1>3, <1>5 DEF Drain, world
<1>6. CASE \E p \in Parcel, e \in Entity \union {Nobody} : Claim(p, e)
  BY <1>3, <1>6 DEF Claim
<1>7. CASE \E r \in Run : Complete(r)
  BY <1>3, <1>7 DEF Complete
<1>8. CASE \E e \in Entity, pl \in Place : MoveEntity(e, pl)
  BY <1>3, <1>8 DEF MoveEntity, world
<1>9. CASE BeginTick \/ RegenDeposits \/ Dusk \/ EndTick \/ UNCHANGED vars
  BY <1>3, <1>9 DEF BeginTick, RegenDeposits, Dusk, EndTick, vars, world
<1> QED BY <1>1, <1>4, <1>5, <1>6, <1>7, <1>8, <1>9 DEF Next

(* A death settles everything at once, for any family, rule and holdings:  *)
(* the dead keep nothing, an heir who lives gets the shelves whole and the *)
(* land, and no third party gains or loses (conditions._incapacitate).     *)
THEOREM DeathSettlesHolds == Spec => DeathSettles
<1>1. Init => WorldInv
  BY InitWorld
<1>2. WorldInv /\ [Next]_vars => WorldInv'
  BY StepWorld
<1>3. WorldInv /\ [Next]_vars =>
        [\A e \in alive \ alive' :
           LET r == Recipient(e) IN
           /\ money'[e] = 0 /\ \A p \in Parcel : owner'[p] # e
           /\ \A c \in Recipe : bound'[<<e, c>>] = Nobody
           /\ \A g \in Good : held'[e][g] = 0 /\ \A f \in Facility : shelf'[f][e][g] <= 0
           /\ r # Nobody =>
                /\ r \in alive'
                /\ \A g \in Good \ Body : OnShelves(g)' = OnShelves(g)
                /\ \A p \in Parcel : owner'[p] = Nobody => owner[p] = Nobody
           /\ \A x \in Entity \ {e, r} : money'[x] = money[x] /\ held'[x] = held[x]]_vars
  BY StepDeaths DEF Settles
<1> QED BY <1>1, <1>2, <1>3, PTL DEF Spec, DeathSettles

-----------------------------------------------------------------------------
(* The road planned for a journey: what the search has found after k steps *)
(* is read from a recursive function, which exists as its steps stay in a  *)
(* set.                                                                    *)

Runs(h, n, S, F, x) == h \in [0..n -> S] /\ h[0] = x /\ \A k \in 1..n : h[k] = F[h[k - 1]]

LEMMA RunsExtend ==
  ASSUME NEW S, NEW F \in [S -> S], NEW x \in S, NEW n \in Nat, NEW h, Runs(h, n, S, F, x)
  PROVE  \E g : Runs(g, n + 1, S, F, x)
<1> DEFINE g == [k \in 0..n + 1 |-> IF k = n + 1 THEN F[h[n]] ELSE h[k]]
<1>1. h \in [0..n -> S] /\ h[0] = x /\ \A k \in 1..n : h[k] = F[h[k - 1]]
  BY DEF Runs
<1>2. \A k \in 0..n + 1 : g[k] \in S
  <2> TAKE k \in 0..n + 1
  <2>1. CASE k = n + 1
    BY <1>1, <2>1
  <2>2. CASE k # n + 1
    <3>1. k \in 0..n
      BY <2>2
    <3> QED BY <1>1, <2>2, <3>1
  <2> QED BY <2>1, <2>2
<1>3. g \in [0..n + 1 -> S]
  BY <1>2
<1>4. g[0] = x
  <2>1. 0 \in 0..n + 1 /\ 0 # n + 1
    OBVIOUS
  <2> QED BY <1>1, <2>1
<1>5. \A k \in 1..n + 1 : g[k] = F[g[k - 1]]
  <2> TAKE k \in 1..n + 1
  <2>1. k \in 0..n + 1 /\ k - 1 \in 0..n + 1 /\ k - 1 # n + 1
    OBVIOUS
  <2>2. g[k - 1] = h[k - 1]
    BY <2>1
  <2>3. CASE k = n + 1
    BY <2>1, <2>2, <2>3
  <2>4. CASE k # n + 1
    <3>1. k \in 1..n
      BY <2>4
    <3>2. g[k] = h[k]
      BY <2>1, <2>4
    <3> QED BY <1>1, <2>2, <3>1, <3>2
  <2> QED BY <2>3, <2>4
<1> HIDE DEF g
<1> QED BY <1>3, <1>4, <1>5 DEF Runs

LEMMA RunsExist ==
  ASSUME NEW S, NEW F \in [S -> S], NEW x \in S
  PROVE  \A n \in Nat : \E h : Runs(h, n, S, F, x)
<1> DEFINE bad == {n \in Nat : ~ \E h : Runs(h, n, S, F, x)}
<1> SUFFICES ASSUME bad # {} PROVE FALSE
  OBVIOUS
<1>1. bad \subseteq Nat
  OBVIOUS
<1>2. PICK n \in bad : \A u \in bad : n <= u
  <2> HIDE DEF bad
  <2> QED BY <1>1, LeastOf
<1>3. n \in Nat /\ ~ \E h : Runs(h, n, S, F, x)
  BY <1>2
<1>4. CASE n = 0
  <2> DEFINE h == [k \in 0..0 |-> x]
  <2>1. h \in [0..0 -> S] /\ h[0] = x
    OBVIOUS
  <2>2. \A k \in 1..0 : h[k] = F[h[k - 1]]
    OBVIOUS
  <2> HIDE DEF h
  <2>3. Runs(h, 0, S, F, x)
    BY <2>1, <2>2 DEF Runs
  <2> QED BY <1>3, <1>4, <2>3
<1>5. CASE n # 0
  <2> DEFINE m == n - 1
  <2>1. m \in Nat /\ m < n /\ m + 1 = n
    BY <1>3, <1>5
  <2>2. m \notin bad
    BY <1>2, <1>3, <2>1
  <2>3. PICK h : Runs(h, m, S, F, x)
    BY <2>1, <2>2
  <2> HIDE DEF m
  <2>4. \E g : Runs(g, m + 1, S, F, x)
    BY <2>1, <2>3, RunsExtend
  <2> QED BY <1>3, <2>1, <2>4
<1> QED BY <1>4, <1>5

LEMMA RunsAgree ==
  ASSUME NEW S, NEW F \in [S -> S], NEW x \in S, NEW m \in Nat, NEW n \in Nat, m <= n,
         NEW h, Runs(h, m, S, F, x), NEW g, Runs(g, n, S, F, x)
  PROVE  \A k \in 0..m : h[k] = g[k]
<1> DEFINE bad == {k \in 0..m : h[k] # g[k]}
<1> SUFFICES ASSUME bad # {} PROVE FALSE
  OBVIOUS
<1>1. bad \subseteq Nat
  OBVIOUS
<1>2. PICK k \in bad : \A u \in bad : k <= u
  <2> HIDE DEF bad
  <2> QED BY <1>1, LeastOf
<1>3. k \in 0..m /\ h[k] # g[k] /\ k # 0
  BY <1>2 DEF Runs
<1>4. k - 1 \in 0..m /\ k \in 1..m /\ k \in 1..n /\ k - 1 < k
  BY <1>3
<1>5. h[k - 1] = g[k - 1]
  <2>1. k - 1 \notin bad
    BY <1>2, <1>3, <1>4
  <2> QED BY <1>4, <2>1
<1> QED BY <1>3, <1>4, <1>5 DEF Runs

(* A function can be iterated on a set it stays in.                        *)
Iterates(g, S, F, x) == g \in [Nat -> S] /\ g[0] = x /\ \A n \in Nat : g[n + 1] = F[g[n]]

LEMMA Iterated ==
  ASSUME NEW S, NEW F \in [S -> S], NEW x \in S
  PROVE  \E g : Iterates(g, S, F, x)
<1> DEFINE run(n) == CHOOSE h : Runs(h, n, S, F, x)
           g == [n \in Nat |-> run(n)[n]]
<1>1. ASSUME NEW n \in Nat PROVE Runs(run(n), n, S, F, x)
  BY RunsExist
<1> HIDE DEF run
<1>2. ASSUME NEW n \in Nat PROVE run(n)[n] \in S
  <2>1. n \in 0..n
    OBVIOUS
  <2> QED BY <1>1, <2>1 DEF Runs
<1>3. g \in [Nat -> S]
  BY <1>2
<1>4. g[0] = x
  BY <1>1 DEF Runs
<1>5. ASSUME NEW n \in Nat PROVE g[n + 1] = F[g[n]]
  <2>1. n + 1 \in Nat /\ n <= n + 1 /\ n \in 0..n /\ n + 1 \in 1..n + 1 /\ (n + 1) - 1 = n
    OBVIOUS
  <2>2. Runs(run(n), n, S, F, x) /\ Runs(run(n + 1), n + 1, S, F, x)
    BY <1>1, <2>1
  <2>3. run(n)[n] = run(n + 1)[n]
    BY <2>1, <2>2, RunsAgree
  <2>4. run(n + 1)[n + 1] = F[run(n + 1)[n]]
    BY <2>1, <2>2 DEF Runs
  <2> QED BY <2>1, <2>3, <2>4
<1> HIDE DEF g
<1> QED BY <1>3, <1>4, <1>5 DEF Iterates

(* The first of the ways out, and of the heap, by cost and then by tie.    *)
LEMMA FirstByCost ==
  ASSUME NEW W, W # {}, \A y \in W : y[1] \in Nat /\ y[2] \in Nat
  PROVE  \E x \in W : \A y \in W : x[1] < y[1] \/ (x[1] = y[1] /\ x[2] <= y[2])
<1> DEFINE costs == {y[1] : y \in W}
<1>1. PICK c \in costs : \A d \in costs : c <= d
  <2>1. costs \subseteq Nat /\ costs # {}
    OBVIOUS
  <2> HIDE DEF costs
  <2> QED BY <2>1, LeastOf
<1> DEFINE ties == {y[2] : y \in {z \in W : z[1] = c}}
<1>2. PICK e \in ties : \A d \in ties : e <= d
  <2>1. ties \subseteq Nat /\ ties # {}
    OBVIOUS
  <2> HIDE DEF ties
  <2> QED BY <2>1, LeastOf
<1>3. PICK x \in W : x[1] = c /\ x[2] = e
  OBVIOUS
<1>4. \A y \in W : c <= y[1] /\ (y[1] = c => e <= y[2])
  BY <1>1, <1>2
<1>5. \A y \in W : x[1] < y[1] \/ (x[1] = y[1] /\ x[2] <= y[2])
  <2> TAKE y \in W
  <2>1. y[1] \in Nat /\ x[1] \in Nat
    OBVIOUS
  <2> QED BY <1>3, <1>4, <2>1
<1> QED BY <1>5

LEMMA Roads ==
  ASSUME map \in Maps
  PROVE  /\ Len(map) \in Nat /\ DOMAIN map = 1..Len(map)
         /\ \A i \in DOMAIN map : /\ i \in Nat /\ i > 0
                                  /\ map[i].a \in Spot /\ map[i].b \in Spot /\ map[i].mode \in Mode
                                  /\ map[i].cost \in Nat /\ map[i].cost > 0
<1>1. map \in Seq(Edge)
  BY TravelAssumption
<1>2. Len(map) \in Nat /\ DOMAIN map = 1..Len(map) /\ \A i \in DOMAIN map : map[i] \in Edge
  BY <1>1
<1> QED BY <1>2 DEF Edge

(* The ways out of a place are the roads that join it to others.           *)
LEMMA WaysOut ==
  ASSUME map \in Maps, NEW p \in Spot, NEW modes
  PROVE  /\ \A w \in Neighbours(p, modes) : /\ w[1] \in Nat /\ w[1] > 0 /\ w[2] \in Nat /\ w[3] \in Spot
                                            /\ w[4] \in DOMAIN map /\ w[1] = map[w[4]].cost
                                            /\ Joins(p, w[3], w[4], modes)
         /\ \A i \in DOMAIN map : \A q : Joins(p, q, i, modes) =>
              \E w \in Neighbours(p, modes) : w[3] = q /\ w[1] = map[i].cost
<1>1. ASSUME NEW w \in Neighbours(p, modes)
      PROVE  /\ w[1] \in Nat /\ w[1] > 0 /\ w[2] \in Nat /\ w[3] \in Spot
             /\ w[4] \in DOMAIN map /\ w[1] = map[w[4]].cost
             /\ Joins(p, w[3], w[4], modes)
  <2>1. CASE \E i \in DOMAIN map : map[i].a = p /\ map[i].mode \in modes /\ w = <<map[i].cost, 2 * i, map[i].b, i>>
    <3>1. PICK i \in DOMAIN map : map[i].a = p /\ map[i].mode \in modes /\ w = <<map[i].cost, 2 * i, map[i].b, i>>
      BY <2>1
    <3>2. w[1] = map[i].cost /\ w[2] = 2 * i /\ w[3] = map[i].b /\ w[4] = i /\ 2 * i \in Nat
      BY <3>1, Roads
    <3> QED BY <3>1, <3>2, Roads DEF Joins
  <2>2. CASE \E i \in DOMAIN map : map[i].b = p /\ map[i].two /\ map[i].mode \in modes /\ w = <<map[i].cost, 2 * i + 1, map[i].a, i>>
    <3>1. PICK i \in DOMAIN map : map[i].b = p /\ map[i].two /\ map[i].mode \in modes /\ w = <<map[i].cost, 2 * i + 1, map[i].a, i>>
      BY <2>2
    <3>2. w[1] = map[i].cost /\ w[2] = 2 * i + 1 /\ w[3] = map[i].a /\ w[4] = i /\ 2 * i + 1 \in Nat
      BY <3>1, Roads
    <3> QED BY <3>1, <3>2, Roads DEF Joins
  <2>3. \/ \E i \in DOMAIN map : map[i].a = p /\ map[i].mode \in modes /\ w = <<map[i].cost, 2 * i, map[i].b, i>>
        \/ \E i \in DOMAIN map : map[i].b = p /\ map[i].two /\ map[i].mode \in modes /\ w = <<map[i].cost, 2 * i + 1, map[i].a, i>>
    BY Zenon DEF Neighbours
  <2> QED BY <2>1, <2>2, <2>3
<1>2. ASSUME NEW i \in DOMAIN map, NEW q, Joins(p, q, i, modes)
      PROVE  \E w \in Neighbours(p, modes) : w[3] = q /\ w[1] = map[i].cost
  <2>0. map[i].mode \in modes /\ ((map[i].a = p /\ map[i].b = q) \/ (map[i].two /\ map[i].b = p /\ map[i].a = q))
    BY <1>2 DEF Joins
  <2>1. CASE map[i].a = p /\ map[i].b = q
    <3>1. <<map[i].cost, 2 * i, map[i].b, i>> \in Neighbours(p, modes)
      BY <2>0, <2>1 DEF Neighbours
    <3> QED BY <2>1, <3>1
  <2>2. CASE map[i].two /\ map[i].b = p /\ map[i].a = q
    <3>1. <<map[i].cost, 2 * i + 1, map[i].a, i>> \in Neighbours(p, modes)
      BY <2>0, <2>2 DEF Neighbours
    <3> QED BY <2>2, <3>1
  <2> QED BY <2>0, <2>1, <2>2
<1> QED BY <1>1, <1>2

Hops == Seq(DOMAIN map)

LEMMA HopCost ==
  ASSUME map \in Maps, NEW hops \in Hops
  PROVE  /\ CostOf(hops) \in Nat /\ CostOf(<<>>) = 0
         /\ \A i \in DOMAIN map : CostOf(Append(hops, i)) = CostOf(hops) + map[i].cost
<1> DEFINE cost == [n \in DOMAIN hops |-> map[hops[n]].cost]
<1>1. Len(hops) \in Nat /\ DOMAIN hops = 1..Len(hops) /\ \A n \in DOMAIN hops : hops[n] \in DOMAIN map
  BY DEF Hops
<1>2. IsFiniteSet(DOMAIN hops) /\ Counts(cost, DOMAIN hops)
  BY <1>1, Roads, FS_Interval DEF Counts
<1>3. CostOf(hops) = Total(cost, DOMAIN hops)
  BY DEF CostOf
<1>4. CostOf(hops) \in Nat
  <2> HIDE DEF cost
  <2> QED BY <1>2, <1>3, TotalType
<1>5. CostOf(<<>>) = 0
  <2>1. DOMAIN <<>> = {}
    OBVIOUS
  <2> QED BY <2>1, TotalEmpty DEF CostOf
<1>6. ASSUME NEW i \in DOMAIN map PROVE CostOf(Append(hops, i)) = CostOf(hops) + map[i].cost
  <2> DEFINE far == Append(hops, i)
             m == Len(hops) + 1
             more == [n \in DOMAIN far |-> map[far[n]].cost]
  <2>1. /\ DOMAIN far = DOMAIN hops \union {m} /\ m \notin DOMAIN hops /\ far[m] = i
        /\ \A n \in DOMAIN hops : far[n] = hops[n]
    BY <1>1 DEF Hops
  <2> HIDE DEF far, m
  <2>2. \A n \in DOMAIN hops : more[n] = cost[n]
    BY <2>1
  <2>3. more[m] = map[i].cost /\ more[m] \in Nat
    BY <2>1, Roads
  <2>4. Counts(more, DOMAIN hops)
    BY <1>2, <2>2 DEF Counts
  <2>5. CostOf(far) = Total(more, DOMAIN hops \union {m})
    BY <2>1 DEF CostOf
  <2> HIDE DEF more, cost
  <2>6. CostOf(far) = Total(more, DOMAIN hops) + more[m]
    BY <1>2, <2>1, <2>3, <2>4, <2>5, TotalAdd
  <2>7. Total(more, DOMAIN hops) = Total(cost, DOMAIN hops)
    BY <2>2, TotalSame
  <2> QED BY <1>3, <2>3, <2>6, <2>7 DEF far
<1> QED BY <1>4, <1>5, <1>6

LEMMA LeadsOn ==
  ASSUME map \in Maps, NEW a \in Spot, NEW modes, NEW p \in Spot, NEW hops \in Hops, Leads(hops, a, p, modes),
         NEW q \in Spot, NEW i \in DOMAIN map, Joins(p, q, i, modes)
  PROVE  Leads(Append(hops, i), a, q, modes)
<1> DEFINE m == Len(hops)
           far == Append(hops, i)
<1>1. m \in Nat /\ DOMAIN hops = 1..m
  BY DEF Hops
<1>2. /\ Len(far) = m + 1 /\ DOMAIN far = 1..m + 1 /\ far[m + 1] = i
      /\ \A n \in 1..m : far[n] = hops[n]
  BY <1>1 DEF Hops
<1>3. PICK path \in [1..m + 1 -> Spot] :
        /\ path[1] = a /\ path[m + 1] = p
        /\ \A n \in DOMAIN hops : Joins(path[n], path[n + 1], hops[n], modes)
  BY DEF Leads
<1> DEFINE on == [n \in 1..m + 2 |-> IF n = m + 2 THEN q ELSE path[n]]
<1> HIDE DEF m, far
<1>4. on \in [1..m + 2 -> Spot] /\ on[1] = a /\ on[m + 2] = q
  <2>1. \A n \in 1..m + 2 : n # m + 2 => n \in 1..m + 1
    BY <1>1
  <2>2. 1 \in 1..m + 2 /\ m + 2 \in 1..m + 2 /\ 1 # m + 2
    BY <1>1
  <2> QED BY <1>3, <2>1, <2>2
<1>5. \A n \in DOMAIN far : Joins(on[n], on[n + 1], far[n], modes)
  <2> TAKE n \in DOMAIN far
  <2>1. CASE n = m + 1
    <3>1. m + 1 \in 1..m + 2 /\ m + 2 \in 1..m + 2 /\ m + 1 # m + 2 /\ (m + 1) + 1 = m + 2
      BY <1>1
    <3>2. on[m + 1] = p /\ on[m + 2] = q
      BY <1>3, <3>1
    <3> HIDE DEF on
    <3> QED BY <1>2, <2>1, <3>1, <3>2
  <2>2. CASE n # m + 1
    <3>1. n \in 1..m /\ n \in 1..m + 2 /\ n + 1 \in 1..m + 2 /\ n # m + 2 /\ n + 1 # m + 2
      BY <1>1, <1>2, <2>2
    <3>2. on[n] = path[n] /\ on[n + 1] = path[n + 1]
      BY <3>1
    <3> HIDE DEF on
    <3> QED BY <1>1, <1>2, <1>3, <3>1, <3>2
  <2> QED BY <2>1, <2>2
<1>6. Len(far) + 1 = m + 2
  BY <1>1, <1>2
<1> HIDE DEF on
<1>7. Leads(far, a, q, modes)
  BY <1>4, <1>5, <1>6 DEF Leads
<1> QED BY <1>7 DEF far

(* What the search knows: the way it found to a place leads there, over    *)
(* fewer roads than places are settled.                                    *)
Found(s, a, modes) ==
  /\ a \in DOMAIN s.way /\ s.way[a] = <<>>
  /\ \A n \in DOMAIN s.way : Leads(s.way[n], a, n, modes)
  /\ \A n \in DOMAIN s.way : Len(s.way[n]) <= Cardinality(s.done)
  /\ \A n \in s.done : Len(s.way[n]) < Cardinality(s.done)

(* What is known and not settled is on the heap at its cost, and nothing   *)
(* settled cost more than what is on it.                                   *)
Heaped(s) ==
  /\ \A y \in s.heap : y[3] \in DOMAIN s.way /\ CostOf(s.way[y[3]]) <= y[1]
  /\ \A n \in DOMAIN s.way \ s.done : \E y \in s.heap : y[3] = n /\ y[1] = CostOf(s.way[n])
  /\ \A n \in s.done : \A y \in s.heap : CostOf(s.way[n]) <= y[1]

(* The neighbours of what is settled cost at most a road more.             *)
Relieved(s, modes) ==
  \A p \in s.done : \A w \in Neighbours(p, modes) :
    w[3] \in DOMAIN s.way /\ CostOf(s.way[w[3]]) <= CostOf(s.way[p]) + w[1]

Search ==
  [way : UNION {[D -> Hops] : D \in SUBSET Spot}, heap : SUBSET (Nat \X Nat \X Spot), done : SUBSET Spot]

SearchInv(s, a, modes) ==
  s \in Search /\ s.done \subseteq DOMAIN s.way /\ Found(s, a, modes) /\ Heaped(s) /\ Relieved(s, modes)

LEMMA SearchTypes ==
  ASSUME map \in Maps, NEW s \in Search
  PROVE  /\ DOMAIN s.way \subseteq Spot /\ s.done \subseteq Spot
         /\ \A n \in DOMAIN s.way : s.way[n] \in Hops /\ CostOf(s.way[n]) \in Nat
         /\ \A y \in s.heap : y[1] \in Nat /\ y[2] \in Nat /\ y[3] \in Spot
         /\ Cardinality(s.done) \in Nat /\ IsFiniteSet(s.done)
         /\ \A n \in DOMAIN s.way : Len(s.way[n]) \in Nat
<1>1. /\ s.way \in UNION {[D -> Hops] : D \in SUBSET Spot}
      /\ s.heap \subseteq Nat \X Nat \X Spot /\ s.done \subseteq Spot
  BY DEF Search
<1>2. PICK D \in SUBSET Spot : s.way \in [D -> Hops]
  BY <1>1
<1>3. DOMAIN s.way \subseteq Spot /\ \A n \in DOMAIN s.way : s.way[n] \in Hops
  BY <1>2
<1>4. \A n \in DOMAIN s.way : CostOf(s.way[n]) \in Nat
  BY <1>3, HopCost
<1>5. \A y \in s.heap : y[1] \in Nat /\ y[2] \in Nat /\ y[3] \in Spot
  BY <1>1
<1>6. s.done \in SUBSET Spot /\ IsFiniteSet(Spot)
  BY <1>1, TravelAssumption
<1>7. Cardinality(s.done) \in Nat /\ IsFiniteSet(s.done)
  BY <1>6, FS_Subset, FS_CardinalityType
<1>8. \A n \in DOMAIN s.way : Len(s.way[n]) \in Nat
  BY <1>3 DEF Hops
<1> QED BY <1>1, <1>3, <1>4, <1>5, <1>7, <1>8

LEMMA SettingInv ==
  ASSUME map \in Maps, NEW a \in Spot, NEW modes
  PROVE  SearchInv(Setting(a), a, modes)
<1> DEFINE s == Setting(a)
<1>1. /\ s.way = [n \in {a} |-> <<>>] /\ s.heap = {<<0, 0, a>>} /\ s.done = {}
      /\ s = [way |-> s.way, heap |-> s.heap, done |-> s.done]
  BY DEF Setting
<1>2. <<>> \in Hops
  BY DEF Hops
<1>3. s \in Search
  <2>1. s.way \in [{a} -> Hops] /\ {a} \in SUBSET Spot
    BY <1>1, <1>2
  <2>2. s.way \in UNION {[D -> Hops] : D \in SUBSET Spot}
    BY <2>1
  <2>3. s.heap \in SUBSET (Nat \X Nat \X Spot) /\ s.done \in SUBSET Spot
    BY <1>1
  <2> HIDE DEF s
  <2> QED BY <1>1, <2>2, <2>3 DEF Search
<1> HIDE DEF s
<1>4. DOMAIN s.way = {a} /\ s.way[a] = <<>>
  BY <1>1
<1>5. Leads(<<>>, a, a, modes)
  <2> DEFINE path == [n \in 1..1 |-> a]
  <2>1. Len(<<>>) + 1 = 1 /\ DOMAIN <<>> = {}
    OBVIOUS
  <2>2. path \in [1..1 -> Spot] /\ path[1] = a
    OBVIOUS
  <2> HIDE DEF path
  <2> QED BY <2>1, <2>2 DEF Leads
<1>6. Cardinality(s.done) = 0 /\ Len(<<>>) = 0
  BY <1>1, FS_EmptySet
<1>7. Found(s, a, modes)
  BY <1>1, <1>4, <1>5, <1>6 DEF Found
<1>8. CostOf(<<>>) = 0
  BY <1>2, HopCost
<1>9. Heaped(s)
  BY <1>1, <1>4, <1>8 DEF Heaped
<1>10. Relieved(s, modes)
  BY <1>1 DEF Relieved
<1>11. s.done \subseteq DOMAIN s.way
  BY <1>1
<1> QED BY <1>3, <1>7, <1>9, <1>10, <1>11 DEF SearchInv, s

LEMMA HeapGives ==
  ASSUME map \in Maps, NEW a \in Spot, NEW modes, NEW s, SearchInv(s, a, modes), s.heap # {}
  PROVE  LET x == HeapFirst(s.heap) IN
         /\ x \in s.heap /\ x[1] \in Nat /\ x[3] \in Spot /\ x[3] \in DOMAIN s.way
         /\ \A y \in s.heap : x[1] <= y[1]
         /\ x[3] \notin s.done => CostOf(s.way[x[3]]) = x[1]
         /\ \A n \in s.done : CostOf(s.way[n]) <= x[1]
<1> DEFINE first(x) == x \in s.heap /\ \A y \in s.heap : x[1] < y[1] \/ (x[1] = y[1] /\ x[2] <= y[2])
           x == HeapFirst(s.heap)
<1>0. s \in Search /\ Heaped(s)
  BY DEF SearchInv
<1>1. \A y \in s.heap : y[1] \in Nat /\ y[2] \in Nat /\ y[3] \in Spot
  BY <1>0, SearchTypes
<1>2. \E z \in s.heap : \A y \in s.heap : z[1] < y[1] \/ (z[1] = y[1] /\ z[2] <= y[2])
  BY <1>1, FirstByCost
<1>3. first(x)
  BY <1>2 DEF HeapFirst
<1>4. x \in s.heap /\ \A y \in s.heap : x[1] <= y[1]
  <2> HIDE DEF x
  <2>1. x \in s.heap /\ x[1] \in Nat
    BY <1>1, <1>3
  <2> QED BY <1>1, <1>3, <2>1
<1> HIDE DEF first, x
<1>5. x[1] \in Nat /\ x[3] \in Spot /\ x[3] \in DOMAIN s.way /\ CostOf(s.way[x[3]]) <= x[1]
  BY <1>0, <1>1, <1>4 DEF Heaped
<1>6. \A n \in s.done : CostOf(s.way[n]) <= x[1]
  BY <1>0, <1>4 DEF Heaped
<1>7. ASSUME x[3] \notin s.done PROVE CostOf(s.way[x[3]]) = x[1]
  <2>1. PICK y \in s.heap : y[3] = x[3] /\ y[1] = CostOf(s.way[x[3]])
    BY <1>0, <1>5, <1>7 DEF Heaped
  <2>2. x[1] <= y[1] /\ y[1] \in Nat
    BY <1>1, <1>4
  <2> QED BY <1>5, <2>1, <2>2
<1> QED BY <1>4, <1>5, <1>6, <1>7 DEF x

(* What settling a place does, when the heap gives one that is not.        *)
LEMMA Relaxes ==
  ASSUME map \in Maps, NEW a \in Spot, NEW modes, NEW s, SearchInv(s, a, modes), s.heap # {},
         HeapFirst(s.heap)[3] \notin s.done
  PROVE  LET x == HeapFirst(s.heap)
             t == Relaxed(s, modes)
             ways == Relaxing(s, modes)
             found == {w[3] : w \in ways}
         IN
         /\ t.done = s.done \union {x[3]} /\ t = [way |-> t.way, heap |-> t.heap, done |-> t.done]
         /\ t.heap = (s.heap \ {x}) \union {<<x[1] + w[1], w[2], w[3]>> : w \in ways}
         /\ DOMAIN t.way = DOMAIN s.way \union found
         /\ \A n \in DOMAIN s.way \ found : t.way[n] = s.way[n]
         /\ \A n \in found : \E w \in ways :
              /\ w[3] = n /\ t.way[n] = Append(s.way[x[3]], w[4])
              /\ \A v \in ways : v[3] = n => w[1] <= v[1]
<1> DEFINE x == HeapFirst(s.heap)
           t == Relaxed(s, modes)
           ways == Relaxing(s, modes)
           found == {w[3] : w \in ways}
           way == [n \in DOMAIN s.way \union found |->
                     IF n \in found THEN Append(s.way[x[3]], BestOf(ways, n)[4]) ELSE s.way[n]]
           heap == (s.heap \ {x}) \union {<<x[1] + w[1], w[2], w[3]>> : w \in ways}
<1>1. t = [way |-> way, heap |-> heap, done |-> s.done \union {x[3]}]
  BY DEF Relaxed
<1> HIDE DEF t, way, heap
<1>2. /\ t.done = s.done \union {x[3]} /\ t = [way |-> t.way, heap |-> t.heap, done |-> t.done]
      /\ t.heap = heap /\ t.way = way
  BY <1>1
<1>3. x \in s.heap /\ x[3] \in Spot
  BY HeapGives
<1> HIDE DEF x
<1>4. DOMAIN way = DOMAIN s.way \union found /\ \A n \in DOMAIN s.way \ found : way[n] = s.way[n]
  BY DEF way
<1>5. \A w \in ways : w[1] \in Nat /\ w[2] \in Nat
  <2>1. ways \subseteq Neighbours(x[3], modes)
    BY DEF Relaxing, x
  <2> HIDE DEF ways
  <2> QED BY <1>3, <2>1, WaysOut
<1>6. ASSUME NEW n \in found
      PROVE  \E w \in ways : /\ w[3] = n /\ way[n] = Append(s.way[x[3]], w[4])
                             /\ \A v \in ways : v[3] = n => w[1] <= v[1]
  <2> HIDE DEF ways
  <2> DEFINE W == {w \in ways : w[3] = n}
             first(w) == w \in ways /\ w[3] = n /\ \A v \in ways : v[3] = n => w[1] < v[1] \/ (w[1] = v[1] /\ w[2] <= v[2])
             b == BestOf(ways, n)
  <2>1. W # {} /\ \A w \in W : w[1] \in Nat /\ w[2] \in Nat
    BY <1>5
  <2>2. PICK w \in W : \A v \in W : w[1] < v[1] \/ (w[1] = v[1] /\ w[2] <= v[2])
    <3> HIDE DEF W
    <3> QED BY <2>1, FirstByCost
  <2>3. first(w)
    BY <2>2
  <2>4. first(b)
    BY <2>3 DEF BestOf
  <2>5. way[n] = Append(s.way[x[3]], b[4])
    BY DEF way
  <2> HIDE DEF b
  <2>6. b \in ways /\ b[3] = n /\ \A v \in ways : v[3] = n => b[1] <= v[1]
    BY <1>5, <2>4
  <2> QED BY <2>5, <2>6
<1>7. /\ t.done = s.done \union {x[3]} /\ t = [way |-> t.way, heap |-> t.heap, done |-> t.done]
      /\ t.heap = (s.heap \ {x}) \union {<<x[1] + w[1], w[2], w[3]>> : w \in ways}
      /\ DOMAIN t.way = DOMAIN s.way \union found
      /\ \A n \in DOMAIN s.way \ found : t.way[n] = s.way[n]
  BY <1>2, <1>4 DEF heap
<1>8. \A n \in found : \E w \in ways :
              /\ w[3] = n /\ t.way[n] = Append(s.way[x[3]], w[4])
              /\ \A v \in ways : v[3] = n => w[1] <= v[1]
  BY <1>2, <1>6
<1> QED BY <1>7, <1>8 DEF x, t

(* It finds ways, and cheaper ways, to what is not settled.                *)
Widened(s, t, x, ways, a, modes) ==
  LET found == {w[3] : w \in ways} IN
  /\ \A w \in ways : /\ w[1] \in Nat /\ w[1] > 0 /\ w[2] \in Nat /\ w[3] \in Spot /\ w[4] \in DOMAIN map
                     /\ w[1] = map[w[4]].cost /\ w \in Neighbours(x[3], modes)
                     /\ Joins(x[3], w[3], w[4], modes)
  /\ \A n \in found : /\ n \in Spot /\ n \notin t.done /\ n # a
                      /\ n \in DOMAIN s.way => CostOf(t.way[n]) <= CostOf(s.way[n])
  /\ \A n \in found : \E w \in ways :
       /\ w[3] = n /\ t.way[n] = Append(s.way[x[3]], w[4])
       /\ CostOf(t.way[n]) = x[1] + w[1]
       /\ \A v \in ways : v[3] = n => w[1] <= v[1]
  /\ \A n \in DOMAIN s.way : CostOf(t.way[n]) <= CostOf(s.way[n])
  /\ \A w \in Neighbours(x[3], modes) \ ways :
       w[3] \in s.done \union {x[3]} \/ (w[3] \in DOMAIN s.way /\ CostOf(s.way[w[3]]) <= x[1] + w[1])

LEMMA RelaxedWays ==
  ASSUME map \in Maps, NEW a \in Spot, NEW modes, NEW s, SearchInv(s, a, modes), s.heap # {},
         HeapFirst(s.heap)[3] \notin s.done
  PROVE  Widened(s, Relaxed(s, modes), HeapFirst(s.heap), Relaxing(s, modes), a, modes)
<1> DEFINE x == HeapFirst(s.heap)
           t == Relaxed(s, modes)
           ways == Relaxing(s, modes)
           found == {w[3] : w \in ways}
<1>0. s \in Search /\ Found(s, a, modes)
  BY DEF SearchInv
<1>1. /\ x \in s.heap /\ x[1] \in Nat /\ x[3] \in Spot /\ x[3] \in DOMAIN s.way /\ CostOf(s.way[x[3]]) = x[1]
  BY HeapGives
<1>2. ways = {w \in Neighbours(x[3], modes) : w[3] \notin s.done \union {x[3]} /\ Improves(s, w[3], x[1] + w[1])}
  BY DEF Relaxing
<1>3. /\ t.done = s.done \union {x[3]}
      /\ \A n \in DOMAIN s.way \ found : t.way[n] = s.way[n]
      /\ \A n \in found : \E w \in ways :
              /\ w[3] = n /\ t.way[n] = Append(s.way[x[3]], w[4])
              /\ \A v \in ways : v[3] = n => w[1] <= v[1]
  BY Relaxes
<1> HIDE DEF x, t, ways
<1>4. \A w \in ways : /\ w[1] \in Nat /\ w[1] > 0 /\ w[2] \in Nat /\ w[3] \in Spot /\ w[4] \in DOMAIN map
                      /\ w[1] = map[w[4]].cost /\ w \in Neighbours(x[3], modes)
                      /\ Joins(x[3], w[3], w[4], modes)
  <2>1. ways \subseteq Neighbours(x[3], modes)
    BY <1>2
  <2> QED BY <1>1, <2>1, WaysOut
<1>5. \A n \in DOMAIN s.way : s.way[n] \in Hops /\ CostOf(s.way[n]) \in Nat
  BY <1>0, SearchTypes
<1>6. ASSUME NEW n \in found
      PROVE  \E w \in ways :
              /\ w[3] = n /\ t.way[n] = Append(s.way[x[3]], w[4])
              /\ CostOf(t.way[n]) = x[1] + w[1]
              /\ \A v \in ways : v[3] = n => w[1] <= v[1]
  <2>1. PICK w \in ways : /\ w[3] = n /\ t.way[n] = Append(s.way[x[3]], w[4])
                          /\ \A v \in ways : v[3] = n => w[1] <= v[1]
    BY <1>3
  <2>2. CostOf(Append(s.way[x[3]], w[4])) = CostOf(s.way[x[3]]) + map[w[4]].cost
    BY <1>1, <1>4, <1>5, HopCost
  <2> QED BY <1>1, <1>4, <2>1, <2>2
<1>7. ASSUME NEW n \in found, n \in DOMAIN s.way PROVE CostOf(t.way[n]) < CostOf(s.way[n])
  <2>1. PICK w \in ways : w[3] = n /\ CostOf(t.way[n]) = x[1] + w[1]
    BY <1>6
  <2>2. Improves(s, w[3], x[1] + w[1])
    BY <1>2
  <2> QED BY <1>7, <2>1, <2>2 DEF Improves
<1>8. ASSUME NEW n \in found PROVE n \in Spot /\ n \notin t.done /\ n # a
  <2>1. PICK w \in ways : w[3] = n /\ CostOf(t.way[n]) = x[1] + w[1]
    BY <1>6
  <2>2. n \in Spot /\ n \notin t.done
    BY <1>2, <1>3, <1>4, <2>1
  <2>3. CASE n = a
    <3>1. CostOf(s.way[a]) = 0 /\ a \in DOMAIN s.way
      BY <1>0, <1>5, HopCost DEF Found
    <3>2. CostOf(t.way[n]) < 0
      BY <1>7, <2>3, <3>1
    <3>3. CostOf(t.way[n]) >= 0
      BY <1>1, <1>4, <2>1
    <3>4. x[1] + w[1] \in Nat
      BY <1>1, <1>4
    <3> QED BY <2>1, <3>2, <3>3, <3>4
  <2> QED BY <2>2, <2>3
<1>9. ASSUME NEW n \in DOMAIN s.way PROVE CostOf(t.way[n]) <= CostOf(s.way[n])
  <2>1. CASE n \in found
    <3>1. CostOf(t.way[n]) \in Nat
      BY <1>1, <1>4, <1>6, <2>1
    <3> QED BY <1>5, <1>7, <2>1, <3>1
  <2>2. CASE n \notin found
    BY <1>3, <1>5, <2>2
  <2> QED BY <2>1, <2>2
<1>10. ASSUME NEW w \in Neighbours(x[3], modes) \ ways
       PROVE  w[3] \in s.done \union {x[3]} \/ (w[3] \in DOMAIN s.way /\ CostOf(s.way[w[3]]) <= x[1] + w[1])
  <2>1. w[3] \in s.done \union {x[3]} \/ ~ Improves(s, w[3], x[1] + w[1])
    BY <1>2
  <2>2. ASSUME ~ Improves(s, w[3], x[1] + w[1])
        PROVE  w[3] \in DOMAIN s.way /\ CostOf(s.way[w[3]]) <= x[1] + w[1]
    <3>1. w[1] \in Nat
      BY <1>1, WaysOut
    <3>2. w[3] \in DOMAIN s.way /\ ~(x[1] + w[1] < CostOf(s.way[w[3]]))
      BY <2>2 DEF Improves
    <3> QED BY <1>1, <1>5, <3>1, <3>2
  <2> QED BY <2>1, <2>2
<1>11. \A n \in found : /\ n \in Spot /\ n \notin t.done /\ n # a
                        /\ n \in DOMAIN s.way => CostOf(t.way[n]) <= CostOf(s.way[n])
  BY <1>8, <1>9
<1>12. Widened(s, t, x, ways, a, modes)
  <2> HIDE DEF found
  <2> QED BY <1>4, <1>6, <1>9, <1>10, <1>11 DEF Widened, found
<1> QED BY <1>12 DEF x, t, ways

LEMMA RelaxedTypes ==
  ASSUME map \in Maps, NEW a \in Spot, NEW modes, NEW s, SearchInv(s, a, modes), s.heap # {},
         HeapFirst(s.heap)[3] \notin s.done
  PROVE  LET t == Relaxed(s, modes) IN t \in Search /\ t.done \subseteq DOMAIN t.way
<1> DEFINE x == HeapFirst(s.heap)
           t == Relaxed(s, modes)
           ways == Relaxing(s, modes)
           found == {w[3] : w \in ways}
<1>0. s \in Search /\ s.done \subseteq DOMAIN s.way
  BY DEF SearchInv
<1>1. x[1] \in Nat /\ x[3] \in Spot /\ x[3] \in DOMAIN s.way
  BY HeapGives
<1>2. /\ t.done = s.done \union {x[3]} /\ t = [way |-> t.way, heap |-> t.heap, done |-> t.done]
      /\ t.heap = (s.heap \ {x}) \union {<<x[1] + w[1], w[2], w[3]>> : w \in ways}
      /\ DOMAIN t.way = DOMAIN s.way \union found
      /\ \A n \in DOMAIN s.way \ found : t.way[n] = s.way[n]
  BY Relaxes
<1>30. Widened(s, t, x, ways, a, modes)
  BY RelaxedWays
<1>4. t = [way |-> [n \in DOMAIN s.way \union found |->
                     IF n \in found THEN Append(s.way[x[3]], BestOf(ways, n)[4]) ELSE s.way[n]],
           heap |-> (s.heap \ {x}) \union {<<x[1] + w[1], w[2], w[3]>> : w \in ways},
           done |-> s.done \union {x[3]}]
  BY DEF Relaxed
<1>5. t.way = [n \in DOMAIN t.way |-> t.way[n]]
  BY <1>4
<1> HIDE DEF x, t, ways
<1>3. /\ \A w \in ways : w[1] \in Nat /\ w[2] \in Nat /\ w[3] \in Spot /\ w[4] \in DOMAIN map
      /\ \A n \in found : \E w \in ways : w[3] = n /\ t.way[n] = Append(s.way[x[3]], w[4])
  BY <1>30 DEF Widened
<1>6. /\ DOMAIN s.way \subseteq Spot /\ s.done \subseteq Spot
      /\ \A n \in DOMAIN s.way : s.way[n] \in Hops
  BY <1>0, SearchTypes
<1>7. \A n \in DOMAIN t.way : n \in Spot /\ t.way[n] \in Hops
  <2> TAKE n \in DOMAIN t.way
  <2>1. CASE n \in found
    <3>1. PICK w \in ways : w[3] = n /\ t.way[n] = Append(s.way[x[3]], w[4])
      BY <1>3, <2>1
    <3>2. s.way[x[3]] \in Hops /\ w[4] \in DOMAIN map /\ w[3] \in Spot
      BY <1>1, <1>3, <1>6
    <3> QED BY <3>1, <3>2 DEF Hops
  <2>2. CASE n \notin found
    BY <1>2, <1>6, <2>2
  <2> QED BY <2>1, <2>2
<1>8. t.way \in [DOMAIN t.way -> Hops] /\ DOMAIN t.way \in SUBSET Spot
  BY <1>5, <1>7, Zenon
<1>9. t.way \in UNION {[D -> Hops] : D \in SUBSET Spot}
  BY <1>8
<1>10. t.heap \in SUBSET (Nat \X Nat \X Spot)
  <2>1. s.heap \subseteq Nat \X Nat \X Spot
    BY <1>0 DEF Search
  <2>2. \A w \in ways : <<x[1] + w[1], w[2], w[3]>> \in Nat \X Nat \X Spot
    BY <1>1, <1>3
  <2> QED BY <1>2, <2>1, <2>2
<1>11. t.done \in SUBSET Spot /\ t.done \subseteq DOMAIN t.way
  BY <1>0, <1>1, <1>2, <1>6
<1>12. t \in Search
  BY <1>2, <1>9, <1>10, <1>11 DEF Search
<1> QED BY <1>11, <1>12 DEF t

LEMMA RelaxedFound ==
  ASSUME map \in Maps, NEW a \in Spot, NEW modes, NEW s, SearchInv(s, a, modes), s.heap # {},
         HeapFirst(s.heap)[3] \notin s.done
  PROVE  Found(Relaxed(s, modes), a, modes)
<1> DEFINE x == HeapFirst(s.heap)
           t == Relaxed(s, modes)
           ways == Relaxing(s, modes)
           found == {w[3] : w \in ways}
           c == Cardinality(s.done)
<1>0. s \in Search /\ s.done \subseteq DOMAIN s.way /\ Found(s, a, modes)
  BY DEF SearchInv
<1>1. x[1] \in Nat /\ x[3] \in Spot /\ x[3] \in DOMAIN s.way
  BY HeapGives
<1>2. /\ t.done = s.done \union {x[3]}
      /\ DOMAIN t.way = DOMAIN s.way \union found
      /\ \A n \in DOMAIN s.way \ found : t.way[n] = s.way[n]
  BY Relaxes
<1>30. Widened(s, t, x, ways, a, modes)
  BY RelaxedWays
<1>4. x[3] \notin s.done
  OBVIOUS
<1> HIDE DEF x, t, ways
<1>3. /\ \A w \in ways : w[1] \in Nat /\ w[2] \in Nat /\ w[3] \in Spot /\ w[4] \in DOMAIN map /\ Joins(x[3], w[3], w[4], modes)
      /\ \A n \in found : \E w \in ways : w[3] = n /\ t.way[n] = Append(s.way[x[3]], w[4])
      /\ \A n \in found : n \notin t.done /\ n # a
  <2>1. \A w \in ways : w[1] \in Nat /\ w[2] \in Nat /\ w[3] \in Spot /\ w[4] \in DOMAIN map /\ Joins(x[3], w[3], w[4], modes)
    BY <1>30 DEF Widened
  <2>2. \A n \in found : \E w \in ways : w[3] = n /\ t.way[n] = Append(s.way[x[3]], w[4])
    BY <1>30 DEF Widened
  <2>3. \A n \in found : n \notin t.done /\ n # a
    BY <1>30 DEF Widened
  <2> QED BY <2>1, <2>2, <2>3
<1>5. /\ DOMAIN s.way \subseteq Spot /\ \A n \in DOMAIN s.way : s.way[n] \in Hops /\ Len(s.way[n]) \in Nat
      /\ c \in Nat /\ IsFiniteSet(s.done)
  BY <1>0, SearchTypes
<1>6. Cardinality(t.done) = c + 1
  BY <1>2, <1>4, <1>5, FS_AddElement
<1> HIDE DEF c
<1>7. /\ a \in DOMAIN s.way /\ s.way[a] = <<>>
      /\ \A n \in DOMAIN s.way : Leads(s.way[n], a, n, modes) /\ Len(s.way[n]) <= c
      /\ \A n \in s.done : Len(s.way[n]) < c
  BY <1>0 DEF Found, c
<1>8. a \in DOMAIN t.way /\ t.way[a] = <<>>
  BY <1>2, <1>3, <1>7
<1>9. ASSUME NEW n \in found PROVE Leads(t.way[n], a, n, modes) /\ Len(t.way[n]) <= c + 1
  <2>1. PICK w \in ways : w[3] = n /\ t.way[n] = Append(s.way[x[3]], w[4])
    BY <1>3
  <2>2. s.way[x[3]] \in Hops /\ Leads(s.way[x[3]], a, x[3], modes) /\ Len(s.way[x[3]]) <= c /\ Len(s.way[x[3]]) \in Nat
    BY <1>1, <1>5, <1>7
  <2>3. w[4] \in DOMAIN map /\ n \in Spot /\ Joins(x[3], n, w[4], modes)
    BY <1>3, <2>1
  <2>4. Leads(Append(s.way[x[3]], w[4]), a, n, modes)
    BY <1>1, <2>2, <2>3, LeadsOn
  <2>5. Len(Append(s.way[x[3]], w[4])) = Len(s.way[x[3]]) + 1
    BY <2>2 DEF Hops
  <2> QED BY <1>5, <2>1, <2>2, <2>4, <2>5
<1>10. ASSUME NEW n \in DOMAIN t.way PROVE Leads(t.way[n], a, n, modes) /\ Len(t.way[n]) <= Cardinality(t.done)
  <2>1. CASE n \in found
    BY <1>6, <1>9, <2>1
  <2>2. CASE n \notin found
    <3>1. n \in DOMAIN s.way /\ t.way[n] = s.way[n]
      BY <1>2, <2>2
    <3> QED BY <1>5, <1>6, <1>7, <3>1
  <2> QED BY <2>1, <2>2
<1>11. ASSUME NEW n \in t.done PROVE Len(t.way[n]) < Cardinality(t.done)
  <2>1. n \notin found /\ n \in DOMAIN s.way
    BY <1>0, <1>1, <1>2, <1>3
  <2>2. t.way[n] = s.way[n] /\ Len(s.way[n]) <= c /\ Len(s.way[n]) \in Nat
    BY <1>2, <1>5, <1>7, <2>1
  <2> QED BY <1>5, <1>6, <2>2
<1>12. Found(t, a, modes)
  BY <1>8, <1>10, <1>11 DEF Found
<1> QED BY <1>12 DEF t

LEMMA RelaxedHeaped ==
  ASSUME map \in Maps, NEW a \in Spot, NEW modes, NEW s, SearchInv(s, a, modes), s.heap # {},
         HeapFirst(s.heap)[3] \notin s.done
  PROVE  Heaped(Relaxed(s, modes)) /\ Relieved(Relaxed(s, modes), modes)
<1> DEFINE x == HeapFirst(s.heap)
           t == Relaxed(s, modes)
           ways == Relaxing(s, modes)
           found == {w[3] : w \in ways}
           entry(w) == <<x[1] + w[1], w[2], w[3]>>
<1>0. s \in Search /\ s.done \subseteq DOMAIN s.way /\ Heaped(s) /\ Relieved(s, modes)
  BY DEF SearchInv
<1>1. /\ x \in s.heap /\ x[1] \in Nat /\ x[3] \in Spot /\ x[3] \in DOMAIN s.way
      /\ \A y \in s.heap : x[1] <= y[1]
      /\ CostOf(s.way[x[3]]) = x[1]
      /\ \A n \in s.done : CostOf(s.way[n]) <= x[1]
  BY HeapGives
<1>2. /\ t.done = s.done \union {x[3]}
      /\ t.heap = (s.heap \ {x}) \union {entry(w) : w \in ways}
      /\ DOMAIN t.way = DOMAIN s.way \union found
      /\ \A n \in DOMAIN s.way \ found : t.way[n] = s.way[n]
  BY Relaxes
<1>32. Widened(s, t, x, ways, a, modes)
  BY RelaxedWays
<1>30. t \in Search
  BY RelaxedTypes
<1>31. x[3] \notin s.done
  OBVIOUS
<1> HIDE DEF x, t, ways
<1>3. /\ \A w \in ways : /\ w[1] \in Nat /\ w[1] > 0 /\ w[2] \in Nat /\ w[3] \in Spot
      /\ \A n \in found : n \notin t.done
      /\ \A n \in found : \E w \in ways :
              /\ w[3] = n /\ CostOf(t.way[n]) = x[1] + w[1]
              /\ \A v \in ways : v[3] = n => w[1] <= v[1]
      /\ \A n \in DOMAIN s.way : CostOf(t.way[n]) <= CostOf(s.way[n])
      /\ \A w \in Neighbours(x[3], modes) \ ways :
              w[3] \in s.done \union {x[3]} \/ (w[3] \in DOMAIN s.way /\ CostOf(s.way[w[3]]) <= x[1] + w[1])
  BY <1>32 DEF Widened
<1>4. /\ DOMAIN s.way \subseteq Spot /\ \A n \in DOMAIN s.way : CostOf(s.way[n]) \in Nat
      /\ \A y \in s.heap : y[1] \in Nat
  BY <1>0, SearchTypes
<1>5. \A n \in DOMAIN t.way : CostOf(t.way[n]) \in Nat
  BY <1>30, SearchTypes
<1>6. \A w \in ways : entry(w)[1] = x[1] + w[1] /\ entry(w)[3] = w[3] /\ entry(w) \in t.heap
  BY <1>2
<1>7. \A y \in t.heap : (y \in s.heap /\ y # x) \/ \E w \in ways : y = entry(w)
  BY <1>2
<1>8. \A y \in s.heap : y # x => y \in t.heap
  BY <1>2
<1> HIDE DEF entry
<1>9. ASSUME NEW w \in ways PROVE w[3] \in DOMAIN t.way /\ CostOf(t.way[w[3]]) <= x[1] + w[1]
  <2>1. w[3] \in found
    OBVIOUS
  <2>2. PICK v \in ways : CostOf(t.way[w[3]]) = x[1] + v[1] /\ v[1] <= w[1]
    BY <1>3, <2>1
  <2> QED BY <1>1, <1>2, <1>3, <2>1, <2>2
<1>10. ASSUME NEW y \in t.heap PROVE y[3] \in DOMAIN t.way /\ CostOf(t.way[y[3]]) <= y[1] /\ x[1] <= y[1] /\ y[1] \in Nat
  <2>1. CASE y \in s.heap
    <3>1. y[3] \in DOMAIN s.way /\ CostOf(s.way[y[3]]) <= y[1]
      BY <1>0, <2>1 DEF Heaped
    <3>2. CostOf(t.way[y[3]]) <= CostOf(s.way[y[3]]) /\ y[3] \in DOMAIN t.way
      BY <1>2, <1>3, <3>1
    <3> QED BY <1>1, <1>4, <1>5, <2>1, <3>1, <3>2
  <2>2. CASE \E w \in ways : y = entry(w)
    <3>1. PICK w \in ways : y = entry(w)
      BY <2>2
    <3>2. y[1] = x[1] + w[1] /\ y[3] = w[3] /\ w[1] \in Nat
      BY <1>3, <1>6, <3>1
    <3> QED BY <1>1, <1>9, <3>2
  <2> QED BY <1>7, <2>1, <2>2
<1>11. ASSUME NEW n \in DOMAIN t.way \ t.done PROVE \E y \in t.heap : y[3] = n /\ y[1] = CostOf(t.way[n])
  <2>1. CASE n \in found
    <3>1. PICK w \in ways : w[3] = n /\ CostOf(t.way[n]) = x[1] + w[1]
      BY <1>3, <2>1
    <3> QED BY <1>6, <3>1
  <2>2. CASE n \notin found
    <3>1. n \in DOMAIN s.way \ s.done /\ t.way[n] = s.way[n] /\ n # x[3]
      BY <1>2, <2>2
    <3>2. PICK y \in s.heap : y[3] = n /\ y[1] = CostOf(s.way[n])
      BY <1>0, <3>1 DEF Heaped
    <3>3. y \in t.heap
      BY <1>8, <3>1, <3>2
    <3> QED BY <3>1, <3>2, <3>3
  <2> QED BY <2>1, <2>2
<1>12. ASSUME NEW n \in t.done PROVE n \in DOMAIN s.way /\ t.way[n] = s.way[n] /\ CostOf(t.way[n]) <= x[1]
  <2>1. n \in DOMAIN s.way /\ n \notin found
    BY <1>0, <1>1, <1>2, <1>3
  <2>2. CostOf(s.way[n]) <= x[1]
    BY <1>1, <1>2
  <2> QED BY <1>2, <2>1, <2>2
<1>13. \A n \in t.done : \A y \in t.heap : CostOf(t.way[n]) <= y[1]
  <2> TAKE n \in t.done
  <2> TAKE y \in t.heap
  <2>1. CostOf(t.way[n]) <= x[1] /\ CostOf(t.way[n]) \in Nat
    BY <1>2, <1>5, <1>12
  <2>2. x[1] <= y[1] /\ y[1] \in Nat
    BY <1>10
  <2> QED BY <1>1, <2>1, <2>2
<1>14. Heaped(t)
  BY <1>10, <1>11, <1>13 DEF Heaped
<1>15. ASSUME NEW p \in t.done, NEW w \in Neighbours(p, modes)
       PROVE  w[3] \in DOMAIN t.way /\ CostOf(t.way[w[3]]) <= CostOf(t.way[p]) + w[1]
  <2>0. p \in Spot /\ p \in DOMAIN s.way /\ t.way[p] = s.way[p]
    BY <1>4, <1>12
  <2>00. w[1] \in Nat
    BY <2>0, WaysOut
  <2>1. CASE p \in s.done
    <3>1. w[3] \in DOMAIN s.way /\ CostOf(s.way[w[3]]) <= CostOf(s.way[p]) + w[1]
      BY <1>0, <2>1 DEF Relieved
    <3>2. CostOf(t.way[w[3]]) <= CostOf(s.way[w[3]]) /\ w[3] \in DOMAIN t.way
      BY <1>2, <1>3, <3>1
    <3> QED BY <1>4, <1>5, <2>0, <2>00, <3>1, <3>2
  <2>2. CASE p = x[3] /\ w \in ways
    BY <1>1, <1>9, <2>0, <2>2
  <2>3. CASE p = x[3] /\ w \notin ways
    <3>1. w[3] \in s.done \union {x[3]} \/ (w[3] \in DOMAIN s.way /\ CostOf(s.way[w[3]]) <= x[1] + w[1])
      BY <1>3, <2>3
    <3>2. w[3] \in DOMAIN s.way
      BY <1>0, <1>1, <3>1
    <3>3. CostOf(s.way[w[3]]) <= x[1] + w[1]
      <4>1. CASE w[3] \in s.done \union {x[3]}
        <5>1. CostOf(s.way[w[3]]) <= x[1] /\ CostOf(s.way[w[3]]) \in Nat
          BY <1>1, <1>4, <3>2, <4>1
        <5> QED BY <1>1, <2>00, <5>1
      <4> QED BY <3>1, <4>1
    <3>4. CostOf(t.way[w[3]]) <= CostOf(s.way[w[3]]) /\ w[3] \in DOMAIN t.way
      BY <1>2, <1>3, <3>2
    <3> QED BY <1>1, <1>4, <1>5, <2>0, <2>00, <2>3, <3>2, <3>3, <3>4
  <2> QED BY <1>2, <2>1, <2>2, <2>3
<1>16. Relieved(t, modes)
  BY <1>15 DEF Relieved
<1> QED BY <1>14, <1>16 DEF t

(* Each step of the search keeps what it knows.                            *)
LEMMA SoughtInv ==
  ASSUME map \in Maps, NEW a \in Spot, NEW to, NEW modes, NEW s, SearchInv(s, a, modes)
  PROVE  SearchInv(Sought(s, to, modes), a, modes)
<1> DEFINE x == HeapFirst(s.heap)
           t == Relaxed(s, modes)
<1>1. CASE s.heap = {} \/ to \in s.done
  BY <1>1 DEF Sought
<1>2. CASE s.heap # {} /\ to \notin s.done /\ x[3] \notin s.done
  <2>1. t \in Search /\ t.done \subseteq DOMAIN t.way
    BY <1>2, RelaxedTypes
  <2>2. Found(t, a, modes)
    BY <1>2, RelaxedFound
  <2>3. Heaped(t) /\ Relieved(t, modes)
    BY <1>2, RelaxedHeaped
  <2>4. Sought(s, to, modes) = t
    BY <1>2 DEF Sought
  <2> HIDE DEF t
  <2> QED BY <2>1, <2>2, <2>3, <2>4 DEF SearchInv
<1>3. CASE s.heap # {} /\ to \notin s.done /\ x[3] \in s.done
  <2>0. s \in Search /\ s.done \subseteq DOMAIN s.way /\ Found(s, a, modes) /\ Heaped(s) /\ Relieved(s, modes)
    BY DEF SearchInv
  <2>1. Sought(s, to, modes) = [s EXCEPT !.heap = @ \ {x}]
    BY <1>3 DEF Sought, Relaxed
  <2> DEFINE r == [s EXCEPT !.heap = @ \ {x}]
  <2>2. r \in Search /\ r.way = s.way /\ r.done = s.done /\ r.heap = s.heap \ {x}
    BY <2>0 DEF Search
  <2> HIDE DEF r, x
  <2>3. Found(r, a, modes) /\ Relieved(r, modes)
    BY <2>0, <2>2 DEF Found, Relieved
  <2>4. \A n \in DOMAIN s.way \ s.done : \E y \in r.heap : y[3] = n /\ y[1] = CostOf(s.way[n])
    <3> TAKE n \in DOMAIN s.way \ s.done
    <3>1. PICK y \in s.heap : y[3] = n /\ y[1] = CostOf(s.way[n])
      BY <2>0 DEF Heaped
    <3>2. y # x
      BY <1>3, <3>1
    <3> QED BY <2>2, <3>1, <3>2
  <2>5. Heaped(r)
    BY <2>0, <2>2, <2>4 DEF Heaped
  <2>6. r.done \subseteq DOMAIN r.way
    BY <2>0, <2>2
  <2> QED BY <2>1, <2>2, <2>3, <2>5, <2>6 DEF SearchInv, r
<1> QED BY <1>1, <1>2, <1>3

(* The states a search goes through.                                       *)
Course(f, a, to, modes) ==
  /\ \A k \in Nat : f[k] = IF k = 0 THEN Setting(a) ELSE Sought(f[k - 1], to, modes)
  /\ \A k \in Nat : SearchInv(f[k], a, modes)
  /\ Searched(a, to, modes) = f[2 * Len(map) + 1]

LEMMA SearchRuns ==
  ASSUME map \in Maps, NEW a \in Spot, NEW to, NEW modes
  PROVE  \E f : Course(f, a, to, modes)
<1> DEFINE S == {s \in Search : SearchInv(s, a, modes)}
           F == [s \in S |-> Sought(s, to, modes)]
           x == Setting(a)
           steps(f) == f = [k \in Nat |-> IF k = 0 THEN Setting(a) ELSE Sought(f[k - 1], to, modes)]
           f == CHOOSE g : steps(g)
<1>1. \A s \in S : Sought(s, to, modes) \in S
  <2> TAKE s \in S
  <2>1. SearchInv(Sought(s, to, modes), a, modes)
    BY SoughtInv
  <2> QED BY <2>1 DEF SearchInv
<1>2. x \in S
  BY SettingInv DEF SearchInv
<1>3. F \in [S -> S] /\ \A s \in S : F[s] = Sought(s, to, modes)
  <2> HIDE DEF S
  <2> QED BY <1>1
<1>4. PICK g : Iterates(g, S, F, x)
  <2>1. F \in [S -> S]
    BY <1>3
  <2> HIDE DEF S, F, x, steps, f
  <2>2. x \in S
    BY <1>2
  <2> QED BY <2>1, <2>2, Iterated
<1>40. g \in [Nat -> S] /\ g[0] = x /\ \A n \in Nat : g[n + 1] = F[g[n]]
  BY <1>4 DEF Iterates
<1>5. \A k \in Nat : g[k] = IF k = 0 THEN Setting(a) ELSE Sought(g[k - 1], to, modes)
  <2> TAKE k \in Nat
  <2>1. CASE k = 0
    BY <1>40, <2>1
  <2>2. CASE k # 0
    <3>1. k - 1 \in Nat /\ (k - 1) + 1 = k
      BY <2>2
    <3> HIDE DEF S, F
    <3>2. g[k] = F[g[k - 1]] /\ g[k - 1] \in S
      BY <1>40, <3>1
    <3> QED BY <1>3, <2>2, <3>2
  <2> QED BY <2>1, <2>2
<1>6. steps(g)
  <2> HIDE DEF S, F, x
  <2>1. g = [k \in Nat |-> g[k]]
    BY <1>40
  <2> QED BY <1>5, <2>1, Zenon
<1>7. steps(f)
  <2> HIDE DEF steps
  <2> QED BY <1>6
<1>8. Searched(a, to, modes) = f[2 * Len(map) + 1]
  BY DEF Searched
<1>9. \A k \in Nat : f[k] = IF k = 0 THEN Setting(a) ELSE Sought(f[k - 1], to, modes)
  <2> HIDE DEF f
  <2> QED BY <1>7
<1>10. \A k \in Nat : f[k] \in S
  <2> DEFINE bad == {k \in Nat : f[k] \notin S}
  <2> SUFFICES ASSUME bad # {} PROVE FALSE
    OBVIOUS
  <2> HIDE DEF S, f
  <2>1. bad \subseteq Nat
    OBVIOUS
  <2>2. PICK k \in bad : \A u \in bad : k <= u
    <3> HIDE DEF bad
    <3> QED BY <2>1, LeastOf
  <2>3. k \in Nat /\ f[k] \notin S
    BY <2>2
  <2>4. k # 0
    BY <1>2, <1>9, <2>3
  <2>5. k - 1 \in Nat /\ k - 1 < k
    BY <2>3, <2>4
  <2>6. f[k - 1] \in S
    BY <2>2, <2>3, <2>5
  <2>7. f[k] = Sought(f[k - 1], to, modes)
    BY <1>9, <2>3, <2>4
  <2> QED BY <1>1, <2>3, <2>6, <2>7
<1>11. \A k \in Nat : SearchInv(f[k], a, modes)
  <2> HIDE DEF f
  <2> QED BY <1>10
<1> HIDE DEF f
<1>12. Course(f, a, to, modes)
  BY <1>8, <1>9, <1>11 DEF Course
<1> QED BY <1>12

LEMMA SearchedInv ==
  ASSUME map \in Maps, NEW a \in Spot, NEW to, NEW modes
  PROVE  SearchInv(Searched(a, to, modes), a, modes)
<1>1. 2 * Len(map) + 1 \in Nat
  <2>1. Len(map) \in Nat
    BY Roads
  <2> QED BY <2>1
<1>2. PICK f : Course(f, a, to, modes)
  BY SearchRuns
<1> QED BY <1>1, <1>2 DEF Course

(* No way to a settled place costs less than the one found.  A place is    *)
(* worth what its way costs when it is settled below the destination, and  *)
(* what the destination's costs when it is not; a road is worth at most    *)
(* its cost.                                                               *)
LEMMA NoneCheaper ==
  ASSUME map \in Maps, NEW a \in Spot, NEW to, NEW modes, NEW s, SearchInv(s, a, modes), to \in s.done,
         NEW m \in Nat, NEW hops \in [1..m -> DOMAIN map], Leads(hops, a, to, modes)
  PROVE  CostOf(s.way[to]) <= CostOf(hops)
<1> DEFINE C == CostOf(s.way[to])
           worth(n) == IF n \in s.done /\ CostOf(s.way[n]) <= C THEN CostOf(s.way[n]) ELSE C
           cost == [n \in DOMAIN hops |-> map[hops[n]].cost]
           upto(k) == Total(cost, 1..k)
<1>0. s \in Search /\ s.done \subseteq DOMAIN s.way /\ Found(s, a, modes) /\ Heaped(s) /\ Relieved(s, modes)
  BY DEF SearchInv
<1>1. /\ DOMAIN s.way \subseteq Spot /\ \A n \in DOMAIN s.way : CostOf(s.way[n]) \in Nat
      /\ \A y \in s.heap : y[1] \in Nat
  BY <1>0, SearchTypes
<1>2. C \in Nat
  BY <1>0, <1>1
<1>3. DOMAIN hops = 1..m /\ Len(hops) = m
  OBVIOUS
<1>4. PICK path \in [1..m + 1 -> Spot] :
        /\ path[1] = a /\ path[m + 1] = to
        /\ \A n \in 1..m : Joins(path[n], path[n + 1], hops[n], modes)
  BY <1>3 DEF Leads
<1> HIDE DEF C
<1>5. ASSUME NEW n \in DOMAIN s.way \ s.done PROVE C <= CostOf(s.way[n])
  <2>1. PICK y \in s.heap : y[3] = n /\ y[1] = CostOf(s.way[n])
    BY <1>0 DEF Heaped
  <2> QED BY <1>0, <2>1 DEF Heaped, C
<1>6. \A n : worth(n) \in Nat /\ worth(n) <= C
  BY <1>0, <1>1, <1>2
<1>7. worth(a) = 0
  <2>0. <<>> \in Hops
    BY DEF Hops
  <2>1. a \in DOMAIN s.way /\ CostOf(s.way[a]) = 0
    BY <1>0, <2>0, HopCost DEF Found
  <2>2. CASE a \in s.done
    BY <1>2, <2>1, <2>2
  <2>3. CASE a \notin s.done
    BY <1>2, <1>5, <2>1, <2>3
  <2> QED BY <2>2, <2>3
<1>8. worth(to) = C
  BY <1>2 DEF C
<1>9. ASSUME NEW p \in Spot, NEW q \in Spot, NEW i \in DOMAIN map, Joins(p, q, i, modes)
      PROVE  worth(q) <= worth(p) + map[i].cost
  <2>0. map[i].cost \in Nat
    BY Roads
  <2>1. CASE p \in s.done /\ CostOf(s.way[p]) <= C
    <3>1. PICK w \in Neighbours(p, modes) : w[3] = q /\ w[1] = map[i].cost
      BY <1>9, WaysOut
    <3>2. q \in DOMAIN s.way /\ CostOf(s.way[q]) <= CostOf(s.way[p]) + map[i].cost
      BY <1>0, <2>1, <3>1 DEF Relieved
    <3>3. worth(p) = CostOf(s.way[p]) /\ CostOf(s.way[p]) \in Nat /\ CostOf(s.way[q]) \in Nat
      BY <1>0, <1>1, <2>1, <3>2
    <3>4. worth(q) <= CostOf(s.way[q])
      <4>1. CASE q \in s.done
        BY <1>2, <3>3, <4>1
      <4>2. CASE q \notin s.done
        BY <1>2, <1>5, <3>2, <4>2
      <4> QED BY <4>1, <4>2
    <3>5. worth(q) \in Nat
      BY <1>6
    <3> HIDE DEF worth
    <3> QED BY <2>0, <3>2, <3>3, <3>4, <3>5
  <2>2. CASE ~(p \in s.done /\ CostOf(s.way[p]) <= C)
    <3>1. worth(p) = C
      BY <2>2
    <3>2. worth(q) <= C /\ worth(q) \in Nat
      BY <1>6
    <3> HIDE DEF worth
    <3> QED BY <1>2, <2>0, <3>1, <3>2
  <2> QED BY <2>1, <2>2
<1> HIDE DEF worth
<1>10. \A n \in 1..m : hops[n] \in DOMAIN map /\ cost[n] = map[hops[n]].cost /\ cost[n] \in Nat
  BY <1>3, Roads
<1> HIDE DEF cost
<1>11. \A k \in 0..m : upto(k) \in Nat /\ worth(path[k + 1]) <= upto(k)
  <2> DEFINE bad == {k \in 0..m : ~(upto(k) \in Nat /\ worth(path[k + 1]) <= upto(k))}
  <2> SUFFICES ASSUME bad # {} PROVE FALSE
    OBVIOUS
  <2>1. bad \subseteq Nat
    OBVIOUS
  <2>2. PICK k \in bad : \A u \in bad : k <= u
    <3> HIDE DEF bad
    <3> QED BY <2>1, LeastOf
  <2>3. k \in 0..m /\ ~(upto(k) \in Nat /\ worth(path[k + 1]) <= upto(k))
    BY <2>2
  <2>4. k # 0
    <3>1. 1..0 = {}
      OBVIOUS
    <3>2. upto(0) = 0
      BY <3>1, TotalEmpty
    <3> HIDE DEF upto
    <3> QED BY <1>4, <1>7, <2>3, <3>2
  <2>5. k - 1 \in 0..m /\ k - 1 < k /\ k \in 1..m /\ (k - 1) + 1 = k /\ k \in 1..m + 1 /\ k + 1 \in 1..m + 1
    BY <2>3, <2>4
  <2>6. upto(k - 1) \in Nat /\ worth(path[k]) <= upto(k - 1)
    <3>1. k - 1 \notin bad
      BY <2>2, <2>3, <2>5
    <3> QED BY <2>5, <3>1
  <2>7. upto(k) = upto(k - 1) + cost[k]
    <3> DEFINE T == 1..(k - 1)
    <3>1. 1..k = T \union {k} /\ k \notin T
      BY <2>5
    <3>2. IsFiniteSet(T)
      BY <2>5, FS_Interval
    <3>3. Counts(cost, T) /\ cost[k] \in Nat
      BY <1>10, <2>5 DEF Counts
    <3> HIDE DEF T
    <3>4. Total(cost, T \union {k}) = Total(cost, T) + cost[k]
      BY <3>1, <3>2, <3>3, TotalAdd
    <3> QED BY <3>1, <3>4 DEF T
  <2>8. worth(path[k + 1]) <= worth(path[k]) + cost[k]
    BY <1>4, <1>9, <1>10, <2>5
  <2>9. worth(path[k + 1]) \in Nat /\ worth(path[k]) \in Nat /\ cost[k] \in Nat
    BY <1>6, <1>10, <2>5
  <2> HIDE DEF upto
  <2> QED BY <2>3, <2>6, <2>7, <2>8, <2>9
<1>12. CostOf(hops) = upto(m)
  BY <1>3 DEF CostOf, cost
<1>13. worth(path[m + 1]) <= upto(m)
  <2>1. m \in 0..m
    OBVIOUS
  <2> QED BY <1>11, <2>1
<1> HIDE DEF upto
<1> QED BY <1>4, <1>8, <1>12, <1>13 DEF C

(* The road of a plan leads to its destination, and none costs less.       *)
LEMMA PlannedRoute ==
  ASSUME map \in Maps, NEW a \in Spot, NEW to \in Spot, NEW modes, Route(a, to, modes) # <<>>
  PROVE  LET hops == Route(a, to, modes) IN
         /\ hops \in Hops /\ Len(hops) > 0
         /\ hops \in Trips(a, to, modes)
         /\ \A t \in Trips(a, to, modes) : CostOf(hops) <= CostOf(t)
<1> DEFINE s == Searched(a, to, modes)
           hops == Route(a, to, modes)
           n == Cardinality(Spot)
<1>1. SearchInv(s, a, modes)
  BY SearchedInv
<1>2. to \in s.done /\ hops = s.way[to]
  BY DEF Route
<1> HIDE DEF s, hops
<1>3. s \in Search /\ s.done \subseteq DOMAIN s.way /\ Found(s, a, modes)
  BY <1>1 DEF SearchInv
<1>4. hops \in Hops /\ Leads(hops, a, to, modes) /\ Len(hops) < Cardinality(s.done) /\ Cardinality(s.done) \in Nat
      /\ s.done \subseteq Spot
  BY <1>2, <1>3, SearchTypes DEF Found
<1>5. Cardinality(s.done) <= n /\ n \in Nat
  BY <1>4, TravelAssumption, FS_Subset, FS_CardinalityType
<1> HIDE DEF n
<1>6. Len(hops) \in Nat /\ hops \in [1..Len(hops) -> DOMAIN map]
  BY <1>4 DEF Hops
<1>7. Len(hops) \in 0..n - 1
  BY <1>4, <1>5, <1>6
<1>8. hops \in UNION {[1..m -> DOMAIN map] : m \in 0..n - 1}
  BY <1>6, <1>7
<1>9. hops \in Trips(a, to, modes)
  BY <1>4, <1>8 DEF Trips, n
<1>10. ASSUME NEW t \in Trips(a, to, modes) PROVE CostOf(hops) <= CostOf(t)
  <2>1. t \in UNION {[1..m -> DOMAIN map] : m \in 0..n - 1} /\ Leads(t, a, to, modes)
    BY DEF Trips, n
  <2>2. PICK m \in 0..n - 1 : t \in [1..m -> DOMAIN map]
    BY <2>1
  <2>3. m \in Nat
    BY <1>5
  <2> QED BY <1>1, <1>2, <2>1, <2>2, <2>3, NoneCheaper
<1>11. Len(hops) > 0
  <2>1. hops # <<>>
    BY DEF hops
  <2> QED BY <1>4, <1>6, <2>1 DEF Hops
<1> QED BY <1>4, <1>9, <1>10, <1>11 DEF hops

(* No two ways out have the same place in the order they are tried in.     *)
LEMMA Ties ==
  ASSUME map \in Maps, NEW modes, NEW p \in Spot, NEW w \in Neighbours(p, modes)
  PROVE  /\ w[2] \in 2..2 * Len(map) + 1
         /\ \A q \in Spot : \A v \in Neighbours(q, modes) : v[2] = w[2] => q = p /\ v = w
<1> DEFINE out(q, v) == \E i \in DOMAIN map :
             \/ map[i].a = q /\ v = <<map[i].cost, 2 * i, map[i].b, i>>
             \/ map[i].b = q /\ v = <<map[i].cost, 2 * i + 1, map[i].a, i>>
<1>1. ASSUME NEW q \in Spot, NEW v \in Neighbours(q, modes) PROVE out(q, v)
  <2>1. \/ \E i \in DOMAIN map : map[i].a = q /\ map[i].mode \in modes /\ v = <<map[i].cost, 2 * i, map[i].b, i>>
        \/ \E i \in DOMAIN map : map[i].b = q /\ map[i].two /\ map[i].mode \in modes /\ v = <<map[i].cost, 2 * i + 1, map[i].a, i>>
    BY Zenon DEF Neighbours
  <2> QED BY <2>1
<1>2. PICK i \in DOMAIN map :
        \/ map[i].a = p /\ w = <<map[i].cost, 2 * i, map[i].b, i>>
        \/ map[i].b = p /\ w = <<map[i].cost, 2 * i + 1, map[i].a, i>>
  BY <1>1
<1>3. w[2] \in 2..2 * Len(map) + 1
  <2>1. Len(map) \in Nat /\ i \in 1..Len(map) /\ (w[2] = 2 * i \/ w[2] = 2 * i + 1)
    BY <1>2, Roads
  <2> QED BY <2>1
<1>4. ASSUME NEW q \in Spot, NEW v \in Neighbours(q, modes), v[2] = w[2] PROVE q = p /\ v = w
  <2>1. PICK j \in DOMAIN map :
          \/ map[j].a = q /\ v = <<map[j].cost, 2 * j, map[j].b, j>>
          \/ map[j].b = q /\ v = <<map[j].cost, 2 * j + 1, map[j].a, j>>
    BY <1>1
  <2>2. /\ (map[i].a = p /\ w = <<map[i].cost, 2 * i, map[i].b, i>> /\ w[2] = 2 * i)
           \/ (map[i].b = p /\ w = <<map[i].cost, 2 * i + 1, map[i].a, i>> /\ w[2] = 2 * i + 1)
        /\ (map[j].a = q /\ v = <<map[j].cost, 2 * j, map[j].b, j>> /\ v[2] = 2 * j)
           \/ (map[j].b = q /\ v = <<map[j].cost, 2 * j + 1, map[j].a, j>> /\ v[2] = 2 * j + 1)
    BY <1>2, <2>1
  <2>3. i \in Nat /\ j \in Nat
    BY Roads
  <2>4. i = j
    BY <1>4, <2>2, <2>3
  <2>5. w[2] = 2 * i <=> v[2] = 2 * j
    BY <1>4, <2>4
  <2>6. 2 * i # 2 * i + 1
    BY <2>3
  <2> QED BY <2>2, <2>4, <2>5, <2>6
<1> QED BY <1>3, <1>4

(* What was popped is not on the heap, nor is anything there twice: P are  *)
(* the places in the order of what was popped.                             *)
TieOut(s, t, modes) == \E p \in s.done : \E w \in Neighbours(p, modes) : w[2] = t
Popped(s, P, modes) ==
  /\ \A t \in P : t = 0 \/ TieOut(s, t, modes)
  /\ \A y \in s.heap : y[2] \notin P /\ (y[2] = 0 \/ TieOut(s, y[2], modes))
  /\ \A y, z \in s.heap : y[2] = z[2] => y = z

LEMMA PopsOnce ==
  ASSUME map \in Maps, NEW a \in Spot, NEW to, NEW modes, NEW s, SearchInv(s, a, modes),
         s.heap # {}, to \notin s.done, NEW P, Popped(s, P, modes)
  PROVE  \E x \in s.heap : Popped(Sought(s, to, modes), P \union {x[2]}, modes)
<1> DEFINE x == HeapFirst(s.heap)
           t == Relaxed(s, modes)
           ways == Relaxing(s, modes)
<1>1. x \in s.heap /\ x[3] \in Spot /\ x[1] \in Nat
  BY HeapGives
<1>2. Sought(s, to, modes) = t
  BY DEF Sought
<1>3. s \in Search /\ s.done \subseteq Spot
  BY SearchTypes DEF SearchInv
<1>4. CASE x[3] \in s.done
  <2>1. t = [s EXCEPT !.heap = @ \ {x}]
    BY <1>4 DEF Relaxed
  <2>2. t.done = s.done /\ t.heap = s.heap \ {x}
    BY <1>3, <2>1 DEF Search
  <2> HIDE DEF t, x
  <2>3. \A k : TieOut(t, k, modes) <=> TieOut(s, k, modes)
    BY <2>2 DEF TieOut
  <2>4. Popped(t, P \union {x[2]}, modes)
    BY <1>1, <2>2, <2>3 DEF Popped
  <2> QED BY <1>1, <1>2, <2>4
<1>5. CASE x[3] \notin s.done
  <2> DEFINE pushed == {<<x[1] + w[1], w[2], w[3]>> : w \in ways}
  <2>1. t.done = s.done \union {x[3]} /\ t.heap = (s.heap \ {x}) \union pushed
    BY <1>5, Relaxes
  <2>2. ways \subseteq Neighbours(x[3], modes)
    BY DEF Relaxing
  <2> HIDE DEF t, x, ways
  <2>3. \A k : TieOut(s, k, modes) => TieOut(t, k, modes)
    BY <2>1 DEF TieOut
  <2>4. ASSUME NEW w \in ways PROVE w[2] # 0 /\ ~TieOut(s, w[2], modes) /\ TieOut(t, w[2], modes)
    <3>1. w \in Neighbours(x[3], modes)
      BY <2>2
    <3>2. w[2] \in 2..2 * Len(map) + 1
      BY <1>1, <3>1, Ties
    <3>3. ~TieOut(s, w[2], modes)
      <4> SUFFICES ASSUME NEW p \in s.done, NEW v \in Neighbours(p, modes), v[2] = w[2] PROVE FALSE
        BY DEF TieOut
      <4>1. p \in Spot
        BY <1>3
      <4>2. p = x[3]
        BY <1>1, <3>1, <4>1, Ties
      <4> QED BY <1>5, <4>2 DEF x
    <3>4. w[2] # 0
      BY <3>2
    <3> QED BY <2>1, <3>1, <3>3, <3>4 DEF TieOut
  <2>5. \A y \in s.heap : y[2] = 0 \/ TieOut(s, y[2], modes)
    BY DEF Popped
  <2>6. \A k \in P \union {x[2]} : k = 0 \/ TieOut(s, k, modes)
    BY <1>1, <2>5 DEF Popped
  <2>7. ASSUME NEW y \in t.heap PROVE y[2] \notin P \union {x[2]} /\ (y[2] = 0 \/ TieOut(t, y[2], modes))
    <3>1. CASE y \in s.heap \ {x}
      <4>1. y[2] # x[2] /\ y[2] \notin P
        BY <1>1, <3>1 DEF Popped
      <4> QED BY <2>3, <2>5, <3>1, <4>1
    <3>2. CASE y \in pushed
      <4>1. PICK w \in ways : y[2] = w[2]
        BY <3>2
      <4> QED BY <2>4, <2>6, <4>1
    <3> QED BY <2>1, <3>1, <3>2
  <2>8. ASSUME NEW y \in t.heap, NEW z \in t.heap, y[2] = z[2] PROVE y = z
    <3>1. CASE y \in s.heap /\ z \in s.heap
      BY <2>8, <3>1 DEF Popped
    <3>2. CASE y \in pushed /\ z \in pushed
      <4>1. PICK w \in ways : y = <<x[1] + w[1], w[2], w[3]>>
        BY <3>2
      <4>2. PICK v \in ways : z = <<x[1] + v[1], v[2], v[3]>>
        BY <3>2
      <4>3. v[2] = w[2]
        BY <2>8, <4>1, <4>2
      <4>4. v = w
        BY <1>1, <2>2, <4>3, Ties
      <4> QED BY <4>1, <4>2, <4>4
    <3>3. ASSUME NEW u \in s.heap, NEW v \in pushed PROVE u[2] # v[2]
      <4>1. PICK w \in ways : v[2] = w[2]
        OBVIOUS
      <4> QED BY <2>4, <2>5, <4>1
    <3>4. (y \in s.heap \/ y \in pushed) /\ (z \in s.heap \/ z \in pushed)
      BY <2>1
    <3> HIDE DEF pushed
    <3> QED BY <2>8, <3>1, <3>2, <3>3, <3>4
  <2>9. \A k \in P \union {x[2]} : k = 0 \/ TieOut(t, k, modes)
    BY <2>3, <2>6
  <2> HIDE DEF pushed
  <2>10. Popped(t, P \union {x[2]}, modes)
    BY <2>7, <2>8, <2>9 DEF Popped
  <2> QED BY <1>1, <1>2, <2>10
<1> QED BY <1>4, <1>5

(* There is no more to pop than two pushes for a road and the first: by    *)
(* the end of its steps the search has nothing left or what it sought.     *)
LEMMA SearchEnds ==
  ASSUME map \in Maps, NEW a \in Spot, NEW to, NEW modes
  PROVE  Searched(a, to, modes).heap = {} \/ to \in Searched(a, to, modes).done
<1> DEFINE K == 2 * Len(map) + 1
           T == (2..K) \union {0}
<1>0. PICK f : Course(f, a, to, modes)
  BY SearchRuns
<1>1. /\ \A k \in Nat : f[k] = IF k = 0 THEN Setting(a) ELSE Sought(f[k - 1], to, modes)
      /\ \A k \in Nat : SearchInv(f[k], a, modes)
      /\ Searched(a, to, modes) = f[K]
  BY <1>0 DEF Course
<1> DEFINE on(k) == f[k].heap # {} /\ to \notin f[k].done
           counted(k) == \E P : Popped(f[k], P, modes) /\ IsFiniteSet(P) /\ Cardinality(P) = k
<1>2. Len(map) \in Nat /\ K \in Nat
  BY Roads
<1>3. ASSUME NEW k \in Nat, on(k), k # 0 PROVE k - 1 \in Nat /\ on(k - 1) /\ f[k] = Sought(f[k - 1], to, modes)
  <2>1. k - 1 \in Nat /\ f[k] = Sought(f[k - 1], to, modes)
    BY <1>1, <1>3
  <2>2. ASSUME ~on(k - 1) PROVE FALSE
    <3>1. f[k] = f[k - 1]
      BY <2>1, <2>2 DEF Sought
    <3> QED BY <1>3, <2>2, <3>1
  <2> QED BY <2>1, <2>2
<1>4. counted(0)
  <2>1. f[0] = Setting(a)
    BY <1>1
  <2>2. f[0].heap = {<<0, 0, a>>} /\ f[0].done = {}
    BY <2>1 DEF Setting
  <2>3. Popped(f[0], {}, modes)
    BY <2>2 DEF Popped
  <2> QED BY <2>3, FS_EmptySet
<1>5. ASSUME NEW k \in Nat, on(k), k # 0, counted(k - 1) PROVE counted(k)
  <2>1. k - 1 \in Nat /\ on(k - 1) /\ f[k] = Sought(f[k - 1], to, modes)
    BY <1>3, <1>5
  <2>2. PICK P : Popped(f[k - 1], P, modes) /\ IsFiniteSet(P) /\ Cardinality(P) = k - 1
    BY <1>5
  <2>3. SearchInv(f[k - 1], a, modes)
    BY <1>1, <2>1
  <2>4. PICK x \in f[k - 1].heap : Popped(Sought(f[k - 1], to, modes), P \union {x[2]}, modes)
    BY <2>1, <2>2, <2>3, PopsOnce
  <2>5. x[2] \notin P
    BY <2>2 DEF Popped
  <2>6. IsFiniteSet(P \union {x[2]}) /\ Cardinality(P \union {x[2]}) = (k - 1) + 1
    BY <2>2, <2>5, FS_AddElement
  <2>7. (k - 1) + 1 = k
    OBVIOUS
  <2> QED BY <2>1, <2>4, <2>6, <2>7
<1> HIDE DEF on, counted
<1>6. \A k \in Nat : on(k) => counted(k)
  <2> DEFINE bad == {k \in Nat : on(k) /\ ~counted(k)}
  <2> SUFFICES ASSUME bad # {} PROVE FALSE
    OBVIOUS
  <2>1. bad \subseteq Nat
    OBVIOUS
  <2>2. PICK k \in bad : \A u \in bad : k <= u
    <3> HIDE DEF bad
    <3> QED BY <2>1, LeastOf
  <2>3. k \in Nat /\ on(k) /\ ~counted(k) /\ k # 0
    BY <1>4, <2>2
  <2>4. k - 1 \in Nat /\ on(k - 1) /\ k - 1 < k
    BY <1>3, <2>3
  <2>5. counted(k - 1)
    BY <2>2, <2>3, <2>4
  <2> QED BY <1>5, <2>3, <2>5
<1>7. IsFiniteSet(T) /\ Cardinality(T) = K
  <2>1. IsFiniteSet(2..K) /\ Cardinality(2..K) = IF 2 > K THEN 0 ELSE K - 2 + 1
    <3> HIDE DEF K
    <3> QED BY <1>2, FS_Interval
  <2>2. 0 \notin 2..K
    BY <1>2
  <2>3. IsFiniteSet(T) /\ Cardinality(T) = Cardinality(2..K) + 1
    BY <2>1, <2>2, FS_AddElement
  <2>4. K >= 1
    BY <1>2
  <2> HIDE DEF T, K
  <2> QED BY <1>2, <2>1, <2>3, <2>4
<1>8. ASSUME on(K) PROVE FALSE
  <2>1. PICK P : Popped(f[K], P, modes) /\ IsFiniteSet(P) /\ Cardinality(P) = K
    BY <1>2, <1>6, <1>8 DEF counted
  <2>2. PICK y \in f[K].heap : TRUE
    BY <1>8 DEF on
  <2>3. f[K].done \subseteq Spot
    BY <1>1, <1>2, SearchTypes DEF SearchInv
  <2>4. \A t : t = 0 \/ TieOut(f[K], t, modes) => t \in T
    BY <2>3, Ties DEF TieOut
  <2>5. P \in SUBSET T /\ y[2] \in T /\ y[2] \notin P
    BY <2>1, <2>2, <2>4 DEF Popped
  <2> HIDE DEF T, K
  <2>6. P = T
    BY <1>7, <2>1, <2>5, FS_Subset
  <2> QED BY <2>5, <2>6
<1> QED BY <1>1, <1>8 DEF on

(* A search that has nothing left has settled all that roads lead to.      *)
LEMMA AllSettled ==
  ASSUME map \in Maps, NEW a \in Spot, NEW to, NEW modes, NEW s, SearchInv(s, a, modes), s.heap = {},
         NEW m \in Nat, NEW hops \in [1..m -> DOMAIN map], Leads(hops, a, to, modes)
  PROVE  to \in s.done
<1>1. DOMAIN hops = 1..m /\ Len(hops) = m
  OBVIOUS
<1>2. PICK path \in [1..m + 1 -> Spot] :
        /\ path[1] = a /\ path[m + 1] = to
        /\ \A n \in 1..m : Joins(path[n], path[n + 1], hops[n], modes)
  BY <1>1 DEF Leads
<1>3. Found(s, a, modes) /\ Heaped(s) /\ Relieved(s, modes)
  BY DEF SearchInv
<1>4. DOMAIN s.way \subseteq s.done
  BY <1>3 DEF Heaped
<1>5. a \in s.done
  BY <1>3, <1>4 DEF Found
<1>6. ASSUME NEW n \in 1..m, path[n] \in s.done PROVE path[n + 1] \in s.done
  <2>1. path[n] \in Spot /\ hops[n] \in DOMAIN map /\ Joins(path[n], path[n + 1], hops[n], modes)
    BY <1>2
  <2>2. PICK w \in Neighbours(path[n], modes) : w[3] = path[n + 1]
    BY <2>1, WaysOut
  <2> QED BY <1>3, <1>4, <1>6, <2>2 DEF Relieved
<1>7. \A k \in 0..m : path[k + 1] \in s.done
  <2> DEFINE bad == {k \in 0..m : path[k + 1] \notin s.done}
  <2> SUFFICES ASSUME bad # {} PROVE FALSE
    OBVIOUS
  <2>1. bad \subseteq Nat
    OBVIOUS
  <2>2. PICK k \in bad : \A u \in bad : k <= u
    <3> HIDE DEF bad
    <3> QED BY <2>1, LeastOf
  <2>3. k \in 0..m /\ path[k + 1] \notin s.done
    BY <2>2
  <2>4. k # 0
    BY <1>2, <1>5, <2>3
  <2>5. k \in 1..m /\ k - 1 \in 0..m /\ (k - 1) + 1 = k /\ k - 1 < k
    BY <2>3, <2>4
  <2>6. path[k] \in s.done
    BY <2>2, <2>3, <2>5
  <2> QED BY <1>6, <2>3, <2>5, <2>6
<1>8. m \in 0..m
  OBVIOUS
<1> QED BY <1>2, <1>7, <1>8

-----------------------------------------------------------------------------
(* The load: what is shed is enough, and no more is drawn than there is.   *)

Bundle == [Cargo -> Nat]

LEMMA RankOf ==
  /\ Rank \in [Cargo -> 1..Cardinality(Cargo)] /\ Cardinality(Cargo) \in Nat
  /\ \A g, h \in Cargo : g # h => Rank[g] # Rank[h]
  /\ \A g \in Cargo : Rank[g] \in Nat
<1> DEFINE n == Cardinality(Cargo)
           ranks(r) == r \in [Cargo -> 1..n] /\ \A g, h \in Cargo : g # h => r[g] # r[h]
<1>1. IsFiniteSet(Cargo)
  BY TravelAssumption
<1>2. n \in Nat /\ ExistsBijection(1..n, Cargo)
  BY <1>1, FS_CardinalityType
<1>3. PICK b \in Bijection(1..n, Cargo) : TRUE
  BY <1>2 DEF ExistsBijection
<1> HIDE DEF n
<1>4. b \in [1..n -> Cargo] /\ \A g \in Cargo : \E i \in 1..n : b[i] = g
  BY DEF Bijection, Injection, Surjection
<1> DEFINE r == [g \in Cargo |-> CHOOSE i \in 1..n : b[i] = g]
<1>5. \A g \in Cargo : r[g] \in 1..n /\ b[r[g]] = g
  BY <1>4
<1>6. r \in [Cargo -> 1..n]
  BY <1>5
<1> HIDE DEF r
<1>7. ranks(r)
  BY <1>5, <1>6
<1>8. ranks(Rank)
  <2> HIDE DEF ranks
  <2>1. Rank = CHOOSE q : ranks(q)
    <3>1. Rank = CHOOSE q \in [Cargo -> 1..n] : \A g, h \in Cargo : g # h => q[g] # q[h]
      BY DEF Rank, n
    <3> QED BY <3>1 DEF ranks
  <2> QED BY <1>7, <2>1
<1>9. \A g \in Cargo : Rank[g] \in Nat
  BY <1>8
<1> QED BY <1>2, <1>8, <1>9 DEF n

Before(h) == {u \in Cargo \X Cargo : u[1] \in Ahead(h, u[2])}
After(h) == {u \in Cargo \X Cargo : u[2] \in Ahead(h, u[1])}

LEMMA AheadOrders ==
  ASSUME NEW h \in Bundle
  PROVE  /\ \A g \in Cargo : g \notin Ahead(h, g) /\ Ahead(h, g) \subseteq Cargo
         /\ \A f, g, k \in Cargo : f \in Ahead(h, g) /\ g \in Ahead(h, k) => f \in Ahead(h, k)
         /\ \A f, g \in Cargo : f # g => f \in Ahead(h, g) \/ g \in Ahead(h, f)
<1>1. \A g \in Cargo : h[g] \in Nat /\ Rank[g] \in Nat
  BY RankOf DEF Bundle
<1>2. \A f, g \in Cargo : f # g => Rank[f] # Rank[g]
  BY RankOf
<1>3. \A f, g \in Cargo : f \in Ahead(h, g) <=> (h[f] > h[g] \/ (h[f] = h[g] /\ Rank[f] < Rank[g]))
  BY DEF Ahead
<1>4. \A g \in Cargo : g \notin Ahead(h, g) /\ Ahead(h, g) \subseteq Cargo
  <2>1. \A g \in Cargo : Ahead(h, g) \subseteq Cargo
    BY DEF Ahead
  <2> QED BY <1>1, <1>3, <2>1
<1>5. \A f, g, k \in Cargo : f \in Ahead(h, g) /\ g \in Ahead(h, k) => f \in Ahead(h, k)
  <2> SUFFICES ASSUME NEW f \in Cargo, NEW g \in Cargo, NEW k \in Cargo, f \in Ahead(h, g), g \in Ahead(h, k)
               PROVE  f \in Ahead(h, k)
    OBVIOUS
  <2>1. /\ h[f] > h[g] \/ (h[f] = h[g] /\ Rank[f] < Rank[g])
        /\ h[g] > h[k] \/ (h[g] = h[k] /\ Rank[g] < Rank[k])
    BY <1>3
  <2>2. h[f] > h[k] \/ (h[f] = h[k] /\ Rank[f] < Rank[k])
    BY <1>1, <2>1
  <2> QED BY <1>3, <2>2
<1>6. \A f, g \in Cargo : f # g => f \in Ahead(h, g) \/ g \in Ahead(h, f)
  <2> SUFFICES ASSUME NEW f \in Cargo, NEW g \in Cargo, f # g PROVE f \in Ahead(h, g) \/ g \in Ahead(h, f)
    OBVIOUS
  <2>1. Rank[f] # Rank[g] /\ h[f] \in Nat /\ h[g] \in Nat /\ Rank[f] \in Nat /\ Rank[g] \in Nat
    BY <1>1, <1>2
  <2>2. (h[f] > h[g] \/ (h[f] = h[g] /\ Rank[f] < Rank[g])) \/ (h[g] > h[f] \/ (h[g] = h[f] /\ Rank[g] < Rank[f]))
    BY <2>1
  <2> QED BY <1>3, <2>2
<1> QED BY <1>4, <1>5, <1>6

(* The last bundle has everything else before it.                          *)
LEMMA LastBundle ==
  ASSUME NEW h \in Bundle
  PROVE  \E g \in Cargo : Ahead(h, g) \union {g} = Cargo
<1> DEFINE R == After(h)
<1>1. /\ \A g \in Cargo : g \notin Ahead(h, g) /\ Ahead(h, g) \subseteq Cargo
      /\ \A f, g, k \in Cargo : f \in Ahead(h, g) /\ g \in Ahead(h, k) => f \in Ahead(h, k)
      /\ \A f, g \in Cargo : f # g => f \in Ahead(h, g) \/ g \in Ahead(h, f)
  BY AheadOrders
<1>2. \A f, g \in Cargo : <<g, f>> \in R <=> f \in Ahead(h, g)
  BY DEF After
<1> HIDE DEF R
<1>3. \A x \in Cargo : <<x, x>> \notin R
  BY <1>1, <1>2
<1>4. \A x, y, z \in Cargo : <<x, y>> \in R /\ <<y, z>> \in R => <<x, z>> \in R
  BY <1>1, <1>2
<1>5. IsFiniteSet(Cargo) /\ Cargo # {}
  BY TravelAssumption
<1>6. PICK g \in Cargo : \A f \in Cargo : <<f, g>> \notin R
  BY <1>3, <1>4, <1>5, Foremost
<1>7. \A f \in Cargo : f # g => f \in Ahead(h, g)
  BY <1>1, <1>2, <1>6
<1> QED BY <1>1, <1>7

(* Bundles are dropped in order: one of them makes up the excess, and all  *)
(* before it go whole.                                                     *)
LEMMA Turning ==
  ASSUME NEW h \in Bundle, NEW e \in Nat, e <= Weight(h)
  PROVE  \E g \in Cargo : /\ Total(h, Ahead(h, g)) + h[g] >= e
                          /\ \A k \in Ahead(h, g) : Total(h, Ahead(h, k)) + h[k] < e
<1> DEFINE upto(g) == Total(h, Ahead(h, g)) + h[g]
           A == {g \in Cargo : upto(g) >= e}
           R == Before(h)
<1>1. /\ \A g \in Cargo : g \notin Ahead(h, g) /\ Ahead(h, g) \subseteq Cargo
      /\ \A f, g, k \in Cargo : f \in Ahead(h, g) /\ g \in Ahead(h, k) => f \in Ahead(h, k)
  BY AheadOrders
<1>2. IsFiniteSet(Cargo) /\ \A g \in Cargo : h[g] \in Nat
  BY TravelAssumption DEF Bundle
<1>3. \A g \in Cargo : IsFiniteSet(Ahead(h, g)) /\ Counts(h, Ahead(h, g)) /\ Total(h, Ahead(h, g)) \in Nat
  <2> TAKE g \in Cargo
  <2>1. Ahead(h, g) \in SUBSET Cargo
    BY <1>1
  <2>2. IsFiniteSet(Ahead(h, g)) /\ Counts(h, Ahead(h, g))
    BY <1>2, <2>1, FS_Subset DEF Counts
  <2> QED BY <2>2, TotalType
<1>4. A # {}
  <2>1. PICK g \in Cargo : Ahead(h, g) \union {g} = Cargo
    BY LastBundle
  <2>2. Total(h, Ahead(h, g) \union {g}) = Total(h, Ahead(h, g)) + h[g]
    BY <1>1, <1>2, <1>3, TotalAdd
  <2>3. upto(g) = Weight(h)
    BY <2>1, <2>2 DEF Weight
  <2>4. upto(g) \in Nat
    BY <1>2, <1>3
  <2> HIDE DEF upto
  <2>5. g \in A
    BY <2>3, <2>4
  <2> QED BY <2>5
<1>5. \A f, g \in Cargo : <<f, g>> \in R <=> f \in Ahead(h, g)
  BY DEF Before
<1> HIDE DEF R, upto
<1>6. A \in SUBSET Cargo
  OBVIOUS
<1> HIDE DEF A
<1>7. \A x \in A : <<x, x>> \notin R
  BY <1>1, <1>5, <1>6
<1>8. \A x, y, z \in A : <<x, y>> \in R /\ <<y, z>> \in R => <<x, z>> \in R
  BY <1>1, <1>5, <1>6
<1>9. IsFiniteSet(A)
  BY <1>2, <1>6, FS_Subset
<1>10. PICK g \in A : \A f \in A : <<f, g>> \notin R
  BY <1>4, <1>7, <1>8, <1>9, Foremost
<1>11. upto(g) >= e
  BY DEF A
<1>12. \A k \in Ahead(h, g) : k \in Cargo /\ k \notin A
  BY <1>1, <1>5, <1>6, <1>10
<1>13. \A k \in Ahead(h, g) : upto(k) < e
  <2> TAKE k \in Ahead(h, g)
  <2>1. upto(k) \in Nat
    BY <1>2, <1>3, <1>12 DEF upto
  <2> QED BY <1>12, <2>1 DEF A
<1> QED BY <1>6, <1>11, <1>13 DEF upto

(* After shedding, what is left fits.                                      *)
LEMMA ShedFits ==
  ASSUME NEW h \in Bundle, NEW cap \in Nat
  PROVE  /\ Shed(h, cap) \in Bundle /\ Weight(h) \in Nat /\ Weight(Shed(h, cap)) \in Nat
         /\ Weight(Shed(h, cap)) <= cap
<1> DEFINE t == Shed(h, cap)
           e == Weight(h) - cap
           first(g) == Total(h, Ahead(h, g))
           drop(g) == Dropped(h, cap, g)
<1>1. IsFiniteSet(Cargo) /\ Counts(h, Cargo) /\ \A g \in Cargo : h[g] \in Nat
  BY TravelAssumption DEF Bundle, Counts
<1>2. Weight(h) \in Nat
  BY <1>1, TotalType DEF Weight
<1>3. \A g \in Cargo : first(g) \in Nat /\ IsFiniteSet(Ahead(h, g)) /\ Ahead(h, g) \subseteq Cargo /\ g \notin Ahead(h, g)
  <2> TAKE g \in Cargo
  <2>1. Ahead(h, g) \in SUBSET Cargo /\ g \notin Ahead(h, g)
    BY AheadOrders
  <2>2. IsFiniteSet(Ahead(h, g)) /\ Counts(h, Ahead(h, g))
    BY <1>1, <2>1, FS_Subset DEF Counts
  <2> QED BY <2>1, <2>2, TotalType
<1>4. \A g \in Cargo : drop(g) = IF e - first(g) <= 0 THEN 0 ELSE IF h[g] <= e - first(g) THEN h[g] ELSE e - first(g)
  BY DEF Dropped, Lesser
<1>5. \A g \in Cargo : t[g] = h[g] - drop(g)
  BY DEF Shed
<1> HIDE DEF t, drop, first
<1>6. \A g \in Cargo : t[g] \in Nat /\ t[g] <= h[g]
  <2> TAKE g \in Cargo
  <2>1. e \in Int /\ first(g) \in Nat /\ h[g] \in Nat
    BY <1>1, <1>2, <1>3
  <2> HIDE DEF e
  <2>2. drop(g) \in Nat /\ drop(g) <= h[g]
    BY <1>4, <2>1
  <2> QED BY <1>5, <2>1, <2>2
<1>7. t = [g \in Cargo |-> t[g]]
  BY DEF t, Shed
<1>8. t \in Bundle
  BY <1>6, <1>7 DEF Bundle
<1>9. Counts(t, Cargo)
  BY <1>6 DEF Counts
<1>10. Weight(t) \in Nat
  BY <1>1, <1>9, TotalType DEF Weight
<1>11. CASE e <= 0
  <2>1. \A g \in Cargo : t[g] = h[g]
    <3> TAKE g \in Cargo
    <3>1. first(g) \in Nat /\ e \in Int /\ h[g] \in Nat
      BY <1>1, <1>2, <1>3
    <3>2. e - first(g) <= 0
      BY <1>11, <3>1
    <3> QED BY <1>4, <1>5, <3>1, <3>2
  <2>2. Weight(t) = Weight(h)
    BY <2>1, TotalSame DEF Weight
  <2> QED BY <1>2, <1>8, <1>10, <1>11, <2>2 DEF t
<1>12. CASE e > 0
  <2>0. e \in Nat /\ e <= Weight(h)
    BY <1>2, <1>12
  <2> HIDE DEF e
  <2>1. PICK g \in Cargo : first(g) + h[g] >= e /\ \A k \in Ahead(h, g) : first(k) + h[k] < e
    BY <2>0, Turning DEF first
  <2> DEFINE P == Ahead(h, g)
             Q == Cargo \ P
             L == Q \ {g}
  <2>2. P \subseteq Cargo /\ g \notin P /\ IsFiniteSet(P) /\ Cargo = P \union Q /\ P \intersect Q = {} /\ g \in Q
        /\ first(g) = Total(h, P)
    BY <1>3 DEF first
  <2>3. IsFiniteSet(Q) /\ Counts(h, P) /\ Counts(h, Q) /\ Counts(t, P) /\ Counts(t, Q)
    <3>1. Q \in SUBSET Cargo /\ P \in SUBSET Cargo
      BY <2>2
    <3>2. IsFiniteSet(Q)
      BY <1>1, <3>1, FS_Subset
    <3> HIDE DEF P, Q
    <3> QED BY <1>1, <1>9, <3>1, <3>2 DEF Counts
  <2>4. \A k \in P : t[k] = 0
    <3> TAKE k \in P
    <3>1. k \in Cargo /\ first(k) \in Nat /\ h[k] \in Nat /\ first(k) + h[k] < e
      BY <1>1, <1>3, <2>1, <2>2
    <3>2. drop(k) = h[k]
      BY <1>4, <2>0, <3>1
    <3> QED BY <1>5, <3>1, <3>2
  <2> HIDE DEF P, Q
  <2>5. Weight(h) = first(g) + Total(h, Q) /\ Weight(t) = Total(t, P) + Total(t, Q)
    <3>1. Total(h, P \union Q) = Total(h, P) + Total(h, Q)
      BY <2>2, <2>3, TotalUnion
    <3>2. Total(t, P \union Q) = Total(t, P) + Total(t, Q)
      BY <2>2, <2>3, TotalUnion
    <3> QED BY <2>2, <3>1, <3>2 DEF Weight
  <2>6. Total(t, P) = 0
    BY <2>4, TotalZero
  <2>7. /\ Total(h, Q) = Total(h, L) + h[g] /\ Total(h, L) \in Nat
        /\ Total(t, Q) = Total(t, L) + t[g] /\ Total(t, L) \in Nat
    BY <2>2, <2>3, TotalSplit
  <2>8. Total(t, L) <= Total(h, L)
    <3>1. L \subseteq Cargo /\ IsFiniteSet(L)
      BY <2>2, <2>3, FS_RemoveElement
    <3> HIDE DEF L
    <3>2. Counts(h, L) /\ \A k \in L : t[k] \in Nat /\ t[k] <= h[k]
      BY <1>1, <1>6, <3>1 DEF Counts
    <3> QED BY <3>1, <3>2, TotalLess
  <2> HIDE DEF L
  <2>9. first(g) \in Nat /\ h[g] \in Nat /\ t[g] \in Nat /\ t[g] <= h[g]
    BY <1>1, <1>3, <1>6
  <2>10. first(g) + (h[g] - t[g]) >= e
    <3>1. CASE e - first(g) <= 0
      BY <2>0, <2>9, <3>1
    <3>2. CASE e - first(g) > 0
      <4>1. drop(g) = e - first(g)
        BY <1>4, <2>0, <2>1, <2>9, <3>2
      <4>2. t[g] = h[g] - (e - first(g))
        BY <1>5, <4>1
      <4> QED BY <2>0, <2>9, <4>2
    <3> QED BY <2>0, <2>9, <3>1, <3>2
  <2>11. e = Weight(h) - cap
    BY DEF e
  <2>12. Weight(t) <= cap
    BY <1>2, <1>10, <2>0, <2>5, <2>6, <2>7, <2>8, <2>9, <2>10, <2>11
  <2> QED BY <1>2, <1>8, <1>10, <2>12 DEF t
<1>13. e <= 0 \/ e > 0
  BY <1>2
<1> QED BY <1>11, <1>12, <1>13

LEMMA FedWeighs ==
  ASSUME map \in Maps, NEW h \in Bundle, NEW i \in DOMAIN map, h[Food] >= Ration[map[i].mode]
  PROVE  /\ Fed(h, i) \in Bundle /\ Ration[map[i].mode] \in Nat
         /\ Weight(h) \in Nat /\ Weight(Fed(h, i)) \in Nat
         /\ Weight(Fed(h, i)) + Ration[map[i].mode] = Weight(h)
<1> DEFINE r == Ration[map[i].mode]
           t == Fed(h, i)
<1>1. r \in Nat
  BY Roads, TravelAssumption
<1>2. IsFiniteSet(Cargo) /\ Food \in Cargo /\ Counts(h, Cargo) /\ h[Food] \in Nat
  BY TravelAssumption DEF Bundle, Counts
<1>3. t = [h EXCEPT ![Food] = @ - r]
  BY DEF Fed
<1>4. h[Food] - r \in Nat
  BY <1>1, <1>2
<1> HIDE DEF r, t
<1>5. t \in Bundle /\ t[Food] = h[Food] - r /\ \A k \in Cargo \ {Food} : t[k] = h[k]
  BY <1>2, <1>3, <1>4 DEF Bundle
<1>6. Counts(t, Cargo)
  BY <1>5 DEF Bundle, Counts
<1>7. Weight(t) = Weight(h) - h[Food] + t[Food]
  BY <1>2, <1>5, <1>6, TotalChange DEF Weight
<1>8. Weight(h) \in Nat /\ Weight(t) \in Nat
  BY <1>2, <1>6, TotalType DEF Weight
<1>9. Weight(t) + r = Weight(h)
  BY <1>1, <1>2, <1>5, <1>7, <1>8
<1> QED BY <1>1, <1>5, <1>8, <1>9 DEF r, t

-----------------------------------------------------------------------------
(* Walkers and their routes: what the arrival pass relies on.              *)

PlainTypes ==
  /\ hour \in 1..Day /\ stage \in {"open", "pass", "acts"}
  /\ living \subseteq Walker /\ lit \subseteq Walker
  /\ place \in [Walker -> Spot]
  /\ goods \in [Walker -> Bundle]
  /\ gifts \in 0..MaxGifts

(* A route that goes on has a hop to walk, and is active while it has one. *)
WellRow(r) ==
  /\ r \in RouteRow
  /\ r.status \in Ongoing => r.next \in DOMAIN r.hops
  /\ (r.status = "active") <=> (r.hop # "none")

RowsOf(R) ==
  /\ R \in [Walker -> Seq(RouteRow)]
  /\ \A w \in Walker : Len(R[w]) <= MaxRoutes /\ \A n \in DOMAIN R[w] : WellRow(R[w][n])

(* A hop that is due has completed when the pass begins.                   *)
OnTheWay(R) == \A w \in Walker : \A n \in DOMAIN R[w] : R[w][n].hop = "running" => R[w][n].left > 0

(* What the pass has to visit is there.                                    *)
Waits(T, R) ==
  /\ T \in [Ongoing -> SUBSET (Walker \X (1..MaxRoutes))]
  /\ \A k \in Ongoing : \A v \in T[k] : v[2] \in DOMAIN R[v[1]]

TravelInv ==
  /\ map \in Maps
  /\ PlainTypes
  /\ RowsOf(routes)
  /\ stage # "open" => OnTheWay(routes)
  /\ Waits(todo, routes)

WalkHolds == TravelInv' /\ PlanIsShortest /\ LoadFitsRoad /\ OnlyArrivalsMove

(* The rows a step leaves are well formed by themselves.                   *)
LEMMA RowLength ==
  ASSUME NEW R, R \in [Walker -> Seq(RouteRow)]
  PROVE  \A w \in Walker : /\ Len(R[w]) \in Nat /\ DOMAIN R[w] = 1..Len(R[w])
                           /\ R[w] = [n \in DOMAIN R[w] |-> R[w][n]]
                           /\ \A n \in DOMAIN R[w] : R[w][n] \in RouteRow /\ n \in Nat
<1> TAKE w \in Walker
<1>1. R[w] \in Seq(RouteRow)
  OBVIOUS
<1>2. Len(R[w]) \in Nat /\ DOMAIN R[w] = 1..Len(R[w]) /\ R[w] \in [1..Len(R[w]) -> RouteRow]
  BY <1>1
<1> QED BY <1>2

LEMMA RowFields ==
  ASSUME map \in Maps, NEW r \in RouteRow
  PROVE  /\ r.from \in Spot /\ r.dest \in Spot /\ r.modes \in SUBSET Mode /\ r.hops \in Seq(DOMAIN map)
         /\ r.next \in Nat /\ r.next > 0
         /\ r.status \in {"active", "waiting", "arrived", "stranded"}
         /\ r.hop \in {"none", "running", "completed", "cancelled"}
         /\ r.left \in Nat /\ r.waited \in 0..Relight + 1
         /\ Len(r.hops) \in Nat /\ DOMAIN r.hops = 1..Len(r.hops)
         /\ \A n \in DOMAIN r.hops : r.hops[n] \in DOMAIN map
<1>1. /\ r.from \in Spot /\ r.dest \in Spot /\ r.modes \in SUBSET Mode /\ r.hops \in Seq(DOMAIN map)
      /\ r.next \in Nat /\ r.next > 0
      /\ r.status \in {"active", "waiting", "arrived", "stranded"}
      /\ r.hop \in {"none", "running", "completed", "cancelled"}
      /\ r.left \in Nat /\ r.waited \in 0..Relight + 1
  BY DEF RouteRow
<1>2. Len(r.hops) \in Nat /\ DOMAIN r.hops = 1..Len(r.hops) /\ \A n \in DOMAIN r.hops : r.hops[n] \in DOMAIN map
  BY <1>1
<1> QED BY <1>1, <1>2

LEMMA EditHop ==
  ASSUME NEW r \in RouteRow, NEW h \in {"none", "running", "completed", "cancelled"}
  PROVE  LET q == [r EXCEPT !.hop = h] IN
         /\ q \in RouteRow /\ q.hop = h /\ q.status = r.status /\ q.next = r.next
         /\ q.hops = r.hops /\ q.left = r.left
  BY DEF RouteRow

LEMMA EditNext ==
  ASSUME NEW r \in RouteRow
  PROVE  LET q == [r EXCEPT !.next = @ + 1] IN
         /\ q \in RouteRow /\ q.hop = r.hop /\ q.status = r.status /\ q.next = r.next + 1
         /\ q.hops = r.hops /\ q.left = r.left
  BY DEF RouteRow

LEMMA EditLeft ==
  ASSUME NEW r \in RouteRow, r.left > 0
  PROVE  LET q == [r EXCEPT !.left = @ - 1] IN
         /\ q \in RouteRow /\ q.hop = r.hop /\ q.status = r.status /\ q.next = r.next /\ q.hops = r.hops
  BY DEF RouteRow

LEMMA EditWaited ==
  ASSUME NEW r \in RouteRow
  PROVE  LET q == [r EXCEPT !.waited = Lesser(@ + 1, Relight + 1)] IN
         /\ q \in RouteRow /\ q.hop = r.hop /\ q.status = r.status /\ q.next = r.next /\ q.hops = r.hops
         /\ q.left = r.left
<1>1. Relight \in Nat
  BY TravelAssumption
<1>2. r.waited \in 0..Relight + 1
  BY DEF RouteRow
<1>3. Lesser(r.waited + 1, Relight + 1) \in 0..Relight + 1
  BY <1>1, <1>2 DEF Lesser
<1> QED BY <1>3 DEF RouteRow

LEMMA EditOver ==
  ASSUME NEW r \in RouteRow
  PROVE  /\ WellRow(Stranded(r)) /\ Stranded(r).hop = "none" /\ Stranded(r).next = r.next
         /\ WellRow(Arrived(r)) /\ Arrived(r).hop = "none" /\ Arrived(r).next = r.next
         /\ r.next \in DOMAIN r.hops => WellRow(Halted(r))
         /\ Halted(r).hop = "none" /\ Halted(r).next = r.next
<1>0. 0 \in 0..Relight + 1
  BY TravelAssumption
<1>1. /\ Stranded(r) \in RouteRow /\ Stranded(r).hop = "none" /\ Stranded(r).next = r.next
      /\ Stranded(r).status = "stranded"
  BY <1>0 DEF Stranded, RouteRow
<1>2. /\ Arrived(r) \in RouteRow /\ Arrived(r).hop = "none" /\ Arrived(r).next = r.next
      /\ Arrived(r).status = "arrived"
  BY <1>0 DEF Arrived, RouteRow
<1>3. /\ Halted(r) \in RouteRow /\ Halted(r).hop = "none" /\ Halted(r).next = r.next
      /\ Halted(r).status = "waiting" /\ Halted(r).hops = r.hops
  BY <1>0 DEF Halted, RouteRow
<1> QED BY <1>1, <1>2, <1>3 DEF WellRow, Ongoing

LEMMA EditOnHop ==
  ASSUME map \in Maps, NEW r \in RouteRow, r.next \in DOMAIN r.hops, NEW i \in DOMAIN map
  PROVE  /\ WellRow(OnHop(r, i)) /\ OnHop(r, i).hop = "running" /\ OnHop(r, i).next = r.next
         /\ OnHop(r, i).left > 0 /\ OnHop(r, i).hops = r.hops
<1>0. 0 \in 0..Relight + 1
  BY TravelAssumption
<1>1. map[i].cost \in Nat /\ map[i].cost > 0
  BY Roads
<1>2. /\ OnHop(r, i) \in RouteRow /\ OnHop(r, i).hop = "running" /\ OnHop(r, i).next = r.next
      /\ OnHop(r, i).status = "active" /\ OnHop(r, i).hops = r.hops /\ OnHop(r, i).left = map[i].cost
  BY <1>0, <1>1 DEF OnHop, RouteRow
<1> QED BY <1>1, <1>2 DEF WellRow, Ongoing

(* One row is written.                                                     *)
LEMMA RowPut ==
  ASSUME RowsOf(routes), NEW w \in Walker, NEW n \in DOMAIN routes[w], NEW r, WellRow(r)
  PROVE  LET R == [routes EXCEPT ![w][n] = r] IN
         /\ RowsOf(R) /\ \A v \in Walker : DOMAIN R[v] = DOMAIN routes[v]
         /\ R[w][n] = r
         /\ \A v \in Walker : \A m \in DOMAIN routes[v] : v # w \/ m # n => R[v][m] = routes[v][m]
<1> DEFINE R == [routes EXCEPT ![w][n] = r]
           row == [routes[w] EXCEPT ![n] = r]
<1>1. /\ routes \in [Walker -> Seq(RouteRow)] /\ r \in RouteRow
      /\ \A v \in Walker : Len(routes[v]) <= MaxRoutes /\ \A m \in DOMAIN routes[v] : WellRow(routes[v][m])
  BY DEF RowsOf, WellRow
<1>2. R = [routes EXCEPT ![w] = row]
  BY <1>1
<1>3. row \in Seq(RouteRow) /\ Len(row) = Len(routes[w]) /\ DOMAIN row = DOMAIN routes[w] /\ row[n] = r
      /\ \A m \in DOMAIN routes[w] : m # n => row[m] = routes[w][m]
  <2>1. routes[w] \in Seq(RouteRow)
    BY <1>1
  <2> QED BY <1>1, <2>1
<1> HIDE DEF row, R
<1>4. R \in [Walker -> Seq(RouteRow)] /\ R[w] = row /\ \A v \in Walker : v # w => R[v] = routes[v]
  BY <1>1, <1>2, <1>3
<1>5. /\ \A v \in Walker : DOMAIN R[v] = DOMAIN routes[v] /\ Len(R[v]) <= MaxRoutes
      /\ R[w][n] = r
      /\ \A v \in Walker : \A m \in DOMAIN routes[v] : v # w \/ m # n => R[v][m] = routes[v][m]
  BY <1>1, <1>3, <1>4
<1>6. \A v \in Walker : \A m \in DOMAIN R[v] : WellRow(R[v][m])
  <2> TAKE v \in Walker
  <2> TAKE m \in DOMAIN R[v]
  <2>1. CASE v = w /\ m = n
    BY <1>5, <2>1
  <2>2. CASE v # w \/ m # n
    BY <1>1, <1>5, <2>2
  <2> QED BY <2>1, <2>2
<1> QED BY <1>4, <1>5, <1>6 DEF RowsOf, R

(* Every row is rewritten.                                                 *)
LEMMA RowsMapped ==
  ASSUME RowsOf(routes), NEW R, R = [w \in Walker |-> R[w]],
         \A w \in Walker : R[w] = [n \in DOMAIN routes[w] |-> R[w][n]],
         \A w \in Walker : \A n \in DOMAIN routes[w] : WellRow(R[w][n])
  PROVE  RowsOf(R) /\ \A v \in Walker : DOMAIN R[v] = DOMAIN routes[v]
<1>1. \A w \in Walker : DOMAIN R[w] = DOMAIN routes[w]
  OBVIOUS
<1>2. \A w \in Walker : R[w] \in Seq(RouteRow) /\ Len(R[w]) = Len(routes[w])
  <2> TAKE w \in Walker
  <2>1. DOMAIN routes[w] = 1..Len(routes[w]) /\ Len(routes[w]) \in Nat
    BY RowLength DEF RowsOf
  <2>2. \A n \in 1..Len(routes[w]) : R[w][n] \in RouteRow
    BY <2>1 DEF WellRow
  <2>3. R[w] \in [1..Len(routes[w]) -> RouteRow]
    BY <2>1, <2>2
  <2> QED BY <2>1, <2>3
<1>3. R \in [Walker -> Seq(RouteRow)]
  BY <1>2
<1>4. \A w \in Walker : Len(R[w]) <= MaxRoutes
  BY <1>2 DEF RowsOf
<1> QED BY <1>1, <1>3, <1>4 DEF RowsOf

(* What the map of the next state makes of the rows is the same.           *)
LEMMA RowsLater ==
  ASSUME map' = map, RowsOf(routes')
  PROVE  RowsOf(routes)'
<1>1. RouteRow' = RouteRow
  BY DEF RouteRow
<1>2. \A r : WellRow(r) => WellRow(r)'
  BY <1>1 DEF WellRow
<1>3. /\ routes' \in [Walker -> Seq(RouteRow)]
      /\ \A w \in Walker : Len(routes'[w]) <= MaxRoutes /\ \A n \in DOMAIN routes'[w] : WellRow(routes'[w][n])
  BY DEF RowsOf
<1> QED BY <1>1, <1>2, <1>3 DEF RowsOf

LEMMA InvLater ==
  ASSUME TravelInv, map' = map, PlainTypes', RowsOf(routes'), stage' # "open" => OnTheWay(routes'),
         Waits(todo', routes')
  PROVE  TravelInv'
<1>1. RowsOf(routes)'
  BY RowsLater
<1>2. map' \in Maps
  BY DEF TravelInv
<1>3. OnTheWay(routes') => OnTheWay(routes)'
  BY DEF OnTheWay
<1>4. Waits(todo', routes') => Waits(todo, routes)'
  BY DEF Waits
<1> QED BY <1>1, <1>2, <1>3, <1>4 DEF TravelInv

SameRows == \A v \in Walker : DOMAIN routes'[v] = DOMAIN routes[v]

(* A hop that runs is one that ran.                                        *)
NoneSetOut ==
  \A v \in Walker : \A m \in DOMAIN routes[v] :
    routes'[v][m].hop = "running" => routes[v][m].hop = "running" /\ routes[v][m].next = routes'[v][m].next

LEMMA Quiet ==
  ASSUME TravelInv', SameRows, NoneSetOut, place' = place
  PROVE  WalkHolds
<1>1. \A v \in Walker : DOMAIN routes'[v] \ DOMAIN routes[v] = {}
  BY DEF SameRows
<1>2. PlanIsShortest
  BY <1>1 DEF PlanIsShortest
<1>3. LoadFitsRoad
  BY DEF LoadFitsRoad, NoneSetOut, SameRows
<1>4. OnlyArrivalsMove
  BY DEF OnlyArrivalsMove
<1> QED BY <1>2, <1>3, <1>4 DEF WalkHolds

LEMMA WaitsOn ==
  ASSUME TravelInv, todo' = todo, SameRows
  PROVE  Waits(todo', routes')
<1>1. \A k \in Ongoing : \A v \in todo[k] : v[1] \in Walker
  BY DEF TravelInv, Waits
<1> QED BY <1>1 DEF TravelInv, Waits, SameRows

LEMMA MovingOn ==
  ASSUME SameRows, OnTheWay(routes),
         \A v \in Walker : \A m \in DOMAIN routes[v] :
           routes'[v][m].hop = "running" => routes[v][m].hop = "running" /\ routes'[v][m].left = routes[v][m].left
  PROVE  OnTheWay(routes')
  BY DEF SameRows, OnTheWay

-----------------------------------------------------------------------------
(* Every action keeps the invariant, and what the roads promise.           *)

LEMMA InvRows ==
  ASSUME TravelInv
  PROVE  /\ routes \in [Walker -> Seq(RouteRow)] /\ RowsOf(routes) /\ map \in Maps
         /\ \A w \in Walker : Len(routes[w]) <= MaxRoutes
         /\ \A w \in Walker : \A n \in DOMAIN routes[w] :
              /\ WellRow(routes[w][n]) /\ routes[w][n] \in RouteRow
              /\ n \in Nat /\ n > 0
<1>1. RowsOf(routes) /\ map \in Maps
  BY DEF TravelInv
<1>2. /\ routes \in [Walker -> Seq(RouteRow)] /\ \A w \in Walker : Len(routes[w]) <= MaxRoutes
      /\ \A w \in Walker : \A n \in DOMAIN routes[w] : WellRow(routes[w][n])
  BY <1>1 DEF RowsOf
<1>3. \A w \in Walker : \A n \in DOMAIN routes[w] : n \in Nat /\ n > 0
  BY <1>2, RowLength
<1> QED BY <1>1, <1>2, <1>3 DEF WellRow

LEMMA StepIdle ==
  ASSUME TravelInv, map' = map, routes' = routes, place' = place, todo' = todo, PlainTypes',
         stage' # "open" => stage # "open"
  PROVE  WalkHolds
<1>1. SameRows /\ NoneSetOut
  BY DEF SameRows, NoneSetOut
<1>2. Waits(todo', routes')
  BY <1>1, WaitsOn
<1>3. stage' # "open" => OnTheWay(routes')
  BY DEF TravelInv
<1>4. RowsOf(routes')
  BY DEF TravelInv
<1>5. TravelInv'
  BY <1>2, <1>3, <1>4, InvLater
<1> QED BY <1>1, <1>5, Quiet

LEMMA StepTorch ==
  ASSUME TravelInv, NEW w \in Walker, Torch(w)
  PROVE  WalkHolds
<1>1. /\ map' = map /\ routes' = routes /\ place' = place /\ todo' = todo /\ stage' = stage
      /\ hour' = hour /\ living' = living /\ goods' = goods /\ gifts' = gifts
      /\ lit' = IF w \in lit THEN lit \ {w} ELSE lit \union {w}
  BY DEF Torch, rest
<1>2. PlainTypes
  BY DEF TravelInv
<1>3. lit' \subseteq Walker
  BY <1>1, <1>2 DEF PlainTypes
<1>4. PlainTypes'
  BY <1>1, <1>2, <1>3 DEF PlainTypes
<1> QED BY <1>1, <1>4, StepIdle

LEMMA StepGive ==
  ASSUME TravelInv, NEW w \in Walker, NEW g \in Cargo, Give(w, g)
  PROVE  WalkHolds
<1>1. /\ map' = map /\ routes' = routes /\ place' = place /\ todo' = todo /\ stage' = stage
      /\ hour' = hour /\ living' = living /\ lit' = lit /\ gifts' = gifts + 1 /\ gifts < MaxGifts
      /\ goods' = [goods EXCEPT ![w][g] = @ + 1]
  BY DEF Give
<1>2. PlainTypes
  BY DEF TravelInv
<1>3. goods' \in [Walker -> Bundle]
  BY <1>1, <1>2 DEF PlainTypes, Bundle
<1>4. gifts' \in 0..MaxGifts
  BY <1>1, <1>2, TravelAssumption DEF PlainTypes
<1>5. PlainTypes'
  BY <1>1, <1>2, <1>3, <1>4 DEF PlainTypes
<1> QED BY <1>1, <1>5, StepIdle

LEMMA StepEndPass ==
  ASSUME TravelInv, EndPass
  PROVE  WalkHolds
<1>1. /\ map' = map /\ routes' = routes /\ place' = place /\ todo' = todo /\ stage = "pass" /\ stage' = "acts"
      /\ hour' = hour /\ living' = living /\ lit' = lit /\ gifts' = gifts /\ goods' = goods
  BY DEF EndPass, rest
<1>2. PlainTypes
  BY DEF TravelInv
<1>3. PlainTypes'
  BY <1>1, <1>2 DEF PlainTypes
<1> QED BY <1>1, <1>3, StepIdle

LEMMA StepEndHop ==
  ASSUME TravelInv, NEW w \in Walker, NEW n \in DOMAIN routes[w], EndHop(w, n)
  PROVE  WalkHolds
<1> DEFINE r == routes[w][n]
           q == [r EXCEPT !.hop = "cancelled"]
<1>1. /\ map' = map /\ place' = place /\ todo' = todo /\ stage' = stage /\ goods' = goods
      /\ hour' = hour /\ living' = living /\ lit' = lit /\ gifts' = gifts
      /\ r.hop = "running" /\ routes' = [routes EXCEPT ![w][n].hop = "cancelled"]
  BY DEF EndHop, rest
<1>2. WellRow(r) /\ r \in RouteRow /\ RowsOf(routes) /\ routes \in [Walker -> Seq(RouteRow)]
  BY InvRows
<1>3. q \in RouteRow /\ q.hop = "cancelled" /\ q.status = r.status /\ q.next = r.next /\ q.hops = r.hops /\ q.left = r.left
  BY <1>2, EditHop
<1>4. routes' = [routes EXCEPT ![w][n] = q]
  BY <1>1
<1> HIDE DEF q
<1>5. WellRow(q)
  BY <1>1, <1>2, <1>3 DEF WellRow
<1>6. /\ RowsOf(routes') /\ SameRows /\ routes'[w][n] = q
      /\ \A v \in Walker : \A m \in DOMAIN routes[v] : v # w \/ m # n => routes'[v][m] = routes[v][m]
  BY <1>2, <1>4, <1>5, RowPut DEF SameRows
<1> HIDE DEF r
<1>7. \A v \in Walker : \A m \in DOMAIN routes[v] : routes'[v][m].hop = "running" => routes'[v][m] = routes[v][m]
  BY <1>3, <1>6
<1>8. NoneSetOut
  BY <1>7 DEF NoneSetOut
<1>9. stage' # "open" => OnTheWay(routes')
  BY <1>1, <1>6, <1>7, MovingOn DEF TravelInv
<1>10. PlainTypes'
  BY <1>1 DEF PlainTypes, TravelInv
<1>11. TravelInv'
  BY <1>1, <1>6, <1>9, <1>10, WaitsOn, InvLater
<1> QED BY <1>1, <1>6, <1>8, <1>11, Quiet

LEMMA StepPerish ==
  ASSUME TravelInv, NEW w \in Walker, Perish(w)
  PROVE  WalkHolds
<1> DEFINE row == [n \in DOMAIN routes[w] |->
                     IF routes[w][n].hop = "running" THEN [routes[w][n] EXCEPT !.hop = "cancelled"] ELSE routes[w][n]]
<1>1. /\ map' = map /\ place' = place /\ todo' = todo /\ stage' = stage
      /\ goods' = [goods EXCEPT ![w] = [g \in Cargo |-> 0]]
      /\ hour' = hour /\ living' = living \ {w} /\ lit' = lit /\ gifts' = gifts
      /\ routes' = [routes EXCEPT ![w] = row]
  BY DEF Perish, rest
<1>2. RowsOf(routes) /\ routes \in [Walker -> Seq(RouteRow)]
  BY InvRows
<1>3. /\ routes' = [v \in Walker |-> routes'[v]] /\ routes'[w] = row
      /\ \A v \in Walker : v # w => routes'[v] = routes[v]
  BY <1>1, <1>2
<1>4. ASSUME NEW n \in DOMAIN routes[w]
      PROVE  WellRow(row[n]) /\ (row[n].hop = "running" => row[n] = routes[w][n])
  <2> DEFINE r == routes[w][n]
             q == [r EXCEPT !.hop = "cancelled"]
  <2>1. WellRow(r) /\ r \in RouteRow
    BY InvRows
  <2>2. q \in RouteRow /\ q.hop = "cancelled" /\ q.status = r.status /\ q.next = r.next /\ q.hops = r.hops
    BY <2>1, EditHop
  <2>3. row[n] = IF r.hop = "running" THEN q ELSE r
    OBVIOUS
  <2> HIDE DEF q, r, row
  <2>4. CASE r.hop = "running"
    BY <2>1, <2>2, <2>3, <2>4 DEF WellRow
  <2>5. CASE r.hop # "running"
    BY <2>1, <2>3, <2>5 DEF r
  <2> QED BY <2>4, <2>5
<1>5. row = [n \in DOMAIN routes[w] |-> row[n]]
  OBVIOUS
<1> HIDE DEF row
<1>6. \A v \in Walker : routes'[v] = [n \in DOMAIN routes[v] |-> routes'[v][n]]
  <2> TAKE v \in Walker
  <2>1. CASE v = w
    BY <1>3, <1>5, <2>1
  <2>2. CASE v # w
    <3>1. routes[v] = [n \in DOMAIN routes[v] |-> routes[v][n]]
      BY <1>2, RowLength
    <3> QED BY <1>3, <2>2, <3>1
  <2> QED BY <2>1, <2>2
<1>7. \A v \in Walker : \A n \in DOMAIN routes[v] :
        WellRow(routes'[v][n]) /\ (routes'[v][n].hop = "running" => routes'[v][n] = routes[v][n])
  <2> TAKE v \in Walker
  <2> TAKE n \in DOMAIN routes[v]
  <2>1. CASE v = w
    BY <1>3, <1>4, <2>1
  <2>2. CASE v # w
    BY <1>3, <2>2, InvRows
  <2> QED BY <2>1, <2>2
<1>8. RowsOf(routes') /\ SameRows
  BY <1>2, <1>3, <1>6, <1>7, RowsMapped DEF SameRows
<1>9. NoneSetOut
  BY <1>7 DEF NoneSetOut
<1>10. stage' # "open" => OnTheWay(routes')
  BY <1>1, <1>7, <1>8, MovingOn DEF TravelInv
<1>11. PlainTypes
  BY DEF TravelInv
<1>12. goods' \in [Walker -> Bundle]
  BY <1>1, <1>11 DEF PlainTypes, Bundle
<1>13. PlainTypes'
  BY <1>1, <1>11, <1>12 DEF PlainTypes
<1>14. TravelInv'
  BY <1>1, <1>8, <1>10, <1>13, WaitsOn, InvLater
<1> QED BY <1>1, <1>8, <1>9, <1>14, Quiet

LEMMA StepBeginPass ==
  ASSUME TravelInv, BeginPass
  PROVE  WalkHolds
<1> DEFINE due(r) == IF r.hop = "running" /\ r.left = 0 THEN [r EXCEPT !.hop = "completed"] ELSE r
<1>1. /\ map' = map /\ place' = place /\ stage = "open" /\ stage' = "pass" /\ goods' = goods
      /\ hour' = hour /\ living' = living /\ lit' = lit /\ gifts' = gifts
      /\ todo' = [k \in Ongoing |-> Standing(k)]
      /\ routes' = [w \in Walker |-> [n \in DOMAIN routes[w] |-> due(routes[w][n])]]
  BY DEF BeginPass, rest
<1>2. RowsOf(routes)
  BY InvRows
<1>3. /\ routes' = [w \in Walker |-> routes'[w]]
      /\ \A w \in Walker : routes'[w] = [n \in DOMAIN routes[w] |-> due(routes[w][n])]
  BY <1>1
<1>4. \A w \in Walker : /\ routes'[w] = [n \in DOMAIN routes[w] |-> routes'[w][n]]
                        /\ \A n \in DOMAIN routes[w] : routes'[w][n] = due(routes[w][n])
  BY <1>3
<1>5. ASSUME NEW r \in RouteRow, WellRow(r)
      PROVE  WellRow(due(r)) /\ (due(r).hop = "running" => due(r) = r /\ r.left > 0)
  <2> DEFINE q == [r EXCEPT !.hop = "completed"]
  <2>1. q \in RouteRow /\ q.hop = "completed" /\ q.status = r.status /\ q.next = r.next /\ q.hops = r.hops
    BY EditHop
  <2>2. due(r) = IF r.hop = "running" /\ r.left = 0 THEN q ELSE r
    OBVIOUS
  <2>3. r.left \in Nat
    BY DEF RouteRow
  <2> HIDE DEF q, due
  <2>4. CASE r.hop = "running" /\ r.left = 0
    BY <1>5, <2>1, <2>2, <2>4 DEF WellRow
  <2>5. CASE ~(r.hop = "running" /\ r.left = 0)
    BY <1>5, <2>2, <2>3, <2>5
  <2> QED BY <2>4, <2>5
<1> HIDE DEF due
<1>6. \A w \in Walker : \A n \in DOMAIN routes[w] :
        /\ WellRow(routes'[w][n])
        /\ routes'[w][n].hop = "running" => routes'[w][n] = routes[w][n] /\ routes[w][n].left > 0
  BY <1>4, <1>5, InvRows
<1>7. RowsOf(routes') /\ SameRows
  BY <1>2, <1>3, <1>4, <1>6, RowsMapped DEF SameRows
<1>8. NoneSetOut
  BY <1>6 DEF NoneSetOut
<1>9. OnTheWay(routes')
  BY <1>6, <1>7 DEF OnTheWay, SameRows
<1>10. Waits(todo', routes')
  <2>1. \A k \in Ongoing : todo'[k] = Standing(k)
    BY <1>1
  <2>2. todo' = [k \in Ongoing |-> todo'[k]]
    BY <1>1
  <2>3. \A k : Standing(k) \in SUBSET (Walker \X (1..MaxRoutes))
    BY DEF Standing
  <2>4. \A k : \A v \in Standing(k) : v[1] \in Walker /\ v[2] \in DOMAIN routes[v[1]]
    BY DEF Standing
  <2>5. todo' \in [Ongoing -> SUBSET (Walker \X (1..MaxRoutes))]
    BY <2>1, <2>2, <2>3
  <2> QED BY <1>7, <2>1, <2>4, <2>5 DEF Waits, SameRows
<1>11. PlainTypes'
  BY <1>1 DEF TravelInv, PlainTypes
<1>12. TravelInv'
  BY <1>1, <1>7, <1>9, <1>10, <1>11, InvLater
<1> QED BY <1>1, <1>7, <1>8, <1>12, Quiet

LEMMA StepCommit ==
  ASSUME TravelInv, Commit
  PROVE  WalkHolds
<1>1. /\ map' = map /\ place' = place /\ stage = "acts" /\ stage' = "open" /\ goods' = goods
      /\ hour' = (hour % Day) + 1 /\ living' = living /\ lit' = lit /\ gifts' = gifts /\ todo' = todo
      /\ routes' = [w \in Walker |-> [n \in DOMAIN routes[w] |-> Aged(routes[w][n])]]
  BY DEF Commit, rest
<1>2. RowsOf(routes) /\ OnTheWay(routes)
  BY <1>1 DEF TravelInv
<1>3. /\ routes' = [w \in Walker |-> routes'[w]]
      /\ \A w \in Walker : routes'[w] = [n \in DOMAIN routes[w] |-> Aged(routes[w][n])]
  BY <1>1
<1>4. \A w \in Walker : /\ routes'[w] = [n \in DOMAIN routes[w] |-> routes'[w][n]]
                        /\ \A n \in DOMAIN routes[w] : routes'[w][n] = Aged(routes[w][n])
  BY <1>3
<1>5. ASSUME NEW r \in RouteRow, WellRow(r), r.hop = "running" => r.left > 0
      PROVE  WellRow(Aged(r)) /\ Aged(r).hop = r.hop /\ Aged(r).next = r.next
  <2>1. CASE r.hop = "running"
    <3> DEFINE q == [r EXCEPT !.left = @ - 1]
    <3>1. /\ q \in RouteRow /\ q.hop = r.hop /\ q.status = r.status /\ q.next = r.next /\ q.hops = r.hops
      BY <1>5, <2>1, EditLeft
    <3>2. Aged(r) = q
      BY <2>1 DEF Aged
    <3> HIDE DEF q
    <3> QED BY <1>5, <3>1, <3>2 DEF WellRow
  <2>2. CASE r.hop # "running" /\ r.status = "waiting"
    <3> DEFINE q == [r EXCEPT !.waited = Lesser(@ + 1, Relight + 1)]
    <3>1. /\ q \in RouteRow /\ q.hop = r.hop /\ q.status = r.status /\ q.next = r.next /\ q.hops = r.hops
      BY EditWaited
    <3>2. Aged(r) = q
      BY <2>2 DEF Aged
    <3> HIDE DEF q
    <3> QED BY <1>5, <3>1, <3>2 DEF WellRow
  <2>3. CASE r.hop # "running" /\ r.status # "waiting"
    BY <1>5, <2>3 DEF Aged
  <2> QED BY <2>1, <2>2, <2>3
<1>6. \A w \in Walker : \A n \in DOMAIN routes[w] :
        WellRow(routes'[w][n]) /\ routes'[w][n].hop = routes[w][n].hop /\ routes'[w][n].next = routes[w][n].next
  <2> TAKE w \in Walker
  <2> TAKE n \in DOMAIN routes[w]
  <2>1. WellRow(routes[w][n]) /\ routes[w][n] \in RouteRow /\ (routes[w][n].hop = "running" => routes[w][n].left > 0)
    BY <1>2, InvRows DEF OnTheWay
  <2> QED BY <1>4, <1>5, <2>1
<1>7. RowsOf(routes') /\ SameRows
  BY <1>2, <1>3, <1>4, <1>6, RowsMapped DEF SameRows
<1>8. NoneSetOut
  BY <1>6 DEF NoneSetOut
<1>9. hour' \in 1..Day
  <2>1. hour \in Nat /\ Day \in Nat /\ Day > 0
    BY TravelAssumption DEF TravelInv, PlainTypes
  <2>2. hour % Day \in 0..Day - 1
    BY <2>1
  <2> QED BY <1>1, <2>1, <2>2
<1>10. PlainTypes'
  BY <1>1, <1>9 DEF TravelInv, PlainTypes
<1>11. Waits(todo', routes')
  BY <1>1, <1>7, WaitsOn
<1>12. TravelInv'
  BY <1>1, <1>7, <1>10, <1>11, InvLater
<1> QED BY <1>1, <1>7, <1>8, <1>12, Quiet

LEMMA Visiting ==
  ASSUME TravelInv, NEW w \in Walker, NEW n \in 1..MaxRoutes, Visit(w, n)
  PROVE  /\ n \in DOMAIN routes[w]
         /\ stage = "pass" /\ stage' = "pass" /\ hour' = hour /\ living' = living /\ lit' = lit
         /\ map' = map /\ gifts' = gifts
         /\ todo' \in [Ongoing -> SUBSET (Walker \X (1..MaxRoutes))]
         /\ \A k \in Ongoing : todo'[k] \subseteq todo[k]
<1>1. PICK k \in Ongoing : <<w, n>> \in todo[k] /\ todo' = [todo EXCEPT ![k] = @ \ {<<w, n>>}]
  BY DEF Visit
<1>2. /\ todo \in [Ongoing -> SUBSET (Walker \X (1..MaxRoutes))]
      /\ \A j \in Ongoing : \A v \in todo[j] : v[2] \in DOMAIN routes[v[1]]
  BY DEF TravelInv, Waits
<1>3. n \in DOMAIN routes[w]
  <2>1. <<w, n>>[1] = w /\ <<w, n>>[2] = n
    OBVIOUS
  <2> QED BY <1>1, <1>2, <2>1
<1>4. /\ todo' \in [Ongoing -> SUBSET (Walker \X (1..MaxRoutes))]
      /\ \A j \in Ongoing : todo'[j] \subseteq todo[j]
  BY <1>1, <1>2
<1>5. /\ stage = "pass" /\ stage' = "pass" /\ hour' = hour /\ living' = living /\ lit' = lit
      /\ map' = map /\ gifts' = gifts
  BY DEF Visit, rest
<1> QED BY <1>3, <1>4, <1>5

LEMMA Keeping ==
  ASSUME TravelInv, NEW w \in Walker, NEW n \in 1..MaxRoutes, Visit(w, n),
         NEW r, NEW p \in Spot, NEW have \in Bundle, Keep(w, n, r, p, have),
         WellRow(r), r.hop = "running" => r.left > 0
  PROVE  /\ TravelInv' /\ SameRows /\ n \in DOMAIN routes[w] /\ routes'[w][n] = r
         /\ \A v \in Walker : \A m \in DOMAIN routes[v] : v # w \/ m # n => routes'[v][m] = routes[v][m]
         /\ place'[w] = p /\ \A v \in Walker : v # w => place'[v] = place[v]
         /\ goods'[w] = have
<1>1. /\ routes' = [routes EXCEPT ![w][n] = r]
      /\ place' = [place EXCEPT ![w] = p]
      /\ goods' = [goods EXCEPT ![w] = have]
  BY DEF Keep
<1>2. /\ n \in DOMAIN routes[w]
      /\ stage = "pass" /\ stage' = "pass" /\ hour' = hour /\ living' = living /\ lit' = lit
      /\ map' = map /\ gifts' = gifts
      /\ todo' \in [Ongoing -> SUBSET (Walker \X (1..MaxRoutes))]
      /\ \A k \in Ongoing : todo'[k] \subseteq todo[k]
  BY Visiting
<1>3. PlainTypes /\ RowsOf(routes) /\ OnTheWay(routes) /\ Waits(todo, routes)
  BY <1>2 DEF TravelInv
<1>4. /\ RowsOf(routes') /\ SameRows /\ routes'[w][n] = r
      /\ \A v \in Walker : \A m \in DOMAIN routes[v] : v # w \/ m # n => routes'[v][m] = routes[v][m]
  <2> DEFINE R == [routes EXCEPT ![w][n] = r]
  <2>1. /\ RowsOf(R) /\ \A v \in Walker : DOMAIN R[v] = DOMAIN routes[v]
        /\ R[w][n] = r
        /\ \A v \in Walker : \A m \in DOMAIN routes[v] : v # w \/ m # n => R[v][m] = routes[v][m]
    BY <1>2, <1>3, RowPut
  <2>2. routes' = R
    BY <1>1
  <2> HIDE DEF R
  <2> QED BY <2>1, <2>2 DEF SameRows
<1>5. /\ place' \in [Walker -> Spot] /\ goods' \in [Walker -> Bundle]
      /\ place'[w] = p /\ \A v \in Walker : v # w => place'[v] = place[v]
      /\ goods'[w] = have
  BY <1>1, <1>3 DEF PlainTypes
<1>6. PlainTypes'
  BY <1>2, <1>3, <1>5 DEF PlainTypes
<1>7. \A v \in Walker : \A m \in DOMAIN routes[v] : routes'[v][m].hop = "running" => routes'[v][m].left > 0
  <2> TAKE v \in Walker
  <2> TAKE m \in DOMAIN routes[v]
  <2>1. CASE v = w /\ m = n
    BY <1>4, <2>1
  <2>2. CASE v # w \/ m # n
    BY <1>3, <1>4, <2>2 DEF OnTheWay
  <2> QED BY <2>1, <2>2
<1>8. OnTheWay(routes')
  BY <1>4, <1>7 DEF OnTheWay, SameRows
<1>9. Waits(todo', routes')
  <2>1. \A k \in Ongoing : \A v \in todo[k] : v[1] \in Walker /\ v[2] \in DOMAIN routes[v[1]]
    BY <1>3 DEF Waits
  <2> QED BY <1>2, <1>4, <2>1 DEF Waits, SameRows
<1>10. TravelInv'
  BY <1>2, <1>4, <1>6, <1>8, <1>9, InvLater
<1> QED BY <1>2, <1>4, <1>5, <1>10

(* A visit that sets out with what its road takes, and moves the walker by *)
(* the hop it completes, or not at all.                                    *)
LEMMA KeepHolds ==
  ASSUME TravelInv, NEW w \in Walker, NEW n \in 1..MaxRoutes, Visit(w, n),
         NEW r, NEW p \in Spot, NEW have \in Bundle, Keep(w, n, r, p, have),
         WellRow(r), r.hop = "running" => r.left > 0,
         r.hop = "running" => LET m == map[r.hops[r.next]].mode IN Weight(have) + Ration[m] <= LegCap[m],
         p # place[w] => LET q == routes[w][n] IN
           q.hop = "completed" /\ Ends(q.hops[q.next]) = {place[w], p} /\ r.next = q.next + 1
  PROVE  WalkHolds
<1>1. /\ TravelInv' /\ SameRows /\ n \in DOMAIN routes[w] /\ routes'[w][n] = r
      /\ \A v \in Walker : \A m \in DOMAIN routes[v] : v # w \/ m # n => routes'[v][m] = routes[v][m]
      /\ place'[w] = p /\ \A v \in Walker : v # w => place'[v] = place[v]
      /\ goods'[w] = have
  BY Keeping
<1>2. PlanIsShortest
  BY <1>1 DEF PlanIsShortest, SameRows
<1>3. OnlyArrivalsMove
  <2> SUFFICES ASSUME NEW v \in Walker, place'[v] # place[v]
               PROVE  \E m \in DOMAIN routes[v] :
                        LET q == routes[v][m]  i == q.hops[q.next] IN
                        q.hop = "completed" /\ Ends(i) = {place[v], place'[v]} /\ routes'[v][m].next = q.next + 1
    BY DEF OnlyArrivalsMove
  <2>1. v = w /\ p # place[w]
    BY <1>1
  <2>2. LET q == routes[w][n] IN q.hop = "completed" /\ Ends(q.hops[q.next]) = {place[w], p} /\ r.next = q.next + 1
    BY <2>1
  <2> QED BY <1>1, <2>1, <2>2
<1>4. \A v \in Walker : Load(v)' = Weight(goods'[v])
  BY DEF Load, Weight
<1>5. LoadFitsRoad
  <2> SUFFICES ASSUME NEW v \in Walker, NEW m \in DOMAIN routes'[v],
                      routes'[v][m].hop = "running",
                      \/ m \notin DOMAIN routes[v] \/ routes[v][m].next # routes'[v][m].next
                      \/ routes[v][m].hop # "running"
               PROVE  LET k == map[routes'[v][m].hops[routes'[v][m].next]].mode IN Load(v)' + Ration[k] <= LegCap[k]
    BY DEF LoadFitsRoad
  <2>1. m \in DOMAIN routes[v]
    BY <1>1 DEF SameRows
  <2>2. v = w /\ m = n
    BY <1>1, <2>1
  <2>3. routes'[v][m] = r /\ Load(v)' = Weight(have) /\ r.hop = "running"
    BY <1>1, <1>4, <2>2
  <2> QED BY <2>3
<1> QED BY <1>1, <1>2, <1>3, <1>5 DEF WalkHolds

LEMMA Standings ==
  ASSUME TravelInv, NEW w \in Walker, NEW n \in DOMAIN routes[w]
  PROVE  /\ place[w] \in Spot /\ goods[w] \in Bundle
         /\ WellRow(routes[w][n]) /\ routes[w][n] \in RouteRow
         /\ routes[w][n].status \in Ongoing => routes[w][n].next \in DOMAIN routes[w][n].hops
         /\ (routes[w][n].status = "active") <=> (routes[w][n].hop # "none")
         /\ \A j \in DOMAIN routes[w][n].hops : routes[w][n].hops[j] \in DOMAIN map
         /\ Len(routes[w][n].hops) \in Nat /\ DOMAIN routes[w][n].hops = 1..Len(routes[w][n].hops)
         /\ routes[w][n].next \in Nat /\ routes[w][n].next > 0
         /\ map \in Maps
<1>1. WellRow(routes[w][n]) /\ routes[w][n] \in RouteRow /\ map \in Maps
  BY InvRows
<1>2. place[w] \in Spot /\ goods[w] \in Bundle
  BY DEF TravelInv, PlainTypes
<1>3. /\ \A j \in DOMAIN routes[w][n].hops : routes[w][n].hops[j] \in DOMAIN map
      /\ Len(routes[w][n].hops) \in Nat /\ DOMAIN routes[w][n].hops = 1..Len(routes[w][n].hops)
      /\ routes[w][n].next \in Nat /\ routes[w][n].next > 0
  BY <1>1, RowFields
<1> QED BY <1>1, <1>2, <1>3 DEF WellRow

LEMMA StepWaitOn ==
  ASSUME TravelInv, NEW w \in Walker, NEW n \in 1..MaxRoutes, WaitOn(w, n)
  PROVE  WalkHolds
<1> DEFINE r == routes[w][n]
           q == IF r.waited > Relight THEN Stranded(r) ELSE r
<1>1. Visit(w, n) /\ r.status = "waiting" /\ Keep(w, n, q, place[w], goods[w])
  BY DEF WaitOn
<1>2. n \in DOMAIN routes[w]
  BY <1>1, Visiting
<1>3. place[w] \in Spot /\ goods[w] \in Bundle /\ WellRow(r) /\ r \in RouteRow /\ r.hop = "none"
  BY <1>1, <1>2, Standings
<1>4. WellRow(q) /\ q.hop = "none"
  BY <1>3, EditOver
<1> HIDE DEF q
<1> QED BY <1>1, <1>3, <1>4, KeepHolds

LEMMA StepCutShort ==
  ASSUME TravelInv, NEW w \in Walker, NEW n \in 1..MaxRoutes, CutShort(w, n)
  PROVE  WalkHolds
<1> DEFINE r == routes[w][n]
           q == Stranded(r)
<1>1. Visit(w, n) /\ Keep(w, n, q, place[w], goods[w])
  BY DEF CutShort
<1>2. n \in DOMAIN routes[w]
  BY <1>1, Visiting
<1>3. place[w] \in Spot /\ goods[w] \in Bundle /\ r \in RouteRow
  BY <1>2, Standings
<1>4. WellRow(q) /\ q.hop = "none"
  BY <1>3, EditOver
<1> HIDE DEF q
<1> QED BY <1>1, <1>3, <1>4, KeepHolds

LEMMA StepInFlight ==
  ASSUME TravelInv, NEW w \in Walker, NEW n \in 1..MaxRoutes, InFlight(w, n)
  PROVE  WalkHolds
<1>1. Visit(w, n) /\ place' = place /\ goods' = goods /\ routes' = routes
  BY DEF InFlight
<1>2. /\ stage = "pass" /\ stage' = "pass" /\ hour' = hour /\ living' = living /\ lit' = lit
      /\ map' = map /\ gifts' = gifts
      /\ todo' \in [Ongoing -> SUBSET (Walker \X (1..MaxRoutes))]
      /\ \A k \in Ongoing : todo'[k] \subseteq todo[k]
  BY <1>1, Visiting
<1>3. PlainTypes /\ RowsOf(routes) /\ OnTheWay(routes) /\ Waits(todo, routes)
  BY <1>2 DEF TravelInv
<1>4. PlainTypes'
  BY <1>1, <1>2, <1>3 DEF PlainTypes
<1>5. Waits(todo', routes')
  BY <1>1, <1>2, <1>3 DEF Waits
<1>6. TravelInv'
  BY <1>1, <1>2, <1>3, <1>4, <1>5, InvLater
<1>7. SameRows /\ NoneSetOut
  BY <1>1 DEF SameRows, NoneSetOut
<1> QED BY <1>1, <1>6, <1>7, Quiet

LEMMA Walks ==
  ASSUME map \in Maps, NEW h \in Bundle, NEW i \in DOMAIN map
  PROVE  LET cap == LegCap[map[i].mode] IN
         Shed(h, cap) \in Bundle /\ Weight(Shed(h, cap)) \in Nat /\ Weight(Shed(h, cap)) <= cap /\ cap \in Nat
<1>1. LegCap[map[i].mode] \in Nat
  BY Roads, TravelAssumption
<1> QED BY <1>1, ShedFits

(* What a hop that starts needs, and leaves.                               *)
LEMMA Goes ==
  ASSUME map \in Maps, NEW w, NEW i \in DOMAIN map, NEW p, NEW h \in Bundle, HopAnswer(w, i, p, h) = "go",
         Weight(h) <= LegCap[map[i].mode]
  PROVE  /\ Fed(h, i) \in Bundle /\ p \in Ends(i) /\ w \in living
         /\ Weight(Fed(h, i)) + Ration[map[i].mode] <= LegCap[map[i].mode]
<1>1. p \in Ends(i) /\ w \in living /\ h[Food] >= Ration[map[i].mode]
  BY DEF HopAnswer
<1> QED BY <1>1, FedWeighs

LEMMA StepResume ==
  ASSUME TravelInv, NEW w \in Walker, NEW n \in 1..MaxRoutes, Resume(w, n)
  PROVE  WalkHolds
<1> DEFINE r == routes[w][n]
           i == r.hops[r.next]
           have == Spilled(w, i)
           answer == HopAnswer(w, i, place[w], have)
<1>1. /\ Visit(w, n) /\ r.status = "waiting"
      /\ IF answer = "go" THEN Keep(w, n, OnHop(r, i), place[w], Fed(have, i))
                          ELSE Keep(w, n, Stranded(r), place[w], have)
  BY DEF Resume
<1>2. n \in DOMAIN routes[w]
  BY <1>1, Visiting
<1>3. place[w] \in Spot /\ goods[w] \in Bundle /\ r \in RouteRow /\ map \in Maps
  BY <1>2, Standings
<1>4. r.next \in DOMAIN r.hops /\ i \in DOMAIN map
  BY <1>1, <1>2, Standings DEF Ongoing
<1> HIDE DEF r, i
<1>5. have \in Bundle /\ Weight(have) <= LegCap[map[i].mode]
  BY <1>3, <1>4, Walks DEF Spilled
<1> HIDE DEF have, answer
<1>6. CASE answer = "go"
  <2>1. Fed(have, i) \in Bundle /\ Weight(Fed(have, i)) + Ration[map[i].mode] <= LegCap[map[i].mode]
    BY <1>3, <1>4, <1>5, <1>6, Goes DEF answer
  <2>2. /\ WellRow(OnHop(r, i)) /\ OnHop(r, i).hop = "running" /\ OnHop(r, i).left > 0
        /\ OnHop(r, i).hops[OnHop(r, i).next] = i
    BY <1>3, <1>4, EditOnHop DEF i
  <2>3. Keep(w, n, OnHop(r, i), place[w], Fed(have, i))
    BY <1>1, <1>6
  <2> QED BY <1>1, <1>3, <2>1, <2>2, <2>3, KeepHolds
<1>7. CASE answer # "go"
  <2>1. WellRow(Stranded(r)) /\ Stranded(r).hop = "none"
    BY <1>3, EditOver
  <2>2. Keep(w, n, Stranded(r), place[w], have)
    BY <1>1, <1>7
  <2> QED BY <1>1, <1>3, <1>5, <2>1, <2>2, KeepHolds
<1> QED BY <1>6, <1>7

LEMMA FarEnds ==
  ASSUME map \in Maps, NEW i \in DOMAIN map, NEW p \in Ends(i)
  PROVE  FarEnd(i, p) \in Spot /\ Ends(i) = {p, FarEnd(i, p)}
<1>1. map[i].a \in Spot /\ map[i].b \in Spot
  BY Roads
<1> QED BY <1>1 DEF Ends, FarEnd

LEMMA StepArrive ==
  ASSUME TravelInv, NEW w \in Walker, NEW n \in 1..MaxRoutes, Arrive(w, n)
  PROVE  WalkHolds
<1> DEFINE r == routes[w][n]
           i == r.hops[r.next]
           there == FarEnd(i, place[w])
           on == [r EXCEPT !.next = @ + 1]
           j == r.hops[on.next]
           have == Spilled(w, j)
           answer == HopAnswer(w, j, there, have)
           stop == IF answer = "dark" THEN Halted(on) ELSE Stranded(on)
<1>1. /\ Visit(w, n) /\ r.hop = "completed"
      /\ IF place[w] \notin Ends(i) THEN Keep(w, n, Stranded(r), place[w], goods[w])
         ELSE IF on.next > Len(r.hops) THEN Keep(w, n, Arrived(on), there, goods[w])
         ELSE IF answer = "go" THEN Keep(w, n, OnHop(on, j), there, Fed(have, j))
              ELSE Keep(w, n, stop, there, have)
  BY DEF Arrive
<1>2. n \in DOMAIN routes[w]
  BY <1>1, Visiting
<1>3. /\ place[w] \in Spot /\ goods[w] \in Bundle /\ r \in RouteRow /\ map \in Maps
      /\ r.status = "active" <=> r.hop # "none"
      /\ Len(r.hops) \in Nat /\ DOMAIN r.hops = 1..Len(r.hops) /\ r.next \in Nat /\ r.next > 0
      /\ \A k \in DOMAIN r.hops : r.hops[k] \in DOMAIN map
      /\ r.status \in Ongoing => r.next \in DOMAIN r.hops
  BY <1>2, Standings
<1>4. r.next \in DOMAIN r.hops /\ i \in DOMAIN map
  BY <1>1, <1>3 DEF Ongoing
<1>5. on \in RouteRow /\ on.next = r.next + 1 /\ on.hops = r.hops
  BY <1>3, EditNext
<1> HIDE DEF r, on, have, answer, j, stop
<1>6. CASE place[w] \notin Ends(i)
  <2>1. WellRow(Stranded(r)) /\ Stranded(r).hop = "none"
    BY <1>3, EditOver
  <2>2. Keep(w, n, Stranded(r), place[w], goods[w])
    BY <1>1, <1>6
  <2> HIDE DEF there, i
  <2> QED BY <1>1, <1>3, <2>1, <2>2, KeepHolds
<1>7. CASE place[w] \in Ends(i)
  <2>1. there \in Spot /\ Ends(i) = {place[w], there}
    BY <1>3, <1>4, <1>7, FarEnds
  <2>2. LET q == routes[w][n] IN q.hop = "completed" /\ Ends(q.hops[q.next]) = {place[w], there} /\ on.next = q.next + 1
    BY <1>1, <1>5, <2>1 DEF r
  <2> HIDE DEF there, i
  <2>3. CASE on.next > Len(r.hops)
    <3> DEFINE q == Arrived(on)
    <3>1. WellRow(q) /\ q.hop = "none" /\ q.next = on.next
      BY <1>5, EditOver
    <3>2. Keep(w, n, q, there, goods[w])
      BY <1>1, <1>7, <2>3
    <3> HIDE DEF q
    <3> QED BY <1>1, <1>3, <2>1, <2>2, <3>1, <3>2, KeepHolds
  <2>4. CASE ~(on.next > Len(r.hops))
    <3>1. on.next \in DOMAIN on.hops
      BY <1>3, <1>5, <2>4
    <3>2. j \in DOMAIN map /\ j = on.hops[on.next]
      BY <1>3, <1>5, <3>1 DEF j
    <3>3. have \in Bundle /\ Weight(have) <= LegCap[map[j].mode]
      BY <1>3, <3>2, Walks DEF Spilled, have
    <3>4. CASE answer = "go"
      <4> DEFINE q == OnHop(on, j)
                 left == Fed(have, j)
      <4>1. left \in Bundle /\ Weight(left) + Ration[map[j].mode] <= LegCap[map[j].mode]
        BY <1>3, <3>2, <3>3, <3>4, Goes DEF answer
      <4>2. WellRow(q) /\ q.hop = "running" /\ q.left > 0 /\ q.next = on.next /\ q.hops[q.next] = j
        BY <1>3, <1>5, <3>1, <3>2, EditOnHop
      <4>3. Keep(w, n, q, there, left)
        BY <1>1, <1>7, <2>4, <3>4
      <4> HIDE DEF q, left
      <4> QED BY <1>1, <2>1, <2>2, <4>1, <4>2, <4>3, KeepHolds
    <3>5. CASE answer # "go"
      <4>1. WellRow(stop) /\ stop.hop = "none" /\ stop.next = on.next
        BY <1>5, <3>1, EditOver DEF stop
      <4>2. Keep(w, n, stop, there, have)
        BY <1>1, <1>7, <2>4, <3>5
      <4> QED BY <1>1, <2>1, <2>2, <3>3, <4>1, <4>2, KeepHolds
    <3> QED BY <3>4, <3>5
  <2> QED BY <2>3, <2>4
<1> QED BY <1>6, <1>7

LEMMA StepStartRoute ==
  ASSUME TravelInv, NEW w \in Walker, NEW d \in Spot, NEW modes \in SUBSET Mode, StartRoute(w, d, modes)
  PROVE  WalkHolds
<1> DEFINE hops == Route(place[w], d, modes)
           blank == [from |-> place[w], dest |-> d, modes |-> modes, hops |-> hops, next |-> 1,
                     status |-> "active", hop |-> "running", left |-> 0, waited |-> 0]
           r == OnHop(blank, hops[1])
           m == Len(routes[w]) + 1
           have == Fed(goods[w], hops[1])
           mode == map[hops[1]].mode
<1>1. /\ stage \in {"open", "acts"} /\ Len(routes[w]) < MaxRoutes /\ hops # <<>>
      /\ \A n \in DOMAIN hops : Load(w) <= LegCap[map[hops[n]].mode]
      /\ HopAnswer(w, hops[1], place[w], goods[w]) = "go"
      /\ goods' = [goods EXCEPT ![w] = have]
      /\ routes' = [routes EXCEPT ![w] = Append(routes[w], r)]
      /\ map' = map /\ place' = place /\ todo' = todo /\ stage' = stage
      /\ hour' = hour /\ living' = living /\ lit' = lit /\ gifts' = gifts
  BY DEF StartRoute, Open, rest
<1>2. /\ routes \in [Walker -> Seq(RouteRow)] /\ RowsOf(routes) /\ map \in Maps
      /\ \A v \in Walker : Len(routes[v]) <= MaxRoutes
      /\ \A v \in Walker : \A n \in DOMAIN routes[v] : WellRow(routes[v][n])
  BY InvRows
<1>3. place[w] \in Spot /\ goods[w] \in Bundle /\ goods \in [Walker -> Bundle] /\ PlainTypes
  BY DEF TravelInv, PlainTypes
<1>4. /\ hops \in Hops /\ Len(hops) > 0 /\ hops \in Trips(place[w], d, modes)
      /\ \A t \in Trips(place[w], d, modes) : CostOf(hops) <= CostOf(t)
  BY <1>1, <1>2, <1>3, PlannedRoute
<1> HIDE DEF hops
<1>5. /\ Len(hops) \in Nat /\ DOMAIN hops = 1..Len(hops) /\ 1 \in DOMAIN hops
      /\ \A n \in DOMAIN hops : hops[n] \in DOMAIN map
  BY <1>4 DEF Hops
<1>6. blank \in RouteRow /\ blank.next = 1 /\ blank.hops = hops
  <2>1. 0 \in 0..Relight + 1 /\ hops \in Seq(DOMAIN map)
    BY <1>4, TravelAssumption DEF Hops
  <2> QED BY <1>3, <2>1 DEF RouteRow
<1>7. /\ r.from = place[w] /\ r.dest = d /\ r.modes = modes /\ r.hops = hops
  BY DEF OnHop
<1> HIDE DEF blank
<1>8. hops[1] \in DOMAIN map
  BY <1>5
<1>9. WellRow(r) /\ r.hop = "running" /\ r.next = 1 /\ r.left > 0
  BY <1>2, <1>5, <1>6, <1>8, EditOnHop
<1> HIDE DEF r
<1>10. have \in Bundle /\ Weight(have) + Ration[mode] <= LegCap[mode]
  <2>1. Weight(goods[w]) <= LegCap[map[hops[1]].mode]
    BY <1>1, <1>5 DEF Load
  <2> QED BY <1>1, <1>2, <1>3, <1>8, <2>1, Goes
<1> HIDE DEF have, mode
<1>11. goods' \in [Walker -> Bundle] /\ goods'[w] = have
  BY <1>1, <1>3, <1>10
<1>12. /\ routes'[w] = Append(routes[w], r) /\ \A v \in Walker : v # w => routes'[v] = routes[v]
  BY <1>1, <1>2
<1>13. /\ Append(routes[w], r) \in Seq(RouteRow) /\ Len(Append(routes[w], r)) = m
       /\ DOMAIN Append(routes[w], r) = DOMAIN routes[w] \union {m} /\ m \notin DOMAIN routes[w]
       /\ Append(routes[w], r)[m] = r
       /\ \A n \in DOMAIN routes[w] : Append(routes[w], r)[n] = routes[w][n]
       /\ m <= MaxRoutes
  <2>1. routes[w] \in Seq(RouteRow) /\ r \in RouteRow
    BY <1>2, <1>9 DEF WellRow
  <2>2. Len(routes[w]) \in Nat /\ DOMAIN routes[w] = 1..Len(routes[w])
    BY <1>2, RowLength
  <2>3. m <= MaxRoutes
    BY <1>1, <2>2, TravelAssumption
  <2> QED BY <2>1, <2>2, <2>3
<1> HIDE DEF m
<1>14. /\ \A v \in Walker : DOMAIN routes[v] \subseteq DOMAIN routes'[v] /\ Len(routes'[v]) <= MaxRoutes
       /\ \A v \in Walker : \A n \in DOMAIN routes[v] : routes'[v][n] = routes[v][n]
       /\ \A v \in Walker : \A n \in DOMAIN routes'[v] \ DOMAIN routes[v] : v = w /\ routes'[v][n] = r
  <2>1. \A v \in Walker : DOMAIN routes[v] \subseteq DOMAIN routes'[v] /\ Len(routes'[v]) <= MaxRoutes
    <3> TAKE v \in Walker
    <3>1. CASE v = w
      BY <1>12, <1>13, <3>1
    <3>2. CASE v # w
      BY <1>2, <1>12, <3>2
    <3> QED BY <3>1, <3>2
  <2>2. \A v \in Walker : \A n \in DOMAIN routes[v] : routes'[v][n] = routes[v][n]
    BY <1>12, <1>13
  <2>3. \A v \in Walker : \A n \in DOMAIN routes'[v] \ DOMAIN routes[v] : v = w /\ routes'[v][n] = r
    BY <1>12, <1>13
  <2> QED BY <2>1, <2>2, <2>3
<1>15. routes' \in [Walker -> Seq(RouteRow)]
  BY <1>1, <1>2, <1>13
<1>16. RowsOf(routes')
  <2>1. \A v \in Walker : \A n \in DOMAIN routes'[v] : WellRow(routes'[v][n])
    BY <1>2, <1>9, <1>14
  <2> QED BY <1>14, <1>15, <2>1 DEF RowsOf
<1>17. stage' # "open" => OnTheWay(routes')
  <2> SUFFICES ASSUME stage' # "open" PROVE OnTheWay(routes')
    OBVIOUS
  <2>1. OnTheWay(routes)
    BY <1>1 DEF TravelInv
  <2> QED BY <1>9, <1>14, <2>1 DEF OnTheWay
<1>18. Waits(todo', routes')
  <2>1. \A k \in Ongoing : \A v \in todo[k] : v[1] \in Walker /\ v[2] \in DOMAIN routes[v[1]]
    BY DEF TravelInv, Waits
  <2> QED BY <1>1, <1>14, <2>1 DEF TravelInv, Waits
<1>19. PlainTypes'
  BY <1>1, <1>3, <1>11 DEF PlainTypes
<1>20. TravelInv'
  BY <1>1, <1>16, <1>17, <1>18, <1>19, InvLater
<1>21. PlanIsShortest
  <2> SUFFICES ASSUME NEW v \in Walker, NEW n \in DOMAIN routes'[v] \ DOMAIN routes[v]
               PROVE  LET q == routes'[v][n]  trips == Trips(q.from, q.dest, q.modes) IN
                      q.hops \in trips /\ \A t \in trips : CostOf(q.hops) <= CostOf(t)
    BY DEF PlanIsShortest
  <2>1. routes'[v][n] = r
    BY <1>14
  <2> QED BY <1>4, <1>7, <2>1
<1>22. LoadFitsRoad
  <2>0. \A v \in Walker : Load(v)' = Weight(goods'[v])
    BY DEF Load, Weight
  <2> SUFFICES ASSUME NEW v \in Walker, NEW n \in DOMAIN routes'[v],
                      \/ n \notin DOMAIN routes[v] \/ routes[v][n].next # routes'[v][n].next
                      \/ routes[v][n].hop # "running",
                      routes'[v][n].hop = "running"
               PROVE  LET k == map[routes'[v][n].hops[routes'[v][n].next]].mode IN Load(v)' + Ration[k] <= LegCap[k]
    BY DEF LoadFitsRoad
  <2>1. v = w /\ routes'[v][n] = r
    BY <1>14
  <2> QED BY <1>7, <1>9, <1>10, <1>11, <2>0, <2>1 DEF mode
<1>23. OnlyArrivalsMove
  BY <1>1 DEF OnlyArrivalsMove
<1> QED BY <1>20, <1>21, <1>22, <1>23 DEF WalkHolds

LEMMA TravelInitInv == TravelInit => TravelInv
<1> SUFFICES ASSUME TravelInit PROVE TravelInv
  OBVIOUS
<1>1. /\ map \in Maps /\ hour = 1 /\ stage = "open" /\ todo = [k \in Ongoing |-> {}] /\ living = Walker
      /\ place \in [Walker -> Spot] /\ goods = [w \in Walker |-> Pack] /\ lit = {} /\ gifts = 0
      /\ routes = [w \in Walker |-> <<>>]
  BY DEF TravelInit
<1>2. PlainTypes
  <2>1. goods \in [Walker -> Bundle] /\ hour \in 1..Day /\ gifts \in 0..MaxGifts
    BY <1>1, TravelAssumption DEF Bundle
  <2> QED BY <1>1, <2>1 DEF PlainTypes
<1>3. RowsOf(routes)
  <2>1. MaxRoutes >= 0 /\ Len(<<>>) = 0 /\ DOMAIN <<>> = {} /\ <<>> \in Seq(RouteRow)
    BY TravelAssumption
  <2>2. routes \in [Walker -> Seq(RouteRow)] /\ \A w \in Walker : routes[w] = <<>>
    BY <1>1, <2>1
  <2> QED BY <2>1, <2>2 DEF RowsOf
<1>4. Waits(todo, routes)
  BY <1>1 DEF Waits
<1> QED BY <1>1, <1>2, <1>3, <1>4 DEF TravelInv

LEMMA TravelStep ==
  ASSUME TravelInv, TravelNext
  PROVE  WalkHolds
<1>1. CASE BeginPass
  BY <1>1, StepBeginPass
<1>2. CASE EndPass
  BY <1>2, StepEndPass
<1>3. CASE Commit
  BY <1>3, StepCommit
<1>4. ASSUME NEW w \in Walker, NEW n \in 1..MaxRoutes, WaitOn(w, n) PROVE WalkHolds
  BY <1>4, StepWaitOn
<1>5. ASSUME NEW w \in Walker, NEW n \in 1..MaxRoutes, Resume(w, n) PROVE WalkHolds
  BY <1>5, StepResume
<1>6. ASSUME NEW w \in Walker, NEW n \in 1..MaxRoutes, Arrive(w, n) PROVE WalkHolds
  BY <1>6, StepArrive
<1>7. ASSUME NEW w \in Walker, NEW n \in 1..MaxRoutes, CutShort(w, n) PROVE WalkHolds
  BY <1>7, StepCutShort
<1>8. ASSUME NEW w \in Walker, NEW n \in 1..MaxRoutes, InFlight(w, n) PROVE WalkHolds
  BY <1>8, StepInFlight
<1>9. ASSUME NEW w \in Walker, NEW d \in Spot, NEW m \in SUBSET Mode \ {{}}, StartRoute(w, d, m) PROVE WalkHolds
  BY <1>9, StepStartRoute
<1>10. ASSUME NEW w \in Walker, NEW n \in 1..MaxRoutes, n \in DOMAIN routes[w], EndHop(w, n) PROVE WalkHolds
  BY <1>10, StepEndHop
<1>11. ASSUME NEW w \in Walker, Torch(w) \/ Perish(w) PROVE WalkHolds
  BY <1>11, StepTorch, StepPerish
<1>12. ASSUME NEW w \in Walker, NEW g \in Cargo, Give(w, g) PROVE WalkHolds
  BY <1>12, StepGive
<1>13. TickStep => WalkHolds
  BY <1>1, <1>2, <1>3, <1>4, <1>5, <1>6, <1>7, <1>8, Zenon DEF TickStep
<1> QED BY <1>9, <1>10, <1>11, <1>12, <1>13, Zenon DEF TravelNext

LEMMA TravelInvTypes == TravelInv => TravelTypeOK /\ OnTheRoadAtWork
<1> SUFFICES ASSUME TravelInv PROVE TravelTypeOK /\ OnTheRoadAtWork
  OBVIOUS
<1>1. map \in Maps /\ PlainTypes /\ RowsOf(routes) /\ Waits(todo, routes)
  BY DEF TravelInv
<1>2. OnTheRoadAtWork
  BY <1>1 DEF RowsOf, WellRow, OnTheRoadAtWork
<1>3. routes \in [Walker -> Seq(RouteRow)] /\ \A w \in Walker : Len(routes[w]) <= MaxRoutes
  BY <1>1 DEF RowsOf
<1>4. todo \in [Ongoing -> SUBSET (Walker \X (1..MaxRoutes))]
  BY <1>1 DEF Waits
<1> QED BY <1>1, <1>2, <1>3, <1>4 DEF TravelTypeOK, PlainTypes, Bundle

(* The routes, their walkers and the passes over them keep their types,    *)
(* for any map, rules of the road and walkers: travel.py.                  *)
THEOREM TravelTypes == TravelSpec => []TravelTypeOK
<1>1. TravelInv /\ [TravelNext]_travelVars => TravelInv'
  <2> SUFFICES ASSUME TravelInv, [TravelNext]_travelVars PROVE TravelInv'
    OBVIOUS
  <2>1. CASE TravelNext
    BY <2>1, TravelStep DEF WalkHolds
  <2>2. CASE UNCHANGED travelVars
    <3>1. /\ map' = map /\ routes' = routes /\ place' = place /\ todo' = todo /\ stage' = stage
          /\ hour' = hour /\ living' = living /\ lit' = lit /\ gifts' = gifts /\ goods' = goods
      BY <2>2 DEF travelVars, rest
    <3>2. PlainTypes'
      BY <3>1 DEF TravelInv, PlainTypes
    <3> QED BY <3>1, <3>2, StepIdle DEF WalkHolds
  <2> QED BY <2>1, <2>2
<1> QED BY <1>1, TravelInitInv, TravelInvTypes, PTL DEF TravelSpec

(* Whatever way there is from a to b, the search finds one that costs no   *)
(* more; it answers <<>> only where a is b or no way leads (edges.route).  *)
RoadIsFound ==
  \A a, b \in Spot, modes \in SUBSET Mode, hops \in Seq(DOMAIN map) :
    Leads(hops, a, b, modes) =>
      LET road == Route(a, b, modes) IN Leads(road, a, b, modes) /\ CostOf(road) <= CostOf(hops)

(* The search of edges.route is complete on any map: it stops within two   *)
(* pushes for a road, and where there is a way it has found a cheapest.    *)
THEOREM RoadIsFoundHolds == TravelSpec => []RoadIsFound
<1>1. ASSUME map \in Maps, NEW a \in Spot, NEW b \in Spot, NEW modes \in SUBSET Mode,
             NEW hops \in Seq(DOMAIN map), Leads(hops, a, b, modes)
      PROVE  LET road == Route(a, b, modes) IN Leads(road, a, b, modes) /\ CostOf(road) <= CostOf(hops)
  <2> DEFINE s == Searched(a, b, modes)
  <2>1. SearchInv(s, a, modes)
    BY <1>1, SearchedInv
  <2>2. Len(hops) \in Nat /\ hops \in [1..Len(hops) -> DOMAIN map]
    OBVIOUS
  <2>3. s.heap = {} \/ b \in s.done
    BY <1>1, SearchEnds
  <2>4. Route(a, b, modes) = IF b \in s.done THEN s.way[b] ELSE <<>>
    BY DEF Route
  <2> HIDE DEF s
  <2>5. b \in s.done
    BY <1>1, <2>1, <2>2, <2>3, AllSettled
  <2>6. CostOf(s.way[b]) <= CostOf(hops)
    BY <1>1, <2>1, <2>2, <2>5, NoneCheaper
  <2>7. Leads(s.way[b], a, b, modes)
    BY <2>1, <2>5 DEF SearchInv, Found
  <2> QED BY <2>4, <2>5, <2>6, <2>7
<1>2. map \in Maps => RoadIsFound
  BY <1>1 DEF RoadIsFound
<1>3. TravelTypeOK => RoadIsFound
  BY <1>2 DEF TravelTypeOK
<1> QED BY <1>3, TravelTypes, PTL

(* The road planned for a journey is a cheapest one whatever the map, and  *)
(* it is walked hop by hop: whoever is on the road has a hop under way,    *)
(* set out with what its road takes, and is moved by its end alone.        *)
THEOREM RoadsAreWalkedHolds == TravelSpec => RoadsAreWalked
<1>1. TravelInv /\ [TravelNext]_travelVars => TravelInv'
  <2> SUFFICES ASSUME TravelInv, [TravelNext]_travelVars PROVE TravelInv'
    OBVIOUS
  <2>1. CASE TravelNext
    BY <2>1, TravelStep DEF WalkHolds
  <2>2. CASE UNCHANGED travelVars
    <3>1. /\ map' = map /\ routes' = routes /\ place' = place /\ todo' = todo /\ stage' = stage
          /\ hour' = hour /\ living' = living /\ lit' = lit /\ gifts' = gifts /\ goods' = goods
      BY <2>2 DEF travelVars, rest
    <3>2. PlainTypes'
      BY <3>1 DEF TravelInv, PlainTypes
    <3> QED BY <3>1, <3>2, StepIdle DEF WalkHolds
  <2> QED BY <2>1, <2>2
<1> DEFINE kept == TravelTypeOK' /\ PlanIsShortest /\ OnTheRoadAtWork' /\ LoadFitsRoad /\ OnlyArrivalsMove
<1>2. TravelInv /\ [TravelNext]_travelVars => [kept]_travelVars
  <2> SUFFICES ASSUME TravelInv, TravelNext PROVE kept
    OBVIOUS
  <2>1. WalkHolds
    BY TravelStep
  <2>2. (TravelTypeOK /\ OnTheRoadAtWork)'
    BY <2>1, TravelInvTypes, PTL DEF WalkHolds
  <2> QED BY <2>1, <2>2 DEF WalkHolds
<1>3. TravelSpec => [][kept]_travelVars
  <2> HIDE DEF kept
  <2> QED BY <1>1, <1>2, TravelInitInv, PTL DEF TravelSpec
<1> QED BY <1>3 DEF RoadsAreWalked
=============================================================================
