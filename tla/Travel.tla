------------------------------- MODULE Travel -------------------------------
(***************************************************************************)
(* The road as work: engine/econengine/travel.py over the map of           *)
(* engine/econengine/edges.py.                                             *)
(*                                                                         *)
(* A journey is a route row with an itinerary frozen at departure, walked  *)
(* one hop at a time; a hop is a process that runs for the cost of its     *)
(* edge.  Each tick completes the processes that are due, then visits the  *)
(* routes: those that wait for light first, then those that were active    *)
(* when the pass began.  Between the passes scripts and the API start and  *)
(* cancel journeys, light and douse torches, and give goods.               *)
(*                                                                         *)
(* Time is relative: hour is next_tick_number within its day, left is      *)
(* completes_tick - next_tick_number, waited the ticks since the halt.     *)
(* The gates of a travel recipe other than its rations can only refuse a   *)
(* hop; a start that finds two journeys active dies with the tick around   *)
(* it and leaves nothing behind, so it is not an action.                   *)
(***************************************************************************)
EXTENDS Integers, Sequences, FiniteSets, Totals

CONSTANTS
  Walker, Spot, Mode,
  Maps,      \* maps: sequences of edges in the order route() sorts them in
  Day, Night,\* hours of a day, and those of them that are dark
  Relight,   \* relight_ticks of the travel rules
  Cargo,     \* goods that weigh
  Food,      \* the one a hop draws
  Ration,    \* how much of it a hop of a mode draws
  LegCap,    \* the load the road of a mode takes
  Pack,      \* what a walker sets out with
  MaxRoutes, MaxGifts  \* bounds

VARIABLES
  map,    \* the edges installed at genesis
  hour,   \* next_tick_number within the day
  stage,  \* "pass" during the arrival pass, "acts" during the intents after
          \* it, "open" between ticks
  todo,   \* routes the pass selected and has not visited, by what they were
  living, place, goods,
  lit,    \* walkers on whom the conditions of night travel are active
  gifts,  \* grants so far
  routes  \* the route rows of a walker, in creation order

rest == <<map, gifts>>
travelVars == <<hour, stage, todo, living, place, goods, lit, routes, rest>>

Edge == [a : Spot, b : Spot, mode : Mode, cost : Nat \ {0}, two : BOOLEAN]
Lesser(m, n) == IF m <= n THEN m ELSE n

ASSUME TravelAssumption ==
  /\ IsFiniteSet(Spot) /\ IsFiniteSet(Cargo) /\ Food \in Cargo
  /\ Maps \subseteq Seq(Edge)
  /\ Day \in Nat \ {0} /\ Relight \in Nat /\ MaxRoutes \in Nat /\ MaxGifts \in Nat
  /\ Ration \in [Mode -> Nat] /\ LegCap \in [Mode -> Nat] /\ Pack \in [Cargo -> Nat]

-----------------------------------------------------------------------------
(* The map.                                                                *)

(* The ways to leave a place: <<cost, tie, far end, edge>>; a two-way edge *)
(* is walked both ways, and ties fall in map order.                        *)
Neighbours(node, modes) ==
  {<<map[i].cost, 2 * i, map[i].b, i>> : i \in {j \in DOMAIN map : map[j].a = node /\ map[j].mode \in modes}}
    \union
  {<<map[i].cost, 2 * i + 1, map[i].a, i>> :
      i \in {j \in DOMAIN map : map[j].b = node /\ map[j].two /\ map[j].mode \in modes}}

(* What a list of roads costs.                                             *)
CostOf(hops) == LET cost == [n \in DOMAIN hops |-> map[hops[n]].cost] IN Total(cost, DOMAIN hops)

HeapFirst(heap) ==
  CHOOSE x \in heap : \A y \in heap : x[1] < y[1] \/ (x[1] = y[1] /\ x[2] <= y[2])

Improves(s, n, cost) == n \notin DOMAIN s.way \/ cost < CostOf(s.way[n])

(* The ways out of what the heap gives next that improve on what is known. *)
Relaxing(s, modes) ==
  LET x == HeapFirst(s.heap) IN
  {w \in Neighbours(x[3], modes) : w[3] \notin s.done \union {x[3]} /\ Improves(s, w[3], x[1] + w[1])}

BestOf(ways, n) ==
  CHOOSE w \in ways : /\ w[3] = n
                      /\ \A v \in ways : v[3] = n => w[1] < v[1] \/ (w[1] = v[1] /\ w[2] <= v[2])

(* A place is settled, and those its ways out improve on are pushed: each  *)
(* is reached by the first of the cheapest.  What is settled is not        *)
(* improved on, so the way kept here is the one read off came_from.        *)
Relaxed(s, modes) ==
  LET x == HeapFirst(s.heap)
      ways == Relaxing(s, modes)
      found == {w[3] : w \in ways}
  IN  IF x[3] \in s.done THEN [s EXCEPT !.heap = @ \ {x}]
      ELSE [way |-> [n \in DOMAIN s.way \union found |->
                       IF n \in found THEN Append(s.way[x[3]], BestOf(ways, n)[4]) ELSE s.way[n]],
            heap |-> (s.heap \ {x}) \union {<<x[1] + w[1], w[2], w[3]>> : w \in ways},
            done |-> s.done \union {x[3]}]

Sought(s, to, modes) == IF s.heap = {} \/ to \in s.done THEN s ELSE Relaxed(s, modes)

Setting(from) == [way |-> [n \in {from} |-> <<>>], heap |-> {<<0, 0, from>>}, done |-> {}]

(* Dijkstra over the edges of the allowed modes: each way out is pushed at *)
(* most once, and each step pops one.                                      *)
Searched(from, to, modes) ==
  LET search[k \in Nat] == IF k = 0 THEN Setting(from) ELSE Sought(search[k - 1], to, modes)
  IN  search[2 * Len(map) + 1]

(* <<>> when there is no road.                                             *)
Route(from, to, modes) ==
  LET s == Searched(from, to, modes) IN IF to \in s.done THEN s.way[to] ELSE <<>>

-----------------------------------------------------------------------------
(* A walker on the road.                                                   *)

Weight(h) == Total(h, Cargo)
Load(w) == Weight(goods[w])

(* Largest bundle first, ties by symbol.                                   *)
Rank == CHOOSE r \in [Cargo -> 1..Cardinality(Cargo)] : \A g, h \in Cargo : g # h => r[g] # r[h]
Ahead(h, g) == {k \in Cargo : h[k] > h[g] \/ (h[k] = h[g] /\ Rank[k] < Rank[g])}
Dropped(h, cap, g) ==
  LET excess == (Weight(h) - cap) - Total(h, Ahead(h, g)) IN IF excess <= 0 THEN 0 ELSE Lesser(h[g], excess)
Shed(h, cap) == [g \in Cargo |-> h[g] - Dropped(h, cap, g)]

(* Mutant: the load is not weighed again on the way.                       *)
SpilledNot(w, i) == goods[w]

(* What is left in w's hands for edge i: the excess is burned.             *)
Spilled(w, i) == Shed(goods[w], LegCap[map[i].mode])

Dark(w) == hour \in Night /\ w \notin lit
Ends(i) == {map[i].a, map[i].b}
FarEnd(i, p) == IF p = map[i].a THEN map[i].b ELSE map[i].a

(* _start_hop: "go", "dark" for want of a flame, "no" for anything else.   *)
HopAnswer(w, i, here, have) ==
  IF here \notin Ends(i) THEN "no"
  ELSE IF Dark(w) THEN "dark"
  ELSE IF w \in living /\ have[Food] >= Ration[map[i].mode] THEN "go" ELSE "no"

Fed(have, i) == [have EXCEPT ![Food] = @ - Ration[map[i].mode]]
OnHop(r, i) == [r EXCEPT !.status = "active", !.hop = "running", !.left = map[i].cost, !.waited = 0]
Stranded(r) == [r EXCEPT !.status = "stranded", !.hop = "none", !.waited = 0]
Halted(r) == [r EXCEPT !.status = "waiting", !.hop = "none", !.waited = 0]
Arrived(r) == [r EXCEPT !.status = "arrived", !.hop = "none"]

Active(w) == {n \in DOMAIN routes[w] : routes[w][n].status = "active"}
Ongoing == {"waiting", "active"}

TravelInit ==
  /\ map \in Maps
  /\ hour = 1 /\ stage = "open" /\ todo = [k \in Ongoing |-> {}]
  /\ living = Walker
  /\ place \in [Walker -> Spot]
  /\ goods = [w \in Walker |-> Pack]
  /\ lit = {}
  /\ gifts = 0
  /\ routes = [w \in Walker |-> <<>>]

-----------------------------------------------------------------------------
(* Scripts and the API.                                                    *)

Open == stage \in {"open", "acts"}

(* A journey starts: planned over the allowed modes, refused while another *)
(* is active, in the dark, or with a load one of its roads does not take;  *)
(* the first hop draws its rations.                                        *)
StartRoute(w, dest, modes) ==
  LET hops == Route(place[w], dest, modes) IN
  /\ Open /\ w \in living /\ dest # place[w]
  /\ Active(w) = {}
  /\ Len(routes[w]) < MaxRoutes
  /\ hops # <<>>
  /\ ~Dark(w)
  /\ \A n \in DOMAIN hops : Load(w) <= LegCap[map[hops[n]].mode]
  /\ HopAnswer(w, hops[1], place[w], goods[w]) = "go"
  /\ goods' = [goods EXCEPT ![w] = Fed(@, hops[1])]
  /\ routes' = [routes EXCEPT ![w] = Append(@,
       OnHop([from |-> place[w], dest |-> dest, modes |-> modes, hops |-> hops, next |-> 1,
              status |-> "active", hop |-> "running", left |-> 0, waited |-> 0], hops[1]))]
  /\ UNCHANGED <<hour, stage, todo, living, place, lit, rest>>

(* The hop in flight is cancelled, unless it completes next, or fails for  *)
(* want of what it draws by the tick.                                      *)
EndHop(w, n) ==
  /\ Open
  /\ routes[w][n].hop = "running" /\ routes[w][n].left > 0
  /\ routes' = [routes EXCEPT ![w][n].hop = "cancelled"]
  /\ UNCHANGED <<hour, stage, todo, living, place, goods, lit, rest>>

(* A torch is lit or burns out.                                            *)
Torch(w) ==
  /\ Open
  /\ lit' = IF w \in lit THEN lit \ {w} ELSE lit \union {w}
  /\ UNCHANGED <<hour, stage, todo, living, place, goods, routes, rest>>

(* Loot, a gift or a harvest.                                              *)
Give(w, g) ==
  /\ Open /\ w \in living /\ gifts < MaxGifts
  /\ gifts' = gifts + 1
  /\ goods' = [goods EXCEPT ![w][g] = @ + 1]
  /\ UNCHANGED <<map, hour, stage, todo, living, place, lit, routes>>

(* A death cancels the hop and takes the goods; the route rows stay.       *)
Perish(w) ==
  /\ Open /\ w \in living
  /\ living' = living \ {w}
  /\ goods' = [goods EXCEPT ![w] = [g \in Cargo |-> 0]]
  /\ routes' = [routes EXCEPT ![w] = [n \in DOMAIN @ |->
       IF @[n].hop = "running" THEN [@[n] EXCEPT !.hop = "cancelled"] ELSE @[n]]]
  /\ UNCHANGED <<hour, stage, todo, place, lit, rest>>

-----------------------------------------------------------------------------
(* The arrival pass.                                                       *)

Standing(status) ==
  {v \in Walker \X (1..MaxRoutes) : v[2] \in DOMAIN routes[v[1]] /\ routes[v[1]][v[2]].status = status}

(* Mutant: the pass never looks at the routes that wait for light.         *)
BeginPassForgets ==
  /\ stage = "open" /\ stage' = "pass"
  /\ routes' = [w \in Walker |-> [n \in DOMAIN routes[w] |->
       LET r == routes[w][n] IN
       IF r.hop = "running" /\ r.left = 0 THEN [r EXCEPT !.hop = "completed"] ELSE r]]
  /\ todo' = [k \in Ongoing |-> IF k = "active" THEN Standing(k) ELSE {}]
  /\ UNCHANGED <<hour, living, place, goods, lit, rest>>

(* The hops that are due complete; the pass selects its routes.            *)
BeginPass ==
  /\ stage = "open" /\ stage' = "pass"
  /\ routes' = [w \in Walker |-> [n \in DOMAIN routes[w] |->
       LET r == routes[w][n] IN
       IF r.hop = "running" /\ r.left = 0 THEN [r EXCEPT !.hop = "completed"] ELSE r]]
  /\ todo' = [k \in Ongoing |-> Standing(k)]
  /\ UNCHANGED <<hour, living, place, goods, lit, rest>>

(* First the routes that wait, then the active; a walker's own in the      *)
(* order of creation.                                                      *)
Visit(w, n) ==
  /\ stage = "pass"
  /\ \E k \in Ongoing :
       /\ <<w, n>> \in todo[k] /\ (k = "active" => todo["waiting"] = {})
       /\ \A m \in 1..n - 1 : <<w, m>> \notin todo[k]
       /\ todo' = [todo EXCEPT ![k] = @ \ {<<w, n>>}]
  /\ UNCHANGED <<hour, stage, living, lit, rest>>

Keep(w, n, r, p, have) ==
  /\ routes' = [routes EXCEPT ![w][n] = r]
  /\ place' = [place EXCEPT ![w] = p]
  /\ goods' = [goods EXCEPT ![w] = have]

(* Still dark: wait on, or give the journey up when the window is over.    *)
WaitOn(w, n) ==
  LET r == routes[w][n] IN
  /\ Visit(w, n) /\ r.status = "waiting" /\ Dark(w)
  /\ Keep(w, n, IF r.waited > Relight THEN Stranded(r) ELSE r, place[w], goods[w])

(* A flame or dawn: shed what the road does not take and go on, or be      *)
(* stranded by what the hop still wants.                                   *)
Resume(w, n) ==
  LET r == routes[w][n]  i == r.hops[r.next]  have == Spilled(w, i)
      answer == HopAnswer(w, i, place[w], have)
  IN
  /\ Visit(w, n) /\ r.status = "waiting" /\ ~Dark(w)
  /\ IF answer = "go" THEN Keep(w, n, OnHop(r, i), place[w], Fed(have, i))
                      ELSE Keep(w, n, Stranded(r), place[w], have)

(* A hop completed: the walker stands at its far end, and there arrives,   *)
(* sheds and walks on, halts for light, or is stranded.                    *)
Arrive(w, n) ==
  LET r == routes[w][n]  i == r.hops[r.next]  there == FarEnd(i, place[w])
      on == [r EXCEPT !.next = @ + 1]
  IN
  /\ Visit(w, n) /\ r.hop = "completed"
  /\ IF place[w] \notin Ends(i) THEN Keep(w, n, Stranded(r), place[w], goods[w])
     ELSE IF on.next > Len(r.hops) THEN Keep(w, n, Arrived(on), there, goods[w])
     ELSE LET j == r.hops[on.next]  have == Spilled(w, j)
              answer == HopAnswer(w, j, there, have)
          IN  IF answer = "go" THEN Keep(w, n, OnHop(on, j), there, Fed(have, j))
              ELSE Keep(w, n, IF answer = "dark" THEN Halted(on) ELSE Stranded(on), there, have)

(* A hop cut short strands the walker where the hop began.                 *)
CutShort(w, n) ==
  LET r == routes[w][n] IN
  /\ Visit(w, n) /\ r.status = "active" /\ r.hop = "cancelled"
  /\ Keep(w, n, Stranded(r), place[w], goods[w])

(* A hop in flight, or a route without one, is passed over.                *)
InFlight(w, n) ==
  /\ Visit(w, n) /\ routes[w][n].status = "active" /\ routes[w][n].hop \in {"running", "none"}
  /\ UNCHANGED <<place, goods, routes>>

(* A tick older; a window run out grows no older.                          *)
Aged(r) ==
  IF r.hop = "running" THEN [r EXCEPT !.left = @ - 1]
  ELSE IF r.status = "waiting" THEN [r EXCEPT !.waited = Lesser(@ + 1, Relight + 1)] ELSE r

(* The intents of the tick follow the pass.                                *)
EndPass ==
  /\ stage = "pass" /\ (\A k \in Ongoing : todo[k] = {}) /\ stage' = "acts"
  /\ UNCHANGED <<hour, todo, living, place, goods, lit, routes, rest>>

(* The tick is committed, and next_tick_number moves on.                   *)
Commit ==
  /\ stage = "acts" /\ stage' = "open"
  /\ hour' = (hour % Day) + 1
  /\ routes' = [w \in Walker |-> [n \in DOMAIN routes[w] |-> Aged(routes[w][n])]]
  /\ UNCHANGED <<todo, living, place, goods, lit, rest>>

TickStep ==
  \/ BeginPass \/ EndPass \/ Commit
  \/ \E w \in Walker, n \in 1..MaxRoutes :
       WaitOn(w, n) \/ Resume(w, n) \/ Arrive(w, n) \/ CutShort(w, n) \/ InFlight(w, n)

TravelNext ==
  \/ TickStep
  \/ \E w \in Walker, d \in Spot, m \in SUBSET Mode \ {{}} : StartRoute(w, d, m)
  \/ \E w \in Walker, n \in 1..MaxRoutes : n \in DOMAIN routes[w] /\ EndHop(w, n)
  \/ \E w \in Walker : Torch(w) \/ Perish(w)
  \/ \E w \in Walker, g \in Cargo : Give(w, g)

TravelSpec == TravelInit /\ [][TravelNext]_travelVars

(* The tick loop runs every pass of a tick it has begun and begins the     *)
(* next; nobody need light a torch, start or cancel anything.              *)
FairTravel == TravelSpec /\ WF_travelVars(TickStep)

-----------------------------------------------------------------------------
(* Properties.                                                             *)

RouteRow ==
  [from : Spot, dest : Spot, modes : SUBSET Mode, hops : Seq(DOMAIN map), next : Nat \ {0},
   status : {"active", "waiting", "arrived", "stranded"},
   hop : {"none", "running", "completed", "cancelled"}, left : Nat, waited : 0..Relight + 1]

TravelTypeOK ==
  /\ map \in Maps
  /\ hour \in 1..Day /\ stage \in {"open", "pass", "acts"}
  /\ todo \in [Ongoing -> SUBSET (Walker \X (1..MaxRoutes))]
  /\ living \subseteq Walker /\ lit \subseteq Walker
  /\ place \in [Walker -> Spot]
  /\ goods \in [Walker -> [Cargo -> Nat]]
  /\ gifts \in 0..MaxGifts
  /\ routes \in [Walker -> Seq(RouteRow)] /\ \A w \in Walker : Len(routes[w]) <= MaxRoutes

(* Reference: every way from a to b of fewer roads than there are places.  *)
Joins(p, q, i, modes) ==
  /\ map[i].mode \in modes
  /\ <<map[i].a, map[i].b>> = <<p, q>> \/ (map[i].two /\ <<map[i].b, map[i].a>> = <<p, q>>)
Leads(hops, a, b, modes) ==
  \E path \in [1..Len(hops) + 1 -> Spot] :
    /\ path[1] = a /\ path[Len(hops) + 1] = b
    /\ \A n \in DOMAIN hops : Joins(path[n], path[n + 1], hops[n], modes)
Trips(a, b, modes) ==
  {hops \in UNION {[1..m -> DOMAIN map] : m \in 0..Cardinality(Spot) - 1} : Leads(hops, a, b, modes)}

(* The road planned for a journey leads to its destination over roads of   *)
(* the allowed modes, and no other way there costs less: the search stops  *)
(* at the first settlement of the destination.                             *)
PlanIsShortest ==
  \A w \in Walker : \A n \in DOMAIN routes'[w] \ DOMAIN routes[w] :
    LET r == routes'[w][n]  trips == Trips(r.from, r.dest, r.modes) IN
    r.hops \in trips /\ \A t \in trips : CostOf(r.hops) <= CostOf(t)

(* An active route has its hop in flight, or ended and not yet seen by the *)
(* pass; a route that waits or is over has none: nobody is on the road     *)
(* without a process, however halts, resumptions, cancellations and deaths *)
(* came.                                                                   *)
OnTheRoadAtWork ==
  \A w \in Walker : \A n \in DOMAIN routes[w] :
    LET r == routes[w][n] IN (r.status = "active") <=> (r.hop # "none")

(* A hop sets out only with what its road takes, its rations weighed too:  *)
(* what was given on the way is shed at the waypoint or after the halt.    *)
LoadFitsRoad ==
  \A w \in Walker : \A n \in DOMAIN routes'[w] :
    LET r == routes'[w][n]
        set == r.hop = "running" /\ r.left = map[r.hops[r.next]].cost
        new == n \notin DOMAIN routes[w] \/ routes[w][n].next # r.next \/ routes[w][n].hop # "running"
    IN  set /\ new => LET m == map[r.hops[r.next]].mode IN Load(w)' + Ration[m] <= LegCap[m]

(* Only an arrival moves anybody, to the other end of a road whose hop was *)
(* started when it had to be: there is one arrival for every paid hop.     *)
OnlyArrivalsMove ==
  \A w \in Walker : place'[w] # place[w] =>
    \E n \in DOMAIN routes[w] :
      LET r == routes[w][n]  i == r.hops[r.next] IN
      r.hop = "completed" /\ Ends(i) = {place[w], place'[w]} /\ routes'[w][n].next = r.next + 1

(* The cheapest road is taken and walked hop by hop: whoever is on it has  *)
(* a hop under way, set out with what the road takes and is moved by its   *)
(* end alone (plan_route, _start_hop, _spill_over and complete_travel).    *)
RoadsAreWalked ==
  [][TravelTypeOK' /\ PlanIsShortest /\ OnTheRoadAtWork' /\ LoadFitsRoad /\ OnlyArrivalsMove]_travelVars

(* Every journey ends, arrived or stranded: no route waits for light past  *)
(* its window, and none is left on a hop that is over.                     *)
JourneysEnd ==
  \A w \in Walker, n \in 1..MaxRoutes :
    (n \in DOMAIN routes[w] /\ routes[w][n].status \in {"active", "waiting"})
      ~> (n \in DOMAIN routes[w] /\ routes[w][n].status \in {"arrived", "stranded"})

(* "finish or cancel that journey first" (travel.py:262): nobody is on two *)
(* journeys at once.                                                       *)
OneJourney == \A w \in Walker : Cardinality(Active(w)) <= 1

(* "shed only once the road will actually take the walker" (travel.py:415) *)
ShedOnlyToWalk ==
  [][\A w \in Walker : Load(w)' < Load(w) /\ w \in living' =>
       \E n \in DOMAIN routes'[w] : /\ routes'[w][n].hop = "running"
                                    /\ n \notin DOMAIN routes[w] \/ routes[w][n] # routes'[w][n]]_travelVars
=============================================================================
