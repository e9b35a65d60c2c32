------------------------------- MODULE Polity -------------------------------
(* Governance: electorates and their weights (engine/econengine/weights.py, *)
(* councils.py, delegations.py), bills, ballots and enactment (services.py),*)
(* the intents that reach them and the hooks that act inside an enactment   *)
(* (scripting.py).                                                          *)
EXTENDS Naturals, Sequences, FiniteSets, Totals

CONSTANTS Person,      \* individuals
          Government,  \* entities bills may be addressed to
          Bill,        \* proposals, each put at most once
          Text,        \* Text[b]: tier, target, threshold, quorum, mutations
          Worlds,      \* beginnings: a delegation and a council register, and
                       \* the weight model each bill names
          Mortal,      \* the persons who may die
          Dealings,    \* the pairs <<seller, buyer>> that trade shares
          Graphs,      \* the delegation registers an operator may set
          Rolls,       \* the council registers an operator may set
          Orders,      \* writes <<topic, value>> a government may order itself
          HookWrites,  \* writes <<topic, value>> a hook may make
          Founding,    \* the law in force at the start
          Watched,     \* the operations some HOOK script reacts to
          MaxBallots,  \* bound: ballots cast in all
          MaxStirs     \* bound: deaths, trades and changes of register in all

Power == {"set_fiscal_policy", "legislate", "amend_constitution", "grant_capability"}
Holding(g, c) == <<"power", g, c>>
Policy == <<"policy">>      \* the fiscal policy
Script == <<"script">>      \* the current version of one ordinary lineage
Bound == <<"bound">>        \* the greatest policy the VALIDATORs in force allow
Floor == <<"floor">>        \* the supermajority, in percent
Ordinary == {Policy, Script}
Topic == Ordinary \union {Bound, Floor}
           \union {Holding(g, c) : g \in Government, c \in Power}

\* Mutant: capabilities.py, powers conferred under the amending capability.
NeedsAmend(t) == CASE t = Policy -> "set_fiscal_policy"
                   [] t = Script -> "legislate"
                   [] OTHER -> "amend_constitution"

\* capabilities.INTENT_CAPABILITIES and the checks of the services.
Needs(t) == CASE t = Policy -> "set_fiscal_policy"
              [] t = Script -> "legislate"
              [] t \in {Bound, Floor} -> "amend_constitution"
              [] OTHER -> "grant_capability"
Licences == [t \in Topic |-> {Holding(g, Needs(t)) : g \in Government}]

\* The kinds of electorate of weights.py that the models below know.
Model == {"citizen", "share", "council", "weighted", "liquid"}

Mutations(b) == Text[b].mutations
Writes == [b \in Bill |-> {Mutations(b)[i] : i \in DOMAIN Mutations(b)}]

ASSUME PolityAssumption ==
    /\ IsFiniteSet(Person) /\ "nobody" \notin Person
    /\ \A b \in Bill :
          /\ Text[b].tier \in {"ordinary", "constitutional"}
          /\ Text[b].target \in Government
          /\ Text[b].threshold \in Nat /\ Text[b].quorum \in Nat
          /\ Mutations(b) \in Seq(Topic \X Nat)
    /\ Orders \subseteq Topic \X Nat
    /\ HookWrites \subseteq Topic \X Nat
    /\ \A w \in Worlds : w.graph \in Graphs /\ w.roll \in Rolls /\ w.form \in [Bill -> Model]
    /\ \A r \in Rolls : r \in [DOMAIN r -> Nat]
    /\ Founding \in [Topic -> Nat]
    /\ Watched \subseteq {"propose", "vote", "mutation", "enact", "order"}

VARIABLES alive,    \* persons whose entity is ACTIVE
          shares,   \* the cap table: shares held by each person
          graph,    \* the delegation register: delegator -> delegate
          roll,     \* the council register: member -> declared weight
          law,      \* the value of every topic
          form,     \* proposal.weight_model
          status,   \* proposal.status; "none" before it is created
          ballots,  \* ballots[b][p]: choice and the weight it was cast with
          stack,    \* enactments under way, a nested one last
          hook,     \* an operation's hooks are about to run
          stirs     \* deaths, trades and changes of register so far

body == <<alive, shares, graph, roll, form, stirs>>
vars == <<body, law, status, ballots, stack, hook>>

NoBallot == [choice |-> "none", weight |-> 0]
Choice == {"for", "against"}
-----------------------------------------------------------------------------
(* Weight models *)

\* Mutant: weights.py `_liquid_resolve_weights`, a delegation that leaves the pool still followed.
NextInAnyPool(p) == IF p \notin DOMAIN graph THEN p ELSE graph[p]

\* Where a unit of weight at p goes next; "nobody" when it is stranded.
NextVoter(p) == IF p \notin DOMAIN graph THEN p
                ELSE IF graph[p] \in alive THEN graph[p] ELSE "nobody"

\* A unit that is stranded goes nowhere.
Onward(x) == IF x = "nobody" THEN "nobody" ELSE NextVoter(x)

\* Where p's unit of weight has gone after so many delegations.
Chain(p) == LET to[n \in 0..Cardinality(Person)] == IF n = 0 THEN p ELSE Onward(to[n - 1])
            IN  to

\* The voter p's unit of weight ends with.  A chain longer than there are
\* persons has met itself, and its weight is dropped.
Terminal(p) ==
    LET end == Chain(p)[Cardinality(Person)]
    IN  IF end \in DOMAIN graph THEN "nobody" ELSE end

Citizens == [p \in alive |-> 1]
Shareholders == [p \in {q \in Person : shares[q] > 0} |-> shares[p]]
Council == [p \in DOMAIN roll \intersect alive |-> 1]
Weighted == [p \in DOMAIN roll \intersect alive |-> roll[p]]
Liquid == LET voters == {Terminal(p) : p \in alive} \ {"nobody"}
          IN  [v \in voters |-> Cardinality({p \in alive : Terminal(p) = v})]

Electorate(model) == CASE model = "citizen" -> Citizens
                       [] model = "share" -> Shareholders
                       [] model = "council" -> Council
                       [] model = "weighted" -> Weighted
                       [] model = "liquid" -> Liquid

WeightOf(model, p) == LET e == Electorate(model) IN IF p \in DOMAIN e THEN e[p] ELSE 0
ElectorateTotal(model) == LET e == Electorate(model) IN Total(e, DOMAIN e)
-----------------------------------------------------------------------------
(* The life the electorates are read from *)

Stir == stirs < MaxStirs /\ stirs' = stirs + 1 /\ stack = <<>> /\ ~hook

\* An entity dies; its estate goes to an heir or is burned.
Die(p) == /\ Stir /\ p \in alive
          /\ alive' = alive \ {p}
          /\ \/ shares' = [shares EXCEPT ![p] = 0]
             \/ \E heir \in alive \ {p} :
                  shares' = [shares EXCEPT ![p] = 0, ![heir] = @ + shares[p]]
          /\ UNCHANGED <<graph, roll, form, law, status, ballots, stack, hook>>

\* A share changes hands.
Trade(p, q) == /\ Stir /\ q \in alive /\ p \in alive /\ shares[p] > 0
               /\ shares' = [shares EXCEPT ![p] = @ - 1, ![q] = @ + 1]
               /\ UNCHANGED <<alive, graph, roll, form, law, status, ballots, stack, hook>>

SetDelegations(g) == /\ Stir /\ g # graph
                     /\ graph' = g
                     /\ UNCHANGED <<alive, shares, roll, form, law, status, ballots, stack, hook>>

SetRegister(r) == /\ Stir /\ r # roll
                  /\ roll' = r
                  /\ UNCHANGED <<alive, shares, graph, form, law, status, ballots, stack, hook>>
-----------------------------------------------------------------------------
(* Proposing and voting *)

Quiet == stack = <<>> /\ ~hook

\* The tier bounds what a bill may carry.
Allowed(b) == \/ Text[b].tier = "constitutional"
              \/ \A w \in Writes[b] : w[1] \in Ordinary

\* Whoever is of the electorate may propose.
MayPropose(b, p) == status[b] = "none" /\ WeightOf(form[b], p) > 0

Propose(b, p) == /\ Quiet /\ MayPropose(b, p)
                 /\ Mutations(b) # <<>> /\ Allowed(b)
                 /\ status' = [status EXCEPT ![b] = "open"]
                 /\ hook' = ("propose" \in Watched)
                 /\ UNCHANGED <<body, law, ballots, stack>>

BallotsCast == Cardinality({r \in Bill \X Person : ballots[r[1]][r[2]] # NoBallot})

MayVote(b, p) == status[b] = "open" /\ WeightOf(form[b], p) > 0

\* A second ballot is the first one again or is refused: neither changes anything.
Vote(b, p, c) == /\ Quiet /\ MayVote(b, p)
                 /\ ballots[b][p] = NoBallot
                 /\ BallotsCast < MaxBallots
                 /\ ballots' = [ballots EXCEPT ![b][p] =
                        [choice |-> c, weight |-> WeightOf(form[b], p)]]
                 /\ hook' = ("vote" \in Watched)
                 /\ UNCHANGED <<body, law, status, stack>>
-----------------------------------------------------------------------------
(* Enactment *)

Cast(b, c) == Total([p \in Person |-> ballots[b][p].weight],
                    {p \in Person : ballots[b][p].choice = c})
Turnout(b) == Cast(b, "for") + Cast(b, "against")

\* A constitutional bill has to clear the floor in force as well as its own bar.
Bar(b) == IF Text[b].tier = "constitutional" /\ law[Floor] > Text[b].threshold
          THEN law[Floor] ELSE Text[b].threshold

Passes(b) == LET electorate == ElectorateTotal(form[b]) IN
             /\ electorate > 0 /\ Turnout(b) > 0
             /\ Cast(b, "for") * 100 >= Bar(b) * Turnout(b)
             /\ Turnout(b) * 100 >= Text[b].quorum * electorate

MayEnact(b) == /\ status[b] = "open"
               /\ law[Holding(Text[b].target,
                        IF Text[b].tier = "constitutional" THEN "amend_constitution"
                        ELSE "legislate")] = 1

\* The tally, and the savepoint the mutations are applied in.  Under a hook
\* nothing fires: the enactment is quiet.
Tally(b, quiet) ==
    /\ MayEnact(b)
    /\ IF Passes(b)
       THEN /\ stack' = Append(stack, [bill |-> b, at |-> 1, quiet |-> quiet,
                                       law |-> law, status |-> status])
            /\ UNCHANGED status
       ELSE /\ status' = [status EXCEPT ![b] = "failed"]
            /\ UNCHANGED stack
    /\ UNCHANGED <<body, law, ballots>>

Enact(b) == Quiet /\ Tally(b, FALSE) /\ UNCHANGED hook

Top == stack[Len(stack)]
Pop == SubSeq(stack, 1, Len(stack) - 1)
Mutation == Mutations(Top.bill)[Top.at]
InEnactment == stack # <<>> /\ ~hook
More == Top.at <= Len(Mutations(Top.bill))

\* The verdicts validators may give on a write: the one in force bounds the
\* policy, and may refuse a change of floor or of powers; none gates scripts
\* and validators.
Verdicts(w) == CASE w[1] = Policy -> {w[2] <= law[Bound]}
                 [] w[1] \in {Script, Bound} -> {TRUE}
                 [] OTHER -> BOOLEAN

\* Whether g may write w, and whether it may be refused.
Licensed(g, w) == law[Holding(g, Needs(w[1]))] = 1
Permitted(g, w, quiet) == Licensed(g, w) /\ (quiet \/ TRUE \in Verdicts(w))
Refused(g, w, quiet) == ~Licensed(g, w) \/ (~quiet /\ FALSE \in Verdicts(w))

\* Mutant: scripting.py `fire_hooks`, hooks not suppressed inside a hook's own enactment.
ApplyLoud == /\ InEnactment /\ More
             /\ Permitted(Text[Top.bill].target, Mutation, Top.quiet)
             /\ law' = [law EXCEPT ![Mutation[1]] = Mutation[2]]
             /\ stack' = Append(Pop, [Top EXCEPT !.at = @ + 1])
             /\ hook' = ("mutation" \in Watched)
             /\ UNCHANGED <<body, status, ballots>>

\* One mutation, resolved as an intent of the target; its hooks follow.
Apply == /\ InEnactment /\ More
         /\ Permitted(Text[Top.bill].target, Mutation, Top.quiet)
         /\ law' = [law EXCEPT ![Mutation[1]] = Mutation[2]]
         /\ stack' = Append(Pop, [Top EXCEPT !.at = @ + 1])
         /\ hook' = (~Top.quiet /\ "mutation" \in Watched)
         /\ UNCHANGED <<body, status, ballots>>

\* Mutant: services.py `enact_proposal`, a mutation that fails leaves the earlier ones in place.
RejectKeeps == /\ InEnactment /\ More
               /\ Refused(Text[Top.bill].target, Mutation, Top.quiet)
               /\ status' = [Top.status EXCEPT ![Top.bill] = "failed"]
               /\ stack' = Pop
               /\ UNCHANGED <<body, law, ballots, hook>>

\* Mutant: services.py `enact_proposal`, the failure not marked on the row.
RejectUnmarked == /\ InEnactment /\ More
                  /\ Refused(Text[Top.bill].target, Mutation, Top.quiet)
                  /\ law' = Top.law /\ status' = Top.status
                  /\ stack' = Pop
                  /\ UNCHANGED <<body, ballots, hook>>

\* One mutation is refused: the savepoint rolls back and the bill has failed.
Reject == /\ InEnactment /\ More
          /\ Refused(Text[Top.bill].target, Mutation, Top.quiet)
          /\ law' = Top.law
          /\ status' = [Top.status EXCEPT ![Top.bill] = "failed"]
          /\ stack' = Pop
          /\ UNCHANGED <<body, ballots, hook>>

Finish == /\ InEnactment /\ ~More
          /\ status' = [status EXCEPT ![Top.bill] = "enacted"]
          /\ stack' = Pop
          /\ hook' = (~Top.quiet /\ "enact" \in Watched)
          /\ UNCHANGED <<body, law, ballots>>

\* A government orders a write itself, by an intent of its own.
Order(g, w) == /\ Quiet /\ Permitted(g, w, FALSE) /\ law[w[1]] # w[2]
               /\ law' = [law EXCEPT ![w[1]] = w[2]]
               /\ hook' = ("order" \in Watched)
               /\ UNCHANGED <<body, status, ballots, stack>>

\* What a hook does, under suppression: nothing, a write, or an enactment.
HookRests == hook /\ hook' = FALSE /\ UNCHANGED <<body, law, status, ballots, stack>>
HookOrders(g, w) == /\ hook /\ Permitted(g, w, TRUE)
                    /\ law' = [law EXCEPT ![w[1]] = w[2]]
                    /\ hook' = FALSE
                    /\ UNCHANGED <<body, status, ballots, stack>>
HookEnacts(b) == hook /\ Tally(b, TRUE) /\ hook' = FALSE
-----------------------------------------------------------------------------
Init == /\ alive = Person
        /\ shares = [p \in Person |-> 1]
        /\ \E w \in Worlds : graph = w.graph /\ roll = w.roll /\ form = w.form
        /\ law = Founding
        /\ status = [b \in Bill |-> "none"]
        /\ ballots = [b \in Bill |-> [p \in Person |-> NoBallot]]
        /\ stack = <<>> /\ hook = FALSE /\ stirs = 0

Life == \/ \E p \in Mortal : Die(p)
        \/ \E d \in Dealings : Trade(d[1], d[2])
        \/ \E g \in Graphs : SetDelegations(g)
        \/ \E r \in Rolls : SetRegister(r)
Politics == \E b \in Bill, p \in Person :
               \/ Propose(b, p)
               \/ \E c \in Choice : Vote(b, p, c)
Enactment == \/ \E b \in Bill : Enact(b)
             \/ Apply \/ Reject \/ Finish
Hooks == \/ HookRests
         \/ \E g \in Government, w \in HookWrites : HookOrders(g, w)
         \/ \E b \in Bill : HookEnacts(b)

Next == \/ Life \/ Politics \/ Enactment \/ Hooks
        \/ \E g \in Government, w \in Orders : Order(g, w)

Spec == Init /\ [][Next]_vars

\* An enactment is one transaction and hooks run to their end; the clerk, or
\* the operator's sweep (econ/api/governance.py), tries every open bill again
\* and again.
FairSpec == /\ Spec
            /\ WF_vars(Apply \/ Reject \/ Finish)
            /\ WF_vars(Hooks)
            /\ \A b \in Bill : SF_vars(Enact(b))
-----------------------------------------------------------------------------
(* Properties *)

Statuses == {"none", "open", "enacted", "failed"}
Ballot == [choice : Choice \union {"none"}, weight : Nat]
Frame == [bill : Bill, at : Nat \ {0}, quiet : BOOLEAN,
          law : [Topic -> Nat], status : [Bill -> Statuses]]

\* Every variable has its type, and enactments nest at most once.
TypeOK == /\ alive \subseteq Person
          /\ shares \in [Person -> Nat]
          /\ graph \in Graphs /\ roll \in Rolls /\ \E w \in Worlds : form = w.form
          /\ law \in [Topic -> Nat]
          /\ status \in [Bill -> Statuses]
          /\ ballots \in [Bill -> [Person -> Ballot]]
          /\ stack \in Seq(Frame) /\ Len(stack) <= 2
          /\ \A i \in DOMAIN stack : stack[i].at <= Len(Mutations(stack[i].bill)) + 1
          /\ hook \in BOOLEAN /\ stirs \in Nat

\* The persons whose chains of delegation end at v: the least set that holds v
\* and every living person who delegates into it.
Constituency(v) ==
    {p \in alive : \A S \in SUBSET alive :
        (v \in S /\ \A q \in alive \intersect DOMAIN graph : graph[q] \in S => q \in S)
            => p \in S}

\* Liquid democracy counts every living person at most once: a living person
\* who does not delegate weighs what his constituency has heads, anybody else
\* nothing (weights.py, _liquid_resolve_weights), whatever cycles and dead
\* delegates the register holds.
LiquidIsSound ==
    \A p \in Person : WeightOf("liquid", p) =
        IF p \in alive \ DOMAIN graph THEN Cardinality(Constituency(p)) ELSE 0

\* What is visible outside the transaction.
CommittedLaw == IF stack = <<>> THEN law ELSE stack[1].law
CommittedStatus == IF stack = <<>> THEN status ELSE stack[1].status

Lawmaking == INSTANCE Statute WITH law <- CommittedLaw, status <- CommittedStatus

\* Lawmaking keeps the promise of Statute: a bill changes everything it says
\* or nothing, though it is applied mutation by mutation, may be refused at any
\* of them, and hooks fired in between may enact it, or another bill, again.
AllOrNothing == Lawmaking!Spec

\* A bill that is enacted, in a hook too, was cast over its own threshold, and
\* an amendment over the floor in force before it, whatever the mutations and
\* the hooks in between made of the floor: no bill lowers its own bar
\* (services.py, enact_proposal).
FloorInForce ==
    (InEnactment /\ stack' = Pop /\ status'[Top.bill] = "enacted")
    => LET b == Top.bill IN
       /\ Cast(b, "for") * 100 >= Text[b].threshold * Turnout(b)
       /\ Text[b].tier = "constitutional" => Cast(b, "for") * 100 >= Top.law[Floor] * Turnout(b)

\* A power is gained only while somebody may grant powers: once the last
\* holder of grant_capability has given it up, no bill already open, no hook
\* and no order confers a power again (services.py, grant_capability, and the
\* capability gate of scripting.resolve_intent).
NoPowerFromNothing ==
    (\A g \in Government : CommittedLaw[Holding(g, "grant_capability")] # 1)
    => \A g \in Government, c \in Power :
          CommittedLaw'[Holding(g, c)] = 1 => CommittedLaw[Holding(g, c)] = 1

\* Nobody legislates past the constitution in force: an amendment clears the old
\* bar, and a power nobody may grant is not granted (services.py, enact_proposal
\* and grant_capability).
BarsHold == [][FloorInForce /\ NoPowerFromNothing]_vars

\* Every open bill is decided, if its target keeps the power to enact it.
BillsAreDecided == \A b \in Bill : (status[b] = "open") ~> ~MayEnact(b)

\* Doc: models/proposal.py:79 calls the quorum a "fraction of the electorate
\* that must cast a vote": what was cast cannot outweigh the electorate.
TurnoutIsAFraction ==
    \A b \in Bill : status[b] = "open" => Turnout(b) <= ElectorateTotal(form[b])
=============================================================================
