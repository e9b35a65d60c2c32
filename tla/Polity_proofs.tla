--------------------------- MODULE Polity_proofs ---------------------------
(* Governance, for any persons, governments, bills, hooks and electorates: *)
(* every variable keeps its type, a decision is all or nothing (lawmaking  *)
(* implements Statute), nobody legislates past the constitution in force,  *)
(* and liquid democracy counts every living person at most once.           *)
EXTENDS Polity, SequenceTheorems, Totals_proofs

(* What a set of writes assigns.                                           *)
LEMMA ValueOf ==
  ASSUME NEW S \in SUBSET (Topic \X Nat), NEW t, NEW v
  PROVE  v \in Lawmaking!Values(S, t) <=> <<t, v>> \in S
<1>1. ASSUME v \in Lawmaking!Values(S, t) PROVE <<t, v>> \in S
  <2>1. PICK w \in S : w[1] = t /\ w[2] = v
    BY <1>1 DEF Lawmaking!Values
  <2>2. w = <<w[1], w[2]>>
    BY <2>1
  <2> QED BY <2>1, <2>2
<1>2. ASSUME <<t, v>> \in S PROVE v \in Lawmaking!Values(S, t)
  <2>1. <<t, v>>[1] = t /\ <<t, v>>[2] = v
    OBVIOUS
  <2> QED BY <1>2, <2>1 DEF Lawmaking!Values
<1> QED BY <1>1, <1>2

LEMMA WritesType ==
  \A b \in Bill : Mutations(b) \in Seq(Topic \X Nat) /\ Writes[b] \in SUBSET (Topic \X Nat)
BY PolityAssumption DEF Writes

-----------------------------------------------------------------------------
(* The inductive invariant.  Between its beginning and its end an          *)
(* enactment has moved the law by the mutations applied so far, by the     *)
(* bills enacted inside it and by hooks, and has decided open bills only.  *)

Applied(f) == {Mutations(f.bill)[i] : i \in 1..(f.at - 1)}
NewlyEnacted(s, u) == {b \in Bill : s[b] = "open" /\ u[b] = "enacted"}
WritesOf(B) == UNION {Writes[b] : b \in B}

Evolves(l, m, W) ==
    \A t \in Topic : \/ <<t, m[t]>> \in W
                     \/ <<t, m[t]>> \in HookWrites
                     \/ m[t] = l[t] /\ \A v : <<t, v>> \notin W

Decides(s, u) ==
    \A b \in Bill : u[b] = s[b] \/ (s[b] = "open" /\ u[b] \in {"enacted", "failed"})

Law == [Topic -> Nat]
Rows == [Bill -> Statuses]
FrameOK(f) == /\ f.bill \in Bill /\ f.at \in 1..(Len(Mutations(f.bill)) + 1)
              /\ f.law \in Law /\ f.status \in Rows /\ f.status[f.bill] = "open"
              /\ f.quiet \in BOOLEAN
              /\ f = [bill |-> f.bill, at |-> f.at, quiet |-> f.quiet,
                      law |-> f.law, status |-> f.status]

One(f, l, s) == /\ FrameOK(f)
                /\ Decides(f.status, s)
                /\ Evolves(f.law, l, Applied(f) \union WritesOf(NewlyEnacted(f.status, s)))
Two(f, g, l, s) == /\ One(f, g.law, g.status)
                   /\ FrameOK(g) /\ g.quiet = TRUE /\ s = g.status
                   /\ Evolves(g.law, l, Applied(g))

IInv == /\ law \in Law /\ status \in Rows /\ hook \in BOOLEAN
        /\ \/ stack = <<>>
           \/ \E f : stack = <<f>> /\ One(f, law, status)
           \/ \E f, g : stack = <<f, g>> /\ Two(f, g, law, status) /\ hook = FALSE
-----------------------------------------------------------------------------
LEMMA EvolvesNot ==
  ASSUME NEW l
  PROVE  Evolves(l, l, {})
BY DEF Evolves

LEMMA EvolvesWrite ==
  ASSUME NEW l, NEW m \in Law, NEW W, NEW t \in Topic, NEW v \in Nat,
         NEW n, n = [m EXCEPT ![t] = v], Evolves(l, m, W)
  PROVE  Evolves(l, n, W \union {<<t, v>>})
<1>1. n[t] = v /\ \A u \in Topic \ {t} : n[u] = m[u]
  BY DEF Law
<1>2. ASSUME NEW u \in Topic
      PROVE  \/ <<u, n[u]>> \in W \union {<<t, v>>}
             \/ <<u, n[u]>> \in HookWrites
             \/ n[u] = l[u] /\ \A x : <<u, x>> \notin W \union {<<t, v>>}
  <2>1. CASE u = t
    BY <1>1, <2>1
  <2>2. CASE u # t
    <3>1. n[u] = m[u] /\ \A x : <<u, x>> # <<t, v>>
      BY <1>1, <2>2
    <3> QED BY <3>1 DEF Evolves
  <2> QED BY <2>1, <2>2
<1> QED BY <1>2 DEF Evolves

LEMMA EvolvesHook ==
  ASSUME NEW l, NEW m \in Law, NEW W, NEW w \in HookWrites,
         NEW n, n[w[1]] = w[2], \A u \in Topic \ {w[1]} : n[u] = m[u], Evolves(l, m, W)
  PROVE  Evolves(l, n, W)
<1>1. w[1] \in Topic /\ w = <<w[1], w[2]>>
  BY PolityAssumption
<1>2. n[w[1]] = w[2] /\ \A u \in Topic \ {w[1]} : n[u] = m[u]
  OBVIOUS
<1>3. ASSUME NEW u \in Topic
      PROVE  \/ <<u, n[u]>> \in W
             \/ <<u, n[u]>> \in HookWrites
             \/ n[u] = l[u] /\ \A x : <<u, x>> \notin W
  BY <1>1, <1>2 DEF Evolves
<1> QED BY <1>3 DEF Evolves

LEMMA EvolvesOn ==
  ASSUME NEW l, NEW m, NEW n, NEW V, NEW W, Evolves(l, m, V), Evolves(m, n, W)
  PROVE  Evolves(l, n, V \union W)
<1>1. ASSUME NEW u \in Topic
      PROVE  \/ <<u, n[u]>> \in V \union W
             \/ <<u, n[u]>> \in HookWrites
             \/ n[u] = l[u] /\ \A x : <<u, x>> \notin V \union W
  <2>1. \/ <<u, n[u]>> \in W
        \/ <<u, n[u]>> \in HookWrites
        \/ n[u] = m[u] /\ \A x : <<u, x>> \notin W
    BY DEF Evolves
  <2>2. \/ <<u, m[u]>> \in V
        \/ <<u, m[u]>> \in HookWrites
        \/ m[u] = l[u] /\ \A x : <<u, x>> \notin V
    BY DEF Evolves
  <2>3. CASE n[u] = m[u] /\ \A x : <<u, x>> \notin W
    <3>1. CASE <<u, m[u]>> \in V \/ <<u, m[u]>> \in HookWrites
      BY <2>3, <3>1
    <3>2. CASE m[u] = l[u] /\ \A x : <<u, x>> \notin V
      BY <2>3, <3>2
    <3> QED BY <2>2, <3>1, <3>2
  <2> QED BY <2>1, <2>3
<1> QED BY <1>1 DEF Evolves

LEMMA DecidesNot ==
  ASSUME NEW s
  PROVE  Decides(s, s) /\ NewlyEnacted(s, s) = {}
BY DEF Decides, NewlyEnacted

LEMMA DecidesEnacted ==
  ASSUME NEW s, NEW u, Decides(s, u), NEW b \in Bill, s[b] = "open",
         NEW w, w[b] = "enacted", \A c \in Bill \ {b} : w[c] = u[c]
  PROVE  Decides(s, w) /\ NewlyEnacted(s, w) = NewlyEnacted(s, u) \union {b}
BY DEF Decides, NewlyEnacted

LEMMA MarkEnacted ==
  ASSUME NEW u \in Rows, NEW b \in Bill
  PROVE  /\ [u EXCEPT ![b] = "enacted"] \in Rows
         /\ [u EXCEPT ![b] = "enacted"][b] = "enacted"
         /\ \A c \in Bill \ {b} : [u EXCEPT ![b] = "enacted"][c] = u[c]
BY DEF Rows, Statuses

LEMMA DecidesFailed ==
  ASSUME NEW s, NEW u \in Rows, Decides(s, u), NEW b \in Bill, u[b] = "open",
         NEW w, w = [u EXCEPT ![b] = "failed"]
  PROVE  /\ w \in Rows /\ Decides(s, w)
         /\ NewlyEnacted(s, w) = NewlyEnacted(s, u)
<1>1. w[b] = "failed" /\ \A c \in Bill \ {b} : w[c] = u[c]
  BY DEF Rows
<1>2. w \in Rows
  BY DEF Rows, Statuses
<1> QED BY <1>1, <1>2 DEF Decides, NewlyEnacted

LEMMA AppliedNone ==
  ASSUME NEW f, f.at = 1
  PROVE  Applied(f) = {}
BY DEF Applied

LEMMA AppliedOne ==
  ASSUME NEW f, FrameOK(f), f.at <= Len(Mutations(f.bill)),
         NEW g, g.bill = f.bill, g.at = f.at + 1
  PROVE  /\ Mutations(f.bill)[f.at] \in Topic \X Nat
         /\ Applied(g) = Applied(f) \union {Mutations(f.bill)[f.at]}
<1>1. f.at \in Nat /\ f.at >= 1 /\ Mutations(f.bill) \in Seq(Topic \X Nat)
  BY WritesType DEF FrameOK
<1>2. 1..(g.at - 1) = 1..(f.at - 1) \union {f.at}
  BY <1>1
<1> QED BY <1>1, <1>2 DEF Applied

LEMMA AppliedAll ==
  ASSUME NEW f, FrameOK(f), ~(f.at <= Len(Mutations(f.bill)))
  PROVE  Applied(f) = Writes[f.bill]
<1>1. f.at \in Nat /\ f.bill \in Bill /\ Mutations(f.bill) \in Seq(Topic \X Nat)
  BY WritesType DEF FrameOK
<1>2. f.at - 1 = Len(Mutations(f.bill))
  BY <1>1 DEF FrameOK
<1>3. DOMAIN Mutations(f.bill) = 1..(f.at - 1)
  BY <1>1, <1>2
<1> QED BY <1>1, <1>3 DEF Applied, Writes

LEMMA OneFrame ==
  ASSUME NEW f, stack = <<f>>
  PROVE  stack # <<>> /\ Len(stack) = 1 /\ Top = f /\ Pop = <<>>
BY DEF Top, Pop

LEMMA AppendToOne ==
  ASSUME NEW f, NEW g
  PROVE  Append(<<f>>, g) = <<f, g>>
<1>1. <<f>> \in Seq({f, g}) /\ g \in {f, g} /\ Len(<<f>>) = 1 /\ <<f>>[1] = f
  OBVIOUS
<1>2. <<f, g>> \in Seq({f, g}) /\ Len(<<f, g>>) = 2 /\ <<f, g>>[1] = f /\ <<f, g>>[2] = g
  OBVIOUS
<1>3. /\ Append(<<f>>, g) \in Seq({f, g}) /\ Len(Append(<<f>>, g)) = 2
      /\ Append(<<f>>, g)[1] = f /\ Append(<<f>>, g)[2] = g
  <2>1. /\ Append(<<f>>, g) \in Seq({f, g}) /\ Len(Append(<<f>>, g)) = Len(<<f>>) + 1
        /\ \A i \in 1..Len(<<f>>) : Append(<<f>>, g)[i] = <<f>>[i]
        /\ Append(<<f>>, g)[Len(<<f>>) + 1] = g
    BY <1>1, AppendProperties
  <2> QED BY <1>1, <2>1
<1>4. \A i \in 1..2 : Append(<<f>>, g)[i] = <<f, g>>[i]
  <2>1. \A i \in 1..2 : i = 1 \/ i = 2
    OBVIOUS
  <2> QED BY <1>2, <1>3, <2>1
<1> QED BY <1>2, <1>3, <1>4, SeqEqual

LEMMA TwoFrames ==
  ASSUME NEW f, NEW g, stack = <<f, g>>
  PROVE  stack # <<>> /\ Len(stack) = 2 /\ Top = g /\ Pop = <<f>>
<1>1. stack # <<>> /\ Len(stack) = 2 /\ stack[2] = g /\ stack[1] = f
  OBVIOUS
<1>2. SubSeq(stack, 1, 1) \in Seq({f}) /\ Len(SubSeq(stack, 1, 1)) = 1 /\ SubSeq(stack, 1, 1)[1] = f
  <2>1. \A i \in 1..1 : stack[i] \in {f}
    BY <1>1
  <2>2. /\ SubSeq(stack, 1, 1) \in Seq({f})
        /\ Len(SubSeq(stack, 1, 1)) = IF 1 <= 1 THEN 1 - 1 + 1 ELSE 0
        /\ \A i \in 1..(1 - 1 + 1) : SubSeq(stack, 1, 1)[i] = stack[1 + i - 1]
    BY <2>1, SubSeqProperties
  <2> QED BY <1>1, <2>2
<1>3. SubSeq(stack, 1, 1) = <<f>>
  <2>1. <<f>> \in Seq({f}) /\ Len(<<f>>) = 1 /\ <<f>>[1] = f
    OBVIOUS
  <2>2. \A i \in 1..1 : SubSeq(stack, 1, 1)[i] = <<f>>[i]
    BY <1>2, <2>1
  <2> QED BY <1>2, <2>1, <2>2, SeqEqual
<1> QED BY <1>1, <1>3 DEF Top, Pop

-----------------------------------------------------------------------------
(* Three steps of the visible state that Statute allows.                   *)

LEMMA AbstractOpen ==
  ASSUME stack = <<>>, stack' = <<>>, law' = law,
         NEW b \in Bill, status[b] = "none", status' = [status EXCEPT ![b] = "open"]
  PROVE  Lawmaking!Next
BY DEF CommittedLaw, CommittedStatus, Lawmaking!Next, Lawmaking!Open

LEMMA AbstractOrder ==
  ASSUME stack = <<>>, stack' = <<>>, status' = status, law \in Law,
         NEW g \in Government, NEW w \in Topic \X Nat, Licensed(g, w),
         law' = [law EXCEPT ![w[1]] = w[2]]
  PROVE  Lawmaking!Next /\ law' \in Law
<1>1. w[1] \in Topic /\ w[2] \in Nat
  OBVIOUS
<1>2. law' \in [Topic -> Nat] /\ \A u \in Topic \ {w[1]} : law'[u] = law[u]
  BY <1>1 DEF Law
<1>3. Holding(g, Needs(w[1])) \in Licences[w[1]]
  BY <1>1 DEF Licences
<1>4. \E k \in Licences[w[1]] : law[k] = 1
  BY <1>3 DEF Licensed
<1>5. CommittedLaw = law /\ CommittedLaw' = law' /\ CommittedStatus = status /\ CommittedStatus' = status'
  BY DEF CommittedLaw, CommittedStatus
<1>6. Lawmaking!Order(w[1])
  BY <1>2, <1>4, <1>5 DEF Lawmaking!Order
<1> QED BY <1>1, <1>2, <1>6 DEF Lawmaking!Next, Law

LEMMA AbstractDecide ==
  ASSUME stack' = <<>>, CommittedStatus \in Rows, CommittedLaw \in Law,
         law' \in Law, status' \in Rows, Decides(CommittedStatus, status'),
         NEW b \in Bill, CommittedStatus[b] = "open", status'[b] # "open",
         \/ NewlyEnacted(CommittedStatus, status') = {} /\ law' = CommittedLaw
         \/ /\ NewlyEnacted(CommittedStatus, status') # {}
            /\ Evolves(CommittedLaw, law', WritesOf(NewlyEnacted(CommittedStatus, status')))
  PROVE  Lawmaking!Next
<1> DEFINE E == NewlyEnacted(CommittedStatus, status')
<1>1. CommittedLaw' = law' /\ CommittedStatus' = status'
  BY DEF CommittedLaw, CommittedStatus
<1>2. Lawmaking!Enacted = E /\ Lawmaking!Enacted \subseteq Lawmaking!Decided
  BY <1>1 DEF Lawmaking!Enacted, Lawmaking!Decided, NewlyEnacted
<1>3. Lawmaking!Decided # {} /\ \A c \in Lawmaking!Decided : CommittedStatus[c] = "open"
  BY <1>1 DEF Lawmaking!Decided
<1>4. CommittedStatus' = [c \in Bill |-> IF c \in E THEN "enacted"
                          ELSE IF c \in Lawmaking!Decided THEN "failed" ELSE CommittedStatus[c]]
  <2>1. \A c \in Bill : status'[c] = IF c \in E THEN "enacted"
                          ELSE IF c \in Lawmaking!Decided THEN "failed" ELSE CommittedStatus[c]
    BY <1>1 DEF Decides, NewlyEnacted, Lawmaking!Decided
  <2> QED BY <1>1, <2>1 DEF Rows
<1>5. ASSUME E # {}, NEW t \in Topic PROVE Lawmaking!Effect(E, t)
  <2>1. Evolves(CommittedLaw, law', WritesOf(E))
    BY <1>5
  <2>2. E \subseteq Bill
    BY DEF NewlyEnacted
  <2>3. WritesOf(E) \in SUBSET (Topic \X Nat) /\ HookWrites \in SUBSET (Topic \X Nat)
    BY <2>2, WritesType, PolityAssumption DEF WritesOf
  <2>4. \A v : v \in Lawmaking!Values(HookWrites, t) <=> <<t, v>> \in HookWrites
    BY <2>3, ValueOf
  <2>5. \A v : v \in Lawmaking!WrittenBy(E, t) <=> <<t, v>> \in WritesOf(E)
    <3>1. \A v : v \in Lawmaking!Values(WritesOf(E), t) <=> <<t, v>> \in WritesOf(E)
      BY <2>3, ValueOf
    <3> QED BY <3>1 DEF Lawmaking!WrittenBy, WritesOf
  <2>6. \/ <<t, law'[t]>> \in WritesOf(E)
        \/ <<t, law'[t]>> \in HookWrites
        \/ law'[t] = CommittedLaw[t] /\ \A v : <<t, v>> \notin WritesOf(E)
    BY <2>1 DEF Evolves
  <2>7. CASE law'[t] = CommittedLaw[t] /\ \A v : <<t, v>> \notin WritesOf(E)
    BY <1>1, <2>5, <2>7 DEF Lawmaking!Effect
  <2>8. CASE <<t, law'[t]>> \in WritesOf(E)
    BY <1>1, <2>5, <2>8 DEF Lawmaking!Effect
  <2>9. CASE <<t, law'[t]>> \in HookWrites
    BY <1>1, <1>5, <2>4, <2>9 DEF Lawmaking!Effect
  <2> QED BY <2>6, <2>7, <2>8, <2>9
<1>6. IF E = {} THEN CommittedLaw' = CommittedLaw ELSE \A t \in Topic : Lawmaking!Effect(E, t)
  <2>1. CASE E = {}
    BY <1>1, <2>1
  <2>2. CASE E # {}
    BY <1>5, <2>2
  <2> QED BY <2>1, <2>2
<1>7. Lawmaking!Decide(Lawmaking!Decided, E)
  <2> HIDE DEF E
  <2> QED BY <1>1, <1>2, <1>3, <1>4, <1>6 DEF Lawmaking!Decide, Law
<1> QED BY <1>2, <1>7 DEF Lawmaking!Next

-----------------------------------------------------------------------------
(* Every step keeps the invariant and is a step of Statute, or none that   *)
(* can be seen from outside the transaction.                               *)

Unseen == UNCHANGED <<CommittedLaw, CommittedStatus>>
Good == IInv' /\ (Unseen \/ Lawmaking!Next)

LEMMA StillUnseen ==
  ASSUME NEW f, NEW g, stack = <<f>> \/ stack = <<f, g>>,
         NEW h, h.law = f.law, h.status = f.status, NEW i,
         stack' = <<h>> \/ stack' = <<h, i>>
  PROVE  Unseen
<1>1. stack # <<>> /\ stack[1] = f
  OBVIOUS
<1>2. stack' # <<>> /\ stack'[1] = h
  OBVIOUS
<1> QED BY <1>1, <1>2 DEF Unseen, CommittedLaw, CommittedStatus

LEMMA Idle ==
  ASSUME IInv, UNCHANGED <<law, status, stack>>, stack = <<>>, hook' \in BOOLEAN
  PROVE  Good
<1>1. IInv'
  BY DEF IInv
<1>2. Unseen
  BY DEF Unseen, CommittedLaw, CommittedStatus
<1> QED BY <1>1, <1>2 DEF Good

LEMMA ProposeGood ==
  ASSUME IInv, NEW b \in Bill, NEW p \in Person, Propose(b, p)
  PROVE  Good
<1>1. /\ stack = <<>> /\ stack' = <<>> /\ law' = law /\ status[b] = "none"
      /\ status' = [status EXCEPT ![b] = "open"] /\ hook' \in BOOLEAN
  BY DEF Propose, Quiet, MayPropose
<1>2. Lawmaking!Next
  BY <1>1, AbstractOpen
<1>3. IInv'
  BY <1>1 DEF IInv, Rows, Statuses
<1> QED BY <1>2, <1>3 DEF Good

LEMMA OrderGood ==
  ASSUME IInv, stack = <<>>, NEW g \in Government, NEW w \in Topic \X Nat, Licensed(g, w),
         law' = [law EXCEPT ![w[1]] = w[2]], UNCHANGED <<status, stack>>, hook' \in BOOLEAN
  PROVE  Good
<1>1. law \in Law
  BY DEF IInv
<1>2. Lawmaking!Next /\ law' \in Law
  BY <1>1, AbstractOrder
<1>3. IInv'
  BY <1>2 DEF IInv
<1> QED BY <1>2, <1>3 DEF Good

(* A tally, asked for from outside or by a hook.                           *)
LEMMA TallyGood ==
  ASSUME IInv, NEW b \in Bill, NEW quiet \in BOOLEAN, Tally(b, quiet),
         \/ stack = <<>> /\ UNCHANGED hook
         \/ hook /\ quiet = TRUE /\ hook' = FALSE
  PROVE  Good
<1> DEFINE h == [bill |-> b, at |-> 1, quiet |-> quiet, law |-> law, status |-> status]
<1>1. status[b] = "open" /\ law' = law /\ law \in Law /\ status \in Rows /\ hook' \in BOOLEAN
  BY DEF Tally, MayEnact, IInv
<1>2. FrameOK(h) /\ Applied(h) = {}
  <2>1. Len(Mutations(b)) \in Nat
    BY WritesType
  <2> QED BY <1>1, <2>1, AppliedNone DEF FrameOK
<1>3. CASE stack = <<>> /\ Passes(b)
  <2>1. stack' = <<h>> /\ status' = status
    BY <1>3 DEF Tally
  <2>2. One(h, law, status)
    <3>1. Decides(h.status, status) /\ NewlyEnacted(h.status, status) = {}
      BY DecidesNot
    <3>2. Applied(h) \union WritesOf(NewlyEnacted(h.status, status)) = {}
      BY <1>2, <3>1 DEF WritesOf
    <3>3. Evolves(h.law, law, {})
      BY EvolvesNot
    <3> HIDE DEF h
    <3> QED BY <1>2, <3>1, <3>2, <3>3 DEF One
  <2>3. IInv'
    <3> HIDE DEF h
    <3>1. One(h, law', status')
      BY <1>1, <2>1, <2>2
    <3> QED BY <1>1, <2>1, <3>1 DEF IInv
  <2>4. Unseen
    BY <1>1, <1>3, <2>1 DEF Unseen, CommittedLaw, CommittedStatus
  <2> QED BY <2>3, <2>4 DEF Good
<1>4. CASE stack = <<>> /\ ~Passes(b)
  <2>1. stack' = <<>> /\ status' = [status EXCEPT ![b] = "failed"]
    BY <1>4 DEF Tally
  <2>2. CommittedLaw = law /\ CommittedStatus = status
    BY <1>4 DEF CommittedLaw, CommittedStatus
  <2>3. status' \in Rows /\ Decides(status, status') /\ NewlyEnacted(status, status') = {}
    <3>1. Decides(status, status) /\ NewlyEnacted(status, status) = {}
      BY DecidesNot
    <3> QED BY <1>1, <2>1, <3>1, DecidesFailed
  <2>4. status'[b] # "open"
    BY <1>1, <2>1 DEF Rows
  <2>5. Lawmaking!Next
    BY <1>1, <2>1, <2>2, <2>3, <2>4, AbstractDecide
  <2>6. IInv'
    BY <1>1, <2>1, <2>3 DEF IInv
  <2> QED BY <2>5, <2>6 DEF Good
<1>5. CASE stack # <<>>
  <2>1. hook /\ quiet = TRUE /\ hook' = FALSE
    BY <1>5
  <2>2. PICK f : stack = <<f>> /\ One(f, law, status)
    BY <1>5, <2>1 DEF IInv, Two
  <2>3. CASE Passes(b)
    <3>1. stack' = Append(stack, h) /\ status' = status
      BY <2>3 DEF Tally
    <3>2. stack' = <<f, h>>
      <4> HIDE DEF h
      <4> QED BY <2>2, <3>1, AppendToOne
    <3>3. h.law = law /\ h.status = status /\ h.quiet = TRUE
      BY <2>1
    <3>4. IInv'
      <4> HIDE DEF h
      <4>1. Evolves(h.law, law', Applied(h))
        BY <1>1, <1>2, <3>3, EvolvesNot
      <4>2. Two(f, h, law', status')
        BY <1>2, <2>2, <3>1, <3>3, <4>1 DEF Two
      <4> QED BY <1>1, <2>1, <3>1, <3>2, <4>2 DEF IInv
    <3>5. Unseen
      <4> HIDE DEF h
      <4> QED BY <2>2, <3>2, StillUnseen
    <3> QED BY <3>4, <3>5 DEF Good
  <2>4. CASE ~Passes(b)
    <3>1. stack' = <<f>> /\ status' = [status EXCEPT ![b] = "failed"]
      BY <2>2, <2>4 DEF Tally
    <3>2. /\ status' \in Rows /\ Decides(f.status, status')
          /\ NewlyEnacted(f.status, status') = NewlyEnacted(f.status, status)
      BY <1>1, <2>2, <3>1, DecidesFailed DEF One
    <3>3. One(f, law', status')
      BY <1>1, <2>2, <3>2 DEF One
    <3>4. IInv'
      BY <1>1, <2>1, <3>1, <3>2, <3>3 DEF IInv
    <3>5. Unseen
      BY <2>2, <3>1, StillUnseen
    <3> QED BY <3>4, <3>5 DEF Good
  <2> QED BY <2>3, <2>4
<1> QED BY <1>3, <1>4, <1>5

(* A mutation is applied: the law moves by one write of the bill.          *)
LEMMA ApplyGood ==
  ASSUME IInv, Apply
  PROVE  Good
<1>1. /\ stack # <<>> /\ ~hook /\ More /\ status' = status /\ hook' \in BOOLEAN
      /\ Top.quiet = TRUE => hook' = FALSE
      /\ law' = [law EXCEPT ![Mutation[1]] = Mutation[2]]
      /\ stack' = Append(Pop, [Top EXCEPT !.at = @ + 1])
      /\ law \in Law /\ status \in Rows
  BY DEF Apply, InEnactment, IInv
<1> DEFINE next(f) == [bill |-> f.bill, at |-> f.at + 1, quiet |-> f.quiet,
                       law |-> f.law, status |-> f.status]
<1>2. ASSUME NEW f, Top = f, FrameOK(f)
      PROVE  /\ FrameOK(next(f)) /\ [Top EXCEPT !.at = @ + 1] = next(f)
             /\ Mutation \in Topic \X Nat
             /\ Applied(next(f)) = Applied(f) \union {Mutation}
  <2>1. f.at <= Len(Mutations(f.bill)) /\ Mutation = Mutations(f.bill)[f.at]
    BY <1>1, <1>2 DEF More, Mutation
  <2>2. Mutation \in Topic \X Nat /\ Applied(next(f)) = Applied(f) \union {Mutation}
    BY <1>2, <2>1, AppliedOne
  <2>3. Len(Mutations(f.bill)) \in Nat
    BY <1>2, WritesType DEF FrameOK
  <2>4. FrameOK(next(f))
    BY <1>2, <2>1, <2>3 DEF FrameOK
  <2>5. [Top EXCEPT !.at = @ + 1] = next(f)
    BY <1>2 DEF FrameOK
  <2> QED BY <2>2, <2>4, <2>5
<1>3. ASSUME NEW l, NEW W, Mutation \in Topic \X Nat, Evolves(l, law, W)
      PROVE  law' \in Law /\ Evolves(l, law', W \union {Mutation})
  <2>1. Mutation[1] \in Topic /\ Mutation[2] \in Nat /\ Mutation = <<Mutation[1], Mutation[2]>>
    BY <1>3
  <2>2. law' \in Law
    BY <1>1, <2>1 DEF Law
  <2>3. Evolves(l, law', W \union {<<Mutation[1], Mutation[2]>>})
    BY <1>1, <1>3, <2>1, EvolvesWrite
  <2> QED BY <2>1, <2>2, <2>3
<1>4. CASE \E f : stack = <<f>> /\ One(f, law, status)
  <2>1. PICK f : stack = <<f>> /\ One(f, law, status)
    BY <1>4
  <2>2. Top = f /\ Pop = <<>> /\ FrameOK(f)
    BY <2>1, OneFrame DEF One
  <2>3. /\ FrameOK(next(f)) /\ [Top EXCEPT !.at = @ + 1] = next(f)
        /\ Mutation \in Topic \X Nat
        /\ Applied(next(f)) = Applied(f) \union {Mutation}
    BY <1>2, <2>2
  <2>4. next(f).law = f.law /\ next(f).status = f.status
    OBVIOUS
  <2> DEFINE g == next(f)
             N == WritesOf(NewlyEnacted(f.status, status))
  <2>5. /\ FrameOK(g) /\ stack' = <<g>> /\ g.law = f.law /\ g.status = f.status
        /\ Applied(g) = Applied(f) \union {Mutation}
    BY <1>1, <2>2, <2>3, <2>4
  <2> HIDE DEF g
  <2>6. law' \in Law /\ Evolves(f.law, law', (Applied(f) \union N) \union {Mutation})
    BY <1>3, <2>1, <2>3 DEF One
  <2>7. (Applied(f) \union N) \union {Mutation} = Applied(g) \union N
    BY <2>5
  <2>8. Evolves(f.law, law', Applied(g) \union N)
    BY <2>6, <2>7
  <2>9. One(g, law', status')
    BY <1>1, <2>1, <2>5, <2>8 DEF One
  <2>10. IInv'
    BY <1>1, <2>5, <2>6, <2>9 DEF IInv
  <2>11. Unseen
    BY <2>1, <2>5, StillUnseen
  <2> QED BY <2>10, <2>11 DEF Good
<1>5. CASE \E e, f : stack = <<e, f>> /\ Two(e, f, law, status) /\ hook = FALSE
  <2>1. PICK e, f : stack = <<e, f>> /\ Two(e, f, law, status)
    BY <1>5
  <2>2. Top = f /\ Pop = <<e>> /\ FrameOK(f)
    BY <2>1, TwoFrames DEF Two
  <2>3. /\ FrameOK(next(f)) /\ [Top EXCEPT !.at = @ + 1] = next(f)
        /\ Mutation \in Topic \X Nat
        /\ Applied(next(f)) = Applied(f) \union {Mutation}
    BY <1>2, <2>2
  <2>4. next(f).law = f.law /\ next(f).status = f.status /\ next(f).quiet = f.quiet
    OBVIOUS
  <2> DEFINE g == next(f)
  <2>5. /\ FrameOK(g) /\ stack' = Append(<<e>>, g) /\ g.law = f.law /\ g.status = f.status
        /\ g.quiet = f.quiet /\ Applied(g) = Applied(f) \union {Mutation}
    BY <1>1, <2>2, <2>3, <2>4
  <2> HIDE DEF g
  <2>6. stack' = <<e, g>>
    BY <2>5, AppendToOne
  <2>7. law' \in Law /\ Evolves(f.law, law', Applied(f) \union {Mutation})
    BY <1>3, <2>1, <2>3 DEF Two
  <2>8. Two(e, g, law', status')
    BY <1>1, <2>1, <2>5, <2>7 DEF Two
  <2>9. hook' = FALSE
    BY <1>1, <2>1, <2>2 DEF Two
  <2>10. IInv'
    BY <1>1, <2>6, <2>7, <2>8, <2>9 DEF IInv
  <2>11. Unseen
    BY <2>1, <2>6, StillUnseen
  <2> QED BY <2>10, <2>11 DEF Good
<1> QED BY <1>1, <1>4, <1>5 DEF IInv

(* A mutation is refused: law and statuses are those the enactment began   *)
(* with, but that the bill has failed.                                     *)
LEMMA RejectGood ==
  ASSUME IInv, Reject
  PROVE  Good
<1>1. /\ stack # <<>> /\ ~hook /\ hook' = hook /\ hook' \in BOOLEAN
      /\ law' = Top.law /\ status' = [Top.status EXCEPT ![Top.bill] = "failed"]
      /\ stack' = Pop
  BY DEF Reject, InEnactment, IInv
<1>2. CASE \E f : stack = <<f>> /\ One(f, law, status)
  <2>1. PICK f : stack = <<f>> /\ One(f, law, status)
    BY <1>2
  <2>2. Top = f /\ Pop = <<>> /\ FrameOK(f)
    BY <2>1, OneFrame DEF One
  <2>3. CommittedLaw = f.law /\ CommittedStatus = f.status
    BY <2>1 DEF CommittedLaw, CommittedStatus
  <2>4. Decides(f.status, f.status) /\ NewlyEnacted(f.status, f.status) = {}
    BY DecidesNot
  <2>5. status' \in Rows /\ Decides(f.status, status') /\ NewlyEnacted(f.status, status') = {}
    BY <1>1, <2>2, <2>4, DecidesFailed DEF FrameOK
  <2>6. status'[f.bill] # "open"
    BY <1>1, <2>2 DEF FrameOK, Rows
  <2>7. stack' = <<>> /\ law' = f.law /\ law' \in Law
    BY <1>1, <2>2 DEF FrameOK
  <2>8. f.bill \in Bill /\ f.status[f.bill] = "open" /\ f.status \in Rows
    BY <2>2 DEF FrameOK
  <2>9. Lawmaking!Next
    BY <2>3, <2>5, <2>6, <2>7, <2>8, AbstractDecide
  <2>10. IInv'
    BY <1>1, <2>5, <2>7 DEF IInv
  <2> QED BY <2>9, <2>10 DEF Good
<1>3. CASE \E e, f : stack = <<e, f>> /\ Two(e, f, law, status) /\ hook = FALSE
  <2>1. PICK e, f : stack = <<e, f>> /\ Two(e, f, law, status)
    BY <1>3
  <2>2. Top = f /\ Pop = <<e>> /\ FrameOK(f) /\ One(e, f.law, f.status)
    BY <2>1, TwoFrames DEF Two
  <2>3. stack' = <<e>> /\ law' = f.law /\ law' \in Law
    BY <1>1, <2>2 DEF FrameOK
  <2>4. /\ status' \in Rows /\ Decides(e.status, status')
        /\ NewlyEnacted(e.status, status') = NewlyEnacted(e.status, f.status)
    BY <1>1, <2>2, DecidesFailed DEF FrameOK, One
  <2>5. One(e, law', status')
    BY <2>2, <2>3, <2>4 DEF One
  <2>6. IInv'
    BY <1>1, <2>3, <2>4, <2>5 DEF IInv
  <2>7. Unseen
    BY <2>1, <2>3, StillUnseen
  <2> QED BY <2>6, <2>7 DEF Good
<1> QED BY <1>1, <1>2, <1>3 DEF IInv

LEMMA WritesOfOneMore ==
  ASSUME NEW B, NEW b
  PROVE  WritesOf(B \union {b}) = WritesOf(B) \union Writes[b]
BY DEF WritesOf

(* The last mutation is in: the bill is enacted.                           *)
LEMMA FinishGood ==
  ASSUME IInv, Finish
  PROVE  Good
<1>1. /\ stack # <<>> /\ ~hook /\ hook' \in BOOLEAN /\ ~More
      /\ law' = law /\ status' = [status EXCEPT ![Top.bill] = "enacted"]
      /\ stack' = Pop /\ law \in Law /\ status \in Rows
  BY DEF Finish, InEnactment, IInv
<1>2. CASE \E f : stack = <<f>> /\ One(f, law, status)
  <2>1. PICK f : stack = <<f>> /\ One(f, law, status)
    BY <1>2
  <2>2. Top = f /\ Pop = <<>> /\ FrameOK(f)
    BY <2>1, OneFrame DEF One
  <2>3. CommittedLaw = f.law /\ CommittedStatus = f.status /\ stack' = <<>>
    BY <1>1, <2>1, <2>2 DEF CommittedLaw, CommittedStatus
  <2>4. f.bill \in Bill /\ f.status[f.bill] = "open" /\ f.status \in Rows /\ f.law \in Law
    BY <2>2 DEF FrameOK
  <2> DEFINE E == NewlyEnacted(f.status, status)
             F == NewlyEnacted(f.status, status')
  <2>5. status' \in Rows /\ Decides(f.status, status') /\ F = E \union {f.bill}
    <3>1. status \in Rows /\ Decides(f.status, status) /\ status' = [status EXCEPT ![f.bill] = "enacted"]
      BY <1>1, <2>1, <2>2 DEF One
    <3>2. f.bill \in Bill /\ f.status[f.bill] = "open"
      BY <2>4
    <3> DEFINE s == f.status
               b == f.bill
               u == status
               w == status'
    <3>3. Decides(s, u) /\ b \in Bill /\ s[b] = "open"
      BY <3>1, <3>2
    <3>4. w \in Rows /\ w[b] = "enacted" /\ \A c \in Bill \ {b} : w[c] = u[c]
      BY <3>1, <3>3, MarkEnacted
    <3>5. Decides(s, w) /\ NewlyEnacted(s, w) = NewlyEnacted(s, u) \union {b}
      <4> HIDE DEF s, b, u, w
      <4> QED BY <3>3, <3>4, DecidesEnacted
    <3> QED BY <3>4, <3>5
  <2>6. status'[f.bill] # "open"
    BY <1>1, <2>2, <2>4 DEF Rows
  <2>7. Applied(f) = Writes[f.bill]
    BY <1>1, <2>2, AppliedAll DEF More
  <2>8. Evolves(f.law, law', Writes[f.bill] \union WritesOf(E))
    BY <1>1, <2>1, <2>7 DEF One
  <2>9. WritesOf(F) = Writes[f.bill] \union WritesOf(E)
    <3> HIDE DEF E
    <3>1. WritesOf(E \union {f.bill}) = WritesOf(E) \union Writes[f.bill]
      BY WritesOfOneMore
    <3> QED BY <2>5, <3>1
  <2>10. F # {} /\ Evolves(f.law, law', WritesOf(F))
    <3> HIDE DEF E, F
    <3> QED BY <2>5, <2>8, <2>9
  <2>11. Lawmaking!Next
    BY <1>1, <2>3, <2>4, <2>5, <2>6, <2>10, AbstractDecide
  <2>12. IInv'
    BY <1>1, <2>3, <2>5 DEF IInv
  <2> QED BY <2>11, <2>12 DEF Good
<1>3. CASE \E e, f : stack = <<e, f>> /\ Two(e, f, law, status) /\ hook = FALSE
  <2>1. PICK e, f : stack = <<e, f>> /\ Two(e, f, law, status)
    BY <1>3
  <2>2. /\ Top = f /\ Pop = <<e>> /\ FrameOK(f) /\ One(e, f.law, f.status)
        /\ status = f.status /\ Evolves(f.law, law, Applied(f))
    BY <2>1, TwoFrames DEF Two
  <2>3. stack' = <<e>> /\ law' = law
    BY <1>1, <2>2
  <2>4. f.bill \in Bill /\ f.status[f.bill] = "open"
    BY <2>2 DEF FrameOK
  <2>5. ~(f.at <= Len(Mutations(f.bill)))
    BY <1>1, <2>2 DEF More
  <2>6. Applied(f) = Writes[f.bill]
    BY <2>2, <2>5, AppliedAll
  <2> DEFINE E == NewlyEnacted(e.status, f.status)
             F == NewlyEnacted(e.status, status')
  <2>7. CASE e.status[f.bill] = "open"
    <3>1. status' \in Rows /\ Decides(e.status, status') /\ F = E \union {f.bill}
      <4> DEFINE s == e.status
                 b == f.bill
                 u == f.status
                 w == status'
      <4>1. Decides(s, u) /\ b \in Bill /\ s[b] = "open" /\ u \in Rows
        BY <2>2, <2>4, <2>7 DEF One, FrameOK
      <4>2. w \in Rows /\ w[b] = "enacted" /\ \A c \in Bill \ {b} : w[c] = u[c]
        <5>1. w = [u EXCEPT ![b] = "enacted"]
          BY <1>1, <2>2
        <5> HIDE DEF s, b, u, w
        <5> QED BY <4>1, <5>1, MarkEnacted
      <4>3. Decides(s, w) /\ NewlyEnacted(s, w) = NewlyEnacted(s, u) \union {b}
        <5> HIDE DEF s, b, u, w
        <5> QED BY <4>1, <4>2, DecidesEnacted
      <4> QED BY <4>2, <4>3
    <3>2. Evolves(e.law, law', (Applied(e) \union WritesOf(E)) \union Writes[f.bill])
      BY <2>2, <2>3, <2>6, EvolvesOn DEF One
    <3>3. (Applied(e) \union WritesOf(E)) \union Writes[f.bill] = Applied(e) \union WritesOf(F)
      <4> HIDE DEF E
      <4>1. WritesOf(E \union {f.bill}) = WritesOf(E) \union Writes[f.bill]
        BY WritesOfOneMore
      <4> QED BY <3>1, <4>1
    <3>4. Evolves(e.law, law', Applied(e) \union WritesOf(F))
      <4> HIDE DEF E, F
      <4> QED BY <3>2, <3>3
    <3>5. One(e, law', status')
      BY <2>2, <3>1, <3>4 DEF One
    <3>6. IInv'
      BY <1>1, <2>3, <3>1, <3>5 DEF IInv
    <3>7. Unseen
      BY <2>1, <2>3, StillUnseen
    <3> QED BY <3>6, <3>7 DEF Good
  <2>8. e.status[f.bill] = "open"
    BY <2>2, <2>4 DEF One, Decides
  <2> QED BY <2>7, <2>8
<1> QED BY <1>1, <1>2, <1>3 DEF IInv

(* A hook writes, inside an enactment or after an operation of its own.    *)
LEMMA HookOrdersGood ==
  ASSUME IInv, NEW g \in Government, NEW w \in HookWrites, HookOrders(g, w)
  PROVE  Good
<1>1. /\ hook /\ hook' = FALSE /\ Licensed(g, w) /\ status' = status /\ stack' = stack
      /\ law' = [law EXCEPT ![w[1]] = w[2]] /\ law \in Law /\ status \in Rows
      /\ w \in Topic \X Nat /\ hook' \in BOOLEAN
  BY PolityAssumption DEF HookOrders, Permitted, IInv
<1>2. CASE stack = <<>>
  BY <1>1, <1>2, OrderGood
<1>3. CASE stack # <<>>
  <2>1. PICK f : stack = <<f>> /\ One(f, law, status)
    BY <1>1, <1>3 DEF IInv
  <2>2. law' \in Law
    <3>1. w[1] \in Topic /\ w[2] \in Nat
      BY <1>1
    <3> QED BY <1>1, <3>1 DEF Law
  <2>3. Evolves(f.law, law', Applied(f) \union WritesOf(NewlyEnacted(f.status, status)))
    <3> DEFINE W == Applied(f) \union WritesOf(NewlyEnacted(f.status, status))
    <3>1. Evolves(f.law, law, W)
      BY <2>1 DEF One
    <3>2. law'[w[1]] = w[2] /\ \A u \in Topic \ {w[1]} : law'[u] = law[u]
      <4>1. w[1] \in Topic
        BY <1>1
      <4> QED BY <1>1, <4>1 DEF Law
    <3>3. Evolves(f.law, law', W)
      <4> DEFINE l == f.law
                 n == law'
      <4>1. law \in Law /\ Evolves(l, law, W) /\ w \in HookWrites
        BY <1>1, <3>1
      <4>2. n[w[1]] = w[2] /\ \A u \in Topic \ {w[1]} : n[u] = law[u]
        BY <3>2
      <4>3. Evolves(l, n, W)
        <5> HIDE DEF W, l, n
        <5> QED BY <4>1, <4>2, EvolvesHook
      <4> QED BY <4>3
    <3> QED BY <3>3
  <2>4. One(f, law', status')
    BY <1>1, <2>1, <2>3 DEF One
  <2>5. IInv'
    BY <1>1, <2>1, <2>2, <2>4 DEF IInv
  <2>6. Unseen
    BY <1>1, <2>1, StillUnseen
  <2> QED BY <2>5, <2>6 DEF Good
<1> QED BY <1>2, <1>3

LEMMA HookRestsGood ==
  ASSUME IInv, HookRests
  PROVE  Good
<1>1. UNCHANGED <<law, status, stack>> /\ hook' = FALSE /\ hook
  BY DEF HookRests
<1>2. IInv'
  BY <1>1 DEF IInv
<1>3. Unseen
  BY <1>1 DEF Unseen, CommittedLaw, CommittedStatus
<1> QED BY <1>2, <1>3 DEF Good

LEMMA StepGood ==
  ASSUME IInv, [Next]_vars
  PROVE  Good
<1>1. ASSUME Life PROVE Good
  <2>1. stack = <<>> /\ hook = FALSE
    BY <1>1 DEF Life, Die, Trade, SetDelegations, SetRegister, Stir, IInv
  <2>2. UNCHANGED <<law, status, stack, hook>>
    BY <1>1 DEF Life, Die, Trade, SetDelegations, SetRegister
  <2> QED BY <2>1, <2>2, Idle
<1>2. ASSUME NEW b \in Bill, NEW p \in Person, Propose(b, p) PROVE Good
  BY <1>2, ProposeGood
<1>3. ASSUME NEW b \in Bill, NEW p \in Person, NEW c \in Choice, Vote(b, p, c) PROVE Good
  <2>1. stack = <<>> /\ UNCHANGED <<law, status, stack>> /\ hook' \in BOOLEAN
    BY <1>3 DEF Vote, Quiet
  <2> QED BY <2>1, Idle
<1>4. ASSUME NEW b \in Bill, Enact(b) PROVE Good
  <2>1. Tally(b, FALSE) /\ stack = <<>> /\ UNCHANGED hook
    BY <1>4 DEF Enact, Quiet
  <2> QED BY <2>1, TallyGood
<1>5. ASSUME Hooks PROVE Good
  <2>1. ASSUME NEW b \in Bill, HookEnacts(b) PROVE Good
    <3>1. Tally(b, TRUE) /\ hook /\ hook' = FALSE
      BY <2>1 DEF HookEnacts
    <3> QED BY <3>1, TallyGood
  <2> QED BY <1>5, <2>1, HookRestsGood, HookOrdersGood DEF Hooks
<1>6. ASSUME NEW g \in Government, NEW w \in Orders, Order(g, w) PROVE Good
  <2>1. /\ stack = <<>> /\ w \in Topic \X Nat /\ Licensed(g, w)
        /\ law' = [law EXCEPT ![w[1]] = w[2]] /\ UNCHANGED <<status, stack>> /\ hook' \in BOOLEAN
    BY <1>6, PolityAssumption DEF Order, Quiet, Permitted
  <2> QED BY <2>1, OrderGood
<1>7. ASSUME UNCHANGED vars PROVE Good
  <2>1. UNCHANGED <<law, status, stack, hook>>
    BY <1>7 DEF vars
  <2>2. IInv'
    BY <2>1 DEF IInv
  <2>3. Unseen
    BY <2>1 DEF Unseen, CommittedLaw, CommittedStatus
  <2> QED BY <2>2, <2>3 DEF Good
<1> QED BY <1>1, <1>2, <1>3, <1>4, <1>5, <1>6, <1>7, ApplyGood, RejectGood, FinishGood
        DEF Next, Politics, Enactment

LEMMA InitGood ==
  ASSUME Init
  PROVE  IInv /\ Lawmaking!Init
<1>1. law \in Law /\ status = [b \in Bill |-> "none"] /\ stack = <<>> /\ hook = FALSE
  BY PolityAssumption DEF Init, Law
<1>2. IInv
  BY <1>1 DEF IInv, Rows, Statuses
<1>3. Lawmaking!Init
  BY <1>1 DEF Lawmaking!Init, CommittedLaw, CommittedStatus, Law
<1> QED BY <1>2, <1>3

(* Lawmaking implements Statute (services.py, enact_proposal, with the     *)
(* hooks of scripting.py): seen from outside the transaction every         *)
(* decision of a bill is all or nothing, for any number of bills, persons, *)
(* governments and mutations.                                              *)
THEOREM AllOrNothingHolds == Spec => AllOrNothing
<1>1. Init => IInv /\ Lawmaking!Init
  BY InitGood
<1>2. IInv /\ [Next]_vars => IInv' /\ [Lawmaking!Next]_(Lawmaking!vars)
  <2>1. SUFFICES ASSUME IInv, [Next]_vars
                 PROVE  IInv' /\ [Lawmaking!Next]_(Lawmaking!vars)
    OBVIOUS
  <2>2. Good
    BY <2>1, StepGood
  <2> QED BY <2>2 DEF Good, Unseen, Lawmaking!vars
<1> QED BY <1>1, <1>2, PTL DEF Spec, AllOrNothing, Lawmaking!Spec

-----------------------------------------------------------------------------
(* The rows: who lives, holds, delegates and sits, and the ballots cast.   *)

BodyOK ==
    /\ alive \subseteq Person /\ shares \in [Person -> Nat]
    /\ graph \in Graphs /\ roll \in Rolls /\ \E w \in Worlds : form = w.form
    /\ ballots \in [Bill -> [Person -> Ballot]]
    /\ stirs \in Nat

LEMMA FormType ==
  ASSUME BodyOK
  PROVE  \A b \in Bill : form[b] \in Model
<1>1. PICK w \in Worlds : form = w.form
  BY DEF BodyOK
<1> QED BY <1>1, PolityAssumption

(* Whatever the electorate, a weight is a number.                          *)
LEMMA WeightType ==
  ASSUME BodyOK, NEW m \in Model, NEW p
  PROVE  WeightOf(m, p) \in Nat
<1>1. IsFiniteSet(alive) /\ \A x \in DOMAIN roll : roll[x] \in Nat
  BY PolityAssumption, FS_Subset DEF BodyOK
<1>2. CASE m = "citizen"
  <2>1. Electorate(m) = Citizens
    BY <1>2 DEF Electorate
  <2> QED BY <2>1 DEF WeightOf, Citizens
<1>3. CASE m = "share"
  <2>1. Electorate(m) = Shareholders
    BY <1>3 DEF Electorate
  <2> QED BY <2>1 DEF WeightOf, Shareholders, BodyOK
<1>4. CASE m = "council"
  <2>1. Electorate(m) = Council
    BY <1>4 DEF Electorate
  <2> QED BY <2>1 DEF WeightOf, Council
<1>5. CASE m = "weighted"
  <2>1. Electorate(m) = Weighted
    BY <1>5 DEF Electorate
  <2> QED BY <1>1, <2>1 DEF WeightOf, Weighted
<1>6. CASE m = "liquid"
  <2>1. Electorate(m) = Liquid
    BY <1>6 DEF Electorate
  <2>2. \A v : Cardinality({q \in alive : Terminal(q) = v}) \in Nat
    <3>1. \A v : IsFiniteSet({q \in alive : Terminal(q) = v})
      BY <1>1, FS_Subset
    <3> QED BY <3>1, FS_CardinalityType
  <2>3. p \in DOMAIN Liquid => Liquid[p] = Cardinality({q \in alive : Terminal(q) = p})
    BY DEF Liquid
  <2> QED BY <2>1, <2>2, <2>3 DEF WeightOf
<1> QED BY <1>2, <1>3, <1>4, <1>5, <1>6 DEF Model

(* An estate goes to an heir or to nobody.                                 *)
LEMMA DieBody ==
  ASSUME BodyOK, NEW p, Die(p)
  PROVE  BodyOK'
<1>1. /\ p \in alive /\ alive' = alive \ {p} /\ stirs' = stirs + 1
      /\ UNCHANGED <<graph, roll, form, ballots>>
  BY DEF Die, Stir
<1>2. shares' \in [Person -> Nat]
  <2>1. CASE shares' = [shares EXCEPT ![p] = 0]
    BY <2>1 DEF BodyOK
  <2>2. ASSUME NEW heir \in alive \ {p}, shares' = [shares EXCEPT ![p] = 0, ![heir] = @ + shares[p]]
        PROVE  shares' \in [Person -> Nat]
    <3> DEFINE mid == [shares EXCEPT ![p] = 0]
    <3>1. mid \in [Person -> Nat] /\ shares[p] \in Nat /\ heir \in Person
      BY <1>1 DEF BodyOK
    <3>2. shares' = [mid EXCEPT ![heir] = mid[heir] + shares[p]]
      BY <2>2
    <3> HIDE DEF mid
    <3> QED BY <3>1, <3>2
  <2> QED BY <2>1, <2>2 DEF Die
<1> QED BY <1>1, <1>2 DEF BodyOK

LEMMA TradeBody ==
  ASSUME BodyOK, NEW p, NEW q, Trade(p, q)
  PROVE  BodyOK'
<1>1. /\ p \in Person /\ q \in Person /\ shares[p] > 0 /\ stirs' = stirs + 1
      /\ shares' = [shares EXCEPT ![p] = @ - 1, ![q] = @ + 1]
      /\ UNCHANGED <<alive, graph, roll, form, ballots>>
  BY DEF Trade, Stir, BodyOK
<1>2. \A x \in Person : shares[x] \in Nat
  BY DEF BodyOK
<1>4. shares' \in [Person -> Nat]
  BY <1>1, <1>2 DEF BodyOK
<1> QED BY <1>1, <1>4 DEF BodyOK

LEMMA VoteBody ==
  ASSUME BodyOK, NEW b \in Bill, NEW p \in Person, NEW c \in Choice, Vote(b, p, c)
  PROVE  BodyOK'
<1> DEFINE new == [choice |-> c, weight |-> WeightOf(form[b], p)]
<1>1. ballots' = [ballots EXCEPT ![b][p] = new] /\ UNCHANGED body
  BY DEF Vote
<1>2. new \in Ballot
  <2>1. WeightOf(form[b], p) \in Nat
    BY FormType, WeightType
  <2> QED BY <2>1 DEF Ballot
<1> HIDE DEF new
<1>3. ballots' \in [Bill -> [Person -> Ballot]]
  BY <1>1, <1>2 DEF BodyOK
<1> QED BY <1>1, <1>3 DEF BodyOK, body

LEMMA StepBody ==
  ASSUME BodyOK, [Next]_vars
  PROVE  BodyOK'
<1>1. ASSUME UNCHANGED <<body, ballots>> PROVE BodyOK'
  BY <1>1 DEF body, BodyOK
<1>2. CASE Life
  <2>1. ASSUME NEW g \in Graphs, SetDelegations(g) PROVE BodyOK'
    BY <2>1 DEF SetDelegations, Stir, BodyOK
  <2>2. ASSUME NEW r \in Rolls, SetRegister(r) PROVE BodyOK'
    BY <2>2 DEF SetRegister, Stir, BodyOK
  <2> QED BY <1>2, <2>1, <2>2, DieBody, TradeBody DEF Life
<1>3. CASE Politics
  <2>1. ASSUME NEW b \in Bill, NEW p \in Person, Propose(b, p) PROVE BodyOK'
    BY <1>1, <2>1 DEF Propose
  <2> QED BY <1>3, <2>1, VoteBody DEF Politics
<1>4. CASE Enactment
  BY <1>1, <1>4 DEF Enactment, Enact, Tally, Apply, Reject, Finish
<1>5. CASE Hooks
  BY <1>1, <1>5 DEF Hooks, HookRests, HookOrders, HookEnacts, Tally
<1>6. CASE \E g \in Government, w \in Orders : Order(g, w)
  BY <1>1, <1>6 DEF Order
<1>7. CASE UNCHANGED vars
  BY <1>1, <1>7 DEF vars
<1> QED BY <1>2, <1>3, <1>4, <1>5, <1>6, <1>7 DEF Next

LEMMA InitBody == Init => BodyOK
<1> SUFFICES ASSUME Init PROVE BodyOK
  OBVIOUS
<1>1. /\ alive = Person /\ shares = [p \in Person |-> 1] /\ stirs = 0
      /\ ballots = [b \in Bill |-> [p \in Person |-> NoBallot]]
  BY DEF Init
<1>2. PICK w \in Worlds : graph = w.graph /\ roll = w.roll /\ form = w.form
  BY DEF Init
<1>3. NoBallot \in Ballot
  BY DEF NoBallot, Ballot
<1> QED BY <1>1, <1>2, <1>3, PolityAssumption DEF BodyOK

(* A frame of the invariant is a frame of the type.                        *)
LEMMA FrameType ==
  ASSUME NEW f, FrameOK(f)
  PROVE  f \in Frame /\ f.at <= Len(Mutations(f.bill)) + 1
<1>1. Len(Mutations(f.bill)) \in Nat
  BY WritesType DEF FrameOK
<1>2. /\ f.bill \in Bill /\ f.at \in Nat \ {0} /\ f.quiet \in BOOLEAN
      /\ f.law \in [Topic -> Nat] /\ f.status \in [Bill -> Statuses]
      /\ f = [bill |-> f.bill, at |-> f.at, quiet |-> f.quiet, law |-> f.law, status |-> f.status]
  BY <1>1 DEF FrameOK, Law, Rows
<1>3. f.at <= Len(Mutations(f.bill)) + 1
  BY <1>1 DEF FrameOK
<1> QED BY <1>2, <1>3 DEF Frame

LEMMA TypesOf == IInv /\ BodyOK => TypeOK
<1> SUFFICES ASSUME IInv, BodyOK PROVE TypeOK
  OBVIOUS
<1>1. /\ stack \in Seq(Frame) /\ Len(stack) <= 2
      /\ \A i \in DOMAIN stack : stack[i].at <= Len(Mutations(stack[i].bill)) + 1
  <2>1. CASE stack = <<>>
    BY <2>1
  <2>2. ASSUME NEW f, stack = <<f>>, One(f, law, status)
        PROVE  /\ stack \in Seq(Frame) /\ Len(stack) <= 2
               /\ \A i \in DOMAIN stack : stack[i].at <= Len(Mutations(stack[i].bill)) + 1
    <3>1. f \in Frame /\ f.at <= Len(Mutations(f.bill)) + 1
      BY <2>2, FrameType DEF One
    <3>2. stack \in Seq(Frame) /\ Len(stack) = 1 /\ stack[1] = f
      BY <2>2, <3>1
    <3> QED BY <3>1, <3>2
  <2>3. ASSUME NEW f, NEW g, stack = <<f, g>>, Two(f, g, law, status)
        PROVE  /\ stack \in Seq(Frame) /\ Len(stack) <= 2
               /\ \A i \in DOMAIN stack : stack[i].at <= Len(Mutations(stack[i].bill)) + 1
    <3>1. /\ f \in Frame /\ f.at <= Len(Mutations(f.bill)) + 1
          /\ g \in Frame /\ g.at <= Len(Mutations(g.bill)) + 1
      BY <2>3, FrameType DEF Two, One
    <3>2. stack \in Seq(Frame) /\ Len(stack) = 2 /\ stack[1] = f /\ stack[2] = g
      BY <2>3, <3>1
    <3>3. DOMAIN stack = {1, 2}
      BY <3>2
    <3> QED BY <3>1, <3>2, <3>3
  <2> QED BY <2>1, <2>2, <2>3 DEF IInv
<1> QED BY <1>1 DEF IInv, BodyOK, Law, Rows, TypeOK

(* Every row keeps its type, and enactments nest at most once, whoever     *)
(* votes, whatever hooks watch and whatever bills they enact               *)
(* (scripting.fire_hooks suppresses hooks inside a hook's own work).       *)
THEOREM PolityTypes == Spec => []TypeOK
<1>1. Init => IInv /\ BodyOK
  BY InitGood, InitBody
<1>2. IInv /\ BodyOK /\ [Next]_vars => IInv' /\ BodyOK'
  BY StepGood, StepBody DEF Good
<1>3. IInv /\ BodyOK => TypeOK
  BY TypesOf
<1> QED BY <1>1, <1>2, <1>3, PTL DEF Spec

-----------------------------------------------------------------------------
(* The bars.  A frame remembers the law its bill was tallied under; its    *)
(* ballots do not change while it is applied, so it stays cleared.  And    *)
(* from one frame to the next law, power comes from power.                 *)

ClearedAt(b, l) ==
    /\ Cast(b, "for") * 100 >= Text[b].threshold * Turnout(b)
    /\ Text[b].tier = "constitutional" => Cast(b, "for") * 100 >= l[Floor] * Turnout(b)
Cleared(f) == ClearedAt(f.bill, f.law)

Powers(l, m) ==
    (\A g \in Government : l[Holding(g, "grant_capability")] # 1)
    => \A g \in Government, c \in Power : m[Holding(g, c)] = 1 => l[Holding(g, c)] = 1

BarOne(f, l) == Cleared(f) /\ Powers(f.law, l)

BarInv ==
    \/ stack = <<>>
    \/ \E f : stack = <<f>> /\ BarOne(f, law)
    \/ \E f, g : stack = <<f, g>> /\ BarOne(f, g.law) /\ BarOne(g, law)

LEMMA PowersSame == \A l : Powers(l, l)
  BY DEF Powers

LEMMA PowersOn ==
  ASSUME NEW l, NEW m, NEW n, Powers(l, m), Powers(m, n)
  PROVE  Powers(l, n)
<1> SUFFICES ASSUME \A g \in Government : l[Holding(g, "grant_capability")] # 1
             PROVE  \A g \in Government, c \in Power : n[Holding(g, c)] = 1 => l[Holding(g, c)] = 1
  BY DEF Powers
<1>1. \A g \in Government, c \in Power : m[Holding(g, c)] = 1 => l[Holding(g, c)] = 1
  BY DEF Powers
<1>2. "grant_capability" \in Power
  BY DEF Power
<1>3. \A g \in Government : m[Holding(g, "grant_capability")] # 1
  BY <1>1, <1>2
<1>4. \A g \in Government, c \in Power : n[Holding(g, c)] = 1 => m[Holding(g, c)] = 1
  BY <1>3 DEF Powers
<1> QED BY <1>1, <1>4

(* Whoever writes a power holds the power to grant it.                     *)
LEMMA PowersWrite ==
  ASSUME NEW l \in Law, NEW g \in Government, NEW w \in Topic \X Nat,
         l[Holding(g, Needs(w[1]))] = 1, NEW n, n = [l EXCEPT ![w[1]] = w[2]]
  PROVE  Powers(l, n)
<1> SUFFICES ASSUME \A h \in Government : l[Holding(h, "grant_capability")] # 1,
                    NEW h \in Government, NEW c \in Power, n[Holding(h, c)] = 1
             PROVE  l[Holding(h, c)] = 1
  BY DEF Powers
<1> DEFINE t == w[1]
<1>1. t \in Topic /\ n = [l EXCEPT ![t] = w[2]] /\ l[Holding(g, Needs(t))] = 1
  OBVIOUS
<1> HIDE DEF t
<1>2. Needs(t) # "grant_capability"
  BY <1>1
<1>3. t \in {Policy, Script, Bound, Floor}
  <2>1. t # Policy /\ t # Script /\ t \notin {Bound, Floor} => Needs(t) = "grant_capability"
    BY DEF Needs
  <2> QED BY <1>2, <2>1
<1>4. Holding(h, c) \in Topic
  BY DEF Topic
<1>5. Holding(h, c) # t
  <2>1. Len(Holding(h, c)) = 3
    BY DEF Holding
  <2>2. Len(t) = 1
    BY <1>3 DEF Policy, Script, Bound, Floor
  <2> QED BY <2>1, <2>2
<1>6. n[Holding(h, c)] = l[Holding(h, c)]
  BY <1>1, <1>4, <1>5 DEF Law
<1> QED BY <1>6

LEMMA CastType ==
  ASSUME BodyOK, NEW b \in Bill, NEW c
  PROVE  Cast(b, c) \in Nat
<1> DEFINE S == {p \in Person : ballots[b][p].choice = c}
           f == [p \in Person |-> ballots[b][p].weight]
<1>1. IsFiniteSet(S)
  BY PolityAssumption, FS_Subset
<1>2. Counts(f, S)
  <2>1. \A p \in Person : ballots[b][p] \in Ballot
    BY DEF BodyOK
  <2>2. \A p \in Person : ballots[b][p].weight \in Nat
    BY <2>1 DEF Ballot
  <2> QED BY <2>2 DEF Counts
<1>3. Cast(b, c) = Total(f, S)
  BY DEF Cast
<1> HIDE DEF S, f
<1> QED BY <1>1, <1>2, <1>3, TotalType

LEMMA TimesMore ==
  ASSUME NEW x \in Nat, NEW y \in Nat, NEW t \in Nat, x >= y
  PROVE  x * t >= y * t
  OBVIOUS

(* The tally asks for both.                                                *)
LEMMA PassesClears ==
  ASSUME BodyOK, law \in Law, NEW b \in Bill, Passes(b)
  PROVE  ClearedAt(b, law)
<1> DEFINE t == Turnout(b)
           bar == Bar(b)
           floor == law[Floor]
           own == Text[b].threshold
           cast == Cast(b, "for") * 100
<1>1. t \in Nat
  BY CastType DEF Turnout
<1>2. own \in Nat /\ floor \in Nat
  <2>1. Floor \in Topic
    BY DEF Topic
  <2> QED BY <2>1, PolityAssumption DEF Law
<1>3. cast >= bar * t /\ cast \in Nat
  BY CastType DEF Passes
<1>4. /\ bar \in Nat /\ bar >= own
      /\ Text[b].tier = "constitutional" => bar >= floor
  BY <1>2 DEF Bar
<1>5. cast >= own * t /\ (Text[b].tier = "constitutional" => cast >= floor * t)
  <2> HIDE DEF t, bar, floor, own, cast
  <2>1. bar * t \in Nat /\ own * t \in Nat /\ floor * t \in Nat
    BY <1>1, <1>2, <1>4
  <2>2. bar * t >= own * t
    BY <1>1, <1>2, <1>4, TimesMore
  <2>3. Text[b].tier = "constitutional" => bar * t >= floor * t
    BY <1>1, <1>2, <1>4, TimesMore
  <2> QED BY <1>3, <2>1, <2>2, <2>3
<1> QED BY <1>5 DEF ClearedAt

LEMMA StillCleared ==
  ASSUME UNCHANGED ballots, NEW f, Cleared(f)
  PROVE  Cleared(f)'
  BY DEF Cleared, ClearedAt, Cast, Turnout

(* Every step keeps the bars.                                              *)
BarGood == BarInv' /\ FloorInForce /\ NoPowerFromNothing

(* What is popped was cleared, so enactment needs no further look.         *)
LEMMA FloorFollows == BarInv => FloorInForce
<1> SUFFICES ASSUME BarInv, stack # <<>> PROVE Cleared(Top)
  BY DEF FloorInForce, InEnactment, Cleared, ClearedAt
<1>1. ASSUME NEW f, stack = <<f>>, BarOne(f, law) PROVE Cleared(Top)
  BY <1>1, OneFrame DEF BarOne
<1>2. ASSUME NEW f, NEW g, stack = <<f, g>>, BarOne(g, law) PROVE Cleared(Top)
  BY <1>2, TwoFrames DEF BarOne
<1> QED BY <1>1, <1>2 DEF BarInv

LEMMA NoPowerIs == NoPowerFromNothing <=> Powers(CommittedLaw, CommittedLaw')
  BY DEF NoPowerFromNothing, Powers

LEMMA BarsOutside ==
  ASSUME BarInv, stack = <<>>, stack' = <<>>, Powers(law, law')
  PROVE  BarGood
<1>1. CommittedLaw = law /\ CommittedLaw' = law'
  BY DEF CommittedLaw
<1>2. Powers(CommittedLaw, CommittedLaw')
  BY <1>1
<1> QED BY <1>2, FloorFollows, NoPowerIs DEF BarGood, BarInv

(* The law moves inside an enactment; the frames keep their bills and law. *)
LEMMA BarsInside ==
  ASSUME BarInv, UNCHANGED ballots, Powers(law, law'),
         \/ \E f, h : stack = <<f>> /\ stack' = <<h>> /\ h.bill = f.bill /\ h.law = f.law
         \/ \E f, g, h : stack = <<f, g>> /\ stack' = <<f, h>> /\ h.bill = g.bill /\ h.law = g.law
  PROVE  BarGood
<1>1. ASSUME NEW f, NEW h, stack = <<f>>, stack' = <<h>>, h.bill = f.bill, h.law = f.law
      PROVE  BarInv' /\ CommittedLaw' = CommittedLaw
  <2>1. stack # <<>> /\ stack[1] = f /\ Len(stack) = 1 /\ stack' # <<>> /\ stack'[1] = h
    BY <1>1
  <2>2. BarOne(f, law)
    <3>1. ASSUME NEW x, stack = <<x>> PROVE x = f
      BY <2>1, <3>1
    <3>2. ASSUME NEW x, NEW y, stack = <<x, y>> PROVE FALSE
      BY <2>1, <3>2
    <3> QED BY <2>1, <3>1, <3>2 DEF BarInv
  <2>3. Cleared(h)
    BY <1>1, <2>2 DEF BarOne, Cleared
  <2>4. Cleared(h)' /\ Powers(h.law, law')
    <3>1. Cleared(h)'
      BY <2>3, StillCleared
    <3>2. Powers(f.law, law')
      BY <2>2, PowersOn DEF BarOne
    <3> QED BY <1>1, <3>1, <3>2
  <2> QED BY <1>1, <2>1, <2>4 DEF BarInv, BarOne, CommittedLaw
<1>2. ASSUME NEW f, NEW g, NEW h, stack = <<f, g>>, stack' = <<f, h>>, h.bill = g.bill, h.law = g.law
      PROVE  BarInv' /\ CommittedLaw' = CommittedLaw
  <2>1. stack # <<>> /\ stack[1] = f /\ stack[2] = g /\ Len(stack) = 2 /\ stack' # <<>> /\ stack'[1] = f
    BY <1>2
  <2>2. BarOne(f, g.law) /\ BarOne(g, law)
    <3>1. ASSUME NEW x, stack = <<x>> PROVE FALSE
      BY <2>1, <3>1
    <3>2. ASSUME NEW x, NEW y, stack = <<x, y>> PROVE x = f /\ y = g
      BY <2>1, <3>2
    <3> QED BY <2>1, <3>1, <3>2 DEF BarInv
  <2>3. Cleared(f)' /\ Powers(f.law, h.law)
    <3>1. Cleared(f)'
      BY <2>2, StillCleared DEF BarOne
    <3> QED BY <1>2, <2>2, <3>1 DEF BarOne
  <2>4. Cleared(h)' /\ Powers(h.law, law')
    <3>1. Cleared(h)
      BY <1>2, <2>2 DEF BarOne, Cleared
    <3>2. Cleared(h)'
      BY <3>1, StillCleared
    <3>3. Powers(g.law, law')
      BY <2>2, PowersOn DEF BarOne
    <3> QED BY <1>2, <3>2, <3>3
  <2> QED BY <1>2, <2>1, <2>3, <2>4 DEF BarInv, BarOne, CommittedLaw
<1>3. BarInv' /\ CommittedLaw' = CommittedLaw
  BY <1>1, <1>2
<1>4. Powers(CommittedLaw, CommittedLaw')
  BY <1>3, PowersSame
<1> QED BY <1>3, <1>4, FloorFollows, NoPowerIs DEF BarGood

LEMMA OneBar ==
  ASSUME BarInv, NEW f, stack = <<f>>
  PROVE  BarOne(f, law)
<1>1. stack # <<>> /\ stack[1] = f /\ Len(stack) = 1
  OBVIOUS
<1>2. ASSUME NEW x, stack = <<x>> PROVE x = f
  BY <1>1, <1>2
<1>3. ASSUME NEW x, NEW y, stack = <<x, y>> PROVE FALSE
  BY <1>1, <1>3
<1> QED BY <1>1, <1>2, <1>3 DEF BarInv

LEMMA TwoBars ==
  ASSUME BarInv, NEW f, NEW g, stack = <<f, g>>
  PROVE  BarOne(f, g.law) /\ BarOne(g, law)
<1>1. stack # <<>> /\ stack[1] = f /\ stack[2] = g /\ Len(stack) = 2
  OBVIOUS
<1>2. ASSUME NEW x, stack = <<x>> PROVE FALSE
  BY <1>1, <1>2
<1>3. ASSUME NEW x, NEW y, stack = <<x, y>> PROVE x = f /\ y = g
  BY <1>1, <1>3
<1> QED BY <1>1, <1>2, <1>3 DEF BarInv

(* Nothing is under way and the law stays.                                 *)
LEMMA BarsIdle ==
  ASSUME BarInv, stack = <<>>, UNCHANGED <<law, stack>>
  PROVE  BarGood
BY PowersSame, BarsOutside

LEMMA BarsStill ==
  ASSUME BarInv, UNCHANGED <<law, stack, ballots>>
  PROVE  BarGood
<1>1. CASE stack = <<>>
  BY <1>1, BarsIdle
<1>2. Powers(law, law')
  BY PowersSame
<1>3. ASSUME NEW f, stack = <<f>> PROVE BarGood
  BY <1>2, <1>3, BarsInside
<1>4. ASSUME NEW f, NEW g, stack = <<f, g>> PROVE BarGood
  BY <1>2, <1>4, BarsInside
<1> QED BY <1>1, <1>3, <1>4 DEF BarInv

(* A government, or a hook in its name, writes.                            *)
LEMMA BarsWrite ==
  ASSUME IInv, BarInv, NEW g \in Government, NEW w \in Topic \X Nat, Licensed(g, w),
         law' = [law EXCEPT ![w[1]] = w[2]], UNCHANGED <<stack, ballots>>
  PROVE  BarGood
<1>1. Powers(law, law')
  <2>1. law \in Law /\ law[Holding(g, Needs(w[1]))] = 1
    BY DEF IInv, Licensed
  <2> QED BY <2>1, PowersWrite
<1>2. CASE stack = <<>>
  BY <1>1, <1>2, BarsOutside
<1>3. ASSUME NEW f, stack = <<f>> PROVE BarGood
  BY <1>1, <1>3, BarsInside
<1>4. ASSUME NEW f, NEW h, stack = <<f, h>> PROVE BarGood
  BY <1>1, <1>4, BarsInside
<1> QED BY <1>2, <1>3, <1>4 DEF BarInv

LEMMA BarsTally ==
  ASSUME IInv, BodyOK, BarInv, NEW b \in Bill, NEW q \in BOOLEAN, Tally(b, q),
         \/ stack = <<>>
         \/ \E f : stack = <<f>>
  PROVE  BarGood
<1>1. UNCHANGED <<law, ballots>> /\ law \in Law
  BY DEF Tally, IInv
<1>2. CASE UNCHANGED stack
  BY <1>1, <1>2, BarsStill
<1>3. CASE Passes(b) /\ stack' = Append(stack, [bill |-> b, at |-> 1, quiet |-> q, law |-> law, status |-> status])
  <2>1. PICK h : h = [bill |-> b, at |-> 1, quiet |-> q, law |-> law, status |-> status]
    OBVIOUS
  <2>2. h.bill = b /\ h.law = law /\ stack' = Append(stack, h)
    BY <1>3, <2>1
  <2>3. Cleared(h)
    BY <1>1, <1>3, <2>2, PassesClears DEF Cleared
  <2>4. Cleared(h)' /\ Powers(h.law, law')
    BY <1>1, <2>2, <2>3, StillCleared, PowersSame
  <2>5. CASE stack = <<>>
    <3>1. stack' = <<h>> /\ stack'[1] = h /\ stack' # <<>>
      BY <2>2, <2>5
    <3>2. BarInv'
      BY <2>4, <3>1 DEF BarInv, BarOne
    <3>3. CommittedLaw = law /\ CommittedLaw' = law
      BY <2>2, <2>5, <3>1 DEF CommittedLaw
    <3> QED BY <3>2, <3>3, PowersSame, FloorFollows, NoPowerIs DEF BarGood
  <2>6. ASSUME NEW f, stack = <<f>> PROVE BarGood
    <3>1. stack' = <<f, h>> /\ stack'[1] = f /\ stack' # <<>> /\ stack # <<>> /\ stack[1] = f
      BY <2>2, <2>6, AppendToOne
    <3>2. Cleared(f)' /\ Powers(f.law, h.law)
      <4>1. BarOne(f, law)
        BY <2>6, OneBar
      <4> QED BY <1>1, <2>2, <4>1, StillCleared DEF BarOne
    <3>3. BarInv'
      BY <2>4, <3>1, <3>2 DEF BarInv, BarOne
    <3>4. CommittedLaw = f.law /\ CommittedLaw' = f.law
      BY <3>1 DEF CommittedLaw
    <3> QED BY <3>3, <3>4, PowersSame, FloorFollows, NoPowerIs DEF BarGood
  <2> QED BY <2>5, <2>6
<1> QED BY <1>2, <1>3 DEF Tally

LEMMA BarsApply ==
  ASSUME IInv, BarInv, Apply
  PROVE  BarGood
<1>1. /\ stack # <<>> /\ More /\ Licensed(Text[Top.bill].target, Mutation)
      /\ law' = [law EXCEPT ![Mutation[1]] = Mutation[2]]
      /\ stack' = Append(Pop, [Top EXCEPT !.at = @ + 1])
      /\ UNCHANGED ballots /\ law \in Law
  BY DEF Apply, InEnactment, Permitted, IInv
<1>2. ASSUME FrameOK(Top) PROVE Powers(law, law')
  <2>1. Top.at \in 1..Len(Mutations(Top.bill)) /\ Top.bill \in Bill
    BY <1>1, <1>2, WritesType DEF FrameOK, More
  <2>2. Mutation \in Topic \X Nat
    BY <2>1, WritesType DEF Mutation
  <2>3. Text[Top.bill].target \in Government
    BY <2>1, PolityAssumption
  <2>4. PICK g \in Government : Licensed(g, Mutation)
    BY <1>1, <2>3
  <2>5. PICK w \in Topic \X Nat : w = Mutation
    BY <2>2
  <2>6. law[Holding(g, Needs(w[1]))] = 1 /\ law' = [law EXCEPT ![w[1]] = w[2]]
    BY <1>1, <2>4, <2>5 DEF Licensed
  <2> QED BY <1>1, <2>6, PowersWrite
<1>3. ASSUME NEW f, stack = <<f>>, One(f, law, status) PROVE BarGood
  <2>1. Top = f /\ Pop = <<>> /\ FrameOK(f)
    BY <1>3, OneFrame DEF One
  <2>2. PICK h : h = [f EXCEPT !.at = @ + 1]
    OBVIOUS
  <2>3. stack' = <<h>> /\ h.bill = f.bill /\ h.law = f.law
    BY <1>1, <2>1, <2>2 DEF FrameOK
  <2>4. Powers(law, law')
    BY <1>2, <2>1
  <2> QED BY <1>1, <1>3, <2>3, <2>4, BarsInside
<1>4. ASSUME NEW e, NEW f, stack = <<e, f>>, Two(e, f, law, status) PROVE BarGood
  <2>1. Top = f /\ Pop = <<e>> /\ FrameOK(f)
    BY <1>4, TwoFrames DEF Two
  <2>2. PICK h : h = [f EXCEPT !.at = @ + 1]
    OBVIOUS
  <2>3. h.bill = f.bill /\ h.law = f.law /\ stack' = Append(<<e>>, h)
    BY <1>1, <2>1, <2>2 DEF FrameOK
  <2>4. stack' = <<e, h>>
    BY <2>3, AppendToOne
  <2>5. Powers(law, law')
    BY <1>2, <2>1
  <2> QED BY <1>1, <1>4, <2>3, <2>4, <2>5, BarsInside
<1> QED BY <1>1, <1>3, <1>4 DEF IInv

(* A frame is popped: the law is what it was before, or what it has become.*)
LEMMA BarsPop ==
  ASSUME IInv, BarInv, stack # <<>>, stack' = Pop, UNCHANGED ballots,
         law' \in {law, Top.law}
  PROVE  BarGood
<1>1. ASSUME NEW f, stack = <<f>> PROVE BarGood
  <2>1. Top = f /\ stack' = <<>>
    BY <1>1, OneFrame
  <2>2. Powers(f.law, law')
    <3>1. BarOne(f, law)
      BY <1>1, OneBar
    <3> QED BY <2>1, <3>1, PowersSame DEF BarOne
  <2>3. CommittedLaw = f.law /\ CommittedLaw' = law'
    BY <1>1, <2>1 DEF CommittedLaw
  <2>4. BarInv'
    BY <2>1 DEF BarInv
  <2>5. Powers(CommittedLaw, CommittedLaw')
    BY <2>2, <2>3
  <2> QED BY <2>4, <2>5, FloorFollows, NoPowerIs DEF BarGood
<1>2. ASSUME NEW f, NEW g, stack = <<f, g>> PROVE BarGood
  <2>1. Top = g /\ stack' = <<f>>
    BY <1>2, TwoFrames
  <2>2. BarOne(f, g.law) /\ BarOne(g, law)
    BY <1>2, TwoBars
  <2>3. Cleared(f)' /\ Powers(f.law, law')
    <3>1. Cleared(f)'
      BY <2>2, StillCleared DEF BarOne
    <3>2. Powers(f.law, law)
      BY <2>2, PowersOn DEF BarOne
    <3> QED BY <2>1, <2>2, <3>1, <3>2 DEF BarOne
  <2>4. stack # <<>> /\ stack[1] = f /\ stack' # <<>> /\ stack'[1] = f
    BY <1>2, <2>1
  <2>5. BarInv'
    BY <2>1, <2>3 DEF BarInv, BarOne
  <2>6. CommittedLaw = f.law /\ CommittedLaw' = f.law
    BY <2>4 DEF CommittedLaw
  <2> QED BY <2>5, <2>6, PowersSame, FloorFollows, NoPowerIs DEF BarGood
<1> QED BY <1>1, <1>2 DEF BarInv

LEMMA StepBars ==
  ASSUME IInv, BodyOK, BarInv, [Next]_vars
  PROVE  BarGood
<1>1. CASE Life
  <2>1. stack = <<>> /\ UNCHANGED <<law, stack>>
    BY <1>1 DEF Life, Die, Trade, SetDelegations, SetRegister, Stir
  <2> QED BY <2>1, BarsIdle
<1>2. CASE Politics
  <2>1. stack = <<>> /\ UNCHANGED <<law, stack>>
    BY <1>2 DEF Politics, Propose, Vote, Quiet
  <2> QED BY <2>1, BarsIdle
<1>3. ASSUME NEW b \in Bill, Enact(b) PROVE BarGood
  <2>1. stack = <<>> /\ Tally(b, FALSE)
    BY <1>3 DEF Enact, Quiet
  <2> QED BY <2>1, BarsTally
<1>4. CASE Reject
  <2>1. stack # <<>> /\ stack' = Pop /\ UNCHANGED ballots /\ law' = Top.law
    BY <1>4 DEF Reject, InEnactment
  <2> QED BY <2>1, BarsPop
<1>5. CASE Finish
  <2>1. stack # <<>> /\ stack' = Pop /\ UNCHANGED ballots /\ law' = law
    BY <1>5 DEF Finish, InEnactment
  <2> QED BY <2>1, BarsPop
<1>6. CASE HookRests
  <2>1. UNCHANGED <<law, stack, ballots>>
    BY <1>6 DEF HookRests
  <2> QED BY <2>1, BarsStill
<1>7. ASSUME NEW g \in Government, NEW w \in HookWrites, HookOrders(g, w) PROVE BarGood
  <2>1. /\ w \in Topic \X Nat /\ Licensed(g, w) /\ UNCHANGED <<stack, ballots>>
        /\ law' = [law EXCEPT ![w[1]] = w[2]]
    BY <1>7, PolityAssumption DEF HookOrders, Permitted
  <2> QED BY <2>1, BarsWrite
<1>8. ASSUME NEW b \in Bill, HookEnacts(b) PROVE BarGood
  <2>1. Tally(b, TRUE) /\ hook
    BY <1>8 DEF HookEnacts
  <2>2. \/ stack = <<>>
        \/ \E f : stack = <<f>>
    BY <2>1 DEF IInv
  <2> QED BY <2>1, <2>2, BarsTally
<1>9. ASSUME NEW g \in Government, NEW w \in Orders, Order(g, w) PROVE BarGood
  <2>1. /\ w \in Topic \X Nat /\ Licensed(g, w) /\ UNCHANGED <<stack, ballots>>
        /\ law' = [law EXCEPT ![w[1]] = w[2]]
    BY <1>9, PolityAssumption DEF Order, Permitted
  <2> QED BY <2>1, BarsWrite
<1>10. CASE UNCHANGED vars
  <2>1. UNCHANGED <<law, stack, ballots>>
    BY <1>10 DEF vars
  <2> QED BY <2>1, BarsStill
<1> QED BY <1>1, <1>2, <1>3, <1>4, <1>5, <1>6, <1>7, <1>8, <1>9, <1>10, BarsApply
        DEF Next, Enactment, Hooks

(* Nobody legislates past the constitution in force (services.py,          *)
(* enact_proposal and grant_capability): whatever a bill, and the hooks    *)
(* and bills inside it, make of the floor, what is enacted was cast over   *)
(* the floor it was tallied under; and once the power to grant powers is   *)
(* gone, no bill, hook or order brings a power back.                       *)
THEOREM BarsHoldHolds == Spec => BarsHold
<1>1. Init => IInv /\ BodyOK /\ BarInv
  <2>1. Init => BarInv
    BY DEF Init, BarInv
  <2> QED BY <2>1, InitGood, InitBody
<1>2. IInv /\ BodyOK /\ BarInv /\ [Next]_vars
      => IInv' /\ BodyOK' /\ BarInv' /\ [FloorInForce /\ NoPowerFromNothing]_vars
  BY StepGood, StepBody, StepBars DEF Good, BarGood
<1> QED BY <1>1, <1>2, PTL DEF Spec, BarsHold

-----------------------------------------------------------------------------
(* Liquid democracy.  A chain of delegations is followed as many steps as  *)
(* there are persons; the lemmas show that this is enough: a chain that    *)
(* ends at all ends by then, for otherwise it has met itself.              *)

Heads == Cardinality(Person)

LEMMA HeadsNat == Heads \in Nat /\ IsFiniteSet(Person) /\ "nobody" \notin Person
  BY PolityAssumption, FS_CardinalityType DEF Heads

(* Counting up to n within a set.                                          *)
LEMMA CountUp ==
  ASSUME NEW n \in Nat, NEW S, 0 \in S, \A k \in Nat : k < n /\ k \in S => k + 1 \in S
  PROVE  \A k \in 0..n : k \in S
<1> DEFINE T == {k \in 0..n : k \notin S}
<1>1. SUFFICES ASSUME T # {} PROVE FALSE
  OBVIOUS
<1>2. PICK R : IsWellFoundedOn(R, Nat) /\ \A x, y \in Nat : x < y => <<x, y>> \in R
  BY LessIsWellFounded
<1>3. T \subseteq Nat /\ IsWellFoundedOn(R, Nat)
  BY <1>2
<1>4. PICK t \in T : \A u \in T : ~(<<u, t>> \in R)
  <2> HIDE DEF T
  <2> QED BY <1>1, <1>3, WFMin
<1>5. t \in 0..n /\ t \notin S /\ t # 0
  OBVIOUS
<1>6. t - 1 \in Nat /\ t - 1 < n /\ t - 1 < t /\ (t - 1) + 1 = t /\ t \in Nat
  BY <1>5
<1>7. t - 1 \notin T
  BY <1>2, <1>4, <1>6
<1>8. t - 1 \in S
  BY <1>5, <1>6, <1>7
<1> QED BY <1>5, <1>6, <1>8

Follows(f, n, p) == f = [k \in 0..n |-> IF k = 0 THEN p ELSE Onward(f[k - 1])]

LEMMA ChainExists ==
  ASSUME NEW n \in Nat, NEW p
  PROVE  \E f : Follows(f, n, p)
<1> DEFINE S == {m \in Nat : \E f : f = [k \in 0..m |-> IF k = 0 THEN p ELSE Onward(f[k - 1])]}
<1>1. 0 \in S
  <2>1. [k \in 0..0 |-> p] = [k \in 0..0 |-> IF k = 0 THEN p ELSE Onward([j \in 0..0 |-> p][k - 1])]
    OBVIOUS
  <2> QED BY <2>1
<1>2. ASSUME NEW m \in Nat, m \in S PROVE m + 1 \in S
  <2>1. PICK f : f = [k \in 0..m |-> IF k = 0 THEN p ELSE Onward(f[k - 1])]
    BY <1>2
  <2> DEFINE g == [k \in 0..(m + 1) |-> IF k = m + 1 THEN Onward(f[m]) ELSE f[k]]
  <2>2. ASSUME NEW k \in 0..(m + 1) PROVE g[k] = IF k = 0 THEN p ELSE Onward(g[k - 1])
    <3>1. CASE k = m + 1
      <4>1. k # 0 /\ k - 1 = m /\ m \in 0..(m + 1) /\ m # m + 1
        BY <3>1
      <4>2. g[m] = f[m] /\ g[k] = Onward(f[m])
        BY <3>1, <4>1
      <4> QED BY <4>1, <4>2
    <3>2. CASE k # m + 1
      <4>1. k \in 0..m
        BY <3>2
      <4>2. g[k] = f[k] /\ f[k] = IF k = 0 THEN p ELSE Onward(f[k - 1])
        BY <2>1, <3>2, <4>1
      <4>3. k # 0 => k - 1 \in 0..(m + 1) /\ k - 1 # m + 1
        BY <4>1
      <4>4. k # 0 => g[k - 1] = f[k - 1]
        BY <4>3
      <4> QED BY <4>2, <4>4
    <3> QED BY <3>1, <3>2
  <2>3. g = [k \in 0..(m + 1) |-> g[k]]
    OBVIOUS
  <2>4. g = [k \in 0..(m + 1) |-> IF k = 0 THEN p ELSE Onward(g[k - 1])]
    <3> HIDE DEF g
    <3> QED BY <2>2, <2>3
  <2>5. \E h : h = [k \in 0..(m + 1) |-> IF k = 0 THEN p ELSE Onward(h[k - 1])]
    <3> HIDE DEF g
    <3> QED BY <2>4
  <2> QED BY <2>5
<1>3. n \in 0..n
  OBVIOUS
<1>4. n \in S
  <2> HIDE DEF S
  <2> QED BY <1>1, <1>2, <1>3, CountUp
<1> QED BY <1>4 DEF Follows

LEMMA ChainSteps ==
  ASSUME NEW p
  PROVE  /\ Chain(p)[0] = p
         /\ \A n \in Nat : n < Heads => Chain(p)[n + 1] = Onward(Chain(p)[n])
<1>1. Chain(p) = CHOOSE f : Follows(f, Heads, p)
  BY DEF Chain, Heads, Follows
<1>2. \E f : Follows(f, Heads, p)
  BY HeadsNat, ChainExists
<1>3. Follows(Chain(p), Heads, p)
  BY <1>1, <1>2, Zenon
<1>4. \A k \in 0..Heads : Chain(p)[k] = IF k = 0 THEN p ELSE Onward(Chain(p)[k - 1])
  BY <1>3 DEF Follows
<1>5. Chain(p)[0] = p
  BY <1>4, HeadsNat
<1>6. ASSUME NEW n \in Nat, n < Heads PROVE Chain(p)[n + 1] = Onward(Chain(p)[n])
  <2>1. n + 1 \in 0..Heads /\ n + 1 # 0 /\ (n + 1) - 1 = n
    BY <1>6, HeadsNat
  <2> QED BY <1>4, <2>1
<1> QED BY <1>5, <1>6

(* Where a unit goes: to a living person, or nowhere for good.             *)
LEMMA OnwardIs ==
  ASSUME alive \subseteq Person
  PROVE  /\ Onward("nobody") = "nobody"
         /\ \A x \in alive : Onward(x) \in alive \union {"nobody"}
         /\ \A x \in alive : x \notin DOMAIN graph => Onward(x) = x
         /\ \A x \in alive \intersect DOMAIN graph :
              Onward(x) = IF graph[x] \in alive THEN graph[x] ELSE "nobody"
  BY HeadsNat DEF Onward, NextVoter

LEMMA ChainLives ==
  ASSUME alive \subseteq Person, NEW p \in alive
  PROVE  \A n \in 0..Heads : Chain(p)[n] \in alive \union {"nobody"}
<1> DEFINE S == {k \in Nat : Chain(p)[k] \in alive \union {"nobody"}}
<1>1. 0 \in S
  BY ChainSteps
<1>2. ASSUME NEW k \in Nat, k < Heads, k \in S PROVE k + 1 \in S
  <2>1. Chain(p)[k + 1] = Onward(Chain(p)[k])
    BY <1>2, ChainSteps
  <2> QED BY <1>2, <2>1, OnwardIs
<1>3. \A k \in 0..Heads : k \in S
  <2> HIDE DEF S
  <2> QED BY <1>1, <1>2, CountUp, HeadsNat
<1> QED BY <1>3

(* Where a unit stays, it stays.                                           *)
LEMMA ChainRests ==
  ASSUME NEW p, NEW n \in 0..Heads, Onward(Chain(p)[n]) = Chain(p)[n]
  PROVE  Chain(p)[Heads] = Chain(p)[n]
<1> DEFINE S == {k \in Nat : Chain(p)[n + k] = Chain(p)[n]}
<1>1. 0 \in S
  <2>1. n + 0 = n
    BY HeadsNat
  <2> QED BY <2>1
<1>2. ASSUME NEW k \in Nat, k < Heads - n, k \in S PROVE k + 1 \in S
  <2>1. n + k \in Nat /\ n + k < Heads /\ (n + k) + 1 = n + (k + 1)
    BY <1>2, HeadsNat
  <2>2. Chain(p)[(n + k) + 1] = Onward(Chain(p)[n + k])
    BY <2>1, ChainSteps
  <2> QED BY <1>2, <2>1, <2>2
<1>3. Heads - n \in Nat /\ Heads - n \in 0..(Heads - n) /\ n + (Heads - n) = Heads
  BY HeadsNat
<1>4. Heads - n \in S
  <2> HIDE DEF S
  <2> QED BY <1>1, <1>2, <1>3, CountUp
<1> QED BY <1>3, <1>4

Voters == alive \ DOMAIN graph

(* A unit that ends with v comes from every closed set that holds v.       *)
LEMMA ChainBack ==
  ASSUME alive \subseteq Person, NEW p \in alive, NEW v \in Voters, Chain(p)[Heads] = v,
         NEW S \in SUBSET alive, v \in S,
         \A q \in alive \intersect DOMAIN graph : graph[q] \in S => q \in S
  PROVE  p \in S
<1> DEFINE T == {k \in Nat : Chain(p)[Heads - k] \in S}
<1>1. 0 \in T
  <2>1. Heads - 0 = Heads
    BY HeadsNat
  <2> QED BY <2>1
<1>2. ASSUME NEW k \in Nat, k < Heads, k \in T PROVE k + 1 \in T
  <2> DEFINE n == Heads - (k + 1)
             x == Chain(p)[n]
  <2>1. n \in Nat /\ n < Heads /\ n \in 0..Heads /\ n + 1 = Heads - k
    BY <1>2, HeadsNat
  <2>2. Onward(x) \in S
    <3>1. Chain(p)[n + 1] = Onward(x)
      BY <2>1, ChainSteps
    <3> QED BY <1>2, <2>1, <3>1
  <2>3. x \in alive \union {"nobody"}
    BY <2>1, ChainLives
  <2> HIDE DEF x
  <2>4. x \in alive
    BY <2>2, <2>3, OnwardIs, HeadsNat
  <2>5. x \in S
    BY <2>2, <2>4, OnwardIs, HeadsNat
  <2> QED BY <2>5 DEF x
<1>3. Heads \in 0..Heads /\ Heads - Heads = 0
  BY HeadsNat
<1>4. Heads \in T
  <2> HIDE DEF T
  <2> QED BY <1>1, <1>2, <1>3, CountUp, HeadsNat
<1> QED BY <1>3, <1>4, ChainSteps

(* Who delegates into a chain follows it, one step behind.                 *)
LEMMA ChainShifts ==
  ASSUME alive \subseteq Person, NEW q \in alive \intersect DOMAIN graph, graph[q] \in alive
  PROVE  \A n \in Nat : n < Heads => Chain(q)[n + 1] = Chain(graph[q])[n]
<1> DEFINE S == {k \in Nat : Chain(q)[k + 1] = Chain(graph[q])[k]}
<1>1. CASE Heads = 0
  BY <1>1
<1>2. CASE Heads > 0
  <2>1. 0 \in S
    <3>1. Chain(q)[0 + 1] = Onward(q) /\ Chain(graph[q])[0] = graph[q]
      BY <1>2, ChainSteps
    <3> QED BY <3>1, OnwardIs
  <2>2. ASSUME NEW k \in Nat, k < Heads - 1, k \in S PROVE k + 1 \in S
    <3>1. k + 1 \in Nat /\ k + 1 < Heads /\ k < Heads
      BY <2>2, HeadsNat
    <3>2. Chain(q)[(k + 1) + 1] = Onward(Chain(q)[k + 1])
      BY <3>1, ChainSteps
    <3>3. Chain(graph[q])[k + 1] = Onward(Chain(graph[q])[k])
      BY <3>1, ChainSteps
    <3> QED BY <2>2, <3>2, <3>3
  <2>3. Heads - 1 \in Nat
    BY <1>2, HeadsNat
  <2>4. \A k \in 0..(Heads - 1) : k \in S
    <3> HIDE DEF S
    <3> QED BY <2>1, <2>2, <2>3, CountUp
  <2> QED BY <2>3, <2>4, HeadsNat
<1> QED BY <1>1, <1>2, HeadsNat

(* A chain that meets itself goes round and round.                         *)
LEMMA ChainRounds ==
  ASSUME NEW p, NEW i \in 0..Heads, NEW j \in 0..Heads, Chain(p)[i] = Chain(p)[j]
  PROVE  Chain(p)[i + (Heads - j)] = Chain(p)[Heads] \/ i > j
<1>1. CASE i > j
  BY <1>1
<1>2. CASE ~(i > j)
  <2> DEFINE S == {k \in Nat : Chain(p)[i + k] = Chain(p)[j + k]}
  <2>1. 0 \in S
    <3>1. i + 0 = i /\ j + 0 = j
      BY HeadsNat
    <3> QED BY <3>1
  <2>2. ASSUME NEW k \in Nat, k < Heads - j, k \in S PROVE k + 1 \in S
    <3>1. /\ i + k \in Nat /\ i + k < Heads /\ (i + k) + 1 = i + (k + 1)
          /\ j + k \in Nat /\ j + k < Heads /\ (j + k) + 1 = j + (k + 1)
      BY <1>2, <2>2, HeadsNat
    <3>2. /\ Chain(p)[(i + k) + 1] = Onward(Chain(p)[i + k])
          /\ Chain(p)[(j + k) + 1] = Onward(Chain(p)[j + k])
      BY <3>1, ChainSteps
    <3> QED BY <2>2, <3>1, <3>2
  <2>3. Heads - j \in Nat /\ Heads - j \in 0..(Heads - j) /\ j + (Heads - j) = Heads
    BY HeadsNat
  <2>4. Heads - j \in S
    <3> HIDE DEF S
    <3> QED BY <2>1, <2>2, <2>3, CountUp
  <2> QED BY <2>3, <2>4
<1> QED BY <1>1, <1>2

(* More steps than there are persons: some person comes twice.             *)
LEMMA ChainRepeats ==
  ASSUME NEW p, \A n \in 0..Heads : Chain(p)[n] \in Person
  PROVE  \E i, j \in 0..Heads : i < j /\ Chain(p)[i] = Chain(p)[j]
<1> DEFINE f == [n \in 0..Heads |-> Chain(p)[n]]
<1>1. f \in [0..Heads -> Person]
  OBVIOUS
<1>2. IsFiniteSet(0..Heads) /\ Cardinality(0..Heads) = Heads + 1
  BY FS_Interval, HeadsNat
<1>3. Cardinality(Person) < Cardinality(0..Heads)
  BY <1>2, HeadsNat DEF Heads
<1>4. \E i, j \in 0..Heads : i # j /\ f[i] = f[j]
  <2> HIDE DEF f
  <2> QED BY <1>1, <1>2, <1>3, HeadsNat, FS_PigeonHole
<1>5. PICK i \in 0..Heads, j \in 0..Heads : i # j /\ Chain(p)[i] = Chain(p)[j]
  BY <1>4
<1> QED BY <1>5, HeadsNat

(* One step more does not change where a unit ends.                        *)
LEMMA ChainForth ==
  ASSUME alive \subseteq Person, NEW q \in alive \intersect DOMAIN graph, graph[q] \in alive,
         NEW v \in Voters, Chain(graph[q])[Heads] = v
  PROVE  Chain(q)[Heads] = v
<1>0. v \in alive /\ v \notin DOMAIN graph /\ v # "nobody" /\ Onward(v) = v /\ Heads > 0 /\ Heads \in Nat
  <2>1. Person # {} /\ v \in alive /\ v \notin DOMAIN graph
    BY DEF Voters
  <2>2. Heads # 0
    BY <2>1, HeadsNat, FS_EmptySet DEF Heads
  <2> QED BY <2>1, <2>2, OnwardIs, HeadsNat
<1>1. Onward(Chain(q)[Heads]) = v
  <2>1. Heads - 1 \in Nat /\ Heads - 1 < Heads /\ (Heads - 1) + 1 = Heads
    BY <1>0
  <2>2. Chain(q)[(Heads - 1) + 1] = Chain(graph[q])[Heads - 1]
    BY <2>1, ChainShifts
  <2>3. Chain(graph[q])[(Heads - 1) + 1] = Onward(Chain(graph[q])[Heads - 1])
    BY <2>1, ChainSteps
  <2> QED BY <2>1, <2>2, <2>3
<1>2. ASSUME NEW n \in 0..Heads, Chain(q)[n] = v PROVE Chain(q)[Heads] = v
  BY <1>0, <1>2, ChainRests
<1>3. \A n \in 0..Heads : Chain(q)[n] \in Person
  <2>1. ASSUME NEW n \in 0..Heads, Chain(q)[n] = "nobody" PROVE FALSE
    <3>1. Chain(q)[Heads] = "nobody"
      BY <2>1, ChainRests, OnwardIs
    <3> QED BY <1>0, <1>1, <3>1, OnwardIs
  <2> QED BY <2>1, ChainLives
<1>4. PICK i \in 0..Heads, j \in 0..Heads : i < j /\ Chain(q)[i] = Chain(q)[j]
  BY <1>3, ChainRepeats
<1> DEFINE m == i + (Heads - j)
<1>5. m \in Nat /\ m < Heads /\ m + 1 \in 0..Heads
  BY <1>0, <1>4
<1>6. Chain(q)[m] = Chain(q)[Heads]
  <2>1. ~(i > j)
    BY <1>0, <1>4
  <2> QED BY <1>4, <2>1, ChainRounds
<1>7. Chain(q)[m + 1] = v
  BY <1>1, <1>5, <1>6, ChainSteps
<1> HIDE DEF m
<1> QED BY <1>2, <1>5, <1>7

LEMMA TerminalIs ==
  ASSUME alive \subseteq Person, NEW p \in alive
  PROVE  /\ Terminal(p) \in Voters \union {"nobody"}
         /\ \A v \in Voters : Terminal(p) = v <=> Chain(p)[Heads] = v
         /\ p \in Voters => Terminal(p) = p
<1>1. Heads \in 0..Heads /\ 0 \in 0..Heads
  BY HeadsNat
<1>2. Chain(p)[Heads] \in alive \union {"nobody"}
  BY <1>1, ChainLives
<1>3. Terminal(p) = IF Chain(p)[Heads] \in DOMAIN graph THEN "nobody" ELSE Chain(p)[Heads]
  BY DEF Terminal, Heads
<1>4. \A v \in Voters : v # "nobody"
  BY HeadsNat DEF Voters
<1>5. ASSUME p \in Voters PROVE Chain(p)[Heads] = p
  <2>1. Chain(p)[0] = p /\ Onward(p) = p
    BY <1>5, ChainSteps, OnwardIs DEF Voters
  <2> QED BY <1>1, <2>1, ChainRests
<1> QED BY <1>2, <1>3, <1>4, <1>5 DEF Voters

(* The units that end with v are those of v's constituency.                *)
LEMMA ConstituencyIs ==
  ASSUME alive \subseteq Person, NEW v \in Voters
  PROVE  {p \in alive : Terminal(p) = v} = Constituency(v)
<1> DEFINE W == {p \in alive : Terminal(p) = v}
<1>1. ASSUME NEW p \in W PROVE p \in Constituency(v)
  <2>1. p \in alive /\ Chain(p)[Heads] = v
    BY TerminalIs
  <2>2. ASSUME NEW S \in SUBSET alive, v \in S,
               \A q \in alive \intersect DOMAIN graph : graph[q] \in S => q \in S
        PROVE  p \in S
    BY <2>1, <2>2, ChainBack
  <2> QED BY <2>1, <2>2 DEF Constituency
<1>2. ASSUME NEW p \in Constituency(v) PROVE p \in W
  <2>1. W \in SUBSET alive /\ v \in W
    BY TerminalIs DEF Voters
  <2>2. ASSUME NEW q \in alive \intersect DOMAIN graph, graph[q] \in W PROVE q \in W
    <3>1. graph[q] \in alive /\ Chain(graph[q])[Heads] = v
      BY <2>2, TerminalIs
    <3>2. Chain(q)[Heads] = v
      BY <3>1, ChainForth
    <3> QED BY <3>2, TerminalIs
  <2> HIDE DEF W
  <2> QED BY <2>1, <2>2 DEF Constituency
<1> QED BY <1>1, <1>2

LEMMA LiquidSound == alive \subseteq Person => LiquidIsSound
<1> SUFFICES ASSUME alive \subseteq Person, NEW v \in Person
             PROVE  WeightOf("liquid", v) =
                      IF v \in Voters THEN Cardinality(Constituency(v)) ELSE 0
  BY DEF LiquidIsSound, Voters
<1>1. Electorate("liquid") = Liquid
  BY DEF Electorate
<1>2. {Terminal(p) : p \in alive} \ {"nobody"} = Voters
  <2>1. ASSUME NEW p \in alive PROVE Terminal(p) \in Voters \union {"nobody"}
    BY TerminalIs
  <2>2. ASSUME NEW w \in Voters PROVE w \in alive /\ Terminal(w) = w /\ w # "nobody"
    BY TerminalIs, HeadsNat DEF Voters
  <2> QED BY <2>1, <2>2
<1>3. Liquid = [w \in Voters |-> Cardinality({p \in alive : Terminal(p) = w})]
  BY <1>2 DEF Liquid
<1>4. WeightOf("liquid", v) = IF v \in Voters THEN Cardinality({p \in alive : Terminal(p) = v}) ELSE 0
  BY <1>1, <1>3 DEF WeightOf
<1> QED BY <1>4, ConstituencyIs

(* Liquid democracy counts every living person at most once, for any       *)
(* persons and any delegations, chains, cycles and delegates who died      *)
(* included: a living person who does not delegate weighs what his         *)
(* constituency has heads (_liquid_resolve_weights in weights.py).         *)
THEOREM LiquidIsSoundHolds == Spec => []LiquidIsSound
<1>1. Spec => []TypeOK
  BY PolityTypes
<1>2. TypeOK => LiquidIsSound
  BY LiquidSound DEF TypeOK
<1> QED BY <1>1, <1>2, PTL
=============================================================================
