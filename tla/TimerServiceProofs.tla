------------------------- MODULE TimerServiceProofs -------------------------
(***************************************************************************)
(* What the timers rely on, for every set of timers, every set of running  *)
(* times and every clock: the order of the list, the time of an expiration *)
(* and of a sleep, and the service of timer.h that all of it implements.   *)
(* The invariant IInv of TimerManagerProofs is at the bottom of each.      *)
(***************************************************************************)
EXTENDS TimerManagerProofs

-----------------------------------------------------------------------------
(* The order of the list                                                   *)

\* One node may stand before another: the condition of ListOrdered.
InOrder(m, n) ==
    /\ n.state = "kActive" => m.state = "kActive" /\ m.expiration <= n.expiration
    /\ m.state = "kExpired" => n.state = "kExpired"

\* ListOrdered for any list and any nodes.
Sorted(list, nodes) ==
    \A i, j \in 1..Len(list) : i < j => InOrder(nodes[list[i]], nodes[list[j]])

\* The property in these words.
LEMMA ListOrderedIsSorted == ListOrdered <=> Sorted(timers, node)
BY DEF ListOrdered, Sorted, InOrder

\* Taking a node out leaves the others in order.
LEMMA RemoveSorted ==
    ASSUME NEW list \in Seq(Timers), NEW nodes, Sorted(list, nodes), NEW p \in 1..Len(list)
    PROVE  Sorted(RemoveAt(list, p), nodes)
<1> DEFINE r == RemoveAt(list, p)
           f(i) == IF i < p THEN i ELSE i + 1
<1>1. Len(r) = Len(list) - 1 /\ \A i \in 1..Len(list) - 1 : r[i] = list[f(i)]
  BY RemoveAtLemma
<1>2. \A i, j \in 1..Len(list) - 1 :
        i < j => f(i) \in 1..Len(list) /\ f(j) \in 1..Len(list) /\ f(i) < f(j)
  OBVIOUS
<1> HIDE DEF r, f
<1>3. Sorted(r, nodes)
  BY <1>1, <1>2 DEF Sorted
<1> QED BY <1>3 DEF r

\* Merging a node that is not expired keeps the order, although Precedes is no
\* strict weak ordering.
LEMMA MergeSorted ==
    ASSUME NEW list \in Seq(Timers), NEW nodes \in [Timers -> Node], Sorted(list, nodes),
           NEW t \in Timers, nodes[t].state # "kExpired", MergeInto(list, nodes, t)
    PROVE  Sorted(timers', nodes)
<1>1. PICK p \in 1..Len(list) + 1 :
        /\ \A i \in 1..p - 1 : ~ Precedes(nodes[t], nodes[list[i]])
        /\ p <= Len(list) => Precedes(nodes[t], nodes[list[p]])
        /\ timers' = InsertAt(list, p, t)
  BY DEF MergeInto
<1>2. /\ Len(timers') = Len(list) + 1
      /\ \A i \in 1..Len(list) + 1 :
           timers'[i] = IF i < p THEN list[i] ELSE IF i = p THEN t ELSE list[i - 1]
  BY <1>1, InsertAtLemma
<1>3. \A i \in 1..Len(list) : list[i] \in Timers /\ nodes[list[i]] \in Node
  OBVIOUS
<1>4. \A n \in Node : n.state \in State /\ n.expiration \in Int
  BY DEF Node
<1>5. nodes[t] \in Node
  OBVIOUS
<1>6. ASSUME NEW i \in 1..Len(list), i < p
      PROVE  InOrder(nodes[list[i]], nodes[t])
  <2>1. ~ Precedes(nodes[t], nodes[list[i]]) /\ nodes[list[i]] \in Node
    BY <1>1, <1>3, <1>6
  <2> QED
    BY <2>1, <1>4, <1>5 DEF Precedes, InOrder, State
<1>7. ASSUME NEW j \in 1..Len(list), p <= j
      PROVE  InOrder(nodes[t], nodes[list[j]])
  <2>1. p \in 1..Len(list) /\ Precedes(nodes[t], nodes[list[p]])
    BY <1>1, <1>7
  <2>2. p = j \/ InOrder(nodes[list[p]], nodes[list[j]])
    BY <2>1, <1>7 DEF Sorted
  <2>3. nodes[list[p]] \in Node /\ nodes[list[j]] \in Node
    BY <1>3, <2>1
  <2> QED
    BY <2>1, <2>2, <2>3, <1>4, <1>5 DEF Precedes, InOrder, State
<1>8. ASSUME NEW i \in 1..Len(list) + 1, NEW j \in 1..Len(list) + 1, i < j
      PROVE  InOrder(nodes[timers'[i]], nodes[timers'[j]])
  <2>1. CASE j < p
    BY <2>1, <1>2, <1>8 DEF Sorted
  <2>2. CASE j = p
    BY <2>2, <1>2, <1>6, <1>8
  <2>3. CASE j > p /\ i < p
    <3>1. timers'[i] = list[i] /\ timers'[j] = list[j - 1] /\ i \in 1..Len(list)
          /\ j - 1 \in 1..Len(list) /\ i < j - 1
      BY <2>3, <1>2
    <3> QED BY <3>1 DEF Sorted
  <2>4. CASE j > p /\ i = p
    <3>1. timers'[i] = t /\ timers'[j] = list[j - 1] /\ j - 1 \in 1..Len(list) /\ p <= j - 1
      BY <2>4, <1>2
    <3> QED BY <3>1, <1>7
  <2>5. CASE j > p /\ i > p
    <3>1. timers'[i] = list[i - 1] /\ timers'[j] = list[j - 1] /\ i - 1 \in 1..Len(list)
          /\ j - 1 \in 1..Len(list) /\ i - 1 < j - 1
      BY <2>5, <1>2, <1>8
    <3> QED BY <3>1 DEF Sorted
  <2> QED BY <2>1, <2>2, <2>3, <2>4, <2>5
<1> QED
  BY <1>2, <1>8 DEF Sorted

\* The order is about the states and expirations of the listed nodes only.
LEMMA SameSorted ==
    ASSUME NEW list \in Seq(Timers), NEW nodes, NEW others, Sorted(list, nodes),
           \A i \in 1..Len(list) : /\ others[list[i]].state = nodes[list[i]].state
                                   /\ others[list[i]].expiration = nodes[list[i]].expiration
    PROVE  Sorted(list, others)
BY DEF Sorted, InOrder

\* RemoveSorted for a timer's own place in the list.
LEMMA WithoutSorted ==
    ASSUME TypeOK, NEW t \in Timers, Listed(t), NEW nodes, Sorted(timers, nodes)
    PROVE  Sorted(ListWithout(t), nodes)
<1> DEFINE p == PositionOf(t)
<1>1. \E i \in 1..Len(timers) : timers[i] = t
  BY DEF Listed, ToSet, TypeOK
<1>2. p \in 1..Len(timers)
  BY <1>1 DEF PositionOf
<1> HIDE DEF p
<1>3. Sorted(RemoveAt(timers, p), nodes)
  BY <1>2, RemoveSorted DEF TypeOK
<1> QED BY <1>3 DEF ListWithout, p

\* A change of a node outside the list is no change of its order.
LEMMA OthersSorted ==
    ASSUME NEW list \in Seq(Timers), NEW t, t \notin ToSet(list), Sorted(list, node),
           \A u \in Timers : u # t => node'[u] = node[u]
    PROVE  Sorted(list, node')
<1>1. \A i \in 1..Len(list) : list[i] \in Timers /\ list[i] # t
  BY DEF ToSet
<1> QED BY <1>1, SameSorted, Zenon

\* Neither is a change of the access, the handler or the object of a node.
LEMMA FieldsSorted ==
    ASSUME TypeOK, Sorted(timers, node),
           \A u \in Timers : /\ node'[u].state = node[u].state
                             /\ node'[u].expiration = node[u].expiration
    PROVE  Sorted(timers, node')
<1>1. timers \in Seq(Timers) /\ \A i \in 1..Len(timers) : timers[i] \in Timers
  BY DEF TypeOK
<1> QED BY <1>1, SameSorted, Zenon

\* A client's new, started, stopped or destroyed timer takes its place.
LEMMA ClientOrder == IInv /\ ListOrdered /\ Client => ListOrdered'
<1> SUFFICES ASSUME IInv, ListOrdered, Client PROVE Sorted(timers', node')
  BY DEF ListOrdered, Sorted, InOrder
<1> USE DEF IInv
<1>1. Sorted(timers, node)
  BY ListOrderedIsSorted
<1>2. IInv'
  BY NextInvariant DEF Next
<1>3. ASSUME NEW t \in Timers, NEW h \in HandlerChoices, CreateTimer(t, h)
      PROVE  Sorted(timers', node')
  <2>1. /\ node' = [node EXCEPT ![t] = [FreedNode EXCEPT !.inst = TRUE, !.handler = h]]
        /\ MergeInto(timers, node', t) /\ t \notin ToSet(timers)
    BY <1>3 DEF CreateTimer, Listed
  <2>2. Sorted(timers, node')
    BY <1>1, <2>1, OthersSorted DEF TypeOK
  <2>3. node'[t].state # "kExpired" /\ node' \in [Timers -> Node]
    BY <1>2, <2>1 DEF TypeOK, FreedNode
  <2> QED
    BY <2>1, <2>2, <2>3, MergeSorted DEF TypeOK
<1>4. ASSUME NEW t \in Timers, NEW d \in Durations \cup {0}, UpdateTimer(t, d)
      PROVE  Sorted(timers', node')
  <2>1. /\ node' = DurationSet(t, d) /\ Listed(t)
        /\ MergeInto(ListWithout(t), node', t)
    BY <1>4 DEF UpdateTimer, Usable
  <2>2. /\ ListWithout(t) \in Seq(Timers) /\ t \notin ToSet(ListWithout(t))
    BY <2>1, ListWithoutLemma DEF TypeOK
  <2>3. Sorted(ListWithout(t), node)
    BY <1>1, <2>1, WithoutSorted
  <2>4. \A u \in Timers : u # t => node'[u] = node[u]
    BY <2>1 DEF DurationSet, TypeOK
  <2>5. Sorted(ListWithout(t), node')
    BY <2>2, <2>3, <2>4, OthersSorted
  <2>6. node'[t].state # "kExpired" /\ node' \in [Timers -> Node]
    BY <1>2, <2>1 DEF TypeOK, DurationSet, Node
  <2> QED
    BY <2>1, <2>2, <2>5, <2>6, MergeSorted
<1>5. ASSUME NEW t \in Timers, DestroyTimer(t)
      PROVE  Sorted(timers', node')
  <2>1. CASE EraseTimer(t)
    <3>1. /\ timers' = ListWithout(t) /\ Listed(t)
          /\ node' = [node EXCEPT ![t] = FreedNode]
      BY <1>5, <2>1 DEF EraseTimer, DestroyTimer, Usable
    <3>2. /\ ListWithout(t) \in Seq(Timers) /\ t \notin ToSet(ListWithout(t))
      BY <3>1, ListWithoutLemma DEF TypeOK
    <3>3. Sorted(ListWithout(t), node)
      BY <1>1, <3>1, WithoutSorted
    <3> QED
      BY <3>1, <3>2, <3>3, OthersSorted DEF TypeOK
  <2>2. CASE DeferDestruction(t)
    <3>1. timers' = timers /\ \A u \in Timers : /\ node'[u].state = node[u].state
                                                /\ node'[u].expiration = node[u].expiration
      BY <2>2 DEF DeferDestruction, TypeOK, Node
    <3> QED
      BY <1>1, <3>1, FieldsSorted, Zenon
  <2> QED BY <1>5, <2>1, <2>2 DEF DestroyTimer
<1>6. ASSUME NEW t \in Timers, NEW h \in HandlerChoices, AssignCallback(t, h)
      PROVE  Sorted(timers', node')
  <2>1. timers' = timers /\ \A u \in Timers : /\ node'[u].state = node[u].state
                                              /\ node'[u].expiration = node[u].expiration
    BY <1>6 DEF AssignCallback, TypeOK, Node
  <2> QED
    BY <1>1, <2>1, FieldsSorted, Zenon
<1>7. CASE DestroyManager
  BY <1>1, <1>7 DEF DestroyManager
<1> QED
  BY <1>3, <1>4, <1>5, <1>6, <1>7 DEF Client

\* The due prefix goes behind the expired nodes, of which there are none; an
\* expired node becomes idle behind the last idle one.
LEMMA WorkerOrder == IInv /\ ListOrdered /\ Worker => ListOrdered'
<1> SUFFICES ASSUME IInv, ListOrdered, Worker PROVE Sorted(timers', node')
  BY DEF ListOrdered, Sorted, InOrder
<1> USE DEF IInv
<1>1. Sorted(timers, node)
  BY ListOrderedIsSorted
<1>2. CASE \/ WorkerEnter \/ ServiceDone \/ BeginCallback \/ AbortOnEmptyHandler
           \/ Measure \/ TimedOut
  BY <1>1, <1>2 DEF WorkerEnter, ServiceDone, BeginCallback, AbortOnEmptyHandler, Measure, TimedOut
<1>3. CASE ExpireActive
  <2>1. PICK k \in 0..Len(timers) :
          /\ \A i \in 1..k : Due(timers[i])
          /\ node' = [t \in Timers |-> IF \E i \in 1..k : timers[i] = t
                                       THEN [node[t] EXCEPT !.state = "kExpired"]
                                       ELSE node[t]]
          /\ timers' = SubSeq(timers, k + 1, Len(timers)) \o SubSeq(timers, 1, k)
    BY <1>3 DEF ExpireActive
  <2> DEFINE rest == Len(timers) - k
  <2>2. /\ Len(timers') = Len(timers) /\ rest \in 0..Len(timers) /\ Len(timers) \in Nat
        /\ \A i \in 1..Len(timers) :
             timers'[i] = IF i <= rest THEN timers[i + k] ELSE timers[i - rest]
    <3>1. timers \in Seq(Timers)
      BY DEF TypeOK
    <3> DEFINE r == SubSeq(timers, k + 1, Len(timers)) \o SubSeq(timers, 1, k)
    <3>2. /\ Len(r) = Len(timers)
          /\ \A i \in 1..Len(timers) :
               r[i] = IF i <= rest THEN timers[i + k] ELSE timers[i - rest]
      BY <3>1, RotateLemma
    <3>3. timers' = r
      BY <2>1
    <3>4. Len(timers) \in Nat
      BY <3>1
    <3> HIDE DEF r
    <3> QED BY <3>2, <3>3, <3>4
  <2>3. \A i \in 1..Len(timers) :
          /\ timers[i] \in Timers /\ node[timers[i]] \in Node
          /\ node[timers[i]].state # "kExpired"
    <3>1. \A t \in Timers : node[t].state # "kExpired"
      BY <1>3 DEF ExpireActive, ExpiredTimerPending
    <3> QED BY <3>1 DEF TypeOK
  <2>4. \A i \in 1..k : node'[timers[i]].state = "kExpired"
    BY <2>1, <2>3 DEF Node
  <2>5. \A i \in k + 1..Len(timers) : node'[timers[i]] = node[timers[i]]
    <3> SUFFICES ASSUME NEW i \in k + 1..Len(timers) PROVE ~ \E j \in 1..k : timers[j] = timers[i]
      BY <2>1, <2>3
    <3>1. timers \in Seq(Timers) /\ DOMAIN timers = 1..Len(timers) /\ IsInjective(timers)
      BY DEF TypeOK
    <3>2. i \in 1..Len(timers) /\ i \notin 1..k /\ 1..k \subseteq 1..Len(timers)
      BY <2>1, <2>2
    <3> QED BY <3>1, <3>2 DEF IsInjective
  <2> HIDE DEF rest
  <2>6. ASSUME NEW i \in 1..Len(timers), NEW j \in 1..Len(timers), i < j
        PROVE  InOrder(node'[timers'[i]], node'[timers'[j]])
    <3>1. CASE j > rest
      <4>1. j - rest \in 1..k /\ timers'[j] = timers[j - rest]
        BY <2>2, <3>1 DEF rest
      <4> QED BY <2>4, <4>1 DEF InOrder
    <3>2. CASE j <= rest
      <4>1. k \in Nat /\ Len(timers) \in Nat /\ rest = Len(timers) - k /\ i < j /\ j <= rest
        BY <2>2, <2>6, <3>2 DEF rest
      <4>2. /\ i + k \in k + 1..Len(timers) /\ j + k \in k + 1..Len(timers) /\ i + k < j + k
            /\ i + k \in 1..Len(timers) /\ j + k \in 1..Len(timers) /\ i <= rest
        BY <4>1
      <4>3. timers'[i] = timers[i + k] /\ timers'[j] = timers[j + k]
        BY <2>2, <4>1, <4>2
      <4>4. InOrder(node[timers[i + k]], node[timers[j + k]])
        BY <1>1, <4>2 DEF Sorted
      <4> QED BY <2>5, <4>2, <4>3, <4>4
    <3> QED BY <2>2, <3>1, <3>2
  <2> QED BY <2>2, <2>6 DEF Sorted
<1>4. CASE ServiceCall \/ ServiceSkip
  <2>1. PICK i \in 1..Len(timers), access \in Access :
          /\ FirstExpired(i) /\ timers' = timers
          /\ node' = [node EXCEPT ![timers[i]].state = "kIdle", ![timers[i]].access = access]
    BY <1>4 DEF ServiceCall, ServiceSkip, Access
  <2>2. \A j \in 1..Len(timers) :
          /\ timers[j] \in Timers /\ node[timers[j]] \in Node
          /\ j # i => timers[j] # timers[i]
    BY DEF TypeOK, IsInjective
  <2>3. /\ node'[timers[i]].state = "kIdle"
        /\ \A j \in 1..Len(timers) : j # i => node'[timers[j]] = node[timers[j]]
    BY <2>1, <2>2 DEF TypeOK, Node
  <2>4. ASSUME NEW j \in 1..Len(timers)
        PROVE  node[timers[j]].state = "kExpired" <=> j >= i
    BY <1>1, <2>1 DEF FirstExpired, Sorted, InOrder
  <2>5. ASSUME NEW m \in 1..Len(timers), NEW n \in 1..Len(timers), m < n
        PROVE  InOrder(node'[timers[m]], node'[timers[n]])
    <3>1. InOrder(node[timers[m]], node[timers[n]])
      BY <1>1, <2>5 DEF Sorted
    <3>2. CASE m = i
      BY <2>3, <2>4, <2>5, <3>2 DEF InOrder
    <3>3. CASE n = i
      BY <2>3, <2>4, <2>5, <3>3 DEF InOrder
    <3> QED BY <2>3, <3>1, <3>2, <3>3
  <2> QED BY <2>1, <2>5 DEF Sorted
<1>5. CASE FinishCallback
  <2>1. cur \in Timers /\ Listed(cur)
    BY <1>5 DEF FinishCallback, ServicedTimerKept, TypeOK
  <2>2. CASE node[cur].access # "kDestruct"
    <3>1. timers' = timers /\ \A u \in Timers : /\ node'[u].state = node[u].state
                                                /\ node'[u].expiration = node[u].expiration
      BY <1>5, <2>1, <2>2 DEF FinishCallback, TypeOK, Node
    <3> QED
      BY <1>1, <3>1, FieldsSorted, Zenon
  <2>3. CASE node[cur].access = "kDestruct"
    <3>1. timers' = ListWithout(cur) /\ node' = [node EXCEPT ![cur] = FreedNode]
      BY <1>5, <2>3 DEF FinishCallback
    <3>2. /\ ListWithout(cur) \in Seq(Timers) /\ cur \notin ToSet(ListWithout(cur))
      BY <2>1, ListWithoutLemma DEF TypeOK
    <3>3. Sorted(ListWithout(cur), node)
      BY <1>1, <2>1, WithoutSorted
    <3> QED
      BY <3>1, <3>2, <3>3, OthersSorted DEF TypeOK
  <2> QED BY <2>2, <2>3
<1> QED
  BY <1>2, <1>3, <1>4, <1>5 DEF Worker

\* Every step keeps the list in order.
LEMMA NextOrder == IInv /\ ListOrdered /\ [Next]_vars => ListOrdered'
<1> SUFFICES ASSUME IInv, ListOrdered, [Next]_vars PROVE ListOrdered'
  OBVIOUS
<1>1. CASE UNCHANGED <<timers, node>>
  BY <1>1 DEF ListOrdered
<1> QED
  BY <1>1, ClientOrder, WorkerOrder DEF Next, JoinWorker, Spurious, Tick, Finished, vars

\* The list keeps the sections that operator< names: the active timers by
\* expiration, the idle ones, the expired ones, although operator< holds between
\* two idle nodes both ways.
THEOREM ListStaysOrdered == Spec => []ListOrdered
<1>1. Init => IInv /\ ListOrdered
  BY InitInvariant DEF Init, ListOrdered
<1> QED
  BY <1>1, NextInvariant, NextOrder, PTL DEF Spec

-----------------------------------------------------------------------------
(* Nobody expires early                                                    *)

\* The cut to whole milliseconds: what rounds to nothing is less than one.
LEMMA LessThanOne ==
    ASSUME NEW n \in Nat
    PROVE  /\ n \div TicksPerMs = 0 => n < TicksPerMs
           /\ n < TicksPerMs => n \div TicksPerMs = 0
BY TicksAssumption, SMTT(30)

\* A time stamp is never ahead of the clock.
StampsArePast == now <= clock

\* The worker copies the clock, and the clock does not go back.
LEMMA StampInvariant == TypeOK /\ StampsArePast /\ [Next]_vars => StampsArePast'
<1> SUFFICES ASSUME TypeOK, StampsArePast, [Next]_vars PROVE now' <= clock'
  BY DEF StampsArePast
<1>1. now \in 0..MaxTime /\ clock \in 0..MaxTime /\ now <= clock
  BY DEF TypeOK, StampsArePast
<1>2. CASE now' \in {0, now, clock} /\ clock' = clock
  BY <1>1, <1>2
<1>3. CASE Tick
  BY <1>1, <1>3 DEF Tick
<1>4. CASE Client
  BY <1>2, <1>4 DEF Client, CreateTimer, UpdateTimer, DestroyTimer, AssignCallback, DestroyManager
<1>5. CASE Worker
  BY <1>2, <1>5 DEF Worker, WorkerEnter, ExpireActive, ServiceCall, ServiceSkip, ServiceDone,
                    BeginCallback, AbortOnEmptyHandler, FinishCallback, Measure, TimedOut
<1>6. CASE JoinWorker \/ Spurious \/ UNCHANGED vars
  BY <1>2, <1>6 DEF JoinWorker, Spurious, vars
<1> QED
  BY <1>3, <1>4, <1>5, <1>6 DEF Next, Finished

\* Nothing but the scan makes a timer expired.
LEMMA OnlyScanExpires ==
    ASSUME IInv, [Next]_vars, ~ ExpireActive, NEW t \in Timers, IsActive(t)
    PROVE  node'[t].state # "kExpired"
<1> USE DEF IInv
<1>1. node \in [Timers -> Node] /\ node[t].state = "kActive"
  BY DEF TypeOK, IsActive
<1>2. CASE node' = node
  BY <1>1, <1>2
<1>3. CASE Client
  <2>1. ASSUME NEW u \in Timers, NEW h \in HandlerChoices, CreateTimer(u, h) \/ AssignCallback(u, h)
        PROVE  node'[t].state # "kExpired"
    BY <1>1, <2>1 DEF CreateTimer, AssignCallback, FreedNode, Node
  <2>2. ASSUME NEW u \in Timers, NEW d \in Durations \cup {0}, UpdateTimer(u, d)
        PROVE  node'[t].state # "kExpired"
    BY <1>1, <2>2 DEF UpdateTimer, DurationSet, Node
  <2>3. ASSUME NEW u \in Timers, DestroyTimer(u)
        PROVE  node'[t].state # "kExpired"
    <3>1. \/ node' = [node EXCEPT ![u] = FreedNode]
          \/ node' = [node EXCEPT ![u].inst = FALSE, ![u].access = "kDestruct"]
      BY <2>3 DEF DestroyTimer, EraseTimer, DeferDestruction
    <3>2. FreedNode.state # "kExpired"
      BY DEF FreedNode
    <3>3. \A n \in Node : [n EXCEPT !.inst = FALSE, !.access = "kDestruct"].state = n.state
      BY DEF Node
    <3> QED BY <1>1, <3>1, <3>2, <3>3
  <2> QED BY <1>2, <1>3, <2>1, <2>2, <2>3 DEF Client, DestroyManager
<1>4. CASE ServiceCall \/ ServiceSkip
  <2>1. PICK i \in 1..Len(timers), access \in Access :
          node' = [node EXCEPT ![timers[i]].state = "kIdle", ![timers[i]].access = access]
    BY <1>4 DEF ServiceCall, ServiceSkip, Access
  <2>2. timers[i] \in Timers
    BY DEF TypeOK
  <2> QED BY <1>1, <2>1, <2>2 DEF Node
<1>5. CASE FinishCallback
  <2>1. cur \in Timers
    BY <1>5 DEF FinishCallback, ServicedTimerKept, TypeOK
  <2> QED BY <1>1, <1>5, <2>1 DEF FinishCallback, FreedNode, Node
<1> QED
  BY <1>2, <1>3, <1>4, <1>5
     DEF Next, Worker, WorkerEnter, ServiceDone, BeginCallback, AbortOnEmptyHandler, Measure,
         TimedOut, JoinWorker, Spurious, Tick, Finished, vars

\* The scan takes for due what has less than a millisecond left at its stamp,
\* so no timer expires more than a millisecond before its expiration.
THEOREM NobodyExpiresEarly == Spec => NeverEarly
<1>1. IInv /\ StampsArePast /\ [Next]_vars =>
        [\A t \in Timers : IsActive(t) /\ node'[t].state = "kExpired" =>
            clock > node[t].expiration - TicksPerMs]_vars
  <2> SUFFICES ASSUME IInv, StampsArePast, [Next]_vars, NEW t \in Timers, IsActive(t),
                      node'[t].state = "kExpired"
               PROVE  clock > node[t].expiration - TicksPerMs
    OBVIOUS
  <2>1. ExpireActive
    BY OnlyScanExpires
  <2>2. node[t] \in Node /\ node[t].state = "kActive"
    BY DEF IInv, TypeOK, IsActive
  <2>3. Due(t)
    <3>1. PICK k \in 0..Len(timers) :
            /\ \A i \in 1..k : Due(timers[i])
            /\ node'[t] = IF \E i \in 1..k : timers[i] = t
                          THEN [node[t] EXCEPT !.state = "kExpired"] ELSE node[t]
      BY <2>1 DEF ExpireActive
    <3>2. \E i \in 1..k : timers[i] = t
      BY <2>2, <3>1
    <3> QED BY <3>1, <3>2
  <2> DEFINE e == node[t].expiration
  <2>4. e \in Nat /\ now \in Nat /\ clock \in Nat /\ now <= clock /\ TicksPerMs \in Nat \ {0}
    BY <2>2, TicksAssumption DEF Node, IInv, TypeOK, StampsArePast
  <2>5. e <= now \/ (e - now) \div TicksPerMs = 0
    BY <2>2, <2>3 DEF Due, GetDuration
  <2> HIDE DEF e
  <2>6. e <= now \/ e - now < TicksPerMs
    <3>1. CASE e > now
      <4>1. e - now \in Nat
        BY <2>4, <3>1
      <4> QED BY <2>5, <3>1, <4>1, <2>4, LessThanOne
    <3> QED BY <2>4, <3>1
  <2>7. clock > e - TicksPerMs
    BY <2>4, <2>6
  <2> QED BY <2>7 DEF e
<1>2. Init => IInv /\ StampsArePast
  BY InitInvariant DEF Init, StampsArePast
<1>3. IInv /\ StampsArePast /\ [Next]_vars => (IInv /\ StampsArePast)'
  BY NextInvariant, StampInvariant DEF IInv
<1> QED
  BY <1>1, <1>2, <1>3, PTL DEF Spec, NeverEarly

-----------------------------------------------------------------------------
(* Nobody is slept over                                                    *)

\* What the worker knows when it decides how long to sleep: it served nobody in
\* this pass, the scan found no due timer at the front, and no time has passed
\* since.
DecisionIsFresh ==
    /\ wpc \in {"service", "invoke", "callback"} => run
    /\ wpc = "scan" => now = clock
    /\ wpc = "measure" /\ ~ run => now = clock /\ (timers # <<>> => ~ Due(timers[1]))

\* The front timer expires first, and only listed timers are active.
LEMMA FrontIsEarliest ==
    ASSUME IInv, ListOrdered, NEW t \in Timers, IsActive(t)
    PROVE  /\ timers # <<>> /\ timers[1] \in Timers /\ IsActive(timers[1])
           /\ node[timers[1]].expiration <= node[t].expiration
<1>1. Listed(t)
  BY DEF IInv, DestructionInOrder, IsActive, FreedNode
<1>2. timers \in Seq(Timers)
  BY DEF IInv, TypeOK
<1>3. PICK j \in 1..Len(timers) : timers[j] = t
  BY <1>1, <1>2 DEF Listed, ToSet
<1>4. timers # <<>> /\ 1 \in 1..Len(timers) /\ timers[1] \in Timers
  BY <1>2, <1>3
<1>5. \A u \in Timers : node[u].expiration \in Int
  BY DEF IInv, TypeOK, Node
<1>6. j = 1 \/ 1 < j
  BY <1>2, <1>3
<1> QED BY <1>3, <1>4, <1>5, <1>6 DEF ListOrdered, IsActive

\* The front entry determines the sleep: it is not due, and the others expire
\* no sooner.
LEMMA MeasureSleep ==
    ASSUME IInv, ListOrdered, DecisionIsFresh, Measure
    PROVE  DecisionIsFresh' /\ SleepCoversActiveTimers'
<1>1. CASE run
  BY <1>1 DEF Measure, DecisionIsFresh, SleepCoversActiveTimers
<1>2. CASE ~ run
  <2>1. /\ wpc' = IF SleepTime # 0 THEN "timedwait" ELSE "wait"
        /\ wakeAt' = IF SleepTime # 0 THEN clock + SleepTime * TicksPerMs ELSE 0
        /\ node' = node /\ now = clock /\ (timers # <<>> => ~ Due(timers[1]))
    BY <1>2 DEF Measure, DecisionIsFresh
  <2>2. ASSUME NEW t \in Timers, IsActive(t)
        PROVE  SleepTime # 0 /\ clock + SleepTime * TicksPerMs <= node[t].expiration
    <3> DEFINE e == node[timers[1]].expiration
    <3>1. /\ timers # <<>> /\ IsActive(timers[1]) /\ timers[1] \in Timers
          /\ e <= node[t].expiration
      BY <2>2, FrontIsEarliest
    <3>2. SleepTime = GetDuration(node[timers[1]], clock) /\ SleepTime # 0
      BY <2>1, <3>1 DEF SleepTime, Due
    <3>3. ~ (e <= clock) /\ SleepTime = (e - clock) \div TicksPerMs
      BY <3>2 DEF GetDuration
    <3>4. e \in Nat /\ clock \in Nat /\ node[t].expiration \in Nat /\ TicksPerMs \in Nat
      BY <3>1, TicksAssumption DEF IInv, TypeOK, Node
    <3> HIDE DEF e
    <3>5. e - clock \in Nat
      BY <3>3, <3>4
    <3> DEFINE s == SleepTime * TicksPerMs
    <3>6. s \in Nat /\ s <= e - clock
      BY <3>3, <3>4, <3>5, WholeMilliseconds
    <3>7. SleepTime # 0
      BY <3>2
    <3> HIDE DEF s
    <3>8. clock + s <= node[t].expiration
      BY <3>1, <3>4, <3>6
    <3> QED BY <3>7, <3>8 DEF s
  <2>3. DecisionIsFresh'
    BY <2>1 DEF DecisionIsFresh
  <2>4. SleepCoversActiveTimers'
    BY <2>1, <2>2 DEF SleepCoversActiveTimers, IsActive
  <2> QED BY <2>3, <2>4
<1> QED BY <1>1, <1>2

\* What a client may change while the worker sleeps without waking it.
LEMMA ClientSleep ==
    ASSUME IInv, DecisionIsFresh, SleepCoversActiveTimers, Client
    PROVE  DecisionIsFresh' /\ SleepCoversActiveTimers'
<1> USE DEF IInv
<1>1. node \in [Timers -> Node]
  BY DEF TypeOK
<1>2. CASE /\ wpc' \notin {"scan", "measure", "wait", "timedwait"}
           /\ wpc' = "ready" \/ (wpc' = wpc /\ run' = run)
  BY <1>2 DEF DecisionIsFresh, SleepCoversActiveTimers
<1>3. CASE /\ LockFree /\ wpc' = wpc /\ wakeAt' = wakeAt /\ run' = run
           /\ \A t \in Timers : IsActive(t)' => /\ IsActive(t)
                                                /\ node'[t].expiration = node[t].expiration
  BY <1>3 DEF DecisionIsFresh, SleepCoversActiveTimers, LockFree
<1>4. ASSUME NEW t \in Timers, NEW h \in HandlerChoices, CreateTimer(t, h)
      PROVE  DecisionIsFresh' /\ SleepCoversActiveTimers'
  BY <1>2, <1>4 DEF CreateTimer, NotifyOne, Asleep, LockFree
<1>5. ASSUME NEW t \in Timers, NEW d \in Durations \cup {0}, UpdateTimer(t, d)
      PROVE  DecisionIsFresh' /\ SleepCoversActiveTimers'
  <2>1. CASE d # 0
    BY <1>2, <1>5, <2>1 DEF UpdateTimer, NotifyOne, Asleep, LockFree
  <2>2. CASE d = 0
    <3>1. /\ node' = [node EXCEPT ![t].state = "kIdle"]
          /\ LockFree /\ wpc' = wpc /\ wakeAt' = wakeAt /\ run' = run
      BY <1>5, <2>2 DEF UpdateTimer, DurationSet
    <3> QED BY <1>1, <1>3, <3>1 DEF IsActive, Node
  <2> QED BY <2>1, <2>2
<1>6. ASSUME NEW t \in Timers, DestroyTimer(t)
      PROVE  DecisionIsFresh' /\ SleepCoversActiveTimers'
  <2>1. /\ LockFree /\ wakeAt' = wakeAt /\ run' = run /\ wpc' \in {wpc, NotifyOne}
        /\ \/ node' = [node EXCEPT ![t] = FreedNode]
           \/ node' = [node EXCEPT ![t].inst = FALSE, ![t].access = "kDestruct"]
    BY <1>6 DEF DestroyTimer, EraseTimer, DeferDestruction
  <2>2. \A u \in Timers : IsActive(u)' => /\ IsActive(u)
                                          /\ node'[u].expiration = node[u].expiration
    <3>1. FreedNode.state # "kActive"
      BY DEF FreedNode
    <3>2. \A n \in Node :
            /\ [n EXCEPT !.inst = FALSE, !.access = "kDestruct"].state = n.state
            /\ [n EXCEPT !.inst = FALSE, !.access = "kDestruct"].expiration = n.expiration
      BY DEF Node
    <3> QED BY <1>1, <2>1, <3>1, <3>2 DEF IsActive
  <2>3. CASE wpc' = wpc
    BY <1>3, <2>1, <2>2, <2>3
  <2>4. CASE wpc' = "ready"
    BY <1>2, <2>4
  <2> QED BY <2>1, <2>3, <2>4 DEF NotifyOne
<1>7. ASSUME NEW t \in Timers, NEW h \in HandlerChoices, AssignCallback(t, h)
      PROVE  DecisionIsFresh' /\ SleepCoversActiveTimers'
  <2>1. /\ node' = [node EXCEPT ![t].handler = h]
        /\ UNCHANGED <<timers, wpc, now, run, wakeAt, clock>>
    BY <1>7 DEF AssignCallback
  <2>2. \A u \in Timers : /\ node'[u].state = node[u].state
                          /\ node'[u].expiration = node[u].expiration
    BY <1>1, <2>1 DEF Node
  <2>3. timers # <<>> => timers[1] \in Timers
    BY DEF TypeOK
  <2>4. \A u \in Timers : Due(u)' <=> Due(u)
    BY <2>1, <2>2 DEF Due, IsActive, GetDuration
  <2>5. DecisionIsFresh'
    BY <2>1, <2>3, <2>4 DEF DecisionIsFresh
  <2>6. SleepCoversActiveTimers'
    BY <2>1, <2>2 DEF SleepCoversActiveTimers, IsActive
  <2> QED BY <2>5, <2>6
<1>8. CASE DestroyManager
  BY <1>2, <1>8 DEF DestroyManager, NotifyOne, Asleep, LockFree
<1> QED
  BY <1>4, <1>5, <1>6, <1>7, <1>8 DEF Client

\* A scan that expires nobody leaves the list and a front that is not due.
LEMMA ExpireSleep ==
    ASSUME IInv, DecisionIsFresh, ExpireActive
    PROVE  DecisionIsFresh' /\ SleepCoversActiveTimers'
<1>1. PICK k \in 0..Len(timers) :
        /\ k < Len(timers) => ~ Due(timers[k + 1])
        /\ node' = [t \in Timers |-> IF \E i \in 1..k : timers[i] = t
                                     THEN [node[t] EXCEPT !.state = "kExpired"]
                                     ELSE node[t]]
        /\ timers' = SubSeq(timers, k + 1, Len(timers)) \o SubSeq(timers, 1, k)
        /\ run' = (k > 0)
  BY DEF ExpireActive
<1>2. /\ wpc' = IF run' THEN "service" ELSE "measure"
      /\ now = clock /\ now' = now /\ clock' = clock
  BY DEF ExpireActive, DecisionIsFresh
<1>3. SleepCoversActiveTimers'
  BY <1>2 DEF SleepCoversActiveTimers
<1>4. CASE k > 0
  BY <1>1, <1>2, <1>3, <1>4 DEF DecisionIsFresh
<1>5. CASE k = 0
  <2>1. timers \in Seq(Timers) /\ node \in [Timers -> Node] /\ Len(timers) \in Nat
    BY DEF IInv, TypeOK
  <2> DEFINE r == SubSeq(timers, k + 1, Len(timers)) \o SubSeq(timers, 1, k)
  <2>2. r \in Seq(Timers) /\ Len(r) = Len(timers) /\ \A i \in 1..Len(timers) : r[i] = timers[i]
    BY <1>5, <2>1, RotateLemma
  <2>3. timers' = r
    BY <1>1
  <2> HIDE DEF r
  <2>4. node' = node
    BY <1>1, <1>5, <2>1
  <2>5. timers' # <<>> => /\ 0 < Len(timers) /\ timers'[1] = timers[1]
                          /\ ~ Due(timers[1])
    BY <1>1, <1>5, <2>1, <2>2, <2>3
  <2> QED
    BY <1>2, <1>3, <2>4, <2>5 DEF DecisionIsFresh, Due, IsActive, GetDuration
<1> QED BY <1>4, <1>5, <1>3, <1>1

\* When no time passes between the scan and the measurement, the worker never
\* sleeps past an active timer, whatever clients do before and during its sleep.
THEOREM NoTimerIsSleptOver ==
    ASSUME TickDuringScan = FALSE
    PROVE  Spec => []SleepCoversActiveTimers
<1> DEFINE Inv == IInv /\ ListOrdered /\ DecisionIsFresh /\ SleepCoversActiveTimers
<1>1. Init => Inv
  BY InitInvariant DEF Init, ListOrdered, DecisionIsFresh, SleepCoversActiveTimers
<1>2. Inv /\ [Next]_vars => Inv'
  <2> SUFFICES ASSUME Inv, [Next]_vars PROVE DecisionIsFresh' /\ SleepCoversActiveTimers'
    BY NextInvariant, NextOrder
  <2>1. CASE Client
    BY <2>1, ClientSleep
  <2>2. CASE ExpireActive
    BY <2>2, ExpireSleep
  <2>3. CASE Measure
    BY <2>3, MeasureSleep
  <2>4. CASE /\ wpc' \notin {"measure", "wait", "timedwait"}
             /\ wpc' = "scan" => now' = clock'
             /\ wpc' \in {"service", "invoke", "callback"} =>
                  run' = run /\ wpc \in {"service", "invoke", "callback"}
    BY <2>4 DEF DecisionIsFresh, SleepCoversActiveTimers
  <2>5. CASE ServiceCall \/ BeginCallback \/ AbortOnEmptyHandler \/ FinishCallback \/ TimedOut
             \/ Spurious \/ WorkerEnter \/ ServiceSkip
    BY <2>4, <2>5 DEF ServiceCall, BeginCallback, AbortOnEmptyHandler, FinishCallback,
                      TimedOut, Spurious, WorkerEnter, ServiceSkip
  <2>6. CASE ServiceDone
    BY <2>6 DEF ServiceDone, DecisionIsFresh, SleepCoversActiveTimers
  <2>7. CASE Tick
    BY <2>7 DEF Tick, DecisionIsFresh, SleepCoversActiveTimers, IsActive
  <2>8. CASE UNCHANGED <<timers, node, wpc, now, run, wakeAt, clock>>
    BY <2>8 DEF DecisionIsFresh, SleepCoversActiveTimers, Due, IsActive, GetDuration
  <2> QED
    BY <2>1, <2>2, <2>3, <2>5, <2>6, <2>7, <2>8 DEF Next, Worker, JoinWorker, Finished, vars
<1>3. Inv => SleepCoversActiveTimers
  OBVIOUS
<1> QED
  BY <1>1, <1>2, <1>3, PTL DEF Spec

-----------------------------------------------------------------------------
(* The manager implements TimerService                                     *)

\* The mapping of ImplementsService, named.
timerBar == [t \in Timers |->
               IF ~ node[t].inst THEN "absent"
               ELSE IF node[t].state = "kIdle" THEN "stopped" ELSE "running"]
handlerBar == [t \in Timers |-> node[t].inst /\ node[t].handler]
serviceBar == CASE dtor = "live"    -> "open"
                [] dtor = "joining" -> "closing"
                [] dtor = "done"    -> "closed"

\* A step of the service, or one it does not see.
ServiceStep == [Service!ServiceNext]_(Service!serviceVars)

\* The manager starts with no timer and open.
LEMMA InitRefines == Init => Service!ServiceInit
<1> SUFFICES ASSUME Init PROVE Service!ServiceInit
  OBVIOUS
<1>1. \A t \in Timers : ~ node[t].inst
  BY DEF Init, FreedNode
<1> QED
  BY <1>1 DEF Init, Service!ServiceInit

\* A name without a node is absent, and the manager is still open: a new timer
\* is stopped.
LEMMA CreateRefines ==
    ASSUME IInv, NEW t \in Timers, NEW h \in HandlerChoices, CreateTimer(t, h)
    PROVE  Service!Create(t, h)
<1> USE DEF IInv
<1>1. /\ node' = [node EXCEPT ![t] = [FreedNode EXCEPT !.inst = TRUE, !.handler = h]]
      /\ ~ Listed(t) /\ UNCHANGED <<cur, dtor>> /\ ~ termination
  BY DEF CreateTimer
<1>2. dtor = "live" /\ node[t] = FreedNode /\ ~ node[t].inst
  BY <1>1 DEF DestructionInOrder, FreedNode
<1>3. node'[t].inst /\ node'[t].state = "kIdle" /\ node'[t].handler = h
  BY <1>1 DEF TypeOK, FreedNode
<1>4. \A u \in Timers : u # t => node'[u] = node[u]
  BY <1>1 DEF TypeOK
<1>5. timerBar' = [timerBar EXCEPT ![t] = "stopped"]
  BY <1>3, <1>4 DEF timerBar
<1>6. handlerBar' = [handlerBar EXCEPT ![t] = h]
  BY <1>3, <1>4, HandlersAssumption DEF handlerBar
<1> QED
  BY <1>1, <1>2, <1>5, <1>6 DEF Service!Create, Service!Exists, timerBar, handlerBar

\* Only a timer with a handler runs, and only while the manager is open.
LEMMA UpdateRefines ==
    ASSUME IInv, NEW t \in Timers, NEW d \in Durations \cup {0}, UpdateTimer(t, d)
    PROVE  Service!Start(t) \/ Service!Stop(t)
<1> USE DEF IInv
<1>1. /\ node' = DurationSet(t, d) /\ node[t].inst
      /\ Accepts(d) /\ MayRun(t, d) /\ UNCHANGED <<cur, dtor>>
  BY DEF UpdateTimer, Usable
<1>2. \A u \in Timers : /\ u # t => node'[u] = node[u]
                        /\ node'[u].inst = node[u].inst
                        /\ node'[u].handler = node[u].handler
  BY <1>1 DEF TypeOK, DurationSet, Node
<1>3. handlerBar' = handlerBar
  BY <1>2 DEF handlerBar
<1>4. CASE d # 0
  <2>1. node'[t].state = "kActive" /\ node[t].handler /\ dtor = "live"
    BY <1>1, <1>4 DEF TypeOK, DurationSet, Node, Accepts, MayRun, DestructionInOrder
  <2>2. timerBar' = [timerBar EXCEPT ![t] = "running"]
    BY <1>1, <1>2, <2>1 DEF timerBar
  <2>3. Service!Start(t)
    BY <1>1, <1>3, <2>1, <2>2 DEF Service!Start, Service!Exists, timerBar, handlerBar
  <2> QED BY <2>3
<1>5. CASE d = 0
  <2>1. node'[t].state = "kIdle"
    BY <1>1, <1>5 DEF TypeOK, DurationSet, Node
  <2>2. timerBar' = [timerBar EXCEPT ![t] = "stopped"]
    BY <1>1, <1>2, <2>1 DEF timerBar
  <2>3. Service!Stop(t)
    BY <1>1, <1>3, <2>2 DEF Service!Stop, Service!Exists, timerBar, handlerBar
  <2> QED BY <2>3
<1> QED BY <1>4, <1>5

\* A destroyed timer is absent at once, also when its node stays in the list.
LEMMA DestroyRefines ==
    ASSUME IInv, NEW t \in Timers, DestroyTimer(t)
    PROVE  Service!Destroy(t)
<1> USE DEF IInv
<1>1. /\ node[t].inst /\ UNCHANGED <<cur, dtor>>
      /\ \/ node' = [node EXCEPT ![t] = FreedNode]
         \/ node' = [node EXCEPT ![t].inst = FALSE, ![t].access = "kDestruct"]
  BY DEF DestroyTimer, Usable, EraseTimer, DeferDestruction
<1>2. ~ node'[t].inst /\ \A u \in Timers : u # t => node'[u] = node[u]
  BY <1>1 DEF TypeOK, Node, FreedNode
<1>3. timerBar' = [timerBar EXCEPT ![t] = "absent"]
  BY <1>2 DEF timerBar
<1>4. handlerBar' = [handlerBar EXCEPT ![t] = FALSE]
  BY <1>2 DEF handlerBar
<1> QED
  BY <1>1, <1>3, <1>4 DEF Service!Destroy, Service!Exists, timerBar, handlerBar

\* A new handler is no start and no stop.
LEMMA AssignRefines ==
    ASSUME IInv, NEW t \in Timers, NEW h \in HandlerChoices, AssignCallback(t, h)
    PROVE  Service!SetHandler(t, h)
<1> USE DEF IInv
<1>1. node[t].inst /\ node' = [node EXCEPT ![t].handler = h] /\ UNCHANGED <<cur, dtor>>
  BY DEF AssignCallback, Usable
<1>2. /\ node'[t].handler = h
      /\ \A u \in Timers : /\ u # t => node'[u] = node[u]
                           /\ node'[u].inst = node[u].inst
                           /\ node'[u].state = node[u].state
  BY <1>1 DEF TypeOK, Node
<1>3. timerBar' = timerBar
  BY <1>2 DEF timerBar
<1>4. handlerBar' = [handlerBar EXCEPT ![t] = h]
  BY <1>1, <1>2, HandlersAssumption DEF handlerBar
<1> QED
  BY <1>1, <1>3, <1>4 DEF Service!SetHandler, Service!Exists, timerBar, handlerBar

\* The manager closes, and is closed when no timer is left.
LEMMA ManagerRefines ==
    ASSUME IInv, DestroyManager \/ JoinWorker
    PROVE  Service!Close \/ Service!Closed
<1> USE DEF IInv
<1>1. CASE DestroyManager
  BY <1>1 DEF DestroyManager, Service!Close
<1>2. CASE JoinWorker
  <2>1. cur = NoTimer
    BY <1>2 DEF JoinWorker, ServicedTimerKept
  <2>2. timers = <<>>
    BY <1>2 DEF JoinWorker, DestructionInOrder
  <2>3. \A t \in Timers : ~ node[t].inst
    BY <2>2 DEF DestructionInOrder, Listed, ToSet, FreedNode
  <2> QED
    BY <1>2, <2>1, <2>3 DEF JoinWorker, Service!Closed, Service!Exists
<1> QED BY <1>1, <1>2

\* A service step takes the first expired timer: it is called, or it runs out
\* for want of a handler, or it was destroyed already.
LEMMA ServiceRefines ==
    ASSUME IInv, ServiceCall \/ ServiceSkip
    PROVE  \/ \E t \in Timers : Service!Call(t) \/ Service!RunOut(t)
           \/ UNCHANGED <<timerBar, handlerBar, cur, serviceBar>>
<1> USE DEF IInv
<1>1. PICK i \in 1..Len(timers), access \in Access :
        /\ FirstExpired(i)
        /\ node' = [node EXCEPT ![timers[i]].state = "kIdle", ![timers[i]].access = access]
        /\ \/ Callable(timers[i]) /\ cur' = timers[i]
           \/ ~ Callable(timers[i]) /\ cur' = cur
        /\ dtor' = dtor
  BY DEF ServiceCall, ServiceSkip, Access
<1>t. PICK t \in Timers : t = timers[i]
  BY DEF TypeOK
<1>2. node[t].state = "kExpired" /\ cur = NoTimer
  BY <1>1, <1>t DEF FirstExpired, ServicedTimerKept, ServiceCall, ServiceSkip
<1>3. node' = [node EXCEPT ![t].state = "kIdle", ![t].access = access]
  BY <1>1, <1>t
<1>4. /\ node'[t].state = "kIdle"
      /\ \A u \in Timers : /\ u # t => node'[u] = node[u]
                           /\ node'[u].inst = node[u].inst
                           /\ node'[u].handler = node[u].handler
  BY <1>2, <1>3 DEF TypeOK, Node
<1>5. handlerBar' = handlerBar
  BY <1>4 DEF handlerBar
<1>6. CASE ~ node[t].inst
  <2>1. timerBar' = timerBar
    BY <1>4, <1>6 DEF timerBar
  <2>2. cur' = cur
    BY <1>1, <1>t, <1>6 DEF Callable
  <2> QED BY <1>1, <1>5, <2>1, <2>2 DEF serviceBar
<1>7. CASE node[t].inst
  <2>1. timerBar' = [timerBar EXCEPT ![t] = "stopped"]
    BY <1>4, <1>7 DEF timerBar
  <2>2. CASE node[t].handler
    <3>1. cur' = t
      BY <1>1, <1>t, <1>7, <2>2 DEF Callable
    <3>2. Service!Call(t)
      BY <1>1, <1>2, <1>5, <1>7, <2>1, <2>2, <3>1 DEF Service!Call, timerBar, handlerBar
    <3> QED BY <3>2
  <2>3. CASE ~ node[t].handler
    <3>1. cur' = cur
      BY <1>1, <1>t, <2>3 DEF Callable
    <3>2. Service!RunOut(t)
      BY <1>1, <1>2, <1>5, <1>7, <2>1, <2>3, <3>1 DEF Service!RunOut, timerBar, handlerBar
    <3> QED BY <3>2
  <2> QED BY <2>2, <2>3
<1> QED BY <1>6, <1>7

\* The end of a handler is no start, no stop and no destruction: a node freed
\* now was absent already.
LEMMA FinishRefines ==
    ASSUME IInv, FinishCallback
    PROVE  Service!Return
<1> USE DEF IInv
<1>1. cur \in Timers /\ cur # NoTimer /\ cur' = NoTimer /\ dtor' = dtor
  BY TimersAssumption DEF FinishCallback, ServicedTimerKept, TypeOK
<1>2. \A u \in Timers : /\ node'[u].inst = node[u].inst
                        /\ node[u].inst => /\ node'[u].state = node[u].state
                                           /\ node'[u].handler = node[u].handler
  <2>1. CASE node[cur].access # "kDestruct"
    <3>1. node' = [node EXCEPT ![cur].access = "kDirect"]
      BY <2>1 DEF FinishCallback
    <3> QED BY <1>1, <3>1 DEF TypeOK, Node
  <2>2. CASE node[cur].access = "kDestruct"
    <3>1. node' = [node EXCEPT ![cur] = FreedNode] /\ ~ node[cur].inst
      BY <1>1, <2>2 DEF FinishCallback, ServicedTimerKept
    <3>2. node[cur].inst = FALSE
      BY <1>1, <3>1 DEF TypeOK, Node
    <3>3. node'[cur].inst = FALSE
      BY <1>1, <3>1 DEF TypeOK, FreedNode
    <3>4. \A u \in Timers : u # cur => node'[u] = node[u]
      BY <3>1 DEF TypeOK
    <3> QED BY <3>2, <3>3, <3>4
  <2> QED BY <2>1, <2>2
<1>3. \A u \in Timers : node[u].inst \in BOOLEAN /\ node'[u].inst \in BOOLEAN
  BY FinishInvariant DEF TypeOK, Node
<1>4. timerBar' = timerBar
  BY <1>2, <1>3 DEF timerBar
<1>5. handlerBar' = handlerBar
  <2>1. \A u \in Timers : (node'[u].inst /\ node'[u].handler) = (node[u].inst /\ node[u].handler)
    BY <1>2, <1>3
  <2> QED BY <2>1 DEF handlerBar
<1> QED
  BY <1>1, <1>4, <1>5 DEF Service!Return, timerBar, handlerBar

\* Taking due timers out of the active section is no step of the service:
\* they run until they are serviced.
LEMMA ExpireRefines ==
    ASSUME IInv, ExpireActive
    PROVE  UNCHANGED <<timerBar, handlerBar, cur, serviceBar>>
<1> USE DEF IInv
<1>1. PICK k \in 0..Len(timers) :
        /\ \A i \in 1..k : Due(timers[i])
        /\ node' = [t \in Timers |-> IF \E i \in 1..k : timers[i] = t
                                     THEN [node[t] EXCEPT !.state = "kExpired"]
                                     ELSE node[t]]
  BY DEF ExpireActive
<1>2. \A t \in Timers : /\ node'[t].inst = node[t].inst
                        /\ node'[t].handler = node[t].handler
                        /\ node'[t].state = "kIdle" <=> node[t].state = "kIdle"
  <2> SUFFICES ASSUME NEW t \in Timers
               PROVE  /\ node'[t].inst = node[t].inst
                      /\ node'[t].handler = node[t].handler
                      /\ node'[t].state = "kIdle" <=> node[t].state = "kIdle"
    OBVIOUS
  <2>1. CASE \E i \in 1..k : timers[i] = t
    <3>1. node[t].state = "kActive" /\ node[t] \in Node
      BY <1>1, <2>1 DEF Due, IsActive, TypeOK
    <3> QED BY <1>1, <2>1, <3>1 DEF Node
  <2>2. CASE ~ \E i \in 1..k : timers[i] = t
    BY <1>1, <2>2
  <2> QED BY <2>1, <2>2
<1>3. timerBar' = timerBar
  BY <1>2 DEF timerBar
<1>4. handlerBar' = handlerBar
  BY <1>2 DEF handlerBar
<1> QED BY <1>3, <1>4 DEF ExpireActive, serviceBar

\* Every step of a client is one of the service.
LEMMA ClientRefines ==
    ASSUME IInv, Client
    PROVE  Service!ServiceNext
<1>1. ASSUME NEW t \in Timers, NEW h \in HandlerChoices, CreateTimer(t, h)
      PROVE  Service!ServiceNext
  BY <1>1, CreateRefines, HandlersAssumption DEF Service!ServiceNext
<1>2. ASSUME NEW t \in Timers, NEW h \in HandlerChoices, AssignCallback(t, h)
      PROVE  Service!ServiceNext
  BY <1>2, AssignRefines, HandlersAssumption DEF Service!ServiceNext
<1>3. ASSUME NEW t \in Timers, NEW d \in Durations \cup {0}, UpdateTimer(t, d)
      PROVE  Service!ServiceNext
  BY <1>3, UpdateRefines DEF Service!ServiceNext
<1>4. ASSUME NEW t \in Timers, DestroyTimer(t)
      PROVE  Service!ServiceNext
  BY <1>4, DestroyRefines DEF Service!ServiceNext
<1>5. CASE DestroyManager
  BY <1>5, ManagerRefines DEF Service!ServiceNext
<1> QED
  BY <1>1, <1>2, <1>3, <1>4, <1>5 DEF Client

\* Every step of the manager is one of the service or leaves it alone.
LEMMA StepRefines == IInv /\ [Next]_vars => ServiceStep
<1> SUFFICES ASSUME IInv, [Next]_vars PROVE ServiceStep
  OBVIOUS
<1>1. CASE UNCHANGED <<timerBar, handlerBar, cur, serviceBar>>
  BY <1>1 DEF ServiceStep, Service!serviceVars, timerBar, handlerBar, serviceBar
<1>2. CASE UNCHANGED <<node, cur, dtor>>
  BY <1>1, <1>2 DEF timerBar, handlerBar, serviceBar
<1>3. CASE Client
  BY <1>3, ClientRefines DEF ServiceStep
<1>4. CASE JoinWorker
  BY <1>4, ManagerRefines DEF Service!ServiceNext, ServiceStep
<1>5. CASE ServiceCall \/ ServiceSkip
  BY <1>1, <1>5, ServiceRefines DEF Service!ServiceNext, ServiceStep
<1>6. CASE FinishCallback
  BY <1>6, FinishRefines DEF Service!ServiceNext, ServiceStep
<1>7. CASE ExpireActive
  BY <1>1, <1>7, ExpireRefines
<1>8. CASE WorkerEnter \/ ServiceDone \/ BeginCallback \/ AbortOnEmptyHandler \/ Measure
           \/ TimedOut \/ Spurious \/ Tick \/ UNCHANGED vars
  BY <1>2, <1>8 DEF WorkerEnter, ServiceDone, BeginCallback, AbortOnEmptyHandler, Measure,
                    TimedOut, Spurious, Tick, vars
<1> QED
  BY <1>3, <1>4, <1>5, <1>6, <1>7, <1>8 DEF Next, Worker, Finished

\* The manager implements the service that timer.h promises: one handler at a
\* time, one call for a start, no call of a timer that was stopped or destroyed
\* before it was taken up, and an end only after the last timer.
THEOREM ManagerImplementsService == Spec => ImplementsService
<1>1. Init => Service!ServiceInit
  BY InitRefines
<1>2. IInv /\ [Next]_vars => [Service!ServiceNext]_(Service!serviceVars)
  BY StepRefines DEF ServiceStep
<1> QED
  BY <1>1, <1>2, InitInvariant, NextInvariant, PTL DEF Spec, ImplementsService, Service!ServiceSpec
=============================================================================
