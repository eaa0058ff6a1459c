---------------------------- MODULE BlockingProofs ---------------------------
(***************************************************************************)
(* Blocking lists: what BlockingList promises, proved for every set of     *)
(* lists, clients, pushers and waits and every bound.                      *)
(*                                                                         *)
(* The places an element can be in hold disjoint sets whose union is what  *)
(* was pushed (Partition); a step moves one element between two places, or *)
(* adds a new one.  The step that could lose an element is Send, which     *)
(* fills a channel: it may only fill one that is empty, and that is so     *)
(* because the drain has reserved it and nobody else has (PermitInv).  And *)
(* no channel stays reserved when nobody works for it (ReservedInv).       *)
(***************************************************************************)
EXTENDS MCStore, TLAPS, FiniteSetTheorems, SequenceTheorems, WellFoundedInduction

-----------------------------------------------------------------------------
(* The invariant                                                           *)

Waiter   == [c : Client, id : Nat, dest : List \cup {None}, el : {0}]
Request  == [c : Client \cup {None}, id : Nat, dest : List \cup {None}, el : Nat]
Channel  == [st : {"closed", "empty", "reserved", "full"}, id : Nat, el : Nat,
             moved : BOOLEAN]
ClientAt == {"idle", "register", "wait", "ended", "close"}
PusherAt == {"idle", "pushed", "drain", "reserve", "pop", "send"}

ListTyped ==
  /\ list \in [List -> Seq(Nat)] /\ queue \in [List -> Seq(Waiter)]
  /\ chan \in [Client -> Channel]
  /\ listPc \in [Client \cup Pusher -> ClientAt \cup PusherAt]
  /\ wait \in [Client -> [keys : Seq(List), dest : List \cup {None}]]
  /\ todo \in [Client \cup Pusher -> Seq(List)]
  /\ held \in [Pusher -> Request]
  /\ answered \subseteq Nat /\ lost \subseteq Nat
  /\ listUsed \in [pushes : Nat, waits : Nat, others : Nat] /\ nextWaiter \in Nat

\* A client has keys left to register and no channel between its commands.
ClientOK(c) ==
  /\ listPc[c] \in ClientAt
  /\ listPc[c] = "idle" => chan[c].st = "closed"
  /\ listPc[c] = "register" => todo[c] # <<>>
  /\ chan[c].id < nextWaiter
ClientsInv == nextWaiter > 0 /\ \A c \in Client : ClientOK(c)

\* A pusher that drains has a key to drain, one that serves has a waiter, and only one
\* about to send has an element.
PusherOK(p) ==
  /\ listPc[p] \in PusherAt
  /\ listPc[p] # "idle" => todo[p] # <<>>
  /\ listPc[p] \in {"reserve", "pop", "send"} => held[p].c \in Client
  /\ held[p].el # 0 <=> listPc[p] = "send"
PushersInv == \A p \in Pusher : PusherOK(p)

\* Whoever works for a channel that is still there has reserved it, alone; the ids of
\* later channels are larger.
Working(p) == listPc[p] \in {"pop", "send"}
PermitInv ==
  /\ \A p \in Pusher : Working(p) =>
       /\ held[p].id < nextWaiter
       /\ Lists!Open(p) => chan[held[p].c].st = "reserved"
  /\ \A p, q \in Pusher : Working(p) /\ Working(q) /\ Lists!Open(p) /\ Lists!Open(q)
       /\ held[p].c = held[q].c => p = q

\* The places of elements, and what they hold.
Elements(s) == {s[i] : i \in DOMAIN s}
Distinct(s) == \A i, j \in DOMAIN s : s[i] = s[j] => i = j
Spot ==
  ({"list"} \X List) \cup ({"hand"} \X Pusher) \cup ({"chan"} \X Client)
    \cup ({"answered", "lost"} \X {0})
InHand(p) == IF held[p].el # 0 /\ held[p].dest = None THEN {held[p].el} ELSE {}
InChan(c) == IF chan[c].st = "full" /\ ~chan[c].moved THEN {chan[c].el} ELSE {}
Holds(x) ==
  IF x[1] = "list" THEN Elements(list[x[2]])
  ELSE IF x[1] = "hand" THEN InHand(x[2])
  ELSE IF x[1] = "chan" THEN InChan(x[2])
  ELSE IF x[1] = "answered" THEN answered ELSE lost

Partition ==
  /\ \A e \in Nat : (\E x \in Spot : e \in Holds(x)) <=> e \in 1..listUsed.pushes
  /\ \A x, y \in Spot : x # y => Holds(x) \cap Holds(y) = {}
DistinctInv == \A k \in List : Distinct(list[k])

ListInv ==
  ListTyped /\ ClientsInv /\ PushersInv /\ PermitInv /\ DistinctInv /\ Partition

-----------------------------------------------------------------------------
(* Queues: what is left after the waiters of one id are removed            *)

\* A set of numbers that is not empty has a least element.
LEMMA LeastNumber ==
  ASSUME NEW T \in SUBSET Nat, T # {}
  PROVE  \E m \in T : \A n \in T : m <= n
<1>1. PICK m \in T : \A n \in T : ~(<<n, m>> \in OpToRel(<, Nat))
  BY WFMin, NatLessThanWellFounded
<1>2. ASSUME NEW n \in T, n < m PROVE FALSE
  <2>1. <<n, m>> \in Nat \X Nat
    BY <1>1
  <2>2. <<n, m>> \in {ss \in Nat \X Nat : ss[1] < ss[2]}
    BY <1>2, <2>1
  <2>3. <<n, m>> \in OpToRel(<, Nat)
    BY <2>2 DEF OpToRel
  <2> QED
    BY <1>1, <2>3
<1>3. \A n \in T : m <= n
  BY <1>2
<1> QED
  BY <1>3

\* f holds what Retain keeps of the first n waiters, for every n up to m.
KeptUpTo(q, id, m, f) ==
  f = [n \in 0..m |-> IF n = 0 THEN <<>>
                      ELSE IF q[n].id = id THEN f[n - 1] ELSE Append(f[n - 1], q[n])]

\* There is such a function: the least m without one has a predecessor, whose function
\* extends to it.
LEMMA KeptExists ==
  ASSUME NEW q, NEW id, NEW m \in Nat
  PROVE  \E f : KeptUpTo(q, id, m, f)
<1> DEFINE T == {n \in Nat : ~\E f : KeptUpTo(q, id, n, f)}
<1>1. SUFFICES ASSUME T # {} PROVE FALSE
  OBVIOUS
<1>2. PICK n \in T : \A j \in T : n <= j
  BY <1>1, LeastNumber
<1>3. CASE n = 0
  <2> DEFINE f == [j \in 0..0 |-> <<>>]
  <2>1. KeptUpTo(q, id, 0, f)
    BY DEF KeptUpTo
  <2> QED
    BY <1>2, <1>3, <2>1
<1>4. CASE n # 0
  <2>1. n - 1 \in Nat /\ n - 1 \notin T
    BY <1>2, <1>4
  <2>2. PICK f : KeptUpTo(q, id, n - 1, f)
    BY <2>1
  <2> DEFINE next == IF q[n].id = id THEN f[n - 1] ELSE Append(f[n - 1], q[n])
  <2> DEFINE g == [j \in 0..n |-> IF j = n THEN next ELSE f[j]]
  <2>3. \A j \in 0..(n - 1) : g[j] = f[j]
    BY <2>1
  <2>4. \A j \in 0..n : g[j] = IF j = 0 THEN <<>>
                               ELSE IF q[j].id = id THEN g[j - 1] ELSE Append(g[j - 1], q[j])
    <3>1. SUFFICES ASSUME NEW j \in 0..n
                   PROVE  g[j] = IF j = 0 THEN <<>>
                               ELSE IF q[j].id = id THEN g[j - 1] ELSE Append(g[j - 1], q[j])
      OBVIOUS
    <3>2. CASE j = n
      BY <3>2, <1>4, <2>1, <2>3
    <3>3. CASE j # n
      <4>1. j \in 0..(n - 1) /\ g[j] = f[j]
        BY <3>3, <2>1, <2>3
      <4>2. f[j] = IF j = 0 THEN <<>>
                   ELSE IF q[j].id = id THEN f[j - 1] ELSE Append(f[j - 1], q[j])
        BY <2>2, <4>1 DEF KeptUpTo
      <4>3. j # 0 => j - 1 \in 0..(n - 1)
        BY <4>1, <2>1
      <4> HIDE DEF g
      <4> QED
        BY <4>1, <4>2, <4>3, <2>3
    <3> QED
      BY <3>2, <3>3
  <2>5. DOMAIN g = 0..n
    OBVIOUS
  <2>6. g = [j \in 0..n |-> g[j]]
    BY <2>5
  <2> HIDE DEF g
  <2>7. KeptUpTo(q, id, n, g)
    BY <2>4, <2>5, <2>6 DEF KeptUpTo
  <2> QED
    BY <1>2, <2>7
<1> QED
  BY <1>3, <1>4

\* remove_list_waiters_by_id leaves a queue of waiters.
LEMMA RetainTyped ==
  ASSUME NEW S, NEW q \in Seq(S), NEW id
  PROVE  Lists!Retain(q, id) \in Seq(S)
<1> DEFINE f == CHOOSE g : KeptUpTo(q, id, Len(q), g)
<1>1. KeptUpTo(q, id, Len(q), f)
  <2>1. Len(q) \in Nat
    OBVIOUS
  <2> QED
    BY <2>1, KeptExists
<1>2. Lists!Retain(q, id) = f[Len(q)]
  BY DEF Lists!Retain, KeptUpTo
<1> HIDE DEF f
<1> DEFINE T == {n \in 0..Len(q) : f[n] \notin Seq(S)}
<1>3. SUFFICES ASSUME T # {} PROVE FALSE
  BY <1>2
<1>4. PICK n \in T : \A j \in T : n <= j
  <2>1. T \in SUBSET Nat
    OBVIOUS
  <2> QED
    BY <1>3, <2>1, LeastNumber
<1>5. f[n] = IF n = 0 THEN <<>>
             ELSE IF q[n].id = id THEN f[n - 1] ELSE Append(f[n - 1], q[n])
  BY <1>1, <1>4 DEF KeptUpTo
<1>6. n # 0
  <2>1. <<>> \in Seq(S)
    OBVIOUS
  <2> QED
    BY <1>4, <1>5, <2>1
<1>7. n - 1 \in 0..Len(q) /\ n - 1 \notin T /\ n \in 1..Len(q)
  BY <1>4, <1>6
<1>8. f[n - 1] \in Seq(S) /\ q[n] \in S
  BY <1>7
<1>9. Append(f[n - 1], q[n]) \in Seq(S)
  BY <1>8
<1>10. f[n] \notin Seq(S)
  BY <1>4
<1> QED
  BY <1>5, <1>6, <1>8, <1>9, <1>10

-----------------------------------------------------------------------------
(* Lists: appending and taking the first element                           *)

\* An appended element is there in addition.
LEMMA AppendElements ==
  ASSUME NEW s \in Seq(Nat), NEW e \in Nat
  PROVE  /\ Append(s, e) \in Seq(Nat) /\ Append(s, e) # <<>>
         /\ Elements(Append(s, e)) = Elements(s) \cup {e}
         /\ Distinct(s) /\ e \notin Elements(s) => Distinct(Append(s, e))
<1> DEFINE t == Append(s, e)
<1>1. /\ t \in Seq(Nat) /\ t # <<>> /\ Len(t) = Len(s) + 1 /\ DOMAIN t = 1..(Len(s) + 1)
      /\ t[Len(s) + 1] = e /\ \A i \in 1..Len(s) : t[i] = s[i]
      /\ DOMAIN s = 1..Len(s) /\ Len(s) \in Nat
  OBVIOUS
<1> HIDE DEF t
<1>2. Elements(t) = Elements(s) \cup {e}
  <2>1. ASSUME NEW x \in Elements(t) PROVE x \in Elements(s) \cup {e}
    <3>1. PICK i \in 1..(Len(s) + 1) : x = t[i]
      BY <1>1, <2>1 DEF Elements
    <3>2. CASE i \in 1..Len(s)
      BY <1>1, <3>1, <3>2 DEF Elements
    <3>3. CASE i = Len(s) + 1
      BY <1>1, <3>1, <3>3
    <3> QED
      BY <1>1, <3>2, <3>3
  <2>2. ASSUME NEW x \in Elements(s) PROVE x \in Elements(t)
    <3>1. PICK i \in 1..Len(s) : x = s[i]
      BY <1>1, <2>2 DEF Elements
    <3> QED
      BY <1>1, <3>1 DEF Elements
  <2>3. e \in Elements(t)
    BY <1>1 DEF Elements
  <2> QED
    BY <2>1, <2>2, <2>3
<1>3. ASSUME Distinct(s), e \notin Elements(s) PROVE Distinct(t)
  <2>1. \A i \in 1..Len(s) : s[i] # e
    BY <1>1, <1>3 DEF Elements
  <2>2. SUFFICES ASSUME NEW i \in 1..(Len(s) + 1), NEW j \in 1..(Len(s) + 1), t[i] = t[j]
                 PROVE  i = j
    BY <1>1 DEF Distinct
  <2>3. CASE i \in 1..Len(s) /\ j \in 1..Len(s)
    <3>1. t[i] = s[i] /\ t[j] = s[j]
      BY <1>1, <2>3
    <3>2. s[i] = s[j]
      BY <2>2, <3>1
    <3> QED
      BY <1>1, <1>3, <2>3, <3>2 DEF Distinct
  <2>4. CASE i = Len(s) + 1 \/ j = Len(s) + 1
    BY <1>1, <2>1, <2>2, <2>4
  <2>5. i \in 1..Len(s) \/ i = Len(s) + 1
    BY <1>1
  <2>6. j \in 1..Len(s) \/ j = Len(s) + 1
    BY <1>1
  <2> QED
    BY <2>3, <2>4, <2>5, <2>6
<1> QED
  BY <1>1, <1>2, <1>3 DEF t

\* The first element of a list is gone when it is taken.
LEMMA TailElements ==
  ASSUME NEW s \in Seq(Nat), s # <<>>, Distinct(s)
  PROVE  /\ Head(s) \in Nat /\ Head(s) \in Elements(s) /\ Tail(s) \in Seq(Nat)
         /\ Elements(Tail(s)) = Elements(s) \ {Head(s)}
         /\ Distinct(Tail(s))
<1> DEFINE t == Tail(s)
<1>1. /\ t \in Seq(Nat) /\ Len(t) = Len(s) - 1 /\ DOMAIN t = 1..(Len(s) - 1)
      /\ \A i \in 1..(Len(s) - 1) : t[i] = s[i + 1]
      /\ DOMAIN s = 1..Len(s) /\ Len(s) \in Nat \ {0} /\ Head(s) = s[1] /\ s[1] \in Nat
  OBVIOUS
<1> HIDE DEF t
<1>2. \A i, j \in 1..Len(s) : s[i] = s[j] => i = j
  BY <1>1 DEF Distinct
<1>3. Head(s) \in Elements(s)
  BY <1>1 DEF Elements
<1>4. Elements(t) = Elements(s) \ {Head(s)}
  <2>1. ASSUME NEW x \in Elements(t) PROVE x \in Elements(s) \ {Head(s)}
    <3>1. PICK i \in 1..(Len(s) - 1) : x = t[i]
      BY <1>1, <2>1 DEF Elements
    <3>2. x = s[i + 1]
      BY <1>1, <3>1
    <3>3. i + 1 \in 1..Len(s) /\ i + 1 # 1 /\ 1 \in 1..Len(s)
      BY <1>1
    <3>4. s[i + 1] # s[1]
      BY <1>2, <3>3
    <3> QED
      BY <1>1, <3>2, <3>3, <3>4 DEF Elements
  <2>2. ASSUME NEW x \in Elements(s) \ {Head(s)} PROVE x \in Elements(t)
    <3>1. PICK i \in 1..Len(s) : x = s[i]
      BY <1>1, <2>2 DEF Elements
    <3>2. i # 1
      BY <1>1, <2>2, <3>1
    <3>3. i - 1 \in 1..(Len(s) - 1) /\ (i - 1) + 1 = i
      BY <1>1, <3>1, <3>2
    <3>4. t[i - 1] = s[i]
      BY <1>1, <3>3
    <3> QED
      BY <1>1, <3>1, <3>3, <3>4 DEF Elements
  <2> QED
    BY <2>1, <2>2
<1>5. Distinct(t)
  <2>1. SUFFICES ASSUME NEW i \in 1..(Len(s) - 1), NEW j \in 1..(Len(s) - 1), t[i] = t[j]
                 PROVE  i = j
    BY <1>1 DEF Distinct
  <2>2. t[i] = s[i + 1] /\ t[j] = s[j + 1]
    BY <1>1
  <2>3. i + 1 \in 1..Len(s) /\ j + 1 \in 1..Len(s)
    BY <1>1
  <2>4. i + 1 = j + 1
    BY <1>2, <2>1, <2>2, <2>3
  <2> QED
    BY <2>4
<1> QED
  BY <1>1, <1>3, <1>4, <1>5 DEF t

-----------------------------------------------------------------------------
(* Places                                                                  *)

\* There are five kinds of places.
LEMMA SpotCases ==
  ASSUME NEW x \in Spot
  PROVE  \/ \E k \in List : x = <<"list", k>>
         \/ \E p \in Pusher : x = <<"hand", p>>
         \/ \E c \in Client : x = <<"chan", c>>
         \/ x = <<"answered", 0>> \/ x = <<"lost", 0>>
BY DEF Spot

\* What a place of each kind holds.
LEMMA SpotHolds ==
  /\ \A k \in List : <<"list", k>> \in Spot /\ Holds(<<"list", k>>) = Elements(list[k])
  /\ \A p \in Pusher : <<"hand", p>> \in Spot /\ Holds(<<"hand", p>>) = InHand(p)
  /\ \A c \in Client : <<"chan", c>> \in Spot /\ Holds(<<"chan", c>>) = InChan(c)
  /\ <<"answered", 0>> \in Spot /\ Holds(<<"answered", 0>>) = answered
  /\ <<"lost", 0>> \in Spot /\ Holds(<<"lost", 0>>) = lost
BY DEF Spot, Holds

\* The same after a step.
LEMMA SpotHoldsNext ==
  /\ \A k \in List : Holds(<<"list", k>>)' = Elements(list'[k])
  /\ \A p \in Pusher : Holds(<<"hand", p>>)' = InHand(p)'
  /\ \A c \in Client : Holds(<<"chan", c>>)' = InChan(c)'
  /\ Holds(<<"answered", 0>>)' = answered'
  /\ Holds(<<"lost", 0>>)' = lost'
BY DEF Spot, Holds

\* A step that leaves every place as it was.
LEMMA CalmKeeps ==
  ASSUME Partition, listUsed'.pushes = listUsed.pushes,
         \A x \in Spot : Holds(x)' = Holds(x)
  PROVE  Partition'
BY DEF Partition

\* A step that takes an element from one place to another.
LEMMA MoveKeeps ==
  ASSUME Partition, listUsed'.pushes = listUsed.pushes,
         NEW x \in Spot, NEW y \in Spot, x # y, NEW e \in Nat, e \in Holds(x),
         Holds(x)' = Holds(x) \ {e}, Holds(y)' = Holds(y) \cup {e},
         \A z \in Spot \ {x, y} : Holds(z)' = Holds(z)
  PROVE  Partition'
<1>1. ASSUME NEW f \in Nat
      PROVE  (\E z \in Spot : f \in Holds(z)') <=> (\E z \in Spot : f \in Holds(z))
  <2>1. ASSUME NEW z \in Spot, f \in Holds(z)' PROVE \E w \in Spot : f \in Holds(w)
    BY <2>1
  <2>2. ASSUME NEW z \in Spot, f \in Holds(z) PROVE \E w \in Spot : f \in Holds(w)'
    <3>1. CASE f = e
      BY <3>1
    <3>2. CASE f # e
      BY <2>2, <3>2
    <3> QED
      BY <3>1, <3>2
  <2> QED
    BY <2>1, <2>2
<1>2. ASSUME NEW z \in Spot, NEW w \in Spot, z # w PROVE Holds(z)' \cap Holds(w)' = {}
  <2>1. \A u, v \in Spot : u # v => Holds(u) \cap Holds(v) = {}
    BY DEF Partition
  <2>2. \A u \in Spot \ {x} : e \notin Holds(u)
    BY <2>1
  <2>3. SUFFICES ASSUME NEW f, f \in Holds(z)', f \in Holds(w)' PROVE FALSE
    OBVIOUS
  <2>4. CASE f = e
    BY <1>2, <2>2, <2>3, <2>4
  <2>5. CASE f # e
    <3>1. f \in Holds(z) /\ f \in Holds(w)
      BY <2>3, <2>5
    <3> QED
      BY <1>2, <2>1, <3>1
  <2> QED
    BY <2>4, <2>5
<1> QED
  BY <1>1, <1>2 DEF Partition

\* A step that pushes a new element.
LEMMA NewKeeps ==
  ASSUME Partition, NEW n \in Nat, listUsed.pushes = n, listUsed'.pushes = n + 1,
         NEW x \in Spot, Holds(x)' = Holds(x) \cup {n + 1},
         \A z \in Spot \ {x} : Holds(z)' = Holds(z)
  PROVE  Partition'
<1>1. \A z \in Spot : n + 1 \notin Holds(z)
  <2>1. n + 1 \in Nat /\ n + 1 \notin 1..n
    OBVIOUS
  <2> QED
    BY <2>1 DEF Partition
<1>2. ASSUME NEW f \in Nat
      PROVE  (\E z \in Spot : f \in Holds(z)') <=> f \in 1..(n + 1)
  <2>1. (\E z \in Spot : f \in Holds(z)) <=> f \in 1..n
    BY DEF Partition
  <2>2. (\E z \in Spot : f \in Holds(z)') <=> (\E z \in Spot : f \in Holds(z)) \/ f = n + 1
    OBVIOUS
  <2>3. f \in 1..(n + 1) <=> f \in 1..n \/ f = n + 1
    OBVIOUS
  <2> QED
    BY <2>1, <2>2, <2>3
<1>3. ASSUME NEW z \in Spot, NEW w \in Spot, z # w PROVE Holds(z)' \cap Holds(w)' = {}
  BY <1>1, <1>3 DEF Partition
<1> QED
  BY <1>2, <1>3 DEF Partition

\* A list loses its first element, which another list may get; a rotated list keeps it.
LEMMA TakenEffect ==
  ASSUME ListTyped, DistinctInv, Partition,
         NEW k \in List, NEW d \in List \cup {None}, list[k] # <<>>
  PROVE  /\ Head(list[k]) \in Nat /\ Head(list[k]) \in Elements(list[k])
         /\ Lists!Taken(k, d) \in [List -> Seq(Nat)]
         /\ \A j \in List : Distinct(Lists!Taken(k, d)[j])
         /\ \A j \in List :
              Elements(Lists!Taken(k, d)[j]) =
                IF j = d THEN Elements(list[j]) \cup {Head(list[k])}
                ELSE IF j = k THEN Elements(list[j]) \ {Head(list[k])} ELSE Elements(list[j])
<1> DEFINE e == Head(list[k])
           popped == [list EXCEPT ![k] = Tail(@)]
<1>1. /\ e \in Nat /\ e \in Elements(list[k]) /\ Tail(list[k]) \in Seq(Nat)
      /\ Elements(Tail(list[k])) = Elements(list[k]) \ {e} /\ Distinct(Tail(list[k]))
  BY TailElements DEF ListTyped, DistinctInv
<1>2. list \in [List -> Seq(Nat)] /\ \A j \in List : Distinct(list[j])
  BY DEF ListTyped, DistinctInv
<1> HIDE DEF e
<1>3. /\ popped \in [List -> Seq(Nat)] /\ \A j \in List : Distinct(popped[j])
      /\ \A j \in List : Elements(popped[j]) = IF j = k THEN Elements(list[j]) \ {e}
                                               ELSE Elements(list[j])
      /\ \A j \in List : popped[j] = IF j = k THEN Tail(list[k]) ELSE list[j]
  BY <1>1, <1>2
<1>4. CASE d = None
  <2>1. Lists!Taken(k, d) = popped
    BY <1>4 DEF Lists!Taken
  <2>2. \A j \in List : j # d
    BY <1>4, ListAssumption
  <2> QED
    BY <1>1, <1>3, <2>1, <2>2 DEF e
<1>5. CASE d # None
  <2>0. d \in List
    BY <1>5
  <2>1. Lists!Taken(k, d) = [popped EXCEPT ![d] = Append(@, e)]
    BY <1>5 DEF Lists!Taken, e
  <2> HIDE DEF popped
  <2>2. e \notin Elements(popped[d])
    <3>1. CASE d = k
      BY <1>3, <2>0, <3>1
    <3>2. CASE d # k
      <4>1. Holds(<<"list", k>>) \cap Holds(<<"list", d>>) = {}
        BY <2>0, <3>2, SpotHolds DEF Partition
      <4>2. e \notin Elements(list[d])
        BY <1>1, <2>0, <4>1, SpotHolds
      <4> QED
        BY <1>3, <2>0, <3>2, <4>2
    <3> QED
      BY <3>1, <3>2
  <2>3. /\ Append(popped[d], e) \in Seq(Nat) /\ Distinct(Append(popped[d], e))
        /\ Elements(Append(popped[d], e)) = Elements(popped[d]) \cup {e}
    BY <1>1, <1>3, <2>0, <2>2, AppendElements
  <2> DEFINE new == [popped EXCEPT ![d] = Append(@, e)]
  <2>4. /\ new \in [List -> Seq(Nat)] /\ new[d] = Append(popped[d], e)
        /\ \A j \in List \ {d} : new[j] = popped[j]
    BY <1>3, <2>0, <2>3
  <2> HIDE DEF new
  <2>5. \A j \in List : Distinct(new[j])
    BY <1>3, <2>3, <2>4
  <2>6. Elements(new[d]) = Elements(list[d]) \cup {e}
    BY <1>1, <1>3, <2>0, <2>3, <2>4
  <2>7. \A j \in List \ {d} : Elements(new[j]) = IF j = k THEN Elements(list[j]) \ {e}
                                                 ELSE Elements(list[j])
    BY <1>3, <2>4
  <2> QED
    BY <1>1, <2>0, <2>1, <2>4, <2>5, <2>6, <2>7 DEF e, new
<1> QED
  BY <1>4, <1>5

\* The same when no list gets it.
LEMMA TakenAway ==
  ASSUME ListTyped, DistinctInv, Partition, NEW k \in List, list[k] # <<>>
  PROVE  /\ Head(list[k]) \in Nat /\ Head(list[k]) \in Elements(list[k])
         /\ Lists!Taken(k, None) \in [List -> Seq(Nat)]
         /\ \A j \in List : Distinct(Lists!Taken(k, None)[j])
         /\ \A j \in List :
              Elements(Lists!Taken(k, None)[j]) =
                IF j = k THEN Elements(list[j]) \ {Head(list[k])} ELSE Elements(list[j])
<1>1. None \in List \cup {None} /\ \A j \in List : j # None
  BY ListAssumption
<1>2. ASSUME NEW d \in List \cup {None}
      PROVE  /\ Head(list[k]) \in Nat /\ Head(list[k]) \in Elements(list[k])
             /\ Lists!Taken(k, d) \in [List -> Seq(Nat)]
             /\ \A j \in List : Distinct(Lists!Taken(k, d)[j])
             /\ \A j \in List :
                  Elements(Lists!Taken(k, d)[j]) =
                    IF j = d THEN Elements(list[j]) \cup {Head(list[k])}
                    ELSE IF j = k THEN Elements(list[j]) \ {Head(list[k])}
                    ELSE Elements(list[j])
  BY TakenEffect
<1> QED
  BY <1>1, <1>2

\* A list loses its first element to a place that is not a list.
LEMMA TakenOut ==
  ASSUME ListTyped, DistinctInv, Partition, listUsed'.pushes = listUsed.pushes,
         NEW k \in List, list[k] # <<>>, list' = Lists!Taken(k, None),
         NEW y \in Spot \ ({"list"} \X List),
         Holds(y)' = Holds(y) \cup {Head(list[k])},
         \A z \in Spot \ ({"list"} \X List) : z # y => Holds(z)' = Holds(z)
  PROVE  list' \in [List -> Seq(Nat)] /\ DistinctInv' /\ Partition'
<1> DEFINE e == Head(list[k])
<1>1. /\ e \in Nat /\ e \in Elements(list[k]) /\ list' \in [List -> Seq(Nat)]
      /\ \A j \in List : Distinct(list'[j])
      /\ \A j \in List : Elements(list'[j]) = IF j = k THEN Elements(list[j]) \ {e}
                                              ELSE Elements(list[j])
  BY TakenAway
<1> HIDE DEF e
<1>2. DistinctInv'
  BY <1>1 DEF DistinctInv
<1> DEFINE x == <<"list", k>>
<1>3. /\ x \in Spot /\ x # y /\ e \in Holds(x) /\ Holds(x)' = Holds(x) \ {e}
  BY <1>1, SpotHolds, SpotHoldsNext
<1>4. ASSUME NEW z \in Spot \ {x, y} PROVE Holds(z)' = Holds(z)
  <2>1. CASE z \in {"list"} \X List
    <3>1. PICK j \in List : z = <<"list", j>>
      BY <2>1
    <3>2. j # k
      BY <1>4, <3>1
    <3>3. Elements(list'[j]) = Elements(list[j])
      BY <1>1, <3>2
    <3> QED
      BY <3>1, <3>3, SpotHolds, SpotHoldsNext
  <2>2. CASE z \notin {"list"} \X List
    BY <1>4, <2>2
  <2> QED
    BY <2>1, <2>2
<1>5. Holds(y)' = Holds(y) \cup {e}
  BY DEF e
<1> HIDE DEF x
<1>6. Partition'
  BY <1>1, <1>3, <1>4, <1>5, MoveKeeps
<1> QED
  BY <1>1, <1>2, <1>6

\* A list loses its first element to a list, which may be the same.
LEMMA TakenAcross ==
  ASSUME ListTyped, DistinctInv, Partition, listUsed'.pushes = listUsed.pushes,
         NEW k \in List, list[k] # <<>>, NEW d \in List, list' = Lists!Taken(k, d),
         \A z \in Spot \ ({"list"} \X List) : Holds(z)' = Holds(z)
  PROVE  list' \in [List -> Seq(Nat)] /\ DistinctInv' /\ Partition'
<1> DEFINE e == Head(list[k])
<1>1. /\ e \in Nat /\ e \in Elements(list[k]) /\ list' \in [List -> Seq(Nat)]
      /\ \A j \in List : Distinct(list'[j])
      /\ \A j \in List : Elements(list'[j]) = IF j = d THEN Elements(list[j]) \cup {e}
                                              ELSE IF j = k THEN Elements(list[j]) \ {e}
                                              ELSE Elements(list[j])
  <2>1. d \in List \cup {None}
    OBVIOUS
  <2>2. /\ Head(list[k]) \in Nat /\ Head(list[k]) \in Elements(list[k])
        /\ Lists!Taken(k, d) \in [List -> Seq(Nat)]
        /\ \A j \in List : Distinct(Lists!Taken(k, d)[j])
        /\ \A j \in List :
             Elements(Lists!Taken(k, d)[j]) =
               IF j = d THEN Elements(list[j]) \cup {Head(list[k])}
               ELSE IF j = k THEN Elements(list[j]) \ {Head(list[k])} ELSE Elements(list[j])
    BY <2>1, TakenEffect
  <2> QED
    BY <2>2
<1> HIDE DEF e
<1>2. DistinctInv'
  BY <1>1 DEF DistinctInv
<1> DEFINE x == <<"list", k>>
           y == <<"list", d>>
<1>3. ASSUME NEW z \in Spot \ {x, y} PROVE Holds(z)' = Holds(z)
  <2>1. CASE z \in {"list"} \X List
    <3>1. PICK j \in List : z = <<"list", j>>
      BY <2>1
    <3>2. j # k /\ j # d
      BY <1>3, <3>1
    <3>3. Elements(list'[j]) = Elements(list[j])
      BY <1>1, <3>2
    <3> QED
      BY <3>1, <3>3, SpotHolds, SpotHoldsNext
  <2>2. CASE z \notin {"list"} \X List
    BY <1>3, <2>2
  <2> QED
    BY <2>1, <2>2
<1>4. CASE d = k
  <2>1. Holds(x)' = Holds(x)
    <3>1. Elements(list'[k]) = Elements(list[k])
      BY <1>1, <1>4
    <3> QED
      BY <3>1, SpotHolds, SpotHoldsNext
  <2>2. \A z \in Spot : Holds(z)' = Holds(z)
    BY <1>3, <1>4, <2>1
  <2> QED
    BY <1>1, <1>2, <2>2, CalmKeeps
<1>5. CASE d # k
  <2>1. /\ x \in Spot /\ y \in Spot /\ x # y /\ e \in Holds(x)
        /\ Holds(x)' = Holds(x) \ {e} /\ Holds(y)' = Holds(y) \cup {e}
    BY <1>1, <1>5, SpotHolds, SpotHoldsNext
  <2> HIDE DEF x, y
  <2>2. Partition'
    BY <1>1, <1>3, <2>1, MoveKeeps
  <2> QED
    BY <1>1, <1>2, <2>2
<1> QED
  BY <1>4, <1>5

-----------------------------------------------------------------------------
(* What a step leaves alone                                                *)

\* The records of the state, field by field.
LEMMA Fields ==
  ASSUME ListTyped
  PROVE  /\ \A c \in Client : /\ chan[c] \in Channel /\ chan[c].id \in Nat
                              /\ chan[c].el \in Nat /\ chan[c].moved \in BOOLEAN
                              /\ wait[c].dest \in List \cup {None}
                              /\ wait[c].keys \in Seq(List)
         /\ \A p \in Pusher : /\ held[p] \in Request /\ held[p].id \in Nat
                              /\ held[p].el \in Nat /\ held[p].dest \in List \cup {None}
         /\ \A x \in Client \cup Pusher : todo[x] \in Seq(List)
         /\ listUsed.pushes \in Nat /\ listUsed.waits \in Nat /\ listUsed.others \in Nat
BY DEF ListTyped, Channel, Request

\* Permits last if nobody begins to work and the channels of those who do stay reserved.
LEMMA PermitFrame ==
  ASSUME ListTyped, PermitInv, nextWaiter' \in Nat, nextWaiter' >= nextWaiter,
         \A p \in Pusher : Working(p)' =>
           /\ Working(p) /\ held'[p].c = held[p].c /\ held'[p].id = held[p].id
           /\ Lists!Open(p)' => Lists!Open(p) /\ chan'[held[p].c].st = "reserved"
  PROVE  PermitInv'
<1>1. ASSUME NEW p \in Pusher, Working(p)'
      PROVE  held'[p].id < nextWaiter' /\ (Lists!Open(p)' => chan'[held'[p].c].st = "reserved")
  <2>1. held[p].id < nextWaiter /\ held[p].id \in Nat /\ nextWaiter \in Nat
    BY <1>1, Fields DEF PermitInv, ListTyped
  <2> QED
    BY <1>1, <2>1
<1>2. ASSUME NEW p \in Pusher, NEW q \in Pusher, Working(p)', Working(q)', Lists!Open(p)',
             Lists!Open(q)', held'[p].c = held'[q].c
      PROVE  p = q
  BY <1>2 DEF PermitInv
<1> QED
  BY <1>1, <1>2 DEF PermitInv

\* Places that are not lists keep what they hold while channels, hands and ghosts last.
LEMMA SameSpots ==
  ASSUME \A p \in Pusher : InHand(p)' = InHand(p),
         \A c \in Client : InChan(c)' = InChan(c),
         answered' = answered, lost' = lost
  PROVE  \A z \in Spot \ ({"list"} \X List) : Holds(z)' = Holds(z)
BY SpotCases, SpotHolds, SpotHoldsNext

\* All places keep what they hold.
LEMMA CalmSpots ==
  ASSUME ListTyped, Partition, DistinctInv, listUsed'.pushes = listUsed.pushes, list' = list,
         \A p \in Pusher : InHand(p)' = InHand(p),
         \A c \in Client : InChan(c)' = InChan(c),
         answered' = answered, lost' = lost
  PROVE  Partition' /\ DistinctInv'
<1>1. \A z \in Spot : Holds(z)' = Holds(z)
  BY SpotCases, SpotHolds, SpotHoldsNext
<1> QED
  BY <1>1, CalmKeeps DEF DistinctInv

-----------------------------------------------------------------------------
(* Commands that take from a list at once                                  *)

\* The empty records have the types of the full ones.
LEMMA EmptyRecords ==
  /\ Lists!NoReq \in Request /\ Lists!NoReq.el = 0
  /\ Lists!Closed \in Channel /\ Lists!Closed.st = "closed" /\ Lists!Closed.id = 0
  /\ Lists!NoWait \in [keys : Seq(List), dest : List \cup {None}]
BY DEF Lists!NoReq, Lists!Closed, Lists!NoWait, Request, Channel

\* Counting a command or a push.
LEMMA Counted ==
  ASSUME ListTyped
  PROVE  /\ LET u == [listUsed EXCEPT !.waits = @ + 1]
            IN  u \in [pushes : Nat, waits : Nat, others : Nat] /\ u.pushes = listUsed.pushes
         /\ LET u == [listUsed EXCEPT !.others = @ + 1]
            IN  u \in [pushes : Nat, waits : Nat, others : Nat] /\ u.pushes = listUsed.pushes
         /\ LET u == [listUsed EXCEPT !.pushes = @ + 1]
            IN  u \in [pushes : Nat, waits : Nat, others : Nat]
                  /\ u.pushes = listUsed.pushes + 1
<1>1. listUsed \in [pushes : Nat, waits : Nat, others : Nat]
  BY DEF ListTyped
<1> QED
  BY <1>1

\* A pop or a move that answers its own command.
LEMMA CommandTakes ==
  ASSUME ListInv, NEW k \in List, NEW d \in List \cup {None}, list[k] # <<>>,
         list' = Lists!Taken(k, d),
         answered' = IF d = None THEN answered \cup {Head(list[k])} ELSE answered,
         UNCHANGED <<queue, chan, listPc, wait, todo, held, lost, nextWaiter>>,
         listUsed' \in [pushes : Nat, waits : Nat, others : Nat],
         listUsed'.pushes = listUsed.pushes
  PROVE  ListInv'
<1>1. ListTyped /\ DistinctInv /\ Partition
  BY DEF ListInv
<1>2. /\ \A p \in Pusher : InHand(p)' = InHand(p)
      /\ \A c \in Client : InChan(c)' = InChan(c)
  BY DEF InHand, InChan
<1>3. Head(list[k]) \in Nat
  BY <1>1, TakenAway
<1>4. list' \in [List -> Seq(Nat)] /\ DistinctInv' /\ Partition'
  <2>1. CASE d = None
    <3> DEFINE y == <<"answered", 0>>
    <3>1. y \in Spot \ ({"list"} \X List) /\ Holds(y)' = Holds(y) \cup {Head(list[k])}
      BY <2>1, SpotHolds, SpotHoldsNext
    <3>2. ASSUME NEW z \in Spot \ ({"list"} \X List), z # y PROVE Holds(z)' = Holds(z)
      BY <1>2, <3>2, SpotCases, SpotHolds, SpotHoldsNext
    <3>3. list' = Lists!Taken(k, None)
      BY <2>1
    <3> HIDE DEF y
    <3> QED
      BY <1>1, <3>1, <3>2, <3>3, TakenOut
  <2>2. CASE d # None
    <3>1. d \in List /\ answered' = answered
      BY <2>2
    <3>2. \A z \in Spot \ ({"list"} \X List) : Holds(z)' = Holds(z)
      BY <1>2, <3>1, SameSpots
    <3> QED
      BY <1>1, <3>1, <3>2, TakenAcross
  <2> QED
    BY <2>1, <2>2
<1>5. ListTyped'
  BY <1>1, <1>3, <1>4 DEF ListTyped
<1>6. ClientsInv' /\ PushersInv'
  BY DEF ListInv, ClientsInv, PushersInv, ClientOK, PusherOK
<1>7. PermitInv'
  BY DEF ListInv, PermitInv, Working, Lists!Open
<1> QED
  BY <1>4, <1>5, <1>6, <1>7 DEF ListInv

\* BLPOP and BLMOVE that find an element.
LEMMA BlockServedKeeps ==
  ASSUME ListInv, NEW c \in Client, NEW w \in ListWait, NEW i \in DOMAIN w.keys,
         Lists!BlockServed(c, w, i)
  PROVE  ListInv'
<1>1. w.keys \in Seq(List) /\ w.dest \in List \cup {None}
  BY ListAssumption
<1>2. w.keys[i] \in List
  BY <1>1
<1>3. /\ listUsed' \in [pushes : Nat, waits : Nat, others : Nat]
      /\ listUsed'.pushes = listUsed.pushes
  BY Counted DEF Lists!BlockServed, ListInv
<1> QED
  BY <1>1, <1>2, <1>3, CommandTakes DEF Lists!BlockServed, Lists!Answer

\* LPOP.
LEMMA PopKeeps ==
  ASSUME ListInv, NEW p \in Pusher, NEW k \in List, Lists!Pop(p, k)
  PROVE  ListInv'
<1>1. /\ listUsed' \in [pushes : Nat, waits : Nat, others : Nat]
      /\ listUsed'.pushes = listUsed.pushes
  BY Counted DEF Lists!Pop, ListInv
<1>2. ASSUME NEW d \in List \cup {None}, d = None PROVE ListInv'
  BY <1>1, <1>2, CommandTakes DEF Lists!Pop, Lists!Answer
<1> QED
  BY <1>2

\* LMOVE and RPOPLPUSH.
LEMMA MovesKeep ==
  ASSUME ListInv, NEW p \in Pusher, NEW k \in List, NEW d \in List, Lists!Move(p, k, d)
  PROVE  ListInv'
<1>1. /\ listUsed' \in [pushes : Nat, waits : Nat, others : Nat]
      /\ listUsed'.pushes = listUsed.pushes
  BY Counted DEF Lists!Move, ListInv
<1>2. d \in List \cup {None} /\ d # None
  BY ListAssumption
<1> QED
  BY <1>1, <1>2, CommandTakes DEF Lists!Move, Lists!ghosts

-----------------------------------------------------------------------------
(* Clients                                                                 *)

\* A step of one client leaves the others, and the pushers, where they are.
LEMMA ClientMoves ==
  ASSUME ListTyped, NEW c \in Client, NEW l \in ClientAt, Lists!Goto(c, l)
  PROVE  /\ listPc' \in [Client \cup Pusher -> ClientAt \cup PusherAt] /\ listPc'[c] = l
         /\ \A b \in Client \ {c} : listPc'[b] = listPc[b]
         /\ \A p \in Pusher : c # p /\ listPc'[p] = listPc[p]
BY ListAssumption DEF ListTyped, Lists!Goto

\* Pushers are not concerned by a step that leaves their place, their keys and what they
\* hold alone.
LEMMA PushersFrame ==
  ASSUME PushersInv, held' = held,
         \A p \in Pusher : listPc'[p] = listPc[p] /\ todo'[p] = todo[p]
  PROVE  PushersInv' /\ \A p \in Pusher : InHand(p)' = InHand(p) /\ Working(p)' = Working(p)
BY DEF PushersInv, PusherOK, InHand, Working

\* BLPOP and BLMOVE that find nothing open a channel with a new id: no drain works for it.
LEMMA BlockEmptyKeeps ==
  ASSUME ListInv, NEW c \in Client, NEW w \in ListWait, Lists!BlockEmpty(c, w)
  PROVE  ListInv'
<1>1. ListTyped /\ ClientsInv /\ PushersInv /\ PermitInv /\ DistinctInv /\ Partition
  BY DEF ListInv
<1>2. w \in [keys : Seq(List), dest : List \cup {None}] /\ w.keys # <<>> /\ w.keys \in Seq(List)
  BY ListAssumption
<1> DEFINE new == [st |-> "empty", id |-> nextWaiter, el |-> 0, moved |-> FALSE]
<1>3. nextWaiter \in Nat /\ new \in Channel
  BY <1>1 DEF ListTyped, Channel
<1>4. /\ listPc[c] = "idle" /\ chan' = [chan EXCEPT ![c] = new]
      /\ wait' = [wait EXCEPT ![c] = w] /\ todo' = [todo EXCEPT ![c] = w.keys]
      /\ nextWaiter' = nextWaiter + 1 /\ listUsed' = [listUsed EXCEPT !.waits = @ + 1]
      /\ Lists!Goto(c, "register")
      /\ UNCHANGED <<list, queue, held, answered, lost>>
  BY DEF Lists!BlockEmpty, Lists!ghosts
<1>5. "register" \in ClientAt
  BY DEF ClientAt
<1>6. /\ listPc' \in [Client \cup Pusher -> ClientAt \cup PusherAt] /\ listPc'[c] = "register"
      /\ \A b \in Client \ {c} : listPc'[b] = listPc[b]
      /\ \A p \in Pusher : c # p /\ listPc'[p] = listPc[p]
  BY <1>1, <1>4, <1>5, ClientMoves
<1>7. /\ listUsed' \in [pushes : Nat, waits : Nat, others : Nat]
      /\ listUsed'.pushes = listUsed.pushes
  BY <1>1, <1>4, Counted
<1>8. chan' \in [Client -> Channel] /\ chan'[c] = new /\ \A b \in Client \ {c} : chan'[b] = chan[b]
  BY <1>1, <1>3, <1>4 DEF ListTyped
<1>9. ListTyped'
  <2>1. /\ wait' \in [Client -> [keys : Seq(List), dest : List \cup {None}]]
        /\ todo' \in [Client \cup Pusher -> Seq(List)]
    BY <1>1, <1>2, <1>4 DEF ListTyped
  <2>2. nextWaiter' \in Nat
    BY <1>3, <1>4
  <2> QED
    BY <1>1, <1>4, <1>6, <1>7, <1>8, <2>1, <2>2 DEF ListTyped
<1>10. todo'[c] = w.keys /\ \A x \in (Client \cup Pusher) \ {c} : todo'[x] = todo[x]
  BY <1>1, <1>4 DEF ListTyped
<1>11. ClientsInv'
  <2>1. nextWaiter' > 0 /\ \A b \in Client : chan'[b].id < nextWaiter'
    BY <1>1, <1>3, <1>4, <1>8, Fields DEF ClientsInv, ClientOK
  <2>2. ASSUME NEW b \in Client PROVE ClientOK(b)'
    <3>1. CASE b = c
      BY <1>2, <1>5, <1>6, <1>10, <2>1, <3>1 DEF ClientOK
    <3>2. CASE b # c
      BY <1>1, <1>6, <1>8, <1>10, <2>1, <3>2 DEF ClientsInv, ClientOK
    <3> QED
      BY <3>1, <3>2
  <2> QED
    BY <2>1, <2>2 DEF ClientsInv
<1>12. PushersInv' /\ \A p \in Pusher : InHand(p)' = InHand(p) /\ Working(p)' = Working(p)
  BY <1>1, <1>4, <1>6, <1>10, PushersFrame
<1>13. PermitInv'
  <2>1. ASSUME NEW p \in Pusher, Working(p)', Lists!Open(p)'
        PROVE  Lists!Open(p) /\ chan'[held[p].c].st = "reserved"
    <3>1. /\ held[p].id < nextWaiter /\ held[p].id \in Nat /\ held[p].c \in Client
          /\ Lists!Open(p) => chan[held[p].c].st = "reserved"
      BY <1>1, <1>12, <2>1, Fields DEF PermitInv, PushersInv, PusherOK, Working
    <3>2. held[p].c # c
      BY <1>3, <1>4, <1>8, <2>1, <3>1 DEF Lists!Open
    <3> QED
      BY <1>4, <1>8, <2>1, <3>1, <3>2 DEF Lists!Open
  <2> QED
    BY <1>1, <1>3, <1>4, <1>12, <2>1, PermitFrame
<1>14. \A b \in Client : InChan(b)' = InChan(b)
  <2>1. InChan(c)' = {} /\ InChan(c) = {}
    BY <1>1, <1>4, <1>8 DEF InChan, ClientsInv, ClientOK
  <2> QED
    BY <1>8, <2>1 DEF InChan
<1>15. Partition' /\ DistinctInv'
  BY <1>1, <1>4, <1>7, <1>12, <1>14, CalmSpots
<1> QED
  BY <1>9, <1>11, <1>12, <1>13, <1>15 DEF ListInv

\* Steps of a client that only change its place and the queues.
LEMMA ClientQueues ==
  ASSUME ListInv, NEW c \in Client, NEW l \in ClientAt \ {"idle"}, Lists!Goto(c, l),
         queue' \in [List -> Seq(Waiter)], todo' \in [Client \cup Pusher -> Seq(List)],
         \A x \in (Client \cup Pusher) \ {c} : todo'[x] = todo[x],
         l = "register" => todo'[c] # <<>>,
         UNCHANGED <<list, chan, wait, held, answered, lost, listUsed, nextWaiter>>
  PROVE  ListInv'
<1>1. ListTyped /\ ClientsInv /\ PushersInv /\ PermitInv /\ DistinctInv /\ Partition
  BY DEF ListInv
<1>2. /\ listPc' \in [Client \cup Pusher -> ClientAt \cup PusherAt] /\ listPc'[c] = l
      /\ \A b \in Client \ {c} : listPc'[b] = listPc[b]
      /\ \A p \in Pusher : c # p /\ listPc'[p] = listPc[p]
  BY <1>1, ClientMoves
<1>3. ListTyped'
  BY <1>1, <1>2 DEF ListTyped
<1>4. ClientsInv'
  BY <1>1, <1>2 DEF ClientsInv, ClientOK
<1>5. PushersInv' /\ \A p \in Pusher : InHand(p)' = InHand(p) /\ Working(p)' = Working(p)
  BY <1>1, <1>2, PushersFrame
<1>6. PermitInv'
  BY <1>1, <1>5 DEF PermitInv, Lists!Open
<1>7. \A b \in Client : InChan(b)' = InChan(b)
  BY DEF InChan
<1>8. Partition' /\ DistinctInv'
  BY <1>1, <1>5, <1>7, CalmSpots
<1> QED
  BY <1>3, <1>4, <1>5, <1>6, <1>8 DEF ListInv

\* What is left of keys after the first.
LEMMA TailOf ==
  ASSUME NEW s \in Seq(List), s # <<>>
  PROVE  /\ Head(s) \in List /\ Tail(s) \in Seq(List)
         /\ Len(s) # 1 => Tail(s) # <<>>
<1>1. Head(s) \in List /\ Tail(s) \in Seq(List) /\ Len(Tail(s)) = Len(s) - 1 /\ Len(s) \in Nat
  BY HeadTailProperties
<1>2. Tail(s) = <<>> <=> Len(Tail(s)) = 0
  BY <1>1, EmptySeq
<1> QED
  BY <1>1, <1>2

\* register_list_waiter.
LEMMA RegisterKeeps ==
  ASSUME ListInv, NEW c \in Client, Lists!Register(c)
  PROVE  ListInv'
<1> DEFINE k == Head(todo[c])
           r == [c |-> c, id |-> chan[c].id, dest |-> wait[c].dest, el |-> 0]
           l == IF Len(todo[c]) = 1 THEN "wait" ELSE "register"
<1>1. ListTyped /\ ClientsInv
  BY DEF ListInv
<1>2. /\ listPc[c] = "register" /\ queue' = [queue EXCEPT ![k] = Append(@, r)]
      /\ todo' = [todo EXCEPT ![c] = Tail(@)] /\ Lists!Goto(c, l)
      /\ UNCHANGED <<list, chan, wait, held, answered, lost, listUsed, nextWaiter>>
  BY DEF Lists!Register, Lists!ghosts
<1>3. todo[c] \in Seq(List) /\ todo[c] # <<>>
  BY <1>1, <1>2, Fields DEF ClientsInv, ClientOK
<1>4. /\ k \in List /\ Tail(todo[c]) \in Seq(List)
      /\ Len(todo[c]) # 1 => Tail(todo[c]) # <<>>
  BY <1>3, TailOf
<1>5. r \in Waiter
  BY <1>1, Fields DEF Waiter
<1>6. queue' \in [List -> Seq(Waiter)]
  <2> HIDE DEF k, r
  <2>1. queue \in [List -> Seq(Waiter)]
    BY <1>1 DEF ListTyped
  <2>2. Append(queue[k], r) \in Seq(Waiter)
    BY <1>4, <1>5, <2>1
  <2> QED
    BY <1>2, <1>4, <2>1, <2>2
<1>7. /\ todo' \in [Client \cup Pusher -> Seq(List)] /\ todo'[c] = Tail(todo[c])
      /\ \A x \in (Client \cup Pusher) \ {c} : todo'[x] = todo[x]
  BY <1>1, <1>2, <1>4 DEF ListTyped
<1>8. l \in ClientAt \ {"idle"} /\ (l = "register" => todo'[c] # <<>>)
  BY <1>4, <1>7 DEF ClientAt
<1> HIDE DEF k, r, l
<1> QED
  BY <1>2, <1>6, <1>7, <1>8, ClientQueues

\* The timeout, or the end of the connection.
LEMMA GiveUpKeeps ==
  ASSUME ListInv, NEW c \in Client, Lists!GiveUp(c)
  PROVE  ListInv'
<1>1. /\ queue' \in [List -> Seq(Waiter)] /\ todo' \in [Client \cup Pusher -> Seq(List)]
      /\ todo' = todo /\ Lists!Goto(c, "ended") /\ "ended" \in ClientAt \ {"idle"}
      /\ UNCHANGED <<list, chan, wait, held, answered, lost, listUsed, nextWaiter>>
  BY DEF Lists!GiveUp, ListInv, ListTyped, ClientAt, Lists!ghosts
<1> QED
  BY <1>1, ClientQueues

\* remove_list_waiters_by_id.
LEMMA DeregisterKeeps ==
  ASSUME ListInv, NEW c \in Client, Lists!Deregister(c)
  PROVE  ListInv'
<1>1. /\ todo' \in [Client \cup Pusher -> Seq(List)]
      /\ todo' = todo /\ Lists!Goto(c, "close") /\ "close" \in ClientAt \ {"idle"}
      /\ queue' = [k \in List |-> Lists!Retain(queue[k], chan[c].id)]
      /\ UNCHANGED <<list, chan, wait, held, answered, lost, listUsed, nextWaiter>>
  BY DEF Lists!Deregister, ListInv, ListTyped, ClientAt, Lists!ghosts
<1>2. \A k \in List : queue[k] \in Seq(Waiter)
  BY DEF ListInv, ListTyped
<1>3. \A k \in List : Lists!Retain(queue[k], chan[c].id) \in Seq(Waiter)
  BY <1>2, RetainTyped
<1>4. queue' \in [List -> Seq(Waiter)]
  BY <1>1, <1>3
<1> QED
  BY <1>1, <1>4, ClientQueues

\* A client that leaves its channel: an element in it is answered, or lost.
LEMMA ReceiveKeeps ==
  ASSUME ListInv, NEW c \in Client, Lists!Receive(c)
  PROVE  ListInv'
<1>1. ListTyped /\ ClientsInv /\ PushersInv /\ PermitInv /\ DistinctInv /\ Partition
  BY DEF ListInv
<1>2. /\ chan[c].st = "full" /\ Lists!Goto(c, "ended")
      /\ answered' = IF chan[c].moved THEN answered ELSE answered \cup {chan[c].el}
      /\ chan' = [chan EXCEPT ![c].st = "empty", ![c].el = 0]
      /\ UNCHANGED <<list, queue, wait, todo, held, lost, listUsed, nextWaiter>>
  BY DEF Lists!Receive
<1>3. "ended" \in ClientAt
  BY DEF ClientAt
<1>4. /\ listPc' \in [Client \cup Pusher -> ClientAt \cup PusherAt] /\ listPc'[c] = "ended"
      /\ \A b \in Client \ {c} : listPc'[b] = listPc[b]
      /\ \A p \in Pusher : c # p /\ listPc'[p] = listPc[p]
  BY <1>1, <1>2, <1>3, ClientMoves
<1>5. /\ chan' \in [Client -> Channel] /\ \A b \in Client \ {c} : chan'[b] = chan[b]
      /\ chan'[c].st = "empty" /\ chan'[c].id = chan[c].id
  <2> DEFINE q == [chan[c] EXCEPT !.st = "empty", !.el = 0]
  <2>1. chan \in [Client -> Channel]
    BY <1>1 DEF ListTyped
  <2>2. chan' = [chan EXCEPT ![c] = q]
    BY <1>2, <2>1
  <2>3. q \in Channel /\ q.st = "empty" /\ q.id = chan[c].id
    BY <2>1 DEF Channel
  <2> HIDE DEF q
  <2> QED
    BY <2>1, <2>2, <2>3
<1>6. ListTyped'
  <2>1. answered' \subseteq Nat
    BY <1>1, <1>2, Fields DEF ListTyped
  <2> QED
    BY <1>1, <1>2, <1>4, <1>5, <2>1 DEF ListTyped
<1>7. ClientsInv'
  BY <1>1, <1>2, <1>3, <1>4, <1>5 DEF ClientsInv, ClientOK
<1>8. PushersInv' /\ \A p \in Pusher : InHand(p)' = InHand(p) /\ Working(p)' = Working(p)
  BY <1>1, <1>2, <1>4, PushersFrame
<1>9. PermitInv'
  <2>1. ASSUME NEW p \in Pusher, Working(p)', Lists!Open(p)'
        PROVE  Lists!Open(p) /\ chan'[held[p].c].st = "reserved"
    <3>1. /\ held[p].c \in Client /\ (Lists!Open(p) => chan[held[p].c].st = "reserved")
      BY <1>1, <1>8, <2>1 DEF PermitInv, PushersInv, PusherOK, Working
    <3>2. CASE held[p].c = c
      BY <1>2, <1>5, <2>1, <3>1, <3>2 DEF Lists!Open
    <3>3. CASE held[p].c # c
      BY <1>2, <1>5, <2>1, <3>1, <3>3 DEF Lists!Open
    <3> QED
      BY <3>2, <3>3
  <2>2. nextWaiter' \in Nat /\ nextWaiter' >= nextWaiter /\ held' = held
    BY <1>1, <1>2 DEF ListTyped
  <2> QED
    BY <1>1, <1>8, <2>1, <2>2, PermitFrame
<1>10. InChan(c)' = {} /\ \A b \in Client \ {c} : InChan(b)' = InChan(b)
  BY <1>5 DEF InChan
<1>11. DistinctInv'
  BY <1>1, <1>2 DEF DistinctInv
<1>12. Partition'
  <2>1. CASE chan[c].moved
    <3>1. \A b \in Client : InChan(b)' = InChan(b)
      BY <1>10, <2>1 DEF InChan
    <3> QED
      BY <1>1, <1>2, <1>8, <2>1, <3>1, CalmSpots
  <2>2. CASE ~chan[c].moved
    <3> DEFINE x == <<"chan", c>>
               y == <<"answered", 0>>
               e == chan[c].el
    <3>1. InChan(c) = {e} /\ e \in Nat
      BY <1>1, <1>2, <2>2, Fields DEF InChan
    <3>2. /\ x \in Spot /\ y \in Spot /\ x # y /\ e \in Holds(x)
          /\ Holds(x)' = Holds(x) \ {e} /\ Holds(y)' = Holds(y) \cup {e}
      BY <1>2, <1>10, <2>2, <3>1, SpotHolds, SpotHoldsNext
    <3>3. ASSUME NEW z \in Spot \ {x, y} PROVE Holds(z)' = Holds(z)
      BY <1>2, <1>8, <1>10, <3>3, SpotCases, SpotHolds, SpotHoldsNext
    <3>4. listUsed'.pushes = listUsed.pushes
      BY <1>2
    <3> HIDE DEF x, y, e
    <3> QED
      BY <1>1, <3>1, <3>2, <3>3, <3>4, MoveKeeps
  <2> QED
    BY <2>1, <2>2
<1> QED
  BY <1>6, <1>7, <1>8, <1>9, <1>11, <1>12 DEF ListInv

\* The receiver is dropped, with what it holds.
LEMMA CloseKeeps ==
  ASSUME ListInv, NEW c \in Client, Lists!Close(c)
  PROVE  ListInv'
<1>1. ListTyped /\ ClientsInv /\ PushersInv /\ PermitInv /\ DistinctInv /\ Partition
  BY DEF ListInv
<1>2. /\ Lists!Goto(c, "idle")
      /\ lost' = IF chan[c].st = "full" /\ ~chan[c].moved THEN lost \cup {chan[c].el} ELSE lost
      /\ chan' = [chan EXCEPT ![c] = Lists!Closed] /\ wait' = [wait EXCEPT ![c] = Lists!NoWait]
      /\ UNCHANGED <<list, queue, todo, held, answered, listUsed, nextWaiter>>
  BY DEF Lists!Close
<1>3. "idle" \in ClientAt
  BY DEF ClientAt
<1>4. /\ listPc' \in [Client \cup Pusher -> ClientAt \cup PusherAt] /\ listPc'[c] = "idle"
      /\ \A b \in Client \ {c} : listPc'[b] = listPc[b]
      /\ \A p \in Pusher : c # p /\ listPc'[p] = listPc[p]
  BY <1>1, <1>2, <1>3, ClientMoves
<1>5. /\ chan' \in [Client -> Channel] /\ \A b \in Client \ {c} : chan'[b] = chan[b]
      /\ chan'[c].st = "closed" /\ chan'[c].id = 0
      /\ wait' \in [Client -> [keys : Seq(List), dest : List \cup {None}]]
  BY <1>1, <1>2, EmptyRecords DEF ListTyped
<1>6. ListTyped'
  <2>1. lost' \subseteq Nat
    BY <1>1, <1>2, Fields DEF ListTyped
  <2> QED
    BY <1>1, <1>2, <1>4, <1>5, <2>1 DEF ListTyped
<1>7. ClientsInv'
  BY <1>1, <1>2, <1>3, <1>4, <1>5 DEF ClientsInv, ClientOK
<1>8. PushersInv' /\ \A p \in Pusher : InHand(p)' = InHand(p) /\ Working(p)' = Working(p)
  BY <1>1, <1>2, <1>4, PushersFrame
<1>9. PermitInv'
  <2>1. ASSUME NEW p \in Pusher, Working(p)', Lists!Open(p)'
        PROVE  Lists!Open(p) /\ chan'[held[p].c].st = "reserved"
    <3>1. /\ held[p].c \in Client /\ (Lists!Open(p) => chan[held[p].c].st = "reserved")
      BY <1>1, <1>8, <2>1 DEF PermitInv, PushersInv, PusherOK, Working
    <3>2. held[p].c # c
      BY <1>2, <1>5, <2>1, <3>1 DEF Lists!Open
    <3> QED
      BY <1>2, <1>5, <2>1, <3>1, <3>2 DEF Lists!Open
  <2>2. nextWaiter' \in Nat /\ nextWaiter' >= nextWaiter /\ held' = held
    BY <1>1, <1>2 DEF ListTyped
  <2> QED
    BY <1>1, <1>8, <2>1, <2>2, PermitFrame
<1>10. InChan(c)' = {} /\ \A b \in Client \ {c} : InChan(b)' = InChan(b)
  BY <1>5 DEF InChan
<1>11. DistinctInv'
  BY <1>1, <1>2 DEF DistinctInv
<1>12. Partition'
  <2>1. CASE ~(chan[c].st = "full" /\ ~chan[c].moved)
    <3>1. \A b \in Client : InChan(b)' = InChan(b)
      BY <1>10, <2>1 DEF InChan
    <3> QED
      BY <1>1, <1>2, <1>8, <2>1, <3>1, CalmSpots
  <2>2. CASE chan[c].st = "full" /\ ~chan[c].moved
    <3> DEFINE x == <<"chan", c>>
               y == <<"lost", 0>>
               e == chan[c].el
    <3>1. InChan(c) = {e} /\ e \in Nat
      BY <1>1, <2>2, Fields DEF InChan
    <3>2. /\ x \in Spot /\ y \in Spot /\ x # y /\ e \in Holds(x)
          /\ Holds(x)' = Holds(x) \ {e} /\ Holds(y)' = Holds(y) \cup {e}
      BY <1>2, <1>10, <2>2, <3>1, SpotHolds, SpotHoldsNext
    <3>3. ASSUME NEW z \in Spot \ {x, y} PROVE Holds(z)' = Holds(z)
      BY <1>2, <1>8, <1>10, <3>3, SpotCases, SpotHolds, SpotHoldsNext
    <3>4. listUsed'.pushes = listUsed.pushes
      BY <1>2
    <3> HIDE DEF x, y, e
    <3> QED
      BY <1>1, <3>1, <3>2, <3>3, <3>4, MoveKeeps
  <2> QED
    BY <2>1, <2>2
<1> QED
  BY <1>6, <1>7, <1>8, <1>9, <1>11, <1>12 DEF ListInv

-----------------------------------------------------------------------------
(* Pushers                                                                 *)

\* A step of one pusher leaves the others, and the clients, where they are.
LEMMA PusherMoves ==
  ASSUME ListTyped, NEW p \in Pusher, NEW l \in PusherAt, Lists!Goto(p, l)
  PROVE  /\ listPc' \in [Client \cup Pusher -> ClientAt \cup PusherAt] /\ listPc'[p] = l
         /\ \A q \in Pusher \ {p} : listPc'[q] = listPc[q]
         /\ \A c \in Client : c # p /\ listPc'[c] = listPc[c]
BY ListAssumption DEF ListTyped, Lists!Goto

\* Clients are not concerned by a step of a pusher that leaves their channels open.
LEMMA ClientsFrame ==
  ASSUME ClientsInv, nextWaiter' = nextWaiter,
         \A c \in Client : /\ listPc'[c] = listPc[c] /\ todo'[c] = todo[c]
                           /\ chan'[c].id = chan[c].id
                           /\ chan[c].st = "closed" => chan'[c].st = "closed"
  PROVE  ClientsInv'
BY DEF ClientsInv, ClientOK

\* Other pushers are not concerned.
LEMMA OthersFrame ==
  ASSUME PushersInv, NEW p \in Pusher, PusherOK(p)',
         \A q \in Pusher \ {p} :
           listPc'[q] = listPc[q] /\ todo'[q] = todo[q] /\ held'[q] = held[q]
  PROVE  /\ PushersInv'
         /\ \A q \in Pusher \ {p} : InHand(q)' = InHand(q) /\ Working(q)' = Working(q)
BY DEF PushersInv, PusherOK, InHand, Working

\* The steps of a pusher that have no element in hand and do not begin to work: what
\* they do to the queues, and the permit they may give back.
LEMMA PusherCalm ==
  ASSUME ListInv, NEW p \in Pusher, NEW l \in PusherAt \ {"pop", "send"}, Lists!Goto(p, l),
         listPc[p] # "send", queue' \in [List -> Seq(Waiter)],
         todo' \in [Client \cup Pusher -> Seq(List)], held' \in [Pusher -> Request],
         \A x \in (Client \cup Pusher) \ {p} : todo'[x] = todo[x],
         \A q \in Pusher \ {p} : held'[q] = held[q],
         l # "idle" => todo'[p] # <<>>, l = "reserve" => held'[p].c \in Client,
         held'[p].el = 0,
         \/ chan' = chan
         \/ Working(p) /\ Lists!Open(p) /\ chan' = [chan EXCEPT ![held[p].c].st = "empty"],
         listUsed' \in [pushes : Nat, waits : Nat, others : Nat],
         listUsed'.pushes = listUsed.pushes,
         UNCHANGED <<list, wait, answered, lost, nextWaiter>>
  PROVE  ListInv'
<1>1. ListTyped /\ ClientsInv /\ PushersInv /\ PermitInv /\ DistinctInv /\ Partition
  BY DEF ListInv
<1>2. /\ listPc' \in [Client \cup Pusher -> ClientAt \cup PusherAt] /\ listPc'[p] = l
      /\ \A q \in Pusher \ {p} : listPc'[q] = listPc[q]
      /\ \A c \in Client : c # p /\ listPc'[c] = listPc[c]
  BY <1>1, PusherMoves
<1>3. PusherOK(p)'
  BY <1>2 DEF PusherOK
<1>4. /\ PushersInv'
      /\ \A q \in Pusher \ {p} : InHand(q)' = InHand(q) /\ Working(q)' = Working(q)
  BY <1>1, <1>2, <1>3, OthersFrame
<1>5. InHand(p) = {} /\ InHand(p)' = {}
  BY <1>1 DEF InHand, PushersInv, PusherOK
<1>6. /\ chan' \in [Client -> Channel]
      /\ \A c \in Client : /\ chan'[c].id = chan[c].id
                           /\ chan[c].st = "closed" => chan'[c].st = "closed"
                           /\ InChan(c)' = InChan(c)
      /\ \A q \in Pusher \ {p} : Working(q) =>
           /\ Lists!Open(q) => chan'[held[q].c].st = "reserved"
           /\ chan'[held[q].c].st # "closed" => chan[held[q].c].st # "closed"
           /\ chan'[held[q].c].id = chan[held[q].c].id
  <2>1. CASE chan' = chan
    BY <1>1, <2>1 DEF InChan, PermitInv, ListTyped
  <2>2. CASE Working(p) /\ Lists!Open(p) /\ chan' = [chan EXCEPT ![held[p].c].st = "empty"]
    <3> DEFINE c == held[p].c
    <3>1. c \in Client /\ chan[c].st = "reserved"
      BY <1>1, <2>2 DEF PermitInv, PushersInv, PusherOK, Working
    <3>2. /\ chan' \in [Client -> Channel] /\ chan'[c].st = "empty"
          /\ chan'[c].id = chan[c].id
          /\ \A b \in Client \ {c} : chan'[b] = chan[b]
      <4>1. chan' = [chan EXCEPT ![c].st = "empty"] /\ chan \in [Client -> Channel]
        BY <1>1, <2>2 DEF ListTyped
      <4> HIDE DEF c
      <4>2. chan' = [chan EXCEPT ![c] = [chan[c] EXCEPT !.st = "empty"]]
        BY <4>1
      <4>3. [chan[c] EXCEPT !.st = "empty"] \in Channel
        BY <3>1, <4>1 DEF Channel
      <4> QED
        BY <3>1, <4>1, <4>2, <4>3 DEF Channel
    <3>3. ASSUME NEW b \in Client
          PROVE  /\ chan'[b].id = chan[b].id /\ InChan(b)' = InChan(b)
                 /\ chan[b].st = "closed" => chan'[b].st = "closed"
      BY <3>1, <3>2 DEF InChan
    <3>4. ASSUME NEW q \in Pusher \ {p}, Working(q)
          PROVE  /\ Lists!Open(q) => chan'[held[q].c].st = "reserved"
                 /\ chan'[held[q].c].st # "closed" => chan[held[q].c].st # "closed"
                 /\ chan'[held[q].c].id = chan[held[q].c].id
      <4>1. held[q].c \in Client
        BY <1>1, <3>4 DEF PushersInv, PusherOK, Working
      <4>2. Lists!Open(q) => held[q].c # c /\ chan[held[q].c].st = "reserved"
        BY <1>1, <2>2, <3>4 DEF PermitInv
      <4>3. CASE held[q].c = c
        BY <3>1, <3>2, <4>2, <4>3
      <4>4. CASE held[q].c # c
        BY <3>2, <4>1, <4>2, <4>4
      <4> QED
        BY <4>3, <4>4
    <3> QED
      BY <3>2, <3>3, <3>4
  <2> QED
    BY <2>1, <2>2
<1>7. ListTyped'
  BY <1>1, <1>2, <1>6 DEF ListTyped
<1>8. ClientsInv'
  BY <1>1, <1>2, <1>6, ClientsFrame
<1>9. PermitInv'
  <2>1. ASSUME NEW q \in Pusher, Working(q)'
        PROVE  /\ Working(q) /\ held'[q].c = held[q].c /\ held'[q].id = held[q].id
               /\ Lists!Open(q)' => Lists!Open(q) /\ chan'[held[q].c].st = "reserved"
    <3>1. q # p
      BY <1>2, <2>1 DEF Working
    <3>2. Working(q) /\ held'[q] = held[q]
      BY <1>4, <2>1, <3>1
    <3> QED
      BY <1>6, <3>1, <3>2 DEF Lists!Open
  <2>2. nextWaiter' \in Nat /\ nextWaiter' >= nextWaiter
    BY <1>1 DEF ListTyped
  <2> QED
    BY <1>1, <2>1, <2>2, PermitFrame
<1>10. Partition' /\ DistinctInv'
  BY <1>1, <1>4, <1>5, <1>6, CalmSpots
<1> QED
  BY <1>4, <1>7, <1>8, <1>9, <1>10 DEF ListInv

\* The end of a drain: the innermost key goes, and the pusher with it if it was the last.
LEMMA DrainedEffect ==
  ASSUME ListTyped, NEW p \in Pusher, todo[p] # <<>>, Lists!Drained(p)
  PROVE  \E l \in PusherAt \ {"pop", "send"} :
           /\ Lists!Goto(p, l) /\ l # "reserve" /\ (l # "idle" => todo'[p] # <<>>)
           /\ todo' \in [Client \cup Pusher -> Seq(List)] /\ held' \in [Pusher -> Request]
           /\ \A x \in (Client \cup Pusher) \ {p} : todo'[x] = todo[x]
           /\ \A q \in Pusher \ {p} : held'[q] = held[q]
           /\ held'[p].el = 0
<1> DEFINE l == IF Len(todo[p]) = 1 THEN "idle" ELSE "drain"
<1>1. /\ todo' = [todo EXCEPT ![p] = Tail(@)] /\ held' = [held EXCEPT ![p] = Lists!NoReq]
      /\ Lists!Goto(p, l)
  BY DEF Lists!Drained
<1>2. /\ todo \in [Client \cup Pusher -> Seq(List)] /\ held \in [Pusher -> Request]
      /\ todo[p] \in Seq(List)
  BY Fields DEF ListTyped
<1>3. Tail(todo[p]) \in Seq(List) /\ (Len(todo[p]) # 1 => Tail(todo[p]) # <<>>)
  BY <1>2, TailOf
<1>4. /\ todo' \in [Client \cup Pusher -> Seq(List)] /\ todo'[p] = Tail(todo[p])
      /\ \A x \in (Client \cup Pusher) \ {p} : todo'[x] = todo[x]
  BY <1>1, <1>2, <1>3
<1>5. /\ held' \in [Pusher -> Request] /\ held'[p].el = 0
      /\ \A q \in Pusher \ {p} : held'[q] = held[q]
  BY <1>1, <1>2, EmptyRecords
<1>6. l \in PusherAt \ {"pop", "send"} /\ l # "reserve" /\ (l # "idle" => todo'[p] # <<>>)
  BY <1>3, <1>4 DEF PusherAt
<1> HIDE DEF l
<1> QED
  BY <1>1, <1>4, <1>5, <1>6

\* The waiter in hand, before the pop, is as it was in the queue.
LEMMA HeldWaiter ==
  ASSUME ListInv, NEW p \in Pusher, listPc[p] \in {"reserve", "pop"}
  PROVE  /\ held[p] \in Waiter /\ held[p].c \in Client /\ todo[p] \in Seq(List)
         /\ todo[p] # <<>> /\ Head(todo[p]) \in List
<1>1. /\ held[p] \in Request /\ held[p].c \in Client /\ held[p].el = 0
      /\ todo[p] \in Seq(List) /\ todo[p] # <<>>
  BY Fields DEF ListInv, PushersInv, PusherOK
<1>2. held[p] \in Waiter
  BY <1>1 DEF Request, Waiter
<1>3. Head(todo[p]) \in List
  BY <1>1, TailOf
<1> QED
  BY <1>1, <1>2, <1>3

\* It goes back to the front of the queue.
LEMMA PutBackQueue ==
  ASSUME ListInv, NEW p \in Pusher, listPc[p] \in {"reserve", "pop"}, Lists!PutBack(p)
  PROVE  queue' \in [List -> Seq(Waiter)]
<1>1. /\ queue' = [queue EXCEPT ![Head(todo[p])] = <<held[p]>> \o @]
      /\ queue \in [List -> Seq(Waiter)]
  BY DEF Lists!PutBack, ListInv, ListTyped
<1>2. held[p] \in Waiter /\ Head(todo[p]) \in List
  BY HeldWaiter
<1>3. <<held[p]>> \in Seq(Waiter) /\ queue[Head(todo[p])] \in Seq(Waiter)
  BY <1>1, <1>2
<1>4. <<held[p]>> \o queue[Head(todo[p])] \in Seq(Waiter)
  BY <1>3
<1> QED
  BY <1>1, <1>2, <1>4

\* has_list_waiters.
LEMMA CheckWaitersKeeps ==
  ASSUME ListInv, NEW p \in Pusher, Lists!CheckWaiters(p)
  PROVE  ListInv'
<1> DEFINE l == IF Lists!HasListWaiters THEN "drain" ELSE "idle"
<1>1. /\ listPc[p] = "pushed" /\ Lists!Goto(p, l)
      /\ todo' = [todo EXCEPT ![p] = IF Lists!HasListWaiters THEN @ ELSE <<>>]
      /\ UNCHANGED <<list, queue, chan, wait, held, answered, lost, listUsed, nextWaiter>>
  BY DEF Lists!CheckWaiters, Lists!ghosts
<1>2. /\ ListTyped /\ todo[p] \in Seq(List) /\ todo[p] # <<>> /\ held[p].el = 0
  BY <1>1, Fields DEF ListInv, PushersInv, PusherOK
<1>3. /\ todo' \in [Client \cup Pusher -> Seq(List)] /\ (l # "idle" => todo'[p] # <<>>)
      /\ \A x \in (Client \cup Pusher) \ {p} : todo'[x] = todo[x]
  BY <1>1, <1>2 DEF ListTyped
<1>4. /\ queue' \in [List -> Seq(Waiter)] /\ held' \in [Pusher -> Request] /\ held'[p].el = 0
      /\ listUsed' \in [pushes : Nat, waits : Nat, others : Nat]
      /\ listUsed'.pushes = listUsed.pushes /\ held' = held /\ chan' = chan
  BY <1>1, <1>2 DEF ListTyped
<1>5. l \in PusherAt \ {"pop", "send"} /\ l # "reserve" /\ listPc[p] # "send"
  BY <1>1 DEF PusherAt
<1> HIDE DEF l
<1> QED
  BY <1>1, <1>3, <1>4, <1>5, PusherCalm

\* drain_list_waiters takes the first waiter.
LEMMA TakeWaiterKeeps ==
  ASSUME ListInv, NEW p \in Pusher, Lists!TakeWaiter(p)
  PROVE  ListInv'
<1> DEFINE k == Head(todo[p])
<1>1. /\ listPc[p] = "drain"
      /\ UNCHANGED <<list, chan, wait, answered, lost, listUsed, nextWaiter>>
  BY DEF Lists!TakeWaiter, Lists!ghosts
<1>2. /\ ListTyped /\ todo[p] \in Seq(List) /\ todo[p] # <<>> /\ held[p].el = 0
      /\ queue \in [List -> Seq(Waiter)] /\ held \in [Pusher -> Request]
  BY <1>1, Fields DEF ListInv, ListTyped, PushersInv, PusherOK
<1>3. k \in List
  BY <1>2, TailOf
<1>4. /\ listUsed' \in [pushes : Nat, waits : Nat, others : Nat]
      /\ listUsed'.pushes = listUsed.pushes /\ chan' = chan /\ listPc[p] # "send"
  BY <1>1, <1>2 DEF ListTyped
<1>5. CASE Lists!Drained(p) /\ UNCHANGED queue
  <2>1. queue' \in [List -> Seq(Waiter)]
    BY <1>2, <1>5
  <2> QED
    BY <1>1, <1>2, <1>4, <1>5, <2>1, DrainedEffect, PusherCalm
<1>6. CASE /\ queue[k] # <<>> /\ held' = [held EXCEPT ![p] = Head(queue[k])]
           /\ queue' = [queue EXCEPT ![k] = Tail(@)] /\ Lists!Goto(p, "reserve")
           /\ UNCHANGED todo
  <2> HIDE DEF k
  <2>1. queue[k] \in Seq(Waiter)
    BY <1>2, <1>3
  <2>2. Head(queue[k]) \in Waiter /\ Tail(queue[k]) \in Seq(Waiter)
    BY <1>6, <2>1, HeadTailProperties
  <2>3. queue' \in [List -> Seq(Waiter)]
    BY <1>2, <1>3, <1>6, <2>2
  <2>4. Head(queue[k]) \in Request /\ Head(queue[k]).el = 0 /\ Head(queue[k]).c \in Client
    BY <2>2 DEF Waiter, Request
  <2>5. /\ held' \in [Pusher -> Request] /\ held'[p] = Head(queue[k])
        /\ \A q \in Pusher \ {p} : held'[q] = held[q]
    BY <1>2, <1>6, <2>4
  <2>6. /\ todo' \in [Client \cup Pusher -> Seq(List)] /\ todo'[p] # <<>>
        /\ \A x \in (Client \cup Pusher) \ {p} : todo'[x] = todo[x]
    BY <1>2, <1>6 DEF ListTyped
  <2>7. "reserve" \in PusherAt \ {"pop", "send"}
    BY DEF PusherAt
  <2>8. held'[p].el = 0 /\ held'[p].c \in Client /\ Lists!Goto(p, "reserve")
    BY <1>6, <2>4, <2>5
  <2> QED
    BY <1>1, <1>4, <2>3, <2>5, <2>6, <2>7, <2>8, PusherCalm
<1> QED
  BY <1>5, <1>6 DEF Lists!TakeWaiter

\* The list is empty or the journal fails: waiter and permit go back.
LEMMA PopNothingKeeps ==
  ASSUME ListInv, NEW p \in Pusher, Lists!PopNothing(p)
  PROVE  ListInv'
<1>1. /\ listPc[p] = "pop" /\ Lists!Unreserve(p) /\ Lists!PutBack(p)
      /\ listUsed' = listUsed \/ listUsed' = [listUsed EXCEPT !.others = @ + 1]
      /\ UNCHANGED <<list, wait, answered, lost, nextWaiter>>
  BY DEF Lists!PopNothing, Lists!ghosts
<1>2. ListTyped /\ todo[p] # <<>>
  BY <1>1, HeldWaiter DEF ListInv
<1>3. /\ listUsed' \in [pushes : Nat, waits : Nat, others : Nat]
      /\ listUsed'.pushes = listUsed.pushes
  BY <1>1, <1>2, Counted DEF ListTyped
<1>4. queue' \in [List -> Seq(Waiter)]
  BY <1>1, PutBackQueue
<1>5. Working(p) /\ listPc[p] # "send" /\ Lists!Drained(p)
  BY <1>1 DEF Working, Lists!PutBack
<1>6. \/ chan' = chan
      \/ Working(p) /\ Lists!Open(p) /\ chan' = [chan EXCEPT ![held[p].c].st = "empty"]
  BY <1>1, <1>5 DEF Lists!Unreserve
<1>7. PICK l \in PusherAt \ {"pop", "send"} :
           /\ Lists!Goto(p, l) /\ l # "reserve" /\ (l # "idle" => todo'[p] # <<>>)
           /\ todo' \in [Client \cup Pusher -> Seq(List)] /\ held' \in [Pusher -> Request]
           /\ \A x \in (Client \cup Pusher) \ {p} : todo'[x] = todo[x]
           /\ \A q \in Pusher \ {p} : held'[q] = held[q]
           /\ held'[p].el = 0
  BY <1>2, <1>5, DrainedEffect
<1> QED
  BY <1>1, <1>3, <1>4, <1>5, <1>6, <1>7, PusherCalm

\* try_reserve_owned: nobody else works for a channel that has room.
LEMMA ReserveKeeps ==
  ASSUME ListInv, NEW p \in Pusher, Lists!Reserve(p)
  PROVE  ListInv'
<1>1. listPc[p] = "reserve" /\ UNCHANGED <<list, wait, answered, lost, listUsed, nextWaiter>>
  BY DEF Lists!Reserve, Lists!ghosts
<1>2. ListTyped /\ ClientsInv /\ PushersInv /\ PermitInv /\ DistinctInv /\ Partition
  BY DEF ListInv
<1>3. /\ held[p] \in Waiter /\ held[p].c \in Client /\ todo[p] \in Seq(List) /\ todo[p] # <<>>
  BY <1>1, HeldWaiter
<1>4. /\ listUsed' \in [pushes : Nat, waits : Nat, others : Nat]
      /\ listUsed'.pushes = listUsed.pushes /\ listPc[p] # "send"
  BY <1>1, <1>2 DEF ListTyped
<1>5. CASE /\ held' = [held EXCEPT ![p] = Lists!NoReq] /\ Lists!Goto(p, "drain")
           /\ UNCHANGED <<queue, chan, todo>>
  <2>1. /\ held' \in [Pusher -> Request] /\ held'[p].el = 0
        /\ \A q \in Pusher \ {p} : held'[q] = held[q]
    BY <1>2, <1>5, EmptyRecords DEF ListTyped
  <2>2. /\ queue' \in [List -> Seq(Waiter)] /\ todo' \in [Client \cup Pusher -> Seq(List)]
        /\ todo' = todo /\ chan' = chan
    BY <1>2, <1>5 DEF ListTyped
  <2>3. "drain" \in PusherAt \ {"pop", "send"} /\ Lists!Goto(p, "drain")
    BY <1>5 DEF PusherAt
  <2> QED
    BY <1>1, <1>3, <1>4, <2>1, <2>2, <2>3, PusherCalm
<1>6. CASE Lists!PutBack(p) /\ UNCHANGED chan
  <2>1. queue' \in [List -> Seq(Waiter)] /\ Lists!Drained(p)
    BY <1>1, <1>6, PutBackQueue DEF Lists!PutBack
  <2>2. PICK l \in PusherAt \ {"pop", "send"} :
           /\ Lists!Goto(p, l) /\ l # "reserve" /\ (l # "idle" => todo'[p] # <<>>)
           /\ todo' \in [Client \cup Pusher -> Seq(List)] /\ held' \in [Pusher -> Request]
           /\ \A x \in (Client \cup Pusher) \ {p} : todo'[x] = todo[x]
           /\ \A q \in Pusher \ {p} : held'[q] = held[q]
           /\ held'[p].el = 0
    BY <1>2, <1>3, <2>1, DrainedEffect
  <2> QED
    BY <1>1, <1>4, <1>6, <2>1, <2>2, PusherCalm
<1>7. CASE /\ Lists!Open(p) /\ Lists!HasRoom(p)
           /\ chan' = [chan EXCEPT ![held[p].c].st = "reserved"]
           /\ Lists!Goto(p, "pop") /\ UNCHANGED <<queue, todo, held>>
  <2> DEFINE c == held[p].c
  <2>1. /\ c \in Client /\ chan[c].st = "empty" /\ chan[c].id = held[p].id
        /\ chan' = [chan EXCEPT ![c].st = "reserved"] /\ chan \in [Client -> Channel]
    BY <1>2, <1>3, <1>7 DEF Lists!Open, Lists!HasRoom, ListTyped
  <2>2. /\ chan' \in [Client -> Channel] /\ chan'[c].st = "reserved"
        /\ chan'[c].id = chan[c].id
        /\ \A b \in Client \ {c} : chan'[b] = chan[b]
    <3> HIDE DEF c
    <3>1. chan' = [chan EXCEPT ![c] = [chan[c] EXCEPT !.st = "reserved"]]
      BY <2>1
    <3>2. [chan[c] EXCEPT !.st = "reserved"] \in Channel
      BY <2>1 DEF Channel
    <3> QED
      BY <2>1, <3>1, <3>2 DEF Channel
  <2>3. "pop" \in PusherAt
    BY DEF PusherAt
  <2>4. /\ listPc' \in [Client \cup Pusher -> ClientAt \cup PusherAt] /\ listPc'[p] = "pop"
        /\ \A q \in Pusher \ {p} : listPc'[q] = listPc[q]
        /\ \A b \in Client : b # p /\ listPc'[b] = listPc[b]
    BY <1>2, <1>7, <2>3, PusherMoves
  <2>5. ListTyped'
    BY <1>1, <1>2, <1>7, <2>2, <2>4 DEF ListTyped
  <2>6. ClientsInv'
    BY <1>1, <1>2, <1>7, <2>1, <2>2, <2>4, ClientsFrame
  <2>7. PusherOK(p)'
    BY <1>1, <1>2, <1>3, <1>7, <2>3, <2>4 DEF PusherOK, PushersInv
  <2>8. /\ PushersInv'
        /\ \A q \in Pusher \ {p} : InHand(q)' = InHand(q) /\ Working(q)' = Working(q)
    BY <1>2, <1>7, <2>4, <2>7, OthersFrame
  <2>9. PermitInv'
    <3>1. ASSUME NEW q \in Pusher \ {p}, Working(q)', Lists!Open(q)'
          PROVE  Working(q) /\ held[q].c # c /\ Lists!Open(q) /\ chan'[held[q].c].st = "reserved"
      <4>1. Working(q) /\ held[q].c \in Client /\ held' = held
        BY <1>2, <1>7, <2>8, <3>1 DEF PushersInv, PusherOK, Working
      <4>2. Lists!Open(q) => chan[held[q].c].st = "reserved"
        BY <1>2, <4>1 DEF PermitInv
      <4>3. CASE held[q].c = c
        <5>1. Lists!Open(q)
          BY <2>1, <2>2, <3>1, <4>1, <4>3 DEF Lists!Open
        <5> QED
          BY <2>1, <4>2, <4>3, <5>1
      <4>4. CASE held[q].c # c
        BY <2>2, <3>1, <4>1, <4>2, <4>4 DEF Lists!Open
      <4> QED
        BY <4>3, <4>4
    <3>2. held[p].id < nextWaiter'
      BY <1>1, <1>2, <2>1 DEF ClientsInv, ClientOK
    <3>3. \A q \in Pusher \ {p} : Working(q)' => held[q].id < nextWaiter'
      BY <1>1, <1>2, <2>8 DEF PermitInv
    <3>4. held' = held
      BY <1>7
    <3>5. ASSUME NEW q \in Pusher, Working(q)'
          PROVE  held'[q].id < nextWaiter' /\ (Lists!Open(q)' => chan'[held'[q].c].st = "reserved")
      <4>1. CASE q = p
        BY <2>2, <3>2, <3>4, <4>1
      <4>2. CASE q # p
        BY <3>1, <3>3, <3>4, <3>5, <4>2
      <4> QED
        BY <4>1, <4>2
    <3>6. ASSUME NEW q \in Pusher, NEW r \in Pusher, Working(q)', Working(r)',
                 Lists!Open(q)', Lists!Open(r)', held'[q].c = held'[r].c
          PROVE  q = r
      <4>1. CASE q # p /\ r # p
        BY <1>2, <3>1, <3>4, <3>6, <4>1 DEF PermitInv
      <4>2. CASE q = p \/ r = p
        BY <3>1, <3>4, <3>6, <4>2
      <4> QED
        BY <4>1, <4>2
    <3> QED
      BY <3>5, <3>6 DEF PermitInv
  <2>10. InHand(p)' = InHand(p) /\ \A b \in Client : InChan(b)' = InChan(b)
    BY <1>7, <2>1, <2>2 DEF InHand, InChan
  <2>11. Partition' /\ DistinctInv'
    BY <1>1, <1>2, <2>8, <2>10, CalmSpots
  <2> QED
    BY <2>5, <2>6, <2>8, <2>9, <2>11 DEF ListInv
<1> QED
  BY <1>5, <1>6, <1>7 DEF Lists!Reserve

\* commit_prepared: the element is in the hands of the drain, or in the list it moves to.
LEMMA PopForWaiterKeeps ==
  ASSUME ListInv, NEW p \in Pusher, Lists!PopForWaiter(p)
  PROVE  ListInv'
<1> DEFINE k == Head(todo[p])
           e == Head(list[k])
           d == held[p].dest
<1>1. /\ listPc[p] = "pop" /\ list[k] # <<>> /\ list' = Lists!Taken(k, d)
      /\ held' = [held EXCEPT ![p].el = e] /\ Lists!Goto(p, "send")
      /\ UNCHANGED <<queue, chan, wait, todo, answered, lost, listUsed, nextWaiter>>
  BY DEF Lists!PopForWaiter, Lists!PoppedOff, Lists!ghosts
<1>2. ListTyped /\ ClientsInv /\ PushersInv /\ PermitInv /\ DistinctInv /\ Partition
  BY DEF ListInv
<1>3. /\ held[p] \in Waiter /\ held[p].c \in Client /\ todo[p] # <<>> /\ k \in List
      /\ held[p].el = 0
  BY <1>1, HeldWaiter DEF Waiter
<1>4. d \in List \cup {None} /\ held \in [Pusher -> Request]
  BY <1>2, Fields DEF ListTyped
<1> HIDE DEF k, d
<1>5. e \in Nat /\ e \in Elements(list[k])
  BY <1>1, <1>2, <1>3, TakenAway
<1>6. e # 0
  <2>1. <<"list", k>> \in Spot /\ e \in Holds(<<"list", k>>)
    BY <1>3, <1>5, SpotHolds
  <2>2. e \in 1..listUsed.pushes
    BY <1>2, <1>5, <2>1 DEF Partition
  <2> QED
    BY <2>2
<1> HIDE DEF e
<1>7. /\ held' \in [Pusher -> Request] /\ held'[p].el = e /\ held'[p].c = held[p].c
      /\ held'[p].id = held[p].id /\ held'[p].dest = held[p].dest
      /\ \A q \in Pusher \ {p} : held'[q] = held[q]
  <2>1. held' = [held EXCEPT ![p] = [held[p] EXCEPT !.el = e]]
    BY <1>1, <1>4
  <2>2. [held[p] EXCEPT !.el = e] \in Request
    BY <1>4, <1>5 DEF Request
  <2> QED
    BY <1>4, <2>1, <2>2 DEF Request
<1>8. "send" \in PusherAt
  BY DEF PusherAt
<1>9. /\ listPc' \in [Client \cup Pusher -> ClientAt \cup PusherAt] /\ listPc'[p] = "send"
      /\ \A q \in Pusher \ {p} : listPc'[q] = listPc[q]
      /\ \A b \in Client : b # p /\ listPc'[b] = listPc[b]
  BY <1>1, <1>2, <1>8, PusherMoves
<1>10. PusherOK(p)'
  BY <1>1, <1>3, <1>6, <1>7, <1>8, <1>9 DEF PusherOK
<1>11. /\ PushersInv'
       /\ \A q \in Pusher \ {p} : InHand(q)' = InHand(q) /\ Working(q)' = Working(q)
  BY <1>1, <1>2, <1>7, <1>9, <1>10, OthersFrame
<1>12. ClientsInv'
  BY <1>1, <1>2, <1>9, ClientsFrame
<1>13. PermitInv'
  <2>1. ASSUME NEW q \in Pusher, Working(q)'
        PROVE  /\ Working(q) /\ held'[q].c = held[q].c /\ held'[q].id = held[q].id
               /\ Lists!Open(q)' => Lists!Open(q) /\ chan'[held[q].c].st = "reserved"
    <3>1. Working(q) /\ held'[q].c = held[q].c /\ held'[q].id = held[q].id
      BY <1>1, <1>7, <1>11, <2>1 DEF Working
    <3>2. Lists!Open(q)' => Lists!Open(q)
      BY <1>1, <3>1 DEF Lists!Open
    <3> QED
      BY <1>1, <1>2, <3>1, <3>2 DEF PermitInv
  <2>2. nextWaiter' \in Nat /\ nextWaiter' >= nextWaiter
    BY <1>1, <1>2 DEF ListTyped
  <2> QED
    BY <1>2, <2>1, <2>2, PermitFrame
<1>14. listUsed'.pushes = listUsed.pushes /\ \A b \in Client : InChan(b)' = InChan(b)
  BY <1>1 DEF InChan
<1>15. list' \in [List -> Seq(Nat)] /\ DistinctInv' /\ Partition'
  <2>1. CASE d = None
    <3> DEFINE y == <<"hand", p>>
    <3>1. InHand(p) = {} /\ InHand(p)' = {e}
      BY <1>3, <1>6, <1>7, <2>1 DEF InHand, d
    <3>2. y \in Spot \ ({"list"} \X List) /\ Holds(y)' = Holds(y) \cup {Head(list[k])}
      BY <3>1, SpotHolds, SpotHoldsNext DEF e
    <3>3. ASSUME NEW z \in Spot \ ({"list"} \X List), z # y PROVE Holds(z)' = Holds(z)
      BY <1>1, <1>11, <1>14, <3>3, SpotCases, SpotHolds, SpotHoldsNext
    <3>4. list' = Lists!Taken(k, None)
      BY <1>1, <2>1
    <3> HIDE DEF y
    <3> QED
      BY <1>1, <1>2, <1>3, <1>14, <3>2, <3>3, <3>4, TakenOut
  <2>2. CASE d # None
    <3>1. d \in List
      BY <1>4, <2>2
    <3>2. \A q \in Pusher : InHand(q)' = InHand(q)
      BY <1>3, <1>7, <1>11, <2>2 DEF InHand, d
    <3>3. \A z \in Spot \ ({"list"} \X List) : Holds(z)' = Holds(z)
      BY <1>1, <1>14, <3>2, SameSpots
    <3> QED
      BY <1>1, <1>2, <1>3, <1>14, <3>1, <3>3, TakenAcross
  <2> QED
    BY <2>1, <2>2
<1>16. ListTyped'
  BY <1>1, <1>2, <1>7, <1>9, <1>15 DEF ListTyped
<1> QED
  BY <1>11, <1>12, <1>13, <1>15, <1>16 DEF ListInv

\* permit.send: a channel that is still there is filled, and it was empty; otherwise the
\* element is lost.  A moved element is in its list already.
LEMMA SendKeeps ==
  ASSUME ListInv, NEW p \in Pusher, Lists!Send(p)
  PROVE  ListInv'
<1>0. PICK c \in Client : c = held[p].c
  BY DEF Lists!Send, ListInv, PushersInv, PusherOK
<1> DEFINE e == held[p].el
           d == held[p].dest
           full == [chan[c] EXCEPT !.st = "full", !.el = e, !.moved = d # None]
<1>1. /\ listPc[p] = "send" /\ held' = [held EXCEPT ![p] = Lists!NoReq] /\ Lists!Goto(p, "drain")
      /\ \/ todo' = [todo EXCEPT ![p] = <<d>> \o @] /\ d # None
         \/ todo' = [todo EXCEPT ![p] = @]
      /\ \/ Lists!Open(p) /\ chan' = [chan EXCEPT ![c] = full] /\ UNCHANGED lost
         \/ /\ ~Lists!Open(p) /\ UNCHANGED chan
            /\ lost' = IF d = None THEN lost \cup {e} ELSE lost
      /\ UNCHANGED <<list, queue, wait, answered, listUsed, nextWaiter>>
  BY <1>0 DEF Lists!Send, Lists!Lose
<1>2. ListTyped /\ ClientsInv /\ PushersInv /\ PermitInv /\ DistinctInv /\ Partition
  BY DEF ListInv
<1>3. /\ c \in Client /\ c = held[p].c /\ e \in Nat /\ d \in List \cup {None} /\ todo[p] \in Seq(List)
      /\ todo[p] # <<>> /\ held \in [Pusher -> Request]
      /\ todo \in [Client \cup Pusher -> Seq(List)] /\ chan \in [Client -> Channel]
  BY <1>0, <1>1, <1>2, Fields DEF ListTyped, PushersInv, PusherOK
<1>4. Lists!Open(p) => chan[c].st = "reserved"
  BY <1>1, <1>2, <1>3 DEF PermitInv, Working
<1>5. "drain" \in PusherAt
  BY DEF PusherAt
<1>6. /\ listPc' \in [Client \cup Pusher -> ClientAt \cup PusherAt] /\ listPc'[p] = "drain"
      /\ \A q \in Pusher \ {p} : listPc'[q] = listPc[q]
      /\ \A b \in Client : b # p /\ listPc'[b] = listPc[b]
  BY <1>1, <1>2, <1>5, PusherMoves
<1>7. /\ held' \in [Pusher -> Request] /\ held'[p].el = 0
      /\ \A q \in Pusher \ {p} : held'[q] = held[q]
  BY <1>1, <1>3, EmptyRecords
<1>8. /\ todo' \in [Client \cup Pusher -> Seq(List)] /\ todo'[p] # <<>>
      /\ \A x \in (Client \cup Pusher) \ {p} : todo'[x] = todo[x]
  <2>1. CASE todo' = [todo EXCEPT ![p] = <<d>> \o @] /\ d # None
    <3> HIDE DEF d
    <3>1. <<d>> \in Seq(List)
      BY <1>3, <2>1
    <3>2. <<d>> \o todo[p] \in Seq(List) /\ Len(<<d>> \o todo[p]) = 1 + Len(todo[p])
      BY <1>3, <3>1
    <3>3. <<d>> \o todo[p] # <<>>
      BY <1>3, <3>2, EmptySeq
    <3> QED
      BY <1>3, <2>1, <3>2, <3>3
  <2>2. CASE todo' = [todo EXCEPT ![p] = @]
    BY <1>3, <2>2
  <2> QED
    BY <1>1, <2>1, <2>2
<1>9. /\ PushersInv'
      /\ \A q \in Pusher \ {p} : InHand(q)' = InHand(q) /\ Working(q)' = Working(q)
  <2>1. PusherOK(p)'
    BY <1>5, <1>6, <1>7, <1>8 DEF PusherOK
  <2> QED
    BY <1>2, <1>6, <1>7, <1>8, <2>1, OthersFrame
<1>10. InHand(p) = (IF e # 0 /\ d = None THEN {e} ELSE {}) /\ InHand(p)' = {}
  BY <1>7 DEF InHand
<1>11. e # 0
  BY <1>1, <1>2 DEF PushersInv, PusherOK
<1> HIDE DEF e, d
<1>12. /\ full \in Channel /\ full.st = "full" /\ full.id = chan[c].id /\ full.el = e
       /\ full.moved = (d # None)
  BY <1>3 DEF Channel
<1>13. CASE Lists!Open(p) /\ chan' = [chan EXCEPT ![c] = full] /\ UNCHANGED lost
  <2> HIDE DEF full
  <2>1. /\ chan' \in [Client -> Channel] /\ chan'[c] = full
        /\ \A b \in Client \ {c} : chan'[b] = chan[b]
    BY <1>3, <1>12, <1>13
  <2>2. ListTyped'
    BY <1>1, <1>2, <1>6, <1>7, <1>8, <1>13, <2>1 DEF ListTyped
  <2>3. ClientsInv'
    BY <1>1, <1>2, <1>4, <1>6, <1>8, <1>12, <1>13, <2>1, ClientsFrame
  <2>4. PermitInv'
    <3>1. ASSUME NEW q \in Pusher, Working(q)'
          PROVE  /\ Working(q) /\ held'[q].c = held[q].c /\ held'[q].id = held[q].id
                 /\ Lists!Open(q)' => Lists!Open(q) /\ chan'[held[q].c].st = "reserved"
      <4>1. q # p
        BY <1>6, <3>1 DEF Working
      <4>2. Working(q) /\ held'[q] = held[q] /\ held[q].c \in Client
        BY <1>2, <1>7, <1>9, <3>1, <4>1 DEF PushersInv, PusherOK, Working
      <4>3. Lists!Open(q)' => Lists!Open(q)
        BY <1>4, <1>12, <1>13, <2>1, <4>2 DEF Lists!Open
      <4>4. Lists!Open(q) => held[q].c # c /\ chan[held[q].c].st = "reserved"
        BY <1>1, <1>2, <1>3, <1>13, <4>1, <4>2 DEF PermitInv, Working
      <4> QED
        BY <2>1, <4>2, <4>3, <4>4
    <3>2. nextWaiter' \in Nat /\ nextWaiter' >= nextWaiter
      BY <1>1, <1>2 DEF ListTyped
    <3> QED
      BY <1>2, <3>1, <3>2, PermitFrame
  <2>5. /\ InChan(c) = {} /\ InChan(c)' = (IF d = None THEN {e} ELSE {})
        /\ \A b \in Client \ {c} : InChan(b)' = InChan(b)
    BY <1>4, <1>12, <1>13, <2>1 DEF InChan
  <2>6. DistinctInv' /\ listUsed'.pushes = listUsed.pushes /\ list' = list
    BY <1>1, <1>2 DEF DistinctInv
  <2>7. Partition'
    <3>1. CASE d = None
      <4> DEFINE x == <<"hand", p>>
                 y == <<"chan", c>>
      <4>1. /\ x \in Spot /\ y \in Spot /\ x # y /\ e \in Holds(x)
            /\ Holds(x)' = Holds(x) \ {e} /\ Holds(y)' = Holds(y) \cup {e}
        <5>1. InHand(p) = {e} /\ InHand(p)' = {} /\ InChan(c) = {} /\ InChan(c)' = {e}
          BY <1>10, <1>11, <2>5, <3>1
        <5>2. x \in Spot /\ Holds(x) = InHand(p) /\ Holds(x)' = InHand(p)'
          BY SpotHolds, SpotHoldsNext
        <5>3. y \in Spot /\ Holds(y) = InChan(c) /\ Holds(y)' = InChan(c)'
          BY <1>3, SpotHolds, SpotHoldsNext
        <5>4. x # y
          OBVIOUS
        <5> HIDE DEF x, y
        <5> QED
          BY <5>1, <5>2, <5>3, <5>4
      <4>2. ASSUME NEW z \in Spot \ {x, y} PROVE Holds(z)' = Holds(z)
        BY <1>1, <1>9, <1>13, <2>5, <2>6, <4>2, SpotCases, SpotHolds, SpotHoldsNext
      <4> HIDE DEF x, y
      <4> QED
        BY <1>2, <1>3, <2>6, <4>1, <4>2, MoveKeeps
    <3>2. CASE d # None
      BY <1>1, <1>2, <1>9, <1>10, <1>13, <2>5, <2>6, <3>2, CalmSpots
    <3> QED
      BY <3>1, <3>2
  <2> QED
    BY <1>9, <2>2, <2>3, <2>4, <2>6, <2>7 DEF ListInv
<1>14. CASE ~Lists!Open(p) /\ UNCHANGED chan /\ lost' = IF d = None THEN lost \cup {e} ELSE lost
  <2>1. ListTyped'
    <3>1. lost' \subseteq Nat
      BY <1>2, <1>3, <1>14 DEF ListTyped
    <3> QED
      BY <1>1, <1>2, <1>6, <1>7, <1>8, <1>14, <3>1 DEF ListTyped
  <2>2. ClientsInv'
    BY <1>1, <1>2, <1>6, <1>8, <1>14, ClientsFrame
  <2>3. PermitInv'
    <3>1. ASSUME NEW q \in Pusher, Working(q)'
          PROVE  /\ Working(q) /\ held'[q].c = held[q].c /\ held'[q].id = held[q].id
                 /\ Lists!Open(q)' => Lists!Open(q) /\ chan'[held[q].c].st = "reserved"
      <4>1. q # p
        BY <1>6, <3>1 DEF Working
      <4>2. Working(q) /\ held'[q] = held[q]
        BY <1>7, <1>9, <3>1, <4>1
      <4> QED
        BY <1>2, <1>14, <4>2 DEF PermitInv, Lists!Open
    <3>2. nextWaiter' \in Nat /\ nextWaiter' >= nextWaiter
      BY <1>1, <1>2 DEF ListTyped
    <3> QED
      BY <1>2, <3>1, <3>2, PermitFrame
  <2>4. \A b \in Client : InChan(b)' = InChan(b)
    BY <1>14 DEF InChan
  <2>5. DistinctInv' /\ listUsed'.pushes = listUsed.pushes /\ list' = list
    BY <1>1, <1>2 DEF DistinctInv
  <2>6. Partition'
    <3>1. CASE d = None
      <4> DEFINE x == <<"hand", p>>
                 y == <<"lost", 0>>
      <4>1. /\ x \in Spot /\ y \in Spot /\ x # y /\ e \in Holds(x)
            /\ Holds(x)' = Holds(x) \ {e} /\ Holds(y)' = Holds(y) \cup {e}
        BY <1>3, <1>10, <1>11, <1>14, <3>1, SpotHolds, SpotHoldsNext
      <4>2. ASSUME NEW z \in Spot \ {x, y} PROVE Holds(z)' = Holds(z)
        BY <1>1, <1>9, <2>4, <2>5, <4>2, SpotCases, SpotHolds, SpotHoldsNext
      <4> HIDE DEF x, y
      <4> QED
        BY <1>2, <1>3, <2>5, <4>1, <4>2, MoveKeeps
    <3>2. CASE d # None
      BY <1>1, <1>2, <1>9, <1>10, <1>14, <2>4, <2>5, <3>2, CalmSpots
    <3> QED
      BY <3>1, <3>2
  <2> QED
    BY <1>9, <2>1, <2>2, <2>3, <2>5, <2>6 DEF ListInv
<1> QED
  BY <1>1, <1>13, <1>14 DEF e, d, full

\* LPUSH and RPUSH.
LEMMA PushKeeps ==
  ASSUME ListInv, NEW p \in Pusher, NEW k \in List, Lists!Push(p, k)
  PROVE  ListInv'
<1> DEFINE n == listUsed.pushes
<1>1. /\ listPc[p] = "idle" /\ list' = [list EXCEPT ![k] = Append(@, n + 1)]
      /\ listUsed' = [listUsed EXCEPT !.pushes = @ + 1] /\ todo' = [todo EXCEPT ![p] = <<k>>]
      /\ Lists!Goto(p, "pushed")
      /\ UNCHANGED <<queue, chan, wait, held, answered, lost, nextWaiter>>
  BY DEF Lists!Push, Lists!ghosts
<1>2. ListTyped /\ ClientsInv /\ PushersInv /\ PermitInv /\ DistinctInv /\ Partition
  BY DEF ListInv
<1>3. /\ n \in Nat /\ listUsed' \in [pushes : Nat, waits : Nat, others : Nat]
      /\ listUsed'.pushes = n + 1
  BY <1>1, <1>2, Counted, Fields
<1>4. "pushed" \in PusherAt
  BY DEF PusherAt
<1>5. /\ listPc' \in [Client \cup Pusher -> ClientAt \cup PusherAt] /\ listPc'[p] = "pushed"
      /\ \A q \in Pusher \ {p} : listPc'[q] = listPc[q]
      /\ \A b \in Client : b # p /\ listPc'[b] = listPc[b]
  BY <1>1, <1>2, <1>4, PusherMoves
<1>6. /\ todo' \in [Client \cup Pusher -> Seq(List)] /\ todo'[p] # <<>>
      /\ \A x \in (Client \cup Pusher) \ {p} : todo'[x] = todo[x]
  <2>1. <<k>> \in Seq(List) /\ <<k>> # <<>>
    OBVIOUS
  <2> QED
    BY <1>1, <1>2, <2>1 DEF ListTyped
<1>7. PusherOK(p)'
  BY <1>1, <1>2, <1>4, <1>5, <1>6 DEF PusherOK, PushersInv
<1>8. /\ PushersInv' /\ InHand(p)' = InHand(p)
      /\ \A q \in Pusher \ {p} : InHand(q)' = InHand(q) /\ Working(q)' = Working(q)
  BY <1>1, <1>2, <1>5, <1>6, <1>7, OthersFrame DEF InHand
<1>9. ClientsInv'
  BY <1>1, <1>2, <1>5, <1>6, ClientsFrame
<1>10. PermitInv'
  <2>1. ASSUME NEW q \in Pusher, Working(q)'
        PROVE  /\ Working(q) /\ held'[q].c = held[q].c /\ held'[q].id = held[q].id
               /\ Lists!Open(q)' => Lists!Open(q) /\ chan'[held[q].c].st = "reserved"
    <3>1. Working(q)
      BY <1>5, <1>8, <2>1 DEF Working
    <3> QED
      BY <1>1, <1>2, <3>1 DEF PermitInv, Lists!Open
  <2>2. nextWaiter' \in Nat /\ nextWaiter' >= nextWaiter
    BY <1>1, <1>2 DEF ListTyped
  <2> QED
    BY <1>2, <2>1, <2>2, PermitFrame
<1>11. \A b \in Client : InChan(b)' = InChan(b)
  BY <1>1 DEF InChan
<1>12. /\ list \in [List -> Seq(Nat)] /\ Distinct(list[k]) /\ n + 1 \in Nat
       /\ n + 1 \notin Elements(list[k])
  <2>1. <<"list", k>> \in Spot /\ Holds(<<"list", k>>) = Elements(list[k])
    BY SpotHolds
  <2>2. n + 1 \in Nat /\ n + 1 \notin 1..n
    BY <1>3
  <2>3. n + 1 \notin Holds(<<"list", k>>)
    BY <1>2, <2>1, <2>2 DEF Partition
  <2> QED
    BY <1>2, <2>1, <2>2, <2>3 DEF ListTyped, DistinctInv
<1> HIDE DEF n
<1>13. /\ list' \in [List -> Seq(Nat)] /\ \A j \in List \ {k} : list'[j] = list[j]
       /\ Elements(list'[k]) = Elements(list[k]) \cup {n + 1} /\ Distinct(list'[k])
  <2>1. /\ Append(list[k], n + 1) \in Seq(Nat) /\ Distinct(Append(list[k], n + 1))
        /\ Elements(Append(list[k], n + 1)) = Elements(list[k]) \cup {n + 1}
    BY <1>12, AppendElements
  <2> QED
    BY <1>1, <1>12, <2>1
<1>14. DistinctInv'
  BY <1>2, <1>13 DEF DistinctInv
<1>15. Partition'
  <2> DEFINE x == <<"list", k>>
  <2>1. x \in Spot /\ Holds(x)' = Holds(x) \cup {n + 1}
    BY <1>13, SpotHolds, SpotHoldsNext
  <2>2. ASSUME NEW z \in Spot \ {x} PROVE Holds(z)' = Holds(z)
    <3>1. CASE z \in {"list"} \X List
      <4>1. PICK j \in List : z = <<"list", j>>
        BY <3>1
      <4>2. list'[j] = list[j]
        BY <1>13, <2>2, <4>1
      <4> QED
        BY <4>1, <4>2, SpotHolds, SpotHoldsNext
    <3>2. CASE z \notin {"list"} \X List
      <4>1. \A q \in Pusher : InHand(q)' = InHand(q)
        BY <1>8
      <4> QED
        BY <1>1, <1>11, <2>2, <3>2, <4>1, SameSpots
    <3> QED
      BY <3>1, <3>2
  <2>3. listUsed.pushes = n
    BY DEF n
  <2> HIDE DEF x
  <2> QED
    BY <1>2, <1>3, <2>1, <2>2, <2>3, NewKeeps
<1>16. ListTyped'
  BY <1>1, <1>2, <1>3, <1>5, <1>6, <1>13 DEF ListTyped
<1> QED
  BY <1>8, <1>9, <1>10, <1>14, <1>15, <1>16 DEF ListInv

-----------------------------------------------------------------------------
(* Blocking lists: the theorems                                            *)

\* The invariant holds at the start.
LEMMA InitListInv == Lists!Init => ListInv
<1>1. SUFFICES ASSUME Lists!Init PROVE ListInv
  OBVIOUS
<1>2. ListTyped
  BY <1>1, EmptyRecords DEF Lists!Init, ListTyped, ClientAt, PusherAt
<1>3. ClientsInv
  BY <1>1, EmptyRecords DEF Lists!Init, ClientsInv, ClientOK, ClientAt
<1>4. PushersInv
  BY <1>1, EmptyRecords DEF Lists!Init, PushersInv, PusherOK, PusherAt
<1>5. PermitInv
  BY <1>1 DEF Lists!Init, PermitInv, Working
<1>6. DistinctInv
  BY <1>1 DEF Lists!Init, DistinctInv, Distinct
<1>7. Partition
  <2>1. \A x \in Spot : Holds(x) = {}
    <3>1. /\ \A k \in List : Elements(list[k]) = {}
          /\ \A p \in Pusher : InHand(p) = {}
          /\ \A c \in Client : InChan(c) = {}
          /\ answered = {} /\ lost = {}
      BY <1>1, EmptyRecords DEF Lists!Init, Elements, InHand, InChan
    <3> QED
      BY <3>1, SpotCases, SpotHolds
  <2>2. listUsed.pushes = 0
    BY <1>1 DEF Lists!Init
  <2> QED
    BY <2>1, <2>2 DEF Partition
<1> QED
  BY <1>2, <1>3, <1>4, <1>5, <1>6, <1>7 DEF ListInv

\* Every step keeps the invariant.
LEMMA NextListInv == ListInv /\ [Lists!Next]_(Lists!vars) => ListInv'
<1>1. SUFFICES ASSUME ListInv, [Lists!Next]_(Lists!vars) PROVE ListInv'
  OBVIOUS
<1>2. CASE UNCHANGED Lists!vars
  <2>1. ListTyped' /\ ClientsInv' /\ PushersInv'
    BY <1>1, <1>2 DEF Lists!vars, ListInv, ListTyped, ClientsInv, ClientOK, PushersInv, PusherOK
  <2>2. PermitInv'
    BY <1>1, <1>2 DEF Lists!vars, ListInv, PermitInv, Working, Lists!Open
  <2>3. /\ \A p \in Pusher : InHand(p)' = InHand(p)
        /\ \A c \in Client : InChan(c)' = InChan(c)
    BY <1>2 DEF Lists!vars, InHand, InChan
  <2>4. Partition' /\ DistinctInv'
    BY <1>1, <1>2, <2>3, CalmSpots DEF Lists!vars, ListInv
  <2> QED
    BY <2>1, <2>2, <2>4 DEF ListInv
<1>3. ASSUME NEW c \in Client, NEW w \in ListWait, Lists!BlockEmpty(c, w) PROVE ListInv'
  BY <1>1, <1>3, BlockEmptyKeeps
<1>4. ASSUME NEW c \in Client, NEW w \in ListWait, NEW i \in DOMAIN w.keys,
             Lists!BlockServed(c, w, i)
      PROVE  ListInv'
  BY <1>1, <1>4, BlockServedKeeps
<1>5. ASSUME NEW c \in Client, Lists!ClientStep(c) PROVE ListInv'
  BY <1>1, <1>5, RegisterKeeps, ReceiveKeeps, GiveUpKeeps, DeregisterKeeps, CloseKeeps
     DEF Lists!ClientStep
<1>6. ASSUME NEW p \in Pusher, NEW k \in List,
             Lists!Push(p, k) \/ Lists!Pop(p, k) \/ \E d \in List : Lists!Move(p, k, d)
      PROVE  ListInv'
  BY <1>1, <1>6, PushKeeps, PopKeeps, MovesKeep
<1>7. ASSUME NEW p \in Pusher, Lists!PusherStep(p) PROVE ListInv'
  BY <1>1, <1>7, CheckWaitersKeeps, TakeWaiterKeeps, ReserveKeeps, PopForWaiterKeeps,
     PopNothingKeeps, SendKeeps DEF Lists!PusherStep
<1> QED
  BY <1>1, <1>2, <1>3, <1>4, <1>5, <1>6, <1>7 DEF Lists!Next

\* While the lists run, a step of the suite is one of theirs.
LEMMA ListsStep ==
  ASSUME [StoreNext]_storeVars, part = "lists" \/ part' = "lists"
  PROVE  part' = part /\ [Lists!Next]_(Lists!vars)
  BY DEF StoreNext, storeVars, listsVars, Lists!vars

\* Channels, permits and elements in every behaviour of clients and pushers, however
\* pushes, drains, timeouts and disconnects interleave (pubsub.rs: drain_list_waiters).
THEOREM BlockingInvariant == StoreSpec => [](part = "lists" => ListInv)
<1>1. StoreInit => (part = "lists" => ListInv)
  BY InitListInv DEF StoreInit
<1>2. (part = "lists" => ListInv) /\ [StoreNext]_storeVars => (part = "lists" => ListInv)'
  BY ListsStep, NextListInv
<1> QED
  BY <1>1, <1>2, PTL DEF StoreSpec

\* The sets that Places counts are empty or have one member.
LEMMA Counts ==
  /\ Lists!Cardinality({}) = 0
  /\ \A x : Lists!Cardinality({x}) = 1
BY FS_EmptySet, FS_Singleton DEF Cardinality, Lists!Cardinality

\* An element is in as many places as the invariant says: one.
LEMMA OnePlaceEach ==
  ASSUME ListInv, NEW e \in 1..listUsed.pushes
  PROVE  Lists!Places(e) = 1
<1> DEFINE A == {x \in UNION {{k} \X DOMAIN list[k] : k \in List} : list[x[1]][x[2]] = e}
           H == {p \in Pusher : held[p].el = e /\ held[p].dest = None}
           C == {c \in Client : chan[c].st = "full" /\ chan[c].el = e /\ ~chan[c].moved}
           a == IF e \in answered THEN 1 ELSE 0
           l == IF e \in lost THEN 1 ELSE 0
<1>1. Lists!Places(e) = Lists!Cardinality(A) + Lists!Cardinality(H) + Lists!Cardinality(C) + a + l
  BY DEF Lists!Places
<1>2. listUsed.pushes \in Nat /\ e \in Nat /\ e # 0
  BY Fields DEF ListInv
<1>3. PICK x \in Spot : e \in Holds(x) /\ \A y \in Spot : y # x => e \notin Holds(y)
  <2>1. PICK x \in Spot : e \in Holds(x)
    BY <1>2 DEF ListInv, Partition
  <2>2. \A y \in Spot : y # x => Holds(x) \cap Holds(y) = {}
    BY DEF ListInv, Partition
  <2> QED
    BY <2>1, <2>2
<1>4. \A z \in A : \E k \in List : \E i \in DOMAIN list[k] : z = <<k, i>> /\ list[k][i] = e
  OBVIOUS
<1>5. /\ \A z \in A : \E k \in List : x = <<"list", k>>
      /\ \A p \in H : x = <<"hand", p>>
      /\ \A c \in C : x = <<"chan", c>>
      /\ e \in answered => x = <<"answered", 0>>
      /\ e \in lost => x = <<"lost", 0>>
  <2>1. \A z \in A : \E k \in List : e \in Elements(list[k])
    BY <1>4 DEF Elements
  <2>2. \A p \in H : e \in InHand(p)
    BY <1>2 DEF InHand
  <2>3. \A c \in C : e \in InChan(c)
    BY DEF InChan
  <2> HIDE DEF A, H, C
  <2>4. H \subseteq Pusher /\ C \subseteq Client
    BY DEF H, C
  <2> QED
    BY <1>3, <2>1, <2>2, <2>3, <2>4, SpotHolds
<1>6. CASE \E k \in List : x = <<"list", k>>
  <2>1. PICK k \in List : x = <<"list", k>>
    BY <1>6
  <2>2. e \in Elements(list[k]) /\ \A j \in List \ {k} : e \notin Elements(list[j])
    BY <1>3, <2>1, SpotHolds
  <2>3. PICK i \in DOMAIN list[k] : list[k][i] = e
    BY <2>2 DEF Elements
  <2>4. \A j \in DOMAIN list[k] : list[k][j] = e => j = i
    BY <2>3 DEF ListInv, DistinctInv, Distinct
  <2>5. <<k, i>> \in A
    BY <2>3
  <2>6. \A z \in A : z = <<k, i>>
    BY <1>4, <2>2, <2>4 DEF Elements
  <2>7. A = {<<k, i>>} /\ H = {} /\ C = {} /\ a = 0 /\ l = 0
    <3> HIDE DEF A, H, C
    <3> QED
      BY <1>5, <2>1, <2>5, <2>6
  <2> HIDE DEF A, H, C, a, l
  <2>8. Lists!Cardinality(A) = 1 /\ Lists!Cardinality(H) = 0 /\ Lists!Cardinality(C) = 0
    BY <2>7, Counts
  <2> QED
    BY <1>1, <2>7, <2>8
<1>7. CASE \E p \in Pusher : x = <<"hand", p>>
  <2>1. PICK p \in Pusher : x = <<"hand", p>>
    BY <1>7
  <2>2. e \in InHand(p)
    BY <1>3, <2>1, SpotHolds
  <2>3. p \in H
    BY <2>2 DEF InHand
  <2>4. A = {} /\ H = {p} /\ C = {} /\ a = 0 /\ l = 0
    <3> HIDE DEF A, H, C
    <3> QED
      BY <1>5, <2>1, <2>3
  <2> HIDE DEF A, H, C, a, l
  <2>5. Lists!Cardinality(A) = 0 /\ Lists!Cardinality(H) = 1 /\ Lists!Cardinality(C) = 0
    BY <2>4, Counts
  <2> QED
    BY <1>1, <2>4, <2>5
<1>8. CASE \E c \in Client : x = <<"chan", c>>
  <2>1. PICK c \in Client : x = <<"chan", c>>
    BY <1>8
  <2>2. e \in InChan(c)
    BY <1>3, <2>1, SpotHolds
  <2>3. c \in C
    BY <2>2 DEF InChan
  <2>4. A = {} /\ H = {} /\ C = {c} /\ a = 0 /\ l = 0
    <3> HIDE DEF A, H, C
    <3> QED
      BY <1>5, <2>1, <2>3
  <2> HIDE DEF A, H, C, a, l
  <2>5. Lists!Cardinality(A) = 0 /\ Lists!Cardinality(H) = 0 /\ Lists!Cardinality(C) = 1
    BY <2>4, Counts
  <2> QED
    BY <1>1, <2>4, <2>5
<1>9. CASE x = <<"answered", 0>> \/ x = <<"lost", 0>>
  <2>1. A = {} /\ H = {} /\ C = {} /\ ((a = 1 /\ l = 0) \/ (a = 0 /\ l = 1))
    <3> HIDE DEF A, H, C
    <3> QED
      BY <1>3, <1>5, <1>9, SpotHolds
  <2> HIDE DEF A, H, C, a, l
  <2>2. Lists!Cardinality(A) = 0 /\ Lists!Cardinality(H) = 0 /\ Lists!Cardinality(C) = 0
    BY <2>1, Counts
  <2> QED
    BY <1>1, <2>1, <2>2
<1> QED
  BY <1>6, <1>7, <1>8, <1>9, SpotCases

\* Every element pushed is in exactly one place, a list, a channel, the hands of a drain
\* or an answer, however many pushers drain the same queues (pubsub.rs:
\* drain_list_waiters; lib.rs: handle_block_pop).
THEOREM ListsAlwaysConserve == StoreSpec => []ListsConserve
<1>1. ASSUME part = "lists" => ListInv PROVE ListsConserve
  BY <1>1, OnePlaceEach DEF ListsConserve, Lists!Conserved
<1> QED
  BY <1>1, BlockingInvariant, PTL

-----------------------------------------------------------------------------
(* Every reserved channel has somebody at work for it                      *)

WorksFor(p, c) == Working(p) /\ held[p].c = c /\ held[p].id = chan[c].id
ReservedInv ==
  \A c \in Client : chan[c].st = "reserved" => \E p \in Pusher : WorksFor(p, c)

\* A step of a client opens, empties or closes its own channel.
LEMMA ClientReserved ==
  ASSUME ReservedInv, held' = held, \A p \in Pusher : listPc'[p] = listPc[p],
         NEW c \in Client, \A b \in Client \ {c} : chan'[b] = chan[b],
         chan'[c] = chan[c] \/ chan'[c].st # "reserved"
  PROVE  ReservedInv'
  BY DEF ReservedInv, WorksFor, Working

\* A step of a pusher reserves a channel for it, or leaves alone those it does not work for.
LEMMA PusherReserved ==
  ASSUME ReservedInv, NEW p \in Pusher,
         \A q \in Pusher \ {p} : listPc'[q] = listPc[q] /\ held'[q] = held[q],
         \A c \in Client : chan'[c].st = "reserved" =>
            WorksFor(p, c)' \/ (chan'[c] = chan[c] /\ ~WorksFor(p, c))
  PROVE  ReservedInv'
<1>1. SUFFICES ASSUME NEW c \in Client, chan'[c].st = "reserved"
               PROVE  \E q \in Pusher : WorksFor(q, c)'
  BY DEF ReservedInv
<1>2. CASE chan'[c] = chan[c] /\ ~WorksFor(p, c)
  <2>1. PICK q \in Pusher : WorksFor(q, c)
    BY <1>1, <1>2 DEF ReservedInv
  <2>2. q # p
    BY <1>2, <2>1
  <2> QED
    BY <1>2, <2>1, <2>2 DEF WorksFor, Working
<1> QED
  BY <1>1, <1>2

\* The steps of a client.
LEMMA ClientsReserve ==
  ASSUME ListInv, ReservedInv, NEW c \in Client, Lists!ClientStep(c)
  PROVE  ReservedInv'
<1>1. ListTyped /\ chan \in [Client -> Channel] /\ chan[c] \in Channel
  BY DEF ListInv, ListTyped
<1>2. held' = held
  BY DEF Lists!ClientStep, Lists!Register, Lists!Receive, Lists!GiveUp, Lists!Deregister,
         Lists!Close
<1>3. \E l \in ClientAt : Lists!Goto(c, l)
  BY DEF Lists!ClientStep, Lists!Register, Lists!Receive, Lists!GiveUp, Lists!Deregister,
         Lists!Close, ClientAt
<1>4. \A p \in Pusher : listPc'[p] = listPc[p]
  BY <1>1, <1>3, ClientMoves
<1>5. CASE Lists!Register(c) \/ Lists!GiveUp(c) \/ Lists!Deregister(c)
  <2>1. chan' = chan
    BY <1>5 DEF Lists!Register, Lists!GiveUp, Lists!Deregister
  <2> QED
    BY <1>2, <1>4, <2>1, ClientReserved
<1>6. CASE Lists!Receive(c)
  <2>1. chan' = [chan EXCEPT ![c].st = "empty", ![c].el = 0]
    BY <1>6 DEF Lists!Receive
  <2>2. chan'[c].st = "empty" /\ \A b \in Client \ {c} : chan'[b] = chan[b]
    BY <1>1, <2>1 DEF Channel
  <2> QED
    BY <1>2, <1>4, <2>2, ClientReserved
<1>7. CASE Lists!Close(c)
  <2>1. chan' = [chan EXCEPT ![c] = Lists!Closed]
    BY <1>7 DEF Lists!Close
  <2>2. chan'[c].st = "closed" /\ \A b \in Client \ {c} : chan'[b] = chan[b]
    BY <1>1, <2>1, EmptyRecords
  <2> QED
    BY <1>2, <1>4, <2>2, ClientReserved
<1> QED
  BY <1>5, <1>6, <1>7 DEF Lists!ClientStep

\* A new wait opens a channel.
LEMMA WaitReserves ==
  ASSUME ListInv, ReservedInv, NEW c \in Client, NEW w, Lists!BlockEmpty(c, w)
  PROVE  ReservedInv'
<1>1. ListTyped /\ chan \in [Client -> Channel]
  BY DEF ListInv, ListTyped
<1>2. /\ chan' = [chan EXCEPT ![c] = [st |-> "empty", id |-> nextWaiter, el |-> 0, moved |-> FALSE]]
      /\ held' = held /\ Lists!Goto(c, "register") /\ "register" \in ClientAt
  BY DEF Lists!BlockEmpty, ClientAt
<1>3. \A p \in Pusher : listPc'[p] = listPc[p]
  BY <1>1, <1>2, ClientMoves
<1>4. chan'[c].st = "empty" /\ \A b \in Client \ {c} : chan'[b] = chan[b]
  BY <1>1, <1>2
<1> QED
  BY <1>2, <1>3, <1>4, ClientReserved

\* Whoever is not at work, and does not begin to, reserves nothing.
LEMMA IdleReserves ==
  ASSUME ListInv, ReservedInv, NEW p \in Pusher, ~Working(p), NEW l \in PusherAt, Lists!Goto(p, l),
         \A q \in Pusher \ {p} : held'[q] = held[q], chan' = chan
  PROVE  ReservedInv'
<1>1. \A q \in Pusher \ {p} : listPc'[q] = listPc[q]
  BY PusherMoves DEF ListInv
<1>2. \A c \in Client : chan'[c] = chan[c] /\ ~WorksFor(p, c)
  BY DEF WorksFor
<1> QED
  BY <1>1, <1>2, PusherReserved

\* Push, CheckWaiters and TakeWaiter.
LEMMA DrainsReserve ==
  ASSUME ListInv, ReservedInv, NEW p \in Pusher,
         Lists!TakeWaiter(p) \/ Lists!CheckWaiters(p) \/ \E k \in List : Lists!Push(p, k)
  PROVE  ReservedInv'
<1>1. ~Working(p) /\ chan' = chan
  BY DEF Lists!TakeWaiter, Lists!CheckWaiters, Lists!Push, Working
<1>2. held \in [Pusher -> Request]
  BY DEF ListInv, ListTyped
<1>3. \A q \in Pusher \ {p} : held'[q] = held[q]
  BY <1>2 DEF Lists!TakeWaiter, Lists!CheckWaiters, Lists!Push, Lists!Drained
<1>4. \E l \in PusherAt : Lists!Goto(p, l)
  BY DEF Lists!TakeWaiter, Lists!CheckWaiters, Lists!Push, Lists!Drained, PusherAt
<1> QED
  BY <1>1, <1>3, <1>4, IdleReserves

\* try_reserve_owned: the pusher works for the channel it has reserved.
LEMMA ReserveReserves ==
  ASSUME ListInv, ReservedInv, NEW p \in Pusher, Lists!Reserve(p)
  PROVE  ReservedInv'
<1>1. listPc[p] = "reserve" /\ ~Working(p) /\ ListTyped /\ held \in [Pusher -> Request]
  BY DEF Lists!Reserve, Working, ListInv, ListTyped
<1>2. CASE chan' = chan
  <2>1. \A q \in Pusher \ {p} : held'[q] = held[q]
    BY <1>1 DEF Lists!Reserve, Lists!PutBack, Lists!Drained
  <2>2. \E l \in PusherAt : Lists!Goto(p, l)
    BY DEF Lists!Reserve, Lists!PutBack, Lists!Drained, PusherAt
  <2> QED
    BY <1>1, <1>2, <2>1, <2>2, IdleReserves
<1>3. CASE /\ Lists!Open(p) /\ chan' = [chan EXCEPT ![held[p].c].st = "reserved"]
           /\ Lists!Goto(p, "pop") /\ held' = held
  <2>1. held[p].c \in Client /\ chan \in [Client -> Channel]
    BY <1>1, HeldWaiter DEF ListTyped
  <2>2. /\ \A b \in Client \ {held[p].c} : chan'[b] = chan[b]
        /\ chan'[held[p].c].id = chan[held[p].c].id
    BY <1>3, <2>1 DEF Channel
  <2>3. listPc'[p] = "pop" /\ \A q \in Pusher \ {p} : listPc'[q] = listPc[q]
    <3>1. "pop" \in PusherAt
      BY DEF PusherAt
    <3> QED
      BY <1>1, <1>3, <3>1, PusherMoves
  <2>4. WorksFor(p, held[p].c)'
    BY <1>3, <2>2, <2>3 DEF WorksFor, Working, Lists!Open
  <2>5. \A c \in Client : WorksFor(p, c)' \/ (chan'[c] = chan[c] /\ ~WorksFor(p, c))
    BY <1>1, <1>3, <2>2, <2>4 DEF WorksFor
  <2> QED
    BY <1>3, <2>3, <2>5, PusherReserved
<1> QED
  BY <1>2, <1>3 DEF Lists!Reserve

\* commit_prepared: still at work.
LEMMA PopReserves ==
  ASSUME ListInv, ReservedInv, NEW p \in Pusher, Lists!PopForWaiter(p)
  PROVE  ReservedInv'
<1>1. /\ listPc[p] = "pop" /\ held' = [held EXCEPT ![p].el = Head(list[Head(todo[p])])]
      /\ Lists!Goto(p, "send") /\ chan' = chan /\ "send" \in PusherAt
  BY DEF Lists!PopForWaiter, PusherAt
<1>2. ListTyped /\ held \in [Pusher -> Request]
  BY DEF ListInv, ListTyped
<1>3. listPc'[p] = "send" /\ \A q \in Pusher \ {p} : listPc'[q] = listPc[q]
  BY <1>1, <1>2, PusherMoves
<1>4. /\ \A q \in Pusher \ {p} : held'[q] = held[q]
      /\ held'[p].c = held[p].c /\ held'[p].id = held[p].id
  BY <1>1, <1>2 DEF Request
<1>5. \A c \in Client : WorksFor(p, c)' \/ (chan'[c] = chan[c] /\ ~WorksFor(p, c))
  BY <1>1, <1>3, <1>4 DEF WorksFor, Working
<1> QED
  BY <1>3, <1>4, <1>5, PusherReserved

\* The permit goes back, or is used.
LEMMA PermitsEnd ==
  ASSUME ListInv, ReservedInv, NEW p \in Pusher, Lists!PopNothing(p) \/ Lists!Send(p)
  PROVE  ReservedInv'
<1>1. /\ ListTyped /\ held \in [Pusher -> Request] /\ chan \in [Client -> Channel]
      /\ listPc[p] \in {"pop", "send"}
  BY DEF ListInv, ListTyped, Lists!PopNothing, Lists!Send
<1>2. held[p].c \in Client
  BY <1>1 DEF ListInv, PushersInv, PusherOK
<1>3. \A q \in Pusher \ {p} : held'[q] = held[q]
  BY <1>1 DEF Lists!PopNothing, Lists!Send, Lists!PutBack, Lists!Drained
<1>4. \E l \in PusherAt : Lists!Goto(p, l)
  BY DEF Lists!PopNothing, Lists!Send, Lists!PutBack, Lists!Drained, PusherAt
<1>5. \A q \in Pusher \ {p} : listPc'[q] = listPc[q]
  BY <1>1, <1>4, PusherMoves
<1>6. /\ ~Lists!Open(p) => chan' = chan
      /\ Lists!Open(p) => /\ \A b \in Client \ {held[p].c} : chan'[b] = chan[b]
                          /\ chan'[held[p].c].st # "reserved"
  <2>1. CASE Lists!PopNothing(p)
    <3>1. chan' = IF Lists!Open(p) THEN [chan EXCEPT ![held[p].c].st = "empty"] ELSE chan
      BY <2>1 DEF Lists!PopNothing, Lists!Unreserve
    <3> QED
      BY <1>1, <1>2, <3>1 DEF Channel
  <2>2. CASE Lists!Send(p)
    <3>1. /\ ~Lists!Open(p) => chan' = chan
          /\ Lists!Open(p) =>
               chan' = [chan EXCEPT ![held[p].c] =
                          [chan[held[p].c] EXCEPT !.st = "full", !.el = held[p].el,
                                                  !.moved = held[p].dest # None]]
      BY <2>2 DEF Lists!Send
    <3> DEFINE c == held[p].c
               r == [chan[c] EXCEPT !.st = "full", !.el = held[p].el, !.moved = held[p].dest # None]
    <3>2. r.st = "full"
      BY <1>1, <1>2 DEF Channel
    <3>3. Lists!Open(p) => chan' = [chan EXCEPT ![c] = r]
      BY <3>1
    <3> HIDE DEF r
    <3> QED
      BY <1>1, <1>2, <3>1, <3>2, <3>3
  <2> QED
    BY <2>1, <2>2
<1>7. ASSUME NEW c \in Client, chan'[c].st = "reserved"
      PROVE  chan'[c] = chan[c] /\ ~WorksFor(p, c)
  <2>1. chan'[c] = chan[c] /\ (Lists!Open(p) => c # held[p].c)
    BY <1>6, <1>7
  <2> QED
    BY <1>7, <2>1 DEF WorksFor, Lists!Open
<1> QED
  BY <1>3, <1>5, <1>7, PusherReserved

\* Every step keeps it.
LEMMA NextReserved ==
  ASSUME ListInv, ReservedInv, [Lists!Next]_(Lists!vars)
  PROVE  ReservedInv'
<1>1. ASSUME chan' = chan, held' = held, listPc' = listPc PROVE ReservedInv'
  BY <1>1 DEF ReservedInv, WorksFor, Working
<1>2. CASE UNCHANGED Lists!vars
  BY <1>1, <1>2 DEF Lists!vars
<1>3. ASSUME NEW c \in Client, NEW w, NEW i, Lists!BlockServed(c, w, i) PROVE ReservedInv'
  BY <1>1, <1>3 DEF Lists!BlockServed
<1>4. ASSUME NEW p \in Pusher, NEW k \in List,
             Lists!Pop(p, k) \/ \E d \in List : Lists!Move(p, k, d)
      PROVE  ReservedInv'
  BY <1>1, <1>4 DEF Lists!Pop, Lists!Move
<1> QED
  BY <1>2, <1>3, <1>4, ClientsReserve, WaitReserves, DrainsReserve, ReserveReserves, PopReserves,
     PermitsEnd DEF Lists!Next, Lists!PusherStep

\* Exactly one pusher is at work for a reserved channel, and none for any other.
LEMMA OnePermit ==
  ASSUME ListInv, ReservedInv, NEW c \in Client
  PROVE  Lists!Cardinality({p \in Pusher : listPc[p] \in {"pop", "send"} /\ held[p].c = c
                                             /\ Lists!Open(p)})
           = IF chan[c].st = "reserved" THEN 1 ELSE 0
<1> DEFINE W == {p \in Pusher : listPc[p] \in {"pop", "send"} /\ held[p].c = c /\ Lists!Open(p)}
<1>1. \A p \in W : chan[c].st = "reserved"
  BY DEF ListInv, PermitInv, Working
<1>2. CASE chan[c].st = "reserved"
  <2>1. PICK p \in Pusher : WorksFor(p, c)
    BY <1>2 DEF ReservedInv
  <2>2. p \in W
    BY <1>2, <2>1 DEF WorksFor, Working, Lists!Open
  <2>3. \A q \in W : q = p
    BY <2>2 DEF ListInv, PermitInv, Working
  <2>4. W = {p}
    BY <2>2, <2>3
  <2> HIDE DEF W
  <2>5. Lists!Cardinality(W) = 1
    BY <2>4, Counts
  <2> QED
    BY <1>2, <2>5 DEF W
<1>3. CASE chan[c].st # "reserved"
  <2>1. W = {}
    BY <1>1, <1>3
  <2> HIDE DEF W
  <2>2. Lists!Cardinality(W) = 0
    BY <2>1, Counts
  <2> QED
    BY <1>3, <2>2 DEF W
<1> QED
  BY <1>2, <1>3

\* The types of the lists, and: a channel is reserved exactly while one drain is about to
\* fill it or to give it back, so that no permit is left behind (try_reserve_owned).
THEOREM PermitsKept == StoreSpec => [](part = "lists" => ReservedInv /\ Lists!TypeOK)
<1>1. StoreInit => (part = "lists" => ReservedInv)
  <2>1. ASSUME Lists!Init PROVE ReservedInv
    BY <2>1, EmptyRecords DEF Lists!Init, ReservedInv
  <2> QED
    BY <2>1 DEF StoreInit
<1>2. /\ part = "lists" => ListInv
      /\ part = "lists" => ReservedInv
      /\ [StoreNext]_storeVars
      => (part = "lists" => ReservedInv)'
  BY ListsStep, NextReserved
<1>3. StoreSpec => [](part = "lists" => ReservedInv)
  BY <1>1, <1>2, BlockingInvariant, PTL DEF StoreSpec
<1>4. ASSUME ListInv, ReservedInv PROVE Lists!TypeOK
  <2>1. ASSUME NEW k \in List PROVE list[k] \in Seq(1..listUsed.pushes)
    <3>1. list[k] \in Seq(Nat)
      BY <1>4 DEF ListInv, ListTyped
    <3>2. \A i \in DOMAIN list[k] : list[k][i] \in 1..listUsed.pushes
      <4>1. <<"list", k>> \in Spot /\ Holds(<<"list", k>>) = Elements(list[k])
        BY SpotHolds
      <4>2. \A i \in DOMAIN list[k] : list[k][i] \in Holds(<<"list", k>>) /\ list[k][i] \in Nat
        BY <3>1, <4>1 DEF Elements
      <4> QED
        BY <1>4, <4>1, <4>2 DEF ListInv, Partition
    <3> DEFINE n == Len(list[k])
    <3>3. n \in Nat /\ DOMAIN list[k] = 1..n /\ list[k] \in [1..n -> Nat]
      BY <3>1, LenProperties
    <3> HIDE DEF n
    <3>4. list[k] = [i \in 1..n |-> list[k][i]]
      BY <3>3
    <3>5. [i \in 1..n |-> list[k][i]] \in Seq(1..listUsed.pushes)
      BY <3>2, <3>3
    <3> QED
      BY <3>4, <3>5
  <2>2. \A k \in List :
          queue[k] \in Seq([c : Client, id : Nat, dest : List \cup {None}, el : {0}])
    BY <1>4 DEF ListInv, ListTyped, Waiter
  <2>3. \A c \in Client : /\ chan[c].st \in {"closed", "empty", "reserved", "full"}
                          /\ chan[c].id \in 0..(nextWaiter - 1)
    BY <1>4 DEF ListInv, ListTyped, Channel, ClientsInv, ClientOK
  <2> QED
    BY <1>4, <2>1, <2>2, <2>3, OnePermit DEF Lists!TypeOK
<1>5. (part = "lists" => ListInv) /\ (part = "lists" => ReservedInv) =>
        (part = "lists" => ReservedInv /\ Lists!TypeOK)
  BY <1>4
<1> QED
  BY <1>3, <1>5, BlockingInvariant, PTL
=============================================================================
