--------------------------- MODULE GatewayProofs ---------------------------
(***************************************************************************)
(* The two ports: what HttpGateway promises and the budgets of             *)
(* RespSession, proved for every set of connections, everything they may   *)
(* send and every limit.                                                   *)
(*                                                                         *)
(* A process-wide budget is a sum over the connections, so that a step of  *)
(* one connection must change the budget by what its own charge changes    *)
(* (SumChanges, Balanced, Settles).  What a connection is charged follows  *)
(* from where its request is (HeldOK) or from what its session keeps       *)
(* (SessionOK).                                                            *)
(*                                                                         *)
(* Nobody is served beyond his role, because what a request found out      *)
(* about its caller still fits when it is served (ContextOK, RoleOK), and  *)
(* a live socket ends because a credential that is void stays void         *)
(* (VoidStays).                                                            *)
(***************************************************************************)
EXTENDS MCAccess, TLAPS, FiniteSetTheorems, NaturalsInduction, SequenceTheorems,
        WellFoundedInduction

-----------------------------------------------------------------------------
(* Sums over a finite set                                                  *)

\* A set of numbers that is not empty has a least element.
LEMMA LeastNumber ==
  ASSUME NEW T \in SUBSET Nat, T # {}
  PROVE  \E m \in T : \A n \in T : m <= n
<1>1. PICK m \in T : \A n \in T : ~(<<n, m>> \in OpToRel(<, Nat))
  BY WFMin, NatLessThanWellFounded
<1>2. ASSUME NEW n \in T, n < m PROVE FALSE
  <2>1. <<n, m>> \in Nat \X Nat
    BY <1>1
  <2>2. <<n, m>> \in {ss \in Nat \X Nat : ss[1] < ss[2]}
    BY <1>2, <2>1
  <2>3. <<n, m>> \in OpToRel(<, Nat)
    BY <2>2 DEF OpToRel
  <2> QED
    BY <1>1, <2>3
<1>3. \A n \in T : m <= n
  BY <1>2
<1> QED
  BY <1>3

\* A family of subsets of a finite set that is not empty has a smallest member.
LEMMA SmallestSet ==
  ASSUME NEW S, IsFiniteSet(S), NEW B \in SUBSET SUBSET S, B # {}
  PROVE  \E s \in B : \A t \in B : Cardinality(s) <= Cardinality(t)
<1> DEFINE T == {Cardinality(s) : s \in B}
<1>1. T \in SUBSET Nat /\ T # {}
  BY FS_Subset, FS_CardinalityType
<1>2. PICK m \in T : \A n \in T : m <= n
  BY <1>1, LeastNumber
<1> QED
  BY <1>2

\* The element a sum takes next, and F holds the sum of h over every subset of S in D.
AnyOf(s) == CHOOSE x \in s : TRUE
SumsIn(h, D, F) ==
  /\ F = [s \in D |-> F[s]]
  /\ \A s \in D : F[s] = IF s = {} THEN 0 ELSE h[AnyOf(s)] + F[s \ {AnyOf(s)}]
SumsOver(h, S, F) == SumsIn(h, SUBSET S, F)

LEMMA AnyElement ==
  ASSUME NEW S, IsFiniteSet(S), NEW s \in SUBSET S, s # {}
  PROVE  /\ AnyOf(s) \in s /\ s \ {AnyOf(s)} \in SUBSET S /\ Cardinality(s) \in Nat
         /\ Cardinality(s \ {AnyOf(s)}) = Cardinality(s) - 1
<1>1. AnyOf(s) \in s
  BY DEF AnyOf
<1>2. IsFiniteSet(s) /\ Cardinality(s) \in Nat
  BY FS_Subset, FS_CardinalityType
<1>3. Cardinality(s \ {AnyOf(s)}) = Cardinality(s) - 1
  BY <1>1, <1>2, FS_RemoveElement
<1> QED
  BY <1>1, <1>2, <1>3

\* There is such a function: the least n for which the sets of n elements have none is not
\* 0, and the function of the smaller sets extends to them.
LEMMA SumExists ==
  ASSUME NEW S, IsFiniteSet(S), NEW h
  PROVE  \E F : SumsOver(h, S, F)
<1> DEFINE D(n) == {s \in SUBSET S : Cardinality(s) <= n}
<1> DEFINE T == {n \in Nat : ~\E F : SumsIn(h, D(n), F)}
<1>1. \A s \in SUBSET S : Cardinality(s) \in Nat /\ Cardinality(s) <= Cardinality(S)
  BY FS_Subset, FS_CardinalityType
<1>2. Cardinality(S) \in Nat /\ D(Cardinality(S)) = SUBSET S
  BY <1>1, FS_CardinalityType
<1>3. SUFFICES ASSUME T # {} PROVE FALSE
  <2>1. \E F : SumsIn(h, D(Cardinality(S)), F)
    BY <1>2, <1>3
  <2> QED
    BY <1>2, <2>1 DEF SumsOver
<1>4. PICK n \in T : \A j \in T : n <= j
  <2>1. T \in SUBSET Nat
    OBVIOUS
  <2> QED
    BY <1>3, <2>1, LeastNumber
<1>5. n \in Nat /\ ~\E F : SumsIn(h, D(n), F)
  BY <1>4
<1>6. CASE n = 0
  <2> DEFINE F == [s \in D(0) |-> 0]
  <2>1. ASSUME NEW s \in D(0) PROVE s = {}
    <3>1. IsFiniteSet(s) /\ Cardinality(s) = 0
      BY <1>1, FS_Subset
    <3> QED
      BY <3>1, FS_EmptySet
  <2>2. SumsIn(h, D(0), F)
    BY <2>1 DEF SumsIn
  <2> QED
    BY <1>5, <1>6, <2>2
<1>7. CASE n # 0
  <2>1. n - 1 \in Nat /\ n - 1 \notin T
    <3> HIDE DEF T
    <3> QED
      BY <1>4, <1>5, <1>7
  <2>2. PICK F : SumsIn(h, D(n - 1), F)
    BY <2>1
  <2> DEFINE G == [s \in D(n) |-> IF s \in D(n - 1) THEN F[s] ELSE h[AnyOf(s)] + F[s \ {AnyOf(s)}]]
  <2>3. \A s \in D(n - 1) : s \in D(n) /\ G[s] = F[s]
    BY <1>1, <2>1, <1>5
  <2>4. \A s \in D(n) : s # {} => s \ {AnyOf(s)} \in D(n - 1)
    BY <1>1, <1>5, AnyElement
  <2>5. {} \in D(n - 1)
    BY <2>1, FS_EmptySet
  <2>6. ASSUME NEW s \in D(n)
        PROVE  G[s] = IF s = {} THEN 0 ELSE h[AnyOf(s)] + G[s \ {AnyOf(s)}]
    <3>1. s # {} => G[s \ {AnyOf(s)}] = F[s \ {AnyOf(s)}]
      BY <2>3, <2>4
    <3>2. CASE s \in D(n - 1)
      <4>1. F[s] = IF s = {} THEN 0 ELSE h[AnyOf(s)] + F[s \ {AnyOf(s)}]
        BY <2>2, <3>2 DEF SumsIn
      <4>2. G[s] = F[s]
        BY <2>3, <3>2
      <4> HIDE DEF G, D
      <4> QED
        BY <3>1, <4>1, <4>2
    <3>3. CASE s \notin D(n - 1)
      <4>1. s # {}
        BY <2>5, <3>3
      <4>2. G[s] = h[AnyOf(s)] + F[s \ {AnyOf(s)}]
        BY <3>3
      <4> HIDE DEF G, D
      <4> QED
        BY <3>1, <4>1, <4>2
    <3> QED
      BY <3>2, <3>3
  <2>7. G = [s \in D(n) |-> G[s]]
    OBVIOUS
  <2> HIDE DEF G, D
  <2>8. SumsIn(h, D(n), G)
    BY <2>6, <2>7 DEF SumsIn
  <2> QED
    BY <1>5, <2>8
<1> QED
  BY <1>6, <1>7

\* A sum of numbers is a number, no less than each of them.
LEMMA SumIsNat ==
  ASSUME NEW S, IsFiniteSet(S), NEW h, \A x \in S : h[x] \in Nat, NEW F, SumsOver(h, S, F)
  PROVE  \A s \in SUBSET S : F[s] \in Nat /\ \A x \in s : h[x] <= F[s]
<1> DEFINE Good(s) == F[s] \in Nat /\ \A x \in s : h[x] <= F[s]
           B == {s \in SUBSET S : ~Good(s)}
<1>0. \A s \in SUBSET S : F[s] = IF s = {} THEN 0 ELSE h[AnyOf(s)] + F[s \ {AnyOf(s)}]
  BY DEF SumsOver, SumsIn
<1>1. SUFFICES ASSUME B # {} PROVE FALSE
  OBVIOUS
<1>2. PICK s \in B : \A t \in B : Cardinality(s) <= Cardinality(t)
  BY <1>1, SmallestSet
<1>3. s # {}
  <2>1. SUFFICES ASSUME s = {} PROVE FALSE
    OBVIOUS
  <2>2. F[s] = 0
    BY <1>0, <2>1
  <2> QED
    BY <1>2, <2>1, <2>2
<1> DEFINE t == s \ {AnyOf(s)}
<1>4. AnyOf(s) \in s /\ t \in SUBSET S /\ Cardinality(s) \in Nat /\ Cardinality(t) = Cardinality(s) - 1
  BY <1>2, <1>3, AnyElement
<1>5. F[s] = h[AnyOf(s)] + F[t]
  BY <1>0, <1>2, <1>3
<1>6. t \notin B
  <2>1. t \in B => Cardinality(s) <= Cardinality(t)
    BY <1>2
  <2> HIDE DEF t, B
  <2> QED
    BY <1>4, <2>1
<1>7. Good(t)
  BY <1>4, <1>6
<1>8. h[AnyOf(s)] \in Nat
  BY <1>2, <1>4
<1>9. F[s] \in Nat /\ h[AnyOf(s)] <= F[s] /\ F[t] <= F[s]
  BY <1>5, <1>7, <1>8
<1>10. ASSUME NEW x \in s PROVE h[x] <= F[s]
  <2>1. CASE x = AnyOf(s)
    BY <2>1, <1>9
  <2>2. CASE x # AnyOf(s)
    <3>1. x \in t /\ h[x] \in Nat
      BY <2>2, <1>2
    <3> HIDE DEF t
    <3> QED
      BY <3>1, <1>7, <1>9
  <2> QED
    BY <2>1, <2>2
<1> QED
  BY <1>2, <1>9, <1>10

\* A sum of zeros is zero.
LEMMA SumOfZeros ==
  ASSUME NEW S, IsFiniteSet(S), NEW h, \A x \in S : h[x] = 0, NEW F, SumsOver(h, S, F)
  PROVE  F[S] = 0
<1> DEFINE B == {s \in SUBSET S : F[s] # 0}
<1>0. \A s \in SUBSET S : F[s] = IF s = {} THEN 0 ELSE h[AnyOf(s)] + F[s \ {AnyOf(s)}]
  BY DEF SumsOver, SumsIn
<1>1. SUFFICES ASSUME B # {} PROVE FALSE
  OBVIOUS
<1>2. PICK s \in B : \A t \in B : Cardinality(s) <= Cardinality(t)
  BY <1>1, SmallestSet
<1>3. s # {}
  BY <1>0, <1>2
<1> DEFINE t == s \ {AnyOf(s)}
<1>4. AnyOf(s) \in s /\ t \in SUBSET S /\ Cardinality(s) \in Nat /\ Cardinality(t) = Cardinality(s) - 1
  BY <1>2, <1>3, AnyElement
<1>5. F[s] = h[AnyOf(s)] + F[t]
  BY <1>0, <1>2, <1>3
<1>6. t \notin B
  BY <1>2, <1>4
<1>7. F[t] = 0 /\ h[AnyOf(s)] = 0
  BY <1>2, <1>4, <1>6
<1> QED
  BY <1>2, <1>5, <1>7

\* When one number changes the sums of the sets it is in change by the difference.
ChangesAt(h, g, S, c) ==
  /\ c \in S /\ \A x \in S : h[x] \in Nat /\ g[x] \in Nat
  /\ \A x \in S : x # c => g[x] = h[x]
LEMMA SumChanges ==
  ASSUME NEW S, IsFiniteSet(S), NEW h, NEW g, NEW c, ChangesAt(h, g, S, c),
         NEW F, SumsOver(h, S, F), NEW G, SumsOver(g, S, G)
  PROVE  G[S] = F[S] - h[c] + g[c]
<1> USE DEF ChangesAt
<1> DEFINE Good(s) == G[s] = F[s] + IF c \in s THEN g[c] - h[c] ELSE 0
           B == {s \in SUBSET S : ~Good(s)}
<1>0. \A s \in SUBSET S : F[s] \in Nat /\ G[s] \in Nat
  BY SumIsNat
<1>a. /\ \A s \in SUBSET S : F[s] = IF s = {} THEN 0 ELSE h[AnyOf(s)] + F[s \ {AnyOf(s)}]
      /\ \A s \in SUBSET S : G[s] = IF s = {} THEN 0 ELSE g[AnyOf(s)] + G[s \ {AnyOf(s)}]
  BY DEF SumsOver, SumsIn
<1>1. SUFFICES ASSUME B # {} PROVE FALSE
  <2>1. Good(S)
    BY <1>1
  <2> QED
    BY <2>1, <1>0
<1>2. PICK s \in B : \A t \in B : Cardinality(s) <= Cardinality(t)
  BY <1>1, SmallestSet
<1>3. s # {}
  <2>1. SUFFICES ASSUME s = {} PROVE FALSE
    OBVIOUS
  <2>2. F[s] = 0 /\ G[s] = 0
    BY <1>a, <1>2, <2>1
  <2> QED
    BY <1>2, <2>1, <2>2
<1> DEFINE x == AnyOf(s)
           t == s \ {x}
<1>4. x \in s /\ t \in SUBSET S /\ Cardinality(s) \in Nat /\ Cardinality(t) = Cardinality(s) - 1
  BY <1>2, <1>3, AnyElement
<1>5. F[s] = h[x] + F[t] /\ G[s] = g[x] + G[t]
  BY <1>a, <1>2, <1>3
<1>6. t \notin B
  <2>1. t \in B => Cardinality(s) <= Cardinality(t)
    BY <1>2
  <2> HIDE DEF t, B
  <2> QED
    BY <1>4, <2>1
<1>7. Good(t)
  BY <1>4, <1>6
<1>8. F[t] \in Nat /\ G[t] \in Nat /\ h[x] \in Nat /\ g[x] \in Nat /\ h[c] \in Nat /\ g[c] \in Nat
  BY <1>0, <1>2, <1>4
<1>9. (x = c => c \in s /\ c \notin t) /\ (x # c => (c \in t <=> c \in s) /\ g[x] = h[x])
  BY <1>2, <1>4
<1>10. ~Good(s)
  BY <1>2
<1> HIDE DEF x, t
<1> QED
  BY <1>5, <1>7, <1>8, <1>9, <1>10

-----------------------------------------------------------------------------
(* HTTP: the inductive invariant                                           *)

\* A request as it is read, and a connection.
HttpAsk == {Http!NoRequest} \cup UNION {Requests[c] : c \in Conn}
HttpContext == {"none", "error", "anonymous", "publishable", "user"} \cup Http!Full
HttpConn ==
  [at : {"closed", "head", "admit", "body", "resolve", "auth", "gate", "serve", "live", "reply"},
   req : HttpAsk, ctx : HttpContext, held : Nat, open : BOOLEAN,
   effect : {"none", "all", "granted", "project", "backup", "session"},
   unread : BOOLEAN, checked : BOOLEAN, stale : Nat]
StudioSession == [id : Nat, origin : Http!Trusted, exp : Nat]

HttpTyped ==
  /\ conns \in [Conn -> HttpConn] /\ permits \in Nat /\ bytes \in Nat /\ workers \in Nat
  /\ password \in BOOLEAN /\ authOn \in BOOLEAN /\ keysOn \in BOOLEAN
  /\ valid \subseteq {"secret", "publishable", "user"}
  /\ sessions \subseteq StudioSession /\ issuedStudio \in 0..MaxIssued
  /\ httpClock \in 0..MaxHttpClock

\* What a connection has been charged, by how far its request has come.
HeldOK(k) ==
  /\ k.at \in {"closed", "head", "live"} => k.held = 0
  /\ k.at \in {"admit", "body"} => k.held = 1
  /\ k.at = "body" => k.req.size <= MaxBody
  /\ k.held <= 1 + MaxBody

\* A context is what a credential was worth when it was looked up, and says what must
\* have happened by then; a request has an effect only once it is answered.
ContextOK(k) ==
  /\ k.at \in {"closed", "head", "admit", "body", "resolve", "auth"} => k.ctx = "none"
  /\ k.at # "reply" => k.effect = "none"
  /\ k.ctx = "user" => authOn
  /\ k.ctx \in {"secret", "publishable"} => keysOn
  /\ k.ctx = "studio" => k.req.cred.kind = "studio" /\ k.req.cred.id <= issuedStudio
                         /\ k.req.origin \in Http!Trusted

\* Whoever is past the gate was let in for the role, or while there was no gate: an engine
\* that has none now had none then.
RoleOK(k) ==
  /\ k.at = "serve" => k.open \/ Http!Gated
  /\ k.at \in {"serve", "live"} => k.open \/ k.ctx \in Http!Full \cup {"user"}
  /\ k.effect \in {"all", "project", "backup"} => k.ctx \in Http!Full \/ k.open
  /\ k.effect = "granted" => k.ctx = "user"
  /\ k.effect = "session" => k.ctx = "operator"

\* A socket that the tick found void has not been looked at since, and stays void: the look
\* will close it.
StaleOK(c) ==
  conns[c].stale # 0 => /\ conns[c].stale = 1 /\ ~conns[c].checked /\ httpClock # 0
                        /\ Http!Void(c)

\* Studio sessions have distinct numbers that were issued and distinct origins.
StudioInv ==
  /\ \A s \in sessions : s.id <= issuedStudio
  /\ \A s, t \in sessions : s.origin = t.origin => s = t
  /\ Cardinality(sessions) <= MaxStudio
  /\ valid \cap {"secret", "publishable"} # {} => keysOn
  /\ "user" \in valid => authOn

\* The counters.
Occupied == {c \in Conn : conns[c].at # "closed"}
Hashing == {c \in Conn : conns[c].at = "auth"}
CountInv ==
  /\ permits = Cardinality(Occupied) /\ permits <= MaxHttp
  /\ workers = Cardinality(Hashing) /\ workers <= AuthWorkers

\* What the connections k hold together.
Charged(k) == Http!MapThenSumSet(LAMBDA c : k[c].held, Conn)

BytesInv == bytes = Charged(conns) /\ bytes <= ByteLimit

HttpInv ==
  /\ HttpTyped /\ CountInv /\ BytesInv /\ StudioInv
  /\ \A c \in Conn : HeldOK(conns[c]) /\ ContextOK(conns[c]) /\ RoleOK(conns[c]) /\ StaleOK(c)


-----------------------------------------------------------------------------
(* The request budget                                                      *)

\* Sizes and numbers of Studio sessions are numbers.
LEMMA AskNumbers == \A q \in HttpAsk : q.size \in Nat /\ q.cred.id \in Nat
<1>1. ASSUME NEW c \in Conn, NEW q \in Requests[c] PROVE q.size \in Nat /\ q.cred.id \in Nat
  BY HttpAssumption
<1>2. Http!NoRequest.size = 0 /\ Http!NoRequest.cred.id = 0
  BY DEF Http!NoRequest
<1> QED
  BY <1>1, <1>2 DEF HttpAsk

LEMMA ChargedIsSum ==
  ASSUME NEW k
  PROVE  \E F : SumsOver([c \in Conn |-> k[c].held], Conn, F) /\ Charged(k) = F[Conn]
<1> DEFINE h == [c \in Conn |-> k[c].held]
           Iter(F) == F = [s \in SUBSET Conn |->
                             IF s = {} THEN 0
                             ELSE k[CHOOSE x \in s : TRUE].held + F[s \ {CHOOSE x \in s : TRUE}]]
           G == CHOOSE F : Iter(F)
<1>1. PICK F : SumsOver(h, Conn, F)
  BY HttpAssumption, SumExists
<1>2. \A s \in SUBSET Conn : s # {} => AnyOf(s) \in s /\ h[AnyOf(s)] = k[AnyOf(s)].held
  BY DEF AnyOf
<1>3. Iter(F)
  <2>1. /\ F = [s \in SUBSET Conn |-> F[s]]
        /\ \A s \in SUBSET Conn : F[s] = IF s = {} THEN 0 ELSE h[AnyOf(s)] + F[s \ {AnyOf(s)}]
    BY <1>1 DEF SumsOver, SumsIn
  <2> HIDE DEF h
  <2>2. \A s \in SUBSET Conn : F[s] = IF s = {} THEN 0 ELSE k[AnyOf(s)].held + F[s \ {AnyOf(s)}]
    BY <1>2, <2>1
  <2>3. F = [s \in SUBSET Conn |-> IF s = {} THEN 0 ELSE k[AnyOf(s)].held + F[s \ {AnyOf(s)}]]
    BY <2>1, <2>2
  <2> QED
    BY <2>3 DEF AnyOf
<1>4. Iter(G)
  BY <1>3
<1>5. SumsOver(h, Conn, G)
  <2>1. G = [s \in SUBSET Conn |-> IF s = {} THEN 0 ELSE k[AnyOf(s)].held + G[s \ {AnyOf(s)}]]
    BY <1>4 DEF AnyOf
  <2> HIDE DEF G, h
  <2>2. G = [s \in SUBSET Conn |-> G[s]]
    BY <2>1
  <2>3. \A s \in SUBSET Conn : G[s] = IF s = {} THEN 0 ELSE k[AnyOf(s)].held + G[s \ {AnyOf(s)}]
    BY <2>1
  <2> QED
    BY <1>2, <2>2, <2>3 DEF SumsOver, SumsIn
<1>6. Charged(k) = G[Conn]
  BY DEF Charged, Http!MapThenSumSet, Http!MapThenFoldSet
<1> QED
  BY <1>5, <1>6

\* One connection's charge changes: so does the sum, by the difference.
LEMMA ChargeChanges ==
  ASSUME NEW k, NEW l, NEW c \in Conn, \A x \in Conn : k[x].held \in Nat /\ l[x].held \in Nat,
         \A x \in Conn \ {c} : l[x].held = k[x].held
  PROVE  /\ Charged(l) = Charged(k) - k[c].held + l[c].held
         /\ Charged(k) \in Nat /\ k[c].held <= Charged(k)
<1> DEFINE h == [x \in Conn |-> k[x].held]
           g == [x \in Conn |-> l[x].held]
<1>1. PICK F : SumsOver(h, Conn, F) /\ Charged(k) = F[Conn]
  BY ChargedIsSum
<1>2. PICK G : SumsOver(g, Conn, G) /\ Charged(l) = G[Conn]
  BY ChargedIsSum
<1>3. h[c] = k[c].held /\ g[c] = l[c].held
  OBVIOUS
<1>4. G[Conn] = F[Conn] - h[c] + g[c]
  <2>1. ChangesAt(h, g, Conn, c) /\ IsFiniteSet(Conn)
    BY HttpAssumption DEF ChangesAt
  <2> HIDE DEF h, g
  <2> QED
    BY <1>1, <1>2, <2>1, SumChanges
<1>5. F[Conn] \in Nat /\ h[c] <= F[Conn]
  <2>1. \A x \in Conn : h[x] \in Nat
    OBVIOUS
  <2> HIDE DEF h, g
  <2> QED
    BY <1>1, <2>1, HttpAssumption, SumIsNat
<1> HIDE DEF h, g
<1> QED
  BY <1>1, <1>2, <1>3, <1>4, <1>5

LEMMA LimitsAre ==
  Http!LimitsExact <=>
    /\ CountInv
    /\ bytes = Charged(conns) /\ bytes <= ByteLimit
    /\ \A c \in Conn : conns[c].at \in {"closed", "head", "live"} => conns[c].held = 0
  BY DEF Http!LimitsExact, CountInv, Occupied, Hashing, Http!Using, Charged, Cardinality, Http!Cardinality

\* Nothing changes: nor does the sum.
LEMMA ChargeSame ==
  ASSUME NEW k, NEW l, \A x \in Conn : k[x].held \in Nat /\ l[x].held = k[x].held
  PROVE  Charged(l) = Charged(k)
<1>1. CASE Conn # {}
  <2>1. PICK c : c \in Conn
    BY <1>1
  <2>2. \A x \in Conn : k[x].held \in Nat /\ l[x].held \in Nat
    OBVIOUS
  <2>3. Charged(l) = Charged(k) - k[c].held + l[c].held /\ Charged(k) \in Nat
    BY <2>1, <2>2, ChargeChanges
  <2> QED
    BY <2>1, <2>3
<1>2. CASE Conn = {}
  <2>1. \A F, h : SumsOver(h, Conn, F) => F[Conn] = 0
    BY <1>2 DEF SumsOver, SumsIn
  <2> QED
    BY <2>1, ChargedIsSum
<1> QED
  BY <1>1, <1>2

-----------------------------------------------------------------------------
(* A step of one connection                                                *)

\* Connection c takes the step, and the counters follow it.
Moved(c) == conns' = [conns EXCEPT ![c] = conns'[c]] /\ conns'[c] \in HttpConn
One(b) == IF b THEN 1 ELSE 0
Balanced(c) ==
  /\ permits' = permits - One(conns[c].at # "closed") + One(conns'[c].at # "closed")
  /\ workers' = workers - One(conns[c].at = "auth") + One(conns'[c].at = "auth")
  /\ bytes' = bytes - conns[c].held + conns'[c].held
  /\ permits' <= MaxHttp /\ workers' <= AuthWorkers /\ bytes' <= ByteLimit

\* One element enters a set or leaves it.
LEMMA CountOne ==
  ASSUME NEW S, IsFiniteSet(S), NEW T, IsFiniteSet(T), NEW c, \A x : x # c => (x \in S <=> x \in T)
  PROVE  /\ Cardinality(S) \in Nat /\ Cardinality(T) \in Nat
         /\ Cardinality(T) = Cardinality(S) - One(c \in S) + One(c \in T)
<1>1. Cardinality(S) \in Nat /\ Cardinality(T) \in Nat
  BY FS_CardinalityType
<1>2. CASE c \in S /\ c \in T
  <2>1. T = S
    BY <1>2
  <2> QED
    BY <1>1, <1>2, <2>1 DEF One
<1>3. CASE c \notin S /\ c \notin T
  <2>1. T = S
    BY <1>3
  <2> QED
    BY <1>1, <1>3, <2>1 DEF One
<1>4. CASE c \in S /\ c \notin T
  <2>1. T = S \ {c}
    BY <1>4
  <2> QED
    BY <1>1, <1>4, <2>1, FS_RemoveElement DEF One
<1>5. CASE c \notin S /\ c \in T
  <2>1. T = S \cup {c}
    BY <1>5
  <2> QED
    BY <1>1, <1>5, <2>1, FS_AddElement DEF One
<1> QED
  BY <1>2, <1>3, <1>4, <1>5

LEMMA CountsKept ==
  ASSUME HttpInv, NEW c \in Conn, Moved(c), Balanced(c)
  PROVE  /\ CountInv' /\ BytesInv' /\ conns' \in [Conn -> HttpConn]
         /\ permits' \in Nat /\ bytes' \in Nat /\ workers' \in Nat
<1>1. conns \in [Conn -> HttpConn] /\ conns' \in [Conn -> HttpConn]
      /\ \A x \in Conn : x # c => conns'[x] = conns[x]
  BY DEF HttpInv, HttpTyped, Moved
<1>2. IsFiniteSet(Occupied) /\ IsFiniteSet(Occupied') /\ IsFiniteSet(Hashing) /\ IsFiniteSet(Hashing')
  <2>1. Occupied \in SUBSET Conn /\ Occupied' \in SUBSET Conn
        /\ Hashing \in SUBSET Conn /\ Hashing' \in SUBSET Conn
    BY DEF Occupied, Hashing
  <2> QED
    BY <2>1, HttpAssumption, FS_Subset
<1>3. /\ \A x : x # c => (x \in Occupied <=> x \in Occupied')
      /\ c \in Occupied <=> conns[c].at # "closed"
      /\ c \in Occupied' <=> conns'[c].at # "closed"
  BY <1>1 DEF Occupied
<1>4. /\ \A x : x # c => (x \in Hashing <=> x \in Hashing')
      /\ c \in Hashing <=> conns[c].at = "auth"
      /\ c \in Hashing' <=> conns'[c].at = "auth"
  BY <1>1 DEF Hashing
<1>5. permits' = Cardinality(Occupied') /\ permits' \in Nat
  <2>1. /\ Cardinality(Occupied) \in Nat /\ Cardinality(Occupied') \in Nat
        /\ Cardinality(Occupied') = Cardinality(Occupied) - One(c \in Occupied) + One(c \in Occupied')
    BY <1>2, <1>3, CountOne
  <2> QED
    BY <2>1, <1>3 DEF HttpInv, CountInv, Balanced, One
<1>6. workers' = Cardinality(Hashing') /\ workers' \in Nat
  <2>1. /\ Cardinality(Hashing) \in Nat /\ Cardinality(Hashing') \in Nat
        /\ Cardinality(Hashing') = Cardinality(Hashing) - One(c \in Hashing) + One(c \in Hashing')
    BY <1>2, <1>4, CountOne
  <2> QED
    BY <2>1, <1>4 DEF HttpInv, CountInv, Balanced, One
<1>7. bytes' = Charged(conns') /\ bytes' \in Nat
  <2>1. \A x \in Conn : conns[x].held \in Nat /\ conns'[x].held \in Nat
    BY <1>1 DEF HttpConn
  <2>2. \A x \in Conn \ {c} : conns'[x].held = conns[x].held
    BY <1>1
  <2>3. /\ Charged(conns') = Charged(conns) - conns[c].held + conns'[c].held
        /\ Charged(conns) \in Nat /\ conns[c].held <= Charged(conns)
    BY <2>1, <2>2, ChargeChanges
  <2> QED
    BY <2>1, <2>3 DEF HttpInv, BytesInv, Balanced
<1>8. CountInv'
  BY <1>5, <1>6 DEF CountInv, Balanced
<1>9. BytesInv'
  BY <1>7 DEF BytesInv, Balanced
<1> QED
  BY <1>1, <1>5, <1>6, <1>7, <1>8, <1>9

\* Whatever is void stays void: credentials come back only to those who hold none of their
\* kind, time passes, and a new Studio session has a new number.
LEMMA VoidStays ==
  ASSUME HttpInv, NEW x \in Conn, Http!Void(x), conns'[x].at = conns[x].at,
         conns'[x].ctx = conns[x].ctx, conns'[x].req = conns[x].req,
         \A cr \in {"user", "secret"} : conns[x].ctx = cr /\ cr \in valid' => cr \in valid,
         httpClock' \in Nat, httpClock <= httpClock', sessions' \subseteq StudioSession,
         \A s \in sessions' : s \in sessions \/ issuedStudio < s.id
  PROVE  Http!Void(x)'
<1>1. conns[x].at = "live"
  BY DEF Http!Void
<1>2. CASE conns[x].ctx \in {"user", "secret"} /\ conns[x].ctx \notin valid
  BY <1>1, <1>2 DEF Http!Void
<1>3. CASE conns[x].ctx = "studio" /\ ~Http!StudioAuthorized(conns[x].req)
  <2> DEFINE q == conns[x].req
  <2>1. q.cred.kind = "studio" /\ q.cred.id <= issuedStudio /\ q.origin \in Http!Trusted
    BY <1>3 DEF HttpInv, ContextOK
  <2>2. q.cred.id \in Nat /\ issuedStudio \in Nat /\ httpClock \in Nat /\ sessions \subseteq StudioSession
    BY HttpAssumption, AskNumbers DEF HttpInv, HttpTyped, HttpConn
  <2>3. \A s \in sessions : ~(s.id = q.cred.id /\ s.origin = q.origin /\ s.exp > httpClock)
    BY <1>3, <2>1 DEF Http!StudioAuthorized, Http!Live
  <2>4. ASSUME NEW s \in sessions', s.id = q.cred.id, s.origin = q.origin, s.exp > httpClock'
        PROVE  FALSE
    <3>1. s.id \in Nat /\ s.exp \in Nat
      BY DEF StudioSession
    <3>2. s \in sessions
      BY <2>1, <2>2, <2>4, <3>1
    <3> QED
      BY <2>2, <2>3, <2>4, <3>1, <3>2
  <2>5. ~Http!StudioAuthorized(q)'
    BY <2>4 DEF Http!StudioAuthorized, Http!Live
  <2> QED
    BY <1>1, <1>3, <2>5 DEF Http!Void
<1> QED
  BY <1>2, <1>3 DEF Http!Void


\* What the other connections rely on is kept by whatever only adds credentials, keys and
\* sessions.
LEMMA OthersKept ==
  ASSUME HttpInv, NEW x \in Conn, conns'[x] = conns[x], password' = password, authOn' = authOn,
         keysOn => keysOn', issuedStudio' \in Nat, issuedStudio <= issuedStudio'
  PROVE  HeldOK(conns[x])' /\ ContextOK(conns[x])' /\ RoleOK(conns[x])'
<1>1. HeldOK(conns[x]) /\ ContextOK(conns[x]) /\ RoleOK(conns[x]) /\ conns[x] \in HttpConn
  BY DEF HttpInv, HttpTyped
<1>2. HeldOK(conns[x])'
  BY <1>1 DEF HeldOK
<1>3. conns[x].req.cred.id \in Nat /\ issuedStudio \in Nat
  BY <1>1, HttpAssumption, AskNumbers DEF HttpInv, HttpTyped, HttpConn
<1>4. ContextOK(conns[x])'
  BY <1>1, <1>3 DEF ContextOK, Http!Trusted
<1>5. RoleOK(conns[x])'
  BY <1>1 DEF RoleOK, Http!Gated, Http!Full
<1> QED
  BY <1>2, <1>4, <1>5

LEMMA ConnStep ==
  ASSUME HttpInv, NEW c \in Conn, Moved(c), Balanced(c), Http!ConfigUnchanged,
         sessions' \subseteq StudioSession, issuedStudio' \in 0..MaxIssued,
         issuedStudio <= issuedStudio', StudioInv',
         \A s \in sessions' : s \in sessions \/ issuedStudio < s.id,
         HeldOK(conns[c])', ContextOK(conns[c])', RoleOK(conns[c])', conns'[c].stale = 0
  PROVE  HttpInv'
<1>1. /\ CountInv' /\ BytesInv' /\ conns' \in [Conn -> HttpConn]
      /\ permits' \in Nat /\ bytes' \in Nat /\ workers' \in Nat
  BY CountsKept
<1>2. HttpTyped'
  BY <1>1 DEF HttpInv, HttpTyped, Http!ConfigUnchanged
<1>3. ASSUME NEW x \in Conn
      PROVE  HeldOK(conns[x])' /\ ContextOK(conns[x])' /\ RoleOK(conns[x])' /\ StaleOK(x)'
  <2>1. CASE x = c
    BY <2>1 DEF StaleOK
  <2>2. CASE x # c
    <3>1. conns'[x] = conns[x]
      BY <2>2 DEF Moved, HttpInv, HttpTyped
    <3>2. HeldOK(conns[x])' /\ ContextOK(conns[x])' /\ RoleOK(conns[x])'
      BY <3>1, <1>2, OthersKept, HttpAssumption DEF HttpTyped, Http!ConfigUnchanged
    <3>3. StaleOK(x)'
      <4>1. CASE conns[x].stale = 0
        BY <3>1, <4>1 DEF StaleOK
      <4>2. CASE conns[x].stale # 0
        <5>1. conns[x].stale = 1 /\ ~conns[x].checked /\ httpClock # 0 /\ Http!Void(x)
          BY <4>2 DEF HttpInv, StaleOK
        <5>2. httpClock' = httpClock /\ httpClock \in Nat /\ valid' = valid
          BY HttpAssumption DEF HttpInv, HttpTyped, Http!ConfigUnchanged
        <5>3. Http!Void(x)'
          BY <3>1, <5>1, <5>2, VoidStays
        <5> QED
          BY <3>1, <5>1, <5>2, <5>3 DEF StaleOK
      <4> QED
        BY <4>1, <4>2
    <3> QED
      BY <3>2, <3>3
  <2> QED
    BY <2>1, <2>2
<1> QED
  BY <1>1, <1>2, <1>3 DEF HttpInv

\* The same, when Studio sessions are left alone.
LEMMA QuietStep ==
  ASSUME HttpInv, NEW c \in Conn, Moved(c), Balanced(c), Http!ConfigUnchanged,
         UNCHANGED <<sessions, issuedStudio>>,
         HeldOK(conns[c])', ContextOK(conns[c])', RoleOK(conns[c])', conns'[c].stale = 0
  PROVE  HttpInv'
<1>1. sessions' \subseteq StudioSession /\ issuedStudio' \in 0..MaxIssued
      /\ issuedStudio <= issuedStudio'
  BY HttpAssumption DEF HttpInv, HttpTyped
<1>2. StudioInv'
  BY DEF HttpInv, StudioInv, Http!ConfigUnchanged
<1> QED
  BY <1>1, <1>2, ConnStep

\* What is known of a connection about to take a step.
LEMMA ConnFacts ==
  ASSUME HttpInv, NEW c \in Conn
  PROVE  /\ conns[c] \in HttpConn /\ conns[c].held \in Nat /\ conns[c].req \in HttpAsk
         /\ HeldOK(conns[c]) /\ ContextOK(conns[c]) /\ RoleOK(conns[c])
         /\ conns[c].at # "live" => conns[c].stale = 0
         /\ permits \in Nat /\ bytes \in Nat /\ workers \in Nat
         /\ permits <= MaxHttp /\ workers <= AuthWorkers /\ bytes <= ByteLimit
         /\ conns[c].at # "closed" => 1 <= permits
         /\ conns[c].at = "auth" => 1 <= workers
         /\ conns[c].held <= bytes
<1>1. conns \in [Conn -> HttpConn] /\ HeldOK(conns[c]) /\ ContextOK(conns[c]) /\ RoleOK(conns[c])
      /\ StaleOK(c)
  BY DEF HttpInv, HttpTyped
<1>2. conns[c] \in HttpConn /\ conns[c].held \in Nat /\ conns[c].req \in HttpAsk
  BY <1>1 DEF HttpConn
<1>3. conns[c].at # "live" => conns[c].stale = 0
  BY <1>1 DEF StaleOK, Http!Void
<1>4. conns[c].held <= bytes
  <2>1. \A x \in Conn : conns[x].held \in Nat /\ conns[x].held \in Nat
    BY <1>1 DEF HttpConn
  <2>2. \A x \in Conn \ {c} : conns[x].held = conns[x].held
    OBVIOUS
  <2> QED
    BY <2>1, <2>2, ChargeChanges DEF HttpInv, BytesInv
<1>5. conns[c].at # "closed" => 1 <= permits
  <2>1. Occupied \in SUBSET Conn /\ IsFiniteSet(Occupied)
    BY HttpAssumption, FS_Subset DEF Occupied
  <2>2. conns[c].at # "closed" => c \in Occupied
    BY DEF Occupied
  <2> QED
    BY <2>1, <2>2, FS_EmptySet, FS_CardinalityType DEF HttpInv, CountInv
<1>6. conns[c].at = "auth" => 1 <= workers
  <2>1. Hashing \in SUBSET Conn /\ IsFiniteSet(Hashing)
    BY HttpAssumption, FS_Subset DEF Hashing
  <2>2. conns[c].at = "auth" => c \in Hashing
    BY DEF Hashing
  <2> QED
    BY <2>1, <2>2, FS_EmptySet, FS_CardinalityType DEF HttpInv, CountInv
<1> QED
  BY <1>1, <1>2, <1>3, <1>4, <1>5, <1>6 DEF HttpInv, HttpTyped, CountInv, BytesInv


-----------------------------------------------------------------------------
(* The steps of a connection                                               *)

\* A connection at its start.
LEMMA FreshConn ==
  /\ Http!NoConn \in HttpConn
  /\ \A b \in BOOLEAN : [Http!NoConn EXCEPT !.at = "head", !.unread = b] \in HttpConn
<1>1. Http!NoRequest \in HttpAsk
  BY DEF HttpAsk
<1>2. Http!NoConn \in HttpConn
  <2>1. "none" \in HttpContext
    BY DEF HttpContext
  <2> QED
    BY <1>1, <2>1 DEF Http!NoConn, HttpConn
<1>3. ASSUME NEW b \in BOOLEAN
      PROVE  [Http!NoConn EXCEPT !.at = "head", !.unread = b] \in HttpConn
  BY <1>1 DEF Http!NoConn, HttpConn, HttpContext
<1> QED
  BY <1>2, <1>3

\* The connection ends.
LEMMA CloseKeeps ==
  ASSUME HttpInv, NEW c \in Conn, conns[c].at \notin {"closed", "auth"}, Http!Close(c),
         Http!ConfigUnchanged, UNCHANGED <<workers, sessions, issuedStudio>>
  PROVE  HttpInv'
<1>1. conns'[c] = Http!NoConn /\ conns' = [conns EXCEPT ![c] = Http!NoConn]
      /\ permits' = permits - 1 /\ bytes' = bytes - conns[c].held
  BY DEF Http!Close, Http!Released, HttpInv, HttpTyped
<1>2. Moved(c)
  BY <1>1, FreshConn DEF Moved
<1>3. Balanced(c)
  BY <1>1, ConnFacts, HttpAssumption DEF Balanced, One, Http!NoConn
<1>4. HeldOK(conns[c])' /\ ContextOK(conns[c])' /\ RoleOK(conns[c])' /\ conns'[c].stale = 0
  BY <1>1, HttpAssumption DEF HeldOK, ContextOK, RoleOK, Http!NoConn, Http!Full
<1> QED
  BY <1>2, <1>3, <1>4, QuietStep

\* The answer is written and the next head is awaited.
LEMMA KeepAliveKeeps ==
  ASSUME HttpInv, NEW c \in Conn, conns[c].at \notin {"closed", "auth"}, NEW b \in BOOLEAN,
         Http!KeepAlive(c, b), Http!ConfigUnchanged, UNCHANGED <<workers, sessions, issuedStudio>>
  PROVE  HttpInv'
<1> DEFINE l == [Http!NoConn EXCEPT !.at = "head", !.unread = b]
<1>1. conns'[c] = l /\ conns' = [conns EXCEPT ![c] = l]
      /\ permits' = permits /\ bytes' = bytes - conns[c].held
  BY DEF Http!KeepAlive, Http!Released, HttpInv, HttpTyped
<1>2. Moved(c)
  <2>1. l \in HttpConn
    BY FreshConn
  <2> HIDE DEF l
  <2> QED
    BY <1>1, <2>1 DEF Moved
<1>3. l.at = "head" /\ l.held = 0 /\ l.ctx = "none" /\ l.effect = "none" /\ l.stale = 0
  BY DEF Http!NoConn
<1> HIDE DEF l
<1>4. Balanced(c)
  BY <1>1, <1>3, ConnFacts, HttpAssumption DEF Balanced, One
<1>5. HeldOK(conns[c])' /\ ContextOK(conns[c])' /\ RoleOK(conns[c])' /\ conns'[c].stale = 0
  BY <1>1, <1>3, HttpAssumption DEF HeldOK, ContextOK, RoleOK, Http!Full
<1> QED
  BY <1>2, <1>4, <1>5, QuietStep

\* The body is read next, or the answer written: nothing else changes.
LEMMA GoesOn ==
  ASSUME HttpInv, NEW c \in Conn, NEW at \in {"body", "reply"}, Http!To(c, at), conns[c].at \notin {"closed", "auth", "live"},
         at = "body" => conns[c].at = "admit" /\ conns[c].req.size <= MaxBody,
         UNCHANGED <<permits, bytes, workers, sessions, issuedStudio>>, Http!ConfigUnchanged
  PROVE  HttpInv'
<1>1. conns'[c] = [conns[c] EXCEPT !.at = at] /\ conns' = [conns EXCEPT ![c] = conns'[c]]
  BY DEF Http!To, HttpInv, HttpTyped
<1>2. Moved(c)
  BY <1>1, ConnFacts DEF Moved, HttpConn
<1>3. /\ conns'[c].at = at /\ conns'[c].held = conns[c].held /\ conns'[c].ctx = conns[c].ctx
      /\ conns'[c].effect = conns[c].effect /\ conns'[c].stale = conns[c].stale
      /\ conns'[c].req = conns[c].req /\ conns'[c].open = conns[c].open
  BY <1>1, ConnFacts DEF HttpConn
<1>4. Balanced(c)
  BY <1>3, ConnFacts, HttpAssumption DEF Balanced, One
<1>5. HeldOK(conns[c])' /\ conns'[c].stale = 0
  BY <1>3, ConnFacts DEF HeldOK
<1>6. ContextOK(conns[c])'
  BY <1>3, ConnFacts DEF ContextOK, Http!ConfigUnchanged, Http!Trusted
<1>7. RoleOK(conns[c])'
  BY <1>3, ConnFacts DEF RoleOK, Http!ConfigUnchanged, Http!Full, Http!Gated
<1> QED
  BY <1>2, <1>4, <1>5, <1>6, <1>7, QuietStep

LEMMA AcceptKeeps ==
  ASSUME HttpInv, NEW c \in Conn, Http!Accept(c)
  PROVE  HttpInv'
<1> DEFINE l == [Http!NoConn EXCEPT !.at = "head"]
<1>1. conns'[c] = l /\ conns' = [conns EXCEPT ![c] = l] /\ permits' = permits + 1 /\ permits < MaxHttp
      /\ conns[c].at = "closed" /\ Http!ConfigUnchanged
      /\ UNCHANGED <<bytes, workers, sessions, issuedStudio>>
  BY DEF Http!Accept, HttpInv, HttpTyped
<1>2. l.at = "head" /\ l.held = 0 /\ l.ctx = "none" /\ l.effect = "none" /\ l.stale = 0
      /\ l \in HttpConn
  BY FreshConn DEF Http!NoConn, HttpConn
<1> HIDE DEF l
<1>3. Moved(c)
  BY <1>1, <1>2 DEF Moved
<1>4. Balanced(c)
  BY <1>1, <1>2, ConnFacts, HttpAssumption DEF Balanced, One, HeldOK
<1>5. HeldOK(conns[c])' /\ ContextOK(conns[c])' /\ RoleOK(conns[c])' /\ conns'[c].stale = 0
  BY <1>1, <1>2, HttpAssumption DEF HeldOK, ContextOK, RoleOK, Http!Full
<1> QED
  BY <1>1, <1>3, <1>4, <1>5, QuietStep

LEMMA ReadHeadKeeps ==
  ASSUME HttpInv, NEW c \in Conn, NEW q \in Requests[c], Http!ReadHead(c, q)
  PROVE  HttpInv'
<1>1. conns[c].at = "head" /\ Http!ConfigUnchanged /\ UNCHANGED <<workers, sessions, issuedStudio>>
  BY DEF Http!ReadHead
<1>2. CASE ~Http!Fits(1)
  BY <1>1, <1>2, CloseKeeps DEF Http!ReadHead
<1>3. CASE Http!Fits(1)
  <2>1. /\ conns' = [conns EXCEPT ![c] = conns'[c]] /\ bytes' = bytes + 1 /\ permits' = permits
        /\ conns'[c] = [conns[c] EXCEPT !.at = "admit", !.req = q, !.held = 1]
        /\ bytes + 1 <= ByteLimit
    BY <1>3 DEF Http!ReadHead, Http!Fits, HttpInv, HttpTyped
  <2>2. q \in HttpAsk
    BY HttpAssumption DEF HttpAsk
  <2>3. Moved(c)
    <3>1. conns[c] \in HttpConn
      BY ConnFacts
    <3>2. [conns[c] EXCEPT !.at = "admit", !.req = q, !.held = 1] \in HttpConn
      BY <2>2, <3>1 DEF HttpConn
    <3> QED
      BY <2>1, <3>2 DEF Moved
  <2>4. /\ conns'[c].at = "admit" /\ conns'[c].held = 1 /\ conns'[c].ctx = conns[c].ctx
        /\ conns'[c].effect = conns[c].effect /\ conns'[c].stale = conns[c].stale
    BY <2>1, ConnFacts DEF HttpConn
  <2>5. Balanced(c)
    BY <1>1, <2>1, <2>4, ConnFacts, HttpAssumption DEF Balanced, One, HeldOK
  <2>6. HeldOK(conns[c])' /\ conns'[c].stale = 0
    BY <1>1, <2>4, ConnFacts, HttpAssumption DEF HeldOK
  <2>7. ContextOK(conns[c])' /\ RoleOK(conns[c])'
    BY <1>1, <2>4, ConnFacts DEF ContextOK, RoleOK, Http!Full
  <2> QED
    BY <1>1, <2>3, <2>5, <2>6, <2>7, QuietStep
<1> QED
  BY <1>2, <1>3

LEMMA AbandonKeeps ==
  ASSUME HttpInv, NEW c \in Conn, Http!Abandon(c) \/ Http!EndLive(c)
  PROVE  HttpInv'
  BY CloseKeeps DEF Http!Abandon, Http!EndLive

LEMMA AdmitKeeps ==
  ASSUME HttpInv, NEW c \in Conn, Http!Admit(c)
  PROVE  HttpInv'
<1> DEFINE q == conns[c].req
<1>1. conns[c].at = "admit" /\ Http!ConfigUnchanged /\ UNCHANGED <<workers, sessions, issuedStudio>>
  BY DEF Http!Admit
<1>2. CASE Http!OriginAllowed(q) /\ q.size <= MaxBody
  <2>1. Http!To(c, "body") /\ UNCHANGED <<permits, bytes>>
    BY <1>2 DEF Http!Admit
  <2> QED
    BY <1>1, <1>2, <2>1, GoesOn
<1>3. CASE ~(Http!OriginAllowed(q) /\ q.size <= MaxBody)
  <2>1. Http!KeepAlive(c, q.size > 0)
    BY <1>3 DEF Http!Admit
  <2>2. (q.size > 0) \in BOOLEAN
    OBVIOUS
  <2> QED
    BY <1>1, <2>1, <2>2, KeepAliveKeeps
<1> QED
  BY <1>2, <1>3

LEMMA ReadBodyKeeps ==
  ASSUME HttpInv, NEW c \in Conn, Http!ReadBody(c)
  PROVE  HttpInv'
<1> DEFINE q == conns[c].req
<1>1. conns[c].at = "body" /\ Http!ConfigUnchanged /\ UNCHANGED <<workers, sessions, issuedStudio>>
  BY DEF Http!ReadBody
<1>2. CASE ~Http!Fits(q.size)
  BY <1>1, <1>2, CloseKeeps DEF Http!ReadBody
<1>3. CASE Http!Fits(q.size) /\ q.route \in {"options", "health"}
  BY <1>1, <1>3, KeepAliveKeeps DEF Http!ReadBody
<1>4. CASE Http!Fits(q.size) /\ q.route \notin {"options", "health"}
  <2>1. /\ conns' = [conns EXCEPT ![c] = conns'[c]] /\ bytes' = bytes + q.size /\ permits' = permits
        /\ conns'[c] = [conns[c] EXCEPT !.held = conns[c].held + q.size, !.at = "resolve"]
        /\ bytes + q.size <= ByteLimit
    BY <1>4 DEF Http!ReadBody, Http!Fits, HttpInv, HttpTyped
  <2>2. q.size \in Nat /\ conns[c].held = 1 /\ q.size <= MaxBody
    BY <1>1, ConnFacts, AskNumbers DEF HeldOK
  <2>3. /\ conns'[c].at = "resolve" /\ conns'[c].held = 1 + q.size /\ conns'[c].ctx = conns[c].ctx
        /\ conns'[c].effect = conns[c].effect /\ conns'[c].stale = conns[c].stale
    BY <2>1, <2>2, ConnFacts DEF HttpConn
  <2>4. Moved(c)
    <3>1. conns[c] \in HttpConn /\ conns[c].held + q.size \in Nat
      BY <2>2, ConnFacts
    <3>2. [conns[c] EXCEPT !.held = conns[c].held + q.size, !.at = "resolve"] \in HttpConn
      BY <3>1 DEF HttpConn
    <3> QED
      BY <2>1, <3>2 DEF Moved
  <2>5. Balanced(c)
    BY <1>1, <2>1, <2>2, <2>3, ConnFacts, HttpAssumption DEF Balanced, One
  <2>6. HeldOK(conns[c])' /\ conns'[c].stale = 0
    BY <1>1, <2>2, <2>3, ConnFacts, HttpAssumption DEF HeldOK
  <2>7. ContextOK(conns[c])' /\ RoleOK(conns[c])'
    BY <1>1, <2>3, ConnFacts DEF ContextOK, RoleOK, Http!Full
  <2> QED
    BY <1>1, <2>4, <2>5, <2>6, <2>7, QuietStep
<1> QED
  BY <1>2, <1>3, <1>4


\* An authentication worker is taken, or given back.
LEMMA AuthKeeps ==
  ASSUME HttpInv, NEW c \in Conn, Http!StartAuth(c) \/ Http!EndAuth(c)
  PROVE  HttpInv'
<1>1. /\ Http!ConfigUnchanged /\ UNCHANGED <<permits, bytes, sessions, issuedStudio>>
      /\ conns[c].at \in {"resolve", "auth"}
  BY DEF Http!StartAuth, Http!EndAuth
<1>2. CASE conns[c].at = "resolve" /\ Http!To(c, "reply") /\ UNCHANGED workers
  BY <1>1, <1>2, GoesOn
<1>3. ASSUME NEW at \in {"auth", "reply"}, Http!To(c, at), at # conns[c].at,
             at = "auth" => workers' = workers + 1 /\ workers < AuthWorkers,
             at = "reply" => workers' = workers - 1 /\ conns[c].at = "auth"
      PROVE  HttpInv'
  <2>1. conns'[c] = [conns[c] EXCEPT !.at = at] /\ conns' = [conns EXCEPT ![c] = conns'[c]]
    BY <1>3 DEF Http!To, HttpInv, HttpTyped
  <2>2. Moved(c)
    BY <2>1, ConnFacts DEF Moved, HttpConn
  <2>3. /\ conns'[c].at = at /\ conns'[c].held = conns[c].held /\ conns'[c].ctx = conns[c].ctx
        /\ conns'[c].effect = conns[c].effect /\ conns'[c].stale = conns[c].stale
        /\ conns'[c].req = conns[c].req /\ conns'[c].open = conns[c].open
    BY <2>1, ConnFacts DEF HttpConn
  <2>4. Balanced(c)
    BY <1>1, <1>3, <2>3, ConnFacts, HttpAssumption DEF Balanced, One
  <2>5. HeldOK(conns[c])' /\ conns'[c].stale = 0
    BY <1>1, <1>3, <2>3, ConnFacts DEF HeldOK
  <2>6. ContextOK(conns[c])'
    BY <1>1, <1>3, <2>3, ConnFacts DEF ContextOK, Http!ConfigUnchanged
  <2>7. RoleOK(conns[c])'
    BY <1>1, <1>3, <2>3, ConnFacts DEF RoleOK, ContextOK
  <2> QED
    BY <1>1, <2>2, <2>4, <2>5, <2>6, <2>7, QuietStep
<1>4. CASE Http!EndAuth(c)
  <2>1. Http!To(c, "reply") /\ workers' = workers - 1 /\ conns[c].at = "auth"
    BY <1>4 DEF Http!EndAuth
  <2> QED
    BY <2>1, <1>3
<1>5. CASE Http!StartAuth(c)
  <2>1. \/ Http!To(c, "reply") /\ UNCHANGED workers
        \/ Http!To(c, "auth") /\ workers' = workers + 1 /\ workers < AuthWorkers
    BY <1>5 DEF Http!StartAuth
  <2>2. conns[c].at = "resolve"
    BY <1>5 DEF Http!StartAuth
  <2> QED
    BY <1>2, <1>3, <2>1, <2>2
<1> QED
  BY <1>4, <1>5

\* What a credential is worth is one of the contexts, and says what it rests on.
LEMMA ContextFacts ==
  ASSUME HttpInv, NEW q \in HttpAsk
  PROVE  /\ Http!ContextOf(q) \in HttpContext \ {"none"}
         /\ Http!ContextOf(q) = "user" => authOn
         /\ Http!ContextOf(q) \in {"secret", "publishable"} => keysOn
         /\ Http!ContextOf(q) = "studio" =>
              q.cred.kind = "studio" /\ q.cred.id <= issuedStudio /\ q.origin \in Http!Trusted
<1>1. valid \subseteq {"secret", "publishable", "user"} /\ StudioInv
  BY DEF HttpInv, HttpTyped
<1>2. Http!StudioAuthorized(q) =>
        q.cred.kind = "studio" /\ q.cred.id <= issuedStudio /\ q.origin \in Http!Trusted
  BY <1>1 DEF Http!StudioAuthorized, Http!Live, StudioInv
<1>3. Http!ContextOf(q) \in HttpContext \ {"none"}
  BY <1>1 DEF Http!ContextOf, HttpContext, Http!Full
<1>4. Http!ContextOf(q) = "user" => authOn
  BY <1>1 DEF Http!ContextOf
<1>5. Http!ContextOf(q) \in {"secret", "publishable"} => keysOn
  BY <1>1 DEF Http!ContextOf, StudioInv
<1>6. Http!ContextOf(q) = "studio" => Http!StudioAuthorized(q)
  BY <1>1 DEF Http!ContextOf
<1> QED
  BY <1>2, <1>3, <1>4, <1>5, <1>6

LEMMA ResolveKeeps ==
  ASSUME HttpInv, NEW c \in Conn, Http!Resolve(c)
  PROVE  HttpInv'
<1> DEFINE who == Http!ContextOf(conns[c].req)
           at == IF who = "error" THEN "reply" ELSE "gate"
<1>1. /\ conns[c].at = "resolve" /\ Http!ConfigUnchanged
      /\ UNCHANGED <<permits, bytes, workers, sessions, issuedStudio>>
      /\ conns' = [conns EXCEPT ![c] = conns'[c]]
      /\ conns'[c] = [conns[c] EXCEPT !.ctx = who, !.at = at]
  BY DEF Http!Resolve, HttpInv, HttpTyped
<1>2. /\ who \in HttpContext \ {"none"}
      /\ who = "user" => authOn
      /\ who \in {"secret", "publishable"} => keysOn
      /\ who = "studio" => /\ conns[c].req.cred.kind = "studio" /\ conns[c].req.origin \in Http!Trusted
                           /\ conns[c].req.cred.id <= issuedStudio
  BY ContextFacts, ConnFacts
<1>3. at \in {"reply", "gate"}
  OBVIOUS
<1> HIDE DEF who, at
<1>4. conns[c] \in HttpConn
  BY ConnFacts
<1>5. /\ conns'[c].at = at /\ conns'[c].ctx = who /\ conns'[c].held = conns[c].held
      /\ conns'[c].effect = conns[c].effect /\ conns'[c].stale = conns[c].stale
      /\ conns'[c].req = conns[c].req /\ conns'[c].open = conns[c].open
  BY <1>1, <1>4 DEF HttpConn
<1>6. Moved(c)
  <2>1. [conns[c] EXCEPT !.ctx = who, !.at = at] \in HttpConn
    BY <1>2, <1>3, <1>4 DEF HttpConn
  <2> QED
    BY <1>1, <2>1 DEF Moved
<1>7. Balanced(c)
  BY <1>1, <1>3, <1>5, ConnFacts, HttpAssumption DEF Balanced, One
<1>8. HeldOK(conns[c])' /\ conns'[c].stale = 0
  BY <1>1, <1>3, <1>5, ConnFacts DEF HeldOK
<1>9. ContextOK(conns[c])'
  BY <1>1, <1>2, <1>3, <1>5, ConnFacts DEF ContextOK, Http!ConfigUnchanged, Http!Trusted
<1>10. RoleOK(conns[c])'
  BY <1>1, <1>3, <1>5, ConnFacts DEF RoleOK, ContextOK
<1> QED
  BY <1>1, <1>6, <1>7, <1>8, <1>9, <1>10, QuietStep

LEMMA GateKeeps ==
  ASSUME HttpInv, NEW c \in Conn, Http!Gate(c)
  PROVE  HttpInv'
<1> DEFINE at == IF Http!Permitted(c) THEN "serve" ELSE "reply"
           free == ~Http!Gated
<1>1. /\ conns[c].at = "gate" /\ Http!ConfigUnchanged
      /\ UNCHANGED <<permits, bytes, workers, sessions, issuedStudio>>
      /\ conns' = [conns EXCEPT ![c] = conns'[c]]
      /\ conns'[c] = [conns[c] EXCEPT !.at = at, !.open = free]
  BY DEF Http!Gate, HttpInv, HttpTyped
<1>2. /\ at \in {"serve", "reply"}
      /\ at = "serve" => ~Http!Gated \/ conns[c].ctx \in Http!Full \cup {"user"}
      /\ free \in BOOLEAN /\ (free <=> ~Http!Gated)
  BY DEF Http!Permitted
<1> HIDE DEF at, free
<1>3. conns[c] \in HttpConn
  BY ConnFacts
<1>4. /\ conns'[c].at = at /\ conns'[c].ctx = conns[c].ctx /\ conns'[c].held = conns[c].held
      /\ conns'[c].effect = conns[c].effect /\ conns'[c].stale = conns[c].stale
      /\ conns'[c].req = conns[c].req /\ conns'[c].open = free
  BY <1>1, <1>3 DEF HttpConn
<1>5. Moved(c)
  <2>1. [conns[c] EXCEPT !.at = at, !.open = free] \in HttpConn
    BY <1>2, <1>3 DEF HttpConn
  <2> QED
    BY <1>1, <2>1 DEF Moved
<1>6. Balanced(c)
  BY <1>1, <1>2, <1>4, ConnFacts, HttpAssumption DEF Balanced, One
<1>7. HeldOK(conns[c])' /\ conns'[c].stale = 0
  BY <1>1, <1>2, <1>4, ConnFacts DEF HeldOK
<1>8. ContextOK(conns[c])'
  BY <1>1, <1>2, <1>4, ConnFacts DEF ContextOK, Http!ConfigUnchanged, Http!Trusted
<1>9. RoleOK(conns[c])'
  <2>1. Http!Gated' <=> Http!Gated
    BY <1>1 DEF Http!Gated, Http!ConfigUnchanged
  <2>2. conns[c].effect = "none"
    BY <1>1, ConnFacts DEF ContextOK
  <2> QED
    BY <1>2, <1>4, <2>1, <2>2 DEF RoleOK
<1> QED
  BY <1>1, <1>5, <1>6, <1>7, <1>8, <1>9, QuietStep

\* The request is answered, having had an effect its context allows.
LEMMA ServeKeeps ==
  ASSUME HttpInv, NEW c \in Conn, Http!Serve(c)
  PROVE  HttpInv'
<1> DEFINE e == Http!EffectOf(conns[c].req.route, conns[c].ctx)
<1>1. /\ conns[c].at = "serve" /\ Http!ConfigUnchanged
      /\ UNCHANGED <<permits, bytes, workers, sessions, issuedStudio>>
      /\ conns' = [conns EXCEPT ![c] = conns'[c]]
      /\ conns'[c] = [conns[c] EXCEPT !.at = "reply", !.effect = e]
  BY DEF Http!Serve, HttpInv, HttpTyped
<1>2. /\ conns[c].open \/ Http!Gated
      /\ conns[c].open \/ conns[c].ctx \in Http!Full \cup {"user"}
      /\ conns[c].ctx = "user" => authOn
  BY <1>1, ConnFacts DEF RoleOK, ContextOK
<1>3. /\ e \in {"none", "all", "granted", "project", "backup"}
      /\ e \in {"all", "project", "backup"} => conns[c].ctx \in Http!Full \/ conns[c].open
      /\ e = "granted" => conns[c].ctx = "user"
  BY <1>2 DEF Http!EffectOf, Http!RowsEffect, Http!BackupEffect, Http!ProjectEffect, Http!Full
<1> HIDE DEF e
<1>4. conns[c] \in HttpConn
  BY ConnFacts
<1>5. /\ conns'[c].at = "reply" /\ conns'[c].ctx = conns[c].ctx /\ conns'[c].held = conns[c].held
      /\ conns'[c].effect = e /\ conns'[c].stale = conns[c].stale
      /\ conns'[c].req = conns[c].req /\ conns'[c].open = conns[c].open
  BY <1>1, <1>4 DEF HttpConn
<1>6. Moved(c)
  <2>1. [conns[c] EXCEPT !.at = "reply", !.effect = e] \in HttpConn
    BY <1>3, <1>4 DEF HttpConn
  <2> QED
    BY <1>1, <2>1 DEF Moved
<1>7. Balanced(c)
  BY <1>1, <1>5, ConnFacts, HttpAssumption DEF Balanced, One
<1>8. HeldOK(conns[c])' /\ conns'[c].stale = 0
  BY <1>1, <1>5, ConnFacts DEF HeldOK
<1>9. ContextOK(conns[c])'
  BY <1>1, <1>5, ConnFacts DEF ContextOK, Http!ConfigUnchanged, Http!Trusted
<1>10. RoleOK(conns[c])'
  BY <1>3, <1>5 DEF RoleOK
<1> QED
  BY <1>1, <1>6, <1>7, <1>8, <1>9, <1>10, QuietStep

\* The socket goes live, its bytes given back.
LEMMA UpgradeKeeps ==
  ASSUME HttpInv, NEW c \in Conn, Http!Upgrade(c)
  PROVE  HttpInv'
<1>1. /\ conns[c].at = "serve" /\ Http!ConfigUnchanged
      /\ UNCHANGED <<permits, workers, sessions, issuedStudio>> /\ bytes' = bytes - conns[c].held
      /\ conns' = [conns EXCEPT ![c] = conns'[c]]
      /\ conns'[c] = [conns[c] EXCEPT !.at = "live", !.held = 0]
  BY DEF Http!Upgrade, Http!Released, HttpInv, HttpTyped
<1>2. conns[c] \in HttpConn
  BY ConnFacts
<1>3. /\ conns'[c].at = "live" /\ conns'[c].ctx = conns[c].ctx /\ conns'[c].held = 0
      /\ conns'[c].effect = conns[c].effect /\ conns'[c].stale = conns[c].stale
      /\ conns'[c].req = conns[c].req /\ conns'[c].open = conns[c].open
  BY <1>1, <1>2 DEF HttpConn
<1>4. Moved(c)
  <2>1. [conns[c] EXCEPT !.at = "live", !.held = 0] \in HttpConn
    BY <1>2 DEF HttpConn
  <2> QED
    BY <1>1, <2>1 DEF Moved
<1>5. Balanced(c)
  BY <1>1, <1>3, ConnFacts, HttpAssumption DEF Balanced, One
<1>6. HeldOK(conns[c])' /\ conns'[c].stale = 0
  BY <1>1, <1>3, ConnFacts, HttpAssumption DEF HeldOK
<1>7. ContextOK(conns[c])'
  BY <1>1, <1>3, ConnFacts DEF ContextOK, Http!ConfigUnchanged, Http!Trusted
<1>8. RoleOK(conns[c])'
  BY <1>1, <1>3, ConnFacts DEF RoleOK, Http!ConfigUnchanged, Http!Full
<1> QED
  BY <1>1, <1>4, <1>5, <1>6, <1>7, <1>8, QuietStep

LEMMA ReplyKeeps ==
  ASSUME HttpInv, NEW c \in Conn, Http!Reply(c)
  PROVE  HttpInv'
  BY CloseKeeps, KeepAliveKeeps DEF Http!Reply

\* The look at a live socket's credential: a socket it passes is not void, so it was not
\* found void by a tick.
LEMMA CheckLiveKeeps ==
  ASSUME HttpInv, NEW c \in Conn, Http!CheckLive(c)
  PROVE  HttpInv'
<1>1. /\ conns[c].at = "live" /\ Http!ConfigUnchanged
      /\ UNCHANGED <<workers, sessions, issuedStudio>>
  BY DEF Http!CheckLive
<1>2. CASE ~Http!StillValid(conns[c].req, conns[c].ctx)
  BY <1>1, <1>2, CloseKeeps DEF Http!CheckLive
<1>3. CASE Http!StillValid(conns[c].req, conns[c].ctx)
  <2>1. /\ UNCHANGED <<permits, bytes>> /\ conns' = [conns EXCEPT ![c] = conns'[c]]
        /\ conns'[c] = [conns[c] EXCEPT !.checked = TRUE]
    BY <1>3 DEF Http!CheckLive, HttpInv, HttpTyped
  <2>2. conns[c].stale = 0
    BY <1>3 DEF Http!StillValid, HttpInv, StaleOK, Http!Void
  <2>3. conns[c] \in HttpConn
    BY ConnFacts
  <2>4. /\ conns'[c].at = "live" /\ conns'[c].ctx = conns[c].ctx /\ conns'[c].held = conns[c].held
        /\ conns'[c].effect = conns[c].effect /\ conns'[c].stale = conns[c].stale
        /\ conns'[c].req = conns[c].req /\ conns'[c].open = conns[c].open
    BY <1>1, <2>1, <2>3 DEF HttpConn
  <2>5. Moved(c)
    <3>1. [conns[c] EXCEPT !.checked = TRUE] \in HttpConn
      BY <2>3 DEF HttpConn
    <3> QED
      BY <2>1, <3>1 DEF Moved
  <2>6. Balanced(c)
    BY <1>1, <2>1, <2>4, ConnFacts, HttpAssumption DEF Balanced, One
  <2>7. HeldOK(conns[c])' /\ conns'[c].stale = 0
    BY <1>1, <2>2, <2>4, ConnFacts DEF HeldOK
  <2>8. ContextOK(conns[c])'
    BY <1>1, <2>4, ConnFacts DEF ContextOK, Http!ConfigUnchanged, Http!Trusted
  <2>9. RoleOK(conns[c])'
    BY <1>1, <2>4, ConnFacts DEF RoleOK, Http!Full
  <2> QED
    BY <1>1, <2>5, <2>6, <2>7, <2>8, <2>9, QuietStep
<1> QED
  BY <1>2, <1>3


\* StudioSessions::issue: the session of the origin is replaced, and there is room.
LEMMA StudioIssueKeeps ==
  ASSUME HttpInv, NEW c \in Conn, Http!Issue(c)
  PROVE  HttpInv'
<1> DEFINE k == conns[c]
           kept == {s \in Http!Live(sessions) : s.origin # k.req.origin}
           oldest == CHOOSE s \in kept : \A t \in kept : s.exp <= t.exp
           room == IF Http!Cardinality(kept) >= MaxStudio THEN kept \ {oldest} ELSE kept
           new == [id |-> issuedStudio + 1, origin |-> k.req.origin, exp |-> httpClock + SessionTtl]
<1>1. /\ k.at = "serve" /\ Http!ConfigUnchanged /\ UNCHANGED <<permits, bytes, workers>>
      /\ issuedStudio < MaxIssued
  BY DEF Http!Issue
<1>2. CASE ~(k.ctx = "operator" /\ k.req.origin \in Http!Trusted)
  <2>1. Http!To(c, "reply") /\ UNCHANGED <<sessions, issuedStudio>>
    BY <1>2 DEF Http!Issue
  <2> QED
    BY <1>1, <2>1, GoesOn
<1>3. CASE k.ctx = "operator" /\ k.req.origin \in Http!Trusted
  <2>1. /\ sessions' = room \cup {new} /\ issuedStudio' = issuedStudio + 1
        /\ conns' = [conns EXCEPT ![c] = conns'[c]]
        /\ conns'[c] = [conns[c] EXCEPT !.at = "reply", !.effect = "session"]
    BY <1>3 DEF Http!Issue, HttpInv, HttpTyped
  <2>2. /\ sessions \subseteq StudioSession /\ issuedStudio \in Nat /\ httpClock \in Nat
        /\ issuedStudio + 1 \in 0..MaxIssued
    BY <1>1, HttpAssumption DEF HttpInv, HttpTyped
  <2>3. new \in StudioSession
    BY <1>3, <2>2, HttpAssumption DEF StudioSession
  <2>4. kept \subseteq sessions /\ room \subseteq kept
    BY DEF Http!Live
  <2>5. \A s, t \in kept : s = t
    BY <1>3, <2>2, <2>4 DEF HttpInv, StudioInv, StudioSession, Http!Trusted
  <2>6. room = {} \/ (1 < MaxStudio /\ \E s \in kept : room = {s})
    <3>1. CASE kept = {}
      BY <2>4, <3>1
    <3>2. CASE kept # {}
      <4>1. PICK s \in kept : kept = {s}
        BY <3>2, <2>5
      <4>2. Cardinality(kept) = 1
        BY <4>1, FS_Singleton
      <4>3. s.exp \in Nat
        BY <2>2, <2>4 DEF StudioSession
      <4>4. oldest = s
        <5>1. \A t \in kept : s.exp <= t.exp
          BY <4>1, <4>3
        <5>2. oldest \in kept
          BY <5>1
        <5> HIDE DEF kept, oldest
        <5> QED
          BY <4>1, <5>2
      <4>5. Http!Cardinality(kept) = Cardinality(kept)
        BY DEF Cardinality, Http!Cardinality
      <4> HIDE DEF kept, oldest
      <4>6. CASE MaxStudio = 1
        BY <4>1, <4>2, <4>4, <4>5, <4>6
      <4>7. CASE MaxStudio # 1
        <5>1. ~(Http!Cardinality(kept) >= MaxStudio) /\ 1 < MaxStudio
          BY <4>2, <4>5, <4>7, HttpAssumption
        <5> QED
          BY <4>1, <5>1
      <4> QED
        BY <4>6, <4>7
    <3> QED
      BY <3>1, <3>2
  <2> HIDE DEF room
  <2>7. \A s \in room : s \in sessions /\ s.origin # new.origin
    BY <2>4
  <2> HIDE DEF kept
  <2>8. Cardinality(sessions') <= MaxStudio
    <3>1. IsFiniteSet(room) /\ (Cardinality(room) = 0 \/ (Cardinality(room) = 1 /\ 1 < MaxStudio))
      <4>1. CASE room = {}
        BY <4>1, FS_EmptySet
      <4>2. CASE room # {}
        <5>1. 1 < MaxStudio /\ \E s : room = {s}
          BY <2>6, <4>2
        <5> QED
          BY <5>1, FS_Singleton
      <4> QED
        BY <4>1, <4>2
    <3> HIDE DEF new
    <3>2. Cardinality(sessions') <= Cardinality(room) + 1
      BY <2>1, <3>1, FS_AddElement
    <3>3. Cardinality(sessions') \in Nat
      BY <2>1, <3>1, FS_AddElement, FS_CardinalityType
    <3> QED
      BY <3>1, <3>2, <3>3, HttpAssumption
  <2>9. sessions' \subseteq StudioSession /\ issuedStudio' \in 0..MaxIssued
        /\ issuedStudio <= issuedStudio'
    BY <2>1, <2>2, <2>3, <2>7
  <2>10. \A s \in sessions' : s \in sessions \/ issuedStudio < s.id
    BY <2>1, <2>2, <2>7
  <2>11. StudioInv'
    <3>1. \A s \in sessions' : s.id <= issuedStudio'
      <4>1. \A s \in sessions : s.id <= issuedStudio /\ s.id \in Nat
        BY <2>2 DEF HttpInv, StudioInv, StudioSession
      <4> QED
        BY <4>1, <2>1, <2>2, <2>7
    <3>2. \A s, t \in sessions' : s.origin = t.origin => s = t
      BY <2>1, <2>7 DEF HttpInv, StudioInv
    <3> QED
      BY <3>1, <3>2, <2>8, <1>1 DEF HttpInv, StudioInv, Http!ConfigUnchanged
  <2>12. conns[c] \in HttpConn
    BY ConnFacts
  <2>13. /\ conns'[c].at = "reply" /\ conns'[c].ctx = conns[c].ctx /\ conns'[c].held = conns[c].held
         /\ conns'[c].effect = "session" /\ conns'[c].stale = conns[c].stale
         /\ conns'[c].req = conns[c].req /\ conns'[c].open = conns[c].open
    BY <2>1, <2>12 DEF HttpConn
  <2>14. Moved(c)
    <3>1. [conns[c] EXCEPT !.at = "reply", !.effect = "session"] \in HttpConn
      BY <2>12 DEF HttpConn
    <3> QED
      BY <2>1, <3>1 DEF Moved
  <2>15. Balanced(c)
    BY <1>1, <2>13, ConnFacts, HttpAssumption DEF Balanced, One
  <2>16. HeldOK(conns[c])' /\ conns'[c].stale = 0
    BY <1>1, <2>13, ConnFacts DEF HeldOK
  <2>17. ContextOK(conns[c])' /\ RoleOK(conns[c])'
    BY <1>3, <2>13 DEF ContextOK, RoleOK
  <2> QED
    BY <1>1, <2>9, <2>10, <2>11, <2>14, <2>15, <2>16, <2>17, ConnStep
<1> QED
  BY <1>2, <1>3

-----------------------------------------------------------------------------
(* The rest of the engine                                                  *)

\* A second passes, in which every live socket was looked at: only sockets that were
\* found valid, and so had not been found void before, are still there.
LEMMA TickKeeps ==
  ASSUME HttpInv, Http!HttpTick
  PROVE  HttpInv'
<1> DEFINE stale(c) == IF Http!Void(c) THEN conns[c].stale + 1 ELSE 0
<1>0. conns' = [c \in Conn |-> [conns[c] EXCEPT !.checked = FALSE, !.stale = stale(c)]]
  BY DEF Http!HttpTick
<1> HIDE DEF stale
<1>1. /\ httpClock' = httpClock + 1 /\ httpClock' \in 0..MaxHttpClock /\ httpClock \in Nat
      /\ \A c \in Conn : conns[c].at = "live" => conns[c].checked
      /\ UNCHANGED <<permits, bytes, workers, password, authOn, sessions, issuedStudio, keysOn, valid>>
  <2>1. httpClock \in 0..MaxHttpClock /\ httpClock < MaxHttpClock /\ httpClock' = httpClock + 1
    BY DEF Http!HttpTick, HttpInv, HttpTyped
  <2>2. httpClock' \in 0..MaxHttpClock /\ httpClock \in Nat
    BY <2>1, HttpAssumption
  <2> QED
    BY <2>1, <2>2 DEF Http!HttpTick, Http!Outside
<1>2. ASSUME NEW c \in Conn
      PROVE  /\ conns'[c] \in HttpConn /\ conns'[c].at = conns[c].at /\ conns'[c].req = conns[c].req
             /\ conns'[c].ctx = conns[c].ctx /\ conns'[c].held = conns[c].held
             /\ conns'[c].open = conns[c].open /\ conns'[c].effect = conns[c].effect
             /\ conns'[c].checked = FALSE
             /\ conns'[c].stale = stale(c)
  <2>1. conns[c] \in HttpConn /\ conns[c].stale \in Nat
    BY ConnFacts DEF HttpConn
  <2> DEFINE n == stale(c)
  <2>2. conns'[c] = [conns[c] EXCEPT !.checked = FALSE, !.stale = n] /\ n \in Nat
    <3>1. n \in Nat
      BY <2>1 DEF stale
    <3> QED
      BY <1>0, <3>1
  <2> HIDE DEF n
  <2>3. [conns[c] EXCEPT !.checked = FALSE, !.stale = n] \in HttpConn
    BY <2>1, <2>2 DEF HttpConn
  <2>4. /\ conns'[c].at = conns[c].at /\ conns'[c].req = conns[c].req
        /\ conns'[c].ctx = conns[c].ctx /\ conns'[c].held = conns[c].held
        /\ conns'[c].open = conns[c].open /\ conns'[c].effect = conns[c].effect
        /\ conns'[c].checked = FALSE /\ conns'[c].stale = n
    BY <2>1, <2>2 DEF HttpConn
  <2> QED
    BY <2>2, <2>3, <2>4 DEF n
<1>3. HttpTyped'
  <2>1. conns' \in [Conn -> HttpConn]
    BY <1>0, <1>2
  <2> QED
    BY <1>1, <2>1 DEF HttpInv, HttpTyped
<1>4. CountInv'
  <2>1. Occupied' = Occupied /\ Hashing' = Hashing
    BY <1>2 DEF Occupied, Hashing
  <2> QED
    BY <1>1, <2>1 DEF HttpInv, CountInv
<1>5. BytesInv'
  <2>1. \A c \in Conn : conns[c].held \in Nat /\ conns'[c].held = conns[c].held
    BY <1>2, ConnFacts
  <2>2. Charged(conns') = Charged(conns)
    BY <2>1, ChargeSame
  <2> QED
    BY <1>1, <2>2 DEF HttpInv, BytesInv
<1>6. StudioInv'
  BY <1>1 DEF HttpInv, StudioInv
<1>7. ASSUME NEW c \in Conn
      PROVE  HeldOK(conns[c])' /\ ContextOK(conns[c])' /\ RoleOK(conns[c])' /\ StaleOK(c)'
  <2>1. HeldOK(conns[c])'
    BY <1>2, ConnFacts DEF HeldOK
  <2>2. ContextOK(conns[c])'
    <3>1. ContextOK(conns[c])
      BY ConnFacts
    <3>2. authOn' = authOn /\ keysOn' = keysOn /\ issuedStudio' = issuedStudio
      BY <1>1
    <3> QED
      BY <1>2, <3>1, <3>2 DEF ContextOK, Http!Trusted
  <2>3. RoleOK(conns[c])'
    BY <1>1, <1>2, ConnFacts DEF RoleOK, Http!Full, Http!Gated
  <2>4. CASE ~Http!Void(c)
    BY <1>2, <2>1, <2>2, <2>3, <2>4 DEF StaleOK, stale
  <2>5. CASE Http!Void(c)
    <3>1. conns[c].at = "live" /\ conns[c].checked
      BY <1>1, <2>5 DEF Http!Void
    <3>2. conns[c].stale = 0
      BY <3>1 DEF HttpInv, StaleOK
    <3>3. httpClock' \in Nat /\ httpClock <= httpClock' /\ httpClock' # 0
      BY <1>1
    <3>4. sessions' \subseteq StudioSession /\ \A s \in sessions' : s \in sessions
      BY <1>1 DEF HttpInv, HttpTyped
    <3>5. Http!Void(c)'
      BY <1>1, <1>2, <2>5, <3>3, <3>4, VoidStays
    <3> QED
      <4>1. stale(c) = 1
        BY <2>5, <3>2 DEF stale
      <4>2. StaleOK(c)'
        BY <1>2, <3>3, <3>5, <4>1 DEF StaleOK
      <4> QED
        BY <2>1, <2>2, <2>3, <4>2
  <2> QED
    BY <2>4, <2>5
<1> QED
  BY <1>3, <1>4, <1>5, <1>6, <1>7 DEF HttpInv

\* Keys are created, somebody signs in, a credential is revoked, the shutdown begins.
LEMMA EngineKeeps ==
  ASSUME HttpInv, Http!CreateKeys \/ Http!SignIn \/ (\E cr \in valid : Http!RevokeCredential(cr))
                  \/ Http!Shutdown
  PROVE  HttpInv'
<1>1. /\ UNCHANGED <<conns, permits, bytes, workers, password, authOn, sessions, issuedStudio, httpClock>>
      /\ keysOn' \in BOOLEAN /\ (keysOn => keysOn')
      /\ valid' \subseteq {"secret", "publishable", "user"}
      /\ \A cr \in valid' : cr \in valid \/ (cr = "user" /\ httpClock = 0 /\ authOn)
                                       \/ (cr \in {"secret", "publishable"} /\ ~keysOn /\ keysOn')
  BY DEF Http!CreateKeys, Http!SignIn, Http!RevokeCredential, Http!Shutdown, Http!Outside,
         HttpInv, HttpTyped
<1>2. HttpTyped' /\ issuedStudio \in Nat /\ httpClock \in Nat
  BY <1>1, HttpAssumption DEF HttpInv, HttpTyped
<1>3. CountInv' /\ BytesInv'
  <2>1. Occupied' = Occupied /\ Hashing' = Hashing
    BY <1>1 DEF Occupied, Hashing
  <2> QED
    BY <1>1, <2>1 DEF HttpInv, CountInv, BytesInv
<1>4. StudioInv'
  BY <1>1 DEF HttpInv, StudioInv
<1>5. ASSUME NEW c \in Conn
      PROVE  HeldOK(conns[c])' /\ ContextOK(conns[c])' /\ RoleOK(conns[c])' /\ StaleOK(c)'
  <2>1. HeldOK(conns[c])' /\ ContextOK(conns[c])' /\ RoleOK(conns[c])'
    BY <1>1, <1>2, OthersKept
  <2>2. CASE conns[c].stale = 0
    BY <1>1, <2>1, <2>2 DEF StaleOK
  <2>3. CASE conns[c].stale # 0
    <3>1. conns[c].stale = 1 /\ ~conns[c].checked /\ httpClock # 0 /\ Http!Void(c)
      BY <2>3 DEF HttpInv, StaleOK
    <3>2. conns[c].ctx = "secret" => keysOn
      BY ConnFacts DEF ContextOK
    <3>3. \A cr \in {"user", "secret"} : conns[c].ctx = cr /\ cr \in valid' => cr \in valid
      BY <1>1, <3>1, <3>2
    <3>4. sessions' \subseteq StudioSession /\ \A s \in sessions' : s \in sessions
      BY <1>1 DEF HttpInv, HttpTyped
    <3>5. Http!Void(c)'
      BY <1>1, <1>2, <3>1, <3>3, <3>4, VoidStays
    <3> QED
      BY <1>1, <2>1, <3>1, <3>5 DEF StaleOK
  <2> QED
    BY <2>2, <2>3
<1> QED
  BY <1>2, <1>3, <1>4, <1>5 DEF HttpInv

-----------------------------------------------------------------------------
(* HTTP: the theorems                                                      *)

LEMMA HttpStarts ==
  ASSUME Http!HttpInit
  PROVE  HttpInv
<1>1. /\ conns = [c \in Conn |-> Http!NoConn] /\ permits = 0 /\ bytes = 0 /\ workers = 0
      /\ password \in BOOLEAN /\ authOn \in BOOLEAN /\ keysOn = FALSE /\ valid = {}
      /\ sessions = {} /\ issuedStudio = 0 /\ httpClock = 0
  BY DEF Http!HttpInit
<1>2. HttpTyped
  <2>1. conns \in [Conn -> HttpConn]
    BY <1>1, FreshConn
  <2> QED
    <3>1. 0 \in 0..MaxIssued /\ 0 \in 0..MaxHttpClock /\ 0 \in Nat
      BY HttpAssumption
    <3> QED
      BY <1>1, <2>1, <3>1 DEF HttpTyped
<1>3. CountInv
  <2>1. Occupied = {} /\ Hashing = {}
    BY <1>1 DEF Occupied, Hashing, Http!NoConn
  <2> QED
    BY <1>1, <2>1, FS_EmptySet, HttpAssumption DEF CountInv
<1>4. BytesInv
  <2>1. PICK F : SumsOver([c \in Conn |-> conns[c].held], Conn, F) /\ Charged(conns) = F[Conn]
    BY ChargedIsSum
  <2> DEFINE h == [c \in Conn |-> conns[c].held]
  <2>2. \A c \in Conn : h[c] = 0
    BY <1>1 DEF Http!NoConn
  <2> HIDE DEF h
  <2>3. SumsOver(h, Conn, F)
    BY <2>1 DEF h
  <2>4. F[Conn] = 0
    BY <2>2, <2>3, HttpAssumption, SumOfZeros
  <2> QED
    BY <1>1, <2>1, <2>4, HttpAssumption DEF BytesInv
<1>5. StudioInv
  BY <1>1, FS_EmptySet, HttpAssumption DEF StudioInv
<1>6. ASSUME NEW c \in Conn
      PROVE  HeldOK(conns[c]) /\ ContextOK(conns[c]) /\ RoleOK(conns[c]) /\ StaleOK(c)
  BY <1>1, HttpAssumption DEF HeldOK, ContextOK, RoleOK, StaleOK, Http!NoConn, Http!Full
<1> QED
  BY <1>2, <1>3, <1>4, <1>5, <1>6 DEF HttpInv

LEMMA HttpStep ==
  ASSUME HttpInv, Http!HttpNext
  PROVE  HttpInv'
<1>1. ASSUME NEW c \in Conn, Http!ConnNext(c) PROVE HttpInv'
  BY <1>1, AcceptKeeps, ReadHeadKeeps, AbandonKeeps, AdmitKeeps, ReadBodyKeeps, AuthKeeps,
     ResolveKeeps, GateKeeps, ServeKeeps, StudioIssueKeeps, UpgradeKeeps, ReplyKeeps, CheckLiveKeeps
  DEF Http!ConnNext
<1> QED
  BY <1>1, TickKeeps, EngineKeeps DEF Http!HttpNext

\* The inductive invariant of the HTTP gateway.
THEOREM HttpInvariant == AccessSpec => [](part = "http" => HttpInv)
<1>1. AccessInit => (part = "http" => HttpInv)
  BY HttpStarts DEF AccessInit
<1>2. (part = "http" => HttpInv) /\ [AccessNext]_accessVars => (part = "http" => HttpInv)'
  <2>1. SUFFICES ASSUME part = "http" => HttpInv, [AccessNext]_accessVars, part' = "http"
                 PROVE  HttpInv'
    OBVIOUS
  <2>2. CASE part = "http" /\ Http!HttpNext
    BY <2>1, <2>2, HttpStep
  <2>3. CASE part = "http" /\ UNCHANGED httpVars
    <3>1. HttpInv
      BY <2>1, <2>3
    <3>2. UNCHANGED <<conns, permits, bytes, workers, password, authOn, keysOn, valid, sessions,
                      issuedStudio, httpClock>>
      BY <2>3 DEF httpVars
    <3>3. HttpTyped' /\ StudioInv' /\ CountInv' /\ BytesInv'
      BY <3>1, <3>2 DEF HttpInv, HttpTyped, StudioInv, CountInv, BytesInv, Occupied, Hashing
    <3>4. ASSUME NEW c \in Conn
          PROVE  HeldOK(conns[c])' /\ ContextOK(conns[c])' /\ RoleOK(conns[c])' /\ StaleOK(c)'
      BY <3>1, <3>2 DEF HttpInv, HeldOK, ContextOK, RoleOK, StaleOK, Http!Void,
         Http!StudioAuthorized, Http!Live, Http!Gated, Http!Trusted, Http!Full
    <3> QED
      BY <3>3, <3>4 DEF HttpInv
  <2> QED
    BY <2>1, <2>2, <2>3 DEF AccessNext, accessVars
<1> QED
  BY <1>1, <1>2, PTL DEF AccessSpec

\* The HTTP gateway (http.rs): permits, request bytes and workers are what the connections
\* hold, nobody is served beyond the role of the credential, and a live socket outlives
\* its credential by at most a second.
THEOREM HttpAlwaysSound == AccessSpec => []HttpSound
<1>1. (part = "http" => HttpInv) => HttpSound
  <2>1. SUFFICES ASSUME part = "http", HttpInv
                 PROVE  Http!LimitsExact /\ Http!ServedWithinRole /\ Http!RevocationReachesSockets
    BY DEF HttpSound
  <2>2. Http!LimitsExact
    BY <2>1, LimitsAre DEF HttpInv, BytesInv, HeldOK
  <2>3. Http!ServedWithinRole
    BY <2>1 DEF HttpInv, RoleOK, Http!ServedWithinRole
  <2>4. Http!RevocationReachesSockets
    <3>1. \A c \in Conn : conns[c].stale <= 1
      BY <2>1 DEF HttpInv, StaleOK
    <3>2. Http!Cardinality(sessions) = Cardinality(sessions)
      BY DEF Cardinality, Http!Cardinality
    <3> QED
      BY <2>1, <3>1, <3>2 DEF HttpInv, StudioInv, Http!RevocationReachesSockets
  <2> QED
    BY <2>2, <2>3, <2>4
<1> QED
  BY <1>1, HttpInvariant, PTL

-----------------------------------------------------------------------------
(* RESP sessions: the inductive invariant                                  *)

RespTopic == {"channel", "pattern", "key"}
RespPeer ==
  [at : {"closed", "idle", "run", "waiting"}, auth : BOOLEAN, secret : BOOLEAN, multi : BOOLEAN,
   bad : BOOLEAN, queue : Nat, watched : Seq(Nat), name : BOOLEAN, held : Nat,
   subs : SUBSET RespTopic, subMode : BOOLEAN, pend : Nat, todo : Seq(STRING),
   path : {"none", "submode", "one", "empty", "publish", "bypass", "shard", "each"},
   waits : BOOLEAN, quits : BOOLEAN, asked : Nat, told : Nat, cut : BOOLEAN]

RespTyped ==
  /\ peer \in [Peer -> RespPeer] /\ version \in Nat /\ readsLeft \in Nat
  /\ clients \in Nat /\ reqBytes \in Nat /\ subCount \in Nat /\ blocked \in Nat

\* A session: what is charged is what it keeps; what a read brought is still charged while
\* it is worked on, and every command of it has been answered, is still to do, or waits.
SessionOK(s) ==
  /\ s.held = s.queue + Len(s.watched) + IF s.name THEN 1 ELSE 0
  /\ s.queue <= MaxQueued
  /\ ~s.multi => s.queue = 0
  /\ s.at = "closed" => s.pend = 0 /\ s.held = 0 /\ s.subs = {}
  /\ s.at # "run" => s.asked = 0 /\ s.told = 0 /\ ~s.waits /\ ~s.cut /\ s.todo = <<>>
  /\ s.at = "run" => s.asked <= s.pend
  /\ s.at = "run" /\ ~s.cut => s.asked = s.told + Len(s.todo) + IF s.waits THEN 1 ELSE 0

Waiting == {p \in Peer : peer[p].at = "waiting"}
Connected == {p \in Peer : peer[p].at # "closed"}
Buffered(k) == Resp!MapThenSumSet(LAMBDA p : k[p].pend + k[p].held, Peer)
Subscribed(k) == Resp!MapThenSumSet(LAMBDA p : Resp!Cardinality(k[p].subs), Peer)
BudgetInv ==
  /\ reqBytes = Buffered(peer) /\ reqBytes <= RequestBytes
  /\ subCount = Subscribed(peer) /\ subCount <= SubCapacity
  /\ blocked = Cardinality(Waiting) /\ blocked <= MaxBlocked
  /\ clients = Cardinality(Connected) /\ clients <= MaxResp
  /\ topics = UNION {peer[p].subs : p \in Peer}

RespInv == RespTyped /\ BudgetInv /\ \A p \in Peer : SessionOK(peer[p])
-----------------------------------------------------------------------------
(* The budgets                                                             *)

LEMMA BufferedIsSum ==
  ASSUME NEW k
  PROVE  \E F : SumsOver([p \in Peer |-> k[p].pend + k[p].held], Peer, F) /\ Buffered(k) = F[Peer]
<1> DEFINE h == [p \in Peer |-> k[p].pend + k[p].held]
           Iter(F) == F = [s \in SUBSET Peer |->
                             IF s = {} THEN 0
                             ELSE (k[CHOOSE x \in s : TRUE].pend + k[CHOOSE x \in s : TRUE].held)
                                    + F[s \ {CHOOSE x \in s : TRUE}]]
           G == CHOOSE F : Iter(F)
<1>1. PICK F : SumsOver(h, Peer, F)
  BY RespAssumption, SumExists
<1>2. \A s \in SUBSET Peer : s # {} => AnyOf(s) \in s /\ h[AnyOf(s)] = k[AnyOf(s)].pend + k[AnyOf(s)].held
  BY DEF AnyOf
<1>3. Iter(F)
  <2>1. /\ F = [s \in SUBSET Peer |-> F[s]]
        /\ \A s \in SUBSET Peer : F[s] = IF s = {} THEN 0 ELSE h[AnyOf(s)] + F[s \ {AnyOf(s)}]
    BY <1>1 DEF SumsOver, SumsIn
  <2> HIDE DEF h
  <2>2. \A s \in SUBSET Peer :
          F[s] = IF s = {} THEN 0 ELSE (k[AnyOf(s)].pend + k[AnyOf(s)].held) + F[s \ {AnyOf(s)}]
    BY <1>2, <2>1
  <2>3. F = [s \in SUBSET Peer |->
               IF s = {} THEN 0 ELSE (k[AnyOf(s)].pend + k[AnyOf(s)].held) + F[s \ {AnyOf(s)}]]
    BY <2>1, <2>2
  <2> QED
    BY <2>3 DEF AnyOf
<1>4. Iter(G)
  BY <1>3
<1>5. SumsOver(h, Peer, G)
  <2>1. G = [s \in SUBSET Peer |->
               IF s = {} THEN 0 ELSE (k[AnyOf(s)].pend + k[AnyOf(s)].held) + G[s \ {AnyOf(s)}]]
    BY <1>4 DEF AnyOf
  <2> HIDE DEF G, h
  <2>2. G = [s \in SUBSET Peer |-> G[s]]
    BY <2>1
  <2>3. \A s \in SUBSET Peer :
          G[s] = IF s = {} THEN 0 ELSE (k[AnyOf(s)].pend + k[AnyOf(s)].held) + G[s \ {AnyOf(s)}]
    BY <2>1
  <2> QED
    BY <1>2, <2>2, <2>3 DEF SumsOver, SumsIn
<1>6. Buffered(k) = G[Peer]
  BY DEF Buffered, Resp!MapThenSumSet, Resp!MapThenFoldSet
<1> QED
  BY <1>5, <1>6

LEMMA SubscribedIsSum ==
  ASSUME NEW k
  PROVE  \E F : SumsOver([p \in Peer |-> Resp!Cardinality(k[p].subs)], Peer, F) /\ Subscribed(k) = F[Peer]
<1> DEFINE h == [p \in Peer |-> Resp!Cardinality(k[p].subs)]
           Iter(F) == F = [s \in SUBSET Peer |->
                             IF s = {} THEN 0
                             ELSE Resp!Cardinality(k[CHOOSE x \in s : TRUE].subs)
                                    + F[s \ {CHOOSE x \in s : TRUE}]]
           G == CHOOSE F : Iter(F)
<1>1. PICK F : SumsOver(h, Peer, F)
  BY RespAssumption, SumExists
<1>2. \A s \in SUBSET Peer : s # {} => AnyOf(s) \in s /\ h[AnyOf(s)] = Resp!Cardinality(k[AnyOf(s)].subs)
  BY DEF AnyOf
<1>3. Iter(F)
  <2>1. /\ F = [s \in SUBSET Peer |-> F[s]]
        /\ \A s \in SUBSET Peer : F[s] = IF s = {} THEN 0 ELSE h[AnyOf(s)] + F[s \ {AnyOf(s)}]
    BY <1>1 DEF SumsOver, SumsIn
  <2> HIDE DEF h
  <2>2. \A s \in SUBSET Peer :
          F[s] = IF s = {} THEN 0 ELSE Resp!Cardinality(k[AnyOf(s)].subs) + F[s \ {AnyOf(s)}]
    BY <1>2, <2>1
  <2>3. F = [s \in SUBSET Peer |->
               IF s = {} THEN 0 ELSE Resp!Cardinality(k[AnyOf(s)].subs) + F[s \ {AnyOf(s)}]]
    BY <2>1, <2>2
  <2> QED
    BY <2>3 DEF AnyOf
<1>4. Iter(G)
  BY <1>3
<1>5. SumsOver(h, Peer, G)
  <2>1. G = [s \in SUBSET Peer |->
               IF s = {} THEN 0 ELSE Resp!Cardinality(k[AnyOf(s)].subs) + G[s \ {AnyOf(s)}]]
    BY <1>4 DEF AnyOf
  <2> HIDE DEF G, h
  <2>2. G = [s \in SUBSET Peer |-> G[s]]
    BY <2>1
  <2>3. \A s \in SUBSET Peer :
          G[s] = IF s = {} THEN 0 ELSE Resp!Cardinality(k[AnyOf(s)].subs) + G[s \ {AnyOf(s)}]
    BY <2>1
  <2> QED
    BY <1>2, <2>2, <2>3 DEF SumsOver, SumsIn
<1>6. Subscribed(k) = G[Peer]
  BY DEF Subscribed, Resp!MapThenSumSet, Resp!MapThenFoldSet
<1> QED
  BY <1>5, <1>6

LEMMA BufferedChanges ==
  ASSUME NEW k, NEW l, NEW p \in Peer, \A x \in Peer : k[x].pend + k[x].held \in Nat /\ l[x].pend + l[x].held \in Nat,
         \A x \in Peer \ {p} : l[x] = k[x]
  PROVE  /\ Buffered(l) = Buffered(k) - (k[p].pend + k[p].held) + (l[p].pend + l[p].held)
         /\ Buffered(k) \in Nat /\ k[p].pend + k[p].held <= Buffered(k)
<1> DEFINE h == [x \in Peer |-> k[x].pend + k[x].held]
           g == [x \in Peer |-> l[x].pend + l[x].held]
<1>1. PICK F : SumsOver(h, Peer, F) /\ Buffered(k) = F[Peer]
  BY BufferedIsSum
<1>2. PICK G : SumsOver(g, Peer, G) /\ Buffered(l) = G[Peer]
  BY BufferedIsSum
<1>3. h[p] = k[p].pend + k[p].held /\ g[p] = l[p].pend + l[p].held
  OBVIOUS
<1>4. G[Peer] = F[Peer] - h[p] + g[p]
  <2>1. ChangesAt(h, g, Peer, p) /\ IsFiniteSet(Peer)
    BY RespAssumption DEF ChangesAt
  <2> HIDE DEF h, g
  <2> QED
    BY <1>1, <1>2, <2>1, SumChanges
<1>5. F[Peer] \in Nat /\ h[p] <= F[Peer]
  <2>1. \A x \in Peer : h[x] \in Nat
    OBVIOUS
  <2> HIDE DEF h, g
  <2> QED
    BY <1>1, <2>1, RespAssumption, SumIsNat
<1> HIDE DEF h, g
<1> QED
  BY <1>1, <1>2, <1>3, <1>4, <1>5

LEMMA SubscribedChanges ==
  ASSUME NEW k, NEW l, NEW p \in Peer, \A x \in Peer : Resp!Cardinality(k[x].subs) \in Nat /\ Resp!Cardinality(l[x].subs) \in Nat,
         \A x \in Peer \ {p} : l[x] = k[x]
  PROVE  /\ Subscribed(l) = Subscribed(k) - (Resp!Cardinality(k[p].subs)) + (Resp!Cardinality(l[p].subs))
         /\ Subscribed(k) \in Nat /\ Resp!Cardinality(k[p].subs) <= Subscribed(k)
<1> DEFINE h == [x \in Peer |-> Resp!Cardinality(k[x].subs)]
           g == [x \in Peer |-> Resp!Cardinality(l[x].subs)]
<1>1. PICK F : SumsOver(h, Peer, F) /\ Subscribed(k) = F[Peer]
  BY SubscribedIsSum
<1>2. PICK G : SumsOver(g, Peer, G) /\ Subscribed(l) = G[Peer]
  BY SubscribedIsSum
<1>3. h[p] = Resp!Cardinality(k[p].subs) /\ g[p] = Resp!Cardinality(l[p].subs)
  OBVIOUS
<1>4. G[Peer] = F[Peer] - h[p] + g[p]
  <2>1. ChangesAt(h, g, Peer, p) /\ IsFiniteSet(Peer)
    BY RespAssumption DEF ChangesAt
  <2> HIDE DEF h, g
  <2> QED
    BY <1>1, <1>2, <2>1, SumChanges
<1>5. F[Peer] \in Nat /\ h[p] <= F[Peer]
  <2>1. \A x \in Peer : h[x] \in Nat
    OBVIOUS
  <2> HIDE DEF h, g
  <2> QED
    BY <1>1, <2>1, RespAssumption, SumIsNat
<1> HIDE DEF h, g
<1> QED
  BY <1>1, <1>2, <1>3, <1>4, <1>5

\* RespSession counts as the library does, and a session's topics are few.
LEMMA RespCounts == \A S : Resp!Cardinality(S) = Cardinality(S)
  BY DEF Cardinality, Resp!Cardinality

LEMMA TopicCount ==
  ASSUME NEW T \in SUBSET RespTopic
  PROVE  IsFiniteSet(T) /\ Resp!Cardinality(T) \in Nat
<1>1. IsFiniteSet({"channel"} \cup {"pattern"})
  BY FS_Singleton, FS_AddElement
<1>2. IsFiniteSet({"channel"} \cup {"pattern"} \cup {"key"})
  BY <1>1, FS_AddElement
<1>3. RespTopic = {"channel"} \cup {"pattern"} \cup {"key"}
  BY DEF RespTopic
<1>4. IsFiniteSet(T)
  BY <1>2, <1>3, FS_Subset
<1> QED
  BY <1>4, FS_CardinalityType, RespCounts

-----------------------------------------------------------------------------
(* A step of one session                                                   *)

\* Session p takes the step, and the budgets follow it.
Steps(p) == peer' = [peer EXCEPT ![p] = peer'[p]] /\ peer'[p] \in RespPeer
Counts(p) ==
  /\ clients' = clients - One(peer[p].at # "closed") + One(peer'[p].at # "closed")
  /\ blocked' = blocked - One(peer[p].at = "waiting") + One(peer'[p].at = "waiting")
  /\ reqBytes' = reqBytes - (peer[p].pend + peer[p].held) + (peer'[p].pend + peer'[p].held)
  /\ subCount' = subCount - Resp!Cardinality(peer[p].subs) + Resp!Cardinality(peer'[p].subs)
  /\ clients' <= MaxResp /\ blocked' <= MaxBlocked /\ reqBytes' <= RequestBytes
  /\ subCount' <= SubCapacity
Settles(p) == Counts(p) /\ topics' = UNION {peer'[x].subs : x \in Peer}

LEMMA RespStep ==
  ASSUME RespInv, NEW p \in Peer, Steps(p), Settles(p), SessionOK(peer[p])',
         version' \in Nat, readsLeft' \in Nat
  PROVE  RespInv'
<1>1. peer \in [Peer -> RespPeer] /\ peer' \in [Peer -> RespPeer]
      /\ \A x \in Peer : x # p => peer'[x] = peer[x]
  BY DEF RespInv, RespTyped, Steps
<1>2. /\ IsFiniteSet(Connected) /\ IsFiniteSet(Connected')
      /\ IsFiniteSet(Waiting) /\ IsFiniteSet(Waiting')
  <2>1. /\ Connected \in SUBSET Peer /\ Connected' \in SUBSET Peer
        /\ Waiting \in SUBSET Peer /\ Waiting' \in SUBSET Peer
    BY DEF Connected, Waiting
  <2> QED
    BY <2>1, RespAssumption, FS_Subset
<1>3. clients' = Cardinality(Connected') /\ clients' \in Nat
  <2>1. /\ \A x : x # p => (x \in Connected <=> x \in Connected')
        /\ p \in Connected <=> peer[p].at # "closed"
        /\ p \in Connected' <=> peer'[p].at # "closed"
    BY <1>1 DEF Connected
  <2>2. /\ Cardinality(Connected) \in Nat /\ Cardinality(Connected') \in Nat
        /\ Cardinality(Connected')
             = Cardinality(Connected) - One(p \in Connected) + One(p \in Connected')
    BY <1>2, <2>1, CountOne
  <2> QED
    BY <2>1, <2>2 DEF RespInv, BudgetInv, Settles, Counts, One
<1>4. blocked' = Cardinality(Waiting') /\ blocked' \in Nat
  <2>1. /\ \A x : x # p => (x \in Waiting <=> x \in Waiting')
        /\ p \in Waiting <=> peer[p].at = "waiting"
        /\ p \in Waiting' <=> peer'[p].at = "waiting"
    BY <1>1 DEF Waiting
  <2>2. /\ Cardinality(Waiting) \in Nat /\ Cardinality(Waiting') \in Nat
        /\ Cardinality(Waiting') = Cardinality(Waiting) - One(p \in Waiting) + One(p \in Waiting')
    BY <1>2, <2>1, CountOne
  <2> QED
    BY <2>1, <2>2 DEF RespInv, BudgetInv, Settles, Counts, One
<1>5. \A x \in Peer \ {p} : peer'[x] = peer[x]
  BY <1>1
<1>6. reqBytes' = Buffered(peer') /\ reqBytes' \in Nat
  <2>1. \A x \in Peer : peer[x].pend + peer[x].held \in Nat /\ peer'[x].pend + peer'[x].held \in Nat
    <3>1. \A x \in Peer : peer[x] \in RespPeer /\ peer'[x] \in RespPeer
      BY <1>1
    <3>2. \A x \in Peer : /\ peer[x].pend \in Nat /\ peer[x].held \in Nat
                          /\ peer'[x].pend \in Nat /\ peer'[x].held \in Nat
      BY <3>1 DEF RespPeer
    <3> QED
      BY <3>2
  <2>2. /\ Buffered(peer')
             = Buffered(peer) - (peer[p].pend + peer[p].held) + (peer'[p].pend + peer'[p].held)
        /\ Buffered(peer) \in Nat /\ peer[p].pend + peer[p].held <= Buffered(peer)
    BY <1>5, <2>1, BufferedChanges
  <2> QED
    BY <2>1, <2>2 DEF RespInv, BudgetInv, Settles, Counts
<1>7. subCount' = Subscribed(peer') /\ subCount' \in Nat
  <2>1. \A x \in Peer :
          Resp!Cardinality(peer[x].subs) \in Nat /\ Resp!Cardinality(peer'[x].subs) \in Nat
    <3>1. \A x \in Peer : peer[x].subs \in SUBSET RespTopic /\ peer'[x].subs \in SUBSET RespTopic
      BY <1>1 DEF RespPeer
    <3> QED
      BY <3>1, TopicCount
  <2>2. /\ Subscribed(peer') = Subscribed(peer) - (Resp!Cardinality(peer[p].subs))
                                 + (Resp!Cardinality(peer'[p].subs))
        /\ Subscribed(peer) \in Nat /\ Resp!Cardinality(peer[p].subs) <= Subscribed(peer)
    BY <1>5, <2>1, SubscribedChanges
  <2> QED
    BY <2>1, <2>2 DEF RespInv, BudgetInv, Settles, Counts
<1>8. BudgetInv'
  BY <1>3, <1>4, <1>6, <1>7 DEF BudgetInv, Settles, Counts
<1>9. RespTyped'
  BY <1>1, <1>3, <1>4, <1>6, <1>7 DEF RespTyped
<1>10. ASSUME NEW x \in Peer PROVE SessionOK(peer[x])'
  <2>1. CASE x = p
    BY <2>1
  <2>2. CASE x # p
    <3>1. peer'[x] = peer[x] /\ SessionOK(peer[x])
      BY <1>1, <2>2 DEF RespInv
    <3> QED
      BY <3>1 DEF SessionOK
  <2> QED
    BY <2>1, <2>2
<1> QED
  BY <1>8, <1>9, <1>10 DEF RespInv

LEMMA RespLimits ==
  /\ MaxResp \in Nat /\ RequestBytes \in Nat /\ MaxQueued \in Nat /\ MaxWatched \in Nat
  /\ SubCapacity \in Nat /\ MaxSubs \in Nat /\ MaxBlocked \in Nat /\ MaxReads \in Nat
  BY RespAssumption

\* What is known of a session about to take a step.
LEMMA PeerFacts ==
  ASSUME RespInv, NEW p \in Peer
  PROVE  /\ peer[p] \in RespPeer /\ SessionOK(peer[p])
         /\ peer[p].pend \in Nat /\ peer[p].held \in Nat /\ peer[p].asked \in Nat
         /\ peer[p].subs \in SUBSET RespTopic /\ Resp!Cardinality(peer[p].subs) \in Nat
         /\ reqBytes \in Nat /\ subCount \in Nat /\ blocked \in Nat /\ clients \in Nat
         /\ version \in Nat /\ readsLeft \in Nat
         /\ reqBytes <= RequestBytes /\ subCount <= SubCapacity
         /\ blocked <= MaxBlocked /\ clients <= MaxResp
         /\ Resp!Cardinality(peer[p].subs) <= subCount
         /\ peer[p].pend + peer[p].held <= reqBytes
<1>1. peer \in [Peer -> RespPeer] /\ SessionOK(peer[p])
  BY DEF RespInv, RespTyped
<1>2. /\ peer[p].pend \in Nat /\ peer[p].held \in Nat /\ peer[p].asked \in Nat
      /\ \A x \in Peer : peer[x].pend + peer[x].held \in Nat /\ peer[x].subs \in SUBSET RespTopic
  BY <1>1 DEF RespPeer
<1>3. \A x \in Peer : Resp!Cardinality(peer[x].subs) \in Nat
  BY <1>2, TopicCount
<1>4. \A x \in Peer \ {p} : peer[x] = peer[x]
  OBVIOUS
<1>5. Resp!Cardinality(peer[p].subs) <= subCount
  BY <1>3, <1>4, SubscribedChanges DEF RespInv, BudgetInv
<1>6. peer[p].pend + peer[p].held <= reqBytes
  BY <1>2, <1>4, BufferedChanges DEF RespInv, BudgetInv
<1> QED
  BY <1>1, <1>2, <1>3, <1>5, <1>6 DEF RespInv, RespTyped, BudgetInv

\* The topics of the broker, when the topics of session p are the set T.
LEMMA TopicsAre ==
  ASSUME RespInv, NEW p \in Peer, Steps(p)
  PROVE  \A t : t \in UNION {peer'[x].subs : x \in Peer}
                  <=> t \in peer'[p].subs \/ \E x \in Peer \ {p} : t \in peer[x].subs
<1>1. peer \in [Peer -> RespPeer] /\ \A x \in Peer : x # p => peer'[x] = peer[x]
  BY DEF RespInv, RespTyped, Steps
<1> QED
  BY <1>1

LEMMA TopicsSame ==
  ASSUME RespInv, NEW p \in Peer, Steps(p), peer'[p].subs = peer[p].subs
  PROVE  UNION {peer'[x].subs : x \in Peer} = topics
<1>1. \A t : t \in UNION {peer'[x].subs : x \in Peer}
               <=> t \in peer'[p].subs \/ \E x \in Peer \ {p} : t \in peer[x].subs
  BY TopicsAre
<1>2. \A t : t \in topics <=> \E x \in Peer : t \in peer[x].subs
  BY DEF RespInv, BudgetInv
<1> QED
  BY <1>1, <1>2

LEMMA TopicsAdd ==
  ASSUME RespInv, NEW p \in Peer, Steps(p), NEW t, peer'[p].subs = peer[p].subs \cup {t}
  PROVE  UNION {peer'[x].subs : x \in Peer} = topics \cup {t}
<1>1. \A u : u \in UNION {peer'[x].subs : x \in Peer}
               <=> u \in peer'[p].subs \/ \E x \in Peer \ {p} : u \in peer[x].subs
  BY TopicsAre
<1>2. \A u : u \in topics <=> \E x \in Peer : u \in peer[x].subs
  BY DEF RespInv, BudgetInv
<1> QED
  BY <1>1, <1>2

\* A topic leaves the broker with its last listener.
LEMMA TopicsRemove ==
  ASSUME RespInv, NEW p \in Peer, Steps(p), NEW t, peer'[p].subs = peer[p].subs \ {t}
  PROVE  UNION {peer'[x].subs : x \in Peer}
           = IF Resp!LastListener(p, t) THEN topics \ {t} ELSE topics
<1>1. \A u : u \in UNION {peer'[x].subs : x \in Peer}
               <=> u \in peer'[p].subs \/ \E x \in Peer \ {p} : u \in peer[x].subs
  BY TopicsAre
<1>2. \A u : u \in topics <=> \E x \in Peer : u \in peer[x].subs
  BY DEF RespInv, BudgetInv
<1> QED
  BY <1>1, <1>2 DEF Resp!LastListener

LEMMA TopicsLeave ==
  ASSUME RespInv, NEW p \in Peer, Steps(p), peer'[p].subs = {}
  PROVE  UNION {peer'[x].subs : x \in Peer}
           = topics \ {t \in peer[p].subs : Resp!LastListener(p, t)}
<1>1. \A u : u \in UNION {peer'[x].subs : x \in Peer}
               <=> u \in peer'[p].subs \/ \E x \in Peer \ {p} : u \in peer[x].subs
  BY TopicsAre
<1>2. \A u : u \in topics <=> \E x \in Peer : u \in peer[x].subs
  BY DEF RespInv, BudgetInv
<1> QED
  BY <1>1, <1>2 DEF Resp!LastListener

-----------------------------------------------------------------------------
(* A connection comes, reads and ends                                      *)

LEMMA NewSessionOK ==
  Resp!NewSession \in RespPeer /\ SessionOK(Resp!NewSession)
  /\ Resp!Cardinality(Resp!NewSession.subs) = 0
<1>1. Resp!NewSession \in RespPeer
  <2>1. <<>> \in Seq(Nat) /\ <<>> \in Seq(STRING)
    OBVIOUS
  <2> QED
    BY <2>1 DEF Resp!NewSession, RespPeer, RespTopic
<1>2. SessionOK(Resp!NewSession)
  BY RespAssumption DEF Resp!NewSession, SessionOK
<1>3. Resp!Cardinality({}) = 0
  BY FS_EmptySet, RespCounts
<1> QED
  BY <1>1, <1>2, <1>3 DEF Resp!NewSession

LEMMA ConnectStep ==
  ASSUME RespInv, NEW p \in Peer, Resp!Connect(p)
  PROVE  RespInv'
<1> DEFINE s == peer[p]
           t == [Resp!NewSession EXCEPT !.at = "idle", !.auth = ~needsAuth]
<1>1. /\ s.at = "closed" /\ peer' = [peer EXCEPT ![p] = t]
      /\ clients' = clients + 1 /\ clients < MaxResp
      /\ UNCHANGED <<reqBytes, subCount, topics, blocked, version, readsLeft>>
  BY DEF Resp!Connect
<1>2. /\ s.pend = 0 /\ s.held = 0 /\ s.subs = {} /\ peer \in [Peer -> RespPeer]
      /\ clients \in Nat /\ version \in Nat /\ readsLeft \in Nat /\ blocked \in Nat
      /\ reqBytes \in Nat /\ subCount \in Nat
      /\ reqBytes <= RequestBytes /\ subCount <= SubCapacity /\ blocked <= MaxBlocked
  BY <1>1, PeerFacts DEF SessionOK, RespInv, RespTyped
<1>3. /\ t \in RespPeer /\ t.at = "idle" /\ t.pend = 0 /\ t.held = 0 /\ t.subs = {}
      /\ SessionOK(t) /\ Resp!Cardinality(t.subs) = 0
  BY NewSessionOK DEF Resp!NewSession, SessionOK, RespPeer
<1>4. peer'[p] = t /\ Steps(p)
  BY <1>1, <1>2, <1>3 DEF Steps
<1> HIDE DEF t
<1>5. topics' = UNION {peer'[x].subs : x \in Peer}
  BY <1>1, <1>2, <1>3, <1>4, TopicsSame
<1>6. Counts(p)
  <2>1. Resp!Cardinality(s.subs) = 0 /\ Resp!Cardinality(peer'[p].subs) = 0
    BY <1>2, <1>3, <1>4, FS_EmptySet, RespCounts
  <2>2. peer'[p].pend = 0 /\ peer'[p].held = 0 /\ peer'[p].at = "idle"
    BY <1>3, <1>4
  <2>3. /\ clients' = clients + 1 /\ blocked' = blocked /\ reqBytes' = reqBytes
        /\ subCount' = subCount
    BY <1>1
  <2> QED
    BY <1>1, <1>2, <2>1, <2>2, <2>3, RespLimits DEF Counts, One
<1>7. SessionOK(peer[p])'
  BY <1>3, <1>4 DEF SessionOK
<1> QED
  BY <1>1, <1>2, <1>4, <1>5, <1>6, <1>7, RespStep DEF Settles

\* Whatever way a connection ends, its reservations go back.
LEMMA EndStep ==
  ASSUME RespInv, NEW p \in Peer, peer[p].at # "closed", Resp!End(p)
  PROVE  RespInv'
<1> DEFINE s == peer[p]
<1>1. /\ peer' = [peer EXCEPT ![p] = Resp!NewSession] /\ clients' = clients - 1
      /\ reqBytes' = reqBytes - (s.pend + s.held)
      /\ subCount' = subCount - Resp!Cardinality(s.subs)
      /\ topics' = topics \ {t \in s.subs : Resp!LastListener(p, t)}
      /\ blocked' = blocked - One(s.at = "waiting")
      /\ UNCHANGED <<version, readsLeft>>
  BY DEF Resp!End, Resp!GivenBack, One
<1>2. /\ peer \in [Peer -> RespPeer] /\ s.pend \in Nat /\ s.held \in Nat
      /\ Resp!Cardinality(s.subs) \in Nat
      /\ clients \in Nat /\ version \in Nat /\ readsLeft \in Nat /\ blocked \in Nat
      /\ reqBytes \in Nat /\ subCount \in Nat /\ clients <= MaxResp
      /\ reqBytes <= RequestBytes /\ subCount <= SubCapacity /\ blocked <= MaxBlocked
  BY PeerFacts DEF RespInv, RespTyped
<1>3. /\ Resp!NewSession.at = "closed" /\ Resp!NewSession.pend = 0 /\ Resp!NewSession.held = 0
      /\ Resp!NewSession.subs = {}
  BY DEF Resp!NewSession
<1>4. peer'[p] = Resp!NewSession /\ Steps(p)
  BY <1>1, <1>2, NewSessionOK DEF Steps
<1>5. topics' = UNION {peer'[x].subs : x \in Peer}
  BY <1>1, <1>3, <1>4, TopicsLeave
<1>6. Counts(p)
  <2>1. /\ peer'[p].pend = 0 /\ peer'[p].held = 0 /\ peer'[p].at = "closed"
        /\ Resp!Cardinality(peer'[p].subs) = 0
    BY <1>3, <1>4, NewSessionOK
  <2>2. /\ clients' = clients - 1 /\ reqBytes' = reqBytes - (s.pend + s.held)
        /\ subCount' = subCount - Resp!Cardinality(s.subs)
        /\ blocked' = blocked - One(s.at = "waiting")
    BY <1>1
  <2> QED
    BY <1>2, <2>1, <2>2, RespLimits DEF Counts, One
<1>7. SessionOK(peer[p])'
  BY <1>4, NewSessionOK DEF SessionOK
<1> QED
  BY <1>1, <1>2, <1>4, <1>5, <1>6, <1>7, RespStep DEF Settles

LEMMA PathTyped ==
  ASSUME NEW s, NEW cmds
  PROVE  Resp!PathOf(s, cmds) \in {"submode", "one", "empty", "publish", "bypass", "shard", "each"}
<1>1. Resp!PipelinePath(s, cmds) \in {"empty", "publish", "bypass", "shard", "each"}
  BY DEF Resp!PipelinePath
<1> QED
  BY <1>1 DEF Resp!PathOf

LEMMA ReadStep ==
  ASSUME RespInv, NEW p \in Peer, NEW cmds \in Pipelines[p], NEW rest \in 0..1,
         Resp!Read(p, cmds, rest)
  PROVE  RespInv'
<1> DEFINE s == peer[p]
           n == Len(cmds) + rest - s.pend
           t == [s EXCEPT !.at = IF cmds = <<>> THEN "idle" ELSE "run", !.todo = cmds,
                   !.pend = s.pend + n, !.path = Resp!PathOf(s, cmds),
                   !.asked = s.asked + Len(cmds)]
<1>1. /\ s.at = "idle" /\ readsLeft > 0 /\ n > 0 /\ reqBytes + n <= RequestBytes
      /\ peer' = [peer EXCEPT ![p] = t] /\ reqBytes' = reqBytes + n /\ readsLeft' = readsLeft - 1
      /\ UNCHANGED <<clients, subCount, topics, blocked, version>>
  BY DEF Resp!Read, Resp!Fits
<1>2. /\ peer \in [Peer -> RespPeer] /\ s.pend \in Nat /\ s.held \in Nat /\ s \in RespPeer
      /\ Resp!Cardinality(s.subs) \in Nat /\ SessionOK(s)
      /\ clients \in Nat /\ version \in Nat /\ readsLeft \in Nat /\ blocked \in Nat
      /\ reqBytes \in Nat /\ subCount \in Nat /\ clients <= MaxResp
      /\ reqBytes <= RequestBytes /\ subCount <= SubCapacity /\ blocked <= MaxBlocked
  BY PeerFacts DEF RespInv, RespTyped
<1>3. cmds \in Seq(STRING) /\ Len(cmds) \in Nat /\ (cmds = <<>> => Len(cmds) = 0)
  BY RespAssumption
<1>4. s.asked = 0 /\ s.told = 0 /\ ~s.waits /\ ~s.cut /\ s.todo = <<>>
  BY <1>1, <1>2 DEF SessionOK
<1>5. /\ n \in Nat /\ s.pend + n = Len(cmds) + rest /\ s.pend + n \in Nat
      /\ s.asked + Len(cmds) = Len(cmds) /\ s.asked + Len(cmds) \in Nat
  <2>1. s.pend \in Nat /\ n > 0
    BY <1>1, <1>2
  <2> QED
    BY <1>3, <1>4, <2>1
<1>6. Resp!PathOf(s, cmds) \in {"none", "submode", "one", "empty", "publish", "bypass", "shard", "each"}
  BY PathTyped
<1>7. t \in RespPeer
  <2> HIDE DEF n
  <2> QED
    BY <1>2, <1>3, <1>5, <1>6 DEF RespPeer
<1>8. /\ t.pend = Len(cmds) + rest /\ t.held = s.held /\ t.subs = s.subs /\ t.todo = cmds
      /\ t.asked = Len(cmds) /\ t.told = 0 /\ ~t.waits /\ ~t.cut /\ t.queue = s.queue
      /\ t.watched = s.watched /\ t.name = s.name /\ t.multi = s.multi
      /\ t.at = IF cmds = <<>> THEN "idle" ELSE "run"
  BY <1>2, <1>4, <1>5 DEF RespPeer
<1> HIDE DEF t
<1>9. SessionOK(t)
  BY <1>2, <1>3, <1>8 DEF SessionOK
<1>10. peer'[p] = t /\ Steps(p)
  BY <1>1, <1>2, <1>7 DEF Steps
<1>11. topics' = UNION {peer'[x].subs : x \in Peer}
  BY <1>1, <1>8, <1>10, TopicsSame
<1>12. Counts(p)
  <2>1. /\ peer'[p].pend = s.pend + n /\ peer'[p].held = s.held /\ peer'[p].subs = s.subs
        /\ peer'[p].at # "closed" /\ peer'[p].at # "waiting"
    BY <1>5, <1>8, <1>10
  <2>2. /\ clients' = clients /\ reqBytes' = reqBytes + n /\ subCount' = subCount
        /\ blocked' = blocked /\ reqBytes + n <= RequestBytes /\ s.at = "idle"
    BY <1>1
  <2> HIDE DEF n
  <2>3. subCount' = subCount - Resp!Cardinality(s.subs) + Resp!Cardinality(peer'[p].subs)
    <3>1. Resp!Cardinality(peer'[p].subs) = Resp!Cardinality(s.subs)
      BY <2>1
    <3> QED
      BY <1>2, <2>2, <3>1
  <2>4. /\ reqBytes' = reqBytes - (s.pend + s.held) + (peer'[p].pend + peer'[p].held)
        /\ reqBytes' <= RequestBytes
    <3>1. n \in Nat /\ s.pend \in Nat /\ s.held \in Nat /\ reqBytes \in Nat
      BY <1>2, <1>5
    <3> QED
      BY <2>1, <2>2, <3>1
  <2>5. /\ clients' = clients - One(s.at # "closed") + One(peer'[p].at # "closed")
        /\ blocked' = blocked - One(s.at = "waiting") + One(peer'[p].at = "waiting")
    BY <1>2, <2>1, <2>2 DEF One
  <2> QED
    BY <1>2, <2>2, <2>3, <2>4, <2>5 DEF Counts
<1>13. SessionOK(peer[p])'
  BY <1>9, <1>10 DEF SessionOK
<1> QED
  BY <1>1, <1>2, <1>10, <1>11, <1>12, <1>13, RespStep DEF Settles

-----------------------------------------------------------------------------
(* One command                                                             *)

\* t is session p with one command more answered, waiting, or given up; its transaction, its
\* watched keys and its name are charged.
AnswerOK(p, t) ==
  /\ t \in RespPeer /\ t.at = "run" /\ t.pend = peer[p].pend /\ t.asked = peer[p].asked
  /\ t.held = t.queue + Len(t.watched) + IF t.name THEN 1 ELSE 0
  /\ t.queue <= MaxQueued
  /\ ~t.multi => t.queue = 0
  /\ ~t.cut => /\ ~peer[p].cut
               /\ \/ t.told = peer[p].told + 1 /\ ~t.waits
                  \/ t.told = peer[p].told /\ t.waits

\* The step of one command: the budgets follow what the session keeps.
Executes(p, t) ==
  /\ peer[p].at = "run" /\ peer[p].todo # <<>> /\ ~peer[p].waits
  /\ peer' = [peer EXCEPT ![p] = [t EXCEPT !.todo = Tail(peer[p].todo)]]
  /\ reqBytes' = reqBytes + t.held - peer[p].held /\ reqBytes' <= RequestBytes
  /\ clients' = clients /\ blocked' = blocked /\ readsLeft' = readsLeft /\ version' \in Nat

LEMMA ExecuteStep ==
  ASSUME RespInv, NEW p \in Peer, NEW t, AnswerOK(p, t), Executes(p, t),
         subCount' = subCount - Resp!Cardinality(peer[p].subs) + Resp!Cardinality(t.subs),
         subCount' <= SubCapacity, Steps(p) => topics' = UNION {peer'[x].subs : x \in Peer}
  PROVE  RespInv'
<1> DEFINE s == peer[p]
           u == [t EXCEPT !.todo = Tail(s.todo)]
<1>1. /\ peer \in [Peer -> RespPeer] /\ s \in RespPeer /\ SessionOK(s)
      /\ s.pend \in Nat /\ s.held \in Nat
  BY PeerFacts DEF RespInv, RespTyped
<1>2. /\ clients \in Nat /\ version \in Nat /\ readsLeft \in Nat /\ blocked \in Nat
      /\ reqBytes \in Nat /\ subCount \in Nat /\ clients <= MaxResp
      /\ reqBytes <= RequestBytes /\ subCount <= SubCapacity /\ blocked <= MaxBlocked
  BY PeerFacts
<1>3. /\ Tail(s.todo) \in Seq(STRING) /\ Len(Tail(s.todo)) = Len(s.todo) - 1
      /\ Len(s.todo) \in Nat /\ Len(Tail(s.todo)) \in Nat
  <2>1. s.todo \in Seq(STRING) /\ s.todo # <<>>
    BY <1>1 DEF Executes, RespPeer
  <2>2. Len(s.todo) \in Nat /\ Len(s.todo) # 0
    BY <2>1
  <2>3. Tail(s.todo) \in Seq(STRING) /\ Len(Tail(s.todo)) = Len(s.todo) - 1
    BY <2>1, HeadTailProperties
  <2> QED
    BY <2>2, <2>3
<1>4. t \in RespPeer
  BY DEF AnswerOK
<1>5. /\ u \in RespPeer /\ u.at = t.at /\ u.pend = t.pend /\ u.asked = t.asked /\ u.held = t.held
      /\ u.queue = t.queue /\ u.watched = t.watched /\ u.name = t.name /\ u.multi = t.multi
      /\ u.told = t.told /\ u.waits = t.waits /\ u.cut = t.cut /\ u.subs = t.subs
      /\ u.todo = Tail(s.todo)
  BY <1>3, <1>4 DEF RespPeer
<1>6. /\ t.held \in Nat /\ t.told \in Nat /\ s.told \in Nat /\ s.asked \in Nat
      /\ t.cut \in BOOLEAN /\ t.waits \in BOOLEAN
  BY <1>1, <1>4 DEF RespPeer
<1> HIDE DEF u
<1>7. peer'[p] = u /\ Steps(p)
  <2>1. peer' = [peer EXCEPT ![p] = u]
    BY DEF Executes, u
  <2> QED
    BY <1>1, <1>5, <2>1 DEF Steps
<1>8. SessionOK(u)
  <2>1. ~u.cut => u.asked = u.told + Len(u.todo) + IF u.waits THEN 1 ELSE 0
    <3>1. ~t.cut => s.asked = s.told + Len(s.todo)
      <4>1. ~t.cut => ~s.cut
        BY DEF AnswerOK
      <4>2. ~s.cut => s.asked = s.told + Len(s.todo) + IF s.waits THEN 1 ELSE 0
        BY <1>1 DEF SessionOK, Executes
      <4>3. (IF s.waits THEN 1 ELSE 0) = 0
        BY DEF Executes
      <4> QED
        BY <1>3, <1>6, <4>1, <4>2, <4>3
    <3>2. ~t.cut => s.asked = t.told + (Len(s.todo) - 1) + IF t.waits THEN 1 ELSE 0
      <4> DEFINE w == IF t.waits THEN 1 ELSE 0
                 l == Len(s.todo)
      <4>1. ~t.cut => \/ t.told = s.told + 1 /\ w = 0
                      \/ t.told = s.told /\ w = 1
        BY DEF AnswerOK
      <4>2. l \in Nat /\ s.told \in Nat /\ (~t.cut => s.asked = s.told + l)
        BY <1>3, <1>6, <3>1
      <4> HIDE DEF w, l
      <4>3. ~t.cut => s.asked = t.told + (l - 1) + w
        BY <4>1, <4>2
      <4> QED
        BY <4>3 DEF w, l
    <3>3. ~t.cut => s.asked = t.told + Len(Tail(s.todo)) + IF t.waits THEN 1 ELSE 0
      BY <1>3, <3>2
    <3> QED
      BY <1>5, <3>3 DEF AnswerOK
  <2>2. u.at = "run" /\ u.asked <= u.pend
    BY <1>1, <1>5 DEF AnswerOK, SessionOK, Executes
  <2>3. /\ u.held = u.queue + Len(u.watched) + IF u.name THEN 1 ELSE 0
        /\ u.queue <= MaxQueued
        /\ ~u.multi => u.queue = 0
    BY <1>5 DEF AnswerOK
  <2> QED
    BY <2>1, <2>2, <2>3 DEF SessionOK
<1>9. Counts(p)
  <2>1. /\ peer'[p].pend = s.pend /\ peer'[p].held = t.held /\ s.at = "run"
        /\ peer'[p].at = "run"
    BY <1>5, <1>7 DEF AnswerOK, Executes
  <2>2. /\ clients' = clients /\ blocked' = blocked
        /\ reqBytes' = reqBytes + t.held - s.held /\ reqBytes' <= RequestBytes
    BY DEF Executes
  <2>3. Resp!Cardinality(peer'[p].subs) = Resp!Cardinality(t.subs)
    BY <1>5, <1>7
  <2> QED
    BY <1>1, <1>2, <1>6, <2>1, <2>2, <2>3, RespLimits DEF Counts, One
<1>10. SessionOK(peer[p])'
  BY <1>7, <1>8 DEF SessionOK
<1> QED
  BY <1>2, <1>7, <1>9, <1>10, RespStep DEF Settles, Executes

\* A command that touches no subscription.
LEMMA PlainStep ==
  ASSUME RespInv, NEW p \in Peer, NEW t, AnswerOK(p, t), Executes(p, t),
         t.subs = peer[p].subs, subCount' = subCount, topics' = topics
  PROVE  RespInv'
<1>1. /\ Resp!Cardinality(peer[p].subs) \in Nat /\ subCount \in Nat /\ subCount <= SubCapacity
      /\ peer \in [Peer -> RespPeer]
  BY PeerFacts DEF RespInv, RespTyped
<1>2. Resp!Cardinality(t.subs) = Resp!Cardinality(peer[p].subs)
  OBVIOUS
<1>3. subCount' = subCount - Resp!Cardinality(peer[p].subs) + Resp!Cardinality(t.subs)
      /\ subCount' <= SubCapacity
  BY <1>1, <1>2
<1>4. peer'[p].subs = peer[p].subs
  <2>1. peer'[p] = [t EXCEPT !.todo = Tail(peer[p].todo)]
    BY <1>1 DEF Executes
  <2>2. t \in RespPeer
    BY DEF AnswerOK
  <2> QED
    BY <2>1, <2>2 DEF RespPeer
<1>5. Steps(p) => topics' = UNION {peer'[x].subs : x \in Peer}
  BY <1>4, TopicsSame
<1> QED
  BY <1>3, <1>5, ExecuteStep

\* What a command that is answered at once leaves of the session: t.
LEMMA AnsweredOK ==
  ASSUME RespInv, NEW p \in Peer, peer[p].at = "run", ~peer[p].waits
  PROVE  /\ AnswerOK(p, Resp!Answered(peer[p])) /\ AnswerOK(p, Resp!Poison(peer[p]))
         /\ Resp!Answered(peer[p]).held = peer[p].held /\ Resp!Poison(peer[p]).held = peer[p].held
         /\ Resp!Answered(peer[p]).subs = peer[p].subs /\ Resp!Poison(peer[p]).subs = peer[p].subs
<1> DEFINE s == peer[p]
<1>1. s \in RespPeer /\ SessionOK(s) /\ s.told + 1 \in Nat
  <2>1. s \in RespPeer /\ SessionOK(s)
    BY PeerFacts
  <2> QED
    BY <2>1 DEF RespPeer
<1>2. /\ s.held = s.queue + Len(s.watched) + IF s.name THEN 1 ELSE 0
      /\ s.queue <= MaxQueued
      /\ ~s.multi => s.queue = 0
  BY <1>1 DEF SessionOK
<1> DEFINE t == Resp!Answered(s)
           u == Resp!Poison(s)
<1>3. /\ t \in RespPeer /\ t.at = s.at /\ t.pend = s.pend /\ t.asked = s.asked /\ t.held = s.held
      /\ t.queue = s.queue /\ t.watched = s.watched /\ t.name = s.name /\ t.multi = s.multi
      /\ t.cut = s.cut /\ t.waits = s.waits /\ t.told = s.told + 1 /\ t.subs = s.subs
  BY <1>1 DEF Resp!Answered, RespPeer
<1>4. /\ u \in RespPeer /\ u.at = s.at /\ u.pend = s.pend /\ u.asked = s.asked /\ u.held = s.held
      /\ u.queue = s.queue /\ u.watched = s.watched /\ u.name = s.name /\ u.multi = s.multi
      /\ u.cut = s.cut /\ u.waits = s.waits /\ u.told = s.told + 1 /\ u.subs = s.subs
  BY <1>1 DEF Resp!Poison, Resp!Answered, RespPeer
<1> HIDE DEF t, u
<1>5. AnswerOK(p, t)
  BY <1>2, <1>3 DEF AnswerOK
<1>6. AnswerOK(p, u)
  BY <1>2, <1>4 DEF AnswerOK
<1> QED
  BY <1>3, <1>4, <1>5, <1>6 DEF t, u

\* Session p is in the middle of its pipeline, and t may follow it without a subscription.
Busy(p) == p \in Peer /\ peer[p].at = "run" /\ peer[p].todo # <<>> /\ ~peer[p].waits
Follows(p, t) ==
  /\ AnswerOK(p, t) /\ t.subs = peer[p].subs
  /\ reqBytes + t.held - peer[p].held <= RequestBytes

LEMMA AfterStep ==
  ASSUME RespInv, NEW p, Busy(p), NEW t, NEW wrote, Follows(p, t),
         Resp!After(p, t, wrote, reqBytes + t.held - peer[p].held),
         Resp!Same, UNCHANGED <<subCount, topics>>
  PROVE  RespInv'
<1>1. p \in Peer
  BY DEF Busy
<1>2. version' \in Nat
  <2>1. version \in Nat
    BY DEF RespInv, RespTyped
  <2> QED
    BY <2>1 DEF Resp!After
<1>3. Executes(p, t)
  BY <1>2 DEF Executes, Busy, Follows, Resp!After, Resp!Same
<1> QED
  BY <1>1, <1>3, PlainStep DEF Follows

LEMMA AnsweredFollows ==
  ASSUME RespInv, NEW p, Busy(p)
  PROVE  Follows(p, Resp!Answered(peer[p])) /\ Follows(p, Resp!Poison(peer[p]))
<1>1. /\ p \in Peer /\ peer[p].held \in Nat /\ reqBytes \in Nat /\ reqBytes <= RequestBytes
      /\ RequestBytes \in Nat
  BY PeerFacts, RespLimits DEF Busy
<1> QED
  BY <1>1, AnsweredOK DEF Follows, Busy

\* A session between two commands of its pipeline.
LEMMA BusyFacts ==
  ASSUME RespInv, NEW p, Busy(p)
  PROVE  /\ p \in Peer /\ peer[p] \in RespPeer /\ SessionOK(peer[p]) /\ peer[p].at = "run" /\ ~peer[p].waits
         /\ peer[p].held \in Nat /\ peer[p].queue \in Nat /\ Len(peer[p].watched) \in Nat
         /\ peer[p].told \in Nat /\ peer[p].watched \in Seq(Nat) /\ peer[p].name \in BOOLEAN
         /\ reqBytes \in Nat /\ reqBytes <= RequestBytes /\ RequestBytes \in Nat
         /\ MaxQueued \in Nat /\ version \in Nat
<1>1. p \in Peer /\ peer[p].at = "run" /\ ~peer[p].waits
  BY DEF Busy
<1>2. /\ peer[p] \in RespPeer /\ SessionOK(peer[p])
      /\ reqBytes \in Nat /\ reqBytes <= RequestBytes /\ version \in Nat
  BY <1>1, PeerFacts
<1>3. peer[p].watched \in Seq(Nat)
  BY <1>2 DEF RespPeer
<1>4. Len(peer[p].watched) \in Nat
  BY <1>3
<1>5. /\ peer[p].held \in Nat /\ peer[p].queue \in Nat /\ peer[p].told \in Nat
      /\ peer[p].name \in BOOLEAN
  BY <1>2 DEF RespPeer
<1> QED
  BY <1>1, <1>2, <1>3, <1>4, <1>5, RespLimits

\* The end of a transaction gives its commands and its watched keys back.
LEMMA EndTxFollows ==
  ASSUME RespInv, NEW p, Busy(p)
  PROVE  LET t == Resp!Answered(Resp!EndTx(peer[p])) IN
         Follows(p, t) /\ t.held = peer[p].held - peer[p].queue - Len(peer[p].watched)
<1> DEFINE s == peer[p]
           t == Resp!Answered(Resp!EndTx(s))
           h == s.held - s.queue - Len(s.watched)
<1>1. s \in RespPeer /\ SessionOK(s) /\ s.at = "run" /\ ~s.waits
  BY BusyFacts
<1>2. /\ s.held \in Nat /\ s.queue \in Nat /\ Len(s.watched) \in Nat /\ s.told \in Nat
      /\ reqBytes \in Nat /\ reqBytes <= RequestBytes /\ RequestBytes \in Nat /\ MaxQueued \in Nat
  BY BusyFacts
<1>3. /\ h = IF s.name THEN 1 ELSE 0
      /\ h \in Nat /\ h <= s.held
  <2> DEFINE w == IF s.name THEN 1 ELSE 0
             l == Len(s.watched)
  <2>1. s.held = s.queue + l + w /\ w \in 0..1 /\ l \in Nat
    BY <1>1, <1>2 DEF SessionOK
  <2> HIDE DEF w, l
  <2>2. s.held - s.queue - l = w /\ w \in Nat /\ w <= s.held
    BY <1>2, <2>1
  <2> QED
    BY <2>2 DEF w, l
<1>4. PICK c : c = Resp!Clear(s)
  OBVIOUS
<1>5. /\ c \in RespPeer /\ c.at = s.at /\ c.pend = s.pend /\ c.asked = s.asked
      /\ c.queue = 0 /\ c.watched = <<>> /\ c.name = s.name
      /\ c.cut = s.cut /\ c.waits = s.waits /\ c.told = s.told /\ c.subs = s.subs
  <2>1. <<>> \in Seq(Nat)
    OBVIOUS
  <2> QED
    BY <1>1, <1>4, <2>1 DEF Resp!Clear, RespPeer
<1>6. PICK e : e = [c EXCEPT !.held = h]
  OBVIOUS
<1>7. /\ e \in RespPeer /\ e.at = s.at /\ e.pend = s.pend /\ e.asked = s.asked /\ e.held = h
      /\ e.queue = 0 /\ e.watched = <<>> /\ e.name = s.name
      /\ e.cut = s.cut /\ e.waits = s.waits /\ e.told = s.told /\ e.subs = s.subs
  <2> HIDE DEF h
  <2> QED
    BY <1>3, <1>5, <1>6 DEF RespPeer
<1>8. t = [e EXCEPT !.told = e.told + 1]
  BY <1>4, <1>6 DEF Resp!Answered, Resp!EndTx, Resp!HeldAfterTx
<1>9. /\ t \in RespPeer /\ t.at = s.at /\ t.pend = s.pend /\ t.asked = s.asked /\ t.held = h
      /\ t.queue = 0 /\ t.watched = <<>> /\ t.name = s.name
      /\ t.cut = s.cut /\ t.waits = s.waits /\ t.told = s.told + 1 /\ t.subs = s.subs
  <2> HIDE DEF t, h
  <2>1. e.told + 1 \in Nat
    BY <1>2, <1>7
  <2> QED
    BY <1>7, <1>8, <2>1 DEF RespPeer
<1> HIDE DEF t, h
<1>10. AnswerOK(p, t)
  BY <1>1, <1>2, <1>3, <1>9 DEF AnswerOK
<1>11. reqBytes + t.held - s.held <= RequestBytes
  BY <1>2, <1>3, <1>9
<1> QED
  BY <1>9, <1>10, <1>11 DEF Follows, t, h

LEMMA ExecStep ==
  ASSUME RespInv, NEW p, Busy(p), Resp!Exec(p), Resp!Same
  PROVE  RespInv'
<1> DEFINE s == peer[p]
           t == Resp!Answered(Resp!EndTx(s))
           wrote == (s.multi /\ ~s.bad /\ gate = "up" /\ Resp!Unchanged(s)) /\ s.queue > 0
<1>1. /\ Resp!After(p, t, wrote, reqBytes - s.queue - Len(s.watched))
      /\ UNCHANGED <<subCount, topics>>
  BY DEF Resp!Exec
<1>2. Follows(p, t) /\ t.held = s.held - s.queue - Len(s.watched)
  BY EndTxFollows
<1>3. reqBytes - s.queue - Len(s.watched) = reqBytes + t.held - s.held
  <2>1. s \in RespPeer /\ reqBytes \in Nat
    BY PeerFacts DEF Busy
  <2>2. s.held \in Nat /\ s.queue \in Nat /\ Len(s.watched) \in Nat
    BY <2>1 DEF RespPeer
  <2> QED
    BY <1>2, <2>1, <2>2
<1> HIDE DEF t, wrote
<1> QED
  BY <1>1, <1>2, <1>3, AfterStep

\* The fields of the session whose command is answered.
Answers(p, a) ==
  /\ a \in RespPeer /\ a.at = "run" /\ ~a.waits /\ a.cut = peer[p].cut /\ a.told = peer[p].told + 1
  /\ a.pend = peer[p].pend /\ a.asked = peer[p].asked /\ a.subs = peer[p].subs

LEMMA AnsweredFields ==
  ASSUME RespInv, NEW p, Busy(p)
  PROVE  LET a == Resp!Answered(peer[p]) IN
         /\ Answers(p, a) /\ a.held = peer[p].held /\ a.queue = peer[p].queue
         /\ a.watched = peer[p].watched /\ a.name = peer[p].name /\ a.multi = peer[p].multi
<1>1. peer[p] \in RespPeer /\ peer[p].told + 1 \in Nat /\ peer[p].at = "run" /\ ~peer[p].waits
  BY BusyFacts
<1> QED
  BY <1>1 DEF Resp!Answered, RespPeer, Answers

LEMMA AnswersFollow ==
  ASSUME RespInv, NEW p, Busy(p), NEW t, Answers(p, t),
         t.held = t.queue + Len(t.watched) + IF t.name THEN 1 ELSE 0,
         t.queue <= MaxQueued, ~t.multi => t.queue = 0,
         reqBytes + t.held - peer[p].held <= RequestBytes
  PROVE  Follows(p, t)
  BY DEF Answers, AnswerOK, Follows

LEMMA MultiFollows ==
  ASSUME RespInv, NEW p, Busy(p)
  PROVE  Follows(p, [Resp!Answered(peer[p]) EXCEPT !.multi = TRUE, !.bad = FALSE])
<1> DEFINE s == peer[p]
           a == Resp!Answered(s)
           t == [a EXCEPT !.multi = TRUE, !.bad = FALSE]
<1>1. /\ Answers(p, a) /\ a.held = s.held /\ a.queue = s.queue
      /\ a.watched = s.watched /\ a.name = s.name /\ a.multi = s.multi
  BY AnsweredFields
<1> HIDE DEF a
<1>2. /\ Answers(p, t) /\ t.held = s.held /\ t.queue = s.queue
      /\ t.watched = s.watched /\ t.name = s.name /\ t.multi
  BY <1>1 DEF Answers, RespPeer
<1>3. /\ SessionOK(s) /\ s.held \in Nat /\ reqBytes \in Nat /\ reqBytes <= RequestBytes
      /\ RequestBytes \in Nat
  BY BusyFacts
<1> HIDE DEF t
<1>4. /\ t.held = t.queue + Len(t.watched) + IF t.name THEN 1 ELSE 0
      /\ t.queue <= MaxQueued /\ (~t.multi => t.queue = 0)
  BY <1>2, <1>3 DEF SessionOK
<1>5. reqBytes + t.held - s.held <= RequestBytes
  BY <1>2, <1>3
<1>6. Follows(p, t)
  BY <1>2, <1>4, <1>5, AnswersFollow
<1> QED
  BY <1>6 DEF t, a

LEMMA WatchFollows ==
  ASSUME RespInv, NEW p, Busy(p), Resp!Fits(1)
  PROVE  Follows(p, [Resp!Answered(peer[p]) EXCEPT !.watched = Append(peer[p].watched, version),
                                                  !.held = peer[p].held + 1])
<1> DEFINE s == peer[p]
           a == Resp!Answered(s)
           w == Append(s.watched, version)
           t == [a EXCEPT !.watched = w, !.held = s.held + 1]
<1>1. /\ Answers(p, a) /\ a.held = s.held /\ a.queue = s.queue
      /\ a.watched = s.watched /\ a.name = s.name /\ a.multi = s.multi
  BY AnsweredFields
<1>2. /\ SessionOK(s) /\ s.held \in Nat /\ s.queue \in Nat /\ Len(s.watched) \in Nat
      /\ s.watched \in Seq(Nat) /\ version \in Nat /\ reqBytes \in Nat
  BY BusyFacts
<1>3. w \in Seq(Nat) /\ Len(w) = Len(s.watched) + 1 /\ s.held + 1 \in Nat
  BY <1>2
<1> HIDE DEF a, w
<1>4. /\ Answers(p, t) /\ t.held = s.held + 1 /\ t.queue = s.queue
      /\ t.watched = w /\ t.name = s.name /\ t.multi = s.multi
  BY <1>1, <1>3 DEF Answers, RespPeer
<1> HIDE DEF t
<1>5. t.held = t.queue + Len(t.watched) + IF t.name THEN 1 ELSE 0
  <2> DEFINE n == IF s.name THEN 1 ELSE 0
             l == Len(s.watched)
  <2>1. s.held = s.queue + l + n /\ n \in 0..1 /\ l \in Nat /\ s.queue \in Nat
    BY <1>2 DEF SessionOK
  <2> HIDE DEF n, l
  <2>2. s.held + 1 = s.queue + (l + 1) + n
    BY <2>1
  <2>3. Len(w) = l + 1
    BY <1>3 DEF l
  <2> QED
    BY <1>4, <2>2, <2>3 DEF n
<1>6. t.queue <= MaxQueued /\ (~t.multi => t.queue = 0)
  BY <1>2, <1>4 DEF SessionOK
<1>7. reqBytes + t.held - s.held <= RequestBytes
  BY <1>2, <1>4 DEF Resp!Fits
<1>8. Follows(p, t)
  BY <1>4, <1>5, <1>6, <1>7, AnswersFollow
<1> QED
  BY <1>8 DEF t, a, w

LEMMA UnwatchFollows ==
  ASSUME RespInv, NEW p, Busy(p)
  PROVE  Follows(p, [Resp!Answered(peer[p]) EXCEPT !.watched = <<>>,
                                                  !.held = peer[p].held - Len(peer[p].watched)])
<1> DEFINE s == peer[p]
           a == Resp!Answered(s)
           h == s.held - Len(s.watched)
           t == [a EXCEPT !.watched = <<>>, !.held = h]
<1>1. /\ Answers(p, a) /\ a.held = s.held /\ a.queue = s.queue
      /\ a.watched = s.watched /\ a.name = s.name /\ a.multi = s.multi
  BY AnsweredFields
<1>2. /\ SessionOK(s) /\ s.held \in Nat /\ s.queue \in Nat /\ Len(s.watched) \in Nat
      /\ reqBytes \in Nat /\ reqBytes <= RequestBytes /\ RequestBytes \in Nat
  BY BusyFacts
<1>3. h \in Nat /\ h <= s.held /\ h = s.queue + 0 + IF s.name THEN 1 ELSE 0
  <2> DEFINE n == IF s.name THEN 1 ELSE 0
             l == Len(s.watched)
  <2>1. s.held = s.queue + l + n /\ n \in 0..1 /\ l \in Nat
    BY <1>2 DEF SessionOK
  <2> HIDE DEF n, l
  <2>2. s.held - l \in Nat /\ s.held - l <= s.held /\ s.held - l = s.queue + 0 + n
    BY <1>2, <2>1
  <2> QED
    BY <2>2 DEF n, l
<1>4. <<>> \in Seq(Nat) /\ Len(<<>>) = 0
  OBVIOUS
<1> HIDE DEF a, h
<1>5. /\ Answers(p, t) /\ t.held = h /\ t.queue = s.queue
      /\ t.watched = <<>> /\ t.name = s.name /\ t.multi = s.multi
  BY <1>1, <1>3, <1>4 DEF Answers, RespPeer
<1> HIDE DEF t
<1>6. t.held = t.queue + Len(t.watched) + IF t.name THEN 1 ELSE 0
  <2>1. Len(t.watched) = 0
    BY <1>5
  <2> QED
    BY <1>3, <1>5, <2>1
<1>7. t.queue <= MaxQueued /\ (~t.multi => t.queue = 0)
  BY <1>2, <1>5 DEF SessionOK
<1>8. reqBytes + t.held - s.held <= RequestBytes
  BY <1>2, <1>3, <1>5
<1>9. Follows(p, t)
  BY <1>5, <1>6, <1>7, <1>8, AnswersFollow
<1> QED
  BY <1>9 DEF t, a, h

LEMMA QueueFollows ==
  ASSUME RespInv, NEW p, Busy(p), Resp!Fits(1), peer[p].multi, peer[p].queue < MaxQueued
  PROVE  Follows(p, [Resp!Answered(peer[p]) EXCEPT !.queue = peer[p].queue + 1,
                                                  !.held = peer[p].held + 1])
<1> DEFINE s == peer[p]
           a == Resp!Answered(s)
           t == [a EXCEPT !.queue = s.queue + 1, !.held = s.held + 1]
<1>1. /\ Answers(p, a) /\ a.held = s.held /\ a.queue = s.queue
      /\ a.watched = s.watched /\ a.name = s.name /\ a.multi = s.multi
  BY AnsweredFields
<1>2. /\ SessionOK(s) /\ s.held \in Nat /\ s.queue \in Nat /\ Len(s.watched) \in Nat
      /\ reqBytes \in Nat /\ MaxQueued \in Nat
  BY BusyFacts
<1>3. s.queue + 1 \in Nat /\ s.held + 1 \in Nat /\ s.queue + 1 <= MaxQueued
  BY <1>2
<1> HIDE DEF a
<1>4. /\ Answers(p, t) /\ t.held = s.held + 1 /\ t.queue = s.queue + 1
      /\ t.watched = s.watched /\ t.name = s.name /\ t.multi = s.multi
  BY <1>1, <1>3 DEF Answers, RespPeer
<1> HIDE DEF t
<1>5. t.held = t.queue + Len(t.watched) + IF t.name THEN 1 ELSE 0
  <2> DEFINE n == IF s.name THEN 1 ELSE 0
             l == Len(s.watched)
  <2>1. s.held = s.queue + l + n /\ n \in 0..1 /\ l \in Nat
    BY <1>2 DEF SessionOK
  <2> HIDE DEF n, l
  <2>2. s.held + 1 = (s.queue + 1) + l + n
    BY <1>2, <2>1
  <2> QED
    BY <1>4, <2>2 DEF n, l
<1>6. t.queue <= MaxQueued /\ (~t.multi => t.queue = 0)
  BY <1>3, <1>4
<1>7. reqBytes + t.held - s.held <= RequestBytes
  BY <1>2, <1>4 DEF Resp!Fits
<1>8. Follows(p, t)
  BY <1>4, <1>5, <1>6, <1>7, AnswersFollow
<1> QED
  BY <1>8 DEF t, a

LEMMA TxCommandStep ==
  ASSUME RespInv, NEW p, NEW cmd, Busy(p), Resp!TxCommand(p, cmd), Resp!Same
  PROVE  RespInv'
<1> DEFINE s == peer[p]
           fits == s.queue < MaxQueued /\ Resp!Fits(1)
           watches == /\ cmd = "watch" /\ ~s.multi /\ Len(s.watched) < MaxWatched
                      /\ gate = "up" /\ Resp!Fits(1)
           refuses == \/ Resp!Subscribes(cmd) \/ Resp!Unsubscribes(cmd)
                      \/ cmd \in {"block", "unknown"} \/ ~fits
           watched == [Resp!Answered(s) EXCEPT !.watched = Append(s.watched, version),
                                               !.held = s.held + 1]
           queued == [Resp!Answered(s) EXCEPT !.queue = s.queue + 1, !.held = s.held + 1]
           t == CASE cmd = "multi" ->
                       IF s.multi THEN Resp!Poison(s)
                       ELSE [Resp!Answered(s) EXCEPT !.multi = TRUE, !.bad = FALSE]
                  [] cmd = "discard" -> Resp!Answered(IF s.multi THEN Resp!EndTx(s) ELSE s)
                  [] cmd = "watch" -> IF s.multi THEN Resp!Poison(s) ELSE
                                      IF watches THEN watched ELSE Resp!Answered(s)
                  [] cmd = "unwatch" -> [Resp!Answered(s) EXCEPT !.watched = <<>>,
                                                                 !.held = s.held - Len(s.watched)]
                  [] OTHER -> IF refuses THEN Resp!Poison(s) ELSE queued
<1>1. /\ s.multi \/ cmd \in {"multi", "discard", "watch", "unwatch"}
      /\ Resp!After(p, t, FALSE, reqBytes + t.held - s.held)
      /\ UNCHANGED <<subCount, topics>>
  BY DEF Resp!TxCommand
<1>2. Follows(p, t)
  <2>1. CASE cmd = "multi"
    <3>1. t = IF s.multi THEN Resp!Poison(s)
              ELSE [Resp!Answered(s) EXCEPT !.multi = TRUE, !.bad = FALSE]
      BY <2>1
    <3> HIDE DEF t
    <3> QED
      BY <3>1, AnsweredFollows, MultiFollows
  <2>2. CASE cmd = "discard"
    <3>1. t = Resp!Answered(Resp!EndTx(s)) \/ t = Resp!Answered(s)
      BY <2>2
    <3> HIDE DEF t
    <3> QED
      BY <3>1, AnsweredFollows, EndTxFollows
  <2>3. CASE cmd = "watch"
    <3>1. t = IF s.multi THEN Resp!Poison(s) ELSE IF watches THEN watched ELSE Resp!Answered(s)
      BY <2>3
    <3>2. watches => Follows(p, watched)
      BY WatchFollows
    <3> HIDE DEF t, watches, watched
    <3> QED
      BY <3>1, <3>2, AnsweredFollows
  <2>4. CASE cmd = "unwatch"
    <3>1. t = [Resp!Answered(s) EXCEPT !.watched = <<>>, !.held = s.held - Len(s.watched)]
      BY <2>4
    <3> HIDE DEF t
    <3> QED
      BY <3>1, UnwatchFollows
  <2>5. CASE cmd \notin {"multi", "discard", "watch", "unwatch"}
    <3>1. t = IF refuses THEN Resp!Poison(s) ELSE queued
      BY <2>5
    <3>2. ~refuses => Follows(p, queued)
      BY <1>1, <2>5, QueueFollows
    <3> HIDE DEF t, refuses, queued
    <3> QED
      BY <3>1, <3>2, AnsweredFollows
  <2> QED
    BY <2>1, <2>2, <2>3, <2>4, <2>5
<1> HIDE DEF t
<1> QED
  BY <1>1, <1>2, AfterStep

LEMMA RefuseStep ==
  ASSUME RespInv, NEW p, Busy(p), Resp!Same, UNCHANGED <<subCount, topics>>, NEW wrote,
         Resp!After(p, Resp!Answered(peer[p]), wrote, reqBytes)
  PROVE  RespInv'
<1> DEFINE t == Resp!Answered(peer[p])
<1>1. Follows(p, t) /\ t.held = peer[p].held
  BY AnsweredFollows, AnsweredFields
<1>2. reqBytes = reqBytes + t.held - peer[p].held
  <2>1. reqBytes \in Nat /\ peer[p].held \in Nat
    BY BusyFacts
  <2> HIDE DEF t
  <2> QED
    BY <1>1, <2>1
<1>3. Resp!After(p, t, wrote, reqBytes + t.held - peer[p].held)
  BY <1>2
<1> QED
  BY <1>1, <1>3, AfterStep

-----------------------------------------------------------------------------
(* Subscriptions                                                           *)

\* A command that takes or drops a topic: session t, with the same buffers.
LEMMA TopicStep ==
  ASSUME RespInv, NEW p, Busy(p), NEW t, AnswerOK(p, t), t.held = peer[p].held,
         Resp!After(p, t, FALSE, reqBytes), Resp!Same,
         subCount' = subCount - Resp!Cardinality(peer[p].subs) + Resp!Cardinality(t.subs),
         subCount' <= SubCapacity,
         Steps(p) /\ peer'[p].subs = t.subs => topics' = UNION {peer'[x].subs : x \in Peer}
  PROVE  RespInv'
<1>1. /\ p \in Peer /\ reqBytes \in Nat /\ reqBytes <= RequestBytes /\ peer[p].held \in Nat
      /\ version \in Nat
  BY BusyFacts
<1>2. reqBytes = reqBytes + t.held - peer[p].held
  BY <1>1
<1>3. version' \in Nat
  BY <1>1 DEF Resp!After
<1>4. Executes(p, t)
  BY <1>1, <1>2, <1>3 DEF Executes, Busy, Resp!After, Resp!Same
<1>5. peer'[p].subs = t.subs
  <2>1. t \in RespPeer /\ peer \in [Peer -> RespPeer]
    BY DEF AnswerOK, RespInv, RespTyped
  <2>2. peer'[p] = [t EXCEPT !.todo = Tail(peer[p].todo)]
    BY <1>1, <2>1 DEF Resp!After
  <2> QED
    BY <2>1, <2>2 DEF RespPeer
<1> QED
  BY <1>1, <1>4, <1>5, ExecuteStep

LEMMA CountAdd ==
  ASSUME NEW S \in SUBSET RespTopic, NEW t
  PROVE  /\ Resp!Cardinality(S) \in Nat
         /\ Resp!Cardinality(S \cup {t}) = Resp!Cardinality(S) + IF t \in S THEN 0 ELSE 1
         /\ Resp!Cardinality(S \ {t}) = Resp!Cardinality(S) - IF t \in S THEN 1 ELSE 0
<1>1. IsFiniteSet(S) /\ Resp!Cardinality(S) \in Nat
  BY TopicCount
<1>2. /\ Cardinality(S \cup {t}) = IF t \in S THEN Cardinality(S) ELSE Cardinality(S) + 1
      /\ Cardinality(S \ {t}) = IF t \in S THEN Cardinality(S) - 1 ELSE Cardinality(S)
  BY <1>1, FS_AddElement, FS_RemoveElement
<1>3. /\ Resp!Cardinality(S) = Cardinality(S)
      /\ Resp!Cardinality(S \cup {t}) = Cardinality(S \cup {t})
      /\ Resp!Cardinality(S \ {t}) = Cardinality(S \ {t})
  BY RespCounts
<1> HIDE DEF RespTopic
<1> QED
  BY <1>1, <1>2, <1>3

LEMMA SubscribeStep ==
  ASSUME RespInv, NEW p, Busy(p), NEW t \in RespTopic, NEW inLoop \in BOOLEAN,
         Resp!Subscribe(p, t, inLoop), Resp!Same
  PROVE  RespInv'
<1> DEFINE s == peer[p]
           added == IF t \in s.subs THEN 0 ELSE 1
           admits == Resp!WithinSession(s, t) /\ (added = 0 \/ Resp!RoomForTopic)
           a == Resp!Answered(s)
           grown == [a EXCEPT !.subs = s.subs \cup {t}, !.subMode = s.subMode \/ ~inLoop]
<1>1. /\ Resp!After(p, IF admits THEN grown ELSE a, FALSE, reqBytes)
      /\ subCount' = subCount + IF admits THEN added ELSE 0
      /\ topics' = IF admits THEN topics \cup {t} ELSE topics
  BY DEF Resp!Subscribe
<1>2. CASE ~admits
  <2>1. Resp!After(p, a, FALSE, reqBytes) /\ topics' = topics /\ subCount' = subCount
    <3>1. subCount \in Nat
      BY DEF RespInv, RespTyped
    <3>2. subCount' = subCount + 0
      BY <1>1, <1>2
    <3>3. Resp!After(p, a, FALSE, reqBytes) /\ topics' = topics
      <4> HIDE DEF admits, grown, a
      <4> QED
        BY <1>1, <1>2
    <3>4. subCount' = subCount
      BY <3>1, <3>2
    <3> HIDE DEF a
    <3> QED
      BY <3>3, <3>4
  <2> QED
    BY <2>1, RefuseStep
<1>3. CASE admits
  <2>1. /\ p \in Peer /\ s \in RespPeer /\ SessionOK(s) /\ s.subs \in SUBSET RespTopic
        /\ subCount \in Nat /\ SubCapacity \in Nat /\ subCount <= SubCapacity
        /\ s.subMode \in BOOLEAN
    <3>1. p \in Peer /\ s \in RespPeer /\ SessionOK(s)
      BY BusyFacts
    <3> QED
      BY <3>1, PeerFacts, RespLimits DEF RespPeer
  <2>2. /\ Answers(p, a) /\ a.held = s.held /\ a.queue = s.queue
        /\ a.watched = s.watched /\ a.name = s.name /\ a.multi = s.multi
    BY AnsweredFields
  <2>3. /\ Resp!After(p, grown, FALSE, reqBytes) /\ subCount' = subCount + added
        /\ topics' = topics \cup {t}
    <3> HIDE DEF admits, grown, added
    <3> QED
      BY <1>1, <1>3
  <2> HIDE DEF a
  <2>4. /\ grown \in RespPeer /\ grown.held = s.held /\ grown.queue = s.queue
        /\ grown.watched = s.watched /\ grown.name = s.name /\ grown.multi = s.multi
        /\ grown.at = "run" /\ ~grown.waits /\ grown.cut = s.cut /\ grown.told = s.told + 1
        /\ grown.pend = s.pend /\ grown.asked = s.asked /\ grown.subs = s.subs \cup {t}
    <3>1. s.subs \cup {t} \in SUBSET RespTopic /\ (s.subMode \/ ~inLoop) \in BOOLEAN
      BY <2>1
    <3> QED
      BY <2>2, <3>1 DEF Answers, RespPeer
  <2> HIDE DEF grown
  <2>5. AnswerOK(p, grown)
    BY <2>1, <2>4 DEF AnswerOK, SessionOK
  <2>6. /\ subCount' = subCount - Resp!Cardinality(s.subs) + Resp!Cardinality(grown.subs)
        /\ subCount' <= SubCapacity
    <3>1. /\ Resp!Cardinality(s.subs) \in Nat
          /\ Resp!Cardinality(s.subs \cup {t}) = Resp!Cardinality(s.subs) + added
      BY <2>1, CountAdd
    <3>2. Resp!Cardinality(grown.subs) = Resp!Cardinality(s.subs) + added
      BY <2>4, <3>1
    <3>3. added = 0 \/ (added = 1 /\ subCount < SubCapacity)
      BY <1>3 DEF Resp!RoomForTopic
    <3> HIDE DEF added
    <3> QED
      BY <2>1, <2>3, <3>1, <3>2, <3>3
  <2>7. Steps(p) /\ peer'[p].subs = grown.subs => topics' = UNION {peer'[x].subs : x \in Peer}
    BY <2>1, <2>3, <2>4, TopicsAdd
  <2> QED
    BY <2>3, <2>4, <2>5, <2>6, <2>7, TopicStep
<1> QED
  BY <1>2, <1>3

LEMMA UnsubscribeStep ==
  ASSUME RespInv, NEW p, Busy(p), NEW t \in RespTopic, NEW inLoop \in BOOLEAN,
         Resp!Unsubscribe(p, t, inLoop), Resp!Same
  PROVE  RespInv'
<1> DEFINE s == peer[p]
           u == [s EXCEPT !.subs = s.subs \ {t}]
           silent == t \notin s.subs
           w == [u EXCEPT !.told = s.told + IF silent THEN 0 ELSE 1, !.cut = s.cut \/ silent,
                          !.subMode = s.subMode /\ (~inLoop \/ u.subs # {})]
<1>1. /\ Resp!After(p, w, FALSE, reqBytes)
      /\ subCount' = subCount - IF t \in s.subs THEN 1 ELSE 0
      /\ topics' = IF Resp!LastListener(p, t) THEN topics \ {t} ELSE topics
  BY DEF Resp!Unsubscribe, Resp!ReleasedFor
<1>2. /\ p \in Peer /\ s \in RespPeer /\ SessionOK(s) /\ s.told \in Nat
      /\ s.at = "run" /\ ~s.waits
  BY BusyFacts
<1>3. /\ s.subs \in SUBSET RespTopic /\ subCount \in Nat /\ subCount <= SubCapacity
      /\ SubCapacity \in Nat
  BY <1>2, PeerFacts, RespLimits
<1>4. s.subMode \in BOOLEAN /\ s.cut \in BOOLEAN
  BY <1>2 DEF RespPeer
<1>5. /\ u \in RespPeer /\ u.subs = s.subs \ {t} /\ u.held = s.held /\ u.queue = s.queue
      /\ u.watched = s.watched /\ u.name = s.name /\ u.multi = s.multi /\ u.at = "run"
      /\ u.waits = s.waits /\ u.pend = s.pend /\ u.asked = s.asked
  <2>1. s.subs \ {t} \in SUBSET RespTopic
    BY <1>3
  <2> QED
    BY <1>2, <2>1 DEF RespPeer
<1> HIDE DEF u
<1>6. /\ w \in RespPeer /\ w.subs = s.subs \ {t} /\ w.held = s.held /\ w.queue = s.queue
      /\ w.watched = s.watched /\ w.name = s.name /\ w.multi = s.multi /\ w.at = "run"
      /\ w.waits = s.waits /\ w.pend = s.pend /\ w.asked = s.asked
      /\ w.cut = (s.cut \/ silent) /\ w.told = s.told + IF silent THEN 0 ELSE 1
  <2>1. /\ s.told + (IF silent THEN 0 ELSE 1) \in Nat /\ (s.cut \/ silent) \in BOOLEAN
        /\ (s.subMode /\ (~inLoop \/ u.subs # {})) \in BOOLEAN
    BY <1>2
  <2> QED
    BY <1>5, <2>1 DEF RespPeer
<1> HIDE DEF w
<1>7. AnswerOK(p, w)
  <2>1. ~w.cut => ~s.cut /\ w.told = s.told + 1 /\ ~w.waits
    BY <1>2, <1>4, <1>6
  <2> HIDE DEF silent
  <2> QED
    BY <1>2, <1>6, <2>1 DEF AnswerOK, SessionOK
<1>8. /\ subCount' = subCount - Resp!Cardinality(s.subs) + Resp!Cardinality(w.subs)
      /\ subCount' <= SubCapacity
  <2> DEFINE k == IF t \in s.subs THEN 1 ELSE 0
  <2>1. /\ Resp!Cardinality(s.subs) \in Nat /\ k \in 0..1
        /\ Resp!Cardinality(s.subs \ {t}) = Resp!Cardinality(s.subs) - k
    <3>1. k \in 0..1
      OBVIOUS
    <3>2. /\ Resp!Cardinality(s.subs) \in Nat
          /\ Resp!Cardinality(s.subs \ {t}) = Resp!Cardinality(s.subs) - k
      BY <1>3, CountAdd
    <3> QED
      BY <3>1, <3>2
  <2>2. Resp!Cardinality(w.subs) = Resp!Cardinality(s.subs) - k
    BY <1>6, <2>1
  <2>3. subCount' = subCount - k
    BY <1>1
  <2> HIDE DEF k
  <2> QED
    BY <1>3, <2>1, <2>2, <2>3
<1>9. Steps(p) /\ peer'[p].subs = w.subs => topics' = UNION {peer'[x].subs : x \in Peer}
  BY <1>1, <1>2, <1>6, TopicsRemove
<1> QED
  BY <1>1, <1>6, <1>7, <1>8, <1>9, TopicStep

-----------------------------------------------------------------------------
(* The commands of a pipeline                                              *)

LEMMA TopicTyped == \A cmd : Resp!Topic(cmd) \in RespTopic /\ "key" \in RespTopic
  BY DEF Resp!Topic, RespTopic

\* Commands that change one field of the session and are answered.
LEMMA DispatchAnswers ==
  ASSUME RespInv, NEW p, Busy(p)
  PROVE  LET a == Resp!Answered(peer[p]) IN
         /\ Resp!Fits(1) /\ ~peer[p].name
              => Follows(p, [a EXCEPT !.name = TRUE, !.held = peer[p].held + 1])
         /\ Follows(p, [a EXCEPT !.auth = TRUE, !.secret = FALSE])
         /\ Follows(p, [a EXCEPT !.auth = TRUE, !.secret = TRUE])
         /\ Follows(p, [a EXCEPT !.quits = TRUE])
         /\ Follows(p, [peer[p] EXCEPT !.waits = TRUE])
<1> DEFINE s == peer[p]
           a == Resp!Answered(s)
<1>1. /\ Answers(p, a) /\ a.held = s.held /\ a.queue = s.queue
      /\ a.watched = s.watched /\ a.name = s.name /\ a.multi = s.multi
  BY AnsweredFields
<1>2. /\ s \in RespPeer /\ SessionOK(s) /\ s.held \in Nat /\ s.queue \in Nat
      /\ s.at = "run" /\ Len(s.watched) \in Nat
  BY BusyFacts
<1>3. reqBytes \in Nat /\ reqBytes <= RequestBytes /\ RequestBytes \in Nat
  BY BusyFacts
<1>4. /\ s.held = s.queue + Len(s.watched) + IF s.name THEN 1 ELSE 0
      /\ s.queue <= MaxQueued
      /\ ~s.multi => s.queue = 0
  BY <1>2 DEF SessionOK
<1>5. reqBytes + s.held - s.held <= RequestBytes
  BY <1>2, <1>3
<1> HIDE DEF a
<1>6. ASSUME NEW t, Answers(p, t), t.held = s.held, t.queue = s.queue, t.watched = s.watched,
             t.name = s.name, t.multi = s.multi
      PROVE  Follows(p, t)
  BY <1>4, <1>5, <1>6, AnswersFollow
<1>7. Follows(p, [a EXCEPT !.auth = TRUE, !.secret = FALSE])
  <2> DEFINE t == [a EXCEPT !.auth = TRUE, !.secret = FALSE]
  <2>1. /\ Answers(p, t) /\ t.held = s.held /\ t.queue = s.queue /\ t.watched = s.watched
        /\ t.name = s.name /\ t.multi = s.multi
    BY <1>1 DEF Answers, RespPeer
  <2> HIDE DEF t
  <2>2. Follows(p, t)
    BY <1>6, <2>1
  <2> QED
    BY <2>2 DEF t
<1>8. Follows(p, [a EXCEPT !.auth = TRUE, !.secret = TRUE])
  <2> DEFINE t == [a EXCEPT !.auth = TRUE, !.secret = TRUE]
  <2>1. /\ Answers(p, t) /\ t.held = s.held /\ t.queue = s.queue /\ t.watched = s.watched
        /\ t.name = s.name /\ t.multi = s.multi
    BY <1>1 DEF Answers, RespPeer
  <2> HIDE DEF t
  <2>2. Follows(p, t)
    BY <1>6, <2>1
  <2> QED
    BY <2>2 DEF t
<1>9. Follows(p, [a EXCEPT !.quits = TRUE])
  <2> DEFINE t == [a EXCEPT !.quits = TRUE]
  <2>1. /\ Answers(p, t) /\ t.held = s.held /\ t.queue = s.queue /\ t.watched = s.watched
        /\ t.name = s.name /\ t.multi = s.multi
    BY <1>1 DEF Answers, RespPeer
  <2> HIDE DEF t
  <2>2. Follows(p, t)
    BY <1>6, <2>1
  <2> QED
    BY <2>2 DEF t
<1>10. Follows(p, [s EXCEPT !.waits = TRUE])
  <2> DEFINE t == [s EXCEPT !.waits = TRUE]
  <2>1. /\ t \in RespPeer /\ t.at = "run" /\ t.waits /\ t.cut = s.cut /\ t.told = s.told
        /\ t.pend = s.pend /\ t.asked = s.asked /\ t.subs = s.subs
        /\ t.held = s.held /\ t.queue = s.queue /\ t.watched = s.watched
        /\ t.name = s.name /\ t.multi = s.multi
    BY <1>2 DEF RespPeer
  <2> HIDE DEF t
  <2>2. AnswerOK(p, t)
    BY <1>4, <2>1 DEF AnswerOK
  <2>3. Follows(p, t)
    BY <1>5, <2>1, <2>2 DEF Follows
  <2> QED
    BY <2>3 DEF t
<1>11. ASSUME Resp!Fits(1), ~s.name
       PROVE  Follows(p, [a EXCEPT !.name = TRUE, !.held = s.held + 1])
  <2> DEFINE t == [a EXCEPT !.name = TRUE, !.held = s.held + 1]
  <2>1. /\ Answers(p, t) /\ t.held = s.held + 1 /\ t.queue = s.queue /\ t.watched = s.watched
        /\ t.name /\ t.multi = s.multi
    <3>1. s.held + 1 \in Nat
      BY <1>2
    <3> QED
      BY <1>1, <3>1 DEF Answers, RespPeer
  <2> HIDE DEF t
  <2>2. t.held = t.queue + Len(t.watched) + IF t.name THEN 1 ELSE 0
    <3> DEFINE l == Len(s.watched)
    <3>1. s.held = s.queue + l + 0 /\ l \in Nat /\ s.queue \in Nat
      BY <1>2, <1>4, <1>11
    <3> HIDE DEF l
    <3>2. s.held + 1 = s.queue + l + 1
      BY <3>1
    <3> QED
      BY <2>1, <3>2 DEF l
  <2>3. reqBytes + t.held - s.held <= RequestBytes
    BY <1>2, <1>3, <1>11, <2>1 DEF Resp!Fits
  <2>4. Follows(p, t)
    BY <1>4, <2>1, <2>2, <2>3, AnswersFollow
  <2> QED
    BY <2>4 DEF t
<1> QED
  BY <1>7, <1>8, <1>9, <1>10, <1>11 DEF a

LEMMA DispatchStep ==
  ASSUME RespInv, NEW p, NEW cmd, Busy(p), Resp!Dispatch(p, cmd), Resp!Same
  PROVE  RespInv'
<1> DEFINE s == peer[p]
           a == Resp!Answered(s)
           plain(t, wrote) == /\ Resp!After(p, t, wrote, reqBytes + t.held - s.held)
                              /\ UNCHANGED <<subCount, topics>>
           named == IF s.path # "each" /\ ~s.name /\ Resp!Fits(1)
                    THEN [a EXCEPT !.name = TRUE, !.held = s.held + 1] ELSE a
           keyed == IF secretOk THEN [a EXCEPT !.auth = TRUE, !.secret = TRUE] ELSE a
<1>1. ASSUME NEW t, NEW wrote, Follows(p, t), plain(t, wrote)
      PROVE  RespInv'
  BY <1>1, AfterStep
<1>2. Follows(p, a)
  BY AnsweredFollows
<1>3. Follows(p, named) /\ Follows(p, keyed)
  <2>1. /\ Resp!Fits(1) /\ ~s.name => Follows(p, [a EXCEPT !.name = TRUE, !.held = s.held + 1])
        /\ Follows(p, [a EXCEPT !.auth = TRUE, !.secret = TRUE])
    BY DispatchAnswers
  <2> HIDE DEF a
  <2>2. /\ named = a \/ (Resp!Fits(1) /\ ~s.name /\ named = [a EXCEPT !.name = TRUE, !.held = s.held + 1])
        /\ keyed = a \/ keyed = [a EXCEPT !.auth = TRUE, !.secret = TRUE]
    OBVIOUS
  <2> HIDE DEF named, keyed
  <2> QED
    BY <1>2, <2>1, <2>2
<1>4. /\ Follows(p, [a EXCEPT !.auth = TRUE, !.secret = FALSE])
      /\ Follows(p, [a EXCEPT !.quits = TRUE]) /\ Follows(p, [s EXCEPT !.waits = TRUE])
  BY DispatchAnswers
<1>5. \/ \E wrote \in BOOLEAN : plain(a, wrote)
      \/ Resp!Subscribe(p, Resp!Topic(cmd), FALSE)
      \/ Resp!Unsubscribe(p, "key", FALSE)
      \/ plain(named, FALSE)
      \/ plain([a EXCEPT !.auth = TRUE, !.secret = FALSE], FALSE)
      \/ plain(keyed, FALSE)
      \/ plain([a EXCEPT !.quits = TRUE], FALSE)
      \/ plain([s EXCEPT !.waits = TRUE], FALSE)
  <2>1. CASE gate = "down" \/ Resp!Subscribes(cmd) \/ cmd \in {"kunsub", "unsub", "punsub"}
    <3>1. \/ plain(a, FALSE) \/ Resp!Subscribe(p, Resp!Topic(cmd), FALSE)
          \/ Resp!Unsubscribe(p, "key", FALSE)
      <4>1. CASE gate = "down"
        BY <4>1 DEF Resp!Dispatch
      <4>2. CASE gate # "down" /\ Resp!Subscribes(cmd)
        BY <4>2, Zenon DEF Resp!Dispatch, Resp!Subscribes
      <4>3. CASE gate # "down" /\ ~Resp!Subscribes(cmd) /\ cmd = "kunsub"
        BY <4>3 DEF Resp!Dispatch
      <4>4. CASE gate # "down" /\ ~Resp!Subscribes(cmd) /\ cmd \in {"unsub", "punsub"}
        BY <4>4 DEF Resp!Dispatch
      <4> QED
        BY <2>1, <4>1, <4>2, <4>3, <4>4
    <3> HIDE DEF plain, a
    <3> QED
      BY <3>1
  <2>2. CASE /\ ~(gate = "down" \/ Resp!Subscribes(cmd) \/ cmd \in {"kunsub", "unsub", "punsub"})
             /\ cmd \in {"name", "auth", "authkey", "quit", "block"}
    <3>1. \/ plain(named, FALSE) \/ plain([a EXCEPT !.auth = TRUE, !.secret = FALSE], FALSE)
          \/ plain(keyed, FALSE) \/ plain([a EXCEPT !.quits = TRUE], FALSE)
          \/ plain([s EXCEPT !.waits = TRUE], FALSE)
      <4>1. ~Resp!Subscribes(cmd) /\ gate # "down"
        BY <2>2
      <4>2. CASE cmd = "name"
        BY <4>1, <4>2 DEF Resp!Dispatch
      <4>3. CASE cmd = "auth"
        BY <4>1, <4>3 DEF Resp!Dispatch
      <4>4. CASE cmd = "authkey"
        BY <4>1, <4>4 DEF Resp!Dispatch
      <4>5. CASE cmd = "quit"
        BY <4>1, <4>5 DEF Resp!Dispatch
      <4>6. CASE cmd = "block"
        BY <4>1, <4>6 DEF Resp!Dispatch
      <4> QED
        BY <2>2, <4>2, <4>3, <4>4, <4>5, <4>6
    <3> HIDE DEF plain, a, named, keyed
    <3> QED
      BY <3>1
  <2>3. CASE /\ ~(gate = "down" \/ Resp!Subscribes(cmd) \/ cmd \in {"kunsub", "unsub", "punsub"})
             /\ cmd \notin {"name", "auth", "authkey", "quit", "block"}
    <3>1. plain(a, cmd = "set")
      BY <2>3 DEF Resp!Dispatch
    <3> HIDE DEF plain, a
    <3> QED
      BY <3>1
  <2> QED
    BY <2>1, <2>2, <2>3
<1>6. CASE Resp!Subscribe(p, Resp!Topic(cmd), FALSE)
  BY <1>6, TopicTyped, SubscribeStep
<1>7. CASE Resp!Unsubscribe(p, "key", FALSE)
  BY <1>7, TopicTyped, UnsubscribeStep
<1>8. CASE \E wrote \in BOOLEAN : plain(a, wrote)
  <2> HIDE DEF plain, a
  <2> QED
    BY <1>1, <1>2, <1>8
<1> HIDE DEF plain, a, named, keyed
<1>9. CASE plain(named, FALSE) \/ plain(keyed, FALSE)
  BY <1>1, <1>3, <1>9
<1>10. CASE \/ plain([a EXCEPT !.auth = TRUE, !.secret = FALSE], FALSE)
            \/ plain([a EXCEPT !.quits = TRUE], FALSE)
            \/ plain([s EXCEPT !.waits = TRUE], FALSE)
  BY <1>1, <1>4, <1>10
<1> QED
  BY <1>5, <1>6, <1>7, <1>8, <1>9, <1>10

LEMMA InSubModeStep ==
  ASSUME RespInv, NEW p, NEW cmd, Busy(p), Resp!InSubMode(p, cmd), Resp!Same
  PROVE  RespInv'
<1>1. \/ Resp!Subscribe(p, Resp!Topic(cmd), TRUE) \/ Resp!Unsubscribe(p, Resp!Topic(cmd), TRUE)
      \/ Resp!Refuse(p)
  BY DEF Resp!InSubMode, Resp!Refuse
<1>2. CASE Resp!Subscribe(p, Resp!Topic(cmd), TRUE)
  BY <1>2, TopicTyped, SubscribeStep
<1>3. CASE Resp!Unsubscribe(p, Resp!Topic(cmd), TRUE)
  BY <1>3, TopicTyped, UnsubscribeStep
<1>4. CASE Resp!Refuse(p)
  BY <1>4, RefuseStep DEF Resp!Refuse
<1> QED
  BY <1>1, <1>2, <1>3, <1>4

LEMMA CommandStep ==
  ASSUME RespInv, NEW p \in Peer, Resp!Execute(p)
  PROVE  RespInv'
<1> DEFINE cmd == Head(peer[p].todo)
<1>1. Busy(p) /\ Resp!Same
  BY DEF Resp!Execute, Busy
<1>2. \/ Resp!InSubMode(p, cmd) \/ Resp!Refuse(p) \/ Resp!Exec(p) \/ Resp!TxCommand(p, cmd)
      \/ Resp!Dispatch(p, cmd)
  BY DEF Resp!Execute
<1> HIDE DEF cmd
<1>3. CASE Resp!Refuse(p)
  BY <1>1, <1>3, RefuseStep DEF Resp!Refuse
<1> QED
  BY <1>1, <1>2, <1>3, InSubModeStep, ExecStep, TxCommandStep, DispatchStep

-----------------------------------------------------------------------------
(* The rest of a pipeline, the flush and the waits                         *)

LEMMA GiveUpStep ==
  ASSUME RespInv, NEW p \in Peer, Resp!GiveUp(p)
  PROVE  RespInv'
<1> DEFINE s == peer[p]
           a == Resp!Answered(s)
           t == [a EXCEPT !.todo = <<>>, !.cut = TRUE]
<1>1. /\ s.at = "run" /\ peer' = [peer EXCEPT ![p] = t]
      /\ clients' = clients /\ blocked' = blocked /\ reqBytes' = reqBytes /\ readsLeft' = readsLeft
      /\ subCount' = subCount /\ topics' = topics /\ version' = version
  BY DEF Resp!GiveUp, Resp!Same
<1>2. /\ peer \in [Peer -> RespPeer] /\ s \in RespPeer /\ SessionOK(s)
      /\ s.pend \in Nat /\ s.held \in Nat /\ Resp!Cardinality(s.subs) \in Nat
  BY PeerFacts DEF RespInv, RespTyped
<1>3. /\ clients \in Nat /\ version \in Nat /\ readsLeft \in Nat /\ blocked \in Nat
      /\ reqBytes \in Nat /\ subCount \in Nat /\ clients <= MaxResp
      /\ reqBytes <= RequestBytes /\ subCount <= SubCapacity /\ blocked <= MaxBlocked
  BY PeerFacts
<1>4. /\ a \in RespPeer /\ a.at = s.at /\ a.pend = s.pend /\ a.asked = s.asked /\ a.held = s.held
      /\ a.queue = s.queue /\ a.watched = s.watched /\ a.name = s.name /\ a.multi = s.multi
      /\ a.subs = s.subs
  <2>1. s.told + 1 \in Nat
    BY <1>2 DEF RespPeer
  <2> QED
    BY <1>2, <2>1 DEF Resp!Answered, RespPeer
<1> HIDE DEF a
<1>5. /\ t \in RespPeer /\ t.at = s.at /\ t.pend = s.pend /\ t.asked = s.asked /\ t.held = s.held
      /\ t.queue = s.queue /\ t.watched = s.watched /\ t.name = s.name /\ t.multi = s.multi
      /\ t.subs = s.subs /\ t.cut
  <2>1. <<>> \in Seq(STRING)
    OBVIOUS
  <2> QED
    BY <1>4, <2>1 DEF RespPeer
<1> HIDE DEF t
<1>6. peer'[p] = t /\ Steps(p)
  BY <1>1, <1>2, <1>5 DEF Steps
<1>7. SessionOK(t)
  BY <1>1, <1>2, <1>5 DEF SessionOK
<1>8. topics' = UNION {peer'[x].subs : x \in Peer}
  BY <1>1, <1>5, <1>6, TopicsSame
<1>9. Counts(p)
  <2>1. Resp!Cardinality(peer'[p].subs) = Resp!Cardinality(s.subs)
    BY <1>5, <1>6
  <2>2. peer'[p].pend = s.pend /\ peer'[p].held = s.held /\ peer'[p].at = s.at /\ s.at = "run"
    BY <1>1, <1>5, <1>6
  <2>3. /\ clients' = clients /\ blocked' = blocked /\ reqBytes' = reqBytes
        /\ subCount' = subCount /\ Resp!Cardinality(s.subs) \in Nat /\ s.pend \in Nat /\ s.held \in Nat
    BY <1>1, <1>2
  <2> QED
    BY <1>3, <2>1, <2>2, <2>3, RespLimits DEF Counts, One
<1>10. SessionOK(peer[p])'
  BY <1>6, <1>7 DEF SessionOK
<1> QED
  BY <1>1, <1>3, <1>6, <1>8, <1>9, <1>10, RespStep DEF Settles

\* The replies are written: the bytes of the commands taken go back, and a blocking command
\* waits with a permit or not at all.
LEMMA FlushStep ==
  ASSUME RespInv, NEW p \in Peer, Resp!Flush(p)
  PROVE  RespInv'
<1> DEFINE s == peer[p]
           waits == s.waits /\ Resp!PermitLeft
           t == [s EXCEPT !.at = IF waits THEN "waiting" ELSE "idle",
                   !.pend = s.pend - s.asked, !.todo = <<>>, !.path = "none", !.waits = FALSE,
                   !.asked = 0, !.told = 0, !.cut = FALSE]
<1>1. /\ s.at = "run" /\ peer' = [peer EXCEPT ![p] = t]
      /\ reqBytes' = reqBytes - s.asked /\ blocked' = blocked + One(waits)
      /\ clients' = clients /\ readsLeft' = readsLeft
      /\ subCount' = subCount /\ topics' = topics /\ version' = version
  BY DEF Resp!Flush, Resp!Settled, One
<1>2. /\ peer \in [Peer -> RespPeer] /\ s \in RespPeer /\ SessionOK(s)
      /\ s.pend \in Nat /\ s.held \in Nat /\ Resp!Cardinality(s.subs) \in Nat /\ s.asked \in Nat
  BY PeerFacts DEF RespInv, RespTyped
<1>3. /\ clients \in Nat /\ version \in Nat /\ readsLeft \in Nat /\ blocked \in Nat
      /\ reqBytes \in Nat /\ subCount \in Nat /\ clients <= MaxResp
      /\ reqBytes <= RequestBytes /\ subCount <= SubCapacity /\ blocked <= MaxBlocked
  BY PeerFacts
<1>4. s.asked <= s.pend /\ s.pend - s.asked \in Nat
  <2>1. s.asked <= s.pend
    BY <1>1, <1>2 DEF SessionOK
  <2> QED
    BY <1>2, <2>1
<1>5. waits => blocked < MaxBlocked
  BY DEF Resp!PermitLeft
<1> HIDE DEF waits
<1>6. /\ t \in RespPeer /\ t.at = (IF waits THEN "waiting" ELSE "idle") /\ t.held = s.held
      /\ t.pend = s.pend - s.asked
      /\ t.queue = s.queue /\ t.watched = s.watched /\ t.name = s.name /\ t.multi = s.multi
      /\ t.subs = s.subs /\ ~t.cut /\ ~t.waits /\ t.asked = 0 /\ t.told = 0 /\ t.todo = <<>>
  <2>1. <<>> \in Seq(STRING) /\ (IF waits THEN "waiting" ELSE "idle") \in {"closed", "idle", "run", "waiting"}
    OBVIOUS
  <2> QED
    BY <1>2, <1>4, <2>1 DEF RespPeer
<1> HIDE DEF t
<1>7. peer'[p] = t /\ Steps(p)
  BY <1>1, <1>2, <1>6 DEF Steps
<1>8. SessionOK(t)
  <2>1. t.at # "closed" /\ t.at # "run"
    BY <1>6
  <2> QED
    BY <1>2, <1>6, <2>1 DEF SessionOK
<1>9. topics' = UNION {peer'[x].subs : x \in Peer}
  BY <1>1, <1>6, <1>7, TopicsSame
<1>10. Counts(p)
  <2>1. Resp!Cardinality(peer'[p].subs) = Resp!Cardinality(s.subs)
    BY <1>6, <1>7
  <2>2. /\ peer'[p].pend = s.pend - s.asked /\ peer'[p].held = s.held /\ s.at = "run"
        /\ peer'[p].at = IF waits THEN "waiting" ELSE "idle"
    BY <1>1, <1>6, <1>7
  <2>3. /\ clients' = clients /\ blocked' = blocked + One(waits) /\ reqBytes' = reqBytes - s.asked
        /\ subCount' = subCount /\ Resp!Cardinality(s.subs) \in Nat /\ s.pend \in Nat /\ s.held \in Nat
        /\ s.asked \in Nat
    BY <1>1, <1>2
  <2>4. /\ clients' = clients - One(s.at # "closed") + One(peer'[p].at # "closed")
        /\ blocked' = blocked - One(s.at = "waiting") + One(peer'[p].at = "waiting")
        /\ blocked' <= MaxBlocked
    BY <1>3, <1>5, <2>2, <2>3, RespLimits DEF One
  <2>5. reqBytes' = reqBytes - (s.pend + s.held) + (peer'[p].pend + peer'[p].held)
    BY <1>3, <2>2, <2>3
  <2>6. reqBytes' <= RequestBytes
    BY <1>3, <2>3, RespLimits
  <2>7. subCount' = subCount - Resp!Cardinality(s.subs) + Resp!Cardinality(peer'[p].subs)
    BY <1>3, <2>1, <2>3
  <2> QED
    BY <1>3, <2>3, <2>4, <2>5, <2>6, <2>7 DEF Counts
<1>11. SessionOK(peer[p])'
  BY <1>7, <1>8 DEF SessionOK
<1> QED
  BY <1>1, <1>3, <1>7, <1>9, <1>10, <1>11, RespStep DEF Settles

LEMMA WaitEndsStep ==
  ASSUME RespInv, NEW p \in Peer, Resp!WaitEnds(p)
  PROVE  RespInv'
<1> DEFINE s == peer[p]
           t == [s EXCEPT !.at = "idle"]
<1>1. /\ s.at = "waiting" /\ peer' = [peer EXCEPT ![p] = t] /\ blocked' = blocked - 1
      /\ reqBytes' = reqBytes /\ clients' = clients /\ readsLeft' = readsLeft
      /\ subCount' = subCount /\ topics' = topics /\ version' = version
  BY DEF Resp!WaitEnds
<1>2. /\ peer \in [Peer -> RespPeer] /\ s \in RespPeer /\ SessionOK(s)
      /\ s.pend \in Nat /\ s.held \in Nat /\ Resp!Cardinality(s.subs) \in Nat
  BY PeerFacts DEF RespInv, RespTyped
<1>3. /\ clients \in Nat /\ version \in Nat /\ readsLeft \in Nat /\ blocked \in Nat
      /\ reqBytes \in Nat /\ subCount \in Nat /\ clients <= MaxResp
      /\ reqBytes <= RequestBytes /\ subCount <= SubCapacity /\ blocked <= MaxBlocked
  BY PeerFacts
<1>4. /\ t \in RespPeer /\ t.at = "idle" /\ t.held = s.held /\ t.pend = s.pend
      /\ t.queue = s.queue /\ t.watched = s.watched /\ t.name = s.name /\ t.multi = s.multi
      /\ t.subs = s.subs /\ t.cut = s.cut /\ t.waits = s.waits /\ t.asked = s.asked
      /\ t.told = s.told /\ t.todo = s.todo
  BY <1>2 DEF RespPeer
<1> HIDE DEF t
<1>5. peer'[p] = t /\ Steps(p)
  BY <1>1, <1>2, <1>4 DEF Steps
<1>6. SessionOK(t)
  BY <1>1, <1>2, <1>4 DEF SessionOK
<1>7. topics' = UNION {peer'[x].subs : x \in Peer}
  BY <1>1, <1>4, <1>5, TopicsSame
<1>8. Counts(p)
  <2>1. Resp!Cardinality(peer'[p].subs) = Resp!Cardinality(s.subs)
    BY <1>4, <1>5
  <2>2. peer'[p].pend = s.pend /\ peer'[p].held = s.held /\ peer'[p].at = "idle" /\ s.at = "waiting"
    BY <1>1, <1>4, <1>5
  <2>3. /\ clients' = clients /\ blocked' = blocked - 1 /\ reqBytes' = reqBytes
        /\ subCount' = subCount /\ Resp!Cardinality(s.subs) \in Nat /\ s.pend \in Nat /\ s.held \in Nat
    BY <1>1, <1>2
  <2> QED
    BY <1>3, <2>1, <2>2, <2>3, RespLimits DEF Counts, One
<1>9. SessionOK(peer[p])'
  BY <1>5, <1>6 DEF SessionOK
<1> QED
  BY <1>1, <1>3, <1>5, <1>7, <1>8, <1>9, RespStep DEF Settles

\* The gate, the keys and the shutdown signal are no part of a session.
LEMMA RespQuiet ==
  ASSUME RespInv, UNCHANGED <<peer, clients, reqBytes, subCount, topics, blocked, version, readsLeft>>
  PROVE  RespInv'
  BY DEF RespInv, RespTyped, BudgetInv, Waiting, Connected, SessionOK

-----------------------------------------------------------------------------
(* RESP sessions: the theorems                                             *)

LEMMA RespStarts ==
  ASSUME Resp!RespInit
  PROVE  RespInv
<1>1. /\ peer = [p \in Peer |-> Resp!NewSession] /\ clients = 0 /\ reqBytes = 0 /\ subCount = 0
      /\ topics = {} /\ blocked = 0 /\ version = 0 /\ readsLeft = MaxReads
  BY DEF Resp!RespInit
<1>2. \A p \in Peer : peer[p] = Resp!NewSession
  BY <1>1
<1>3. /\ Resp!NewSession.at = "closed" /\ Resp!NewSession.pend = 0 /\ Resp!NewSession.held = 0
      /\ Resp!NewSession.subs = {}
  BY DEF Resp!NewSession
<1>4. RespTyped
  BY <1>1, NewSessionOK, RespLimits DEF RespTyped
<1>5. Waiting = {} /\ Connected = {} /\ UNION {peer[p].subs : p \in Peer} = {}
  BY <1>2, <1>3 DEF Waiting, Connected
<1>6. Cardinality({}) = 0
  BY FS_EmptySet
<1>7. Buffered(peer) = 0
  <2> DEFINE h == [p \in Peer |-> peer[p].pend + peer[p].held]
  <2>1. PICK F : SumsOver(h, Peer, F) /\ Buffered(peer) = F[Peer]
    BY BufferedIsSum
  <2>2. \A p \in Peer : h[p] = 0
    BY <1>2, <1>3
  <2> HIDE DEF h
  <2> QED
    BY <2>1, <2>2, RespAssumption, SumOfZeros
<1>8. Subscribed(peer) = 0
  <2> DEFINE h == [p \in Peer |-> Resp!Cardinality(peer[p].subs)]
  <2>1. PICK F : SumsOver(h, Peer, F) /\ Subscribed(peer) = F[Peer]
    BY SubscribedIsSum
  <2>2. \A p \in Peer : h[p] = 0
    BY <1>2, NewSessionOK
  <2> HIDE DEF h
  <2> QED
    BY <2>1, <2>2, RespAssumption, SumOfZeros
<1>9. BudgetInv
  <2>1. Cardinality(Waiting) = 0 /\ Cardinality(Connected) = 0
    BY <1>5, <1>6
  <2>2. topics = UNION {peer[p].subs : p \in Peer}
    BY <1>1, <1>5
  <2> QED
    BY <1>1, <1>7, <1>8, <2>1, <2>2, RespLimits DEF BudgetInv
<1>10. \A p \in Peer : SessionOK(peer[p])
  BY <1>2, NewSessionOK
<1> QED
  BY <1>4, <1>9, <1>10 DEF RespInv

LEMMA RespNextStep ==
  ASSUME RespInv, [Resp!RespNext]_(Resp!respVars)
  PROVE  RespInv'
<1>1. CASE UNCHANGED Resp!respVars
  BY <1>1, RespQuiet DEF Resp!respVars
<1>2. ASSUME NEW p \in Peer,
             \/ Resp!Connect(p) \/ Resp!Leave(p) \/ Resp!Execute(p) \/ Resp!GiveUp(p)
             \/ Resp!Flush(p) \/ Resp!FlushAndEnd(p) \/ Resp!WaitEnds(p)
             \/ Resp!WaitRevoked(p) \/ Resp!Abort(p)
             \/ \E cmds \in Pipelines[p], rest \in 0..1 : Resp!Read(p, cmds, rest)
      PROVE  RespInv'
  <2>1. CASE Resp!Connect(p)
    BY <2>1, ConnectStep
  <2>2. CASE Resp!Leave(p) \/ Resp!FlushAndEnd(p) \/ Resp!WaitRevoked(p) \/ Resp!Abort(p)
    <3>1. peer[p].at # "closed" /\ Resp!End(p)
      BY <2>2 DEF Resp!Leave, Resp!FlushAndEnd, Resp!Settled, Resp!WaitRevoked, Resp!Abort
    <3> QED
      BY <3>1, EndStep
  <2>3. CASE Resp!Execute(p)
    BY <2>3, CommandStep
  <2>4. CASE Resp!GiveUp(p)
    BY <2>4, GiveUpStep
  <2>5. CASE Resp!Flush(p)
    BY <2>5, FlushStep
  <2>6. CASE Resp!WaitEnds(p)
    BY <2>6, WaitEndsStep
  <2>7. CASE \E cmds \in Pipelines[p], rest \in 0..1 : Resp!Read(p, cmds, rest)
    BY <2>7, ReadStep
  <2> QED
    BY <1>2, <2>1, <2>2, <2>3, <2>4, <2>5, <2>6, <2>7
<1>3. CASE Resp!Poisons \/ Resp!RevokeSecret \/ Resp!FirstKey \/ Resp!Stop
  BY <1>3, RespQuiet DEF Resp!Poisons, Resp!RevokeSecret, Resp!FirstKey, Resp!Stop, Resp!Others
<1> QED
  BY <1>1, <1>2, <1>3 DEF Resp!RespNext

\* Every session of the RESP port charges what it keeps and answers what it was asked, and the
\* process-wide budgets never exceed their limits (RespInv, handle_connection and
\* CommandSession).
THEOREM RespInvariant == AccessSpec => [](part = "resp" => RespInv)
<1>1. AccessInit => (part = "resp" => RespInv)
  BY RespStarts DEF AccessInit
<1>2. (part = "resp" => RespInv) /\ [AccessNext]_accessVars => (part = "resp" => RespInv)'
  <2> SUFFICES ASSUME part = "resp" => RespInv, [AccessNext]_accessVars, part' = "resp"
               PROVE  RespInv'
    OBVIOUS
  <2>1. part = "resp" /\ [Resp!RespNext]_(Resp!respVars)
    BY DEF AccessNext, accessVars, Resp!respVars, respVars
  <2> QED
    BY <2>1, RespNextStep
<1> QED
  BY <1>1, <1>2, PTL DEF AccessSpec

\* The sums of the invariant are those of SessionsExact, and its account of every pipeline is
\* RepliesInStep: the budgets of requests, subscriptions, connections and blocked clients are
\* what the sessions hold, and a flush finds one reply for each command.
THEOREM RespBudgetsExact ==
  AccessSpec => [](part = "resp" => Resp!SessionsExact /\ Resp!RepliesInStep)
<1>1. (part = "resp" => RespInv) => (part = "resp" => Resp!SessionsExact /\ Resp!RepliesInStep)
  <2> SUFFICES ASSUME RespInv PROVE Resp!SessionsExact /\ Resp!RepliesInStep
    OBVIOUS
  <2>1. Resp!SessionsExact
    <3>1. /\ reqBytes = Buffered(peer) /\ subCount = Subscribed(peer)
          /\ blocked = Cardinality(Waiting) /\ clients = Cardinality(Connected)
          /\ topics = UNION {peer[p].subs : p \in Peer}
      BY DEF RespInv, BudgetInv
    <3>2. /\ blocked = Resp!Cardinality({p \in Peer : peer[p].at = "waiting"})
          /\ clients = Resp!Cardinality({p \in Peer : peer[p].at # "closed"})
      BY <3>1, RespCounts DEF Waiting, Connected
    <3>3. /\ reqBytes = Resp!Total(LAMBDA p : peer[p].pend + peer[p].held)
          /\ subCount = Resp!Total(LAMBDA p : Resp!Cardinality(peer[p].subs))
      BY <3>1 DEF Resp!Total, Buffered, Subscribed
    <3>4. \A p \in Peer :
            peer[p].held = peer[p].queue + Len(peer[p].watched) + IF peer[p].name THEN 1 ELSE 0
      BY DEF RespInv, SessionOK
    <3> QED
      BY <3>1, <3>2, <3>3, <3>4 DEF Resp!SessionsExact
  <2>2. Resp!RepliesInStep
    <3> SUFFICES ASSUME NEW p \in Peer, Resp!Settled(peer[p]), ~peer[p].cut, peer[p].todo = <<>>
                 PROVE  peer[p].asked = peer[p].told + IF peer[p].waits THEN 1 ELSE 0
      BY DEF Resp!RepliesInStep
    <3>1. peer[p] \in RespPeer /\ SessionOK(peer[p])
      BY PeerFacts
    <3>2. peer[p].asked = peer[p].told + Len(peer[p].todo) + IF peer[p].waits THEN 1 ELSE 0
      BY <3>1 DEF SessionOK, Resp!Settled
    <3>3. Len(peer[p].todo) = 0 /\ peer[p].told \in Nat
      BY <3>1 DEF RespPeer
    <3> QED
      BY <3>2, <3>3
  <2> QED
    BY <2>1, <2>2
<1> QED
  BY <1>1, RespInvariant, PTL

=============================================================================
