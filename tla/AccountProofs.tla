--------------------------- MODULE AccountProofs ----------------------------
(***************************************************************************)
(* Accounts and push delivery: what AuthAccounts and Push promise, proved  *)
(* for every set of users, addresses, providers, tokens, devices and       *)
(* concurrent requests and every bound.                                    *)
(*                                                                         *)
(* A request is several statements, and no statement sees what the others  *)
(* of its request saw.  One account per address rests on the UNIQUE        *)
(* columns alone.  That nothing is left half-made rests on order: the      *)
(* account is there before its identity, and whoever is about to delete an *)
(* account has taken its identities away first (InOrder).  That argument   *)
(* needs that nobody inserts an identity between the two statements, which *)
(* is what the absence of an overlapping deletion gives (AloneInv).        *)
(*                                                                         *)
(* Push delivery holds a lock between count and insert instead: the quota  *)
(* rests on the registry (RegisterOK), the capacity on the enqueue guard   *)
(* (SendOK).  The worker holds none while it delivers, so what it may do   *)
(* rests on the rows of its batch staying pending until the outcome is     *)
(* applied (WorkerInv).                                                    *)
(***************************************************************************)
EXTENDS MCAccess, TLAPS, FiniteSetTheorems

-----------------------------------------------------------------------------
(* Accounts: the inductive invariant                                       *)

\* Requests, and rows of the tables.
AcctOp == {"", "signup", "admin", "anon", "oauth", "recovery", "oauth_code", "password",
           "self", "adminUpdate", "delete"}
AcctRequest ==
  [op : AcctOp,
   at : {"idle", "user", "identity", "session", "undo", "undoUser", "mail", "verified",
         "code", "update", "updateIdentity", "delIdentities", "delSessions", "delUser"},
   uid : UserId \cup {""}, email : Email \cup {"", "anon"},
   pid : Email \cup Subject \cup {""}, made : BOOLEAN, conf : BOOLEAN, shared : BOOLEAN]
UserRow == [email : Email \cup {"", "anon"}, confirmed : BOOLEAN]
FlowRow == {r \in [kind : AcctOp, uid : UserId \cup {""}, consumed : BOOLEAN] :
              r.kind # "" => r.uid \in UserId}
IdentityRow == [pid : Email \cup Subject, uid : UserId]

AcctTyped ==
  /\ settings \in [confirm : BOOLEAN, oauth : BOOLEAN] /\ overlap \in BOOLEAN
  /\ users \in [UserId -> UserRow] /\ idents \subseteq IdentityRow
  /\ flows \in [Flow -> FlowRow] /\ uses \in [Flow -> {0, 1}]
  /\ act \in [Actor -> AcctRequest] /\ refused \subseteq UserId /\ ignored \subseteq UserId

\* A request past the row of its account has an id, one that writes an address or an
\* identity has it.
ActOK(q) ==
  /\ q.at \notin {"idle", "user"} => q.uid \in UserId
  /\ q.at \in {"update", "updateIdentity"} => q.email \in Email
  /\ q.at = "user" => q.email # "" /\ (q.op # "anon" => q.pid # "")
  /\ q.at = "identity" => q.pid # ""
  /\ q.op = "anon" => q.at \in {"user", "session", "undoUser"}
ActsInv == \A a \in Actor : ActOK(act[a])

\* A request that nobody ran beside is the only one.
AloneInv ==
  \A a \in Actor : act[a] # Accounts!Done /\ ~act[a].shared =>
    \A b \in Actor \ {a} : act[b] = Accounts!Done

\* A token that was accepted is marked.
UsedInv == \A f \in Flow : uses[f] # 0 => flows[f].consumed

\* Nothing is left of a refused account, unless its clean-up failed.
RefusedInv == \A u \in refused : Accounts!Exists(u) => u \in ignored

\* A request that deletes its account if the next statement fails.
MayUndo(q) == q.made /\ (q.at = "identity" \/ (q.at = "session" /\ q.op = "anon"))

\* As long as no deletion overlapped: an identity has its account, one that is about to
\* be inserted too, and whoever is about to delete the account, or may have to, has
\* left it no identity; accounts whose clean-up failed are excepted.
Unnamed(a) == \A i \in idents : i.uid # act[a].uid \/ i.uid \in ignored
InOrder ==
  /\ \A i \in idents : Accounts!Exists(i.uid) \/ i.uid \in ignored
  /\ \A a \in Actor : act[a].at = "identity" => Accounts!Exists(act[a].uid)
  /\ \A a \in Actor : ~act[a].shared =>
       /\ act[a].at \in {"undoUser", "delSessions", "delUser"} => Unnamed(a)
       /\ MayUndo(act[a]) => Unnamed(a)
OrphanInv == ~overlap => InOrder

AcctInv ==
  /\ AcctTyped /\ ActsInv /\ AloneInv /\ Accounts!OneAccountPerEmail
  /\ UsedInv /\ RefusedInv /\ OrphanInv

-----------------------------------------------------------------------------
(* What the steps of a request do                                          *)

\* The fields of a request have their types.
LEMMA AcctFields ==
  ASSUME AcctTyped, NEW a \in Actor
  PROVE  /\ act[a] \in AcctRequest /\ act[a].op \in AcctOp
         /\ act[a].uid \in UserId \cup {""} /\ act[a].email \in Email \cup {"", "anon"}
         /\ act[a].pid \in Email \cup Subject \cup {""} /\ act[a].made \in BOOLEAN
         /\ act[a].conf \in BOOLEAN /\ act[a].shared \in BOOLEAN
<1>1. act[a] \in AcctRequest
  BY DEF AcctTyped
<1> QED
  BY <1>1 DEF AcctRequest

\* No request.
LEMMA DoneShape ==
  /\ Accounts!Done \in AcctRequest /\ Accounts!Done.at = "idle" /\ ~Accounts!Done.made
  /\ ~Accounts!Done.shared /\ ActOK(Accounts!Done) /\ ~MayUndo(Accounts!Done)
<1>1. /\ Accounts!Done \in AcctRequest /\ Accounts!Done.at = "idle" /\ ~Accounts!Done.made
      /\ ~Accounts!Done.shared /\ Accounts!Done.op = ""
  BY DEF Accounts!Done, AcctRequest, AcctOp
<1> QED
  BY <1>1 DEF ActOK, MayUndo

\* Two requests that differ at most in the ghost that says whether they overlap.
Alike(q, r) ==
  /\ q.op = r.op /\ q.at = r.at /\ q.uid = r.uid /\ q.email = r.email /\ q.pid = r.pid
  /\ q.made = r.made /\ q.conf = r.conf

\* A request begins: it and whatever runs are no longer alone.
LEMMA StartEffect ==
  ASSUME AcctTyped, NEW a \in Actor, NEW rec \in AcctRequest, ~rec.shared,
         Accounts!Start(a, rec)
  PROVE  /\ act' \in [Actor -> AcctRequest] /\ act[a] = Accounts!Done
         /\ Alike(act'[a], rec)
         /\ \A b \in Actor \ {a} :
              \/ act'[b] = act[b]
              \/ act[b] # Accounts!Done /\ Alike(act'[b], act[b]) /\ act'[b].shared
         /\ AloneInv => AloneInv'
<1> DEFINE busy == {b \in Actor : act[b] # Accounts!Done}
           new == IF rec = Accounts!Done THEN Accounts!Done
                  ELSE [rec EXCEPT !.shared = busy # {}]
           later(b) == IF b \in busy
                       THEN [act[b] EXCEPT !.shared = act[b].shared \/ rec # Accounts!Done]
                       ELSE act[b]
<1>1. /\ a \notin busy
      /\ act' = [b \in Actor |-> IF b = a THEN new ELSE later(b)]
  BY DEF Accounts!Start
<1>2. /\ new \in AcctRequest /\ Alike(new, rec)
      /\ rec # Accounts!Done => (new.shared <=> busy # {})
      /\ rec = Accounts!Done => new = Accounts!Done
  <2>1. CASE rec = Accounts!Done
    BY <2>1, DoneShape DEF Alike
  <2>2. CASE rec # Accounts!Done
    BY <2>2 DEF AcctRequest, Alike
  <2> QED
    BY <2>1, <2>2
<1>3. ASSUME NEW b \in Actor
      PROVE  /\ later(b) \in AcctRequest /\ Alike(later(b), act[b])
             /\ b \in busy /\ rec # Accounts!Done => later(b).shared
             /\ ~later(b).shared => ~act[b].shared
             /\ rec = Accounts!Done \/ b \notin busy => later(b) = act[b]
  <2>1. act[b] \in AcctRequest /\ act[b].shared \in BOOLEAN
    BY AcctFields
  <2>2. CASE b \notin busy
    BY <2>1, <2>2 DEF Alike
  <2>3. CASE b \in busy /\ rec # Accounts!Done
    <3>1. later(b) = [act[b] EXCEPT !.shared = TRUE]
      BY <2>3
    <3> QED
      BY <2>1, <2>3, <3>1 DEF AcctRequest, Alike
  <2>4. CASE b \in busy /\ rec = Accounts!Done
    <3>1. later(b) = act[b]
      BY <2>1, <2>4 DEF AcctRequest
    <3> QED
      BY <2>1, <2>4, <3>1 DEF Alike
  <2> QED
    BY <2>2, <2>3, <2>4
<1> HIDE DEF new, later
<1>4. /\ act'[a] = new /\ \A b \in Actor \ {a} : act'[b] = later(b)
      /\ act' \in [Actor -> AcctRequest]
  BY <1>1, <1>2, <1>3
<1>5. \A b \in Actor \ {a} :
        \/ act'[b] = act[b]
        \/ act[b] # Accounts!Done /\ Alike(act'[b], act[b]) /\ act'[b].shared
  BY <1>3, <1>4
<1>6. ASSUME AloneInv PROVE AloneInv'
  <2>1. SUFFICES ASSUME NEW b \in Actor, act'[b] # Accounts!Done, ~act'[b].shared,
                        NEW c \in Actor \ {b}
                 PROVE  act'[c] = Accounts!Done
    BY DEF AloneInv
  <2>2. CASE rec = Accounts!Done
    <3>1. act'[a] = Accounts!Done /\ \A o \in Actor \ {a} : act'[o] = act[o]
      BY <1>2, <1>3, <1>4, <2>2
    <3>2. b # a /\ act'[b] = act[b]
      BY <2>1, <3>1
    <3> QED
      BY <1>6, <2>1, <3>1, <3>2 DEF AloneInv
  <2>3. CASE rec # Accounts!Done
    <3>1. b = a
      <4>1. SUFFICES ASSUME b # a PROVE FALSE
        OBVIOUS
      <4>2. act'[b] = later(b)
        BY <1>4, <4>1
      <4>3. b \notin busy
        BY <1>3, <2>1, <2>3, <4>2
      <4> QED
        BY <1>3, <2>1, <4>2, <4>3
    <3>2. busy = {}
      BY <1>2, <1>4, <2>1, <2>3, <3>1
    <3> QED
      BY <1>3, <1>4, <3>1, <3>2
  <2> QED
    BY <2>2, <2>3
<1> QED
  BY <1>1, <1>2, <1>4, <1>5, <1>6

\* A request that is under way goes on to q or ends.
LEMMA OwnEffect ==
  ASSUME AcctTyped, NEW a \in Actor, act[a].at # "idle", NEW q \in AcctRequest,
         q = Accounts!Done \/ q.shared = act[a].shared, act' = [act EXCEPT ![a] = q]
  PROVE  /\ act' \in [Actor -> AcctRequest] /\ act'[a] = q
         /\ \A b \in Actor \ {a} : act'[b] = act[b]
         /\ act[a] # Accounts!Done /\ (AloneInv => AloneInv')
<1>1. /\ act' \in [Actor -> AcctRequest] /\ act'[a] = q
      /\ \A b \in Actor \ {a} : act'[b] = act[b]
  BY DEF AcctTyped
<1>2. act[a] # Accounts!Done
  BY DoneShape
<1>3. ASSUME AloneInv PROVE AloneInv'
  <2>1. SUFFICES ASSUME NEW b \in Actor, act'[b] # Accounts!Done, ~act'[b].shared,
                        NEW c \in Actor \ {b}
                 PROVE  act'[c] = Accounts!Done
    BY DEF AloneInv
  <2>2. b = a
    BY <1>1, <1>2, <1>3, <2>1 DEF AloneInv
  <2> QED
    BY <1>1, <1>2, <1>3, <2>1, <2>2 DEF AloneInv
<1> QED
  BY <1>1, <1>2, <1>3

\* Going on to another statement.
LEMMA GoesEffect ==
  ASSUME AcctTyped, NEW a \in Actor, act[a].at # "idle",
         NEW at \in {"session", "undo", "undoUser", "mail", "code", "updateIdentity",
                     "delSessions", "delUser"},
         Accounts!Goes(a, at)
  PROVE  /\ act' \in [Actor -> AcctRequest] /\ act'[a].at = at
         /\ act'[a].uid = act[a].uid /\ act'[a].email = act[a].email
         /\ act'[a].shared = act[a].shared /\ act'[a].op = act[a].op
         /\ \A b \in Actor \ {a} : act'[b] = act[b]
         /\ act[a] # Accounts!Done /\ (AloneInv => AloneInv')
<1> DEFINE q == [act[a] EXCEPT !.at = at]
<1>1. act[a] \in AcctRequest
  BY AcctFields
<1>2. /\ q \in AcctRequest /\ q.at = at /\ q.uid = act[a].uid /\ q.email = act[a].email
      /\ q.shared = act[a].shared /\ q.op = act[a].op
  BY <1>1 DEF AcctRequest
<1>3. act' = [act EXCEPT ![a] = q]
  BY DEF Accounts!Goes
<1> HIDE DEF q
<1> QED
  BY <1>2, <1>3, OwnEffect

\* The end of a request.
LEMMA AcctEnds ==
  ASSUME AcctTyped, NEW a \in Actor, act[a].at # "idle", Accounts!Ends(a)
  PROVE  /\ act' \in [Actor -> AcctRequest] /\ act'[a] = Accounts!Done
         /\ \A b \in Actor \ {a} : act'[b] = act[b]
         /\ act[a] # Accounts!Done /\ (AloneInv => AloneInv')
  BY DoneShape, OwnEffect DEF Accounts!Ends

-----------------------------------------------------------------------------
(* What keeps the invariant                                                *)

\* What a request may begin with.
StartOK(rec) ==
  /\ rec \in AcctRequest /\ ~rec.shared /\ ~rec.made /\ ActOK(rec)
  /\ rec.at \notin {"undoUser", "delSessions", "delUser"}
  /\ rec.at = "identity" => Accounts!Exists(rec.uid)

\* A request begins.
LEMMA StartKeeps ==
  ASSUME AcctInv, NEW a \in Actor, NEW rec, StartOK(rec), Accounts!Start(a, rec),
         UNCHANGED <<settings, users, idents, refused, ignored, overlap>>,
         flows' \in [Flow -> FlowRow], uses' \in [Flow -> {0, 1}], UsedInv'
  PROVE  AcctInv'
<1>0. AcctTyped /\ ActsInv /\ AloneInv /\ OrphanInv
  BY DEF AcctInv
<1>1. /\ act' \in [Actor -> AcctRequest] /\ act[a] = Accounts!Done
      /\ Alike(act'[a], rec)
      /\ \A b \in Actor \ {a} :
           \/ act'[b] = act[b]
           \/ act[b] # Accounts!Done /\ Alike(act'[b], act[b]) /\ act'[b].shared
      /\ AloneInv'
  BY <1>0, StartEffect DEF StartOK
<1>2. AcctTyped'
  BY <1>0, <1>1 DEF AcctTyped
<1>3. ActsInv'
  <2>1. \A q, r : Alike(q, r) /\ ActOK(r) => ActOK(q)
    BY DEF Alike, ActOK
  <2>2. \A b \in Actor : ActOK(act'[b])
    BY <1>0, <1>1, <2>1 DEF ActsInv, StartOK
  <2> QED
    BY <2>2 DEF ActsInv
<1>4. OrphanInv'
  <2>1. SUFFICES ASSUME ~overlap' PROVE InOrder'
    BY DEF OrphanInv
  <2>2. /\ \A i \in idents : Accounts!Exists(i.uid) \/ i.uid \in ignored
        /\ \A b \in Actor : act[b].at = "identity" => Accounts!Exists(act[b].uid)
        /\ \A b \in Actor : ~act[b].shared =>
             /\ act[b].at \in {"undoUser", "delSessions", "delUser"} => Unnamed(b)
             /\ MayUndo(act[b]) => Unnamed(b)
    BY <1>0, <2>1 DEF OrphanInv, InOrder
  <2>3. ASSUME NEW b \in Actor
        PROVE  /\ act'[b].at = "identity" => users'[act'[b].uid] # Accounts!NoUser
               /\ ~act'[b].shared /\ act'[b].at \in {"undoUser", "delSessions", "delUser"} => Unnamed(b)'
               /\ ~act'[b].shared /\ MayUndo(act'[b]) => Unnamed(b)'
    BY <1>1, <2>2 DEF Alike, StartOK, Unnamed, MayUndo, Accounts!Exists
  <2>4. \A i \in idents' : users'[i.uid] # Accounts!NoUser \/ i.uid \in ignored'
    BY <2>2 DEF Accounts!Exists
  <2> QED
    BY <2>3, <2>4 DEF InOrder, Accounts!Exists
<1>5. Accounts!OneAccountPerEmail' /\ RefusedInv'
  BY DEF AcctInv, Accounts!OneAccountPerEmail, Accounts!Exists, RefusedInv
<1> QED
  BY <1>1, <1>2, <1>3, <1>4, <1>5 DEF AcctInv

\* A step of request a, after which only a is different.
Moved(a) ==
  /\ act' \in [Actor -> AcctRequest] /\ \A b \in Actor \ {a} : act'[b] = act[b]
  /\ act[a] # Accounts!Done /\ AloneInv' /\ ActOK(act'[a])

\* A step that deletes no account, and leaves its own in order.
LEMMA OwnKeeps ==
  ASSUME AcctInv, NEW a \in Actor, Moved(a),
         AcctTyped', Accounts!OneAccountPerEmail', UsedInv', RefusedInv',
         overlap => overlap', ignored \subseteq ignored',
         \A u \in UserId : Accounts!Exists(u) => users'[u] # Accounts!NoUser,
         ~overlap' => /\ \A i \in idents' \ idents : users'[i.uid] # Accounts!NoUser \/ i.uid \in ignored'
                      /\ act'[a].at = "identity" => users'[act'[a].uid] # Accounts!NoUser,
         ~overlap' /\ ~act'[a].shared =>
           /\ act'[a].at \in {"undoUser", "delSessions", "delUser"} => Unnamed(a)'
           /\ MayUndo(act'[a]) => Unnamed(a)'
  PROVE  AcctInv'
<1>0. AcctTyped /\ ActsInv /\ AloneInv /\ OrphanInv
  BY DEF AcctInv
<1>1. ActsInv'
  <2>1. \A b \in Actor : ActOK(act'[b])
    BY <1>0 DEF ActsInv, Moved
  <2> QED
    BY <2>1 DEF ActsInv
<1>2. OrphanInv'
  <2>1. SUFFICES ASSUME ~overlap' PROVE InOrder'
    BY DEF OrphanInv
  <2>2. /\ \A i \in idents : i.uid \in UserId /\ (Accounts!Exists(i.uid) \/ i.uid \in ignored)
        /\ \A b \in Actor : act[b].at = "identity" =>
             act[b].uid \in UserId /\ Accounts!Exists(act[b].uid)
    BY <1>0, <2>1 DEF OrphanInv, InOrder, ActsInv, ActOK, AcctTyped, IdentityRow
  <2>3. \A i \in idents' : users'[i.uid] # Accounts!NoUser \/ i.uid \in ignored'
    BY <2>1, <2>2
  <2>4. ASSUME NEW b \in Actor, act'[b].at = "identity" PROVE users'[act'[b].uid] # Accounts!NoUser
    <3>1. CASE b = a
      BY <2>1, <2>4, <3>1
    <3>2. CASE b # a
      <4>1. act'[b] = act[b]
        BY <3>2 DEF Moved
      <4> QED
        BY <2>2, <2>4, <4>1
    <3> QED
      BY <3>1, <3>2
  <2>5. ASSUME NEW b \in Actor, b # a, ~act'[b].shared PROVE act'[b].at = "idle"
    BY <1>0, <2>5, DoneShape DEF Moved, AloneInv
  <2> QED
    BY <2>1, <2>3, <2>4, <2>5 DEF InOrder, MayUndo, Accounts!Exists
<1> QED
  BY <1>1, <1>2 DEF AcctInv, Moved

\* A step that changes neither accounts nor identities.
LEMMA QuietKeeps ==
  ASSUME AcctInv, NEW a \in Actor, Moved(a),
         UNCHANGED <<settings, users, idents, refused, ignored, overlap>>,
         flows' \in [Flow -> FlowRow], uses' \in [Flow -> {0, 1}], UsedInv',
         act'[a].at \notin {"identity", "undoUser", "delSessions", "delUser"},
         ~MayUndo(act'[a])
  PROVE  AcctInv'
<1>1. AcctTyped'
  BY DEF AcctInv, AcctTyped, Moved
<1>2. Accounts!OneAccountPerEmail' /\ RefusedInv'
  BY DEF AcctInv, Accounts!OneAccountPerEmail, Accounts!Exists, RefusedInv
<1>3. \A u \in UserId : Accounts!Exists(u) => users'[u] # Accounts!NoUser
  BY DEF Accounts!Exists
<1> QED
  BY <1>1, <1>2, <1>3, OwnKeeps

\* An account is deleted by a request that then ends: it has no identity left, or
\* the deletion overlapped.
LEMMA DeletionKeeps ==
  ASSUME AcctInv, NEW a \in Actor, act[a].at # "idle", act[a].uid \in UserId,
         users' = [users EXCEPT ![act[a].uid] = Accounts!NoUser],
         Accounts!Ends(a), Accounts!Deletes(a),
         refused' = refused \/ refused' = refused \cup {act[a].uid},
         ~overlap /\ ~act[a].shared => Unnamed(a),
         UNCHANGED <<settings, idents, flows, uses, ignored>>
  PROVE  AcctInv'
<1>0. AcctTyped /\ ActsInv /\ AloneInv /\ OrphanInv
  BY DEF AcctInv
<1>1. /\ act' \in [Actor -> AcctRequest] /\ act'[a] = Accounts!Done
      /\ \A b \in Actor \ {a} : act'[b] = act[b]
      /\ act[a] # Accounts!Done /\ AloneInv'
  BY <1>0, AcctEnds
<1>2. Accounts!NoUser \in UserRow
  BY DEF Accounts!NoUser, UserRow
<1>3. /\ users' \in [UserId -> UserRow] /\ users'[act[a].uid] = Accounts!NoUser
      /\ \A u \in UserId \ {act[a].uid} : users'[u] = users[u]
  BY <1>0, <1>2 DEF AcctTyped, Accounts!Exists
<1>4. AcctTyped'
  <2>1. overlap' \in BOOLEAN
    BY <1>0 DEF Accounts!Deletes, AcctTyped
  <2> QED
    BY <1>0, <1>1, <1>3, <2>1 DEF AcctTyped
<1>5. ActsInv'
  <2>1. \A b \in Actor : ActOK(act'[b])
    BY <1>0, <1>1, DoneShape DEF ActsInv
  <2> QED
    BY <2>1 DEF ActsInv
<1>6. Accounts!OneAccountPerEmail'
  <2>1. /\ \A u, v \in UserId : Accounts!Exists(u) /\ Accounts!Exists(v) /\ users[u].email = users[v].email
                                  /\ users[u].email # "anon" => u = v
        /\ \A i, j \in idents : i.pid = j.pid => i = j
    BY DEF AcctInv, Accounts!OneAccountPerEmail
  <2>2. \A u \in UserId : users'[u] # Accounts!NoUser => Accounts!Exists(u) /\ users'[u] = users[u]
    BY <1>3 DEF Accounts!Exists
  <2>3. \A u, v \in UserId :
          users'[u] # Accounts!NoUser /\ users'[v] # Accounts!NoUser /\ users'[u].email = users'[v].email
            /\ users'[u].email # "anon" => u = v
    BY <2>1, <2>2
  <2> QED
    BY <2>1, <2>3 DEF Accounts!OneAccountPerEmail, Accounts!Exists
<1>7. UsedInv' /\ RefusedInv'
  <2>1. \A u \in refused : u \in UserId /\ (Accounts!Exists(u) => u \in ignored)
    BY DEF AcctInv, RefusedInv, AcctTyped
  <2>2. \A u \in refused : users'[u] # Accounts!NoUser => u \in ignored
    BY <1>3, <2>1 DEF Accounts!Exists
  <2>3. \A u \in refused' : users'[u] # Accounts!NoUser => u \in ignored'
    BY <1>3, <2>2
  <2> QED
    BY <2>3 DEF AcctInv, UsedInv, RefusedInv, Accounts!Exists
<1>8. OrphanInv'
  <2>1. SUFFICES ASSUME ~overlap' PROVE InOrder'
    BY DEF OrphanInv
  <2>2. ~overlap /\ ~act[a].shared
    BY <2>1 DEF Accounts!Deletes
  <2>3. \A b \in Actor : act'[b].at = "idle"
    BY <1>0, <1>1, <2>2, DoneShape DEF AloneInv
  <2>4. \A i \in idents : \/ i.uid \in ignored
                          \/ i.uid \in UserId \ {act[a].uid} /\ Accounts!Exists(i.uid)
    BY <1>0, <2>2 DEF OrphanInv, InOrder, Unnamed, AcctTyped, IdentityRow
  <2>5. \A i \in idents : users'[i.uid] # Accounts!NoUser \/ i.uid \in ignored'
    BY <1>3, <2>4 DEF Accounts!Exists
  <2> QED
    BY <2>3, <2>5 DEF InOrder, MayUndo, Accounts!Exists
<1> QED
  BY <1>1, <1>4, <1>5, <1>6, <1>7, <1>8 DEF AcctInv

-----------------------------------------------------------------------------
(* Requests that begin                                                     *)

\* What the tables say at the start.
LEMMA AcctParts ==
  ASSUME AcctInv
  PROVE  /\ AcctTyped /\ settings.confirm \in BOOLEAN /\ settings.oauth \in BOOLEAN
         /\ flows \in [Flow -> FlowRow] /\ uses \in [Flow -> {0, 1}]
         /\ users \in [UserId -> UserRow] /\ idents \subseteq IdentityRow
         /\ ActsInv /\ AloneInv /\ UsedInv /\ RefusedInv /\ OrphanInv
  BY DEF AcctInv, AcctTyped

\* A request that so far read only.
LEMMA StartsOnly ==
  ASSUME AcctInv, NEW a \in Actor, NEW rec, StartOK(rec), Accounts!Start(a, rec),
         UNCHANGED <<settings, users, idents, flows, uses, refused, ignored, overlap>>
  PROVE  AcctInv'
<1>1. /\ flows' \in [Flow -> FlowRow] /\ uses' \in [Flow -> {0, 1}] /\ UsedInv'
  BY AcctParts DEF UsedInv
<1> QED
  BY <1>1, StartKeeps

\* A sign-up looks its address up and begins (signup).
LEMMA SignupKeeps ==
  ASSUME AcctInv, NEW a \in Actor, NEW e \in Email, Accounts!Signup(a, e)
  PROVE  AcctInv'
<1> DEFINE rec == [Accounts!Done EXCEPT !.op = "signup", !.at = "user", !.email = e, !.pid = e,
                                          !.conf = settings.confirm]
<1>1. Accounts!Start(a, rec)
  BY DEF Accounts!Signup
<1>2. StartOK(rec)
  BY AcctParts, AccountAssumption DEF StartOK, AcctRequest, ActOK, AcctOp, Accounts!Done
<1> HIDE DEF rec
<1> QED
  BY <1>1, <1>2, StartsOnly DEF Accounts!Signup

\* An administrator names id and address (admin_create_user).
LEMMA AdminCreateKeeps ==
  ASSUME AcctInv, NEW a \in Actor, NEW u \in UserId, NEW e \in Email, Accounts!AdminCreate(a, u, e)
  PROVE  AcctInv'
<1> DEFINE rec == [Accounts!Done EXCEPT !.op = "admin", !.at = "user", !.uid = u, !.email = e, !.pid = e]
<1>1. Accounts!Start(a, rec)
  BY DEF Accounts!AdminCreate
<1>2. StartOK(rec)
  BY AcctParts, AccountAssumption DEF StartOK, AcctRequest, ActOK, AcctOp, Accounts!Done
<1> HIDE DEF rec
<1> QED
  BY <1>1, <1>2, StartsOnly DEF Accounts!AdminCreate

\* An account without an address (signin_anonymous).
LEMMA AnonymousKeeps ==
  ASSUME AcctInv, NEW a \in Actor, Accounts!Anonymous(a)
  PROVE  AcctInv'
<1> DEFINE rec == [Accounts!Done EXCEPT !.op = "anon", !.at = "user", !.email = "anon"]
<1>1. Accounts!Start(a, rec)
  BY DEF Accounts!Anonymous
<1>2. StartOK(rec)
  BY AcctParts, AccountAssumption DEF StartOK, AcctRequest, ActOK, AcctOp, Accounts!Done
<1> HIDE DEF rec
<1> QED
  BY <1>1, <1>2, StartsOnly DEF Accounts!Anonymous

\* A recovery mail for the account of an address (recover).
LEMMA RecoverKeeps ==
  ASSUME AcctInv, NEW a \in Actor, NEW e \in Email, Accounts!Recover(a, e)
  PROVE  AcctInv'
<1> DEFINE Rec(u) == [Accounts!Done EXCEPT !.op = "recovery", !.at = "mail", !.uid = u]
<1>1. \E u \in UserId : Accounts!Start(a, Rec(u))
  BY DEF Accounts!Recover, Accounts!ByEmail
<1>2. \A u \in UserId : StartOK(Rec(u))
  BY AccountAssumption DEF StartOK, AcctRequest, ActOK, AcctOp, Accounts!Done
<1> HIDE DEF Rec
<1> QED
  BY <1>1, <1>2, StartsOnly DEF Accounts!Recover

\* A password is checked and a session asked for (password_grant).
LEMMA PasswordGrantKeeps ==
  ASSUME AcctInv, NEW a \in Actor, NEW e \in Email, Accounts!PasswordGrant(a, e)
  PROVE  AcctInv'
<1> DEFINE Rec(u) == [Accounts!Done EXCEPT !.op = "password", !.at = "session", !.uid = u]
<1>1. \E u \in UserId : Accounts!Start(a, Rec(u))
  BY DEF Accounts!PasswordGrant, Accounts!ByEmail
<1>2. \A u \in UserId : StartOK(Rec(u))
  BY AccountAssumption DEF StartOK, AcctRequest, ActOK, AcctOp, Accounts!Done
<1> HIDE DEF Rec
<1> QED
  BY <1>1, <1>2, StartsOnly DEF Accounts!PasswordGrant

\* A change of address begins (update_user, admin_update_user).
LEMMA UpdateEmailKeeps ==
  ASSUME AcctInv, NEW a \in Actor, NEW u \in UserId, NEW e \in Email, Accounts!UpdateEmail(a, u, e)
  PROVE  AcctInv'
<1> DEFINE Rec(op) == [Accounts!Done EXCEPT !.op = op, !.at = "update", !.uid = u, !.email = e]
<1>1. \E op \in {"self", "adminUpdate"} : Accounts!Start(a, Rec(op))
  BY DEF Accounts!UpdateEmail, Accounts!ByEmail
<1>2. \A op \in {"self", "adminUpdate"} : StartOK(Rec(op))
  BY AccountAssumption DEF StartOK, AcctRequest, ActOK, AcctOp, Accounts!Done
<1> HIDE DEF Rec
<1> QED
  BY <1>1, <1>2, StartsOnly DEF Accounts!UpdateEmail

\* A deletion begins (admin_delete_user).
LEMMA AdminDeleteKeeps ==
  ASSUME AcctInv, NEW a \in Actor, NEW u \in UserId, Accounts!AdminDelete(a, u)
  PROVE  AcctInv'
<1> DEFINE rec == [Accounts!Done EXCEPT !.op = "delete", !.at = "delIdentities", !.uid = u]
<1>1. Accounts!Start(a, rec)
  BY DEF Accounts!AdminDelete
<1>2. StartOK(rec)
  BY AcctParts, AccountAssumption DEF StartOK, AcctRequest, ActOK, AcctOp, Accounts!Done
<1> HIDE DEF rec
<1> QED
  BY <1>1, <1>2, StartsOnly DEF Accounts!AdminDelete

\* The callback of a provider: an account it knows, one with that address, or a new one.
LEMMA CallbackKeeps ==
  ASSUME AcctInv, NEW a \in Actor, NEW p \in Subject, NEW e \in Email, Accounts!Callback(a, p, e)
  PROVE  AcctInv'
<1> DEFINE known == {i \in idents : i.pid = p}
           old == CHOOSE i \in known : TRUE
           owner == CHOOSE u \in Accounts!ByEmail(e) : TRUE
           base == [Accounts!Done EXCEPT !.op = "oauth", !.email = e, !.pid = p]
<1>1. PICK rec :
        /\ Accounts!Start(a, rec)
        /\ \/ rec = Accounts!Done
           \/ known # {} /\ rec = [base EXCEPT !.at = "code", !.uid = old.uid]
           \/ Accounts!ByEmail(e) # {} /\ rec = [base EXCEPT !.at = "identity", !.uid = owner]
           \/ rec = [base EXCEPT !.at = "user"]
  BY DEF Accounts!Callback
<1>2. StartOK(rec)
  <2>1. CASE rec = Accounts!Done
    BY <2>1, DoneShape DEF StartOK
  <2>2. CASE known # {} /\ rec = [base EXCEPT !.at = "code", !.uid = old.uid]
    <3>1. old \in idents
      BY <2>2
    <3>2. old.uid \in UserId
      BY <3>1, AcctParts DEF IdentityRow
    <3> HIDE DEF old
    <3> QED
      BY <2>2, <3>2, AccountAssumption DEF StartOK, AcctRequest, ActOK, AcctOp, Accounts!Done
  <2>3. CASE Accounts!ByEmail(e) # {} /\ rec = [base EXCEPT !.at = "identity", !.uid = owner]
    <3>1. owner \in UserId /\ Accounts!Exists(owner)
      BY <2>3 DEF Accounts!ByEmail
    <3> HIDE DEF owner
    <3> QED
      BY <2>3, <3>1, AccountAssumption DEF StartOK, AcctRequest, ActOK, AcctOp, Accounts!Done
  <2>4. CASE rec = [base EXCEPT !.at = "user"]
    BY <2>4, AccountAssumption DEF StartOK, AcctRequest, ActOK, AcctOp, Accounts!Done
  <2> QED
    BY <1>1, <2>1, <2>2, <2>3, <2>4
<1> QED
  BY <1>1, <1>2, StartsOnly DEF Accounts!Callback

\* A token is accepted, and marked.
LEMMA ConsumeTokenKeeps ==
  ASSUME AcctInv, NEW a \in Actor, NEW f \in Flow,
         NEW k \in {"signup", "recovery", "oauth_code"}, Accounts!ConsumeToken(a, f, k)
  PROVE  AcctInv'
<1> DEFINE rec == [Accounts!Done EXCEPT !.op = k, !.at = "verified", !.uid = flows[f].uid]
<1>0. Accounts!Start(a, rec)
  BY DEF Accounts!ConsumeToken
<1>1. /\ flows[f].kind = k /\ ~flows[f].consumed
      /\ flows' = [flows EXCEPT ![f].consumed = TRUE] /\ uses' = [uses EXCEPT ![f] = @ + 1]
      /\ UNCHANGED <<settings, users, idents, refused, ignored, overlap>>
  BY DEF Accounts!ConsumeToken, Accounts!Accepts
<1>2. flows[f] \in FlowRow /\ flows[f].uid \in UserId
  BY <1>1, AcctParts DEF FlowRow
<1>3. StartOK(rec)
  BY <1>2, AccountAssumption DEF StartOK, AcctRequest, ActOK, AcctOp, Accounts!Done
<1> HIDE DEF rec
<1>4. uses[f] = 0
  BY <1>1, AcctParts DEF UsedInv
<1>5. [flows[f] EXCEPT !.consumed = TRUE] \in FlowRow
  BY <1>2 DEF FlowRow
<1>6. flows' \in [Flow -> FlowRow] /\ uses' \in [Flow -> {0, 1}]
  <2>1. flows' = [flows EXCEPT ![f] = [flows[f] EXCEPT !.consumed = TRUE]]
    BY <1>1
  <2>2. uses' = [uses EXCEPT ![f] = 1]
    BY <1>1, <1>4
  <2> QED
    BY <1>5, <2>1, <2>2, AcctParts
<1>7. UsedInv'
  <2>1. flows'[f].consumed
    BY <1>1, <1>2, AcctParts DEF FlowRow
  <2>2. \A g \in Flow \ {f} : flows'[g] = flows[g] /\ uses'[g] = uses[g]
    BY <1>1, AcctParts
  <2> QED
    BY <2>1, <2>2, AcctParts DEF UsedInv
<1> QED
  BY <1>0, <1>1, <1>3, <1>6, <1>7, StartKeeps

-----------------------------------------------------------------------------
(* Requests under way                                                      *)

\* A request ends, with nothing changed but its token.
LEMMA EndKeeps ==
  ASSUME AcctInv, NEW a \in Actor, act[a].at # "idle", Accounts!Ends(a),
         UNCHANGED <<settings, users, idents, uses, refused, ignored, overlap>>,
         flows' \in [Flow -> FlowRow], UsedInv'
  PROVE  AcctInv'
<1>1. /\ act' \in [Actor -> AcctRequest] /\ act'[a] = Accounts!Done
      /\ \A b \in Actor \ {a} : act'[b] = act[b]
      /\ act[a] # Accounts!Done /\ AloneInv'
  BY AcctParts, AcctEnds
<1>2. Moved(a) /\ act'[a].at = "idle" /\ ~MayUndo(act'[a])
  BY <1>1, DoneShape DEF Moved
<1>3. uses' \in [Flow -> {0, 1}]
  BY AcctParts
<1> QED
  BY <1>2, <1>3, QuietKeeps

\* A request goes on, with nothing changed but its token.
LEMMA GoKeeps ==
  ASSUME AcctInv, NEW a \in Actor, act[a].at \notin {"idle", "user"}, act[a].op # "anon",
         NEW at \in {"session", "undo", "mail", "code", "updateIdentity"},
         Accounts!Goes(a, at), at = "updateIdentity" => act[a].at = "update",
         UNCHANGED <<settings, users, idents, uses, refused, ignored, overlap>>,
         flows' \in [Flow -> FlowRow], UsedInv'
  PROVE  AcctInv'
<1>1. /\ act' \in [Actor -> AcctRequest] /\ act'[a].at = at
      /\ act'[a].uid = act[a].uid /\ act'[a].email = act[a].email
      /\ act'[a].shared = act[a].shared /\ act'[a].op = act[a].op
      /\ \A b \in Actor \ {a} : act'[b] = act[b]
      /\ act[a] # Accounts!Done /\ AloneInv'
  BY AcctParts, GoesEffect
<1>2. ActOK(act'[a])
  BY <1>1, AcctParts DEF ActsInv, ActOK
<1>3. Moved(a)
  BY <1>1, <1>2 DEF Moved
<1>4. uses' \in [Flow -> {0, 1}]
  BY AcctParts
<1>5. ~MayUndo(act'[a])
  BY <1>1 DEF MayUndo
<1> QED
  BY <1>1, <1>3, <1>4, <1>5, QuietKeeps

\* The row of an account, under an id and an address that no account has.
LEMMA InsertUserKeeps ==
  ASSUME AcctInv, NEW a \in Actor, NEW u \in UserId, Accounts!InsertUser(a, u)
  PROVE  AcctInv'
<1>0. /\ act[a] \in AcctRequest /\ act[a].at = "user" /\ act[a].email # ""
      /\ act[a].op # "anon" => act[a].pid # ""
  BY AcctParts, AcctFields DEF Accounts!InsertUser, ActsInv, ActOK
<1> DEFINE e == act[a].email
           yes == act[a].op \in {"admin", "oauth"} \/ (act[a].op = "signup" /\ ~act[a].conf)
           row == Accounts!Row(e, yes)
           q == [act[a] EXCEPT !.uid = u, !.made = TRUE,
                               !.at = IF act[a].op = "anon" THEN "session" ELSE "identity"]
<1>1. CASE /\ Accounts!UserInsertable(u, e) /\ users' = [users EXCEPT ![u] = row]
           /\ act' = [act EXCEPT ![a] = q] /\ refused' = refused \ {u}
           /\ UNCHANGED <<settings, idents, flows, uses, ignored, overlap>>
  <2>1. /\ q \in AcctRequest /\ q.uid = u /\ q.shared = act[a].shared /\ ActOK(q)
        /\ q.at \in {"session", "identity"}
    BY <1>0 DEF AcctRequest, ActOK
  <2>2. /\ row \in UserRow /\ row # Accounts!NoUser /\ row.email = e
    <3>1. yes \in BOOLEAN /\ e \in Email \cup {"", "anon"}
      BY <1>0, AcctParts, AcctFields
    <3>2. row = [email |-> e, confirmed |-> yes]
      BY DEF Accounts!Row
    <3> HIDE DEF yes, e, row
    <3> QED
      BY <1>0, <3>1, <3>2 DEF UserRow, Accounts!NoUser, e
  <2> HIDE DEF q, row
  <2>3. /\ act' \in [Actor -> AcctRequest] /\ act'[a] = q
        /\ \A b \in Actor \ {a} : act'[b] = act[b]
        /\ act[a] # Accounts!Done /\ AloneInv'
    BY <1>0, <1>1, <2>1, AcctParts, OwnEffect
  <2>4. Moved(a)
    BY <2>1, <2>3 DEF Moved
  <2>5. /\ users' \in [UserId -> UserRow] /\ users'[u] = row
        /\ \A v \in UserId \ {u} : users'[v] = users[v]
    BY <1>1, <2>2, AcctParts
  <2>6. AcctTyped'
    BY <1>1, <2>3, <2>5, AcctParts DEF AcctTyped
  <2>7. Accounts!OneAccountPerEmail'
    <3>1. \A v, w \in UserId : users'[v] # Accounts!NoUser /\ users'[w] # Accounts!NoUser
             /\ users'[v].email = users'[w].email /\ users'[v].email # "anon" => v = w
      <4>1. \A v, w \in UserId \ {u} : users[v] # Accounts!NoUser /\ users[w] # Accounts!NoUser
               /\ users[v].email = users[w].email /\ users[v].email # "anon" => v = w
        BY DEF AcctInv, Accounts!OneAccountPerEmail, Accounts!Exists
      <4>2. e # "anon" => \A v \in UserId : users[v] # Accounts!NoUser => users[v].email # e
        BY <1>1 DEF Accounts!UserInsertable, Accounts!ByEmail, Accounts!Exists
      <4> HIDE DEF e
      <4> QED
        BY <2>2, <2>5, <4>1, <4>2
    <3> QED
      BY <1>1, <3>1 DEF AcctInv, Accounts!OneAccountPerEmail, Accounts!Exists
  <2>8. UsedInv' /\ RefusedInv'
    <3>1. \A v \in refused' : v \in UserId \ {u} /\ (users[v] # Accounts!NoUser => v \in ignored)
      BY <1>1, AcctParts DEF AcctTyped, RefusedInv, Accounts!Exists
    <3>2. RefusedInv'
      BY <1>1, <2>5, <3>1 DEF RefusedInv, Accounts!Exists
    <3> QED
      BY <1>1, <3>2, AcctParts DEF UsedInv
  <2>9. \A v \in UserId : Accounts!Exists(v) => users'[v] # Accounts!NoUser
    BY <2>2, <2>5 DEF Accounts!Exists
  <2>10. ~overlap' => Unnamed(a)'
    <3>1. ~Accounts!Exists(u)
      BY <1>1 DEF Accounts!UserInsertable
    <3>2. ~overlap => \A i \in idents : i.uid # u \/ i.uid \in ignored
      BY <3>1, AcctParts DEF OrphanInv, InOrder
    <3> QED
      BY <1>1, <2>1, <2>3, <3>2 DEF Unnamed
  <2> QED
    BY <1>1, <2>1, <2>2, <2>3, <2>4, <2>5, <2>6, <2>7, <2>8, <2>9, <2>10, OwnKeeps
<1>2. CASE Accounts!Ends(a) /\ UNCHANGED <<settings, users, idents, flows, uses, refused, ignored, overlap>>
  BY <1>0, <1>2, AcctParts, EndKeeps DEF UsedInv
<1>3. \/ /\ Accounts!UserInsertable(u, e) /\ users' = [users EXCEPT ![u] = row]
         /\ act' = [act EXCEPT ![a] = q] /\ refused' = refused \ {u}
         /\ UNCHANGED <<settings, idents, flows, uses, ignored, overlap>>
      \/ Accounts!Ends(a) /\ UNCHANGED <<settings, users, idents, flows, uses, refused, ignored, overlap>>
  <2>1. [act EXCEPT ![a].uid = u, ![a].made = TRUE,
                    ![a].at = IF act[a].op = "anon" THEN "session" ELSE "identity"]
          = [act EXCEPT ![a] = q]
    BY AcctParts DEF AcctTyped
  <2> HIDE DEF q
  <2> QED
    BY <2>1 DEF Accounts!InsertUser
<1> QED
  BY <1>1, <1>2, <1>3

\* The clean-up deletes the account that the request made, or its error is dropped.
LEMMA UndoUserKeeps ==
  ASSUME AcctInv, NEW a \in Actor, Accounts!UndoUser(a)
  PROVE  AcctInv'
<1>1. /\ act[a].at = "undoUser" /\ act[a].uid \in UserId /\ Accounts!Ends(a)
      /\ refused' = refused \cup {act[a].uid} /\ UNCHANGED <<settings, idents, flows, uses>>
  BY AcctParts DEF ActsInv, ActOK, Accounts!UndoUser
<1>2. CASE /\ users' = [users EXCEPT ![act[a].uid] = Accounts!NoUser] /\ Accounts!Deletes(a)
           /\ UNCHANGED ignored
  <2>1. ~overlap /\ ~act[a].shared => Unnamed(a)
    BY <1>1, AcctParts DEF OrphanInv, InOrder
  <2> QED
    BY <1>1, <1>2, <2>1, DeletionKeeps
<1>3. CASE ignored' = ignored \cup {act[a].uid} /\ UNCHANGED <<users, overlap>>
  <2>1. /\ act' \in [Actor -> AcctRequest] /\ act'[a] = Accounts!Done
        /\ \A b \in Actor \ {a} : act'[b] = act[b]
        /\ act[a] # Accounts!Done /\ AloneInv'
    BY <1>1, AcctParts, AcctEnds
  <2>2. Moved(a) /\ act'[a].at = "idle" /\ ~MayUndo(act'[a])
    BY <2>1, DoneShape DEF Moved
  <2>3. AcctTyped'
    BY <1>1, <1>3, <2>1, AcctParts DEF AcctTyped
  <2>4. Accounts!OneAccountPerEmail' /\ UsedInv' /\ RefusedInv'
    BY <1>1, <1>3, AcctParts
    DEF AcctInv, Accounts!OneAccountPerEmail, Accounts!Exists, UsedInv, RefusedInv
  <2>5. \A u \in UserId : Accounts!Exists(u) => users'[u] # Accounts!NoUser
    BY <1>3 DEF Accounts!Exists
  <2> QED
    BY <1>1, <1>3, <2>2, <2>3, <2>4, <2>5, OwnKeeps
<1> QED
  BY <1>1, <1>2, <1>3 DEF Accounts!UndoUser

\* A request whose account has no identity goes on to delete the account.
LEMMA GoUndoUserKeeps ==
  ASSUME AcctInv, NEW a \in Actor, act[a].at \in {"identity", "session"},
         Accounts!Goes(a, "undoUser"), ~overlap /\ ~act[a].shared => Unnamed(a),
         UNCHANGED <<settings, users, idents, flows, uses, refused, ignored, overlap>>
  PROVE  AcctInv'
<1>1. /\ act' \in [Actor -> AcctRequest] /\ act'[a].at = "undoUser"
      /\ act'[a].uid = act[a].uid /\ act'[a].shared = act[a].shared
      /\ \A b \in Actor \ {a} : act'[b] = act[b]
      /\ act[a] # Accounts!Done /\ AloneInv'
  BY AcctParts, GoesEffect
<1>2. Moved(a)
  BY <1>1, AcctParts DEF Moved, ActsInv, ActOK
<1>3. AcctTyped'
  BY <1>1, AcctParts DEF AcctTyped
<1>4. Accounts!OneAccountPerEmail' /\ UsedInv' /\ RefusedInv'
  BY AcctParts DEF AcctInv, Accounts!OneAccountPerEmail, Accounts!Exists, UsedInv, RefusedInv
<1>5. \A u \in UserId : Accounts!Exists(u) => users'[u] # Accounts!NoUser
  BY DEF Accounts!Exists
<1>6. ~overlap' /\ ~act'[a].shared => Unnamed(a)'
  BY <1>1 DEF Unnamed
<1> QED
  BY <1>1, <1>2, <1>3, <1>4, <1>5, <1>6, OwnKeeps

\* A step that changes identities only.
LEMMA IdentsKeep ==
  ASSUME AcctInv, NEW a \in Actor, Moved(a),
         UNCHANGED <<settings, users, flows, uses, refused>>,
         ignored \subseteq ignored', ignored' \subseteq UserId,
         idents' \subseteq IdentityRow, \A i, j \in idents' : i.pid = j.pid => i = j,
         overlap' \in BOOLEAN, overlap => overlap', act'[a].at # "identity", ~MayUndo(act'[a]),
         ~overlap' => \A i \in idents' \ idents : Accounts!Exists(i.uid) \/ i.uid \in ignored',
         ~overlap' /\ ~act'[a].shared /\ act'[a].at \in {"undoUser", "delSessions", "delUser"} =>
           Unnamed(a)'
  PROVE  AcctInv'
<1>1. AcctTyped'
  BY AcctParts DEF AcctTyped, Moved
<1>2. Accounts!OneAccountPerEmail'
  BY DEF AcctInv, Accounts!OneAccountPerEmail, Accounts!Exists
<1>3. UsedInv' /\ RefusedInv'
  BY AcctParts DEF UsedInv, RefusedInv, Accounts!Exists
<1>4. \A u : Accounts!Exists(u) => users'[u] # Accounts!NoUser
  BY DEF Accounts!Exists
<1>5. ~overlap' => \A i \in idents' \ idents : users'[i.uid] # Accounts!NoUser \/ i.uid \in ignored'
  BY <1>4
<1> QED
  BY <1>1, <1>2, <1>3, <1>4, <1>5, OwnKeeps

\* The identity of an account, or the clean-up.
LEMMA InsertIdentityKeeps ==
  ASSUME AcctInv, NEW a \in Actor, Accounts!InsertIdentity(a)
  PROVE  AcctInv'
<1>0. /\ act[a].at = "identity" /\ act[a].uid \in UserId /\ act[a].pid \in Email \cup Subject
      /\ act[a].op # "anon"
      /\ UNCHANGED <<settings, users, flows, uses, refused, ignored, overlap>>
  BY AcctParts, AcctFields DEF Accounts!InsertIdentity, ActsInv, ActOK
<1> DEFINE new == [pid |-> act[a].pid, uid |-> act[a].uid]
<1>1. CASE /\ Accounts!IdentInsertable(act[a].pid) /\ idents' = idents \cup {new}
           /\ \/ Accounts!Ends(a)
              \/ \E at \in {"mail", "code", "session"} : Accounts!Goes(a, at)
  <2>1. Moved(a) /\ act'[a].at \in {"idle", "mail", "code", "session"} /\ ~MayUndo(act'[a])
    <3>1. CASE Accounts!Ends(a)
      BY <1>0, <3>1, AcctParts, AcctEnds, DoneShape DEF Moved
    <3>2. ASSUME NEW at \in {"mail", "code", "session"}, Accounts!Goes(a, at)
          PROVE  Moved(a) /\ act'[a].at = at /\ ~MayUndo(act'[a])
      <4>1. /\ act' \in [Actor -> AcctRequest] /\ act'[a].at = at /\ act'[a].uid = act[a].uid
            /\ act'[a].op = act[a].op
            /\ \A b \in Actor \ {a} : act'[b] = act[b]
            /\ act[a] # Accounts!Done /\ AloneInv'
        BY <1>0, <3>2, AcctParts, GoesEffect
      <4> QED
        BY <1>0, <4>1 DEF Moved, ActOK, MayUndo
    <3> QED
      BY <1>1, <3>1, <3>2
  <2>2. new \in IdentityRow /\ new.pid = act[a].pid /\ new.uid = act[a].uid
    BY <1>0 DEF IdentityRow
  <2> HIDE DEF new
  <2>3. idents' \subseteq IdentityRow
    BY <1>1, <2>2, AcctParts
  <2>4. \A i, j \in idents' : i.pid = j.pid => i = j
    <3>1. \A i, j \in idents : i.pid = j.pid => i = j
      BY DEF AcctInv, Accounts!OneAccountPerEmail
    <3> QED
      BY <1>1, <2>2, <3>1 DEF Accounts!IdentInsertable
  <2>5. ~overlap => Accounts!Exists(new.uid)
    BY <1>0, <2>2, AcctParts DEF OrphanInv, InOrder
  <2>6. ~overlap' => \A i \in idents' \ idents : Accounts!Exists(i.uid)
    BY <1>0, <1>1, <2>5
  <2>7. overlap' \in BOOLEAN /\ (overlap => overlap') /\ ignored' \subseteq UserId
    BY <1>0, AcctParts DEF AcctTyped
  <2> QED
    BY <1>0, <1>1, <2>1, <2>3, <2>4, <2>6, <2>7, IdentsKeep
<1>2. CASE act[a].made /\ Accounts!Goes(a, "undoUser") /\ UNCHANGED idents
  <2>1. ~overlap /\ ~act[a].shared => Unnamed(a)
    BY <1>0, <1>2, AcctParts DEF OrphanInv, InOrder, MayUndo
  <2> QED
    BY <1>0, <1>2, <2>1, GoUndoUserKeeps
<1>3. CASE Accounts!Ends(a) /\ UNCHANGED idents
  BY <1>0, <1>3, AcctParts, EndKeeps DEF UsedInv
<1> QED
  BY <1>1, <1>2, <1>3 DEF Accounts!InsertIdentity

\* The rows of identities of an account are deleted.
LEMMA NamesGo ==
  ASSUME AcctInv, NEW a \in Actor, act[a].at \in {"undo", "delIdentities"},
         NEW at \in {"undoUser", "delSessions"}, Accounts!Goes(a, at), Accounts!Deletes(a),
         idents' = {i \in idents : i.uid # act[a].uid},
         UNCHANGED <<settings, users, flows, uses, refused, ignored>>
  PROVE  AcctInv'
<1>1. /\ act' \in [Actor -> AcctRequest] /\ act'[a].at = at /\ act'[a].uid = act[a].uid
      /\ act'[a].op = act[a].op
      /\ \A b \in Actor \ {a} : act'[b] = act[b]
      /\ act[a] # Accounts!Done /\ AloneInv'
  BY AcctParts, GoesEffect
<1>2. act[a].uid \in UserId /\ act[a].op # "anon"
  BY AcctParts DEF ActsInv, ActOK
<1>3. Moved(a) /\ act'[a].at # "identity" /\ ~MayUndo(act'[a])
  BY <1>1, <1>2 DEF Moved, ActOK, MayUndo
<1>4. idents' \subseteq idents /\ Unnamed(a)'
  BY <1>1 DEF Unnamed
<1>5. \A i, j \in idents' : i.pid = j.pid => i = j
  BY <1>4 DEF AcctInv, Accounts!OneAccountPerEmail
<1>6. overlap' \in BOOLEAN /\ (overlap => overlap') /\ ignored' \subseteq UserId
  BY AcctParts, AcctFields DEF AcctTyped, Accounts!Deletes
<1> QED
  BY <1>3, <1>4, <1>5, <1>6, AcctParts, IdentsKeep

\* The first statement of a clean-up, or its error is dropped.
LEMMA UndoIdentitiesKeeps ==
  ASSUME AcctInv, NEW a \in Actor, Accounts!UndoIdentities(a)
  PROVE  AcctInv'
<1>1. /\ act[a].at = "undo" /\ Accounts!Goes(a, "undoUser")
      /\ UNCHANGED <<settings, users, flows, uses, refused>>
  BY DEF Accounts!UndoIdentities
<1>2. CASE /\ idents' = {i \in idents : i.uid # act[a].uid} /\ Accounts!Deletes(a)
           /\ UNCHANGED ignored
  BY <1>1, <1>2, NamesGo
<1>3. CASE ignored' = ignored \cup {act[a].uid} /\ UNCHANGED <<idents, overlap>>
  <2>1. /\ act' \in [Actor -> AcctRequest] /\ act'[a].at = "undoUser"
        /\ act'[a].uid = act[a].uid /\ act'[a].shared = act[a].shared
        /\ \A b \in Actor \ {a} : act'[b] = act[b]
        /\ act[a] # Accounts!Done /\ AloneInv'
    BY <1>1, AcctParts, GoesEffect
  <2>2. act[a].uid \in UserId
    BY <1>1, AcctParts DEF ActsInv, ActOK
  <2>3. Moved(a) /\ ~MayUndo(act'[a])
    BY <2>1, <2>2 DEF Moved, ActOK, MayUndo
  <2>4. overlap' \in BOOLEAN /\ ignored' \subseteq UserId /\ idents' \subseteq IdentityRow
    BY <1>3, <2>2, AcctParts DEF AcctTyped
  <2>5. \A i, j \in idents' : i.pid = j.pid => i = j
    BY <1>3 DEF AcctInv, Accounts!OneAccountPerEmail
  <2>6. Unnamed(a)'
    BY <1>3, <2>1 DEF Unnamed
  <2> QED
    BY <1>1, <1>3, <2>1, <2>3, <2>4, <2>5, <2>6, IdentsKeep
<1> QED
  BY <1>1, <1>2, <1>3 DEF Accounts!UndoIdentities

\* A session, or its failure.
LEMMA IssueForKeeps ==
  ASSUME AcctInv, NEW a \in Actor, Accounts!IssueFor(a)
  PROVE  AcctInv'
<1>0. act[a].at = "session" /\ UNCHANGED <<settings, users, idents, flows, uses, refused, ignored, overlap>>
  BY DEF Accounts!IssueFor
<1>1. CASE Accounts!Ends(a)
  BY <1>0, <1>1, AcctParts, EndKeeps DEF UsedInv
<1>2. CASE act[a].op = "signup" /\ Accounts!Goes(a, "undo")
  BY <1>0, <1>2, AcctParts, GoKeeps DEF UsedInv
<1>3. CASE act[a].made /\ act[a].op = "anon" /\ Accounts!Goes(a, "undoUser")
  <2>1. ~overlap /\ ~act[a].shared => Unnamed(a)
    BY <1>0, <1>3, AcctParts DEF OrphanInv, InOrder, MayUndo
  <2> QED
    BY <1>0, <1>3, <2>1, GoUndoUserKeeps
<1> QED
  BY <1>1, <1>2, <1>3 DEF Accounts!IssueFor

\* A flow token that nobody used is handed out.
LEMMA TokenRow ==
  ASSUME AcctInv, NEW a \in Actor, NEW f \in Flow, uses[f] = 0, NEW kind \in AcctOp,
         NEW uid \in UserId,
         flows' = [flows EXCEPT ![f] = [kind |-> kind, uid |-> uid, consumed |-> FALSE]],
         UNCHANGED uses
  PROVE  flows' \in [Flow -> FlowRow] /\ UsedInv'
<1>1. [kind |-> kind, uid |-> uid, consumed |-> FALSE] \in FlowRow
  BY DEF FlowRow
<1>2. flows' \in [Flow -> FlowRow] /\ \A g \in Flow \ {f} : flows'[g] = flows[g]
  BY <1>1, AcctParts
<1> QED
  BY <1>2, AcctParts DEF UsedInv

\* A token is stored and mailed, or not mailed (create_email_flow_token).
LEMMA MailTokenKeeps ==
  ASSUME AcctInv, NEW a \in Actor, NEW f \in Flow, Accounts!MailToken(a, f)
  PROVE  AcctInv'
<1>0. /\ act[a].at = "mail" /\ uses[f] = 0 /\ act[a].op \in AcctOp /\ act[a].uid \in UserId
      /\ UNCHANGED <<settings, users, idents, uses, refused, ignored, overlap>>
  BY AcctParts, AcctFields DEF Accounts!MailToken, ActsInv, ActOK
<1>1. flows' \in [Flow -> FlowRow] /\ UsedInv'
  <2>1. CASE UNCHANGED flows
    BY <1>0, <2>1, AcctParts DEF UsedInv
  <2>2. CASE flows' = [flows EXCEPT ![f] =
               [kind |-> act[a].op, uid |-> act[a].uid, consumed |-> FALSE]]
    BY <1>0, <2>2, TokenRow
  <2> QED
    BY <2>1, <2>2 DEF Accounts!MailToken
<1>2. CASE Accounts!Ends(a)
  BY <1>0, <1>1, <1>2, EndKeeps
<1>3. CASE Accounts!Goes(a, "undo")
  BY <1>0, <1>1, <1>3, AcctParts, GoKeeps DEF ActsInv, ActOK
<1> QED
  BY <1>2, <1>3 DEF Accounts!MailToken

\* The browser gets its code, or a session follows (oauth_callback).
LEMMA FinishOauthKeeps ==
  ASSUME AcctInv, NEW a \in Actor, Accounts!FinishOauth(a)
  PROVE  AcctInv'
<1>0. /\ act[a].at = "code" /\ act[a].uid \in UserId /\ act[a].op # "anon"
      /\ UNCHANGED <<settings, users, idents, uses, refused, ignored, overlap>>
  BY AcctParts DEF Accounts!FinishOauth, ActsInv, ActOK
<1>1. CASE UNCHANGED flows /\ Accounts!Goes(a, "session")
  BY <1>0, <1>1, AcctParts, GoKeeps DEF UsedInv
<1>2. ASSUME NEW f \in Flow, uses[f] = 0, Accounts!Ends(a),
             flows' = [flows EXCEPT ![f] =
               [kind |-> "oauth_code", uid |-> act[a].uid, consumed |-> FALSE]]
      PROVE  AcctInv'
  <2>1. flows' \in [Flow -> FlowRow] /\ UsedInv'
    BY <1>0, <1>2, TokenRow DEF AcctOp
  <2> QED
    BY <1>0, <1>2, <2>1, EndKeeps
<1> QED
  BY <1>1, <1>2 DEF Accounts!FinishOauth

\* One row of an account changes, and goes on naming the account.
LEMMA RowKeeps ==
  ASSUME AcctInv, NEW a \in Actor, Moved(a), NEW u \in UserId, Accounts!Exists(u),
         NEW row \in UserRow, row # Accounts!NoUser, users' = [users EXCEPT ![u] = row],
         \/ row.email = users[u].email
         \/ Accounts!ByEmail(row.email) \subseteq {u},
         UNCHANGED <<settings, idents, flows, uses, refused, ignored, overlap>>,
         act'[a].at \notin {"identity", "undoUser", "delSessions", "delUser"},
         ~MayUndo(act'[a])
  PROVE  AcctInv'
<1>1. /\ users' \in [UserId -> UserRow] /\ users'[u] = row
      /\ \A v \in UserId \ {u} : users'[v] = users[v]
  BY AcctParts
<1>2. AcctTyped'
  BY <1>1, AcctParts DEF AcctTyped, Moved
<1>3. Accounts!OneAccountPerEmail'
  <2>1. \A v, w \in UserId : users[v] # Accounts!NoUser /\ users[w] # Accounts!NoUser
           /\ users[v].email = users[w].email /\ users[v].email # "anon" => v = w
    BY DEF AcctInv, Accounts!OneAccountPerEmail, Accounts!Exists
  <2>2. row.email # "anon" =>
          \A v \in UserId \ {u} : users[v] # Accounts!NoUser => users[v].email # row.email
    BY <2>1 DEF Accounts!ByEmail, Accounts!Exists
  <2>3. \A v, w \in UserId : users'[v] # Accounts!NoUser /\ users'[w] # Accounts!NoUser
           /\ users'[v].email = users'[w].email /\ users'[v].email # "anon" => v = w
    BY <1>1, <2>1, <2>2
  <2> QED
    BY <2>3 DEF AcctInv, Accounts!OneAccountPerEmail, Accounts!Exists
<1>4. UsedInv' /\ RefusedInv'
  <2>1. \A v \in refused : v \in UserId /\ (users[v] # Accounts!NoUser => v \in ignored)
    BY AcctParts DEF AcctTyped, RefusedInv, Accounts!Exists
  <2> QED
    BY <1>1, <2>1, AcctParts DEF UsedInv, RefusedInv, Accounts!Exists
<1>5. \A v \in UserId : Accounts!Exists(v) => users'[v] # Accounts!NoUser
  BY <1>1 DEF Accounts!Exists
<1> QED
  BY <1>2, <1>3, <1>4, <1>5, OwnKeeps

\* A request that goes on to a session has moved.
LEMMA MovesOn ==
  ASSUME AcctInv, NEW a \in Actor, act[a].at \in {"verified", "update"},
         \/ Accounts!Ends(a) \/ Accounts!Goes(a, "session")
         \/ act[a].at = "update" /\ Accounts!Goes(a, "updateIdentity")
  PROVE  /\ Moved(a) /\ act'[a].at \in {"idle", "session", "updateIdentity"}
         /\ ~MayUndo(act'[a])
<1>1. CASE Accounts!Ends(a)
  BY <1>1, AcctParts, AcctEnds, DoneShape DEF Moved
<1>2. ASSUME NEW at \in {"session", "updateIdentity"}, Accounts!Goes(a, at),
             at = "updateIdentity" => act[a].at = "update"
      PROVE  Moved(a) /\ act'[a].at = at /\ ~MayUndo(act'[a])
  <2>1. /\ act' \in [Actor -> AcctRequest] /\ act'[a].at = at
        /\ act'[a].uid = act[a].uid /\ act'[a].email = act[a].email /\ act'[a].op = act[a].op
        /\ \A b \in Actor \ {a} : act'[b] = act[b]
        /\ act[a] # Accounts!Done /\ AloneInv'
    BY <1>2, AcctParts, GoesEffect
  <2>2. ActOK(act'[a]) /\ ~MayUndo(act'[a])
    BY <1>2, <2>1, AcctParts DEF ActsInv, ActOK, MayUndo
  <2> QED
    BY <2>1, <2>2 DEF Moved
<1> QED
  BY <1>1, <1>2

\* An accepted token confirms the address (verify_otp).
LEMMA VerifiedKeeps ==
  ASSUME AcctInv, NEW a \in Actor, Accounts!Verified(a)
  PROVE  AcctInv'
<1> DEFINE u == act[a].uid
           row == [users[u] EXCEPT !.confirmed = TRUE]
<1>0. /\ act[a].at = "verified" /\ u \in UserId /\ act[a].op # "anon"
      /\ UNCHANGED <<settings, idents, flows, uses, refused, ignored, overlap>>
  BY AcctParts DEF Accounts!Verified, ActsInv, ActOK
<1>1. CASE Accounts!Exists(u) /\ users' = [users EXCEPT ![u] = row] /\ Accounts!Goes(a, "session")
  <2>1. users[u] \in UserRow
    BY <1>0, AcctParts
  <2>2. row \in UserRow /\ row.email = users[u].email /\ row.confirmed
    BY <2>1 DEF UserRow
  <2>3. row # Accounts!NoUser
    BY <2>2 DEF Accounts!NoUser
  <2>4. Moved(a) /\ act'[a].at \in {"idle", "session", "updateIdentity"} /\ ~MayUndo(act'[a])
    BY <1>0, <1>1, MovesOn
  <2> HIDE DEF row, u
  <2> QED
    BY <1>0, <1>1, <2>2, <2>3, <2>4, RowKeeps
<1>2. CASE UNCHANGED users /\ Accounts!Goes(a, "session")
  BY <1>0, <1>2, AcctParts, GoKeeps DEF UsedInv
<1>3. CASE UNCHANGED users /\ Accounts!Ends(a)
  BY <1>0, <1>3, AcctParts, EndKeeps DEF UsedInv
<1>4. [users EXCEPT ![u].confirmed = TRUE] = [users EXCEPT ![u] = row]
  OBVIOUS
<1> HIDE DEF row
<1> QED
  BY <1>1, <1>2, <1>3, <1>4 DEF Accounts!Verified

\* The address changes, unless another account has it by now.
LEMMA UpdateUserKeeps ==
  ASSUME AcctInv, NEW a \in Actor, Accounts!UpdateUser(a)
  PROVE  AcctInv'
<1> DEFINE u == act[a].uid
           e == act[a].email
           row == [users[u] EXCEPT !.email = e]
<1>0. /\ act[a].at = "update" /\ u \in UserId /\ e \in Email /\ act[a].op # "anon"
      /\ UNCHANGED <<settings, idents, flows, uses, refused, ignored, overlap>>
  BY AcctParts DEF Accounts!UpdateUser, ActsInv, ActOK
<1>1. Accounts!Ends(a) \/ Accounts!Goes(a, "updateIdentity")
  BY DEF Accounts!UpdateUser
<1>2. CASE /\ Accounts!Exists(u) /\ Accounts!ByEmail(e) \subseteq {u}
           /\ users' = [users EXCEPT ![u] = row]
  <2>1. users[u] \in UserRow
    BY <1>0, AcctParts
  <2>2. row \in UserRow /\ row.email = e
    BY <1>0, <2>1 DEF UserRow
  <2>3. row # Accounts!NoUser
    BY <1>0, <2>2, AccountAssumption DEF Accounts!NoUser
  <2>4. Moved(a) /\ act'[a].at \in {"idle", "session", "updateIdentity"} /\ ~MayUndo(act'[a])
    BY <1>0, <1>1, MovesOn
  <2> HIDE DEF row, u, e
  <2> QED
    BY <1>0, <1>2, <2>2, <2>3, <2>4, RowKeeps
<1>3. CASE UNCHANGED users
  <2>1. CASE Accounts!Ends(a)
    BY <1>0, <1>3, <2>1, AcctParts, EndKeeps DEF UsedInv
  <2>2. CASE Accounts!Goes(a, "updateIdentity")
    BY <1>0, <1>3, <2>2, AcctParts, GoKeeps DEF UsedInv
  <2> QED
    BY <1>1, <2>1, <2>2
<1>4. [users EXCEPT ![u].email = e] = [users EXCEPT ![u] = row]
  OBVIOUS
<1> HIDE DEF row
<1> QED
  BY <1>2, <1>3, <1>4 DEF Accounts!UpdateUser

\* The identity is renamed, when it is the only one of the account.
LEMMA UpdateIdentityKeeps ==
  ASSUME AcctInv, NEW a \in Actor, Accounts!UpdateIdentity(a)
  PROVE  AcctInv'
<1> DEFINE own == {i \in idents : i.uid = act[a].uid}
           new == [pid |-> act[a].email, uid |-> act[a].uid]
<1>0. /\ act[a].at = "updateIdentity" /\ act[a].uid \in UserId /\ act[a].email \in Email
      /\ Accounts!Ends(a) /\ UNCHANGED <<settings, users, flows, uses, refused, ignored, overlap>>
      /\ \/ UNCHANGED idents
         \/ /\ Accounts!Cardinality(own) = 1 /\ \A i \in idents \ own : i.pid # act[a].email
            /\ idents' = (idents \ own) \cup {new}
  BY AcctParts DEF Accounts!UpdateIdentity, ActsInv, ActOK
<1>1. CASE UNCHANGED idents
  BY <1>0, <1>1, AcctParts, EndKeeps DEF UsedInv
<1>2. CASE /\ Accounts!Cardinality(own) = 1 /\ \A i \in idents \ own : i.pid # act[a].email
           /\ idents' = (idents \ own) \cup {new}
  <2>1. own # {}
    <3>1. Accounts!Cardinality({}) = 0
      BY FS_EmptySet DEF Cardinality, Accounts!Cardinality
    <3>2. Accounts!Cardinality(own) = 1
      BY <1>2
    <3> HIDE DEF own
    <3>3. own = {} => Accounts!Cardinality(own) = Accounts!Cardinality({})
      BY Zenon
    <3> QED
      BY <3>1, <3>2, <3>3
  <2>2. ~overlap => Accounts!Exists(act[a].uid) \/ act[a].uid \in ignored
    BY <2>1, AcctParts DEF OrphanInv, InOrder
  <2>3. new \in IdentityRow /\ new.pid = act[a].email /\ new.uid = act[a].uid
    BY <1>0 DEF IdentityRow
  <2> HIDE DEF new
  <2>4. idents' \subseteq IdentityRow
    BY <1>2, <2>3, AcctParts
  <2>5. \A i, j \in idents' : i.pid = j.pid => i = j
    <3>1. \A i, j \in idents : i.pid = j.pid => i = j
      BY DEF AcctInv, Accounts!OneAccountPerEmail
    <3> HIDE DEF own
    <3> QED
      BY <1>2, <2>3, <3>1
  <2>6. ~overlap' => \A i \in idents' \ idents : Accounts!Exists(i.uid) \/ i.uid \in ignored'
    BY <1>0, <1>2, <2>2, <2>3
  <2>7. Moved(a) /\ act'[a].at = "idle" /\ ~MayUndo(act'[a])
    BY <1>0, AcctParts, AcctEnds, DoneShape DEF Moved
  <2>8. overlap' \in BOOLEAN /\ (overlap => overlap') /\ ignored' \subseteq UserId
    BY <1>0, AcctParts DEF AcctTyped
  <2> QED
    BY <1>0, <2>4, <2>5, <2>6, <2>7, <2>8, IdentsKeep
<1> QED
  BY <1>0, <1>1, <1>2

\* The three statements of a deletion.
LEMMA DeleteStepKeeps ==
  ASSUME AcctInv, NEW a \in Actor, Accounts!DeleteStep(a)
  PROVE  AcctInv'
<1>0. Accounts!Deletes(a) /\ UNCHANGED <<settings, flows, uses, refused, ignored>>
  BY DEF Accounts!DeleteStep
<1>1. CASE /\ act[a].at = "delIdentities" /\ Accounts!Goes(a, "delSessions")
           /\ idents' = {i \in idents : i.uid # act[a].uid} /\ UNCHANGED users
  BY <1>0, <1>1, NamesGo
<1>2. CASE /\ act[a].at = "delSessions" /\ Accounts!Goes(a, "delUser")
           /\ UNCHANGED <<users, idents>>
  <2>1. /\ act' \in [Actor -> AcctRequest] /\ act'[a].at = "delUser" /\ act'[a].op = act[a].op
        /\ act'[a].uid = act[a].uid /\ act'[a].shared = act[a].shared
        /\ \A b \in Actor \ {a} : act'[b] = act[b]
        /\ act[a] # Accounts!Done /\ AloneInv'
    BY <1>2, AcctParts, GoesEffect
  <2>2. act[a].uid \in UserId /\ act[a].op # "anon"
    BY <1>2, AcctParts DEF ActsInv, ActOK
  <2>3. Moved(a) /\ ~MayUndo(act'[a])
    BY <2>1, <2>2 DEF Moved, ActOK, MayUndo
  <2>4. overlap' \in BOOLEAN /\ (overlap => overlap') /\ ignored' \subseteq UserId
    BY <1>0, AcctParts, AcctFields DEF AcctTyped, Accounts!Deletes
  <2>5. ~overlap' /\ ~act'[a].shared => Unnamed(a)'
    BY <1>0, <1>2, <2>1, <2>4, AcctParts DEF OrphanInv, InOrder, Unnamed
  <2>6. idents' \subseteq IdentityRow /\ \A i, j \in idents' : i.pid = j.pid => i = j
    BY <1>2, AcctParts DEF AcctInv, Accounts!OneAccountPerEmail
  <2> QED
    BY <1>0, <1>2, <2>1, <2>3, <2>4, <2>5, <2>6, IdentsKeep
<1>3. CASE /\ act[a].at = "delUser" /\ Accounts!Ends(a)
           /\ users' = [users EXCEPT ![act[a].uid] = Accounts!NoUser] /\ UNCHANGED idents
  <2>1. act[a].uid \in UserId
    BY <1>3, AcctParts DEF ActsInv, ActOK
  <2>2. ~overlap /\ ~act[a].shared => Unnamed(a)
    BY <1>3, AcctParts DEF OrphanInv, InOrder
  <2> QED
    BY <1>0, <1>3, <2>1, <2>2, DeletionKeeps
<1> QED
  BY <1>1, <1>2, <1>3 DEF Accounts!DeleteStep

\* A statement fails and the request with it.
LEMMA StatementFailsKeeps ==
  ASSUME AcctInv, NEW a \in Actor, Accounts!StatementFails(a)
  PROVE  AcctInv'
<1>1. /\ act[a].at # "idle" /\ Accounts!Ends(a)
      /\ UNCHANGED <<settings, users, idents, flows, uses, refused, ignored, overlap>>
  BY DEF Accounts!StatementFails
<1> QED
  BY <1>1, AcctParts, EndKeeps DEF UsedInv

\* A restart ends all requests; the identities that are there have their accounts.
LEMMA RestartKeeps ==
  ASSUME AcctInv, Accounts!Restart
  PROVE  AcctInv'
<1>1. /\ act' = [a \in Actor |-> Accounts!Done]
      /\ UNCHANGED <<settings, users, idents, flows, uses, refused, ignored, overlap>>
  BY DEF Accounts!Restart
<1>2. AcctTyped' /\ ActsInv' /\ AloneInv'
  BY <1>1, AcctParts, DoneShape DEF AcctTyped, ActsInv, AloneInv
<1>3. Accounts!OneAccountPerEmail' /\ UsedInv' /\ RefusedInv'
  BY <1>1 DEF AcctInv, Accounts!OneAccountPerEmail, Accounts!Exists, UsedInv, RefusedInv
<1>4. OrphanInv'
  BY <1>1, AcctParts, DoneShape DEF OrphanInv, InOrder, Accounts!Exists
<1> QED
  BY <1>2, <1>3, <1>4 DEF AcctInv

-----------------------------------------------------------------------------
(* Theorems about accounts                                                 *)

\* The invariant holds of the empty tables.
LEMMA InitAcctInv == Accounts!AcctInit => AcctInv
<1> SUFFICES ASSUME Accounts!AcctInit PROVE AcctInv
  OBVIOUS
<1>1. Accounts!NoUser \in UserRow /\ Accounts!NoFlow \in FlowRow
  BY DEF Accounts!NoUser, Accounts!NoFlow, UserRow, FlowRow, AcctOp
<1>2. AcctTyped
  BY <1>1, DoneShape DEF Accounts!AcctInit, AcctTyped
<1>3. ActsInv /\ AloneInv
  BY DoneShape DEF Accounts!AcctInit, ActsInv, AloneInv
<1>4. Accounts!OneAccountPerEmail /\ UsedInv /\ RefusedInv
  BY DEF Accounts!AcctInit, Accounts!OneAccountPerEmail, Accounts!Exists, UsedInv, RefusedInv
<1>5. OrphanInv
  BY DoneShape DEF Accounts!AcctInit, OrphanInv, InOrder
<1> QED
  BY <1>2, <1>3, <1>4, <1>5 DEF AcctInv

\* What the invariant speaks about.
acctCore == <<settings, users, idents, flows, act, uses, refused, ignored, overlap>>

\* A step that changes none of that.
LEMMA AcctStutter ==
  ASSUME AcctInv, UNCHANGED acctCore
  PROVE  AcctInv'
<1>1. AcctTyped' /\ ActsInv' /\ AloneInv'
  BY DEF acctCore, AcctInv, AcctTyped, ActsInv, AloneInv
<1>2. Accounts!OneAccountPerEmail' /\ UsedInv' /\ RefusedInv'
  BY DEF acctCore, AcctInv, Accounts!OneAccountPerEmail, Accounts!Exists, UsedInv, RefusedInv
<1>3. OrphanInv'
  BY DEF acctCore, AcctInv, OrphanInv, InOrder, Unnamed, Accounts!Exists
<1> QED
  BY <1>1, <1>2, <1>3 DEF AcctInv

\* One setting changes.
LEMMA SettingKeeps ==
  ASSUME AcctInv, NEW new \in [confirm : BOOLEAN, oauth : BOOLEAN], Accounts!UpdateSettings(new)
  PROVE  AcctInv'
<1>1. settings' = new /\ UNCHANGED <<users, idents, flows, act, uses, refused, ignored, overlap>>
  BY DEF Accounts!UpdateSettings
<1>2. AcctTyped' /\ ActsInv' /\ AloneInv'
  BY <1>1 DEF AcctInv, AcctTyped, ActsInv, AloneInv
<1>3. Accounts!OneAccountPerEmail' /\ UsedInv' /\ RefusedInv'
  BY <1>1 DEF AcctInv, Accounts!OneAccountPerEmail, Accounts!Exists, UsedInv, RefusedInv
<1>4. OrphanInv'
  BY <1>1 DEF AcctInv, OrphanInv, InOrder, Unnamed, Accounts!Exists
<1> QED
  BY <1>2, <1>3, <1>4 DEF AcctInv

\* Every step keeps the invariant.
LEMMA NextAcctInv ==
  ASSUME AcctInv, [Accounts!AcctNext]_(Accounts!acctVars)
  PROVE  AcctInv'
<1>1. CASE UNCHANGED Accounts!acctVars
  BY <1>1, AcctStutter DEF Accounts!acctVars, acctCore
<1>2. ASSUME NEW a \in Actor, NEW e \in Email,
             Accounts!Signup(a, e) \/ Accounts!Recover(a, e) \/ Accounts!PasswordGrant(a, e)
      PROVE  AcctInv'
  BY <1>2, SignupKeeps, RecoverKeeps, PasswordGrantKeeps
<1>3. ASSUME NEW a \in Actor, NEW e \in Email, NEW u \in UserId,
             Accounts!AdminCreate(a, u, e) \/ Accounts!UpdateEmail(a, u, e)
      PROVE  AcctInv'
  BY <1>3, AdminCreateKeeps, UpdateEmailKeeps
<1>4. ASSUME NEW a \in Actor, NEW e \in Email, NEW p \in Subject, Accounts!Callback(a, p, e)
      PROVE  AcctInv'
  BY <1>4, CallbackKeeps
<1>5. ASSUME NEW a \in Actor, NEW u \in UserId, Accounts!InsertUser(a, u) \/ Accounts!AdminDelete(a, u)
      PROVE  AcctInv'
  BY <1>5, InsertUserKeeps, AdminDeleteKeeps
<1>6. ASSUME NEW a \in Actor, NEW f \in Flow,
             \/ Accounts!MailToken(a, f)
             \/ \E k \in {"signup", "recovery", "oauth_code"} : Accounts!ConsumeToken(a, f, k)
      PROVE  AcctInv'
  BY <1>6, MailTokenKeeps, ConsumeTokenKeeps
<1>7. ASSUME NEW a \in Actor,
             \/ Accounts!Anonymous(a) \/ Accounts!InsertIdentity(a) \/ Accounts!IssueFor(a)
             \/ Accounts!UndoIdentities(a) \/ Accounts!UndoUser(a)
      PROVE  AcctInv'
  BY <1>7, AnonymousKeeps, InsertIdentityKeeps, IssueForKeeps, UndoIdentitiesKeeps, UndoUserKeeps
<1>8. ASSUME NEW a \in Actor,
             \/ Accounts!Verified(a) \/ Accounts!FinishOauth(a) \/ Accounts!UpdateUser(a)
             \/ Accounts!UpdateIdentity(a) \/ Accounts!DeleteStep(a)
             \/ Accounts!StatementFails(a)
      PROVE  AcctInv'
  BY <1>8, VerifiedKeeps, FinishOauthKeeps, UpdateUserKeeps, UpdateIdentityKeeps, DeleteStepKeeps,
     StatementFailsKeeps
<1>9. ASSUME NEW p \in Subject, Accounts!Authorize(p) PROVE AcctInv'
  BY <1>9, AcctStutter DEF Accounts!Authorize, acctCore
<1>10. ASSUME NEW b \in BOOLEAN, Accounts!UpsertProvider(b) \/ Accounts!RequireConfirmation(b)
       PROVE  AcctInv'
  <2>1. settings \in [confirm : BOOLEAN, oauth : BOOLEAN]
    BY DEF AcctInv, AcctTyped
  <2>2. /\ [settings EXCEPT !.oauth = b] \in [confirm : BOOLEAN, oauth : BOOLEAN]
        /\ [settings EXCEPT !.confirm = b] \in [confirm : BOOLEAN, oauth : BOOLEAN]
    BY <2>1
  <2> QED
    BY <1>10, <2>2, SettingKeeps DEF Accounts!UpsertProvider, Accounts!RequireConfirmation
<1> QED
  BY <1>1, <1>2, <1>3, <1>4, <1>5, <1>6, <1>7, <1>8, <1>9, <1>10, RestartKeeps DEF Accounts!AcctNext

\* While accounts run, a step of the suite is one of theirs.
LEMMA AccountsStep ==
  ASSUME [AccessNext]_accessVars, part = "accounts" \/ part' = "accounts"
  PROVE  part' = part /\ [Accounts!AcctNext]_(Accounts!acctVars)
  BY DEF AccessNext, accessVars, accountsVars, Accounts!acctVars

\* The rows of accounts, identities and tokens and the requests about them fit together
\* in every behaviour, however the requests overlap (auth.rs: signup,
\* oauth_resolve_user, consume_flow_token, admin_delete_user).
THEOREM AccountInvariant == AccessSpec => [](part = "accounts" => AcctInv)
<1>1. AccessInit => (part = "accounts" => AcctInv)
  BY InitAcctInv DEF AccessInit
<1>2. (part = "accounts" => AcctInv) /\ [AccessNext]_accessVars => (part = "accounts" => AcctInv)'
  BY AccountsStep, NextAcctInv
<1> QED
  BY <1>1, <1>2, PTL DEF AccessSpec

\* Accounts (auth.rs: signup, oauth_resolve_user, consume_flow_token): overlapping
\* requests leave one account per address and provider identity, a mailed token or
\* code is accepted once, and a creation that failed half-way leaves nothing,
\* unless the clean-up failed as well.
THEOREM AccountsAlwaysSound == AccessSpec => []AccountsSound
<1>1. ASSUME part = "accounts" => AcctInv PROVE AccountsSound
  <2>1. SUFFICES ASSUME part = "accounts"
                 PROVE  Accounts!OneAccountPerEmail /\ Accounts!FlowTokenOnce /\ Accounts!NoOrphans
    BY DEF AccountsSound
  <2>2. AcctInv
    BY <1>1, <2>1
  <2>3. Accounts!OneAccountPerEmail /\ Accounts!FlowTokenOnce
    BY <2>2 DEF AcctInv, AcctTyped, Accounts!FlowTokenOnce
  <2>4. Accounts!NoOrphans
    BY <2>2 DEF AcctInv, RefusedInv, OrphanInv, InOrder, Accounts!NoOrphans
  <2> QED
    BY <2>3, <2>4
<1> QED
  BY <1>1, AccountInvariant, PTL

-----------------------------------------------------------------------------
(* Push delivery: the inductive invariant                                  *)

\* Rows, calls, and what the worker knows.
DeviceRow == [subject : Subject \cup {""}, active : BOOLEAN]
OutboxRow == [token : PushToken, attempts : Nat, state : {"pending", "dead"}, due : BOOLEAN]
PushCall ==
  [at : {"idle", "register", "leave", "count", "insert", "full"}, subject : Subject \cup {""},
   token : PushToken \cup {""}, devices : SUBSET PushToken]
Answers == UNION {[S -> Pushing!Answer] : S \in SUBSET Nat}
Delivery ==
  [at : {"idle", "deliver", "apply", "prune"}, jobs : SUBSET Nat, results : Answers,
   sink : Nat, using : Nat, half : Nat]

PushTyped ==
  /\ device \in [PushToken -> DeviceRow] /\ cred \in [plain : Nat, enc : Nat]
  /\ outbox \in [DOMAIN outbox -> OutboxRow] /\ DOMAIN outbox \subseteq 1..issued
  /\ caller \in [Sender -> PushCall] /\ worker \in Delivery /\ worker.jobs \subseteq 1..issued
  /\ issued \in 0..MaxSends /\ faults \in Nat /\ tries \in [1..MaxSends -> Nat]

\* The quota, and that a registration past its decision finds the devices as it saw them:
\* it holds the registry.
DevicesOf(s) == Cardinality(Pushing!ActiveDevices(s))
QuotaInv == \A s \in Subject : DevicesOf(s) <= MaxPerSubject
RegisterOK(c) ==
  /\ caller[c].at \in {"register", "leave"} => registry = c
  /\ caller[c].at = "register" =>
       /\ caller[c].subject \in Subject /\ caller[c].token \in PushToken
       /\ \/ caller[c].token \in Pushing!ActiveDevices(caller[c].subject)
          \/ DevicesOf(caller[c].subject) < MaxPerSubject

\* The capacity, and that a send past the count finds the room it counted: it holds the
\* enqueue guard, and the worker only takes rows away.
CapacityInv == Cardinality(DOMAIN outbox) <= MaxOutbox
SendOK(c) ==
  /\ caller[c].at \in {"insert", "full"} => enqueue = c
  /\ caller[c].at = "insert" =>
       Cardinality(DOMAIN outbox) + Cardinality(caller[c].devices) <= MaxOutbox

\* The rows of the batch, until their outcome is applied, are in the outbox and pending.
Pending == {i \in DOMAIN outbox : outbox[i].state = "pending"}
Outcomes == DOMAIN worker.results
WorkerInv ==
  /\ Outcomes \subseteq worker.jobs
  /\ worker.at = "deliver" => worker.sink = worker.using /\ worker.jobs \subseteq Pending
  /\ worker.at = "apply" => Outcomes \subseteq Pending
  /\ worker.at \in {"idle", "prune"} => Outcomes = {}
  /\ worker.half # 0 => worker.at = "apply" /\ worker.half \in Outcomes
  /\ \A i \in Outcomes : worker.results[i] = "ok" => i \in taken

\* A pending row was tried as often as it says, once more if its outcome is known and not
\* applied, and once more for each fault, which may have made the worker forget one.
AttemptInv ==
  /\ \A i \in 1..MaxSends : /\ tries[i] <= MaxAttempts + faults
                            /\ i > issued => tries[i] = 0
  /\ \A i \in DOMAIN outbox : outbox[i].attempts <= MaxAttempts
  /\ \A i \in Pending : /\ outbox[i].attempts < MaxAttempts
                        /\ tries[i] <= outbox[i].attempts + faults + IF i \in Outcomes THEN 1 ELSE 0

PushInv ==
  /\ PushTyped /\ QuotaInv /\ CapacityInv /\ WorkerInv /\ AttemptInv
  /\ \A c \in Sender : RegisterOK(c) /\ SendOK(c)

-----------------------------------------------------------------------------
(* Counting, and what a step leaves alone                                  *)

\* Push counts as the library does.
LEMMA PushCounts == \A S : Pushing!Cardinality(S) = Cardinality(S)
  BY DEF Cardinality, Pushing!Cardinality

\* Devices and rows are finitely many.
LEMMA FiniteDevices ==
  ASSUME NEW S \in SUBSET PushToken
  PROVE  IsFiniteSet(S) /\ Cardinality(S) \in Nat
  BY PushAssumption, FS_Subset, FS_CardinalityType

LEMMA FiniteRows ==
  ASSUME NEW n \in Nat, NEW S \in SUBSET (1..n)
  PROVE  IsFiniteSet(S) /\ Cardinality(S) \in Nat
<1>1. IsFiniteSet(1..n)
  BY FS_Interval
<1> QED
  BY <1>1, FS_Subset, FS_CardinalityType

LEMMA FewerDevices ==
  ASSUME NEW T \in SUBSET PushToken, NEW S \in SUBSET T
  PROVE  Cardinality(S) \in Nat /\ Cardinality(T) \in Nat /\ Cardinality(S) <= Cardinality(T)
  BY FiniteDevices, FS_Subset

LEMMA FewerRows ==
  ASSUME NEW n \in Nat, NEW T \in SUBSET (1..n), NEW S \in SUBSET T
  PROVE  Cardinality(S) \in Nat /\ Cardinality(T) \in Nat /\ Cardinality(S) <= Cardinality(T)
  BY FiniteRows, FS_Subset

LEMMA DevicesTyped ==
  ASSUME NEW s
  PROVE  Pushing!ActiveDevices(s) \in SUBSET PushToken /\ DevicesOf(s) \in Nat
<1>1. Pushing!ActiveDevices(s) \in SUBSET PushToken
  BY DEF Pushing!ActiveDevices
<1> QED
  BY <1>1, FiniteDevices DEF DevicesOf

\* The registry is as it was, or the worker gives it back.
SameRegistry == device' = device /\ (registry' = registry \/ registry \notin Sender)
LEMMA RegistryKept ==
  ASSUME PushInv, SameRegistry, caller' = caller
  PROVE  QuotaInv' /\ \A c \in Sender : RegisterOK(c)'
<1>1. \A s : Pushing!ActiveDevices(s)' = Pushing!ActiveDevices(s) /\ DevicesOf(s)' = DevicesOf(s)
  BY DEF SameRegistry, Pushing!ActiveDevices, DevicesOf
<1>2. QuotaInv'
  BY <1>1 DEF PushInv, QuotaInv
<1>3. ASSUME NEW c \in Sender PROVE RegisterOK(c)'
  <2>1. RegisterOK(c)
    BY DEF PushInv
  <2> QED
    BY <1>1, <2>1 DEF RegisterOK, SameRegistry
<1> QED
  BY <1>2, <1>3

\* Rows only leave the outbox.
LEMMA CapacityKept ==
  ASSUME PushInv, DOMAIN outbox' \subseteq DOMAIN outbox, caller' = caller, enqueue' = enqueue
  PROVE  CapacityInv' /\ \A c \in Sender : SendOK(c)'
<1>1. /\ Cardinality(DOMAIN outbox) \in Nat /\ Cardinality(DOMAIN outbox') \in Nat
      /\ Cardinality(DOMAIN outbox') <= Cardinality(DOMAIN outbox)
  BY FewerRows DEF PushInv, PushTyped
<1>2. CapacityInv'
  BY <1>1, PushAssumption DEF PushInv, CapacityInv
<1>3. ASSUME NEW c \in Sender PROVE SendOK(c)'
  <2>1. SendOK(c) /\ caller[c].devices \in SUBSET PushToken
    BY DEF PushInv, PushTyped, PushCall
  <2>2. Cardinality(caller[c].devices) \in Nat
    BY <2>1, FiniteDevices
  <2> QED
    BY <1>1, <2>1, <2>2, PushAssumption DEF SendOK
<1> QED
  BY <1>2, <1>3

\* The outbox and the worker are left alone.
SameDelivery == UNCHANGED <<outbox, worker, issued, tries, taken, faults>>
LEMMA DeliveryKept ==
  ASSUME PushInv, SameDelivery
  PROVE  WorkerInv' /\ AttemptInv'
<1>1. Pending' = Pending /\ Outcomes' = Outcomes
  BY DEF SameDelivery, Pending, Outcomes
<1> QED
  BY <1>1 DEF PushInv, SameDelivery, WorkerInv, AttemptInv

\* The worker without a batch.
BatchGone(w) == w \in Delivery /\ w.jobs = {} /\ DOMAIN w.results = {} /\ w.half = 0 /\ w.at # "deliver"
LEMMA IdleWorker ==
  /\ BatchGone(Pushing!NoWorker)
  /\ \A k \in Nat : /\ BatchGone([Pushing!NoWorker EXCEPT !.sink = k])
                   /\ BatchGone([Pushing!NoWorker EXCEPT !.at = "prune", !.sink = k])
<1>1. <<>> \in [{} -> Pushing!Answer] /\ DOMAIN <<>> = {}
  OBVIOUS
<1>2. <<>> \in Answers
  BY <1>1 DEF Answers
<1> HIDE DEF Answers
<1> QED
  BY <1>1, <1>2 DEF BatchGone, Delivery, Pushing!NoWorker

LEMMA InitPushInv == ASSUME Pushing!PushInit PROVE PushInv
<1> USE DEF Pushing!PushInit
<1>1. PushTyped
  <2>1. outbox = <<>> /\ DOMAIN <<>> = {} /\ <<>> \in [{} -> OutboxRow]
    OBVIOUS
  <2>2. device \in [PushToken -> DeviceRow]
    BY DEF DeviceRow, Pushing!NoDevice
  <2>3. caller \in [Sender -> PushCall]
    BY DEF PushCall, Pushing!NoCaller
  <2>4. worker \in Delivery /\ worker.jobs = {}
    <3>1. <<>> \in [{} -> Pushing!Answer]
      OBVIOUS
    <3>2. <<>> \in Answers
      BY <3>1 DEF Answers
    <3> HIDE DEF Answers
    <3> QED
      BY <3>2 DEF Delivery, Pushing!NoWorker
  <2>5. cred \in [plain : Nat, enc : Nat] /\ tries \in [1..MaxSends -> Nat]
    BY DEF Pushing!OutRow
  <2> QED
    BY <2>1, <2>2, <2>3, <2>4, <2>5, PushAssumption DEF PushTyped
<1>2. QuotaInv
  <2>1. SUFFICES ASSUME NEW s \in Subject PROVE DevicesOf(s) <= MaxPerSubject
    BY DEF QuotaInv
  <2>2. Pushing!ActiveDevices(s) = {}
    BY DEF Pushing!ActiveDevices, Pushing!NoDevice
  <2> QED
    BY <2>2, FS_EmptySet, PushAssumption DEF DevicesOf
<1>3. DOMAIN outbox = {} /\ Outcomes = {}
  <2>1. outbox = <<>> /\ worker.results = <<>> /\ DOMAIN <<>> = {}
    BY DEF Pushing!NoWorker
  <2> QED
    BY <2>1 DEF Outcomes
<1>4. CapacityInv
  BY <1>3, FS_EmptySet, PushAssumption DEF CapacityInv
<1>5. WorkerInv
  BY <1>3 DEF WorkerInv, Pushing!NoWorker
<1>6. AttemptInv
  BY <1>3, PushAssumption DEF AttemptInv, Pending, Pushing!OutRow
<1>7. ASSUME NEW c \in Sender PROVE RegisterOK(c) /\ SendOK(c)
  BY DEF RegisterOK, SendOK, Pushing!NoCaller
<1> QED
  BY <1>1, <1>2, <1>4, <1>5, <1>6, <1>7 DEF PushInv

-----------------------------------------------------------------------------
(* Devices                                                                 *)

\* A step of one caller, outside the outbox and the worker.
LEMMA CallerFrame ==
  ASSUME PushInv, NEW c \in Sender, SameDelivery, enqueue' = enqueue,
         \A b \in Sender \ {c} : caller'[b] = caller[b],
         caller'[c].at \notin {"insert", "full"}
  PROVE  CapacityInv' /\ WorkerInv' /\ AttemptInv' /\ \A b \in Sender : SendOK(b)'
<1>1. CapacityInv'
  BY DEF PushInv, CapacityInv, SameDelivery
<1>2. ASSUME NEW b \in Sender PROVE SendOK(b)'
  BY DEF PushInv, SendOK, SameDelivery
<1> QED
  BY <1>1, <1>2, DeliveryKept

LEMMA RegisterLookKeeps ==
  ASSUME PushInv, NEW c \in Sender, NEW s \in Subject, NEW t \in PushToken, NEW b \in BOOLEAN,
         Pushing!RegisterLook(c, s, t, b)
  PROVE  PushInv'
<1> DEFINE known == device[t] # Pushing!NoDevice
           gains == ~known \/ device[t].subject # s \/ ~device[t].active
           refused1 == \/ known /\ ~b /\ device[t].subject # s
                       \/ gains /\ Pushing!Cardinality(Pushing!ActiveDevices(s)) >= MaxPerSubject
           call1 == [Pushing!NoCaller EXCEPT !.at = IF refused1 THEN "leave" ELSE "register",
                                             !.subject = s, !.token = t]
<1>1. /\ caller[c] = Pushing!NoCaller /\ registry = "free" /\ registry' = c
      /\ cred' = Pushing!Migrated(cred) /\ caller' = [caller EXCEPT ![c] = call1]
      /\ UNCHANGED <<device, outbox, enqueue, worker, issued, tries, taken, faults>>
  BY DEF Pushing!RegisterLook, Pushing!LocksRegistry, Pushing!Free
<1>2. call1 \in PushCall /\ call1.at \in {"leave", "register"} /\ call1.subject = s /\ call1.token = t
  BY DEF PushCall, Pushing!NoCaller
<1>3. call1.at = "register" => t \in Pushing!ActiveDevices(s) \/ DevicesOf(s) < MaxPerSubject
  <2>1. SUFFICES ASSUME call1.at = "register", t \notin Pushing!ActiveDevices(s)
                 PROVE  DevicesOf(s) < MaxPerSubject
    OBVIOUS
  <2>2. ~refused1
    BY <2>1 DEF Pushing!NoCaller
  <2>3. gains
    BY <2>1 DEF Pushing!ActiveDevices
  <2>4. ~(DevicesOf(s) >= MaxPerSubject)
    BY <2>2, <2>3, PushCounts DEF DevicesOf
  <2> QED
    BY <2>4, DevicesTyped, PushAssumption
<1> HIDE DEF call1
<1>4. PushTyped'
  <2>1. cred' \in [plain : Nat, enc : Nat]
    BY <1>1 DEF PushInv, PushTyped, Pushing!Migrated
  <2>2. caller' \in [Sender -> PushCall]
    BY <1>1, <1>2 DEF PushInv, PushTyped
  <2> QED
    BY <1>1, <2>1, <2>2 DEF PushInv, PushTyped
<1>5. caller'[c] = call1 /\ \A a \in Sender \ {c} : caller'[a] = caller[a]
  BY <1>1 DEF PushInv, PushTyped
<1>6. CapacityInv' /\ WorkerInv' /\ AttemptInv' /\ \A a \in Sender : SendOK(a)'
  BY <1>1, <1>2, <1>5, CallerFrame DEF SameDelivery
<1>7. \A r : Pushing!ActiveDevices(r)' = Pushing!ActiveDevices(r) /\ DevicesOf(r)' = DevicesOf(r)
  BY <1>1 DEF Pushing!ActiveDevices, DevicesOf
<1>8. QuotaInv'
  BY <1>7 DEF PushInv, QuotaInv
<1>9. ASSUME NEW a \in Sender PROVE RegisterOK(a)'
  <2>1. CASE a = c
    BY <1>1, <1>2, <1>3, <1>5, <1>7, <2>1 DEF RegisterOK
  <2>2. CASE a # c
    <3>1. RegisterOK(a) /\ registry # a
      BY <1>1, PushAssumption DEF PushInv
    <3> QED
      BY <1>5, <2>2, <3>1 DEF RegisterOK
  <2> QED
    BY <2>1, <2>2
<1> QED
  BY <1>4, <1>6, <1>8, <1>9 DEF PushInv

\* Whoever holds the registry is alone in it.
LEMMA RegistryFree ==
  ASSUME PushInv, NEW a \in Sender, registry # a
  PROVE  caller[a].at \notin {"register", "leave"}
  BY DEF PushInv, RegisterOK

LEMMA RegisterWriteKeeps ==
  ASSUME PushInv, NEW c \in Sender, Pushing!RegisterWrite(c)
  PROVE  PushInv'
<1> DEFINE s == caller[c].subject
           t == caller[c].token
           row == [subject |-> s, active |-> TRUE]
<1>1. /\ caller[c].at \in {"register", "leave"}
      /\ IF caller[c].at = "leave" THEN device' = device ELSE device' = [device EXCEPT ![t] = row]
      /\ caller' = [caller EXCEPT ![c] = Pushing!NoCaller]
      /\ UNCHANGED <<outbox, cred, enqueue, worker, issued, tries, taken, faults>>
  BY DEF Pushing!RegisterWrite
<1>2. registry = c
  BY <1>1, RegistryFree
<1>3. Pushing!NoCaller \in PushCall /\ Pushing!NoCaller.at = "idle"
  BY DEF PushCall, Pushing!NoCaller
<1>4. caller'[c] = Pushing!NoCaller /\ \A a \in Sender \ {c} : caller'[a] = caller[a]
  BY <1>1 DEF PushInv, PushTyped
<1>5. s \in Subject \cup {""} /\ row \in DeviceRow
  BY DEF PushInv, PushTyped, PushCall, DeviceRow
<1>6. PushTyped'
  <2>1. device' \in [PushToken -> DeviceRow]
    BY <1>1, <1>5 DEF PushInv, PushTyped
  <2>2. caller' \in [Sender -> PushCall]
    BY <1>1, <1>3 DEF PushInv, PushTyped
  <2> QED
    BY <1>1, <2>1, <2>2 DEF PushInv, PushTyped
<1>7. CapacityInv' /\ WorkerInv' /\ AttemptInv' /\ \A a \in Sender : SendOK(a)'
  BY <1>1, <1>3, <1>4, CallerFrame DEF SameDelivery
<1>8. QuotaInv'
  <2>1. CASE caller[c].at = "leave"
    <3>1. \A r : Pushing!ActiveDevices(r)' = Pushing!ActiveDevices(r)
      BY <1>1, <2>1 DEF Pushing!ActiveDevices
    <3> QED
      BY <3>1 DEF PushInv, QuotaInv, DevicesOf
  <2>2. CASE caller[c].at = "register"
    <3>1. PICK u \in Subject :
          /\ u = s /\ t \in PushToken /\ device' = [device EXCEPT ![t] = row]
          /\ t \in Pushing!ActiveDevices(u) \/ DevicesOf(u) < MaxPerSubject
      BY <1>1, <2>2 DEF PushInv, RegisterOK
    <3>2. ASSUME NEW r \in Subject, r # u PROVE DevicesOf(r)' <= MaxPerSubject
      <4>1. Pushing!ActiveDevices(r)' \in SUBSET Pushing!ActiveDevices(r)
        BY <3>1, <3>2 DEF PushInv, PushTyped, Pushing!ActiveDevices
      <4>2. DevicesOf(r) <= MaxPerSubject
        BY DEF PushInv, QuotaInv
      <4>3. DevicesOf(r) \in Nat /\ DevicesOf(r)' \in Nat /\ DevicesOf(r)' <= DevicesOf(r)
        BY <4>1, DevicesTyped, FewerDevices DEF DevicesOf
      <4> QED
        BY <4>2, <4>3, PushAssumption
    <3>3. DevicesOf(u)' <= MaxPerSubject
      <4>1. Pushing!ActiveDevices(u)' = Pushing!ActiveDevices(u) \cup {t}
        BY <3>1 DEF PushInv, PushTyped, Pushing!ActiveDevices
      <4>2. DevicesOf(u) <= MaxPerSubject
        BY <3>1 DEF PushInv, QuotaInv
      <4>3. IsFiniteSet(Pushing!ActiveDevices(u)) /\ DevicesOf(u) \in Nat
        BY DevicesTyped, FiniteDevices
      <4>4. DevicesOf(u)' = IF t \in Pushing!ActiveDevices(u) THEN DevicesOf(u) ELSE DevicesOf(u) + 1
        BY <4>1, <4>3, FS_AddElement DEF DevicesOf
      <4> QED
        BY <3>1, <4>2, <4>3, <4>4, PushAssumption
    <3> QED
      BY <3>2, <3>3 DEF QuotaInv
  <2> QED
    BY <1>1, <2>1, <2>2
<1>9. ASSUME NEW a \in Sender PROVE RegisterOK(a)'
  <2>1. CASE a = c
    BY <1>3, <1>4, <2>1 DEF RegisterOK
  <2>2. CASE a # c
    BY <1>2, <1>4, <2>2, RegistryFree DEF RegisterOK
  <2> QED
    BY <2>1, <2>2
<1> QED
  BY <1>6, <1>7, <1>8, <1>9 DEF PushInv

\* Devices leave while nobody registers one.
LEMMA DevicesLeave ==
  ASSUME PushInv, registry = "free", caller' = caller,
         \A s \in Subject : Pushing!ActiveDevices(s)' \subseteq Pushing!ActiveDevices(s)
  PROVE  QuotaInv' /\ \A c \in Sender : RegisterOK(c)'
<1>1. ASSUME NEW s \in Subject PROVE DevicesOf(s)' <= MaxPerSubject
  <2>1. DevicesOf(s) \in Nat /\ DevicesOf(s)' \in Nat /\ DevicesOf(s)' <= DevicesOf(s)
    BY DevicesTyped, FewerDevices DEF DevicesOf
  <2> QED
    BY <2>1, PushAssumption DEF PushInv, QuotaInv
<1>2. ASSUME NEW c \in Sender PROVE RegisterOK(c)'
  BY RegistryFree, PushAssumption DEF RegisterOK
<1> QED
  BY <1>1, <1>2 DEF QuotaInv

LEMMA DeleteDeviceKeeps ==
  ASSUME PushInv, NEW t \in PushToken, Pushing!DeleteDevice(t)
  PROVE  PushInv'
<1>1. /\ registry = "free" /\ device' = [device EXCEPT ![t] = Pushing!NoDevice]
      /\ UNCHANGED <<outbox, cred, enqueue, caller, worker, issued, tries, taken, faults>>
  BY DEF Pushing!DeleteDevice, Pushing!Free
<1>2. Pushing!NoDevice \in DeviceRow
  BY DEF DeviceRow, Pushing!NoDevice
<1>3. PushTyped'
  <2>1. device' \in [PushToken -> DeviceRow]
    BY <1>1, <1>2 DEF PushInv, PushTyped
  <2> QED
    BY <1>1, <2>1 DEF PushInv, PushTyped
<1>4. \A s \in Subject : Pushing!ActiveDevices(s)' \subseteq Pushing!ActiveDevices(s)
  BY <1>1 DEF PushInv, PushTyped, Pushing!ActiveDevices, Pushing!NoDevice
<1> QED
  BY <1>1, <1>3, <1>4, DevicesLeave, CapacityKept, DeliveryKept DEF PushInv, SameDelivery

\* Credentials and the key.
LEMMA CredentialsKeep ==
  ASSUME PushInv,
         Pushing!SetCredentials \/ Pushing!ClearCredentials \/ Pushing!EncInit
           \/ UNCHANGED Pushing!pushVars
  PROVE  PushInv'
<1>1. UNCHANGED <<device, outbox, registry, enqueue, caller, worker, issued, tries, taken, faults>>
  BY DEF Pushing!SetCredentials, Pushing!ClearCredentials, Pushing!EncInit, Pushing!pushVars
<1>2. cred' \in [plain : Nat, enc : Nat]
  <2>1. cred \in [plain : Nat, enc : Nat]
    BY DEF PushInv, PushTyped
  <2> QED
    BY <2>1 DEF Pushing!SetCredentials, Pushing!ClearCredentials, Pushing!EncInit, Pushing!pushVars,
       Pushing!StoredSecret, Pushing!NoSecret
<1>3. PushTyped'
  BY <1>1, <1>2 DEF PushInv, PushTyped
<1> QED
  BY <1>1, <1>3, RegistryKept, CapacityKept, DeliveryKept DEF PushInv, SameDelivery, SameRegistry

-----------------------------------------------------------------------------
(* Sends                                                                   *)

\* A step of one caller that leaves the devices and the registry alone.
LEMMA SendFrame ==
  ASSUME PushInv, NEW c \in Sender, device' = device, registry' = registry,
         \A b \in Sender \ {c} : caller'[b] = caller[b],
         caller'[c].at \notin {"register", "leave"}
  PROVE  QuotaInv' /\ \A b \in Sender : RegisterOK(b)'
<1>1. \A s : Pushing!ActiveDevices(s)' = Pushing!ActiveDevices(s) /\ DevicesOf(s)' = DevicesOf(s)
  BY DEF Pushing!ActiveDevices, DevicesOf
<1>2. QuotaInv'
  BY <1>1 DEF PushInv, QuotaInv
<1>3. ASSUME NEW b \in Sender PROVE RegisterOK(b)'
  <2>1. CASE b = c
    BY <2>1 DEF RegisterOK
  <2>2. CASE b # c
    <3>1. RegisterOK(b)
      BY DEF PushInv
    <3> QED
      BY <1>1, <2>2, <3>1 DEF RegisterOK
  <2> QED
    BY <2>1, <2>2
<1> QED
  BY <1>2, <1>3

LEMMA SendResolveKeeps ==
  ASSUME PushInv, NEW c \in Sender, NEW S \in SUBSET Subject, Pushing!SendResolve(c, S)
  PROVE  PushInv'
<1> DEFINE found == UNION {Pushing!ActiveDevices(s) : s \in S}
           call1 == [Pushing!NoCaller EXCEPT !.at = "count", !.devices = found]
<1>1. /\ cred' = Pushing!Migrated(cred) /\ caller' = [caller EXCEPT ![c] = call1]
      /\ UNCHANGED <<device, outbox, registry, enqueue, worker, issued, tries, taken, faults>>
  BY DEF Pushing!SendResolve
<1>2. found \in SUBSET PushToken
  BY DevicesTyped
<1> HIDE DEF found
<1>3. call1 \in PushCall /\ call1.at = "count"
  BY <1>2 DEF PushCall, Pushing!NoCaller
<1> HIDE DEF call1
<1>4. PushTyped'
  <2>1. cred' \in [plain : Nat, enc : Nat]
    BY <1>1 DEF PushInv, PushTyped, Pushing!Migrated
  <2>2. caller' \in [Sender -> PushCall]
    BY <1>1, <1>3 DEF PushInv, PushTyped
  <2> QED
    BY <1>1, <2>1, <2>2 DEF PushInv, PushTyped
<1>5. caller'[c] = call1 /\ \A a \in Sender \ {c} : caller'[a] = caller[a]
  BY <1>1 DEF PushInv, PushTyped
<1>6. CapacityInv' /\ WorkerInv' /\ AttemptInv' /\ \A a \in Sender : SendOK(a)'
  BY <1>1, <1>3, <1>5, CallerFrame DEF SameDelivery
<1>7. QuotaInv' /\ \A a \in Sender : RegisterOK(a)'
  BY <1>1, <1>3, <1>5, SendFrame
<1> QED
  BY <1>4, <1>6, <1>7 DEF PushInv

\* Whoever holds the enqueue guard is alone in it.
LEMMA EnqueueFree ==
  ASSUME PushInv, NEW a \in Sender, enqueue # a
  PROVE  caller[a].at \notin {"insert", "full"}
  BY DEF PushInv, SendOK

\* The counts of a send.
LEMMA SendCounts ==
  ASSUME PushTyped, NEW c \in Sender
  PROVE  /\ caller[c] \in PushCall /\ caller[c].devices \in SUBSET PushToken
         /\ Cardinality(caller[c].devices) \in Nat /\ Cardinality(DOMAIN outbox) \in Nat
<1>1. caller[c] \in PushCall /\ caller[c].devices \in SUBSET PushToken
  BY DEF PushTyped, PushCall
<1>2. issued \in Nat /\ DOMAIN outbox \in SUBSET (1..issued)
  BY PushAssumption DEF PushTyped
<1> QED
  BY <1>1, <1>2, FiniteDevices, FiniteRows

LEMMA SendCountKeeps ==
  ASSUME PushInv, NEW c \in Sender, Pushing!SendCount(c)
  PROVE  PushInv'
<1> DEFINE n == Cardinality(caller[c].devices)
           m == Cardinality(DOMAIN outbox)
           at1 == IF n > MaxOutbox - m THEN "full" ELSE "insert"
<1>1. /\ caller[c].at = "count" /\ enqueue = "free" /\ enqueue' = c
      /\ caller' = [caller EXCEPT ![c].at = at1]
      /\ UNCHANGED <<device, outbox, cred, registry, worker, issued, tries, taken, faults>>
  BY PushCounts DEF Pushing!SendCount, Pushing!LocksEnqueue, Pushing!Free
<1>2. caller[c] \in PushCall /\ n \in Nat /\ m \in Nat
  BY SendCounts DEF PushInv
<1>3. at1 \in {"full", "insert"} /\ (at1 = "insert" => m + n <= MaxOutbox)
  BY <1>2, PushAssumption
<1> HIDE DEF at1
<1>4. /\ caller' \in [Sender -> PushCall] /\ caller'[c] = [caller[c] EXCEPT !.at = at1]
      /\ \A a \in Sender \ {c} : caller'[a] = caller[a]
  <2>1. [caller[c] EXCEPT !.at = at1] \in PushCall
    BY <1>2, <1>3 DEF PushCall
  <2> QED
    BY <1>1, <2>1 DEF PushInv, PushTyped
<1>5. caller'[c].at = at1 /\ caller'[c].devices = caller[c].devices
  BY <1>2, <1>4 DEF PushCall
<1>6. PushTyped'
  BY <1>1, <1>4 DEF PushInv, PushTyped
<1>7. QuotaInv' /\ \A a \in Sender : RegisterOK(a)'
  BY <1>1, <1>3, <1>4, <1>5, SendFrame
<1>8. CapacityInv' /\ WorkerInv' /\ AttemptInv'
  BY <1>1, DeliveryKept DEF PushInv, CapacityInv, SameDelivery
<1>9. ASSUME NEW a \in Sender PROVE SendOK(a)'
  <2>1. CASE a = c
    BY <1>1, <1>3, <1>5, <2>1 DEF SendOK
  <2>2. CASE a # c
    BY <1>1, <1>4, <2>2, EnqueueFree, PushAssumption DEF SendOK
  <2> QED
    BY <2>1, <2>2
<1> QED
  BY <1>6, <1>7, <1>8, <1>9 DEF PushInv

\* A set of devices can be numbered.
LEMMA Numbering ==
  ASSUME NEW S \in SUBSET PushToken
  PROVE  LET f == CHOOSE f \in [1..Cardinality(S) -> S] :
                    \A t \in S : \E i \in DOMAIN f : f[i] = t
         IN  f \in [1..Cardinality(S) -> S]
<1>1. PICK f \in Bijection(1..Cardinality(S), S) : TRUE
  BY FiniteDevices, FS_CardinalityType DEF ExistsBijection
<1>2. f \in [1..Cardinality(S) -> S] /\ \A t \in S : \E i \in DOMAIN f : f[i] = t
  BY <1>1 DEF Bijection, Surjection, Injection, IsInjective
<1> QED
  BY <1>2

\* New rows add their number.
LEMMA RowsAdd ==
  ASSUME NEW m \in Nat, NEW n \in Nat, NEW S \in SUBSET (1..m)
  PROVE  Cardinality(S \cup (m + 1)..(m + n)) = Cardinality(S) + n
<1>1. PICK a \in Int, b \in Int : a = m + 1 /\ b = m + n
  OBVIOUS
<1>2. IsFiniteSet(a..b) /\ Cardinality(a..b) = n
  BY <1>1, FS_Interval
<1>3. IsFiniteSet(S) /\ Cardinality(S) \in Nat
  BY FiniteRows
<1>4. S \cap a..b = {}
  BY <1>1
<1>5. Cardinality(S \cup a..b) = Cardinality(S) + Cardinality(a..b) - Cardinality({})
  BY <1>2, <1>3, <1>4, FS_Union
<1>6. Cardinality({}) = 0
  BY FS_EmptySet
<1> QED
  BY <1>1, <1>2, <1>3, <1>5, <1>6

\* New rows at the end of the outbox.
NewRow(t) == [token |-> t, attempts |-> 0, state |-> "pending", due |-> TRUE]
LEMMA RowsArrive ==
  ASSUME PushInv, NEW n \in Nat, NEW f \in [1..n -> PushToken], issued + n <= MaxSends,
         Cardinality(DOMAIN outbox) + n <= MaxOutbox,
         issued' = issued + n,
         outbox' = [i \in DOMAIN outbox \cup (issued + 1)..(issued + n) |->
                      IF i \in (issued + 1)..(issued + n) THEN NewRow(f[i - issued]) ELSE outbox[i]],
         UNCHANGED <<worker, tries, taken, faults>>
  PROVE  /\ issued' \in 0..MaxSends /\ outbox' \in [DOMAIN outbox' -> OutboxRow]
         /\ DOMAIN outbox' \subseteq 1..issued' /\ worker'.jobs \subseteq 1..issued'
         /\ CapacityInv' /\ WorkerInv' /\ AttemptInv'
<1> DEFINE fresh == (issued + 1)..(issued + n)
<1>1. /\ issued \in Nat /\ DOMAIN outbox \subseteq 1..issued /\ worker.jobs \subseteq 1..issued
      /\ fresh \subseteq 1..(issued + n) /\ fresh \cap 1..issued = {} /\ issued' \in 0..MaxSends
      /\ fresh \subseteq 1..MaxSends
  BY PushAssumption DEF PushInv, PushTyped
<1>2. \A i \in fresh : NewRow(f[i - issued]) \in OutboxRow /\ i - issued \in 1..n
  <2>1. ASSUME NEW i \in fresh PROVE i - issued \in 1..n
    BY <1>1
  <2> QED
    BY <2>1 DEF NewRow, OutboxRow
<1>3. DOMAIN outbox' = DOMAIN outbox \cup fresh
  OBVIOUS
<1>4. /\ \A i \in fresh : i \in DOMAIN outbox' /\ outbox'[i] = NewRow(f[i - issued])
      /\ \A i \in DOMAIN outbox : i \notin fresh /\ i \in DOMAIN outbox' /\ outbox'[i] = outbox[i]
  BY <1>1
<1>5. outbox' \in [DOMAIN outbox' -> OutboxRow]
  <2>1. \A i \in DOMAIN outbox' : outbox'[i] \in OutboxRow
    BY <1>2, <1>3, <1>4 DEF PushInv, PushTyped
  <2>2. outbox' = [i \in DOMAIN outbox' |-> outbox'[i]]
    OBVIOUS
  <2> QED
    BY <2>1, <2>2
<1> HIDE DEF fresh
<1>6. CapacityInv'
  <2>1. Cardinality(DOMAIN outbox') = Cardinality(DOMAIN outbox) + n
    BY <1>1, <1>3, RowsAdd DEF fresh
  <2> QED
    BY <2>1 DEF CapacityInv
<1>7. Pending' = Pending \cup fresh /\ Outcomes' = Outcomes /\ Outcomes \cap fresh = {}
  <2>1. \A i \in fresh : outbox'[i].state = "pending"
    BY <1>4 DEF NewRow
  <2>2. Outcomes \subseteq 1..issued
    BY <1>1 DEF PushInv, WorkerInv
  <2> QED
    BY <1>1, <1>3, <1>4, <2>1, <2>2 DEF Pending, Outcomes
<1>8. WorkerInv'
  BY <1>7 DEF PushInv, WorkerInv
<1>9. AttemptInv'
  <2>1. \A i \in fresh : tries[i] = 0 /\ outbox'[i].attempts = 0
    <3>1. \A i \in fresh : i \in 1..MaxSends /\ i > issued
      BY <1>1 DEF fresh
    <3> QED
      BY <1>4, <3>1 DEF PushInv, AttemptInv, NewRow
  <2>2. \A i \in 1..MaxSends : /\ tries'[i] <= MaxAttempts + faults'
                               /\ i > issued' => tries'[i] = 0
    BY <1>1 DEF PushInv, AttemptInv
  <2>3. \A i \in DOMAIN outbox' : outbox'[i].attempts <= MaxAttempts
    <3>1. \A i \in DOMAIN outbox : outbox'[i].attempts <= MaxAttempts
      BY <1>4 DEF PushInv, AttemptInv
    <3>2. 0 <= MaxAttempts
      BY PushAssumption
    <3>3. \A i \in fresh : outbox'[i].attempts <= MaxAttempts
      BY <2>1, <3>2
    <3> QED
      BY <1>3, <3>1, <3>3
  <2>4. ASSUME NEW i \in Pending'
        PROVE  /\ outbox'[i].attempts < MaxAttempts
               /\ tries'[i] <= outbox'[i].attempts + faults' + IF i \in Outcomes' THEN 1 ELSE 0
    <3>1. CASE i \in fresh
      <4>1. i \notin Outcomes' /\ tries'[i] = 0 /\ outbox'[i].attempts = 0 /\ faults' \in Nat
        BY <1>7, <2>1, <3>1 DEF PushInv, PushTyped
      <4> QED
        BY <4>1, PushAssumption
    <3>2. CASE i \in Pending
      <4>1. outbox'[i] = outbox[i]
        BY <1>4, <3>2 DEF Pending
      <4> QED
        BY <1>7, <3>2, <4>1 DEF PushInv, AttemptInv
    <3> QED
      BY <1>7, <3>1, <3>2
  <2> QED
    BY <2>2, <2>3, <2>4 DEF AttemptInv
<1> QED
  BY <1>1, <1>3, <1>5, <1>6, <1>8, <1>9

LEMMA SendInsertKeeps ==
  ASSUME PushInv, NEW c \in Sender, Pushing!SendInsert(c)
  PROVE  PushInv'
<1> DEFINE targets == caller[c].devices
           n == Cardinality(targets)
           f == CHOOSE f \in [1..n -> targets] : \A t \in targets : \E i \in DOMAIN f : f[i] = t
           fresh == (issued + 1)..(issued + n)
<1>1. /\ caller[c].at \in {"insert", "full"} /\ issued + n <= MaxSends
      /\ caller[c].at # "full" =>
           /\ outbox' = [i \in DOMAIN outbox \cup fresh |->
                           IF i \in fresh THEN NewRow(f[i - issued]) ELSE outbox[i]]
           /\ issued' = issued + n
      /\ caller[c].at = "full" => outbox' = outbox /\ issued' = issued
      /\ caller' = [caller EXCEPT ![c] = Pushing!NoCaller]
      /\ UNCHANGED <<device, cred, registry, worker, tries, taken, faults>>
  BY PushCounts DEF Pushing!SendInsert, NewRow
<1>2. enqueue = c
  BY <1>1, EnqueueFree
<1>3. targets \in SUBSET PushToken /\ n \in Nat
  BY SendCounts DEF PushInv
<1>4. f \in [1..n -> PushToken]
  BY <1>3, Numbering
<1> HIDE DEF f
<1>5. Pushing!NoCaller \in PushCall /\ Pushing!NoCaller.at = "idle"
  BY DEF PushCall, Pushing!NoCaller
<1>6. /\ caller' \in [Sender -> PushCall] /\ caller'[c] = Pushing!NoCaller
      /\ \A a \in Sender \ {c} : caller'[a] = caller[a]
  BY <1>1, <1>5 DEF PushInv, PushTyped
<1>7. QuotaInv' /\ \A a \in Sender : RegisterOK(a)'
  BY <1>1, <1>5, <1>6, SendFrame
<1>8. \A a \in Sender : SendOK(a)'
  BY <1>2, <1>5, <1>6, EnqueueFree DEF SendOK
<1>9. /\ issued' \in 0..MaxSends /\ outbox' \in [DOMAIN outbox' -> OutboxRow]
      /\ DOMAIN outbox' \subseteq 1..issued' /\ worker'.jobs \subseteq 1..issued'
      /\ CapacityInv' /\ WorkerInv' /\ AttemptInv'
  <2>1. CASE caller[c].at = "full"
    <3>1. SameDelivery
      BY <1>1, <2>1 DEF SameDelivery
    <3> QED
      BY <3>1, DeliveryKept DEF SameDelivery, PushInv, PushTyped, CapacityInv
  <2>2. CASE caller[c].at = "insert"
    <3>1. Cardinality(DOMAIN outbox) + n <= MaxOutbox
      BY <2>2 DEF PushInv, SendOK
    <3> QED
      BY <1>1, <1>3, <1>4, <2>2, <3>1, RowsArrive
  <2> QED
    BY <1>1, <2>1, <2>2
<1>10. PushTyped'
  BY <1>1, <1>6, <1>9 DEF PushInv, PushTyped
<1> QED
  BY <1>7, <1>8, <1>9, <1>10 DEF PushInv

-----------------------------------------------------------------------------
(* The worker                                                              *)

\* A step of the worker that adds no row and leaves the devices alone.
OfWorker == UNCHANGED <<cred, enqueue, caller, issued>>
LEMMA WorkerStep ==
  ASSUME PushInv, OfWorker, SameRegistry,
         DOMAIN outbox' \subseteq DOMAIN outbox, outbox' \in [DOMAIN outbox' -> OutboxRow],
         worker' \in Delivery, worker'.jobs \subseteq 1..issued,
         tries' \in [1..MaxSends -> Nat], faults' \in Nat, WorkerInv', AttemptInv'
  PROVE  PushInv'
<1>1. PushTyped'
  BY DEF PushInv, PushTyped, OfWorker, SameRegistry
<1>2. QuotaInv' /\ \A c \in Sender : RegisterOK(c)'
  BY RegistryKept DEF OfWorker
<1>3. CapacityInv' /\ \A c \in Sender : SendOK(c)'
  BY CapacityKept DEF OfWorker
<1> QED
  BY <1>1, <1>2, <1>3 DEF PushInv

\* The fields of the worker and of a row.
LEMMA WorkerFields ==
  ASSUME PushInv
  PROVE  /\ worker \in Delivery /\ worker.jobs \subseteq 1..issued /\ worker.jobs \subseteq 1..MaxSends
         /\ worker.sink \in Nat /\ worker.using \in Nat /\ worker.half \in Nat
         /\ worker.at \in {"idle", "deliver", "apply", "prune"}
         /\ worker.results \in [Outcomes -> Pushing!Answer] /\ Outcomes \subseteq Nat
         /\ issued \in Nat /\ faults \in Nat
<1>1. worker \in Delivery /\ worker.jobs \subseteq 1..issued /\ issued \in 0..MaxSends /\ faults \in Nat
  BY DEF PushInv, PushTyped
<1>2. /\ worker.results \in Answers /\ worker.sink \in Nat /\ worker.using \in Nat /\ worker.half \in Nat
      /\ worker.at \in {"idle", "deliver", "apply", "prune"}
  BY <1>1 DEF Delivery
<1>3. worker.results \in [Outcomes -> Pushing!Answer] /\ Outcomes \subseteq Nat
  BY <1>2 DEF Answers, Outcomes
<1> QED
  BY <1>1, <1>2, <1>3, PushAssumption

LEMMA RowFields ==
  ASSUME PushInv, NEW i \in DOMAIN outbox
  PROVE  /\ outbox[i] \in OutboxRow /\ outbox[i].attempts \in Nat
         /\ outbox[i].state \in {"pending", "dead"} /\ i \in 1..MaxSends /\ i \in 1..issued
<1>1. outbox[i] \in OutboxRow /\ i \in 1..issued /\ issued \in 0..MaxSends
  BY DEF PushInv, PushTyped
<1> QED
  BY <1>1, PushAssumption DEF OutboxRow

LEMMA BackoffEndsKeeps ==
  ASSUME PushInv, NEW i, Pushing!BackoffEnds(i)
  PROVE  PushInv'
<1>1. /\ i \in DOMAIN outbox /\ outbox' = [outbox EXCEPT ![i].due = TRUE]
      /\ UNCHANGED <<device, cred, registry, enqueue, caller, worker, issued, tries, taken, faults>>
  BY DEF Pushing!BackoffEnds
<1>2. DOMAIN outbox' = DOMAIN outbox
  BY <1>1
<1>3. \A j \in DOMAIN outbox : /\ outbox'[j] \in OutboxRow /\ outbox'[j].attempts = outbox[j].attempts
                               /\ outbox'[j].state = outbox[j].state
  <2>1. \A j \in DOMAIN outbox : outbox[j] \in OutboxRow
    BY RowFields
  <2>2. /\ [outbox[i] EXCEPT !.due = TRUE] \in OutboxRow
        /\ [outbox[i] EXCEPT !.due = TRUE].attempts = outbox[i].attempts
        /\ [outbox[i] EXCEPT !.due = TRUE].state = outbox[i].state
    BY <1>1, <2>1 DEF OutboxRow
  <2> QED
    BY <1>1, <2>1, <2>2
<1>4. outbox' \in [DOMAIN outbox' -> OutboxRow]
  <2>1. outbox' = [j \in DOMAIN outbox' |-> outbox'[j]]
    BY <1>1
  <2> QED
    BY <1>2, <1>3, <2>1
<1>5. Pending' = Pending /\ Outcomes' = Outcomes
  BY <1>1, <1>2, <1>3 DEF Pending, Outcomes
<1>6. WorkerInv'
  BY <1>1, <1>5 DEF PushInv, WorkerInv
<1>7. AttemptInv'
  BY <1>1, <1>2, <1>3, <1>5 DEF PushInv, AttemptInv, Pending
<1>8. worker' \in Delivery /\ worker'.jobs \subseteq 1..issued /\ faults' \in Nat /\ tries' \in [1..MaxSends -> Nat]
  BY <1>1 DEF PushInv, PushTyped
<1> QED
  BY <1>1, <1>2, <1>4, <1>6, <1>7, <1>8, WorkerStep DEF OfWorker, SameRegistry

\* The worker drops its batch, rows may die, and what it had not applied is a fault.
LEMMA BatchEnds ==
  ASSUME PushInv, UNCHANGED <<tries, taken>>, faults' \in Nat,
         faults' = faults \/ faults' = faults + 1, Outcomes # {} => faults' = faults + 1,
         DOMAIN outbox' \subseteq DOMAIN outbox, issued' = issued,
         \A j \in DOMAIN outbox' : /\ outbox'[j].attempts = outbox[j].attempts
                                   /\ outbox'[j].state = "pending" => outbox[j].state = "pending",
         DOMAIN worker'.results = {}, worker'.at # "deliver", worker'.half = 0
  PROVE  WorkerInv' /\ AttemptInv'
<1>1. Outcomes' = {} /\ Pending' \subseteq Pending
  BY DEF Outcomes, Pending
<1>2. WorkerInv'
  BY <1>1 DEF WorkerInv
<1>3. faults \in Nat /\ tries \in [1..MaxSends -> Nat] /\ MaxAttempts \in Nat
  BY PushAssumption DEF PushInv, PushTyped
<1>4. AttemptInv'
  <2>1. ASSUME NEW i \in 1..MaxSends
        PROVE  tries'[i] <= MaxAttempts + faults' /\ (i > issued' => tries'[i] = 0)
    BY <1>3 DEF PushInv, AttemptInv
  <2>2. ASSUME NEW i \in DOMAIN outbox' PROVE outbox'[i].attempts <= MaxAttempts
    BY DEF PushInv, AttemptInv
  <2>3. ASSUME NEW i \in Pending'
        PROVE  /\ outbox'[i].attempts < MaxAttempts
               /\ tries'[i] <= outbox'[i].attempts + faults' + IF i \in Outcomes' THEN 1 ELSE 0
    <3>1. i \in Pending /\ i \in DOMAIN outbox' /\ i \in DOMAIN outbox
      BY <1>1, <2>3 DEF Pending
    <3>2. i \in 1..MaxSends /\ outbox[i].attempts \in Nat /\ tries[i] \in Nat
      BY <1>3, <3>1, RowFields
    <3>3. /\ outbox[i].attempts < MaxAttempts
          /\ tries[i] <= outbox[i].attempts + faults + IF i \in Outcomes THEN 1 ELSE 0
      BY <3>1 DEF PushInv, AttemptInv
    <3>4. outbox'[i].attempts = outbox[i].attempts /\ i \notin Outcomes' /\ tries'[i] = tries[i]
      BY <1>1, <3>1
    <3>5. CASE i \in Outcomes
      BY <1>3, <3>2, <3>3, <3>4, <3>5
    <3>6. CASE i \notin Outcomes
      BY <1>3, <3>2, <3>3, <3>4, <3>6
    <3> QED
      BY <3>5, <3>6
  <2> QED
    BY <2>1, <2>2, <2>3 DEF AttemptInv
<1> QED
  BY <1>2, <1>4

LEMMA SelectBatchKeeps ==
  ASSUME PushInv, Pushing!SelectBatch
  PROVE  PushInv'
<1>1. /\ worker.at = "idle"
      /\ UNCHANGED <<device, cred, registry, enqueue, caller, issued, tries, taken, faults>>
  BY DEF Pushing!SelectBatch
<1>2. Outcomes = {}
  BY <1>1 DEF PushInv, WorkerInv
<1>3. faults' \in Nat /\ tries' \in [1..MaxSends -> Nat] /\ SameRegistry /\ OfWorker
  BY <1>1 DEF PushInv, PushTyped, SameRegistry, OfWorker
<1> DEFINE died == [i \in DOMAIN outbox |->
                     IF i \in Pushing!Due THEN [outbox[i] EXCEPT !.state = "dead"] ELSE outbox[i]]
           kept == IF Pushing!Credential = 0 THEN 0 ELSE worker.sink
<1>4. CASE outbox' = died /\ worker' = [Pushing!NoWorker EXCEPT !.at = "prune", !.sink = kept]
  <2>1. /\ outbox' = [i \in DOMAIN outbox |->
             IF i \in Pushing!Due THEN [outbox[i] EXCEPT !.state = "dead"] ELSE outbox[i]]
        /\ worker' = [Pushing!NoWorker EXCEPT !.at = "prune", !.sink = kept]
    BY <1>4
  <2>2. BatchGone(worker')
    <3>1. kept \in Nat
      BY WorkerFields
    <3> HIDE DEF kept
    <3> QED
      BY <2>1, <3>1, IdleWorker
  <2>3. \A j \in DOMAIN outbox : /\ outbox'[j] \in OutboxRow /\ outbox'[j].attempts = outbox[j].attempts
                                 /\ outbox'[j].state = "pending" => outbox[j].state = "pending"
    <3>1. SUFFICES ASSUME NEW j \in DOMAIN outbox
                   PROVE  /\ outbox'[j] \in OutboxRow /\ outbox'[j].attempts = outbox[j].attempts
                          /\ outbox'[j].state = "pending" => outbox[j].state = "pending"
      OBVIOUS
    <3>2. outbox[j] \in OutboxRow
      BY RowFields
    <3>3. outbox'[j] = [outbox[j] EXCEPT !.state = "dead"] \/ outbox'[j] = outbox[j]
      BY <2>1
    <3> QED
      BY <3>2, <3>3 DEF OutboxRow
  <2>4. DOMAIN outbox' = DOMAIN outbox /\ outbox' = [j \in DOMAIN outbox' |-> outbox'[j]]
    BY <2>1
  <2>5. outbox' \in [DOMAIN outbox' -> OutboxRow]
    BY <2>3, <2>4
  <2>6. WorkerInv' /\ AttemptInv'
    BY <1>1, <1>2, <1>3, <2>2, <2>3, <2>4, BatchEnds DEF BatchGone
  <2> QED
    BY <1>3, <2>2, <2>4, <2>5, <2>6, WorkerStep DEF BatchGone
<1> DEFINE k == Pushing!Credential
           w == [Pushing!NoWorker EXCEPT !.at = "deliver", !.jobs = Pushing!Due, !.sink = k, !.using = k]
<1>5. CASE worker' = w /\ outbox' = outbox
  <2>1. worker' = w /\ outbox' = outbox
    BY <1>5
  <2>2. k \in Nat
    BY DEF PushInv, PushTyped, Pushing!Credential
  <2>3. Pushing!Due \subseteq Pending /\ Pushing!Due \subseteq 1..issued /\ Pushing!Due \subseteq Nat
    <3>1. Pushing!Due \subseteq Pending /\ Pending \subseteq DOMAIN outbox
      BY DEF Pushing!Due, Pending
    <3>2. DOMAIN outbox \subseteq 1..issued /\ issued \in Nat
      BY PushAssumption DEF PushInv, PushTyped
    <3> QED
      BY <3>1, <3>2
  <2>4. /\ w \in Delivery /\ w.jobs = Pushing!Due /\ w.sink = w.using /\ w.at = "deliver" /\ w.half = 0
        /\ DOMAIN w.results = {}
    <3>1. <<>> \in [{} -> Pushing!Answer] /\ DOMAIN <<>> = {}
      OBVIOUS
    <3>2. <<>> \in Answers
      BY <3>1 DEF Answers
    <3> HIDE DEF k
    <3> QED
      BY <2>2, <2>3, <3>1, <3>2 DEF Delivery, Pushing!NoWorker
  <2> HIDE DEF w
  <2>5. Outcomes' = {} /\ Pending' = Pending
    BY <2>1, <2>4 DEF Outcomes, Pending
  <2>6. WorkerInv'
    BY <2>1, <2>3, <2>4, <2>5 DEF WorkerInv
  <2>7. AttemptInv'
    BY <1>1, <1>2, <2>1, <2>5 DEF PushInv, AttemptInv
  <2>8. DOMAIN outbox' \subseteq DOMAIN outbox /\ outbox' \in [DOMAIN outbox' -> OutboxRow]
    BY <2>1 DEF PushInv, PushTyped
  <2> QED
    BY <1>3, <2>1, <2>3, <2>4, <2>6, <2>7, <2>8, WorkerStep
<1>6. \/ outbox' = died /\ worker' = [Pushing!NoWorker EXCEPT !.at = "prune", !.sink = kept]
      \/ worker' = w /\ outbox' = outbox
  BY DEF Pushing!SelectBatch, Pushing!ResolveSink
<1> QED
  BY <1>4, <1>5, <1>6

LEMMA PruneKeeps ==
  ASSUME PushInv, Pushing!PruneDeadLetters
  PROVE  PushInv'
<1>1. /\ worker.at = "prune"
      /\ outbox' = [j \in DOMAIN outbox \ Pushing!Pruned |-> outbox[j]]
      /\ worker' = [Pushing!NoWorker EXCEPT !.sink = worker.sink]
      /\ UNCHANGED <<device, cred, registry, enqueue, caller, issued, tries, taken, faults>>
  BY DEF Pushing!PruneDeadLetters, Pushing!Removed
<1>2. Outcomes = {}
  BY <1>1 DEF PushInv, WorkerInv
<1>3. faults' \in Nat /\ tries' \in [1..MaxSends -> Nat] /\ SameRegistry /\ OfWorker
  BY <1>1 DEF PushInv, PushTyped, SameRegistry, OfWorker
<1>4. BatchGone(worker')
  BY <1>1, IdleWorker, WorkerFields
<1>5. DOMAIN outbox' \subseteq DOMAIN outbox /\ \A j \in DOMAIN outbox' : outbox'[j] = outbox[j]
  BY <1>1
<1>6. outbox' \in [DOMAIN outbox' -> OutboxRow]
  BY <1>1, RowFields
<1>7. WorkerInv' /\ AttemptInv'
  BY <1>1, <1>2, <1>3, <1>4, <1>5, BatchEnds DEF BatchGone
<1> QED
  BY <1>3, <1>4, <1>5, <1>6, <1>7, WorkerStep DEF BatchGone

LEMMA WriteFailsKeeps ==
  ASSUME PushInv, Pushing!WriteFails
  PROVE  PushInv'
<1>1. /\ faults' = faults + 1 /\ worker' = [Pushing!NoWorker EXCEPT !.sink = worker.sink]
      /\ registry' = IF registry = "worker" THEN "free" ELSE registry
      /\ UNCHANGED <<device, outbox, cred, enqueue, caller, issued, tries, taken>>
  BY DEF Pushing!WriteFails, Pushing!Free
<1>2. /\ faults' \in Nat /\ tries' \in [1..MaxSends -> Nat] /\ SameRegistry /\ OfWorker
      /\ outbox' \in [DOMAIN outbox' -> OutboxRow]
  BY <1>1, PushAssumption DEF PushInv, PushTyped, SameRegistry, OfWorker
<1>3. BatchGone(worker')
  BY <1>1, IdleWorker, WorkerFields
<1>4. WorkerInv' /\ AttemptInv'
  BY <1>1, <1>2, <1>3, BatchEnds DEF BatchGone
<1> QED
  BY <1>1, <1>2, <1>3, <1>4, WorkerStep DEF BatchGone

LEMMA PushCrashKeeps ==
  ASSUME PushInv, Pushing!PushCrash
  PROVE  PushInv'
<1>1. /\ faults' = faults + 1 /\ worker' = Pushing!NoWorker
      /\ caller' = [c \in Sender |-> Pushing!NoCaller]
      /\ UNCHANGED <<device, outbox, cred, issued, tries, taken>>
  BY DEF Pushing!PushCrash
<1>2. BatchGone(worker') /\ faults' \in Nat
  <2>1. BatchGone(worker')
    BY <1>1, IdleWorker
  <2> QED
    BY <1>1, <2>1 DEF PushInv, PushTyped
<1>3. WorkerInv' /\ AttemptInv'
  BY <1>1, <1>2, BatchEnds DEF BatchGone
<1>4. caller' \in [Sender -> PushCall] /\ \A c \in Sender : caller'[c].at = "idle"
  BY <1>1 DEF PushCall, Pushing!NoCaller
<1>5. PushTyped'
  BY <1>1, <1>2, <1>4 DEF PushInv, PushTyped, BatchGone
<1>6. QuotaInv' /\ CapacityInv'
  BY <1>1 DEF PushInv, QuotaInv, CapacityInv, DevicesOf, Pushing!ActiveDevices
<1>7. \A c \in Sender : RegisterOK(c)' /\ SendOK(c)'
  BY <1>4 DEF RegisterOK, SendOK
<1> QED
  BY <1>3, <1>5, <1>6, <1>7 DEF PushInv

LEMMA DeliverKeeps ==
  ASSUME PushInv, NEW i \in 1..MaxSends, NEW answer \in Pushing!Answer, Pushing!Deliver(i, answer)
  PROVE  PushInv'
<1> DEFINE results == [j \in Outcomes \cup {i} |-> IF j = i THEN answer ELSE worker.results[j]]
           at == IF DOMAIN results = worker.jobs THEN "apply" ELSE "deliver"
           w == [worker EXCEPT !.results = results, !.at = at]
<1>1. /\ worker.at = "deliver" /\ i \in worker.jobs /\ i \notin Outcomes /\ worker' = w
      /\ tries' = [tries EXCEPT ![i] = @ + 1]
      /\ taken' = IF answer = "ok" THEN taken \cup {i} ELSE taken
      /\ UNCHANGED <<device, outbox, cred, registry, enqueue, caller, issued, faults>>
  BY DEF Pushing!Deliver, Outcomes
<1>2. /\ worker \in Delivery /\ worker.results \in [Outcomes -> Pushing!Answer]
      /\ Outcomes \subseteq Nat /\ Outcomes \subseteq worker.jobs /\ faults \in Nat
  BY WorkerFields DEF PushInv, WorkerInv
<1>3. results \in Answers
  <2>1. results \in [Outcomes \cup {i} -> Pushing!Answer] /\ Outcomes \cup {i} \in SUBSET Nat
    BY <1>2
  <2> QED
    BY <2>1 DEF Answers
<1>4. DOMAIN results = Outcomes \cup {i} /\ at \in {"apply", "deliver"}
  OBVIOUS
<1>5. \A j \in Outcomes \cup {i} : results[j] = IF j = i THEN answer ELSE worker.results[j]
  OBVIOUS
<1> HIDE DEF results, at
<1>6. /\ w \in Delivery /\ w.results = results /\ w.at = at /\ w.jobs = worker.jobs
      /\ w.sink = worker.sink /\ w.using = worker.using /\ w.half = worker.half
  BY <1>2, <1>3, <1>4 DEF Delivery
<1> HIDE DEF w
<1>7. Outcomes' = Outcomes \cup {i} /\ Pending' = Pending
  BY <1>1, <1>4, <1>6 DEF Outcomes, Pending
<1>8. worker.sink = worker.using /\ worker.jobs \subseteq Pending /\ worker.half = 0
  BY <1>1 DEF PushInv, WorkerInv
<1>9. WorkerInv'
  <2>1. \A j \in Outcomes' : worker'.results[j] = "ok" => j \in taken'
    BY <1>1, <1>5, <1>6, <1>7 DEF PushInv, WorkerInv
  <2> QED
    BY <1>1, <1>2, <1>4, <1>6, <1>7, <1>8, <2>1 DEF WorkerInv
<1>10. i \in Pending /\ i \in DOMAIN outbox /\ tries[i] \in Nat /\ outbox[i].attempts \in Nat
  BY <1>1, <1>8, RowFields DEF Pending, PushInv, PushTyped
<1>11. outbox[i].attempts < MaxAttempts /\ tries[i] <= outbox[i].attempts + faults
  BY <1>1, <1>2, <1>10 DEF PushInv, AttemptInv
<1>12. tries' \in [1..MaxSends -> Nat] /\ tries'[i] = tries[i] + 1 /\ \A j \in 1..MaxSends \ {i} : tries'[j] = tries[j]
  BY <1>1, <1>10 DEF PushInv, PushTyped
<1>13. AttemptInv'
  <2>1. ASSUME NEW j \in 1..MaxSends
        PROVE  tries'[j] <= MaxAttempts + faults' /\ (j > issued' => tries'[j] = 0)
    <3>1. CASE j = i
      <4>1. ~(i > issued)
        BY <1>10, RowFields, WorkerFields
      <4>2. tries[i] + 1 <= MaxAttempts + faults
        BY <1>2, <1>10, <1>11, PushAssumption
      <4> QED
        BY <1>1, <1>12, <3>1, <4>1, <4>2
    <3>2. CASE j # i
      BY <1>1, <1>12, <3>2 DEF PushInv, AttemptInv
    <3> QED
      BY <3>1, <3>2
  <2>2. \A j \in DOMAIN outbox' : outbox'[j].attempts <= MaxAttempts
    BY <1>1 DEF PushInv, AttemptInv
  <2>3. ASSUME NEW j \in Pending'
        PROVE  /\ outbox'[j].attempts < MaxAttempts
               /\ tries'[j] <= outbox'[j].attempts + faults' + IF j \in Outcomes' THEN 1 ELSE 0
    <3>1. CASE j = i
      BY <1>1, <1>2, <1>7, <1>10, <1>11, <1>12, <3>1
    <3>2. CASE j # i
      <4>1. j \in Pending /\ j \in 1..MaxSends /\ (j \in Outcomes' <=> j \in Outcomes)
        BY <1>7, <2>3, <3>2, RowFields DEF Pending
      <4> QED
        BY <1>1, <1>12, <3>2, <4>1 DEF PushInv, AttemptInv
    <3> QED
      BY <3>1, <3>2
  <2> QED
    BY <2>1, <2>2, <2>3 DEF AttemptInv
<1>14. worker' \in Delivery /\ worker'.jobs \subseteq 1..issued
  BY <1>1, <1>6, WorkerFields
<1>15. /\ OfWorker /\ SameRegistry /\ faults' \in Nat /\ DOMAIN outbox' \subseteq DOMAIN outbox
       /\ outbox' \in [DOMAIN outbox' -> OutboxRow]
  BY <1>1 DEF OfWorker, SameRegistry, PushInv, PushTyped
<1> QED
  BY <1>9, <1>12, <1>13, <1>14, <1>15, WorkerStep

\* The worker after an outcome was applied.
LEMMA NextJobIs ==
  ASSUME PushInv, NEW i \in Outcomes, worker.at = "apply"
  PROVE  LET w == Pushing!NextJob(i) IN
         /\ w \in Delivery /\ w.jobs = worker.jobs /\ w.half = 0
         /\ DOMAIN w.results = Outcomes \ {i}
         /\ \A j \in Outcomes \ {i} : w.results[j] = worker.results[j]
         /\ w.at = IF Outcomes \ {i} = {} THEN "prune" ELSE "apply"
<1> DEFINE rest == Outcomes \ {i}
           results == [j \in rest |-> worker.results[j]]
           at == IF rest = {} THEN "prune" ELSE "apply"
           w == [worker EXCEPT !.results = results, !.half = 0, !.at = at]
<1>1. Pushing!NextJob(i) = w
  BY DEF Pushing!NextJob, Outcomes
<1>2. worker \in Delivery /\ worker.results \in [Outcomes -> Pushing!Answer] /\ Outcomes \subseteq Nat
  BY WorkerFields
<1>3. results \in Answers
  <2>1. results \in [rest -> Pushing!Answer] /\ rest \in SUBSET Nat
    BY <1>2
  <2> QED
    BY <2>1 DEF Answers
<1>4. DOMAIN results = rest /\ \A j \in rest : results[j] = worker.results[j]
  OBVIOUS
<1>5. at \in {"prune", "apply"} /\ at = IF Outcomes \ {i} = {} THEN "prune" ELSE "apply"
  OBVIOUS
<1> HIDE DEF results, at
<1>6. w \in Delivery /\ w.jobs = worker.jobs /\ w.half = 0 /\ w.results = results /\ w.at = at
  BY <1>2, <1>3, <1>5 DEF Delivery
<1> HIDE DEF w
<1> QED
  BY <1>1, <1>4, <1>5, <1>6

\* One outcome is applied: its row leaves, dies, or is tried once more; the others stay.
LEMMA RowSettled ==
  ASSUME PushInv, NEW i \in Outcomes, worker.at = "apply", worker' = Pushing!NextJob(i),
         UNCHANGED <<issued, tries, taken, faults>>, OfWorker, SameRegistry,
         outbox' = [j \in DOMAIN outbox' |-> outbox'[j]], DOMAIN outbox' \subseteq DOMAIN outbox,
         \A j \in DOMAIN outbox \ {i} : j \in DOMAIN outbox' /\ outbox'[j] = outbox[j],
         i \in DOMAIN outbox' =>
           /\ outbox'[i] \in OutboxRow /\ outbox'[i].attempts <= MaxAttempts
           /\ outbox'[i].state = "pending" =>
                outbox'[i].attempts = outbox[i].attempts + 1 /\ outbox'[i].attempts < MaxAttempts
  PROVE  PushInv'
<1>1. /\ worker' \in Delivery /\ worker'.jobs = worker.jobs /\ worker'.half = 0
      /\ Outcomes' = Outcomes \ {i} /\ worker'.at \in {"prune", "apply"}
      /\ worker'.at = "prune" => Outcomes' = {}
      /\ \A j \in Outcomes' : worker'.results[j] = worker.results[j]
  BY NextJobIs DEF Outcomes
<1>2. Outcomes \subseteq Pending /\ Outcomes \subseteq worker.jobs
  BY DEF PushInv, WorkerInv
<1>3. Outcomes' \subseteq Pending'
  BY <1>1, <1>2 DEF Pending
<1>4. WorkerInv'
  BY <1>1, <1>2, <1>3 DEF PushInv, WorkerInv
<1>5. i \in DOMAIN outbox /\ i \in 1..MaxSends /\ tries[i] \in Nat /\ outbox[i].attempts \in Nat /\ faults \in Nat
  BY <1>2, RowFields DEF Pending, PushInv, PushTyped
<1>6. AttemptInv'
  <2>1. \A j \in 1..MaxSends : tries'[j] <= MaxAttempts + faults' /\ (j > issued' => tries'[j] = 0)
    BY DEF PushInv, AttemptInv
  <2>2. \A j \in DOMAIN outbox' : outbox'[j].attempts <= MaxAttempts
    BY DEF PushInv, AttemptInv
  <2>3. ASSUME NEW j \in Pending'
        PROVE  /\ outbox'[j].attempts < MaxAttempts
               /\ tries'[j] <= outbox'[j].attempts + faults' + IF j \in Outcomes' THEN 1 ELSE 0
    <3>1. CASE j = i
      <4>1. tries[i] <= outbox[i].attempts + faults + 1
        BY <1>2 DEF PushInv, AttemptInv
      <4>2. outbox'[i].attempts = outbox[i].attempts + 1 /\ outbox'[i].attempts < MaxAttempts
        BY <2>3, <3>1 DEF Pending
      <4>3. i \notin Outcomes'
        BY <1>1
      <4> QED
        BY <1>5, <3>1, <4>1, <4>2, <4>3
    <3>2. CASE j # i
      <4>1. j \in Pending /\ (j \in Outcomes' <=> j \in Outcomes) /\ outbox'[j] = outbox[j]
        BY <1>1, <2>3, <3>2 DEF Pending
      <4> QED
        BY <4>1 DEF PushInv, AttemptInv
    <3> QED
      BY <3>1, <3>2
  <2> QED
    BY <2>1, <2>2, <2>3 DEF AttemptInv
<1>7. outbox' \in [DOMAIN outbox' -> OutboxRow]
  <2>1. \A j \in DOMAIN outbox' : outbox'[j] \in OutboxRow
    BY RowFields
  <2> QED
    BY <2>1
<1>8. worker'.jobs \subseteq 1..issued /\ tries' \in [1..MaxSends -> Nat] /\ faults' \in Nat
  BY <1>1 DEF PushInv, PushTyped
<1> QED
  BY <1>1, <1>4, <1>6, <1>7, <1>8, WorkerStep

\* A row of the batch is pending and has a try left.
LEMMA BatchRow ==
  ASSUME PushInv, NEW i \in Outcomes, worker.at = "apply"
  PROVE  /\ i \in DOMAIN outbox /\ outbox[i] \in OutboxRow /\ outbox[i].attempts \in Nat
         /\ outbox[i].attempts < MaxAttempts
<1>1. i \in Pending
  BY DEF PushInv, WorkerInv
<1> QED
  BY <1>1, RowFields DEF Pending, PushInv, AttemptInv

\* A row that was tried once more.
Retried(q, m) == [q EXCEPT !.attempts = m, !.due = FALSE]
Died(q, m) == [q EXCEPT !.attempts = m, !.state = "dead"]
LEMMA RowTried ==
  ASSUME NEW q \in OutboxRow, NEW m \in Nat
  PROVE  /\ Retried(q, m) \in OutboxRow /\ Retried(q, m).attempts = m
         /\ Died(q, m) \in OutboxRow /\ Died(q, m).attempts = m /\ Died(q, m).state = "dead"
<1> DEFINE p == [q EXCEPT !.attempts = m]
<1>1. p \in OutboxRow /\ p.attempts = m
  BY DEF OutboxRow
<1> HIDE DEF p
<1>2. [p EXCEPT !.due = FALSE] \in OutboxRow /\ [p EXCEPT !.due = FALSE].attempts = m
  BY <1>1 DEF OutboxRow
<1>3. /\ [p EXCEPT !.state = "dead"] \in OutboxRow /\ [p EXCEPT !.state = "dead"].attempts = m
      /\ [p EXCEPT !.state = "dead"].state = "dead"
  BY <1>1 DEF OutboxRow
<1> QED
  BY <1>2, <1>3 DEF p, Retried, Died

LEMMA ApplyKeeps ==
  ASSUME PushInv, NEW i, Pushing!Apply(i)
  PROVE  PushInv'
<1> DEFINE n == outbox[i].attempts
           done == Pushing!Decision(n, worker.results[i])
<1>1. /\ worker.at = "apply" /\ i \in Outcomes /\ done # "disable"
      /\ outbox' = Pushing!Applied(i, done) /\ worker' = Pushing!NextJob(i)
      /\ UNCHANGED <<device, cred, registry, enqueue, caller, issued, tries, taken, faults>>
  BY DEF Pushing!Apply, Outcomes
<1>2. /\ i \in DOMAIN outbox /\ outbox[i] \in OutboxRow /\ n \in Nat /\ n < MaxAttempts
      /\ MaxAttempts \in Nat
  BY <1>1, BatchRow, PushAssumption
<1>3. done \in {"delivered", "dead", "retry"} /\ (done = "retry" => n + 1 < MaxAttempts)
  BY <1>1, <1>2 DEF Pushing!Decision
<1> HIDE DEF done
<1>4. /\ outbox' = [j \in DOMAIN outbox' |-> outbox'[j]] /\ DOMAIN outbox' \subseteq DOMAIN outbox
      /\ \A j \in DOMAIN outbox \ {i} : j \in DOMAIN outbox' /\ outbox'[j] = outbox[j]
      /\ i \in DOMAIN outbox' =>
           /\ outbox'[i] \in OutboxRow /\ outbox'[i].attempts <= MaxAttempts
           /\ outbox'[i].state = "pending" =>
                outbox'[i].attempts = n + 1 /\ outbox'[i].attempts < MaxAttempts
  <2>1. CASE done = "delivered"
    <3>1. outbox' = [j \in DOMAIN outbox \ {i} |-> outbox[j]]
      BY <1>1, <2>1 DEF Pushing!Applied, Pushing!Removed
    <3> QED
      BY <3>1
  <2>2. CASE done = "retry"
    <3> DEFINE r == Retried(outbox[i], n + 1)
    <3>1. outbox' = [outbox EXCEPT ![i] = r]
      <4>1. outbox' = [outbox EXCEPT ![i].attempts = @ + 1, ![i].due = FALSE]
        BY <1>1, <2>2 DEF Pushing!Applied
      <4> QED
        BY <1>2, <4>1 DEF Retried, Died
    <3>2. r \in OutboxRow /\ r.attempts = n + 1
      <4>1. PICK m \in Nat : m = n + 1
        BY <1>2
      <4>2. Retried(outbox[i], m) \in OutboxRow /\ Retried(outbox[i], m).attempts = m
        BY <1>2, RowTried
      <4> QED
        BY <4>1, <4>2
    <3> HIDE DEF r
    <3>3. /\ DOMAIN outbox' = DOMAIN outbox /\ outbox'[i] = r /\ outbox' = [j \in DOMAIN outbox' |-> outbox'[j]]
          /\ \A j \in DOMAIN outbox \ {i} : outbox'[j] = outbox[j]
      BY <1>2, <3>1
    <3> QED
      BY <1>2, <1>3, <2>2, <3>2, <3>3
  <2>3. CASE done = "dead"
    <3> DEFINE r == Died(outbox[i], n + 1)
    <3>1. outbox' = [outbox EXCEPT ![i] = r]
      <4>1. outbox' = [outbox EXCEPT ![i].attempts = @ + 1, ![i].state = "dead"]
        BY <1>1, <2>3 DEF Pushing!Applied
      <4> QED
        BY <1>2, <4>1 DEF Retried, Died
    <3>2. r \in OutboxRow /\ r.attempts = n + 1 /\ r.state = "dead"
      <4>1. PICK m \in Nat : m = n + 1
        BY <1>2
      <4>2. /\ Died(outbox[i], m) \in OutboxRow /\ Died(outbox[i], m).attempts = m
            /\ Died(outbox[i], m).state = "dead"
        BY <1>2, RowTried
      <4> QED
        BY <4>1, <4>2
    <3> HIDE DEF r
    <3>3. /\ DOMAIN outbox' = DOMAIN outbox /\ outbox'[i] = r /\ outbox' = [j \in DOMAIN outbox' |-> outbox'[j]]
          /\ \A j \in DOMAIN outbox \ {i} : outbox'[j] = outbox[j]
      BY <1>2, <3>1
    <3>4. r.attempts <= MaxAttempts
      BY <1>2, <3>2
    <3> QED
      BY <1>2, <3>2, <3>3, <3>4
  <2> QED
    BY <1>3, <2>1, <2>2, <2>3
<1> QED
  BY <1>1, <1>4, RowSettled DEF OfWorker, SameRegistry

LEMMA DisableRowKeeps ==
  ASSUME PushInv, Pushing!DisableRow
  PROVE  PushInv'
<1>1. PICK i : i = worker.half
  OBVIOUS
<1> DEFINE r == [outbox[i] EXCEPT !.state = "dead"]
<1>2. /\ worker.half # 0 /\ outbox' = [outbox EXCEPT ![i] = r] /\ worker' = Pushing!NextJob(i)
      /\ registry' = IF registry = "worker" THEN "free" ELSE registry
      /\ UNCHANGED <<device, cred, enqueue, caller, issued, tries, taken, faults>>
  BY <1>1 DEF Pushing!DisableRow, Pushing!Free
<1>3. worker.at = "apply" /\ i \in Outcomes
  BY <1>1, <1>2 DEF PushInv, WorkerInv
<1>4. /\ i \in DOMAIN outbox /\ outbox[i] \in OutboxRow /\ outbox[i].attempts \in Nat
      /\ outbox[i].attempts < MaxAttempts
  BY <1>3, BatchRow
<1>5. r \in OutboxRow /\ r.attempts = outbox[i].attempts /\ r.state = "dead"
  BY <1>4 DEF OutboxRow
<1> HIDE DEF r
<1>6. /\ outbox' = [j \in DOMAIN outbox' |-> outbox'[j]] /\ DOMAIN outbox' \subseteq DOMAIN outbox
      /\ \A j \in DOMAIN outbox \ {i} : j \in DOMAIN outbox' /\ outbox'[j] = outbox[j]
      /\ outbox'[i] = r
  BY <1>2, <1>4
<1>7. r.attempts <= MaxAttempts
  BY <1>4, <1>5, PushAssumption
<1>8. OfWorker /\ SameRegistry
  BY <1>2, PushAssumption DEF OfWorker, SameRegistry
<1> QED
  BY <1>2, <1>3, <1>5, <1>6, <1>7, <1>8, RowSettled

LEMMA DisableDeviceKeeps ==
  ASSUME PushInv, NEW i \in 1..MaxSends, Pushing!DisableDevice(i)
  PROVE  PushInv'
<1>1. PICK t : t = outbox[i].token
  OBVIOUS
<1> DEFINE w == [worker EXCEPT !.half = i]
<1>2. /\ worker.at = "apply" /\ i \in Outcomes /\ registry = "free" /\ worker' = w
      /\ device' = device \/ device' = [device EXCEPT ![t].active = FALSE]
      /\ UNCHANGED <<outbox, cred, enqueue, caller, issued, tries, taken, faults>>
  BY <1>1 DEF Pushing!DisableDevice, Pushing!LocksRegistry, Pushing!Free, Outcomes
<1>3. worker \in Delivery /\ i \in Nat
  BY WorkerFields
<1>4. /\ w \in Delivery /\ w.half = i /\ w.at = worker.at /\ w.jobs = worker.jobs
      /\ w.results = worker.results
  BY <1>3 DEF Delivery
<1> HIDE DEF w
<1>5. \A x \in PushToken : /\ device'[x] \in DeviceRow /\ device'[x].subject = device[x].subject
                           /\ device'[x].active => device[x].active
  <2>1. SUFFICES ASSUME NEW x \in PushToken
                 PROVE  /\ device'[x] \in DeviceRow /\ device'[x].subject = device[x].subject
                        /\ device'[x].active => device[x].active
    OBVIOUS
  <2>2. device[x] \in DeviceRow /\ (device'[x] = device[x] \/ device'[x] = [device[x] EXCEPT !.active = FALSE])
    BY <1>2 DEF PushInv, PushTyped
  <2> QED
    BY <2>2 DEF DeviceRow
<1>6. device' \in [PushToken -> DeviceRow]
  <2>1. device' = [x \in PushToken |-> device'[x]]
    BY <1>2 DEF PushInv, PushTyped
  <2> QED
    BY <1>5, <2>1
<1>7. PushTyped'
  BY <1>2, <1>4, <1>6 DEF PushInv, PushTyped
<1>8. QuotaInv' /\ \A c \in Sender : RegisterOK(c)'
  <2>1. \A s \in Subject : Pushing!ActiveDevices(s)' \subseteq Pushing!ActiveDevices(s)
    BY <1>5 DEF Pushing!ActiveDevices
  <2> QED
    BY <1>2, <2>1, DevicesLeave
<1>9. CapacityInv' /\ \A c \in Sender : SendOK(c)'
  BY <1>2, CapacityKept
<1>10. Outcomes' = Outcomes /\ Pending' = Pending
  BY <1>2, <1>4 DEF Outcomes, Pending
<1>11. WorkerInv' /\ AttemptInv'
  BY <1>2, <1>4, <1>10 DEF PushInv, WorkerInv, AttemptInv
<1> QED
  BY <1>7, <1>8, <1>9, <1>11 DEF PushInv

-----------------------------------------------------------------------------
(* What push delivery promises                                             *)

LEMMA NextPushInv ==
  ASSUME PushInv, [Pushing!PushNext]_(Pushing!pushVars)
  PROVE  PushInv'
<1>1. CASE UNCHANGED Pushing!pushVars
  BY <1>1, CredentialsKeep
<1>2. ASSUME NEW c \in Sender, NEW s \in Subject, NEW t \in PushToken, NEW b \in BOOLEAN,
             Pushing!RegisterLook(c, s, t, b)
      PROVE  PushInv'
  BY <1>2, RegisterLookKeeps
<1>3. ASSUME NEW c \in Sender, NEW S \in SUBSET Subject, Pushing!SendResolve(c, S) PROVE PushInv'
  BY <1>3, SendResolveKeeps
<1>4. ASSUME NEW c \in Sender,
             Pushing!RegisterWrite(c) \/ Pushing!SendCount(c) \/ Pushing!SendInsert(c)
      PROVE  PushInv'
  BY <1>4, RegisterWriteKeeps, SendCountKeeps, SendInsertKeeps
<1>5. ASSUME NEW t \in PushToken, Pushing!DeleteDevice(t) PROVE PushInv'
  BY <1>5, DeleteDeviceKeeps
<1>6. CASE Pushing!SetCredentials \/ Pushing!ClearCredentials \/ Pushing!EncInit
  BY <1>6, CredentialsKeep
<1>7. ASSUME NEW i \in 1..MaxSends,
             Pushing!BackoffEnds(i) \/ Pushing!Apply(i) \/ Pushing!DisableDevice(i)
      PROVE  PushInv'
  BY <1>7, BackoffEndsKeeps, ApplyKeeps, DisableDeviceKeeps
<1>8. ASSUME NEW i \in 1..MaxSends, NEW answer \in Pushing!Answer, Pushing!Deliver(i, answer)
      PROVE  PushInv'
  BY <1>8, DeliverKeeps
<1>9. CASE \/ Pushing!SelectBatch \/ Pushing!DisableRow \/ Pushing!PruneDeadLetters
           \/ Pushing!WriteFails \/ Pushing!PushCrash
  BY <1>9, SelectBatchKeeps, DisableRowKeeps, PruneKeeps, WriteFailsKeeps, PushCrashKeeps
<1> QED
  BY <1>1, <1>2, <1>3, <1>4, <1>5, <1>6, <1>7, <1>8, <1>9 DEF Pushing!PushNext, Pushing!OutRow

\* A dead letter that is pruned is older than as many as are kept.
LEMMA PrunedAreOld ==
  ASSUME PushInv, NEW i \in Pushing!Pruned
  PROVE  i \in Pushing!Dead /\ MaxDead <= Pushing!Cardinality({j \in Pushing!Dead : j > i})
<1> DEFINE D == Pushing!Dead
           A == {j \in D : j <= i}
           B == {j \in D : j > i}
<1>1. i \in D /\ Cardinality(A) <= Cardinality(D) - MaxDead
  BY PushCounts DEF Pushing!Pruned
<1>2. D \in SUBSET (1..issued) /\ issued \in Nat
  BY PushAssumption DEF PushInv, PushTyped, Pushing!Dead
<1> HIDE DEF D
<1>3. A \cup B = D /\ A \cap B = {} /\ A \in SUBSET (1..issued) /\ B \in SUBSET (1..issued)
  <2>1. i \in Int /\ \A j \in D : j \in Int
    BY <1>1, <1>2
  <2>2. \A j \in D : (j <= i /\ ~(j > i)) \/ (j > i /\ ~(j <= i))
    BY <2>1
  <2> QED
    BY <1>2, <2>2
<1>4. /\ IsFiniteSet(A) /\ IsFiniteSet(B) /\ Cardinality(A) \in Nat /\ Cardinality(B) \in Nat
      /\ Cardinality(D) \in Nat
  BY <1>2, <1>3, FiniteRows
<1> HIDE DEF A, B
<1>5. Cardinality(D) = Cardinality(A) + Cardinality(B) - Cardinality({})
  BY <1>3, <1>4, FS_Union
<1>6. Cardinality({}) = 0
  BY FS_EmptySet
<1>7. MaxDead <= Cardinality(B)
  BY <1>1, <1>4, <1>5, <1>6, PushAssumption
<1> QED
  BY <1>1, <1>7, PushCounts DEF B, D

LEMMA NextOutboxStep ==
  ASSUME PushInv, [Pushing!PushNext]_(Pushing!pushVars)
  PROVE  Pushing!OutboxStep
<1>1. SUFFICES ASSUME NEW k \in DOMAIN outbox, k \notin DOMAIN outbox'
               PROVE  \/ k \in taken
                      \/ /\ k \in Pushing!Dead
                         /\ MaxDead <= Pushing!Cardinality({j \in Pushing!Dead : j > k})
  BY DEF Pushing!OutboxStep
<1>2. ASSUME DOMAIN outbox \subseteq DOMAIN outbox' PROVE FALSE
  BY <1>1, <1>2
<1>3. CASE UNCHANGED Pushing!pushVars
  BY <1>2, <1>3 DEF Pushing!pushVars
<1>4. ASSUME NEW c \in Sender, Pushing!SendInsert(c) PROVE FALSE
  <2>1. DOMAIN outbox \subseteq DOMAIN outbox'
    <3>1. CASE caller[c].at = "full"
      BY <1>4, <3>1 DEF Pushing!SendInsert
    <3>2. CASE caller[c].at # "full"
      BY <1>4, <3>2 DEF Pushing!SendInsert
    <3> QED
      BY <3>1, <3>2
  <2> QED
    BY <1>2, <2>1
<1>5. ASSUME NEW c \in Sender,
             \/ \E s \in Subject, t \in PushToken, b \in BOOLEAN : Pushing!RegisterLook(c, s, t, b)
             \/ \E S \in SUBSET Subject : Pushing!SendResolve(c, S)
             \/ Pushing!RegisterWrite(c) \/ Pushing!SendCount(c)
      PROVE  FALSE
  BY <1>2, <1>5 DEF Pushing!RegisterLook, Pushing!SendResolve, Pushing!RegisterWrite, Pushing!SendCount
<1>6. ASSUME NEW t \in PushToken, Pushing!DeleteDevice(t) PROVE FALSE
  BY <1>2, <1>6 DEF Pushing!DeleteDevice
<1>7. CASE \/ Pushing!SetCredentials \/ Pushing!ClearCredentials \/ Pushing!EncInit
           \/ Pushing!SelectBatch \/ Pushing!DisableRow \/ Pushing!WriteFails \/ Pushing!PushCrash
  BY <1>2, <1>7 DEF Pushing!SetCredentials, Pushing!ClearCredentials, Pushing!EncInit,
     Pushing!SelectBatch, Pushing!DisableRow, Pushing!WriteFails, Pushing!PushCrash
<1>8. ASSUME NEW i, \/ Pushing!BackoffEnds(i) \/ Pushing!DisableDevice(i)
                    \/ \E answer \in Pushing!Answer : Pushing!Deliver(i, answer)
      PROVE  FALSE
  BY <1>2, <1>8 DEF Pushing!BackoffEnds, Pushing!DisableDevice, Pushing!Deliver
<1>9. ASSUME NEW i, Pushing!Apply(i) PROVE k \in taken
  <2> DEFINE done == Pushing!Decision(outbox[i].attempts, worker.results[i])
  <2>1. /\ i \in Outcomes /\ done # "disable" /\ outbox' = Pushing!Applied(i, done)
    BY <1>9 DEF Pushing!Apply, Outcomes
  <2>2. CASE done = "delivered"
    <3>1. outbox' = [j \in DOMAIN outbox \ {i} |-> outbox[j]]
      BY <2>1, <2>2 DEF Pushing!Applied, Pushing!Removed
    <3>2. worker.results[i] = "ok"
      BY <2>2 DEF Pushing!Decision
    <3>3. k = i
      BY <1>1, <3>1
    <3> QED
      BY <2>1, <3>2, <3>3 DEF PushInv, WorkerInv
  <2>3. CASE done # "delivered"
    <3> HIDE DEF done
    <3>1. DOMAIN outbox' = DOMAIN outbox
      BY <2>1, <2>3 DEF Pushing!Applied
    <3> QED
      BY <1>2, <3>1
  <2> QED
    BY <2>2, <2>3
<1>10. CASE Pushing!PruneDeadLetters
  <2>1. outbox' = [j \in DOMAIN outbox \ Pushing!Pruned |-> outbox[j]]
    BY <1>10 DEF Pushing!PruneDeadLetters, Pushing!Removed
  <2>2. k \in Pushing!Pruned
    BY <1>1, <2>1
  <2> QED
    BY <2>2, PrunedAreOld
<1> QED
  BY <1>3, <1>4, <1>5, <1>6, <1>7, <1>8, <1>9, <1>10 DEF Pushing!PushNext

\* While push delivery runs, a step of the suite is one of its.
LEMMA PushStep ==
  ASSUME [AccessNext]_accessVars, part = "push" \/ part' = "push"
  PROVE  part' = part /\ [Pushing!PushNext]_(Pushing!pushVars)
  BY DEF AccessNext, accessVars, pushVars, Pushing!pushVars

\* Devices, outbox, calls and worker fit together in every behaviour, through every crash
\* and failed write (push/mod.rs: register_device, enqueue_to_subjects; push/worker.rs:
\* process_pending).
THEOREM PushInvariant == AccessSpec => [](part = "push" => PushInv)
<1>1. AccessInit => (part = "push" => PushInv)
  BY InitPushInv DEF AccessInit
<1>2. (part = "push" => PushInv) /\ [AccessNext]_accessVars => (part = "push" => PushInv)'
  BY PushStep, NextPushInv
<1> QED
  BY <1>1, <1>2, PTL DEF AccessSpec

\* What the invariant says of a state.
LEMMA PushStates ==
  ASSUME PushInv
  PROVE  Pushing!PushBounded /\ Pushing!AttemptsBounded
<1>1. Pushing!PushBounded
  BY PushCounts DEF PushInv, QuotaInv, CapacityInv, DevicesOf, Pushing!PushBounded
<1>2. Pushing!AttemptsBounded
  BY DEF PushInv, AttemptInv, WorkerInv, Pushing!AttemptsBounded, Pushing!OutRow
<1> QED
  BY <1>1, <1>2

\* Push delivery (push/mod.rs, push/worker.rs): quota and outbox capacity hold under
\* concurrent calls, attempts are bounded and use the credentials of their batch, and a
\* notification leaves the outbox only when accepted or as one of the oldest dead letters.
THEOREM PushAlwaysSound == AccessSpec => PushSound
<1>1. (part = "push" => PushInv) =>
        (part = "push" => Pushing!PushBounded /\ Pushing!AttemptsBounded)
  BY PushStates
<1>2. (part = "push" => PushInv) /\ [AccessNext]_accessVars =>
        [part = "push" => Pushing!OutboxStep]_accessVars
  BY PushStep, NextOutboxStep
<1> QED
  BY <1>1, <1>2, PushInvariant, PTL DEF AccessSpec, PushSound
=============================================================================
