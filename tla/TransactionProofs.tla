------------------------- MODULE TransactionProofs -------------------------
(***************************************************************************)
(* MULTI / EXEC / WATCH: what Transaction promises, proved for every set   *)
(* of keys and clients and every bound.                                    *)
(*                                                                         *)
(* Memory may hold what the journal does not: the commands of a running    *)
(* EXEC, and for good those of an EXEC whose append failed.  The proof     *)
(* rests on when memory can be trusted (Trusted, MemInv): while the        *)
(* journal is healthy, and, once it is poisoned, as long as a client that  *)
(* entered the execution gate before is still inside, since the failing    *)
(* EXEC needs the gate alone.                                              *)
(***************************************************************************)
EXTENDS MCStore, TLAPS

-----------------------------------------------------------------------------
(* The inductive invariant                                                 *)

Inside(c) == pc[c] \in {"running", "committing"}

\* The execution gate: EXEC is alone inside, whoever runs a command is in, and
\* only EXEC has anything buffered.
GateInv ==
  /\ \A c \in Client :
       /\ Inside(c) => writer = c /\ readers = {}
       /\ writer = c => pc[c] \in {"waiting", "running", "committing"}
       /\ c \in readers => pc[c] \in {"reading", "writing"}
       /\ arg[c] # NoCmd => c \in readers /\ pc[c] = "writing"
       /\ DOMAIN got[c] # {} => c \in readers /\ pc[c] = "reading"
  /\ Saver \in readers <=> spc = "inside"
  /\ (\A c \in Client : ~Inside(c)) => active = NoExec
  /\ ~up => /\ readers = {} /\ writer = Nobody /\ ~poisoned /\ spc = "idle"
            /\ \A c \in Client : pc[c] = "idle"

\* Every recorded command was numbered before.
NumbersInv ==
  /\ \A f \in journal : \A m \in f.cmds : m.id < nextId
  /\ \A m \in active.cmds : m.id < nextId
  /\ \A b \in batches : \A m \in b : m.id < nextId

\* A frame is incomplete only while EXEC appends it, and is then its buffer.
TornInv ==
  /\ \A f \in journal : ~f.whole =>
       f.cmds = active.cmds /\ \E c \in Client : pc[c] = "committing"
  /\ \A c \in Client : pc[c] = "committing" =>
       [cmds |-> active.cmds, whole |-> FALSE] \in journal

\* A single write between append and apply has a frame of its own, and is part of
\* no transaction.
PendingInv ==
  \A c \in Client : arg[c] # NoCmd =>
    /\ [cmds |-> {arg[c]}, whole |-> TRUE] \in journal
    /\ \A b \in batches : arg[c] \notin b
    /\ \A d \in Client : arg[d] # NoCmd /\ arg[d].id = arg[c].id => d = c

\* What a running EXEC has buffered is in no frame and in no earlier batch, and
\* the key events it defers belong to what it buffered.
BufferInv ==
  /\ \A c \in Client : pc[c] = "running" => \A m \in active.cmds :
       /\ \A f \in journal : \A n \in f.cmds : n.id # m.id
       /\ \A b \in batches : m \notin b
  /\ active.events \subseteq {m.id : m \in active.cmds}

\* A frame holds a batch whole or nothing of it.
BatchInv == \A b \in batches : \A f \in journal : f.cmds = b \/ f.cmds \cap b = {}

FramesInv == TornInv /\ PendingInv /\ BufferInv /\ BatchInv

\* The mutations of key k that are journaled but not applied yet, and those that
\* EXEC has applied but not journaled yet.
Pending(k) == {arg[c].id : c \in {d \in Client : arg[d] # NoCmd /\ arg[d].key = k}}
Buffered(k) == {m.id : m \in {n \in active.cmds : n.key = k}}

\* Memory is what the journal rebuilds, but for the commands under way.
Exact == \A k \in Key : mem[k] = (CommittedOf(k) \ Pending(k)) \cup Buffered(k)

\* So it is while the journal is healthy, and as long as a client that entered the
\* gate while it was is inside.
Trusted == (up /\ ~poisoned) \/ \E c \in Client : c \in readers
MemInv == Trusted => Exact

\* What a read has collected is committed, and has of every transaction what the
\* journal has.
ReadInv ==
  \A c \in Client : \A k \in DOMAIN got[c] :
    /\ got[c][k] \subseteq CommittedOf(k)
    /\ \A b \in batches : \A m \in b :
         m.key = k => (m.id \in got[c][k] <=> m \in Committed)

\* A watched key whose version is the one WATCH saw has the contents WATCH saw.
WatchInv ==
  \A c \in Client :
    /\ DOMAIN basis[c] = DOMAIN watched[c]
    /\ ~up => DOMAIN watched[c] = {}
    /\ \A k \in DOMAIN watched[c] :
         /\ watched[c][k] <= ver[k]
         /\ ~poisoned /\ watched[c][k] = ver[k] => mem[k] = basis[c][k]

TransactionInv ==
  /\ TypeOK /\ GateInv /\ NumbersInv /\ FramesInv /\ MemInv /\ ReadInv /\ WatchInv
  /\ SnapshotIsCommitted /\ EventsFollowCommit

-----------------------------------------------------------------------------
(* Types, the gate, numbers and frames                                     *)

\* What is written to the journal is a frame.
LEMMA FrameTyped ==
  ASSUME NEW S \in SUBSET Cmd, NEW b \in BOOLEAN
  PROVE  [cmds |-> S, whole |-> b] \in Frame
  BY DEF Frame

\* Every step keeps the types.
LEMMA NextType ==
  ASSUME TypeOK, [Next]_vars
  PROVE  TypeOK'
<1>1. ASSUME NEW c \in Client, NEW kind \in {"reading", "writing"}, Begin(c, kind)
      PROVE  TypeOK'
  BY <1>1 DEF Begin, gateVars, watchVars, saverVars, TypeOK, NoCmd
<1>2. ASSUME NEW c \in Client, NEW k \in Key, Watch(c, k) PROVE TypeOK'
  BY <1>2 DEF Watch, gateVars, clientVars, saverVars, TypeOK, PartlyOn
<1>3. ASSUME NEW c \in Client, Discard(c) PROVE TypeOK'
  BY <1>3, QueueAssumption
  DEF Discard, ClearTx, gateVars, saverVars, TypeOK, PartlyOn, Nothing
<1>4. ASSUME NEW c \in Client, NEW n \in 1..MaxQueue, ExecBegin(c, n) PROVE TypeOK'
  BY <1>4, QueueAssumption DEF ExecBegin, gateVars, watchVars, saverVars, TypeOK
<1>5. ASSUME NEW c \in Client, EnterRead(c) PROVE TypeOK'
  BY <1>5 DEF EnterRead, watchVars, saverVars, TypeOK
<1>6. ASSUME NEW c \in Client, NEW k \in Key, ReadKey(c, k) PROVE TypeOK'
  BY <1>6 DEF ReadKey, gateVars, watchVars, saverVars, TypeOK, PartlyOn
<1>7. ASSUME NEW c \in Client, ReadReply(c) PROVE TypeOK'
  BY <1>7
  DEF ReadReply, Leave, watchVars, saverVars, TypeOK, Cmd, PartlyOn, NoCmd, Nothing
<1>8. ASSUME NEW c \in Client, NEW k \in Key, WriteAppend(c, k) PROVE TypeOK'
  <2>1. [id |-> nextId, key |-> k] \in Cmd /\ nextId' \in Nat \ {0}
    BY <1>8 DEF WriteAppend, TypeOK, Cmd
  <2>2. CASE /\ arg' = [arg EXCEPT ![c] = [id |-> nextId, key |-> k]]
             /\ journal' = journal \cup {[cmds |-> {arg'[c]}, whole |-> TRUE]}
             /\ UNCHANGED <<poisoned, readers, pc, got>> /\ NoFault
    <3>1. arg' \in [Client -> Cmd \cup {NoCmd}] /\ arg'[c] \in Cmd
      BY <2>1, <2>2 DEF TypeOK
    <3>2. [cmds |-> {arg'[c]}, whole |-> TRUE] \in Frame
      BY <3>1, FrameTyped
    <3>3. journal' \subseteq Frame
      BY <2>2, <3>2 DEF TypeOK
    <3> QED
      BY <1>8, <2>1, <2>2, <3>1, <3>3
      DEF WriteAppend, NoFault, saverVars, watchVars, TypeOK
  <2>3. CASE Leave(c) /\ UNCHANGED journal /\ poisoned' \in BOOLEAN
    <3>1. budget' = budget \/ budget' = [budget EXCEPT !.faults = budget.faults + 1]
      BY <1>8 DEF WriteAppend, NoFault, Fault
    <3>2. budget' \in [faults : Nat, saves : Nat]
      BY <3>1 DEF TypeOK
    <3> QED
      BY <1>8, <2>1, <2>3, <3>2
      DEF WriteAppend, Leave, saverVars, watchVars, TypeOK, PartlyOn, Nothing
  <2> QED
    BY <1>8, <2>2, <2>3 DEF WriteAppend, TypeOK
<1>9. ASSUME NEW c \in Client, WriteApply(c) PROVE TypeOK'
  BY <1>9
  DEF WriteApply, Leave, VersionBumped, watchVars, saverVars, TypeOK, Cmd, PartlyOn,
    NoCmd, Nothing
<1>10. ASSUME NEW c \in Client, ExecBid(c) PROVE TypeOK'
  BY <1>10 DEF ExecBid, clientVars, watchVars, saverVars, TypeOK
<1>11. ASSUME NEW c \in Client, ExecEnter(c) PROVE TypeOK'
  <2>1. /\ watched' = watched \/ watched' = [watched EXCEPT ![c] = Nothing]
        /\ basis' = basis \/ basis' = [basis EXCEPT ![c] = Nothing]
        /\ left' = left \/ left' = [left EXCEPT ![c] = 0]
        /\ active' = active \/ active' = NoExec
        /\ pc' = [pc EXCEPT ![c] = "running"] \/ pc' = [pc EXCEPT ![c] = "idle"]
        /\ writer' = writer \/ writer' = Nobody
        /\ UNCHANGED <<up, mem, ver, journal, poisoned, readers, arg, got, spc, snap, batches,
                       events, nextId, budget>>
    BY <1>11 DEF ExecEnter, ClearTx, watchVars, saverVars
  <2>2. PartlyOn(Nothing, Nat) /\ PartlyOn(Nothing, SUBSET Nat)
    BY DEF PartlyOn, Nothing
  <2>3. /\ DOMAIN watched' = Client /\ \A d \in Client : PartlyOn(watched'[d], Nat)
        /\ DOMAIN basis' = Client /\ \A d \in Client : PartlyOn(basis'[d], SUBSET Nat)
    BY <2>1, <2>2 DEF TypeOK
  <2>4. left' \in [Client -> 0..MaxQueue]
    BY <2>1, QueueAssumption DEF TypeOK
  <2>5. active' \in [cmds : SUBSET Cmd, events : SUBSET Nat]
    BY <2>1 DEF TypeOK, NoExec
  <2> QED
    BY <2>1, <2>3, <2>4, <2>5 DEF TypeOK
<1>12. ASSUME NEW c \in Client, NEW k \in Key, ExecWrite(c, k) PROVE TypeOK'
  BY <1>12, QueueAssumption
  DEF ExecWrite, VersionBumped, EventDeferred, Queued, gateVars, watchVars, saverVars,
    TypeOK, Cmd
<1>13. ASSUME NEW c \in Client, NEW k \in Key, ExecApplyFails(c, k) PROVE TypeOK'
  <2>1. [id |-> nextId, key |-> k] \in Cmd /\ nextId' \in Nat \ {0}
    BY <1>13 DEF ExecApplyFails, TypeOK, Cmd
  <2>2. active' \in [cmds : SUBSET Cmd, events : SUBSET Nat]
    BY <1>13, <2>1 DEF ExecApplyFails, TypeOK
  <2>3. left' \in [Client -> 0..MaxQueue]
    BY <1>13, QueueAssumption DEF ExecApplyFails, Queued, TypeOK
  <2>4. mem' \in [Key -> SUBSET Nat]
    BY <1>13 DEF ExecApplyFails, TypeOK
  <2>5. budget' \in [faults : Nat, saves : Nat]
    BY <1>13 DEF ExecApplyFails, Fault, TypeOK
  <2> QED
    BY <1>13, <2>1, <2>2, <2>3, <2>4, <2>5
    DEF ExecApplyFails, gateVars, watchVars, saverVars, TypeOK
<1>14. ASSUME NEW c \in Client, ExecRejected(c) PROVE TypeOK'
  BY <1>14, QueueAssumption
  DEF ExecRejected, Queued, gateVars, watchVars, saverVars, TypeOK
<1>15. ASSUME NEW c \in Client, ExecAppend(c) PROVE TypeOK'
  <2>1. active.cmds \subseteq Cmd
    BY DEF TypeOK
  <2>2. batches' \subseteq SUBSET Cmd
    BY <1>15, <2>1 DEF ExecAppend, TypeOK
  <2>3. [cmds |-> active.cmds, whole |-> FALSE] \in Frame
    BY <2>1, FrameTyped
  <2>4. journal' \subseteq Frame
    BY <1>15, <2>3 DEF ExecAppend, OneFrame, TypeOK
  <2> QED
    BY <1>15, <2>2, <2>4 DEF ExecAppend, gateVars, watchVars, saverVars, TypeOK
<1>16. ASSUME NEW c \in Client, ExecCommitted(c) PROVE TypeOK'
  <2>1. /\ watched' = [watched EXCEPT ![c] = Nothing] /\ basis' = [basis EXCEPT ![c] = Nothing]
        /\ left' = [left EXCEPT ![c] = 0] /\ active' = NoExec /\ writer' = Nobody
        /\ UNCHANGED <<up, mem, ver, readers, arg, got, spc, snap, batches, nextId>>
    BY <1>16 DEF ExecCommitted, ClearTx, ReleaseBeforeWake, saverVars
  <2>2. /\ DOMAIN watched' = Client /\ \A d \in Client : PartlyOn(watched'[d], Nat)
        /\ DOMAIN basis' = Client /\ \A d \in Client : PartlyOn(basis'[d], SUBSET Nat)
    BY <2>1 DEF TypeOK, PartlyOn, Nothing
  <2>3. left' \in [Client -> 0..MaxQueue]
    BY <2>1, QueueAssumption DEF TypeOK
  <2>4. active' \in [cmds : SUBSET Cmd, events : SUBSET Nat]
    BY <2>1 DEF TypeOK, NoExec
  <2>5. journal' \subseteq Frame
    <3>1. \A f \in journal : f \in Frame
      BY DEF TypeOK
    <3>2. \A f \in journal : [f EXCEPT !.whole = TRUE] \in Frame
      BY <3>1 DEF Frame
    <3> QED
      BY <1>16, <3>2 DEF ExecCommitted
  <2>6. events' \subseteq Nat
    BY <1>16 DEF ExecCommitted, TypeOK
  <2> QED
    BY <1>16, <2>1, <2>2, <2>3, <2>4, <2>5, <2>6 DEF ExecCommitted, TypeOK
<1>17. ASSUME NEW c \in Client, ExecCommitFails(c) PROVE TypeOK'
  BY <1>17, QueueAssumption
  DEF ExecCommitFails, Queued, Fault, NoFault, CommitFailureFences, ReleaseExec,
    ClearTx, saverVars, TypeOK, Cmd, Frame, PartlyOn, NoExec, Nothing
<1>18. ASSUME NEW c \in Client, ExecUnwinds(c) PROVE TypeOK'
  <2>1. /\ watched' = [watched EXCEPT ![c] = Nothing] /\ basis' = [basis EXCEPT ![c] = Nothing]
        /\ left' = [left EXCEPT ![c] = 0] /\ active' = NoExec /\ writer' = Nobody
        /\ UNCHANGED <<up, mem, ver, readers, arg, got, spc, snap, batches, nextId>>
    BY <1>18 DEF ExecUnwinds, ClearTx, ReleaseExec, saverVars
  <2>2. /\ DOMAIN watched' = Client /\ \A d \in Client : PartlyOn(watched'[d], Nat)
        /\ DOMAIN basis' = Client /\ \A d \in Client : PartlyOn(basis'[d], SUBSET Nat)
    BY <2>1 DEF TypeOK, PartlyOn, Nothing
  <2>3. left' \in [Client -> 0..MaxQueue]
    BY <2>1, QueueAssumption DEF TypeOK
  <2>4. active' \in [cmds : SUBSET Cmd, events : SUBSET Nat]
    BY <2>1 DEF TypeOK, NoExec
  <2>5. budget' \in [faults : Nat, saves : Nat] /\ poisoned' \in BOOLEAN
    BY <1>18 DEF ExecUnwinds, Fault, TypeOK
  <2> QED
    BY <1>18, <2>1, <2>2, <2>3, <2>4, <2>5 DEF ExecUnwinds, TypeOK
<1>19. ASSUME NEW c \in Client, ExecWake(c) PROVE TypeOK'
  BY <1>19 DEF ExecWake, gateVars, watchVars, saverVars, TypeOK
<1>20. ASSUME FsyncFails PROVE TypeOK'
  BY <1>20 DEF FsyncFails, Fault, gateVars, clientVars, watchVars, saverVars, TypeOK
<1>21. ASSUME SaveBegin PROVE TypeOK'
  BY <1>21 DEF SaveBegin, gateVars, clientVars, watchVars, TypeOK
<1>22. ASSUME SaveEnter PROVE TypeOK'
  BY <1>22 DEF SaveEnter, clientVars, watchVars, TypeOK
<1>23. ASSUME Capture PROVE TypeOK'
  BY <1>23 DEF Capture, CaptureHealthy, clientVars, watchVars, TypeOK, NoCmd
<1>24. ASSUME Crash PROVE TypeOK'
  <2>1. /\ journal' \subseteq Frame
        /\ budget' \in [faults : Nat, saves : Nat]
    BY <1>24 DEF Crash, Fault, NoFault, TypeOK
  <2>2. /\ mem' \in [Key -> SUBSET Nat] /\ ver' \in [Key -> Nat]
        /\ arg' \in [Client -> Cmd \cup {NoCmd}] /\ left' \in [Client -> 0..MaxQueue]
        /\ active' \in [cmds : SUBSET Cmd, events : SUBSET Nat]
    BY <1>24, QueueAssumption DEF Crash, Empty, NoExec
  <2>3. /\ DOMAIN got' = Client /\ \A d \in Client : PartlyOn(got'[d], SUBSET Nat)
        /\ DOMAIN watched' = Client /\ \A d \in Client : PartlyOn(watched'[d], Nat)
        /\ DOMAIN basis' = Client /\ \A d \in Client : PartlyOn(basis'[d], SUBSET Nat)
    BY <1>24 DEF Crash, PartlyOn, Nothing
  <2> QED
    BY <1>24, <2>1, <2>2, <2>3 DEF Crash, TypeOK
<1>25. ASSUME Recover PROVE TypeOK'
  <2>1. ASSUME NEW k \in Key PROVE CommittedOf(k) \subseteq Nat
    BY DEF CommittedOf, Committed, TypeOK, Frame, Cmd
  <2>2. mem' \in [Key -> SUBSET Nat]
    BY <1>25, <2>1 DEF Recover
  <2> QED
    BY <1>25, <2>2 DEF Recover, gateVars, clientVars, watchVars, saverVars, TypeOK
<1>26. CASE UNCHANGED vars
  BY <1>26 DEF vars, TypeOK, Cmd, PartlyOn, NoCmd
<1> QED
  BY <1>1, <1>2, <1>3, <1>4, <1>5, <1>6, <1>7, <1>8, <1>9, <1>10, <1>11, <1>12, <1>13,
    <1>14, <1>15, <1>16, <1>17, <1>18, <1>19, <1>20, <1>21, <1>22, <1>23, <1>24, <1>25,
    <1>26
  DEF Next, ClientStep, SaverStep
\* Every step keeps the execution gate: EXEC alone inside, or readers and the saver.
LEMMA NextGate ==
  ASSUME TypeOK, TypeOK', GateInv, [Next]_vars
  PROVE  GateInv'
<1>1. ASSUME NEW c \in Client, NEW kind \in {"reading", "writing"}, Begin(c, kind)
      PROVE  GateInv'
  BY <1>1 DEF Begin, gateVars, saverVars, TypeOK, GateInv, Inside
<1>2. ASSUME NEW c \in Client, NEW k \in Key, Watch(c, k) PROVE GateInv'
  BY <1>2 DEF Watch, gateVars, clientVars, saverVars, TypeOK, GateInv, Inside
<1>3. ASSUME NEW c \in Client, Discard(c) PROVE GateInv'
  BY <1>3 DEF Discard, gateVars, saverVars, TypeOK, GateInv, Inside
<1>4. ASSUME NEW c \in Client, NEW n \in 1..MaxQueue, ExecBegin(c, n) PROVE GateInv'
  BY <1>4 DEF ExecBegin, gateVars, saverVars, TypeOK, GateInv, Inside
<1>5. ASSUME NEW c \in Client, EnterRead(c) PROVE GateInv'
  BY <1>5, ClientAssumption
  DEF EnterRead, SharedFree, saverVars, TypeOK, GateInv, Inside
<1>6. ASSUME NEW c \in Client, NEW k \in Key, ReadKey(c, k) PROVE GateInv'
  BY <1>6 DEF ReadKey, gateVars, saverVars, TypeOK, GateInv, Inside
<1>7. ASSUME NEW c \in Client, ReadReply(c) PROVE GateInv'
  BY <1>7, ClientAssumption
  DEF ReadReply, Leave, saverVars, TypeOK, GateInv, Inside, Nothing, NoCmd
<1>8. ASSUME NEW c \in Client, NEW k \in Key, WriteAppend(c, k) PROVE GateInv'
  <2>1. CASE /\ ~poisoned /\ UNCHANGED <<poisoned, readers, pc, got>>
             /\ arg' = [arg EXCEPT ![c] = [id |-> nextId, key |-> k]]
    BY <1>8, <2>1
    DEF WriteAppend, watchVars, saverVars, TypeOK, GateInv, Inside, NoExec, NoCmd
  <2>2. CASE Leave(c)
    BY <1>8, <2>2, ClientAssumption
    DEF WriteAppend, Leave, watchVars, saverVars, TypeOK, GateInv, Inside, NoExec, Nothing
  <2> QED
    BY <1>8, <2>1, <2>2 DEF WriteAppend
<1>9. ASSUME NEW c \in Client, WriteApply(c) PROVE GateInv'
  BY <1>9, ClientAssumption
  DEF WriteApply, Leave, saverVars, TypeOK, GateInv, Inside, Nothing, NoCmd
<1>10. ASSUME NEW c \in Client, ExecBid(c) PROVE GateInv'
  BY <1>10, ClientAssumption DEF ExecBid, clientVars, saverVars, TypeOK, GateInv, Inside
<1>11. ASSUME NEW c \in Client, ExecEnter(c) PROVE GateInv'
  BY <1>11, ClientAssumption DEF ExecEnter, saverVars, TypeOK, GateInv, Inside, NoExec
<1>12. ASSUME NEW c \in Client, NEW k \in Key, ExecWrite(c, k) PROVE GateInv'
  BY <1>12
  DEF ExecWrite, EventDeferred, gateVars, saverVars, TypeOK, GateInv, Inside, NoExec
<1>13. ASSUME NEW c \in Client, NEW k \in Key, ExecApplyFails(c, k) PROVE GateInv'
  BY <1>13 DEF ExecApplyFails, gateVars, saverVars, TypeOK, GateInv, Inside, NoExec
<1>14. ASSUME NEW c \in Client, ExecRejected(c) PROVE GateInv'
  BY <1>14 DEF ExecRejected, gateVars, saverVars, TypeOK, GateInv, Inside
<1>15. ASSUME NEW c \in Client, ExecAppend(c) PROVE GateInv'
  BY <1>15 DEF ExecAppend, gateVars, saverVars, TypeOK, GateInv, Inside
<1>16. ASSUME NEW c \in Client, ExecCommitted(c) PROVE GateInv'
  BY <1>16, ClientAssumption
  DEF ExecCommitted, ReleaseBeforeWake, saverVars, TypeOK, GateInv, Inside, NoExec
<1>17. ASSUME NEW c \in Client, ExecCommitFails(c) PROVE GateInv'
  BY <1>17, ClientAssumption
  DEF ExecCommitFails, ReleaseExec, saverVars, TypeOK, GateInv, Inside, NoExec
<1>18. ASSUME NEW c \in Client, ExecUnwinds(c) PROVE GateInv'
  BY <1>18, ClientAssumption
  DEF ExecUnwinds, ReleaseExec, saverVars, TypeOK, GateInv, Inside, NoExec
<1>19. ASSUME NEW c \in Client, ExecWake(c) PROVE GateInv'
  BY <1>19 DEF ExecWake, SharedFree, gateVars, saverVars, TypeOK, GateInv, Inside
<1>20. ASSUME FsyncFails PROVE GateInv'
  BY <1>20 DEF FsyncFails, gateVars, clientVars, saverVars, TypeOK, GateInv, Inside
<1>21. ASSUME SaveBegin PROVE GateInv'
  BY <1>21 DEF SaveBegin, gateVars, clientVars, TypeOK, GateInv, Inside
<1>22. ASSUME SaveEnter PROVE GateInv'
  BY <1>22, ClientAssumption
  DEF SaveEnter, SharedFree, clientVars, TypeOK, GateInv, Inside
<1>23. ASSUME Capture PROVE GateInv'
  BY <1>23, ClientAssumption DEF Capture, clientVars, TypeOK, GateInv, Inside
<1>24. ASSUME Crash PROVE GateInv'
  BY <1>24, ClientAssumption DEF Crash, TypeOK, GateInv, Inside, NoExec, Nothing, NoCmd
<1>25. ASSUME Recover PROVE GateInv'
  BY <1>25 DEF Recover, gateVars, clientVars, saverVars, TypeOK, GateInv, Inside
<1>26. CASE UNCHANGED vars
  BY <1>26 DEF vars, GateInv, Inside
<1> QED
  BY <1>1, <1>2, <1>3, <1>4, <1>5, <1>6, <1>7, <1>8, <1>9, <1>10, <1>11, <1>12, <1>13,
    <1>14, <1>15, <1>16, <1>17, <1>18, <1>19, <1>20, <1>21, <1>22, <1>23, <1>24, <1>25,
    <1>26
  DEF Next, ClientStep, SaverStep

\* Every step keeps the numbering: a recorded command never gets its number again.
LEMMA NextNumbers ==
  ASSUME TypeOK, TypeOK', NumbersInv, [Next]_vars
  PROVE  NumbersInv'
<1>1. ASSUME NEW c \in Client, NEW kind \in {"reading", "writing"}, Begin(c, kind)
      PROVE  NumbersInv'
  BY <1>1 DEF Begin, NumbersInv
<1>2. ASSUME NEW c \in Client, NEW k \in Key, Watch(c, k) PROVE NumbersInv'
  BY <1>2 DEF Watch, NumbersInv
<1>3. ASSUME NEW c \in Client, Discard(c) PROVE NumbersInv'
  BY <1>3 DEF Discard, NumbersInv
<1>4. ASSUME NEW c \in Client, NEW n \in 1..MaxQueue, ExecBegin(c, n) PROVE NumbersInv'
  BY <1>4 DEF ExecBegin, NumbersInv
<1>5. ASSUME NEW c \in Client, EnterRead(c) PROVE NumbersInv'
  BY <1>5 DEF EnterRead, NumbersInv
<1>6. ASSUME NEW c \in Client, NEW k \in Key, ReadKey(c, k) PROVE NumbersInv'
  BY <1>6 DEF ReadKey, NumbersInv
<1>7. ASSUME NEW c \in Client, ReadReply(c) PROVE NumbersInv'
  BY <1>7 DEF ReadReply, NumbersInv
<1>8. ASSUME NEW c \in Client, NEW k \in Key, WriteAppend(c, k) PROVE NumbersInv'
  <2>1. /\ nextId' = nextId + 1 /\ nextId \in Nat /\ UNCHANGED <<active, batches>>
        /\ \/ journal' = journal
           \/ journal' = journal \cup {[cmds |-> {[id |-> nextId, key |-> k]}, whole |-> TRUE]}
    BY <1>8 DEF WriteAppend, TypeOK
  <2>2. /\ \A f \in journal : \A m \in f.cmds : m.id \in Nat
        /\ \A b \in batches : \A m \in b : m.id \in Nat
        /\ \A m \in active.cmds : m.id \in Nat
    BY DEF TypeOK, Frame, Cmd
  <2> QED
    BY <2>1, <2>2 DEF NumbersInv
<1>9. ASSUME NEW c \in Client, WriteApply(c) PROVE NumbersInv'
  BY <1>9 DEF WriteApply, NumbersInv
<1>10. ASSUME NEW c \in Client, ExecBid(c) PROVE NumbersInv'
  BY <1>10 DEF ExecBid, NumbersInv
<1>11. ASSUME NEW c \in Client, ExecEnter(c) PROVE NumbersInv'
  BY <1>11 DEF ExecEnter, NumbersInv, NoExec
<1>12. ASSUME NEW c \in Client, NEW k \in Key, ExecWrite(c, k) PROVE NumbersInv'
  BY <1>12 DEF ExecWrite, EventDeferred, TypeOK, Frame, Cmd, NumbersInv
<1>13. ASSUME NEW c \in Client, NEW k \in Key, ExecApplyFails(c, k) PROVE NumbersInv'
  BY <1>13 DEF ExecApplyFails, TypeOK, Frame, Cmd, NumbersInv
<1>14. ASSUME NEW c \in Client, ExecRejected(c) PROVE NumbersInv'
  BY <1>14 DEF ExecRejected, NumbersInv
<1>15. ASSUME NEW c \in Client, ExecAppend(c) PROVE NumbersInv'
  BY <1>15 DEF ExecAppend, OneFrame, TypeOK, Frame, NumbersInv
<1>16. ASSUME NEW c \in Client, ExecCommitted(c) PROVE NumbersInv'
  BY <1>16 DEF ExecCommitted, TypeOK, Frame, NumbersInv, NoExec
<1>17. ASSUME NEW c \in Client, ExecCommitFails(c) PROVE NumbersInv'
  BY <1>17 DEF ExecCommitFails, TypeOK, Frame, NumbersInv, NoExec
<1>18. ASSUME NEW c \in Client, ExecUnwinds(c) PROVE NumbersInv'
  BY <1>18 DEF ExecUnwinds, NumbersInv, NoExec
<1>19. ASSUME NEW c \in Client, ExecWake(c) PROVE NumbersInv'
  BY <1>19 DEF ExecWake, NumbersInv
<1>20. ASSUME FsyncFails PROVE NumbersInv'
  BY <1>20 DEF FsyncFails, NumbersInv
<1>21. ASSUME SaveBegin PROVE NumbersInv'
  BY <1>21 DEF SaveBegin, NumbersInv
<1>22. ASSUME SaveEnter PROVE NumbersInv'
  BY <1>22 DEF SaveEnter, NumbersInv
<1>23. ASSUME Capture PROVE NumbersInv'
  BY <1>23 DEF Capture, NumbersInv
<1>24. ASSUME Crash PROVE NumbersInv'
  BY <1>24 DEF Crash, TypeOK, Frame, NumbersInv, NoExec
<1>25. ASSUME Recover PROVE NumbersInv'
  BY <1>25 DEF Recover, NumbersInv
<1>26. CASE UNCHANGED vars
  BY <1>26 DEF vars, NumbersInv
<1> QED
  BY <1>1, <1>2, <1>3, <1>4, <1>5, <1>6, <1>7, <1>8, <1>9, <1>10, <1>11, <1>12, <1>13,
    <1>14, <1>15, <1>16, <1>17, <1>18, <1>19, <1>20, <1>21, <1>22, <1>23, <1>24, <1>25,
    <1>26
  DEF Next, ClientStep, SaverStep

\* A step that leaves journal, buffer and batches alone, and neither starts nor ends
\* a transaction or a write.
LEMMA FramesQuiet ==
  ASSUME FramesInv, UNCHANGED <<journal, active, batches>>,
         \A d \in Client : /\ arg'[d] # NoCmd => arg'[d] = arg[d]
                           /\ pc'[d] = "running" <=> pc[d] = "running"
                           /\ pc'[d] = "committing" <=> pc[d] = "committing"
  PROVE  FramesInv'
<1>1. TornInv'
  BY DEF FramesInv, TornInv
<1>2. PendingInv'
  BY DEF FramesInv, PendingInv
<1>3. BufferInv' /\ BatchInv'
  BY DEF FramesInv, BufferInv, BatchInv
<1> QED
  BY <1>1, <1>2, <1>3 DEF FramesInv

\* Every step keeps the frames: one per transaction, incomplete only while EXEC
\* appends it, one per single write between append and apply.
LEMMA NextFrames ==
  ASSUME TypeOK, TypeOK', GateInv, GateInv', NumbersInv, FramesInv, [Next]_vars
  PROVE  FramesInv'
<1>1. ASSUME NEW c \in Client, NEW kind \in {"reading", "writing"}, Begin(c, kind)
      PROVE  FramesInv'
  <2>1. UNCHANGED <<journal, active, batches, arg>>
    BY <1>1 DEF Begin
  <2>2. \A d \in Client : /\ pc'[d] = "running" <=> pc[d] = "running"
                          /\ pc'[d] = "committing" <=> pc[d] = "committing"
    BY <1>1 DEF Begin, TypeOK
  <2> QED
    BY <2>1, <2>2, FramesQuiet
<1>2. ASSUME NEW c \in Client, NEW k \in Key, Watch(c, k) PROVE FramesInv'
  <2>1. UNCHANGED <<journal, active, batches, arg>>
    BY <1>2 DEF Watch, clientVars
  <2>2. \A d \in Client : /\ pc'[d] = "running" <=> pc[d] = "running"
                          /\ pc'[d] = "committing" <=> pc[d] = "committing"
    BY <1>2 DEF Watch, TypeOK, clientVars
  <2> QED
    BY <2>1, <2>2, FramesQuiet
<1>3. ASSUME NEW c \in Client, Discard(c) PROVE FramesInv'
  <2>1. UNCHANGED <<journal, active, batches, arg>>
    BY <1>3 DEF Discard
  <2>2. \A d \in Client : /\ pc'[d] = "running" <=> pc[d] = "running"
                          /\ pc'[d] = "committing" <=> pc[d] = "committing"
    BY <1>3 DEF Discard, TypeOK
  <2> QED
    BY <2>1, <2>2, FramesQuiet
<1>4. ASSUME NEW c \in Client, NEW n \in 1..MaxQueue, ExecBegin(c, n) PROVE FramesInv'
  <2>1. UNCHANGED <<journal, active, batches, arg>>
    BY <1>4 DEF ExecBegin
  <2>2. \A d \in Client : /\ pc'[d] = "running" <=> pc[d] = "running"
                          /\ pc'[d] = "committing" <=> pc[d] = "committing"
    BY <1>4 DEF ExecBegin, TypeOK
  <2> QED
    BY <2>1, <2>2, FramesQuiet
<1>5. ASSUME NEW c \in Client, EnterRead(c) PROVE FramesInv'
  <2>1. UNCHANGED <<journal, active, batches, arg>>
    BY <1>5 DEF EnterRead
  <2>2. \A d \in Client : /\ pc'[d] = "running" <=> pc[d] = "running"
                          /\ pc'[d] = "committing" <=> pc[d] = "committing"
    BY <1>5 DEF EnterRead, TypeOK
  <2> QED
    BY <2>1, <2>2, FramesQuiet
<1>6. ASSUME NEW c \in Client, NEW k \in Key, ReadKey(c, k) PROVE FramesInv'
  <2>1. UNCHANGED <<journal, active, batches, arg>>
    BY <1>6 DEF ReadKey
  <2>2. \A d \in Client : /\ pc'[d] = "running" <=> pc[d] = "running"
                          /\ pc'[d] = "committing" <=> pc[d] = "committing"
    BY <1>6 DEF ReadKey, TypeOK
  <2> QED
    BY <2>1, <2>2, FramesQuiet
<1>7. ASSUME NEW c \in Client, ReadReply(c) PROVE FramesInv'
  <2>1. /\ UNCHANGED <<journal, active, batches>> /\ pc' = [pc EXCEPT ![c] = "idle"]
        /\ arg' = [arg EXCEPT ![c] = NoCmd] /\ pc[c] \in {"reading", "writing"}
    BY <1>7 DEF ReadReply, Leave
  <2>2. \A d \in Client : /\ arg'[d] # NoCmd => arg'[d] = arg[d]
                          /\ pc'[d] = "running" <=> pc[d] = "running"
                          /\ pc'[d] = "committing" <=> pc[d] = "committing"
    BY <2>1 DEF TypeOK
  <2> QED
    BY <2>1, <2>2, FramesQuiet
<1>8. ASSUME NEW c \in Client, NEW k \in Key, WriteAppend(c, k) PROVE FramesInv'
  <2> DEFINE m == [id |-> nextId, key |-> k]
             f == [cmds |-> {m}, whole |-> TRUE]
  <2>1. CASE /\ arg' = [arg EXCEPT ![c] = m] /\ journal' = journal \cup {f}
             /\ UNCHANGED <<pc, active, batches>> /\ readers' = readers
    <3>1. c \in readers
      BY <1>8 DEF WriteAppend
    <3>2. \A d \in Client : ~Inside(d)
      BY <3>1 DEF GateInv
    <3>3. /\ \A g \in journal : \A n \in g.cmds : n.id \in Nat /\ n.id < nextId
          /\ \A b \in batches : \A n \in b : n.id \in Nat /\ n.id < nextId
          /\ nextId \in Nat
      BY DEF TypeOK, Frame, Cmd, NumbersInv
    <3>4. \A d \in Client : arg[d] # NoCmd => arg[d].id < nextId /\ arg[d].id \in Nat
      <4>1. SUFFICES ASSUME NEW d \in Client, arg[d] # NoCmd
                     PROVE  arg[d].id < nextId /\ arg[d].id \in Nat
        OBVIOUS
      <4>2. [cmds |-> {arg[d]}, whole |-> TRUE] \in journal
        BY <4>1 DEF FramesInv, PendingInv
      <4> QED
        BY <3>3, <4>2
    <3>5. TornInv' /\ BufferInv'
      BY <2>1, <3>2 DEF TornInv, BufferInv, FramesInv, Inside
    <3>6. PendingInv'
      <4>1. ASSUME NEW d \in Client, arg'[d] # NoCmd, d # c
            PROVE  /\ [cmds |-> {arg'[d]}, whole |-> TRUE] \in journal'
                   /\ \A b \in batches' : arg'[d] \notin b
                   /\ \A e \in Client : arg'[e] # NoCmd /\ arg'[e].id = arg'[d].id => e = d
        <5>1. arg'[d] = arg[d] /\ arg'[c] = m
          BY <2>1, <4>1 DEF TypeOK
        <5>2. \A e \in Client : e # c => arg'[e] = arg[e]
          BY <2>1 DEF TypeOK
        <5> QED
          BY <2>1, <3>3, <3>4, <4>1, <5>1, <5>2 DEF FramesInv, PendingInv
      <4>2. /\ [cmds |-> {arg'[c]}, whole |-> TRUE] \in journal'
            /\ \A b \in batches' : arg'[c] \notin b
            /\ \A e \in Client : arg'[e] # NoCmd /\ arg'[e].id = arg'[c].id => e = c
        <5>1. arg'[c] = m /\ \A e \in Client : e # c => arg'[e] = arg[e]
          BY <2>1 DEF TypeOK
        <5>2. \A b \in batches' : arg'[c] \notin b
          BY <2>1, <3>3, <5>1
        <5>3. \A e \in Client : arg'[e] # NoCmd /\ arg'[e].id = arg'[c].id => e = c
          BY <3>3, <3>4, <5>1
        <5>4. [cmds |-> {arg'[c]}, whole |-> TRUE] \in journal'
          <6>1. f \in journal'
            BY <2>1
          <6> QED
            BY <5>1, <6>1
        <5> QED
          BY <5>2, <5>3, <5>4
      <4> QED
        BY <4>1, <4>2 DEF PendingInv
    <3>7. BatchInv'
      BY <2>1, <3>3 DEF BatchInv, FramesInv
    <3> QED
      BY <3>5, <3>6, <3>7 DEF FramesInv
  <2>2. CASE Leave(c) /\ UNCHANGED <<journal, active, batches>>
    <3>1. \A d \in Client : /\ arg'[d] # NoCmd => arg'[d] = arg[d]
                            /\ pc'[d] = "running" <=> pc[d] = "running"
                            /\ pc'[d] = "committing" <=> pc[d] = "committing"
      BY <1>8, <2>2 DEF WriteAppend, Leave, TypeOK
    <3> QED
      BY <2>2, <3>1, FramesQuiet
  <2> QED
    BY <1>8, <2>1, <2>2 DEF WriteAppend, TypeOK
<1>9. ASSUME NEW c \in Client, WriteApply(c) PROVE FramesInv'
  <2>1. /\ UNCHANGED <<journal, active, batches>> /\ pc' = [pc EXCEPT ![c] = "idle"]
        /\ arg' = [arg EXCEPT ![c] = NoCmd] /\ pc[c] \in {"reading", "writing"}
    BY <1>9 DEF WriteApply, Leave
  <2>2. \A d \in Client : /\ arg'[d] # NoCmd => arg'[d] = arg[d]
                          /\ pc'[d] = "running" <=> pc[d] = "running"
                          /\ pc'[d] = "committing" <=> pc[d] = "committing"
    BY <2>1 DEF TypeOK
  <2> QED
    BY <2>1, <2>2, FramesQuiet
<1>10. ASSUME NEW c \in Client, ExecBid(c) PROVE FramesInv'
  <2>1. UNCHANGED <<journal, active, batches, arg>>
    BY <1>10 DEF ExecBid, clientVars
  <2>2. \A d \in Client : /\ pc'[d] = "running" <=> pc[d] = "running"
                          /\ pc'[d] = "committing" <=> pc[d] = "committing"
    BY <1>10 DEF ExecBid, TypeOK, clientVars
  <2> QED
    BY <2>1, <2>2, FramesQuiet
<1>11. ASSUME NEW c \in Client, ExecEnter(c) PROVE FramesInv'
  BY <1>11, ClientAssumption
  DEF ExecEnter, ClearTx, WatchedUnchanged, watchVars, saverVars, TypeOK, Frame, Cmd,
    GateInv, Inside, NumbersInv, FramesInv, TornInv, PendingInv, BufferInv, BatchInv,
    NoExec, NoCmd
<1>12. ASSUME NEW c \in Client, NEW k \in Key, ExecWrite(c, k) PROVE FramesInv'
  <2> DEFINE m == [id |-> nextId, key |-> k]
  <2>1. /\ UNCHANGED <<journal, batches, pc, arg>> /\ pc[c] = "running"
        /\ active' = [cmds |-> active.cmds \cup {m}, events |-> active.events \cup {nextId}]
    BY <1>12 DEF ExecWrite, EventDeferred
  <2>2. \A d \in Client : pc[d] # "committing"
    BY <2>1 DEF GateInv, Inside
  <2>3. /\ \A g \in journal : \A n \in g.cmds : n.id \in Nat /\ n.id < nextId
        /\ \A b \in batches : \A n \in b : n.id \in Nat /\ n.id < nextId
        /\ nextId \in Nat
    BY DEF TypeOK, Frame, Cmd, NumbersInv
  <2>4. TornInv' /\ PendingInv' /\ BatchInv'
    BY <2>1, <2>2 DEF TornInv, PendingInv, BatchInv, FramesInv
  <2>5. active'.events \subseteq {n.id : n \in active'.cmds}
    <3>1. ASSUME NEW i \in active'.events PROVE \E n \in active'.cmds : i = n.id
      <4>1. CASE i = nextId
        <5>1. m \in active'.cmds /\ m.id = nextId
          BY <2>1
        <5> QED
          BY <4>1, <5>1
      <4>2. CASE i \in active.events
        <5>1. PICK n \in active.cmds : i = n.id
          BY <4>2 DEF FramesInv, BufferInv
        <5> QED
          BY <2>1, <5>1
      <4> QED
        BY <2>1, <3>1, <4>1, <4>2
    <3> QED
      BY <3>1
  <2>6. \A n \in active'.cmds : /\ \A f \in journal : \A o \in f.cmds : o.id # n.id
                                /\ \A b \in batches : n \notin b
    BY <2>1, <2>3 DEF FramesInv, BufferInv
  <2> QED
    BY <2>1, <2>4, <2>5, <2>6 DEF FramesInv, BufferInv
<1>13. ASSUME NEW c \in Client, NEW k \in Key, ExecApplyFails(c, k) PROVE FramesInv'
  BY <1>13, ClientAssumption
  DEF ExecApplyFails, Fault, Queued, gateVars, watchVars, saverVars, TypeOK, Frame, Cmd,
    GateInv, Inside, NumbersInv, FramesInv, TornInv, PendingInv, BufferInv, BatchInv,
    NoExec, NoCmd
<1>14. ASSUME NEW c \in Client, ExecRejected(c) PROVE FramesInv'
  <2>1. UNCHANGED <<journal, active, batches, arg>>
    BY <1>14 DEF ExecRejected
  <2>2. \A d \in Client : /\ pc'[d] = "running" <=> pc[d] = "running"
                          /\ pc'[d] = "committing" <=> pc[d] = "committing"
    BY <1>14 DEF ExecRejected, TypeOK
  <2> QED
    BY <2>1, <2>2, FramesQuiet
<1>15. ASSUME NEW c \in Client, ExecAppend(c) PROVE FramesInv'
  BY <1>15, ClientAssumption
  DEF ExecAppend, Queued, OneFrame, gateVars, watchVars, saverVars, TypeOK, Frame, Cmd,
    GateInv, Inside, NumbersInv, FramesInv, TornInv, PendingInv, BufferInv, BatchInv,
    NoExec, NoCmd
<1>16. ASSUME NEW c \in Client, ExecCommitted(c) PROVE FramesInv'
  BY <1>16, ClientAssumption
  DEF ExecCommitted, Queued, ReleaseBeforeWake, ClearTx, saverVars, TypeOK, Frame, Cmd,
    GateInv, Inside, NumbersInv, FramesInv, TornInv, PendingInv, BufferInv, BatchInv,
    NoExec, NoCmd
<1>17. ASSUME NEW c \in Client, ExecCommitFails(c) PROVE FramesInv'
  BY <1>17, ClientAssumption
  DEF ExecCommitFails, Queued, Fault, NoFault, CommitFailureFences, ReleaseExec,
    ClearTx, saverVars, TypeOK, Frame, Cmd, GateInv, Inside, NumbersInv, FramesInv,
    TornInv, PendingInv, BufferInv, BatchInv, NoExec, NoCmd
<1>18. ASSUME NEW c \in Client, ExecUnwinds(c) PROVE FramesInv'
  BY <1>18, ClientAssumption
  DEF ExecUnwinds, Fault, ReleaseExec, ClearTx, saverVars, TypeOK, Frame, Cmd, GateInv,
    Inside, NumbersInv, FramesInv, TornInv, PendingInv, BufferInv, BatchInv, NoExec,
    NoCmd
<1>19. ASSUME NEW c \in Client, ExecWake(c) PROVE FramesInv'
  <2>1. UNCHANGED <<journal, active, batches, arg>>
    BY <1>19 DEF ExecWake
  <2>2. \A d \in Client : /\ pc'[d] = "running" <=> pc[d] = "running"
                          /\ pc'[d] = "committing" <=> pc[d] = "committing"
    BY <1>19 DEF ExecWake, TypeOK
  <2> QED
    BY <2>1, <2>2, FramesQuiet
<1>20. ASSUME FsyncFails PROVE FramesInv'
  <2>1. UNCHANGED <<journal, active, batches, arg>>
    BY <1>20 DEF FsyncFails, clientVars
  <2>2. \A d \in Client : /\ pc'[d] = "running" <=> pc[d] = "running"
                          /\ pc'[d] = "committing" <=> pc[d] = "committing"
    BY <1>20 DEF FsyncFails, TypeOK, clientVars
  <2> QED
    BY <2>1, <2>2, FramesQuiet
<1>21. ASSUME SaveBegin PROVE FramesInv'
  <2>1. UNCHANGED <<journal, active, batches, arg>>
    BY <1>21 DEF SaveBegin, clientVars
  <2>2. \A d \in Client : /\ pc'[d] = "running" <=> pc[d] = "running"
                          /\ pc'[d] = "committing" <=> pc[d] = "committing"
    BY <1>21 DEF SaveBegin, TypeOK, clientVars
  <2> QED
    BY <2>1, <2>2, FramesQuiet
<1>22. ASSUME SaveEnter PROVE FramesInv'
  <2>1. UNCHANGED <<journal, active, batches, arg>>
    BY <1>22 DEF SaveEnter, clientVars
  <2>2. \A d \in Client : /\ pc'[d] = "running" <=> pc[d] = "running"
                          /\ pc'[d] = "committing" <=> pc[d] = "committing"
    BY <1>22 DEF SaveEnter, TypeOK, clientVars
  <2> QED
    BY <2>1, <2>2, FramesQuiet
<1>23. ASSUME Capture PROVE FramesInv'
  <2>1. UNCHANGED <<journal, active, batches, arg>>
    BY <1>23 DEF Capture, clientVars
  <2>2. \A d \in Client : /\ pc'[d] = "running" <=> pc[d] = "running"
                          /\ pc'[d] = "committing" <=> pc[d] = "committing"
    BY <1>23 DEF Capture, TypeOK, clientVars
  <2> QED
    BY <2>1, <2>2, FramesQuiet
<1>24. ASSUME Crash PROVE FramesInv'
  BY <1>24, ClientAssumption
  DEF Crash, Fault, NoFault, TypeOK, Frame, Cmd, GateInv, Inside, NumbersInv, FramesInv,
    TornInv, PendingInv, BufferInv, BatchInv, NoExec, NoCmd
<1>25. ASSUME Recover PROVE FramesInv'
  <2>1. UNCHANGED <<journal, active, batches, arg>>
    BY <1>25 DEF Recover, clientVars
  <2>2. \A d \in Client : /\ pc'[d] = "running" <=> pc[d] = "running"
                          /\ pc'[d] = "committing" <=> pc[d] = "committing"
    BY <1>25 DEF Recover, TypeOK, clientVars
  <2> QED
    BY <2>1, <2>2, FramesQuiet
<1>26. CASE UNCHANGED vars
  BY <1>26 DEF vars, FramesInv, TornInv, PendingInv, BufferInv, BatchInv
<1> QED
  BY <1>1, <1>2, <1>3, <1>4, <1>5, <1>6, <1>7, <1>8, <1>9, <1>10, <1>11, <1>12, <1>13,
    <1>14, <1>15, <1>16, <1>17, <1>18, <1>19, <1>20, <1>21, <1>22, <1>23, <1>24, <1>25,
    <1>26
  DEF Next, ClientStep, SaverStep

-----------------------------------------------------------------------------
(* What the journal rebuilds                                               *)

\* Committed and CommittedOf by their members, now and after a step.
LEMMA CommittedIs ==
  /\ \A m : m \in Committed <=> \E f \in journal : f.whole /\ m \in f.cmds
  /\ \A m : m \in Committed' <=> \E f \in journal' : f.whole /\ m \in f.cmds
  BY DEF Committed

\* The numbers that the journal rebuilds for a key.
LEMMA CommittedOfIs ==
  ASSUME NEW k, NEW i
  PROVE  /\ i \in CommittedOf(k) <=> \E m \in Committed : m.key = k /\ m.id = i
         /\ i \in CommittedOf(k)' <=> \E m \in Committed' : m.key = k /\ m.id = i
  BY DEF CommittedOf

\* The single writes of a key between append and apply.
LEMMA PendingIs ==
  ASSUME NEW k, NEW i
  PROVE  /\ i \in Pending(k) <=>
              \E c \in Client : arg[c] # NoCmd /\ arg[c].key = k /\ arg[c].id = i
         /\ i \in Pending(k)' <=>
              \E c \in Client : arg'[c] # NoCmd /\ arg'[c].key = k /\ arg'[c].id = i
  BY DEF Pending

\* The commands on a key that EXEC has buffered.
LEMMA BufferedIs ==
  ASSUME NEW k, NEW i
  PROVE  /\ i \in Buffered(k) <=> \E m \in active.cmds : m.key = k /\ m.id = i
         /\ i \in Buffered(k)' <=> \E m \in active'.cmds : m.key = k /\ m.id = i
  BY DEF Buffered

\* The types of the commands in the journal and in the batches; a command is known
\* by its key and its number.
LEMMA CmdTypes ==
  ASSUME TypeOK
  PROVE  /\ \A f \in journal : \A m \in f.cmds : m \in Cmd
         /\ \A b \in batches : \A m \in b : m \in Cmd
         /\ \A m \in active.cmds : m \in Cmd
         /\ \A c \in Client : arg[c] # NoCmd => arg[c] \in Cmd
         /\ \A m \in Committed : m \in Cmd
         /\ \A m, n \in Cmd : m.id = n.id /\ m.key = n.key => m = n
<1>1. \A f \in journal : \A m \in f.cmds : m \in Cmd
  BY DEF TypeOK, Frame
<1>2. \A b \in batches : \A m \in b : m \in Cmd
  BY DEF TypeOK
<1>3. \A m \in active.cmds : m \in Cmd
  BY DEF TypeOK
<1>4. \A c \in Client : arg[c] # NoCmd => arg[c] \in Cmd
  BY DEF TypeOK
<1>5. \A m \in Committed : m \in Cmd
  BY <1>1, CommittedIs
<1>6. \A m, n \in Cmd : m.id = n.id /\ m.key = n.key => m = n
  BY DEF Cmd
<1> QED
  BY <1>1, <1>2, <1>3, <1>4, <1>5, <1>6

\* A transaction is in the journal whole or not at all.
LEMMA BatchWhole ==
  ASSUME FramesInv, NEW b \in batches
  PROVE  (\A m \in b : m \in Committed) \/ (\A m \in b : m \notin Committed)
<1>1. ASSUME NEW m \in b, m \in Committed PROVE \A n \in b : n \in Committed
  <2>1. PICK f \in journal : f.whole /\ m \in f.cmds
    BY <1>1, CommittedIs
  <2>2. f.cmds = b
    BY <1>1, <2>1 DEF FramesInv, BatchInv
  <2> QED
    BY <2>1, <2>2, CommittedIs
<1> QED
  BY <1>1

\* An EXEC that completes its frame commits what it buffered.
LEMMA CommitsBuffer ==
  ASSUME TypeOK, GateInv, FramesInv, NEW c \in Client, ExecCommitted(c)
  PROVE  \A m : m \in Committed' <=> m \in Committed \/ m \in active.cmds
<1>1. Inside(c) /\ journal' = {[f EXCEPT !.whole = TRUE] : f \in journal}
  BY DEF ExecCommitted, Inside
<1>2. \A f \in journal : /\ [f EXCEPT !.whole = TRUE].cmds = f.cmds
                         /\ [f EXCEPT !.whole = TRUE].whole
  BY DEF TypeOK, Frame
<1>3. \A m : m \in Committed' <=> \E f \in journal : m \in f.cmds
  <2>1. ASSUME NEW m, m \in Committed' PROVE \E f \in journal : m \in f.cmds
    <3>1. PICK g \in journal' : m \in g.cmds
      BY <2>1, CommittedIs
    <3>2. PICK f \in journal : g = [f EXCEPT !.whole = TRUE]
      BY <1>1
    <3> QED
      BY <1>2, <3>1, <3>2
  <2>2. ASSUME NEW f \in journal, NEW m \in f.cmds PROVE m \in Committed'
    <3>1. [f EXCEPT !.whole = TRUE] \in journal'
      BY <1>1
    <3> QED
      BY <1>2, <3>1, CommittedIs
  <2> QED
    BY <2>1, <2>2
<1>4. \A f \in journal : f.whole \/ f.cmds = active.cmds
  BY DEF FramesInv, TornInv
<1>5. active.cmds = {} \/ \E f \in journal : f.cmds = active.cmds
  BY DEF ExecCommitted, FramesInv, TornInv
<1> QED
  BY <1>3, <1>4, <1>5, CommittedIs

\* The journal stays as recovery sees it, but for a single write that appends its
\* frame and for an EXEC that completes its own.
LEMMA CommittedStep ==
  ASSUME TypeOK, GateInv, FramesInv, [Next]_vars
  PROVE  \/ \A m : m \in Committed' <=> m \in Committed
         \/ \E c \in Client, k \in Key :
              /\ WriteAppend(c, k) /\ arg'[c] = [id |-> nextId, key |-> k]
              /\ \A m : m \in Committed' <=> m \in Committed \/ m = [id |-> nextId, key |-> k]
         \/ \E c \in Client :
              /\ ExecCommitted(c)
              /\ \A m : m \in Committed' <=> m \in Committed \/ m \in active.cmds
<1> DEFINE Same == \A m : m \in Committed' <=> m \in Committed
<1>1. ASSUME journal' = journal PROVE Same
  BY <1>1, CommittedIs
<1>2. ASSUME journal' = {f \in journal : f.whole} PROVE Same
  BY <1>2, CommittedIs
<1>3. ASSUME NEW c \in Client, NEW k \in Key, WriteAppend(c, k), journal' # journal
      PROVE  /\ arg'[c] = [id |-> nextId, key |-> k]
             /\ \A m : m \in Committed' <=> m \in Committed \/ m = [id |-> nextId, key |-> k]
  <2>1. /\ arg' = [arg EXCEPT ![c] = [id |-> nextId, key |-> k]]
        /\ journal' = journal \cup {[cmds |-> {arg'[c]}, whole |-> TRUE]}
    BY <1>3 DEF WriteAppend
  <2>2. arg'[c] = [id |-> nextId, key |-> k]
    BY <2>1 DEF TypeOK
  <2> DEFINE g == [cmds |-> {[id |-> nextId, key |-> k]}, whole |-> TRUE]
  <2>3. journal' = journal \cup {g}
    BY <2>1, <2>2
  <2>4. g.whole /\ \A m : m \in g.cmds <=> m = [id |-> nextId, key |-> k]
    OBVIOUS
  <2> HIDE DEF g
  <2> QED
    BY <2>2, <2>3, <2>4, CommittedIs
<1>4. ASSUME NEW c \in Client, ExecAppend(c) PROVE Same
  BY <1>4, CommittedIs DEF ExecAppend, OneFrame
<1>5. ASSUME NEW c \in Client, ExecCommitted(c)
      PROVE  \A m : m \in Committed' <=> m \in Committed \/ m \in active.cmds
  BY <1>5, CommitsBuffer
<1> HIDE DEF Same
<1>6. ASSUME NEW c \in Client, NEW kind \in {"reading", "writing"}, Begin(c, kind)
      PROVE  Same
  BY <1>6, <1>1 DEF Begin
<1>7. ASSUME NEW c \in Client, NEW k \in Key, Watch(c, k) PROVE Same
  BY <1>7, <1>1 DEF Watch
<1>8. ASSUME NEW c \in Client, Discard(c) PROVE Same
  BY <1>8, <1>1 DEF Discard
<1>9. ASSUME NEW c \in Client, NEW n \in 1..MaxQueue, ExecBegin(c, n) PROVE Same
  BY <1>9, <1>1 DEF ExecBegin
<1>10. ASSUME NEW c \in Client, EnterRead(c) PROVE Same
  BY <1>10, <1>1 DEF EnterRead
<1>11. ASSUME NEW c \in Client, NEW k \in Key, ReadKey(c, k) PROVE Same
  BY <1>11, <1>1 DEF ReadKey
<1>12. ASSUME NEW c \in Client, ReadReply(c) PROVE Same
  BY <1>12, <1>1 DEF ReadReply
<1>13. ASSUME NEW c \in Client, WriteApply(c) PROVE Same
  BY <1>13, <1>1 DEF WriteApply
<1>14. ASSUME NEW c \in Client, ExecBid(c) PROVE Same
  BY <1>14, <1>1 DEF ExecBid
<1>15. ASSUME NEW c \in Client, ExecEnter(c) PROVE Same
  BY <1>15, <1>1 DEF ExecEnter
<1>16. ASSUME NEW c \in Client, NEW k \in Key, ExecWrite(c, k) PROVE Same
  BY <1>16, <1>1 DEF ExecWrite
<1>17. ASSUME NEW c \in Client, NEW k \in Key, ExecApplyFails(c, k) PROVE Same
  BY <1>17, <1>1 DEF ExecApplyFails
<1>18. ASSUME NEW c \in Client, ExecRejected(c) PROVE Same
  BY <1>18, <1>1 DEF ExecRejected
<1>19. ASSUME NEW c \in Client, ExecCommitFails(c) PROVE Same
  BY <1>19, <1>2 DEF ExecCommitFails
<1>20. ASSUME NEW c \in Client, ExecUnwinds(c) PROVE Same
  BY <1>20, <1>1 DEF ExecUnwinds
<1>21. ASSUME NEW c \in Client, ExecWake(c) PROVE Same
  BY <1>21, <1>1 DEF ExecWake
<1>22. ASSUME FsyncFails PROVE Same
  BY <1>22, <1>1 DEF FsyncFails
<1>23. ASSUME SaveBegin PROVE Same
  BY <1>23, <1>1 DEF SaveBegin
<1>24. ASSUME SaveEnter PROVE Same
  BY <1>24, <1>1 DEF SaveEnter
<1>25. ASSUME Capture PROVE Same
  BY <1>25, <1>1 DEF Capture
<1>26. ASSUME Crash PROVE Same
  BY <1>26, <1>2 DEF Crash
<1>27. ASSUME Recover PROVE Same
  BY <1>27, <1>1 DEF Recover
<1>28. ASSUME UNCHANGED vars PROVE Same
  BY <1>28, <1>1 DEF vars
<1> QED
  BY <1>1, <1>3, <1>4, <1>5, <1>6, <1>7, <1>8, <1>9, <1>10, <1>11, <1>12, <1>13, <1>14,
    <1>15, <1>16, <1>17, <1>18, <1>19, <1>20, <1>21, <1>22, <1>23, <1>24, <1>25, <1>26,
    <1>27, <1>28
  DEF Next, ClientStep, SaverStep, Same

-----------------------------------------------------------------------------
(* Memory                                                                  *)

\* A journal with the same complete frames rebuilds the same.
LEMMA SameJournal ==
  ASSUME journal' = journal \/ journal' = {f \in journal : f.whole}
  PROVE  \A m : m \in Committed' <=> m \in Committed
  BY CommittedIs

\* The same complete frames rebuild the same contents of every key.
LEMMA SameCommitted ==
  ASSUME \A m : m \in Committed' <=> m \in Committed, NEW k
  PROVE  CommittedOf(k)' = CommittedOf(k)
<1>1. ASSUME NEW i PROVE i \in CommittedOf(k)' <=> i \in CommittedOf(k)
  BY CommittedOfIs
<1> QED
  BY <1>1

\* Commands that are not recorded yet have numbers that the journal does not know.
LEMMA FreshNumber ==
  ASSUME TypeOK, NumbersInv, NEW k
  PROVE  nextId \notin CommittedOf(k) /\ nextId \in Nat
<1>1. \A m \in Committed : m.id < nextId /\ m.id \in Nat
  BY CommittedIs, CmdTypes DEF NumbersInv, Cmd
<1>2. nextId \in Nat
  BY DEF TypeOK
<1> QED
  BY <1>1, <1>2, CommittedOfIs

\* Exact, element by element.
LEMMA ExactIs ==
  ASSUME TypeOK
  PROVE  Exact <=> \A k \in Key : \A i :
           i \in mem[k] <=> (i \in CommittedOf(k) /\ i \notin Pending(k)) \/ i \in Buffered(k)
  BY DEF Exact, TypeOK

\* The same after a step.
LEMMA ExactNext ==
  ASSUME TypeOK',
         \A k \in Key : \A i :
           i \in mem'[k] <=> (i \in CommittedOf(k)' /\ i \notin Pending(k)') \/ i \in Buffered(k)'
  PROVE  Exact'
  BY DEF Exact, TypeOK

\* A step after which nobody trusts memory, or that changes nothing of it.
LEMMA MemQuiet ==
  ASSUME TypeOK, TypeOK', MemInv,
         Trusted' => /\ Trusted /\ mem' = mem /\ active' = active
                     /\ \A m : m \in Committed' <=> m \in Committed
                     /\ \A d \in Client : arg'[d] = arg[d]
  PROVE  MemInv'
<1> SUFFICES ASSUME Trusted' PROVE Exact'
  BY DEF MemInv
<1>1. Exact
  BY DEF MemInv
<1>2. ASSUME NEW k \in Key, NEW i
      PROVE  /\ i \in CommittedOf(k)' <=> i \in CommittedOf(k)
             /\ i \in Pending(k)' <=> i \in Pending(k)
             /\ i \in Buffered(k)' <=> i \in Buffered(k)
  <2>1. CommittedOf(k)' = CommittedOf(k)
    BY SameCommitted
  <2> QED
    BY <2>1, PendingIs, BufferedIs
<1>3. ASSUME NEW k \in Key, NEW i
      PROVE  i \in mem'[k] <=> (i \in CommittedOf(k)' /\ i \notin Pending(k)') \/ i \in Buffered(k)'
  BY <1>1, <1>2, ExactIs
<1> QED
  BY <1>3, ExactNext

\* While it is trusted, every step keeps memory equal to what the journal rebuilds.
LEMMA NextMem ==
  ASSUME TypeOK, TypeOK', GateInv, NumbersInv, FramesInv, MemInv, [Next]_vars
  PROVE  MemInv'
<1>1. ASSUME NEW c \in Client, NEW kind \in {"reading", "writing"}, Begin(c, kind)
      PROVE  MemInv'
  <2>1. /\ UNCHANGED <<mem, active, journal, arg>> /\ (Trusted' => Trusted)
    BY <1>1, ClientAssumption
    DEF Begin, Room, gateVars, watchVars, saverVars, Trusted, TypeOK
  <2> QED
    BY <2>1, SameJournal, MemQuiet
<1>2. ASSUME NEW c \in Client, NEW k \in Key, Watch(c, k) PROVE MemInv'
  <2>1. /\ UNCHANGED <<mem, active, journal, arg>> /\ (Trusted' => Trusted)
    BY <1>2, ClientAssumption
    DEF Watch, gateVars, clientVars, saverVars, Trusted, TypeOK
  <2> QED
    BY <2>1, SameJournal, MemQuiet
<1>3. ASSUME NEW c \in Client, Discard(c) PROVE MemInv'
  <2>1. /\ UNCHANGED <<mem, active, journal, arg>> /\ (Trusted' => Trusted)
    BY <1>3, ClientAssumption DEF Discard, ClearTx, gateVars, saverVars, Trusted, TypeOK
  <2> QED
    BY <2>1, SameJournal, MemQuiet
<1>4. ASSUME NEW c \in Client, NEW n \in 1..MaxQueue, ExecBegin(c, n) PROVE MemInv'
  <2>1. /\ UNCHANGED <<mem, active, journal, arg>> /\ (Trusted' => Trusted)
    BY <1>4, ClientAssumption
    DEF ExecBegin, gateVars, watchVars, saverVars, Trusted, TypeOK
  <2> QED
    BY <2>1, SameJournal, MemQuiet
<1>5. ASSUME NEW c \in Client, EnterRead(c) PROVE MemInv'
  <2>1. /\ UNCHANGED <<mem, active, journal, arg>> /\ (Trusted' => Trusted)
    BY <1>5 DEF EnterRead, HealthyInside, Trusted, TypeOK
  <2> QED
    BY <2>1, SameJournal, MemQuiet
<1>6. ASSUME NEW c \in Client, NEW k \in Key, ReadKey(c, k) PROVE MemInv'
  <2>1. /\ UNCHANGED <<mem, active, journal, arg>> /\ (Trusted' => Trusted)
    BY <1>6, ClientAssumption
    DEF ReadKey, gateVars, watchVars, saverVars, Trusted, TypeOK
  <2> QED
    BY <2>1, SameJournal, MemQuiet
<1>7. ASSUME NEW c \in Client, ReadReply(c) PROVE MemInv'
  <2>1. UNCHANGED <<mem, active, journal>> /\ (Trusted' => Trusted)
    BY <1>7 DEF ReadReply, Leave, Trusted
  <2>2. \A d \in Client : arg'[d] = arg[d]
    BY <1>7 DEF ReadReply, Leave, GateInv, TypeOK
  <2> QED
    BY <2>1, <2>2, SameJournal, MemQuiet
<1>8. ASSUME NEW c \in Client, NEW k \in Key, WriteAppend(c, k) PROVE MemInv'
  <2> DEFINE a == [id |-> nextId, key |-> k]
  <2>1. CASE journal' = journal
    <3>1. UNCHANGED <<mem, active>> /\ (Trusted' => Trusted)
      BY <1>8 DEF WriteAppend, Leave, Fault, NoFault, Trusted, TypeOK
    <3>2. \A d \in Client : arg'[d] = arg[d]
      <4>1. CASE Leave(c)
        BY <1>8, <4>1 DEF WriteAppend, Leave, TypeOK
      <4>2. CASE arg' = [arg EXCEPT ![c] = a]
                 /\ journal' = journal \cup {[cmds |-> {arg'[c]}, whole |-> TRUE]}
        <5>1. arg'[c] = a
          BY <4>2 DEF TypeOK
        <5>2. [cmds |-> {a}, whole |-> TRUE] \in journal
          BY <2>1, <4>2, <5>1
        <5>3. a.id < nextId /\ nextId \in Nat
          <6>1. nextId \in Nat
            BY DEF TypeOK
          <6>2. a \in [cmds |-> {a}, whole |-> TRUE].cmds
            OBVIOUS
          <6> QED
            BY <5>2, <6>1, <6>2 DEF NumbersInv
        <5> QED
          BY <5>3
      <4> QED
        BY <1>8, <4>1, <4>2 DEF WriteAppend
    <3> QED
      BY <2>1, <3>1, <3>2, SameJournal, MemQuiet
  <2>2. CASE journal' # journal
    <3>1. /\ UNCHANGED <<mem, active, up, poisoned, readers>> /\ arg' = [arg EXCEPT ![c] = a]
          /\ journal' = journal \cup {[cmds |-> {arg'[c]}, whole |-> TRUE]} /\ arg[c] = NoCmd
      BY <1>8, <2>2 DEF WriteAppend
    <3>2. arg'[c] = a /\ a # NoCmd /\ \A d \in Client : d # c => arg'[d] = arg[d]
      BY <3>1 DEF TypeOK, NoCmd
    <3>3. \A m : m \in Committed' <=> m \in Committed \/ m = a
      <4> DEFINE g == [cmds |-> {a}, whole |-> TRUE]
      <4>1. journal' = journal \cup {g}
        BY <3>1, <3>2
      <4>2. g.whole /\ \A m : m \in g.cmds <=> m = a
        OBVIOUS
      <4> HIDE DEF g
      <4> QED
        BY <4>1, <4>2, CommittedIs
    <3> SUFFICES ASSUME Trusted' PROVE Exact'
      BY DEF MemInv
    <3>4. Exact
      BY <3>1 DEF MemInv, Trusted
    <3>5. ASSUME NEW j \in Key, NEW i
          PROVE  i \in mem'[j] <=>
                   (i \in CommittedOf(j)' /\ i \notin Pending(j)') \/ i \in Buffered(j)'
      <4>1. i \in mem[j] <=> (i \in CommittedOf(j) /\ i \notin Pending(j)) \/ i \in Buffered(j)
        BY <3>4, ExactIs
      <4>2. i \in CommittedOf(j)' <=> i \in CommittedOf(j) \/ (j = k /\ i = nextId)
        <5>1. a.key = k /\ a.id = nextId
          OBVIOUS
        <5> HIDE DEF a
        <5> QED
          BY <3>3, <5>1, CommittedOfIs
      <4>3. i \in Pending(j)' <=> i \in Pending(j) \/ (j = k /\ i = nextId)
        BY <3>1, <3>2, PendingIs
      <4>4. i \in Buffered(j)' <=> i \in Buffered(j)
        BY <3>1, BufferedIs
      <4>5. nextId \notin CommittedOf(j)
        BY FreshNumber
      <4> QED
        BY <3>1, <4>1, <4>2, <4>3, <4>4, <4>5
    <3> QED
      BY <3>5, ExactNext
  <2> QED
    BY <2>1, <2>2
<1>9. ASSUME NEW c \in Client, WriteApply(c) PROVE MemInv'
  <2>1. /\ mem' = [mem EXCEPT ![arg[c].key] = mem[arg[c].key] \cup {arg[c].id}] /\ arg[c] # NoCmd
        /\ arg' = [arg EXCEPT ![c] = NoCmd] /\ UNCHANGED <<active, journal>>
        /\ (Trusted' => Trusted)
    BY <1>9 DEF WriteApply, Leave, Trusted
  <2>2. arg'[c] = NoCmd /\ \A d \in Client : d # c => arg'[d] = arg[d]
    BY <2>1 DEF TypeOK
  <2>3. arg[c] \in Committed
    <3> DEFINE g == [cmds |-> {arg[c]}, whole |-> TRUE]
    <3>1. g \in journal
      BY <2>1 DEF FramesInv, PendingInv
    <3>2. g.whole /\ arg[c] \in g.cmds
      OBVIOUS
    <3> HIDE DEF g
    <3> QED
      BY <3>1, <3>2, CommittedIs
  <2> SUFFICES ASSUME Trusted' PROVE Exact'
    BY DEF MemInv
  <2>4. Exact
    BY <2>1 DEF MemInv
  <2>5. ASSUME NEW j \in Key, NEW i
        PROVE  i \in mem'[j] <=>
                 (i \in CommittedOf(j)' /\ i \notin Pending(j)') \/ i \in Buffered(j)'
    <3>1. i \in mem[j] <=> (i \in CommittedOf(j) /\ i \notin Pending(j)) \/ i \in Buffered(j)
      BY <2>4, ExactIs
    <3>2. i \in CommittedOf(j)' <=> i \in CommittedOf(j)
      BY <2>1, SameJournal, SameCommitted
    <3>3. i \in Buffered(j)' <=> i \in Buffered(j)
      BY <2>1, BufferedIs
    <3>4. i \in Pending(j)' <=> i \in Pending(j) /\ ~(j = arg[c].key /\ i = arg[c].id)
      <4>1. \A d \in Client : arg[d] # NoCmd /\ arg[d].id = arg[c].id => d = c
        BY <2>1 DEF FramesInv, PendingInv
      <4>2. ASSUME i \in Pending(j)' PROVE i \in Pending(j) /\ ~(j = arg[c].key /\ i = arg[c].id)
        <5>1. PICK d \in Client : arg'[d] # NoCmd /\ arg'[d].key = j /\ arg'[d].id = i
          BY <4>2, PendingIs
        <5>2. d # c /\ arg'[d] = arg[d]
          BY <2>2, <5>1
        <5> QED
          BY <4>1, <5>1, <5>2, PendingIs
      <4>3. ASSUME i \in Pending(j), ~(j = arg[c].key /\ i = arg[c].id) PROVE i \in Pending(j)'
        <5>1. PICK d \in Client : arg[d] # NoCmd /\ arg[d].key = j /\ arg[d].id = i
          BY <4>3, PendingIs
        <5>2. d # c
          BY <4>3, <5>1
        <5>3. arg'[d] = arg[d]
          BY <2>2, <5>2
        <5> QED
          BY <5>1, <5>3, PendingIs
      <4> QED
        BY <4>2, <4>3
    <3>5. i \in mem'[j] <=> i \in mem[j] \/ (j = arg[c].key /\ i = arg[c].id)
      BY <2>1 DEF TypeOK
    <3>6. j = arg[c].key /\ i = arg[c].id => i \in CommittedOf(j)
      BY <2>3, CommittedOfIs
    <3>7. j = arg[c].key /\ i = arg[c].id => i \in Pending(j)
      BY <2>1, PendingIs
    <3> QED
      BY <3>1, <3>2, <3>3, <3>4, <3>5, <3>6, <3>7
  <2> QED
    BY <2>5, ExactNext
<1>10. ASSUME NEW c \in Client, ExecBid(c) PROVE MemInv'
  <2>1. /\ UNCHANGED <<mem, active, journal, arg>> /\ (Trusted' => Trusted)
    BY <1>10, ClientAssumption
    DEF ExecBid, clientVars, watchVars, saverVars, Trusted, TypeOK
  <2> QED
    BY <2>1, SameJournal, MemQuiet
<1>11. ASSUME NEW c \in Client, ExecEnter(c) PROVE MemInv'
  <2>1. active = NoExec
    BY <1>11 DEF ExecEnter, GateInv, Inside
  <2>2. /\ UNCHANGED <<mem, active, journal, arg>> /\ (Trusted' => Trusted)
    BY <1>11, <2>1 DEF ExecEnter, Trusted
  <2> QED
    BY <2>2, SameJournal, MemQuiet
<1>12. ASSUME NEW c \in Client, NEW k \in Key, ExecWrite(c, k) PROVE MemInv'
  <2> DEFINE a == [id |-> nextId, key |-> k]
  <2>1. /\ mem' = [mem EXCEPT ![k] = mem[k] \cup {nextId}] /\ up /\ ~poisoned
        /\ active'.cmds = active.cmds \cup {a} /\ UNCHANGED <<journal, arg>>
    BY <1>12 DEF ExecWrite, EventDeferred
  <2>2. Exact
    BY <2>1 DEF MemInv, Trusted
  <2>3. ASSUME NEW j \in Key, NEW i
        PROVE  i \in mem'[j] <=>
                 (i \in CommittedOf(j)' /\ i \notin Pending(j)') \/ i \in Buffered(j)'
    <3>1. i \in mem[j] <=> (i \in CommittedOf(j) /\ i \notin Pending(j)) \/ i \in Buffered(j)
      BY <2>2, ExactIs
    <3>2. i \in CommittedOf(j)' <=> i \in CommittedOf(j)
      BY <2>1, SameJournal, SameCommitted
    <3>3. i \in Pending(j)' <=> i \in Pending(j)
      BY <2>1, PendingIs
    <3>4. i \in Buffered(j)' <=> i \in Buffered(j) \/ (j = k /\ i = nextId)
      <4>1. a.key = k /\ a.id = nextId
        OBVIOUS
      <4> HIDE DEF a
      <4> QED
        BY <2>1, <4>1, BufferedIs
    <3>5. i \in mem'[j] <=> i \in mem[j] \/ (j = k /\ i = nextId)
      BY <2>1 DEF TypeOK
    <3> QED
      BY <3>1, <3>2, <3>3, <3>4, <3>5
  <2> QED
    BY <2>3, ExactNext DEF MemInv
<1>13. ASSUME NEW c \in Client, NEW k \in Key, ExecApplyFails(c, k) PROVE MemInv'
  <2>1. UNCHANGED readers /\ poisoned' = TRUE /\ Inside(c)
    BY <1>13 DEF ExecApplyFails, Fault, Queued, gateVars, watchVars, saverVars, Inside
  <2>2. ~Trusted'
    BY <2>1 DEF GateInv, Trusted
  <2> QED
    BY <2>2 DEF MemInv
<1>14. ASSUME NEW c \in Client, ExecRejected(c) PROVE MemInv'
  <2>1. /\ UNCHANGED <<mem, active, journal, arg>> /\ (Trusted' => Trusted)
    BY <1>14, ClientAssumption
    DEF ExecRejected, Queued, gateVars, watchVars, saverVars, Trusted, TypeOK
  <2> QED
    BY <2>1, SameJournal, MemQuiet
<1>15. ASSUME NEW c \in Client, ExecAppend(c) PROVE MemInv'
  <2>1. /\ UNCHANGED <<mem, active, arg>> /\ (Trusted' => Trusted)
    BY <1>15 DEF ExecAppend, gateVars, Trusted
  <2>2. \A m : m \in Committed' <=> m \in Committed
    BY <1>15, CommittedIs DEF ExecAppend, OneFrame
  <2> QED
    BY <2>1, <2>2, MemQuiet
<1>16. ASSUME NEW c \in Client, ExecCommitted(c) PROVE MemInv'
  <2>1. Inside(c) /\ active' = NoExec /\ UNCHANGED <<mem, arg, up, poisoned, readers>>
    BY <1>16 DEF ExecCommitted, Inside
  <2>2. readers = {} /\ \A d \in Client : arg[d] = NoCmd
    BY <2>1 DEF GateInv
  <2>3. \A m : m \in Committed' <=> m \in Committed \/ m \in active.cmds
    BY <1>16, CommitsBuffer
  <2> SUFFICES ASSUME Trusted' PROVE Exact'
    BY DEF MemInv
  <2>4. Exact
    BY <2>1 DEF MemInv, Trusted
  <2>5. ASSUME NEW j \in Key, NEW i
        PROVE  i \in mem'[j] <=>
                 (i \in CommittedOf(j)' /\ i \notin Pending(j)') \/ i \in Buffered(j)'
    <3>1. i \in mem[j] <=> (i \in CommittedOf(j) /\ i \notin Pending(j)) \/ i \in Buffered(j)
      BY <2>4, ExactIs
    <3>2. i \in CommittedOf(j)' <=> i \in CommittedOf(j) \/ i \in Buffered(j)
      BY <2>3, CommittedOfIs, BufferedIs
    <3>3. i \notin Pending(j) /\ i \notin Pending(j)'
      BY <2>1, <2>2, PendingIs
    <3>4. i \notin Buffered(j)'
      BY <2>1, BufferedIs DEF NoExec
    <3> QED
      BY <2>1, <3>1, <3>2, <3>3, <3>4
  <2> QED
    BY <2>5, ExactNext
<1>17. ASSUME NEW c \in Client, ExecCommitFails(c) PROVE MemInv'
  <2>1. UNCHANGED readers /\ poisoned' = TRUE /\ Inside(c)
    BY <1>17
    DEF ExecCommitFails, Queued, Fault, NoFault, CommitFailureFences, ReleaseExec,
      ClearTx, saverVars, Inside
  <2>2. ~Trusted'
    BY <2>1 DEF GateInv, Trusted
  <2> QED
    BY <2>2 DEF MemInv
<1>18. ASSUME NEW c \in Client, ExecUnwinds(c) PROVE MemInv'
  <2>1. /\ UNCHANGED <<mem, journal, arg, up, readers>> /\ active' = NoExec /\ Inside(c)
        /\ poisoned' = (poisoned \/ active # NoExec)
    BY <1>18 DEF ExecUnwinds, Inside
  <2>2. readers = {}
    BY <2>1 DEF GateInv
  <2>3. Trusted' => (Trusted /\ active' = active)
    BY <2>1, <2>2 DEF Trusted
  <2> QED
    BY <2>1, <2>3, SameJournal, MemQuiet
<1>19. ASSUME NEW c \in Client, ExecWake(c) PROVE MemInv'
  <2>1. /\ UNCHANGED <<mem, active, journal, arg>> /\ (Trusted' => Trusted)
    BY <1>19, ClientAssumption
    DEF ExecWake, SharedFree, gateVars, watchVars, saverVars, Trusted, TypeOK
  <2> QED
    BY <2>1, SameJournal, MemQuiet
<1>20. ASSUME FsyncFails PROVE MemInv'
  <2>1. /\ UNCHANGED <<mem, active, journal, arg>> /\ (Trusted' => Trusted)
    BY <1>20, ClientAssumption
    DEF FsyncFails, Fault, gateVars, clientVars, watchVars, saverVars, Trusted, TypeOK
  <2> QED
    BY <2>1, SameJournal, MemQuiet
<1>21. ASSUME SaveBegin PROVE MemInv'
  <2>1. /\ UNCHANGED <<mem, active, journal, arg>> /\ (Trusted' => Trusted)
    BY <1>21, ClientAssumption
    DEF SaveBegin, gateVars, clientVars, watchVars, Trusted, TypeOK
  <2> QED
    BY <2>1, SameJournal, MemQuiet
<1>22. ASSUME SaveEnter PROVE MemInv'
  <2>1. /\ UNCHANGED <<mem, active, journal, arg>> /\ (Trusted' => Trusted)
    BY <1>22, ClientAssumption
    DEF SaveEnter, SharedFree, clientVars, watchVars, Trusted, TypeOK
  <2> QED
    BY <2>1, SameJournal, MemQuiet
<1>23. ASSUME Capture PROVE MemInv'
  <2>1. /\ UNCHANGED <<mem, active, journal, arg>> /\ (Trusted' => Trusted)
    BY <1>23, ClientAssumption
    DEF Capture, CaptureHealthy, clientVars, watchVars, Trusted, TypeOK
  <2> QED
    BY <2>1, SameJournal, MemQuiet
<1>24. ASSUME Crash PROVE MemInv'
  <2>1. ~Trusted'
    BY <1>24 DEF Crash, Trusted
  <2> QED
    BY <2>1 DEF MemInv
<1>25. ASSUME Recover PROVE MemInv'
  <2>1. /\ readers = {} /\ \A d \in Client : arg[d] = NoCmd
        /\ active = NoExec
    BY <1>25 DEF Recover, GateInv, Inside
  <2>2. UNCHANGED <<journal, arg, active>> /\ mem' = [k \in Key |-> CommittedOf(k)]
    BY <1>25 DEF Recover, clientVars
  <2>3. ASSUME NEW j \in Key, NEW i
        PROVE  i \in mem'[j] <=>
                 (i \in CommittedOf(j)' /\ i \notin Pending(j)') \/ i \in Buffered(j)'
    <3>1. i \in CommittedOf(j)' <=> i \in CommittedOf(j)
      BY <2>2, SameJournal, SameCommitted
    <3>2. i \notin Pending(j)' /\ i \notin Buffered(j)'
      BY <2>1, <2>2, PendingIs, BufferedIs DEF NoExec
    <3> QED
      BY <2>2, <3>1, <3>2
  <2> QED
    BY <2>3, ExactNext DEF MemInv
<1>26. CASE UNCHANGED vars
  <2>1. UNCHANGED <<mem, active, journal, arg>> /\ (Trusted' => Trusted)
    BY <1>26 DEF vars, Trusted
  <2> QED
    BY <2>1, SameJournal, MemQuiet
<1> QED
  BY <1>1, <1>2, <1>3, <1>4, <1>5, <1>6, <1>7, <1>8, <1>9, <1>10, <1>11, <1>12, <1>13,
    <1>14, <1>15, <1>16, <1>17, <1>18, <1>19, <1>20, <1>21, <1>22, <1>23, <1>24, <1>25,
    <1>26
  DEF Next, ClientStep, SaverStep

-----------------------------------------------------------------------------
(* Reads, snapshots, key events and WATCH                                  *)

\* A client inside the gate, or a capture, sees memory without a running EXEC.
LEMMA InsideExact ==
  ASSUME TypeOK, GateInv, MemInv, readers # {}, Trusted, NEW k \in Key, NEW i
  PROVE  i \in mem[k] <=> i \in CommittedOf(k) /\ i \notin Pending(k)
<1>1. active = NoExec
  BY DEF GateInv
<1>2. i \notin Buffered(k)
  BY <1>1, BufferedIs DEF NoExec
<1>3. Exact
  BY DEF MemInv
<1> QED
  BY <1>2, <1>3, ExactIs

\* So it has of every transaction what the journal has.
LEMMA InsideBatch ==
  ASSUME TypeOK, GateInv, FramesInv, MemInv, readers # {}, Trusted,
         NEW b \in batches, NEW m \in b
  PROVE  m.id \in mem[m.key] <=> m \in Committed
<1>1. m \in Cmd /\ m.key \in Key
  BY CmdTypes DEF Cmd
<1>2. m.id \in CommittedOf(m.key) <=> m \in Committed
  BY <1>1, CmdTypes, CommittedOfIs
<1>3. m.id \notin Pending(m.key)
  <2>1. SUFFICES ASSUME m.id \in Pending(m.key) PROVE FALSE
    OBVIOUS
  <2>2. PICK d \in Client : arg[d] # NoCmd /\ arg[d].key = m.key /\ arg[d].id = m.id
    BY <2>1, PendingIs
  <2>3. arg[d] = m
    BY <1>1, <2>2, CmdTypes
  <2> QED
    BY <2>2, <2>3 DEF FramesInv, PendingInv
<1> QED
  BY <1>1, <1>2, <1>3, InsideExact

\* Commits only add to what the journal rebuilds.
LEMMA CommittedGrows ==
  ASSUME TypeOK, GateInv, FramesInv, [Next]_vars
  PROVE  /\ \A m \in Committed : m \in Committed'
         /\ \A k : CommittedOf(k) \subseteq CommittedOf(k)'
<1>1. \A m \in Committed : m \in Committed'
  BY CommittedStep
<1>2. ASSUME NEW k, NEW i \in CommittedOf(k) PROVE i \in CommittedOf(k)'
  BY <1>1, CommittedOfIs
<1> QED
  BY <1>1, <1>2

\* While somebody is inside the gate shared, no batch appears and none commits.
LEMMA BatchesFixed ==
  ASSUME TypeOK, GateInv, NumbersInv, FramesInv, [Next]_vars, readers # {}
  PROVE  /\ batches' = batches
         /\ \A b \in batches : \A m \in b : m \in Committed' <=> m \in Committed
<1>1. \A c \in Client : ~Inside(c)
  BY DEF GateInv
<1>2. \A c \in Client : ~ExecAppend(c) /\ ~ExecCommitted(c)
  BY <1>1 DEF ExecAppend, ExecCommitted, Inside
<1>3. batches' = batches
  <2>1. ASSUME NEW c \in Client, NEW kind \in {"reading", "writing"}, Begin(c, kind)
        PROVE  batches' = batches
    BY <2>1 DEF Begin
  <2>2. ASSUME NEW c \in Client, NEW k \in Key, Watch(c, k) PROVE batches' = batches
    BY <2>2 DEF Watch
  <2>3. ASSUME NEW c \in Client, Discard(c) PROVE batches' = batches
    BY <2>3 DEF Discard
  <2>4. ASSUME NEW c \in Client, NEW n \in 1..MaxQueue, ExecBegin(c, n) PROVE batches' = batches
    BY <2>4 DEF ExecBegin
  <2>5. ASSUME NEW c \in Client, EnterRead(c) PROVE batches' = batches
    BY <2>5 DEF EnterRead
  <2>6. ASSUME NEW c \in Client, NEW k \in Key, ReadKey(c, k) PROVE batches' = batches
    BY <2>6 DEF ReadKey
  <2>7. ASSUME NEW c \in Client, ReadReply(c) PROVE batches' = batches
    BY <2>7 DEF ReadReply
  <2>8. ASSUME NEW c \in Client, NEW k \in Key, WriteAppend(c, k) PROVE batches' = batches
    BY <2>8 DEF WriteAppend
  <2>9. ASSUME NEW c \in Client, WriteApply(c) PROVE batches' = batches
    BY <2>9 DEF WriteApply
  <2>10. ASSUME NEW c \in Client, ExecBid(c) PROVE batches' = batches
    BY <2>10 DEF ExecBid
  <2>11. ASSUME NEW c \in Client, ExecEnter(c) PROVE batches' = batches
    BY <2>11 DEF ExecEnter
  <2>12. ASSUME NEW c \in Client, NEW k \in Key, ExecWrite(c, k) PROVE batches' = batches
    BY <2>12 DEF ExecWrite
  <2>13. ASSUME NEW c \in Client, NEW k \in Key, ExecApplyFails(c, k) PROVE batches' = batches
    BY <2>13 DEF ExecApplyFails
  <2>14. ASSUME NEW c \in Client, ExecRejected(c) PROVE batches' = batches
    BY <2>14 DEF ExecRejected
  <2>15. ASSUME NEW c \in Client, ExecAppend(c) PROVE batches' = batches
    BY <1>2, <2>15
  <2>16. ASSUME NEW c \in Client, ExecCommitted(c) PROVE batches' = batches
    BY <2>16 DEF ExecCommitted
  <2>17. ASSUME NEW c \in Client, ExecCommitFails(c) PROVE batches' = batches
    BY <2>17 DEF ExecCommitFails
  <2>18. ASSUME NEW c \in Client, ExecUnwinds(c) PROVE batches' = batches
    BY <2>18 DEF ExecUnwinds
  <2>19. ASSUME NEW c \in Client, ExecWake(c) PROVE batches' = batches
    BY <2>19 DEF ExecWake
  <2>20. ASSUME FsyncFails PROVE batches' = batches
    BY <2>20 DEF FsyncFails
  <2>21. ASSUME SaveBegin PROVE batches' = batches
    BY <2>21 DEF SaveBegin
  <2>22. ASSUME SaveEnter PROVE batches' = batches
    BY <2>22 DEF SaveEnter
  <2>23. ASSUME Capture PROVE batches' = batches
    BY <2>23 DEF Capture
  <2>24. ASSUME Crash PROVE batches' = batches
    BY <2>24 DEF Crash
  <2>25. ASSUME Recover PROVE batches' = batches
    BY <2>25 DEF Recover
  <2>26. ASSUME UNCHANGED vars PROVE batches' = batches
    BY <2>26 DEF vars
  <2> QED
    BY <2>1, <2>2, <2>3, <2>4, <2>5, <2>6, <2>7, <2>8, <2>9, <2>10, <2>11, <2>12, <2>13,
      <2>14, <2>15, <2>16, <2>17, <2>18, <2>19, <2>20, <2>21, <2>22, <2>23, <2>24,
      <2>25, <2>26
    DEF Next, ClientStep, SaverStep
<1>4. ASSUME NEW b \in batches, NEW m \in b PROVE m \in Committed' <=> m \in Committed
  <2>1. m.id < nextId /\ m.id \in Nat /\ nextId \in Nat
    BY CmdTypes DEF NumbersInv, Cmd, TypeOK
  <2>2. \A k : m # [id |-> nextId, key |-> k]
    BY <2>1
  <2> QED
    BY <1>2, <2>2, CommittedStep
<1> QED
  BY <1>3, <1>4

\* A step that adds nothing to what a read has collected.
LEMMA ReadQuiet ==
  ASSUME TypeOK, GateInv, NumbersInv, FramesInv, ReadInv, [Next]_vars,
         \A c \in Client : DOMAIN got'[c] # {} => got'[c] = got[c]
  PROVE  ReadInv'
<1> SUFFICES ASSUME NEW c \in Client, NEW k \in DOMAIN got'[c]
             PROVE  /\ got'[c][k] \subseteq CommittedOf(k)'
                    /\ \A b \in batches' : \A m \in b :
                         m.key = k => (m.id \in got'[c][k] <=> m \in Committed')
  BY DEF ReadInv
<1>1. got'[c] = got[c] /\ k \in DOMAIN got[c]
  OBVIOUS
<1>2. readers # {}
  BY <1>1 DEF GateInv
<1>3. got[c][k] \subseteq CommittedOf(k)'
  BY <1>1, CommittedGrows DEF ReadInv
<1> QED
  BY <1>1, <1>2, <1>3, BatchesFixed DEF ReadInv

\* Every step keeps what reads have collected true.
LEMMA NextRead ==
  ASSUME TypeOK, GateInv, NumbersInv, FramesInv, MemInv, ReadInv, [Next]_vars
  PROVE  ReadInv'
<1>1. ASSUME NEW c \in Client, NEW kind \in {"reading", "writing"}, Begin(c, kind)
      PROVE  ReadInv'
  <2>1. \A d \in Client : DOMAIN got'[d] # {} => got'[d] = got[d]
    BY <1>1 DEF Begin, TypeOK, Nothing
  <2> QED
    BY <2>1, ReadQuiet
<1>2. ASSUME NEW c \in Client, NEW k \in Key, Watch(c, k) PROVE ReadInv'
  <2>1. \A d \in Client : DOMAIN got'[d] # {} => got'[d] = got[d]
    BY <1>2 DEF Watch, clientVars, TypeOK, Nothing
  <2> QED
    BY <2>1, ReadQuiet
<1>3. ASSUME NEW c \in Client, Discard(c) PROVE ReadInv'
  <2>1. \A d \in Client : DOMAIN got'[d] # {} => got'[d] = got[d]
    BY <1>3 DEF Discard, TypeOK, Nothing
  <2> QED
    BY <2>1, ReadQuiet
<1>4. ASSUME NEW c \in Client, NEW n \in 1..MaxQueue, ExecBegin(c, n) PROVE ReadInv'
  <2>1. \A d \in Client : DOMAIN got'[d] # {} => got'[d] = got[d]
    BY <1>4 DEF ExecBegin, TypeOK, Nothing
  <2> QED
    BY <2>1, ReadQuiet
<1>5. ASSUME NEW c \in Client, EnterRead(c) PROVE ReadInv'
  <2>1. \A d \in Client : DOMAIN got'[d] # {} => got'[d] = got[d]
    BY <1>5 DEF EnterRead, TypeOK, Nothing
  <2> QED
    BY <2>1, ReadQuiet
<1>6. ASSUME NEW c \in Client, NEW k \in Key, ReadKey(c, k) PROVE ReadInv'
  <2>1. /\ pc[c] = "reading" /\ c \in readers /\ UNCHANGED <<mem, journal, batches>>
        /\ got' = [got EXCEPT ![c] = [j \in DOMAIN got[c] \cup {k} |->
                                        IF j = k THEN mem[k] ELSE got[c][j]]]
    BY <1>6 DEF ReadKey
  <2>2. readers # {} /\ Trusted
    BY <2>1 DEF Trusted
  <2>3. (\A m : m \in Committed' <=> m \in Committed) /\ \A j : CommittedOf(j)' = CommittedOf(j)
    BY <2>1, SameJournal, SameCommitted
  <2>4. /\ mem[k] \subseteq CommittedOf(k)
        /\ \A b \in batches : \A m \in b : m.key = k => (m.id \in mem[k] <=> m \in Committed)
    BY <2>2, InsideExact, InsideBatch
  <2>5. ASSUME NEW d \in Client, NEW j \in DOMAIN got'[d]
        PROVE  (j \in DOMAIN got[d] /\ got'[d][j] = got[d][j]) \/ (j = k /\ got'[d][j] = mem[k])
    BY <2>1, <2>5 DEF TypeOK
  <2> QED
    BY <2>1, <2>3, <2>4, <2>5 DEF ReadInv
<1>7. ASSUME NEW c \in Client, ReadReply(c) PROVE ReadInv'
  <2>1. \A d \in Client : DOMAIN got'[d] # {} => got'[d] = got[d]
    BY <1>7 DEF ReadReply, Leave, TypeOK, Nothing
  <2> QED
    BY <2>1, ReadQuiet
<1>8. ASSUME NEW c \in Client, NEW k \in Key, WriteAppend(c, k) PROVE ReadInv'
  <2>1. UNCHANGED got \/ got' = [got EXCEPT ![c] = Nothing]
    BY <1>8 DEF WriteAppend, Leave
  <2>2. \A d \in Client : DOMAIN got'[d] # {} => got'[d] = got[d]
    BY <2>1 DEF TypeOK, Nothing
  <2> QED
    BY <2>2, ReadQuiet
<1>9. ASSUME NEW c \in Client, WriteApply(c) PROVE ReadInv'
  <2>1. \A d \in Client : DOMAIN got'[d] # {} => got'[d] = got[d]
    BY <1>9 DEF WriteApply, Leave, TypeOK, Nothing
  <2> QED
    BY <2>1, ReadQuiet
<1>10. ASSUME NEW c \in Client, ExecBid(c) PROVE ReadInv'
  <2>1. \A d \in Client : DOMAIN got'[d] # {} => got'[d] = got[d]
    BY <1>10 DEF ExecBid, clientVars, TypeOK, Nothing
  <2> QED
    BY <2>1, ReadQuiet
<1>11. ASSUME NEW c \in Client, ExecEnter(c) PROVE ReadInv'
  <2>1. \A d \in Client : DOMAIN got'[d] # {} => got'[d] = got[d]
    BY <1>11 DEF ExecEnter, TypeOK, Nothing
  <2> QED
    BY <2>1, ReadQuiet
<1>12. ASSUME NEW c \in Client, NEW k \in Key, ExecWrite(c, k) PROVE ReadInv'
  <2>1. \A d \in Client : DOMAIN got'[d] # {} => got'[d] = got[d]
    BY <1>12 DEF ExecWrite, TypeOK, Nothing
  <2> QED
    BY <2>1, ReadQuiet
<1>13. ASSUME NEW c \in Client, NEW k \in Key, ExecApplyFails(c, k) PROVE ReadInv'
  <2>1. \A d \in Client : DOMAIN got'[d] # {} => got'[d] = got[d]
    BY <1>13 DEF ExecApplyFails, TypeOK, Nothing
  <2> QED
    BY <2>1, ReadQuiet
<1>14. ASSUME NEW c \in Client, ExecRejected(c) PROVE ReadInv'
  <2>1. \A d \in Client : DOMAIN got'[d] # {} => got'[d] = got[d]
    BY <1>14 DEF ExecRejected, TypeOK, Nothing
  <2> QED
    BY <2>1, ReadQuiet
<1>15. ASSUME NEW c \in Client, ExecAppend(c) PROVE ReadInv'
  <2>1. \A d \in Client : DOMAIN got'[d] # {} => got'[d] = got[d]
    BY <1>15 DEF ExecAppend, TypeOK, Nothing
  <2> QED
    BY <2>1, ReadQuiet
<1>16. ASSUME NEW c \in Client, ExecCommitted(c) PROVE ReadInv'
  <2>1. \A d \in Client : DOMAIN got'[d] # {} => got'[d] = got[d]
    BY <1>16 DEF ExecCommitted, TypeOK, Nothing
  <2> QED
    BY <2>1, ReadQuiet
<1>17. ASSUME NEW c \in Client, ExecCommitFails(c) PROVE ReadInv'
  <2>1. \A d \in Client : DOMAIN got'[d] # {} => got'[d] = got[d]
    BY <1>17 DEF ExecCommitFails, TypeOK, Nothing
  <2> QED
    BY <2>1, ReadQuiet
<1>18. ASSUME NEW c \in Client, ExecUnwinds(c) PROVE ReadInv'
  <2>1. \A d \in Client : DOMAIN got'[d] # {} => got'[d] = got[d]
    BY <1>18 DEF ExecUnwinds, TypeOK, Nothing
  <2> QED
    BY <2>1, ReadQuiet
<1>19. ASSUME NEW c \in Client, ExecWake(c) PROVE ReadInv'
  <2>1. \A d \in Client : DOMAIN got'[d] # {} => got'[d] = got[d]
    BY <1>19 DEF ExecWake, TypeOK, Nothing
  <2> QED
    BY <2>1, ReadQuiet
<1>20. ASSUME FsyncFails PROVE ReadInv'
  <2>1. \A d \in Client : DOMAIN got'[d] # {} => got'[d] = got[d]
    BY <1>20 DEF FsyncFails, clientVars, TypeOK, Nothing
  <2> QED
    BY <2>1, ReadQuiet
<1>21. ASSUME SaveBegin PROVE ReadInv'
  <2>1. \A d \in Client : DOMAIN got'[d] # {} => got'[d] = got[d]
    BY <1>21 DEF SaveBegin, clientVars, TypeOK, Nothing
  <2> QED
    BY <2>1, ReadQuiet
<1>22. ASSUME SaveEnter PROVE ReadInv'
  <2>1. \A d \in Client : DOMAIN got'[d] # {} => got'[d] = got[d]
    BY <1>22 DEF SaveEnter, clientVars, TypeOK, Nothing
  <2> QED
    BY <2>1, ReadQuiet
<1>23. ASSUME Capture PROVE ReadInv'
  <2>1. \A d \in Client : DOMAIN got'[d] # {} => got'[d] = got[d]
    BY <1>23 DEF Capture, clientVars, TypeOK, Nothing
  <2> QED
    BY <2>1, ReadQuiet
<1>24. ASSUME Crash PROVE ReadInv'
  <2>1. \A d \in Client : DOMAIN got'[d] # {} => got'[d] = got[d]
    BY <1>24 DEF Crash, TypeOK, Nothing
  <2> QED
    BY <2>1, ReadQuiet
<1>25. ASSUME Recover PROVE ReadInv'
  <2>1. \A d \in Client : DOMAIN got'[d] # {} => got'[d] = got[d]
    BY <1>25 DEF Recover, clientVars, TypeOK, Nothing
  <2> QED
    BY <2>1, ReadQuiet
<1>26. CASE UNCHANGED vars
  BY <1>26, ReadQuiet DEF vars
<1> QED
  BY <1>1, <1>2, <1>3, <1>4, <1>5, <1>6, <1>7, <1>8, <1>9, <1>10, <1>11, <1>12, <1>13,
    <1>14, <1>15, <1>16, <1>17, <1>18, <1>19, <1>20, <1>21, <1>22, <1>23, <1>24, <1>25,
    <1>26
  DEF Next, ClientStep, SaverStep

\* A step that leaves or clears what each client watches, and that increments the
\* version of a key whenever it changes its contents, unless it poisons the journal.
LEMMA WatchQuiet ==
  ASSUME TypeOK, WatchInv, up' \/ UNCHANGED <<up, watched>>, poisoned => poisoned',
         \A d \in Client : \/ watched'[d] = watched[d] /\ basis'[d] = basis[d]
                           \/ watched'[d] = Nothing /\ basis'[d] = Nothing,
         \A k \in Key : \/ ver'[k] = ver[k] /\ (mem'[k] = mem[k] \/ poisoned')
                        \/ ver'[k] = ver[k] + 1
  PROVE  WatchInv'
<1> SUFFICES ASSUME NEW d \in Client
             PROVE  /\ DOMAIN basis'[d] = DOMAIN watched'[d]
                    /\ ~up' => DOMAIN watched'[d] = {}
                    /\ \A k \in DOMAIN watched'[d] :
                         /\ watched'[d][k] <= ver'[k]
                         /\ ~poisoned' /\ watched'[d][k] = ver'[k] => mem'[k] = basis'[d][k]
  BY DEF WatchInv
<1>1. CASE watched'[d] = Nothing /\ basis'[d] = Nothing
  BY <1>1 DEF Nothing
<1>2. CASE watched'[d] = watched[d] /\ basis'[d] = basis[d]
  <2>1. DOMAIN basis'[d] = DOMAIN watched'[d] /\ (~up' => DOMAIN watched'[d] = {})
    BY <1>2 DEF WatchInv
  <2>2. ASSUME NEW k \in DOMAIN watched'[d]
        PROVE  /\ watched'[d][k] <= ver'[k]
               /\ ~poisoned' /\ watched'[d][k] = ver'[k] => mem'[k] = basis'[d][k]
    <3>1. k \in Key /\ watched[d][k] \in Nat /\ ver[k] \in Nat
      BY <1>2 DEF TypeOK, PartlyOn
    <3>2. /\ watched[d][k] <= ver[k]
          /\ ~poisoned /\ watched[d][k] = ver[k] => mem[k] = basis[d][k]
      BY <1>2 DEF WatchInv
    <3> QED
      BY <1>2, <3>1, <3>2
  <2> QED
    BY <2>1, <2>2
<1> QED
  BY <1>1, <1>2

\* Every step keeps the watched versions in step with the watched contents.
LEMMA NextWatch ==
  ASSUME TypeOK, WatchInv, [Next]_vars
  PROVE  WatchInv'
<1>1. ASSUME NEW c \in Client, NEW kind \in {"reading", "writing"}, Begin(c, kind)
      PROVE  WatchInv'
  <2>2. \A d \in Client : watched'[d] = watched[d] /\ basis'[d] = basis[d]
    BY <1>1 DEF Begin, watchVars
  <2>3. \A j \in Key : ver'[j] = ver[j] /\ mem'[j] = mem[j]
    BY <1>1 DEF Begin
  <2>4. up' /\ (poisoned => poisoned')
    BY <1>1 DEF Begin
  <2> QED
    BY <2>2, <2>3, <2>4, WatchQuiet
<1>2. ASSUME NEW c \in Client, NEW k \in Key, Watch(c, k) PROVE WatchInv'
  <2>1. /\ up' = up /\ up /\ UNCHANGED <<ver, mem, poisoned>>
        /\ watched' = [watched EXCEPT ![c] = [j \in DOMAIN watched[c] \cup {k} |->
                                                IF j = k THEN ver[k] ELSE watched[c][j]]]
        /\ basis' = [basis EXCEPT ![c] = [j \in DOMAIN basis[c] \cup {k} |->
                                            IF j = k THEN mem[k] ELSE basis[c][j]]]
    BY <1>2 DEF Watch
  <2>2. ASSUME NEW d \in Client
        PROVE  /\ DOMAIN basis'[d] = DOMAIN watched'[d]
               /\ ~up' => DOMAIN watched'[d] = {}
               /\ \A j \in DOMAIN watched'[d] :
                    /\ watched'[d][j] <= ver'[j]
                    /\ ~poisoned' /\ watched'[d][j] = ver'[j] => mem'[j] = basis'[d][j]
    <3>1. CASE d # c
      <4>1. watched'[d] = watched[d] /\ basis'[d] = basis[d]
        BY <2>1, <3>1 DEF TypeOK
      <4> QED
        BY <2>1, <4>1 DEF WatchInv
    <3>2. CASE d = c
      <4>1. /\ watched'[c] = [j \in DOMAIN watched[c] \cup {k} |->
                                IF j = k THEN ver[k] ELSE watched[c][j]]
            /\ basis'[c] = [j \in DOMAIN basis[c] \cup {k} |->
                              IF j = k THEN mem[k] ELSE basis[c][j]]
        BY <2>1 DEF TypeOK
      <4>2. DOMAIN basis[c] = DOMAIN watched[c]
        BY DEF WatchInv
      <4>3. ver[k] \in Nat /\ ver[k] <= ver[k]
        BY DEF TypeOK
      <4>4. DOMAIN basis'[c] = DOMAIN watched'[c] /\ up'
        BY <2>1, <4>1, <4>2
      <4>5. ASSUME NEW j \in DOMAIN watched'[c]
            PROVE  /\ watched'[c][j] <= ver'[j]
                   /\ ~poisoned' /\ watched'[c][j] = ver'[j] => mem'[j] = basis'[c][j]
        <5>1. CASE j = k
          BY <2>1, <4>1, <4>2, <4>3, <5>1
        <5>2. CASE j # k
          <6>1. /\ j \in DOMAIN watched[c] /\ j \in DOMAIN basis[c]
                /\ watched'[c][j] = watched[c][j] /\ basis'[c][j] = basis[c][j]
            BY <4>1, <4>2, <5>2
          <6> QED
            BY <2>1, <6>1 DEF WatchInv
        <5> QED
          BY <5>1, <5>2
      <4> QED
        BY <3>2, <4>4, <4>5
    <3> QED
      BY <3>1, <3>2
  <2> QED
    BY <2>2 DEF WatchInv
<1>3. ASSUME NEW c \in Client, Discard(c) PROVE WatchInv'
  <2>1. \/ watched' = watched /\ basis' = basis
        \/ watched' = [watched EXCEPT ![c] = Nothing] /\ basis' = [basis EXCEPT ![c] = Nothing]
    BY <1>3 DEF Discard, ClearTx, watchVars
  <2>2. \A d \in Client :
          \/ watched'[d] = watched[d] /\ basis'[d] = basis[d]
          \/ watched'[d] = Nothing /\ basis'[d] = Nothing
    BY <2>1 DEF TypeOK
  <2>3. \A j \in Key : ver'[j] = ver[j] /\ mem'[j] = mem[j]
    BY <1>3 DEF Discard
  <2>4. up' /\ (poisoned => poisoned')
    BY <1>3 DEF Discard
  <2> QED
    BY <2>2, <2>3, <2>4, WatchQuiet
<1>4. ASSUME NEW c \in Client, NEW n \in 1..MaxQueue, ExecBegin(c, n) PROVE WatchInv'
  <2>2. \A d \in Client : watched'[d] = watched[d] /\ basis'[d] = basis[d]
    BY <1>4 DEF ExecBegin, watchVars
  <2>3. \A j \in Key : ver'[j] = ver[j] /\ mem'[j] = mem[j]
    BY <1>4 DEF ExecBegin
  <2>4. up' /\ (poisoned => poisoned')
    BY <1>4 DEF ExecBegin
  <2> QED
    BY <2>2, <2>3, <2>4, WatchQuiet
<1>5. ASSUME NEW c \in Client, EnterRead(c) PROVE WatchInv'
  <2>2. \A d \in Client : watched'[d] = watched[d] /\ basis'[d] = basis[d]
    BY <1>5 DEF EnterRead, watchVars
  <2>3. \A j \in Key : ver'[j] = ver[j] /\ mem'[j] = mem[j]
    BY <1>5 DEF EnterRead
  <2>4. up' /\ (poisoned => poisoned')
    BY <1>5 DEF EnterRead
  <2> QED
    BY <2>2, <2>3, <2>4, WatchQuiet
<1>6. ASSUME NEW c \in Client, NEW k \in Key, ReadKey(c, k) PROVE WatchInv'
  <2>2. \A d \in Client : watched'[d] = watched[d] /\ basis'[d] = basis[d]
    BY <1>6 DEF ReadKey, watchVars
  <2>3. \A j \in Key : ver'[j] = ver[j] /\ mem'[j] = mem[j]
    BY <1>6 DEF ReadKey
  <2>4. up' /\ (poisoned => poisoned')
    BY <1>6 DEF ReadKey
  <2> QED
    BY <2>2, <2>3, <2>4, WatchQuiet
<1>7. ASSUME NEW c \in Client, ReadReply(c) PROVE WatchInv'
  <2>2. \A d \in Client : watched'[d] = watched[d] /\ basis'[d] = basis[d]
    BY <1>7 DEF ReadReply, watchVars
  <2>3. \A j \in Key : ver'[j] = ver[j] /\ mem'[j] = mem[j]
    BY <1>7 DEF ReadReply
  <2>4. up' /\ (poisoned => poisoned')
    BY <1>7 DEF ReadReply
  <2> QED
    BY <2>2, <2>3, <2>4, WatchQuiet
<1>8. ASSUME NEW c \in Client, NEW k \in Key, WriteAppend(c, k) PROVE WatchInv'
  <2>2. \A d \in Client : watched'[d] = watched[d] /\ basis'[d] = basis[d]
    BY <1>8 DEF WriteAppend, watchVars
  <2>3. \A j \in Key : ver'[j] = ver[j] /\ mem'[j] = mem[j]
    BY <1>8 DEF WriteAppend
  <2>4. up' /\ (poisoned' = poisoned \/ poisoned' = TRUE)
    BY <1>8 DEF WriteAppend
  <2> QED
    BY <2>2, <2>3, <2>4, WatchQuiet
<1>9. ASSUME NEW c \in Client, WriteApply(c) PROVE WatchInv'
  <2>2. \A d \in Client : watched'[d] = watched[d] /\ basis'[d] = basis[d]
    BY <1>9 DEF WriteApply, watchVars
  <2>3. \A j \in Key : \/ ver'[j] = ver[j] /\ (mem'[j] = mem[j] \/ poisoned')
                      \/ ver'[j] = ver[j] + 1
    BY <1>9 DEF WriteApply, VersionBumped, TypeOK
  <2>4. up' /\ (poisoned => poisoned')
    BY <1>9 DEF WriteApply
  <2> QED
    BY <2>2, <2>3, <2>4, WatchQuiet
<1>10. ASSUME NEW c \in Client, ExecBid(c) PROVE WatchInv'
  <2>2. \A d \in Client : watched'[d] = watched[d] /\ basis'[d] = basis[d]
    BY <1>10 DEF ExecBid, watchVars
  <2>3. \A j \in Key : ver'[j] = ver[j] /\ mem'[j] = mem[j]
    BY <1>10 DEF ExecBid
  <2>4. up' /\ (poisoned => poisoned')
    BY <1>10 DEF ExecBid
  <2> QED
    BY <2>2, <2>3, <2>4, WatchQuiet
<1>11. ASSUME NEW c \in Client, ExecEnter(c) PROVE WatchInv'
  <2>1. \/ watched' = watched /\ basis' = basis
        \/ watched' = [watched EXCEPT ![c] = Nothing] /\ basis' = [basis EXCEPT ![c] = Nothing]
    BY <1>11 DEF ExecEnter, ClearTx, watchVars
  <2>2. \A d \in Client :
          \/ watched'[d] = watched[d] /\ basis'[d] = basis[d]
          \/ watched'[d] = Nothing /\ basis'[d] = Nothing
    BY <2>1 DEF TypeOK
  <2>3. \A j \in Key : ver'[j] = ver[j] /\ mem'[j] = mem[j]
    BY <1>11 DEF ExecEnter
  <2>4. up' /\ (poisoned => poisoned')
    BY <1>11 DEF ExecEnter
  <2> QED
    BY <2>2, <2>3, <2>4, WatchQuiet
<1>12. ASSUME NEW c \in Client, NEW k \in Key, ExecWrite(c, k) PROVE WatchInv'
  <2>2. \A d \in Client : watched'[d] = watched[d] /\ basis'[d] = basis[d]
    BY <1>12 DEF ExecWrite, watchVars
  <2>3. \A j \in Key : \/ ver'[j] = ver[j] /\ (mem'[j] = mem[j] \/ poisoned')
                      \/ ver'[j] = ver[j] + 1
    BY <1>12 DEF ExecWrite, VersionBumped, TypeOK
  <2>4. up' /\ (poisoned => poisoned')
    BY <1>12 DEF ExecWrite
  <2> QED
    BY <2>2, <2>3, <2>4, WatchQuiet
<1>13. ASSUME NEW c \in Client, NEW k \in Key, ExecApplyFails(c, k) PROVE WatchInv'
  <2>2. \A d \in Client : watched'[d] = watched[d] /\ basis'[d] = basis[d]
    BY <1>13 DEF ExecApplyFails, watchVars
  <2>3. \A j \in Key : \/ ver'[j] = ver[j] /\ (mem'[j] = mem[j] \/ poisoned')
                      \/ ver'[j] = ver[j] + 1
    BY <1>13 DEF ExecApplyFails, VersionBumped, TypeOK
  <2>4. up' /\ (poisoned => poisoned')
    BY <1>13 DEF ExecApplyFails
  <2> QED
    BY <2>2, <2>3, <2>4, WatchQuiet
<1>14. ASSUME NEW c \in Client, ExecRejected(c) PROVE WatchInv'
  <2>2. \A d \in Client : watched'[d] = watched[d] /\ basis'[d] = basis[d]
    BY <1>14 DEF ExecRejected, watchVars
  <2>3. \A j \in Key : ver'[j] = ver[j] /\ mem'[j] = mem[j]
    BY <1>14 DEF ExecRejected
  <2>4. up' /\ (poisoned => poisoned')
    BY <1>14 DEF ExecRejected
  <2> QED
    BY <2>2, <2>3, <2>4, WatchQuiet
<1>15. ASSUME NEW c \in Client, ExecAppend(c) PROVE WatchInv'
  <2>2. \A d \in Client : watched'[d] = watched[d] /\ basis'[d] = basis[d]
    BY <1>15 DEF ExecAppend, watchVars
  <2>3. \A j \in Key : ver'[j] = ver[j] /\ mem'[j] = mem[j]
    BY <1>15 DEF ExecAppend
  <2>4. up' /\ (poisoned => poisoned')
    BY <1>15 DEF ExecAppend
  <2> QED
    BY <2>2, <2>3, <2>4, WatchQuiet
<1>16. ASSUME NEW c \in Client, ExecCommitted(c) PROVE WatchInv'
  <2>1. \/ watched' = watched /\ basis' = basis
        \/ watched' = [watched EXCEPT ![c] = Nothing] /\ basis' = [basis EXCEPT ![c] = Nothing]
    BY <1>16 DEF ExecCommitted, ClearTx, watchVars
  <2>2. \A d \in Client :
          \/ watched'[d] = watched[d] /\ basis'[d] = basis[d]
          \/ watched'[d] = Nothing /\ basis'[d] = Nothing
    BY <2>1 DEF TypeOK
  <2>3. \A j \in Key : ver'[j] = ver[j] /\ mem'[j] = mem[j]
    BY <1>16 DEF ExecCommitted
  <2>4. up' /\ (poisoned => poisoned')
    BY <1>16 DEF ExecCommitted
  <2> QED
    BY <2>2, <2>3, <2>4, WatchQuiet
<1>17. ASSUME NEW c \in Client, ExecCommitFails(c) PROVE WatchInv'
  <2>1. \/ watched' = watched /\ basis' = basis
        \/ watched' = [watched EXCEPT ![c] = Nothing] /\ basis' = [basis EXCEPT ![c] = Nothing]
    BY <1>17 DEF ExecCommitFails, ClearTx, watchVars
  <2>2. \A d \in Client :
          \/ watched'[d] = watched[d] /\ basis'[d] = basis[d]
          \/ watched'[d] = Nothing /\ basis'[d] = Nothing
    BY <2>1 DEF TypeOK
  <2>3. \A j \in Key : ver'[j] = ver[j] /\ mem'[j] = mem[j]
    BY <1>17 DEF ExecCommitFails
  <2>4. up' /\ (poisoned => poisoned')
    BY <1>17 DEF ExecCommitFails, CommitFailureFences
  <2> QED
    BY <2>2, <2>3, <2>4, WatchQuiet
<1>18. ASSUME NEW c \in Client, ExecUnwinds(c) PROVE WatchInv'
  <2>1. \/ watched' = watched /\ basis' = basis
        \/ watched' = [watched EXCEPT ![c] = Nothing] /\ basis' = [basis EXCEPT ![c] = Nothing]
    BY <1>18 DEF ExecUnwinds, ClearTx, watchVars
  <2>2. \A d \in Client :
          \/ watched'[d] = watched[d] /\ basis'[d] = basis[d]
          \/ watched'[d] = Nothing /\ basis'[d] = Nothing
    BY <2>1 DEF TypeOK
  <2>3. \A j \in Key : ver'[j] = ver[j] /\ mem'[j] = mem[j]
    BY <1>18 DEF ExecUnwinds
  <2>4. up' /\ (poisoned => poisoned')
    BY <1>18 DEF ExecUnwinds
  <2> QED
    BY <2>2, <2>3, <2>4, WatchQuiet
<1>19. ASSUME NEW c \in Client, ExecWake(c) PROVE WatchInv'
  <2>2. \A d \in Client : watched'[d] = watched[d] /\ basis'[d] = basis[d]
    BY <1>19 DEF ExecWake, watchVars
  <2>3. \A j \in Key : ver'[j] = ver[j] /\ mem'[j] = mem[j]
    BY <1>19 DEF ExecWake
  <2>4. up' /\ (poisoned => poisoned')
    BY <1>19 DEF ExecWake
  <2> QED
    BY <2>2, <2>3, <2>4, WatchQuiet
<1>20. ASSUME FsyncFails PROVE WatchInv'
  <2>2. \A d \in Client : watched'[d] = watched[d] /\ basis'[d] = basis[d]
    BY <1>20 DEF FsyncFails, watchVars
  <2>3. \A j \in Key : ver'[j] = ver[j] /\ mem'[j] = mem[j]
    BY <1>20 DEF FsyncFails
  <2>4. up' /\ (poisoned => poisoned')
    BY <1>20 DEF FsyncFails
  <2> QED
    BY <2>2, <2>3, <2>4, WatchQuiet
<1>21. ASSUME SaveBegin PROVE WatchInv'
  <2>2. \A d \in Client : watched'[d] = watched[d] /\ basis'[d] = basis[d]
    BY <1>21 DEF SaveBegin, watchVars
  <2>3. \A j \in Key : ver'[j] = ver[j] /\ mem'[j] = mem[j]
    BY <1>21 DEF SaveBegin
  <2>4. up' /\ (poisoned => poisoned')
    BY <1>21 DEF SaveBegin
  <2> QED
    BY <2>2, <2>3, <2>4, WatchQuiet
<1>22. ASSUME SaveEnter PROVE WatchInv'
  <2>2. \A d \in Client : watched'[d] = watched[d] /\ basis'[d] = basis[d]
    BY <1>22 DEF SaveEnter, watchVars
  <2>3. \A j \in Key : ver'[j] = ver[j] /\ mem'[j] = mem[j]
    BY <1>22 DEF SaveEnter
  <2>4. up' /\ (poisoned => poisoned')
    BY <1>22 DEF SaveEnter
  <2> QED
    BY <2>2, <2>3, <2>4, WatchQuiet
<1>23. ASSUME Capture PROVE WatchInv'
  <2>2. \A d \in Client : watched'[d] = watched[d] /\ basis'[d] = basis[d]
    BY <1>23 DEF Capture, watchVars
  <2>3. \A j \in Key : ver'[j] = ver[j] /\ mem'[j] = mem[j]
    BY <1>23 DEF Capture
  <2>4. up' /\ (poisoned => poisoned')
    BY <1>23 DEF Capture
  <2> QED
    BY <2>2, <2>3, <2>4, WatchQuiet
<1>24. ASSUME Crash PROVE WatchInv'
  <2>1. \A d \in Client : watched'[d] = Nothing /\ basis'[d] = Nothing
    BY <1>24 DEF Crash
  <2> QED
    BY <2>1 DEF WatchInv, Nothing
<1>25. ASSUME Recover PROVE WatchInv'
  <2>1. UNCHANGED <<watched, basis>> /\ \A d \in Client : DOMAIN watched[d] = {}
    BY <1>25 DEF Recover, watchVars, WatchInv
  <2> QED
    BY <2>1 DEF WatchInv
<1>26. CASE UNCHANGED vars
  BY <1>26, WatchQuiet DEF vars
<1> QED
  BY <1>1, <1>2, <1>3, <1>4, <1>5, <1>6, <1>7, <1>8, <1>9, <1>10, <1>11, <1>12, <1>13,
    <1>14, <1>15, <1>16, <1>17, <1>18, <1>19, <1>20, <1>21, <1>22, <1>23, <1>24, <1>25,
    <1>26
  DEF Next, ClientStep, SaverStep

\* A step that leaves the snapshot and the batches alone.
LEMMA SnapQuiet ==
  ASSUME TypeOK, GateInv, FramesInv, SnapshotIsCommitted, [Next]_vars,
         snap' = snap, batches' = batches
  PROVE  SnapshotIsCommitted'
<1>1. \A k \in Key : snap'[k] \subseteq CommittedOf(k)'
  BY CommittedGrows DEF SnapshotIsCommitted
<1> QED
  BY <1>1 DEF SnapshotIsCommitted, PartOf

\* Every step keeps the snapshot within the journal, transaction by transaction.
LEMMA NextSnapshot ==
  ASSUME TypeOK, GateInv, NumbersInv, FramesInv, MemInv, SnapshotIsCommitted, [Next]_vars
  PROVE  SnapshotIsCommitted'
<1>1. ASSUME NEW c \in Client, NEW kind \in {"reading", "writing"}, Begin(c, kind)
      PROVE  SnapshotIsCommitted'
  BY <1>1, SnapQuiet DEF Begin, saverVars
<1>2. ASSUME NEW c \in Client, NEW k \in Key, Watch(c, k) PROVE SnapshotIsCommitted'
  BY <1>2, SnapQuiet DEF Watch, saverVars
<1>3. ASSUME NEW c \in Client, Discard(c) PROVE SnapshotIsCommitted'
  BY <1>3, SnapQuiet DEF Discard, saverVars
<1>4. ASSUME NEW c \in Client, NEW n \in 1..MaxQueue, ExecBegin(c, n)
      PROVE  SnapshotIsCommitted'
  BY <1>4, SnapQuiet DEF ExecBegin, saverVars
<1>5. ASSUME NEW c \in Client, EnterRead(c) PROVE SnapshotIsCommitted'
  BY <1>5, SnapQuiet DEF EnterRead, saverVars
<1>6. ASSUME NEW c \in Client, NEW k \in Key, ReadKey(c, k) PROVE SnapshotIsCommitted'
  BY <1>6, SnapQuiet DEF ReadKey, saverVars
<1>7. ASSUME NEW c \in Client, ReadReply(c) PROVE SnapshotIsCommitted'
  BY <1>7, SnapQuiet DEF ReadReply, saverVars
<1>8. ASSUME NEW c \in Client, NEW k \in Key, WriteAppend(c, k)
      PROVE  SnapshotIsCommitted'
  BY <1>8, SnapQuiet DEF WriteAppend, saverVars
<1>9. ASSUME NEW c \in Client, WriteApply(c) PROVE SnapshotIsCommitted'
  BY <1>9, SnapQuiet DEF WriteApply, saverVars
<1>10. ASSUME NEW c \in Client, ExecBid(c) PROVE SnapshotIsCommitted'
  BY <1>10, SnapQuiet DEF ExecBid, saverVars
<1>11. ASSUME NEW c \in Client, ExecEnter(c) PROVE SnapshotIsCommitted'
  BY <1>11, SnapQuiet DEF ExecEnter, saverVars
<1>12. ASSUME NEW c \in Client, NEW k \in Key, ExecWrite(c, k)
       PROVE  SnapshotIsCommitted'
  BY <1>12, SnapQuiet DEF ExecWrite, saverVars
<1>13. ASSUME NEW c \in Client, NEW k \in Key, ExecApplyFails(c, k)
       PROVE  SnapshotIsCommitted'
  BY <1>13, SnapQuiet DEF ExecApplyFails, saverVars
<1>14. ASSUME NEW c \in Client, ExecRejected(c) PROVE SnapshotIsCommitted'
  BY <1>14, SnapQuiet DEF ExecRejected, saverVars
<1>15. ASSUME NEW c \in Client, ExecAppend(c) PROVE SnapshotIsCommitted'
  <2>1. snap' = snap /\ batches' = batches \cup {active.cmds} /\ pc[c] = "running"
    BY <1>15 DEF ExecAppend, saverVars
  <2>2. \A k \in Key : snap'[k] \subseteq CommittedOf(k)'
    BY <2>1, CommittedGrows DEF SnapshotIsCommitted
  <2>3. ASSUME NEW m \in active.cmds, m.id \in snap[m.key] PROVE FALSE
    <3>1. m.key \in Key
      BY CmdTypes DEF Cmd
    <3>2. m.id \in CommittedOf(m.key)
      BY <2>3, <3>1 DEF SnapshotIsCommitted
    <3>3. PICK n \in Committed : n.id = m.id
      BY <3>2, CommittedOfIs
    <3>4. PICK f \in journal : n \in f.cmds
      BY CommittedIs
    <3> QED
      BY <2>1, <3>3, <3>4 DEF FramesInv, BufferInv
  <2>4. PartOf(active.cmds, snap) = {}
    BY <2>3 DEF PartOf
  <2> QED
    BY <2>1, <2>2, <2>4 DEF SnapshotIsCommitted, PartOf
<1>16. ASSUME NEW c \in Client, ExecCommitted(c) PROVE SnapshotIsCommitted'
  BY <1>16, SnapQuiet DEF ExecCommitted, saverVars
<1>17. ASSUME NEW c \in Client, ExecCommitFails(c) PROVE SnapshotIsCommitted'
  BY <1>17, SnapQuiet DEF ExecCommitFails, saverVars
<1>18. ASSUME NEW c \in Client, ExecUnwinds(c) PROVE SnapshotIsCommitted'
  BY <1>18, SnapQuiet DEF ExecUnwinds, saverVars
<1>19. ASSUME NEW c \in Client, ExecWake(c) PROVE SnapshotIsCommitted'
  BY <1>19, SnapQuiet DEF ExecWake, saverVars
<1>20. ASSUME FsyncFails PROVE SnapshotIsCommitted'
  BY <1>20, SnapQuiet DEF FsyncFails, saverVars
<1>21. ASSUME SaveBegin PROVE SnapshotIsCommitted'
  BY <1>21, SnapQuiet DEF SaveBegin, saverVars
<1>22. ASSUME SaveEnter PROVE SnapshotIsCommitted'
  BY <1>22, SnapQuiet DEF SaveEnter, saverVars
<1>23. ASSUME Capture PROVE SnapshotIsCommitted'
  <2>1. CASE poisoned
    BY <1>23, <2>1, SnapQuiet DEF Capture, CaptureHealthy
  <2>2. CASE ~poisoned
    <3>1. snap' = mem /\ batches' = batches /\ up /\ spc = "inside" /\ journal' = journal
      BY <1>23, <2>2 DEF Capture, CaptureHealthy
    <3>2. readers # {} /\ Trusted
      BY <2>2, <3>1 DEF GateInv, Trusted
    <3>3. ASSUME NEW k \in Key PROVE mem[k] \subseteq CommittedOf(k)'
      <4>1. mem[k] \subseteq CommittedOf(k)
        BY <3>2, InsideExact
      <4> QED
        BY <4>1, CommittedGrows
    <3>4. ASSUME NEW b \in batches PROVE PartOf(b, mem) \in {{}, b}
      <4>1. \A m \in b : m.id \in mem[m.key] <=> m \in Committed
        BY <3>2, InsideBatch
      <4> QED
        BY <4>1, BatchWhole DEF PartOf
    <3>5. \A b \in batches : PartOf(b, snap') \in {{}, b}
      BY <3>1, <3>4
    <3> QED
      BY <3>1, <3>3, <3>5 DEF SnapshotIsCommitted, PartOf
  <2> QED
    BY <2>1, <2>2
<1>24. ASSUME Crash PROVE SnapshotIsCommitted'
  BY <1>24, SnapQuiet DEF Crash, saverVars
<1>25. ASSUME Recover PROVE SnapshotIsCommitted'
  BY <1>25, SnapQuiet DEF Recover, saverVars
<1>26. CASE UNCHANGED vars
  BY <1>26, SnapQuiet DEF vars
<1> QED
  BY <1>1, <1>2, <1>3, <1>4, <1>5, <1>6, <1>7, <1>8, <1>9, <1>10, <1>11, <1>12, <1>13,
    <1>14, <1>15, <1>16, <1>17, <1>18, <1>19, <1>20, <1>21, <1>22, <1>23, <1>24, <1>25,
    <1>26
  DEF Next, ClientStep, SaverStep

\* A step that publishes no deferred key event.
LEMMA EventsQuiet ==
  ASSUME TypeOK, GateInv, FramesInv, EventsFollowCommit, [Next]_vars, events' = events
  PROVE  EventsFollowCommit'
<1>1. \A m \in Committed : m \in Committed'
  BY CommittedGrows
<1> QED
  BY <1>1 DEF EventsFollowCommit

\* Every step publishes only key events of committed commands.
LEMMA NextEvents ==
  ASSUME TypeOK, GateInv, FramesInv, EventsFollowCommit, [Next]_vars
  PROVE  EventsFollowCommit'
<1>1. ASSUME NEW c \in Client, NEW kind \in {"reading", "writing"}, Begin(c, kind)
      PROVE  EventsFollowCommit'
  BY <1>1, EventsQuiet DEF Begin
<1>2. ASSUME NEW c \in Client, NEW k \in Key, Watch(c, k) PROVE EventsFollowCommit'
  BY <1>2, EventsQuiet DEF Watch
<1>3. ASSUME NEW c \in Client, Discard(c) PROVE EventsFollowCommit'
  BY <1>3, EventsQuiet DEF Discard
<1>4. ASSUME NEW c \in Client, NEW n \in 1..MaxQueue, ExecBegin(c, n)
      PROVE  EventsFollowCommit'
  BY <1>4, EventsQuiet DEF ExecBegin
<1>5. ASSUME NEW c \in Client, EnterRead(c) PROVE EventsFollowCommit'
  BY <1>5, EventsQuiet DEF EnterRead
<1>6. ASSUME NEW c \in Client, NEW k \in Key, ReadKey(c, k) PROVE EventsFollowCommit'
  BY <1>6, EventsQuiet DEF ReadKey
<1>7. ASSUME NEW c \in Client, ReadReply(c) PROVE EventsFollowCommit'
  BY <1>7, EventsQuiet DEF ReadReply
<1>8. ASSUME NEW c \in Client, NEW k \in Key, WriteAppend(c, k)
      PROVE  EventsFollowCommit'
  BY <1>8, EventsQuiet DEF WriteAppend
<1>9. ASSUME NEW c \in Client, WriteApply(c) PROVE EventsFollowCommit'
  BY <1>9, EventsQuiet DEF WriteApply
<1>10. ASSUME NEW c \in Client, ExecBid(c) PROVE EventsFollowCommit'
  BY <1>10, EventsQuiet DEF ExecBid
<1>11. ASSUME NEW c \in Client, ExecEnter(c) PROVE EventsFollowCommit'
  BY <1>11, EventsQuiet DEF ExecEnter
<1>12. ASSUME NEW c \in Client, NEW k \in Key, ExecWrite(c, k) PROVE EventsFollowCommit'
  BY <1>12, EventsQuiet DEF ExecWrite, EventDeferred
<1>13. ASSUME NEW c \in Client, NEW k \in Key, ExecApplyFails(c, k)
       PROVE  EventsFollowCommit'
  BY <1>13, EventsQuiet DEF ExecApplyFails
<1>14. ASSUME NEW c \in Client, ExecRejected(c) PROVE EventsFollowCommit'
  BY <1>14, EventsQuiet DEF ExecRejected
<1>15. ASSUME NEW c \in Client, ExecAppend(c) PROVE EventsFollowCommit'
  BY <1>15, EventsQuiet DEF ExecAppend
<1>16. ASSUME NEW c \in Client, ExecCommitted(c) PROVE EventsFollowCommit'
  <2>1. events' = events \cup active.events
    BY <1>16 DEF ExecCommitted
  <2>2. \A m \in active.cmds : m \in Committed'
    BY <1>16, CommitsBuffer
  <2>3. \A m \in Committed : m \in Committed'
    BY CommittedGrows
  <2>4. active.events \subseteq {m.id : m \in active.cmds}
    BY DEF FramesInv, BufferInv
  <2> QED
    BY <2>1, <2>2, <2>3, <2>4 DEF EventsFollowCommit
<1>17. ASSUME NEW c \in Client, ExecCommitFails(c) PROVE EventsFollowCommit'
  BY <1>17, EventsQuiet DEF ExecCommitFails
<1>18. ASSUME NEW c \in Client, ExecUnwinds(c) PROVE EventsFollowCommit'
  BY <1>18, EventsQuiet DEF ExecUnwinds
<1>19. ASSUME NEW c \in Client, ExecWake(c) PROVE EventsFollowCommit'
  BY <1>19, EventsQuiet DEF ExecWake
<1>20. ASSUME FsyncFails PROVE EventsFollowCommit'
  BY <1>20, EventsQuiet DEF FsyncFails
<1>21. ASSUME SaveBegin PROVE EventsFollowCommit'
  BY <1>21, EventsQuiet DEF SaveBegin
<1>22. ASSUME SaveEnter PROVE EventsFollowCommit'
  BY <1>22, EventsQuiet DEF SaveEnter
<1>23. ASSUME Capture PROVE EventsFollowCommit'
  BY <1>23, EventsQuiet DEF Capture
<1>24. ASSUME Crash PROVE EventsFollowCommit'
  BY <1>24, EventsQuiet DEF Crash
<1>25. ASSUME Recover PROVE EventsFollowCommit'
  BY <1>25, EventsQuiet DEF Recover
<1>26. CASE UNCHANGED vars
  BY <1>26, EventsQuiet DEF vars
<1> QED
  BY <1>1, <1>2, <1>3, <1>4, <1>5, <1>6, <1>7, <1>8, <1>9, <1>10, <1>11, <1>12, <1>13,
    <1>14, <1>15, <1>16, <1>17, <1>18, <1>19, <1>20, <1>21, <1>22, <1>23, <1>24, <1>25,
    <1>26
  DEF Next, ClientStep, SaverStep

-----------------------------------------------------------------------------
(* The invariant                                                           *)

\* The invariant holds of an empty database.
LEMMA InitInv == Init => TransactionInv
<1> SUFFICES ASSUME Init PROVE TransactionInv
  OBVIOUS
<1>1. TypeOK
  <2>1. /\ DOMAIN got = Client /\ DOMAIN watched = Client /\ DOMAIN basis = Client
        /\ \A c \in Client : got[c] = Nothing /\ watched[c] = Nothing /\ basis[c] = Nothing
    BY DEF Init
  <2>2. PartlyOn(Nothing, Nat) /\ PartlyOn(Nothing, SUBSET Nat)
    BY DEF PartlyOn, Nothing
  <2>3. mem \in [Key -> SUBSET Nat] /\ snap \in [Key -> SUBSET Nat] /\ ver \in [Key -> Nat]
    BY DEF Init, Empty
  <2>4. left \in [Client -> 0..MaxQueue] /\ arg \in [Client -> Cmd \cup {NoCmd}]
    BY QueueAssumption DEF Init
  <2>5. active \in [cmds : SUBSET Cmd, events : SUBSET Nat]
    BY DEF Init, NoExec
  <2>6. up \in BOOLEAN /\ poisoned \in BOOLEAN
    BY DEF Init
  <2>7. /\ nextId \in Nat \ {0}
        /\ spc \in {"idle", "waiting", "inside"} /\ writer \in Client \cup {Nobody}
    BY DEF Init
  <2>8. /\ journal = {} /\ readers = {} /\ batches = {} /\ events = {}
    BY DEF Init
  <2>9. /\ pc \in [Client -> {"idle", "reading", "writing", "waiting", "running",
                              "committing", "waking"}]
        /\ budget \in [faults : Nat, saves : Nat]
    BY DEF Init
  <2> QED
    BY <2>1, <2>2, <2>3, <2>4, <2>5, <2>6, <2>7, <2>8, <2>9 DEF TypeOK
<1>2. GateInv
  BY ClientAssumption DEF Init, GateInv, Inside, NoExec, Nothing
<1>3. NumbersInv /\ FramesInv
  BY DEF Init, NumbersInv, FramesInv, TornInv, PendingInv, BufferInv, BatchInv, NoExec
<1>4. MemInv
  <2>1. ASSUME NEW k \in Key, NEW i
        PROVE  i \notin CommittedOf(k) /\ i \notin Buffered(k)
    <3>1. \A m : m \notin Committed
      BY CommittedIs DEF Init
    <3>2. \A m : m \notin active.cmds
      BY DEF Init, NoExec
    <3> QED
      BY <3>1, <3>2, CommittedOfIs, BufferedIs
  <2>2. \A k \in Key : mem[k] = {}
    BY DEF Init, Empty
  <2>3. Exact
    BY <1>1, <2>1, <2>2, ExactIs
  <2> QED
    BY <2>3 DEF MemInv
<1>5. ReadInv /\ WatchInv
  BY DEF Init, ReadInv, WatchInv, Nothing
<1>6. SnapshotIsCommitted /\ EventsFollowCommit
  BY DEF Init, SnapshotIsCommitted, EventsFollowCommit, Empty
<1> QED
  BY <1>1, <1>2, <1>3, <1>4, <1>5, <1>6 DEF TransactionInv

\* Every step of a client, the saver, the fsync timer, a crash and a recovery keeps it.
LEMMA NextInv == TransactionInv /\ [Next]_vars => TransactionInv'
<1> SUFFICES ASSUME TransactionInv, [Next]_vars PROVE TransactionInv'
  OBVIOUS
<1>1. /\ TypeOK /\ GateInv /\ NumbersInv /\ FramesInv /\ MemInv /\ ReadInv /\ WatchInv
      /\ SnapshotIsCommitted /\ EventsFollowCommit
  BY DEF TransactionInv
<1>2. TypeOK'
  BY <1>1, NextType
<1>3. GateInv' /\ NumbersInv'
  BY <1>1, <1>2, NextGate, NextNumbers
<1>4. FramesInv'
  BY <1>1, <1>2, <1>3, NextFrames
<1>5. MemInv'
  BY <1>1, <1>2, NextMem
<1>6. ReadInv'
  BY <1>1, NextRead
<1>7. WatchInv'
  BY <1>1, NextWatch
<1>8. SnapshotIsCommitted' /\ EventsFollowCommit'
  BY <1>1, NextSnapshot, NextEvents
<1> QED
  BY <1>2, <1>3, <1>4, <1>5, <1>6, <1>7, <1>8 DEF TransactionInv

\* The inductive invariant holds in every behaviour of MULTI/EXEC.
THEOREM TransactionInvariant == Spec => []TransactionInv
  BY InitInv, NextInv, PTL DEF Spec

\* A crash at any moment recovers a transaction whole or not at all, and a healthy
\* quiet database is what a restart would rebuild.
LEMMA InvImplies ==
  ASSUME TransactionInv
  PROVE  /\ RecoversWholeBatch /\ SnapshotIsCommitted
         /\ EventsFollowCommit /\ QuietMatchesJournal
<1>1. RecoversWholeBatch
  BY BatchWhole DEF TransactionInv, RecoversWholeBatch
<1>2. QuietMatchesJournal
  <2> SUFFICES ASSUME up, ~poisoned, readers = {}, writer = Nobody \/ pc[writer] = "waiting",
                      NEW k \in Key
               PROVE  mem[k] = CommittedOf(k)
    BY DEF QuietMatchesJournal
  <2>1. TypeOK /\ GateInv /\ Exact
    BY DEF TransactionInv, MemInv, Trusted
  <2>2. active = NoExec /\ \A c \in Client : arg[c] = NoCmd
    BY <2>1, ClientAssumption DEF GateInv, Inside
  <2>3. ASSUME NEW i PROVE i \in mem[k] <=> i \in CommittedOf(k)
    <3>1. i \notin Pending(k) /\ i \notin Buffered(k)
      BY <2>2, PendingIs, BufferedIs DEF NoExec
    <3> QED
      BY <2>1, <3>1, ExactIs
  <2> QED
    BY <2>3
<1> QED
  BY <1>1, <1>2 DEF TransactionInv

-----------------------------------------------------------------------------
(* Replies and WATCH                                                       *)

\* Only a read that has every key replies.
LEMMA OnlyReadReplies ==
  ASSUME TypeOK, NEW c \in Client, Replies(c), [Next]_vars
  PROVE  DOMAIN got[c] = Key
<1>1. ASSUME NEW d \in Client, NEW kind \in {"reading", "writing"}, Begin(d, kind)
      PROVE  DOMAIN got[c] = Key
  BY <1>1 DEF Begin, Replies, TypeOK
<1>2. ASSUME NEW d \in Client, NEW k \in Key, Watch(d, k) PROVE DOMAIN got[c] = Key
  BY <1>2 DEF Watch, clientVars, Replies, TypeOK
<1>3. ASSUME NEW d \in Client, Discard(d) PROVE DOMAIN got[c] = Key
  BY <1>3 DEF Discard, Replies, TypeOK
<1>4. ASSUME NEW d \in Client, NEW n \in 1..MaxQueue, ExecBegin(d, n)
      PROVE  DOMAIN got[c] = Key
  BY <1>4 DEF ExecBegin, Replies, TypeOK
<1>5. ASSUME NEW d \in Client, EnterRead(d) PROVE DOMAIN got[c] = Key
  BY <1>5 DEF EnterRead, Replies, TypeOK
<1>6. ASSUME NEW d \in Client, NEW k \in Key, ReadKey(d, k) PROVE DOMAIN got[c] = Key
  BY <1>6 DEF ReadKey, Replies, TypeOK
<1>7. ASSUME NEW d \in Client, ReadReply(d) PROVE DOMAIN got[c] = Key
  BY <1>7 DEF ReadReply, Leave, Replies, TypeOK
<1>8. ASSUME NEW d \in Client, NEW k \in Key, WriteAppend(d, k)
      PROVE  DOMAIN got[c] = Key
  BY <1>8 DEF WriteAppend, Leave, Replies, TypeOK
<1>9. ASSUME NEW d \in Client, WriteApply(d) PROVE DOMAIN got[c] = Key
  BY <1>9 DEF WriteApply, Leave, Replies, TypeOK
<1>10. ASSUME NEW d \in Client, ExecBid(d) PROVE DOMAIN got[c] = Key
  BY <1>10 DEF ExecBid, clientVars, Replies, TypeOK
<1>11. ASSUME NEW d \in Client, ExecEnter(d) PROVE DOMAIN got[c] = Key
  BY <1>11 DEF ExecEnter, Replies, TypeOK
<1>12. ASSUME NEW d \in Client, NEW k \in Key, ExecWrite(d, k) PROVE DOMAIN got[c] = Key
  BY <1>12 DEF ExecWrite, Replies, TypeOK
<1>13. ASSUME NEW d \in Client, NEW k \in Key, ExecApplyFails(d, k)
       PROVE  DOMAIN got[c] = Key
  BY <1>13 DEF ExecApplyFails, Replies, TypeOK
<1>14. ASSUME NEW d \in Client, ExecRejected(d) PROVE DOMAIN got[c] = Key
  BY <1>14 DEF ExecRejected, Replies, TypeOK
<1>15. ASSUME NEW d \in Client, ExecAppend(d) PROVE DOMAIN got[c] = Key
  BY <1>15 DEF ExecAppend, Replies, TypeOK
<1>16. ASSUME NEW d \in Client, ExecCommitted(d) PROVE DOMAIN got[c] = Key
  BY <1>16 DEF ExecCommitted, Replies, TypeOK
<1>17. ASSUME NEW d \in Client, ExecCommitFails(d) PROVE DOMAIN got[c] = Key
  BY <1>17 DEF ExecCommitFails, Replies, TypeOK
<1>18. ASSUME NEW d \in Client, ExecUnwinds(d) PROVE DOMAIN got[c] = Key
  BY <1>18 DEF ExecUnwinds, Replies, TypeOK
<1>19. ASSUME NEW d \in Client, ExecWake(d) PROVE DOMAIN got[c] = Key
  BY <1>19 DEF ExecWake, Replies, TypeOK
<1>20. ASSUME FsyncFails PROVE DOMAIN got[c] = Key
  BY <1>20 DEF FsyncFails, clientVars, Replies, TypeOK
<1>21. ASSUME SaveBegin PROVE DOMAIN got[c] = Key
  BY <1>21 DEF SaveBegin, clientVars, Replies, TypeOK
<1>22. ASSUME SaveEnter PROVE DOMAIN got[c] = Key
  BY <1>22 DEF SaveEnter, clientVars, Replies, TypeOK
<1>23. ASSUME Capture PROVE DOMAIN got[c] = Key
  BY <1>23 DEF Capture, clientVars, Replies, TypeOK
<1>24. ASSUME Crash PROVE DOMAIN got[c] = Key
  BY <1>24 DEF Crash, Replies, TypeOK
<1>25. ASSUME Recover PROVE DOMAIN got[c] = Key
  BY <1>25 DEF Recover, clientVars, Replies, TypeOK
<1>26. CASE UNCHANGED vars
  BY <1>26 DEF vars, Replies
<1> QED
  BY <1>1, <1>2, <1>3, <1>4, <1>5, <1>6, <1>7, <1>8, <1>9, <1>10, <1>11, <1>12, <1>13,
    <1>14, <1>15, <1>16, <1>17, <1>18, <1>19, <1>20, <1>21, <1>22, <1>23, <1>24, <1>25,
    <1>26
  DEF Next, ClientStep, SaverStep

\* A reply shows only committed mutations, of every transaction all or nothing.
LEMMA ReplyIsCommitted ==
  ASSUME TransactionInv, [Next]_vars, NEW c \in Client, Replies(c)
  PROVE  /\ \A k \in Key : got[c][k] \subseteq CommittedOf(k)
         /\ \A b \in batches : PartOf(b, got[c]) \in {{}, b}
<1>1. TypeOK /\ FramesInv /\ ReadInv
  BY DEF TransactionInv
<1>2. DOMAIN got[c] = Key
  BY <1>1, OnlyReadReplies
<1>3. \A k \in Key : got[c][k] \subseteq CommittedOf(k)
  BY <1>1, <1>2 DEF ReadInv
<1>4. ASSUME NEW b \in batches PROVE PartOf(b, got[c]) \in {{}, b}
  <2>1. ASSUME NEW m \in b PROVE m.id \in got[c][m.key] <=> m \in Committed
    <3>1. m.key \in DOMAIN got[c]
      BY <1>1, <1>2, CmdTypes DEF Cmd
    <3> QED
      BY <1>1, <3>1 DEF ReadInv
  <2> QED
    BY <1>1, <2>1, BatchWhole DEF PartOf
<1> QED
  BY <1>3, <1>4

\* Only ExecEnter starts to run a transaction, with a healthy journal and watched
\* versions as they were.
LEMMA OnlyEnterRuns ==
  ASSUME TypeOK, NEW c \in Client, pc[c] = "waiting" /\ pc'[c] = "running", [Next]_vars
  PROVE  ~poisoned /\ WatchedUnchanged(c)
<1>1. ASSUME NEW d \in Client, NEW kind \in {"reading", "writing"}, Begin(d, kind)
      PROVE  ~poisoned /\ WatchedUnchanged(c)
  BY <1>1 DEF Begin, TypeOK
<1>2. ASSUME NEW d \in Client, NEW k \in Key, Watch(d, k)
      PROVE  ~poisoned /\ WatchedUnchanged(c)
  BY <1>2 DEF Watch, clientVars, TypeOK
<1>3. ASSUME NEW d \in Client, Discard(d) PROVE ~poisoned /\ WatchedUnchanged(c)
  BY <1>3 DEF Discard, TypeOK
<1>4. ASSUME NEW d \in Client, NEW n \in 1..MaxQueue, ExecBegin(d, n)
      PROVE  ~poisoned /\ WatchedUnchanged(c)
  BY <1>4 DEF ExecBegin, TypeOK
<1>5. ASSUME NEW d \in Client, EnterRead(d) PROVE ~poisoned /\ WatchedUnchanged(c)
  BY <1>5 DEF EnterRead, TypeOK
<1>6. ASSUME NEW d \in Client, NEW k \in Key, ReadKey(d, k)
      PROVE  ~poisoned /\ WatchedUnchanged(c)
  BY <1>6 DEF ReadKey, TypeOK
<1>7. ASSUME NEW d \in Client, ReadReply(d) PROVE ~poisoned /\ WatchedUnchanged(c)
  BY <1>7 DEF ReadReply, Leave, TypeOK
<1>8. ASSUME NEW d \in Client, NEW k \in Key, WriteAppend(d, k)
      PROVE  ~poisoned /\ WatchedUnchanged(c)
  BY <1>8 DEF WriteAppend, Leave, TypeOK
<1>9. ASSUME NEW d \in Client, WriteApply(d) PROVE ~poisoned /\ WatchedUnchanged(c)
  BY <1>9 DEF WriteApply, Leave, TypeOK
<1>10. ASSUME NEW d \in Client, ExecBid(d) PROVE ~poisoned /\ WatchedUnchanged(c)
  BY <1>10 DEF ExecBid, clientVars, TypeOK
<1>11. ASSUME NEW d \in Client, ExecEnter(d) PROVE ~poisoned /\ WatchedUnchanged(c)
  BY <1>11 DEF ExecEnter, TypeOK
<1>12. ASSUME NEW d \in Client, NEW k \in Key, ExecWrite(d, k)
       PROVE  ~poisoned /\ WatchedUnchanged(c)
  BY <1>12 DEF ExecWrite, TypeOK
<1>13. ASSUME NEW d \in Client, NEW k \in Key, ExecApplyFails(d, k)
       PROVE  ~poisoned /\ WatchedUnchanged(c)
  BY <1>13 DEF ExecApplyFails, TypeOK
<1>14. ASSUME NEW d \in Client, ExecRejected(d) PROVE ~poisoned /\ WatchedUnchanged(c)
  BY <1>14 DEF ExecRejected, TypeOK
<1>15. ASSUME NEW d \in Client, ExecAppend(d) PROVE ~poisoned /\ WatchedUnchanged(c)
  BY <1>15 DEF ExecAppend, TypeOK
<1>16. ASSUME NEW d \in Client, ExecCommitted(d) PROVE ~poisoned /\ WatchedUnchanged(c)
  BY <1>16 DEF ExecCommitted, TypeOK
<1>17. ASSUME NEW d \in Client, ExecCommitFails(d)
       PROVE  ~poisoned /\ WatchedUnchanged(c)
  BY <1>17 DEF ExecCommitFails, TypeOK
<1>18. ASSUME NEW d \in Client, ExecUnwinds(d) PROVE ~poisoned /\ WatchedUnchanged(c)
  BY <1>18 DEF ExecUnwinds, TypeOK
<1>19. ASSUME NEW d \in Client, ExecWake(d) PROVE ~poisoned /\ WatchedUnchanged(c)
  BY <1>19 DEF ExecWake, TypeOK
<1>20. ASSUME FsyncFails PROVE ~poisoned /\ WatchedUnchanged(c)
  BY <1>20 DEF FsyncFails, clientVars, TypeOK
<1>21. ASSUME SaveBegin PROVE ~poisoned /\ WatchedUnchanged(c)
  BY <1>21 DEF SaveBegin, clientVars, TypeOK
<1>22. ASSUME SaveEnter PROVE ~poisoned /\ WatchedUnchanged(c)
  BY <1>22 DEF SaveEnter, clientVars, TypeOK
<1>23. ASSUME Capture PROVE ~poisoned /\ WatchedUnchanged(c)
  BY <1>23 DEF Capture, clientVars, TypeOK
<1>24. ASSUME Crash PROVE ~poisoned /\ WatchedUnchanged(c)
  BY <1>24 DEF Crash, TypeOK
<1>25. ASSUME Recover PROVE ~poisoned /\ WatchedUnchanged(c)
  BY <1>25 DEF Recover, clientVars, TypeOK
<1>26. CASE UNCHANGED vars
  BY <1>26 DEF vars
<1> QED
  BY <1>1, <1>2, <1>3, <1>4, <1>5, <1>6, <1>7, <1>8, <1>9, <1>10, <1>11, <1>12, <1>13,
    <1>14, <1>15, <1>16, <1>17, <1>18, <1>19, <1>20, <1>21, <1>22, <1>23, <1>24, <1>25,
    <1>26
  DEF Next, ClientStep, SaverStep

\* EXEC runs only if every watched key is as WATCH left it: the gate is held, and
\* the journal is healthy, when the versions are compared.
LEMMA WatchedAsSeen ==
  ASSUME TransactionInv, [Next]_vars, NEW c \in Client,
         pc[c] = "waiting" /\ pc'[c] = "running", NEW k \in DOMAIN basis[c]
  PROVE  mem[k] = basis[c][k]
<1>1. TypeOK /\ WatchInv
  BY DEF TransactionInv
<1>2. ~poisoned /\ WatchedUnchanged(c)
  BY <1>1, OnlyEnterRuns
<1>3. k \in DOMAIN watched[c]
  BY <1>1 DEF WatchInv
<1> QED
  BY <1>1, <1>2, <1>3 DEF WatchInv, WatchedUnchanged

\* The reads that other clients complete and the WATCHes that EXEC honours, in every
\* behaviour of MULTI/EXEC.
THEOREM Isolation == Spec => NoDirtyRead /\ ExecIsolated /\ WatchedKeysUnchanged
<1>1. TransactionInv /\ [Next]_vars =>
        [\A c \in Client : Replies(c) => \A k \in Key : got[c][k] \subseteq CommittedOf(k)]_vars
  BY ReplyIsCommitted
<1>2. TransactionInv /\ [Next]_vars =>
        [\A c \in Client : Replies(c) =>
           \A b \in batches : PartOf(b, got[c]) \in {{}, b}]_vars
  BY ReplyIsCommitted
<1>3. TransactionInv /\ [Next]_vars =>
        [\A c \in Client : pc[c] = "waiting" /\ pc'[c] = "running" =>
           \A k \in DOMAIN basis[c] : mem[k] = basis[c][k]]_vars
  BY WatchedAsSeen
<1> QED
  BY <1>1, <1>2, <1>3, TransactionInvariant, PTL
  DEF Spec, NoDirtyRead, ExecIsolated, WatchedKeysUnchanged

-----------------------------------------------------------------------------
(* The store, of which MULTI/EXEC is one part                              *)

\* A behaviour of the store is, in the variables of Transaction, one of MULTI/EXEC.
LEMMA StoreImplements == StoreSpec => Spec
<1>1. StoreInit => Init
  BY DEF StoreInit
<1>2. [StoreNext]_storeVars => [Next]_vars
  BY DEF StoreNext, storeVars, vars, transactionsVars
<1> QED
  BY <1>1, <1>2, PTL DEF StoreSpec, Spec

\* MULTI/EXEC (store/transactions.rs): at every moment a crash recovers a
\* transaction whole or not at all, a snapshot holds it whole or not at all, key
\* events follow its durable frame, and a healthy quiet database is what a restart
\* would rebuild.
THEOREM TransactionsRecoverAlways == StoreSpec => []TransactionsRecover
<1>1. TransactionInv => TransactionsRecover
  BY InvImplies DEF TransactionsRecover
<1> QED
  BY <1>1, StoreImplements, TransactionInvariant, PTL

\* The execution gate (execution_read_guard, begin_exec_transaction): no reply shows
\* an uncommitted mutation or a part of a transaction, and EXEC runs only if every
\* watched key is as WATCH left it.
THEOREM TransactionsIsolatedAlways == StoreSpec => TransactionsIsolated
  BY StoreImplements, Isolation, PTL DEF TransactionsIsolated
=============================================================================
