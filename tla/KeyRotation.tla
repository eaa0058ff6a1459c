----------------------------- MODULE KeyRotation -----------------------------
(***************************************************************************)
(* Encryption at rest (src/src/encryption.rs, src/src/cmd/encryption.rs    *)
(* and the ENC passes of src/src/store/mod.rs): the keyring, the sealed    *)
(* state file it is kept in, and ENC INIT, ROTATE, REWRAP and RETIRE run   *)
(* beside each other, encrypted writes, saves and restarts.  A key is its id and the   *)
(* secret generated for it; an envelope is the set of the keys its data    *)
(* key is wrapped under.  A vector is plaintext in memory and an envelope  *)
(* in the journal and in the snapshot.                                     *)
(***************************************************************************)
EXTENDS Integers, Sequences, FiniteSets

CONSTANTS EncKey,          \* keys of encrypted values
          VectorKey,       \* those that hold vectors
          EncShard,        \* shard of each key, 1..EncShards
          EncShards,
          KeyId,           \* ids the operator names (numbers)
          EncWriter,
          EncTasks,        \* bound: ENC REWRAP and RETIRE at one time
          MaxEncWrites, MaxEncFaults, MaxEncRestarts,
          MaxEncOps        \* bound: ENC commands and restarts

VARIABLES ring,       \* live keyring: [keys, active]
          ringFile,   \* the state file: [there, keys, active, seal]
          ringSafe,   \* the same after a loss of power
          sealFile,   \* the seal kept beside the data exists
          seal,       \* how this process seals: "file" or a secret of the environment (1, 2 as strings)
          vals,       \* memory: key -> [has, wraps, late]
          encLog,     \* journal since the snapshot: sequence of [key, wraps, late]
          encSnap,    \* snapshot: key -> [has, wraps, late]
          pen,        \* writer -> [at, key, wraps, late]
          task,       \* the ENC commands that run: [op, id, shard, rest], 1..EncTasks
          epoch,      \* number of key sets so far
          firstLost,  \* power was lost before the first key set was durable
          named,      \* the ids ever given to a key
          reused,     \* one of them a second time
          crossed,    \* a RETIRE dropped its key after another dropped one it counted on
          encDown,    \* "up", "closed" (not running) or "locked" (refused to start)
          left        \* what remains of the bounds

rotVars == <<ring, ringFile, ringSafe, sealFile, seal, vals, encLog, encSnap, pen, task, epoch, firstLost, named, reused, crossed, encDown, left>>

NoVal == [has |-> FALSE, wraps |-> {}, late |-> FALSE]
NoPen == [at |-> "idle", key |-> CHOOSE k \in EncKey : TRUE, wraps |-> {}, late |-> FALSE]
NoActive == 0
NoTask == [op |-> "none", id |-> NoActive, shard |-> 0, rest |-> {}]
NoTasks == [t \in 1..EncTasks |-> NoTask]
Empty == [keys |-> {}, active |-> NoActive]
NoFile == [there |-> FALSE, keys |-> {}, active |-> NoActive, seal |-> "file"]

\* decrypt: some wrap was made by a key of the ring
Opens(wraps, keys) == wraps \intersect keys # {}
\* envelope_decryptable_by_any: the ids alone
Ids(keys) == {k[1] : k \in keys}
OpensById(wraps, ids) == Ids(wraps) \intersect ids # {}
Sealed(k) == vals[k].has /\ k \notin VectorKey

RotInit ==
  /\ ring = Empty /\ ringFile = NoFile /\ ringSafe = NoFile /\ sealFile = FALSE /\ seal = "file"
  /\ vals = [k \in EncKey |-> NoVal] /\ encLog = <<>> /\ encSnap = [k \in EncKey |-> NoVal]
  /\ pen = [w \in EncWriter |-> NoPen] /\ task = NoTasks /\ epoch = 0
  /\ firstLost = FALSE /\ named = {} /\ reused = FALSE /\ crossed = FALSE /\ encDown = "up"
  /\ left = [writes |-> MaxEncWrites, ops |-> MaxEncOps, faults |-> MaxEncFaults, restarts |-> MaxEncRestarts]

Spent(what) == [left EXCEPT ![what] = @ - 1]

---------------------------------------------------------------------------
(* persist_state: write, sync and rename a new file, then sync its          *)
(* directory.  It may fail before the rename, or after it with the file     *)
(* already the one a restart opens.                                         *)
FileOf(r, s) == [there |-> TRUE, keys |-> r.keys, active |-> r.active, seal |-> s]
Outcomes == {"ok"} \union (IF left.faults > 0 THEN {"before", "after"} ELSE {})
Persisted(outcome, r, s) ==
  /\ ringFile' = IF outcome = "before" THEN ringFile ELSE FileOf(r, s)
  /\ ringSafe' = IF outcome = "ok" THEN FileOf(r, s) ELSE ringSafe
  /\ sealFile' = (sealFile \/ s = "file")

Adopts(outcome) == outcome # "before"
\* commit_state
CommitState(r) ==
  \E outcome \in Outcomes :
    /\ Persisted(outcome, r, seal)
    /\ ring' = IF Adopts(outcome) THEN r ELSE ring
    /\ epoch' = IF Adopts(outcome) THEN epoch + 1 ELSE epoch
    /\ left' = [left EXCEPT !.ops = @ - 1, !.faults = IF outcome = "ok" THEN @ ELSE @ - 1]

\* an id that had a key before, or the next one: which of the others does not matter
Nameable(id) == id \in named \/ \A other \in KeyId \ named : id <= other

\* ENC INIT, and ENC ROTATE of an empty keyring
InitKey(id) ==
  /\ encDown = "up" /\ left.ops > 0 /\ ring.active = NoActive /\ Nameable(id)
  /\ CommitState([keys |-> {<<id, epoch>>}, active |-> id])
  /\ reused' = (reused \/ id \in named) /\ named' = named \union {id}
  /\ UNCHANGED <<seal, vals, encLog, encSnap, pen, task, firstLost, crossed, encDown>>

Rotated(id) == [keys |-> ring.keys \union {<<id, epoch>>}, active |-> id]
RotateKey(id) ==
  /\ encDown = "up" /\ left.ops > 0 /\ ring.keys # {} /\ id \notin Ids(ring.keys) /\ Nameable(id)
  /\ CommitState(Rotated(id))
  /\ reused' = (reused \/ id \in named) /\ named' = named \union {id}
  /\ UNCHANGED <<seal, vals, encLog, encSnap, pen, task, firstLost, crossed, encDown>>

---------------------------------------------------------------------------
(* Encrypted writes: the envelope is made before the journal frame, which   *)
(* is written before the value is stored (commit_prepared).                 *)
EncryptFor(w, k) ==
  /\ encDown = "up" /\ left.writes > 0 /\ pen[w].at = "idle" /\ ring.active # NoActive
  /\ pen' = [pen EXCEPT ![w] = [at |-> "made", key |-> k, wraps |-> ring.keys, late |-> FALSE]]
  /\ left' = Spent("writes")
  /\ UNCHANGED <<ring, ringFile, ringSafe, sealFile, seal, vals, encLog, encSnap, task, epoch, firstLost, named, reused, crossed, encDown>>

StoreEnvelope(w) ==
  /\ encDown = "up" /\ pen[w].at = "made"
  /\ LET value == [has |-> TRUE, wraps |-> pen[w].wraps, late |-> pen[w].late]
     IN /\ vals' = [vals EXCEPT ![pen[w].key] = value]
        /\ encLog' = Append(encLog, [key |-> pen[w].key, val |-> value])
  /\ pen' = [pen EXCEPT ![w] = NoPen]
  /\ UNCHANGED <<ring, ringFile, ringSafe, sealFile, seal, encSnap, task, epoch, firstLost, named, reused, crossed, encDown, left>>

\* save_and_truncate_wal_consistent: values as they are, vectors sealed under the current keys
Dumped == [k \in EncKey |-> IF k \in VectorKey THEN [vals[k] EXCEPT !.wraps = ring.keys, !.late = FALSE] ELSE vals[k]]
EncSave ==
  /\ encDown = "up" /\ (encSnap # Dumped \/ encLog # <<>>)
  /\ encSnap' = Dumped /\ encLog' = <<>>
  /\ UNCHANGED <<ring, ringFile, ringSafe, sealFile, seal, vals, pen, task, epoch, firstLost, named, reused, crossed, encDown, left>>

---------------------------------------------------------------------------
(* ENC REWRAP and ENC RETIRE visit one shard after the other, and nothing   *)
(* keeps two of them apart.                                                 *)
Idling(t) == task[t].op = "none" /\ \A u \in 1..(t - 1) : task[u].op # "none"
\* late (ghost): made under an older key set, and not stored when a RETIRE begins to look for such values
Overtaken(w, op) == op = "retire" /\ pen[w].at = "made" /\ pen[w].wraps # ring.keys
BeginTask(t, op, id) ==
  /\ encDown = "up" /\ left.ops > 0 /\ Idling(t) /\ ring.keys # {}
  /\ op = "retire" => Ids(ring.keys) \ {id} # {}
  /\ task' = [task EXCEPT ![t] = [op |-> op, id |-> id, shard |-> 1,
                                  rest |-> IF op = "retire" THEN Ids(ring.keys) \ {id} ELSE {}]]
  /\ pen' = [w \in EncWriter |-> [pen[w] EXCEPT !.late = @ \/ Overtaken(w, op)]]
  /\ left' = Spent("ops")
  /\ UNCHANGED <<ring, ringFile, ringSafe, sealFile, seal, vals, encLog, encSnap, epoch, firstLost, named, reused, crossed, encDown>>

Ends(t) == task' = [task EXCEPT ![t] = NoTask]
NextShard(t) == task' = [task EXCEPT ![t].shard = @ + 1]
InShard(i) == {k \in EncKey : EncShard[k] = i /\ Sealed(k)}
RewrapShard(t) ==
  /\ encDown = "up" /\ task[t].op = "rewrap" /\ task[t].shard <= EncShards
  /\ IF \E k \in InShard(task[t].shard) : ~Opens(vals[k].wraps, ring.keys)
     THEN Ends(t) /\ UNCHANGED vals
     ELSE /\ vals' = [k \in EncKey |-> IF k \in InShard(task[t].shard) THEN [vals[k] EXCEPT !.wraps = ring.keys, !.late = FALSE]
                                       ELSE vals[k]]
          /\ NextShard(t)
  /\ UNCHANGED <<ring, ringFile, ringSafe, sealFile, seal, encLog, encSnap, pen, epoch, firstLost, named, reused, crossed, encDown, left>>

\* encrypted_value_would_be_orphaned, by the ids that remained when RETIRE began
NeverOrphans(t, k) == FALSE
Orphaned(t, k) == ~OpensById(vals[k].wraps, task[t].rest)
ScanShard(t) ==
  /\ encDown = "up" /\ task[t].op = "retire" /\ task[t].shard <= EncShards
  /\ IF \E k \in InShard(task[t].shard) : Orphaned(t, k) THEN Ends(t) ELSE NextShard(t)
  /\ UNCHANGED <<ring, ringFile, ringSafe, sealFile, seal, vals, encLog, encSnap, pen, epoch, firstLost, named, reused, crossed, encDown, left>>

\* the values that reach the disk before the key goes: nothing, or everything
SavesNothing == encSnap
SavedForTask == Dumped
\* both end with a save; after it RETIRE drops the key, unless it is active or gone
Scanned(t) == encDown = "up" /\ task[t].op \in {"rewrap", "retire"} /\ task[t].shard = EncShards + 1
FinishTask(t) ==
  /\ Scanned(t)
  /\ encSnap' = SavedForTask
  /\ encLog' = IF SavedForTask = encSnap /\ encSnap # Dumped THEN encLog ELSE <<>>
  /\ IF task[t].op = "retire" THEN task' = [task EXCEPT ![t].op = "drop"] ELSE Ends(t)
  /\ UNCHANGED <<ring, ringFile, ringSafe, sealFile, seal, vals, pen, epoch, firstLost, named, reused, crossed, encDown, left>>
TaskSaveFails(t) ==
  /\ Scanned(t) /\ left.faults > 0
  /\ Ends(t) /\ left' = Spent("faults")
  /\ UNCHANGED <<ring, ringFile, ringSafe, sealFile, seal, vals, encLog, encSnap, pen, epoch, firstLost, named, reused, crossed, encDown>>
DropKey(t) ==
  /\ encDown = "up" /\ task[t].op = "drop"
  /\ Ends(t)
  /\ IF task[t].id = ring.active \/ task[t].id \notin Ids(ring.keys)
     THEN UNCHANGED <<ring, ringFile, ringSafe, sealFile, epoch, crossed, left>>
     ELSE \E outcome \in Outcomes :
            LET r == [ring EXCEPT !.keys = {k \in @ : k[1] # task[t].id}]
            IN /\ Persisted(outcome, r, seal)
               /\ ring' = IF Adopts(outcome) THEN r ELSE ring
               /\ epoch' = IF Adopts(outcome) THEN epoch + 1 ELSE epoch
               /\ crossed' = (crossed \/ ~(task[t].rest \subseteq Ids(ring.keys)))
               /\ left' = [left EXCEPT !.faults = IF outcome = "ok" THEN @ ELSE @ - 1]
  /\ UNCHANGED <<seal, vals, encLog, encSnap, pen, firstLost, named, reused, encDown>>

---------------------------------------------------------------------------
(* A crash, perhaps with the power; the state file may go back to the one   *)
(* whose directory entry was synchronised last.                             *)
Crash(power) ==
  /\ encDown = "up" /\ left.restarts > 0 /\ left.ops > 0
  /\ encDown' = "closed" /\ task' = NoTasks /\ pen' = [w \in EncWriter |-> NoPen]
  /\ ringFile' = IF power THEN ringSafe ELSE ringFile
  /\ ringSafe' = ringFile'
  /\ firstLost' = (firstLost \/ (ringFile.there /\ ~ringFile'.there))
  /\ left' = [Spent("restarts") EXCEPT !.ops = @ - 1]
  /\ UNCHANGED <<ring, sealFile, seal, vals, encLog, encSnap, epoch, named, reused, crossed>>

\* the operator may move the seal out of the data volume, then rotate it, naming the one before
NextSeal == [file |-> {"file", "env1"}, env1 |-> {"env1", "env2"}, env2 |-> {"env2"}]
Previous == [file |-> {}, env1 |-> {}, env2 |-> {"env1"}]
Candidates(s) == (IF s = "file" THEN {} ELSE {s}) \union Previous[s] \union (IF sealFile THEN {"file"} ELSE {})

RemovesSealFile(s, outcome) == s # "file" /\ outcome = "ok"

\* a value read back: the journal over the snapshot; a vector is opened on the way
Recovered(k) ==
  LET frames == SelectSeq(encLog, LAMBDA f : f.key = k)
  IN IF frames = <<>> THEN encSnap[k] ELSE frames[Len(frames)].val
Loads == \A k \in VectorKey :
           /\ encSnap[k].has => Opens(encSnap[k].wraps, ringFile.keys)
           /\ \A i \in DOMAIN encLog : encLog[i].key = k => Opens(encLog[i].val.wraps, ringFile.keys)

\* EncryptionKeyring::open, then recovery; operations on one directory become durable in order, so
\* once the seal file is gone for good so is the file the state file replaced
Restart ==
  /\ encDown = "closed"
  /\ \E s \in NextSeal[seal] :
       /\ seal' = s
       /\ IF ~ringFile.there
          THEN /\ ring' = Empty /\ sealFile' = (sealFile /\ s = "file")
               /\ encDown' = IF Loads THEN "up" ELSE "locked"
               /\ UNCHANGED <<ringFile, ringSafe, left>>
          ELSE IF ringFile.seal \notin Candidates(s)
          THEN encDown' = "locked" /\ UNCHANGED <<ring, ringFile, ringSafe, sealFile, left>>
          ELSE LET r == [keys |-> ringFile.keys, active |-> ringFile.active]
               IN IF ringFile.seal = s
                  THEN /\ ring' = r /\ sealFile' = (sealFile /\ ~RemovesSealFile(s, "ok"))
                       /\ encDown' = IF Loads THEN "up" ELSE "locked"
                       /\ ringSafe' = IF RemovesSealFile(s, "ok") THEN ringFile ELSE ringSafe
                       /\ UNCHANGED <<ringFile, left>>
                  ELSE \E outcome \in Outcomes :
                         /\ ringFile' = IF outcome = "before" THEN ringFile ELSE FileOf(r, s)
                         /\ ringSafe' = IF outcome = "ok" THEN FileOf(r, s) ELSE ringSafe
                         /\ sealFile' = (sealFile /\ ~RemovesSealFile(s, outcome))
                         /\ ring' = IF outcome = "ok" THEN r ELSE Empty
                         /\ encDown' = IF outcome # "ok" THEN "closed" ELSE IF Loads THEN "up" ELSE "locked"
                         /\ left' = [left EXCEPT !.faults = IF outcome = "ok" THEN @ ELSE @ - 1]
       /\ vals' = [k \in EncKey |-> Recovered(k)]
  /\ UNCHANGED <<encLog, encSnap, pen, task, epoch, firstLost, named, reused, crossed>>

RotNext ==
  \/ \E id \in KeyId : InitKey(id) \/ RotateKey(id)
  \/ \E t \in 1..EncTasks :
       \/ BeginTask(t, "rewrap", NoActive) \/ \E id \in KeyId : BeginTask(t, "retire", id)
       \/ RewrapShard(t) \/ ScanShard(t) \/ FinishTask(t) \/ TaskSaveFails(t) \/ DropKey(t)
  \/ \E w \in EncWriter : StoreEnvelope(w) \/ \E k \in EncKey : EncryptFor(w, k)
  \/ EncSave
  \/ \E power \in BOOLEAN : Crash(power)
  \/ Restart
RotSpec == RotInit /\ [][RotNext]_rotVars

---------------------------------------------------------------------------
OnTime(v) == v.has /\ ~v.late
Awry == firstLost \/ reused \/ crossed

\* No key an encrypted value still needs is ever given up, in memory, in the journal or in the
\* snapshot: every value opens with the live keys and with the keys a restart would read, and the
\* server always starts again with the seals the operator names.  Set aside: an envelope made before
\* a rotation and stored only after RETIRE began to look, a first key whose state file never became
\* durable, an id given to a second key, and two RETIREs at once of which each counted on the key
\* that the other dropped.
NoValueOrphaned ==
  ~Awry =>
    /\ encDown = "up" => \A k \in EncKey \ VectorKey : OnTime(vals[k]) => Opens(vals[k].wraps, ring.keys)
    /\ ringFile.there =>
         /\ \A k \in EncKey : OnTime(encSnap[k]) => Opens(encSnap[k].wraps, ringFile.keys)
         /\ \A i \in DOMAIN encLog : ~encLog[i].val.late => Opens(encLog[i].val.wraps, ringFile.keys)
    /\ encDown = "locked" => \E i \in DOMAIN encLog : encLog[i].val.late
=============================================================================
