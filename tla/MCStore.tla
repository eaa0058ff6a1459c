------------------------------- MODULE MCStore -------------------------------
(***************************************************************************)
(* The modules around the execution gate, checked one at a time: part says *)
(* which of them runs, the others stay as they began.  Transactions never  *)
(* block for ever (deadlock is checked).                                   *)
(***************************************************************************)
EXTENDS Transaction, Sequences, TLC

CONSTANTS TierKey, Thread, Surface, Pinned, MaxHot, MaxOps, MaxTierErrors, MemKey,
  Protected, Policy, MaxMem, MaxTries, List, l1, l2, None, ListWait, Pusher, Op,
  MaxPushes, MaxWaits, MaxOthers

VARIABLES
  part,        \* the module that runs
  hot, cold, latest, ops, rebal, gate, tierReaders, tierWriter, tierPoisoned, spill,
  tierPc, cmd, used, nextVal,
  evictMem, evictJournal, wal, evictGate, inside, exec, buf, evictPc, evictCmd,
  evictId,
  list, queue, chan, listPc, wait, todo, held, answered, lost, listUsed, nextWaiter

\* Every kind of command but the generic ones in EXEC.
SafeKinds == {<<"plain", "generic">>, <<"plain", "resolved">>, <<"exec", "resolved">>}

\* BLPOP l1 l2 and BLMOVE l1 l2.
TwoKeyWaits == {[keys |-> <<l1, l2>>, dest |-> None], [keys |-> <<l1>>, dest |-> l2]}

Tiers == INSTANCE Placement WITH Key <- TierKey, MaxErrors <- MaxTierErrors,
  readers <- tierReaders, writer <- tierWriter, poisoned <- tierPoisoned,
  pc <- tierPc
Evictions == INSTANCE Eviction WITH Key <- MemKey, Kind <- SafeKinds,
  mem <- evictMem, journal <- evictJournal, gate <- evictGate, pc <- evictPc,
  cmd <- evictCmd, nextId <- evictId
Lists == INSTANCE BlockingList WITH Key <- List, Wait <- ListWait, pc <- listPc,
  used <- listUsed

\* A thread is not Nobody, and commands arrive through the three surfaces.
ASSUME ThreadAssumption == Tiers!Nobody \notin Thread
ASSUME LimitAssumption == IsFiniteSet(TierKey) /\ MaxHot \in Nat
ASSUME SurfaceAssumption == Surface \subseteq {"resp", "http", "exec"}

\* Keys and threads of the eviction are finitely many, the limit is a number of keys,
\* and the protected keys are among them.
ASSUME EvictionAssumption ==
  IsFiniteSet(MemKey) /\ IsFiniteSet(Thread) /\ MaxMem \in Nat /\ Protected \subseteq MemKey

\* Clients that block are not the threads that push; a wait names one list or more, and a
\* destination or none.
ASSUME ListAssumption ==
  /\ Client \cap Pusher = {} /\ None \notin List
  /\ ListWait \subseteq [keys : Seq(List) \ {<<>>}, dest : List \cup {None}]

transactionsVars == <<up, mem, ver, journal, poisoned, readers, writer, pc, arg,
                      got, watched, basis, left, active, spc, snap, batches, events,
                      nextId, budget>>
tiersVars == <<hot, cold, latest, ops, rebal, gate, tierReaders, tierWriter,
               tierPoisoned, spill, tierPc, cmd, used, nextVal>>
evictionVars == <<evictMem, evictJournal, wal, evictGate, inside, exec, buf,
                  evictPc, evictCmd, evictId>>
listsVars == <<list, queue, chan, listPc, wait, todo, held, answered, lost,
               listUsed, nextWaiter>>
storeVars == <<part, transactionsVars, tiersVars, evictionVars, listsVars>>

\* The variables of eviction and of the lists when they do not run.
EvictionIdle == evictMem = 0 /\ evictJournal = 0 /\ wal = 0 /\ evictGate = 0 /\
                inside = 0 /\ exec = 0 /\ buf = 0 /\ evictPc = 0 /\ evictCmd = 0 /\
                evictId = 0
ListsIdle == list = 0 /\ queue = 0 /\ chan = 0 /\ listPc = 0 /\ wait = 0 /\ todo = 0 /\
             held = 0 /\ answered = 0 /\ lost = 0 /\ listUsed = 0 /\ nextWaiter = 0

StoreInit ==
  /\ part \in {"transactions", "tiers", "eviction", "lists"}
  /\ Init
  /\ Tiers!Init
  /\ IF part = "eviction" THEN Evictions!Init ELSE EvictionIdle
  /\ IF part = "lists" THEN Lists!Init ELSE ListsIdle

StoreNext ==
  \/ part = "transactions" /\ Next /\ UNCHANGED <<part, tiersVars, evictionVars,
       listsVars>>
  \/ part = "tiers" /\ Tiers!Next /\ UNCHANGED <<part, transactionsVars,
       evictionVars, listsVars>>
  \/ part = "eviction" /\ Evictions!Next /\ UNCHANGED <<part, transactionsVars,
       tiersVars, listsVars>>
  \/ part = "lists" /\ Lists!Next /\ UNCHANGED <<part, transactionsVars, tiersVars,
       evictionVars>>
  \/ part # "transactions" /\ UNCHANGED storeVars    \* the others may stop

StoreSpec == StoreInit /\ [][StoreNext]_storeVars

StoreSymmetry == Permutations(Key) \cup Permutations(Client)

-----------------------------------------------------------------------------
(* Properties                                                              *)

\* The variables of the modules have their types; among them: nobody spills
\* while counted in (tiered_memory_boundary), and only a generic command keeps the
\* journal locked from one step to the next (commit_journaled_checked).
StoreTypeOK ==
  /\ part = "transactions" => TypeOK
  /\ part = "tiers" => Tiers!TypeOK
  /\ part = "eviction" => Evictions!TypeOK
  /\ part = "lists" => Lists!TypeOK

\* MULTI/EXEC (store/transactions.rs): at every moment a crash recovers a
\* transaction whole or not at all, a snapshot holds it whole or not at all, key
\* events follow its durable frame, and a healthy quiet database is what a restart
\* would rebuild.
TransactionsRecover ==
  part = "transactions" =>
    /\ RecoversWholeBatch /\ SnapshotIsCommitted
    /\ EventsFollowCommit /\ QuietMatchesJournal

\* No reply shows an uncommitted mutation or a part of a transaction, and EXEC runs
\* only if every watched key is as WATCH left it (the execution gate).
TransactionsIsolated ==
  NoDirtyRead /\ ExecIsolated /\ WatchedKeysUnchanged

\* Tiered placement (store/mod.rs): the last value of a key is in exactly one place,
\* a promoted key stays in memory until its command ran, memory is back under the
\* limit when nobody is inside, and the fast read path answers the last value.
TiersSound ==
  /\ [](part = "tiers" => Tiers!OnePlace /\ Tiers!StaysPromoted /\ Tiers!CeilingRestored)
  /\ Tiers!FastReadsLatest

\* Memory-mode eviction (store/mod.rs: evict_if_needed): the journal rebuilds what is
\* in memory, evictions included; memory passes the limit by at most a key per
\* thread; and no key of a table is taken away.
EvictionSound ==
  /\ [](part = "eviction" => Evictions!ReplayMatchesMemory /\ Evictions!MemoryBounded)
  /\ [][part = "eviction" => Evictions!TablesKept]_evictionVars

\* Blocking lists (lib.rs, cmd/lists.rs: drain_list_waiters): every element pushed
\* is in exactly one place, a list, a channel, the hands of a drain or an answer,
\* however pushes, pops, timeouts and disconnects interleave.
ListsConserve == part = "lists" => Lists!Conserved
=============================================================================
