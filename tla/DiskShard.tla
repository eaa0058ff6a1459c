----------------------------- MODULE DiskShard -----------------------------
(***************************************************************************)
(* The cold tier of one shard (DiskShard in src/src/disk.rs): an append-   *)
(* only data file, an index in memory, and a compaction that writes a new  *)
(* generation beside the old one and renames it over it.  Entries are      *)
(* appended without a sync; the process may be killed at any step and the  *)
(* machine may lose power, which cuts unsynchronised bytes off and undoes  *)
(* directory changes that were not synchronised.                           *)
(* A cell of a file is a record, a record whose checksum does not match    *)
(* (Rot), or the partial bytes of an append (Junk); the file's magic is    *)
(* written and synchronised when the file is created.                      *)
(* Recovery of a persistent store discards these files and rebuilds the    *)
(* placement (discard_tiered_cache); an open of existing files is what     *)
(* DiskShard itself promises, and what a store without a journal relies on.*)
(***************************************************************************)
EXTENDS Integers, Sequences, FiniteSets, FiniteSetsExt, Functions

CONSTANTS
  DiskKey,        \* keys that are evicted to disk
  MaxVer,         \* bound: entries appended
  MaxIno,         \* bound: files created
  MaxDiskFaults,  \* bound: I/O errors
  MaxDiskCrashes  \* bound: kills and power losses

VARIABLES
  ino,            \* the files: [cells, synced]
  dir,            \* the shard's directory: data, backup and temp name a file, or 0
  dirs,           \* its states since the last directory sync, the durable one first
  shard,          \* the open DiskShard; an index entry of 0 is an offset where no record
                  \* begins; past is the cell where bytes beyond total_bytes begin, or 0;
                  \* spoilt (ghost): a failed append could not be cut off
  compacting,     \* where compact_inner stands
  ver,            \* the version of the last entry appended
  safe,           \* per key, the version on stable storage that power loss must not lose
  floor,          \* per key, what the next open must find
  diskFaults, diskCrashes,
  refusedOpen,    \* the last open ended with an error
  blackout        \* power was lost

diskVars == <<ino, dir, dirs, shard, compacting, ver, safe, floor, diskFaults, diskCrashes, refusedOpen,
              blackout>>

Rot == [key |-> "rot", ver |-> 0]
Junk == [key |-> "junk", ver |-> 0]
None == [k \in DiskKey |-> 0]
Closed == [open |-> FALSE, file |-> 0, index |-> <<>>, total |-> 0, dead |-> 0, safeToCompact |-> FALSE,
           past |-> 0, spoilt |-> FALSE]
NoFile == [cells |-> <<>>, synced |-> 0]

DiskInit ==
  /\ ino = <<>> /\ dir = [data |-> 0, backup |-> 0, temp |-> 0] /\ dirs = <<dir>>
  /\ shard = Closed /\ compacting = "no" /\ ver = 0 /\ safe = None /\ floor = None
  /\ diskFaults = 0 /\ diskCrashes = 0 /\ refusedOpen = FALSE /\ blackout = FALSE

Cells == ino[shard.file].cells
ChangeDir(d) == dir' = d /\ dirs' = Append(dirs, d)
SyncDirectory == dirs' = <<dir>> /\ UNCHANGED dir

\* remove_compaction_artifacts, which ends with a directory sync
Tidied(d) == [d EXCEPT !.backup = 0, !.temp = 0]

Fault == diskFaults < MaxDiskFaults /\ diskFaults' = diskFaults + 1

\* rebuild_index: the last record of a key wins
Rebuilt(cells) ==
  LET keys == {cells[i].key : i \in DOMAIN cells} \intersect DiskKey IN
  [k \in keys |-> Max({i \in DOMAIN cells : cells[i].key = k})]

VersionIn(index, cells, k) == IF k \in DOMAIN index /\ index[k] # 0 THEN cells[index[k]].ver ELSE 0

\* How rebuild_index frames a file with partial bytes before its end: their length
\* field reaches past the end, where reading stops, or swallows records behind them,
\* which makes one record with a wrong checksum.
Framings(cells) ==
  LET from[i \in 1..(Len(cells) + 1)] ==
        IF i > Len(cells) THEN {<<>>}
        ELSE IF cells[i] # Junk THEN {<<cells[i]>> \o rest : rest \in from[i + 1]}
        ELSE {<<Junk>>} \union UNION {{<<Rot>> \o rest : rest \in from[n + 1]} : n \in (i + 1)..Len(cells)}
  IN from[1]

-----------------------------------------------------------------------------
(* Opening                                                                 *)

\* open.  A missing data file is taken back from the backup; a torn tail is cut
\* off unless a previous generation is there, which then refuses the start.
OpenAs(read) ==
  LET d0 == dir
      hadBackup == d0.backup # 0
      d1 == IF d0.data = 0 /\ hadBackup THEN [d0 EXCEPT !.data = d0.backup, !.backup = 0] ELSE d0
      fresh == d1.data = 0
      file == IF fresh THEN Len(ino) + 1 ELSE d1.data
      cells == IF fresh THEN <<>> ELSE read
      torn == cells # <<>> /\ cells[Len(cells)] = Junk
      kept == IF torn THEN SubSeq(cells, 1, Len(cells) - 1) ELSE cells
      index == Rebuilt(kept)
      clean == ~torn /\ \A i \in DOMAIN kept : kept[i] # Rot
      d2 == [d1 EXCEPT !.data = file]
      d3 == IF clean THEN Tidied(d2) ELSE d2
      refuses == (fresh /\ d1.temp # 0) \/ (torn /\ hadBackup)
  IN
  /\ ~shard.open /\ ~refusedOpen
  /\ fresh => Len(ino) < MaxIno
  /\ refusedOpen' = refuses
  /\ IF refuses THEN UNCHANGED <<ino, dir, dirs, shard, safe, floor>>
     ELSE /\ ino' = IF fresh THEN Append(ino, NoFile)
                    ELSE [ino EXCEPT ![file] = [cells |-> kept, synced |-> IF torn THEN Len(kept) ELSE @.synced]]
          /\ dir' = d3 /\ dirs' = <<d3>>
          /\ shard' = [open |-> TRUE, file |-> file, index |-> index, total |-> Len(kept),
                       dead |-> Len(kept) - Cardinality(DOMAIN index), safeToCompact |-> clean,
                       past |-> 0, spoilt |-> FALSE]
          /\ UNCHANGED <<safe, floor>>
  /\ UNCHANGED <<compacting, ver, diskFaults, diskCrashes, blackout>>

\* The file that an open finds, under its name or under that of the backup.
Found == IF dir.data # 0 THEN dir.data ELSE dir.backup
Open == \E read \in IF Found = 0 THEN {<<>>} ELSE Framings(ino[Found].cells) : OpenAs(read)

-----------------------------------------------------------------------------
(* Operations; all hold the shard's mutex, so none runs inside a compaction *)

Idle == shard.open /\ compacting = "no"

\* The entry a re-eviction leaves unreachable.
DeadBy(k) == IF k \in DOMAIN shard.index THEN 1 ELSE 0

\* Which key is put first makes no difference.
FirstKey == CHOOSE k \in DiskKey : TRUE

\* put: one append at the end of the file, no sync, indexed at total_bytes
Put(k) ==
  /\ Idle /\ ver < MaxVer /\ ver' = ver + 1
  /\ ver = 0 => k = FirstKey
  /\ ino' = [ino EXCEPT ![shard.file].cells = Append(@, [key |-> k, ver |-> ver + 1])]
  /\ shard' = [shard EXCEPT !.index = [j \in DOMAIN @ \union {k} |->
                                         IF j # k THEN @[j] ELSE IF shard.past = 0 THEN Len(Cells) + 1 ELSE 0],
                            !.total = @ + 1, !.dead = @ + DeadBy(k)]
  /\ floor' = [floor EXCEPT ![k] = IF shard.spoilt THEN 0 ELSE ver + 1]
  /\ UNCHANGED <<dir, dirs, compacting, safe, diskFaults, diskCrashes, refusedOpen, blackout>>

\* set_len(total_bytes): bytes that an earlier failure left there, and what was put
\* behind them, shift the cut into a later record.
Truncated ==
  IF shard.past = 0 THEN {Cells}
  ELSE IF \A i \in shard.past..Len(Cells) : Cells[i] = Junk THEN {SubSeq(Cells, 1, shard.past - 1)}
  ELSE {Append(SubSeq(Cells, 1, n), Junk) : n \in shard.past..(Len(Cells) - 1)}

\* A failed write is truncated away, and the entry stays in memory.  The result of the
\* truncation is not looked at: when it fails too, the partial bytes stay.
PutFails ==
  /\ Idle /\ Fault
  /\ \/ \E cut \in Truncated : /\ ino' = [ino EXCEPT ![shard.file].cells = cut]
                               /\ shard' = [shard EXCEPT !.past = 0, !.spoilt = @ /\ Junk \in Range(cut)]
     \/ /\ ino' = [ino EXCEPT ![shard.file].cells = Append(@, Junk)]
        /\ shard' = [shard EXCEPT !.past = IF @ = 0 THEN Len(Cells) + 1 ELSE @, !.spoilt = TRUE]
  /\ UNCHANGED <<dir, dirs, compacting, ver, safe, floor, diskCrashes, refusedOpen, blackout>>

\* remove, and get of an expired entry: no tombstone is written
RemoveKey(k) ==
  /\ Idle /\ k \in DOMAIN shard.index
  /\ shard' = [shard EXCEPT !.index = Restrict(@, DOMAIN @ \ {k}), !.dead = @ + 1]
  /\ safe' = [safe EXCEPT ![k] = 0] /\ floor' = [floor EXCEPT ![k] = 0]
  /\ UNCHANGED <<ino, dir, dirs, compacting, ver, diskFaults, diskCrashes, refusedOpen, blackout>>

-----------------------------------------------------------------------------
(* compact_inner                                                           *)

\* The live records in key order, as the new generation holds them.
Survivors ==
  LET order == CHOOSE s \in [1..Cardinality(DOMAIN shard.index) -> DOMAIN shard.index] :
                 \A i, j \in DOMAIN s : i # j => s[i] # s[j]
  IN [i \in DOMAIN order |-> Cells[shard.index[order[i]]]]

CompactBegin ==
  /\ Idle /\ shard.safeToCompact /\ shard.dead > 0 /\ Len(ino) < MaxIno
  /\ ino' = Append(ino, NoFile)
  /\ dir' = [Tidied(dir) EXCEPT !.temp = Len(ino) + 1] /\ dirs' = <<Tidied(dir), dir'>>
  /\ compacting' = "copy"
  /\ UNCHANGED <<shard, ver, safe, floor, diskFaults, diskCrashes, refusedOpen, blackout>>

\* Variant: the new generation is renamed without having been synchronised.
SyncsNothing(cells) == 0

\* compacted.sync_all
SyncedCells(cells) == Len(cells)

\* read_indexed_entry finds each record where the index says.
Readable == \A k \in DOMAIN shard.index : shard.index[k] # 0

CompactCopy ==
  /\ compacting = "copy" /\ Readable /\ compacting' = "link"
  /\ ino' = [ino EXCEPT ![dir.temp] = [cells |-> Survivors, synced |-> SyncedCells(Survivors)]]
  /\ UNCHANGED <<dir, dirs, shard, ver, safe, floor, diskFaults, diskCrashes, refusedOpen, blackout>>

\* hard_link of the canonical file to the backup name
CompactLink ==
  /\ compacting = "link" /\ compacting' = "syncBackup" /\ ChangeDir([dir EXCEPT !.backup = dir.data])
  /\ UNCHANGED <<ino, shard, ver, safe, floor, diskFaults, diskCrashes, refusedOpen, blackout>>

CompactSyncBackup ==
  /\ compacting = "syncBackup" /\ compacting' = "rename" /\ SyncDirectory
  /\ UNCHANGED <<ino, shard, ver, safe, floor, diskFaults, diskCrashes, refusedOpen, blackout>>

\* Variant: appends keep going to the file that was replaced.
KeepsHandle(new) == shard.file

\* self.data_file = compacted, before anything later can fail
HandleAfter(new) == new

\* rename, which power loss may leave half done, and the publication of the
\* handle and the index.
CompactRename ==
  LET new == dir.temp
      cells == ino[new].cells
  IN
  /\ compacting = "rename" /\ compacting' = "syncRename"
  /\ dir' = [dir EXCEPT !.data = new, !.temp = 0]
  /\ dirs' = dirs \o <<[dir EXCEPT !.data = 0, !.temp = 0], dir'>>
  /\ shard' = [shard EXCEPT !.file = HandleAfter(new), !.index = Rebuilt(cells), !.total = Len(cells), !.dead = 0,
                            !.past = 0, !.spoilt = FALSE]
  /\ UNCHANGED <<ino, ver, safe, floor, diskFaults, diskCrashes, refusedOpen, blackout>>

CompactSyncRename ==
  /\ compacting = "syncRename" /\ compacting' = "unlink" /\ SyncDirectory
  /\ safe' = [k \in DiskKey |-> VersionIn(shard.index, Cells, k)]
  /\ UNCHANGED <<ino, shard, ver, floor, diskFaults, diskCrashes, refusedOpen, blackout>>

CompactUnlink ==
  /\ compacting = "unlink" /\ compacting' = "syncUnlink" /\ ChangeDir([dir EXCEPT !.backup = 0])
  /\ UNCHANGED <<ino, shard, ver, safe, floor, diskFaults, diskCrashes, refusedOpen, blackout>>

CompactDone ==
  /\ compacting = "syncUnlink" /\ compacting' = "no" /\ SyncDirectory
  /\ UNCHANGED <<ino, shard, ver, safe, floor, diskFaults, diskCrashes, refusedOpen, blackout>>

\* An error, or a record that cannot be read, before the rename removes the staging
\* and backup names; after it everything stays as it is.
CompactFails ==
  /\ compacting # "no" /\ compacting' = "no"
  /\ Fault \/ (compacting = "copy" /\ ~Readable /\ UNCHANGED diskFaults)
  /\ IF compacting \in {"copy", "link", "syncBackup", "rename"}
     THEN dir' = Tidied(dir) /\ dirs' = <<dir'>>
     ELSE UNCHANGED <<dir, dirs>>
  /\ UNCHANGED <<ino, shard, ver, safe, floor, diskCrashes, refusedOpen, blackout>>

-----------------------------------------------------------------------------
(* Crashes                                                                 *)

\* The process is killed, perhaps inside an append.
Kill ==
  /\ shard.open /\ diskCrashes < MaxDiskCrashes /\ diskCrashes' = diskCrashes + 1
  /\ \/ UNCHANGED ino
     \/ compacting = "no" /\ ino' = [ino EXCEPT ![shard.file].cells = Append(@, Junk)]
  /\ shard' = Closed /\ compacting' = "no"
  /\ UNCHANGED <<dir, dirs, ver, safe, floor, diskFaults, refusedOpen, blackout>>

\* What is left of a file: at least what was synchronised; the last of the rest
\* may be rotten or torn.
Left(f) ==
  {[cells |-> SubSeq(f.cells, 1, n), synced |-> n] : n \in f.synced..Len(f.cells)} \union
  {[cells |-> Append(SubSeq(f.cells, 1, n - 1), bad), synced |-> n] :
      n \in (f.synced + 1)..Len(f.cells), bad \in {Rot, Junk}}

\* Files that no name refers to are gone, so what is left of them is not told apart.
PowerLoss ==
  /\ diskCrashes < MaxDiskCrashes /\ diskCrashes' = diskCrashes + 1 /\ shard.open
  /\ \E i \in DOMAIN dirs : dir' = dirs[i] /\ dirs' = <<dirs[i]>>
  /\ LET named == {dir'.data, dir'.backup} \ {0} IN
     \E f \in [named -> UNION {Left(ino[n]) : n \in named}] :
       /\ \A n \in named : f[n] \in Left(ino[n])
       /\ ino' = [n \in DOMAIN ino |-> IF n \in named THEN f[n] ELSE NoFile]
  /\ shard' = Closed /\ compacting' = "no" /\ floor' = safe
  /\ blackout' = TRUE /\ UNCHANGED <<ver, safe, diskFaults, refusedOpen>>

DiskNext ==
  \/ Open \/ PutFails \/ CompactBegin \/ CompactCopy \/ CompactLink \/ CompactSyncBackup
  \/ CompactRename \/ CompactSyncRename \/ CompactUnlink \/ CompactDone \/ CompactFails
  \/ Kill \/ PowerLoss
  \/ \E k \in DiskKey : Put(k) \/ RemoveKey(k)

DiskSpec == DiskInit /\ [][DiskNext]_diskVars

-----------------------------------------------------------------------------
(* Properties                                                              *)

\* While a shard is open its index points at whole records of the right key,
\* each at least as new as what must still be there, and dead_bytes is what the
\* index does not reach: across re-evictions, failed appends, compactions that
\* fail at any step and every recovery.  The exception is a failed append whose
\* truncation failed as well: what is put behind it is indexed where no record
\* begins, until the next open; what was there before stays reachable.
IndexFaithful ==
  shard.open =>
    /\ shard.dead = shard.total - Cardinality(DOMAIN shard.index)
    /\ shard.spoilt \/ shard.total = Len(Cells)
    /\ \A k \in DOMAIN shard.index :
         \/ shard.index[k] \in DOMAIN Cells /\ Cells[shard.index[k]].key = k
         \/ shard.spoilt /\ shard.index[k] = 0 /\ floor[k] = 0
    /\ \A k \in DiskKey : VersionIn(shard.index, Cells, k) >= floor[k]

\* A kill at any step never leaves files a later open refuses (the recovery
\* branches of open): that takes an I/O error, or a power loss while the backup
\* is a second name of a generation whose last appends were not synchronised.
OpensAgain == refusedOpen => diskFaults > 0 \/ blackout
=============================================================================
