----------------------------- MODULE LocalStack -----------------------------
(***************************************************************************)
(* The CLI's local stack: `lux start', `lux stop', `lux restore',          *)
(* `lux seed run' and the engine upgrade (cli/src/lib.rs and               *)
(* cli/src/upgrade.rs).                                                    *)
(*                                                                         *)
(* The upgrade takes the engine offline, saves a snapshot, copies it to a  *)
(* new volume, verifies a candidate there and only then cuts over.  Every  *)
(* step is a Docker command that can fail, the CLI can die between any two *)
(* of them, and the host can restart; the next local command finds the     *)
(* upgrade record and either restores the source or finishes the cutover.  *)
(*                                                                         *)
(* Volumes are numbered, an upgrade goes from one to the next.  con[v] is  *)
(* the container on volume v that is, was or will be the project's engine. *)
(* A container serves applications when it runs with its network attached. *)
(*                                                                         *)
(* A command reads the whole state file once and writes the whole of its   *)
(* copy back.  The lock keeps commands apart only once the state file is   *)
(* there, and `lux seed run' never takes it.                               *)
(***************************************************************************)
EXTENDS Integers, FiniteSets

CONSTANTS
  Cli,          \* CLI processes (numbers)
  MaxVol,       \* volumes: one more than the upgrades
  MaxWrites,    \* application writes
  MaxDockerFaults, \* failed Docker commands, CLI deaths and host restarts
  MaxStarts,    \* commands issued
  MaxFresh      \* of them, those that discard data: start --fresh, stop --clear, restore

Vol == 1..MaxVol
Trial == 0      \* what background jobs of a verified candidate write

VARIABLES
  cliLock,      \* holder of lux/.backups/engine.lock
  state,        \* lux/.lux-local.json: whether it is there, the volume, the seed status
  mine,         \* the copy of it that each CLI process holds
  pending,      \* lux/.backups/engine-upgrade.json
  con,          \* the engine container of each volume
  probe,        \* the verification container on the target volume
  vols,         \* the volumes that exist
  imports,      \* those with a staged restore, which the next engine start applies
  data,         \* the writes each volume holds
  snap,         \* the snapshot copied to the target volume and staged there
  acked,        \* ghost: application writes acknowledged and not discarded
  seeded,       \* ghost: automatic seed runs on the current data
  raced,        \* ghost: a command began beside one that had found no state file to lock
  stale,        \* ghost: a copy of the state file overwrote another volume's
  cli,          \* where each CLI process is
  left          \* remaining writes, faults and commands

stackVars == <<cliLock, state, mine, pending, con, probe, vols, imports, data, snap, acked, seeded, raced, stale,
               cli, left>>

NoCli == 0
Absent == [name |-> "none", up |-> FALSE, net |-> FALSE, restart |-> FALSE]
NoUpgrade == [phase |-> "none", was |-> FALSE, src |-> 1, seed |-> "pending"]
FirstState == [vol |-> 1, seed |-> "pending"]

Serving(v) == con[v].up /\ con[v].net
Main == {v \in Vol : con[v].name = "main"}
Source == pending.src
Target == pending.src + 1

StackInit ==
  /\ cliLock = NoCli
  /\ state = [there |-> FALSE, vol |-> 1, seed |-> "pending"]
  /\ mine = [p \in Cli |-> FirstState]
  /\ pending = NoUpgrade
  /\ con = [v \in Vol |-> Absent]
  /\ probe = "none"
  /\ vols = {} /\ imports = {}
  /\ data = [v \in Vol |-> {}]
  /\ snap = {}
  /\ acked = {}
  /\ seeded = 0 /\ raced = FALSE /\ stale = FALSE
  /\ cli = [p \in Cli |-> "idle"]
  /\ left = [writes |-> MaxWrites, faults |-> MaxDockerFaults, starts |-> MaxStarts,
             fresh |-> MaxFresh]

Use(what) == left[what] > 0 /\ left' = [left EXCEPT ![what] = @ - 1]
Goto(p, at) == cli' = [cli EXCEPT ![p] = at]
Release(p) == cliLock' = IF cliLock = p THEN NoCli ELSE cliLock
\* the copy goes with the process
Exit(p) == Goto(p, "idle") /\ Release(p) /\ mine' = [mine EXCEPT ![p] = FirstState]

\* load_local_state, and save_local_state of a copy
Load(p) == mine' = [mine EXCEPT ![p] = [vol |-> state.vol, seed |-> state.seed]]
SaveState(m) ==
  /\ state' = [there |-> TRUE, vol |-> m.vol, seed |-> m.seed]
  /\ stale' = (stale \/ (state.there /\ state.vol # m.vol))

\* The engines of these volumes start: one with a staged restore begins with its
\* snapshot, a backup older than every write here.
Boots(started) ==
  LET restored == started \cap imports IN
  /\ data' = [v \in Vol |-> IF v \in restored THEN {} ELSE data[v]]
  /\ acked' = IF restored = {} THEN acked ELSE {}
  /\ imports' = imports \ started

\* docker volume rm: whatever the volume held is given up
Discard(v) ==
  /\ data' = [data EXCEPT ![v] = {}] /\ vols' = vols \ {v} /\ imports' = imports \ {v}
  /\ acked' = {} /\ seeded' = 0

\* An application writes to the engine it can reach, and is answered.
AppWrite ==
  /\ Use("writes")
  /\ \E v \in Vol :
       /\ Serving(v)
       /\ data' = [data EXCEPT ![v] = @ \cup {left.writes}]
  /\ acked' = acked \cup {left.writes}
  /\ UNCHANGED <<cliLock, state, mine, pending, con, probe, vols, imports, snap, seeded, raced, stale, cli>>

(***************************************************************************)
(* A local command takes the lock, if there is a state file, and settles   *)
(* an interrupted upgrade before it does anything else.                    *)
(***************************************************************************)
LocalMutation == {"start", "stop", "reload", "upgrade"}

RestoresAlways(phase) == phase # "none"
RestoresIn(phase) == phase = "preparing"

ByHand == {"handLoaded", "handRuns"}
Unlocked(q) == cli[q] \notin {"idle"} \cup ByHand /\ cliLock # q

\* The first process that is idle takes the next command; bound: none after two
\* that raced.
Issued(p) == cli[p] = "idle" /\ (\A q \in Cli : q < p => cli[q] # "idle") /\ ~raced /\ Use("starts")

Lock(p, command) ==
  /\ Issued(p)
  /\ IF state.there
     THEN /\ cliLock = NoCli /\ cliLock' = p
          /\ Goto(p, IF RestoresIn(pending.phase) THEN "restore"
                     ELSE IF pending.phase = "cutover" THEN "finish" ELSE command)
     ELSE command = "start" /\ Goto(p, command) /\ UNCHANGED cliLock
  /\ raced' = (raced \/ \E q \in Cli \ {p} : Unlocked(q))
  /\ UNCHANGED <<state, mine, pending, con, probe, vols, imports, data, snap, acked, seeded, stale>>

(***************************************************************************)
(* lux start: reuse a matching engine, otherwise replace the container;    *)
(* --fresh discards the volume.  A volume that did not exist needs seeding.*)
(***************************************************************************)
EnsureState(p) ==
  /\ cli[p] = "start"
  /\ Load(p)
  /\ state' = [state EXCEPT !.there = TRUE]
  /\ Goto(p, "started")
  /\ UNCHANGED <<cliLock, pending, con, probe, vols, imports, data, snap, acked, seeded, raced, stale, left>>

StartReuse(p) ==
  /\ cli[p] = "started"
  /\ \E v \in Main : con[v].up
  /\ Goto(p, "prepare")
  /\ UNCHANGED <<cliLock, state, mine, pending, con, probe, vols, imports, data, snap, acked, seeded, raced, stale, left>>

NewContainer(start) == [name |-> "main", up |-> start, net |-> TRUE, restart |-> TRUE]
ReplaceMain(c) == [v \in Vol |-> IF v \in Main THEN c ELSE con[v]]

StartRemove(p) ==
  /\ cli[p] = "started"
  /\ con' = ReplaceMain(Absent)
  /\ Goto(p, "volume")
  /\ UNCHANGED <<cliLock, state, mine, pending, probe, vols, imports, data, snap, acked, seeded, raced, stale, left>>

\* A volume that a container still uses cannot be removed.
StartVolume(p) ==
  /\ cli[p] = "volume"
  /\ \E fresh \in BOOLEAN :
       LET volume == mine[p].vol
           pristine == [mine[p] EXCEPT !.seed = "pending"]
       IN
       /\ IF fresh THEN Use("fresh") ELSE UNCHANGED left
       /\ IF fresh /\ volume \in vols /\ con[volume] # Absent
          THEN Exit(p) /\ UNCHANGED <<state, stale, vols, imports, data, acked, seeded>>
          ELSE /\ IF fresh THEN Discard(volume) ELSE UNCHANGED <<vols, imports, data, acked, seeded>>
               /\ IF fresh \/ volume \notin vols
                  THEN SaveState(pristine) /\ mine' = [mine EXCEPT ![p] = pristine]
                  ELSE UNCHANGED <<state, stale, mine>>
               /\ Goto(p, "create") /\ UNCHANGED cliLock
  /\ UNCHANGED <<pending, con, probe, snap, raced>>

\* docker run, which creates the volume too, and fails where the name is taken
StartCreate(p) ==
  /\ cli[p] = "create"
  /\ IF Main # {}
     THEN Exit(p) /\ UNCHANGED <<con, vols, imports, data, acked>>
     ELSE /\ con' = [con EXCEPT ![mine[p].vol] = NewContainer(TRUE)]
          /\ vols' = vols \cup {mine[p].vol} /\ Boots({mine[p].vol})
          /\ Goto(p, "prepare") /\ UNCHANGED <<cliLock, mine>>
  /\ UNCHANGED <<state, pending, probe, snap, seeded, raced, stale, left>>

(***************************************************************************)
(* prepare_local_data(): migrations, then the seed.  Its status is saved   *)
(* before the first command runs and again after the last.                 *)
(***************************************************************************)
SeedsAgain(s) == s = "complete"
NoAutomaticSeed(s) == s \in {"running", "complete"}

SaveSeed(p, status) ==
  LET m == [mine[p] EXCEPT !.seed = status] IN
  SaveState(m) /\ mine' = [mine EXCEPT ![p] = m]

PrepareSeed(p) ==
  /\ cli[p] = "prepare"
  /\ IF NoAutomaticSeed(mine[p].seed)
     THEN Exit(p) /\ UNCHANGED <<state, stale>>
     ELSE SaveSeed(p, "running") /\ Goto(p, "seed") /\ UNCHANGED cliLock
  /\ UNCHANGED <<pending, con, probe, vols, imports, data, snap, acked, seeded, raced, left>>

RunSeed(p) ==
  /\ cli[p] = "seed"
  /\ seeded' = seeded + 1
  /\ Goto(p, "seeded")
  /\ UNCHANGED <<cliLock, state, mine, pending, con, probe, vols, imports, data, snap, acked, raced, stale, left>>

SeedComplete(p) ==
  /\ cli[p] = "seeded"
  /\ SaveState([mine[p] EXCEPT !.seed = "complete"])
  /\ Exit(p)
  /\ UNCHANGED <<pending, con, probe, vols, imports, data, snap, acked, seeded, raced, left>>

\* `lux seed run' of an operator who has looked at the data.  It takes no lock, and
\* writes the state file before and after the commands of the seed.
SeedByHand(p) ==
  /\ \/ /\ Issued(p) /\ state.there /\ state.seed # "complete"
        /\ Load(p) /\ Goto(p, "handLoaded") /\ UNCHANGED <<cliLock, state, stale>>
     \/ /\ cli[p] = "handLoaded"
        /\ SaveSeed(p, "running") /\ Goto(p, "handRuns") /\ UNCHANGED <<cliLock, left>>
     \/ /\ cli[p] = "handRuns"
        /\ SaveState([mine[p] EXCEPT !.seed = "complete"]) /\ Exit(p) /\ UNCHANGED left
  /\ UNCHANGED <<pending, con, probe, vols, imports, data, snap, acked, seeded, raced>>

\* lux stop removes the container and keeps the volume; with --clear it goes too.
Stop(p) ==
  /\ \/ /\ cli[p] = "stop"
        /\ con' = ReplaceMain(Absent)
        /\ \/ Exit(p) /\ UNCHANGED left
           \/ Use("fresh") /\ Load(p) /\ Goto(p, "clear") /\ UNCHANGED cliLock
        /\ UNCHANGED <<vols, imports, data, acked, seeded>>
     \/ /\ cli[p] = "clear"
        /\ IF mine[p].vol \in vols /\ con[mine[p].vol] = Absent THEN Discard(mine[p].vol)
           ELSE UNCHANGED <<vols, imports, data, acked, seeded>>
        /\ Exit(p) /\ UNCHANGED <<con, left>>
  /\ UNCHANGED <<state, pending, probe, snap, raced, stale>>

\* lux restore: the running engine validates and stages a snapshot, and a new
\* container on the same volume applies it.
RestoreFile(p) ==
  /\ \/ /\ cli[p] = "reload"
        /\ IF \E v \in Main : con[v].up
           THEN Use("fresh") /\ imports' = imports \cup Main /\ Load(p) /\ Goto(p, "reloadRemove") /\ UNCHANGED cliLock
           ELSE Exit(p) /\ UNCHANGED <<imports, left>>
        /\ UNCHANGED <<con, data, acked>>
     \/ /\ cli[p] = "reloadRemove"
        /\ con' = ReplaceMain(Absent) /\ Goto(p, "reloadCreate")
        /\ UNCHANGED <<cliLock, mine, imports, data, acked, left>>
     \/ /\ cli[p] = "reloadCreate"
        /\ IF Main # {} THEN UNCHANGED <<con, imports, data, acked>>
           ELSE con' = [con EXCEPT ![mine[p].vol] = NewContainer(TRUE)] /\ Boots({mine[p].vol})
        /\ Exit(p) /\ UNCHANGED left
  /\ UNCHANGED <<state, pending, probe, vols, snap, seeded, raced, stale>>

(***************************************************************************)
(* upgrade::perform(): the record, then the preparation step by step.      *)
(***************************************************************************)
Begin(p) ==
  /\ cli[p] = "upgrade"
  /\ IF state.vol \in Main /\ state.vol + 1 \in Vol
     THEN /\ pending' = [phase |-> "preparing", was |-> con[state.vol].up, src |-> state.vol, seed |-> state.seed]
          /\ Goto(p, "policy")
          /\ UNCHANGED <<cliLock, mine>>
     ELSE Exit(p) /\ UNCHANGED pending
  /\ UNCHANGED <<state, con, probe, vols, imports, data, snap, acked, seeded, raced, stale, left>>

DisconnectsLater(c) == c
Disconnected(c) == [c EXCEPT !.net = FALSE]

\* No restart by the daemon, no application network, and a stopped engine is
\* started only after both.
Isolate(p) ==
  /\ \/ /\ cli[p] = "policy"
        /\ con' = [con EXCEPT ![Source].restart = FALSE]
        /\ Goto(p, "disconnect")
        /\ Boots({})
     \/ /\ cli[p] = "disconnect"
        /\ con' = [con EXCEPT ![Source] = Disconnected(@)]
        /\ Goto(p, "boot")
        /\ Boots({})
     \/ /\ cli[p] = "boot"
        /\ con' = [con EXCEPT ![Source].up = TRUE]
        /\ Goto(p, "save")
        /\ Boots(IF con[Source].up THEN {} ELSE {Source})
  /\ UNCHANGED <<cliLock, state, mine, pending, probe, vols, snap, seeded, raced, stale, left>>

\* SAVE, kill, rename, and the copy into the new volume.
Copy(p) ==
  /\ \/ /\ cli[p] = "save"
        /\ snap' = data[Source]
        /\ Goto(p, "kill")
        /\ UNCHANGED con
     \/ /\ cli[p] = "kill"
        /\ con' = [con EXCEPT ![Source].up = FALSE]
        /\ Goto(p, "rename")
        /\ UNCHANGED snap
     \/ /\ cli[p] = "rename"
        /\ con' = [con EXCEPT ![Source].name = "backup"]
        /\ Goto(p, "probe")
        /\ UNCHANGED snap
  /\ UNCHANGED <<cliLock, state, mine, pending, probe, vols, imports, data, acked, seeded, raced, stale, left>>

\* What a candidate started after a confirmed staged import holds.
StageImport == [data EXCEPT ![Target] = snap]

\* Variant: the candidate that was verified becomes the engine as it is.
VerifiesOnce == FALSE

\* After the verification the original snapshot is staged again.
StagesAgain == TRUE

\* The candidate runs on the imported copy without a network; background jobs
\* may write there.  The snapshot is staged a second time before cutover.
Verify(p) ==
  /\ \/ /\ cli[p] = "probe"
        /\ probe' = "up"
        /\ data' = StageImport
        /\ vols' = vols \cup {Target}
        /\ Goto(p, "trial")
     \/ /\ cli[p] = "trial"
        /\ data' = [data EXCEPT ![Target] = @ \cup {Trial}]
        /\ Goto(p, "stage")
        /\ UNCHANGED <<probe, vols>>
     \/ /\ cli[p] = "stage"
        /\ probe' = "down"
        /\ data' = IF StagesAgain THEN StageImport ELSE data
        /\ Goto(p, "cutover")
        /\ UNCHANGED vols
  /\ UNCHANGED <<cliLock, state, mine, pending, con, imports, snap, acked, seeded, raced, stale, left>>

Cutover(p) ==
  /\ cli[p] = "cutover"
  /\ pending' = [pending EXCEPT !.phase = "cutover"]
  /\ Goto(p, "finish")
  /\ UNCHANGED <<cliLock, state, mine, con, probe, vols, imports, data, snap, acked, seeded, raced, stale, left>>

Preparing == {"policy", "disconnect", "boot", "save", "kill", "rename", "probe", "trial", "stage"}

(***************************************************************************)
(* finish_cutover(): the state file names the target before any port is    *)
(* published.                                                              *)
(***************************************************************************)
FinishCutover(p) ==
  /\ \/ /\ cli[p] = "finish"
        /\ state' = [there |-> TRUE, vol |-> Target, seed |-> pending.seed]
        /\ Goto(p, "publish")
        /\ UNCHANGED <<con, probe, pending, cliLock, mine>>
     \/ /\ cli[p] = "publish"
        /\ con' = [con EXCEPT ![Target] =
                     IF @ = Absent THEN NewContainer(pending.was)
                     ELSE [@ EXCEPT !.up = pending.was \/ @]]
        /\ Goto(p, "tidy")
        /\ UNCHANGED <<state, probe, pending, cliLock, mine>>
     \/ /\ cli[p] = "tidy"
        /\ probe' = "none"
        /\ pending' = NoUpgrade
        /\ Exit(p)
        /\ UNCHANGED <<state, con>>
  /\ UNCHANGED <<vols, imports, data, snap, acked, seeded, raced, stale, left>>

(***************************************************************************)
(* restore_source(): each step looks before it acts, so it can be repeated.*)
(* A source that was stopped stays stopped; a running one is connected     *)
(* before it is started.                                                   *)
(***************************************************************************)
RestoreSource(p) ==
  /\ \/ /\ cli[p] = "restore"
        /\ probe' = "none"
        /\ con' = [con EXCEPT ![Source].name = "main"]
        /\ Goto(p, "reconnect")
        /\ Boots({}) /\ UNCHANGED <<state, pending, cliLock, mine>>
     \/ /\ cli[p] = "reconnect"
        /\ con' = [con EXCEPT ![Source].net = TRUE,
                              ![Source].up = IF pending.was THEN @ ELSE FALSE]
        /\ Goto(p, "restart")
        /\ Boots({}) /\ UNCHANGED <<state, pending, cliLock, mine, probe>>
     \/ /\ cli[p] = "restart"
        /\ con' = [con EXCEPT ![Source].up = pending.was]
        /\ Goto(p, "archive")
        /\ Boots(IF pending.was /\ ~con[Source].up THEN {Source} ELSE {})
        /\ UNCHANGED <<state, pending, cliLock, mine, probe>>
     \/ /\ cli[p] = "archive"
        /\ con' = [con EXCEPT ![Source].restart = TRUE]
        /\ state' = [there |-> TRUE, vol |-> Source, seed |-> pending.seed]
        /\ pending' = NoUpgrade
        /\ Exit(p)
        /\ Boots({}) /\ UNCHANGED probe
  /\ UNCHANGED <<vols, snap, seeded, raced, stale, left>>

(***************************************************************************)
(* Faults: a Docker command fails, the CLI dies, the host restarts.        *)
(***************************************************************************)
Fails(p) ==
  /\ cli[p] # "idle"
  /\ Use("faults")
  /\ IF cli[p] \in Preparing
     THEN Goto(p, "restore") /\ UNCHANGED <<cliLock, mine>>
     ELSE Exit(p)
  /\ UNCHANGED <<state, pending, con, probe, vols, imports, data, snap, acked, seeded, raced, stale>>

Dies(p) ==
  /\ cli[p] # "idle"
  /\ Use("faults")
  /\ Exit(p)
  /\ UNCHANGED <<state, pending, con, probe, vols, imports, data, snap, acked, seeded, raced, stale>>

HostRestarts ==
  /\ Use("faults")
  /\ con' = [v \in Vol |-> [con[v] EXCEPT !.up = @ /\ con[v].restart]]
  /\ Boots({v \in Vol : con'[v].up})
  /\ probe' = IF probe = "up" THEN "down" ELSE probe
  /\ cli' = [p \in Cli |-> "idle"] /\ mine' = [p \in Cli |-> FirstState]
  /\ cliLock' = NoCli
  /\ UNCHANGED <<state, pending, vols, snap, seeded, raced, stale>>

StackNext ==
  \/ AppWrite \/ HostRestarts
  \/ \E p \in Cli :
       \/ \E command \in LocalMutation : Lock(p, command)
       \/ EnsureState(p) \/ StartReuse(p) \/ StartRemove(p) \/ StartVolume(p) \/ StartCreate(p)
       \/ PrepareSeed(p) \/ RunSeed(p) \/ SeedComplete(p) \/ SeedByHand(p) \/ Stop(p) \/ RestoreFile(p)
       \/ Begin(p) \/ Isolate(p) \/ Copy(p) \/ Verify(p) \/ Cutover(p)
       \/ FinishCutover(p) \/ RestoreSource(p) \/ Fails(p) \/ Dies(p)

StackSpec == StackInit /\ [][StackNext]_stackVars

\* The variables have their types.
StackTypeOK ==
  /\ cliLock \in Cli \cup {NoCli}
  /\ state.vol \in Vol /\ state.seed \in {"pending", "running", "complete"}
  /\ pending.phase \in {"none", "preparing", "cutover"}
  /\ probe \in {"none", "up", "down"}
  /\ acked \subseteq 1..MaxWrites /\ imports \subseteq vols

\* Whatever engine applications can reach holds exactly the writes they were
\* acknowledged: no upgrade, interrupted or failed at any step, brings back a
\* volume that misses one, publishes a candidate with the writes of its
\* verification, or leaves two engines reachable at once (the two phases of
\* upgrade.rs: "Never roll back automatically" after Cutover).  Set aside: commands
\* beside a first `lux start', which holds no lock, and a `lux seed run' that writes
\* back the state file it read before an upgrade.
ServesEveryWrite ==
  raced \/ stale \/
    /\ \A v \in Vol : Serving(v) => data[v] = acked
    /\ Cardinality({v \in Vol : Serving(v)}) <= 1

\* The automatic seed runs at most once on the same data: an interrupted seed
\* is left for the operator (prepare_local_data saves "running" first), and the
\* whole state file that an upgrade or a seed run by hand writes back never brings
\* a seed back; only two starts without a lock do.
SeedsOnce == raced \/ seeded <= 1
=============================================================================
