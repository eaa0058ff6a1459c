----------------------------- MODULE LiveQuery -----------------------------
(***************************************************************************)
(* Live queries (the live section of src/src/http.rs) over the broker      *)
(* (src/src/pubsub.rs).  A WebSocket subscribes to a table query filtered  *)
(* by a read grant whose membership subquery reads a second table.  A      *)
(* simple query is kept up to date from typed row deltas and is recomputed *)
(* when a key event names the membership table; any other query is         *)
(* recomputed on key events of either table.  Every queue on the way is    *)
(* bounded: the key-event queue spills into a coalescing overflow map,     *)
(* which may drop; a broadcast receiver that lags loses the oldest entry;  *)
(* an event without buffer budget is dropped or becomes a resync marker.   *)
(* Writers publish after their change is applied, in a step of their own.  *)
(***************************************************************************)
EXTENDS Integers, Sequences, FiniteSets, SequencesExt

CONSTANTS
  Socket,         \* WebSocket connections
  Incremental,    \* the sockets whose query is maintained from row deltas
  Writer,         \* concurrent mutations
  LivePk,         \* primary keys of the table
  QueueCap,       \* KEY_EVENT_QUEUE_CAPACITY and KEY_EVENT_WORKER_CAPACITY
  OverflowCap,    \* KEY_EVENT_OVERFLOW_CAPACITY
  ReceiverCap,    \* CHANNEL_CAPACITY and ROW_DELTA_CAPACITY
  MaxChanges,     \* bound: mutations
  MaxNoBudget     \* bound: events that find the buffer budget exhausted

VARIABLES
  items,          \* the table: LivePk -> version, 0 when there is no row
  member,         \* whether the membership table lets the caller see the rows
  granted,        \* whether the read grant is still there
  change,         \* mutations in progress
  changes,        \* mutations started
  noBudget,       \* events that found no budget
  mainQ,          \* the key-event queue: table names
  overflow,       \* the coalescing overflow map: its keys
  workerQ,        \* the queue of the worker both keys hash to
  dropped,        \* KeyEventCounters.dropped
  keySubs,        \* the key registry: table -> sockets that hold a receiver
  registered,     \* tables with a registry entry
  keySubCount,    \* key_sub_count
  sock            \* the sockets

liveVars == <<items, member, granted, change, changes, noBudget, mainQ, overflow, workerQ,
              dropped, keySubs, registered, keySubCount, sock>>

KeyTables == {"items", "members"}
Resync == 0                                  \* a row delta without its key
Receiver == [q |-> <<>>, lagged |-> FALSE]
NoSub == [at |-> "idle", missed |-> FALSE, rows |-> <<>>, keys |-> Receiver, deltas |-> Receiver,
          subscribed |-> FALSE, drops |-> 0, todo |-> {}, inserted |-> FALSE]
NoChange == [at |-> "idle", table |-> "", pk |-> 0]

LiveInit ==
  /\ items = [p \in LivePk |-> 0] /\ member = TRUE /\ granted = TRUE
  /\ change = [w \in Writer |-> NoChange] /\ changes = 0 /\ noBudget = 0
  /\ mainQ = <<>> /\ overflow = {} /\ workerQ = <<>> /\ dropped = 0
  /\ keySubs = [t \in KeyTables |-> {}] /\ registered = {} /\ keySubCount = 0
  /\ sock = [s \in Socket |-> NoSub]

-----------------------------------------------------------------------------
(* The query                                                               *)

\* live_table_where_tokens resolves the grant afresh in every fetch.
QueryResult == [p \in {x \in LivePk : member /\ items[x] # 0} |-> items[p]]
Fetched(p) == IF member THEN items[p] ELSE 0

\* live_table_dependencies; an incremental query leaves its own table to the deltas.
KeyTablesOf(s) == IF s \in Incremental THEN {"members"} ELSE KeyTables

\* tokio's broadcast: a full receiver loses its oldest entry and is told so.
Push(r, m) ==
  IF Len(r.q) < ReceiverCap THEN [r EXCEPT !.q = Append(@, m)]
  ELSE [q |-> Append(Tail(r.q), m), lagged |-> TRUE]

-----------------------------------------------------------------------------
(* Subscribing and stopping                                                *)

SetAt(s, at) == sock' = [sock EXCEPT ![s].at = at]
KeyUnchanged == UNCHANGED <<mainQ, overflow, workerQ, dropped>>
DataUnchanged == UNCHANGED <<items, member, granted, change, changes, noBudget>>

\* build_live_subscription: the grant is checked, then the receivers registered.
Subscribe(s) ==
  /\ sock[s].at = "idle" /\ granted
  /\ sock' = [sock EXCEPT ![s] = [NoSub EXCEPT !.at = "ksubscribe", !.todo = KeyTablesOf(s),
                                                !.drops = dropped]]
  /\ DataUnchanged /\ KeyUnchanged /\ UNCHANGED <<keySubs, registered, keySubCount>>

\* ksubscribe: the entry under the lock, the count after it.
KInsert(s) ==
  /\ sock[s].at = "ksubscribe" /\ sock[s].todo # {}
  /\ LET t == CHOOSE x \in sock[s].todo : TRUE IN
     /\ keySubs' = [keySubs EXCEPT ![t] = @ \cup {s}]
     /\ registered' = registered \cup {t}
     /\ sock' = [sock EXCEPT ![s].todo = @ \ {t}, ![s].inserted = t \notin registered,
                             ![s].at = "kcount"]
  /\ DataUnchanged /\ KeyUnchanged /\ UNCHANGED keySubCount

KCount(s) ==
  /\ sock[s].at = "kcount"
  /\ keySubCount' = keySubCount + (IF sock[s].inserted THEN 1 ELSE 0)
  /\ SetAt(s, "ksubscribe")
  /\ DataUnchanged /\ KeyUnchanged /\ UNCHANGED <<keySubs, registered>>

\* Variant: the snapshot is taken before the receiver for the row deltas exists.
FetchesFirst(s) ==
  \/ /\ sock[s].at = "ksubscribe" /\ sock[s].todo = {}
     /\ sock' = [sock EXCEPT ![s].at = "fetch", ![s].rows = QueryResult]
     /\ DataUnchanged /\ KeyUnchanged /\ UNCHANGED <<keySubs, registered, keySubCount>>
  \/ /\ sock[s].at = "fetch"
     /\ sock' = [sock EXCEPT ![s].at = "live", ![s].subscribed = s \in Incremental]
     /\ DataUnchanged /\ KeyUnchanged /\ UNCHANGED <<keySubs, registered, keySubCount>>

\* subscribe_row_deltas, then the snapshot; fetch_live_table_rows fails without a
\* grant, and rollback_live_table_receivers undoes the registration.
Snapshot(s) ==
  \/ /\ sock[s].at = "ksubscribe" /\ sock[s].todo = {}
     /\ sock' = [sock EXCEPT ![s].at = "fetch", ![s].subscribed = s \in Incremental]
     /\ DataUnchanged /\ KeyUnchanged /\ UNCHANGED <<keySubs, registered, keySubCount>>
  \/ /\ sock[s].at = "fetch"
     /\ sock' = IF granted THEN [sock EXCEPT ![s].at = "live", ![s].rows = QueryResult]
                ELSE [sock EXCEPT ![s].at = "release"]
     /\ DataUnchanged /\ KeyUnchanged /\ UNCHANGED <<keySubs, registered, keySubCount>>

\* live.unsubscribe, a close, a timeout or a failed send: stop_live_subscription.
Stop(s) ==
  /\ sock[s].at \in {"live", "deltas"}
  /\ SetAt(s, "release")
  /\ DataUnchanged /\ KeyUnchanged /\ UNCHANGED <<keySubs, registered, keySubCount>>

\* rollback_live_table_receivers drops every receiver before it touches the registry.
Release(s) ==
  /\ sock[s].at = "release"
  /\ keySubs' = [t \in KeyTables |-> keySubs[t] \ {s}]
  /\ sock' = [sock EXCEPT ![s] = [NoSub EXCEPT !.at = "kunsub", !.todo = KeyTablesOf(s)]]
  /\ DataUnchanged /\ KeyUnchanged /\ UNCHANGED <<registered, keySubCount>>

\* Variant: the entry goes whoever else still listens.
UnregistersAll(t) == TRUE

\* kunsub keeps an entry while any receiver is left.
Unregisters(t) == keySubs[t] = {}

KUnsub(s) ==
  /\ sock[s].at = "kunsub"
  /\ IF sock[s].todo = {} THEN SetAt(s, "idle") /\ UNCHANGED registered
     ELSE LET t == CHOOSE x \in sock[s].todo : TRUE
              removed == Unregisters(t) /\ t \in registered
          IN /\ registered' = IF removed THEN registered \ {t} ELSE registered
             /\ sock' = [sock EXCEPT ![s].todo = @ \ {t}, ![s].inserted = removed,
                                     ![s].at = "kdiscount"]
  /\ DataUnchanged /\ KeyUnchanged /\ UNCHANGED <<keySubs, keySubCount>>

KDiscount(s) ==
  /\ sock[s].at = "kdiscount"
  /\ keySubCount' = keySubCount - (IF sock[s].inserted THEN 1 ELSE 0)
  /\ SetAt(s, "kunsub")
  /\ DataUnchanged /\ KeyUnchanged /\ UNCHANGED <<keySubs, registered>>

-----------------------------------------------------------------------------
(* Writing                                                                 *)

Begin(w, table, pk) ==
  /\ change[w].at = "idle" /\ changes < MaxChanges
  /\ changes' = changes + 1
  /\ change' = [change EXCEPT ![w] = [at |-> IF table = "items" THEN "delta" ELSE "key",
                                      table |-> table, pk |-> pk]]

\* TableMutation::publish_commands applies the rows first.
ChangeRow(w, pk) ==
  /\ Begin(w, "items", pk)
  /\ \E v \in {0, items[pk] + 1} : v # items[pk] /\ items' = [items EXCEPT ![pk] = v]
  /\ KeyUnchanged /\ UNCHANGED <<member, granted, noBudget, keySubs, registered, keySubCount, sock>>

ChangeMembership(w) ==
  /\ Begin(w, "members", 0)
  /\ member' = ~member
  /\ KeyUnchanged /\ UNCHANGED <<items, granted, noBudget, keySubs, registered, keySubCount, sock>>

\* REVOKE, seen by a subscription in its next fetch.
RevokeRead ==
  /\ granted /\ granted' = FALSE
  /\ KeyUnchanged
  /\ UNCHANGED <<items, member, change, changes, noBudget, keySubs, registered, keySubCount, sock>>

HasBudget(ok) == IF ok THEN noBudget' = noBudget ELSE noBudget < MaxNoBudget /\ noBudget' = noBudget + 1

\* publish_row_delta: without budget the delta goes out without its key.
WithDelta(pk, ok) ==
  [s \in Socket |-> IF sock[s].subscribed
                    THEN [sock[s] EXCEPT !.deltas = Push(@, IF ok THEN pk ELSE Resync)]
                    ELSE sock[s]]

EmitDelta(w) ==
  /\ change[w].at = "delta"
  /\ change' = [change EXCEPT ![w].at = "key"]
  /\ \E ok \in BOOLEAN : HasBudget(ok) /\ sock' = WithDelta(change[w].pk, ok)
  /\ KeyUnchanged /\ UNCHANGED <<items, member, granted, changes, keySubs, registered, keySubCount>>

\* coalesce_key_event: the last event per key; a replaced or refused one counts as dropped.
Coalesce(t) ==
  /\ overflow' = IF Cardinality(overflow) < OverflowCap THEN overflow \cup {t} ELSE overflow
  /\ dropped' = IF t \in overflow \/ Cardinality(overflow) >= OverflowCap THEN dropped + 1 ELSE dropped

\* Ghost: live sockets whose entry is there and not counted yet miss the event.
Skipped(t) ==
  [s \in Socket |-> IF s \in keySubs[t] /\ sock[s].at = "live"
                   THEN [sock[s] EXCEPT !.missed = TRUE] ELSE sock[s]]

\* enqueue_key_event
EmitKey(w) ==
  LET t == change[w].table IN
  /\ change[w].at = "key"
  /\ change' = [change EXCEPT ![w] = NoChange]
  /\ sock' = IF keySubCount = 0 THEN Skipped(t) ELSE sock
  /\ \/ keySubCount = 0 /\ UNCHANGED <<noBudget, mainQ, overflow, dropped>>
     \/ /\ keySubCount > 0 /\ HasBudget(FALSE)
        /\ dropped' = dropped + 1 /\ UNCHANGED <<mainQ, overflow>>
     \/ /\ keySubCount > 0 /\ Len(mainQ) < QueueCap
        /\ mainQ' = Append(mainQ, t) /\ UNCHANGED <<noBudget, overflow, dropped>>
     \/ /\ keySubCount > 0 /\ Len(mainQ) = QueueCap
        /\ Coalesce(t) /\ UNCHANGED <<noBudget, mainQ>>
  /\ UNCHANGED <<items, member, granted, changes, workerQ, keySubs, registered, keySubCount>>

-----------------------------------------------------------------------------
(* The broker                                                              *)

\* dispatch_key_event
Dispatch(t) ==
  IF Len(workerQ) < QueueCap THEN workerQ' = Append(workerQ, t) /\ UNCHANGED <<overflow, dropped>>
  ELSE Coalesce(t) /\ UNCHANGED workerQ

\* run_key_event_loop, the receiving arm.
Route ==
  /\ mainQ # <<>> /\ mainQ' = Tail(mainQ) /\ Dispatch(Head(mainQ))
  /\ DataUnchanged /\ UNCHANGED <<keySubs, registered, keySubCount, sock>>

\* run_key_event_loop, the overflow tick: an event that finds no room goes back.
DrainOverflow ==
  /\ overflow # {} /\ Len(workerQ) < QueueCap
  /\ \E t \in overflow : workerQ' = Append(workerQ, t) /\ overflow' = overflow \ {t}
  /\ DataUnchanged /\ UNCHANGED <<mainQ, dropped, keySubs, registered, keySubCount, sock>>

\* process_key_event and emit_key_event: to the receivers of the registered key.
Deliver ==
  /\ workerQ # <<>> /\ workerQ' = Tail(workerQ)
  /\ LET t == Head(workerQ) IN
     sock' = [s \in Socket |->
                IF t \in registered /\ s \in keySubs[t] THEN [sock[s] EXCEPT !.keys = Push(@, t)]
                ELSE sock[s]]
  /\ DataUnchanged /\ UNCHANGED <<mainQ, overflow, dropped, keySubs, registered, keySubCount>>

-----------------------------------------------------------------------------
(* The socket's tick                                                       *)

SockOnly == DataUnchanged /\ KeyUnchanged /\ UNCHANGED <<keySubs, registered, keySubCount>>

\* A fetch that the grant no longer allows ends the socket.
Refetched(k, next) ==
  IF granted THEN [k EXCEPT !.rows = QueryResult, !.at = next] ELSE [k EXCEPT !.at = "release"]

\* Variant: the counter of dropped events is not looked at.
NoGapCheck(s) == FALSE

\* take_key_event_gap
KeyEventGap(s) == sock[s].drops # dropped

\* drain_live_subscription_events: a process-wide gap first, else one input.
DrainEvents(s) ==
  /\ sock[s].at = "live"
  /\ LET k == [sock[s] EXCEPT !.drops = dropped]
         gap == KeyEventGap(s)
         lag == k.keys.lagged
         msg == k.keys.q # <<>>
     IN sock' = [sock EXCEPT ![s] =
          CASE gap -> Refetched(k, "deltas")
            [] lag -> Refetched([k EXCEPT !.keys.lagged = FALSE], "deltas")
            [] msg -> Refetched([k EXCEPT !.keys.q = Tail(@)], "deltas")
            [] OTHER -> [k EXCEPT !.at = "deltas"]]
  /\ SockOnly

\* take_live_row_delta_batch: a lag or a delta without its key asks for a resync.
NeedsResync(r) == r.lagged \/ \E i \in DOMAIN r.q : r.q[i] = Resync

\* process_live_row_key for each key of the batch: only that row is fetched.
WithRows(rows, pks) ==
  LET val(p) == IF p \in pks THEN Fetched(p) ELSE IF p \in DOMAIN rows THEN rows[p] ELSE 0
  IN [p \in {x \in LivePk : val(x) # 0} |-> val(p)]

\* drain_live_row_deltas
DrainDeltas(s) ==
  /\ sock[s].at = "deltas"
  /\ LET k == [sock[s] EXCEPT !.deltas = Receiver]
         r == sock[s].deltas
     IN sock' = [sock EXCEPT ![s] =
          IF r = Receiver THEN [k EXCEPT !.at = "live"]
          ELSE IF NeedsResync(r) THEN Refetched(k, "live")
          ELSE IF ~granted THEN [k EXCEPT !.at = "release"]
          ELSE [k EXCEPT !.rows = WithRows(@, Range(r.q)), !.at = "live"]]
  /\ SockOnly

SocketNext(s) ==
  \/ Subscribe(s) \/ KInsert(s) \/ KCount(s) \/ Snapshot(s) \/ Stop(s) \/ Release(s)
  \/ KUnsub(s) \/ KDiscount(s) \/ DrainEvents(s) \/ DrainDeltas(s)

LiveNext ==
  \/ \E s \in Socket : SocketNext(s)
  \/ \E w \in Writer : ChangeMembership(w) \/ EmitDelta(w) \/ EmitKey(w)
  \/ \E w \in Writer, pk \in LivePk : ChangeRow(w, pk)
  \/ RevokeRead \/ Route \/ DrainOverflow \/ Deliver

LiveSpec == LiveInit /\ [][LiveNext]_liveVars

-----------------------------------------------------------------------------
(* Properties                                                              *)

\* Nothing is on its way to the socket.
Settled(s) ==
  /\ sock[s].at = "live" /\ sock[s].keys = Receiver /\ sock[s].deltas = Receiver
  /\ sock[s].drops = dropped
  /\ mainQ = <<>> /\ overflow = {} /\ workerQ = <<>>
  /\ \A w \in Writer : change[w].at = "idle"

(***************************************************************************)
(* A live query that has nothing left to receive shows exactly the rows    *)
(* its query returns: no write is lost between the snapshot and the        *)
(* subscription, in a full queue, in a lagging receiver or for want of     *)
(* buffer budget, and a membership change removes and adds whole rows      *)
(* (http.rs:2463-3386, pubsub.rs:731-954).  A revoked grant closes the     *)
(* socket only with the next event.  Outside: a socket that joined an      *)
(* entry whose maker has not counted it yet (ksubscribe counts after it    *)
(* releases the lock) misses the event of a writer that finds the count 0. *)
(***************************************************************************)
ViewSettles ==
  \A s \in Socket : Settled(s) /\ granted /\ ~sock[s].missed => sock[s].rows = QueryResult

(***************************************************************************)
(* The broker's bookkeeping agrees with the sockets: an entry exists for   *)
(* every table somebody holds a receiver of, the gate that lets writers    *)
(* skip events counts the entries whenever no socket is between its two    *)
(* steps, and nothing is left registered once every socket is idle         *)
(* (ksubscribe, kunsub).                                                   *)
(***************************************************************************)
RegistryAgrees ==
  /\ \A t \in KeyTables : keySubs[t] # {} => t \in registered
  /\ (\A s \in Socket : sock[s].at \notin {"kcount", "kdiscount"}) =>
        keySubCount = Cardinality(registered)
  /\ (\A s \in Socket : sock[s].at = "idle") => registered = {}

\* The variables have their types.
LiveTypeOK ==
  /\ items \in [LivePk -> 0..MaxChanges] /\ member \in BOOLEAN /\ granted \in BOOLEAN
  /\ keySubCount \in -1..3 /\ registered \subseteq KeyTables
  /\ Len(mainQ) <= QueueCap /\ Len(workerQ) <= QueueCap /\ Cardinality(overflow) <= OverflowCap
  /\ \A s \in Socket : /\ DOMAIN sock[s].rows \subseteq LivePk
                       /\ Len(sock[s].keys.q) <= ReceiverCap
                       /\ Len(sock[s].deltas.q) <= ReceiverCap
=============================================================================
