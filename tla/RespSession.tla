---------------------------- MODULE RespSession ----------------------------
(***************************************************************************)
(* RESP connections (server_main, handle_connection, CommandSession and    *)
(* CommandExecutor in src/src/lib.rs).  A read delivers a pipeline of      *)
(* commands; it is executed one command after the other while other        *)
(* connections execute theirs, the replies are written with one flush, and *)
(* a blocking command is awaited after the flush.  A session keeps its     *)
(* transaction, its watched keys, its name and its subscriptions, each     *)
(* charged to a process-wide budget.                                       *)
(* A byte stands for one argument: a command costs 1 while it is buffered  *)
(* or queued, a watched key, a client name and a subscription 1 each.      *)
(***************************************************************************)
EXTENDS Integers, Sequences, FiniteSets, FiniteSetsExt, SequencesExt

CONSTANTS
  Peer,           \* client connections
  Pipelines,      \* [Peer -> the reads the client may send: sequences of commands]
  MaxResp,        \* ServerLimits.max_resp_connections
  RequestBytes,   \* the process-wide request budget
  MaxQueued,      \* max_resp_pipeline_commands: also of a transaction
  MaxWatched,     \* max_blocking_keys: also of WATCH
  SubCapacity,    \* the process-wide subscription budget
  MaxSubs,        \* max_resp_subscriptions of one session
  MaxBlocked,     \* max_blocked_clients
  MaxReads        \* bound: reads in a behaviour

VARIABLES
  peer,           \* the sessions
  clients,        \* connection permits taken
  reqBytes,       \* bytes charged to the request budget
  subCount,       \* subscriptions charged to the broker's budget
  topics,         \* topics the broker knows
  blocked,        \* permits of blocked clients taken
  version,        \* the version of the watched shard
  gate,           \* the execution gate: "up", or "down" once poisoned
  secretOk,       \* the secret key some sessions authenticated with is valid
  needsAuth,      \* require_auth || project_keys_configured
  stopping,       \* the shutdown signal
  readsLeft

respVars == <<peer, clients, reqBytes, subCount, topics, blocked, version, gate, secretOk,
              needsAuth, stopping, readsLeft>>

\* CommandSession::new with handle_connection's own buffers.  asked and told
\* count the commands taken from the socket and the replies written; cut
\* records that replies were given up on a path that documents no answer.
NewSession == [at |-> "closed", auth |-> FALSE, secret |-> FALSE, multi |-> FALSE, bad |-> FALSE,
               queue |-> 0, watched |-> <<>>, name |-> FALSE, held |-> 0, subs |-> {},
               subMode |-> FALSE, pend |-> 0, todo |-> <<>>, path |-> "none", waits |-> FALSE,
               quits |-> FALSE, asked |-> 0, told |-> 0, cut |-> FALSE]

RespInit ==
  /\ peer = [p \in Peer |-> NewSession] /\ clients = 0 /\ reqBytes = 0 /\ subCount = 0
  /\ topics = {} /\ blocked = 0 /\ version = 0 /\ gate = "up" /\ secretOk = TRUE
  /\ needsAuth \in BOOLEAN /\ stopping = FALSE /\ readsLeft = MaxReads

Topic(cmd) == IF cmd \in {"ksub", "kunsub"} THEN "key" ELSE IF cmd \in {"psub", "punsub"} THEN "pattern" ELSE "channel"
Subscribes(cmd) == cmd \in {"sub", "psub", "ksub"}
Unsubscribes(cmd) == cmd \in {"unsub", "punsub", "kunsub"}

\* is_public_without_auth_command
Public(cmd) == cmd \in {"auth", "authkey", "ping", "quit"}

\* is_script_gate_bypass_command
Bypass(cmd) == cmd \in {"ping", "name"}

\* is_pipeline_special_command with is_blocking_command
Special(cmd) ==
  \/ Subscribes(cmd) \/ Unsubscribes(cmd)
  \/ cmd \in {"publish", "auth", "authkey", "quit", "multi", "exec", "discard", "watch", "unwatch", "block"}

-----------------------------------------------------------------------------
(* Budgets                                                                 *)

\* try_reserve_retained_bytes and release_retained_bytes
Fits(n) == reqBytes + n <= RequestBytes

\* SubscriptionReservation::try_grow
RoomForTopic == subCount < SubCapacity

\* subscription_limit_error
WithinSession(s, t) == Cardinality(s.subs \union {t}) <= MaxSubs

\* Variant: a topic leaves the broker although others still listen to it.
ForgetsTopic(p, t) == TRUE

\* Broker::unsubscribe_channel, punsubscribe_pattern and kunsub: the last
\* receiver takes the topic along.
LastListener(p, t) == \A q \in Peer \ {p} : t \notin peer[q].subs

\* Variant: the connection ends without its reservations.
KeepsHeld(s) == s.pend

\* What Drop gives back: the buffer's and the session's reservation.
GivenBack(s) == s.pend + s.held

\* handle_connection returns: Drop for CommandSession and its reservations.
End(p) ==
  LET s == peer[p] IN
  /\ peer' = [peer EXCEPT ![p] = NewSession] /\ clients' = clients - 1
  /\ reqBytes' = reqBytes - GivenBack(s) /\ subCount' = subCount - Cardinality(s.subs)
  /\ topics' = topics \ {t \in s.subs : LastListener(p, t)}
  /\ blocked' = blocked - IF s.at = "waiting" THEN 1 ELSE 0
  /\ UNCHANGED <<version, gate, secretOk, needsAuth, stopping, readsLeft>>

-----------------------------------------------------------------------------
(* Accepting and reading                                                   *)

\* The accept loop; without a permit the client gets one error and is dropped.
\* Whether the session needs authentication is decided here, once.
Connect(p) ==
  /\ peer[p].at = "closed" /\ clients < MaxResp /\ ~stopping
  /\ clients' = clients + 1
  /\ peer' = [peer EXCEPT ![p] = [NewSession EXCEPT !.at = "idle", !.auth = ~needsAuth]]
  /\ UNCHANGED <<reqBytes, subCount, topics, blocked, version, gate, secretOk, needsAuth, stopping,
                 readsLeft>>

AllOf(cmds, P(_)) == \A i \in DOMAIN cmds : P(cmds[i])
IsPublish(cmd) == cmd = "publish"
IsGet(cmd) == cmd = "get"

\* execute_pipeline: the branch a pipeline takes.  An empty command anywhere
\* is answered with one error for the whole pipeline.
PipelinePath(s, cmds) ==
  CASE AllOf(cmds, LAMBDA c : c # "empty") = FALSE -> "empty"
    [] ~s.multi /\ s.auth /\ AllOf(cmds, IsPublish) -> "publish"
    [] ~s.multi /\ s.auth /\ AllOf(cmds, Bypass) -> "bypass"
    [] ~s.multi /\ AllOf(cmds, LAMBDA c : (s.auth \/ Public(c)) /\ ~Special(c)) /\ AllOf(cmds, IsGet)
         -> "shard"
    [] OTHER -> "each"

PathOf(s, cmds) ==
  IF s.subMode THEN "submode" ELSE IF Len(cmds) = 1 THEN "one" ELSE PipelinePath(s, cmds)

\* The read and the parse: n complete commands and at most one partial one,
\* which stays in the buffer.  Without room in the budget the connection ends.
Read(p, cmds, rest) ==
  LET s == peer[p]
      n == Len(cmds) + rest - s.pend
  IN
  /\ s.at = "idle" /\ readsLeft > 0 /\ ~stopping /\ n > 0 /\ Fits(n)
  /\ peer' = [peer EXCEPT ![p] = [s EXCEPT !.at = IF cmds = <<>> THEN "idle" ELSE "run", !.todo = cmds,
                !.pend = s.pend + n, !.path = PathOf(s, cmds), !.asked = s.asked + Len(cmds)]]
  /\ reqBytes' = reqBytes + n /\ readsLeft' = readsLeft - 1
  /\ UNCHANGED <<clients, subCount, topics, blocked, version, gate, secretOk, needsAuth, stopping>>

\* Ends of a connection while it waits for a read: the peer leaves, a read that
\* does not fit, a timeout, a revoked secret key at the tick, the shutdown.
Leave(p) == peer[p].at = "idle" /\ End(p)

-----------------------------------------------------------------------------
(* One command                                                             *)

Answered(s) == [s EXCEPT !.told = s.told + 1]
Clear(s) == [s EXCEPT !.multi = FALSE, !.bad = FALSE, !.queue = 0, !.watched = <<>>]
Poison(s) == [Answered(s) EXCEPT !.bad = TRUE]

\* release_retained_bytes(tx_bytes) and release_retained_bytes(watched_bytes)
HeldAfterTx(s) == s.held - s.queue - Len(s.watched)

EndTx(s) == [Clear(s) EXCEPT !.held = HeldAfterTx(s)]

\* begin_exec_transaction excludes every command; then the versions are compared.
Unchanged(s) == \A i \in DOMAIN s.watched : s.watched[i] = version

\* One command of the pipeline has been executed: t is the session after it,
\* wrote whether the shard's version advanced.
After(p, t, wrote, bytes) ==
  /\ version' = version + IF wrote THEN 1 ELSE 0
  /\ peer' = [peer EXCEPT ![p] = [t EXCEPT !.todo = Tail(peer[p].todo)]]
  /\ reqBytes' = bytes

Same == UNCHANGED <<clients, blocked, gate, secretOk, needsAuth, stopping, readsLeft>>

\* EXEC of handle_tx_cmd
Exec(p) ==
  LET s == peer[p]
      runs == s.multi /\ ~s.bad /\ gate = "up" /\ Unchanged(s)
  IN After(p, Answered(EndTx(s)), runs /\ s.queue > 0,
           reqBytes - s.queue - Len(s.watched))
     /\ UNCHANGED <<subCount, topics>>

\* The other commands of handle_tx_cmd, and queueing inside MULTI.
TxCommand(p, cmd) ==
  LET s == peer[p]
      fits == s.queue < MaxQueued /\ Fits(1)
      watches == cmd = "watch" /\ ~s.multi /\ Len(s.watched) < MaxWatched /\ gate = "up" /\ Fits(1)
      t == CASE cmd = "multi" -> IF s.multi THEN Poison(s)
                                 ELSE [Answered(s) EXCEPT !.multi = TRUE, !.bad = FALSE]
             [] cmd = "discard" -> Answered(IF s.multi THEN EndTx(s) ELSE s)
             [] cmd = "watch" -> IF s.multi THEN Poison(s) ELSE
                                 IF watches THEN [Answered(s) EXCEPT !.watched = Append(s.watched, version),
                                                                     !.held = s.held + 1]
                                 ELSE Answered(s)
             [] cmd = "unwatch" -> [Answered(s) EXCEPT !.watched = <<>>,
                                                       !.held = s.held - Len(s.watched)]
             [] OTHER -> IF Subscribes(cmd) \/ Unsubscribes(cmd) \/ cmd \in {"block", "unknown"} \/ ~fits
                         THEN Poison(s)
                         ELSE [Answered(s) EXCEPT !.queue = s.queue + 1, !.held = s.held + 1]
  IN /\ s.multi \/ cmd \in {"multi", "discard", "watch", "unwatch"}
     /\ cmd # "exec"
     /\ After(p, t, FALSE, reqBytes + t.held - s.held)
     /\ UNCHANGED <<subCount, topics>>

\* remove(..).is_some(): what is given back for one topic
ReleasedFor(s, t) == IF t \in s.subs THEN 1 ELSE 0

\* SUBSCRIBE, PSUBSCRIBE and KSUB, in apply_cmd_result and in the subscribe loop:
\* only the former enters sub_mode.
Subscribe(p, t, inLoop) ==
  LET s == peer[p]
      added == IF t \in s.subs THEN 0 ELSE 1
      granted == WithinSession(s, t) /\ (added = 0 \/ RoomForTopic)
  IN /\ After(p, IF granted THEN [Answered(s) EXCEPT !.subs = s.subs \union {t}, !.subMode = s.subMode \/ ~inLoop]
                 ELSE Answered(s), FALSE, reqBytes)
     /\ subCount' = subCount + IF granted THEN added ELSE 0
     /\ topics' = IF granted THEN topics \union {t} ELSE topics

\* UNSUBSCRIBE, PUNSUBSCRIBE and KUNSUB without arguments: one reply per topic
\* held, none when there is none.  Only the subscribe loop leaves sub_mode.
Unsubscribe(p, t, inLoop) ==
  LET s == peer[p]
      u == [s EXCEPT !.subs = s.subs \ {t}]
      silent == t \notin s.subs
  IN /\ After(p, [u EXCEPT !.told = s.told + IF silent THEN 0 ELSE 1, !.cut = s.cut \/ silent,
                          !.subMode = s.subMode /\ (~inLoop \/ u.subs # {})], FALSE, reqBytes)
     /\ subCount' = subCount - ReleasedFor(s, t)
     /\ topics' = IF LastListener(p, t) THEN topics \ {t} ELSE topics

\* The commands of cmd::execute_with_wal and apply_cmd_result.  CLIENT is served
\* only on the paths that know the session; elsewhere it is an error reply.
Dispatch(p, cmd) ==
  LET s == peer[p]
      plain(t, wrote) == After(p, t, wrote, reqBytes + t.held - s.held) /\ UNCHANGED <<subCount, topics>>
  IN
  IF gate = "down" THEN plain(Answered(s), FALSE) ELSE
  CASE Subscribes(cmd) -> Subscribe(p, Topic(cmd), FALSE)
    [] cmd = "kunsub" -> Unsubscribe(p, "key", FALSE)
    [] cmd \in {"unsub", "punsub"} -> plain(Answered(s), FALSE)
    [] cmd = "name" -> plain(IF s.path # "each" /\ ~s.name /\ Fits(1)
                             THEN [Answered(s) EXCEPT !.name = TRUE, !.held = s.held + 1]
                             ELSE Answered(s), FALSE)
    [] cmd = "auth" -> plain([Answered(s) EXCEPT !.auth = TRUE, !.secret = FALSE], FALSE)
    [] cmd = "authkey" -> plain(IF secretOk THEN [Answered(s) EXCEPT !.auth = TRUE, !.secret = TRUE]
                                ELSE Answered(s), FALSE)
    [] cmd = "quit" -> plain([Answered(s) EXCEPT !.quits = TRUE], FALSE)
    [] cmd = "block" -> plain([s EXCEPT !.waits = TRUE], FALSE)
    [] OTHER -> plain(Answered(s), cmd = "set")

\* The subscribe loop of handle_connection
InSubMode(p, cmd) ==
  LET s == peer[p] IN
  CASE Subscribes(cmd) -> Subscribe(p, Topic(cmd), TRUE)
    [] Unsubscribes(cmd) -> Unsubscribe(p, Topic(cmd), TRUE)
    [] OTHER -> After(p, Answered(s), FALSE, reqBytes) /\ UNCHANGED <<subCount, topics>>

Refuse(p) == After(p, Answered(peer[p]), FALSE, reqBytes) /\ UNCHANGED <<subCount, topics>>

\* execute_command, or one round of execute_pipeline's loops.
Execute(p) ==
  LET s == peer[p]
      cmd == Head(s.todo)
  IN
  /\ s.at = "run" /\ s.todo # <<>> /\ ~s.waits /\ ~s.quits
  /\ s.path \in {"one", "each", "publish", "bypass", "shard", "submode"}
  /\ s.path \in {"publish", "bypass", "shard"} => gate = "up"
  /\ CASE s.path = "submode" -> InSubMode(p, cmd)
       [] cmd = "empty" -> Refuse(p)
       [] ~s.auth /\ ~Public(cmd) -> Refuse(p)
       [] cmd = "exec" -> Exec(p)
       [] s.multi \/ cmd \in {"multi", "discard", "watch", "unwatch"} -> TxCommand(p, cmd)
       [] OTHER -> Dispatch(p, cmd)
  /\ Same

\* One error stands for the rest of the pipeline: an empty command anywhere, a
\* batched branch that finds the gate down, a failed shard batch.
GiveUp(p) ==
  LET s == peer[p] IN
  /\ s.at = "run" /\ s.todo # <<>>
  /\ \/ s.path = "empty"
     \/ s.path \in {"publish", "bypass", "shard"} /\ gate = "down"
  /\ peer' = [peer EXCEPT ![p] = [Answered(s) EXCEPT !.todo = <<>>, !.cut = TRUE]]
  /\ UNCHANGED <<reqBytes, version, subCount, topics>> /\ Same

-----------------------------------------------------------------------------
(* The flush and the deferred action                                       *)

Settled(s) == s.at = "run" /\ (s.todo = <<>> \/ s.waits \/ s.quits)

\* Variant: a blocking command waits without a permit.
WaitsUnpermitted == TRUE

\* blocked_clients.try_acquire_owned
PermitLeft == blocked < MaxBlocked

\* What follows a blocking command or QUIT in its pipeline was consumed with
\* it and is dropped here.
Flush(p) ==
  LET s == peer[p]
      waits == s.waits /\ PermitLeft
  IN
  /\ Settled(s) /\ ~s.quits
  /\ peer' = [peer EXCEPT ![p] = [s EXCEPT !.at = IF waits THEN "waiting" ELSE "idle",
         !.pend = s.pend - s.asked, !.todo = <<>>, !.path = "none", !.waits = FALSE, !.asked = 0,
         !.told = 0, !.cut = FALSE]]
  /\ reqBytes' = reqBytes - s.asked
  /\ blocked' = blocked + IF waits THEN 1 ELSE 0
  /\ UNCHANGED <<clients, version, subCount, topics, gate, secretOk, needsAuth, stopping, readsLeft>>

\* QUIT, a response beyond its limit, or a failed write ends the connection.
FlushAndEnd(p) == Settled(peer[p]) /\ (peer[p].quits \/ stopping) /\ End(p)

\* await_resp_blocking_action: an answer, the timeout's null reply, or the tick
\* that finds the secret key revoked, which ends the connection unanswered.
WaitEnds(p) ==
  /\ peer[p].at = "waiting"
  /\ peer' = [peer EXCEPT ![p].at = "idle"] /\ blocked' = blocked - 1
  /\ UNCHANGED <<clients, reqBytes, version, subCount, topics, gate, secretOk, needsAuth, stopping, readsLeft>>

WaitRevoked(p) == peer[p].at = "waiting" /\ peer[p].secret /\ ~secretOk /\ End(p)

\* conn_tasks.abort_all once the grace period is over
Abort(p) == stopping /\ peer[p].at = "waiting" /\ End(p)

-----------------------------------------------------------------------------
(* The process around the sessions                                         *)

Others == UNCHANGED <<peer, clients, reqBytes, subCount, topics, blocked, version, readsLeft>>
Poisons == gate = "up" /\ gate' = "down" /\ Others /\ UNCHANGED <<secretOk, needsAuth, stopping>>
RevokeSecret == secretOk /\ secretOk' = FALSE /\ Others /\ UNCHANGED <<gate, needsAuth, stopping>>
FirstKey == ~needsAuth /\ needsAuth' = TRUE /\ Others /\ UNCHANGED <<gate, secretOk, stopping>>
Stop == ~stopping /\ stopping' = TRUE /\ Others /\ UNCHANGED <<gate, secretOk, needsAuth>>

RespNext ==
  \/ \E p \in Peer :
       \/ Connect(p) \/ Leave(p) \/ Execute(p) \/ GiveUp(p) \/ Flush(p) \/ FlushAndEnd(p)
       \/ WaitEnds(p) \/ WaitRevoked(p) \/ Abort(p)
       \/ \E cmds \in Pipelines[p], rest \in 0..1 : Read(p, cmds, rest)
  \/ Poisons \/ RevokeSecret \/ FirstKey \/ Stop

RespSpec == RespInit /\ [][RespNext]_respVars

-----------------------------------------------------------------------------
(* Properties                                                              *)

\* The variables have their types.
RespTypeOK ==
  /\ \A p \in Peer :
       /\ peer[p].at \in {"closed", "idle", "run", "waiting"} /\ peer[p].held \in 0..RequestBytes
       /\ peer[p].subs \subseteq {"channel", "pattern", "key"} /\ peer[p].queue \in 0..MaxQueued
       /\ ~peer[p].multi => peer[p].queue = 0
  /\ clients \in 0..MaxResp /\ reqBytes \in 0..RequestBytes /\ subCount \in 0..SubCapacity
  /\ blocked \in 0..MaxBlocked

Total(f(_)) == MapThenSumSet(f, Peer)

\* Every process-wide budget is exactly what the sessions hold, whatever way a
\* transaction, a subscription, a wait or a connection ended (the reservations
\* of CommandSession and handle_connection), and no session keeps a charge for
\* something it dropped.
SessionsExact ==
  /\ reqBytes = Total(LAMBDA p : peer[p].pend + peer[p].held)
  /\ \A p \in Peer : peer[p].held = peer[p].queue + Len(peer[p].watched) + IF peer[p].name THEN 1 ELSE 0
  /\ subCount = Total(LAMBDA p : Cardinality(peer[p].subs))
  /\ topics = UNION {peer[p].subs : p \in Peer}
  /\ blocked = Cardinality({p \in Peer : peer[p].at = "waiting"})
  /\ clients = Cardinality({p \in Peer : peer[p].at # "closed"})

\* When the replies of a read are written there is one for every command taken
\* from the socket, except after a path that gives the rest up with one error
\* and after a command that ends or blocks the pipeline (execute_pipeline).
RepliesInStep ==
  \A p \in Peer : Settled(peer[p]) /\ ~peer[p].cut /\ peer[p].todo = <<>> =>
    peer[p].asked = peer[p].told + IF peer[p].waits THEN 1 ELSE 0

=============================================================================
