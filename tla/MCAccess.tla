------------------------------ MODULE MCAccess ------------------------------
(***************************************************************************)
(* The modules a client meets on its way in, checked one at a time: part   *)
(* says which of them runs, the variables of the others are 0.             *)
(***************************************************************************)
EXTENDS Grants, TLC

CONSTANTS Session, Request, RefreshTtl, AccessTtl, MaxTime, MaxTokens, MaxAdmin,
  Key, Caller, SecretKeys, CacheTtl, MaxKeyClock, UserId, Email, Subject, Actor,
  Flow, MaxFails, MaxStarts, Conn, Requests, MaxHttp, ByteLimit, MaxBody, AuthWorkers,
  MaxStudio, SessionTtl, MaxHttpClock, MaxIssued, Peer, Pipelines, MaxResp, RequestBytes,
  MaxQueued, MaxWatched, SubCapacity, MaxSubs, MaxBlocked, MaxReads, MaxBulkLen,
  MaxArrayLen, Socket, Incremental, Writer, LivePk, QueueCap, OverflowCap,
  ReceiverCap, MaxChanges, MaxNoBudget, PushToken, Sender, MaxPerSubject, MaxOutbox,
  MaxAttempts, MaxDead, MaxSends, MaxPushFaults

VARIABLES
  part,        \* the module that runs
  clock, banned, sess, tokens, access, req, signed, admins, shown, exchanged,
  revokedFor,
  keyClock, keyRow, keyCache, call, admin, everKeys, revokedAck,
  settings, users, idents, flows, state, sessionUsers, act, fails, starts, uses,
  refused, ignored, overlap,
  conns, permits, bytes, workers, password, authOn, keysOn, valid, sessions,
  issuedStudio, httpClock, shut,
  peer, clients, reqBytes, subCount, topics, blocked, version, gate, secretOk,
  needsAuth, stopping, readsLeft,
  stream, fed, pending, parsed, refusedInput,
  items, member, readGrant, change, changes, noBudget, mainQ, overflow, workerQ,
  dropped, keySubs, registered, keySubCount, sock,
  device, outbox, cred, hasKey, registry, enqueue, caller, worker, issued, tries,
  taken, faults

(* HTTP: one connection asks for everything with every credential, the     *)
(* other competes for the limits.                                          *)
HttpRequest(route, kind, id, origin, size) ==
  [route |-> route, cred |-> [kind |-> kind, id |-> id], origin |-> origin, size |-> size]

HttpRequests ==
  [c1 |-> {HttpRequest(r, k, 0, "none", 0) : r \in {"rows", "project"},
                                             k \in {"none", "secret", "publishable", "user"}}
          \cup {HttpRequest("live", k, 0, "none", 0) : k \in {"none", "secret", "user"}}
          \cup {HttpRequest("backup", "user", 0, "none", 0), HttpRequest("health", "none", 0, "none", 0)}
          \cup {HttpRequest("studio", "operator", 0, o, 0) : o \in {"studio", "second"}}
          \cup {HttpRequest("live", "studio", 1, o, 0) : o \in {"studio", "second"}},
   c2 |-> {HttpRequest("rows", "none", 0, "other", 1), HttpRequest("auth", "none", 0, "none", 1),
           HttpRequest("authGet", "none", 0, "none", 2)}]

(* RESP: the reads of two clients, each a pipeline of commands.            *)
RespPipelines ==
  [p1 |-> {<<>>, <<"get">>, <<"authkey">>, <<"block">>, <<"quit">>, <<"unwatch">>, <<"name">>,
           <<"watch", "multi", "set">>, <<"exec">>, <<"discard">>, <<"multi", "watch">>, <<"sub">>,
           <<"unsub", "ping">>, <<"kunsub">>, <<"publish", "publish">>, <<"get", "get">>,
           <<"ping", "name">>, <<"get", "empty">>, <<"psub", "kunsub">>, <<"punsub">>, <<"unknown">>},
   p2 |-> {<<"auth", "set">>, <<"block">>, <<"ksub">>, <<"sub">>, <<"empty">>}]

(* Byte streams: two requests, the second possibly malformed or cut off.   *)
CrLf == <<"r", "n">>
OneArg == <<"*", "1">> \o CrLf \o <<"$", "1">> \o CrLf \o <<"x">> \o CrLf
TwoArgs == <<"*", "2">> \o CrLf \o <<"$", "0">> \o CrLf \o CrLf \o <<"$", "3">> \o CrLf \o <<"x", "r", "n">> \o CrLf
Inline == <<"x", " ", " ", "x", "r", "n">>
NullArg == <<"*", "1">> \o CrLf \o <<"$", "-", "1">> \o CrLf
NoArgs == <<"*", "0">> \o CrLf
NullArray == <<"*", "-", "1">> \o CrLf
BadEnd == <<"*", "1">> \o CrLf \o <<"$", "1">> \o CrLf \o <<"x", "x", "x">>
NoDollar == <<"*", "1">> \o CrLf \o <<"x">>
TooMany == <<"*", "3">> \o CrLf
ByteStreams ==
  {a \o b : a \in {OneArg, TwoArgs, Inline, <<"x", "n">>, NullArg, NoArgs, NullArray},
            b \in {OneArg, TwoArgs, Inline, NullArg, NoArgs, NullArray, BadEnd, NoDollar, TooMany}}

Sessions == INSTANCE AuthSessions
ApiKeys == INSTANCE AuthKeys
Accounts == INSTANCE AuthAccounts WITH sessions <- sessionUsers
Http == INSTANCE HttpGateway WITH issued <- issuedStudio, keys <- keysOn
Resp == INSTANCE RespSession
Parser == INSTANCE RespParser WITH Streams <- ByteStreams, refused <- refusedInput,
  taken <- parsed
Live == INSTANCE LiveQuery WITH granted <- readGrant
Pushing == INSTANCE Push WITH Token <- PushToken

\* Session identifiers are not empty; lifetimes and bounds are numbers, and an older
\* release has signed two tokens.
ASSUME SessionAssumption == "" \notin Session
ASSUME TimesAssumption ==
  RefreshTtl \in Nat /\ AccessTtl \in Nat /\ MaxTokens \in Nat \ {0, 1} /\ MaxTime \in Nat \ {0}

\* Keys are told from the other things a request may present; the times of the cache
\* are numbers.
ASSUME KeyAssumption ==
  /\ Key \cap {"", "password", "wrong", "jwt", "expired"} = {}
  /\ CacheTtl \in Nat /\ MaxKeyClock \in Nat

\* Addresses and accounts at a provider are not empty, and no address is "anon".
ASSUME AccountAssumption == "" \notin Email \cup Subject /\ "anon" \notin Email

\* Connections are finitely many; what they ask for has a size, a Studio token the number
\* of its session; limits and times are numbers, and one Studio session is kept at least.
ASSUME HttpAssumption ==
  /\ IsFiniteSet(Conn)
  /\ \A c \in Conn : \A q \in Requests[c] : q.size \in Nat /\ q.cred.id \in Nat
  /\ MaxHttp \in Nat /\ ByteLimit \in Nat /\ MaxBody \in Nat /\ AuthWorkers \in Nat
  /\ MaxStudio \in Nat \ {0} /\ SessionTtl \in Nat /\ MaxHttpClock \in Nat /\ MaxIssued \in Nat

\* Clients are finitely many and send sequences of commands; limits are numbers.
ASSUME RespAssumption ==
  /\ IsFiniteSet(Peer) /\ \A p \in Peer : Pipelines[p] \subseteq Seq(STRING)
  /\ MaxResp \in Nat /\ RequestBytes \in Nat /\ MaxQueued \in Nat /\ MaxWatched \in Nat
  /\ SubCapacity \in Nat /\ MaxSubs \in Nat /\ MaxBlocked \in Nat /\ MaxReads \in Nat

\* The limits of push delivery are numbers and a notification is tried at least once; a
\* sender is neither nobody nor the worker.
ASSUME PushAssumption ==
  /\ IsFiniteSet(PushToken) /\ MaxSends \in Nat /\ MaxPerSubject \in Nat /\ MaxOutbox \in Nat
  /\ MaxAttempts \in Nat \ {0} /\ MaxDead \in Nat /\ Sender \cap {"free", "worker"} = {}

sessionsVars == <<clock, banned, sess, tokens, access, req, signed, admins, shown,
                  exchanged, revokedFor>>
keysVars == <<keyClock, keyRow, keyCache, call, admin, everKeys, revokedAck>>
accountsVars == <<settings, users, idents, flows, state, sessionUsers, act, fails,
                  starts, uses, refused, ignored, overlap>>
grantsVars == <<grantRow, members, moves, rows, put, wr, granted>>
httpVars == <<conns, permits, bytes, workers, password, authOn, keysOn, valid,
              sessions, issuedStudio, httpClock, shut>>
respVars == <<peer, clients, reqBytes, subCount, topics, blocked, version, gate,
              secretOk, needsAuth, stopping, readsLeft>>
parserVars == <<stream, fed, pending, parsed, refusedInput>>
liveVars == <<items, member, readGrant, change, changes, noBudget, mainQ, overflow,
              workerQ, dropped, keySubs, registered, keySubCount, sock>>
pushVars == <<device, outbox, cred, hasKey, registry, enqueue, caller, worker,
              issued, tries, taken, faults>>
accessVars == <<part, sessionsVars, keysVars, accountsVars, grantsVars, httpVars,
                respVars, parserVars, liveVars, pushVars>>

\* The variables of a module that does not run.
SessionsIdle == clock = 0 /\ banned = 0 /\ sess = 0 /\ tokens = 0 /\ access = 0 /\
                req = 0 /\ signed = 0 /\ admins = 0 /\ shown = 0 /\ exchanged = 0 /\
                revokedFor = 0
ApiKeysIdle == keyClock = 0 /\ keyRow = 0 /\ keyCache = 0 /\ call = 0 /\
               admin = 0 /\ everKeys = 0 /\ revokedAck = 0
AccountsIdle == settings = 0 /\ users = 0 /\ idents = 0 /\ flows = 0 /\ state = 0 /\
                sessionUsers = 0 /\ act = 0 /\ fails = 0 /\ starts = 0 /\
                uses = 0 /\ refused = 0 /\ ignored = 0 /\ overlap = 0
GrantingIdle == grantRow = 0 /\ members = 0 /\ moves = 0 /\ rows = 0 /\ put = 0 /\
                wr = 0 /\ granted = 0
HttpIdle == conns = 0 /\ permits = 0 /\ bytes = 0 /\ workers = 0 /\ password = 0 /\
            authOn = 0 /\ keysOn = 0 /\ valid = 0 /\ sessions = 0 /\
            issuedStudio = 0 /\ httpClock = 0 /\ shut = 0
RespIdle == peer = 0 /\ clients = 0 /\ reqBytes = 0 /\ subCount = 0 /\ topics = 0 /\
            blocked = 0 /\ version = 0 /\ gate = 0 /\ secretOk = 0 /\
            needsAuth = 0 /\ stopping = 0 /\ readsLeft = 0
ParserIdle == stream = 0 /\ fed = 0 /\ pending = 0 /\ parsed = 0 /\ refusedInput = 0
LiveIdle == items = 0 /\ member = 0 /\ readGrant = 0 /\ change = 0 /\ changes = 0 /\
            noBudget = 0 /\ mainQ = 0 /\ overflow = 0 /\ workerQ = 0 /\
            dropped = 0 /\ keySubs = 0 /\ registered = 0 /\ keySubCount = 0 /\
            sock = 0
PushingIdle == device = 0 /\ outbox = 0 /\ cred = 0 /\ hasKey = 0 /\ registry = 0 /\
               enqueue = 0 /\ caller = 0 /\ worker = 0 /\ issued = 0 /\ tries = 0 /\
               taken = 0 /\ faults = 0

AccessInit ==
  /\ part \in {"sessions", "keys", "accounts", "grants", "http", "resp", "parser",
               "live", "push"}
  /\ IF part = "sessions" THEN Sessions!SessInit ELSE SessionsIdle
  /\ IF part = "keys" THEN ApiKeys!KeyInit ELSE ApiKeysIdle
  /\ IF part = "accounts" THEN Accounts!AcctInit ELSE AccountsIdle
  /\ IF part = "grants" THEN GrantInit ELSE GrantingIdle
  /\ IF part = "http" THEN Http!HttpInit ELSE HttpIdle
  /\ IF part = "resp" THEN Resp!RespInit ELSE RespIdle
  /\ IF part = "parser" THEN Parser!ParserInit ELSE ParserIdle
  /\ IF part = "live" THEN Live!LiveInit ELSE LiveIdle
  /\ IF part = "push" THEN Pushing!PushInit ELSE PushingIdle

AccessNext ==
  \/ part = "sessions" /\ Sessions!SessNext /\ UNCHANGED <<part, keysVars,
       accountsVars, grantsVars, httpVars, respVars, parserVars, liveVars,
       pushVars>>
  \/ part = "keys" /\ ApiKeys!KeyNext /\ UNCHANGED <<part, sessionsVars,
       accountsVars, grantsVars, httpVars, respVars, parserVars, liveVars,
       pushVars>>
  \/ part = "accounts" /\ Accounts!AcctNext /\ UNCHANGED <<part, sessionsVars,
       keysVars, grantsVars, httpVars, respVars, parserVars, liveVars, pushVars>>
  \/ part = "grants" /\ GrantNext /\ UNCHANGED <<part, sessionsVars, keysVars,
       accountsVars, httpVars, respVars, parserVars, liveVars, pushVars>>
  \/ part = "http" /\ Http!HttpNext /\ UNCHANGED <<part, sessionsVars, keysVars,
       accountsVars, grantsVars, respVars, parserVars, liveVars, pushVars>>
  \/ part = "resp" /\ Resp!RespNext /\ UNCHANGED <<part, sessionsVars, keysVars,
       accountsVars, grantsVars, httpVars, parserVars, liveVars, pushVars>>
  \/ part = "parser" /\ Parser!ParserNext /\ UNCHANGED <<part, sessionsVars,
       keysVars, accountsVars, grantsVars, httpVars, respVars, liveVars, pushVars>>
  \/ part = "live" /\ Live!LiveNext /\ UNCHANGED <<part, sessionsVars, keysVars,
       accountsVars, grantsVars, httpVars, respVars, parserVars, pushVars>>
  \/ part = "push" /\ Pushing!PushNext /\ UNCHANGED <<part, sessionsVars, keysVars,
       accountsVars, grantsVars, httpVars, respVars, parserVars, liveVars>>

AccessSpec == AccessInit /\ [][AccessNext]_accessVars

AccessSymmetry == Permutations(Request) \cup Permutations(Session)

-----------------------------------------------------------------------------
(* Properties                                                              *)

\* The variables of the module that runs have their types.
AccessTypeOK ==
  /\ part = "sessions" => Sessions!SessTypeOK
  /\ part = "keys" => ApiKeys!KeyTypeOK
  /\ part = "accounts" => Accounts!AcctTypeOK
  /\ part = "grants" => GrantTypeOK
  /\ part = "http" => Http!HttpTypeOK
  /\ part = "resp" => Resp!RespTypeOK
  /\ part = "live" => Live!LiveTypeOK
  /\ part = "push" => Pushing!PushTypeOK

\* Refresh tokens (auth/refresh.rs: grant, classify, revoke_family): however many requests
\* present it at once, a token buys at most one successor; once a revocation was
\* reported no token of the family is current again and none is handed out; and
\* reuse detection never logs out a client that uses each token once.
SessionsSound ==
  /\ [](part = "sessions" =>
          Sessions!ExchangedOnce /\ Sessions!RevocationIsFinal /\ Sessions!NoFalseAlarm)
  /\ [][part = "sessions" => Sessions!TokenStep]_accessVars

\* API keys (auth.rs: lookup_api_key_hash, admin_revoke_key): after an acknowledged
\* revocation, once the look-ups that had read the row are over, nothing brings the
\* key back; an engine that had a key never serves anonymous callers again; a
\* publishable key alone reaches neither administration, RESP nor data.
ApiKeysSound ==
  /\ [](part = "keys" => ApiKeys!NeverReopens /\ ApiKeys!PublishableContained)
  /\ [][part = "keys" => ApiKeys!RevocationStep]_accessVars

\* Accounts (auth.rs: signup, oauth_resolve_user, consume_flow_token): overlapping
\* requests leave one account per address and provider identity, a mailed token or
\* code is accepted once, and a creation that failed half-way leaves nothing,
\* unless the clean-up failed as well.
AccountsSound ==
  part = "accounts" =>
    Accounts!OneAccountPerEmail /\ Accounts!FlowTokenOnce /\ Accounts!NoOrphans

\* Row grants (auth.rs: render_enforced_or_clauses, check_insert, check_update_set):
\* the rendered filter selects what the grant gives, and a statement touches and
\* leaves only rows the grant gave at a moment of the request.
GrantsSound ==
  /\ [](part = "grants" => FilterIsGrant)
  /\ [][part = "grants" => WriteStep]_accessVars

\* The HTTP gateway (http.rs): permits, request bytes and authentication workers
\* are exactly what the connections hold, on every path of a request; nobody is
\* served beyond the role of the credential; and a live socket outlives its
\* credential by at most a second.
HttpSound ==
  part = "http" =>
    Http!LimitsExact /\ Http!ServedWithinRole /\ Http!RevocationReachesSockets

\* RESP sessions (lib.rs: handle_connection, handle_tx_cmd, execute_pipeline;
\* resp.rs): the budgets are exactly what the sessions hold however they end, each
\* command of a read has its reply, and how the bytes were cut into packets changes
\* neither which commands run nor their order, only, behind an array of negative count,
\* when.
RespSound ==
  /\ part = "resp" => Resp!SessionsExact /\ Resp!RepliesInStep
  /\ part = "parser" => Parser!CutsAreInvisible

\* Live queries (http.rs: run_live_socket; pubsub.rs): a socket with nothing left
\* to receive shows exactly what its query returns, whatever queue was full and
\* whatever was written between its snapshot and its subscription, and the
\* broker's registry and counters agree with the sockets.
LiveSound == part = "live" => Live!ViewSettles /\ Live!RegistryAgrees

\* Push delivery (push/mod.rs, push/worker.rs): quota and outbox capacity hold under concurrent calls,
\* attempts are bounded and use the credentials of their batch, and a notification
\* leaves the outbox only when accepted or as one of the oldest dead letters.
PushSound ==
  /\ [](part = "push" => Pushing!PushBounded /\ Pushing!AttemptsBounded)
  /\ [][part = "push" => Pushing!OutboxStep]_accessVars
=============================================================================
