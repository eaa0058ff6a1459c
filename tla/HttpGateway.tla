---------------------------- MODULE HttpGateway ----------------------------
(***************************************************************************)
(* The HTTP listener (start_http_server and handle_request in              *)
(* src/src/http.rs) with the budgets of src/src/limits.rs and the browser  *)
(* policy of src/src/http/browser_security.rs.  A connection holds a       *)
(* permit, reads a head and a body against the shared request budget,      *)
(* passes the origin check, the credential look-up, the project gate and   *)
(* the route's own check, is served, and is kept alive for the next        *)
(* request.  Keys are created, credentials revoked and the server shut     *)
(* down between any two of these steps.                                    *)
(* A request the listener refuses before it has read the body is answered  *)
(* with the connection kept open: what it left unread is the next head.    *)
(***************************************************************************)
EXTENDS Integers, FiniteSets, FiniteSetsExt

CONSTANTS
  Conn,           \* client connections
  Requests,       \* [Conn -> set of [route, cred, origin, size]]
  MaxHttp,        \* ServerLimits.max_http_connections
  ByteLimit,      \* ServerLimits.max_request_buffer_bytes; a head counts 1
  MaxBody,        \* the largest body
  AuthWorkers,    \* ServerLimits.max_auth_workers
  MaxStudio,      \* Studio sessions kept (32 in the code)
  SessionTtl,     \* studio_session_ttl in ticks
  MaxHttpClock,   \* bound: ticks of one second
  MaxIssued       \* bound: Studio sessions issued

VARIABLES
  conns,          \* the connections
  permits,        \* connection permits taken
  bytes,          \* bytes charged to the request budget
  workers,        \* authentication workers taken
  password,       \* whether the engine has an operator password
  authOn,         \* whether application auth is enabled
  keys,           \* project_keys_configured
  valid,          \* credentials that are valid now: subset of {secret, publishable, user}
  sessions,       \* Studio sessions: records [id, origin, exp]
  issued,         \* Studio sessions issued so far
  httpClock,
  shut            \* the shutdown signal

httpVars == <<conns, permits, bytes, workers, password, authOn, keys, valid, sessions, issued,
              httpClock, shut>>

Trusted == {"studio", "second"}                    \* the configured origins
NoRequest == [route |-> "none", cred |-> [kind |-> "none", id |-> 0], origin |-> "none", size |-> 0]
NoConn == [at |-> "closed", req |-> NoRequest, ctx |-> "none", held |-> 0, open |-> FALSE,
           effect |-> "none", unread |-> FALSE, checked |-> FALSE, stale |-> 0]

HttpInit ==
  /\ conns = [c \in Conn |-> NoConn] /\ permits = 0 /\ bytes = 0 /\ workers = 0
  /\ password \in BOOLEAN /\ authOn \in BOOLEAN
  /\ keys = FALSE /\ valid = {} /\ sessions = {} /\ issued = 0 /\ httpClock = 0 /\ shut = FALSE

ConfigUnchanged == UNCHANGED <<password, authOn, keys, valid, httpClock, shut>>
Gated == password \/ keys

-----------------------------------------------------------------------------
(* Resources                                                               *)

\* ByteReservation::try_grow
Fits(n) == bytes + n <= ByteLimit

\* Variant: a connection that ends keeps what it had reserved.
KeepsBytes(c) == 0

\* Drop for ByteReservation: the reservation of a request ends with handle_request.
Released(c) == conns[c].held

Close(c) ==
  /\ conns' = [conns EXCEPT ![c] = NoConn]
  /\ permits' = permits - 1 /\ bytes' = bytes - Released(c)

\* Ok(true): the next request starts with a new reservation.
KeepAlive(c, unread) ==
  /\ conns' = [conns EXCEPT ![c] = [NoConn EXCEPT !.at = "head", !.unread = unread]]
  /\ bytes' = bytes - Released(c) /\ UNCHANGED permits

To(c, at) == conns' = [conns EXCEPT ![c].at = at]

-----------------------------------------------------------------------------
(* Reading a request                                                       *)

\* start_http_server; without a permit the socket gets a 503 and is dropped.
Accept(c) ==
  /\ conns[c].at = "closed" /\ ~shut /\ permits < MaxHttp
  /\ permits' = permits + 1 /\ conns' = [conns EXCEPT ![c] = [NoConn EXCEPT !.at = "head"]]
  /\ ConfigUnchanged /\ UNCHANGED <<bytes, workers, sessions, issued>>

\* The head; a request budget without room ends the connection with a 503.
ReadHead(c, q) ==
  /\ conns[c].at = "head" /\ ~shut
  /\ IF Fits(1)
     THEN /\ bytes' = bytes + 1 /\ UNCHANGED permits
          /\ conns' = [conns EXCEPT ![c].at = "admit", ![c].req = q, ![c].held = 1]
     ELSE Close(c)
  /\ ConfigUnchanged /\ UNCHANGED <<workers, sessions, issued>>

\* Shutdown, a timeout, the end of the stream, a head that is too large or whose
\* framing is refused (Transfer-Encoding, Content-Length), a pipelined request.
Abandon(c) ==
  /\ conns[c].at \in {"head", "body"}
  /\ Close(c)
  /\ ConfigUnchanged /\ UNCHANGED <<workers, sessions, issued>>

\* BrowserPolicy::request_origin: only an engine without credentials is choosy.
OriginAllowed(q) == q.origin \in Trusted \cup {"none"} \/ Gated

\* The checks between the head and the body answer and keep the connection.
Admit(c) ==
  LET q == conns[c].req IN
  /\ conns[c].at = "admit"
  /\ IF OriginAllowed(q) /\ q.size <= MaxBody THEN To(c, "body") /\ UNCHANGED <<permits, bytes>>
     ELSE KeepAlive(c, q.size > 0)
  /\ ConfigUnchanged /\ UNCHANGED <<workers, sessions, issued>>

\* The body; preflight and health answer before any credential is looked at.
ReadBody(c) ==
  LET q == conns[c].req IN
  /\ conns[c].at = "body" /\ ~shut
  /\ IF Fits(q.size)
     THEN IF q.route \in {"options", "health"} THEN KeepAlive(c, FALSE)
          ELSE /\ bytes' = bytes + q.size /\ UNCHANGED permits
               /\ conns' = [conns EXCEPT ![c].held = @ + q.size, ![c].at = "resolve"]
     ELSE Close(c)
  /\ ConfigUnchanged /\ UNCHANGED <<workers, sessions, issued>>

-----------------------------------------------------------------------------
(* Who is asking                                                           *)

Live(ss) == {s \in ss : s.exp > httpClock}

\* StudioSessions::authorize: the token counts only from the origin it was issued for.
StudioAuthorized(q) ==
  /\ q.cred.kind = "studio" /\ q.origin \in Trusted
  /\ \E s \in Live(sessions) : s.id = q.cred.id /\ s.origin = q.origin

\* resolve_credential on the HTTP surface, for one presented credential.
ContextOf(q) ==
  IF StudioAuthorized(q) THEN "studio"
  ELSE IF q.cred.kind = "operator" /\ password THEN "operator"
  ELSE IF q.cred.kind \in valid /\ (q.cred.kind = "user" => authOn) THEN q.cred.kind
  ELSE IF q.cred.kind \in {"operator", "studio", "user"} /\ authOn THEN "error"
  ELSE "anonymous"

\* The auth API has checks of its own and takes a worker for what is expensive.
StartAuth(c) ==
  /\ conns[c].at = "resolve" /\ conns[c].req.route \in {"auth", "authGet"}
  /\ IF conns[c].req.route = "authGet" THEN To(c, "reply") /\ UNCHANGED workers
     ELSE IF workers < AuthWorkers THEN To(c, "auth") /\ workers' = workers + 1
     ELSE To(c, "reply") /\ UNCHANGED workers
  /\ ConfigUnchanged /\ UNCHANGED <<permits, bytes, sessions, issued>>

\* The permit goes before the answer is written.
EndAuth(c) ==
  /\ conns[c].at = "auth"
  /\ To(c, "reply") /\ workers' = workers - 1
  /\ ConfigUnchanged /\ UNCHANGED <<permits, bytes, sessions, issued>>

Resolve(c) ==
  LET who == ContextOf(conns[c].req) IN
  /\ conns[c].at = "resolve" /\ conns[c].req.route \notin {"auth", "authGet"}
  /\ conns' = [conns EXCEPT ![c].ctx = who, ![c].at = IF who = "error" THEN "reply" ELSE "gate"]
  /\ ConfigUnchanged /\ UNCHANGED <<permits, bytes, workers, sessions, issued>>

Full == {"operator", "secret", "studio"}

\* Variant: the publishable key opens what its bearer could open.
PermitsKey(c) == ~Gated \/ conns[c].ctx \in Full \cup {"user", "publishable"}

\* The gate of an engine that has a password or keys.
Permitted(c) == ~Gated \/ conns[c].ctx \in Full \cup {"user"}

Gate(c) ==
  /\ conns[c].at = "gate"
  /\ conns' = [conns EXCEPT ![c].at = IF Permitted(c) THEN "serve" ELSE "reply", ![c].open = ~Gated]
  /\ ConfigUnchanged /\ UNCHANGED <<permits, bytes, workers, sessions, issued>>

-----------------------------------------------------------------------------
(* Serving                                                                 *)

\* enforce_table_read, enforce_table_insert, enforce_table_write_where and
\* scope_table_query_read: which rows the request may touch.
RowsEffect(ctx) ==
  CASE ~authOn \/ ctx \in Full -> "all"
    [] ctx = "user" -> "granted"
    [] OTHER -> "none"

\* route_requires_project_access and require_project_access: what is not listed is
\* for the project's own credentials.
ProjectEffect(route, ctx) ==
  IF route = "project" /\ (~authOn \/ ctx \in Full) THEN "project" ELSE "none"

\* snapshot_management_authorized, for a backup and for a restore.
BackupEffect(ctx) == IF ~Gated \/ ctx \in Full THEN "backup" ELSE "none"

EffectOf(route, ctx) ==
  CASE route = "rows" -> RowsEffect(ctx)
    [] route = "backup" -> BackupEffect(ctx)
    [] OTHER -> ProjectEffect(route, ctx)

Serve(c) ==
  LET k == conns[c] IN
  /\ k.at = "serve" /\ k.req.route \notin {"studio", "live"}
  /\ conns' = [conns EXCEPT ![c].at = "reply", ![c].effect = EffectOf(k.req.route, k.ctx)]
  /\ ConfigUnchanged /\ UNCHANGED <<permits, bytes, workers, sessions, issued>>

\* StudioSessions::issue: expired sessions and the origin's old one go, then the
\* oldest when the table is full.
Issue(c) ==
  LET k == conns[c]
      kept == {s \in Live(sessions) : s.origin # k.req.origin}
      oldest == CHOOSE s \in kept : \A t \in kept : s.exp <= t.exp
      room == IF Cardinality(kept) >= MaxStudio THEN kept \ {oldest} ELSE kept
  IN
  /\ k.at = "serve" /\ k.req.route = "studio" /\ issued < MaxIssued
  /\ IF k.ctx = "operator" /\ k.req.origin \in Trusted
     THEN /\ sessions' = room \cup {[id |-> issued + 1, origin |-> k.req.origin,
                                     exp |-> httpClock + SessionTtl]}
          /\ issued' = issued + 1
          /\ conns' = [conns EXCEPT ![c].at = "reply", ![c].effect = "session"]
     ELSE To(c, "reply") /\ UNCHANGED <<sessions, issued>>
  /\ ConfigUnchanged /\ UNCHANGED <<permits, bytes, workers>>

\* handle_live_upgrade: the request's bytes are given back first.
Upgrade(c) ==
  /\ conns[c].at = "serve" /\ conns[c].req.route = "live"
  /\ bytes' = bytes - Released(c)
  /\ conns' = [conns EXCEPT ![c].at = "live", ![c].held = 0]
  /\ ConfigUnchanged /\ UNCHANGED <<permits, workers, sessions, issued>>

\* send_json; a write that times out or finds no response budget ends the connection.
Reply(c) ==
  /\ conns[c].at = "reply"
  /\ KeepAlive(c, FALSE) \/ Close(c)
  /\ ConfigUnchanged /\ UNCHANGED <<workers, sessions, issued>>

-----------------------------------------------------------------------------
(* A live socket                                                           *)

\* Variant: only end-user tokens are looked at again.
ChecksUsers(q, ctx) == ctx = "user" => "user" \in valid

\* revalidate_user_credential, revalidate_secret_credential, StudioSessions::authorize
StillValid(q, ctx) ==
  /\ ctx \in {"user", "secret"} => ctx \in valid
  /\ ctx = "studio" => StudioAuthorized(q)

\* run_live_socket, the tick of one second.
CheckLive(c) ==
  LET k == conns[c] IN
  /\ k.at = "live" /\ ~k.checked
  /\ IF StillValid(k.req, k.ctx)
     THEN conns' = [conns EXCEPT ![c].checked = TRUE] /\ UNCHANGED <<permits, bytes>>
     ELSE Close(c)
  /\ ConfigUnchanged /\ UNCHANGED <<workers, sessions, issued>>

\* Shutdown, idle timeout, close by the peer, a failed send.
EndLive(c) ==
  /\ conns[c].at = "live"
  /\ Close(c)
  /\ ConfigUnchanged /\ UNCHANGED <<workers, sessions, issued>>

-----------------------------------------------------------------------------
(* The rest of the engine                                                  *)

Outside == UNCHANGED <<permits, bytes, workers, password, authOn, sessions, issued>>

\* Whether a live socket's credential would be refused now.
Void(c) ==
  LET k == conns[c] IN
  k.at = "live" /\ \/ k.ctx \in {"user", "secret"} /\ k.ctx \notin valid
                   \/ k.ctx = "studio" /\ ~StudioAuthorized(k.req)

\* A second passes; every live socket has checked its credential in it.
HttpTick ==
  /\ httpClock < MaxHttpClock /\ httpClock' = httpClock + 1
  /\ \A c \in Conn : conns[c].at = "live" => conns[c].checked
  /\ conns' = [c \in Conn |-> [conns[c] EXCEPT !.checked = FALSE,
                                               !.stale = IF Void(c) THEN @ + 1 ELSE 0]]
  /\ Outside /\ UNCHANGED <<keys, valid, shut>>

CreateKeys ==
  /\ ~keys /\ keys' = TRUE /\ valid' = valid \cup {"secret", "publishable"}
  /\ Outside /\ UNCHANGED <<conns, httpClock, shut>>

SignIn ==
  /\ authOn /\ "user" \notin valid /\ httpClock = 0 /\ valid' = valid \cup {"user"}
  /\ Outside /\ UNCHANGED <<conns, keys, httpClock, shut>>

RevokeCredential(cr) ==
  /\ cr \in valid /\ valid' = valid \ {cr}
  /\ Outside /\ UNCHANGED <<conns, keys, httpClock, shut>>

Shutdown ==
  /\ ~shut /\ shut' = TRUE
  /\ Outside /\ UNCHANGED <<conns, keys, valid, httpClock>>

ConnNext(c) ==
  \/ Accept(c) \/ (\E q \in Requests[c] : ReadHead(c, q)) \/ Abandon(c) \/ Admit(c) \/ ReadBody(c)
  \/ StartAuth(c) \/ EndAuth(c) \/ Resolve(c) \/ Gate(c) \/ Serve(c) \/ Issue(c) \/ Upgrade(c)
  \/ Reply(c) \/ CheckLive(c) \/ EndLive(c)

HttpNext ==
  \/ \E c \in Conn : ConnNext(c)
  \/ HttpTick \/ CreateKeys \/ SignIn \/ (\E cr \in valid : RevokeCredential(cr)) \/ Shutdown

HttpSpec == HttpInit /\ [][HttpNext]_httpVars

-----------------------------------------------------------------------------
(* Properties                                                              *)

Using(where) == Cardinality({c \in Conn : conns[c].at \in where})

(***************************************************************************)
(* The shared limits are exact on every path through a request: the        *)
(* permits, the request bytes and the authentication workers in use are    *)
(* those the connections hold, none above its limit, and a connection that *)
(* is waiting for its next request, is a live socket or is gone holds no   *)
(* bytes (http.rs:230-300, 340-1115; limits.rs:222-268).                   *)
(***************************************************************************)
LimitsExact ==
  /\ permits = Cardinality({c \in Conn : conns[c].at # "closed"}) /\ permits <= MaxHttp
  /\ bytes = MapThenSumSet(LAMBDA c : conns[c].held, Conn)
  /\ bytes <= ByteLimit
  /\ workers = Using({"auth"}) /\ workers <= AuthWorkers
  /\ \A c \in Conn : conns[c].at \in {"closed", "head", "live"} => conns[c].held = 0

(***************************************************************************)
(* The gates in front of a handler amount to one policy: whatever touches  *)
(* all rows, the raw keyspace or a backup was asked for by the operator, a *)
(* secret key or a Studio session, or was let in while the engine had      *)
(* neither password nor keys; an end user gets no further than the rows of *)
(* the grants; only the operator opens Studio sessions; a key without a    *)
(* person is served nothing (http.rs:760-850, 1600-1940, 4249-4680).       *)
(***************************************************************************)
ServedWithinRole ==
  \A c \in Conn :
    LET k == conns[c] IN
    /\ k.effect \in {"all", "project", "backup"} => k.ctx \in Full \/ k.open
    /\ k.effect = "granted" => k.ctx = "user"
    /\ k.effect = "session" => k.ctx = "operator"
    /\ k.at = "live" => k.ctx \in Full \cup {"user"} \/ k.open

(***************************************************************************)
(* A live socket does not outlive its credential by more than a second,    *)
(* whichever kind it is, and at most MaxStudio Studio sessions are kept,   *)
(* one per origin (run_live_socket's auth tick, StudioSessions).           *)
(***************************************************************************)
RevocationReachesSockets ==
  /\ \A c \in Conn : conns[c].stale <= 1
  /\ Cardinality(sessions) <= MaxStudio
  /\ \A s, t \in sessions : s.origin = t.origin => s = t

\* The variables have their types.
HttpTypeOK ==
  /\ permits \in 0..MaxHttp /\ bytes \in 0..ByteLimit /\ workers \in 0..AuthWorkers
  /\ keys \in BOOLEAN /\ valid \subseteq {"secret", "publishable", "user"}
  /\ issued \in 0..MaxIssued /\ httpClock \in 0..MaxHttpClock
  /\ \A c \in Conn : /\ conns[c].held \in 0..(1 + MaxBody)
                     /\ conns[c].ctx \in {"none", "error", "anonymous", "publishable", "user"} \cup Full
=============================================================================
