------------------------------ MODULE AuthKeys ------------------------------
(***************************************************************************)
(* Project API keys: the table auth.keys, the cache of resolved keys, and  *)
(* what a presented credential may reach (src/src/auth.rs, and the gates   *)
(* of http.rs, lib.rs and cmd/server.rs).  A look-up reads the cache, then *)
(* the row, then fills the cache, and each is a step of its own: minting   *)
(* and revoking run in between.  A request carries a project credential    *)
(* (its apikey slot) and a bearer token; "jwt" is a valid access token.    *)
(***************************************************************************)
EXTENDS Integers, FiniteSets

CONSTANTS
  Key,          \* project keys
  Caller,       \* concurrent requests and RESP connections
  SecretKeys,   \* the keys of kind secret; the others are publishable
  CacheTtl,     \* API_KEY_CACHE_TTL
  MaxKeyClock   \* bound: the last second

VARIABLES
  keyClock,
  keyRow,       \* keyRow[k]: "none", "live" or "revoked", the row of auth.keys
  keyCache,     \* keyCache[k]: what was resolved and when, or Absent
  call,         \* calls in progress
  admin,        \* the administrator's key that is still to be invalidated
  everKeys,     \* a key was created (ghost)
  revokedAck    \* keys whose revocation was acknowledged (ghost)

keyVars == <<keyClock, keyRow, keyCache, call, admin, everKeys, revokedAck>>

Absent == [kind |-> "absent", at |-> 0]
Kind(k) == IF k \in SecretKeys THEN "secret" ELSE "publishable"
Slot == Key \cup {"", "password", "wrong"}
Bearer == {"", "jwt", "expired"}
NoCall == [at |-> "idle", route |-> "", look |-> "", tok |-> "", seen |-> ""]

KeyInit ==
  /\ keyClock = 0 /\ admin = "" /\ everKeys = FALSE /\ revokedAck = {}
  /\ keyRow = [k \in Key |-> "none"]
  /\ keyCache = [k \in Key |-> Absent]
  /\ call = [c \in Caller |-> NoCall]

-----------------------------------------------------------------------------
(* What a credential is: resolve_credential                                *)

\* Variant: only keys that are still valid count.
LiveKeysConfigured == \E k \in Key : keyRow[k] = "live"

\* project_keys_configured: the table has rows (a revoked key keeps its row).
KeysConfigured == \E k \in Key : keyRow[k] # "none"

\* resolve_user: a project key in the slot of a token is not a user token.
ResolveUser(token) ==
  CASE token = "jwt" -> "user"
    [] token \in Key \cup {""} -> "none"
    [] OTHER -> "error"

\* Variant: the surface is not looked at.
ResolveAnywhere(presented, found, userToken, surface) ==
  CASE presented = "password" -> "operator"
    [] presented # "password" /\ found \in {"publishable", "secret"} -> "secret"
    [] OTHER -> "anonymous"

\* found is what the look-up of a presented key returned.
ResolveCredential(presented, found, userToken, surface) ==
  IF presented = "password" THEN "operator"
  ELSE IF found = "secret" THEN "secret"
  ELSE IF found = "publishable"
       THEN IF surface = "resp" THEN "error"
            ELSE IF ResolveUser(userToken) = "none" THEN "publishable" ELSE ResolveUser(userToken)
  ELSE IF userToken # "" /\ presented # "" THEN "error"
  ELSE IF ResolveUser(userToken) # "none" THEN ResolveUser(userToken)
  ELSE IF ResolveUser(presented) # "none" THEN ResolveUser(presented)
  ELSE "anonymous"

\* auth_route_access: which credential a route of /auth/v1 asks for (the public
\* ones look at none); one route stands for each class.
Access == [signup |-> "project", user |-> "user", adminKeys |-> "secret"]
AuthRoute == DOMAIN Access
Route == AuthRoute \cup {"data", "resp"}

\* presented_key, and for a route of a signed-in user only an explicit key.
Presented(route, key, bearer) ==
  IF route \in AuthRoute /\ Access[route] # "user" /\ key = "" THEN bearer ELSE key
Surface(route) == CASE route = "resp" -> "resp" [] route = "data" -> "http" [] OTHER -> "auth"

\* authorize_auth_route with require_publishable_or_secret and require_secret.
AuthRoutePermits(q, who) ==
  CASE Access[q.route] = "project" ->
         who \in {"publishable", "secret", "operator"} \/ (who # "error" /\ ~KeysConfigured)
    [] Access[q.route] = "secret" -> who \in {"secret", "operator"}
    [] Access[q.route] = "user" -> q.look = "" \/ who \in {"publishable", "secret", "operator"}

\* The gate of the HTTP data routes: open until a password or a key exists.
DataPermits(who) == ~KeysConfigured \/ who \in {"operator", "secret", "user"}

\* cmd_auth: RESP takes the password and secret keys.
RespPermits(who) == KeysConfigured /\ who \in {"operator", "secret"}

Permits(q, who) ==
  CASE q.route = "resp" -> RespPermits(who)
    [] q.route = "data" -> who # "error" /\ DataPermits(who)
    [] OTHER -> AuthRoutePermits(q, who)

-----------------------------------------------------------------------------
(* A call                                                                  *)

\* Whether the request is let through, given what the look-up found.
Admits(q, found) ==
  Permits(q, ResolveCredential(q.look, found, q.tok, Surface(q.route)))

\* An authenticated RESP connection stays (CmdResult::Authenticated).
Decide(c, q, found) ==
  call' = [call EXCEPT ![c] =
             IF q.route = "resp" /\ q.look \in Key /\ Admits(q, found)
             THEN [NoCall EXCEPT !.at = "session", !.look = q.look] ELSE NoCall]

\* The request as the gates see it.
RequestOf(route, key, bearer) ==
  [NoCall EXCEPT !.at = "read", !.route = route, !.look = Presented(route, key, bearer),
                 !.tok = IF route = "data" THEN bearer ELSE ""]

\* cached_api_key: a live entry answers.
Cached(k) == keyCache[k] # Absent /\ keyClock - keyCache[k].at < CacheTtl

\* The request arrives: what is not a key is resolved at once, a cached key too.
Arrive(c, route, key, bearer) ==
  LET q == RequestOf(route, key, bearer) IN
  /\ call[c].at = "idle"
  /\ CASE q.look \notin Key -> Decide(c, q, "none")
       [] q.look \in Key /\ Cached(q.look) -> Decide(c, q, keyCache[q.look].kind)
       [] OTHER -> call' = [call EXCEPT ![c] = q]
  /\ UNCHANGED <<keyClock, keyRow, keyCache, admin, everKeys, revokedAck>>

\* revalidate_secret_credential, once a second on a RESP connection.
Revalidate(c) ==
  LET k == call[c].look IN
  /\ call[c].at = "session"
  /\ call' = [call EXCEPT ![c] =
       IF ~Cached(k) THEN [NoCall EXCEPT !.at = "read", !.route = "session", !.look = k]
       ELSE IF keyCache[k].kind = "secret" THEN @ ELSE NoCall]
  /\ UNCHANGED <<keyClock, keyRow, keyCache, admin, everKeys, revokedAck>>

\* lookup_api_key_hash: a revoked row counts as none.
RowResolves(k) == IF keyRow[k] = "live" THEN Kind(k) ELSE "none"

\* find_row_by_field.
ReadKeyRow(c) ==
  /\ call[c].at = "read"
  /\ call' = [call EXCEPT ![c].at = "fill", ![c].seen = RowResolves(call[c].look)]
  /\ UNCHANGED <<keyClock, keyRow, keyCache, admin, everKeys, revokedAck>>

\* store_cached_api_key, misses too; then the decision.
FillCache(c) ==
  LET q == call[c] IN
  /\ q.at = "fill"
  /\ keyCache' = [keyCache EXCEPT ![q.look] = [kind |-> q.seen, at |-> keyClock]]
  /\ IF q.route = "session"
     THEN call' = [call EXCEPT ![c] = IF q.seen = "secret" THEN [NoCall EXCEPT !.at = "session", !.look = q.look]
                                      ELSE NoCall]
     ELSE Decide(c, q, q.seen)
  /\ UNCHANGED <<keyClock, keyRow, admin, everKeys, revokedAck>>

-----------------------------------------------------------------------------
(* Administration                                                          *)

\* insert_api_key: the row; the cached miss is dropped after it.
CreateKey(k) ==
  /\ admin = "" /\ keyRow[k] = "none"
  /\ keyRow' = [keyRow EXCEPT ![k] = "live"] /\ admin' = k /\ everKeys' = TRUE
  /\ UNCHANGED <<keyClock, keyCache, call, revokedAck>>

\* admin_revoke_key: the row; the cache is cleared after it.
RevokeKey(k) ==
  /\ admin = "" /\ keyRow[k] # "none"
  /\ keyRow' = [keyRow EXCEPT ![k] = "revoked"] /\ admin' = k
  /\ UNCHANGED <<keyClock, keyCache, call, everKeys, revokedAck>>

\* invalidate_api_key_cache, and the answer to the administrator.
Invalidate ==
  /\ admin # ""
  /\ keyCache' = [k \in Key |-> Absent] /\ admin' = ""
  /\ revokedAck' = IF keyRow[admin] = "revoked" THEN revokedAck \cup {admin} ELSE revokedAck
  /\ UNCHANGED <<keyClock, keyRow, call, everKeys>>

KeyTick ==
  /\ keyClock < MaxKeyClock
  /\ keyClock' = keyClock + 1
  /\ UNCHANGED <<keyRow, keyCache, call, admin, everKeys, revokedAck>>

KeyNext ==
  \/ \E c \in Caller :
       \/ \E route \in Route, key \in Slot, bearer \in Bearer : Arrive(c, route, key, bearer)
       \/ Revalidate(c) \/ ReadKeyRow(c) \/ FillCache(c)
  \/ \E k \in Key : CreateKey(k) \/ RevokeKey(k)
  \/ Invalidate \/ KeyTick

KeySpec == KeyInit /\ [][KeyNext]_keyVars

-----------------------------------------------------------------------------
(* Properties                                                              *)

\* The variables have their types.
KeyTypeOK ==
  /\ keyClock \in 0..MaxKeyClock /\ admin \in Key \cup {""}
  /\ \A k \in Key : keyCache[k].kind \in {"absent", "none", "publishable", "secret"}
  /\ \A c \in Caller : call[c].at \in {"idle", "read", "fill", "session"}

\* The cache grants the key, or a look-up that read the row as valid is about to.
MayGrant(k) ==
  \/ Cached(k) /\ keyCache[k].kind # "none"
  \/ \E c \in Caller : call[c].at = "fill" /\ call[c].look = k /\ call[c].seen # "none"

\* Once a revocation is acknowledged and what was read before it has been used up,
\* nothing brings the key back: a stale grant is bounded by the look-ups under way
\* and CacheTtl (lookup_api_key_hash against admin_revoke_key).
RevocationStep == \A k \in revokedAck : ~MayGrant(k) => ~MayGrant(k)'

\* Once a key exists, a request without a valid credential gets nowhere, not even
\* after every key was revoked: the engine does not become open again.
NeverReopens ==
  everKeys =>
    \A route \in Route \ {"user"}, key \in {"", "wrong"}, bearer \in {"", "expired"} :
      ~Admits(RequestOf(route, key, bearer), "none")

\* What the look-up of this key would return now, or did return to someone.
Resolutions(k) ==
  (IF Cached(k) THEN {keyCache[k].kind} ELSE {}) \cup
  {call[c].seen : c \in {d \in Caller : call[d].at = "fill" /\ call[d].look = k}}

\* Whatever way a publishable key takes (cached or fresh, apikey or bearer slot),
\* without a user token it reaches neither administration nor RESP, and no data
\* route of a project that has keys.
PublishableContained ==
  \A k \in Key \ SecretKeys, route \in {"adminKeys", "resp", "data"} :
    \A found \in Resolutions(k) : everKeys => ~Admits(RequestOf(route, k, ""), found)

=============================================================================
