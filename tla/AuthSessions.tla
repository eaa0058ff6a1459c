---------------------------- MODULE AuthSessions ----------------------------
(***************************************************************************)
(* Sign-in sessions and refresh-token rotation (src/src/auth/refresh.rs,   *)
(* the session part of src/src/auth.rs).  Every table statement is atomic; *)
(* a request is several of them, and what it read may be old when it       *)
(* writes.  All sessions belong to one user.  A token is a number; the     *)
(* session row keeps the number of its current one (refresh_token_hash).   *)
(* A signed token carries session and generation, one of an older release  *)
(* ("opaque") nothing.  Times are seconds, 0 is an unset column.           *)
(***************************************************************************)
EXTENDS Integers, FiniteSets

CONSTANTS
  Session,     \* session identifiers
  Request,     \* concurrent HTTP requests
  RefreshTtl,  \* auth.refresh_token_ttl
  AccessTtl,   \* auth.access_token_ttl
  MaxTime,     \* bound: the last second
  MaxTokens,   \* bound: refresh tokens ever signed
  MaxAdmin     \* bound: bans

VARIABLES
  clock,       \* unix_seconds()
  banned,      \* auth.users.banned_until
  sess,        \* auth.sessions
  tokens,      \* refresh tokens a client was given
  access,      \* access tokens a client was given
  req,         \* requests in progress
  signed,      \* refresh tokens signed so far
  admins,      \* bans so far
  shown,       \* shown[n]: how often token n was presented (ghost)
  exchanged,   \* exchanged[n]: how often token n bought a successor (ghost)
  revokedFor   \* sessions whose revocation has been reported (ghost)

sessVars == <<clock, banned, sess, tokens, access, req, signed, admins, shown, exchanged, revokedFor>>

Token == 1..MaxTokens
NoSession == [live |-> FALSE, family |-> "", gen |-> 0, hash |-> 0, legacy |-> 0,
              expires |-> 0, revoked |-> 0, accessRevoked |-> 0, reuse |-> FALSE]
NoRequest == [at |-> "idle", tok |-> 0, sid |-> "", t |-> 0, next |-> 0, iat |-> 0, gen |-> 0]

\* A refresh token: its number, its claims (an opaque one has none), its expiry.
Refresh(n, s, g, exp) == [n |-> n, jwt |-> TRUE, sid |-> s, gen |-> g, exp |-> exp]
Opaque(n) == [n |-> n, jwt |-> FALSE, sid |-> "", gen |-> 0, exp |-> 0]

\* Nothing yet, or the rows an older release left: it wrote a new row of the
\* same family for every rotation and revoked the one before.
SessInit ==
  /\ clock = 1 /\ banned = 0 /\ access = {} /\ admins = 0
  /\ req = [r \in Request |-> NoRequest]
  /\ shown = [n \in Token |-> 0] /\ exchanged = [n \in Token |-> 0]
  /\ revokedFor = {}
  /\ \/ /\ sess = [s \in Session |-> NoSession]
        /\ tokens = {} /\ signed = 0
     \/ \E old, cur \in Session :
          /\ old # cur
          /\ sess = [s \in Session |->
               IF s \notin {old, cur} THEN NoSession
               ELSE [NoSession EXCEPT !.live = TRUE, !.family = old, !.expires = MaxTime + 1,
                                      !.hash = IF s = old THEN 1 ELSE 2,
                                      !.revoked = IF s = old THEN 1 ELSE 0]]
          /\ tokens = {Opaque(1), Opaque(2)} /\ signed = 2

Live == {s \in Session : sess[s].live}
Family(s) == IF sess[s].family = "" THEN s ELSE sess[s].family
UserActive(now) == banned <= now

-----------------------------------------------------------------------------
(* Looking at a token                                                      *)

\* session_for_token: by the claims, else by current hash, else by legacy hash.
SessionFor(t) ==
  IF t.jwt THEN {s \in Live : s = t.sid}
  ELSE LET cur == {s \in Live : sess[s].hash = t.n}
       IN  IF cur # {} THEN cur ELSE {s \in Live : sess[s].legacy = t.n}

\* classify: is the presented token the session's current one?
Classify(t, s) ==
  LET now == IF sess[s].revoked # 0 THEN "revoked" ELSE "current"
  IN  IF t.jwt
      THEN CASE t.gen > sess[s].gen -> "invalid"
             [] t.gen < sess[s].gen \/ sess[s].hash # t.n -> "reuse"
             [] OTHER -> now
      ELSE CASE sess[s].legacy = t.n -> "reuse"
             [] sess[s].legacy # t.n /\ sess[s].hash = t.n -> now
             [] OTHER -> "invalid"

\* revoked_opaque_was_consumed: another row of the family is not revoked.
ConsumedBefore(t, s) ==
  /\ ~t.jwt
  /\ \E o \in Live \ {s} : Family(o) = Family(s) /\ sess[o].revoked = 0

\* What the request does next with the token, as the session row stands.
Verdict(t, s) ==
  LET c == Classify(t, s)
  IN  IF c = "revoked" /\ ConsumedBefore(t, s) THEN "reuse" ELSE c

-----------------------------------------------------------------------------
(* Signing in: password_grant and issue_session_response                   *)

Idle(r) == req[r].at = "idle"
Becomes(r, rec) == req' = [req EXCEPT ![r] = rec]
Ends(r) == Becomes(r, NoRequest)

\* The password is right and the user is neither banned nor deleted.
SignIn(r) ==
  /\ Idle(r) /\ UserActive(clock)
  /\ Becomes(r, [NoRequest EXCEPT !.at = "issue"])
  /\ UNCHANGED <<clock, banned, sess, tokens, access, signed, admins, shown, exchanged, revokedFor>>

\* Sign generation 1 and an access token, insert the session row (its id is new).
IssueSession(r, s) ==
  /\ req[r].at = "issue" /\ sess[s] = NoSession /\ signed < MaxTokens
  /\ LET n == signed + 1
     IN  /\ sess' = [sess EXCEPT ![s] = [NoSession EXCEPT
                       !.live = TRUE, !.family = s, !.gen = 1, !.hash = n,
                       !.expires = clock + RefreshTtl]]
         /\ tokens' = tokens \cup {Refresh(n, s, 1, clock + RefreshTtl)}
         /\ access' = access \cup {[sid |-> s, iat |-> clock, exp |-> clock + AccessTtl]}
         /\ signed' = n
  /\ Ends(r)
  /\ UNCHANGED <<clock, banned, admins, shown, exchanged, revokedFor>>

-----------------------------------------------------------------------------
(* refresh::grant                                                          *)

\* Read the clock, decode the token (its expiry is checked), find and classify
\* the session, look at its expiry and at the user.
Present(r, t) ==
  /\ Idle(r)
  /\ shown' = [shown EXCEPT ![t.n] = IF @ < 2 THEN @ + 1 ELSE @]
  /\ LET found == SessionFor(t)
         usable == ~t.jwt \/ t.exp > clock
     IN  \/ /\ ~usable \/ found = {}
            /\ UNCHANGED req
         \/ \E s \in found :
              /\ usable
              /\ CASE Verdict(t, s) = "current" ->
                        IF sess[s].expires > clock /\ UserActive(clock)
                        THEN Becomes(r, [NoRequest EXCEPT !.at = "sign", !.tok = t.n, !.sid = s,
                                           !.t = clock, !.gen = sess[s].gen])
                        ELSE UNCHANGED req
                   [] Verdict(t, s) = "reuse" ->
                        Becomes(r, [NoRequest EXCEPT !.at = "revoke", !.sid = s, !.t = clock])
                   [] OTHER -> UNCHANGED req
  /\ UNCHANGED <<clock, banned, sess, tokens, access, signed, admins, exchanged, revokedFor>>

\* Sign the successor and an access token; the latter reads the clock again.
Sign(r) ==
  /\ req[r].at = "sign" /\ signed < MaxTokens
  /\ signed' = signed + 1
  /\ Becomes(r, [req[r] EXCEPT !.at = "rotate", !.next = signed + 1, !.iat = clock])
  /\ UNCHANGED <<clock, banned, sess, tokens, access, admins, shown, exchanged, revokedFor>>

\* Variant: the row is found by its id alone.
RotatesById(r) == sess[req[r].sid].live

\* The predicate of the UPDATE.
Rotates(r) ==
  LET s == sess[req[r].sid]
  IN  s.live /\ s.hash = req[r].tok /\ s.expires > req[r].t /\ s.revoked = 0

\* The UPDATE, the only step that decides between concurrent refreshes.
Rotate(r) ==
  LET q == req[r]
      isJwt == \E t \in tokens : t.n = q.tok /\ t.jwt
  IN
  /\ q.at = "rotate" /\ Rotates(r)
  /\ sess' = [sess EXCEPT ![q.sid] = [sess[q.sid] EXCEPT
                !.hash = q.next, !.gen = q.gen + 1, !.expires = q.t + RefreshTtl,
                !.legacy = IF isJwt THEN sess[q.sid].legacy ELSE q.tok]]
  /\ tokens' = tokens \cup {Refresh(q.next, q.sid, q.gen + 1, q.t + RefreshTtl)}
  /\ access' = access \cup {[sid |-> q.sid, iat |-> q.iat, exp |-> q.iat + AccessTtl]}
  /\ exchanged' = [exchanged EXCEPT ![q.tok] = @ + 1]
  /\ Ends(r)
  /\ UNCHANGED <<clock, banned, signed, admins, shown, revokedFor>>

\* rotation_lost: read the row again and classify once more.
RotationLost(r) ==
  LET q == req[r] IN
  /\ q.at = "rotate" /\ ~Rotates(r)
  /\ IF \E t \in tokens : t.n = q.tok /\ sess[q.sid].live /\ Classify(t, q.sid) = "reuse"
     THEN Becomes(r, [NoRequest EXCEPT !.at = "revoke", !.sid = q.sid, !.t = clock])
     ELSE Ends(r)
  /\ UNCHANGED <<clock, banned, sess, tokens, access, signed, admins, shown, exchanged, revokedFor>>

-----------------------------------------------------------------------------
(* Revocation                                                              *)

\* Variant: only the row that was looked at is revoked.
RevokesRow(s) == {s}

\* revoke_family: every row of the family.
Revokes(s) == {o \in Live : sess[o].family = sess[s].family \/ o = s}

\* Revoke with the time the request read when it began.
Revoke(sids, t, isReuse) ==
  sess' = [s \in Session |->
             IF s \in sids
             THEN [sess[s] EXCEPT !.revoked = t, !.accessRevoked = t, !.reuse = @ \/ isReuse]
             ELSE sess[s]]

\* reuse_detected: the client gets 401, the family is dead.
RevokeFamily(r) ==
  LET s == req[r].sid IN
  /\ req[r].at = "revoke"
  /\ IF sess[s].live
     THEN /\ Revoke(Revokes(s), req[r].t, TRUE)
          /\ revokedFor' = revokedFor \cup {o \in Live : Family(o) = Family(s)}
     ELSE UNCHANGED <<sess, revokedFor>>
  /\ Ends(r)
  /\ UNCHANGED <<clock, banned, tokens, access, signed, admins, shown, exchanged>>

\* validate_access_claims: expiry, session row, revocation time, session expiry, user.
Accepts(a) ==
  /\ a.exp > clock /\ a.sid \in Live
  /\ sess[a.sid].accessRevoked # 0 => a.iat > sess[a.sid].accessRevoked
  /\ sess[a.sid].expires > clock
  /\ UserActive(clock)

\* logout, with an access token or with a refresh token (session_id_for_token).
Logout(r) ==
  /\ Idle(r)
  /\ \E s \in Live :
       /\ \/ \E a \in access : a.sid = s /\ Accepts(a)
          \/ \E t \in tokens : s \in SessionFor(t)
       /\ Becomes(r, [NoRequest EXCEPT !.at = "logout", !.sid = s, !.t = clock])
  /\ UNCHANGED <<clock, banned, sess, tokens, access, signed, admins, shown, exchanged, revokedFor>>

LogoutRevoke(r) ==
  LET s == req[r].sid IN
  /\ req[r].at = "logout"
  /\ IF sess[s].live
     THEN /\ Revoke(Revokes(s), req[r].t, FALSE)
          /\ revokedFor' = revokedFor \cup {o \in Live : Family(o) = Family(s)}
     ELSE UNCHANGED <<sess, revokedFor>>
  /\ Ends(r)
  /\ UNCHANGED <<clock, banned, tokens, access, signed, admins, shown, exchanged>>

\* admin_update_user: ban the user for one second.
Ban ==
  /\ admins < MaxAdmin
  /\ banned' = clock + 1
  /\ admins' = admins + 1
  /\ UNCHANGED <<clock, sess, tokens, access, req, signed, shown, exchanged, revokedFor>>

\* admin_delete_user removes the sessions (and then the user, see AuthAccounts).
DeleteSessions ==
  /\ admins < MaxAdmin
  /\ sess' = [s \in Session |-> [sess[s] EXCEPT !.live = FALSE]]
  /\ admins' = admins + 1
  /\ UNCHANGED <<clock, banned, tokens, access, req, signed, shown, exchanged, revokedFor>>

Tick ==
  /\ clock < MaxTime
  /\ clock' = clock + 1
  /\ UNCHANGED <<banned, sess, tokens, access, req, signed, admins, shown, exchanged, revokedFor>>

SessNext ==
  \/ \E r \in Request :
       \/ SignIn(r) \/ Sign(r) \/ Rotate(r) \/ RotationLost(r)
       \/ RevokeFamily(r) \/ Logout(r) \/ LogoutRevoke(r)
       \/ \E s \in Session : IssueSession(r, s)
       \/ \E t \in tokens : Present(r, t)
  \/ Ban \/ DeleteSessions \/ Tick

SessSpec == SessInit /\ [][SessNext]_sessVars

-----------------------------------------------------------------------------
(* Properties                                                              *)

\* Rows of auth.sessions, requests in progress, refresh tokens.
SessionRow ==
  [live : BOOLEAN, family : Session \cup {""}, gen : Nat, hash : Nat, legacy : Nat,
   expires : Nat, revoked : Nat, accessRevoked : Nat, reuse : BOOLEAN]
SessionRequest ==
  [at : {"idle", "issue", "sign", "rotate", "revoke", "logout"}, tok : Nat,
   sid : Session \cup {""}, t : Nat, next : Nat, iat : Nat, gen : Nat]
RefreshToken ==
  [n : Nat, jwt : BOOLEAN, sid : Session \cup {""}, gen : Nat, exp : Nat]

\* The variables have their types, and every token mentioned was signed.
SessTypeOK ==
  /\ clock \in 1..MaxTime /\ banned \in 0..(MaxTime + 1)
  /\ signed \in 0..MaxTokens
  /\ sess \in [Session -> SessionRow] /\ req \in [Request -> SessionRequest]
  /\ tokens \subseteq RefreshToken
  /\ shown \in [Token -> 0..2] /\ exchanged \in [Token -> Nat]
  /\ revokedFor \subseteq Session
  /\ \A s \in Session : sess[s].hash <= signed /\ sess[s].legacy <= signed
  /\ \A t \in tokens : t.n \in 1..signed
  /\ \A r \in Request : req[r].tok <= signed /\ req[r].next <= signed

\* However many requests present it at once, a refresh token buys at most one
\* successor (the UPDATE of grant matches the current hash).
ExchangedOnce == \A n \in Token : exchanged[n] <= 1

\* No signed token of a session whose revocation was reported is the current one
\* of a session that may be refreshed: revocation is final for the whole family,
\* rows of an older release included (revoke_family).
RevocationIsFinal ==
  \A t \in tokens, s \in Session :
    s \in revokedFor /\ s \in SessionFor(t) => Verdict(t, s) # "current"

\* No token is handed out for a session that is revoked: not even by a request
\* that looked at the session before.
TokenStep == \A t \in tokens' \ tokens : t.sid \in Live => sess[t.sid].revoked = 0

\* A session is revoked for reuse only if some token was presented twice, or the
\* older release had already replaced it: a client that uses every token once is
\* never logged out by reuse detection.
NoFalseAlarm ==
  \A s \in Session : sess[s].reuse =>
    \/ \E n \in Token : shown[n] >= 2
    \/ \E t \in tokens : ~t.jwt /\ shown[t.n] >= 1
=============================================================================
