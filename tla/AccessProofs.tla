---------------------------- MODULE AccessProofs ----------------------------
(***************************************************************************)
(* Refresh tokens and project keys: what AuthSessions and AuthKeys         *)
(* promise, proved for every set of sessions, keys and concurrent requests *)
(* and every bound.                                                        *)
(*                                                                         *)
(* A request signs the successor before the UPDATE decides whether the     *)
(* rotation is its own, so numbers of tokens exist that no client and no   *)
(* row knows (NumberInv).  The UPDATE makes such a number the hash of the  *)
(* row and the old hash an exchanged one, never to be current again        *)
(* (CurrentInv); a token that is not current was exchanged, so somebody    *)
(* showed it before (ShownInv), which is what reuse detection rests on.    *)
(*                                                                         *)
(* The cache of keys may hold what was read before a revocation.  It heals *)
(* because a revoked row is never valid again (RowsInv), so every look-up  *)
(* that reads it later fills in a miss (FoundInv).                         *)
(***************************************************************************)
EXTENDS MCAccess, TLAPS

-----------------------------------------------------------------------------
(* Refresh tokens: the inductive invariant                                 *)

\* Request r has found its token current and has not written yet.
Refreshing(r) == req[r].at \in {"sign", "rotate"}

\* A request knows its session and the time it began, a refresh its token and,
\* once signed, the successor.
RequestInv ==
  \A r \in Request :
    /\ req[r].at \in {"sign", "rotate", "revoke", "logout"} =>
         req[r].sid \in Session /\ req[r].t # 0
    /\ Refreshing(r) => req[r].tok # 0
    /\ req[r].at = "rotate" => req[r].next # 0

\* Between the signing and the UPDATE the successor is known to its request alone.
NumberInv ==
  \A r \in Request : req[r].at = "rotate" =>
    /\ exchanged[req[r].next] = 0
    /\ \A s \in Session : sess[s].hash # req[r].next
    /\ \A t \in tokens : t.n # req[r].next
    /\ \A q \in Request : Refreshing(q) => req[q].tok # req[r].next
    /\ \A q \in Request \ {r} : req[q].at = "rotate" => req[q].next # req[r].next

\* A hash is current in one row only; an exchanged token was exchanged once and is
\* current nowhere; a signed token is current, with its generation, or exchanged;
\* a refresh whose token is still current has read the generation of the row.
CurrentInv ==
  /\ \A s, o \in Session : sess[s].hash = sess[o].hash /\ sess[s].hash # 0 => s = o
  /\ \A n \in Sessions!Token : exchanged[n] # 0 =>
       exchanged[n] = 1 /\ n <= signed /\ \A s \in Session : sess[s].hash # n
  /\ \A r \in Request : Refreshing(r) =>
       /\ \A t \in tokens : t.n = req[r].tok /\ t.jwt => t.sid = req[r].sid
       /\ sess[req[r].sid].hash = req[r].tok => sess[req[r].sid].gen = req[r].gen
  /\ \A t \in tokens : t.jwt =>
       /\ t.sid \in Session
       /\ \/ sess[t.sid].hash = t.n /\ sess[t.sid].gen = t.gen
          \/ t.gen < sess[t.sid].gen /\ exchanged[t.n] = 1

\* No two tokens share a number.
UniqueInv == \A t, u \in tokens : t.n = u.n => t = u

\* A reported revocation is in the row; a row that exists has a family.
RevokedInv ==
  /\ \A s \in revokedFor : sess[s].revoked # 0
  /\ \A s \in Session : sess[s].live => sess[s].family # ""

\* Some token was presented twice, or an opaque one at all.
Alarm ==
  \/ \E n \in Sessions!Token : shown[n] >= 2
  \/ \E t \in tokens : ~t.jwt /\ shown[t.n] >= 1

\* Whatever was exchanged had been presented, so has the token of a refresh under
\* way, and twice if it was exchanged before or another request refreshes with it.
ShownInv ==
  /\ \A n \in Sessions!Token : exchanged[n] # 0 => shown[n] >= 1
  /\ \A r \in Request : Refreshing(r) =>
       /\ shown[req[r].tok] >= 1
       /\ exchanged[req[r].tok] # 0 => shown[req[r].tok] >= 2
       /\ \A q \in Request \ {r} : Refreshing(q) /\ req[q].tok = req[r].tok =>
            shown[req[r].tok] >= 2

TokenInv == NumberInv /\ CurrentInv /\ UniqueInv /\ ShownInv

\* Whoever is about to revoke for reuse, or has, has cause.
AlarmInv ==
  /\ \A r \in Request : req[r].at = "revoke" => Alarm
  /\ \A s \in Session : sess[s].reuse => Alarm

SessInv ==
  Sessions!SessTypeOK /\ RequestInv /\ TokenInv /\ RevokedInv /\ AlarmInv

-----------------------------------------------------------------------------
(* What the statements of auth/refresh.rs do                               *)

\* A request, a session row and a token have the fields their types say.
LEMMA SessFields ==
  ASSUME Sessions!SessTypeOK
  PROVE  /\ \A r \in Request :
              /\ req[r] \in Sessions!SessionRequest
              /\ req[r].at \in {"idle", "issue", "sign", "rotate", "revoke", "logout"}
              /\ req[r].tok \in Nat /\ req[r].next \in Nat /\ req[r].gen \in Nat
              /\ req[r].t \in Nat /\ req[r].iat \in Nat
              /\ req[r].sid \in Session \cup {""}
         /\ \A s \in Session :
              /\ sess[s] \in Sessions!SessionRow
              /\ sess[s].hash \in Nat /\ sess[s].gen \in Nat /\ sess[s].legacy \in Nat
              /\ sess[s].revoked \in Nat /\ sess[s].expires \in Nat
              /\ sess[s].live \in BOOLEAN /\ sess[s].reuse \in BOOLEAN
         /\ \A t \in tokens :
              /\ t \in Sessions!RefreshToken /\ t.n \in Nat /\ t.gen \in Nat
              /\ t.jwt \in BOOLEAN /\ t.sid \in Session \cup {""}
         /\ clock \in Nat \ {0} /\ signed \in Nat
<1>1. ASSUME NEW r \in Request
      PROVE  /\ req[r] \in Sessions!SessionRequest
             /\ req[r].at \in {"idle", "issue", "sign", "rotate", "revoke", "logout"}
             /\ req[r].tok \in Nat /\ req[r].next \in Nat /\ req[r].gen \in Nat
             /\ req[r].t \in Nat /\ req[r].iat \in Nat
             /\ req[r].sid \in Session \cup {""}
  <2>1. req[r] \in Sessions!SessionRequest
    BY DEF Sessions!SessTypeOK
  <2> QED
    BY <2>1 DEF Sessions!SessionRequest
<1>2. ASSUME NEW s \in Session
      PROVE  /\ sess[s] \in Sessions!SessionRow
             /\ sess[s].hash \in Nat /\ sess[s].gen \in Nat /\ sess[s].legacy \in Nat
             /\ sess[s].revoked \in Nat /\ sess[s].expires \in Nat
             /\ sess[s].live \in BOOLEAN /\ sess[s].reuse \in BOOLEAN
  <2>1. sess[s] \in Sessions!SessionRow
    BY DEF Sessions!SessTypeOK
  <2> QED
    BY <2>1 DEF Sessions!SessionRow
<1>3. ASSUME NEW t \in tokens
      PROVE  /\ t \in Sessions!RefreshToken /\ t.n \in Nat /\ t.gen \in Nat
             /\ t.jwt \in BOOLEAN /\ t.sid \in Session \cup {""}
  <2>1. t \in Sessions!RefreshToken
    BY DEF Sessions!SessTypeOK
  <2> QED
    BY <2>1 DEF Sessions!RefreshToken
<1>4. clock \in Nat \ {0} /\ signed \in Nat
  BY TimesAssumption DEF Sessions!SessTypeOK
<1> QED
  BY <1>1, <1>2, <1>3, <1>4

\* What replacing the request of r does.
LEMMA BecomesEffect ==
  ASSUME Sessions!SessTypeOK, NEW r \in Request, NEW q \in Sessions!SessionRequest,
         Sessions!Becomes(r, q)
  PROVE  /\ req' \in [Request -> Sessions!SessionRequest] /\ req'[r] = q
         /\ \A o \in Request \ {r} : req'[o] = req[o]
  BY DEF Sessions!Becomes, Sessions!SessTypeOK

\* The request of r ends.
LEMMA EndsEffect ==
  ASSUME Sessions!SessTypeOK, NEW r \in Request, Sessions!Ends(r)
  PROVE  /\ req' \in [Request -> Sessions!SessionRequest]
         /\ req'[r].at = "idle" /\ req'[r].tok = 0 /\ req'[r].next = 0
         /\ \A o \in Request \ {r} : req'[o] = req[o]
<1>1. Sessions!NoRequest \in Sessions!SessionRequest
  BY DEF Sessions!NoRequest, Sessions!SessionRequest
<1>2. Sessions!Becomes(r, Sessions!NoRequest)
  BY DEF Sessions!Ends
<1>3. /\ Sessions!NoRequest.at = "idle" /\ Sessions!NoRequest.tok = 0
      /\ Sessions!NoRequest.next = 0
  BY DEF Sessions!NoRequest
<1> QED
  BY <1>1, <1>2, <1>3, BecomesEffect

\* A sign-in begins: the request is no refresh.
LEMMA SignInEffect ==
  ASSUME Sessions!SessTypeOK, NEW r \in Request, Sessions!SignIn(r)
  PROVE  /\ req' \in [Request -> Sessions!SessionRequest]
         /\ req'[r].at = "issue" /\ req'[r].tok = 0 /\ req'[r].next = 0
         /\ \A o \in Request \ {r} : req'[o] = req[o]
         /\ UNCHANGED <<clock, banned, sess, tokens, signed, shown, exchanged, revokedFor>>
<1> DEFINE q == [Sessions!NoRequest EXCEPT !.at = "issue"]
<1>1. q \in Sessions!SessionRequest /\ q.at = "issue" /\ q.tok = 0 /\ q.next = 0
  BY DEF Sessions!NoRequest, Sessions!SessionRequest
<1>2. /\ Sessions!Becomes(r, q)
      /\ UNCHANGED <<clock, banned, sess, tokens, signed, shown, exchanged, revokedFor>>
  BY DEF Sessions!SignIn
<1> HIDE DEF q
<1> QED
  BY <1>1, <1>2, BecomesEffect

\* Signing: the request keeps its token and gets the next number.
LEMMA SignEffect ==
  ASSUME Sessions!SessTypeOK, NEW r \in Request, Sessions!Sign(r)
  PROVE  /\ req' \in [Request -> Sessions!SessionRequest]
         /\ req[r].at = "sign" /\ req'[r].at = "rotate" /\ req'[r].next = signed + 1
         /\ req'[r].tok = req[r].tok /\ req'[r].sid = req[r].sid
         /\ req'[r].t = req[r].t /\ req'[r].gen = req[r].gen
         /\ \A o \in Request \ {r} : req'[o] = req[o]
         /\ signed < MaxTokens /\ signed' = signed + 1
         /\ UNCHANGED <<clock, banned, sess, tokens, shown, exchanged, revokedFor>>
<1> DEFINE q == [req[r] EXCEPT !.at = "rotate", !.next = signed + 1, !.iat = clock]
<1>1. q \in Sessions!SessionRequest
  <2>1. req[r] \in Sessions!SessionRequest /\ clock \in Nat /\ signed \in Nat
    BY SessFields
  <2>2. signed + 1 \in Nat
    BY <2>1
  <2> QED
    BY <2>1, <2>2 DEF Sessions!SessionRequest
<1>2. Sessions!Becomes(r, q)
  BY DEF Sessions!Sign
<1>3. /\ q.at = "rotate" /\ q.next = signed + 1 /\ q.tok = req[r].tok
      /\ q.sid = req[r].sid /\ q.t = req[r].t /\ q.gen = req[r].gen
  BY SessFields DEF Sessions!SessionRequest
<1>4. /\ req[r].at = "sign" /\ signed < MaxTokens /\ signed' = signed + 1
      /\ UNCHANGED <<clock, banned, sess, tokens, shown, exchanged, revokedFor>>
  BY DEF Sessions!Sign
<1> HIDE DEF q
<1> QED
  BY <1>1, <1>2, <1>3, <1>4, BecomesEffect

\* The UPDATE replaces the current token of a session that is not revoked.
LEMMA RotateEffect ==
  ASSUME Sessions!SessTypeOK, RequestInv, NEW r \in Request, Sessions!Rotate(r)
  PROVE  LET q == req[r] IN
         /\ req' \in [Request -> Sessions!SessionRequest]
         /\ req'[r].at = "idle" /\ req'[r].tok = 0 /\ req'[r].next = 0
         /\ \A o \in Request \ {r} : req'[o] = req[o]
         /\ q.at = "rotate" /\ q.sid \in Session /\ q.tok # 0 /\ q.next # 0
         /\ sess[q.sid].hash = q.tok /\ sess[q.sid].revoked = 0
         /\ sess' \in [Session -> Sessions!SessionRow]
         /\ sess'[q.sid].hash = q.next /\ sess'[q.sid].gen = q.gen + 1
         /\ sess'[q.sid].legacy \in {sess[q.sid].legacy, q.tok}
         /\ sess'[q.sid].revoked = sess[q.sid].revoked
         /\ sess'[q.sid].live = sess[q.sid].live
         /\ sess'[q.sid].family = sess[q.sid].family
         /\ sess'[q.sid].reuse = sess[q.sid].reuse
         /\ \A o \in Session \ {q.sid} : sess'[o] = sess[o]
         /\ tokens' = tokens \cup
              {Sessions!Refresh(q.next, q.sid, q.gen + 1, q.t + RefreshTtl)}
         /\ exchanged' = [exchanged EXCEPT ![q.tok] = exchanged[q.tok] + 1]
         /\ UNCHANGED <<clock, banned, signed, shown, revokedFor>>
<1> DEFINE q == req[r]
<1> DEFINE legacy == IF \E t \in tokens : t.n = q.tok /\ t.jwt THEN sess[q.sid].legacy
                     ELSE q.tok
<1> DEFINE row == [sess[q.sid] EXCEPT !.hash = q.next, !.gen = q.gen + 1,
                                      !.expires = q.t + RefreshTtl, !.legacy = legacy]
<1>1. q.at = "rotate" /\ Sessions!Rotates(r) /\ Sessions!Ends(r)
  BY DEF Sessions!Rotate
<1>2. q.sid \in Session /\ q.tok # 0 /\ q.next # 0
  BY <1>1 DEF RequestInv, Refreshing
<1>3. sess[q.sid].hash = q.tok /\ sess[q.sid].revoked = 0
  BY <1>1 DEF Sessions!Rotates
<1>4. sess' = [sess EXCEPT ![q.sid] = row]
  BY DEF Sessions!Rotate
<1>5. /\ q.gen + 1 \in Nat /\ q.t + RefreshTtl \in Nat /\ q.next \in Nat
      /\ legacy \in Nat /\ legacy \in {sess[q.sid].legacy, q.tok}
  <2>1. /\ q.gen \in Nat /\ q.t \in Nat /\ q.next \in Nat /\ q.tok \in Nat
        /\ sess[q.sid].legacy \in Nat
    BY <1>2, SessFields
  <2> QED
    BY <2>1, TimesAssumption
<1> HIDE DEF legacy
<1>6. /\ row \in Sessions!SessionRow
      /\ row.hash = q.next /\ row.gen = q.gen + 1 /\ row.legacy = legacy
      /\ row.revoked = sess[q.sid].revoked /\ row.live = sess[q.sid].live
      /\ row.family = sess[q.sid].family /\ row.reuse = sess[q.sid].reuse
  <2>1. sess[q.sid] \in Sessions!SessionRow
    BY <1>2, SessFields
  <2> QED
    BY <1>5, <2>1 DEF Sessions!SessionRow
<1> HIDE DEF row
<1>7. /\ sess' \in [Session -> Sessions!SessionRow] /\ sess'[q.sid] = row
      /\ \A o \in Session \ {q.sid} : sess'[o] = sess[o]
  BY <1>2, <1>4, <1>6 DEF Sessions!SessTypeOK
<1>8. /\ tokens' = tokens \cup {Sessions!Refresh(q.next, q.sid, q.gen + 1, q.t + RefreshTtl)}
      /\ exchanged' = [exchanged EXCEPT ![q.tok] = exchanged[q.tok] + 1]
      /\ UNCHANGED <<clock, banned, signed, shown, revokedFor>>
  BY DEF Sessions!Rotate
<1>9. /\ req' \in [Request -> Sessions!SessionRequest]
      /\ req'[r].at = "idle" /\ req'[r].tok = 0 /\ req'[r].next = 0
      /\ \A o \in Request \ {r} : req'[o] = req[o]
  BY <1>1, EndsEffect
<1> QED
  BY <1>1, <1>2, <1>3, <1>5, <1>6, <1>7, <1>8, <1>9

\* A lost rotation ends the request, or turns it into a revocation if the token
\* was superseded.
LEMMA RotationLostEffect ==
  ASSUME Sessions!SessTypeOK, RequestInv, NEW r \in Request, Sessions!RotationLost(r)
  PROVE  /\ req' \in [Request -> Sessions!SessionRequest]
         /\ \A o \in Request \ {r} : req'[o] = req[o]
         /\ req[r].at = "rotate" /\ req'[r].tok = 0 /\ req'[r].next = 0
         /\ \/ req'[r].at = "idle"
            \/ /\ req'[r].at = "revoke" /\ req'[r].sid = req[r].sid /\ req'[r].t = clock
               /\ \E t \in tokens :
                    t.n = req[r].tok /\ Sessions!Classify(t, req[r].sid) = "reuse"
         /\ UNCHANGED <<clock, banned, sess, tokens, signed, shown, exchanged, revokedFor>>
<1>1. /\ req[r].at = "rotate"
      /\ UNCHANGED <<clock, banned, sess, tokens, signed, shown, exchanged, revokedFor>>
  BY DEF Sessions!RotationLost
<1> DEFINE q == [Sessions!NoRequest EXCEPT !.at = "revoke", !.sid = req[r].sid, !.t = clock]
<1>2. CASE /\ \E t \in tokens : t.n = req[r].tok /\ Sessions!Classify(t, req[r].sid) = "reuse"
           /\ Sessions!Becomes(r, q)
  <2>1. /\ q \in Sessions!SessionRequest /\ q.at = "revoke" /\ q.sid = req[r].sid
        /\ q.t = clock /\ q.tok = 0 /\ q.next = 0
    BY SessFields DEF Sessions!NoRequest, Sessions!SessionRequest
  <2> HIDE DEF q
  <2> QED
    BY <1>1, <1>2, <2>1, BecomesEffect
<1>3. CASE Sessions!Ends(r)
  BY <1>1, <1>3, EndsEffect
<1> QED
  BY <1>2, <1>3 DEF Sessions!RotationLost

\* A logout begins: the request knows its session and the time.
LEMMA LogoutEffect ==
  ASSUME Sessions!SessTypeOK, NEW r \in Request, Sessions!Logout(r)
  PROVE  /\ req' \in [Request -> Sessions!SessionRequest]
         /\ req'[r].at = "logout" /\ req'[r].sid \in Session /\ req'[r].t = clock
         /\ req'[r].tok = 0 /\ req'[r].next = 0
         /\ \A o \in Request \ {r} : req'[o] = req[o]
         /\ UNCHANGED <<clock, banned, sess, tokens, signed, shown, exchanged, revokedFor>>
<1>1. PICK s \in Session :
        Sessions!Becomes(r, [Sessions!NoRequest EXCEPT !.at = "logout", !.sid = s, !.t = clock])
  BY DEF Sessions!Logout, Sessions!Live
<1> DEFINE q == [Sessions!NoRequest EXCEPT !.at = "logout", !.sid = s, !.t = clock]
<1>2. /\ q \in Sessions!SessionRequest /\ q.at = "logout" /\ q.sid = s /\ q.t = clock
      /\ q.tok = 0 /\ q.next = 0
  BY SessFields DEF Sessions!NoRequest, Sessions!SessionRequest
<1>3. UNCHANGED <<clock, banned, sess, tokens, signed, shown, exchanged, revokedFor>>
  BY DEF Sessions!Logout
<1> HIDE DEF q
<1> QED
  BY <1>1, <1>2, <1>3, BecomesEffect DEF q

\* Request r goes on with the session of token t: to rotate it, or to revoke it.
Taken(r, t) ==
  /\ req' \in [Request -> Sessions!SessionRequest]
  /\ \A o \in Request \ {r} : req'[o] = req[o]
  /\ req'[r].sid \in Sessions!SessionFor(t) /\ req'[r].sid \in Session
  /\ req'[r].t = clock /\ req'[r].next = 0
  /\ \/ /\ req'[r].at = "sign" /\ req'[r].tok = t.n
        /\ req'[r].gen = sess[req'[r].sid].gen
        /\ Sessions!Verdict(t, req'[r].sid) = "current"
     \/ /\ req'[r].at = "revoke" /\ req'[r].tok = 0
        /\ Sessions!Verdict(t, req'[r].sid) = "reuse"

\* Presenting a token: it is refused, or its session is to be rotated, or revoked.
LEMMA PresentEffect ==
  ASSUME Sessions!SessTypeOK, NEW r \in Request, NEW t \in tokens, Sessions!Present(r, t)
  PROVE  /\ req[r].at = "idle"
         /\ shown' = [shown EXCEPT ![t.n] = IF shown[t.n] < 2 THEN shown[t.n] + 1 ELSE shown[t.n]]
         /\ UNCHANGED <<clock, banned, sess, tokens, signed, exchanged, revokedFor>>
         /\ UNCHANGED req \/ Taken(r, t)
<1>1. /\ req[r].at = "idle"
      /\ shown' = [shown EXCEPT ![t.n] = IF shown[t.n] < 2 THEN shown[t.n] + 1 ELSE shown[t.n]]
      /\ UNCHANGED <<clock, banned, sess, tokens, signed, exchanged, revokedFor>>
  BY DEF Sessions!Present, Sessions!Idle
<1> DEFINE signs(s) == [Sessions!NoRequest EXCEPT !.at = "sign", !.tok = t.n, !.sid = s,
                                                  !.t = clock, !.gen = sess[s].gen]
           revokes(s) == [Sessions!NoRequest EXCEPT !.at = "revoke", !.sid = s, !.t = clock]
<1>2. \/ UNCHANGED req
      \/ \E s \in Sessions!SessionFor(t) :
           \/ Sessions!Verdict(t, s) = "current" /\ Sessions!Becomes(r, signs(s))
           \/ Sessions!Verdict(t, s) = "reuse" /\ Sessions!Becomes(r, revokes(s))
  BY Zenon DEF Sessions!Present
<1>3. ASSUME NEW s \in Session
      PROVE  /\ signs(s) \in Sessions!SessionRequest /\ signs(s).at = "sign"
             /\ signs(s).tok = t.n /\ signs(s).sid = s /\ signs(s).t = clock
             /\ signs(s).next = 0 /\ signs(s).gen = sess[s].gen
  <2>1. t.n \in Nat /\ clock \in Nat /\ sess[s].gen \in Nat
    BY SessFields
  <2> QED
    BY <2>1 DEF Sessions!NoRequest, Sessions!SessionRequest
<1>4. ASSUME NEW s \in Session
      PROVE  /\ revokes(s) \in Sessions!SessionRequest /\ revokes(s).at = "revoke"
             /\ revokes(s).tok = 0 /\ revokes(s).sid = s /\ revokes(s).t = clock
             /\ revokes(s).next = 0
  <2>1. clock \in Nat
    BY SessFields
  <2> QED
    BY <2>1 DEF Sessions!NoRequest, Sessions!SessionRequest
<1>5. \A s \in Sessions!SessionFor(t) : s \in Session
  BY DEF Sessions!SessionFor, Sessions!Live
<1> HIDE DEF signs, revokes
<1>6. ASSUME NEW s \in Sessions!SessionFor(t), Sessions!Verdict(t, s) = "current",
             Sessions!Becomes(r, signs(s))
      PROVE  Taken(r, t)
  <2>1. /\ req' \in [Request -> Sessions!SessionRequest]
        /\ \A o \in Request \ {r} : req'[o] = req[o]
        /\ req'[r].sid = s /\ s \in Session /\ req'[r].t = clock /\ req'[r].next = 0
        /\ req'[r].at = "sign" /\ req'[r].tok = t.n /\ req'[r].gen = sess[s].gen
    BY <1>3, <1>5, <1>6, BecomesEffect
  <2> QED
    BY <1>6, <2>1, Zenon DEF Taken
<1>7. ASSUME NEW s \in Sessions!SessionFor(t), Sessions!Verdict(t, s) = "reuse",
             Sessions!Becomes(r, revokes(s))
      PROVE  Taken(r, t)
  <2>1. /\ req' \in [Request -> Sessions!SessionRequest]
        /\ \A o \in Request \ {r} : req'[o] = req[o]
        /\ req'[r].sid = s /\ s \in Session /\ req'[r].t = clock /\ req'[r].next = 0
        /\ req'[r].at = "revoke" /\ req'[r].tok = 0
    BY <1>4, <1>5, <1>7, BecomesEffect
  <2> QED
    BY <1>7, <2>1, Zenon DEF Taken
<1>8. UNCHANGED req \/ Taken(r, t)
  BY <1>2, <1>6, <1>7, Zenon
<1> QED
  BY <1>1, <1>8, Zenon

\* Issuing a session: an unused row gets a token with the next number.
LEMMA IssueEffect ==
  ASSUME Sessions!SessTypeOK, NEW r \in Request, NEW s \in Session,
         Sessions!IssueSession(r, s)
  PROVE  /\ req' \in [Request -> Sessions!SessionRequest]
         /\ req'[r].at = "idle" /\ req'[r].tok = 0 /\ req'[r].next = 0
         /\ \A o \in Request \ {r} : req'[o] = req[o]
         /\ signed < MaxTokens /\ signed' = signed + 1
         /\ sess[s] = Sessions!NoSession
         /\ sess' \in [Session -> Sessions!SessionRow]
         /\ sess'[s].hash = signed + 1 /\ sess'[s].gen = 1 /\ sess'[s].legacy = 0
         /\ sess'[s].revoked = 0 /\ sess'[s].family = s /\ sess'[s].reuse = FALSE
         /\ \A o \in Session \ {s} : sess'[o] = sess[o]
         /\ tokens' = tokens \cup {Sessions!Refresh(signed + 1, s, 1, clock + RefreshTtl)}
         /\ UNCHANGED <<clock, banned, shown, exchanged, revokedFor>>
<1> DEFINE row == [Sessions!NoSession EXCEPT !.live = TRUE, !.family = s, !.gen = 1,
                     !.hash = signed + 1, !.expires = clock + RefreshTtl]
<1>1. /\ sess' = [sess EXCEPT ![s] = row] /\ Sessions!Ends(r)
      /\ sess[s] = Sessions!NoSession /\ signed < MaxTokens /\ signed' = signed + 1
      /\ tokens' = tokens \cup {Sessions!Refresh(signed + 1, s, 1, clock + RefreshTtl)}
      /\ UNCHANGED <<clock, banned, shown, exchanged, revokedFor>>
  BY DEF Sessions!IssueSession
<1>2. clock + RefreshTtl \in Nat /\ signed + 1 \in Nat
  <2>1. clock \in Nat /\ signed \in Nat
    BY SessFields
  <2> QED
    BY <2>1, TimesAssumption
<1>3. /\ row \in Sessions!SessionRow /\ row.hash = signed + 1 /\ row.gen = 1
      /\ row.legacy = 0 /\ row.revoked = 0 /\ row.family = s /\ row.reuse = FALSE
  BY <1>2 DEF Sessions!NoSession, Sessions!SessionRow
<1> HIDE DEF row
<1>4. /\ sess' \in [Session -> Sessions!SessionRow] /\ sess'[s] = row
      /\ \A o \in Session \ {s} : sess'[o] = sess[o]
  BY <1>1, <1>3 DEF Sessions!SessTypeOK
<1>5. /\ req' \in [Request -> Sessions!SessionRequest]
      /\ req'[r].at = "idle" /\ req'[r].tok = 0 /\ req'[r].next = 0
      /\ \A o \in Request \ {r} : req'[o] = req[o]
  BY <1>1, EndsEffect
<1> QED
  BY <1>1, <1>3, <1>4, <1>5

\* A revocation: the rows keep their tokens, and every row whose revocation is
\* reported is revoked.
LEMMA RevokeEffect ==
  ASSUME Sessions!SessTypeOK, RequestInv, RevokedInv, NEW r \in Request,
         Sessions!RevokeFamily(r) \/ Sessions!LogoutRevoke(r)
  PROVE  /\ req' \in [Request -> Sessions!SessionRequest]
         /\ req'[r].at = "idle" /\ req'[r].tok = 0 /\ req'[r].next = 0
         /\ \A o \in Request \ {r} : req'[o] = req[o]
         /\ sess' \in [Session -> Sessions!SessionRow]
         /\ \A s \in Session :
              /\ sess'[s].hash = sess[s].hash /\ sess'[s].gen = sess[s].gen
              /\ sess'[s].legacy = sess[s].legacy /\ sess'[s].live = sess[s].live
              /\ sess'[s].family = sess[s].family
              /\ sess[s].revoked # 0 => sess'[s].revoked # 0
              /\ sess'[s].reuse => sess[s].reuse \/ req[r].at = "revoke"
         /\ \A s \in revokedFor' : s \in Session /\ sess'[s].revoked # 0
         /\ UNCHANGED <<clock, banned, tokens, signed, shown, exchanged>>
<1> DEFINE q == req[r]
<1>1. /\ Sessions!Ends(r) /\ q.at \in {"revoke", "logout"}
      /\ UNCHANGED <<clock, banned, tokens, signed, shown, exchanged>>
  BY DEF Sessions!RevokeFamily, Sessions!LogoutRevoke
<1>2. /\ req' \in [Request -> Sessions!SessionRequest]
      /\ req'[r].at = "idle" /\ req'[r].tok = 0 /\ req'[r].next = 0
      /\ \A o \in Request \ {r} : req'[o] = req[o]
  BY <1>1, EndsEffect
<1>3. q.sid \in Session /\ q.t # 0 /\ q.t \in Nat
  BY <1>1, SessFields DEF RequestInv
<1>4. CASE UNCHANGED <<sess, revokedFor>>
  BY <1>1, <1>2, <1>4 DEF Sessions!SessTypeOK, RevokedInv
<1>5. ASSUME NEW b \in BOOLEAN, b => q.at = "revoke", sess[q.sid].live,
             Sessions!Revoke(Sessions!Revokes(q.sid), q.t, b),
             revokedFor' = revokedFor \cup
               {o \in Sessions!Live : Sessions!Family(o) = Sessions!Family(q.sid)}
      PROVE  /\ sess' \in [Session -> Sessions!SessionRow]
             /\ \A s \in Session :
                  /\ sess'[s].hash = sess[s].hash /\ sess'[s].gen = sess[s].gen
                  /\ sess'[s].legacy = sess[s].legacy /\ sess'[s].live = sess[s].live
                  /\ sess'[s].family = sess[s].family
                  /\ sess[s].revoked # 0 => sess'[s].revoked # 0
                  /\ sess'[s].reuse => sess[s].reuse \/ q.at = "revoke"
             /\ \A s \in revokedFor' : s \in Session /\ sess'[s].revoked # 0
  <2> DEFINE row(s) == [sess[s] EXCEPT !.revoked = q.t, !.accessRevoked = q.t,
                                       !.reuse = sess[s].reuse \/ b]
  <2>1. ASSUME NEW s \in Session
        PROVE  /\ row(s) \in Sessions!SessionRow
               /\ row(s).hash = sess[s].hash /\ row(s).gen = sess[s].gen
               /\ row(s).legacy = sess[s].legacy /\ row(s).live = sess[s].live
               /\ row(s).family = sess[s].family /\ row(s).revoked = q.t
               /\ row(s).reuse = (sess[s].reuse \/ b)
    <3>1. sess[s] \in Sessions!SessionRow /\ sess[s].reuse \in BOOLEAN
      BY SessFields
    <3>2. (sess[s].reuse \/ b) \in BOOLEAN
      OBVIOUS
    <3> QED
      BY <1>3, <3>1, <3>2 DEF Sessions!SessionRow
  <2>2. sess' = [s \in Session |-> IF s \in Sessions!Revokes(q.sid) THEN row(s) ELSE sess[s]]
    BY <1>5 DEF Sessions!Revoke
  <2> HIDE DEF row
  <2>3. \A s \in Session : sess[s] \in Sessions!SessionRow
    BY SessFields
  <2>4. sess' \in [Session -> Sessions!SessionRow]
    BY <2>1, <2>2, <2>3
  <2>5. ASSUME NEW s \in Session
        PROVE  /\ sess'[s].hash = sess[s].hash /\ sess'[s].gen = sess[s].gen
               /\ sess'[s].legacy = sess[s].legacy /\ sess'[s].live = sess[s].live
               /\ sess'[s].family = sess[s].family
               /\ sess[s].revoked # 0 => sess'[s].revoked # 0
               /\ sess'[s].reuse => sess[s].reuse \/ q.at = "revoke"
    BY <1>3, <1>5, <2>1, <2>2
  <2>6. ASSUME NEW s \in Sessions!Live, Sessions!Family(s) = Sessions!Family(q.sid)
        PROVE  s \in Session /\ sess'[s].revoked # 0
    <3>1. s \in Session /\ sess[s].live
      BY DEF Sessions!Live
    <3>2. sess[s].family = sess[q.sid].family
      BY <1>3, <1>5, <2>6, <3>1 DEF Sessions!Family, RevokedInv
    <3>3. s \in Sessions!Revokes(q.sid)
      BY <3>2 DEF Sessions!Revokes
    <3> QED
      BY <1>3, <2>1, <2>2, <3>1, <3>3
  <2>7. \A s \in revokedFor : s \in Session /\ sess'[s].revoked # 0
    BY <2>5 DEF RevokedInv, Sessions!SessTypeOK
  <2> QED
    BY <1>5, <2>4, <2>5, <2>6, <2>7
<1> QED
  BY <1>1, <1>2, <1>4, <1>5 DEF Sessions!RevokeFamily, Sessions!LogoutRevoke

\* Deleting the user's sessions keeps everything but their life.
LEMMA DeleteEffect ==
  ASSUME Sessions!SessTypeOK, Sessions!DeleteSessions
  PROVE  /\ sess' \in [Session -> Sessions!SessionRow]
         /\ \A s \in Session :
              /\ sess'[s].hash = sess[s].hash /\ sess'[s].gen = sess[s].gen
              /\ sess'[s].legacy = sess[s].legacy /\ ~sess'[s].live
              /\ sess'[s].revoked = sess[s].revoked /\ sess'[s].reuse = sess[s].reuse
         /\ UNCHANGED <<clock, banned, tokens, req, signed, shown, exchanged, revokedFor>>
<1> DEFINE row(s) == [sess[s] EXCEPT !.live = FALSE]
<1>1. ASSUME NEW s \in Session
      PROVE  /\ row(s) \in Sessions!SessionRow
             /\ row(s).hash = sess[s].hash /\ row(s).gen = sess[s].gen
             /\ row(s).legacy = sess[s].legacy /\ ~row(s).live
             /\ row(s).revoked = sess[s].revoked /\ row(s).reuse = sess[s].reuse
  <2>1. sess[s] \in Sessions!SessionRow
    BY SessFields
  <2> QED
    BY <2>1 DEF Sessions!SessionRow
<1>2. /\ sess' = [s \in Session |-> row(s)]
      /\ UNCHANGED <<clock, banned, tokens, req, signed, shown, exchanged, revokedFor>>
  BY DEF Sessions!DeleteSessions
<1> HIDE DEF row
<1> QED
  BY <1>1, <1>2

-----------------------------------------------------------------------------
(* The steps that touch no token                                           *)

\* Rows keep their tokens, nothing is signed or shown, and whatever request changes
\* is no refresh afterwards.
Calm ==
  /\ sess' \in [Session -> Sessions!SessionRow]
  /\ req' \in [Request -> Sessions!SessionRequest]
  /\ clock' \in 1..MaxTime /\ banned' \in 0..(MaxTime + 1) /\ revokedFor' \subseteq Session
  /\ \A s \in Session : /\ sess'[s].hash = sess[s].hash /\ sess'[s].gen = sess[s].gen
                        /\ sess'[s].legacy = sess[s].legacy
  /\ UNCHANGED <<tokens, signed, shown, exchanged>>
  /\ \A r \in Request :
       \/ req'[r] = req[r]
       \/ req'[r].at \notin {"sign", "rotate"} /\ req'[r].tok = 0 /\ req'[r].next = 0

\* A step is calm, or signs, rotates, presents or issues a token.
LEMMA StepKinds ==
  ASSUME Sessions!SessTypeOK, RequestInv, RevokedInv, [Sessions!SessNext]_(Sessions!sessVars)
  PROVE  \/ Calm
         \/ \E r \in Request : Sessions!Sign(r) \/ Sessions!Rotate(r)
         \/ \E r \in Request, t \in tokens : Sessions!Present(r, t)
         \/ \E r \in Request, s \in Session : Sessions!IssueSession(r, s)
<1>0. /\ clock \in 1..MaxTime /\ banned \in 0..(MaxTime + 1) /\ revokedFor \subseteq Session
      /\ sess \in [Session -> Sessions!SessionRow]
      /\ req \in [Request -> Sessions!SessionRequest]
  BY DEF Sessions!SessTypeOK
<1>1. ASSUME NEW r \in Request, Sessions!SignIn(r) PROVE Calm
  BY <1>0, <1>1, SignInEffect DEF Calm
<1>2. ASSUME NEW r \in Request, Sessions!RotationLost(r) PROVE Calm
  BY <1>0, <1>2, RotationLostEffect DEF Calm
<1>3. ASSUME NEW r \in Request, Sessions!Logout(r) PROVE Calm
  BY <1>0, <1>3, LogoutEffect DEF Calm
<1>4. ASSUME NEW r \in Request, Sessions!RevokeFamily(r) \/ Sessions!LogoutRevoke(r)
      PROVE  Calm
  BY <1>0, <1>4, RevokeEffect DEF Calm
<1>5. ASSUME Sessions!Ban PROVE Calm
  <2>1. UNCHANGED <<clock, sess, tokens, req, signed, shown, exchanged, revokedFor>>
    BY <1>5 DEF Sessions!Ban
  <2>2. banned' \in 0..(MaxTime + 1)
    BY <1>0, <1>5, TimesAssumption DEF Sessions!Ban
  <2> QED
    BY <1>0, <2>1, <2>2 DEF Calm
<1>6. ASSUME Sessions!DeleteSessions PROVE Calm
  BY <1>0, <1>6, DeleteEffect DEF Calm
<1>7. ASSUME Sessions!Tick PROVE Calm
  <2>1. UNCHANGED <<banned, sess, tokens, req, signed, shown, exchanged, revokedFor>>
    BY <1>7 DEF Sessions!Tick
  <2>2. clock' \in 1..MaxTime
    BY <1>0, <1>7, TimesAssumption DEF Sessions!Tick
  <2> QED
    BY <1>0, <2>1, <2>2 DEF Calm
<1>8. CASE UNCHANGED Sessions!sessVars
  BY <1>0, <1>8 DEF Sessions!sessVars, Calm
<1> QED
  BY <1>1, <1>2, <1>3, <1>4, <1>5, <1>6, <1>7, <1>8 DEF Sessions!SessNext

-----------------------------------------------------------------------------
(* Every step keeps the types                                              *)

\* Rows, requests and tokens keep their types, and mention signed tokens only.
LEMMA NextSessTyped ==
  ASSUME Sessions!SessTypeOK, RequestInv, RevokedInv, [Sessions!SessNext]_(Sessions!sessVars)
  PROVE  Sessions!SessTypeOK'
<1>0. /\ clock \in 1..MaxTime /\ banned \in 0..(MaxTime + 1) /\ revokedFor \subseteq Session
      /\ sess \in [Session -> Sessions!SessionRow]
      /\ req \in [Request -> Sessions!SessionRequest]
      /\ signed \in 0..MaxTokens /\ tokens \subseteq Sessions!RefreshToken
      /\ shown \in [Sessions!Token -> 0..2] /\ exchanged \in [Sessions!Token -> Nat]
      /\ \A s \in Session : sess[s].hash <= signed /\ sess[s].legacy <= signed
      /\ \A t \in tokens : t.n \in 1..signed
      /\ \A r \in Request : req[r].tok <= signed /\ req[r].next <= signed
  BY DEF Sessions!SessTypeOK
<1>1. CASE Calm
  <2>1. \A s \in Session : sess'[s].hash <= signed' /\ sess'[s].legacy <= signed'
    BY <1>0, <1>1 DEF Calm
  <2>2. \A r \in Request : req'[r].tok <= signed' /\ req'[r].next <= signed'
    BY <1>0, <1>1 DEF Calm
  <2> QED
    BY <1>0, <1>1, <2>1, <2>2 DEF Calm, Sessions!SessTypeOK
<1>2. ASSUME NEW r \in Request, Sessions!Sign(r) PROVE Sessions!SessTypeOK'
  <2>1. signed' \in 0..MaxTokens /\ signed' = signed + 1
    BY <1>0, <1>2, SignEffect, TimesAssumption
  <2>2. \A s \in Session : sess[s].hash <= signed' /\ sess[s].legacy <= signed'
    <3>1. \A s \in Session : sess[s].hash \in Nat /\ sess[s].legacy \in Nat
      BY SessFields
    <3> QED
      BY <1>0, <2>1, <3>1
  <2>3. \A t \in tokens : t.n \in 1..signed'
    BY <1>0, <2>1
  <2>4. \A o \in Request : req'[o].tok <= signed' /\ req'[o].next <= signed'
    <3>1. req'[r].tok = req[r].tok /\ req'[r].next = signed'
      BY <1>2, <2>1, SignEffect
    <3>2. \A o \in Request \ {r} : req'[o] = req[o]
      BY <1>2, SignEffect
    <3>3. \A o \in Request : req[o].tok \in Nat /\ req[o].next \in Nat
      BY SessFields
    <3> QED
      BY <1>0, <2>1, <3>1, <3>2, <3>3
  <2>5. /\ UNCHANGED <<clock, banned, sess, tokens, shown, exchanged, revokedFor>>
        /\ req' \in [Request -> Sessions!SessionRequest]
    BY <1>2, SignEffect
  <2> QED
    BY <1>0, <2>1, <2>2, <2>3, <2>4, <2>5 DEF Sessions!SessTypeOK
<1>3. ASSUME NEW r \in Request, Sessions!Rotate(r) PROVE Sessions!SessTypeOK'
  <2> DEFINE q == req[r]
  <2> DEFINE new == Sessions!Refresh(q.next, q.sid, q.gen + 1, q.t + RefreshTtl)
  <2>1. /\ q.sid \in Session /\ q.next \in Nat \ {0} /\ q.gen \in Nat /\ q.t \in Nat
        /\ q.tok \in Nat \ {0} /\ q.next <= signed /\ q.tok <= signed
    BY <1>0, <1>3, RotateEffect, SessFields
  <2>2. q.next \in 1..signed /\ q.tok \in Sessions!Token
    BY <1>0, <2>1, TimesAssumption DEF Sessions!Token
  <2>3. new \in Sessions!RefreshToken /\ new.n = q.next
    <3>1. q.gen + 1 \in Nat /\ q.t + RefreshTtl \in Nat
      BY <2>1, TimesAssumption
    <3> QED
      BY <2>1, <3>1 DEF Sessions!Refresh, Sessions!RefreshToken
  <2>4. tokens' = tokens \cup {new} /\ UNCHANGED <<clock, banned, signed, shown, revokedFor>>
    BY <1>3, RotateEffect
  <2> HIDE DEF new
  <2>5. /\ tokens' \subseteq Sessions!RefreshToken
        /\ \A t \in tokens' : t.n \in 1..signed'
    BY <1>0, <2>2, <2>3, <2>4
  <2>6. exchanged' \in [Sessions!Token -> Nat]
    <3>1. exchanged' = [exchanged EXCEPT ![q.tok] = exchanged[q.tok] + 1]
      BY <1>3, RotateEffect
    <3>2. exchanged[q.tok] + 1 \in Nat
      BY <1>0, <2>2
    <3> QED
      BY <1>0, <3>1, <3>2
  <2>7. \A s \in Session : sess'[s].hash <= signed' /\ sess'[s].legacy <= signed'
    <3>1. /\ sess'[q.sid].hash = q.next /\ sess'[q.sid].legacy \in {sess[q.sid].legacy, q.tok}
          /\ \A o \in Session \ {q.sid} : sess'[o] = sess[o]
      BY <1>3, RotateEffect
    <3> QED
      BY <1>0, <2>1, <2>4, <3>1
  <2>8. \A o \in Request : req'[o].tok <= signed' /\ req'[o].next <= signed'
    <3>1. /\ req'[r].tok = 0 /\ req'[r].next = 0
          /\ \A o \in Request \ {r} : req'[o] = req[o]
      BY <1>3, RotateEffect
    <3> QED
      BY <1>0, <2>4, <3>1
  <2>9. /\ req' \in [Request -> Sessions!SessionRequest]
        /\ sess' \in [Session -> Sessions!SessionRow]
    BY <1>3, RotateEffect
  <2> QED
    BY <1>0, <2>4, <2>5, <2>6, <2>7, <2>8, <2>9 DEF Sessions!SessTypeOK
<1>4. ASSUME NEW r \in Request, NEW t \in tokens, Sessions!Present(r, t)
      PROVE  Sessions!SessTypeOK'
  <2>1. UNCHANGED <<clock, banned, sess, tokens, signed, exchanged, revokedFor>>
    BY <1>4, PresentEffect DEF Taken
  <2>2. t.n \in Sessions!Token
    BY <1>0, TimesAssumption DEF Sessions!Token
  <2>3. shown' \in [Sessions!Token -> 0..2]
    <3>1. shown' = [shown EXCEPT ![t.n] = IF shown[t.n] < 2 THEN shown[t.n] + 1 ELSE shown[t.n]]
      BY <1>4, PresentEffect DEF Taken
    <3>2. (IF shown[t.n] < 2 THEN shown[t.n] + 1 ELSE shown[t.n]) \in 0..2
      BY <1>0, <2>2
    <3> QED
      BY <1>0, <3>1, <3>2
  <2>4. req' \in [Request -> Sessions!SessionRequest]
    BY <1>0, <1>4, PresentEffect DEF Taken
  <2>5. \A o \in Request : req'[o].tok <= signed /\ req'[o].next <= signed
    <3>1. CASE UNCHANGED req
      BY <1>0, <3>1
    <3>2. CASE ~UNCHANGED req
      <4>1. /\ req'[r].next = 0 /\ req'[r].tok \in {0, t.n}
            /\ \A o \in Request \ {r} : req'[o] = req[o]
        BY <1>4, <3>2, PresentEffect DEF Taken
      <4> QED
        BY <1>0, <4>1
    <3> QED
      BY <3>1, <3>2
  <2> QED
    BY <1>0, <2>1, <2>3, <2>4, <2>5 DEF Sessions!SessTypeOK
<1>5. ASSUME NEW r \in Request, NEW s \in Session, Sessions!IssueSession(r, s)
      PROVE  Sessions!SessTypeOK'
  <2> DEFINE new == Sessions!Refresh(signed + 1, s, 1, clock + RefreshTtl)
  <2>1. signed' \in 0..MaxTokens /\ signed' = signed + 1
    <3>1. signed < MaxTokens /\ signed' = signed + 1
      BY <1>5, IssueEffect
    <3> QED
      BY <1>0, <3>1, TimesAssumption
  <2>2. new \in Sessions!RefreshToken /\ new.n = signed + 1
    <3>1. signed + 1 \in Nat /\ clock + RefreshTtl \in Nat
      BY <1>0, TimesAssumption
    <3> QED
      BY <3>1 DEF Sessions!Refresh, Sessions!RefreshToken
  <2>3. tokens' = tokens \cup {new} /\ UNCHANGED <<clock, banned, shown, exchanged, revokedFor>>
    BY <1>5, IssueEffect
  <2> HIDE DEF new
  <2>4. /\ tokens' \subseteq Sessions!RefreshToken
        /\ \A t \in tokens' : t.n \in 1..signed'
    BY <1>0, <2>1, <2>2, <2>3
  <2>5. \A o \in Session : sess'[o].hash <= signed' /\ sess'[o].legacy <= signed'
    <3>1. /\ sess'[s].hash = signed + 1 /\ sess'[s].legacy = 0
          /\ \A o \in Session \ {s} : sess'[o] = sess[o]
      BY <1>5, IssueEffect
    <3>2. \A o \in Session : sess[o].hash \in Nat /\ sess[o].legacy \in Nat
      BY SessFields
    <3> QED
      BY <1>0, <2>1, <3>1, <3>2
  <2>6. \A o \in Request : req'[o].tok <= signed' /\ req'[o].next <= signed'
    <3>1. /\ req'[r].tok = 0 /\ req'[r].next = 0
          /\ \A o \in Request \ {r} : req'[o] = req[o]
      BY <1>5, IssueEffect
    <3>2. \A o \in Request : req[o].tok \in Nat /\ req[o].next \in Nat
      BY SessFields
    <3> QED
      BY <1>0, <2>1, <3>1, <3>2
  <2>7. /\ req' \in [Request -> Sessions!SessionRequest]
        /\ sess' \in [Session -> Sessions!SessionRow]
    BY <1>5, IssueEffect
  <2> QED
    BY <1>0, <2>1, <2>3, <2>4, <2>5, <2>6, <2>7 DEF Sessions!SessTypeOK
<1> QED
  BY <1>1, <1>2, <1>3, <1>4, <1>5, StepKinds

-----------------------------------------------------------------------------
(* Every step keeps the invariant about tokens                             *)

\* The numbers of tokens lie between zero and the last one signed.
LEMMA TokenNumbers ==
  ASSUME Sessions!SessTypeOK
  PROVE  /\ signed \in Nat /\ MaxTokens \in Nat /\ signed <= MaxTokens
         /\ \A s \in Session : /\ sess[s].hash \in Nat /\ sess[s].hash <= signed
                               /\ sess[s].gen \in Nat
         /\ \A t \in tokens : t.n \in Nat /\ t.n # 0 /\ t.n <= signed /\ t.gen \in Nat
         /\ \A r \in Request : /\ req[r].tok \in Nat /\ req[r].tok <= signed
                               /\ req[r].next \in Nat /\ req[r].next <= signed
                               /\ req[r].gen \in Nat
<1>1. signed \in Nat /\ MaxTokens \in Nat /\ signed <= MaxTokens
  BY TimesAssumption DEF Sessions!SessTypeOK
<1>2. \A s \in Session : sess[s].hash \in Nat /\ sess[s].gen \in Nat
  BY SessFields
<1>3. \A t \in tokens : t.n \in Nat /\ t.gen \in Nat
  BY SessFields
<1>4. \A r \in Request : req[r].tok \in Nat /\ req[r].next \in Nat /\ req[r].gen \in Nat
  BY SessFields
<1>5. /\ \A s \in Session : sess[s].hash <= signed
      /\ \A t \in tokens : t.n \in 1..signed
      /\ \A r \in Request : req[r].tok <= signed /\ req[r].next <= signed
  BY DEF Sessions!SessTypeOK
<1> QED
  BY <1>1, <1>2, <1>3, <1>4, <1>5

\* A step that touches no token keeps what is known about tokens.
LEMMA CalmKeeps ==
  ASSUME Sessions!SessTypeOK, RequestInv, TokenInv, Calm
  PROVE  TokenInv'
<1>1. /\ \A s \in Session : sess'[s].hash = sess[s].hash /\ sess'[s].gen = sess[s].gen
      /\ UNCHANGED <<tokens, signed, shown, exchanged>>
      /\ \A r \in Request : Refreshing(r)' => req'[r] = req[r] /\ Refreshing(r)
      /\ \A r \in Request : req'[r].at = "rotate" => req'[r] = req[r] /\ req[r].at = "rotate"
  BY DEF Calm, Refreshing
<1>2. NumberInv'
  BY <1>1 DEF TokenInv, NumberInv
<1>3. CurrentInv'
  <2>1. /\ \A s, o \in Session : sess'[s].hash = sess'[o].hash /\ sess'[s].hash # 0 => s = o
        /\ \A n \in Sessions!Token : exchanged'[n] # 0 =>
             exchanged'[n] = 1 /\ n <= signed' /\ \A s \in Session : sess'[s].hash # n
    BY <1>1 DEF TokenInv, CurrentInv
  <2>2. \A r \in Request : Refreshing(r)' =>
          /\ \A t \in tokens' : t.n = req'[r].tok /\ t.jwt => t.sid = req'[r].sid
          /\ sess'[req'[r].sid].hash = req'[r].tok => sess'[req'[r].sid].gen = req'[r].gen
    BY <1>1 DEF TokenInv, CurrentInv, RequestInv, Refreshing
  <2>3. \A t \in tokens' : t.jwt =>
          /\ t.sid \in Session
          /\ \/ sess'[t.sid].hash = t.n /\ sess'[t.sid].gen = t.gen
             \/ t.gen < sess'[t.sid].gen /\ exchanged'[t.n] = 1
    BY <1>1 DEF TokenInv, CurrentInv
  <2> QED
    BY <1>1, <2>1, <2>2, <2>3 DEF TokenInv, CurrentInv, Sessions!Token
<1>4. UniqueInv'
  BY <1>1 DEF TokenInv, UniqueInv
<1>5. ShownInv'
  BY <1>1 DEF TokenInv, ShownInv
<1> QED
  BY <1>2, <1>3, <1>4, <1>5 DEF TokenInv

\* Signing: the new number is above every number in use.
LEMMA SignKeeps ==
  ASSUME Sessions!SessTypeOK, RequestInv, TokenInv, NEW r \in Request, Sessions!Sign(r)
  PROVE  TokenInv'
<1>1. /\ req[r].at = "sign" /\ req'[r].at = "rotate" /\ req'[r].next = signed + 1
      /\ req'[r].tok = req[r].tok /\ req'[r].sid = req[r].sid /\ req'[r].gen = req[r].gen
      /\ \A o \in Request \ {r} : req'[o] = req[o]
      /\ signed < MaxTokens /\ signed' = signed + 1
      /\ UNCHANGED <<sess, tokens, shown, exchanged>>
  BY SignEffect
<1>2. \A o \in Request : /\ Refreshing(o)' <=> Refreshing(o)
                         /\ req'[o].tok = req[o].tok /\ req'[o].sid = req[o].sid
                         /\ req'[o].gen = req[o].gen
  BY <1>1 DEF Refreshing
<1>3. signed \in Nat /\ signed + 1 \in Sessions!Token
  BY <1>1, TokenNumbers DEF Sessions!Token
<1>4. exchanged[signed + 1] = 0
  BY <1>3 DEF TokenInv, CurrentInv
<1>5. NumberInv'
  <2>1. SUFFICES ASSUME NEW p \in Request, req'[p].at = "rotate"
        PROVE  /\ exchanged[req'[p].next] = 0
               /\ \A s \in Session : sess[s].hash # req'[p].next
               /\ \A t \in tokens : t.n # req'[p].next
               /\ \A q \in Request : Refreshing(q) => req[q].tok # req'[p].next
               /\ \A q \in Request \ {p} : req'[q].at = "rotate" => req'[q].next # req'[p].next
    BY <1>1, <1>2 DEF NumberInv
  <2>2. CASE p = r
    <3>1. /\ \A s \in Session : sess[s].hash # signed + 1
          /\ \A t \in tokens : t.n # signed + 1
          /\ \A q \in Request : req[q].tok # signed + 1 /\ req[q].next # signed + 1
      BY <1>3, TokenNumbers
    <3> QED
      BY <1>1, <1>4, <2>2, <3>1
  <2>3. CASE p # r
    <3>1. req'[p] = req[p] /\ req[p].next # signed + 1
      BY <1>1, <1>3, <2>3, TokenNumbers
    <3> QED
      BY <1>1, <2>1, <2>3, <3>1 DEF TokenInv, NumberInv
  <2> QED
    BY <2>2, <2>3
<1>6. CurrentInv'
  <2>1. \A n \in Sessions!Token : n <= signed => n <= signed'
    BY <1>1, <1>3 DEF Sessions!Token
  <2> QED
    BY <1>1, <1>2, <2>1 DEF TokenInv, CurrentInv
<1>7. UniqueInv'
  BY <1>1 DEF TokenInv, UniqueInv
<1>8. ShownInv'
  BY <1>1, <1>2 DEF TokenInv, ShownInv
<1> QED
  BY <1>5, <1>6, <1>7, <1>8 DEF TokenInv

\* Issuing a session: its first token has a new number, its row was never used.
LEMMA IssueKeeps ==
  ASSUME Sessions!SessTypeOK, RequestInv, TokenInv, NEW r \in Request, NEW s \in Session,
         Sessions!IssueSession(r, s)
  PROVE  TokenInv'
<1> DEFINE new == Sessions!Refresh(signed + 1, s, 1, clock + RefreshTtl)
<1>1. /\ req'[r].at = "idle" /\ \A o \in Request \ {r} : req'[o] = req[o]
      /\ signed < MaxTokens /\ signed' = signed + 1 /\ sess[s] = Sessions!NoSession
      /\ sess'[s].hash = signed + 1 /\ sess'[s].gen = 1
      /\ \A o \in Session \ {s} : sess'[o] = sess[o]
      /\ tokens' = tokens \cup {new} /\ UNCHANGED <<shown, exchanged>>
  BY IssueEffect
<1>2. new.n = signed + 1 /\ new.jwt = TRUE /\ new.sid = s /\ new.gen = 1
  BY DEF Sessions!Refresh
<1> HIDE DEF new
<1>3. sess[s].hash = 0 /\ sess[s].gen = 0
  <2>1. Sessions!NoSession.hash = 0 /\ Sessions!NoSession.gen = 0
    BY DEF Sessions!NoSession
  <2> QED
    BY <1>1, <2>1
<1>4. \A o \in Request : Refreshing(o)' => o # r /\ req'[o] = req[o] /\ Refreshing(o)
  BY <1>1 DEF Refreshing
<1>5. \A o \in Request : req'[o].at = "rotate" => o # r /\ req'[o] = req[o]
  BY <1>1
<1>6. /\ signed \in Nat /\ \A o \in Session : sess[o].hash # signed + 1
      /\ \A t \in tokens : t.n # signed + 1 /\ t.n # 0 /\ t.gen \in Nat
      /\ \A q \in Request : req[q].tok # signed + 1 /\ req[q].next # signed + 1
  BY TokenNumbers
<1>7. NumberInv'
  BY <1>1, <1>2, <1>4, <1>5, <1>6 DEF TokenInv, NumberInv
<1>8. CurrentInv'
  <2>1. \A o, p \in Session : sess'[o].hash = sess'[p].hash /\ sess'[o].hash # 0 => o = p
    BY <1>1, <1>6 DEF TokenInv, CurrentInv
  <2>2. ASSUME NEW n \in Sessions!Token, exchanged'[n] # 0
        PROVE  exchanged'[n] = 1 /\ n <= signed' /\ \A o \in Session : sess'[o].hash # n
    <3>1. exchanged'[n] = 1 /\ n <= signed /\ \A o \in Session : sess[o].hash # n
      BY <1>1, <2>2 DEF TokenInv, CurrentInv
    <3>2. n <= signed' /\ n # signed + 1
      BY <1>1, <1>6, <3>1 DEF Sessions!Token
    <3> QED
      BY <1>1, <3>1, <3>2
  <2>3. ASSUME NEW p \in Request, Refreshing(p)'
        PROVE  /\ \A t \in tokens' : t.n = req'[p].tok /\ t.jwt => t.sid = req'[p].sid
               /\ sess'[req'[p].sid].hash = req'[p].tok => sess'[req'[p].sid].gen = req'[p].gen
    <3>1. req'[p] = req[p] /\ Refreshing(p) /\ req[p].tok # signed + 1
      BY <1>4, <1>6, <2>3
    <3>2. req[p].sid \in Session
      BY <3>1 DEF RequestInv, Refreshing
    <3> QED
      BY <1>1, <1>2, <3>1, <3>2 DEF TokenInv, CurrentInv
  <2>4. ASSUME NEW t \in tokens', t.jwt
        PROVE  /\ t.sid \in Session
               /\ \/ sess'[t.sid].hash = t.n /\ sess'[t.sid].gen = t.gen
                  \/ t.gen < sess'[t.sid].gen /\ exchanged'[t.n] = 1
    <3>1. CASE t = new
      BY <1>1, <1>2, <3>1
    <3>2. CASE t \in tokens
      <4>1. /\ t.sid \in Session
            /\ \/ sess[t.sid].hash = t.n /\ sess[t.sid].gen = t.gen
               \/ t.gen < sess[t.sid].gen /\ exchanged[t.n] = 1
        BY <2>4, <3>2 DEF TokenInv, CurrentInv
      <4>2. t.sid # s
        BY <1>3, <1>6, <3>2, <4>1
      <4> QED
        BY <1>1, <4>1, <4>2
    <3> QED
      BY <1>1, <3>1, <3>2
  <2> QED
    BY <2>1, <2>2, <2>3, <2>4 DEF CurrentInv, Sessions!Token
<1>9. UniqueInv'
  BY <1>1, <1>2, <1>6 DEF TokenInv, UniqueInv
<1>10. ShownInv'
  BY <1>1, <1>4 DEF TokenInv, ShownInv
<1> QED
  BY <1>7, <1>8, <1>9, <1>10 DEF TokenInv

\* Rotating: the token that is current becomes the exchanged one, its successor,
\* whose number nobody knew, the current one.
LEMMA RotateKeeps ==
  ASSUME Sessions!SessTypeOK, RequestInv, TokenInv, NEW r \in Request, Sessions!Rotate(r)
  PROVE  TokenInv'
<1> DEFINE q == req[r]
<1> DEFINE new == Sessions!Refresh(q.next, q.sid, q.gen + 1, q.t + RefreshTtl)
<1>1. /\ req'[r].at = "idle" /\ \A o \in Request \ {r} : req'[o] = req[o]
      /\ q.at = "rotate" /\ q.sid \in Session /\ q.tok # 0 /\ q.next # 0
      /\ sess[q.sid].hash = q.tok
      /\ sess'[q.sid].hash = q.next /\ sess'[q.sid].gen = q.gen + 1
      /\ \A o \in Session \ {q.sid} : sess'[o] = sess[o]
      /\ tokens' = tokens \cup {new}
      /\ exchanged' = [exchanged EXCEPT ![q.tok] = exchanged[q.tok] + 1]
      /\ UNCHANGED <<signed, shown>>
  BY RotateEffect
<1>2. new.n = q.next /\ new.jwt = TRUE /\ new.sid = q.sid /\ new.gen = q.gen + 1
  BY DEF Sessions!Refresh
<1> HIDE DEF new
<1>3. Refreshing(r)
  BY <1>1 DEF Refreshing
<1>4. /\ exchanged[q.next] = 0 /\ \A s \in Session : sess[s].hash # q.next
      /\ \A t \in tokens : t.n # q.next
      /\ \A p \in Request : Refreshing(p) => req[p].tok # q.next
      /\ \A p \in Request \ {r} : req[p].at = "rotate" => req[p].next # q.next
  BY <1>1 DEF TokenInv, NumberInv
<1>5. sess[q.sid].gen = q.gen
  BY <1>1, <1>3 DEF TokenInv, CurrentInv
<1>6. /\ q.tok \in Sessions!Token /\ q.tok <= signed /\ q.gen \in Nat
      /\ q.next \in Sessions!Token
  BY <1>1, TokenNumbers DEF Sessions!Token
<1>7. exchanged[q.tok] = 0
  BY <1>1, <1>6 DEF TokenInv, CurrentInv
<1>8. /\ exchanged'[q.tok] = 1
      /\ \A n \in Sessions!Token \ {q.tok} : exchanged'[n] = exchanged[n]
  BY <1>1, <1>6, <1>7 DEF Sessions!SessTypeOK
<1>9. \A o \in Request : Refreshing(o)' => o # r /\ req'[o] = req[o] /\ Refreshing(o)
  BY <1>1 DEF Refreshing
<1>10. NumberInv'
  <2>1. SUFFICES ASSUME NEW p \in Request, req'[p].at = "rotate"
        PROVE  /\ exchanged'[req'[p].next] = 0
               /\ \A s \in Session : sess'[s].hash # req'[p].next
               /\ \A t \in tokens' : t.n # req'[p].next
               /\ \A o \in Request : Refreshing(o)' => req'[o].tok # req'[p].next
               /\ \A o \in Request \ {p} : req'[o].at = "rotate" => req'[o].next # req'[p].next
    BY DEF NumberInv
  <2>2. p # r /\ req'[p] = req[p] /\ req[p].at = "rotate"
    BY <1>1, <2>1
  <2>3. /\ exchanged[req[p].next] = 0 /\ \A s \in Session : sess[s].hash # req[p].next
        /\ \A t \in tokens : t.n # req[p].next
        /\ \A o \in Request : Refreshing(o) => req[o].tok # req[p].next
        /\ \A o \in Request \ {p} : req[o].at = "rotate" => req[o].next # req[p].next
    BY <2>2 DEF TokenInv, NumberInv
  <2>4. req[p].next # q.tok /\ req[p].next # q.next
    BY <1>3, <1>4, <2>2, <2>3
  <2>5. req[p].next \in Sessions!Token
    BY <2>2, TokenNumbers DEF RequestInv, Sessions!Token
  <2>6. exchanged'[req[p].next] = 0
    BY <1>8, <2>3, <2>4, <2>5
  <2>7. \A s \in Session : sess'[s].hash # req[p].next
    BY <1>1, <2>3, <2>4
  <2>8. \A t \in tokens' : t.n # req[p].next
    BY <1>1, <1>2, <2>3, <2>4
  <2>9. \A o \in Request : Refreshing(o)' => req'[o].tok # req[p].next
    BY <1>9, <2>3
  <2>10. \A o \in Request \ {p} : req'[o].at = "rotate" => req'[o].next # req[p].next
    BY <1>1, <2>3
  <2> QED
    BY <2>2, <2>6, <2>7, <2>8, <2>9, <2>10
<1>11. CurrentInv'
  <2>1. \A o, p \in Session : sess'[o].hash = sess'[p].hash /\ sess'[o].hash # 0 => o = p
    BY <1>1, <1>4 DEF TokenInv, CurrentInv
  <2>2. ASSUME NEW n \in Sessions!Token, exchanged'[n] # 0
        PROVE  exchanged'[n] = 1 /\ n <= signed' /\ \A o \in Session : sess'[o].hash # n
    <3>1. CASE n = q.tok
      <4>1. \A o \in Session \ {q.sid} : sess[o].hash # q.tok
        BY <1>1 DEF TokenInv, CurrentInv
      <4>2. q.next # q.tok
        BY <1>1, <1>4
      <4> QED
        BY <1>1, <1>6, <1>8, <3>1, <4>1, <4>2
    <3>2. CASE n # q.tok
      <4>1. exchanged[n] # 0
        BY <1>8, <2>2, <3>2
      <4>2. exchanged[n] = 1 /\ n <= signed /\ \A o \in Session : sess[o].hash # n
        BY <4>1 DEF TokenInv, CurrentInv
      <4> QED
        BY <1>1, <1>4, <1>8, <3>2, <4>1, <4>2
    <3> QED
      BY <3>1, <3>2
  <2>3. ASSUME NEW p \in Request, Refreshing(p)'
        PROVE  /\ \A t \in tokens' : t.n = req'[p].tok /\ t.jwt => t.sid = req'[p].sid
               /\ sess'[req'[p].sid].hash = req'[p].tok => sess'[req'[p].sid].gen = req'[p].gen
    <3>1. req'[p] = req[p] /\ Refreshing(p) /\ req[p].tok # q.next
      BY <1>4, <1>9, <2>3
    <3>2. req[p].sid \in Session
      BY <3>1 DEF RequestInv, Refreshing
    <3>3. /\ \A t \in tokens : t.n = req[p].tok /\ t.jwt => t.sid = req[p].sid
          /\ sess[req[p].sid].hash = req[p].tok => sess[req[p].sid].gen = req[p].gen
      BY <3>1 DEF TokenInv, CurrentInv
    <3> QED
      BY <1>1, <1>2, <3>1, <3>2, <3>3
  <2>4. ASSUME NEW t \in tokens', t.jwt
        PROVE  /\ t.sid \in Session
               /\ \/ sess'[t.sid].hash = t.n /\ sess'[t.sid].gen = t.gen
                  \/ t.gen < sess'[t.sid].gen /\ exchanged'[t.n] = 1
    <3>1. CASE t = new
      BY <1>1, <1>2, <3>1
    <3>2. CASE t \in tokens
      <4>1. /\ t.sid \in Session
            /\ \/ sess[t.sid].hash = t.n /\ sess[t.sid].gen = t.gen
               \/ t.gen < sess[t.sid].gen /\ exchanged[t.n] = 1
        BY <2>4, <3>2 DEF TokenInv, CurrentInv
      <4>2. t.n \in Sessions!Token /\ t.gen \in Nat
        BY <3>2, TokenNumbers DEF Sessions!Token
      <4>3. exchanged[t.n] = 1 => exchanged'[t.n] = 1
        BY <1>7, <1>8, <4>2
      <4>4. CASE t.sid # q.sid
        BY <1>1, <4>1, <4>3, <4>4
      <4>5. CASE t.sid = q.sid
        <5>1. t.gen <= q.gen /\ exchanged'[t.n] = 1
          BY <1>1, <1>5, <1>6, <1>8, <4>1, <4>2, <4>3, <4>5
        <5> QED
          BY <1>1, <1>6, <4>1, <4>2, <4>5, <5>1
      <4> QED
        BY <4>4, <4>5
    <3> QED
      BY <1>1, <3>1, <3>2
  <2> QED
    BY <2>1, <2>2, <2>3, <2>4 DEF CurrentInv, Sessions!Token
<1>12. UniqueInv'
  BY <1>1, <1>2, <1>4 DEF TokenInv, UniqueInv
<1>13. ShownInv'
  <2>1. ASSUME NEW n \in Sessions!Token, exchanged'[n] # 0 PROVE shown[n] >= 1
    BY <1>3, <1>8, <2>1 DEF TokenInv, ShownInv
  <2>2. ASSUME NEW p \in Request, Refreshing(p)'
        PROVE  /\ shown[req'[p].tok] >= 1
               /\ exchanged'[req'[p].tok] # 0 => shown[req'[p].tok] >= 2
               /\ \A o \in Request \ {p} : Refreshing(o)' /\ req'[o].tok = req'[p].tok =>
                    shown[req'[p].tok] >= 2
    <3>1. p # r /\ req'[p] = req[p] /\ Refreshing(p)
      BY <1>9, <2>2
    <3>2. /\ shown[req[p].tok] >= 1
          /\ exchanged[req[p].tok] # 0 => shown[req[p].tok] >= 2
          /\ \A o \in Request \ {p} : Refreshing(o) /\ req[o].tok = req[p].tok =>
               shown[req[p].tok] >= 2
      BY <3>1 DEF TokenInv, ShownInv
    <3>3. req[p].tok \in Sessions!Token
      BY <3>1, TokenNumbers DEF RequestInv, Sessions!Token
    <3>4. exchanged'[req[p].tok] # 0 => shown[req[p].tok] >= 2
      BY <1>3, <1>8, <3>1, <3>2, <3>3
    <3> QED
      BY <1>9, <3>1, <3>2, <3>4
  <2> QED
    BY <1>1, <2>1, <2>2 DEF ShownInv, Sessions!Token
<1> QED
  BY <1>10, <1>11, <1>12, <1>13 DEF TokenInv

\* What presenting a token does to the counts of presentations.
LEMMA PresentShows ==
  ASSUME Sessions!SessTypeOK, NEW r \in Request, NEW t \in tokens, Sessions!Present(r, t)
  PROVE  /\ UNCHANGED tokens
         /\ \A n \in Sessions!Token : shown'[n] \in Nat /\ shown'[n] >= shown[n]
         /\ shown'[t.n] >= 1 /\ (shown[t.n] >= 1 => shown'[t.n] >= 2)
<1>1. /\ UNCHANGED tokens
      /\ shown' = [shown EXCEPT ![t.n] = IF shown[t.n] < 2 THEN shown[t.n] + 1 ELSE shown[t.n]]
  BY PresentEffect DEF Taken
<1>2. t.n \in Sessions!Token
  BY TokenNumbers DEF Sessions!Token
<1>3. shown \in [Sessions!Token -> 0..2]
  BY DEF Sessions!SessTypeOK
<1> QED
  BY <1>1, <1>2, <1>3

\* Presenting a token: it is shown once more, and whoever else is refreshing with
\* it makes that twice.
LEMMA PresentKeeps ==
  ASSUME Sessions!SessTypeOK, RequestInv, TokenInv, NEW r \in Request, NEW t \in tokens,
         Sessions!Present(r, t)
  PROVE  TokenInv'
<1>1. req[r].at = "idle" /\ UNCHANGED <<sess, tokens, signed, exchanged>>
  BY PresentEffect DEF Taken
<1>2. t.n \in Sessions!Token
  BY TokenNumbers DEF Sessions!Token
<1>3. /\ \A n \in Sessions!Token : shown[n] \in 0..2
      /\ \A n \in Sessions!Token : shown'[n] \in Nat /\ shown'[n] >= shown[n]
      /\ shown'[t.n] >= 1 /\ (shown[t.n] >= 1 => shown'[t.n] >= 2)
  BY PresentShows DEF Sessions!SessTypeOK
<1>4. \A o \in Request \ {r} : req'[o] = req[o]
  BY PresentEffect DEF Taken
<1>5. Refreshing(r)' =>
        /\ req'[r].at = "sign" /\ req'[r].tok = t.n /\ req'[r].gen = sess[req'[r].sid].gen
        /\ req'[r].sid \in Sessions!SessionFor(t)
  BY <1>1, PresentEffect DEF Refreshing, Taken
<1>6. req'[r].at # "rotate"
  BY <1>1, PresentEffect DEF Taken
<1>7. \A o \in Request \ {r} : Refreshing(o)' <=> Refreshing(o)
  BY <1>4 DEF Refreshing
<1>8. NumberInv'
  <2>1. SUFFICES ASSUME NEW p \in Request, req'[p].at = "rotate"
        PROVE  /\ exchanged[req'[p].next] = 0
               /\ \A s \in Session : sess[s].hash # req'[p].next
               /\ \A u \in tokens : u.n # req'[p].next
               /\ \A o \in Request : Refreshing(o)' => req'[o].tok # req'[p].next
               /\ \A o \in Request \ {p} : req'[o].at = "rotate" => req'[o].next # req'[p].next
    BY <1>1 DEF NumberInv
  <2>2. p # r /\ req'[p] = req[p]
    BY <1>4, <1>6, <2>1
  <2>3. /\ exchanged[req[p].next] = 0 /\ \A s \in Session : sess[s].hash # req[p].next
        /\ \A u \in tokens : u.n # req[p].next
        /\ \A o \in Request : Refreshing(o) => req[o].tok # req[p].next
        /\ \A o \in Request \ {p} : req[o].at = "rotate" => req[o].next # req[p].next
    BY <2>1, <2>2 DEF TokenInv, NumberInv
  <2> QED
    BY <1>4, <1>5, <1>6, <1>7, <2>2, <2>3
<1>9. CurrentInv'
  <2>1. ASSUME NEW p \in Request, Refreshing(p)'
        PROVE  /\ \A u \in tokens : u.n = req'[p].tok /\ u.jwt => u.sid = req'[p].sid
               /\ sess[req'[p].sid].hash = req'[p].tok => sess[req'[p].sid].gen = req'[p].gen
    <3>1. CASE p = r
      <4>1. \A u \in tokens : u.n = t.n => u = t
        BY DEF TokenInv, UniqueInv
      <4>2. t.jwt => req'[r].sid = t.sid
        BY <1>5, <2>1, <3>1 DEF Sessions!SessionFor
      <4> QED
        BY <1>5, <2>1, <3>1, <4>1, <4>2
    <3>2. CASE p # r
      BY <1>4, <1>7, <2>1, <3>2 DEF TokenInv, CurrentInv
    <3> QED
      BY <3>1, <3>2
  <2> QED
    BY <1>1, <2>1 DEF TokenInv, CurrentInv
<1>10. UniqueInv'
  BY <1>1 DEF TokenInv, UniqueInv
<1>11. ShownInv'
  <2>1. ASSUME NEW n \in Sessions!Token, exchanged[n] # 0 PROVE shown'[n] >= 1
    BY <1>3, <2>1 DEF TokenInv, ShownInv
  <2>2. ASSUME NEW p \in Request, Refreshing(p)'
        PROVE  /\ shown'[req'[p].tok] >= 1
               /\ exchanged[req'[p].tok] # 0 => shown'[req'[p].tok] >= 2
               /\ \A o \in Request \ {p} : Refreshing(o)' /\ req'[o].tok = req'[p].tok =>
                    shown'[req'[p].tok] >= 2
    <3>1. CASE p = r
      <4>1. exchanged[t.n] # 0 => shown[t.n] >= 1
        BY <1>2 DEF TokenInv, ShownInv
      <4>2. \A o \in Request \ {r} : Refreshing(o)' /\ req'[o].tok = t.n => shown[t.n] >= 1
        BY <1>4, <1>7 DEF TokenInv, ShownInv
      <4> QED
        BY <1>3, <1>5, <2>2, <3>1, <4>1, <4>2
    <3>2. CASE p # r
      <4>1. req'[p] = req[p] /\ Refreshing(p)
        BY <1>4, <1>7, <2>2, <3>2
      <4>2. req[p].tok \in Sessions!Token
        BY <4>1, TokenNumbers DEF RequestInv, Sessions!Token
      <4>3. /\ shown[req[p].tok] >= 1
            /\ exchanged[req[p].tok] # 0 => shown[req[p].tok] >= 2
            /\ \A o \in Request \ {p} : Refreshing(o) /\ req[o].tok = req[p].tok =>
                 shown[req[p].tok] >= 2
        BY <4>1 DEF TokenInv, ShownInv
      <4>4. /\ shown'[req[p].tok] >= 1
            /\ shown[req[p].tok] >= 2 => shown'[req[p].tok] >= 2
            /\ req[p].tok = t.n => shown'[req[p].tok] >= 2
        BY <1>3, <4>2, <4>3
      <4>5. ASSUME NEW o \in Request \ {p}, Refreshing(o)', req'[o].tok = req[p].tok
            PROVE  shown'[req[p].tok] >= 2
        <5>1. CASE o = r
          BY <1>5, <4>4, <4>5, <5>1
        <5>2. CASE o # r
          BY <1>4, <1>7, <4>3, <4>4, <4>5, <5>2
        <5> QED
          BY <5>1, <5>2
      <4> QED
        BY <4>1, <4>3, <4>4, <4>5
    <3> QED
      BY <3>1, <3>2
  <2> QED
    BY <1>1, <2>1, <2>2 DEF ShownInv, Sessions!Token
<1> QED
  BY <1>8, <1>9, <1>10, <1>11 DEF TokenInv

\* Every step keeps what is known about tokens.
LEMMA NextTokens ==
  ASSUME Sessions!SessTypeOK, RequestInv, TokenInv, RevokedInv,
         [Sessions!SessNext]_(Sessions!sessVars)
  PROVE  TokenInv'
  BY StepKinds, CalmKeeps, SignKeeps, RotateKeeps, PresentKeeps, IssueKeeps

-----------------------------------------------------------------------------
(* Requests, revocations and alarms                                        *)

\* Requests know their session and their time.
LEMMA NextRequest ==
  ASSUME Sessions!SessTypeOK, RequestInv, RevokedInv, [Sessions!SessNext]_(Sessions!sessVars)
  PROVE  RequestInv'
<1>0. /\ clock # 0 /\ signed \in Nat /\ signed + 1 # 0
      /\ \A t \in tokens : t.n # 0
  <2>1. clock # 0 /\ signed \in Nat
    BY SessFields
  <2> QED
    BY <2>1, TokenNumbers
<1>1. ASSUME NEW r \in Request, Sessions!SignIn(r) PROVE RequestInv'
  BY <1>1, SignInEffect DEF RequestInv, Refreshing
<1>2. ASSUME NEW r \in Request, Sessions!Sign(r) PROVE RequestInv'
  BY <1>0, <1>2, SignEffect DEF RequestInv, Refreshing
<1>3. ASSUME NEW r \in Request, Sessions!Rotate(r) PROVE RequestInv'
  BY <1>3, RotateEffect DEF RequestInv, Refreshing
<1>4. ASSUME NEW r \in Request, Sessions!RotationLost(r) PROVE RequestInv'
  BY <1>0, <1>4, RotationLostEffect DEF RequestInv, Refreshing
<1>5. ASSUME NEW r \in Request, Sessions!RevokeFamily(r) \/ Sessions!LogoutRevoke(r)
      PROVE  RequestInv'
  BY <1>5, RevokeEffect DEF RequestInv, Refreshing
<1>6. ASSUME NEW r \in Request, Sessions!Logout(r) PROVE RequestInv'
  BY <1>0, <1>6, LogoutEffect DEF RequestInv, Refreshing
<1>7. ASSUME NEW r \in Request, NEW s \in Session, Sessions!IssueSession(r, s)
      PROVE  RequestInv'
  <2>1. req'[r].at = "idle" /\ \A o \in Request \ {r} : req'[o] = req[o]
    BY <1>7, IssueEffect
  <2> QED
    BY <2>1 DEF RequestInv, Refreshing
<1>8. ASSUME NEW r \in Request, NEW t \in tokens, Sessions!Present(r, t)
      PROVE  RequestInv'
  <2>1. CASE UNCHANGED req
    BY <2>1 DEF RequestInv, Refreshing
  <2>2. CASE ~UNCHANGED req
    BY <1>0, <1>8, <2>2, PresentEffect DEF RequestInv, Refreshing, Taken
  <2> QED
    BY <2>1, <2>2
<1>9. CASE UNCHANGED req
  BY <1>9 DEF RequestInv, Refreshing
<1>10. ASSUME Sessions!Ban \/ Sessions!DeleteSessions \/ Sessions!Tick PROVE UNCHANGED req
  BY <1>10 DEF Sessions!Ban, Sessions!DeleteSessions, Sessions!Tick
<1>11. UNCHANGED Sessions!sessVars => UNCHANGED req
  BY DEF Sessions!sessVars
<1> QED
  BY <1>1, <1>2, <1>3, <1>4, <1>5, <1>6, <1>7, <1>8, <1>9, <1>10, <1>11
  DEF Sessions!SessNext

\* A reported revocation stays in the row.
LEMMA NextRevoked ==
  ASSUME Sessions!SessTypeOK, RequestInv, RevokedInv, [Sessions!SessNext]_(Sessions!sessVars)
  PROVE  RevokedInv'
<1>1. CASE UNCHANGED <<sess, revokedFor>>
  BY <1>1 DEF RevokedInv
<1>2. revokedFor \subseteq Session
  BY DEF Sessions!SessTypeOK
<1>3. ASSUME NEW r \in Request,
             \/ Sessions!SignIn(r) \/ Sessions!Sign(r)
             \/ Sessions!RotationLost(r) \/ Sessions!Logout(r)
      PROVE  UNCHANGED <<sess, revokedFor>>
  BY <1>3 DEF Sessions!SignIn, Sessions!Sign, Sessions!RotationLost, Sessions!Logout
<1>4. ASSUME NEW r \in Request, NEW t \in tokens, Sessions!Present(r, t)
      PROVE  UNCHANGED <<sess, revokedFor>>
  BY <1>4, PresentEffect DEF Taken
<1>5. ASSUME NEW r \in Request, Sessions!Rotate(r) PROVE RevokedInv'
  <2>1. /\ req[r].sid \in Session
        /\ sess'[req[r].sid].revoked = sess[req[r].sid].revoked
        /\ sess'[req[r].sid].live = sess[req[r].sid].live
        /\ sess'[req[r].sid].family = sess[req[r].sid].family
        /\ \A o \in Session \ {req[r].sid} : sess'[o] = sess[o]
        /\ UNCHANGED revokedFor
    BY <1>5, RotateEffect
  <2> QED
    BY <1>2, <2>1 DEF RevokedInv
<1>6. ASSUME NEW r \in Request, Sessions!RevokeFamily(r) \/ Sessions!LogoutRevoke(r)
      PROVE  RevokedInv'
  <2>1. /\ \A s \in revokedFor' : sess'[s].revoked # 0
        /\ \A s \in Session : sess'[s].live = sess[s].live /\ sess'[s].family = sess[s].family
    BY <1>6, RevokeEffect
  <2> QED
    BY <2>1 DEF RevokedInv
<1>7. ASSUME NEW r \in Request, NEW s \in Session, Sessions!IssueSession(r, s)
      PROVE  RevokedInv'
  <2>1. /\ sess[s] = Sessions!NoSession /\ sess'[s].family = s /\ UNCHANGED revokedFor
        /\ \A o \in Session \ {s} : sess'[o] = sess[o]
    BY <1>7, IssueEffect
  <2>2. Sessions!NoSession.revoked = 0
    BY DEF Sessions!NoSession
  <2>3. s \notin revokedFor
    BY <2>1, <2>2 DEF RevokedInv
  <2> QED
    BY <1>2, <2>1, <2>3, SessionAssumption DEF RevokedInv
<1>8. ASSUME Sessions!DeleteSessions PROVE RevokedInv'
  BY <1>2, <1>8, DeleteEffect DEF RevokedInv
<1>9. ASSUME Sessions!Ban \/ Sessions!Tick PROVE UNCHANGED <<sess, revokedFor>>
  BY <1>9 DEF Sessions!Ban, Sessions!Tick
<1>10. UNCHANGED Sessions!sessVars => UNCHANGED <<sess, revokedFor>>
  BY DEF Sessions!sessVars
<1> QED
  BY <1>1, <1>3, <1>4, <1>5, <1>6, <1>7, <1>8, <1>9, <1>10 DEF Sessions!SessNext

\* What was shown stays shown.
LEMMA AlarmStays ==
  ASSUME Sessions!SessTypeOK, RequestInv, RevokedInv, Alarm,
         [Sessions!SessNext]_(Sessions!sessVars)
  PROVE  Alarm'
<1>1. ASSUME tokens \subseteq tokens', UNCHANGED shown PROVE Alarm'
  BY <1>1 DEF Alarm
<1>2. CASE Calm
  BY <1>1, <1>2 DEF Calm
<1>3. ASSUME NEW r \in Request, Sessions!Sign(r) PROVE Alarm'
  BY <1>1, <1>3, SignEffect
<1>4. ASSUME NEW r \in Request, Sessions!Rotate(r) PROVE Alarm'
  <2>1. tokens \subseteq tokens' /\ UNCHANGED shown
    BY <1>4, RotateEffect
  <2> QED
    BY <1>1, <2>1
<1>5. ASSUME NEW r \in Request, NEW s \in Session, Sessions!IssueSession(r, s) PROVE Alarm'
  <2>1. tokens \subseteq tokens' /\ UNCHANGED shown
    BY <1>5, IssueEffect
  <2> QED
    BY <1>1, <2>1
<1>6. ASSUME NEW r \in Request, NEW t \in tokens, Sessions!Present(r, t) PROVE Alarm'
  <2>1. UNCHANGED tokens /\ \A n \in Sessions!Token : shown'[n] \in Nat /\ shown'[n] >= shown[n]
    BY <1>6, PresentShows
  <2>2. \A u \in tokens : u.n \in Sessions!Token
    BY TokenNumbers DEF Sessions!Token
  <2>3. \A n \in Sessions!Token : shown[n] \in Nat
    BY DEF Sessions!SessTypeOK
  <2> QED
    BY <2>1, <2>2, <2>3 DEF Alarm, Sessions!Token
<1> QED
  BY <1>2, <1>3, <1>4, <1>5, <1>6, StepKinds

\* Nobody is accused of reuse without an alarm: a token that is not current was
\* exchanged, and whoever shows it has shown it before, or it is an opaque one.
LEMMA AccusedShown ==
  ASSUME Sessions!SessTypeOK, TokenInv, NEW t \in tokens, t.jwt,
         Sessions!Classify(t, t.sid) = "reuse"
  PROVE  exchanged[t.n] = 1
<1>1. /\ t.sid \in Session
      /\ \/ sess[t.sid].hash = t.n /\ sess[t.sid].gen = t.gen
         \/ t.gen < sess[t.sid].gen /\ exchanged[t.n] = 1
  BY DEF TokenInv, CurrentInv
<1>2. sess[t.sid].gen \in Nat /\ t.gen \in Nat
  BY <1>1, TokenNumbers
<1>3. sess[t.sid].hash = t.n /\ sess[t.sid].gen = t.gen => FALSE
  BY <1>1, <1>2 DEF Sessions!Classify
<1> QED
  BY <1>1, <1>3

\* Every step keeps the cause of a revocation for reuse.
LEMMA NextAlarm ==
  ASSUME Sessions!SessTypeOK, RequestInv, TokenInv, RevokedInv, AlarmInv,
         [Sessions!SessNext]_(Sessions!sessVars)
  PROVE  AlarmInv'
<1>0. Alarm => Alarm'
  BY AlarmStays
<1>1. ASSUME \A s \in Session : sess'[s].reuse => sess[s].reuse,
             \A o \in Request : req'[o].at = "revoke" => req'[o] = req[o]
      PROVE  AlarmInv'
  BY <1>0, <1>1 DEF AlarmInv
<1>2. ASSUME NEW r \in Request, Sessions!SignIn(r) \/ Sessions!Sign(r) \/ Sessions!Logout(r)
      PROVE  AlarmInv'
  <2>1. UNCHANGED sess /\ req'[r].at # "revoke" /\ \A o \in Request \ {r} : req'[o] = req[o]
    BY <1>2, SignInEffect, SignEffect, LogoutEffect
  <2> QED
    BY <1>1, <2>1
<1>3. ASSUME NEW r \in Request, Sessions!Rotate(r) PROVE AlarmInv'
  <2>1. /\ req'[r].at # "revoke" /\ \A o \in Request \ {r} : req'[o] = req[o]
        /\ sess'[req[r].sid].reuse = sess[req[r].sid].reuse
        /\ \A o \in Session \ {req[r].sid} : sess'[o] = sess[o]
    BY <1>3, RotateEffect
  <2> QED
    BY <1>1, <2>1
<1>4. ASSUME NEW r \in Request, NEW s \in Session, Sessions!IssueSession(r, s)
      PROVE  AlarmInv'
  <2>1. /\ req'[r].at # "revoke" /\ \A o \in Request \ {r} : req'[o] = req[o]
        /\ sess'[s].reuse = FALSE /\ \A o \in Session \ {s} : sess'[o] = sess[o]
    BY <1>4, IssueEffect
  <2> QED
    BY <1>1, <2>1
<1>5. ASSUME NEW r \in Request, Sessions!RevokeFamily(r) \/ Sessions!LogoutRevoke(r)
      PROVE  AlarmInv'
  <2>1. /\ req'[r].at # "revoke" /\ \A o \in Request \ {r} : req'[o] = req[o]
        /\ \A s \in Session : sess'[s].reuse => sess[s].reuse \/ req[r].at = "revoke"
    BY <1>5, RevokeEffect
  <2> QED
    BY <1>0, <2>1 DEF AlarmInv
<1>6. ASSUME NEW r \in Request, Sessions!RotationLost(r) PROVE AlarmInv'
  <2>1. UNCHANGED sess /\ \A o \in Request \ {r} : req'[o] = req[o]
    BY <1>6, RotationLostEffect
  <2>2. CASE req'[r].at # "revoke"
    BY <1>1, <2>1, <2>2
  <2>3. CASE req'[r].at = "revoke"
    <3>1. PICK t \in tokens : t.n = req[r].tok /\ Sessions!Classify(t, req[r].sid) = "reuse"
      BY <1>6, <2>3, RotationLostEffect
    <3>2. Refreshing(r)
      BY <1>6, RotationLostEffect DEF Refreshing
    <3>3. t.n \in Sessions!Token
      BY TokenNumbers DEF Sessions!Token
    <3>4. /\ shown[t.n] >= 1 /\ (exchanged[t.n] # 0 => shown[t.n] >= 2)
      BY <3>1, <3>2 DEF TokenInv, ShownInv
    <3>5. CASE t.jwt
      <4>1. t.sid = req[r].sid
        BY <3>1, <3>2, <3>5 DEF TokenInv, CurrentInv
      <4>2. exchanged[t.n] = 1
        BY <3>1, <3>5, <4>1, AccusedShown
      <4>3. Alarm
        BY <3>3, <3>4, <4>2 DEF Alarm
      <4> QED
        BY <1>0, <2>1, <4>3 DEF AlarmInv
    <3>6. CASE ~t.jwt
      <4>1. Alarm
        BY <3>4, <3>6 DEF Alarm
      <4> QED
        BY <1>0, <2>1, <4>1 DEF AlarmInv
    <3> QED
      BY <3>5, <3>6
  <2> QED
    BY <2>2, <2>3
<1>7. ASSUME NEW r \in Request, NEW t \in tokens, Sessions!Present(r, t) PROVE AlarmInv'
  <2>1. UNCHANGED <<sess, tokens>>
    BY <1>7, PresentEffect DEF Taken
  <2>2. CASE UNCHANGED req
    BY <1>1, <2>1, <2>2
  <2>3. CASE ~UNCHANGED req
    <3>1. /\ \A o \in Request \ {r} : req'[o] = req[o]
          /\ req'[r].sid \in Sessions!SessionFor(t)
          /\ req'[r].at = "revoke" => Sessions!Verdict(t, req'[r].sid) = "reuse"
      BY <1>7, <2>3, PresentEffect DEF Taken
    <3>2. t.n \in Sessions!Token
      BY TokenNumbers DEF Sessions!Token
    <3>3. shown'[t.n] >= 1 /\ (shown[t.n] >= 1 => shown'[t.n] >= 2)
      BY <1>7, PresentShows
    <3>4. CASE ~t.jwt
      <4>1. Alarm'
        BY <2>1, <3>3, <3>4 DEF Alarm
      <4> QED
        BY <2>1, <4>1 DEF AlarmInv
    <3>5. CASE t.jwt /\ req'[r].at = "revoke"
      <4>1. req'[r].sid = t.sid
        BY <3>1, <3>5 DEF Sessions!SessionFor
      <4>2. Sessions!Classify(t, t.sid) = "reuse"
        BY <3>1, <3>5, <4>1 DEF Sessions!Verdict, Sessions!ConsumedBefore
      <4>3. exchanged[t.n] = 1
        BY <3>5, <4>2, AccusedShown
      <4>4. shown'[t.n] >= 2
        BY <3>2, <3>3, <4>3 DEF TokenInv, ShownInv
      <4>5. Alarm'
        BY <3>2, <4>4 DEF Alarm, Sessions!Token
      <4> QED
        BY <2>1, <4>5 DEF AlarmInv
    <3>6. CASE t.jwt /\ req'[r].at # "revoke"
      BY <1>1, <2>1, <3>1, <3>6
    <3> QED
      BY <3>4, <3>5, <3>6
  <2> QED
    BY <2>2, <2>3
<1>8. ASSUME Sessions!DeleteSessions PROVE AlarmInv'
  BY <1>1, <1>8, DeleteEffect
<1>9. ASSUME UNCHANGED <<sess, req>> PROVE AlarmInv'
  BY <1>1, <1>9
<1>10. ASSUME Sessions!Ban \/ Sessions!Tick PROVE UNCHANGED <<sess, req>>
  BY <1>10 DEF Sessions!Ban, Sessions!Tick
<1>11. UNCHANGED Sessions!sessVars => UNCHANGED <<sess, req>>
  BY DEF Sessions!sessVars
<1> QED
  BY <1>2, <1>3, <1>4, <1>5, <1>6, <1>7, <1>8, <1>9, <1>10, <1>11 DEF Sessions!SessNext

\* Every step keeps the invariant.
LEMMA NextSessInv ==
  ASSUME SessInv, [Sessions!SessNext]_(Sessions!sessVars)
  PROVE  SessInv'
  BY NextSessTyped, NextRequest, NextTokens, NextRevoked, NextAlarm DEF SessInv

-----------------------------------------------------------------------------
(* The beginning: nothing, or the rows of an older release                 *)

\* It holds at first, with the rows of an older release too.
LEMMA InitSessInv ==
  ASSUME Sessions!SessInit
  PROVE  SessInv
<1>1. /\ clock = 1 /\ banned = 0 /\ revokedFor = {}
      /\ req = [r \in Request |-> Sessions!NoRequest]
      /\ shown = [n \in Sessions!Token |-> 0] /\ exchanged = [n \in Sessions!Token |-> 0]
  BY DEF Sessions!SessInit
<1>2. Sessions!NoRequest \in Sessions!SessionRequest
  BY DEF Sessions!NoRequest, Sessions!SessionRequest
<1>3. \A r \in Request : req[r].at = "idle" /\ req[r].tok = 0 /\ req[r].next = 0
  BY <1>1 DEF Sessions!NoRequest
<1>4. /\ clock \in 1..MaxTime /\ banned \in 0..(MaxTime + 1) /\ revokedFor \subseteq Session
      /\ req \in [Request -> Sessions!SessionRequest]
      /\ shown \in [Sessions!Token -> 0..2] /\ exchanged \in [Sessions!Token -> Nat]
  BY <1>1, <1>2, TimesAssumption
<1>5. RequestInv /\ NumberInv
  BY <1>3 DEF RequestInv, NumberInv, Refreshing
<1>6. ShownInv
  BY <1>1, <1>3 DEF ShownInv, Refreshing
<1>7. /\ \A n \in Sessions!Token : exchanged[n] = 0
      /\ \A r \in Request : ~Refreshing(r)
  BY <1>1, <1>3 DEF Refreshing
<1>8. ASSUME sess \in [Session -> Sessions!SessionRow], signed \in {0, 2},
             tokens \subseteq Sessions!RefreshToken, \A t \in tokens : t.n \in 1..signed,
             \A t \in tokens : t.jwt = FALSE, UniqueInv,
             \A s \in Session : sess[s].hash <= signed /\ sess[s].legacy = 0 /\ ~sess[s].reuse,
             \A s, o \in Session : sess[s].hash = sess[o].hash /\ sess[s].hash # 0 => s = o,
             \A s \in Session : sess[s].live => sess[s].family # ""
      PROVE  SessInv
  <2>1. signed \in 0..MaxTokens /\ 0 <= signed
    <3>1. signed = 0 \/ signed = 2
      BY <1>8
    <3> QED
      BY <3>1, TimesAssumption
  <2>2. \A r \in Request : req[r].tok <= signed /\ req[r].next <= signed
    BY <1>3, <2>1
  <2>3. Sessions!SessTypeOK
    BY <1>4, <1>8, <2>1, <2>2 DEF Sessions!SessTypeOK
  <2>4. CurrentInv
    BY <1>7, <1>8 DEF CurrentInv
  <2>5. RevokedInv /\ AlarmInv
    BY <1>1, <1>3, <1>8 DEF RevokedInv, AlarmInv
  <2> QED
    BY <1>5, <1>6, <1>8, <2>3, <2>4, <2>5 DEF SessInv, TokenInv
<1>9. CASE sess = [s \in Session |-> Sessions!NoSession] /\ tokens = {} /\ signed = 0
  <2>1. /\ Sessions!NoSession \in Sessions!SessionRow /\ Sessions!NoSession.hash = 0
        /\ Sessions!NoSession.legacy = 0 /\ Sessions!NoSession.reuse = FALSE
        /\ Sessions!NoSession.live = FALSE
    BY DEF Sessions!NoSession, Sessions!SessionRow
  <2>2. UniqueInv
    BY <1>9 DEF UniqueInv
  <2>3. \A s \in Session : sess[s] = Sessions!NoSession
    BY <1>9
  <2>4. sess \in [Session -> Sessions!SessionRow]
    BY <1>9, <2>1
  <2>5. \A s \in Session : /\ sess[s].hash = 0 /\ sess[s].legacy = 0 /\ sess[s].reuse = FALSE
                            /\ sess[s].live = FALSE
    BY <2>1, <2>3
  <2>6. tokens = {} /\ signed = 0 /\ signed \in {0, 2}
    BY <1>9
  <2>7. \A s \in Session : sess[s].hash <= signed /\ sess[s].legacy = 0 /\ ~sess[s].reuse
    BY <2>5, <2>6
  <2> QED
    BY <1>8, <2>2, <2>4, <2>5, <2>6, <2>7
<1>10. ASSUME NEW old \in Session, NEW cur \in Session, old # cur,
              sess = [s \in Session |->
                IF s \notin {old, cur} THEN Sessions!NoSession
                ELSE [Sessions!NoSession EXCEPT !.live = TRUE, !.family = old,
                        !.expires = MaxTime + 1, !.hash = IF s = old THEN 1 ELSE 2,
                        !.revoked = IF s = old THEN 1 ELSE 0]],
              tokens = {Sessions!Opaque(1), Sessions!Opaque(2)}, signed = 2
       PROVE  SessInv
  <2> DEFINE first == [Sessions!NoSession EXCEPT !.live = TRUE, !.family = old,
                         !.expires = MaxTime + 1, !.hash = 1, !.revoked = 1]
             second == [Sessions!NoSession EXCEPT !.live = TRUE, !.family = old,
                          !.expires = MaxTime + 1, !.hash = 2, !.revoked = 0]
  <2>1. /\ Sessions!NoSession \in Sessions!SessionRow /\ Sessions!NoSession.hash = 0
        /\ Sessions!NoSession.legacy = 0 /\ Sessions!NoSession.reuse = FALSE
        /\ Sessions!NoSession.live = FALSE
    BY DEF Sessions!NoSession, Sessions!SessionRow
  <2>2. /\ first \in Sessions!SessionRow /\ first.hash = 1 /\ first.legacy = 0
        /\ first.reuse = FALSE /\ first.family = old
        /\ second \in Sessions!SessionRow /\ second.hash = 2 /\ second.legacy = 0
        /\ second.reuse = FALSE /\ second.family = old
    <3>1. MaxTime + 1 \in Nat
      BY TimesAssumption
    <3> QED
      BY <3>1 DEF Sessions!NoSession, Sessions!SessionRow
  <2>3. /\ sess[old] = first /\ sess[cur] = second
        /\ \A s \in Session \ {old, cur} : sess[s] = Sessions!NoSession
        /\ DOMAIN sess = Session /\ sess = [s \in Session |-> sess[s]]
    BY <1>10
  <2>4. old # cur /\ tokens = {Sessions!Opaque(1), Sessions!Opaque(2)} /\ signed = 2
    BY <1>10
  <2> HIDE DEF first, second
  <2>5. sess \in [Session -> Sessions!SessionRow]
    BY <2>1, <2>2, <2>3
  <2>6. \A s \in Session : sess[s].hash <= signed /\ sess[s].legacy = 0 /\ ~sess[s].reuse
    BY <2>1, <2>2, <2>3, <2>4
  <2>7. \A s, o \in Session : sess[s].hash = sess[o].hash /\ sess[s].hash # 0 => s = o
    BY <2>1, <2>2, <2>3
  <2>8. \A s \in Session : sess[s].live => sess[s].family # ""
    <3>1. \A s \in Session : s \notin {old, cur} => ~sess[s].live
      BY <2>1, <2>3
    <3>2. sess[old].family = old /\ sess[cur].family = old
      BY <2>2, <2>3
    <3>3. old # ""
      BY SessionAssumption
    <3> QED
      BY <3>1, <3>2, <3>3
  <2>9. /\ Sessions!Opaque(1) \in Sessions!RefreshToken /\ Sessions!Opaque(1).n = 1
        /\ Sessions!Opaque(2) \in Sessions!RefreshToken /\ Sessions!Opaque(2).n = 2
        /\ Sessions!Opaque(1).jwt = FALSE /\ Sessions!Opaque(2).jwt = FALSE
    BY DEF Sessions!Opaque, Sessions!RefreshToken
  <2>10. /\ tokens \subseteq Sessions!RefreshToken /\ \A t \in tokens : t.n \in 1..signed
         /\ \A t \in tokens : t.jwt = FALSE
    BY <2>4, <2>9
  <2>11. UniqueInv
    BY <2>4, <2>9 DEF UniqueInv
  <2>12. signed \in {0, 2}
    BY <2>4
  <2> QED
    BY <1>8, <2>5, <2>6, <2>7, <2>8, <2>10, <2>11, <2>12
<1> QED
  BY <1>9, <1>10 DEF Sessions!SessInit

-----------------------------------------------------------------------------
(* What the invariant says                                                 *)

\* The invariant implies the properties of refresh tokens.
LEMMA SessInvImplies ==
  ASSUME SessInv
  PROVE  Sessions!ExchangedOnce /\ Sessions!RevocationIsFinal /\ Sessions!NoFalseAlarm
<1>1. Sessions!ExchangedOnce
  BY DEF SessInv, TokenInv, CurrentInv, Sessions!ExchangedOnce
<1>2. Sessions!RevocationIsFinal
  <2>1. SUFFICES ASSUME NEW t \in tokens, NEW s \in Session, s \in revokedFor
                 PROVE  Sessions!Verdict(t, s) # "current"
    BY DEF Sessions!RevocationIsFinal
  <2>2. sess[s].revoked # 0
    BY <2>1 DEF SessInv, RevokedInv
  <2>3. Sessions!Classify(t, s) # "current"
    BY <2>2 DEF Sessions!Classify
  <2> QED
    BY <2>3 DEF Sessions!Verdict
<1>3. Sessions!NoFalseAlarm
  BY DEF SessInv, AlarmInv, Alarm, Sessions!NoFalseAlarm
<1> QED
  BY <1>1, <1>2, <1>3

\* A token is handed out only for a session that is not revoked.
LEMMA TokenForUnrevoked ==
  ASSUME SessInv, [Sessions!SessNext]_(Sessions!sessVars)
  PROVE  Sessions!TokenStep
<1>1. Sessions!SessTypeOK /\ RequestInv /\ RevokedInv
  BY DEF SessInv
<1>2. SUFFICES ASSUME NEW t \in tokens' \ tokens, t.sid \in Sessions!Live
               PROVE  sess[t.sid].revoked = 0
  BY DEF Sessions!TokenStep
<1>3. CASE Calm
  BY <1>2, <1>3 DEF Calm
<1>4. ASSUME NEW r \in Request, Sessions!Sign(r) PROVE sess[t.sid].revoked = 0
  BY <1>1, <1>2, <1>4, SignEffect
<1>5. ASSUME NEW r \in Request, Sessions!Rotate(r) PROVE sess[t.sid].revoked = 0
  <2>1. /\ t = Sessions!Refresh(req[r].next, req[r].sid, req[r].gen + 1, req[r].t + RefreshTtl)
        /\ sess[req[r].sid].revoked = 0
    BY <1>1, <1>2, <1>5, RotateEffect
  <2>2. t.sid = req[r].sid
    BY <2>1 DEF Sessions!Refresh
  <2> QED
    BY <2>1, <2>2
<1>6. ASSUME NEW r \in Request, NEW u \in tokens, Sessions!Present(r, u)
      PROVE  sess[t.sid].revoked = 0
  <2>1. tokens' = tokens
    BY <1>6, Zenon DEF Sessions!Present
  <2> QED
    BY <1>2, <2>1
<1>7. ASSUME NEW r \in Request, NEW s \in Session, Sessions!IssueSession(r, s)
      PROVE  sess[t.sid].revoked = 0
  <2>1. /\ t = Sessions!Refresh(signed + 1, s, 1, clock + RefreshTtl)
        /\ sess[s] = Sessions!NoSession
    BY <1>2, <1>7 DEF Sessions!IssueSession
  <2>2. t.sid = s
    BY <2>1 DEF Sessions!Refresh
  <2>3. Sessions!NoSession.revoked = 0
    BY DEF Sessions!NoSession
  <2> QED
    BY <2>1, <2>2, <2>3
<1> QED
  BY <1>1, <1>3, <1>4, <1>5, <1>6, <1>7, StepKinds

-----------------------------------------------------------------------------
(* Theorems about refresh tokens                                           *)

\* While sessions run, a step of the suite is one of theirs.
LEMMA SessionsStep ==
  ASSUME [AccessNext]_accessVars, part = "sessions" \/ part' = "sessions"
  PROVE  part' = part /\ [Sessions!SessNext]_(Sessions!sessVars)
  BY DEF AccessNext, accessVars, sessionsVars, Sessions!sessVars

\* Sessions, requests and refresh tokens fit together in every behaviour
\* (auth/refresh.rs: grant, rotation_lost, revoke_family).
THEOREM SessionInvariant == AccessSpec => [](part = "sessions" => SessInv)
<1>1. AccessInit => (part = "sessions" => SessInv)
  BY InitSessInv DEF AccessInit
<1>2. (part = "sessions" => SessInv) /\ [AccessNext]_accessVars =>
        (part = "sessions" => SessInv)'
  BY SessionsStep, NextSessInv
<1> QED
  BY <1>1, <1>2, PTL DEF AccessSpec

\* Refresh tokens (auth/refresh.rs: grant, classify, revoke_family): however many
\* requests present it at once, a token buys at most one successor; once a revocation
\* was reported no token of the family is current again and none is handed out; and
\* reuse detection never logs out a client that uses each token once.
THEOREM SessionsAlwaysSound == AccessSpec => SessionsSound
<1>1. (part = "sessions" => SessInv) =>
        (part = "sessions" =>
           Sessions!ExchangedOnce /\ Sessions!RevocationIsFinal /\ Sessions!NoFalseAlarm)
  BY SessInvImplies
<1>2. (part = "sessions" => SessInv) /\ [AccessNext]_accessVars =>
        [part = "sessions" => Sessions!TokenStep]_accessVars
  BY SessionsStep, TokenForUnrevoked
<1> QED
  BY <1>1, <1>2, SessionInvariant, PTL DEF AccessSpec, SessionsSound

-----------------------------------------------------------------------------
(* Project keys: the inductive invariant                                   *)

\* A call as the gates see it, an entry of the cache.
KeyCall ==
  [at : {"idle", "read", "fill", "session"}, route : ApiKeys!Route \cup {"", "session"},
   look : ApiKeys!Slot \cup ApiKeys!Bearer, tok : ApiKeys!Bearer,
   seen : {"", "none", "publishable", "secret"}]
KeyEntry == [kind : {"absent", "none", "publishable", "secret"}, at : Nat]

KeyTyped ==
  /\ keyClock \in 0..MaxKeyClock /\ admin \in Key \cup {""} /\ revokedAck \subseteq Key
  /\ keyRow \in [Key -> {"none", "live", "revoked"}] /\ keyCache \in [Key -> KeyEntry]
  /\ call \in [Caller -> KeyCall] /\ everKeys \in BOOLEAN

\* A look-up under way, and an authenticated connection, have a key.
LookInv == \A c \in Caller : call[c].at # "idle" => call[c].look \in Key

\* Whatever a look-up has found is the kind of the key, or that it is not valid.
FoundInv ==
  /\ \A k \in Key : keyCache[k] # ApiKeys!Absent => keyCache[k].kind \in {"none", ApiKeys!Kind(k)}
  /\ \A c \in Caller : call[c].at = "fill" =>
       call[c].seen \in {"none", ApiKeys!Kind(call[c].look)}

\* A key that was ever created has its row, a revoked one has it marked.
RowsInv ==
  /\ everKeys => ApiKeys!KeysConfigured
  /\ \A k \in revokedAck : keyRow[k] = "revoked"

KeysInv == KeyTyped /\ LookInv /\ FoundInv /\ RowsInv

-----------------------------------------------------------------------------
(* What the steps of a look-up do                                          *)

\* The fields of a call and of an entry have their types.
LEMMA KeyFields ==
  ASSUME KeyTyped
  PROVE  /\ \A c \in Caller :
              /\ call[c] \in KeyCall /\ call[c].at \in {"idle", "read", "fill", "session"}
              /\ call[c].seen \in {"", "none", "publishable", "secret"}
              /\ call[c].look \in ApiKeys!Slot \cup ApiKeys!Bearer
         /\ \A k \in Key :
              /\ keyCache[k] \in KeyEntry /\ keyCache[k].at \in Nat
              /\ keyCache[k].kind \in {"absent", "none", "publishable", "secret"}
         /\ keyClock \in Nat
<1>1. ASSUME NEW c \in Caller
      PROVE  /\ call[c] \in KeyCall /\ call[c].at \in {"idle", "read", "fill", "session"}
             /\ call[c].seen \in {"", "none", "publishable", "secret"}
             /\ call[c].look \in ApiKeys!Slot \cup ApiKeys!Bearer
  <2>1. call[c] \in KeyCall
    BY DEF KeyTyped
  <2> QED
    BY <2>1 DEF KeyCall
<1>2. ASSUME NEW k \in Key
      PROVE  /\ keyCache[k] \in KeyEntry /\ keyCache[k].at \in Nat
             /\ keyCache[k].kind \in {"absent", "none", "publishable", "secret"}
  <2>1. keyCache[k] \in KeyEntry
    BY DEF KeyTyped
  <2> QED
    BY <2>1 DEF KeyEntry
<1>3. keyClock \in Nat
  <2>1. keyClock \in 0..MaxKeyClock
    BY DEF KeyTyped
  <2>2. MaxKeyClock \in Nat
    BY KeyAssumption
  <2> QED
    BY <2>1, <2>2
<1> QED
  BY <1>1, <1>2, <1>3

\* Call c becomes a call q, the others stay.
LEMMA CallBecomes ==
  ASSUME KeyTyped, NEW c \in Caller, NEW q \in KeyCall, call' = [call EXCEPT ![c] = q]
  PROVE  /\ call' \in [Caller -> KeyCall] /\ call'[c] = q
         /\ \A o \in Caller \ {c} : call'[o] = call[o]
  BY DEF KeyTyped

\* No call.
LEMMA NoCallShape ==
  ApiKeys!NoCall \in KeyCall /\ ApiKeys!NoCall.at = "idle"
  BY DEF ApiKeys!NoCall, KeyCall, ApiKeys!Slot, ApiKeys!Bearer

\* Call c goes on without having read a row: it ends, waits for one, or has become a
\* connection.
Asks(c) ==
  /\ call' \in [Caller -> KeyCall] /\ \A o \in Caller \ {c} : call'[o] = call[o]
  /\ call'[c].at \in {"idle", "read", "session"}
  /\ call'[c].at # "idle" => call'[c].look \in Key

\* The decision about a request, whatever the look-up found.
LEMMA DecideEffect ==
  ASSUME KeyTyped, NEW c \in Caller, NEW q, NEW found, ApiKeys!Decide(c, q, found)
  PROVE  Asks(c)
<1> DEFINE s == [ApiKeys!NoCall EXCEPT !.at = "session", !.look = q.look]
<1>1. \/ q.look \in Key /\ call' = [call EXCEPT ![c] = s]
      \/ call' = [call EXCEPT ![c] = ApiKeys!NoCall]
  BY DEF ApiKeys!Decide
<1>2. q.look \in Key => s \in KeyCall /\ s.at = "session" /\ s.look \in Key
  BY DEF ApiKeys!NoCall, KeyCall, ApiKeys!Slot, ApiKeys!Bearer
<1> HIDE DEF s
<1>3. CASE q.look \in Key /\ call' = [call EXCEPT ![c] = s]
  BY <1>2, <1>3, CallBecomes DEF Asks
<1>4. CASE call' = [call EXCEPT ![c] = ApiKeys!NoCall]
  BY <1>4, NoCallShape, CallBecomes DEF Asks
<1> QED
  BY <1>1, <1>3, <1>4

\* A request arrives.
LEMMA ArriveEffect ==
  ASSUME KeyTyped, NEW c \in Caller, NEW route \in ApiKeys!Route, NEW key \in ApiKeys!Slot,
         NEW bearer \in ApiKeys!Bearer, ApiKeys!Arrive(c, route, key, bearer)
  PROVE  Asks(c) /\ UNCHANGED <<keyClock, keyRow, keyCache, admin, everKeys, revokedAck>>
<1> DEFINE look == ApiKeys!Presented(route, key, bearer)
           tok == IF route = "data" THEN bearer ELSE ""
           q == [ApiKeys!NoCall EXCEPT !.at = "read", !.route = route, !.look = look, !.tok = tok]
<1>1. q \in KeyCall /\ q.at = "read"
  <2>1. look \in ApiKeys!Slot \cup ApiKeys!Bearer
    BY DEF ApiKeys!Presented
  <2>2. tok \in ApiKeys!Bearer
    BY DEF ApiKeys!Bearer
  <2> HIDE DEF look, tok
  <2> QED
    BY <2>1, <2>2 DEF ApiKeys!NoCall, KeyCall
<1>2. UNCHANGED <<keyClock, keyRow, keyCache, admin, everKeys, revokedAck>>
  BY DEF ApiKeys!Arrive
<1>3. \/ ApiKeys!Decide(c, q, "none") \/ ApiKeys!Decide(c, q, keyCache[q.look].kind)
      \/ q.look \in Key /\ call' = [call EXCEPT ![c] = q]
  BY DEF ApiKeys!Arrive, ApiKeys!RequestOf
<1> HIDE DEF q
<1>5. CASE q.look \in Key /\ call' = [call EXCEPT ![c] = q]
  BY <1>1, <1>2, <1>5, CallBecomes DEF Asks
<1> QED
  BY <1>2, <1>3, <1>5, DecideEffect

\* A connection asks whether its key is still valid.
LEMMA RevalidateEffect ==
  ASSUME KeyTyped, LookInv, NEW c \in Caller, ApiKeys!Revalidate(c)
  PROVE  Asks(c) /\ UNCHANGED <<keyClock, keyRow, keyCache, admin, everKeys, revokedAck>>
<1> DEFINE k == call[c].look
           q == [ApiKeys!NoCall EXCEPT !.at = "read", !.route = "session", !.look = k]
<1>1. /\ call[c].at = "session"
      /\ UNCHANGED <<keyClock, keyRow, keyCache, admin, everKeys, revokedAck>>
  BY DEF ApiKeys!Revalidate
<1>2. k \in Key
  BY <1>1 DEF LookInv
<1>3. q \in KeyCall /\ q.at = "read" /\ q.look \in Key
  BY <1>2 DEF ApiKeys!NoCall, KeyCall, ApiKeys!Slot, ApiKeys!Bearer
<1>4. \/ call' = [call EXCEPT ![c] = q] \/ call' = [call EXCEPT ![c] = call[c]]
      \/ call' = [call EXCEPT ![c] = ApiKeys!NoCall]
  BY DEF ApiKeys!Revalidate
<1>5. call[c] \in KeyCall
  BY KeyFields
<1> HIDE DEF q
<1>6. CASE call' = [call EXCEPT ![c] = q]
  BY <1>1, <1>3, <1>6, CallBecomes DEF Asks
<1>7. CASE call' = [call EXCEPT ![c] = call[c]]
  BY <1>1, <1>2, <1>5, <1>7, CallBecomes DEF Asks
<1>8. CASE call' = [call EXCEPT ![c] = ApiKeys!NoCall]
  BY <1>1, <1>8, NoCallShape, CallBecomes DEF Asks
<1> QED
  BY <1>4, <1>6, <1>7, <1>8

\* The row is read.
LEMMA ReadEffect ==
  ASSUME KeyTyped, LookInv, NEW c \in Caller, ApiKeys!ReadKeyRow(c)
  PROVE  /\ call' \in [Caller -> KeyCall] /\ \A o \in Caller \ {c} : call'[o] = call[o]
         /\ call'[c].at = "fill" /\ call'[c].look = call[c].look /\ call[c].look \in Key
         /\ call'[c].seen = ApiKeys!RowResolves(call[c].look)
         /\ UNCHANGED <<keyClock, keyRow, keyCache, admin, everKeys, revokedAck>>
<1> DEFINE q == [call[c] EXCEPT !.at = "fill", !.seen = ApiKeys!RowResolves(call[c].look)]
<1>1. /\ call[c].at = "read" /\ call' = [call EXCEPT ![c] = q]
      /\ UNCHANGED <<keyClock, keyRow, keyCache, admin, everKeys, revokedAck>>
  BY DEF ApiKeys!ReadKeyRow
<1>2. ApiKeys!RowResolves(call[c].look) \in {"none", "publishable", "secret"}
  BY DEF ApiKeys!RowResolves, ApiKeys!Kind
<1>3. call[c] \in KeyCall
  BY KeyFields
<1>4. /\ q \in KeyCall /\ q.at = "fill" /\ q.look = call[c].look
      /\ q.seen = ApiKeys!RowResolves(call[c].look)
  BY <1>2, <1>3 DEF KeyCall
<1>5. call[c].look \in Key
  BY <1>1 DEF LookInv
<1> HIDE DEF q
<1> QED
  BY <1>1, <1>4, <1>5, CallBecomes

\* The cache is filled with what was read, however old it is.
LEMMA FillEffect ==
  ASSUME KeyTyped, LookInv, NEW c \in Caller, ApiKeys!FillCache(c)
  PROVE  /\ Asks(c) /\ call[c].at = "fill" /\ call[c].look \in Key
         /\ keyCache' = [keyCache EXCEPT ![call[c].look] = [kind |-> call[c].seen, at |-> keyClock]]
         /\ UNCHANGED <<keyClock, keyRow, admin, everKeys, revokedAck>>
<1> DEFINE q == call[c]
           s == [ApiKeys!NoCall EXCEPT !.at = "session", !.look = q.look]
<1>1. /\ q.at = "fill"
      /\ keyCache' = [keyCache EXCEPT ![q.look] = [kind |-> q.seen, at |-> keyClock]]
      /\ UNCHANGED <<keyClock, keyRow, admin, everKeys, revokedAck>>
  BY DEF ApiKeys!FillCache
<1>2. q.look \in Key
  BY <1>1 DEF LookInv
<1>3. s \in KeyCall /\ s.at = "session" /\ s.look \in Key
  BY <1>2 DEF ApiKeys!NoCall, KeyCall, ApiKeys!Slot, ApiKeys!Bearer
<1>4. \/ call' = [call EXCEPT ![c] = s] \/ call' = [call EXCEPT ![c] = ApiKeys!NoCall]
      \/ ApiKeys!Decide(c, q, q.seen)
  BY DEF ApiKeys!FillCache
<1> HIDE DEF s
<1>5. Asks(c)
  <2>1. CASE ApiKeys!Decide(c, q, q.seen)
    BY <2>1, DecideEffect
  <2>2. CASE call' = [call EXCEPT ![c] = s]
    BY <1>3, <2>2, CallBecomes DEF Asks
  <2>3. CASE call' = [call EXCEPT ![c] = ApiKeys!NoCall]
    BY <2>3, NoCallShape, CallBecomes DEF Asks
  <2> QED
    BY <1>4, <2>1, <2>2, <2>3
<1> QED
  BY <1>1, <1>2, <1>5
-----------------------------------------------------------------------------
(* Every step keeps the invariant                                          *)

\* A step of a request or of a connection.
LEMMA CallKeepsKeys ==
  ASSUME KeysInv, NEW c \in Caller,
         \/ Asks(c) /\ UNCHANGED <<keyClock, keyRow, keyCache, admin, everKeys, revokedAck>>
         \/ ApiKeys!ReadKeyRow(c) \/ ApiKeys!FillCache(c)
  PROVE  KeysInv'
<1>0. KeyTyped /\ LookInv /\ FoundInv /\ RowsInv
  BY DEF KeysInv
<1>1. CASE Asks(c) /\ UNCHANGED <<keyClock, keyRow, keyCache, admin, everKeys, revokedAck>>
  <2>1. KeyTyped'
    BY <1>0, <1>1 DEF KeyTyped, Asks
  <2>2. LookInv'
    BY <1>0, <1>1 DEF LookInv, Asks
  <2>3. FoundInv'
    BY <1>0, <1>1 DEF FoundInv, Asks
  <2>4. RowsInv'
    BY <1>0, <1>1 DEF RowsInv, ApiKeys!KeysConfigured
  <2> QED
    BY <2>1, <2>2, <2>3, <2>4 DEF KeysInv
<1>2. CASE ApiKeys!ReadKeyRow(c)
  <2>0. /\ call' \in [Caller -> KeyCall] /\ \A o \in Caller \ {c} : call'[o] = call[o]
        /\ call'[c].at = "fill" /\ call'[c].look = call[c].look /\ call[c].look \in Key
        /\ call'[c].seen = ApiKeys!RowResolves(call[c].look)
        /\ UNCHANGED <<keyClock, keyRow, keyCache, admin, everKeys, revokedAck>>
    BY <1>0, <1>2, ReadEffect
  <2>1. KeyTyped'
    BY <1>0, <2>0 DEF KeyTyped
  <2>2. LookInv'
    BY <1>0, <2>0 DEF LookInv
  <2>3. FoundInv'
    BY <1>0, <2>0 DEF FoundInv, ApiKeys!RowResolves
  <2>4. RowsInv'
    BY <1>0, <2>0 DEF RowsInv, ApiKeys!KeysConfigured
  <2> QED
    BY <2>1, <2>2, <2>3, <2>4 DEF KeysInv
<1>3. CASE ApiKeys!FillCache(c)
  <2> DEFINE k == call[c].look
             e == [kind |-> call[c].seen, at |-> keyClock]
  <2>0. /\ Asks(c) /\ call[c].at = "fill" /\ k \in Key /\ keyCache' = [keyCache EXCEPT ![k] = e]
        /\ UNCHANGED <<keyClock, keyRow, admin, everKeys, revokedAck>>
    BY <1>0, <1>3, FillEffect
  <2>1. call[c].seen \in {"none", ApiKeys!Kind(k)}
    BY <1>0, <2>0 DEF FoundInv
  <2>2. e \in KeyEntry /\ e.kind \in {"none", ApiKeys!Kind(k)}
    BY <1>0, <2>1, KeyFields DEF KeyEntry, ApiKeys!Kind
  <2> HIDE DEF e
  <2>3. keyCache \in [Key -> KeyEntry]
    BY <1>0 DEF KeyTyped
  <2>4. /\ keyCache' \in [Key -> KeyEntry] /\ keyCache'[k] = e
        /\ \A o \in Key \ {k} : keyCache'[o] = keyCache[o]
    BY <2>0, <2>2, <2>3
  <2>5. KeyTyped'
    BY <1>0, <2>0, <2>4 DEF KeyTyped, Asks
  <2>6. LookInv'
    BY <1>0, <2>0 DEF LookInv, Asks
  <2>7. FoundInv'
    BY <1>0, <2>0, <2>2, <2>4 DEF FoundInv, Asks
  <2>8. RowsInv'
    BY <1>0, <2>0 DEF RowsInv, ApiKeys!KeysConfigured
  <2> QED
    BY <2>5, <2>6, <2>7, <2>8 DEF KeysInv
<1> QED
  BY <1>1, <1>2, <1>3

\* Creating or revoking a key, invalidating the cache, time.
LEMMA AdminKeepsKeys ==
  ASSUME KeysInv,
         \/ \E k \in Key : ApiKeys!CreateKey(k) \/ ApiKeys!RevokeKey(k)
         \/ ApiKeys!Invalidate \/ ApiKeys!KeyTick
  PROVE  KeysInv'
<1>0. KeyTyped /\ LookInv /\ FoundInv /\ RowsInv
  BY DEF KeysInv
<1>1. ASSUME NEW k \in Key, ApiKeys!CreateKey(k) \/ ApiKeys!RevokeKey(k)
      PROVE  KeysInv'
  <2>1. /\ \E s \in {"live", "revoked"} : keyRow' = [keyRow EXCEPT ![k] = s]
        /\ keyRow[k] = "revoked" => keyRow' = [keyRow EXCEPT ![k] = "revoked"]
        /\ admin' = k /\ everKeys' \in BOOLEAN /\ UNCHANGED <<keyClock, keyCache, call, revokedAck>>
    BY <1>0, <1>1 DEF ApiKeys!CreateKey, ApiKeys!RevokeKey, KeyTyped
  <2>2. /\ keyRow' \in [Key -> {"none", "live", "revoked"}] /\ keyRow'[k] # "none"
        /\ \A o \in revokedAck : keyRow'[o] = "revoked"
    BY <1>0, <2>1 DEF KeyTyped, RowsInv
  <2>3. KeyTyped'
    BY <1>0, <2>1, <2>2 DEF KeyTyped
  <2>4. LookInv' /\ FoundInv'
    BY <1>0, <2>1 DEF LookInv, FoundInv
  <2>5. RowsInv'
    BY <2>1, <2>2 DEF RowsInv, ApiKeys!KeysConfigured
  <2> QED
    BY <2>3, <2>4, <2>5 DEF KeysInv
<1>2. CASE ApiKeys!Invalidate
  <2>1. /\ admin # "" /\ keyCache' = [k \in Key |-> ApiKeys!Absent] /\ admin' = ""
        /\ revokedAck' = IF keyRow[admin] = "revoked" THEN revokedAck \cup {admin} ELSE revokedAck
        /\ UNCHANGED <<keyClock, keyRow, call, everKeys>>
    BY <1>2 DEF ApiKeys!Invalidate
  <2>2. ApiKeys!Absent \in KeyEntry
    BY DEF ApiKeys!Absent, KeyEntry
  <2>3. KeyTyped'
    BY <1>0, <2>1, <2>2 DEF KeyTyped
  <2>4. LookInv' /\ FoundInv'
    BY <1>0, <2>1 DEF LookInv, FoundInv
  <2>5. RowsInv'
    BY <1>0, <2>1 DEF RowsInv, ApiKeys!KeysConfigured
  <2> QED
    BY <2>3, <2>4, <2>5 DEF KeysInv
<1>3. CASE ApiKeys!KeyTick
  <2>1. /\ keyClock < MaxKeyClock /\ keyClock' = keyClock + 1
        /\ UNCHANGED <<keyRow, keyCache, call, admin, everKeys, revokedAck>>
    BY <1>3 DEF ApiKeys!KeyTick
  <2>2. MaxKeyClock \in Nat /\ keyClock \in Nat
    BY <1>0, KeyAssumption, KeyFields
  <2>3. keyClock' \in 0..MaxKeyClock
    BY <2>1, <2>2
  <2>4. KeyTyped'
    BY <1>0, <2>1, <2>3 DEF KeyTyped
  <2>5. LookInv' /\ FoundInv' /\ RowsInv'
    BY <1>0, <2>1 DEF LookInv, FoundInv, RowsInv, ApiKeys!KeysConfigured
  <2> QED
    BY <2>4, <2>5 DEF KeysInv
<1> QED
  BY <1>1, <1>2, <1>3

\* Every step keeps the invariant.
LEMMA NextKeysInv ==
  ASSUME KeysInv, [ApiKeys!KeyNext]_(ApiKeys!keyVars)
  PROVE  KeysInv'
<1>0. KeyTyped /\ LookInv
  BY DEF KeysInv
<1>1. CASE UNCHANGED ApiKeys!keyVars
  BY <1>1 DEF KeysInv, KeyTyped, LookInv, FoundInv, RowsInv, ApiKeys!KeysConfigured,
              ApiKeys!keyVars
<1>2. ASSUME NEW c \in Caller, NEW route \in ApiKeys!Route, NEW key \in ApiKeys!Slot,
             NEW bearer \in ApiKeys!Bearer, ApiKeys!Arrive(c, route, key, bearer)
      PROVE  KeysInv'
  BY <1>0, <1>2, ArriveEffect, CallKeepsKeys
<1>3. ASSUME NEW c \in Caller,
             ApiKeys!Revalidate(c) \/ ApiKeys!ReadKeyRow(c) \/ ApiKeys!FillCache(c)
      PROVE  KeysInv'
  BY <1>0, <1>3, RevalidateEffect, CallKeepsKeys
<1> QED
  BY <1>1, <1>2, <1>3, AdminKeepsKeys DEF ApiKeys!KeyNext

\* It holds at first.
LEMMA InitKeysInv ==
  ASSUME ApiKeys!KeyInit PROVE KeysInv
<1>1. ApiKeys!Absent \in KeyEntry
  BY DEF ApiKeys!Absent, KeyEntry
<1>2. MaxKeyClock \in Nat
  BY KeyAssumption
<1>3. 0 \in 0..MaxKeyClock
  BY <1>2
<1>4. KeyTyped
  BY <1>1, <1>3, NoCallShape DEF ApiKeys!KeyInit, KeyTyped
<1>5. LookInv /\ FoundInv
  BY NoCallShape DEF ApiKeys!KeyInit, LookInv, FoundInv
<1>6. RowsInv
  BY DEF ApiKeys!KeyInit, RowsInv
<1> QED
  BY <1>4, <1>5, <1>6 DEF KeysInv

-----------------------------------------------------------------------------
(* What the invariant says                                                 *)

\* Routes that turn away a caller without, or with only a publishable, credential.
LEMMA TurnedAway ==
  ASSUME ApiKeys!KeysConfigured, NEW q, NEW who \in {"error", "anonymous", "publishable"},
         \/ q.route \in {"adminKeys", "data", "resp"}
         \/ q.route = "signup" /\ who # "publishable"
  PROVE  ~ApiKeys!Permits(q, who)
<1>1. ApiKeys!Access["signup"] = "project" /\ ApiKeys!Access["adminKeys"] = "secret"
  BY DEF ApiKeys!Access
<1>2. CASE q.route = "resp"
  BY <1>2 DEF ApiKeys!Permits, ApiKeys!RespPermits
<1>3. CASE q.route = "data"
  BY <1>3 DEF ApiKeys!Permits, ApiKeys!DataPermits
<1>4. CASE q.route \in {"adminKeys", "signup"}
  <2>1. ApiKeys!Permits(q, who) = ApiKeys!AuthRoutePermits(q, who)
    BY <1>4 DEF ApiKeys!Permits
  <2>2. ~ApiKeys!AuthRoutePermits(q, who)
    BY <1>1, <1>4 DEF ApiKeys!AuthRoutePermits
  <2> QED
    BY <2>1, <2>2
<1> QED
  BY <1>2, <1>3, <1>4

\* A project that has keys turns away whoever has no valid credential.
LEMMA NobodyReenters ==
  ASSUME KeysInv
  PROVE  ApiKeys!NeverReopens
<1>1. SUFFICES ASSUME everKeys, NEW route \in ApiKeys!Route \ {"user"},
                      NEW key \in {"", "wrong"}, NEW bearer \in {"", "expired"}
               PROVE  ~ApiKeys!Admits(ApiKeys!RequestOf(route, key, bearer), "none")
  BY DEF ApiKeys!NeverReopens
<1>2. ApiKeys!KeysConfigured
  BY <1>1 DEF KeysInv, RowsInv
<1> DEFINE look == ApiKeys!Presented(route, key, bearer)
           tok == IF route = "data" THEN bearer ELSE ""
           q == [ApiKeys!NoCall EXCEPT !.at = "read", !.route = route, !.look = look, !.tok = tok]
           who == ApiKeys!ResolveCredential(look, "none", tok, ApiKeys!Surface(route))
<1>3. q.route = route /\ q.look = look /\ q.tok = tok
  BY DEF ApiKeys!NoCall
<1>4. look \in {"", "wrong", "expired"} /\ tok \in {"", "expired"}
  BY DEF ApiKeys!Presented
<1>5. look \notin Key /\ tok \notin Key
  BY <1>4, KeyAssumption
<1>6. ApiKeys!RequestOf(route, key, bearer) = q
  BY DEF ApiKeys!RequestOf
<1>7. ApiKeys!Admits(q, "none") = ApiKeys!Permits(q, who)
  BY <1>3 DEF ApiKeys!Admits
<1>8. who \in {"error", "anonymous"}
  <2> HIDE DEF look, tok
  <2> QED
    BY <1>4, <1>5 DEF ApiKeys!ResolveCredential, ApiKeys!ResolveUser
<1>9. route \in {"signup", "adminKeys", "data", "resp"}
  BY DEF ApiKeys!Route, ApiKeys!AuthRoute, ApiKeys!Access
<1> HIDE DEF look, tok, q, who
<1>10. ~ApiKeys!Permits(q, who)
  BY <1>2, <1>3, <1>8, <1>9, TurnedAway
<1> QED
  BY <1>6, <1>7, <1>10

\* A publishable key is never resolved to more.
LEMMA PublishableStays ==
  ASSUME KeysInv
  PROVE  ApiKeys!PublishableContained
<1>1. SUFFICES ASSUME NEW k \in Key \ SecretKeys, NEW route \in {"adminKeys", "resp", "data"},
                      NEW found \in ApiKeys!Resolutions(k), everKeys
               PROVE  ~ApiKeys!Admits(ApiKeys!RequestOf(route, k, ""), found)
  BY DEF ApiKeys!PublishableContained
<1>2. ApiKeys!KeysConfigured
  BY <1>1 DEF KeysInv, RowsInv
<1> DEFINE q == [ApiKeys!NoCall EXCEPT !.at = "read", !.route = route, !.look = k, !.tok = ""]
           who == ApiKeys!ResolveCredential(k, found, "", ApiKeys!Surface(route))
<1>3. q.route = route /\ q.look = k /\ q.tok = ""
  BY DEF ApiKeys!NoCall
<1>4. k \notin {"", "password", "wrong", "jwt", "expired"}
  BY KeyAssumption
<1>5. ApiKeys!RequestOf(route, k, "") = q
  BY <1>4 DEF ApiKeys!RequestOf, ApiKeys!Presented
<1>6. ApiKeys!Admits(q, found) = ApiKeys!Permits(q, who)
  BY <1>3 DEF ApiKeys!Admits
<1>7. found \in {"none", "publishable"}
  <2>1. ApiKeys!Kind(k) = "publishable"
    BY DEF ApiKeys!Kind
  <2>2. ApiKeys!Cached(k) => keyCache[k].kind \in {"none", "publishable"}
    BY <2>1 DEF KeysInv, FoundInv, ApiKeys!Cached
  <2>3. \A c \in Caller : call[c].at = "fill" /\ call[c].look = k =>
          call[c].seen \in {"none", "publishable"}
    BY <2>1 DEF KeysInv, FoundInv
  <2> QED
    BY <2>2, <2>3 DEF ApiKeys!Resolutions
<1>8. who \in {"error", "anonymous", "publishable"}
  BY <1>4, <1>7 DEF ApiKeys!ResolveCredential, ApiKeys!ResolveUser
<1> HIDE DEF q, who
<1>9. ~ApiKeys!Permits(q, who)
  BY <1>2, <1>3, <1>8, TurnedAway
<1> QED
  BY <1>5, <1>6, <1>9

\* A revoked key whose stale look-ups are used up is not granted again.
LEMMA StaysRevoked ==
  ASSUME KeysInv, [ApiKeys!KeyNext]_(ApiKeys!keyVars)
  PROVE  ApiKeys!RevocationStep
<1>0. KeyTyped /\ LookInv /\ FoundInv /\ RowsInv
  BY DEF KeysInv
<1>1. SUFFICES ASSUME NEW k \in revokedAck, ~ApiKeys!MayGrant(k)
               PROVE  ~ApiKeys!MayGrant(k)'
  BY DEF ApiKeys!RevocationStep
<1>2. k \in Key /\ keyRow[k] = "revoked"
  BY <1>0 DEF KeyTyped, RowsInv
<1> DEFINE Grants(c) == call[c].at = "fill" /\ call[c].look = k /\ call[c].seen # "none"
<1>3. ~(ApiKeys!Cached(k) /\ keyCache[k].kind # "none") /\ \A c \in Caller : ~Grants(c)
  BY <1>1 DEF ApiKeys!MayGrant
<1>4. SUFFICES ~(ApiKeys!Cached(k) /\ keyCache[k].kind # "none")' /\ \A c \in Caller : ~Grants(c)'
  BY DEF ApiKeys!MayGrant
<1>5. CASE UNCHANGED ApiKeys!keyVars
  BY <1>3, <1>5 DEF ApiKeys!keyVars, ApiKeys!Cached
<1>6. ASSUME NEW c \in Caller, Asks(c), UNCHANGED <<keyClock, keyCache>>
      PROVE  ~(ApiKeys!Cached(k) /\ keyCache[k].kind # "none")' /\ \A o \in Caller : ~Grants(o)'
  BY <1>3, <1>6 DEF Asks, ApiKeys!Cached
<1>7. ASSUME NEW c \in Caller, NEW route \in ApiKeys!Route, NEW key \in ApiKeys!Slot,
             NEW bearer \in ApiKeys!Bearer, ApiKeys!Arrive(c, route, key, bearer)
      PROVE  Asks(c) /\ UNCHANGED <<keyClock, keyCache>>
  BY <1>0, <1>7, ArriveEffect
<1>8. ASSUME NEW c \in Caller, ApiKeys!Revalidate(c)
      PROVE  Asks(c) /\ UNCHANGED <<keyClock, keyCache>>
  BY <1>0, <1>8, RevalidateEffect
<1>9. ASSUME NEW c \in Caller, ApiKeys!ReadKeyRow(c)
      PROVE  ~(ApiKeys!Cached(k) /\ keyCache[k].kind # "none")' /\ \A o \in Caller : ~Grants(o)'
  <2>1. /\ \A o \in Caller \ {c} : call'[o] = call[o]
        /\ call'[c].look = k => call'[c].seen = ApiKeys!RowResolves(k)
        /\ UNCHANGED <<keyClock, keyCache>>
    BY <1>0, <1>9, ReadEffect
  <2>2. ApiKeys!RowResolves(k) = "none"
    BY <1>2 DEF ApiKeys!RowResolves
  <2> QED
    BY <1>3, <2>1, <2>2 DEF ApiKeys!Cached
<1>10. ASSUME NEW c \in Caller, ApiKeys!FillCache(c)
       PROVE  ~(ApiKeys!Cached(k) /\ keyCache[k].kind # "none")' /\ \A o \in Caller : ~Grants(o)'
  <2> DEFINE e == [kind |-> call[c].seen, at |-> keyClock]
  <2>1. /\ Asks(c) /\ call[c].at = "fill" /\ call[c].look \in Key
        /\ keyCache' = [keyCache EXCEPT ![call[c].look] = e] /\ UNCHANGED keyClock
    BY <1>0, <1>10, FillEffect
  <2>2. call[c].look = k => e.kind = "none"
    BY <1>3, <2>1
  <2> HIDE DEF e
  <2>3. keyCache \in [Key -> KeyEntry]
    BY <1>0 DEF KeyTyped
  <2>4. IF call[c].look = k THEN keyCache'[k] = e ELSE keyCache'[k] = keyCache[k]
    BY <1>2, <2>1, <2>3
  <2>5. ~(ApiKeys!Cached(k) /\ keyCache[k].kind # "none")'
    BY <1>3, <2>1, <2>2, <2>4 DEF ApiKeys!Cached
  <2>6. \A o \in Caller : ~Grants(o)'
    BY <1>3, <2>1 DEF Asks
  <2> QED
    BY <2>5, <2>6
<1>11. CASE (\E o \in Key : ApiKeys!CreateKey(o) \/ ApiKeys!RevokeKey(o))
  BY <1>3, <1>11 DEF ApiKeys!CreateKey, ApiKeys!RevokeKey, ApiKeys!Cached
<1>12. CASE ApiKeys!Invalidate
  BY <1>2, <1>3, <1>12 DEF ApiKeys!Invalidate, ApiKeys!Cached
<1>13. CASE ApiKeys!KeyTick
  <2>1. keyClock' = keyClock + 1 /\ UNCHANGED <<keyCache, call>>
    BY <1>13 DEF ApiKeys!KeyTick
  <2>2. keyClock \in Nat /\ keyCache[k].at \in Nat /\ CacheTtl \in Nat
    BY <1>0, <1>2, KeyFields, KeyAssumption
  <2>3. keyClock' - keyCache[k].at < CacheTtl => keyClock - keyCache[k].at < CacheTtl
    BY <2>1, <2>2
  <2> QED
    BY <1>3, <2>1, <2>3 DEF ApiKeys!Cached
<1> QED
  BY <1>5, <1>6, <1>7, <1>8, <1>9, <1>10, <1>11, <1>12, <1>13 DEF ApiKeys!KeyNext

-----------------------------------------------------------------------------
(* Theorems about project keys                                             *)

\* While keys run, a step of the suite is one of theirs.
LEMMA KeysStep ==
  ASSUME [AccessNext]_accessVars, part = "keys" \/ part' = "keys"
  PROVE  part' = part /\ [ApiKeys!KeyNext]_(ApiKeys!keyVars)
  BY DEF AccessNext, accessVars, keysVars, ApiKeys!keyVars

\* Rows, cache and look-ups of project keys fit together in every behaviour
\* (auth.rs: lookup_api_key_hash, store_cached_api_key, admin_revoke_key).
THEOREM KeyInvariant == AccessSpec => [](part = "keys" => KeysInv)
<1>1. AccessInit => (part = "keys" => KeysInv)
  BY InitKeysInv DEF AccessInit
<1>2. (part = "keys" => KeysInv) /\ [AccessNext]_accessVars => (part = "keys" => KeysInv)'
  BY KeysStep, NextKeysInv
<1> QED
  BY <1>1, <1>2, PTL DEF AccessSpec

\* API keys (auth.rs: lookup_api_key_hash, admin_revoke_key): after an acknowledged
\* revocation, once the look-ups that had read the row are over, nothing brings the
\* key back; an engine that had a key never serves anonymous callers again; a
\* publishable key alone reaches neither administration, RESP nor data.
THEOREM ApiKeysAlwaysSound == AccessSpec => ApiKeysSound
<1>1. (part = "keys" => KeysInv) =>
        (part = "keys" => ApiKeys!NeverReopens /\ ApiKeys!PublishableContained)
  BY NobodyReenters, PublishableStays
<1>2. (part = "keys" => KeysInv) /\ [AccessNext]_accessVars =>
        [part = "keys" => ApiKeys!RevocationStep]_accessVars
  BY KeysStep, StaysRevoked
<1> QED
  BY <1>1, <1>2, KeyInvariant, PTL DEF AccessSpec, ApiKeysSound
=============================================================================
