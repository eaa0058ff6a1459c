---------------------------- MODULE AuthAccounts ----------------------------
(***************************************************************************)
(* Accounts: auth.users, auth.identities and auth.flow_tokens, and the     *)
(* requests that create, link, change and delete them (src/src/auth.rs).   *)
(* Each table statement is atomic and is refused when it breaks a UNIQUE   *)
(* column (users.id, users.email, identities.provider_id); a request is    *)
(* several of them, and no foreign key ties the tables together.  Any      *)
(* statement may fail (the journal refuses it, once or until a restart),   *)
(* those of a clean-up too, and their errors are dropped.                  *)
(***************************************************************************)
EXTENDS Integers, FiniteSets

CONSTANTS
  UserId, Email, Subject,   \* user ids, addresses, accounts at an OAuth provider
  Actor,                    \* concurrent requests
  Flow,                     \* flow tokens, each handed out at most once
  MaxFails,                 \* bound: statements or mails that fail
  MaxStarts                 \* bound: requests

VARIABLES
  settings,  \* auth.settings: confirm (email_confirmation_required), oauth (provider enabled)
  users,     \* users[u]: NoUser or [email, confirmed]
  idents,    \* rows of auth.identities: [pid, uid]
  flows,     \* flows[f]: NoFlow or [kind, uid, consumed]
  state,     \* OAuth states that were handed out and not taken
  sessions,  \* user ids for which a session row was inserted
  act,       \* requests in progress
  fails, starts,
  uses,      \* uses[f]: how often flow token f was accepted (ghost)
  refused,   \* ids of accounts whose creation was answered with an error (ghost)
  ignored,   \* ids of which a clean-up statement failed unnoticed (ghost)
  overlap    \* a request that deletes rows ran beside another (ghost)

acctVars == <<settings, users, idents, flows, state, sessions, act, fails, starts, uses, refused, ignored, overlap>>

NoUser == [email |-> "", confirmed |-> FALSE]
Row(e, c) == [email |-> e, confirmed |-> c]
Exists(u) == users[u] # NoUser
NoFlow == [kind |-> "", uid |-> "", consumed |-> FALSE]
Done == [op |-> "", at |-> "idle", uid |-> "", email |-> "", pid |-> "", made |-> FALSE,
         conf |-> FALSE, shared |-> FALSE]

AcctInit ==
  /\ settings \in [confirm : BOOLEAN, oauth : {TRUE}]
  /\ users = [u \in UserId |-> NoUser] /\ idents = {} /\ sessions = {}
  /\ flows = [f \in Flow |-> NoFlow] /\ uses = [f \in Flow |-> 0]
  /\ state = {} /\ act = [a \in Actor |-> Done] /\ fails = 0 /\ starts = 0 /\ refused = {}
  /\ ignored = {} /\ overlap = FALSE

\* A request begins; conf is the setting it read; shared (ghost) says
\* that another one ran beside it.
Start(a, rec) ==
  LET busy == {b \in Actor : act[b] # Done} IN
  /\ a \notin busy /\ starts < MaxStarts
  /\ starts' = starts + 1
  /\ act' = [b \in Actor |->
       IF b = a THEN IF rec = Done THEN Done ELSE [rec EXCEPT !.shared = busy # {}]
       ELSE IF b \in busy THEN [act[b] EXCEPT !.shared = @ \/ rec # Done] ELSE act[b]]
Goes(a, at) == act' = [act EXCEPT ![a].at = at]
Ends(a) == act' = [act EXCEPT ![a] = Done]
Deletes(a) == overlap' = (overlap \/ act[a].shared)

\* A statement or the mail fails, within the bound.
Fail == fails < MaxFails /\ fails' = fails + 1

ByEmail(e) == {u \in UserId : Exists(u) /\ users[u].email = e}

\* Whether an INSERT into auth.users is accepted (an anonymous user has no address).
UserInsertable(u, e) == ~Exists(u) /\ (e = "anon" \/ ByEmail(e) = {})
IdentInsertable(p) == \A i \in idents : i.pid # p

-----------------------------------------------------------------------------
(* Creating an account: signup, admin_create_user, signin_anonymous        *)

\* The address is looked up first; the INSERT decides.
Signup(a, e) ==
  /\ ByEmail(e) = {}
  /\ Start(a, [Done EXCEPT !.op = "signup", !.at = "user", !.email = e, !.pid = e,
                           !.conf = settings.confirm])
  /\ UNCHANGED <<settings, users, idents, flows, state, sessions, fails, uses, refused, ignored, overlap>>

\* admin_create_user takes the id from the request.
AdminCreate(a, u, e) ==
  /\ ByEmail(e) = {}
  /\ Start(a, [Done EXCEPT !.op = "admin", !.at = "user", !.uid = u, !.email = e, !.pid = e])
  /\ UNCHANGED <<settings, users, idents, flows, state, sessions, fails, uses, refused, ignored, overlap>>

Anonymous(a) ==
  /\ Start(a, [Done EXCEPT !.op = "anon", !.at = "user", !.email = "anon"])
  /\ UNCHANGED <<settings, users, idents, flows, state, sessions, fails, uses, refused, ignored, overlap>>

\* A fresh id for everyone but the administrator.
InsertUser(a, u) ==
  LET q == act[a] IN
  /\ q.at = "user" /\ (q.uid = "" \/ q.uid = u)
  /\ q.uid = "" => ~Exists(u) /\ u \notin sessions /\ \A b \in Actor : act[b].uid # u
                   /\ \A i \in idents : i.uid # u
  /\ \/ /\ UserInsertable(u, q.email)
        /\ users' = [users EXCEPT ![u] =
             Row(q.email, q.op \in {"admin", "oauth"} \/ (q.op = "signup" /\ ~q.conf))]
        /\ act' = [act EXCEPT ![a].uid = u, ![a].made = TRUE,
                              ![a].at = IF q.op = "anon" THEN "session" ELSE "identity"]
        /\ refused' = refused \ {u} /\ UNCHANGED fails
     \/ /\ ~UserInsertable(u, q.email) \/ fails < MaxFails
        /\ fails' = IF UserInsertable(u, q.email) THEN fails + 1 ELSE fails
        /\ Ends(a) /\ UNCHANGED <<users, refused>>
  /\ UNCHANGED <<settings, idents, flows, state, sessions, starts, uses, ignored, overlap>>

InsertIdentity(a) ==
  LET q == act[a] IN
  /\ q.at = "identity"
  /\ \/ /\ IdentInsertable(q.pid)
        /\ idents' = idents \cup {[pid |-> q.pid, uid |-> q.uid]}
        /\ CASE q.op = "admin" -> Ends(a)
             [] q.op = "signup" /\ q.conf -> Goes(a, "mail")
             [] q.op = "oauth" -> Goes(a, "code")
             [] OTHER -> Goes(a, "session")
        /\ UNCHANGED fails
     \/ /\ ~IdentInsertable(q.pid) \/ fails < MaxFails
        /\ fails' = IF IdentInsertable(q.pid) THEN fails + 1 ELSE fails
        /\ IF q.made THEN Goes(a, "undoUser") ELSE Ends(a)
        /\ UNCHANGED idents
  /\ UNCHANGED <<settings, users, flows, state, sessions, starts, uses, refused, ignored, overlap>>

-----------------------------------------------------------------------------
(* Sessions and flow tokens                                                *)

\* issue_session_response; when it fails, signup takes back what it made, and
\* signin_anonymous its user.
IssueFor(a) ==
  LET q == act[a] IN
  /\ q.at = "session"
  /\ \/ /\ sessions' = sessions \cup {q.uid}
        /\ Ends(a) /\ UNCHANGED fails
     \/ /\ Fail
        /\ CASE q.made /\ q.op = "signup" -> Goes(a, "undo")
             [] q.made /\ q.op = "anon" -> Goes(a, "undoUser")
             [] OTHER -> Ends(a)
        /\ UNCHANGED sessions
  /\ UNCHANGED <<settings, users, idents, flows, state, starts, uses, refused, ignored, overlap>>

\* The clean-up of signup: the identities, then the user.  An error of either
\* statement is dropped.
UndoIdentities(a) ==
  /\ act[a].at = "undo" /\ Goes(a, "undoUser")
  /\ \/ /\ idents' = {i \in idents : i.uid # act[a].uid} /\ Deletes(a)
        /\ UNCHANGED ignored
     \/ ignored' = ignored \cup {act[a].uid} /\ UNCHANGED <<idents, overlap>>
  /\ UNCHANGED <<settings, users, flows, state, sessions, fails, starts, uses, refused>>

\* Variant: the user is left.
KeepsUser(a) ==
  /\ act[a].at = "undoUser" /\ Ends(a) /\ refused' = refused \cup {act[a].uid}
  /\ UNCHANGED <<settings, users, idents, flows, state, sessions, fails, starts, uses, ignored, overlap>>

\* The user this request made, also when its identity was refused (signup,
\* admin_create_user, oauth_resolve_user) or it got no session (signin_anonymous).
UndoUser(a) ==
  /\ act[a].at = "undoUser" /\ Ends(a)
  /\ refused' = refused \cup {act[a].uid}
  /\ \/ /\ users' = [users EXCEPT ![act[a].uid] = NoUser] /\ Deletes(a)
        /\ UNCHANGED ignored
     \/ ignored' = ignored \cup {act[a].uid} /\ UNCHANGED <<users, overlap>>
  /\ UNCHANGED <<settings, idents, flows, state, sessions, fails, starts, uses>>

\* create_email_flow_token: the token row, then the mail.  Without the mail the
\* row is deleted again, unless that fails too or the row could not be completed;
\* signup takes the account back.
MailToken(a, f) ==
  LET q == act[a]
      stored == [flows EXCEPT ![f] = [kind |-> q.op, uid |-> q.uid, consumed |-> FALSE]]
  IN
  /\ q.at = "mail" /\ flows[f] = NoFlow /\ uses[f] = 0
  /\ \/ /\ flows' = stored
        /\ Ends(a) /\ UNCHANGED fails
     \/ /\ flows' \in {flows, stored} /\ Fail
        /\ IF q.op = "signup" THEN Goes(a, "undo") ELSE Ends(a)
  /\ UNCHANGED <<settings, users, idents, state, sessions, starts, uses, refused, ignored, overlap>>

\* recover: a token for the account of that address, if there is one.
Recover(a, e) ==
  /\ \E u \in ByEmail(e) : Start(a, [Done EXCEPT !.op = "recovery", !.at = "mail", !.uid = u])
  /\ UNCHANGED <<settings, users, idents, flows, state, sessions, fails, uses, refused, ignored, overlap>>

\* Variant: the token is not marked.
AcceptsAgain(f, kind) == flows[f].kind = kind

\* The predicate of the UPDATE in consume_flow_token, under its lock.
Accepts(f, kind) == flows[f].kind = kind /\ ~flows[f].consumed

\* consume_flow_token, called by verify_otp and by authorization_code_grant.
ConsumeToken(a, f, kind) ==
  /\ Accepts(f, kind)
  /\ flows' = [flows EXCEPT ![f].consumed = TRUE]
  /\ uses' = [uses EXCEPT ![f] = @ + 1]
  /\ Start(a, [Done EXCEPT !.op = kind, !.at = "verified", !.uid = flows[f].uid])
  /\ UNCHANGED <<settings, users, idents, state, sessions, fails, refused, ignored, overlap>>

\* verify_otp: the user is looked up, a signup token confirms the address.
Verified(a) ==
  LET u == act[a].uid IN
  /\ act[a].at = "verified"
  /\ IF Exists(u)
     THEN /\ users' = IF act[a].op = "signup" THEN [users EXCEPT ![u].confirmed = TRUE] ELSE users
          /\ Goes(a, "session")
     ELSE Ends(a) /\ UNCHANGED users
  /\ UNCHANGED <<settings, idents, flows, state, sessions, fails, starts, uses, refused, ignored, overlap>>

\* password_grant: the row is read once; confirmation is required if configured.
PasswordGrant(a, e) ==
  /\ \E u \in ByEmail(e) :
       /\ settings.confirm => users[u].confirmed
       /\ Start(a, [Done EXCEPT !.op = "password", !.at = "session", !.uid = u])
  /\ UNCHANGED <<settings, users, idents, flows, state, sessions, fails, uses, refused, ignored, overlap>>

-----------------------------------------------------------------------------
(* OAuth                                                                   *)

\* oauth_authorize stores the state under a deadline.
Authorize(p) ==
  /\ settings.oauth /\ p \notin state
  /\ state' = state \cup {p}
  /\ UNCHANGED <<settings, users, idents, flows, sessions, act, fails, starts, uses, refused, ignored, overlap>>

\* oauth_callback takes the state (take_oauth_state, read and deleted under the
\* journal gate) before it asks the provider; oauth_resolve_user finds the
\* identity or, by verified address, the account.
Callback(a, p, e) ==
  LET known == {i \in idents : i.pid = p}
      rec == [Done EXCEPT !.op = "oauth", !.email = e, !.pid = p]
  IN
  /\ p \in state
  /\ state' = state \ {p}
  /\ Start(a, IF ~settings.oauth THEN Done
              ELSE IF known # {}
              THEN LET i == CHOOSE i \in known : TRUE
                   IN  IF Exists(i.uid) THEN [rec EXCEPT !.at = "code", !.uid = i.uid] ELSE Done
              ELSE IF ByEmail(e) # {}
                   THEN [rec EXCEPT !.at = "identity", !.uid = CHOOSE u \in ByEmail(e) : TRUE]
                   ELSE [rec EXCEPT !.at = "user"])
  /\ UNCHANGED <<settings, users, idents, flows, sessions, fails, uses, refused, ignored, overlap>>

\* The browser gets a code (create_flow_token) or, in the implicit flow, a session.
FinishOauth(a) ==
  /\ act[a].at = "code"
  /\ \/ /\ Goes(a, "session") /\ UNCHANGED flows
     \/ \E f \in Flow :
          /\ flows[f] = NoFlow /\ uses[f] = 0
          /\ flows' = [flows EXCEPT ![f] = [kind |-> "oauth_code", uid |-> act[a].uid, consumed |-> FALSE]]
          /\ Ends(a)
  /\ UNCHANGED <<settings, users, idents, state, sessions, fails, starts, uses, refused, ignored, overlap>>

-----------------------------------------------------------------------------
(* Changing and deleting an account                                        *)

\* update_user and admin_update_user: the address is looked up, the UPDATE is
\* refused when another row has it by then (one that matches no row is not).
UpdateEmail(a, u, e) ==
  /\ Exists(u) /\ ByEmail(e) \subseteq {u}
  /\ \E op \in {"self", "adminUpdate"} : Start(a, [Done EXCEPT !.op = op, !.at = "update", !.uid = u, !.email = e])
  /\ UNCHANGED <<settings, users, idents, flows, state, sessions, fails, uses, refused, ignored, overlap>>

UpdateUser(a) ==
  LET q == act[a] IN
  /\ q.at = "update"
  /\ IF Exists(q.uid) /\ ByEmail(q.email) \subseteq {q.uid}
     THEN users' = [users EXCEPT ![q.uid].email = q.email]
     ELSE UNCHANGED users
  /\ IF q.op = "adminUpdate" /\ (~Exists(q.uid) \/ ByEmail(q.email) \subseteq {q.uid})
     THEN Goes(a, "updateIdentity") ELSE Ends(a)
  /\ UNCHANGED <<settings, idents, flows, state, sessions, fails, starts, uses, refused, ignored, overlap>>

\* admin_update_user also renames the identities of the user, all of them in one
\* statement, whose error is ignored.
UpdateIdentity(a) ==
  LET q == act[a]
      own == {i \in idents : i.uid = q.uid}
      free == \A i \in idents \ own : i.pid # q.email
  IN
  /\ q.at = "updateIdentity"
  /\ idents' = IF Cardinality(own) = 1 /\ free
               THEN (idents \ own) \cup {[pid |-> q.email, uid |-> q.uid]} ELSE idents
  /\ Ends(a)
  /\ UNCHANGED <<settings, users, flows, state, sessions, fails, starts, uses, refused, ignored, overlap>>

\* admin_delete_user: identities, sessions, user.
AdminDelete(a, u) ==
  /\ Exists(u)
  /\ Start(a, [Done EXCEPT !.op = "delete", !.at = "delIdentities", !.uid = u])
  /\ UNCHANGED <<settings, users, idents, flows, state, sessions, fails, uses, refused, ignored, overlap>>

DeleteStep(a) ==
  LET q == act[a] IN
  /\ q.op = "delete" /\ Deletes(a)
  /\ \/ /\ q.at = "delIdentities" /\ Goes(a, "delSessions")
        /\ idents' = {i \in idents : i.uid # q.uid} /\ UNCHANGED <<users, sessions>>
     \/ /\ q.at = "delSessions" /\ Goes(a, "delUser")
        /\ sessions' = sessions \ {q.uid} /\ UNCHANGED <<users, idents>>
     \/ /\ q.at = "delUser" /\ Ends(a)
        /\ users' = [users EXCEPT ![q.uid] = NoUser] /\ UNCHANGED <<idents, sessions>>
  /\ UNCHANGED <<settings, flows, state, fails, starts, uses, refused, ignored>>

\* A statement whose error ends the request, or the second of admin_update_user.
StatementFails(a) ==
  /\ act[a].at \in {"verified", "code", "update", "updateIdentity", "delIdentities", "delSessions", "delUser"}
  /\ Fail /\ Ends(a)
  /\ UNCHANGED <<settings, users, idents, flows, state, sessions, starts, uses, refused, ignored, overlap>>

\* The process ends and starts again, which is also what heals a poisoned journal:
\* the rows are there, the requests are gone.
Restart ==
  /\ \E a \in Actor : act[a] # Done
  /\ act' = [a \in Actor |-> Done]
  /\ UNCHANGED <<settings, users, idents, flows, state, sessions, fails, starts, uses, refused, ignored, overlap>>

\* admin_update_settings and admin_upsert_provider write one setting after the
\* other; these two steer the requests.
UpdateSettings(new) ==
  /\ starts < MaxStarts /\ new # settings
  /\ settings' = new /\ starts' = starts + 1
  /\ UNCHANGED <<users, idents, flows, state, sessions, act, fails, uses, refused, ignored, overlap>>

UpsertProvider(enabled) == UpdateSettings([settings EXCEPT !.oauth = enabled])
RequireConfirmation(yes) == UpdateSettings([settings EXCEPT !.confirm = yes])

AcctNext ==
  \/ \E a \in Actor :
       \/ \E e \in Email : Signup(a, e) \/ Recover(a, e) \/ PasswordGrant(a, e)
       \/ \E e \in Email, u \in UserId : AdminCreate(a, u, e) \/ UpdateEmail(a, u, e)
       \/ \E e \in Email, p \in Subject : Callback(a, p, e)
       \/ \E u \in UserId : InsertUser(a, u) \/ AdminDelete(a, u)
       \/ \E f \in Flow : MailToken(a, f) \/ \E k \in {"signup", "recovery", "oauth_code"} : ConsumeToken(a, f, k)
       \/ Anonymous(a) \/ InsertIdentity(a) \/ IssueFor(a) \/ UndoIdentities(a) \/ UndoUser(a)
       \/ Verified(a) \/ FinishOauth(a) \/ UpdateUser(a) \/ UpdateIdentity(a) \/ DeleteStep(a)
       \/ StatementFails(a)
  \/ Restart
  \/ \E p \in Subject : Authorize(p)
  \/ \E b \in BOOLEAN : UpsertProvider(b) \/ RequireConfirmation(b)

AcctSpec == AcctInit /\ [][AcctNext]_acctVars

-----------------------------------------------------------------------------
(* Properties                                                              *)

\* The variables have their types.
AcctTypeOK ==
  /\ \A u \in UserId : users[u].email \in Email \cup {"", "anon"}
  /\ \A i \in idents : i.pid \in Email \cup Subject /\ i.uid \in UserId
  /\ fails \in 0..MaxFails

\* However sign-ups, OAuth sign-ins and changes of address overlap, an address and a
\* provider identity belong to at most one account: the look-up that precedes the
\* INSERT is not what decides (signup, oauth_resolve_user, admin_update_user).
OneAccountPerEmail ==
  /\ \A u, v \in UserId : Exists(u) /\ Exists(v) /\ users[u].email = users[v].email
                            /\ users[u].email # "anon" => u = v
  /\ \A i, j \in idents : i.pid = j.pid => i = j

\* A mailed token or an authorization code starts at most one session.
FlowTokenOnce == \A f \in Flow : uses[f] <= 1

\* Whatever fails and whenever the process restarts, requests that do not overlap a
\* deletion leave no identity without its account, and nothing of an account whose
\* creation was answered with an error: what was done before the failing statement
\* was taken back (signup, oauth_resolve_user).  The exception is an account of which
\* a clean-up statement failed itself: its error is dropped and the row stays.
NoOrphans ==
  ~overlap /\ (\A a \in Actor : act[a] = Done) =>
    /\ \A i \in idents : Exists(i.uid) \/ i.uid \in ignored
    /\ \A u \in refused : Exists(u) => u \in ignored
=============================================================================
