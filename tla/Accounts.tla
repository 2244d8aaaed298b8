------------------------------ MODULE Accounts ------------------------------
(***************************************************************************)
(* Owners, their Businesses, sessions and password-reset tokens, as requests *)
(* of several browsers interleave on them.  A User owns exactly one Business, *)
(* so `user` and `business` share one identity.  A request is two steps, what *)
(* its SELECTs saw and the commit; SELECT ... FOR UPDATE makes the first of   *)
(* them exclusive.  One that replaces a password has a step between the two:  *)
(* its UPDATE sessions, which sees the rows committed before it and no later  *)
(* one.  A request that fails, crashes or loses a deadlock leaves nothing     *)
(* behind (Abandon).                                                          *)
(*                                                                         *)
(* A replacement is told apart by when its UPDATE sessions ran: `password` is *)
(* its number, 0 the password of sign-up.  History: `begun`, the number of    *)
(* the last UPDATE sessions; `ended`, the latest that was committed; and a    *)
(* session's `born`, `begun` when its row was committed.                      *)
(***************************************************************************)
EXTENDS Naturals, FiniteSets

CONSTANTS
  Users,      \* identities available to users rows
  Emails,     \* what users sign up with
  Sessions,   \* identities available to sessions rows
  Tokens,     \* identities available to password_reset_tokens rows
  Requests,   \* HTTP requests served at a time
  NoRow,      \* no row, or no request
  IdleTTL, AbsoluteTTL, ResetTTL,  \* SESSION_IDLE_TTL and its companions
  Days,       \* the last instant of the clock
  MaxVersion, \* writes of the settings and UPDATEs that end sessions, each
  Reads       \* what a request may be, among Kinds

Kinds == {"read", "logout", "change", "settings", "delete"}

ASSUME AccountsAssumption ==
  /\ {IdleTTL, AbsoluteTTL, ResetTTL} \subseteq Nat \ {0} /\ IdleTTL <= AbsoluteTTL
  /\ {Days, MaxVersion} \subseteq Nat
  /\ Reads \subseteq Kinds

VARIABLES
  user,      \* users, with the password its hash was made of
  business,  \* businesses: version, the optimistic lock
  session,   \* sessions
  token,     \* password_reset_tokens
  request,   \* what each request in flight has read
  outdated,  \* Users whose hash was made with weaker parameters
  now        \* the clock

vars == <<user, business, session, token, request, outdated, now>>

MinOf(a, b) == IF a <= b THEN a ELSE b

Exists(u) == user[u] # NoRow
Idle(r) == request[r] = NoRow
Doing(r, op) == request[r] # NoRow /\ request[r].op = op

(* A new row's id: none that a request in flight still holds.               *)
Free(S, row) ==
  {x \in S : /\ row[x] = NoRow
             /\ \A r \in Requests : ~Idle(r) => \A f \in DOMAIN request[r] : request[r][f] # x}

(* The fault of a WHERE clause without the owner.                           *)
OfAnyone(S, row, u) == {x \in S : row[x] # NoRow}

(* The rows of u.                                                           *)
Owned(S, row, u) == {x \in S : row[x] # NoRow /\ row[x].user = u}

(* sessions.revoked_at IS NULL and the deadline lies ahead.                 *)
Live(s) == session[s] # NoRow /\ ~session[s].revoked /\ session[s].expires > now

Init ==
  /\ user = [u \in Users |-> NoRow]
  /\ business = [u \in Users |-> NoRow]
  /\ session = [s \in Sessions |-> NoRow]
  /\ token = [t \in Tokens |-> NoRow]
  /\ request = [r \in Requests |-> NoRow]
  /\ outdated = {}
  /\ now = 0

Begin(r, what) == Idle(r) /\ request' = [request EXCEPT ![r] = what]
Done(r) == request' = [request EXCEPT ![r] = NoRow]

(* INSERT INTO sessions for u, of whose revocations e have begun.           *)
Issued(sess, s, u, e) ==
  [sess EXCEPT ![s] = [user |-> u, created |-> now, expires |-> now + IdleTTL,
                       revoked |-> FALSE, born |-> e]]

(* The rows an UPDATE sessions WHERE user_id = u AND revoked_at IS NULL sees. *)
Unrevoked(u) == {s \in Owned(Sessions, session, u) : ~session[s].revoked}

(* revoked_at of those of them that are still u's.                          *)
Revoked(u, seen, sess) ==
  [s \in Sessions |-> IF s \in seen \cap Owned(Sessions, sess, u)
                      THEN [sess[s] EXCEPT !.revoked = TRUE] ELSE sess[s]]

(* UPDATE users SET password_hash, by the replacement of number n.          *)
Replaced(u, n) == [user EXCEPT ![u].password = n, ![u].ended = IF @ < n THEN n ELSE @]

(* An UPDATE sessions awaits each row another transaction has locked and     *)
(* then writes it all the same, so its effect is that of the commit; what    *)
(* the commit cannot add is the rows the statement did not see.  u's User    *)
(* row is flushed by the commit: two replacements may interleave.           *)
Replacing(r) == Doing(r, "change") \/ Doing(r, "confirm")

RevokeSessions(r) ==
  /\ Replacing(r) /\ request[r].number = 0
  /\ LET u == request[r].user IN
     /\ Exists(u)
     /\ user[u].begun < MaxVersion
     /\ user' = [user EXCEPT ![u].begun = @ + 1]
     /\ request' = [request EXCEPT ![r].number = user[u].begun + 1, ![r].seen = Unrevoked(u)]
  /\ UNCHANGED <<business, session, token, outdated, now>>

----------------------------------------------------------------------------
(* Sign-up: no User has this email when the request looks.                  *)
BeginSignup(r, m) ==
  /\ \A u \in Users : Exists(u) => user[u].email # m
  /\ Begin(r, [op |-> "signup", email |-> m])
  /\ UNCHANGED <<user, business, session, token, outdated, now>>

(* The fault of a users table without its unique constraint.                *)
EmailUnchecked(m) == TRUE

(* uq_users_email, as the flush meets it.                                   *)
EmailFree(m) == \A u \in Users : Exists(u) => user[u].email # m

(* One transaction: the User, the Business and the first session.           *)
CommitSignup(r, u, s) ==
  /\ Doing(r, "signup")
  /\ EmailFree(request[r].email)
  /\ u \in Free(Users, user) /\ s \in Free(Sessions, session)
  /\ user' = [user EXCEPT ![u] = [email |-> request[r].email, password |-> 0,
                             begun |-> 0, ended |-> 0]]
  /\ business' = [business EXCEPT ![u] = [version |-> 1]]
  /\ session' = Issued(session, s, u, 0)
  /\ Done(r)
  /\ UNCHANGED <<token, outdated, now>>

(* Login: the email finds a User and the password verifies.                 *)
BeginLogin(r, u) ==
  /\ Exists(u)
  /\ Begin(r, [op |-> "login", user |-> u, password |-> user[u].password,
               rehash |-> u \in outdated])
  /\ UNCHANGED <<user, business, session, token, outdated, now>>

(* A hash of weaker parameters is replaced by one of the password that was  *)
(* verified, whatever the row holds by now: User carries no optimistic lock. *)
CommitLogin(r, s) ==
  /\ Doing(r, "login")
  /\ s \in Free(Sessions, session)
  /\ LET q == request[r] IN
     /\ Exists(q.user)
     /\ user' = IF q.rehash THEN [user EXCEPT ![q.user].password = q.password] ELSE user
     /\ outdated' = IF q.rehash THEN outdated \ {q.user} ELSE outdated
     /\ session' = Issued(session, s, q.user, user[q.user].begun)
  /\ Done(r)
  /\ UNCHANGED <<business, token, now>>

(* A deployment that raises the cost of the password hash.                  *)
RaiseHashCost ==
  /\ outdated = {}
  /\ outdated' = {u \in Users : Exists(u)}
  /\ outdated' # {}
  /\ UNCHANGED <<user, business, session, token, request, now>>

----------------------------------------------------------------------------
(* get_current_session reads the row; the session is the request's from now *)
(* on, whatever becomes of it.                                              *)
Authenticate(r, s) ==
  /\ Live(s)
  /\ Begin(r, [op |-> "authenticated", session |-> s])
  /\ UNCHANGED <<user, business, session, token, outdated, now>>

(* The fault of a refresh that writes the whole row back as it was read.    *)
RefreshedWhole(s) ==
  [session EXCEPT ![s].expires = MinOf(now + IdleTTL, session[s].created + AbsoluteTTL),
                  ![s].revoked = FALSE]

(* The fault of sliding the idle deadline without its cap.                  *)
RefreshedForever(s) == [session EXCEPT ![s].expires = now + IdleTTL]

(* UPDATE sessions SET last_seen_at, expires_at: the idle deadline slides,  *)
(* never past the absolute one.                                             *)
Refreshed(s) ==
  [session EXCEPT ![s].expires = MinOf(now + IdleTTL, session[s].created + AbsoluteTTL)]

(* The refresh commits, and the handler reads the User and the Business.    *)
(* change and delete go on only if the current password verifies; settings  *)
(* only if the version its form was loaded with is the row's.               *)
Proceed(r, op, form) ==
  /\ Doing(r, "authenticated")
  /\ LET s == request[r].session IN
     /\ session[s] # NoRow
     /\ session' = Refreshed(s)
     /\ LET u == session[s].user IN
        /\ op = "settings" => form = business[u].version
        /\ request' = [request EXCEPT ![r] =
             CASE op = "read" -> NoRow
               [] op = "logout" -> [op |-> op, session |-> s]
               [] op = "change" -> [op |-> op, user |-> u, number |-> 0, seen |-> {}]
               [] OTHER -> [op |-> op, user |-> u, version |-> business[u].version]]
  /\ UNCHANGED <<user, business, token, outdated, now>>

CommitLogout(r) ==
  /\ Doing(r, "logout")
  /\ session[request[r].session] # NoRow
  /\ session' = [session EXCEPT ![request[r].session].revoked = TRUE]
  /\ Done(r)
  /\ UNCHANGED <<user, business, token, outdated, now>>

(* The sessions its UPDATE saw end, and the browser is given a new one.      *)
CommitChange(r, s) ==
  /\ Doing(r, "change") /\ request[r].number # 0
  /\ s \in Free(Sessions, session)
  /\ LET q == request[r] IN
     /\ Exists(q.user)
     /\ user' = Replaced(q.user, q.number)
     /\ session' = Issued(Revoked(q.user, q.seen, session), s, q.user, user[q.user].begun)
     /\ outdated' = outdated \ {q.user}
  /\ Done(r)
  /\ UNCHANGED <<business, token, now>>

(* The fault of an UPDATE or DELETE that names the row by its id alone.     *)
AnyVersion(u, version) == business[u] # NoRow

(* ... WHERE id = ? AND version = ? matches a row.                          *)
VersionMatches(u, version) == business[u] # NoRow /\ business[u].version = version

CommitSettings(r) ==
  /\ Doing(r, "settings")
  /\ LET q == request[r] IN
     /\ VersionMatches(q.user, q.version)
     /\ business[q.user].version < MaxVersion
     /\ business' = [business EXCEPT ![q.user].version = @ + 1]
  /\ Done(r)
  /\ UNCHANGED <<user, session, token, outdated, now>>

(* DELETE of the Business, then of the User: sessions and tokens cascade.   *)
(* The cascade waits for a token some confirmation has locked.              *)
CommitDelete(r) ==
  /\ Doing(r, "delete")
  /\ LET u == request[r].user IN
     /\ VersionMatches(u, request[r].version)
     /\ \A q \in Requests : Doing(q, "confirm") => token[request[q].token].user # u
     /\ user' = [user EXCEPT ![u] = NoRow]
     /\ business' = [business EXCEPT ![u] = NoRow]
     /\ session' = [s \in Sessions |-> IF s \in Owned(Sessions, session, u) THEN NoRow ELSE session[s]]
     /\ token' = [t \in Tokens |-> IF t \in Owned(Tokens, token, u) THEN NoRow ELSE token[t]]
     /\ outdated' = outdated \ {u}
  /\ Done(r)
  /\ UNCHANGED now

----------------------------------------------------------------------------
(* Earlier tokens of the User stay good.                                    *)
RequestReset(u, t) ==
  /\ Exists(u)
  /\ t \in Free(Tokens, token)
  /\ token' = [token EXCEPT ![t] = [user |-> u, expires |-> now + ResetTTL, used |-> 0]]
  /\ UNCHANGED <<user, business, session, request, outdated, now>>

(* The fault of a SELECT without FOR UPDATE.                                *)
Unlocked(t) == TRUE

(* No other transaction holds the row lock of t.                            *)
Lockable(t) == \A q \in Requests : Doing(q, "confirm") => request[q].token # t

BeginConfirm(r, t) ==
  /\ token[t] # NoRow
  /\ Lockable(t)
  /\ token[t].used = 0 /\ token[t].expires > now
  /\ Begin(r, [op |-> "confirm", token |-> t, user |-> token[t].user,
               number |-> 0, seen |-> {}])
  /\ UNCHANGED <<user, business, session, token, outdated, now>>

(* The new password, the token spent, the sessions seen ended, none opened. *)
CommitConfirm(r) ==
  /\ Doing(r, "confirm") /\ request[r].number # 0
  /\ LET q == request[r] IN
     /\ user' = Replaced(q.user, q.number)
     /\ token' = [token EXCEPT ![q.token].used = @ + 1]
     /\ session' = Revoked(q.user, q.seen, session)
     /\ outdated' = outdated \ {q.user}
  /\ Done(r)
  /\ UNCHANGED <<business, now>>

Abandon(r) ==
  /\ ~Idle(r)
  /\ Done(r)
  /\ UNCHANGED <<user, business, session, token, outdated, now>>

Tick ==
  /\ now < Days
  /\ now' = now + 1
  /\ UNCHANGED <<user, business, session, token, request, outdated>>

Next ==
  \/ \E r \in Requests :
       \/ \E m \in Emails : BeginSignup(r, m)
       \/ \E u \in Users, s \in Sessions : CommitSignup(r, u, s)
       \/ \E u \in Users : BeginLogin(r, u)
       \/ \E s \in Sessions : CommitLogin(r, s) \/ Authenticate(r, s)
       \/ \E op \in Reads, form \in 1..MaxVersion : Proceed(r, op, form)
       \/ CommitLogout(r) \/ CommitSettings(r) \/ CommitDelete(r)
       \/ \E s \in Sessions : CommitChange(r, s)
       \/ \E t \in Tokens : BeginConfirm(r, t)
       \/ RevokeSessions(r) \/ CommitConfirm(r) \/ Abandon(r)
  \/ \E u \in Users, t \in Tokens : RequestReset(u, t)
  \/ RaiseHashCost \/ Tick

Spec == Init /\ [][Next]_vars

----------------------------------------------------------------------------
UserRow == [email : Emails, password : Nat, begun : Nat, ended : Nat]
SessionRow == [user : Users, created : Nat, expires : Nat, revoked : BOOLEAN, born : Nat]
TokenRow == [user : Users, expires : Nat, used : Nat]
InFlight ==
  [op : {"signup"}, email : Emails]
    \cup [op : {"login"}, user : Users, password : Nat, rehash : BOOLEAN]
    \cup [op : {"authenticated", "logout"}, session : Sessions]
    \cup [op : {"change"}, user : Users, number : Nat, seen : SUBSET Sessions]
    \cup [op : {"settings", "delete"}, user : Users, version : Nat]
    \cup [op : {"confirm"}, token : Tokens, user : Users, number : Nat, seen : SUBSET Sessions]

(* NULL is no row.                                                          *)
ASSUME NoRowAssumption ==
  NoRow \notin UserRow \cup [version : Nat] \cup SessionRow \cup TokenRow

(* The shape of every table and of what a request keeps; a session's        *)
(* deadline slides no further than its absolute lifetime allows.            *)
AccountsTypeOK ==
  /\ user \in [Users -> UserRow \cup {NoRow}]
  /\ business \in [Users -> [version : Nat] \cup {NoRow}]
  /\ session \in [Sessions -> SessionRow \cup {NoRow}]
  /\ \A s \in Sessions : session[s] # NoRow => session[s].expires <= session[s].created + AbsoluteTTL
  /\ token \in [Tokens -> TokenRow \cup {NoRow}]
  /\ request \in [Requests -> InFlight \cup {NoRow}]
  /\ outdated \subseteq Users
  /\ now \in Nat

(* Two sign-ups racing for one email make one account, and deleting an      *)
(* account takes its Business, sessions and tokens along: an email has one  *)
(* owner, an owner one Business, and no session or token is left without.   *)
OneOwner ==
  /\ \A u, v \in Users : Exists(u) /\ Exists(v) /\ user[u].email = user[v].email => u = v
  /\ \A u \in Users : Exists(u) <=> business[u] # NoRow
  /\ \A s \in Sessions : session[s] # NoRow => Exists(session[s].user)
  /\ \A t \in Tokens : token[t] # NoRow => Exists(token[t].user)

(* A reset token replaces a password once, however many confirmations of it *)
(* arrive together (confirm_password_reset: the second waits for the lock   *)
(* and finds used_at set).                                                  *)
TokenUsedOnce == \A t \in Tokens : token[t] # NoRow => token[t].used <= 1

(* Whoever was logged in when a replacement of the password ran its UPDATE   *)
(* sessions is logged out by its commit, and no refresh that had read the    *)
(* row before revives it: a live session was committed after the UPDATE of   *)
(* every replacement of its User's password that stands, in whatever order   *)
(* overlapping ones committed (change_password, confirm_password_reset).     *)
NoSessionPredatesRevocation ==
  \A s \in Sessions : Live(s) => session[s].born >= user[session[s].user].ended

(* A replaced password ends every session the User has, other devices' at    *)
(* once (docs/ARCHITECTURE_ADDENDUM.md): of those committed before it none   *)
(* outlives the commit.  A login committed after the UPDATE does.            *)
ReplacementEndsSessions ==
  [][\A r \in Requests : Replacing(r) /\ request'[r] = NoRow /\ user' # user =>
       \A s \in Owned(Sessions, session, request[r].user) : session'[s].revoked]_vars

(* A write of the settings, and the deletion of the account, is accepted    *)
(* only from a request that saw the Business as it still is: of two owners' *)
(* tabs that both saw version v only one gets through.                      *)
StaleWritesRefused ==
  [][\A u \in Users : business[u] # NoRow /\ business'[u] # business[u] =>
       \E r \in Requests : /\ Doing(r, "settings") \/ Doing(r, "delete")
                           /\ request'[r] = NoRow
                           /\ request[r].user = u
                           /\ request[r].version = business[u].version]_vars

(* A password is replaced, and sessions end, for the User who asked alone.  *)
OthersUntouched ==
  [][\A u, v \in Users : Exists(u) /\ Exists(v) /\ u # v /\ user'[u] # user[u] =>
       /\ user'[v] = user[v]
       /\ \A s \in Owned(Sessions, session, v) : session'[s] = session[s]]_vars
=============================================================================
