--------------------------- MODULE AccountsProofs ---------------------------
(***************************************************************************)
(* Proofs about Accounts, for any number of Users, sessions, tokens and      *)
(* requests and whatever the lifetimes.  The types are inductive only        *)
(* together with the ownership of rows (a request for the settings reads the *)
(* Business of a session's User, which must be there) and with what the row  *)
(* lock of a token protects; that no session outlives a replacement it        *)
(* predates needs what the UPDATEs still to be committed have not seen.      *)
(***************************************************************************)
EXTENDS Accounts, TLAPS

(* A token locked by a confirmation exists, is of the User whose password it *)
(* replaces, is unspent, and is locked once.                                *)
LockedTokens ==
  \A r \in Requests : Doing(r, "confirm") =>
    /\ token[request[r].token] # NoRow
    /\ token[request[r].token].user = request[r].user
    /\ token[request[r].token].used = 0
    /\ \A q \in Requests : Doing(q, "confirm") /\ request[q].token = request[r].token => q = r

(* A session not revoked, expired or not, was committed after the UPDATE of  *)
(* every replacement that stands: a refresh may give an expired one a new    *)
(* deadline.                                                                *)
UnrevokedIsFresh ==
  \A s \in Sessions : session[s] # NoRow /\ ~session[s].revoked =>
    session[s].born >= user[session[s].user].ended

(* What an UPDATE not yet committed has not seen was committed after it.     *)
UnseenIsFresher ==
  \A r \in Requests : Replacing(r) /\ request[r].number # 0 /\ Exists(request[r].user) =>
    /\ request[r].number <= user[request[r].user].begun
    /\ \A s \in Sessions \ request[r].seen :
         session[s] # NoRow /\ ~session[s].revoked /\ session[s].user = request[r].user =>
           session[s].born >= request[r].number

EndedHaveBegun == \A u \in Users : Exists(u) => user[u].ended <= user[u].begun

Fresh == UnrevokedIsFresh /\ UnseenIsFresher /\ EndedHaveBegun

(* The tables alone.                                                        *)
Tables == AccountsTypeOK /\ OneOwner

Inv == Tables /\ TokenUsedOnce /\ LockedTokens /\ Fresh

----------------------------------------------------------------------------
(* What a request in flight holds.                                          *)
LEMMA InFlightShapes ==
  ASSUME AccountsTypeOK, NEW r \in Requests
  PROVE  /\ Doing(r, "signup") => request[r].email \in Emails
         /\ Doing(r, "login") => /\ request[r].user \in Users
                                 /\ request[r].password \in Nat
                                 /\ request[r].rehash \in BOOLEAN
         /\ Doing(r, "authenticated") => request[r].session \in Sessions
         /\ Doing(r, "logout") => request[r].session \in Sessions
         /\ Replacing(r) => /\ request[r].user \in Users
                            /\ request[r].number \in Nat
                            /\ request[r].seen \subseteq Sessions
         /\ Doing(r, "settings") => /\ request[r].user \in Users
                                    /\ request[r].version \in Nat
         /\ Doing(r, "delete") => /\ request[r].user \in Users
                                  /\ request[r].version \in Nat
         /\ Doing(r, "confirm") => request[r].token \in Tokens
<1>1. request[r] \in InFlight \cup {NoRow}
  BY DEF AccountsTypeOK
<1> QED
  BY <1>1 DEF Doing, Replacing, InFlight

(* A request that ends leaves the others as they are.                       *)
LEMMA DoneType ==
  ASSUME AccountsTypeOK, NEW r \in Requests, Done(r)
  PROVE  request' \in [Requests -> InFlight \cup {NoRow}]
  BY DEF Done, AccountsTypeOK

LEMMA BeginType ==
  ASSUME AccountsTypeOK, NEW r \in Requests, NEW what \in InFlight, Begin(r, what)
  PROVE  request' \in [Requests -> InFlight \cup {NoRow}]
  BY DEF Begin, AccountsTypeOK

(* A new session has the shape of one.                                      *)
LEMMA IssuedType ==
  ASSUME now \in Nat, NEW sess \in [Sessions -> SessionRow \cup {NoRow}],
         NEW s \in Sessions, NEW u \in Users, NEW e \in Nat,
         \A x \in Sessions : sess[x] # NoRow => sess[x].expires <= sess[x].created + AbsoluteTTL,
         NEW new, new = Issued(sess, s, u, e)
  PROVE  /\ new \in [Sessions -> SessionRow \cup {NoRow}]
         /\ new[s] # NoRow /\ new[s].user = u /\ new[s].born = e
         /\ \A x \in Sessions \ {s} : new[x] = sess[x]
         /\ \A x \in Sessions :
              new[x] # NoRow => new[x].expires <= new[x].created + AbsoluteTTL
<1> DEFINE row == [user |-> u, created |-> now, expires |-> now + IdleTTL,
                   revoked |-> FALSE, born |-> e]
<1>1. row \in SessionRow
  BY AccountsAssumption DEF SessionRow
<1>2. row # NoRow
  BY <1>1, NoRowAssumption
<1>3. new = [sess EXCEPT ![s] = row]
  BY DEF Issued
<1>4. row.expires <= row.created + AbsoluteTTL
  BY AccountsAssumption
<1>5. new[s] = row /\ \A x \in Sessions \ {s} : new[x] = sess[x]
  BY <1>3
<1>6. new \in [Sessions -> SessionRow \cup {NoRow}]
  BY <1>1, <1>3
<1>7. row.user = u /\ row.born = e
  OBVIOUS
<1> HIDE DEF row
<1>8. \A x \in Sessions : new[x] # NoRow => new[x].expires <= new[x].created + AbsoluteTTL
  BY <1>4, <1>5
<1> QED
  BY <1>2, <1>5, <1>6, <1>7, <1>8

(* Revoking changes the mark of one User's sessions.                        *)
LEMMA RevokedType ==
  ASSUME NEW sess \in [Sessions -> SessionRow \cup {NoRow}], NEW u \in Users, NEW seen,
         \A x \in Sessions : sess[x] # NoRow => sess[x].expires <= sess[x].created + AbsoluteTTL,
         NEW new, new = Revoked(u, seen, sess)
  PROVE  /\ new \in [Sessions -> SessionRow \cup {NoRow}]
         /\ \A x \in Sessions :
              /\ new[x] = NoRow <=> sess[x] = NoRow
              /\ new[x] # NoRow => /\ new[x].user = sess[x].user
                                   /\ new[x].expires <= new[x].created + AbsoluteTTL
              /\ sess[x] # NoRow /\ sess[x].user = u /\ x \in seen => new[x].revoked
              /\ x \notin seen => new[x] = sess[x]
              /\ sess[x] # NoRow /\ sess[x].user # u => new[x] = sess[x]
<1> DEFINE marked(x) == [sess[x] EXCEPT !.revoked = TRUE]
<1>1. \A x \in Sessions :
        new[x] = IF x \in seen /\ sess[x] # NoRow /\ sess[x].user = u THEN marked(x) ELSE sess[x]
  BY DEF Revoked, Owned
<1>2. \A x \in Sessions : sess[x] # NoRow =>
        /\ marked(x) \in SessionRow
        /\ marked(x).revoked
        /\ marked(x).user = sess[x].user
        /\ marked(x).expires = sess[x].expires
        /\ marked(x).created = sess[x].created
  BY DEF SessionRow
<1>3. NoRow \notin SessionRow
  BY NoRowAssumption
<1>4. new = [x \in Sessions |-> new[x]]
  BY DEF Revoked
<1> HIDE DEF marked
<1>5. \A x \in Sessions : new[x] \in SessionRow \cup {NoRow}
  BY <1>1, <1>2
<1>6. new \in [Sessions -> SessionRow \cup {NoRow}]
  BY <1>4, <1>5
<1>7. \A x \in Sessions : new[x] = NoRow <=> sess[x] = NoRow
  BY <1>1, <1>2, <1>3
<1> QED
  BY <1>1, <1>2, <1>6, <1>7

----------------------------------------------------------------------------
(* The locks of other confirmations survive a request r that takes none and  *)
(* touches no locked token.                                                 *)
LEMMA LocksKept ==
  ASSUME AccountsTypeOK, LockedTokens, NEW r \in Requests, NEW what,
         request' = [request EXCEPT ![r] = what],
         what = NoRow \/ what.op # "confirm",
         \A q \in Requests \ {r} :
           Doing(q, "confirm") => token'[request[q].token] = token[request[q].token]
  PROVE  LockedTokens'
<1>1. \A q \in Requests \ {r} : request'[q] = request[q]
  BY DEF AccountsTypeOK
<1>2. request'[r] = what
  BY DEF AccountsTypeOK
<1>3. \A q \in Requests : (request'[q] # NoRow /\ request'[q].op = "confirm")
        => q # r /\ Doing(q, "confirm")
  BY <1>1, <1>2 DEF Doing
<1> QED
  BY <1>1, <1>3 DEF LockedTokens, Doing

(* No User is made, and no UPDATE sessions begins for one.                  *)
UsersStand ==
  \A v \in Users : user'[v] # NoRow => user[v] # NoRow /\ user'[v].begun = user[v].begun

(* No password is replaced.                                                 *)
PasswordsStand == \A v \in Users : user'[v] # NoRow => user'[v].ended = user[v].ended

(* Whatever is not revoked was so before, or is as fresh as its User.        *)
NoneRevived ==
  \A x \in Sessions : session'[x] # NoRow /\ ~session'[x].revoked =>
    /\ session'[x].user \in Users /\ user'[session'[x].user] # NoRow
    /\ \/ /\ session[x] # NoRow /\ ~session[x].revoked
          /\ session'[x].user = session[x].user /\ session'[x].born = session[x].born
       \/ session'[x].born = user[session'[x].user].begun

(* No UPDATE sessions runs.                                                 *)
NoneBegins ==
  \A q \in Requests : Replacing(q)' /\ request'[q].number # 0 => request'[q] = request[q]

LEMMA UnseenKept ==
  ASSUME Inv, UsersStand, NoneRevived, NoneBegins
  PROVE  UnseenIsFresher'
<1>0. \A v \in Users : user[v] # NoRow => user[v].begun \in Nat
  BY DEF Inv, Tables, AccountsTypeOK, UserRow
<1> SUFFICES ASSUME NEW q \in Requests, Replacing(q)', request'[q].number # 0,
                    user'[request'[q].user] # NoRow
             PROVE  /\ request'[q].number <= user'[request'[q].user].begun
                    /\ \A x \in Sessions \ request'[q].seen :
                         session'[x] # NoRow /\ ~session'[x].revoked
                           /\ session'[x].user = request'[q].user =>
                           session'[x].born >= request'[q].number
  BY DEF UnseenIsFresher, Exists
<1>1. request'[q] = request[q] /\ Replacing(q)
  BY DEF NoneBegins, Replacing, Doing
<1>2. request[q].user \in Users /\ request[q].number \in Nat
  BY <1>1, InFlightShapes DEF Inv, Tables
<1>3. user[request[q].user] # NoRow /\ user'[request[q].user].begun = user[request[q].user].begun
  BY <1>1, <1>2 DEF UsersStand
<1>4. /\ request[q].number <= user[request[q].user].begun
      /\ \A x \in Sessions \ request[q].seen :
           session[x] # NoRow /\ ~session[x].revoked /\ session[x].user = request[q].user =>
             session[x].born >= request[q].number
  BY <1>1, <1>3 DEF Inv, Fresh, UnseenIsFresher, Exists
<1>5. ASSUME NEW x \in Sessions \ request[q].seen, session'[x] # NoRow,
             ~session'[x].revoked, session'[x].user = request[q].user
      PROVE  session'[x].born >= request[q].number
  <2>1. CASE /\ session[x] # NoRow /\ ~session[x].revoked
             /\ session'[x].user = session[x].user /\ session'[x].born = session[x].born
    BY <1>4, <1>5, <2>1
  <2>2. CASE session'[x].born = user[session'[x].user].begun
    BY <1>0, <1>2, <1>3, <1>4, <1>5, <2>2
  <2> QED
    BY <1>5, <2>1, <2>2 DEF NoneRevived
<1> QED
  BY <1>1, <1>3, <1>4, <1>5

LEMMA FreshKept ==
  ASSUME Inv, UsersStand, PasswordsStand, NoneRevived, NoneBegins
  PROVE  Fresh'
<1>1. \A v \in Users : user[v] # NoRow =>
        user[v].begun \in Nat /\ user[v].ended \in Nat /\ user[v].ended <= user[v].begun
  BY DEF Inv, Tables, AccountsTypeOK, UserRow, Fresh, EndedHaveBegun, Exists
<1>2. EndedHaveBegun'
  BY DEF Inv, Fresh, EndedHaveBegun, Exists, UsersStand, PasswordsStand
<1>3. UnrevokedIsFresh'
  <2> SUFFICES ASSUME NEW x \in Sessions, session'[x] # NoRow, ~session'[x].revoked
               PROVE  session'[x].born >= user'[session'[x].user].ended
    BY DEF UnrevokedIsFresh
  <2>1. session'[x].user \in Users /\ user'[session'[x].user] # NoRow
    BY DEF NoneRevived
  <2>2. CASE /\ session[x] # NoRow /\ ~session[x].revoked
             /\ session'[x].user = session[x].user /\ session'[x].born = session[x].born
    BY <2>1, <2>2 DEF Inv, Fresh, UnrevokedIsFresh, UsersStand, PasswordsStand
  <2>3. CASE session'[x].born = user[session'[x].user].begun
    BY <1>1, <2>1, <2>3 DEF UsersStand, PasswordsStand
  <2> QED
    BY <2>2, <2>3 DEF NoneRevived
<1>4. UnseenIsFresher'
  BY UnseenKept
<1> QED
  BY <1>2, <1>3, <1>4 DEF Fresh

(* What a request becomes that runs no UPDATE sessions.                     *)
LEMMA NoUpdateRuns ==
  ASSUME AccountsTypeOK, NEW r \in Requests, NEW what,
         request' = [request EXCEPT ![r] = what],
         what = NoRow \/ what.op \notin {"change", "confirm"} \/ what.number = 0
  PROVE  NoneBegins
<1>1. request'[r] = what /\ \A q \in Requests \ {r} : request'[q] = request[q]
  BY DEF AccountsTypeOK
<1> QED
  BY <1>1 DEF NoneBegins, Replacing, Doing

(* A step of a request that writes no table keeps the invariant.            *)
LEMMA RequestsOnly ==
  ASSUME Inv, NEW r \in Requests, NEW what \in InFlight \cup {NoRow},
         request' = [request EXCEPT ![r] = what],
         what = NoRow \/ what.op \notin {"change", "confirm"},
         UNCHANGED <<user, business, session, token, outdated, now>>
  PROVE  Inv'
<1>1. AccountsTypeOK'
  BY DEF Inv, Tables, AccountsTypeOK
<1>2. OneOwner'
  BY DEF Inv, Tables, OneOwner, Exists
<1>3. TokenUsedOnce'
  BY DEF Inv, TokenUsedOnce
<1>4. Fresh'
  <2>1. UsersStand /\ PasswordsStand
    BY DEF UsersStand, PasswordsStand
  <2>2. NoneRevived
    BY DEF NoneRevived, Inv, Tables, OneOwner, Exists, AccountsTypeOK, SessionRow
  <2>3. NoneBegins
    BY NoUpdateRuns DEF Inv, Tables
  <2> QED
    BY <2>1, <2>2, <2>3, FreshKept
<1>5. LockedTokens'
  BY LocksKept DEF Inv, Tables
<1> QED
  BY <1>1, <1>2, <1>3, <1>4, <1>5 DEF Inv, Tables

LEMMA BeginningsKeep ==
  ASSUME Inv, NEW r \in Requests,
         \/ \E m \in Emails : BeginSignup(r, m)
         \/ \E u \in Users : BeginLogin(r, u)
         \/ \E s \in Sessions : Authenticate(r, s)
         \/ Abandon(r)
  PROVE  Inv'
<1>1. CASE \E m \in Emails : BeginSignup(r, m)
  <2>1. PICK m \in Emails : BeginSignup(r, m)
    BY <1>1
  <2>2. [op |-> "signup", email |-> m] \in InFlight
    BY DEF InFlight
  <2> QED
    BY <2>1, <2>2, RequestsOnly DEF BeginSignup, Begin
<1>2. CASE \E u \in Users : BeginLogin(r, u)
  <2>1. PICK u \in Users : BeginLogin(r, u)
    BY <1>2
  <2> DEFINE what == [op |-> "login", user |-> u, password |-> user[u].password,
                      rehash |-> u \in outdated]
  <2>2. user[u].password \in Nat
    BY <2>1 DEF BeginLogin, Exists, Inv, Tables, AccountsTypeOK, UserRow
  <2>3. what \in InFlight
    BY <2>2 DEF InFlight
  <2> QED
    BY <2>1, <2>3, RequestsOnly DEF BeginLogin, Begin
<1>3. CASE \E s \in Sessions : Authenticate(r, s)
  <2>1. PICK s \in Sessions : Authenticate(r, s)
    BY <1>3
  <2>2. [op |-> "authenticated", session |-> s] \in InFlight
    BY DEF InFlight
  <2> QED
    BY <2>1, <2>2, RequestsOnly DEF Authenticate, Begin
<1>4. CASE Abandon(r)
  BY <1>4, RequestsOnly DEF Abandon, Done
<1> QED
  BY <1>1, <1>2, <1>3, <1>4

(* Two sign-ups of one email: the constraint lets the first through.        *)
LEMMA SignupKeeps ==
  ASSUME Inv, NEW r \in Requests, NEW u \in Users, NEW s \in Sessions, CommitSignup(r, u, s)
  PROVE  Inv'
<1> DEFINE row == [email |-> request[r].email, password |-> 0, begun |-> 0, ended |-> 0]
<1>1. /\ Doing(r, "signup") /\ EmailFree(request[r].email)
      /\ user[u] = NoRow /\ session[s] = NoRow
      /\ \A q \in Requests : Replacing(q) => request[q].user # u
      /\ user' = [user EXCEPT ![u] = row]
      /\ business' = [business EXCEPT ![u] = [version |-> 1]]
      /\ session' = Issued(session, s, u, 0)
      /\ request' = [request EXCEPT ![r] = NoRow]
      /\ UNCHANGED <<token, outdated, now>>
  <2>1. \A q \in Requests : Replacing(q) => "user" \in DOMAIN request[q] /\ ~Idle(q)
    <3> SUFFICES ASSUME NEW q \in Requests, Replacing(q)
                 PROVE  "user" \in DOMAIN request[q] /\ ~Idle(q)
      OBVIOUS
    <3>1. request[q] \in InFlight /\ request[q].op \in {"change", "confirm"}
      BY DEF Replacing, Doing, Inv, Tables, AccountsTypeOK
    <3> QED
      BY <3>1 DEF Replacing, Doing, InFlight, Idle
  <2> QED
    BY <2>1 DEF CommitSignup, Free, Done
<1>2. row \in UserRow /\ row # NoRow
  BY <1>1, InFlightShapes, NoRowAssumption DEF UserRow, Inv, Tables
<1>3. [version |-> 1] # NoRow
  BY NoRowAssumption
<1>4. business[u] = NoRow
  BY <1>1 DEF Inv, Tables, OneOwner, Exists
<1>5. \A x \in Sessions : session[x] # NoRow => session[x].user \in Users /\ session[x].user # u
  BY <1>1 DEF Inv, Tables, OneOwner, Exists, AccountsTypeOK, SessionRow
<1>6. \A t \in Tokens : token[t] # NoRow => token[t].user \in Users /\ token[t].user # u
  BY <1>1 DEF Inv, Tables, OneOwner, Exists, AccountsTypeOK, TokenRow
<1>7. /\ session' \in [Sessions -> SessionRow \cup {NoRow}]
      /\ session'[s].user = u /\ session'[s].born = 0 /\ session'[s] # NoRow
      /\ \A x \in Sessions \ {s} : session'[x] = session[x]
      /\ \A x \in Sessions :
           session'[x] # NoRow => session'[x].expires <= session'[x].created + AbsoluteTTL
  <2>1. /\ now \in Nat
        /\ session \in [Sessions -> SessionRow \cup {NoRow}]
        /\ \A x \in Sessions :
             session[x] # NoRow => session[x].expires <= session[x].created + AbsoluteTTL
    BY DEF Inv, Tables, AccountsTypeOK
  <2>2. 0 \in Nat
    OBVIOUS
  <2> QED
    BY <1>1, <2>1, <2>2, IssuedType
<1>8. user'[u] = row /\ \A v \in Users \ {u} : user'[v] = user[v]
  BY <1>1 DEF Inv, Tables, AccountsTypeOK
<1>9. business'[u] = [version |-> 1] /\ \A v \in Users \ {u} : business'[v] = business[v]
  BY <1>1 DEF Inv, Tables, AccountsTypeOK
<1>10. AccountsTypeOK'
  BY <1>1, <1>2, <1>7 DEF Inv, Tables, AccountsTypeOK
<1>11. OneOwner'
  <2>1. \A v, w \in Users :
          user'[v] # NoRow /\ user'[w] # NoRow /\ user'[v].email = user'[w].email => v = w
    BY <1>1, <1>8 DEF Inv, Tables, OneOwner, Exists, EmailFree
  <2>2. \A v \in Users : user'[v] # NoRow <=> business'[v] # NoRow
    BY <1>2, <1>3, <1>8, <1>9 DEF Inv, Tables, OneOwner, Exists
  <2>3. \A x \in Sessions : session'[x] # NoRow => user'[session'[x].user] # NoRow
    BY <1>2, <1>5, <1>7, <1>8 DEF Inv, Tables, OneOwner, Exists
  <2>4. \A t \in Tokens : token'[t] # NoRow => user'[token'[t].user] # NoRow
    BY <1>1, <1>6, <1>8 DEF Inv, Tables, OneOwner, Exists
  <2> QED
    BY <2>1, <2>2, <2>3, <2>4 DEF OneOwner, Exists
<1>12. TokenUsedOnce'
  BY <1>1 DEF Inv, TokenUsedOnce
<1>13. Fresh'
  <2>1. \A x \in Sessions \ {s} : session'[x] # NoRow =>
          session[x] # NoRow /\ session[x].user # u /\ user'[session[x].user] = user[session[x].user]
    BY <1>5, <1>7, <1>8
  <2>2. row.begun = 0 /\ row.ended = 0
    OBVIOUS
  <2> HIDE DEF row
  <2>3. UnrevokedIsFresh'
    BY <1>7, <1>8, <2>1, <2>2 DEF Inv, Fresh, UnrevokedIsFresh
  <2>4. EndedHaveBegun'
    BY <1>8, <2>2 DEF Inv, Fresh, EndedHaveBegun, Exists
  <2>5. \A q \in Requests : Replacing(q)' =>
          /\ Replacing(q) /\ request'[q] = request[q]
          /\ request[q].user # u /\ request[q].user \in Users
          /\ user'[request[q].user] = user[request[q].user]
    <3> SUFFICES ASSUME NEW q \in Requests, Replacing(q)'
                 PROVE  /\ Replacing(q) /\ request'[q] = request[q]
                        /\ request[q].user # u /\ request[q].user \in Users
                        /\ user'[request[q].user] = user[request[q].user]
      OBVIOUS
    <3>1. Replacing(q) /\ request'[q] = request[q]
      BY <1>1 DEF Replacing, Doing, Inv, Tables, AccountsTypeOK
    <3> QED
      BY <1>1, <1>8, <3>1, InFlightShapes DEF Inv, Tables
  <2>6. UnseenIsFresher'
    <3> SUFFICES ASSUME NEW q \in Requests, Replacing(q)', request'[q].number # 0,
                        user'[request'[q].user] # NoRow
                 PROVE  /\ request'[q].number <= user'[request'[q].user].begun
                        /\ \A x \in Sessions \ request'[q].seen :
                             session'[x] # NoRow /\ ~session'[x].revoked
                               /\ session'[x].user = request'[q].user =>
                               session'[x].born >= request'[q].number
      BY DEF UnseenIsFresher, Exists
    <3>1. /\ Replacing(q) /\ request'[q] = request[q] /\ request[q].user # u
          /\ user'[request[q].user] = user[request[q].user]
      BY <2>5
    <3>2. /\ request[q].number <= user[request[q].user].begun
          /\ \A x \in Sessions \ request[q].seen :
               session[x] # NoRow /\ ~session[x].revoked /\ session[x].user = request[q].user =>
                 session[x].born >= request[q].number
      BY <3>1 DEF Inv, Fresh, UnseenIsFresher, Exists
    <3> QED
      BY <1>7, <2>1, <3>1, <3>2
  <2> QED
    BY <2>3, <2>4, <2>6 DEF Fresh
<1>14. LockedTokens'
  BY <1>1, LocksKept DEF Inv, Tables
<1> QED
  BY <1>10, <1>11, <1>12, <1>13, <1>14 DEF Inv, Tables

(* The tables, as the steps below need them.                                *)
LEMMA TableFacts ==
  ASSUME Inv
  PROVE  /\ now \in Nat
         /\ session \in [Sessions -> SessionRow \cup {NoRow}]
         /\ \A x \in Sessions :
              session[x] # NoRow => session[x].expires <= session[x].created + AbsoluteTTL
         /\ \A x \in Sessions : session[x] # NoRow =>
              session[x] \in SessionRow /\ session[x].user \in Users /\ user[session[x].user] # NoRow
         /\ \A v \in Users : user[v] # NoRow =>
              /\ user[v] \in UserRow /\ user[v].begun \in Nat /\ user[v].ended \in Nat
              /\ business[v] \in [version : Nat]
         /\ \A t \in Tokens : token[t] # NoRow =>
              token[t] \in TokenRow /\ token[t].user \in Users /\ user[token[t].user] # NoRow
<1>1. /\ now \in Nat
      /\ session \in [Sessions -> SessionRow \cup {NoRow}]
      /\ \A x \in Sessions :
           session[x] # NoRow => session[x].expires <= session[x].created + AbsoluteTTL
  BY DEF Inv, Tables, AccountsTypeOK
<1>2. \A x \in Sessions : session[x] # NoRow =>
        session[x] \in SessionRow /\ session[x].user \in Users /\ user[session[x].user] # NoRow
  BY DEF Inv, Tables, AccountsTypeOK, OneOwner, Exists, SessionRow
<1>3. \A v \in Users : user[v] # NoRow =>
        user[v] \in UserRow /\ user[v].begun \in Nat /\ user[v].ended \in Nat
  BY DEF Inv, Tables, AccountsTypeOK, UserRow
<1>4. \A v \in Users : user[v] # NoRow => business[v] \in [version : Nat]
  BY DEF Inv, Tables, AccountsTypeOK, OneOwner, Exists
<1>5. \A t \in Tokens : token[t] # NoRow =>
        token[t] \in TokenRow /\ token[t].user \in Users /\ user[token[t].user] # NoRow
  BY DEF Inv, Tables, AccountsTypeOK, OneOwner, Exists, TokenRow
<1> QED
  BY <1>1, <1>2, <1>3, <1>4, <1>5

(* Ownership survives a step that makes and removes no User, changes no     *)
(* email, and leaves every session and token with an owner.                 *)
LEMMA OwnersKept ==
  ASSUME Inv,
         \A v \in Users : (user'[v] = NoRow) <=> (user[v] = NoRow),
         \A v \in Users : user[v] # NoRow => user'[v].email = user[v].email,
         \A v \in Users : (business'[v] = NoRow) <=> (business[v] = NoRow),
         \A x \in Sessions : session'[x] # NoRow =>
           session'[x].user \in Users /\ user[session'[x].user] # NoRow,
         \A t \in Tokens : token'[t] # NoRow =>
           token'[t].user \in Users /\ user[token'[t].user] # NoRow
  PROVE  OneOwner'
  BY DEF Inv, Tables, OneOwner, Exists

(* Revoking the sessions of u an UPDATE saw, as a reset and a change of the  *)
(* password do.                                                             *)
LEMMA SessionsRevoked ==
  ASSUME Inv, NEW u \in Users, NEW seen, NEW new, new = Revoked(u, seen, session)
  PROVE  /\ new \in [Sessions -> SessionRow \cup {NoRow}]
         /\ \A x \in Sessions :
              /\ (new[x] = NoRow) <=> (session[x] = NoRow)
              /\ new[x] # NoRow => /\ new[x].user = session[x].user
                                   /\ new[x].expires <= new[x].created + AbsoluteTTL
              /\ session[x] # NoRow /\ session[x].user = u /\ x \in seen => new[x].revoked
              /\ x \notin seen => new[x] = session[x]
              /\ session[x] # NoRow /\ session[x].user # u => new[x] = session[x]
<1>1. session \in [Sessions -> SessionRow \cup {NoRow}]
  BY TableFacts
<1>2. \A x \in Sessions :
        session[x] # NoRow => session[x].expires <= session[x].created + AbsoluteTTL
  BY TableFacts
<1> QED
  BY <1>1, <1>2, RevokedType

(* Issuing a session for u, as sign-up and login do.                        *)
LEMMA SessionIssued ==
  ASSUME Inv, NEW s \in Sessions, NEW u \in Users, NEW e \in Nat,
         NEW new, new = Issued(session, s, u, e)
  PROVE  /\ new \in [Sessions -> SessionRow \cup {NoRow}]
         /\ new[s] # NoRow /\ new[s].user = u /\ new[s].born = e
         /\ \A x \in Sessions \ {s} : new[x] = session[x]
         /\ \A x \in Sessions :
              new[x] # NoRow => new[x].expires <= new[x].created + AbsoluteTTL
<1>1. session \in [Sessions -> SessionRow \cup {NoRow}] /\ now \in Nat
  BY TableFacts
<1>2. \A x \in Sessions :
        session[x] # NoRow => session[x].expires <= session[x].created + AbsoluteTTL
  BY TableFacts
<1> QED
  BY <1>1, <1>2, IssuedType

(* A login may write an old hash back; the session it opens is as fresh as  *)
(* the User it finds.                                                       *)
LEMMA LoginKeeps ==
  ASSUME Inv, NEW r \in Requests, NEW s \in Sessions, CommitLogin(r, s)
  PROVE  Inv'
<1> DEFINE u == request[r].user
           rehashed == [user EXCEPT ![u].password = request[r].password]
<1>1. /\ Doing(r, "login") /\ user[u] # NoRow /\ session[s] = NoRow
      /\ user' = (IF request[r].rehash THEN rehashed ELSE user)
      /\ outdated' = (IF request[r].rehash THEN outdated \ {u} ELSE outdated)
      /\ session' = Issued(session, s, u, user[u].begun)
      /\ request' = [request EXCEPT ![r] = NoRow]
      /\ UNCHANGED <<business, token, now>>
  BY DEF CommitLogin, Free, Done, Exists
<1>2. u \in Users /\ request[r].password \in Nat
  BY <1>1, InFlightShapes DEF Inv, Tables
<1>3. rehashed \in [Users -> UserRow \cup {NoRow}]
      /\ rehashed[u] # NoRow /\ rehashed[u].email = user[u].email
      /\ rehashed[u].begun = user[u].begun /\ rehashed[u].ended = user[u].ended
      /\ \A v \in Users \ {u} : rehashed[v] = user[v]
  <2>1. [user[u] EXCEPT !.password = request[r].password] \in UserRow
    BY <1>1, <1>2, TableFacts DEF UserRow
  <2>2. user \in [Users -> UserRow \cup {NoRow}]
    BY DEF Inv, Tables, AccountsTypeOK
  <2>3. rehashed[u] = [user[u] EXCEPT !.password = request[r].password]
    BY <1>2, <2>2
  <2>4. /\ rehashed[u].email = user[u].email
        /\ rehashed[u].begun = user[u].begun /\ rehashed[u].ended = user[u].ended
    BY <1>1, <2>3, TableFacts DEF UserRow
  <2> QED
    BY <1>2, <2>1, <2>2, <2>3, <2>4, NoRowAssumption
<1> HIDE DEF rehashed
<1>4. /\ user' \in [Users -> UserRow \cup {NoRow}]
      /\ \A v \in Users : (user'[v] = NoRow) <=> (user[v] = NoRow)
      /\ \A v \in Users : user[v] # NoRow =>
           /\ user'[v].email = user[v].email
           /\ user'[v].begun = user[v].begun /\ user'[v].ended = user[v].ended
  BY <1>1, <1>3 DEF Inv, Tables, AccountsTypeOK
<1>5. /\ session' \in [Sessions -> SessionRow \cup {NoRow}]
      /\ session'[s].user = u /\ session'[s].born = user[u].begun
      /\ \A x \in Sessions \ {s} : session'[x] = session[x]
      /\ \A x \in Sessions :
           session'[x] # NoRow => session'[x].expires <= session'[x].created + AbsoluteTTL
  <2>1. user[u].begun \in Nat
    BY <1>1, <1>2, TableFacts
  <2>2. u \in Users /\ session' = Issued(session, s, u, user[u].begun)
    BY <1>1, <1>2
  <2> HIDE DEF u
  <2> QED
    BY <2>1, <2>2, SessionIssued
<1>6. AccountsTypeOK'
  BY <1>1, <1>4, <1>5, DoneType DEF Inv, Tables, AccountsTypeOK, Done
<1>7. OneOwner'
  <2>1. \A x \in Sessions : session'[x] # NoRow =>
          session'[x].user \in Users /\ user[session'[x].user] # NoRow
    BY <1>1, <1>2, <1>5, TableFacts
  <2>2. \A t \in Tokens : token'[t] # NoRow =>
          token'[t].user \in Users /\ user[token'[t].user] # NoRow
    BY <1>1, TableFacts
  <2>3. /\ \A v \in Users : (user'[v] = NoRow) <=> (user[v] = NoRow)
        /\ \A v \in Users : user[v] # NoRow => user'[v].email = user[v].email
        /\ \A v \in Users : (business'[v] = NoRow) <=> (business[v] = NoRow)
    BY <1>1, <1>4
  <2> QED
    BY <2>1, <2>2, <2>3, OwnersKept
<1>8. TokenUsedOnce'
  BY <1>1 DEF Inv, TokenUsedOnce
<1>9. Fresh'
  <2>1. UsersStand /\ PasswordsStand
    BY <1>4 DEF UsersStand, PasswordsStand
  <2>2. NoneRevived
    <3> SUFFICES ASSUME NEW x \in Sessions, session'[x] # NoRow, ~session'[x].revoked
                 PROVE  /\ session'[x].user \in Users /\ user'[session'[x].user] # NoRow
                        /\ \/ /\ session[x] # NoRow /\ ~session[x].revoked
                              /\ session'[x].user = session[x].user
                              /\ session'[x].born = session[x].born
                           \/ session'[x].born = user[session'[x].user].begun
      BY DEF NoneRevived
    <3>1. CASE x = s
      BY <1>1, <1>2, <1>4, <1>5, <3>1
    <3>2. CASE x # s
      BY <1>4, <1>5, <3>2, TableFacts
    <3> QED
      BY <3>1, <3>2
  <2>3. NoneBegins
    BY <1>1, NoUpdateRuns DEF Inv, Tables
  <2> QED
    BY <2>1, <2>2, <2>3, FreshKept
<1>10. LockedTokens'
  BY <1>1, LocksKept DEF Inv, Tables
<1> QED
  BY <1>6, <1>7, <1>8, <1>9, <1>10 DEF Inv, Tables

(* A refresh gives a row a new deadline and nothing else, so it revives no  *)
(* session that was revoked since the request read it.                      *)
LEMMA ProceedKeeps ==
  ASSUME Inv, NEW r \in Requests, NEW op \in Reads, NEW form, Proceed(r, op, form)
  PROVE  Inv'
<1> DEFINE s == request[r].session
           u == session[s].user
           later == MinOf(now + IdleTTL, session[s].created + AbsoluteTTL)
           row == [session[s] EXCEPT !.expires = later]
           next == CASE op = "read" -> NoRow
                     [] op = "logout" -> [op |-> op, session |-> s]
                     [] op = "change" -> [op |-> op, user |-> u, number |-> 0, seen |-> {}]
                     [] OTHER -> [op |-> op, user |-> u, version |-> business[u].version]
<1>1. /\ Doing(r, "authenticated") /\ session[s] # NoRow
      /\ session' = [session EXCEPT ![s].expires = later]
      /\ request' = [request EXCEPT ![r] = next]
      /\ UNCHANGED <<user, business, token, outdated, now>>
  BY DEF Proceed, Refreshed
<1>2. s \in Sessions
  BY <1>1, InFlightShapes DEF Inv, Tables
<1>3. /\ session[s] \in SessionRow /\ u \in Users
      /\ business[u] \in [version : Nat]
  BY <1>1, <1>2, TableFacts
<1>4. /\ next \in InFlight \cup {NoRow}
      /\ next = NoRow \/ next.op # "confirm"
      /\ next = NoRow \/ next.op \notin {"change", "confirm"} \/ next.number = 0
  BY <1>2, <1>3, AccountsAssumption DEF InFlight, Kinds
<1>5. later \in Nat /\ later <= session[s].created + AbsoluteTTL
  BY <1>3, TableFacts, AccountsAssumption DEF MinOf, SessionRow
<1>6. /\ row \in SessionRow /\ row.user = session[s].user /\ row.born = session[s].born
      /\ row.revoked = session[s].revoked /\ row.expires = later
      /\ row.created = session[s].created
  BY <1>3, <1>5 DEF SessionRow
<1>7. session'[s] = row /\ \A x \in Sessions \ {s} : session'[x] = session[x]
  BY <1>1, <1>2, TableFacts
<1>8. session' \in [Sessions -> SessionRow \cup {NoRow}]
  <2>1. /\ session' = [session EXCEPT ![s] = row] /\ s \in Sessions /\ row \in SessionRow
        /\ session \in [Sessions -> SessionRow \cup {NoRow}]
    <3> HIDE DEF later
    <3> QED
      BY <1>1, <1>2, <1>6, TableFacts
  <2> HIDE DEF s, row
  <2> QED
    BY <2>1
<1> HIDE DEF later, row, next
<1>9. \A x \in Sessions :
        session'[x] # NoRow => session'[x].expires <= session'[x].created + AbsoluteTTL
  BY <1>5, <1>6, <1>7, TableFacts
<1>10. AccountsTypeOK'
  BY <1>1, <1>4, <1>8, <1>9 DEF Inv, Tables, AccountsTypeOK
<1>11. OneOwner'
  <2>1. \A x \in Sessions : session'[x] # NoRow =>
          session'[x].user \in Users /\ user[session'[x].user] # NoRow
    BY <1>1, <1>2, <1>6, <1>7, TableFacts
  <2> QED
    BY <1>1, <2>1, OwnersKept, TableFacts
<1>12. TokenUsedOnce'
  BY <1>1 DEF Inv, TokenUsedOnce
<1>13. Fresh'
  <2>1. UsersStand /\ PasswordsStand
    BY <1>1 DEF UsersStand, PasswordsStand
  <2>2. NoneRevived
    BY <1>1, <1>2, <1>6, <1>7, TableFacts DEF NoneRevived
  <2>3. NoneBegins
    BY <1>1, <1>4, NoUpdateRuns DEF Inv, Tables
  <2> QED
    BY <2>1, <2>2, <2>3, FreshKept
<1>14. LockedTokens'
  BY <1>1, <1>4, LocksKept DEF Inv, Tables
<1> QED
  BY <1>10, <1>11, <1>12, <1>13, <1>14 DEF Inv, Tables

(* The clock and the hash parameters touch no table.                        *)
LEMMA ClockKeeps ==
  ASSUME Inv, RaiseHashCost \/ Tick
  PROVE  Inv'
<1>1. UNCHANGED <<user, business, session, token, request>>
  BY DEF RaiseHashCost, Tick
<1>2. outdated' \subseteq Users /\ now' \in Nat
  BY DEF RaiseHashCost, Tick, Inv, Tables, AccountsTypeOK
<1>3. AccountsTypeOK'
  BY <1>1, <1>2 DEF Inv, Tables, AccountsTypeOK
<1>4. OneOwner' /\ TokenUsedOnce' /\ Fresh'
  BY <1>1 DEF Inv, Tables, OneOwner, Exists, TokenUsedOnce, Fresh, UnrevokedIsFresh,
              UnseenIsFresher, EndedHaveBegun, Replacing, Doing
<1>5. LockedTokens'
  BY <1>1 DEF Inv, LockedTokens, Doing
<1> QED
  BY <1>3, <1>4, <1>5 DEF Inv, Tables

LEMMA LogoutKeeps ==
  ASSUME Inv, NEW r \in Requests, CommitLogout(r)
  PROVE  Inv'
<1> DEFINE s == request[r].session
           row == [session[s] EXCEPT !.revoked = TRUE]
<1>1. /\ Doing(r, "logout") /\ session[s] # NoRow
      /\ session' = [session EXCEPT ![s].revoked = TRUE]
      /\ request' = [request EXCEPT ![r] = NoRow]
      /\ UNCHANGED <<user, business, token, outdated, now>>
  BY DEF CommitLogout, Done
<1>2. s \in Sessions
  BY <1>1, InFlightShapes DEF Inv, Tables
<1>3. /\ row \in SessionRow /\ row.user = session[s].user /\ row.revoked
      /\ row.born = session[s].born
      /\ row.expires = session[s].expires /\ row.created = session[s].created
  BY <1>1, <1>2, TableFacts DEF SessionRow
<1>4. session'[s] = row /\ \A x \in Sessions \ {s} : session'[x] = session[x]
  BY <1>1, <1>2, TableFacts
<1>5. session' \in [Sessions -> SessionRow \cup {NoRow}]
  BY <1>1, <1>2, <1>3, TableFacts
<1> HIDE DEF row
<1>6. \A x \in Sessions :
        session'[x] # NoRow => session'[x].expires <= session'[x].created + AbsoluteTTL
  BY <1>1, <1>2, <1>3, <1>4, TableFacts
<1>7. AccountsTypeOK'
  BY <1>1, <1>5, <1>6, DoneType DEF Inv, Tables, AccountsTypeOK, Done
<1>8. OneOwner'
  <2>1. \A x \in Sessions : session'[x] # NoRow =>
          session'[x].user \in Users /\ user[session'[x].user] # NoRow
    BY <1>1, <1>2, <1>3, <1>4, TableFacts
  <2> QED
    BY <1>1, <2>1, OwnersKept, TableFacts
<1>9. TokenUsedOnce'
  BY <1>1 DEF Inv, TokenUsedOnce
<1>10. Fresh'
  <2>1. UsersStand /\ PasswordsStand
    BY <1>1 DEF UsersStand, PasswordsStand
  <2>2. NoneRevived
    BY <1>1, <1>2, <1>3, <1>4, TableFacts DEF NoneRevived
  <2>3. NoneBegins
    BY <1>1, NoUpdateRuns DEF Inv, Tables
  <2> QED
    BY <2>1, <2>2, <2>3, FreshKept
<1>11. LockedTokens'
  BY <1>1, LocksKept DEF Inv, Tables
<1> QED
  BY <1>7, <1>8, <1>9, <1>10, <1>11 DEF Inv, Tables

(* The next password of u, whose latest replacement is now its maximum.      *)
LEMMA ReplacedType ==
  ASSUME Inv, NEW u \in Users, user[u] # NoRow, NEW n \in Nat, NEW new, new = Replaced(u, n)
  PROVE  /\ new \in [Users -> UserRow \cup {NoRow}]
         /\ new[u] # NoRow /\ new[u].email = user[u].email /\ new[u].begun = user[u].begun
         /\ new[u].ended = (IF user[u].ended < n THEN n ELSE user[u].ended)
         /\ \A v \in Users \ {u} : new[v] = user[v]
<1> DEFINE mid == [user[u] EXCEPT !.password = n]
           row == [mid EXCEPT !.ended = IF @ < n THEN n ELSE @]
<1>1. user[u] \in UserRow /\ user[u].ended \in Nat
  BY TableFacts
<1>2. /\ mid \in UserRow /\ mid.email = user[u].email
      /\ mid.begun = user[u].begun /\ mid.ended = user[u].ended
  BY <1>1 DEF UserRow
<1>3. user \in [Users -> UserRow \cup {NoRow}]
  BY DEF Inv, Tables, AccountsTypeOK
<1>4. new = [user EXCEPT ![u] = row]
  BY <1>3 DEF Replaced
<1> HIDE DEF mid
<1>5. /\ row \in UserRow /\ row.email = user[u].email /\ row.begun = user[u].begun
      /\ row.ended = (IF user[u].ended < n THEN n ELSE user[u].ended)
  BY <1>1, <1>2 DEF UserRow
<1> HIDE DEF row
<1> QED
  BY <1>3, <1>4, <1>5, NoRowAssumption

(* The commit of r's replacement: of the sessions of its User those seen are *)
(* revoked, and a new one is as fresh as the User.                          *)
SeenEnd(r) ==
  \A x \in Sessions : session'[x] # NoRow /\ ~session'[x].revoked =>
    \/ /\ session[x] # NoRow /\ ~session[x].revoked
       /\ session'[x].user = session[x].user /\ session'[x].born = session[x].born
       /\ session[x].user = request[r].user => x \notin request[r].seen
    \/ /\ session'[x].user = request[r].user
       /\ session'[x].born = user[request[r].user].begun

LEMMA FreshAfterReplacement ==
  ASSUME Inv, NEW r \in Requests, Replacing(r), request[r].number # 0,
         user[request[r].user] # NoRow,
         user' = Replaced(request[r].user, request[r].number),
         request' = [request EXCEPT ![r] = NoRow],
         SeenEnd(r)
  PROVE  Fresh'
<1>1. PICK u, n : u = request[r].user /\ n = request[r].number
  OBVIOUS
<1>2. u \in Users /\ n \in Nat /\ n # 0
  BY <1>1, InFlightShapes DEF Inv, Tables
<1>3. /\ user'[u] # NoRow /\ user'[u].begun = user[u].begun
      /\ user'[u].ended = (IF user[u].ended < n THEN n ELSE user[u].ended)
      /\ \A v \in Users \ {u} : user'[v] = user[v]
  <2>1. user' = Replaced(u, n) /\ user[u] # NoRow
    BY <1>1
  <2> QED
    BY <1>2, <2>1, ReplacedType
<1>4. /\ n <= user[u].begun
      /\ \A x \in Sessions \ request[r].seen :
           session[x] # NoRow /\ ~session[x].revoked /\ session[x].user = u => session[x].born >= n
  BY <1>1, <1>2 DEF Inv, Fresh, UnseenIsFresher, Exists
<1>5. \A v \in Users : user[v] # NoRow =>
        user[v].begun \in Nat /\ user[v].ended \in Nat /\ user[v].ended <= user[v].begun
  BY TableFacts DEF Inv, Fresh, EndedHaveBegun, Exists
<1>6. \A x \in Sessions : session[x] # NoRow =>
        /\ session[x].user \in Users /\ user[session[x].user] # NoRow
        /\ session[x].born \in Nat
  BY TableFacts DEF SessionRow
<1>7. EndedHaveBegun'
  BY <1>1, <1>2, <1>3, <1>4, <1>5 DEF EndedHaveBegun, Exists
<1>8. UsersStand
  BY <1>1, <1>3 DEF UsersStand
<1>9. NoneRevived
  BY <1>1, <1>2, <1>3, <1>6 DEF NoneRevived, SeenEnd
<1>10. NoneBegins
  BY NoUpdateRuns DEF Inv, Tables
<1>11. UnrevokedIsFresh'
  <2> SUFFICES ASSUME NEW x \in Sessions, session'[x] # NoRow, ~session'[x].revoked
               PROVE  session'[x].born >= user'[session'[x].user].ended
    BY DEF UnrevokedIsFresh
  <2>1. CASE /\ session[x] # NoRow /\ ~session[x].revoked
             /\ session'[x].user = session[x].user /\ session'[x].born = session[x].born
             /\ session[x].user = request[r].user => x \notin request[r].seen
    <3>1. session[x].born >= user[session[x].user].ended
      BY <2>1 DEF Inv, Fresh, UnrevokedIsFresh
    <3> QED
      BY <1>1, <1>2, <1>3, <1>4, <1>5, <1>6, <2>1, <3>1
  <2>2. CASE session'[x].user = u /\ session'[x].born = user[u].begun
    BY <1>1, <1>2, <1>3, <1>4, <1>5, <2>2
  <2> QED
    BY <1>1, <2>1, <2>2 DEF SeenEnd
<1>12. UnseenIsFresher'
  BY <1>8, <1>9, <1>10, UnseenKept
<1> QED
  BY <1>7, <1>11, <1>12 DEF Fresh

(* Every session its UPDATE saw is revoked before the new one is issued.     *)
LEMMA ChangeKeeps ==
  ASSUME Inv, NEW r \in Requests, NEW s \in Sessions, CommitChange(r, s)
  PROVE  Inv'
<1> DEFINE u == request[r].user
           seen == request[r].seen
           sess == Revoked(u, seen, session)
<1>1. /\ Doing(r, "change") /\ Replacing(r) /\ request[r].number # 0
      /\ user[u] # NoRow /\ session[s] = NoRow
      /\ user' = Replaced(u, request[r].number)
      /\ session' = Issued(sess, s, u, user[u].begun)
      /\ outdated' = outdated \ {u}
      /\ request' = [request EXCEPT ![r] = NoRow]
      /\ UNCHANGED <<business, token, now>>
  BY DEF CommitChange, Free, Done, Exists, Replacing
<1>2. u \in Users /\ request[r].number \in Nat
  BY <1>1, InFlightShapes DEF Inv, Tables
<1>3. user[u].begun \in Nat
  BY <1>1, <1>2, TableFacts
<1>4. /\ user' \in [Users -> UserRow \cup {NoRow}]
      /\ user'[u] # NoRow /\ user'[u].email = user[u].email
      /\ \A v \in Users \ {u} : user'[v] = user[v]
  <2>1. PICK n : n = request[r].number
    OBVIOUS
  <2>2. u \in Users /\ n \in Nat /\ user[u] # NoRow /\ user' = Replaced(u, n)
    BY <1>1, <1>2, <2>1
  <2> HIDE DEF u
  <2> QED
    BY <2>2, ReplacedType
<1>5. /\ sess \in [Sessions -> SessionRow \cup {NoRow}]
      /\ \A x \in Sessions :
           /\ (sess[x] = NoRow) <=> (session[x] = NoRow)
           /\ sess[x] # NoRow => /\ sess[x].user = session[x].user
                                 /\ sess[x].expires <= sess[x].created + AbsoluteTTL
           /\ session[x] # NoRow /\ session[x].user = u /\ x \in seen => sess[x].revoked
           /\ x \notin seen => sess[x] = session[x]
           /\ session[x] # NoRow /\ session[x].user # u => sess[x] = session[x]
  <2>1. u \in Users /\ sess = Revoked(u, seen, session)
    BY <1>2
  <2> HIDE DEF u, seen, sess
  <2> QED
    BY <2>1, SessionsRevoked
<1> HIDE DEF sess
<1>6. /\ session' \in [Sessions -> SessionRow \cup {NoRow}]
      /\ session'[s].user = u /\ session'[s].born = user[u].begun
      /\ \A x \in Sessions \ {s} : session'[x] = sess[x]
      /\ \A x \in Sessions :
           session'[x] # NoRow => session'[x].expires <= session'[x].created + AbsoluteTTL
  <2>1. user[u].begun \in Nat
    BY <1>3
  <2>2. \A x \in Sessions : sess[x] # NoRow => sess[x].expires <= sess[x].created + AbsoluteTTL
    BY <1>5
  <2>3. now \in Nat /\ u \in Users /\ sess \in [Sessions -> SessionRow \cup {NoRow}]
    BY <1>2, <1>5, TableFacts
  <2>4. session' = Issued(sess, s, u, user[u].begun)
    BY <1>1
  <2> HIDE DEF u
  <2> QED
    BY <2>1, <2>2, <2>3, <2>4, IssuedType
<1>7. AccountsTypeOK'
  BY <1>1, <1>4, <1>6, DoneType DEF Inv, Tables, AccountsTypeOK, Done
<1>8. OneOwner'
  <2>1. \A x \in Sessions : session'[x] # NoRow =>
          session'[x].user \in Users /\ user[session'[x].user] # NoRow
    <3> SUFFICES ASSUME NEW x \in Sessions, session'[x] # NoRow
                 PROVE  session'[x].user \in Users /\ user[session'[x].user] # NoRow
      OBVIOUS
    <3>1. CASE x = s
      BY <1>1, <1>2, <1>6, <3>1
    <3>2. CASE x # s
      <4>1. session'[x] = sess[x] /\ session[x] # NoRow /\ sess[x].user = session[x].user
        BY <1>5, <1>6, <3>2
      <4> QED
        BY <4>1, TableFacts
    <3> QED
      BY <3>1, <3>2
  <2>2. /\ \A v \in Users : (user'[v] = NoRow) <=> (user[v] = NoRow)
        /\ \A v \in Users : user[v] # NoRow => user'[v].email = user[v].email
        /\ \A v \in Users : (business'[v] = NoRow) <=> (business[v] = NoRow)
    BY <1>1, <1>4
  <2>3. \A t \in Tokens : token'[t] # NoRow =>
          token'[t].user \in Users /\ user[token'[t].user] # NoRow
    BY <1>1, TableFacts
  <2> QED
    BY <2>1, <2>2, <2>3, OwnersKept
<1>9. TokenUsedOnce'
  BY <1>1 DEF Inv, TokenUsedOnce
<1>10. Fresh'
  <2>1. SeenEnd(r)
    BY <1>1, <1>5, <1>6 DEF SeenEnd
  <2> QED
    BY <1>1, <2>1, FreshAfterReplacement
<1>11. LockedTokens'
  BY <1>1, LocksKept DEF Inv, Tables
<1> QED
  BY <1>7, <1>8, <1>9, <1>10, <1>11 DEF Inv, Tables

LEMMA SettingsKeep ==
  ASSUME Inv, NEW r \in Requests, CommitSettings(r)
  PROVE  Inv'
<1> DEFINE u == request[r].user
           row == [business[u] EXCEPT !.version = @ + 1]
<1>1. /\ Doing(r, "settings") /\ business[u] # NoRow
      /\ business' = [business EXCEPT ![u] = row]
      /\ request' = [request EXCEPT ![r] = NoRow]
      /\ UNCHANGED <<user, session, token, outdated, now>>
  BY DEF CommitSettings, VersionMatches, Done
<1>2. u \in Users
  BY <1>1, InFlightShapes DEF Inv, Tables
<1>3. row \in [version : Nat]
  BY <1>1, <1>2 DEF Inv, Tables, AccountsTypeOK
<1> HIDE DEF row
<1>4. AccountsTypeOK'
  BY <1>1, <1>2, <1>3, DoneType DEF Inv, Tables, AccountsTypeOK, Done
<1>5. OneOwner'
  <2>1. \A v \in Users : (business'[v] = NoRow) <=> (business[v] = NoRow)
    BY <1>1, <1>2, <1>3, NoRowAssumption DEF Inv, Tables, AccountsTypeOK
  <2> QED
    BY <1>1, <2>1, OwnersKept, TableFacts
<1>6. TokenUsedOnce'
  BY <1>1 DEF Inv, TokenUsedOnce
<1>7. Fresh'
  <2>1. UsersStand /\ PasswordsStand
    BY <1>1 DEF UsersStand, PasswordsStand
  <2>2. NoneRevived
    BY <1>1, TableFacts DEF NoneRevived
  <2>3. NoneBegins
    BY <1>1, NoUpdateRuns DEF Inv, Tables
  <2> QED
    BY <2>1, <2>2, <2>3, FreshKept
<1>8. LockedTokens'
  BY <1>1, LocksKept DEF Inv, Tables
<1> QED
  BY <1>4, <1>5, <1>6, <1>7, <1>8 DEF Inv, Tables

(* The cascade leaves no session and no token of the User, and waits for the *)
(* token a confirmation holds.                                              *)
LEMMA DeletionKeeps ==
  ASSUME Inv, NEW r \in Requests, CommitDelete(r)
  PROVE  Inv'
<1> DEFINE u == request[r].user
<1>1. /\ Doing(r, "delete")
      /\ \A q \in Requests : Doing(q, "confirm") => token[request[q].token].user # u
      /\ user' = [user EXCEPT ![u] = NoRow]
      /\ business' = [business EXCEPT ![u] = NoRow]
      /\ session' = [s \in Sessions |->
                       IF s \in Owned(Sessions, session, u) THEN NoRow ELSE session[s]]
      /\ token' = [t \in Tokens |-> IF t \in Owned(Tokens, token, u) THEN NoRow ELSE token[t]]
      /\ outdated' = outdated \ {u}
      /\ request' = [request EXCEPT ![r] = NoRow]
      /\ now' = now
  BY DEF CommitDelete, Done
<1>2. u \in Users
  BY <1>1, InFlightShapes DEF Inv, Tables
<1>3. /\ user' \in [Users -> UserRow \cup {NoRow}] /\ user'[u] = NoRow
      /\ business' \in [Users -> [version : Nat] \cup {NoRow}] /\ business'[u] = NoRow
      /\ \A v \in Users \ {u} : user'[v] = user[v] /\ business'[v] = business[v]
  BY <1>1, <1>2 DEF Inv, Tables, AccountsTypeOK
<1>4. /\ session' \in [Sessions -> SessionRow \cup {NoRow}]
      /\ \A x \in Sessions : session'[x] # NoRow =>
           session'[x] = session[x] /\ session[x] # NoRow /\ session[x].user # u
  BY <1>1, TableFacts DEF Owned
<1>5. /\ token' \in [Tokens -> TokenRow \cup {NoRow}]
      /\ \A t \in Tokens : token'[t] # NoRow =>
           token'[t] = token[t] /\ token[t] # NoRow /\ token[t].user # u
      /\ \A t \in Tokens : token[t] # NoRow /\ token[t].user # u => token'[t] = token[t]
  BY <1>1 DEF Owned, Inv, Tables, AccountsTypeOK
<1>6. \A x \in Sessions :
        session'[x] # NoRow => session'[x].expires <= session'[x].created + AbsoluteTTL
  BY <1>4, TableFacts
<1>7. AccountsTypeOK'
  BY <1>1, <1>3, <1>4, <1>5, <1>6, DoneType DEF Inv, Tables, AccountsTypeOK, Done
<1>8. OneOwner'
  <2>1. \A v, w \in Users :
          user'[v] # NoRow /\ user'[w] # NoRow /\ user'[v].email = user'[w].email => v = w
    BY <1>3 DEF Inv, Tables, OneOwner, Exists
  <2>2. \A v \in Users : (user'[v] # NoRow) <=> (business'[v] # NoRow)
    BY <1>3 DEF Inv, Tables, OneOwner, Exists
  <2>3. \A x \in Sessions : session'[x] # NoRow => user'[session'[x].user] # NoRow
    BY <1>3, <1>4, TableFacts
  <2>4. \A t \in Tokens : token'[t] # NoRow => user'[token'[t].user] # NoRow
    BY <1>3, <1>5, TableFacts
  <2> QED
    BY <2>1, <2>2, <2>3, <2>4 DEF OneOwner, Exists
<1>9. TokenUsedOnce'
  BY <1>5 DEF Inv, TokenUsedOnce
<1>10. Fresh'
  <2>1. UsersStand /\ PasswordsStand
    BY <1>3 DEF UsersStand, PasswordsStand
  <2>2. NoneRevived
    BY <1>3, <1>4, TableFacts DEF NoneRevived
  <2>3. NoneBegins
    BY <1>1, NoUpdateRuns DEF Inv, Tables
  <2> QED
    BY <2>1, <2>2, <2>3, FreshKept
<1>11. LockedTokens'
  <2>1. \A q \in Requests \ {r} :
          Doing(q, "confirm") => token'[request[q].token] = token[request[q].token]
    <3> SUFFICES ASSUME NEW q \in Requests, Doing(q, "confirm")
                 PROVE  token'[request[q].token] = token[request[q].token]
      OBVIOUS
    <3>1. request[q].token \in Tokens
      BY InFlightShapes DEF Inv, Tables
    <3>2. token[request[q].token] # NoRow
      BY DEF Inv, LockedTokens
    <3> QED
      BY <1>1, <1>5, <3>1, <3>2
  <2> QED
    BY <1>1, <2>1, LocksKept DEF Inv, Tables
<1> QED
  BY <1>7, <1>8, <1>9, <1>10, <1>11 DEF Inv, Tables

(* A new token takes a free id, which no confirmation holds.                *)
LEMMA RequestResetKeeps ==
  ASSUME Inv, NEW u \in Users, NEW t \in Tokens, RequestReset(u, t)
  PROVE  Inv'
<1> DEFINE row == [user |-> u, expires |-> now + ResetTTL, used |-> 0]
<1>1. /\ user[u] # NoRow /\ token[t] = NoRow
      /\ token' = [token EXCEPT ![t] = row]
      /\ UNCHANGED <<user, business, session, request, outdated, now>>
  BY DEF RequestReset, Exists, Free
<1>2. row \in TokenRow /\ row.user = u /\ row.used = 0
  BY AccountsAssumption, TableFacts DEF TokenRow
<1> HIDE DEF row
<1>3. token'[t] = row /\ \A x \in Tokens \ {t} : token'[x] = token[x]
  BY <1>1 DEF Inv, Tables, AccountsTypeOK
<1>4. AccountsTypeOK'
  BY <1>1, <1>2 DEF Inv, Tables, AccountsTypeOK
<1>5. OneOwner'
  <2>1. \A x \in Tokens : token'[x] # NoRow =>
          token'[x].user \in Users /\ user[token'[x].user] # NoRow
    BY <1>1, <1>2, <1>3, TableFacts
  <2> QED
    BY <1>1, <2>1, OwnersKept, TableFacts
<1>6. TokenUsedOnce'
  BY <1>2, <1>3 DEF Inv, TokenUsedOnce
<1>7. Fresh'
  BY <1>1 DEF Inv, Fresh, UnrevokedIsFresh, UnseenIsFresher, EndedHaveBegun, Exists,
              Replacing, Doing
<1>8. LockedTokens'
  <2> SUFFICES ASSUME NEW q \in Requests, Doing(q, "confirm")
               PROVE  /\ token'[request[q].token] # NoRow
                      /\ token'[request[q].token].user = request[q].user
                      /\ token'[request[q].token].used = 0
                      /\ \A p \in Requests :
                           Doing(p, "confirm") /\ request[p].token = request[q].token => p = q
    BY <1>1 DEF LockedTokens, Doing
  <2>1. request[q].token \in Tokens
    BY InFlightShapes DEF Inv, Tables
  <2> QED
    BY <1>1, <1>3, <2>1 DEF Inv, LockedTokens
<1> QED
  BY <1>4, <1>5, <1>6, <1>7, <1>8 DEF Inv, Tables

(* SELECT ... FOR UPDATE: nobody else holds the token.                      *)
LEMMA BeginConfirmKeeps ==
  ASSUME Inv, NEW r \in Requests, NEW t \in Tokens, BeginConfirm(r, t)
  PROVE  Inv'
<1> DEFINE what == [op |-> "confirm", token |-> t, user |-> token[t].user,
                    number |-> 0, seen |-> {}]
<1>1. /\ token[t] # NoRow /\ token[t].used = 0 /\ request[r] = NoRow
      /\ \A q \in Requests : Doing(q, "confirm") => request[q].token # t
      /\ request' = [request EXCEPT ![r] = what]
      /\ UNCHANGED <<user, business, session, token, outdated, now>>
  BY DEF BeginConfirm, Begin, Idle, Lockable
<1>2. /\ what \in InFlight /\ what.op = "confirm" /\ what.token = t
      /\ what.user = token[t].user /\ what.number = 0
  <2>1. token[t].user \in Users
    BY <1>1, TableFacts
  <2> QED
    BY <2>1 DEF InFlight
<1> HIDE DEF what
<1>3. request'[r] = what /\ \A q \in Requests \ {r} : request'[q] = request[q]
  BY <1>1 DEF Inv, Tables, AccountsTypeOK
<1>4. AccountsTypeOK'
  BY <1>1, <1>2 DEF Inv, Tables, AccountsTypeOK
<1>5. OneOwner' /\ TokenUsedOnce'
  BY <1>1 DEF Inv, Tables, OneOwner, Exists, TokenUsedOnce
<1>6. Fresh'
  <2>1. UsersStand /\ PasswordsStand
    BY <1>1 DEF UsersStand, PasswordsStand
  <2>2. NoneRevived
    BY <1>1, TableFacts DEF NoneRevived
  <2>3. NoneBegins
    BY <1>1, <1>2, NoUpdateRuns DEF Inv, Tables
  <2> QED
    BY <2>1, <2>2, <2>3, FreshKept
<1>7. LockedTokens'
  <2> SUFFICES ASSUME NEW q \in Requests, request'[q] # NoRow, request'[q].op = "confirm"
               PROVE  /\ token[request'[q].token] # NoRow
                      /\ token[request'[q].token].user = request'[q].user
                      /\ token[request'[q].token].used = 0
                      /\ \A p \in Requests :
                           /\ request'[p] # NoRow
                           /\ request'[p].op = "confirm"
                           /\ request'[p].token = request'[q].token
                           => p = q
    BY <1>1 DEF LockedTokens, Doing
  <2>1. CASE q = r
    BY <1>1, <1>2, <1>3, <2>1 DEF Doing
  <2>2. CASE q # r
    <3>1. request'[q] = request[q] /\ Doing(q, "confirm")
      BY <1>3, <2>2 DEF Doing
    <3>2. request[q].token # t
      BY <1>1, <3>1
    <3> QED
      BY <1>2, <1>3, <3>1, <3>2 DEF Inv, LockedTokens, Doing
  <2> QED
    BY <2>1, <2>2
<1> QED
  BY <1>4, <1>5, <1>7, <1>6 DEF Inv, Tables

(* The UPDATE sessions: a number that no session was born under.             *)
LEMMA RevocationKeeps ==
  ASSUME Inv, NEW r \in Requests, RevokeSessions(r)
  PROVE  Inv'
<1>1. PICK u : u = request[r].user
  OBVIOUS
<1>2. PICK n : n = user[u].begun + 1
  OBVIOUS
<1> DEFINE row == [user[u] EXCEPT !.begun = n]
           what == [request[r] EXCEPT !.number = n, !.seen = Unrevoked(u)]
<1>3. /\ Replacing(r) /\ request[r].number = 0 /\ user[u] # NoRow
      /\ user' = [user EXCEPT ![u] = row]
      /\ request' = [request EXCEPT ![r] = what]
      /\ UNCHANGED <<business, session, token, outdated, now>>
  BY <1>1, <1>2 DEF RevokeSessions, Exists, Inv, Tables, AccountsTypeOK
<1>4. /\ u \in Users /\ user[u] \in UserRow /\ user[u].begun \in Nat
      /\ n \in Nat /\ n > user[u].begun
  BY <1>1, <1>2, <1>3, InFlightShapes, TableFacts DEF Inv, Tables
<1>5. /\ row \in UserRow /\ row # NoRow /\ row.begun = n
      /\ row.ended = user[u].ended /\ row.email = user[u].email
  <2>1. row \in UserRow
    BY <1>4 DEF UserRow
  <2> QED
    BY <1>4, <2>1, NoRowAssumption DEF UserRow
<1>6. /\ what \in InFlight /\ what.number = n /\ what.seen = Unrevoked(u)
      /\ what.user = u /\ what.op = request[r].op
      /\ what.op = "confirm" => what.token = request[r].token
  <2>1. Unrevoked(u) \in SUBSET Sessions
    BY DEF Unrevoked, Owned
  <2>2. request[r] \in InFlight /\ request[r].op \in {"change", "confirm"}
    BY <1>3 DEF Replacing, Doing, Inv, Tables, AccountsTypeOK
  <2>3. PICK e : e = Unrevoked(u)
    OBVIOUS
  <2>4. \/ request[r] \in [op : {"change"}, user : Users, number : Nat, seen : SUBSET Sessions]
        \/ request[r] \in [op : {"confirm"}, token : Tokens, user : Users, number : Nat,
                           seen : SUBSET Sessions]
    BY <2>2 DEF InFlight
  <2>5. what = [request[r] EXCEPT !.number = n, !.seen = e] /\ e \in SUBSET Sessions
    BY <2>1, <2>3
  <2> HIDE DEF what
  <2>6. /\ what \in InFlight /\ what.number = n /\ what.seen = e
        /\ what.user = u /\ what.op = request[r].op
        /\ what.op = "confirm" => what.token = request[r].token
    BY <1>1, <1>4, <2>4, <2>5 DEF InFlight
  <2> QED
    BY <2>3, <2>6
<1> HIDE DEF row, what
<1>7. user'[u] = row /\ \A v \in Users \ {u} : user'[v] = user[v]
  BY <1>3, <1>4 DEF Inv, Tables, AccountsTypeOK
<1>8. request'[r] = what /\ \A q \in Requests \ {r} : request'[q] = request[q]
  BY <1>3 DEF Inv, Tables, AccountsTypeOK
<1>9. AccountsTypeOK'
  BY <1>3, <1>4, <1>5, <1>6 DEF Inv, Tables, AccountsTypeOK
<1>10. OneOwner'
  <2>1. /\ \A v \in Users : (user'[v] = NoRow) <=> (user[v] = NoRow)
        /\ \A v \in Users : user[v] # NoRow => user'[v].email = user[v].email
    BY <1>3, <1>5, <1>7
  <2> QED
    BY <1>3, <2>1, OwnersKept, TableFacts
<1>11. TokenUsedOnce'
  BY <1>3 DEF Inv, TokenUsedOnce
<1>12. UnrevokedIsFresh' /\ EndedHaveBegun'
  <2>1. \A v \in Users : user[v] # NoRow => user'[v].ended = user[v].ended
    BY <1>5, <1>7
  <2>2. UnrevokedIsFresh'
    BY <1>3, <2>1, TableFacts DEF Inv, Fresh, UnrevokedIsFresh
  <2>3. \A v \in Users : user[v] # NoRow =>
          user[v].ended \in Nat /\ user[v].begun \in Nat /\ user[v].ended <= user[v].begun
    BY TableFacts DEF Inv, Fresh, EndedHaveBegun, Exists
  <2>4. EndedHaveBegun'
    BY <1>3, <1>4, <1>5, <1>7, <2>3 DEF EndedHaveBegun, Exists
  <2> QED
    BY <2>2, <2>4
<1>13. UnseenIsFresher'
  <2> SUFFICES ASSUME NEW q \in Requests, Replacing(q)', request'[q].number # 0,
                      user'[request'[q].user] # NoRow
               PROVE  /\ request'[q].number <= user'[request'[q].user].begun
                      /\ \A x \in Sessions \ request'[q].seen :
                           session[x] # NoRow /\ ~session[x].revoked
                             /\ session[x].user = request'[q].user =>
                             session[x].born >= request'[q].number
    BY <1>3 DEF UnseenIsFresher, Exists
  <2>1. CASE q = r
    <3>1. \A x \in Sessions \ Unrevoked(u) :
            ~(session[x] # NoRow /\ ~session[x].revoked /\ session[x].user = u)
      BY DEF Unrevoked, Owned
    <3> QED
      BY <1>4, <1>5, <1>6, <1>7, <1>8, <2>1, <3>1
  <2>2. CASE q # r
    <3>1. request'[q] = request[q] /\ Replacing(q)
      BY <1>8, <2>2 DEF Replacing, Doing
    <3>2. request[q].user \in Users /\ request[q].number \in Nat
      BY <3>1, InFlightShapes DEF Inv, Tables
    <3>3. user[request[q].user] # NoRow
      BY <1>3, <1>7, <3>1, <3>2
    <3>4. /\ request[q].number <= user[request[q].user].begun
          /\ \A x \in Sessions \ request[q].seen :
               session[x] # NoRow /\ ~session[x].revoked /\ session[x].user = request[q].user =>
                 session[x].born >= request[q].number
      BY <3>1, <3>3 DEF Inv, Fresh, UnseenIsFresher, Exists
    <3>5. request[q].number <= user'[request[q].user].begun
      BY <1>4, <1>5, <1>7, <3>2, <3>4
    <3> QED
      BY <3>1, <3>4, <3>5
  <2> QED
    BY <2>1, <2>2
<1>14. LockedTokens'
  <2>1. \A q \in Requests : Doing(q, "confirm")' =>
          /\ Doing(q, "confirm")
          /\ request'[q].token = request[q].token /\ request'[q].user = request[q].user
    BY <1>1, <1>3, <1>6, <1>8 DEF Replacing, Doing
  <2> QED
    BY <1>3, <2>1 DEF Inv, LockedTokens
<1> QED
  BY <1>9, <1>10, <1>11, <1>12, <1>13, <1>14 DEF Inv, Tables, Fresh

(* The token under the lock is spent, once, and the sessions seen end.      *)
LEMMA ConfirmKeeps ==
  ASSUME Inv, NEW r \in Requests, CommitConfirm(r)
  PROVE  Inv'
<1> DEFINE t == request[r].token
           u == request[r].user
           seen == request[r].seen
           row == [token[t] EXCEPT !.used = @ + 1]
<1>1. /\ Doing(r, "confirm") /\ Replacing(r) /\ request[r].number # 0
      /\ user' = Replaced(u, request[r].number)
      /\ token' = [token EXCEPT ![t].used = @ + 1]
      /\ session' = Revoked(u, seen, session)
      /\ outdated' = outdated \ {u}
      /\ request' = [request EXCEPT ![r] = NoRow]
      /\ UNCHANGED <<business, now>>
  BY DEF CommitConfirm, Done, Replacing
<1>2. /\ t \in Tokens /\ token[t] # NoRow /\ token[t].used = 0 /\ token[t].user = u
      /\ request[r].number \in Nat
  BY <1>1, InFlightShapes DEF Inv, Tables, LockedTokens
<1>3. token[t] \in TokenRow /\ u \in Users /\ user[u] # NoRow
  BY <1>2, TableFacts
<1>4. row \in TokenRow /\ row.user = u /\ row.used = 1
  BY <1>2, <1>3 DEF TokenRow
<1>5. token' = [token EXCEPT ![t] = row] /\ token \in [Tokens -> TokenRow \cup {NoRow}]
  BY <1>1, <1>2 DEF Inv, Tables, AccountsTypeOK
<1> HIDE DEF row
<1>6. /\ token' \in [Tokens -> TokenRow \cup {NoRow}]
      /\ token'[t] = row /\ \A x \in Tokens \ {t} : token'[x] = token[x]
  <2>1. t \in Tokens /\ row \in TokenRow
    BY <1>2, <1>4
  <2> HIDE DEF t
  <2> QED
    BY <1>5, <2>1
<1>7. /\ user' \in [Users -> UserRow \cup {NoRow}]
      /\ user'[u] # NoRow /\ user'[u].email = user[u].email
      /\ \A v \in Users \ {u} : user'[v] = user[v]
  <2>0. PICK n : n = request[r].number
    OBVIOUS
  <2>1. u \in Users /\ n \in Nat /\ user[u] # NoRow /\ user' = Replaced(u, n)
    BY <1>1, <1>2, <1>3, <2>0
  <2> HIDE DEF u
  <2> QED
    BY <2>1, ReplacedType
<1>8. /\ session' \in [Sessions -> SessionRow \cup {NoRow}]
      /\ \A x \in Sessions :
           /\ (session'[x] = NoRow) <=> (session[x] = NoRow)
           /\ session'[x] # NoRow => /\ session'[x].user = session[x].user
                                     /\ session'[x].expires <= session'[x].created + AbsoluteTTL
           /\ session[x] # NoRow /\ session[x].user = u /\ x \in seen => session'[x].revoked
           /\ x \notin seen => session'[x] = session[x]
           /\ session[x] # NoRow /\ session[x].user # u => session'[x] = session[x]
  <2>1. u \in Users /\ session' = Revoked(u, seen, session)
    BY <1>1, <1>3
  <2> HIDE DEF u, seen
  <2> QED
    BY <2>1, SessionsRevoked
<1>9. AccountsTypeOK'
  BY <1>1, <1>6, <1>7, <1>8, DoneType DEF Inv, Tables, AccountsTypeOK, Done
<1>10. OneOwner'
  <2>1. \A x \in Sessions : session'[x] # NoRow =>
          session'[x].user \in Users /\ user[session'[x].user] # NoRow
    BY <1>8, TableFacts
  <2>2. \A x \in Tokens : token'[x] # NoRow =>
          token'[x].user \in Users /\ user[token'[x].user] # NoRow
    BY <1>3, <1>4, <1>6, TableFacts
  <2>3. /\ \A v \in Users : (user'[v] = NoRow) <=> (user[v] = NoRow)
        /\ \A v \in Users : user[v] # NoRow => user'[v].email = user[v].email
        /\ \A v \in Users : (business'[v] = NoRow) <=> (business[v] = NoRow)
    BY <1>1, <1>3, <1>7
  <2> QED
    BY <2>1, <2>2, <2>3, OwnersKept
<1>11. TokenUsedOnce'
  BY <1>4, <1>6 DEF Inv, TokenUsedOnce
<1>12. Fresh'
  <2>1. SeenEnd(r)
    BY <1>1, <1>8 DEF SeenEnd
  <2> QED
    BY <1>1, <1>3, <2>1, FreshAfterReplacement
<1>13. LockedTokens'
  <2>1. \A q \in Requests \ {r} :
          Doing(q, "confirm") => token'[request[q].token] = token[request[q].token]
    <3> SUFFICES ASSUME NEW q \in Requests \ {r}, Doing(q, "confirm")
                 PROVE  token'[request[q].token] = token[request[q].token]
      OBVIOUS
    <3>1. request[q].token \in Tokens
      BY InFlightShapes DEF Inv, Tables
    <3>2. request[q].token # t
      BY <1>1 DEF Inv, LockedTokens
    <3> QED
      BY <1>6, <3>1, <3>2
  <2> QED
    BY <1>1, <2>1, LocksKept DEF Inv, Tables
<1> QED
  BY <1>9, <1>10, <1>11, <1>12, <1>13 DEF Inv, Tables

----------------------------------------------------------------------------
LEMMA InvStarts ==
  Init => Inv
<1> SUFFICES ASSUME Init PROVE Inv
  OBVIOUS
<1>1. AccountsTypeOK
  BY DEF Init, AccountsTypeOK
<1>2. OneOwner /\ TokenUsedOnce
  BY DEF Init, OneOwner, Exists, TokenUsedOnce
<1>3. LockedTokens
  BY DEF Init, LockedTokens, Doing
<1>4. Fresh
  BY DEF Init, Fresh, UnrevokedIsFresh, UnseenIsFresher, EndedHaveBegun, Exists, Replacing, Doing
<1> QED
  BY <1>1, <1>2, <1>3, <1>4 DEF Inv, Tables

LEMMA InvKept ==
  ASSUME Inv, [Next]_vars
  PROVE  Inv'
<1>1. CASE \E r \in Requests :
             \/ \E m \in Emails : BeginSignup(r, m)
             \/ \E u \in Users : BeginLogin(r, u)
             \/ \E s \in Sessions : Authenticate(r, s)
             \/ Abandon(r)
  BY <1>1, BeginningsKeep
<1>2. CASE \E r \in Requests, u \in Users, s \in Sessions : CommitSignup(r, u, s)
  BY <1>2, SignupKeeps
<1>3. CASE \E r \in Requests, s \in Sessions : CommitLogin(r, s)
  BY <1>3, LoginKeeps
<1>4. CASE \E r \in Requests, op \in Reads, form \in 1..MaxVersion : Proceed(r, op, form)
  BY <1>4, ProceedKeeps
<1>5. CASE \E r \in Requests : CommitLogout(r)
  BY <1>5, LogoutKeeps
<1>6. CASE \E r \in Requests, s \in Sessions : CommitChange(r, s)
  BY <1>6, ChangeKeeps
<1>7. CASE \E r \in Requests : CommitSettings(r)
  BY <1>7, SettingsKeep
<1>8. CASE \E r \in Requests : CommitDelete(r)
  BY <1>8, DeletionKeeps
<1>9. CASE \E u \in Users, t \in Tokens : RequestReset(u, t)
  BY <1>9, RequestResetKeeps
<1>10. CASE \E r \in Requests, t \in Tokens : BeginConfirm(r, t)
  BY <1>10, BeginConfirmKeeps
<1>11. CASE \E r \in Requests : CommitConfirm(r)
  BY <1>11, ConfirmKeeps
<1>12. CASE RaiseHashCost \/ Tick
  BY <1>12, ClockKeeps
<1>13. CASE \E r \in Requests : RevokeSessions(r)
  BY <1>13, RevocationKeeps
<1>14. CASE UNCHANGED vars
  <2>1. UNCHANGED <<user, business, session, token, request, outdated, now>>
    BY <1>14 DEF vars
  <2>2. Tables'
    BY <2>1 DEF Inv, Tables, AccountsTypeOK, OneOwner, Exists
  <2>3. TokenUsedOnce' /\ Fresh'
    BY <2>1 DEF Inv, TokenUsedOnce, Fresh, UnrevokedIsFresh, UnseenIsFresher, EndedHaveBegun,
                Exists, Replacing, Doing
  <2>4. LockedTokens'
    BY <2>1 DEF Inv, LockedTokens, Doing
  <2> QED
    BY <2>2, <2>3, <2>4 DEF Inv
<1> QED
  BY <1>1, <1>2, <1>3, <1>4, <1>5, <1>6, <1>7, <1>8, <1>9, <1>10, <1>11, <1>12, <1>13,
     <1>14 DEF Next

(* Every reachable state satisfies the invariant.                           *)
THEOREM InvAlways ==
  Spec => []Inv
<1>1. Init => Inv
  BY InvStarts
<1>2. Inv /\ [Next]_vars => Inv'
  BY InvKept
<1> QED
  BY <1>1, <1>2, PTL DEF Spec

(* The tables keep their shape and no deadline passes the absolute lifetime, *)
(* for any number of rows and any lifetimes.                                *)
THEOREM AccountsTyped ==
  Spec => []AccountsTypeOK
<1>1. Inv => AccountsTypeOK
  BY DEF Inv, Tables
<1> QED
  BY <1>1, InvAlways, PTL

(* An email has one owner and no row is orphaned, however many sign-ups,     *)
(* resets and deletions interleave.                                         *)
THEOREM EmailsAreOwned ==
  Spec => []OneOwner
<1>1. Inv => OneOwner
  BY DEF Inv, Tables
<1> QED
  BY <1>1, InvAlways, PTL

(* A reset token replaces at most one password.                             *)
THEOREM TokensAreSpentOnce ==
  Spec => []TokenUsedOnce
<1>1. Inv => TokenUsedOnce
  BY DEF Inv
<1> QED
  BY <1>1, InvAlways, PTL

(* A session that was committed when a replacement of its User's password ran *)
(* its UPDATE is not live after the commit, nor ever again: not by a refresh  *)
(* that had read it, nor by a second replacement that overlaps the first.    *)
THEOREM SessionsEndWithPassword ==
  Spec => []NoSessionPredatesRevocation
<1>1. Inv => NoSessionPredatesRevocation
  BY DEF Inv, Fresh, UnrevokedIsFresh, NoSessionPredatesRevocation, Live
<1> QED
  BY <1>1, InvAlways, PTL

----------------------------------------------------------------------------
(* Only these steps write a Business.                                       *)
LEMMA BusinessWriters ==
  ASSUME [Next]_vars, business' # business
  PROVE  \E r \in Requests : \/ \E u \in Users, s \in Sessions : CommitSignup(r, u, s)
                            \/ CommitSettings(r) \/ CommitDelete(r)
<1>1. ASSUME NEW r \in Requests,
             \/ \E m \in Emails : BeginSignup(r, m)
             \/ \E u \in Users : BeginLogin(r, u)
             \/ \E s \in Sessions : CommitLogin(r, s) \/ Authenticate(r, s)
      PROVE  business' = business
  BY <1>1 DEF BeginSignup, BeginLogin, CommitLogin, Authenticate
<1>2. ASSUME NEW r \in Requests,
             \/ \E op \in Reads, form \in 1..MaxVersion : Proceed(r, op, form)
             \/ CommitLogout(r)
             \/ \E s \in Sessions : CommitChange(r, s)
      PROVE  business' = business
  BY <1>2 DEF Proceed, CommitLogout, CommitChange
<1>3. ASSUME NEW r \in Requests,
             \/ \E t \in Tokens : BeginConfirm(r, t)
             \/ RevokeSessions(r) \/ CommitConfirm(r) \/ Abandon(r)
      PROVE  business' = business
  BY <1>3 DEF BeginConfirm, RevokeSessions, CommitConfirm, Abandon
<1>4. (\E u \in Users, t \in Tokens : RequestReset(u, t)) \/ RaiseHashCost \/ Tick \/ UNCHANGED vars
        => business' = business
  BY DEF RequestReset, RaiseHashCost, Tick, vars
<1> QED
  BY <1>1, <1>2, <1>3, <1>4 DEF Next

(* Only these steps write a User.                                           *)
LEMMA UserWriters ==
  ASSUME [Next]_vars, user' # user
  PROVE  \E r \in Requests :
           \/ \E u \in Users, s \in Sessions : CommitSignup(r, u, s)
           \/ \E s \in Sessions : CommitLogin(r, s) \/ CommitChange(r, s)
           \/ RevokeSessions(r) \/ CommitConfirm(r) \/ CommitDelete(r)
<1>1. ASSUME NEW r \in Requests,
             \/ \E m \in Emails : BeginSignup(r, m)
             \/ \E u \in Users : BeginLogin(r, u)
             \/ \E s \in Sessions : Authenticate(r, s)
             \/ \E op \in Reads, form \in 1..MaxVersion : Proceed(r, op, form)
      PROVE  user' = user
  BY <1>1 DEF BeginSignup, BeginLogin, Authenticate, Proceed
<1>2. ASSUME NEW r \in Requests,
             \/ \E t \in Tokens : BeginConfirm(r, t)
             \/ CommitLogout(r) \/ CommitSettings(r) \/ Abandon(r)
      PROVE  user' = user
  BY <1>2 DEF BeginConfirm, CommitLogout, CommitSettings, Abandon
<1>3. (\E u \in Users, t \in Tokens : RequestReset(u, t)) \/ RaiseHashCost \/ Tick \/ UNCHANGED vars
        => user' = user
  BY DEF RequestReset, RaiseHashCost, Tick, vars
<1> QED
  BY <1>1, <1>2, <1>3 DEF Next

(* A settings form or a deletion gets through on the version it was loaded   *)
(* with: of two tabs that saw the same one, the second is refused.          *)
THEOREM StaleFormsRefused ==
  Spec => StaleWritesRefused
<1>1. ASSUME Inv, [Next]_vars, NEW u \in Users, business[u] # NoRow, business'[u] # business[u]
      PROVE  \E r \in Requests : /\ Doing(r, "settings") \/ Doing(r, "delete")
                                /\ request'[r] = NoRow
                                /\ request[r].user = u
                                /\ request[r].version = business[u].version
  <2>1. business \in [Users -> [version : Nat] \cup {NoRow}]
        /\ request \in [Requests -> InFlight \cup {NoRow}]
    BY <1>1 DEF Inv, Tables, AccountsTypeOK
  <2>2. PICK r \in Requests : \/ \E v \in Users, s \in Sessions : CommitSignup(r, v, s)
                              \/ CommitSettings(r) \/ CommitDelete(r)
    BY <1>1, BusinessWriters
  <2>3. CASE \E v \in Users, s \in Sessions : CommitSignup(r, v, s)
    <3>1. PICK v \in Users, s \in Sessions : CommitSignup(r, v, s)
      BY <2>3
    <3>2. user[v] = NoRow /\ business' = [business EXCEPT ![v] = [version |-> 1]]
      BY <3>1 DEF CommitSignup, Free
    <3>3. u = v
      BY <1>1, <2>1, <3>2
    <3> QED
      BY <1>1, <3>2, <3>3 DEF Inv, Tables, OneOwner, Exists
  <2>4. CASE CommitSettings(r)
    <3> DEFINE q == request[r]
    <3>1. /\ Doing(r, "settings") /\ q.version = business[q.user].version
          /\ business' = [business EXCEPT ![q.user].version = @ + 1]
          /\ request' = [request EXCEPT ![r] = NoRow]
      BY <2>4 DEF CommitSettings, VersionMatches, Done
    <3>2. q.user = u
      BY <1>1, <2>1, <3>1
    <3> QED
      BY <2>1, <3>1, <3>2
  <2>5. CASE CommitDelete(r)
    <3> DEFINE q == request[r]
    <3>1. /\ Doing(r, "delete") /\ q.version = business[q.user].version
          /\ business' = [business EXCEPT ![q.user] = NoRow]
          /\ request' = [request EXCEPT ![r] = NoRow]
      BY <2>5 DEF CommitDelete, VersionMatches, Done
    <3>2. q.user = u
      BY <1>1, <2>1, <3>1
    <3> QED
      BY <2>1, <3>1, <3>2
  <2> QED
    BY <2>2, <2>3, <2>4, <2>5
<1>2. Inv /\ [Next]_vars =>
        [\A u \in Users : business[u] # NoRow /\ business'[u] # business[u] =>
           \E r \in Requests : /\ Doing(r, "settings") \/ Doing(r, "delete")
                               /\ request'[r] = NoRow
                               /\ request[r].user = u
                               /\ request[r].version = business[u].version]_vars
  BY <1>1
<1> QED
  BY <1>2, InvAlways, PTL DEF Spec, StaleWritesRefused

(* Replacing a password, rehashing it at a login or deleting an account       *)
(* leaves the row and the sessions of every other User alone.               *)
THEOREM OthersKeepTheirRows ==
  Spec => OthersUntouched
<1>1. ASSUME Inv, [Next]_vars, NEW u \in Users, NEW v \in Users,
             user[u] # NoRow, user[v] # NoRow, u # v, user'[u] # user[u]
      PROVE  /\ user'[v] = user[v]
             /\ \A x \in Owned(Sessions, session, v) : session'[x] = session[x]
  <2>1. user \in [Users -> UserRow \cup {NoRow}]
    BY <1>1 DEF Inv, Tables, AccountsTypeOK
  <2>2. \A x \in Owned(Sessions, session, v) :
          x \in Sessions /\ session[x] # NoRow /\ session[x].user = v
    BY DEF Owned
  <2>3. PICK r \in Requests :
          \/ \E w \in Users, s \in Sessions : CommitSignup(r, w, s)
          \/ \E s \in Sessions : CommitLogin(r, s) \/ CommitChange(r, s)
          \/ RevokeSessions(r) \/ CommitConfirm(r) \/ CommitDelete(r)
    BY <1>1, UserWriters
  <2>4. CASE \E w \in Users, s \in Sessions : CommitSignup(r, w, s)
    <3>1. PICK w \in Users, s \in Sessions : CommitSignup(r, w, s)
      BY <2>4
    <3> DEFINE row == [email |-> request[r].email, password |-> 0, begun |-> 0, ended |-> 0]
    <3>2. user[w] = NoRow /\ user' = [user EXCEPT ![w] = row]
      BY <3>1 DEF CommitSignup, Free
    <3> HIDE DEF row
    <3>3. user'[u] = user[u]
      BY <1>1, <2>1, <3>2
    <3> QED
      BY <1>1, <3>3
  <2>5. CASE \E s \in Sessions : CommitLogin(r, s)
    <3>1. PICK s \in Sessions : CommitLogin(r, s)
      BY <2>5
    <3> DEFINE w == request[r].user
               rehashed == [user EXCEPT ![w].password = request[r].password]
    <3>2. /\ Doing(r, "login") /\ user[w] # NoRow /\ session[s] = NoRow
          /\ user' = (IF request[r].rehash THEN rehashed ELSE user)
          /\ session' = Issued(session, s, w, user[w].begun)
      BY <3>1 DEF CommitLogin, Free, Exists
    <3>3. w \in Users
      BY <1>1, <3>2, InFlightShapes DEF Inv, Tables
    <3>4. \A x \in Users \ {w} : user'[x] = user[x]
      BY <2>1, <3>2
    <3>5. w = u
      BY <1>1, <3>4
    <3>6. user[w].begun \in Nat
      BY <1>1, <3>2, <3>3, TableFacts
    <3>7. \A x \in Sessions \ {s} : session'[x] = session[x]
      <4>1. w \in Users /\ session' = Issued(session, s, w, user[w].begun)
        BY <3>2, <3>3
      <4> HIDE DEF w
      <4> QED
        BY <1>1, <3>6, <4>1, SessionIssued
    <3> QED
      BY <1>1, <2>2, <3>2, <3>4, <3>5, <3>7
  <2>6. CASE \E s \in Sessions : CommitChange(r, s)
    <3>1. PICK s \in Sessions : CommitChange(r, s)
      BY <2>6
    <3> DEFINE w == request[r].user
               seen == request[r].seen
               sess == Revoked(w, seen, session)
    <3>2. /\ Doing(r, "change") /\ user[w] # NoRow /\ session[s] = NoRow
          /\ user' = Replaced(w, request[r].number)
          /\ session' = Issued(sess, s, w, user[w].begun)
      BY <3>1 DEF CommitChange, Free, Exists
    <3>3. w \in Users /\ request[r].number \in Nat
      BY <1>1, <3>2, InFlightShapes DEF Inv, Tables, Replacing
    <3>4. \A x \in Users \ {w} : user'[x] = user[x]
      BY <2>1, <3>2 DEF Replaced
    <3>5. w = u
      BY <1>1, <3>4
    <3>6. user[w].begun \in Nat
      BY <1>1, <3>2, <3>3, TableFacts
    <3>7. /\ sess \in [Sessions -> SessionRow \cup {NoRow}]
          /\ \A x \in Sessions :
               /\ sess[x] # NoRow => sess[x].expires <= sess[x].created + AbsoluteTTL
               /\ session[x] # NoRow /\ session[x].user # w => sess[x] = session[x]
      <4>1. w \in Users /\ sess = Revoked(w, seen, session)
        BY <3>3
      <4> HIDE DEF w, seen, sess
      <4> QED
        BY <1>1, <4>1, SessionsRevoked
    <3> HIDE DEF sess
    <3>8. now \in Nat
      BY <1>1, TableFacts
    <3>9. \A x \in Sessions \ {s} : session'[x] = sess[x]
      <4>1. session' = Issued(sess, s, w, user[w].begun)
        BY <3>2
      <4> HIDE DEF w
      <4> QED
        BY <3>3, <3>6, <3>7, <3>8, <4>1, IssuedType
    <3> QED
      BY <1>1, <2>2, <3>2, <3>4, <3>5, <3>7, <3>9
  <2>7. CASE CommitConfirm(r)
    <3> DEFINE w == request[r].user
               seen == request[r].seen
    <3>1. /\ Doing(r, "confirm") /\ user' = Replaced(w, request[r].number)
          /\ session' = Revoked(w, seen, session)
      BY <2>7 DEF CommitConfirm
    <3>3. w \in Users
      BY <1>1, <3>1, InFlightShapes DEF Inv, Tables, Replacing
    <3>4. \A x \in Users \ {w} : user'[x] = user[x]
      BY <2>1, <3>1 DEF Replaced
    <3>5. w = u
      BY <1>1, <3>4
    <3>6. \A x \in Sessions :
            session[x] # NoRow /\ session[x].user # w => session'[x] = session[x]
      <4>1. w \in Users /\ session' = Revoked(w, seen, session)
        BY <3>1, <3>3
      <4> HIDE DEF w, seen
      <4> QED
        BY <1>1, <4>1, SessionsRevoked
    <3> QED
      BY <1>1, <2>2, <3>4, <3>5, <3>6
  <2>8. CASE RevokeSessions(r)
    BY <1>1, <2>1, <2>2, <2>8 DEF RevokeSessions
  <2>9. CASE CommitDelete(r)
    <3> DEFINE w == request[r].user
    <3>1. /\ user' = [user EXCEPT ![w] = NoRow]
          /\ session' = [x \in Sessions |->
                           IF x \in Owned(Sessions, session, w) THEN NoRow ELSE session[x]]
      BY <2>9 DEF CommitDelete
    <3>2. w = u
      BY <1>1, <2>1, <3>1
    <3>3. user'[v] = user[v]
      BY <1>1, <2>1, <3>1, <3>2
    <3>4. \A x \in Owned(Sessions, session, v) : x \notin Owned(Sessions, session, w)
      BY <1>1, <3>2 DEF Owned
    <3> QED
      BY <2>2, <3>1, <3>3, <3>4
  <2> QED
    BY <2>3, <2>4, <2>5, <2>6, <2>7, <2>8, <2>9
<1>2. Inv /\ [Next]_vars =>
        [\A u, v \in Users : Exists(u) /\ Exists(v) /\ u # v /\ user'[u] # user[u] =>
           /\ user'[v] = user[v]
           /\ \A s \in Owned(Sessions, session, v) : session'[s] = session[s]]_vars
  BY <1>1 DEF Exists
<1> QED
  BY <1>2, InvAlways, PTL DEF Spec, OthersUntouched

============================================================================
