------------------------------ MODULE Accounts ------------------------------
(***************************************************************************)
(* Accounts and sessions of the API (api/v1/auth.py, core/dependencies.py, *)
(* deactivation in api/v1/admin.py).  A browser keeps a refresh cookie and *)
(* an access token and may have several requests under way; the server     *)
(* handles each in its own transaction, so what one request has read may   *)
(* be out of date when it commits.                                         *)
(*                                                                         *)
(* A refresh token is its row; hashing and the encoding of access tokens   *)
(* are left out: an access token is the user it names.                     *)
(***************************************************************************)
EXTENDS Integers, Sequences, FiniteSets

CONSTANTS Browsers, Emails,
          Requests,    \* numbers
          Admins,      \* emails whose role is admin
          NoUser,
          MaxExpiries  \* bound of the model

VARIABLES
  users,     \* by email: absent, active or inactive
  tokens,    \* rows of auth.refresh_tokens, in the order they were issued
  cookie,    \* by browser: the token of its refresh cookie; 0 if it has none
  access,    \* by browser: the user its access token names
  req,       \* by request: where its handler is
  expiries

accountVars == <<users, tokens, cookie, access, req, expiries>>

Kinds == {"register", "login", "refresh", "logout", "me", "deactivate", "stream"}

(* A request before it is sent: what it will be is given by the start. *)
Planned(kind, b, email) ==
  [pc |-> "unsent", kind |-> kind, browser |-> b, email |-> email, cookie |-> 0, access |-> NoUser,
   status |-> 0, issued |-> 0, revoked |-> {}, off |-> {}]

Revoked  == {n \in DOMAIN tokens : tokens[n].revoked}
Inactive == {e \in Emails : users[e] = "inactive"}

Step(r, pc)       == req' = [req EXCEPT ![r].pc = pc]
Answer(r, status) == req' = [req EXCEPT ![r].pc = "answered", ![r].status = status]
At(r, kind, pc)   == req[r].kind = kind /\ req[r].pc = pc
Row(r)            == tokens[req[r].cookie]

(* Requests are numbered as they are sent.  `revoked` and `off` are        *)
(* history: the tokens that were revoked and the users that were inactive  *)
(* when the request was sent.                                              *)
Send(r) ==
  /\ req[r].pc = "unsent" /\ \A s \in Requests : s < r => req[s].pc # "unsent"
  /\ req' = [req EXCEPT ![r].pc = "sent", ![r].cookie = cookie[req[r].browser],
       ![r].access = access[req[r].browser], ![r].revoked = Revoked, ![r].off = Inactive]
  /\ UNCHANGED <<users, tokens, cookie, access, expiries>>

-----------------------------------------------------------------------------
(* register: a look-up, then an insert, which the unique index on the      *)
(* email decides.                                                          *)
LookUpEmail(r) ==
  /\ At(r, "register", "sent")
  /\ IF users[req[r].email] # "absent" THEN Answer(r, 409) ELSE Step(r, "insert")
  /\ UNCHANGED <<users, tokens, cookie, access, expiries>>

UniqueEmail(email) == users[email] = "absent"

InsertUser(r) ==
  /\ At(r, "register", "insert")
  /\ IF UniqueEmail(req[r].email)
     THEN users' = [users EXCEPT ![req[r].email] = "active"] /\ Answer(r, 201)
     ELSE UNCHANGED users /\ Answer(r, 500)
  /\ UNCHANGED <<tokens, cookie, access, expiries>>

login(r) ==
  /\ At(r, "login", "sent")
  /\ \/ Answer(r, 401)                                    \* wrong password
     \/ CASE users[req[r].email] = "absent"   -> Answer(r, 401)
          [] users[req[r].email] = "inactive" -> Answer(r, 403)
          [] OTHER                            -> Step(r, "issue")
  /\ UNCHANGED <<users, tokens, cookie, access, expiries>>

-----------------------------------------------------------------------------
(* refresh: the token's row, the user's row, then revoke and insert in one *)
(* transaction.                                                            *)

(* Mutant: a token is good until it expires. *)
Unexpired(n) == n # 0 /\ ~tokens[n].expired

Valid(n) == n # 0 /\ ~tokens[n].revoked /\ ~tokens[n].expired

ReadToken(r) ==
  /\ At(r, "refresh", "sent")
  /\ IF Valid(req[r].cookie) THEN Step(r, "user") ELSE Answer(r, 401)
  /\ UNCHANGED <<users, tokens, cookie, access, expiries>>

(* A user who is not active any more loses the token. *)
ReadUser(r) ==
  /\ At(r, "refresh", "user")
  /\ IF users[Row(r).user] = "active"
     THEN Step(r, "issue") /\ UNCHANGED tokens
     ELSE Answer(r, 401) /\ tokens' = [tokens EXCEPT ![req[r].cookie].revoked = TRUE]
  /\ UNCHANGED <<users, cookie, access, expiries>>

_issue_tokens(r) ==
  /\ req[r].pc = "issue"
  /\ LET rotated == IF req[r].kind = "refresh" THEN req[r].cookie ELSE 0
         kept    == [n \in DOMAIN tokens |-> [tokens[n] EXCEPT !.revoked = @ \/ n = rotated]]
         user    == IF rotated = 0 THEN req[r].email ELSE tokens[rotated].user
     IN tokens' = Append(kept, [user |-> user, revoked |-> FALSE, expired |-> FALSE, parent |-> rotated])
  /\ req' = [req EXCEPT ![r].pc = "answered", ![r].status = 200, ![r].issued = Len(tokens) + 1]
  /\ UNCHANGED <<users, cookie, access, expiries>>

LogoutLookUp(r) ==
  /\ At(r, "logout", "sent")
  /\ IF req[r].cookie # 0 /\ ~Row(r).revoked THEN Step(r, "revoke") ELSE Answer(r, 204)
  /\ UNCHANGED <<users, tokens, cookie, access, expiries>>

LogoutRevoke(r) ==
  /\ At(r, "logout", "revoke")
  /\ tokens' = [tokens EXCEPT ![req[r].cookie].revoked = TRUE]
  /\ Answer(r, 204)
  /\ UNCHANGED <<users, cookie, access, expiries>>

-----------------------------------------------------------------------------
(* Requests with an access token *)

get_current_user(r) == req[r].access # NoUser /\ users[req[r].access] = "active"

me(r) ==
  /\ At(r, "me", "sent")
  /\ Answer(r, IF get_current_user(r) THEN 200 ELSE 401)
  /\ UNCHANGED <<users, tokens, cookie, access, expiries>>

get_current_admin(r) ==
  /\ At(r, "deactivate", "sent")
  /\ CASE ~get_current_user(r)            -> Answer(r, 401)
       [] req[r].access \notin Admins     -> Answer(r, 403)
       [] users[req[r].email] = "absent"  -> Answer(r, 404)
       [] OTHER                           -> Step(r, "deactivate")
  /\ UNCHANGED <<users, tokens, cookie, access, expiries>>

deactivate_user(r) ==
  /\ At(r, "deactivate", "deactivate")
  /\ users' = [users EXCEPT ![req[r].email] = "inactive"]
  /\ Answer(r, 204)
  /\ UNCHANGED <<tokens, cookie, access, expiries>>

-----------------------------------------------------------------------------
(* Answers reach the browser in any order, or not at all. *)

(* Mutant: the new cookie is set on an answer that is thrown away. *)
AccessTokenOnly(r) ==
  /\ req[r].pc = "answered" /\ Step(r, "done")
  /\ access' = (IF req[r].issued # 0
                THEN [access EXCEPT ![req[r].browser] = tokens[req[r].issued].user] ELSE access)
  /\ cookie' = (IF req[r].kind = "logout" THEN [cookie EXCEPT ![req[r].browser] = 0] ELSE cookie)
  /\ UNCHANGED <<users, tokens, expiries>>

Receive(r) ==
  /\ req[r].pc = "answered" /\ Step(r, "done")
  /\ LET b == req[r].browser IN
       IF req[r].issued # 0
       THEN /\ cookie' = [cookie EXCEPT ![b] = req[r].issued]
            /\ access' = [access EXCEPT ![b] = tokens[req[r].issued].user]
       ELSE /\ cookie' = (IF req[r].kind = "logout" THEN [cookie EXCEPT ![b] = 0] ELSE cookie)
            /\ UNCHANGED access
  /\ UNCHANGED <<users, tokens, expiries>>

Lose(r) ==
  /\ req[r].pc = "answered" /\ Step(r, "lost")
  /\ UNCHANGED <<users, tokens, cookie, access, expiries>>

ExpireToken(n) ==
  /\ expiries < MaxExpiries /\ expiries' = expiries + 1
  /\ ~tokens[n].expired /\ tokens' = [tokens EXCEPT ![n].expired = TRUE]
  /\ UNCHANGED <<users, cookie, access, req>>

ExpireAccess(b) ==
  /\ expiries < MaxExpiries /\ expiries' = expiries + 1
  /\ access[b] # NoUser /\ access' = [access EXCEPT ![b] = NoUser]
  /\ UNCHANGED <<users, tokens, cookie, req>>

Handle(r) ==
  \/ LookUpEmail(r) \/ InsertUser(r) \/ login(r) \/ ReadToken(r) \/ ReadUser(r) \/ _issue_tokens(r)
  \/ LogoutLookUp(r) \/ LogoutRevoke(r) \/ me(r) \/ get_current_admin(r) \/ deactivate_user(r)

AccountsNext ==
  \/ \E r \in Requests : Send(r) \/ Handle(r) \/ Receive(r) \/ Lose(r)
  \/ \E n \in DOMAIN tokens : ExpireToken(n)
  \/ \E b \in Browsers : ExpireAccess(b)

-----------------------------------------------------------------------------
(* Properties *)

(* Once a token is revoked, by a rotation or a logout, no request that is  *)
(* sent later gets a new one for it.  Two requests that overlap may both   *)
(* rotate the same token.                                                  *)
RevokedIsNotRotated ==
  \A r \in Requests :
    req[r].issued # 0 => tokens[req[r].issued].parent \notin req[r].revoked

(* After an account is deactivated nothing that is sent later is served    *)
(* for it: no token by any way, and no request with an access token that   *)
(* is still good for a while.                                              *)
NothingAfterDeactivation ==
  /\ \A r \in Requests : req[r].issued # 0 => tokens[req[r].issued].user \notin req[r].off
  /\ \A r \in Requests : req[r].kind \in {"me", "stream", "deactivate"} /\ req[r].status \in {200, 204}
       => req[r].access \notin req[r].off

(* Of the registrations of one address at most one is told that it made    *)
(* the account, however their look-ups and inserts interleave.             *)
OneRegistrationWins ==
  \A r, s \in Requests :
    r # s /\ req[r].status = 201 /\ req[s].status = 201 => req[r].email # req[s].email

(* What was given once, or taken back, is not given again: an address, a   *)
(* token, an account, in any interleaving of the requests.                 *)
TakenBackIsGone == RevokedIsNotRotated /\ NothingAfterDeactivation /\ OneRegistrationWins

(* A browser with no request under way, none of whose answers was lost,    *)
(* holds no cookie that a rotation or a logout has revoked: overlapping    *)
(* refreshes and logouts, in any order of their answers, leave it a good   *)
(* session or none, while its user is active.                              *)
QuietBrowserIsInOrOut ==
  \A b \in Browsers :
    (\A r \in Requests : req[r].browser = b => req[r].pc \in {"unsent", "done"})
      => cookie[b] = 0 \/ ~tokens[cookie[b]].revoked \/ users[tokens[cookie[b]].user] = "inactive"
=============================================================================
