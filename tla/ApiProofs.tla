------------------------------ MODULE ApiProofs ------------------------------
(***************************************************************************)
(* Proofs about the sessions of Api, for any browsers, addresses, requests *)
(* and starts: what was revoked, deactivated or registered is not given    *)
(* again, and a quiet browser holds a good session or none.                *)
(*                                                                         *)
(* Requests overlap, so what one of them has read may be out of date; the  *)
(* proof rests on what can only grow (the table of tokens, the revoked     *)
(* ones, the inactive users, the addresses that are taken) and on a token  *)
(* being known to one browser only.                                        *)
(***************************************************************************)
EXTENDS Api, SequenceTheorems, TLAPS

UserStates == {"absent", "active", "inactive"}
Rows == [user : Emails, revoked : BOOLEAN, expired : BOOLEAN, parent : Nat]
Reading == {"unsent", "sent", "insert", "user", "issue", "revoke", "deactivate", "open"}

Records ==
  [pc : Reading \cup {"answered", "done", "lost"}, kind : Kinds, browser : Browsers,
   email : Emails \cup {NoUser}, cookie : Nat, access : Emails \cup {NoUser},
   status : Nat, issued : Nat, revoked : SUBSET Nat, off : SUBSET Emails]

StateOK ==
  /\ users \in [Emails -> UserStates]
  /\ tokens \in Seq(Rows)
  /\ \A n \in DOMAIN tokens : users[tokens[n].user] # "absent"
  /\ cookie \in [Browsers -> {0} \cup DOMAIN tokens]
  /\ access \in [Browsers -> Emails \cup {NoUser}]

(* What a request q has read, done and answered is no older than what was  *)
(* so when it was sent; us and ts are the users and the tokens of now.     *)
HasRead(q, us, ts) ==
  /\ q \in Records
  /\ q.kind \in {"register", "login", "deactivate"} => q.email \in Emails
  /\ q.cookie \in {0} \cup DOMAIN ts
  /\ \A n \in q.revoked : n \in DOMAIN ts /\ ts[n].revoked
  /\ \A e \in q.off : us[e] = "inactive"
  /\ q.pc = "unsent" => q.cookie = 0
  /\ q.pc = "insert" => q.kind = "register"
  /\ q.pc = "user" => q.kind = "refresh"
  /\ q.pc = "issue" => q.kind \in {"login", "refresh"}
  /\ q.pc = "issue" /\ q.kind = "login" =>
       q.email \notin q.off /\ us[q.email] # "absent"
  /\ q.pc \in {"user", "issue"} /\ q.kind = "refresh" =>
       q.cookie # 0 /\ q.cookie \notin q.revoked
  /\ q.pc = "issue" /\ q.kind = "refresh" => ts[q.cookie].user \notin q.off
  /\ q.pc = "revoke" => q.kind = "logout" /\ q.cookie # 0
  /\ q.pc = "deactivate" =>
       q.kind = "deactivate" /\ q.access \notin q.off /\ us[q.email] # "absent"
  /\ q.pc = "open" => q.kind = "stream" /\ q.access \notin q.off

HasAnswered(q, us, ts) ==
  /\ q.issued \in {0} \cup DOMAIN ts
  /\ q.pc \in Reading => q.status = 0 /\ q.issued = 0
  /\ q.issued # 0 => ts[q.issued].parent \notin q.revoked /\ ts[q.issued].user \notin q.off
  /\ q.kind \in {"me", "stream", "deactivate"} /\ q.status \in {200, 204} => q.access \notin q.off
  /\ q.status = 201 => q.kind = "register" /\ us[q.email] # "absent"

RequestsOK ==
  /\ DOMAIN req = Requests
  /\ \A r \in Requests : HasRead(req[r], users, tokens) /\ HasAnswered(req[r], users, tokens)

(* The tokens a browser b has had in its cookie, or was issued. *)
Knows(b, n) ==
  \/ cookie[b] = n
  \/ \E r \in Requests : req[r].browser = b /\ n \in {req[r].cookie, req[r].issued}

OneBrowserKnows ==
  \A b, c \in Browsers : \A n \in DOMAIN tokens : Knows(b, n) /\ Knows(c, n) => b = c

(* The token of an answer on its way is not used yet. *)
AnswersAreFresh ==
  \A r \in Requests : req[r].pc = "answered" /\ req[r].issued # 0 =>
    /\ ~tokens[req[r].issued].revoked
    /\ \A b \in Browsers : cookie[b] # req[r].issued
    /\ \A q \in Requests :
         /\ req[q].cookie # req[r].issued
         /\ q # r => req[q].issued # req[r].issued

(* A revoked cookie is about to be replaced, if the answer arrives. *)
Replaces(q, b) ==
  /\ q.browser = b /\ q.pc \in {"answered", "lost"}
  /\ q.issued # 0 \/ q.kind = "logout"

RevokedIsReplaced ==
  \A b \in Browsers :
    \/ cookie[b] = 0 \/ ~tokens[cookie[b]].revoked
    \/ users[tokens[cookie[b]].user] = "inactive"
    \/ \E r \in Requests : Replaces(req[r], b)

Inv ==
  /\ StateOK /\ RequestsOK /\ OneRegistrationWins
  /\ OneBrowserKnows /\ AnswersAreFresh /\ RevokedIsReplaced

-----------------------------------------------------------------------------
(* What can only grow. *)

Grows(us, ts, us2, ts2) ==
  /\ DOMAIN ts \subseteq DOMAIN ts2
  /\ \A n \in DOMAIN ts :
       /\ ts2[n].user = ts[n].user /\ ts2[n].parent = ts[n].parent
       /\ ts[n].revoked => ts2[n].revoked
  /\ \A e \in Emails :
       /\ us[e] = "inactive" => us2[e] = "inactive"
       /\ us[e] # "absent" => us2[e] # "absent"

LEMMA WhatWasReadStays ==
  ASSUME NEW us, NEW ts, NEW us2, NEW ts2, Grows(us, ts, us2, ts2),
         NEW q, HasRead(q, us, ts), HasAnswered(q, us, ts)
  PROVE  HasRead(q, us2, ts2) /\ HasAnswered(q, us2, ts2)
<1>1. q \in Records /\ q.off \subseteq Emails
  BY DEF HasRead, Records
<1>2. HasRead(q, us2, ts2)
  <2>1. q.pc = "issue" /\ q.kind = "refresh" => q.cookie \in DOMAIN ts
    BY DEF HasRead
  <2>2. q.cookie \in {0} \cup DOMAIN ts2
    BY DEF HasRead, Grows
  <2>3. \A n \in q.revoked : n \in DOMAIN ts2 /\ ts2[n].revoked
    BY DEF HasRead, Grows
  <2>4. \A e \in q.off : us2[e] = "inactive"
    BY <1>1 DEF HasRead, Grows
  <2>5. q.pc = "issue" /\ q.kind = "refresh" => ts2[q.cookie].user \notin q.off
    BY <2>1 DEF HasRead, Grows
  <2>6. q.pc = "issue" /\ q.kind = "login" => q.email \notin q.off /\ us2[q.email] # "absent"
    BY DEF HasRead, Grows
  <2>7. q.pc = "deactivate" =>
          q.kind = "deactivate" /\ q.access \notin q.off /\ us2[q.email] # "absent"
    BY DEF HasRead, Grows
  <2> QED
    BY <2>2, <2>3, <2>4, <2>5, <2>6, <2>7 DEF HasRead
<1>3. HasAnswered(q, us2, ts2)
  <2>1. q.issued # 0 => q.issued \in DOMAIN ts
    BY DEF HasAnswered
  <2>2. q.status = 201 => q.kind = "register" /\ us2[q.email] # "absent"
    BY DEF HasRead, HasAnswered, Grows
  <2>3. q.issued # 0 =>
          ts2[q.issued].parent \notin q.revoked /\ ts2[q.issued].user \notin q.off
    BY <2>1 DEF HasAnswered, Grows
  <2>4. q.issued \in {0} \cup DOMAIN ts2
    BY <2>1 DEF Grows
  <2> QED
    BY <2>2, <2>3, <2>4 DEF HasAnswered
<1> QED
  BY <1>2, <1>3

(* A request moves on: its place and its status change, nothing else. *)
Same(q, p) ==
  /\ p \in Records
  /\ p.kind = q.kind /\ p.browser = q.browser /\ p.email = q.email
  /\ p.cookie = q.cookie /\ p.access = q.access
  /\ p.revoked = q.revoked /\ p.off = q.off

Moved(r, pc, status) ==
  /\ DOMAIN req' = Requests
  /\ \A q \in Requests \ {r} : req'[q] = req[q]
  /\ Same(req[r], req'[r])
  /\ req'[r].pc = pc /\ req'[r].status = status /\ req'[r].issued = req[r].issued

LEMMA StepMoves ==
  ASSUME RequestsOK, NEW r \in Requests,
         NEW pc \in Reading \cup {"answered", "done", "lost"}, Step(r, pc)
  PROVE  Moved(r, pc, req[r].status)
<1>1. req[r] \in Records /\ DOMAIN req = Requests
  BY DEF RequestsOK, HasRead
<1>2. req' = [req EXCEPT ![r] = [req[r] EXCEPT !.pc = pc]]
  BY DEF Step
<1>3. /\ DOMAIN req' = Requests /\ \A q \in Requests \ {r} : req'[q] = req[q]
      /\ req'[r] = [req[r] EXCEPT !.pc = pc]
  BY <1>1, <1>2
<1> QED
  BY <1>1, <1>3 DEF Moved, Same, Records

LEMMA AnswerMoves ==
  ASSUME RequestsOK, NEW r \in Requests, NEW status \in Nat, Answer(r, status)
  PROVE  Moved(r, "answered", status)
<1>1. req[r] \in Records /\ DOMAIN req = Requests
  BY DEF RequestsOK, HasRead
<1>2. req' = [req EXCEPT ![r] = [req[r] EXCEPT !.pc = "answered", !.status = status]]
  BY DEF Answer
<1>3. /\ DOMAIN req' = Requests /\ \A q \in Requests \ {r} : req'[q] = req[q]
      /\ req'[r] = [req[r] EXCEPT !.pc = "answered", !.status = status]
  BY <1>1, <1>2
<1> QED
  BY <1>1, <1>3 DEF Moved, Same, Records

LEMMA TokensAreRows ==
  ASSUME StateOK
  PROVE  \A n \in DOMAIN tokens : tokens[n] \in Rows
<1>1. tokens \in Seq(Rows)
  BY DEF StateOK
<1> QED
  BY <1>1

LEMMA UnchangedGrows ==
  ASSUME UNCHANGED <<users, tokens>>
  PROVE  Grows(users, tokens, users', tokens')
BY DEF Grows

LEMMA RequestsStay ==
  ASSUME RequestsOK, NEW r \in Requests, DOMAIN req' = Requests,
         \A q \in Requests \ {r} : req'[q] = req[q],
         Grows(users, tokens, users', tokens'),
         HasRead(req'[r], users', tokens'), HasAnswered(req'[r], users', tokens')
  PROVE  RequestsOK'
<1>1. ASSUME NEW q \in Requests
      PROVE  HasRead(req'[q], users', tokens') /\ HasAnswered(req'[q], users', tokens')
  <2>1. CASE q = r
    BY <2>1
  <2>2. CASE q # r
    <3>1. req'[q] = req[q] /\ HasRead(req[q], users, tokens) /\ HasAnswered(req[q], users, tokens)
      BY <2>2 DEF RequestsOK
    <3> QED
      BY <3>1, WhatWasReadStays
  <2> QED
    BY <2>1, <2>2
<1>2. \A q \in Requests : HasRead(req[q], users, tokens)' /\ HasAnswered(req[q], users, tokens)'
  BY <1>1 DEF HasRead, HasAnswered
<1> QED
  BY <1>2 DEF RequestsOK

LEMMA AllRequestsStay ==
  ASSUME RequestsOK, UNCHANGED req, Grows(users, tokens, users', tokens')
  PROVE  RequestsOK'
<1>1. ASSUME NEW q \in Requests
      PROVE  HasRead(req'[q], users', tokens') /\ HasAnswered(req'[q], users', tokens')
  <2>1. req'[q] = req[q] /\ HasRead(req[q], users, tokens) /\ HasAnswered(req[q], users, tokens)
    BY DEF RequestsOK
  <2> QED
    BY <2>1, WhatWasReadStays
<1>2. \A q \in Requests : HasRead(req[q], users, tokens)' /\ HasAnswered(req[q], users, tokens)'
  BY <1>1 DEF HasRead, HasAnswered
<1> QED
  BY <1>2 DEF RequestsOK

-----------------------------------------------------------------------------
(* Steps in which no token changes hands and none is revoked. *)

Calm ==
  /\ UNCHANGED cookie /\ DOMAIN tokens' = DOMAIN tokens
  /\ \A n \in DOMAIN tokens : tokens'[n].revoked = tokens[n].revoked
  /\ Grows(users, tokens, users', tokens')
  /\ \A q \in Requests :
       /\ req'[q].kind = req[q].kind /\ req'[q].browser = req[q].browser
       /\ req'[q].cookie = req[q].cookie /\ req'[q].issued = req[q].issued
       /\ req'[q].pc = "answered" /\ req[q].issued # 0 => req[q].pc = "answered"
       /\ req[q].pc \in {"answered", "lost"} => req'[q].pc \in {"answered", "lost"}

LEMMA CalmKeepsWhoKnows ==
  ASSUME OneBrowserKnows, Calm
  PROVE  OneBrowserKnows'
<1>1. ASSUME NEW b \in Browsers, NEW n
      PROVE  Knows(b, n)' => Knows(b, n)
  BY DEF Knows, Calm
<1>2. DOMAIN tokens' = DOMAIN tokens
  BY DEF Calm
<1>3. ASSUME NEW b \in Browsers, NEW c \in Browsers, NEW n \in DOMAIN tokens',
             Knows(b, n)', Knows(c, n)'
      PROVE  b = c
  <2>1. Knows(b, n) /\ Knows(c, n) /\ n \in DOMAIN tokens
    BY <1>1, <1>2, <1>3
  <2> QED
    BY <2>1 DEF OneBrowserKnows
<1> QED
  BY <1>3 DEF OneBrowserKnows

LEMMA CalmKeepsAnswersFresh ==
  ASSUME AnswersAreFresh, RequestsOK, Calm
  PROVE  AnswersAreFresh'
<1> SUFFICES ASSUME NEW r \in Requests, req'[r].pc = "answered", req'[r].issued # 0
             PROVE  /\ ~tokens'[req'[r].issued].revoked
                    /\ \A b \in Browsers : cookie'[b] # req'[r].issued
                    /\ \A q \in Requests :
                         /\ req'[q].cookie # req'[r].issued
                         /\ q # r => req'[q].issued # req'[r].issued
  BY DEF AnswersAreFresh
<1>1. req[r].pc = "answered" /\ req[r].issued # 0 /\ req'[r].issued = req[r].issued
  BY DEF Calm
<1>2. req[r].issued \in DOMAIN tokens
  BY <1>1 DEF RequestsOK, HasAnswered
<1>3. ~tokens'[req'[r].issued].revoked
  BY <1>1, <1>2 DEF AnswersAreFresh, Calm
<1>4. \A b \in Browsers : cookie'[b] # req'[r].issued
  BY <1>1 DEF AnswersAreFresh, Calm
<1>5. \A q \in Requests : /\ req'[q].cookie # req'[r].issued
                          /\ q # r => req'[q].issued # req'[r].issued
  BY <1>1 DEF AnswersAreFresh, Calm
<1> QED
  BY <1>3, <1>4, <1>5

LEMMA CalmKeepsReplacements ==
  ASSUME RevokedIsReplaced, StateOK, Calm
  PROVE  RevokedIsReplaced'
<1> SUFFICES ASSUME NEW b \in Browsers, cookie'[b] # 0, tokens'[cookie'[b]].revoked
             PROVE  \/ users'[tokens'[cookie'[b]].user] = "inactive"
                    \/ \E r \in Requests : Replaces(req[r], b)'
  BY DEF RevokedIsReplaced
<1>1. cookie'[b] = cookie[b] /\ cookie[b] \in DOMAIN tokens
  BY DEF Calm, StateOK
<1>2. tokens[cookie[b]].revoked
  BY <1>1 DEF Calm
<1>3. CASE users[tokens[cookie[b]].user] = "inactive"
  <2>1. tokens[cookie[b]].user \in Emails
    BY <1>1, TokensAreRows DEF Rows
  <2>2. tokens'[cookie[b]].user = tokens[cookie[b]].user
    BY <1>1 DEF Calm, Grows
  <2> QED
    BY <1>1, <1>3, <2>1, <2>2 DEF Calm, Grows
<1>4. ASSUME NEW r \in Requests, Replaces(req[r], b)
      PROVE  Replaces(req[r], b)'
  BY <1>4 DEF Replaces, Calm
<1> QED
  BY <1>1, <1>2, <1>3, <1>4 DEF RevokedIsReplaced

LEMMA NoNewRegistration ==
  ASSUME OneRegistrationWins,
         \A q \in Requests : req'[q].email = req[q].email /\ (req'[q].status = 201 => req[q].status = 201)
  PROVE  OneRegistrationWins'
BY DEF OneRegistrationWins

LEMMA CalmKeepsInv ==
  ASSUME Inv, Calm, StateOK', RequestsOK',
         \A q \in Requests : req'[q].email = req[q].email /\ (req'[q].status = 201 => req[q].status = 201)
  PROVE  Inv'
<1>1. OneRegistrationWins'
  BY NoNewRegistration DEF Inv
<1>2. OneBrowserKnows'
  BY CalmKeepsWhoKnows DEF Inv
<1>3. AnswersAreFresh'
  BY CalmKeepsAnswersFresh DEF Inv
<1>4. RevokedIsReplaced'
  BY CalmKeepsReplacements DEF Inv
<1> QED
  BY <1>1, <1>2, <1>3, <1>4 DEF Inv

(* A handler's step that touches neither the tokens nor the users. *)
LEMMA LookingKeepsInv ==
  ASSUME Inv, UNCHANGED <<users, tokens, cookie, access>>, NEW r \in Requests,
         req[r].pc \in Reading, NEW pc \in Reading \cup {"answered"}, NEW status \in Nat \ {201},
         Moved(r, pc, status), HasRead(req'[r], users, tokens), HasAnswered(req'[r], users, tokens)
  PROVE  Inv'
<1>1. Grows(users, tokens, users', tokens')
  BY UnchangedGrows
<1>2. StateOK'
  BY DEF Inv, StateOK
<1>3. RequestsOK'
  BY <1>1, RequestsStay DEF Inv, Moved
<1>4. req[r].issued = 0
  BY DEF Inv, RequestsOK, HasAnswered
<1>5. Calm
  <2>1. ASSUME NEW q \in Requests
        PROVE  /\ req'[q].kind = req[q].kind /\ req'[q].browser = req[q].browser
               /\ req'[q].cookie = req[q].cookie /\ req'[q].issued = req[q].issued
               /\ req'[q].pc = "answered" /\ req[q].issued # 0 => req[q].pc = "answered"
               /\ req[q].pc \in {"answered", "lost"} => req'[q].pc \in {"answered", "lost"}
    <3>1. CASE q = r
      BY <1>4, <3>1 DEF Moved, Same, Reading
    <3>2. CASE q # r
      BY <3>2 DEF Moved
    <3> QED
      BY <3>1, <3>2
  <2> QED
    BY <1>1, <2>1 DEF Calm
<1>6. \A q \in Requests : req'[q].email = req[q].email /\ (req'[q].status = 201 => req[q].status = 201)
  BY DEF Moved, Same
<1> QED
  BY <1>2, <1>3, <1>5, <1>6, CalmKeepsInv

(* What a request has read stays read when it answers. *)
LEMMA AnsweredHasRead ==
  ASSUME NEW q, NEW p, NEW us, NEW ts, HasRead(q, us, ts), Same(q, p), p.pc \in {"answered", "lost", "done"}
  PROVE  HasRead(p, us, ts)
BY DEF HasRead, Same

LEMMA RefusedHasAnswered ==
  ASSUME NEW q, NEW p, NEW us, NEW ts, HasAnswered(q, us, ts), Same(q, p), p.issued = q.issued,
         p.pc \in {"answered", "lost", "done"}, p.status \notin {200, 201, 204}
  PROVE  HasAnswered(p, us, ts)
BY DEF HasAnswered, Same, Reading

LEMMA RefusalKeepsInv ==
  ASSUME Inv, UNCHANGED <<users, tokens, cookie, access>>, NEW r \in Requests,
         req[r].pc \in Reading, NEW status \in Nat \ {200, 201, 204}, Answer(r, status)
  PROVE  Inv'
<1>1. RequestsOK
  BY DEF Inv
<1>2. Moved(r, "answered", status)
  BY <1>1, AnswerMoves
<1>3. Same(req[r], req'[r]) /\ req'[r].pc = "answered" /\ req'[r].status = status
        /\ req'[r].issued = req[r].issued
  BY <1>2 DEF Moved
<1>4. HasRead(req[r], users, tokens) /\ HasAnswered(req[r], users, tokens)
  BY <1>1 DEF RequestsOK
<1>5. HasRead(req'[r], users, tokens)
  BY <1>3, <1>4, AnsweredHasRead
<1>6. HasAnswered(req'[r], users, tokens)
  BY <1>3, <1>4, RefusedHasAnswered
<1> QED
  BY <1>2, <1>5, <1>6, LookingKeepsInv

(* An answer that is no refusal, and gives nothing. *)
LEMMA ServiceKeepsInv ==
  ASSUME Inv, UNCHANGED <<users, tokens, cookie, access>>, NEW r \in Requests,
         req[r].pc \in Reading, NEW status \in {200, 204}, Answer(r, status),
         req[r].kind \in {"me", "stream", "deactivate"} => req[r].access \notin req[r].off
  PROVE  Inv'
<1>1. RequestsOK
  BY DEF Inv
<1>2. Moved(r, "answered", status)
  BY <1>1, AnswerMoves
<1>3. Same(req[r], req'[r]) /\ req'[r].pc = "answered" /\ req'[r].status = status
        /\ req'[r].issued = req[r].issued
  BY <1>2 DEF Moved
<1>4. HasRead(req[r], users, tokens) /\ HasAnswered(req[r], users, tokens)
  BY <1>1 DEF RequestsOK
<1>5. HasRead(req'[r], users, tokens)
  BY <1>3, <1>4, AnsweredHasRead
<1>6. HasAnswered(req'[r], users, tokens)
  BY <1>3, <1>4 DEF HasAnswered, Same, Reading
<1> QED
  BY <1>2, <1>5, <1>6, LookingKeepsInv

(* A step inside a handler. *)
LEMMA StepKeepsInv ==
  ASSUME Inv, UNCHANGED <<users, tokens, cookie, access>>, NEW r \in Requests,
         req[r].pc \in Reading, NEW pc \in Reading \ {"unsent"}, Step(r, pc),
         HasRead([req[r] EXCEPT !.pc = pc], users, tokens)
  PROVE  Inv'
<1>1. RequestsOK
  BY DEF Inv
<1>2. Moved(r, pc, req[r].status)
  BY <1>1, StepMoves
<1>3. req[r].status = 0 /\ HasAnswered(req[r], users, tokens) /\ req[r] \in Records
  BY <1>1 DEF RequestsOK, HasAnswered, HasRead
<1>4. Same(req[r], req'[r]) /\ req'[r].pc = pc /\ req'[r].status = req[r].status
        /\ req'[r].issued = req[r].issued
  BY <1>2 DEF Moved
<1>5. req'[r] = [req[r] EXCEPT !.pc = pc]
  BY <1>1 DEF Step, RequestsOK
<1>6. HasRead(req'[r], users, tokens)
  BY <1>5
<1>7. HasAnswered(req'[r], users, tokens)
  BY <1>3, <1>4 DEF HasAnswered, Same
<1> QED
  BY <1>2, <1>3, <1>6, <1>7, LookingKeepsInv

-----------------------------------------------------------------------------
(* The handlers that look, and answer or go on. *)

LEMMA LookUpEmailKeepsInv ==
  ASSUME Inv, NEW r \in Requests, LookUpEmail(r)
  PROVE  Inv'
<1>1. req[r].pc \in Reading /\ req[r].kind = "register" /\ UNCHANGED <<users, tokens, cookie, access>>
  BY DEF LookUpEmail, At, Reading
<1>2. CASE Answer(r, 409)
  BY <1>1, <1>2, RefusalKeepsInv
<1>3. CASE Step(r, "insert")
  <2>1. HasRead(req[r], users, tokens)
    BY DEF Inv, RequestsOK
  <2>2. HasRead([req[r] EXCEPT !.pc = "insert"], users, tokens)
    BY <1>1, <2>1 DEF HasRead, Records, Reading
  <2>3. "insert" \in Reading \ {"unsent"}
    BY DEF Reading
  <2> QED
    BY <1>1, <1>3, <2>2, <2>3, StepKeepsInv
<1> QED
  BY <1>2, <1>3 DEF LookUpEmail

LEMMA LoginKeepsInv ==
  ASSUME Inv, NEW r \in Requests, login(r)
  PROVE  Inv'
<1>1. /\ req[r].pc = "sent" /\ req[r].pc \in Reading /\ req[r].kind = "login"
      /\ UNCHANGED <<users, tokens, cookie, access>>
  BY DEF login, At, Reading
<1>2. HasRead(req[r], users, tokens)
  BY DEF Inv, RequestsOK
<1>3. req[r].email \in Emails /\ users \in [Emails -> UserStates]
  BY <1>1, <1>2 DEF HasRead, Inv, StateOK
<1>4. \/ Answer(r, 401) \/ Answer(r, 403)
      \/ /\ users[req[r].email] = "active" /\ Step(r, "issue")
  BY <1>3 DEF login, UserStates
<1>5. CASE Answer(r, 401)
  BY <1>1, <1>5, RefusalKeepsInv
<1>6. CASE Answer(r, 403)
  BY <1>1, <1>6, RefusalKeepsInv
<1>7. CASE users[req[r].email] = "active" /\ Step(r, "issue")
  <2>1. HasRead([req[r] EXCEPT !.pc = "issue"], users, tokens)
    BY <1>1, <1>2, <1>7 DEF HasRead, Records, Reading
  <2>2. "issue" \in Reading \ {"unsent"}
    BY DEF Reading
  <2> QED
    BY <1>1, <1>7, <2>1, <2>2, StepKeepsInv
<1> QED
  BY <1>4, <1>5, <1>6, <1>7

LEMMA ReadTokenKeepsInv ==
  ASSUME Inv, NEW r \in Requests, ReadToken(r)
  PROVE  Inv'
<1>1. /\ req[r].pc \in Reading /\ req[r].kind = "refresh"
      /\ UNCHANGED <<users, tokens, cookie, access>>
  BY DEF ReadToken, At, Reading
<1>2. CASE Answer(r, 401)
  BY <1>1, <1>2, RefusalKeepsInv
<1>3. CASE Valid(req[r].cookie) /\ Step(r, "user")
  <2>1. HasRead(req[r], users, tokens)
    BY DEF Inv, RequestsOK
  <2>2. req[r].cookie # 0 /\ req[r].cookie \notin req[r].revoked
    BY <1>3, <2>1 DEF HasRead, Valid
  <2>3. HasRead([req[r] EXCEPT !.pc = "user"], users, tokens)
    BY <1>1, <2>1, <2>2 DEF HasRead, Records, Reading
  <2>4. "user" \in Reading \ {"unsent"}
    BY DEF Reading
  <2> QED
    BY <1>1, <1>3, <2>3, <2>4, StepKeepsInv
<1> QED
  BY <1>2, <1>3 DEF ReadToken

(* The user is active: the handler goes on to issue. *)
LEMMA ReadActiveUserKeepsInv ==
  ASSUME Inv, NEW r \in Requests, ReadUser(r), users[Row(r).user] = "active"
  PROVE  Inv'
<1>1. /\ req[r].pc = "user" /\ req[r].pc \in Reading /\ req[r].kind = "refresh" /\ Step(r, "issue")
      /\ UNCHANGED <<users, tokens, cookie, access>>
  BY DEF ReadUser, At, Reading
<1>2. HasRead(req[r], users, tokens)
  BY DEF Inv, RequestsOK
<1>3. req[r].cookie # 0 /\ req[r].cookie \notin req[r].revoked /\ tokens[req[r].cookie].user \notin req[r].off
  BY <1>1, <1>2 DEF HasRead, Row
<1>4. HasRead([req[r] EXCEPT !.pc = "issue"], users, tokens)
  BY <1>1, <1>2, <1>3 DEF HasRead, Records, Reading
<1>5. "issue" \in Reading \ {"unsent"}
  BY DEF Reading
<1> QED
  BY <1>1, <1>4, <1>5, StepKeepsInv

LEMMA LogoutLookUpKeepsInv ==
  ASSUME Inv, NEW r \in Requests, LogoutLookUp(r)
  PROVE  Inv'
<1>1. /\ req[r].pc \in Reading /\ req[r].kind = "logout"
      /\ UNCHANGED <<users, tokens, cookie, access>>
  BY DEF LogoutLookUp, At, Reading
<1>2. CASE Answer(r, 204)
  BY <1>1, <1>2, ServiceKeepsInv
<1>3. CASE req[r].cookie # 0 /\ Step(r, "revoke")
  <2>1. HasRead(req[r], users, tokens)
    BY DEF Inv, RequestsOK
  <2>2. HasRead([req[r] EXCEPT !.pc = "revoke"], users, tokens)
    BY <1>1, <1>3, <2>1 DEF HasRead, Records, Reading
  <2>3. "revoke" \in Reading \ {"unsent"}
    BY DEF Reading
  <2> QED
    BY <1>1, <1>3, <2>2, <2>3, StepKeepsInv
<1> QED
  BY <1>2, <1>3 DEF LogoutLookUp

(* A user that is active now was not inactive when the request was sent. *)
LEMMA CurrentUserIsOn ==
  ASSUME Inv, NEW r \in Requests, get_current_user(r)
  PROVE  req[r].access \notin req[r].off
BY DEF Inv, RequestsOK, HasRead, get_current_user

LEMMA MeKeepsInv ==
  ASSUME Inv, NEW r \in Requests, me(r)
  PROVE  Inv'
<1>1. req[r].pc \in Reading /\ UNCHANGED <<users, tokens, cookie, access>>
  BY DEF me, At, Reading
<1>2. CASE get_current_user(r)
  <2>1. Answer(r, 200)
    BY <1>2 DEF me
  <2> QED
    BY <1>1, <1>2, <2>1, CurrentUserIsOn, ServiceKeepsInv
<1>3. CASE ~get_current_user(r)
  <2>1. Answer(r, 401)
    BY <1>3 DEF me
  <2> QED
    BY <1>1, <2>1, RefusalKeepsInv
<1> QED
  BY <1>2, <1>3

LEMMA AdminKeepsInv ==
  ASSUME Inv, NEW r \in Requests, get_current_admin(r)
  PROVE  Inv'
<1>1. /\ req[r].pc = "sent" /\ req[r].pc \in Reading /\ req[r].kind = "deactivate"
      /\ UNCHANGED <<users, tokens, cookie, access>>
  BY DEF get_current_admin, At, Reading
<1>2. \/ Answer(r, 401) \/ Answer(r, 403) \/ Answer(r, 404)
      \/ get_current_user(r) /\ users[req[r].email] # "absent" /\ Step(r, "deactivate")
  BY DEF get_current_admin
<1>3. CASE Answer(r, 401)
  BY <1>1, <1>3, RefusalKeepsInv
<1>4. CASE Answer(r, 403)
  BY <1>1, <1>4, RefusalKeepsInv
<1>5. CASE Answer(r, 404)
  BY <1>1, <1>5, RefusalKeepsInv
<1>6. CASE get_current_user(r) /\ users[req[r].email] # "absent" /\ Step(r, "deactivate")
  <2>1. HasRead(req[r], users, tokens)
    BY DEF Inv, RequestsOK
  <2>2. req[r].access \notin req[r].off
    BY <1>6, CurrentUserIsOn
  <2>3. HasRead([req[r] EXCEPT !.pc = "deactivate"], users, tokens)
    BY <1>1, <1>6, <2>1, <2>2 DEF HasRead, Records, Reading
  <2>4. "deactivate" \in Reading \ {"unsent"}
    BY DEF Reading
  <2> QED
    BY <1>1, <1>6, <2>3, <2>4, StepKeepsInv
<1> QED
  BY <1>2, <1>3, <1>4, <1>5, <1>6

(* The user of a stream is let in, or refused. *)
LEMMA StreamUserKeepsInv ==
  ASSUME Inv, NEW r \in Requests, stream_user(r)
  PROVE  Inv'
<1>1. /\ req[r].pc = "sent" /\ req[r].pc \in Reading /\ req[r].kind = "stream"
      /\ UNCHANGED <<users, tokens, cookie, access>>
  BY DEF stream_user, At, Reading
<1>2. CASE ~get_current_user(r)
  <2>1. Answer(r, 401)
    BY <1>2 DEF stream_user
  <2> QED
    BY <1>1, <2>1, RefusalKeepsInv
<1>3. CASE get_current_user(r)
  <2>1. Step(r, "open") /\ HasRead(req[r], users, tokens)
    BY <1>3 DEF stream_user, Inv, RequestsOK
  <2>2. req[r].access \notin req[r].off
    BY <1>3, CurrentUserIsOn
  <2>3. HasRead([req[r] EXCEPT !.pc = "open"], users, tokens)
    BY <1>1, <2>1, <2>2 DEF HasRead, Records, Reading
  <2>4. "open" \in Reading \ {"unsent"}
    BY DEF Reading
  <2> QED
    BY <1>1, <2>1, <2>3, <2>4, StepKeepsInv
<1> QED
  BY <1>2, <1>3

(* A stream that is answered, with what its user was let in for. *)
LEMMA StreamKeepsInv ==
  ASSUME Inv, NEW r \in Requests, stream(r)
  PROVE  Inv'
<1>1. req[r].pc = "open" /\ req[r].pc \in Reading /\ UNCHANGED <<users, tokens, cookie, access>>
  BY DEF stream, At, Reading
<1>2. req[r].access \notin req[r].off
  BY <1>1 DEF Inv, RequestsOK, HasRead
<1>3. Answer(r, 400) \/ Answer(r, 200)
  BY DEF stream
<1>4. CASE Answer(r, 400)
  BY <1>1, <1>4, RefusalKeepsInv
<1>5. CASE Answer(r, 200)
  BY <1>1, <1>2, <1>5, ServiceKeepsInv
<1> QED
  BY <1>3, <1>4, <1>5

-----------------------------------------------------------------------------
(* The handlers that write a user, and what happens to browsers and tokens *)
(* outside the handlers.                                                   *)

LEMMA UserWriteIsCalm ==
  ASSUME Inv, UNCHANGED <<tokens, cookie>>, Grows(users, tokens, users', tokens'),
         NEW r \in Requests, req[r].pc \in Reading, NEW status, Moved(r, "answered", status)
  PROVE  Calm
<1>1. req[r].issued = 0
  BY DEF Inv, RequestsOK, HasAnswered
<1>2. ASSUME NEW q \in Requests
      PROVE  /\ req'[q].kind = req[q].kind /\ req'[q].browser = req[q].browser
             /\ req'[q].cookie = req[q].cookie /\ req'[q].issued = req[q].issued
             /\ req'[q].pc = "answered" /\ req[q].issued # 0 => req[q].pc = "answered"
             /\ req[q].pc \in {"answered", "lost"} => req'[q].pc \in {"answered", "lost"}
  <2>1. CASE q = r
    BY <1>1, <2>1 DEF Moved, Same, Reading
  <2>2. CASE q # r
    BY <2>2 DEF Moved
  <2> QED
    BY <2>1, <2>2
<1> QED
  BY <1>2 DEF Calm

(* A user is written: as active if there was none, or as inactive. *)
LEMMA UserWriteGrows ==
  ASSUME StateOK, UNCHANGED <<tokens, cookie, access>>, NEW e \in Emails, NEW s,
         (s = "active" /\ users[e] = "absent") \/ s = "inactive",
         users' = [users EXCEPT ![e] = s]
  PROVE  StateOK' /\ Grows(users, tokens, users', tokens') /\ users'[e] = s
<1>1. users \in [Emails -> UserStates] /\ s \in UserStates
  BY DEF StateOK, UserStates
<1>2. users' \in [Emails -> UserStates] /\ users'[e] = s /\ \A x \in Emails \ {e} : users'[x] = users[x]
  BY <1>1
<1>3. \A x \in Emails : /\ users[x] = "inactive" => users'[x] = "inactive"
                        /\ users[x] # "absent" => users'[x] # "absent"
  BY <1>2
<1>4. \A n \in DOMAIN tokens : users'[tokens[n].user] # "absent"
  <2>1. \A n \in DOMAIN tokens : tokens[n].user \in Emails /\ users[tokens[n].user] # "absent"
    BY TokensAreRows DEF StateOK, Rows
  <2> QED
    BY <1>3, <2>1
<1>5. StateOK'
  BY <1>2, <1>4 DEF StateOK
<1>6. Grows(users, tokens, users', tokens')
  BY <1>3 DEF Grows
<1> QED
  BY <1>2, <1>5, <1>6

LEMMA InsertUserKeepsInv ==
  ASSUME Inv, NEW r \in Requests, InsertUser(r)
  PROVE  Inv'
<1>1. /\ req[r].pc = "insert" /\ req[r].pc \in Reading /\ req[r].kind = "register"
      /\ UNCHANGED <<tokens, cookie, access>>
  BY DEF InsertUser, At, Reading
<1>2. CASE ~UniqueEmail(req[r].email)
  <2>1. UNCHANGED users /\ Answer(r, 500)
    BY <1>2 DEF InsertUser
  <2> QED
    BY <1>1, <2>1, RefusalKeepsInv
<1>3. CASE UniqueEmail(req[r].email)
  <2>1. users' = [users EXCEPT ![req[r].email] = "active"] /\ Answer(r, 201) /\ users[req[r].email] = "absent"
    BY <1>3 DEF InsertUser, UniqueEmail
  <2>2. RequestsOK /\ HasRead(req[r], users, tokens) /\ HasAnswered(req[r], users, tokens)
    BY DEF Inv, RequestsOK
  <2>3. req[r].email \in Emails
    BY <1>1, <2>2 DEF HasRead
  <2>4. StateOK' /\ Grows(users, tokens, users', tokens') /\ users'[req[r].email] = "active"
    BY <1>1, <2>1, <2>3, UserWriteGrows DEF Inv
  <2>5. Moved(r, "answered", 201)
    BY <2>1, <2>2, AnswerMoves
  <2>6. Calm
    BY <1>1, <2>4, <2>5, UserWriteIsCalm
  <2>7. HasRead(req[r], users', tokens') /\ HasAnswered(req[r], users', tokens')
    BY <2>2, <2>4, WhatWasReadStays
  <2>8. /\ Same(req[r], req'[r]) /\ req'[r].pc = "answered" /\ req'[r].status = 201
        /\ req'[r].issued = req[r].issued
    BY <2>5 DEF Moved
  <2>9. HasRead(req'[r], users', tokens')
    BY <2>7, <2>8, AnsweredHasRead
  <2>10. HasAnswered(req'[r], users', tokens')
    BY <1>1, <2>4, <2>7, <2>8 DEF HasAnswered, Same, Reading
  <2>11. RequestsOK'
    BY <2>2, <2>4, <2>5, <2>9, <2>10, RequestsStay DEF Moved
  <2>12. OneRegistrationWins'
    <3>1. ASSUME NEW q \in Requests \ {r}, req'[q].status = 201
          PROVE  req'[q].email # req'[r].email
      <4>1. req'[q] = req[q] /\ users[req[q].email] # "absent"
        BY <2>5, <3>1 DEF Moved, Inv, RequestsOK, HasAnswered
      <4> QED
        BY <2>1, <2>8, <4>1 DEF Same
    <3>2. \A q \in Requests \ {r} : req'[q] = req[q]
      BY <2>5 DEF Moved
    <3>3. ASSUME NEW q \in Requests, NEW s \in Requests, q # s, req'[q].status = 201, req'[s].status = 201
          PROVE  req'[q].email # req'[s].email
      <4>1. CASE q = r
        BY <3>1, <3>3, <4>1
      <4>2. CASE s = r
        BY <3>1, <3>3, <4>2
      <4>3. CASE q # r /\ s # r
        BY <3>2, <3>3, <4>3 DEF Inv, OneRegistrationWins
      <4> QED
        BY <4>1, <4>2, <4>3
    <3> QED
      BY <3>3 DEF OneRegistrationWins
  <2>13. OneBrowserKnows' /\ AnswersAreFresh' /\ RevokedIsReplaced'
    BY <2>6, CalmKeepsWhoKnows, CalmKeepsAnswersFresh, CalmKeepsReplacements DEF Inv
  <2> QED
    BY <2>4, <2>11, <2>12, <2>13 DEF Inv
<1> QED
  BY <1>2, <1>3

LEMMA DeactivateKeepsInv ==
  ASSUME Inv, NEW r \in Requests, deactivate_user(r)
  PROVE  Inv'
<1>1. /\ req[r].pc = "deactivate" /\ req[r].pc \in Reading /\ req[r].kind = "deactivate"
      /\ UNCHANGED <<tokens, cookie, access>> /\ Answer(r, 204)
      /\ users' = [users EXCEPT ![req[r].email] = "inactive"]
  BY DEF deactivate_user, At, Reading
<1>2. RequestsOK /\ HasRead(req[r], users, tokens) /\ HasAnswered(req[r], users, tokens)
  BY DEF Inv, RequestsOK
<1>3. req[r].email \in Emails /\ req[r].access \notin req[r].off
  BY <1>1, <1>2 DEF HasRead
<1>4. StateOK' /\ Grows(users, tokens, users', tokens')
  BY <1>1, <1>3, UserWriteGrows DEF Inv
<1>5. Moved(r, "answered", 204)
  BY <1>1, <1>2, AnswerMoves
<1>6. Calm
  BY <1>1, <1>4, <1>5, UserWriteIsCalm
<1>7. HasRead(req[r], users', tokens') /\ HasAnswered(req[r], users', tokens')
  BY <1>2, <1>4, WhatWasReadStays
<1>8. /\ Same(req[r], req'[r]) /\ req'[r].pc = "answered" /\ req'[r].status = 204
      /\ req'[r].issued = req[r].issued
  BY <1>5 DEF Moved
<1>9. HasRead(req'[r], users', tokens')
  BY <1>7, <1>8, AnsweredHasRead
<1>10. HasAnswered(req'[r], users', tokens')
  BY <1>3, <1>7, <1>8 DEF HasAnswered, Same, Reading
<1>11. RequestsOK'
  BY <1>2, <1>4, <1>5, <1>9, <1>10, RequestsStay DEF Moved
<1>12. \A q \in Requests : req'[q].email = req[q].email /\ (req'[q].status = 201 => req[q].status = 201)
  BY <1>5 DEF Moved, Same
<1> QED
  BY <1>4, <1>6, <1>11, <1>12, CalmKeepsInv

LEMMA LoseKeepsInv ==
  ASSUME Inv, NEW r \in Requests, Lose(r)
  PROVE  Inv'
<1>1. req[r].pc = "answered" /\ Step(r, "lost") /\ UNCHANGED <<users, tokens, cookie, access>>
  BY DEF Lose
<1>2. RequestsOK /\ HasRead(req[r], users, tokens) /\ HasAnswered(req[r], users, tokens)
  BY DEF Inv, RequestsOK
<1>3. Moved(r, "lost", req[r].status)
  BY <1>1, <1>2, StepMoves
<1>4. Grows(users, tokens, users', tokens')
  BY <1>1, UnchangedGrows
<1>5. /\ Same(req[r], req'[r]) /\ req'[r].pc = "lost" /\ req'[r].status = req[r].status
      /\ req'[r].issued = req[r].issued
  BY <1>3 DEF Moved
<1>6. HasRead(req'[r], users, tokens)
  BY <1>2, <1>5, AnsweredHasRead
<1>7. HasAnswered(req'[r], users, tokens)
  BY <1>2, <1>5 DEF HasAnswered, Same, Reading
<1>8. RequestsOK'
  BY <1>1, <1>2, <1>3, <1>4, <1>6, <1>7, RequestsStay DEF Moved
<1>9. StateOK'
  BY <1>1 DEF Inv, StateOK
<1>10. Calm
  <2>1. ASSUME NEW q \in Requests
        PROVE  /\ req'[q].kind = req[q].kind /\ req'[q].browser = req[q].browser
               /\ req'[q].cookie = req[q].cookie /\ req'[q].issued = req[q].issued
               /\ req'[q].pc = "answered" /\ req[q].issued # 0 => req[q].pc = "answered"
               /\ req[q].pc \in {"answered", "lost"} => req'[q].pc \in {"answered", "lost"}
    <3>1. CASE q = r
      BY <1>5, <3>1 DEF Same
    <3>2. CASE q # r
      BY <1>3, <3>2 DEF Moved
    <3> QED
      BY <3>1, <3>2
  <2> QED
    BY <1>1, <1>4, <2>1 DEF Calm
<1>11. \A q \in Requests : req'[q].email = req[q].email /\ (req'[q].status = 201 => req[q].status = 201)
  BY <1>3 DEF Moved, Same
<1> QED
  BY <1>8, <1>9, <1>10, <1>11, CalmKeepsInv

LEMMA ExpireTokenKeepsInv ==
  ASSUME Inv, NEW n \in DOMAIN tokens, ExpireToken(n)
  PROVE  Inv'
<1>1. UNCHANGED <<users, cookie, access, req>> /\ tokens' = [tokens EXCEPT ![n] = [tokens[n] EXCEPT !.expired = TRUE]]
  BY DEF ExpireToken
<1>2. tokens \in Seq(Rows) /\ tokens[n] \in Rows
  BY TokensAreRows DEF Inv, StateOK
<1>3. [tokens[n] EXCEPT !.expired = TRUE] \in Rows
  BY <1>2 DEF Rows
<1>4. tokens' \in Seq(Rows) /\ DOMAIN tokens' = DOMAIN tokens
  BY <1>1, <1>2, <1>3
<1>5. \A m \in DOMAIN tokens : /\ tokens'[m].user = tokens[m].user /\ tokens'[m].parent = tokens[m].parent
                               /\ tokens'[m].revoked = tokens[m].revoked
  BY <1>1, <1>2, TokensAreRows DEF Inv, Rows
<1>6. StateOK'
  BY <1>1, <1>4, <1>5 DEF Inv, StateOK
<1>7. Grows(users, tokens, users', tokens')
  BY <1>1, <1>4, <1>5 DEF Grows
<1>8. RequestsOK'
  BY <1>1, <1>7, AllRequestsStay DEF Inv
<1>9. Calm
  BY <1>1, <1>4, <1>5, <1>7 DEF Calm
<1> QED
  BY <1>1, <1>6, <1>8, <1>9, CalmKeepsInv

LEMMA ExpireAccessKeepsInv ==
  ASSUME Inv, NEW b \in Browsers, ExpireAccess(b)
  PROVE  Inv'
<1>1. UNCHANGED <<users, tokens, cookie, req>> /\ access' = [access EXCEPT ![b] = NoUser]
  BY DEF ExpireAccess
<1>2. Grows(users, tokens, users', tokens')
  BY <1>1, UnchangedGrows
<1>3. StateOK'
  BY <1>1 DEF Inv, StateOK
<1>4. RequestsOK'
  BY <1>1, <1>2, AllRequestsStay DEF Inv
<1>5. Calm
  BY <1>1, <1>2 DEF Calm
<1> QED
  BY <1>1, <1>3, <1>4, <1>5, CalmKeepsInv

LEMMA StillnessKeepsInv ==
  ASSUME Inv, UNCHANGED accountVars
  PROVE  Inv'
<1>1. UNCHANGED <<users, tokens, cookie, req, access>>
  BY DEF accountVars
<1>2. Grows(users, tokens, users', tokens')
  BY <1>1, UnchangedGrows
<1>3. StateOK'
  BY <1>1 DEF Inv, StateOK
<1>4. RequestsOK'
  BY <1>1, <1>2, AllRequestsStay DEF Inv
<1>5. Calm
  BY <1>1, <1>2 DEF Calm
<1> QED
  BY <1>1, <1>3, <1>4, <1>5, CalmKeepsInv

-----------------------------------------------------------------------------
(* A token is revoked, by a logout or because its user is inactive.        *)

LEMMA RevokeGrows ==
  ASSUME StateOK, UNCHANGED <<users, cookie, access>>, NEW n \in DOMAIN tokens,
         tokens' = [tokens EXCEPT ![n].revoked = TRUE]
  PROVE  /\ StateOK' /\ Grows(users, tokens, users', tokens') /\ DOMAIN tokens' = DOMAIN tokens
         /\ \A m \in DOMAIN tokens \ {n} : tokens'[m] = tokens[m]
         /\ tokens'[n].user = tokens[n].user
<1>1. tokens \in Seq(Rows) /\ tokens[n] \in Rows
  BY TokensAreRows DEF StateOK
<1>2. tokens' = [tokens EXCEPT ![n] = [tokens[n] EXCEPT !.revoked = TRUE]]
  OBVIOUS
<1>3. [tokens[n] EXCEPT !.revoked = TRUE] \in Rows
  BY <1>1 DEF Rows
<1>4. tokens' \in Seq(Rows) /\ DOMAIN tokens' = DOMAIN tokens
  BY <1>1, <1>2, <1>3
<1>5. \A m \in DOMAIN tokens \ {n} : tokens'[m] = tokens[m]
  BY <1>2
<1>6. /\ tokens'[n].user = tokens[n].user /\ tokens'[n].parent = tokens[n].parent
      /\ tokens'[n].revoked
  BY <1>1, <1>2 DEF Rows
<1>7. \A m \in DOMAIN tokens : /\ tokens'[m].user = tokens[m].user /\ tokens'[m].parent = tokens[m].parent
                               /\ tokens[m].revoked => tokens'[m].revoked
  BY <1>5, <1>6
<1>8. StateOK'
  BY <1>4, <1>7 DEF StateOK
<1>9. Grows(users, tokens, users', tokens')
  BY <1>4, <1>7 DEF Grows
<1> QED
  BY <1>4, <1>5, <1>6, <1>8, <1>9

LEMMA RevokeKeepsInv ==
  ASSUME Inv, NEW r \in Requests, req[r].pc \in Reading, req[r].kind \in {"refresh", "logout"},
         req[r].cookie # 0, UNCHANGED <<users, cookie, access>>,
         tokens' = [tokens EXCEPT ![req[r].cookie].revoked = TRUE],
         NEW status \in {401, 204}, Answer(r, status),
         req[r].kind = "logout" \/ users[tokens[req[r].cookie].user] = "inactive"
  PROVE  Inv'
<1> DEFINE n == req[r].cookie
<1>1. RequestsOK /\ StateOK /\ HasRead(req[r], users, tokens) /\ HasAnswered(req[r], users, tokens)
  BY DEF Inv, RequestsOK
<1>2. n \in DOMAIN tokens
  BY <1>1 DEF HasRead
<1>3. /\ StateOK' /\ Grows(users, tokens, users', tokens') /\ DOMAIN tokens' = DOMAIN tokens
      /\ \A m \in DOMAIN tokens \ {n} : tokens'[m] = tokens[m]
      /\ tokens'[n].user = tokens[n].user
  BY <1>1, <1>2, RevokeGrows
<1>4. Moved(r, "answered", status)
  BY <1>1, AnswerMoves
<1>5. /\ Same(req[r], req'[r]) /\ req'[r].pc = "answered" /\ req'[r].status = status
      /\ req'[r].issued = req[r].issued /\ req[r].issued = 0
      /\ \A q \in Requests \ {r} : req'[q] = req[q]
  BY <1>1, <1>4 DEF Moved, HasAnswered
<1>6. \A q \in Requests : /\ req'[q].kind = req[q].kind /\ req'[q].browser = req[q].browser
                          /\ req'[q].cookie = req[q].cookie /\ req'[q].issued = req[q].issued
                          /\ req'[q].email = req[q].email
                          /\ req'[q].status = 201 => req[q].status = 201
  BY <1>5 DEF Same
<1>7. RequestsOK'
  <2>1. HasRead(req[r], users', tokens') /\ HasAnswered(req[r], users', tokens')
    BY <1>1, <1>3, WhatWasReadStays
  <2>2. HasRead(req'[r], users', tokens')
    BY <1>5, <2>1, AnsweredHasRead
  <2>3. HasAnswered(req'[r], users', tokens')
    BY <1>5, <2>1 DEF HasAnswered, Same, Reading
  <2> QED
    BY <1>1, <1>3, <1>4, <2>2, <2>3, RequestsStay DEF Moved
<1>8. OneRegistrationWins'
  BY <1>6, NoNewRegistration DEF Inv
<1>9. OneBrowserKnows'
  <2>1. \A b \in Browsers : \A m : Knows(b, m)' => Knows(b, m)
    BY <1>6 DEF Knows
  <2> QED
    BY <1>3, <2>1 DEF OneBrowserKnows, Inv
<1>10. AnswersAreFresh'
  <2> SUFFICES ASSUME NEW q \in Requests, req'[q].pc = "answered", req'[q].issued # 0
               PROVE  /\ ~tokens'[req'[q].issued].revoked
                      /\ \A b \in Browsers : cookie'[b] # req'[q].issued
                      /\ \A p \in Requests :
                           /\ req'[p].cookie # req'[q].issued
                           /\ p # q => req'[p].issued # req'[q].issued
    BY DEF AnswersAreFresh
  <2>1. q # r /\ req[q] = req'[q]
    BY <1>5
  <2>2. /\ ~tokens[req[q].issued].revoked /\ req[q].issued # n
        /\ \A b \in Browsers : cookie[b] # req[q].issued
        /\ \A p \in Requests : /\ req[p].cookie # req[q].issued
                               /\ p # q => req[p].issued # req[q].issued
    BY <2>1 DEF AnswersAreFresh, Inv
  <2>3. req[q].issued \in DOMAIN tokens
    BY <1>1, <2>1 DEF RequestsOK, HasAnswered
  <2>4. ~tokens'[req'[q].issued].revoked
    BY <1>3, <2>1, <2>2, <2>3
  <2>5. \A p \in Requests : /\ req'[p].cookie # req'[q].issued
                            /\ p # q => req'[p].issued # req'[q].issued
    BY <1>6, <2>2
  <2> QED
    BY <2>1, <2>2, <2>4, <2>5
<1>11. RevokedIsReplaced'
  <2> SUFFICES ASSUME NEW b \in Browsers, cookie'[b] # 0, tokens'[cookie'[b]].revoked
               PROVE  \/ users'[tokens'[cookie'[b]].user] = "inactive"
                      \/ \E q \in Requests : Replaces(req[q], b)'
    BY DEF RevokedIsReplaced
  <2>1. cookie'[b] = cookie[b] /\ cookie[b] \in DOMAIN tokens
    BY <1>1 DEF StateOK
  <2>2. CASE cookie[b] = n
    <3>1. Knows(b, n)
      BY <2>2 DEF Knows
    <3>2. Knows(req[r].browser, n) /\ req[r].browser \in Browsers
      BY <1>1 DEF Knows, HasRead, Records
    <3>3. req[r].browser = b
      BY <1>2, <3>1, <3>2 DEF OneBrowserKnows, Inv
    <3>4. CASE req[r].kind = "logout"
      <4>1. Replaces(req[r], b)'
        BY <1>5, <3>3, <3>4 DEF Replaces, Same
      <4> QED
        BY <4>1
    <3>5. CASE users[tokens[n].user] = "inactive"
      BY <1>3, <2>1, <2>2, <3>5
    <3> QED
      BY <3>4, <3>5
  <2>3. CASE cookie[b] # n
    <3>1. tokens'[cookie[b]] = tokens[cookie[b]]
      BY <1>3, <2>1, <2>3
    <3>2. users[tokens[cookie[b]].user] = "inactive" \/ \E q \in Requests : Replaces(req[q], b)
      BY <2>1, <3>1 DEF RevokedIsReplaced, Inv
    <3>3. ASSUME NEW q \in Requests, Replaces(req[q], b)
          PROVE  Replaces(req[q], b)'
      <4>1. q # r
        BY <3>3 DEF Replaces, Reading
      <4> QED
        BY <1>5, <3>3, <4>1 DEF Replaces
    <3> QED
      BY <2>1, <3>1, <3>2, <3>3
  <2> QED
    BY <2>2, <2>3
<1> QED
  BY <1>3, <1>7, <1>8, <1>9, <1>10, <1>11 DEF Inv

LEMMA ReadUserKeepsInv ==
  ASSUME Inv, NEW r \in Requests, ReadUser(r)
  PROVE  Inv'
<1>1. CASE users[Row(r).user] = "active"
  BY <1>1, ReadActiveUserKeepsInv
<1>2. CASE users[Row(r).user] # "active"
  <2>1. /\ req[r].pc = "user" /\ req[r].kind = "refresh" /\ UNCHANGED <<users, cookie, access>>
        /\ Answer(r, 401) /\ tokens' = [tokens EXCEPT ![req[r].cookie].revoked = TRUE]
    BY <1>2 DEF ReadUser, At
  <2>2. req[r].cookie # 0 /\ req[r].cookie \in DOMAIN tokens
    BY <2>1 DEF Inv, RequestsOK, HasRead
  <2>3. users[tokens[req[r].cookie].user] = "inactive"
    <3>1. tokens[req[r].cookie].user \in Emails
      BY <2>2, TokensAreRows DEF Inv, Rows
    <3>2. users[tokens[req[r].cookie].user] \in UserStates /\ users[tokens[req[r].cookie].user] # "absent"
      BY <2>2, <3>1 DEF Inv, StateOK
    <3> QED
      BY <1>2, <3>2 DEF Row, UserStates
  <2>4. req[r].pc \in Reading
    BY <2>1 DEF Reading
  <2> QED
    BY <2>1, <2>2, <2>3, <2>4, RevokeKeepsInv
<1> QED
  BY <1>1, <1>2

LEMMA LogoutRevokeKeepsInv ==
  ASSUME Inv, NEW r \in Requests, LogoutRevoke(r)
  PROVE  Inv'
<1>1. /\ req[r].pc = "revoke" /\ req[r].kind = "logout" /\ UNCHANGED <<users, cookie, access>>
      /\ Answer(r, 204) /\ tokens' = [tokens EXCEPT ![req[r].cookie].revoked = TRUE]
  BY DEF LogoutRevoke, At
<1>2. req[r].pc \in Reading
  BY <1>1 DEF Reading
<1>3. req[r].cookie # 0
  BY <1>1 DEF Inv, RequestsOK, HasRead
<1> QED
  BY <1>1, <1>2, <1>3, RevokeKeepsInv

-----------------------------------------------------------------------------
(* A token is issued, known to nobody before; the one it was rotated from, *)
(* if any, is revoked.                                                     *)

Rotated(r) == IF req[r].kind = "refresh" THEN req[r].cookie ELSE 0

LEMMA NobodyKnowsTheNext ==
  ASSUME StateOK, RequestsOK
  PROVE  /\ Len(tokens) + 1 \in Nat \ {0} /\ Len(tokens) + 1 \notin DOMAIN tokens
         /\ \A b \in Browsers : cookie[b] # Len(tokens) + 1
         /\ \A q \in Requests : req[q].cookie # Len(tokens) + 1 /\ req[q].issued # Len(tokens) + 1
<1>1. tokens \in Seq(Rows)
  BY DEF StateOK
<1>2. Len(tokens) \in Nat /\ DOMAIN tokens = 1..Len(tokens)
  BY <1>1
<1>3. Len(tokens) + 1 \in Nat \ {0} /\ Len(tokens) + 1 \notin {0} \cup DOMAIN tokens
  BY <1>2
<1>4. \A b \in Browsers : cookie[b] \in {0} \cup DOMAIN tokens
  BY DEF StateOK
<1>5. \A q \in Requests : req[q].cookie \in {0} \cup DOMAIN tokens /\ req[q].issued \in {0} \cup DOMAIN tokens
  BY DEF RequestsOK, HasRead, HasAnswered
<1> QED
  BY <1>3, <1>4, <1>5

LEMMA IssueExtends ==
  ASSUME StateOK, RequestsOK, NEW r \in Requests, _issue_tokens(r)
  PROVE  /\ tokens' \in Seq(Rows)
         /\ DOMAIN tokens' = DOMAIN tokens \cup {Len(tokens) + 1}
         /\ \A m \in DOMAIN tokens :
              /\ tokens'[m].user = tokens[m].user /\ tokens'[m].parent = tokens[m].parent
              /\ tokens[m].revoked => tokens'[m].revoked
              /\ m # Rotated(r) => tokens'[m].revoked = tokens[m].revoked
         /\ ~tokens'[Len(tokens) + 1].revoked
         /\ tokens'[Len(tokens) + 1].parent = Rotated(r)
         /\ tokens'[Len(tokens) + 1].user =
              (IF Rotated(r) = 0 THEN req[r].email ELSE tokens[Rotated(r)].user)
<1> DEFINE kept == [m \in DOMAIN tokens |-> [tokens[m] EXCEPT !.revoked = @ \/ m = Rotated(r)]]
           user == IF Rotated(r) = 0 THEN req[r].email ELSE tokens[Rotated(r)].user
           row  == [user |-> user, revoked |-> FALSE, expired |-> FALSE, parent |-> Rotated(r)]
<1>1. tokens' = Append(kept, row)
  BY DEF _issue_tokens, Rotated
<1>2. tokens \in Seq(Rows) /\ Len(tokens) \in Nat /\ DOMAIN tokens = 1..Len(tokens)
  BY DEF StateOK
<1>3. \A m \in DOMAIN tokens : tokens[m] \in Rows
  BY TokensAreRows
<1>4. /\ HasRead(req[r], users, tokens) /\ req[r].pc = "issue" /\ req[r].kind \in {"login", "refresh"}
      /\ Rotated(r) \in {0} \cup DOMAIN tokens /\ Rotated(r) \in Nat
  BY <1>2 DEF RequestsOK, HasRead, _issue_tokens, Rotated
<1>5. user \in Emails
  BY <1>3, <1>4 DEF HasRead, Rows, Rotated
<1>6. row \in Rows
  BY <1>4, <1>5 DEF Rows
<1>7. \A m \in DOMAIN tokens : kept[m] \in Rows
  BY <1>3 DEF Rows
<1>8. kept \in Seq(Rows) /\ Len(kept) = Len(tokens)
  <2>1. kept \in [1..Len(tokens) -> Rows]
    BY <1>2, <1>7
  <2> QED
    BY <1>2, <2>1
<1>9. \A m \in DOMAIN tokens :
        /\ kept[m].user = tokens[m].user /\ kept[m].parent = tokens[m].parent
        /\ tokens[m].revoked => kept[m].revoked
        /\ m # Rotated(r) => kept[m].revoked = tokens[m].revoked
  BY <1>3 DEF Rows
<1> HIDE DEF kept, user, row
<1>10. /\ tokens' \in Seq(Rows) /\ Len(tokens') = Len(tokens) + 1
       /\ \A m \in 1..Len(tokens) : tokens'[m] = kept[m]
       /\ tokens'[Len(tokens) + 1] = row
  BY <1>1, <1>2, <1>6, <1>8
<1>11. DOMAIN tokens' = DOMAIN tokens \cup {Len(tokens) + 1}
  BY <1>2, <1>10
<1>12. row.user = user /\ ~row.revoked /\ row.parent = Rotated(r)
  BY DEF row
<1> QED
  BY <1>2, <1>9, <1>10, <1>11, <1>12 DEF user

LEMMA IssueGrows ==
  ASSUME StateOK, RequestsOK, NEW r \in Requests, _issue_tokens(r)
  PROVE  StateOK' /\ Grows(users, tokens, users', tokens')
<1>1. UNCHANGED <<users, cookie, access>> /\ req[r].pc = "issue"
  BY DEF _issue_tokens
<1>2. HasRead(req[r], users, tokens)
  BY DEF RequestsOK
<1>3. Grows(users, tokens, users', tokens')
  BY <1>1, IssueExtends DEF Grows
<1>4. ASSUME NEW m \in DOMAIN tokens'
      PROVE  users[tokens'[m].user] # "absent"
  <2>1. CASE m \in DOMAIN tokens
    BY <2>1, IssueExtends DEF StateOK
  <2>2. CASE m = Len(tokens) + 1 /\ Rotated(r) = 0
    <3>1. req[r].kind = "login"
      BY <1>1, <1>2, <2>2 DEF HasRead, Rotated
    <3> QED
      BY <1>1, <1>2, <2>2, <3>1, IssueExtends DEF HasRead
  <2>3. CASE m = Len(tokens) + 1 /\ Rotated(r) # 0
    <3>1. Rotated(r) \in DOMAIN tokens
      BY <1>2, <2>3 DEF HasRead, Rotated
    <3> QED
      BY <2>3, <3>1, IssueExtends DEF StateOK
  <2> QED
    BY <2>1, <2>2, <2>3, IssueExtends
<1>5. cookie' \in [Browsers -> {0} \cup DOMAIN tokens']
  <2>1. cookie \in [Browsers -> {0} \cup DOMAIN tokens] /\ DOMAIN tokens \subseteq DOMAIN tokens'
    BY IssueExtends DEF StateOK
  <2> QED
    BY <1>1, <2>1
<1>6. StateOK'
  BY <1>1, <1>4, <1>5, IssueExtends DEF StateOK
<1> QED
  BY <1>3, <1>6

LEMMA IssuedIsRecord ==
  ASSUME NEW q \in Records, NEW n \in Nat
  PROVE  [q EXCEPT !.pc = "answered", !.status = 200, !.issued = n] \in Records
<1>1. PICK p : p = [q EXCEPT !.pc = "answered", !.status = 200]
  OBVIOUS
<1>2. p \in Records
  <2>1. PICK o : o = [q EXCEPT !.pc = "answered"]
    OBVIOUS
  <2>2. o \in Records
    BY <2>1 DEF Records
  <2>3. [o EXCEPT !.status = 200] \in Records
    BY <2>2 DEF Records
  <2>4. p = [o EXCEPT !.status = 200]
    BY <1>1, <2>1, Zenon
  <2> QED
    BY <2>3, <2>4, Zenon
<1>3. [p EXCEPT !.issued = n] \in Records
  BY <1>2 DEF Records
<1>4. [q EXCEPT !.pc = "answered", !.status = 200, !.issued = n] = [p EXCEPT !.issued = n]
  BY <1>1, Zenon
<1> QED
  BY <1>3, <1>4, Zenon

LEMMA IssueKeepsInv ==
  ASSUME Inv, NEW r \in Requests, _issue_tokens(r)
  PROVE  Inv'
<1>0. PICK n : n = Len(tokens) + 1
  OBVIOUS
<1>1. RequestsOK /\ StateOK /\ HasRead(req[r], users, tokens) /\ HasAnswered(req[r], users, tokens)
  BY DEF Inv, RequestsOK
<1>2. StateOK' /\ Grows(users, tokens, users', tokens')
  BY <1>1, IssueGrows
<1>3. /\ n \in Nat \ {0} /\ n \notin DOMAIN tokens
      /\ \A b \in Browsers : cookie[b] # n
      /\ \A q \in Requests : req[q].cookie # n /\ req[q].issued # n
  BY <1>0, <1>1, NobodyKnowsTheNext
<1>4. /\ DOMAIN tokens' = DOMAIN tokens \cup {n}
      /\ \A m \in DOMAIN tokens :
           /\ tokens'[m].user = tokens[m].user
           /\ m # Rotated(r) => tokens'[m].revoked = tokens[m].revoked
      /\ ~tokens'[n].revoked /\ tokens'[n].parent = Rotated(r)
      /\ tokens'[n].user = (IF Rotated(r) = 0 THEN req[r].email ELSE tokens[Rotated(r)].user)
  BY <1>0, <1>1, IssueExtends
<1>5. /\ req[r].pc = "issue" /\ req[r].kind \in {"login", "refresh"} /\ UNCHANGED <<users, cookie, access>>
      /\ req[r].issued = 0
  BY <1>1 DEF _issue_tokens, HasRead, HasAnswered, Reading
<1>6. /\ DOMAIN req' = Requests /\ \A q \in Requests \ {r} : req'[q] = req[q]
      /\ Same(req[r], req'[r])
      /\ req'[r].pc = "answered" /\ req'[r].status = 200 /\ req'[r].issued = n
  <2>1. req[r] \in Records /\ DOMAIN req = Requests
    BY <1>1 DEF RequestsOK, HasRead
  <2>2. req' = [req EXCEPT ![r] = [req[r] EXCEPT !.pc = "answered", !.status = 200, !.issued = n]]
    BY <1>0, ZenonT(60) DEF _issue_tokens
  <2>3. /\ DOMAIN req' = Requests /\ \A q \in Requests \ {r} : req'[q] = req[q]
        /\ req'[r] = [req[r] EXCEPT !.pc = "answered", !.status = 200, !.issued = n]
    BY <2>1, <2>2
  <2>4. req'[r] \in Records
    <3>1. n \in Nat
      BY <1>3
    <3>2. [req[r] EXCEPT !.pc = "answered", !.status = 200, !.issued = n] \in Records
      BY <2>1, <3>1, IssuedIsRecord
    <3> QED
      BY <2>3, <3>2
  <2> QED
    BY <2>1, <2>3, <2>4 DEF Same, Records
<1>7. Rotated(r) \notin req[r].revoked
  <2>1. 0 \notin req[r].revoked
    <3>1. tokens \in Seq(Rows)
      BY <1>1 DEF StateOK
    <3>2. 0 \notin DOMAIN tokens
      BY <3>1
    <3> QED
      BY <1>1, <3>2 DEF HasRead
  <2> QED
    BY <1>1, <1>5, <2>1 DEF HasRead, Rotated
<1>8. tokens'[n].user \notin req[r].off
  BY <1>1, <1>4, <1>5 DEF HasRead, Rotated
<1>9. RequestsOK'
  <2>1. HasRead(req[r], users', tokens') /\ HasAnswered(req[r], users', tokens')
    BY <1>1, <1>2, WhatWasReadStays
  <2>2. HasRead(req'[r], users', tokens')
    BY <1>6, <2>1, AnsweredHasRead
  <2>3. HasAnswered(req'[r], users', tokens')
    BY <1>4, <1>5, <1>6, <1>7, <1>8 DEF HasAnswered, Same, Reading
  <2> QED
    BY <1>1, <1>2, <1>6, <2>2, <2>3, RequestsStay
<1>10. OneRegistrationWins'
  <2>1. \A q \in Requests : req'[q].email = req[q].email /\ (req'[q].status = 201 => req[q].status = 201)
    BY <1>6 DEF Same
  <2> QED
    BY <2>1, NoNewRegistration DEF Inv
<1>11. OneBrowserKnows'
  <2>1. \A b \in Browsers : \A m \in DOMAIN tokens : Knows(b, m)' => Knows(b, m)
    BY <1>3, <1>5, <1>6 DEF Knows, Same
  <2>2. \A b \in Browsers : Knows(b, n)' => b = req[r].browser
    BY <1>3, <1>5, <1>6 DEF Knows, Same
  <2>3. ASSUME NEW b \in Browsers, NEW c \in Browsers, NEW m \in DOMAIN tokens', Knows(b, m)', Knows(c, m)'
        PROVE  b = c
    <3>1. CASE m = n
      BY <2>2, <2>3, <3>1
    <3>2. CASE m \in DOMAIN tokens
      BY <2>1, <2>3, <3>2 DEF OneBrowserKnows, Inv
    <3> QED
      BY <1>4, <3>1, <3>2
  <2> QED
    BY <2>3 DEF OneBrowserKnows
<1>12. AnswersAreFresh'
  <2> SUFFICES ASSUME NEW q \in Requests, req'[q].pc = "answered", req'[q].issued # 0
               PROVE  /\ ~tokens'[req'[q].issued].revoked
                      /\ \A b \in Browsers : cookie'[b] # req'[q].issued
                      /\ \A p \in Requests :
                           /\ req'[p].cookie # req'[q].issued
                           /\ p # q => req'[p].issued # req'[q].issued
    BY DEF AnswersAreFresh
  <2>1. CASE q = r
    <3>1. \A p \in Requests : /\ req'[p].cookie # n
                              /\ p # r => req'[p].issued # n
      BY <1>3, <1>6 DEF Same
    <3> QED
      BY <1>3, <1>4, <1>5, <1>6, <2>1, <3>1
  <2>2. CASE q # r
    <3>1. req'[q] = req[q] /\ req[q].pc = "answered" /\ req[q].issued # 0
      BY <1>6, <2>2
    <3>2. /\ ~tokens[req[q].issued].revoked
          /\ \A b \in Browsers : cookie[b] # req[q].issued
          /\ \A p \in Requests : /\ req[p].cookie # req[q].issued
                                 /\ p # q => req[p].issued # req[q].issued
      BY <3>1 DEF AnswersAreFresh, Inv
    <3>3. req[q].issued \in DOMAIN tokens /\ req[q].issued # Rotated(r)
      BY <1>1, <3>1, <3>2 DEF RequestsOK, HasAnswered, Rotated
    <3>4. ~tokens'[req'[q].issued].revoked
      BY <1>4, <3>1, <3>2, <3>3
    <3>5. \A p \in Requests : /\ req'[p].cookie # req'[q].issued
                              /\ p # q => req'[p].issued # req'[q].issued
      BY <1>3, <1>6, <3>1, <3>2 DEF Same
    <3> QED
      BY <1>5, <3>1, <3>2, <3>4, <3>5
  <2> QED
    BY <2>1, <2>2
<1>13. RevokedIsReplaced'
  <2> SUFFICES ASSUME NEW b \in Browsers, cookie'[b] # 0, tokens'[cookie'[b]].revoked
               PROVE  \/ users'[tokens'[cookie'[b]].user] = "inactive"
                      \/ \E q \in Requests : Replaces(req[q], b)'
    BY DEF RevokedIsReplaced
  <2>1. cookie'[b] = cookie[b] /\ cookie[b] \in DOMAIN tokens
    BY <1>1, <1>5 DEF StateOK
  <2>2. CASE cookie[b] = Rotated(r)
    <3>1. req[r].cookie = cookie[b]
      BY <2>1, <2>2, <1>5 DEF Rotated
    <3>2. Knows(b, cookie[b])
      BY DEF Knows
    <3>3. Knows(req[r].browser, cookie[b]) /\ req[r].browser \in Browsers
      BY <1>1, <3>1 DEF Knows, HasRead, Records
    <3>4. req[r].browser = b
      BY <2>1, <3>2, <3>3 DEF OneBrowserKnows, Inv
    <3>5. Replaces(req[r], b)'
      BY <1>3, <1>6, <3>4 DEF Replaces, Same
    <3> QED
      BY <3>5
  <2>3. CASE cookie[b] # Rotated(r)
    <3>1. tokens'[cookie[b]].user = tokens[cookie[b]].user /\ tokens[cookie[b]].revoked
      BY <1>4, <2>1, <2>3
    <3>2. users[tokens[cookie[b]].user] = "inactive" \/ \E q \in Requests : Replaces(req[q], b)
      BY <2>1, <3>1 DEF RevokedIsReplaced, Inv
    <3>3. ASSUME NEW q \in Requests, Replaces(req[q], b)
          PROVE  Replaces(req[q], b)'
      <4>1. q # r
        BY <1>5, <3>3 DEF Replaces
      <4> QED
        BY <1>6, <3>3, <4>1 DEF Replaces
    <3> QED
      BY <1>5, <2>1, <3>1, <3>2, <3>3
  <2> QED
    BY <2>2, <2>3
<1> QED
  BY <1>2, <1>9, <1>10, <1>11, <1>12, <1>13 DEF Inv

-----------------------------------------------------------------------------
(* An answer arrives, and a request is sent.                               *)

LEMMA ReceiveKeepsInv ==
  ASSUME Inv, NEW r \in Requests, Receive(r)
  PROVE  Inv'
<1> DEFINE b == req[r].browser
<1>1. RequestsOK /\ StateOK /\ HasRead(req[r], users, tokens) /\ HasAnswered(req[r], users, tokens)
  BY DEF Inv, RequestsOK
<1>2. /\ req[r].pc = "answered" /\ Step(r, "done") /\ UNCHANGED <<users, tokens>>
      /\ b \in Browsers /\ req[r].issued \in {0} \cup DOMAIN tokens
  BY <1>1 DEF Receive, HasRead, HasAnswered, Records
<1>3. Moved(r, "done", req[r].status)
  BY <1>1, <1>2, StepMoves
<1>4. /\ Same(req[r], req'[r]) /\ req'[r].pc = "done" /\ req'[r].status = req[r].status
      /\ req'[r].issued = req[r].issued /\ \A q \in Requests \ {r} : req'[q] = req[q]
  BY <1>3 DEF Moved
<1>5. \A q \in Requests : /\ req'[q].kind = req[q].kind /\ req'[q].browser = req[q].browser
                          /\ req'[q].cookie = req[q].cookie /\ req'[q].issued = req[q].issued
                          /\ req'[q].email = req[q].email /\ req'[q].status = req[q].status
  BY <1>4 DEF Same
<1>6. /\ cookie \in [Browsers -> {0} \cup DOMAIN tokens]
      /\ \A c \in Browsers \ {b} : cookie'[c] = cookie[c]
      /\ cookie' \in [Browsers -> {0} \cup DOMAIN tokens]
      /\ req[r].issued # 0 => cookie'[b] = req[r].issued
      /\ req[r].issued = 0 => cookie'[b] = cookie[b] \/ cookie'[b] = 0
      /\ req[r].issued = 0 /\ req[r].kind = "logout" => cookie'[b] = 0
  BY <1>1, <1>2 DEF Receive, StateOK
<1>7. access' \in [Browsers -> Emails \cup {NoUser}]
  <2>1. CASE req[r].issued # 0
    <3>1. tokens[req[r].issued].user \in Emails
      BY <1>1, <1>2, <2>1, TokensAreRows DEF Rows
    <3>2. access' = [access EXCEPT ![b] = tokens[req[r].issued].user]
      BY <2>1 DEF Receive
    <3> QED
      BY <1>1, <3>1, <3>2 DEF StateOK
  <2>2. CASE req[r].issued = 0
    BY <1>1, <2>2 DEF Receive, StateOK
  <2> QED
    BY <2>1, <2>2
<1> HIDE DEF b
<1>8. StateOK'
  BY <1>1, <1>2, <1>6, <1>7 DEF StateOK
<1>9. RequestsOK'
  <2>1. Grows(users, tokens, users', tokens')
    BY <1>2, UnchangedGrows
  <2>2. HasRead(req'[r], users, tokens)
    BY <1>1, <1>4, AnsweredHasRead
  <2>3. HasAnswered(req'[r], users, tokens)
    BY <1>1, <1>4 DEF HasAnswered, Same, Reading
  <2> QED
    BY <1>1, <1>2, <1>3, <2>1, <2>2, <2>3, RequestsStay DEF Moved
<1>10. OneRegistrationWins'
  BY <1>5, NoNewRegistration DEF Inv
<1>11. OneBrowserKnows'
  <2>1. \A m \in DOMAIN tokens : m # 0
    <3>1. tokens \in Seq(Rows)
      BY <1>1 DEF StateOK
    <3> QED
      BY <3>1
  <2>2. ASSUME NEW c \in Browsers, NEW m \in DOMAIN tokens, Knows(c, m)'
        PROVE  Knows(c, m)
    <3>1. CASE cookie'[c] = m /\ c = b /\ req[r].issued # 0
      BY <1>6, <3>1 DEF Knows, b
    <3>2. CASE cookie'[c] = m /\ ~(c = b /\ req[r].issued # 0)
      BY <1>6, <2>1, <3>2 DEF Knows
    <3>3. CASE cookie'[c] # m
      BY <1>5, <2>2, <3>3 DEF Knows
    <3> QED
      BY <3>1, <3>2, <3>3
  <2>3. ASSUME NEW c \in Browsers, NEW d \in Browsers, NEW m \in DOMAIN tokens',
               Knows(c, m)', Knows(d, m)'
        PROVE  c = d
    BY <1>2, <2>2, <2>3 DEF OneBrowserKnows, Inv
  <2> QED
    BY <2>3 DEF OneBrowserKnows
<1>12. AnswersAreFresh'
  <2> SUFFICES ASSUME NEW q \in Requests, req'[q].pc = "answered", req'[q].issued # 0
               PROVE  /\ ~tokens'[req'[q].issued].revoked
                      /\ \A c \in Browsers : cookie'[c] # req'[q].issued
                      /\ \A p \in Requests :
                           /\ req'[p].cookie # req'[q].issued
                           /\ p # q => req'[p].issued # req'[q].issued
    BY DEF AnswersAreFresh
  <2>1. q # r /\ req'[q] = req[q]
    BY <1>4
  <2>2. /\ ~tokens[req[q].issued].revoked
        /\ \A c \in Browsers : cookie[c] # req[q].issued
        /\ \A p \in Requests : /\ req[p].cookie # req[q].issued
                               /\ p # q => req[p].issued # req[q].issued
    BY <2>1 DEF AnswersAreFresh, Inv
  <2>3. \A c \in Browsers : cookie'[c] # req'[q].issued
    BY <1>6, <2>1, <2>2
  <2>4. \A p \in Requests : /\ req'[p].cookie # req'[q].issued
                            /\ p # q => req'[p].issued # req'[q].issued
    BY <1>5, <2>2
  <2> QED
    BY <1>2, <2>1, <2>2, <2>3, <2>4
<1>13. RevokedIsReplaced'
  <2> SUFFICES ASSUME NEW c \in Browsers, cookie'[c] # 0, tokens'[cookie'[c]].revoked
               PROVE  \/ users'[tokens'[cookie'[c]].user] = "inactive"
                      \/ \E q \in Requests : Replaces(req[q], c)'
    BY DEF RevokedIsReplaced
  <2>1. ~(c = b /\ req[r].issued # 0)
    BY <1>2, <1>6 DEF AnswersAreFresh, Inv
  <2>2. cookie'[c] = cookie[c] /\ ~(c = b /\ req[r].kind = "logout")
    BY <1>6, <2>1
  <2>3. users[tokens[cookie[c]].user] = "inactive" \/ \E q \in Requests : Replaces(req[q], c)
    BY <1>2, <2>2 DEF RevokedIsReplaced, Inv
  <2>4. ASSUME NEW q \in Requests, Replaces(req[q], c)
        PROVE  Replaces(req[q], c)'
    <3>1. q # r
      BY <2>1, <2>2, <2>4 DEF Replaces, b
    <3> QED
      BY <1>4, <2>4, <3>1 DEF Replaces
  <2> QED
    BY <1>2, <2>2, <2>3, <2>4
<1> QED
  BY <1>8, <1>9, <1>10, <1>11, <1>12, <1>13 DEF Inv

Sent(q, c, a, gone, off) ==
  [q EXCEPT !.pc = "sent", !.cookie = c, !.access = a, !.revoked = gone, !.off = off]

IsSent(p, q, c, gone, off) ==
  /\ p \in Records /\ p.pc = "sent" /\ p.cookie = c /\ p.revoked = gone /\ p.off = off
  /\ p.kind = q.kind /\ p.browser = q.browser /\ p.email = q.email
  /\ p.status = q.status /\ p.issued = q.issued

LEMMA SentIsRecord ==
  ASSUME NEW q, NEW c, NEW a, NEW gone, NEW off, NEW p,
         q \in Records, c \in Nat, a \in Emails \cup {NoUser},
         gone \in SUBSET Nat, off \in SUBSET Emails,
         p = Sent(q, c, a, gone, off)
  PROVE  IsSent(p, q, c, gone, off)
<1>1. PICK o : o = [q EXCEPT !.pc = "sent"]
  OBVIOUS
<1>2. PICK s : s = [o EXCEPT !.cookie = c]
  OBVIOUS
<1>3. PICK t : t = [s EXCEPT !.access = a]
  OBVIOUS
<1>4. PICK u : u = [t EXCEPT !.revoked = gone]
  OBVIOUS
<1>5. p = [u EXCEPT !.off = off]
  BY <1>1, <1>2, <1>3, <1>4, Zenon DEF Sent
<1>6. /\ o \in Records /\ o.pc = "sent" /\ o.kind = q.kind /\ o.browser = q.browser
      /\ o.email = q.email /\ o.status = q.status /\ o.issued = q.issued
  BY <1>1 DEF Records, Reading
<1>7. /\ s \in Records /\ s.pc = "sent" /\ s.cookie = c /\ s.kind = q.kind /\ s.browser = q.browser
      /\ s.email = q.email /\ s.status = q.status /\ s.issued = q.issued
  BY <1>2, <1>6 DEF Records
<1>8. /\ t \in Records /\ t.pc = "sent" /\ t.cookie = c /\ t.kind = q.kind /\ t.browser = q.browser
      /\ t.email = q.email /\ t.status = q.status /\ t.issued = q.issued
  BY <1>3, <1>7 DEF Records
<1>9. /\ u \in Records /\ u.pc = "sent" /\ u.cookie = c /\ u.revoked = gone /\ u.kind = q.kind
      /\ u.browser = q.browser /\ u.email = q.email /\ u.status = q.status /\ u.issued = q.issued
  BY <1>4, <1>8 DEF Records
<1> QED
  BY <1>5, <1>9 DEF Records, IsSent

LEMMA SendKeepsInv ==
  ASSUME Inv, NEW r \in Requests, Send(r)
  PROVE  Inv'
<1>1. RequestsOK /\ StateOK /\ HasRead(req[r], users, tokens) /\ HasAnswered(req[r], users, tokens)
  BY DEF Inv, RequestsOK
<1>2. req[r].pc = "unsent" /\ UNCHANGED <<users, tokens, cookie, access>>
  BY DEF Send
<1>3. /\ req[r] \in Records /\ DOMAIN req = Requests /\ req[r].browser \in Browsers
      /\ req[r].status = 0 /\ req[r].issued = 0
  BY <1>1, <1>2 DEF RequestsOK, HasRead, HasAnswered, Records, Reading
<1>4. /\ cookie[req[r].browser] \in {0} \cup DOMAIN tokens /\ cookie[req[r].browser] \in Nat
      /\ access[req[r].browser] \in Emails \cup {NoUser}
      /\ Revoked \in SUBSET Nat /\ Inactive \in SUBSET Emails
  <2>1. tokens \in Seq(Rows)
    BY <1>1 DEF StateOK
  <2>2. DOMAIN tokens \subseteq Nat
    BY <2>1
  <2>3. Revoked \in SUBSET Nat /\ Inactive \in SUBSET Emails
    BY <2>2 DEF Revoked, Inactive
  <2>4. cookie[req[r].browser] \in {0} \cup DOMAIN tokens
    BY <1>1, <1>3 DEF StateOK
  <2>5. cookie[req[r].browser] \in Nat
    BY <2>2, <2>4
  <2> QED
    BY <1>1, <1>3, <2>3, <2>4, <2>5 DEF StateOK
<1>5. /\ req'[r] = Sent(req[r], cookie[req[r].browser], access[req[r].browser], Revoked, Inactive)
      /\ DOMAIN req' = Requests /\ \A q \in Requests \ {r} : req'[q] = req[q]
  <2>1. req' = [req EXCEPT ![r] =
                  Sent(req[r], cookie[req[r].browser], access[req[r].browser], Revoked, Inactive)]
    BY DEF Send, Sent
  <2>2. ASSUME NEW p, req' = [req EXCEPT ![r] = p]
        PROVE  req'[r] = p /\ DOMAIN req' = Requests /\ \A q \in Requests \ {r} : req'[q] = req[q]
    BY <1>3, <2>2
  <2> QED
    BY <2>1, <2>2, Zenon
<1>6. /\ req'[r] \in Records /\ req'[r].pc = "sent" /\ req'[r].cookie = cookie[req[r].browser]
      /\ req'[r].revoked = Revoked /\ req'[r].off = Inactive
      /\ req'[r].kind = req[r].kind /\ req'[r].browser = req[r].browser /\ req'[r].email = req[r].email
      /\ req'[r].status = req[r].status /\ req'[r].issued = req[r].issued
  <2>1. PICK q, c, a, gone, off, p :
          /\ q = req[r] /\ c = cookie[req[r].browser] /\ a = access[req[r].browser]
          /\ gone = Revoked /\ off = Inactive /\ p = req'[r]
    OBVIOUS
  <2>2. p = Sent(q, c, a, gone, off)
    BY <1>5, <2>1
  <2>3. /\ q \in Records /\ c \in Nat /\ a \in Emails \cup {NoUser}
        /\ gone \in SUBSET Nat /\ off \in SUBSET Emails
    BY <1>3, <1>4, <2>1
  <2>4. IsSent(p, q, c, gone, off)
    BY <2>2, <2>3, SentIsRecord
  <2> QED
    BY <2>1, <2>4 DEF IsSent
<1>7. HasRead(req'[r], users, tokens)
  <2>1. \A n \in Revoked : n \in DOMAIN tokens /\ tokens[n].revoked
    BY DEF Revoked
  <2>2. \A e \in Inactive : users[e] = "inactive"
    BY DEF Inactive
  <2> QED
    BY <1>1, <1>4, <1>6, <2>1, <2>2 DEF HasRead
<1>8. HasAnswered(req'[r], users, tokens)
  BY <1>1, <1>3, <1>6 DEF HasAnswered
<1>9. StateOK'
  BY <1>1, <1>2 DEF StateOK
<1>10. RequestsOK'
  <2>1. Grows(users, tokens, users', tokens')
    BY <1>2, UnchangedGrows
  <2> QED
    BY <1>1, <1>2, <1>5, <1>7, <1>8, <2>1, RequestsStay
<1>11. \A q \in Requests : /\ req'[q].kind = req[q].kind /\ req'[q].browser = req[q].browser
                           /\ req'[q].issued = req[q].issued
                           /\ req'[q].email = req[q].email /\ req'[q].status = req[q].status
                           /\ \/ req'[q].cookie = req[q].cookie
                              \/ req'[q].cookie = cookie[req[q].browser]
  BY <1>5, <1>6
<1>12. OneRegistrationWins'
  BY <1>11, NoNewRegistration DEF Inv
<1>13. OneBrowserKnows'
  <2>1. \A b \in Browsers : \A n : Knows(b, n)' => Knows(b, n)
    BY <1>2, <1>11 DEF Knows
  <2> QED
    BY <1>2, <2>1 DEF OneBrowserKnows, Inv
<1>14. AnswersAreFresh'
  <2> SUFFICES ASSUME NEW q \in Requests, req'[q].pc = "answered", req'[q].issued # 0
               PROVE  /\ ~tokens'[req'[q].issued].revoked
                      /\ \A b \in Browsers : cookie'[b] # req'[q].issued
                      /\ \A p \in Requests :
                           /\ req'[p].cookie # req'[q].issued
                           /\ p # q => req'[p].issued # req'[q].issued
    BY DEF AnswersAreFresh
  <2>1. q # r /\ req'[q] = req[q]
    BY <1>5, <1>6
  <2>2. /\ ~tokens[req[q].issued].revoked
        /\ \A b \in Browsers : cookie[b] # req[q].issued
        /\ \A p \in Requests : /\ req[p].cookie # req[q].issued
                               /\ p # q => req[p].issued # req[q].issued
    BY <2>1 DEF AnswersAreFresh, Inv
  <2>3. \A p \in Requests : req[p].browser \in Browsers
    BY <1>1 DEF RequestsOK, HasRead, Records
  <2>4. \A p \in Requests : /\ req'[p].cookie # req'[q].issued
                            /\ p # q => req'[p].issued # req'[q].issued
    BY <1>11, <2>1, <2>2, <2>3
  <2> QED
    BY <1>2, <2>1, <2>2, <2>4
<1>15. RevokedIsReplaced'
  <2> SUFFICES ASSUME NEW b \in Browsers, cookie'[b] # 0, tokens'[cookie'[b]].revoked
               PROVE  \/ users'[tokens'[cookie'[b]].user] = "inactive"
                      \/ \E q \in Requests : Replaces(req[q], b)'
    BY DEF RevokedIsReplaced
  <2>1. users[tokens[cookie[b]].user] = "inactive" \/ \E q \in Requests : Replaces(req[q], b)
    BY <1>2 DEF RevokedIsReplaced, Inv
  <2>2. ASSUME NEW q \in Requests, Replaces(req[q], b)
        PROVE  Replaces(req[q], b)'
    <3>1. q # r
      BY <1>2, <2>2 DEF Replaces
    <3> QED
      BY <1>5, <2>2, <3>1 DEF Replaces
  <2> QED
    BY <1>2, <2>1, <2>2
<1> QED
  BY <1>9, <1>10, <1>12, <1>13, <1>14, <1>15 DEF Inv

-----------------------------------------------------------------------------
(* The starts, and the theorems.                                           *)

AtStart(kind, b, email, pc) == [Planned(kind, b, email) EXCEPT !.pc = pc]

LEMMA PlannedIsFresh ==
  ASSUME NEW kind \in Kinds, NEW b \in Browsers, NEW email \in Emails \cup {NoUser},
         NEW pc \in {"unsent", "done"}, kind \in {"register", "login", "deactivate"} => email \in Emails,
         NEW q, q = AtStart(kind, b, email, pc), NEW us, NEW ts
  PROVE  HasRead(q, us, ts) /\ HasAnswered(q, us, ts) /\ q.cookie = 0 /\ q.issued = 0 /\ q.status = 0
<1>1. q = [pc |-> pc, kind |-> kind, browser |-> b, email |-> email, cookie |-> 0, access |-> NoUser,
           status |-> 0, issued |-> 0, revoked |-> {}, off |-> {}]
  BY DEF Planned, AtStart
<1>2. q \in Records
  <2>1. pc \in Reading \cup {"answered", "done", "lost"}
    BY DEF Reading
  <2> QED
    BY <1>1, <2>1 DEF Records
<1> QED
  BY <1>1, <1>2 DEF HasRead, HasAnswered

LEMMA InitInv ==
  ASSUME Init
  PROVE  Inv
<1>1. PICK s \in Starts : users = s.users /\ tokens = s.tokens /\ cookie = s.cookie
                          /\ access = s.access /\ req = s.req
  BY DEF Init
<1>2. IsStart(s)
  BY <1>1, StartsAssumption
<1>3. tokens \in Seq(Rows)
  <2>1. s.tokens \in Seq([user : Emails, revoked : BOOLEAN, expired : BOOLEAN, parent : {0}])
    BY <1>2 DEF IsStart
  <2>2. PICK A : A = [user : Emails, revoked : BOOLEAN, expired : BOOLEAN, parent : {0}]
    OBVIOUS
  <2>3. A \subseteq Rows
    BY <2>2 DEF Rows
  <2>4. tokens \in Seq(A)
    BY <1>1, <2>1, <2>2
  <2>5. Len(tokens) \in Nat /\ tokens \in [1..Len(tokens) -> A]
    BY <2>4
  <2>6. tokens \in [1..Len(tokens) -> Rows]
    BY <2>3, <2>5
  <2> QED
    BY <2>5, <2>6
<1>4. /\ users \in [Emails -> UserStates] /\ cookie \in [Browsers -> {0} \cup DOMAIN tokens]
      /\ access \in [Browsers -> Emails \cup {NoUser}]
      /\ \A n \in DOMAIN tokens : users[tokens[n].user] # "absent"
  BY <1>1, <1>2 DEF IsStart, UserStates
<1>5. \A b \in Browsers : cookie[b] # 0 =>
        ~tokens[cookie[b]].revoked /\ \A c \in Browsers \ {b} : cookie[c] # cookie[b]
  BY <1>1, <1>2 DEF IsStart
<1>6. DOMAIN req = Requests
  BY <1>1, <1>2 DEF IsStart
<1>7. ASSUME NEW r \in Requests
      PROVE  /\ HasRead(req[r], users, tokens) /\ HasAnswered(req[r], users, tokens)
             /\ req[r].cookie = 0 /\ req[r].issued = 0 /\ req[r].status = 0
  <2>1. PICK kind \in Kinds, b \in Browsers, email \in Emails \cup {NoUser}, pc \in {"unsent", "done"} :
          /\ req[r] = AtStart(kind, b, email, pc)
          /\ kind \in {"register", "login", "deactivate"} => email \in Emails
    <3>1. \E kind \in Kinds, b \in Browsers, email \in Emails \cup {NoUser}, pc \in {"unsent", "done"} :
            /\ s.req[r] = AtStart(kind, b, email, pc)
            /\ kind \in {"register", "login", "deactivate"} => email \in Emails
      BY <1>2, Zenon DEF IsStart, AtStart
    <3> QED
      BY <1>1, <3>1, Zenon
  <2> QED
    BY <2>1, PlannedIsFresh
<1>8. StateOK
  BY <1>3, <1>4 DEF StateOK
<1>9. RequestsOK /\ OneRegistrationWins /\ AnswersAreFresh
  BY <1>6, <1>7 DEF RequestsOK, OneRegistrationWins, AnswersAreFresh
<1>10. OneBrowserKnows
  <2>1. \A n \in DOMAIN tokens : n # 0
    BY <1>3
  <2>2. \A b \in Browsers : \A n \in DOMAIN tokens : Knows(b, n) => cookie[b] = n
    BY <1>7, <2>1 DEF Knows
  <2> QED
    BY <1>5, <2>1, <2>2 DEF OneBrowserKnows
<1>11. RevokedIsReplaced
  BY <1>5 DEF RevokedIsReplaced
<1> QED
  BY <1>8, <1>9, <1>10, <1>11 DEF Inv

LEMMA HandleKeepsInv ==
  ASSUME Inv, NEW r \in Requests, Handle(r)
  PROVE  Inv'
<1>1. CASE LookUpEmail(r)        BY <1>1, LookUpEmailKeepsInv
<1>2. CASE InsertUser(r)         BY <1>2, InsertUserKeepsInv
<1>3. CASE login(r)              BY <1>3, LoginKeepsInv
<1>4. CASE ReadToken(r)          BY <1>4, ReadTokenKeepsInv
<1>5. CASE ReadUser(r)           BY <1>5, ReadUserKeepsInv
<1>6. CASE _issue_tokens(r)      BY <1>6, IssueKeepsInv
<1>7. CASE LogoutLookUp(r)       BY <1>7, LogoutLookUpKeepsInv
<1>8. CASE LogoutRevoke(r)       BY <1>8, LogoutRevokeKeepsInv
<1>9. CASE me(r)                 BY <1>9, MeKeepsInv
<1>10. CASE get_current_admin(r) BY <1>10, AdminKeepsInv
<1>11. CASE deactivate_user(r)   BY <1>11, DeactivateKeepsInv
<1> QED
  BY <1>1, <1>2, <1>3, <1>4, <1>5, <1>6, <1>7, <1>8, <1>9, <1>10, <1>11 DEF Handle

LEMMA NextKeepsInv ==
  ASSUME Inv, [Next]_vars
  PROVE  Inv'
<1>1. CASE AccountsNext
  <2>1. CASE \E r \in Requests : Send(r) \/ Handle(r) \/ Receive(r) \/ Lose(r)
    <3>1. PICK r \in Requests : Send(r) \/ Handle(r) \/ Receive(r) \/ Lose(r)
      BY <2>1
    <3> QED
      BY <3>1, SendKeepsInv, HandleKeepsInv, ReceiveKeepsInv, LoseKeepsInv
  <2>2. CASE \E n \in DOMAIN tokens : ExpireToken(n)
    BY <2>2, ExpireTokenKeepsInv
  <2>3. CASE \E b \in Browsers : ExpireAccess(b)
    BY <2>3, ExpireAccessKeepsInv
  <2> QED
    BY <1>1, <2>1, <2>2, <2>3 DEF AccountsNext
<1>2. CASE StreamingNext /\ UNCHANGED accountVars
  BY <1>2, StillnessKeepsInv
<1>3. CASE \E r \in Requests : stream_user(r) \/ stream(r)
  BY <1>3, StreamUserKeepsInv, StreamKeepsInv
<1>4. CASE UNCHANGED vars
  <2>1. UNCHANGED accountVars
    BY <1>4 DEF vars
  <2> QED
    BY <2>1, StillnessKeepsInv
<1> QED
  BY <1>1, <1>2, <1>3, <1>4 DEF Next

(* Every state of the API keeps the invariant, whatever overlaps.          *)
LEMMA AlwaysInv == Spec => []Inv
<1>1. Init => Inv
  BY InitInv
<1>2. Inv /\ [Next]_vars => Inv'
  BY NextKeepsInv
<1> QED
  BY <1>1, <1>2, PTL DEF Spec

(* A token that was revoked, an account that was deactivated or an address *)
(* that was registered is not given again by any request of auth.py or     *)
(* admin.py that is sent later: for any number of browsers and of requests *)
(* under way, whatever each has read before another commits.               *)
THEOREM NothingIsGivenAgain == Spec => []TakenBackIsGone
<1>1. Inv => TakenBackIsGone
  <2>1. Inv => RevokedIsNotRotated
    BY DEF Inv, RequestsOK, HasAnswered, RevokedIsNotRotated
  <2>2. Inv => NothingAfterDeactivation
    BY DEF Inv, RequestsOK, HasAnswered, NothingAfterDeactivation
  <2> QED
    BY <2>1, <2>2 DEF TakenBackIsGone, Inv
<1> QED
  BY <1>1, AlwaysInv, PTL

(* A browser none of whose requests is under way or was lost has a cookie  *)
(* that a refresh will take, or none, unless its user was deactivated: the *)
(* answers of overlapping refreshes and logouts may come in any order.     *)
THEOREM QuietBrowsersAreInOrOut == Spec => []QuietBrowserIsInOrOut
<1>1. Inv => QuietBrowserIsInOrOut
  BY DEF Inv, RevokedIsReplaced, Replaces, QuietBrowserIsInOrOut
<1> QED
  BY <1>1, AlwaysInv, PTL

-----------------------------------------------------------------------------
(* The feed.  Messages carry the provider's count, so being in order is a  *)
(* matter of counts, and a part of the feed is the set of its messages.    *)

Messages == STRING \X STRING \X Nat

LEMMA MembersAreTyped ==
  ASSUME NEW S, NEW s \in Seq(S)
  PROVE  Members(s) \subseteq S
BY DEF Members

LEMMA AppendedMessage ==
  ASSUME NEW s \in Seq(Messages), NEW m \in Messages
  PROVE  /\ Append(s, m) \in Seq(Messages)
         /\ Members(Append(s, m)) = Members(s) \cup {m}
         /\ Increasing(s) /\ (\A k \in Members(s) : k[3] < m[3]) => Increasing(Append(s, m))
<1>1. PICK t : t = Append(s, m)
  OBVIOUS
<1>2. /\ t \in Seq(Messages) /\ Len(s) \in Nat /\ Len(t) = Len(s) + 1
      /\ DOMAIN s = 1..Len(s) /\ DOMAIN t = 1..(Len(s) + 1)
      /\ \A i \in 1..Len(s) : t[i] = s[i]
      /\ t[Len(s) + 1] = m
  BY <1>1
<1>3. Members(t) = Members(s) \cup {m}
  BY <1>2 DEF Members
<1>4. Increasing(s) /\ (\A k \in Members(s) : k[3] < m[3]) => Increasing(t)
  BY <1>2 DEF Increasing, Members
<1> QED
  BY <1>1, <1>2, <1>3, <1>4

LEMMA TailOfMessages ==
  ASSUME NEW s \in Seq(Messages), s # <<>>, Increasing(s)
  PROVE  /\ Head(s) \in Messages /\ Tail(s) \in Seq(Messages)
         /\ Members(s) = {Head(s)} \cup Members(Tail(s))
         /\ Increasing(Tail(s))
         /\ \A k \in Members(Tail(s)) : Head(s)[3] < k[3]
<1>1. PICK m, t : m = Head(s) /\ t = Tail(s)
  OBVIOUS
<1>2. /\ Len(s) \in Nat \ {0} /\ DOMAIN s = 1..Len(s)
      /\ m = s[1] /\ m \in Messages
      /\ t \in Seq(Messages) /\ Len(t) = Len(s) - 1 /\ DOMAIN t = 1..(Len(s) - 1)
      /\ \A i \in 1..(Len(s) - 1) : t[i] = s[i + 1]
  BY <1>1
<1>3. Members(s) = {m} \cup Members(t)
  <2>1. Members(s) \subseteq {m} \cup Members(t)
    <3>1. ASSUME NEW i \in 1..Len(s)
          PROVE  s[i] \in {m} \cup Members(t)
      <4>1. CASE i = 1
        BY <1>2, <4>1
      <4>2. CASE i # 1
        <5>1. i - 1 \in 1..(Len(s) - 1) /\ s[i] = t[i - 1]
          BY <1>2, <3>1, <4>2
        <5> QED
          BY <1>2, <5>1 DEF Members
      <4> QED
        BY <4>1, <4>2
    <3> QED
      BY <1>2, <3>1 DEF Members
  <2>2. {m} \cup Members(t) \subseteq Members(s)
    BY <1>2, SMTT(40) DEF Members
  <2> QED
    BY <2>1, <2>2
<1>4. \A i, j \in 1..Len(s) : i < j => s[i][3] < s[j][3]
  BY <1>2 DEF Increasing
<1>5. ASSUME NEW i \in DOMAIN t, NEW j \in DOMAIN t, i < j
      PROVE  t[i][3] < t[j][3]
  <2>1. i + 1 \in 1..Len(s) /\ j + 1 \in 1..Len(s) /\ i + 1 < j + 1
    BY <1>2, <1>5
  <2>2. s[i + 1][3] < s[j + 1][3]
    BY <1>4, <2>1
  <2>3. t[i] = s[i + 1] /\ t[j] = s[j + 1]
    BY <1>2, <1>5
  <2> QED
    BY <2>2, <2>3
<1>6. Increasing(t)
  BY <1>5 DEF Increasing
<1>7. ASSUME NEW j \in DOMAIN t
      PROVE  m[3] < t[j][3]
  <2>1. 1 \in 1..Len(s) /\ j + 1 \in 1..Len(s) /\ 1 < j + 1 /\ t[j] = s[j + 1]
    BY <1>2, <1>7
  <2> QED
    BY <1>2, <1>4, <2>1
<1>8. \A k \in Members(t) : m[3] < k[3]
  BY <1>7 DEF Members
<1> QED
  BY <1>1, <1>2, <1>3, <1>6, <1>8

LEMMA JoinedMessages ==
  ASSUME NEW s \in Seq(Messages), NEW t \in Seq(Messages)
  PROVE  /\ s \o t \in Seq(Messages) /\ Len(s \o t) = Len(s) + Len(t)
         /\ Members(s \o t) = Members(s) \cup Members(t)
<1>1. PICK w : w = s \o t
  OBVIOUS
<1>2. /\ w \in Seq(Messages) /\ Len(s) \in Nat /\ Len(t) \in Nat /\ Len(w) = Len(s) + Len(t)
      /\ DOMAIN s = 1..Len(s) /\ DOMAIN t = 1..Len(t) /\ DOMAIN w = 1..(Len(s) + Len(t))
      /\ \A i \in 1..Len(s) : w[i] = s[i]
      /\ \A i \in 1..Len(t) : w[Len(s) + i] = t[i]
  BY <1>1
<1>3. Members(w) \subseteq Members(s) \cup Members(t)
  <2>1. ASSUME NEW i \in 1..(Len(s) + Len(t))
        PROVE  w[i] \in Members(s) \cup Members(t)
    <3>1. CASE i <= Len(s)
      <4>1. i \in DOMAIN s /\ w[i] = s[i]
        BY <1>2, <2>1, <3>1
      <4> QED
        BY <4>1 DEF Members
    <3>2. CASE i > Len(s)
      <4>1. i - Len(s) \in 1..Len(t) /\ w[i] = t[i - Len(s)]
        BY <1>2, <2>1, <3>2
      <4> QED
        BY <1>2, <4>1 DEF Members
    <3> QED
      BY <1>2, <2>1, <3>1, <3>2
  <2> QED
    BY <1>2, <2>1 DEF Members
<1>4. Members(s) \cup Members(t) \subseteq Members(w)
  <2>1. Members(s) \subseteq Members(w)
    BY <1>2 DEF Members
  <2>2. Members(t) \subseteq Members(w)
    BY <1>2 DEF Members
  <2> QED
    BY <2>1, <2>2
<1> QED
  BY <1>1, <1>2, <1>3, <1>4

FeedInv ==
  /\ sent \in Seq(Messages) /\ batch \in Seq(Messages) /\ published \in Seq(Messages)
  /\ \A m \in Members(sent) : m[3] <= Len(sent)
  /\ Members(batch) \subseteq Members(sent) /\ Members(published) \subseteq Members(sent)
  /\ Increasing(batch)
  /\ \A m \in Members(published), k \in Members(batch) : m[3] < k[3]
  /\ batch # <<>> => ws = "publish"
  /\ ws = "off" => sent = <<>> /\ published = <<>>
  /\ delay \in 1..ReconnectMax /\ outages \in Nat
  /\ FeedIsInOrder

ViewerRecords ==
  [asked : SUBSET (Types \X Symbols), channels : SUBSET (Types \X Symbols), since : Nat,
   buffer : Seq(Messages), got : Seq(Messages)]

ViewersInv ==
  /\ viewer \in [Viewers -> ViewerRecords]
  /\ \A v \in Viewers :
       /\ viewer[v].since <= Len(published)
       /\ viewer[v].buffer # <<>> => viewer[v].channels # {}
       /\ viewer[v].channels \in {{}, viewer[v].asked}
       /\ viewer[v].asked # {} /\ viewer[v].channels = {} => viewer[v].got = <<>>
  /\ ViewersGetTheirChannels

StreamInv == FeedInv /\ ViewersInv

(* The worker moves without touching what is sent and published. *)
LEMMA QuietWorker ==
  ASSUME FeedInv, UNCHANGED <<sent, published, outages>>,
         batch' = <<>> \/ (batch' = batch /\ ws' = ws),
         delay' \in 1..ReconnectMax,
         ws' # "off" \/ UNCHANGED ws,
         \/ stop' \/ ws' = "ended"
         \/ batch' = batch /\ stop' = stop /\ (ws \notin {"off", "ended"} \/ ws' = ws \/ ws = "off")
  PROVE  FeedInv'
<1>1. Members(<<>>) = {} /\ Increasing(<<>>) /\ <<>> \in Seq(Messages)
  BY DEF Members, Increasing
<1>2. batch' \in Seq(Messages) /\ Members(batch') \subseteq Members(batch) /\ Increasing(batch')
  BY <1>1 DEF FeedInv
<1>3. FeedIsInOrder'
  <2>1. Increasing(published)'
    BY DEF FeedInv, FeedIsInOrder, Increasing
  <2>2. ASSUME outages' = 0, ~stop', ws' \notin {"off", "ended"}
        PROVE  Members(published') = {m \in Members(sent') \ Members(batch') : m[1] \in Types}
    <3>1. CASE ws = "off"
      BY <1>1, <2>2, <3>1 DEF FeedInv
    <3>2. CASE ws # "off"
      BY <2>2, <3>2 DEF FeedInv, FeedIsInOrder
    <3> QED
      BY <3>1, <3>2
  <2> QED
    BY <2>1, <2>2 DEF FeedIsInOrder, Members, Increasing
<1>4. /\ batch' # <<>> => ws' = "publish"
      /\ ws' = "off" => sent' = <<>> /\ published' = <<>>
  BY DEF FeedInv
<1>5. \A m \in Members(published'), k \in Members(batch') : m[3] < k[3]
  BY <1>2 DEF FeedInv
<1> QED
  BY <1>2, <1>3, <1>4, <1>5 DEF FeedInv, Members, Increasing

LEMMA StillViewers ==
  ASSUME ViewersInv, UNCHANGED <<viewer, published>>
  PROVE  ViewersInv'
<1>1. viewer' = viewer /\ published' = published
  OBVIOUS
<1>2. ViewersGetTheirChannels'
  <2>1. ASSUME NEW v \in Viewers
        PROVE  Since(v)' = Since(v)
    BY <1>1 DEF Since
  <2>2. ASSUME NEW v \in Viewers, viewer'[v].channels # {}
        PROVE  LET feed == viewer'[v].got \o viewer'[v].buffer IN
                 /\ Increasing(feed)
                 /\ Members(feed) = {m \in Since(v)' : Channel(m) \in viewer'[v].asked}
    BY <1>1, <2>1, <2>2 DEF ViewersInv, ViewersGetTheirChannels
  <2> QED
    BY <1>1, <2>2 DEF ViewersGetTheirChannels, Increasing, Members
<1> QED
  BY <1>1, <1>2 DEF ViewersInv

LEMMA StillWorker ==
  ASSUME FeedInv, UNCHANGED <<ws, delay, stop, batch, sent, published, outages>>
  PROVE  FeedInv'
<1>1. UNCHANGED <<ws, delay, stop, batch, sent, published, outages>>
  OBVIOUS
<1>2. /\ Members(sent)' = Members(sent) /\ Members(batch)' = Members(batch)
      /\ Members(published)' = Members(published)
      /\ Increasing(batch)' = Increasing(batch)
      /\ Increasing(published)' = Increasing(published)
  BY <1>1 DEF Members, Increasing
<1>3. FeedIsInOrder'
  BY <1>1, <1>2 DEF FeedInv, FeedIsInOrder
<1> QED
  BY <1>1, <1>2, <1>3 DEF FeedInv

LEMMA StillFeed ==
  ASSUME StreamInv, UNCHANGED streamVars
  PROVE  StreamInv'
BY StillWorker, StillViewers DEF StreamInv, streamVars, workerVars

LEMMA LongerIsADelay ==
  ASSUME delay \in 1..ReconnectMax
  PROVE  Longer \in 1..ReconnectMax
BY StreamAssumption DEF Longer, Minimum

(* A frame: messages that are counted on from those already sent.          *)
LEMMA FrameKeepsFeed ==
  ASSUME FeedInv, FrameArrives
  PROVE  FeedInv'
<1>1. PICK frame \in Feed : \E numbered :
        /\ numbered = [n \in DOMAIN frame |-> <<frame[n][1], frame[n][2], Len(sent) + n>>]
        /\ sent' = sent \o numbered
        /\ IF stop THEN ws' = "ended" /\ UNCHANGED batch
           ELSE ws' = "publish" /\ batch' = numbered
  BY DEF FrameArrives
<1>1a. PICK numbered :
        /\ numbered = [n \in DOMAIN frame |-> <<frame[n][1], frame[n][2], Len(sent) + n>>]
        /\ sent' = sent \o numbered
        /\ IF stop THEN ws' = "ended" /\ UNCHANGED batch
           ELSE ws' = "publish" /\ batch' = numbered
  BY <1>1
<1>2. ws = "consume" /\ UNCHANGED <<delay, stop, published, outages>>
  BY DEF FrameArrives
<1>3. Len(sent) \in Nat
  BY DEF FeedInv
<1>4. /\ Len(frame) \in Nat /\ DOMAIN frame = 1..Len(frame)
      /\ \A n \in 1..Len(frame) : frame[n] \in STRING \X STRING
  BY StreamAssumption
<1>5. \A n \in 1..Len(frame) : numbered[n] \in Messages /\ numbered[n][3] = Len(sent) + n
  BY <1>1a, <1>3, <1>4 DEF Messages
<1>6. numbered \in Seq(Messages) /\ DOMAIN numbered = 1..Len(frame) /\ Len(numbered) = Len(frame)
  <2>1. numbered \in [1..Len(frame) -> Messages]
    BY <1>1a, <1>4, <1>5
  <2> QED
    BY <1>4, <2>1
<1>7. Increasing(numbered) /\ \A k \in Members(numbered) : k[3] > Len(sent) /\ k[3] <= Len(sent) + Len(frame)
  BY <1>3, <1>4, <1>5, <1>6 DEF Increasing, Members
<1>8. /\ sent' \in Seq(Messages) /\ Len(sent') = Len(sent) + Len(frame)
      /\ Members(sent') = Members(sent) \cup Members(numbered)
  <2>1. PICK s, t, w : s = sent /\ t = numbered /\ w = sent' /\ w = s \o t
    BY <1>1a
  <2>2. s \in Seq(Messages) /\ t \in Seq(Messages)
    BY <1>6, <2>1 DEF FeedInv
  <2>3. w \in Seq(Messages) /\ Len(w) = Len(s) + Len(t) /\ Members(w) = Members(s) \cup Members(t)
    BY <2>1, <2>2, JoinedMessages
  <2> QED
    BY <1>6, <2>1, <2>3
<1>9. batch = <<>> /\ Members(batch) = {} /\ Increasing(batch)
  BY <1>2 DEF FeedInv, Members
<1>10. \A m \in Members(sent) : m[3] <= Len(sent) /\ m[3] \in Nat
  BY MembersAreTyped DEF FeedInv, Messages
<1>11. \A m \in Members(sent') : m[3] <= Len(sent')
  BY <1>3, <1>4, <1>7, <1>8, <1>10
<1>12. /\ batch' \in Seq(Messages) /\ Increasing(batch') /\ Members(batch') \subseteq Members(numbered)
       /\ batch' # <<>> => ws' = "publish"
  BY <1>1a, <1>2, <1>6, <1>7, <1>9 DEF FeedInv
<1>13. \A m \in Members(published), k \in Members(batch') : m[3] < k[3]
  <2>1. ASSUME NEW m \in Members(published), NEW k \in Members(batch')
        PROVE  m[3] < k[3]
    <3>1. m[3] <= Len(sent) /\ m[3] \in Nat
      BY <1>10 DEF FeedInv
    <3>2. k[3] > Len(sent) /\ k[3] \in Nat
      BY <1>6, <1>7, <1>12, MembersAreTyped DEF Messages
    <3> QED
      BY <1>3, <3>1, <3>2
  <2> QED
    BY <2>1
<1>14. FeedIsInOrder'
  <2>1. Increasing(published)
    BY DEF FeedInv, FeedIsInOrder
  <2>2. ASSUME outages' = 0, ~stop', ws' \notin {"off", "ended"}
        PROVE  Members(published) = {m \in Members(sent') \ Members(batch') : m[1] \in Types}
    <3>1. Members(published) = {m \in Members(sent) : m[1] \in Types}
      BY <1>2, <1>9, <2>2 DEF FeedInv, FeedIsInOrder
    <3>2. batch' = numbered
      BY <1>1a, <1>2, <2>2
    <3>3. Members(sent') \ Members(batch') = Members(sent)
      BY <1>3, <1>7, <1>8, <1>10, <3>2
    <3> QED
      BY <3>1, <3>3
  <2> QED
    BY <1>2, <2>1, <2>2 DEF FeedIsInOrder, Increasing, Members
<1>15. Members(published') = Members(published)
  BY <1>2
<1> QED
  BY <1>1a, <1>2, <1>8, <1>11, <1>12, <1>13, <1>14, <1>15 DEF FeedInv, Members, Increasing

(* The head of the frame in hand is published, if its type is known.       *)
LEMMA PublishKeepsFeed ==
  ASSUME FeedInv, _publish
  PROVE  FeedInv'
<1>1. PICK m : m = Head(batch)
  OBVIOUS
<1>2. /\ ws = "publish" /\ batch # <<>> /\ batch' = Tail(batch)
      /\ published' = (IF m[1] \in Types THEN Append(published, m) ELSE published)
      /\ UNCHANGED <<ws, delay, stop, sent, outages>>
  BY <1>1 DEF _publish
<1>3. /\ m \in Messages /\ batch' \in Seq(Messages) /\ Increasing(batch')
      /\ Members(batch) = {m} \cup Members(batch')
      /\ \A k \in Members(batch') : m[3] < k[3]
  BY <1>1, <1>2, TailOfMessages DEF FeedInv, Increasing, Members
<1>4. Members(sent) \subseteq Messages
  BY MembersAreTyped DEF FeedInv
<1>5. m \notin Members(batch')
  BY <1>3 DEF Messages
<1>6. /\ published' \in Seq(Messages) /\ Increasing(published)'
      /\ Members(published') = (IF m[1] \in Types THEN Members(published) \cup {m} ELSE Members(published))
  <2>1. CASE m[1] \in Types
    <3>1. PICK p : p = Append(published, m)
      OBVIOUS
    <3>2. p \in Seq(Messages) /\ Members(p) = Members(published) \cup {m} /\ Increasing(p)
      BY <1>3, <3>1, AppendedMessage DEF FeedInv, FeedIsInOrder
    <3> QED
      BY <1>2, <2>1, <3>1, <3>2 DEF Increasing
  <2>2. CASE m[1] \notin Types
    BY <1>2, <2>2 DEF FeedInv, FeedIsInOrder, Increasing
  <2> QED
    BY <2>1, <2>2
<1>7. Members(published') \subseteq Members(sent)
  BY <1>3, <1>6 DEF FeedInv
<1>8. \A n \in Members(published'), k \in Members(batch') : n[3] < k[3]
  BY <1>3, <1>6 DEF FeedInv
<1>9. FeedIsInOrder'
  <2>1. ASSUME outages' = 0, ~stop', ws' \notin {"off", "ended"}
        PROVE  Members(published') = {n \in Members(sent) \ Members(batch') : n[1] \in Types}
    <3>1. Members(published) = {n \in Members(sent) \ Members(batch) : n[1] \in Types}
      BY <1>2, <2>1 DEF FeedInv, FeedIsInOrder
    <3>2. Members(sent) \ Members(batch') = (Members(sent) \ Members(batch)) \cup {m}
      BY <1>3, <1>5 DEF FeedInv
    <3> QED
      BY <1>6, <3>1, <3>2
  <2>2. Members(sent') = Members(sent)
    BY <1>2
  <2> QED
    BY <1>6, <2>1, <2>2 DEF FeedIsInOrder, Increasing, Members
<1>10. Members(sent') = Members(sent) /\ Len(sent') = Len(sent)
  BY <1>2
<1> QED
  BY <1>2, <1>3, <1>6, <1>7, <1>8, <1>9, <1>10 DEF FeedInv, Members, Increasing

LEMMA WorkerKeepsFeed ==
  ASSUME FeedInv, Internal \/ FrameArrives \/ Disconnect \/ Stop
  PROVE  FeedInv'
<1> USE DEF FeedInv
<1>1. CASE Start
  BY <1>1, QuietWorker, StreamAssumption DEF Start
<1>2. CASE Connect
  BY <1>2, QuietWorker DEF Connect
<1>3. CASE _authenticate
  <2>1. /\ batch' = <<>> \/ (batch' = batch /\ ws' = ws)
        /\ batch' = batch /\ ws' # "off" /\ ws \notin {"off", "ended"}
        /\ UNCHANGED <<delay, stop, sent, published, outages>>
    BY <1>3 DEF _authenticate, Failed, StopOr
  <2> QED
    BY <2>1, QuietWorker
<1>4. CASE _subscribe
  BY <1>4, QuietWorker, StreamAssumption DEF _subscribe
<1>5. CASE Wake
  BY <1>5, QuietWorker, LongerIsADelay DEF Wake, StopOr
<1>6. CASE _publish
  BY <1>6, PublishKeepsFeed
<1>7. CASE NextFrame
  BY <1>7, QuietWorker DEF NextFrame
<1>8. CASE FrameArrives
  BY <1>8, FrameKeepsFeed
<1>9. CASE Disconnect
  <2>1. /\ batch' = <<>> /\ outages' = outages + 1 /\ ws' \in {"ended", "sleep"}
        /\ UNCHANGED <<delay, stop, sent, published>>
    BY <1>9 DEF Disconnect, Failed, StopOr
  <2>2. Members(batch') = {} /\ Increasing(batch)' /\ batch' \in Seq(Messages)
    BY <2>1 DEF Members, Increasing
  <2>3. Members(sent') = Members(sent) /\ Members(published') = Members(published)
    BY <2>1
  <2>4. /\ outages \in Nat => outages' \in Nat \ {0}
        /\ Increasing(published)' = Increasing(published)
    BY <2>1 DEF Increasing
  <2>5. FeedIsInOrder'
    BY <2>1, <2>4 DEF FeedIsInOrder
  <2>6. Members(sent)' = Members(sent) /\ Members(published)' = Members(published)
        /\ Members(batch)' = {}
    BY <2>1, <2>2 DEF Members
  <2>7. ws' # "off"
    BY <2>1
  <2> QED
    BY <2>1, <2>2, <2>4, <2>5, <2>6, <2>7
<1>10. CASE Stop
  BY <1>10, QuietWorker DEF Stop
<1> QED
  BY <1>1, <1>2, <1>3, <1>4, <1>5, <1>6, <1>7, <1>8, <1>9, <1>10 DEF Internal

-----------------------------------------------------------------------------
(* Viewers *)

LEMMA AppendedToTheSecond ==
  ASSUME NEW g \in Seq(Messages), NEW b \in Seq(Messages), NEW m \in Messages
  PROVE  g \o Append(b, m) = Append(g \o b, m)
<1>1. /\ <<m>> \in Seq(Messages) /\ g \o b \in Seq(Messages)
      /\ Append(b, m) = b \o <<m>>
  OBVIOUS
<1>2. Append(g \o b, m) = (g \o b) \o <<m>>
  <2>1. PICK f : f = g \o b /\ f \in Seq(Messages)
    BY <1>1
  <2>2. Append(f, m) = f \o <<m>>
    BY <2>1
  <2> QED
    BY <2>1, <2>2
<1> QED
  BY <1>1, <1>2, ConcatAssociative

LEMMA PublishKeepsViewers ==
  ASSUME FeedInv, ViewersInv, _publish
  PROVE  ViewersInv'
<1>1. PICK m : m = Head(batch)
  OBVIOUS
<1>2. CASE m[1] \notin Types
  BY <1>1, <1>2, StillViewers DEF _publish
<1>3. CASE m[1] \in Types
  <2>1. /\ batch # <<>> /\ published' = Append(published, m)
        /\ viewer' = [v \in Viewers |->
             IF Channel(m) \in viewer[v].channels
             THEN [viewer[v] EXCEPT !.buffer = Append(@, m)] ELSE viewer[v]]
    BY <1>1, <1>3 DEF _publish
  <2>2. m \in Messages /\ m \in Members(batch)
    BY <1>1, <2>1, TailOfMessages DEF FeedInv, Increasing, Members
  <2>3. \A k \in Members(published) : k[3] < m[3]
    BY <2>2 DEF FeedInv
  <2>4. /\ published \in Seq(Messages) /\ published' \in Seq(Messages)
        /\ Len(published) \in Nat /\ Len(published') = Len(published) + 1
        /\ \A i \in 1..Len(published) : published'[i] = published[i]
        /\ published'[Len(published) + 1] = m
    BY <2>1, <2>2 DEF FeedInv
  <2>5. ASSUME NEW v \in Viewers
        PROVE  /\ viewer'[v] \in ViewerRecords
               /\ viewer'[v].channels = viewer[v].channels /\ viewer'[v].since = viewer[v].since
               /\ viewer'[v].got = viewer[v].got /\ viewer'[v].asked = viewer[v].asked
               /\ viewer'[v].buffer = (IF Channel(m) \in viewer[v].channels
                                       THEN Append(viewer[v].buffer, m) ELSE viewer[v].buffer)
    <3>1. PICK q : q = viewer[v]
      OBVIOUS
    <3>2. q \in ViewerRecords
      BY <3>1 DEF ViewersInv
    <3>3. PICK b : b = Append(q.buffer, m)
      OBVIOUS
    <3>4. b \in Seq(Messages)
      BY <2>2, <3>2, <3>3 DEF ViewerRecords
    <3>5. viewer'[v] = (IF Channel(m) \in q.channels THEN [q EXCEPT !.buffer = b] ELSE q)
      BY <2>1, <3>1, <3>3
    <3> QED
      BY <3>1, <3>2, <3>3, <3>4, <3>5 DEF ViewerRecords
  <2>6. viewer' \in [Viewers -> ViewerRecords]
    BY <2>1, <2>5
  <2>7. ASSUME NEW v \in Viewers
        PROVE  /\ viewer'[v].since <= Len(published')
               /\ viewer'[v].buffer # <<>> => viewer'[v].channels # {}
               /\ viewer'[v].channels \in {{}, viewer'[v].asked}
               /\ viewer'[v].asked # {} /\ viewer'[v].channels = {} => viewer'[v].got = <<>>
    <3>1. viewer[v].since \in Nat /\ viewer[v].since <= Len(published)
      BY DEF ViewersInv, ViewerRecords
    <3>2. viewer'[v].since <= Len(published')
      BY <2>4, <2>5, <3>1
    <3>3. /\ viewer[v].buffer # <<>> => viewer[v].channels # {}
          /\ viewer[v].channels \in {{}, viewer[v].asked}
          /\ viewer[v].asked # {} /\ viewer[v].channels = {} => viewer[v].got = <<>>
      BY DEF ViewersInv
    <3> QED
      BY <2>5, <3>2, <3>3
  <2>8. ASSUME NEW v \in Viewers
        PROVE  Since(v)' = Since(v) \cup {m}
    <3>1. PICK n \in Nat : n = viewer[v].since /\ n = viewer'[v].since /\ n <= Len(published)
      BY <2>5 DEF ViewersInv, ViewerRecords
    <3>2. /\ Since(v) = {published[i] : i \in n + 1 .. Len(published)}
          /\ Since(v)' = {published'[i] : i \in n + 1 .. Len(published) + 1}
      BY <2>4, <3>1 DEF Since
    <3>3. n + 1 .. Len(published) + 1 = (n + 1 .. Len(published)) \cup {Len(published) + 1}
      BY <2>4, <3>1
    <3>4. \A i \in n + 1 .. Len(published) : published'[i] = published[i]
      BY <2>4
    <3> QED
      BY <2>4, <3>2, <3>3, <3>4
  <2>9. ASSUME NEW v \in Viewers, viewer'[v].channels # {}
        PROVE  LET feed == viewer'[v].got \o viewer'[v].buffer IN
                 /\ Increasing(feed)
                 /\ Members(feed) = {n \in Since(v)' : Channel(n) \in viewer'[v].asked}
    <3>1. PICK g, b, f : g = viewer[v].got /\ b = viewer[v].buffer /\ f = g \o b
      OBVIOUS
    <3>2. g \in Seq(Messages) /\ b \in Seq(Messages) /\ f \in Seq(Messages)
      BY <3>1 DEF ViewersInv, ViewerRecords
    <3>3. Increasing(f) /\ Members(f) = {n \in Since(v) : Channel(n) \in viewer[v].asked}
      BY <2>5, <2>9, <3>1 DEF ViewersInv, ViewersGetTheirChannels
    <3> viewer[v].channels = viewer[v].asked /\ viewer'[v].channels = viewer'[v].asked
      BY <2>5, <2>7, <2>9 DEF ViewersInv
    <3>4. CASE Channel(m) \in viewer[v].channels
      <4>1. g \o Append(b, m) = Append(f, m)
        BY <2>2, <3>1, <3>2, AppendedToTheSecond, ZenonT(60)
      <4>2. Since(v) \subseteq Members(published)
        BY <2>4 DEF Since, Members, ViewersInv, ViewerRecords
      <4>3. /\ Members(Append(f, m)) = Members(f) \cup {m}
            /\ Increasing(Append(f, m))
        BY <2>2, <2>3, <3>2, <3>3, <4>2, AppendedMessage
      <4>4. viewer'[v].got = g /\ viewer'[v].buffer = Append(b, m)
        BY <2>5, <3>1, <3>4
      <4>5. Members(f) \cup {m} = {n \in Since(v)' : Channel(n) \in viewer'[v].asked}
        BY <2>5, <2>8, <3>3, <3>4
      <4> QED
        BY <4>1, <4>3, <4>4, <4>5
    <3>5. CASE Channel(m) \notin viewer[v].channels
      <4>1. viewer'[v].got = g /\ viewer'[v].buffer = b
        BY <2>5, <3>1, <3>5
      <4>2. Members(f) = {n \in Since(v)' : Channel(n) \in viewer'[v].asked}
        BY <2>5, <2>8, <3>3, <3>5
      <4> QED
        BY <3>1, <3>3, <4>1, <4>2
    <3> QED
      BY <3>4, <3>5
  <2>10. ViewersGetTheirChannels'
    BY <2>9 DEF ViewersGetTheirChannels, Increasing, Members
  <2> QED
    BY <2>6, <2>7, <2>10 DEF ViewersInv
<1> QED
  BY <1>2, <1>3

(* One viewer v takes a message, leaves or comes: the others keep theirs.  *)
LEMMA OneViewerMoves ==
  ASSUME ViewersInv, UNCHANGED published, NEW v \in Viewers, NEW q,
         viewer' = [viewer EXCEPT ![v] = q],
         q \in ViewerRecords,
         q.since <= Len(published), q.buffer # <<>> => q.channels # {},
         q.channels \in {{}, q.asked}, q.asked # {} /\ q.channels = {} => q.got = <<>>,
         q.channels # {} =>
           LET feed == q.got \o q.buffer IN
             /\ Increasing(feed)
             /\ Members(feed) = {m \in {published[i] : i \in q.since + 1 .. Len(published)} :
                                   Channel(m) \in q.asked}
  PROVE  ViewersInv'
<1>1. viewer' \in [Viewers -> ViewerRecords]
  BY DEF ViewersInv
<1>2. viewer'[v] = q /\ \A w \in Viewers \ {v} : viewer'[w] = viewer[w]
  BY DEF ViewersInv
<1>3. ASSUME NEW w \in Viewers
      PROVE  /\ viewer'[w].since <= Len(published')
             /\ viewer'[w].buffer # <<>> => viewer'[w].channels # {}
             /\ viewer'[w].channels \in {{}, viewer'[w].asked}
             /\ viewer'[w].asked # {} /\ viewer'[w].channels = {} => viewer'[w].got = <<>>
  BY <1>2 DEF ViewersInv
<1>4. ASSUME NEW w \in Viewers, viewer'[w].channels # {}
      PROVE  LET feed == viewer'[w].got \o viewer'[w].buffer IN
               /\ Increasing(feed)
               /\ Members(feed) = {m \in Since(w)' : Channel(m) \in viewer'[w].asked}
  <2>1. Since(w)' = {published[i] : i \in viewer'[w].since + 1 .. Len(published)}
    BY DEF Since
  <2>2. CASE w = v
    BY <1>2, <1>4, <2>1, <2>2
  <2>3. CASE w # v
    <3>1. viewer'[w] = viewer[w] /\ Since(w)' = Since(w)
      BY <1>2, <2>1, <2>3 DEF Since
    <3> QED
      BY <1>4, <3>1 DEF ViewersInv, ViewersGetTheirChannels
  <2> QED
    BY <2>2, <2>3
<1>5. ViewersGetTheirChannels'
  BY <1>4 DEF ViewersGetTheirChannels, Increasing, Members
<1> QED
  BY <1>1, <1>3, <1>5 DEF ViewersInv

LEMMA HeadMovesOver ==
  ASSUME NEW g \in Seq(Messages), NEW b \in Seq(Messages), b # <<>>
  PROVE  /\ Append(g, Head(b)) \in Seq(Messages) /\ Tail(b) \in Seq(Messages)
         /\ Append(g, Head(b)) \o Tail(b) = g \o b
OBVIOUS

LEMMA EventKeepsViewers ==
  ASSUME ViewersInv, NEW v \in Viewers, _event_stream(v)
  PROVE  ViewersInv'
<1>1. PICK q0 : q0 = viewer[v]
  OBVIOUS
<1>2. PICK h, t : h = Append(q0.got, Head(q0.buffer)) /\ t = Tail(q0.buffer)
  OBVIOUS
<1>3. /\ q0 \in ViewerRecords /\ q0.buffer # <<>> /\ q0.channels # {} /\ q0.since <= Len(published)
      /\ q0.channels \in {{}, q0.asked}
  BY <1>1 DEF ViewersInv, _event_stream
<1>4. /\ h \in Seq(Messages) /\ t \in Seq(Messages)
      /\ h \o t = q0.got \o q0.buffer
  BY <1>2, <1>3, HeadMovesOver DEF ViewerRecords
<1>5. PICK q1 : q1 = [q0 EXCEPT !.got = h]
  OBVIOUS
<1>6. /\ q1 \in ViewerRecords /\ q1.got = h /\ q1.channels = q0.channels /\ q1.since = q0.since
      /\ q1.asked = q0.asked
  BY <1>3, <1>4, <1>5 DEF ViewerRecords
<1>7. PICK q : q = [q1 EXCEPT !.buffer = t]
  OBVIOUS
<1>8. /\ q \in ViewerRecords /\ q.got = h /\ q.channels = q0.channels /\ q.since = q0.since
      /\ q.buffer = t /\ q.asked = q0.asked
  BY <1>4, <1>6, <1>7 DEF ViewerRecords
<1>9. published' = published /\ viewer' = [viewer EXCEPT ![v] = q]
  <2>1. /\ published' = published
        /\ viewer' = [viewer EXCEPT ![v] = [q0 EXCEPT !.got = h, !.buffer = t]]
    BY <1>1, <1>2 DEF _event_stream, workerVars
  <2>2. [q0 EXCEPT !.got = h, !.buffer = t] = q
    BY <1>5, <1>7, Zenon
  <2> QED
    BY <2>1, <2>2
<1>10. /\ Increasing(q0.got \o q0.buffer)
       /\ Members(q0.got \o q0.buffer) =
            {m \in {published[i] : i \in q0.since + 1 .. Len(published)} : Channel(m) \in q0.asked}
  BY <1>1, <1>3 DEF ViewersInv, ViewersGetTheirChannels, Since
<1>11. LET feed == q.got \o q.buffer IN
         /\ Increasing(feed)
         /\ Members(feed) = {m \in {published[i] : i \in q.since + 1 .. Len(published)} :
                               Channel(m) \in q.asked}
  BY <1>4, <1>8, <1>10
<1> QED
  BY <1>3, <1>8, <1>9, <1>11, OneViewerMoves

LEMMA LeaveKeepsViewers ==
  ASSUME ViewersInv, NEW v \in Viewers, Leave(v)
  PROVE  ViewersInv'
<1>1. PICK q0 : q0 = viewer[v]
  OBVIOUS
<1>2. q0 \in ViewerRecords /\ q0.since <= Len(published)
  BY <1>1 DEF ViewersInv
<1>3. PICK q1 : q1 = [q0 EXCEPT !.asked = {}]
  OBVIOUS
<1>4. q1 \in ViewerRecords /\ q1.asked = {} /\ q1.since = q0.since
  BY <1>2, <1>3 DEF ViewerRecords
<1>5. PICK q2 : q2 = [q1 EXCEPT !.channels = {}]
  OBVIOUS
<1>6. q2 \in ViewerRecords /\ q2.asked = {} /\ q2.channels = {} /\ q2.since = q0.since
  BY <1>4, <1>5 DEF ViewerRecords
<1>7. PICK q : q = [q2 EXCEPT !.buffer = <<>>]
  OBVIOUS
<1>8. /\ q \in ViewerRecords /\ q.asked = {} /\ q.channels = {} /\ q.since = q0.since
      /\ q.buffer = <<>>
  <2>1. <<>> \in Seq(Messages)
    OBVIOUS
  <2> QED
    BY <1>6, <1>7, <2>1 DEF ViewerRecords
<1>9. published' = published /\ viewer' = [viewer EXCEPT ![v] = q]
  <2>1. /\ published' = published
        /\ viewer' = [viewer EXCEPT ![v] = [q0 EXCEPT !.asked = {}, !.channels = {}, !.buffer = <<>>]]
    BY <1>1 DEF Leave, workerVars
  <2>2. [q0 EXCEPT !.asked = {}, !.channels = {}, !.buffer = <<>>] = q
    BY <1>3, <1>5, <1>7, Zenon
  <2> QED
    BY <2>1, <2>2
<1> QED
  BY <1>2, <1>8, <1>9, OneViewerMoves

(* A request that is answered has asked, and subscribed to nothing yet. *)
LEMMA OpenKeepsViewers ==
  ASSUME ViewersInv, NEW v \in Viewers, NEW channels \in SUBSET (Types \X Symbols), Open(v, channels)
  PROVE  ViewersInv'
<1>1. PICK q0 : q0 = viewer[v]
  OBVIOUS
<1>2. /\ q0 \in ViewerRecords /\ q0.since <= Len(published)
      /\ q0.channels = {} /\ q0.buffer = <<>> /\ q0.got = <<>>
  <2>1. q0 \in ViewerRecords /\ q0.since <= Len(published)
    BY <1>1 DEF ViewersInv
  <2>2. q0 = NotOpen
    BY <1>1 DEF Open
  <2> QED
    BY <2>1, <2>2 DEF NotOpen
<1>3. PICK q : q = [q0 EXCEPT !.asked = channels]
  OBVIOUS
<1>4. /\ q \in ViewerRecords /\ q.since = q0.since /\ q.channels = {} /\ q.buffer = <<>>
      /\ q.got = <<>>
  BY <1>2, <1>3 DEF ViewerRecords
<1>5. published' = published /\ viewer' = [viewer EXCEPT ![v] = q]
  BY <1>1, <1>3 DEF Open, workerVars
<1> QED
  BY <1>2, <1>4, <1>5, OneViewerMoves

(* A viewer that subscribes is owed nothing yet.  What it had before is    *)
(* nothing: it has not subscribed before.                                  *)
LEMMA SubscribeKeepsViewers ==
  ASSUME FeedInv, ViewersInv, NEW v \in Viewers, Subscribe(v)
  PROVE  ViewersInv'
<1>1. PICK n \in Nat : n = Len(published)
  BY DEF FeedInv
<1>2. PICK q0 : q0 = viewer[v]
  OBVIOUS
<1>3. q0 \in ViewerRecords /\ q0.buffer = <<>> /\ q0.got = <<>>
  BY <1>2 DEF ViewersInv, Subscribe
<1>4. PICK q1 : q1 = [q0 EXCEPT !.channels = q0.asked]
  OBVIOUS
<1>5. /\ q1 \in ViewerRecords /\ q1.channels = q1.asked
      /\ q1.buffer = <<>> /\ q1.got = <<>>
  BY <1>3, <1>4 DEF ViewerRecords
<1>6. PICK q : q = [q1 EXCEPT !.since = n]
  OBVIOUS
<1>7. /\ q \in ViewerRecords /\ q.channels = q.asked /\ q.since = n
      /\ q.buffer = <<>> /\ q.got = <<>>
  BY <1>5, <1>6 DEF ViewerRecords
<1>8. published' = published /\ viewer' = [viewer EXCEPT ![v] = q]
  <2>1. /\ published' = published
        /\ viewer' = [viewer EXCEPT ![v] = [q0 EXCEPT !.channels = q0.asked, !.since = n]]
    BY <1>1, <1>2 DEF Subscribe, workerVars
  <2>2. [q0 EXCEPT !.channels = q0.asked, !.since = n] = q
    BY <1>4, <1>6, Zenon
  <2> QED
    BY <2>1, <2>2
<1>9. <<>> \o <<>> = <<>> /\ Increasing(<<>>) /\ Members(<<>>) = {}
  BY DEF Increasing, Members
<1>10. {published[i] : i \in n + 1 .. Len(published)} = {}
  BY <1>1
<1>11. LET feed == q.got \o q.buffer IN
         /\ Increasing(feed)
         /\ Members(feed) = {m \in {published[i] : i \in q.since + 1 .. Len(published)} :
                               Channel(m) \in q.asked}
  BY <1>7, <1>9, <1>10
<1>12. /\ q.since <= Len(published) /\ (q.buffer # <<>> => q.channels # {})
       /\ q.channels \in {{}, q.asked} /\ (q.asked # {} /\ q.channels = {} => q.got = <<>>)
  BY <1>1, <1>7
<1>13. /\ published' = published /\ viewer' = [viewer EXCEPT ![v] = q]
       /\ q \in ViewerRecords
  BY <1>7, <1>8
<1> QED
  BY <1>11, <1>12, <1>13, OneViewerMoves

LEMMA StreamingKeepsInv ==
  ASSUME StreamInv, StreamingNext
  PROVE  StreamInv'
<1>1. CASE Internal \/ FrameArrives \/ Disconnect \/ Stop
  <2>1. FeedInv'
    BY <1>1, WorkerKeepsFeed DEF StreamInv
  <2>2. CASE _publish
    BY <2>1, <2>2, PublishKeepsViewers DEF StreamInv
  <2>3. CASE ~_publish
    <3>1. UNCHANGED <<viewer, published>>
      BY <1>1, <2>3 DEF Internal, Start, Connect, _authenticate, _subscribe, Wake, NextFrame,
                        FrameArrives, Disconnect, Stop
    <3> QED
      BY <2>1, <3>1, StillViewers DEF StreamInv
  <2> QED
    BY <2>2, <2>3
<1>2. CASE \E v \in Viewers : Subscribe(v) \/ _event_stream(v) \/ Leave(v)
  <2>1. PICK v \in Viewers : Subscribe(v) \/ _event_stream(v) \/ Leave(v)
    BY <1>2
  <2>2. ViewersInv'
    BY <2>1, SubscribeKeepsViewers, EventKeepsViewers, LeaveKeepsViewers DEF StreamInv
  <2>3. FeedInv'
    BY <2>1, StillWorker DEF StreamInv, Subscribe, _event_stream, Leave, workerVars
  <2> QED
    BY <2>2, <2>3 DEF StreamInv
<1> QED
  BY <1>1, <1>2 DEF StreamingNext

LEMMA OpeningKeepsInv ==
  ASSUME StreamInv, NEW r \in Requests, stream(r)
  PROVE  StreamInv'
<1>1. CASE UNCHANGED streamVars
  BY <1>1, StillFeed
<1>2. CASE ~UNCHANGED streamVars
  <2>1. PICK types \in {{"trade"}, {"trade", "bar"}, {"news"}}, symbols \in SUBSET Symbols :
          Open(r, Channels(types, symbols))
    BY <1>2 DEF stream
  <2>2. Channels(types, symbols) \in SUBSET (Types \X Symbols)
    BY DEF Channels
  <2>3. r \in Viewers
    BY ViewersAssumption
  <2>4. ViewersInv'
    BY <2>1, <2>2, <2>3, OpenKeepsViewers DEF StreamInv
  <2>5. FeedInv'
    BY <2>1, StillWorker DEF StreamInv, Open, workerVars
  <2> QED
    BY <2>4, <2>5 DEF StreamInv
<1> QED
  BY <1>1, <1>2

LEMMA StreamInit == Init => StreamInv
<1> SUFFICES ASSUME Init PROVE StreamInv
  OBVIOUS
<1>1. /\ ws \in {"off", "ended"} /\ delay = 1 /\ stop = FALSE /\ batch = <<>> /\ sent = <<>>
      /\ published = <<>> /\ viewer = [v \in Viewers |-> NotOpen] /\ outages = 0
  BY StartsAssumption DEF Init, IsStart
<1>2. <<>> \in Seq(Messages) /\ Members(<<>>) = {} /\ Increasing(<<>>) /\ Len(<<>>) = 0
  BY DEF Members, Increasing
<1>3. FeedInv
  BY <1>1, <1>2, StreamAssumption DEF FeedInv, FeedIsInOrder
<1>4. NotOpen \in ViewerRecords
  BY <1>2 DEF NotOpen, ViewerRecords
<1>5. ViewersInv
  BY <1>1, <1>2, <1>4 DEF ViewersInv, ViewersGetTheirChannels, NotOpen
<1> QED
  BY <1>3, <1>5 DEF StreamInv

-----------------------------------------------------------------------------
(* A token descends from an older one of the same user. *)

DescentInv ==
  \A n \in DOMAIN tokens :
    /\ tokens[n].parent \in 0..(n - 1)
    /\ tokens[n].parent # 0 => tokens[tokens[n].parent].user = tokens[n].user

LEMMA GrowthKeepsDescent ==
  ASSUME StateOK, DescentInv, Grows(users, tokens, users', tokens'),
         DOMAIN tokens' = DOMAIN tokens
  PROVE  DescentInv'
<1>1. DOMAIN tokens = 1..Len(tokens) /\ Len(tokens) \in Nat
  BY DEF StateOK
<1>2. ASSUME NEW n \in DOMAIN tokens'
      PROVE  /\ tokens'[n].parent \in 0..(n - 1)
             /\ tokens'[n].parent # 0 => tokens'[tokens'[n].parent].user = tokens'[n].user
  <2>1. /\ n \in DOMAIN tokens /\ tokens'[n].parent = tokens[n].parent
        /\ tokens'[n].user = tokens[n].user
    BY <1>2 DEF Grows
  <2>2. CASE tokens[n].parent = 0
    BY <2>1, <2>2 DEF DescentInv
  <2>3. CASE tokens[n].parent # 0
    <3>1. PICK p : p = tokens[n].parent
      OBVIOUS
    <3>2. p \in DOMAIN tokens /\ p \in 0..(n - 1) /\ tokens[p].user = tokens[n].user
      BY <1>1, <2>1, <2>3, <3>1 DEF DescentInv
    <3>3. tokens'[p].user = tokens[p].user
      BY <3>2 DEF Grows
    <3> QED
      BY <2>1, <3>1, <3>2, <3>3
  <2> QED
    BY <2>2, <2>3
<1> QED
  BY <1>2 DEF DescentInv

LEMMA IssueKeepsDescent ==
  ASSUME Inv, DescentInv, NEW r \in Requests, _issue_tokens(r)
  PROVE  DescentInv'
<1>1. DOMAIN tokens = 1..Len(tokens) /\ Len(tokens) \in Nat
  BY DEF Inv, StateOK
<1>2. Rotated(r) \in {0} \cup DOMAIN tokens
  BY DEF Inv, RequestsOK, HasRead, Rotated
<1>3. /\ DOMAIN tokens' = DOMAIN tokens \cup {Len(tokens) + 1}
      /\ \A m \in DOMAIN tokens :
           tokens'[m].user = tokens[m].user /\ tokens'[m].parent = tokens[m].parent
      /\ tokens'[Len(tokens) + 1].parent = Rotated(r)
      /\ tokens'[Len(tokens) + 1].user =
           (IF Rotated(r) = 0 THEN req[r].email ELSE tokens[Rotated(r)].user)
  BY IssueExtends DEF Inv
<1>4. ASSUME NEW n \in DOMAIN tokens'
      PROVE  /\ tokens'[n].parent \in 0..(n - 1)
             /\ tokens'[n].parent # 0 => tokens'[tokens'[n].parent].user = tokens'[n].user
  <2>1. PICK p : p = tokens'[n].parent
    OBVIOUS
  <2>2. CASE n \in DOMAIN tokens
    <3>1. p \in 0..(n - 1) /\ (p # 0 => tokens[p].user = tokens[n].user)
      BY <1>3, <2>1, <2>2 DEF DescentInv
    <3>2. p # 0 => p \in DOMAIN tokens
      BY <1>1, <2>2, <3>1
    <3> QED
      BY <1>3, <2>1, <2>2, <3>1, <3>2
  <2>3. CASE n = Len(tokens) + 1
    <3>1. p = Rotated(r) /\ p \in 0..(n - 1)
      BY <1>1, <1>2, <1>3, <2>1, <2>3
    <3> QED
      BY <1>2, <1>3, <2>1, <2>3, <3>1
  <2> QED
    BY <1>3, <1>4, <2>2, <2>3
<1> QED
  BY <1>4 DEF DescentInv

LEMMA NextKeepsDescent ==
  ASSUME Inv, DescentInv, [Next]_vars
  PROVE  DescentInv'
<1>1. CASE \E r \in Requests : _issue_tokens(r)
  BY <1>1, IssueKeepsDescent
<1>2. CASE UNCHANGED tokens
  BY <1>2 DEF DescentInv
<1>3. CASE \E r \in Requests : ReadUser(r) \/ LogoutRevoke(r)
  <2>1. PICK r \in Requests : ReadUser(r) \/ LogoutRevoke(r)
    BY <1>3
  <2>2. CASE UNCHANGED tokens
    BY <2>2 DEF DescentInv
  <2>3. CASE tokens' = [tokens EXCEPT ![req[r].cookie].revoked = TRUE]
    <3>1. req[r].pc \in {"user", "revoke"} /\ UNCHANGED <<users, cookie, access>>
          /\ (req[r].pc = "user" => req[r].kind = "refresh")
      BY <2>1 DEF ReadUser, LogoutRevoke, At
    <3>2. req[r].cookie \in DOMAIN tokens
      BY <3>1 DEF Inv, RequestsOK, HasRead
    <3> QED
      BY <2>3, <3>1, <3>2, RevokeGrows, GrowthKeepsDescent DEF Inv
  <2> QED
    BY <2>1, <2>2, <2>3 DEF ReadUser, LogoutRevoke
<1>4. CASE \E n \in DOMAIN tokens : ExpireToken(n)
  <2>1. PICK n \in DOMAIN tokens : ExpireToken(n)
    BY <1>4
  <2>2. UNCHANGED users /\ tokens' = [tokens EXCEPT ![n] = [tokens[n] EXCEPT !.expired = TRUE]]
    BY <2>1 DEF ExpireToken
  <2>3. tokens \in Seq(Rows) /\ tokens[n] \in Rows
    BY TokensAreRows DEF Inv, StateOK
  <2>4. DOMAIN tokens' = DOMAIN tokens
    BY <2>2
  <2>5. \A m \in DOMAIN tokens : /\ tokens'[m].user = tokens[m].user /\ tokens'[m].parent = tokens[m].parent
                                 /\ tokens'[m].revoked = tokens[m].revoked
    BY <2>2, <2>3, TokensAreRows DEF Inv, Rows
  <2>6. Grows(users, tokens, users', tokens')
    BY <2>2, <2>4, <2>5 DEF Grows
  <2> QED
    BY <2>4, <2>6, GrowthKeepsDescent DEF Inv
<1>5. \/ \E r \in Requests : _issue_tokens(r)
      \/ UNCHANGED tokens
      \/ \E r \in Requests : ReadUser(r) \/ LogoutRevoke(r)
      \/ \E n \in DOMAIN tokens : ExpireToken(n)
  <2>1. CASE AccountsNext
    <3>1. CASE \E r \in Requests : Send(r) \/ Handle(r) \/ Receive(r) \/ Lose(r)
      <4>1. PICK r \in Requests : Send(r) \/ Handle(r) \/ Receive(r) \/ Lose(r)
        BY <3>1
      <4>2. CASE Handle(r)
        BY <4>2 DEF Handle, LookUpEmail, InsertUser, login, ReadToken, LogoutLookUp, me,
                    get_current_admin, deactivate_user
      <4>3. CASE Send(r) \/ Receive(r) \/ Lose(r)
        BY <4>3 DEF Send, Receive, Lose
      <4> QED
        BY <4>1, <4>2, <4>3
    <3>2. CASE \E b \in Browsers : ExpireAccess(b)
      BY <3>2 DEF ExpireAccess
    <3> QED
      BY <2>1, <3>1, <3>2 DEF AccountsNext
  <2>2. CASE UNCHANGED accountVars
    BY <2>2 DEF accountVars
  <2>3. CASE \E r \in Requests : stream_user(r) \/ stream(r)
    BY <2>3 DEF stream_user, stream
  <2>4. CASE UNCHANGED vars
    BY <2>4 DEF vars, accountVars
  <2> QED
    BY <2>1, <2>2, <2>3, <2>4 DEF Next
<1> QED
  BY <1>1, <1>2, <1>3, <1>4, <1>5

LEMMA DescentInit == Init => DescentInv
<1> SUFFICES ASSUME Init PROVE DescentInv
  OBVIOUS
<1>1. PICK s \in Starts : tokens = s.tokens
  BY DEF Init
<1>2. s.tokens \in Seq([user : Emails, revoked : BOOLEAN, expired : BOOLEAN, parent : {0}])
  BY StartsAssumption DEF IsStart
<1>3. \A n \in DOMAIN tokens : n \in Nat \ {0} /\ tokens[n].parent = 0
  <2>1. PICK A : A = [user : Emails, revoked : BOOLEAN, expired : BOOLEAN, parent : {0}]
    OBVIOUS
  <2>2. tokens \in Seq(A)
    BY <1>1, <1>2, <2>1
  <2>3. \A n \in DOMAIN tokens : n \in Nat \ {0} /\ tokens[n] \in A
    BY <2>2
  <2> QED
    BY <2>1, <2>3
<1> QED
  BY <1>3 DEF DescentInv

(* What stream_worker.py publishes and each open /stream request of        *)
(* stream.py gets, for any frames, outages, viewers and channels: the      *)
(* feed in the provider's order without repetition, whole while nothing    *)
(* breaks, and of it every message a viewer asked for since it came.       *)
THEOREM EveryViewerSeesTheFeed == Spec => []ViewersSeeTheFeed
<1>1. Init => StreamInv /\ DescentInv
  BY StreamInit, DescentInit
<1>2. StreamInv /\ [Next]_vars => StreamInv'
  <2>1. CASE AccountsNext /\ UNCHANGED streamVars
    BY <2>1, StillFeed
  <2>2. CASE StreamingNext
    BY <2>2, StreamingKeepsInv
  <2>3. CASE \E r \in Requests : stream_user(r) \/ stream(r)
    <3>1. CASE \E r \in Requests : stream_user(r)
      <4>1. UNCHANGED streamVars
        BY <3>1 DEF stream_user
      <4> QED
        BY <4>1, StillFeed
    <3>2. CASE \E r \in Requests : stream(r)
      BY <3>2, OpeningKeepsInv
    <3> QED
      BY <2>3, <3>1, <3>2
  <2>4. CASE UNCHANGED vars
    BY <2>4, StillFeed DEF vars
  <2> QED
    BY <2>1, <2>2, <2>3, <2>4 DEF Next
<1>3. Inv /\ DescentInv /\ [Next]_vars => DescentInv'
  BY NextKeepsDescent
<1>4. Inv /\ DescentInv /\ StreamInv => ViewersSeeTheFeed
  <2> SUFFICES ASSUME Inv, DescentInv, StreamInv PROVE ViewersSeeTheFeed
    OBVIOUS
  <2>1. \A b \in Browsers : cookie[b] \in 0..Len(tokens) /\ access[b] \in Emails \cup {NoUser}
    <3>1. DOMAIN tokens = 1..Len(tokens) /\ Len(tokens) \in Nat
      BY DEF Inv, StateOK
    <3> QED
      BY <3>1 DEF Inv, StateOK
  <2>2. TypeOK
    BY <2>1 DEF TypeOK, DescentInv, StreamInv, FeedInv, ViewersInv
  <2> QED
    BY <2>2 DEF ViewersSeeTheFeed, StreamInv, FeedInv, ViewersInv
<1> QED
  BY <1>1, <1>2, <1>3, <1>4, AlwaysInv, PTL DEF Spec
=============================================================================
