------------------------------- MODULE MCApi --------------------------------
(* Constants of Api for TLC: days of requests, and days of the feed. *)
EXTENDS Api, TLC

CONSTANTS b1, b2, a, u

Token(user) == [user |-> user, revoked |-> FALSE, expired |-> FALSE, parent |-> 0]
Start_(us, ts, c, x, r, n, w, g) ==
  [users |-> us, tokens |-> ts, cookie |-> c, access |-> x, req |-> r, expiries |-> n, ws |-> w,
   greets |-> g]

(* Any three of these, beside a session of a user and an administrator's. *)
OfSessions ==
  {Planned("refresh", b1, NoUser), Planned("logout", b1, NoUser), Planned("me", b1, NoUser),
   Planned("login", b1, u), Planned("deactivate", b2, u), Planned("deactivate", b1, a)}

SessionDays ==
  {Start_(a :> "active" @@ u :> "active", <<Token(u)>>, b1 :> 1 @@ b2 :> 0, b1 :> u @@ b2 :> a, r, 0, "ended", FALSE) :
     r \in [Requests -> OfSessions]}

(* Any three of these while nobody has an account. *)
OfNewcomers ==
  {Planned("register", b1, u), Planned("register", b2, u), Planned("login", b1, u)}

RegistrationDays ==
  {Start_(a :> "active" @@ u :> "absent", <<>>, b1 :> 0 @@ b2 :> 0, b1 :> NoUser @@ b2 :> NoUser, r, 0, "ended", FALSE) :
     r \in [Requests -> OfNewcomers]}

(* A viewer of the feed; its user may be deactivated before or after. *)
Watching == Planned("stream", b1, NoUser)
Over     == [Planned("me", b1, NoUser) EXCEPT !.pc = "done"]

FeedDays ==
  {Start_(a :> "active" @@ u :> "active", <<>>, b1 :> 0 @@ b2 :> 0, b1 :> u @@ b2 :> a,
          1 :> Watching @@ 2 :> Planned("deactivate", b2, u) @@ 3 :> Over, MaxExpiries, "off", g) : g \in BOOLEAN}

MCStarts == SessionDays \cup RegistrationDays \cup FeedDays

MCFeed == {<< <<"trade", "A">>, <<"quote", "A">> >>, << <<"bar", "A">>, <<"error", "A">> >>}
=============================================================================
