----------------------------- MODULE Rebalance ------------------------------
(***************************************************************************)
(* What a rebalance session promises, without retries, lost replies or     *)
(* kills: each run announces its SELLs and BUYs once, orders reach the     *)
(* broker's desk at most once per order id and SELLs before BUYs, and the  *)
(* verdict the run ends with is true of the desk.  LiveSession implements  *)
(* this specification.                                                     *)
(***************************************************************************)
CONSTANT Runs

VARIABLES intent,   \* per run: the ids of the SELLs and BUYs it means to place
          desk,     \* [run, id] of every order the broker has taken
          verdict   \* per run: "open" until it ends

rvars == <<intent, desk, verdict>>

Verdicts == {"planned", "complete", "partial", "failed"}
Nothing  == [sells |-> {}, buys |-> {}]

OnDesk(id) == \E order \in desk : order.id = id
PlacedBy(r) == {order \in desk : order.run = r}

Init ==
  /\ intent = [r \in Runs |-> Nothing]
  /\ desk = {}
  /\ verdict = [r \in Runs |-> "open"]

(* A run announces, once, what it means to place. *)
Announce(r) ==
  /\ verdict[r] = "open"
  /\ intent[r] = Nothing
  /\ intent' = [intent EXCEPT ![r] = intent'[r]]
  /\ intent'[r].sells \cap intent'[r].buys = {}
  /\ UNCHANGED <<desk, verdict>>

(* The desk takes an order it has not seen; a BUY only after all SELLs. *)
Place(r) ==
  \E id \in intent[r].sells \cup intent[r].buys :
    /\ ~OnDesk(id)
    /\ id \in intent[r].buys => \A sell \in intent[r].sells : OnDesk(sell)
    /\ desk' = desk \cup {[run |-> r, id |-> id]}

(* The verdict, on the desk as it then is. *)
Justified(r, v) ==
  /\ v = "planned"  => PlacedBy(r) = {}
  /\ v = "complete" => \A id \in intent[r].sells \cup intent[r].buys : OnDesk(id)
  /\ v = "partial"  => /\ intent[r].sells # {} /\ intent[r].buys # {}
                       /\ \A id \in intent[r].sells : OnDesk(id)

Close(r) ==
  \E v \in Verdicts :
    verdict' = [verdict EXCEPT ![r] = v] /\ Justified(r, v)'

(* One exchange with the desk: it may place an order, end the run, or both. *)
Work(r) ==
  /\ verdict[r] = "open"
  /\ Place(r) \/ UNCHANGED desk
  /\ Close(r) \/ UNCHANGED verdict
  /\ UNCHANGED intent

Next == \E r \in Runs : Announce(r) \/ Work(r)

Spec == Init /\ [][Next]_rvars
=============================================================================
