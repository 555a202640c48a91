---------------------------- MODULE KeyedOrders ----------------------------
(***************************************************************************)
(* What an Idempotency-Key promises to a customer who orders: an order is  *)
(* made for a key at most once, and whoever is answered is answered with   *)
(* an order that was made for the key and the payload sent.  Once the      *)
(* service has lost what it must remember, only the second half holds.     *)
(***************************************************************************)
CONSTANTS Ids, Keys, Payloads, Clients, NoAnswer

VARIABLES
    made,    \* the orders that were made, with their key and payload
    told,    \* the order in the last answer to each client
    trusted  \* nothing has been lost

vars == <<made, told, trusted>>

Orders == [id: Ids, key: Keys, payload: Payloads]

Init ==
    /\ made = {}
    /\ told = [c \in Clients |-> NoAnswer]
    /\ trusted = TRUE

Make ==
    \E m \in Orders :
        /\ \A x \in made : x.id # m.id
        /\ trusted' => \A x \in made : x.key # m.key
        /\ made' = made \cup {m}
        /\ UNCHANGED told

Tell ==
    \E c \in Clients, m \in made :
        /\ told' = [told EXCEPT ![c] = m]
        /\ UNCHANGED made

Lose == UNCHANGED <<made, told>>

\* What is lost is not found again.
Next == (trusted' => trusted) /\ (Make \/ Tell \/ Lose)

Spec == Init /\ [][Next]_vars
=============================================================================
