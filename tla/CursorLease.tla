---------------------------- MODULE CursorLease ----------------------------
(***************************************************************************)
(* What the cursor registry promises: a cursor is a lease of one client.   *)
(* It is granted once, on a client no other lease covers, together with a  *)
(* transaction on the server; it is parked and taken back any number of    *)
(* times without changing hands; and it is given up once, by whoever has   *)
(* taken it, together with the client and with the transaction.  Only the  *)
(* server may end a transaction earlier.                                   *)
(***************************************************************************)
CONSTANTS
    Leases,   \* ids of leases
    Lenders,  \* what a lease covers
    None

VARIABLES
    place,     \* where each lease is in its life
    lent,      \* what each lease covers
    declared   \* leases whose transaction the server has

Places == {"unborn", "parked", "out", "over"}

LeaseInit ==
    /\ place = [x \in Leases |-> "unborn"]
    /\ lent = [x \in Leases |-> None]
    /\ declared = {}

Grant(x, s) ==
    /\ place[x] = "unborn"
    /\ \A y \in Leases : lent[y] # s
    /\ place' = [place EXCEPT ![x] = "out"]
    /\ lent' = [lent EXCEPT ![x] = s]
    /\ declared' = declared \cup {x}

Park(x) ==
    /\ place[x] = "out"
    /\ place' = [place EXCEPT ![x] = "parked"]
    /\ UNCHANGED <<lent, declared>>

TakeBack(xs) ==
    /\ \A x \in xs : place[x] = "parked"
    /\ place' = [x \in Leases |-> IF x \in xs THEN "out" ELSE place[x]]
    /\ UNCHANGED <<lent, declared>>

GiveUp(x) ==
    /\ place[x] = "out"
    /\ place' = [place EXCEPT ![x] = "over"]
    /\ lent' = [lent EXCEPT ![x] = None]
    /\ declared' = declared \ {x}

\* The server ends the transaction; the lease goes on.
Lose(x) ==
    /\ x \in declared
    /\ declared' = declared \ {x}
    /\ UNCHANGED <<place, lent>>

LeaseNext ==
    \/ \E x \in Leases, s \in Lenders : Grant(x, s)
    \/ \E x \in Leases : Park(x) \/ GiveUp(x) \/ Lose(x)
    \/ \E xs \in SUBSET Leases : TakeBack(xs)

LeaseSpec == LeaseInit /\ [][LeaseNext]_<<place, lent, declared>>
=============================================================================
