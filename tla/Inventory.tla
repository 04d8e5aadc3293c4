------------------------------ MODULE Inventory ------------------------------
(***************************************************************************)
(* What a video store promises: a video is with one customer at a time,    *)
(* who took it from the shelf and brings it back.                          *)
(***************************************************************************)
CONSTANTS Videos, Customers

VARIABLE held     \* the videos each customer has at home

Shelf == Videos \ UNION {held[c] : c \in Customers}

Init == held = [c \in Customers |-> {}]

Take(c) ==
    \E vs \in SUBSET Shelf : held' = [held EXCEPT ![c] = @ \cup vs]

BringBack(c) ==
    \E vs \in SUBSET held[c] : held' = [held EXCEPT ![c] = @ \ vs]

Next == \E c \in Customers : Take(c) \/ BringBack(c)

Spec == Init /\ [][Next]_held
=============================================================================
