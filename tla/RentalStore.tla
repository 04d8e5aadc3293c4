---------------------------- MODULE RentalStore ----------------------------
(***************************************************************************)
(* The video store simulation, src/5448/homework3/sim.  Every day, in      *)
(* Simulation.run(): all active rentals get a day shorter, every customer  *)
(* returns what is due, and some customers, drawn at random, rent.  The    *)
(* program is sequential; what is hard is in its loops: one removes from   *)
(* the list it walks by index, one from the list it iterates over, and one *)
(* draws customers and then serves others than it has drawn.               *)
(*                                                                         *)
(* phase is the place in a day:                                            *)
(*   "newDay"   before CustomerPopulation.newDay()                         *)
(*   "index"    in the first loop of returnDueRentals() of cust, at i      *)
(*   "iterate"  in its second loop, a for-each, at i                       *)
(*   "draw"     before the draw of customersRentVideos()                   *)
(*   "rent"     in its last loop, at i                                     *)
(*   "over"     after the last day;  "crashed"  an exception was thrown    *)
(* Prices, names and printing are left out.  numberRented is too: nobody   *)
(* calls incrementRented(), so it is 0 and the test for 3 never holds.     *)
(***************************************************************************)
EXTENDS Integers, Sequences, FiniteSets

CONSTANTS
    NumVideos,     \* length of the catalouge
    NumCustomers,  \* length of the customer list
    Requirements,  \* getRentalRequirements() of each customer: [num, min]
    Request,       \* howManyToRent() of each customer, whose seed is fixed
    MostNights,    \* the longest rental any behavior can ask for
    Days           \* days simulated; 35 in the code

Videos    == 1 .. NumVideos
Customers == 1 .. NumCustomers

ASSUME SizesAssumption ==
    NumVideos \in Nat /\ NumCustomers \in Nat \ {0} /\ MostNights \in Nat /\ Days \in Nat

ASSUME RequestAssumption ==
    /\ Requirements \in [Customers -> [num : Nat, min : Nat]]
    /\ Request \in [Customers -> [num : Nat, nights : 1 .. MostNights]]
    /\ \A c \in Customers : Request[c].num <= Requirements[c].num

(* The kinds of customers, for instances to choose from: what               *)
(* getRentalRequirements() demands of the store, and what howManyToRent()   *)
(* draws from new Random(17239987).                                         *)
Breezy  == [required |-> [num |-> 2, min |-> 1], asked |-> [num |-> 1, nights |-> 1]]

Hoarder == [required |-> [num |-> 3, min |-> 3], asked |-> [num |-> 3, nights |-> 7]]

Regular == [required |-> [num |-> 3, min |-> 1], asked |-> [num |-> 2, nights |-> 3]]

VARIABLES
    day,            \* date in Simulation.run()
    phase,          \* place in the day, see above
    cust,           \* the customer returnDueRentals() runs for
    i,              \* position in the loop phase is about
    modified,       \* was the list changed during the for-each?
    used,           \* usedIndeces, the customers drawn
    available,      \* the videos marked available
    rentals,        \* the store's list: [id, by, videos, active, remaining]
    activeRentals,  \* each customer's list, of positions in rentals
    numberOfRentals

storeVars == <<available, rentals, activeRentals, numberOfRentals>>
loopVars  == <<day, phase, cust, i, modified, used>>
vars == <<storeVars, loopVars>>

RentalSet == [id : Nat, by : Customers, videos : SUBSET Videos, active : BOOLEAN,
              remaining : 0 .. MostNights]

Init ==
    /\ day = 1
    /\ phase = IF Days = 0 THEN "over" ELSE "newDay"
    /\ cust = 1
    /\ i = 1
    /\ modified = FALSE
    /\ used = <<>>
    /\ available = Videos
    /\ rentals = <<>>
    /\ activeRentals = [c \in Customers |-> <<>>]
    /\ numberOfRentals = 0

-----------------------------------------------------------------------------
(* The store and the rentals.                                               *)

Listed(c) == {activeRentals[c][k] : k \in 1 .. Len(activeRentals[c])}

(* (The first form lets the day of return pass.) *)
IsDue_Late(r) == rentals[r].remaining < 0

IsDue(r) == rentals[r].remaining <= 0

Decremented(rental) == [rental EXCEPT !.remaining = @ - 1]

Deactivated(rental) == [rental EXCEPT !.active = FALSE]

(* What is available once the videos of a rental are.                       *)
PutBack(rental) == available \cup rental.videos

CanTheyRent(num, min) ==
    num <= Cardinality(available) /\ Cardinality(available) >= min

CanIRent(c) == CanTheyRent(Requirements[c].num, Requirements[c].min)

(* rentRandomVideos(): the first ones of the catalouge that are available.  *)
(* (The first form forgets to look.)                                        *)
FirstVideos_Unchecked(num) == {v \in Videos : v <= num}

FirstVideos(num) ==
    {v \in available : Cardinality({w \in available : w <= v}) <= num}

(* The id of the next rental.  (The first form is never counted up.)        *)
NextId_Stuck == 0

NextId == numberOfRentals

(* The requests howManyToRent() may return: one only, since it makes a new  *)
(* generator from the same seed each time.  (The first form has no seed.)   *)
Requests_Unseeded(c) == [num : {Request[c].num}, nights : 1 .. MostNights]

Requests(c) == {Request[c]}

NewRental(c, req) == [id        |-> NextId,
                      by        |-> c,
                      videos    |-> FirstVideos(req.num),
                      active    |-> TRUE,
                      remaining |-> req.nights]

(* createRental() and the customer's own list.  The request is valid, being *)
(* no larger than the requirements the store has just been asked about.     *)
Rent(c, req) ==
    /\ numberOfRentals' = numberOfRentals + 1
    /\ rentals' = Append(rentals, NewRental(c, req))
    /\ available' = available \ FirstVideos(req.num)
    /\ activeRentals' = [activeRentals EXCEPT ![c] = Append(@, Len(rentals) + 1)]

RentVideos(c) ==
    IF CanIRent(c) THEN \E req \in Requests(c) : Rent(c, req) ELSE UNCHANGED storeVars

(* returnRental(): the first rental of the store's list with that id. *)
IndexOf(id) ==
    CHOOSE k \in 1 .. Len(rentals) :
        rentals[k].id = id /\ \A l \in 1 .. k - 1 : rentals[l].id # id

Without(s, k) == SubSeq(s, 1, k - 1) \o SubSeq(s, k + 1, Len(s))

Return(c, k) ==
    LET r == IndexOf(rentals[activeRentals[c][k]].id) IN
    /\ rentals' = [rentals EXCEPT ![r] = Deactivated(@)]
    /\ available' = PutBack(rentals[r])
    /\ activeRentals' = [activeRentals EXCEPT ![c] = Without(@, k)]
    /\ UNCHANGED numberOfRentals

-----------------------------------------------------------------------------
(* A new day: every customer's active rentals lose a day.                   *)
NewDay ==
    /\ phase = "newDay"
    /\ rentals' = [r \in 1 .. Len(rentals) |->
                     IF r \in Listed(rentals[r].by)
                     THEN Decremented(rentals[r]) ELSE rentals[r]]
    /\ phase' = "index"
    /\ cust' = 1
    /\ i' = 1
    /\ UNCHANGED <<day, modified, used, available, activeRentals, numberOfRentals>>

(* The first loop removes the element it stands on and steps on all the     *)
(* same, past the one that has moved up.                                    *)
IndexStep ==
    /\ phase = "index"
    /\ i <= Len(activeRentals[cust])
    /\ IF IsDue(activeRentals[cust][i]) THEN Return(cust, i) ELSE UNCHANGED storeVars
    /\ i' = i + 1
    /\ UNCHANGED <<day, phase, cust, modified, used>>

IndexDone ==
    /\ phase = "index"
    /\ i > Len(activeRentals[cust])
    /\ phase' = "iterate"
    /\ i' = 1
    /\ modified' = FALSE
    /\ UNCHANGED <<day, cust, used, storeVars>>

(* The for-each: hasNext() compares the cursor with the size, so removing   *)
(* the last element but one ends the loop, and removing any other makes     *)
(* next() throw a ConcurrentModificationException.                          *)
HasNext == i # Len(activeRentals[cust]) + 1

IterateStep ==
    /\ phase = "iterate"
    /\ HasNext
    /\ IF modified
       THEN phase' = "crashed" /\ UNCHANGED <<storeVars, i, modified>>
       ELSE LET due == IsDue(activeRentals[cust][i]) IN
              /\ modified' = due
              /\ IF due THEN Return(cust, i) ELSE UNCHANGED storeVars
              /\ i' = i + 1
              /\ UNCHANGED phase
    /\ UNCHANGED <<day, cust, used>>

IterateDone ==
    /\ phase = "iterate"
    /\ ~HasNext
    /\ IF cust < NumCustomers
       THEN phase' = "index" /\ cust' = cust + 1
       ELSE phase' = "draw" /\ cust' = 1
    /\ i' = 1
    /\ UNCHANGED <<day, modified, used, storeVars>>

(* Different customers, at least one, at most NumCustomers - 1.             *)
Draws == {n \in Customers : n = 1 \/ n < NumCustomers}

Draw ==
    /\ phase = "draw"
    /\ \E n \in Draws : \E s \in [1 .. n -> Customers] :
          /\ \A j, k \in 1 .. n : s[j] = s[k] => j = k
          /\ used' = s
    /\ phase' = "rent"
    /\ i' = 1
    /\ UNCHANGED <<day, cust, modified, storeVars>>

(* Who rents: the customer at the loop's own position, not the one drawn.   *)
(* (The first form is the customer drawn.)                                  *)
Renter_Drawn == used[i]

Renter == i

RentStep ==
    /\ phase = "rent"
    /\ i <= Len(used)
    /\ IF CanIRent(used[i]) THEN RentVideos(Renter) ELSE UNCHANGED storeVars
    /\ i' = i + 1
    /\ UNCHANGED <<day, phase, cust, modified, used>>

EndOfDay ==
    /\ phase = "rent"
    /\ i > Len(used)
    /\ day' = day + 1
    /\ phase' = IF day < Days THEN "newDay" ELSE "over"
    /\ used' = <<>>
    /\ i' = 1
    /\ UNCHANGED <<cust, modified, storeVars>>

Next == NewDay \/ IndexStep \/ IndexDone \/ IterateStep
        \/ IterateDone \/ Draw \/ RentStep \/ EndOfDay

Spec == Init /\ [][Next]_vars

-----------------------------------------------------------------------------
Active == {r \in 1 .. Len(rentals) : rentals[r].active}

ActiveOf(c) == {r \in Active : rentals[r].by = c}

(* The types of the variables: a list names rentals that exist, and no      *)
(* rental has run over its end.                                             *)
TypeOK ==
    /\ day \in 1 .. Days + 1
    /\ phase \in {"newDay", "index", "iterate", "draw", "rent", "over", "crashed"}
    /\ cust \in Customers
    /\ i \in Nat \ {0}
    /\ modified \in BOOLEAN
    /\ used \in Seq(Customers)
    /\ available \subseteq Videos
    /\ rentals \in Seq(RentalSet)
    /\ activeRentals \in [Customers -> Seq(1 .. Len(rentals))]
    /\ numberOfRentals = Len(rentals)

(* A video is either available or in exactly one active rental:             *)
(* rentRandomVideos() takes none that is out, and returnRental(), which     *)
(* finds the rental by its id, gives back the right ones.                   *)
VideosAreConserved ==
    /\ available = Videos \ UNION {rentals[r].videos : r \in Active}
    /\ \A q, r \in Active : q # r => rentals[q].videos \cap rentals[r].videos = {}

(* The two books agree: a customer's activeRentals lists each of the        *)
(* customer's active rentals in the store's list once, and no other.        *)
ActiveListsMatch ==
    \A c \in Customers :
        /\ Listed(c) = ActiveOf(c)
        /\ \A j, k \in 1 .. Len(activeRentals[c]) :
              activeRentals[c][j] = activeRentals[c][k] => j = k

(* The two loops of returnDueRentals() throw nothing, and when the          *)
(* customers rent no rental is due any more.  Each loop is wrong for a      *)
(* customer with two rentals due on one day; as every customer asks for the *)
(* same number of nights each time, that day never comes.                   *)
DueRentalsGoBack ==
    /\ phase # "crashed"
    /\ phase \in {"draw", "rent"} => \A r \in Active : ~IsDue(r)

(* The last customer of the list never rents: customersRentVideos() serves  *)
(* the customers at the first places of the list, as many as it has drawn,  *)
(* and never draws all.                                                     *)
LastNeverRents ==
    NumCustomers > 1 => \A r \in 1 .. Len(rentals) : rentals[r].by # NumCustomers

(* Nothing counts a customer's videos, so the limit of three is not kept;   *)
(* what bounds them is the length of a rental, one being made a day.        *)
HoldingsBound ==
    \A c \in Customers : Len(activeRentals[c]) <= Request[c].nights

(* The store is an inventory in which every rental takes videos from the    *)
(* shelf and every return brings the customer's back.                       *)
Held == [c \in Customers |-> UNION {rentals[r].videos : r \in ActiveOf(c)}]

Store == INSTANCE Inventory WITH held <- Held

(* Every step of the simulation is a step of the inventory or none.         *)
InventoryRefined == Store!Spec
=============================================================================
