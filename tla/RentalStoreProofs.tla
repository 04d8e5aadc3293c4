-------------------------- MODULE RentalStoreProofs --------------------------
(***************************************************************************)
(* Proofs about the video store, for any number of videos, customers and   *)
(* days, and any requests the customers make, as long as each customer     *)
(* always makes the same one.                                              *)
(*                                                                         *)
(* The books (Books) agree whatever the dates are.  That the two loops of  *)
(* returnDueRentals() do what they should is a matter of dates: the        *)
(* rentals of a customer end on different days, in the order they were     *)
(* made (Spaced), so only the first can be due, and none runs over its end *)
(* (Calendar).                                                             *)
(***************************************************************************)
EXTENDS RentalStore, SeqLemmas, TLAPS

(* A rental's id is its position in the store's list, counted from 0.       *)
Ids == \A r \in 1 .. Len(rentals) : rentals[r].id = r - 1

(* What the store keeps, and that it agrees.                                *)
Books ==
    /\ available \subseteq Videos
    /\ rentals \in Seq(RentalSet)
    /\ activeRentals \in [Customers -> Seq(1 .. Len(rentals))]
    /\ numberOfRentals = Len(rentals)
    /\ Ids
    /\ ActiveListsMatch
    /\ VideosAreConserved

(* The days left of the k-th rental a customer has.                         *)
Left(c, k) == rentals[activeRentals[c][k]].remaining

(* Of two rentals of a customer, the later one ends later.                  *)
Spaced ==
    \A c \in Customers : \A j, k \in 1 .. Len(activeRentals[c]) :
        j < k => Left(c, k) >= Left(c, j) + (k - j)

(* The returns of today are still to come for the customer.                 *)
Unserved(c) ==
    \/ phase = "index" /\ (c > cust \/ (c = cust /\ i = 1))
    \/ phase = "iterate" /\ c > cust

(* Today's rental is already made, or tomorrow has not come.                *)
MayBeNew(c) == phase \in {"newDay", "over"} \/ (phase = "rent" /\ c < i)

(* How many days a rental can have left, at each place of the day.          *)
Calendar ==
    \A c \in Customers : \A k \in 1 .. Len(activeRentals[c]) :
        /\ Left(c, k) >= IF Unserved(c) THEN 0 ELSE 1
        /\ Left(c, k) <= IF MayBeNew(c) THEN Request[c].nights ELSE Request[c].nights - 1

(* The places of the day.                                                   *)
Loops ==
    /\ day \in 1 .. Days + 1
    /\ phase # "over" => day <= Days
    /\ phase \in {"newDay", "index", "iterate", "draw", "rent", "over"}
    /\ cust \in Customers
    /\ i \in Nat \ {0}
    /\ modified \in BOOLEAN
    /\ phase = "iterate" => ~modified /\ i <= Len(activeRentals[cust]) + 1
    /\ used \in Seq(Customers)
    /\ phase = "rent" => Len(used) \in Draws

(* The inductive invariant.                                                 *)
RentalInv == Loops /\ Books /\ Spaced /\ Calendar /\ LastNeverRents

-----------------------------------------------------------------------------
(* Sequences.                                                               *)

(* What is left of a sequence without its k-th element.                     *)
LEMMA WithoutElements ==
    ASSUME NEW S, NEW s \in Seq(S), NEW k \in 1 .. Len(s)
    PROVE  /\ Without(s, k) \in Seq(S)
           /\ Len(Without(s, k)) = Len(s) - 1
           /\ \A j \in 1 .. Len(s) - 1 :
                 Without(s, k)[j] = IF j < k THEN s[j] ELSE s[j + 1]
<1> DEFINE a == SubSeq(s, 1, k - 1)
           b == SubSeq(s, k + 1, Len(s))
<1>1. /\ a \in Seq(S) /\ Len(a) = k - 1
      /\ \A j \in 1 .. k - 1 : a[j] = s[j]
  OBVIOUS
<1>2. /\ b \in Seq(S) /\ Len(b) = Len(s) - k
      /\ \A j \in 1 .. Len(s) - k : b[j] = s[k + j]
  OBVIOUS
<1>3. /\ Without(s, k) = a \o b
      /\ Len(s) \in Nat /\ k \in Nat
  BY DEF Without
<1> HIDE DEF a, b
<1>4. /\ a \o b \in Seq(S) /\ Len(a \o b) = Len(s) - 1
      /\ \A j \in 1 .. Len(s) - 1 : (a \o b)[j] = IF j < k THEN a[j] ELSE b[j - k + 1]
  <2>1. /\ a \o b \in Seq(S) /\ Len(a \o b) = Len(a) + Len(b)
        /\ \A j \in 1 .. Len(a) + Len(b) :
              (a \o b)[j] = IF j <= Len(a) THEN a[j] ELSE b[j - Len(a)]
    BY <1>1, <1>2, ConcatElements
  <2>2. Len(a) + Len(b) = Len(s) - 1
    BY <1>1, <1>2, <1>3
  <2>3. \A j \in 1 .. Len(s) - 1 : (j <= Len(a) <=> j < k) /\ j - Len(a) = j - k + 1
    BY <1>1, <1>3
  <2>4. QED
    BY <2>1, <2>2, <2>3
<1>5. ASSUME NEW j \in 1 .. Len(s) - 1
      PROVE  (a \o b)[j] = IF j < k THEN s[j] ELSE s[j + 1]
  <2>1. CASE j < k
    BY <1>1, <1>3, <1>4, <2>1
  <2>2. CASE ~(j < k)
    <3>1. j - k + 1 \in 1 .. Len(s) - k /\ k + (j - k + 1) = j + 1
      BY <1>3, <2>2
    <3>2. b[j - k + 1] = s[k + (j - k + 1)]
      BY <1>2, <3>1
    <3>3. QED
      BY <1>3, <1>4, <2>2, <3>1, <3>2
  <2>3. QED
    BY <2>1, <2>2
<1>6. QED
  BY <1>3, <1>4, <1>5

-----------------------------------------------------------------------------
(* The books.                                                               *)

(* What the list of a customer says of the store's list.                    *)
LEMMA ListedRental ==
    ASSUME Books, NEW c \in Customers, NEW k \in 1 .. Len(activeRentals[c])
    PROVE  /\ activeRentals[c][k] \in Active
           /\ activeRentals[c][k] \in 1 .. Len(rentals)
           /\ rentals[activeRentals[c][k]] \in RentalSet
           /\ rentals[activeRentals[c][k]].by = c
<1>1. activeRentals[c][k] \in Listed(c)
  BY DEF Listed
<1>2. activeRentals[c][k] \in ActiveOf(c)
  BY <1>1 DEF Books, ActiveListsMatch
<1>3. QED
  BY <1>2, ElementType DEF ActiveOf, Active, Books

(* returnRental() finds, by its id, the rental it was given.                *)
LEMMA IndexOfFinds ==
    ASSUME Books, NEW r \in 1 .. Len(rentals)
    PROVE  IndexOf(rentals[r].id) = r
<1>1. \A k \in 1 .. Len(rentals) : rentals[k].id = rentals[r].id <=> k = r
  <2>1. \A k \in 1 .. Len(rentals) : rentals[k].id = k - 1
    BY DEF Books, Ids
  <2>2. Len(rentals) \in Nat
    BY DEF Books
  <2>3. QED
    BY <2>1, <2>2
<1>2. \A l \in 1 .. r - 1 : l \in 1 .. Len(rentals) /\ l # r
  BY DEF Books
<1>3. QED
  BY <1>1, <1>2 DEF IndexOf

(* A return keeps the books, and gives the customer's videos back.          *)
LEMMA ReturnBooks ==
    ASSUME Books, NEW c \in Customers, NEW k \in 1 .. Len(activeRentals[c]), Return(c, k)
    PROVE  /\ Books'
           /\ rentals' = [rentals EXCEPT ![activeRentals[c][k]].active = FALSE]
           /\ activeRentals' = [activeRentals EXCEPT ![c] = Without(@, k)]
           /\ Held' = [Held EXCEPT ![c] = @ \ rentals[activeRentals[c][k]].videos]
           /\ rentals[activeRentals[c][k]].videos \subseteq Held[c]
           /\ Len(rentals') = Len(rentals)
           /\ \A q \in 1 .. Len(rentals) : rentals'[q].by = rentals[q].by
<1> DEFINE r == activeRentals[c][k]
           s == activeRentals[c]
<1>1. r \in Active /\ r \in 1 .. Len(rentals) /\ rentals[r] \in RentalSet /\ rentals[r].by = c
  BY ListedRental
<1>2. /\ rentals \in Seq(RentalSet) /\ activeRentals \in [Customers -> Seq(1 .. Len(rentals))]
      /\ s \in Seq(1 .. Len(rentals)) /\ Len(s) \in Nat
  BY DEF Books
<1>3. r = IndexOf(rentals[r].id)
  BY <1>1, IndexOfFinds
<1>4. /\ rentals' = [rentals EXCEPT ![r].active = FALSE]
      /\ available' = available \cup rentals[r].videos
      /\ activeRentals' = [activeRentals EXCEPT ![c] = Without(@, k)]
      /\ numberOfRentals' = numberOfRentals
  BY <1>3 DEF Return, Deactivated, PutBack
<1>5. /\ rentals' \in Seq(RentalSet) /\ Len(rentals') = Len(rentals)
      /\ \A q \in 1 .. Len(rentals) :
            /\ rentals'[q].id = rentals[q].id /\ rentals'[q].by = rentals[q].by
            /\ rentals'[q].videos = rentals[q].videos
            /\ rentals'[q].active <=> rentals[q].active /\ q # r
  <2>1. \A q \in 1 .. Len(rentals) : rentals[q] \in RentalSet
    BY <1>2, ElementType
  <2>2. [rentals[r] EXCEPT !.active = FALSE] \in RentalSet
    BY <1>1 DEF RentalSet
  <2>3. rentals' = [rentals EXCEPT ![r] = [rentals[r] EXCEPT !.active = FALSE]]
    BY <1>4
  <2>4. rentals' \in Seq(RentalSet) /\ Len(rentals') = Len(rentals)
    BY <1>1, <1>2, <2>2, <2>3
  <2>5. \A q \in 1 .. Len(rentals) :
            rentals'[q] = IF q = r THEN [rentals[r] EXCEPT !.active = FALSE] ELSE rentals[q]
    BY <1>1, <1>2, <2>3
  <2>6. /\ [rentals[r] EXCEPT !.active = FALSE].id = rentals[r].id
        /\ [rentals[r] EXCEPT !.active = FALSE].by = rentals[r].by
        /\ [rentals[r] EXCEPT !.active = FALSE].videos = rentals[r].videos
        /\ ~[rentals[r] EXCEPT !.active = FALSE].active
    BY <1>1 DEF RentalSet
  <2>7. QED
    <3> HIDE DEF r
    <3> QED
      BY <2>4, <2>5, <2>6
<1>6. Active' = Active \ {r} /\ \A d \in Customers : ActiveOf(d)' = ActiveOf(d) \ {r}
  BY <1>5 DEF Active, ActiveOf
<1>7. /\ Without(s, k) \in Seq(1 .. Len(rentals)) /\ Len(Without(s, k)) = Len(s) - 1
      /\ \A j \in 1 .. Len(s) - 1 : Without(s, k)[j] = IF j < k THEN s[j] ELSE s[j + 1]
  BY <1>2, WithoutElements
<1>8. /\ activeRentals'[c] = Without(s, k)
      /\ \A d \in Customers \ {c} : activeRentals'[d] = activeRentals[d]
      /\ activeRentals' \in [Customers -> Seq(1 .. Len(rentals'))]
  BY <1>2, <1>4, <1>5, <1>7
<1>9. \A p, q \in 1 .. Len(s) : s[p] = s[q] => p = q
  BY DEF Books, ActiveListsMatch
<1>10. ASSUME NEW d \in Customers
       PROVE  /\ Listed(d)' = ActiveOf(d)'
              /\ \A p, q \in 1 .. Len(activeRentals'[d]) :
                    activeRentals'[d][p] = activeRentals'[d][q] => p = q
  <2>1. Listed(d) = ActiveOf(d)
    BY DEF Books, ActiveListsMatch
  <2>2. CASE d = c
    <3> HIDE DEF r, s
    <3>1. Listed(d) = {s[j] : j \in 1 .. Len(s)}
      BY <2>2 DEF Listed, s
    <3>2. Listed(d)' = {Without(s, k)[j] : j \in 1 .. Len(s) - 1}
      BY <1>7, <1>8, <2>2 DEF Listed
    <3>3. r = s[k] /\ k \in 1 .. Len(s)
      BY DEF r, s
    <3>4. \A j \in 1 .. Len(s) - 1 :
              Without(s, k)[j] \in {s[l] : l \in 1 .. Len(s)} \ {r}
      <4>1. \A j \in 1 .. Len(s) - 1 : j \in 1 .. Len(s) /\ j + 1 \in 1 .. Len(s)
        BY <1>2
      <4>2. QED
        BY <1>7, <1>9, <3>3, <4>1
    <3>5. ASSUME NEW l \in 1 .. Len(s), s[l] # r
          PROVE  \E j \in 1 .. Len(s) - 1 : Without(s, k)[j] = s[l]
      <4>1. CASE l < k
        <5>1. l \in 1 .. Len(s) - 1
          BY <1>2, <3>3, <4>1
        <5>2. Without(s, k)[l] = s[l]
          BY <1>7, <4>1, <5>1
        <5>3. QED
          BY <5>1, <5>2
      <4>2. CASE l > k
        <5>1. l - 1 \in 1 .. Len(s) - 1 /\ ~(l - 1 < k) /\ (l - 1) + 1 = l
          BY <1>2, <3>3, <4>2
        <5>2. Without(s, k)[l - 1] = s[(l - 1) + 1]
          BY <1>7, <5>1
        <5>3. QED
          BY <5>1, <5>2
      <4>3. QED
        BY <1>2, <3>3, <3>5, <4>1, <4>2
    <3>6. Listed(d)' = Listed(d) \ {r}
      BY <3>1, <3>2, <3>4, <3>5
    <3>7. \A p, q \in 1 .. Len(s) - 1 : Without(s, k)[p] = Without(s, k)[q] => p = q
      <4>1. SUFFICES ASSUME NEW p \in 1 .. Len(s) - 1, NEW q \in 1 .. Len(s) - 1,
                            Without(s, k)[p] = Without(s, k)[q]
                     PROVE  p = q
        OBVIOUS
      <4> DEFINE x == IF p < k THEN p ELSE p + 1
                 y == IF q < k THEN q ELSE q + 1
      <4>2. x \in 1 .. Len(s) /\ y \in 1 .. Len(s)
        BY <1>2
      <4>3. Without(s, k)[p] = s[x] /\ Without(s, k)[q] = s[y]
        BY <1>7
      <4>4. x = y
        BY <1>9, <4>1, <4>2, <4>3
      <4>5. QED
        BY <1>2, <3>3, <4>4
    <3>8. QED
      BY <1>6, <1>7, <1>8, <2>1, <2>2, <3>6, <3>7
  <2>3. CASE d # c
    <3>1. r \notin ActiveOf(d)
      BY <1>1, <2>3 DEF ActiveOf
    <3>2. Listed(d)' = Listed(d)
      BY <1>8, <2>3 DEF Listed
    <3>3. \A p, q \in 1 .. Len(activeRentals'[d]) :
              activeRentals'[d][p] = activeRentals'[d][q] => p = q
      BY <1>8, <2>3 DEF Books, ActiveListsMatch
    <3>4. QED
      BY <1>6, <2>1, <3>1, <3>2, <3>3
  <2>4. QED
    BY <2>2, <2>3
<1>11. ActiveListsMatch'
  BY <1>10 DEF ActiveListsMatch
<1>12. \A q \in Active : q # r => rentals[q].videos \cap rentals[r].videos = {}
  BY <1>1 DEF Books, VideosAreConserved
<1>13. VideosAreConserved' /\ available' \subseteq Videos
  <2>1. rentals[r].videos \subseteq Videos
    BY <1>1 DEF RentalSet
  <2>2. Active \subseteq 1 .. Len(rentals)
    BY DEF Active
  <2>3. available = Videos \ UNION {rentals[q].videos : q \in Active}
    BY DEF Books, VideosAreConserved
  <2>4. UNION {rentals'[q].videos : q \in Active'}
          = (UNION {rentals[q].videos : q \in Active}) \ rentals[r].videos
    <3>1. \A q \in Active : rentals'[q].videos = rentals[q].videos
      BY <1>5, <2>2
    <3>2. QED
      BY <1>6, <1>12, <3>1
  <2>5. available' = Videos \ UNION {rentals'[q].videos : q \in Active'}
    BY <1>4, <2>1, <2>3, <2>4, <1>1
  <2>6. \A p, q \in Active' : p # q => rentals'[p].videos \cap rentals'[q].videos = {}
    BY <1>5, <1>6, <2>2 DEF Books, VideosAreConserved
  <2>7. QED
    BY <2>5, <2>6 DEF VideosAreConserved
<1>14. Ids'
  BY <1>5 DEF Books, Ids
<1>15. Books'
  BY <1>4, <1>5, <1>8, <1>11, <1>13, <1>14 DEF Books
<1>16. rentals[r].videos \subseteq Held[c]
  BY <1>1 DEF Held, ActiveOf
<1>17. Held' = [Held EXCEPT ![c] = @ \ rentals[r].videos]
  <2>1. ASSUME NEW d \in Customers
        PROVE  Held'[d] = IF d = c THEN Held[d] \ rentals[r].videos ELSE Held[d]
    <3>1. /\ Held[d] = UNION {rentals[q].videos : q \in ActiveOf(d)}
          /\ Held'[d] = UNION {rentals'[q].videos : q \in ActiveOf(d)'}
      BY DEF Held
    <3>2. ActiveOf(d) \subseteq Active /\ Active \subseteq 1 .. Len(rentals)
      BY DEF ActiveOf, Active
    <3>3. \A q \in ActiveOf(d) : rentals'[q].videos = rentals[q].videos
      BY <1>5, <3>2
    <3>4. CASE d = c
      <4>1. ActiveOf(d)' = ActiveOf(d) \ {r}
        BY <1>6
      <4>2. \A q \in ActiveOf(d) : q # r => rentals[q].videos \cap rentals[r].videos = {}
        BY <1>12, <3>2
      <4>3. Held'[d] = UNION {rentals[q].videos : q \in ActiveOf(d) \ {r}}
        BY <3>1, <3>3, <4>1
      <4>4. UNION {rentals[q].videos : q \in ActiveOf(d) \ {r}}
              = (UNION {rentals[q].videos : q \in ActiveOf(d)}) \ rentals[r].videos
        <5> HIDE DEF r
        <5> QED
          BY <4>2
      <4>5. QED
        BY <3>1, <3>4, <4>3, <4>4
    <3>5. CASE d # c
      <4>1. r \notin ActiveOf(d)
        BY <1>1, <3>5 DEF ActiveOf
      <4>2. QED
        BY <1>6, <3>1, <3>3, <3>5, <4>1
    <3>6. QED
      BY <3>4, <3>5
  <2>2. QED
    BY <2>1 DEF Held
<1>18. Len(rentals') = Len(rentals) /\ \A q \in 1 .. Len(rentals) : rentals'[q].by = rentals[q].by
  BY <1>5
<1>19. QED
  BY <1>4, <1>15, <1>16, <1>17, <1>18

(* What is on the shelf of the inventory is what the store calls available. *)
LEMMA ShelfIsAvailable ==
    ASSUME Books
    PROVE  Store!Shelf = available
<1>1. available = Videos \ UNION {rentals[r].videos : r \in Active}
  BY DEF Books, VideosAreConserved
<1>2. \A r \in Active : rentals[r].by \in Customers
  <2>1. \A r \in 1 .. Len(rentals) : rentals[r] \in RentalSet
    BY ElementType DEF Books
  <2>2. QED
    BY <2>1 DEF Active, RentalSet
<1>3. \A v : (\E c \in Customers : v \in Held[c]) <=> (\E r \in Active : v \in rentals[r].videos)
  BY <1>2 DEF Held, ActiveOf
<1>4. Store!Shelf = Videos \ UNION {Held[c] : c \in Customers}
  BY DEF Store!Shelf
<1>5. QED
  BY <1>1, <1>3, <1>4

(* A new rental keeps the books, and takes its videos from the shelf.       *)
LEMMA RentBooks ==
    ASSUME Books, NEW c \in Customers, Rent(c, Request[c])
    PROVE  /\ Books'
           /\ Len(rentals') = Len(rentals) + 1
           /\ \A r \in 1 .. Len(rentals) : rentals'[r] = rentals[r]
           /\ rentals'[Len(rentals) + 1].by = c
           /\ rentals'[Len(rentals) + 1].remaining = Request[c].nights
           /\ activeRentals' = [activeRentals EXCEPT ![c] = Append(@, Len(rentals) + 1)]
           /\ Held' = [Held EXCEPT ![c] = @ \cup FirstVideos(Request[c].num)]
           /\ FirstVideos(Request[c].num) \subseteq available
<1> DEFINE n == Len(rentals) + 1
           vs == FirstVideos(Request[c].num)
           new == [id        |-> numberOfRentals,
                   by        |-> c,
                   videos    |-> vs,
                   active    |-> TRUE,
                   remaining |-> Request[c].nights]
<1>1. /\ rentals \in Seq(RentalSet) /\ Len(rentals) \in Nat /\ numberOfRentals = Len(rentals)
      /\ activeRentals \in [Customers -> Seq(1 .. Len(rentals))]
      /\ available \subseteq Videos
  BY DEF Books
<1>2. vs \subseteq available
  BY DEF FirstVideos
<1>3. Request[c].nights \in 0 .. MostNights
  BY RequestAssumption, SizesAssumption
<1>4. new \in RentalSet
  BY <1>1, <1>2, <1>3 DEF RentalSet
<1>5. new.id = n - 1 /\ new.by = c /\ new.videos = vs /\ new.active
      /\ new.remaining = Request[c].nights
  BY <1>1
<1>6. /\ rentals' = Append(rentals, new)
      /\ numberOfRentals' = numberOfRentals + 1
      /\ available' = available \ vs
      /\ activeRentals' = [activeRentals EXCEPT ![c] = Append(@, n)]
  BY DEF Rent, NewRental, NextId
<1> HIDE DEF n, vs, new
<1>7. /\ rentals' \in Seq(RentalSet) /\ Len(rentals') = n
      /\ rentals'[n] = new
      /\ \A r \in 1 .. Len(rentals) : rentals'[r] = rentals[r]
  BY <1>1, <1>4, <1>6 DEF n
<1>8. Active \subseteq 1 .. Len(rentals) /\ n \notin 1 .. Len(rentals)
  BY <1>1 DEF Active, n
<1>9. 1 .. Len(rentals') = (1 .. Len(rentals)) \cup {n}
  BY <1>1, <1>7 DEF n
<1>10. /\ Active' = Active \cup {n}
       /\ \A d \in Customers :
             ActiveOf(d)' = IF d = c THEN ActiveOf(d) \cup {n} ELSE ActiveOf(d)
  BY <1>5, <1>7, <1>8, <1>9 DEF Active, ActiveOf
<1>11. /\ activeRentals' \in [Customers -> Seq(1 .. Len(rentals'))]
       /\ Len(activeRentals'[c]) = Len(activeRentals[c]) + 1
       /\ activeRentals'[c][Len(activeRentals[c]) + 1] = n
       /\ \A k \in 1 .. Len(activeRentals[c]) : activeRentals'[c][k] = activeRentals[c][k]
       /\ \A d \in Customers \ {c} : activeRentals'[d] = activeRentals[d]
  <2>1. \A d \in Customers : activeRentals[d] \in Seq(1 .. Len(rentals'))
    <3>1. \A T, U : T \subseteq U => Seq(T) \subseteq Seq(U)
      OBVIOUS
    <3>2. QED
      BY <1>1, <1>9, <3>1
  <2>2. n \in 1 .. Len(rentals')
    BY <1>9
  <2>3. QED
    BY <1>1, <1>6, <2>1, <2>2
<1>12. ASSUME NEW d \in Customers
       PROVE  /\ Listed(d)' = ActiveOf(d)'
              /\ \A p, q \in 1 .. Len(activeRentals'[d]) :
                    activeRentals'[d][p] = activeRentals'[d][q] => p = q
  <2>1. /\ Listed(d) = ActiveOf(d)
        /\ \A p, q \in 1 .. Len(activeRentals[d]) :
              activeRentals[d][p] = activeRentals[d][q] => p = q
    BY DEF Books, ActiveListsMatch
  <2>2. CASE d = c
    <3> DEFINE m    == Len(activeRentals[c])
               old  == activeRentals[c]
               next == activeRentals'[c]
    <3>1. m \in Nat /\ \A k \in 1 .. m : old[k] \in 1 .. Len(rentals)
      BY <1>1
    <3>2. 1 .. m + 1 = (1 .. m) \cup {m + 1}
      BY <3>1
    <3>3. /\ Len(next) = m + 1 /\ next[m + 1] = n
          /\ \A k \in 1 .. m : next[k] = old[k]
      BY <1>11
    <3>4. /\ Listed(d) = {old[k] : k \in 1 .. m}
          /\ Listed(d)' = {next[k] : k \in 1 .. Len(next)}
      BY <2>2 DEF Listed
    <3>5. \A p, q \in 1 .. m : old[p] = old[q] => p = q
      BY <2>1, <2>2
    <3>6. Len(activeRentals'[d]) = m + 1 /\ activeRentals'[d] = next
      BY <1>11, <2>2
    <3> HIDE DEF m, old, next
    <3>7. Listed(d)' = Listed(d) \cup {n}
      BY <3>2, <3>3, <3>4
    <3>8. \A p, q \in 1 .. m + 1 : next[p] = next[q] => p = q
      BY <1>8, <3>1, <3>2, <3>3, <3>5
    <3>9. Listed(d)' = ActiveOf(d)'
      BY <1>10, <2>1, <2>2, <3>7
    <3>10. \A p, q \in 1 .. Len(activeRentals'[d]) :
               activeRentals'[d][p] = activeRentals'[d][q] => p = q
      BY <3>6, <3>8
    <3>11. QED
      BY <3>9, <3>10
  <2>3. CASE d # c
    <3>1. activeRentals'[d] = activeRentals[d]
      BY <1>11, <2>3
    <3>2. Listed(d)' = Listed(d)
      BY <3>1 DEF Listed
    <3>3. ActiveOf(d)' = ActiveOf(d)
      BY <1>10, <2>3
    <3>4. QED
      BY <2>1, <3>1, <3>2, <3>3
  <2>4. QED
    BY <2>2, <2>3
<1>13. ActiveListsMatch'
  BY <1>12 DEF ActiveListsMatch
<1>14. VideosAreConserved'
  <2>1. /\ available = Videos \ UNION {rentals[q].videos : q \in Active}
        /\ \A p, q \in Active : p # q => rentals[p].videos \cap rentals[q].videos = {}
    BY DEF Books, VideosAreConserved
  <2>2. /\ rentals'[n].videos = vs
        /\ \A q \in Active : rentals'[q].videos = rentals[q].videos
    BY <1>5, <1>7, <1>8
  <2>3. \A q \in Active : rentals[q].videos \cap vs = {}
    BY <1>2, <2>1
  <2>4. available' = Videos \ UNION {rentals'[q].videos : q \in Active'}
    <3>1. \A v : (\E q \in Active' : v \in rentals'[q].videos)
                 <=> v \in vs \/ (\E q \in Active : v \in rentals[q].videos)
      BY <1>10, <2>2
    <3>2. available' = available \ vs
      BY <1>6
    <3>3. \A v : v \in available' <=> v \in Videos /\ ~\E q \in Active' : v \in rentals'[q].videos
      BY <2>1, <3>1, <3>2
    <3>4. QED
      BY <3>3
  <2>5. \A p, q \in Active' : p # q => rentals'[p].videos \cap rentals'[q].videos = {}
    BY <1>10, <2>1, <2>2, <2>3
  <2>6. QED
    BY <2>4, <2>5 DEF VideosAreConserved
<1>15. Ids'
  BY <1>5, <1>7, <1>9 DEF Books, Ids
<1>16. Books'
  <2>1. available' \subseteq Videos
    BY <1>1, <1>6
  <2>2. numberOfRentals' = Len(rentals')
    BY <1>1, <1>6, <1>7 DEF n
  <2>3. QED
    BY <1>7, <1>11, <1>13, <1>14, <1>15, <2>1, <2>2 DEF Books
<1>17. Held' = [Held EXCEPT ![c] = @ \cup vs]
  <2>1. ASSUME NEW d \in Customers
        PROVE  Held'[d] = IF d = c THEN Held[d] \cup vs ELSE Held[d]
    <3>1. /\ Held[d] = UNION {rentals[q].videos : q \in ActiveOf(d)}
          /\ Held'[d] = UNION {rentals'[q].videos : q \in ActiveOf(d)'}
      BY DEF Held
    <3>2. ActiveOf(d) \subseteq 1 .. Len(rentals)
      BY DEF ActiveOf, Active
    <3>3. \A q \in ActiveOf(d) : rentals'[q].videos = rentals[q].videos
      BY <1>7, <3>2
    <3>4. rentals'[n].videos = vs
      BY <1>5, <1>7
    <3>5. QED
      BY <1>10, <3>1, <3>3, <3>4
  <2>2. QED
    BY <2>1 DEF Held
<1>18. QED
  BY <1>2, <1>5, <1>6, <1>7, <1>16, <1>17 DEF n, vs

(* A day that passes keeps the books.                                       *)
LEMMA NewDayBooks ==
    ASSUME Books, Calendar, NewDay
    PROVE  /\ Books'
           /\ Held' = Held
           /\ \A c \in Customers : \A k \in 1 .. Len(activeRentals[c]) :
                 rentals'[activeRentals[c][k]].remaining = Left(c, k) - 1
           /\ \A r \in 1 .. Len(rentals) : rentals'[r].by = rentals[r].by
           /\ Len(rentals') = Len(rentals)
<1>1. /\ rentals \in Seq(RentalSet) /\ Len(rentals) \in Nat
      /\ activeRentals \in [Customers -> Seq(1 .. Len(rentals))]
      /\ \A r \in 1 .. Len(rentals) : rentals[r] \in RentalSet
  BY ElementType DEF Books
<1>2. /\ rentals' = [r \in 1 .. Len(rentals) |->
                       IF r \in Listed(rentals[r].by)
                       THEN [rentals[r] EXCEPT !.remaining = @ - 1] ELSE rentals[r]]
      /\ UNCHANGED <<available, activeRentals, numberOfRentals>>
  BY DEF NewDay, Decremented
<1>3. \A r \in 1 .. Len(rentals) : r \in Listed(rentals[r].by) => rentals[r].remaining >= 1
  <2>1. SUFFICES ASSUME NEW r \in 1 .. Len(rentals), r \in Listed(rentals[r].by)
                 PROVE  rentals[r].remaining >= 1
    OBVIOUS
  <2>2. rentals[r].by \in Customers
    BY <1>1 DEF RentalSet
  <2>3. PICK k \in 1 .. Len(activeRentals[rentals[r].by]) : activeRentals[rentals[r].by][k] = r
    BY <2>1 DEF Listed
  <2>4. ~Unserved(rentals[r].by)
    BY DEF NewDay, Unserved
  <2>5. QED
    BY <2>2, <2>3, <2>4 DEF Calendar, Left
<1>4. \A r \in 1 .. Len(rentals) :
          /\ rentals'[r] \in RentalSet
          /\ rentals'[r].id = rentals[r].id /\ rentals'[r].by = rentals[r].by
          /\ rentals'[r].videos = rentals[r].videos
          /\ rentals'[r].active = rentals[r].active
          /\ r \in Listed(rentals[r].by) => rentals'[r].remaining = rentals[r].remaining - 1
  <2>1. SUFFICES ASSUME NEW r \in 1 .. Len(rentals)
                 PROVE  /\ rentals'[r] \in RentalSet
                        /\ rentals'[r].id = rentals[r].id /\ rentals'[r].by = rentals[r].by
                        /\ rentals'[r].videos = rentals[r].videos
                        /\ rentals'[r].active = rentals[r].active
                        /\ r \in Listed(rentals[r].by) =>
                              rentals'[r].remaining = rentals[r].remaining - 1
    OBVIOUS
  <2>2. rentals[r] \in RentalSet
    BY <1>1
  <2>3. CASE r \in Listed(rentals[r].by)
    <3>1. rentals'[r] = [rentals[r] EXCEPT !.remaining = @ - 1]
      BY <1>2, <2>3
    <3>2. rentals[r].remaining - 1 \in 0 .. MostNights
      BY <1>3, <2>2, <2>3, SizesAssumption DEF RentalSet
    <3>3. QED
      BY <2>2, <3>1, <3>2 DEF RentalSet
  <2>4. CASE r \notin Listed(rentals[r].by)
    BY <1>2, <2>2, <2>4
  <2>5. QED
    BY <2>3, <2>4
<1>5. rentals' \in Seq(RentalSet) /\ Len(rentals') = Len(rentals)
  <2>1. rentals' \in [1 .. Len(rentals) -> RentalSet]
    BY <1>2, <1>4
  <2>2. QED
    BY <1>1, <2>1
<1>6. Active' = Active /\ \A c \in Customers : ActiveOf(c)' = ActiveOf(c)
  BY <1>4, <1>5 DEF Active, ActiveOf
<1>7. Active \subseteq 1 .. Len(rentals) /\ \A c \in Customers : ActiveOf(c) \subseteq Active
  BY DEF Active, ActiveOf
<1>8. VideosAreConserved'
  BY <1>2, <1>4, <1>6, <1>7 DEF Books, VideosAreConserved
<1>9. ActiveListsMatch'
  BY <1>2, <1>6 DEF Books, ActiveListsMatch, Listed
<1>10. Ids'
  BY <1>4, <1>5 DEF Books, Ids
<1>11. Books'
  BY <1>2, <1>5, <1>8, <1>9, <1>10 DEF Books
<1>12. Held' = Held
  <2>1. ASSUME NEW c \in Customers
        PROVE  UNION {rentals'[q].videos : q \in ActiveOf(c)'}
                 = UNION {rentals[q].videos : q \in ActiveOf(c)}
    <3>1. \A q \in ActiveOf(c) : rentals'[q].videos = rentals[q].videos
      BY <1>4, <1>7
    <3>2. QED
      BY <1>6, <3>1
  <2>2. QED
    BY <2>1 DEF Held
<1>13. ASSUME NEW c \in Customers, NEW k \in 1 .. Len(activeRentals[c])
       PROVE  rentals'[activeRentals[c][k]].remaining = Left(c, k) - 1
  <2>1. /\ activeRentals[c][k] \in 1 .. Len(rentals)
        /\ activeRentals[c][k] \in Listed(rentals[activeRentals[c][k]].by)
    BY ListedRental DEF Listed
  <2>2. QED
    BY <1>4, <2>1 DEF Left
<1>14. QED
  BY <1>4, <1>5, <1>11, <1>12, <1>13

-----------------------------------------------------------------------------
(* The dates.                                                               *)

(* The days left are numbers.                                               *)
LEMMA LeftType ==
    ASSUME Books, NEW c \in Customers
    PROVE  /\ Len(activeRentals[c]) \in Nat
           /\ \A k \in 1 .. Len(activeRentals[c]) : Left(c, k) \in Int
           /\ Request[c].nights \in Nat
<1>1. Len(activeRentals[c]) \in Nat
  BY DEF Books
<1>2. \A k \in 1 .. Len(activeRentals[c]) : Left(c, k) \in Int
  BY ListedRental DEF Left, RentalSet
<1>3. Request[c].nights \in Nat
  BY RequestAssumption, SizesAssumption
<1>4. QED
  BY <1>1, <1>2, <1>3

(* Only the first rental of a customer can be due, and it can only before   *)
(* the customer has returned anything today.                                *)
LEMMA OnlyFirstIsDue ==
    ASSUME Books, Spaced, Calendar, NEW c \in Customers,
           NEW k \in 1 .. Len(activeRentals[c]), IsDue(activeRentals[c][k])
    PROVE  k = 1 /\ Unserved(c)
<1>1. Left(c, k) <= 0 /\ Left(c, k) \in Int /\ Len(activeRentals[c]) \in Nat
  BY LeftType DEF IsDue, Left
<1>2. Unserved(c)
  BY <1>1 DEF Calendar
<1>3. CASE k > 1
  <2>1. 1 \in 1 .. Len(activeRentals[c]) /\ 1 < k
    BY <1>1, <1>3
  <2>2. Left(c, k) >= Left(c, 1) + (k - 1)
    BY <2>1 DEF Spaced
  <2>3. Left(c, 1) >= 0 /\ Left(c, 1) \in Int
    BY <1>2, <2>1, LeftType DEF Calendar
  <2>4. QED
    BY <1>1, <2>1, <2>2, <2>3
<1>4. QED
  BY <1>1, <1>2, <1>3

(* A day that passes takes one day from each rental that is out.            *)
LEMMA NewDayDates ==
    ASSUME Loops, Books, Spaced, Calendar, NewDay
    PROVE  Spaced' /\ Calendar'
<1>1. /\ activeRentals' = activeRentals
      /\ \A c \in Customers : \A k \in 1 .. Len(activeRentals[c]) :
            /\ Left(c, k)' = Left(c, k) - 1
            /\ Left(c, k) \in Int
  BY NewDayBooks, LeftType DEF NewDay, Left
<1>2. Spaced'
  BY <1>1, LeftType DEF Spaced
<1>3. \A c \in Customers : Unserved(c)' /\ ~MayBeNew(c)' /\ ~Unserved(c) /\ MayBeNew(c)
  BY DEF NewDay, Unserved, MayBeNew, Loops, Customers
<1>4. ASSUME NEW c \in Customers, NEW k \in 1 .. Len(activeRentals[c])
      PROVE  Left(c, k)' >= 0 /\ Left(c, k)' <= Request[c].nights - 1
  <2>1. Left(c, k) >= 1 /\ Left(c, k) <= Request[c].nights
    BY <1>3 DEF Calendar
  <2>2. QED
    BY <1>1, <2>1, LeftType
<1>5. Calendar'
  BY <1>1, <1>3, <1>4 DEF Calendar
<1>6. QED
  BY <1>2, <1>5

(* A step of the first loop of returnDueRentals() leaves nothing due behind.*)
LEMMA IndexDates ==
    ASSUME Loops, Books, Spaced, Calendar, IndexStep
    PROVE  Spaced' /\ Calendar'
<1>0. PICK c \in Customers : c = cust
  BY DEF Loops
<1> DEFINE s == activeRentals[c]
<1>1. /\ phase = "index" /\ phase' = "index" /\ cust' = cust /\ i' = i + 1
      /\ i \in 1 .. Len(s) /\ Len(s) \in Nat
      /\ s \in Seq(1 .. Len(rentals))
  BY <1>0 DEF IndexStep, Loops, Books
<1>2. \A d \in Customers : ~MayBeNew(d) /\ ~MayBeNew(d)' /\ (Unserved(d)' => Unserved(d))
                         /\ (d # c => (Unserved(d)' <=> Unserved(d)))
  BY <1>0, <1>1 DEF MayBeNew, Unserved, Customers
<1>3. ~Unserved(c)'
  BY <1>0, <1>1 DEF Unserved, Customers
<1>4. CASE ~IsDue(s[i])
  <2>1. UNCHANGED storeVars
    BY <1>0, <1>4 DEF IndexStep
  <2>2. activeRentals' = activeRentals /\ rentals' = rentals
    BY <2>1 DEF storeVars
  <2>3. Spaced'
    BY <2>2 DEF Spaced, Left
  <2>4. \A k \in 1 .. Len(s) : Left(c, k) >= 1
    <3>1. Left(c, i) >= 1
      BY <1>1, <1>4, LeftType DEF IsDue, Left
    <3>2. CASE i = 1
      <4>1. \A k \in 1 .. Len(s) : k > 1 => Left(c, k) >= Left(c, 1) + (k - 1)
        BY <1>1, <3>2 DEF Spaced
      <4>2. QED
        BY <1>1, <3>1, <3>2, <4>1, LeftType
    <3>3. CASE i # 1
      BY <1>0, <1>1, <3>3 DEF Calendar, Unserved, Customers
    <3>4. QED
      BY <3>2, <3>3
  <2>5. Calendar'
    BY <1>1, <1>2, <1>3, <2>2, <2>4 DEF Calendar, Left
  <2>6. QED
    BY <2>3, <2>5
<1>5. CASE IsDue(s[i])
  <2>1. Return(c, i)
    BY <1>0, <1>5 DEF IndexStep
  <2>2. i = 1 /\ Unserved(c)
    BY <1>1, <1>5, OnlyFirstIsDue
  <2>3. /\ rentals' = [rentals EXCEPT ![s[i]].active = FALSE]
        /\ activeRentals' = [activeRentals EXCEPT ![c] = Without(@, i)]
    BY <1>1, <2>1, ReturnBooks
  <2>4. \A r \in 1 .. Len(rentals) : rentals'[r].remaining = rentals[r].remaining
    <3>1. \A r \in 1 .. Len(rentals) : rentals[r] \in RentalSet
      BY ElementType DEF Books
    <3>2. QED
      BY <2>3, <3>1 DEF Books, RentalSet
  <2>5. /\ \A d \in Customers \ {c} : activeRentals'[d] = activeRentals[d]
        /\ activeRentals'[c] = Without(s, 1)
    BY <1>1, <2>2, <2>3 DEF Books
  <2>6. /\ Len(Without(s, 1)) = Len(s) - 1
        /\ \A j \in 1 .. Len(s) - 1 : Without(s, 1)[j] = s[j + 1]
    <3>1. 1 \in 1 .. Len(s)
      BY <1>1, <2>2
    <3>2. \A j \in 1 .. Len(s) - 1 : ~(j < 1)
      OBVIOUS
    <3>3. QED
      BY <1>1, <3>1, <3>2, WithoutElements
  <2>7. \A d \in Customers \ {c} : \A k \in 1 .. Len(activeRentals[d]) :
            Left(d, k)' = Left(d, k)
    BY <2>4, <2>5, ListedRental DEF Left
  <2>8. \A k \in 1 .. Len(s) - 1 : k + 1 \in 1 .. Len(s) /\ Left(c, k)' = Left(c, k + 1)
    <3>1. \A k \in 1 .. Len(s) - 1 : k + 1 \in 1 .. Len(s)
      BY <1>1
    <3>2. \A k \in 1 .. Len(s) : s[k] \in 1 .. Len(rentals)
      BY <1>1, ListedRental
    <3>3. \A k \in 1 .. Len(s) - 1 : activeRentals'[c][k] = s[k + 1]
      BY <2>5, <2>6
    <3>4. \A k \in 1 .. Len(s) - 1 : rentals'[s[k + 1]].remaining = rentals[s[k + 1]].remaining
      BY <2>4, <3>1, <3>2
    <3>5. QED
      BY <3>1, <3>3, <3>4 DEF Left
  <2>9. Spaced'
    <3>1. \A j, k \in 1 .. Len(s) - 1 : j < k => Left(c, k)' >= Left(c, j)' + (k - j)
      <4>1. SUFFICES ASSUME NEW j \in 1 .. Len(s) - 1, NEW k \in 1 .. Len(s) - 1, j < k
                     PROVE  Left(c, k + 1) >= Left(c, j + 1) + (k - j)
        BY <2>8
      <4>2. j + 1 \in 1 .. Len(s) /\ k + 1 \in 1 .. Len(s) /\ j + 1 < k + 1
            /\ (k + 1) - (j + 1) = k - j
        BY <1>1, <4>1
      <4>3. Left(c, k + 1) >= Left(c, j + 1) + ((k + 1) - (j + 1))
        BY <1>1, <4>2 DEF Spaced
      <4>4. QED
        BY <4>2, <4>3
    <3>2. ASSUME NEW d \in Customers, NEW j \in 1 .. Len(activeRentals'[d]),
                 NEW k \in 1 .. Len(activeRentals'[d]), j < k
          PROVE  Left(d, k)' >= Left(d, j)' + (k - j)
      <4>1. CASE d = c
        BY <2>5, <2>6, <3>1, <3>2, <4>1
      <4>2. CASE d # c
        BY <2>5, <2>7, <3>2, <4>2 DEF Spaced
      <4>3. QED
        BY <4>1, <4>2
    <3>3. QED
      BY <3>2 DEF Spaced
  <2>10. \A k \in 1 .. Len(s) - 1 : Left(c, k)' >= 1 /\ Left(c, k)' <= Request[c].nights - 1
    <3>1. SUFFICES ASSUME NEW k \in 1 .. Len(s) - 1
                   PROVE  Left(c, k + 1) >= 1 /\ Left(c, k + 1) <= Request[c].nights - 1
      BY <2>8
    <3>2. k + 1 \in 1 .. Len(s) /\ 1 \in 1 .. Len(s) /\ 1 < k + 1 /\ (k + 1) - 1 >= 1
      BY <1>1
    <3>3. Left(c, k + 1) >= Left(c, 1) + ((k + 1) - 1)
      BY <1>1, <3>2 DEF Spaced
    <3>4. Left(c, 1) >= 0 /\ Left(c, k + 1) <= Request[c].nights - 1
      BY <1>1, <1>2, <2>2, <3>2 DEF Calendar
    <3>5. Left(c, 1) \in Int /\ Left(c, k + 1) \in Int
      BY <1>1, <3>2, LeftType
    <3>6. QED
      BY <3>2, <3>3, <3>4, <3>5
  <2>11. Calendar'
    <3>1. ASSUME NEW d \in Customers, NEW k \in 1 .. Len(activeRentals'[d])
          PROVE  /\ Left(d, k)' >= IF Unserved(d)' THEN 0 ELSE 1
                 /\ Left(d, k)' <= Request[d].nights - 1
      <4>1. CASE d = c
        BY <1>3, <2>5, <2>6, <2>10, <4>1
      <4>2. CASE d # c
        <5>1. k \in 1 .. Len(activeRentals[d]) /\ Left(d, k)' = Left(d, k)
          BY <2>5, <2>7, <4>2
        <5>2. (Unserved(d)' <=> Unserved(d)) /\ ~MayBeNew(d)
          BY <1>2, <4>2
        <5>3. QED
          BY <5>1, <5>2 DEF Calendar
      <4>3. QED
        BY <4>1, <4>2
    <3>2. QED
      BY <1>2, <3>1 DEF Calendar
  <2>12. QED
    BY <2>9, <2>11
<1>6. QED
  BY <1>4, <1>5

(* The second loop of returnDueRentals() finds nothing to return.           *)
LEMMA IterateIdles ==
    ASSUME Loops, Books, Spaced, Calendar, IterateStep
    PROVE  /\ UNCHANGED storeVars
           /\ ~modified' /\ i' = i + 1 /\ i \in 1 .. Len(activeRentals[cust])
           /\ UNCHANGED <<day, phase, cust, used>>
<1>1. PICK c \in Customers : c = cust
  BY DEF Loops
<1>2. /\ phase = "iterate" /\ ~modified /\ i \in Nat \ {0}
      /\ i <= Len(activeRentals[c]) + 1 /\ i # Len(activeRentals[c]) + 1
      /\ Len(activeRentals[c]) \in Nat
  BY <1>1 DEF IterateStep, HasNext, Loops, Books
<1>3. i \in 1 .. Len(activeRentals[c])
  BY <1>2
<1>4. ~IsDue(activeRentals[c][i])
  <2>1. ~Unserved(c)
    BY <1>1, <1>2 DEF Unserved, Customers
  <2>2. QED
    BY <1>3, <2>1, OnlyFirstIsDue
<1>5. /\ modified' = IsDue(activeRentals[c][i])
      /\ IF IsDue(activeRentals[c][i]) THEN Return(c, i) ELSE UNCHANGED storeVars
      /\ i' = i + 1
      /\ UNCHANGED <<day, phase, cust, used>>
  BY <1>1, <1>2 DEF IterateStep
<1>6. QED
  BY <1>1, <1>3, <1>4, <1>5

(* Steps that leave the store alone, as long as what is still to come today *)
(* is no less and what may be new is no more.                               *)
LEMMA DatesStay ==
    ASSUME Books, Spaced, Calendar, UNCHANGED storeVars,
           \A c \in Customers : (Unserved(c) => Unserved(c)' \/ activeRentals[c] = <<>>
                                   \/ \A k \in 1 .. Len(activeRentals[c]) : Left(c, k) >= 1)
                              /\ (MayBeNew(c) => MayBeNew(c)')
    PROVE  Spaced' /\ Calendar'
<1>1. activeRentals' = activeRentals /\ rentals' = rentals
  BY DEF storeVars
<1>2. Spaced'
  BY <1>1 DEF Spaced, Left
<1>3. ASSUME NEW c \in Customers, NEW k \in 1 .. Len(activeRentals[c])
      PROVE  /\ Left(c, k) >= IF Unserved(c)' THEN 0 ELSE 1
             /\ Left(c, k) <= IF MayBeNew(c)' THEN Request[c].nights ELSE Request[c].nights - 1
  <2>1. /\ Left(c, k) >= IF Unserved(c) THEN 0 ELSE 1
        /\ Left(c, k) <= IF MayBeNew(c) THEN Request[c].nights ELSE Request[c].nights - 1
        /\ Left(c, k) \in Int /\ Request[c].nights \in Nat
    BY LeftType DEF Calendar
  <2>2. Left(c, k) >= IF Unserved(c)' THEN 0 ELSE 1
    BY <2>1
  <2>3. Left(c, k) <= IF MayBeNew(c)' THEN Request[c].nights ELSE Request[c].nights - 1
    BY <2>1
  <2>4. QED
    BY <2>2, <2>3
<1>4. Calendar'
  <2>1. \A c \in Customers : \A k \in 1 .. Len(activeRentals[c]) : Left(c, k)' = Left(c, k)
    BY <1>1 DEF Left
  <2>2. QED
    BY <1>1, <1>3, <2>1 DEF Calendar
<1>5. QED
  BY <1>2, <1>4

(* A customer's turn to rent adds a rental that ends after all others.      *)
LEMMA RentDates ==
    ASSUME Loops, Books, Spaced, Calendar, RentStep, NEW c \in Customers, c = i,
           Rent(c, Request[c])
    PROVE  Spaced' /\ Calendar'
<1>0. PICK n \in Nat : n = Len(activeRentals[c])
  BY LeftType
<1> DEFINE m == n + 1
<1>1. /\ Len(rentals') = Len(rentals) + 1
      /\ \A r \in 1 .. Len(rentals) : rentals'[r] = rentals[r]
      /\ rentals'[Len(rentals) + 1].remaining = Request[c].nights
      /\ activeRentals' = [activeRentals EXCEPT ![c] = Append(@, Len(rentals) + 1)]
  BY RentBooks
<1>2. /\ Len(rentals) \in Nat
      /\ activeRentals \in [Customers -> Seq(1 .. Len(rentals))]
      /\ Request[c].nights \in Nat
  BY LeftType DEF Books
<1>3. /\ \A d \in Customers \ {c} : activeRentals'[d] = activeRentals[d]
      /\ Len(activeRentals'[c]) = m
      /\ activeRentals'[c][m] = Len(rentals) + 1
      /\ \A k \in 1 .. n : activeRentals'[c][k] = activeRentals[c][k]
  BY <1>0, <1>1, <1>2
<1>4. \A d \in Customers : \A k \in 1 .. Len(activeRentals[d]) : Left(d, k)' = Left(d, k)
  <2>1. ASSUME NEW d \in Customers, NEW k \in 1 .. Len(activeRentals[d])
        PROVE  Left(d, k)' = Left(d, k)
    <3>1. activeRentals[d][k] \in 1 .. Len(rentals)
      BY ListedRental
    <3>2. activeRentals'[d][k] = activeRentals[d][k]
      BY <1>0, <1>3
    <3>3. QED
      BY <1>1, <3>1, <3>2 DEF Left
  <2>2. QED
    BY <2>1
<1>5. Left(c, m)' = Request[c].nights
  BY <1>1, <1>3 DEF Left
<1>6. /\ phase = "rent" /\ phase' = "rent" /\ i' = i + 1
      /\ \A d \in Customers : ~Unserved(d) /\ ~Unserved(d)' /\ (MayBeNew(d) => MayBeNew(d)')
      /\ ~MayBeNew(c) /\ MayBeNew(c)'
  BY DEF RentStep, Unserved, MayBeNew, Customers, Loops
<1>7. \A k \in 1 .. n : Left(c, k) <= Request[c].nights - 1 /\ Left(c, k) \in Int
  BY <1>0, <1>6, LeftType DEF Calendar
<1>8. ASSUME NEW j \in 1 .. n
      PROVE  Request[c].nights >= Left(c, j) + (m - j)
  <2>1. Left(c, n) <= Request[c].nights - 1 /\ Left(c, n) \in Int
    <3>1. n \in 1 .. n
      OBVIOUS
    <3>2. QED
      BY <1>7, <3>1
  <2>2. Left(c, n) >= Left(c, j) + (n - j)
    <3>1. CASE j = n
      BY <1>2, <1>7, <3>1
    <3>2. CASE j # n
      <4>1. j < n /\ n \in 1 .. n
        BY <1>2, <3>2
      <4>2. QED
        BY <1>0, <4>1 DEF Spaced
    <3>3. QED
      BY <3>1, <3>2
  <2>3. QED
    BY <1>2, <1>7, <2>1, <2>2
<1>9. 1 .. m = (1 .. n) \cup {m}
  OBVIOUS
<1>10. Spaced'
  <2>1. ASSUME NEW d \in Customers, NEW j \in 1 .. Len(activeRentals'[d]),
               NEW k \in 1 .. Len(activeRentals'[d]), j < k
        PROVE  Left(d, k)' >= Left(d, j)' + (k - j)
    <3>1. CASE d # c
      BY <1>3, <1>4, <2>1, <3>1 DEF Spaced
    <3>2. CASE d = c /\ k # m
      <4>1. k \in 1 .. n /\ j \in 1 .. n
        BY <1>3, <1>9, <2>1, <3>2
      <4>2. QED
        BY <1>0, <1>4, <2>1, <3>2, <4>1 DEF Spaced
    <3>3. CASE d = c /\ k = m
      <4>1. j \in 1 .. n
        BY <1>3, <1>9, <2>1, <3>3
      <4>2. Left(c, j)' = Left(c, j)
        BY <1>0, <1>4, <4>1
      <4>3. QED
        BY <1>5, <1>8, <3>3, <4>1, <4>2
    <3>4. QED
      BY <3>1, <3>2, <3>3
  <2>2. QED
    BY <2>1 DEF Spaced
<1>11. Calendar'
  <2>1. ASSUME NEW d \in Customers, NEW k \in 1 .. Len(activeRentals'[d])
        PROVE  /\ Left(d, k)' >= 1
               /\ Left(d, k)' <= IF MayBeNew(d)' THEN Request[d].nights
                                                 ELSE Request[d].nights - 1
    <3>1. CASE d = c /\ k = m
      <4>1. Request[c].nights >= 1
        BY RequestAssumption
      <4>2. QED
        BY <1>2, <1>5, <1>6, <3>1, <4>1
    <3>2. CASE ~(d = c /\ k = m)
      <4>1. k \in 1 .. Len(activeRentals[d])
        BY <1>0, <1>3, <1>9, <2>1, <3>2
      <4>2. /\ Left(d, k) >= IF Unserved(d) THEN 0 ELSE 1
            /\ Left(d, k) <= IF MayBeNew(d) THEN Request[d].nights ELSE Request[d].nights - 1
        BY <4>1 DEF Calendar
      <4>3. Left(d, k) \in Int /\ Request[d].nights \in Nat /\ Left(d, k)' = Left(d, k)
        BY <1>4, <4>1, LeftType
      <4>4. ~Unserved(d) /\ (MayBeNew(d) => MayBeNew(d)')
        BY <1>6
      <4>5. QED
        BY <4>2, <4>3, <4>4
    <3>3. QED
      BY <3>1, <3>2
  <2>2. QED
    BY <1>6, <2>1 DEF Calendar
<1>12. QED
  BY <1>10, <1>11

-----------------------------------------------------------------------------
(* The steps of the simulation.                                             *)

(* Steps that leave the store alone leave its books alone.                  *)
LEMMA BooksStay ==
    ASSUME Books, UNCHANGED storeVars
    PROVE  Books' /\ Held' = Held /\ rentals' = rentals /\ activeRentals' = activeRentals
<1> USE DEF storeVars
<1>1. VideosAreConserved'
  BY DEF Books, VideosAreConserved, Active
<1>2. ActiveListsMatch'
  BY DEF Books, ActiveListsMatch, Listed, ActiveOf, Active
<1>3. Ids'
  BY DEF Books, Ids
<1>4. Books'
  BY <1>1, <1>2, <1>3 DEF Books
<1>5. Held' = Held
  BY DEF Held, ActiveOf, Active
<1>6. QED
  BY <1>4, <1>5

(* Who rents is in the list, and is not the last unless alone.              *)
LEMMA RenterType ==
    ASSUME Loops, RentStep, i <= Len(used)
    PROVE  i \in Customers /\ (NumCustomers > 1 => i # NumCustomers)
<1>1. Len(used) \in Draws /\ i \in Nat \ {0}
  BY DEF Loops, RentStep
<1>2. QED
  BY <1>1, SizesAssumption DEF Draws, Customers

(* What each step does to the store: nothing but a passing day, a return or *)
(* a rental.                                                                *)
LEMMA StoreStep ==
    ASSUME RentalInv, Next
    PROVE  \/ NewDay
           \/ UNCHANGED storeVars
           \/ \E c \in Customers : \E k \in 1 .. Len(activeRentals[c]) :
                 IndexStep /\ Return(c, k)
           \/ \E c \in Customers : c = i /\ RentStep /\ i <= Len(used) /\ Rent(c, Request[c])
<1> USE DEF RentalInv
<1>1. CASE IndexStep
  <2>1. PICK c \in Customers : c = cust
    BY DEF Loops
  <2>2. i \in 1 .. Len(activeRentals[c])
    BY <1>1, <2>1, LeftType DEF IndexStep, Loops
  <2>3. Return(c, i) \/ UNCHANGED storeVars
    BY <1>1, <2>1 DEF IndexStep
  <2>4. QED
    BY <1>1, <2>2, <2>3
<1>2. CASE IterateStep
  BY <1>2, IterateIdles
<1>3. CASE RentStep
  <2>1. i <= Len(used) /\ i \in Customers
    BY <1>3, RenterType DEF RentStep
  <2>2. UNCHANGED storeVars \/ Rent(i, Request[i])
    BY <1>3 DEF RentStep, RentVideos, Renter, Requests
  <2>3. QED
    BY <1>3, <2>1, <2>2
<1>4. CASE IndexDone \/ IterateDone \/ Draw \/ EndOfDay
  BY <1>4 DEF IndexDone, IterateDone, Draw, EndOfDay
<1>5. QED
  BY <1>1, <1>2, <1>3, <1>4 DEF Next

(* The books are kept, and the store does what an inventory does.           *)
LEMMA BooksKept ==
    ASSUME RentalInv, Next
    PROVE  Books' /\ (Store!Next \/ Held' = Held)
<1>1. Books /\ Calendar
  BY DEF RentalInv
<1>2. CASE NewDay
  BY <1>1, <1>2, NewDayBooks
<1>3. CASE UNCHANGED storeVars
  BY <1>1, <1>3, BooksStay
<1>4. ASSUME NEW c \in Customers, NEW k \in 1 .. Len(activeRentals[c]), Return(c, k)
      PROVE  Books' /\ Store!Next
  <2>1. /\ Books'
        /\ Held' = [Held EXCEPT ![c] = @ \ rentals[activeRentals[c][k]].videos]
        /\ rentals[activeRentals[c][k]].videos \in SUBSET Held[c]
    BY <1>1, <1>4, ReturnBooks
  <2>2. Store!BringBack(c)
    BY <2>1 DEF Store!BringBack
  <2>3. QED
    BY <2>1, <2>2 DEF Store!Next
<1>5. ASSUME NEW c \in Customers, Rent(c, Request[c])
      PROVE  Books' /\ Store!Next
  <2>1. /\ Books'
        /\ Held' = [Held EXCEPT ![c] = @ \cup FirstVideos(Request[c].num)]
        /\ FirstVideos(Request[c].num) \in SUBSET Store!Shelf
    BY <1>1, <1>5, RentBooks, ShelfIsAvailable
  <2>2. Store!Take(c)
    BY <2>1 DEF Store!Take
  <2>3. QED
    BY <2>1, <2>2 DEF Store!Next
<1>6. QED
  BY <1>2, <1>3, <1>4, <1>5, StoreStep

(* The dates are kept.                                                      *)
LEMMA DatesKept ==
    ASSUME RentalInv, Next
    PROVE  Spaced' /\ Calendar'
<1> USE DEF RentalInv
<1>1. CASE NewDay
  BY <1>1, NewDayDates
<1>2. CASE IndexStep
  BY <1>2, IndexDates
<1>3. CASE RentStep
  <2>1. ASSUME NEW c \in Customers, c = i, Rent(c, Request[c])
        PROVE  Spaced' /\ Calendar'
    BY <1>3, <2>1, RentDates
  <2>2. CASE UNCHANGED storeVars
    <3>1. \A c \in Customers : ~Unserved(c) /\ (MayBeNew(c) => MayBeNew(c)')
      BY <1>3 DEF RentStep, Unserved, MayBeNew, Customers, Loops
    <3>2. QED
      BY <2>2, <3>1, DatesStay
  <2>3. i <= Len(used) /\ i \in Customers
    BY <1>3, RenterType DEF RentStep
  <2>4. UNCHANGED storeVars \/ Rent(i, Request[i])
    BY <1>3 DEF RentStep, RentVideos, Renter, Requests
  <2>5. QED
    BY <2>1, <2>2, <2>3, <2>4
<1>4. CASE IterateStep
  <2>1. UNCHANGED storeVars /\ UNCHANGED <<phase, cust>> /\ phase = "iterate"
    BY <1>4, IterateIdles DEF IterateStep
  <2>2. \A c \in Customers : (Unserved(c) => Unserved(c)') /\ ~MayBeNew(c)
    BY <2>1 DEF Unserved, MayBeNew
  <2>3. QED
    BY <2>1, <2>2, DatesStay
<1>5. CASE IndexDone
  <2>1. UNCHANGED storeVars
    BY <1>5 DEF IndexDone
  <2>2. ASSUME NEW c \in Customers, Unserved(c)
        PROVE  Unserved(c)' \/ \A k \in 1 .. Len(activeRentals[c]) : Left(c, k) >= 1
    <3>1. CASE c > cust
      BY <1>5, <3>1 DEF IndexDone, Unserved
    <3>2. CASE ~(c > cust)
      <4>1. c = cust /\ i = 1
        BY <1>5, <2>2, <3>2 DEF IndexDone, Unserved
      <4>2. Len(activeRentals[c]) = 0
        BY <1>5, <4>1, LeftType DEF IndexDone
      <4>3. QED
        BY <4>2
    <3>3. QED
      BY <3>1, <3>2
  <2>3. \A c \in Customers : ~MayBeNew(c)
    BY <1>5 DEF IndexDone, MayBeNew
  <2>4. QED
    BY <2>1, <2>2, <2>3, DatesStay
<1>6. CASE IterateDone
  <2>1. UNCHANGED storeVars /\ phase = "iterate" /\ i' = 1 /\ cust \in Customers
        /\ IF cust < NumCustomers
           THEN phase' = "index" /\ cust' = cust + 1
           ELSE phase' = "draw" /\ cust' = 1
    BY <1>6 DEF IterateDone, Loops
  <2>2. \A c \in Customers : (Unserved(c) => Unserved(c)') /\ ~MayBeNew(c)
    BY <2>1, SizesAssumption DEF Unserved, MayBeNew, Customers
  <2>3. QED
    BY <2>1, <2>2, DatesStay
<1>7. CASE Draw
  <2>1. UNCHANGED storeVars
    BY <1>7 DEF Draw
  <2>2. \A c \in Customers : ~Unserved(c) /\ ~MayBeNew(c)
    BY <1>7 DEF Draw, Unserved, MayBeNew
  <2>3. QED
    BY <2>1, <2>2, DatesStay
<1>8. CASE EndOfDay
  <2>1. UNCHANGED storeVars
    BY <1>8 DEF EndOfDay
  <2>2. \A c \in Customers : ~Unserved(c) /\ MayBeNew(c)'
    BY <1>8 DEF EndOfDay, Unserved, MayBeNew
  <2>3. QED
    BY <2>1, <2>2, DatesStay
<1>9. QED
  BY <1>1, <1>2, <1>3, <1>4, <1>5, <1>6, <1>7, <1>8 DEF Next

(* The places of the day follow each other.                                 *)
LEMMA LoopsKept ==
    ASSUME RentalInv, Next
    PROVE  Loops'
<1> USE DEF RentalInv
<1>1. Loops /\ NumCustomers \in Nat \ {0} /\ Days \in Nat /\ 1 \in Customers
  BY SizesAssumption DEF Customers
<1>2. CASE NewDay
  BY <1>1, <1>2 DEF Loops, NewDay
<1>3. CASE IndexStep
  BY <1>1, <1>3 DEF Loops, IndexStep
<1>4. CASE IndexDone
  <2>1. /\ phase = "index" /\ phase' = "iterate" /\ i' = 1 /\ modified' = FALSE
        /\ UNCHANGED <<day, cust, used, activeRentals>>
    BY <1>4 DEF IndexDone, storeVars
  <2>2. 1 <= Len(activeRentals[cust]) + 1
    BY <1>1, LeftType DEF Loops
  <2>3. modified' \in BOOLEAN /\ ~modified' /\ phase' # "rent"
    BY <2>1
  <2>4. day' \in 1 .. Days + 1 /\ day' <= Days /\ i' \in Nat \ {0}
        /\ used' \in Seq(Customers) /\ cust' \in Customers
    BY <2>1 DEF Loops
  <2>5. i' <= Len(activeRentals'[cust']) + 1
    BY <2>1, <2>2
  <2>6. QED
    BY <2>1, <2>3, <2>4, <2>5 DEF Loops
<1>5. CASE IterateStep
  <2>1. /\ UNCHANGED <<day, phase, cust, used, activeRentals>> /\ ~modified' /\ i' = i + 1
        /\ i \in 1 .. Len(activeRentals[cust])
        /\ modified' \in BOOLEAN /\ phase = "iterate"
    <3>1. ~modified' /\ modified' \in BOOLEAN
      BY <1>1, <1>5, IterateIdles DEF IterateStep, IsDue, Loops
    <3>2. QED
      BY <1>5, <3>1, IterateIdles DEF IterateStep, storeVars
  <2>2. Len(activeRentals[cust]) \in Nat
    BY <1>1, LeftType DEF Loops
  <2>3. QED
    BY <1>1, <2>1, <2>2 DEF Loops
<1>6. CASE IterateDone
  <2>1. /\ phase = "iterate" /\ i' = 1 /\ UNCHANGED <<day, modified, used>>
        /\ IF cust < NumCustomers
           THEN phase' = "index" /\ cust' = cust + 1
           ELSE phase' = "draw" /\ cust' = 1
    BY <1>6 DEF IterateDone
  <2>2. cust' \in Customers /\ phase' \in {"index", "draw"}
    <3>1. cust \in Customers
      BY DEF Loops
    <3>2. QED
      BY <1>1, <2>1, <3>1 DEF Customers
  <2>3. phase' # "iterate" /\ phase' # "rent"
    BY <2>2
  <2>4. day' = day /\ day <= Days /\ i' \in Nat \ {0} /\ modified' \in BOOLEAN
        /\ used' \in Seq(Customers) /\ day' \in 1 .. Days + 1
    BY <2>1 DEF Loops
  <2>5. QED
    BY <2>2, <2>3, <2>4 DEF Loops
<1>7. CASE Draw
  <2>1. PICK n \in Draws : used' \in [1 .. n -> Customers]
    BY <1>7 DEF Draw
  <2>2. n \in Nat
    BY <2>1 DEF Draws, Customers
  <2>3. used' \in Seq(Customers) /\ Len(used') = n
    BY <2>1, <2>2
  <2>4. QED
    BY <1>1, <1>7, <2>1, <2>3 DEF Draw, Loops
<1>8. CASE RentStep
  BY <1>1, <1>8 DEF Loops, RentStep
<1>9. CASE EndOfDay
  BY <1>1, <1>9 DEF Loops, EndOfDay
<1>10. QED
  BY <1>2, <1>3, <1>4, <1>5, <1>6, <1>7, <1>8, <1>9 DEF Next

(* The last customer's turn does not come.                                  *)
LEMMA LastKept ==
    ASSUME RentalInv, Next
    PROVE  LastNeverRents'
<1> USE DEF RentalInv
<1>1. Books /\ Calendar /\ LastNeverRents /\ Loops /\ rentals \in Seq(RentalSet)
  BY DEF Books
<1>2. CASE NewDay
  BY <1>1, <1>2, NewDayBooks DEF LastNeverRents
<1>3. CASE UNCHANGED storeVars
  BY <1>1, <1>3 DEF storeVars, LastNeverRents
<1>4. ASSUME NEW c \in Customers, NEW k \in 1 .. Len(activeRentals[c]), Return(c, k)
      PROVE  LastNeverRents'
  <2>1. Len(rentals') = Len(rentals)
        /\ \A r \in 1 .. Len(rentals) : rentals'[r].by = rentals[r].by
    BY <1>1, <1>4, ReturnBooks
  <2>2. QED
    BY <1>1, <2>1 DEF LastNeverRents
<1>5. ASSUME NEW c \in Customers, c = i, RentStep, i <= Len(used), Rent(c, Request[c])
      PROVE  LastNeverRents'
  <2>1. /\ Len(rentals') = Len(rentals) + 1 /\ Len(rentals) \in Nat
        /\ \A r \in 1 .. Len(rentals) : rentals'[r] = rentals[r]
        /\ rentals'[Len(rentals) + 1].by = c
    BY <1>1, <1>5, RentBooks
  <2>2. NumCustomers > 1 => c # NumCustomers
    BY <1>1, <1>5, RenterType
  <2>3. 1 .. Len(rentals') = (1 .. Len(rentals)) \cup {Len(rentals) + 1}
    BY <2>1
  <2>4. QED
    BY <1>1, <2>1, <2>2, <2>3 DEF LastNeverRents
<1>6. QED
  BY <1>2, <1>3, <1>4, <1>5, StoreStep

(* The invariant holds at first.                                            *)
LEMMA InitRental == Init => RentalInv /\ Store!Init
<1> SUFFICES ASSUME Init PROVE RentalInv /\ Store!Init
  OBVIOUS
<1>1. /\ Len(rentals) = 0 /\ \A c \in Customers : Len(activeRentals[c]) = 0
      /\ Active = {} /\ \A c \in Customers : Listed(c) = {} /\ ActiveOf(c) = {}
  BY DEF Init, Active, Listed, ActiveOf
<1>2. Loops
  <2>1. 1 \in Customers /\ Days \in Nat
    BY SizesAssumption DEF Customers
  <2>2. used = <<>> /\ <<>> \in Seq(Customers)
    BY DEF Init
  <2>3. (phase = "newDay" /\ Days > 0) \/ phase = "over"
    BY <2>1 DEF Init
  <2>4. day = 1 /\ cust = 1 /\ i = 1 /\ modified = FALSE
    BY DEF Init
  <2>5. phase \notin {"iterate", "rent"}
    BY <2>3
  <2>6. day \in 1 .. Days + 1 /\ (phase # "over" => day <= Days)
    BY <2>1, <2>3, <2>4
  <2>7. modified \in BOOLEAN /\ ~modified
    BY <2>4
  <2>8. used \in Seq(Customers) /\ i \in Nat \ {0} /\ cust \in Customers
        /\ phase \in {"newDay", "index", "iterate", "draw", "rent", "over"}
    BY <2>1, <2>2, <2>3, <2>4
  <2>9. QED
    BY <2>5, <2>6, <2>7, <2>8 DEF Loops
<1>3. Books
  <2>1. VideosAreConserved
    BY <1>1 DEF Init, VideosAreConserved
  <2>2. Ids
    BY <1>1 DEF Ids
  <2>3. \A c \in Customers : \A j, k \in 1 .. Len(activeRentals[c]) : FALSE
    BY <1>1
  <2>4. ActiveListsMatch
    BY <1>1, <2>3 DEF ActiveListsMatch
  <2>5. QED
    BY <1>1, <2>1, <2>2, <2>4 DEF Init, Books
<1>4. Spaced /\ Calendar
  BY <1>1 DEF Spaced, Calendar
<1>5. LastNeverRents
  BY <1>1 DEF LastNeverRents
<1>6. Store!Init
  BY <1>1 DEF Store!Init, Held
<1>7. QED
  BY <1>2, <1>3, <1>4, <1>5, <1>6 DEF RentalInv

(* Every step keeps it.                                                     *)
LEMMA StepRental == RentalInv /\ [Next]_vars => RentalInv'
<1> SUFFICES ASSUME RentalInv, [Next]_vars PROVE RentalInv'
  OBVIOUS
<1>1. CASE Next
  BY <1>1, BooksKept, DatesKept, LoopsKept, LastKept DEF RentalInv
<1>2. CASE UNCHANGED vars
  <2>1. UNCHANGED storeVars /\ UNCHANGED loopVars
    BY <1>2 DEF vars
  <2>2. Books' /\ rentals' = rentals /\ activeRentals' = activeRentals
    BY <2>1, BooksStay DEF RentalInv
  <2>3. Loops'
    BY <2>1, <2>2 DEF loopVars, RentalInv, Loops
  <2>4. \A c \in Customers : (Unserved(c)' <=> Unserved(c)) /\ (MayBeNew(c)' <=> MayBeNew(c))
    BY <2>1 DEF loopVars, Unserved, MayBeNew
  <2>5. Spaced' /\ Calendar'
    BY <2>1, <2>4, DatesStay DEF RentalInv
  <2>6. LastNeverRents'
    BY <2>2 DEF RentalInv, LastNeverRents
  <2>7. QED
    BY <2>2, <2>3, <2>5, <2>6 DEF RentalInv
<1>3. QED
  BY <1>1, <1>2

(* The inductive invariant holds on every day.                              *)
LEMMA RentalInvariant == Spec => []RentalInv
BY InitRental, StepRental, PTL DEF Spec

(* The variables of the store keep their types, and no rental runs over.    *)
THEOREM RentalTypeCorrect == Spec => []TypeOK
<1>1. RentalInv => TypeOK
  BY DEF RentalInv, Loops, Books, TypeOK
<1>2. QED
  BY <1>1, RentalInvariant, PTL

(* No video is lost or rented out twice.                                    *)
THEOREM VideosConserved == Spec => []VideosAreConserved
<1>1. RentalInv => VideosAreConserved
  BY DEF RentalInv, Books
<1>2. QED
  BY <1>1, RentalInvariant, PTL

(* The customers' lists and the store's agree.                              *)
THEOREM ListsMatch == Spec => []ActiveListsMatch
<1>1. RentalInv => ActiveListsMatch
  BY DEF RentalInv, Books
<1>2. QED
  BY <1>1, RentalInvariant, PTL

(* Both loops of returnDueRentals() come through and leave nothing due,     *)
(* whatever the customers' requests are, since they never change.           *)
THEOREM ReturnsAreComplete == Spec => []DueRentalsGoBack
<1>1. RentalInv => DueRentalsGoBack
  <2> SUFFICES ASSUME RentalInv, phase \in {"draw", "rent"}, NEW r \in Active
               PROVE  ~IsDue(r)
    BY DEF DueRentalsGoBack, RentalInv, Loops
  <2>1. Books /\ Spaced /\ Calendar
    BY DEF RentalInv
  <2>2. r \in 1 .. Len(rentals) /\ rentals[r] \in RentalSet
    BY <2>1, ElementType DEF Active, Books
  <2>3. PICK c \in Customers : c = rentals[r].by
    BY <2>2 DEF RentalSet
  <2>4. r \in Listed(c)
    BY <2>1, <2>3 DEF ActiveOf, Books, ActiveListsMatch
  <2>5. PICK k \in 1 .. Len(activeRentals[c]) : activeRentals[c][k] = r
    BY <2>4 DEF Listed
  <2>6. ~Unserved(c)
    BY DEF Unserved
  <2>7. QED
    BY <2>1, <2>5, <2>6, OnlyFirstIsDue
<1>2. QED
  BY <1>1, RentalInvariant, PTL

(* The last customer of the list never rents.                               *)
THEOREM LastIsNeverServed == Spec => []LastNeverRents
<1>1. RentalInv => LastNeverRents
  BY DEF RentalInv
<1>2. QED
  BY <1>1, RentalInvariant, PTL

(* A customer has no more rentals than a rental has nights.                 *)
THEOREM HoldingsBounded == Spec => []HoldingsBound
<1>1. RentalInv => HoldingsBound
  <2> SUFFICES ASSUME RentalInv, NEW c \in Customers
               PROVE  Len(activeRentals[c]) <= Request[c].nights
    BY DEF HoldingsBound
  <2>1. Books /\ Spaced /\ Calendar
    BY DEF RentalInv
  <2>2. PICK n \in Nat : n = Len(activeRentals[c])
    BY <2>1, LeftType
  <2>3. Request[c].nights \in Nat /\ \A k \in 1 .. n : Left(c, k) \in Int
    BY <2>1, <2>2, LeftType
  <2>4. CASE n > 1
    <3>1. 1 \in 1 .. n /\ n \in 1 .. n
      BY <2>4
    <3>2. Left(c, n) >= Left(c, 1) + (n - 1)
      BY <2>1, <2>2, <2>4, <3>1 DEF Spaced
    <3>3. /\ Left(c, 1) >= IF Unserved(c) THEN 0 ELSE 1
          /\ Left(c, n) <= IF MayBeNew(c) THEN Request[c].nights ELSE Request[c].nights - 1
      BY <2>1, <2>2, <3>1 DEF Calendar
    <3>4. ~(Unserved(c) /\ MayBeNew(c))
      BY DEF Unserved, MayBeNew
    <3>5. QED
      BY <2>2, <2>3, <3>1, <3>2, <3>3, <3>4
  <2>5. CASE n <= 1
    BY <2>2, <2>3, <2>5, RequestAssumption
  <2>6. QED
    BY <2>2, <2>4, <2>5
<1>2. QED
  BY <1>1, RentalInvariant, PTL

(* The store is an inventory: a video is with one customer at a time.       *)
THEOREM StoreIsInventory == Spec => InventoryRefined
<1>1. Init => Store!Init
  BY InitRental
<1>2. RentalInv /\ [Next]_vars => [Store!Next]_Held
  <2> SUFFICES ASSUME RentalInv, [Next]_vars
               PROVE  Store!Next \/ Held' = Held
    OBVIOUS
  <2>1. CASE Next
    BY <2>1, BooksKept
  <2>2. CASE UNCHANGED vars
    BY <2>2, BooksStay DEF vars, RentalInv
  <2>3. QED
    BY <2>1, <2>2
<1>3. QED
  BY <1>1, <1>2, RentalInvariant, PTL DEF Spec, InventoryRefined, Store!Spec
=============================================================================
