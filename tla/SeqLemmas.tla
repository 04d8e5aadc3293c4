------------------------------ MODULE SeqLemmas ------------------------------
(* What Append and Tail do to the elements of a sequence, in the form the   *)
(* proofs about message queues need.                                        *)
EXTENDS Integers, Sequences, TLAPS

(* What Append adds to the elements of a sequence.                          *)
LEMMA AppendElements ==
    ASSUME NEW S, NEW s \in Seq(S), NEW e \in S
    PROVE  /\ Append(s, e) \in Seq(S)
           /\ \A i \in 1 .. Len(Append(s, e)) :
                 Append(s, e)[i] = e \/ (i \in 1 .. Len(s) /\ Append(s, e)[i] = s[i])
OBVIOUS

(* What Tail leaves of the elements of a sequence, and where Head was.      *)
LEMMA TailElements ==
    ASSUME NEW S, NEW s \in Seq(S), s # <<>>
    PROVE  /\ Tail(s) \in Seq(S)
           /\ 1 \in 1 .. Len(s) /\ Head(s) = s[1] /\ Head(s) \in S
           /\ \A i \in 1 .. Len(Tail(s)) :
                 i + 1 \in 1 .. Len(s) /\ Tail(s)[i] = s[i + 1]
OBVIOUS

(* Two sequences of one element, joined.                                    *)
LEMMA JoinedElements ==
    ASSUME NEW S, NEW a \in S, NEW b \in S
    PROVE  /\ Len(<<a>> \o <<b>>) = 2
           /\ (<<a>> \o <<b>>)[1] = a
           /\ (<<a>> \o <<b>>)[2] = b
<1>1. <<a>> \in Seq(S) /\ <<b>> \in Seq(S) /\ Len(<<a>>) = 1 /\ Len(<<b>>) = 1
  OBVIOUS
<1>2. QED
  BY <1>1

(* The elements of a sequence are of its type.                              *)
LEMMA ElementType ==
    ASSUME NEW S, NEW s \in Seq(S), NEW i \in 1 .. Len(s)
    PROVE  s[i] \in S
OBVIOUS

(* The elements of a concatenation.                                         *)
LEMMA ConcatElements ==
    ASSUME NEW S, NEW a \in Seq(S), NEW b \in Seq(S)
    PROVE  /\ a \o b \in Seq(S) /\ Len(a \o b) = Len(a) + Len(b)
           /\ \A j \in 1 .. Len(a) + Len(b) :
                 (a \o b)[j] = IF j <= Len(a) THEN a[j] ELSE b[j - Len(a)]
OBVIOUS

(* What is left of a sequence without its first m elements.                 *)
LEMMA RestElements ==
    ASSUME NEW S, NEW s \in Seq(S), NEW m \in Nat, m <= Len(s)
    PROVE  \A i \in 1 .. Len(SubSeq(s, m + 1, Len(s))) :
              m + i \in 1 .. Len(s) /\ SubSeq(s, m + 1, Len(s))[i] = s[m + i]
<1>1. Len(s) \in Nat /\ Len(SubSeq(s, m + 1, Len(s))) = Len(s) - m
  OBVIOUS
<1>2. QED
  BY <1>1

(* Sequences with the same elements are the same.                           *)
LEMMA SameElements ==
    ASSUME NEW S, NEW s \in Seq(S), NEW t \in Seq(S), Len(s) = Len(t),
           \A j \in 1 .. Len(s) : s[j] = t[j]
    PROVE  s = t
OBVIOUS

(* Nothing follows the only element.                                        *)
LEMMA OnlyElement ==
    ASSUME NEW S, NEW s \in Seq(S), Len(s) = 1
    PROVE  Head(s) = s[1] /\ Tail(s) = <<>>
<1>1. Tail(s) \in Seq(S) /\ Len(Tail(s)) = 0
  OBVIOUS
<1>2. \A t \in Seq(S) : Len(t) = 0 => t = <<>>
  OBVIOUS
<1>3. Tail(s) = <<>>
  BY <1>1, <1>2
<1>4. QED
  BY <1>3
=============================================================================
