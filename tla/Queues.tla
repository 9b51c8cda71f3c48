------------------------------- MODULE Queues -------------------------------
(***************************************************************************)
(* Queues of ids: the ready queue, the free list and the job queue hold an *)
(* id at most once.                                                        *)
(***************************************************************************)
EXTENDS Naturals, Sequences, TLAPS

Ids(seq) == {seq[i] : i \in DOMAIN seq}
Distinct(seq) == \A i, j \in DOMAIN seq : seq[i] = seq[j] => i = j

\* Appending an id that is not there yet.
LEMMA AppendId ==
  ASSUME NEW S, NEW s \in Seq(S), NEW x \in S
  PROVE  /\ Append(s, x) \in Seq(S)
         /\ Len(Append(s, x)) = Len(s) + 1
         /\ Ids(Append(s, x)) = Ids(s) \cup {x}
         /\ Distinct(s) /\ x \notin Ids(s) => Distinct(Append(s, x))
<1>1. /\ Append(s, x) \in Seq(S)
      /\ Len(Append(s, x)) = Len(s) + 1
      /\ DOMAIN Append(s, x) = 1 .. Len(s) + 1
      /\ \A i \in 1 .. Len(s) : Append(s, x)[i] = s[i]
      /\ Append(s, x)[Len(s) + 1] = x
      /\ DOMAIN s = 1 .. Len(s)
      /\ Len(s) \in Nat
  OBVIOUS
<1>2. Ids(Append(s, x)) \subseteq Ids(s) \cup {x}
  <2> SUFFICES ASSUME NEW i \in 1 .. Len(s) + 1
               PROVE  Append(s, x)[i] \in Ids(s) \cup {x}
    BY <1>1 DEF Ids
  <2>1. CASE i \in 1 .. Len(s)
    BY <1>1, <2>1 DEF Ids
  <2>2. CASE i = Len(s) + 1
    BY <1>1, <2>2
  <2>3. QED
    BY <1>1, <2>1, <2>2
<1>3. Ids(s) \cup {x} \subseteq Ids(Append(s, x))
  <2>1. ASSUME NEW i \in 1 .. Len(s) PROVE s[i] \in Ids(Append(s, x))
    <3>1. i \in 1 .. Len(s) + 1
      BY <1>1
    <3>2. QED
      BY <1>1, <3>1 DEF Ids
  <2>2. x \in Ids(Append(s, x))
    <3>1. Len(s) + 1 \in 1 .. Len(s) + 1
      BY <1>1
    <3>2. QED
      BY <1>1, <3>1 DEF Ids
  <2>3. QED
    BY <1>1, <2>1, <2>2 DEF Ids
<1>4. ASSUME Distinct(s), x \notin Ids(s) PROVE Distinct(Append(s, x))
  <2> SUFFICES ASSUME NEW i \in 1 .. Len(s) + 1, NEW j \in 1 .. Len(s) + 1,
                      Append(s, x)[i] = Append(s, x)[j]
               PROVE  i = j
    BY <1>1 DEF Distinct
  <2>1. \A k \in 1 .. Len(s) : s[k] # x
    BY <1>1, <1>4 DEF Ids
  <2>2. QED
    BY <1>1, <1>4, <2>1 DEF Distinct
<1>5. QED
  BY <1>1, <1>2, <1>3, <1>4

\* Removing the head of a queue without repetitions.
LEMMA TailId ==
  ASSUME NEW S, NEW s \in Seq(S), s # <<>>, Distinct(s)
  PROVE  /\ Tail(s) \in Seq(S)
         /\ Head(s) \in S
         /\ Head(s) \in Ids(s)
         /\ Ids(Tail(s)) = Ids(s) \ {Head(s)}
         /\ Distinct(Tail(s))
<1>1. /\ Tail(s) \in Seq(S)
      /\ Head(s) = s[1]
      /\ Len(s) \in Nat /\ Len(s) >= 1
      /\ DOMAIN s = 1 .. Len(s)
      /\ DOMAIN Tail(s) = 1 .. Len(s) - 1
      /\ \A i \in 1 .. Len(s) - 1 : Tail(s)[i] = s[i + 1]
  OBVIOUS
<1>2. Head(s) \in Ids(s) /\ Head(s) \in S
  BY <1>1 DEF Ids
<1>3. ASSUME NEW i \in 1 .. Len(s) - 1 PROVE Tail(s)[i] \in Ids(s) \ {Head(s)}
  BY <1>1, <1>3 DEF Ids, Distinct
<1>4. ASSUME NEW i \in 1 .. Len(s), s[i] # Head(s) PROVE s[i] \in Ids(Tail(s))
  <2>1. i - 1 \in 1 .. Len(s) - 1 /\ Tail(s)[i - 1] = s[i]
    BY <1>1, <1>4
  <2>2. QED
    BY <1>1, <2>1, Zenon DEF Ids
<1>5. Ids(Tail(s)) = Ids(s) \ {Head(s)}
  BY <1>1, <1>3, <1>4 DEF Ids
<1>6. Distinct(Tail(s))
  BY <1>1 DEF Distinct
<1>7. QED
  BY <1>1, <1>2, <1>5, <1>6

\* Removing the last id of the free list.
LEMMA FrontId ==
  ASSUME NEW S, NEW s \in Seq(S), s # <<>>, Distinct(s)
  PROVE  /\ SubSeq(s, 1, Len(s) - 1) \in Seq(S)
         /\ s[Len(s)] \in S
         /\ s[Len(s)] \in Ids(s)
         /\ Ids(SubSeq(s, 1, Len(s) - 1)) = Ids(s) \ {s[Len(s)]}
         /\ Distinct(SubSeq(s, 1, Len(s) - 1))
<1> DEFINE f == SubSeq(s, 1, Len(s) - 1)
<1>1. /\ f \in Seq(S)
      /\ Len(s) \in Nat /\ Len(s) >= 1
      /\ DOMAIN s = 1 .. Len(s)
      /\ DOMAIN f = 1 .. Len(s) - 1
      /\ \A i \in 1 .. Len(s) - 1 : f[i] = s[i]
  OBVIOUS
<1> HIDE DEF f
<1>2. s[Len(s)] \in Ids(s) /\ s[Len(s)] \in S
  BY <1>1 DEF Ids
<1>3. ASSUME NEW i \in 1 .. Len(s) - 1 PROVE f[i] \in Ids(s) \ {s[Len(s)]}
  BY <1>1, <1>3 DEF Ids, Distinct
<1>4. ASSUME NEW i \in 1 .. Len(s), s[i] # s[Len(s)] PROVE s[i] \in Ids(f)
  <2>1. i \in 1 .. Len(s) - 1
    BY <1>1, <1>4
  <2>2. QED
    BY <1>1, <2>1 DEF Ids
<1>5. Ids(f) = Ids(s) \ {s[Len(s)]}
  BY <1>1, <1>3, <1>4 DEF Ids
<1>6. Distinct(f)
  BY <1>1 DEF Distinct
<1>7. QED
  BY <1>1, <1>2, <1>5, <1>6 DEF f

\* What a queue of elements of S holds is in S.
LEMMA IdsIn ==
  ASSUME NEW S, NEW s \in Seq(S)
  PROVE  \A x \in Ids(s) : x \in S
BY DEF Ids

\* A queue of one is not empty, and its head is its element.
LEMMA HeadOfOne == \A x : <<x>> # <<>> /\ Head(<<x>>) = x
OBVIOUS

=============================================================================
