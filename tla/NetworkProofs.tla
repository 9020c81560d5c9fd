---------------------------- MODULE NetworkProofs ----------------------------
(***************************************************************************)
(* Theorems about the sockets (Network) and the names (Dns), for any       *)
(* descriptors, names, packets and bounds.                                 *)
(***************************************************************************)
EXTENDS MCNetwork, SequenceTheorems, FiniteSetTheorems, WellFoundedInduction, TLAPS

(* Natural numbers have a least one, which is what Min chooses.            *)
LEMMA Least ==
  ASSUME NEW T \in SUBSET Nat, T # {}
  PROVE  Min(T) \in T /\ \A y \in T : Min(T) <= y
<1> DEFINE R == OpToRel(<, Nat)
<1>1. IsWellFoundedOn(R, Nat)
  BY NatLessThanWellFounded
<1>2. \A x, y \in Nat : y < x => <<y, x>> \in R
  BY DEF OpToRel
<1> HIDE DEF R
<1>3. PICK x \in T : \A y \in T : ~(<<y, x>> \in R)
  BY <1>1, WFMin
<1>4. \A y \in T : x <= y
  <2> TAKE y \in T
  <2>1. x \in Nat /\ y \in Nat
    OBVIOUS
  <2>2. ~(y < x)
    BY <1>2, <1>3, <2>1
  <2>3. QED
    BY <2>1, <2>2
<1>5. QED
  BY <1>4 DEF Min

(* Induction over the numbers to N, of a set of them.                      *)
LEMMA Induction ==
  ASSUME NEW N \in Nat, NEW B, 0 \in B, \A n \in 1..N : n - 1 \in B => n \in B
  PROVE  \A n \in 0..N : n \in B
<1> DEFINE Out == {n \in 0..N : n \notin B}
<1> SUFFICES ASSUME Out # {} PROVE FALSE
  OBVIOUS
<1>1. Out \in SUBSET Nat /\ \A n : n \in Out <=> n \in 0..N /\ n \notin B
  OBVIOUS
<1> HIDE DEF Out
<1>2. PICK x \in Out : \A y \in Out : x <= y
  BY <1>1, Least
<1>3. x \in 1..N /\ x - 1 \in 0..N /\ ~(x <= x - 1)
  BY <1>1
<1>4. x - 1 \notin Out
  BY <1>2, <1>3
<1>5. QED
  BY <1>1, <1>3, <1>4

(* f is built to n from a value at 0 by a step. *)
Built(f, n, X, x0, step) == f \in [0..n -> X] /\ f[0] = x0 /\ \A k \in 1..n : f[k] = step[k][f[k - 1]]

(* What is defined by a value at 0 and a step exists. *)
LEMMA Recursion ==
  ASSUME NEW N \in Nat, NEW X, NEW x0 \in X, NEW step \in [1..N -> [X -> X]]
  PROVE  \E f : Built(f, N, X, x0, step)
<1> DEFINE B == {n \in 0..N : \E f : Built(f, n, X, x0, step)}
<1>1. 0 \in B
  <2>1. Built([k \in 0..0 |-> x0], 0, X, x0, step)
    BY DEF Built
  <2> HIDE DEF B
  <2>2. 0 \in 0..N /\ \E f : Built(f, 0, X, x0, step)
    BY <2>1
  <2>3. QED
    BY <2>2 DEF B
<1>2. ASSUME NEW n \in 1..N, n - 1 \in B PROVE n \in B
  <2>1. PICK f : Built(f, n - 1, X, x0, step)
    BY <1>2
  <2> DEFINE g == [k \in 0..n |-> IF k = n THEN step[n][f[n - 1]] ELSE f[k]]
  <2> HIDE DEF B
  <2>2. g \in [0..n -> X]
    <3>1. n - 1 \in 0..(n - 1) /\ step[n] \in [X -> X]
      OBVIOUS
    <3>2. step[n][f[n - 1]] \in X
      BY <2>1, <3>1 DEF Built
    <3>3. \A k \in 0..n : k # n => k \in 0..(n - 1)
      OBVIOUS
    <3>4. QED
      BY <2>1, <3>2, <3>3 DEF Built
  <2>3. g[0] = x0 /\ g[n] = step[n][f[n - 1]] /\ g[n - 1] = f[n - 1]
    BY <2>1 DEF Built
  <2>4. \A k \in 1..n : g[k] = step[k][g[k - 1]]
    <3> TAKE k \in 1..n
    <3>1. CASE k = n
      BY <2>3, <3>1
    <3>2. CASE k # n
      <4>1. k \in 1..(n - 1) /\ k \in 0..n /\ k - 1 \in 0..n /\ k - 1 # n
        BY <3>2
      <4>2. g[k] = f[k] /\ g[k - 1] = f[k - 1]
        BY <3>2, <4>1
      <4>3. QED
        BY <2>1, <4>1, <4>2 DEF Built
    <3>3. QED
      BY <3>1, <3>2
  <2> HIDE DEF g
  <2>5. Built(g, n, X, x0, step)
    BY <2>2, <2>3, <2>4 DEF Built
  <2>6. QED
    BY <2>5 DEF B
<1>3. N \in 0..N /\ \A n \in 1..N : n - 1 \in B => n \in B
  BY <1>2
<1> HIDE DEF B
<1>4. N \in B
  BY <1>1, <1>3, Induction
<1>5. QED
  BY <1>4 DEF B


LEMMA RemoveAtFacts ==
  ASSUME NEW S, NEW s \in Seq(S), NEW i \in 1..Len(s)
  PROVE  /\ RemoveAt(s, i) \in Seq(S) /\ Len(RemoveAt(s, i)) = Len(s) - 1
         /\ \A j \in 1..(Len(s) - 1) : RemoveAt(s, i)[j] = s[IF j < i THEN j ELSE j + 1]
<1> DEFINE n == Len(s)
           a == SubSeq(s, 1, i - 1)
           b == SubSeq(s, i + 1, n)
<1>1. n \in Nat /\ i \in 1..n /\ \A j \in 1..n : s[j] \in S
  OBVIOUS
<1> HIDE DEF n
<1>2. a \in Seq(S) /\ Len(a) = i - 1 /\ \A j \in 1..(i - 1) : a[j] = s[j]
  <2>1. 1 \in Int /\ i - 1 \in Int /\ \A j \in 1..(i - 1) : s[j] \in S
    BY <1>1
  <2>2. /\ a \in Seq(S) /\ Len(a) = IF 1 <= i - 1 THEN i - 1 - 1 + 1 ELSE 0
        /\ \A j \in 1..(i - 1 - 1 + 1) : a[j] = s[1 + j - 1]
    BY <2>1, SubSeqProperties
  <2>3. QED
    BY <1>1, <2>2
<1>3. b \in Seq(S) /\ Len(b) = n - i /\ \A j \in 1..(n - i) : b[j] = s[i + j]
  <2>1. i + 1 \in Int /\ n \in Int /\ \A j \in (i + 1)..n : s[j] \in S
    BY <1>1
  <2>2. /\ b \in Seq(S) /\ Len(b) = IF i + 1 <= n THEN n - (i + 1) + 1 ELSE 0
        /\ \A j \in 1..(n - (i + 1) + 1) : b[j] = s[i + 1 + j - 1]
    BY <2>1, SubSeqProperties
  <2>3. QED
    BY <1>1, <2>2
<1>4. RemoveAt(s, i) = a \o b
  BY DEF RemoveAt, n
<1> HIDE DEF a, b
<1>5. /\ a \o b \in Seq(S) /\ Len(a \o b) = Len(a) + Len(b)
      /\ \A j \in 1..(Len(a) + Len(b)) : (a \o b)[j] = IF j <= Len(a) THEN a[j] ELSE b[j - Len(a)]
  <2>1. a \in Seq(S) /\ b \in Seq(S)
    BY <1>2, <1>3
  <2>2. QED
    BY <2>1, ConcatProperties
<1>6. \A j \in 1..(n - 1) : (a \o b)[j] = s[IF j < i THEN j ELSE j + 1]
  <2> TAKE j \in 1..(n - 1)
  <2>1. CASE j < i
    BY <1>1, <1>2, <1>3, <1>5, <2>1
  <2>2. CASE ~(j < i)
    <3>1. j - (i - 1) \in 1..(n - i) /\ i + (j - (i - 1)) = j + 1
      BY <1>1, <2>2
    <3>2. QED
      BY <1>1, <1>2, <1>3, <1>5, <2>2, <3>1
  <2>3. QED
    BY <2>1, <2>2
<1>7. QED
  BY <1>1, <1>2, <1>3, <1>4, <1>5, <1>6 DEF n
---------------------------------------------------------------------------
(* A call of accept has a descriptor to give.                              *)
RoomInv == \A r \in waiting : r.call = "accept" => Unused # {}

(* What is queued: injected for the SOCK that is on or the next one, each  *)
(* packet once, and those for one name in the order they were injected.    *)
QueueInv ==
  /\ \A i, j \in DOMAIN incoming : incoming[i].id = incoming[j].id => i = j
  /\ \A i \in DOMAIN incoming : incoming[i].id \in (older + 1)..injected /\ incoming[i].id \notin taken
  /\ \A id \in (older + 1)..injected : id \in taken \/ \E i \in DOMAIN incoming : incoming[i].id = id
  /\ InOrder

(* The table has entries of the descriptors that were connected, and of    *)
(* one connected once, since when it was not closed, that of its peer.     *)
TableInv ==
  \A fd \in Fd :
    /\ links[fd] = 0 => Entries(fd) = {} /\ peer[fd] = Nobody
    /\ links[fd] # 0 => Entries(fd) # {}
    /\ links[fd] = 1 /\ peer[fd] # Nobody => \A i \in Entries(fd) : sockets[i].to = peer[fd]

NetworkIInv == NetworkTypeOK /\ RoomInv /\ QueueInv /\ TableInv /\ SentToPeer

(* The parts of the type invariant the steps are proved for one by one.    *)
TableTyped ==
  /\ sockets \in Seq(Connection)
  /\ peer \in [Fd -> Address \cup {Nobody}] /\ links \in [Fd -> Nat]
QueueTyped ==
  /\ incoming \in Seq(Packet)
  /\ injected \in 0..MaxPacket /\ taken \subseteq 1..injected /\ older \in 0..injected
SentTyped == outgoing \in Seq(Sent) /\ last_to \in Address
ReadTyped ==
  /\ bound \in [Fd -> Local \cup {Unbound, Closed}] /\ on \in BOOLEAN
  /\ waiting \subseteq Read /\ \A r \in waiting : bound[r.fd] # Closed

LEMMA NetworkParts == NetworkTypeOK <=> TableTyped /\ QueueTyped /\ SentTyped /\ ReadTyped
BY DEF NetworkTypeOK, TableTyped, QueueTyped, SentTyped, ReadTyped

---------------------------------------------------------------------------
(* What may happen to the queue.                                           *)
LEMMA QueueStays ==
  ASSUME QueueTyped, QueueInv, UNCHANGED <<incoming, injected, taken, older>>
  PROVE  QueueTyped' /\ QueueInv'
BY DEF QueueTyped, QueueInv, InOrder

LEMMA QueueInjects ==
  ASSUME QueueTyped, QueueInv, NEW packet, injected < MaxPacket,
         packet.id = injected + 1, packet \in Packet,
         incoming' = Append(incoming, packet), injected' = injected + 1,
         taken' = taken, older' = older
  PROVE  QueueTyped' /\ QueueInv'
<1> DEFINE n == Len(incoming)
<1>1. /\ incoming' \in Seq(Packet) /\ n \in Nat /\ DOMAIN incoming = 1..n /\ DOMAIN incoming' = 1..(n + 1)
      /\ incoming'[n + 1] = packet /\ \A i \in 1..n : incoming'[i] = incoming[i]
  <2>1. incoming \in Seq(Packet)
    BY DEF QueueTyped
  <2>2. QED
    BY <2>1
<1> HIDE DEF n
<1>2. injected \in Nat /\ injected' \in 0..MaxPacket /\ older \in 0..injected
  BY NetworkAssumption DEF QueueTyped
<1>3. taken' \subseteq 1..injected' /\ older' \in 0..injected' /\ injected' \notin taken
  BY <1>2 DEF QueueTyped
<1>4. QueueTyped'
  BY <1>1, <1>2, <1>3 DEF QueueTyped
<1>5. \A i \in 1..n : incoming'[i].id \in (older + 1)..injected /\ incoming'[i].id < injected'
  BY <1>1, <1>2 DEF QueueInv
<1>6. \A i, j \in DOMAIN incoming' : incoming'[i].id = incoming'[j].id => i = j
  <2> SUFFICES ASSUME NEW i \in 1..(n + 1), NEW j \in 1..(n + 1), incoming'[i].id = incoming'[j].id
               PROVE  i = j
    BY <1>1
  <2>1. i \in 1..n \/ i = n + 1
    BY <1>1
  <2>2. j \in 1..n \/ j = n + 1
    BY <1>1
  <2>3. QED
    BY <1>1, <1>2, <1>5, <2>1, <2>2 DEF QueueInv
<1>7. \A i \in DOMAIN incoming' : incoming'[i].id \in (older' + 1)..injected' /\ incoming'[i].id \notin taken'
  <2> SUFFICES ASSUME NEW i \in 1..(n + 1)
               PROVE  incoming'[i].id \in (older' + 1)..injected' /\ incoming'[i].id \notin taken'
    BY <1>1
  <2>1. CASE i = n + 1
    BY <1>1, <1>2, <1>3, <2>1
  <2>2. CASE i # n + 1
    <3>1. i \in 1..n
      BY <1>1, <2>2
    <3>2. QED
      BY <1>1, <1>2, <1>5, <3>1 DEF QueueInv
  <2>3. QED
    BY <2>1, <2>2
<1>8. \A id \in (older' + 1)..injected' : id \in taken' \/ \E i \in DOMAIN incoming' : incoming'[i].id = id
  <2> TAKE id \in (older' + 1)..injected'
  <2>1. CASE id = injected'
    <3>1. n + 1 \in DOMAIN incoming' /\ incoming'[n + 1].id = id
      BY <1>1, <2>1
    <3>2. QED
      BY <3>1
  <2>2. CASE id # injected'
    <3>1. id \in (older + 1)..injected
      BY <1>2, <2>2
    <3>2. id \in taken \/ \E i \in 1..n : incoming[i].id = id
      BY <1>1, <3>1 DEF QueueInv
    <3>3. QED
      BY <1>1, <3>2
  <2>3. QED
    BY <2>1, <2>2
<1>9. InOrder'
  <2> SUFFICES ASSUME NEW i \in 1..(n + 1), NEW j \in 1..(n + 1), i < j, incoming'[i].to = incoming'[j].to
               PROVE  incoming'[i].id < incoming'[j].id
    BY <1>1 DEF InOrder
  <2>1. i \in 1..n
    BY <1>1
  <2>2. CASE j = n + 1
    BY <1>1, <1>2, <1>5, <2>1, <2>2
  <2>3. CASE j # n + 1
    <3>1. j \in 1..n
      BY <1>1, <2>3
    <3>2. QED
      BY <1>1, <2>1, <3>1 DEF QueueInv, InOrder
  <2>4. QED
    BY <2>2, <2>3
<1>10. QED
  BY <1>4, <1>6, <1>7, <1>8, <1>9 DEF QueueInv

LEMMA QueueTakes ==
  ASSUME QueueTyped, QueueInv, NEW i \in DOMAIN incoming,
         incoming' = RemoveAt(incoming, i), taken' = taken \cup {incoming[i].id},
         injected' = injected, older' = older
  PROVE  QueueTyped' /\ QueueInv'
<1> DEFINE n == Len(incoming)
           was(j) == IF j < i THEN j ELSE j + 1
<1>1. incoming \in Seq(Packet) /\ n \in Nat /\ DOMAIN incoming = 1..n /\ i \in 1..n
  BY DEF QueueTyped
<1>2. /\ incoming' \in Seq(Packet) /\ Len(incoming') = n - 1
      /\ \A j \in 1..(n - 1) : incoming'[j] = incoming[was(j)]
  BY <1>1, RemoveAtFacts
<1>3. DOMAIN incoming' = 1..(n - 1)
  BY <1>1, <1>2
<1> HIDE DEF n
<1>0. /\ \A j, k \in 1..n : incoming[j].id = incoming[k].id => j = k
      /\ \A j \in 1..n : incoming[j].id \in (older + 1)..injected /\ incoming[j].id \notin taken
      /\ \A j, k \in 1..n : j < k /\ incoming[j].to = incoming[k].to => incoming[j].id < incoming[k].id
  <2>1. DOMAIN incoming = 1..n
    BY <1>1
  <2>2. QED
    BY <2>1 DEF QueueInv, InOrder
<1>4. /\ \A j \in 1..(n - 1) : was(j) \in 1..n /\ was(j) # i
      /\ \A j, k \in 1..(n - 1) : was(j) = was(k) => j = k
      /\ \A j, k \in 1..(n - 1) : j < k => was(j) < was(k)
      /\ \A k \in 1..n : k # i => \E j \in 1..(n - 1) : was(j) = k
  <2>1. \A j \in 1..(n - 1) : was(j) \in 1..n /\ was(j) # i
    BY <1>1
  <2>2. \A j, k \in 1..(n - 1) : (was(j) = was(k) => j = k) /\ (j < k => was(j) < was(k))
    BY <1>1
  <2>3. ASSUME NEW k \in 1..n, k # i PROVE \E j \in 1..(n - 1) : was(j) = k
    <3>1. CASE k < i
      <4>1. k \in 1..(n - 1) /\ was(k) = k
        BY <1>1, <3>1
      <4>2. QED
        BY <4>1
    <3>2. CASE ~(k < i)
      <4>1. k - 1 \in 1..(n - 1) /\ was(k - 1) = k
        BY <1>1, <2>3, <3>2
      <4>2. QED
        BY <4>1
    <3>3. QED
      BY <3>1, <3>2
  <2>4. QED
    BY <2>1, <2>2, <2>3
<1> HIDE DEF was
<1>5. incoming[i].id \in 1..injected
  BY <1>1, NetworkAssumption DEF QueueInv, QueueTyped
<1>6. QueueTyped'
  BY <1>2, <1>5 DEF QueueTyped
<1>7. \A j, k \in 1..(n - 1) : incoming'[j].id = incoming'[k].id => j = k
  <2> TAKE j, k \in 1..(n - 1)
  <2>1. was(j) \in 1..n /\ was(k) \in 1..n /\ (was(j) = was(k) => j = k)
    BY <1>4
  <2>2. incoming'[j] = incoming[was(j)] /\ incoming'[k] = incoming[was(k)]
    BY <1>2
  <2>3. QED
    BY <1>0, <2>1, <2>2
<1>8. \A j \in 1..(n - 1) : incoming'[j].id \in (older' + 1)..injected' /\ incoming'[j].id \notin taken'
  BY <1>1, <1>2, <1>4 DEF QueueInv
<1>9. \A id \in (older' + 1)..injected' : id \in taken' \/ \E j \in 1..(n - 1) : incoming'[j].id = id
  <2> SUFFICES ASSUME NEW id \in (older + 1)..injected, id \notin taken, id # incoming[i].id
               PROVE  \E j \in 1..(n - 1) : incoming'[j].id = id
    OBVIOUS
  <2>1. PICK k \in 1..n : incoming[k].id = id
    BY <1>1 DEF QueueInv
  <2>2. PICK j \in 1..(n - 1) : was(j) = k
    BY <1>4, <2>1
  <2>3. QED
    BY <1>2, <2>1, <2>2
<1>10. InOrder'
  <2>1. ASSUME NEW j \in 1..(n - 1), NEW k \in 1..(n - 1), j < k, incoming'[j].to = incoming'[k].to
        PROVE  incoming'[j].id < incoming'[k].id
    <3>1. was(j) \in 1..n /\ was(k) \in 1..n /\ was(j) < was(k)
      BY <1>4, <2>1
    <3>2. incoming'[j] = incoming[was(j)] /\ incoming'[k] = incoming[was(k)]
      BY <1>2
    <3>3. QED
      BY <1>0, <2>1, <3>1, <3>2
  <2>2. QED
    BY <1>3, <2>1 DEF InOrder
<1>11. QED
  BY <1>3, <1>6, <1>7, <1>8, <1>9, <1>10 DEF QueueInv

(* A packet put back in front: none before it is for the same name.        *)
LEMMA QueueRequeues ==
  ASSUME QueueTyped, QueueInv, NEW i \in DOMAIN incoming,
         \A j \in DOMAIN incoming : j < i => incoming[j].to # incoming[i].to,
         incoming' = <<incoming[i]>> \o RemoveAt(incoming, i), taken' = taken,
         injected' = injected, older' = older
  PROVE  QueueTyped' /\ QueueInv'
<1> DEFINE n == Len(incoming)
           rest == RemoveAt(incoming, i)
           was(j) == IF j = 1 THEN i ELSE IF j <= i THEN j - 1 ELSE j
<1>1. incoming \in Seq(Packet) /\ n \in Nat /\ DOMAIN incoming = 1..n /\ i \in 1..n
  BY DEF QueueTyped
<1>2. /\ rest \in Seq(Packet) /\ Len(rest) = n - 1
      /\ \A j \in 1..(n - 1) : rest[j] = incoming[IF j < i THEN j ELSE j + 1]
  BY <1>1, RemoveAtFacts
<1>3. /\ incoming' \in Seq(Packet) /\ Len(incoming') = n
      /\ \A j \in 1..n : incoming'[j] = IF j = 1 THEN incoming[i] ELSE rest[j - 1]
  <2> DEFINE s == <<incoming[i]>>
  <2>1. s \in Seq(Packet) /\ Len(s) = 1 /\ s[1] = incoming[i]
    BY <1>1
  <2>2. incoming' = s \o rest
    OBVIOUS
  <2> HIDE DEF n, rest, s
  <2>3. /\ incoming' \in Seq(Packet) /\ Len(incoming') = 1 + (n - 1)
        /\ \A j \in 1..(1 + (n - 1)) : incoming'[j] = IF j <= 1 THEN s[j] ELSE rest[j - 1]
    <3>1. /\ s \o rest \in Seq(Packet) /\ Len(s \o rest) = Len(s) + Len(rest)
          /\ \A j \in 1..(Len(s) + Len(rest)) :
               (s \o rest)[j] = IF j <= Len(s) THEN s[j] ELSE rest[j - Len(s)]
      <4> HIDE DEF s
      <4>1. s \in Seq(Packet) /\ rest \in Seq(Packet)
        BY <1>2, <2>1
      <4>2. QED
        BY <4>1, ConcatProperties
    <3>2. QED
      BY <1>2, <2>1, <2>2, <3>1
  <2>4. QED
    BY <1>1, <2>1, <2>3
<1>4. DOMAIN incoming' = 1..n
  <2>1. DOMAIN incoming' = 1..Len(incoming')
    BY <1>3
  <2>2. QED
    BY <1>3, <2>1
<1> HIDE DEF n, rest
<1>0. /\ \A j, k \in 1..n : incoming[j].id = incoming[k].id => j = k
      /\ \A j \in 1..n : incoming[j].id \in (older + 1)..injected /\ incoming[j].id \notin taken
      /\ \A j, k \in 1..n : j < k /\ incoming[j].to = incoming[k].to => incoming[j].id < incoming[k].id
  <2>1. DOMAIN incoming = 1..n
    BY <1>1
  <2>2. QED
    BY <2>1 DEF QueueInv, InOrder
<1>5. \A j \in 1..n : incoming'[j] = incoming[was(j)]
  <2> TAKE j \in 1..n
  <2>1. CASE j = 1
    BY <1>3, <2>1
  <2>2. CASE j # 1
    <3>1. j - 1 \in 1..(n - 1) /\ incoming'[j] = rest[j - 1]
      BY <1>1, <1>3, <2>2
    <3>2. rest[j - 1] = incoming[IF j - 1 < i THEN j - 1 ELSE j - 1 + 1]
      BY <1>2, <3>1
    <3>3. (IF j - 1 < i THEN j - 1 ELSE j - 1 + 1) = was(j)
      BY <1>1, <2>2
    <3> HIDE DEF was
    <3>4. QED
      BY <3>1, <3>2, <3>3
  <2>3. QED
    BY <2>1, <2>2
<1>6. /\ \A j \in 1..n : was(j) \in 1..n
      /\ \A j, k \in 1..n : was(j) = was(k) => j = k
      /\ \A k \in 1..n : \E j \in 1..n : was(j) = k
      /\ \A j, k \in 1..n : j < k => was(j) < was(k) \/ (was(j) = i /\ was(k) < i)
  <2>1. \A j \in 1..n : was(j) \in 1..n
    BY <1>1
  <2>2. \A j, k \in 1..n : was(j) = was(k) => j = k
    BY <1>1
  <2>3. ASSUME NEW k \in 1..n PROVE \E j \in 1..n : was(j) = k
    <3>1. CASE k = i
      <4>1. 1 \in 1..n /\ was(1) = k
        BY <1>1, <3>1
      <4>2. QED
        BY <4>1
    <3>2. CASE k < i
      <4>1. k + 1 \in 1..n /\ was(k + 1) = k
        BY <1>1, <3>2
      <4>2. QED
        BY <4>1
    <3>3. CASE k > i
      <4>1. was(k) = k
        BY <1>1, <3>3
      <4>2. QED
        BY <4>1
    <3>4. QED
      BY <1>1, <3>1, <3>2, <3>3
  <2>4. \A j, k \in 1..n : j < k => was(j) < was(k) \/ (was(j) = i /\ was(k) < i)
    BY <1>1
  <2>5. QED
    BY <2>1, <2>2, <2>3, <2>4
<1> HIDE DEF was
<1>7. QueueTyped'
  BY <1>3 DEF QueueTyped
<1>8. \A j, k \in 1..n : incoming'[j].id = incoming'[k].id => j = k
  <2> TAKE j, k \in 1..n
  <2>1. was(j) \in 1..n /\ was(k) \in 1..n /\ (was(j) = was(k) => j = k)
    BY <1>6
  <2>2. incoming'[j] = incoming[was(j)] /\ incoming'[k] = incoming[was(k)]
    BY <1>5
  <2>3. QED
    BY <1>0, <2>1, <2>2
<1>9. \A j \in 1..n : incoming'[j].id \in (older' + 1)..injected' /\ incoming'[j].id \notin taken'
  <2> TAKE j \in 1..n
  <2>1. was(j) \in 1..n /\ incoming'[j] = incoming[was(j)]
    BY <1>5, <1>6
  <2>2. QED
    BY <1>0, <2>1
<1>10. \A id \in (older' + 1)..injected' : id \in taken' \/ \E j \in 1..n : incoming'[j].id = id
  <2> SUFFICES ASSUME NEW id \in (older + 1)..injected, id \notin taken
               PROVE  \E j \in 1..n : incoming'[j].id = id
    OBVIOUS
  <2>1. PICK k \in 1..n : incoming[k].id = id
    BY <1>1 DEF QueueInv
  <2>2. PICK j \in 1..n : was(j) = k
    BY <1>6
  <2>3. QED
    BY <1>5, <2>1, <2>2
<1>11. InOrder'
  <2> SUFFICES ASSUME NEW j \in 1..n, NEW k \in 1..n, j < k, incoming'[j].to = incoming'[k].to
               PROVE  incoming'[j].id < incoming'[k].id
    BY <1>4 DEF InOrder
  <2>0. /\ was(j) \in 1..n /\ was(k) \in 1..n
        /\ incoming'[j] = incoming[was(j)] /\ incoming'[k] = incoming[was(k)]
    BY <1>5, <1>6
  <2>1. CASE was(j) < was(k)
    BY <1>0, <2>0, <2>1
  <2>2. CASE was(j) = i /\ was(k) < i
    <3>1. incoming[was(k)].to # incoming[i].to
      BY <1>1, <2>0, <2>2
    <3>2. QED
      BY <2>0, <2>2, <3>1
  <2>3. QED
    BY <1>6, <2>1, <2>2
<1>12. QED
  BY <1>4, <1>7, <1>8, <1>9, <1>10, <1>11 DEF QueueInv
---------------------------------------------------------------------------
(* What may happen to the table.                                           *)
LEMMA TableStays ==
  ASSUME TableTyped, TableInv, UNCHANGED <<sockets, peer, links>>
  PROVE  TableTyped' /\ TableInv'
BY DEF TableTyped, TableInv, Entries

LEMMA TableConnects ==
  ASSUME TableTyped, TableInv, NEW fd \in Fd, NEW from \in Address, NEW to \in Address,
         sockets' = Append(sockets, [fd |-> fd, from |-> from, to |-> to]),
         peer' = [peer EXCEPT ![fd] = to], links' = [links EXCEPT ![fd] = @ + 1]
  PROVE  TableTyped' /\ TableInv'
<1> DEFINE n == Len(sockets)
           entry == [fd |-> fd, from |-> from, to |-> to]
<1>1. /\ sockets' \in Seq(Connection) /\ n \in Nat /\ DOMAIN sockets = 1..n /\ DOMAIN sockets' = 1..(n + 1)
      /\ sockets'[n + 1] = entry /\ \A i \in 1..n : sockets'[i] = sockets[i]
  <2>1. sockets \in Seq(Connection) /\ entry \in Connection
    BY DEF TableTyped, Connection
  <2>2. QED
    BY <2>1
<1>2. entry.fd = fd /\ entry.to = to
  OBVIOUS
<1> HIDE DEF n, entry
<1>3. /\ peer' \in [Fd -> Address \cup {Nobody}] /\ links' \in [Fd -> Nat]
      /\ peer'[fd] = to /\ links'[fd] = links[fd] + 1 /\ links[fd] \in Nat
      /\ \A f \in Fd : f # fd => peer'[f] = peer[f] /\ links'[f] = links[f]
  BY DEF TableTyped
<1>4. TableTyped'
  BY <1>1, <1>3 DEF TableTyped
<1>5. \A f \in Fd : \A i : i \in Entries(f)' <=> i \in Entries(f) \/ (f = fd /\ i = n + 1)
  <2> TAKE f \in Fd
  <2> SUFFICES ASSUME NEW i PROVE i \in Entries(f)' <=> i \in Entries(f) \/ (f = fd /\ i = n + 1)
    OBVIOUS
  <2>1. i \in Entries(f)' <=> i \in 1..(n + 1) /\ sockets'[i].fd = f
    BY <1>1 DEF Entries
  <2>2. i \in Entries(f) <=> i \in 1..n /\ sockets[i].fd = f
    BY <1>1 DEF Entries
  <2>3. CASE i \in 1..n
    <3>1. i \in 1..(n + 1) /\ i # n + 1 /\ sockets'[i] = sockets[i]
      BY <1>1, <2>3
    <3>2. QED
      BY <2>1, <2>2, <2>3, <3>1
  <2>4. CASE i = n + 1
    <3>1. i \in 1..(n + 1) /\ i \notin 1..n /\ sockets'[i].fd = fd
      BY <1>1, <1>2, <2>4
    <3>2. QED
      BY <2>1, <2>2, <2>4, <3>1
  <2>5. CASE i \notin 1..(n + 1)
    <3>1. i \notin 1..n /\ i # n + 1
      BY <1>1, <2>5
    <3>2. QED
      BY <2>1, <2>2, <2>5, <3>1
  <2>6. i \in 1..n \/ i = n + 1 \/ i \notin 1..(n + 1)
    BY <1>1
  <2>7. QED
    BY <2>3, <2>4, <2>5, <2>6
<1>6. TableInv'
  <2> SUFFICES ASSUME NEW f \in Fd
               PROVE  /\ links'[f] = 0 => Entries(f)' = {} /\ peer'[f] = Nobody
                      /\ links'[f] # 0 => Entries(f)' # {}
                      /\ links'[f] = 1 /\ peer'[f] # Nobody => \A i \in Entries(f)' : sockets'[i].to = peer'[f]
    BY DEF TableInv
  <2>0. /\ links[f] = 0 => Entries(f) = {} /\ peer[f] = Nobody
        /\ links[f] # 0 => Entries(f) # {}
        /\ links[f] = 1 /\ peer[f] # Nobody => \A i \in Entries(f) : sockets[i].to = peer[f]
    BY DEF TableInv
  <2>1. CASE f = fd
    <3>1. links'[f] # 0
      BY <1>3, <2>1
    <3>2. n + 1 \in Entries(f)'
      BY <1>5, <2>1
    <3>3. ASSUME links'[f] = 1, NEW i \in Entries(f)' PROVE sockets'[i].to = peer'[f]
      <4>1. links[f] = 0
        BY <1>3, <2>1, <3>3
      <4>2. Entries(f) = {}
        BY <2>0, <4>1
      <4>3. i = n + 1
        BY <1>5, <3>3, <4>2
      <4>4. QED
        BY <1>1, <1>2, <1>3, <2>1, <4>3
    <3>4. QED
      BY <3>1, <3>2, <3>3
  <2>2. CASE f # fd
    <3>1. links'[f] = links[f] /\ peer'[f] = peer[f] /\ \A i : i \in Entries(f)' <=> i \in Entries(f)
      BY <1>3, <1>5, <2>2
    <3>2. \A i \in Entries(f) : sockets'[i] = sockets[i]
      BY <1>1 DEF Entries
    <3>3. \A i \in Entries(f)' : i \in Entries(f) /\ sockets'[i].to = sockets[i].to
      BY <3>1, <3>2
    <3>4. Entries(f)' = {} <=> Entries(f) = {}
      BY <3>1
    <3>5. QED
      BY <2>0, <3>1, <3>3, <3>4
  <2>3. QED
    BY <2>1, <2>2
<1>7. QED
  BY <1>4, <1>6

(* A descriptor opened again is connected to nobody.                       *)
LEMMA TableOpens ==
  ASSUME TableTyped, TableInv, NEW fd \in Fd,
         sockets' = sockets, links' = links, peer' = [peer EXCEPT ![fd] = Nobody]
  PROVE  TableTyped' /\ TableInv'
<1>1. /\ peer' \in [Fd -> Address \cup {Nobody}] /\ peer'[fd] = Nobody
      /\ \A f \in Fd : f # fd => peer'[f] = peer[f]
  BY DEF TableTyped
<1>2. \A f \in Fd : Entries(f)' = Entries(f)
  BY DEF Entries
<1>3. QED
  BY <1>1, <1>2 DEF TableTyped, TableInv

LEMMA Lowest ==
  ASSUME NetworkTypeOK, Unused # {}
  PROVE  Min(Unused) \in Unused /\ Min(Unused) \in Fd
<1>1. Unused \in SUBSET Nat
  BY NetworkAssumption DEF Unused
<1>2. Min(Unused) \in Unused
  BY <1>1, Least
<1>3. QED
  BY <1>2 DEF Unused

---------------------------------------------------------------------------
LEMMA NetworkKnown ==
  ASSUME NetworkIInv
  PROVE  /\ TableTyped /\ QueueTyped /\ SentTyped /\ ReadTyped /\ NetworkTypeOK
         /\ RoomInv /\ QueueInv /\ TableInv /\ SentToPeer
BY NetworkParts DEF NetworkIInv

LEMMA NetworkShown ==
  ASSUME TableTyped', QueueTyped', SentTyped', ReadTyped',
         RoomInv', QueueInv', TableInv', SentToPeer'
  PROVE  NetworkIInv'
BY DEF NetworkIInv, NetworkTypeOK, TableTyped, QueueTyped, SentTyped, ReadTyped

LEMMA NetworkStart == NetworkInit => NetworkIInv
<1> SUFFICES ASSUME NetworkInit PROVE NetworkIInv
  OBVIOUS
<1> USE DEF NetworkInit
<1>1. \A fd : Entries(fd) = {}
  BY DEF Entries
<1>2. TableTyped /\ TableInv
  BY <1>1 DEF TableTyped, TableInv
<1>3. QueueTyped /\ QueueInv
  <2>1. DOMAIN incoming = {} /\ 0 \in 0..MaxPacket /\ (0 + 1)..0 = {}
    BY NetworkAssumption
  <2>2. QED
    BY <2>1 DEF QueueTyped, QueueInv, InOrder
<1>4. SentTyped /\ SentToPeer
  BY DEF SentTyped, SentToPeer, Address
<1>5. ReadTyped /\ RoomInv
  BY DEF ReadTyped, RoomInv
<1>6. QED
  BY <1>2, <1>3, <1>4, <1>5, NetworkParts DEF NetworkIInv

(* The steps of descriptors and of the SOCK.                               *)
LEMMA OpenStep ==
  ASSUME NetworkIInv, NEW name \in Local \cup {Unbound}, Open(name) PROVE NetworkIInv'
<1> USE NetworkKnown
<1> DEFINE fd == Min(Unused)
<1>1. /\ fd \in Fd /\ waiting = {}
      /\ bound' = [bound EXCEPT ![fd] = name] /\ peer' = [peer EXCEPT ![fd] = Nobody]
      /\ sockets' = sockets /\ incoming' = incoming /\ outgoing' = outgoing /\ last_to' = last_to
      /\ on' = on /\ waiting' = waiting /\ links' = links /\ injected' = injected
      /\ taken' = taken /\ older' = older
  BY Lowest DEF Open, Running, queueVars
<1> HIDE DEF fd
<1>2. TableTyped' /\ TableInv'
  BY <1>1, TableOpens
<1>3. QueueTyped' /\ QueueInv'
  BY <1>1, QueueStays
<1>4. SentTyped' /\ SentToPeer'
  BY <1>1 DEF SentTyped, SentToPeer
<1>5. ReadTyped' /\ RoomInv'
  BY <1>1 DEF ReadTyped, RoomInv
<1>6. QED
  BY <1>2, <1>3, <1>4, <1>5, NetworkShown

LEMMA SockStep ==
  ASSUME NetworkIInv, StartSock \/ StopSock \/ Fetch \/ \E fd \in Fd : Close(fd) PROVE NetworkIInv'
<1> USE NetworkKnown
<1>1. TableTyped' /\ TableInv'
  BY TableStays DEF StartSock, StopSock, Fetch, Close, historyVars
<1>2. QueueTyped' /\ QueueInv'
  <2>1. CASE StopSock
    <3>1. incoming' = <<>> /\ older' = injected /\ injected' = injected /\ taken' = taken
      BY <2>1 DEF StopSock
    <3>2. DOMAIN incoming' = {} /\ (injected + 1)..injected = {} /\ injected \in 0..injected
      BY <3>1, NetworkAssumption DEF QueueTyped
    <3>3. QED
      BY <3>1, <3>2 DEF QueueTyped, QueueInv, InOrder
  <2>2. CASE StartSock \/ Fetch \/ \E fd \in Fd : Close(fd)
    BY <2>2, QueueStays DEF StartSock, Fetch, Close, queueVars, historyVars
  <2>3. QED
    BY <2>1, <2>2
<1>3. SentTyped' /\ SentToPeer'
  <2>1. CASE StartSock
    BY <2>1 DEF StartSock, SentTyped, SentToPeer, Address
  <2>2. CASE StopSock
    BY <2>2 DEF StopSock, SentTyped, SentToPeer
  <2>3. CASE Fetch
    <3>1. outgoing \in Seq(Sent) /\ outgoing # <<>> /\ outgoing' = Tail(outgoing) /\ last_to' = last_to
      BY <2>3 DEF Fetch, SentTyped
    <3>2. /\ outgoing' \in Seq(Sent) /\ Len(outgoing') = Len(outgoing) - 1
          /\ \A i \in 1..Len(outgoing') : outgoing'[i] = outgoing[i + 1]
      BY <3>1, HeadTailProperties
    <3>3. DOMAIN outgoing' = 1..Len(outgoing') /\ DOMAIN outgoing = 1..Len(outgoing) /\ Len(outgoing) \in Nat
      BY <3>1, <3>2
    <3>4. \A i \in DOMAIN outgoing' : i + 1 \in DOMAIN outgoing
      BY <3>2, <3>3
    <3>5. QED
      BY <3>1, <3>2, <3>3, <3>4 DEF SentTyped, SentToPeer
  <2>4. CASE \E fd \in Fd : Close(fd)
    BY <2>4 DEF Close, queueVars, SentTyped, SentToPeer
  <2>5. QED
    BY <2>1, <2>2, <2>3, <2>4
<1>4. ReadTyped' /\ RoomInv'
  <2>1. CASE StartSock \/ StopSock \/ Fetch
    BY <2>1 DEF StartSock, StopSock, Fetch, ReadTyped, RoomInv, Unused
  <2>2. CASE \E fd \in Fd : Close(fd)
    BY <2>2 DEF Close, Running, ReadTyped, RoomInv
  <2>3. QED
    BY <2>1, <2>2
<1>5. QED
  BY <1>1, <1>2, <1>3, <1>4, NetworkShown

(* A packet comes, from this thread or another.                            *)
LEMMA InjectStep ==
  ASSUME NetworkIInv, NEW from \in Remote \cup {Empty}, NEW to \in Local \cup {Wildcard}, NEW data \in BOOLEAN,
         Inject(from, to, data)
  PROVE  NetworkIInv'
<1> USE NetworkKnown
<1> DEFINE packet == [id |-> injected + 1, to |-> to, data |-> data,
                      from |-> IF from = Empty THEN last_to ELSE from]
<1>1. /\ injected < MaxPacket /\ injected' = injected + 1 /\ incoming' = Append(incoming, packet)
      /\ bound' = bound /\ sockets' = sockets /\ outgoing' = outgoing /\ last_to' = last_to
      /\ on' = on /\ waiting' = waiting /\ peer' = peer /\ links' = links /\ taken' = taken /\ older' = older
  BY DEF Inject
<1>2. packet \in Packet /\ packet.id = injected + 1
  <2>1. injected + 1 \in 1..MaxPacket
    BY <1>1, NetworkAssumption DEF QueueTyped
  <2>2. (IF from = Empty THEN last_to ELSE from) \in Address
    BY DEF SentTyped, Address
  <2>3. QED
    BY <2>1, <2>2 DEF Packet
<1> HIDE DEF packet
<1>3. QueueTyped' /\ QueueInv'
  BY <1>1, <1>2, QueueInjects
<1>4. TableTyped' /\ TableInv'
  BY <1>1, TableStays
<1>5. SentTyped' /\ SentToPeer' /\ ReadTyped' /\ RoomInv'
  BY <1>1 DEF SentTyped, SentToPeer, ReadTyped, RoomInv, Unused
<1>6. QED
  BY <1>3, <1>4, <1>5, NetworkShown

(* The reading calls.                                                      *)
LEMMA BeginReadStep ==
  ASSUME NetworkIInv, NEW call \in {"accept", "connect", "recv"}, NEW fd \in Fd, NEW block \in BOOLEAN,
         NEW to \in Remote, BeginRead(call, fd, block, to)
  PROVE  NetworkIInv'
<1> USE NetworkKnown
<1> DEFINE r == [call |-> call, fd |-> fd, block |-> block]
<1>1. /\ bound[fd] # Closed /\ (call = "accept" => Unused # {}) /\ waiting' = {r}
      /\ bound' = bound /\ incoming' = incoming /\ outgoing' = outgoing /\ last_to' = last_to
      /\ on' = on /\ injected' = injected /\ taken' = taken /\ older' = older
  BY DEF BeginRead, queueVars
<1>2. r \in Read /\ r.call = call /\ r.fd = fd
  BY DEF Read
<1> HIDE DEF r
<1>3. ReadTyped' /\ RoomInv'
  BY <1>1, <1>2 DEF ReadTyped, RoomInv, Unused
<1>4. QueueTyped' /\ QueueInv'
  BY <1>1, QueueStays
<1>5. TableTyped' /\ TableInv'
  <2>1. CASE call = "connect"
    <3>1. bound[fd] \in Address /\ to \in Address
      BY <1>1 DEF ReadTyped, Address
    <3>2. /\ sockets' = Append(sockets, [fd |-> fd, from |-> bound[fd], to |-> to])
          /\ peer' = [peer EXCEPT ![fd] = to] /\ links' = [links EXCEPT ![fd] = @ + 1]
      BY <2>1 DEF BeginRead
    <3>3. QED
      BY <3>1, <3>2, TableConnects
  <2>2. CASE call # "connect"
    BY <2>2, TableStays DEF BeginRead
  <2>3. QED
    BY <2>1, <2>2
<1>6. SentTyped' /\ SentToPeer'
  BY <1>1 DEF SentTyped, SentToPeer
<1>7. QED
  BY <1>3, <1>4, <1>5, <1>6, NetworkShown

LEMMA PollStep ==
  ASSUME NetworkIInv, NEW r \in waiting, Poll(r) PROVE NetworkIInv'
<1> USE NetworkKnown
<1> DEFINE i == Min(Matching(r.fd))
           opens == r.call \in {"accept", "connect"}
           data == incoming[i].data
<1>1. /\ Matching(r.fd) # {} /\ waiting' = {}
      /\ incoming' = IF opens THEN Requeue(incoming[i], RemoveAt(incoming, i)) ELSE RemoveAt(incoming, i)
      /\ taken' = IF opens /\ data THEN taken ELSE taken \cup {incoming[i].id}
      /\ outgoing' = outgoing /\ last_to' = last_to /\ on' = on /\ injected' = injected /\ older' = older
  BY DEF Poll
<1>2. r \in Read /\ r.fd \in Fd /\ bound[r.fd] # Closed
  BY DEF ReadTyped, Read
<1>3. /\ i \in DOMAIN incoming /\ incoming[i].to \in {bound[r.fd], Wildcard}
      /\ \A j \in DOMAIN incoming : j < i => incoming[j].to \notin {bound[r.fd], Wildcard}
  <2>1. DOMAIN incoming \subseteq Nat
    BY DEF QueueTyped
  <2>2. Matching(r.fd) \in SUBSET Nat
    BY <2>1 DEF Matching
  <2>3. i \in Matching(r.fd) /\ \A j \in Matching(r.fd) : i <= j
    BY <1>1, <2>2, Least
  <2> HIDE DEF i
  <2>4. i \in Nat
    BY <2>2, <2>3
  <2>5. \A j \in DOMAIN incoming : j < i => j \notin Matching(r.fd)
    BY <2>1, <2>3, <2>4
  <2>6. QED
    BY <2>3, <2>5 DEF Matching
<1>4. incoming[i] \in Packet /\ data \in BOOLEAN
  <2> HIDE DEF i
  <2>1. incoming[i] \in Packet
    BY <1>3 DEF QueueTyped
  <2>2. QED
    BY <2>1 DEF Packet
<1>5. QueueTyped' /\ QueueInv'
  <2> HIDE DEF i
  <2>1. CASE opens /\ data
    <3>1. incoming' = <<incoming[i]>> \o RemoveAt(incoming, i) /\ taken' = taken
      BY <1>1, <2>1 DEF Requeue
    <3>2. \A j \in DOMAIN incoming : j < i => incoming[j].to # incoming[i].to
      BY <1>3
    <3>3. QED
      BY <1>1, <1>3, <3>1, <3>2, QueueRequeues
  <2>2. CASE ~(opens /\ data)
    <3>1. incoming' = RemoveAt(incoming, i) /\ taken' = taken \cup {incoming[i].id}
      BY <1>1, <1>4, <2>2 DEF Requeue
    <3>2. QED
      BY <1>1, <1>3, <3>1, QueueTakes
  <2>3. QED
    BY <2>1, <2>2
<1>6. /\ TableTyped' /\ TableInv'
      /\ bound' \in [Fd -> Local \cup {Unbound, Closed}]
  <2> HIDE DEF i
  <2>1. CASE r.call = "accept"
    <3> DEFINE fd == Min(Unused)
    <3>1. fd \in Fd
      BY <2>1, Lowest DEF RoomInv
    <3>2. bound[r.fd] \in Address /\ bound[r.fd] \in Local \cup {Unbound} /\ incoming[i].from \in Address
      BY <1>2, <1>4 DEF ReadTyped, Address, Packet
    <3>3. PICK name \in {bound[r.fd], Unbound} :
            /\ bound' = [bound EXCEPT ![fd] = name]
            /\ peer' = [peer EXCEPT ![fd] = incoming[i].from]
            /\ links' = [links EXCEPT ![fd] = @ + 1]
            /\ sockets' = Append(sockets, [fd |-> fd, from |-> bound[r.fd], to |-> incoming[i].from])
      BY <2>1 DEF Poll, i
    <3> HIDE DEF fd
    <3>4. bound' \in [Fd -> Local \cup {Unbound, Closed}]
      BY <3>1, <3>2, <3>3 DEF ReadTyped
    <3>5. TableTyped' /\ TableInv'
      BY <3>1, <3>2, <3>3, TableConnects
    <3>6. QED
      BY <3>4, <3>5
  <2>2. CASE r.call # "accept"
    <3>1. bound' = bound /\ peer' = peer /\ links' = links /\ sockets' = sockets
      BY <2>2 DEF Poll
    <3>2. QED
      BY <3>1, TableStays DEF ReadTyped
  <2>3. QED
    BY <2>1, <2>2
<1>7. SentTyped' /\ SentToPeer'
  BY <1>1 DEF SentTyped, SentToPeer
<1>8. ReadTyped' /\ RoomInv'
  BY <1>1, <1>6 DEF ReadTyped, RoomInv
<1>9. QED
  BY <1>5, <1>6, <1>7, <1>8, NetworkShown

LEMMA GiveUpStep ==
  ASSUME NetworkIInv, NEW r \in waiting, GiveUp(r) PROVE NetworkIInv'
<1> USE NetworkKnown
<1>1. /\ waiting' = {} /\ bound' = bound /\ sockets' = sockets /\ on' = on
      /\ incoming' = incoming /\ outgoing' = outgoing /\ last_to' = last_to
      /\ peer' = peer /\ links' = links /\ injected' = injected /\ taken' = taken /\ older' = older
  BY DEF GiveUp, queueVars, historyVars
<1>2. TableTyped' /\ TableInv' /\ QueueTyped' /\ QueueInv'
  BY <1>1, TableStays, QueueStays
<1>3. SentTyped' /\ SentToPeer' /\ ReadTyped' /\ RoomInv'
  BY <1>1 DEF SentTyped, SentToPeer, ReadTyped, RoomInv
<1>4. QED
  BY <1>2, <1>3, NetworkShown

(* A packet goes out, to where the first entry of its descriptor says.     *)
LEMMA PutStep ==
  ASSUME NetworkIInv, NEW packet \in Sent, Put(packet), ~packet.again => packet.to = packet.due,
         UNCHANGED <<bound, sockets, incoming, on, waiting, historyVars>>
  PROVE  NetworkIInv'
<1> USE NetworkKnown
<1>1. /\ outgoing' = Append(outgoing, packet) /\ last_to' = packet.to
      /\ waiting' = waiting /\ bound' = bound /\ sockets' = sockets /\ on' = on
      /\ incoming' = incoming
      /\ peer' = peer /\ links' = links /\ injected' = injected /\ taken' = taken /\ older' = older
  BY DEF Put, historyVars
<1>2. TableTyped' /\ TableInv' /\ QueueTyped' /\ QueueInv'
  BY <1>1, TableStays, QueueStays
<1>3. ReadTyped' /\ RoomInv'
  BY <1>1 DEF ReadTyped, RoomInv, Unused
<1>4. packet.to \in Address
  BY DEF Sent
<1> DEFINE n == Len(outgoing)
<1>5. /\ outgoing' \in Seq(Sent) /\ n \in Nat /\ DOMAIN outgoing = 1..n /\ DOMAIN outgoing' = 1..(n + 1)
      /\ outgoing'[n + 1] = packet /\ \A i \in 1..n : outgoing'[i] = outgoing[i]
  <2>1. outgoing \in Seq(Sent)
    BY DEF SentTyped
  <2>2. QED
    BY <1>1, <2>1
<1> HIDE DEF n
<1>6. SentTyped'
  BY <1>1, <1>4, <1>5 DEF SentTyped
<1>7. SentToPeer'
  <2> SUFFICES ASSUME NEW i \in 1..(n + 1), ~outgoing'[i].again PROVE outgoing'[i].to = outgoing'[i].due
    BY <1>5 DEF SentToPeer
  <2>1. CASE i = n + 1
    BY <1>5, <2>1
  <2>2. CASE i # n + 1
    <3>1. i \in 1..n
      BY <1>5, <2>2
    <3>2. QED
      BY <1>5, <3>1 DEF SentToPeer
  <2>3. QED
    BY <2>1, <2>2
<1>8. QED
  BY <1>2, <1>3, <1>6, <1>7, NetworkShown

LEMMA SendStep ==
  ASSUME NetworkIInv, NEW fd \in Fd, Send(fd) PROVE NetworkIInv'
<1> USE NetworkKnown
<1> DEFINE none == Entries(fd) = {}
           first == sockets[Min(Entries(fd))]
           source == IF none THEN Empty ELSE first.from
           target == IF none THEN Empty ELSE first.to
           due == IF peer[fd] = Nobody THEN Empty ELSE peer[fd]
           again == links[fd] # IF peer[fd] = Nobody THEN 0 ELSE 1
           packet == [from |-> source, to |-> target, due |-> due, again |-> again]
<1>1. Put(packet) /\ UNCHANGED <<bound, sockets, incoming, on, waiting, historyVars>>
  BY DEF Send
<1>2. ~none => Min(Entries(fd)) \in Entries(fd) /\ first \in Connection
  <2>1. Entries(fd) \in SUBSET Nat /\ Entries(fd) \subseteq DOMAIN sockets
    BY DEF Entries, TableTyped
  <2>2. ~none => Min(Entries(fd)) \in Entries(fd)
    BY <2>1, Least
  <2>3. QED
    BY <2>1, <2>2 DEF TableTyped
<1>3. source \in Address /\ target \in Address /\ due \in Address /\ again \in BOOLEAN
  <2>1. Empty \in Address
    BY DEF Address
  <2>2. ~none => first.from \in Address /\ first.to \in Address
    BY <1>2 DEF Connection
  <2>3. due \in Address
    BY <2>1 DEF TableTyped
  <2>4. QED
    BY <2>1, <2>2, <2>3
<1>4. ~again => target = due
  <2>1. CASE peer[fd] = Nobody
    BY <2>1 DEF TableInv
  <2>2. CASE peer[fd] # Nobody
    <3>1. ~again => links[fd] = 1
      BY <2>2
    <3>2. links[fd] = 1 => ~none /\ first.to = peer[fd]
      BY <1>2, <2>2 DEF TableInv
    <3>3. QED
      BY <2>2, <3>1, <3>2
  <2>3. QED
    BY <2>1, <2>2
<1> HIDE DEF none, first, source, target, due, again
<1>5. packet \in Sent /\ packet.again = again /\ packet.to = target /\ packet.due = due
  BY <1>3 DEF Sent
<1>6. QED
  BY <1>1, <1>4, <1>5, PutStep

LEMMA SendToStep ==
  ASSUME NetworkIInv, NEW fd \in Fd, NEW to \in Remote, SendTo(fd, to) PROVE NetworkIInv'
<1> USE NetworkKnown
<1> DEFINE packet == [from |-> bound[fd], to |-> to, due |-> to, again |-> FALSE]
<1>1. Put(packet) /\ UNCHANGED <<bound, sockets, incoming, on, waiting, historyVars>>
  BY DEF SendTo
<1>2. packet \in Sent
  <2>1. bound[fd] \in Address /\ to \in Address
    BY DEF SendTo, ReadTyped, Address
  <2>2. QED
    BY <2>1 DEF Sent
<1>3. packet.to = packet.due
  OBVIOUS
<1>4. QED
  BY <1>1, <1>2, <1>3, PutStep

---------------------------------------------------------------------------
LEMMA NetworkStep == NetworkIInv /\ [NetworkNext]_netVars => NetworkIInv'
<1> SUFFICES ASSUME NetworkIInv, [NetworkNext]_netVars PROVE NetworkIInv'
  OBVIOUS
<1>1. CASE StartSock \/ StopSock \/ Fetch
  BY <1>1, SockStep
<1>2. CASE PollAny
  BY <1>2, PollStep DEF PollAny
<1>3. ASSUME NEW name \in Local \cup {Unbound}, Open(name) PROVE NetworkIInv'
  BY <1>3, OpenStep
<1>4. ASSUME NEW from \in Remote \cup {Empty}, NEW to \in Local \cup {Wildcard}, NEW data \in BOOLEAN,
             Inject(from, to, data)
      PROVE  NetworkIInv'
  BY <1>4, InjectStep
<1>5. ASSUME NEW fd \in Fd, Close(fd) PROVE NetworkIInv'
  BY <1>5, SockStep
<1>6. ASSUME NEW fd \in Fd, Send(fd) PROVE NetworkIInv'
  BY <1>6, SendStep
<1>7. ASSUME NEW fd \in Fd, NEW to \in Remote, SendTo(fd, to) PROVE NetworkIInv'
  BY <1>7, SendToStep
<1>8. ASSUME NEW call \in {"accept", "connect", "recv"}, NEW fd \in Fd, NEW block \in BOOLEAN, NEW to \in Remote,
             BeginRead(call, fd, block, to)
      PROVE  NetworkIInv'
  BY <1>8, BeginReadStep
<1>9. ASSUME NEW r \in waiting, GiveUp(r) PROVE NetworkIInv'
  BY <1>9, GiveUpStep
<1>10. CASE UNCHANGED netVars
  <2>1. /\ bound' = bound /\ sockets' = sockets /\ incoming' = incoming /\ outgoing' = outgoing
        /\ last_to' = last_to /\ on' = on /\ waiting' = waiting /\ peer' = peer /\ links' = links
        /\ injected' = injected /\ taken' = taken /\ older' = older
    BY <1>10 DEF netVars
  <2>2. TableTyped' /\ TableInv' /\ QueueTyped' /\ QueueInv'
    BY <2>1, NetworkKnown, TableStays, QueueStays
  <2>3. SentTyped' /\ SentToPeer' /\ ReadTyped' /\ RoomInv'
    BY <2>1, NetworkKnown DEF SentTyped, SentToPeer, ReadTyped, RoomInv, Unused
  <2>4. QED
    BY <2>2, <2>3, NetworkShown
<1>11. QED
  BY <1>1, <1>2, <1>3, <1>4, <1>5, <1>6, <1>7, <1>8, <1>9, <1>10 DEF NetworkNext

(* As many ids as packets are queued.                                      *)
LEMMA IdsCounted == QueueTyped /\ QueueInv => Cardinality(Ids(incoming)) = Len(incoming)
<1> SUFFICES ASSUME QueueTyped, QueueInv PROVE Cardinality(Ids(incoming)) = Len(incoming)
  OBVIOUS
<1> DEFINE n == Len(incoming)
           I == Ids(incoming)
           f == [i \in 1..n |-> incoming[i].id]
<1>1. n \in Nat /\ DOMAIN incoming = 1..n
  BY DEF QueueTyped
<1>2. \A i, j \in 1..n : incoming[i].id = incoming[j].id => i = j
  BY <1>1 DEF QueueInv
<1>3. I = {incoming[i].id : i \in 1..n}
  BY <1>1 DEF Ids
<1> HIDE DEF n, I
<1>4. f \in Bijection(1..n, I)
  <2>1. f \in [1..n -> I]
    BY <1>3
  <2>2. \A i, j \in 1..n : f[i] = f[j] => i = j
    BY <1>2
  <2>3. \A x \in I : \E i \in 1..n : f[i] = x
    BY <1>3
  <2>4. f \in Injection(1..n, I)
    BY <2>1, <2>2 DEF Injection, IsInjective
  <2>5. f \in Surjection(1..n, I)
    BY <2>1, <2>3 DEF Surjection
  <2>6. QED
    BY <2>4, <2>5 DEF Bijection
<1>5. ExistsBijection(1..n, I)
  BY <1>4 DEF ExistsBijection
<1>6. Cardinality(I) = n
  BY <1>1, <1>5, FS_NatBijection, FS_CountingElements
<1>7. QED
  BY <1>6 DEF n, I

LEMMA NetworkHolds == NetworkIInv => NetworkTypeOK /\ PacketsArrive
<1> SUFFICES ASSUME NetworkIInv PROVE NetworkTypeOK /\ PacketsArrive
  OBVIOUS
<1> USE NetworkKnown
<1>1. ReadOnce
  <2>1. Cardinality(Ids(incoming)) = Len(incoming)
    BY IdsCounted
  <2>2. Ids(incoming) \cap taken = {}
    BY DEF Ids, QueueInv
  <2>3. (older + 1)..injected \subseteq Ids(incoming) \cup taken
    BY DEF Ids, QueueInv
  <2>4. QED
    BY <2>1, <2>2, <2>3 DEF ReadOnce
<1>2. OwnPackets
  <2>1. \A i \in DOMAIN incoming : incoming[i].id > older
    <3> TAKE i \in DOMAIN incoming
    <3>1. incoming[i].id \in (older + 1)..injected /\ older \in Nat /\ injected \in Nat
      BY NetworkAssumption DEF QueueInv, QueueTyped
    <3>2. QED
      BY <3>1
  <2>2. QED
    BY <2>1 DEF OwnPackets, Ids
<1>3. QED
  BY <1>1, <1>2 DEF PacketsArrive, QueueInv, NetworkIInv

(* Queues, table and reading calls keep their types, whoever reads and     *)
(* injects (h2_socket.cpp).                                                *)
THEOREM NetworkTypeCorrect == NetworkSpec => []NetworkTypeOK
<1>1. NetworkInit => NetworkIInv
  BY NetworkStart
<1>2. NetworkIInv /\ [NetworkNext]_netVars => NetworkIInv'
  BY NetworkStep
<1>3. NetworkIInv => NetworkTypeOK
  BY NetworkHolds
<1>4. QED
  BY <1>1, <1>2, <1>3, PTL DEF NetworkSpec

(* A packet is handed out once, in its turn and in its own SOCK, and what  *)
(* is sent in the first connection of a descriptor goes to its peer, for   *)
(* any number of sockets, names and packets (h2_socket.cpp).               *)
THEOREM PacketsAlwaysArrive == NetworkSpec => []PacketsArrive
<1>1. NetworkInit => NetworkIInv
  BY NetworkStart
<1>2. NetworkIInv /\ [NetworkNext]_netVars => NetworkIInv'
  BY NetworkStep
<1>3. NetworkIInv => PacketsArrive
  BY NetworkHolds
<1>4. QED
  BY <1>1, <1>2, <1>3, PTL DEF NetworkSpec

---------------------------------------------------------------------------
(* What Without builds: one place after the other.                         *)
WithoutBuilt(f, list, gone, S) ==
  /\ f \in [0..Len(list) -> Seq(S)] /\ f[0] = <<>> /\ Without(list, gone) = f[Len(list)]
  /\ \A n \in 1..Len(list) : f[n] = IF list[n] \in gone THEN f[n - 1] ELSE Append(f[n - 1], list[n])

LEMMA WithoutDefined ==
  ASSUME NEW S, NEW list \in Seq(S), NEW gone
  PROVE  \E f : WithoutBuilt(f, list, gone, S)
<1> DEFINE N == Len(list)
           X == Seq(S)
           next(n, t) == IF list[n] \in gone THEN t ELSE Append(t, list[n])
           step == [n \in 1..N |-> [t \in X |-> next(n, t)]]
           Body(f) == [n \in 0..N |-> IF n = 0 THEN <<>> 
                                      ELSE IF list[n] \in gone THEN f[n - 1] ELSE Append(f[n - 1], list[n])]
           left == CHOOSE f : f = Body(f)
<1>1. N \in Nat /\ <<>> \in X /\ \A n \in 1..N : \A t \in X : next(n, t) \in X
  OBVIOUS
<1>2. Without(list, gone) = left[N]
  BY DEF Without
<1>3. \A f : \A n \in 1..N : Body(f)[n] = next(n, f[n - 1])
  OBVIOUS
<1>4. \A f : Body(f)[0] = <<>>
  OBVIOUS
<1>5. \A f : Body(f) = [n \in 0..N |-> Body(f)[n]]
  OBVIOUS
<1>6. step \in [1..N -> [X -> X]] /\ \A n \in 1..N : \A t \in X : step[n][t] = next(n, t)
  <2> HIDE DEF N, X, next
  <2>1. QED
    BY <1>1
<1> HIDE DEF N, X, step, next, Body
<1>7. PICK f : Built(f, N, X, <<>>, step)
  BY <1>1, <1>6, Recursion
<1>8. f \in [0..N -> X] /\ f[0] = <<>> /\ \A k \in 1..N : f[k] = step[k][f[k - 1]]
  BY <1>7 DEF Built
<1>9. \A n \in 1..N : n - 1 \in 0..N /\ f[n] = next(n, f[n - 1])
  <2> TAKE n \in 1..N
  <2>1. n - 1 \in 0..N /\ f[n - 1] \in X
    BY <1>1, <1>8
  <2>2. QED
    BY <1>6, <1>8, <2>1
<1>10. f = Body(f)
  <2>1. \A n \in 0..N : f[n] = Body(f)[n]
    <3> TAKE n \in 0..N
    <3>1. CASE n = 0
      BY <1>4, <1>8, <3>1
    <3>2. CASE n # 0
      <4>1. n \in 1..N
        BY <1>1, <3>2
      <4>2. QED
        BY <1>3, <1>9, <4>1
    <3>3. QED
      BY <3>1, <3>2
  <2>2. f = [n \in 0..N |-> f[n]]
    BY <1>8
  <2>3. QED
    BY <1>5, <2>1, <2>2
<1>11. left = Body(left)
  BY <1>10
<1> HIDE DEF left
<1>12. left[0] = <<>> /\ \A n \in 1..N : left[n] = next(n, left[n - 1])
  BY <1>3, <1>4, <1>11
<1>13. left \in [0..N -> X]
  <2> DEFINE B == {n \in 0..N : left[n] \in X}
  <2>1. 0 \in B
    BY <1>1, <1>12
  <2>2. \A n \in 1..N : n - 1 \in B => n \in B
    BY <1>1, <1>12
  <2> HIDE DEF B
  <2>3. \A n \in 0..N : n \in B
    BY <1>1, <2>1, <2>2, Induction
  <2>4. \A n \in 0..N : left[n] \in X
    BY <2>3 DEF B
  <2>5. left = [n \in 0..N |-> left[n]]
    BY <1>5, <1>11
  <2>6. QED
    BY <2>4, <2>5
<1>14. QED
  BY <1>2, <1>12, <1>13 DEF WithoutBuilt, N, X, next

(* t is made of places 1..n of a list, in their order. *)
Part(t, list, gone, n) ==
  \E at \in [1..Len(t) -> 1..n] :
    /\ \A i, j \in 1..Len(t) : i < j => at[i] < at[j]
    /\ \A i \in 1..Len(t) : t[i] = list[at[i]] /\ list[at[i]] \notin gone
    /\ \A k \in 1..n : list[k] \notin gone => \E i \in 1..Len(t) : t[i] = list[k]

LEMMA WithoutFacts ==
  ASSUME NEW S, NEW list \in Seq(S), NEW gone
  PROVE  /\ Without(list, gone) \in Seq(S) /\ Len(Without(list, gone)) <= Len(list)
         /\ Part(Without(list, gone), list, gone, Len(list))
         /\ list # <<>> /\ list[Len(list)] \notin gone =>
              Without(list, gone) # <<>> /\ Without(list, gone)[Len(Without(list, gone))] = list[Len(list)]
<1> DEFINE N == Len(list)
<1>1. N \in Nat /\ \A n \in 1..N : list[n] \in S
  OBVIOUS
<1>2. PICK f : WithoutBuilt(f, list, gone, S)
  BY WithoutDefined
<1>3. /\ f \in [0..N -> Seq(S)] /\ f[0] = <<>> /\ Without(list, gone) = f[N]
      /\ \A n \in 1..N : f[n] = IF list[n] \in gone THEN f[n - 1] ELSE Append(f[n - 1], list[n])
  BY <1>2 DEF WithoutBuilt
<1> HIDE DEF N
<1> DEFINE B == {n \in 0..N : Len(f[n]) <= n /\ Part(f[n], list, gone, n)}
<1>4. 0 \in B
  <2>1. Part(<<>>, list, gone, 0)
    <3> DEFINE at == [i \in 1..Len(<<>>) |-> 0]
    <3>1. 1..Len(<<>>) = {}
      OBVIOUS
    <3>2. /\ at \in [1..Len(<<>>) -> 1..0]
          /\ \A i, j \in 1..Len(<<>>) : i < j => at[i] < at[j]
          /\ \A i \in 1..Len(<<>>) : <<>>[i] = list[at[i]] /\ list[at[i]] \notin gone
          /\ \A k \in 1..0 : list[k] \notin gone => \E i \in 1..Len(<<>>) : <<>>[i] = list[k]
      BY <3>1
    <3> HIDE DEF at
    <3>3. QED
      BY <3>2 DEF Part
  <2>2. QED
    BY <1>1, <1>3, <2>1
<1>5. ASSUME NEW n \in 1..N, n - 1 \in B PROVE n \in B
  <2> DEFINE t == f[n - 1]
             k == Len(t)
  <2>1. t \in Seq(S) /\ k \in Nat /\ k <= n - 1 /\ Part(t, list, gone, n - 1) /\ n \in 0..N /\ n \in Nat
    BY <1>1, <1>3, <1>5
  <2>2. f[n] = IF list[n] \in gone THEN t ELSE Append(t, list[n])
    BY <1>3
  <2>3. list[n] \in S
    BY <1>1
  <2> HIDE DEF B
  <2>4. PICK at \in [1..k -> 1..(n - 1)] :
          /\ \A i, j \in 1..k : i < j => at[i] < at[j]
          /\ \A i \in 1..k : t[i] = list[at[i]] /\ list[at[i]] \notin gone
          /\ \A m \in 1..(n - 1) : list[m] \notin gone => \E i \in 1..k : t[i] = list[m]
    BY <2>1 DEF Part
  <2>0. \A m \in 1..n : m = n \/ m \in 1..(n - 1)
    BY <2>1
  <2>5. CASE list[n] \in gone
    <3>1. at \in [1..k -> 1..n]
      BY <2>1
    <3>2. f[n] = t
      BY <2>2, <2>5
    <3> HIDE DEF t
    <3>3. \A m \in 1..n : list[m] \notin gone => \E i \in 1..k : t[i] = list[m]
      BY <2>0, <2>4, <2>5
    <3>5. Part(t, list, gone, n)
      BY <2>4, <3>1, <3>3 DEF Part
    <3>4. QED
      BY <2>1, <3>2, <3>5 DEF B
  <2>6. CASE list[n] \notin gone
    <3> DEFINE u == Append(t, list[n])
    <3>1. f[n] = u
      BY <2>2, <2>6
    <3> HIDE DEF t
    <3>2. Len(u) = k + 1 /\ u[k + 1] = list[n] /\ \A i \in 1..k : u[i] = t[i]
      BY <2>1, <2>3
    <3> HIDE DEF k, u
    <3> DEFINE to == [i \in 1..(k + 1) |-> IF i = k + 1 THEN n ELSE at[i]]
    <3>3. \A i \in 1..(k + 1) : i = k + 1 \/ i \in 1..k
      BY <2>1
    <3>4. \A i \in 1..k : i # k + 1 /\ at[i] \in 1..(n - 1) /\ at[i] \in 1..n /\ at[i] < n
      BY <2>1, <2>4
    <3>5. to \in [1..(k + 1) -> 1..n]
      BY <2>1, <3>3, <3>4
    <3>6. \A i, j \in 1..(k + 1) : i < j => to[i] < to[j]
      <4> TAKE i, j \in 1..(k + 1)
      <4>1. i < j => i \in 1..k
        BY <2>1
      <4>2. QED
        BY <2>1, <2>4, <3>3, <3>4, <4>1
    <3>7. \A i \in 1..(k + 1) : u[i] = list[to[i]] /\ list[to[i]] \notin gone
      BY <2>4, <2>6, <3>2, <3>3, <3>4
    <3>8. \A m \in 1..n : list[m] \notin gone => \E i \in 1..(k + 1) : u[i] = list[m]
      <4> SUFFICES ASSUME NEW m \in 1..n, list[m] \notin gone PROVE \E i \in 1..(k + 1) : u[i] = list[m]
        OBVIOUS
      <4>1. CASE m = n
        <5>1. k + 1 \in 1..(k + 1) /\ u[k + 1] = list[m]
          BY <2>1, <3>2, <4>1
        <5>2. QED
          BY <5>1
      <4>2. CASE m # n
        <5>1. PICK i \in 1..k : t[i] = list[m]
          BY <2>0, <2>4, <4>2
        <5>2. i \in 1..(k + 1) /\ u[i] = list[m]
          BY <2>1, <3>2, <5>1
        <5>3. QED
          BY <5>2
      <4>3. QED
        BY <4>1, <4>2
    <3> HIDE DEF to
    <3>9. Part(u, list, gone, n)
      BY <3>2, <3>5, <3>6, <3>7, <3>8 DEF Part
    <3>10. QED
      BY <2>1, <3>1, <3>2, <3>9 DEF B
  <2>7. QED
    BY <2>5, <2>6
<1>6. N \in 0..N
  BY <1>1
<1> HIDE DEF B
<1>7. N \in B
  BY <1>1, <1>4, <1>5, <1>6, Induction
<1>8. Without(list, gone) \in Seq(S)
  BY <1>3, <1>6
<1>9. Len(Without(list, gone)) <= N /\ Part(Without(list, gone), list, gone, N)
  BY <1>3, <1>7 DEF B
<1>10. ASSUME list # <<>>, list[N] \notin gone
       PROVE  Without(list, gone) # <<>> /\ Without(list, gone)[Len(Without(list, gone))] = list[N]
  <2>1. N \in 1..N
    BY <1>1, <1>10 DEF N
  <2>2. N - 1 \in 0..N /\ list[N] \in S
    BY <1>1, <2>1
  <2>3. Without(list, gone) = Append(f[N - 1], list[N]) /\ f[N - 1] \in Seq(S)
    BY <1>3, <1>10, <2>1, <2>2
  <2>4. QED
    BY <2>2, <2>3
<1>11. QED
  BY <1>8, <1>9, <1>10 DEF N

---------------------------------------------------------------------------
(* The hostname of the first arguments, as it is chosen.                   *)
Names(arguments, n) == {arguments[i] : i \in 1..n} \cap Host
Chosen(name, arguments, n) ==
  /\ name \in Names(arguments, n) \cup {Every}
  /\ name = Every => Names(arguments, n) = {}
  /\ \/ \E b \in Names(arguments, n) : b # name /\ Length[b] < 2
     \/ \A a \in Names(arguments, n) : Length[name] <= Length[a]

ChosenNext(name, a) ==
  IF a \in Host /\ (name = Every \/ Length[name] < 2 \/ Length[a] < Length[name]) THEN a ELSE name

LEMMA NextChosen ==
  ASSUME NEW arguments \in Seq(Host \cup Ip), NEW n \in 1..Len(arguments), NEW name, Chosen(name, arguments, n - 1)
  PROVE  Chosen(ChosenNext(name, arguments[n]), arguments, n)
<1> DEFINE a == arguments[n]
           before == Names(arguments, n - 1)
           now == Names(arguments, n)
           next == ChosenNext(name, a)
<1>1. \A x : x \in now <=> x \in before \/ (x = a /\ a \in Host)
  <2>1. 1..n = (1..(n - 1)) \cup {n}
    OBVIOUS
  <2>2. QED
    BY <2>1 DEF Names
<1>2. \A x \in now : x \in Host /\ Length[x] \in Nat \ {0}
  BY DnsAssumption DEF Names
<1>3. /\ name \in before \cup {Every}
      /\ name = Every => before = {}
      /\ \/ \E b \in before : b # name /\ Length[b] < 2
         \/ \A b \in before : Length[name] <= Length[b]
  BY DEF Chosen
<1>4. Every \notin Host
  BY DnsAssumption
<1> SUFFICES Chosen(next, arguments, n)
  OBVIOUS
<1> HIDE DEF a, before, now
<1>5. CASE a \in Host /\ (name = Every \/ Length[name] < 2 \/ Length[a] < Length[name])
  <2>1. next = a /\ a \in now /\ a # Every
    BY <1>1, <1>4, <1>5 DEF ChosenNext
  <2>2. \/ \E b \in now : b # a /\ Length[b] < 2
        \/ \A b \in now : Length[a] <= Length[b]
    <3>1. CASE name = Every
      <4>1. \A b \in now : b = a
        BY <1>1, <1>3, <3>1
      <4>2. QED
        BY <1>2, <4>1
    <3>2. CASE name # Every /\ Length[name] < 2
      <4>1. name \in now
        BY <1>1, <1>3, <3>2
      <4>2. CASE name = a
        BY <1>2, <2>1, <3>2, <4>1, <4>2
      <4>3. QED
        BY <3>2, <4>1, <4>2
    <3>3. CASE name # Every /\ Length[a] < Length[name]
      <4>1. name \in now
        BY <1>1, <1>3, <3>3
      <4>2. CASE \E b \in before : b # name /\ Length[b] < 2
        <5>1. PICK b \in before : Length[b] < 2
          BY <4>2
        <5>2. b \in now
          BY <1>1
        <5>3. CASE b = a
          BY <1>2, <5>1, <5>2, <5>3
        <5>4. QED
          BY <5>1, <5>2, <5>3
      <4>3. CASE \A b \in before : Length[name] <= Length[b]
        <5>1. \A b \in now : Length[a] <= Length[b]
          <6> TAKE b \in now
          <6>1. CASE b = a
            BY <1>2, <6>1
          <6>2. CASE b # a
            <7>1. Length[name] <= Length[b] /\ Length[a] \in Nat /\ Length[b] \in Nat /\ Length[name] \in Nat
              BY <1>1, <1>2, <2>1, <4>1, <4>3, <6>2
            <7>2. QED
              BY <3>3, <7>1
          <6>3. QED
            BY <6>1, <6>2
        <5>2. QED
          BY <5>1
      <4>4. QED
        BY <1>3, <4>2, <4>3
    <3>4. QED
      BY <1>5, <3>1, <3>2, <3>3
  <2>3. QED
    BY <2>1, <2>2 DEF Chosen, now
<1>6. CASE ~(a \in Host /\ (name = Every \/ Length[name] < 2 \/ Length[a] < Length[name]))
  <2>1. next = name
    BY <1>6 DEF ChosenNext
  <2>2. name \in now \cup {Every} /\ (name = Every => now = {})
    BY <1>1, <1>3, <1>6
  <2>3. \/ \E b \in now : b # name /\ Length[b] < 2
        \/ \A b \in now : Length[name] <= Length[b]
    <3>1. CASE \E b \in before : b # name /\ Length[b] < 2
      BY <1>1, <3>1
    <3>2. CASE \A b \in before : Length[name] <= Length[b]
      <4> SUFFICES ASSUME NEW b \in now PROVE Length[name] <= Length[b]
        OBVIOUS
      <4>1. name # Every
        BY <2>2
      <4>2. name \in now
        BY <2>2, <4>1
      <4>3. CASE b \in before
        BY <3>2, <4>3
      <4>4. CASE b = a /\ a \in Host
        BY <1>2, <1>6, <4>2, <4>4
      <4>5. QED
        BY <1>1, <4>3, <4>4
    <3>3. QED
      BY <1>3, <3>1, <3>2
  <2>4. QED
    BY <2>1, <2>2, <2>3 DEF Chosen, now
<1>7. QED
  BY <1>5, <1>6

LEMMA HostnameChosen ==
  ASSUME NEW arguments \in Seq(Host \cup Ip)
  PROVE  Chosen(Hostname(arguments), arguments, Len(arguments))
<1> DEFINE N == Len(arguments)
           X == Host \cup {Every}
           next(n, t) == ChosenNext(t, arguments[n])
           step == [n \in 1..N |-> [t \in X |-> next(n, t)]]
           Body(f) == [n \in 0..N |-> IF n = 0 THEN Every
                         ELSE LET a == arguments[n]
                                  name == f[n - 1]
                              IN  IF a \in Host /\ (name = Every \/ Length[name] < 2 \/ Length[a] < Length[name])
                                  THEN a ELSE name]
           named == CHOOSE f : f = Body(f)
<1>1. N \in Nat /\ Every \in X /\ \A n \in 1..N : \A t \in X : next(n, t) \in X
  BY DEF ChosenNext
<1>2. Hostname(arguments) = named[N]
  BY DEF Hostname
<1>3. \A f : \A n \in 1..N : Body(f)[n] = next(n, f[n - 1])
  BY DEF ChosenNext
<1>4. \A f : Body(f)[0] = Every
  OBVIOUS
<1>5. \A f : Body(f) = [n \in 0..N |-> Body(f)[n]]
  OBVIOUS
<1>6. step \in [1..N -> [X -> X]] /\ \A n \in 1..N : \A t \in X : step[n][t] = next(n, t)
  <2> HIDE DEF N, X, next
  <2>1. QED
    BY <1>1
<1>0. ASSUME NEW n \in 1..N, NEW name, Chosen(name, arguments, n - 1)
      PROVE  Chosen(next(n, name), arguments, n)
  BY <1>0, NextChosen
<1> HIDE DEF N, X, step, next, Body
<1>7. PICK f : Built(f, N, X, Every, step)
  BY <1>1, <1>6, Recursion
<1>8. f \in [0..N -> X] /\ f[0] = Every /\ \A k \in 1..N : f[k] = step[k][f[k - 1]]
  BY <1>7 DEF Built
<1>9. \A n \in 1..N : n - 1 \in 0..N /\ f[n] = next(n, f[n - 1])
  <2> TAKE n \in 1..N
  <2>1. n - 1 \in 0..N /\ f[n - 1] \in X
    BY <1>1, <1>8
  <2>2. QED
    BY <1>6, <1>8, <2>1
<1>10. f = Body(f)
  <2>1. \A n \in 0..N : f[n] = Body(f)[n]
    <3> TAKE n \in 0..N
    <3>1. CASE n = 0
      BY <1>4, <1>8, <3>1
    <3>2. CASE n # 0
      <4>1. n \in 1..N
        BY <1>1, <3>2
      <4>2. QED
        BY <1>3, <1>9, <4>1
    <3>3. QED
      BY <3>1, <3>2
  <2>2. f = [n \in 0..N |-> f[n]]
    BY <1>8
  <2>3. QED
    BY <1>5, <2>1, <2>2
<1>11. named = Body(named)
  BY <1>10
<1> HIDE DEF named
<1>12. named[0] = Every /\ \A n \in 1..N : named[n] = next(n, named[n - 1])
  BY <1>3, <1>4, <1>11
<1> DEFINE B == {n \in 0..N : Chosen(named[n], arguments, n)}
<1>13. 0 \in B
  <2>1. Names(arguments, 0) = {}
    BY DEF Names
  <2>2. QED
    BY <1>1, <1>12, <2>1 DEF Chosen
<1>14. \A n \in 1..N : n - 1 \in B => n \in B
  BY <1>0, <1>1, <1>12
<1>15. N \in 0..N
  BY <1>1
<1> HIDE DEF B
<1>16. N \in B
  BY <1>1, <1>13, <1>14, <1>15, Induction
<1>17. QED
  BY <1>2, <1>16 DEF B, N

---------------------------------------------------------------------------
(* Entries are newest first, a case that is tested is the one known, and   *)
(* the entry for every name belongs to none.                               *)
NewestFirst ==
  /\ \A i, j \in DOMAIN dnses : i < j => dnses[j].id < dnses[i].id
  /\ \A i \in DOMAIN dnses : dnses[i].id <= made
CaseKnown == tested => known \in Case
FirstStays == dnses[Len(dnses)].owner = NoCase
Shortest(d) ==
  LET aliases == Range(d.resolves) \cap Host IN
  /\ d.name \notin Range(d.resolves)
  /\ (\A a \in aliases : Length[a] >= 2) => \A a \in aliases : Length[d.name] <= Length[a]
AllShortest == \A i \in DOMAIN dnses : Shortest(dnses[i])

DnsIInv == DnsTypeOK /\ NewestFirst /\ CaseKnown /\ FirstStays /\ CaseKeepsItsOwn /\ AllShortest

(* The arguments of one DNS make an entry.                                 *)
LEMMA EntryMade ==
  ASSUME NEW arguments \in Arguments, NEW owner \in Case \cup {NoCase}, NEW inside \in BOOLEAN, NEW id \in 0..MaxEntry
  PROVE  LET name == Hostname(arguments)
             entry == [name |-> name, resolves |-> Without(arguments, {name}),
                       owner |-> owner, inside |-> inside, id |-> id]
         IN  entry \in Domain /\ Shortest(entry)
<1> DEFINE name == Hostname(arguments)
           left == Without(arguments, {name})
           entry == [name |-> name, resolves |-> left, owner |-> owner, inside |-> inside, id |-> id]
           N == Len(arguments)
<1>1. arguments \in Seq(Host \cup Ip) /\ N \in 0..MaxArguments
  BY DnsAssumption DEF Arguments, BoundedSeq, SeqOf
<1>2. /\ left \in Seq(Host \cup Ip) /\ Len(left) <= N /\ Part(left, arguments, {name}, N)
  BY <1>1, WithoutFacts
<1>3. Chosen(name, arguments, N)
  BY <1>1, HostnameChosen
<1> HIDE DEF name, left
<1>4. left \in Arguments
  <2>1. Len(left) \in 0..MaxArguments /\ left \in [1..Len(left) -> Host \cup Ip]
    BY <1>1, <1>2, DnsAssumption
  <2>2. QED
    BY <2>1 DEF Arguments, BoundedSeq, SeqOf
<1>5. name \in Host \cup {Every}
  BY <1>3 DEF Chosen, Names
<1>6. entry \in Domain
  BY <1>4, <1>5 DEF Domain
<1>7. \A x \in Range(left) : x # name /\ x \in {arguments[i] : i \in 1..N}
  <2> TAKE x \in Range(left)
  <2>1. PICK at \in [1..Len(left) -> 1..N] : \A i \in 1..Len(left) : left[i] = arguments[at[i]] /\ arguments[at[i]] \notin {name}
    BY <1>2 DEF Part
  <2>2. PICK i \in 1..Len(left) : x = left[i]
    BY <1>2 DEF Range
  <2>3. QED
    BY <2>1, <2>2
<1>8. Range(left) \cap Host \subseteq Names(arguments, N)
  BY <1>7 DEF Names
<1>9. \A b \in Names(arguments, N) : Length[b] \in Nat /\ (name # Every => Length[name] \in Nat)
  BY <1>5, DnsAssumption DEF Names
<1>10. ASSUME \A a \in Range(left) \cap Host : Length[a] >= 2, NEW a \in Range(left) \cap Host
       PROVE  Length[name] <= Length[a]
  <2>1. a \in Names(arguments, N)
    BY <1>8
  <2>2. CASE \A b \in Names(arguments, N) : Length[name] <= Length[b]
    BY <2>1, <2>2
  <2>3. CASE \E b \in Names(arguments, N) : b # name /\ Length[b] < 2
    <3>1. PICK b \in Names(arguments, N) : b # name /\ Length[b] < 2
      BY <2>3
    <3>2. PICK i \in 1..N : arguments[i] = b
      BY <3>1 DEF Names
    <3>3. b \in Range(left)
      <4>1. PICK j \in 1..Len(left) : left[j] = b
        BY <1>2, <3>1, <3>2 DEF Part
      <4>2. DOMAIN left = 1..Len(left)
        BY <1>2
      <4>3. QED
        BY <4>1, <4>2 DEF Range
    <3>4. b \in Host
      BY <3>1 DEF Names
    <3>5. QED
      BY <1>9, <1>10, <3>1, <3>3, <3>4
  <2>4. QED
    BY <1>3, <2>2, <2>3 DEF Chosen
<1>11. entry.name = name /\ entry.resolves = left
  OBVIOUS
<1>12. Shortest(entry)
  BY <1>7, <1>10, <1>11 DEF Shortest
<1>13. QED
  BY <1>6, <1>12 DEF name, left

LEMMA DnsKnown ==
  ASSUME DnsIInv
  PROVE  /\ dnses \in Seq(Domain) /\ Len(dnses) \in Nat /\ DOMAIN dnses = 1..Len(dnses) /\ Len(dnses) > 0
         /\ known \in Case \cup {NoCase} /\ tested \in BOOLEAN /\ made \in 0..MaxEntry
         /\ tested => known \in Case
         /\ dnses[Len(dnses)].name = Every /\ dnses[Len(dnses)].owner = NoCase
         /\ \A i, j \in 1..Len(dnses) : i < j => dnses[j].id < dnses[i].id
         /\ \A i \in 1..Len(dnses) : dnses[i] \in Domain /\ dnses[i].id \in 0..made /\ Shortest(dnses[i])
         /\ \A i \in 1..Len(dnses) : dnses[i].inside => tested /\ dnses[i].owner = known
<1>1. dnses \in Seq(Domain) /\ dnses # <<>> /\ made \in 0..MaxEntry
  BY DEF DnsIInv, DnsTypeOK
<1>2. Len(dnses) \in Nat /\ DOMAIN dnses = 1..Len(dnses) /\ Len(dnses) > 0
  BY <1>1
<1>3. \A i \in 1..Len(dnses) : dnses[i] \in Domain
  BY <1>1
<1>4. \A i \in 1..Len(dnses) : dnses[i].id \in Nat
  BY <1>3, DnsAssumption DEF Domain
<1>5. \A i \in 1..Len(dnses) : dnses[i].id <= made
  BY <1>2 DEF DnsIInv, NewestFirst
<1>6. \A i \in 1..Len(dnses) : dnses[i].id \in 0..made
  BY <1>1, <1>4, <1>5
<1>7. QED
  BY <1>1, <1>2, <1>3, <1>6
  DEF DnsIInv, DnsTypeOK, NewestFirst, CaseKnown, FirstStays, CaseKeepsItsOwn, AllShortest, Last

(* The same of a list that follows.                                        *)
LEMMA DnsShown ==
  ASSUME NEW n \in Nat \ {0},
         dnses' \in Seq(Domain), Len(dnses') = n, known' \in Case \cup {NoCase}, tested' \in BOOLEAN,
         made' \in 0..MaxEntry, tested' => known' \in Case,
         dnses'[n].name = Every, dnses'[n].owner = NoCase,
         \A i, j \in 1..n : i < j => dnses'[j].id < dnses'[i].id,
         \A i \in 1..n : dnses'[i].id <= made', \A i \in 1..n : Shortest(dnses'[i]),
         \A i \in 1..n : dnses'[i].inside => tested' /\ dnses'[i].owner = known'
  PROVE  DnsIInv'
<1>1. DOMAIN dnses' = 1..n /\ dnses' # <<>>
  OBVIOUS
<1>2. DnsTypeOK'
  BY <1>1 DEF DnsTypeOK, Last
<1>3. NewestFirst'
  BY <1>1 DEF NewestFirst
<1>4. AllShortest'
  BY <1>1 DEF AllShortest
<1>5. CaseKeepsItsOwn'
  BY <1>1 DEF CaseKeepsItsOwn
<1>6. QED
  BY <1>2, <1>3, <1>4, <1>5 DEF DnsIInv, CaseKnown, FirstStays

LEMMA DnsStart == DnsInit => DnsIInv
<1> SUFFICES ASSUME DnsInit PROVE DnsIInv
  OBVIOUS
<1> DEFINE ip == CHOOSE ip \in Ip : TRUE
           entry == [name |-> Every, resolves |-> <<ip>>, owner |-> NoCase, inside |-> FALSE, id |-> 0]
<1>1. dnses = <<entry>> /\ known = NoCase /\ tested = FALSE /\ made = 0
  BY DEF DnsInit
<1>2. ip \in Ip
  BY DnsAssumption
<1> HIDE DEF ip
<1>3. <<ip>> \in Arguments
  <2>1. 1 \in 0..MaxArguments /\ <<ip>> \in [1..1 -> Host \cup Ip]
    BY <1>2, DnsAssumption
  <2>2. QED
    BY <2>1 DEF Arguments, BoundedSeq, SeqOf
<1>4. 0 \in 0..MaxEntry
  BY DnsAssumption
<1>5. entry \in Domain
  BY <1>3, <1>4 DEF Domain
<1>6. Shortest(entry)
  <2>1. Range(<<ip>>) = {ip}
    BY DEF Range
  <2>2. ip \notin Host /\ ip # Every
    BY <1>2, DnsAssumption
  <2>3. QED
    BY <2>1, <2>2 DEF Shortest
<1>7. entry.name = Every /\ entry.owner = NoCase /\ entry.id = 0 /\ ~entry.inside
  OBVIOUS
<1> HIDE DEF entry
<1>8. dnses \in Seq(Domain) /\ Len(dnses) = 1 /\ DOMAIN dnses = {1} /\ dnses[1] = entry /\ dnses # <<>>
  BY <1>1, <1>5
<1>9. DnsTypeOK
  BY <1>1, <1>4, <1>7, <1>8 DEF DnsTypeOK, Last
<1>10. QED
  BY <1>1, <1>6, <1>7, <1>8, <1>9 DEF DnsIInv, NewestFirst, CaseKnown, FirstStays, CaseKeepsItsOwn, AllShortest

LEMMA SetAddrInfoStep ==
  ASSUME DnsIInv, NEW arguments \in Arguments, SetAddrInfo(arguments) PROVE DnsIInv'
<1> DEFINE entry == [name |-> Hostname(arguments), resolves |-> Without(arguments, {Hostname(arguments)}),
                     owner |-> known, inside |-> tested, id |-> made + 1]
           n == Len(dnses)
<1>1. /\ made < MaxEntry /\ made' = made + 1 /\ dnses' = <<entry>> \o dnses
      /\ known' = known /\ tested' = tested
  BY DEF SetAddrInfo
<1>2. /\ dnses \in Seq(Domain) /\ n \in Nat /\ n > 0
      /\ known \in Case \cup {NoCase} /\ tested \in BOOLEAN /\ made \in 0..MaxEntry
      /\ tested => known \in Case
      /\ dnses[n].name = Every /\ dnses[n].owner = NoCase
      /\ \A i, j \in 1..n : i < j => dnses[j].id < dnses[i].id
      /\ \A i \in 1..n : dnses[i] \in Domain /\ dnses[i].id \in 0..made /\ Shortest(dnses[i])
      /\ \A i \in 1..n : dnses[i].inside => tested /\ dnses[i].owner = known
  BY DnsKnown
<1>3. made' \in 0..MaxEntry
  BY <1>1, <1>2, DnsAssumption
<1>4. entry \in Domain /\ Shortest(entry)
  BY <1>1, <1>2, <1>3, EntryMade
<1>5. entry.owner = known /\ entry.inside = tested /\ entry.id = made + 1
  OBVIOUS
<1> HIDE DEF entry, n
<1>6. /\ dnses' \in Seq(Domain) /\ Len(dnses') = n + 1 /\ dnses'[1] = entry
      /\ \A i \in 2..(n + 1) : dnses'[i] = dnses[i - 1]
  <2> DEFINE s == <<entry>>
  <2>1. s \in Seq(Domain) /\ Len(s) = 1 /\ s[1] = entry
    BY <1>4
  <2>2. dnses' = s \o dnses
    BY <1>1
  <2> HIDE DEF s
  <2>3. /\ s \o dnses \in Seq(Domain) /\ Len(s \o dnses) = Len(s) + Len(dnses)
        /\ \A j \in 1..(Len(s) + Len(dnses)) :
             (s \o dnses)[j] = IF j <= Len(s) THEN s[j] ELSE dnses[j - Len(s)]
    BY <1>2, <2>1, ConcatProperties
  <2>4. QED
    BY <1>2, <2>1, <2>2, <2>3 DEF n
<1>7. \A i \in 1..(n + 1) : i = 1 \/ (i \in 2..(n + 1) /\ i - 1 \in 1..n)
  BY <1>2
<1>8. \A i, j \in 1..(n + 1) : i < j => dnses'[j].id < dnses'[i].id
  <2> TAKE i, j \in 1..(n + 1)
  <2> HAVE i < j
  <2>1. j \in 2..(n + 1) /\ j - 1 \in 1..n /\ dnses'[j] = dnses[j - 1]
    BY <1>2, <1>6
  <2>2. CASE i = 1
    <3>1. dnses[j - 1].id \in 0..made
      BY <1>2, <2>1
    <3>2. QED
      BY <1>2, <1>5, <1>6, <2>1, <2>2, <3>1
  <2>3. CASE i # 1
    <3>1. i \in 2..(n + 1) /\ i - 1 \in 1..n /\ i - 1 < j - 1 /\ dnses'[i] = dnses[i - 1]
      BY <1>6, <1>7, <2>1, <2>3
    <3>2. QED
      BY <1>2, <2>1, <3>1
  <2>4. QED
    BY <2>2, <2>3
<1>9. \A i \in 1..(n + 1) : dnses'[i].id <= made'
  <2> TAKE i \in 1..(n + 1)
  <2>1. CASE i = 1
    BY <1>1, <1>2, <1>5, <1>6, <2>1
  <2>2. CASE i # 1
    <3>1. dnses'[i].id \in 0..made
      BY <1>2, <1>6, <1>7, <2>2
    <3>2. QED
      <4>1. made \in Nat
        BY <1>2, DnsAssumption
      <4>2. \A id \in 0..made : id <= made + 1
        BY <4>1
      <4>3. QED
        BY <1>1, <3>1, <4>2
  <2>3. QED
    BY <2>1, <2>2
<1>10. \A i \in 1..(n + 1) : Shortest(dnses'[i])
  BY <1>2, <1>4, <1>6, <1>7
<1>11. \A i \in 1..(n + 1) : dnses'[i].inside => tested' /\ dnses'[i].owner = known'
  BY <1>1, <1>2, <1>5, <1>6, <1>7
<1>12. dnses'[n + 1] = dnses[n] /\ n + 1 \in Nat \ {0}
  BY <1>2, <1>6
<1>13. QED
  BY <1>1, <1>2, <1>3, <1>6, <1>8, <1>9, <1>10, <1>11, <1>12, DnsShown

LEMMA PostCleanupStep ==
  ASSUME DnsIInv, PostCleanup PROVE DnsIInv'
<1> DEFINE n == Len(dnses)
           gone == {d \in Range(dnses) : d.owner = known}
           left == Without(dnses, gone)
           m == Len(left)
<1>1. tested /\ tested' = FALSE /\ dnses' = left /\ known' = known /\ made' = made
  BY DEF PostCleanup
<1>2. /\ dnses \in Seq(Domain) /\ n \in Nat /\ n > 0
      /\ known \in Case /\ made \in 0..MaxEntry
      /\ dnses[n].name = Every /\ dnses[n].owner = NoCase
      /\ \A i, j \in 1..n : i < j => dnses[j].id < dnses[i].id
      /\ \A i \in 1..n : dnses[i] \in Domain /\ dnses[i].id \in 0..made /\ Shortest(dnses[i])
      /\ \A i \in 1..n : dnses[i].inside => tested /\ dnses[i].owner = known
  BY <1>1, DnsKnown
<1>3. \A i \in 1..n : dnses[i] \notin gone => dnses[i].owner # known
  <2>1. \A i \in 1..n : dnses[i] \in Range(dnses)
    BY <1>2 DEF Range
  <2>2. QED
    BY <2>1
<1>4. dnses[n] \notin gone
  BY <1>2, DnsAssumption
<1>5. left \in Seq(Domain) /\ m <= n /\ Part(left, dnses, gone, n) /\ left # <<>> /\ left[m] = dnses[n]
  <2> HIDE DEF gone
  <2>1. dnses # <<>>
    BY <1>2
  <2>2. QED
    BY <1>2, <1>4, <2>1, WithoutFacts
<1> HIDE DEF left, gone, n
<1>6. m \in Nat \ {0}
  BY <1>5
<1>7. PICK at \in [1..m -> 1..n] :
        /\ \A i, j \in 1..m : i < j => at[i] < at[j]
        /\ \A i \in 1..m : left[i] = dnses[at[i]] /\ dnses[at[i]] \notin gone
  BY <1>5 DEF Part
<1> HIDE DEF m
<1>8. \A i, j \in 1..m : i < j => left[j].id < left[i].id
  BY <1>2, <1>7
<1>9. \A i \in 1..m : left[i].id \in 0..made
  BY <1>2, <1>7
<1>10. \A i \in 1..m : left[i].id <= made
  BY <1>2, <1>9
<1>11. \A i \in 1..m : Shortest(left[i])
  BY <1>2, <1>7
<1>12. \A i \in 1..m : Shortest(dnses'[i])
  BY <1>1, <1>11
<1>13. \A i \in 1..m : ~left[i].inside
  BY <1>2, <1>3, <1>7
<1>14. Len(dnses') = m
  BY <1>1 DEF m
<1>15. QED
  BY <1>1, <1>2, <1>5, <1>6, <1>8, <1>10, <1>12, <1>13, <1>14, DnsShown

LEMMA DnsSteps == DnsIInv /\ [DnsNext]_dnsVars => DnsIInv'
<1> SUFFICES ASSUME DnsIInv, [DnsNext]_dnsVars PROVE DnsIInv'
  OBVIOUS
<1>1. CASE PostCleanup
  BY <1>1, PostCleanupStep
<1>2. ASSUME NEW case \in Case, Begin(case) PROVE DnsIInv'
  <2>1. dnses' = dnses /\ made' = made /\ ~tested /\ tested' = TRUE /\ known' = case
    BY <1>2 DEF Begin
  <2>2. DnsTypeOK'
    BY <2>1 DEF DnsIInv, DnsTypeOK
  <2>3. NewestFirst' /\ CaseKnown' /\ FirstStays'
    BY <2>1 DEF DnsIInv, NewestFirst, CaseKnown, FirstStays
  <2>4. CaseKeepsItsOwn'
    BY <2>1 DEF DnsIInv, CaseKeepsItsOwn
  <2>5. AllShortest'
    BY <2>1 DEF DnsIInv, AllShortest, Shortest
  <2>6. QED
    BY <2>2, <2>3, <2>4, <2>5 DEF DnsIInv
<1>3. ASSUME NEW arguments \in Arguments, SetAddrInfo(arguments) PROVE DnsIInv'
  BY <1>3, SetAddrInfoStep
<1>4. CASE UNCHANGED dnsVars
  <2>1. dnses' = dnses /\ made' = made /\ tested' = tested /\ known' = known
    BY <1>4 DEF dnsVars
  <2>2. QED
    BY <2>1 DEF DnsIInv, DnsTypeOK, NewestFirst, CaseKnown, FirstStays, CaseKeepsItsOwn, AllShortest, Shortest
<1>5. QED
  BY <1>1, <1>2, <1>3, <1>4 DEF DnsNext

LEMMA DnsHolds == DnsIInv => DnsTypeOK /\ NamesResolve
<1> SUFFICES ASSUME DnsIInv PROVE NamesResolve
  BY DEF DnsIInv
<1>1. /\ dnses \in Seq(Domain) /\ Len(dnses) \in Nat /\ DOMAIN dnses = 1..Len(dnses)
      /\ \A i, j \in 1..Len(dnses) : i < j => dnses[j].id < dnses[i].id
      /\ \A i \in 1..Len(dnses) : dnses[i].id \in 0..made /\ Shortest(dnses[i])
      /\ made \in Nat
  BY DnsKnown, DnsAssumption
<1>2. LatestAnswers
  <2> SUFFICES ASSUME NEW host \in Host, NEW i \in Answering(host) PROVE dnses[i].id <= Find(host).id
    BY DEF LatestAnswers
  <2> DEFINE j == Min(Answering(host))
  <2>1. Answering(host) \in SUBSET Nat /\ Answering(host) \subseteq 1..Len(dnses)
    BY <1>1 DEF Answering
  <2>2. j \in Answering(host) /\ j <= i
    BY <2>1, Least
  <2>3. Find(host) = dnses[j]
    BY DEF Find
  <2> HIDE DEF j
  <2>4. i \in 1..Len(dnses) /\ j \in 1..Len(dnses)
    BY <2>1, <2>2
  <2>5. dnses[i].id \in Nat
    BY <1>1, <2>4
  <2>6. CASE i = j
    BY <2>3, <2>5, <2>6
  <2>7. CASE i # j
    BY <1>1, <2>2, <2>3, <2>4, <2>7
  <2>8. QED
    BY <2>6, <2>7
<1>3. NamedByShortest
  <2>1. \A d \in Range(dnses) : Shortest(d)
    BY <1>1 DEF Range
  <2>2. QED
    BY <2>1 DEF NamedByShortest, Shortest
<1>4. QED
  BY <1>2, <1>3 DEF NamesResolve, DnsIInv

(* Entries and the last of them, which is for every name, keep their types *)
(* (h2_dns.cpp).                                                           *)
THEOREM DnsTypeCorrect == DnsSpec => []DnsTypeOK
<1>1. DnsInit => DnsIInv
  BY DnsStart
<1>2. DnsIInv /\ [DnsNext]_dnsVars => DnsIInv'
  BY DnsSteps
<1>3. DnsIInv => DnsTypeOK
  BY DnsHolds
<1>4. QED
  BY <1>1, <1>2, <1>3, PTL DEF DnsSpec

(* A name resolves to the latest answer set for it or for all that is      *)
(* there, no case sees the answers of another, and an entry has the        *)
(* shortest of its names: for any cases, names and lists of arguments      *)
(* (h2_dns::setaddrinfo, h2_resolver::find, h2_dnses::clear).              *)
THEOREM NamesAlwaysResolve == DnsSpec => []NamesResolve
<1>1. DnsInit => DnsIInv
  BY DnsStart
<1>2. DnsIInv /\ [DnsNext]_dnsVars => DnsIInv'
  BY DnsSteps
<1>3. DnsIInv => NamesResolve
  BY DnsHolds
<1>4. QED
  BY <1>1, <1>2, <1>3, PTL DEF DnsSpec

(* The same of the two in one process.                                     *)
LEMMA BothSteps ==
  NetworkIInv /\ DnsIInv /\ [NetStep \/ DnsStep]_<<side, netVars, dnsVars>> => NetworkIInv' /\ DnsIInv'
<1> SUFFICES ASSUME NetworkIInv, DnsIInv, [NetStep \/ DnsStep]_<<side, netVars, dnsVars>>
             PROVE  NetworkIInv' /\ DnsIInv'
  OBVIOUS
<1>1. [NetworkNext]_netVars
  BY DEF NetStep, DnsStep
<1>2. [DnsNext]_dnsVars
  BY DEF NetStep, DnsStep
<1>3. QED
  BY <1>1, <1>2, NetworkStep, DnsSteps

(* Sockets and names in one process keep their types.                      *)
THEOREM TypesCorrect == MCSpec => []TypesOK
<1>1. MCInit => NetworkIInv /\ DnsIInv
  BY NetworkStart, DnsStart DEF MCInit
<1>2. NetworkIInv /\ DnsIInv /\ [NetStep \/ DnsStep]_<<side, netVars, dnsVars>> => NetworkIInv' /\ DnsIInv'
  BY BothSteps
<1>3. NetworkIInv /\ DnsIInv => TypesOK
  BY NetworkHolds, DnsHolds DEF TypesOK
<1>4. QED
  BY <1>1, <1>2, <1>3, PTL DEF MCSpec
=============================================================================
