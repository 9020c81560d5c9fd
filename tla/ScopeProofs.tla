---------------------------- MODULE ScopeProofs ----------------------------
(***************************************************************************)
(* Theorems about the stub engine (Stub) and about the scopes of stubs and *)
(* mocks that are built on it (Scope).                                     *)
(***************************************************************************)
EXTENDS Scope, FiniteSetTheorems, WellFoundedInduction, SequenceTheorems, TLAPS

(***************************************************************************)
(* Proofs about the stub engine for any sets of addresses, functions,      *)
(* fakes and owner lists, and any interleaving of the owners' operations.  *)
(*                                                                         *)
(* RestoredWhenFree is not inductive: that the bytes written back by the   *)
(* last release are the original ones needs OriginPreserved, which needs   *)
(* the reference count to be exact (CountIsHolders), which in turn needs   *)
(* every stub of a list to have an address of its own (UniquePerList).     *)
(***************************************************************************)

(* A page that refuses the patch keeps its bytes. *)
UnpatchedInv == \A f \in Function \ Patchable : opcode[f] = Origin

StubIInv ==
  /\ StubTypeOK
  /\ UniquePerList
  /\ CountIsHolders
  /\ OriginPreserved
  /\ RestoredWhenFree
  /\ UnpatchedInv

(* A nonempty set of positions has a first one. *)
LEMMA FirstPosition ==
  ASSUME NEW S \in SUBSET Nat, S # {}
  PROVE  \E i \in S : \A j \in S : i <= j
<1>1. PICK i \in S : \A j \in S : ~(<<j, i>> \in OpToRel(<, Nat))
  BY NatLessThanWellFounded, WFMin
<1>2. \A j \in S : ~(j < i)
  BY <1>1 DEF OpToRel
<1>3. QED
  BY <1>2

(* The stubs of a function are finitely many. *)
LEMMA HoldersFinite ==
  ASSUME NEW f \in Function
  PROVE  /\ IsFiniteSet(Holders(f))
         /\ Cardinality(Holders(f)) \in Nat
         /\ Cardinality(Holders(f)) = 0 <=> Holders(f) = {}
<1>1. IsFiniteSet(List \X Address)
  BY StubAssumption, FS_Product
<1>2. Holders(f) \in SUBSET (List \X Address)
  BY DEF Holders
<1>3. IsFiniteSet(Holders(f))
  BY <1>1, <1>2, FS_Subset
<1>4. QED
  BY <1>3, FS_CardinalityType, FS_EmptySet

LEMMA StubInitIInv == StubInit => StubIInv
<1> SUFFICES ASSUME StubInit PROVE StubIInv
  OBVIOUS
<1>1. StubTypeOK
  BY StubAssumption DEF StubInit, StubTypeOK, Opcode
<1>2. \A f \in Function : Holders(f) = {}
  BY DEF StubInit, Holders, Held
<1>3. CountIsHolders
  BY <1>2, HoldersFinite DEF StubInit, CountIsHolders
<1>4. QED
  BY <1>1, <1>3 DEF StubInit, StubIInv, UniquePerList, OriginPreserved,
                  RestoredWhenFree, UnpatchedInv

(* The bytes an operation writes are bytes a function can have. *)
LEMMA WriteType ==
  ASSUME StubTypeOK, NEW f \in Function, NEW code \in Opcode
  PROVE  /\ Write(f, code) \in [Function -> Opcode]
         /\ \A g \in Function : g # f => Write(f, code)[g] = opcode[g]
BY DEF StubTypeOK, Write

(* Redirecting an existing stub changes no holder, no count, no source. *)
LEMMA RedirectStep ==
  ASSUME StubIInv, NEW l \in List, NEW a \in Address, NEW d \in Fake, Redirect(l, a, d)
  PROVE  StubIInv'
<1> DEFINE f == Follow[a]
<1>0. f \in Function /\ d \in Opcode
  BY StubAssumption DEF Opcode
<1>1. /\ stubs \in [List -> Seq(Entry)]
      /\ stubs' = [stubs EXCEPT ![l] =
            [i \in DOMAIN stubs[l] |-> IF stubs[l][i].addr = a THEN [stubs[l][i] EXCEPT !.dst = d]
                                                              ELSE stubs[l][i]]]
  BY DEF StubIInv, StubTypeOK, Redirect
<1>2. \A e \in Entry : [e EXCEPT !.dst = d] \in Entry /\ [e EXCEPT !.dst = d].addr = e.addr
  BY DEF Entry
<1>3. /\ stubs'[l] \in Seq(Entry)
      /\ DOMAIN stubs'[l] = DOMAIN stubs[l]
      /\ \A i \in DOMAIN stubs[l] : stubs'[l][i].addr = stubs[l][i].addr
  BY <1>1, <1>2
<1>4. \A m \in List : /\ stubs'[m] \in Seq(Entry)
                     /\ DOMAIN stubs'[m] = DOMAIN stubs[m]
                     /\ \A i \in DOMAIN stubs[m] : stubs'[m][i].addr = stubs[m][i].addr
  BY <1>1, <1>3
<1>5. \A g \in Function : Holders(g)' = Holders(g)
  BY <1>4 DEF Holders, Held
<1>6. StubTypeOK'
  <2>1. stubs' \in [List -> Seq(Entry)]
    BY <1>1, <1>3
  <2>2. QED
    BY <1>0, <2>1, WriteType DEF StubIInv, StubTypeOK, Redirect
<1>7. UniquePerList'
  BY <1>4 DEF StubIInv, UniquePerList
<1>8. CountIsHolders' /\ OriginPreserved'
  BY <1>5 DEF StubIInv, CountIsHolders, OriginPreserved, Redirect
<1>9. RestoredWhenFree'
  <2>1. <<l, a>> \in Holders(f)
    BY DEF Redirect, Holders
  <2>2. opcode' = Write(f, d)
    BY DEF Redirect
  <2>3. QED
    BY <1>0, <1>5, <2>1, <2>2, WriteType DEF StubIInv, RestoredWhenFree
<1>10. UnpatchedInv'
  BY DEF StubIInv, StubTypeOK, UnpatchedInv, Redirect, Write
<1>11. QED
  BY <1>6, <1>7, <1>8, <1>9, <1>10 DEF StubIInv

(* A new stub adds exactly one holder.  When it also creates the source,   *)
(* nobody held the function, so the bytes it captures are the original.    *)
LEMMA PatchStep ==
  ASSUME StubIInv, NEW l \in List, NEW a \in Address, NEW d \in Fake, Patch(l, a, d)
  PROVE  StubIInv'
<1> DEFINE f == Follow[a]
           e == [addr |-> a, saved |-> opcode[f], dst |-> d]
<1>0. f \in Function /\ d \in Opcode
  BY StubAssumption DEF Opcode
<1>1. /\ stubs \in [List -> Seq(Entry)]
      /\ e \in Entry
      /\ stubs' = [stubs EXCEPT ![l] = Append(@, e)]
  BY <1>0 DEF StubIInv, StubTypeOK, Patch, Entry
<1>2. /\ stubs'[l] \in Seq(Entry)
      /\ DOMAIN stubs'[l] = DOMAIN stubs[l] \cup {Len(stubs[l]) + 1}
      /\ Len(stubs[l]) + 1 \notin DOMAIN stubs[l]
      /\ \A i \in DOMAIN stubs[l] : stubs'[l][i] = stubs[l][i]
      /\ stubs'[l][Len(stubs[l]) + 1] = e
  BY <1>1
<1>3. \A m \in List : m # l => stubs'[m] = stubs[m]
  BY <1>1
<1>4. e.addr = a
  OBVIOUS
<1> HIDE DEF e
<1>5. \A m \in List, b \in Address : Held(m, b)' <=> Held(m, b) \/ (m = l /\ b = a)
  BY <1>2, <1>3, <1>4 DEF Held
<1>6. Holders(f)' = Holders(f) \cup {<<l, a>>} /\ <<l, a>> \notin Holders(f)
  BY <1>5 DEF Holders, Patch
<1>7. \A g \in Function : g # f => Holders(g)' = Holders(g)
  BY <1>5 DEF Holders
<1>8. StubTypeOK'
  <2>1. stubs' \in [List -> Seq(Entry)]
    BY <1>1, <1>2
  <2>2. opcode' \in [Function -> Opcode]
    BY <1>0, WriteType DEF StubIInv, Patch
  <2>3. /\ count' \in [Function -> Nat]
        /\ origin_opcode' \in [Function -> Opcode]
        /\ temporaries' \in Seq(Temporary)
    BY <1>0 DEF StubIInv, StubTypeOK, Patch, Capture
  <2>4. QED
    BY <2>1, <2>2, <2>3 DEF StubTypeOK
<1>9. UniquePerList'
  <2>1. \A i \in DOMAIN stubs[l] : stubs[l][i].addr # a
    BY DEF Patch, Held
  <2>2. QED
    BY <1>2, <1>3, <1>4, <2>1 DEF StubIInv, UniquePerList
<1>10. CountIsHolders'
  <2>1. Cardinality(Holders(f)') = Cardinality(Holders(f)) + 1
    BY <1>0, <1>6, HoldersFinite, FS_AddElement
  <2>2. QED
    BY <1>0, <1>7, <2>1 DEF StubIInv, StubTypeOK, CountIsHolders, Patch
<1>11. OriginPreserved'
  <2>1. CASE count[f] = 0
    <3>1. opcode[f] = Origin
      BY <1>0, <2>1, HoldersFinite DEF StubIInv, CountIsHolders, RestoredWhenFree
    <3>2. QED
      BY <1>0, <2>1, <3>1 DEF StubIInv, StubTypeOK, OriginPreserved, Patch, Capture
  <2>2. CASE count[f] # 0
    BY <1>0, <2>2 DEF StubIInv, StubTypeOK, OriginPreserved, Patch, Capture
  <2>3. QED
    BY <2>1, <2>2
<1>12. RestoredWhenFree'
  <2>1. opcode' = Write(f, d)
    BY DEF Patch
  <2>2. QED
    BY <1>0, <1>6, <1>7, <2>1, WriteType DEF StubIInv, RestoredWhenFree
<1>13. UnpatchedInv'
  BY DEF StubIInv, StubTypeOK, UnpatchedInv, Patch, Write
<1>14. QED
  BY <1>8, <1>9, <1>10, <1>11, <1>12, <1>13 DEF StubIInv
(* Releasing one stub removes exactly one holder; if it was the last, the  *)
(* source's bytes, which are the original ones, are what remains.          *)
LEMMA ClearStep ==
  ASSUME StubIInv, NEW l \in List, NEW a \in Address, Clear(l, a)
  PROVE  StubIInv'
<1> DEFINE f == Follow[a]
<1>0. f \in Function
  BY StubAssumption
<1>1. PICK k \in DOMAIN stubs[l] :
        /\ stubs[l][k].addr = a
        /\ stubs' = [stubs EXCEPT ![l] =
              [i \in 1..(Len(@) - 1) |-> IF i < k THEN @[i] ELSE @[i + 1]]]
        /\ opcode' = [opcode EXCEPT ![f] = Released(f, 1, stubs[l][k].saved)]
        /\ count' = [count EXCEPT ![f] = @ - 1]
        /\ UNCHANGED <<origin_opcode, temporaries>>
  BY DEF Clear
<1>2. /\ stubs[l] \in Seq(Entry)
      /\ stubs'[l] = [i \in 1..(Len(stubs[l]) - 1) |-> IF i < k THEN stubs[l][i] ELSE stubs[l][i + 1]]
      /\ \A m \in List : m # l => stubs'[m] = stubs[m]
  BY <1>1 DEF StubIInv, StubTypeOK
<1>3. /\ Len(stubs[l]) \in Nat /\ k \in 1..Len(stubs[l])
      /\ DOMAIN stubs[l] = 1..Len(stubs[l])
      /\ stubs[l][k] \in Entry
      /\ DOMAIN stubs'[l] = 1..(Len(stubs[l]) - 1)
      /\ \A i \in 1..(Len(stubs[l]) - 1) : i < k => stubs'[l][i] = stubs[l][i]
      /\ \A i \in 1..(Len(stubs[l]) - 1) : ~(i < k) => stubs'[l][i] = stubs[l][i + 1]
  BY <1>2
<1>4. stubs'[l] \in Seq(Entry)
  BY <1>2, <1>3
<1>5. \A i \in DOMAIN stubs[l] : i # k => \E j \in DOMAIN stubs'[l] : stubs'[l][j] = stubs[l][i]
  <2> SUFFICES ASSUME NEW i \in 1..Len(stubs[l]), i # k
               PROVE  \E j \in DOMAIN stubs'[l] : stubs'[l][j] = stubs[l][i]
    BY <1>3
  <2>1. CASE i < k
    <3>1. i \in 1..(Len(stubs[l]) - 1)
      BY <1>3, <2>1
    <3>2. stubs'[l][i] = stubs[l][i] /\ i \in DOMAIN stubs'[l]
      BY <1>3, <2>1, <3>1
    <3>3. QED
      BY <3>2
  <2>2. CASE i > k
    <3>1. i - 1 \in 1..(Len(stubs[l]) - 1) /\ ~(i - 1 < k) /\ (i - 1) + 1 = i
      BY <1>3, <2>2
    <3>2. stubs'[l][i - 1] = stubs[l][(i - 1) + 1] /\ i - 1 \in DOMAIN stubs'[l]
      BY <1>3, <3>1
    <3>3. QED
      BY <3>1, <3>2
  <2>3. QED
    BY <1>3, <2>1, <2>2
<1>6. \A j \in DOMAIN stubs'[l] : \E i \in DOMAIN stubs[l] : i # k /\ stubs'[l][j] = stubs[l][i]
  <2> SUFFICES ASSUME NEW j \in 1..(Len(stubs[l]) - 1)
               PROVE  \E i \in 1..Len(stubs[l]) : i # k /\ stubs'[l][j] = stubs[l][i]
    BY <1>3
  <2>1. CASE j < k
    <3>1. j \in 1..Len(stubs[l]) /\ j # k
      BY <1>3, <2>1
    <3>2. stubs'[l][j] = stubs[l][j]
      BY <1>3, <2>1
    <3>3. QED
      BY <3>1, <3>2
  <2>2. CASE ~(j < k)
    <3>1. j + 1 \in 1..Len(stubs[l]) /\ j + 1 # k
      BY <1>3, <2>2
    <3>2. QED
      BY <1>3, <2>2, <3>1
  <2>3. QED
    BY <2>1, <2>2
<1>7. Held(l, a)
  BY <1>1 DEF Held
<1>8. \A i \in DOMAIN stubs[l] : i # k => stubs[l][i].addr # a
  BY <1>1 DEF StubIInv, UniquePerList
<1>9. \A m \in List, b \in Address : Held(m, b)' <=> Held(m, b) /\ ~(m = l /\ b = a)
  <2> SUFFICES ASSUME NEW m \in List, NEW b \in Address
               PROVE  Held(m, b)' <=> Held(m, b) /\ ~(m = l /\ b = a)
    OBVIOUS
  <2>1. CASE m # l
    BY <1>2, <2>1 DEF Held
  <2>2. CASE m = l
    <3>1. ASSUME Held(l, b), b # a PROVE Held(l, b)'
      BY <1>1, <1>5, <3>1 DEF Held
    <3>2. ASSUME Held(l, b)' PROVE Held(l, b) /\ b # a
      BY <1>6, <1>8, <3>2 DEF Held
    <3>3. QED
      BY <2>2, <3>1, <3>2
  <2>3. QED
    BY <2>1, <2>2
<1>10. <<l, a>> \in Holders(f) /\ Holders(f)' = Holders(f) \ {<<l, a>>}
  BY <1>7, <1>9 DEF Holders
<1>11. \A g \in Function : g # f => Holders(g)' = Holders(g)
  BY <1>9 DEF Holders
<1>12. /\ count[f] = Cardinality(Holders(f)) /\ count[f] \in Nat \ {0}
       /\ Cardinality(Holders(f)') = count[f] - 1
  <2>1. /\ IsFiniteSet(Holders(f))
        /\ Cardinality(Holders(f)) \in Nat
        /\ Cardinality(Holders(f)) # 0
    BY <1>0, <1>10, HoldersFinite
  <2>2. Cardinality(Holders(f) \ {<<l, a>>}) = Cardinality(Holders(f)) - 1
    BY <1>10, <2>1, FS_RemoveElement
  <2>3. count[f] = Cardinality(Holders(f))
    BY <1>0 DEF StubIInv, CountIsHolders
  <2>4. QED
    BY <1>10, <2>1, <2>2, <2>3
<1>13. /\ Released(f, 1, stubs[l][k].saved) \in Opcode
       /\ count[f] = 1 => Released(f, 1, stubs[l][k].saved) = Origin
  <2>1. stubs[l][k].saved \in Opcode
    BY <1>3 DEF Entry
  <2>2. f \notin Patchable => opcode[f] = Origin
    BY <1>0 DEF StubIInv, UnpatchedInv
  <2>3. QED
    BY <1>0, <1>12, <2>1, <2>2 DEF StubIInv, StubTypeOK, OriginPreserved, Released
<1>14. StubTypeOK'
  <2>1. stubs' \in [List -> Seq(Entry)]
    BY <1>1, <1>4 DEF StubIInv, StubTypeOK
  <2>2. /\ opcode' \in [Function -> Opcode]
        /\ count' \in [Function -> Nat]
        /\ origin_opcode' \in [Function -> Opcode]
        /\ temporaries' \in Seq(Temporary)
    BY <1>0, <1>1, <1>12, <1>13 DEF StubIInv, StubTypeOK
  <2>3. QED
    BY <2>1, <2>2 DEF StubTypeOK
<1>15. UniquePerList'
  <2> SUFFICES ASSUME NEW m \in List, NEW i \in DOMAIN stubs'[m], NEW j \in DOMAIN stubs'[m],
                      stubs'[m][i].addr = stubs'[m][j].addr
               PROVE  i = j
    BY DEF UniquePerList
  <2>1. CASE m # l
    BY <1>2, <2>1 DEF StubIInv, UniquePerList
  <2>2. CASE m = l
    <3> DEFINE at(n) == IF n < k THEN n ELSE n + 1
    <3>1. i \in 1..(Len(stubs[l]) - 1) /\ j \in 1..(Len(stubs[l]) - 1)
      BY <1>3, <2>2
    <3>2. /\ at(i) \in DOMAIN stubs[l] /\ at(j) \in DOMAIN stubs[l]
          /\ stubs'[l][i] = stubs[l][at(i)] /\ stubs'[l][j] = stubs[l][at(j)]
      BY <1>2, <1>3, <3>1
    <3>3. at(i) = at(j)
      BY <2>2, <3>2 DEF StubIInv, UniquePerList
    <3>4. QED
      BY <1>3, <3>1, <3>3
  <2>3. QED
    BY <2>1, <2>2
<1>16. CountIsHolders'
  BY <1>0, <1>1, <1>11, <1>12 DEF StubIInv, StubTypeOK, CountIsHolders
<1>17. OriginPreserved' /\ RestoredWhenFree'
  <2>1. \A g \in Function : g # f => opcode'[g] = opcode[g] /\ count'[g] = count[g]
    BY <1>0, <1>1 DEF StubIInv, StubTypeOK
  <2>2. /\ opcode'[f] = Released(f, 1, stubs[l][k].saved)
        /\ count'[f] = count[f] - 1
    BY <1>0, <1>1 DEF StubIInv, StubTypeOK
  <2>3. OriginPreserved'
    BY <1>1, <1>12, <2>1, <2>2 DEF StubIInv, OriginPreserved
  <2>4. Holders(f)' = {} => count[f] = 1
    BY <1>12, FS_EmptySet
  <2>5. RestoredWhenFree'
    BY <1>11, <1>13, <2>1, <2>2, <2>4 DEF StubIInv, RestoredWhenFree
  <2>6. QED
    BY <2>3, <2>5
<1>18. UnpatchedInv'
  BY <1>0, <1>1 DEF StubIInv, StubTypeOK, UnpatchedInv, Released
<1>19. QED
  BY <1>14, <1>15, <1>16, <1>17, <1>18 DEF StubIInv
(* Clearing a list takes away exactly its own holders of each function. *)
LEMMA ClearAllStep ==
  ASSUME StubIInv, NEW l \in List, ClearAll(l)
  PROVE  StubIInv'
<1>1. /\ stubs \in [List -> Seq(Entry)]
      /\ stubs' = [stubs EXCEPT ![l] = <<>>]
      /\ UNCHANGED <<origin_opcode, temporaries>>
  BY DEF StubIInv, StubTypeOK, ClearAll
<1>2. \A m \in List, b \in Address : Held(m, b)' <=> Held(m, b) /\ m # l
  BY <1>1 DEF Held
<1>3. ASSUME NEW f \in Function
      PROVE  /\ Mine(l, f) \subseteq Holders(f)
             /\ Holders(f)' = Holders(f) \ Mine(l, f)
             /\ Cardinality(Mine(l, f)) \in Nat
             /\ Cardinality(Holders(f)') = count[f] - Cardinality(Mine(l, f))
             /\ count[f] - Cardinality(Mine(l, f)) \in Nat
  <2>1. Mine(l, f) \subseteq Holders(f) /\ Holders(f)' = Holders(f) \ Mine(l, f)
    BY <1>2 DEF Mine, Holders
  <2>2. IsFiniteSet(Holders(f))
    BY HoldersFinite
  <2>3. IsFiniteSet(Mine(l, f)) /\ Cardinality(Mine(l, f)) \in Nat
    BY <2>1, <2>2, FS_Subset, FS_CardinalityType
  <2>4. Holders(f) \cap Mine(l, f) = Mine(l, f)
    BY <2>1
  <2>5. /\ IsFiniteSet(Holders(f) \ Mine(l, f))
        /\ Cardinality(Holders(f) \ Mine(l, f)) = Cardinality(Holders(f)) - Cardinality(Mine(l, f))
    BY <2>2, <2>4, FS_Difference
  <2>6. Cardinality(Holders(f) \ Mine(l, f)) \in Nat
    BY <2>5, FS_CardinalityType
  <2>7. count[f] = Cardinality(Holders(f))
    BY DEF StubIInv, CountIsHolders
  <2>8. QED
    BY <2>1, <2>3, <2>5, <2>6, <2>7
<1>4. ASSUME NEW f \in Function, Mine(l, f) # {}
      PROVE  OldestSaved(l, f) \in Opcode
  <2> DEFINE at == {i \in DOMAIN stubs[l] : Follow[stubs[l][i].addr] = f}
  <2>1. at # {}
    BY <1>4 DEF Mine, Holders, Held
  <2>2. stubs[l] \in Seq(Entry)
    BY <1>1
  <2>3. at \in SUBSET Nat
    BY <2>2
  <2>4. \E i \in at : \A j \in at : i <= j
    <3> HIDE DEF at
    <3>1. QED
      BY <2>1, <2>3, FirstPosition
  <2>5. (CHOOSE i \in at : \A j \in at : i <= j) \in DOMAIN stubs[l]
    BY <2>4
  <2>6. \A i \in DOMAIN stubs[l] : stubs[l][i].saved \in Opcode
    <3>1. \A i \in DOMAIN stubs[l] : stubs[l][i] \in Entry
      BY <2>2
    <3>2. QED
      BY <3>1 DEF Entry
  <2>7. QED
    BY <2>5, <2>6 DEF OldestSaved
<1>5. ASSUME NEW f \in Function
      PROVE  /\ opcode'[f] \in Opcode
             /\ f \notin Patchable => opcode'[f] = Origin
             /\ Mine(l, f) = {} => opcode'[f] = opcode[f]
             /\ Mine(l, f) # {} /\ count[f] = Cardinality(Mine(l, f)) => opcode'[f] = Origin
  <2>1. opcode'[f] = IF Mine(l, f) = {} THEN opcode[f]
                     ELSE Released(f, Cardinality(Mine(l, f)), OldestSaved(l, f))
    BY DEF ClearAll
  <2>2. CASE Mine(l, f) = {}
    BY <2>1, <2>2 DEF StubIInv, StubTypeOK, UnpatchedInv
  <2>3. CASE Mine(l, f) # {}
    <3>1. count[f] > 0
      <4>1. Holders(f) # {}
        BY <1>3, <2>3
      <4>2. QED
        BY <4>1, HoldersFinite DEF StubIInv, CountIsHolders
    <3>2. origin_opcode[f] = Origin
      BY <3>1 DEF StubIInv, OriginPreserved
    <3>3. OldestSaved(l, f) \in Opcode
      BY <1>4, <2>3
    <3>4. opcode[f] \in Opcode /\ (f \notin Patchable => opcode[f] = Origin)
      BY DEF StubIInv, StubTypeOK, UnpatchedInv
    <3>5. QED
      BY <2>1, <2>3, <3>2, <3>3, <3>4 DEF Released, Opcode
  <2>4. QED
    BY <2>2, <2>3
<1>6. \A f \in Function : count'[f] = count[f] - Cardinality(Mine(l, f))
  BY DEF ClearAll
<1>7. StubTypeOK'
  <2>1. opcode' \in [Function -> Opcode]
    BY <1>5 DEF ClearAll
  <2>2. count' \in [Function -> Nat]
    BY <1>3 DEF ClearAll
  <2>3. stubs' \in [List -> Seq(Entry)]
    BY <1>1
  <2>4. QED
    BY <1>1, <2>1, <2>2, <2>3 DEF StubIInv, StubTypeOK
<1>8. UniquePerList'
  BY <1>1 DEF StubIInv, UniquePerList
<1>9. CountIsHolders'
  BY <1>3, <1>6 DEF CountIsHolders
<1>10. OriginPreserved'
  <2>1. \A f \in Function : count'[f] > 0 => count[f] > 0
    BY <1>3, <1>6 DEF StubIInv, StubTypeOK
  <2>2. QED
    BY <1>1, <2>1 DEF StubIInv, OriginPreserved
<1>11. RestoredWhenFree'
  <2> SUFFICES ASSUME NEW f \in Function, Holders(f)' = {}
               PROVE  opcode'[f] = Origin
    BY DEF RestoredWhenFree
  <2>1. CASE Mine(l, f) = {}
    BY <1>3, <1>5, <2>1 DEF StubIInv, RestoredWhenFree
  <2>2. CASE Mine(l, f) # {}
    <3>1. Cardinality(Holders(f)') = 0
      BY FS_EmptySet
    <3>2. /\ Cardinality(Holders(f)') = count[f] - Cardinality(Mine(l, f))
          /\ Cardinality(Mine(l, f)) \in Nat
          /\ count[f] \in Nat
      BY <1>3 DEF StubIInv, StubTypeOK
    <3>3. count[f] = Cardinality(Mine(l, f))
      BY <3>1, <3>2
    <3>4. QED
      BY <1>5, <2>2, <3>3
  <2>3. QED
    BY <2>1, <2>2
<1>12. UnpatchedInv'
  BY <1>5 DEF UnpatchedInv
<1>13. QED
  BY <1>7, <1>8, <1>9, <1>10, <1>11, <1>12 DEF StubIInv

(* A temporary names an address, so one exists. *)
LEMMA TemporaryHasAddress ==
  ASSUME temporaries \in Seq(Temporary), temporaries # <<>>
  PROVE  \E a \in Address : TRUE
<1>1. temporaries[1] \in Temporary
  OBVIOUS
<1>2. QED
  BY <1>1 DEF Temporary

(* Bytes written over a function that some stub holds disturb nothing.     *)
LEMMA WrittenOver ==
  ASSUME StubIInv, UNCHANGED <<count, origin_opcode, stubs>>, temporaries' \in Seq(Temporary),
         NEW f \in Function, NEW code \in Opcode,
         opcode' = opcode \/ (opcode' = Write(f, code) /\ count[f] > 0)
  PROVE  StubIInv'
<1>1. \A g \in Function : Holders(g)' = Holders(g)
  BY DEF Holders, Held
<1>2. count[f] > 0 => Holders(f) # {}
  BY HoldersFinite DEF StubIInv, CountIsHolders
<1>3. /\ opcode' \in [Function -> Opcode]
      /\ \A g \in Function : opcode'[g] # opcode[g] => g = f /\ count[f] > 0
  BY WriteType DEF StubIInv, StubTypeOK
<1>4. StubTypeOK'
  BY <1>3 DEF StubIInv, StubTypeOK
<1>5. UniquePerList' /\ CountIsHolders' /\ OriginPreserved'
  BY <1>1 DEF StubIInv, UniquePerList, CountIsHolders, OriginPreserved
<1>6. RestoredWhenFree'
  BY <1>1, <1>2, <1>3 DEF StubIInv, RestoredWhenFree
<1>7. UnpatchedInv'
  BY DEF StubIInv, StubTypeOK, UnpatchedInv, Write
<1>8. QED
  BY <1>4, <1>5, <1>6, <1>7 DEF StubIInv

(* Temporaries change bytes only while some stub holds the function. *)
LEMMA TemporaryStep ==
  ASSUME StubIInv,
         \/ \E a \in Address : Restore(a)
         \/ EndRestore
         \/ Abandon
  PROVE  StubIInv'
<1>1. UNCHANGED <<count, origin_opcode, stubs>>
  BY DEF Restore, EndRestore, Abandon
<1>2. PICK f \in Function, code \in Opcode :
        /\ opcode' = opcode \/ (opcode' = Write(f, code) /\ count[f] > 0)
        /\ temporaries' \in Seq(Temporary)
  <2>1. CASE \E a \in Address : Restore(a)
    <3>1. PICK a \in Address : Restore(a)
      BY <2>1
    <3> DEFINE f == Follow[a]
               t == [addr |-> a, current |-> opcode[f]]
    <3>2. f \in Function
      BY StubAssumption
    <3>3. t \in Temporary /\ origin_opcode[f] \in Opcode
      BY <3>2 DEF StubIInv, StubTypeOK, Temporary
    <3>4. temporaries' = Append(temporaries, t)
      BY <3>1 DEF Restore
    <3>5. temporaries' \in Seq(Temporary)
      BY <3>3, <3>4 DEF StubIInv, StubTypeOK
    <3>6. opcode' = opcode \/ (opcode' = Write(f, origin_opcode[f]) /\ count[f] > 0)
      BY <3>1 DEF Restore
    <3>7. QED
      BY <3>2, <3>3, <3>5, <3>6
  <2>2. CASE EndRestore
    <3> DEFINE t == temporaries[Len(temporaries)]
               f == Follow[t.addr]
    <3>1. temporaries \in Seq(Temporary) /\ temporaries # <<>>
      BY <2>2 DEF StubIInv, StubTypeOK, EndRestore
    <3>2. t \in Temporary
      BY <3>1
    <3>3. f \in Function /\ t.current \in Opcode
      BY <3>2, StubAssumption DEF Temporary
    <3>4. temporaries' \in Seq(Temporary)
      BY <2>2, <3>1 DEF EndRestore
    <3>5. opcode' = opcode \/ (opcode' = Write(f, t.current) /\ count[f] > 0)
      BY <2>2 DEF EndRestore
    <3>6. QED
      BY <3>3, <3>4, <3>5
  <2>3. CASE Abandon
    <3>1. opcode' = opcode /\ temporaries' \in Seq(Temporary)
      BY <2>3 DEF Abandon
    <3>2. PICK a \in Address : TRUE
      BY <2>3, TemporaryHasAddress DEF Abandon, StubIInv, StubTypeOK
    <3>3. Follow[a] \in Function /\ Origin \in Opcode
      BY StubAssumption DEF Opcode
    <3>4. QED
      BY <3>1, <3>3
  <2>4. QED
    BY <2>1, <2>2, <2>3
<1>3. QED
  BY <1>1, <1>2, WrittenOver

LEMMA StubNextIInv == StubIInv /\ [StubNext]_stubVars => StubIInv'
<1> SUFFICES ASSUME StubIInv, [StubNext]_stubVars PROVE StubIInv'
  OBVIOUS
<1>1. ASSUME NEW l \in List, NEW a \in Address, NEW d \in Fake, Add(l, a, d) PROVE StubIInv'
  BY <1>1, RedirectStep, PatchStep DEF Add
<1>2. ASSUME NEW l \in List, NEW a \in Address, Clear(l, a) PROVE StubIInv'
  BY <1>2, ClearStep
<1>3. ASSUME NEW l \in List, ClearAll(l) PROVE StubIInv'
  BY <1>3, ClearAllStep
<1>4. CASE (\E a \in Address : Restore(a)) \/ EndRestore \/ Abandon
  BY <1>4, TemporaryStep
<1>5. CASE UNCHANGED stubVars
  <2>1. UNCHANGED <<opcode, count, origin_opcode, stubs, temporaries>>
    BY <1>5 DEF stubVars
  <2>2. \A f \in Function : Holders(f)' = Holders(f)
    BY <2>1 DEF Holders, Held
  <2>3. StubTypeOK' /\ UniquePerList' /\ OriginPreserved' /\ UnpatchedInv'
    BY <2>1 DEF StubIInv, StubTypeOK, UniquePerList, OriginPreserved, UnpatchedInv
  <2>4. CountIsHolders' /\ RestoredWhenFree'
    BY <2>1, <2>2 DEF StubIInv, CountIsHolders, RestoredWhenFree
  <2>5. QED
    BY <2>3, <2>4 DEF StubIInv
<1>6. QED
  BY <1>1, <1>2, <1>3, <1>4, <1>5 DEF StubNext

(* The inductive invariant of the stub engine. *)
THEOREM StubInductive == StubSpec => []StubIInv
BY StubInitIInv, StubNextIInv, PTL DEF StubSpec

(* The engine's objects keep their types: no byte written by any operation *)
(* is anything but the original ones or a jump to a fake, and no reference *)
(* count goes below zero (h2_sources::del).                                *)
THEOREM StubTypeCorrect == StubSpec => []StubTypeOK
<1>1. StubIInv => StubTypeOK
  BY DEF StubIInv
<1>2. QED
  BY <1>1, StubInductive, PTL

(* h2_sources deletes a source exactly with the last stub that uses it. *)
THEOREM StubCountCorrect == StubSpec => []CountIsHolders
<1>1. StubIInv => CountIsHolders
  BY DEF StubIInv
<1>2. QED
  BY <1>1, StubInductive, PTL

(* A source never captures another owner's patch as the original bytes. *)
THEOREM StubOriginCorrect == StubSpec => []OriginPreserved
<1>1. StubIInv => OriginPreserved
  BY DEF StubIInv
<1>2. QED
  BY <1>1, StubInductive, PTL

(* A function nobody stubs any more runs its original body, whatever the   *)
(* order of the releases and whatever temporaries were skipped.            *)
THEOREM StubRestoreCorrect == StubSpec => []RestoredWhenFree
<1>1. StubIInv => RestoredWhenFree
  BY DEF StubIInv
<1>2. QED
  BY <1>1, StubInductive, PTL

(* A list never holds two stubs of an address (h2_stubs_get finds one).    *)
THEOREM StubUniqueCorrect == StubSpec => []UniquePerList
<1>1. StubIInv => UniquePerList
  BY DEF StubIInv
<1>2. QED
  BY <1>1, StubInductive, PTL

---------------------------------------------------------------------------
(* What every step knows of the state it leaves.                           *)
LEMMA Kept ==
  ASSUME StubIInv
  PROVE  /\ opcode \in [Function -> Opcode] /\ count \in [Function -> Nat]
         /\ \A f \in Function : count[f] = 0 => opcode[f] = Origin
         /\ \A f \in Function : count[f] = 0 <=> Holders(f) = {}
         /\ \A f \in Function \ Patchable : opcode[f] = Origin
<1>1. \A f \in Function : count[f] = 0 <=> Holders(f) = {}
  BY HoldersFinite DEF StubIInv, CountIsHolders
<1>2. QED
  BY <1>1 DEF StubIInv, StubTypeOK, RestoredWhenFree, UnpatchedInv

FreeRuns == \A f \in Function : count[f] = 0 => opcode[f] = Origin

LEMMA FreeAlways == StubIInv => FreeRuns
BY Kept DEF FreeRuns

LEMMA FreeNext == StubIInv' => FreeRuns'
BY FreeAlways, PTL

LEMMA AddTakes ==
  ASSUME StubIInv, NEW l \in List, NEW a \in Address, NEW d \in Fake, Add(l, a, d)
  PROVE  Table!Take(Follow[a], d)
<1> DEFINE f == Follow[a]
<1>0. f \in Function
  BY StubAssumption
<1>1. opcode' = Write(f, d)
  BY DEF Add, Redirect, Patch
<1>2. CASE Redirect(l, a, d)
  <2>1. count[f] > 0
    <3>1. <<l, a>> \in Holders(f)
      BY <1>2 DEF Redirect, Holders
    <3>2. QED
      BY <1>0, <3>1, Kept
  <2>2. count' = count
    BY <1>2 DEF Redirect
  <2>3. QED
    BY <1>1, <2>1, <2>2 DEF Table!Take, Write
<1>3. CASE Patch(l, a, d)
  BY <1>1, <1>3 DEF Table!Take, Write, Patch
<1>4. QED
  BY <1>2, <1>3 DEF Add

LEMMA ClearDrops ==
  ASSUME StubIInv, StubIInv', NEW l \in List, NEW a \in Address, Clear(l, a)
  PROVE  Table!Drop
<1> DEFINE f == Follow[a]
<1>0. f \in Function
  BY StubAssumption
<1>1. PICK k \in DOMAIN stubs[l] :
        /\ opcode' = [opcode EXCEPT ![f] = Released(f, 1, stubs[l][k].saved)]
        /\ count' = [count EXCEPT ![f] = @ - 1]
  BY DEF Clear
<1>2. /\ opcode \in [Function -> Opcode] /\ count \in [Function -> Nat]
      /\ opcode' \in [Function -> Opcode] /\ count' \in [Function -> Nat]
      /\ \A g \in Function : count'[g] = 0 => opcode'[g] = Origin
  BY FreeNext DEF FreeRuns, StubIInv, StubTypeOK
<1>3. ASSUME NEW g \in Function
      PROVE  count'[g] <= count[g] /\ (count'[g] = count[g] => opcode'[g] = opcode[g])
  <2>1. CASE g = f
    BY <1>0, <1>1, <1>2, <2>1
  <2>2. CASE g # f
    BY <1>1, <1>2, <2>2
  <2>3. QED
    BY <2>1, <2>2
<1>4. QED
  BY <1>2, <1>3 DEF Table!Drop, Table!Code, Opcode

LEMMA ClearAllDrops ==
  ASSUME StubIInv, StubIInv', NEW l \in List, ClearAll(l)
  PROVE  Table!Drop
<1>1. /\ opcode \in [Function -> Opcode] /\ count \in [Function -> Nat]
      /\ opcode' \in [Function -> Opcode] /\ count' \in [Function -> Nat]
      /\ \A g \in Function : count'[g] = 0 => opcode'[g] = Origin
  BY FreeNext DEF FreeRuns, StubIInv, StubTypeOK
<1>2. ASSUME NEW g \in Function
      PROVE  count'[g] <= count[g] /\ (count'[g] = count[g] => opcode'[g] = opcode[g])
  <2>1. IsFiniteSet(Mine(l, g))
    BY HoldersFinite, FS_Subset DEF Mine
  <2>2. Cardinality(Mine(l, g)) \in Nat /\ (Cardinality(Mine(l, g)) = 0 <=> Mine(l, g) = {})
    BY <2>1, FS_CardinalityType, FS_EmptySet
  <2>3. count'[g] = count[g] - Cardinality(Mine(l, g))
    BY DEF ClearAll
  <2>4. Mine(l, g) = {} => opcode'[g] = opcode[g]
    BY DEF ClearAll
  <2>5. QED
    BY <1>1, <2>2, <2>3, <2>4
<1>3. QED
  BY <1>1, <1>2 DEF Table!Drop, Table!Code, Opcode

LEMMA TemporaryPasses ==
  ASSUME StubIInv, StubIInv', (\E a \in Address : Restore(a)) \/ EndRestore
  PROVE  (\E f \in Function : Table!Pass(f)) \/ UNCHANGED <<count, opcode>>
<1>1. PICK f \in Function :
        /\ \/ opcode' = opcode
           \/ count[f] > 0 /\ \E code \in Opcode : opcode' = Write(f, code)
        /\ count' = count
  <2>1. CASE EndRestore
    <3> DEFINE t == temporaries[Len(temporaries)]
    <3>1. t \in Temporary
      BY <2>1 DEF StubIInv, StubTypeOK, EndRestore
    <3>2. QED
      BY <2>1, <3>1, StubAssumption DEF EndRestore, Temporary
  <2>2. ASSUME NEW a \in Address, Restore(a)
        PROVE  /\ \/ opcode' = opcode
                  \/ count[Follow[a]] > 0 /\ \E code \in Opcode : opcode' = Write(Follow[a], code)
               /\ count' = count /\ Follow[a] \in Function
    <3>1. Follow[a] \in Function
      BY StubAssumption
    <3>2. origin_opcode[Follow[a]] \in Opcode
      BY <3>1 DEF StubIInv, StubTypeOK
    <3>3. QED
      BY <2>2, <3>1, <3>2 DEF Restore
  <2>3. QED
    BY <2>1, <2>2
<1>2. opcode \in [Function -> Opcode] /\ opcode' \in [Function -> Opcode]
  BY DEF StubIInv, StubTypeOK
<1>3. CASE opcode' = opcode
  BY <1>1, <1>3
<1>4. CASE count[f] > 0 /\ \E code \in Opcode : opcode' = Write(f, code)
  <2>1. CASE f \in Patchable
    <3>1. opcode' = [opcode EXCEPT ![f] = opcode'[f]]
      BY <1>2, <1>4, <2>1 DEF Write
    <3>2. QED
      BY <1>1, <1>2, <1>4, <2>1, <3>1 DEF Table!Pass, Table!Code, Opcode
  <2>2. CASE f \notin Patchable
    BY <1>1, <1>4, <2>2 DEF Write
  <2>3. QED
    BY <2>1, <2>2
<1>5. QED
  BY <1>1, <1>3, <1>4

LEMMA StepRefines ==
  StubIInv /\ StubIInv' /\ [StubNext]_stubVars => [Table!TableNext]_<<count, opcode>>
<1> SUFFICES ASSUME StubIInv, StubIInv', [StubNext]_stubVars
             PROVE  Table!TableNext \/ UNCHANGED <<count, opcode>>
  OBVIOUS
<1>1. ASSUME NEW l \in List, NEW a \in Address, NEW d \in Fake, Add(l, a, d)
      PROVE  Table!TableNext
  <2>1. Follow[a] \in Function
    BY StubAssumption
  <2>2. QED
    BY <1>1, <2>1, AddTakes DEF Table!TableNext
<1>2. ASSUME NEW l \in List, NEW a \in Address, Clear(l, a) PROVE Table!TableNext
  BY <1>2, ClearDrops DEF Table!TableNext
<1>3. ASSUME NEW l \in List, ClearAll(l) PROVE Table!TableNext
  BY <1>3, ClearAllDrops DEF Table!TableNext
<1>4. CASE (\E a \in Address : Restore(a)) \/ EndRestore
  BY <1>4, TemporaryPasses DEF Table!TableNext
<1>5. CASE Abandon \/ UNCHANGED stubVars
  BY <1>5 DEF Abandon, stubVars
<1>6. QED
  BY <1>1, <1>2, <1>3, <1>4, <1>5 DEF StubNext

(* The stub engine implements the promise of PatchTable: every operation   *)
(* is a STUB, a release or a call to the original there, or nothing.       *)
THEOREM StubImplementsTable == StubSpec => ImplementsPatchTable
<1>1. StubInit => Table!TableInit
  BY DEF StubInit, Table!TableInit
<1>2. StubIInv /\ StubIInv' /\ [StubNext]_stubVars => [Table!TableNext]_(Table!tableVars)
  BY StepRefines DEF Table!tableVars
<1>3. QED
  BY <1>1, <1>2, StubInductive, PTL DEF StubSpec, ImplementsPatchTable, Table!TableSpec

---------------------------------------------------------------------------
(***************************************************************************)
(* Proofs about the scopes of stubs for any suites, cases, orders, rounds  *)
(* and scripts.  The scripts are those of CaseScripts, which says what TLC *)
(* shows to be needed: the cleanups, which run when the lists they use     *)
(* have been cleared for the last time, leave the function alone, and so   *)
(* does the shared code that is collected last when the global suite setup *)
(* stubs the function before every suite.                                  *)
(*                                                                         *)
(* The argument: once the cases are collected the runner's list is not     *)
(* touched before the end, so the code the function runs between two cases *)
(* is the one of the runner's stub (RunnerCode), or the original if a mock *)
(* of the runner was left by a failing assertion.  The list of the case    *)
(* being run saved the bytes the case began with; every other list holds   *)
(* at most a stub of the global suite setup, which saved that setup's own  *)
(* fake.                                                                   *)
(***************************************************************************)

Holds(l) == stubs[l] # <<>>
SavedIn(l) == stubs[l][1].saved
FakeIn(l) == stubs[l][1].dst

SetupSite == Global("GlobalSuiteSetup")

CaseScripts ==
  /\ Follow[Target] \in Patchable
  /\ \A t \in Script :
       /\ t[Global("GlobalCaseCleanup")] = "none"
       /\ t[Global("GlobalSuiteCleanup")] = "none"
       /\ t[Global("GlobalCleanup")] = "none"
       /\ t[SetupSite] # "mock"
       /\ t[SetupSite] = "stub" /\ SuiteOrder # <<>> =>
            t[<<"shared", SuiteOrder[Len(SuiteOrder)]>>] = "none"

---------------------------------------------------------------------------
(* What the operations of the engine do to the one function.               *)

(* A list holds at most one stub, for the address all scripts name. *)
OneStub ==
  \A l \in List : stubs[l] = <<>> \/ \E e \in Entry : e.addr = Target /\ stubs[l] = <<e>>

EngineInv == StubIInv /\ OneStub

Elsewhere(l) == \A m \in List \ {l} : stubs'[m] = stubs[m]

(* A STUB or MOCK: the bytes of an earlier stub of the list stay saved. *)
Stubbed(l, s) ==
  /\ Elsewhere(l)
  /\ stubs'[l] # <<>> /\ stubs'[l][1].dst = s /\ target' = s
  /\ stubs'[l][1].saved = IF Holds(l) THEN SavedIn(l) ELSE target

(* An UNSTUB or a teardown. *)
Dropped(l) ==
  /\ Elsewhere(l)
  /\ stubs'[l] = <<>>
  /\ ~Holds(l) => target' = target
  /\ Holds(l) => \/ target' = SavedIn(l)
                 \/ target' = Origin /\ \A m \in List \ {l} : ~Holds(m)

LEMMA Places ==
  /\ Follow[Target] \in Function /\ Target \in Address
  /\ Runner \in List /\ Suite \subseteq List /\ Case \subseteq List
  /\ Runner \notin Suite \cup Case
  /\ Nobody \notin List
BY StubAssumption, ScopeAssumption

(* The one stub of a list that holds. *)
LEMMA TheStub ==
  ASSUME EngineInv, NEW l \in List, Holds(l)
  PROVE  \E e \in Entry : /\ e.addr = Target /\ stubs[l] = <<e>>
                          /\ SavedIn(l) = e.saved /\ FakeIn(l) = e.dst
                          /\ DOMAIN stubs[l] = {1} /\ Len(stubs[l]) = 1
                          /\ stubs[l][1] = e
<1>1. PICK e \in Entry : e.addr = Target /\ stubs[l] = <<e>>
  BY DEF EngineInv, OneStub, Holds
<1>2. <<e>>[1] = e /\ DOMAIN <<e>> = {1} /\ Len(<<e>>) = 1
  OBVIOUS
<1>3. QED
  BY <1>1, <1>2 DEF SavedIn, FakeIn

LEMMA HeldHolds ==
  ASSUME EngineInv, NEW l \in List
  PROVE  Held(l, Target) <=> Holds(l)
<1>1. CASE Holds(l)
  BY <1>1, TheStub DEF Held
<1>2. CASE ~Holds(l)
  BY <1>2 DEF Held, Holds
<1>3. QED
  BY <1>1, <1>2

LEMMA AddEffect ==
  ASSUME EngineInv, Follow[Target] \in Patchable,
         NEW l \in List, NEW d \in Fake, Add(l, Target, d)
  PROVE  EngineInv' /\ Stubbed(l, d)
<1> DEFINE f == Follow[Target]
<1>1. StubIInv'
  BY Places, RedirectStep, PatchStep DEF Add, EngineInv
<1>2. stubs \in [List -> Seq(Entry)] /\ opcode \in [Function -> Opcode] /\ f \in Function
  BY Places DEF EngineInv, StubIInv, StubTypeOK
<1>3. target' = d
  BY <1>2 DEF Add, Redirect, Patch, Write, target
<1>4. \E e \in Entry : /\ e.addr = Target /\ e.dst = d
                       /\ e.saved = (IF Holds(l) THEN SavedIn(l) ELSE target)
                       /\ stubs' = [stubs EXCEPT ![l] = <<e>>]
  <2>1. CASE Redirect(l, Target, d)
    <3>1. Holds(l)
      BY <2>1, HeldHolds DEF Redirect
    <3>2. PICK o \in Entry : /\ o.addr = Target /\ stubs[l] = <<o>> /\ SavedIn(l) = o.saved
                             /\ DOMAIN stubs[l] = {1} /\ stubs[l][1] = o
      BY <3>1, TheStub
    <3> DEFINE e == [o EXCEPT !.dst = d]
    <3>3. e \in Entry /\ e.addr = Target /\ e.dst = d /\ e.saved = o.saved
      BY <3>2 DEF Entry
    <3>4. [i \in DOMAIN stubs[l] |-> IF stubs[l][i].addr = Target THEN [stubs[l][i] EXCEPT !.dst = d]
                                                                  ELSE stubs[l][i]]
          = [i \in {1} |-> e]
      BY <3>2
    <3>5. [i \in {1} |-> e] = <<e>>
      OBVIOUS
    <3>6. stubs' = [stubs EXCEPT ![l] = <<e>>]
      BY <2>1, <3>4, <3>5 DEF Redirect
    <3>7. QED
      BY <3>1, <3>2, <3>3, <3>6
  <2>2. CASE Patch(l, Target, d)
    <3>1. ~Holds(l)
      BY <2>2, HeldHolds DEF Patch
    <3> DEFINE e == [addr |-> Target, saved |-> opcode[f], dst |-> d]
    <3>2. e \in Entry /\ e.addr = Target /\ e.dst = d /\ e.saved = target
      BY <1>2, Places DEF Entry, target
    <3>3. stubs' = [stubs EXCEPT ![l] = Append(stubs[l], e)]
      BY <1>2, <2>2 DEF Patch
    <3>4. stubs[l] = <<>> /\ Append(<<>>, e) = <<e>>
      BY <3>1 DEF Holds
    <3>5. QED
      BY <3>1, <3>2, <3>3, <3>4
  <2>3. QED
    BY <2>1, <2>2 DEF Add
<1>5. PICK e \in Entry : /\ e.addr = Target /\ e.dst = d
                         /\ e.saved = (IF Holds(l) THEN SavedIn(l) ELSE target)
                         /\ stubs' = [stubs EXCEPT ![l] = <<e>>]
  BY <1>4
<1>6. stubs'[l] = <<e>> /\ \A m \in List \ {l} : stubs'[m] = stubs[m]
  BY <1>2, <1>5
<1>7. OneStub'
  BY <1>5, <1>6 DEF EngineInv, OneStub
<1>8. <<e>> # <<>> /\ <<e>>[1] = e
  OBVIOUS
<1>9. stubs'[l] # <<>> /\ stubs'[l][1].dst = d /\ stubs'[l][1].saved = e.saved
  BY <1>5, <1>6, <1>8
<1>10. Stubbed(l, d)
  BY <1>3, <1>5, <1>6, <1>9 DEF Stubbed, Elsewhere
<1>11. QED
  BY <1>1, <1>7, <1>10 DEF EngineInv

(* When the reference count is zero no list holds the function.            *)
CountedOut == count[Follow[Target]] = 0 => \A m \in List : ~Holds(m)

LEMMA NoneHolds == EngineInv => CountedOut
<1> SUFFICES ASSUME EngineInv, count[Follow[Target]] = 0, NEW m \in List
             PROVE  ~Holds(m)
  BY DEF CountedOut
<1>1. Holders(Follow[Target]) = {}
  BY Places, Kept DEF EngineInv
<1>2. Held(m, Target) => <<m, Target>> \in Holders(Follow[Target])
  BY Places DEF Holders
<1>3. QED
  BY <1>1, <1>2, HeldHolds

LEMMA NoneHoldsNext == EngineInv' => CountedOut'
BY NoneHolds, PTL

LEMMA ClearEffect ==
  ASSUME EngineInv, Follow[Target] \in Patchable, NEW l \in List, Clear(l, Target)
  PROVE  EngineInv' /\ Dropped(l)
<1> DEFINE f == Follow[Target]
<1>1. StubIInv'
  BY Places, ClearStep DEF EngineInv
<1>2. /\ stubs \in [List -> Seq(Entry)] /\ opcode \in [Function -> Opcode] /\ f \in Function
      /\ count \in [Function -> Nat]
  BY Places DEF EngineInv, StubIInv, StubTypeOK
<1>3. PICK k \in DOMAIN stubs[l] :
        /\ stubs' = [stubs EXCEPT ![l] =
              [i \in 1..(Len(@) - 1) |-> IF i < k THEN @[i] ELSE @[i + 1]]]
        /\ opcode' = [opcode EXCEPT ![f] = Released(f, 1, stubs[l][k].saved)]
        /\ count' = [count EXCEPT ![f] = @ - 1]
  BY DEF Clear
<1>4. Holds(l)
  BY <1>3 DEF Holds
<1>5. k = 1 /\ Len(stubs[l]) = 1
  BY <1>3, <1>4, TheStub
<1>6. stubs'[l] = <<>>
  BY <1>2, <1>3, <1>5
<1>7. Elsewhere(l)
  BY <1>2, <1>3 DEF Elsewhere
<1>8. EngineInv'
  BY <1>1, <1>6, <1>7 DEF EngineInv, OneStub, Elsewhere
<1>9. target' = Released(f, 1, SavedIn(l)) /\ count'[f] = count[f] - 1
  BY <1>2, <1>3, <1>5 DEF target, SavedIn
<1>10. target' = SavedIn(l) \/ (target' = Origin /\ \A m \in List \ {l} : ~Holds(m))
  <2>1. count[f] # 0
    BY <1>4, NoneHolds DEF CountedOut
  <2>2. CASE count[f] = 1
    <3>1. target' = Origin
      BY <1>2, <1>9, <2>1, <2>2 DEF Released, EngineInv, StubIInv, OriginPreserved
    <3>2. count'[f] = 0
      BY <1>9, <2>2
    <3>3. \A m \in List : ~Holds(m)'
      BY <1>8, <3>2, NoneHoldsNext DEF CountedOut
    <3>4. QED
      BY <1>7, <3>1, <3>3 DEF Elsewhere, Holds
  <2>3. CASE count[f] # 1
    BY <1>9, <2>3 DEF Released
  <2>4. QED
    BY <2>2, <2>3
<1>11. Dropped(l)
  BY <1>4, <1>6, <1>7, <1>10 DEF Dropped, Holds
<1>12. QED
  BY <1>8, <1>11

LEMMA TeardownEffect ==
  ASSUME EngineInv, Follow[Target] \in Patchable, NEW l \in List, ClearAll(l)
  PROVE  EngineInv' /\ Dropped(l)
<1> DEFINE f == Follow[Target]
           mine == Cardinality(Mine(l, f))
<1>1. StubIInv'
  BY ClearAllStep DEF EngineInv
<1>2. /\ stubs \in [List -> Seq(Entry)] /\ opcode \in [Function -> Opcode] /\ f \in Function
      /\ count \in [Function -> Nat]
  BY Places DEF EngineInv, StubIInv, StubTypeOK
<1>3. stubs'[l] = <<>> /\ Elsewhere(l)
  BY <1>2 DEF ClearAll, Elsewhere
<1>4. EngineInv'
  BY <1>1, <1>3 DEF EngineInv, OneStub, Elsewhere
<1>5. /\ Mine(l, f) = {} => target' = target
      /\ Mine(l, f) # {} => target' = Released(f, mine, OldestSaved(l, f))
      /\ count'[f] = count[f] - mine
  BY <1>2 DEF ClearAll, target
<1>6. ASSUME ~Holds(l) PROVE target' = target
  <2>1. \A b \in Address : ~Held(l, b)
    BY <1>6 DEF Holds, Held
  <2>2. Mine(l, f) = {}
    BY <2>1 DEF Mine, Holders
  <2>3. QED
    BY <1>5, <2>2
<1>7. ASSUME Holds(l)
      PROVE  target' = SavedIn(l) \/ (target' = Origin /\ \A m \in List \ {l} : ~Holds(m))
  <2>1. <<l, Target>> \in Mine(l, f)
    BY <1>7, HeldHolds, Places DEF Mine, Holders
  <2>2. PICK e \in Entry : /\ e.addr = Target /\ SavedIn(l) = e.saved /\ DOMAIN stubs[l] = {1}
                           /\ stubs[l][1] = e
    BY <1>7, TheStub
  <2>3. {i \in DOMAIN stubs[l] : Follow[stubs[l][i].addr] = f} = {1}
    BY <2>2
  <2>4. (CHOOSE i \in {1} : \A j \in {1} : i <= j) = 1
    OBVIOUS
  <2>5. OldestSaved(l, f) = SavedIn(l)
    BY <2>2, <2>3, <2>4 DEF OldestSaved
  <2>6. target' = Released(f, mine, SavedIn(l))
    BY <1>5, <2>1, <2>5
  <2>7. CASE count[f] = mine
    <3>1. count[f] # 0
      BY <1>7, NoneHolds DEF CountedOut
    <3>2. target' = Origin
      BY <1>2, <2>6, <2>7, <3>1 DEF Released, EngineInv, StubIInv, OriginPreserved
    <3>3. count'[f] = 0
      BY <1>2, <1>5, <2>7
    <3>4. \A m \in List : ~Holds(m)'
      BY <1>4, <3>3, NoneHoldsNext DEF CountedOut
    <3>5. QED
      BY <1>3, <3>2, <3>4 DEF Elsewhere, Holds
  <2>8. CASE count[f] # mine
    BY <2>6, <2>8 DEF Released
  <2>9. QED
    BY <2>7, <2>8
<1>8. Dropped(l)
  BY <1>3, <1>6, <1>7 DEF Dropped, Holds
<1>9. QED
  BY <1>4, <1>8

---------------------------------------------------------------------------
(* The inductive invariant.                                                *)

Collecting == {"GlobalSetup", "collect", "collect shared", "collect end"}
InCase == {"GlobalCaseSetup", "shared", "body", "calls", "post_cleanup"}
InSuite == {"GlobalSuiteSetup", "cases", "GlobalCaseCleanup", "GlobalSuiteCleanup"} \cup InCase

(* The two pointers and the iteration, where a step relies on them.        *)
PlaceInv ==
  /\ phase \in Collecting => current_suite = Nobody /\ current_case = Nobody
  /\ phase \in InSuite => current_suite \in Suite
  /\ phase \in InCase \cup {"GlobalCaseCleanup"} => current_case \in Case
  /\ phase \in {"collect", "suite"} => suite_at >= 1
  /\ phase \in {"collect shared", "collect end"} \cup InSuite => suite_at \in 1..Len(SuiteOrder)

(* Only what mocks has a mocker on a list. *)
MockerInv == \A s \in Site : mocker[s] # Nobody => script[s] = "mock"

(* What the function does between two cases. *)
RunnerCode == IF Holds(Runner) THEN FakeIn(Runner) ELSE Origin

(* A failing assertion left a mock and, with it, the original bytes.       *)
Forgotten(code, now) == code \in Site /\ script[code] = "mock" /\ now = Origin
Between(now) == now = RunnerCode \/ Forgotten(RunnerCode, now)

(* The runner's list saved the original bytes. *)
RunnerInv == Holds(Runner) => SavedIn(Runner) = Origin

(* While the cases are collected only the runner's list is used. *)
CollectInv ==
  phase \in Collecting => (\A l \in List \ {Runner} : ~Holds(l)) /\ target = RunnerCode

(* A stub of the global suite setup is what the cases find. *)
SetupInv ==
  script[SetupSite] = "stub" /\ SuiteOrder # <<>> =>
    /\ phase = "collect" /\ suite_at = Len(SuiteOrder) + 1 => RunnerCode = SetupSite
    /\ phase = "collect shared" => RunnerCode = SetupSite
    /\ phase = "collect end" /\ suite_at = Len(SuiteOrder) => RunnerCode = SetupSite
    /\ phase \notin Collecting \cup {"done"} => RunnerCode = SetupSite

(* Every list but the runner's and that of the case being run. *)
OthersInv ==
  phase \notin Collecting \cup {"done"} =>
    \A l \in List \ {Runner} :
      Holds(l) /\ (phase \in InCase => l # current_case) =>
        script[SetupSite] = "stub" /\ SavedIn(l) = SetupSite /\ SuiteOrder # <<>>

BetweenInv == phase \notin Collecting \cup InCase \cup {"done"} => Between(target)

(* The list of the case being run. *)
CaseInv ==
  phase \in InCase =>
    /\ Between(before)
    /\ Holds(current_case) => SavedIn(current_case) = before
    /\ ~Holds(current_case) =>
         target = before \/ (phase = "post_cleanup" /\ Forgotten(before, target))

EndInv == phase = "GlobalCaseCleanup" => target = before \/ Forgotten(before, target)
DoneInv == phase = "done" => target = Origin

(* The last operation of the case's own sites that have run is in force.   *)
Put(s) ==
  /\ script[s] \in {"stub", "mock"} => target = s
  /\ script[s] = "mock" => mocker[s] = current_case
SetupSiteOfCase == Global("GlobalCaseSetup")
SharedSite == <<"shared", CurrentSuite>>
BodySite == <<"body", current_case>>
SharedPut == IF script[SharedSite] = "none" THEN Put(SetupSiteOfCase) ELSE Put(SharedSite)
PutInv ==
  /\ phase = "shared" => Put(SetupSiteOfCase)
  /\ phase = "body" => SharedPut
  /\ phase = "calls" => IF script[BodySite] = "none" THEN SharedPut ELSE Put(BodySite)

ScopeInv ==
  /\ ScopeTypeOK /\ EngineInv /\ PlaceInv /\ MockerInv
  /\ RunnerInv /\ CollectInv /\ SetupInv /\ OthersInv /\ BetweenInv
  /\ CaseInv /\ EndInv /\ DoneInv /\ PutInv

LEMMA Sites ==
  /\ Fake = Site /\ Origin \notin Site
  /\ Global("GlobalSetup") \in Site /\ SetupSite \in Site /\ SetupSiteOfCase \in Site
  /\ Global("GlobalCaseCleanup") \in Site /\ Global("GlobalSuiteCleanup") \in Site
  /\ Global("GlobalCleanup") \in Site
  /\ \A t \in Suite : <<"shared", t>> \in Site
  /\ \A c \in Case : <<"body", c>> \in Site
<1>1. \A t \in Suite : <<"shared", t>> \in {"shared"} \X Suite
  OBVIOUS
<1>2. \A c \in Case : <<"body", c>> \in {"body"} \X Case
  OBVIOUS
<1>3. QED
  BY <1>1, <1>2, StubAssumption, ScopeAssumption
     DEF Site, GlobalSite, Global, SetupSite, SetupSiteOfCase

LEMMA ScopeInitInv == ScopeInit => ScopeInv
<1> SUFFICES ASSUME ScopeInit PROVE ScopeInv
  OBVIOUS
<1>1. \A l \in List : stubs[l] = <<>>
  BY DEF ScopeInit, StubInit
<1>2. EngineInv
  BY <1>1, StubInitIInv DEF ScopeInit, EngineInv, OneStub
<1>3. target = Origin /\ \A l \in List : ~Holds(l)
  BY <1>1, Places DEF ScopeInit, StubInit, target, Holds
<1>4. ScopeTypeOK
  <2>1. Len(SuiteOrder) \in Nat
    BY ScopeAssumption
  <2>2. left \in Seq(Case)
    BY DEF ScopeInit
  <2>3. suite_at \in 0..(Len(SuiteOrder) + 1) /\ round \in 0..Rounds
    BY <2>1, ScopeAssumption DEF ScopeInit
  <2>4. QED
    BY <1>2, <2>2, <2>3 DEF ScopeInit, ScopeTypeOK, EngineInv, StubIInv, Phase, Opcode
<1>5. PlaceInv /\ MockerInv
  BY Sites DEF ScopeInit, PlaceInv, MockerInv, Collecting, InCase, InSuite
<1>6. RunnerCode = Origin
  BY <1>3, Places DEF RunnerCode
<1>7. RunnerInv /\ CollectInv /\ SetupInv /\ OthersInv /\ BetweenInv
  BY <1>3, <1>6, Places
     DEF ScopeInit, RunnerInv, CollectInv, SetupInv, OthersInv, BetweenInv, Collecting
<1>8. CaseInv /\ EndInv /\ DoneInv /\ PutInv
  BY DEF ScopeInit, CaseInv, EndInv, DoneInv, PutInv, InCase
<1>9. QED
  BY <1>2, <1>4, <1>5, <1>7, <1>8 DEF ScopeInv

---------------------------------------------------------------------------
(* User code: nothing, a stub on the scope's list, or a stub less there.   *)
Effect(s) ==
  \/ script[s] = "none" /\ UNCHANGED <<stubs, opcode, mocker>>
  \/ script[s] = "stub" /\ Stubbed(Scope, s) /\ UNCHANGED mocker
  \/ script[s] = "mock" /\ Stubbed(Scope, s) /\ mocker' = [mocker EXCEPT ![s] = Scope]
  \/ script[s] = "unstub" /\ Dropped(Scope) /\ UNCHANGED mocker

LEMMA EngineSame ==
  ASSUME EngineInv, UNCHANGED stubVars PROVE EngineInv'
<1>1. StubIInv'
  BY StubNextIInv DEF EngineInv
<1>2. OneStub'
  BY DEF EngineInv, OneStub, stubVars
<1>3. QED
  BY <1>1, <1>2 DEF EngineInv

LEMMA DoEffect ==
  ASSUME EngineInv, CaseScripts, Scope \in List, NEW s \in Site, Do(s)
  PROVE  EngineInv' /\ Effect(s)
<1>0. s \in Fake /\ Follow[Target] \in Patchable
  BY Sites DEF CaseScripts
<1> PICK l \in List : l = Scope
  OBVIOUS
<1>1. CASE script[s] = "none" /\ UNCHANGED <<stubVars, mocker>>
  BY <1>1, EngineSame DEF Effect, stubVars
<1>2. CASE script[s] = "stub" /\ Add(l, Target, s) /\ UNCHANGED mocker
  BY <1>0, <1>2, AddEffect DEF Effect
<1>3. CASE script[s] = "mock" /\ Add(l, Target, s) /\ mocker' = [mocker EXCEPT ![s] = Scope]
  BY <1>0, <1>3, AddEffect DEF Effect
<1>4. CASE script[s] = "unstub" /\ Clear(l, Target) /\ UNCHANGED mocker
  BY <1>0, <1>4, ClearEffect DEF Effect
<1>5. CASE script[s] = "unstub" /\ ~Held(l, Target) /\ UNCHANGED <<stubVars, mocker>>
  <2>1. ~Holds(l)
    BY <1>5, HeldHolds
  <2>2. stubs' = stubs /\ target' = target
    BY <1>5 DEF stubVars, target
  <2>3. Dropped(l)
    BY <2>1, <2>2 DEF Dropped, Elsewhere, Holds
  <2>4. QED
    BY <1>5, <2>3, EngineSame DEF Effect
<1>6. QED
  BY <1>1, <1>2, <1>3, <1>4, <1>5 DEF Do

LEMMA Types ==
  ASSUME ScopeInv
  PROVE  /\ script \in [Site -> Operation] /\ Len(SuiteOrder) \in Nat
         /\ mocker \in [Site -> List \cup {Nobody}]
         /\ suite_at \in Nat /\ suite_at <= Len(SuiteOrder) + 1
         /\ suite_at \in 0..(Len(SuiteOrder) + 1)
         /\ \A n \in 1..Len(SuiteOrder) : SuiteOrder[n] \in Suite
         /\ target \in Opcode /\ RunnerCode \in Opcode /\ Origin \notin Site
         /\ CaseScripts => /\ script[Global("GlobalCaseCleanup")] = "none"
                           /\ script[Global("GlobalSuiteCleanup")] = "none"
                           /\ script[Global("GlobalCleanup")] = "none"
                           /\ script[SetupSite] # "mock"
                           /\ script[SetupSite] = "stub" /\ SuiteOrder # <<>> =>
                                script[<<"shared", SuiteOrder[Len(SuiteOrder)]>>] = "none"
<1>1. script \in [Site -> Operation]
  BY ScopeAssumption DEF ScopeInv, ScopeTypeOK
<1>2. /\ Len(SuiteOrder) \in Nat /\ \A n \in 1..Len(SuiteOrder) : SuiteOrder[n] \in Suite
      /\ suite_at \in Nat /\ suite_at <= Len(SuiteOrder) + 1
  BY ScopeAssumption DEF ScopeInv, ScopeTypeOK
<1>3. target \in Opcode
  BY Places DEF ScopeInv, ScopeTypeOK, StubTypeOK, target
<1>4. RunnerCode \in Opcode
  <2>1. CASE Holds(Runner)
    <3>1. PICK e \in Entry : FakeIn(Runner) = e.dst
      BY <2>1, TheStub, Places DEF ScopeInv
    <3>2. QED
      BY <2>1, <3>1 DEF RunnerCode, Entry, Opcode
  <2>2. CASE ~Holds(Runner)
    BY <2>2 DEF RunnerCode, Opcode
  <2>3. QED
    BY <2>1, <2>2
<1>5. script \in Script /\ mocker \in [Site -> List \cup {Nobody}]
  BY DEF ScopeInv, ScopeTypeOK
<1>6. QED
  BY <1>1, <1>2, <1>3, <1>4, <1>5, Sites DEF CaseScripts

(* What is left of the cases once one of them is taken out.                *)
LEMMA WithoutType ==
  ASSUME left \in Seq(Case), NEW i \in DOMAIN left
  PROVE  left[i] \in Case /\ Without(left, i) \in Seq(Case)
<1>1. Len(left) \in Nat \ {0} /\ i \in 1..Len(left)
  OBVIOUS
<1>2. \A j \in 1..(Len(left) - 1) : /\ j \in 1..Len(left) /\ j + 1 \in 1..Len(left)
                                   /\ left[j] \in Case /\ left[j + 1] \in Case
  BY <1>1
<1>3. Without(left, i) \in [1..(Len(left) - 1) -> Case]
  BY <1>2 DEF Without
<1>4. QED
  BY <1>1, <1>3, SeqDef

(* A step of user code keeps the mockers on lists of scopes that mock.     *)
LEMMA EffectMocker ==
  ASSUME ScopeInv, Scope \in List, NEW s \in Site, Effect(s), script' = script
  PROVE  mocker' \in [Site -> List \cup {Nobody}] /\ MockerInv'
BY Types DEF Effect, MockerInv, ScopeInv

(* User code while the cases are collected works on the runner's list.     *)
LEMMA CollectWork ==
  ASSUME ScopeInv, CaseScripts, phase \in Collecting, NEW s \in Site, Do(s), script' = script
  PROVE  /\ EngineInv' /\ RunnerInv'
         /\ mocker' \in [Site -> List \cup {Nobody}] /\ MockerInv'
         /\ (\A l \in List \ {Runner} : ~Holds(l))' /\ (target = RunnerCode)'
         /\ script[s] = "none" => RunnerCode' = RunnerCode
         /\ script[s] = "stub" => RunnerCode' = s
<1>1. Scope = Runner
  BY DEF Scope, ScopeInv, PlaceInv
<1>2. EngineInv' /\ Effect(s)
  BY <1>1, Places, DoEffect DEF ScopeInv
<1>3. mocker' \in [Site -> List \cup {Nobody}] /\ MockerInv'
  BY <1>1, <1>2, Places, EffectMocker
<1>4. /\ \A l \in List \ {Runner} : stubs[l] = <<>>
      /\ target = RunnerCode
      /\ Holds(Runner) => SavedIn(Runner) = Origin
      /\ ~Holds(Runner) => target = Origin
  BY DEF ScopeInv, CollectInv, RunnerInv, Holds, RunnerCode
<1>5. CASE script[s] = "none" /\ UNCHANGED <<stubs, opcode>>
  BY <1>2, <1>3, <1>4, <1>5 DEF RunnerInv, Holds, RunnerCode, FakeIn, SavedIn, target
<1>6. CASE script[s] \in {"stub", "mock"} /\ Stubbed(Runner, s)
  <2>1. \A l \in List \ {Runner} : stubs'[l] = <<>>
    BY <1>4, <1>6 DEF Stubbed, Elsewhere
  <2>2. /\ stubs'[Runner] # <<>> /\ stubs'[Runner][1].dst = s /\ target' = s
        /\ stubs'[Runner][1].saved = Origin
    BY <1>4, <1>6 DEF Stubbed
  <2>3. QED
    BY <1>2, <1>3, <1>6, <2>1, <2>2 DEF RunnerInv, Holds, RunnerCode, FakeIn, SavedIn
<1>7. CASE script[s] = "unstub" /\ Dropped(Runner)
  <2>1. \A l \in List \ {Runner} : stubs'[l] = <<>>
    BY <1>4, <1>7 DEF Dropped, Elsewhere
  <2>2. stubs'[Runner] = <<>> /\ target' = Origin
    BY <1>4, <1>7 DEF Dropped
  <2>3. QED
    BY <1>2, <1>3, <1>7, <2>1, <2>2 DEF RunnerInv, Holds, RunnerCode
<1>8. QED
  BY <1>1, <1>2, <1>5, <1>6, <1>7 DEF Effect

(* A step that leaves the stubs alone leaves what they are known by.       *)
LEMMA SameStubs ==
  ASSUME stubs' = stubs, opcode' = opcode
  PROVE  /\ target' = target /\ RunnerCode' = RunnerCode
         /\ \A l \in List : (stubs'[l] # <<>> <=> Holds(l)) /\ stubs'[l][1].saved = SavedIn(l)
BY DEF target, RunnerCode, Holds, FakeIn, SavedIn

---------------------------------------------------------------------------
(* The steps before the rounds. *)

(* What is immediate once a step stays where the cases are collected.      *)
LEMMA StillCollecting ==
  ASSUME phase' \in Collecting
  PROVE  OthersInv' /\ BetweenInv' /\ CaseInv' /\ EndInv' /\ DoneInv' /\ PutInv'
BY DEF OthersInv, BetweenInv, CaseInv, EndInv, DoneInv, PutInv, Collecting, InCase

LEMMA CollectStep ==
  ASSUME ScopeInv, CaseScripts,
         NEW s \in Site, NEW p \in Collecting, NEW q \in Collecting,
         phase = p, phase' = q, Do(s),
         UNCHANGED <<script, left, round, current_suite, current_case, before>>,
         suite_at' \in 0..(Len(SuiteOrder) + 1),
         q = "collect" => suite_at' >= 1,
         q \in {"collect shared", "collect end"} => suite_at' \in 1..Len(SuiteOrder),
         SetupInv'
  PROVE  ScopeInv'
<1>1. /\ EngineInv' /\ RunnerInv'
      /\ mocker' \in [Site -> List \cup {Nobody}] /\ MockerInv'
      /\ (\A l \in List \ {Runner} : ~Holds(l))' /\ (target = RunnerCode)'
  BY CollectWork
<1>2. ScopeTypeOK'
  <2>1. q \in Phase
    BY DEF Collecting, Phase
  <2>2. QED
    BY <1>1, <2>1 DEF ScopeInv, ScopeTypeOK, EngineInv, StubIInv
<1>3. PlaceInv'
  BY DEF ScopeInv, PlaceInv, Collecting, InCase, InSuite
<1>4. CollectInv'
  BY <1>1 DEF CollectInv
<1>5. QED
  BY <1>1, <1>2, <1>3, <1>4, StillCollecting DEF ScopeInv

LEMMA GlobalSetupStep ==
  ASSUME ScopeInv, CaseScripts, GlobalSetup PROVE ScopeInv'
<1>1. Len(SuiteOrder) \in Nat /\ (SuiteOrder # <<>> => Len(SuiteOrder) # 0)
  BY ScopeAssumption
<1>2. SetupInv'
  BY <1>1 DEF GlobalSetup, SetupInv, Goto, Collecting
<1>3. QED
  BY <1>1, <1>2, CollectStep, Sites DEF GlobalSetup, Goto, Collecting

(* The suite of an iteration, and the one after it. *)
LEMMA Within ==
  ASSUME NEW n \in Nat, NEW i \in Nat, i >= 1, i <= n
  PROVE  i \in 1..n
OBVIOUS

LEMMA Advance ==
  ASSUME NEW n \in Nat, NEW i \in 1..n
  PROVE  i + 1 \in 0..(n + 1) /\ i + 1 >= 1 /\ (i + 1 = n + 1 => i = n)
OBVIOUS

LEMMA CollectSuiteStep ==
  ASSUME ScopeInv, CaseScripts, CollectSuite PROVE ScopeInv'
<1>0. /\ phase = "collect" /\ phase' = "collect shared" /\ Do(SetupSite)
      /\ UNCHANGED <<script, suite_at, left, round, current_suite, current_case, before>>
      /\ suite_at <= Len(SuiteOrder)
  BY DEF CollectSuite, At, Goto, runnerVars, SetupSite
<1>1. suite_at \in 1..Len(SuiteOrder)
  <2>1. suite_at >= 1 /\ suite_at \in Nat /\ Len(SuiteOrder) \in Nat
    BY <1>0, Types DEF ScopeInv, PlaceInv
  <2>2. QED
    BY <1>0, <2>1, Within
<1>2. script[SetupSite] = "stub" => RunnerCode' = SetupSite
  BY <1>0, CollectWork, Sites DEF Collecting
<1>3. SetupInv'
  BY <1>0, <1>2 DEF SetupInv, Collecting
<1>4. suite_at' \in 0..(Len(SuiteOrder) + 1) /\ suite_at' \in 1..Len(SuiteOrder)
  BY <1>0, <1>1, Types
<1>5. QED
  BY <1>0, <1>3, <1>4, CollectStep, Sites DEF Collecting

LEMMA CollectSharedStep ==
  ASSUME ScopeInv, CaseScripts, CollectShared PROVE ScopeInv'
<1>1. /\ phase = "collect shared" /\ phase' = "collect end" /\ Do(<<"shared", CurrentSuite>>)
      /\ UNCHANGED <<script, suite_at, left, round, current_suite, current_case, before>>
      /\ suite_at \in 1..Len(SuiteOrder)
  BY DEF CollectShared, At, Goto, runnerVars, ScopeInv, PlaceInv
<1>2. CurrentSuite \in Suite
  BY <1>1, Types DEF CurrentSuite
<1>3. PICK s \in Site : s = <<"shared", CurrentSuite>>
  BY <1>2, Sites
<1>4. script[s] = "none" => RunnerCode' = RunnerCode
  BY <1>1, <1>3, CollectWork DEF Collecting
<1>5. SetupInv'
  <2> SUFFICES ASSUME script[SetupSite] = "stub", SuiteOrder # <<>>, suite_at = Len(SuiteOrder)
               PROVE  RunnerCode' = SetupSite
    BY <1>1 DEF SetupInv, Collecting
  <2>1. script[s] = "none"
    BY <1>3, Types DEF CurrentSuite
  <2>2. RunnerCode = SetupSite
    BY <1>1 DEF ScopeInv, SetupInv
  <2>3. QED
    BY <1>4, <2>1, <2>2
<1>6. suite_at' \in 0..(Len(SuiteOrder) + 1) /\ suite_at' \in 1..Len(SuiteOrder)
  BY <1>1, Types
<1>7. QED
  BY <1>1, <1>3, <1>5, <1>6, CollectStep DEF Collecting

LEMMA CollectEndStep ==
  ASSUME ScopeInv, CaseScripts, CollectEnd PROVE ScopeInv'
<1> DEFINE s == Global("GlobalSuiteCleanup")
<1>1. /\ phase = "collect end" /\ phase' = "collect" /\ Do(s)
      /\ UNCHANGED <<script, left, round, current_suite, current_case, before>>
      /\ suite_at' = suite_at + 1 /\ suite_at \in 1..Len(SuiteOrder)
  BY DEF CollectEnd, Goto, ScopeInv, PlaceInv
<1>2. s \in Site /\ script[s] = "none"
  BY Sites, Types
<1> HIDE DEF s
<1>3. RunnerCode' = RunnerCode
  BY <1>1, <1>2, CollectWork DEF Collecting
<1>4. /\ suite_at' \in 0..(Len(SuiteOrder) + 1) /\ suite_at' >= 1
      /\ suite_at' = Len(SuiteOrder) + 1 => suite_at = Len(SuiteOrder)
  BY <1>1, Types, Advance
<1>5. SetupInv'
  BY <1>1, <1>3, <1>4 DEF ScopeInv, SetupInv, Collecting
<1>6. QED
  BY <1>1, <1>2, <1>4, <1>5, CollectStep DEF Collecting

LEMMA CollectedStep ==
  ASSUME ScopeInv, CaseScripts, Collected PROVE ScopeInv'
<1>1. /\ phase = "collect" /\ phase' = "round" /\ suite_at = Len(SuiteOrder) + 1
      /\ UNCHANGED <<script, suite_at, left, round, current_suite, current_case, mocker, before>>
      /\ UNCHANGED stubVars
  BY Types DEF Collected, Goto, runnerVars
<1>2. EngineInv' /\ stubs' = stubs /\ opcode' = opcode
  BY <1>1, EngineSame DEF ScopeInv, stubVars
<1>3. ScopeTypeOK'
  BY <1>1, <1>2 DEF ScopeInv, ScopeTypeOK, EngineInv, StubIInv, Phase
<1>4. PlaceInv' /\ MockerInv'
  BY <1>1 DEF ScopeInv, PlaceInv, MockerInv, Collecting, InCase, InSuite
<1>5. RunnerInv' /\ CollectInv'
  BY <1>1, <1>2 DEF ScopeInv, RunnerInv, CollectInv, Collecting, Holds, SavedIn
<1>6. RunnerCode' = RunnerCode /\ target' = target
  BY <1>2, SameStubs
<1>7. SetupInv'
  BY <1>1, <1>6 DEF ScopeInv, SetupInv, Collecting
<1>8. OthersInv'
  BY <1>1, <1>2 DEF ScopeInv, CollectInv, Collecting, OthersInv, Holds
<1>9. BetweenInv'
  BY <1>1, <1>6 DEF ScopeInv, CollectInv, Collecting, BetweenInv, Between
<1>10. CaseInv' /\ EndInv' /\ DoneInv' /\ PutInv'
  BY <1>1 DEF CaseInv, EndInv, DoneInv, PutInv, InCase
<1>11. QED
  BY <1>2, <1>3, <1>4, <1>5, <1>7, <1>8, <1>9, <1>10 DEF ScopeInv

---------------------------------------------------------------------------
(* The steps between the cases. *)

BetweenCases == Phase \ (Collecting \cup InCase \cup {"done"})

(* Where the global suite setup stubs, its fake is what the cases find.    *)
LEMMA SetupFound ==
  ASSUME ScopeInv, CaseScripts, phase \in BetweenCases,
         script[SetupSite] = "stub", SuiteOrder # <<>>
  PROVE  RunnerCode = SetupSite /\ target = SetupSite
BY DEF ScopeInv, SetupInv, BetweenInv, Between, Forgotten, BetweenCases

LEMMA QuietStep ==
  ASSUME ScopeInv, CaseScripts, EngineInv',
         UNCHANGED <<stubs, opcode, mocker, script>>,
         phase \in BetweenCases, phase' \in BetweenCases \cup {"GlobalCaseSetup"},
         phase' # "GlobalCaseCleanup",
         phase' = "GlobalCaseSetup" => before' = target,
         ScopeTypeOK', PlaceInv'
  PROVE  ScopeInv'
<1>1. /\ target' = target /\ RunnerCode' = RunnerCode
      /\ \A l \in List : stubs'[l] = stubs[l]
  BY SameStubs
<1>2. MockerInv' /\ RunnerInv'
  BY DEF ScopeInv, MockerInv, RunnerInv, Holds, SavedIn
<1>3. CollectInv' /\ EndInv' /\ DoneInv' /\ PutInv'
  BY DEF CollectInv, EndInv, DoneInv, PutInv, BetweenCases, Collecting, InCase
<1>4. SetupInv'
  BY <1>1 DEF ScopeInv, SetupInv, BetweenCases, Collecting, InCase
<1>5. OthersInv'
  BY DEF ScopeInv, OthersInv, BetweenCases, Holds, SavedIn
<1>6. BetweenInv'
  BY <1>1 DEF ScopeInv, BetweenInv, Between, Forgotten, BetweenCases
<1>7. CaseInv'
  <2> SUFFICES ASSUME phase' = "GlobalCaseSetup"
               PROVE  /\ Between(before)'
                      /\ Holds(current_case)' => (SavedIn(current_case) = before)'
                      /\ ~Holds(current_case)' => (target = before)'
    BY DEF CaseInv, BetweenCases
  <2>1. before' = target /\ target' = target
    BY <1>1
  <2>2. Between(target)
    BY DEF ScopeInv, BetweenInv, BetweenCases
  <2>3. Between(before)'
    BY <1>1, <2>1, <2>2 DEF Between, Forgotten
  <2>4. PICK c \in Case : c = current_case'
    BY DEF PlaceInv, InCase
  <2>5. c \in List \ {Runner}
    BY <2>4, Places
  <2>6. Holds(c) => SavedIn(c) = target
    BY <2>5, SetupFound DEF ScopeInv, OthersInv, BetweenCases
  <2>7. QED
    BY <2>1, <2>3, <2>4, <2>6 DEF Holds, SavedIn
<1>8. QED
  BY <1>2, <1>3, <1>4, <1>5, <1>6, <1>7 DEF ScopeInv

(* What the four quiet steps of the iteration leave alone. *)
LEMMA IterationStep ==
  ASSUME ScopeInv, CaseScripts, UNCHANGED <<stubVars, mocker, script>>,
         phase \in BetweenCases, phase' \in BetweenCases \cup {"GlobalCaseSetup"},
         phase' # "GlobalCaseCleanup",
         phase' = "GlobalCaseSetup" => before' = target,
         before' \in {before, target},
         suite_at' \in 0..(Len(SuiteOrder) + 1), left' \in Seq(Case), round' \in 0..Rounds,
         current_suite' \in Suite \cup {Nobody}, current_case' \in Case \cup {Nobody},
         PlaceInv'
  PROVE  ScopeInv'
<1>1. EngineInv' /\ UNCHANGED <<stubs, opcode>>
  BY EngineSame DEF ScopeInv, stubVars
<1>2. before' \in Opcode
  BY Types DEF ScopeInv, ScopeTypeOK
<1>3. phase' \in Phase
  BY DEF BetweenCases, Phase
<1>4. ScopeTypeOK'
  BY <1>1, <1>2, <1>3 DEF ScopeInv, ScopeTypeOK, EngineInv, StubIInv
<1>5. QED
  BY <1>1, <1>4, QuietStep

LEMMA BeginRoundStep ==
  ASSUME ScopeInv, CaseScripts, BeginRound PROVE ScopeInv'
<1>1. /\ phase = "round" /\ round < Rounds /\ round' = round + 1 /\ suite_at' = 1
      /\ phase' = "suite"
      /\ UNCHANGED <<stubVars, script, left, current_suite, current_case, mocker, before>>
  BY DEF BeginRound, Goto
<1>2. round' \in 0..Rounds /\ suite_at' \in 0..(Len(SuiteOrder) + 1)
  <2>1. round \in 0..Rounds /\ Rounds \in Nat /\ Len(SuiteOrder) \in Nat
    BY Types, ScopeAssumption DEF ScopeInv, ScopeTypeOK
  <2>2. QED
    BY <1>1, <2>1
<1>3. PlaceInv'
  BY <1>1 DEF PlaceInv, Collecting, InCase, InSuite
<1>4. QED
  BY <1>1, <1>2, <1>3, IterationStep
     DEF BetweenCases, Phase, Collecting, InCase, ScopeInv, ScopeTypeOK

LEMMA BeginSuiteStep ==
  ASSUME ScopeInv, CaseScripts, BeginSuite PROVE ScopeInv'
<1>1. /\ phase = "suite" /\ suite_at <= Len(SuiteOrder) /\ phase' = "GlobalSuiteSetup"
      /\ current_suite' = CurrentSuite /\ left' = CaseOrder[CurrentSuite]
      /\ UNCHANGED <<stubVars, script, suite_at, round, current_case, mocker, before>>
  BY DEF BeginSuite, Goto
<1>2. suite_at \in 1..Len(SuiteOrder)
  <2>1. suite_at >= 1 /\ suite_at \in Nat /\ Len(SuiteOrder) \in Nat
    BY <1>1, Types DEF ScopeInv, PlaceInv
  <2>2. QED
    BY <1>1, <2>1, Within
<1>3. current_suite' \in Suite /\ left' \in Seq(Case)
  BY <1>1, <1>2, Types, ScopeAssumption DEF CurrentSuite
<1>4. PlaceInv'
  BY <1>1, <1>2, <1>3 DEF ScopeInv, PlaceInv, Collecting, InCase, InSuite
<1>5. QED
  BY <1>1, <1>3, <1>4, Types, IterationStep
     DEF BetweenCases, Phase, Collecting, InCase, ScopeInv, ScopeTypeOK

LEMMA NextCaseStep ==
  ASSUME ScopeInv, CaseScripts, NEW tested \in BOOLEAN, NextCase(tested) PROVE ScopeInv'
<1>1. PICK i \in DOMAIN left : current_case' = left[i] /\ left' = Without(left, i)
  BY DEF NextCase
<1>2. /\ phase = "cases" /\ phase' \in {"GlobalCaseSetup", "cases"} /\ before' = target
      /\ UNCHANGED <<stubVars, script, suite_at, round, current_suite, mocker>>
  BY DEF NextCase, Goto
<1>3. current_case' \in Case /\ left' \in Seq(Case)
  BY <1>1, WithoutType DEF ScopeInv, ScopeTypeOK
<1>4. PlaceInv'
  BY <1>2, <1>3 DEF ScopeInv, PlaceInv, Collecting, InCase, InSuite
<1>5. QED
  BY <1>2, <1>3, <1>4, Types, IterationStep
     DEF BetweenCases, Phase, Collecting, InCase, ScopeInv, ScopeTypeOK

LEMMA EndRoundStep ==
  ASSUME ScopeInv, CaseScripts, EndRound PROVE ScopeInv'
<1>1. /\ phase = "suite" /\ phase' = "round"
      /\ UNCHANGED <<stubVars, script, runnerVars, mocker, before>>
  BY DEF EndRound, Goto
<1>2. UNCHANGED <<suite_at, left, round, current_suite, current_case>>
  BY <1>1 DEF runnerVars
<1>3. PlaceInv'
  BY <1>1, <1>2 DEF PlaceInv, Collecting, InCase, InSuite
<1>4. QED
  BY <1>1, <1>2, <1>3, IterationStep
     DEF BetweenCases, Phase, Collecting, InCase, ScopeInv, ScopeTypeOK

(* The cleanups leave the function alone. *)
LEMMA CleanupStep ==
  ASSUME ScopeInv, CaseScripts, CaseCleanup \/ SuiteCleanup \/ GlobalCleanup
  PROVE  ScopeInv'
<1>1. ASSUME NEW s \in Site, script[s] = "none", Do(s) PROVE UNCHANGED <<stubVars, mocker>>
  BY <1>1 DEF Do
<1>2. CASE CaseCleanup
  <2>1. /\ phase = "GlobalCaseCleanup" /\ phase' = "cases"
        /\ UNCHANGED <<stubVars, mocker, script, before>>
        /\ UNCHANGED <<suite_at, left, round, current_suite, current_case>>
    BY <1>1, <1>2, Types, Sites DEF CaseCleanup, At, Goto, runnerVars
  <2>2. PlaceInv'
    BY <2>1 DEF ScopeInv, PlaceInv, Collecting, InCase, InSuite
  <2>3. QED
    BY <2>1, <2>2, IterationStep DEF BetweenCases, Phase, Collecting, InCase, ScopeInv, ScopeTypeOK
<1>3. CASE SuiteCleanup
  <2>1. /\ phase = "GlobalSuiteCleanup" /\ phase' = "suite" /\ suite_at' = suite_at + 1
        /\ UNCHANGED <<stubVars, mocker, script, before>>
        /\ UNCHANGED <<left, round, current_suite, current_case>>
    BY <1>1, <1>3, Types, Sites DEF SuiteCleanup, Goto
  <2>2. suite_at \in 1..Len(SuiteOrder)
    BY <2>1 DEF ScopeInv, PlaceInv, InSuite
  <2>3. suite_at' \in 0..(Len(SuiteOrder) + 1) /\ suite_at' >= 1
    BY <2>1, <2>2, Types, Advance
  <2>4. PlaceInv'
    BY <2>1, <2>3 DEF ScopeInv, PlaceInv, Collecting, InCase, InSuite
  <2>5. QED
    BY <2>1, <2>3, <2>4, IterationStep
       DEF BetweenCases, Phase, Collecting, InCase, ScopeInv, ScopeTypeOK
<1>4. CASE GlobalCleanup
  <2>1. /\ phase = "round" /\ phase' = "finish"
        /\ UNCHANGED <<stubVars, mocker, script, before>>
        /\ UNCHANGED <<suite_at, left, round, current_suite, current_case>>
    BY <1>1, <1>4, Types, Sites DEF GlobalCleanup, At, Goto, runnerVars
  <2>2. PlaceInv'
    BY <2>1 DEF PlaceInv, Collecting, InCase, InSuite
  <2>3. QED
    BY <2>1, <2>2, IterationStep DEF BetweenCases, Phase, Collecting, InCase, ScopeInv, ScopeTypeOK
<1>5. QED
  BY <1>2, <1>3, <1>4

(* The global suite setup: what it stubs it also stubbed when the cases    *)
(* were collected, so the function does not change.                        *)
LEMMA SuiteSetupStep ==
  ASSUME ScopeInv, CaseScripts, SuiteSetup PROVE ScopeInv'
<1>1. /\ phase = "GlobalSuiteSetup" /\ phase' = "cases" /\ Do(SetupSite)
      /\ UNCHANGED <<script, before>>
      /\ UNCHANGED <<suite_at, left, round, current_suite, current_case>>
  BY DEF SuiteSetup, At, Goto, runnerVars, SetupSite
<1>2. current_suite \in Suite /\ SuiteOrder # <<>>
  <2>1. suite_at \in 1..Len(SuiteOrder) /\ current_suite \in Suite
    BY <1>1 DEF ScopeInv, PlaceInv, InSuite
  <2>2. QED
    BY <2>1
<1>3. PICK l \in List : l = Scope /\ l # Runner
  <2>1. current_case \in Case \cup {Nobody}
    BY DEF ScopeInv, ScopeTypeOK
  <2>2. Scope \in Suite \cup Case
    BY <1>2, <2>1, Places DEF Scope
  <2>3. QED
    BY <2>2, Places
<1>4. EngineInv' /\ Effect(SetupSite)
  BY <1>1, <1>3, DoEffect, Sites DEF ScopeInv
<1>5. mocker' \in [Site -> List \cup {Nobody}] /\ MockerInv'
  BY <1>1, <1>3, <1>4, EffectMocker, Sites
<1>6. script[SetupSite] \in {"none", "stub", "unstub"}
  BY Types, Sites DEF Operation
<1>7. phase \in BetweenCases
  BY <1>1 DEF BetweenCases, Phase, Collecting, InCase
<1>8. /\ \A m \in List \ {l} : stubs'[m] = stubs[m]
      /\ target' = target
      /\ stubs'[l] # <<>> => script[SetupSite] = "stub" /\ stubs'[l][1].saved = SetupSite
  <2>1. CASE script[SetupSite] = "none" /\ UNCHANGED <<stubs, opcode>>
    BY <1>1, <1>2, <1>3, <2>1 DEF ScopeInv, OthersInv, Collecting, InCase, Holds, SavedIn, target
  <2>2. CASE script[SetupSite] = "stub" /\ Stubbed(l, SetupSite)
    <3>1. target = SetupSite
      BY <1>2, <1>7, <2>2, SetupFound
    <3>2. Holds(l) => SavedIn(l) = SetupSite
      BY <1>1, <1>3 DEF ScopeInv, OthersInv, Collecting, InCase
    <3>3. QED
      BY <2>2, <3>1, <3>2 DEF Stubbed, Elsewhere
  <2>3. CASE script[SetupSite] = "unstub" /\ Dropped(l)
    <3>1. ~Holds(l)
      BY <1>1, <1>3, <2>3 DEF ScopeInv, OthersInv, Collecting, InCase
    <3>2. QED
      BY <2>3, <3>1 DEF Dropped, Elsewhere
  <2>4. QED
    BY <1>3, <1>4, <1>6, <2>1, <2>2, <2>3 DEF Effect
<1>9. stubs'[Runner] = stubs[Runner] /\ RunnerCode' = RunnerCode
  BY <1>3, <1>8, Places DEF RunnerCode, Holds, FakeIn
<1>10. ScopeTypeOK'
  BY <1>1, <1>4, <1>5 DEF ScopeInv, ScopeTypeOK, EngineInv, StubIInv, Phase
<1>11. PlaceInv' /\ CollectInv' /\ CaseInv' /\ EndInv' /\ DoneInv' /\ PutInv'
  BY <1>1 DEF ScopeInv, PlaceInv, CollectInv, CaseInv, EndInv, DoneInv, PutInv,
              Collecting, InCase, InSuite
<1>12. RunnerInv'
  BY <1>9 DEF ScopeInv, RunnerInv, Holds, SavedIn
<1>13. SetupInv' /\ BetweenInv'
  BY <1>1, <1>8, <1>9 DEF ScopeInv, SetupInv, BetweenInv, Between, Forgotten, Collecting, InCase
<1>14. OthersInv'
  BY <1>1, <1>2, <1>8 DEF ScopeInv, OthersInv, Holds, SavedIn, Collecting, InCase
<1>15. QED
  BY <1>4, <1>5, <1>10, <1>11, <1>12, <1>13, <1>14 DEF ScopeInv

---------------------------------------------------------------------------
(* The steps of a case. *)

(* User code of a case works on the list of that case. *)
LEMMA CaseStep ==
  ASSUME ScopeInv, CaseScripts, NEW s \in Site, Do(s),
         phase \in {"GlobalCaseSetup", "shared", "body"},
         phase' \in {"shared", "body", "calls"},
         UNCHANGED <<script, before, suite_at, left, round, current_suite, current_case>>,
         PutInv'
  PROVE  ScopeInv'
<1>1. PICK l \in List : l = current_case /\ l # Runner /\ l # Nobody
  BY Places DEF ScopeInv, PlaceInv, InCase
<1>2. Scope = l
  BY <1>1 DEF Scope
<1>3. EngineInv' /\ Effect(s)
  BY <1>2, DoEffect DEF ScopeInv
<1>4. mocker' \in [Site -> List \cup {Nobody}] /\ MockerInv'
  BY <1>2, <1>3, EffectMocker
<1>5. Between(before)
  BY DEF ScopeInv, CaseInv, InCase
<1>6. /\ Holds(l) => SavedIn(l) = before
      /\ ~Holds(l) => target = before
  BY <1>1 DEF ScopeInv, CaseInv, InCase
<1>7. /\ \A m \in List \ {l} : stubs'[m] = stubs[m]
      /\ stubs'[l] # <<>> => stubs'[l][1].saved = before
      /\ stubs'[l] = <<>> => target' = before
  <2>1. CASE UNCHANGED <<stubs, opcode>>
    BY <1>6, <2>1 DEF Holds, SavedIn, target
  <2>2. CASE Stubbed(l, s)
    BY <1>6, <2>2 DEF Stubbed, Elsewhere
  <2>3. CASE Dropped(l)
    <3>1. (\A m \in List \ {l} : ~Holds(m)) => before = Origin
      BY <1>1, <1>5, Places DEF Between, Forgotten, RunnerCode
    <3>2. QED
      BY <1>6, <2>3, <3>1 DEF Dropped, Elsewhere
  <2>4. QED
    BY <1>2, <1>3, <2>1, <2>2, <2>3 DEF Effect
<1>8. stubs'[Runner] = stubs[Runner] /\ RunnerCode' = RunnerCode
  BY <1>1, <1>7, Places DEF RunnerCode, Holds, FakeIn
<1>9. ScopeTypeOK'
  BY <1>3, <1>4 DEF ScopeInv, ScopeTypeOK, EngineInv, StubIInv, Phase
<1>10. PlaceInv' /\ CollectInv' /\ BetweenInv' /\ EndInv' /\ DoneInv'
  BY DEF ScopeInv, PlaceInv, CollectInv, BetweenInv, EndInv, DoneInv, Collecting, InCase, InSuite
<1>11. RunnerInv'
  BY <1>8 DEF ScopeInv, RunnerInv, Holds, SavedIn
<1>12. SetupInv'
  BY <1>8 DEF ScopeInv, SetupInv, Collecting
<1>13. OthersInv'
  BY <1>1, <1>7 DEF ScopeInv, OthersInv, Holds, SavedIn, Collecting, InCase
<1>14. CaseInv'
  BY <1>1, <1>5, <1>7, <1>8 DEF CaseInv, Between, Forgotten, Holds, SavedIn
<1>15. QED
  BY <1>3, <1>4, <1>9, <1>10, <1>11, <1>12, <1>13, <1>14 DEF ScopeInv

(* What the user code of a site of the case leaves in force. *)
LEMMA PutStep ==
  ASSUME ScopeInv, CaseScripts, NEW s \in Site, Do(s),
         phase \in {"GlobalCaseSetup", "shared", "body"},
         UNCHANGED <<script, current_case>>
  PROVE  /\ Put(s)'
         /\ script[s] = "none" => \A t \in Site : Put(t) => Put(t)'
<1>1. PICK l \in List : l = current_case /\ l # Nobody
  BY Places DEF ScopeInv, PlaceInv, InCase
<1>2. Scope = l
  BY <1>1 DEF Scope
<1>3. Effect(s)
  BY <1>2, DoEffect DEF ScopeInv
<1>4. QED
  BY <1>1, <1>2, <1>3, Types DEF Effect, Put, Stubbed, target

LEMMA CaseSetupStep ==
  ASSUME ScopeInv, CaseScripts, CaseSetup PROVE ScopeInv'
<1>1. /\ phase = "GlobalCaseSetup" /\ phase' = "shared" /\ Do(SetupSiteOfCase)
      /\ UNCHANGED <<script, before, suite_at, left, round, current_suite, current_case>>
  BY DEF CaseSetup, At, Goto, runnerVars, SetupSiteOfCase
<1>2. Put(SetupSiteOfCase)'
  <2>1. PICK s \in Site : s = SetupSiteOfCase
    BY Sites
  <2>2. Put(s)'
    BY <1>1, <2>1, PutStep
  <2>3. QED
    BY <2>1, <2>2 DEF Put, SetupSiteOfCase, Global
<1>3. PutInv'
  BY <1>1, <1>2 DEF PutInv
<1>4. QED
  BY <1>1, <1>3, CaseStep, Sites

LEMMA SharedStep ==
  ASSUME ScopeInv, CaseScripts, Shared PROVE ScopeInv'
<1>1. /\ phase = "shared" /\ phase' = "body" /\ Do(<<"shared", CurrentSuite>>)
      /\ UNCHANGED <<script, before, suite_at, left, round, current_suite, current_case>>
  BY DEF Shared, At, Goto, runnerVars
<1>2. CurrentSuite \in Suite /\ CurrentSuite' = CurrentSuite
  <2>1. suite_at \in 1..Len(SuiteOrder)
    BY <1>1 DEF ScopeInv, PlaceInv, InSuite, InCase
  <2>2. QED
    BY <1>1, <2>1, Types DEF CurrentSuite
<1>3. PICK s \in Site : s = <<"shared", CurrentSuite>>
  BY <1>2, Sites
<1>4. PICK t \in Site : t = SetupSiteOfCase
  BY Sites
<1>5. Put(t)
  BY <1>1, <1>4 DEF ScopeInv, PutInv
<1>6. Put(s)' /\ (script[s] = "none" => Put(t)')
  BY <1>1, <1>3, <1>5, PutStep
<1>7. SharedSite' = s /\ SetupSiteOfCase' = t
  BY <1>2, <1>3, <1>4 DEF SharedSite, SetupSiteOfCase, Global
<1>8. SharedPut'
  BY <1>1, <1>6, <1>7 DEF SharedPut, Put
<1>9. PutInv'
  BY <1>1, <1>8 DEF PutInv
<1>10. QED
  BY <1>1, <1>3, <1>9, CaseStep

LEMMA BodyStep ==
  ASSUME ScopeInv, CaseScripts, Body PROVE ScopeInv'
<1>1. /\ phase = "body" /\ phase' = "calls" /\ Do(<<"body", current_case>>)
      /\ UNCHANGED <<script, before, suite_at, left, round, current_suite, current_case>>
  BY DEF Body, At, Goto, runnerVars
<1>2. /\ current_case \in Case /\ CurrentSuite \in Suite /\ CurrentSuite' = CurrentSuite
  <2>1. suite_at \in 1..Len(SuiteOrder) /\ current_case \in Case
    BY <1>1 DEF ScopeInv, PlaceInv, InSuite, InCase
  <2>2. QED
    BY <1>1, <2>1, Types DEF CurrentSuite
<1>3. PICK s \in Site : s = <<"body", current_case>>
  BY <1>2, Sites
<1>4. PICK u \in Site : u = SharedSite
  BY <1>2, Sites DEF SharedSite
<1>5. PICK t \in Site : t = SetupSiteOfCase
  BY Sites
<1>6. IF script[u] = "none" THEN Put(t) ELSE Put(u)
  BY <1>1, <1>4, <1>5 DEF ScopeInv, PutInv, SharedPut
<1>7. /\ Put(s)'
      /\ script[s] = "none" => (Put(t) => Put(t)') /\ (Put(u) => Put(u)')
  BY <1>1, <1>3, PutStep
<1>8. BodySite' = s /\ SharedSite' = u /\ SetupSiteOfCase' = t
  BY <1>1, <1>2, <1>3, <1>4, <1>5 DEF BodySite, SharedSite, SetupSiteOfCase, Global
<1>9. script' = script
  BY <1>1
<1>10. IF script[s] = "none" THEN (IF script[u] = "none" THEN Put(t)' ELSE Put(u)') ELSE Put(s)'
  BY <1>6, <1>7
<1>11. (IF script[BodySite] = "none" THEN SharedPut ELSE Put(BodySite))'
  BY <1>8, <1>9, <1>10 DEF SharedPut, Put
<1>12. PutInv'
  BY <1>1, <1>11 DEF PutInv
<1>13. QED
  BY <1>1, <1>3, <1>12, CaseStep

(* A mock left over its temporary leaves the original bytes behind.        *)
LEMMA CalledStep ==
  ASSUME ScopeInv, CaseScripts, Called PROVE ScopeInv'
<1> DEFINE f == Follow[Target]
<1>1. /\ phase = "calls" /\ phase' = "post_cleanup"
      /\ UNCHANGED <<count, origin_opcode, stubs, temporaries, script, mocker, before>>
      /\ UNCHANGED <<suite_at, left, round, current_suite, current_case>>
  BY DEF Called, Goto, runnerVars
<1>2. f \in Function /\ f \in Patchable
  BY Places DEF CaseScripts
<1>3. StubIInv /\ opcode \in [Function -> Opcode] /\ temporaries' \in Seq(Temporary)
  BY <1>1 DEF ScopeInv, EngineInv, StubIInv, StubTypeOK
<1>4. StubIInv' /\ (target' = target \/ (target' = Origin /\ Forgotten(target, target')))
  <2>1. CASE opcode' = opcode
    <3>1. StubIInv'
      BY <1>1, <1>2, <1>3, <2>1, WrittenOver DEF Opcode
    <3>2. QED
      BY <2>1, <3>1 DEF target
  <2>2. CASE target \in Site /\ mocker[target] # Nobody /\ opcode' = Write(f, origin_opcode[f])
    <3>1. count[f] > 0
      BY <1>2, <1>3, <2>2, Kept, Sites DEF target
    <3>2. origin_opcode[f] = Origin
      BY <1>2, <1>3, <3>1 DEF StubIInv, OriginPreserved
    <3>3. StubIInv'
      BY <1>1, <1>2, <1>3, <2>2, <3>1, <3>2, WrittenOver DEF Opcode
    <3>4. target' = Origin
      BY <1>2, <1>3, <2>2, <3>2 DEF Write, target
    <3>5. script[target] = "mock"
      BY <2>2 DEF ScopeInv, MockerInv
    <3>6. QED
      BY <2>2, <3>3, <3>4, <3>5 DEF Forgotten
  <2>3. Failing \subseteq Site
    BY ScopeAssumption
  <2>4. QED
    BY <2>1, <2>2, <2>3 DEF Called
<1>5. EngineInv'
  BY <1>1, <1>4 DEF ScopeInv, EngineInv, OneStub
<1>6. ScopeTypeOK'
  BY <1>1, <1>5 DEF ScopeInv, ScopeTypeOK, EngineInv, StubIInv, Phase
<1>7. PlaceInv' /\ MockerInv' /\ RunnerInv' /\ CollectInv' /\ OthersInv'
  BY <1>1 DEF ScopeInv, PlaceInv, MockerInv, RunnerInv, CollectInv, OthersInv,
              Holds, SavedIn, Collecting, InCase, InSuite
<1>8. RunnerCode' = RunnerCode
  BY <1>1 DEF RunnerCode, Holds, FakeIn
<1>9. SetupInv' /\ BetweenInv' /\ EndInv' /\ DoneInv' /\ PutInv'
  BY <1>1, <1>8 DEF ScopeInv, SetupInv, BetweenInv, EndInv, DoneInv, PutInv, Collecting, InCase
<1>10. CaseInv'
  <2>1. /\ Between(before) /\ (Holds(current_case) => SavedIn(current_case) = before)
        /\ ~Holds(current_case) => target = before
    BY <1>1 DEF ScopeInv, CaseInv, InCase
  <2>2. Between(before)'
    BY <1>1, <1>8, <2>1 DEF Between, Forgotten
  <2>3. ~Holds(current_case) => target' = before \/ Forgotten(before, target')
    BY <1>4, <2>1
  <2>4. QED
    BY <1>1, <2>1, <2>2, <2>3 DEF CaseInv, Holds, SavedIn, Forgotten
<1>11. QED
  BY <1>5, <1>6, <1>7, <1>9, <1>10 DEF ScopeInv

(* A teardown takes no mocker anywhere. *)
LEMMA TeardownMocker ==
  ASSUME ScopeInv, NEW l \in List, Teardown(l), script' = script
  PROVE  mocker' \in [Site -> List \cup {Nobody}] /\ MockerInv'
BY Types DEF Teardown, MockerInv, ScopeInv

(* The end of a case: its list goes, with what its code did. *)
LEMMA PostCleanupStep ==
  ASSUME ScopeInv, CaseScripts, PostCleanup PROVE ScopeInv'
<1>1. /\ phase = "post_cleanup" /\ phase' = "GlobalCaseCleanup"
      /\ UNCHANGED <<script, before, suite_at, left, round, current_suite, current_case>>
  BY DEF PostCleanup, Goto, runnerVars
<1>2. PICK l \in List : l = current_case /\ l # Runner
  BY <1>1, Places DEF ScopeInv, PlaceInv, InCase
<1>3. Teardown(l)
  BY <1>2 DEF PostCleanup
<1>4. EngineInv' /\ Dropped(l)
  BY <1>3, TeardownEffect DEF Teardown, ScopeInv, CaseScripts
<1>5. mocker' \in [Site -> List \cup {Nobody}] /\ MockerInv'
  BY <1>1, <1>3, TeardownMocker
<1>6. /\ Between(before) /\ (Holds(l) => SavedIn(l) = before)
      /\ ~Holds(l) => target = before \/ Forgotten(before, target)
  BY <1>1, <1>2 DEF ScopeInv, CaseInv, InCase
<1>7. /\ \A m \in List \ {l} : stubs'[m] = stubs[m]
      /\ stubs'[l] = <<>>
      /\ target' = before \/ Forgotten(before, target')
  <2>1. (\A m \in List \ {l} : ~Holds(m)) => before = Origin
    BY <1>2, <1>6, Places DEF Between, Forgotten, RunnerCode
  <2>2. QED
    BY <1>4, <1>6, <2>1 DEF Dropped, Elsewhere
<1>8. stubs'[Runner] = stubs[Runner] /\ RunnerCode' = RunnerCode
  BY <1>2, <1>7, Places DEF RunnerCode, Holds, FakeIn
<1>9. ScopeTypeOK'
  BY <1>1, <1>4, <1>5 DEF ScopeInv, ScopeTypeOK, EngineInv, StubIInv, Phase
<1>10. PlaceInv' /\ CollectInv' /\ CaseInv' /\ DoneInv' /\ PutInv'
  BY <1>1 DEF ScopeInv, PlaceInv, CollectInv, CaseInv, DoneInv, PutInv, Collecting, InCase, InSuite
<1>11. RunnerInv' /\ SetupInv'
  BY <1>1, <1>8 DEF ScopeInv, RunnerInv, SetupInv, Holds, SavedIn, Collecting
<1>12. OthersInv'
  BY <1>1, <1>2, <1>7 DEF ScopeInv, OthersInv, Holds, SavedIn, Collecting, InCase
<1>13. EndInv'
  BY <1>1, <1>7 DEF EndInv, Forgotten
<1>14. BetweenInv'
  <2>1. Between(target')
    BY <1>6, <1>7, Sites DEF Between, Forgotten
  <2>2. QED
    BY <1>1, <1>8, <2>1 DEF BetweenInv, Between, Forgotten
<1>15. QED
  BY <1>4, <1>5, <1>9, <1>10, <1>11, <1>12, <1>13, <1>14 DEF ScopeInv

(* The end of a suite: its list can hold the global suite setup's stub.    *)
LEMMA EndSuiteStep ==
  ASSUME ScopeInv, CaseScripts, EndSuite PROVE ScopeInv'
<1>1. /\ phase = "cases" /\ phase' = "GlobalSuiteCleanup"
      /\ UNCHANGED <<script, before, suite_at, left, round, current_suite, current_case>>
  BY DEF EndSuite, Goto, runnerVars
<1>2. PICK l \in List : l = current_suite /\ l # Runner
  BY <1>1, Places DEF ScopeInv, PlaceInv, InSuite
<1>3. Teardown(l)
  BY <1>2 DEF EndSuite
<1>4. EngineInv' /\ Dropped(l)
  BY <1>3, TeardownEffect DEF Teardown, ScopeInv, CaseScripts
<1>5. mocker' \in [Site -> List \cup {Nobody}] /\ MockerInv'
  BY <1>1, <1>3, TeardownMocker
<1>6. /\ \A m \in List \ {l} : stubs'[m] = stubs[m]
      /\ stubs'[l] = <<>>
      /\ target' = target
  <2>1. CASE Holds(l)
    <3>1. /\ script[SetupSite] = "stub" /\ SavedIn(l) = SetupSite /\ SuiteOrder # <<>>
      BY <1>1, <1>2, <2>1 DEF ScopeInv, OthersInv, Collecting, InCase
    <3>2. RunnerCode = SetupSite /\ target = SetupSite
      BY <1>1, <3>1, SetupFound DEF BetweenCases, Phase, Collecting, InCase
    <3>3. Holds(Runner)
      BY <3>2, Sites DEF RunnerCode
    <3>4. QED
      BY <1>2, <1>4, <2>1, <3>1, <3>2, <3>3, Places DEF Dropped, Elsewhere
  <2>2. CASE ~Holds(l)
    BY <1>4, <2>2 DEF Dropped, Elsewhere
  <2>3. QED
    BY <2>1, <2>2
<1>7. stubs'[Runner] = stubs[Runner] /\ RunnerCode' = RunnerCode
  BY <1>2, <1>6, Places DEF RunnerCode, Holds, FakeIn
<1>8. ScopeTypeOK'
  BY <1>1, <1>4, <1>5 DEF ScopeInv, ScopeTypeOK, EngineInv, StubIInv, Phase
<1>9. PlaceInv' /\ CollectInv' /\ CaseInv' /\ EndInv' /\ DoneInv' /\ PutInv'
  BY <1>1 DEF ScopeInv, PlaceInv, CollectInv, CaseInv, EndInv, DoneInv, PutInv,
              Collecting, InCase, InSuite
<1>10. RunnerInv' /\ SetupInv'
  BY <1>1, <1>7 DEF ScopeInv, RunnerInv, SetupInv, Holds, SavedIn, Collecting
<1>11. OthersInv'
  BY <1>1, <1>2, <1>6 DEF ScopeInv, OthersInv, Holds, SavedIn, Collecting, InCase
<1>12. BetweenInv'
  BY <1>1, <1>6, <1>7 DEF ScopeInv, BetweenInv, Between, Forgotten, Collecting, InCase
<1>13. QED
  BY <1>4, <1>5, <1>8, <1>9, <1>10, <1>11, <1>12 DEF ScopeInv

(* The end: the runner's list saved the original bytes. *)
LEMMA FinishStep ==
  ASSUME ScopeInv, CaseScripts, Finish PROVE ScopeInv'
<1>1. /\ phase = "finish" /\ phase' = "done" /\ Teardown(Runner)
      /\ UNCHANGED <<script, before, suite_at, left, round, current_suite, current_case>>
  BY DEF Finish, Goto, runnerVars
<1>2. EngineInv' /\ Dropped(Runner)
  BY <1>1, TeardownEffect, Places DEF Teardown, ScopeInv, CaseScripts
<1>3. mocker' \in [Site -> List \cup {Nobody}] /\ MockerInv'
  BY <1>1, TeardownMocker, Places
<1>4. Between(target) /\ (Holds(Runner) => SavedIn(Runner) = Origin)
  BY <1>1 DEF ScopeInv, BetweenInv, RunnerInv, Collecting, InCase
<1>5. target' = Origin /\ stubs'[Runner] = <<>>
  BY <1>2, <1>4 DEF Dropped, Between, Forgotten, RunnerCode
<1>6. ScopeTypeOK'
  BY <1>1, <1>2, <1>3 DEF ScopeInv, ScopeTypeOK, EngineInv, StubIInv, Phase
<1>7. /\ PlaceInv' /\ CollectInv' /\ SetupInv' /\ OthersInv' /\ BetweenInv'
      /\ CaseInv' /\ EndInv' /\ PutInv'
  BY <1>1 DEF PlaceInv, CollectInv, SetupInv, OthersInv, BetweenInv, CaseInv, EndInv, PutInv,
              Collecting, InCase, InSuite
<1>8. RunnerInv' /\ DoneInv'
  BY <1>5 DEF RunnerInv, DoneInv, Holds
<1>9. QED
  BY <1>2, <1>3, <1>6, <1>7, <1>8 DEF ScopeInv

LEMMA ScopeStutters ==
  ASSUME ScopeInv, UNCHANGED scopeVars PROVE ScopeInv'
<1>1. /\ UNCHANGED <<opcode, count, origin_opcode, stubs, temporaries>>
      /\ UNCHANGED <<script, phase, mocker, before>>
      /\ UNCHANGED <<suite_at, left, round, current_suite, current_case>>
  BY DEF scopeVars, stubVars, runnerVars
<1>2. EngineInv'
  BY <1>1, EngineSame DEF ScopeInv, stubVars
<1>3. target' = target /\ RunnerCode' = RunnerCode
  BY <1>1, SameStubs
<1>4. ScopeTypeOK' /\ PlaceInv' /\ MockerInv' /\ RunnerInv' /\ CollectInv'
  BY <1>1, <1>2, <1>3 DEF ScopeInv, ScopeTypeOK, EngineInv, StubIInv, PlaceInv, MockerInv,
                          RunnerInv, CollectInv, Holds, SavedIn
<1>5. SetupInv' /\ OthersInv' /\ BetweenInv' /\ CaseInv' /\ EndInv' /\ DoneInv'
  BY <1>1, <1>3 DEF ScopeInv, SetupInv, OthersInv, BetweenInv, CaseInv, EndInv, DoneInv,
                    Between, Forgotten, Holds, SavedIn
<1>6. PutInv'
  BY <1>1, <1>3 DEF ScopeInv, PutInv, SharedPut, Put, SharedSite, BodySite, CurrentSuite
<1>7. QED
  BY <1>2, <1>4, <1>5, <1>6 DEF ScopeInv

LEMMA ScopeNextInv == ScopeInv /\ CaseScripts /\ [ScopeNext]_scopeVars => ScopeInv'
<1> SUFFICES ASSUME ScopeInv, CaseScripts, [ScopeNext]_scopeVars PROVE ScopeInv'
  OBVIOUS
<1>1. ASSUME GlobalSetup \/ CollectSuite \/ CollectShared \/ CollectEnd \/ Collected
      PROVE  ScopeInv'
  BY <1>1, GlobalSetupStep, CollectSuiteStep, CollectSharedStep, CollectEndStep, CollectedStep
<1>2. ASSUME BeginRound \/ BeginSuite \/ NextCase(TRUE) \/ NextCase(FALSE) \/ EndRound
      PROVE  ScopeInv'
  BY <1>2, BeginRoundStep, BeginSuiteStep, NextCaseStep, EndRoundStep
<1>3. ASSUME CaseCleanup \/ SuiteCleanup \/ GlobalCleanup PROVE ScopeInv'
  BY <1>3, CleanupStep
<1>4. ASSUME SuiteSetup \/ CaseSetup \/ Shared \/ Body PROVE ScopeInv'
  BY <1>4, SuiteSetupStep, CaseSetupStep, SharedStep, BodyStep
<1>5. ASSUME Called \/ PostCleanup \/ EndSuite \/ Finish PROVE ScopeInv'
  BY <1>5, CalledStep, PostCleanupStep, EndSuiteStep, FinishStep
<1>6. CASE UNCHANGED scopeVars
  BY <1>6, ScopeStutters
<1>7. QED
  BY <1>1, <1>2, <1>3, <1>4, <1>5, <1>6 DEF ScopeNext

---------------------------------------------------------------------------
(* The inductive invariant of the scopes. *)
THEOREM ScopeInductive ==
  ASSUME CaseScripts PROVE ScopeSpec => []ScopeInv
<1>1. ScopeInv /\ [ScopeNext]_scopeVars => ScopeInv'
  BY ScopeNextInv
<1>2. QED
  BY <1>1, ScopeInitInv, PTL DEF ScopeSpec

(* The types hold whatever the scripts are. *)
TypeInv == ScopeTypeOK /\ StubIInv /\ PlaceInv

LEMMA TypeFacts ==
  ASSUME TypeInv
  PROVE  /\ script \in [Site -> Operation] /\ mocker \in [Site -> List \cup {Nobody}]
         /\ Len(SuiteOrder) \in Nat /\ Rounds \in Nat
         /\ suite_at \in Nat /\ round \in 0..Rounds /\ left \in Seq(Case)
         /\ Scope \in List /\ target \in Opcode
         /\ suite_at \in 1..Len(SuiteOrder) => CurrentSuite \in Suite
<1>1. script \in [Site -> Operation] /\ mocker \in [Site -> List \cup {Nobody}]
  BY ScopeAssumption DEF TypeInv, ScopeTypeOK
<1>2. Scope \in List
  BY Places DEF TypeInv, ScopeTypeOK, Scope
<1>3. target \in Opcode
  BY Places DEF TypeInv, ScopeTypeOK, StubTypeOK, target
<1>4. /\ Len(SuiteOrder) \in Nat /\ Rounds \in Nat
      /\ suite_at \in Nat /\ round \in 0..Rounds /\ left \in Seq(Case)
  BY ScopeAssumption DEF TypeInv, ScopeTypeOK
<1>5. suite_at \in 1..Len(SuiteOrder) => CurrentSuite \in Suite
  BY ScopeAssumption DEF CurrentSuite
<1>6. QED
  BY <1>1, <1>2, <1>3, <1>4, <1>5

LEMMA DoTypes ==
  ASSUME TypeInv, NEW s \in Site, Do(s)
  PROVE  StubIInv' /\ mocker' \in [Site -> List \cup {Nobody}]
<1>1. PICK l \in List : l = Scope
  BY TypeFacts
<1>2. mocker' \in [Site -> List \cup {Nobody}]
  BY TypeFacts DEF Do
<1>3. CASE UNCHANGED stubVars
  BY <1>2, <1>3, StubNextIInv DEF TypeInv
<1>4. CASE Add(l, Target, s)
  BY <1>2, <1>4, Places, Sites, RedirectStep, PatchStep DEF Add, TypeInv
<1>5. CASE Clear(l, Target)
  BY <1>2, <1>5, Places, ClearStep DEF TypeInv
<1>6. QED
  BY <1>1, <1>3, <1>4, <1>5 DEF Do

LEMMA TeardownTypes ==
  ASSUME TypeInv, NEW l \in List, Teardown(l)
  PROVE  StubIInv' /\ mocker' \in [Site -> List \cup {Nobody}]
BY TypeFacts, ClearAllStep DEF Teardown, TypeInv

LEMMA CalledTypes ==
  ASSUME TypeInv, Called PROVE StubIInv'
<1> DEFINE f == Follow[Target]
<1>1. /\ UNCHANGED <<count, origin_opcode, stubs>> /\ temporaries' \in Seq(Temporary)
      /\ f \in Function
  BY Places DEF Called, TypeInv, ScopeTypeOK, StubTypeOK
<1>2. CASE opcode' = opcode
  BY <1>1, <1>2, WrittenOver DEF TypeInv, Opcode
<1>3. CASE target \in Site /\ opcode' = Write(f, origin_opcode[f])
  <2>1. count[f] > 0 /\ origin_opcode[f] \in Opcode
    <3>1. count[f] # 0
      BY <1>1, <1>3, Kept, Sites DEF TypeInv, target
    <3>2. QED
      BY <1>1, <3>1 DEF TypeInv, StubIInv, StubTypeOK
  <2>2. QED
    BY <1>1, <1>3, <2>1, WrittenOver DEF TypeInv
<1>4. Failing \subseteq Site
  BY ScopeAssumption
<1>5. QED
  BY <1>2, <1>3, <1>4 DEF Called

(* A step that stays in its iteration, whatever its user code does. *)
LEMMA AtTypes ==
  ASSUME TypeInv, StubIInv', mocker' \in [Site -> List \cup {Nobody}],
         UNCHANGED <<script, left, round, current_suite, current_case, before>>,
         suite_at' \in 0..(Len(SuiteOrder) + 1),
         phase' \in Phase, PlaceInv'
  PROVE  TypeInv'
BY DEF TypeInv, ScopeTypeOK, StubIInv

LEMMA CollectTypes ==
  ASSUME TypeInv, GlobalSetup \/ CollectSuite \/ CollectShared \/ CollectEnd \/ Collected
  PROVE  TypeInv'
<1>1. /\ UNCHANGED <<script, left, round, current_suite, current_case, before>>
      /\ phase' \in Phase
  BY DEF GlobalSetup, CollectSuite, CollectShared, CollectEnd, Collected, At, Goto, runnerVars, Phase
<1>2. suite_at' \in 0..(Len(SuiteOrder) + 1) /\ PlaceInv'
  <2>1. CASE GlobalSetup
    <3>1. suite_at' \in 0..(Len(SuiteOrder) + 1)
      BY <2>1, TypeFacts DEF GlobalSetup
    <3>2. QED
      BY <1>1, <2>1, <3>1 DEF GlobalSetup, Goto, TypeInv, PlaceInv, Collecting, InCase, InSuite
  <2>2. CASE CollectSuite
    <3>1. phase = "collect" /\ phase' = "collect shared" /\ suite_at' = suite_at
      BY <2>2 DEF CollectSuite, At, Goto, runnerVars
    <3>2. suite_at <= Len(SuiteOrder) /\ suite_at >= 1
      BY <2>2, <3>1 DEF CollectSuite, TypeInv, PlaceInv
    <3>3. suite_at \in 1..Len(SuiteOrder)
      BY <3>2, TypeFacts, Within
    <3>4. QED
      BY <1>1, <3>1, <3>3 DEF TypeInv, ScopeTypeOK, PlaceInv, Collecting, InCase, InSuite
  <2>3. CASE CollectShared
    <3>1. phase = "collect shared" /\ phase' = "collect end" /\ suite_at' = suite_at
      BY <2>3 DEF CollectShared, At, Goto, runnerVars
    <3>2. QED
      BY <1>1, <3>1 DEF TypeInv, ScopeTypeOK, PlaceInv, Collecting, InCase, InSuite
  <2>4. CASE CollectEnd
    <3>1. phase = "collect end" /\ phase' = "collect" /\ suite_at' = suite_at + 1
      BY <2>4 DEF CollectEnd, Goto
    <3>2. suite_at' \in 0..(Len(SuiteOrder) + 1) /\ suite_at' >= 1
      BY <3>1, TypeFacts, Advance DEF TypeInv, PlaceInv
    <3>3. QED
      BY <1>1, <3>1, <3>2 DEF TypeInv, PlaceInv, Collecting, InCase, InSuite
  <2>5. CASE Collected
    BY <1>1, <2>5 DEF Collected, Goto, runnerVars, TypeInv, ScopeTypeOK, PlaceInv,
                      Collecting, InCase, InSuite
  <2>6. QED
    BY <2>1, <2>2, <2>3, <2>4, <2>5
<1>3. StubIInv' /\ mocker' \in [Site -> List \cup {Nobody}]
  <2>1. CASE Collected
    BY <2>1, StubNextIInv, TypeFacts DEF Collected, TypeInv
  <2>2. CASE \E s \in Site : Do(s)
    BY <2>2, DoTypes
  <2>3. CollectShared => CurrentSuite \in Suite
    BY TypeFacts DEF CollectShared, TypeInv, PlaceInv
  <2>4. QED
    BY <2>1, <2>2, <2>3, Sites
       DEF GlobalSetup, CollectSuite, CollectShared, CollectEnd, At, SetupSite
<1>4. QED
  BY <1>1, <1>2, <1>3, AtTypes

LEMMA IterationTypes ==
  ASSUME TypeInv,
         BeginRound \/ BeginSuite \/ (\E t \in BOOLEAN : NextCase(t)) \/ EndRound
  PROVE  TypeInv'
<1>1. StubIInv' /\ mocker' \in [Site -> List \cup {Nobody}] /\ script' = script
  <2>1. UNCHANGED <<stubVars, mocker, script>>
    BY DEF BeginRound, BeginSuite, NextCase, EndRound
  <2>2. QED
    BY <2>1, StubNextIInv, TypeFacts DEF TypeInv
<1>2. CASE BeginRound
  <2>1. /\ phase' = "suite" /\ suite_at' = 1 /\ round' = round + 1 /\ round < Rounds
        /\ UNCHANGED <<left, current_suite, current_case, before>>
    BY <1>2 DEF BeginRound, Goto
  <2>2. round' \in 0..Rounds /\ suite_at' \in 0..(Len(SuiteOrder) + 1)
    BY <2>1, TypeFacts
  <2>3. PlaceInv'
    BY <2>1 DEF PlaceInv, Collecting, InCase, InSuite
  <2>4. QED
    BY <1>1, <2>1, <2>2, <2>3 DEF TypeInv, ScopeTypeOK, StubIInv, Phase
<1>3. CASE BeginSuite
  <2>1. /\ phase = "suite" /\ phase' = "GlobalSuiteSetup" /\ suite_at <= Len(SuiteOrder)
        /\ current_suite' = CurrentSuite /\ left' = CaseOrder[CurrentSuite]
        /\ UNCHANGED <<suite_at, round, current_case, before>>
    BY <1>3 DEF BeginSuite, Goto
  <2>2. suite_at >= 1
    BY <2>1 DEF TypeInv, PlaceInv
  <2>3. suite_at \in 1..Len(SuiteOrder)
    BY <2>1, <2>2, TypeFacts, Within
  <2>4. current_suite' \in Suite /\ left' \in Seq(Case)
    BY <2>1, <2>3, TypeFacts, ScopeAssumption
  <2>5. PlaceInv'
    BY <2>1, <2>3, <2>4 DEF TypeInv, PlaceInv, Collecting, InCase, InSuite
  <2>6. QED
    BY <1>1, <2>1, <2>4, <2>5 DEF TypeInv, ScopeTypeOK, StubIInv, Phase
<1>4. ASSUME NEW t \in BOOLEAN, NextCase(t) PROVE TypeInv'
  <2>1. PICK i \in DOMAIN left : current_case' = left[i] /\ left' = Without(left, i)
    BY <1>4 DEF NextCase
  <2>2. /\ phase = "cases" /\ phase' \in {"GlobalCaseSetup", "cases"} /\ before' = target
        /\ UNCHANGED <<suite_at, round, current_suite>>
    BY <1>4 DEF NextCase, Goto
  <2>3. current_case' \in Case /\ left' \in Seq(Case)
    BY <2>1, WithoutType, TypeFacts
  <2>4. PlaceInv'
    BY <2>2, <2>3 DEF TypeInv, PlaceInv, Collecting, InCase, InSuite
  <2>5. before' \in Opcode
    BY <2>2, TypeFacts
  <2>6. QED
    BY <1>1, <2>2, <2>3, <2>4, <2>5 DEF TypeInv, ScopeTypeOK, StubIInv, Phase
<1>5. CASE EndRound
  BY <1>1, <1>5 DEF EndRound, Goto, runnerVars, TypeInv, ScopeTypeOK, StubIInv, Phase,
                    PlaceInv, Collecting, InCase, InSuite
<1>6. QED
  BY <1>2, <1>3, <1>4, <1>5

LEMMA WorkTypes ==
  ASSUME TypeInv,
         \/ SuiteSetup \/ CaseSetup \/ Shared \/ Body \/ CaseCleanup
         \/ SuiteCleanup \/ GlobalCleanup \/ Called
         \/ PostCleanup \/ EndSuite \/ Finish
  PROVE  TypeInv'
<1>1. /\ UNCHANGED <<script, left, round, current_suite, current_case, before>>
      /\ phase' \in Phase
  BY DEF SuiteSetup, CaseSetup, Shared, Body, CaseCleanup, SuiteCleanup, GlobalCleanup, Called,
         PostCleanup, EndSuite, Finish, At, Goto, runnerVars, Phase
<1>2. suite_at' \in 0..(Len(SuiteOrder) + 1) /\ PlaceInv'
  <2>1. CASE SuiteCleanup
    <3>1. phase = "GlobalSuiteCleanup" /\ phase' = "suite" /\ suite_at' = suite_at + 1
      BY <2>1 DEF SuiteCleanup, Goto
    <3>2. suite_at' \in 0..(Len(SuiteOrder) + 1) /\ suite_at' >= 1
      BY <3>1, TypeFacts, Advance DEF TypeInv, PlaceInv, InSuite
    <3>3. QED
      BY <1>1, <3>1, <3>2 DEF TypeInv, PlaceInv, Collecting, InCase, InSuite
  <2>2. CASE ~SuiteCleanup
    <3>1. suite_at' = suite_at
      BY <2>2 DEF SuiteSetup, CaseSetup, Shared, Body, CaseCleanup, GlobalCleanup, Called,
                  PostCleanup, EndSuite, Finish, At, runnerVars
    <3>2. \/ phase \in InSuite /\ phase' \in InSuite
             /\ (phase' \in InCase \cup {"GlobalCaseCleanup"} => phase \in InCase)
          \/ phase' \in {"finish", "done"}
      BY <2>2 DEF SuiteSetup, CaseSetup, Shared, Body, CaseCleanup, GlobalCleanup, Called,
                  PostCleanup, EndSuite, Finish, At, Goto, InSuite, InCase
    <3>3. QED
      BY <1>1, <3>1, <3>2 DEF TypeInv, ScopeTypeOK, PlaceInv, Collecting, InCase, InSuite
  <2>3. QED
    BY <2>1, <2>2
<1>3. StubIInv' /\ mocker' \in [Site -> List \cup {Nobody}]
  <2>1. CASE Called
    BY <2>1, CalledTypes, TypeFacts DEF Called
  <2>2. CASE \E s \in Site : Do(s)
    BY <2>2, DoTypes
  <2>3. CASE \E l \in List : Teardown(l)
    BY <2>3, TeardownTypes
  <2>4. /\ PostCleanup => current_case \in List
        /\ EndSuite => current_suite \in List
        /\ Shared => CurrentSuite \in Suite
        /\ Body => current_case \in Case
    BY Places, TypeFacts DEF PostCleanup, EndSuite, Shared, Body, TypeInv, PlaceInv, InSuite, InCase
  <2>5. QED
    BY <2>1, <2>2, <2>3, <2>4, Places, Sites
       DEF SuiteSetup, CaseSetup, Shared, Body, CaseCleanup, SuiteCleanup, GlobalCleanup,
           PostCleanup, EndSuite, Finish, At, SetupSite, SetupSiteOfCase
<1>4. QED
  BY <1>1, <1>2, <1>3, AtTypes

(* The runner's pointers, its iteration and the stubs keep their types.    *)
THEOREM ScopeTypeCorrect == ScopeSpec => []ScopeTypeOK
<1>1. ScopeInit => TypeInv
  BY ScopeInitInv, StubInitIInv DEF ScopeInv, EngineInv, TypeInv
<1>2. TypeInv /\ [ScopeNext]_scopeVars => TypeInv'
  <2> SUFFICES ASSUME TypeInv, [ScopeNext]_scopeVars PROVE TypeInv'
    OBVIOUS
  <2>1. CASE ScopeNext
    BY <2>1, CollectTypes, IterationTypes, WorkTypes DEF ScopeNext
  <2>2. CASE UNCHANGED scopeVars
    <3>1. UNCHANGED stubVars /\ UNCHANGED <<script, phase, mocker, before>>
          /\ UNCHANGED <<suite_at, left, round, current_suite, current_case>>
      BY <2>2 DEF scopeVars, runnerVars
    <3>2. StubIInv'
      BY <3>1, StubNextIInv DEF TypeInv
    <3>3. QED
      BY <3>1, <3>2 DEF TypeInv, ScopeTypeOK, StubIInv, PlaceInv
  <2>3. QED
    BY <2>1, <2>2
<1>3. TypeInv => ScopeTypeOK
  BY DEF TypeInv
<1>4. QED
  BY <1>1, <1>2, <1>3, PTL DEF ScopeSpec

(* The end of a case undoes what its setups, shared code and body did to   *)
(* the function, and the end of the run what all of them did.              *)
THEOREM ScopesUndone ==
  ASSUME CaseScripts PROVE ScopeSpec => []OwnWorkUndone
<1>1. ScopeInv => OwnWorkUndone
  BY DEF ScopeInv, EndInv, DoneInv, OwnWorkUndone, CaseWorkUndone, AllRestored, Forgotten
<1>2. QED
  BY <1>1, ScopeInductive, PTL

(* The last of the sites of a case that asked for something. *)
LEMMA NearestIs ==
  ASSUME Nearest # Nobody, PutInv, phase = "calls"
  PROVE  Put(Nearest)
<1> DEFINE own == <<SetupSiteOfCase, SharedSite, BodySite>>
           asked == {i \in {1, 2, 3} : script[own[i]] # "none"}
           last == CHOOSE i \in asked : \A j \in asked : j <= i
<1>1. DOMAIN own = {1, 2, 3} /\ own[1] = SetupSiteOfCase /\ own[2] = SharedSite /\ own[3] = BodySite
  OBVIOUS
<1>2. Nearest = IF asked = {} THEN Nobody ELSE own[last]
  BY <1>1 DEF Nearest, SetupSiteOfCase, SharedSite, BodySite
<1>3. asked # {} /\ Nearest = own[last]
  BY <1>2
<1>4. last \in asked /\ \A j \in asked : j <= last
  <2>1. \E i \in asked : \A j \in asked : j <= i
    BY <1>3
  <2>2. QED
    BY <2>1
<1>5. IF script[BodySite] = "none" THEN SharedPut ELSE Put(BodySite)
  BY DEF PutInv
<1>6. CASE last = 3
  BY <1>1, <1>3, <1>4, <1>5, <1>6
<1>7. CASE last = 2
  <2>1. 3 \notin asked
    BY <1>4, <1>7
  <2>2. QED
    BY <1>1, <1>3, <1>4, <1>5, <1>7, <2>1 DEF SharedPut
<1>8. CASE last = 1
  <2>1. 3 \notin asked /\ 2 \notin asked
    BY <1>4, <1>8
  <2>2. QED
    BY <1>1, <1>3, <1>4, <1>5, <1>8, <2>1 DEF SharedPut
<1>9. QED
  BY <1>4, <1>6, <1>7, <1>8

(* In the body of a case its own last operation on the function holds.     *)
THEOREM ScopesNearestWins ==
  ASSUME CaseScripts PROVE ScopeSpec => []NearestWins
<1>1. ScopeInv => NearestWins
  BY NearestIs DEF ScopeInv, NearestWins, Put
<1>2. QED
  BY <1>1, ScopeInductive, PTL
=============================================================================
