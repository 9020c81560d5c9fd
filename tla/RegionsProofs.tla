--------------------------- MODULE RegionsProofs ---------------------------
(***************************************************************************)
(* What holds of the blocks of a case, however many are open and however   *)
(* many cases run: the state of each process-wide object belongs to the    *)
(* innermost block of its kind.                                            *)
(***************************************************************************)
EXTENDS Regions, SequenceTheorems, TLAPS

(* A block with one of its kind inside knows it. *)
NestInv ==
  \A i, j \in DOMAIN open : i < j /\ open[i].kind = open[j].kind => open[i].nested

(* The innermost block of a kind has what it will be judged by.            *)
JudgeInv ==
  \A i \in DOMAIN open : ~open[i].nested =>
    /\ open[i].kind = "catch" => thrown_exception = Nothing
    /\ open[i].kind = "cout" => open[i].due = buffer

(* The hooks catch for a Catch that is open, or one was left by a jump.    *)
HoleInv == catching /\ hole = 0 => "catch" \in left

(* A mark that is set was left behind. *)
MarkInv == warning => unspent

RegionsInv ==
  /\ RegionsTypeOK
  /\ NestInv /\ JudgeInv /\ HoleInv /\ MarkInv
  /\ OpenIsOn /\ OnlyJumpsLeave /\ CleanBetween
  /\ CatchSeesItsThrow /\ CoutSeesItsOutput /\ NotHidden

---------------------------------------------------------------------------
(* Sequences of blocks, and the first of them. *)
LEMMA OpenFacts ==
  ASSUME NEW s \in Seq(Region)
  PROVE  /\ Len(s) \in Nat /\ DOMAIN s = 1..Len(s)
         /\ \A i \in DOMAIN s : s[i] \in Region /\ s[i].kind \in Kind
BY LenProperties DEF Region, Kind

LEMMA PrefixFacts ==
  ASSUME NEW s \in Seq(Region), NEW m \in 0..Len(s)
  PROVE  /\ SubSeq(s, 1, m) \in Seq(Region)
         /\ Len(SubSeq(s, 1, m)) = m /\ DOMAIN SubSeq(s, 1, m) = 1..m
         /\ \A i \in 1..m : SubSeq(s, 1, m)[i] = s[i] /\ i \in DOMAIN s
<1>1. Len(s) \in Nat /\ \A i \in 1..Len(s) : s[i] \in Region
  BY OpenFacts
<1>2. \A i \in 1..m : s[i] \in Region
  BY <1>1
<1>3. SubSeq(s, 1, m) \in Seq(Region)
  BY <1>1, <1>2, SubSeqProperties
<1>4. Len(SubSeq(s, 1, m)) = m /\ \A i \in 1..m : SubSeq(s, 1, m)[i] = s[i]
  BY <1>1, <1>2, SubSeqProperties
<1>5. QED
  BY <1>1, <1>3, <1>4, LenProperties

LEMMA Counting ==
  ASSUME NEW n \in Nat, NEW m \in 0..n
  PROVE  /\ m + 1 \in Int /\ n - (m + 1) + 1 = n - m
         /\ m + 1 <= n \/ n - m = 0
         /\ \A i \in 1..(n - m) : m + 1 + i - 1 = m + i /\ m + i \in m + 1..n
         /\ \A i \in m + 1..n : i - m \in 1..(n - m) /\ m + (i - m) = i
OBVIOUS

LEMMA Around ==
  ASSUME NEW n \in Nat, NEW m \in 1..n
  PROVE  1..n = 1..(m - 1) \cup {m} \cup m + 1..n /\ m - 1 \in 0..n /\ m \in 0..n
OBVIOUS

LEMMA KindsFacts ==
  ASSUME NEW s \in Seq(Region), NEW m \in 0..Len(s)
  PROVE  /\ Kinds(s) \subseteq Kind
         /\ Kinds(SubSeq(s, m + 1, Len(s))) \subseteq Kinds(s)
         /\ Kinds(SubSeq(s, m + 1, Len(s))) = {s[i].kind : i \in m + 1..Len(s)}
         /\ Kinds(SubSeq(s, 1, m)) = {s[i].kind : i \in 1..m}
         /\ Kinds(s) = Kinds(SubSeq(s, 1, m)) \cup Kinds(SubSeq(s, m + 1, Len(s)))
<1>1. Len(s) \in Nat /\ DOMAIN s = 1..Len(s)
  BY OpenFacts
<1> DEFINE t == SubSeq(s, m + 1, Len(s))
<1>2. DOMAIN t = 1..(Len(s) - m) /\ \A i \in 1..(Len(s) - m) : t[i] = s[m + i]
  <2>1. \A i \in m + 1..Len(s) : s[i] \in Region
    BY <1>1, OpenFacts
  <2>2. m + 1 \in Int /\ Len(s) \in Int
    BY <1>1, Counting
  <2>3. /\ t \in Seq(Region)
        /\ Len(t) = IF m + 1 <= Len(s) THEN Len(s) - (m + 1) + 1 ELSE 0
        /\ \A i \in 1..(Len(s) - (m + 1) + 1) : t[i] = s[m + 1 + i - 1]
    BY <2>1, <2>2, SubSeqProperties
  <2> HIDE DEF t
  <2>4. /\ Len(s) - (m + 1) + 1 = Len(s) - m
        /\ m + 1 <= Len(s) \/ Len(s) - m = 0
        /\ \A i \in 1..(Len(s) - m) : m + 1 + i - 1 = m + i
    BY <1>1, Counting
  <2>5. Len(t) = Len(s) - m
    BY <2>3, <2>4
  <2>6. \A i \in 1..(Len(s) - m) : t[i] = s[m + i]
    BY <2>3, <2>4
  <2>7. QED
    BY <2>3, <2>5, <2>6, LenProperties
<1>3. Kinds(s) \subseteq Kind
  BY OpenFacts DEF Kinds
<1>4. Kinds(t) = {s[i].kind : i \in m + 1..Len(s)}
  <2>1. \A i \in 1..(Len(s) - m) : m + i \in m + 1..Len(s) /\ t[i].kind = s[m + i].kind
    BY <1>1, <1>2, Counting
  <2>2. \A i \in m + 1..Len(s) : i - m \in 1..(Len(s) - m) /\ t[i - m].kind = s[i].kind
    BY <1>1, <1>2, Counting
  <2>3. Kinds(t) = {t[i].kind : i \in 1..(Len(s) - m)}
    BY <1>2 DEF Kinds
  <2> HIDE DEF t
  <2>4. QED
    BY <2>1, <2>2, <2>3
<1>5. Kinds(SubSeq(s, 1, m)) = {s[i].kind : i \in 1..m}
  BY PrefixFacts DEF Kinds
<1>6. Kinds(s) = {s[i].kind : i \in 1..m} \cup {s[i].kind : i \in m + 1..Len(s)}
  BY <1>1 DEF Kinds
<1>7. QED
  BY <1>3, <1>4, <1>5, <1>6

---------------------------------------------------------------------------
(* A block is left, or several: those inside it are forgotten. *)
Shrunk(m) ==
  /\ m \in 0..Len(open)
  /\ open' = SubSeq(open, 1, m)
  /\ hole' = IF hole \in DOMAIN open' THEN hole ELSE 0

OpenType ==
  /\ open \in Seq(Region) /\ Len(open) <= MaxDepth
  /\ hole # 0 => hole \in DOMAIN open /\ open[hole].kind = "catch"

LEMMA ShrunkType ==
  ASSUME OpenType, NEW m, Shrunk(m)
  PROVE  /\ OpenType'
         /\ DOMAIN open' = 1..m /\ DOMAIN open = 1..Len(open) /\ Len(open) \in Nat /\ Len(open') = m
         /\ \A i \in 1..m : open'[i] = open[i] /\ i \in DOMAIN open
         /\ hole' = IF hole \in 1..m THEN hole ELSE 0
BY PrefixFacts, OpenFacts, RegionsAssumption DEF Shrunk, OpenType

(* What the innermost blocks have depends on nothing that is left.         *)
LEMMA ShrunkOn ==
  ASSUME OpenType, NestInv, JudgeInv, OpenIsOn, NEW m, Shrunk(m),
         UNCHANGED catching \/ \E j \in m + 1..Len(open) : open[j].kind = "catch",
         UNCHANGED thrown_exception \/ ~catching \/ \E j \in m + 1..Len(open) : open[j].kind = "catch",
         UNCHANGED buffer,
         UNCHANGED capturable \/ \E j \in m + 1..Len(open) : open[j].kind = "cout",
         UNCHANGED hooked \/ \E j \in m + 1..Len(open) : open[j].kind = "sock"
  PROVE  NestInv' /\ JudgeInv' /\ OpenIsOn'
<1>1. /\ DOMAIN open' = 1..m /\ DOMAIN open = 1..Len(open) /\ Len(open) \in Nat /\ m \in 0..Len(open)
      /\ \A i \in 1..m : open'[i] = open[i] /\ i \in DOMAIN open
      /\ hole' = IF hole \in 1..m THEN hole ELSE 0
  BY ShrunkType DEF Shrunk
<1>2. \A i \in 1..m : \A j \in m + 1..Len(open) : open[j].kind = open[i].kind => open[i].nested
  BY <1>1 DEF NestInv
<1>3. NestInv'
  BY <1>1 DEF NestInv
<1>4. OpenIsOn'
  BY <1>1, <1>2 DEF OpenIsOn
<1>5. JudgeInv'
  BY <1>1, <1>2 DEF JudgeInv, OpenIsOn
<1>6. QED
  BY <1>3, <1>4, <1>5

(* What is reported with the first m blocks around it. *)
LEMMA FailingShrinks ==
  ASSUME OpenType, NEW bad \in BOOLEAN, NEW m \in 0..Len(open),
         Failing(bad, SubSeq(open, 1, m))
  PROVE  /\ bad /\ ~option.continue =>
              Shrunk(0) /\ LeftBy(bad, SubSeq(open, 1, m)) = Kinds(SubSeq(open, 1, m))
         /\ ~(bad /\ ~option.continue) => Shrunk(m) /\ LeftBy(bad, SubSeq(open, 1, m)) = {}
         /\ \E n \in 0..m : Shrunk(n)
         /\ failed' = (failed \/ bad)
<1>1. SubSeq(open, 1, 0) = <<>> /\ 0 \in 0..m /\ m \in 0..m /\ 0 \in 0..Len(open)
  BY SubSeqEmpty, OpenFacts DEF OpenType
<1>2. QED
  BY <1>1 DEF Failing, Shrunk, LeftBy

---------------------------------------------------------------------------
LEMMA RegionFacts ==
  ASSUME NEW r \in Region
  PROVE  /\ r.kind \in Kind /\ r.nested \in BOOLEAN
         /\ r.kind = "catch" => r.wants \in Type \cup {Nothing}
         /\ r.kind = "cout" => r.wants \in SUBSET Stream /\ r.due \in Seq(Stream)
BY DEF Region, Kind

LEMMA RegionNested ==
  ASSUME NEW r \in Region, NEW b \in BOOLEAN
  PROVE  LET q == [r EXCEPT !.nested = b]
         IN  q \in Region /\ q.kind = r.kind /\ q.wants = r.wants /\ q.due = r.due /\ q.nested = b
BY DEF Region

LEMMA RegionDue ==
  ASSUME NEW r \in Region, r.kind = "cout", NEW d \in Seq(Stream)
  PROVE  LET q == [r EXCEPT !.due = d]
         IN  q \in Region /\ q.kind = r.kind /\ q.wants = r.wants /\ q.due = d /\ q.nested = r.nested
BY DEF Region

LEMMA EnteredFacts ==
  ASSUME OpenType, NEW kind, NEW wants, NEW due,
         [kind |-> kind, wants |-> wants, due |-> due, nested |-> FALSE] \in Region,
         Entered(kind, wants, due)
  PROVE  /\ open' \in Seq(Region) /\ Len(open') = Len(open) + 1 /\ Len(open') <= MaxDepth
         /\ Len(open) \in Nat /\ DOMAIN open = 1..Len(open) /\ DOMAIN open' = 1..(Len(open) + 1)
         /\ \A i \in DOMAIN open :
              /\ open'[i].kind = open[i].kind /\ open'[i].wants = open[i].wants /\ open'[i].due = open[i].due
              /\ open'[i].nested <=> (open[i].nested \/ open[i].kind = kind)
         /\ open'[Len(open) + 1] = [kind |-> kind, wants |-> wants, due |-> due, nested |-> FALSE]
<1> DEFINE g == [i \in DOMAIN open |-> [open[i] EXCEPT !.nested = @ \/ open[i].kind = kind]]
           e == [kind |-> kind, wants |-> wants, due |-> due, nested |-> FALSE]
<1>1. Len(open) \in Nat /\ DOMAIN open = 1..Len(open) /\ \A i \in DOMAIN open : open[i] \in Region
  BY OpenFacts DEF OpenType
<1>2. \A i \in DOMAIN open :
        /\ g[i] \in Region
        /\ g[i].kind = open[i].kind /\ g[i].wants = open[i].wants /\ g[i].due = open[i].due
        /\ g[i].nested <=> (open[i].nested \/ open[i].kind = kind)
  <2> SUFFICES ASSUME NEW i \in DOMAIN open
               PROVE  /\ g[i] \in Region
                      /\ g[i].kind = open[i].kind /\ g[i].wants = open[i].wants /\ g[i].due = open[i].due
                      /\ g[i].nested <=> (open[i].nested \/ open[i].kind = kind)
    OBVIOUS
  <2>1. (open[i].nested \/ open[i].kind = kind) \in BOOLEAN
    OBVIOUS
  <2>2. g[i] = [open[i] EXCEPT !.nested = (open[i].nested \/ open[i].kind = kind)]
    OBVIOUS
  <2>3. QED
    BY <1>1, <2>1, <2>2, RegionNested
<1>3. g \in [1..Len(open) -> Region]
  BY <1>1, <1>2
<1> HIDE DEF g, e
<1>4. g \in Seq(Region) /\ Len(g) = Len(open)
  <2>1. g \in Seq(Region)
    BY <1>1, <1>3, SeqDef
  <2>2. QED
    BY <1>1, <1>3, <2>1, LenProperties
<1>5. open' = Append(g, e) /\ e \in Region /\ Len(open) < MaxDepth
  BY DEF Entered, g, e
<1>6. /\ open' \in Seq(Region) /\ Len(open') = Len(g) + 1
      /\ \A i \in 1..Len(g) : open'[i] = g[i]
      /\ open'[Len(g) + 1] = e
  BY <1>4, <1>5, AppendProperties
<1>7. DOMAIN open' = 1..(Len(open) + 1)
  BY <1>4, <1>6, LenProperties
<1>8. Len(open') <= MaxDepth
  BY <1>1, <1>4, <1>5, <1>6, RegionsAssumption
<1>9. QED
  BY <1>1, <1>2, <1>4, <1>6, <1>7, <1>8 DEF e

LEMMA OutputFacts ==
  ASSUME OpenType, NEW stream \in Stream, Output(stream)
  PROVE  /\ open' \in Seq(Region) /\ Len(open') = Len(open)
         /\ DOMAIN open' = DOMAIN open
         /\ \A i \in DOMAIN open :
              /\ open'[i].kind = open[i].kind /\ open'[i].wants = open[i].wants
              /\ open'[i].nested = open[i].nested
              /\ open[i].kind = "cout" =>
                   open'[i].due = IF stream \in open[i].wants THEN Append(open[i].due, stream) ELSE open[i].due
<1>1. Len(open) \in Nat /\ DOMAIN open = 1..Len(open) /\ \A i \in DOMAIN open : open[i] \in Region
  BY OpenFacts DEF OpenType
<1>2. \A i \in DOMAIN open :
        open'[i] = IF open[i].kind = "cout" /\ stream \in open[i].wants
                   THEN [open[i] EXCEPT !.due = Append(open[i].due, stream)] ELSE open[i]
  BY DEF Output
<1>3. \A i \in DOMAIN open : open[i].kind = "cout" => Append(open[i].due, stream) \in Seq(Stream)
  BY <1>1, RegionFacts, AppendProperties
<1>4. \A i \in DOMAIN open :
         /\ open'[i] \in Region
         /\ open'[i].kind = open[i].kind /\ open'[i].wants = open[i].wants
         /\ open'[i].nested = open[i].nested
         /\ open[i].kind = "cout" =>
              open'[i].due = IF stream \in open[i].wants THEN Append(open[i].due, stream) ELSE open[i].due
  <2> TAKE i \in DOMAIN open
  <2>1. CASE open[i].kind = "cout" /\ stream \in open[i].wants
    <3> DEFINE r == open[i]
               d == Append(open[i].due, stream)
    <3>1. open'[i] = [r EXCEPT !.due = d]
      BY <1>2, <2>1
    <3>2. d \in Seq(Stream) /\ r \in Region /\ r.kind = "cout"
      BY <1>1, <1>3, <2>1
    <3> HIDE DEF r, d
    <3>3. LET q == [r EXCEPT !.due = d]
          IN  q \in Region /\ q.kind = r.kind /\ q.wants = r.wants /\ q.due = d /\ q.nested = r.nested
      BY <3>2, RegionDue
    <3>4. QED
      BY <2>1, <3>1, <3>3 DEF r, d
  <2>2. CASE ~(open[i].kind = "cout" /\ stream \in open[i].wants)
    BY <1>1, <1>2, <2>2
  <2>3. QED
    BY <2>1, <2>2
<1>5. open' \in [1..Len(open) -> Region]
  BY <1>1, <1>4 DEF Output
<1>6. open' \in Seq(Region)
  BY <1>1, <1>5, SeqDef
<1>7. Len(open') = Len(open)
  BY <1>1, <1>5, <1>6, LenProperties
<1>8. QED
  BY <1>1, <1>4, <1>5, <1>6, <1>7

---------------------------------------------------------------------------
(* The types of everything but the blocks. *)
OthersType ==
  /\ option \in Options
  /\ place \in {"between", "body", "over", "lost"}
  /\ cases \in 0..MaxCase
  /\ catching \in BOOLEAN /\ thrown_exception \in Type \cup {Nothing}
  /\ capturable \subseteq Stream /\ buffer \in Seq(Stream)
  /\ hooked \in BOOLEAN /\ packets \in BOOLEAN
  /\ warning \in BOOLEAN /\ unspent \in BOOLEAN
  /\ failed \in BOOLEAN /\ warned \in BOOLEAN /\ wrong \in BOOLEAN
  /\ left \subseteq Kind /\ misjudged \subseteq Kind

LEMMA TypeParts == RegionsTypeOK <=> OpenType /\ OthersType
BY Zenon DEF RegionsTypeOK, OpenType, OthersType

LEMMA TypePartsNext == RegionsTypeOK' <=> OpenType' /\ OthersType'
BY Zenon DEF RegionsTypeOK, OpenType, OthersType

LEMMA LeftByKinds ==
  ASSUME NEW bad \in BOOLEAN, NEW s \in Seq(Region)
  PROVE  LeftBy(bad, s) \subseteq Kind
BY KindsFacts, OpenFacts, 0 \in 0..Len(s) DEF LeftBy

LEMMA WholeIsPrefix ==
  ASSUME OpenType
  PROVE  /\ Len(open) \in Nat /\ DOMAIN open = 1..Len(open)
         /\ Len(open) \in 0..Len(open) /\ open = SubSeq(open, 1, Len(open))
         /\ open # <<>> =>
              /\ Len(open) \in 1..Len(open) /\ Len(open) - 1 \in 0..Len(open)
              /\ Front(open) = SubSeq(open, 1, Len(open) - 1) /\ Top.kind \in Kind
<1>1. Len(open) \in Nat /\ DOMAIN open = 1..Len(open)
  BY OpenFacts DEF OpenType
<1>2. open = SubSeq(open, 1, Len(open))
  BY SubSeqFull DEF OpenType
<1>3. open # <<>> => Len(open) # 0
  BY EmptySeq DEF OpenType
<1>4. QED
  BY <1>1, <1>2, <1>3, OpenFacts DEF Front, Top, OpenType

(* The judgement of a block is about its kind. *)
LEMMA JudgedType ==
  ASSUME OthersType, NEW r \in Region, NEW due, NEW got, Judged(r, due, got)
  PROVE  misjudged' \subseteq Kind
BY RegionFacts DEF OthersType, Judged

---------------------------------------------------------------------------
LEMMA BeginInv == ASSUME RegionsInv, Begin, option' = option PROVE RegionsInv'
<1>1. OpenType /\ OthersType
  BY TypeParts DEF RegionsInv
<1>2. OpenType' /\ OthersType'
  <2>1. cases' \in 0..MaxCase
    BY <1>1, RegionsAssumption DEF Begin, OthersType
  <2>2. QED
    BY <1>1, <2>1 DEF Begin, OpenType, OthersType, exceptionVars, stdioVars, socketVars, markVars
<1>3. RegionsTypeOK'
  BY <1>2, TypePartsNext
<1>4. NestInv' /\ JudgeInv' /\ HoleInv' /\ MarkInv'
  BY DEF RegionsInv, Begin, NestInv, JudgeInv, HoleInv, MarkInv, exceptionVars, stdioVars, markVars
<1>5. OpenIsOn' /\ OnlyJumpsLeave' /\ CleanBetween'
  BY DEF RegionsInv, Begin, OpenIsOn, OnlyJumpsLeave, CleanBetween, Kinds, exceptionVars, stdioVars, socketVars
<1>6. CatchSeesItsThrow' /\ CoutSeesItsOutput' /\ NotHidden'
  BY DEF RegionsInv, Begin, CatchSeesItsThrow, CoutSeesItsOutput, NotHidden
<1>7. QED
  BY <1>3, <1>4, <1>5, <1>6 DEF RegionsInv

LEMMA ClearInv == ASSUME RegionsInv, Clear, option' = option PROVE RegionsInv'
<1>1. OpenType /\ OthersType
  BY TypeParts DEF RegionsInv
<1>2. OpenType' /\ OthersType'
  BY <1>1 DEF Clear, OpenType, OthersType, exceptionVars, stdioVars, caseVars, markVars
<1>3. RegionsTypeOK'
  BY <1>2, TypePartsNext
<1>4. NestInv' /\ JudgeInv' /\ HoleInv' /\ MarkInv'
  BY DEF RegionsInv, Clear, NestInv, JudgeInv, HoleInv, MarkInv, exceptionVars, stdioVars, markVars
<1>5. DOMAIN open = {}
  BY DEF Clear
<1>6. OpenIsOn' /\ OnlyJumpsLeave' /\ CleanBetween'
  BY <1>5 DEF RegionsInv, Clear, OpenIsOn, OnlyJumpsLeave, CleanBetween, Kinds, exceptionVars, stdioVars
<1>7. CatchSeesItsThrow' /\ CoutSeesItsOutput' /\ NotHidden'
  BY DEF RegionsInv, Clear, CatchSeesItsThrow, CoutSeesItsOutput, NotHidden, caseVars
<1>8. QED
  BY <1>3, <1>4, <1>6, <1>7 DEF RegionsInv

(* A block begins. *)
LEMMA EnteredInv ==
  ASSUME RegionsInv, option' = option, NEW kind, NEW wants, NEW due,
         [kind |-> kind, wants |-> wants, due |-> due, nested |-> FALSE] \in Region,
         Entered(kind, wants, due),
         IF kind = "catch"
         THEN catching' = TRUE /\ thrown_exception' = Nothing /\ hole' = Len(open')
         ELSE UNCHANGED exceptionVars,
         IF kind = "cout"
         THEN capturable' = wants /\ capturable' \subseteq Stream /\ buffer' = <<>> /\ due = <<>>
         ELSE UNCHANGED stdioVars,
         UNCHANGED packets /\ hooked' = (hooked \/ kind = "sock")
  PROVE  RegionsInv'
<1>1. OpenType /\ OthersType
  BY TypeParts DEF RegionsInv
<1> DEFINE n == Len(open) + 1
<1>2. /\ open' \in Seq(Region) /\ Len(open') = n /\ Len(open') <= MaxDepth
      /\ n \in Nat \ {0} /\ DOMAIN open = 1..(n - 1) /\ DOMAIN open' = 1..n
      /\ \A i \in 1..(n - 1) :
           /\ open'[i].kind = open[i].kind /\ open'[i].wants = open[i].wants /\ open'[i].due = open[i].due
           /\ open'[i].nested <=> (open[i].nested \/ open[i].kind = kind)
      /\ open'[n] = [kind |-> kind, wants |-> wants, due |-> due, nested |-> FALSE]
  BY <1>1, EnteredFacts
<1> HIDE DEF n
<1>3. kind \in Kind
  BY RegionFacts
<1>4. RegionsTypeOK'
  <2>1. OpenType'
    BY <1>1, <1>2 DEF OpenType, exceptionVars
  <2>2. OthersType'
    <3>1. catching' \in BOOLEAN /\ thrown_exception' \in Type \cup {Nothing}
      BY <1>1 DEF OthersType, exceptionVars
    <3>2. capturable' \subseteq Stream /\ buffer' \in Seq(Stream)
      BY <1>1, EmptySeq DEF OthersType, stdioVars
    <3>3. hooked' \in BOOLEAN
      BY <1>1 DEF OthersType
    <3>4. QED
      BY <1>1, <3>1, <3>2, <3>3 DEF OthersType, Entered, markVars, caseVars
  <2>3. QED
    BY <2>1, <2>2, TypePartsNext
<1>5. NestInv'
  BY <1>2 DEF RegionsInv, NestInv
<1>6. JudgeInv'
  BY <1>2 DEF RegionsInv, JudgeInv, exceptionVars, stdioVars
<1>7. OpenIsOn'
  <2> SUFFICES ASSUME NEW i \in 1..n, ~open'[i].nested
               PROVE  /\ open'[i].kind = "catch" => catching' /\ hole' = i
                      /\ open'[i].kind = "cout" => capturable' = open'[i].wants
                      /\ open'[i].kind = "sock" => hooked'
    BY <1>2 DEF OpenIsOn
  <2>1. CASE i = n
    <3>1. open'[i].kind = kind /\ open'[i].wants = wants
      BY <1>2, <2>1
    <3>2. kind = "catch" => catching' /\ hole' = n
      BY <1>2
    <3>3. kind = "cout" => capturable' = wants
      OBVIOUS
    <3>4. kind = "sock" => hooked'
      OBVIOUS
    <3>5. QED
      BY <2>1, <3>1, <3>2, <3>3, <3>4
  <2>2. CASE i \in 1..(n - 1)
    <3>1. /\ ~open[i].nested /\ open[i].kind # kind /\ i \in DOMAIN open
          /\ open'[i].kind = open[i].kind /\ open'[i].wants = open[i].wants
      BY <1>2, <2>2
    <3>2. /\ open[i].kind = "catch" => catching /\ hole = i
          /\ open[i].kind = "cout" => capturable = open[i].wants
          /\ open[i].kind = "sock" => hooked
      BY <3>1 DEF RegionsInv, OpenIsOn
    <3>3. QED
      BY <3>1, <3>2 DEF exceptionVars, stdioVars
  <2>3. QED
    BY <1>2, <2>1, <2>2
<1>8. HoleInv' /\ MarkInv'
  BY <1>2 DEF RegionsInv, HoleInv, MarkInv, Entered, exceptionVars, markVars
<1>9. Kinds(open') = Kinds(open) \cup {kind}
  <2>1. 1..n = 1..(n - 1) \cup {n}
    BY <1>2
  <2>2. open'[n].kind = kind
    BY <1>2
  <2>3. QED
    BY <1>2, <2>1, <2>2 DEF Kinds
<1>10. OnlyJumpsLeave' /\ CleanBetween'
  BY <1>9 DEF RegionsInv, OnlyJumpsLeave, CleanBetween, Entered, exceptionVars, stdioVars
<1>11. CatchSeesItsThrow' /\ CoutSeesItsOutput' /\ NotHidden'
  BY DEF RegionsInv, Entered, CatchSeesItsThrow, CoutSeesItsOutput, NotHidden, caseVars
<1>12. QED
  BY <1>4, <1>5, <1>6, <1>7, <1>8, <1>10, <1>11 DEF RegionsInv

LEMMA TryCatchInv ==
  ASSUME RegionsInv, option' = option, NEW type \in Type \cup {Nothing}, TryCatch(type)
  PROVE  RegionsInv'
<1>1. [kind |-> "catch", wants |-> type, due |-> Nothing, nested |-> FALSE] \in Region
  BY DEF Region
<1>2. UNCHANGED <<stdioVars, packets>> /\ hooked' = (hooked \/ "catch" = "sock")
  BY TypeParts DEF TryCatch, socketVars, RegionsInv, OthersType
<1>3. QED
  BY <1>1, <1>2, EnteredInv DEF TryCatch

LEMMA StartCaptureInv ==
  ASSUME RegionsInv, option' = option, NEW streams \in SUBSET Stream, StartCapture(streams)
  PROVE  RegionsInv'
<1>1. [kind |-> "cout", wants |-> streams, due |-> <<>>, nested |-> FALSE] \in Region
  BY EmptySeq DEF Region
<1>2. UNCHANGED <<exceptionVars, packets>> /\ hooked' = (hooked \/ "cout" = "sock")
  BY TypeParts DEF StartCapture, socketVars, RegionsInv, OthersType
<1>3. QED
  BY <1>1, <1>2, EnteredInv DEF StartCapture

LEMMA StartSockInv == ASSUME RegionsInv, option' = option, StartSock PROVE RegionsInv'
<1>1. [kind |-> "sock", wants |-> Nothing, due |-> Nothing, nested |-> FALSE] \in Region
  BY DEF Region
<1>2. UNCHANGED <<exceptionVars, stdioVars, packets>> /\ hooked' = (hooked \/ "sock" = "sock")
  BY DEF StartSock
<1>3. QED
  BY <1>1, <1>2, EnteredInv DEF StartSock

---------------------------------------------------------------------------
LEMMA SendInv == ASSUME RegionsInv, option' = option, Send PROVE RegionsInv'
<1>1. OpenType /\ OthersType
  BY TypeParts DEF RegionsInv
<1>2. OpenType' /\ OthersType'
  BY <1>1 DEF Send, OpenType, OthersType, exceptionVars, stdioVars, caseVars, markVars
<1>3. RegionsTypeOK'
  BY <1>2, TypePartsNext
<1>4. NestInv' /\ JudgeInv' /\ HoleInv' /\ MarkInv'
  BY DEF RegionsInv, Send, NestInv, JudgeInv, HoleInv, MarkInv, exceptionVars, stdioVars, markVars
<1>5. OpenIsOn' /\ OnlyJumpsLeave' /\ CleanBetween'
  BY DEF RegionsInv, Send, OpenIsOn, OnlyJumpsLeave, CleanBetween, Kinds, exceptionVars, stdioVars
<1>6. CatchSeesItsThrow' /\ CoutSeesItsOutput' /\ NotHidden'
  BY DEF RegionsInv, Send, CatchSeesItsThrow, CoutSeesItsOutput, NotHidden, caseVars
<1>7. QED
  BY <1>3, <1>4, <1>5, <1>6 DEF RegionsInv

(* What is printed goes to the buffer and to the innermost COUT alike.     *)
LEMMA OutputInv ==
  ASSUME RegionsInv, option' = option, NEW stream \in Stream, Output(stream)
  PROVE  RegionsInv'
<1>1. OpenType /\ OthersType
  BY TypeParts DEF RegionsInv
<1>2. /\ open' \in Seq(Region) /\ Len(open') = Len(open)
      /\ DOMAIN open' = DOMAIN open
      /\ \A i \in DOMAIN open :
           /\ open'[i].kind = open[i].kind /\ open'[i].wants = open[i].wants
           /\ open'[i].nested = open[i].nested
           /\ open[i].kind = "cout" =>
                open'[i].due = IF stream \in open[i].wants THEN Append(open[i].due, stream) ELSE open[i].due
  BY <1>1, OutputFacts
<1>3. buffer' = IF stream \in capturable THEN Append(buffer, stream) ELSE buffer
  BY DEF Output
<1>4. RegionsTypeOK'
  <2>1. OpenType'
    BY <1>1, <1>2 DEF OpenType, Output, exceptionVars
  <2>2. buffer' \in Seq(Stream)
    BY <1>1, <1>3, AppendProperties DEF OthersType
  <2>3. OthersType'
    BY <1>1, <2>2 DEF OthersType, Output, exceptionVars, socketVars, markVars, caseVars
  <2>4. QED
    BY <2>1, <2>3, TypePartsNext
<1>5. NestInv'
  BY <1>2 DEF RegionsInv, NestInv
<1>6. JudgeInv'
  <2> SUFFICES ASSUME NEW i \in DOMAIN open, ~open[i].nested
               PROVE  /\ open[i].kind = "catch" => thrown_exception' = Nothing
                      /\ open[i].kind = "cout" => open'[i].due = buffer'
    BY <1>2 DEF JudgeInv
  <2>1. open[i].kind = "catch" => thrown_exception' = Nothing
    BY DEF RegionsInv, JudgeInv, Output, exceptionVars
  <2>2. open[i].kind = "cout" => open[i].due = buffer /\ capturable = open[i].wants
    BY DEF RegionsInv, JudgeInv, OpenIsOn
  <2>3. QED
    BY <1>2, <1>3, <2>1, <2>2
<1>7. OpenIsOn'
  BY <1>2 DEF RegionsInv, OpenIsOn, Output, exceptionVars, socketVars
<1>8. HoleInv' /\ MarkInv'
  BY DEF RegionsInv, HoleInv, MarkInv, Output, exceptionVars, markVars
<1>9. Kinds(open') = Kinds(open)
  BY <1>2 DEF Kinds
<1>10. OnlyJumpsLeave' /\ CleanBetween'
  BY <1>9 DEF RegionsInv, OnlyJumpsLeave, CleanBetween, Output, exceptionVars, socketVars
<1>11. CatchSeesItsThrow' /\ CoutSeesItsOutput' /\ NotHidden'
  BY DEF RegionsInv, Output, CatchSeesItsThrow, CoutSeesItsOutput, NotHidden, caseVars
<1>12. QED
  BY <1>4, <1>5, <1>6, <1>7, <1>8, <1>10, <1>11 DEF RegionsInv

---------------------------------------------------------------------------
(* The parts of the invariant that are not about the blocks alone. *)
Rest ==
  /\ HoleInv /\ MarkInv /\ OnlyJumpsLeave /\ CleanBetween
  /\ CatchSeesItsThrow /\ CoutSeesItsOutput /\ NotHidden

LEMMA InvParts ==
  RegionsInv <=> OpenType /\ OthersType /\ NestInv /\ JudgeInv /\ OpenIsOn /\ Rest
BY TypeParts DEF RegionsInv, Rest

LEMMA InvPartsNext ==
  RegionsInv' <=> OpenType' /\ OthersType' /\ NestInv' /\ JudgeInv' /\ OpenIsOn' /\ Rest'
BY TypePartsNext DEF RegionsInv, Rest

LEMMA CheckInv ==
  ASSUME RegionsInv, option' = option, NEW holds \in BOOLEAN, NEW marked \in BOOLEAN, Check(holds, marked)
  PROVE  RegionsInv'
<1>1. OpenType /\ OthersType /\ NestInv /\ JudgeInv /\ OpenIsOn /\ Rest
  BY InvParts
<1> DEFINE bad == ~holds /\ ~(marked \/ warning)
<1>2. /\ warning' = FALSE /\ unspent' = FALSE
      /\ Failing(bad, open) /\ left' = left \cup LeftBy(bad, open)
      /\ wrong' = (wrong \/ (~holds /\ ~marked /\ ~unspent))
      /\ warned' = (warned \/ (~holds /\ (marked \/ warning)))
      /\ UNCHANGED <<place, cases, catching, thrown_exception, stdioVars, socketVars, misjudged>>
  BY DEF Check
<1>3. bad \in BOOLEAN
  OBVIOUS
<1> HIDE DEF bad
<1>4. /\ \E m \in 0..Len(open) : Shrunk(m)
      /\ \/ Shrunk(0) /\ left' = left \cup Kinds(open)
         \/ Shrunk(Len(open)) /\ left' = left
      /\ failed' = (failed \/ bad)
  BY <1>1, <1>2, <1>3, WholeIsPrefix, FailingShrinks
<1>5. PICK m \in 0..Len(open) : Shrunk(m)
  BY <1>4
<1>6. OpenType' /\ NestInv' /\ JudgeInv' /\ OpenIsOn'
  BY <1>1, <1>2, <1>5, ShrunkType, ShrunkOn DEF stdioVars, socketVars
<1>7. OthersType'
  <2>1. left' \subseteq Kind
    BY <1>1, <1>4, KindsFacts, WholeIsPrefix DEF OthersType, OpenType
  <2>2. failed' \in BOOLEAN /\ wrong' \in BOOLEAN /\ warned' \in BOOLEAN
    BY <1>2, <1>4
  <2>3. QED
    BY <1>1, <1>2, <2>1, <2>2 DEF OthersType, stdioVars, socketVars
<1>8. HoleInv' /\ OnlyJumpsLeave'
  <2>1. CASE Shrunk(0) /\ left' = left \cup Kinds(open)
    <3>1. hole' = 0 /\ (hole # 0 => "catch" \in Kinds(open))
      BY <1>1, <2>1, ShrunkType DEF OpenType, Kinds
    <3>2. QED
      BY <1>1, <1>2, <2>1, <3>1 DEF Rest, HoleInv, OnlyJumpsLeave, stdioVars, socketVars
  <2>2. CASE Shrunk(Len(open)) /\ left' = left
    <3>1. open' = open /\ (hole' = 0 => hole = 0)
      BY <1>1, <2>2, ShrunkType, WholeIsPrefix DEF Shrunk, OpenType
    <3>2. QED
      BY <1>1, <1>2, <2>2, <3>1 DEF Rest, HoleInv, OnlyJumpsLeave, stdioVars, socketVars
  <2>3. QED
    BY <1>4, <2>1, <2>2
<1>9. NotHidden'
  BY <1>1, <1>2, <1>4 DEF Rest, NotHidden, MarkInv, bad
<1>10. Rest'
  BY <1>1, <1>2, <1>8, <1>9 DEF Rest, MarkInv, CleanBetween, CatchSeesItsThrow, CoutSeesItsOutput, socketVars
<1>11. QED
  BY <1>1, <1>6, <1>7, <1>10, InvPartsNext

---------------------------------------------------------------------------
(* Blocks left, with what was reported on the way: those that remain and   *)
(* those left by a jump are the ones there were but for some that ended.   *)
LEMMA KindsAround ==
  ASSUME OpenType, NEW n \in 1..Len(open)
  PROVE  Kinds(open) = Kinds(SubSeq(open, 1, n - 1)) \cup {open[n].kind}
                         \cup Kinds(SubSeq(open, n + 1, Len(open)))
<1>1. Len(open) \in Nat /\ n - 1 \in 0..Len(open) /\ n \in 0..Len(open)
  BY OpenFacts DEF OpenType
<1>2. Kinds(SubSeq(open, 1, n - 1)) = {open[i].kind : i \in 1..(n - 1)}
  BY <1>1, KindsFacts DEF OpenType
<1>3. Kinds(SubSeq(open, n + 1, Len(open))) = {open[i].kind : i \in n + 1..Len(open)}
  BY <1>1, KindsFacts DEF OpenType
<1>4. DOMAIN open = 1..(n - 1) \cup {n} \cup n + 1..Len(open)
  BY <1>1, OpenFacts, Around DEF OpenType
<1>5. QED
  BY <1>2, <1>3, <1>4 DEF Kinds

LEMMA FailingKinds ==
  ASSUME OpenType, NEW bad \in BOOLEAN, NEW m \in 0..Len(open), Failing(bad, SubSeq(open, 1, m))
  PROVE  Kinds(open') \cup LeftBy(bad, SubSeq(open, 1, m)) = Kinds(SubSeq(open, 1, m))
<1>1. CASE bad /\ ~option.continue
  <2>1. open' = SubSeq(open, 1, 0) /\ LeftBy(bad, SubSeq(open, 1, m)) = Kinds(SubSeq(open, 1, m))
    BY <1>1, FailingShrinks DEF Shrunk
  <2>2. Kinds(SubSeq(open, 1, 0)) = {}
    BY SubSeqEmpty DEF Kinds
  <2>3. QED
    BY <2>1, <2>2
<1>2. CASE ~(bad /\ ~option.continue)
  BY <1>2, FailingShrinks DEF Shrunk
<1>3. QED
  BY <1>1, <1>2

(* A Catch judges, at its end or because of what the hook intercepts.      *)
LEMMA CheckCatchInv ==
  ASSUME RegionsInv, option' = option, place = "body", NEW n \in 1..Len(open), open[n].kind = "catch",
         NEW exception, NEW due, CheckCatch(n, exception, due),
         ~open[n].nested => exception = due,
         UNCHANGED <<place, cases, stdioVars, socketVars, wrong, warned>>,
         warning' \in BOOLEAN, unspent' \in BOOLEAN, MarkInv'
  PROVE  RegionsInv'
<1>1. OpenType /\ OthersType /\ NestInv /\ JudgeInv /\ OpenIsOn /\ Rest
  BY InvParts
<1> DEFINE bad == exception # open[n].wants
<1>2. /\ catching' = FALSE /\ thrown_exception' = Nothing
      /\ Failing(bad, SubSeq(open, 1, n - 1))
      /\ left' = ((left \ {"catch"}) \cup Kinds(SubSeq(open, n + 1, Len(open))))
                   \cup LeftBy(bad, SubSeq(open, 1, n - 1))
      /\ Judged(open[n], due, exception)
  BY DEF CheckCatch
<1>3. bad \in BOOLEAN /\ n - 1 \in 0..Len(open) /\ n \in 0..Len(open) /\ Len(open) \in Nat
  BY <1>1, WholeIsPrefix
<1> HIDE DEF bad
<1>4. PICK m \in 0..(n - 1) : Shrunk(m)
  BY <1>1, <1>2, <1>3, FailingShrinks
<1>5. failed' = (failed \/ bad)
  BY <1>1, <1>2, <1>3, FailingShrinks
<1>6. n \in m + 1..Len(open)
  BY <1>3
<1>7. OpenType' /\ NestInv' /\ JudgeInv' /\ OpenIsOn'
  BY <1>1, <1>4, <1>6, ShrunkType, ShrunkOn DEF stdioVars, socketVars
<1>8. Kinds(open') \cup LeftBy(bad, SubSeq(open, 1, n - 1)) = Kinds(SubSeq(open, 1, n - 1))
  BY <1>1, <1>2, <1>3, FailingKinds
<1>9. Kinds(open) = Kinds(SubSeq(open, 1, n - 1)) \cup {"catch"} \cup Kinds(SubSeq(open, n + 1, Len(open)))
  BY <1>1, KindsAround
<1>10. left' \subseteq Kind /\ (Kinds(open) \cup left) \ {"catch"} \subseteq Kinds(open') \cup left'
  <2>1. Kinds(open) \subseteq Kind
    BY <1>1, <1>3, KindsFacts DEF OpenType
  <2>2. QED
    BY <1>1, <1>2, <1>8, <1>9, <2>1 DEF OthersType
<1>11. misjudged' = misjudged \/ (misjudged' = misjudged \cup {"catch"} /\ exception # due /\ ~open[n].nested)
  BY <1>2 DEF Judged
<1>12. misjudged' = misjudged
  BY <1>11
<1>13. OthersType'
  BY <1>1, <1>2, <1>5, <1>10, <1>12 DEF OthersType, stdioVars, socketVars
<1>14. OnlyJumpsLeave'
  BY <1>1, <1>2, <1>10 DEF Rest, OnlyJumpsLeave, stdioVars, socketVars
<1>15. Rest'
  BY <1>1, <1>2, <1>5, <1>12, <1>14
  DEF Rest, HoleInv, CleanBetween, CatchSeesItsThrow, CoutSeesItsOutput, NotHidden, socketVars
<1>16. QED
  BY <1>7, <1>13, <1>15, InvPartsNext

LEMMA EndCatchInv == ASSUME RegionsInv, option' = option, EndCatch PROVE RegionsInv'
<1>1. OpenType /\ JudgeInv
  BY InvParts
<1>2. Len(open) \in 1..Len(open) /\ Len(open) \in DOMAIN open
  BY <1>1, WholeIsPrefix DEF EndCatch
<1>3. ~Top.nested => thrown_exception = Nothing
  BY <1>1, <1>2 DEF JudgeInv, EndCatch, Top
<1>4. warning' \in BOOLEAN /\ unspent' \in BOOLEAN /\ MarkInv'
  BY InvParts DEF OthersType, EndCatch, markVars, Rest, MarkInv
<1>5. QED
  BY <1>2, <1>3, <1>4, CheckCatchInv DEF EndCatch, Top

LEMMA StopCaptureInv ==
  ASSUME RegionsInv, option' = option, NEW bad \in BOOLEAN, StopCapture(bad)
  PROVE  RegionsInv'
<1>1. OpenType /\ OthersType /\ NestInv /\ JudgeInv /\ OpenIsOn /\ Rest
  BY InvParts
<1> DEFINE n == Len(open)
<1>2. /\ n \in Nat /\ n \in 1..Len(open) /\ n \in DOMAIN open /\ n - 1 \in 0..Len(open) /\ open[n].kind = "cout"
      /\ Front(open) = SubSeq(open, 1, n - 1) /\ DOMAIN open = 1..n
  BY <1>1, WholeIsPrefix DEF StopCapture, Top
<1>3. /\ place = "body" /\ capturable' = {} /\ Judged(open[n], open[n].due, buffer)
      /\ Failing(bad, SubSeq(open, 1, n - 1))
      /\ left' = (left \ {"cout"}) \cup LeftBy(bad, SubSeq(open, 1, n - 1))
      /\ UNCHANGED <<place, cases, catching, thrown_exception, buffer, socketVars, markVars, warned, wrong>>
  BY <1>2 DEF StopCapture, Top
<1>4. PICK m \in 0..(n - 1) : Shrunk(m)
  BY <1>1, <1>2, <1>3, FailingShrinks
<1>5. failed' = (failed \/ bad)
  BY <1>1, <1>2, <1>3, FailingShrinks
<1>6. n \in m + 1..Len(open)
  BY <1>2
<1>7. OpenType' /\ NestInv' /\ JudgeInv' /\ OpenIsOn'
  BY <1>1, <1>2, <1>3, <1>4, <1>6, ShrunkType, ShrunkOn DEF socketVars
<1>8. Kinds(open') \cup LeftBy(bad, SubSeq(open, 1, n - 1)) = Kinds(SubSeq(open, 1, n - 1))
  BY <1>1, <1>2, <1>3, FailingKinds
<1>9. Kinds(open) = Kinds(SubSeq(open, 1, n - 1)) \cup {"cout"}
  <2>1. Kinds(SubSeq(open, n + 1, Len(open))) = {}
    BY <1>2, SubSeqEmpty DEF Kinds
  <2>2. QED
    BY <1>1, <1>2, <2>1, KindsAround
<1>10. left' \subseteq Kind /\ (Kinds(open) \cup left) \ {"cout"} \subseteq Kinds(open') \cup left'
  <2>1. Kinds(open) \subseteq Kind
    BY <1>1, <1>2, KindsFacts DEF OpenType
  <2>2. QED
    BY <1>1, <1>3, <1>8, <1>9, <2>1 DEF OthersType
<1>11. misjudged' = misjudged
  BY <1>1, <1>2, <1>3 DEF Judged, JudgeInv
<1>12. OthersType'
  BY <1>1, <1>3, <1>5, <1>10, <1>11 DEF OthersType, socketVars, markVars
<1>13. OnlyJumpsLeave'
  BY <1>1, <1>3, <1>10 DEF Rest, OnlyJumpsLeave, socketVars
<1>14. HoleInv'
  <2>1. CASE hole = 0
    BY <1>1, <1>3, <1>10, <2>1 DEF Rest, HoleInv, OnlyJumpsLeave
  <2>2. CASE hole # 0
    <3>1. hole \in 1..(n - 1) /\ open[hole].kind = "catch"
      BY <1>1, <1>2, <2>2 DEF OpenType
    <3>2. CASE bad /\ ~option.continue
      <4>1. "catch" \in Kinds(SubSeq(open, 1, n - 1))
        BY <1>1, <1>2, <3>1, KindsFacts DEF OpenType
      <4>2. "catch" \in left'
        BY <1>1, <1>2, <1>3, <3>2, <4>1, FailingShrinks
      <4>3. QED
        BY <4>2 DEF HoleInv
    <3>3. CASE ~(bad /\ ~option.continue)
      <4>1. Shrunk(n - 1)
        BY <1>1, <1>2, <1>3, <3>3, FailingShrinks
      <4>2. hole' = hole
        BY <1>1, <3>1, <4>1, ShrunkType
      <4>3. QED
        BY <2>2, <4>2 DEF HoleInv
    <3>4. QED
      BY <3>2, <3>3
  <2>3. QED
    BY <2>1, <2>2
<1>15. Rest'
  BY <1>1, <1>3, <1>5, <1>11, <1>13, <1>14
  DEF Rest, MarkInv, CleanBetween, CatchSeesItsThrow, CoutSeesItsOutput, NotHidden, socketVars, markVars
<1>16. QED
  BY <1>7, <1>12, <1>15, InvPartsNext

---------------------------------------------------------------------------
LEMMA StopSockInv == ASSUME RegionsInv, option' = option, StopSock PROVE RegionsInv'
<1>1. OpenType /\ OthersType /\ NestInv /\ JudgeInv /\ OpenIsOn /\ Rest
  BY InvParts
<1> DEFINE n == Len(open)
<1>2. /\ n \in Nat /\ n \in 1..Len(open) /\ n \in DOMAIN open /\ n - 1 \in 0..Len(open) /\ open[n].kind = "sock"
      /\ Front(open) = SubSeq(open, 1, n - 1) /\ DOMAIN open = 1..n
  BY <1>1, WholeIsPrefix DEF StopSock, Top
<1>3. /\ place = "body" /\ hooked' = FALSE /\ packets' = FALSE
      /\ open' = SubSeq(open, 1, n - 1) /\ left' = left \ {"sock"}
      /\ UNCHANGED <<place, exceptionVars, stdioVars, markVars, caseVars, misjudged>>
  BY <1>2 DEF StopSock, Top
<1>4. Shrunk(n - 1)
  <2>1. DOMAIN open' = 1..(n - 1)
    BY <1>1, <1>2, <1>3, PrefixFacts DEF OpenType
  <2>2. hole' = hole /\ (hole = 0 \/ hole \in 1..(n - 1))
    BY <1>1, <1>2, <1>3 DEF OpenType, exceptionVars
  <2>3. QED
    BY <1>2, <1>3, <2>1, <2>2 DEF Shrunk
<1>5. OpenType' /\ NestInv' /\ JudgeInv' /\ OpenIsOn'
  <2>1. n \in (n - 1) + 1..Len(open)
    BY <1>2
  <2>2. UNCHANGED <<catching, thrown_exception, buffer, capturable>>
    BY <1>3 DEF exceptionVars, stdioVars
  <2>3. QED
    BY <1>1, <1>2, <1>4, <2>1, <2>2, ShrunkType, ShrunkOn
<1>6. OthersType'
  BY <1>1, <1>3 DEF OthersType, exceptionVars, stdioVars, markVars, caseVars
<1>7. Kinds(open) = Kinds(open') \cup {"sock"}
  <2>1. Kinds(SubSeq(open, n + 1, Len(open))) = {}
    BY <1>2, SubSeqEmpty DEF Kinds
  <2>2. QED
    BY <1>1, <1>2, <1>3, <2>1, KindsAround
<1>8. Rest'
  BY <1>1, <1>3, <1>7 DEF Rest, HoleInv, MarkInv, OnlyJumpsLeave, CleanBetween, CatchSeesItsThrow,
     CoutSeesItsOutput, NotHidden, exceptionVars, stdioVars, markVars, caseVars
<1>9. QED
  BY <1>5, <1>6, <1>8, InvPartsNext

(* An exception that no hook intercepts: the destructors on its way.       *)
LEMMA UnwindInv ==
  ASSUME RegionsInv, option' = option, place = "body", NEW type \in Type, NEW handler \in 0..Len(open),
         NEW bad \in BOOLEAN, Unwind(type, handler, bad),
         UNCHANGED <<cases, wrong>>, warning' \in BOOLEAN, unspent' \in BOOLEAN, MarkInv'
  PROVE  RegionsInv'
<1>1. OpenType /\ OthersType /\ NestInv /\ JudgeInv /\ OpenIsOn /\ Rest
  BY InvParts
<1>2. Len(open) \in Nat /\ DOMAIN open = 1..Len(open)
  BY <1>1, WholeIsPrefix
<1> DEFINE jumps == bad /\ ~option.continue
           uncaught == ~jumps /\ handler = 0
<1>3. PICK stop \in handler..Len(open) :
        LET over == SubSeq(open, stop + 1, Len(open))
        IN  /\ IF jumps THEN open[stop + 1].kind = "cout" ELSE stop = handler
            /\ bad => "cout" \in Kinds(over)
            /\ capturable' = IF "cout" \in Kinds(over) THEN {} ELSE capturable
            /\ hooked' = (hooked /\ "sock" \notin Kinds(over))
            /\ packets' = (packets /\ "sock" \notin Kinds(over))
            /\ left' = (left \ (Kinds(over) \ {"catch"})) \cup LeftBy(bad, SubSeq(open, 1, stop))
            /\ open' = IF jumps THEN <<>> ELSE SubSeq(open, 1, handler)
            /\ hole' = IF hole \in DOMAIN open' THEN hole ELSE 0
            /\ place' = IF uncaught THEN "over" ELSE place
            /\ failed' = (failed \/ bad \/ (uncaught /\ "uncaught" \notin option.warns))
            /\ warned' = (warned \/ "exception" \in option.warns \/ (uncaught /\ "uncaught" \in option.warns))
  BY DEF Unwind
<1>4. ~catching /\ thrown_exception' = type /\ UNCHANGED <<catching, buffer, misjudged>>
  BY DEF Unwind
<1> DEFINE over == Kinds(SubSeq(open, stop + 1, Len(open)))
<1>5. stop \in 0..Len(open)
  BY <1>2
<1>6. over = {open[i].kind : i \in stop + 1..Len(open)} /\ over \subseteq Kind
  BY <1>1, <1>2, <1>5, KindsFacts DEF OpenType
<1>7. Kinds(open) = Kinds(SubSeq(open, 1, stop)) \cup over /\ Kinds(open) \subseteq Kind
  BY <1>1, <1>5, KindsFacts DEF OpenType
<1>8. /\ capturable' = IF "cout" \in over THEN {} ELSE capturable
      /\ hooked' = (hooked /\ "sock" \notin over)
      /\ packets' = (packets /\ "sock" \notin over)
      /\ left' = (left \ (over \ {"catch"})) \cup LeftBy(bad, SubSeq(open, 1, stop))
  BY <1>3
<1> HIDE DEF over
<1>9. \E m \in 0..stop : Shrunk(m)
  <2>1. SubSeq(open, 1, 0) = <<>>
    BY SubSeqEmpty
  <2>2. QED
    BY <1>2, <1>3, <1>5, <2>1 DEF Shrunk
<1>10. PICK m \in 0..stop : Shrunk(m)
  BY <1>9
<1>11. \A i \in stop + 1..Len(open) : i \in m + 1..Len(open)
  BY <1>2, <1>5
<1>12. OpenType' /\ NestInv' /\ JudgeInv' /\ OpenIsOn'
  <2>1. UNCHANGED capturable \/ \E j \in m + 1..Len(open) : open[j].kind = "cout"
    BY <1>6, <1>8, <1>11
  <2>2. UNCHANGED hooked \/ \E j \in m + 1..Len(open) : open[j].kind = "sock"
    BY <1>1, <1>6, <1>8, <1>11 DEF OthersType
  <2>3. QED
    BY <1>1, <1>4, <1>10, <2>1, <2>2, ShrunkType, ShrunkOn
<1>13. /\ left \ (over \ {"catch"}) \subseteq left' /\ left' \subseteq Kind
       /\ Kinds(SubSeq(open, 1, stop)) \subseteq Kinds(open') \cup left'
  <2>1. CASE jumps
    <3>1. LeftBy(bad, SubSeq(open, 1, stop)) = Kinds(SubSeq(open, 1, stop))
      BY <2>1 DEF LeftBy
    <3>2. QED
      BY <1>1, <1>7, <1>8, <3>1 DEF OthersType
  <2>2. CASE ~jumps
    <3>1. LeftBy(bad, SubSeq(open, 1, stop)) = {} /\ open' = SubSeq(open, 1, stop)
      BY <1>3, <2>2 DEF LeftBy
    <3>2. QED
      BY <1>1, <1>8, <3>1 DEF OthersType
  <2>3. QED
    BY <2>1, <2>2
<1>14. OthersType'
  <2>1. /\ place' \in {"body", "over"} /\ failed' \in BOOLEAN /\ warned' \in BOOLEAN
        /\ hooked' \in BOOLEAN /\ packets' \in BOOLEAN
    BY <1>3
  <2>2. QED
    BY <1>1, <1>4, <1>8, <1>13, <2>1 DEF OthersType
<1>15. OnlyJumpsLeave' /\ CleanBetween' /\ HoleInv'
  <2>1. place' \in {"body", "over"}
    BY <1>3
  <2>2. ~catching'
    BY <1>4
  <2>3. capturable' # {} => "cout" \in Kinds(open') \cup left'
    BY <1>1, <1>7, <1>8, <1>13 DEF Rest, OnlyJumpsLeave
  <2>4. hooked' => "sock" \in Kinds(open') \cup left'
    BY <1>1, <1>7, <1>8, <1>13 DEF Rest, OnlyJumpsLeave
  <2>5. QED
    BY <2>1, <2>2, <2>3, <2>4 DEF OnlyJumpsLeave, CleanBetween, HoleInv
<1>16. NotHidden'
  BY <1>1, <1>3 DEF Rest, NotHidden
<1>17. Rest'
  BY <1>1, <1>4, <1>15, <1>16 DEF Rest, CatchSeesItsThrow, CoutSeesItsOutput
<1>18. QED
  BY <1>12, <1>14, <1>17, InvPartsNext

(* The hook jumps through a hole whose Catch was left before.              *)
LEMMA LostInv ==
  ASSUME RegionsInv, option' = option, NEW type \in Type,
         catching, hole = 0, place' = "lost", thrown_exception' = type,
         UNCHANGED <<open, catching, hole, failed, left, misjudged, stdioVars, socketVars, warned, cases, wrong>>,
         warning' \in BOOLEAN, unspent' \in BOOLEAN, MarkInv'
  PROVE  RegionsInv'
<1>1. OpenType /\ OthersType /\ NestInv /\ JudgeInv /\ OpenIsOn /\ Rest
  BY InvParts
<1>2. OpenType' /\ NestInv'
  BY <1>1 DEF OpenType, NestInv
<1>3. OthersType'
  BY <1>1 DEF OthersType, stdioVars, socketVars
<1>4. OpenIsOn'
  BY <1>1 DEF OpenIsOn, stdioVars, socketVars
<1>5. \A i \in DOMAIN open : ~open[i].nested => open[i].kind # "catch"
  BY <1>1, WholeIsPrefix DEF OpenIsOn
<1>6. JudgeInv'
  BY <1>1, <1>5 DEF JudgeInv, stdioVars
<1>7. Rest'
  BY <1>1 DEF Rest, HoleInv, OnlyJumpsLeave, CleanBetween, CatchSeesItsThrow, CoutSeesItsOutput, NotHidden,
     Kinds, stdioVars, socketVars
<1>8. QED
  BY <1>2, <1>3, <1>4, <1>6, <1>7, InvPartsNext

LEMMA ThrowInv ==
  ASSUME RegionsInv, option' = option, NEW type \in Type, NEW handler \in 0..Len(open),
         NEW bad \in BOOLEAN, NEW marked \in BOOLEAN, Throw(type, handler, bad, marked)
  PROVE  RegionsInv'
<1>1. OpenType /\ OthersType /\ Rest
  BY InvParts
<1>2. /\ place = "body" /\ UNCHANGED <<cases, wrong>>
      /\ warning' = (warning \/ marked) /\ unspent' = (unspent \/ marked)
  BY DEF Throw
<1>3. warning' \in BOOLEAN /\ unspent' \in BOOLEAN /\ MarkInv'
  BY <1>1, <1>2 DEF Rest, MarkInv
<1>4. CASE Unwind(type, handler, bad)
  BY <1>2, <1>3, <1>4, UnwindInv
<1>5. CASE /\ hole > 0 /\ CheckCatch(hole, type, type)
           /\ UNCHANGED place /\ UNCHANGED <<stdioVars, socketVars, warned>>
  <2>1. hole # 0
    BY <1>5
  <2>2. hole \in 1..Len(open) /\ open[hole].kind = "catch"
    BY <1>1, <2>1, WholeIsPrefix DEF OpenType
  <2>3. QED
    BY <1>2, <1>3, <1>5, <2>2, CheckCatchInv
<1>6. CASE /\ catching /\ hole = 0 /\ place' = "lost" /\ thrown_exception' = type
           /\ UNCHANGED <<open, catching, hole, failed, left, misjudged>>
           /\ UNCHANGED <<stdioVars, socketVars, warned>>
  BY <1>2, <1>3, <1>6, LostInv
<1>7. QED
  BY <1>4, <1>5, <1>6 DEF Throw, Jump

---------------------------------------------------------------------------
LEMMA InitInv == RegionsInit => RegionsInv
<1> SUFFICES ASSUME RegionsInit PROVE RegionsInv
  OBVIOUS
<1>1. OpenType
  BY EmptySeq, RegionsAssumption DEF RegionsInit, OpenType
<1>2. OthersType
  <2>1. buffer \in Seq(Stream) /\ 0 \in 0..MaxCase
    BY EmptySeq, RegionsAssumption DEF RegionsInit
  <2>2. QED
    BY <2>1 DEF RegionsInit, OthersType
<1>3. NestInv /\ JudgeInv /\ OpenIsOn
  BY DEF RegionsInit, NestInv, JudgeInv, OpenIsOn
<1>4. Rest
  BY DEF RegionsInit, Rest, HoleInv, MarkInv, OnlyJumpsLeave, CleanBetween, CatchSeesItsThrow,
     CoutSeesItsOutput, NotHidden
<1>5. QED
  BY <1>1, <1>2, <1>3, <1>4, InvParts

LEMMA StepInv == RegionsInv /\ [RegionsNext]_vars => RegionsInv'
<1> SUFFICES ASSUME RegionsInv, [RegionsNext]_vars PROVE RegionsInv'
  OBVIOUS
<1>1. CASE UNCHANGED vars
  <2>1. OpenType' /\ OthersType' /\ NestInv' /\ JudgeInv' /\ OpenIsOn'
    BY <1>1, InvParts DEF vars, OpenType, OthersType, NestInv, JudgeInv, OpenIsOn
  <2>2. Rest'
    BY <1>1, InvParts DEF vars, Rest, HoleInv, MarkInv, OnlyJumpsLeave, CleanBetween, CatchSeesItsThrow,
       CoutSeesItsOutput, NotHidden, Kinds
  <2>3. QED
    BY <2>1, <2>2, InvPartsNext
<1>2. CASE RegionsNext
  <2>1. option' = option
    BY <1>2 DEF RegionsNext
  <2>2. CASE Begin \/ Clear \/ Send \/ StartSock \/ StopSock \/ EndCatch
    BY <2>1, <2>2, BeginInv, ClearInv, SendInv, StartSockInv, StopSockInv, EndCatchInv
  <2>3. ASSUME NEW type \in Type \cup {Nothing}, TryCatch(type) PROVE RegionsInv'
    BY <2>1, <2>3, TryCatchInv
  <2>4. ASSUME NEW streams \in SUBSET Stream \ {{}}, StartCapture(streams) PROVE RegionsInv'
    BY <2>1, <2>4, StartCaptureInv
  <2>5. ASSUME NEW stream \in Stream, Output(stream) PROVE RegionsInv'
    BY <2>1, <2>5, OutputInv
  <2>6. ASSUME NEW holds \in BOOLEAN, NEW marked \in BOOLEAN, Check(holds, marked) PROVE RegionsInv'
    BY <2>1, <2>6, CheckInv
  <2>7. ASSUME NEW bad \in BOOLEAN, StopCapture(bad) PROVE RegionsInv'
    BY <2>1, <2>7, StopCaptureInv
  <2>8. ASSUME NEW type \in Type, NEW handler \in 0..Len(open), NEW bad \in BOOLEAN, NEW marked \in BOOLEAN,
               Throw(type, handler, bad, marked)
        PROVE RegionsInv'
    BY <2>1, <2>8, ThrowInv
  <2>9. QED
    BY <1>2, <2>2, <2>3, <2>4, <2>5, <2>6, <2>7, <2>8 DEF RegionsNext
<1>3. QED
  BY <1>1, <1>2

LEMMA RegionsInvariant == RegionsSpec => []RegionsInv
BY InitInv, StepInv, PTL DEF RegionsSpec

(* The state of every hook object has its type, and catch_hole belongs to  *)
(* a Catch that is open or to none.                                        *)
THEOREM RegionsTypeCorrect == RegionsSpec => []RegionsTypeOK
<1>1. RegionsInv => RegionsTypeOK
  BY DEF RegionsInv
<1>2. QED
  BY <1>1, RegionsInvariant, PTL

(* Whatever blocks are opened inside it and however they are left, a block *)
(* judges what happened inside it and nothing else.                        *)
THEOREM EachJudgesItsOwn == RegionsSpec => []JudgesItsOwn
<1>1. RegionsInv => JudgesItsOwn
  BY DEF RegionsInv, JudgesItsOwn
<1>2. QED
  BY <1>1, RegionsInvariant, PTL

(* A block is in force from its start to its end, and after it only where  *)
(* it was left by a jump.                                                  *)
THEOREM EachInForceInside == RegionsSpec => []InForceInside
<1>1. RegionsInv => InForceInside
  BY DEF RegionsInv, InForceInside
<1>2. QED
  BY <1>1, RegionsInvariant, PTL
=============================================================================
