------------------------------ MODULE ShellRCProofs ------------------------------
(***************************************************************************)
(* The PATH block of dropzone in the rc files: for any files, any text the  *)
(* user puts in, and any number of dz processes, commands and breaks.       *)
(***************************************************************************)
EXTENDS ShellRC, FiniteSetTheorems, SequenceTheorems, WellFoundedInduction, TLAPS

-------------------------------------------------------------------------------
\* Sequences of tokens

\* No marker of dropzone.
Clean(s) == \A i \in 1..Len(s) : s[i] # RCMarkerStart /\ s[i] # RCMarkerEnd

\* The block is at position k.
BlockAt(s, k) ==
    /\ k \in 1..(Len(s) - 6)
    /\ \A j \in 1..7 : s[k + j - 1] = Block[j]

\* The block, once, and no other marker.
OneBlock(s) ==
    \E k \in 1..Len(s) :
        /\ BlockAt(s, k)
        /\ \A i \in 1..Len(s) : /\ s[i] = RCMarkerStart => i = k + 1
                                /\ s[i] = RCMarkerEnd => i = k + 5

LEMMA BlockTokens ==
  /\ Len(Block) = 7 /\ DOMAIN Block = 1..7 /\ Block \in Seq(Tokens)
  /\ Block[1] = "nl" /\ Block[2] = RCMarkerStart /\ Block[3] = "nl"
  /\ Block[4] = "export PATH" /\ Block[5] = "nl" /\ Block[6] = RCMarkerEnd /\ Block[7] = "nl"
<1>1. /\ Len(Block) = 7 /\ DOMAIN Block = 1..7
      /\ Block[1] = "nl" /\ Block[2] = RCMarkerStart /\ Block[3] = "nl"
      /\ Block[4] = "export PATH" /\ Block[5] = "nl" /\ Block[6] = RCMarkerEnd /\ Block[7] = "nl"
  BY DEF Block
<1>2. {"nl", RCMarkerStart, "export PATH", RCMarkerEnd} \subseteq Tokens
  <2>1. \A i \in 1..7 : Block[i] \in Range(Block)
    BY <1>1 DEF Range
  <2>2. {Block[1], Block[2], Block[4], Block[6]} \subseteq Range(Block)
    BY <2>1
  <2> QED BY <1>1, <2>2 DEF Tokens
<1>3. Block \in Seq(Tokens)
  <2>1. \A i \in 1..7 : Block[i] \in Tokens
    <3>1. \A i \in 1..7 : i = 1 \/ i = 2 \/ i = 3 \/ i = 4 \/ i = 5 \/ i = 6 \/ i = 7
      OBVIOUS
    <3> QED BY <1>1, <1>2, <3>1
  <2>2. Block = [i \in 1..7 |-> Block[i]]
    BY DEF Block
  <2>3. Block \in [1..7 -> Tokens]
    BY <2>1, <2>2
  <2> QED BY <2>3, SeqDef
<1> QED BY <1>1, <1>3

\* Text and line ends are no markers.
LEMMA TextTokens ==
  /\ "nl" \in Tokens /\ Texts \subseteq Tokens /\ Torn \in Tokens
  /\ RCMarkerStart # RCMarkerEnd
  /\ \A t \in Texts \cup {"nl"} : t # RCMarkerStart /\ t # RCMarkerEnd
<1>1. {"nl", RCMarkerStart, RCMarkerEnd} \subseteq Range(Block)
  <2>1. \A i \in 1..7 : Block[i] \in Range(Block)
    BY BlockTokens DEF Range
  <2>2. {Block[1], Block[2], Block[6]} \subseteq Range(Block)
    BY <2>1
  <2> QED BY <2>2, BlockTokens
<1> QED BY <1>1, ShellAssumption DEF Tokens, RCMarkerStart, RCMarkerEnd

\* A file of the user with the block appended has one.
LEMMA AppendedBlock ==
  ASSUME NEW s \in Seq(Tokens), Clean(s)
  PROVE  OneBlock(s \o Block)
<1> DEFINE t == s \o Block  k == Len(s) + 1
<1>1. /\ Len(t) = Len(s) + 7
      /\ \A i \in 1..(Len(s) + 7) : t[i] = IF i <= Len(s) THEN s[i] ELSE Block[i - Len(s)]
  <2>1. Block \in Seq(Tokens) /\ Len(Block) = 7
    BY BlockTokens
  <2>2. /\ Len(s \o Block) = Len(s) + Len(Block)
        /\ \A i \in 1..Len(s) + Len(Block) :
              (s \o Block)[i] = IF i <= Len(s) THEN s[i] ELSE Block[i - Len(s)]
    BY <2>1, ConcatProperties
  <2> QED BY <2>1, <2>2
<1>2. BlockAt(t, k)
  BY <1>1 DEF BlockAt
<1>3. \A j \in 1..7 : /\ Block[j] = RCMarkerStart => j = 2
                      /\ Block[j] = RCMarkerEnd => j = 6
  <2>1. \A j \in 1..7 : j = 1 \/ j = 2 \/ j = 3 \/ j = 4 \/ j = 5 \/ j = 6 \/ j = 7
    OBVIOUS
  <2>2. /\ "nl" # RCMarkerStart /\ "nl" # RCMarkerEnd /\ RCMarkerStart # RCMarkerEnd
        /\ "export PATH" # RCMarkerStart /\ "export PATH" # RCMarkerEnd
    BY DEF RCMarkerStart, RCMarkerEnd
  <2> QED BY <2>1, <2>2, BlockTokens
<1>4. ASSUME NEW i \in 1..Len(t)
      PROVE  (t[i] = RCMarkerStart => i = k + 1) /\ (t[i] = RCMarkerEnd => i = k + 5)
  <2>1. CASE i <= Len(s)
    <3> HIDE DEF t, k
    <3>1. i \in 1..Len(s) /\ t[i] = s[i]
      BY <1>1, <2>1
    <3> QED BY <3>1 DEF Clean
  <2>2. CASE ~(i <= Len(s))
    <3>1. i - Len(s) \in 1..7 /\ t[i] = Block[i - Len(s)]
      BY <1>1, <2>2
    <3>2. k = Len(s) + 1 /\ Len(s) \in Nat /\ i \in Int
      BY <1>1
    <3> HIDE DEF t, k
    <3>3. /\ t[i] = RCMarkerStart => i - Len(s) = 2
          /\ t[i] = RCMarkerEnd => i - Len(s) = 6
      BY <1>3, <3>1
    <3> QED BY <3>2, <3>3
  <2> QED BY <2>1, <2>2
<1>5. k \in 1..Len(t)
  BY <1>1
<1> HIDE DEF t, k
<1> QED BY <1>2, <1>4, <1>5 DEF OneBlock, t

\* Where the properties see a block.
LEMMA BlocksAre ==
  ASSUME NEW s \in Seq(Tokens)
  PROVE  Blocks(s) = {i \in 1..(Len(s) - 6) : BlockAt(s, i)}
<1>1. ASSUME NEW i \in 1..(Len(s) - 6)
      PROVE  /\ Len(SubSeq(s, i, i + 6)) = 7
             /\ \A j \in 1..7 : SubSeq(s, i, i + 6)[j] = s[i + j - 1]
             /\ SubSeq(s, i, i + 6) \in Seq(Tokens)
  BY SubSeqProperties, SMTT(30)
<1>2. ASSUME NEW i \in 1..(Len(s) - 6)
      PROVE  SubSeq(s, i, i + 6) = Block <=> BlockAt(s, i)
  <2> DEFINE u == SubSeq(s, i, i + 6)
  <2>1. u \in Seq(Tokens) /\ Len(u) = 7 /\ Block \in Seq(Tokens) /\ Len(Block) = 7
    BY <1>1, BlockTokens
  <2>2. u = Block <=> \A j \in 1..7 : u[j] = Block[j]
    <3> HIDE DEF u
    <3> QED BY <2>1
  <2>3. \A j \in 1..7 : u[j] = s[i + j - 1]
    BY <1>1
  <2> HIDE DEF u
  <2>4. u = Block <=> BlockAt(s, i)
    BY <2>2, <2>3 DEF BlockAt
  <2> QED BY <2>4 DEF u
<1>3. Blocks(s) = {i \in 1..(Len(s) - 6) : SubSeq(s, i, i + 6) = Block}
  <2>1. Len(Block) = 7
    BY BlockTokens
  <2>2. \A i \in Int : i + Len(Block) - 1 = i + 6
    BY <2>1
  <2>3. \A i \in Int : SubSeq(s, i, i + Len(Block) - 1) = SubSeq(s, i, i + 6)
    BY <2>2
  <2>4. Len(s) \in Nat
    OBVIOUS
  <2>5. Len(s) - Len(Block) + 1 = Len(s) - 6
    BY <2>1, <2>4
  <2>6. ASSUME NEW i \in 1..(Len(s) - 6)
        PROVE  SubSeq(s, i, i + Len(Block) - 1) = SubSeq(s, i, i + 6)
    BY <2>3
  <2> DEFINE n == Len(Block)
  <2>7. Blocks(s) = {i \in 1..(Len(s) - 6) : SubSeq(s, i, i + n - 1) = Block}
    BY <2>5 DEF Blocks
  <2>8. \A i \in 1..(Len(s) - 6) : SubSeq(s, i, i + n - 1) = SubSeq(s, i, i + 6)
    BY <2>6
  <2> HIDE DEF n
  <2> QED BY <2>7, <2>8
<1> QED BY <1>2, <1>3

\* One block is one block as the properties count them.
LEMMA CountedOnce ==
  ASSUME NEW s \in Seq(Tokens), OneBlock(s)
  PROVE  Cardinality(Blocks(s)) = 1
<1>1. PICK k \in 1..Len(s) :
        /\ BlockAt(s, k)
        /\ \A i \in 1..Len(s) : s[i] = RCMarkerStart => i = k + 1
  BY DEF OneBlock
<1>2. ASSUME NEW i \in 1..(Len(s) - 6), BlockAt(s, i) PROVE i = k
  <2>1. i + 1 \in 1..Len(s) /\ i + 2 - 1 = i + 1
    OBVIOUS
  <2>2. s[i + 2 - 1] = RCMarkerStart
    <3>1. \A j \in 1..7 : s[i + j - 1] = Block[j]
      BY <1>2 DEF BlockAt
    <3>2. s[i + 2 - 1] = Block[2]
      BY <3>1
    <3> QED BY <3>2, BlockTokens
  <2>3. i + 1 = k + 1
    BY <1>1, <2>1, <2>2
  <2> QED BY <2>3
<1>3. Blocks(s) = {i \in 1..(Len(s) - 6) : BlockAt(s, i)}
  BY BlocksAre
<1>4. k \in 1..(Len(s) - 6)
  BY <1>1 DEF BlockAt
<1>5. Blocks(s) = {k}
  BY <1>1, <1>2, <1>3, <1>4
<1> QED BY <1>5, FS_Singleton

\* A set of naturals has a least element.
LEMMA Least ==
  ASSUME NEW T \in SUBSET Nat, T # {}
  PROVE  \E x \in T : \A y \in T : x <= y
<1>1. PICK x \in T : \A y \in T : ~(<<y, x>> \in OpToRel(<, Nat))
  BY NatLessThanWellFounded, WFMin
<1>2. \A y \in T : ~(y < x)
  BY <1>1 DEF OpToRel
<1>3. x \in T
  BY <1>1, Zenon
<1> QED BY <1>2, <1>3

\* The position of the first start marker, 0 without one.
Start(s) == SelectInSeq(s, LAMBDA t : t = RCMarkerStart)

LEMMA StartProperty ==
  ASSUME NEW s \in Seq(Tokens)
  PROVE  /\ Start(s) = 0 => ~containsMarker(s)
         /\ Start(s) # 0 => /\ Start(s) \in 1..Len(s)
                            /\ s[Start(s)] = RCMarkerStart
                            /\ \A i \in 1..Len(s) : s[i] = RCMarkerStart => Start(s) <= i
<1> DEFINE I == {i \in 1..Len(s) : s[i] = RCMarkerStart}
<1>1. Start(s) = IF I # {} THEN Min(I) ELSE 0
  BY DEF Start, SelectInSeq
<1>2. ASSUME I # {} PROVE Min(I) \in I /\ \A i \in I : Min(I) <= i
  <2>1. I \in SUBSET Nat
    OBVIOUS
  <2>2. \E x \in I : \A y \in I : x =< y
    <3> HIDE DEF I
    <3> QED BY <1>2, <2>1, Least
  <2> HIDE DEF I
  <2> QED BY <2>2 DEF Min
<1>3. CASE I = {}
  BY <1>1, <1>3 DEF containsMarker, Contains
<1>4. CASE I # {}
  <2>1. Start(s) = Min(I) /\ Min(I) \in I /\ \A i \in I : Min(I) <= i
    BY <1>1, <1>2, <1>4
  <2> QED BY <2>1
<1> QED BY <1>3, <1>4

\* What the strip returns: the file, or what is before and after a range.
LEMMA StripProperty ==
  ASSUME NEW s \in Seq(Tokens)
  PROVE  \/ stripMarkerBlock(s) = s
         \/ \E end \in 1..Len(s), from \in 1..Len(s), to \in 1..Len(s) :
               /\ s[end] = RCMarkerEnd
               /\ Start(s) \in 1..end
               /\ from \in {Start(s), Start(s) - 1} /\ to \in {end, end + 1}
               /\ stripMarkerBlock(s) = SubSeq(s, 1, from - 1) \o SubSeq(s, to + 1, Len(s))
<1> DEFINE start == Start(s)
           ends == {i \in start..Len(s) : s[i] = RCMarkerEnd}
           end == CHOOSE i \in ends : \A j \in ends : i <= j
           from == IF start > 1 /\ s[start - 1] = "nl" THEN start - 1 ELSE start
           to == IF end < Len(s) /\ s[end + 1] = "nl" THEN end + 1 ELSE end
<1>1. stripMarkerBlock(s) = IF start = 0 \/ ends = {} THEN s
                            ELSE SubSeq(s, 1, from - 1) \o SubSeq(s, to + 1, Len(s))
  BY DEF stripMarkerBlock, Start
<1>2. CASE start = 0 \/ ends = {}
  BY <1>1, <1>2
<1>3. CASE ~(start = 0 \/ ends = {})
  <2>1. start \in 1..Len(s)
    BY <1>3, StartProperty
  <2>2. end \in ends
    <3>1. ends \in SUBSET Nat
      BY <2>1
    <3>2. \E i \in ends : \A j \in ends : i <= j
      <4> HIDE DEF ends
      <4> QED BY <1>3, <3>1, Least
    <3> HIDE DEF ends
    <3> QED BY <3>2
  <2>3. end \in start..Len(s) /\ s[end] = RCMarkerEnd
    <3> HIDE DEF end
    <3> QED BY <2>2
  <2>4. stripMarkerBlock(s) = SubSeq(s, 1, from - 1) \o SubSeq(s, to + 1, Len(s))
    <3> HIDE DEF start, ends, end, from, to
    <3> QED BY <1>1, <1>3
  <2>5. /\ from \in 1..Len(s) /\ from \in {start, start - 1}
        /\ to \in 1..Len(s) /\ to \in {end, end + 1}
    <3> HIDE DEF start, end
    <3> QED BY <2>1, <2>3
  <2>6. end \in 1..Len(s) /\ start \in 1..end
    <3> HIDE DEF start, end
    <3> QED BY <2>1, <2>3
  <2> HIDE DEF end, from, to
  <2> QED BY <2>3, <2>4, <2>5, <2>6
<1> QED BY <1>2, <1>3

\* The pieces of a sequence on both sides of a range.
LEMMA Around ==
  ASSUME NEW s \in Seq(Tokens), NEW from \in 1..Len(s), NEW to \in 0..Len(s)
  PROVE  LET u == SubSeq(s, 1, from - 1) \o SubSeq(s, to + 1, Len(s)) IN
         /\ u \in Seq(Tokens)
         /\ \A i \in 1..Len(u) : \E j \in 1..Len(s) :
               (j < from \/ j > to) /\ u[i] = s[j]
<1> DEFINE a == SubSeq(s, 1, from - 1)  b == SubSeq(s, to + 1, Len(s))  n == Len(s)
<1>0. n \in Nat /\ \A i \in 1..n : s[i] \in Tokens
  BY ElementOfSeq
<1>1. /\ a \in Seq(Tokens) /\ Len(a) = from - 1
      /\ \A i \in 1..(from - 1) : a[i] = s[i]
  <2>1. 1 \in Int /\ from - 1 \in Int /\ \A i \in 1..(from - 1) : s[i] \in Tokens
    BY <1>0
  <2>2. /\ a \in Seq(Tokens) /\ Len(a) = IF 1 <= from - 1 THEN from - 1 - 1 + 1 ELSE 0
        /\ \A i \in 1..(from - 1 - 1 + 1) : a[i] = s[1 + i - 1]
    BY <2>1, SubSeqProperties
  <2> HIDE DEF a
  <2>3. \A i \in 1..(from - 1) : 1 + i - 1 = i
    OBVIOUS
  <2>4. \A i \in 1..(from - 1) : a[i] = s[i]
    BY <2>2, <2>3
  <2> QED BY <2>2, <2>4
<1>2. /\ b \in Seq(Tokens) /\ Len(b) = n - to
      /\ \A i \in 1..(n - to) : b[i] = s[to + i]
  <2>1. to + 1 \in Int /\ n \in Int /\ \A i \in (to + 1)..n : s[i] \in Tokens
    BY <1>0
  <2>2. /\ b \in Seq(Tokens) /\ Len(b) = IF to + 1 <= n THEN n - (to + 1) + 1 ELSE 0
        /\ \A i \in 1..(n - (to + 1) + 1) : b[i] = s[to + 1 + i - 1]
    BY <2>1, SubSeqProperties
  <2> HIDE DEF b
  <2>3. \A i \in 1..(n - to) : to + 1 + i - 1 = to + i
    BY <1>0
  <2>4. n - (to + 1) + 1 = n - to
    BY <1>0
  <2>5. \A i \in 1..(n - to) : b[i] = s[to + i]
    BY <2>2, <2>3, <2>4
  <2>6. Len(b) = n - to
    <3> HIDE DEF n
    <3> QED BY <1>0, <2>2 DEF n
  <2> QED BY <2>2, <2>5, <2>6
<1> DEFINE u == a \o b
<1>3. /\ u \in Seq(Tokens) /\ Len(u) = Len(a) + Len(b)
      /\ \A i \in 1..(Len(a) + Len(b)) : u[i] = IF i <= Len(a) THEN a[i] ELSE b[i - Len(a)]
  <2> HIDE DEF a, b
  <2> QED BY <1>1, <1>2, ConcatProperties
<1>4. ASSUME NEW i \in 1..Len(u)
      PROVE  \E j \in 1..n : (j < from \/ j > to) /\ u[i] = s[j]
  <2> HIDE DEF a, b, u
  <2>1. CASE i <= Len(a)
    <3>1. u[i] = a[i] /\ i \in 1..(from - 1) /\ i \in 1..n
      BY <1>0, <1>1, <1>2, <1>3, <2>1 DEF n
    <3> QED BY <1>1, <3>1
  <2>2. CASE ~(i <= Len(a))
    <3> DEFINE k == i - Len(a)
    <3>1. u[i] = b[k] /\ k \in 1..(n - to)
      BY <1>0, <1>1, <1>2, <1>3, <2>2 DEF n
    <3> HIDE DEF k
    <3>2. u[i] = s[to + k] /\ to + k \in 1..n /\ to + k > to
      BY <1>0, <1>2, <3>1 DEF n
    <3> QED BY <3>2
  <2> QED BY <2>1, <2>2
<1> QED BY <1>3, <1>4

\* A strip returns a file of tokens, and one without markers when the block was
\* there once.
LEMMA StripTyped ==
  ASSUME NEW s \in Seq(Tokens)
  PROVE  stripMarkerBlock(s) \in Seq(Tokens)
<1>1. CASE stripMarkerBlock(s) = s
  BY <1>1
<1>2. ASSUME NEW from \in 1..Len(s), NEW to \in 1..Len(s),
             stripMarkerBlock(s) = SubSeq(s, 1, from - 1) \o SubSeq(s, to + 1, Len(s))
      PROVE  stripMarkerBlock(s) \in Seq(Tokens)
  <2>1. to \in 0..Len(s)
    OBVIOUS
  <2> QED BY <1>2, <2>1, Around
<1> QED BY <1>1, <1>2, StripProperty

LEMMA StripClean ==
  ASSUME NEW s \in Seq(Tokens), OneBlock(s)
  PROVE  Clean(stripMarkerBlock(s))
<1>1. PICK k \in 1..Len(s) :
        /\ BlockAt(s, k)
        /\ \A i \in 1..Len(s) : /\ s[i] = RCMarkerStart => i = k + 1
                                /\ s[i] = RCMarkerEnd => i = k + 5
  BY DEF OneBlock
<1>2. /\ s[k + 1] = RCMarkerStart /\ s[k + 5] = RCMarkerEnd
      /\ k + 1 \in 1..Len(s) /\ k + 5 \in 1..Len(s)
  <2>1. \A j \in 1..7 : s[k + j - 1] = Block[j]
    BY <1>1 DEF BlockAt
  <2>2. s[k + 2 - 1] = Block[2] /\ s[k + 6 - 1] = Block[6]
    BY <2>1
  <2>3. k + 2 - 1 = k + 1 /\ k + 6 - 1 = k + 5
    OBVIOUS
  <2>4. k \in 1..(Len(s) - 6)
    BY <1>1 DEF BlockAt
  <2>5. s[k + 1] = RCMarkerStart /\ s[k + 5] = RCMarkerEnd
    BY <2>2, <2>3, BlockTokens
  <2>6. k + 1 \in 1..Len(s) /\ k + 5 \in 1..Len(s)
    BY <2>4
  <2> QED BY <2>5, <2>6
<1>3. Start(s) = k + 1
  <2>1. Start(s) # 0
    BY <1>2, StartProperty DEF containsMarker, Contains
  <2> QED BY <1>1, <2>1, StartProperty
<1>4. stripMarkerBlock(s) # s
  <2> SUFFICES ASSUME stripMarkerBlock(s) = s PROVE FALSE
    OBVIOUS
  <2> DEFINE ends == {i \in Start(s)..Len(s) : s[i] = RCMarkerEnd}
             end == CHOOSE i \in ends : \A j \in ends : i <= j
             from == IF Start(s) > 1 /\ s[Start(s) - 1] = "nl" THEN Start(s) - 1 ELSE Start(s)
             to == IF end < Len(s) /\ s[end + 1] = "nl" THEN end + 1 ELSE end
  <2>1. ends = {k + 5}
    BY <1>1, <1>2, <1>3
  <2>2. end = k + 5
    <3> HIDE DEF ends
    <3>1. k + 5 <= k + 5
      OBVIOUS
    <3> QED BY <2>1, <3>1
  <2>3. stripMarkerBlock(s) = IF Start(s) = 0 \/ ends = {} THEN s
                              ELSE SubSeq(s, 1, from - 1) \o SubSeq(s, to + 1, Len(s))
    BY DEF stripMarkerBlock, Start
  <2>4. stripMarkerBlock(s) = SubSeq(s, 1, from - 1) \o SubSeq(s, to + 1, Len(s))
    <3>1. Start(s) # 0 /\ ends # {}
      BY <1>3, <2>1
    <3> HIDE DEF ends, end, from, to
    <3> QED BY <2>3, <3>1
  <2>5. from \in 1..(k + 1) /\ to \in (k + 5)..Len(s)
    <3> HIDE DEF end
    <3> QED BY <1>2, <1>3, <2>2
  <2> HIDE DEF ends, end, from, to
  <2>6. from \in 1..Len(s) /\ to \in 0..Len(s)
    BY <1>2, <2>5
  <2> DEFINE w == SubSeq(s, 1, from - 1) \o SubSeq(s, to + 1, Len(s))
  <2>7. \A i \in 1..Len(w) : \E j \in 1..Len(s) : (j < from \/ j > to) /\ w[i] = s[j]
    BY <2>6, Around
  <2>8. w = s
    BY <2>4
  <2> HIDE DEF w
  <2>9. PICK j \in 1..Len(s) : (j < from \/ j > to) /\ s[k + 5] = s[j]
    BY <1>2, <2>7, <2>8
  <2>10. j = k + 5
    BY <1>1, <1>2, <2>9
  <2> QED BY <2>5, <2>9, <2>10
<1>5. PICK end \in 1..Len(s), from \in 1..Len(s), to \in 1..Len(s) :
        /\ s[end] = RCMarkerEnd
        /\ from \in {Start(s), Start(s) - 1} /\ to \in {end, end + 1}
        /\ stripMarkerBlock(s) = SubSeq(s, 1, from - 1) \o SubSeq(s, to + 1, Len(s))
  BY <1>4, StripProperty
<1>6. end = k + 5
  BY <1>1, <1>5
<1>7. from <= k + 1 /\ to >= k + 5 /\ to \in 0..Len(s)
  BY <1>3, <1>5, <1>6
<1> DEFINE u == stripMarkerBlock(s)
           w == SubSeq(s, 1, from - 1) \o SubSeq(s, to + 1, Len(s))
<1>8. \A i \in 1..Len(u) : \E j \in 1..Len(s) : (j < from \/ j > to) /\ u[i] = s[j]
  <2>1. \A i \in 1..Len(w) : \E j \in 1..Len(s) : (j < from \/ j > to) /\ w[i] = s[j]
    BY <1>7, Around
  <2>2. u = w
    BY <1>5
  <2> HIDE DEF u, w
  <2> QED BY <2>1, <2>2
<1> HIDE DEF u, w
<1>9. ASSUME NEW i \in 1..Len(u)
      PROVE  u[i] # RCMarkerStart /\ u[i] # RCMarkerEnd
  <2>1. PICK j \in 1..Len(s) : (j < from \/ j > to) /\ u[i] = s[j]
    BY <1>8
  <2>2. j # k + 1 /\ j # k + 5
    BY <1>7, <2>1
  <2> QED BY <1>1, <2>1, <2>2
<1> QED BY <1>9 DEF Clean, u

\* A line the user appends changes neither.
LEMMA EditKeeps ==
  ASSUME NEW s \in Seq(Tokens), NEW t \in Texts
  PROVE  /\ s \o <<t, "nl">> \in Seq(Tokens)
         /\ Clean(s) => Clean(s \o <<t, "nl">>)
         /\ OneBlock(s) => OneBlock(s \o <<t, "nl">>)
<1> DEFINE e == <<t, "nl">>  u == s \o e  n == Len(s)
<1>1. e \in Seq(Tokens) /\ Len(e) = 2 /\ e[1] = t /\ e[2] = "nl"
  <2>1. t \in Tokens /\ "nl" \in Tokens
    BY TextTokens
  <2> QED BY <2>1
<1>2. n \in Nat
  OBVIOUS
<1>3. /\ u \in Seq(Tokens) /\ Len(u) = n + 2
      /\ \A i \in 1..(n + 2) : u[i] = IF i <= n THEN s[i] ELSE e[i - n]
  <2> HIDE DEF e
  <2>1. /\ s \o e \in Seq(Tokens) /\ Len(s \o e) = Len(s) + Len(e)
        /\ \A i \in 1..(Len(s) + Len(e)) :
              (s \o e)[i] = IF i <= Len(s) THEN s[i] ELSE e[i - Len(s)]
    BY <1>1, ConcatProperties
  <2> QED BY <1>1, <2>1
<1>4. ASSUME NEW i \in 1..(n + 2), ~(i <= n)
      PROVE  u[i] # RCMarkerStart /\ u[i] # RCMarkerEnd
  <2> HIDE DEF e, u, n
  <2>1. i - n = 1 \/ i - n = 2
    BY <1>2, <1>4
  <2>2. u[i] = e[i - n]
    BY <1>3, <1>4
  <2>3. u[i] \in {t, "nl"}
    BY <1>1, <2>1, <2>2
  <2> QED BY <2>3, TextTokens
<1>5. \A i \in 1..n : u[i] = s[i] /\ i \in 1..(n + 2)
  <2> HIDE DEF e, u, n
  <2> QED BY <1>2, <1>3
<1> HIDE DEF e, u
<1>6. Clean(s) => Clean(u)
  <2> SUFFICES ASSUME Clean(s), NEW i \in 1..(n + 2)
               PROVE  u[i] # RCMarkerStart /\ u[i] # RCMarkerEnd
    BY <1>3 DEF Clean
  <2>1. CASE i <= n
    BY <1>5, <2>1 DEF Clean
  <2> QED BY <1>4, <2>1
<1>7. ASSUME OneBlock(s) PROVE OneBlock(u)
  <2>1. PICK k \in 1..n :
          /\ BlockAt(s, k)
          /\ \A i \in 1..n : /\ s[i] = RCMarkerStart => i = k + 1
                             /\ s[i] = RCMarkerEnd => i = k + 5
    BY <1>7 DEF OneBlock
  <2>2. k \in 1..(n - 6) /\ \A j \in 1..7 : s[k + j - 1] = Block[j]
    BY <2>1 DEF BlockAt
  <2>3. \A j \in 1..7 : u[k + j - 1] = Block[j]
    <3>1. \A j \in 1..7 : k + j - 1 \in 1..n
      BY <2>2, <1>2
    <3>2. \A j \in 1..7 : u[k + j - 1] = s[k + j - 1]
      BY <1>5, <3>1
    <3> QED BY <2>2, <3>2
  <2>4. BlockAt(u, k)
    <3>1. k \in 1..(Len(u) - 6)
      <4> HIDE DEF n
      <4> QED BY <1>2, <1>3, <2>2
    <3> QED BY <2>3, <3>1 DEF BlockAt
  <2>5. ASSUME NEW i \in 1..(n + 2)
        PROVE  (u[i] = RCMarkerStart => i = k + 1) /\ (u[i] = RCMarkerEnd => i = k + 5)
    <3>1. CASE i <= n
      BY <1>5, <2>1, <3>1
    <3> QED BY <1>4, <3>1
  <2>6. k \in 1..Len(u)
    BY <1>2, <1>3
  <2> HIDE DEF n
  <2>7. \A i \in 1..Len(u) : /\ u[i] = RCMarkerStart => i = k + 1
                             /\ u[i] = RCMarkerEnd => i = k + 5
    BY <1>3, <2>5
  <2> QED BY <2>4, <2>6, <2>7 DEF OneBlock
<1> QED BY <1>3, <1>6, <1>7 DEF u, e

-------------------------------------------------------------------------------
\* Types

\* A process without a command has no file, and one with a command a real one.
Owned == \A p \in Procs : job[p] = NoJob \/ job[p].rc \in RcFiles
TypeInv == TypeOK /\ Owned

LEMMA NoJobType ==
  /\ NoJob \in [pc: PCs, rc: RcFiles \cup {Missing}, mem: Seq(Tokens)]
  /\ NoJob.pc = "idle" /\ NoJob.rc = Missing /\ Missing \notin RcFiles
<1>1. <<>> \in Seq(Tokens)
  OBVIOUS
<1> QED BY <1>1, ShellAssumption DEF NoJob, PCs

\* The process of a command under way, and the tokens of its file.
LEMMA Under ==
  ASSUME TypeInv, NEW p \in Procs, job[p].pc # "idle" \/ job[p] # NoJob
  PROVE  job[p].rc \in RcFiles
BY NoJobType DEF TypeInv, Owned

LEMMA ContentType ==
  ASSUME TypeOK, NEW f \in RcFiles
  PROVE  Content(f) \in Seq(Tokens)
<1>1. <<>> \in Seq(Tokens)
  OBVIOUS
<1> QED BY <1>1 DEF TypeOK, Content

LEMMA InitType ==
  ASSUME Init
  PROVE  TypeInv
<1>1. FirstFiles \ {Missing} \subseteq Seq(Texts \cup {"nl"}) /\ <<>> \in Seq(Texts \cup {"nl"})
  BY ShellAssumption
<1>2. ASSUME NEW s \in Seq(Texts \cup {"nl"}) PROVE s \in Seq(Tokens)
  <2>1. Texts \cup {"nl"} \subseteq Tokens
    BY TextTokens
  <2> QED BY <2>1, SeqMonotonic
<1>3. file \in [RcFiles -> Seq(Tokens) \cup {Missing}]
  BY <1>1, <1>2 DEF Init
<1>4. text \in [RcFiles -> Seq(Texts \cup {"nl"})]
  <2>1. \A f \in RcFiles : Content(f) \in Seq(Texts \cup {"nl"})
    BY <1>1 DEF Init, Content
  <2> QED BY <2>1 DEF Init
<1>5. job \in [Procs -> [pc: PCs, rc: RcFiles \cup {Missing}, mem: Seq(Tokens)]] /\ Owned
  BY NoJobType DEF Init, Owned
<1> QED BY <1>3, <1>4, <1>5, ShellAssumption DEF TypeInv, TypeOK, Init

\* What a step does to the jobs, and to the files, in the shapes the actions use.
LEMMA FinishType ==
  ASSUME TypeInv, NEW p \in Procs, Finish(p)
  PROVE  /\ job' \in [Procs -> [pc: PCs, rc: RcFiles \cup {Missing}, mem: Seq(Tokens)]]
         /\ Owned'
         /\ \A q \in Procs : job'[q] = IF q = p THEN NoJob ELSE job[q]
<1>1. job' = [job EXCEPT ![p] = NoJob]
  BY DEF Finish
<1>2. job \in [Procs -> [pc: PCs, rc: RcFiles \cup {Missing}, mem: Seq(Tokens)]]
  BY DEF TypeInv, TypeOK
<1>3. \A q \in Procs : job'[q] = IF q = p THEN NoJob ELSE job[q]
  BY <1>1, <1>2
<1>4. job' \in [Procs -> [pc: PCs, rc: RcFiles \cup {Missing}, mem: Seq(Tokens)]]
  BY <1>1, <1>2, NoJobType
<1>5. \A q \in Procs : job'[q] = NoJob \/ job'[q].rc \in RcFiles
  BY <1>3 DEF TypeInv, Owned
<1> QED BY <1>3, <1>4, <1>5 DEF Owned, NoJob

LEMMA GotoType ==
  ASSUME TypeInv, NEW p \in Procs, job[p].pc # "idle", NEW pc \in PCs, NEW m \in Seq(Tokens),
         job' = [job EXCEPT ![p] = [pc |-> pc, rc |-> job[p].rc, mem |-> m]]
  PROVE  /\ job' \in [Procs -> [pc: PCs, rc: RcFiles \cup {Missing}, mem: Seq(Tokens)]]
         /\ Owned'
<1>1. job \in [Procs -> [pc: PCs, rc: RcFiles \cup {Missing}, mem: Seq(Tokens)]]
  BY DEF TypeInv, TypeOK
<1>2. job[p].rc \in RcFiles
  BY Under
<1>3. \A q \in Procs : job'[q] = NoJob \/ job'[q].rc \in RcFiles
  BY <1>1, <1>2 DEF TypeInv, Owned
<1>4. job' \in [Procs -> [pc: PCs, rc: RcFiles \cup {Missing}, mem: Seq(Tokens)]]
  BY <1>1, <1>2
<1> QED BY <1>3, <1>4 DEF Owned, NoJob

LEMMA SetType ==
  ASSUME TypeInv, NEW f \in RcFiles, NEW s \in Seq(Tokens), Set(f, s)
  PROVE  /\ file' \in [RcFiles -> Seq(Tokens) \cup {Missing}]
         /\ \A g \in RcFiles : file'[g] = IF g = f THEN s ELSE file[g]
BY DEF TypeInv, TypeOK, Set

\* A piece of a file.
LEMMA PieceType ==
  ASSUME NEW s \in Seq(Tokens), NEW m \in Int, NEW n \in Int, m >= 1, n <= Len(s)
  PROVE  SubSeq(s, m, n) \in Seq(Tokens)
<1>1. \A i \in m..n : s[i] \in Tokens
  BY ElementOfSeq
<1> QED BY <1>1, SubSeqProperties

LEMMA DetectShellType ==
  ASSUME NEW shell \in Shells
  PROVE  detectShell(shell) \in RcFiles \cup {Missing}
<1>1. shell = "zsh" => ".zshrc" \in RcFiles
  BY ShellAssumption
<1>2. shell = "bash" => ".bashrc" \in RcFiles
  BY ShellAssumption
<1>3. ".bash_profile" \in RcFiles
  BY ShellAssumption
<1>4. CASE shell = "zsh"
  BY <1>1, <1>4 DEF detectShell
<1>5. CASE shell = "bash"
  BY <1>2, <1>3, <1>5 DEF detectShell
<1>6. CASE shell # "zsh" /\ shell # "bash"
  BY <1>6 DEF detectShell
<1> QED BY <1>4, <1>5, <1>6

\* A command that goes on: its file is the same.
LEMMA GotoStep ==
  ASSUME TypeInv, NEW p \in Procs, job[p].pc # "idle", NEW pc \in PCs, Goto(p, pc)
  PROVE  /\ job' \in [Procs -> [pc: PCs, rc: RcFiles \cup {Missing}, mem: Seq(Tokens)]]
         /\ Owned'
         /\ job' = [job EXCEPT ![p] = [pc |-> pc, rc |-> job[p].rc, mem |-> job[p].mem]]
<1>1. job[p] \in [pc: PCs, rc: RcFiles \cup {Missing}, mem: Seq(Tokens)]
  BY DEF TypeInv, TypeOK
<1>2. [job[p] EXCEPT !.pc = pc] = [pc |-> pc, rc |-> job[p].rc, mem |-> job[p].mem]
  BY <1>1
<1>3. job' = [job EXCEPT ![p] = [pc |-> pc, rc |-> job[p].rc, mem |-> job[p].mem]]
  BY <1>2 DEF Goto
<1>4. job[p].mem \in Seq(Tokens)
  BY <1>1
<1> QED BY <1>3, <1>4, GotoType

LEMMA ReadStep ==
  ASSUME TypeInv, NEW p \in Procs, job[p].pc # "idle", NEW m \in Seq(Tokens),
         job' = [job EXCEPT ![p].pc = "truncate", ![p].mem = m]
  PROVE  /\ job' \in [Procs -> [pc: PCs, rc: RcFiles \cup {Missing}, mem: Seq(Tokens)]]
         /\ Owned'
         /\ job' = [job EXCEPT ![p] = [pc |-> "truncate", rc |-> job[p].rc, mem |-> m]]
<1>1. job \in [Procs -> [pc: PCs, rc: RcFiles \cup {Missing}, mem: Seq(Tokens)]]
  BY DEF TypeInv, TypeOK
<1> DEFINE j == [job EXCEPT ![p].pc = "truncate"]
<1>2. job' = [job EXCEPT ![p] = [pc |-> "truncate", rc |-> job[p].rc, mem |-> m]]
  <2>1. j = [job EXCEPT ![p] = [pc |-> "truncate", rc |-> job[p].rc, mem |-> job[p].mem]]
    <3>1. [job[p] EXCEPT !.pc = "truncate"]
            = [pc |-> "truncate", rc |-> job[p].rc, mem |-> job[p].mem]
      BY <1>1
    <3> QED BY <3>1
  <2>2. job' = [j EXCEPT ![p].mem = m]
    OBVIOUS
  <2> HIDE DEF j
  <2>3. j[p] = [pc |-> "truncate", rc |-> job[p].rc, mem |-> job[p].mem]
    BY <1>1, <2>1
  <2>4. [j[p] EXCEPT !.mem = m] = [pc |-> "truncate", rc |-> job[p].rc, mem |-> m]
    BY <2>3
  <2>5. job' = [j EXCEPT ![p] = [pc |-> "truncate", rc |-> job[p].rc, mem |-> m]]
    BY <2>2, <2>4
  <2> QED BY <1>1, <2>1, <2>5
<1>3. "truncate" \in PCs
  BY DEF PCs
<1> QED BY <1>2, <1>3, GotoType

\* A step keeps the types.
LEMMA TypeStep ==
  ASSUME TypeInv, [Next]_vars
  PROVE  TypeInv'
<1> USE DEF TypeInv
<1>1. ASSUME NEW p \in Procs, StartCommand(p) PROVE TypeInv'
  <2>1. PICK shell \in Shells, pc \in {"look", "read"} :
          LET f == detectShell(shell) IN
          /\ f # Missing
          /\ job' = [job EXCEPT ![p] = [pc |-> pc, rc |-> f, mem |-> <<>>]]
          /\ raced' = IF \E q \in Procs : job[q].rc = f THEN raced \cup {f} ELSE raced
    BY <1>1 DEF StartCommand
  <2> DEFINE f == detectShell(shell)
  <2>2. f \in RcFiles
    BY <2>1, DetectShellType
  <2>3. [pc |-> pc, rc |-> f, mem |-> <<>>]
          \in [pc: PCs, rc: RcFiles \cup {Missing}, mem: Seq(Tokens)]
    BY <2>2 DEF PCs
  <2>4. /\ job' = [job EXCEPT ![p] = [pc |-> pc, rc |-> f, mem |-> <<>>]]
        /\ raced' \subseteq raced \cup {f}
    BY <2>1
  <2> HIDE DEF f
  <2>5. job' \in [Procs -> [pc: PCs, rc: RcFiles \cup {Missing}, mem: Seq(Tokens)]]
    BY <2>3, <2>4 DEF TypeOK
  <2>6. \A q \in Procs : job'[q] = NoJob \/ job'[q].rc \in RcFiles
    BY <2>2, <2>4 DEF TypeOK, Owned
  <2>7. Owned'
    BY <2>6 DEF Owned, NoJob
  <2>8. raced' \subseteq RcFiles
    BY <2>2, <2>4 DEF TypeOK
  <2>9. commands' \in 0..MaxCommands
    BY <1>1, ShellAssumption DEF StartCommand, TypeOK
  <2>10. report' = Quiet /\ UNCHANGED <<file, text, torn, edits, faults>>
    BY <1>1 DEF StartCommand
  <2> QED BY <2>5, <2>7, <2>8, <2>9, <2>10 DEF TypeOK
<1>2. ASSUME NEW p \in Procs, Look(p) PROVE TypeInv'
  <2>1. job[p].pc # "idle" /\ job[p].rc \in RcFiles /\ "append" \in PCs
    BY <1>2, Under DEF Look, PCs
  <2>2. CASE Finish(p) /\ Reports("already", job[p].rc)
    BY <1>2, <2>1, <2>2, FinishType DEF Look, TypeOK, Reports
  <2>3. CASE Goto(p, "append") /\ report' = Quiet
    BY <1>2, <2>1, <2>3, GotoStep DEF Look, TypeOK
  <2> QED BY <1>2, <2>2, <2>3 DEF Look
<1>3. ASSUME NEW p \in Procs, AppendBlock(p) PROVE TypeInv'
  <2> DEFINE f == job[p].rc
  <2>1. f \in RcFiles
    BY <1>3, Under DEF AppendBlock
  <2>2. Content(f) \o Block \in Seq(Tokens)
    <3>1. Content(f) \in Seq(Tokens) /\ Block \in Seq(Tokens)
      BY <2>1, ContentType, BlockTokens
    <3> QED BY <3>1, ConcatProperties
  <2>3. file' \in [RcFiles -> Seq(Tokens) \cup {Missing}]
    BY <1>3, <2>1, <2>2, SetType DEF AppendBlock
  <2>4. torn' \subseteq RcFiles
    BY <1>3, <2>1 DEF AppendBlock, TypeOK
  <2> QED BY <1>3, <2>1, <2>3, <2>4, FinishType DEF AppendBlock, TypeOK, Reports
<1>4. ASSUME NEW p \in Procs, Read(p) PROVE TypeInv'
  <2> DEFINE f == job[p].rc
  <2>1. job[p].pc # "idle" /\ f \in RcFiles
    BY <1>4, Under DEF Read
  <2>2. CASE containsMarker(Content(f))
    <3>1. stripMarkerBlock(Content(f)) \in Seq(Tokens)
      BY <2>1, ContentType, StripTyped
    <3> QED BY <1>4, <2>1, <2>2, <3>1, ReadStep DEF Read, TypeOK
  <2>3. CASE ~containsMarker(Content(f))
    BY <1>4, <2>1, <2>3, FinishType DEF Read, TypeOK, Reports
  <2> QED BY <2>2, <2>3
<1>5. ASSUME NEW p \in Procs, Truncate(p) PROVE TypeInv'
  <2> DEFINE f == job[p].rc
  <2>1. job[p].pc # "idle" /\ f \in RcFiles /\ "write" \in PCs /\ <<>> \in Seq(Tokens)
    BY <1>5, Under DEF Truncate, PCs
  <2>2. file' \in [RcFiles -> Seq(Tokens) \cup {Missing}]
    BY <1>5, <2>1, SetType DEF Truncate
  <2>3. torn' \subseteq RcFiles
    BY <1>5, <2>1 DEF Truncate, TypeOK
  <2> QED BY <1>5, <2>1, <2>2, <2>3, GotoStep DEF Truncate, TypeOK
<1>6. ASSUME NEW p \in Procs, Write(p) PROVE TypeInv'
  <2> DEFINE f == job[p].rc  over == Content(f)
  <2>1. f \in RcFiles
    BY <1>6, Under DEF Write
  <2>2. PICK n \in 0..Len(over), end \in {<<>>, <<Torn>>} :
          Set(f, job[p].mem \o end \o SubSeq(over, n + 1, Len(over)))
    BY <1>6 DEF Write
  <2>3. job[p].mem \o end \o SubSeq(over, n + 1, Len(over)) \in Seq(Tokens)
    <3>1. over \in Seq(Tokens)
      BY <2>1, ContentType
    <3>2. SubSeq(over, n + 1, Len(over)) \in Seq(Tokens)
      <4> HIDE DEF over
      <4> QED BY <3>1, PieceType
    <3>3. end \in Seq(Tokens)
      <4>1. <<>> \in Seq(Tokens) /\ <<Torn>> \in Seq(Tokens)
        BY TextTokens
      <4> QED BY <4>1
    <3>4. job[p].mem \in Seq(Tokens)
      BY DEF TypeOK
    <3> HIDE DEF over
    <3> QED BY <3>2, <3>3, <3>4
  <2>4. file' \in [RcFiles -> Seq(Tokens) \cup {Missing}]
    BY <2>1, <2>2, <2>3, SetType
  <2>5. torn' \subseteq RcFiles
    BY <1>6, <2>1 DEF Write, TypeOK
  <2> QED BY <1>6, <2>1, <2>4, <2>5, FinishType DEF Write, TypeOK, Reports
<1>7. ASSUME NEW p \in Procs, Break(p) PROVE TypeInv'
  <2> DEFINE f == job[p].rc
             part == CASE job[p].pc = "append" -> Block
                       [] job[p].pc = "write" -> job[p].mem
                       [] OTHER -> <<>>
  <2>1. f \in RcFiles
    BY <1>7, Under DEF Break
  <2>2. part \in Seq(Tokens)
    <3>1. job[p].mem \in Seq(Tokens) /\ <<>> \in Seq(Tokens)
      BY DEF TypeOK
    <3> QED BY <3>1, BlockTokens
  <2>3. PICK n \in 0..Len(part) :
          IF n = 0 THEN UNCHANGED file ELSE Set(f, Content(f) \o SubSeq(part, 1, n))
    BY <1>7 DEF Break
  <2>4. file' \in [RcFiles -> Seq(Tokens) \cup {Missing}]
    <3>1. SubSeq(part, 1, n) \in Seq(Tokens)
      <4> HIDE DEF part
      <4> QED BY <2>2, PieceType
    <3>2. Content(f) \o SubSeq(part, 1, n) \in Seq(Tokens)
      <4> HIDE DEF part
      <4> QED BY <2>1, <3>1, ContentType
    <3> HIDE DEF part
    <3>3. CASE n = 0
      BY <2>3, <3>3 DEF TypeOK
    <3>4. CASE n # 0
      BY <2>1, <2>3, <3>2, <3>4, SetType
    <3> QED BY <3>3, <3>4
  <2>5. torn' \subseteq RcFiles
    <3>1. torn' = torn \/ torn' = torn \cup {f}
      BY <1>7 DEF Break
    <3> QED BY <2>1, <3>1 DEF TypeOK
  <2>6. faults' \in 0..MaxFaults
    BY <1>7, ShellAssumption DEF Break, TypeOK
  <2>7. Finish(p) /\ report' = Quiet /\ UNCHANGED <<text, raced, commands, edits>>
    BY <1>7 DEF Break
  <2> QED BY <2>1, <2>4, <2>5, <2>6, <2>7, FinishType DEF TypeOK
<1>8. ASSUME NEW f \in RcFiles, Edit(f) PROVE TypeInv'
  <2>1. PICK t \in Texts :
          /\ Set(f, Content(f) \o <<t, "nl">>)
          /\ text' = [text EXCEPT ![f] = @ \o <<t, "nl">>]
    BY <1>8 DEF Edit
  <2>2. file' \in [RcFiles -> Seq(Tokens) \cup {Missing}]
    <3>1. Content(f) \o <<t, "nl">> \in Seq(Tokens)
      BY ContentType, EditKeeps
    <3> QED BY <2>1, <3>1, SetType
  <2>3. text' \in [RcFiles -> Seq(Texts \cup {"nl"})]
    <3>1. text[f] \in Seq(Texts \cup {"nl"}) /\ <<t, "nl">> \in Seq(Texts \cup {"nl"})
      BY DEF TypeOK
    <3>2. text[f] \o <<t, "nl">> \in Seq(Texts \cup {"nl"})
      BY <3>1
    <3> QED BY <2>1, <3>2 DEF TypeOK
  <2>4. Owned'
    BY <1>8 DEF Edit, Owned, NoJob
  <2>5. torn' \subseteq RcFiles
    BY <1>8 DEF Edit, TypeOK
  <2> QED BY <1>8, <2>2, <2>3, <2>4, <2>5, ShellAssumption DEF Edit, TypeOK
<1>9. CASE UNCHANGED vars
  BY <1>9 DEF vars, TypeOK, Owned, NoJob
<1> QED BY <1>1, <1>2, <1>3, <1>4, <1>5, <1>6, <1>7, <1>8, <1>9 DEF Next

\* Every state is of the declared types: for instance an unset, whatever the
\* file held, writes back a file of whole tokens.
THEOREM TypeCorrect == Spec => []TypeOK
<1>1. TypeInv => TypeOK
  BY DEF TypeInv
<1> QED BY <1>1, InitType, TypeStep, PTL DEF Spec

-------------------------------------------------------------------------------
\* Honest commands

\* Nothing was torn in a file, and no two commands were at it at a time.
Calm(f) == f \notin torn /\ f \notin raced

\* What a command j under way relies on, with c in its file.
Relies(j, c) ==
    /\ j.pc = "append" => Clean(c)
    /\ j.pc \in {"truncate", "write"} => Clean(j.mem)
    /\ j.pc = "write" => c = <<>>

Alone == \A p, q \in Procs :
             p # q /\ job[p] # NoJob /\ job[q].rc = job[p].rc => job[p].rc \in raced
Whole == \A f \in RcFiles : Calm(f) => Clean(Content(f)) \/ OneBlock(Content(f))
Reliant == \A p \in Procs, f \in RcFiles :
               job[p].rc = f /\ Calm(f) => Relies(job[p], Content(f))

\* The inductive invariant: a calm file is clean or has one block, and holds
\* what the one command at it has seen.
HonestInv == TypeInv /\ Alone /\ Whole /\ Reliant /\ CommandsHonest

\* A file with one block has the start marker, a clean one has not.
LEMMA MarkerOf ==
  ASSUME NEW s \in Seq(Tokens)
  PROVE  /\ Clean(s) => ~containsMarker(s)
         /\ OneBlock(s) => containsMarker(s)
<1>1. Clean(s) => ~containsMarker(s)
  BY DEF Clean, containsMarker, Contains
<1>2. ASSUME OneBlock(s) PROVE containsMarker(s)
  <2>1. PICK k \in 1..Len(s) : BlockAt(s, k)
    BY <1>2 DEF OneBlock
  <2>2. s[k + 2 - 1] = Block[2] /\ k \in 1..(Len(s) - 6)
    BY <2>1 DEF BlockAt
  <2>3. k + 2 - 1 \in 1..Len(s)
    BY <2>2
  <2>4. s[k + 2 - 1] = RCMarkerStart
    BY <2>2, BlockTokens
  <2> QED BY <2>3, <2>4 DEF containsMarker, Contains
<1> QED BY <1>1, <1>2

\* A step of p at its file f disturbs nothing else.
LEMMA Frame ==
  ASSUME HonestInv, TypeInv', NEW p \in Procs, NEW f \in RcFiles, job[p].rc = f,
         torn \subseteq torn', raced' = raced,
         \A g \in RcFiles : g # f => file'[g] = file[g],
         \A q \in Procs : q # p => job'[q] = job[q],
         job'[p] = NoJob \/ job'[p].rc = f,
         Calm(f)' => /\ Clean(Content(f)') \/ OneBlock(Content(f)')
                     /\ job'[p].rc = f => Relies(job'[p], Content(f)'),
         CommandsHonest'
  PROVE  HonestInv'
<1>1. Missing \notin RcFiles /\ NoJob.rc = Missing /\ job[p] # NoJob
  BY NoJobType
<1>2. ASSUME NEW g \in RcFiles, Calm(g)' PROVE Calm(g)
  BY <1>2 DEF Calm
<1>3. ASSUME NEW g \in RcFiles, g # f PROVE Content(g)' = Content(g)
  BY <1>3 DEF Content
<1>4. Alone'
  <2> SUFFICES ASSUME NEW q \in Procs, NEW r \in Procs,
                      q # r, job'[q] # NoJob, job'[r].rc = job'[q].rc
               PROVE  job'[q].rc \in raced
    BY DEF Alone, NoJob
  <2>1. CASE q = p
    <3>1. job'[q].rc = f /\ job'[r] = job[r]
      BY <2>1
    <3> QED BY <1>1, <2>1, <3>1 DEF HonestInv, Alone
  <2>2. CASE r = p
    <3>1. job'[q] = job[q] /\ job[q].rc \in RcFiles
      BY <2>2 DEF HonestInv, TypeInv, Owned
    <3>2. job'[p].rc = f
      BY <1>1, <2>2, <3>1
    <3> QED BY <2>2, <3>1, <3>2 DEF HonestInv, Alone
  <2>3. CASE q # p /\ r # p
    BY <2>3 DEF HonestInv, Alone
  <2> QED BY <2>1, <2>2, <2>3
<1>5. Whole'
  <2> SUFFICES ASSUME NEW g \in RcFiles, Calm(g)'
               PROVE  Clean(Content(g)') \/ OneBlock(Content(g)')
    BY DEF Whole, Clean, OneBlock, BlockAt
  <2>1. CASE g = f
    BY <2>1
  <2>2. CASE g # f
    BY <1>2, <1>3, <2>2 DEF HonestInv, Whole
  <2> QED BY <2>1, <2>2
<1>6. Reliant'
  <2> SUFFICES ASSUME NEW q \in Procs, NEW g \in RcFiles, job'[q].rc = g, Calm(g)'
               PROVE  Relies(job'[q], Content(g)')
    BY DEF Reliant, Relies, Clean
  <2>1. CASE q = p
    <3>1. g = f
      BY <1>1, <2>1
    <3> QED BY <2>1, <3>1
  <2>2. CASE q # p
    <3>1. job'[q] = job[q] /\ Calm(g)
      BY <1>2, <2>2
    <3>2. g # f
      BY <1>1, <2>2, <3>1 DEF HonestInv, Alone, Calm
    <3>3. Relies(job[q], Content(g))
      BY <3>1 DEF HonestInv, Reliant
    <3> QED BY <1>3, <3>1, <3>2, <3>3
  <2> QED BY <2>1, <2>2
<1> QED BY <1>4, <1>5, <1>6 DEF HonestInv

\* A report is honest about a file that is as the command left it.
LEMMA Honest ==
  ASSUME TypeInv', NEW f \in RcFiles, NEW op, Reports(op, f),
         Calm(f)' => IF op \in {"added", "already"} THEN OneBlock(Content(f)')
                     ELSE Clean(Content(f)')
  PROVE  CommandsHonest'
<1>1. report' = [op |-> op, rc |-> f]
  BY DEF Reports
<1>2. Content(f)' \in Seq(Tokens)
  <2>1. <<>> \in Seq(Tokens)
    OBVIOUS
  <2> QED BY <2>1 DEF TypeInv, TypeOK, Content
<1> DEFINE c == Content(f)'
<1>3. ASSUME Calm(f)'
      PROVE  IF op \in {"added", "already"} THEN Cardinality(Blocks(c)) = 1
             ELSE ~containsMarker(c)
  <2> HIDE DEF c
  <2>1. IF op \in {"added", "already"} THEN OneBlock(c) ELSE Clean(c)
    BY <1>3 DEF c
  <2>2. c \in Seq(Tokens)
    BY <1>2 DEF c
  <2> QED BY <2>1, <2>2, CountedOnce, MarkerOf
<1>4. report'.op = op /\ report'.rc = f
  BY <1>1
<1>5. CASE ~(Calm(f)')
  BY <1>4, <1>5 DEF CommandsHonest, Calm
<1>6. CASE Calm(f)'
  BY <1>3, <1>4, <1>6 DEF CommandsHonest
<1> QED BY <1>5, <1>6

LEMMA Silent ==
  ASSUME report' = Quiet
  PROVE  CommandsHonest'
BY DEF CommandsHonest

LEMMA HonestInit ==
  ASSUME Init
  PROVE  HonestInv
<1>1. TypeInv
  BY InitType
<1>2. ASSUME NEW f \in RcFiles PROVE Clean(Content(f))
  <2>1. Content(f) \in Seq(Texts \cup {"nl"})
    <3>1. <<>> \in Seq(Texts \cup {"nl"})
      OBVIOUS
    <3> QED BY <3>1, ShellAssumption DEF Init, Content
  <2> DEFINE c == Content(f)
  <2> HIDE DEF c
  <2>2. \A i \in 1..Len(c) : c[i] \in Texts \cup {"nl"}
    BY <2>1, ElementOfSeq DEF c
  <2> QED BY <2>2, TextTokens DEF Clean, c
<1>3. \A p \in Procs : job[p] = NoJob
  BY DEF Init
<1>4. Alone /\ Reliant
  BY <1>3, NoJobType DEF Alone, Reliant, Relies, NoJob
<1>5. Whole /\ CommandsHonest
  BY <1>2 DEF Whole, CommandsHonest, Init
<1> QED BY <1>1, <1>4, <1>5 DEF HonestInv

LEMMA StartHonest ==
  ASSUME HonestInv, TypeInv', NEW p \in Procs, StartCommand(p)
  PROVE  HonestInv'
<1>1. PICK shell \in Shells, pc \in {"look", "read"} :
        LET f == detectShell(shell) IN
        /\ f # Missing
        /\ job' = [job EXCEPT ![p] = [pc |-> pc, rc |-> f, mem |-> <<>>]]
        /\ raced' = IF \E q \in Procs : job[q].rc = f THEN raced \cup {f} ELSE raced
  BY DEF StartCommand
<1> DEFINE f == detectShell(shell)
<1>2. f \in RcFiles
  BY <1>1, DetectShellType
<1>3. /\ job' = [job EXCEPT ![p] = [pc |-> pc, rc |-> f, mem |-> <<>>]]
      /\ raced' = IF \E q \in Procs : job[q].rc = f THEN raced \cup {f} ELSE raced
  BY <1>1
<1> HIDE DEF f
<1>4. \A q \in Procs : job'[q] = IF q = p THEN [pc |-> pc, rc |-> f, mem |-> <<>>] ELSE job[q]
  BY <1>3 DEF HonestInv, TypeInv, TypeOK
<1>5. raced \subseteq raced' /\ job[p] = NoJob
  BY <1>3 DEF StartCommand
<1>6. torn' = torn /\ file' = file /\ report' = Quiet
  BY DEF StartCommand
<1>7. Alone'
  <2> SUFFICES ASSUME NEW q \in Procs, NEW r \in Procs,
                      q # r, job'[q] # NoJob, job'[r].rc = job'[q].rc
               PROVE  job'[q].rc \in raced'
    BY DEF Alone, NoJob
  <2>1. CASE q = p
    <3>1. job'[q].rc = f /\ job'[r] = job[r]
      BY <1>4, <2>1
    <3> QED BY <1>3, <3>1
  <2>2. CASE r = p
    <3>1. job'[q] = job[q] /\ job'[r].rc = f
      BY <1>4, <2>2
    <3> QED BY <1>3, <3>1
  <2>3. CASE q # p /\ r # p
    BY <1>4, <1>5, <2>3 DEF HonestInv, Alone
  <2> QED BY <2>1, <2>2, <2>3
<1>8. Whole'
  <2> SUFFICES ASSUME NEW g \in RcFiles, Calm(g)'
               PROVE  Clean(Content(g)') \/ OneBlock(Content(g)')
    BY DEF Whole, Clean, OneBlock, BlockAt
  <2>1. Calm(g) /\ Content(g)' = Content(g)
    BY <1>5, <1>6 DEF Calm, Content
  <2> QED BY <2>1 DEF HonestInv, Whole
<1>9. Reliant'
  <2> SUFFICES ASSUME NEW q \in Procs, NEW g \in RcFiles, job'[q].rc = g, Calm(g)'
               PROVE  Relies(job'[q], Content(g)')
    BY DEF Reliant, Relies, Clean
  <2>1. CASE q = p
    BY <1>4, <2>1 DEF Relies
  <2>2. CASE q # p
    <3>1. Calm(g) /\ Content(g)' = Content(g) /\ job'[q] = job[q]
      BY <1>4, <1>5, <1>6, <2>2 DEF Calm, Content
    <3> QED BY <3>1 DEF HonestInv, Reliant
  <2> QED BY <2>1, <2>2
<1> QED BY <1>6, <1>7, <1>8, <1>9, Silent DEF HonestInv

\* Where a calm file stands when a command is at it.
LEMMA AtFile ==
  ASSUME HonestInv, NEW p \in Procs, NEW f \in RcFiles, job[p].rc = f, Calm(f)
  PROVE  /\ Content(f) \in Seq(Tokens)
         /\ containsMarker(Content(f)) => OneBlock(Content(f))
         /\ ~containsMarker(Content(f)) => Clean(Content(f))
         /\ Relies(job[p], Content(f))
<1>1. Content(f) \in Seq(Tokens)
  BY ContentType DEF HonestInv, TypeInv
<1>2. Clean(Content(f)) \/ OneBlock(Content(f))
  BY DEF HonestInv, Whole
<1>3. Relies(job[p], Content(f))
  BY DEF HonestInv, Reliant
<1> QED BY <1>1, <1>2, <1>3, MarkerOf

\* What the file holds after a step that sets it.
LEMMA SetContent ==
  ASSUME TypeInv, NEW f \in RcFiles, NEW s \in Seq(Tokens), Set(f, s)
  PROVE  /\ Content(f)' = s
         /\ \A g \in RcFiles : g # f => file'[g] = file[g]
<1>1. \A g \in RcFiles : file'[g] = IF g = f THEN s ELSE file[g]
  BY SetType
<1>2. s # Missing
  BY ShellAssumption
<1> QED BY <1>1, <1>2 DEF Content

\* A step that leaves the files alone.
LEMMA SameContent ==
  ASSUME NEW f \in RcFiles, file' = file
  PROVE  /\ Content(f)' = Content(f)
         /\ \A g \in RcFiles : g # f => file'[g] = file[g]
BY DEF Content

LEMMA LookHonest ==
  ASSUME HonestInv, TypeInv', NEW p \in Procs, NEW f \in RcFiles, job[p].rc = f, Look(p)
  PROVE  HonestInv'
<1> DEFINE c == Content(f)
<1>1. /\ TypeInv /\ job[p].pc # "idle" /\ "append" \in PCs
      /\ file' = file /\ torn' = torn /\ raced' = raced
  BY DEF HonestInv, Look, PCs
<1>2. Content(f)' = c /\ \A g \in RcFiles : g # f => file'[g] = file[g]
  BY <1>1, SameContent
<1>3. ASSUME Calm(f)'
      PROVE  IF containsMarker(c) THEN OneBlock(c) ELSE Clean(c)
  <2>1. Calm(f)
    BY <1>1, <1>3 DEF Calm
  <2> QED BY <2>1, AtFile
<1>4. CASE containsMarker(c)
  <2>1. Finish(p) /\ Reports("already", f)
    BY <1>4 DEF Look
  <2>2. CommandsHonest'
    BY <1>2, <1>3, <1>4, <2>1, Honest
  <2>3. job'[p] = NoJob /\ \A q \in Procs : q # p => job'[q] = job[q]
    BY <1>1, <2>1, FinishType
  <2>4. f # NoJob.rc
    BY NoJobType
  <2> QED BY <1>1, <1>2, <1>3, <1>4, <2>2, <2>3, <2>4, Frame
<1>5. CASE ~containsMarker(c)
  <2>1. Goto(p, "append") /\ report' = Quiet
    BY <1>5 DEF Look
  <2>2. job' = [job EXCEPT ![p] = [pc |-> "append", rc |-> f, mem |-> job[p].mem]]
    BY <1>1, <2>1, GotoStep
  <2>3. /\ job'[p] = [pc |-> "append", rc |-> f, mem |-> job[p].mem]
        /\ \A q \in Procs : q # p => job'[q] = job[q]
    BY <2>2 DEF HonestInv, TypeInv, TypeOK
  <2>4. Calm(f)' => Relies(job'[p], c)
    BY <1>3, <1>5, <2>3 DEF Relies
  <2>5. job'[p].rc = f
    BY <2>3
  <2> HIDE DEF c
  <2> QED BY <1>1, <1>2, <1>3, <1>5, <2>1, <2>3, <2>4, <2>5, Silent, Frame
<1> QED BY <1>4, <1>5

LEMMA AppendHonest ==
  ASSUME HonestInv, TypeInv', NEW p \in Procs, NEW f \in RcFiles, job[p].rc = f, AppendBlock(p)
  PROVE  HonestInv'
<1> DEFINE c == Content(f)
<1>1. /\ TypeInv /\ torn \subseteq torn' /\ raced' = raced
      /\ Set(f, c \o Block) /\ Reports("added", f) /\ Finish(p) /\ job[p].pc = "append"
  BY DEF HonestInv, AppendBlock
<1>2. c \in Seq(Tokens) /\ c \o Block \in Seq(Tokens)
  <2>1. c \in Seq(Tokens) /\ Block \in Seq(Tokens)
    BY <1>1, ContentType, BlockTokens DEF TypeInv
  <2> HIDE DEF c
  <2> QED BY <2>1, ConcatProperties
<1>3. Content(f)' = c \o Block /\ \A g \in RcFiles : g # f => file'[g] = file[g]
  BY <1>1, <1>2, SetContent
<1>4. ASSUME Calm(f)' PROVE OneBlock(c \o Block)
  <2>1. Calm(f)
    BY <1>1, <1>4 DEF Calm
  <2>2. Clean(c)
    BY <1>1, <2>1, AtFile DEF Relies
  <2> QED BY <1>2, <2>2, AppendedBlock
<1>5. CommandsHonest'
  BY <1>1, <1>3, <1>4, Honest
<1>6. job'[p] = NoJob /\ \A q \in Procs : q # p => job'[q] = job[q]
  BY <1>1, FinishType
<1>7. f # NoJob.rc
  BY NoJobType
<1> HIDE DEF c
<1> QED BY <1>1, <1>3, <1>4, <1>5, <1>6, <1>7, Frame

LEMMA ReadHonest ==
  ASSUME HonestInv, TypeInv', NEW p \in Procs, NEW f \in RcFiles, job[p].rc = f, Read(p)
  PROVE  HonestInv'
<1> DEFINE c == Content(f)  m == stripMarkerBlock(c)
<1>1. /\ TypeInv /\ job[p].pc # "idle"
      /\ file' = file /\ torn' = torn /\ raced' = raced
  BY DEF HonestInv, Read
<1>2. Content(f)' = c /\ \A g \in RcFiles : g # f => file'[g] = file[g]
  BY <1>1, SameContent
<1>3. ASSUME Calm(f)'
      PROVE  IF containsMarker(c) THEN OneBlock(c) ELSE Clean(c)
  <2>1. Calm(f)
    BY <1>1, <1>3 DEF Calm
  <2> QED BY <2>1, AtFile
<1>4. c \in Seq(Tokens)
  BY <1>1, ContentType DEF TypeInv
<1>5. CASE containsMarker(c)
  <2>1. job' = [job EXCEPT ![p].pc = "truncate", ![p].mem = m] /\ report' = Quiet
    BY <1>5 DEF Read
  <2>2. m \in Seq(Tokens)
    BY <1>4, StripTyped
  <2>3. job' = [job EXCEPT ![p] = [pc |-> "truncate", rc |-> f, mem |-> m]]
    <3> HIDE DEF m
    <3> QED BY <1>1, <2>1, <2>2, ReadStep
  <2>4. /\ job'[p] = [pc |-> "truncate", rc |-> f, mem |-> m]
        /\ \A q \in Procs : q # p => job'[q] = job[q]
    <3> HIDE DEF m
    <3> QED BY <2>3 DEF HonestInv, TypeInv, TypeOK
  <2>5. Calm(f)' => Relies(job'[p], c)
    <3>1. Calm(f)' => Clean(m)
      BY <1>3, <1>4, <1>5, StripClean
    <3> HIDE DEF c, m
    <3> QED BY <2>4, <3>1 DEF Relies
  <2>6. job'[p].rc = f
    BY <2>4
  <2> HIDE DEF c, m
  <2> QED BY <1>1, <1>2, <1>3, <1>5, <2>1, <2>4, <2>5, <2>6, Silent, Frame
<1>6. CASE ~containsMarker(c)
  <2>1. Finish(p) /\ Reports("nothing", f)
    BY <1>6 DEF Read
  <2>2. CommandsHonest'
    BY <1>2, <1>3, <1>6, <2>1, Honest
  <2>3. job'[p] = NoJob /\ \A q \in Procs : q # p => job'[q] = job[q]
    BY <1>1, <2>1, FinishType
  <2>4. f # NoJob.rc
    BY NoJobType
  <2> HIDE DEF c, m
  <2> QED BY <1>1, <1>2, <1>3, <1>6, <2>2, <2>3, <2>4, Frame
<1> QED BY <1>5, <1>6

LEMMA TruncateHonest ==
  ASSUME HonestInv, TypeInv', NEW p \in Procs, NEW f \in RcFiles, job[p].rc = f, Truncate(p)
  PROVE  HonestInv'
<1> DEFINE none == <<>>
<1>1. /\ TypeInv /\ torn \subseteq torn' /\ raced' = raced /\ Set(f, none)
      /\ Goto(p, "write") /\ report' = Quiet /\ job[p].pc = "truncate" /\ "write" \in PCs
  BY DEF HonestInv, Truncate, PCs
<1>2. none \in Seq(Tokens) /\ Clean(none)
  BY DEF Clean
<1>3. Content(f)' = none /\ \A g \in RcFiles : g # f => file'[g] = file[g]
  BY <1>1, <1>2, SetContent
<1>4. job' = [job EXCEPT ![p] = [pc |-> "write", rc |-> f, mem |-> job[p].mem]]
  BY <1>1, GotoStep
<1>5. /\ job'[p] = [pc |-> "write", rc |-> f, mem |-> job[p].mem]
      /\ \A q \in Procs : q # p => job'[q] = job[q]
  BY <1>4 DEF HonestInv, TypeInv, TypeOK
<1>6. Calm(f)' => Relies(job'[p], none)
  <2>1. Calm(f)' => Calm(f)
    BY <1>1 DEF Calm
  <2>2. Calm(f) => Clean(job[p].mem)
    BY <1>1, AtFile DEF Relies
  <2> QED BY <1>5, <2>1, <2>2 DEF Relies
<1>7. job'[p].rc = f
  BY <1>5
<1> HIDE DEF none
<1> QED BY <1>1, <1>2, <1>3, <1>5, <1>6, <1>7, Silent, Frame

LEMMA WriteHonest ==
  ASSUME HonestInv, TypeInv', NEW p \in Procs, NEW f \in RcFiles, job[p].rc = f, Write(p)
  PROVE  HonestInv'
<1> DEFINE over == Content(f)  mem == job[p].mem
<1>1. /\ TypeInv /\ torn \subseteq torn' /\ raced' = raced
      /\ Reports("removed", f) /\ Finish(p) /\ job[p].pc = "write"
  BY DEF HonestInv, Write
<1>2. PICK n \in 0..Len(over), end \in {<<>>, <<Torn>>} :
        /\ over = <<>> => end = <<>>
        /\ Set(f, mem \o end \o SubSeq(over, n + 1, Len(over)))
  BY DEF Write
<1>3. over \in Seq(Tokens) /\ mem \in Seq(Tokens)
  BY <1>1, ContentType DEF TypeInv, TypeOK
<1> DEFINE s == mem \o end \o SubSeq(over, n + 1, Len(over))
<1>4. s \in Seq(Tokens)
  <2>1. SubSeq(over, n + 1, Len(over)) \in Seq(Tokens)
    <3> HIDE DEF over
    <3> QED BY <1>3, PieceType
  <2>2. end \in Seq(Tokens)
    <3>1. <<>> \in Seq(Tokens) /\ <<Torn>> \in Seq(Tokens)
      BY TextTokens
    <3> QED BY <3>1
  <2> HIDE DEF over, mem
  <2> QED BY <1>3, <2>1, <2>2
<1>5. Content(f)' = s /\ \A g \in RcFiles : g # f => file'[g] = file[g]
  <2> HIDE DEF over, mem, s
  <2>1. Set(f, s)
    BY <1>2 DEF s
  <2> QED BY <1>1, <1>4, <2>1, SetContent
<1>6. ASSUME Calm(f)' PROVE Clean(s)
  <2>1. Calm(f)
    BY <1>1, <1>6 DEF Calm
  <2>2. Clean(mem) /\ over = <<>>
    BY <1>1, <2>1, AtFile DEF Relies
  <2> HIDE DEF over, mem
  <2>3. end = <<>> /\ Len(over) = 0 /\ n \in 0..0
    BY <1>2, <2>2
  <2>4. SubSeq(over, n + 1, Len(over)) = <<>>
    BY <2>3, SubSeqEmpty
  <2>5. s = mem
    BY <1>3, <2>3, <2>4, ConcatEmptySeq
  <2> QED BY <2>2, <2>5
<1> HIDE DEF over, mem, s
<1>7. CommandsHonest'
  BY <1>1, <1>5, <1>6, Honest
<1>8. job'[p] = NoJob /\ \A q \in Procs : q # p => job'[q] = job[q]
  BY <1>1, FinishType
<1>9. f # NoJob.rc
  BY NoJobType
<1> QED BY <1>1, <1>5, <1>6, <1>7, <1>8, <1>9, Frame

LEMMA BreakHonest ==
  ASSUME HonestInv, TypeInv', NEW p \in Procs, NEW f \in RcFiles, job[p].rc = f, Break(p)
  PROVE  HonestInv'
<1> DEFINE part == CASE job[p].pc = "append" -> Block
                     [] job[p].pc = "write" -> job[p].mem
                     [] OTHER -> <<>>
<1>1. /\ TypeInv /\ torn \subseteq torn' /\ raced' = raced
      /\ Finish(p) /\ report' = Quiet
  BY DEF HonestInv, Break
<1>2. torn' = IF part # <<>> \/ job[p].pc = "write" THEN torn \cup {f} ELSE torn
  BY DEF Break
<1>3. PICK n \in 0..Len(part) :
        IF n = 0 THEN UNCHANGED file ELSE Set(f, Content(f) \o SubSeq(part, 1, n))
  BY DEF Break
<1>4. ASSUME Calm(f)' PROVE Calm(f) /\ Content(f)' = Content(f)
  <2> HIDE DEF part
  <2>1. part = <<>>
    BY <1>2, <1>4 DEF Calm
  <2>2. n = 0
    BY <1>3, <2>1
  <2>3. file' = file
    BY <1>3, <2>2
  <2> QED BY <1>1, <1>4, <2>3, SameContent DEF Calm
<1>5. \A g \in RcFiles : g # f => file'[g] = file[g]
  <2> HIDE DEF part
  <2>1. CASE n = 0
    BY <1>3, <2>1
  <2>2. CASE n # 0
    BY <1>3, <2>2 DEF Set, HonestInv, TypeInv, TypeOK
  <2> QED BY <2>1, <2>2
<1>6. job'[p] = NoJob /\ \A q \in Procs : q # p => job'[q] = job[q]
  BY <1>1, FinishType
<1>7. f # NoJob.rc
  BY NoJobType
<1>8. Calm(f)' => Clean(Content(f)') \/ OneBlock(Content(f)')
  BY <1>4 DEF HonestInv, Whole
<1> HIDE DEF part
<1> QED BY <1>1, <1>5, <1>6, <1>7, <1>8, Silent, Frame

LEMMA EditHonest ==
  ASSUME HonestInv, TypeInv', NEW f \in RcFiles, Edit(f)
  PROVE  HonestInv'
<1> DEFINE c == Content(f)
<1>1. PICK t \in Texts : Set(f, c \o <<t, "nl">>)
  BY DEF Edit
<1> DEFINE s == c \o <<t, "nl">>
<1>2. /\ TypeInv /\ raced' = raced /\ job' = job /\ report' = Quiet
      /\ torn' = IF InHand(f) THEN torn \cup {f} ELSE torn
  BY DEF HonestInv, Edit
<1>3. c \in Seq(Tokens)
  BY <1>2, ContentType DEF TypeInv
<1>4. /\ s \in Seq(Tokens) /\ (Clean(c) => Clean(s)) /\ (OneBlock(c) => OneBlock(s))
  BY <1>3, EditKeeps
<1>5. Content(f)' = s /\ \A g \in RcFiles : g # f => file'[g] = file[g]
  <2> HIDE DEF c
  <2>1. Set(f, s)
    BY <1>1
  <2> HIDE DEF s
  <2> QED BY <1>2, <1>4, <2>1, SetContent
<1>6. \A g \in RcFiles : g # f => Content(g)' = Content(g)
  BY <1>5 DEF Content
<1>7. ASSUME NEW g \in RcFiles, Calm(g)' PROVE Calm(g)
  BY <1>2, <1>7 DEF Calm
<1>8. Alone'
  BY <1>2 DEF HonestInv, Alone, NoJob
<1>9. Whole'
  <2> SUFFICES ASSUME NEW g \in RcFiles, Calm(g)'
               PROVE  Clean(Content(g)') \/ OneBlock(Content(g)')
    BY DEF Whole, Clean, OneBlock, BlockAt
  <2>1. Clean(Content(g)) \/ OneBlock(Content(g))
    BY <1>7 DEF HonestInv, Whole
  <2> QED BY <1>4, <1>5, <1>6, <2>1
<1>10. Reliant'
  <2> SUFFICES ASSUME NEW q \in Procs, NEW g \in RcFiles, job[q].rc = g, Calm(g)'
               PROVE  Relies(job[q], Content(g)')
    BY <1>2 DEF Reliant, Relies, Clean
  <2>1. Relies(job[q], Content(g))
    BY <1>7 DEF HonestInv, Reliant
  <2>2. CASE g = f
    <3>1. job[q].pc \notin {"truncate", "write"}
      BY <1>2, <2>2 DEF Calm, InHand
    <3> QED BY <1>4, <1>5, <2>1, <2>2, <3>1 DEF Relies
  <2>3. CASE g # f
    BY <1>6, <2>1, <2>3
  <2> QED BY <2>2, <2>3
<1> QED BY <1>2, <1>8, <1>9, <1>10, Silent DEF HonestInv

\* Setup and unset tell the truth: as long as commands on a file do not overlap
\* or break off, whatever the user puts into it meanwhile, it has exactly one
\* block after setup and no marker after unset.
THEOREM CommandsHonestCorrect == Spec => []CommandsHonest
<1>1. ASSUME HonestInv, [Next]_vars PROVE HonestInv'
  <2>1. TypeInv'
    BY <1>1, TypeStep DEF HonestInv
  <2>2. ASSUME NEW p \in Procs,
               Look(p) \/ AppendBlock(p) \/ Read(p) \/ Truncate(p) \/ Write(p) \/ Break(p)
        PROVE  HonestInv'
    <3>1. job[p].rc \in RcFiles
      <4>1. job[p].pc # "idle" \/ job[p] # NoJob
        BY <2>2 DEF Look, AppendBlock, Read, Truncate, Write, Break
      <4> QED BY <1>1, <4>1, Under DEF HonestInv
    <3> QED BY <1>1, <2>1, <2>2, <3>1, LookHonest, AppendHonest, ReadHonest,
               TruncateHonest, WriteHonest, BreakHonest
  <2>3. ASSUME NEW p \in Procs, StartCommand(p) PROVE HonestInv'
    BY <1>1, <2>1, <2>3, StartHonest
  <2>4. ASSUME NEW f \in RcFiles, Edit(f) PROVE HonestInv'
    BY <1>1, <2>1, <2>4, EditHonest
  <2>5. CASE UNCHANGED vars
    <3>1. \A f \in RcFiles : Content(f)' = Content(f) /\ (Calm(f)' <=> Calm(f))
      BY <2>5 DEF vars, Content, Calm
    <3>2. job' = job /\ raced' = raced /\ report' = report /\ torn' = torn
      BY <2>5 DEF vars
    <3>3. Alone'
      BY <1>1, <3>2 DEF HonestInv, Alone, NoJob
    <3>4. Whole'
      <4> SUFFICES ASSUME NEW f \in RcFiles, Calm(f)'
                   PROVE  Clean(Content(f)') \/ OneBlock(Content(f)')
        BY DEF Whole, Clean, OneBlock, BlockAt
      <4>1. Calm(f) /\ Content(f)' = Content(f)
        BY <3>1
      <4> QED BY <1>1, <4>1 DEF HonestInv, Whole
    <3>5. Reliant'
      BY <1>1, <3>1, <3>2 DEF HonestInv, Reliant, Relies, Clean
    <3>6. CommandsHonest'
      BY <1>1, <2>5 DEF HonestInv, CommandsHonest, vars, Content, containsMarker, Blocks
    <3> QED BY <2>1, <3>3, <3>4, <3>5, <3>6 DEF HonestInv
  <2> QED BY <1>1, <2>2, <2>3, <2>4, <2>5 DEF Next
<1>2. HonestInv => CommandsHonest
  BY DEF HonestInv
<1> QED BY <1>1, <1>2, HonestInit, PTL DEF Spec

-------------------------------------------------------------------------------
\* The user's text

\* g[n] is what the first n tokens of s leave without the blocks.
Leaves(g, s) ==
    g = [n \in 0..Len(s) |->
            IF n = 0 THEN <<>>
            ELSE IF InBlock(s, n) THEN g[n - 1] ELSE Append(g[n - 1], s[n])]

LEMMA LeavesExists ==
  ASSUME NEW s \in Seq(Tokens)
  PROVE  \E g : Leaves(g, s)
<1> DEFINE Upto(g, m) ==
               g = [n \in 0..m |->
                       IF n = 0 THEN <<>>
                       ELSE IF InBlock(s, n) THEN g[n - 1] ELSE Append(g[n - 1], s[n])]
           Bad == {m \in Nat : ~(\E g : Upto(g, m))}
<1>1. ASSUME Bad # {} PROVE FALSE
  <2>1. PICK m \in Bad : \A x \in Bad : m <= x
    <3>1. Bad \in SUBSET Nat
      OBVIOUS
    <3> HIDE DEF Bad
    <3> QED BY <1>1, <3>1, Least
  <2>2. m # 0
    <3>1. Upto([n \in 0..0 |-> <<>>], 0)
      OBVIOUS
    <3> QED BY <2>1, <3>1
  <2>3. m - 1 \in Nat /\ m \in Nat /\ m - 1 \notin Bad
    <3>1. m \in Nat
      BY <2>1
    <3> HIDE DEF Bad
    <3> QED BY <2>1, <2>2, <3>1
  <2>4. PICK g : Upto(g, m - 1)
    BY <2>3
  <2> DEFINE x == IF InBlock(s, m) THEN g[m - 1] ELSE Append(g[m - 1], s[m])
             h == [n \in 0..m |-> IF n = m THEN x ELSE g[n]]
  <2>5. \A n \in 0..m : h[n] = IF n = 0 THEN <<>>
                              ELSE IF InBlock(s, n) THEN h[n - 1] ELSE Append(h[n - 1], s[n])
    <3> SUFFICES ASSUME NEW n \in 0..m
                 PROVE  h[n] = IF n = 0 THEN <<>>
                               ELSE IF InBlock(s, n) THEN h[n - 1] ELSE Append(h[n - 1], s[n])
      OBVIOUS
    <3>1. CASE n = m
      <4>1. h[n - 1] = g[n - 1] /\ h[n] = x
        BY <2>2, <2>3, <3>1
      <4> HIDE DEF h
      <4> QED BY <2>2, <3>1, <4>1
    <3>2. CASE n # m /\ n # 0
      <4>1. n \in 0..(m - 1) /\ n - 1 \in 0..m /\ n - 1 # m
        BY <2>3, <3>2
      <4>2. h[n] = g[n] /\ h[n - 1] = g[n - 1]
        BY <3>2, <4>1
      <4>3. g[n] = IF InBlock(s, n) THEN g[n - 1] ELSE Append(g[n - 1], s[n])
        BY <2>4, <3>2, <4>1
      <4> HIDE DEF h
      <4> QED BY <3>2, <4>2, <4>3
    <3>3. CASE n = 0
      <4>1. 0 \in 0..(m - 1)
        BY <2>3
      <4>2. g[0] = <<>>
        BY <2>4, <4>1
      <4> QED BY <2>2, <3>3, <4>2
    <3> QED BY <3>1, <3>2, <3>3
  <2>6. Upto(h, m)
    <3>1. h = [n \in 0..m |-> h[n]]
      OBVIOUS
    <3> HIDE DEF h
    <3> QED BY <2>5, <3>1
  <2> HIDE DEF h, Upto
  <2> QED BY <2>1, <2>6
<1>2. Len(s) \in Nat
  OBVIOUS
<1>3. \E g : Upto(g, Len(s))
  <2> HIDE DEF Upto
  <2> QED BY <1>1, <1>2
<1> QED BY <1>3 DEF Leaves

\* It is one function.
LEMMA LeavesOnce ==
  ASSUME NEW s \in Seq(Tokens), NEW g, NEW h, Leaves(g, s), Leaves(h, s)
  PROVE  g[Len(s)] = h[Len(s)]
<1> DEFINE Bad == {n \in 0..Len(s) : g[n] # h[n]}
<1>1. ASSUME Bad # {} PROVE FALSE
  <2>1. PICK m \in Bad : \A x \in Bad : m <= x
    <3>1. Bad \in SUBSET Nat
      OBVIOUS
    <3> HIDE DEF Bad
    <3> QED BY <1>1, <3>1, Least
  <2>2. m \in 0..Len(s) /\ g[m] # h[m]
    BY <2>1
  <2>3. m # 0
    BY <2>2 DEF Leaves
  <2>4. m - 1 \in 0..Len(s) /\ m - 1 \notin Bad
    <3> HIDE DEF Bad
    <3> QED BY <2>1, <2>2, <2>3
  <2>5. g[m - 1] = h[m - 1]
    BY <2>4
  <2>6. /\ g[m] = IF InBlock(s, m) THEN g[m - 1] ELSE Append(g[m - 1], s[m])
        /\ h[m] = IF InBlock(s, m) THEN h[m - 1] ELSE Append(h[m - 1], s[m])
    BY <2>2, <2>3 DEF Leaves
  <2> QED BY <2>2, <2>5, <2>6
<1> QED BY <1>1

LEMMA LeavesAt ==
  ASSUME NEW s, NEW g, Leaves(g, s), NEW x \in 1..Len(s)
  PROVE  g[x] = IF InBlock(s, x) THEN g[x - 1] ELSE Append(g[x - 1], s[x])
<1>1. x \in 0..Len(s) /\ x # 0
  OBVIOUS
<1> QED BY <1>1 DEF Leaves

\* So that to know what is left it is enough to give such a function.
LEMMA WithoutIs ==
  ASSUME NEW s \in Seq(Tokens), NEW h, Leaves(h, s)
  PROVE  Without(s) = h[Len(s)]
<1> DEFINE u == CHOOSE g : Leaves(g, s)
<1>1. Leaves(u, s)
  BY LeavesExists
<1>2. Without(s) = u[Len(s)]
  BY DEF Without, Leaves
<1> HIDE DEF u
<1> QED BY <1>1, <1>2, LeavesOnce

\* Markers belong to whole blocks, and blocks do not overlap.
Guarded(s) == \A i \in 1..Len(s) : /\ s[i] = RCMarkerStart => BlockAt(s, i - 1)
                                   /\ s[i] = RCMarkerEnd => BlockAt(s, i - 5)
Spaced(s) == \A i, j \in 1..Len(s) : BlockAt(s, i) /\ BlockAt(s, j) /\ i < j => i + 7 <= j

\* The user's text t with blocks in between.
Intact(s, t) == Guarded(s) /\ Spaced(s) /\ Without(s) = t

LEMMA InBlockIs ==
  ASSUME NEW s \in Seq(Tokens), NEW x
  PROVE  InBlock(s, x) <=> \E i \in 1..(Len(s) - 6) : BlockAt(s, i) /\ x \in i..(i + 6)
<1>1. Len(Block) = 7
  BY BlockTokens
<1>2. \A i \in Int : i + Len(Block) - 1 = i + 6
  BY <1>1
<1>3. Blocks(s) = {i \in 1..(Len(s) - 6) : BlockAt(s, i)}
  BY BlocksAre
<1>4. \A i \in Blocks(s) : i \in Int
  BY <1>3
<1>5. InBlock(s, x) <=> \E i \in Blocks(s) : x \in i..(i + 6)
  BY <1>2, <1>4 DEF InBlock
<1> QED BY <1>3, <1>5

\* The markers of a block.
LEMMA BlockMarkers ==
  ASSUME NEW s \in Seq(Tokens), NEW i, BlockAt(s, i)
  PROVE  /\ i \in 1..(Len(s) - 6) /\ i + 1 \in 1..Len(s) /\ i + 5 \in 1..Len(s)
         /\ s[i] = "nl" /\ s[i + 1] = RCMarkerStart
         /\ s[i + 5] = RCMarkerEnd /\ s[i + 6] = "nl"
         /\ \A j \in 2..4 : s[i + j] # RCMarkerStart /\ s[i + j] # RCMarkerEnd
<1>1. i \in 1..(Len(s) - 6) /\ \A j \in 1..7 : s[i + j - 1] = Block[j]
  BY DEF BlockAt
<1>2. /\ s[i + 1 - 1] = "nl" /\ s[i + 2 - 1] = RCMarkerStart /\ s[i + 6 - 1] = RCMarkerEnd
      /\ s[i + 7 - 1] = "nl"
      /\ s[i + 3 - 1] = "nl" /\ s[i + 4 - 1] = "export PATH" /\ s[i + 5 - 1] = "nl"
  <2>1. /\ s[i + 1 - 1] = Block[1] /\ s[i + 2 - 1] = Block[2] /\ s[i + 3 - 1] = Block[3]
        /\ s[i + 4 - 1] = Block[4] /\ s[i + 5 - 1] = Block[5] /\ s[i + 6 - 1] = Block[6]
        /\ s[i + 7 - 1] = Block[7]
    BY <1>1
  <2> QED BY <2>1, BlockTokens
<1>3. /\ i + 1 - 1 = i /\ i + 2 - 1 = i + 1 /\ i + 6 - 1 = i + 5 /\ i + 7 - 1 = i + 6
      /\ i + 3 - 1 = i + 2 /\ i + 4 - 1 = i + 3 /\ i + 5 - 1 = i + 4
  BY <1>1
<1>4. \A j \in 2..4 : s[i + j] \in {"nl", "export PATH"}
  <2>1. \A j \in 2..4 : j = 2 \/ j = 3 \/ j = 4
    OBVIOUS
  <2> QED BY <1>2, <1>3, <2>1
<1>5. \A t \in {"nl", "export PATH"} : t # RCMarkerStart /\ t # RCMarkerEnd
  BY DEF RCMarkerStart, RCMarkerEnd
<1>6. i + 1 \in 1..Len(s) /\ i + 5 \in 1..Len(s)
  BY <1>1
<1> QED BY <1>1, <1>2, <1>3, <1>4, <1>5, <1>6

\* What is appended makes no block out of what was there.
LEMMA AppendBlocks ==
  ASSUME NEW s \in Seq(Tokens), NEW e \in Seq(Tokens), Guarded(s)
  PROVE  /\ s \o e \in Seq(Tokens) /\ Len(s \o e) = Len(s) + Len(e)
         /\ \A i \in 1..(Len(s) + Len(e)) :
               (s \o e)[i] = IF i <= Len(s) THEN s[i] ELSE e[i - Len(s)]
         /\ \A i : BlockAt(s, i) => BlockAt(s \o e, i)
         /\ \A i : BlockAt(s \o e, i) /\ i + 5 <= Len(s) => BlockAt(s, i)
<1> DEFINE w == s \o e  n == Len(s)  m == Len(e)
<1>1. /\ w \in Seq(Tokens) /\ Len(w) = n + m
      /\ \A i \in 1..(n + m) : w[i] = IF i <= n THEN s[i] ELSE e[i - n]
  BY ConcatProperties
<1>2. n \in Nat /\ m \in Nat
  OBVIOUS
<1> HIDE DEF w
<1>3. ASSUME NEW i, BlockAt(s, i) PROVE BlockAt(w, i)
  <2>1. i \in 1..(n - 6) /\ \A j \in 1..7 : s[i + j - 1] = Block[j]
    BY <1>3 DEF BlockAt
  <2> HIDE DEF n, m
  <2>2. \A j \in 1..7 : i + j - 1 \in 1..(n + m) /\ i + j - 1 <= n
    BY <1>2, <2>1
  <2>3. \A j \in 1..7 : w[i + j - 1] = Block[j]
    BY <1>1, <2>1, <2>2
  <2>4. i \in 1..(Len(w) - 6)
    BY <1>1, <1>2, <2>1
  <2> QED BY <2>3, <2>4 DEF BlockAt
<1>4. ASSUME NEW i, BlockAt(w, i), i + 5 <= n PROVE BlockAt(s, i)
  <2>1. i \in 1..(Len(w) - 6) /\ w[i + 5] = RCMarkerEnd /\ i + 5 \in 1..Len(w)
    BY <1>1, <1>4, BlockMarkers
  <2> HIDE DEF n, m
  <2>2. s[i + 5] = RCMarkerEnd /\ i + 5 \in 1..n
    BY <1>1, <1>2, <1>4, <2>1
  <2>3. ASSUME NEW x \in 1..n, x = i + 5 PROVE BlockAt(s, i)
    <3>1. s[x] = RCMarkerEnd
      BY <2>2, <2>3
    <3>2. BlockAt(s, x - 5)
      BY <3>1 DEF Guarded, n
    <3>3. x - 5 = i
      BY <2>1, <2>3
    <3> QED BY <3>2, <3>3
  <2> QED BY <2>2, <2>3
<1> QED BY <1>1, <1>3, <1>4 DEF w

\* The user's first text.
LEMMA TextIntact ==
  ASSUME NEW s \in Seq(Texts \cup {"nl"})
  PROVE  Intact(s, s)
<1>1. s \in Seq(Tokens) /\ Len(s) \in Nat
  BY TextTokens
<1>2. \A i \in 1..Len(s) : s[i] # RCMarkerStart /\ s[i] # RCMarkerEnd
  BY TextTokens, ElementOfSeq
<1>3. \A i : ~BlockAt(s, i)
  BY <1>1, <1>2, BlockMarkers
<1>4. Guarded(s) /\ Spaced(s)
  BY <1>2, <1>3 DEF Guarded, Spaced
<1> DEFINE h == [n \in 0..Len(s) |-> SubSeq(s, 1, n)]
<1>5. h[0] = <<>> /\ h[Len(s)] = s
  <2>1. SubSeq(s, 1, 0) = <<>>
    BY <1>1, SubSeqEmpty
  <2>2. SubSeq(s, 1, Len(s)) = s
    BY <1>1, SubSeqFull
  <2> QED BY <1>1, <2>1, <2>2
<1>6. ASSUME NEW n \in 1..Len(s)
      PROVE  h[n] = Append(h[n - 1], s[n]) /\ ~InBlock(s, n)
  <2>1. ~InBlock(s, n)
    BY <1>1, <1>3, InBlockIs
  <2>2. SubSeq(s, 1, n) = Append(SubSeq(s, 1, n - 1), s[n])
    BY <1>1, SubSeqRecursiveSecond
  <2> QED BY <2>1, <2>2
<1>7. Leaves(h, s)
  <2>1. h = [n \in 0..Len(s) |-> h[n]]
    OBVIOUS
  <2>2. \A n \in 0..Len(s) : n = 0 \/ n \in 1..Len(s)
    BY <1>1
  <2> HIDE DEF h
  <2> QED BY <1>5, <1>6, <2>1, <2>2 DEF Leaves
<1>8. Without(s) = s
  <2> HIDE DEF h
  <2> QED BY <1>1, <1>5, <1>7, WithoutIs
<1> QED BY <1>4, <1>8 DEF Intact

\* A line of the user's comes out as it went in.
LEMMA EditIntact ==
  ASSUME NEW s \in Seq(Tokens), NEW u \in Seq(Tokens), NEW t \in Texts, Intact(s, u)
  PROVE  Intact(s \o <<t, "nl">>, u \o <<t, "nl">>)
<1> DEFINE e == <<t, "nl">>  w == s \o e  n == Len(s)
<1>1. e \in Seq(Tokens) /\ Len(e) = 2 /\ e[1] = t /\ e[2] = "nl"
  <2>1. t \in Tokens /\ "nl" \in Tokens
    BY TextTokens
  <2> QED BY <2>1
<1>2. Guarded(s) /\ Spaced(s) /\ Without(s) = u /\ n \in Nat
  BY DEF Intact
<1> HIDE DEF e
<1>3. /\ w \in Seq(Tokens) /\ Len(w) = n + 2
      /\ \A i \in 1..n : w[i] = s[i]
      /\ w[n + 1] = t /\ w[n + 2] = "nl"
      /\ \A i : BlockAt(s, i) => BlockAt(w, i)
      /\ \A i : BlockAt(w, i) /\ i + 5 <= n => BlockAt(s, i)
  <2>1. /\ w \in Seq(Tokens) /\ Len(w) = n + Len(e)
        /\ \A i \in 1..(n + Len(e)) : w[i] = IF i <= n THEN s[i] ELSE e[i - n]
        /\ \A i : BlockAt(s, i) => BlockAt(w, i)
        /\ \A i : BlockAt(w, i) /\ i + 5 <= n => BlockAt(s, i)
    BY <1>1, <1>2, AppendBlocks
  <2> HIDE DEF w, n
  <2>2. \A i \in 1..n : i \in 1..(n + 2) /\ i <= n
    BY <1>2
  <2>3. \A i \in 1..(n + 2) : w[i] = IF i <= n THEN s[i] ELSE e[i - n]
    <3>1. n + Len(e) = n + 2
      BY <1>1
    <3> QED BY <2>1, <3>1
  <2>4. ASSUME NEW x \in {1, 2} PROVE w[n + x] = e[x]
    <3> DEFINE y == n + x
    <3>1. y \in 1..(n + 2) /\ ~(y <= n) /\ y - n = x
      BY <1>2
    <3> HIDE DEF y
    <3>2. w[y] = e[y - n]
      BY <2>3, <3>1
    <3> QED BY <3>1, <3>2 DEF y
  <2> QED BY <1>1, <2>1, <2>2, <2>3, <2>4
<1> HIDE DEF w, n
<1>4. ASSUME NEW i \in 1..(n + 2), w[i] = RCMarkerStart \/ w[i] = RCMarkerEnd
      PROVE  i \in 1..n /\ w[i] = s[i]
  <2>1. w[n + 1] # RCMarkerStart /\ w[n + 1] # RCMarkerEnd
        /\ w[n + 2] # RCMarkerStart /\ w[n + 2] # RCMarkerEnd
    BY <1>3, TextTokens
  <2>2. i # n + 1 /\ i # n + 2
    BY <1>4, <2>1
  <2>3. i \in 1..n
    BY <1>2, <2>2
  <2> QED BY <1>3, <2>3
<1>5. \A i : BlockAt(w, i) <=> BlockAt(s, i)
  <2> SUFFICES ASSUME NEW i, BlockAt(w, i) PROVE BlockAt(s, i)
    BY <1>3
  <2>1. i \in 1..(Len(w) - 6) /\ i + 5 \in 1..Len(w) /\ w[i + 5] = RCMarkerEnd
    BY <1>3, BlockMarkers
  <2>2. i + 5 \in 1..n
    BY <1>3, <1>4, <2>1
  <2> QED BY <1>3, <2>2
<1>6. Guarded(w)
  <2> SUFFICES ASSUME NEW i \in 1..(n + 2)
               PROVE  /\ w[i] = RCMarkerStart => BlockAt(w, i - 1)
                      /\ w[i] = RCMarkerEnd => BlockAt(w, i - 5)
    BY <1>3 DEF Guarded
  <2> QED BY <1>2, <1>4, <1>5 DEF Guarded, n
<1>7. Spaced(w)
  <2> SUFFICES ASSUME NEW i \in 1..Len(w), NEW j \in 1..Len(w),
                      BlockAt(w, i), BlockAt(w, j), i < j
               PROVE  i + 7 <= j
    BY DEF Spaced
  <2>1. BlockAt(s, i) /\ BlockAt(s, j)
    BY <1>5
  <2>2. i \in 1..Len(s) /\ j \in 1..Len(s)
    <3>1. i \in 1..(Len(s) - 6) /\ j \in 1..(Len(s) - 6)
      BY <2>1, BlockMarkers
    <3> QED BY <3>1
  <2> QED BY <1>2, <2>1, <2>2 DEF Spaced
<1>8. \A x \in 1..n : InBlock(w, x) <=> InBlock(s, x)
  <2> SUFFICES ASSUME NEW x PROVE InBlock(w, x) <=> InBlock(s, x)
    OBVIOUS
  <2>1. \A i : BlockAt(s, i) => i \in 1..(Len(s) - 6)
    BY BlockMarkers
  <2>2. \A i : BlockAt(w, i) => i \in 1..(Len(w) - 6)
    BY <1>3, BlockMarkers
  <2>3. InBlock(w, x) <=> \E i \in 1..(Len(w) - 6) : BlockAt(w, i) /\ x \in i..(i + 6)
    BY <1>3, InBlockIs
  <2>4. InBlock(s, x) <=> \E i \in 1..(Len(s) - 6) : BlockAt(s, i) /\ x \in i..(i + 6)
    BY InBlockIs
  <2> QED BY <1>5, <2>1, <2>2, <2>3, <2>4
<1>9. ~InBlock(w, n + 1) /\ ~InBlock(w, n + 2)
  <2> SUFFICES ASSUME NEW x \in {n + 1, n + 2}, InBlock(w, x) PROVE FALSE
    OBVIOUS
  <2>1. PICK i \in 1..(Len(w) - 6) : BlockAt(w, i) /\ x \in i..(i + 6)
    BY <1>3, InBlockIs
  <2>2. i \in 1..(Len(s) - 6)
    BY <1>5, <2>1, BlockMarkers
  <2> QED BY <1>2, <2>1, <2>2 DEF n
<1>10. PICK g : Leaves(g, s)
  BY LeavesExists
<1>11. g[n] = u
  BY <1>2, <1>10, WithoutIs DEF n
<1> DEFINE h == [x \in 0..(n + 2) |->
                    IF x <= n THEN g[x] ELSE IF x = n + 1 THEN Append(u, t)
                                        ELSE Append(Append(u, t), "nl")]
<1>12. Leaves(h, w)
  <2>1. ASSUME NEW x \in 0..(n + 2)
        PROVE  h[x] = IF x = 0 THEN <<>>
                      ELSE IF InBlock(w, x) THEN h[x - 1] ELSE Append(h[x - 1], w[x])
    <3>1. CASE x = 0
      <4>1. g[0] = <<>>
        BY <1>2, <1>10 DEF Leaves, n
      <4>2. h[0] = g[0]
        BY <1>2
      <4> HIDE DEF h
      <4> QED BY <3>1, <4>1, <4>2
    <3>2. CASE x \in 1..n
      <4>1. g[x] = IF InBlock(s, x) THEN g[x - 1] ELSE Append(g[x - 1], s[x])
        BY <1>10, <3>2, LeavesAt DEF n
      <4>2. h[x] = g[x] /\ h[x - 1] = g[x - 1]
        BY <1>2, <3>2
      <4> HIDE DEF h
      <4> QED BY <1>3, <1>8, <3>2, <4>1, <4>2
    <3>3. CASE x = n + 1
      <4>1. h[x] = Append(u, t) /\ h[x - 1] = u /\ x # 0
        BY <1>2, <1>11, <3>3
      <4> HIDE DEF h
      <4> QED BY <1>3, <1>9, <3>3, <4>1
    <3>4. CASE x = n + 2
      <4>1. h[x] = Append(Append(u, t), "nl") /\ h[x - 1] = Append(u, t) /\ x # 0
        BY <1>2, <3>4
      <4> HIDE DEF h
      <4> QED BY <1>3, <1>9, <3>4, <4>1
    <3>5. x = 0 \/ x \in 1..n \/ x = n + 1 \/ x = n + 2
      BY <1>2
    <3> QED BY <3>1, <3>2, <3>3, <3>4, <3>5
  <2>2. h = [x \in 0..(n + 2) |-> h[x]]
    OBVIOUS
  <2> HIDE DEF h
  <2> QED BY <1>3, <2>1, <2>2 DEF Leaves
<1>13. Without(w) = h[n + 2]
  <2> HIDE DEF h
  <2> QED BY <1>3, <1>12, WithoutIs
<1>14. h[n + 2] = Append(Append(u, t), "nl")
  BY <1>2
<1>15. Append(Append(u, t), "nl") = u \o e
  <2>1. t \in Tokens /\ "nl" \in Tokens
    BY TextTokens
  <2>2. Append(Append(u, t), "nl") = u \o <<t, "nl">>
    <3>1. Append(u, t) = u \o <<t>> /\ Append(u, t) \in Seq(Tokens)
      BY <2>1, AppendIsConcat, AppendProperties
    <3>2. Append(Append(u, t), "nl") = Append(u, t) \o <<"nl">>
      BY <2>1, <3>1, AppendIsConcat
    <3>3. <<t>> \in Seq(Tokens) /\ <<"nl">> \in Seq(Tokens)
      BY <2>1
    <3>4. (u \o <<t>>) \o <<"nl">> = u \o (<<t>> \o <<"nl">>)
      BY <3>3, ConcatAssociative
    <3>5. <<t>> \o <<"nl">> = <<t, "nl">>
      <4> DEFINE a == <<t>>  b == <<"nl">>  c == <<t, "nl">>
      <4>1. /\ Len(a) = 1 /\ a[1] = t /\ Len(b) = 1 /\ b[1] = "nl"
            /\ Len(c) = 2 /\ c[1] = t /\ c[2] = "nl"
        OBVIOUS
      <4>2. a \in Seq(Tokens) /\ b \in Seq(Tokens) /\ c \in Seq(Tokens)
        BY <2>1
      <4> HIDE DEF a, b, c
      <4>3. /\ a \o b \in Seq(Tokens) /\ Len(a \o b) = Len(a) + Len(b)
            /\ \A i \in 1..(Len(a) + Len(b)) :
                  (a \o b)[i] = IF i <= Len(a) THEN a[i] ELSE b[i - Len(a)]
        BY <4>2, ConcatProperties
      <4>4. Len(a \o b) = Len(c) /\ \A i \in 1..Len(c) : (a \o b)[i] = c[i]
        BY <4>1, <4>3
      <4>5. a \o b = c
        BY <4>2, <4>3, <4>4, SeqEqual
      <4> QED BY <4>5 DEF a, b, c
    <3> QED BY <3>1, <3>2, <3>4, <3>5
  <2> QED BY <2>2 DEF e
<1> HIDE DEF h
<1>16. Without(w) = u \o e
  BY <1>13, <1>14, <1>15
<1> QED BY <1>6, <1>7, <1>16 DEF Intact, w, e

\* A block appended leaves the same text, also next to other blocks.
LEMMA SetupIntact ==
  ASSUME NEW s \in Seq(Tokens), NEW u, Intact(s, u)
  PROVE  Intact(s \o Block, u)
<1> DEFINE w == s \o Block  n == Len(s)
<1>1. /\ Block \in Seq(Tokens) /\ Len(Block) = 7
      /\ Block[2] = RCMarkerStart /\ Block[6] = RCMarkerEnd
      /\ \A j \in 1..7 : /\ Block[j] = RCMarkerStart => j = 2
                         /\ Block[j] = RCMarkerEnd => j = 6
  <2>1. \A j \in 1..7 : j = 1 \/ j = 2 \/ j = 3 \/ j = 4 \/ j = 5 \/ j = 6 \/ j = 7
    OBVIOUS
  <2>2. /\ "nl" # RCMarkerStart /\ "nl" # RCMarkerEnd /\ RCMarkerStart # RCMarkerEnd
        /\ "export PATH" # RCMarkerStart /\ "export PATH" # RCMarkerEnd
    BY DEF RCMarkerStart, RCMarkerEnd
  <2> QED BY <2>1, <2>2, BlockTokens
<1>2. Guarded(s) /\ Spaced(s) /\ Without(s) = u /\ n \in Nat
  BY DEF Intact
<1>3. /\ w \in Seq(Tokens) /\ Len(w) = n + 7
      /\ \A i \in 1..n : w[i] = s[i]
      /\ \A j \in 1..7 : w[n + j] = Block[j]
      /\ \A i : BlockAt(s, i) => BlockAt(w, i)
      /\ \A i : BlockAt(w, i) /\ i + 5 <= n => BlockAt(s, i)
  <2>1. /\ w \in Seq(Tokens) /\ Len(w) = n + Len(Block)
        /\ \A i \in 1..(n + Len(Block)) : w[i] = IF i <= n THEN s[i] ELSE Block[i - n]
        /\ \A i : BlockAt(s, i) => BlockAt(w, i)
        /\ \A i : BlockAt(w, i) /\ i + 5 <= n => BlockAt(s, i)
    BY <1>1, <1>2, AppendBlocks
  <2> HIDE DEF w, n
  <2>2. Len(w) = n + 7 /\ \A i \in 1..(n + 7) : w[i] = IF i <= n THEN s[i] ELSE Block[i - n]
    <3>1. n + Len(Block) = n + 7
      BY <1>1
    <3> QED BY <2>1, <3>1
  <2>3. \A i \in 1..n : w[i] = s[i]
    BY <1>2, <2>2
  <2>4. ASSUME NEW j \in 1..7 PROVE w[n + j] = Block[j]
    <3> DEFINE y == n + j
    <3>1. y \in 1..(n + 7) /\ ~(y <= n) /\ y - n = j
      BY <1>2
    <3> HIDE DEF y
    <3>2. w[y] = Block[y - n]
      BY <2>2, <3>1
    <3> QED BY <3>1, <3>2 DEF y
  <2> QED BY <2>1, <2>2, <2>3, <2>4
<1> HIDE DEF w, n
<1>4. \A i \in 1..(n + 7) : i \in 1..n \/ \E j \in 1..7 : i = n + j
  <2> SUFFICES ASSUME NEW i \in 1..(n + 7), i \notin 1..n
               PROVE  \E j \in 1..7 : i = n + j
    OBVIOUS
  <2>1. i - n \in 1..7 /\ i = n + (i - n)
    BY <1>2
  <2> QED BY <2>1
<1>5. BlockAt(w, n + 1)
  <2>1. \A j \in 1..7 : n + 1 + j - 1 = n + j
    BY <1>2
  <2>2. n + 1 \in 1..(Len(w) - 6)
    BY <1>2, <1>3
  <2> QED BY <1>3, <2>1, <2>2 DEF BlockAt
<1>6. \A i : BlockAt(w, i) <=> BlockAt(s, i) \/ i = n + 1
  <2> SUFFICES ASSUME NEW i, BlockAt(w, i), i # n + 1 PROVE BlockAt(s, i)
    BY <1>3, <1>5
  <2>1. i \in 1..(Len(w) - 6) /\ i + 5 \in 1..(n + 7) /\ w[i + 5] = RCMarkerEnd
    BY <1>3, BlockMarkers
  <2>2. CASE i + 5 \in 1..n
    BY <1>3, <2>2
  <2>3. ASSUME NEW j \in 1..7, i + 5 = n + j PROVE FALSE
    <3>1. w[n + j] = RCMarkerEnd
      BY <2>1, <2>3
    <3>2. j = 6
      BY <1>1, <1>3, <3>1
    <3> QED BY <1>2, <2>1, <2>3, <3>2
  <2> QED BY <1>4, <2>1, <2>2, <2>3
<1>7. Guarded(w)
  <2> SUFFICES ASSUME NEW i \in 1..(n + 7)
               PROVE  /\ w[i] = RCMarkerStart => BlockAt(w, i - 1)
                      /\ w[i] = RCMarkerEnd => BlockAt(w, i - 5)
    BY <1>3 DEF Guarded
  <2>1. CASE i \in 1..n
    BY <1>2, <1>3, <2>1 DEF Guarded, n
  <2>2. ASSUME NEW j \in 1..7, i = n + j
        PROVE  /\ w[i] = RCMarkerStart => BlockAt(w, i - 1)
               /\ w[i] = RCMarkerEnd => BlockAt(w, i - 5)
    <3>1. w[i] = Block[j]
      BY <1>3, <2>2
    <3>2. /\ w[i] = RCMarkerStart => i - 1 = n + 1
          /\ w[i] = RCMarkerEnd => i - 5 = n + 1
      <4>1. j = 2 => i - 1 = n + 1
        BY <1>2, <2>2
      <4>2. j = 6 => i - 5 = n + 1
        BY <1>2, <2>2
      <4> QED BY <1>1, <3>1, <4>1, <4>2
    <3> QED BY <1>5, <3>2
  <2> QED BY <1>4, <2>1, <2>2
<1>8. \A i : BlockAt(s, i) => i \in 1..(n - 6)
  BY BlockMarkers DEF n
<1>9. Spaced(w)
  <2> SUFFICES ASSUME NEW i \in 1..Len(w), NEW j \in 1..Len(w),
                      BlockAt(w, i), BlockAt(w, j), i < j
               PROVE  i + 7 <= j
    BY DEF Spaced
  <2>1. CASE BlockAt(s, i) /\ BlockAt(s, j)
    <3>1. i \in 1..Len(s) /\ j \in 1..Len(s)
      BY <1>2, <1>8, <2>1 DEF n
    <3> QED BY <1>2, <2>1, <3>1 DEF Spaced
  <2>2. CASE BlockAt(s, i) /\ j = n + 1
    BY <1>2, <1>8, <2>2
  <2>3. CASE i = n + 1 /\ BlockAt(s, j)
    BY <1>2, <1>8, <2>3
  <2>4. CASE i = n + 1 /\ j = n + 1
    BY <1>2, <2>4
  <2> QED BY <1>6, <2>1, <2>2, <2>3, <2>4
<1>10. ASSUME NEW x
       PROVE  InBlock(w, x) <=> InBlock(s, x) \/ x \in (n + 1)..(n + 7)
  <2>1. InBlock(w, x) <=> \E i \in 1..(Len(w) - 6) : BlockAt(w, i) /\ x \in i..(i + 6)
    BY <1>3, InBlockIs
  <2>2. InBlock(s, x) <=> \E i \in 1..(n - 6) : BlockAt(s, i) /\ x \in i..(i + 6)
    BY InBlockIs DEF n
  <2>3. \A i : BlockAt(w, i) => i \in 1..(Len(w) - 6)
    BY <1>3, BlockMarkers
  <2>4. n + 1 + 6 = n + 7
    BY <1>2
  <2>5. InBlock(w, x) <=> \E i : BlockAt(w, i) /\ x \in i..(i + 6)
    BY <2>1, <2>3
  <2>6. InBlock(s, x) <=> \E i : BlockAt(s, i) /\ x \in i..(i + 6)
    BY <1>8, <2>2
  <2> QED BY <1>6, <2>4, <2>5, <2>6
<1>11. ASSUME NEW x \in 1..n PROVE InBlock(w, x) <=> InBlock(s, x)
  BY <1>2, <1>10
<1>12. PICK g : Leaves(g, s)
  BY LeavesExists
<1>13. g[n] = u
  BY <1>2, <1>12, WithoutIs DEF n
<1> DEFINE h == [x \in 0..(n + 7) |-> IF x <= n THEN g[x] ELSE u]
<1>14. Leaves(h, w)
  <2>1. ASSUME NEW x \in 0..(n + 7)
        PROVE  h[x] = IF x = 0 THEN <<>>
                      ELSE IF InBlock(w, x) THEN h[x - 1] ELSE Append(h[x - 1], w[x])
    <3>1. CASE x = 0
      <4>1. g[0] = <<>>
        BY <1>2, <1>12 DEF Leaves, n
      <4>2. h[0] = g[0]
        BY <1>2
      <4> HIDE DEF h
      <4> QED BY <3>1, <4>1, <4>2
    <3>2. CASE x \in 1..n
      <4>1. g[x] = IF InBlock(s, x) THEN g[x - 1] ELSE Append(g[x - 1], s[x])
        BY <1>12, <3>2, LeavesAt DEF n
      <4>2. h[x] = g[x] /\ h[x - 1] = g[x - 1] /\ x # 0
        BY <1>2, <3>2
      <4> HIDE DEF h
      <4> QED BY <1>3, <1>11, <3>2, <4>1, <4>2
    <3>3. CASE x \in (n + 1)..(n + 7)
      <4>1. h[x] = u /\ h[x - 1] = u /\ x # 0
        BY <1>2, <1>13, <3>3
      <4> HIDE DEF h
      <4> QED BY <1>10, <3>3, <4>1
    <3>4. x = 0 \/ x \in 1..n \/ x \in (n + 1)..(n + 7)
      BY <1>2
    <3> QED BY <3>1, <3>2, <3>3, <3>4
  <2>2. h = [x \in 0..(n + 7) |-> h[x]]
    OBVIOUS
  <2> HIDE DEF h
  <2> QED BY <1>3, <2>1, <2>2 DEF Leaves
<1>15. Without(w) = h[n + 7]
  <2> HIDE DEF h
  <2> QED BY <1>3, <1>14, WithoutIs
<1>16. h[n + 7] = u
  BY <1>2
<1> HIDE DEF h
<1> QED BY <1>7, <1>9, <1>15, <1>16 DEF Intact, w

\* A strip takes out the first block, whole.
LEMMA StripIs ==
  ASSUME NEW s \in Seq(Tokens), Guarded(s), containsMarker(s)
  PROVE  \E k \in 1..(Len(s) - 6) :
            /\ BlockAt(s, k)
            /\ \A i \in 1..Len(s) : s[i] = RCMarkerStart => k + 1 <= i
            /\ stripMarkerBlock(s) = SubSeq(s, 1, k - 1) \o SubSeq(s, k + 7, Len(s))
<1> DEFINE start == Start(s)
           ends == {i \in start..Len(s) : s[i] = RCMarkerEnd}
           end == CHOOSE i \in ends : \A j \in ends : i <= j
           from == IF start > 1 /\ s[start - 1] = "nl" THEN start - 1 ELSE start
           to == IF end < Len(s) /\ s[end + 1] = "nl" THEN end + 1 ELSE end
           k == start - 1
<1>1. stripMarkerBlock(s) = IF start = 0 \/ ends = {} THEN s
                            ELSE SubSeq(s, 1, from - 1) \o SubSeq(s, to + 1, Len(s))
  BY DEF stripMarkerBlock, Start
<1>2. /\ start \in 1..Len(s) /\ s[start] = RCMarkerStart
      /\ \A i \in 1..Len(s) : s[i] = RCMarkerStart => start <= i
  BY StartProperty
<1> HIDE DEF start
<1>3. BlockAt(s, k)
  BY <1>2 DEF Guarded
<1>4. start = k + 1 /\ k \in Int
  BY <1>2
<1> HIDE DEF k
<1>5. /\ k \in 1..(Len(s) - 6) /\ s[k] = "nl" /\ s[k + 6] = "nl"
      /\ k + 5 \in 1..Len(s) /\ s[k + 5] = RCMarkerEnd /\ Len(s) \in Nat
  BY <1>3, BlockMarkers
<1>6. ASSUME NEW i \in ends PROVE i \in Int /\ k + 5 <= i
  <2>1. i \in 1..Len(s) /\ s[i] = RCMarkerEnd
    BY <1>2
  <2>2. BlockAt(s, i - 5)
    BY <2>1 DEF Guarded
  <2>3. ASSUME NEW b, b = i - 5 PROVE b + 1 \in 1..Len(s) /\ s[b + 1] = RCMarkerStart
    BY <2>2, <2>3, BlockMarkers
  <2>4. i - 5 + 1 \in 1..Len(s) /\ s[i - 5 + 1] = RCMarkerStart
    BY <2>3
  <2>5. start <= i - 5 + 1
    BY <1>2, <2>4
  <2> QED BY <1>4, <1>5, <2>1, <2>5
<1>7. k + 5 \in ends
  BY <1>4, <1>5
<1>8. end = k + 5
  <2> HIDE DEF ends
  <2>1. \E i \in ends : \A j \in ends : i <= j
    BY <1>6, <1>7
  <2>2. end \in ends /\ \A j \in ends : end <= j
    BY <2>1
  <2> HIDE DEF end
  <2> QED BY <1>5, <1>6, <1>7, <2>2
<1> HIDE DEF end
<1>9. from = k
  <2>1. start - 1 = k /\ start > 1
    BY <1>4, <1>5
  <2> QED BY <1>5, <2>1
<1>10. to = k + 6
  <2>1. end + 1 = k + 6 /\ end < Len(s)
    BY <1>5, <1>8
  <2> QED BY <1>5, <2>1
<1> HIDE DEF from, to
<1>11. stripMarkerBlock(s) = SubSeq(s, 1, k - 1) \o SubSeq(s, k + 7, Len(s))
  <2>1. start # 0 /\ ends # {}
    BY <1>2, <1>7
  <2>2. to + 1 = k + 7
    BY <1>5, <1>10
  <2> HIDE DEF ends
  <2> QED BY <1>1, <1>9, <2>1, <2>2
<1> QED BY <1>2, <1>3, <1>4, <1>5, <1>11

\* What is left after taking out seven tokens.
LEMMA CutAt ==
  ASSUME NEW s \in Seq(Tokens), NEW k \in 1..(Len(s) - 6)
  PROVE  LET w == SubSeq(s, 1, k - 1) \o SubSeq(s, k + 7, Len(s)) IN
         /\ w \in Seq(Tokens) /\ Len(w) = Len(s) - 7
         /\ \A i \in 1..(Len(s) - 7) : w[i] = IF i < k THEN s[i] ELSE s[i + 7]
<1> DEFINE a == SubSeq(s, 1, k - 1)  b == SubSeq(s, k + 7, Len(s))  n == Len(s)
<1>0. n \in Nat /\ \A i \in 1..n : s[i] \in Tokens
  BY ElementOfSeq
<1>1. /\ a \in Seq(Tokens) /\ Len(a) = k - 1
      /\ \A i \in 1..(k - 1) : a[i] = s[i]
  <2>1. 1 \in Int /\ k - 1 \in Int /\ \A i \in 1..(k - 1) : s[i] \in Tokens
    BY <1>0
  <2>2. /\ a \in Seq(Tokens) /\ Len(a) = IF 1 <= k - 1 THEN k - 1 - 1 + 1 ELSE 0
        /\ \A i \in 1..(k - 1 - 1 + 1) : a[i] = s[1 + i - 1]
    BY <2>1, SubSeqProperties
  <2> HIDE DEF a
  <2>3. \A i \in 1..(k - 1) : 1 + i - 1 = i
    OBVIOUS
  <2>4. \A i \in 1..(k - 1) : a[i] = s[i]
    BY <2>2, <2>3
  <2> QED BY <2>2, <2>4
<1>2. /\ b \in Seq(Tokens) /\ Len(b) = n - k - 6
      /\ \A i \in 1..(n - k - 6) : b[i] = s[k + 6 + i]
  <2>1. k + 7 \in Int /\ n \in Int /\ \A i \in (k + 7)..n : s[i] \in Tokens
    BY <1>0
  <2>2. /\ b \in Seq(Tokens) /\ Len(b) = IF k + 7 <= n THEN n - (k + 7) + 1 ELSE 0
        /\ \A i \in 1..(n - (k + 7) + 1) : b[i] = s[k + 7 + i - 1]
    BY <2>1, SubSeqProperties
  <2> HIDE DEF b
  <2>3. \A i \in 1..(n - k - 6) : k + 7 + i - 1 = k + 6 + i
    BY <1>0
  <2>4. n - (k + 7) + 1 = n - k - 6
    BY <1>0
  <2>5. \A i \in 1..(n - k - 6) : b[i] = s[k + 6 + i]
    BY <2>2, <2>3, <2>4
  <2>6. Len(b) = n - k - 6
    <3>1. k \in 1..(n - 6)
      OBVIOUS
    <3> HIDE DEF n
    <3> QED BY <1>0, <2>2, <3>1 DEF n
  <2> QED BY <2>2, <2>5, <2>6
<1> DEFINE w == a \o b
<1>3. /\ w \in Seq(Tokens) /\ Len(w) = Len(a) + Len(b)
      /\ \A i \in 1..(Len(a) + Len(b)) : w[i] = IF i <= Len(a) THEN a[i] ELSE b[i - Len(a)]
  <2> HIDE DEF a, b
  <2> QED BY <1>1, <1>2, ConcatProperties
<1>4. k \in 1..(n - 6)
  OBVIOUS
<1> HIDE DEF a, b, w, n
<1>5. Len(a) + Len(b) = n - 7
  BY <1>0, <1>1, <1>2, <1>4
<1>6. ASSUME NEW i \in 1..(n - 7)
      PROVE  w[i] = IF i < k THEN s[i] ELSE s[i + 7]
  <2>1. CASE i < k
    <3>1. i \in 1..(k - 1) /\ i <= Len(a)
      BY <1>0, <1>1, <1>4, <2>1
    <3> QED BY <1>1, <1>3, <1>5, <2>1, <3>1
  <2>2. CASE ~(i < k)
    <3> DEFINE y == i - (k - 1)
    <3>1. y \in 1..(n - k - 6) /\ ~(i <= Len(a)) /\ i - Len(a) = y /\ k + 6 + y = i + 7
      BY <1>0, <1>1, <1>4, <2>2
    <3> HIDE DEF y
    <3>2. w[i] = b[y]
      BY <1>3, <1>5, <3>1
    <3>3. b[y] = s[k + 6 + y]
      BY <1>2, <3>1
    <3> QED BY <2>2, <3>1, <3>2, <3>3
  <2> QED BY <2>1, <2>2
<1> QED BY <1>3, <1>5, <1>6 DEF w, a, b, n

\* Without the first block the text is the same.
LEMMA StripIntact ==
  ASSUME NEW s \in Seq(Tokens), NEW u, Intact(s, u), containsMarker(s)
  PROVE  Intact(stripMarkerBlock(s), u)
<1>1. Guarded(s) /\ Spaced(s) /\ Without(s) = u
  BY DEF Intact
<1>2. PICK k \in 1..(Len(s) - 6) :
        /\ BlockAt(s, k)
        /\ \A i \in 1..Len(s) : s[i] = RCMarkerStart => k + 1 <= i
        /\ stripMarkerBlock(s) = SubSeq(s, 1, k - 1) \o SubSeq(s, k + 7, Len(s))
  BY <1>1, StripIs
<1> DEFINE w == stripMarkerBlock(s)  n == Len(s)
<1>3. /\ w \in Seq(Tokens) /\ Len(w) = n - 7
      /\ \A i \in 1..(n - 7) : w[i] = IF i < k THEN s[i] ELSE s[i + 7]
  <2> DEFINE c == SubSeq(s, 1, k - 1) \o SubSeq(s, k + 7, Len(s))
  <2>1. /\ c \in Seq(Tokens) /\ Len(c) = Len(s) - 7
        /\ \A i \in 1..(Len(s) - 7) : c[i] = IF i < k THEN s[i] ELSE s[i + 7]
    BY CutAt
  <2>2. w = c
    BY <1>2
  <2> HIDE DEF c, w
  <2> QED BY <2>1, <2>2
<1>4. n \in Nat /\ k \in 1..(n - 6)
  OBVIOUS
<1> HIDE DEF w
\* the blocks of s: k is the first, and the next is after it
<1>5. ASSUME NEW i, BlockAt(s, i)
      PROVE  i \in 1..(n - 6) /\ (i = k \/ k + 7 <= i)
  <2>1. i \in 1..(n - 6) /\ i + 1 \in 1..n /\ s[i + 1] = RCMarkerStart
    BY <1>5, BlockMarkers
  <2>2. k <= i
    BY <1>2, <1>4, <2>1
  <2>3. k < i => k + 7 <= i
    <3>1. k \in 1..n /\ i \in 1..n
      BY <1>4, <2>1
    <3> QED BY <1>1, <1>2, <1>5, <3>1 DEF Spaced
  <2> QED BY <1>4, <2>1, <2>2, <2>3
<1>6. ASSUME NEW i \in 1..(n - 7), w[i] = RCMarkerStart
      PROVE  BlockAt(s, i + 6) /\ k + 7 <= i + 6
  <2>1. ~(i < k)
    <3> SUFFICES ASSUME i < k PROVE FALSE
      OBVIOUS
    <3>1. i \in 1..n /\ s[i] = RCMarkerStart
      BY <1>3, <1>4, <1>6
    <3> QED BY <1>2, <1>4, <3>1
  <2> DEFINE y == i + 7
  <2>2. y \in 1..n /\ y - 1 = i + 6
    BY <1>4
  <2>3. s[y] = RCMarkerStart
    BY <1>3, <1>6, <2>1
  <2> HIDE DEF y
  <2>4. BlockAt(s, y - 1)
    BY <1>1, <2>2, <2>3 DEF Guarded
  <2> QED BY <1>4, <1>5, <2>1, <2>2, <2>4
<1>7. ASSUME NEW i \in 1..(n - 7), w[i] = RCMarkerEnd
      PROVE  BlockAt(s, i + 2) /\ k + 7 <= i + 2
  <2>1. ~(i < k)
    <3> SUFFICES ASSUME i < k PROVE FALSE
      OBVIOUS
    <3>1. i \in 1..n /\ s[i] = RCMarkerEnd
      BY <1>3, <1>4, <1>7
    <3>2. BlockAt(s, i - 5)
      BY <1>1, <3>1 DEF Guarded
    <3> QED BY <1>4, <1>5, <3>2
  <2> DEFINE y == i + 7
  <2>2. y \in 1..n /\ y - 5 = i + 2
    BY <1>4
  <2>3. s[y] = RCMarkerEnd
    BY <1>3, <1>7, <2>1
  <2> HIDE DEF y
  <2>4. BlockAt(s, y - 5)
    BY <1>1, <2>2, <2>3 DEF Guarded
  <2> QED BY <1>4, <1>5, <2>1, <2>2, <2>4
<1>8. ASSUME NEW i \in Int, k <= i, BlockAt(s, i + 7) PROVE BlockAt(w, i)
  <2> DEFINE b == i + 7
  <2>1. b \in 1..(n - 6) /\ \A j \in 1..7 : s[b + j - 1] = Block[j]
    BY <1>8 DEF BlockAt
  <2>2. i \in 1..(Len(w) - 6)
    BY <1>3, <1>4, <1>8, <2>1
  <2>3. ASSUME NEW j \in 1..7 PROVE w[i + j - 1] = Block[j]
    <3> DEFINE x == i + j - 1
    <3>1. x \in 1..(n - 7) /\ ~(x < k) /\ x + 7 = b + j - 1
      BY <1>3, <1>4, <1>8, <2>2
    <3> HIDE DEF x, b
    <3>2. w[x] = s[b + j - 1]
      BY <1>3, <3>1
    <3> QED BY <2>1, <3>2 DEF x
  <2> QED BY <2>2, <2>3 DEF BlockAt
<1>9. ASSUME NEW i, BlockAt(w, i)
      PROVE  i \in 1..(n - 13) /\ k <= i /\ BlockAt(s, i + 7)
  <2> DEFINE y == i + 1
  <2>1. i \in 1..(Len(w) - 6) /\ y \in 1..Len(w) /\ w[y] = RCMarkerStart
    BY <1>3, <1>9, BlockMarkers
  <2>2. y \in 1..(n - 7) /\ y + 6 = i + 7 /\ i \in 1..(n - 13)
    BY <1>3, <1>4, <2>1
  <2> HIDE DEF y
  <2>3. BlockAt(s, y + 6) /\ k + 7 <= y + 6
    BY <1>6, <2>1, <2>2
  <2> QED BY <1>4, <2>2, <2>3
<1>10. Guarded(w)
  <2> SUFFICES ASSUME NEW i \in 1..(n - 7)
               PROVE  /\ w[i] = RCMarkerStart => BlockAt(w, i - 1)
                      /\ w[i] = RCMarkerEnd => BlockAt(w, i - 5)
    BY <1>3 DEF Guarded
  <2>1. ASSUME w[i] = RCMarkerStart PROVE BlockAt(w, i - 1)
    <3> DEFINE y == i - 1
    <3>1. y \in Int /\ y + 7 = i + 6
      OBVIOUS
    <3>2. BlockAt(s, i + 6) /\ k + 7 <= i + 6
      BY <1>6, <2>1
    <3>3. k <= y
      BY <1>4, <3>2
    <3> HIDE DEF y
    <3>4. BlockAt(s, y + 7)
      BY <3>1, <3>2
    <3>5. BlockAt(w, y)
      BY <1>8, <3>1, <3>3, <3>4
    <3> QED BY <3>5 DEF y
  <2>2. ASSUME w[i] = RCMarkerEnd PROVE BlockAt(w, i - 5)
    <3> DEFINE y == i - 5
    <3>1. y \in Int /\ y + 7 = i + 2
      OBVIOUS
    <3>2. BlockAt(s, i + 2) /\ k + 7 <= i + 2
      BY <1>7, <2>2
    <3>3. k <= y
      BY <1>4, <3>2
    <3> HIDE DEF y
    <3>4. BlockAt(s, y + 7)
      BY <3>1, <3>2
    <3>5. BlockAt(w, y)
      BY <1>8, <3>1, <3>3, <3>4
    <3> QED BY <3>5 DEF y
  <2> QED BY <2>1, <2>2
<1>11. Spaced(w)
  <2> SUFFICES ASSUME NEW i \in 1..Len(w), NEW j \in 1..Len(w),
                      BlockAt(w, i), BlockAt(w, j), i < j
               PROVE  i + 7 <= j
    BY DEF Spaced
  <2> DEFINE a == i + 7  b == j + 7
  <2>1. BlockAt(s, a) /\ BlockAt(s, b)
    BY <1>9
  <2>2. a < b /\ a \in Int /\ b \in Int
    OBVIOUS
  <2> HIDE DEF a, b
  <2>3. a \in 1..Len(s) /\ b \in 1..Len(s)
    <3>1. a \in 1..(n - 6) /\ b \in 1..(n - 6)
      BY <1>5, <2>1
    <3> QED BY <1>4, <3>1
  <2>4. a + 7 <= b
    BY <1>1, <2>1, <2>2, <2>3 DEF Spaced
  <2> QED BY <2>4 DEF a, b
<1>12. ASSUME NEW x
       PROVE  /\ InBlock(s, x) <=> \E i \in 1..(n - 6) : BlockAt(s, i) /\ x \in i..(i + 6)
              /\ InBlock(w, x) <=> \E i \in 1..(Len(w) - 6) : BlockAt(w, i) /\ x \in i..(i + 6)
  BY <1>3, InBlockIs
<1>13. ASSUME NEW x \in 1..(k - 1) PROVE ~InBlock(s, x) /\ ~InBlock(w, x)
  BY <1>4, <1>5, <1>9, <1>12
<1>14. ASSUME NEW x \in k..(n - 7) PROVE InBlock(w, x) <=> InBlock(s, x + 7)
  <2>1. ASSUME InBlock(w, x) PROVE InBlock(s, x + 7)
    <3>1. PICK i \in 1..(Len(w) - 6) : BlockAt(w, i) /\ x \in i..(i + 6)
      BY <1>12, <2>1
    <3> DEFINE b == i + 7
    <3>2. BlockAt(s, b) /\ b \in 1..(n - 6)
      BY <1>5, <1>9, <3>1
    <3>3. x + 7 \in b..(b + 6)
      BY <3>1
    <3> HIDE DEF b
    <3> QED BY <1>12, <3>2, <3>3
  <2>2. ASSUME InBlock(s, x + 7) PROVE InBlock(w, x)
    <3>1. PICK b \in 1..(n - 6) : BlockAt(s, b) /\ x + 7 \in b..(b + 6)
      BY <1>12, <2>2
    <3>2. k + 7 <= b
      BY <1>4, <1>5, <3>1
    <3> DEFINE i == b - 7
    <3>3. i \in Int /\ k <= i /\ i + 7 = b /\ x \in i..(i + 6) /\ i \in 1..(Len(w) - 6)
      BY <1>3, <1>4, <3>1, <3>2
    <3> HIDE DEF i
    <3>4. BlockAt(w, i)
      BY <1>8, <3>1, <3>3
    <3> QED BY <1>12, <3>3, <3>4
  <2> QED BY <2>1, <2>2
<1>15. PICK g : Leaves(g, s)
  BY LeavesExists
<1>16. g[n] = u
  BY <1>1, <1>15, WithoutIs
<1>17. g[k + 6] = g[k - 1]
  <2>1. ASSUME NEW x \in k..(k + 6) PROVE g[x] = g[x - 1]
    <3>1. x \in 1..Len(s) /\ InBlock(s, x)
      BY <1>2, <1>4, <1>12
    <3> QED BY <1>15, <3>1, LeavesAt
  <2>2. /\ g[k] = g[k - 1] /\ g[k + 1] = g[k + 1 - 1] /\ g[k + 2] = g[k + 2 - 1]
        /\ g[k + 3] = g[k + 3 - 1] /\ g[k + 4] = g[k + 4 - 1]
        /\ g[k + 5] = g[k + 5 - 1] /\ g[k + 6] = g[k + 6 - 1]
    BY <2>1
  <2>3. /\ k + 1 - 1 = k /\ k + 2 - 1 = k + 1 /\ k + 3 - 1 = k + 2
        /\ k + 4 - 1 = k + 3 /\ k + 5 - 1 = k + 4 /\ k + 6 - 1 = k + 5
    OBVIOUS
  <2> QED BY <2>2, <2>3
<1> DEFINE h == [x \in 0..(n - 7) |-> IF x < k THEN g[x] ELSE g[x + 7]]
<1> HIDE DEF n
<1>18. ASSUME NEW x \in 0..(n - 7)
       PROVE  h[x] = IF x = 0 THEN <<>>
                     ELSE IF InBlock(w, x) THEN h[x - 1] ELSE Append(h[x - 1], w[x])
  <2>1. CASE x = 0
    <3>1. g[0] = <<>>
      BY <1>4, <1>15 DEF Leaves, n
    <3>2. h[0] = g[0]
      BY <1>4, <2>1
    <3> HIDE DEF h
    <3> QED BY <2>1, <3>1, <3>2
  <2>2. CASE x \in 1..(k - 1)
    <3>1. x \in 1..n
      BY <1>4, <2>2
    <3>2. g[x] = Append(g[x - 1], s[x])
      BY <1>13, <1>15, <2>2, <3>1, LeavesAt DEF n
    <3>3. h[x] = g[x] /\ h[x - 1] = g[x - 1] /\ x # 0
      BY <1>4, <2>2
    <3>4. w[x] = s[x]
      BY <1>3, <1>4, <2>2
    <3> HIDE DEF h
    <3> QED BY <1>13, <2>2, <3>2, <3>3, <3>4
  <2>3. CASE x \in k..(n - 7)
    <3> DEFINE y == x + 7
    <3>1. y \in 1..n /\ y - 1 = x + 6
      BY <1>4, <2>3
    <3>2. h[x] = g[y] /\ x # 0
      BY <1>4, <2>3
    <3>3. h[x - 1] = g[x + 6]
      <4>1. CASE x = k
        <5>1. h[k - 1] = g[k - 1]
          BY <1>4, <2>3
        <5> HIDE DEF h
        <5> QED BY <1>17, <4>1, <5>1
      <4>2. CASE x # k
        <5>1. x - 1 \in 0..(n - 7) /\ ~(x - 1 < k) /\ x - 1 + 7 = x + 6
          BY <1>4, <2>3, <4>2
        <5> QED BY <5>1
      <4> QED BY <4>1, <4>2
    <3>4. w[x] = s[y] /\ (InBlock(w, x) <=> InBlock(s, y))
      BY <1>3, <1>4, <1>14, <2>3
    <3> HIDE DEF h, y
    <3>5. g[y] = IF InBlock(s, y) THEN g[y - 1] ELSE Append(g[y - 1], s[y])
      BY <1>15, <3>1, LeavesAt DEF n
    <3> QED BY <3>1, <3>2, <3>3, <3>4, <3>5
  <2> QED BY <1>4, <2>1, <2>2, <2>3
<1>19. Leaves(h, w)
  <2>1. h = [x \in 0..(n - 7) |-> h[x]]
    OBVIOUS
  <2> HIDE DEF h
  <2> QED BY <1>3, <1>18, <2>1 DEF Leaves
<1>20. Without(w) = h[n - 7]
  <2> HIDE DEF h
  <2> QED BY <1>3, <1>19, WithoutIs
<1>21. h[n - 7] = u
  <2>1. n - 7 \in 0..(n - 7) /\ n - 7 + 7 = n
    BY <1>4
  <2>2. CASE n - 7 < k
    <3>1. n - 7 = k - 1 /\ k + 6 = n
      BY <1>4, <2>2
    <3>2. h[n - 7] = g[n - 7]
      BY <2>1, <2>2
    <3> HIDE DEF h
    <3> QED BY <1>16, <1>17, <3>1, <3>2
  <2>3. CASE ~(n - 7 < k)
    BY <1>16, <2>1, <2>3
  <2> QED BY <2>2, <2>3
<1> HIDE DEF h
<1>22. Without(w) = u
  BY <1>20, <1>21
<1> QED BY <1>10, <1>11, <1>22 DEF Intact, w

\* The process p has read f and not yet written it back; it has emptied it.
Holds(p, f) == job[p].rc = f /\ job[p].pc \in {"truncate", "write"}
Empties(p, f) == job[p].rc = f /\ job[p].pc = "write"

\* The text of the user is in the file or in the hands of the one that writes
\* it back.
Kept(f) ==
    /\ \A p \in Procs : Holds(p, f) => Intact(job[p].mem, text[f])
    /\ \A p \in Procs : Empties(p, f) => Content(f) = <<>> /\ ~AnotherHas(p, f)
    /\ (\A p \in Procs : ~Empties(p, f)) => Intact(Content(f), text[f])

\* The inductive invariant.
KeptInv == TypeInv /\ \A f \in RcFiles : f \notin torn => Kept(f)

\* What is to be shown of a file after a step.
LEMMA KeptAfter ==
  ASSUME NEW f,
         \A q \in Procs : Holds(q, f)' => Intact(job'[q].mem, text'[f]),
         \A q \in Procs : Empties(q, f)' => Content(f)' = <<>> /\ ~(AnotherHas(q, f)'),
         (\A q \in Procs : ~(Empties(q, f)')) => Intact(Content(f)', text'[f])
  PROVE  Kept(f)'
BY DEF Kept, Intact, Guarded, Spaced, BlockAt, Without, InBlock, Blocks

\* A step that only ends a command, or lets it go on to where it holds nothing.
LEMMA KeptSame ==
  ASSUME NEW f \in RcFiles, Kept(f), Content(f)' = Content(f), text'[f] = text[f],
         \A q \in Procs : Holds(q, f)' => job'[q] = job[q],
         \A q \in Procs : Empties(q, f) => job'[q] = job[q]
  PROVE  Kept(f)'
<1>1. \A q \in Procs : Holds(q, f)' => Holds(q, f)
  BY DEF Holds
<1>2. \A q \in Procs : Empties(q, f)' <=> Empties(q, f)
  BY DEF Holds, Empties
<1>3. \A q \in Procs : AnotherHas(q, f)' => AnotherHas(q, f)
  BY DEF AnotherHas, Holds
<1>4. \A q \in Procs : Holds(q, f)' => Intact(job'[q].mem, text'[f])
  BY <1>1 DEF Kept
<1>5. \A q \in Procs : Empties(q, f)' => Content(f)' = <<>> /\ ~(AnotherHas(q, f)')
  BY <1>2, <1>3 DEF Kept
<1>6. (\A q \in Procs : ~(Empties(q, f)')) => Intact(Content(f)', text'[f])
  BY <1>2 DEF Kept
<1> QED BY <1>4, <1>5, <1>6, KeptAfter

\* A step of p at its file f disturbs nothing else.
LEMMA KeptFrame ==
  ASSUME KeptInv, TypeInv', NEW p \in Procs, NEW f \in RcFiles, job[p].rc = f,
         torn \subseteq torn', text' = text,
         \A g \in RcFiles : g # f => file'[g] = file[g],
         \A q \in Procs : q # p => job'[q] = job[q],
         job'[p] = NoJob \/ job'[p].rc = f,
         f \notin torn' => Kept(f)'
  PROVE  KeptInv'
<1>1. Missing \notin RcFiles /\ NoJob.rc = Missing
  BY NoJobType
<1>2. ASSUME NEW g \in RcFiles, g \notin torn' PROVE Kept(g)'
  <2>1. CASE g = f
    BY <1>2, <2>1
  <2>2. CASE g # f
    <3>1. Kept(g)
      BY <1>2 DEF KeptInv
    <3>2. Content(g)' = Content(g) /\ text'[g] = text[g]
      BY <2>2 DEF Content
    <3>3. \A q \in Procs : Holds(q, g)' => job'[q] = job[q]
      BY <1>1, <2>2 DEF Holds
    <3>4. \A q \in Procs : Empties(q, g) => job'[q] = job[q]
      BY <2>2 DEF Empties
    <3> QED BY <3>1, <3>2, <3>3, <3>4, KeptSame
  <2> QED BY <2>1, <2>2
<1> QED BY <1>2 DEF KeptInv

LEMMA KeptInit ==
  ASSUME Init
  PROVE  KeptInv
<1>1. TypeInv
  BY InitType
<1>2. ASSUME NEW f \in RcFiles PROVE Kept(f)
  <2>1. Content(f) \in Seq(Texts \cup {"nl"}) /\ text[f] = Content(f)
    <3>1. <<>> \in Seq(Texts \cup {"nl"})
      OBVIOUS
    <3> QED BY <3>1, ShellAssumption DEF Init, Content
  <2>2. Intact(Content(f), text[f])
    BY <2>1, TextIntact
  <2>3. \A q \in Procs : ~Holds(q, f) /\ ~Empties(q, f)
    BY NoJobType DEF Init, Holds, Empties
  <2> QED BY <2>2, <2>3 DEF Kept
<1> QED BY <1>1, <1>2 DEF KeptInv

LEMMA StartKept ==
  ASSUME KeptInv, TypeInv', NEW p \in Procs, StartCommand(p)
  PROVE  KeptInv'
<1>1. PICK shell \in Shells, pc \in {"look", "read"} :
        job' = [job EXCEPT ![p] = [pc |-> pc, rc |-> detectShell(shell), mem |-> <<>>]]
  BY DEF StartCommand
<1>2. job'[p].pc \in {"look", "read"} /\ \A q \in Procs : q # p => job'[q] = job[q]
  BY <1>1 DEF KeptInv, TypeInv, TypeOK
<1>3. job[p] = NoJob /\ file' = file /\ text' = text /\ torn' = torn
  BY DEF StartCommand
<1>4. ASSUME NEW f \in RcFiles, f \notin torn' PROVE Kept(f)'
  <2>1. Kept(f) /\ Content(f)' = Content(f) /\ text'[f] = text[f]
    BY <1>3, <1>4 DEF KeptInv, Content
  <2>2. \A q \in Procs : Holds(q, f)' => job'[q] = job[q]
    BY <1>2 DEF Holds
  <2>3. \A q \in Procs : Empties(q, f) => job'[q] = job[q]
    BY <1>2, <1>3, NoJobType DEF Empties
  <2> QED BY <2>1, <2>2, <2>3, KeptSame
<1> QED BY <1>4 DEF KeptInv

\* What the invariant says of the file of a command.
LEMMA AtKept ==
  ASSUME KeptInv, NEW p \in Procs, NEW f \in RcFiles, job[p].rc = f, f \notin torn
  PROVE  /\ Kept(f) /\ TypeInv /\ Content(f) \in Seq(Tokens) /\ text[f] \in Seq(Tokens)
         /\ Holds(p, f) => Intact(job[p].mem, text[f])
         /\ Empties(p, f) => Content(f) = <<>> /\ ~AnotherHas(p, f)
<1>1. TypeInv /\ Kept(f)
  BY DEF KeptInv
<1>2. Content(f) \in Seq(Tokens)
  BY <1>1, ContentType DEF TypeInv
<1>3. text[f] \in Seq(Tokens)
  <2>1. text[f] \in Seq(Texts \cup {"nl"}) /\ Texts \cup {"nl"} \subseteq Tokens
    BY <1>1, TextTokens DEF TypeInv, TypeOK
  <2> QED BY <2>1, SeqMonotonic
<1> QED BY <1>1, <1>2, <1>3 DEF Kept

LEMMA LookKept ==
  ASSUME KeptInv, TypeInv', NEW p \in Procs, NEW f \in RcFiles, job[p].rc = f, Look(p)
  PROVE  KeptInv'
<1>1. /\ TypeInv /\ job[p].pc = "look" /\ job[p].pc # "idle" /\ "append" \in PCs
      /\ file' = file /\ text' = text /\ torn' = torn
  BY DEF KeptInv, Look, PCs
<1>2. /\ job'[p] = NoJob \/ (job'[p].rc = f /\ job'[p].pc = "append")
      /\ \A q \in Procs : q # p => job'[q] = job[q]
  <2>1. CASE Finish(p)
    BY <1>1, <2>1, FinishType
  <2>2. CASE Goto(p, "append")
    <3>1. job' = [job EXCEPT ![p] = [pc |-> "append", rc |-> job[p].rc, mem |-> job[p].mem]]
      BY <1>1, <2>2, GotoStep
    <3> QED BY <1>1, <3>1 DEF TypeInv, TypeOK
  <2> QED BY <2>1, <2>2 DEF Look
<1>3. ~(Holds(p, f)') /\ ~Empties(p, f)
  BY <1>1, <1>2, NoJobType DEF Holds, Empties
<1>4. ASSUME f \notin torn' PROVE Kept(f)'
  <2>1. Kept(f) /\ Content(f)' = Content(f) /\ text'[f] = text[f]
    BY <1>1, <1>4 DEF KeptInv, Content
  <2> QED BY <1>2, <1>3, <2>1, KeptSame
<1> QED BY <1>1, <1>2, <1>4, KeptFrame

LEMMA AppendKept ==
  ASSUME KeptInv, TypeInv', NEW p \in Procs, NEW f \in RcFiles, job[p].rc = f, AppendBlock(p)
  PROVE  KeptInv'
<1> DEFINE c == Content(f)
<1>1. /\ TypeInv /\ torn' = IF AnotherHas(p, f) THEN torn \cup {f} ELSE torn
      /\ text' = text /\ Set(f, c \o Block) /\ Finish(p) /\ job[p].pc = "append"
  BY DEF KeptInv, AppendBlock
<1>2. c \in Seq(Tokens) /\ c \o Block \in Seq(Tokens)
  <2>1. c \in Seq(Tokens) /\ Block \in Seq(Tokens)
    BY <1>1, ContentType, BlockTokens DEF TypeInv
  <2> HIDE DEF c
  <2> QED BY <2>1, ConcatProperties
<1>3. Content(f)' = c \o Block /\ \A g \in RcFiles : g # f => file'[g] = file[g]
  BY <1>1, <1>2, SetContent
<1>4. job'[p] = NoJob /\ \A q \in Procs : q # p => job'[q] = job[q]
  BY <1>1, FinishType
<1>5. f # NoJob.rc
  BY NoJobType
<1>6. ASSUME f \notin torn' PROVE Kept(f)'
  <2>1. f \notin torn /\ ~AnotherHas(p, f)
    BY <1>1, <1>6
  <2>2. \A q \in Procs : ~Holds(q, f) /\ ~Empties(q, f)
    BY <1>1, <2>1 DEF AnotherHas, Holds, Empties
  <2>3. \A q \in Procs : ~(Holds(q, f)') /\ ~(Empties(q, f)')
    BY <1>4, <1>5, <2>2 DEF Holds, Empties
  <2>4. Intact(c, text[f])
    BY <2>1, <2>2, AtKept DEF Kept
  <2>5. Intact(Content(f)', text'[f])
    <3>1. Intact(c \o Block, text[f])
      BY <1>2, <2>4, SetupIntact
    <3> HIDE DEF c
    <3> QED BY <1>1, <1>3, <3>1
  <2> QED BY <2>3, <2>5, KeptAfter
<1> HIDE DEF c
<1> QED BY <1>1, <1>3, <1>4, <1>6, KeptFrame

LEMMA ReadKept ==
  ASSUME KeptInv, TypeInv', NEW p \in Procs, NEW f \in RcFiles, job[p].rc = f, Read(p)
  PROVE  KeptInv'
<1> DEFINE c == Content(f)  m == stripMarkerBlock(c)
<1>1. /\ TypeInv /\ job[p].pc = "read" /\ job[p].pc # "idle"
      /\ file' = file /\ text' = text /\ torn' = torn
  BY DEF KeptInv, Read
<1>2. c \in Seq(Tokens) /\ Content(f)' = c
  BY <1>1, ContentType DEF TypeInv, Content
<1>3. CASE containsMarker(c)
  <2>1. job' = [job EXCEPT ![p].pc = "truncate", ![p].mem = m]
    BY <1>3 DEF Read
  <2>2. m \in Seq(Tokens)
    BY <1>2, StripTyped
  <2>3. job' = [job EXCEPT ![p] = [pc |-> "truncate", rc |-> f, mem |-> m]]
    <3> HIDE DEF m
    <3> QED BY <1>1, <2>1, <2>2, ReadStep
  <2>4. /\ job'[p] = [pc |-> "truncate", rc |-> f, mem |-> m]
        /\ \A q \in Procs : q # p => job'[q] = job[q]
    <3> HIDE DEF m
    <3> QED BY <1>1, <2>3 DEF TypeInv, TypeOK
  <2>5. ASSUME f \notin torn' PROVE Kept(f)'
    <3>1. f \notin torn /\ Kept(f)
      BY <1>1, <2>5 DEF KeptInv
    <3>2. ASSUME NEW q \in Procs PROVE ~Empties(q, f)
      <4> SUFFICES ASSUME Empties(q, f) PROVE FALSE
        OBVIOUS
      <4>1. c = <<>>
        BY <3>1 DEF Kept
      <4> QED BY <1>3, <4>1 DEF containsMarker, Contains
    <3>3. \A q \in Procs : ~(Empties(q, f)')
      BY <2>4, <3>2 DEF Empties
    <3>4. Intact(c, text[f])
      BY <3>1, <3>2 DEF Kept
    <3>5. Intact(m, text[f])
      BY <1>2, <1>3, <3>4, StripIntact
    <3>6. Intact(Content(f)', text'[f])
      BY <1>1, <1>2, <3>4
    <3>7. ASSUME NEW q \in Procs, Holds(q, f)' PROVE Intact(job'[q].mem, text'[f])
      <4> HIDE DEF c, m
      <4>1. CASE q = p
        BY <1>1, <2>4, <3>5, <4>1
      <4>2. CASE q # p
        <5>1. Holds(q, f) /\ job'[q] = job[q]
          BY <2>4, <3>7, <4>2 DEF Holds
        <5> QED BY <1>1, <3>1, <5>1 DEF Kept
      <4> QED BY <4>1, <4>2
    <3> QED BY <3>3, <3>6, <3>7, KeptAfter
  <2> HIDE DEF c, m
  <2> QED BY <1>1, <2>4, <2>5, KeptFrame
<1>4. CASE ~containsMarker(c)
  <2>1. job'[p] = NoJob /\ \A q \in Procs : q # p => job'[q] = job[q]
    BY <1>1, <1>4, FinishType DEF Read
  <2>2. ~(Holds(p, f)') /\ ~Empties(p, f)
    BY <1>1, <2>1, NoJobType DEF Holds, Empties
  <2>3. ASSUME f \notin torn' PROVE Kept(f)'
    <3>1. Kept(f) /\ Content(f)' = Content(f) /\ text'[f] = text[f]
      BY <1>1, <2>3 DEF KeptInv, Content
    <3> QED BY <2>1, <2>2, <3>1, KeptSame
  <2> QED BY <1>1, <2>1, <2>3, KeptFrame
<1> QED BY <1>3, <1>4

LEMMA TruncateKept ==
  ASSUME KeptInv, TypeInv', NEW p \in Procs, NEW f \in RcFiles, job[p].rc = f, Truncate(p)
  PROVE  KeptInv'
<1> DEFINE none == <<>>
<1>1. /\ TypeInv /\ torn' = IF AnotherHas(p, f) THEN torn \cup {f} ELSE torn
      /\ text' = text /\ Set(f, none) /\ Goto(p, "write")
      /\ job[p].pc = "truncate" /\ job[p].pc # "idle" /\ "write" \in PCs
  BY DEF KeptInv, Truncate, PCs
<1>2. Content(f)' = none /\ \A g \in RcFiles : g # f => file'[g] = file[g]
  <2>1. none \in Seq(Tokens)
    OBVIOUS
  <2> HIDE DEF none
  <2> QED BY <1>1, <2>1, SetContent
<1>3. job' = [job EXCEPT ![p] = [pc |-> "write", rc |-> f, mem |-> job[p].mem]]
  BY <1>1, GotoStep
<1>4. /\ job'[p] = [pc |-> "write", rc |-> f, mem |-> job[p].mem]
      /\ \A q \in Procs : q # p => job'[q] = job[q]
  BY <1>1, <1>3 DEF TypeInv, TypeOK
<1>5. ASSUME f \notin torn' PROVE Kept(f)'
  <2>1. f \notin torn /\ ~AnotherHas(p, f)
    BY <1>1, <1>5
  <2>2. \A q \in Procs : Holds(q, f)' => q = p
    BY <1>4, <2>1 DEF AnotherHas, Holds
  <2>3. Intact(job[p].mem, text[f])
    BY <1>1, <2>1, AtKept DEF Holds
  <2>4. \A q \in Procs : Holds(q, f)' => Intact(job'[q].mem, text'[f])
    BY <1>1, <1>4, <2>2, <2>3
  <2>5. \A q \in Procs : Empties(q, f)' => Content(f)' = <<>> /\ ~(AnotherHas(q, f)')
    <3>1. \A q \in Procs : Empties(q, f)' => Holds(q, f)'
      BY DEF Empties, Holds
    <3>2. ~(AnotherHas(p, f)')
      BY <2>2 DEF AnotherHas, Holds
    <3> QED BY <1>2, <2>2, <3>1, <3>2
  <2>6. Empties(p, f)'
    BY <1>4 DEF Empties
  <2> QED BY <2>4, <2>5, <2>6, KeptAfter
<1>6. job'[p].rc = f
  BY <1>4
<1> QED BY <1>1, <1>2, <1>4, <1>5, <1>6, KeptFrame

LEMMA WriteKept ==
  ASSUME KeptInv, TypeInv', NEW p \in Procs, NEW f \in RcFiles, job[p].rc = f, Write(p)
  PROVE  KeptInv'
<1> DEFINE over == Content(f)  mem == job[p].mem
<1>1. /\ TypeInv /\ torn' = IF AnotherHas(p, f) THEN torn \cup {f} ELSE torn
      /\ text' = text /\ Finish(p) /\ job[p].pc = "write"
  BY DEF KeptInv, Write
<1>2. PICK n \in 0..Len(over), end \in {<<>>, <<Torn>>} :
        /\ over = <<>> => end = <<>>
        /\ Set(f, mem \o end \o SubSeq(over, n + 1, Len(over)))
  BY DEF Write
<1>3. over \in Seq(Tokens) /\ mem \in Seq(Tokens)
  BY <1>1, ContentType DEF TypeInv, TypeOK
<1> DEFINE s == mem \o end \o SubSeq(over, n + 1, Len(over))
<1>4. s \in Seq(Tokens)
  <2>1. SubSeq(over, n + 1, Len(over)) \in Seq(Tokens)
    <3> HIDE DEF over
    <3> QED BY <1>3, PieceType
  <2>2. end \in Seq(Tokens)
    <3>1. <<>> \in Seq(Tokens) /\ <<Torn>> \in Seq(Tokens)
      BY TextTokens
    <3> QED BY <3>1
  <2> HIDE DEF over, mem
  <2> QED BY <1>3, <2>1, <2>2
<1>5. Content(f)' = s /\ \A g \in RcFiles : g # f => file'[g] = file[g]
  <2> HIDE DEF over, mem, s
  <2>1. Set(f, s)
    BY <1>2 DEF s
  <2> QED BY <1>1, <1>4, <2>1, SetContent
<1>6. job'[p] = NoJob /\ \A q \in Procs : q # p => job'[q] = job[q]
  BY <1>1, FinishType
<1>7. f # NoJob.rc
  BY NoJobType
<1>8. ASSUME f \notin torn' PROVE Kept(f)'
  <2>1. f \notin torn /\ ~AnotherHas(p, f)
    BY <1>1, <1>8
  <2>2. \A q \in Procs : ~(Holds(q, f)') /\ ~(Empties(q, f)')
    BY <1>6, <1>7, <2>1 DEF AnotherHas, Holds, Empties
  <2>3. Intact(mem, text[f]) /\ over = <<>>
    BY <1>1, <2>1, AtKept DEF Holds, Empties
  <2>4. s = mem
    <3> HIDE DEF over, mem
    <3>1. end = <<>> /\ Len(over) = 0 /\ n \in 0..0
      BY <1>2, <2>3
    <3>2. SubSeq(over, n + 1, Len(over)) = <<>>
      BY <3>1, SubSeqEmpty
    <3> QED BY <1>3, <3>1, <3>2, ConcatEmptySeq
  <2>5. Intact(Content(f)', text'[f])
    <3> HIDE DEF mem, s
    <3> QED BY <1>1, <1>5, <2>3, <2>4
  <2> QED BY <2>2, <2>5, KeptAfter
<1> HIDE DEF over, mem, s
<1> QED BY <1>1, <1>5, <1>6, <1>8, KeptFrame

LEMMA BreakKept ==
  ASSUME KeptInv, TypeInv', NEW p \in Procs, NEW f \in RcFiles, job[p].rc = f, Break(p)
  PROVE  KeptInv'
<1> DEFINE part == CASE job[p].pc = "append" -> Block
                     [] job[p].pc = "write" -> job[p].mem
                     [] OTHER -> <<>>
<1>1. /\ TypeInv /\ text' = text /\ Finish(p)
      /\ torn' = IF part # <<>> \/ job[p].pc = "write" THEN torn \cup {f} ELSE torn
  BY DEF KeptInv, Break
<1>2. PICK n \in 0..Len(part) :
        IF n = 0 THEN UNCHANGED file ELSE Set(f, Content(f) \o SubSeq(part, 1, n))
  BY DEF Break
<1>3. \A g \in RcFiles : g # f => file'[g] = file[g]
  <2> HIDE DEF part
  <2>1. CASE n = 0
    BY <1>2, <2>1
  <2>2. CASE n # 0
    BY <1>1, <1>2, <2>2 DEF Set, TypeInv, TypeOK
  <2> QED BY <2>1, <2>2
<1>4. job'[p] = NoJob /\ \A q \in Procs : q # p => job'[q] = job[q]
  BY <1>1, FinishType
<1>5. ASSUME f \notin torn' PROVE Kept(f)'
  <2> HIDE DEF part
  <2>1. part = <<>> /\ job[p].pc # "write" /\ f \notin torn
    BY <1>1, <1>5
  <2>2. n = 0
    BY <1>2, <2>1
  <2>3. Kept(f) /\ Content(f)' = Content(f) /\ text'[f] = text[f]
    BY <1>1, <1>2, <2>1, <2>2 DEF KeptInv, Content
  <2>4. ~(Holds(p, f)') /\ ~Empties(p, f)
    BY <1>4, <2>1, NoJobType DEF Holds, Empties
  <2> QED BY <1>4, <2>3, <2>4, KeptSame
<1> HIDE DEF part
<1> QED BY <1>1, <1>3, <1>4, <1>5, KeptFrame

LEMMA EditKept ==
  ASSUME KeptInv, TypeInv', NEW f \in RcFiles, Edit(f)
  PROVE  KeptInv'
<1> DEFINE c == Content(f)  u == text[f]
<1>1. PICK t \in Texts : /\ Set(f, c \o <<t, "nl">>)
                         /\ text' = [text EXCEPT ![f] = u \o <<t, "nl">>]
  BY DEF Edit
<1> DEFINE s == c \o <<t, "nl">>
<1>2. /\ TypeInv /\ job' = job
      /\ torn' = IF InHand(f) THEN torn \cup {f} ELSE torn
  BY DEF KeptInv, Edit
<1>3. c \in Seq(Tokens)
  BY <1>2, ContentType DEF TypeInv
<1>4. Content(f)' = s /\ \A g \in RcFiles : g # f => file'[g] = file[g]
  <2> HIDE DEF c
  <2>1. Set(f, s) /\ s \in Seq(Tokens)
    BY <1>1, <1>3, EditKeeps
  <2> HIDE DEF s
  <2> QED BY <1>2, <2>1, SetContent
<1>5. text'[f] = u \o <<t, "nl">> /\ \A g \in RcFiles : g # f => text'[g] = text[g]
  BY <1>1, <1>2 DEF TypeInv, TypeOK
<1>6. ASSUME NEW g \in RcFiles, g \notin torn' PROVE Kept(g)'
  <2>1. g \notin torn /\ Kept(g)
    BY <1>2, <1>6 DEF KeptInv
  <2>2. CASE g = f
    <3>1. ~InHand(f)
      BY <1>2, <1>6, <2>2
    <3>2. \A q \in Procs : ~Holds(q, f) /\ ~Empties(q, f)
      BY <3>1 DEF InHand, Holds, Empties
    <3>3. \A q \in Procs : ~(Holds(q, f)') /\ ~(Empties(q, f)')
      BY <1>2, <3>2 DEF Holds, Empties
    <3>4. Intact(c, u)
      BY <2>1, <2>2, <3>2 DEF Kept
    <3>5. u \in Seq(Tokens)
      <4>1. u \in Seq(Texts \cup {"nl"}) /\ Texts \cup {"nl"} \subseteq Tokens
        BY <1>2, TextTokens DEF TypeInv, TypeOK
      <4> HIDE DEF u
      <4> QED BY <4>1, SeqMonotonic
    <3>6. Intact(Content(f)', text'[f])
      <4>1. Intact(c \o <<t, "nl">>, u \o <<t, "nl">>)
        BY <1>3, <3>4, <3>5, EditIntact
      <4> HIDE DEF c, u
      <4> QED BY <1>4, <1>5, <4>1
    <3> QED BY <2>2, <3>3, <3>6, KeptAfter
  <2>3. CASE g # f
    <3>1. Content(g)' = Content(g) /\ text'[g] = text[g]
      BY <1>4, <1>5, <2>3 DEF Content
    <3> QED BY <1>2, <2>1, <3>1, KeptSame
  <2> QED BY <2>2, <2>3
<1> QED BY <1>6 DEF KeptInv

\* The user's rc file holds the user's own text to the last byte, with nothing
\* but whole blocks in between, through any number of setups and unsets of any
\* processes, as long as nothing is written to it while an unset has it in hand,
\* nor broken off (SetupShellRC, stripMarkerBlock).
THEOREM UserTextKeptCorrect == Spec => []UserTextKept
<1>1. ASSUME KeptInv, [Next]_vars PROVE KeptInv'
  <2>1. TypeInv'
    BY <1>1, TypeStep DEF KeptInv
  <2>2. ASSUME NEW p \in Procs,
               Look(p) \/ AppendBlock(p) \/ Read(p) \/ Truncate(p) \/ Write(p) \/ Break(p)
        PROVE  KeptInv'
    <3>1. job[p].rc \in RcFiles
      <4>1. job[p].pc # "idle" \/ job[p] # NoJob
        BY <2>2 DEF Look, AppendBlock, Read, Truncate, Write, Break
      <4> QED BY <1>1, <4>1, Under DEF KeptInv
    <3> QED BY <1>1, <2>1, <2>2, <3>1, LookKept, AppendKept, ReadKept,
               TruncateKept, WriteKept, BreakKept
  <2>3. ASSUME NEW p \in Procs, StartCommand(p) PROVE KeptInv'
    BY <1>1, <2>1, <2>3, StartKept
  <2>4. ASSUME NEW f \in RcFiles, Edit(f) PROVE KeptInv'
    BY <1>1, <2>1, <2>4, EditKept
  <2>5. CASE UNCHANGED vars
    <3>1. job' = job /\ file' = file /\ text' = text /\ torn' = torn
      BY <2>5 DEF vars
    <3>2. ASSUME NEW f \in RcFiles, f \notin torn' PROVE Kept(f)'
      <4>1. Kept(f) /\ Content(f)' = Content(f) /\ text'[f] = text[f]
        BY <1>1, <3>1, <3>2 DEF KeptInv, Content
      <4> QED BY <3>1, <4>1, KeptSame
    <3> QED BY <2>1, <3>2 DEF KeptInv
  <2> QED BY <1>1, <2>2, <2>3, <2>4, <2>5 DEF Next
<1>2. KeptInv => UserTextKept
  BY DEF KeptInv, Kept, Intact, Empties, UserTextKept
<1> QED BY <1>1, <1>2, KeptInit, PTL DEF Spec
===============================================================================
