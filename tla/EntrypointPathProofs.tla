------------------------- MODULE EntrypointPathProofs -------------------------
(***************************************************************************)
(* For every image, with any links in it, and every host: what             *)
(* resolveInsideRootfs goes on with is a path below the root of the image;  *)
(* what an installed wrapper runs is what a container would run; and an     *)
(* image that a container would run is not refused.                         *)
(*                                                                         *)
(* The wrapper is right because three answers to "what is at this path"     *)
(* agree: the one of the operating system below the image's directory, the  *)
(* one of a container, and the one by the text of the path.  So the first   *)
(* half of the module is about Walks, the recursion that gives the first    *)
(* two: its equation, induction along it, how walks are put together, and   *)
(* which walks agree; then about Clean, and the text; then the invariant.   *)
(***************************************************************************)
EXTENDS EntrypointPath, SequenceTheorems, TLAPS

Cleaning == INSTANCE FoldProofs WITH op <- CleanName
-------------------------------------------------------------------------------
(* Walks: the equation, and induction along a walk.                          *)

\* A function that is defined by going on until it is done.
Loops(D, Final, next, out) ==
    \E f : \A x \in D : f[x] = IF x \in Final THEN out[x] ELSE f[next[x]]

\* It exists, whether or not it always gets there.
LEMMA LoopExists ==
  ASSUME NEW D, NEW Final \in SUBSET D, NEW next \in [D -> D], NEW out
  PROVE  Loops(D, Final, next, out)
<1> DEFINE Run(x, n, g) == /\ g[0] = x
                           /\ \A k \in 0..(n - 1) : g[k] \notin Final /\ g[k + 1] = next[g[k]]
           Ends(x) == {e \in Final : \E n \in Nat : \E g \in [0..n -> D] :
                                        Run(x, n, g) /\ g[n] = e}
           f == [x \in D |-> out[CHOOSE e : e \in Ends(x)]]
<1>1. ASSUME NEW x \in D, x \in Final PROVE f[x] = out[x]
  <2>1. x \in Ends(x)
    <3> DEFINE g == [k \in 0..0 |-> x]
    <3>1. g \in [0..0 -> D] /\ Run(x, 0, g) /\ g[0] = x
      OBVIOUS
    <3> HIDE DEF g, Run
    <3> QED BY <1>1, <3>1
  <2>2. ASSUME NEW e \in Ends(x) PROVE e = x
    <3>0. PICK n \in Nat : \E g \in [0..n -> D] : Run(x, n, g) /\ g[n] = e
      OBVIOUS
    <3>1. PICK g \in [0..n -> D] : Run(x, n, g) /\ g[n] = e
      BY <3>0
    <3>2. n = 0
      <4>1. 0 \in 0..(n - 1) => g[0] \notin Final
        BY <3>1
      <4> QED BY <1>1, <3>1, <4>1
    <3> QED BY <3>1, <3>2
  <2>3. (CHOOSE e : e \in Ends(x)) = x
    <3> HIDE DEF Ends
    <3> QED BY <2>1, <2>2
  <2> QED BY <2>3
<1>2. ASSUME NEW x \in D, x \notin Final PROVE f[x] = f[next[x]]
  <2>0. next[x] \in D
    OBVIOUS
  <2>1. ASSUME NEW e \in Ends(x) PROVE e \in Ends(next[x])
    <3>0. PICK n \in Nat : \E g \in [0..n -> D] : Run(x, n, g) /\ g[n] = e
      OBVIOUS
    <3>1. PICK g \in [0..n -> D] : Run(x, n, g) /\ g[n] = e
      BY <3>0
    <3>2. n # 0 /\ e \in Final
      BY <1>2, <3>1
    <3> DEFINE h == [k \in 0..(n - 1) |-> g[k + 1]]
    <3>3. n - 1 \in Nat /\ \A k \in 0..(n - 1) : k + 1 \in 0..n
      BY <3>1, <3>2
    <3>4. h \in [0..(n - 1) -> D] /\ h[n - 1] = e
      BY <3>1, <3>3
    <3>5. Run(next[x], n - 1, h)
      <4>1. h[0] = next[x]
        <5>1. 0 \in 0..(n - 1) /\ g[0] = x /\ g[0 + 1] = next[g[0]]
          BY <3>1, <3>3
        <5> QED BY <5>1
      <4>2. ASSUME NEW k \in 0..(n - 1 - 1)
            PROVE  h[k] \notin Final /\ h[k + 1] = next[h[k]]
        <5>1. k + 1 \in 0..(n - 1) /\ k \in 0..(n - 1)
          BY <3>3
        <5>2. g[k + 1] \notin Final /\ g[k + 1 + 1] = next[g[k + 1]]
          BY <3>1, <5>1
        <5> QED BY <5>1, <5>2
      <4> HIDE DEF h
      <4> QED BY <4>1, <4>2
    <3> HIDE DEF h, Run
    <3> QED BY <3>2, <3>3, <3>4, <3>5
  <2>2. ASSUME NEW e \in Ends(next[x]) PROVE e \in Ends(x)
    <3>0. PICK n \in Nat : \E g \in [0..n -> D] : Run(next[x], n, g) /\ g[n] = e
      OBVIOUS
    <3>1. PICK g \in [0..n -> D] : Run(next[x], n, g) /\ g[n] = e
      BY <3>0
    <3>2. e \in Final
      OBVIOUS
    <3> DEFINE h == [k \in 0..(n + 1) |-> IF k = 0 THEN x ELSE g[k - 1]]
    <3>3. n + 1 \in Nat /\ \A k \in 1..(n + 1) : k - 1 \in 0..n
      BY <3>1
    <3>4. h \in [0..(n + 1) -> D] /\ h[n + 1] = e
      BY <3>1, <3>3
    <3>5. Run(x, n + 1, h)
      <4>1. h[0] = x
        BY <3>3
      <4>2. ASSUME NEW k \in 0..(n + 1 - 1)
            PROVE  h[k] \notin Final /\ h[k + 1] = next[h[k]]
        <5>1. CASE k = 0
          <6>1. h[0] = x /\ h[0 + 1] = g[0] /\ g[0] = next[x]
            BY <3>1, <3>3
          <6> HIDE DEF h
          <6> QED BY <1>2, <5>1, <6>1
        <5>2. CASE k # 0
          <6>1. k - 1 \in 0..(n - 1) /\ k - 1 + 1 = k
            BY <3>1, <5>2
          <6>2. g[k - 1] \notin Final /\ g[k] = next[g[k - 1]]
            BY <3>1, <6>1
          <6>3. h[k] = g[k - 1] /\ h[k + 1] = g[k]
            BY <3>1, <5>2
          <6> HIDE DEF h
          <6> QED BY <6>2, <6>3
        <5> QED BY <5>1, <5>2
      <4> HIDE DEF h
      <4> QED BY <4>1, <4>2
    <3> HIDE DEF h, Run
    <3> QED BY <3>2, <3>3, <3>4, <3>5
  <2>3. Ends(x) = Ends(next[x])
    <3> HIDE DEF Ends
    <3> QED BY <2>1, <2>2
  <2> HIDE DEF Ends
  <2> QED BY <2>0, <2>3
<1> HIDE DEF f
<1> QED BY <1>1, <1>2 DEF Loops

\* A set of naturals has a least element.
LEMMA LeastNat ==
  ASSUME NEW T \in SUBSET Nat, T # {}
  PROVE  \E x \in T : \A y \in T : x <= y
BY Cleaning!LeastNat

\* A file system of directories, links and files.
Typed(fs) ==
    /\ Directory # None
    /\ \A p \in DOMAIN fs :
        /\ fs[p] # None
        /\ \/ fs[p] = Directory
           \/ fs[p].kind = "link" /\ fs[p].abs \in BOOLEAN /\ fs[p].to \in Seq(STRING)
           \/ fs[p].kind = "file"

\* Where links from the root start: the root, or nowhere.
Tops == {<<>>, None}

\* The walk has not ended.
Live(fs, top, x) == x.rest # <<>> /\ ~Blocked(fs, top, x)

\* A path is its first name and the rest,
LEMMA HeadTail ==
  ASSUME NEW s \in Seq(STRING), s # <<>>
  PROVE  /\ Head(s) \in STRING /\ Tail(s) \in Seq(STRING) /\ Len(Tail(s)) = Len(s) - 1
         /\ s = <<Head(s)>> \o Tail(s) /\ Len(s) \in Nat /\ Len(s) > 0
<1>1. Len(s) \in Nat /\ Len(s) > 0
  BY EmptySeq
<1>2. s[1] = Head(s) /\ Head(s) \in STRING
  BY <1>1
<1>3. Tail(s) \in Seq(STRING) /\ Len(Tail(s)) = Len(s) - 1
  BY <1>1
<1>4. s = <<Head(s)>> \o Tail(s)
  BY <1>1, <1>2, <1>3
<1> QED BY <1>1, <1>2, <1>3, <1>4

\* and its directory and its last name.
LEMMA FrontLast ==
  ASSUME NEW s \in Seq(STRING)
  PROVE  /\ Front(s) \in Seq(STRING)
         /\ s # <<>> => /\ s = Append(Front(s), Last(s)) /\ Last(s) \in STRING
                        /\ Len(Front(s)) = Len(s) - 1 /\ Len(s) \in Nat \ {0}
<1> DEFINE n == Len(s)  f == Front(s)  l == Last(s)
<1>1. n \in Nat /\ (s # <<>> => n # 0) /\ DOMAIN s = 1..n
  BY EmptySeq
<1>2. CASE s = <<>>
  BY <1>2 DEF Front
<1>3. CASE s # <<>>
  <2>1. n >= 1
    BY <1>1, <1>3
  <2>2. f \in Seq(STRING) /\ Len(f) = n - 1 /\ \A k \in 1..(n - 1) : f[k] = s[k]
    BY <1>1, <2>1 DEF Front
  <2>3. l \in STRING /\ l = s[n]
    BY <1>1, <2>1 DEF Last
  <2> HIDE DEF f, l
  <2>4. /\ Append(f, l) \in Seq(STRING)
        /\ Len(Append(f, l)) = n
        /\ \A k \in 1..(n - 1) : Append(f, l)[k] = f[k]
        /\ Append(f, l)[n] = l
    <3> HIDE DEF n
    <3>1. Len(f) + 1 = n
      BY <1>1, <2>2
    <3> QED BY <2>2, <2>3, <3>1, AppendProperties
  <2>5. \A k \in 1..n : Append(f, l)[k] = s[k]
    <3> HIDE DEF n
    <3> TAKE k \in 1..n
    <3>1. CASE k = n
      BY <2>3, <2>4, <3>1
    <3>2. CASE k # n
      <4>1. k \in 1..(n - 1)
        BY <1>1, <3>2
      <4> QED BY <2>2, <2>4, <4>1
    <3> QED BY <3>1, <3>2
  <2>6. s = Append(f, l)
    BY <2>4, <2>5, SeqEqual
  <2> QED BY <1>1, <1>3, <2>2, <2>3, <2>6 DEF f, l
<1> QED BY <1>2, <1>3

\* A directory that is no link.
IsDir(fs, d) == d \in DOMAIN fs /\ fs[d] = Directory

\* The three kinds of steps of a walk from x to y.
GoesUp(top, x, y) ==
    /\ Head(x.rest) = ".." /\ (x.dir = <<>> => top # None)
    /\ y = [dir |-> IF x.dir = top THEN x.dir ELSE Front(x.dir),
            rest |-> Tail(x.rest), links |-> x.links]
Enters(fs, x, y) ==
    LET p == Append(x.dir, Head(x.rest))
    IN /\ Head(x.rest) # ".." /\ p \in DOMAIN fs /\ fs[p].kind # "link"
       /\ y = [dir |-> p, rest |-> Tail(x.rest), links |-> x.links]
Follows(fs, top, x, y) ==
    LET p == Append(x.dir, Head(x.rest))
        n == fs[p]
    IN /\ Head(x.rest) # ".." /\ p \in DOMAIN fs /\ n.kind = "link"
       /\ x.links # 0 /\ n.abs \in BOOLEAN /\ n.to \in Seq(STRING) /\ (n.abs => top # None)
       /\ y = [dir |-> IF n.abs THEN top ELSE x.dir, rest |-> n.to \o Tail(x.rest),
               links |-> x.links - 1]

\* One step on, by the kind of the step.
LEMMA OnwardIs ==
  ASSUME NEW fs, Typed(fs), NEW top \in Tops, NEW x \in Position, Live(fs, top, x)
  PROVE  /\ IsDir(fs, x.dir)
         /\ \/ GoesUp(top, x, Onward(fs, top, x))
            \/ Enters(fs, x, Onward(fs, top, x))
            \/ Follows(fs, top, x, Onward(fs, top, x))
<1> DEFINE h == Head(x.rest)  t == Tail(x.rest)  p == Append(x.dir, h)
           y == Onward(fs, top, x)
<1>1. IsDir(fs, x.dir)
  BY DEF Live, Blocked, At, Typed, IsDir
<1>2. x = [dir |-> x.dir, rest |-> x.rest, links |-> x.links]
  BY DEF Position
<1>3. CASE h = ".."
  <2>1. x.dir = <<>> => top # None
    BY <1>3 DEF Live, Blocked
  <2>2. y = [dir |-> IF x.dir = top THEN x.dir ELSE Front(x.dir),
             rest |-> t, links |-> x.links]
    BY <1>2, <1>3 DEF Onward
  <2> QED BY <1>1, <1>3, <2>1, <2>2 DEF GoesUp
<1>4. CASE h # ".."
  <2>1. At(fs, p) # None
    BY <1>4 DEF Live, Blocked
  <2>2. p \in DOMAIN fs /\ At(fs, p) = fs[p]
    BY <2>1 DEF At
  <2>3. CASE fs[p].kind # "link"
    <3>1. y = [x EXCEPT !.dir = p, !.rest = t]
      BY <1>4, <2>2, <2>3 DEF Onward
    <3>2. y = [dir |-> p, rest |-> t, links |-> x.links]
      <4> HIDE DEF y, p, t
      <4> QED BY <1>2, <3>1
    <3> QED BY <1>1, <1>4, <2>2, <2>3, <3>2 DEF Enters
  <2>4. CASE fs[p].kind = "link"
    <3>1. y = [dir |-> IF fs[p].abs THEN top ELSE x.dir, rest |-> fs[p].to \o t,
               links |-> x.links - 1]
      BY <1>4, <2>2, <2>4 DEF Onward
    <3>2. fs[p].abs \in BOOLEAN /\ fs[p].to \in Seq(STRING)
      BY <2>2, <2>4 DEF Typed, Directory
    <3>3. x.links # 0 /\ (fs[p].abs => top # None)
      BY <1>4, <2>2, <2>4 DEF Live, Blocked
    <3> QED BY <1>1, <1>4, <2>2, <2>4, <3>1, <3>2, <3>3 DEF Follows
  <2> QED BY <2>3, <2>4
<1> QED BY <1>3, <1>4

\* One step on is a position again.
LEMMA OnwardIsPosition ==
  ASSUME NEW fs, Typed(fs), NEW top \in Tops, NEW x \in Position, Live(fs, top, x)
  PROVE  /\ Onward(fs, top, x) \in Position
         /\ \/ Onward(fs, top, x).links = x.links - 1
            \/ /\ Onward(fs, top, x).links = x.links
               /\ Len(Onward(fs, top, x).rest) = Len(x.rest) - 1
<1> DEFINE y == Onward(fs, top, x)
<1>1. x.dir \in Seq(STRING) /\ x.rest \in Seq(STRING) /\ x.links \in Nat /\ x.rest # <<>>
  BY DEF Position, Live
<1>2. /\ Head(x.rest) \in STRING /\ Tail(x.rest) \in Seq(STRING)
      /\ Len(Tail(x.rest)) = Len(x.rest) - 1
  BY <1>1, HeadTail
<1>3. Append(x.dir, Head(x.rest)) \in Seq(STRING)
  BY <1>1, <1>2
<1>4. Front(x.dir) \in Seq(STRING)
  BY <1>1, FrontLast
<1>5. GoesUp(top, x, y) \/ Enters(fs, x, y) \/ Follows(fs, top, x, y)
  BY OnwardIs
<1> HIDE DEF y
<1>6. CASE GoesUp(top, x, y)
  BY <1>1, <1>2, <1>4, <1>6 DEF Position, y, GoesUp
<1>7. CASE Enters(fs, x, y)
  BY <1>1, <1>2, <1>3, <1>7 DEF Position, y, Enters
<1>8. CASE Follows(fs, top, x, y)
  <2> DEFINE n == fs[Append(x.dir, Head(x.rest))]
  <2>0. /\ x.links # 0 /\ n.abs \in BOOLEAN /\ n.to \in Seq(STRING) /\ (n.abs => top # None)
        /\ y = [dir |-> IF n.abs THEN top ELSE x.dir, rest |-> n.to \o Tail(x.rest),
                links |-> x.links - 1]
    BY <1>8 DEF Follows
  <2> HIDE DEF n
  <2>1. n.to \o Tail(x.rest) \in Seq(STRING)
    BY <1>2, <2>0
  <2>2. n.abs => top \in Seq(STRING)
    <3>1. <<>> \in Seq(STRING) /\ (top = <<>> \/ top = None)
      BY DEF Tops
    <3> QED BY <2>0, <3>1, Zenon
  <2> QED BY <1>1, <2>0, <2>1, <2>2 DEF Position, y
<1> QED BY <1>5, <1>6, <1>7, <1>8

\* The equation of Walks.
LEMMA WalkIs ==
  ASSUME NEW fs, Typed(fs), NEW top \in Tops, NEW x \in Position
  PROVE  Walks(fs, top)[x] = IF x.rest = <<>> THEN x.dir
                             ELSE IF Blocked(fs, top, x) THEN None
                             ELSE Walks(fs, top)[Onward(fs, top, x)]
<1> DEFINE Final == {y \in Position : ~Live(fs, top, y)}
           next == [y \in Position |-> IF y \in Final THEN y ELSE Onward(fs, top, y)]
           out == [y \in Position |-> IF y.rest = <<>> THEN y.dir ELSE None]
           Eq(f) == f = [y \in Position |-> IF y.rest = <<>> THEN y.dir
                                           ELSE IF Blocked(fs, top, y) THEN None
                                           ELSE f[Onward(fs, top, y)]]
<1>1. Final \in SUBSET Position /\ next \in [Position -> Position]
  <2>1. \A y \in Position : y \notin Final => Onward(fs, top, y) \in Position
    BY OnwardIsPosition
  <2> HIDE DEF Final
  <2> QED BY <2>1 DEF Final
<1>2. PICK f : \A y \in Position : f[y] = IF y \in Final THEN out[y] ELSE f[next[y]]
  <2> HIDE DEF Final, next, out
  <2>1. Loops(Position, Final, next, out)
    BY <1>1, LoopExists
  <2> QED BY <2>1 DEF Loops
<1>3. ASSUME NEW y \in Position
      PROVE  f[y] = IF y.rest = <<>> THEN y.dir
                    ELSE IF Blocked(fs, top, y) THEN None ELSE f[Onward(fs, top, y)]
  <2>0. f[y] = IF y \in Final THEN out[y] ELSE f[next[y]]
    <3> HIDE DEF Final, next, out
    <3> QED BY <1>2
  <2>1. CASE y.rest = <<>>
    BY <2>0, <2>1 DEF Live
  <2>2. CASE y.rest # <<>> /\ Blocked(fs, top, y)
    BY <2>0, <2>2 DEF Live
  <2>3. CASE y.rest # <<>> /\ ~Blocked(fs, top, y)
    BY <2>0, <2>3 DEF Live
  <2> QED BY <2>1, <2>2, <2>3
<1>5. Eq([y \in Position |-> f[y]])
  <2> DEFINE g == [y \in Position |-> f[y]]
             value == [y \in Position |-> IF y.rest = <<>> THEN y.dir
                                         ELSE IF Blocked(fs, top, y) THEN None
                                         ELSE g[Onward(fs, top, y)]]
  <2>1. ASSUME NEW y \in Position PROVE g[y] = value[y]
    <3>1. CASE y.rest = <<>> \/ Blocked(fs, top, y)
      BY <1>3, <3>1
    <3>2. CASE Live(fs, top, y)
      <4>1. Onward(fs, top, y) \in Position
        BY <3>2, OnwardIsPosition
      <4> QED BY <1>3, <3>2, <4>1 DEF Live
    <3> QED BY <3>1, <3>2 DEF Live
  <2> HIDE DEF Final, next, out
  <2>2. g = value
    BY <2>1
  <2> QED BY <2>2
<1>6. Walks(fs, top) = CHOOSE g : Eq(g)
  BY DEF Walks
<1>7. Eq(Walks(fs, top))
  <2> HIDE DEF Eq
  <2> QED BY <1>5, <1>6
<1>8. \A g : Eq(g) => g[x] = IF x.rest = <<>> THEN x.dir
                             ELSE IF Blocked(fs, top, x) THEN None
                             ELSE g[Onward(fs, top, x)]
  OBVIOUS
<1> HIDE DEF Eq
<1> QED BY <1>7, <1>8

\* Every walk ends: a set that holds a position whenever it holds the next one
\* holds them all.
LEMMA WalkInduction ==
  ASSUME NEW fs, Typed(fs), NEW top \in Tops, NEW S,
         \A x \in Position : (Live(fs, top, x) => Onward(fs, top, x) \in S) => x \in S
  PROVE  \A x \in Position : x \in S
<1> DEFINE Bad == {x \in Position : x \notin S}
           Links == {x.links : x \in Bad}
<1> SUFFICES ASSUME Bad # {} PROVE FALSE
  OBVIOUS
<1>1. PICK l \in Links : \A m \in Links : l <= m
  <2>1. Links \in SUBSET Nat /\ Links # {}
    BY DEF Position
  <2> HIDE DEF Links
  <2> QED BY <2>1, LeastNat
<1> DEFINE Short == {x \in Bad : x.links = l}
           Lens == {Len(x.rest) : x \in Short}
<1>2. PICK k \in Lens : \A m \in Lens : k <= m
  <2>1. Short # {}
    BY <1>1
  <2>2. \A x \in Short : Len(x.rest) \in Nat
    BY DEF Position
  <2>3. Lens \in SUBSET Nat /\ Lens # {}
    <3> HIDE DEF Short
    <3> QED BY <2>1, <2>2
  <2> HIDE DEF Lens
  <2> QED BY <2>3, LeastNat
<1>3. PICK x \in Short : k = Len(x.rest)
  <2> HIDE DEF Short
  <2> QED BY <1>2
<1>4. x \in Position /\ x \notin S /\ x.links = l /\ l \in Nat /\ k \in Nat
  BY <1>3 DEF Position
<1>5. Live(fs, top, x) /\ Onward(fs, top, x) \notin S
  BY <1>4
<1> DEFINE y == Onward(fs, top, x)
<1>6. y \in Position /\ (y.links = l - 1 \/ (y.links = l /\ Len(y.rest) = k - 1))
  BY <1>3, <1>4, <1>5, OnwardIsPosition
<1> HIDE DEF y
<1>7. y \in Bad
  BY <1>5, <1>6 DEF y
<1>8. l <= y.links
  <2>1. y.links \in Links
    BY <1>7
  <2> QED BY <1>1, <2>1
<1>9. y.links = l /\ Len(y.rest) = k - 1
  BY <1>4, <1>6, <1>8
<1>10. k <= k - 1
  <2>1. y \in Short
    BY <1>7, <1>9
  <2>2. Len(y.rest) \in Lens
    <3> HIDE DEF Short
    <3> QED BY <2>1
  <2> QED BY <1>2, <1>9, <2>2
<1> QED BY <1>4, <1>10

\* A position: the directory, the names still to go, the links still allowed.
Place(d, r, l) == [dir |-> d, rest |-> r, links |-> l]

\* A walk steps from x to y.
Steps(fs, top, x, y) ==
    /\ x.rest # <<>> /\ IsDir(fs, x.dir)
    /\ GoesUp(top, x, y) \/ Enters(fs, x, y) \/ Follows(fs, top, x, y)

\* Stepping is going onward from where the walk has not ended.
LEMMA StepsAreOnward ==
  ASSUME NEW fs, Typed(fs), NEW top \in Tops, NEW x \in Position, NEW y
  PROVE  Steps(fs, top, x, y) <=> Live(fs, top, x) /\ y = Onward(fs, top, x)
<1>1. ASSUME Live(fs, top, x), y = Onward(fs, top, x) PROVE Steps(fs, top, x, y)
  BY <1>1, OnwardIs DEF Steps, Live
<1>2. ASSUME Steps(fs, top, x, y) PROVE Live(fs, top, x) /\ y = Onward(fs, top, x)
  <2> DEFINE p == Append(x.dir, Head(x.rest))
  <2>1. x.rest # <<>> /\ At(fs, x.dir) = Directory
    BY <1>2 DEF Steps, IsDir, At
  <2>2. x = [dir |-> x.dir, rest |-> x.rest, links |-> x.links]
    BY DEF Position
  <2>3. CASE GoesUp(top, x, y)
    <3>1. Live(fs, top, x)
      BY <2>1, <2>3 DEF Live, Blocked, GoesUp
    <3>2. Onward(fs, top, x) = [dir |-> IF x.dir = top THEN x.dir ELSE Front(x.dir),
                                rest |-> Tail(x.rest), links |-> x.links]
      BY <2>2, <2>3 DEF Onward, GoesUp
    <3> QED BY <2>3, <3>1, <3>2 DEF GoesUp
  <2>4. CASE Enters(fs, x, y)
    <3>1. Head(x.rest) # ".." /\ At(fs, p) = fs[p] /\ fs[p] # None /\ fs[p].kind # "link"
      BY <2>4 DEF Enters, At, Typed
    <3>2. Live(fs, top, x)
      <4> HIDE DEF p
      <4> QED BY <2>1, <3>1 DEF Live, Blocked, p
    <3>3. Onward(fs, top, x) = [x EXCEPT !.dir = p, !.rest = Tail(x.rest)]
      BY <3>1 DEF Onward
    <3>4. Onward(fs, top, x) = [dir |-> p, rest |-> Tail(x.rest), links |-> x.links]
      <4> HIDE DEF p
      <4> QED BY <2>2, <3>3
    <3> QED BY <2>4, <3>2, <3>4 DEF Enters
  <2>5. CASE Follows(fs, top, x, y)
    <3>1. Head(x.rest) # ".." /\ At(fs, p) = fs[p] /\ fs[p] # None /\ fs[p].kind = "link"
      BY <2>5 DEF Follows, At, Typed
    <3>2. x.links # 0 /\ (fs[p].abs => top # None)
      BY <2>5 DEF Follows
    <3>3. Live(fs, top, x)
      <4> HIDE DEF p
      <4> QED BY <2>1, <3>1, <3>2 DEF Live, Blocked, p
    <3>4. Onward(fs, top, x) = [dir |-> IF fs[p].abs THEN top ELSE x.dir,
                                rest |-> fs[p].to \o Tail(x.rest), links |-> x.links - 1]
      BY <3>1 DEF Onward
    <3> QED BY <2>5, <3>3, <3>4 DEF Follows
  <2> QED BY <1>2, <2>3, <2>4, <2>5 DEF Steps
<1> QED BY <1>1, <1>2

\* What a walk leads to, by its first step.
LEMMA WalkSteps ==
  ASSUME NEW fs, Typed(fs), NEW top \in Tops, NEW x \in Position
  PROVE  LET W == Walks(fs, top)
         IN /\ x.rest = <<>> => W[x] = x.dir
            /\ \A y : Steps(fs, top, x, y) => y \in Position /\ W[x] = W[y]
            /\ x.rest = <<>> \/ W[x] = None \/ \E y \in Position : Steps(fs, top, x, y)
<1> DEFINE W == Walks(fs, top)
<1>1. W[x] = IF x.rest = <<>> THEN x.dir
             ELSE IF Blocked(fs, top, x) THEN None ELSE W[Onward(fs, top, x)]
  BY WalkIs
<1> HIDE DEF W
<1>2. ASSUME NEW y, Steps(fs, top, x, y) PROVE y \in Position /\ W[x] = W[y]
  <2>1. Live(fs, top, x) /\ y = Onward(fs, top, x)
    BY <1>2, StepsAreOnward
  <2> QED BY <1>1, <2>1, OnwardIsPosition DEF Live
<1>3. ASSUME x.rest # <<>>, W[x] # None PROVE \E y \in Position : Steps(fs, top, x, y)
  <2>1. Live(fs, top, x)
    BY <1>1, <1>3 DEF Live
  <2>2. Steps(fs, top, x, Onward(fs, top, x))
    BY <2>1, StepsAreOnward
  <2> QED BY <2>1, <2>2, OnwardIsPosition
<1> QED BY <1>1, <1>2, <1>3 DEF W

\* Induction along the steps of a walk.
LEMMA StepInduction ==
  ASSUME NEW fs, Typed(fs), NEW top \in Tops, NEW S,
         \A x \in Position : (\A y \in Position : Steps(fs, top, x, y) => y \in S) => x \in S
  PROVE  \A x \in Position : x \in S
<1>1. ASSUME NEW x \in Position, Live(fs, top, x) => Onward(fs, top, x) \in S
      PROVE  x \in S
  BY <1>1, StepsAreOnward
<1> QED BY <1>1, WalkInduction

\* A position by its parts,
LEMMA PositionIs ==
  ASSUME NEW x \in Position
  PROVE  /\ x = Place(x.dir, x.rest, x.links)
         /\ x.dir \in Seq(STRING) /\ x.rest \in Seq(STRING) /\ x.links \in Nat
BY DEF Position, Place

\* and the parts of a position.
LEMMA PlaceIs ==
  ASSUME NEW d, NEW r, NEW l
  PROVE  /\ Place(d, r, l).dir = d /\ Place(d, r, l).rest = r /\ Place(d, r, l).links = l
         /\ d \in Seq(STRING) /\ r \in Seq(STRING) /\ l \in Nat => Place(d, r, l) \in Position
BY DEF Position, Place

-------------------------------------------------------------------------------
\* A walk that stays in the image by relative links finds the same as one of a
\* container.
LEMMA RelativeInContainer ==
  ASSUME NEW fs, Typed(fs), None \notin Seq(STRING), NEW x \in Position,
         Walks(fs, None)[x] # None
  PROVE  Walks(fs, <<>>)[x] = Walks(fs, None)[x]
<1> DEFINE R == Walks(fs, None)  C == Walks(fs, <<>>)
           S == {y \in Position : R[y] # None => C[y] = R[y]}
<1>0. None \in Tops /\ <<>> \in Tops
  BY DEF Tops
<1>1. ASSUME NEW y \in Position, \A z \in Position : Steps(fs, None, y, z) => z \in S,
             R[y] # None
      PROVE  C[y] = R[y]
  <2>1. CASE y.rest = <<>>
    BY <1>0, <2>1, WalkSteps
  <2>2. CASE y.rest # <<>>
    <3>1. PICK z \in Position : Steps(fs, None, y, z)
      BY <1>0, <1>1, <2>2, WalkSteps
    <3>2. R[y] = R[z]
      BY <1>0, <3>1, WalkSteps
    <3>3. C[z] = R[z]
      BY <1>1, <3>1, <3>2
    <3>4. Steps(fs, <<>>, y, z)
      <4>1. y.dir # None
        BY PositionIs
      <4>2. CASE GoesUp(None, y, z)
        BY <3>1, <4>1, <4>2 DEF Steps, GoesUp
      <4>3. CASE Enters(fs, y, z)
        BY <3>1, <4>3 DEF Steps
      <4>4. CASE Follows(fs, None, y, z)
        <5>1. Follows(fs, <<>>, y, z)
          BY <4>4 DEF Follows
        <5> QED BY <3>1, <5>1 DEF Steps
      <4> QED BY <3>1, <4>2, <4>3, <4>4 DEF Steps
    <3>5. C[y] = C[z]
      BY <1>0, <3>4, WalkSteps
    <3> QED BY <3>2, <3>3, <3>5
  <2> QED BY <2>1, <2>2
<1>2. \A y \in Position : y \in S
  <2>1. \A y \in Position : (\A z \in Position : Steps(fs, None, y, z) => z \in S) => y \in S
    BY <1>1
  <2> HIDE DEF S
  <2> QED BY <1>0, <2>1, StepInduction
<1> QED BY <1>2

\* So does the host, with the image below r.
Holds(fs, r, i) == \A q \in Seq(STRING) : At(fs, r \o q) = At(i, q)

\* Sequences: what is put behind a path, and taken off it.
LEMMA FrontOfAppend ==
  ASSUME NEW s \in Seq(STRING), NEW e \in STRING
  PROVE  Front(Append(s, e)) = s
<1> DEFINE c == Append(s, e)  f == Front(c)
<1>0. Len(s) \in Nat
  OBVIOUS
<1>1. c \in Seq(STRING) /\ c # <<>> /\ Len(c) = Len(s) + 1
  BY AppendProperties
<1>2. \A k \in 1..Len(s) : c[k] = s[k]
  BY AppendProperties
<1> HIDE DEF c
<1>3. f \in Seq(STRING) /\ Len(f) = Len(s) /\ \A k \in 1..Len(s) : f[k] = c[k]
  BY <1>0, <1>1 DEF Front
<1> HIDE DEF f
<1>4. f = s
  BY <1>2, <1>3, SeqEqual
<1> QED BY <1>4 DEF f, c

\* The directory of a path below r.
LEMMA BelowFront ==
  ASSUME NEW r \in Seq(STRING), NEW d \in Seq(STRING), d # <<>>
  PROVE  r \o d # <<>> /\ Front(r \o d) = r \o Front(d)
<1>1. /\ d = Append(Front(d), Last(d)) /\ Last(d) \in STRING /\ Front(d) \in Seq(STRING)
      /\ Len(d) \in Nat \ {0}
  BY FrontLast
<1>2. r \o d \in Seq(STRING) /\ Len(r \o d) = Len(r) + Len(d) /\ Len(r) \in Nat
  BY ConcatProperties
<1>3. r \o d # <<>>
  BY <1>1, <1>2
<1>4. r \o d = Append(r \o Front(d), Last(d))
  <2>1. d = Front(d) \o <<Last(d)>>
    BY <1>1, AppendIsConcat
  <2>2. <<Last(d)>> \in Seq(STRING)
    BY <1>1
  <2>3. (r \o Front(d)) \o <<Last(d)>> = r \o (Front(d) \o <<Last(d)>>)
    BY <1>1, <2>2, ConcatAssociative
  <2>4. r \o Front(d) \in Seq(STRING)
    BY <1>1, ConcatProperties
  <2> QED BY <1>1, <2>1, <2>3, <2>4, AppendIsConcat
<1>5. r \o Front(d) \in Seq(STRING)
  BY <1>1, ConcatProperties
<1> QED BY <1>1, <1>3, <1>4, <1>5, FrontOfAppend

\* A path of one name.
LEMMA OneIsSeq ==
  ASSUME NEW X, NEW h \in X
  PROVE  <<h>> \in Seq(X)
OBVIOUS

\* One more name below r.
LEMMA BelowAppend ==
  ASSUME NEW r \in Seq(STRING), NEW d \in Seq(STRING), NEW h \in STRING
  PROVE  Append(r \o d, h) = r \o Append(d, h)
<1>0. r \o d \in Seq(STRING)
  BY ConcatProperties
<1>1. <<h>> \in Seq(STRING)
  BY OneIsSeq
<1>2. (r \o d) \o <<h>> = r \o (d \o <<h>>)
  BY <1>1, ConcatAssociative
<1> QED BY <1>0, <1>1, <1>2, AppendIsConcat

\* What a walk finds that stays in the image i, the host finds with i below r.
LEMMA RelativeOnHost ==
  ASSUME NEW i, Typed(i), NEW fs, Typed(fs), NEW r \in Seq(STRING), Holds(fs, r, i),
         None \notin Seq(STRING), NEW x \in Position, Walks(i, None)[x] # None
  PROVE  Walks(fs, <<>>)[Place(r \o x.dir, x.rest, x.links)] = r \o Walks(i, None)[x]
<1> DEFINE R == Walks(i, None)  C == Walks(fs, <<>>)
           B(y) == Place(r \o y.dir, y.rest, y.links)
           S == {y \in Position : R[y] # None => C[B(y)] = r \o R[y]}
<1>0. None \in Tops /\ <<>> \in Tops
  BY DEF Tops
<1>a. ASSUME NEW y \in Position
      PROVE  B(y) \in Position /\ B(y).dir = r \o y.dir /\ B(y).rest = y.rest /\ B(y).links = y.links
  <2>1. y.dir \in Seq(STRING) /\ y.rest \in Seq(STRING) /\ y.links \in Nat
    BY PositionIs
  <2>2. r \o y.dir \in Seq(STRING)
    BY <2>1, ConcatProperties
  <2> QED BY <2>1, <2>2 DEF Place, Position
<1>1. ASSUME NEW y \in Position, \A z \in Position : Steps(i, None, y, z) => z \in S,
             R[y] # None
      PROVE  C[B(y)] = r \o R[y]
  <2>0. y.dir \in Seq(STRING) /\ y.rest \in Seq(STRING) /\ y.links \in Nat
    BY PositionIs
  <2>1. CASE y.rest = <<>>
    <3>1. R[y] = y.dir
      BY <1>0, <2>1, WalkSteps
    <3>2. C[B(y)] = r \o y.dir
      <4>1. B(y) \in Position /\ B(y).dir = r \o y.dir /\ B(y).rest = <<>>
        BY <1>a, <2>1
      <4> HIDE DEF B, R
      <4> QED BY <1>0, <4>1, WalkSteps
    <3> QED BY <3>1, <3>2
  <2>2. CASE y.rest # <<>>
    <3>1. PICK z \in Position : Steps(i, None, y, z)
      BY <1>0, <1>1, <2>2, WalkSteps
    <3>2. R[y] = R[z]
      BY <1>0, <3>1, WalkSteps
    <3>3. C[B(z)] = r \o R[z]
      BY <1>1, <3>1, <3>2
    <3>4. Steps(fs, <<>>, B(y), B(z))
      <4>1. y.dir # None /\ y.rest # <<>> /\ Head(y.rest) \in STRING /\ Tail(y.rest) \in Seq(STRING)
        BY <2>0, <2>2, HeadTail
      <4> DEFINE h == Head(y.rest)  p == Append(y.dir, h)
      <4>2. IsDir(fs, r \o y.dir)
        <5>1. At(i, y.dir) = Directory /\ Directory # None
          BY <3>1 DEF Steps, IsDir, At, Typed
        <5>2. At(fs, r \o y.dir) = Directory
          BY <2>0, <5>1 DEF Holds
        <5> QED BY <5>1, <5>2 DEF IsDir, At
      <4>3. p \in Seq(STRING) /\ Append(r \o y.dir, h) = r \o p
        <5>1. h \in STRING
          BY <4>1
        <5> HIDE DEF h
        <5>2. Append(y.dir, h) \in Seq(STRING)
          BY <2>0, <5>1, AppendProperties
        <5> QED BY <2>0, <5>1, <5>2, BelowAppend
      <4>4. p \in DOMAIN i => r \o p \in DOMAIN fs /\ fs[r \o p] = i[p]
        <5> SUFFICES ASSUME p \in DOMAIN i PROVE r \o p \in DOMAIN fs /\ fs[r \o p] = i[p]
          OBVIOUS
        <5>1. At(i, p) = i[p] /\ i[p] # None
          BY DEF At, Typed
        <5>2. At(fs, r \o p) = i[p]
          BY <4>3, <5>1 DEF Holds
        <5> QED BY <5>1, <5>2 DEF At
      <4> HIDE DEF p, h
      <4>5. CASE GoesUp(None, y, z)
        <5>1. h = ".." /\ y.dir # <<>> /\ z = Place(Front(y.dir), Tail(y.rest), y.links)
          BY <4>1, <4>5 DEF GoesUp, h, Place
        <5>2. r \o y.dir # <<>> /\ Front(r \o y.dir) = r \o Front(y.dir)
          BY <2>0, <5>1, BelowFront
        <5>3. B(z) = Place(Front(r \o y.dir), Tail(y.rest), y.links)
          BY <5>1, <5>2, PlaceIs
        <5>4. GoesUp(<<>>, B(y), B(z))
          BY <1>a, <5>1, <5>2, <5>3 DEF GoesUp, h, Place
        <5> QED BY <1>a, <4>1, <4>2, <5>4 DEF Steps
      <4>6. CASE Enters(i, y, z)
        <5>1. h # ".." /\ p \in DOMAIN i /\ i[p].kind # "link" /\ z = Place(p, Tail(y.rest), y.links)
          BY <4>6 DEF Enters, h, p, Place
        <5>2. B(z) = Place(Append(r \o y.dir, h), Tail(y.rest), y.links)
          BY <4>3, <5>1, PlaceIs
        <5>3. Enters(fs, B(y), B(z))
          BY <1>a, <4>3, <4>4, <5>1, <5>2 DEF Enters, h, Place
        <5> QED BY <1>a, <4>1, <4>2, <5>3 DEF Steps
      <4>7. CASE Follows(i, None, y, z)
        <5>1. /\ h # ".." /\ p \in DOMAIN i /\ i[p].kind = "link" /\ y.links # 0
              /\ ~i[p].abs /\ i[p].to \in Seq(STRING) /\ i[p].abs \in BOOLEAN
              /\ z = Place(y.dir, i[p].to \o Tail(y.rest), y.links - 1)
          BY <4>7 DEF Follows, h, p, Place
        <5>2. B(z) = Place(r \o y.dir, i[p].to \o Tail(y.rest), y.links - 1)
          BY <5>1, PlaceIs
        <5>3. Follows(fs, <<>>, B(y), B(z))
          BY <1>a, <4>3, <4>4, <5>1, <5>2 DEF Follows, h, Place
        <5> QED BY <1>a, <4>1, <4>2, <5>3 DEF Steps
      <4> QED BY <3>1, <4>5, <4>6, <4>7 DEF Steps
    <3>5. C[B(y)] = C[B(z)]
      BY <1>0, <1>a, <3>4, WalkSteps
    <3> QED BY <3>2, <3>3, <3>5
  <2> QED BY <2>1, <2>2
<1>2. \A y \in Position : y \in S
  <2>1. \A y \in Position : (\A z \in Position : Steps(i, None, y, z) => z \in S) => y \in S
    BY <1>1
  <2> HIDE DEF S
  <2> QED BY <1>0, <2>1, StepInduction
<1> QED BY <1>2

-------------------------------------------------------------------------------
(* Walks along a path in parts.                                              *)

\* The first name of a longer path.
LEMMA HeadTailConcat ==
  ASSUME NEW r \in Seq(STRING), r # <<>>, NEW B \in Seq(STRING)
  PROVE  /\ r \o B # <<>> /\ r \o B \in Seq(STRING)
         /\ Head(r \o B) = Head(r) /\ Tail(r \o B) = Tail(r) \o B
<1> DEFINE h == Head(r)  t == Tail(r)  c == r \o B
<1>1. h \in STRING /\ t \in Seq(STRING) /\ Len(r) \in Nat /\ Len(r) > 0 /\ Len(t) = Len(r) - 1
  BY HeadTail
<1>2. /\ c \in Seq(STRING) /\ Len(c) = Len(r) + Len(B)
      /\ \A k \in 1..(Len(r) + Len(B)) : c[k] = IF k <= Len(r) THEN r[k] ELSE B[k - Len(r)]
  BY ConcatProperties
<1>3. Len(B) \in Nat
  OBVIOUS
<1>4. c # <<>>
  BY <1>1, <1>2, <1>3
<1>5. Head(c) = h
  <2>1. c[1] = r[1] /\ h = r[1]
    BY <1>1, <1>2, <1>3
  <2>2. Head(c) = c[1]
    BY <1>2, <1>4
  <2> QED BY <2>1, <2>2
<1>6. /\ Tail(c) \in Seq(STRING) /\ Len(Tail(c)) = Len(c) - 1
      /\ \A k \in 1..Len(Tail(c)) : Tail(c)[k] = c[k + 1]
  <2> HIDE DEF c
  <2> QED BY <1>2, <1>4, HeadTailProperties
<1>7. /\ t \o B \in Seq(STRING) /\ Len(t \o B) = Len(t) + Len(B)
      /\ \A k \in 1..(Len(t) + Len(B)) : (t \o B)[k] = IF k <= Len(t) THEN t[k] ELSE B[k - Len(t)]
  BY <1>1, ConcatProperties
<1>8. \A k \in 1..Len(t) : t[k] = r[k + 1]
  BY HeadTailProperties
<1>9. Tail(c) = t \o B
  <2> DEFINE e == t \o B  f == Tail(c)
  <2>1. Len(e) = Len(f)
    BY <1>1, <1>2, <1>3, <1>6, <1>7
  <2>2. ASSUME NEW k \in 1..Len(e) PROVE f[k] = e[k]
    <3>1. k \in 1..(Len(t) + Len(B)) /\ k \in 1..Len(f) /\ k + 1 \in 1..(Len(r) + Len(B))
      BY <1>1, <1>3, <1>7, <2>1, <2>2
    <3>2. f[k] = c[k + 1]
      BY <1>6, <3>1
    <3>3. c[k + 1] = IF k + 1 <= Len(r) THEN r[k + 1] ELSE B[k + 1 - Len(r)]
      BY <1>2, <3>1
    <3>4. e[k] = IF k <= Len(t) THEN t[k] ELSE B[k - Len(t)]
      BY <1>7, <3>1
    <3>5. CASE k <= Len(t)
      <4>1. k \in 1..Len(t) /\ k + 1 <= Len(r)
        BY <1>1, <3>1, <3>5
      <4> HIDE DEF c, e, f, t
      <4> QED BY <1>8, <3>2, <3>3, <3>4, <4>1
    <3>6. CASE ~(k <= Len(t))
      <4>1. ~(k + 1 <= Len(r)) /\ k + 1 - Len(r) = k - Len(t) /\ ~(k <= Len(t))
        BY <1>1, <3>1, <3>6
      <4> HIDE DEF c, e, f, t
      <4> QED BY <3>2, <3>3, <3>4, <4>1
    <3> QED BY <3>5, <3>6
  <2>3. e \in Seq(STRING) /\ f \in Seq(STRING)
    BY <1>6, <1>7
  <2> HIDE DEF e, f
  <2> QED BY <2>1, <2>2, <2>3, SeqEqual DEF e, f
<1> QED BY <1>2, <1>4, <1>5, <1>9

\* The walk from x, with more names behind and another budget.
Longer(x, B, b) == Place(x.dir, x.rest \o B, b)

\* It is a position, at the same next name.
LEMMA LongerIs ==
  ASSUME NEW x \in Position, NEW B \in Seq(STRING), NEW b \in Nat
  PROVE  /\ Longer(x, B, b) \in Position
         /\ Longer(x, B, b).dir = x.dir /\ Longer(x, B, b).links = b
         /\ x.rest # <<>> => /\ Longer(x, B, b).rest # <<>>
                             /\ Head(Longer(x, B, b).rest) = Head(x.rest)
                             /\ Tail(Longer(x, B, b).rest) = Tail(x.rest) \o B
<1>1. x.dir \in Seq(STRING) /\ x.rest \in Seq(STRING)
  BY PositionIs
<1>2. x.rest \o B \in Seq(STRING)
  BY <1>1, ConcatProperties
<1>3. /\ Longer(x, B, b).dir = x.dir /\ Longer(x, B, b).links = b
      /\ Longer(x, B, b).rest = x.rest \o B
  BY DEF Longer, Place
<1>4. Longer(x, B, b) \in Position
  BY <1>1, <1>2 DEF Longer, Place, Position
<1> QED BY <1>1, <1>3, <1>4, HeadTailConcat

\* It takes the same step, if the budget allows.
LEMMA LongerSteps ==
  ASSUME NEW fs, NEW top \in Tops, NEW x \in Position, NEW y \in Position,
         Steps(fs, top, x, y), NEW B \in Seq(STRING)
  PROVE  \/ /\ y.links = x.links
            /\ \A b \in Nat : Steps(fs, top, Longer(x, B, b), Longer(y, B, b))
         \/ /\ y.links = x.links - 1
            /\ \A b \in Nat \ {0} : Steps(fs, top, Longer(x, B, b), Longer(y, B, b - 1))
            /\ \A z : ~Steps(fs, top, Longer(x, B, 0), z)
<1> DEFINE h == Head(x.rest)  t == Tail(x.rest)  p == Append(x.dir, h)
<1>1. /\ x.rest # <<>> /\ IsDir(fs, x.dir) /\ x.dir \in Seq(STRING) /\ x.rest \in Seq(STRING)
      /\ x.links \in Nat
  BY PositionIs DEF Steps
<1>2. h \in STRING /\ t \in Seq(STRING)
  BY <1>1, HeadTail
<1>3. ASSUME NEW b \in Nat
      PROVE  /\ Longer(x, B, b).rest # <<>>
             /\ Longer(x, B, b).dir = x.dir /\ Longer(x, B, b).links = b
             /\ Head(Longer(x, B, b).rest) = h /\ Tail(Longer(x, B, b).rest) = t \o B
  BY <1>1, LongerIs
<1>4. CASE GoesUp(top, x, y)
  <2>1. y = Place(IF x.dir = top THEN x.dir ELSE Front(x.dir), t, x.links)
    BY <1>4 DEF GoesUp, Place
  <2>2. y.links = x.links
    BY <2>1 DEF Place
  <2>3. ASSUME NEW b \in Nat PROVE Steps(fs, top, Longer(x, B, b), Longer(y, B, b))
    <3>1. Longer(y, B, b) = Place(IF x.dir = top THEN x.dir ELSE Front(x.dir), t \o B, b)
      BY <2>1 DEF Place, Longer
    <3>2. GoesUp(top, Longer(x, B, b), Longer(y, B, b))
      <4>1. h = ".." /\ (x.dir = <<>> => top # None)
        BY <1>4 DEF GoesUp
      <4> HIDE DEF h, t
      <4> QED BY <1>3, <3>1, <4>1 DEF GoesUp, Place
    <3> QED BY <1>1, <1>3, <3>2 DEF Steps
  <2> QED BY <2>2, <2>3
<1>5. CASE Enters(fs, x, y)
  <2>1. y = Place(p, t, x.links) /\ h # ".." /\ p \in DOMAIN fs /\ fs[p].kind # "link"
    BY <1>5 DEF Enters, Place
  <2>2. y.links = x.links
    BY <2>1 DEF Place
  <2>3. ASSUME NEW b \in Nat PROVE Steps(fs, top, Longer(x, B, b), Longer(y, B, b))
    <3>1. Longer(y, B, b) = Place(p, t \o B, b)
      BY <2>1 DEF Place, Longer
    <3>2. Enters(fs, Longer(x, B, b), Longer(y, B, b))
      <4> HIDE DEF h, t
      <4> QED BY <1>3, <2>1, <3>1 DEF Enters, Place
    <3> QED BY <1>1, <1>3, <3>2 DEF Steps
  <2> QED BY <2>2, <2>3
<1>6. CASE Follows(fs, top, x, y)
  <2>1. /\ h # ".." /\ p \in DOMAIN fs /\ fs[p].kind = "link" /\ x.links # 0
        /\ fs[p].abs \in BOOLEAN /\ fs[p].to \in Seq(STRING) /\ (fs[p].abs => top # None)
        /\ y = Place(IF fs[p].abs THEN top ELSE x.dir, fs[p].to \o t, x.links - 1)
    BY <1>6 DEF Follows, Place
  <2>2. y.links = x.links - 1
    BY <2>1 DEF Place
  <2>3. ASSUME NEW b \in Nat \ {0} PROVE Steps(fs, top, Longer(x, B, b), Longer(y, B, b - 1))
    <3>1. Longer(y, B, b - 1) = Place(IF fs[p].abs THEN top ELSE x.dir, fs[p].to \o (t \o B), b - 1)
      <4>1. Longer(y, B, b - 1) = Place(IF fs[p].abs THEN top ELSE x.dir, (fs[p].to \o t) \o B, b - 1)
        BY <2>1 DEF Place, Longer
      <4>2. (fs[p].to \o t) \o B = fs[p].to \o (t \o B)
        <5> DEFINE to == fs[p].to
        <5>1. to \in Seq(STRING) /\ t \in Seq(STRING)
          BY <1>2, <2>1
        <5> HIDE DEF to, t
        <5>2. (to \o t) \o B = to \o (t \o B)
          BY <5>1, ConcatAssociative
        <5> QED BY <5>2 DEF to
      <4> QED BY <4>1, <4>2
    <3>2. Follows(fs, top, Longer(x, B, b), Longer(y, B, b - 1))
      <4> DEFINE l == Longer(x, B, b)  m == Longer(y, B, b - 1)  n == fs[p]
      <4>1. l.dir = x.dir /\ l.links = b /\ Head(l.rest) = h /\ Tail(l.rest) = t \o B
        BY <1>3
      <4>2. m = Place(IF n.abs THEN top ELSE x.dir, n.to \o (t \o B), b - 1)
        BY <3>1
      <4>3. Append(l.dir, Head(l.rest)) = p
        BY <4>1
      <4>4. /\ h # ".." /\ p \in DOMAIN fs /\ n.kind = "link" /\ n.abs \in BOOLEAN
            /\ n.to \in Seq(STRING) /\ (n.abs => top # None)
        BY <2>1
      <4> HIDE DEF h, t, l, m, p
      <4>5. m = [dir |-> IF n.abs THEN top ELSE l.dir, rest |-> n.to \o Tail(l.rest),
                 links |-> l.links - 1]
        BY <4>1, <4>2 DEF Place
      <4> QED BY <4>1, <4>3, <4>4, <4>5 DEF Follows, l, m
    <3> QED BY <1>1, <1>3, <3>2 DEF Steps
  <2>4. ASSUME NEW z PROVE ~Steps(fs, top, Longer(x, B, 0), z)
    <3> DEFINE l == Longer(x, B, 0)
    <3>1. l.dir = x.dir /\ Head(l.rest) = h /\ l.links = 0
      BY <1>3
    <3> HIDE DEF l, h, t
    <3>2. ~GoesUp(top, l, z) /\ ~Enters(fs, l, z) /\ ~Follows(fs, top, l, z)
      BY <2>1, <3>1 DEF GoesUp, Enters, Follows
    <3> QED BY <3>2 DEF Steps, l
  <2> QED BY <2>2, <2>3, <2>4
<1> QED BY <1>4, <1>5, <1>6 DEF Steps

\* And where the walk is stuck, so is the longer one with no more links to go.
LEMMA LongerIsStuck ==
  ASSUME NEW fs, NEW top \in Tops, NEW x \in Position, x.rest # <<>>,
         NEW B \in Seq(STRING), NEW b \in 0..x.links,
         NEW z, Steps(fs, top, Longer(x, B, b), z)
  PROVE  \E y : Steps(fs, top, x, y)
<1> DEFINE l == Longer(x, B, b)
<1>1. b \in Nat /\ x.links \in Nat
  BY PositionIs
<1>2. /\ l.rest # <<>> /\ l.dir = x.dir /\ l.links = b /\ Head(l.rest) = Head(x.rest)
  BY <1>1, LongerIs
<1> HIDE DEF l
<1>3. IsDir(fs, x.dir) /\ (GoesUp(top, l, z) \/ Enters(fs, l, z) \/ Follows(fs, top, l, z))
  BY <1>2 DEF Steps, l
<1>4. CASE GoesUp(top, l, z)
  <2>1. \E y : GoesUp(top, x, y)
    BY <1>2, <1>4 DEF GoesUp
  <2> QED BY <1>3, <2>1 DEF Steps
<1>5. CASE Enters(fs, l, z)
  <2>1. \E y : Enters(fs, x, y)
    BY <1>2, <1>5 DEF Enters
  <2> QED BY <1>3, <2>1 DEF Steps
<1>6. CASE Follows(fs, top, l, z)
  <2>1. x.links # 0
    BY <1>1, <1>2, <1>6 DEF Follows
  <2>2. \E y : Follows(fs, top, x, y)
    BY <1>2, <1>6, <2>1 DEF Follows
  <2> QED BY <1>3, <2>2 DEF Steps
<1> QED BY <1>3, <1>4, <1>5, <1>6

\* From x, W leads to d with u links followed, whatever names come after.
Leads(W, x, d, u) ==
    \A B \in Seq(STRING), b \in Nat :
        W[Longer(x, B, b)] = IF b < u THEN None ELSE W[Place(d, B, b - u)]

\* From x, W leads nowhere, whatever names come after.
Stuck(W, x) ==
    \A B \in Seq(STRING), b \in 0..x.links : W[Longer(x, B, b)] = None

\* A walk is made of the walks along the parts of its path.
LEMMA Compose ==
  ASSUME NEW fs, Typed(fs), NEW top \in Tops, NEW x \in Position
  PROVE  LET W == Walks(fs, top)
         IN \/ W[x] = None /\ Stuck(W, x)
            \/ /\ W[x] \in Seq(STRING)
               /\ \E u \in 0..x.links : Leads(W, x, W[x], u)
<1> DEFINE W == Walks(fs, top)
           OK(y) == \/ W[y] = None /\ Stuck(W, y)
                    \/ /\ W[y] \in Seq(STRING)
                       /\ \E u \in 0..y.links : Leads(W, y, W[y], u)
           S == {y \in Position : OK(y)}
<1>0. /\ \A y \in Position : y.rest = <<>> => W[y] = y.dir
      /\ \A y \in Position : \A z : Steps(fs, top, y, z) => z \in Position /\ W[y] = W[z]
      /\ \A y \in Position : y.rest = <<>> \/ W[y] = None \/ \E z \in Position : Steps(fs, top, y, z)
  BY WalkSteps
<1> HIDE DEF W
<1>1. ASSUME NEW y \in Position, \A z \in Position : Steps(fs, top, y, z) => z \in S
      PROVE  OK(y)
  <2>0. y.dir \in Seq(STRING) /\ y.rest \in Seq(STRING) /\ y.links \in Nat
    BY PositionIs
  <2>1. CASE y.rest = <<>>
    <3>1. W[y] = y.dir
      BY <1>0, <2>1
    <3>2. Leads(W, y, y.dir, 0)
      <4>1. ASSUME NEW B \in Seq(STRING), NEW b \in Nat
            PROVE  W[Longer(y, B, b)] = IF b < 0 THEN None ELSE W[Place(y.dir, B, b - 0)]
        <5>1. y.rest \o B = B
          BY <2>1, ConcatEmptySeq
        <5> QED BY <5>1 DEF Longer
      <4> QED BY <4>1 DEF Leads
    <3> QED BY <2>0, <3>1, <3>2
  <2>2. CASE y.rest # <<>> /\ \E z \in Position : Steps(fs, top, y, z)
    <3>1. PICK z \in Position : Steps(fs, top, y, z)
      BY <2>2
    <3>2. W[y] = W[z] /\ OK(z) /\ z.links \in Nat
      BY <1>0, <1>1, <3>1, PositionIs
    <3>3. CASE W[z] = None /\ Stuck(W, z)
      <4>1. ASSUME NEW B \in Seq(STRING), NEW b \in 0..y.links
            PROVE  W[Longer(y, B, b)] = None
        <5>0. b \in Nat
          BY <2>0
        <5>1. Longer(y, B, b) \in Position /\ Longer(y, B, b).rest # <<>>
          BY <2>2, <5>0, LongerIs
        <5>2. CASE z.links = y.links /\ Steps(fs, top, Longer(y, B, b), Longer(z, B, b))
          BY <1>0, <3>3, <5>1, <5>2 DEF Stuck
        <5>3. CASE /\ z.links = y.links - 1 /\ b # 0
                   /\ Steps(fs, top, Longer(y, B, b), Longer(z, B, b - 1))
          <6>1. b - 1 \in 0..z.links
            BY <2>0, <5>3
          <6> QED BY <1>0, <3>3, <5>1, <5>3, <6>1 DEF Stuck
        <5>4. CASE b = 0 /\ \A v : ~Steps(fs, top, Longer(y, B, b), v)
          BY <1>0, <5>1, <5>4
        <5>5. \/ /\ z.links = y.links
                 /\ \A c \in Nat : Steps(fs, top, Longer(y, B, c), Longer(z, B, c))
              \/ /\ z.links = y.links - 1
                 /\ \A c \in Nat \ {0} : Steps(fs, top, Longer(y, B, c), Longer(z, B, c - 1))
                 /\ \A v : ~Steps(fs, top, Longer(y, B, 0), v)
          BY <3>1, LongerSteps
        <5> QED BY <5>0, <5>2, <5>3, <5>4, <5>5
      <4> QED BY <3>2, <3>3, <4>1 DEF Stuck
    <3>4. CASE W[z] \in Seq(STRING) /\ \E u \in 0..z.links : Leads(W, z, W[z], u)
      <4>1. PICK u \in 0..z.links : Leads(W, z, W[z], u)
        BY <3>4
      <4>2. CASE z.links = y.links /\ \A B \in Seq(STRING), b \in Nat :
                                         Steps(fs, top, Longer(y, B, b), Longer(z, B, b))
        <5>1. Leads(W, y, W[y], u)
          <6>1. ASSUME NEW B \in Seq(STRING), NEW b \in Nat
                PROVE  W[Longer(y, B, b)] = IF b < u THEN None ELSE W[Place(W[y], B, b - u)]
            <7>1. W[Longer(y, B, b)] = W[Longer(z, B, b)]
              BY <1>0, <4>2, LongerIs
            <7> QED BY <3>2, <4>1, <7>1 DEF Leads
          <6> QED BY <6>1 DEF Leads
        <5> QED BY <3>2, <3>4, <4>2, <5>1
      <4>3. CASE /\ z.links = y.links - 1
                 /\ \A B \in Seq(STRING) :
                       /\ \A b \in Nat \ {0} : Steps(fs, top, Longer(y, B, b), Longer(z, B, b - 1))
                       /\ \A v : ~Steps(fs, top, Longer(y, B, 0), v)
        <5>0. u + 1 \in 0..y.links /\ u \in Nat
          BY <2>0, <3>2, <4>3
        <5>1. Leads(W, y, W[y], u + 1)
          <6>1. ASSUME NEW B \in Seq(STRING), NEW b \in Nat
                PROVE  W[Longer(y, B, b)] = IF b < u + 1 THEN None ELSE W[Place(W[y], B, b - (u + 1))]
            <7>0. Longer(y, B, b) \in Position /\ Longer(y, B, b).rest # <<>>
              BY <2>2, LongerIs
            <7>1. CASE b = 0
              <8>1. W[Longer(y, B, b)] = None
                BY <1>0, <4>3, <7>0, <7>1
              <8> QED BY <5>0, <7>1, <8>1
            <7>2. CASE b # 0
              <8>1. W[Longer(y, B, b)] = W[Longer(z, B, b - 1)]
                BY <1>0, <4>3, <7>0, <7>2
              <8>2. b - 1 \in Nat /\ (b < u + 1 <=> b - 1 < u) /\ b - 1 - u = b - (u + 1)
                BY <5>0, <7>2
              <8>3. W[Longer(z, B, b - 1)] = IF b - 1 < u THEN None ELSE W[Place(W[z], B, b - 1 - u)]
                BY <4>1, <8>2 DEF Leads
              <8> QED BY <3>2, <8>1, <8>2, <8>3
            <7> QED BY <7>1, <7>2
          <6> QED BY <6>1 DEF Leads
        <5> QED BY <3>2, <3>4, <5>0, <5>1
      <4>4. \/ /\ z.links = y.links
               /\ \A B \in Seq(STRING), b \in Nat : Steps(fs, top, Longer(y, B, b), Longer(z, B, b))
            \/ /\ z.links = y.links - 1
               /\ \A B \in Seq(STRING) :
                     /\ \A b \in Nat \ {0} : Steps(fs, top, Longer(y, B, b), Longer(z, B, b - 1))
                     /\ \A v : ~Steps(fs, top, Longer(y, B, 0), v)
        <5>1. \A B \in Seq(STRING) :
                 \/ /\ z.links = y.links
                    /\ \A b \in Nat : Steps(fs, top, Longer(y, B, b), Longer(z, B, b))
                 \/ /\ z.links = y.links - 1
                    /\ \A b \in Nat \ {0} : Steps(fs, top, Longer(y, B, b), Longer(z, B, b - 1))
                    /\ \A v : ~Steps(fs, top, Longer(y, B, 0), v)
          BY <3>1, LongerSteps
        <5>2. <<>> \in Seq(STRING) /\ y.links # y.links - 1
          BY <2>0
        <5>3. CASE z.links = y.links
          BY <5>1, <5>2, <5>3
        <5>4. CASE z.links # y.links
          BY <5>1, <5>2, <5>4
        <5> QED BY <5>3, <5>4
      <4> QED BY <4>2, <4>3, <4>4
    <3> QED BY <3>2, <3>3, <3>4
  <2>3. CASE y.rest # <<>> /\ ~\E z \in Position : Steps(fs, top, y, z)
    <3>1. W[y] = None
      BY <1>0, <2>3
    <3>2. \A z : ~Steps(fs, top, y, z)
      BY <1>0, <2>3
    <3>3. ASSUME NEW B \in Seq(STRING), NEW b \in 0..y.links
          PROVE  W[Longer(y, B, b)] = None
      <4>1. Longer(y, B, b) \in Position /\ Longer(y, B, b).rest # <<>>
        BY <2>0, <2>3, LongerIs
      <4>2. \A z : ~Steps(fs, top, Longer(y, B, b), z)
        BY <2>3, <3>2, LongerIsStuck
      <4> QED BY <1>0, <4>1, <4>2
    <3> QED BY <3>1, <3>3 DEF Stuck
  <2> QED BY <2>1, <2>2, <2>3
<1>2. \A y \in Position : y \in S
  <2>1. \A y \in Position : (\A z \in Position : Steps(fs, top, y, z) => z \in S) => y \in S
    BY <1>1
  <2> HIDE DEF S
  <2> QED BY <2>1, StepInduction
<1> QED BY <1>2 DEF W

\* A path without "..".
NoUp(s) == \A k \in DOMAIN s : s[k] # ".."

\* A file system in which what is below a file or a link is not there.
Tree(fs) ==
    /\ Typed(fs) /\ IsDir(fs, <<>>)
    /\ \A p \in DOMAIN fs : /\ p \in Seq(STRING) /\ NoUp(p)
                            /\ p # <<>> => IsDir(fs, Front(p))

\* A name in front of a path.
LEMMA OneMore ==
  ASSUME NEW h \in STRING, NEW B \in Seq(STRING)
  PROVE  /\ <<h>> \o B \in Seq(STRING) /\ <<h>> \o B # <<>>
         /\ Head(<<h>> \o B) = h /\ Tail(<<h>> \o B) = B
<1>1. <<h>> \in Seq(STRING)
  BY OneIsSeq
<1>2. <<h>> # <<>> /\ Head(<<h>>) = h /\ Tail(<<h>>) = <<>>
  OBVIOUS
<1>3. /\ <<h>> \o B # <<>> /\ <<h>> \o B \in Seq(STRING)
      /\ Head(<<h>> \o B) = Head(<<h>>) /\ Tail(<<h>> \o B) = Tail(<<h>>) \o B
  BY <1>1, <1>2, HeadTailConcat
<1>4. <<>> \o B = B
  BY ConcatEmptySeq
<1> QED BY <1>2, <1>3, <1>4

\* A name between two paths.
LEMMA AppendConcat ==
  ASSUME NEW d \in Seq(STRING), NEW h \in STRING, NEW B \in Seq(STRING)
  PROVE  Append(d, h) \o B = d \o (<<h>> \o B)
<1>1. <<h>> \in Seq(STRING)
  BY OneIsSeq
<1>2. (d \o <<h>>) \o B = d \o (<<h>> \o B)
  BY <1>1, ConcatAssociative
<1> QED BY <1>2, AppendIsConcat

\* One name from a directory.
LEMMA WalkOne ==
  ASSUME NEW fs, Typed(fs), NEW top \in Tops, None \notin Seq(STRING),
         NEW d \in Seq(STRING), IsDir(fs, d),
         NEW h \in STRING, NEW B \in Seq(STRING), NEW l \in Nat
  PROVE  LET W == Walks(fs, top)
             x == Place(d, <<h>> \o B, l)
             p == Append(d, h)
         IN /\ h = ".." /\ d # <<>> => W[x] = W[Place(Front(d), B, l)]
            /\ h # ".." /\ p \in DOMAIN fs /\ fs[p].kind # "link" => W[x] = W[Place(p, B, l)]
            /\ h # ".." /\ p \notin DOMAIN fs => W[x] = None
<1> DEFINE W == Walks(fs, top)  x == Place(d, <<h>> \o B, l)  p == Append(d, h)
<1>1. /\ x \in Position /\ x.dir = d /\ x.links = l
      /\ x.rest # <<>> /\ Head(x.rest) = h /\ Tail(x.rest) = B
  <2> DEFINE r == <<h>> \o B
  <2>1. r \in Seq(STRING) /\ r # <<>> /\ Head(r) = h /\ Tail(r) = B
    BY OneMore
  <2>2. x = Place(d, r, l)
    OBVIOUS
  <2> HIDE DEF r, x
  <2> QED BY <2>1, <2>2, PlaceIs
<1>2. /\ \A y : Steps(fs, top, x, y) => W[x] = W[y]
      /\ W[x] = None \/ \E y \in Position : Steps(fs, top, x, y)
  <2> HIDE DEF x
  <2> QED BY <1>1, WalkSteps
<1> HIDE DEF W, x
<1>3. ASSUME h = "..", d # <<>> PROVE W[x] = W[Place(Front(d), B, l)]
  <2>1. d # None
    OBVIOUS
  <2>2. d # top
    BY <1>3, <2>1 DEF Tops
  <2>3. GoesUp(top, x, Place(Front(d), B, l))
    BY <1>1, <1>3, <2>2 DEF GoesUp, Place
  <2> QED BY <1>1, <1>2, <2>3 DEF Steps
<1>4. ASSUME h # "..", p \in DOMAIN fs, fs[p].kind # "link" PROVE W[x] = W[Place(p, B, l)]
  <2>1. Enters(fs, x, Place(p, B, l))
    BY <1>1, <1>4 DEF Enters, Place
  <2> QED BY <1>1, <1>2, <2>1 DEF Steps
<1>5. ASSUME h # "..", p \notin DOMAIN fs PROVE W[x] = None
  <2>1. \A y : ~Steps(fs, top, x, y)
    BY <1>1, <1>5 DEF Steps, GoesUp, Enters, Follows
  <2> QED BY <1>2, <2>1
<1> QED BY <1>3, <1>4, <1>5 DEF W, x

\* A real directory is found by its name, without links.
LEMMA RealDir ==
  ASSUME NEW fs, Tree(fs), NEW top \in Tops, None \notin Seq(STRING),
         NEW y, IsDir(fs, y), NEW B \in Seq(STRING), NEW l \in Nat
  PROVE  Walks(fs, top)[Place(<<>>, y \o B, l)] = Walks(fs, top)[Place(y, B, l)]
<1> DEFINE W == Walks(fs, top)
           P(d) == \A b \in Seq(STRING) : W[Place(<<>>, d \o b, l)] = W[Place(d, b, l)]
           Bad == {d \in DOMAIN fs : IsDir(fs, d) /\ ~P(d)}
           Lens == {Len(d) : d \in Bad}
<1>1. ASSUME Bad # {} PROVE FALSE
  <2>0. \A d \in Bad : d \in Seq(STRING) /\ d \in DOMAIN fs
    BY DEF Tree
  <2>1. PICK m \in Lens : \A k \in Lens : m <= k
    <3>1. \A d \in Bad : Len(d) \in Nat
      BY <2>0
    <3>2. Lens \in SUBSET Nat /\ Lens # {}
      <4> HIDE DEF Bad
      <4> QED BY <1>1, <3>1
    <3> HIDE DEF Lens
    <3> QED BY <3>2, LeastNat
  <2>2. PICK d \in Bad : Len(d) = m
    <3> HIDE DEF Bad
    <3> QED BY <2>1
  <2>3. d \in Seq(STRING) /\ d \in DOMAIN fs /\ IsDir(fs, d) /\ ~P(d)
    BY <2>0
  <2>4. d # <<>>
    <3>1. \A b \in Seq(STRING) : <<>> \o b = b
      BY ConcatEmptySeq
    <3>2. P(<<>>)
      BY <3>1
    <3> HIDE DEF P
    <3> QED BY <2>3, <3>2
  <2> DEFINE f == Front(d)  h == Last(d)
  <2>5. /\ f \in Seq(STRING) /\ h \in STRING /\ d = Append(f, h) /\ Len(f) = m - 1
        /\ m \in Nat
    BY <2>2, <2>3, <2>4, FrontLast
  <2>6. IsDir(fs, f) /\ h # ".."
    <3>1. h = d[Len(d)] /\ Len(d) \in DOMAIN d
      BY <2>3, <2>4, FrontLast DEF Last
    <3> QED BY <2>3, <2>4, <3>1 DEF Tree, NoUp
  <2>7. P(f)
    <3>1. Len(f) \in Lens => m <= Len(f)
      <4> HIDE DEF Lens
      <4> QED BY <2>1
    <3>2. Len(f) \notin Lens
      <4> HIDE DEF Lens, f, h
      <4> QED BY <2>5, <3>1
    <3>3. f \notin Bad
      <4> HIDE DEF Bad
      <4> QED BY <3>2
    <3>4. f \in DOMAIN fs
      BY <2>6 DEF IsDir
    <3> HIDE DEF f, P
    <3> QED BY <2>6, <3>3, <3>4
  <2> HIDE DEF f, h
  <2>8. ASSUME NEW b \in Seq(STRING) PROVE W[Place(<<>>, d \o b, l)] = W[Place(d, b, l)]
    <3>1. d \o b = f \o (<<h>> \o b) /\ <<h>> \o b \in Seq(STRING)
      <4>1. d = Append(f, h) /\ f \in Seq(STRING) /\ h \in STRING
        BY <2>5
      <4>2. Append(f, h) \o b = f \o (<<h>> \o b)
        BY <4>1, AppendConcat
      <4>3. <<h>> \o b \in Seq(STRING)
        BY <4>1, OneMore
      <4> QED BY <4>1, <4>2, <4>3
    <3>2. W[Place(<<>>, f \o (<<h>> \o b), l)] = W[Place(f, <<h>> \o b, l)]
      BY <2>7, <3>1
    <3>3. W[Place(f, <<h>> \o b, l)] = W[Place(d, b, l)]
      <4>1. Typed(fs) /\ Append(f, h) \in DOMAIN fs /\ fs[Append(f, h)].kind # "link"
        BY <2>3, <2>5 DEF Tree, IsDir, Directory
      <4>2. W[Place(f, <<h>> \o b, l)] = W[Place(Append(f, h), b, l)]
        BY <2>5, <2>6, <4>1, WalkOne
      <4> QED BY <2>5, <4>2
    <3> QED BY <3>1, <3>2, <3>3
  <2> QED BY <2>3, <2>8
<1>2. P(y)
  BY <1>1 DEF IsDir
<1> QED BY <1>2

-------------------------------------------------------------------------------
(* Clean, and where a path leads by its text.                                *)

\* What filepath.Clean makes of one more name.
LEMMA CleanNameIs ==
  ASSUME NEW a \in Seq(STRING), NEW name \in STRING
  PROVE  /\ CleanName(a, name) \in Seq(STRING)
         /\ Escapes(a) => Escapes(CleanName(a, name))
         /\ NoUp(a) /\ name # ".." => NoUp(Append(a, name))
         /\ name # ".." => CleanName(a, name) = Append(a, name)
         /\ NoUp(a) /\ name = ".." /\ a # <<>> => /\ CleanName(a, name) = Front(a)
                                                  /\ NoUp(Front(a))
         /\ name = ".." /\ a = <<>> => Escapes(CleanName(a, name))
<1> DEFINE n == Len(a)  f == Front(a)  d == Append(a, name)
<1>1. n \in Nat /\ DOMAIN a = 1..n /\ (a # <<>> => n >= 1)
  BY EmptySeq
<1>2. f \in Seq(STRING)
  BY FrontLast
<1>3. a # <<>> => /\ Len(f) = n - 1 /\ DOMAIN f = 1..(n - 1)
                  /\ \A k \in 1..(n - 1) : f[k] = a[k]
  <2> SUFFICES ASSUME a # <<>> PROVE Len(f) = n - 1 /\ \A k \in 1..(n - 1) : f[k] = a[k]
    BY <1>2
  <2>1. n >= 1
    BY <1>1
  <2> QED BY <1>1, <2>1 DEF Front
<1>4. /\ d \in Seq(STRING) /\ d # <<>> /\ DOMAIN d = 1..(n + 1)
      /\ \A k \in 1..n : d[k] = a[k]
      /\ d[n + 1] = name
  <2>1. d \in Seq(STRING) /\ d # <<>> /\ Len(d) = n + 1 /\ d[n + 1] = name
    BY AppendProperties
  <2>2. \A k \in 1..n : d[k] = a[k]
    BY AppendProperties
  <2> HIDE DEF d
  <2> QED BY <2>1, <2>2
<1>5. a # <<>> => n \in DOMAIN a /\ Last(a) = a[n]
  BY <1>1 DEF Last
<1>6. \A s \in Seq(STRING) : s # <<>> => Head(s) = s[1]
  OBVIOUS
<1> HIDE DEF n, f, d
<1>7. CASE name = ".." /\ a # <<>> /\ Last(a) # ".."
  <2>1. CleanName(a, name) = f
    BY <1>7 DEF CleanName, f
  <2>2. ASSUME Escapes(a) PROVE Escapes(f)
    <3>1. a[1] = ".." /\ n # 1
      BY <1>5, <1>6, <1>7, <2>2 DEF Escapes
    <3>2. 1 \in 1..(n - 1)
      BY <1>1, <1>7, <3>1
    <3>3. f[1] = ".." /\ f # <<>>
      BY <1>3, <1>7, <3>1, <3>2
    <3> QED BY <1>2, <1>6, <3>3 DEF Escapes
  <2>3. ASSUME NoUp(a) PROVE NoUp(f)
    <3>1. \A k \in 1..(n - 1) : k \in 1..n
      BY <1>1
    <3> QED BY <1>1, <1>3, <1>7, <2>3, <3>1 DEF NoUp
  <2> QED BY <1>2, <1>7, <2>1, <2>2, <2>3 DEF f
<1>8. CASE ~(name = ".." /\ a # <<>> /\ Last(a) # "..")
  <2>1. CleanName(a, name) = d
    BY <1>8 DEF CleanName, d
  <2>2. ASSUME Escapes(a) PROVE Escapes(d)
    <3>1. 1 \in 1..n /\ a[1] = ".."
      BY <1>1, <1>6, <2>2 DEF Escapes
    <3>2. d[1] = ".."
      BY <1>4, <3>1
    <3> QED BY <1>4, <1>6, <3>2 DEF Escapes
  <2>3. ASSUME NoUp(a), name # ".." PROVE NoUp(d)
    <3>1. \A k \in 1..(n + 1) : k \in 1..n \/ k = n + 1
      BY <1>1
    <3> QED BY <1>1, <1>4, <2>3, <3>1 DEF NoUp
  <2>4. ASSUME a = <<>>, name = ".." PROVE Escapes(d)
    <3>1. n = 0
      BY <2>4 DEF n
    <3>2. d[1] = ".."
      BY <1>4, <2>4, <3>1
    <3> QED BY <1>4, <1>6, <3>2 DEF Escapes
  <2>5. ~(NoUp(a) /\ name = ".." /\ a # <<>>)
    BY <1>5, <1>8 DEF NoUp
  <2> QED BY <1>4, <2>1, <2>2, <2>3, <2>4, <2>5 DEF d
<1> QED BY <1>7, <1>8

\* Induction along Clean.
LEMMA CleanInduction ==
  ASSUME NEW path \in Seq(STRING), NEW S, <<>> \in S[0],
         \A k \in 1..Len(path) : \A a \in S[k - 1] : CleanName(a, path[k]) \in S[k]
  PROVE  Clean(path) \in S[Len(path)]
<1>1. Cleaning!Fold(<<>>, path) = FoldLeft(CleanName, <<>>, path)
  BY DEF Cleaning!Fold, FoldLeft, Cleaning!FoldLeft, MapThenFoldSet,
         Cleaning!MapThenFoldSet, Max, Cleaning!Max
<1>2. Cleaning!Fold(<<>>, path) = Clean(path)
  BY <1>1 DEF Clean
<1> QED BY <1>2, Cleaning!FoldLeftInvariant

\* A target that goes higher than the directory is deep escapes.
LEMMA UpsBounded ==
  ASSUME NEW d \in Seq(STRING), NoUp(d), NEW to \in Seq(STRING), Plain(to),
         ~Escapes(Clean(d \o to))
  PROVE  \A k \in 1..Len(to) : to[k] = ".." => k <= Len(d)
<1> DEFINE n == Len(d)  path == d \o to  m == Len(to)
<1> SUFFICES ASSUME NEW k \in 1..m, to[k] = "..", ~(k <= n) PROVE FALSE
  OBVIOUS
<1>1. n \in Nat /\ m \in Nat /\ DOMAIN to = 1..m /\ DOMAIN d = 1..n
  OBVIOUS
<1>2. /\ path \in Seq(STRING) /\ Len(path) = n + m
      /\ \A j \in 1..(n + m) : path[j] = IF j <= n THEN d[j] ELSE to[j - n]
  BY ConcatProperties
<1>3. \A j \in 1..(n + 1) : to[j] = ".."
  <2>1. \A j \in 1..(n + 1) : j \in 1..m /\ j <= k
    BY <1>1
  <2> QED BY <1>1, <2>1 DEF Plain
<1> DEFINE In(j) == {a \in Seq(STRING) :
                        NoUp(a) /\ Len(a) = IF j <= n THEN j ELSE 2 * n - j}
           Out == {a \in Seq(STRING) : Escapes(a)}
           S == [j \in 0..(n + m) |-> IF j <= 2 * n THEN In(j) ELSE Out]
<1>4. <<>> \in S[0]
  <2>1. <<>> \in In(0)
    BY <1>1 DEF NoUp
  <2>2. S[0] = In(0)
    BY <1>1
  <2> HIDE DEF S, In
  <2> QED BY <2>1, <2>2
<1>5. ASSUME NEW j \in 1..(n + m), NEW a \in S[j - 1]
      PROVE  CleanName(a, path[j]) \in S[j]
  <2>0. j - 1 \in 0..(n + m) /\ j \in 0..(n + m) /\ path[j] \in STRING
    BY <1>1, <1>2
  <2>1. S[j] = (IF j <= 2 * n THEN In(j) ELSE Out)
        /\ S[j - 1] = IF j - 1 <= 2 * n THEN In(j - 1) ELSE Out
    BY <2>0
  <2> HIDE DEF S, path
  <2>2. CASE j <= n
    <3>1. a \in In(j - 1) /\ S[j] = In(j) /\ j - 1 <= n
      BY <1>1, <2>0, <2>1, <2>2
    <3>2. a \in Seq(STRING) /\ NoUp(a) /\ Len(a) = j - 1
      BY <3>1
    <3>3. path[j] # ".."
      <4>1. path[j] = d[j] /\ j \in DOMAIN d
        BY <1>1, <1>2, <2>2
      <4> QED BY <4>1 DEF NoUp
    <3>4. CleanName(a, path[j]) = Append(a, path[j]) /\ NoUp(Append(a, path[j]))
      BY <2>0, <3>2, <3>3, CleanNameIs
    <3>5. Append(a, path[j]) \in Seq(STRING) /\ Len(Append(a, path[j])) = j
      <4>1. Append(a, path[j]) \in Seq(STRING) /\ Len(Append(a, path[j])) = Len(a) + 1
        BY <2>0, <3>2, AppendProperties
      <4> QED BY <2>0, <3>2, <4>1
    <3>6. Append(a, path[j]) \in In(j)
      BY <2>2, <3>4, <3>5
    <3> HIDE DEF In
    <3> QED BY <3>1, <3>4, <3>6
  <2>3. CASE n < j /\ j <= 2 * n
    <3>1. a \in In(j - 1) /\ S[j] = In(j)
      BY <1>1, <2>0, <2>1, <2>3
    <3>2. a \in Seq(STRING) /\ NoUp(a) /\ Len(a) = 2 * n - j + 1
      <4>1. a \in Seq(STRING) /\ NoUp(a)
            /\ Len(a) = IF j - 1 <= n THEN j - 1 ELSE 2 * n - (j - 1)
        BY <3>1
      <4>2. (IF j - 1 <= n THEN j - 1 ELSE 2 * n - (j - 1)) = 2 * n - j + 1
        <5>1. CASE j - 1 <= n
          BY <1>1, <2>3, <5>1
        <5>2. CASE ~(j - 1 <= n)
          BY <1>1, <2>3, <5>2
        <5> QED BY <5>1, <5>2
      <4> QED BY <4>1, <4>2
    <3>3. path[j] = ".."
      <4>1. j - n \in 1..(n + 1) /\ ~(j <= n)
        BY <1>1, <2>0, <2>3
      <4> QED BY <1>2, <1>3, <4>1
    <3>4. a # <<>>
      BY <1>1, <2>0, <2>3, <3>2
    <3>5. CleanName(a, path[j]) = Front(a) /\ NoUp(Front(a))
      BY <2>0, <3>2, <3>3, <3>4, CleanNameIs
    <3>6. Front(a) \in Seq(STRING) /\ Len(Front(a)) = 2 * n - j
      <4>1. Front(a) \in Seq(STRING) /\ Len(Front(a)) = Len(a) - 1
        BY <3>2, <3>4, FrontLast
      <4> QED BY <1>1, <2>0, <3>2, <4>1
    <3>7. Front(a) \in In(j)
      BY <1>1, <2>0, <2>3, <3>5, <3>6
    <3> HIDE DEF In
    <3> QED BY <3>1, <3>5, <3>7
  <2>4. CASE j = 2 * n + 1
    <3>1. a \in In(j - 1) /\ S[j] = Out
      BY <1>1, <2>0, <2>1, <2>4
    <3>2. a \in Seq(STRING) /\ Len(a) = 0
      BY <1>1, <2>0, <2>4, <3>1
    <3>3. path[j] = ".."
      <4>1. j - n \in 1..(n + 1) /\ ~(j <= n)
        BY <1>1, <2>0, <2>4
      <4> QED BY <1>2, <1>3, <4>1
    <3>4. a = <<>>
      BY <3>2, EmptySeq
    <3>5. CleanName(a, path[j]) \in Out
      BY <2>0, <3>2, <3>3, <3>4, CleanNameIs
    <3> HIDE DEF Out
    <3> QED BY <3>1, <3>5
  <2>5. CASE j > 2 * n + 1
    <3>1. a \in Out /\ S[j] = Out
      BY <1>1, <2>0, <2>1, <2>5
    <3>2. CleanName(a, path[j]) \in Out
      BY <2>0, <3>1, CleanNameIs
    <3> HIDE DEF Out
    <3> QED BY <3>1, <3>2
  <2> QED BY <1>1, <2>0, <2>2, <2>3, <2>4, <2>5
<1>6. n + m \in 0..(n + m) /\ ~(n + m <= 2 * n)
  BY <1>1
<1>7. S[n + m] = Out
  BY <1>6
<1> HIDE DEF S, Out
<1>8. Clean(path) \in S[n + m]
  BY <1>2, <1>4, <1>5, CleanInduction
<1> QED BY <1>7, <1>8 DEF Out

\* What Clean leaves of a path: ".." only in front, above the root.
Cleaned == {c \in Seq(STRING) :
    \A j, k \in 1..Len(c) : c[k] = ".." /\ j <= k => c[j] = ".."}

\* One more name keeps it so.
LEMMA CleanNameKeeps ==
  ASSUME NEW c \in Cleaned, NEW name \in STRING
  PROVE  CleanName(c, name) \in Cleaned
<1> DEFINE n == Len(c)
<1>1. n \in Nat /\ c \in Seq(STRING) /\ DOMAIN c = 1..n
  BY DEF Cleaned
<1>2. \A j, k \in 1..n : c[k] = ".." /\ j <= k => c[j] = ".."
  BY DEF Cleaned
<1>3. CASE name = ".." /\ c # <<>> /\ Last(c) # ".."
  <2> DEFINE f == Front(c)
  <2>1. n >= 1
    BY <1>1, <1>3
  <2>2. f \in Seq(STRING) /\ Len(f) = n - 1 /\ \A k \in 1..(n - 1) : f[k] = c[k]
    BY <1>1, <2>1 DEF Front
  <2>3. f \in Cleaned
    <3> HIDE DEF f, n
    <3>1. \A k \in 1..(n - 1) : k \in 1..n
      BY <1>1
    <3> QED BY <1>2, <2>2, <3>1 DEF Cleaned
  <2> QED BY <1>3, <2>3 DEF CleanName
<1>4. CASE ~(name = ".." /\ c # <<>> /\ Last(c) # "..")
  <2> DEFINE d == Append(c, name)
  <2>1. /\ d \in Seq(STRING) /\ Len(d) = n + 1
        /\ \A k \in 1..n : d[k] = c[k]
        /\ d[n + 1] = name
    <3>1. d \in Seq(STRING)
      BY <1>1, AppendProperties
    <3>2. Len(d) = n + 1 /\ \A k \in 1..n : d[k] = c[k]
      BY <1>1
    <3>3. d[n + 1] = name
      BY <1>1, AppendProperties
    <3> QED BY <3>1, <3>2, <3>3
  <2>2. ASSUME name = ".." PROVE \A j \in 1..n : c[j] = ".."
    <3>1. CASE n = 0
      BY <3>1
    <3>2. CASE n # 0
      <4>1. c # <<>> /\ Last(c) = c[n] /\ n \in 1..n
        BY <1>1, <3>2 DEF Last
      <4>2. c[n] = ".."
        BY <1>4, <2>2, <4>1
      <4> HIDE DEF n
      <4> QED BY <1>1, <1>2, <4>1, <4>2
    <3> QED BY <3>1, <3>2
  <2>3. d \in Cleaned
    <3> HIDE DEF d, n
    <3> SUFFICES ASSUME NEW j \in 1..(n + 1), NEW k \in 1..(n + 1), d[k] = "..", j <= k
                 PROVE  d[j] = ".."
      BY <2>1 DEF Cleaned
    <3>1. CASE k \in 1..n
      BY <1>1, <1>2, <2>1, <3>1
    <3>2. CASE k = n + 1
      BY <1>1, <2>1, <2>2, <3>2
    <3> QED BY <1>1, <3>1, <3>2
  <2> QED BY <1>4, <2>3 DEF CleanName
<1> QED BY <1>3, <1>4

\* filepath.Clean leaves ".." nowhere but in front.
LEMMA CleanIsCleaned ==
  ASSUME NEW path \in Seq(STRING)
  PROVE  Clean(path) \in Cleaned
<1> DEFINE S == [k \in 0..Len(path) |-> Cleaned]
<1>1. <<>> \in S[0] /\ S[Len(path)] = Cleaned
  BY DEF Cleaned
<1>2. ASSUME NEW k \in 1..Len(path), NEW a \in S[k - 1]
      PROVE  CleanName(a, path[k]) \in S[k]
  <2>1. S[k - 1] = Cleaned /\ S[k] = Cleaned /\ path[k] \in STRING
    OBVIOUS
  <2> HIDE DEF S
  <2> QED BY <2>1, CleanNameKeeps
<1> HIDE DEF S
<1> QED BY <1>1, <1>2, CleanInduction

\* A cleaned path that does not begin with ".." has none.
LEMMA InsideHasNoUp ==
  ASSUME NEW c \in Cleaned, ~Escapes(c)
  PROVE  \A k \in DOMAIN c : c[k] # ".."
<1>1. Len(c) \in Nat /\ DOMAIN c = 1..Len(c) /\ c \in Seq(STRING)
  BY DEF Cleaned
<1>2. CASE c = <<>>
  BY <1>2
<1>3. CASE c # <<>>
  <2>1. 1 \in 1..Len(c) /\ c[1] # ".."
    BY <1>1, <1>3 DEF Escapes
  <2> QED BY <1>1, <2>1 DEF Cleaned
<1> QED BY <1>2, <1>3

\* The front part of a path.
LEMMA PrefixOfConcat ==
  ASSUME NEW y \in Seq(STRING), NEW to \in Seq(STRING)
  PROVE  SubSeq(y \o to, 1, Len(y)) = y
<1>1. Len(y) \in Nat /\ (y # <<>> => Len(y) # 0)
  BY EmptySeq
<1>2. CASE y = <<>>
  <2>1. SubSeq(y \o to, 1, Len(y)) = <<>>
    BY <1>1, <1>2, SubSeqEmpty
  <2> QED BY <1>2, <2>1
<1>3. CASE y # <<>>
  <2>1. 1 \in 1..Len(y) /\ Len(y) \in 1..Len(y)
    BY <1>1, <1>3
  <2>2. SubSeq(y \o to, 1, Len(y)) = SubSeq(y, 1, Len(y))
    BY <2>1, SubSeqOfConcat1
  <2> QED BY <2>2, SubSeqFull
<1> QED BY <1>2, <1>3

\* A plain target leads where its text says, from the directory whose path the
\* text begins with.
LEMMA CleanText ==
  ASSUME NEW fs, Tree(fs), NEW top \in Tops, None \notin Seq(STRING),
         NEW y, IsDir(fs, y), NEW to \in Seq(STRING), Plain(to),
         ~Escapes(Clean(y \o to)), NEW l \in Nat
  PROVE  Walks(fs, top)[Place(y, to, l)] = Walks(fs, top)[Place(<<>>, Clean(y \o to), l)]
<1> DEFINE W == Walks(fs, top)
           path == y \o to  n == Len(y)  m == Len(to)  N == Len(path)
           rest(k) == SubSeq(path, k + 1, N)
<1>0. y \in Seq(STRING) /\ NoUp(y)
  BY DEF Tree, IsDir
<1>1. /\ path \in Seq(STRING) /\ N = n + m /\ n \in Nat /\ m \in Nat /\ N \in Nat
      /\ \A k \in 1..N : path[k] = IF k <= n THEN y[k] ELSE to[k - n]
      /\ DOMAIN y = 1..n /\ DOMAIN to = 1..m
  BY <1>0, ConcatProperties
<1>2. \A k \in 0..N : rest(k) \in Seq(STRING)
  <2> TAKE k \in 0..N
  <2>1. \A j \in (k + 1)..N : path[j] \in STRING
    <3>1. \A j \in (k + 1)..N : j \in 1..N
      BY <1>1
    <3> HIDE DEF path, N
    <3> QED BY <1>1, <3>1 DEF N
  <2>2. k + 1 \in Int /\ N \in Int
    BY <1>1
  <2> HIDE DEF path, N
  <2> QED BY <2>1, <2>2, SubSeqProperties
<1>3. rest(0) = path /\ rest(N) = <<>>
  <2>1. SubSeq(path, N + 1, N) = <<>>
    <3> HIDE DEF path, N
    <3> QED BY <1>1, SubSeqEmpty
  <2>2. SubSeq(path, 1, N) = path
    BY <1>1, SubSeqFull
  <2> QED BY <2>1, <2>2
<1>4. \A j \in 1..N : rest(j - 1) = <<path[j]>> \o rest(j)
  <2> TAKE j \in 1..N
  <2>1. N \in j..N /\ j - 1 + 1 = j
    BY <1>1
  <2>2. SubSeq(path, j, N) = <<path[j]>> \o SubSeq(path, j + 1, N)
    BY <1>1, <2>1, SubSeqRecursiveFirst
  <2> QED BY <2>1, <2>2
<1>5. \A j \in 1..N : SubSeq(path, 1, j) = Append(SubSeq(path, 1, j - 1), path[j])
  <2> TAKE j \in 1..N
  <2>1. 1 \in 1..N /\ j \in 1..N
    BY <1>1
  <2>2. SubSeq(path, 1, j) = SubSeq(path, 1, j - 1) \o <<path[j]>>
    BY <1>1, <2>1, SubSeqRecursiveSecond
  <2>3. path[j] \in STRING
    BY <1>1
  <2>4. SubSeq(path, 1, j - 1) \in Seq(STRING)
    <3>1. \A i \in 1..(j - 1) : path[i] \in STRING
      <4>1. \A i \in 1..(j - 1) : i \in 1..N
        BY <1>1
      <4> HIDE DEF path
      <4> QED BY <1>1, <4>1
    <3>2. 1 \in Int /\ j - 1 \in Int
      OBVIOUS
    <3> HIDE DEF path, N
    <3> QED BY <3>1, <3>2, SubSeqProperties
  <2> HIDE DEF path, N
  <2> QED BY <2>2, <2>3, <2>4, AppendIsConcat
<1>6. SubSeq(path, 1, n) = y /\ SubSeq(path, 1, 0) = <<>>
  <2>1. SubSeq(path, 1, 0) = <<>>
    BY SubSeqEmpty
  <2> QED BY <1>0, <2>1, PrefixOfConcat
<1> DEFINE In(k) == {a \in Seq(STRING) :
                        /\ NoUp(a) /\ W[Place(<<>>, a \o rest(k), l)] = W[Place(<<>>, path, l)]
                        /\ k <= n => a = SubSeq(path, 1, k)
                        /\ k > n /\ path[k] = ".." => IsDir(fs, a)}
           Out == {a \in Seq(STRING) : Escapes(a)}
           S == [k \in 0..N |-> In(k) \cup Out]
<1>7. <<>> \in In(0)
  <2>1. <<>> \o rest(0) = path
    BY <1>1, <1>3, ConcatEmptySeq
  <2>2. ~(0 > n) /\ NoUp(<<>>) /\ <<>> \in Seq(STRING)
    BY <1>1 DEF NoUp
  <2> HIDE DEF W, path, n, rest
  <2> QED BY <1>6, <2>1, <2>2
<1>a. <<>> \in S[0]
  <2> HIDE DEF In, Out
  <2> QED BY <1>1, <1>7
<1>8. ASSUME NEW j \in 1..N, NEW a \in S[j - 1]
      PROVE  CleanName(a, path[j]) \in S[j]
  <2>0. S[j - 1] = In(j - 1) \cup Out /\ S[j] = In(j) \cup Out
    <3> HIDE DEF In, Out
    <3> QED BY <1>1
  <2> DEFINE name == path[j]
  <2>1. name \in STRING /\ rest(j) \in Seq(STRING) /\ j \in Int /\ j - 1 \in 0..N
    BY <1>1, <1>2
  <2>2. rest(j - 1) = <<name>> \o rest(j)
    BY <1>4
  <2>3. j <= n => name # ".."
    <3> SUFFICES ASSUME j <= n PROVE name # ".."
      OBVIOUS
    <3>1. name = y[j] /\ j \in DOMAIN y
      BY <1>1
    <3> QED BY <1>0, <3>1 DEF NoUp
  <2>4. j > n + 1 /\ name = ".." => path[j - 1] = ".."
    <3> SUFFICES ASSUME j > n + 1, name = ".." PROVE path[j - 1] = ".."
      OBVIOUS
    <3>1. /\ name = to[j - n] /\ path[j - 1] = to[j - 1 - n]
          /\ j - n \in DOMAIN to /\ j - 1 - n \in DOMAIN to /\ j - 1 - n <= j - n
      <4>1. j \in 1..N /\ j - 1 \in 1..N /\ ~(j <= n) /\ ~(j - 1 <= n)
        BY <1>1
      <4> QED BY <1>1, <4>1
    <3> QED BY <3>1 DEF Plain
  <2>5. SubSeq(path, 1, j) = Append(SubSeq(path, 1, j - 1), name)
    BY <1>5
  <2> HIDE DEF S, W, path, rest, name
  <2>6. CASE a \in Out
    <3>1. CleanName(a, name) \in Out
      BY <2>1, <2>6, CleanNameIs
    <3> QED BY <2>0, <3>1 DEF name
  <2>7. CASE a \in In(j - 1)
    <3>1. /\ a \in Seq(STRING) /\ NoUp(a)
          /\ W[Place(<<>>, a \o rest(j - 1), l)] = W[Place(<<>>, path, l)]
          /\ j - 1 <= n => a = SubSeq(path, 1, j - 1)
          /\ j - 1 > n /\ path[j - 1] = ".." => IsDir(fs, a)
      BY <2>7
    <3>2. CASE name # ".."
      <4> DEFINE c == Append(a, name)
      <4>1. CleanName(a, name) = c /\ NoUp(c) /\ c \in Seq(STRING)
        BY <2>1, <3>1, <3>2, CleanNameIs, AppendProperties
      <4>2. c \o rest(j) = a \o rest(j - 1)
        <5> DEFINE B == rest(j)
        <5>1. B \in Seq(STRING)
          BY <2>1
        <5> HIDE DEF B
        <5>2. Append(a, name) \o B = a \o (<<name>> \o B)
          BY <2>1, <3>1, <5>1, AppendConcat
        <5> QED BY <2>2, <5>2 DEF B
      <4>3. j <= n => c = SubSeq(path, 1, j)
        BY <1>1, <2>1, <2>5, <3>1
      <4>4. c \in In(j)
        <5> HIDE DEF c
        <5> QED BY <3>1, <3>2, <4>1, <4>2, <4>3 DEF name
      <4> HIDE DEF In, c
      <4> QED BY <2>0, <4>1, <4>4 DEF name
    <3>3. CASE name = ".." /\ a = <<>>
      <4>1. CleanName(a, name) \in Out
        BY <2>1, <3>1, <3>3, CleanNameIs
      <4> QED BY <2>0, <4>1 DEF name
    <3>4. CASE name = ".." /\ a # <<>>
      <4> DEFINE c == Front(a)
      <4>1. j > n
        BY <1>1, <2>1, <2>3, <3>4
      <4>2. IsDir(fs, a)
        <5>1. CASE j = n + 1
          <6>1. j - 1 = n
            BY <1>1, <5>1
          <6>2. a = y
            BY <1>1, <1>6, <3>1, <6>1
          <6> QED BY <6>2
        <5>2. CASE j # n + 1
          <6>1. j > n + 1 /\ j - 1 > n
            <7>1. n \in Int /\ j \in Int
              BY <1>1, <2>1
            <7> HIDE DEF n
            <7> QED BY <4>1, <5>2, <7>1
          <6> QED BY <2>4, <3>1, <3>4, <6>1
        <5> QED BY <5>1, <5>2
      <4>3. IsDir(fs, c)
        BY <3>4, <4>2 DEF Tree, IsDir
      <4>4. CleanName(a, name) = c /\ NoUp(c) /\ c \in Seq(STRING)
        BY <2>1, <3>1, <3>4, CleanNameIs, FrontLast
      <4>5. W[Place(<<>>, c \o rest(j), l)] = W[Place(c, rest(j), l)]
        <5> HIDE DEF c
        <5> QED BY <2>1, <4>3, RealDir DEF W
      <4>6. W[Place(a, <<name>> \o rest(j), l)] = W[Place(c, rest(j), l)]
        <5>1. Typed(fs)
          BY DEF Tree
        <5> QED BY <2>1, <3>1, <3>4, <4>2, <5>1, WalkOne DEF W
      <4>7. W[Place(<<>>, a \o rest(j - 1), l)] = W[Place(a, rest(j - 1), l)]
        <5>1. rest(j - 1) \in Seq(STRING)
          BY <2>1, <2>2, OneMore
        <5> QED BY <4>2, <5>1, RealDir DEF W
      <4>8. W[Place(<<>>, c \o rest(j), l)] = W[Place(<<>>, path, l)]
        <5> HIDE DEF c
        <5> QED BY <2>2, <3>1, <4>5, <4>6, <4>7
      <4>9. c \in In(j)
        <5> HIDE DEF c
        <5>1. ~(j <= n)
          BY <1>1, <2>1, <4>1
        <5> QED BY <4>3, <4>4, <4>8, <5>1
      <4> HIDE DEF In, c
      <4> QED BY <2>0, <4>4, <4>9 DEF name
    <3> QED BY <3>2, <3>3, <3>4
  <2> HIDE DEF In, Out
  <2> QED BY <2>0, <2>6, <2>7
<1>9. Clean(path) \in S[N]
  <2> HIDE DEF S
  <2> QED BY <1>1, <1>a, <1>8, CleanInduction
<1>10. Clean(path) \in In(N)
  <2>1. S[N] = In(N) \cup Out
    <3> HIDE DEF In, Out
    <3> QED BY <1>1
  <2>2. Clean(path) \notin Out
    OBVIOUS
  <2> HIDE DEF In, S, Out
  <2> QED BY <1>9, <2>1, <2>2
<1>11. W[Place(<<>>, Clean(path), l)] = W[Place(<<>>, path, l)]
  <2> DEFINE c == Clean(path)
  <2>1. c \in Seq(STRING) /\ W[Place(<<>>, c \o rest(N), l)] = W[Place(<<>>, path, l)]
    BY <1>10
  <2> HIDE DEF c
  <2>2. c \o rest(N) = c
    BY <1>3, <2>1, ConcatEmptySeq
  <2> QED BY <2>1, <2>2 DEF c
<1>12. W[Place(<<>>, path, l)] = W[Place(y, to, l)]
  BY RealDir
<1> QED BY <1>11, <1>12

\* No link starts at the root, climbs above it, or goes back out of a
\* directory that it names.
Inward(i) ==
    \A p \in DOMAIN i : i[p].kind = "link" =>
        ~i[p].abs /\ Plain(i[p].to) /\ ~Escapes(Clean(Front(p) \o i[p].to))

\* The names still to go do not lead above the root.
Good(x) ==
    Plain(x.rest) /\ \A k \in DOMAIN x.rest : x.rest[k] = ".." => k <= Len(x.dir)

\* What is left of a plain target is plain.
LEMMA PlainTail ==
  ASSUME NEW s \in Seq(STRING), s # <<>>, Plain(s)
  PROVE  /\ Plain(Tail(s))
         /\ Head(s) # ".." => NoUp(Tail(s))
         /\ \A k \in DOMAIN Tail(s) : k + 1 \in DOMAIN s /\ Tail(s)[k] = s[k + 1]
<1> DEFINE t == Tail(s)  n == Len(s)
<1>1. /\ t \in Seq(STRING) /\ Len(t) = n - 1 /\ n \in Nat /\ n > 0
      /\ \A k \in 1..Len(t) : t[k] = s[k + 1]
  BY HeadTail, HeadTailProperties
<1>2. DOMAIN t = 1..(n - 1) /\ DOMAIN s = 1..n /\ Head(s) = s[1]
  BY <1>1
<1> HIDE DEF t, n
<1>3. \A k \in DOMAIN t : k + 1 \in DOMAIN s /\ t[k] = s[k + 1]
  BY <1>1, <1>2
<1>4. Plain(t)
  <2>1. \A j, k \in DOMAIN t : j <= k => j + 1 <= k + 1
    BY <1>1, <1>2
  <2> QED BY <1>3, <2>1 DEF Plain
<1>5. ASSUME Head(s) # ".." PROVE NoUp(t)
  <2>1. \A k \in DOMAIN t : 1 \in DOMAIN s /\ 1 <= k + 1
    BY <1>1, <1>2
  <2> QED BY <1>2, <1>3, <1>5, <2>1 DEF Plain, NoUp
<1> QED BY <1>3, <1>4, <1>5 DEF t

\* A plain target before the names still to go.
LEMMA PlainConcat ==
  ASSUME NEW s \in Seq(STRING), Plain(s), NEW t \in Seq(STRING), NoUp(t), NEW n \in Nat,
         \A k \in 1..Len(s) : s[k] = ".." => k <= n
  PROVE  /\ Plain(s \o t)
         /\ \A k \in DOMAIN (s \o t) : (s \o t)[k] = ".." => k <= n
<1> DEFINE c == s \o t
<1>1. /\ c \in Seq(STRING) /\ DOMAIN c = 1..(Len(s) + Len(t))
      /\ Len(s) \in Nat /\ Len(t) \in Nat /\ DOMAIN s = 1..Len(s) /\ DOMAIN t = 1..Len(t)
      /\ \A k \in 1..(Len(s) + Len(t)) : c[k] = IF k <= Len(s) THEN s[k] ELSE t[k - Len(s)]
  BY ConcatProperties
<1> HIDE DEF c
<1>2. \A k \in DOMAIN c : c[k] = ".." => k \in DOMAIN s /\ s[k] = ".."
  <2> SUFFICES ASSUME NEW k \in DOMAIN c, c[k] = ".." PROVE k \in DOMAIN s /\ s[k] = ".."
    OBVIOUS
  <2>1. CASE k <= Len(s)
    BY <1>1, <2>1
  <2>2. CASE ~(k <= Len(s))
    <3>1. k - Len(s) \in DOMAIN t /\ c[k] = t[k - Len(s)]
      BY <1>1, <2>2
    <3> QED BY <3>1 DEF NoUp
  <2> QED BY <2>1, <2>2
<1>3. Plain(c)
  <2> SUFFICES ASSUME NEW j \in DOMAIN c, NEW k \in DOMAIN c, c[k] = "..", j <= k
               PROVE  c[j] = ".."
    BY DEF Plain
  <2>1. k \in DOMAIN s /\ s[k] = ".."
    BY <1>2
  <2>2. j \in DOMAIN s /\ c[j] = s[j]
    BY <1>1, <2>1
  <2> QED BY <2>1, <2>2 DEF Plain
<1> QED BY <1>1, <1>2, <1>3 DEF c

\* In an image with such links only, what the host finds below the image is
\* found by a walk that stays in it.
LEMMA HostIsRelative ==
  ASSUME NEW i, Tree(i), Inward(i), NEW fs, Typed(fs), NEW r \in Seq(STRING), Holds(fs, r, i),
         None \notin Seq(STRING), NEW x \in Position, Good(x),
         Walks(fs, <<>>)[Place(r \o x.dir, x.rest, x.links)] # None
  PROVE  Walks(i, None)[x] # None
<1> DEFINE R == Walks(i, None)  C == Walks(fs, <<>>)
           B(y) == Place(r \o y.dir, y.rest, y.links)
           S == {y \in Position : Good(y) /\ C[B(y)] # None => R[y] # None}
<1>0. None \in Tops /\ <<>> \in Tops /\ Typed(i)
  BY DEF Tops, Tree
<1>a. ASSUME NEW y \in Position
      PROVE  B(y) \in Position /\ B(y).dir = r \o y.dir /\ B(y).rest = y.rest /\ B(y).links = y.links
  <2>1. y.dir \in Seq(STRING) /\ y.rest \in Seq(STRING) /\ y.links \in Nat
    BY PositionIs
  <2>2. r \o y.dir \in Seq(STRING)
    BY <2>1, ConcatProperties
  <2> QED BY <2>1, <2>2 DEF Place, Position
<1>1. ASSUME NEW y \in Position, \A z \in Position : Steps(i, None, y, z) => z \in S,
             Good(y), C[B(y)] # None
      PROVE  R[y] # None
  <2>0. y.dir \in Seq(STRING) /\ y.rest \in Seq(STRING) /\ y.links \in Nat
    BY PositionIs
  <2>1. CASE y.rest = <<>>
    <3>1. R[y] = y.dir
      BY <1>0, <2>1, WalkSteps
    <3> QED BY <2>0, <3>1
  <2>2. CASE y.rest # <<>>
    <3> DEFINE h == Head(y.rest)  t == Tail(y.rest)  p == Append(y.dir, h)
    <3>1. PICK v \in Position : Steps(fs, <<>>, B(y), v)
      <4>1. B(y) \in Position /\ B(y).rest # <<>>
        BY <1>a, <2>2
      <4> HIDE DEF B
      <4> QED BY <1>0, <1>1, <4>1, WalkSteps
    <3>2. C[v] # None
      <4>1. C[B(y)] = C[v]
        <5>1. B(y) \in Position
          BY <1>a
        <5> HIDE DEF B
        <5> QED BY <1>0, <3>1, <5>1, WalkSteps
      <4> QED BY <1>1, <4>1
    <3>3. h \in STRING /\ t \in Seq(STRING)
      BY <2>0, <2>2, HeadTail
    <3>4. IsDir(i, y.dir)
      <4>1. At(fs, r \o y.dir) = Directory /\ Directory # None
        BY <1>a, <3>1 DEF Steps, IsDir, At, Typed
      <4>2. At(i, y.dir) = Directory
        BY <2>0, <4>1 DEF Holds
      <4> QED BY <4>1, <4>2 DEF IsDir, At
    <3>5. Append(r \o y.dir, h) = r \o p /\ p \in Seq(STRING)
      <4> HIDE DEF h
      <4> QED BY <2>0, <3>3, BelowAppend, AppendProperties
    <3>6. r \o p \in DOMAIN fs => p \in DOMAIN i /\ i[p] = fs[r \o p]
      <4> SUFFICES ASSUME r \o p \in DOMAIN fs PROVE p \in DOMAIN i /\ i[p] = fs[r \o p]
        OBVIOUS
      <4>1. At(fs, r \o p) = fs[r \o p] /\ fs[r \o p] # None
        BY DEF At, Typed
      <4>2. At(i, p) = fs[r \o p]
        BY <3>5, <4>1 DEF Holds
      <4> QED BY <4>1, <4>2 DEF At
    <3>7. /\ Plain(t) /\ (h # ".." => NoUp(t)) /\ h = y.rest[1] /\ 1 \in DOMAIN y.rest
          /\ \A k \in DOMAIN t : k + 1 \in DOMAIN y.rest /\ t[k] = y.rest[k + 1]
      <4>1. Plain(y.rest)
        BY <1>1 DEF Good
      <4>2. h = y.rest[1] /\ 1 \in DOMAIN y.rest
        BY <2>0, <2>2
      <4> QED BY <2>0, <2>2, <4>1, <4>2, PlainTail
    <3>8. \A k \in DOMAIN y.rest : y.rest[k] = ".." => k <= Len(y.dir)
      BY <1>1 DEF Good
    <3>9. \E z \in Position : Steps(i, None, y, z) /\ v = B(z) /\ Good(z)
      <4>1. CASE GoesUp(<<>>, B(y), v)
        <5>1. h = ".." /\ v = Place(IF r \o y.dir = <<>> THEN r \o y.dir ELSE Front(r \o y.dir), t, y.links)
          BY <1>a, <4>1 DEF GoesUp, Place
        <5>2. y.dir # <<>>
          <6>1. 1 <= Len(y.dir)
            BY <3>7, <3>8, <5>1
          <6> QED BY <6>1
        <5> DEFINE z == Place(Front(y.dir), t, y.links)
        <5>3. Front(y.dir) \in Seq(STRING) /\ Len(Front(y.dir)) = Len(y.dir) - 1
          BY <2>0, <5>2, FrontLast
        <5>4. z \in Position /\ z.dir = Front(y.dir) /\ z.rest = t /\ z.links = y.links
          BY <2>0, <3>3, <5>3 DEF Place, Position
        <5>5. v = B(z)
          <6>1. r \o y.dir # <<>> /\ Front(r \o y.dir) = r \o Front(y.dir)
            BY <2>0, <5>2, BelowFront
          <6> HIDE DEF z, h, t
          <6> QED BY <5>1, <5>4, <6>1
        <5>6. Steps(i, None, y, z)
          <6>1. y.dir # None
            BY <2>0
          <6>2. GoesUp(None, y, z)
            BY <5>1, <5>2, <6>1 DEF GoesUp, Place
          <6> QED BY <2>2, <3>4, <6>2 DEF Steps
        <5>7. Good(z)
          <6>1. ASSUME NEW k \in DOMAIN t, t[k] = ".." PROVE k <= Len(Front(y.dir))
            <7>1. k + 1 <= Len(y.dir) /\ k \in Int /\ Len(y.dir) \in Int
              <8>1. k \in Int /\ Len(y.dir) \in Int
                BY <2>0, <3>3
              <8> HIDE DEF t
              <8> QED BY <3>7, <3>8, <6>1, <8>1
            <7> QED BY <5>3, <7>1
          <6> HIDE DEF z, t
          <6> QED BY <3>7, <5>4, <6>1 DEF Good
        <5> QED BY <5>4, <5>5, <5>6, <5>7
      <4>2. CASE Enters(fs, B(y), v)
        <5>1. /\ h # ".." /\ r \o p \in DOMAIN fs /\ fs[r \o p].kind # "link"
              /\ v = Place(r \o p, t, y.links)
          BY <1>a, <3>5, <4>2 DEF Enters, Place
        <5> DEFINE z == Place(p, t, y.links)
        <5>2. z \in Position /\ z.dir = p /\ z.rest = t /\ z.links = y.links
          BY <2>0, <3>3, <3>5 DEF Place, Position
        <5>3. v = B(z)
          BY <5>1, <5>2
        <5>4. Steps(i, None, y, z)
          <6>1. Enters(i, y, z)
            BY <3>6, <5>1 DEF Enters, Place
          <6> QED BY <2>2, <3>4, <6>1 DEF Steps
        <5>5. Good(z)
          <6> HIDE DEF z, t
          <6> QED BY <3>7, <5>1, <5>2 DEF Good, NoUp
        <5> QED BY <5>2, <5>3, <5>4, <5>5
      <4>3. CASE Follows(fs, <<>>, B(y), v)
        <5> DEFINE n == i[p]
        <5>1. /\ h # ".." /\ p \in DOMAIN i /\ n.kind = "link" /\ y.links # 0
              /\ n.abs \in BOOLEAN /\ n.to \in Seq(STRING)
              /\ v = Place(IF n.abs THEN <<>> ELSE r \o y.dir, n.to \o t, y.links - 1)
          BY <1>a, <3>5, <3>6, <4>3 DEF Follows, Place
        <5>2. ~n.abs /\ Plain(n.to) /\ ~Escapes(Clean(y.dir \o n.to))
          <6>1. Front(p) = y.dir
            <7> HIDE DEF h
            <7> QED BY <2>0, <3>3, FrontOfAppend
          <6> QED BY <5>1, <6>1 DEF Inward
        <5> DEFINE z == Place(y.dir, n.to \o t, y.links - 1)
        <5>3. n.to \o t \in Seq(STRING) /\ y.links - 1 \in Nat
          <6> DEFINE to == n.to
          <6>1. to \in Seq(STRING)
            BY <5>1
          <6> HIDE DEF to, t
          <6>2. to \o t \in Seq(STRING)
            BY <3>3, <6>1, ConcatProperties
          <6> QED BY <2>0, <5>1, <6>2 DEF to
        <5>4. z \in Position /\ z.dir = y.dir /\ z.rest = n.to \o t /\ z.links = y.links - 1
          <6> HIDE DEF n, t
          <6> QED BY <2>0, <5>3 DEF Place, Position
        <5>5. v = B(z)
          BY <5>1, <5>2, <5>4
        <5>6. Steps(i, None, y, z)
          <6>1. Follows(i, None, y, z)
            BY <5>1, <5>2 DEF Follows, Place
          <6> QED BY <2>2, <3>4, <6>1 DEF Steps
        <5>7. Good(z)
          <6>0. NoUp(y.dir)
            BY <3>4 DEF Tree, IsDir
          <6> DEFINE to == n.to
          <6>1. to \in Seq(STRING) /\ Plain(to) /\ ~Escapes(Clean(y.dir \o to))
            BY <5>1, <5>2
          <6> HIDE DEF to, t
          <6>2. \A k \in 1..Len(to) : to[k] = ".." => k <= Len(y.dir)
            BY <2>0, <6>0, <6>1, UpsBounded
          <6>3. NoUp(t) /\ Len(y.dir) \in Nat
            BY <2>0, <3>7, <5>1
          <6>4. /\ Plain(to \o t)
                /\ \A k \in DOMAIN (to \o t) : (to \o t)[k] = ".." => k <= Len(y.dir)
            BY <3>3, <6>1, <6>2, <6>3, PlainConcat
          <6>5. z.dir = y.dir /\ z.rest = to \o t
            BY <5>4 DEF to
          <6> HIDE DEF z
          <6> QED BY <6>4, <6>5 DEF Good
        <5> QED BY <5>4, <5>5, <5>6, <5>7
      <4> QED BY <3>1, <4>1, <4>2, <4>3 DEF Steps
    <3>10. PICK z \in Position : Steps(i, None, y, z) /\ v = B(z) /\ Good(z)
      BY <3>9
    <3>11. R[z] # None
      BY <1>1, <3>2, <3>10
    <3>12. R[y] = R[z]
      BY <1>0, <3>10, WalkSteps
    <3> QED BY <3>11, <3>12
  <2> QED BY <2>1, <2>2
<1>2. \A y \in Position : y \in S
  <2>1. \A y \in Position : (\A z \in Position : Steps(i, None, y, z) => z \in S) => y \in S
    BY <1>1
  <2> HIDE DEF S
  <2> QED BY <1>0, <2>1, StepInduction
<1> QED BY <1>2

-------------------------------------------------------------------------------
(* The image on the disk.                                                    *)

\* None is neither a path nor a node.
LEMMA NoneIsNoPath == None \notin Seq(STRING) /\ None # Directory
BY PathAssumption

\* Every image is a tree (PathAssumption).
LEMMA ImageIsTree ==
  ASSUME image \in Images
  PROVE  Tree(image)
<1>1. /\ DOMAIN image \subseteq Seq(STRING)
      /\ <<>> \in DOMAIN image /\ image[<<>>] = Directory
      /\ \A p \in DOMAIN image :
            /\ image[p] # None /\ \A k \in DOMAIN p : p[k] # ".."
            /\ p # <<>> => Front(p) \in DOMAIN image /\ image[Front(p)] = Directory
            /\ \/ image[p] = Directory
               \/ image[p].kind = "link" /\ image[p].abs \in BOOLEAN /\ image[p].to \in Seq(STRING)
               \/ image[p].kind = "file"
  BY PathAssumption
<1>2. Typed(image)
  BY <1>1, NoneIsNoPath DEF Typed
<1>3. \A p \in DOMAIN image : p \in Seq(STRING)
  BY <1>1
<1> QED BY <1>1, <1>2, <1>3 DEF Tree, IsDir, NoUp

\* What the host has below the image's directory is the image.
LEMMA DiskHolds ==
  ASSUME image \in Images, host \in SUBSET HostFiles, root \in {Staging, Package}
  PROVE  /\ root \in Seq(STRING)
         /\ Typed(Disk) /\ Holds(Disk, root, image)
<1>1. root \in Seq(STRING)
  BY PathAssumption
<1>2. \A p \in HostDirs \cup host : ~IsPrefix(root, p)
  BY PathAssumption
<1>3. Tree(image) /\ DOMAIN image \subseteq Seq(STRING)
  BY ImageIsTree DEF Tree
<1>4. ASSUME NEW q \in Seq(STRING)
      PROVE  IsPrefix(root, root \o q) /\ SubSeq(root \o q, Len(root) + 1, Len(root \o q)) = q
  <2> DEFINE n == Len(root)  m == Len(q)  c == root \o q
  <2>1. n \in Nat /\ m \in Nat /\ c \in Seq(STRING) /\ Len(c) = n + m
        /\ \A k \in 1..(n + m) : c[k] = IF k <= n THEN root[k] ELSE q[k - n]
    BY <1>1, ConcatProperties
  <2>2. SubSeq(c, 1, n) = root /\ SubSeq(root, 1, n) = root
    BY <1>1, PrefixOfConcat, SubSeqFull
  <2>3. SubSeq(c, n + 1, n + m) = q
    <3> DEFINE s == SubSeq(c, n + 1, n + m)
    <3>1. \A k \in (n + 1)..(n + m) : c[k] \in STRING
      <4>1. \A k \in (n + 1)..(n + m) : k \in 1..Len(c)
        BY <2>1
      <4> HIDE DEF c, n, m
      <4> QED BY <2>1, <4>1
    <3>2. n + 1 \in Int /\ n + m \in Int
      BY <2>1
    <3>3. /\ s \in Seq(STRING)
          /\ Len(s) = IF n + 1 <= n + m THEN (n + m) - (n + 1) + 1 ELSE 0
          /\ \A k \in 1..((n + m) - (n + 1) + 1) : s[k] = c[(n + 1) + k - 1]
      <4> HIDE DEF c, n, m
      <4> QED BY <3>1, <3>2, SubSeqProperties
    <3> HIDE DEF s
    <3>4. Len(s) = m
      BY <2>1, <3>3
    <3>5. \A k \in 1..m : s[k] = q[k]
      <4> TAKE k \in 1..m
      <4>1. k \in 1..((n + m) - (n + 1) + 1) /\ (n + 1) + k - 1 = n + k
        BY <2>1
      <4>2. n + k \in 1..(n + m) /\ ~(n + k <= n) /\ n + k - n = k
        BY <2>1
      <4> HIDE DEF c, n, m
      <4> QED BY <2>1, <3>3, <4>1, <4>2
    <3>6. s = q
      BY <3>3, <3>4, <3>5, SeqEqual
    <3> QED BY <3>6 DEF s
  <2>4. n <= Len(c)
    BY <2>1
  <2> HIDE DEF c, n, m
  <2> QED BY <2>1, <2>2, <2>3, <2>4 DEF IsPrefix, c, n, m
<1>5. ASSUME NEW q \in Seq(STRING)
      PROVE  /\ root \o q \in DOMAIN Disk <=> q \in DOMAIN image
             /\ q \in DOMAIN image => Disk[root \o q] = image[q]
  <2>1. root \o q \notin HostDirs \cup host
    BY <1>2, <1>4
  <2>2. ASSUME NEW p \in DOMAIN image, root \o q = root \o p PROVE q = p
    BY <1>1, <1>3, <2>2, ConcatSimplifications
  <2>3. root \o q \in DOMAIN Disk <=> q \in DOMAIN image
    BY <2>1, <2>2 DEF Disk
  <2>4. ASSUME q \in DOMAIN image PROVE Disk[root \o q] = image[q]
    BY <1>4, <2>4 DEF Disk
  <2> QED BY <2>3, <2>4
<1>6. Holds(Disk, root, image)
  BY <1>5 DEF Holds, At
<1>7. Typed(Disk)
  <2>1. Typed(image)
    BY <1>3 DEF Tree
  <2> SUFFICES ASSUME NEW p \in DOMAIN Disk
               PROVE  /\ Disk[p] # None
                      /\ \/ Disk[p] = Directory
                         \/ Disk[p].kind = "link" /\ Disk[p].abs \in BOOLEAN /\ Disk[p].to \in Seq(STRING)
                         \/ Disk[p].kind = "file"
    BY NoneIsNoPath DEF Typed
  <2>2. CASE p \in HostDirs \cup host
    <3>1. Disk[p] = Directory \/ Disk[p] = HostFile
      BY <1>2, <2>2 DEF Disk
    <3>2. HostFile.kind = "file" /\ None # HostFile
      BY PathAssumption DEF HostFile
    <3> QED BY <3>1, <3>2, NoneIsNoPath
  <2>3. CASE p \notin HostDirs \cup host
    <3>1. PICK q \in DOMAIN image : p = root \o q
      BY <2>3 DEF Disk
    <3>2. Disk[p] = image[q]
      BY <1>3, <1>5, <3>1
    <3> QED BY <2>1, <3>2 DEF Typed
  <2> QED BY <2>2, <2>3
<1> QED BY <1>1, <1>6, <1>7

\* Where relative links lead, the container and the host agree.
LEMMA RelativeAgrees ==
  ASSUME image \in Images, host \in SUBSET HostFiles, root \in {Staging, Package},
         NEW path \in Seq(STRING), Relative(path) # None
  PROVE  /\ Relative(path) \in Seq(STRING)
         /\ InContainer(path, MaxLinks) = Relative(path)
         /\ OnHost(path) = root \o Relative(path)
<1> DEFINE x == Place(<<>>, path, MaxLinks)
<1>1. x \in Position /\ x.dir = <<>> /\ x.rest = path /\ x.links = MaxLinks
  <2>1. <<>> \in Seq(STRING) /\ MaxLinks \in Nat
    BY PathAssumption
  <2> QED BY <2>1 DEF Place, Position
<1>2. Relative(path) = Walks(image, None)[x] /\ InContainer(path, MaxLinks) = Walks(image, <<>>)[x]
  BY DEF Relative, InContainer, Walk, Place
<1>3. OnHost(path) = Walks(Disk, <<>>)[Place(root \o <<>>, path, MaxLinks)]
  <2>1. root \o <<>> = root
    BY DiskHolds, ConcatEmptySeq
  <2> QED BY <2>1 DEF OnHost, Walk, Place
<1>4. Typed(image) /\ None \in Tops
  BY ImageIsTree DEF Tree, Tops
<1> HIDE DEF x
<1>5. Relative(path) \in Seq(STRING)
  BY <1>1, <1>2, <1>4, Compose
<1>6. InContainer(path, MaxLinks) = Relative(path)
  BY <1>1, <1>2, <1>4, NoneIsNoPath, RelativeInContainer
<1>7. Walks(Disk, <<>>)[Place(root \o x.dir, x.rest, x.links)] = root \o Walks(image, None)[x]
  BY <1>1, <1>2, <1>4, NoneIsNoPath, RelativeOnHost, DiskHolds
<1> QED BY <1>1, <1>2, <1>3, <1>5, <1>6, <1>7

\* A walk along A and then B, when the walk along A leads to d.
Splits(W, d, A, B, l) ==
    \/ d = None /\ \A b \in 0..l : W[Place(<<>>, A \o B, b)] = None
    \/ /\ d \in Seq(STRING)
       /\ \E u \in 0..l : \A b \in Nat :
             W[Place(<<>>, A \o B, b)] = IF b < u THEN None ELSE W[Place(d, B, b - u)]

\* A walk along a path in two parts.
LEMMA WalkSplit ==
  ASSUME NEW fs, Typed(fs), NEW top \in Tops, NEW A \in Seq(STRING), NEW B \in Seq(STRING),
         NEW l \in Nat, NEW W, W = Walks(fs, top), NEW d, d = W[Place(<<>>, A, l)]
  PROVE  Splits(W, d, A, B, l)
<1> DEFINE x == Place(<<>>, A, l)
<1>1. x \in Position /\ x.dir = <<>> /\ x.rest = A /\ x.links = l
  <2>1. <<>> \in Seq(STRING)
    OBVIOUS
  <2> QED BY <2>1 DEF Place, Position
<1>2. \A b : Longer(x, B, b) = Place(<<>>, A \o B, b)
  BY <1>1 DEF Longer
<1>3. \/ d = None /\ Stuck(W, x)
      \/ d \in Seq(STRING) /\ \E u \in 0..l : Leads(W, x, d, u)
  <2>1. d = W[x]
    OBVIOUS
  <2> HIDE DEF x
  <2>2. \/ W[x] = None /\ Stuck(W, x)
        \/ W[x] \in Seq(STRING) /\ \E u \in 0..x.links : Leads(W, x, W[x], u)
    BY <1>1, Compose
  <2> QED BY <1>1, <2>1, <2>2
<1> HIDE DEF x
<1>4. CASE d = None /\ Stuck(W, x)
  BY <1>1, <1>2, <1>4 DEF Splits, Stuck, x
<1>5. CASE d \in Seq(STRING) /\ \E u \in 0..l : Leads(W, x, d, u)
  <2>1. PICK u \in 0..l : Leads(W, x, d, u)
    BY <1>5
  <2>2. \A b \in Nat : W[Place(<<>>, A \o B, b)] = IF b < u THEN None ELSE W[Place(d, B, b - u)]
    BY <1>2, <2>1 DEF Leads
  <2> QED BY <1>5, <2>2 DEF Splits
<1> QED BY <1>3, <1>4, <1>5

\* Where a walk along one name h from d leads to, with p behind it.
Goes(W, fs, top, d, h, p, c) ==
    /\ ~(IsDir(fs, d) /\ p \in DOMAIN fs) => W[Place(d, <<h>>, c)] = None
    /\ IsDir(fs, d) /\ p \in DOMAIN fs /\ fs[p].kind # "link" => W[Place(d, <<h>>, c)] = p
    /\ IsDir(fs, d) /\ p \in DOMAIN fs /\ fs[p].kind = "link" =>
          W[Place(d, <<h>>, c)] = IF c = 0 \/ (fs[p].abs /\ top = None) THEN None
                                ELSE W[Place(IF fs[p].abs THEN top ELSE d, fs[p].to, c - 1)]

\* The last name of a path.
LEMMA WalkLast ==
  ASSUME NEW fs, Typed(fs), NEW top \in Tops, NEW d \in Seq(STRING),
         NEW h \in STRING, h # "..", NEW c \in Nat,
         NEW W, W = Walks(fs, top), NEW p, p = Append(d, h)
  PROVE  Goes(W, fs, top, d, h, p, c)
<1> DEFINE x == Place(d, <<h>>, c)
<1>1. /\ x \in Position /\ x.dir = d /\ x.links = c
      /\ x.rest # <<>> /\ Head(x.rest) = h /\ Tail(x.rest) = <<>>
  <2>1. <<h>> \in Seq(STRING) /\ <<h>> # <<>> /\ Head(<<h>>) = h /\ Tail(<<h>>) = <<>>
    BY OneIsSeq
  <2> DEFINE r == <<h>>
  <2>2. x = Place(d, r, c) /\ r \in Seq(STRING) /\ r # <<>> /\ Head(r) = h /\ Tail(r) = <<>>
    BY <2>1
  <2> HIDE DEF r, x
  <2> QED BY <2>2, PlaceIs
<1>2. /\ \A y : Steps(fs, top, x, y) => y \in Position /\ W[x] = W[y]
      /\ W[x] = None \/ \E y \in Position : Steps(fs, top, x, y)
  <2> HIDE DEF x
  <2> QED BY <1>1, WalkSteps
<1>3. \A y \in Position : y.rest = <<>> => W[y] = y.dir
  BY WalkSteps
<1> HIDE DEF x
<1>4. \A y : ~GoesUp(top, x, y)
  BY <1>1 DEF GoesUp
<1>5. ASSUME ~(IsDir(fs, d) /\ p \in DOMAIN fs) PROVE W[x] = None
  <2>1. \A y : ~Steps(fs, top, x, y)
    BY <1>1, <1>4, <1>5 DEF Steps, Enters, Follows
  <2> QED BY <1>2, <2>1
<1>6. ASSUME IsDir(fs, d), p \in DOMAIN fs, fs[p].kind # "link" PROVE W[x] = p
  <2> DEFINE y == Place(p, <<>>, c)
  <2>1. Enters(fs, x, y)
    BY <1>1, <1>6 DEF Enters, Place
  <2>2. Steps(fs, top, x, y)
    BY <1>1, <1>6, <2>1 DEF Steps
  <2>3. y \in Position /\ W[x] = W[y] /\ y.rest = <<>> /\ y.dir = p
    BY <1>2, <2>2 DEF Place
  <2> QED BY <1>3, <2>3
<1>7. ASSUME IsDir(fs, d), p \in DOMAIN fs, fs[p].kind = "link"
      PROVE  W[x] = IF c = 0 \/ (fs[p].abs /\ top = None) THEN None
                    ELSE W[Place(IF fs[p].abs THEN top ELSE d, fs[p].to, c - 1)]
  <2> DEFINE n == fs[p]
  <2>0. n.abs \in BOOLEAN /\ n.to \in Seq(STRING)
    BY <1>7 DEF Typed, Directory
  <2>1. \A y : ~Enters(fs, x, y)
    BY <1>1, <1>7 DEF Enters
  <2>2. CASE c = 0 \/ (n.abs /\ top = None)
    <3>1. \A y : ~Follows(fs, top, x, y)
      BY <1>1, <2>2 DEF Follows
    <3>2. \A y : ~Steps(fs, top, x, y)
      BY <1>4, <2>1, <3>1 DEF Steps
    <3> QED BY <1>2, <2>2, <3>2
  <2>3. CASE c # 0 /\ (n.abs => top # None)
    <3> DEFINE y == Place(IF n.abs THEN top ELSE d, n.to, c - 1)
    <3>1. n.to \o <<>> = n.to
      BY <2>0, ConcatEmptySeq
    <3>2. Follows(fs, top, x, y)
      <4>1. y = [dir |-> IF n.abs THEN top ELSE d, rest |-> n.to \o <<>>, links |-> c - 1]
        BY <3>1 DEF Place
      <4> HIDE DEF y
      <4> QED BY <1>1, <1>7, <2>0, <2>3, <4>1 DEF Follows
    <3>3. Steps(fs, top, x, y)
      BY <1>1, <1>7, <3>2 DEF Steps
    <3>4. W[x] = W[y]
      BY <1>2, <3>3
    <3> QED BY <2>3, <3>4
  <2> QED BY <2>2, <2>3
<1> QED BY <1>5, <1>6, <1>7 DEF Goes, x

-------------------------------------------------------------------------------
(* What Build sees, and where it goes on to.                                 *)

\* What Build sees at a path, when its directory is where a container finds it.
Found(path, n) ==
    \/ n = None /\ \A b \in 0..MaxLinks : InContainer(path, b) = None
    \/ LET y == Relative(Front(path))
           p == Append(y, Last(path))
       IN /\ n # None /\ y \in Seq(STRING) /\ IsDir(image, y)
          /\ p \in DOMAIN image /\ n = image[p]
          /\ n.kind = "link" => Plain(n.to) /\ (~n.abs => y = Front(path))

\* What a container finds, as walks.
LEMMA InContainerIs ==
  /\ \A path, b : InContainer(path, b) = Walks(image, <<>>)[Place(<<>>, path, b)]
  /\ \A path : Relative(path) = Walks(image, None)[Place(<<>>, path, MaxLinks)]
BY DEF InContainer, Relative, Walk, Place

\* os.Lstat of a straight directory sees what the image has there.
LEMMA LstatFinds ==
  ASSUME image \in Images, host \in SUBSET HostFiles, root \in {Staging, Package},
         current \in Seq(STRING), current # <<>>, NoUp(current),
         NEW dir, NEW n, n = Lstat(current, dir), Straight(dir, n)
  PROVE  Found(current, n)
<1> DEFINE F == Front(current)  h == Last(current)  y == Relative(F)  C == Walks(image, <<>>)
<1>1. F \in Seq(STRING) /\ h \in STRING /\ current = Append(F, h)
  BY FrontLast
<1>2. h # ".."
  <2>1. Len(current) \in DOMAIN current
    BY FrontLast
  <2> QED BY <2>1 DEF NoUp, Last
<1>3. /\ dir = Below(InContainer(F, MaxLinks)) /\ dir = Below(y)
      /\ n # None /\ n.kind = "link" => Plain(n.to) /\ (~n.abs => dir = root \o F)
  BY DEF Straight
<1>4. /\ Typed(image) /\ Typed(Disk) /\ Holds(Disk, root, image) /\ root \in Seq(STRING)
      /\ <<>> \in Tops /\ None \in Tops /\ MaxLinks \in Nat
  BY ImageIsTree, DiskHolds, PathAssumption DEF Tree, Tops
<1>5. n = IF dir = None \/ At(Disk, dir) # Directory THEN None
          ELSE At(Disk, Append(dir, h))
  BY DEF Lstat
<1>6. current = F \o <<h>> /\ <<h>> \in Seq(STRING)
  BY <1>1, AppendIsConcat, OneIsSeq
<1> HIDE DEF F, h
<1> DEFINE d == C[Place(<<>>, F, MaxLinks)]
<1>7. \/ d = None /\ \A b \in 0..MaxLinks : C[Place(<<>>, F \o <<h>>, b)] = None
      \/ /\ d \in Seq(STRING)
         /\ \E u \in 0..MaxLinks : \A b \in Nat :
               C[Place(<<>>, F \o <<h>>, b)] = IF b < u THEN None ELSE C[Place(d, <<h>>, b - u)]
  <2> DEFINE B == <<h>>
  <2>1. B \in Seq(STRING)
    BY <1>6
  <2> HIDE DEF B
  <2>2. \/ d = None /\ \A b \in 0..MaxLinks : C[Place(<<>>, F \o B, b)] = None
        \/ /\ d \in Seq(STRING)
           /\ \E u \in 0..MaxLinks : \A b \in Nat :
                 C[Place(<<>>, F \o B, b)] = IF b < u THEN None ELSE C[Place(d, B, b - u)]
    <3>1. Splits(C, d, F, B, MaxLinks)
      BY <1>1, <1>4, <2>1, WalkSplit
    <3> QED BY <3>1 DEF Splits
  <2> QED BY <2>2 DEF B
<1>8. d = InContainer(F, MaxLinks) /\ \A b : InContainer(current, b) = C[Place(<<>>, F \o <<h>>, b)]
  BY <1>6, InContainerIs
<1> HIDE DEF C, d
<1>9. CASE y = None
  <2>1. dir = None /\ n = None
    BY <1>3, <1>5, <1>9 DEF Below
  <2>2. d = None
    <3>1. d # None => root \o d \in Seq(STRING)
      BY <1>4, <1>7, ConcatProperties
    <3> QED BY <1>3, <1>8, <2>1, <3>1, NoneIsNoPath DEF Below
  <2>3. \A b \in 0..MaxLinks : InContainer(current, b) = None
    BY <1>7, <1>8, <2>2, NoneIsNoPath
  <2> QED BY <2>1, <2>3 DEF Found
<1>10. CASE y # None
  <2>1. y \in Seq(STRING) /\ d = y
    BY <1>1, <1>8, <1>10, RelativeAgrees
  <2>2. dir = root \o y /\ dir # None /\ root \o y \in Seq(STRING)
    <3>1. root \o y \in Seq(STRING)
      BY <1>4, <2>1, ConcatProperties
    <3> QED BY <1>3, <1>10, <3>1, NoneIsNoPath DEF Below
  <2> DEFINE p == Append(y, h)
  <2>3. p \in Seq(STRING) /\ Append(dir, h) = root \o p
    <3> HIDE DEF y
    <3> QED BY <1>1, <1>4, <2>1, <2>2, BelowAppend, AppendProperties
  <2>4. n = IF At(image, y) # Directory THEN None ELSE At(image, p)
    <3>1. At(Disk, dir) = At(image, y) /\ At(Disk, Append(dir, h)) = At(image, p)
      <4> HIDE DEF y, p
      <4> QED BY <1>4, <2>1, <2>2, <2>3 DEF Holds
    <3> QED BY <1>5, <2>2, <3>1
  <2>5. IsDir(image, y) <=> At(image, y) = Directory
    BY NoneIsNoPath DEF IsDir, At
  <2>6. p \in DOMAIN image <=> At(image, p) # None
    BY <1>4 DEF Typed, At
  <2> HIDE DEF y, p
  <2>7. CASE n = None
    <3>1. ~(IsDir(image, y) /\ p \in DOMAIN image)
      BY <2>4, <2>5, <2>6, <2>7
    <3>2. \A c \in Nat : C[Place(y, <<h>>, c)] = None
      <4> TAKE c \in Nat
      <4>1. C = Walks(image, <<>>) /\ p = Append(y, h)
        BY DEF C, p
      <4>2. Goes(C, image, <<>>, y, h, p, c)
        BY <1>1, <1>2, <1>4, <2>1, <4>1, WalkLast
      <4> QED BY <3>1, <4>2 DEF Goes
    <3>3. \A b \in 0..MaxLinks : InContainer(current, b) = None
      <4> TAKE b \in 0..MaxLinks
      <4>1. PICK u \in 0..MaxLinks : \A c \in Nat :
               C[Place(<<>>, F \o <<h>>, c)] = IF c < u THEN None ELSE C[Place(d, <<h>>, c - u)]
        BY <1>7, <2>1, NoneIsNoPath
      <4>2. b \in Nat /\ (~(b < u) => b - u \in Nat)
        BY <1>4
      <4> QED BY <1>8, <2>1, <3>2, <4>1, <4>2
    <3> QED BY <2>7, <3>3 DEF Found
  <2>8. CASE n # None
    <3>1. IsDir(image, y) /\ p \in DOMAIN image /\ n = image[p]
      BY <2>4, <2>5, <2>6, <2>8 DEF At
    <3>2. ASSUME n.kind = "link" PROVE Plain(n.to) /\ (~n.abs => y = F)
      <4>1. Plain(n.to) /\ (~n.abs => root \o y = root \o F)
        BY <1>3, <2>2, <2>8, <3>2
      <4> QED BY <1>1, <1>4, <2>1, <4>1, ConcatSimplifications
    <3> QED BY <2>1, <2>8, <3>1, <3>2 DEF Found, y, p, F, h
  <2> QED BY <2>7, <2>8
<1> QED BY <1>9, <1>10

\* Where Build goes on to by the text of a link, a container goes on to by the
\* link, with at most MaxLinks more in front of it.
LEMMA FollowAgrees ==
  ASSUME image \in Images, NEW path \in Seq(STRING), path # <<>>, NoUp(path),
         NEW n, n # None, n.kind = "link", Found(path, n), ~Escapes(Target(path, n))
  PROVE  \E u \in 1..(MaxLinks + 1) : \A b \in Nat :
            InContainer(path, b) = IF b < u THEN None ELSE InContainer(Target(path, n), b - u)
<1> DEFINE F == Front(path)  h == Last(path)  y == Relative(F)  C == Walks(image, <<>>)
           p == Append(y, h)  T == Target(path, n)
<1>1. F \in Seq(STRING) /\ h \in STRING /\ path = Append(F, h)
  BY FrontLast
<1>2. h # ".."
  <2>1. Len(path) \in DOMAIN path
    BY FrontLast
  <2> QED BY <2>1 DEF NoUp, Last
<1>3. /\ y \in Seq(STRING) /\ IsDir(image, y) /\ p \in DOMAIN image /\ n = image[p]
      /\ Plain(n.to) /\ (~n.abs => y = F)
  BY DEF Found
<1>4. Tree(image) /\ Typed(image) /\ <<>> \in Tops /\ None \in Tops /\ MaxLinks \in Nat
  BY ImageIsTree, PathAssumption DEF Tree, Tops
<1>5. n.to \in Seq(STRING) /\ n.abs \in BOOLEAN
  BY <1>3, <1>4 DEF Typed, Directory
<1>6. path = F \o <<h>> /\ <<h>> \in Seq(STRING)
  BY <1>1, AppendIsConcat, OneIsSeq
<1>7. C[Place(<<>>, F, MaxLinks)] = y
  <2>1. Relative(F) # None
    BY <1>3, NoneIsNoPath
  <2> DEFINE x == Place(<<>>, F, MaxLinks)
  <2>2. x \in Position
    <3>1. <<>> \in Seq(STRING)
      OBVIOUS
    <3> QED BY <1>1, <1>4, <3>1 DEF Place, Position
  <2>3. Relative(F) = Walks(image, None)[x]
    BY InContainerIs
  <2> HIDE DEF x, F
  <2> QED BY <1>4, <2>1, <2>2, <2>3, NoneIsNoPath, RelativeInContainer DEF x
<1> HIDE DEF F, h
<1>8. PICK u \in 0..MaxLinks : \A b \in Nat :
         C[Place(<<>>, path, b)] = IF b < u THEN None ELSE C[Place(y, <<h>>, b - u)]
  <2> DEFINE B == <<h>>
  <2>1. B \in Seq(STRING) /\ path = F \o B
    BY <1>6
  <2> HIDE DEF B, y
  <2>2. \E u \in 0..MaxLinks : \A b \in Nat :
           C[Place(<<>>, F \o B, b)] = IF b < u THEN None ELSE C[Place(y, B, b - u)]
    <3>1. Splits(C, y, F, B, MaxLinks)
      BY <1>1, <1>4, <1>7, <2>1, WalkSplit
    <3> QED BY <1>3, <3>1, NoneIsNoPath DEF Splits
  <2> QED BY <2>1, <2>2 DEF B
<1> DEFINE d == IF n.abs THEN <<>> ELSE y
<1>9. d \in Seq(STRING) /\ IsDir(image, d) /\ T = Clean(d \o n.to)
  <2>1. CASE n.abs
    <3>1. T = Clean(n.to)
      BY <2>1 DEF Target
    <3>2. <<>> \o n.to = n.to
      BY <1>5, ConcatEmptySeq
    <3>3. <<>> \in Seq(STRING) /\ IsDir(image, <<>>)
      BY <1>4 DEF Tree
    <3> QED BY <2>1, <3>1, <3>2, <3>3
  <2>2. CASE ~n.abs
    <3>1. T = Clean(F \o n.to)
      BY <2>2 DEF Target, F
    <3> QED BY <1>3, <2>2, <3>1
  <2> QED BY <2>1, <2>2
<1> HIDE DEF d, T, y
<1>10. ASSUME NEW c \in Nat
       PROVE  C[Place(y, <<h>>, c)] = IF c = 0 THEN None ELSE C[Place(<<>>, T, c - 1)]
  <2>1. C[Place(y, <<h>>, c)] = IF c = 0 THEN None ELSE C[Place(d, n.to, c - 1)]
    <3>1. <<>> # None
      <4>1. <<>> \in Seq(STRING)
        OBVIOUS
      <4> QED BY <4>1, NoneIsNoPath
    <3>2. C[Place(y, <<h>>, c)] = IF c = 0 \/ (n.abs /\ <<>> = None) THEN None
                                ELSE C[Place(IF n.abs THEN <<>> ELSE y, n.to, c - 1)]
      <4>1. p = Append(y, h) /\ C = Walks(image, <<>>)
        OBVIOUS
      <4> HIDE DEF C, p
      <4>2. IsDir(image, y) /\ p \in DOMAIN image /\ image[p].kind = "link" =>
               C[Place(y, <<h>>, c)] =
                   IF c = 0 \/ (image[p].abs /\ <<>> = None) THEN None
                   ELSE C[Place(IF image[p].abs THEN <<>> ELSE y, image[p].to, c - 1)]
        <5>1. Goes(C, image, <<>>, y, h, p, c)
          BY <1>1, <1>2, <1>3, <1>4, <4>1, WalkLast
        <5> QED BY <5>1 DEF Goes
      <4> QED BY <1>3, <4>2
    <3> QED BY <3>1, <3>2 DEF d
  <2>2. ASSUME c # 0 PROVE C[Place(d, n.to, c - 1)] = C[Place(<<>>, T, c - 1)]
    <3>1. c - 1 \in Nat
      BY <2>2
    <3>2. ~Escapes(Clean(d \o n.to))
      BY <1>9 DEF T
    <3> QED BY <1>3, <1>4, <1>5, <1>9, <3>1, <3>2, NoneIsNoPath, CleanText
  <2> QED BY <2>1, <2>2
<1>11. ASSUME NEW b \in Nat
       PROVE  InContainer(path, b) = IF b < u + 1 THEN None ELSE InContainer(T, b - (u + 1))
  <2>1. InContainer(path, b) = IF b < u THEN None ELSE C[Place(y, <<h>>, b - u)]
    BY <1>8, InContainerIs
  <2>2. u \in Nat
    BY <1>4
  <2>3. CASE b < u
    <3>1. b < u + 1
      BY <2>2, <2>3
    <3> QED BY <2>1, <2>3, <3>1
  <2>4. CASE ~(b < u)
    <3>1. b - u \in Nat /\ (b - u = 0 <=> b < u + 1) /\ b - u - 1 = b - (u + 1)
      BY <2>2, <2>4
    <3>2. InContainer(T, b - (u + 1)) = C[Place(<<>>, T, b - (u + 1))]
      BY InContainerIs
    <3> HIDE DEF C
    <3> QED BY <1>10, <2>1, <2>4, <3>1, <3>2
  <2> QED BY <2>3, <2>4
<1>12. u + 1 \in 1..(MaxLinks + 1)
  BY <1>4
<1> QED BY <1>11, <1>12 DEF T

\* A node that is no link ends the walk.
LEMMA ArrivesAt ==
  ASSUME image \in Images, NEW path \in Seq(STRING), path # <<>>, NoUp(path),
         NEW n, n # None, n.kind # "link", Found(path, n)
  PROVE  Relative(path) \in DOMAIN image /\ n = image[Relative(path)]
<1> DEFINE F == Front(path)  h == Last(path)  y == Relative(F)  R == Walks(image, None)
           p == Append(y, h)
<1>1. F \in Seq(STRING) /\ h \in STRING /\ path = Append(F, h)
  BY FrontLast
<1>2. h # ".."
  <2>1. Len(path) \in DOMAIN path
    BY FrontLast
  <2> QED BY <2>1 DEF NoUp, Last
<1>3. y \in Seq(STRING) /\ IsDir(image, y) /\ p \in DOMAIN image /\ n = image[p]
  BY DEF Found
<1>4. Typed(image) /\ None \in Tops /\ MaxLinks \in Nat
  BY ImageIsTree, PathAssumption DEF Tree, Tops
<1>6. path = F \o <<h>> /\ <<h>> \in Seq(STRING)
  BY <1>1, AppendIsConcat, OneIsSeq
<1>7. R[Place(<<>>, F, MaxLinks)] = y
  BY InContainerIs
<1> HIDE DEF F, h
<1>8. PICK u \in 0..MaxLinks : \A b \in Nat :
         R[Place(<<>>, path, b)] = IF b < u THEN None ELSE R[Place(y, <<h>>, b - u)]
  <2> DEFINE B == <<h>>
  <2>1. B \in Seq(STRING) /\ path = F \o B
    BY <1>6
  <2> HIDE DEF B, y
  <2>2. \E u \in 0..MaxLinks : \A b \in Nat :
           R[Place(<<>>, F \o B, b)] = IF b < u THEN None ELSE R[Place(y, B, b - u)]
    <3>1. Splits(R, y, F, B, MaxLinks)
      BY <1>1, <1>4, <1>7, <2>1, WalkSplit
    <3> QED BY <1>3, <3>1, NoneIsNoPath DEF Splits
  <2> QED BY <2>1, <2>2 DEF B
<1>9. MaxLinks - u \in Nat /\ ~(MaxLinks < u)
  BY <1>4
<1>10. Relative(path) = R[Place(y, <<h>>, MaxLinks - u)]
  BY <1>4, <1>8, <1>9, InContainerIs
<1>11. R[Place(y, <<h>>, MaxLinks - u)] = p
  <2> DEFINE c == MaxLinks - u
  <2>1. c \in Nat /\ p = Append(y, h) /\ R = Walks(image, None)
    BY <1>9
  <2> HIDE DEF y, c, R, p
  <2>2. IsDir(image, y) /\ p \in DOMAIN image /\ image[p].kind # "link" =>
           R[Place(y, <<h>>, c)] = p
    <3>1. Goes(R, image, None, y, h, p, c)
      BY <1>1, <1>2, <1>3, <1>4, <2>1, WalkLast
    <3> QED BY <3>1 DEF Goes
  <2> QED BY <1>3, <2>2 DEF c
<1> QED BY <1>3, <1>10, <1>11

\* And so it does in a container.
LEMMA ArrivedIn ==
  ASSUME image \in Images, host \in SUBSET HostFiles, root \in {Staging, Package},
         NEW path \in Seq(STRING), Relative(path) # None
  PROVE  \E u \in 0..MaxLinks : \A b \in Nat :
            InContainer(path, b) = IF b < u THEN None ELSE Relative(path)
<1> DEFINE C == Walks(image, <<>>)  z == Relative(path)
<1>1. z \in Seq(STRING) /\ C[Place(<<>>, path, MaxLinks)] = z
  BY RelativeAgrees, InContainerIs
<1>2. Typed(image) /\ <<>> \in Tops /\ MaxLinks \in Nat
  BY ImageIsTree, PathAssumption DEF Tree, Tops
<1> HIDE DEF z
<1>3. PICK u \in 0..MaxLinks : \A b \in Nat :
         C[Place(<<>>, path \o <<>>, b)] = IF b < u THEN None ELSE C[Place(z, <<>>, b - u)]
  <2>1. <<>> \in Seq(STRING)
    OBVIOUS
  <2> HIDE DEF C
  <2>2. Splits(C, z, path, <<>>, MaxLinks)
    BY <1>1, <1>2, <2>1, WalkSplit DEF C
  <2> QED BY <1>1, <2>2, NoneIsNoPath DEF Splits
<1>4. \A c \in Nat : C[Place(z, <<>>, c)] = z
  <2> TAKE c \in Nat
  <2> DEFINE x == Place(z, <<>>, c)
  <2>1. x \in Position /\ x.rest = <<>> /\ x.dir = z
    <3>1. <<>> \in Seq(STRING)
      OBVIOUS
    <3> QED BY <1>1, <3>1 DEF Place, Position
  <2> HIDE DEF x
  <2> QED BY <1>2, <2>1, WalkSteps DEF x
<1>5. path \o <<>> = path
  BY ConcatEmptySeq
<1>6. ASSUME NEW b \in Nat PROVE InContainer(path, b) = IF b < u THEN None ELSE z
  <2>1. ~(b < u) => b - u \in Nat
    BY <1>2
  <2> QED BY <1>3, <1>4, <1>5, <2>1, InContainerIs
<1> QED BY <1>6 DEF z

-------------------------------------------------------------------------------
(* The invariant.                                                            *)

\* InContainer and Relative, of any image.
InContainerOf(i, path, b) == Walks(i, <<>>)[Place(<<>>, path, b)]
RelativeOf(i, path)  == Walks(i, None)[Place(<<>>, path, MaxLinks)]

\* A container gets from entry to current by between hop and hop * (MaxLinks + 1)
\* links, and no farther without them.
Reached(i, e, c, h) ==
    \E u \in Nat :
        /\ h <= u /\ u <= h * (MaxLinks + 1)
        /\ \A b \in Nat : InContainerOf(i, e, b) = IF b < u THEN None ELSE InContainerOf(i, c, b - u)

\* What was seen at a path is what the image has there.
SeenIn(i, path, n) ==
    IF path = <<>> THEN n = Directory
    ELSE \/ n = None /\ \A b \in 0..MaxLinks : InContainerOf(i, path, b) = None
         \/ LET y == RelativeOf(i, Front(path))
                p == Append(y, Last(path))
            IN /\ n # None /\ y \in Seq(STRING) /\ IsDir(i, y)
               /\ p \in DOMAIN i /\ n = i[p]
               /\ n.kind = "link" => Plain(n.to) /\ (~n.abs => y = Front(path))

\* A path leads to a node of the image that is no link.
Lands(i, path) ==
    RelativeOf(i, path) \in DOMAIN i /\ i[RelativeOf(i, path)].kind # "link"

\* The properties' NoClimb and AbsoluteLinks, of any image.
NoClimbOf(i) == \A p \in DOMAIN i :
    p # <<>> /\ i[p].kind = "link" => Plain(i[p].to) /\ ~Escapes(Target(p, i[p]))
AbsoluteLinksOf(i) == \E p \in DOMAIN i : i[p].kind = "link" /\ i[p].abs

\* The loader of an installed wrapper.
LoaderOK(i, path, l) ==
    /\ HostOS = "linux" => l = i[RelativeOf(i, path)].interp
    /\ l # None => l \in Seq(STRING) /\ (RelativeOf(i, l) = None => AbsoluteLinksOf(i) \/ ~NoClimbOf(i))

\* A container would not run the image either.
Refusable(i, e) ==
    LET binary == InContainerOf(i, e, MaxHops - 1)
    IN \/ Defect(i, binary) # "none"
       \/ /\ HostOS = "linux" /\ i[binary].interp # None
          /\ RelativeOf(i, i[binary].interp) = None

\* A link leads to a path.
NodeOK(n) == n # None /\ n.kind = "link" => n.to \in Seq(STRING)

\* Types, and the paths of the image.
PathInv ==
    /\ TypeOK
    /\ image \in Images
    /\ current \in Seq(STRING)
    /\ NodeOK(info)
    /\ pc = "seen" => hop < MaxHops

\* The stages of Build.
ControlInv ==
    /\ outcome = "none" <=> pc # "done"
    /\ pc \in {"check", "loader", "move"} \/ outcome = "installed" => hop < MaxHops
    /\ pc \notin {"move", "done"} => loader = None
    /\ pc = "loader" => HostOS = "linux"

\* As long as no linked directory was misread, Build and a container are at the
\* same place of the image: the text of the paths with the links followed says
\* where the walk of a container goes on.
StraightInv == straight =>
    /\ outcome \in {"none", "installed"} => Reached(image, entry, current, hop)
    /\ pc = "seen" => SeenIn(image, current, info)
    /\ pc \in {"check", "loader", "move"} \/ outcome = "installed" => Lands(image, current)
    /\ pc \in {"loader", "move"} \/ outcome = "installed" =>
          Defect(image, RelativeOf(image, current)) = "none"
    /\ pc = "move" \/ outcome = "installed" => LoaderOK(image, current, loader)
    /\ outcome \notin {"none", "installed"} /\ NoClimbOf(image) => Refusable(image, entry)

\* The properties' names and those of the invariant mean the same.
LEMMA Names ==
  /\ \A path, b : InContainer(path, b) = InContainerOf(image, path, b)
  /\ \A path : Relative(path) = RelativeOf(image, path)
  /\ NoClimb = NoClimbOf(image) /\ AbsoluteLinks = AbsoluteLinksOf(image)
  /\ \A path, n : path # <<>> => (Found(path, n) <=> SeenIn(image, path, n))
<1>1. /\ \A path, b : InContainer(path, b) = InContainerOf(image, path, b)
      /\ \A path : Relative(path) = RelativeOf(image, path)
  BY InContainerIs DEF InContainerOf, RelativeOf
<1>2. NoClimb = NoClimbOf(image) /\ AbsoluteLinks = AbsoluteLinksOf(image)
  BY DEF NoClimb, NoClimbOf, AbsoluteLinks, AbsoluteLinksOf
<1>3. \A path, n : path # <<>> => (Found(path, n) <=> SeenIn(image, path, n))
  BY <1>1 DEF Found, SeenIn
<1> QED BY <1>1, <1>2, <1>3

\* The empty path is the root of the image.
LEMMA AtRoot ==
  ASSUME image \in Images
  PROVE  /\ \A b \in Nat : InContainerOf(image, <<>>, b) = <<>>
         /\ RelativeOf(image, <<>>) = <<>>
         /\ Lands(image, <<>>)
<1>1. Tree(image) /\ Typed(image) /\ <<>> \in Tops /\ None \in Tops /\ MaxLinks \in Nat
  BY ImageIsTree, PathAssumption DEF Tree, Tops
<1>2. ASSUME NEW b \in Nat
      PROVE  Place(<<>>, <<>>, b) \in Position /\ Place(<<>>, <<>>, b).rest = <<>>
             /\ Place(<<>>, <<>>, b).dir = <<>>
  <2>1. <<>> \in Seq(STRING)
    OBVIOUS
  <2> QED BY <2>1 DEF Place, Position
<1>3. ASSUME NEW b \in Nat, NEW top \in Tops
      PROVE  Walks(image, top)[Place(<<>>, <<>>, b)] = <<>>
  <2> DEFINE x == Place(<<>>, <<>>, b)
  <2>1. x \in Position /\ x.rest = <<>> /\ x.dir = <<>>
    BY <1>2
  <2> HIDE DEF x
  <2>2. Walks(image, top)[x] = x.dir
    BY <1>1, <2>1, WalkSteps
  <2> QED BY <2>1, <2>2 DEF x
<1>4. \A b \in Nat : InContainerOf(image, <<>>, b) = <<>>
  BY <1>1, <1>3 DEF InContainerOf
<1>5. RelativeOf(image, <<>>) = <<>>
  BY <1>1, <1>3 DEF RelativeOf
<1>6. <<>> \in DOMAIN image /\ image[<<>>].kind # "link"
  BY <1>1 DEF Tree, IsDir, Directory
<1> QED BY <1>4, <1>5, <1>6 DEF Lands

\* One link on.
LEMMA ReachedOn ==
  ASSUME NEW i, NEW e, NEW c, NEW d, NEW h \in Nat, Reached(i, e, c, h), MaxLinks \in Nat,
         \E u \in 1..(MaxLinks + 1) : \A b \in Nat :
            InContainerOf(i, c, b) = IF b < u THEN None ELSE InContainerOf(i, d, b - u)
  PROVE  Reached(i, e, d, h + 1)
<1>1. PICK u \in Nat : /\ h <= u /\ u <= h * (MaxLinks + 1)
                       /\ \A b \in Nat : InContainerOf(i, e, b) = IF b < u THEN None
                                                             ELSE InContainerOf(i, c, b - u)
  BY DEF Reached
<1>2. PICK v \in 1..(MaxLinks + 1) : \A b \in Nat :
            InContainerOf(i, c, b) = IF b < v THEN None ELSE InContainerOf(i, d, b - v)
  OBVIOUS
<1> DEFINE w == u + v
<1>3. w \in Nat /\ h + 1 <= w /\ w <= (h + 1) * (MaxLinks + 1)
  <2>1. (h + 1) * (MaxLinks + 1) = h * (MaxLinks + 1) + (MaxLinks + 1)
    OBVIOUS
  <2> DEFINE q == h * (MaxLinks + 1)
  <2>2. q \in Nat
    OBVIOUS
  <2>3. u <= q
    BY <1>1
  <2> HIDE DEF q
  <2>4. w \in Nat /\ h + 1 <= w /\ w <= q + (MaxLinks + 1)
    BY <1>1, <1>2, <2>2, <2>3
  <2> QED BY <2>1, <2>4 DEF q
<1>4. ASSUME NEW b \in Nat
      PROVE  InContainerOf(i, e, b) = IF b < w THEN None ELSE InContainerOf(i, d, b - w)
  <2>1. InContainerOf(i, e, b) = IF b < u THEN None ELSE InContainerOf(i, c, b - u)
    BY <1>1
  <2>2. CASE b < u
    <3>1. b < w
      BY <1>2, <2>2
    <3> QED BY <2>1, <2>2, <3>1
  <2>3. CASE ~(b < u)
    <3>1. b - u \in Nat /\ (b - u < v <=> b < w) /\ b - u - v = b - w
      BY <1>2, <2>3
    <3>2. InContainerOf(i, c, b - u) = IF b - u < v THEN None ELSE InContainerOf(i, d, b - u - v)
      BY <1>2, <3>1
    <3> QED BY <2>1, <2>3, <3>1, <3>2
  <2> QED BY <2>2, <2>3
<1> HIDE DEF w
<1> QED BY <1>3, <1>4 DEF Reached

\* With few links a container gets nowhere, with Ample to where Build gets.
LEMMA ReachedIs ==
  ASSUME image \in Images, host \in SUBSET HostFiles, root \in {Staging, Package},
         NEW e, NEW c \in Seq(STRING), NEW h \in Nat, h < MaxHops, Reached(image, e, c, h),
         NEW z, z = RelativeOf(image, c), z # None
  PROVE  /\ InContainerOf(image, e, Ample) = z
         /\ InContainerOf(image, e, MaxHops - 1) \in {None, z}
<1>1. PICK u \in Nat : /\ h <= u /\ u <= h * (MaxLinks + 1)
                       /\ \A b \in Nat : InContainerOf(image, e, b) = IF b < u THEN None
                                                             ELSE InContainerOf(image, c, b - u)
  BY DEF Reached
<1>2. PICK v \in 0..MaxLinks : \A b \in Nat :
            InContainerOf(image, c, b) = IF b < v THEN None ELSE z
  <2>1. Relative(c) # None /\ Relative(c) = z
    BY Names
  <2>2. \E v \in 0..MaxLinks : \A b \in Nat : InContainer(c, b) = IF b < v THEN None ELSE z
    BY <2>1, ArrivedIn
  <2> QED BY <2>2, Names
<1>3. MaxLinks \in Nat /\ MaxHops \in Nat \ {0}
  BY PathAssumption
<1>4. Ample \in Nat /\ Ample - u \in Nat /\ Ample - u >= v
  <2> DEFINE K == MaxLinks + 1  d == MaxHops - h - 1
  <2>1. d \in Nat /\ K \in Nat /\ MaxHops = h + 1 + d
    BY <1>3
  <2>2. MaxHops * K = h * K + K + d * K /\ d * K \in Nat /\ h * K \in Nat
    <3> HIDE DEF d, K
    <3> QED BY <2>1
  <2>3. u <= h * K /\ Ample = MaxHops * K /\ v <= K
    BY <1>1, <1>2, <1>3 DEF Ample
  <2> DEFINE a == h * K  dd == d * K
  <2>4. a \in Nat /\ dd \in Nat /\ u <= a /\ Ample = a + K + dd
    BY <2>2, <2>3
  <2> HIDE DEF a, dd, K
  <2> QED BY <1>2, <2>1, <2>3, <2>4
<1>5. InContainerOf(image, e, Ample) = z
  <2>1. InContainerOf(image, e, Ample) = InContainerOf(image, c, Ample - u)
    BY <1>1, <1>4
  <2> QED BY <1>2, <1>4, <2>1
<1>6. InContainerOf(image, e, MaxHops - 1) \in {None, z}
  <2>1. MaxHops - 1 \in Nat /\ (~(MaxHops - 1 < u) => MaxHops - 1 - u \in Nat)
    BY <1>3
  <2> QED BY <1>1, <1>2, <2>1
<1> QED BY <1>5, <1>6

\* A loader that the host finds in an image without the two kinds of links is
\* found straightly.
LEMMA LoaderIsInside ==
  ASSUME image \in Images, host \in SUBSET HostFiles, root \in {Staging, Package},
         NEW path \in Seq(STRING), NoUp(path), OnHost(path) # None,
         NoClimbOf(image), ~AbsoluteLinksOf(image)
  PROVE  RelativeOf(image, path) # None
<1>1. Tree(image) /\ MaxLinks \in Nat /\ None \notin Seq(STRING)
  BY ImageIsTree, NoneIsNoPath, PathAssumption
<1>2. root \in Seq(STRING) /\ Typed(Disk) /\ Holds(Disk, root, image)
  BY DiskHolds
<1>3. Inward(image)
  <2> SUFFICES ASSUME NEW p \in DOMAIN image, image[p].kind = "link"
               PROVE  /\ ~image[p].abs /\ Plain(image[p].to)
                      /\ ~Escapes(Clean(Front(p) \o image[p].to))
    BY DEF Inward
  <2>1. p # <<>>
    BY <1>1 DEF Tree, IsDir, Directory
  <2>2. ~image[p].abs
    BY DEF AbsoluteLinksOf
  <2>3. Plain(image[p].to) /\ ~Escapes(Target(p, image[p]))
    BY <2>1 DEF NoClimbOf
  <2> QED BY <2>2, <2>3 DEF Target
<1> DEFINE x == Place(<<>>, path, MaxLinks)
<1>4. x \in Position /\ x.dir = <<>> /\ x.rest = path /\ x.links = MaxLinks
  <2>1. <<>> \in Seq(STRING)
    OBVIOUS
  <2> QED BY <1>1, <2>1 DEF Place, Position
<1> HIDE DEF x
<1>5. Good(x)
  BY <1>4 DEF Good, Plain, NoUp
<1>6. root \o x.dir = root
  BY <1>2, <1>4, ConcatEmptySeq
<1>7. Walks(Disk, <<>>)[Place(root \o x.dir, x.rest, x.links)] # None
  BY <1>4, <1>6 DEF OnHost, Walk, Place
<1>8. Walks(image, None)[x] # None
  BY <1>1, <1>2, <1>3, <1>4, <1>5, <1>7, HostIsRelative
<1> QED BY <1>8 DEF x, RelativeOf

\* What Build opens below the image's directory is the file of the image.
LEMMA OpensTheFile ==
  ASSUME image \in Images, host \in SUBSET HostFiles, root \in {Staging, Package},
         NEW path \in Seq(STRING), Lands(image, path), NEW z, z = RelativeOf(image, path)
  PROVE  /\ z \in Seq(STRING) /\ z # None /\ z \in DOMAIN image /\ image[z].kind # "link"
         /\ OnHost(path) # None /\ OnHost(path) = Below(z)
         /\ At(Disk, OnHost(path)) = image[z]
         /\ Defect(Disk, OnHost(path)) = Defect(image, z)
<1>1. z \in DOMAIN image /\ image[z].kind # "link"
  BY DEF Lands
<1>2. z \in Seq(STRING) /\ z # None
  BY <1>1, ImageIsTree, NoneIsNoPath DEF Tree
<1>3. OnHost(path) = root \o z
  <2>1. Relative(path) = z
    BY Names
  <2> QED BY <1>2, <2>1, RelativeAgrees
<1>4. root \in Seq(STRING) /\ Holds(Disk, root, image)
  BY DiskHolds
<1>5. root \o z \in Seq(STRING)
  BY <1>2, <1>4, ConcatProperties
<1>6. OnHost(path) # None /\ OnHost(path) = Below(z)
  BY <1>2, <1>3, <1>5, NoneIsNoPath DEF Below
<1>7. At(Disk, OnHost(path)) = At(image, z) /\ At(image, z) = image[z]
  BY <1>1, <1>2, <1>3, <1>4 DEF Holds, At
<1>8. Defect(Disk, OnHost(path)) = Defect(image, z)
  BY <1>2, <1>6, <1>7 DEF Defect
<1> QED BY <1>1, <1>2, <1>6, <1>7, <1>8

\* What a link leads to, by the text, is a path of the image again.
LEMMA TargetIsPath ==
  ASSUME PathInv, info # None, info.kind = "link", ~Escapes(Target(current, info))
  PROVE  /\ Target(current, info) \in Seq(STRING)
         /\ NoUp(Target(current, info))
<1> DEFINE t == IF info.abs THEN info.to ELSE Front(current) \o info.to
<1>1. info.to \in Seq(STRING)
  BY DEF PathInv, NodeOK
<1>2. Front(current) \in Seq(STRING)
  BY DEF PathInv, Front
<1>3. t \in Seq(STRING)
  <2>1. Front(current) \o info.to \in Seq(STRING)
    BY <1>1, <1>2
  <2> QED BY <1>1, <2>1
<1>4. Target(current, info) = Clean(t)
  BY DEF Target
<1> HIDE DEF t
<1>5. Clean(t) \in Cleaned
  BY <1>3, CleanIsCleaned
<1>6. Clean(t) \in Seq(STRING)
  BY <1>5 DEF Cleaned
<1> QED BY <1>4, <1>5, <1>6, InsideHasNoUp DEF NoUp

\* What the model makes of a node of the disk.
LEMMA NodesAreOK ==
  ASSUME image \in Images, host \in SUBSET HostFiles, root \in {Staging, Package}, NEW p
  PROVE  NodeOK(At(Disk, p))
<1>1. Typed(Disk)
  BY DiskHolds
<1> QED BY <1>1 DEF At, NodeOK, Typed, Directory

\* Nor does os.Lstat give anything else.
LEMMA LstatIsOK ==
  ASSUME image \in Images, host \in SUBSET HostFiles, root \in {Staging, Package},
         NEW path, NEW dir
  PROVE  NodeOK(Lstat(path, dir))
BY NodesAreOK DEF Lstat, NodeOK, Directory

\* What a refusal needs.
LEMMA RefusedAt ==
  ASSUME NEW i, NEW e, Defect(i, InContainerOf(i, e, MaxHops - 1)) # "none"
  PROVE  Refusable(i, e)
BY DEF Refusable

\* Nor is it run if it is not found.
LEMMA NowhereIsRefused ==
  ASSUME NEW i, NEW e, InContainerOf(i, e, MaxHops - 1) = None
  PROVE  Refusable(i, e)
BY DEF Refusable, Defect

\* Where the lemmas above apply.
LEMMA Context ==
  ASSUME PathInv
  PROVE  /\ image \in Images /\ host \in SUBSET HostFiles /\ root \in {Staging, Package}
         /\ current \in Seq(STRING) /\ NoUp(current) /\ hop \in Nat /\ hop <= MaxHops
         /\ MaxHops \in Nat \ {0} /\ MaxLinks \in Nat /\ MaxHops <= MaxLinks
         /\ entry \in Seq(STRING)
BY PathAssumption DEF PathInv, TypeOK, NoUp

\* EmptyEntrypoint.
LEMMA EmptyIsRefused ==
  ASSUME PathInv, entry = <<>>
  PROVE  Refusable(image, entry)
<1>1. MaxHops - 1 \in Nat
  BY Context
<1>2. InContainerOf(image, entry, MaxHops - 1) = <<>>
  BY <1>1, AtRoot, Context
<1>3. At(image, <<>>) = Directory /\ <<>> # None
  <2>1. <<>> \in Seq(STRING)
    OBVIOUS
  <2> QED BY <2>1, Context, ImageIsTree, NoneIsNoPath DEF Tree, IsDir, At
<1> QED BY <1>2, <1>3 DEF Refusable, Defect, Directory

\* TooDeep: with fewer links a container gets no farther.
LEMMA TooDeepIsRefused ==
  ASSUME PathInv, hop = MaxHops, Reached(image, entry, current, hop)
  PROVE  Refusable(image, entry)
<1>1. PICK u \in Nat : /\ hop <= u
                       /\ \A b \in Nat : InContainerOf(image, entry, b) =
                              IF b < u THEN None ELSE InContainerOf(image, current, b - u)
  BY DEF Reached
<1>2. MaxHops - 1 \in Nat /\ MaxHops - 1 < u
  BY <1>1, Context
<1>3. InContainerOf(image, entry, MaxHops - 1) = None
  BY <1>1, <1>2
<1> QED BY <1>3, NowhereIsRefused

\* Missing.
LEMMA MissingIsRefused ==
  ASSUME PathInv, hop < MaxHops, info = None,
         Reached(image, entry, current, hop), SeenIn(image, current, info)
  PROVE  Refusable(image, entry)
<1>1. PICK u \in Nat : \A b \in Nat : InContainerOf(image, entry, b) =
                           IF b < u THEN None ELSE InContainerOf(image, current, b - u)
  BY DEF Reached
<1>2. \A b \in 0..MaxLinks : InContainerOf(image, current, b) = None
  BY NoneIsNoPath DEF SeenIn
<1>3. MaxHops - 1 \in Nat /\ (~(MaxHops - 1 < u) => MaxHops - 1 - u \in 0..MaxLinks)
  BY Context
<1>4. InContainerOf(image, entry, MaxHops - 1) = None
  BY <1>1, <1>2, <1>3
<1> QED BY <1>4, NowhereIsRefused

\* A link seen where the image has it escapes only if the image has a link that
\* climbs.
LEMMA EscapeClimbs ==
  ASSUME PathInv, info # None, info.kind = "link", SeenIn(image, current, info),
         Escapes(Target(current, info))
  PROVE  ~NoClimbOf(image)
<1>1. current # <<>>
  BY DEF SeenIn, Directory
<1> DEFINE F == Front(current)  y == RelativeOf(image, F)  p == Append(y, Last(current))
<1>2. /\ y \in Seq(STRING) /\ p \in DOMAIN image /\ info = image[p]
      /\ (~info.abs => y = F)
  BY <1>1 DEF SeenIn
<1>3. Last(current) \in STRING
  BY <1>1, Context, FrontLast
<1>4. p # <<>> /\ Front(p) = y
  <2> HIDE DEF y
  <2>1. p # <<>>
    BY <1>2, <1>3
  <2> QED BY <1>2, <1>3, <2>1, FrontOfAppend
<1>5. Target(p, info) = Target(current, info)
  <2> HIDE DEF p, y
  <2> QED BY <1>2, <1>4 DEF Target
<1> HIDE DEF p
<1> QED BY <1>2, <1>4, <1>5 DEF NoClimbOf

\* What Build goes on to is where a container goes on to.
LEMMA FollowReaches ==
  ASSUME PathInv, info # None, info.kind = "link", SeenIn(image, current, info),
         ~Escapes(Target(current, info)), Reached(image, entry, current, hop)
  PROVE  Reached(image, entry, Target(current, info), hop + 1)
<1>1. current # <<>>
  BY DEF SeenIn, Directory
<1>2. Found(current, info)
  BY <1>1, Names
<1>a. image \in Images /\ current \in Seq(STRING) /\ NoUp(current)
  BY Context
<1>3. \E u \in 1..(MaxLinks + 1) : \A b \in Nat :
         InContainer(current, b) =
            IF b < u THEN None ELSE InContainer(Target(current, info), b - u)
  BY <1>1, <1>2, <1>a, FollowAgrees, Zenon
<1> DEFINE T == Target(current, info)
<1> HIDE DEF T
<1>4. \E u \in 1..(MaxLinks + 1) : \A b \in Nat :
         InContainerOf(image, current, b) = IF b < u THEN None ELSE InContainerOf(image, T, b - u)
  BY <1>3, Names DEF T
<1>5. Reached(image, entry, T, hop + 1)
  BY <1>4, Context, ReachedOn
<1> QED BY <1>5 DEF T

\* Arrive.
LEMMA SeenLands ==
  ASSUME PathInv, info # None, info.kind # "link", SeenIn(image, current, info)
  PROVE  Lands(image, current)
<1>1. CASE current = <<>>
  BY <1>1, AtRoot, Context
<1>2. CASE current # <<>>
  <2>1. Found(current, info)
    BY <1>2, Names
  <2>2. Relative(current) \in DOMAIN image /\ info = image[Relative(current)]
    BY <1>2, <2>1, ArrivesAt, Context
  <2> QED BY <2>2, Names DEF Lands
<1> QED BY <1>1, <1>2

\* A defect that Build finds, a container would find.
LEMMA DefectIsRefused ==
  ASSUME PathInv, hop < MaxHops, Reached(image, entry, current, hop), Lands(image, current),
         Defect(Disk, OnHost(current)) # "none"
  PROVE  Refusable(image, entry)
<1> DEFINE z == RelativeOf(image, current)
<1>1. z # None /\ Defect(image, z) # "none"
  BY Context, OpensTheFile
<1>2. InContainerOf(image, entry, MaxHops - 1) \in {None, z}
  BY <1>1, Context, ReachedIs
<1> HIDE DEF z
<1> QED BY <1>1, <1>2, RefusedAt, NowhereIsRefused

\* The interpreter of an executable file is a path.
LEMMA InterpIsPath ==
  ASSUME image \in Images, NEW z \in DOMAIN image, image[z].kind # "link",
         z # None, Defect(image, z) = "none"
  PROVE  image[z].interp # None => image[z].interp \in Seq(STRING) /\ NoUp(image[z].interp)
<1>1. image[z].kind # "dir"
  BY DEF Defect, At
<1>2. image[z] # Directory
  BY <1>1 DEF Directory
<1> QED BY <1>2, PathAssumption DEF NoUp

\* FindLoader, when it refuses,
LEMMA NoLoaderIsRefused ==
  ASSUME PathInv, HostOS = "linux", hop < MaxHops, Reached(image, entry, current, hop),
         Lands(image, current), Defect(image, RelativeOf(image, current)) = "none",
         OnHost(current) = None \/ (Interp # None /\ OnHost(Interp) = None)
  PROVE  Refusable(image, entry)
<1> DEFINE z == RelativeOf(image, current)
<1>1. z # None /\ z \in DOMAIN image /\ image[z].kind # "link"
      /\ OnHost(current) # None /\ Interp = image[z].interp
  BY Context, OpensTheFile DEF Interp
<1>2. InContainerOf(image, entry, MaxHops - 1) \in {None, z}
  BY <1>1, Context, ReachedIs
<1>3. Interp # None /\ OnHost(Interp) = None
  BY <1>1
<1>4. Interp \in Seq(STRING)
  BY <1>1, <1>3, Context, InterpIsPath
<1>5. RelativeOf(image, Interp) = None
  <2> SUFFICES ASSUME Relative(Interp) # None PROVE FALSE
    BY Names
  <2>1. OnHost(Interp) = root \o Relative(Interp) /\ Relative(Interp) \in Seq(STRING)
    BY <1>4, Context, RelativeAgrees
  <2>2. root \in Seq(STRING)
    BY Context, DiskHolds
  <2>3. root \o Relative(Interp) \in Seq(STRING)
    BY <2>1, <2>2, ConcatProperties
  <2> QED BY <1>3, <2>1, <2>3, NoneIsNoPath
<1> HIDE DEF z
<1>6. CASE InContainerOf(image, entry, MaxHops - 1) = None
  BY <1>6, NowhereIsRefused
<1>7. CASE InContainerOf(image, entry, MaxHops - 1) = z
  BY <1>1, <1>3, <1>5, <1>7 DEF Refusable
<1> QED BY <1>2, <1>6, <1>7

\* and when it finds the loader.
LEMMA LoaderIsOK ==
  ASSUME PathInv, Lands(image, current), Defect(image, RelativeOf(image, current)) = "none",
         ~(Interp # None /\ OnHost(Interp) = None)
  PROVE  LoaderOK(image, current, Interp)
<1> DEFINE z == RelativeOf(image, current)
<1>1. z # None /\ z \in DOMAIN image /\ image[z].kind # "link" /\ Interp = image[z].interp
  BY Context, OpensTheFile DEF Interp
<1>2. Interp # None => Interp \in Seq(STRING) /\ NoUp(Interp)
  BY <1>1, Context, InterpIsPath
<1>3. ASSUME Interp # None, RelativeOf(image, Interp) = None
      PROVE  AbsoluteLinksOf(image) \/ ~NoClimbOf(image)
  BY <1>2, <1>3, Context, LoaderIsInside
<1> QED BY <1>1, <1>2, <1>3 DEF LoaderOK

-------------------------------------------------------------------------------
(* Every step keeps it.                                                      *)

\* The inductive invariant.
IInv == PathInv /\ ControlInv /\ StraightInv

\* It holds at the start.
LEMMA InitInv == Init => IInv
<1> SUFFICES ASSUME Init PROVE IInv
  OBVIOUS
<1>1. PathInv
  BY PathAssumption DEF Init, PathInv, TypeOK, Outcomes, NodeOK
<1>2. ControlInv
  BY DEF Init, ControlInv
<1>3. Reached(image, entry, current, hop)
  <2>1. current = entry /\ hop = 0 /\ MaxLinks \in Nat
    BY Context, <1>1 DEF Init
  <2>2. 0 \in Nat /\ hop <= 0 /\ 0 <= hop * (MaxLinks + 1)
    BY <2>1
  <2>3. \A b \in Nat : InContainerOf(image, entry, b) =
           IF b < 0 THEN None ELSE InContainerOf(image, current, b - 0)
    BY <2>1
  <2> QED BY <2>2, <2>3 DEF Reached
<1> QED BY <1>1, <1>2, <1>3 DEF Init, IInv, StraightInv

\* Every step keeps to the paths of the image.
LEMMA NextPath ==
  ASSUME PathInv, [Next]_vars
  PROVE  PathInv'
<1> USE PathAssumption DEF PathInv
<1>1. CASE EmptyEntrypoint \/ TooDeep \/ Missing \/ RefuseEscape
  BY <1>1 DEF EmptyEntrypoint, TooDeep, Missing, RefuseEscape, Refuse, TypeOK, Outcomes
<1>2. CASE LstatCurrent
  <2>1. NodeOK(info')
    BY <1>2, Context, LstatIsOK DEF LstatCurrent
  <2>2. straight' \in BOOLEAN
    BY <1>2, Zenon DEF LstatCurrent
  <2> QED BY <1>2, <2>1, <2>2 DEF LstatCurrent, TypeOK
<1>3. CASE Follow
  <2>1. /\ current' \in Seq(STRING)
        /\ \A k \in DOMAIN current' : current'[k] # ".."
    BY <1>3, TargetIsPath DEF Follow, NoUp
  <2>2. hop' \in 0..MaxHops
    BY <1>3 DEF Follow, TypeOK
  <2> QED BY <1>3, <2>1, <2>2 DEF Follow, TypeOK
<1>4. CASE Arrive
  BY <1>4 DEF Arrive, TypeOK
<1>5. CASE CheckExecutable
  BY <1>5 DEF CheckExecutable, Refuse, TypeOK, Outcomes, Defect
<1>6. CASE FindLoader
  BY <1>6 DEF FindLoader, Refuse, TypeOK, Outcomes
<1>7. CASE Move
  BY <1>7 DEF Move, TypeOK, Outcomes
<1>8. CASE HostChanges
  BY <1>8 DEF HostChanges, TypeOK
<1>9. CASE UNCHANGED vars
  BY <1>9 DEF vars, TypeOK
<1> QED BY <1>1, <1>2, <1>3, <1>4, <1>5, <1>6, <1>7, <1>8, <1>9 DEF Next, Build

\* Every step keeps to the order of the stages.
LEMMA NextControl ==
  ASSUME IInv, [Next]_vars
  PROVE  ControlInv'
<1> USE DEF IInv, ControlInv
<1>1. CASE EmptyEntrypoint \/ TooDeep \/ Missing \/ RefuseEscape
  BY <1>1 DEF EmptyEntrypoint, TooDeep, Missing, RefuseEscape, Refuse
<1>2. CASE LstatCurrent
  BY <1>2 DEF LstatCurrent
<1>3. CASE Follow
  BY <1>3 DEF Follow
<1>4. CASE Arrive
  BY <1>4 DEF Arrive, PathInv
<1>5. CASE CheckExecutable
  BY <1>5 DEF CheckExecutable, Refuse, Defect
<1>6. CASE FindLoader
  BY <1>6 DEF FindLoader, Refuse
<1>7. CASE Move
  BY <1>7 DEF Move
<1>8. CASE HostChanges
  BY <1>8 DEF HostChanges
<1>9. CASE UNCHANGED vars
  BY <1>9 DEF vars
<1> QED BY <1>1, <1>2, <1>3, <1>4, <1>5, <1>6, <1>7, <1>8, <1>9 DEF Next, Build

\* A refusal keeps the invariant if a container would not run the image either.
LEMMA RefuseKeeps ==
  ASSUME IInv, NEW error, Refuse(error), error \notin {"none", "installed"}, UNCHANGED straight,
         straight /\ NoClimbOf(image) => Refusable(image, entry)
  PROVE  StraightInv'
BY DEF Refuse, StraightInv

\* Every step keeps to what a container does.
LEMMA NextStraight ==
  ASSUME IInv, [Next]_vars
  PROVE  StraightInv'
<1> USE DEF IInv
<1>1. CASE EmptyEntrypoint
  BY <1>1, EmptyIsRefused, RefuseKeeps DEF EmptyEntrypoint
<1>2. CASE TooDeep
  <2>1. straight => Reached(image, entry, current, hop)
    BY <1>2 DEF TooDeep, ControlInv, StraightInv
  <2> QED BY <1>2, <2>1, TooDeepIsRefused, RefuseKeeps DEF TooDeep
<1>3. CASE LstatCurrent
  <2> DEFINE dir == IF current = <<>> THEN None ELSE OnHost(Front(current))
  <2>1. /\ info' = Lstat(current, dir) /\ straight' = (straight /\ Straight(dir, info'))
        /\ outcome = "none" /\ pc' = "seen"
        /\ UNCHANGED <<image, entry, host, root, current, hop, loader, outcome>>
    BY <1>3 DEF LstatCurrent, ControlInv
  <2> HIDE DEF dir
  <2>2. ASSUME straight' PROVE SeenIn(image, current, info')
    <3>1. CASE current = <<>>
      BY <2>1, <3>1 DEF Lstat, SeenIn
    <3>2. CASE current # <<>>
      <4>1. Straight(dir, info')
        BY <2>1, <2>2
      <4>2. Found(current, info')
        BY <2>1, <3>2, <4>1, Context, LstatFinds
      <4> QED BY <3>2, <4>2, Names
    <3> QED BY <3>1, <3>2
  <2>3. straight' => straight /\ Reached(image, entry, current, hop)
    BY <2>1, Zenon DEF StraightInv
  <2> QED BY <2>1, <2>2, <2>3 DEF StraightInv
<1>4. CASE Missing
  <2>1. straight => Reached(image, entry, current, hop) /\ SeenIn(image, current, info)
    BY <1>4 DEF Missing, ControlInv, StraightInv
  <2>2. hop < MaxHops
    BY <1>4 DEF Missing, PathInv
  <2> QED BY <1>4, <2>1, <2>2, MissingIsRefused, RefuseKeeps DEF Missing
<1>5. CASE RefuseEscape
  <2>1. straight => SeenIn(image, current, info)
    BY <1>5 DEF RefuseEscape, StraightInv
  <2>2. straight => ~NoClimbOf(image)
    BY <1>5, <2>1, EscapeClimbs DEF RefuseEscape
  <2> QED BY <1>5, <2>2, RefuseKeeps DEF RefuseEscape
<1>6. CASE Follow
  <2>1. straight => Reached(image, entry, current, hop) /\ SeenIn(image, current, info)
    BY <1>6 DEF Follow, ControlInv, StraightInv
  <2>2. straight => Reached(image, entry, Target(current, info), hop + 1)
    BY <1>6, <2>1, FollowReaches DEF Follow
  <2>3. outcome = "none"
    BY <1>6 DEF Follow, ControlInv
  <2> QED BY <1>6, <2>2, <2>3 DEF Follow, StraightInv
<1>7. CASE Arrive
  <2>1. straight => SeenIn(image, current, info)
    BY <1>7 DEF Arrive, StraightInv
  <2>2. straight => Lands(image, current)
    BY <1>7, <2>1, SeenLands DEF Arrive
  <2>3. outcome = "none"
    BY <1>7 DEF Arrive, ControlInv
  <2> QED BY <1>7, <2>2, <2>3 DEF Arrive, StraightInv
<1>8. CASE CheckExecutable
  <2> DEFINE d == Defect(Disk, OnHost(current))
  <2>0. outcome = "none" /\ hop < MaxHops /\ loader = None /\ pc = "check"
    BY <1>8 DEF CheckExecutable, ControlInv
  <2>1. straight => Reached(image, entry, current, hop) /\ Lands(image, current)
    BY <2>0 DEF StraightInv
  <2>2. CASE d # "none"
    <3>1. Refuse(d) /\ UNCHANGED straight
      BY <1>8, <2>2 DEF CheckExecutable
    <3>2. d \notin {"none", "installed"}
      BY <2>2 DEF Defect
    <3>3. straight => Refusable(image, entry)
      BY <2>0, <2>1, <2>2, DefectIsRefused
    <3> HIDE DEF d
    <3> QED BY <3>1, <3>2, <3>3, RefuseKeeps
  <2>3. CASE d = "none"
    <3>1. /\ pc' = (IF HostOS = "linux" THEN "loader" ELSE "move")
          /\ UNCHANGED <<image, entry, host, root, current, hop, info, loader, outcome, straight>>
      BY <1>8, <2>3 DEF CheckExecutable
    <3>2. straight => Defect(image, RelativeOf(image, current)) = "none"
      BY <2>1, <2>3, Context, OpensTheFile
    <3>3. HostOS # "linux" => LoaderOK(image, current, loader)
      BY <2>0 DEF LoaderOK
    <3> QED BY <2>0, <2>1, <3>1, <3>2, <3>3 DEF StraightInv
  <2> QED BY <2>2, <2>3
<1>9. CASE FindLoader
  <2>0. outcome = "none" /\ hop < MaxHops /\ HostOS = "linux" /\ pc = "loader"
    BY <1>9 DEF FindLoader, ControlInv
  <2>1. straight => /\ Reached(image, entry, current, hop) /\ Lands(image, current)
                    /\ Defect(image, RelativeOf(image, current)) = "none"
    BY <2>0 DEF StraightInv
  <2>2. CASE OnHost(current) = None \/ (Interp # None /\ OnHost(Interp) = None)
    <3>1. Refuse("noLoader") /\ UNCHANGED straight
      BY <1>9, <2>2 DEF FindLoader
    <3>2. straight => Refusable(image, entry)
      BY <2>0, <2>1, <2>2, NoLoaderIsRefused
    <3> QED BY <3>1, <3>2, RefuseKeeps
  <2>3. CASE ~(OnHost(current) = None \/ (Interp # None /\ OnHost(Interp) = None))
    <3>1. /\ loader' = Interp /\ pc' = "move"
          /\ UNCHANGED <<image, entry, host, root, current, hop, info, outcome, straight>>
      BY <1>9, <2>3 DEF FindLoader
    <3>2. straight => LoaderOK(image, current, Interp)
      BY <2>1, <2>3, LoaderIsOK
    <3> QED BY <2>0, <2>1, <3>1, <3>2 DEF StraightInv
  <2> QED BY <2>2, <2>3
<1>10. CASE Move
  <2>1. pc = "move" /\ outcome = "none"
    BY <1>10 DEF Move, ControlInv
  <2> QED BY <1>10, <2>1 DEF Move, StraightInv
<1>11. CASE HostChanges
  BY <1>11 DEF HostChanges, StraightInv
<1>12. CASE UNCHANGED vars
  BY <1>12 DEF vars, StraightInv
<1> QED BY <1>1, <1>2, <1>3, <1>4, <1>5, <1>6, <1>7, <1>8, <1>9, <1>10, <1>11, <1>12
        DEF Next, Build

\* So the invariant holds.
LEMMA InvHolds == Spec => []IInv
<1>1. IInv /\ [Next]_vars => IInv'
  BY NextPath, NextControl, NextStraight DEF IInv
<1> QED BY <1>1, InitInv, PTL DEF Spec

\* It implies RunsImage,
LEMMA RunsWhatIsThere ==
  ASSUME IInv
  PROVE  RunsImage
<1> SUFFICES ASSUME outcome = "installed", straight
             PROVE  LET binary == InContainer(entry, Ample)
                    IN /\ binary # None /\ OnHost(current) = Below(binary)
                       /\ HostOS = "linux" => loader = image[binary].interp
                       /\ loader # None => IF Relative(loader) # None
                              THEN OnHost(loader) = Below(InContainer(loader, MaxLinks))
                              ELSE AbsoluteLinks \/ ~NoClimb
  BY DEF RunsImage
<1> DEFINE z == RelativeOf(image, current)
<1>1. /\ PathInv /\ hop < MaxHops /\ Reached(image, entry, current, hop)
      /\ Lands(image, current) /\ LoaderOK(image, current, loader)
  BY DEF IInv, ControlInv, StraightInv
<1>2. z # None /\ OnHost(current) = Below(z)
  BY <1>1, Context, OpensTheFile
<1>3. InContainer(entry, Ample) = z
  BY <1>1, <1>2, Context, ReachedIs, Names
<1>4. HostOS = "linux" => loader = image[z].interp
  BY <1>1 DEF LoaderOK
<1> HIDE DEF z
<1>5. ASSUME loader # None, Relative(loader) # None
      PROVE  OnHost(loader) = Below(InContainer(loader, MaxLinks))
  <2>1. loader \in Seq(STRING)
    BY <1>1, <1>5 DEF LoaderOK
  <2>2. InContainer(loader, MaxLinks) = Relative(loader)
        /\ OnHost(loader) = root \o Relative(loader)
    BY <1>1, <1>5, <2>1, Context, RelativeAgrees
  <2> QED BY <1>5, <2>2 DEF Below
<1>6. ASSUME loader # None, Relative(loader) = None
      PROVE  AbsoluteLinks \/ ~NoClimb
  BY <1>1, <1>6, Names DEF LoaderOK
<1> QED BY <1>2, <1>3, <1>4, <1>5, <1>6

\* and NoSpuriousRefusal.
LEMMA RefusesWhatDoesNotRun ==
  ASSUME IInv
  PROVE  NoSpuriousRefusal
<1> SUFFICES ASSUME outcome \notin {"none", "installed"}, straight, NoClimb
             PROVE  LET binary == InContainer(entry, MaxHops - 1)
                    IN \/ Defect(image, binary) # "none"
                       \/ /\ HostOS = "linux" /\ image[binary].interp # None
                          /\ Relative(image[binary].interp) = None
  BY DEF NoSpuriousRefusal
<1>1. Refusable(image, entry)
  BY Names DEF IInv, StraightInv
<1> QED BY <1>1, Names DEF Refusable

\* Resolution never leaves the root of the image by the text of its paths, and
\* never takes more than maxSymlinkHops links, whatever the image and the host
\* are like (resolveInsideRootfs).
THEOREM TypeCorrect == Spec => []TypeOK
<1>1. IInv => TypeOK
  BY DEF IInv, PathInv
<1> QED BY <1>1, InvHolds, PTL

\* Where the resolution of the entrypoint was straight, and whatever the host has
\* or gets, an installed wrapper runs the binary that a container would, and the
\* loader unless a link of the image is absolute or climbs above the root
\* (IdentifyEntrypoint, FindLoader).  Not straight are an absolute linked
\* directory in front of a name, a relative link in a linked directory, and a
\* target such as link/../x: there the code follows the text, or the host.
THEOREM RunsImageCorrect == Spec => []RunsImage
BY InvHolds, RunsWhatIsThere, PTL

\* Where the resolution of the entrypoint was straight, and no link of the image
\* climbs above the root, no image that a container would run is refused for its
\* entrypoint, nor for a loader that is there without absolute links (Build).
THEOREM NoSpuriousRefusalCorrect == Spec => []NoSpuriousRefusal
BY InvHolds, RefusesWhatDoesNotRun, PTL
===============================================================================
