------------------------ MODULE ConfigurationProofs ------------------------
(***************************************************************************)
(* Proofs about the configuration, and about the rules for names and paths *)
(* that it rests on, for all names and all paths:                          *)
(*   - RestoreImportSource accepts a path exactly when it stays below the   *)
(*     root, and normalises it to where it leads (PathsStayInside);        *)
(*   - SanitizeName keeps the words of a name, and a plain name is its own *)
(*     label (SanitizeNameKeepsWords, PlainNameIsItsLabel);                *)
(*   - a joined name has the words of its parts and is known by them        *)
(*     (JoinedKeepsWords, WordsTell), so that what is built of names, and    *)
(*     shortened with a hash, is told apart by words (NamesAreToldApart,    *)
(*     and, of what the runs ask, ObjectsAreToldApart);                     *)
(*   - the container of a backup or of a restore sees the storage, the       *)
(*     source, the secrets, the parameters and the operation it is asked    *)
(*     for (BackupsAreToldAsAsked, RestoresAreToldAsAsked, and, of what the *)
(*     runs ask, ContainersAreToldAsAsked);                                *)
(*   - objects and their status are well-formed (TypeCorrect), and runs are *)
(*     registered as themselves (RunsAreRegisteredAsThemselves).           *)
(* The recursive functions of the rules are followed step by step: an       *)
(* induction is over a set of numbers that holds 0 and, with each of its    *)
(* members, the next (Climb).                                              *)
(***************************************************************************)
EXTENDS MCConfiguration, FunctionTheorems, FiniteSetTheorems, WellFoundedInduction, TLAPS

----------------------------------------------------------------------------
(* Numbers *)

(* What is in a set with 0, and with the successor of each of its members.  *)
LEMMA Climb ==
    ASSUME NEW S, 0 \in S, \A n \in Nat : n \in S => n + 1 \in S
    PROVE  \A n \in Nat : n \in S
<1> DEFINE Missing == Nat \ S
<1>1. SUFFICES ASSUME Missing # {} PROVE FALSE
  OBVIOUS
<1>2. PICK m \in Missing : \A y \in Missing : <<y, m>> \notin OpToRel(<, Nat)
  BY <1>1, WFMin, NatLessThanWellFounded, Zenon
<1>3. \A y \in Missing : ~ (y < m)
  <2>1. \A y \in Missing : <<y, m>> \in Nat \X Nat
    OBVIOUS
  <2>2. QED
    BY <1>2, <2>1 DEF OpToRel
<1>4. m # 0 /\ m \in Nat
  OBVIOUS
<1>5. m - 1 \in Nat /\ m - 1 < m /\ m = (m - 1) + 1
  BY <1>4
<1>6. m - 1 \in S
  BY <1>3, <1>5
<1>7. m \in S
  BY <1>5, <1>6
<1>8. QED
  BY <1>7

(* A recursive definition over an interval, from a base on,                  *)
(* defines a function.                                                     *)
Follows(f, N, base, X, step) ==
    /\ f \in [0..N -> X] /\ f[0] = base
    /\ \A i \in 1..N : f[i] = step[<<i, f[i - 1]>>]

(* Such a definition has a solution.                                        *)
LEMMA Recursion ==
    ASSUME NEW N \in Nat, NEW X, NEW base \in X, NEW step \in [(1..N) \X X -> X]
    PROVE  \E f : Follows(f, N, base, X, step)
<1> DEFINE S == {n \in Nat : n <= N => \E f : Follows(f, n, base, X, step)}
<1>1. 0 \in S
  <2>1. Follows([i \in 0..0 |-> base], 0, base, X, step)
    BY DEF Follows
  <2>2. QED
    BY <2>1
<1>2. ASSUME NEW n \in Nat, n \in S PROVE n + 1 \in S
  <2>1. SUFFICES ASSUME n + 1 <= N PROVE \E f : Follows(f, n + 1, base, X, step)
    OBVIOUS
  <2>2. PICK f : Follows(f, n, base, X, step)
    BY <1>2, <2>1
  <2> DEFINE next == step[<<n + 1, f[n]>>]
             g == [i \in 0..(n + 1) |-> IF i = n + 1 THEN next ELSE f[i]]
  <2>3. f[n] \in X /\ n + 1 \in 1..N
    BY <2>1, <2>2 DEF Follows
  <2>4. <<n + 1, f[n]>> \in (1..N) \X X
    BY <2>3
  <2>5. next \in X
    BY <2>4
  <2>6. \A i \in 0..n : g[i] = f[i] /\ f[i] \in X /\ i \in 0..(n + 1)
    BY <2>2 DEF Follows
  <2>7. g \in [0..(n + 1) -> X] /\ g[0] = base /\ g[n + 1] = step[<<n + 1, f[n]>>]
    <3>1. \A i \in 0..(n + 1) : (IF i = n + 1 THEN next ELSE f[i]) \in X
      BY <2>2, <2>5 DEF Follows
    <3>2. g[0] = base /\ g[n + 1] = next
      BY <2>2 DEF Follows
    <3> HIDE DEF next
    <3>3. g \in [0..(n + 1) -> X]
      BY <3>1
    <3>4. QED
      BY <3>2, <3>3 DEF next
  <2> HIDE DEF g, next
  <2>8. ASSUME NEW i \in 1..(n + 1) PROVE g[i] = step[<<i, g[i - 1]>>]
    <3>1. i - 1 \in 0..n /\ (i = n + 1 \/ i \in 1..n)
      OBVIOUS
    <3>2. CASE i = n + 1
      <4>1. i - 1 = n /\ g[n] = f[n]
        BY <2>6, <3>2
      <4>2. QED
        BY <2>7, <3>2, <4>1
    <3>3. CASE i \in 1..n
      <4>1. g[i] = f[i] /\ g[i - 1] = f[i - 1]
        BY <2>6, <3>1, <3>3
      <4>2. QED
        BY <2>2, <3>3, <4>1 DEF Follows
    <3>4. QED
      BY <3>1, <3>2, <3>3
  <2>9. Follows(g, n + 1, base, X, step)
    BY <2>7, <2>8 DEF Follows
  <2>10. QED
    BY <2>9
<1>3. N \in S
  <2> HIDE DEF S
  <2>1. QED
    BY <1>1, <1>2, Climb
<1>4. PICK f : Follows(f, N, base, X, step)
  BY <1>3
<1>5. QED
  BY <1>4

(* Numbering a set from 1 to n counts it.                                   *)
Numbers(f, S, n) ==
    /\ f \in [S -> 1..n]
    /\ \A i, j \in S : f[i] = f[j] => i = j
    /\ \A m \in 1..n : \E i \in S : f[i] = m

(* A set that is numbered from 1 to n has n members.                        *)
LEMMA CountedBy ==
    ASSUME NEW S, NEW n \in Nat, NEW f, Numbers(f, S, n)
    PROVE  IsFiniteSet(S) /\ Cardinality(S) = n
<1>1. f \in Bijection(S, 1..n)
  BY DEF Numbers, Bijection, Injection, Surjection, IsInjective
<1>2. ExistsBijection(1..n, S)
  BY <1>1, Fun_ExistsBijSymmetric DEF ExistsBijection
<1>3. IsFiniteSet(1..n) /\ Cardinality(1..n) = n
  BY FS_Interval
<1>4. QED
  BY <1>2, <1>3, FS_Bijection

----------------------------------------------------------------------------
(* Paths *)

(* The three things that a segment can do.                                  *)
LEMMA WalkedIs ==
    ASSUME NEW before, NEW s
    PROVE  LET above == before = <<>> \/ before[Len(before)] = ".."
           IN /\ s \in {"", "."} => Walked(before, s) = before
              /\ s = ".." /\ ~above => Walked(before, s) = SubSeq(before, 1, Len(before) - 1)
              /\ s \notin {"", "."} /\ (s = ".." => above) => Walked(before, s) = Append(before, s)
    BY DEF Walked

(* Walking over a path gives paths.                                         *)
LEMMA WalkedType ==
    ASSUME NEW Segments, NEW before \in Seq(Segments), NEW s \in Segments
    PROVE  Walked(before, s) \in Seq(Segments)
<1>1. before # <<>> => SubSeq(before, 1, Len(before) - 1) \in Seq(Segments)
  OBVIOUS
<1>2. Append(before, s) \in Seq(Segments)
  OBVIOUS
<1>3. QED
  BY <1>1, <1>2, WalkedIs

(* Clean is the walk over all segments.                                     *)
IsWalk(c, p, Segments) ==
    /\ c \in [0..Len(p) -> Seq(Segments)] /\ c[0] = <<>>
    /\ \A i \in 1..Len(p) : c[i] = Walked(c[i - 1], p[i])
    /\ Clean(p) = c[Len(p)]

(* path.Clean, as NormalizedPath uses it, is the walk over all segments.    *)
LEMMA CleanIsWalk ==
    ASSUME NEW Segments, NEW p \in Seq(Segments)
    PROVE  \E c : IsWalk(c, p, Segments)
<1> DEFINE X == Seq(Segments)
           step == [x \in (1..Len(p)) \X X |-> Walked(x[2], p[x[1]])]
           Body(c) == [i \in 0..Len(p) |-> IF i = 0 THEN <<>> ELSE Walked(c[i - 1], p[i])]
<1>1. step \in [(1..Len(p)) \X X -> X] /\ <<>> \in X /\ Len(p) \in Nat
  <2>1. ASSUME NEW x \in (1..Len(p)) \X X PROVE Walked(x[2], p[x[1]]) \in X
    <3>1. x[2] \in Seq(Segments) /\ p[x[1]] \in Segments
      OBVIOUS
    <3>2. QED
      BY <3>1, WalkedType
  <2>2. <<>> \in X /\ Len(p) \in Nat
    OBVIOUS
  <2> HIDE DEF X
  <2>3. QED
    BY <2>1, <2>2
<1> HIDE DEF X
<1>2. PICK c : Follows(c, Len(p), <<>>, X, step)
  <2> HIDE DEF step
  <2>1. QED
    BY <1>1, Recursion
<1>3. ASSUME NEW i \in 1..Len(p) PROVE c[i] = Walked(c[i - 1], p[i])
  <2>1. i - 1 \in 0..Len(p)
    BY <1>1
  <2>2. <<i, c[i - 1]>> \in (1..Len(p)) \X X
    BY <1>2, <2>1 DEF Follows
  <2>3. QED
    BY <1>2, <2>2 DEF Follows
<1>4. c = Body(c)
  BY <1>2, <1>3 DEF Follows
<1>5. ASSUME NEW d, d = Body(d) PROVE d = c
  <2> DEFINE S == {i \in Nat : i <= Len(p) => d[i] = c[i]}
  <2>1. d = [i \in 0..Len(p) |-> d[i]] /\ c = [i \in 0..Len(p) |-> c[i]]
    BY <1>2, <1>5 DEF Follows
  <2>2. 0 \in S
    BY <1>1, <1>2, <1>5 DEF Follows
  <2>3. ASSUME NEW i \in Nat, i \in S PROVE i + 1 \in S
    <3>1. SUFFICES ASSUME i + 1 <= Len(p) PROVE d[i + 1] = c[i + 1]
      OBVIOUS
    <3>2. i + 1 \in 0..Len(p) /\ i + 1 \in 1..Len(p) /\ (i + 1) - 1 = i /\ d[i] = c[i]
      BY <1>1, <2>3, <3>1
    <3>3. Body(d)[i + 1] = Walked(d[i], p[i + 1])
      BY <3>2
    <3>4. QED
      BY <1>3, <1>5, <3>2, <3>3
  <2>4. \A i \in 0..Len(p) : d[i] = c[i]
    <3> HIDE DEF S
    <3>1. \A i \in Nat : i \in S
      BY <2>2, <2>3, Climb
    <3>2. QED
      BY <1>1, <3>1 DEF S
  <2>5. QED
    BY <2>1, <2>4
<1>6. (CHOOSE d : d = Body(d)) = c
  <2> HIDE DEF Body
  <2>1. QED
    BY <1>4, <1>5
<1>7. Clean(p) = (CHOOSE d : d = Body(d))[Len(p)]
  BY DEF Clean
<1>8. QED
  BY <1>2, <1>3, <1>6, <1>7 DEF X, Follows, IsWalk

(* How a segment changes the depth.                                         *)
LEMMA DepthStep ==
    ASSUME NEW p
    PROVE  /\ Depth(p, 0) = 0
           /\ \A i \in Nat : Depth(p, i) \in Int
           /\ \A i \in Nat \ {0} :
                 /\ p[i] \in {"", "."} => Depth(p, i) = Depth(p, i - 1)
                 /\ p[i] = ".." => Depth(p, i) = Depth(p, i - 1) - 1
                 /\ p[i] \notin {"", ".", ".."} => Depth(p, i) = Depth(p, i - 1) + 1
<1> DEFINE Down(i) == {k \in 1..i : p[k] \notin {"", ".", ".."}}
           Up(i)   == {k \in 1..i : p[k] = ".."}
<1>1. ASSUME NEW i \in Nat
      PROVE  /\ IsFiniteSet(Down(i)) /\ Cardinality(Down(i)) \in Nat
             /\ IsFiniteSet(Up(i)) /\ Cardinality(Up(i)) \in Nat
  <2>1. IsFiniteSet(1..i)
    BY FS_Interval
  <2>2. Down(i) \in SUBSET (1..i) /\ Up(i) \in SUBSET (1..i)
    OBVIOUS
  <2> HIDE DEF Down, Up
  <2>3. QED
    BY <2>1, <2>2, FS_Subset, FS_CardinalityType
<1>2. Down(0) = {} /\ Up(0) = {}
  OBVIOUS
<1>3. ASSUME NEW i \in Nat
      PROVE  Depth(p, i) = Cardinality(Down(i)) - Cardinality(Up(i)) /\ Depth(p, i) \in Int
  <2>1. Depth(p, i) = Cardinality(Down(i)) - Cardinality(Up(i))
    BY DEF Depth
  <2> HIDE DEF Down, Up
  <2>2. QED
    BY <1>1, <2>1
<1>4. ASSUME NEW i \in Nat \ {0}
      PROVE  /\ p[i] \in {"", "."} => Depth(p, i) = Depth(p, i - 1)
             /\ p[i] = ".." => Depth(p, i) = Depth(p, i - 1) - 1
             /\ p[i] \notin {"", ".", ".."} => Depth(p, i) = Depth(p, i - 1) + 1
  <2>0. i \in Nat /\ i - 1 \in Nat /\ 1..i = (1..(i - 1)) \cup {i} /\ i \notin 1..(i - 1)
    OBVIOUS
  <2>1. i \notin Down(i - 1) /\ i \notin Up(i - 1)
    BY <2>0
  <2>2. /\ Down(i) = IF p[i] \in {"", ".", ".."} THEN Down(i - 1) ELSE Down(i - 1) \cup {i}
        /\ Up(i) = IF p[i] = ".." THEN Up(i - 1) \cup {i} ELSE Up(i - 1)
    BY <2>0, Zenon
  <2>3. /\ IsFiniteSet(Down(i - 1)) /\ Cardinality(Down(i - 1)) \in Nat
        /\ IsFiniteSet(Up(i - 1)) /\ Cardinality(Up(i - 1)) \in Nat
    BY <1>1, <2>0
  <2> HIDE DEF Down, Up
  <2>4. /\ Cardinality(Down(i - 1) \cup {i}) = Cardinality(Down(i - 1)) + 1
        /\ Cardinality(Up(i - 1) \cup {i}) = Cardinality(Up(i - 1)) + 1
    BY <2>1, <2>3, FS_AddElement
  <2>5. QED
    <3>1. /\ Depth(p, i) = Cardinality(Down(i)) - Cardinality(Up(i))
          /\ Depth(p, i - 1) = Cardinality(Down(i - 1)) - Cardinality(Up(i - 1))
      BY <1>3, <2>0
    <3>2. CASE p[i] \in {"", "."}
      <4>1. Down(i) = Down(i - 1) /\ Up(i) = Up(i - 1)
        BY <2>2, <3>2
      <4>2. QED
        BY <3>1, <3>2, <4>1
    <3>3. CASE p[i] = ".."
      <4>1. Down(i) = Down(i - 1) /\ Up(i) = Up(i - 1) \cup {i}
        BY <2>2, <3>3
      <4>2. QED
        BY <2>3, <2>4, <3>1, <3>3, <4>1
    <3>4. CASE p[i] \notin {"", ".", ".."}
      <4>1. Down(i) = Down(i - 1) \cup {i} /\ Up(i) = Up(i - 1)
        BY <2>2, <3>4
      <4>2. Depth(p, i) = Depth(p, i - 1) + 1
        BY <2>3, <2>4, <3>1, <4>1
      <4>3. QED
        BY <3>4, <4>2
    <3>5. QED
      BY <3>2, <3>3, <3>4
<1>5. Depth(p, 0) = 0
  <2>1. Depth(p, 0) = Cardinality(Down(0)) - Cardinality(Up(0))
    BY <1>3
  <2> HIDE DEF Down, Up
  <2>2. QED
    BY <1>2, <2>1, FS_EmptySet
<1> HIDE DEF Down, Up
<1>6. QED
  BY <1>3, <1>4, <1>5

(* The segments one is still inside of after the first i.                   *)
KeptUpto(p, i) ==
    {j \in 1..i : /\ p[j] \notin {"", ".", ".."}
                  /\ \A k \in j..i : Depth(p, k) >= Depth(p, j)}

(* What was cleaned so far holds, at each depth, the segment that led there. *)
Stacked(p, c, i) ==
    /\ Len(c[i]) = Depth(p, i)
    /\ \A m \in 1..Depth(p, i) :
          \E j \in KeptUpto(p, i) : Depth(p, j) = m /\ c[i][m] = p[j]

(* What is kept after i segments, in terms of depths.                       *)
LEMMA KeptIs ==
    ASSUME NEW p, NEW i \in Nat, NEW j
    PROVE  j \in KeptUpto(p, i) <=>
             /\ j \in 1..i /\ p[j] \notin {"", ".", ".."}
             /\ \A k \in j..i : Depth(p, k) >= Depth(p, j)
    BY DEF KeptUpto

(* A segment that was entered stays entered as long as one is as deep.      *)
LEMMA KeptStays ==
    ASSUME NEW Segments, NEW p \in Seq(Segments), NEW i \in 1..Len(p),
           NEW j \in KeptUpto(p, i - 1), Depth(p, j) <= Depth(p, i)
    PROVE  j \in KeptUpto(p, i)
<1>1. i \in Nat /\ i - 1 \in Nat
  OBVIOUS
<1>2. j \in 1..(i - 1)
  BY <1>1, KeptIs
<1>3. p[j] \notin {"", ".", ".."} /\ \A k \in j..(i - 1) : Depth(p, k) >= Depth(p, j)
  BY <1>1, KeptIs
<1>4. j \in Nat /\ j \in 1..i
  BY <1>1, <1>2
<1>5. Depth(p, i) \in Int /\ Depth(p, j) \in Int
  BY <1>1, <1>4, DepthStep
<1>6. ASSUME NEW k \in j..i PROVE Depth(p, k) >= Depth(p, j)
  <2>1. k = i \/ k \in j..(i - 1)
    BY <1>1, <1>4
  <2>2. CASE k = i
    BY <1>5, <2>2
  <2>3. CASE k \in j..(i - 1)
    BY <1>3, <2>3
  <2>4. QED
    BY <2>1, <2>2, <2>3
<1>7. QED
  BY <1>1, <1>3, <1>4, <1>6, KeptIs

(* As long as one does not leave the root, one segment more is stacked.     *)
LEMMA StackedStep ==
    ASSUME NEW Segments, NEW p \in Seq(Segments), NEW c, IsWalk(c, p, Segments),
           NEW i \in 1..Len(p), Stacked(p, c, i - 1), Depth(p, i - 1) >= 0, Depth(p, i) >= 0
    PROVE  Stacked(p, c, i)
<1>1. /\ i \in Nat /\ i - 1 \in 0..Len(p) /\ i \in 0..Len(p)
      /\ c[i - 1] \in Seq(Segments) /\ c[i] \in Seq(Segments) /\ p[i] \in Segments
      /\ c[i] = Walked(c[i - 1], p[i])
  BY SMTT(30) DEF IsWalk
<1>0. i \in Nat \ {0} /\ i - 1 \in Nat
  OBVIOUS
<1>2. Depth(p, i) \in Nat /\ Depth(p, i - 1) \in Nat /\ Len(c[i - 1]) = Depth(p, i - 1)
  <2>1. Depth(p, i) \in Int /\ Depth(p, i - 1) \in Int
    BY <1>0, DepthStep
  <2>2. QED
    BY <2>1 DEF Stacked
<1>3. ASSUME NEW m \in 1..Depth(p, i - 1), m <= Depth(p, i)
      PROVE  \E j \in KeptUpto(p, i) : Depth(p, j) = m /\ c[i - 1][m] = p[j]
  <2>1. PICK j \in KeptUpto(p, i - 1) : Depth(p, j) = m /\ c[i - 1][m] = p[j]
    BY DEF Stacked
  <2>2. j \in KeptUpto(p, i)
    BY <1>3, <2>1, KeptStays
  <2>3. QED
    BY <2>1, <2>2
<1>4. CASE p[i] \in {"", "."}
  <2>1. c[i] = c[i - 1] /\ Depth(p, i) = Depth(p, i - 1)
    BY <1>0, <1>1, <1>4, WalkedIs, DepthStep
  <2>2. \A m \in 1..Depth(p, i) : m \in 1..Depth(p, i - 1) /\ m <= Depth(p, i)
    BY <1>2, <2>1
  <2>3. QED
    BY <1>2, <1>3, <2>1, <2>2 DEF Stacked
<1>5. CASE p[i] = ".."
  <2>1. Depth(p, i) = Depth(p, i - 1) - 1
    BY <1>0, <1>5, DepthStep
  <2>2. Len(c[i - 1]) >= 1 /\ c[i - 1][Len(c[i - 1])] # ".."
    <3>1. Depth(p, i - 1) \in 1..Depth(p, i - 1)
      BY <1>2, <2>1
    <3>2. \A m \in 1..Depth(p, i - 1) : c[i - 1][m] # ".."
      BY DEF Stacked, KeptUpto
    <3>3. QED
      BY <1>2, <2>1, <3>1, <3>2
  <2>3. c[i] = SubSeq(c[i - 1], 1, Len(c[i - 1]) - 1)
    <3>1. c[i - 1] # <<>>
      BY <2>2
    <3>2. QED
      BY <1>1, <1>5, <2>2, <3>1, WalkedIs
  <2>4. Len(c[i]) = Depth(p, i) /\ \A m \in 1..Depth(p, i) : c[i][m] = c[i - 1][m]
    BY <1>1, <1>2, <2>1, <2>2, <2>3
  <2>5. \A m \in 1..Depth(p, i) : m \in 1..Depth(p, i - 1) /\ m <= Depth(p, i)
    BY <1>2, <2>1
  <2>6. QED
    BY <1>3, <2>4, <2>5 DEF Stacked
<1>6. CASE p[i] \notin {"", ".", ".."}
  <2>1. c[i] = Append(c[i - 1], p[i]) /\ Depth(p, i) = Depth(p, i - 1) + 1
    BY <1>0, <1>1, <1>6, WalkedIs, DepthStep
  <2>2. /\ Len(c[i]) = Depth(p, i) /\ c[i][Depth(p, i)] = p[i]
        /\ \A m \in 1..Depth(p, i - 1) : c[i][m] = c[i - 1][m]
    BY <1>1, <1>2, <2>1
  <2>3. i \in KeptUpto(p, i)
    <3>1. i \in 1..i /\ i..i = {i} /\ Depth(p, i) >= Depth(p, i)
      BY <1>1, <1>2
    <3>2. QED
      BY <1>6, <3>1 DEF KeptUpto
  <2>4. \A m \in 1..Depth(p, i) :
           m = Depth(p, i) \/ (m \in 1..Depth(p, i - 1) /\ m <= Depth(p, i))
    BY <1>2, <2>1
  <2>5. QED
    BY <1>3, <2>2, <2>3, <2>4 DEF Stacked
<1>7. QED
  BY <1>4, <1>5, <1>6

(* The path has not left the root after its first i segments.               *)
Inside(p, i) == \A k \in 0..i : Depth(p, k) >= 0

(* What the walk holds while it stays inside, and once it has left.         *)
LEMMA WalkHolds ==
    ASSUME NEW Segments, NEW p \in Seq(Segments), NEW c, IsWalk(c, p, Segments)
    PROVE  \A i \in 0..Len(p) :
              IF Inside(p, i) THEN Stacked(p, c, i) ELSE c[i] # <<>> /\ c[i][1] = ".."
<1> DEFINE Holds(i) == IF Inside(p, i) THEN Stacked(p, c, i)
                       ELSE c[i] # <<>> /\ c[i][1] = ".."
           S == {i \in Nat : i <= Len(p) => Holds(i)}
<1>0. Len(p) \in Nat
  OBVIOUS
<1>1. 0 \in S
  <2>1. Depth(p, 0) = 0 /\ c[0] = <<>>
    BY DepthStep DEF IsWalk
  <2>2. Inside(p, 0)
    BY <2>1 DEF Inside
  <2>3. Stacked(p, c, 0)
    BY <2>1 DEF Stacked
  <2>4. QED
    BY <2>2, <2>3
<1>2. ASSUME NEW n \in Nat, n \in S PROVE n + 1 \in S
  <2> DEFINE i == n + 1
  <2>1. SUFFICES ASSUME i <= Len(p) PROVE Holds(i)
    OBVIOUS
  <2>2. /\ i \in 1..Len(p) /\ i \in Nat \ {0} /\ i - 1 = n /\ n \in 0..Len(p) /\ i \in 0..Len(p)
        /\ Holds(i - 1)
    BY <1>0, <1>2, <2>1
  <2>3. /\ c[i - 1] \in Seq(Segments) /\ c[i] \in Seq(Segments) /\ p[i] \in Segments
        /\ c[i] = Walked(c[i - 1], p[i])
    BY <2>2 DEF IsWalk
  <2> HIDE DEF i
  <2>4. Depth(p, i) \in Int /\ Depth(p, i - 1) \in Int
    BY <2>2, DepthStep
  <2>5. Inside(p, i) <=> Inside(p, i - 1) /\ Depth(p, i) >= 0
    <3>1. 0..i = (0..(i - 1)) \cup {i}
      BY <2>2
    <3>2. QED
      BY <3>1 DEF Inside
  <2>6. CASE Inside(p, i)
    <3>1. Depth(p, i - 1) >= 0 /\ Depth(p, i) >= 0
      <4>1. i - 1 \in 0..(i - 1)
        BY <2>2
      <4>2. QED
        BY <2>5, <2>6, <4>1 DEF Inside
    <3>2. Stacked(p, c, i)
      BY <2>2, <2>5, <2>6, <3>1, StackedStep
    <3>3. QED
      BY <2>6, <3>2
  <2>7. CASE ~Inside(p, i - 1)
    <3>1. c[i - 1] # <<>> /\ c[i - 1][1] = ".."
      BY <2>2, <2>7
    <3>2. Len(c[i - 1]) >= 1
      BY <2>3, <3>1
    <3>3. CASE c[i] = c[i - 1]
      BY <2>5, <2>7, <3>1, <3>3
    <3>4. CASE c[i] = Append(c[i - 1], p[i])
      <4>1. c[i] # <<>> /\ c[i][1] = ".."
        BY <2>3, <3>1, <3>2, <3>4
      <4>2. QED
        BY <2>5, <2>7, <4>1
    <3>5. CASE c[i] = SubSeq(c[i - 1], 1, Len(c[i - 1]) - 1) /\ c[i - 1][Len(c[i - 1])] # ".."
      <4>1. Len(c[i - 1]) >= 2
        BY <2>3, <3>1, <3>2, <3>5
      <4>2. c[i] # <<>> /\ c[i][1] = ".."
        <5>1. Len(c[i]) = Len(c[i - 1]) - 1 /\ c[i][1] = c[i - 1][1]
          BY <2>3, <3>5, <4>1
        <5>2. c[i] # <<>>
          BY <2>3, <4>1, <5>1
        <5>3. QED
          BY <3>1, <5>1, <5>2
      <4>3. QED
        BY <2>5, <2>7, <4>2
    <3>6. QED
      BY <2>3, <3>3, <3>4, <3>5, WalkedIs
  <2>8. CASE Inside(p, i - 1) /\ Depth(p, i) < 0
    <3>1. Depth(p, i - 1) >= 0
      <4>1. i - 1 \in 0..(i - 1)
        BY <2>2
      <4>2. QED
        BY <2>8, <4>1 DEF Inside
    <3>2. p[i] = ".." /\ Depth(p, i - 1) = 0
      <4>1. /\ p[i] \in {"", "."} => Depth(p, i) = Depth(p, i - 1)
            /\ p[i] = ".." => Depth(p, i) = Depth(p, i - 1) - 1
            /\ p[i] \notin {"", ".", ".."} => Depth(p, i) = Depth(p, i - 1) + 1
        BY <2>2, DepthStep
      <4>2. ~(p[i] \in {"", "."}) /\ ~(p[i] \notin {"", ".", ".."})
        <5>1. Depth(p, i) # Depth(p, i - 1) /\ Depth(p, i) # Depth(p, i - 1) + 1
          BY <2>4, <2>8, <3>1
        <5>2. QED
          BY <4>1, <5>1
      <4>3. QED
        <5>1. p[i] = ".."
          BY <4>2
        <5>2. QED
          BY <2>4, <2>8, <3>1, <4>1, <5>1
    <3>3. c[i - 1] = <<>>
      <4>1. Len(c[i - 1]) = 0
        BY <2>2, <2>8, <3>2 DEF Stacked
      <4>2. QED
        BY <2>3, <4>1
    <3>4. c[i] = Append(<<>>, "..")
      BY <2>3, <3>2, <3>3, WalkedIs
    <3>5. c[i] # <<>> /\ c[i][1] = ".."
      BY <3>4
    <3>6. ~Inside(p, i)
      BY <2>4, <2>5, <2>8
    <3>7. QED
      BY <3>5, <3>6
  <2>9. QED
    BY <2>4, <2>5, <2>6, <2>7, <2>8
<1>3. \A i \in Nat : i \in S
  <2> HIDE DEF S
  <2>1. QED
    BY <1>1, <1>2, Climb
<1>4. QED
  BY <1>0, <1>3

(* The depths of the segments that are kept count them in their order.      *)
LEMMA KeptCounted ==
    ASSUME NEW Segments, NEW p \in Seq(Segments), NEW c, IsWalk(c, p, Segments),
           Inside(p, Len(p))
    PROVE  /\ Kept(p) = KeptUpto(p, Len(p))
           /\ Cardinality(Kept(p)) = Depth(p, Len(p)) /\ Depth(p, Len(p)) \in Nat
           /\ \A j \in Kept(p) :
                 /\ Depth(p, j) \in 1..Depth(p, Len(p))
                 /\ Cardinality({k \in Kept(p) : k < j}) = Depth(p, j) - 1
           /\ \A i, j \in Kept(p) : Depth(p, i) = Depth(p, j) => i = j
<1> DEFINE n == Len(p)
           K == Kept(p)
           D(i) == Depth(p, i)
<1>0. n \in Nat /\ n \in 0..n /\ DOMAIN p = 1..n
  OBVIOUS
<1>1. K = KeptUpto(p, n)
  BY <1>0 DEF Kept, KeptUpto
<1>2. Stacked(p, c, n) /\ D(n) \in Nat
  <2>1. Stacked(p, c, n)
    BY <1>0, WalkHolds
  <2>2. D(n) \in Int /\ D(n) >= 0
    BY <1>0, DepthStep DEF Inside
  <2>3. QED
    BY <2>1, <2>2
<1>3. ASSUME NEW j \in K
      PROVE  /\ j \in 1..n /\ j \in Nat \ {0} /\ D(j) \in 1..D(n) /\ D(j) = D(j - 1) + 1
             /\ D(j - 1) \in Int
             /\ \A k \in j..n : D(k) >= D(j)
  <2>0. p[j] \notin {"", ".", ".."}
    BY <1>0, <1>1, KeptIs
  <2>1. j \in 1..n
    BY <1>0, <1>1, KeptIs
  <2>2. \A k \in j..n : D(k) >= D(j)
    BY <1>0, <1>1, KeptIs
  <2>3. j \in Nat \ {0} /\ j - 1 \in Nat /\ j - 1 \in 0..n /\ n \in j..n
    <3>1. j \in Nat \ {0} /\ j <= n
      BY <1>0, <2>1
    <3> HIDE DEF n
    <3>2. QED
      BY <1>0, <3>1
  <2>4. D(j) = D(j - 1) + 1 /\ D(j - 1) \in Int /\ D(j) \in Int
    BY <2>0, <2>3, DepthStep
  <2>5. D(j - 1) >= 0 /\ D(n) >= D(j)
    BY <2>2, <2>3 DEF Inside
  <2> HIDE DEF D
  <2>6. D(j) \in 1..D(n)
    BY <1>2, <2>4, <2>5
  <2>7. QED
    BY <2>1, <2>2, <2>3, <2>4, <2>6
<1>4. ASSUME NEW i \in K, NEW j \in K, i < j PROVE D(i) < D(j)
  <2>1. /\ i \in Nat /\ j \in 1..n /\ D(j) = D(j - 1) + 1 /\ D(j - 1) \in Int
        /\ D(i) \in 1..D(n) /\ \A k \in i..n : D(k) >= D(i)
    BY <1>3
  <2>2. j - 1 \in i..n
    BY <1>0, <1>4, <2>1
  <2>3. D(j - 1) >= D(i)
    BY <2>1, <2>2
  <2> HIDE DEF D
  <2>4. QED
    BY <1>2, <2>1, <2>3
<1>5. ASSUME NEW i \in K, NEW j \in K PROVE D(i) = D(j) => i = j
  <2>1. i \in Nat /\ j \in Nat /\ D(i) \in 1..D(n) /\ D(j) \in 1..D(n)
    BY <1>3
  <2> HIDE DEF D
  <2>2. D(i) \in Int /\ D(j) \in Int
    BY <1>2, <2>1
  <2>3. i < j \/ j < i \/ i = j
    BY <2>1
  <2>4. QED
    BY <1>4, <2>2, <2>3
<1>6. \A m \in 1..D(n) : \E j \in K : D(j) = m
  BY <1>1, <1>2 DEF Stacked
<1>7. ASSUME NEW d \in Nat, d <= D(n)
      PROVE  Cardinality({k \in K : D(k) <= d}) = d
  <2> DEFINE T == {k \in K : D(k) <= d}
             f == [k \in T |-> D(k)]
  <2>1. \A k \in T : D(k) \in 1..d /\ f[k] = D(k)
    <3>1. \A k \in T : D(k) \in 1..D(n) /\ D(k) <= d
      BY <1>3
    <3> HIDE DEF D
    <3>2. QED
      BY <1>2, <3>1
  <2>2. f \in [T -> 1..d]
    BY <2>1
  <2>3. \A i, j \in T : f[i] = f[j] => i = j
    BY <1>5, <2>1
  <2>4. ASSUME NEW m \in 1..d PROVE \E i \in T : f[i] = m
    <3>1. m \in 1..D(n) /\ m <= d
      BY <1>2, <1>7
    <3>2. PICK j \in K : D(j) = m
      BY <1>6, <3>1
    <3>3. j \in T
      BY <3>1, <3>2
    <3>4. QED
      BY <2>1, <3>2, <3>3
  <2> HIDE DEF T, f
  <2>5. Numbers(f, T, d)
    BY <2>2, <2>3, <2>4 DEF Numbers
  <2>6. Cardinality(T) = d
    BY <2>5, CountedBy
  <2>7. QED
    BY <2>6 DEF T
<1>8. Cardinality(K) = D(n)
  <2>1. {k \in K : D(k) <= D(n)} = K
    <3>1. \A k \in K : D(k) \in 1..D(n)
      BY <1>3
    <3>2. \A k \in K : D(k) <= D(n)
      <4> HIDE DEF D
      <4>1. QED
        BY <1>2, <3>1
    <3>3. QED
      BY <3>2
  <2>2. D(n) <= D(n)
    BY <1>2
  <2>3. QED
    BY <1>2, <1>7, <2>1, <2>2
<1>9. ASSUME NEW j \in K PROVE Cardinality({k \in K : k < j}) = D(j) - 1
  <2>1. D(j) \in 1..D(n) /\ j \in Nat
    BY <1>3
  <2>2. D(j) - 1 \in Nat /\ D(j) - 1 <= D(n) /\ D(j) \in Nat
    <3> HIDE DEF D
    <3>1. QED
      BY <1>2, <2>1
  <2>3. ASSUME NEW k \in K PROVE k < j <=> D(k) <= D(j) - 1
    <3>1. k \in Nat /\ D(k) \in 1..D(n)
      BY <1>3
    <3>2. D(k) \in Nat
      <4> HIDE DEF D
      <4>1. QED
        BY <1>2, <3>1
    <3>3. k < j => D(k) < D(j)
      BY <1>4
    <3>4. j < k => D(j) < D(k)
      BY <1>4
    <3>5. k = j \/ k < j \/ j < k
      BY <2>1, <3>1
    <3> HIDE DEF D
    <3>6. QED
      BY <2>1, <2>2, <3>1, <3>2, <3>3, <3>4, <3>5
  <2>4. {k \in K : k < j} = {k \in K : D(k) <= D(j) - 1}
    BY <2>3
  <2>5. QED
    BY <1>7, <2>2, <2>4
<1>10. QED
  BY <1>1, <1>2, <1>3, <1>5, <1>8, <1>9

(* Every path stays inside as accepted, whatever its segments: see          *)
(* StaysInside.                                                            *)
THEOREM PathsStayInside ==
    ASSUME NEW Segments, NEW p \in Seq(Segments)
    PROVE  StaysInside(p)
<1> DEFINE n == Len(p)
           inside == (\A i \in DOMAIN p : Depth(p, i) >= 0) /\ Depth(p, Len(p)) > 0
           At(k) == CHOOSE i \in Kept(p) : Cardinality({j \in Kept(p) : j < i}) = k - 1
<1>1. PICK c : IsWalk(c, p, Segments)
  BY CleanIsWalk
<1>2. n \in Nat /\ n \in 0..n /\ DOMAIN p = 1..n /\ Depth(p, n) \in Int
  <2>1. n \in Nat /\ n \in 0..n /\ DOMAIN p = 1..n
    OBVIOUS
  <2>2. QED
    BY <2>1, DepthStep
<1>3. Clean(p) = c[n] /\ c[n] \in Seq(Segments)
  BY <1>2, <1>1 DEF IsWalk
<1>4. (\A i \in DOMAIN p : Depth(p, i) >= 0) <=> Inside(p, n)
  <2>1. Depth(p, 0) = 0
    BY DepthStep
  <2>2. 0..n = (1..n) \cup {0} /\ DOMAIN p = 1..n
    OBVIOUS
  <2>3. QED
    BY <2>1, <2>2 DEF Inside
<1>5. p = <<"">> => Depth(p, n) = 0
  <2>1. SUFFICES ASSUME p = <<"">> PROVE Depth(p, 1) = 0
    OBVIOUS
  <2>2. p[1] = ""
    BY <2>1
  <2>3. Depth(p, 1) = Depth(p, 1 - 1) /\ Depth(p, 0) = 0
    <3>1. p[1] \in {"", "."}
      BY <2>2, Zenon
    <3>2. 1 \in Nat \ {0}
      OBVIOUS
    <3>3. QED
      BY <3>1, <3>2, DepthStep
  <2>4. QED
    BY <2>3
<1>6. Inside(p, n) =>
        /\ Len(c[n]) = Depth(p, n)
        /\ \A m \in 1..Depth(p, n) :
              \E j \in Kept(p) : Depth(p, j) = m /\ c[n][m] = p[j] /\ p[j] # ".."
  <2>1. SUFFICES ASSUME Inside(p, n)
                 PROVE  /\ Len(c[n]) = Depth(p, n)
                        /\ \A m \in 1..Depth(p, n) :
                              \E j \in Kept(p) :
                                 Depth(p, j) = m /\ c[n][m] = p[j] /\ p[j] # ".."
    OBVIOUS
  <2>2. Stacked(p, c, n) /\ Kept(p) = KeptUpto(p, n)
    BY <1>1, <1>2, <2>1, WalkHolds, KeptCounted
  <2>3. \A j \in KeptUpto(p, n) : p[j] # ".."
    BY DEF KeptUpto
  <2>4. QED
    BY <2>2, <2>3 DEF Stacked
<1>7. AcceptsPath(p) <=> inside /\ ~IsAbs(p)
  <2>1. CASE ~Inside(p, n)
    <3>1. c[n] # <<>> /\ c[n][1] = ".."
      BY <1>1, <1>2, <2>1, WalkHolds
    <3>2. QED
      BY <1>3, <1>4, <2>1, <3>1 DEF AcceptsPath, NormalizedPath
  <2>2. CASE Inside(p, n) /\ Depth(p, n) > 0
    <3>1. 1 \in 1..Depth(p, n)
      BY <1>2, <2>2
    <3>2. c[n][1] # ".." /\ Len(c[n]) > 0
      BY <1>6, <2>2, <3>1
    <3>3. c[n] # <<>>
      BY <3>2
    <3>4. p # <<"">>
      <4>1. Depth(p, n) # 0
        BY <1>2, <2>2
      <4>2. QED
        BY <1>5, <4>1, Zenon
    <3>5. QED
      BY <1>3, <1>4, <2>2, <3>2, <3>3, <3>4 DEF AcceptsPath, NormalizedPath
  <2>3. CASE Inside(p, n) /\ ~(Depth(p, n) > 0)
    <3>1. Len(c[n]) = 0
      BY <1>2, <1>3, <1>6, <2>3
    <3>2. c[n] = <<>>
      BY <1>3, <3>1
    <3>3. QED
      BY <1>3, <2>3, <3>2 DEF AcceptsPath, NormalizedPath
  <2>4. QED
    BY <2>1, <2>2, <2>3
<1>8. ASSUME AcceptsPath(p)
      PROVE  NormalizedPath(p) = [k \in 1..Cardinality(Kept(p)) |-> p[At(k)]]
  <2>1. Inside(p, n)
    BY <1>4, <1>7, <1>8
  <2>2. /\ Cardinality(Kept(p)) = Depth(p, n) /\ Depth(p, n) \in Nat
        /\ \A j \in Kept(p) :
              /\ Depth(p, j) \in 1..Depth(p, n)
              /\ Cardinality({k \in Kept(p) : k < j}) = Depth(p, j) - 1
        /\ \A i, j \in Kept(p) : Depth(p, i) = Depth(p, j) => i = j
    BY <1>1, <2>1, KeptCounted
  <2>3. Len(c[n]) = Depth(p, n)
    BY <1>6, <2>1
  <2>4. ASSUME NEW m \in 1..Depth(p, n) PROVE c[n][m] = p[At(m)]
    <3>1. PICK j \in Kept(p) : Depth(p, j) = m /\ c[n][m] = p[j]
      BY <1>6, <2>1
    <3>2. \A i \in Kept(p) :
             Cardinality({k \in Kept(p) : k < i}) = m - 1 <=> Depth(p, i) = m
      <4>1. ASSUME NEW i \in Kept(p)
            PROVE  Cardinality({k \in Kept(p) : k < i}) = m - 1 <=> Depth(p, i) = m
        <5>1. /\ Cardinality({k \in Kept(p) : k < i}) = Depth(p, i) - 1
              /\ Depth(p, i) \in Int /\ m \in Int
          BY <2>2
        <5>2. QED
          BY <5>1
      <4>2. QED
        BY <4>1
    <3>3. At(m) \in Kept(p) /\ Cardinality({k \in Kept(p) : k < At(m)}) = m - 1
      BY <3>1, <3>2
    <3>4. At(m) = j
      <4> HIDE DEF At
      <4>1. QED
        BY <2>2, <3>1, <3>2, <3>3
    <3>5. QED
      BY <3>1, <3>4
  <2>5. c[n] = [k \in 1..Len(c[n]) |-> c[n][k]]
    BY <1>3
  <2> HIDE DEF At
  <2>6. c[n] = [k \in 1..Depth(p, n) |-> p[At(k)]]
    BY <2>3, <2>4, <2>5
  <2>7. QED
    BY <1>3, <2>2, <2>6 DEF NormalizedPath
<1>9. QED
  BY <1>7, <1>8 DEF StaysInside

----------------------------------------------------------------------------
(* Lists *)

IsList(e) == e \in Seq(Range(e))

(* Every sequence is a list.                                               *)
LEMMA ListOf ==
    ASSUME NEW V, NEW e \in Seq(V)
    PROVE  IsList(e) /\ Range(e) \subseteq V /\ Len(e) \in Nat /\ DOMAIN e = 1..Len(e)
<1>1. Len(e) \in Nat /\ DOMAIN e = 1..Len(e) /\ e \in [1..Len(e) -> V]
  OBVIOUS
<1>2. e \in [1..Len(e) -> Range(e)]
  BY <1>1 DEF Range
<1>3. e \in Seq(Range(e))
  BY <1>1, <1>2
<1>4. QED
  BY <1>1, <1>3 DEF IsList, Range

(* The members of a list.                                                   *)
LEMMA ListIs ==
    ASSUME NEW e, IsList(e)
    PROVE  Len(e) \in Nat /\ DOMAIN e = 1..Len(e) /\ \A i \in 1..Len(e) : e[i] \in Range(e)
  BY DEF IsList, Range

----------------------------------------------------------------------------
(* Words *)

LettersOf(name) == {i \in DOMAIN name : IsLetter(name[i])}

(* The letters of a and of b are the same and stand in the same order, those *)
(* next to each other in the one next to each other in the other: f tells   *)
(* where in b each letter of a is, g where in a each letter of b is.        *)
Alike(a, b, f, g) ==
    /\ f \in [LettersOf(a) -> LettersOf(b)] /\ g \in [LettersOf(b) -> LettersOf(a)]
    /\ \A i \in LettersOf(a) : g[f[i]] = i /\ b[f[i]] = a[i]
    /\ \A j \in LettersOf(b) : f[g[j]] = j
    /\ \A i, k \in LettersOf(a) : i < k => f[i] < f[k]
    /\ \A i \in LettersOf(a) : i + 1 \in LettersOf(a) => f[i + 1] = f[i] + 1
    /\ \A j \in LettersOf(b) : j + 1 \in LettersOf(b) => g[j + 1] = g[j] + 1

(* Letters stand at positions of their name.                                *)
LEMMA LettersArePositions ==
    ASSUME NEW Chars, NEW a \in Seq(Chars)
    PROVE  \A i \in LettersOf(a) : i \in Nat \ {0} /\ i <= Len(a) /\ i \in 1..Len(a)
<1>1. Len(a) \in Nat /\ DOMAIN a = 1..Len(a)
  OBVIOUS
<1>2. QED
  BY <1>1 DEF LettersOf

(* What a part of a sequence holds.                                         *)
LEMMA CutIs ==
    ASSUME NEW Chars, NEW a \in Seq(Chars), NEW i \in 1..Len(a), NEW j \in 1..Len(a), i <= j
    PROVE  /\ Len(SubSeq(a, i, j)) = (j - i) + 1 /\ SubSeq(a, i, j) \in Seq(Chars)
           /\ \A k \in 1..((j - i) + 1) : SubSeq(a, i, j)[k] = a[i + k - 1]
<1>1. Len(SubSeq(a, i, j)) = (j - i) + 1 /\ SubSeq(a, i, j) \in Seq(Chars)
  OBVIOUS
<1>2. \A k \in 1..((j - i) + 1) : SubSeq(a, i, j)[k] = a[i + k - 1]
  OBVIOUS
<1>3. QED
  BY <1>1, <1>2

(* Sequences that agree everywhere are one.                                 *)
LEMMA SameSequence ==
    ASSUME NEW Chars, NEW a \in Seq(Chars), NEW b \in Seq(Chars), Len(a) = Len(b),
           \A k \in 1..Len(a) : a[k] = b[k]
    PROVE  a = b
OBVIOUS

(* If a is like b, b is like a.                                             *)
LEMMA AlikeIsSymmetric ==
    ASSUME NEW Chars, NEW a \in Seq(Chars), NEW b \in Seq(Chars), NEW f, NEW g,
           Alike(a, b, f, g)
    PROVE  Alike(b, a, g, f)
<1>1. ASSUME NEW j \in LettersOf(b), NEW k \in LettersOf(b), j < k PROVE g[j] < g[k]
  <2>1. g[j] \in LettersOf(a) /\ g[k] \in LettersOf(a) /\ f[g[j]] = j /\ f[g[k]] = k
    BY DEF Alike
  <2>2. g[j] \in Nat /\ g[k] \in Nat /\ j \in Nat /\ k \in Nat
    BY <2>1, LettersArePositions
  <2>3. ~(g[k] < g[j]) /\ g[j] # g[k]
    BY <1>1, <2>1, <2>2 DEF Alike
  <2>4. QED
    BY <2>2, <2>3
<1>2. \A j \in LettersOf(b) : f[g[j]] = j /\ a[g[j]] = b[j]
  BY DEF Alike
<1>3. QED
  BY <1>1, <1>2 DEF Alike

(* A run of letters, as set of its two ends.                                *)
LEMMA RunIs ==
    ASSUME NEW Chars, NEW a \in Seq(Chars), NEW i, NEW j
    PROVE  <<i, j>> \in LetterRuns(a) <=>
             /\ i \in LettersOf(a) /\ j \in LettersOf(a) /\ i <= j
             /\ \A k \in i..j : k \in LettersOf(a)
             /\ i - 1 \notin LettersOf(a) /\ j + 1 \notin LettersOf(a)
<1>1. Len(a) \in Nat /\ DOMAIN a = 1..Len(a)
  OBVIOUS
<1>2. ASSUME NEW k \in Int
      PROVE  k \notin LettersOf(a) <=> k < 1 \/ k > Len(a) \/ ~IsLetter(a[k])
  BY <1>1 DEF LettersOf
<1>3. ASSUME i \in 1..Len(a), j \in 1..Len(a), i <= j
      PROVE  /\ \A k \in i..j : k \in 1..Len(a)
             /\ i \in i..j /\ j \in i..j /\ i - 1 \in Int /\ j + 1 \in Int
             /\ i - 1 < 1 <=> i - 1 = 0
             /\ ~(i - 1 > Len(a)) /\ j + 1 # 0 /\ ~(j + 1 < 1)
  BY <1>1, <1>3
<1>4. CASE i \in 1..Len(a) /\ j \in 1..Len(a) /\ i <= j
  <2>1. <<i, j>> \in LetterRuns(a) <=>
          /\ \A k \in i..j : IsLetter(a[k])
          /\ i - 1 = 0 \/ i - 1 > Len(a) \/ ~IsLetter(a[i - 1])
          /\ j + 1 = 0 \/ j + 1 > Len(a) \/ ~IsLetter(a[j + 1])
    BY <1>1, <1>4 DEF LetterRuns
  <2>2. (\A k \in i..j : IsLetter(a[k])) <=> (\A k \in i..j : k \in LettersOf(a))
    BY <1>1, <1>3, <1>4 DEF LettersOf
  <2>3. (\A k \in i..j : k \in LettersOf(a)) => i \in LettersOf(a) /\ j \in LettersOf(a)
    BY <1>3, <1>4
  <2>4. i - 1 \notin LettersOf(a) <=> (i - 1 = 0 \/ i - 1 > Len(a) \/ ~IsLetter(a[i - 1]))
    BY <1>2, <1>3, <1>4
  <2>5. j + 1 \notin LettersOf(a) <=> (j + 1 = 0 \/ j + 1 > Len(a) \/ ~IsLetter(a[j + 1]))
    BY <1>2, <1>3, <1>4
  <2>6. QED
    BY <1>4, <2>1, <2>2, <2>3, <2>4, <2>5
<1>5. CASE ~(i \in 1..Len(a) /\ j \in 1..Len(a) /\ i <= j)
  BY <1>1, <1>5 DEF LetterRuns, LettersOf
<1>6. QED
  BY <1>4, <1>5

(* Within a run, f advances with the letters.                               *)
LEMMA AlongRun ==
    ASSUME NEW Chars, NEW a \in Seq(Chars), NEW b \in Seq(Chars), NEW f, NEW g,
           Alike(a, b, f, g), NEW i, NEW j, <<i, j>> \in LetterRuns(a)
    PROVE  \A k \in i..j : f[k] = f[i] + (k - i)
<1>1. /\ i \in LettersOf(a) /\ j \in LettersOf(a) /\ i <= j
      /\ \A k \in i..j : k \in LettersOf(a)
  BY RunIs
<1>2. i \in Nat /\ j \in Nat /\ f[i] \in Nat
  BY <1>1, LettersArePositions DEF Alike
<1> DEFINE S == {n \in Nat : i + n <= j => f[i + n] = f[i] + n}
<1>3. 0 \in S
  BY <1>2
<1>4. ASSUME NEW n \in Nat, n \in S PROVE n + 1 \in S
  <2>1. SUFFICES ASSUME i + (n + 1) <= j PROVE f[i + (n + 1)] = f[i] + (n + 1)
    OBVIOUS
  <2>2. i + n \in i..j /\ (i + n) + 1 \in i..j /\ (i + n) + 1 = i + (n + 1) /\ i + n <= j
    BY <1>2, <2>1
  <2>3. f[(i + n) + 1] = f[i + n] + 1 /\ f[i + n] = f[i] + n
    BY <1>1, <1>4, <2>2 DEF Alike
  <2>4. QED
    BY <1>2, <2>2, <2>3
<1>5. ASSUME NEW k \in i..j PROVE f[k] = f[i] + (k - i)
  <2>1. k - i \in Nat /\ i + (k - i) = k /\ k <= j
    BY <1>2
  <2>2. k - i \in S
    <3> HIDE DEF S
    <3>1. QED
      BY <1>3, <1>4, <2>1, Climb
  <2>3. QED
    BY <2>1, <2>2
<1>6. QED
  BY <1>5

(* A run of a has its place in b, and says the same there.                  *)
GoesOver(a, b, f, i, j) ==
    <<f[i], f[j]>> \in LetterRuns(b) /\ SubSeq(b, f[i], f[j]) = SubSeq(a, i, j)

(* Every run of a goes over into one of b.                                  *)
LEMMA RunGoesOver ==
    ASSUME NEW Chars, NEW a \in Seq(Chars), NEW b \in Seq(Chars), NEW f, NEW g,
           Alike(a, b, f, g), NEW i, NEW j, <<i, j>> \in LetterRuns(a)
    PROVE  GoesOver(a, b, f, i, j)
<1>1. /\ i \in LettersOf(a) /\ j \in LettersOf(a) /\ i <= j
      /\ \A k \in i..j : k \in LettersOf(a)
      /\ i - 1 \notin LettersOf(a) /\ j + 1 \notin LettersOf(a)
  BY RunIs
<1>2. i \in Nat /\ j \in Nat /\ f[i] \in LettersOf(b) /\ f[j] \in LettersOf(b)
  BY <1>1, LettersArePositions DEF Alike
<1>3. f[i] \in Nat /\ f[j] \in Nat
  BY <1>2, LettersArePositions
<1>4. \A k \in i..j : f[k] = f[i] + (k - i)
  BY AlongRun
<1>5. j \in i..j /\ f[j] = f[i] + (j - i) /\ f[i] <= f[j]
  <2>1. j \in i..j
    BY <1>1, <1>2
  <2>2. f[j] = f[i] + (j - i)
    BY <1>4, <2>1
  <2>3. QED
    BY <1>1, <1>2, <1>3, <2>1, <2>2
<1>6. ASSUME NEW m \in f[i]..f[j]
      PROVE  i + (m - f[i]) \in i..j /\ f[i + (m - f[i])] = m
  <2>1. i + (m - f[i]) \in i..j /\ (i + (m - f[i])) - i = m - f[i]
    BY <1>2, <1>3, <1>5
  <2>2. f[i + (m - f[i])] = f[i] + ((i + (m - f[i])) - i)
    BY <1>4, <2>1
  <2>3. QED
    BY <1>3, <2>1, <2>2
<1>7. \A m \in f[i]..f[j] : m \in LettersOf(b)
  BY <1>1, <1>6 DEF Alike
<1>8. f[i] - 1 \notin LettersOf(b)
  <2>1. SUFFICES ASSUME f[i] - 1 \in LettersOf(b) PROVE FALSE
    OBVIOUS
  <2>2. (f[i] - 1) + 1 = f[i]
    BY <1>3
  <2>3. g[f[i]] = g[f[i] - 1] + 1 /\ g[f[i]] = i /\ g[f[i] - 1] \in LettersOf(a)
    BY <1>1, <1>2, <2>1, <2>2, ZenonT(60) DEF Alike
  <2>4. g[f[i] - 1] = i - 1
    BY <1>2, <2>3, LettersArePositions
  <2>5. QED
    BY <1>1, <2>3, <2>4
<1>9. f[j] + 1 \notin LettersOf(b)
  <2>1. SUFFICES ASSUME f[j] + 1 \in LettersOf(b) PROVE FALSE
    OBVIOUS
  <2>2. g[f[j] + 1] = g[f[j]] + 1 /\ g[f[j]] = j /\ g[f[j] + 1] \in LettersOf(a)
    BY <1>1, <1>2, <2>1 DEF Alike
  <2>3. QED
    BY <1>1, <2>2
<1>10. <<f[i], f[j]>> \in LetterRuns(b)
  BY <1>2, <1>5, <1>7, <1>8, <1>9, RunIs
<1>11. SubSeq(b, f[i], f[j]) = SubSeq(a, i, j)
  <2> DEFINE n == (j - i) + 1
  <2>1. /\ Len(SubSeq(a, i, j)) = n /\ SubSeq(a, i, j) \in Seq(Chars)
        /\ \A k \in 1..n : SubSeq(a, i, j)[k] = a[i + k - 1]
    BY <1>1, LettersArePositions, CutIs
  <2>2. /\ Len(SubSeq(b, f[i], f[j])) = n /\ SubSeq(b, f[i], f[j]) \in Seq(Chars)
        /\ \A k \in 1..n : SubSeq(b, f[i], f[j])[k] = b[f[i] + k - 1]
    <3>1. (f[j] - f[i]) + 1 = n /\ f[i] \in 1..Len(b) /\ f[j] \in 1..Len(b) /\ f[i] <= f[j]
      BY <1>2, <1>3, <1>5, LettersArePositions
    <3> HIDE DEF n
    <3>2. QED
      BY <3>1, CutIs, SMTT(30)
  <2>3. ASSUME NEW k \in 1..n PROVE b[f[i] + k - 1] = a[i + k - 1]
    <3>1. i + k - 1 \in i..j /\ (i + k - 1) - i = k - 1
      BY <1>2
    <3>2. f[i + k - 1] = f[i] + k - 1
      BY <1>2, <1>3, <1>4, <3>1
    <3>3. QED
      BY <1>1, <3>1, <3>2 DEF Alike
  <2>4. \A k \in 1..n : SubSeq(b, f[i], f[j])[k] = SubSeq(a, i, j)[k]
    BY <2>1, <2>2, <2>3
  <2> HIDE DEF n
  <2>5. QED
    BY <2>1, <2>2, <2>4, SameSequence
<1>12. QED
  BY <1>10, <1>11 DEF GoesOver

(* Sets whose members correspond to each other are of one size.             *)
Pairs(h, S, T) ==
    /\ \A x \in S : h[x] \in T
    /\ \A x, y \in S : h[x] = h[y] => x = y
    /\ \A t \in T : \E x \in S : h[x] = t

(* Correspondence, counted.                                                 *)
LEMMA SameSize ==
    ASSUME NEW S, IsFiniteSet(S), NEW T, NEW h, Pairs(h, S, T)
    PROVE  Cardinality(T) = Cardinality(S)
<1> DEFINE k == [x \in S |-> h[x]]
<1>1. k \in [S -> T]
  BY DEF Pairs
<1>2. \A x, y \in S : k[x] = k[y] => x = y
  BY DEF Pairs
<1>3. \A t \in T : \E x \in S : k[x] = t
  BY DEF Pairs
<1> HIDE DEF k
<1>4. k \in Bijection(S, T)
  BY <1>1, <1>2, <1>3 DEF Bijection, Injection, Surjection, IsInjective
<1>5. ExistsBijection(S, T)
  BY <1>4 DEF ExistsBijection
<1>6. QED
  BY <1>5, FS_Bijection

(* A name has finitely many runs.                                           *)
LEMMA RunsAreFinite ==
    ASSUME NEW Chars, NEW a \in Seq(Chars)
    PROVE  IsFiniteSet(LetterRuns(a))
<1>1. Len(a) \in Nat /\ DOMAIN a = 1..Len(a)
  OBVIOUS
<1>2. IsFiniteSet(DOMAIN a)
  BY <1>1, FS_Interval
<1>3. IsFiniteSet((DOMAIN a) \X (DOMAIN a))
  BY <1>2, FS_Product
<1>4. LetterRuns(a) \in SUBSET ((DOMAIN a) \X (DOMAIN a))
  BY DEF LetterRuns
<1>5. QED
  BY <1>3, <1>4, FS_Subset

(* The ends of a run are letters.                                           *)
LEMMA RunsArePairs ==
    ASSUME NEW Chars, NEW a \in Seq(Chars), NEW r \in LetterRuns(a)
    PROVE  /\ r = <<r[1], r[2]>> /\ r[1] \in LettersOf(a) /\ r[2] \in LettersOf(a)
           /\ r[1] \in Nat /\ r[2] \in Nat
<1>1. r = <<r[1], r[2]>>
  BY DEF LetterRuns
<1>2. <<r[1], r[2]>> \in LetterRuns(a)
  BY <1>1
<1>3. r[1] \in LettersOf(a) /\ r[2] \in LettersOf(a)
  BY <1>2, RunIs
<1>4. QED
  BY <1>1, <1>3, LettersArePositions

(* Names whose letters are alike have the same words.                       *)
LEMMA WordsAlike ==
    ASSUME NEW Chars, NEW a \in Seq(Chars), NEW b \in Seq(Chars), NEW f, NEW g,
           Alike(a, b, f, g)
    PROVE  Words(a) = Words(b)
<1> DEFINE A == LetterRuns(a)
           B == LetterRuns(b)
           h == [r \in A |-> <<f[r[1]], f[r[2]]>>]
           Before(r) == {s \in A : s[1] < r[1]}
           BeforeB(r) == {s \in B : s[1] < r[1]}
<1>0. ASSUME NEW i, NEW j, <<i, j>> \in A
      PROVE  <<f[i], f[j]>> \in B /\ SubSeq(b, f[i], f[j]) = SubSeq(a, i, j)
  <2>1. <<i, j>> \in LetterRuns(a) /\ Alike(a, b, f, g)
    BY <1>0
  <2> HIDE DEF A, B, h
  <2>2. GoesOver(a, b, f, i, j)
    BY <2>1, RunGoesOver
  <2>3. QED
    BY <2>2 DEF GoesOver, B
<1>1. ASSUME NEW r \in A
      PROVE  /\ h[r] \in B /\ h[r][1] = f[r[1]] /\ h[r][2] = f[r[2]]
             /\ SubSeq(b, h[r][1], h[r][2]) = SubSeq(a, r[1], r[2])
  <2>1. <<r[1], r[2]>> \in LetterRuns(a)
    BY RunsArePairs
  <2>2. /\ <<f[r[1]], f[r[2]]>> \in LetterRuns(b)
        /\ SubSeq(b, f[r[1]], f[r[2]]) = SubSeq(a, r[1], r[2])
    BY <1>0, <2>1
  <2>3. QED
    BY <2>2
<1>2. ASSUME NEW t \in B PROVE \E r \in A : h[r] = t
  <2>1. Alike(b, a, g, f)
    BY AlikeIsSymmetric
  <2>2. t = <<t[1], t[2]>> /\ t[1] \in LettersOf(b) /\ t[2] \in LettersOf(b)
    BY RunsArePairs
  <2>3. <<g[t[1]], g[t[2]]>> \in LetterRuns(a)
    BY <2>1, <2>2, RunGoesOver DEF GoesOver
  <2>4. f[g[t[1]]] = t[1] /\ f[g[t[2]]] = t[2]
    BY <2>2 DEF Alike
  <2>5. h[<<g[t[1]], g[t[2]]>>] = <<t[1], t[2]>>
    BY <2>3, <2>4
  <2>6. QED
    BY <2>2, <2>3, <2>5
<1>3. ASSUME NEW r \in A, NEW s \in A
      PROVE  /\ s[1] < r[1] <=> h[s][1] < h[r][1]
             /\ h[r] = h[s] => r = s
  <2>1. /\ r[1] \in LettersOf(a) /\ s[1] \in LettersOf(a) /\ r[1] \in Nat /\ s[1] \in Nat
        /\ r[2] \in LettersOf(a) /\ s[2] \in LettersOf(a) /\ r = <<r[1], r[2]>> /\ s = <<s[1], s[2]>>
    BY RunsArePairs
  <2>2. f[r[1]] \in Nat /\ f[s[1]] \in Nat
    BY <2>1, LettersArePositions DEF Alike
  <2>3. s[1] < r[1] => f[s[1]] < f[r[1]]
    BY <2>1 DEF Alike
  <2>4. r[1] < s[1] => f[r[1]] < f[s[1]]
    BY <2>1 DEF Alike
  <2>5. s[1] < r[1] <=> h[s][1] < h[r][1]
    <3>1. r[1] = s[1] => f[r[1]] = f[s[1]]
      OBVIOUS
    <3>2. s[1] < r[1] <=> f[s[1]] < f[r[1]]
      BY <2>1, <2>2, <2>3, <2>4, <3>1
    <3>3. h[s][1] = f[s[1]] /\ h[r][1] = f[r[1]]
      BY <1>1
    <3>4. QED
      BY <3>2, <3>3
  <2>6. h[r] = h[s] => r = s
    <3>1. SUFFICES ASSUME h[r] = h[s] PROVE r = s
      OBVIOUS
    <3>2. f[r[1]] = f[s[1]] /\ f[r[2]] = f[s[2]]
      BY <1>1, <3>1
    <3>3. r[1] = s[1] /\ r[2] = s[2]
      <4>1. /\ g[f[r[1]]] = r[1] /\ g[f[s[1]]] = s[1]
            /\ g[f[r[2]]] = r[2] /\ g[f[s[2]]] = s[2]
        BY <2>1 DEF Alike
      <4>2. QED
        BY <3>2, <4>1
    <3>4. QED
      BY <2>1, <3>3
  <2>7. QED
    BY <2>5, <2>6
<1> HIDE DEF h
<1>4. Cardinality(B) = Cardinality(A)
  <2>1. Pairs(h, A, B)
    BY <1>1, <1>2, <1>3 DEF Pairs
  <2>2. QED
    BY <2>1, RunsAreFinite, SameSize
<1>5. ASSUME NEW r \in A PROVE Cardinality(BeforeB(h[r])) = Cardinality(Before(r))
  <2>1. Pairs(h, Before(r), BeforeB(h[r]))
    <3>1. \A s \in Before(r) : h[s] \in BeforeB(h[r])
      BY <1>1, <1>3
    <3>2. \A t \in BeforeB(h[r]) : \E s \in Before(r) : h[s] = t
      BY <1>2, <1>3
    <3>3. \A s, t \in Before(r) : h[s] = h[t] => s = t
      BY <1>3
    <3> HIDE DEF Before, BeforeB
    <3>4. QED
      BY <3>1, <3>2, <3>3 DEF Pairs
  <2>2. IsFiniteSet(Before(r))
    <3>1. Before(r) \in SUBSET A /\ IsFiniteSet(A)
      BY RunsAreFinite
    <3>2. QED
      BY <3>1, FS_Subset
  <2> HIDE DEF Before, BeforeB
  <2>3. QED
    BY <2>1, <2>2, SameSize
<1> DEFINE Said(k) == {SubSeq(a, r[1], r[2]) : r \in {r \in A : Cardinality(Before(r)) = k - 1}}
           SaidB(k) == {SubSeq(b, r[1], r[2]) : r \in {r \in B : Cardinality(BeforeB(r)) = k - 1}}
<1>6. ASSUME NEW k PROVE Said(k) = SaidB(k)
  <2> HIDE DEF Before, BeforeB
  <2>1. ASSUME NEW w \in Said(k) PROVE w \in SaidB(k)
    <3>1. PICK r \in A : Cardinality(Before(r)) = k - 1 /\ w = SubSeq(a, r[1], r[2])
      OBVIOUS
    <3>2. h[r] \in B /\ Cardinality(BeforeB(h[r])) = k - 1 /\ w = SubSeq(b, h[r][1], h[r][2])
      BY <1>1, <1>5, <3>1
    <3>3. QED
      BY <3>2
  <2>2. ASSUME NEW w \in SaidB(k) PROVE w \in Said(k)
    <3>1. PICK t \in B : Cardinality(BeforeB(t)) = k - 1 /\ w = SubSeq(b, t[1], t[2])
      OBVIOUS
    <3>2. PICK r \in A : h[r] = t
      BY <1>2
    <3>3. Cardinality(Before(r)) = k - 1 /\ w = SubSeq(a, r[1], r[2])
      BY <1>1, <1>5, <3>1, <3>2
    <3>4. QED
      BY <3>3
  <2>3. QED
    BY <2>1, <2>2
<1>7. A = {} <=> B = {}
  BY <1>1, <1>2
<1>8. /\ Words(a) = IF A = {} THEN <<DefaultName>>
                    ELSE [k \in 1..Cardinality(A) |-> CHOOSE word \in Said(k) : TRUE]
      /\ Words(b) = IF B = {} THEN <<DefaultName>>
                    ELSE [k \in 1..Cardinality(B) |-> CHOOSE word \in SaidB(k) : TRUE]
  BY DEF Words
<1> DEFINE Word(k) == CHOOSE word \in Said(k) : TRUE
           WordB(k) == CHOOSE word \in SaidB(k) : TRUE
<1> HIDE DEF A, B, Said, SaidB
<1>9. ASSUME NEW k PROVE Word(k) = WordB(k)
  BY <1>6
<1>10. /\ A = {} => Words(a) = <<DefaultName>>
       /\ A # {} => Words(a) = [k \in 1..Cardinality(A) |-> Word(k)]
       /\ B = {} => Words(b) = <<DefaultName>>
       /\ B # {} => Words(b) = [k \in 1..Cardinality(B) |-> WordB(k)]
  BY <1>8
<1> HIDE DEF Word, WordB
<1>11. [k \in 1..Cardinality(A) |-> Word(k)] = [k \in 1..Cardinality(B) |-> WordB(k)]
  BY <1>4, <1>9
<1>12. QED
  BY <1>7, <1>10, <1>11, Zenon

----------------------------------------------------------------------------
(* What SanitizeName writes *)

(* The three things that a character can do.                                *)
LEMMA WrittenIs ==
    ASSUME NEW before, NEW c
    PROVE  LET idle == before = <<>> \/ before[Len(before)] = "-"
           IN /\ IsLetter(c) => Written(before, c) = Append(before, c)
              /\ ~IsLetter(c) /\ idle => Written(before, c) = before
              /\ ~IsLetter(c) /\ ~idle => Written(before, c) = Append(before, "-")
BY DEF Written, Last

(* SanitizeName writes characters of the value, and hyphens.                *)
LEMMA WrittenType ==
    ASSUME NEW Chars, "-" \in Chars, NEW before \in Seq(Chars), NEW c \in Chars
    PROVE  Written(before, c) \in Seq(Chars)
<1>1. Append(before, c) \in Seq(Chars) /\ Append(before, "-") \in Seq(Chars)
  OBVIOUS
<1>2. QED
  BY <1>1, WrittenIs

(* What is written after each character of a value, and what becomes of it. *)
IsWriting(w, v, Chars) ==
    /\ w \in [0..Len(v) -> Seq(Chars)] /\ w[0] = <<>>
    /\ \A i \in 1..Len(v) : w[i] = Written(w[i - 1], v[i])
    /\ SanitizeName(v) = OrDefault(TrimHyphens(w[Len(v)]))

(* SanitizeName is the writing of all characters, trimmed.                  *)
LEMMA SanitizeNameIsWriting ==
    ASSUME NEW Chars, "-" \in Chars, NEW v \in Seq(Chars)
    PROVE  \E w : IsWriting(w, v, Chars)
<1> DEFINE X == Seq(Chars)
           step == [x \in (1..Len(v)) \X X |-> Written(x[2], v[x[1]])]
           Body(c) == [i \in 0..Len(v) |-> IF i = 0 THEN <<>> ELSE Written(c[i - 1], v[i])]
<1>1. step \in [(1..Len(v)) \X X -> X] /\ <<>> \in X /\ Len(v) \in Nat
  <2>1. ASSUME NEW x \in (1..Len(v)) \X X PROVE Written(x[2], v[x[1]]) \in X
    <3>1. x[2] \in Seq(Chars) /\ v[x[1]] \in Chars
      OBVIOUS
    <3>2. QED
      BY <3>1, WrittenType
  <2>2. <<>> \in X /\ Len(v) \in Nat
    OBVIOUS
  <2> HIDE DEF X
  <2>3. QED
    BY <2>1, <2>2
<1> HIDE DEF X
<1>2. PICK w : Follows(w, Len(v), <<>>, X, step)
  <2> HIDE DEF step
  <2>1. QED
    BY <1>1, Recursion
<1>3. ASSUME NEW i \in 1..Len(v) PROVE w[i] = Written(w[i - 1], v[i])
  <2>1. i - 1 \in 0..Len(v)
    BY <1>1
  <2>2. <<i, w[i - 1]>> \in (1..Len(v)) \X X
    BY <1>2, <2>1 DEF Follows
  <2>3. QED
    BY <1>2, <2>2 DEF Follows
<1>4. w = Body(w)
  BY <1>2, <1>3 DEF Follows
<1>5. ASSUME NEW d, d = Body(d) PROVE d = w
  <2> DEFINE S == {i \in Nat : i <= Len(v) => d[i] = w[i]}
  <2>1. d = [i \in 0..Len(v) |-> d[i]] /\ w = [i \in 0..Len(v) |-> w[i]]
    BY <1>2, <1>5 DEF Follows
  <2>2. 0 \in S
    BY <1>1, <1>2, <1>5 DEF Follows
  <2>3. ASSUME NEW i \in Nat, i \in S PROVE i + 1 \in S
    <3>1. SUFFICES ASSUME i + 1 <= Len(v) PROVE d[i + 1] = w[i + 1]
      OBVIOUS
    <3>2. i + 1 \in 0..Len(v) /\ i + 1 \in 1..Len(v) /\ (i + 1) - 1 = i /\ d[i] = w[i]
      BY <1>1, <2>3, <3>1
    <3>3. Body(d)[i + 1] = Written(d[i], v[i + 1])
      BY <3>2
    <3>4. QED
      BY <1>3, <1>5, <3>2, <3>3
  <2>4. \A i \in 0..Len(v) : d[i] = w[i]
    <3> HIDE DEF S
    <3>1. \A i \in Nat : i \in S
      BY <2>2, <2>3, Climb
    <3>2. QED
      BY <1>1, <3>1 DEF S
  <2>5. QED
    BY <2>1, <2>4
<1>6. (CHOOSE d : d = Body(d)) = w
  <2> HIDE DEF Body
  <2>1. QED
    BY <1>4, <1>5
<1>7. SanitizeName(v) = OrDefault(TrimHyphens((CHOOSE d : d = Body(d))[Len(v)]))
  BY DEF SanitizeName
<1>8. QED
  BY <1>2, <1>3, <1>6, <1>7 DEF X, Follows, IsWriting

(* One character: what was written stays, a letter makes one more, and       *)
(* anything else a hyphen, if there is something for it to stand after.     *)
Writes(before, c, after) ==
    /\ Len(before) \in Nat /\ Len(after) \in Nat
    /\ IsLetter(c) => Len(after) = Len(before) + 1 /\ after[Len(after)] = c
    /\ ~IsLetter(c) =>
          \/ after = before /\ (before = <<>> \/ before[Len(before)] = "-")
          \/ /\ Len(after) = Len(before) + 1 /\ after[Len(after)] = "-"
             /\ before # <<>> /\ before[Len(before)] # "-"
    /\ \A k \in 1..Len(before) : after[k] = before[k]

(* The loop body of SanitizeName, for each character in turn.               *)
LEMMA WritingStep ==
    ASSUME NEW Chars, "-" \in Chars, NEW v \in Seq(Chars), NEW w, IsWriting(w, v, Chars),
           NEW i \in 1..Len(v)
    PROVE  Writes(w[i - 1], v[i], w[i])
<1>1. i - 1 \in 0..Len(v) /\ i \in 0..Len(v) /\ v[i] \in Chars
  OBVIOUS
<1>2. w[i - 1] \in Seq(Chars) /\ w[i] \in Seq(Chars) /\ w[i] = Written(w[i - 1], v[i])
  BY <1>1 DEF IsWriting
<1> DEFINE before == w[i - 1]
<1>3. ASSUME NEW c \in Chars, w[i] = Append(before, c)
      PROVE  /\ Len(w[i]) = Len(before) + 1 /\ w[i][Len(w[i])] = c
             /\ \A k \in 1..Len(before) : w[i][k] = before[k]
  BY <1>2, <1>3
<1>4. Len(before) \in Nat /\ Len(w[i]) \in Nat
  BY <1>2
<1>5. CASE IsLetter(v[i])
  <2>1. w[i] = Append(before, v[i])
    BY <1>2, <1>5, WrittenIs
  <2>2. QED
    BY <1>1, <1>2, <1>3, <1>4, <1>5, <2>1 DEF Writes
<1>6. CASE ~IsLetter(v[i]) /\ (before = <<>> \/ before[Len(before)] = "-")
  <2>1. w[i] = before
    BY <1>2, <1>6, WrittenIs
  <2>2. QED
    BY <1>1, <1>2, <1>4, <1>6, <2>1 DEF Writes
<1>7. CASE ~IsLetter(v[i]) /\ ~(before = <<>> \/ before[Len(before)] = "-")
  <2>1. w[i] = Append(before, "-")
    BY <1>2, <1>7, WrittenIs
  <2>2. QED
    BY <1>1, <1>2, <1>3, <1>4, <1>7, <2>1 DEF Writes
<1>8. QED
  BY <1>5, <1>6, <1>7

(* What is written is a sequence of characters at any time.                 *)
LEMMA WritingType ==
    ASSUME NEW Chars, NEW v \in Seq(Chars), NEW w, IsWriting(w, v, Chars)
    PROVE  Len(v) \in Nat /\ \A i \in 0..Len(v) : w[i] \in Seq(Chars) /\ Len(w[i]) \in Nat
<1>1. Len(v) \in Nat
  OBVIOUS
<1>2. ASSUME NEW i \in 0..Len(v) PROVE w[i] \in Seq(Chars)
  BY DEF IsWriting
<1>3. ASSUME NEW i \in 0..Len(v) PROVE Len(w[i]) \in Nat
  BY <1>2
<1>4. QED
  BY <1>1, <1>2, <1>3

Grown(w, j, i) ==
    /\ Len(w[j]) \in Nat /\ Len(w[i]) \in Nat /\ Len(w[j]) <= Len(w[i])
    /\ \A k \in 1..Len(w[j]) : w[i][k] = w[j][k]

(* What is written is never taken back.                                     *)
LEMMA WritingGrows ==
    ASSUME NEW Chars, "-" \in Chars, NEW v \in Seq(Chars), NEW w, IsWriting(w, v, Chars)
    PROVE  \A i \in 0..Len(v) : \A j \in 0..i : Grown(w, j, i)
<1> DEFINE S == {i \in Nat : i <= Len(v) => \A j \in 0..i : Grown(w, j, i)}
<1>0. Len(v) \in Nat /\ \A i \in 0..Len(v) : w[i] \in Seq(Chars) /\ Len(w[i]) \in Nat
  BY WritingType
<1>1. 0 \in S
  BY <1>0 DEF Grown
<1>2. ASSUME NEW n \in Nat, n \in S PROVE n + 1 \in S
  <2> DEFINE i == n + 1
  <2>1. SUFFICES ASSUME i <= Len(v), NEW j \in 0..i PROVE Grown(w, j, i)
    OBVIOUS
  <2>2. i \in 1..Len(v) /\ i - 1 = n /\ n \in 0..Len(v) /\ (j = i \/ j \in 0..n)
    BY <1>0, <2>1
  <2>3. CASE j = i
    BY <1>0, <2>2, <2>3 DEF Grown
  <2>4. CASE j \in 0..n
    <3>1. Grown(w, j, n)
      BY <1>0, <1>2, <2>2, <2>4
    <3>2. Grown(w, n, i)
      <4> HIDE DEF i
      <4>1. Writes(w[i - 1], v[i], w[i])
        BY <2>2, WritingStep
      <4>2. w[i] = w[i - 1] => Len(w[i]) = Len(w[i - 1])
        OBVIOUS
      <4>3. Len(w[i]) = Len(w[i - 1]) + 1 \/ w[i] = w[i - 1]
        BY <4>1 DEF Writes
      <4>4. Len(w[i - 1]) <= Len(w[i])
        BY <4>1, <4>2, <4>3 DEF Writes
      <4>5. QED
        BY <2>2, <4>1, <4>4 DEF Grown, Writes
    <3> HIDE DEF i
    <3>3. ASSUME NEW k \in 1..Len(w[j]) PROVE w[i][k] = w[j][k]
      <4>1. k \in 1..Len(w[n])
        BY <3>1 DEF Grown
      <4>2. QED
        BY <3>1, <3>2, <4>1 DEF Grown
    <3>4. QED
      BY <3>1, <3>2, <3>3 DEF Grown
  <2>5. QED
    BY <2>2, <2>3, <2>4
<1>3. ASSUME NEW i \in 0..Len(v) PROVE \A j \in 0..i : Grown(w, j, i)
  <2>1. i \in S
    <3> HIDE DEF S
    <3>1. \A m \in Nat : m \in S
      BY <1>1, <1>2, Climb
    <3>2. QED
      BY <1>0, <3>1
  <2>2. QED
    BY <1>0, <2>1
<1>4. QED
  BY <1>3

(* Where a character that is not a hyphen was written.                      *)
WrittenAt(w, v, i, k) == \E j \in 1..i : IsLetter(v[j]) /\ Len(w[j]) = k

(* Whatever SanitizeName writes but hyphens is a letter of the value, and no*)
(* hyphen comes first.                                                      *)
LEMMA WrittenComesFrom ==
    ASSUME NEW Chars, "-" \in Chars, NEW v \in Seq(Chars), NEW w, IsWriting(w, v, Chars)
    PROVE  \A i \in 0..Len(v) :
              /\ \A k \in 1..Len(w[i]) : w[i][k] # "-" => WrittenAt(w, v, i, k)
              /\ w[i] # <<>> => w[i][1] # "-"
<1> DEFINE From(i) == /\ \A k \in 1..Len(w[i]) : w[i][k] # "-" => WrittenAt(w, v, i, k)
                      /\ w[i] # <<>> => w[i][1] # "-"
           S == {i \in Nat : i <= Len(v) => From(i)}
<1>0. Len(v) \in Nat /\ \A i \in 0..Len(v) : w[i] \in Seq(Chars) /\ Len(w[i]) \in Nat
  BY WritingType
<1>1. 0 \in S
  <2>1. w[0] = <<>> /\ Len(w[0]) = 0
    BY DEF IsWriting
  <2>2. QED
    BY <2>1
<1>2. ASSUME NEW n \in Nat, n \in S PROVE n + 1 \in S
  <2> DEFINE i == n + 1
  <2>1. SUFFICES ASSUME i <= Len(v) PROVE From(i)
    OBVIOUS
  <2>2. /\ i \in 1..Len(v) /\ i - 1 = n /\ n \in 0..Len(v) /\ i \in 0..Len(v) /\ i \in 1..i
        /\ 1..n \subseteq 1..i /\ From(n)
    BY <1>0, <1>2, <2>1
  <2> HIDE DEF i
  <2>3. Writes(w[n], v[i], w[i]) /\ w[n] \in Seq(Chars) /\ w[i] \in Seq(Chars)
    BY <1>0, <2>2, WritingStep
  <2>4. ASSUME NEW k, WrittenAt(w, v, n, k) PROVE WrittenAt(w, v, i, k)
    BY <2>2, <2>4 DEF WrittenAt
  <2>5. ASSUME NEW k \in 1..Len(w[n]), w[i][k] # "-" PROVE WrittenAt(w, v, i, k)
    BY <2>2, <2>3, <2>4, <2>5 DEF Writes
  <2>6. w[n] # <<>> => w[i][1] # "-"
    <3>1. SUFFICES ASSUME w[n] # <<>> PROVE w[i][1] # "-"
      OBVIOUS
    <3>2. 1 \in 1..Len(w[n])
      BY <2>3, <3>1 DEF Writes
    <3>3. QED
      BY <2>2, <2>3, <3>1, <3>2 DEF Writes
  <2>7. CASE IsLetter(v[i])
    <3>1. WrittenAt(w, v, i, Len(w[i]))
      BY <2>2, <2>7 DEF WrittenAt
    <3>2. v[i] # "-"
      BY <2>7, NamingAssumption DEF IsLetter
    <3>3. \A k \in 1..Len(w[i]) : k \in 1..Len(w[n]) \/ k = Len(w[i])
      BY <2>3, <2>7 DEF Writes
    <3>4. w[n] = <<>> => w[i][1] # "-"
      <4>1. w[n] = <<>> => Len(w[i]) = 1
        BY <2>3, <2>7 DEF Writes
      <4>2. w[i][Len(w[i])] = v[i]
        BY <2>3, <2>7 DEF Writes
      <4>3. QED
        BY <3>2, <4>1, <4>2
    <3>5. QED
      BY <2>5, <2>6, <3>1, <3>3, <3>4
  <2>8. CASE ~IsLetter(v[i]) /\ w[i] = w[n]
    BY <2>2, <2>4, <2>8
  <2>9. CASE ~IsLetter(v[i]) /\ w[i] # w[n]
    <3>1. /\ Len(w[i]) = Len(w[n]) + 1 /\ w[i][Len(w[i])] = "-" /\ w[n] # <<>>
      BY <2>3, <2>9 DEF Writes
    <3>2. \A k \in 1..Len(w[i]) : k \in 1..Len(w[n]) \/ k = Len(w[i])
      BY <2>3, <3>1 DEF Writes
    <3>3. QED
      BY <2>5, <2>6, <3>1, <3>2
  <2>10. QED
    BY <2>7, <2>8, <2>9
<1>3. ASSUME NEW i \in 0..Len(v) PROVE From(i)
  <2>1. i \in S
    <3> HIDE DEF S
    <3>1. \A m \in Nat : m \in S
      BY <1>1, <1>2, Climb
    <3>2. QED
      BY <1>0, <3>1
  <2> HIDE DEF From
  <2>2. QED
    BY <1>0, <2>1
<1>4. QED
  BY <1>3

(* A set of positions has a last one.                                       *)
LEMMA LastPosition ==
    ASSUME NEW n \in Nat, NEW S \in SUBSET (1..n), S # {}
    PROVE  \E m \in S : \A j \in S : j <= m
<1> DEFINE Above == {m \in Nat : \A j \in S : j <= m}
<1>1. n \in Above
  OBVIOUS
<1>2. PICK m \in Above : \A y \in Above : <<y, m>> \notin OpToRel(<, Nat)
  BY <1>1, WFMin, NatLessThanWellFounded, Zenon
<1>3. \A y \in Above : ~ (y < m)
  <2>1. \A y \in Above : <<y, m>> \in Nat \X Nat
    OBVIOUS
  <2>2. QED
    BY <1>2, <2>1 DEF OpToRel
<1>4. m \in S
  <2>1. SUFFICES ASSUME m \notin S PROVE FALSE
    OBVIOUS
  <2>2. \A j \in S : j <= m - 1 /\ m - 1 \in Nat
    BY <2>1
  <2>3. m - 1 \in Above
    BY <2>2
  <2>4. QED
    BY <1>3, <2>3
<1>5. QED
  BY <1>4

(* What is left when hyphens at the end, and none at the start, are cut off. *)
TrimmedAt(W, n) ==
    /\ n \in 1..Len(W) /\ W[n] # "-" /\ TrimHyphens(W) = SubSeq(W, 1, n)
    /\ \A k \in 1..Len(W) : W[k] # "-" => k <= n

(* strings.Trim cuts at the last character that is not a hyphen.            *)
LEMMA TrimmedIs ==
    ASSUME NEW Chars, NEW W \in Seq(Chars), W # <<>>, W[1] # "-"
    PROVE  \E n : TrimmedAt(W, n)
<1> DEFINE L == {i \in DOMAIN W : W[i] # "-"}
           first == CHOOSE i \in L : \A j \in L : i <= j
           last == CHOOSE i \in L : \A j \in L : j <= i
<1>1. Len(W) \in Nat /\ DOMAIN W = 1..Len(W) /\ 1 \in 1..Len(W)
  OBVIOUS
<1>2. L \in SUBSET (1..Len(W)) /\ 1 \in L
  BY <1>1
<1> HIDE DEF L
<1>3. PICK n \in L : \A j \in L : j <= n
  BY <1>1, <1>2, LastPosition
<1>4. \A i \in L : i \in Nat /\ 1 <= i
  BY <1>2
<1>5. first = 1
  <2>1. ASSUME NEW i \in L, \A j \in L : i <= j PROVE i = 1
    BY <1>2, <1>4, <2>1
  <2>2. \A j \in L : 1 <= j
    BY <1>4
  <2>3. QED
    BY <1>2, <2>1, <2>2
<1>6. last = n
  <2>1. ASSUME NEW i \in L, \A j \in L : j <= i PROVE i = n
    BY <1>3, <1>4, <2>1
  <2>2. QED
    BY <1>3, <2>1
<1>7. TrimHyphens(W) = IF L = {} THEN <<>> ELSE SubSeq(W, first, last)
  BY DEF TrimHyphens, L
<1> HIDE DEF first, last
<1>8. TrimHyphens(W) = SubSeq(W, 1, n)
  BY <1>2, <1>5, <1>6, <1>7
<1>9. n \in 1..Len(W) /\ W[n] # "-" /\ \A k \in 1..Len(W) : W[k] # "-" => k <= n
  BY <1>1, <1>3 DEF L
<1>10. QED
  BY <1>8, <1>9 DEF TrimmedAt

(* The letters of a value go over into what is written, one by one.         *)
LEMMA LetterWritten ==
    ASSUME NEW Chars, "-" \in Chars, NEW v \in Seq(Chars), NEW w, IsWriting(w, v, Chars),
           NEW j \in LettersOf(v), NEW i \in j..Len(v)
    PROVE  /\ j \in 1..Len(v) /\ j - 1 \in 0..Len(v)
           /\ Len(w[j - 1]) \in Nat /\ Len(w[j]) = Len(w[j - 1]) + 1
           /\ Len(w[j]) \in 1..Len(w[i]) /\ w[i][Len(w[j])] = v[j]
<1>1. j \in 1..Len(v) /\ IsLetter(v[j]) /\ i \in 0..Len(v) /\ j \in 0..i /\ j - 1 \in 0..Len(v)
  <2>1. j \in 1..Len(v) /\ Len(v) \in Nat
    BY LettersArePositions
  <2>2. QED
    BY <2>1 DEF LettersOf
<1>2. Writes(w[j - 1], v[j], w[j])
  BY <1>1, WritingStep
<1>3. Len(w[j - 1]) \in Nat /\ Len(w[j]) = Len(w[j - 1]) + 1 /\ w[j][Len(w[j])] = v[j]
  BY <1>1, <1>2 DEF Writes
<1>4. Grown(w, j, i)
  BY <1>1, WritingGrows
<1>5. Len(w[j]) \in 1..Len(w[j]) /\ Len(w[j]) \in 1..Len(w[i])
  BY <1>3, <1>4 DEF Grown
<1>6. w[i][Len(w[j])] = w[j][Len(w[j])]
  BY <1>4, <1>5 DEF Grown
<1>7. QED
  BY <1>1, <1>3, <1>5, <1>6

(* SanitizeName writes letters in their order.                              *)
LEMMA WrittenInOrder ==
    ASSUME NEW Chars, "-" \in Chars, NEW v \in Seq(Chars), NEW w, IsWriting(w, v, Chars),
           NEW j \in LettersOf(v), NEW l \in LettersOf(v), j < l
    PROVE  Len(w[j]) < Len(w[l])
<1>1. j \in Nat /\ l \in Nat /\ l \in 1..Len(v) /\ Len(v) \in Nat
  BY LettersArePositions
<1>2. l - 1 \in 0..Len(v) /\ j \in 0..(l - 1) /\ l \in l..Len(v)
  BY <1>1
<1>3. Grown(w, j, l - 1)
  BY <1>2, WritingGrows
<1>4. Len(w[l - 1]) \in Nat /\ Len(w[l]) = Len(w[l - 1]) + 1
  BY <1>2, LetterWritten
<1>5. QED
  BY <1>3, <1>4 DEF Grown

(* Letters that stand side by side are written side by side, and others are *)
(* not: a hyphen is written between them.                                   *)
LEMMA WrittenSideBySide ==
    ASSUME NEW Chars, "-" \in Chars, NEW v \in Seq(Chars), NEW w, IsWriting(w, v, Chars),
           NEW j \in LettersOf(v), NEW l \in LettersOf(v)
    PROVE  l = j + 1 <=> Len(w[l]) = Len(w[j]) + 1
<1>1. j \in Nat /\ l \in Nat /\ l \in 1..Len(v) /\ j \in 1..Len(v) /\ Len(v) \in Nat
  BY LettersArePositions
<1>2. l \in l..Len(v) /\ j \in j..Len(v) /\ Len(v) \in l..Len(v)
  BY <1>1
<1>3. Len(w[j]) \in Nat /\ Len(w[l]) \in Nat /\ Len(w[l]) = Len(w[l - 1]) + 1
  BY <1>2, LetterWritten, SMTT(30)
<1>4. ASSUME l = j + 1 PROVE Len(w[l]) = Len(w[j]) + 1
  <2>1. l - 1 = j
    BY <1>1, <1>4
  <2>2. QED
    BY <1>3, <2>1
<1>5. ASSUME Len(w[l]) = Len(w[j]) + 1, l # j + 1 PROVE FALSE
  <2>1. j < l
    <3>1. ~(l < j) /\ l # j
      BY <1>3, <1>5, WrittenInOrder
    <3>2. QED
      BY <1>1, <3>1
  <2> DEFINE m == j + 1
  <2>2. m \in 1..Len(v) /\ m < l /\ m - 1 = j /\ j < m /\ m \in 0..Len(v)
        /\ l \in 0..Len(v) /\ m \in 0..l
    BY <1>1, <1>5, <2>1
  <2> HIDE DEF m
  <2>3. Writes(w[j], v[m], w[m]) /\ Grown(w, m, l)
    BY <2>2, WritingStep, WritingGrows
  <2>4. CASE IsLetter(v[m])
    <3>1. m \in LettersOf(v)
      BY <2>2, <2>4 DEF LettersOf
    <3>2. Len(w[m]) < Len(w[l]) /\ Len(w[j]) < Len(w[m])
      BY <2>2, <3>1, WrittenInOrder
    <3>3. QED
      BY <1>3, <1>5, <2>3, <3>2 DEF Writes
  <2>5. CASE ~IsLetter(v[m])
    <3>1. /\ w[j][Len(w[j])] = v[j] /\ w[j] # <<>> /\ IsLetter(v[j]) /\ v[j] # "-"
          /\ w[l][Len(w[l])] = v[l] /\ v[l] # "-"
      <4>1. w[j][Len(w[j])] = v[j] /\ Len(w[j]) \in 1..Len(w[j])
        BY <1>2, LetterWritten
      <4>2. w[l][Len(w[l])] = v[l]
        BY <1>2, LetterWritten
      <4>3. IsLetter(v[j]) /\ v[j] # "-" /\ v[l] # "-"
        BY NamingAssumption DEF LettersOf, IsLetter
      <4>4. w[j] # <<>>
        BY <4>1
      <4>5. QED
        BY <4>1, <4>2, <4>3, <4>4
    <3>2. Len(w[m]) = Len(w[j]) + 1 /\ w[m][Len(w[m])] = "-"
      BY <2>3, <2>5, <3>1 DEF Writes
    <3>3. w[l][Len(w[m])] = w[m][Len(w[m])]
      <4>1. Len(w[m]) \in 1..Len(w[m])
        BY <1>3, <3>2
      <4>2. QED
        BY <2>3, <4>1 DEF Grown
    <3>4. QED
      BY <1>5, <3>1, <3>2, <3>3
  <2>6. QED
    BY <2>4, <2>5
<1>6. QED
  BY <1>4, <1>5

(* A sequence of letters is one word.                                       *)
LEMMA WordOfLetters ==
    ASSUME NEW Chars, NEW a \in Seq(Chars), a # <<>>, \A i \in 1..Len(a) : IsLetter(a[i])
    PROVE  Words(a) = <<a>>
<1> DEFINE n == Len(a)
           runs == LetterRuns(a)
           whole == <<1, n>>
<1>1. n \in Nat /\ n \in 1..n /\ 1 \in 1..n /\ DOMAIN a = 1..n /\ SubSeq(a, 1, n) = a
  OBVIOUS
<1>2. LettersOf(a) = 1..n
  BY <1>1 DEF LettersOf
<1>3. whole \in runs
  BY <1>1, <1>2, RunIs
<1>4. ASSUME NEW r \in runs PROVE r = whole
  <2>1. r = <<r[1], r[2]>>
    BY RunsArePairs
  <2>2. <<r[1], r[2]>> \in LetterRuns(a)
    BY <2>1
  <2>3. r[1] \in 1..n /\ r[2] \in 1..n /\ r[1] - 1 \notin 1..n /\ r[2] + 1 \notin 1..n
    BY <1>2, <2>2, RunIs
  <2>4. r[1] = 1 /\ r[2] = n
    BY <1>1, <2>3
  <2>5. QED
    BY <2>1, <2>4
<1>5. runs = {whole}
  BY <1>3, <1>4
<1>6. Cardinality(runs) = 1
  BY <1>5, FS_Singleton
<1> DEFINE Before(r) == {s \in runs : s[1] < r[1]}
           Said(k) == {SubSeq(a, r[1], r[2]) : r \in {r \in runs : Cardinality(Before(r)) = k - 1}}
<1>7. Words(a) = IF runs = {} THEN <<DefaultName>>
                 ELSE [k \in 1..Cardinality(runs) |-> CHOOSE word \in Said(k) : TRUE]
  BY DEF Words
<1>8. Said(1) = {a}
  <2>1. Before(whole) = {}
    BY <1>1, <1>5
  <2>2. Cardinality(Before(whole)) = 0
    BY <2>1, FS_EmptySet
  <2>3. whole[1] = 1 /\ whole[2] = n
    OBVIOUS
  <2> HIDE DEF Before, runs, whole
  <2>4. {r \in runs : Cardinality(Before(r)) = 1 - 1} = {whole}
    BY <1>5, <2>2
  <2>5. Said(1) = {SubSeq(a, whole[1], whole[2])}
    BY <2>4
  <2>6. QED
    BY <1>1, <2>3, <2>5
<1>9. (CHOOSE word \in Said(1) : TRUE) = a
  <2> HIDE DEF Said
  <2>1. QED
    BY <1>8
<1> DEFINE Word(k) == CHOOSE word \in Said(k) : TRUE
<1>10. Words(a) = [k \in 1..1 |-> Word(k)]
  BY <1>5, <1>6, <1>7
<1>11. Word(1) = a
  BY <1>9
<1> HIDE DEF Word
<1>12. QED
  BY <1>10, <1>11

(* A character's place in a value, and in what is made of the value.        *)
LEMMA SanitizedIsAlike ==
    ASSUME NEW Chars, "-" \in Chars, NEW v \in Seq(Chars), LettersOf(v) # {}
    PROVE  /\ SanitizeName(v) \in Seq(Chars)
           /\ \E f, g : Alike(v, SanitizeName(v), f, g)
<1> DEFINE T == SanitizeName(v)
           N == Len(v)
<1>1. PICK w : IsWriting(w, v, Chars)
  BY SanitizeNameIsWriting
<1> DEFINE W == w[N]
<1>2. N \in Nat /\ N \in 0..N /\ W \in Seq(Chars)
  BY <1>1 DEF IsWriting
<1>3. ASSUME NEW j \in LettersOf(v)
      PROVE  Len(w[j]) \in 1..Len(W) /\ W[Len(w[j])] = v[j] /\ IsLetter(v[j]) /\ v[j] # "-"
  <2>1. N \in j..N
    BY LettersArePositions
  <2>2. Len(w[j]) \in 1..Len(W) /\ W[Len(w[j])] = v[j]
    BY <1>1, <2>1, LetterWritten
  <2>3. IsLetter(v[j]) /\ v[j] # "-"
    BY NamingAssumption DEF LettersOf, IsLetter
  <2>4. QED
    BY <2>2, <2>3
<1>4. W # <<>> /\ W[1] # "-"
  <2>1. PICK j \in LettersOf(v) : TRUE
    OBVIOUS
  <2>2. Len(w[j]) \in 1..Len(W)
    BY <1>3
  <2>3. W # <<>>
    BY <1>2, <2>2
  <2>4. QED
    BY <1>1, <1>2, <2>3, WrittenComesFrom
<1>5. PICK n : TrimmedAt(W, n)
  BY <1>2, <1>4, TrimmedIs
<1>6. n \in 1..Len(W) /\ 1 \in 1..Len(W) /\ 1 <= n /\ Len(W) \in Nat /\ n \in Nat
  BY <1>2, <1>5 DEF TrimmedAt
<1>7. T = SubSeq(W, 1, n)
  <2>1. T = OrDefault(TrimHyphens(W))
    BY <1>1 DEF IsWriting
  <2>2. Len(SubSeq(W, 1, n)) = (n - 1) + 1
    BY <1>2, <1>6, CutIs
  <2>3. SubSeq(W, 1, n) # <<>>
    BY <1>6, <2>2
  <2>4. QED
    BY <1>5, <2>1, <2>3 DEF TrimmedAt, OrDefault
<1>8. T \in Seq(Chars) /\ Len(T) = n /\ \A k \in 1..n : T[k] = W[k]
  <2>1. /\ Len(T) = (n - 1) + 1 /\ T \in Seq(Chars)
        /\ \A k \in 1..((n - 1) + 1) : T[k] = W[1 + k - 1]
    BY <1>2, <1>6, <1>7, CutIs
  <2>2. (n - 1) + 1 = n /\ \A k \in 1..n : 1 + k - 1 = k
    BY <1>6
  <2> HIDE DEF T, W
  <2>3. QED
    BY <2>1, <2>2
<1> HIDE DEF T
<1>9. ASSUME NEW j \in LettersOf(v)
      PROVE  Len(w[j]) \in LettersOf(T) /\ T[Len(w[j])] = v[j]
  <2>1. Len(w[j]) \in 1..n
    BY <1>3, <1>5, <1>6 DEF TrimmedAt
  <2>2. T[Len(w[j])] = v[j] /\ IsLetter(v[j])
    BY <1>3, <1>8, <2>1
  <2>3. DOMAIN T = 1..n
    BY <1>8
  <2>4. QED
    BY <2>1, <2>2, <2>3 DEF LettersOf
<1>10. ASSUME NEW k \in LettersOf(T)
       PROVE  \E j \in LettersOf(v) : Len(w[j]) = k
  <2>1. k \in 1..n /\ k \in 1..Len(W) /\ IsLetter(W[k]) /\ W[k] # "-"
    <3>1. k \in 1..n /\ IsLetter(T[k])
      BY <1>8 DEF LettersOf
    <3>2. k \in 1..Len(W) /\ IsLetter(W[k])
      BY <1>6, <1>8, <3>1
    <3>3. QED
      BY <3>1, <3>2, NamingAssumption DEF IsLetter
  <2>2. WrittenAt(w, v, N, k)
    BY <1>1, <1>2, <2>1, WrittenComesFrom
  <2>3. DOMAIN v = 1..N
    BY <1>2
  <2>4. QED
    BY <2>2, <2>3 DEF WrittenAt, LettersOf
<1> DEFINE f == [j \in LettersOf(v) |-> Len(w[j])]
           g == [k \in LettersOf(T) |-> CHOOSE j \in LettersOf(v) : Len(w[j]) = k]
<1>11. ASSUME NEW j \in LettersOf(v), NEW l \in LettersOf(v)
       PROVE  /\ j < l => Len(w[j]) < Len(w[l])
              /\ Len(w[j]) = Len(w[l]) => j = l
              /\ l = j + 1 <=> Len(w[l]) = Len(w[j]) + 1
  <2>1. j < l => Len(w[j]) < Len(w[l])
    BY <1>1, WrittenInOrder
  <2>2. l < j => Len(w[l]) < Len(w[j])
    BY <1>1, WrittenInOrder
  <2>3. Len(w[j]) \in Nat /\ Len(w[l]) \in Nat /\ j \in Nat /\ l \in Nat
    BY <1>3, LettersArePositions
  <2>4. l = j + 1 <=> Len(w[l]) = Len(w[j]) + 1
    BY <1>1, WrittenSideBySide
  <2>5. QED
    BY <2>1, <2>2, <2>3, <2>4
<1>12. f \in [LettersOf(v) -> LettersOf(T)]
  BY <1>9
<1>13. ASSUME NEW k \in LettersOf(T) PROVE g[k] \in LettersOf(v) /\ f[g[k]] = k
  BY <1>10
<1>14. g \in [LettersOf(T) -> LettersOf(v)]
  BY <1>13
<1>15. \A j \in LettersOf(v) : f[j] = Len(w[j]) /\ f[j] \in LettersOf(T)
  BY <1>9
<1> HIDE DEF f, g
<1>16. ASSUME NEW j \in LettersOf(v) PROVE g[f[j]] = j /\ T[f[j]] = v[j]
  <2>1. f[g[f[j]]] = f[j] /\ g[f[j]] \in LettersOf(v)
    BY <1>13, <1>15
  <2>2. QED
    BY <1>9, <1>11, <1>15, <2>1
<1>17. ASSUME NEW j \in LettersOf(v), NEW l \in LettersOf(v), j < l PROVE f[j] < f[l]
  BY <1>11, <1>15, <1>17
<1>18. ASSUME NEW j \in LettersOf(v), j + 1 \in LettersOf(v) PROVE f[j + 1] = f[j] + 1
  BY <1>11, <1>15, <1>18
<1>19. ASSUME NEW k \in LettersOf(T), k + 1 \in LettersOf(T) PROVE g[k + 1] = g[k] + 1
  <2>1. /\ g[k] \in LettersOf(v) /\ Len(w[g[k]]) = k
        /\ g[k + 1] \in LettersOf(v) /\ Len(w[g[k + 1]]) = k + 1
    BY <1>13, <1>15, <1>19
  <2>2. QED
    BY <1>11, <2>1
<1>20. Alike(v, T, f, g)
  BY <1>12, <1>13, <1>14, <1>16, <1>17, <1>18, <1>19 DEF Alike
<1>21. QED
  BY <1>8, <1>20 DEF T

(* A value without letters becomes the default name.                        *)
LEMMA SanitizedWithoutLetters ==
    ASSUME NEW Chars, "-" \in Chars, NEW v \in Seq(Chars), LettersOf(v) = {}
    PROVE  SanitizeName(v) = DefaultName
<1>1. PICK w : IsWriting(w, v, Chars)
  BY SanitizeNameIsWriting
<1>2. Len(v) \in 0..Len(v) /\ w[Len(v)] \in Seq(Chars) /\ DOMAIN v = 1..Len(v)
  BY <1>1 DEF IsWriting
<1>3. w[Len(v)] = <<>>
  <2>1. SUFFICES ASSUME w[Len(v)] # <<>> PROVE FALSE
    OBVIOUS
  <2>2. w[Len(v)][1] # "-" /\ 1 \in 1..Len(w[Len(v)])
    BY <1>1, <1>2, <2>1, WrittenComesFrom
  <2>3. WrittenAt(w, v, Len(v), 1)
    BY <1>1, <1>2, <2>2, WrittenComesFrom
  <2>4. QED
    BY <1>2, <2>3 DEF WrittenAt, LettersOf
<1>4. TrimHyphens(<<>>) = <<>>
  BY DEF TrimHyphens
<1>5. QED
  BY <1>1, <1>3, <1>4 DEF IsWriting, OrDefault

(* SanitizeName gives a sequence of characters.                             *)
LEMMA SanitizeNameIsASequence ==
    ASSUME NEW Chars, NEW v \in Seq(Chars)
    PROVE  SanitizeName(v) \in Seq(Chars \cup {"-"} \cup Range(DefaultName))
<1> DEFINE All == Chars \cup {"-"} \cup Range(DefaultName)
<1>1. v \in Seq(All) /\ "-" \in All
  OBVIOUS
<1>2. DefaultName \in Seq(All)
  <2>1. DefaultName \in Seq(Range(DefaultName))
    BY NamingAssumption
  <2>2. QED
    BY <2>1
<1> HIDE DEF All
<1>3. SanitizeName(v) \in Seq(All)
  BY <1>1, <1>2, SanitizedIsAlike, SanitizedWithoutLetters
<1>4. QED
  BY <1>3 DEF All

(* SanitizeName keeps the words of any value.                               *)
THEOREM SanitizeNameKeepsWords ==
    ASSUME NEW Chars, NEW v \in Seq(Chars)
    PROVE  Words(SanitizeName(v)) = Words(v)
<1> DEFINE All == Chars \cup {"-"}
<1>1. v \in Seq(All) /\ "-" \in All
  OBVIOUS
<1> HIDE DEF All
<1>2. CASE LettersOf(v) # {}
  <2>1. SanitizeName(v) \in Seq(All) /\ \E f, g : Alike(v, SanitizeName(v), f, g)
    BY <1>1, <1>2, SanitizedIsAlike
  <2>2. PICK f, g : Alike(v, SanitizeName(v), f, g)
    BY <2>1
  <2>3. QED
    BY <1>1, <2>1, <2>2, WordsAlike
<1>3. CASE LettersOf(v) = {}
  <2>1. SanitizeName(v) = DefaultName
    BY <1>1, <1>3, SanitizedWithoutLetters
  <2>2. Words(DefaultName) = <<DefaultName>>
    <3>1. /\ DefaultName \in Seq(Range(DefaultName)) /\ DefaultName # <<>>
          /\ \A i \in 1..Len(DefaultName) : IsLetter(DefaultName[i])
      BY NamingAssumption DEF Range, IsLetter
    <3>2. QED
      BY <3>1, WordOfLetters
  <2>3. LetterRuns(v) = {}
    <3>1. ASSUME NEW r \in LetterRuns(v) PROVE FALSE
      BY <1>1, <1>3, RunsArePairs
    <3>2. QED
      BY <3>1
  <2>4. Words(v) = <<DefaultName>>
    BY <2>3 DEF Words
  <2>5. QED
    BY <2>1, <2>2, <2>4
<1>4. QED
  BY <1>2, <1>3

----------------------------------------------------------------------------
(* Labels *)

(* strings.Join of one part is the part.                                    *)
LEMMA OnePartAlone ==
    ASSUME NEW x
    PROVE  Hyphenated(<<x>>) = x
<1> DEFINE parts == <<x>>
           Body(d) == [i \in 1..Len(parts) |->
                         IF i = 1 THEN parts[1] ELSE d[i - 1] \o <<"-">> \o parts[i]]
           one == [i \in 1..1 |-> x]
<1>1. Len(parts) = 1 /\ parts[1] = x
  OBVIOUS
<1>2. ASSUME NEW d PROVE Body(d) = one
  BY <1>1
<1> HIDE DEF Body
<1>3. (CHOOSE d : d = Body(d)) = one
  BY <1>2
<1>4. Hyphenated(parts) = (CHOOSE d : d = Body(d))[Len(parts)]
  BY DEF Hyphenated, Body
<1>5. one[1] = x
  OBVIOUS
<1>6. QED
  BY <1>1, <1>3, <1>4, <1>5

(* A short name's label is what SanitizeName makes of it.                   *)
LEMMA LabelOfShort ==
    ASSUME NEW n, Len(SanitizeName(n)) <= MaxName
    PROVE  BuildLabelValue(n) = SanitizeName(n)
<1>1. [i \in DOMAIN <<n>> |-> SanitizeName(<<n>>[i])] = <<SanitizeName(n)>>
  OBVIOUS
<1>2. Hyphenated([i \in DOMAIN <<n>> |-> SanitizeName(<<n>>[i])]) = SanitizeName(n)
  BY <1>1, OnePartAlone
<1>3. QED
  BY <1>2 DEF BuildLabelValue, BuildDNSLabelName, Joined

(* A plain name is written as it stands.                                    *)
LEMMA PlainIsSanitized ==
    ASSUME NEW Chars, "-" \in Chars, NEW n \in Seq(Chars), IsPlain(n)
    PROVE  SanitizeName(n) = n
<1> DEFINE N == Len(n)
<1>1. /\ N \in Nat /\ N >= 1 /\ n # <<>> /\ DOMAIN n = 1..N /\ n[1] # "-" /\ n[N] # "-"
      /\ \A i \in 1..N : IsLetter(n[i]) \/ n[i] = "-"
  BY NamingAssumption DEF IsPlain, IsLabel, Last
<1>2. \A i \in 1..(N - 1) : ~(n[i] = "-" /\ n[i + 1] = "-")
  BY DEF IsPlain
<1>3. PICK w : IsWriting(w, n, Chars)
  BY SanitizeNameIsWriting
<1> DEFINE S == {i \in Nat : i <= N => w[i] = SubSeq(n, 1, i)}
<1>4. 0 \in S
  <2>1. SubSeq(n, 1, 0) = <<>>
    OBVIOUS
  <2>2. QED
    BY <1>3, <2>1 DEF IsWriting
<1>5. ASSUME NEW k \in Nat, k \in S PROVE k + 1 \in S
  <2> DEFINE i == k + 1
  <2>1. SUFFICES ASSUME i <= N PROVE w[i] = SubSeq(n, 1, i)
    OBVIOUS
  <2>2. i \in 1..N /\ i - 1 = k /\ w[k] = SubSeq(n, 1, k) /\ k <= N
    BY <1>1, <1>5, <2>1
  <2>3. w[i] = Written(w[k], n[i])
    BY <1>3, <2>2 DEF IsWriting
  <2>4. SubSeq(n, 1, i) = Append(SubSeq(n, 1, k), n[i])
    BY <2>2
  <2>5. CASE IsLetter(n[i])
    BY <2>2, <2>3, <2>4, <2>5, WrittenIs
  <2>6. CASE ~IsLetter(n[i])
    <3>1. n[i] = "-" /\ i # 1
      BY <1>1, <2>2, <2>6
    <3>2. k \in 1..(N - 1) /\ k + 1 = i
      BY <1>1, <2>2, <3>1
    <3>3. n[k] # "-"
      BY <1>2, <3>1, <3>2
    <3>4. Len(SubSeq(n, 1, k)) = k /\ SubSeq(n, 1, k)[k] = n[k] /\ SubSeq(n, 1, k) # <<>>
      BY <1>1, <3>2
    <3>5. Written(w[k], n[i]) = Append(w[k], "-")
      BY <2>2, <2>6, <3>3, <3>4, WrittenIs
    <3>6. QED
      BY <2>2, <2>3, <2>4, <3>1, <3>5
  <2>7. QED
    BY <2>5, <2>6
<1>6. w[N] = n
  <2>1. N \in S
    <3> HIDE DEF S
    <3>1. QED
      BY <1>1, <1>4, <1>5, Climb
  <2>2. QED
    BY <1>1, <2>1
<1>7. PICK m : TrimmedAt(n, m)
  BY <1>1, TrimmedIs
<1>8. m = N /\ SubSeq(n, 1, N) = n
  <2>1. N \in 1..N /\ N <= m /\ m \in 1..N
    BY <1>1, <1>7 DEF TrimmedAt
  <2>2. QED
    BY <2>1
<1>9. TrimHyphens(n) = n
  BY <1>7, <1>8 DEF TrimmedAt
<1>10. QED
  BY <1>1, <1>3, <1>6, <1>9 DEF IsWriting, OrDefault

(* JobObserver finds an object whose name is plain by its label.            *)
THEOREM PlainNameIsItsLabel ==
    ASSUME NEW Chars, NEW n \in Seq(Chars), IsPlain(n)
    PROVE  BuildLabelValue(n) = n
<1> DEFINE All == Chars \cup {"-"}
<1>1. n \in Seq(All) /\ "-" \in All
  OBVIOUS
<1> HIDE DEF All
<1>2. SanitizeName(n) = n
  BY <1>1, PlainIsSanitized
<1>3. Len(n) <= MaxName
  BY NamingAssumption DEF IsPlain, IsLabel
<1>4. QED
  BY <1>2, <1>3, LabelOfShort

----------------------------------------------------------------------------
(* Tidy names: what SanitizeName, strings.Join and BuildDNSLabelName write *)

(* A name that is being written: letters and single hyphens, and none of    *)
(* them in front.                                                          *)
Neat(a) ==
    /\ IsList(a)
    /\ \A i \in 1..Len(a) : IsLetter(a[i]) \/ a[i] = "-"
    /\ a # <<>> => a[1] # "-"
    /\ \A i \in 1..(Len(a) - 1) : a[i] # "-" \/ a[i + 1] # "-"

(* A name that is written: words, and single hyphens between them.          *)
Tidy(a) == Neat(a) /\ a # <<>> /\ a[Len(a)] # "-"

(* Each character of a value leaves what is written neat.                   *)
LEMMA WrittenStaysNeat ==
    ASSUME NEW Chars, NEW before \in Seq(Chars), NEW c, NEW after \in Seq(Chars),
           Writes(before, c, after), Neat(before)
    PROVE  Neat(after)
<1> DEFINE n == Len(before)
           m == Len(after)
<1>1. n \in Nat /\ m \in Nat /\ \A k \in 1..n : after[k] = before[k]
  BY DEF Writes
<1>2. IsList(after)
  BY ListOf
<1>3. CASE after = before
  BY <1>3
<1>4. CASE m = n + 1 /\ after[m] = c /\ IsLetter(c)
  <2>1. c # "-"
    BY <1>4, NamingAssumption DEF IsLetter
  <2>2. \A i \in 1..m : IsLetter(after[i]) \/ after[i] = "-"
    BY <1>1, <1>4 DEF Neat
  <2>3. after[1] # "-"
    <3>1. CASE n = 0
      BY <1>4, <2>1, <3>1
    <3>2. CASE n # 0
      BY <1>1, <3>2 DEF Neat
    <3>3. QED
      BY <3>1, <3>2
  <2>4. \A i \in 1..(m - 1) : after[i] # "-" \/ after[i + 1] # "-"
    <3>1. \A i \in 1..(m - 1) : i + 1 = m \/ (i \in 1..(n - 1) /\ i \in 1..n /\ i + 1 \in 1..n)
      BY <1>1, <1>4
    <3>2. QED
      BY <1>1, <1>4, <2>1, <3>1 DEF Neat
  <2>5. QED
    BY <1>2, <2>2, <2>3, <2>4 DEF Neat
<1>5. CASE m = n + 1 /\ after[m] = "-" /\ before # <<>> /\ before[n] # "-"
  <2>1. n \in 1..n
    BY <1>1, <1>5
  <2>2. \A i \in 1..m : IsLetter(after[i]) \/ after[i] = "-"
    BY <1>1, <1>5 DEF Neat
  <2>3. after[1] # "-"
    BY <1>1, <1>5, <2>1 DEF Neat
  <2>4. \A i \in 1..(m - 1) : after[i] # "-" \/ after[i + 1] # "-"
    <3>1. \A i \in 1..(m - 1) :
             i \in 1..n /\ (i = n \/ (i \in 1..(n - 1) /\ i + 1 \in 1..n))
      BY <1>1, <1>5
    <3>2. QED
      BY <1>1, <1>5, <3>1 DEF Neat
  <2>5. QED
    BY <1>2, <2>2, <2>3, <2>4 DEF Neat
<1>6. QED
  BY <1>3, <1>4, <1>5 DEF Writes

(* Letters alone are a tidy name.                                           *)
LEMMA LettersAreTidy ==
    ASSUME NEW a, IsList(a), a # <<>>, Range(a) \cap Separators = {}
    PROVE  Tidy(a) /\ \A i \in 1..Len(a) : IsLetter(a[i])
<1>1. Len(a) \in Nat /\ DOMAIN a = 1..Len(a) /\ 1 \in 1..Len(a) /\ Len(a) \in 1..Len(a)
  BY DEF IsList
<1>2. \A i \in 1..Len(a) : IsLetter(a[i]) /\ a[i] # "-"
  BY <1>1, NamingAssumption DEF Range, IsLetter
<1>3. \A i \in 1..(Len(a) - 1) : i \in 1..Len(a)
  BY <1>1
<1>4. QED
  BY <1>1, <1>2, <1>3 DEF Tidy, Neat

(* The default name is tidy.                                                *)
LEMMA DefaultIsTidy == Tidy(DefaultName)
  BY NamingAssumption, LettersAreTidy DEF IsList

(* What is left of a neat name without the hyphens at its end is tidy.      *)
LEMMA TrimmedIsTidy ==
    ASSUME NEW W, Neat(W), W # <<>>
    PROVE  Tidy(OrDefault(TrimHyphens(W))) /\ Len(OrDefault(TrimHyphens(W))) <= Len(W)
<1> DEFINE Chars == Range(W)
           T == OrDefault(TrimHyphens(W))
<1>1. W \in Seq(Chars) /\ W[1] # "-"
  BY DEF Neat, IsList
<1> HIDE DEF Chars
<1>2. PICK n : TrimmedAt(W, n)
  BY <1>1, TrimmedIs
<1>3. Len(W) \in Nat /\ n \in 1..Len(W) /\ 1 \in 1..Len(W) /\ n \in Nat /\ W[n] # "-"
  BY <1>1, <1>2 DEF TrimmedAt
<1>4. /\ Len(SubSeq(W, 1, n)) = n /\ SubSeq(W, 1, n) \in Seq(Chars)
      /\ \A k \in 1..n : SubSeq(W, 1, n)[k] = W[k]
  <2>1. /\ Len(SubSeq(W, 1, n)) = (n - 1) + 1 /\ SubSeq(W, 1, n) \in Seq(Chars)
        /\ \A k \in 1..((n - 1) + 1) : SubSeq(W, 1, n)[k] = W[1 + k - 1]
    BY <1>1, <1>3, CutIs
  <2>2. (n - 1) + 1 = n /\ \A k \in 1..n : 1 + k - 1 = k
    BY <1>3
  <2>3. QED
    BY <2>1, <2>2
<1>5. T = SubSeq(W, 1, n)
  <2>1. SubSeq(W, 1, n) # <<>>
    BY <1>3, <1>4
  <2>2. QED
    BY <1>2, <2>1 DEF TrimmedAt, OrDefault
<1> HIDE DEF T
<1>6. Len(T) = n /\ T \in Seq(Chars) /\ \A k \in 1..n : T[k] = W[k]
  BY <1>4, <1>5
<1>7. IsList(T) /\ T # <<>>
  BY <1>3, <1>6, ListOf
<1>8. n \in 1..n /\ \A i \in 1..n : i \in 1..Len(W)
  BY <1>3
<1>9. \A i \in 1..(n - 1) : i \in 1..(Len(W) - 1) /\ i \in 1..n /\ i + 1 \in 1..n
  BY <1>3
<1>10. \A i \in 1..(n - 1) : T[i] # "-" \/ T[i + 1] # "-"
  BY <1>6, <1>9 DEF Neat
<1>11. T[1] # "-" /\ T[n] # "-" /\ \A i \in 1..n : IsLetter(T[i]) \/ T[i] = "-"
  BY <1>1, <1>3, <1>6, <1>8 DEF Neat
<1>12. Tidy(T) /\ Len(T) <= Len(W)
  BY <1>3, <1>6, <1>7, <1>10, <1>11 DEF Tidy, Neat
<1>13. QED
  BY <1>12 DEF T

(* SanitizeName writes a tidy name, whatever the value is.                  *)
LEMMA SanitizedIsTidy ==
    ASSUME NEW v, IsList(v)
    PROVE  Tidy(SanitizeName(v))
<1> DEFINE Chars == Range(v) \cup {"-"}
           N == Len(v)
<1>1. v \in Seq(Chars) /\ "-" \in Chars
  BY DEF IsList
<1> HIDE DEF Chars
<1>2. PICK w : IsWriting(w, v, Chars)
  BY <1>1, SanitizeNameIsWriting
<1>3. N \in Nat /\ \A i \in 0..N : w[i] \in Seq(Chars)
  BY <1>1, <1>2, WritingType
<1> DEFINE S == {i \in Nat : i <= N => Neat(w[i])}
<1>4. 0 \in S
  <2>1. Neat(<<>>)
    BY DEF Neat, IsList, Range
  <2>2. QED
    BY <1>2, <2>1 DEF IsWriting
<1>5. ASSUME NEW k \in Nat, k \in S PROVE k + 1 \in S
  <2>1. SUFFICES ASSUME k + 1 <= N PROVE Neat(w[k + 1])
    OBVIOUS
  <2>2. k + 1 \in 1..N /\ (k + 1) - 1 = k /\ k \in 0..N /\ k + 1 \in 0..N /\ Neat(w[k])
    BY <1>3, <1>5, <2>1
  <2>3. Writes(w[(k + 1) - 1], v[k + 1], w[k + 1])
    BY <1>1, <1>2, <2>2, WritingStep
  <2>4. QED
    BY <1>3, <2>2, <2>3, WrittenStaysNeat
<1> DEFINE W == w[N]
<1>6. Neat(W) /\ W \in Seq(Chars)
  <2>1. N \in S
    <3> HIDE DEF S
    <3>1. QED
      BY <1>3, <1>4, <1>5, Climb
  <2>2. QED
    BY <1>3, <2>1
<1>7. SanitizeName(v) = OrDefault(TrimHyphens(W))
  BY <1>2 DEF IsWriting
<1> HIDE DEF W
<1>8. CASE W = <<>>
  <2>1. SanitizeName(v) = DefaultName
    <3>1. TrimHyphens(<<>>) = <<>>
      BY DEF TrimHyphens
    <3>2. QED
      BY <1>7, <1>8, <3>1 DEF OrDefault
  <2>2. QED
    BY <2>1, DefaultIsTidy
<1>9. CASE W # <<>>
  BY <1>6, <1>7, <1>9, TrimmedIsTidy
<1>10. QED
  BY <1>8, <1>9

(* strings.Join of two names                                                *)
Together(a, b) == a \o <<"-">> \o b

(* Two lists are lists of one set.                                          *)
LEMMA InOneSet ==
    ASSUME NEW a, NEW b, IsList(a), IsList(b)
    PROVE  \E V : "-" \in V /\ a \in Seq(V) /\ b \in Seq(V)
<1> DEFINE V == Range(a) \cup Range(b) \cup {"-"}
<1>1. "-" \in V /\ Range(a) \subseteq V /\ Range(b) \subseteq V
  OBVIOUS
<1>2. a \in Seq(V) /\ b \in Seq(V)
  <2> HIDE DEF V
  <2>1. QED
    BY <1>1 DEF IsList
<1>3. QED
  BY <1>1, <1>2

(* c holds the members of a, and then those of b.                           *)
Joins(c, a, b) ==
    /\ Len(a) \in Nat /\ Len(b) \in Nat /\ Len(c) = Len(a) + Len(b)
    /\ \A i \in 1..Len(a) : c[i] = a[i]
    /\ \A i \in 1..Len(b) : c[Len(a) + i] = b[i]

(* Where the members of two sequences are when they are concatenated.       *)
LEMMA ConcatIs ==
    ASSUME NEW V, NEW a \in Seq(V), NEW b \in Seq(V)
    PROVE  a \o b \in Seq(V) /\ Joins(a \o b, a, b)
BY DEF Joins

(* Where the characters of two names are when they are joined.              *)
LEMMA TogetherIs ==
    ASSUME NEW a, NEW b, IsList(a), IsList(b)
    PROVE  /\ IsList(Together(a, b)) /\ Len(a) \in Nat /\ Len(b) \in Nat
           /\ Len(Together(a, b)) = (Len(a) + 1) + Len(b)
           /\ \A i \in 1..Len(a) : Together(a, b)[i] = a[i]
           /\ Together(a, b)[Len(a) + 1] = "-"
           /\ \A i \in 1..Len(b) : Together(a, b)[(Len(a) + 1) + i] = b[i]
<1>1. PICK V : "-" \in V /\ a \in Seq(V) /\ b \in Seq(V)
  BY InOneSet
<1> DEFINE h == <<"-">>
           ah == a \o h
<1>2. h \in Seq(V) /\ Len(h) = 1 /\ h[1] = "-"
  BY <1>1
<1>3. Len(a) \in Nat /\ Len(b) \in Nat
  BY <1>1
<1> HIDE DEF h
<1>4. /\ ah \in Seq(V) /\ Len(ah) = Len(a) + 1
      /\ \A i \in 1..Len(a) : ah[i] = a[i]
      /\ ah[Len(a) + 1] = "-"
  <2>1. ah \in Seq(V) /\ Joins(ah, a, h)
    BY <1>1, <1>2, ConcatIs, Zenon
  <2> HIDE DEF ah
  <2>2. 1 \in 1..Len(h)
    BY <1>2
  <2>3. QED
    BY <1>2, <2>1, <2>2 DEF Joins
<1> HIDE DEF ah
<1>5. /\ ah \o b \in Seq(V) /\ Len(ah \o b) = (Len(a) + 1) + Len(b)
      /\ \A i \in 1..(Len(a) + 1) : (ah \o b)[i] = ah[i]
      /\ \A i \in 1..Len(b) : (ah \o b)[(Len(a) + 1) + i] = b[i]
  <2>1. ah \o b \in Seq(V) /\ Joins(ah \o b, ah, b)
    BY <1>1, <1>4, ConcatIs, Zenon
  <2> DEFINE c == ah \o b
  <2> HIDE DEF c
  <2>2. c \in Seq(V) /\ Joins(c, ah, b)
    BY <2>1 DEF c
  <2>3. /\ c \in Seq(V) /\ Len(c) = (Len(a) + 1) + Len(b)
        /\ \A i \in 1..(Len(a) + 1) : c[i] = ah[i]
        /\ \A i \in 1..Len(b) : c[(Len(a) + 1) + i] = b[i]
    BY <1>4, <2>2 DEF Joins
  <2>4. QED
    BY <2>3 DEF c
<1>6. Together(a, b) = ah \o b
  BY DEF Together, ah, h
<1>7. \A i \in 1..Len(a) : i \in 1..(Len(a) + 1)
  BY <1>3
<1>8. Len(a) + 1 \in 1..(Len(a) + 1)
  BY <1>3
<1>9. IsList(ah \o b)
  BY <1>5, ListOf
<1>10. QED
  BY <1>3, <1>4, <1>5, <1>6, <1>7, <1>8, <1>9

(* A position in two joined names is one of the first, the hyphen's, or one *)
(* of the second.                                                          *)
LEMMA PlaceIs ==
    ASSUME NEW m \in Nat, NEW l \in Nat, NEW k \in 1..((m + 1) + l)
    PROVE  k \in 1..m \/ k = m + 1 \/ (k - (m + 1) \in 1..l /\ (m + 1) + (k - (m + 1)) = k)
OBVIOUS

(* Tidy names are joined to a tidy name.                                    *)
LEMMA TogetherIsTidy ==
    ASSUME NEW a, NEW b, Tidy(a), Tidy(b)
    PROVE  Tidy(Together(a, b))
<1> DEFINE c == Together(a, b)
           m == Len(a)
           l == Len(b)
<1>1. /\ IsList(c) /\ m \in Nat /\ l \in Nat /\ Len(c) = (m + 1) + l
      /\ \A i \in 1..m : c[i] = a[i]
      /\ c[m + 1] = "-"
      /\ \A i \in 1..l : c[(m + 1) + i] = b[i]
  BY TogetherIs DEF Tidy, Neat
<1> HIDE DEF c
<1>2. 1 \in 1..m /\ m \in 1..m /\ 1 \in 1..l /\ l \in 1..l
  <2>1. m # 0 /\ l # 0
    BY DEF Tidy, Neat, IsList
  <2>2. QED
    BY <1>1, <2>1
<1>3. ASSUME NEW k \in 1..Len(c) PROVE IsLetter(c[k]) \/ c[k] = "-"
  <2>1. k \in 1..m \/ k = m + 1 \/ (k - (m + 1) \in 1..l /\ (m + 1) + (k - (m + 1)) = k)
    BY <1>1, PlaceIs
  <2>2. QED
    BY <1>1, <2>1 DEF Tidy, Neat
<1>4. a[1] # "-" /\ a[m] # "-" /\ b[1] # "-" /\ b[l] # "-"
  BY DEF Tidy, Neat
<1>5. c # <<>> /\ c[1] # "-" /\ c[Len(c)] # "-" /\ c[m] # "-" /\ c[(m + 1) + 1] # "-"
  <2>1. c # <<>>
    BY <1>1
  <2>2. QED
    BY <1>1, <1>2, <1>4, <2>1
<1>6. ASSUME NEW k \in 1..(Len(c) - 1) PROVE c[k] # "-" \/ c[k + 1] # "-"
  <2>1. CASE k \in 1..(m - 1)
    <3>1. k \in 1..m /\ k + 1 \in 1..m
      BY <1>1, <2>1
    <3>2. a[k] # "-" \/ a[k + 1] # "-"
      BY <2>1 DEF Tidy, Neat
    <3>3. QED
      BY <1>1, <3>1, <3>2
  <2>2. CASE k = m
    BY <1>5, <2>2
  <2>3. CASE k = m + 1
    BY <1>5, <2>3
  <2>4. CASE k - (m + 1) \in 1..(l - 1)
    <3> DEFINE i == k - (m + 1)
    <3>1. i \in 1..l /\ i + 1 \in 1..l /\ k = (m + 1) + i /\ k + 1 = (m + 1) + (i + 1)
      BY <1>1, <2>4
    <3>2. b[i] # "-" \/ b[i + 1] # "-"
      BY <2>4 DEF Tidy, Neat
    <3> HIDE DEF i
    <3>3. QED
      BY <1>1, <3>1, <3>2
  <2>5. k \in 1..(m - 1) \/ k = m \/ k = m + 1 \/ k - (m + 1) \in 1..(l - 1)
    BY <1>1
  <2>6. QED
    BY <2>1, <2>2, <2>3, <2>4, <2>5
<1>7. Tidy(c)
  BY <1>1, <1>3, <1>5, <1>6 DEF Tidy, Neat
<1>8. QED
  BY <1>7 DEF c

(* The letters of two joined names.                                         *)
LEMMA LettersTogether ==
    ASSUME NEW a, NEW b, IsList(a), IsList(b), NEW k \in Int
    PROVE  /\ k \in LettersOf(Together(a, b))
                <=> k \in LettersOf(a) \/ k - (Len(a) + 1) \in LettersOf(b)
           /\ k \in LettersOf(a) => k >= 1 /\ k <= Len(a)
           /\ k \in LettersOf(b) => k >= 1 /\ k <= Len(b)
<1> DEFINE c == Together(a, b)
           m == Len(a)
           l == Len(b)
<1>1. /\ IsList(c) /\ m \in Nat /\ l \in Nat /\ Len(c) = (m + 1) + l
      /\ \A i \in 1..m : c[i] = a[i]
      /\ c[m + 1] = "-"
      /\ \A i \in 1..l : c[(m + 1) + i] = b[i]
  BY TogetherIs
<1>2. DOMAIN a = 1..m /\ DOMAIN b = 1..l /\ DOMAIN c = 1..((m + 1) + l)
  BY <1>1, ListIs
<1> HIDE DEF c
<1>3. ~IsLetter("-")
  BY NamingAssumption DEF IsLetter
<1>4. CASE k \in 1..m
  <2>1. k \in DOMAIN c /\ k - (m + 1) \notin 1..l
    BY <1>1, <1>2, <1>4
  <2>2. QED
    BY <1>1, <1>2, <1>4, <2>1 DEF LettersOf, c
<1>5. CASE k = m + 1
  <2>1. k \notin 1..m /\ k - (m + 1) \notin 1..l
    BY <1>1, <1>5
  <2>2. ~IsLetter(c[k])
    BY <1>1, <1>3, <1>5
  <2>3. k \notin LettersOf(c) /\ k \notin LettersOf(a) /\ k - (m + 1) \notin LettersOf(b)
    BY <1>2, <2>1, <2>2 DEF LettersOf
  <2>4. k \in LettersOf(b) => k >= 1 /\ k <= l
    BY <1>1, <1>2 DEF LettersOf
  <2>5. QED
    BY <2>3, <2>4 DEF c
<1>6. CASE k - (m + 1) \in 1..l
  <2>1. k \notin 1..m /\ k \in 1..((m + 1) + l) /\ c[k] = b[k - (m + 1)]
    <3>1. k \notin 1..m /\ k \in 1..((m + 1) + l) /\ k = (m + 1) + (k - (m + 1))
      BY <1>1, <1>6
    <3>2. QED
      BY <1>1, <1>6, <3>1
  <2>2. k \in LettersOf(c) <=> k - (m + 1) \in LettersOf(b)
    BY <1>2, <1>6, <2>1 DEF LettersOf
  <2>3. k \notin LettersOf(a)
    BY <1>2, <2>1 DEF LettersOf
  <2>4. k \in LettersOf(b) => k >= 1 /\ k <= l
    BY <1>1, <1>2 DEF LettersOf
  <2>5. QED
    BY <2>2, <2>3, <2>4 DEF c
<1>7. CASE k \notin 1..((m + 1) + l)
  <2>1. k \notin 1..m /\ k - (m + 1) \notin 1..l
    BY <1>1, <1>7
  <2>2. QED
    BY <1>1, <1>2, <1>7, <2>1 DEF LettersOf, c
<1>8. k \in 1..m \/ k = m + 1 \/ k - (m + 1) \in 1..l \/ k \notin 1..((m + 1) + l)
  BY <1>1
<1>9. QED
  BY <1>4, <1>5, <1>6, <1>7, <1>8

(* z goes on with y after x.                                                *)
GoesOn(z, x, y, k, l) ==
    (\A i \in 1..k : z[i] = x[i]) /\ (\A i \in 1..l : z[k + i] = y[i])

(* What holds the members of two sequences is their concatenation.          *)
LEMMA IsJoined ==
    ASSUME NEW V, NEW k \in Nat, NEW l \in Nat,
           NEW x \in [1..k -> V], NEW y \in [1..l -> V], NEW z \in [1..(k + l) -> V],
           GoesOn(z, x, y, k, l)
    PROVE  z = x \o y
<1>1. x \in Seq(V) /\ Len(x) = k
  OBVIOUS
<1>2. y \in Seq(V) /\ Len(y) = l
  OBVIOUS
<1>3. z \in Seq(V) /\ Len(z) = k + l
  OBVIOUS
<1> DEFINE c == x \o y
<1>4. c \in Seq(V) /\ Joins(c, x, y)
  BY <1>1, <1>2, ConcatIs, Zenon
<1> HIDE DEF c
<1>0. (\A i \in 1..k : z[i] = x[i]) /\ (\A i \in 1..l : z[k + i] = y[i])
  BY DEF GoesOn
<1>5. ASSUME NEW i \in 1..(k + l) PROVE z[i] = c[i]
  <2>1. CASE i \in 1..k
    BY <1>0, <1>1, <1>4, <2>1 DEF Joins
  <2>2. CASE i - k \in 1..l
    <3>1. k + (i - k) = i
      OBVIOUS
    <3>2. z[i] = y[i - k]
      BY <1>0, <2>2, <3>1
    <3>3. c[i] = y[i - k]
      BY <1>1, <1>2, <1>4, <2>2, <3>1 DEF Joins
    <3>4. QED
      BY <3>2, <3>3
  <2>3. i \in 1..k \/ i - k \in 1..l
    OBVIOUS
  <2>4. QED
    BY <2>1, <2>2, <2>3
<1>6. Len(c) = k + l
  BY <1>1, <1>2, <1>4 DEF Joins
<1>7. z = c
  BY <1>3, <1>4, <1>5, <1>6, SameSequence
<1>8. QED
  BY <1>7 DEF c

----------------------------------------------------------------------------
(* The words of joined names *)

(* The longest runs i..j of a set of positions.                             *)
RunOf(L, i, j) ==
    /\ i \in L /\ j \in L /\ i <= j
    /\ \A k \in i..j : k \in L
    /\ i - 1 \notin L /\ j + 1 \notin L

(* L holds what A does, and, after a gap, what B does.                      *)
GapBetween(L, A, B, n) ==
    /\ n \in Int
    /\ \A k \in Int : k \in L <=> k \in A \/ k - n \in B
    /\ \A k \in Int : k \in A => k >= 1 /\ k < n
    /\ \A k \in Int : k \in B => k >= 1

(* A run does not go over the gap.                                          *)
LEMMA RunsInGap ==
    ASSUME NEW L, NEW A, NEW B, NEW n, GapBetween(L, A, B, n), NEW i \in Int, NEW j \in Int
    PROVE  RunOf(L, i, j) <=> RunOf(A, i, j) \/ RunOf(B, i - n, j - n)
<1>1. n \in Int /\ i - n \in Int /\ j - n \in Int
  BY DEF GapBetween
<1>2. \A k \in Int : k \in L <=> k \in A \/ k - n \in B
  BY DEF GapBetween
<1>3. \A k \in Int : k \in A => k >= 1 /\ k < n
  BY DEF GapBetween
<1>4. \A k \in Int : k \in B => k >= 1
  BY DEF GapBetween
<1>5. ASSUME NEW k \in Int, k - n \in B PROVE k > n /\ k \notin A
  <2>1. k - n >= 1
    BY <1>1, <1>4, <1>5
  <2>2. k > n
    BY <1>1, <2>1
  <2>3. QED
    BY <1>1, <1>3, <2>2
<1>6. ASSUME RunOf(L, i, j), i \in A PROVE RunOf(A, i, j)
  <2>1. i <= j /\ j \in L /\ i - 1 \notin A /\ j + 1 \notin A /\ \A k \in i..j : k \in L
    BY <1>2, <1>6 DEF RunOf
  <2>2. i < n
    BY <1>3, <1>6
  <2>3. n \notin L
    <3>1. n \notin A /\ n - n \notin B
      BY <1>1, <1>3, <1>5
    <3>2. QED
      BY <1>1, <1>2, <3>1
  <2>4. j < n
    <3>1. n \notin i..j
      BY <2>1, <2>3
    <3>2. QED
      BY <1>1, <2>2, <3>1
  <2>5. ASSUME NEW k \in i..j PROVE k \in A
    <3>1. ~(k > n)
      BY <1>1, <2>4
    <3>2. QED
      BY <1>2, <1>5, <2>1, <3>1
  <2>6. j \in A
    <3>1. j \in i..j
      BY <2>1
    <3>2. QED
      BY <2>5, <3>1
  <2>7. QED
    BY <1>6, <2>1, <2>5, <2>6 DEF RunOf
<1>7. ASSUME RunOf(L, i, j), i - n \in B PROVE RunOf(B, i - n, j - n)
  <2>1. i <= j /\ j \in L /\ i - 1 \notin L /\ j + 1 \notin L /\ \A k \in i..j : k \in L
    BY <1>7 DEF RunOf
  <2>2. i > n
    BY <1>5, <1>7
  <2>3. ASSUME NEW k \in (i - n)..(j - n) PROVE k \in B
    <3>1. k + n \in i..j /\ (k + n) - n = k /\ ~(k + n < n)
      BY <1>1, <2>2
    <3>2. k + n \in L /\ k + n \notin A
      BY <1>3, <2>1, <3>1
    <3>3. QED
      BY <1>2, <3>1, <3>2
  <2>4. i - n <= j - n /\ j - n \in (i - n)..(j - n)
    BY <1>1, <2>1
  <2>5. (i - n) - 1 \notin B /\ (j - n) + 1 \notin B
    <3>1. (i - n) - 1 = (i - 1) - n /\ (j - n) + 1 = (j + 1) - n
      BY <1>1
    <3>2. QED
      BY <1>2, <2>1, <3>1
  <2>6. QED
    BY <1>7, <2>3, <2>4, <2>5 DEF RunOf
<1>8. ASSUME RunOf(A, i, j) PROVE RunOf(L, i, j)
  <2>1. i \in A /\ j \in A /\ i <= j /\ i - 1 \notin A /\ j + 1 \notin A /\ \A k \in i..j : k \in A
    BY <1>8 DEF RunOf
  <2>2. i < n /\ j < n
    BY <1>3, <2>1
  <2>3. (i - 1) - n \notin B /\ (j + 1) - n \notin B
    <3>1. ~(i - 1 > n) /\ ~(j + 1 > n)
      BY <1>1, <2>2
    <3>2. QED
      BY <1>5, <3>1
  <2>4. QED
    BY <1>2, <2>1, <2>3 DEF RunOf
<1>9. ASSUME RunOf(B, i - n, j - n) PROVE RunOf(L, i, j)
  <2>1. /\ i - n \in B /\ j - n \in B /\ i - n <= j - n
        /\ (i - n) - 1 \notin B /\ (j - n) + 1 \notin B /\ \A k \in (i - n)..(j - n) : k \in B
    BY <1>9 DEF RunOf
  <2>2. i > n /\ j > n
    BY <1>5, <2>1
  <2>3. i - 1 \notin L /\ j + 1 \notin L
    <3>1. (i - n) - 1 = (i - 1) - n /\ (j - n) + 1 = (j + 1) - n
      BY <1>1
    <3>2. ~(i - 1 < n) /\ ~(j + 1 < n)
      BY <1>1, <2>2
    <3>3. QED
      BY <1>2, <1>3, <2>1, <3>1, <3>2
  <2>4. ASSUME NEW k \in i..j PROVE k \in L
    <3>1. k - n \in (i - n)..(j - n)
      BY <1>1
    <3>2. QED
      BY <1>2, <2>1, <3>1
  <2>5. i <= j
    BY <1>1, <2>1
  <2>6. QED
    BY <1>2, <2>1, <2>3, <2>4, <2>5 DEF RunOf
<1>10. RunOf(L, i, j) => i \in A \/ i - n \in B
  BY <1>2 DEF RunOf
<1>11. QED
  BY <1>6, <1>7, <1>8, <1>9, <1>10

(* The runs of two joined names are those of the one and of the other.      *)
LEMMA RunsTogether ==
    ASSUME NEW a, NEW b, IsList(a), IsList(b), NEW i \in Int, NEW j \in Int
    PROVE  <<i, j>> \in LetterRuns(Together(a, b))
             <=> \/ <<i, j>> \in LetterRuns(a)
                 \/ <<i - (Len(a) + 1), j - (Len(a) + 1)>> \in LetterRuns(b)
<1> DEFINE n == Len(a) + 1
           c == Together(a, b)
<1>1. IsList(c) /\ Len(a) \in Nat /\ n \in Int
  BY TogetherIs
<1>2. ASSUME NEW x, IsList(x), NEW k, NEW l
      PROVE  <<k, l>> \in LetterRuns(x) <=> RunOf(LettersOf(x), k, l)
  <2>1. x \in Seq(Range(x))
    BY <1>2 DEF IsList
  <2>2. QED
    BY <2>1, RunIs DEF RunOf
<1>3. GapBetween(LettersOf(c), LettersOf(a), LettersOf(b), n)
  <2>1. ASSUME NEW k \in Int
        PROVE  /\ k \in LettersOf(c) <=> k \in LettersOf(a) \/ k - n \in LettersOf(b)
               /\ k \in LettersOf(a) => k >= 1 /\ k < n
               /\ k \in LettersOf(b) => k >= 1
    <3>1. /\ k \in LettersOf(c) <=> k \in LettersOf(a) \/ k - n \in LettersOf(b)
          /\ k \in LettersOf(a) => k >= 1 /\ k <= Len(a)
          /\ k \in LettersOf(b) => k >= 1 /\ k <= Len(b)
      BY LettersTogether
    <3>2. k <= Len(a) <=> k < n
      BY <1>1
    <3>3. QED
      BY <3>1, <3>2
  <2>2. QED
    BY <1>1, <2>1 DEF GapBetween
<1> HIDE DEF c, n
<1>4. /\ <<i, j>> \in LetterRuns(c) <=> RunOf(LettersOf(c), i, j)
      /\ <<i, j>> \in LetterRuns(a) <=> RunOf(LettersOf(a), i, j)
      /\ <<i - n, j - n>> \in LetterRuns(b) <=> RunOf(LettersOf(b), i - n, j - n)
  BY <1>1, <1>2
<1>5. RunOf(LettersOf(c), i, j)
        <=> RunOf(LettersOf(a), i, j) \/ RunOf(LettersOf(b), i - n, j - n)
  BY <1>3, RunsInGap
<1>6. QED
  BY <1>4, <1>5 DEF c, n

(* How many runs are in front of one, and what the k-th run of a name says.  *)
Ahead(runs, r) == {s \in runs : s[1] < r[1]}
SaidAt(name, k) ==
    {SubSeq(name, r[1], r[2]) :
       r \in {r \in LetterRuns(name) : Cardinality(Ahead(LetterRuns(name), r)) = k - 1}}
WordAt(name, k) == CHOOSE word \in SaidAt(name, k) : TRUE

(* A name with a letter has a word for each of its runs.                    *)
LEMMA WordsAre ==
    ASSUME NEW name, LetterRuns(name) # {}
    PROVE  Words(name) = [k \in 1..Cardinality(LetterRuns(name)) |-> WordAt(name, k)]
BY DEF Words, WordAt, SaidAt, Ahead

(* A name with a letter has a run.                                          *)
LEMMA LetterHasRun ==
    ASSUME NEW a, IsList(a), LettersOf(a) # {}
    PROVE  LetterRuns(a) # {}
<1> DEFINE L == LettersOf(a)
           m == Len(a)
<1>1. a \in Seq(Range(a)) /\ m \in Nat
  BY DEF IsList
<1>2. \A k \in L : k \in Nat \ {0} /\ k <= m /\ k \in 1..m
  BY <1>1, LettersArePositions
<1>3. L \in SUBSET (1..m)
  BY <1>2
<1>4. PICK j \in L : \A k \in L : k <= j
  BY <1>1, <1>3, LastPosition
<1>5. j \in Nat \ {0} /\ j + 1 \notin L
  <2>1. ~(j + 1 <= j)
    BY <1>2
  <2>2. QED
    BY <1>2, <1>4, <2>1
<1> DEFINE Starts == {i \in 1..j : \A k \in (j + 1 - i)..j : k \in L}
<1>6. 1 \in Starts
  <2>1. (j + 1 - 1)..j = {j} /\ 1 \in 1..j
    BY <1>5
  <2>2. QED
    BY <2>1
<1>7. Starts \in SUBSET (1..j)
  OBVIOUS
<1>8. PICK s \in Starts : \A t \in Starts : t <= s
  <2> HIDE DEF Starts
  <2>1. QED
    BY <1>5, <1>6, <1>7, LastPosition
<1> DEFINE i == j + 1 - s
<1>9. s \in 1..j /\ i \in 1..j /\ i <= j /\ \A k \in i..j : k \in L
  BY <1>5, <1>8
<1>10. i - 1 \notin L
  <2>1. SUFFICES ASSUME i - 1 \in L PROVE FALSE
    OBVIOUS
  <2>2. i - 1 \in Nat \ {0}
    BY <1>2, <2>1
  <2>3. s + 1 \in 1..j /\ j + 1 - (s + 1) = i - 1
    BY <1>5, <1>9, <2>2
  <2>4. \A k \in (i - 1)..j : k \in L
    <3>1. \A k \in (i - 1)..j : k = i - 1 \/ k \in i..j
      BY <1>5, <1>9, <2>2
    <3>2. QED
      BY <1>9, <2>1, <3>1
  <2>5. s + 1 \in Starts
    BY <2>3, <2>4
  <2>6. QED
    BY <1>8, <1>9, <2>5
<1>11. i \in L
  <2>1. i \in i..j
    BY <1>9
  <2>2. QED
    BY <1>9, <2>1
<1> HIDE DEF i, Starts
<1>12. <<i, j>> \in LetterRuns(a)
  BY <1>1, <1>5, <1>9, <1>10, <1>11, RunIs
<1>13. QED
  BY <1>12

(* A tidy name has words.                                                   *)
LEMMA TidyHasWords ==
    ASSUME NEW a, Tidy(a)
    PROVE  LetterRuns(a) # {}
<1>1. 1 \in DOMAIN a
  BY DEF Tidy, Neat, IsList
<1>2. 1 \in 1..Len(a)
  BY <1>1 DEF Tidy, Neat, IsList
<1>3. IsLetter(a[1])
  BY <1>2 DEF Tidy, Neat
<1>4. 1 \in LettersOf(a)
  BY <1>1, <1>3 DEF LettersOf
<1>5. QED
  BY <1>4, LetterHasRun DEF Tidy, Neat

(* The runs of c are those of a, and those of b, n further on.              *)
Moved(t, n) == <<t[1] + n, t[2] + n>>
FollowedBy(C, A, B, n) ==
    /\ n \in Nat
    /\ \A r \in C : r \in A \/ \E t \in B : r = Moved(t, n)
    /\ \A r \in A : r \in C /\ r[1] \in Nat /\ r[1] < n
    /\ \A t \in B : t = <<t[1], t[2]>> /\ t[1] \in Nat /\ t[2] \in Nat /\ Moved(t, n) \in C

(* Joining two names moves the runs of the second behind the first.         *)
LEMMA RunsFollow ==
    ASSUME NEW a, NEW b, IsList(a), IsList(b)
    PROVE  FollowedBy(LetterRuns(Together(a, b)), LetterRuns(a), LetterRuns(b), Len(a) + 1)
<1> DEFINE c == Together(a, b)
           n == Len(a) + 1
<1>1. IsList(c) /\ Len(a) \in Nat /\ n \in Nat /\ n \in Int
  BY TogetherIs
<1>2. ASSUME NEW x, IsList(x), NEW r \in LetterRuns(x)
      PROVE  /\ r = <<r[1], r[2]>> /\ r[1] \in Nat /\ r[2] \in Nat
             /\ r[1] \in LettersOf(x)
  <2>1. x \in Seq(Range(x))
    BY <1>2 DEF IsList
  <2>2. QED
    BY <2>1, RunsArePairs
<1>3. ASSUME NEW r \in LetterRuns(c) PROVE r \in LetterRuns(a) \/ \E t \in LetterRuns(b) : r = Moved(t, n)
  <2>1. r = <<r[1], r[2]>> /\ r[1] \in Nat /\ r[2] \in Nat
    BY <1>1, <1>2
  <2>2. <<r[1], r[2]>> \in LetterRuns(Together(a, b)) /\ r[1] \in Int /\ r[2] \in Int
    BY <2>1
  <2>3. <<r[1], r[2]>> \in LetterRuns(a) \/ <<r[1] - n, r[2] - n>> \in LetterRuns(b)
    BY <2>2, RunsTogether
  <2>4. Moved(<<r[1] - n, r[2] - n>>, n) = <<r[1], r[2]>>
    BY <1>1, <2>1 DEF Moved
  <2>5. QED
    BY <2>1, <2>3, <2>4
<1>4. ASSUME NEW r \in LetterRuns(a) PROVE r \in LetterRuns(c) /\ r[1] \in Nat /\ r[1] < n
  <2>1. r = <<r[1], r[2]>> /\ r[1] \in Nat /\ r[2] \in Nat /\ r[1] \in LettersOf(a)
    BY <1>2
  <2>2. <<r[1], r[2]>> \in LetterRuns(a) /\ r[1] \in Int /\ r[2] \in Int
    BY <2>1
  <2>3. <<r[1], r[2]>> \in LetterRuns(Together(a, b))
    BY <2>2, RunsTogether
  <2>4. r[1] <= Len(a)
    BY <2>1, <2>2, LettersTogether
  <2>5. QED
    BY <1>1, <2>1, <2>3, <2>4
<1>5. ASSUME NEW t \in LetterRuns(b)
      PROVE  t = <<t[1], t[2]>> /\ t[1] \in Nat /\ t[2] \in Nat /\ Moved(t, n) \in LetterRuns(c)
  <2>1. t = <<t[1], t[2]>> /\ t[1] \in Nat /\ t[2] \in Nat
    BY <1>2
  <2>2. t[1] + n \in Int /\ t[2] + n \in Int /\ (t[1] + n) - n = t[1] /\ (t[2] + n) - n = t[2]
    BY <1>1, <2>1
  <2>3. <<(t[1] + n) - n, (t[2] + n) - n>> \in LetterRuns(b)
    BY <2>1, <2>2
  <2>4. <<t[1] + n, t[2] + n>> \in LetterRuns(Together(a, b))
    BY <2>2, <2>3, RunsTogether
  <2>5. QED
    BY <2>1, <2>4 DEF Moved
<1> HIDE DEF n, c
<1>6. FollowedBy(LetterRuns(c), LetterRuns(a), LetterRuns(b), n)
  BY <1>1, <1>3, <1>4, <1>5 DEF FollowedBy
<1>7. QED
  BY <1>6 DEF n, c

(* How many runs are ahead, in two joined names.                            *)
LEMMA AheadTogether ==
    ASSUME NEW A, IsFiniteSet(A), NEW B, IsFiniteSet(B), NEW C, NEW n, FollowedBy(C, A, B, n)
    PROVE  /\ IsFiniteSet(C) /\ Cardinality(C) = Cardinality(A) + Cardinality(B)
           /\ \A r \in A : /\ Cardinality(Ahead(C, r)) = Cardinality(Ahead(A, r))
                           /\ Cardinality(Ahead(A, r)) \in Nat
                           /\ Cardinality(Ahead(A, r)) < Cardinality(A)
           /\ \A t \in B : /\ Cardinality(Ahead(C, Moved(t, n))) = Cardinality(A) + Cardinality(Ahead(B, t))
                           /\ Cardinality(Ahead(B, t)) \in Nat
<1> DEFINE move == [t \in B |-> Moved(t, n)]
           D(S) == {Moved(t, n) : t \in S}
<1>1. ASSUME NEW t \in B
      PROVE  /\ move[t] = Moved(t, n) /\ move[t][1] = t[1] + n /\ t[1] \in Nat
             /\ move[t][2] = t[2] + n /\ t[2] \in Nat /\ t = <<t[1], t[2]>>
             /\ move[t] \in C /\ n \in Nat
  BY DEF FollowedBy, Moved
<1> HIDE DEF move
<1>2. ASSUME NEW s \in B, NEW t \in B, move[s] = move[t] PROVE s = t
  <2>1. s[1] + n = t[1] + n /\ s[2] + n = t[2] + n
    BY <1>1, <1>2
  <2>2. s[1] = t[1] /\ s[2] = t[2]
    BY <1>1, <2>1
  <2>3. QED
    BY <1>1, <2>2
<1>3. ASSUME NEW S \in SUBSET B
      PROVE  /\ IsFiniteSet(A \cup D(S))
             /\ Cardinality(A \cup D(S)) = Cardinality(A) + Cardinality(S)
             /\ IsFiniteSet(S)
  <2>1. IsFiniteSet(S)
    BY FS_Subset
  <2>2. \A x \in S : x \in B
    OBVIOUS
  <2>3. Pairs(move, S, D(S))
    <3>1. \A x \in S : move[x] \in D(S)
      BY <1>1, <2>2
    <3>2. \A d \in D(S) : \E x \in S : move[x] = d
      BY <1>1, <2>2
    <3> HIDE DEF D
    <3>3. QED
      BY <1>2, <2>2, <3>1, <3>2 DEF Pairs
  <2>4. Cardinality(D(S)) = Cardinality(S)
    <3> HIDE DEF D
    <3>1. QED
      BY <2>1, <2>3, SameSize
  <2>5. IsFiniteSet(D(S))
    <3> DEFINE f == [x \in S |-> move[x]]
    <3>1. f \in Surjection(S, D(S))
      <4>1. f \in [S -> D(S)] /\ \A d \in D(S) : \E x \in S : f[x] = d
        <5> HIDE DEF D
        <5>1. QED
          BY <2>3 DEF Pairs
      <4> HIDE DEF D, f
      <4>2. QED
        BY <4>1 DEF Surjection
    <3> HIDE DEF D, f
    <3>2. QED
      BY <2>1, <3>1, FS_Surjection
  <2>6. A \cap D(S) = {}
    <3>1. ASSUME NEW x \in A, x \in D(S) PROVE FALSE
      <4>1. PICK t \in S : x = Moved(t, n)
        BY <3>1
      <4>2. x[1] = t[1] + n /\ t[1] \in Nat /\ n \in Nat
        BY <1>1, <2>2, <4>1
      <4>3. x[1] \in Nat /\ x[1] < n
        BY DEF FollowedBy
      <4>4. QED
        BY <4>2, <4>3
    <3> HIDE DEF D
    <3>2. QED
      BY <3>1
  <2> HIDE DEF D
  <2>7. /\ IsFiniteSet(A \cup D(S))
        /\ Cardinality(A \cup D(S)) = Cardinality(A) + Cardinality(D(S)) - Cardinality(A \cap D(S))
    BY <2>5, FS_Union
  <2>8. Cardinality(A) \in Nat /\ Cardinality(S) \in Nat /\ Cardinality(A \cap D(S)) = 0
    BY <2>1, <2>6, FS_CardinalityType, FS_EmptySet
  <2>9. QED
    BY <2>1, <2>4, <2>7, <2>8
<1>4. C = A \cup D(B)
  <2>1. \A r \in C : r \in A \/ r \in D(B)
    BY DEF FollowedBy
  <2>2. \A r \in A : r \in C
    BY DEF FollowedBy
  <2>3. \A r \in D(B) : r \in C
    BY <1>1
  <2> HIDE DEF D
  <2>4. QED
    BY <2>1, <2>2, <2>3
<1>5. ASSUME NEW r \in A
      PROVE  /\ Cardinality(Ahead(C, r)) = Cardinality(Ahead(A, r))
             /\ Cardinality(Ahead(A, r)) \in Nat
             /\ Cardinality(Ahead(A, r)) < Cardinality(A)
  <2>1. \A s \in A : s[1] \in Nat /\ s[1] < n
    BY DEF FollowedBy
  <2>2. ASSUME NEW s \in D(B), s[1] < r[1] PROVE FALSE
    <3>1. PICK t \in B : s = Moved(t, n)
      OBVIOUS
    <3>2. s[1] = t[1] + n /\ t[1] \in Nat /\ n \in Nat
      BY <1>1, <3>1
    <3>3. QED
      BY <2>1, <2>2, <3>2
  <2>3. Ahead(C, r) = Ahead(A, r)
    <3> HIDE DEF D
    <3>1. QED
      BY <1>4, <2>2 DEF Ahead
  <2>4. Ahead(A, r) \in SUBSET A /\ r \notin Ahead(A, r)
    <3>1. ~(r[1] < r[1])
      BY <2>1
    <3>2. QED
      BY <3>1 DEF Ahead
  <2>5. /\ IsFiniteSet(Ahead(A, r)) /\ Cardinality(Ahead(A, r)) <= Cardinality(A)
        /\ Cardinality(A) # Cardinality(Ahead(A, r))
    BY <2>4, FS_Subset
  <2>6. Cardinality(Ahead(A, r)) \in Nat /\ Cardinality(A) \in Nat
    BY <2>5, FS_CardinalityType
  <2>7. QED
    BY <2>3, <2>5, <2>6
<1>6. ASSUME NEW t \in B
      PROVE  /\ Cardinality(Ahead(C, Moved(t, n))) = Cardinality(A) + Cardinality(Ahead(B, t))
             /\ Cardinality(Ahead(B, t)) \in Nat
  <2> DEFINE S == Ahead(B, t)
  <2>1. S \in SUBSET B
    BY DEF Ahead
  <2>2. ASSUME NEW r \in A PROVE r[1] < move[t][1]
    <3>1. r[1] \in Nat /\ r[1] < n /\ n \in Nat
      BY DEF FollowedBy
    <3>2. QED
      BY <1>1, <3>1
  <2>3. ASSUME NEW s \in B PROVE move[s][1] < move[t][1] <=> s[1] < t[1]
    <3>1. /\ move[s][1] = s[1] + n /\ s[1] \in Nat /\ n \in Nat
          /\ move[t][1] = t[1] + n /\ t[1] \in Nat
      BY <1>1
    <3>2. QED
      BY <3>1
  <2>4. Ahead(C, move[t]) = A \cup D(S)
    <3>1. ASSUME NEW r \in Ahead(C, move[t]) PROVE r \in A \cup D(S)
      <4>1. r \in C /\ r[1] < move[t][1]
        BY DEF Ahead
      <4>2. CASE r \in A
        BY <4>2
      <4>3. CASE r \in D(B)
        <5>1. PICK s \in B : r = Moved(s, n)
          BY <4>3
        <5>2. r = move[s]
          BY <1>1, <5>1
        <5>3. s \in S
          BY <2>3, <4>1, <5>2 DEF Ahead
        <5>4. QED
          BY <5>1, <5>3
      <4> HIDE DEF D
      <4>4. QED
        BY <1>4, <4>1, <4>2, <4>3
    <3>2. ASSUME NEW r \in A PROVE r \in Ahead(C, move[t])
      <4> HIDE DEF D
      <4>1. QED
        BY <1>4, <2>2 DEF Ahead
    <3>3. ASSUME NEW r \in D(S) PROVE r \in Ahead(C, move[t])
      <4>1. PICK s \in S : r = Moved(s, n)
        OBVIOUS
      <4>2. s \in B /\ s[1] < t[1]
        BY DEF Ahead
      <4>3. r = move[s] /\ r \in C
        BY <1>1, <4>1, <4>2
      <4>4. QED
        BY <2>3, <4>2, <4>3 DEF Ahead
    <3> HIDE DEF D, S
    <3>4. QED
      BY <3>1, <3>2, <3>3
  <2>5. Cardinality(A \cup D(S)) = Cardinality(A) + Cardinality(S) /\ IsFiniteSet(S)
    BY <1>3, <2>1
  <2>6. Cardinality(S) \in Nat
    BY <2>5, FS_CardinalityType
  <2>7. move[t] = Moved(t, n)
    BY <1>1
  <2> HIDE DEF D, S
  <2>8. QED
    BY <2>4, <2>5, <2>6, <2>7 DEF S
<1>7. IsFiniteSet(C) /\ Cardinality(C) = Cardinality(A) + Cardinality(B)
  <2>1. B \in SUBSET B
    OBVIOUS
  <2> HIDE DEF D
  <2>2. QED
    BY <1>3, <1>4, <2>1
<1>8. QED
  BY <1>5, <1>6, <1>7

(* The runs of a say in c what they say in a, and those of b too, n further  *)
(* on.                                                                     *)
SaysTheSame(c, a, b, n) ==
    /\ \A r \in LetterRuns(a) : SubSeq(c, r[1], r[2]) = SubSeq(a, r[1], r[2])
    /\ \A t \in LetterRuns(b) : SubSeq(c, t[1] + n, t[2] + n) = SubSeq(b, t[1], t[2])

(* What a run says does not change when its name is joined to another.      *)
LEMMA SaidTogether ==
    ASSUME NEW a, NEW b, IsList(a), IsList(b)
    PROVE  SaysTheSame(Together(a, b), a, b, Len(a) + 1)
<1> DEFINE c == Together(a, b)
           n == Len(a) + 1
<1>1. /\ IsList(c) /\ Len(a) \in Nat /\ Len(b) \in Nat /\ Len(c) = n + Len(b)
      /\ \A i \in 1..Len(a) : c[i] = a[i]
      /\ \A i \in 1..Len(b) : c[n + i] = b[i]
  BY TogetherIs
<1>2. PICK V : a \in Seq(V) /\ c \in Seq(V)
  BY <1>1, InOneSet
<1>3. PICK U : b \in Seq(U) /\ c \in Seq(U)
  BY <1>1, InOneSet
<1>4. ASSUME NEW x, IsList(x), NEW r \in LetterRuns(x)
      PROVE  r[1] \in 1..Len(x) /\ r[2] \in 1..Len(x) /\ r[1] <= r[2]
  <2>1. DOMAIN x = 1..Len(x)
    BY <1>4, ListIs
  <2>2. QED
    BY <2>1 DEF LetterRuns
<1> HIDE DEF c
<1>5. ASSUME NEW r \in LetterRuns(a) PROVE SubSeq(c, r[1], r[2]) = SubSeq(a, r[1], r[2])
  <2> DEFINE i == r[1]
             j == r[2]
             m == (j - i) + 1
             x == SubSeq(a, i, j)
             y == SubSeq(c, i, j)
  <2>1. i \in 1..Len(a) /\ j \in 1..Len(a) /\ i <= j
    BY <1>4
  <2>2. i \in 1..Len(c) /\ j \in 1..Len(c) /\ i \in Nat /\ j \in Nat /\ m \in Nat
    BY <1>1, <2>1
  <2>3. Len(x) = m /\ x \in Seq(V) /\ \A k \in 1..m : x[k] = a[i + k - 1]
    BY <1>2, <2>1, CutIs
  <2>4. Len(y) = m /\ y \in Seq(V) /\ \A k \in 1..m : y[k] = c[i + k - 1]
    BY <1>2, <2>1, <2>2, CutIs
  <2>5. \A k \in 1..m : i + k - 1 \in 1..Len(a)
    BY <1>1, <2>1
  <2> HIDE DEF x, y, m, i, j
  <2>6. \A k \in 1..m : y[k] = x[k]
    BY <1>1, <2>3, <2>4, <2>5
  <2>7. x = y
    BY <2>3, <2>4, <2>6, SameSequence
  <2>8. QED
    BY <2>7 DEF x, y, i, j
<1>6. ASSUME NEW t \in LetterRuns(b) PROVE SubSeq(c, t[1] + n, t[2] + n) = SubSeq(b, t[1], t[2])
  <2> DEFINE i == t[1]
             j == t[2]
             m == (j - i) + 1
             x == SubSeq(b, i, j)
             y == SubSeq(c, i + n, j + n)
  <2>1. i \in 1..Len(b) /\ j \in 1..Len(b) /\ i <= j
    BY <1>4
  <2>2. /\ i + n \in 1..Len(c) /\ j + n \in 1..Len(c) /\ i + n <= j + n
        /\ ((j + n) - (i + n)) + 1 = m
    BY <1>1, <2>1, SMTT(30)
  <2>3. Len(x) = m /\ x \in Seq(U) /\ \A k \in 1..m : x[k] = b[i + k - 1]
    BY <1>3, <2>1, CutIs
  <2>4. Len(y) = m /\ y \in Seq(U) /\ \A k \in 1..m : y[k] = c[(i + n) + k - 1]
    <3> HIDE DEF i, j, m, n
    <3>1. QED
      BY <1>3, <2>2, CutIs
  <2>5. \A k \in 1..m : i + k - 1 \in 1..Len(b) /\ (i + n) + k - 1 = n + (i + k - 1)
    <3>1. n \in Nat /\ Len(b) \in Nat
      BY <1>1
    <3> HIDE DEF i, j, n
    <3>2. QED
      BY <2>1, <3>1
  <2> HIDE DEF x, y, m, i, j, n
  <2>6. \A k \in 1..m : y[k] = x[k]
    BY <1>1, <2>3, <2>4, <2>5
  <2>7. x = y
    BY <2>3, <2>4, <2>6, SameSequence
  <2>8. QED
    BY <2>7 DEF x, y, i, j
<1>7. SaysTheSame(c, a, b, n)
  BY <1>5, <1>6 DEF SaysTheSame
<1>8. QED
  BY <1>7 DEF c

(* The words of two joined names are those of the one and of the other.     *)
LEMMA WordsTogether ==
    ASSUME NEW a, NEW b, IsList(a), IsList(b), LetterRuns(a) # {}, LetterRuns(b) # {}
    PROVE  Words(Together(a, b)) = Words(a) \o Words(b)
<1> DEFINE c == Together(a, b)
           n == Len(a) + 1
           A == LetterRuns(a)
           B == LetterRuns(b)
           C == LetterRuns(c)
<1>1. IsFiniteSet(A) /\ IsFiniteSet(B) /\ Cardinality(A) \in Nat /\ Cardinality(B) \in Nat
  <2>1. a \in Seq(Range(a)) /\ b \in Seq(Range(b))
    BY DEF IsList
  <2>2. IsFiniteSet(A) /\ IsFiniteSet(B)
    BY <2>1, RunsAreFinite
  <2>3. QED
    BY <2>2, FS_CardinalityType
<1>2. FollowedBy(C, A, B, n)
  BY RunsFollow
<1>13. SaysTheSame(c, a, b, n)
  BY SaidTogether
<1> HIDE DEF c, n
<1>3. /\ \A r \in A : SubSeq(c, r[1], r[2]) = SubSeq(a, r[1], r[2])
      /\ \A t \in B : SubSeq(c, t[1] + n, t[2] + n) = SubSeq(b, t[1], t[2])
  BY <1>13 DEF SaysTheSame
<1> HIDE DEF A, B, C
<1>4. /\ Cardinality(C) = Cardinality(A) + Cardinality(B)
      /\ \A r \in A : /\ Cardinality(Ahead(C, r)) = Cardinality(Ahead(A, r))
                      /\ Cardinality(Ahead(A, r)) \in Nat
                      /\ Cardinality(Ahead(A, r)) < Cardinality(A)
      /\ \A t \in B : /\ Cardinality(Ahead(C, Moved(t, n))) = Cardinality(A) + Cardinality(Ahead(B, t))
                      /\ Cardinality(Ahead(B, t)) \in Nat
  BY <1>1, <1>2, AheadTogether
<1>5. \A t \in B : Moved(t, n)[1] = t[1] + n /\ Moved(t, n)[2] = t[2] + n
  BY DEF Moved
<1>6. ASSUME NEW word, NEW k
      PROVE  /\ word \in SaidAt(c, k) <=>
                  \E r \in C : Cardinality(Ahead(C, r)) = k - 1 /\ word = SubSeq(c, r[1], r[2])
             /\ word \in SaidAt(a, k) <=>
                  \E r \in A : Cardinality(Ahead(A, r)) = k - 1 /\ word = SubSeq(a, r[1], r[2])
             /\ word \in SaidAt(b, k) <=>
                  \E r \in B : Cardinality(Ahead(B, r)) = k - 1 /\ word = SubSeq(b, r[1], r[2])
  BY DEF SaidAt, A, B, C
<1>7. ASSUME NEW k \in 1..Cardinality(A) PROVE SaidAt(c, k) = SaidAt(a, k)
  <2>1. ASSUME NEW word \in SaidAt(c, k) PROVE word \in SaidAt(a, k)
    <3>1. PICK r \in C : Cardinality(Ahead(C, r)) = k - 1 /\ word = SubSeq(c, r[1], r[2])
      BY <1>6
    <3>2. CASE r \in A
      <4>1. Cardinality(Ahead(A, r)) = k - 1 /\ word = SubSeq(a, r[1], r[2])
        BY <1>3, <1>4, <3>1, <3>2
      <4>2. QED
        BY <1>6, <3>2, <4>1
    <3>3. ASSUME NEW t \in B, r = Moved(t, n) PROVE FALSE
      <4>1. Cardinality(A) + Cardinality(Ahead(B, t)) = k - 1 /\ Cardinality(Ahead(B, t)) \in Nat
        BY <1>4, <3>1, <3>3
      <4>2. QED
        BY <1>1, <4>1
    <3>4. QED
      BY <1>2, <3>2, <3>3 DEF FollowedBy
  <2>2. ASSUME NEW word \in SaidAt(a, k) PROVE word \in SaidAt(c, k)
    <3>1. PICK r \in A : Cardinality(Ahead(A, r)) = k - 1 /\ word = SubSeq(a, r[1], r[2])
      BY <1>6
    <3>2. r \in C /\ Cardinality(Ahead(C, r)) = k - 1 /\ word = SubSeq(c, r[1], r[2])
      BY <1>2, <1>3, <1>4, <3>1 DEF FollowedBy
    <3>3. QED
      BY <1>6, <3>2
  <2>3. QED
    BY <2>1, <2>2
<1>8. ASSUME NEW k \in 1..Cardinality(B)
      PROVE  SaidAt(c, Cardinality(A) + k) = SaidAt(b, k)
  <2> DEFINE K == Cardinality(A) + k
  <2>0. K - 1 = Cardinality(A) + (k - 1) /\ k - 1 \in Nat
    BY <1>1
  <2>1. ASSUME NEW word \in SaidAt(c, K) PROVE word \in SaidAt(b, k)
    <3>1. PICK r \in C : Cardinality(Ahead(C, r)) = K - 1 /\ word = SubSeq(c, r[1], r[2])
      BY <1>6
    <3>2. ASSUME r \in A PROVE FALSE
      <4>1. Cardinality(Ahead(A, r)) = K - 1 /\ Cardinality(Ahead(A, r)) < Cardinality(A)
        BY <1>4, <3>1, <3>2
      <4>2. QED
        BY <1>1, <2>0, <4>1
    <3>3. ASSUME NEW t \in B, r = Moved(t, n) PROVE word \in SaidAt(b, k)
      <4>1. Cardinality(A) + Cardinality(Ahead(B, t)) = K - 1 /\ Cardinality(Ahead(B, t)) \in Nat
        BY <1>4, <3>1, <3>3
      <4>2. Cardinality(Ahead(B, t)) = k - 1
        BY <1>1, <2>0, <4>1
      <4>3. word = SubSeq(b, t[1], t[2])
        BY <1>3, <1>5, <3>1, <3>3
      <4>4. QED
        BY <1>6, <4>2, <4>3
    <3>4. QED
      BY <1>2, <3>2, <3>3 DEF FollowedBy
  <2>2. ASSUME NEW word \in SaidAt(b, k) PROVE word \in SaidAt(c, K)
    <3>1. PICK t \in B : Cardinality(Ahead(B, t)) = k - 1 /\ word = SubSeq(b, t[1], t[2])
      BY <1>6
    <3> DEFINE r == Moved(t, n)
    <3>2. r \in C
      BY <1>2 DEF FollowedBy
    <3>3. Cardinality(Ahead(C, r)) = K - 1
      BY <1>4, <2>0, <3>1
    <3>4. word = SubSeq(c, r[1], r[2])
      BY <1>3, <1>5, <3>1
    <3> HIDE DEF r
    <3>5. QED
      BY <1>6, <3>2, <3>3, <3>4
  <2>3. QED
    BY <2>1, <2>2
<1>9. /\ \A k \in 1..Cardinality(A) : WordAt(c, k) = WordAt(a, k)
      /\ \A k \in 1..Cardinality(B) : WordAt(c, Cardinality(A) + k) = WordAt(b, k)
  BY <1>7, <1>8 DEF WordAt
<1>10. /\ Words(a) = [k \in 1..Cardinality(A) |-> WordAt(a, k)]
       /\ Words(b) = [k \in 1..Cardinality(B) |-> WordAt(b, k)]
       /\ Words(c) = [k \in 1..Cardinality(C) |-> WordAt(c, k)]
  <2>1. A # {} /\ B # {} /\ C # {}
    <3>1. A # {} /\ B # {}
      BY DEF A, B
    <3>2. QED
      BY <1>2, <3>1 DEF FollowedBy
  <2>2. QED
    BY <2>1, WordsAre DEF A, B, C
<1>11. Words(c) = Words(a) \o Words(b)
  <2> DEFINE k == Cardinality(A)
             l == Cardinality(B)
             V == {WordAt(c, i) : i \in 1..(k + l)}
  <2>1. \A i \in 1..(k + l) : WordAt(c, i) \in V
    OBVIOUS
  <2>2. k \in Nat /\ l \in Nat /\ Cardinality(C) = k + l
    BY <1>1, <1>4
  <2>3. /\ \A i \in 1..k : i \in 1..(k + l) /\ WordAt(c, i) = WordAt(a, i)
        /\ \A i \in 1..l : k + i \in 1..(k + l) /\ WordAt(c, k + i) = WordAt(b, i)
    <3>1. /\ \A i \in 1..k : i \in 1..(k + l)
          /\ \A i \in 1..l : k + i \in 1..(k + l)
      <4> HIDE DEF k, l
      <4>1. QED
        BY <2>2
    <3>2. QED
      BY <1>9, <3>1
  <2> HIDE DEF k, l, V
  <2>4. /\ Words(a) = [i \in 1..k |-> WordAt(a, i)]
        /\ Words(b) = [i \in 1..l |-> WordAt(b, i)]
        /\ Words(c) = [i \in 1..(k + l) |-> WordAt(c, i)]
    BY <1>10, <2>2 DEF k, l
  <2>5. \A i \in 1..k : WordAt(a, i) \in V
    BY <2>1, <2>3
  <2>6. \A i \in 1..l : WordAt(b, i) \in V
    BY <2>1, <2>3
  <2>7. Words(a) \in [1..k -> V]
    BY <2>4, <2>5
  <2>8. Words(b) \in [1..l -> V]
    BY <2>4, <2>6
  <2>9. Words(c) \in [1..(k + l) -> V]
    BY <2>1, <2>4
  <2>10. \A i \in 1..k : Words(c)[i] = Words(a)[i]
    BY <2>3, <2>4
  <2>11. \A i \in 1..l : Words(c)[k + i] = Words(b)[i]
    BY <2>3, <2>4
  <2>12. GoesOn(Words(c), Words(a), Words(b), k, l)
    BY <2>10, <2>11 DEF GoesOn
  <2>13. QED
    BY <2>2, <2>7, <2>8, <2>9, <2>12, IsJoined, Zenon
<1>12. QED
  BY <1>11 DEF c

----------------------------------------------------------------------------
(* A tidy name is what its words say *)

(* A set of positions has a first one.                                      *)
LEMMA FirstPosition ==
    ASSUME NEW n \in Nat, NEW S \in SUBSET (1..n), S # {}
    PROVE  \E m \in S : \A j \in S : m <= j
<1> DEFINE T == {i \in 1..n : (n + 1) - i \in S}
<1>1. ASSUME NEW i \in S PROVE (n + 1) - i \in T
  <2>1. (n + 1) - i \in 1..n /\ (n + 1) - ((n + 1) - i) = i
    OBVIOUS
  <2>2. QED
    BY <2>1
<1>2. T \in SUBSET (1..n) /\ T # {}
  BY <1>1
<1>3. \A i \in T : (n + 1) - i \in S /\ i \in 1..n
  OBVIOUS
<1> HIDE DEF T
<1>4. PICK l \in T : \A j \in T : j <= l
  BY <1>2, LastPosition
<1>5. ASSUME NEW j \in S PROVE (n + 1) - l <= j
  <2>1. (n + 1) - j \in T /\ j \in 1..n /\ l \in 1..n
    BY <1>1, <1>3
  <2>2. (n + 1) - j <= l
    BY <1>4, <2>1
  <2>3. QED
    BY <2>1, <2>2
<1>6. QED
  BY <1>3, <1>5

(* A tidy name that is not a word is a word, a hyphen and a tidy name.      *)
LEMMA TidyParts ==
    ASSUME NEW a, Tidy(a), NEW p \in 1..Len(a), ~IsLetter(a[p])
    PROVE  \E x, y : /\ a = Together(x, y) /\ Tidy(x) /\ Tidy(y) /\ Len(y) < Len(a)
                     /\ \A i \in 1..Len(x) : IsLetter(x[i])
<1> DEFINE m == Len(a)
           S == {i \in 1..m : a[i] = "-"}
<1>1. a \in Seq(Range(a)) /\ m \in Nat /\ a # <<>> /\ a[1] # "-" /\ a[m] # "-"
  BY DEF Tidy, Neat, IsList
<1>2. \A i \in 1..m : IsLetter(a[i]) \/ a[i] = "-"
  BY DEF Tidy, Neat
<1>3. S \in SUBSET (1..m) /\ S # {}
  BY <1>2
<1>4. \A i \in 1..m : i \in S <=> a[i] = "-"
  OBVIOUS
<1> HIDE DEF S
<1>5. PICK k \in S : \A i \in S : k <= i
  BY <1>1, <1>3, FirstPosition
<1>6. k \in 1..m /\ a[k] = "-" /\ k # 1 /\ k # m
  BY <1>1, <1>3, <1>4
<1>7. k \in Nat /\ k >= 2 /\ k < m /\ k - 1 \in 1..m /\ k + 1 \in 1..m /\ 1 \in 1..m /\ m \in 1..m
  BY <1>1, <1>6
<1> DEFINE V == Range(a)
           x == SubSeq(a, 1, k - 1)
           y == SubSeq(a, k + 1, m)
<1>8. Len(x) = k - 1 /\ x \in Seq(V) /\ \A i \in 1..(k - 1) : x[i] = a[i]
  <2>1. /\ Len(x) = ((k - 1) - 1) + 1 /\ x \in Seq(V)
        /\ \A i \in 1..(((k - 1) - 1) + 1) : x[i] = a[1 + i - 1]
    <3>1. 1 <= k - 1
      BY <1>7
    <3> HIDE DEF m
    <3>2. QED
      BY <1>1, <1>7, <3>1, CutIs DEF m
  <2>2. ((k - 1) - 1) + 1 = k - 1 /\ \A i \in 1..(k - 1) : 1 + i - 1 = i
    BY <1>7
  <2> HIDE DEF x
  <2>3. QED
    BY <2>1, <2>2
<1>9. Len(y) = m - k /\ y \in Seq(V) /\ \A i \in 1..(m - k) : y[i] = a[k + i]
  <2>1. /\ Len(y) = (m - (k + 1)) + 1 /\ y \in Seq(V)
        /\ \A i \in 1..((m - (k + 1)) + 1) : y[i] = a[(k + 1) + i - 1]
    <3>1. k + 1 <= m
      BY <1>1, <1>7
    <3>2. QED
      BY <1>1, <1>7, <3>1, CutIs
  <2>2. (m - (k + 1)) + 1 = m - k /\ \A i \in 1..(m - k) : (k + 1) + i - 1 = k + i
    <3> HIDE DEF m
    <3>1. QED
      BY <1>1, <1>7
  <2> HIDE DEF y, m
  <2>3. QED
    BY <2>1, <2>2
<1> HIDE DEF x, y, m
<1>10. IsList(x) /\ IsList(y)
  BY <1>8, <1>9, ListOf
<1>11. /\ IsList(Together(x, y)) /\ Len(Together(x, y)) = m
       /\ \A i \in 1..(k - 1) : Together(x, y)[i] = x[i]
       /\ Together(x, y)[k] = "-"
       /\ \A i \in 1..(m - k) : Together(x, y)[k + i] = y[i]
  <2>1. /\ IsList(Together(x, y)) /\ Len(Together(x, y)) = ((k - 1) + 1) + (m - k)
        /\ \A i \in 1..(k - 1) : Together(x, y)[i] = x[i]
        /\ Together(x, y)[(k - 1) + 1] = "-"
        /\ \A i \in 1..(m - k) : Together(x, y)[((k - 1) + 1) + i] = y[i]
    <3>1. /\ IsList(Together(x, y)) /\ Len(x) \in Nat /\ Len(y) \in Nat
          /\ Len(Together(x, y)) = (Len(x) + 1) + Len(y)
          /\ \A i \in 1..Len(x) : Together(x, y)[i] = x[i]
          /\ Together(x, y)[Len(x) + 1] = "-"
          /\ \A i \in 1..Len(y) : Together(x, y)[(Len(x) + 1) + i] = y[i]
      BY <1>10, TogetherIs
    <3>2. QED
      BY <1>8, <1>9, <3>1
  <2>2. ((k - 1) + 1) + (m - k) = m /\ (k - 1) + 1 = k
    BY <1>1, <1>7
  <2>3. QED
    BY <2>1, <2>2
<1>12. a = Together(x, y)
  <2> DEFINE c == Together(x, y)
  <2> HIDE DEF c
  <2>0. /\ IsList(c) /\ Len(c) = m /\ c[k] = "-"
        /\ \A i \in 1..(k - 1) : c[i] = x[i]
        /\ \A i \in 1..(m - k) : c[k + i] = y[i]
    BY <1>11 DEF c
  <2>1. PICK U : a \in Seq(U) /\ c \in Seq(U)
    <3>1. IsList(a)
      BY DEF Tidy, Neat
    <3>2. QED
      BY <2>0, <3>1, InOneSet
  <2>2. ASSUME NEW i \in 1..m PROVE a[i] = c[i]
    <3>1. i \in 1..(k - 1) \/ i = k \/ (i - k \in 1..(m - k) /\ k + (i - k) = i)
      BY <1>1, <1>7
    <3>2. CASE i \in 1..(k - 1)
      BY <1>8, <2>0, <3>2
    <3>3. CASE i = k
      BY <1>6, <2>0, <3>3
    <3>4. CASE i - k \in 1..(m - k) /\ k + (i - k) = i
      <4>1. c[k + (i - k)] = y[i - k] /\ y[i - k] = a[k + (i - k)]
        BY <1>9, <2>0, <3>4
      <4>2. QED
        BY <3>4, <4>1
    <3>5. QED
      BY <3>1, <3>2, <3>3, <3>4
  <2>3. a = c
    BY <2>0, <2>1, <2>2, SameSequence DEF m
  <2>4. QED
    BY <2>3 DEF c
<1>13. \A i \in 1..(k - 1) : i \in 1..m /\ a[i] # "-"
  <2>1. \A i \in 1..(k - 1) : i \in 1..m /\ ~(k <= i)
    BY <1>1, <1>7
  <2>2. QED
    BY <1>4, <1>5, <2>1
<1>14. \A i \in 1..Len(x) : IsLetter(x[i])
  BY <1>2, <1>8, <1>13 DEF m
<1>15. Tidy(x)
  <2>1. Range(x) \cap Separators = {}
    <3>1. DOMAIN x = 1..Len(x)
      BY <1>10, ListIs
    <3>2. QED
      BY <1>14, <3>1 DEF Range, IsLetter
  <2>2. x # <<>>
    BY <1>7, <1>8
  <2>3. QED
    BY <1>10, <2>1, <2>2, LettersAreTidy
<1>16. Tidy(y)
  <2>1. \A i \in 1..(m - k) : k + i \in 1..m
    BY <1>1, <1>7
  <2>2. y # <<>> /\ y[Len(y)] # "-"
    <3>1. m - k \in 1..(m - k) /\ k + (m - k) = m
      BY <1>1, <1>7
    <3>2. y[m - k] = a[m]
      BY <1>9, <3>1
    <3>3. QED
      BY <1>1, <1>7, <1>9, <3>2
  <2>3. y[1] # "-"
    <3>1. k \in 1..(m - 1) /\ 1 \in 1..(m - k)
      BY <1>1, <1>7
    <3>2. a[k + 1] # "-"
      BY <1>6, <3>1 DEF Tidy, Neat, m
    <3>3. QED
      BY <1>9, <3>1, <3>2
  <2>4. ASSUME NEW i \in 1..((m - k) - 1) PROVE y[i] # "-" \/ y[i + 1] # "-"
    <3>1. k + i \in 1..(m - 1) /\ i \in 1..(m - k) /\ i + 1 \in 1..(m - k) /\ k + (i + 1) = (k + i) + 1
      BY <1>1, <1>7
    <3>2. a[k + i] # "-" \/ a[(k + i) + 1] # "-"
      BY <3>1 DEF Tidy, Neat, m
    <3>3. y[i] = a[k + i] /\ y[i + 1] = a[k + (i + 1)]
      BY <1>9, <3>1
    <3>4. QED
      BY <3>1, <3>2, <3>3
  <2>5. \A i \in 1..(m - k) : IsLetter(y[i]) \/ y[i] = "-"
    BY <1>2, <1>9, <2>1
  <2>6. QED
    BY <1>9, <1>10, <2>2, <2>3, <2>4, <2>5 DEF Tidy, Neat
<1>17. Len(y) < Len(a)
  BY <1>1, <1>7, <1>9 DEF m
<1>18. QED
  BY <1>12, <1>14, <1>15, <1>16, <1>17

(* The words of a tidy name are a list, and not empty.                      *)
LEMMA WordsOfTidy ==
    ASSUME NEW a, Tidy(a)
    PROVE  IsList(Words(a)) /\ Len(Words(a)) \in Nat /\ Len(Words(a)) >= 1
<1> DEFINE A == LetterRuns(a)
           n == Cardinality(A)
           V == {WordAt(a, k) : k \in 1..n}
<1>1. A # {} /\ IsFiniteSet(A)
  <2>1. a \in Seq(Range(a))
    BY DEF Tidy, Neat, IsList
  <2>2. QED
    BY <2>1, TidyHasWords, RunsAreFinite
<1>2. Words(a) = [k \in 1..n |-> WordAt(a, k)]
  BY <1>1, WordsAre
<1> HIDE DEF A
<1>3. n \in Nat /\ n # 0
  BY <1>1, FS_CardinalityType, FS_EmptySet
<1>4. \A k \in 1..n : WordAt(a, k) \in V
  OBVIOUS
<1> HIDE DEF n, V
<1>5. Words(a) \in Seq(V) /\ Len(Words(a)) = n
  BY <1>2, <1>3, <1>4
<1>6. QED
  BY <1>3, <1>5, ListOf

(* The concatenation of lists.                                              *)
LEMMA ListsJoin ==
    ASSUME NEW x, NEW y, IsList(x), IsList(y)
    PROVE  IsList(x \o y) /\ Joins(x \o y, x, y)
<1>1. PICK V : x \in Seq(V) /\ y \in Seq(V)
  BY InOneSet
<1>2. x \o y \in Seq(V) /\ Joins(x \o y, x, y)
  BY <1>1, ConcatIs, Zenon
<1>3. QED
  BY <1>2, ListOf

(* What follows one word can be told from the whole.                        *)
LEMMA HeadAndTail ==
    ASSUME NEW x, NEW y, NEW s, NEW t, IsList(s), IsList(t), <<x>> \o s = <<y>> \o t
    PROVE  x = y /\ s = t
<1> DEFINE hx == <<x>>
           hy == <<y>>
           c == hx \o s
           d == hy \o t
<1>1. hx \in Seq({x}) /\ Len(hx) = 1 /\ hx[1] = x /\ hy \in Seq({y}) /\ Len(hy) = 1 /\ hy[1] = y
  OBVIOUS
<1>2. IsList(hx) /\ IsList(hy)
  <2> HIDE DEF hx, hy
  <2>1. QED
    BY <1>1, ListOf
<1> HIDE DEF hx, hy
<1>3. Joins(c, hx, s) /\ Joins(d, hy, t)
  BY <1>2, ListsJoin
<1>4. c = d
  BY DEF hx, hy
<1> HIDE DEF c, d
<1>5. /\ Len(s) \in Nat /\ Len(t) \in Nat /\ Len(c) = 1 + Len(s) /\ Len(d) = 1 + Len(t)
      /\ \A i \in 1..1 : c[i] = hx[i]
      /\ \A i \in 1..1 : d[i] = hy[i]
      /\ \A i \in 1..Len(s) : c[1 + i] = s[i]
      /\ \A i \in 1..Len(t) : d[1 + i] = t[i]
  BY <1>1, <1>3 DEF Joins
<1>6. x = y
  <2>1. 1 \in 1..1
    OBVIOUS
  <2>2. c[1] = hx[1] /\ d[1] = hy[1]
    BY <1>5, <2>1
  <2>3. QED
    BY <1>1, <1>4, <2>2
<1>7. Len(s) = Len(t)
  BY <1>4, <1>5
<1>8. \A i \in 1..Len(s) : s[i] = t[i]
  BY <1>4, <1>5, <1>7
<1>9. PICK V : s \in Seq(V) /\ t \in Seq(V)
  BY InOneSet
<1>10. s = t
  BY <1>7, <1>8, <1>9, SameSequence
<1>11. QED
  BY <1>6, <1>10

(* A tidy name is one word, or one and those of a shorter tidy name.        *)
Begins(a, x, y) ==
    a = Together(x, y) /\ Tidy(y) /\ Len(y) < Len(a) /\ Words(a) = <<x>> \o Words(y)

LEMMA OneWordOrMore ==
    ASSUME NEW a, Tidy(a)
    PROVE  Words(a) = <<a>> \/ \E x, y : Begins(a, x, y)
<1>1. CASE \A i \in 1..Len(a) : IsLetter(a[i])
  <2>1. a \in Seq(Range(a)) /\ a # <<>>
    BY DEF Tidy, Neat, IsList
  <2>2. QED
    BY <1>1, <2>1, WordOfLetters
<1>2. CASE ~\A i \in 1..Len(a) : IsLetter(a[i])
  <2>1. PICK p \in 1..Len(a) : ~IsLetter(a[p])
    BY <1>2
  <2>2. PICK x, y : /\ a = Together(x, y) /\ Tidy(x) /\ Tidy(y) /\ Len(y) < Len(a)
                    /\ \A i \in 1..Len(x) : IsLetter(x[i])
    BY <2>1, TidyParts
  <2>3. IsList(x) /\ IsList(y) /\ x \in Seq(Range(x)) /\ x # <<>>
    BY <2>2 DEF Tidy, Neat, IsList
  <2>4. Words(x) = <<x>>
    BY <2>2, <2>3, WordOfLetters
  <2>5. LetterRuns(x) # {} /\ LetterRuns(y) # {}
    BY <2>2, TidyHasWords
  <2>6. Words(Together(x, y)) = Words(x) \o Words(y)
    BY <2>3, <2>5, WordsTogether
  <2>7. QED
    BY <2>2, <2>4, <2>6 DEF Begins
<1>3. QED
  BY <1>1, <1>2

(* A tidy name of several words has more than one.                          *)
LEMMA MoreThanOne ==
    ASSUME NEW a, NEW x, NEW y, Begins(a, x, y)
    PROVE  \A z : Words(a) # <<z>>
<1> DEFINE h == <<x>>
<1>1. h \in Seq({x}) /\ Len(h) = 1
  OBVIOUS
<1>2. IsList(h)
  <2> HIDE DEF h
  <2>1. QED
    BY <1>1, ListOf
<1>3. IsList(Words(y)) /\ Len(Words(y)) \in Nat /\ Len(Words(y)) >= 1 /\ Words(a) = h \o Words(y)
  BY WordsOfTidy DEF Begins
<1> HIDE DEF h
<1>4. Len(Words(a)) = 1 + Len(Words(y))
  <2>1. Joins(h \o Words(y), h, Words(y))
    BY <1>2, <1>3, ListsJoin
  <2>2. Len(h \o Words(y)) = Len(h) + Len(Words(y))
    BY <2>1 DEF Joins
  <2>3. QED
    BY <1>1, <1>3, <2>2
<1>5. Len(Words(a)) # 1
  BY <1>3, <1>4
<1>6. \A z : Len(<<z>>) = 1
  OBVIOUS
<1>7. QED
  BY <1>5, <1>6

(* Tidy names of at most n characters are told apart by their words.        *)
ToldUpto(n) ==
    \A a, b : Tidy(a) /\ Tidy(b) /\ Len(a) <= n /\ Words(a) = Words(b) => a = b

(* A tidy name is what its words say.                                       *)
THEOREM WordsTell ==
    ASSUME NEW a, NEW b, Tidy(a), Tidy(b), Words(a) = Words(b)
    PROVE  a = b
<1> DEFINE S == {n \in Nat : ToldUpto(n)}
<1>0. ASSUME NEW x, Tidy(x) PROVE Len(x) \in Nat /\ x # <<>> /\ Len(x) # 0
  BY <1>0 DEF Tidy, Neat, IsList
<1>1. 0 \in S
  <2>1. \A x : Tidy(x) => ~(Len(x) <= 0)
    BY <1>0
  <2>2. QED
    BY <2>1 DEF ToldUpto
<1>2. ASSUME NEW n \in Nat, n \in S PROVE n + 1 \in S
  <2>1. ASSUME NEW x, NEW y, Tidy(x), Tidy(y), Len(x) <= n + 1, Words(x) = Words(y)
        PROVE  x = y
    <3>1. CASE Words(x) = <<x>>
      <4>1. Words(y) = <<y>>
        <5>1. ASSUME NEW y1, NEW y2, Begins(y, y1, y2) PROVE FALSE
          BY <2>1, <3>1, <5>1, MoreThanOne
        <5>2. QED
          BY <2>1, <5>1, OneWordOrMore
      <4>2. <<x>> = <<y>>
        BY <2>1, <3>1, <4>1, Zenon
      <4>3. <<x>>[1] = x /\ <<y>>[1] = y
        OBVIOUS
      <4>4. QED
        BY <4>2, <4>3, Zenon
    <3>2. CASE Words(x) # <<x>>
      <4>1. PICK x1, x2 : Begins(x, x1, x2)
        BY <2>1, <3>2, OneWordOrMore
      <4>2. PICK y1, y2 : Begins(y, y1, y2)
        <5>1. Words(y) # <<y>>
          BY <2>1, <4>1, MoreThanOne
        <5>2. QED
          BY <2>1, <5>1, OneWordOrMore
      <4>3. <<x1>> \o Words(x2) = <<y1>> \o Words(y2) /\ IsList(Words(x2)) /\ IsList(Words(y2))
        BY <2>1, <4>1, <4>2, WordsOfTidy DEF Begins
      <4>4. x1 = y1 /\ Words(x2) = Words(y2)
        BY <4>3, HeadAndTail
      <4>5. Len(x2) <= n
        BY <1>0, <2>1, <4>1 DEF Begins
      <4>6. x2 = y2
        BY <1>2, <4>1, <4>2, <4>4, <4>5 DEF ToldUpto, Begins
      <4>7. QED
        BY <4>1, <4>2, <4>4, <4>6 DEF Begins
    <3>3. QED
      BY <3>1, <3>2
  <2>2. ToldUpto(n + 1)
    BY <2>1 DEF ToldUpto
  <2>3. QED
    BY <2>2
<1>3. Len(a) \in S
  <2> HIDE DEF S
  <2>1. QED
    BY <1>0, <1>1, <1>2, Climb
<1>4. QED
  BY <1>0, <1>3 DEF ToldUpto

----------------------------------------------------------------------------
(* Names of many parts *)

(* What strings.Join has joined after each of the parts.                    *)
IsJoining(f, parts, V) ==
    /\ f \in [1..Len(parts) -> Seq(V)] /\ f[1] = parts[1]
    /\ \A i \in 1..(Len(parts) - 1) : f[i + 1] = Together(f[i], parts[i + 1])
    /\ Hyphenated(parts) = f[Len(parts)]

(* strings.Join is such a joining.                                          *)
LEMMA HyphenatedIsJoining ==
    ASSUME NEW V, "-" \in V, NEW parts \in Seq(Seq(V)), parts # <<>>
    PROVE  \E f : IsJoining(f, parts, V)
<1> DEFINE n == Len(parts)
           X == Seq(V)
           step == [x \in (1..(n - 1)) \X X |-> Together(x[2], parts[x[1] + 1])]
           Body(c) == [i \in 1..n |-> IF i = 1 THEN parts[1] ELSE c[i - 1] \o <<"-">> \o parts[i]]
           BodyT(c) == [i \in 1..n |-> IF i = 1 THEN parts[1] ELSE Together(c[i - 1], parts[i])]
<1>1. n \in Nat \ {0} /\ n - 1 \in Nat /\ \A i \in 1..n : parts[i] \in X
  OBVIOUS
<1>2. ASSUME NEW x \in X, NEW y \in X PROVE Together(x, y) \in X
  <2> DEFINE h == <<"-">>
  <2>1. h \in Seq(V)
    OBVIOUS
  <2> HIDE DEF h
  <2>2. x \o h \in Seq(V)
    BY <2>1, ConcatIs
  <2>3. (x \o h) \o y \in Seq(V)
    BY <2>2, ConcatIs
  <2>4. QED
    BY <2>3 DEF Together, h
<1>3. step \in [(1..(n - 1)) \X X -> X]
  <2> HIDE DEF X, n
  <2>1. ASSUME NEW x \in (1..(n - 1)) \X X PROVE Together(x[2], parts[x[1] + 1]) \in X
    <3>1. x[2] \in X /\ x[1] + 1 \in 1..n
      BY <1>1
    <3>2. QED
      BY <1>1, <1>2, <3>1
  <2>2. QED
    BY <2>1
<1> HIDE DEF X
<1>4. PICK g : Follows(g, n - 1, parts[1], X, step)
  <2>1. parts[1] \in X
    BY <1>1
  <2> HIDE DEF step, n
  <2>2. QED
    BY <1>1, <1>3, <2>1, Recursion
<1> DEFINE f == [i \in 1..n |-> g[i - 1]]
<1> HIDE DEF n
<1>5. f \in [1..n -> X] /\ f[1] = parts[1]
  <2>1. \A i \in 1..n : i - 1 \in 0..(n - 1)
    BY <1>1
  <2>2. \A i \in 1..n : g[i - 1] \in X
    BY <1>4, <2>1 DEF Follows
  <2>3. 1 \in 1..n /\ 1 - 1 = 0 /\ g[0] = parts[1]
    BY <1>1, <1>4 DEF Follows
  <2>4. QED
    BY <2>2, <2>3
<1>6. ASSUME NEW i \in 1..(n - 1) PROVE f[i + 1] = Together(f[i], parts[i + 1]) /\ i + 1 \in 1..n
  <2>1. i \in 1..n /\ i + 1 \in 1..n /\ (i + 1) - 1 = i /\ i - 1 \in 0..(n - 1)
    BY <1>1
  <2>2. g[i] = step[<<i, g[i - 1]>>] /\ g[i - 1] \in X
    BY <1>4, <2>1 DEF Follows
  <2>3. <<i, g[i - 1]>> \in (1..(n - 1)) \X X
    BY <2>2
  <2>4. step[<<i, g[i - 1]>>] = Together(g[i - 1], parts[i + 1])
    BY <2>3
  <2>5. QED
    BY <2>1, <2>2, <2>4
<1> HIDE DEF f
<1>7. f = BodyT(f)
  <2>1. ASSUME NEW i \in 1..n PROVE f[i] = IF i = 1 THEN parts[1] ELSE Together(f[i - 1], parts[i])
    <3>1. CASE i = 1
      BY <1>5, <3>1
    <3>2. CASE i # 1
      <4>1. i - 1 \in 1..(n - 1) /\ (i - 1) + 1 = i
        BY <1>1, <3>2
      <4>2. f[(i - 1) + 1] = Together(f[i - 1], parts[(i - 1) + 1])
        BY <1>6, <4>1
      <4>3. QED
        BY <3>2, <4>1, <4>2
    <3>3. QED
      BY <3>1, <3>2
  <2>2. QED
    BY <1>5, <2>1
<1>8. ASSUME NEW d, d = BodyT(d) PROVE d = f
  <2> DEFINE S == {i \in Nat : i + 1 <= n => d[i + 1] = f[i + 1]}
  <2>1. d = [i \in 1..n |-> d[i]] /\ f = [i \in 1..n |-> f[i]]
    BY <1>5, <1>8
  <2>2. 0 \in S
    <3>1. 1 \in 1..n
      BY <1>1
    <3>2. d[1] = parts[1]
      BY <1>8, <3>1
    <3>3. QED
      BY <1>5, <3>2
  <2>3. ASSUME NEW i \in Nat, i \in S PROVE i + 1 \in S
    <3>1. SUFFICES ASSUME (i + 1) + 1 <= n PROVE d[(i + 1) + 1] = f[(i + 1) + 1]
      OBVIOUS
    <3>2. /\ (i + 1) + 1 \in 1..n /\ i + 1 \in 1..(n - 1) /\ (i + 1) + 1 # 1
          /\ ((i + 1) + 1) - 1 = i + 1 /\ i + 1 <= n
      BY <1>1, <3>1
    <3>3. d[i + 1] = f[i + 1]
      BY <2>3, <3>2
    <3>4. BodyT(d)[(i + 1) + 1] = Together(d[i + 1], parts[(i + 1) + 1])
      BY <3>2
    <3>5. f[(i + 1) + 1] = Together(f[i + 1], parts[(i + 1) + 1])
      BY <1>6, <3>2
    <3>6. QED
      BY <1>8, <3>3, <3>4, <3>5
  <2>4. \A i \in 1..n : d[i] = f[i]
    <3> HIDE DEF S
    <3>1. \A i \in Nat : i \in S
      BY <2>2, <2>3, Climb
    <3>2. \A i \in 1..n : i - 1 \in Nat /\ (i - 1) + 1 = i /\ i <= n
      BY <1>1
    <3>3. QED
      BY <3>1, <3>2 DEF S
  <2>5. QED
    BY <2>1, <2>4
<1>9. (CHOOSE d : d = BodyT(d)) = f
  <2> HIDE DEF BodyT
  <2>1. QED
    BY <1>7, <1>8
<1>10. Hyphenated(parts) = (CHOOSE d : d = Body(d))[n]
  BY DEF Hyphenated, n
<1>11. ASSUME NEW d PROVE Body(d) = BodyT(d)
  BY DEF Together
<1>12. (CHOOSE d : d = Body(d)) = (CHOOSE d : d = BodyT(d))
  <2> HIDE DEF Body, BodyT
  <2>1. QED
    BY <1>11
<1>13. Hyphenated(parts) = f[n]
  BY <1>9, <1>10, <1>12
<1>14. IsJoining(f, parts, V)
  BY <1>5, <1>6, <1>13 DEF IsJoining, X, n
<1>15. QED
  BY <1>14

(* A list of names, one at least.                                           *)
AreParts(parts) ==
    parts # <<>> /\ IsList(parts) /\ \A i \in 1..Len(parts) : IsList(parts[i])

(* The words of any value are a list.                                       *)
LEMMA WordsAreAList ==
    ASSUME NEW v, IsList(v)
    PROVE  IsList(Words(v)) /\ Len(Words(v)) >= 1
<1>1. v \in Seq(Range(v))
  BY DEF IsList
<1>2. Words(SanitizeName(v)) = Words(v) /\ Tidy(SanitizeName(v))
  BY <1>1, SanitizeNameKeepsWords, SanitizedIsTidy
<1>3. QED
  BY <1>2, WordsOfTidy

(* The words of the first i parts.                                          *)
IsGathering(f, parts, V) ==
    /\ f \in [0..Len(parts) -> Seq(V)] /\ f[0] = <<>>
    /\ \A i \in 1..Len(parts) : f[i] = f[i - 1] \o Words(parts[i])
    /\ AllWords(parts) = f[Len(parts)]

(* AllWords gathers the words part by part.                                 *)
LEMMA AllWordsIsGathering ==
    ASSUME NEW parts, AreParts(parts)
    PROVE  \E f, V : IsGathering(f, parts, V)
<1> DEFINE n == Len(parts)
           V == UNION {Range(Words(parts[i])) : i \in 1..n}
           X == Seq(V)
           And(x, y) == x \o y
           step == [x \in (1..n) \X X |-> And(x[2], Words(parts[x[1]]))]
           Body(c) == [i \in 0..n |-> IF i = 0 THEN <<>> ELSE And(c[i - 1], Words(parts[i]))]
<1>1. n \in Nat /\ n \in 0..n
  BY ListIs DEF AreParts
<1>2. ASSUME NEW i \in 1..n PROVE Words(parts[i]) \in X
  <2>1. Words(parts[i]) \in Seq(Range(Words(parts[i])))
    BY WordsAreAList DEF AreParts, IsList
  <2>2. Range(Words(parts[i])) \subseteq V
    OBVIOUS
  <2> HIDE DEF V
  <2>3. QED
    BY <2>1, <2>2
<1> HIDE DEF V
<1>3. ASSUME NEW x \in X, NEW y \in X PROVE And(x, y) \in X
  BY <1>3, ConcatIs
<1>4. <<>> \in X
  OBVIOUS
<1> HIDE DEF X, n, And
<1>5. step \in [(1..n) \X X -> X]
  <2>1. ASSUME NEW x \in (1..n) \X X PROVE And(x[2], Words(parts[x[1]])) \in X
    <3>1. x[2] \in X /\ Words(parts[x[1]]) \in X
      BY <1>2
    <3>2. QED
      BY <1>3, <3>1
  <2>2. QED
    BY <2>1
<1>6. PICK f : Follows(f, n, <<>>, X, step)
  <2> HIDE DEF step
  <2>1. QED
    BY <1>1, <1>4, <1>5, Recursion
<1>7. ASSUME NEW i \in 1..n PROVE f[i] = And(f[i - 1], Words(parts[i]))
  <2>1. i - 1 \in 0..n
    BY <1>1
  <2>2. <<i, f[i - 1]>> \in (1..n) \X X /\ f[i] = step[<<i, f[i - 1]>>]
    BY <1>6, <2>1 DEF Follows
  <2>3. step[<<i, f[i - 1]>>] = And(f[i - 1], Words(parts[i]))
    BY <2>2
  <2>4. QED
    BY <2>2, <2>3
<1>8. f \in [0..n -> X] /\ f[0] = <<>>
  BY <1>6 DEF Follows
<1>9. f = Body(f)
  BY <1>7, <1>8
<1>10. ASSUME NEW d, d = Body(d) PROVE d = f
  <2> DEFINE S == {i \in Nat : i <= n => d[i] = f[i]}
  <2>1. d = [i \in 0..n |-> d[i]] /\ f = [i \in 0..n |-> f[i]]
    BY <1>8, <1>10
  <2>2. 0 \in S
    <3>1. 0 \in 0..n
      BY <1>1
    <3>2. d[0] = <<>>
      BY <1>10, <3>1
    <3>3. QED
      BY <1>8, <3>2
  <2>3. ASSUME NEW i \in Nat, i \in S PROVE i + 1 \in S
    <3>1. SUFFICES ASSUME i + 1 <= n PROVE d[i + 1] = f[i + 1]
      OBVIOUS
    <3>2. i + 1 \in 0..n /\ i + 1 \in 1..n /\ (i + 1) - 1 = i /\ d[i] = f[i]
      BY <1>1, <2>3, <3>1
    <3>3. Body(d)[i + 1] = And(d[i], Words(parts[i + 1]))
      BY <3>2
    <3>4. QED
      BY <1>7, <1>10, <3>2, <3>3
  <2>4. \A i \in 0..n : d[i] = f[i]
    <3> HIDE DEF S
    <3>1. \A i \in Nat : i \in S
      BY <2>2, <2>3, Climb
    <3>2. QED
      BY <1>1, <3>1 DEF S
  <2>5. QED
    BY <2>1, <2>4
<1>11. (CHOOSE d : d = Body(d)) = f
  <2> HIDE DEF Body
  <2>1. QED
    BY <1>9, <1>10
<1>12. AllWords(parts) = (CHOOSE d : d = Body(d))[n]
  BY DEF AllWords, n, And
<1>13. AllWords(parts) = f[n]
  BY <1>11, <1>12
<1>14. IsGathering(f, parts, V)
  BY <1>7, <1>8, <1>13 DEF IsGathering, X, n, And
<1>15. QED
  BY <1>14

(* Names are joined to a tidy name that has the words of all of them.       *)
THEOREM JoinedKeepsWords ==
    ASSUME NEW parts, AreParts(parts)
    PROVE  Tidy(Joined(parts)) /\ Words(Joined(parts)) = AllWords(parts)
<1> DEFINE n == Len(parts)
           names == [i \in DOMAIN parts |-> SanitizeName(parts[i])]
           V == {"-"} \cup UNION {Range(SanitizeName(parts[i])) : i \in 1..n}
<1>1. n \in Nat /\ n >= 1 /\ DOMAIN parts = 1..n
  BY DEF AreParts, IsList
<1>2. ASSUME NEW i \in 1..n
      PROVE  /\ Tidy(SanitizeName(parts[i])) /\ SanitizeName(parts[i]) \in Seq(V)
             /\ Words(SanitizeName(parts[i])) = Words(parts[i]) /\ IsList(Words(parts[i]))
  <2>1. IsList(parts[i])
    BY DEF AreParts
  <2>2. Tidy(SanitizeName(parts[i])) /\ parts[i] \in Seq(Range(parts[i]))
    BY <2>1, SanitizedIsTidy DEF IsList
  <2>3. Words(SanitizeName(parts[i])) = Words(parts[i]) /\ IsList(Words(parts[i]))
    BY <2>1, <2>2, SanitizeNameKeepsWords, WordsAreAList
  <2>4. SanitizeName(parts[i]) \in Seq(V)
    <3>1. Range(SanitizeName(parts[i])) \subseteq V
      OBVIOUS
    <3>2. SanitizeName(parts[i]) \in Seq(Range(SanitizeName(parts[i])))
      BY <2>2 DEF Tidy, Neat, IsList
    <3> HIDE DEF V
    <3>3. QED
      BY <3>1, <3>2
  <2>5. QED
    BY <2>2, <2>3, <2>4
<1>3. "-" \in V
  OBVIOUS
<1> HIDE DEF V
<1>4. names \in Seq(Seq(V)) /\ Len(names) = n /\ names # <<>>
  <2>1. names \in [1..n -> Seq(V)]
    BY <1>1, <1>2
  <2> HIDE DEF names, n
  <2>2. names \in Seq(Seq(V)) /\ Len(names) = n
    BY <1>1, <2>1
  <2>3. QED
    BY <1>1, <2>2
<1>5. \A i \in 1..n : names[i] = SanitizeName(parts[i])
  BY <1>1
<1>6. Joined(parts) = Hyphenated(names)
  BY DEF Joined
<1> HIDE DEF names, n
<1>7. PICK f : IsJoining(f, names, V)
  BY <1>3, <1>4, HyphenatedIsJoining
<1>8. PICK g, W : IsGathering(g, parts, W)
  BY AllWordsIsGathering
<1>9. /\ f[1] = names[1] /\ Joined(parts) = f[n]
      /\ \A i \in 1..(n - 1) : f[i + 1] = Together(f[i], names[i + 1])
  BY <1>4, <1>6, <1>7 DEF IsJoining
<1>10. /\ g[0] = <<>> /\ AllWords(parts) = g[n]
       /\ \A i \in 1..n : g[i] = g[i - 1] \o Words(parts[i])
  BY <1>8 DEF IsGathering, n
<1> DEFINE S == {i \in Nat : i + 1 <= n => Tidy(f[i + 1]) /\ Words(f[i + 1]) = g[i + 1]}
<1>11. 0 \in S
  <2>1. 1 \in 1..n /\ 1 - 1 = 0
    BY <1>1
  <2>2. g[1] = <<>> \o Words(parts[1]) /\ f[1] = SanitizeName(parts[1])
    BY <1>5, <1>9, <1>10, <2>1
  <2>3. Words(parts[1]) \in Seq(Range(Words(parts[1])))
    BY <1>2, <2>1 DEF IsList
  <2>4. <<>> \o Words(parts[1]) = Words(parts[1])
    BY <2>3
  <2>5. Tidy(f[1]) /\ Words(f[1]) = g[1]
    BY <1>2, <2>1, <2>2, <2>4
  <2>6. QED
    BY <2>5
<1>12. ASSUME NEW k \in Nat, k \in S PROVE k + 1 \in S
  <2> DEFINE i == k + 1
  <2>1. SUFFICES ASSUME i + 1 <= n PROVE Tidy(f[i + 1]) /\ Words(f[i + 1]) = g[i + 1]
    OBVIOUS
  <2>2. i \in 1..(n - 1) /\ i + 1 \in 1..n /\ (i + 1) - 1 = i /\ i <= n
    BY <1>1, <2>1
  <2>3. Tidy(f[i]) /\ Words(f[i]) = g[i]
    BY <1>12, <2>2
  <2> HIDE DEF i
  <2>4. f[i + 1] = Together(f[i], SanitizeName(parts[i + 1]))
    BY <1>5, <1>9, <2>2
  <2>5. Tidy(SanitizeName(parts[i + 1]))
    BY <1>2, <2>2
  <2>6. Tidy(f[i + 1])
    BY <2>3, <2>4, <2>5, TogetherIsTidy
  <2>7. Words(f[i + 1]) = Words(f[i]) \o Words(SanitizeName(parts[i + 1]))
    <3>1. LetterRuns(f[i]) # {} /\ LetterRuns(SanitizeName(parts[i + 1])) # {}
      BY <2>3, <2>5, TidyHasWords
    <3>2. IsList(f[i]) /\ IsList(SanitizeName(parts[i + 1]))
      BY <2>3, <2>5 DEF Tidy, Neat
    <3>3. QED
      BY <2>4, <3>1, <3>2, WordsTogether
  <2>8. g[i + 1] = g[i] \o Words(parts[i + 1])
    BY <1>10, <2>2
  <2>9. Words(SanitizeName(parts[i + 1])) = Words(parts[i + 1])
    BY <1>2, <2>2
  <2>10. QED
    BY <2>3, <2>6, <2>7, <2>8, <2>9
<1>13. n - 1 \in S
  <2> HIDE DEF S
  <2>1. n - 1 \in Nat
    BY <1>1
  <2>2. QED
    BY <1>11, <1>12, <2>1, Climb
<1>14. (n - 1) + 1 = n /\ n <= n
  BY <1>1
<1>15. Tidy(f[n]) /\ Words(f[n]) = g[n]
  BY <1>13, <1>14
<1>16. QED
  BY <1>9, <1>10, <1>15

----------------------------------------------------------------------------
(* Names that are shortened *)

(* ShortHash tells a name that is too long by letters only.                 *)
Hashed(name) ==
    /\ ShortHash(name) \in Seq(Range(ShortHash(name)))
    /\ Len(ShortHash(name)) = HashLength
    /\ Range(ShortHash(name)) \cap Separators = {}

(* The bounds that the names are kept to.                                   *)
IsBound(maxLength) == maxLength \in Nat /\ maxLength > HashLength + 1

(* A name that is too long is shortened to a tidy one that is not.          *)
LEMMA ShortenedIs ==
    ASSUME NEW M, IsBound(M), NEW name, Tidy(name), Len(name) > M, Hashed(name)
    PROVE  /\ Tidy(Shortened(M, name)) /\ Len(Shortened(M, name)) <= M
           /\ \E x : IsList(x) /\ Shortened(M, name) = Together(x, ShortHash(name))
<1> DEFINE k == (M - HashLength) - 1
           V == Range(name)
           cut == SubSeq(name, 1, k)
           x == OrDefault(TrimHyphens(cut))
           hash == ShortHash(name)
<1>1. /\ M \in Nat /\ HashLength \in Nat \ {0} /\ k \in Nat /\ k >= 1 /\ k < M
      /\ (k + 1) + HashLength = M
  BY NamingAssumption DEF IsBound
<1>2. name \in Seq(V) /\ Len(name) \in Nat /\ name[1] # "-"
  BY DEF Tidy, Neat, IsList
<1>3. k \in 1..Len(name) /\ 1 \in 1..Len(name) /\ (k - 1) + 1 = k /\ \A i \in 1..k : 1 + i - 1 = i
  BY <1>1, <1>2
<1> HIDE DEF k, V
<1>4. Len(cut) = k /\ cut \in Seq(V) /\ \A i \in 1..k : cut[i] = name[i]
  <2>1. /\ Len(cut) = (k - 1) + 1 /\ cut \in Seq(V)
        /\ \A i \in 1..((k - 1) + 1) : cut[i] = name[1 + i - 1]
    BY <1>1, <1>2, <1>3, CutIs
  <2> HIDE DEF cut
  <2>2. QED
    BY <1>3, <2>1
<1> HIDE DEF cut
<1>5. Neat(cut) /\ cut # <<>>
  <2>1. IsList(cut) /\ cut # <<>>
    BY <1>1, <1>4, ListOf
  <2>2. \A i \in 1..k : i \in 1..Len(name) /\ (i \in 1..(k - 1) => i + 1 \in 1..k /\ i \in 1..(Len(name) - 1))
    BY <1>1, <1>2, <1>3
  <2>3. \A i \in 1..k : IsLetter(cut[i]) \/ cut[i] = "-"
    BY <1>4, <2>2 DEF Tidy, Neat
  <2>4. cut[1] # "-"
    BY <1>1, <1>2, <1>4
  <2>5. \A i \in 1..(k - 1) : i \in 1..k
    BY <1>1
  <2>6. \A i \in 1..(k - 1) : cut[i] # "-" \/ cut[i + 1] # "-"
    <3>1. \A i \in 1..(k - 1) : name[i] # "-" \/ name[i + 1] # "-"
      BY <2>2, <2>5 DEF Tidy, Neat
    <3>2. QED
      BY <1>4, <2>2, <2>5, <3>1
  <2>7. QED
    BY <1>4, <2>1, <2>3, <2>4, <2>6 DEF Neat
<1>6. Tidy(x) /\ Len(x) <= k
  BY <1>4, <1>5, TrimmedIsTidy
<1>7. IsList(hash) /\ Len(hash) = HashLength /\ Tidy(hash)
  <2>1. IsList(hash) /\ Len(hash) = HashLength /\ Range(hash) \cap Separators = {}
    BY DEF Hashed, IsList
  <2>2. hash # <<>>
    <3>1. Len(<<>>) = 0
      OBVIOUS
    <3>2. QED
      BY <1>1, <2>1, <3>1
  <2>3. QED
    BY <2>1, <2>2, LettersAreTidy
<1>8. Shortened(M, name) = Together(x, hash)
  <2>1. OrDefault(TrimHyphens(SubSeq(name, 1, M - HashLength - 1))) = x
    BY DEF cut, k
  <2>2. QED
    BY <2>1 DEF Shortened, Together
<1> HIDE DEF x, hash
<1>9. Tidy(Together(x, hash))
  BY <1>6, <1>7, TogetherIsTidy
<1>10. IsList(x) /\ Len(Together(x, hash)) = (Len(x) + 1) + HashLength /\ Len(x) \in Nat
  <2>1. IsList(x)
    BY <1>6 DEF Tidy, Neat
  <2>2. QED
    BY <1>7, <2>1, TogetherIs
<1>11. Len(Together(x, hash)) <= M
  BY <1>1, <1>6, <1>10
<1>12. QED
  BY <1>8, <1>9, <1>10, <1>11 DEF hash

(* What follows the hyphen can be told from the whole, if its length is known. *)
LEMMA SameEnd ==
    ASSUME NEW x, NEW y, NEW s, NEW t, IsList(x), IsList(y), IsList(s), IsList(t),
           Len(s) = Len(t), Together(x, s) = Together(y, t)
    PROVE  s = t
<1> DEFINE c == Together(x, s)
           d == Together(y, t)
<1>1. /\ Len(x) \in Nat /\ Len(s) \in Nat /\ Len(c) = (Len(x) + 1) + Len(s)
      /\ \A i \in 1..Len(s) : c[(Len(x) + 1) + i] = s[i]
  BY TogetherIs
<1>2. /\ Len(y) \in Nat /\ Len(t) \in Nat /\ Len(d) = (Len(y) + 1) + Len(t)
      /\ \A i \in 1..Len(t) : d[(Len(y) + 1) + i] = t[i]
  BY TogetherIs
<1>3. c = d
  OBVIOUS
<1> HIDE DEF c, d
<1>4. Len(x) = Len(y)
  BY <1>1, <1>2, <1>3
<1>5. \A i \in 1..Len(s) : s[i] = t[i]
  BY <1>1, <1>2, <1>3, <1>4
<1>6. PICK V : s \in Seq(V) /\ t \in Seq(V)
  BY InOneSet
<1>7. QED
  BY <1>5, <1>6, SameSequence

(* What HashesTell says of two lists of names.                              *)
LEMMA HashesTellMeans ==
    ASSUME NEW M, NEW lists, HashesTell(M, lists), NEW p \in lists, Len(Joined(p)) > M
    PROVE  /\ Hashed(Joined(p))
           /\ \A q \in lists :
                 IF Len(Joined(q)) > M
                 THEN ShortHash(Joined(p)) = ShortHash(Joined(q)) => Joined(p) = Joined(q)
                 ELSE Shortened(M, Joined(p)) # Joined(q)
<1> DEFINE built == {Joined(parts) : parts \in lists}
           long == {name \in built : Len(name) > M}
           hashes == [name \in long |-> ShortHash(name)]
<1>1. /\ \A name \in long : Hashed(name)
      /\ IsInjective(hashes)
      /\ {Shortened(M, name) : name \in long} \cap (built \ long) = {}
  BY DEF HashesTell, Hashed
<1>2. Joined(p) \in long
  OBVIOUS
<1>3. ASSUME NEW q \in lists
      PROVE  IF Len(Joined(q)) > M
             THEN ShortHash(Joined(p)) = ShortHash(Joined(q)) => Joined(p) = Joined(q)
             ELSE Shortened(M, Joined(p)) # Joined(q)
  <2>1. Joined(q) \in built /\ (Joined(q) \in long <=> Len(Joined(q)) > M)
    OBVIOUS
  <2> HIDE DEF long, built
  <2>2. CASE Joined(q) \in long
    <3>1. DOMAIN hashes = long /\ \A name \in long : hashes[name] = ShortHash(name)
      OBVIOUS
    <3>2. ShortHash(Joined(p)) = ShortHash(Joined(q)) => Joined(p) = Joined(q)
      <4> HIDE DEF hashes
      <4>1. QED
        BY <1>1, <1>2, <2>2, <3>1 DEF IsInjective
    <3>3. QED
      BY <2>1, <2>2, <3>2
  <2>3. CASE Joined(q) \notin long
    <3>1. Shortened(M, Joined(p)) # Joined(q)
      BY <1>1, <1>2, <2>1, <2>3
    <3>2. QED
      BY <2>1, <2>3, <3>1
  <2>4. QED
    BY <2>2, <2>3
<1>4. QED
  BY <1>1, <1>2, <1>3

----------------------------------------------------------------------------
(* Names that are told apart *)

(* All bounds of the code are bounds of names.                              *)
LEMMA BoundsAre == IsBound(MaxCronJobName) /\ IsBound(MaxName) /\ MaxCronJobName <= MaxName
  BY NamingAssumption DEF IsBound

(* Lists of names that BuildDNSLabelName is given under one bound.           *)
AreLists(M, lists) ==
    IsBound(M) /\ HashesTell(M, lists) /\ \A p \in lists : AreParts(p)

BuiltWell(M, p) ==
    Tidy(BuildDNSLabelName(M, p)) /\ Len(BuildDNSLabelName(M, p)) <= M

(* BuildDNSLabelName gives tidy names that keep to the bound.               *)
LEMMA BuiltIs ==
    ASSUME NEW M, NEW lists, AreLists(M, lists), NEW p \in lists
    PROVE  BuiltWell(M, p)
<1>1. IsBound(M) /\ HashesTell(M, lists) /\ AreParts(p)
  BY DEF AreLists
<1>2. Tidy(Joined(p))
  BY <1>1, JoinedKeepsWords
<1>3. Len(Joined(p)) \in Nat /\ M \in Nat
  BY <1>1, <1>2 DEF Tidy, Neat, IsList, IsBound
<1>4. CASE Len(Joined(p)) <= M
  BY <1>2, <1>4 DEF BuildDNSLabelName, BuiltWell
<1>5. CASE Len(Joined(p)) > M
  <2>1. Hashed(Joined(p))
    BY <1>1, <1>5, HashesTellMeans
  <2>2. Tidy(Shortened(M, Joined(p))) /\ Len(Shortened(M, Joined(p))) <= M
    BY <1>1, <1>2, <1>5, <2>1, ShortenedIs
  <2>3. BuildDNSLabelName(M, p) = Shortened(M, Joined(p))
    BY <1>3, <1>5 DEF BuildDNSLabelName
  <2>4. QED
    BY <2>2, <2>3 DEF BuiltWell
<1>6. QED
  BY <1>3, <1>4, <1>5

(* BuildDNSLabelName gives one name to what has the same words, and to      *)
(* nothing else.                                                           *)
LEMMA BuiltApart ==
    ASSUME NEW M, NEW lists, AreLists(M, lists), NEW p \in lists, NEW q \in lists
    PROVE  BuildDNSLabelName(M, p) = BuildDNSLabelName(M, q) <=> AllWords(p) = AllWords(q)
<1>1. IsBound(M) /\ HashesTell(M, lists) /\ M \in Nat
  BY DEF AreLists, IsBound
<1>2. ASSUME NEW r \in lists
      PROVE  /\ Tidy(Joined(r)) /\ Words(Joined(r)) = AllWords(r) /\ Len(Joined(r)) \in Nat
             /\ Len(Joined(r)) <= M => BuildDNSLabelName(M, r) = Joined(r)
             /\ Len(Joined(r)) > M => BuildDNSLabelName(M, r) = Shortened(M, Joined(r))
  <2>1. Tidy(Joined(r)) /\ Words(Joined(r)) = AllWords(r)
    BY JoinedKeepsWords DEF AreLists
  <2>2. Len(Joined(r)) \in Nat
    BY <2>1 DEF Tidy, Neat, IsList
  <2>3. QED
    BY <1>1, <2>1, <2>2 DEF BuildDNSLabelName
<1>3. AllWords(p) = AllWords(q) <=> Joined(p) = Joined(q)
  BY <1>2, WordsTell
<1>4. ASSUME NEW r \in lists, NEW s \in lists, Len(Joined(r)) > M, Len(Joined(s)) <= M
      PROVE  BuildDNSLabelName(M, r) # BuildDNSLabelName(M, s)
  <2>1. ~(Len(Joined(s)) > M)
    BY <1>1, <1>2, <1>4
  <2>2. Shortened(M, Joined(r)) # Joined(s)
    BY <1>1, <1>4, <2>1, HashesTellMeans
  <2>3. QED
    BY <1>2, <1>4, <2>2
<1>5. ASSUME Len(Joined(p)) > M, Len(Joined(q)) > M,
             BuildDNSLabelName(M, p) = BuildDNSLabelName(M, q)
      PROVE  Joined(p) = Joined(q)
  <2> DEFINE hp == ShortHash(Joined(p))
             hq == ShortHash(Joined(q))
  <2>1. Hashed(Joined(p)) /\ Hashed(Joined(q))
    BY <1>1, <1>5, HashesTellMeans
  <2>2. PICK x : IsList(x) /\ Shortened(M, Joined(p)) = Together(x, hp)
    BY <1>1, <1>2, <1>5, <2>1, ShortenedIs
  <2>3. PICK y : IsList(y) /\ Shortened(M, Joined(q)) = Together(y, hq)
    BY <1>1, <1>2, <1>5, <2>1, ShortenedIs
  <2>4. Together(x, hp) = Together(y, hq)
    BY <1>2, <1>5, <2>2, <2>3
  <2>5. IsList(hp) /\ IsList(hq) /\ Len(hp) = Len(hq)
    BY <2>1 DEF Hashed, IsList
  <2>6. hp = hq
    <3> HIDE DEF hp, hq
    <3>1. QED
      BY <2>2, <2>3, <2>4, <2>5, SameEnd
  <2>7. QED
    BY <1>1, <1>5, <2>6, HashesTellMeans
<1>6. BuildDNSLabelName(M, p) = BuildDNSLabelName(M, q) => Joined(p) = Joined(q)
  <2>1. (Len(Joined(p)) > M \/ Len(Joined(p)) <= M) /\ (Len(Joined(q)) > M \/ Len(Joined(q)) <= M)
    BY <1>1, <1>2
  <2>2. CASE Len(Joined(p)) <= M /\ Len(Joined(q)) <= M
    BY <1>2, <2>2
  <2>3. CASE Len(Joined(p)) > M /\ Len(Joined(q)) > M
    BY <1>5, <2>3
  <2>4. CASE Len(Joined(p)) > M /\ Len(Joined(q)) <= M
    BY <1>4, <2>4
  <2>5. CASE Len(Joined(p)) <= M /\ Len(Joined(q)) > M
    BY <1>4, <2>5
  <2>6. QED
    BY <2>1, <2>2, <2>3, <2>4, <2>5
<1>7. Joined(p) = Joined(q) => BuildDNSLabelName(M, p) = BuildDNSLabelName(M, q)
  BY DEF BuildDNSLabelName
<1>8. QED
  BY <1>3, <1>6, <1>7

(* What a function makes of a finite set is finite.                         *)
LEMMA ImageIsFinite ==
    ASSUME NEW S, IsFiniteSet(S), NEW f, DOMAIN f = S
    PROVE  IsFiniteSet({f[x] : x \in S})
<1> DEFINE T == {f[x] : x \in S}
           g == [x \in S |-> f[x]]
<1>1. g \in [S -> T] /\ \A t \in T : \E x \in S : g[x] = t
  OBVIOUS
<1> HIDE DEF T, g
<1>2. g \in Surjection(S, T)
  BY <1>1 DEF Surjection
<1>3. IsFiniteSet(T)
  BY <1>2, FS_Surjection
<1>4. QED
  BY <1>3 DEF T

(* Entries whose names are equal exactly when their words are.              *)
LEMMA ToldOneToOne ==
    ASSUME NEW S, IsFiniteSet(S), NEW N, NEW W,
           \A p, q \in S : N[p] = N[q] <=> W[p] = W[q]
    PROVE  OneToOne({[name |-> N[p], words |-> W[p]] : p \in S})
<1> DEFINE entry == [p \in S |-> [name |-> N[p], words |-> W[p]]]
           E == {entry[p] : p \in S}
           name == [b \in E |-> b.name]
           words == [b \in E |-> b.words]
           Ns == {b.name : b \in E}
           Ws == {b.words : b \in E}
<1>1. IsFiniteSet(E)
  <2>1. DOMAIN entry = S
    OBVIOUS
  <2> HIDE DEF entry
  <2>2. QED
    BY <2>1, ImageIsFinite
<1>2. \A p \in S : entry[p] = [name |-> N[p], words |-> W[p]]
  OBVIOUS
<1>3. \A b \in E : \E p \in S : b = entry[p]
  OBVIOUS
<1>4. E = {[name |-> N[p], words |-> W[p]] : p \in S}
  BY <1>2
<1> HIDE DEF entry, E
<1>5. ASSUME NEW b \in E, NEW c \in E
      PROVE  (b.name = c.name => b = c) /\ (b.words = c.words => b = c)
  <2>1. PICK p \in S : b = entry[p]
    BY <1>3
  <2>2. PICK q \in S : c = entry[q]
    BY <1>3
  <2>3. /\ b = [name |-> N[p], words |-> W[p]] /\ c = [name |-> N[q], words |-> W[q]]
        /\ N[p] = N[q] <=> W[p] = W[q]
    BY <1>2, <2>1, <2>2
  <2>4. QED
    BY <2>3
<1>6. Pairs(name, E, Ns) /\ Pairs(words, E, Ws)
  <2>1. /\ \A b \in E : name[b] \in Ns /\ name[b] = b.name
        /\ \A t \in Ns : \E b \in E : name[b] = t
    OBVIOUS
  <2>2. /\ \A b \in E : words[b] \in Ws /\ words[b] = b.words
        /\ \A t \in Ws : \E b \in E : words[b] = t
    OBVIOUS
  <2> HIDE DEF name, words, Ns, Ws
  <2>3. QED
    BY <1>5, <2>1, <2>2 DEF Pairs
<1> HIDE DEF name, words
<1>7. Cardinality(Ns) = Cardinality(E) /\ Cardinality(Ws) = Cardinality(E)
  <2> HIDE DEF Ns, Ws
  <2>1. QED
    BY <1>1, <1>6, SameSize
<1>8. OneToOne(E)
  BY <1>7 DEF OneToOne
<1>9. QED
  BY <1>4, <1>8

Entries(M, lists) == {Entry(BuildDNSLabelName(M, p), p) : p \in lists}

(* What is built under a bound is told apart.                               *)
LEMMA BuiltOneToOne ==
    ASSUME NEW M, NEW lists, AreLists(M, lists), IsFiniteSet(lists)
    PROVE  OneToOne(Entries(M, lists)) /\ \A b \in Entries(M, lists) : Tidy(b.name) /\ Len(b.name) <= M
<1> DEFINE N == [p \in lists |-> BuildDNSLabelName(M, p)]
           W == [p \in lists |-> AllWords(p)]
<1>1. \A p \in lists : N[p] = BuildDNSLabelName(M, p) /\ W[p] = AllWords(p)
  OBVIOUS
<1> HIDE DEF N, W
<1>2. \A p, q \in lists : N[p] = N[q] <=> W[p] = W[q]
  BY <1>1, BuiltApart
<1>3. OneToOne({[name |-> N[p], words |-> W[p]] : p \in lists})
  BY <1>2, ToldOneToOne
<1>4. {[name |-> N[p], words |-> W[p]] : p \in lists} = Entries(M, lists)
  BY <1>1 DEF Entries, Entry
<1>5. ASSUME NEW b \in Entries(M, lists) PROVE Tidy(b.name) /\ Len(b.name) <= M
  <2>1. PICK p \in lists : b = Entry(BuildDNSLabelName(M, p), p)
    BY DEF Entries
  <2>2. b.name = BuildDNSLabelName(M, p)
    BY <2>1 DEF Entry
  <2>3. QED
    BY <2>2, BuiltIs DEF BuiltWell
<1>6. QED
  BY <1>3, <1>4, <1>5

(* One, two or three names are a list of names.                             *)
LEMMA FewParts ==
    ASSUME NEW x, IsList(x)
    PROVE  /\ AreParts(<<x>>)
           /\ \A y : IsList(y) => /\ AreParts(<<x, y>>)
                                  /\ \A z : IsList(z) => AreParts(<<x, y, z>>)
<1>1. AreParts(<<x>>)
  <2> DEFINE p == <<x>>
  <2>1. p \in Seq({x}) /\ Len(p) = 1 /\ p[1] = x
    OBVIOUS
  <2> HIDE DEF p
  <2>2. IsList(p) /\ p # <<>> /\ \A i \in 1..Len(p) : p[i] = x
    <3>1. IsList(p)
      BY <2>1, ListOf
    <3>2. \A i \in 1..1 : i = 1
      OBVIOUS
    <3>3. p # <<>>
      BY <2>1
    <3>4. QED
      BY <2>1, <3>1, <3>2, <3>3
  <2>3. AreParts(p)
    BY <2>2 DEF AreParts
  <2>4. QED
    BY <2>3 DEF p
<1>2. ASSUME NEW y, IsList(y) PROVE AreParts(<<x, y>>)
  <2> DEFINE p == <<x, y>>
  <2>1. p \in Seq({x, y}) /\ Len(p) = 2 /\ p[1] = x /\ p[2] = y
    OBVIOUS
  <2> HIDE DEF p
  <2>2. IsList(p) /\ p # <<>> /\ \A i \in 1..Len(p) : p[i] \in {x, y}
    <3>1. IsList(p)
      BY <2>1, ListOf
    <3>2. \A i \in 1..2 : i = 1 \/ i = 2
      OBVIOUS
    <3>3. p # <<>>
      BY <2>1
    <3>4. QED
      BY <2>1, <3>1, <3>2, <3>3
  <2>3. AreParts(p)
    BY <1>2, <2>2 DEF AreParts
  <2>4. QED
    BY <2>3 DEF p
<1>3. ASSUME NEW y, IsList(y), NEW z, IsList(z) PROVE AreParts(<<x, y, z>>)
  <2> DEFINE p == <<x, y, z>>
  <2>1. p \in Seq({x, y, z}) /\ Len(p) = 3 /\ p[1] = x /\ p[2] = y /\ p[3] = z
    OBVIOUS
  <2> HIDE DEF p
  <2>2. IsList(p) /\ p # <<>> /\ \A i \in 1..Len(p) : p[i] \in {x, y, z}
    <3>1. IsList(p)
      BY <2>1, ListOf
    <3>2. \A i \in 1..3 : i = 1 \/ i = 2 \/ i = 3
      OBVIOUS
    <3>3. p # <<>>
      BY <2>1
    <3>4. QED
      BY <2>1, <3>1, <3>2, <3>3
  <2>3. AreParts(p)
    BY <1>3, <2>2 DEF AreParts
  <2>4. QED
    BY <2>3 DEF p
<1>4. QED
  BY <1>1, <1>2, <1>3

(* The names of the users' objects, and hashes that tell what is built of   *)
(* them.                                                                   *)
ProperNames(names) ==
    IsFiniteSet(names) /\ (\A n \in names : IsList(n)) /\ HashesTellApart(names)

(* The words that the operator adds are names.                              *)
LEMMA WordsAreLists ==
    IsList(BackupWord) /\ IsList(RestoreWord) /\ IsList(SnapshotWord) /\ IsList(CleanupWord)
  BY NamingAssumption DEF IsList

(* All lists of names that names are built from are finite, and fit for it. *)
LEMMA PartsAre ==
    ASSUME NEW names, ProperNames(names)
    PROVE  /\ AreLists(MaxCronJobName, CronJobParts(names)) /\ IsFiniteSet(CronJobParts(names))
           /\ AreLists(MaxName, JobParts(names)) /\ IsFiniteSet(JobParts(names))
           /\ AreLists(MaxName, SnapshotParts(names)) /\ IsFiniteSet(SnapshotParts(names))
           /\ AreLists(MaxName, CleanupParts(names)) /\ IsFiniteSet(CleanupParts(names))
           /\ AreLists(MaxName, LabelParts(names)) /\ IsFiniteSet(LabelParts(names))
<1> DEFINE pairs == names \X names
<1>1. /\ IsFiniteSet(names) /\ (\A n \in names : IsList(n)) /\ HashesTellApart(names)
      /\ IsFiniteSet(pairs)
  BY FS_Product DEF ProperNames
<1>2. /\ HashesTell(MaxCronJobName, CronJobParts(names)) /\ HashesTell(MaxName, JobParts(names))
      /\ HashesTell(MaxName, SnapshotParts(names)) /\ HashesTell(MaxName, CleanupParts(names))
      /\ HashesTell(MaxName, LabelParts(names))
  BY <1>1 DEF HashesTellApart
<1>3. AreLists(MaxCronJobName, CronJobParts(names)) /\ IsFiniteSet(CronJobParts(names))
  <2> DEFINE f == [x \in pairs |-> <<x[1], x[2], BackupWord>>]
  <2>1. CronJobParts(names) = {f[x] : x \in pairs}
    <3>1. ASSUME NEW x \in pairs PROVE f[x] \in CronJobParts(names)
      <4>1. x[1] \in names /\ x[2] \in names /\ f[x] = <<x[1], x[2], BackupWord>>
        OBVIOUS
      <4>2. QED
        BY <4>1 DEF CronJobParts
    <3>2. ASSUME NEW p \in CronJobParts(names) PROVE p \in {f[x] : x \in pairs}
      <4>1. PICK policy \in names, storage \in names : p = <<policy, storage, BackupWord>>
        BY DEF CronJobParts
      <4>2. <<policy, storage>> \in pairs /\ f[<<policy, storage>>] = <<policy, storage, BackupWord>>
        OBVIOUS
      <4>3. QED
        BY <4>1, <4>2
    <3> HIDE DEF f
    <3>3. QED
      BY <3>1, <3>2
  <2>2. IsFiniteSet({f[x] : x \in pairs})
    <3>1. DOMAIN f = pairs
      OBVIOUS
    <3> HIDE DEF f, pairs
    <3>2. QED
      BY <1>1, <3>1, ImageIsFinite
  <2>3. ASSUME NEW p \in CronJobParts(names) PROVE AreParts(p)
    <3>1. PICK policy \in names, storage \in names : p = <<policy, storage, BackupWord>>
      BY DEF CronJobParts
    <3>2. QED
      BY <1>1, <3>1, FewParts, WordsAreLists
  <2>4. QED
    BY <1>2, <2>1, <2>2, <2>3, BoundsAre DEF AreLists
<1>4. AreLists(MaxName, JobParts(names)) /\ IsFiniteSet(JobParts(names))
  <2> DEFINE words == {BackupWord} \cup {RestoreWord}
             f == [x \in names \X words |-> <<x[1], x[2]>>]
  <2>1. JobParts(names) = {f[x] : x \in names \X words}
    <3>1. ASSUME NEW x \in names \X words PROVE f[x] \in JobParts(names)
      <4>1. x[1] \in names /\ x[2] \in words /\ f[x] = <<x[1], x[2]>>
        OBVIOUS
      <4>2. QED
        BY <4>1 DEF JobParts
    <3>2. ASSUME NEW p \in JobParts(names) PROVE p \in {f[x] : x \in names \X words}
      <4>1. PICK n \in names, word \in words : p = <<n, word>>
        BY DEF JobParts
      <4>2. <<n, word>> \in names \X words /\ f[<<n, word>>] = <<n, word>>
        OBVIOUS
      <4>3. QED
        BY <4>1, <4>2
    <3> HIDE DEF f
    <3>3. QED
      BY <3>1, <3>2
  <2>2. IsFiniteSet(names \X words)
    <3>1. IsFiniteSet(words)
      BY FS_Singleton, FS_Union
    <3>2. QED
      BY <1>1, <3>1, FS_Product
  <2>3. IsFiniteSet({f[x] : x \in names \X words})
    <3>1. DOMAIN f = names \X words
      OBVIOUS
    <3> HIDE DEF f, words
    <3>2. QED
      BY <2>2, <3>1, ImageIsFinite
  <2>4. ASSUME NEW p \in JobParts(names) PROVE AreParts(p)
    <3>1. PICK n \in names, word \in {BackupWord, RestoreWord} : p = <<n, word>>
      BY DEF JobParts
    <3>2. QED
      BY <1>1, <3>1, FewParts, WordsAreLists
  <2>5. QED
    BY <1>2, <2>1, <2>3, <2>4, BoundsAre DEF AreLists
<1>5. ASSUME NEW n \in names PROVE IsList(BackupJobName(n))
  <2>1. <<n, BackupWord>> \in JobParts(names)
    BY DEF JobParts
  <2>2. BuiltWell(MaxName, <<n, BackupWord>>)
    BY <1>4, <2>1, BuiltIs
  <2>3. QED
    BY <2>2 DEF BuiltWell, BackupJobName, BuildJobName, Tidy, Neat
<1>6. AreLists(MaxName, SnapshotParts(names)) /\ IsFiniteSet(SnapshotParts(names))
  <2> DEFINE f == [x \in pairs |-> <<BackupJobName(x[1]), x[2], SnapshotWord>>]
  <2>1. SnapshotParts(names) = {f[x] : x \in pairs}
    <3>1. ASSUME NEW x \in pairs PROVE f[x] \in SnapshotParts(names)
      <4>1. x[1] \in names /\ x[2] \in names /\ f[x] = <<BackupJobName(x[1]), x[2], SnapshotWord>>
        OBVIOUS
      <4>2. QED
        BY <4>1 DEF SnapshotParts
    <3>2. ASSUME NEW p \in SnapshotParts(names) PROVE p \in {f[x] : x \in pairs}
      <4>1. PICK backupJob \in names, storage \in names : p = <<BackupJobName(backupJob), storage, SnapshotWord>>
        BY DEF SnapshotParts
      <4>2. <<backupJob, storage>> \in pairs /\ f[<<backupJob, storage>>] = <<BackupJobName(backupJob), storage, SnapshotWord>>
        OBVIOUS
      <4>3. QED
        BY <4>1, <4>2
    <3> HIDE DEF f
    <3>3. QED
      BY <3>1, <3>2
  <2>2. IsFiniteSet({f[x] : x \in pairs})
    <3>1. DOMAIN f = pairs
      OBVIOUS
    <3> HIDE DEF f, pairs
    <3>2. QED
      BY <1>1, <3>1, ImageIsFinite
  <2>3. ASSUME NEW p \in SnapshotParts(names) PROVE AreParts(p)
    <3>1. PICK backupJob \in names, storage \in names :
             p = <<BackupJobName(backupJob), storage, SnapshotWord>>
      BY DEF SnapshotParts
    <3>2. IsList(BackupJobName(backupJob)) /\ IsList(storage)
      BY <1>1, <1>5
    <3>3. QED
      BY <3>1, <3>2, FewParts, WordsAreLists
  <2>4. QED
    BY <1>2, <2>1, <2>2, <2>3, BoundsAre DEF AreLists
<1>7. AreLists(MaxName, CleanupParts(names)) /\ IsFiniteSet(CleanupParts(names))
  <2> DEFINE S == SnapshotParts(names)
             f == [x \in S |-> <<BuildSnapshotName(x), CleanupWord>>]
  <2>1. CleanupParts(names) = {f[x] : x \in S}
    BY DEF CleanupParts
  <2>2. IsFiniteSet({f[x] : x \in S})
    <3>1. DOMAIN f = S
      OBVIOUS
    <3> HIDE DEF f
    <3>2. QED
      BY <1>6, <3>1, ImageIsFinite
  <2>3. ASSUME NEW p \in CleanupParts(names) PROVE AreParts(p)
    <3>1. PICK x \in S : p = <<BuildSnapshotName(x), CleanupWord>>
      BY DEF CleanupParts
    <3>2. BuiltWell(MaxName, x)
      BY <1>6, BuiltIs
    <3>3. IsList(BuildSnapshotName(x))
      BY <3>2 DEF BuiltWell, BuildSnapshotName, Tidy, Neat
    <3>4. QED
      BY <3>1, <3>3, FewParts, WordsAreLists
  <2>4. QED
    BY <1>2, <2>1, <2>2, <2>3, BoundsAre DEF AreLists
<1>8. AreLists(MaxName, LabelParts(names)) /\ IsFiniteSet(LabelParts(names))
  <2> DEFINE f == [n \in names |-> <<n>>]
  <2>1. LabelParts(names) = {f[n] : n \in names}
    BY DEF LabelParts
  <2>2. IsFiniteSet({f[n] : n \in names})
    <3>1. DOMAIN f = names
      OBVIOUS
    <3> HIDE DEF f
    <3>2. QED
      BY <1>1, <3>1, ImageIsFinite
  <2>3. ASSUME NEW p \in LabelParts(names) PROVE AreParts(p)
    <3>1. PICK n \in names : p = <<n>>
      BY DEF LabelParts
    <3>2. QED
      BY <1>1, <3>1, FewParts
  <2>4. QED
    BY <1>2, <2>1, <2>2, <2>3, BoundsAre DEF AreLists
<1>9. QED
  BY <1>3, <1>4, <1>6, <1>7, <1>8

(* A tidy name that is not too long is a DNS label, and plain.              *)
LEMMA TidyIsPlain ==
    ASSUME NEW a, Tidy(a), Len(a) <= MaxName
    PROVE  IsLabel(a) /\ IsPlain(a)
<1>1. Len(a) \in Nat /\ DOMAIN a = 1..Len(a) /\ Len(a) # 0
  BY DEF Tidy, Neat, IsList
<1>2. Len(a) \in 1..MaxName
  BY <1>1, BoundsAre DEF IsBound
<1>3. IsLabel(a)
  BY <1>1, <1>2 DEF IsLabel, Tidy, Neat, Last
<1>4. \A i \in 1..(Len(a) - 1) : <<a[i], a[i + 1]>> # <<"-", "-">>
  <2>1. \A c, d : <<c, d>> = <<"-", "-">> => c = "-" /\ d = "-"
    OBVIOUS
  <2>2. QED
    BY <2>1 DEF Tidy, Neat
<1>5. QED
  BY <1>3, <1>4 DEF IsPlain

(* Two names share a label exactly when they have the same words.           *)
LEMMA LabelsTold ==
    ASSUME NEW names, ProperNames(names), NEW m \in names, NEW n \in names
    PROVE  BuildLabelValue(m) = BuildLabelValue(n) <=> Words(m) = Words(n)
<1>1. AreLists(MaxName, LabelParts(names))
  BY PartsAre
<1>2. ASSUME NEW x \in names PROVE <<x>> \in LabelParts(names) /\ AllWords(<<x>>) = Words(x)
  <2>1. <<x>> \in LabelParts(names)
    BY DEF LabelParts
  <2>2. IsList(x)
    BY DEF ProperNames
  <2>3. Words(Joined(<<x>>)) = AllWords(<<x>>)
    BY <2>2, FewParts, JoinedKeepsWords
  <2>4. Joined(<<x>>) = SanitizeName(x)
    <3>1. [i \in DOMAIN <<x>> |-> SanitizeName(<<x>>[i])] = <<SanitizeName(x)>>
      OBVIOUS
    <3>2. QED
      BY <3>1, OnePartAlone DEF Joined
  <2>5. Words(SanitizeName(x)) = Words(x)
    BY <2>2, SanitizeNameKeepsWords DEF IsList
  <2>6. QED
    BY <2>1, <2>3, <2>4, <2>5
<1>3. BuildDNSLabelName(MaxName, <<m>>) = BuildDNSLabelName(MaxName, <<n>>)
        <=> AllWords(<<m>>) = AllWords(<<n>>)
  BY <1>1, <1>2, BuiltApart
<1>4. QED
  BY <1>2, <1>3 DEF BuildLabelValue

(* Each execution keeps its artifacts apart from those of executions with    *)
(* other words.                                                            *)
LEMMA BackendsTold ==
    ASSUME NEW names, ProperNames(names)
    PROVE  OneToOne(Backends(names))
<1> DEFINE known == {n \in names : Len(n) = 3}
           S == Executions(known)
           Said(e) == <<Words(e.source), e.kind, Words(e.name), Words(e.storage)>>
           N == [e \in S |-> BackendPath(e)]
           W == [e \in S |-> Said(e)]
<1>1. IsFiniteSet(S)
  <2> DEFINE kinds == {"policy"} \cup {"manual"}
             all == (kinds \X known) \X (known \X known)
             f == [x \in all |-> [kind |-> x[1][1], source |-> x[1][2],
                                  name |-> x[2][1], storage |-> x[2][2]]]
  <2>1. IsFiniteSet(known) /\ IsFiniteSet(kinds)
    <3>1. IsFiniteSet(names) /\ known \subseteq names
      BY DEF ProperNames
    <3>2. QED
      BY <3>1, FS_Subset, FS_Singleton, FS_Union
  <2>2. IsFiniteSet(all)
    <3> HIDE DEF known, kinds
    <3>1. QED
      BY <2>1, FS_Product
  <2>3. S = {f[x] : x \in all}
    <3> HIDE DEF known
    <3>1. ASSUME NEW x \in all PROVE f[x] \in S
      BY DEF Executions
    <3>2. ASSUME NEW e \in S PROVE \E x \in all : e = f[x]
      <4> DEFINE x == <<<<e.kind, e.source>>, <<e.name, e.storage>>>>
      <4>1. x \in all
        BY DEF Executions
      <4>2. f[x] = [kind |-> e.kind, source |-> e.source, name |-> e.name, storage |-> e.storage]
        BY <4>1
      <4>3. e = f[x]
        BY <4>2 DEF Executions
      <4>4. QED
        BY <4>1, <4>3
    <3> HIDE DEF f, all, S
    <3>3. QED
      BY <3>1, <3>2
  <2>4. DOMAIN f = all
    OBVIOUS
  <2> HIDE DEF f, all, S
  <2>5. QED
    BY <2>2, <2>3, <2>4, ImageIsFinite
<1>2. ASSUME NEW d \in S, NEW e \in S
      PROVE  BackendPath(d) = BackendPath(e) <=> Said(d) = Said(e)
  <2>1. /\ d.source \in names /\ d.name \in names /\ d.storage \in names
        /\ e.source \in names /\ e.name \in names /\ e.storage \in names
    BY DEF Executions
  <2>2. /\ BuildLabelValue(d.source) = BuildLabelValue(e.source) <=> Words(d.source) = Words(e.source)
        /\ BuildLabelValue(d.name) = BuildLabelValue(e.name) <=> Words(d.name) = Words(e.name)
        /\ BuildLabelValue(d.storage) = BuildLabelValue(e.storage) <=> Words(d.storage) = Words(e.storage)
    BY <2>1, LabelsTold
  <2>3. QED
    BY <2>2 DEF BackendPath
<1>3. \A e \in S : N[e] = BackendPath(e) /\ W[e] = Said(e)
  OBVIOUS
<1>4. Backends(names) = {[name |-> BackendPath(e), words |-> Said(e)] : e \in S}
  BY DEF Backends
<1> HIDE DEF N, W, S, Said
<1>5. \A d, e \in S : N[d] = N[e] <=> W[d] = W[e]
  BY <1>2, <1>3
<1>6. OneToOne({[name |-> N[e], words |-> W[e]] : e \in S})
  BY <1>1, <1>5, ToldOneToOne
<1>7. {[name |-> N[e], words |-> W[e]] : e \in S} = Backends(names)
  BY <1>3, <1>4
<1>8. QED
  BY <1>6, <1>7

(* A name is a label of itself exactly when it is plain.                    *)
LEMMA PlainLabels ==
    ASSUME NEW names, ProperNames(names), NEW n \in names
    PROVE  BuildLabelValue(n) = n <=> IsPlain(n)
<1>1. ASSUME BuildLabelValue(n) = n PROVE IsPlain(n)
  <2>1. <<n>> \in LabelParts(names) /\ AreLists(MaxName, LabelParts(names))
    BY PartsAre DEF LabelParts
  <2>2. BuiltWell(MaxName, <<n>>)
    BY <2>1, BuiltIs
  <2>3. Tidy(n) /\ Len(n) <= MaxName
    BY <1>1, <2>2 DEF BuiltWell, BuildLabelValue
  <2>4. QED
    BY <2>3, TidyIsPlain
<1>2. ASSUME IsPlain(n) PROVE BuildLabelValue(n) = n
  <2>1. n \in Seq(Range(n))
    BY DEF ProperNames, IsList
  <2>2. QED
    BY <1>2, <2>1, PlainNameIsItsLabel
<1>3. QED
  BY <1>1, <1>2

(* Whatever the users call their objects, however long and with whatever    *)
(* between the words: names of CronJobs, native Jobs, Snapshots, labels and *)
(* backend directories are told apart by their words, and by nothing else   *)
(* (naming.go); all that is built is accepted by Kubernetes.                *)
THEOREM NamesAreToldApart ==
    ASSUME NEW names, ProperNames(names)
    PROVE  ToldApart(names)
<1>1. /\ CronJobs(names) = Entries(MaxCronJobName, CronJobParts(names))
      /\ Jobs(names) = Entries(MaxName, JobParts(names))
      /\ Snapshots(names) = Entries(MaxName, SnapshotParts(names))
      /\ Cleanups(names) = Entries(MaxName, CleanupParts(names))
  BY DEF CronJobs, Jobs, Snapshots, Cleanups, Entries, BuildCronJobName, BuildJobName, BuildSnapshotName
<1>2. LabelValues(names) = Entries(MaxName, LabelParts(names))
  BY DEF LabelValues, LabelParts, Entries, BuildLabelValue
<1>3. /\ OneToOne(CronJobs(names)) /\ OneToOne(Jobs(names)) /\ OneToOne(Snapshots(names))
      /\ OneToOne(Cleanups(names)) /\ OneToOne(LabelValues(names))
  BY <1>1, <1>2, PartsAre, BuiltOneToOne
<1>4. OneToOne(Backends(names))
  BY BackendsTold
<1>5. ASSUME NEW b \in Jobs(names) \cup Snapshots(names) \cup Cleanups(names) PROVE IsLabel(b.name)
  <2>1. Tidy(b.name) /\ Len(b.name) <= MaxName
    BY <1>1, PartsAre, BuiltOneToOne
  <2>2. QED
    BY <2>1, TidyIsPlain
<1>6. ASSUME NEW b \in CronJobs(names) PROVE IsLabel(b.name) /\ Len(b.name) <= MaxCronJobName
  <2>1. Tidy(b.name) /\ Len(b.name) <= MaxCronJobName
    BY <1>1, PartsAre, BuiltOneToOne
  <2>2. Len(b.name) <= MaxName
    <3>1. Len(b.name) \in Nat
      BY <2>1 DEF Tidy, Neat, IsList
    <3>2. QED
      BY <2>1, <3>1, BoundsAre DEF IsBound
  <2>3. QED
    BY <2>1, <2>2, TidyIsPlain
<1>7. QED
  BY <1>3, <1>4, <1>5, <1>6, PlainLabels DEF ToldApart

----------------------------------------------------------------------------
(* Configuration: the types *)

Objected(at, o) == at[o] = Gone \/ at[o] \in Present(o)

Cached(at) == at = [o \in Objects |-> at[o]] /\ \A o \in Objects : Objected(at, o)

ReportOK ==
    /\ report \in [Runs -> SUBSET {"probe", "artifact"}]
    /\ \A r \in Runs : r \in Finished \/ report[r] = {}

(* The type invariant, by parts.                                            *)
LEMMA TypesAre ==
    TypeOK <=> /\ edits \in 0..MaxEdits /\ Cached(stored) /\ Cached(seen)
               /\ events \subseteq Objects /\ due \subseteq Objects
               /\ \A o \in Objects : o \in events \/ seen[o] = stored[o]
               /\ run \in [Runs -> {"running", "succeeded", "failed", "collected"}]
               /\ ReportOK /\ dueRuns \subseteq Runs
               /\ \A g \in registered : g.run \in Runs
  BY DEF TypeOK, Cached, Objected, ReportOK

(* An object that is there is not gone.                                     *)
LEMMA SpecIsSomething ==
    ASSUME NEW o \in Objects, NEW object \in Present(o)
    PROVE  object.spec \in SpecsOf[o[1]] /\ object.spec # None /\ object # Gone
<1>1. object.spec \in SpecsOf[o[1]]
  BY DEF Present
<1>2. None \notin SpecsOf[o[1]]
  BY ConfigurationAssumption
<1>3. Gone.spec = None
  BY DEF Gone
<1>4. object.spec # None
  BY <1>1, <1>2
<1>5. QED
  BY <1>1, <1>3, <1>4, Zenon

(* Deployed objects are settled, all others are gone.                       *)
LEMMA InitTypes == Init => TypeOK
<1>1. SUFFICES ASSUME Init PROVE TypeOK
  OBVIOUS
<1>2. MaxEdits \in Nat
  BY ConfigurationAssumption
<1>3. edits = 0 /\ edits \in 0..MaxEdits
  BY <1>1, <1>2 DEF Init
<1>4. ASSUME NEW o \in Objects, o \in Deployed PROVE Settled(o) \in Present(o)
  <2> DEFINE spec == CHOOSE spec \in SpecsOf[o[1]] : Valid(o[1], spec)
  <2>1. spec \in SpecsOf[o[1]]
    BY <1>4, ConfigurationAssumption
  <2> DEFINE probe == IF o[1] = "BackupStorage" THEN "Succeeded" ELSE ""
  <2>2. Settled(o) = [Fresh(spec) EXCEPT !.observed = 1, !.phase = "Configured", !.probe = probe]
    BY DEF Settled
  <2>3. probe \in Probes(o)
    BY DEF Probes
  <2> HIDE DEF spec, probe
  <2>4. Settled(o) = [spec |-> spec, gen |-> 1, observed |-> 1, phase |-> "Configured",
                      probe |-> probe]
    BY <2>2 DEF Fresh
  <2>5. 1 \in 1..(edits + 1) /\ 1 \in 0..(edits + 1)
    BY <1>3
  <2>6. QED
    BY <2>1, <2>3, <2>4, <2>5 DEF Present
<1>5. ASSUME NEW o \in Objects PROVE Objected(stored, o)
  <2>1. stored[o] = IF o \in Deployed THEN Settled(o) ELSE Gone
    BY <1>1 DEF Init
  <2>2. QED
    BY <1>4, <2>1 DEF Objected
<1>6. Cached(stored) /\ seen = stored
  <2>1. stored = [o \in Objects |-> stored[o]] /\ seen = stored
    BY <1>1 DEF Init
  <2>2. QED
    BY <1>5, <2>1 DEF Cached
<1>7. run \in [Runs -> {"running", "succeeded", "failed", "collected"}]
  <2>1. run \in [Runs -> {"running", "collected"}]
    BY <1>1 DEF Init
  <2>2. QED
    BY <2>1
<1>8. ReportOK
  BY <1>1 DEF Init, ReportOK
<1>9. QED
  BY <1>1, <1>3, <1>6, <1>7, <1>8, TypesAre DEF Init

StoresOK ==
    /\ Cached(stored) /\ Cached(seen) /\ events \subseteq Objects
    /\ \A o \in Objects : o \in events \/ seen[o] = stored[o]

RestOK ==
    /\ edits \in 0..MaxEdits /\ due \subseteq Objects
    /\ run \in [Runs -> {"running", "succeeded", "failed", "collected"}]
    /\ ReportOK /\ dueRuns \subseteq Runs
    /\ \A g \in registered : g.run \in Runs

(* The invariant falls into what is about the objects, and the rest.        *)
LEMMA TypesInTwo == TypeOK <=> StoresOK /\ RestOK
  BY TypesAre DEF StoresOK, RestOK

(* The fields of an object that is there.                                   *)
LEMMA PresentFields ==
    ASSUME NEW o \in Objects, NEW object \in Present(o)
    PROVE  /\ object.spec \in SpecsOf[o[1]] /\ object.gen \in 1..(edits + 1)
           /\ object.observed \in 0..(edits + 1)
           /\ object.phase \in {"", "Failed", "Paused", "Configured"}
           /\ object.probe \in Probes(o)
  BY DEF Present

(* An edit takes nothing from what an object may be.                        *)
LEMMA PresentGrows ==
    ASSUME edits \in Nat, edits' = edits \/ edits' = edits + 1, NEW o \in Objects,
           NEW object \in Present(o)
    PROVE  object \in Present(o)'
<1>1. 1..(edits + 1) \subseteq 1..(edits' + 1) /\ 0..(edits + 1) \subseteq 0..(edits' + 1)
  OBVIOUS
<1>2. QED
  BY <1>1 DEF Present

(* What the controller makes of an object is an object again.               *)
LEMMA StatusIsPresent ==
    ASSUME NEW o \in Objects, edits \in Nat, Objected(seen, o), There(seen, o)
    PROVE  StatusOf(o) \in Present(o)
<1> DEFINE base == seen[o]
<1>1. base \in Present(o)
  <2>1. Gone.spec = None
    BY DEF Gone
  <2>2. QED
    BY <2>1 DEF Objected, There
<1>2. base.gen \in 0..(edits + 1) /\ base.probe \in Probes(o)
  <2>1. base.gen \in 1..(edits + 1) /\ base.probe \in Probes(o)
    BY <1>1, PresentFields
  <2>2. QED
    BY <2>1
<1>3. PhaseOf(seen, o) \in {"", "Failed", "Paused", "Configured"}
  BY DEF PhaseOf
<1>4. ProbeOf(o, base) \in Probes(o)
  BY <1>2 DEF ProbeOf, Probes
<1>5. StatusOf(o) = [base EXCEPT !.observed = base.gen, !.phase = PhaseOf(seen, o),
                                 !.probe = ProbeOf(o, base)]
  BY DEF StatusOf
<1> HIDE DEF base
<1>6. QED
  BY <1>1, <1>2, <1>3, <1>4, <1>5 DEF Present

(* A merge patch leaves an object an object.                                *)
LEMMA PatchedIsPresent ==
    ASSUME NEW o \in Objects, NEW object \in Present(o), NEW base, NEW status \in Present(o)
    PROVE  Patched(object, base, status) \in Present(o)
<1> DEFINE observed == IF status.observed # base.observed THEN status.observed ELSE object.observed
           phase == IF status.phase # base.phase THEN status.phase ELSE object.phase
           probe == IF status.probe # base.probe THEN status.probe ELSE object.probe
<1>1. /\ observed \in 0..(edits + 1) /\ phase \in {"", "Failed", "Paused", "Configured"}
      /\ probe \in Probes(o)
  <2>1. /\ status.observed \in 0..(edits + 1) /\ object.observed \in 0..(edits + 1)
        /\ status.phase \in {"", "Failed", "Paused", "Configured"}
        /\ object.phase \in {"", "Failed", "Paused", "Configured"}
        /\ status.probe \in Probes(o) /\ object.probe \in Probes(o)
    BY PresentFields
  <2>2. QED
    BY <2>1
<1>2. Patched(object, base, status)
        = [object EXCEPT !.observed = observed, !.phase = phase, !.probe = probe]
  BY DEF Patched, Present
<1> HIDE DEF observed, phase, probe
<1>3. QED
  BY <1>1, <1>2 DEF Present

(* One object is changed, and the cache is told.                            *)
LEMMA StoreKeepsTypes ==
    ASSUME StoresOK, edits \in Nat, edits' = edits \/ edits' = edits + 1,
           NEW o \in Objects, NEW object, object = Gone \/ object \in Present(o)',
           stored' = [stored EXCEPT ![o] = object],
           events' = events \cup {o} \/ (events' = events /\ object = stored[o]), seen' = seen
    PROVE  StoresOK'
<1>1. stored = [p \in Objects |-> stored[p]]
  BY DEF StoresOK, Cached
<1>2. stored'[o] = object /\ \A p \in Objects : p # o => stored'[p] = stored[p]
  BY <1>1
<1>3. stored' = [p \in Objects |-> stored'[p]]
  BY <1>1
<1>4. ASSUME NEW at, NEW p \in Objects, Objected(at, p)
      PROVE  at[p] = Gone \/ at[p] \in Present(p)'
  BY <1>4, PresentGrows DEF Objected
<1>5. ASSUME NEW p \in Objects PROVE Objected(stored, p)' /\ Objected(seen, p)'
  <2>1. Objected(stored, p) /\ Objected(seen, p)
    BY DEF StoresOK, Cached
  <2>2. Objected(seen, p)'
    BY <1>4, <2>1 DEF Objected
  <2>3. stored'[p] = Gone \/ stored'[p] \in Present(p)'
    BY <1>2, <1>4, <2>1
  <2>4. QED
    BY <2>2, <2>3 DEF Objected
<1>6. Cached(stored)' /\ Cached(seen)'
  BY <1>3, <1>5 DEF StoresOK, Cached
<1>7. events' \subseteq Objects
  BY DEF StoresOK
<1>8. ASSUME NEW p \in Objects PROVE p \in events' \/ seen'[p] = stored'[p]
  BY <1>2 DEF StoresOK
<1>9. QED
  BY <1>6, <1>7, <1>8 DEF StoresOK

StoresStay == stored' = stored /\ seen' = seen /\ events' = events

(* No object is changed.                                                    *)
LEMMA StoresStayTyped ==
    ASSUME StoresOK, edits \in Nat, edits' = edits, StoresStay
    PROVE  StoresOK'
<1>1. \A o \in Objects : Present(o)' = Present(o)
  BY DEF Present
<1>2. QED
  BY <1>1 DEF StoresOK, StoresStay, Cached, Objected

(* What is there at the API server is an object of its kind.                *)
LEMMA StoredIsThere ==
    ASSUME StoresOK, NEW o \in Objects, There(stored, o)
    PROVE  stored[o] \in Present(o)
<1>1. Gone.spec = None
  BY DEF Gone
<1>2. Objected(stored, o)
  BY DEF StoresOK, Cached
<1>3. QED
  BY <1>1, <1>2 DEF Objected, There

(* The two parts of the invariant, after a step.                            *)
LEMMA TypesAgain == ASSUME StoresOK', RestOK' PROVE TypeOK'
  BY DEF TypeOK, StoresOK, RestOK, ReportOK, Cached, Objected

(* Users create and change objects.                                         *)
LEMMA ApplyTypes == ASSUME TypeOK, NEW o \in Objects, Apply(o) PROVE TypeOK'
<1>1. StoresOK /\ RestOK
  BY TypesInTwo
<1>2. MaxEdits \in Nat
  BY ConfigurationAssumption
<1>3. PICK spec \in SpecsOf[o[1]] \ {stored[o].spec} :
        Store(o, IF There(stored, o) THEN [stored[o] EXCEPT !.spec = spec, !.gen = @ + 1]
                 ELSE Fresh(spec))
  BY DEF Apply
<1>4. /\ edits \in Nat /\ edits' = edits + 1 /\ edits' \in 0..MaxEdits
      /\ seen' = seen /\ due' = due /\ run' = run /\ report' = report /\ dueRuns' = dueRuns
      /\ registered' = registered
  BY <1>1, <1>2 DEF Apply, RestOK
<1> DEFINE object == IF There(stored, o) THEN [stored[o] EXCEPT !.spec = spec, !.gen = @ + 1]
                     ELSE Fresh(spec)
<1>5. object \in Present(o)'
  <2>1. CASE There(stored, o)
    <3>1. stored[o] \in Present(o)
      BY <1>1, <2>1, StoredIsThere
    <3>2. stored[o] \in Present(o)'
      BY <1>4, <3>1, PresentGrows
    <3>3. stored[o].gen + 1 \in 1..(edits' + 1)
      <4>1. stored[o].gen \in 1..(edits + 1)
        BY <3>1, PresentFields
      <4>2. QED
        BY <1>4, <4>1
    <3>4. object = [stored[o] EXCEPT !.spec = spec, !.gen = stored[o].gen + 1]
      BY <2>1, <3>1 DEF Present
    <3> HIDE DEF object
    <3>5. QED
      BY <3>2, <3>3, <3>4 DEF Present
  <2>2. CASE ~There(stored, o)
    <3>1. object = [spec |-> spec, gen |-> 1, observed |-> 0, phase |-> "", probe |-> ""]
      BY <2>2 DEF Fresh
    <3>2. 1 \in 1..(edits' + 1) /\ 0 \in 0..(edits' + 1)
      BY <1>4
    <3>3. "" \in Probes(o)
      BY DEF Probes
    <3> HIDE DEF object
    <3>4. QED
      BY <3>1, <3>2, <3>3 DEF Present
  <2>3. QED
    BY <2>1, <2>2
<1>6. stored' = [stored EXCEPT ![o] = object] /\ events' = events \cup {o}
  BY <1>3 DEF Store
<1> HIDE DEF object
<1>7. StoresOK'
  BY <1>1, <1>4, <1>5, <1>6, StoreKeepsTypes
<1>8. RestOK'
  BY <1>1, <1>4 DEF RestOK, ReportOK, Finished
<1>9. QED
  BY <1>7, <1>8, TypesAgain

(* Users delete objects.                                                    *)
LEMMA DeleteTypes == ASSUME TypeOK, NEW o \in Objects, Delete(o) PROVE TypeOK'
<1>1. StoresOK /\ RestOK
  BY TypesInTwo
<1>2. MaxEdits \in Nat
  BY ConfigurationAssumption
<1>3. /\ edits \in Nat /\ edits' = edits + 1 /\ edits' \in 0..MaxEdits
      /\ seen' = seen /\ due' = due /\ run' = run /\ report' = report /\ dueRuns' = dueRuns
      /\ registered' = registered
  BY <1>1, <1>2 DEF Delete, RestOK
<1>4. stored' = [stored EXCEPT ![o] = Gone] /\ events' = events \cup {o}
  BY DEF Delete, Store
<1>5. StoresOK'
  BY <1>1, <1>3, <1>4, StoreKeepsTypes
<1>6. RestOK'
  BY <1>1, <1>3 DEF RestOK, ReportOK, Finished
<1>7. QED
  BY <1>5, <1>6, TypesAgain

(* The informers pass objects on.                                           *)
LEMMA NoticeTypes == ASSUME TypeOK, NEW o \in Objects, Notice(o) PROVE TypeOK'
<1>1. StoresOK /\ RestOK
  BY TypesInTwo
<1>2. /\ stored' = stored /\ seen' = [seen EXCEPT ![o] = stored[o]] /\ edits' = edits
      /\ events' = events \ {o} /\ due' = due \cup {o}
      /\ run' = run /\ report' = report /\ dueRuns' = dueRuns /\ registered' = registered
  BY DEF Notice
<1>3. \A p \in Objects : Present(p)' = Present(p)
  BY <1>2 DEF Present
<1>4. seen = [p \in Objects |-> seen[p]]
  BY <1>1 DEF StoresOK, Cached
<1>5. /\ seen' = [p \in Objects |-> seen'[p]] /\ seen'[o] = stored[o]
      /\ \A p \in Objects : p # o => seen'[p] = seen[p]
  BY <1>2, <1>4
<1>6. Cached(stored)' /\ Cached(seen)'
  BY <1>1, <1>2, <1>3, <1>5 DEF StoresOK, Cached, Objected
<1>7. StoresOK'
  BY <1>1, <1>2, <1>5, <1>6 DEF StoresOK
<1>8. RestOK'
  BY <1>1, <1>2 DEF RestOK, ReportOK, Finished
<1>9. QED
  BY <1>7, <1>8, TypesAgain

(* Controllers write status.                                                *)
LEMMA ReconcileTypes == ASSUME TypeOK, NEW o \in Objects, Reconcile(o) PROVE TypeOK'
<1>1. StoresOK /\ RestOK
  BY TypesInTwo
<1>2. /\ due' = due \ {o} /\ seen' = seen /\ run' = run /\ report' = report /\ dueRuns' = dueRuns
      /\ registered' = registered /\ edits' = edits
  BY DEF Reconcile
<1>3. RestOK'
  BY <1>1, <1>2 DEF RestOK, ReportOK, Finished
<1>4. edits \in Nat /\ Objected(seen, o)
  BY <1>1 DEF RestOK, StoresOK, Cached
<1>5. CASE There(seen, o) /\ There(stored, o)
  <2> DEFINE object == Patched(stored[o], seen[o], StatusOf(o))
  <2>1. StatusOf(o) \in Present(o) /\ stored[o] \in Present(o)
    BY <1>1, <1>4, <1>5, StatusIsPresent, StoredIsThere
  <2>2. object \in Present(o)
    BY <2>1, PatchedIsPresent
  <2>3. object \in Present(o)'
    BY <1>2, <1>4, <2>2, PresentGrows
  <2>4. /\ stored' = [stored EXCEPT ![o] = object]
        /\ events' = events \cup {o} \/ (events' = events /\ object = stored[o])
    BY <1>5 DEF Reconcile, WriteStatus
  <2> HIDE DEF object
  <2>5. StoresOK'
    BY <1>1, <1>2, <1>4, <2>3, <2>4, StoreKeepsTypes
  <2>6. QED
    BY <1>3, <2>5, TypesAgain
<1>6. CASE ~(There(seen, o) /\ There(stored, o))
  <2>1. StoresStay
    BY <1>2, <1>6 DEF Reconcile, WriteStatus, StoresStay
  <2>2. StoresOK'
    BY <1>1, <1>2, <1>4, <2>1, StoresStayTyped
  <2>3. QED
    BY <1>3, <2>2, TypesAgain
<1>7. QED
  BY <1>5, <1>6

(* A probe result.                                                          *)
LEMMA ProbedIsPresent ==
    ASSUME StoresOK, edits \in Nat, edits' = edits, NEW s \in Storages, Current(Storage(s))
    PROVE  Storage(s) \in Objects /\ Probed(stored[Storage(s)]) \in Present(Storage(s))'
<1> DEFINE o == Storage(s)
<1>1. o \in Objects /\ o[1] = "BackupStorage"
  BY DEF Storage, Objects, Named
<1>2. stored[o] \in Present(o)
  BY <1>1, StoredIsThere DEF Current
<1>3. stored[o] \in Present(o)'
  BY <1>1, <1>2, PresentGrows
<1>4. "Succeeded" \in Probes(o)
  BY <1>1 DEF Probes
<1>5. stored[o].gen \in 0..(edits' + 1)
  <2>1. stored[o].gen \in 1..(edits + 1)
    BY <1>1, <1>2, PresentFields
  <2>2. QED
    BY <2>1
<1> HIDE DEF o
<1>6. Probed(stored[o]) \in Present(o)'
  BY <1>3, <1>4, <1>5 DEF Probed, Present
<1>7. QED
  BY <1>1, <1>6 DEF o

(* updateBackupStorageProbe writes the probe result, or has nothing to write.*)
LEMMA ProbeKeepsTypes ==
    ASSUME StoresOK, edits \in Nat, edits' = edits, seen' = seen, NEW s \in Storages, ProbeFor(s)
    PROVE  StoresOK'
<1> DEFINE o == Storage(s)
           object == Probed(stored[o])
<1>1. Current(o)
  BY DEF ProbeFor
<1>2. o \in Objects /\ object \in Present(o)'
  BY <1>1, ProbedIsPresent
<1>3. CASE stored[o] = object
  <2>1. StoresStay
    BY <1>3 DEF ProbeFor, StoresStay
  <2>2. QED
    BY <2>1, StoresStayTyped
<1>4. CASE stored[o] # object
  <2>1. stored' = [stored EXCEPT ![o] = object] /\ events' = events \cup {o}
    BY <1>4 DEF ProbeFor, Store
  <2> HIDE DEF o, object
  <2>2. QED
    BY <1>2, <2>1, StoreKeepsTypes
<1>5. QED
  BY <1>3, <1>4

(* Every step keeps the types.                                              *)
LEMMA StepTypes == ASSUME TypeOK, [Next]_vars PROVE TypeOK'
<1>1. StoresOK /\ RestOK /\ edits \in Nat
  BY TypesInTwo DEF RestOK
<1>2. ASSUME NEW o \in Objects, Apply(o) \/ Delete(o) \/ Notice(o) \/ Reconcile(o)
      PROVE  TypeOK'
  BY <1>2, ApplyTypes, DeleteTypes, NoticeTypes, ReconcileTypes
<1>3. ASSUME StoresStay, edits' = edits, RestOK' PROVE TypeOK'
  BY <1>1, <1>3, StoresStayTyped, TypesAgain
<1>4. ASSUME Resync PROVE TypeOK'
  <2>1. StoresStay /\ edits' = edits
    BY <1>4 DEF Resync, StoresStay
  <2>2. RestOK'
    BY <1>1, <1>4 DEF Resync, RestOK, ReportOK, Finished
  <2>3. QED
    BY <1>3, <2>1, <2>2
<1>5. ASSUME NEW s \in Storages, RecordProbe(s) PROVE TypeOK'
  <2>1. ProbeFor(s) /\ edits' = edits /\ seen' = seen
    BY <1>5 DEF RecordProbe, ProbeFor
  <2>2. StoresOK'
    BY <1>1, <2>1, ProbeKeepsTypes
  <2>3. RestOK'
    BY <1>1, <1>5 DEF RecordProbe, RestOK, ReportOK, Finished
  <2>4. QED
    BY <2>2, <2>3, TypesAgain
<1>6. ASSUME NEW r \in Runs, RunEnds(r) \/ LosePod(r) \/ CollectRun(r) \/ Drop(r) PROVE TypeOK'
  <2>1. StoresStay /\ edits' = edits
    BY <1>6 DEF RunEnds, LosePod, CollectRun, Drop, StoresStay
  <2>2. ReportOK'
    <3>1. ReportOK /\ run \in [Runs -> {"running", "succeeded", "failed", "collected"}]
      BY <1>1 DEF RestOK
    <3>2. ASSUME RunEnds(r) PROVE ReportOK'
      <4>1. PICK outcome \in {"succeeded", "failed"}, messages \in SUBSET {"probe", "artifact"} :
              run' = [run EXCEPT ![r] = outcome] /\ report' = [report EXCEPT ![r] = messages]
        BY <3>2 DEF RunEnds
      <4>2. run'[r] \in {"succeeded", "failed"} /\ \A q \in Runs : q # r => run'[q] = run[q]
        BY <3>1, <4>1
      <4>3. report' \in [Runs -> SUBSET {"probe", "artifact"}]
        BY <3>1, <4>1 DEF ReportOK
      <4>4. \A q \in Runs : q # r => report'[q] = report[q]
        BY <3>1, <4>1 DEF ReportOK
      <4>5. QED
        BY <3>1, <4>2, <4>3, <4>4 DEF ReportOK, Finished
    <3>3. ASSUME LosePod(r) PROVE ReportOK'
      BY <3>1, <3>3 DEF LosePod, ReportOK, Finished
    <3>4. ASSUME CollectRun(r) PROVE ReportOK'
      BY <3>1, <3>4 DEF CollectRun, ReportOK, Finished
    <3>5. ASSUME Drop(r) PROVE ReportOK'
      BY <3>1, <3>5 DEF Drop, ReportOK, Finished
    <3>6. QED
      BY <1>6, <3>2, <3>3, <3>4, <3>5
  <2>3. RestOK'
    BY <1>1, <1>6, <2>2 DEF RunEnds, LosePod, CollectRun, Drop, RestOK
  <2>4. QED
    BY <1>3, <2>1, <2>3
<1>7. ASSUME NEW r \in Runs, Observe(r) PROVE TypeOK'
  <2>1. PICK source \in SourcesFound(r), storage \in StoragesFound(r) :
          /\ IF "probe" \in report[r] THEN ProbeFor(storage) ELSE UNCHANGED <<stored, events>>
          /\ registered' = registered \/ registered' = registered \cup {Registration(r, source, storage)}
    BY <1>7 DEF Observe
  <2>2. /\ seen' = seen /\ due' = due /\ run' = run /\ report' = report /\ edits' = edits
        /\ dueRuns' = dueRuns \ {r}
    BY <1>7 DEF Observe
  <2>3. storage \in Storages
    BY DEF StoragesFound, Labelled
  <2>4. StoresOK'
    <3>1. CASE "probe" \in report[r]
      BY <1>1, <2>1, <2>2, <2>3, <3>1, ProbeKeepsTypes
    <3>2. CASE "probe" \notin report[r]
      <4>1. StoresStay
        BY <2>1, <2>2, <3>2 DEF StoresStay
      <4>2. QED
        BY <1>1, <2>2, <4>1, StoresStayTyped
    <3>3. QED
      BY <3>1, <3>2
  <2>5. Registration(r, source, storage).run = r
    BY DEF Registration
  <2>6. \A g \in registered' : g.run \in Runs
    BY <1>1, <2>1, <2>5 DEF RestOK
  <2>7. RestOK'
    BY <1>1, <2>2, <2>6 DEF RestOK, ReportOK, Finished
  <2>8. QED
    BY <2>4, <2>7, TypesAgain
<1>8. ASSUME NEW r \in Runs, ObserveHalf(r) PROVE TypeOK'
  <2>1. PICK storage \in StoragesFound(r) : ProbeFor(storage)
    BY <1>8 DEF ObserveHalf
  <2>2. /\ seen' = seen /\ due' = due /\ run' = run /\ report' = report /\ edits' = edits
        /\ dueRuns' = dueRuns /\ registered' = registered
    BY <1>8 DEF ObserveHalf
  <2>3. storage \in Storages
    BY DEF StoragesFound, Labelled
  <2>4. StoresOK'
    BY <1>1, <2>1, <2>2, <2>3, ProbeKeepsTypes
  <2>5. RestOK'
    BY <1>1, <2>2 DEF RestOK, ReportOK, Finished
  <2>6. QED
    BY <2>4, <2>5, TypesAgain
<1>9. ASSUME UNCHANGED vars PROVE TypeOK'
  <2>1. StoresStay /\ edits' = edits /\ RestOK'
    BY <1>1, <1>9 DEF vars, StoresStay, RestOK, ReportOK, Finished
  <2>2. QED
    BY <1>3, <2>1
<1>10. QED
  BY <1>2, <1>4, <1>5, <1>6, <1>7, <1>8, <1>9 DEF Next

(* Every object that is stored or cached is one that its kind allows, with  *)
(* a status that its controller or a job gave it; what is gone has none.    *)
THEOREM TypeCorrect == Spec => []TypeOK
<1>1. Init => TypeOK
  BY InitTypes
<1>2. TypeOK /\ [Next]_vars => TypeOK'
  BY StepTypes
<1>3. QED
  BY <1>1, <1>2, PTL DEF Spec

----------------------------------------------------------------------------
(* Configuration: what is registered *)

(* A plain name is the label that it is looked for by.                      *)
LEMMA LabelledPlainly ==
    ASSUME NEW names \in SUBSET Names, NEW name \in Names, IsPlain(name)
    PROVE  Labelled(names, name) = names \cap {name}
<1>1. name \in Seq(Range(name))
  BY NamesAssumption
<1>2. BuildLabelValue(name) = name
  BY <1>1, PlainNameIsItsLabel
<1>3. Labels[name] = name
  BY <1>2 DEF Labels
<1>4. QED
  BY <1>3 DEF Labelled

(* A run's labels are names of a source, a storage and a policy.            *)
LEMMA RunsAreNamed ==
    ASSUME NEW r \in Runs
    PROVE  /\ r.source \in Names /\ r.source \in Sources
           /\ r.storage \in Names /\ r.storage \in Storages
           /\ r.policy \in Names /\ r.policy \in DOMAIN RetentionOf
  BY ConfigurationAssumption DEF Names

(* Nothing but an edit changes a spec, and the cache only copies.           *)
SpecStays(o) ==
    /\ stored'[o].spec = stored[o].spec
    /\ seen'[o] = seen[o] \/ seen'[o] = stored[o]

(* One object is written, and its spec is what it was.                      *)
LEMMA SpecStored ==
    ASSUME TypeOK, seen' = seen, NEW o \in Objects, NEW p \in Objects, NEW object,
           object.spec = stored[p].spec, stored' = [stored EXCEPT ![p] = object]
    PROVE  SpecStays(o)
<1>1. stored = [q \in Objects |-> stored[q]]
  BY DEF TypeOK
<1>2. stored'[p] = object /\ \A q \in Objects : q # p => stored'[q] = stored[q]
  BY <1>1
<1>3. QED
  BY <1>2 DEF SpecStays

LEMMA ProbeKeepsSpecs ==
    ASSUME TypeOK, seen' = seen, NEW o \in Objects, NEW s \in Storages, ProbeFor(s)
    PROVE  SpecStays(o)
<1> DEFINE p == Storage(s)
<1>1. p \in Objects
  BY DEF Storage, Objects, Named
<1>2. Probed(stored[p]).spec = stored[p].spec
  <2>1. stored[p] \in Present(p)
    <3>1. StoresOK
      BY TypesInTwo
    <3>2. QED
      BY <1>1, <3>1, StoredIsThere DEF ProbeFor, Current
  <2>2. QED
    BY <2>1 DEF Probed, Present
<1>3. CASE stored' = stored
  BY <1>3 DEF SpecStays
<1>4. CASE stored' # stored
  <2>1. stored' = [stored EXCEPT ![p] = Probed(stored[p])]
    BY <1>4 DEF ProbeFor, Store
  <2> HIDE DEF p
  <2>2. QED
    BY <1>1, <1>2, <2>1, SpecStored
<1>5. QED
  BY <1>3, <1>4

LEMMA ReconcileKeepsSpecs ==
    ASSUME TypeOK, NEW o \in Objects, NEW p \in Objects, Reconcile(p)
    PROVE  SpecStays(o)
<1>1. seen' = seen
  BY DEF Reconcile
<1>2. CASE stored' = stored
  BY <1>1, <1>2 DEF SpecStays
<1>3. CASE stored' # stored
  <2> DEFINE object == Patched(stored[p], seen[p], StatusOf(p))
  <2>1. There(stored, p) /\ stored' = [stored EXCEPT ![p] = object]
    BY <1>3 DEF Reconcile, WriteStatus
  <2>2. stored[p] \in Present(p)
    <3>1. StoresOK
      BY TypesInTwo
    <3>2. QED
      BY <2>1, <3>1, StoredIsThere
  <2>3. object.spec = stored[p].spec
    BY <2>2 DEF Patched, Present
  <2> HIDE DEF object
  <2>4. QED
    BY <1>1, <2>1, <2>3, SpecStored
<1>4. QED
  BY <1>2, <1>3

LEMMA SpecStep ==
    ASSUME TypeOK, [Next]_vars, NEW o \in Objects \ Editable
    PROVE  SpecStays(o)
<1>1. ASSUME stored' = stored, seen' = seen PROVE SpecStays(o)
  BY <1>1 DEF SpecStays
<1>2. stored = [q \in Objects |-> stored[q]] /\ seen = [q \in Objects |-> seen[q]]
  BY DEF TypeOK
<1>3. ASSUME NEW p \in Objects, Apply(p) \/ Delete(p) PROVE SpecStays(o)
  <2>1. p # o /\ seen' = seen /\ \E object : stored' = [stored EXCEPT ![p] = object]
    BY <1>3 DEF Apply, Delete, Store
  <2>2. QED
    BY <1>2, <2>1 DEF SpecStays
<1>4. ASSUME NEW p \in Objects, Notice(p) PROVE SpecStays(o)
  <2>1. stored' = stored /\ seen' = [seen EXCEPT ![p] = stored[p]]
    BY <1>4 DEF Notice
  <2>2. QED
    BY <1>2, <2>1 DEF SpecStays
<1>5. ASSUME NEW s \in Storages, RecordProbe(s) PROVE SpecStays(o)
  <2>1. ProbeFor(s) /\ seen' = seen
    BY <1>5 DEF RecordProbe, ProbeFor
  <2>2. QED
    BY <2>1, ProbeKeepsSpecs
<1>6. ASSUME NEW r \in Runs, Observe(r) \/ ObserveHalf(r) PROVE SpecStays(o)
  <2>1. seen' = seen /\ (stored' = stored \/ \E storage \in StoragesFound(r) : ProbeFor(storage))
    BY <1>6 DEF Observe, ObserveHalf
  <2>2. StoragesFound(r) \subseteq Storages
    BY DEF StoragesFound, Labelled
  <2>3. QED
    BY <1>1, <2>1, <2>2, ProbeKeepsSpecs
<1>7. ASSUME NEW r \in Runs, RunEnds(r) \/ LosePod(r) \/ CollectRun(r) \/ Drop(r) PROVE SpecStays(o)
  BY <1>1, <1>7 DEF RunEnds, LosePod, CollectRun, Drop
<1>8. CASE Resync \/ UNCHANGED vars
  BY <1>1, <1>8 DEF Resync, vars
<1>9. QED
  BY <1>3, <1>4, <1>5, <1>6, <1>7, <1>8, ReconcileKeepsSpecs DEF Next

(* A retention policy that stays is known to JobObserver with its spec.     *)
LastingKept ==
    \A o \in Lasting : stored[o].spec = Settled(o).spec /\ seen[o].spec = Settled(o).spec

LEMMA LastingInit == Init => LastingKept
<1>1. SUFFICES ASSUME Init, NEW o \in Lasting PROVE stored[o] = Settled(o) /\ seen[o] = Settled(o)
  BY DEF LastingKept
<1>2. o \in Deployed /\ o \in Objects
  BY ConfigurationAssumption DEF Lasting
<1>3. QED
  BY <1>1, <1>2 DEF Init

LEMMA LastingStep == ASSUME TypeOK, LastingKept, [Next]_vars PROVE LastingKept'
<1>1. SUFFICES ASSUME NEW o \in Lasting
      PROVE stored'[o].spec = Settled(o).spec /\ seen'[o].spec = Settled(o).spec
  BY DEF LastingKept
<1>2. o \in Objects \ Editable
  BY ConfigurationAssumption DEF Lasting
<1>3. SpecStays(o)
  BY <1>2, SpecStep
<1>4. QED
  BY <1>3 DEF LastingKept, SpecStays

KeepAsAsked(g) ==
    LET retention == <<"RetentionPolicy", RetentionOf[g.run.policy]>>
    IN IsPlain(g.run.policy) /\ retention \in Lasting => g.keep = KeepOf(Settled(retention))

AsRun(g) ==
    /\ IsPlain(g.run.source) => g.source = g.run.source
    /\ IsPlain(g.run.storage) => g.storage = g.run.storage
    /\ KeepAsAsked(g)

(* The retention found for a run of a plain policy is the one that the      *)
(* policy names, if that one stays.                                         *)
LEMMA KeptAsAsked ==
    ASSUME LastingKept, NEW r \in Runs, IsPlain(r.policy),
           <<"RetentionPolicy", RetentionOf[r.policy]>> \in Lasting
    PROVE  KeepLast(r) = KeepOf(Settled(<<"RetentionPolicy", RetentionOf[r.policy]>>))
<1> DEFINE t          == <<"RetentionPolicy", RetentionOf[r.policy]>>
           policies   == Labelled(DOMAIN RetentionOf, r.policy)
           named      == {<<"RetentionPolicy", RetentionOf[p]>> : p \in policies}
           retentions == {u \in named : u \in Objects /\ There(seen, u)}
<1>1. policies = {r.policy}
  <2>1. DOMAIN RetentionOf \in SUBSET Names
    BY DEF Names
  <2>2. QED
    BY <2>1, RunsAreNamed, LabelledPlainly
<1>2. named = {t}
  BY <1>1
<1>3. KeepLast(r) = IF retentions = {} THEN DefaultKeepLast
                    ELSE KeepOf(seen[CHOOSE u \in retentions : TRUE])
  BY DEF KeepLast
<1>4. t \in Lasting
  OBVIOUS
<1> HIDE DEF t, policies, named
<1>5. seen[t].spec = Settled(t).spec
  BY <1>4 DEF LastingKept
<1>6. t \in Objects /\ There(seen, t)
  <2>1. t \in Deployed /\ t \in Objects
    BY <1>4, ConfigurationAssumption DEF Lasting
  <2> DEFINE spec == CHOOSE spec \in SpecsOf[t[1]] : Valid(t[1], spec)
  <2>2. spec \in SpecsOf[t[1]] /\ None \notin SpecsOf[t[1]]
    BY <2>1, ConfigurationAssumption
  <2>3. Settled(t).spec = spec
    <3>1. Settled(t) = [Fresh(spec) EXCEPT !.observed = 1, !.phase = "Configured",
                          !.probe = IF t[1] = "BackupStorage" THEN "Succeeded" ELSE ""]
      BY DEF Settled
    <3> HIDE DEF spec
    <3>2. QED
      BY <3>1 DEF Fresh
  <2> HIDE DEF spec
  <2>4. QED
    BY <1>5, <2>1, <2>2, <2>3 DEF There
<1>7. retentions = {t}
  BY <1>2, <1>6
<1> HIDE DEF retentions
<1>8. KeepLast(r) = KeepOf(seen[t])
  <2>1. (CHOOSE u \in retentions : TRUE) = t
    BY <1>7
  <2>2. retentions # {}
    BY <1>7
  <2>3. QED
    BY <1>3, <2>1, <2>2
<1>9. KeepOf(seen[t]) = KeepOf(Settled(t))
  BY <1>5 DEF KeepOf
<1>10. QED
  BY <1>8, <1>9 DEF t

(* What JobObserver registers for a run is as the run is.                   *)
LEMMA RegistrationAsRun ==
    ASSUME LastingKept, NEW r \in Runs,
           NEW source \in SourcesFound(r), NEW storage \in StoragesFound(r)
    PROVE  AsRun(Registration(r, source, storage))
<1> DEFINE g == Registration(r, source, storage)
<1>1. g.run = r /\ g.source = source /\ g.storage = storage /\ g.keep = KeepLast(r)
  BY DEF Registration
<1> HIDE DEF g
<1>2. source \in Labelled(Sources, r.source) /\ storage \in Labelled(Storages, r.storage)
  BY DEF SourcesFound, StoragesFound
<1>3. Sources \in SUBSET Names /\ Storages \in SUBSET Names
  BY DEF Names
<1>4. IsPlain(r.source) => source = r.source
  BY <1>2, <1>3, RunsAreNamed, LabelledPlainly
<1>5. IsPlain(r.storage) => storage = r.storage
  BY <1>2, <1>3, RunsAreNamed, LabelledPlainly
<1>6. KeepAsAsked(g)
  BY <1>1, KeptAsAsked DEF KeepAsAsked
<1>7. AsRun(g)
  BY <1>1, <1>4, <1>5, <1>6 DEF AsRun
<1>8. QED
  BY <1>7 DEF g

(* Only Observe registers anything.                                         *)
LEMMA RegisteredStep ==
    ASSUME TypeOK, LastingKept, RegisteredAsRun, [Next]_vars
    PROVE  RegisteredAsRun'
<1>1. \A g \in registered : AsRun(g)
  BY DEF RegisteredAsRun, AsRun, KeepAsAsked
<1>2. ASSUME NEW g \in registered', g \notin registered PROVE AsRun(g)
  <2>1. PICK r \in Runs : Observe(r)
    BY <1>2 DEF Next, vars, Apply, Delete, Notice, Reconcile, Resync, RecordProbe, RunEnds,
                LosePod, CollectRun, ObserveHalf, Drop
  <2>2. PICK source \in SourcesFound(r), storage \in StoragesFound(r) :
          registered' = registered \/ registered' = registered \cup {Registration(r, source, storage)}
    BY <2>1 DEF Observe
  <2>3. g = Registration(r, source, storage)
    BY <1>2, <2>2
  <2>4. QED
    BY <2>3, RegistrationAsRun
<1>3. \A g \in registered' : AsRun(g)
  BY <1>1, <1>2
<1>4. QED
  BY <1>3 DEF RegisteredAsRun, AsRun, KeepAsAsked

(* JobObserver records a scheduled run whose names are plain under its own  *)
(* source and storage, and prunes by the very retention that its policy     *)
(* names while that one stays: no other name is taken for a plain one, no   *)
(* edit of another object gets in between, and an old cache does not hide   *)
(* what has long been there.                                                *)
THEOREM RunsAreRegisteredAsThemselves == Spec => []RegisteredAsRun
<1>1. Init => TypeOK /\ LastingKept /\ RegisteredAsRun
  <2>1. Init => RegisteredAsRun
    BY DEF Init, RegisteredAsRun
  <2>2. QED
    BY <2>1, InitTypes, LastingInit
<1>2. TypeOK /\ LastingKept /\ RegisteredAsRun /\ [Next]_vars
        => (TypeOK /\ LastingKept /\ RegisteredAsRun)'
  BY StepTypes, LastingStep, RegisteredStep
<1>3. QED
  BY <1>1, <1>2, PTL DEF Spec

InputIs == input = <<>> \/ input \in Inputs

(* The paths that are asked about are sequences of segments.                *)
LEMMA AskedPaths ==
    ASSUME InputIs, Asked("path")
    PROVE  \E Segments : input.path \in Seq(Segments)
<1>1. input # <<>>
  <2>1. DOMAIN <<>> = {}
    OBVIOUS
  <2>2. QED
    BY <2>1 DEF Asked
<1>2. \A x \in [names : {MCNames}] : DOMAIN x = {"names"}
  OBVIOUS
<1>3. \A x \in [source : MCRenderedSources, storage : MCRenderedStorages, template : MCTemplateEnvs] :
         DOMAIN x = {"source", "storage", "template"}
  OBVIOUS
<1>4. input \in [path : MCPaths]
  <2>1. \/ input \in [names : {MCNames}] \/ input \in [path : MCPaths]
        \/ input \in [source : MCRenderedSources, storage : MCRenderedStorages,
                      template : MCTemplateEnvs]
    BY <1>1 DEF InputIs, Inputs
  <2>2. "path" \notin {"names"} /\ "path" \notin {"source", "storage", "template"}
    OBVIOUS
  <2>3. "path" \in DOMAIN input
    BY DEF Asked
  <2>4. QED
    BY <1>2, <1>3, <2>1, <2>2, <2>3, Zenon
<1>5. input.path \in MCPaths
  BY <1>4
<1> DEFINE Segments == {"", ".", "..", "a", "b"}
<1>6. PICK n \in 1..MaxSegments : input.path \in [1..n -> Segments]
  BY <1>5 DEF MCPaths
<1>7. n \in Nat
  BY MaxSegmentsAssumption
<1> HIDE DEF Segments
<1>8. input.path \in Seq(Segments)
  BY <1>6, <1>7
<1>9. QED
  BY <1>8

(* Asking about an input, before anything happens, is a stutter for the     *)
(* configuration: what is proved of Spec holds of MCSpec.                   *)
THEOREM AskingChangesNothing == MCSpec => Spec
<1>1. MCInit => Init
  BY DEF MCInit
<1>2. [Ask \/ Forget \/ Act]_<<vars, input>> => [Next]_vars
  BY DEF Ask, Forget, Act
<1>3. QED
  BY <1>1, <1>2, PTL DEF MCSpec, Spec

(* RestoreImportSource.ValidateBasic and NormalizedPath never let an import *)
(* out of the root of its storage.                                          *)
THEOREM ImportsAreKeptInside == MCSpec => []ImportsStayInside
<1>1. MCInit => InputIs
  BY DEF MCInit, InputIs
<1>2. InputIs /\ [Ask \/ Forget \/ Act]_<<vars, input>> => InputIs'
  BY DEF InputIs, Ask, Forget, Act, Inputs
<1>3. InputIs => ImportsStayInside
  <2>1. SUFFICES ASSUME InputIs, Asked("path") PROVE StaysInside(input.path)
    BY DEF ImportsStayInside
  <2>2. PICK Segments : input.path \in Seq(Segments)
    BY <2>1, AskedPaths
  <2>3. QED
    BY <2>2, PathsStayInside
<1>4. QED
  BY <1>1, <1>2, <1>3, PTL DEF MCSpec

(* Two finite sets are one.                                                 *)
LEMMA BothFinite ==
    ASSUME NEW S, IsFiniteSet(S), NEW T, IsFiniteSet(T)
    PROVE  IsFiniteSet(S \cup T)
  BY FS_Union

(* Sequences of one length over a finite set are finitely many.             *)
LEMMA FinitelyMany ==
    ASSUME NEW C, IsFiniteSet(C)
    PROVE  IsFiniteSet([1..1 -> C]) /\ IsFiniteSet([1..2 -> C]) /\ IsFiniteSet([1..3 -> C])
<1>1. ASSUME NEW k \in Nat, IsFiniteSet([1..k -> C]) PROVE IsFiniteSet([1..(k + 1) -> C])
  <2> DEFINE D == [1..k -> C]
             f == [x \in D \X C |-> [i \in 1..(k + 1) |-> IF i = k + 1 THEN x[2] ELSE x[1][i]]]
  <2>1. IsFiniteSet(D \X C)
    BY <1>1, FS_Product
  <2>2. ASSUME NEW s \in [1..(k + 1) -> C] PROVE \E x \in D \X C : s = f[x]
    <3> DEFINE x == <<[i \in 1..k |-> s[i]], s[k + 1]>>
    <3>1. x \in D \X C
      <4>1. \A i \in 1..k : i \in 1..(k + 1)
        OBVIOUS
      <4>2. k + 1 \in 1..(k + 1)
        OBVIOUS
      <4>3. QED
        BY <1>1, <4>1, <4>2
    <3>2. f[x] = [i \in 1..(k + 1) |-> IF i = k + 1 THEN s[k + 1] ELSE s[i]]
      <4>1. \A i \in 1..(k + 1) : i # k + 1 => i \in 1..k
        OBVIOUS
      <4>2. QED
        BY <3>1, <4>1
    <3>3. s = f[x]
      BY <3>2
    <3>4. QED
      BY <3>1, <3>3
  <2>3. DOMAIN f = D \X C
    OBVIOUS
  <2> HIDE DEF f
  <2>4. IsFiniteSet({f[x] : x \in D \X C})
    BY <2>1, <2>3, ImageIsFinite
  <2>5. [1..(k + 1) -> C] \subseteq {f[x] : x \in D \X C}
    BY <2>2
  <2>6. QED
    BY <2>4, <2>5, FS_Subset
<1>2. IsFiniteSet([1..0 -> C])
  <2>1. [1..0 -> C] \subseteq {<<>>}
    OBVIOUS
  <2>2. IsFiniteSet({<<>>})
    BY FS_Singleton
  <2>3. QED
    BY <2>1, <2>2, FS_Subset
<1>3. IsFiniteSet([1..1 -> C])
  <2>1. IsFiniteSet([1..(0 + 1) -> C])
    BY <1>1, <1>2, Zenon
  <2>2. 1..(0 + 1) = 1..1
    OBVIOUS
  <2>3. QED
    BY <2>1, <2>2, Zenon
<1>4. IsFiniteSet([1..2 -> C])
  <2>1. IsFiniteSet([1..(1 + 1) -> C])
    BY <1>1, <1>3, Zenon
  <2>2. 1..(1 + 1) = 1..2
    OBVIOUS
  <2>3. QED
    BY <2>1, <2>2, Zenon
<1>5. IsFiniteSet([1..3 -> C])
  <2>1. IsFiniteSet([1..(2 + 1) -> C])
    BY <1>1, <1>4, Zenon
  <2>2. 1..(2 + 1) = 1..3
    OBVIOUS
  <2>3. QED
    BY <2>1, <2>2, Zenon
<1>6. QED
  BY <1>3, <1>4, <1>5

(* The names that are asked about are finitely many, and lists.             *)
LEMMA AskedNamesAreProper == ProperNames(MCNames)
<1> DEFINE C     == Letters \cup {"-", "."}
           short == UNION {[1..k -> C] : k \in 1..3}
           long  == {<<"a", "-", "-", "b">>, <<"a", "b", ".", "a", "a">>,
                     <<"a", ".", "b", ".", "a", ".", "b", ".", "a">>,
                     <<"a", ".", "b", ".", "a", ".", "b", ".", "b">>,
                     <<"a", ".", "b", ".", "a", ".", "b", ".", "b", ".", "b">>}
<1>1. MCNames \subseteq short \cup long
  BY DEF MCNames
<1>2. IsFiniteSet(C)
  <2>1. C = {"a"} \cup {"b"} \cup {"-"} \cup {"."}
    BY DEF Letters
  <2>2. QED
    BY <2>1, FS_Singleton, BothFinite
<1>3. IsFiniteSet(short)
  <2> HIDE DEF C
  <2>1. short = [1..1 -> C] \cup [1..2 -> C] \cup [1..3 -> C]
    <3>1. 1..3 = {1, 2, 3}
      OBVIOUS
    <3>2. QED
      BY <3>1
  <2>2. IsFiniteSet([1..1 -> C]) /\ IsFiniteSet([1..2 -> C]) /\ IsFiniteSet([1..3 -> C])
    BY <1>2, FinitelyMany
  <2>3. IsFiniteSet([1..1 -> C] \cup [1..2 -> C])
    BY <2>2, BothFinite
  <2>4. IsFiniteSet([1..1 -> C] \cup [1..2 -> C] \cup [1..3 -> C])
    BY <2>2, <2>3, BothFinite, Zenon
  <2>5. QED
    BY <2>1, <2>4
<1>4. IsFiniteSet(long)
  <2>1. ASSUME NEW a, NEW b, NEW c, NEW d, NEW e PROVE IsFiniteSet({a, b, c, d, e})
    <3>1. {a, b, c, d, e} = (({a} \cup {b}) \cup ({c} \cup {d})) \cup {e}
      OBVIOUS
    <3>2. IsFiniteSet({a} \cup {b}) /\ IsFiniteSet({c} \cup {d})
      BY FS_Singleton, BothFinite
    <3>3. IsFiniteSet(({a} \cup {b}) \cup ({c} \cup {d}))
      BY <3>2, BothFinite
    <3>4. IsFiniteSet({e})
      BY FS_Singleton
    <3>5. IsFiniteSet((({a} \cup {b}) \cup ({c} \cup {d})) \cup {e})
      BY <3>3, <3>4, BothFinite, Zenon
    <3>6. QED
      BY <3>1, <3>5
  <2>2. QED
    BY <2>1
<1>5. ASSUME NEW n \in short PROVE IsList(n)
  <2> HIDE DEF C
  <2>1. PICK k \in 1..3 : n \in [1..k -> C]
    OBVIOUS
  <2>2. n \in Seq(C)
    BY <2>1
  <2>3. QED
    BY <2>2, ListOf
<1>6. ASSUME NEW n \in long PROVE IsList(n)
  <2>1. "a" \in C /\ "b" \in C /\ "-" \in C /\ "." \in C
    BY DEF Letters
  <2> HIDE DEF C
  <2>2. CASE n = <<"a", "-", "-", "b">>
    <3>1. n \in Seq(C)
      BY <2>1, <2>2
    <3>2. QED
      BY <3>1, ListOf
  <2>3. CASE n = <<"a", "b", ".", "a", "a">>
    <3>1. n \in Seq(C)
      BY <2>1, <2>3
    <3>2. QED
      BY <3>1, ListOf
  <2>4. CASE n = <<"a", ".", "b", ".", "a", ".", "b", ".", "a">>
    <3>1. n \in Seq(C)
      BY <2>1, <2>4
    <3>2. QED
      BY <3>1, ListOf
  <2>5. CASE n = <<"a", ".", "b", ".", "a", ".", "b", ".", "b">>
    <3>1. n \in Seq(C)
      BY <2>1, <2>5
    <3>2. QED
      BY <3>1, ListOf
  <2>6. CASE n = <<"a", ".", "b", ".", "a", ".", "b", ".", "b", ".", "b">>
    <3>1. n \in Seq(C)
      BY <2>1, <2>6
    <3>2. QED
      BY <3>1, ListOf
  <2>7. QED
    BY <2>2, <2>3, <2>4, <2>5, <2>6
<1> HIDE DEF short, long
<1>7. IsFiniteSet(MCNames)
  BY <1>1, <1>3, <1>4, BothFinite, FS_Subset
<1>8. \A n \in MCNames : IsList(n)
  BY <1>1, <1>5, <1>6
<1>9. QED
  BY <1>7, <1>8, MCHashesAssumption DEF ProperNames

(* Once names are asked about, the input is all of them.                    *)
LEMMA AskedNames ==
    ASSUME InputIs, Asked("names")
    PROVE  input.names = MCNames
<1>1. input # <<>>
  <2>1. DOMAIN <<>> = {}
    OBVIOUS
  <2>2. QED
    BY <2>1 DEF Asked
<1>2. \A x \in [path : MCPaths] : DOMAIN x = {"path"}
  OBVIOUS
<1>3. \A x \in [source : MCRenderedSources, storage : MCRenderedStorages, template : MCTemplateEnvs] :
         DOMAIN x = {"source", "storage", "template"}
  OBVIOUS
<1>4. input \in [names : {MCNames}]
  <2>1. \/ input \in [names : {MCNames}] \/ input \in [path : MCPaths]
        \/ input \in [source : MCRenderedSources, storage : MCRenderedStorages,
                      template : MCTemplateEnvs]
    BY <1>1 DEF InputIs, Inputs
  <2>2. "names" \notin {"path"} /\ "names" \notin {"source", "storage", "template"}
    OBVIOUS
  <2>3. "names" \in DOMAIN input
    BY DEF Asked
  <2>4. QED
    BY <1>2, <1>3, <2>1, <2>2, <2>3, Zenon
<1>5. input.names \in {MCNames}
  BY <1>4
<1>6. QED
  BY <1>5

(* The objects of any two names are told apart, or taken for one, by the    *)
(* words of the names alone (naming.go).                                   *)
THEOREM ObjectsAreToldApart == MCSpec => []NamesTellApart
<1>1. MCInit => InputIs
  BY DEF MCInit, InputIs
<1>2. InputIs /\ [Ask \/ Forget \/ Act]_<<vars, input>> => InputIs'
  BY DEF InputIs, Ask, Forget, Act, Inputs
<1>3. InputIs => NamesTellApart
  BY AskedNames, AskedNamesAreProper, NamesAreToldApart DEF NamesTellApart
<1>4. QED
  BY <1>1, <1>2, <1>3, PTL DEF MCSpec

----------------------------------------------------------------------------
(* Environments: lists of variables, or of references, of which for each    *)
(* name the last one counts.                                               *)

Has(e, n) == Positions(e, n) # {}

Latest(e, n) == e[LastOf(Positions(e, n))]

(* c is like a, but for the names in b, where it is like b.                 *)
Later(c, a, b) ==
    /\ IsList(c)
    /\ \A n : Has(c, n) <=> Has(a, n) \/ Has(b, n)
    /\ \A n : Has(b, n) => Latest(c, n) = Latest(b, n)
    /\ \A n : Has(a, n) /\ ~Has(b, n) => Latest(c, n) = Latest(a, n)

(* What a container sees is the latest.                                     *)
LEMMA LatestIs ==
    ASSUME NEW e, IsList(e), NEW n, Has(e, n)
    PROVE  /\ LastOf(Positions(e, n)) \in 1..Len(e) /\ Latest(e, n).name = n
           /\ \A j \in 1..Len(e) : e[j].name = n => j <= LastOf(Positions(e, n))
<1>1. Positions(e, n) \in SUBSET (1..Len(e)) /\ Len(e) \in Nat
  BY ListIs DEF Positions
<1>2. \E m \in Positions(e, n) : \A j \in Positions(e, n) : j <= m
  BY <1>1, LastPosition DEF Has
<1>3. /\ LastOf(Positions(e, n)) \in Positions(e, n)
      /\ \A j \in Positions(e, n) : j <= LastOf(Positions(e, n))
  BY <1>2, Zenon DEF LastOf
<1>4. QED
  BY <1>1, <1>3, ListIs DEF Positions, Latest

(* The last one of a name is the one that no other follows.                 *)
LEMMA LatestAt ==
    ASSUME NEW e, IsList(e), NEW i \in 1..Len(e),
           \A j \in 1..Len(e) : e[j].name = e[i].name => j <= i
    PROVE  Has(e, e[i].name) /\ Latest(e, e[i].name) = e[i]
<1> DEFINE n == e[i].name
<1>1. i \in Positions(e, n)
  BY ListIs DEF Positions
<1>2. Has(e, n)
  BY <1>1 DEF Has
<1>3. LastOf(Positions(e, n)) \in 1..Len(e) /\ e[LastOf(Positions(e, n))].name = n
  BY <1>2, LatestIs DEF Latest
<1>4. i <= LastOf(Positions(e, n)) /\ LastOf(Positions(e, n)) <= i
  BY <1>2, <1>3, LatestIs
<1>5. LastOf(Positions(e, n)) = i
  BY <1>3, <1>4, ListIs
<1>6. QED
  BY <1>2, <1>5 DEF Latest

(* A list has a name when one of its members does.                          *)
LEMMA HasIs ==
    ASSUME NEW e, IsList(e), NEW n
    PROVE  Has(e, n) <=> \E i \in 1..Len(e) : e[i].name = n
  BY ListIs DEF Has, Positions

(* What a container sees is the value of the latest variable of a name.     *)
LEMMA SeesLatest ==
    ASSUME NEW e, NEW n
    PROVE  Sees(e, n) = IF Has(e, n) THEN Latest(e, n).value ELSE None
  BY DEF Sees, Has, Latest

(* Whatever comes at the end of a list comes later.                         *)
LEMMA JoinIsLater ==
    ASSUME NEW a, NEW b, IsList(a), IsList(b)
    PROVE  Later(a \o b, a, b)
<1> DEFINE V == Range(a) \cup Range(b)
           c == a \o b
<1>1. a \in Seq(V) /\ b \in Seq(V)
  BY DEF IsList
<1>2. /\ Len(c) = Len(a) + Len(b) /\ Len(a) \in Nat /\ Len(b) \in Nat /\ c \in Seq(V)
      /\ \A i \in 1..Len(a) : c[i] = a[i]
      /\ \A i \in 1..Len(b) : c[Len(a) + i] = b[i]
  <2> HIDE DEF V
  <2>1. QED
    BY <1>1
<1> HIDE DEF c, V
<1>3. IsList(c)
  BY <1>2, ListOf
<1>4. ASSUME NEW i \in 1..Len(c)
      PROVE  \/ i \in 1..Len(a) /\ c[i] = a[i]
             \/ i - Len(a) \in 1..Len(b) /\ c[i] = b[i - Len(a)]
  <2>1. CASE i <= Len(a)
    BY <1>2, <2>1
  <2>2. CASE i > Len(a)
    <3>1. i - Len(a) \in 1..Len(b) /\ Len(a) + (i - Len(a)) = i
      BY <1>2, <2>2
    <3>2. QED
      BY <1>2, <3>1
  <2>3. QED
    BY <1>2, <2>1, <2>2
<1>5. ASSUME NEW n PROVE Has(c, n) <=> Has(a, n) \/ Has(b, n)
  <2>1. \A i \in 1..Len(a) : i \in 1..Len(c)
    BY <1>2
  <2>2. \A i \in 1..Len(b) : Len(a) + i \in 1..Len(c)
    BY <1>2
  <2>3. ASSUME NEW i \in 1..Len(c), c[i].name = n PROVE Has(a, n) \/ Has(b, n)
    BY <1>4, <2>3, HasIs
  <2>4. ASSUME NEW i \in 1..Len(a), a[i].name = n PROVE Has(c, n)
    BY <1>2, <1>3, <2>1, <2>4, HasIs
  <2>5. ASSUME NEW i \in 1..Len(b), b[i].name = n PROVE Has(c, n)
    BY <1>2, <1>3, <2>2, <2>5, HasIs
  <2>6. QED
    BY <1>3, <2>3, <2>4, <2>5, HasIs
<1>6. ASSUME NEW n, Has(b, n) PROVE Latest(c, n) = Latest(b, n)
  <2> DEFINE k == LastOf(Positions(b, n))
  <2>1. k \in 1..Len(b) /\ b[k].name = n /\ \A j \in 1..Len(b) : b[j].name = n => j <= k
    BY <1>6, LatestIs DEF Latest
  <2>2. b[k] = Latest(b, n)
    BY DEF Latest
  <2> HIDE DEF k
  <2>3. Len(a) + k \in 1..Len(c) /\ c[Len(a) + k] = b[k]
    BY <1>2, <2>1
  <2>4. ASSUME NEW j \in 1..Len(c), c[j].name = n PROVE j <= Len(a) + k
    <3>1. CASE j \in 1..Len(a)
      BY <1>2, <2>1, <3>1
    <3>2. CASE j - Len(a) \in 1..Len(b) /\ c[j] = b[j - Len(a)]
      <4>1. j - Len(a) <= k
        BY <2>1, <2>4, <3>2
      <4>2. QED
        BY <1>2, <2>1, <3>2, <4>1
    <3>3. QED
      BY <1>4, <3>1, <3>2
  <2>5. Latest(c, n) = c[Len(a) + k]
    BY <1>3, <2>1, <2>3, <2>4, LatestAt
  <2>6. QED
    BY <2>2, <2>3, <2>5
<1>7. ASSUME NEW n, Has(a, n), ~Has(b, n) PROVE Latest(c, n) = Latest(a, n)
  <2> DEFINE k == LastOf(Positions(a, n))
  <2>1. k \in 1..Len(a) /\ a[k].name = n /\ \A j \in 1..Len(a) : a[j].name = n => j <= k
    BY <1>7, LatestIs DEF Latest
  <2>2. a[k] = Latest(a, n)
    BY DEF Latest
  <2> HIDE DEF k
  <2>3. k \in 1..Len(c) /\ c[k] = a[k]
    BY <1>2, <2>1
  <2>4. ASSUME NEW j \in 1..Len(c), c[j].name = n PROVE j <= k
    <3>1. ~ \E i \in 1..Len(b) : b[i].name = n
      BY <1>7, HasIs
    <3>2. QED
      BY <1>4, <2>1, <2>4, <3>1
  <2>5. Latest(c, n) = c[k]
    BY <1>3, <2>1, <2>3, <2>4, LatestAt
  <2>6. QED
    BY <2>2, <2>3, <2>5
<1>8. QED
  BY <1>3, <1>5, <1>6, <1>7 DEF Later, c

(* A list of one.                                                           *)
LEMMA OneVariable ==
    ASSUME NEW v
    PROVE  /\ IsList(<<v>>) /\ \A n : Has(<<v>>, n) <=> n = v.name
           /\ Latest(<<v>>, v.name) = v
<1>1. <<v>> \in Seq({v}) /\ Len(<<v>>) = 1 /\ <<v>>[1] = v
  OBVIOUS
<1>2. IsList(<<v>>)
  BY <1>1, ListOf
<1> DEFINE e == <<v>>
<1>3. \A n : Has(e, n) <=> n = v.name
  <2>1. ASSUME NEW n PROVE Has(e, n) <=> \E i \in 1..1 : e[i].name = n
    BY <1>1, <1>2, HasIs
  <2>2. ASSUME NEW n PROVE (\E i \in 1..1 : e[i].name = n) <=> n = v.name
    BY <1>1
  <2> HIDE DEF e
  <2>3. QED
    BY <2>1, <2>2
<1>4. Latest(e, v.name) = v
  <2>1. 1 \in 1..Len(e) /\ e[1] = v /\ IsList(e)
    BY <1>1, <1>2
  <2>2. \A j \in 1..Len(e) : e[j].name = v.name => j <= 1
    BY <1>1
  <2> HIDE DEF e
  <2>3. QED
    BY <2>1, <2>2, LatestAt
<1>5. QED
  BY <1>2, <1>3, <1>4

(* The empty list has no variable.                                          *)
LEMMA NoVariable ==
    IsList(<<>>) /\ \A n : ~Has(<<>>, n)
<1>1. <<>> \in Seq({}) /\ Len(<<>>) = 0
  OBVIOUS
<1>2. IsList(<<>>)
  BY <1>1, ListOf
<1>3. QED
  BY <1>1, <1>2, HasIs

(* A variable that is put takes the place of the latest of its name.        *)
LEMMA PutIsLater ==
    ASSUME NEW V, NEW a \in Seq(V), NEW v \in V
    PROVE  Put(a, v) \in Seq(V) /\ Later(Put(a, v), a, <<v>>)
<1> DEFINE at == Positions(a, v.name)
<1>0. IsList(a) /\ Len(a) \in Nat
  BY ListOf
<1>1. CASE at = {}
  <2>1. Put(a, v) = a \o <<v>>
    BY <1>1 DEF Put
  <2>2. a \o <<v>> \in Seq(V)
    OBVIOUS
  <2>3. QED
    BY <1>0, <2>1, <2>2, JoinIsLater, OneVariable
<1>2. CASE at # {}
  <2> DEFINE k == LastOf(at)
             c == [a EXCEPT ![k] = v]
  <2>1. k \in 1..Len(a) /\ a[k].name = v.name /\ \A j \in 1..Len(a) : a[j].name = v.name => j <= k
    BY <1>0, <1>2, LatestIs DEF Has, Latest
  <2>2. Put(a, v) = c
    BY <1>2 DEF Put
  <2> HIDE DEF k
  <2>3. c \in Seq(V) /\ Len(c) = Len(a) /\ c[k] = v /\ \A i \in 1..Len(a) : i # k => c[i] = a[i]
    BY <2>1
  <2> HIDE DEF c
  <2>4. IsList(c)
    BY <2>3, ListOf
  <2>5. \A i \in 1..Len(a) : c[i].name = a[i].name
    BY <2>1, <2>3
  <2>6. \A n : Has(c, n) <=> Has(a, n) \/ Has(<<v>>, n)
    <3>1. \A n : Has(c, n) <=> Has(a, n)
      BY <1>0, <2>3, <2>4, <2>5, HasIs
    <3>2. Has(a, v.name)
      BY <1>0, <2>1, HasIs
    <3>3. QED
      BY <3>1, <3>2, OneVariable
  <2>7. Latest(c, v.name) = v
    <3>1. c[k].name = v.name /\ \A j \in 1..Len(c) : c[j].name = v.name => j <= k
      BY <2>1, <2>3, <2>5
    <3>2. QED
      BY <2>1, <2>3, <2>4, <3>1, LatestAt
  <2>8. ASSUME NEW n, Has(a, n), n # v.name PROVE Latest(c, n) = Latest(a, n)
    <3> DEFINE m == LastOf(Positions(a, n))
    <3>1. m \in 1..Len(a) /\ a[m].name = n /\ \A j \in 1..Len(a) : a[j].name = n => j <= m
      BY <1>0, <2>8, LatestIs DEF Latest
    <3>2. a[m] = Latest(a, n)
      BY DEF Latest
    <3> HIDE DEF m
    <3>3. m # k
      BY <2>1, <2>8, <3>1
    <3>4. c[m] = a[m] /\ c[m].name = n /\ \A j \in 1..Len(c) : c[j].name = n => j <= m
      BY <2>3, <2>5, <3>1, <3>3
    <3>5. m \in 1..Len(c)
      BY <2>3, <3>1
    <3>6. Latest(c, n) = c[m]
      BY <2>4, <3>4, <3>5, LatestAt
    <3>7. QED
      BY <3>2, <3>4, <3>6
  <2>9. Later(c, a, <<v>>)
    BY <2>4, <2>6, <2>7, <2>8, OneVariable DEF Later
  <2>10. QED
    BY <2>2, <2>3, <2>9
<1>3. QED
  BY <1>1, <1>2

(* No name twice. *)
Distinct(e) == \A i, j \in DOMAIN e : e[i].name = e[j].name => i = j

(* A variable that is put leaves no name twice.                             *)
LEMMA PutKeepsDistinct ==
    ASSUME NEW V, NEW a \in Seq(V), NEW v \in V, Distinct(a)
    PROVE  Distinct(Put(a, v))
<1> DEFINE at == Positions(a, v.name)
<1>0. IsList(a) /\ Len(a) \in Nat /\ DOMAIN a = 1..Len(a)
  BY ListOf
<1>1. CASE at = {}
  <2> DEFINE c == Append(a, v)
  <2>1. Put(a, v) = c
    BY <1>1 DEF Put
  <2>2. /\ DOMAIN c = 1..(Len(a) + 1) /\ c[Len(a) + 1] = v
        /\ \A i \in 1..Len(a) : c[i] = a[i]
    BY <1>0
  <2> HIDE DEF c
  <2>3. \A i \in 1..Len(a) : a[i].name # v.name
    BY <1>0, <1>1 DEF Positions
  <2>4. \A i \in DOMAIN c : i \in 1..Len(a) \/ i = Len(a) + 1
    BY <1>0, <2>2
  <2>5. Distinct(c)
    BY <1>0, <2>2, <2>3, <2>4 DEF Distinct
  <2>6. QED
    BY <2>1, <2>5
<1>2. CASE at # {}
  <2> DEFINE k == LastOf(at)
             c == [a EXCEPT ![k] = v]
  <2>1. k \in 1..Len(a) /\ a[k].name = v.name
    BY <1>0, <1>2, LatestIs DEF Has, Latest
  <2>2. Put(a, v) = c
    BY <1>2 DEF Put
  <2> HIDE DEF k
  <2>3. DOMAIN c = DOMAIN a /\ \A i \in 1..Len(a) : c[i].name = a[i].name
    BY <1>0, <2>1
  <2> HIDE DEF c
  <2>4. Distinct(c)
    BY <1>0, <2>3 DEF Distinct
  <2>5. QED
    BY <2>2, <2>4
<1>3. QED
  BY <1>1, <1>2

(* Where no name is twice, each variable is the latest of its name.         *)
LEMMA DistinctLatest ==
    ASSUME NEW e, IsList(e), Distinct(e), NEW i \in 1..Len(e)
    PROVE  Has(e, e[i].name) /\ Latest(e, e[i].name) = e[i]
<1>1. \A j \in 1..Len(e) : e[j].name = e[i].name => j = i
  BY ListIs DEF Distinct
<1>2. Len(e) \in Nat
  BY ListIs
<1>3. \A j \in 1..Len(e) : e[j].name = e[i].name => j <= i
  BY <1>1, <1>2
<1>4. QED
  BY <1>3, LatestAt

(* Later is transitive. *)
LEMMA LaterAfter ==
    ASSUME NEW a, NEW b, NEW b2, NEW x, NEW c, NEW c2,
           Later(c, a, b), Later(b2, b, x), Later(c2, c, x)
    PROVE  Later(c2, a, b2)
  BY DEF Later

(* mergeEnvVars: the overlay is later.                                      *)
LEMMA MergeIsLater ==
    ASSUME NEW a, NEW b, IsList(a), IsList(b)
    PROVE  /\ Later(MergeEnvVars(a, b), a, b)
           /\ Distinct(a) => Distinct(MergeEnvVars(a, b))
           /\ b = <<>> => MergeEnvVars(a, b) = a
<1> DEFINE V == Range(a) \cup Range(b)
           X == Seq(V)
           N == Len(b)
           step == [x \in (1..N) \X X |-> Put(x[2], b[x[1]])]
           Body(c) == [i \in 0..N |-> IF i = 0 THEN a ELSE Put(c[i - 1], b[i])]
           d == CHOOSE c : c = Body(c)
<1>0. MergeEnvVars(a, b) = d[N]
  BY DEF MergeEnvVars
<1>1. N \in Nat /\ a \in X /\ b \in X /\ \A i \in 1..N : b[i] \in V
  <2>1. a \in X /\ b \in X
    BY DEF IsList
  <2>2. QED
    BY <2>1
<1>2. step \in [(1..N) \X X -> X]
  <2>1. ASSUME NEW x \in (1..N) \X X PROVE Put(x[2], b[x[1]]) \in X
    <3>1. x[2] \in Seq(V) /\ b[x[1]] \in V
      BY <1>1
    <3> HIDE DEF V
    <3>2. QED
      BY <3>1, PutIsLater
  <2> HIDE DEF X, N
  <2>2. QED
    BY <2>1
<1> HIDE DEF X, N, V
<1>3. PICK f : Follows(f, N, a, X, step)
  <2> HIDE DEF step
  <2>1. QED
    BY <1>1, <1>2, Recursion
<1>4. ASSUME NEW i \in 1..N PROVE f[i] = Put(f[i - 1], b[i])
  <2>1. i - 1 \in 0..N
    BY <1>1
  <2>2. <<i, f[i - 1]>> \in (1..N) \X X
    BY <1>3, <2>1 DEF Follows
  <2>3. QED
    BY <1>3, <2>2 DEF Follows
<1>5. f = Body(f)
  BY <1>3, <1>4 DEF Follows
<1>6. d = Body(d)
  <2> HIDE DEF Body
  <2>1. QED
    BY <1>5
<1> HIDE DEF d, step
<1>7. d[0] = a /\ \A i \in Nat : i + 1 <= N => d[i + 1] = Put(d[i], b[i + 1]) /\ i + 1 \in 1..N
  <2>1. ASSUME NEW i \in Nat, i + 1 <= N PROVE d[i + 1] = Put(d[i], b[i + 1]) /\ i + 1 \in 1..N
    <3>1. i + 1 \in 1..N /\ i + 1 \in 0..N /\ (i + 1) - 1 = i /\ i + 1 # 0
      BY <1>1, <2>1
    <3>2. Body(d)[i + 1] = Put(d[i], b[i + 1])
      BY <3>1
    <3>3. QED
      BY <1>6, <3>1, <3>2
  <2>2. Body(d)[0] = a
    BY <1>1
  <2>3. QED
    BY <1>6, <2>1, <2>2
<1> HIDE DEF Body
<1> DEFINE S == {i \in Nat : i <= N =>
                    /\ d[i] \in Seq(V) /\ Later(d[i], a, SubSeq(b, 1, i))
                    /\ Distinct(a) => Distinct(d[i])}
<1>8. 0 \in S
  <2>1. SubSeq(b, 1, 0) = <<>>
    BY <1>1 DEF X
  <2>2. Later(a, a, <<>>)
    BY NoVariable DEF Later
  <2>3. a \in Seq(V)
    BY <1>1 DEF X
  <2>4. QED
    BY <1>7, <2>1, <2>2, <2>3
<1>9. ASSUME NEW i \in Nat, i \in S PROVE i + 1 \in S
  <2>1. SUFFICES ASSUME i + 1 <= N
                 PROVE  /\ d[i + 1] \in Seq(V) /\ Later(d[i + 1], a, SubSeq(b, 1, i + 1))
                        /\ Distinct(a) => Distinct(d[i + 1])
    OBVIOUS
  <2>2. i <= N /\ i + 1 \in 1..N /\ d[i + 1] = Put(d[i], b[i + 1]) /\ b[i + 1] \in V
    BY <1>1, <1>7, <2>1
  <2>3. /\ d[i] \in Seq(V) /\ Later(d[i], a, SubSeq(b, 1, i))
        /\ Distinct(a) => Distinct(d[i])
    BY <1>9, <2>2
  <2>4. /\ d[i + 1] \in Seq(V) /\ Later(d[i + 1], d[i], <<b[i + 1]>>)
        /\ Distinct(a) => Distinct(d[i + 1])
    BY <2>2, <2>3, PutIsLater, PutKeepsDistinct
  <2>5. /\ SubSeq(b, 1, i) \in Seq(V)
        /\ SubSeq(b, 1, i + 1) = SubSeq(b, 1, i) \o <<b[i + 1]>>
    <3>1. b \in Seq(V) /\ i + 1 \in 1..Len(b)
      BY <1>1, <2>2 DEF X, N
    <3>2. QED
      BY <3>1
  <2>6. Later(SubSeq(b, 1, i + 1), SubSeq(b, 1, i), <<b[i + 1]>>)
    BY <2>5, JoinIsLater, ListOf, OneVariable
  <2>7. QED
    BY <2>3, <2>4, <2>6, LaterAfter
<1>10. N \in S
  <2> HIDE DEF S
  <2>1. QED
    BY <1>1, <1>8, <1>9, Climb
<1>11. SubSeq(b, 1, N) = b
  BY <1>1 DEF X, N
<1>12. b = <<>> => N = 0
  BY DEF N
<1>13. Later(d[N], a, SubSeq(b, 1, N)) /\ (Distinct(a) => Distinct(d[N]))
  BY <1>1, <1>10
<1>14. QED
  BY <1>0, <1>7, <1>11, <1>12, <1>13

(* x is one of a list.                                                      *)
Among(x, list) == \E j \in 1..Len(list) : list[j] = x

(* What is in one list or in the other is in the two joined.                *)
LEMMA JoinedAmong ==
    ASSUME NEW V, NEW a \in Seq(V), NEW b \in Seq(V), NEW x
    PROVE  Among(x, a \o b) <=> Among(x, a) \/ Among(x, b)
<1> DEFINE c == a \o b
<1>1. /\ Len(c) = Len(a) + Len(b) /\ Len(a) \in Nat /\ Len(b) \in Nat
      /\ \A i \in 1..Len(a) : c[i] = a[i]
      /\ \A i \in 1..Len(b) : c[Len(a) + i] = b[i]
  OBVIOUS
<1> HIDE DEF c
<1>2. ASSUME NEW i \in 1..Len(a), a[i] = x PROVE Among(x, c)
  <2>1. i \in 1..Len(c) /\ c[i] = x
    BY <1>1, <1>2
  <2>2. QED
    BY <2>1 DEF Among
<1>3. ASSUME NEW i \in 1..Len(b), b[i] = x PROVE Among(x, c)
  <2>1. Len(a) + i \in 1..Len(c) /\ c[Len(a) + i] = x
    BY <1>1, <1>3
  <2>2. QED
    BY <2>1 DEF Among
<1>4. ASSUME NEW i \in 1..Len(c), c[i] = x PROVE Among(x, a) \/ Among(x, b)
  <2>1. CASE i <= Len(a)
    <3>1. i \in 1..Len(a) /\ a[i] = x
      BY <1>1, <1>4, <2>1
    <3>2. QED
      BY <3>1 DEF Among
  <2>2. CASE i > Len(a)
    <3>1. i - Len(a) \in 1..Len(b) /\ Len(a) + (i - Len(a)) = i
      BY <1>1, <2>2
    <3>2. b[i - Len(a)] = x
      BY <1>1, <1>4, <3>1
    <3>3. QED
      BY <3>1, <3>2 DEF Among
  <2>3. QED
    BY <1>1, <2>1, <2>2
<1>5. QED
  BY <1>2, <1>3, <1>4 DEF Among, c

(* A list of what is in the first parts.                                    *)
Gathers(list, parts, n) ==
    \A x : Among(x, list) <=> \E i \in 1..n : Among(x, parts[i])

(* Flattened parts hold what the parts hold.                                *)
LEMMA FlattenedIs ==
    ASSUME NEW V, NEW parts \in Seq(Seq(V))
    PROVE  /\ FlattenSeq(parts) \in Seq(V)
           /\ Gathers(FlattenSeq(parts), parts, Len(parts))
<1> DEFINE N == Len(parts)
           X == Seq(V)
           step == [x \in (1..N) \X X |-> x[2] \o parts[x[1]]]
           Body(c) == [i \in 1..N |-> IF i = 1 THEN parts[i] ELSE c[i - 1] \o parts[i]]
           d == CHOOSE c : c = Body(c)
<1>0. CASE N = 0
  <2>1. FlattenSeq(parts) = parts /\ parts = <<>>
    BY <1>0 DEF FlattenSeq
  <2>2. <<>> \in Seq(V) /\ Len(<<>>) = 0 /\ 1..Len(parts) = {}
    BY <1>0
  <2>3. \A x : ~Among(x, <<>>)
    BY DEF Among
  <2>4. QED
    BY <2>1, <2>2, <2>3 DEF Gathers
<1>1. CASE N # 0
  <2>0. FlattenSeq(parts) = d[N]
    BY <1>1 DEF FlattenSeq
  <2>1. N \in Nat /\ N >= 1 /\ <<>> \in X /\ \A i \in 1..N : parts[i] \in X
    BY <1>1
  <2>2. step \in [(1..N) \X X -> X]
    <3>1. ASSUME NEW x \in (1..N) \X X PROVE x[2] \o parts[x[1]] \in X
      <4>1. x[2] \in Seq(V) /\ parts[x[1]] \in Seq(V)
        BY <2>1
      <4>2. QED
        BY <4>1
    <3> HIDE DEF X, N
    <3>2. QED
      BY <3>1
  <2> HIDE DEF N
  <2>3. PICK f : Follows(f, N, <<>>, X, step)
    <3> HIDE DEF step, X
    <3>1. QED
      BY <2>1, <2>2, Recursion
  <2>4. ASSUME NEW i \in 1..N PROVE f[i] = f[i - 1] \o parts[i] /\ f[i - 1] \in X
    <3>1. i - 1 \in 0..N
      BY <2>1
    <3>2. <<i, f[i - 1]>> \in (1..N) \X X
      BY <2>3, <3>1 DEF Follows
    <3> HIDE DEF X
    <3>3. QED
      BY <2>3, <3>2 DEF Follows
  <2>5. [i \in 1..N |-> f[i]] = Body([i \in 1..N |-> f[i]])
    <3> DEFINE g == [i \in 1..N |-> f[i]]
    <3>1. ASSUME NEW i \in 1..N PROVE g[i] = IF i = 1 THEN parts[i] ELSE g[i - 1] \o parts[i]
      <4>1. CASE i = 1
        <5>1. f[i - 1] = <<>> /\ parts[i] \in Seq(V)
          BY <2>1, <2>3, <4>1 DEF Follows
        <5>2. <<>> \o parts[i] = parts[i]
          BY <5>1
        <5>3. QED
          BY <2>4, <4>1, <5>1, <5>2
      <4>2. CASE i # 1
        <5>1. i - 1 \in 1..N
          BY <2>1, <4>2
        <5>2. QED
          BY <2>4, <4>2, <5>1
      <4>3. QED
        BY <4>1, <4>2
    <3>2. g = [i \in 1..N |-> g[i]]
      OBVIOUS
    <3> HIDE DEF g
    <3>3. QED
      BY <3>1, <3>2 DEF g
  <2>6. d = Body(d)
    <3> HIDE DEF Body
    <3>1. QED
      BY <2>5
  <2> HIDE DEF d, step
  <2>7. /\ d[1] = parts[1]
        /\ \A i \in Nat : i + 1 <= N /\ i # 0 =>
              d[i + 1] = d[i] \o parts[i + 1] /\ i + 1 \in 1..N
    <3>1. ASSUME NEW i \in Nat, i + 1 <= N, i # 0
          PROVE  d[i + 1] = d[i] \o parts[i + 1] /\ i + 1 \in 1..N
      <4>1. i + 1 \in 1..N /\ (i + 1) - 1 = i /\ i + 1 # 1
        BY <2>1, <3>1
      <4>2. Body(d)[i + 1] = d[i] \o parts[i + 1]
        BY <4>1
      <4>3. QED
        BY <2>6, <4>1, <4>2
    <3>2. Body(d)[1] = parts[1]
      BY <2>1
    <3>3. QED
      BY <2>6, <3>1, <3>2
  <2> HIDE DEF Body
  <2> DEFINE S == {i \in Nat : i # 0 /\ i <= N => d[i] \in Seq(V) /\ Gathers(d[i], parts, i)}
  <2>8. 0 \in S
    OBVIOUS
  <2>9. ASSUME NEW i \in Nat, i \in S PROVE i + 1 \in S
    <3>1. SUFFICES ASSUME i + 1 <= N
                   PROVE  d[i + 1] \in Seq(V) /\ Gathers(d[i + 1], parts, i + 1)
      OBVIOUS
    <3>2. CASE i = 0
      <4>1. i + 1 = 1 /\ 1..1 = {1} /\ d[1] = parts[1] /\ parts[1] \in Seq(V)
        BY <2>1, <2>7, <3>2
      <4>2. QED
        BY <4>1 DEF Gathers
    <3>3. CASE i # 0
      <4>0. i <= N
        BY <2>1, <3>1
      <4>6. d[i] \in Seq(V) /\ Gathers(d[i], parts, i)
        BY <2>9, <3>3, <4>0
      <4>1. /\ d[i] \in Seq(V) /\ d[i + 1] = d[i] \o parts[i + 1] /\ parts[i + 1] \in Seq(V)
            /\ Gathers(d[i], parts, i)
        BY <2>1, <2>7, <3>1, <3>3, <4>6
      <4>2. \A x : Among(x, d[i + 1]) <=> Among(x, d[i]) \/ Among(x, parts[i + 1])
        BY <4>1, JoinedAmong
      <4>3. \A j : j \in 1..(i + 1) <=> j \in 1..i \/ j = i + 1
        OBVIOUS
      <4>4. d[i + 1] \in Seq(V)
        BY <4>1
      <4> HIDE DEF S
      <4>5. QED
        BY <4>1, <4>2, <4>3, <4>4 DEF Gathers
    <3>4. QED
      BY <3>2, <3>3
  <2>10. N \in S
    <3> HIDE DEF S
    <3>1. QED
      BY <2>1, <2>8, <2>9, Climb
  <2>11. QED
    BY <1>1, <2>0, <2>1, <2>10 DEF N
<1>2. QED
  BY <1>0, <1>1

----------------------------------------------------------------------------
(* The names of variables *)

(* The first word of the name of a variable tells what kind it is.          *)
Family(name) == name[3]

(* A name begins with DP and its first word.                                *)
LEMMA DPIs ==
    ASSUME NEW V, NEW words \in Seq(V), words # <<>>
    PROVE  /\ DP(words) \in Seq(V \cup {"DP", "_"}) /\ Len(DP(words)) >= 3
           /\ Family(DP(words)) = words[1]
<1>1. Len(words) \in Nat /\ Len(words) >= 1
  OBVIOUS
<1> DEFINE M == 2 * Len(words) + 1
<1>2. M \in Nat /\ M >= 3
  BY <1>1
<1>3. \A i \in 1..M : i # 1 /\ i % 2 # 0 => (i - 1) \div 2 \in 1..Len(words)
  BY <1>1
<1> DEFINE T == V \cup {"DP", "_"}
           At(i) == IF i = 1 THEN "DP" ELSE IF i % 2 = 0 THEN "_" ELSE words[(i - 1) \div 2]
<1>4. \A i \in 1..M : At(i) \in T
  <2>1. \A j \in 1..Len(words) : words[j] \in V
    OBVIOUS
  <2>2. \A i \in 1..M : i # 1 /\ i % 2 # 0 => words[(i - 1) \div 2] \in V
    <3> HIDE DEF M
    <3>1. QED
      BY <1>3, <2>1
  <2>3. "DP" \in T /\ "_" \in T /\ V \subseteq T
    OBVIOUS
  <2> HIDE DEF M, T
  <2>4. QED
    BY <2>2, <2>3
<1>5. 3 \in 1..M /\ (3 - 1) \div 2 = 1 /\ 3 % 2 # 0
  BY <1>2
<1>6. DP(words) = [i \in 1..M |-> At(i)]
  BY DEF DP
<1>7. At(3) = words[1]
  BY <1>5
<1> HIDE DEF M, T, At
<1>8. DP(words) \in Seq(T) /\ Len(DP(words)) = M /\ DP(words)[3] = At(3)
  BY <1>2, <1>4, <1>5, <1>6
<1>9. QED
  BY <1>2, <1>7, <1>8 DEF Family, T

(* A sequence over more.                                                    *)
LEMMA Wider ==
    ASSUME NEW V, NEW U, V \subseteq U, NEW s \in Seq(V) PROVE s \in Seq(U)
  OBVIOUS

(* A name that grows keeps its first word.                                  *)
LEMMA Longer ==
    ASSUME NEW U, NEW s \in Seq(U), Len(s) >= 3, NEW c \in U
    PROVE  /\ Append(s, c) \in Seq(U) /\ Len(Append(s, c)) = Len(s) + 1 /\ Len(s) \in Nat
           /\ Append(s, c)[3] = s[3]
<1>1. 3 \in 1..Len(s)
  OBVIOUS
<1>2. QED
  BY <1>1

(* envKey keeps the prefix.                                                 *)
LEMMA EnvKeyKeepsFamily ==
    ASSUME NEW V, NEW prefix \in Seq(V), Len(prefix) >= 3, NEW W, NEW raw \in Seq(W)
    PROVE  Family(EnvKey(prefix, raw)) = Family(prefix)
<1> DEFINE U == V \cup W \cup {"_"} \cup {UpperOf[c] : c \in DOMAIN UpperOf}
           X == {s \in Seq(U) : Len(s) >= 4 /\ s[3] = prefix[3]}
           N == Len(raw)
           base == Append(prefix, "_")
           step == [x \in (1..N) \X X |-> Keyed(x[2], raw[x[1]])]
           Body(k) == [i \in 0..N |-> IF i = 0 THEN base ELSE Keyed(k[i - 1], raw[i])]
           d == CHOOSE k : k = Body(k)
<1>0. EnvKey(prefix, raw) = IF Last(d[N]) = "_" THEN Front(d[N]) ELSE d[N]
  BY DEF EnvKey
<1>1. ASSUME NEW s \in X, NEW c \in U PROVE Append(s, c) \in X
  <2>1. s \in Seq(U) /\ Len(s) >= 4 /\ s[3] = prefix[3]
    OBVIOUS
  <2> HIDE DEF U
  <2>2. Append(s, c) \in Seq(U) /\ Len(Append(s, c)) >= 4 /\ Append(s, c)[3] = s[3]
    BY <2>1
  <2>3. QED
    BY <2>1, <2>2
<1>2. base \in X /\ N \in Nat
  <2> DEFINE bar == "_"
  <2>1. V \subseteq U /\ bar \in U
    OBVIOUS
  <2> HIDE DEF U, bar
  <2>2. prefix \in Seq(U)
    BY <2>1, Wider
  <2>3. /\ Append(prefix, bar) \in Seq(U) /\ Len(Append(prefix, bar)) = Len(prefix) + 1
        /\ Len(prefix) \in Nat /\ Append(prefix, bar)[3] = prefix[3]
    BY <2>1, <2>2, Longer
  <2> DEFINE longer == Append(prefix, bar)
  <2>4. longer \in X
    <3>1. longer \in Seq(U) /\ Len(longer) >= 4 /\ longer[3] = prefix[3]
      BY <2>3
    <3> HIDE DEF longer
    <3>2. QED
      BY <3>1
  <2>5. base = longer
    BY DEF bar
  <2>6. N \in Nat
    OBVIOUS
  <2> HIDE DEF longer, X, N, base
  <2>7. QED
    BY <2>4, <2>5, <2>6
<1>3. ASSUME NEW s \in X, NEW c \in W PROVE Keyed(s, c) \in X
  <2>1. c \in U /\ "_" \in U /\ (c \in DOMAIN UpperOf => UpperOf[c] \in U)
    OBVIOUS
  <2> HIDE DEF X, U
  <2>2. QED
    BY <1>1, <2>1 DEF Keyed
<1> HIDE DEF X, U
<1>4. step \in [(1..N) \X X -> X]
  <2>1. ASSUME NEW x \in (1..N) \X X PROVE Keyed(x[2], raw[x[1]]) \in X
    <3>1. x[2] \in X /\ raw[x[1]] \in W
      OBVIOUS
    <3>2. QED
      BY <1>3, <3>1
  <2> HIDE DEF N
  <2>2. QED
    BY <2>1
<1> HIDE DEF base
<1>5. PICK f : Follows(f, N, base, X, step)
  <2> HIDE DEF step, N
  <2>1. QED
    BY <1>2, <1>4, Recursion
<1>6. ASSUME NEW i \in 1..N PROVE f[i] = Keyed(f[i - 1], raw[i])
  <2>1. i - 1 \in 0..N
    BY <1>2
  <2>2. <<i, f[i - 1]>> \in (1..N) \X X
    BY <1>5, <2>1 DEF Follows
  <2>3. QED
    BY <1>5, <2>2 DEF Follows
<1>7. f = Body(f)
  BY <1>5, <1>6 DEF Follows
<1>8. d = Body(d)
  <2> HIDE DEF Body
  <2>1. QED
    BY <1>7
<1> HIDE DEF d, step
<1> DEFINE S == {i \in Nat : i <= N => d[i] \in X}
<1>9. 0 \in S
  <2>1. Body(d)[0] = base
    BY <1>2
  <2>2. QED
    BY <1>2, <1>8, <2>1
<1>10. ASSUME NEW i \in Nat, i \in S PROVE i + 1 \in S
  <2>1. SUFFICES ASSUME i + 1 <= N PROVE d[i + 1] \in X
    OBVIOUS
  <2>2. i + 1 \in 0..N /\ i + 1 \in 1..N /\ (i + 1) - 1 = i /\ i + 1 # 0 /\ d[i] \in X
    BY <1>2, <1>10, <2>1
  <2>3. Body(d)[i + 1] = Keyed(d[i], raw[i + 1])
    BY <2>2
  <2>4. raw[i + 1] \in W
    BY <2>2
  <2>5. QED
    BY <1>3, <1>8, <2>2, <2>3, <2>4
<1>11. d[N] \in X
  <2> HIDE DEF S, N
  <2>1. \A i \in Nat : i \in S
    BY <1>9, <1>10, Climb
  <2>2. QED
    BY <1>2, <2>1 DEF S
<1> HIDE DEF N
<1>12. d[N] \in Seq(U) /\ Len(d[N]) >= 4 /\ d[N][3] = prefix[3]
  BY <1>11 DEF X
<1>13. Front(d[N])[3] = d[N][3]
  <2>1. SubSeq(d[N], 1, Len(d[N]) - 1)[3] = d[N][3]
    BY <1>12
  <2>2. QED
    BY <2>1 DEF Front
<1>14. QED
  BY <1>0, <1>12, <1>13 DEF Family

----------------------------------------------------------------------------
(* What the environments hold *)

(* A list of variables of some families. *)
Of(e, families) == IsList(e) /\ \A n : Has(e, n) => Family(n) \in families

(* What a container sees of a list with a later one.                        *)
LEMMA SeesLater ==
    ASSUME NEW a, NEW b, NEW c, Later(c, a, b), NEW n
    PROVE  Sees(c, n) = IF Has(b, n) THEN Sees(b, n) ELSE Sees(a, n)
<1>1. CASE Has(b, n)
  BY <1>1, SeesLatest DEF Later
<1>2. CASE Has(a, n) /\ ~Has(b, n)
  BY <1>2, SeesLatest DEF Later
<1>3. CASE ~Has(a, n) /\ ~Has(b, n)
  BY <1>3, SeesLatest DEF Later
<1>4. QED
  BY <1>1, <1>2, <1>3

(* What a container sees of two lists that are joined, or merged.           *)
Follow(c, a, b) ==
    /\ IsList(c)
    /\ \A n : Has(c, n) <=> Has(a, n) \/ Has(b, n)
    /\ \A n : Sees(c, n) = IF Has(b, n) THEN Sees(b, n) ELSE Sees(a, n)

(* Of two lists that are joined, the second follows the first.              *)
LEMMA JoinFollows ==
    ASSUME NEW a, NEW b, IsList(a), IsList(b) PROVE Follow(a \o b, a, b)
  BY JoinIsLater, SeesLater DEF Follow, Later

(* mergeEnvVars: the overlay follows the base.                              *)
LEMMA MergeFollows ==
    ASSUME NEW a, NEW b, IsList(a), IsList(b) PROVE Follow(MergeEnvVars(a, b), a, b)
<1>1. Later(MergeEnvVars(a, b), a, b)
  BY MergeIsLater
<1>2. QED
  BY <1>1, SeesLater DEF Follow, Later

(* Lists that are joined have the families of both.                         *)
LEMMA JoinOf ==
    ASSUME NEW a, NEW b, NEW F, NEW G, Of(a, F), Of(b, G) PROVE Of(a \o b, F \cup G)
<1>1. Follow(a \o b, a, b)
  BY JoinFollows DEF Of
<1>2. QED
  BY <1>1 DEF Of, Follow

(* The family of a name that is written out.                                *)
LEMMA FamilyIs ==
    ASSUME NEW w, NEW x, NEW y
    PROVE  /\ Family(DP(<<w>>)) = w /\ Family(DP(<<w, x>>)) = w /\ Family(DP(<<w, x, y>>)) = w
<1> DEFINE V == {w, x, y}
<1>1. <<w>> \in Seq(V) /\ <<w>> # <<>> /\ <<w>>[1] = w
  OBVIOUS
<1>2. <<w, x>> \in Seq(V) /\ <<w, x>> # <<>> /\ <<w, x>>[1] = w
  OBVIOUS
<1>3. <<w, x, y>> \in Seq(V) /\ <<w, x, y>> # <<>> /\ <<w, x, y>>[1] = w
  OBVIOUS
<1> HIDE DEF V
<1>4. Family(DP(<<w>>)) = w
  BY <1>1, DPIs
<1>5. Family(DP(<<w, x>>)) = w
  BY <1>2, DPIs
<1>6. Family(DP(<<w, x, y>>)) = w
  BY <1>3, DPIs
<1>7. QED
  BY <1>4, <1>5, <1>6

(* A name that is written out is of the family of its first word.           *)
LEMMA FamilyIn ==
    ASSUME NEW F, NEW w \in F, NEW x, NEW y
    PROVE  /\ Family(DP(<<w>>)) \in F /\ Family(DP(<<w, x>>)) \in F
           /\ Family(DP(<<w, x, y>>)) \in F
  BY FamilyIs

(* A list of one variable.                                                  *)
LEMMA OneOf ==
    ASSUME NEW n, NEW v, NEW F, Family(n) \in F PROVE Of(<<Variable(n, v)>>, F)
<1>1. Variable(n, v).name = n
  BY DEF Variable
<1>2. QED
  BY <1>1, OneVariable DEF Of

(* The empty list is of any families.                                       *)
LEMMA NoneOf ==
    ASSUME NEW F PROVE Of(<<>>, F)
  BY NoVariable DEF Of

(* A variable from a Secret, or none.                                       *)
LEMMA SecretOf ==
    ASSUME NEW n, NEW ref, NEW F, Family(n) \in F PROVE Of(SecretEnv(n, ref), F)
  BY OneOf, NoneOf DEF SecretEnv

(* Families that are among others. *)
LEMMA OfMore ==
    ASSUME NEW e, NEW F, NEW G, Of(e, F), F \subseteq G PROVE Of(e, G)
  BY DEF Of

(* Lists of some families, joined, are of those families.                   *)
LEMMA JoinOfSame ==
    ASSUME NEW a, NEW b, NEW F, Of(a, F), Of(b, F) PROVE Of(a \o b, F)
<1>1. Of(a \o b, F \cup F)
  BY JoinOf
<1>2. F \cup F = F
  OBVIOUS
<1>3. QED
  BY <1>1, <1>2

(* A list that is written out is joined from its members.                   *)
LEMMA Tuples ==
    ASSUME NEW a, NEW b, NEW c
    PROVE  <<a, b>> = <<a>> \o <<b>> /\ <<a, b, c>> = <<a, b>> \o <<c>>
<1> DEFINE V == {a, b, c}
<1>1. <<a>> \in Seq(V) /\ <<b>> \in Seq(V) /\ <<c>> \in Seq(V) /\ <<a, b>> \in Seq(V)
  OBVIOUS
<1>2. <<a, b>> = <<a>> \o <<b>>
  <2> DEFINE s == <<a>> \o <<b>>
             t == <<a, b>>
  <2>1. s \in Seq(V) /\ Len(s) = 2 /\ s[1] = a /\ s[2] = b
    BY <1>1
  <2>2. t \in Seq(V) /\ Len(t) = 2 /\ t[1] = a /\ t[2] = b
    BY <1>1
  <2>3. \A i \in 1..2 : i = 1 \/ i = 2
    OBVIOUS
  <2> HIDE DEF s, t, V
  <2>4. s = t
    BY <2>1, <2>2, <2>3
  <2>5. QED
    BY <2>4 DEF s, t
<1>3. <<a, b, c>> = <<a, b>> \o <<c>>
  BY <1>1
<1>4. QED
  BY <1>2, <1>3

(* Lists of two and of three variables.                                     *)
LEMMA MoreOf ==
    ASSUME NEW a, NEW b, NEW c, NEW F, Of(<<a>>, F), Of(<<b>>, F), Of(<<c>>, F)
    PROVE  Of(<<a, b>>, F) /\ Of(<<a, b, c>>, F)
<1> DEFINE s == <<a, b>>
<1>1. s = <<a>> \o <<b>>
  BY Tuples
<1>2. <<a, b, c>> = s \o <<c>>
  BY Tuples
<1> HIDE DEF s
<1>3. Of(s, F)
  BY <1>1, JoinOfSame
<1>4. Of(<<a, b, c>>, F)
  BY <1>2, <1>3, JoinOfSame
<1>5. QED
  BY <1>3, <1>4 DEF s

StorageFamilies == {"STORAGE", "NFS", "MINIO"}

(* buildStorageEnv, and no one else, sets the variables of a storage.       *)
LEMMA StorageEnvOf == ASSUME NEW storage PROVE Of(StorageEnv(storage), StorageFamilies)
<1> DEFINE type   == Variable(DP(<<"STORAGE", "TYPE">>), storage.type)
           server == Variable(DP(<<"NFS", "SERVER">>), storage.server)
           path   == Variable(DP(<<"NFS", "PATH">>), storage.path)
           endpoint == Variable(DP(<<"MINIO", "ENDPOINT">>), storage.server)
           bucket == Variable(DP(<<"MINIO", "BUCKET">>), storage.path)
           prefix == Variable(DP(<<"MINIO", "PREFIX">>), storage.prefix)
           access == SecretEnv(DP(<<"MINIO", "ACCESS", "KEY">>), storage.access)
<1>1. /\ Of(<<type>>, StorageFamilies) /\ Of(<<server>>, StorageFamilies)
      /\ Of(<<path>>, StorageFamilies) /\ Of(<<endpoint>>, StorageFamilies)
      /\ Of(<<bucket>>, StorageFamilies) /\ Of(<<prefix>>, StorageFamilies)
      /\ Of(access, StorageFamilies)
  <2>1. \A x, y : /\ Family(DP(<<"STORAGE", x>>)) \in StorageFamilies
                  /\ Family(DP(<<"NFS", x>>)) \in StorageFamilies
                  /\ Family(DP(<<"MINIO", x>>)) \in StorageFamilies
                  /\ Family(DP(<<"MINIO", x, y>>)) \in StorageFamilies
    <3>1. "STORAGE" \in StorageFamilies /\ "NFS" \in StorageFamilies /\ "MINIO" \in StorageFamilies
      BY DEF StorageFamilies
    <3>2. QED
      BY <3>1, FamilyIn
  <2>2. QED
    BY <2>1, OneOf, SecretOf
<1>2. StorageEnv(storage) = <<type>> \o (IF storage.type = "nfs" THEN <<server, path>>
                                         ELSE <<endpoint, bucket, prefix>> \o access)
  BY DEF StorageEnv
<1> HIDE DEF type, server, path, endpoint, bucket, prefix, access
<1>3. Of(<<server, path>>, StorageFamilies) /\ Of(<<endpoint, bucket, prefix>>, StorageFamilies)
  BY <1>1, MoreOf
<1>4. Of(<<endpoint, bucket, prefix>> \o access, StorageFamilies)
  BY <1>1, <1>3, JoinOfSame
<1>5. QED
  BY <1>1, <1>2, <1>3, <1>4, JoinOfSame

(* The variables of an endpoint are those of a source.                      *)
LEMMA EndpointEnvOf == ASSUME NEW endpoint PROVE Of(EndpointEnv(endpoint), {"SOURCE"})
<1> DEFINE F == {"SOURCE"}
           host == <<Variable(DP(<<"SOURCE", "HOST">>), endpoint.host)>>
           service == IF endpoint.service = None THEN <<>>
                      ELSE <<Variable(DP(<<"SOURCE", "SERVICE", "NAME">>), endpoint.service)>>
           password == SecretEnv(DP(<<"SOURCE", "PASSWORD">>), endpoint.password)
<1>1. Of(host, F) /\ Of(service, F) /\ Of(password, F)
  <2>1. /\ Family(DP(<<"SOURCE", "HOST">>)) \in F
        /\ Family(DP(<<"SOURCE", "SERVICE", "NAME">>)) \in F
        /\ Family(DP(<<"SOURCE", "PASSWORD">>)) \in F
    BY FamilyIs
  <2>2. QED
    BY <2>1, OneOf, NoneOf, SecretOf
<1>2. EndpointEnv(endpoint) = host \o service \o password
  BY DEF EndpointEnv
<1> HIDE DEF F, host, service, password
<1>3. Of(host \o service \o password, F)
  BY <1>1, JoinOfSame
<1>4. QED
  BY <1>2, <1>3 DEF F

(* The variables of a target.                                               *)
LEMMA TargetEnvOf == ASSUME NEW target PROVE Of(TargetEnv(target), {"TARGET"})
<1>1. Family(DP(<<"TARGET", "NAME">>)) \in {"TARGET"}
  BY FamilyIs
<1>2. QED
  BY <1>1, OneOf, NoneOf DEF TargetEnv

(* The variable that names the operation.                                   *)
LEMMA OperationOf ==
    ASSUME NEW v PROVE Of(<<Variable(DP(<<"OPERATION">>), v)>>, {"OPERATION"})
<1>1. Family(DP(<<"OPERATION">>)) \in {"OPERATION"}
  BY FamilyIs
<1>2. QED
  BY <1>1, OneOf

(* envKey keeps references among the secrets, and parameters among the      *)
(* parameters.                                                              *)
LEMMA KeyFamilies ==
    ASSUME NEW W, NEW raw \in Seq(W)
    PROVE  Family(SecretKey(raw)) = "SECRET" /\ Family(ParameterKey(raw)) = "PARAM"
<1>1. ASSUME NEW w PROVE Family(EnvKey(DP(<<w>>), raw)) = w
  <2>1. <<w>> \in Seq({w}) /\ <<w>> # <<>> /\ <<w>>[1] = w
    OBVIOUS
  <2> DEFINE V == {w} \cup {"DP", "_"}
  <2>2. DP(<<w>>) \in Seq(V) /\ Len(DP(<<w>>)) >= 3 /\ Family(DP(<<w>>)) = w
    BY <2>1, DPIs
  <2> HIDE DEF V
  <2>3. QED
    BY <2>2, EnvKeyKeepsFamily
<1>2. QED
  BY <1>1 DEF SecretKey, ParameterKey

(* References, each with a name of its own.                                 *)
ProperRefs(refs) ==
    /\ IsList(refs) /\ Distinct(refs)
    /\ \A i \in DOMAIN refs : refs[i].name \in Seq(Range(refs[i].name))

(* The variables of the references that name a Secret.                      *)
LEMMA SecretRefsIs ==
    ASSUME NEW refs, IsList(refs)
    PROVE  /\ IsList(SecretRefsEnv(refs))
           /\ \A x : Among(x, SecretRefsEnv(refs)) <=>
                 \E i \in 1..Len(refs) :
                    refs[i].ref # None /\ x = Variable(SecretKey(refs[i].name), refs[i].ref)
<1> DEFINE parts == [i \in DOMAIN refs |-> SecretEnv(SecretKey(refs[i].name), refs[i].ref)]
           V == {Variable(SecretKey(refs[i].name), refs[i].ref) : i \in DOMAIN refs}
<1>1. Len(refs) \in Nat /\ DOMAIN refs = 1..Len(refs)
  BY ListIs
<1>2. ASSUME NEW i \in DOMAIN refs PROVE SecretEnv(SecretKey(refs[i].name), refs[i].ref) \in Seq(V)
  <2> DEFINE v == Variable(SecretKey(refs[i].name), refs[i].ref)
  <2>1. v \in V
    OBVIOUS
  <2>2. SecretEnv(SecretKey(refs[i].name), refs[i].ref) \in {<<>>, <<v>>}
    BY DEF SecretEnv
  <2> HIDE DEF v, V
  <2>3. <<>> \in Seq(V) /\ <<v>> \in Seq(V)
    BY <2>1
  <2>4. QED
    BY <2>2, <2>3
<1> HIDE DEF V
<1>3. parts \in Seq(Seq(V)) /\ Len(parts) = Len(refs)
  BY <1>1, <1>2
<1>4. SecretRefsEnv(refs) = FlattenSeq(parts)
  BY DEF SecretRefsEnv
<1>5. ASSUME NEW i \in 1..Len(refs), NEW x
      PROVE  Among(x, parts[i]) <=>
                refs[i].ref # None /\ x = Variable(SecretKey(refs[i].name), refs[i].ref)
  <2>1. parts[i] = SecretEnv(SecretKey(refs[i].name), refs[i].ref)
    BY <1>1
  <2> HIDE DEF parts
  <2>2. \A v : Among(x, <<v>>) <=> x = v
    BY DEF Among
  <2>3. ~Among(x, <<>>)
    BY DEF Among
  <2>4. QED
    BY <2>1, <2>2, <2>3 DEF SecretEnv
<1> HIDE DEF parts
<1>6. FlattenSeq(parts) \in Seq(V) /\ Gathers(FlattenSeq(parts), parts, Len(refs))
  BY <1>3, FlattenedIs
<1>7. IsList(SecretRefsEnv(refs))
  BY <1>4, <1>6, ListOf
<1>8. QED
  BY <1>4, <1>5, <1>6, <1>7 DEF Gathers

(* The variables of the parameters.                                         *)
LEMMA ParametersIs ==
    ASSUME NEW parameters
    PROVE  /\ IsList(ParameterEnv(parameters))
           /\ \A x : Among(x, ParameterEnv(parameters)) <=>
                 \E k \in Range(SortedKeys) \cap DOMAIN parameters :
                    x = Variable(ParameterKey(k), parameters[k])
<1> DEFINE Part(k) == IF k \in DOMAIN parameters
                      THEN <<Variable(ParameterKey(k), parameters[k])>> ELSE <<>>
           parts == [i \in DOMAIN SortedKeys |-> Part(SortedKeys[i])]
           V == {Variable(ParameterKey(k), parameters[k]) : k \in Range(SortedKeys)}
<1>1. /\ Len(SortedKeys) \in Nat /\ DOMAIN SortedKeys = 1..Len(SortedKeys)
      /\ \A i \in 1..Len(SortedKeys) : SortedKeys[i] \in Range(SortedKeys)
      /\ \A k \in Range(SortedKeys) : \E i \in 1..Len(SortedKeys) : k = SortedKeys[i]
  BY RenderingAssumption DEF Range
<1>2. ASSUME NEW k \in Range(SortedKeys) PROVE Part(k) \in Seq(V)
  <2> DEFINE v == Variable(ParameterKey(k), parameters[k])
  <2>1. v \in V
    OBVIOUS
  <2>2. Part(k) \in {<<>>, <<v>>}
    OBVIOUS
  <2> HIDE DEF v, V, Part
  <2>3. <<>> \in Seq(V) /\ <<v>> \in Seq(V)
    BY <2>1
  <2>4. QED
    BY <2>2, <2>3
<1>3. ASSUME NEW k, NEW x
      PROVE  Among(x, Part(k)) <=>
                k \in DOMAIN parameters /\ x = Variable(ParameterKey(k), parameters[k])
  <2>1. \A v : Among(x, <<v>>) <=> x = v
    BY DEF Among
  <2>2. ~Among(x, <<>>)
    BY DEF Among
  <2>3. QED
    BY <2>1, <2>2
<1>4. ParameterEnv(parameters) = FlattenSeq(parts)
  BY DEF ParameterEnv
<1> HIDE DEF V, Part
<1>5. parts \in Seq(Seq(V)) /\ Len(parts) = Len(SortedKeys)
  BY <1>1, <1>2
<1>6. \A i \in 1..Len(SortedKeys) : parts[i] = Part(SortedKeys[i])
  BY <1>1
<1> HIDE DEF parts
<1>7. FlattenSeq(parts) \in Seq(V) /\ Gathers(FlattenSeq(parts), parts, Len(SortedKeys))
  BY <1>5, FlattenedIs
<1>8. IsList(ParameterEnv(parameters))
  BY <1>4, <1>7, ListOf
<1>9. ASSUME NEW x
      PROVE  (\E i \in 1..Len(SortedKeys) : Among(x, parts[i])) <=>
                \E k \in Range(SortedKeys) \cap DOMAIN parameters :
                    x = Variable(ParameterKey(k), parameters[k])
  BY <1>1, <1>3, <1>6
<1>10. QED
  BY <1>4, <1>7, <1>8, <1>9 DEF Gathers

(* A name that is had is that of a variable of the list.                    *)
LEMMA HasAmong ==
    ASSUME NEW e, IsList(e), NEW n
    PROVE  /\ Has(e, n) <=> \E x : Among(x, e) /\ x.name = n
           /\ Has(e, n) => Among(Latest(e, n), e) /\ Latest(e, n).name = n
<1>1. Has(e, n) <=> \E x : Among(x, e) /\ x.name = n
  BY HasIs DEF Among
<1>2. Has(e, n) => Among(Latest(e, n), e) /\ Latest(e, n).name = n
  BY LatestIs DEF Among, Latest
<1>3. QED
  BY <1>1, <1>2

(* The parts of a variable.                                                 *)
LEMMA VariableIs ==
    ASSUME NEW n, NEW v PROVE Variable(n, v).name = n /\ Variable(n, v).value = v
  BY DEF Variable

(* References are told as secrets only.                                     *)
LEMMA SecretRefsOf ==
    ASSUME NEW refs, ProperRefs(refs) PROVE Of(SecretRefsEnv(refs), {"SECRET"})
<1> DEFINE e == SecretRefsEnv(refs)
<1>1. IsList(refs) /\ DOMAIN refs = 1..Len(refs)
  BY ListIs DEF ProperRefs
<1>2. IsList(e)
  BY <1>1, SecretRefsIs
<1>3. ASSUME NEW n, Has(e, n) PROVE Family(n) \in {"SECRET"}
  <2>1. PICK x : Among(x, e) /\ x.name = n
    BY <1>2, <1>3, HasAmong
  <2>2. PICK i \in 1..Len(refs) : x = Variable(SecretKey(refs[i].name), refs[i].ref)
    BY <1>1, <2>1, SecretRefsIs
  <2>3. n = SecretKey(refs[i].name)
    BY <2>1, <2>2, VariableIs
  <2>4. refs[i].name \in Seq(Range(refs[i].name))
    BY <1>1 DEF ProperRefs
  <2>5. QED
    BY <2>3, <2>4, KeyFamilies
<1>4. QED
  BY <1>2, <1>3 DEF Of

(* A reference that shares its variable with no other is seen.              *)
LEMMA SecretSeen ==
    ASSUME NEW refs, IsList(refs), NEW i \in 1..Len(refs),
           \A j \in 1..Len(refs) : SecretKey(refs[j].name) = SecretKey(refs[i].name) => j = i
    PROVE  Sees(SecretRefsEnv(refs), SecretKey(refs[i].name)) = refs[i].ref
<1> DEFINE e == SecretRefsEnv(refs)
           n == SecretKey(refs[i].name)
<1>1. IsList(e)
  BY SecretRefsIs
<1>2. ASSUME NEW x, Among(x, e), x.name = n PROVE x.value = refs[i].ref /\ refs[i].ref # None
  <2>1. PICK j \in 1..Len(refs) :
           refs[j].ref # None /\ x = Variable(SecretKey(refs[j].name), refs[j].ref)
    BY <1>2, SecretRefsIs
  <2>2. j = i
    BY <1>2, <2>1, VariableIs
  <2>3. QED
    BY <2>1, <2>2, VariableIs
<1>3. refs[i].ref # None => Has(e, n)
  <2>1. SUFFICES ASSUME refs[i].ref # None PROVE Has(e, n)
    OBVIOUS
  <2>2. Among(Variable(n, refs[i].ref), e)
    BY <2>1, SecretRefsIs
  <2>3. Variable(n, refs[i].ref).name = n
    BY VariableIs
  <2> HIDE DEF e, n
  <2>4. QED
    BY <1>1, <2>2, <2>3, HasAmong
<1> HIDE DEF e, n
<1>4. Has(e, n) => Latest(e, n).value = refs[i].ref /\ refs[i].ref # None
  BY <1>1, <1>2, HasAmong
<1>5. Sees(e, n) = refs[i].ref
  BY <1>3, <1>4, SeesLatest
<1>6. QED
  BY <1>5 DEF e, n

(* Parameters are told as parameters only.                                  *)
LEMMA ParametersOf == ASSUME NEW parameters PROVE Of(ParameterEnv(parameters), {"PARAM"})
<1> DEFINE e == ParameterEnv(parameters)
<1>1. IsList(e)
  BY ParametersIs
<1>2. ASSUME NEW n, Has(e, n) PROVE Family(n) \in {"PARAM"}
  <2>1. PICK x : Among(x, e) /\ x.name = n
    BY <1>1, <1>2, HasAmong
  <2>2. PICK k \in Range(SortedKeys) : x = Variable(ParameterKey(k), parameters[k])
    BY <2>1, ParametersIs
  <2>3. n = ParameterKey(k)
    BY <2>1, <2>2, VariableIs
  <2>4. k \in Seq(Range(k))
    BY RenderingAssumption
  <2>5. QED
    BY <2>3, <2>4, KeyFamilies
<1>3. QED
  BY <1>1, <1>2 DEF Of

(* A parameter that shares its variable with no other is seen.              *)
LEMMA ParameterSeen ==
    ASSUME NEW parameters, NEW k \in DOMAIN parameters, k \in Range(SortedKeys),
           \A j \in DOMAIN parameters : ParameterKey(j) = ParameterKey(k) => j = k
    PROVE  /\ Has(ParameterEnv(parameters), ParameterKey(k))
           /\ Sees(ParameterEnv(parameters), ParameterKey(k)) = parameters[k]
<1> DEFINE e == ParameterEnv(parameters)
           n == ParameterKey(k)
<1>1. IsList(e)
  BY ParametersIs
<1>2. ASSUME NEW x, Among(x, e), x.name = n PROVE x.value = parameters[k]
  <2>1. PICK j \in DOMAIN parameters : x = Variable(ParameterKey(j), parameters[j])
    BY <1>2, ParametersIs
  <2>2. j = k
    BY <1>2, <2>1, VariableIs
  <2>3. QED
    BY <2>1, <2>2, VariableIs
<1>3. Has(e, n)
  <2>1. Among(Variable(n, parameters[k]), e)
    BY ParametersIs
  <2>2. Variable(n, parameters[k]).name = n
    BY VariableIs
  <2> HIDE DEF e, n
  <2>3. QED
    BY <1>1, <2>1, <2>2, HasAmong
<1> HIDE DEF e, n
<1>4. Latest(e, n).value = parameters[k]
  BY <1>1, <1>2, <1>3, HasAmong
<1>5. Sees(e, n) = parameters[k]
  BY <1>3, <1>4, SeesLatest
<1>6. QED
  BY <1>3, <1>5 DEF e, n

----------------------------------------------------------------------------
(* The containers of a backup and of a restore *)

(* A container sees all it is told when no name is told otherwise.          *)
LEMMA SeesAllIs ==
    ASSUME NEW env, NEW told, NEW template, IsList(told),
           \A n : Has(told, n) => Sees(env, n) = Sees(told, n) \/ Has(template, n)
    PROVE  SeesAll(env, told, template)
<1>1. \A i \in DOMAIN told : Has(told, told[i].name)
  BY HasIs, ListIs
<1>2. QED
  BY <1>1 DEF SeesAll, Has

(* Variables of some families are a list.                                   *)
LEMMA OfLists ==
    ASSUME NEW e, NEW F, Of(e, F) PROVE IsList(e)
  BY DEF Of

(* What comes with a run: variables that are not those of a source, of a    *)
(* target or of a parameter.                                               *)
TakenFamilies == {"SOURCE", "SECRET", "TARGET", "PARAM"}

OwnVariables(e) == IsList(e) /\ \A n : Has(e, n) => Family(n) \notin TakenFamilies

(* What ValidateBasic makes sure of, and that parameters are a map with the *)
(* keys that are sorted.                                                   *)
ProperSource(source) ==
    /\ ProperRefs(source.secretRefs)
    /\ DOMAIN source.parameters \subseteq Range(SortedKeys)
    /\ source.parameters = [k \in DOMAIN source.parameters |-> source.parameters[k]]

ProperJob(job) ==
    ProperRefs(job.secretRefs) /\ DOMAIN job.parameters \subseteq Range(SortedKeys)

(* The variables of a source and of a target.                               *)
LEMMA SourceOf ==
    ASSUME NEW endpoint, NEW refs, ProperRefs(refs), NEW target
    PROVE  Of(SourceEnv(endpoint, refs) \o TargetEnv(target), {"SOURCE", "SECRET", "TARGET"})
<1>1. Of(SourceEnv(endpoint, refs), {"SOURCE"} \cup {"SECRET"})
  BY EndpointEnvOf, SecretRefsOf, JoinOf DEF SourceEnv
<1>2. Of(SourceEnv(endpoint, refs) \o TargetEnv(target), ({"SOURCE"} \cup {"SECRET"}) \cup {"TARGET"})
  BY <1>1, TargetEnvOf, JoinOf
<1>3. ({"SOURCE"} \cup {"SECRET"}) \cup {"TARGET"} = {"SOURCE", "SECRET", "TARGET"}
  OBVIOUS
<1>4. QED
  BY <1>2, <1>3

(* Strings that name families differ.                                       *)
LEMMA FamiliesDiffer ==
    /\ "PARAM" \notin {"SOURCE", "SECRET", "TARGET"} \cup {"OPERATION"}
    /\ "PARAM" \in TakenFamilies /\ "PARAM" # "OPERATION"
    /\ \A f \in StorageFamilies : f \notin {"SOURCE", "SECRET", "TARGET"} \cup {"OPERATION"} /\ f # "PARAM"
    /\ \A f \in {"SOURCE", "SECRET", "TARGET"} :
          f # "PARAM" /\ f # "OPERATION" /\ f \in TakenFamilies
  BY DEF TakenFamilies, StorageFamilies

(* buildBackupJobSpec, buildBackupPodSpec: the variables of the execution   *)
(* and of the storage are seen wherever they are to be seen, whatever the   *)
(* source's parameters and secrets are called.                             *)
THEOREM BackupsAreToldAsAsked ==
    ASSUME NEW source, ProperSource(source), NEW storage, NEW template, IsList(template),
           NEW execution, OwnVariables(execution)
    PROVE  BackupAsAsked(source, storage, template, execution)
<1> DEFINE S == StorageEnv(storage)
           P == ParameterEnv(source.parameters)
           R == SourceEnv(source.endpoint, source.secretRefs) \o TargetEnv(source.targetRef)
           O == <<Variable(DP(<<"OPERATION">>), "backup")>>
           B == R \o O \o execution
           E == MergeEnvVars(B, P)
           T == MergeEnvVars(S, E)
           pod == BackupPod(source, storage, template, execution)
           Basic == {"SOURCE", "SECRET", "TARGET"} \cup {"OPERATION"}
<1>1. /\ Of(S, StorageFamilies) /\ Of(P, {"PARAM"}) /\ Of(R \o O, Basic)
      /\ IsList(execution) /\ \A n : Has(execution, n) => Family(n) # "PARAM"
  <2>1. Of(R, {"SOURCE", "SECRET", "TARGET"}) /\ Of(O, {"OPERATION"})
    BY SourceOf, OperationOf DEF ProperSource
  <2> HIDE DEF R, O
  <2>2. Of(R \o O, Basic)
    BY <2>1, JoinOf
  <2>3. IsList(execution) /\ \A n : Has(execution, n) => Family(n) # "PARAM"
    BY FamiliesDiffer DEF OwnVariables
  <2>4. QED
    BY <2>2, <2>3, StorageEnvOf, ParametersOf
<1>2. pod.preflight = T /\ pod.upload = T /\ pod.package = E
  BY DEF BackupPod, BackupEnv
<1> HIDE DEF pod, S, P, R, O
<1>3. Follow(B, R \o O, execution)
  BY <1>1, JoinFollows, OfLists
<1> HIDE DEF B
<1>4. Follow(E, B, P)
  BY <1>1, <1>3, MergeFollows, OfLists DEF Follow
<1> HIDE DEF E
<1>5. Follow(T, S, E)
  BY <1>1, <1>4, MergeFollows, OfLists DEF Follow
<1>6. Follow(S \o execution, S, execution)
  BY <1>1, JoinFollows, OfLists
<1> HIDE DEF T
<1>7. ASSUME NEW n, Has(execution, n) PROVE Has(E, n) /\ Sees(E, n) = Sees(execution, n)
  <2>1. ~Has(P, n)
    BY <1>1, <1>7 DEF Of
  <2>2. Has(B, n) /\ Sees(B, n) = Sees(execution, n)
    BY <1>3, <1>7 DEF Follow
  <2>3. QED
    BY <1>4, <2>1, <2>2 DEF Follow
<1>8. ASSUME NEW n, Has(S, n), ~Has(execution, n) PROVE ~Has(E, n)
  <2>1. ~Has(P, n) /\ ~Has(R \o O, n)
    BY <1>1, <1>8, FamiliesDiffer DEF Of
  <2>2. QED
    BY <1>3, <1>4, <1>8, <2>1 DEF Follow
<1>9. \A n : Has(S \o execution, n) => Sees(T, n) = Sees(S \o execution, n)
  BY <1>5, <1>6, <1>7, <1>8 DEF Follow
<1>10. SeesAll(T, S \o execution, <<>>)
  BY <1>6, <1>9, SeesAllIs DEF Follow
<1>11. SeesAll(E, execution, <<>>)
  BY <1>1, <1>7, SeesAllIs
<1>12. QED
  BY <1>2, <1>10, <1>11 DEF BackupAsAsked, pod, S

(* A RestoreJob's references, taken together with the source's.             *)
LEMMA RefsMerged ==
    ASSUME NEW a, NEW b, ProperRefs(a), ProperRefs(b)
    PROVE  LET m == MergeEnvVars(a, b)
           IN /\ ProperRefs(m) /\ (b = <<>> => m = a)
              /\ \A j \in 1..Len(m) : m[j].name \in NamesOf(a) \cup NamesOf(b)
              /\ \A i \in 1..Len(b) : \E p \in 1..Len(m) : m[p] = b[i]
<1> DEFINE m == MergeEnvVars(a, b)
<1>1. IsList(a) /\ IsList(b) /\ Distinct(a) /\ Distinct(b)
  BY DEF ProperRefs
<1>2. Later(m, a, b) /\ Distinct(m) /\ (b = <<>> => m = a)
  BY <1>1, MergeIsLater
<1> HIDE DEF m
<1>3. IsList(m)
  BY <1>2 DEF Later
<1>4. \A j \in 1..Len(m) : m[j].name \in NamesOf(a) \cup NamesOf(b)
  <2>1. SUFFICES ASSUME NEW j \in 1..Len(m) PROVE m[j].name \in NamesOf(a) \cup NamesOf(b)
    OBVIOUS
  <2>2. Has(m, m[j].name)
    BY <1>3, HasIs
  <2>3. Has(a, m[j].name) \/ Has(b, m[j].name)
    BY <1>2, <2>2 DEF Later
  <2>4. QED
    BY <2>3 DEF Has, Positions, NamesOf
<1>5. \A n \in NamesOf(a) \cup NamesOf(b) : n \in Seq(Range(n))
  BY DEF NamesOf, ProperRefs
<1>6. \A j \in DOMAIN m : m[j].name \in Seq(Range(m[j].name))
  BY <1>3, <1>4, <1>5, ListIs
<1>7. ASSUME NEW i \in 1..Len(b) PROVE \E p \in 1..Len(m) : m[p] = b[i]
  <2>1. Has(b, b[i].name) /\ Latest(b, b[i].name) = b[i]
    BY <1>1, DistinctLatest
  <2>2. Has(m, b[i].name) /\ Latest(m, b[i].name) = b[i]
    BY <1>2, <2>1 DEF Later
  <2>3. QED
    BY <1>3, <2>2, LatestIs DEF Latest
<1>8. QED
  BY <1>2, <1>3, <1>4, <1>6, <1>7 DEF ProperRefs, m

(* What is seen of a source: its endpoint, and its secrets.                 *)
LEMMA SourceSees ==
    ASSUME NEW endpoint, NEW refs, ProperRefs(refs), NEW target, NEW n
    PROVE  LET R == SourceEnv(endpoint, refs) \o TargetEnv(target)
           IN /\ Family(n) = "SOURCE" => Sees(R, n) = Sees(EndpointEnv(endpoint), n)
              /\ Family(n) = "SECRET" => Sees(R, n) = Sees(SecretRefsEnv(refs), n)
<1> DEFINE E == EndpointEnv(endpoint)
           S == SecretRefsEnv(refs)
           T == TargetEnv(target)
<1>1. Of(E, {"SOURCE"}) /\ Of(S, {"SECRET"}) /\ Of(T, {"TARGET"})
  BY EndpointEnvOf, SecretRefsOf, TargetEnvOf
<1>2. SourceEnv(endpoint, refs) = E \o S
  BY DEF SourceEnv
<1> HIDE DEF E, S, T
<1>3. Follow(E \o S, E, S)
  BY <1>1, JoinFollows, OfLists
<1>4. Follow(E \o S \o T, E \o S, T)
  BY <1>1, <1>3, JoinFollows, OfLists DEF Follow
<1>5. ASSUME Family(n) = "SOURCE" PROVE Sees(E \o S \o T, n) = Sees(E, n)
  <2>1. ~Has(S, n) /\ ~Has(T, n)
    BY <1>1, <1>5 DEF Of
  <2>2. QED
    BY <1>3, <1>4, <2>1 DEF Follow
<1>6. ASSUME Family(n) = "SECRET" PROVE Sees(E \o S \o T, n) = Sees(S, n)
  <2>1. ~Has(E, n) /\ ~Has(T, n)
    BY <1>1, <1>6 DEF Of
  <2>2. Sees(E \o S, n) = Sees(S, n)
    BY <1>3, <2>1, SeesLatest DEF Follow
  <2>3. QED
    BY <1>4, <2>1, <2>2 DEF Follow
<1>7. QED
  BY <1>2, <1>5, <1>6 DEF E, S, T

(* What is seen of the environment of a restore: of the source, of the      *)
(* parameters, and of the artifact.                                        *)
RestoreSees(E, R, P, artifact) ==
    /\ IsList(E)
    /\ \A n : Has(artifact, n) => Has(E, n) /\ Sees(E, n) = Sees(artifact, n)
    /\ \A n : Family(n) \in StorageFamilies /\ ~Has(artifact, n) => ~Has(E, n)
    /\ \A n : Family(n) \in {"SOURCE", "SECRET", "TARGET"} => Sees(E, n) = Sees(R, n)
    /\ \A n : Family(n) = "PARAM" => Sees(E, n) = Sees(P, n)

(* Four lists, of which the last one has only variables of its own.         *)
LEMMA EnvironmentSees ==
    ASSUME NEW R, NEW P, NEW O, NEW artifact, Of(R, {"SOURCE", "SECRET", "TARGET"}),
           Of(P, {"PARAM"}), Of(O, {"OPERATION"}), OwnVariables(artifact)
    PROVE  RestoreSees(R \o P \o O \o artifact, R, P, artifact)
<1> DEFINE E == R \o P \o O \o artifact
<1>1. IsList(R) /\ IsList(P) /\ IsList(O) /\ IsList(artifact)
  BY DEF Of, OwnVariables
<1>2. Follow(R \o P, R, P)
  BY <1>1, JoinFollows
<1>3. Follow(R \o P \o O, R \o P, O)
  BY <1>1, <1>2, JoinFollows DEF Follow
<1>4. Follow(E, R \o P \o O, artifact)
  BY <1>1, <1>3, JoinFollows DEF Follow
<1> HIDE DEF E
<1>5. \A n : Has(artifact, n) => Has(E, n) /\ Sees(E, n) = Sees(artifact, n)
  BY <1>4 DEF Follow
<1>6. ASSUME NEW n, Family(n) \in StorageFamilies, ~Has(artifact, n) PROVE ~Has(E, n)
  <2>1. ~Has(R, n) /\ ~Has(P, n) /\ ~Has(O, n)
    BY <1>6, FamiliesDiffer DEF Of
  <2>2. QED
    BY <1>2, <1>3, <1>4, <1>6, <2>1 DEF Follow
<1>7. ASSUME NEW n, Family(n) \in {"SOURCE", "SECRET", "TARGET"} PROVE Sees(E, n) = Sees(R, n)
  <2>1. ~Has(P, n) /\ ~Has(O, n) /\ ~Has(artifact, n)
    BY <1>7, FamiliesDiffer DEF Of, OwnVariables
  <2>2. QED
    BY <1>2, <1>3, <1>4, <2>1 DEF Follow
<1>8. ASSUME NEW n, Family(n) = "PARAM" PROVE Sees(E, n) = Sees(P, n)
  <2>1. ~Has(R, n) /\ ~Has(O, n) /\ ~Has(artifact, n)
    BY <1>8, FamiliesDiffer DEF Of, OwnVariables
  <2>2. Sees(R \o P, n) = Sees(P, n)
    BY <1>2, <2>1, SeesLatest DEF Follow
  <2>3. QED
    BY <1>3, <1>4, <2>1, <2>2 DEF Follow
<1>9. IsList(E)
  BY <1>4 DEF Follow
<1>10. QED
  BY <1>5, <1>6, <1>7, <1>8, <1>9 DEF RestoreSees, E

(* What a restore tells besides its storage (buildRestoreEnv).              *)
LEMMA RestoreEnvSees ==
    ASSUME NEW source, ProperSource(source), NEW job, ProperJob(job), NEW artifact,
           OwnVariables(artifact)
    PROVE  RestoreSees(RestoreEnv(source, job, artifact),
                       SourceEnv(RestoreEndpoint(source, job), RestoreSecretRefs(source, job))
                          \o TargetEnv(RestoreTargetRef(source, job)),
                       ParameterEnv(RestoreParameters(source, job)), artifact)
<1>1. ProperRefs(RestoreSecretRefs(source, job))
  BY RefsMerged DEF RestoreSecretRefs, ProperSource, ProperJob
<1> DEFINE R == SourceEnv(RestoreEndpoint(source, job), RestoreSecretRefs(source, job))
                   \o TargetEnv(RestoreTargetRef(source, job))
           P == ParameterEnv(RestoreParameters(source, job))
           O == <<Variable(DP(<<"OPERATION">>), "restore")>>
<1>2. Of(R, {"SOURCE", "SECRET", "TARGET"}) /\ Of(P, {"PARAM"}) /\ Of(O, {"OPERATION"})
  BY <1>1, SourceOf, ParametersOf, OperationOf
<1>3. RestoreEnv(source, job, artifact) = R \o P \o O \o artifact
  BY DEF RestoreEnv
<1> HIDE DEF R, P, O
<1>4. RestoreSees(RestoreEnv(source, job, artifact), R, P, artifact)
  BY <1>2, <1>3, EnvironmentSees
<1>5. QED
  BY <1>4 DEF R, P

(* The variables of a backup's parameters. *)
LEMMA BackupParameters ==
    ASSUME NEW source, ProperSource(source), NEW storage, NEW template, IsList(template),
           NEW n, Family(n) = "PARAM"
    PROVE  Sees(BackupPod(source, storage, template, <<>>).addon, n) =
              IF Has(template, n) THEN Sees(template, n)
              ELSE Sees(ParameterEnv(source.parameters), n)
<1> DEFINE R == SourceEnv(source.endpoint, source.secretRefs) \o TargetEnv(source.targetRef)
           O == <<Variable(DP(<<"OPERATION">>), "backup")>>
           P == ParameterEnv(source.parameters)
           B == R \o O \o <<>>
           E == MergeEnvVars(B, P)
           A == MergeEnvVars(E, template)
<1>1. Of(R, {"SOURCE", "SECRET", "TARGET"}) /\ Of(O, {"OPERATION"}) /\ Of(P, {"PARAM"})
  BY SourceOf, OperationOf, ParametersOf DEF ProperSource
<1>2. BackupPod(source, storage, template, <<>>).addon = A
  BY DEF BackupPod, BackupEnv
<1> HIDE DEF R, O, P
<1>3. Follow(R \o O, R, O)
  BY <1>1, JoinFollows, OfLists
<1>4. Follow(B, R \o O, <<>>)
  BY <1>3, JoinFollows, NoVariable DEF Follow
<1> HIDE DEF B
<1>5. Follow(E, B, P)
  BY <1>1, <1>4, MergeFollows, OfLists DEF Follow
<1> HIDE DEF E
<1>6. Follow(A, E, template)
  BY <1>5, MergeFollows DEF Follow
<1> HIDE DEF A
<1>7. ~Has(R, n) /\ ~Has(O, n)
  BY <1>1, FamiliesDiffer DEF Of
<1>8. ~Has(B, n)
  BY <1>3, <1>4, <1>7, NoVariable DEF Follow
<1>9. Sees(E, n) = Sees(P, n)
  BY <1>5, <1>8, SeesLatest DEF Follow
<1>10. QED
  BY <1>2, <1>6, <1>9 DEF Follow, P

(* The five parts of RestoreAsAsked. *)
StorageAndArtifact(source, job, storage, template, artifact) ==
    \A env \in {RestorePod(source, job, storage, template, artifact).preflight,
                RestorePod(source, job, storage, template, artifact).download} :
       SeesAll(env, StorageEnv(storage) \o artifact, <<>>)

(* The storage and the artifact of a restore are seen as they are.          *)
LEMMA StorageIsSeen ==
    ASSUME NEW source, ProperSource(source), NEW job, ProperJob(job), NEW storage,
           NEW template, NEW artifact, OwnVariables(artifact)
    PROVE  StorageAndArtifact(source, job, storage, template, artifact)
<1> DEFINE S == StorageEnv(storage)
           E == RestoreEnv(source, job, artifact)
           T == MergeEnvVars(S, E)
           R == SourceEnv(RestoreEndpoint(source, job), RestoreSecretRefs(source, job))
                   \o TargetEnv(RestoreTargetRef(source, job))
           P == ParameterEnv(RestoreParameters(source, job))
<1>1. Of(S, StorageFamilies) /\ IsList(S) /\ IsList(artifact) /\ RestoreSees(E, R, P, artifact)
  BY StorageEnvOf, RestoreEnvSees DEF Of, OwnVariables
<1>2. /\ RestorePod(source, job, storage, template, artifact).preflight = T
      /\ RestorePod(source, job, storage, template, artifact).download = T
  BY DEF RestorePod
<1> HIDE DEF S, E, R, P
<1>3. Follow(T, S, E) /\ Follow(S \o artifact, S, artifact)
  BY <1>1, MergeFollows, JoinFollows DEF RestoreSees
<1> HIDE DEF T
<1>4. ASSUME NEW n, Has(S \o artifact, n) PROVE Sees(T, n) = Sees(S \o artifact, n)
  <2>1. CASE Has(artifact, n)
    BY <1>1, <1>3, <2>1 DEF RestoreSees, Follow
  <2>2. CASE ~Has(artifact, n)
    <3>1. Has(S, n) /\ Family(n) \in StorageFamilies
      BY <1>1, <1>3, <1>4, <2>2 DEF Follow, Of
    <3>2. ~Has(E, n)
      BY <1>1, <2>2, <3>1 DEF RestoreSees
    <3>3. QED
      BY <1>3, <2>2, <3>2 DEF Follow
  <2>3. QED
    BY <2>1, <2>2
<1>5. SeesAll(T, S \o artifact, <<>>)
  BY <1>3, <1>4, SeesAllIs DEF Follow
<1>6. QED
  BY <1>2, <1>5 DEF StorageAndArtifact, S

(* What the addon sees, but for what its template sets.                     *)
LEMMA AddonSees ==
    ASSUME NEW source, ProperSource(source), NEW job, ProperJob(job), NEW storage,
           NEW template, IsList(template), NEW artifact, OwnVariables(artifact), NEW n
    PROVE  LET A == RestorePod(source, job, storage, template, artifact).addon
               R == SourceEnv(RestoreEndpoint(source, job), RestoreSecretRefs(source, job))
                       \o TargetEnv(RestoreTargetRef(source, job))
           IN /\ Has(template, n) => Sees(A, n) = Sees(template, n)
              /\ ~Has(template, n) /\ Family(n) \in {"SOURCE", "SECRET", "TARGET"} =>
                    Sees(A, n) = Sees(R, n)
              /\ ~Has(template, n) /\ Family(n) = "SOURCE" =>
                    Sees(A, n) = Sees(EndpointEnv(RestoreEndpoint(source, job)), n)
              /\ ~Has(template, n) /\ Family(n) = "SECRET" =>
                    Sees(A, n) = Sees(SecretRefsEnv(RestoreSecretRefs(source, job)), n)
              /\ ~Has(template, n) /\ Family(n) = "PARAM" =>
                    Sees(A, n) = Sees(ParameterEnv(RestoreParameters(source, job)), n)
<1> DEFINE E == RestoreEnv(source, job, artifact)
           A == MergeEnvVars(E, template)
           e == RestoreEndpoint(source, job)
           m == RestoreSecretRefs(source, job)
           t == RestoreTargetRef(source, job)
           R == SourceEnv(e, m) \o TargetEnv(t)
           P == ParameterEnv(RestoreParameters(source, job))
<1>1. RestoreSees(E, R, P, artifact)
  BY RestoreEnvSees
<1>2. RestorePod(source, job, storage, template, artifact).addon = A
  BY DEF RestorePod
<1>3. ProperRefs(m)
  BY RefsMerged DEF RestoreSecretRefs, ProperSource, ProperJob
<1> HIDE DEF e, m, t
<1>4. /\ Family(n) = "SOURCE" => Sees(R, n) = Sees(EndpointEnv(e), n)
      /\ Family(n) = "SECRET" => Sees(R, n) = Sees(SecretRefsEnv(m), n)
  BY <1>3, SourceSees
<1> HIDE DEF E, R, P
<1>5. Follow(A, E, template)
  BY <1>1, MergeFollows DEF RestoreSees
<1> HIDE DEF A
<1>6. /\ Family(n) \in {"SOURCE", "SECRET", "TARGET"} => Sees(E, n) = Sees(R, n)
      /\ Family(n) = "PARAM" => Sees(E, n) = Sees(P, n)
  BY <1>1 DEF RestoreSees
<1>7. /\ Has(template, n) => Sees(A, n) = Sees(template, n)
      /\ ~Has(template, n) => Sees(A, n) = Sees(E, n)
  BY <1>5 DEF Follow
<1>8. /\ ~Has(template, n) /\ Family(n) = "SOURCE" => Sees(A, n) = Sees(EndpointEnv(e), n)
      /\ ~Has(template, n) /\ Family(n) = "SECRET" => Sees(A, n) = Sees(SecretRefsEnv(m), n)
  BY <1>4, <1>6, <1>7
<1>9. /\ ~Has(template, n) /\ Family(n) \in {"SOURCE", "SECRET", "TARGET"} => Sees(A, n) = Sees(R, n)
      /\ ~Has(template, n) /\ Family(n) = "PARAM" => Sees(A, n) = Sees(P, n)
  BY <1>6, <1>7
<1>10. QED
  BY <1>2, <1>7, <1>8, <1>9 DEF R, P, e, m, t

(* mergeRestoreEndpoint, mergeRestoreSecretRefs, mergeRestoreParameters,    *)
(* mergeRestoreTargetRef, buildRestoreJobSpec, buildRestorePodSpec: what a  *)
(* RestoreJob asks for is what the containers see, and without overrides   *)
(* what the backup saw, whatever parameters and secrets are called.        *)
THEOREM RestoresAreToldAsAsked ==
    ASSUME NEW source, ProperSource(source), NEW job, ProperJob(job), NEW storage,
           NEW template, IsList(template), NEW artifact, OwnVariables(artifact)
    PROVE  RestoreAsAsked(source, job, storage, template, artifact)
<1> DEFINE A == RestorePod(source, job, storage, template, artifact).addon
           e == IF job.endpoint = None THEN source.endpoint ELSE job.endpoint
           keys == DOMAIN source.parameters \cup DOMAIN job.parameters
           secrets == NamesOf(source.secretRefs) \cup NamesOf(job.secretRefs)
           m == RestoreSecretRefs(source, job)
           all == RestoreParameters(source, job)
<1>0. \A n : Positions(template, n) = {} <=> ~Has(template, n)
  BY DEF Has
<1>1. StorageAndArtifact(source, job, storage, template, artifact)
  BY StorageIsSeen
<1>2. ASSUME NEW n \in EndpointNames, ~Has(template, n) PROVE Sees(A, n) = Sees(EndpointEnv(e), n)
  <2>1. RestoreEndpoint(source, job) = e
    BY DEF RestoreEndpoint
  <2>2. Family(n) = "SOURCE"
    <3>1. \A x, y : Family(DP(<<"SOURCE", x>>)) = "SOURCE" /\ Family(DP(<<"SOURCE", x, y>>)) = "SOURCE"
      BY FamilyIs
    <3>2. QED
      BY <3>1 DEF EndpointNames
  <2>3. QED
    BY <1>2, <2>1, <2>2, AddonSees
<1>3. /\ DOMAIN all = keys /\ keys \subseteq Range(SortedKeys)
      /\ \A k \in DOMAIN job.parameters : all[k] = job.parameters[k]
  BY DEF RestoreParameters, ProperSource, ProperJob
<1>4. \A k \in keys : Family(ParameterKey(k)) = "PARAM"
  BY <1>3, RenderingAssumption, KeyFamilies
<1>5. ASSUME NEW k \in DOMAIN job.parameters, Alone(k, keys, ParameterKey),
             ~Has(template, ParameterKey(k))
      PROVE  Sees(A, ParameterKey(k)) = job.parameters[k]
  <2>1. k \in keys /\ k \in Range(SortedKeys)
    BY <1>3
  <2>2. \A j \in DOMAIN all : ParameterKey(j) = ParameterKey(k) => j = k
    BY <1>3, <1>5 DEF Alone
  <2>3. Sees(A, ParameterKey(k)) = Sees(ParameterEnv(all), ParameterKey(k))
    BY <1>4, <1>5, <2>1, AddonSees
  <2> HIDE DEF A, all, keys
  <2>4. Sees(ParameterEnv(all), ParameterKey(k)) = all[k]
    BY <1>3, <2>1, <2>2, ParameterSeen
  <2>5. QED
    BY <1>3, <2>3, <2>4
<1>6. /\ ProperRefs(m) /\ (job.secretRefs = <<>> => m = source.secretRefs)
      /\ \A j \in 1..Len(m) : m[j].name \in secrets
      /\ \A i \in 1..Len(job.secretRefs) : \E p \in 1..Len(m) : m[p] = job.secretRefs[i]
  BY RefsMerged DEF ProperSource, ProperJob, RestoreSecretRefs
<1>7. /\ IsList(m) /\ Distinct(m) /\ DOMAIN m = 1..Len(m)
      /\ DOMAIN job.secretRefs = 1..Len(job.secretRefs)
  BY <1>6, ListIs DEF ProperRefs, ProperJob
<1>8. ASSUME NEW i \in DOMAIN job.secretRefs,
             Alone(job.secretRefs[i].name, secrets, SecretKey),
             ~Has(template, SecretKey(job.secretRefs[i].name))
      PROVE  Sees(A, SecretKey(job.secretRefs[i].name)) = job.secretRefs[i].ref
  <2> DEFINE s == job.secretRefs[i]
             n == SecretKey(s.name)
  <2>1. PICK p \in 1..Len(m) : m[p] = s
    BY <1>6, <1>7
  <2>2. s.name \in Seq(Range(s.name))
    BY DEF ProperJob, ProperRefs
  <2>3. Family(n) = "SECRET"
    BY <2>2, KeyFamilies
  <2>4. Sees(A, n) = Sees(SecretRefsEnv(m), n)
    BY <1>8, <2>3, AddonSees
  <2> HIDE DEF m
  <2>5. ASSUME NEW j \in 1..Len(m), SecretKey(m[j].name) = SecretKey(m[p].name) PROVE j = p
    <3>1. m[j].name = s.name
      BY <1>6, <1>8, <2>1, <2>5 DEF Alone
    <3>2. QED
      BY <1>7, <2>1, <3>1 DEF Distinct
  <2>6. Sees(SecretRefsEnv(m), SecretKey(m[p].name)) = m[p].ref
    BY <1>7, <2>5, SecretSeen
  <2>7. QED
    BY <2>1, <2>4, <2>6
<1>9. ASSUME job.endpoint = None, job.targetRef = None, job.parameters = <<>>, job.secretRefs = <<>>
      PROVE  /\ SeesAll(A, SourceEnv(source.endpoint, source.secretRefs)
                              \o TargetEnv(source.targetRef), template)
             /\ \A k \in keys : Sees(A, ParameterKey(k)) =
                   Sees(BackupPod(source, storage, template, <<>>).addon, ParameterKey(k))
  <2> DEFINE R == SourceEnv(source.endpoint, source.secretRefs) \o TargetEnv(source.targetRef)
  <2>1. /\ RestoreEndpoint(source, job) = source.endpoint /\ m = source.secretRefs
        /\ RestoreTargetRef(source, job) = source.targetRef
    BY <1>6, <1>9 DEF RestoreEndpoint, RestoreTargetRef
  <2>2. Of(R, {"SOURCE", "SECRET", "TARGET"})
    BY SourceOf DEF ProperSource
  <2>3. \A n : Family(n) \in {"SOURCE", "SECRET", "TARGET"} /\ ~Has(template, n) =>
                  Sees(A, n) = Sees(R, n)
    BY <2>1, AddonSees
  <2>4. all = source.parameters
    <3>1. DOMAIN <<>> = {}
      OBVIOUS
    <3>2. all = [k \in DOMAIN source.parameters |-> source.parameters[k]]
      BY <1>9, <3>1 DEF RestoreParameters
    <3>3. QED
      BY <3>2 DEF ProperSource
  <2>5. ASSUME NEW k \in keys
        PROVE  Sees(A, ParameterKey(k)) =
                  Sees(BackupPod(source, storage, template, <<>>).addon, ParameterKey(k))
    <3> DEFINE n == ParameterKey(k)
    <3>1. Family(n) = "PARAM"
      BY <1>4
    <3>2. Sees(A, n) = IF Has(template, n) THEN Sees(template, n)
                       ELSE Sees(ParameterEnv(source.parameters), n)
      BY <2>4, <3>1, AddonSees
    <3>3. QED
      BY <3>1, <3>2, BackupParameters
  <2> HIDE DEF A, R
  <2>6. SeesAll(A, R, template)
    BY <2>2, <2>3, SeesAllIs DEF Of
  <2>7. QED
    BY <2>5, <2>6 DEF R
<1> HIDE DEF A, e, keys, secrets
<1>10. /\ \A n \in EndpointNames : Positions(template, n) = {} => Sees(A, n) = Sees(EndpointEnv(e), n)
       /\ \A k \in DOMAIN job.parameters :
             Alone(k, keys, ParameterKey) /\ Positions(template, ParameterKey(k)) = {} =>
                Sees(A, ParameterKey(k)) = job.parameters[k]
       /\ \A i \in DOMAIN job.secretRefs :
             Alone(job.secretRefs[i].name, secrets, SecretKey)
                /\ Positions(template, SecretKey(job.secretRefs[i].name)) = {} =>
                Sees(A, SecretKey(job.secretRefs[i].name)) = job.secretRefs[i].ref
  BY <1>0, <1>2, <1>5, <1>8
<1>11. QED
  BY <1>1, <1>9, <1>10 DEF RestoreAsAsked, StorageAndArtifact, A, e, keys, secrets

----------------------------------------------------------------------------
(* The environments that are asked about *)

(* The names that are asked about are sequences.                            *)
LEMMA NamesAreSequences ==
    \A name \in {LikeStorage, Dashed, Underscore} : name \in Seq(Range(name))
<1>1. \E V : LikeStorage \in Seq(V)
  <2>1. <<"NFS", "PATH">> \in Seq({"NFS", "PATH"}) /\ <<"NFS", "PATH">> # <<>>
    OBVIOUS
  <2>2. LikeStorage \in Seq({"NFS", "PATH"} \cup {"DP", "_"})
    BY <2>1, DPIs DEF LikeStorage
  <2>3. QED
    BY <2>2
<1>2. \E V : Dashed \in Seq(V)
  <2>1. <<"a", "-", "A">> \in Seq({"a", "-", "A"})
    OBVIOUS
  <2>2. QED
    BY <2>1 DEF Dashed
<1>3. \E V : Underscore \in Seq(V)
  <2>1. <<"a", "_", "a">> \in Seq({"a", "_"})
    OBVIOUS
  <2>2. QED
    BY <2>1 DEF Underscore
<1>4. QED
  BY <1>1, <1>2, <1>3, ListOf DEF IsList

(* The name of a reference.                                                 *)
LEMMA RefIs == ASSUME NEW n, NEW v PROVE Ref(n, v).name = n
  BY DEF Ref

(* The references that are asked about have a name each.                    *)
LEMMA RefsAreProper == ASSUME NEW v, NEW refs \in Refs(v) PROVE ProperRefs(refs)
<1> DEFINE Names3 == {LikeStorage, Dashed, Underscore}
<1>1. ASSUME NEW n \in Names3 PROVE ProperRefs(<<Ref(n, v)>>)
  <2> DEFINE r == Ref(n, v)
  <2>1. r.name = n /\ n \in Seq(Range(n))
    BY RefIs, NamesAreSequences
  <2> HIDE DEF r
  <2>2. IsList(<<r>>) /\ DOMAIN <<r>> = {1} /\ <<r>>[1] = r
    BY OneVariable
  <2>3. Distinct(<<r>>)
    BY <2>2 DEF Distinct
  <2>4. ProperRefs(<<r>>)
    BY <2>1, <2>2, <2>3 DEF ProperRefs
  <2>5. QED
    BY <2>4 DEF r
<1>2. ProperRefs(<<Ref(Dashed, v), Ref(Underscore, v)>>)
  <2> DEFINE r == Ref(Dashed, v)
             s == Ref(Underscore, v)
  <2>1. /\ r.name = Dashed /\ Dashed \in Seq(Range(Dashed))
        /\ s.name = Underscore /\ Underscore \in Seq(Range(Underscore))
    BY RefIs, NamesAreSequences
  <2>2. Dashed # Underscore
    <3>1. Dashed[3] = "A" /\ Underscore[3] = "a"
      BY DEF Dashed, Underscore
    <3>2. QED
      BY <3>1
  <2> HIDE DEF r, s
  <2>3. <<r, s>> \in Seq({r, s}) /\ DOMAIN <<r, s>> = 1..2 /\ <<r, s>>[1] = r /\ <<r, s>>[2] = s
    OBVIOUS
  <2>4. IsList(<<r, s>>) /\ \A i \in 1..2 : i = 1 \/ i = 2
    <3>1. IsList(<<r, s>>)
      BY <2>3, ListOf
    <3>2. QED
      BY <3>1
  <2>5. Distinct(<<r, s>>)
    BY <2>1, <2>2, <2>3, <2>4 DEF Distinct
  <2>6. \A i \in DOMAIN <<r, s>> : <<r, s>>[i].name \in Seq(Range(<<r, s>>[i].name))
    BY <2>1, <2>3, <2>4
  <2>7. ProperRefs(<<r, s>>)
    BY <2>4, <2>5, <2>6 DEF ProperRefs
  <2>8. QED
    BY <2>7 DEF r, s
<1>3. ProperRefs(<<>>)
  <2>1. DOMAIN <<>> = {}
    OBVIOUS
  <2>2. QED
    BY <2>1, NoVariable DEF ProperRefs, Distinct
<1>4. QED
  BY <1>1, <1>2, <1>3 DEF Refs

(* The parameters that are asked about are maps.                            *)
LEMMA AssignedIs ==
    ASSUME NEW keys, NEW v, NEW p \in Assigned(keys, v)
    PROVE  DOMAIN p \subseteq keys /\ p = [k \in DOMAIN p |-> p[k]]
  BY DEF Assigned

(* The keys that are asked about are sorted.                                *)
LEMMA KeysAreSorted == {LikeStorage, Dashed, Underscore} \subseteq Range(SortedKeys)
<1>1. /\ DOMAIN MCSortedKeys = 1..3 /\ MCSortedKeys[1] = LikeStorage
      /\ MCSortedKeys[2] = Dashed /\ MCSortedKeys[3] = Underscore
  BY DEF MCSortedKeys
<1>2. {LikeStorage, Dashed, Underscore} \subseteq Range(MCSortedKeys)
  BY <1>1 DEF Range
<1>3. QED
  BY <1>2, MCKeysAssumption

(* The sources that are asked about satisfy what the theorems ask of them.  *)
LEMMA SourcesAreProper == ASSUME NEW source \in MCRenderedSources PROVE ProperSource(source)
<1>1. source.secretRefs \in Refs("source") /\ source.parameters \in Assigned(Range(MCSortedKeys), "source")
  BY DEF MCRenderedSources
<1>2. QED
  BY <1>1, RefsAreProper, AssignedIs, MCKeysAssumption DEF ProperSource

(* So do the restores.                                                      *)
LEMMA RestoresAreProper == ASSUME NEW job \in MCRenderedRestores PROVE ProperJob(job)
<1>1. job.secretRefs \in Refs("job") /\ job.parameters \in Assigned({LikeStorage, Underscore}, "job")
  BY DEF MCRenderedRestores
<1>2. {LikeStorage, Underscore} \subseteq Range(SortedKeys)
  BY KeysAreSorted
<1>3. QED
  BY <1>1, <1>2, RefsAreProper, AssignedIs DEF ProperJob

(* The environments of the templates that are asked about are lists.        *)
LEMMA TemplatesAreLists == ASSUME NEW template \in MCTemplateEnvs PROVE IsList(template)
<1>1. ASSUME NEW a, NEW b, NEW c PROVE IsList(<<a, b, c>>)
  <2> DEFINE V == {a, b, c}
  <2>1. <<a, b, c>> \in Seq(V)
    OBVIOUS
  <2> HIDE DEF V
  <2>2. QED
    BY <2>1, ListOf
<1>2. QED
  BY <1>1, NoVariable DEF MCTemplateEnvs

(* The variables of a run are its own. *)
LEMMA RunsHaveOwnVariables == OwnVariables(MCExecutionEnv) /\ OwnVariables(MCArtifactEnv)
<1> DEFINE F == {"SERIES", "BACKEND", "KEEP", "ARTIFACT"}
<1>1. \A f \in F : f \notin TakenFamilies
  BY DEF TakenFamilies
<1>2. "SERIES" \in F /\ "BACKEND" \in F /\ "KEEP" \in F /\ "ARTIFACT" \in F
  OBVIOUS
<1> HIDE DEF F
<1>3. /\ Family(DP(<<"SERIES">>)) \in F /\ Family(DP(<<"BACKEND", "PATH">>)) \in F
      /\ Family(DP(<<"KEEP", "LAST">>)) \in F /\ Family(DP(<<"ARTIFACT", "PATH">>)) \in F
  BY <1>2, FamilyIn
<1>4. Of(MCExecutionEnv, F) /\ Of(MCArtifactEnv, F)
  BY <1>3, OneOf, MoreOf DEF MCExecutionEnv, MCArtifactEnv
<1>5. QED
  BY <1>1, <1>4 DEF Of, OwnVariables

(* Once the environments are asked about, the input is a source, a storage  *)
(* and a template.                                                          *)
LEMMA AskedEnvironments ==
    ASSUME InputIs, Asked("source")
    PROVE  input.source \in MCRenderedSources /\ input.template \in MCTemplateEnvs
<1>1. input # <<>>
  <2>1. DOMAIN <<>> = {}
    OBVIOUS
  <2>2. QED
    BY <2>1 DEF Asked
<1>2. \A x \in [names : {MCNames}] : DOMAIN x = {"names"}
  OBVIOUS
<1>3. \A x \in [path : MCPaths] : DOMAIN x = {"path"}
  OBVIOUS
<1>4. input \in [source : MCRenderedSources, storage : MCRenderedStorages, template : MCTemplateEnvs]
  <2>1. \/ input \in [names : {MCNames}] \/ input \in [path : MCPaths]
        \/ input \in [source : MCRenderedSources, storage : MCRenderedStorages,
                      template : MCTemplateEnvs]
    BY <1>1 DEF InputIs, Inputs
  <2>2. "source" \notin {"names"} /\ "source" \notin {"path"}
    OBVIOUS
  <2>3. "source" \in DOMAIN input
    BY DEF Asked
  <2>4. QED
    BY <1>2, <1>3, <2>1, <2>2, <2>3, Zenon
<1>5. QED
  BY <1>4

(* The containers of backups and restores see what they are to see          *)
(* (runtime_helpers.go).                                                   *)
THEOREM ContainersAreToldAsAsked == MCSpec => []RenderedAsAsked
<1>1. MCInit => InputIs
  BY DEF MCInit, InputIs
<1>2. InputIs /\ [Ask \/ Forget \/ Act]_<<vars, input>> => InputIs'
  BY DEF InputIs, Ask, Forget, Act, Inputs
<1>3. InputIs => RenderedAsAsked
  <2>1. SUFFICES ASSUME InputIs, Asked("source") PROVE RenderedAsAsked
    BY DEF RenderedAsAsked
  <2>2. ProperSource(input.source) /\ IsList(input.template)
    BY <2>1, AskedEnvironments, SourcesAreProper, TemplatesAreLists
  <2>3. BackupAsAsked(input.source, input.storage, input.template, MCExecutionEnv)
    BY <2>2, RunsHaveOwnVariables, BackupsAreToldAsAsked
  <2>4. ASSUME NEW job \in MCRenderedRestores
        PROVE  RestoreAsAsked(input.source, job, input.storage, input.template, MCArtifactEnv)
    <3>1. ProperJob(job)
      BY RestoresAreProper
    <3>2. QED
      BY <2>2, <3>1, RunsHaveOwnVariables, RestoresAreToldAsAsked
  <2>5. QED
    BY <2>3, <2>4 DEF RenderedAsAsked
<1>4. QED
  BY <1>1, <1>2, <1>3, PTL DEF MCSpec
=============================================================================
