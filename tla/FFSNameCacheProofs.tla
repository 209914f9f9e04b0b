------------------------- MODULE FFSNameCacheProofs -------------------------
(* Theorems about FFSNameCache, for every disk, every set of MCBs, handles *)
(* and names and every limit: the tree and the list of the cache stay      *)
(* sound whatever is reaped, and no create can tell what is cached.        *)
EXTENDS FFSNameCache, FiniteSetTheorems, SequenceTheorems, TLAPS

-----------------------------------------------------------------------------
(* Counting up, and functions that are defined by it *)

(* A set that has 0 and with a number below n the next one has them all. *)
LEMMA Ascent ==
  ASSUME NEW n \in Nat, NEW D, 0 \in D, \A k \in 0 .. n : k \in D /\ k < n => k + 1 \in D
  PROVE  0 .. n \subseteq D
<1> SUFFICES ASSUME NEW y \in 0 .. n, y \notin D PROVE FALSE
  OBVIOUS
<1> DEFINE T == { k \in 0 .. n : k \in D /\ k < y }
           f == [k \in T |-> k + 1]
<1>1. IsFiniteSet(T)
  <2>1. T \in SUBSET Nat /\ n \in Nat /\ \A k \in T : k <= n
    OBVIOUS
  <2> HIDE DEF T
  <2>. QED BY <2>1, FS_BoundedSetOfNaturals
<1>2. 0 \in T
  <2>1. y # 0 OBVIOUS
  <2>. QED BY <2>1
<1>3. f \in Injection(T, T)
  <2>1. \A k \in T : k \in Nat /\ k + 1 \in T
    <3> TAKE k \in T
    <3>1. k \in 0 .. n /\ k < y /\ k + 1 \in D /\ k + 1 # y
      OBVIOUS
    <3>. QED BY <3>1
  <2> HIDE DEF T
  <2>2. f \in [T -> T]
    BY <2>1
  <2>3. \A a, b \in T : f[a] = f[b] => a = b
    BY <2>1
  <2>. QED BY <2>2, <2>3 DEF Injection, IsInjective
<1>4. f \in Surjection(T, T)
  BY <1>1, <1>3, FS_Injection
<1>5. PICK k \in T : f[k] = 0
  BY <1>2, <1>4 DEF Surjection
<1>. QED BY <1>5

(* A set of numbers has a least one. *)
LEMMA Least ==
  ASSUME NEW S \in SUBSET Nat, NEW x \in S
  PROVE  \E e \in S : \A y \in S : e <= y
<1> SUFFICES ASSUME \A e \in S : \E y \in S : y < e PROVE FALSE
  OBVIOUS
<1> DEFINE D == { k \in Nat : \A y \in S : k <= y }
<1>1. 0 \in D
  OBVIOUS
<1>2. ASSUME NEW k \in 0 .. x + 1, k \in D, k < x + 1 PROVE k + 1 \in D
  <2>1. k \notin S
    BY <1>2
  <2>2. \A y \in S : k <= y /\ k # y
    BY <1>2, <2>1
  <2>. QED BY <2>2
<1> HIDE DEF D
<1>3. x + 1 \in Nat /\ x + 1 \in 0 .. x + 1 /\ ~ (x + 1 <= x)
  OBVIOUS
<1>4. x + 1 \in D
  <2>1. 0 .. x + 1 \subseteq D
    BY <1>1, <1>2, <1>3, Ascent
  <2>. QED BY <1>3, <2>1
<1>. QED BY <1>3, <1>4 DEF D

(* A function that is defined step by step exists. *)
StepByStep(f, n, a, step) ==
  f = [k \in 0 .. n |-> IF k = 0 THEN a ELSE step[k][f[k - 1]]]

(* A function that is defined step by step exists, and is of its type. *)
LEMMA Recursion ==
  ASSUME NEW n \in Nat, NEW T, NEW a \in T[0], NEW step,
         \A k \in 1 .. n : step[k] \in [T[k - 1] -> T[k]]
  PROVE  \E f : StepByStep(f, n, a, step) /\ \A k \in 0 .. n : f[k] \in T[k]
<1> DEFINE Fits(m, f) == /\ f = [k \in 0 .. m |-> IF k = 0 THEN a ELSE step[k][f[k - 1]]]
                         /\ \A k \in 0 .. m : f[k] \in T[k]
           D == { m \in 0 .. n : \E f : Fits(m, f) }
<1>1. 0 \in D
  <2>1. Fits(0, [k \in 0 .. 0 |-> a])
    OBVIOUS
  <2> HIDE DEF Fits
  <2>. QED BY <2>1
<1>2. ASSUME NEW m \in 0 .. n, m \in D, m < n PROVE m + 1 \in D
  <2>1. PICK f : Fits(m, f)
    BY <1>2
  <2> DEFINE g == [k \in 0 .. m + 1 |-> IF k = m + 1 THEN step[m + 1][f[m]] ELSE f[k]]
  <2>2. step[m + 1][f[m]] \in T[m + 1]
    <3>1. step[m + 1] \in [T[(m + 1) - 1] -> T[m + 1]] /\ (m + 1) - 1 = m
      BY <1>2
    <3>2. f[m] \in T[m]
      BY <2>1
    <3>. QED BY <3>1, <3>2
  <2>3. \A k \in 0 .. m + 1 : g[k] \in T[k]
    <3>1. \A k \in 0 .. m : f[k] \in T[k]
      BY <2>1
    <3>2. \A k \in 0 .. m + 1 : k = m + 1 \/ k \in 0 .. m
      OBVIOUS
    <3> HIDE DEF Fits
    <3>. QED BY <2>2, <3>1, <3>2
  <2>4. \A k \in 0 .. m + 1 : g[k] = IF k = 0 THEN a ELSE step[k][g[k - 1]]
    <3>1. \A k \in 0 .. m : f[k] = IF k = 0 THEN a ELSE step[k][f[k - 1]]
      BY <2>1
    <3> HIDE DEF Fits
    <3>2. ASSUME NEW k \in 0 .. m PROVE g[k] = IF k = 0 THEN a ELSE step[k][g[k - 1]]
      <4>1. k # m + 1 /\ k - 1 # m + 1 /\ (k # 0 => k - 1 \in 0 .. m + 1)
        OBVIOUS
      <4>. QED BY <3>1, <4>1
    <3>3. g[m + 1] = step[m + 1][g[(m + 1) - 1]] /\ m + 1 # 0
      OBVIOUS
    <3>4. \A k \in 0 .. m + 1 : k = m + 1 \/ k \in 0 .. m
      OBVIOUS
    <3> HIDE DEF g
    <3>. QED BY <3>2, <3>3, <3>4
  <2>5. g = [k \in 0 .. m + 1 |-> g[k]]
    OBVIOUS
  <2>6. g = [k \in 0 .. m + 1 |-> IF k = 0 THEN a ELSE step[k][g[k - 1]]]
    <3> HIDE DEF g, Fits
    <3>. QED BY <2>4, <2>5
  <2>7. Fits(m + 1, g)
    <3> HIDE DEF g
    <3>. QED BY <2>3, <2>6
  <2>8. m + 1 \in 0 .. n
    BY <1>2
  <2> HIDE DEF g, Fits
  <2>. QED BY <2>7, <2>8
<1> HIDE DEF Fits
<1>3. n \in D
  <2> HIDE DEF D
  <2>1. 0 .. n \subseteq D
    BY <1>1, <1>2, Ascent
  <2>. QED BY <2>1
<1>4. PICK f : Fits(n, f)
  BY <1>3
<1>. QED BY <1>4 DEF Fits, StepByStep

-----------------------------------------------------------------------------
(* Lists without duplicates *)

(* RemoveAt and RemoveFirst, element by element *)
LEMMA RemoveAtIs ==
  ASSUME NEW S, NEW s \in Seq(S), NEW i \in 1 .. Len(s)
  PROVE  /\ RemoveAt(s, i) \in Seq(S) /\ Len(RemoveAt(s, i)) = Len(s) - 1
         /\ \A j \in 1 .. Len(s) - 1 : RemoveAt(s, i)[j] = IF j < i THEN s[j] ELSE s[j + 1]
<1> DEFINE a == SubSeq(s, 1, i - 1)
           b == SubSeq(s, i + 1, Len(s))
<1>0. Len(s) \in Nat /\ i \in Nat /\ \A j \in 1 .. Len(s) : s[j] \in S
  OBVIOUS
<1>1. /\ a \in Seq(S) /\ Len(a) = i - 1
      /\ \A j \in 1 .. i - 1 : a[j] = s[j]
  BY <1>0
<1>2. /\ b \in Seq(S) /\ Len(b) = Len(s) - i
      /\ \A j \in 1 .. Len(s) - i : b[j] = s[i + j]
  BY <1>0
<1>3. RemoveAt(s, i) = a \o b BY DEF RemoveAt
<1> HIDE DEF a, b
<1>4. /\ a \o b \in Seq(S) /\ Len(a \o b) = Len(a) + Len(b)
      /\ \A j \in 1 .. Len(a) + Len(b) : (a \o b)[j] = IF j <= Len(a) THEN a[j] ELSE b[j - Len(a)]
  BY <1>1, <1>2, ConcatProperties
<1>5. ASSUME NEW j \in 1 .. Len(s) - 1
      PROVE  (a \o b)[j] = IF j < i THEN s[j] ELSE s[j + 1]
  <2>0. j \in 1 .. Len(a) + Len(b)
    BY <1>0, <1>1, <1>2
  <2>1. CASE j < i BY <1>0, <1>1, <1>4, <2>0, <2>1
  <2>2. CASE ~ (j < i)
    <3> DEFINE x == j - (i - 1)
    <3>1. x \in 1 .. Len(s) - i /\ i + x = j + 1 BY <1>0, <2>2
    <3>2. (a \o b)[j] = b[x] BY <1>0, <1>1, <1>4, <2>0, <2>2
    <3>3. b[x] = s[i + x] BY <1>2, <3>1
    <3>. QED BY <2>2, <3>1, <3>2, <3>3
  <2>. QED BY <2>1, <2>2
<1>6. Len(a \o b) = Len(s) - 1
  BY <1>0, <1>1, <1>2, <1>4
<1>. QED BY <1>3, <1>4, <1>5, <1>6

(* Without repetitions the first one found is the one that was meant. *)
LEMMA RemoveIs ==
  ASSUME NEW S, NEW s \in Seq(S), IsInjective(s), NEW i \in 1 .. Len(s)
  PROVE  RemoveFirst(s, s[i]) = RemoveAt(s, i)
<1>1. { j \in 1 .. Len(s) : s[j] = s[i] } = {i}
  BY DEF IsInjective
<1>2. SelectInSeq(s, LAMBDA v : v = s[i]) = i
  BY <1>1 DEF SelectInSeq, Min
<1>. QED BY <1>2 DEF RemoveFirst

(* What is removed is gone, and the others stay. *)
LEMMA Removed ==
  ASSUME NEW S, NEW s \in Seq(S), IsInjective(s), NEW e \in ToSet(s)
  PROVE  /\ RemoveFirst(s, e) \in Seq(S) /\ IsInjective(RemoveFirst(s, e))
         /\ ToSet(RemoveFirst(s, e)) = ToSet(s) \ {e}
         /\ Len(RemoveFirst(s, e)) = Len(s) - 1
<1>1. PICK i \in 1 .. Len(s) : s[i] = e
  BY DEF ToSet
<1> DEFINE r == RemoveAt(s, i)
           n == Len(s) - 1
<1>2. r = RemoveFirst(s, e)
  BY <1>1, RemoveIs
<1>3. /\ r \in Seq(S) /\ Len(r) = n
      /\ \A j \in 1 .. n : r[j] = IF j < i THEN s[j] ELSE s[j + 1]
  BY RemoveAtIs
<1>4. Len(s) \in Nat /\ n \in Nat /\ i \in Nat /\ i <= Len(s) /\ DOMAIN s = 1 .. Len(s) /\ DOMAIN r = 1 .. n
  BY <1>1, <1>3
<1> HIDE DEF r
<1>5. \A j, k \in 1 .. Len(s) : s[j] = s[k] => j = k
  BY <1>4 DEF IsInjective
<1>6. ASSUME NEW j \in 1 .. n
      PROVE  \E k \in 1 .. Len(s) : r[j] = s[k] /\ k # i /\ k = (IF j < i THEN j ELSE j + 1)
  <2>1. j \in 1 .. Len(s) /\ j + 1 \in 1 .. Len(s)
    BY <1>4
  <2>2. CASE j < i
    BY <1>3, <1>4, <2>1, <2>2
  <2>3. CASE ~(j < i)
    <3>1. j + 1 # i
      BY <1>4, <2>3
    <3>. QED BY <1>3, <2>1, <2>3, <3>1
  <2>. QED BY <2>2, <2>3
<1>7. IsInjective(r)
  <2>1. ASSUME NEW j \in 1 .. n, NEW k \in 1 .. n, r[j] = r[k] PROVE j = k
    <3>1. PICK a \in 1 .. Len(s) : r[j] = s[a] /\ a = (IF j < i THEN j ELSE j + 1)
      BY <1>6
    <3>2. PICK b \in 1 .. Len(s) : r[k] = s[b] /\ b = (IF k < i THEN k ELSE k + 1)
      BY <1>6
    <3>3. a = b
      BY <1>5, <2>1, <3>1, <3>2
    <3>. QED BY <1>4, <3>1, <3>2, <3>3
  <2>. QED BY <1>4, <2>1 DEF IsInjective
<1>8. ToSet(r) \subseteq ToSet(s) \ {e}
  <2> SUFFICES ASSUME NEW j \in 1 .. n PROVE r[j] \in ToSet(s) \ {e}
    BY <1>4 DEF ToSet
  <2>1. PICK k \in 1 .. Len(s) : r[j] = s[k] /\ k # i
    BY <1>6
  <2>. QED BY <1>1, <1>4, <1>5, <2>1 DEF ToSet
<1>9. ASSUME NEW x \in ToSet(s) \ {e} PROVE x \in ToSet(r)
  <2>1. PICK j \in 1 .. Len(s) : s[j] = x
    BY DEF ToSet
  <2>2. CASE j < i
    <3>1. j \in 1 .. n /\ r[j] = x BY <1>3, <1>4, <2>1, <2>2
    <3>. QED BY <1>4, <3>1 DEF ToSet
  <2>3. CASE j > i
    <3>1. j - 1 \in 1 .. n /\ ~ (j - 1 < i) /\ (j - 1) + 1 = j BY <1>4, <2>3
    <3>2. r[j - 1] = x BY <1>3, <2>1, <3>1
    <3>. QED BY <1>4, <3>1, <3>2 DEF ToSet
  <2>4. j # i BY <1>1, <2>1
  <2>. QED BY <1>4, <2>2, <2>3, <2>4
<1>. QED BY <1>2, <1>3, <1>7, <1>8, <1>9

(* What is appended is there, behind the others. *)
LEMMA Appended ==
  ASSUME NEW S, NEW s \in Seq(S), IsInjective(s), NEW e \in S, e \notin ToSet(s)
  PROVE  /\ Append(s, e) \in Seq(S) /\ IsInjective(Append(s, e))
         /\ ToSet(Append(s, e)) = ToSet(s) \cup {e}
         /\ Len(Append(s, e)) = Len(s) + 1
<1> DEFINE t == Append(s, e)
<1>1. /\ Len(s) \in Nat /\ t \in Seq(S) /\ Len(t) = Len(s) + 1 /\ DOMAIN s = 1 .. Len(s)
      /\ DOMAIN t = 1 .. Len(s) + 1
      /\ t[Len(s) + 1] = e /\ \A i \in 1 .. Len(s) : t[i] = s[i]
  OBVIOUS
<1>2. \A i \in 1 .. Len(s) : s[i] # e
  BY <1>1 DEF ToSet
<1>3. \A i \in 1 .. Len(s) + 1 : i = Len(s) + 1 \/ i \in 1 .. Len(s)
  BY <1>1
<1> HIDE DEF t
<1>4. IsInjective(t)
  BY <1>1, <1>2, <1>3 DEF IsInjective
<1>5. ToSet(t) = ToSet(s) \cup {e}
  <2>1. Len(s) + 1 \in 1 .. Len(s) + 1 /\ \A i \in 1 .. Len(s) : i \in 1 .. Len(s) + 1
    BY <1>1
  <2>. QED BY <1>1, <1>3, <2>1 DEF ToSet
<1>. QED BY <1>1, <1>4, <1>5 DEF t

-----------------------------------------------------------------------------
(* Paths *)

(* Where the first j components of a path lead *)
Along(start, path, j) == Resolve(start, SubSeq(path, 1, j))

(* Resolve goes down the path one directory at a time. *)
LEMMA ResolveIs ==
  ASSUME NEW start, NEW path \in Seq(Names)
  PROVE  \E at :
           /\ at = [k \in 0 .. Len(path) |->
                      IF k = 0 THEN start
                      ELSE IF IsDir(at[k - 1]) THEN Find(at[k - 1], path[k]) ELSE NoIno]
           /\ Resolve(start, path) = at[Len(path)]
<1> DEFINE n == Len(path)
           U == {start, NoIno} \cup { Find(d, c) : d \in DOMAIN Dir, c \in Names }
           step == [k \in 1 .. n |-> [x \in U |-> IF IsDir(x) THEN Find(x, path[k]) ELSE NoIno]]
           T == [k \in 0 .. n |-> U]
           at == CHOOSE at : at = [k \in 0 .. n |->
                      IF k = 0 THEN start
                      ELSE IF IsDir(at[k - 1]) THEN Find(at[k - 1], path[k]) ELSE NoIno]
<1>1. n \in Nat /\ \A k \in 1 .. n : path[k] \in Names
  OBVIOUS
<1>2. start \in U /\ NoIno \in U /\ \A d, c : IsDir(d) /\ c \in Names => Find(d, c) \in U
  BY DEF IsDir
<1> HIDE DEF U, n
<1>3. start \in T[0]
  BY <1>1, <1>2
<1>4. \A k \in 1 .. n : step[k] \in [T[k - 1] -> T[k]]
  <2> TAKE k \in 1 .. n
  <2>1. k \in 0 .. n /\ k - 1 \in 0 .. n
    BY <1>1
  <2>2. T[k] = U /\ T[k - 1] = U
    BY <2>1
  <2>3. step[k] = [x \in U |-> IF IsDir(x) THEN Find(x, path[k]) ELSE NoIno]
    OBVIOUS
  <2>4. \A x \in U : (IF IsDir(x) THEN Find(x, path[k]) ELSE NoIno) \in U
    BY <1>1, <1>2
  <2> HIDE DEF step, T
  <2>. QED BY <2>2, <2>3, <2>4
<1>5. PICK f : StepByStep(f, n, start, step) /\ \A k \in 0 .. n : f[k] \in T[k]
  <2> HIDE DEF T, step
  <2>. QED BY <1>1, <1>3, <1>4, Recursion
<1>6. f = [k \in 0 .. n |-> IF k = 0 THEN start
                            ELSE IF IsDir(f[k - 1]) THEN Find(f[k - 1], path[k]) ELSE NoIno]
  <2>1. ASSUME NEW k \in 0 .. n, k # 0
        PROVE  step[k][f[k - 1]] = IF IsDir(f[k - 1]) THEN Find(f[k - 1], path[k]) ELSE NoIno
    <3>1. k \in 1 .. n /\ k - 1 \in 0 .. n
      BY <1>1, <2>1
    <3>2. f[k - 1] \in U
      BY <1>5, <3>1
    <3>. QED BY <3>1, <3>2
  <2> HIDE DEF step, T
  <2>. QED BY <1>5, <2>1 DEF StepByStep
<1>7. at = [k \in 0 .. n |-> IF k = 0 THEN start
                            ELSE IF IsDir(at[k - 1]) THEN Find(at[k - 1], path[k]) ELSE NoIno]
  BY <1>6
<1>8. Resolve(start, path) = at[n]
  BY DEF Resolve, n
<1> HIDE DEF at
<1>. QED BY <1>7, <1>8 DEF n

(* Every component is looked up in the directory before it. *)
LEMMA AlongIs ==
  ASSUME NEW start, NEW path \in Seq(Names)
  PROVE  /\ Along(start, path, 0) = start
         /\ Along(start, path, Len(path)) = Resolve(start, path)
         /\ \A j \in 1 .. Len(path) :
              Along(start, path, j) = IF IsDir(Along(start, path, j - 1))
                                      THEN Find(Along(start, path, j - 1), path[j]) ELSE NoIno
<1> DEFINE n == Len(path)
<1>1. PICK at :
           /\ at = [k \in 0 .. n |->
                      IF k = 0 THEN start
                      ELSE IF IsDir(at[k - 1]) THEN Find(at[k - 1], path[k]) ELSE NoIno]
           /\ Resolve(start, path) = at[n]
  BY ResolveIs
<1>2. n \in Nat
  OBVIOUS
<1>3. ASSUME NEW j \in 0 .. n PROVE Along(start, path, j) = at[j]
  <2> DEFINE p == SubSeq(path, 1, j)
  <2>1. p \in Seq(Names) /\ Len(p) = j /\ \A k \in 1 .. j : p[k] = path[k]
    OBVIOUS
  <2> HIDE DEF p
  <2>2. PICK to :
           /\ to = [k \in 0 .. Len(p) |->
                      IF k = 0 THEN start
                      ELSE IF IsDir(to[k - 1]) THEN Find(to[k - 1], p[k]) ELSE NoIno]
           /\ Resolve(start, p) = to[Len(p)]
    BY <2>1, ResolveIs
  <2> DEFINE D == { k \in 0 .. j : to[k] = at[k] }
  <2>3. 0 \in D
    BY <1>1, <1>2, <2>1, <2>2
  <2>4. ASSUME NEW k \in 0 .. j, k \in D, k < j PROVE k + 1 \in D
    <3>1. /\ k + 1 \in 0 .. n /\ k + 1 \in 0 .. j /\ k + 1 \in 1 .. j /\ k + 1 # 0 /\ (k + 1) - 1 = k
      BY <1>2, <2>4
    <3>2. at[k + 1] = IF IsDir(at[k]) THEN Find(at[k], path[k + 1]) ELSE NoIno
      BY <1>1, <3>1
    <3>3. to[k + 1] = IF IsDir(to[k]) THEN Find(to[k], p[k + 1]) ELSE NoIno
      BY <2>1, <2>2, <3>1
    <3>. QED BY <2>1, <2>4, <3>1, <3>2, <3>3
  <2> HIDE DEF D
  <2>5. 0 .. j \subseteq D
    BY <2>3, <2>4, Ascent
  <2>6. to[j] = at[j]
    <3>1. j \in 0 .. j
      OBVIOUS
    <3>. QED BY <2>5, <3>1 DEF D
  <2>. QED BY <2>1, <2>2, <2>6 DEF Along, p
<1>4. ASSUME NEW j \in 1 .. n
      PROVE  at[j] = IF IsDir(at[j - 1]) THEN Find(at[j - 1], path[j]) ELSE NoIno
  <2>1. j \in 0 .. n /\ j # 0
    OBVIOUS
  <2>. QED BY <1>1, <2>1
<1>5. at[0] = start
  BY <1>1, <1>2
<1>6. \A j \in 1 .. n : j \in 0 .. n /\ j - 1 \in 0 .. n
  OBVIOUS
<1> HIDE DEF n
<1>. QED BY <1>1, <1>2, <1>3, <1>4, <1>5, <1>6 DEF n

(* Below a file there is nothing. *)
LEMMA NothingBelow ==
  ASSUME NEW start, NEW path \in Seq(Names), NEW j \in 0 .. Len(path) - 1,
         ~IsDir(Along(start, path, j))
  PROVE  Resolve(start, path) = NoIno
<1> DEFINE n == Len(path) - (j + 1)
           D == { k \in 0 .. n : Along(start, path, (j + 1) + k) = NoIno }
<1>1. n \in Nat /\ Len(path) \in Nat /\ j \in Nat
  OBVIOUS
<1>2. ~IsDir(NoIno)
  BY DiskAssumption DEF IsDir, NoIno
<1>3. 0 \in D
  <2> DEFINE x == j + 1
  <2>1. x \in 1 .. Len(path) /\ x - 1 = j /\ x + 0 = x
    OBVIOUS
  <2> HIDE DEF x, n
  <2>2. Along(start, path, x) = NoIno
    BY <2>1, AlongIs
  <2>. QED BY <1>1, <2>1, <2>2 DEF x
<1>4. ASSUME NEW k \in 0 .. n, k \in D, k < n PROVE k + 1 \in D
  <2> DEFINE x == (j + 1) + (k + 1)
  <2>1. x \in 1 .. Len(path) /\ x - 1 = (j + 1) + k /\ k + 1 \in 0 .. n
    BY <1>1, <1>4
  <2>2. Along(start, path, x - 1) = NoIno
    BY <1>4, <2>1
  <2> HIDE DEF x, n
  <2>3. Along(start, path, x) = NoIno
    BY <1>2, <2>1, <2>2, AlongIs
  <2>. QED BY <2>1, <2>3 DEF x
<1>5. n \in D
  <2> HIDE DEF D, n
  <2>1. 0 .. n \subseteq D
    BY <1>1, <1>3, <1>4, Ascent
  <2>. QED BY <1>1, <2>1
<1>6. (j + 1) + n = Len(path)
  BY <1>1
<1>. QED BY <1>5, <1>6, AlongIs

(* One more component *)
LEMMA ResolveAppend ==
  ASSUME NEW start, NEW path \in Seq(Names), NEW n \in Names
  PROVE  Resolve(start, Append(path, n)) =
           IF IsDir(Resolve(start, path)) THEN Find(Resolve(start, path), n) ELSE NoIno
<1> DEFINE p == Append(path, n)
<1>1. /\ p \in Seq(Names) /\ Len(p) = Len(path) + 1 /\ p[Len(p)] = n /\ Len(path) \in Nat
      /\ Len(p) \in 1 .. Len(p) /\ Len(p) - 1 = Len(path)
  OBVIOUS
<1>2. SubSeq(p, 1, Len(path)) = path
  OBVIOUS
<1>3. Along(start, p, Len(p) - 1) = Resolve(start, path)
  BY <1>1, <1>2 DEF Along
<1> HIDE DEF p
<1>4. Resolve(start, p) = IF IsDir(Resolve(start, path)) THEN Find(Resolve(start, path), n) ELSE NoIno
  BY <1>1, <1>3, AlongIs
<1>. QED BY <1>4 DEF p

(* What is found on the disk is an inode. *)
LEMMA FindIs ==
  ASSUME NEW d, IsDir(d), NEW n
  PROVE  Find(d, n) \in Nat /\ (Find(d, n) # NoIno => Find(d, n) \in Inodes)
<1>1. CASE Matches(d, n) = {}
  BY <1>1 DEF Find, NoIno
<1>2. CASE Matches(d, n) # {}
  <2>1. Matches(d, n) \in SUBSET Nat /\ \A e \in Matches(d, n) : e \in 1 .. Len(Dir[d])
    BY DiskAssumption DEF Matches, IsDir
  <2>2. PICK e \in Matches(d, n) : \A x \in Matches(d, n) : e <= x
    BY <1>2, <2>1, Least
  <2>3. FirstMatch(d, n) \in Matches(d, n)
    BY <2>2 DEF FirstMatch
  <2>4. Find(d, n) = Dir[d][FirstMatch(d, n)].ino /\ FirstMatch(d, n) \in 1 .. Len(Dir[d])
    BY <1>2, <2>1, <2>3 DEF Find
  <2> DEFINE first == FirstMatch(d, n)
  <2> HIDE DEF first
  <2>5. /\ d \in DOMAIN Dir /\ Dir[d] \in Seq(Entry) /\ first \in 1 .. Len(Dir[d])
        /\ Find(d, n) = Dir[d][first].ino
    BY <2>4, DiskAssumption DEF IsDir, first
  <2>6. Dir[d][first] \in Entry
    BY <2>5
  <2>. QED BY <2>5, <2>6 DEF Entry, Inodes
<1>. QED BY <1>1, <1>2

(* Its specification sees the same disk. *)
LEMMA SameResolve ==
  ASSUME NEW start, NEW path
  PROVE  Lookup!Resolve(start, path) = Resolve(start, path)
BY DEF Lookup!Resolve, Resolve, Lookup!IsDir, IsDir, Lookup!Find, Find, Lookup!Matches, Matches,
       Lookup!FirstMatch, FirstMatch, Lookup!SameName, SameName, Lookup!NoIno, NoIno

-----------------------------------------------------------------------------
(* The inductive invariant *)

(* The tree and the list hold the same MCBs. *)
IsTree(tree, list) ==
  /\ DOMAIN tree \subseteq McbIds /\ tree \in [DOMAIN tree -> Node]
  /\ RootMcb \in DOMAIN tree /\ tree[RootMcb].parent = NoMcb
  /\ list \in Seq(McbIds) /\ IsInjective(list)
  /\ ToSet(list) = DOMAIN tree \ {RootMcb} /\ Len(list) = Cardinality(DOMAIN tree) - 1
  /\ \A m \in DOMAIN tree : IsInjective(tree[m].child)
  /\ \A m \in DOMAIN tree : \A c \in ToSet(tree[m].child) : c \in DOMAIN tree /\ tree[c].parent = m
  /\ \A m \in DOMAIN tree : \A c, d \in ToSet(tree[m].child) :
       SameName(tree[c].name, tree[d].name) => c = d
  /\ \A m \in DOMAIN tree \ {RootMcb} :
       tree[m].parent \in DOMAIN tree /\ m \in ToSet(tree[tree[m].parent].child)

(* Going up from anywhere ends at the root. *)
Rooted(tree) ==
  \A S \in SUBSET (DOMAIN tree \ {RootMcb}) : S # {} => \E x \in S : tree[x].parent \notin S

(* An MCB is what the directory of its parent says of its name. *)
IsOnDisk(tree) ==
  /\ tree[RootMcb].inode = RootIno
  /\ \A m \in DOMAIN tree : tree[m].isDir = IsDir(tree[m].inode)
  /\ \A m \in DOMAIN tree \ {RootMcb} :
       LET up == tree[tree[m].parent].inode IN
       IsDir(up) /\ tree[m].inode = Find(up, tree[m].name) /\ tree[m].inode # NoIno

On(m) == { h \in Handles : handle[h] = m }
OpenHandles == { h \in Handles : handle[h] # NoMcb }

(* An FCB is counted by the handles on it. *)
HandlesCount ==
  /\ handle \in [Handles -> McbIds \cup {NoMcb}] /\ IsFiniteSet(OpenHandles)
  /\ \A h \in OpenHandles : handle[h] \in Live /\ mcb[handle[h]].hasFcb
  /\ \A m \in Live : mcb[m].refs = Cardinality(On(m))

AllocatedCount ==
  /\ McbAllocated \in Nat /\ others \in 0 .. MaxOthers
  /\ McbAllocated = Cardinality(Live) + others

(* Where a create stands *)
Asked == [to |-> request.to, start |-> mcb[request.from].inode, path |-> request.path,
          slash |-> request.slash, want |-> request.want]
Prefix(j) == Along(mcb[request.from].inode, request.path, j)
Excused == hindered \/ NoIno \in Lookup!Answers(Asked)

RequestIsFair ==
  /\ request \in Request /\ request.path \in Paths
  /\ request.from \in Origins /\ handle[request.to] = NoMcb
  /\ request.path = <<>> => (request.slash <=> request.from = RootMcb)
  /\ look \in Look /\ look.parent \in Live /\ look.found \in {NoMcb, look.parent}

(* The first round: parent is where the components before k lead. *)
Forward ==
  ~look.dissecting =>
    /\ pc # "parent" /\ look.last = Len(request.path)
    /\ pc = "search" =>
         /\ request.path # <<>> /\ look.k \in 1 .. Len(request.path) + 1
         /\ mcb[look.parent].inode = Prefix(look.k - 1)
         /\ look.success <=> look.k > 1
         /\ look.success => look.found = look.parent
    /\ pc = "looked" /\ look.success /\ look.found # NoMcb =>
         /\ mcb[look.found].inode = Prefix(Len(request.path))
         /\ request.path = <<>> => request.slash
    /\ pc = "looked" /\ look.success /\ look.found = NoMcb =>
         /\ ~request.slash /\ Len(request.path) > 1
         /\ Prefix(Len(request.path) - 1) # NoIno /\ ~IsDir(Prefix(Len(request.path) - 1))
    /\ pc = "looked" /\ ~look.success => Excused

(* The second round: nothing will be opened. *)
Backward ==
  look.dissecting =>
    /\ Excused
    /\ pc # "parent" => look.last \in 1 .. Len(request.path) - 1
    /\ pc = "search" => look.k \in look.last .. look.last + 1 /\ (look.success <=> look.k > look.last)
    /\ pc # "parent" /\ look.success => look.found = look.parent

LookInv == pc # "idle" => RequestIsFair /\ Forward /\ Backward

CacheInv ==
  /\ IsTree(mcb, McbList) /\ Rooted(mcb) /\ IsOnDisk(mcb)
  /\ HandlesCount /\ AllocatedCount

IInv ==
  /\ CacheInv
  /\ pc \in {"idle", "search", "looked", "parent"} /\ hindered \in BOOLEAN /\ LookInv

-----------------------------------------------------------------------------
(* What the tree goes through *)

Sound(tree, list) == IsTree(tree, list) /\ Rooted(tree) /\ IsOnDisk(tree)

(* The MCBs of a tree can be counted. *)
LEMMA LiveIsFinite ==
  ASSUME NEW tree, NEW list, IsTree(tree, list)
  PROVE  /\ IsFiniteSet(DOMAIN tree) /\ Cardinality(DOMAIN tree) \in Nat
         /\ Cardinality(DOMAIN tree) >= 1
<1>1. IsFiniteSet(DOMAIN tree)
  BY CacheAssumption, FS_Subset DEF IsTree
<1>2. DOMAIN tree # {}
  BY DEF IsTree
<1>. QED BY <1>1, <1>2, FS_CardinalityType, FS_EmptySet

(* A new MCB: its parent is a directory where the name is, and had no child *)
(* of that name. *)
LEMMA AddedIsSound ==
  ASSUME NEW tree, NEW list, Sound(tree, list), NEW p \in DOMAIN tree,
         NEW m \in McbIds \ DOMAIN tree, NEW n \in Names,
         IsDir(tree[p].inode), Find(tree[p].inode, n) # NoIno,
         \A c \in ToSet(tree[p].child) : ~SameName(tree[c].name, n)
  PROVE  Sound(Added(tree, p, m, n, Find(tree[p].inode, n)), Append(list, m))
<1> DEFINE ino == Find(tree[p].inode, n)
           new == Added(tree, p, m, n, ino)
           D == DOMAIN tree
<1>1. ino \in Nat /\ ino # NoIno
  BY FindIs
<1> HIDE DEF ino
<1>2. /\ DOMAIN new = D \cup {m}
      /\ new[m] = [name |-> n, inode |-> ino, parent |-> p, child |-> <<>>, isDir |-> IsDir(ino),
                   hasFcb |-> FALSE, refs |-> 0]
      /\ new[p] = [tree[p] EXCEPT !.child = Append(@, m)]
      /\ \A x \in D \ {p} : new[x] = tree[x]
      /\ p # m /\ m \notin D
  BY DEF Added
<1>3. /\ tree \in [D -> Node] /\ D \subseteq McbIds /\ p \in McbIds /\ m \in McbIds
  BY DEF Sound, IsTree
<1>4. tree[p] \in Node /\ tree[p].child \in Seq(McbIds) /\ IsInjective(tree[p].child)
  BY <1>3 DEF Node, Sound, IsTree
<1>5. m \notin ToSet(tree[p].child) /\ m \notin ToSet(list)
  BY <1>2 DEF Sound, IsTree
<1>6. /\ new[p].child \in Seq(McbIds) /\ IsInjective(new[p].child)
      /\ ToSet(new[p].child) = ToSet(tree[p].child) \cup {m}
  <2>1. new[p].child = Append(tree[p].child, m)
    BY <1>2, <1>4 DEF Node
  <2>. QED BY <1>3, <1>4, <1>5, <2>1, Appended
<1>7. /\ Append(list, m) \in Seq(McbIds) /\ IsInjective(Append(list, m))
      /\ ToSet(Append(list, m)) = ToSet(list) \cup {m}
      /\ Len(Append(list, m)) = Len(list) + 1
  BY <1>3, <1>5, Appended DEF Sound, IsTree
<1>8. \A x \in D : /\ new[x].name = tree[x].name /\ new[x].inode = tree[x].inode
                   /\ new[x].parent = tree[x].parent /\ new[x].isDir = tree[x].isDir
                   /\ x # p => new[x].child = tree[x].child
  <2> TAKE x \in D
  <2>1. CASE x = p BY <1>2, <1>4, <2>1 DEF Node
  <2>2. CASE x # p BY <1>2, <2>2
  <2>. QED BY <2>1, <2>2
<1>9. new[m] \in Node
  BY <1>1, <1>2, <1>3 DEF Node, IsDir
<1>10. new[p] \in Node
  <2>1. new[p] = [tree[p] EXCEPT !.child = new[p].child]
    BY <1>2, <1>4 DEF Node
  <2>. QED BY <1>4, <1>6, <2>1 DEF Node
<1>11. \A x \in D \cup {m} : new[x] \in Node
  BY <1>2, <1>3, <1>9, <1>10
<1>12. new = [x \in D \cup {m} |-> new[x]]
  BY DEF Added
<1>13. new[m].child = <<>> /\ new[m].parent = p /\ new[m].name = n /\ new[m].inode = ino
       /\ new[m].isDir = IsDir(ino)
  BY <1>2
<1>14. ToSet(new[m].child) = {} /\ IsInjective(new[m].child)
  BY <1>13 DEF ToSet, IsInjective
<1>15. RootMcb \in D /\ m # RootMcb /\ tree[RootMcb].parent = NoMcb
  BY <1>2 DEF Sound, IsTree
<1>16. Cardinality(D \cup {m}) = Cardinality(D) + 1 /\ Cardinality(D) \in Nat
  BY <1>2, LiveIsFinite, FS_AddElement DEF Sound
<1> HIDE DEF new
<1>17. IsTree(new, Append(list, m))
  <2>1. DOMAIN new \subseteq McbIds /\ new \in [DOMAIN new -> Node]
    BY <1>2, <1>3, <1>11, <1>12
  <2>2. RootMcb \in DOMAIN new /\ new[RootMcb].parent = NoMcb
    BY <1>2, <1>8, <1>15
  <2>3. /\ ToSet(Append(list, m)) = DOMAIN new \ {RootMcb}
        /\ Len(Append(list, m)) = Cardinality(DOMAIN new) - 1
    BY <1>2, <1>7, <1>15, <1>16 DEF Sound, IsTree
  <2>4. \A x \in DOMAIN new : IsInjective(new[x].child)
    BY <1>2, <1>6, <1>8, <1>14 DEF Sound, IsTree
  <2>5. \A x \in DOMAIN new : \A c \in ToSet(new[x].child) : c \in DOMAIN new /\ new[c].parent = x
    <3>1. ASSUME NEW x \in D, NEW c \in ToSet(tree[x].child) PROVE c \in D /\ new[c].parent = x
      BY <1>8 DEF Sound, IsTree
    <3>2. ASSUME NEW c \in ToSet(new[p].child) PROVE c \in D \cup {m} /\ new[c].parent = p
      BY <1>6, <1>13, <3>1
    <3>3. ASSUME NEW x \in D \ {p}, NEW c \in ToSet(new[x].child) PROVE c \in D /\ new[c].parent = x
      BY <1>8, <3>1, <3>3
    <3>. QED BY <1>2, <1>14, <3>2, <3>3
  <2>6. \A x \in DOMAIN new : \A c, d \in ToSet(new[x].child) :
          SameName(new[c].name, new[d].name) => c = d
    <3>1. CASE \A x \in DOMAIN new : x = m \/ x = p \/ x \in D \ {p}
      <4>1. ASSUME NEW x \in D \ {p}, NEW c \in ToSet(new[x].child), NEW d \in ToSet(new[x].child),
                   SameName(new[c].name, new[d].name)
            PROVE  c = d
        <5>1. c \in ToSet(tree[x].child) /\ d \in ToSet(tree[x].child)
          BY <1>8, <4>1
        <5>2. c \in D /\ d \in D
          BY <5>1 DEF Sound, IsTree
        <5>. QED BY <1>8, <4>1, <5>1, <5>2 DEF Sound, IsTree
      <4>2. ASSUME NEW c \in ToSet(new[p].child), NEW d \in ToSet(new[p].child),
                   SameName(new[c].name, new[d].name)
            PROVE  c = d
        <5>1. \A y \in ToSet(tree[p].child) : y \in D /\ new[y].name = tree[y].name
          BY <1>8 DEF Sound, IsTree
        <5>2. CASE c = m /\ d = m
          BY <5>2
        <5>3. CASE c = m /\ d \in ToSet(tree[p].child)
          BY <1>13, <4>2, <5>1, <5>3 DEF SameName
        <5>4. CASE c \in ToSet(tree[p].child) /\ d = m
          BY <1>13, <4>2, <5>1, <5>4 DEF SameName
        <5>5. CASE c \in ToSet(tree[p].child) /\ d \in ToSet(tree[p].child)
          BY <4>2, <5>1, <5>5 DEF Sound, IsTree
        <5>. QED BY <1>6, <5>2, <5>3, <5>4, <5>5
      <4>. QED BY <1>14, <3>1, <4>1, <4>2
    <3>. QED BY <1>2, <3>1
  <2>7. \A x \in DOMAIN new \ {RootMcb} :
          new[x].parent \in DOMAIN new /\ x \in ToSet(new[new[x].parent].child)
    <3>1. ASSUME NEW x \in D \ {RootMcb} PROVE new[x].parent \in D /\ x \in ToSet(new[new[x].parent].child)
      <4>1. tree[x].parent \in D /\ x \in ToSet(tree[tree[x].parent].child)
        BY DEF Sound, IsTree
      <4>. QED BY <1>6, <1>8, <4>1
    <3>. QED BY <1>2, <1>6, <1>13, <3>1
  <2>. QED BY <1>7, <2>1, <2>2, <2>3, <2>4, <2>5, <2>6, <2>7 DEF IsTree
<1>18. Rooted(new)
  <2> SUFFICES ASSUME NEW S \in SUBSET (DOMAIN new \ {RootMcb}), S # {}
               PROVE  \E x \in S : new[x].parent \notin S
    BY DEF Rooted
  <2>1. CASE S \ {m} = {}
    BY <1>2, <1>13, <2>1
  <2>2. CASE S \ {m} # {}
    <3>1. S \ {m} \in SUBSET (D \ {RootMcb})
      BY <1>2
    <3>2. PICK x \in S \ {m} : tree[x].parent \notin S \ {m}
      BY <2>2, <3>1 DEF Sound, Rooted
    <3>3. x \in D \ {RootMcb} /\ tree[x].parent \in D
      BY <3>1, <3>2 DEF Sound, IsTree
    <3>. QED BY <1>2, <1>8, <3>2, <3>3
  <2>. QED BY <2>1, <2>2
<1>19. IsOnDisk(new)
  <2>1. \A x \in D \ {RootMcb} : tree[x].parent \in D
    BY DEF Sound, IsTree
  <2>2. \A x \in DOMAIN new : new[x].isDir = IsDir(new[x].inode)
    BY <1>2, <1>8, <1>13 DEF Sound, IsOnDisk
  <2>3. ASSUME NEW x \in D \ {RootMcb}
        PROVE  /\ IsDir(new[new[x].parent].inode) /\ new[x].inode # NoIno
               /\ new[x].inode = Find(new[new[x].parent].inode, new[x].name)
    <3>1. /\ IsDir(tree[tree[x].parent].inode) /\ tree[x].inode # NoIno
          /\ tree[x].inode = Find(tree[tree[x].parent].inode, tree[x].name)
      BY DEF Sound, IsOnDisk
    <3>. QED BY <1>8, <2>1, <3>1
  <2>4. /\ IsDir(new[new[m].parent].inode) /\ new[m].inode # NoIno
        /\ new[m].inode = Find(new[new[m].parent].inode, new[m].name)
    BY <1>1, <1>8, <1>13 DEF ino
  <2>5. new[RootMcb].inode = RootIno
    BY <1>8, <1>15 DEF Sound, IsOnDisk
  <2>. QED BY <1>2, <2>2, <2>3, <2>4, <2>5 DEF IsOnDisk
<1>. QED BY <1>17, <1>18, <1>19 DEF Sound, new, ino

(* new has MCBs of old, with no more children than they had. *)
SameMcbs(new, old) ==
  \A x \in DOMAIN new :
    /\ new[x].name = old[x].name /\ new[x].inode = old[x].inode
    /\ new[x].parent = old[x].parent /\ new[x].isDir = old[x].isDir
    /\ new[x].hasFcb = old[x].hasFcb /\ new[x].refs = old[x].refs
    /\ ToSet(new[x].child) \subseteq ToSet(old[x].child)

(* An MCB without children goes. *)
LEMMA DeletedIsSound ==
  ASSUME NEW tree, NEW list, Sound(tree, list), NEW m \in DOMAIN tree \ {RootMcb},
         tree[m].child = <<>>
  PROVE  /\ Sound(Deleted(tree, m), RemoveFirst(list, m))
         /\ DOMAIN Deleted(tree, m) = DOMAIN tree \ {m}
         /\ SameMcbs(Deleted(tree, m), tree)
<1> DEFINE D == DOMAIN tree
           p == tree[m].parent
           new == Deleted(tree, m)
<1>1. /\ tree \in [D -> Node] /\ D \subseteq McbIds /\ m \in McbIds
      /\ RootMcb \in D /\ tree[RootMcb].parent = NoMcb
  BY DEF Sound, IsTree
<1>2. p \in D /\ m \in ToSet(tree[p].child)
  BY DEF Sound, IsTree
<1>3. p # m
  <2>1. ToSet(tree[m].child) = {}
    BY DEF ToSet
  <2>. QED BY <1>2, <2>1
<1>4. tree[p] \in Node /\ tree[p].child \in Seq(McbIds) /\ IsInjective(tree[p].child)
  BY <1>1, <1>2 DEF Node, Sound, IsTree
<1>5. /\ DOMAIN new = D \ {m}
      /\ new[p] = [tree[p] EXCEPT !.child = RemoveFirst(@, m)]
      /\ \A x \in D \ {m, p} : new[x] = tree[x]
      /\ new = [x \in D \ {m} |-> new[x]]
  BY <1>2, <1>3 DEF Deleted
<1>6. /\ new[p].child \in Seq(McbIds) /\ IsInjective(new[p].child)
      /\ ToSet(new[p].child) = ToSet(tree[p].child) \ {m}
  <2>1. new[p].child = RemoveFirst(tree[p].child, m)
    BY <1>4, <1>5 DEF Node
  <2>. QED BY <1>2, <1>4, <2>1, Removed
<1>7. new[p] = [tree[p] EXCEPT !.child = new[p].child]
  BY <1>4, <1>5 DEF Node
<1>8. m \in ToSet(list)
  BY DEF Sound, IsTree
<1>9. /\ RemoveFirst(list, m) \in Seq(McbIds) /\ IsInjective(RemoveFirst(list, m))
      /\ ToSet(RemoveFirst(list, m)) = ToSet(list) \ {m}
      /\ Len(RemoveFirst(list, m)) = Len(list) - 1
  BY <1>8, Removed DEF Sound, IsTree
<1>10. Cardinality(D \ {m}) = Cardinality(D) - 1 /\ Cardinality(D) \in Nat
  BY LiveIsFinite, FS_RemoveElement DEF Sound
<1> HIDE DEF new
<1>11. \A x \in D \ {m} :
         /\ new[x].name = tree[x].name /\ new[x].inode = tree[x].inode
         /\ new[x].parent = tree[x].parent /\ new[x].isDir = tree[x].isDir
         /\ new[x].hasFcb = tree[x].hasFcb /\ new[x].refs = tree[x].refs
         /\ x # p => new[x].child = tree[x].child
  <2> TAKE x \in D \ {m}
  <2>1. CASE x = p BY <1>4, <1>7, <2>1 DEF Node
  <2>2. CASE x # p BY <1>5, <2>2
  <2>. QED BY <2>1, <2>2
<1>12. \A x \in D \ {m} : ToSet(new[x].child) = ToSet(tree[x].child) \ {m}
  <2> TAKE x \in D \ {m}
  <2>1. CASE x = p BY <1>6, <2>1
  <2>2. CASE x # p
    <3>1. m \notin ToSet(tree[x].child)
      BY <2>2 DEF Sound, IsTree
    <3>. QED BY <1>11, <2>2, <3>1
  <2>. QED BY <2>1, <2>2
<1>13. \A x \in D \ {m} : tree[x].parent # m
  <2>1. ToSet(tree[m].child) = {}
    BY DEF ToSet
  <2>. QED BY <1>1, <2>1, CacheAssumption DEF Sound, IsTree
<1>14. IsTree(new, RemoveFirst(list, m))
  <2>1. DOMAIN new \subseteq McbIds /\ new \in [DOMAIN new -> Node]
    <3>1. new[p] \in Node
      BY <1>4, <1>6, <1>7 DEF Node
    <3>2. \A x \in D \ {m} : new[x] \in Node
      BY <1>1, <1>5, <3>1
    <3>. QED BY <1>1, <1>5, <3>2
  <2>2. RootMcb \in DOMAIN new /\ new[RootMcb].parent = NoMcb
    BY <1>1, <1>5, <1>11
  <2>3. /\ ToSet(RemoveFirst(list, m)) = DOMAIN new \ {RootMcb}
        /\ Len(RemoveFirst(list, m)) = Cardinality(DOMAIN new) - 1
    BY <1>5, <1>9, <1>10 DEF Sound, IsTree
  <2>4. \A x \in DOMAIN new : IsInjective(new[x].child)
    BY <1>5, <1>6, <1>11 DEF Sound, IsTree
  <2>5. \A x \in DOMAIN new : \A c \in ToSet(new[x].child) : c \in DOMAIN new /\ new[c].parent = x
    <3>1. ASSUME NEW x \in D, NEW c \in ToSet(tree[x].child) PROVE c \in D /\ tree[c].parent = x
      BY DEF Sound, IsTree
    <3>. QED BY <1>5, <1>11, <1>12, <3>1
  <2>6. \A x \in DOMAIN new : \A c, d \in ToSet(new[x].child) :
          SameName(new[c].name, new[d].name) => c = d
    <3>1. ASSUME NEW x \in D \ {m}, NEW c \in ToSet(new[x].child), NEW d \in ToSet(new[x].child),
                 SameName(new[c].name, new[d].name)
          PROVE  c = d
      <4>1. c \in ToSet(tree[x].child) /\ d \in ToSet(tree[x].child)
        BY <1>12, <3>1
      <4>2. c \in D \ {m} /\ d \in D \ {m}
        BY <1>5, <2>5, <3>1
      <4>. QED BY <1>11, <3>1, <4>1, <4>2 DEF Sound, IsTree
    <3>. QED BY <1>5, <3>1
  <2>7. \A x \in DOMAIN new \ {RootMcb} :
          new[x].parent \in DOMAIN new /\ x \in ToSet(new[new[x].parent].child)
    <3>1. ASSUME NEW x \in D \ {m, RootMcb}
          PROVE  new[x].parent \in D \ {m} /\ x \in ToSet(new[new[x].parent].child)
      <4>1. tree[x].parent \in D \ {m} /\ x \in ToSet(tree[tree[x].parent].child)
        BY <1>13 DEF Sound, IsTree
      <4>2. new[x].parent = tree[x].parent
        BY <1>11
      <4>. QED BY <1>12, <4>1, <4>2
    <3>. QED BY <1>5, <3>1
  <2>. QED BY <1>9, <2>1, <2>2, <2>3, <2>4, <2>5, <2>6, <2>7 DEF IsTree
<1>15. Rooted(new)
  <2> SUFFICES ASSUME NEW S \in SUBSET (DOMAIN new \ {RootMcb}), S # {}
               PROVE  \E x \in S : new[x].parent \notin S
    BY DEF Rooted
  <2>1. S \in SUBSET (D \ {RootMcb}) /\ S \in SUBSET (D \ {m})
    BY <1>5
  <2>. QED BY <1>11, <2>1 DEF Sound, Rooted
<1>16. IsOnDisk(new)
  <2>1. \A x \in D \ {RootMcb, m} : tree[x].parent \in D \ {m}
    BY <1>13 DEF Sound, IsTree
  <2>2. \A x \in DOMAIN new : new[x].isDir = IsDir(new[x].inode)
    BY <1>5, <1>11 DEF Sound, IsOnDisk
  <2>3. ASSUME NEW x \in D \ {RootMcb, m}
        PROVE  /\ IsDir(new[new[x].parent].inode) /\ new[x].inode # NoIno
               /\ new[x].inode = Find(new[new[x].parent].inode, new[x].name)
    <3>1. /\ IsDir(tree[tree[x].parent].inode) /\ tree[x].inode # NoIno
          /\ tree[x].inode = Find(tree[tree[x].parent].inode, tree[x].name)
      BY DEF Sound, IsOnDisk
    <3>. QED BY <1>11, <2>1, <3>1
  <2>4. new[RootMcb].inode = RootIno
    BY <1>1, <1>11 DEF Sound, IsOnDisk
  <2>. QED BY <1>5, <2>2, <2>3, <2>4 DEF IsOnDisk
<1>17. \A x \in D \ {m} : ToSet(new[x].child) \subseteq ToSet(tree[x].child)
  BY <1>12
<1>18. SameMcbs(new, tree)
  BY <1>5, <1>11, <1>17 DEF SameMcbs
<1>. QED BY <1>5, <1>14, <1>15, <1>16, <1>18 DEF Sound, new

-----------------------------------------------------------------------------
(* The walk of FFSAllocateMcb *)

(* tree is what is left of mcb: nothing that is pinned went. *)
LeftOf(tree) ==
  /\ DOMAIN tree \subseteq Live /\ SameMcbs(tree, mcb)
  /\ \A x \in Live \ DOMAIN tree :
       ~mcb[x].hasFcb /\ mcb[x].inode # RootIno /\ x # look.parent

(* The first k of the list have been passed. *)
Passed(k, s) ==
  /\ Sound(s.tree, s.list) /\ LeftOf(s.tree)
  /\ \A i \in k + 1 .. Len(McbList) : McbList[i] \in DOMAIN s.tree
  /\ Extra(McbAllocated) > 0 =>
       \/ DOMAIN s.tree # Live
       \/ /\ s.tree = mcb /\ s.extra = Extra(McbAllocated)
          /\ \A i \in 1 .. k : ~Reapable(mcb, McbList[i])

Walks(k) ==
  { s \in [tree : UNION { [D -> Node] : D \in SUBSET McbIds }, list : Seq(McbIds), extra : Nat] :
      Passed(k, s) }

(* The type of a tree and its list *)
LEMMA SoundType ==
  ASSUME NEW tree, NEW list, Sound(tree, list)
  PROVE  tree \in UNION { [D -> Node] : D \in SUBSET McbIds } /\ list \in Seq(McbIds)
BY DEF Sound, IsTree

(* A step of the walk passes one more of the list. *)
LEMMA ReapOneIs ==
  ASSUME IInv, NEW k \in 1 .. Len(McbList), NEW s \in Walks(k - 1)
  PROVE  ReapOne(s, McbList[k]) \in Walks(k)
<1> DEFINE m == McbList[k]
           r == ReapOne(s, m)
<1>1. /\ s \in [tree : UNION { [D -> Node] : D \in SUBSET McbIds }, list : Seq(McbIds), extra : Nat]
      /\ Passed(k - 1, s) /\ Len(McbList) \in Nat /\ (k - 1) + 1 = k
  BY DEF Walks, IInv, CacheInv, IsTree
<1>2. m \in DOMAIN s.tree /\ \A i \in k + 1 .. Len(McbList) : McbList[i] \in DOMAIN s.tree
  BY <1>1 DEF Passed
<1>3. CASE s.extra > 0 /\ Reapable(s.tree, m)
  <2>1. r = [tree |-> Deleted(s.tree, m), list |-> RemoveFirst(s.list, m), extra |-> s.extra - 1]
    BY <1>3 DEF ReapOne
  <2>2. m # RootMcb /\ s.tree[m].child = <<>> /\ Sound(s.tree, s.list)
    BY <1>1, <1>3 DEF Passed, Reapable, Sound, IsOnDisk
  <2> DEFINE t == Deleted(s.tree, m)
             l == RemoveFirst(s.list, m)
  <2>3. Sound(t, l) /\ DOMAIN t = DOMAIN s.tree \ {m} /\ SameMcbs(t, s.tree)
    <3> HIDE DEF m, r
    <3>. QED BY <1>2, <2>2, DeletedIsSound
  <2>4. r.tree = t /\ r.list = l /\ r.extra = s.extra - 1
    BY <2>1
  <2>5. r \in [tree : UNION { [D -> Node] : D \in SUBSET McbIds }, list : Seq(McbIds), extra : Nat]
    <3>1. s.extra - 1 \in Nat
      BY <1>1, <1>3
    <3>2. t \in UNION { [D -> Node] : D \in SUBSET McbIds } /\ l \in Seq(McbIds)
      BY <2>3, SoundType
    <3> HIDE DEF t, l, r
    <3>. QED BY <2>1, <3>1, <3>2 DEF t, l
  <2> HIDE DEF t, l, r
  <2>6. LeftOf(s.tree) /\ m \in Live
    BY <1>1, <1>2 DEF Passed, LeftOf
  <2>7. LeftOf(t)
    <3>1. ~s.tree[m].hasFcb /\ s.tree[m].inode # RootIno /\ m # look.parent
      BY <1>3 DEF Reapable
    <3>2. ~mcb[m].hasFcb /\ mcb[m].inode # RootIno
      BY <1>2, <2>6, <3>1 DEF LeftOf, SameMcbs
    <3>3. DOMAIN t \subseteq Live /\ SameMcbs(t, mcb)
      <4>1. DOMAIN t \subseteq DOMAIN s.tree /\ DOMAIN s.tree \subseteq Live
        BY <2>3, <2>6 DEF LeftOf
      <4>2. SameMcbs(t, s.tree) /\ SameMcbs(s.tree, mcb)
        BY <2>3, <2>6 DEF LeftOf
      <4>. QED BY <4>1, <4>2 DEF SameMcbs
    <3>4. \A x \in Live \ DOMAIN t : x = m \/ x \in Live \ DOMAIN s.tree
      BY <2>3
    <3>. QED BY <2>6, <3>1, <3>2, <3>3, <3>4 DEF LeftOf
  <2>8. \A i \in k + 1 .. Len(McbList) : McbList[i] \in DOMAIN t
    <3> TAKE i \in k + 1 .. Len(McbList)
    <3>1. i \in 1 .. Len(McbList) /\ i # k /\ DOMAIN McbList = 1 .. Len(McbList)
      BY <1>1 DEF IInv, CacheInv, IsTree
    <3>2. McbList[i] # m
      BY <3>1 DEF IInv, CacheInv, IsTree, IsInjective
    <3>. QED BY <1>2, <2>3, <3>2
  <2>9. DOMAIN t # Live
    BY <2>3, <2>6
  <2>10. Passed(k, r)
    BY <2>3, <2>4, <2>7, <2>8, <2>9 DEF Passed
  <2>. QED BY <2>5, <2>10 DEF Walks, r
<1>4. CASE ~ (s.extra > 0 /\ Reapable(s.tree, m))
  <2>1. r = s
    BY <1>4 DEF ReapOne
  <2>2. ASSUME Extra(McbAllocated) > 0, DOMAIN s.tree = Live
        PROVE  /\ s.tree = mcb /\ s.extra = Extra(McbAllocated)
               /\ \A i \in 1 .. k : ~Reapable(mcb, McbList[i])
    <3>1. /\ s.tree = mcb /\ s.extra = Extra(McbAllocated)
          /\ \A i \in 1 .. k - 1 : ~Reapable(mcb, McbList[i])
      BY <1>1, <2>2 DEF Passed
    <3>2. ~Reapable(mcb, McbList[k])
      BY <1>4, <2>2, <3>1
    <3>3. \A i \in 1 .. k : i = k \/ i \in 1 .. k - 1
      OBVIOUS
    <3>. QED BY <3>1, <3>2, <3>3
  <2>3. Passed(k, s)
    BY <1>1, <1>2, <2>2 DEF Passed
  <2> HIDE DEF r
  <2>. QED BY <1>1, <2>1, <2>3 DEF Walks, r
<1>. QED BY <1>3, <1>4

(* Above the limit something is to be reaped. *)
LEMMA ExtraIs ==
  ASSUME McbAllocated \in Nat
  PROVE  /\ Extra(McbAllocated) \in Nat /\ Limit \in Nat
         /\ McbAllocated > Limit => Extra(McbAllocated) > 0
<1>1. MaxDepth \in Nat \ {0} /\ Limit \in Nat
  BY CacheAssumption DEF Limit
<1>. QED BY <1>1 DEF Extra

(* The walk passes all of the list. *)
LEMMA ReapedIsPassed ==
  ASSUME IInv
  PROVE  Reaped \in Walks(Len(McbList))
<1> DEFINE n == Len(McbList)
           a == [tree |-> mcb, list |-> McbList, extra |-> Extra(McbAllocated)]
           T == [k \in 0 .. n |-> Walks(k)]
           step == [k \in 1 .. n |-> [s \in Walks(k - 1) |-> ReapOne(s, McbList[k])]]
           walk == CHOOSE walk : walk = [k \in 0 .. n |->
                       IF k = 0 THEN a ELSE ReapOne(walk[k - 1], McbList[k])]
<1>1. n \in Nat
  BY DEF IInv, CacheInv, IsTree
<1>2. a \in Walks(0)
  <2>1. a.tree = mcb /\ a.list = McbList /\ a.extra = Extra(McbAllocated)
    OBVIOUS
  <2>2. Sound(mcb, McbList)
    BY DEF IInv, CacheInv, Sound
  <2>3. a \in [tree : UNION { [D -> Node] : D \in SUBSET McbIds }, list : Seq(McbIds), extra : Nat]
    <3>1. Extra(McbAllocated) \in Nat
      BY ExtraIs DEF IInv, CacheInv, AllocatedCount
    <3>2. mcb \in UNION { [D -> Node] : D \in SUBSET McbIds } /\ McbList \in Seq(McbIds)
      BY <2>2, SoundType
    <3>. QED BY <3>1, <3>2
  <2>4. LeftOf(mcb)
    BY DEF LeftOf, SameMcbs, Live
  <2>5. \A i \in 0 + 1 .. n : McbList[i] \in Live
    <3>1. \A i \in 1 .. n : McbList[i] \in ToSet(McbList)
      BY DEF ToSet, IInv, CacheInv, IsTree
    <3>. QED BY <3>1 DEF IInv, CacheInv, IsTree, Live
  <2> HIDE DEF a
  <2>6. Passed(0, a)
    BY <2>1, <2>2, <2>4, <2>5 DEF Passed, Live
  <2>. QED BY <2>3, <2>6 DEF Walks
<1> HIDE DEF a, n
<1>3. \A k \in 1 .. n : step[k] \in [T[k - 1] -> T[k]]
  <2> TAKE k \in 1 .. n
  <2>1. k \in 0 .. n /\ k - 1 \in 0 .. n
    BY <1>1
  <2>2. T[k] = Walks(k) /\ T[k - 1] = Walks(k - 1)
    BY <2>1
  <2>3. step[k] = [s \in Walks(k - 1) |-> ReapOne(s, McbList[k])]
    OBVIOUS
  <2>4. \A s \in Walks(k - 1) : ReapOne(s, McbList[k]) \in Walks(k)
    BY ReapOneIs DEF n
  <2> HIDE DEF step, T
  <2>. QED BY <2>2, <2>3, <2>4
<1>4. PICK f : StepByStep(f, n, a, step) /\ \A k \in 0 .. n : f[k] \in T[k]
  <2>1. a \in T[0]
    BY <1>1, <1>2
  <2> HIDE DEF T, step
  <2>. QED BY <1>1, <1>3, <2>1, Recursion
<1>5. f = [k \in 0 .. n |-> IF k = 0 THEN a ELSE ReapOne(f[k - 1], McbList[k])]
  <2>1. ASSUME NEW k \in 0 .. n, k # 0 PROVE step[k][f[k - 1]] = ReapOne(f[k - 1], McbList[k])
    <3>1. k \in 1 .. n /\ k - 1 \in 0 .. n
      BY <1>1, <2>1
    <3>2. f[k - 1] \in Walks(k - 1)
      BY <1>4, <3>1
    <3>. QED BY <3>1, <3>2
  <2> HIDE DEF step, T
  <2>. QED BY <1>4, <2>1 DEF StepByStep
<1>6. walk = [k \in 0 .. n |-> IF k = 0 THEN a ELSE ReapOne(walk[k - 1], McbList[k])]
  BY <1>5
<1>7. Reaped = walk[n]
  BY DEF Reaped, n, a
<1> HIDE DEF walk, step, T
<1> DEFINE D == { k \in 0 .. n : walk[k] \in Walks(k) }
<1>8. 0 \in D
  BY <1>1, <1>2, <1>6
<1>9. ASSUME NEW k \in 0 .. n, k \in D, k < n PROVE k + 1 \in D
  <2> DEFINE j == k + 1
  <2>1. j \in 1 .. n /\ j \in 0 .. n /\ j # 0 /\ j - 1 = k
    BY <1>1, <1>9
  <2>2. walk[j - 1] \in Walks(j - 1)
    BY <1>9, <2>1
  <2> HIDE DEF j
  <2>3. walk[j] = ReapOne(walk[j - 1], McbList[j])
    BY <1>6, <2>1
  <2>4. walk[j] \in Walks(j)
    BY <2>1, <2>2, <2>3, ReapOneIs DEF n
  <2>. QED BY <2>1, <2>4 DEF j
<1>10. n \in D
  <2> HIDE DEF D
  <2>1. 0 .. n \subseteq D
    BY <1>1, <1>8, <1>9, Ascent
  <2>. QED BY <1>1, <2>1
<1>. QED BY <1>7, <1>10 DEF n

(* Where anything could go, a leaf could. *)
LEMMA LeafToReap ==
  ASSUME IInv, pc # "idle", Live \ Pinned # {}
  PROVE  \E m \in Live \ {RootMcb} : Reapable(mcb, m)
<1> DEFINE U == Live \ Pinned
           g == [x \in U |-> mcb[x].child[1]]
<1>1. Live \subseteq McbIds /\ IsFiniteSet(U) /\ NoMcb \notin McbIds
  <2>1. IsFiniteSet(Live) /\ Live \subseteq McbIds
    BY LiveIsFinite DEF IInv, CacheInv, Live, IsTree
  <2>. QED BY <2>1, CacheAssumption, FS_Subset
<1>2. ASSUME NEW x \in U PROVE ~Pins(x)
  <2>1. x \in Ancestors(x)
    BY <1>1 DEF Ancestors
  <2>. QED BY <2>1 DEF Pinned
<1>3. RootMcb \in Live /\ RootMcb \notin U
  <2>1. RootMcb \in Live /\ Pins(RootMcb)
    BY DEF IInv, CacheInv, IsTree, IsOnDisk, Live, Pins
  <2>. QED BY <1>2, <2>1
<1>4. ASSUME NEW x \in U, NEW c \in ToSet(mcb[x].child) PROVE c \in U /\ mcb[c].parent = x
  <2>1. c \in Live /\ mcb[c].parent = x /\ x # NoMcb /\ x \in McbIds
    BY <1>1 DEF IInv, CacheInv, IsTree, Live
  <2>2. ASSUME c \in Pinned PROVE FALSE
    <3>1. PICK y \in Live : Pins(y) /\ c \in Ancestors(y)
      BY <2>2 DEF Pinned
    <3>2. x \in Ancestors(y)
      BY <2>1, <3>1 DEF Ancestors, HasItsParents
    <3>. QED BY <3>1, <3>2 DEF Pinned
  <2>. QED BY <2>1, <2>2
<1> HIDE DEF U
<1>5. SUFFICES ASSUME \A x \in U : mcb[x].child # <<>> PROVE FALSE
  <2>1. ASSUME NEW x \in U, mcb[x].child = <<>> PROVE x \in Live \ {RootMcb} /\ Reapable(mcb, x)
    BY <1>2, <1>3, <2>1 DEF Pins, Reapable, U
  <2>. QED BY <2>1
<1>6. ASSUME NEW x \in U PROVE g[x] \in U /\ mcb[g[x]].parent = x
  <2>1. mcb[x].child \in Seq(McbIds) /\ mcb[x].child # <<>>
    BY <1>5 DEF U, IInv, CacheInv, IsTree, Live, Node
  <2>2. mcb[x].child[1] \in ToSet(mcb[x].child)
    BY <2>1 DEF ToSet
  <2>. QED BY <1>4, <2>2
<1>7. g \in Injection(U, U)
  <2>1. g \in [U -> U]
    <3>1. g = [x \in U |-> g[x]]
      OBVIOUS
    <3> HIDE DEF g
    <3>. QED BY <1>6, <3>1
  <2>2. \A x, y \in U : g[x] = g[y] => x = y
    <3> HIDE DEF g
    <3>. QED BY <1>6
  <2> HIDE DEF g
  <2>. QED BY <2>1, <2>2 DEF Injection, IsInjective
<1> HIDE DEF g
<1>8. g \in Surjection(U, U)
  BY <1>1, <1>7, FS_Injection
<1>9. ASSUME NEW y \in U PROVE mcb[y].parent \in U
  <2>1. PICK x \in U : g[x] = y
    BY <1>8 DEF Surjection
  <2>. QED BY <1>6, <2>1
<1>10. U \in SUBSET (DOMAIN mcb \ {RootMcb}) /\ U # {}
  BY <1>3 DEF U, Live
<1>. QED BY <1>9, <1>10 DEF IInv, CacheInv, Rooted

(* FFSAllocateMcb leaves a sound cache, with everything that is pinned, and *)
(* above the limit it makes room where it can. *)
LEMMA ReapedIs ==
  ASSUME IInv, pc # "idle"
  PROVE  /\ Sound(Reaped.tree, Reaped.list) /\ LeftOf(Reaped.tree)
         /\ McbAllocated > Limit /\ Live \ Pinned # {} => DOMAIN Reaped.tree # Live
         /\ Freed \in Nat /\ Freed = Cardinality(Live) - Cardinality(DOMAIN Reaped.tree)
         /\ DOMAIN Reaped.tree # Live => Freed > 0
<1>1. Passed(Len(McbList), Reaped)
  BY ReapedIsPassed DEF Walks
<1>2. Sound(Reaped.tree, Reaped.list) /\ LeftOf(Reaped.tree)
  BY <1>1 DEF Passed
<1>3. ASSUME McbAllocated > Limit, Live \ Pinned # {}, DOMAIN Reaped.tree = Live PROVE FALSE
  <2>1. \A i \in 1 .. Len(McbList) : ~Reapable(mcb, McbList[i])
    BY <1>1, <1>3, ExtraIs DEF Passed, IInv, CacheInv, AllocatedCount
  <2>2. PICK m \in Live \ {RootMcb} : Reapable(mcb, m)
    BY <1>3, LeafToReap
  <2>3. m \in ToSet(McbList) /\ DOMAIN McbList = 1 .. Len(McbList)
    BY <2>2 DEF IInv, CacheInv, IsTree, Live
  <2>4. PICK i \in 1 .. Len(McbList) : McbList[i] = m
    BY <2>3 DEF ToSet
  <2>. QED BY <2>1, <2>2, <2>4
<1>4. /\ Cardinality(Live) \in Nat /\ Cardinality(DOMAIN Reaped.tree) \in Nat
      /\ Cardinality(DOMAIN Reaped.tree) <= Cardinality(Live)
      /\ Cardinality(DOMAIN Reaped.tree) = Cardinality(Live) => DOMAIN Reaped.tree = Live
  <2>1. IsFiniteSet(Live) /\ DOMAIN Reaped.tree \in SUBSET Live
    BY <1>2, LiveIsFinite DEF IInv, CacheInv, Live, LeftOf
  <2>. QED BY <2>1, FS_Subset, FS_CardinalityType
<1>. QED BY <1>2, <1>3, <1>4 DEF Freed

-----------------------------------------------------------------------------
(* What the steps have in common *)

(* What the invariant says of the MCBs that are there *)
LEMMA LiveFacts ==
  ASSUME IInv
  PROVE  /\ Live = DOMAIN mcb /\ Live \subseteq McbIds /\ RootMcb \in Live /\ NoMcb \notin Live
         /\ mcb \in [Live -> Node]
         /\ \A m \in Live : mcb[m].inode # NoIno /\ mcb[m].inode \in Inodes
         /\ Origins \subseteq Live
         /\ \A m \in Origins : m = RootMcb \/ mcb[m].hasFcb
<1>1. /\ Live = DOMAIN mcb /\ Live \subseteq McbIds /\ RootMcb \in Live /\ mcb \in [Live -> Node]
      /\ NoMcb \notin McbIds
  BY CacheAssumption DEF IInv, CacheInv, IsTree, Live
<1>2. ASSUME NEW m \in Live PROVE mcb[m].inode # NoIno /\ mcb[m].inode \in Inodes
  <2>1. CASE m = RootMcb
    BY <2>1, DiskAssumption DEF IInv, CacheInv, IsOnDisk, Inodes, NoIno
  <2>2. CASE m # RootMcb
    <3> DEFINE up == mcb[mcb[m].parent].inode
    <3>1. IsDir(up) /\ mcb[m].inode = Find(up, mcb[m].name) /\ mcb[m].inode # NoIno
      BY <2>2 DEF IInv, CacheInv, IsOnDisk, Live
    <3> HIDE DEF up
    <3>. QED BY <3>1, FindIs
  <2>. QED BY <2>1, <2>2
<1>3. \A h \in Handles : handle[h] # NoMcb => handle[h] \in Live /\ mcb[handle[h]].hasFcb
  BY DEF IInv, CacheInv, HandlesCount, OpenHandles
<1>4. Origins \subseteq Live /\ \A m \in Origins : m = RootMcb \/ mcb[m].hasFcb
  BY <1>1, <1>3 DEF Origins
<1>. QED BY <1>1, <1>2, <1>4

(* A step that leaves the cache and the handles alone *)
LEMMA CacheStays ==
  ASSUME CacheInv, UNCHANGED <<cacheVars, handle>>
  PROVE  CacheInv'
BY DEF CacheInv, cacheVars, HandlesCount, OpenHandles, On, Live, AllocatedCount

(* A change of an FCB and its count *)
LEMMA FcbChanges ==
  ASSUME CacheInv, NEW m \in Live, NEW b \in BOOLEAN, NEW n \in Nat,
         mcb' = [mcb EXCEPT ![m].hasFcb = b, ![m].refs = n], UNCHANGED McbList
  PROVE  /\ IsTree(mcb, McbList)' /\ Rooted(mcb)' /\ IsOnDisk(mcb)'
         /\ Live' = Live
         /\ \A x \in Live : mcb'[x].inode = mcb[x].inode
         /\ mcb'[m].hasFcb = b /\ mcb'[m].refs = n
         /\ \A x \in Live \ {m} : mcb'[x] = mcb[x]
<1>1. mcb \in [Live -> Node] /\ Live = DOMAIN mcb
  BY DEF CacheInv, IsTree, Live
<1>2. mcb[m] \in Node
  BY <1>1
<1>3. /\ DOMAIN mcb' = Live
      /\ mcb'[m] = [mcb[m] EXCEPT !.hasFcb = b, !.refs = n]
      /\ \A x \in Live \ {m} : mcb'[x] = mcb[x]
      /\ mcb' = [x \in Live |-> mcb'[x]]
  BY <1>1
<1>4. mcb'[m] \in Node
  BY <1>2, <1>3 DEF Node
<1>5. mcb' \in [Live -> Node]
  BY <1>1, <1>3, <1>4
<1>6. \A x \in Live : /\ mcb'[x].name = mcb[x].name /\ mcb'[x].inode = mcb[x].inode
                      /\ mcb'[x].parent = mcb[x].parent /\ mcb'[x].child = mcb[x].child
                      /\ mcb'[x].isDir = mcb[x].isDir
  <2> TAKE x \in Live
  <2>1. CASE x = m BY <1>2, <1>3, <2>1 DEF Node
  <2>2. CASE x # m BY <1>3, <2>2
  <2>. QED BY <2>1, <2>2
<1>7. mcb'[m].hasFcb = b /\ mcb'[m].refs = n
  BY <1>2, <1>3 DEF Node
<1> DEFINE new == mcb'
<1>8. /\ DOMAIN new = Live /\ new \in [Live -> Node]
      /\ \A x \in Live : /\ new[x].name = mcb[x].name /\ new[x].inode = mcb[x].inode
                         /\ new[x].parent = mcb[x].parent /\ new[x].child = mcb[x].child
                         /\ new[x].isDir = mcb[x].isDir
  BY <1>3, <1>5, <1>6
<1>9. IsTree(mcb, McbList) /\ Rooted(mcb) /\ IsOnDisk(mcb)
  BY DEF CacheInv
<1> HIDE DEF new
<1>10. IsTree(new, McbList)
  <2>1. /\ DOMAIN mcb = Live /\ \A x \in Live : \A c \in ToSet(mcb[x].child) : c \in Live /\ mcb[c].parent = x
    BY <1>1, <1>9 DEF IsTree
  <2>2. \A x \in Live : \A c, d \in ToSet(new[x].child) : SameName(new[c].name, new[d].name) => c = d
    <3>1. ASSUME NEW x \in Live, NEW c \in ToSet(new[x].child), NEW d \in ToSet(new[x].child),
                 SameName(new[c].name, new[d].name)
          PROVE  c = d
      <4>1. c \in ToSet(mcb[x].child) /\ d \in ToSet(mcb[x].child) /\ c \in Live /\ d \in Live
        BY <1>8, <2>1
      <4>2. SameName(mcb[c].name, mcb[d].name)
        BY <1>8, <3>1, <4>1
      <4>. QED BY <1>1, <1>9, <4>1, <4>2 DEF IsTree
    <3>. QED BY <3>1
  <2>3. /\ \A x \in Live : IsInjective(new[x].child)
        /\ \A x \in Live : \A c \in ToSet(new[x].child) : c \in Live /\ new[c].parent = x
    BY <1>1, <1>8, <1>9, <2>1 DEF IsTree
  <2>4. \A x \in Live \ {RootMcb} :
          new[x].parent \in Live /\ x \in ToSet(new[new[x].parent].child)
    BY <1>1, <1>8, <1>9 DEF IsTree
  <2>5. /\ Live \subseteq McbIds /\ RootMcb \in Live /\ new[RootMcb].parent = NoMcb
        /\ McbList \in Seq(McbIds) /\ IsInjective(McbList)
        /\ ToSet(McbList) = Live \ {RootMcb} /\ Len(McbList) = Cardinality(Live) - 1
    BY <1>1, <1>8, <1>9 DEF IsTree
  <2>. QED BY <1>8, <2>2, <2>3, <2>4, <2>5 DEF IsTree
<1>11. Rooted(new)
  BY <1>1, <1>8, <1>9 DEF Rooted
<1>12. IsOnDisk(new)
  <2>1. \A x \in Live \ {RootMcb} : mcb[x].parent \in Live /\ RootMcb \in Live
    BY <1>1, <1>9 DEF IsTree
  <2>2. ASSUME NEW x \in Live \ {RootMcb}
        PROVE  /\ IsDir(new[new[x].parent].inode) /\ new[x].inode # NoIno
               /\ new[x].inode = Find(new[new[x].parent].inode, new[x].name)
    <3>1. /\ IsDir(mcb[mcb[x].parent].inode) /\ mcb[x].inode # NoIno
          /\ mcb[x].inode = Find(mcb[mcb[x].parent].inode, mcb[x].name)
      BY <1>1, <1>9 DEF IsOnDisk
    <3>. QED BY <1>8, <2>1, <3>1
  <2>3. RootMcb \in Live
    BY <1>1, <1>9 DEF IsTree
  <2>. QED BY <1>1, <1>8, <1>9, <2>2, <2>3 DEF IsOnDisk
<1>13. Live' = Live
  BY <1>3 DEF Live
<1>. QED BY <1>3, <1>6, <1>7, <1>10, <1>11, <1>12, <1>13 DEF new, IsTree, Rooted, IsOnDisk

(* Names that are the same are found in the same place. *)
LEMMA FindSame ==
  ASSUME NEW d, NEW a, NEW b, SameName(a, b)
  PROVE  Find(d, a) = Find(d, b)
<1>1. Matches(d, a) = Matches(d, b)
  BY DEF Matches, SameName
<1>2. FirstMatch(d, a) = FirstMatch(d, b)
  BY <1>1 DEF FirstMatch
<1>. QED BY <1>1, <1>2 DEF Find

(* What the specification lets an unhindered create open *)
LEMMA AnswersAre ==
  ASSUME IInv, pc # "idle"
  PROVE  LET ino == Prefix(Len(request.path)) IN
         /\ Resolve(mcb[request.from].inode, request.path) = ino
         /\ ino = NoIno => Excused
         /\ request.path = <<>> /\ ~request.slash => Excused
         /\ request.want = "new" => Excused
         /\ request.want = "file" /\ IsDir(ino) => Excused
         /\ request.slash /\ ~IsDir(ino) => Excused
         /\ (request.path = <<>> => request.slash) /\ request.want # "new"
              /\ ~(request.want = "file" /\ IsDir(ino))
              => ino \in Lookup!Answers(Asked)
<1>1. request \in Request /\ request.path \in Seq(Names)
  BY DEF IInv, LookInv, RequestIsFair, Request
<1>2. Prefix(Len(request.path)) = Resolve(mcb[request.from].inode, request.path)
  BY <1>1, AlongIs DEF Prefix
<1>3. Lookup!Resolve(mcb[request.from].inode, request.path) = Prefix(Len(request.path))
  BY <1>2, SameResolve
<1>4. \A i : Lookup!IsDir(i) <=> IsDir(i)
  BY DEF Lookup!IsDir, IsDir
<1>5. Lookup!NoIno = NoIno
  BY DEF Lookup!NoIno, NoIno
<1>6. /\ Asked.start = mcb[request.from].inode /\ Asked.path = request.path
      /\ Asked.slash = request.slash /\ Asked.want = request.want
  BY DEF Asked
<1> DEFINE ino == Prefix(Len(request.path))
<1> HIDE DEF ino
<1>7. Lookup!Answers(Asked) =
        IF \/ request.path = <<>> /\ ~request.slash
           \/ request.want = "new" \/ (request.want = "file" /\ IsDir(ino))
        THEN {NoIno}
        ELSE {ino} \cup (IF request.slash /\ ~IsDir(ino) THEN {NoIno} ELSE {})
  BY <1>3, <1>4, <1>5, <1>6 DEF Lookup!Answers, ino
<1>. QED BY <1>2, <1>7 DEF Excused, ino

(* A component that cannot be found *)
LEMMA Lost ==
  ASSUME IInv, pc = "search", ~look.dissecting, look.k <= look.last,
         ~IsDir(mcb[look.parent].inode) \/ OnDisk = NoIno
  PROVE  Excused
<1> DEFINE start == mcb[request.from].inode
           path == request.path
           k == look.k
<1>1. /\ path \in Seq(Names) /\ k \in 1 .. Len(path) /\ mcb[look.parent].inode = Along(start, path, k - 1)
      /\ Len(path) \in Nat /\ OnDisk = Find(mcb[look.parent].inode, path[k])
  BY DEF IInv, LookInv, RequestIsFair, Request, Forward, Prefix, OnDisk, Component
<1> HIDE DEF start, path, k
<1>2. Resolve(start, path) = NoIno
  <2>1. CASE ~IsDir(Along(start, path, k - 1))
    <3>1. k - 1 \in 0 .. Len(path) - 1
      BY <1>1
    <3>. QED BY <1>1, <2>1, <3>1, NothingBelow
  <2>2. CASE IsDir(Along(start, path, k - 1))
    <3>1. Along(start, path, k) = NoIno
      BY <1>1, <2>2, AlongIs
    <3>2. CASE k = Len(path)
      BY <1>1, <3>1, <3>2, AlongIs
    <3>3. CASE k # Len(path)
      <4>1. k \in 0 .. Len(path) - 1 /\ ~IsDir(NoIno)
        BY <1>1, <3>3, DiskAssumption DEF IsDir, NoIno
      <4>. QED BY <1>1, <3>1, <4>1, NothingBelow
    <3>. QED BY <3>2, <3>3
  <2>. QED BY <2>1, <2>2
<1>. QED BY <1>2, AnswersAre DEF start, path

(* The question stays the same while the MCB it starts from keeps its inode. *)
LEMMA AskedStays ==
  ASSUME UNCHANGED request, mcb'[request.from].inode = mcb[request.from].inode
  PROVE  Asked' = Asked /\ \A j : Prefix(j)' = Prefix(j)
BY DEF Asked, Prefix

-----------------------------------------------------------------------------
(* The steps of a create keep the invariant *)

(* The tree of the root alone is sound. *)
LEMMA RootAlone ==
  /\ DOMAIN OnlyTheRoot = {RootMcb} /\ Cardinality({RootMcb}) = 1
  /\ OnlyTheRoot[RootMcb].refs = 0 /\ OnlyTheRoot[RootMcb].inode = RootIno
  /\ Sound(OnlyTheRoot, <<>>)
<1> DEFINE tree == OnlyTheRoot
<1>1. RootNode \in Node /\ RootNode.parent = NoMcb /\ RootNode.child = <<>> /\ RootNode.refs = 0
      /\ RootNode.inode = RootIno /\ RootNode.isDir = TRUE
  <2>1. (CHOOSE n \in Names : TRUE) \in Names
    BY CacheAssumption
  <2>. QED BY <2>1, CacheAssumption, DiskAssumption DEF RootNode, Node
<1>2. /\ DOMAIN tree = {RootMcb} /\ tree[RootMcb] = RootNode /\ tree = [m \in {RootMcb} |-> tree[m]]
      /\ RootMcb \in McbIds
  BY CacheAssumption DEF OnlyTheRoot
<1>3. Cardinality({RootMcb}) = 1
  BY FS_Singleton
<1>4. ToSet(<<>>) = {} /\ IsInjective(<<>>) /\ Len(<<>>) = 0 /\ <<>> \in Seq(McbIds)
  BY DEF ToSet, IsInjective
<1> HIDE DEF tree
<1>5. IsTree(tree, <<>>)
  BY <1>1, <1>2, <1>3, <1>4 DEF IsTree
<1>6. Rooted(tree)
  BY <1>2 DEF Rooted
<1>7. IsOnDisk(tree)
  BY <1>1, <1>2, DiskAssumption DEF IsOnDisk, IsDir
<1>. QED BY <1>1, <1>2, <1>3, <1>5, <1>6, <1>7 DEF Sound, tree

(* No handle is on any MCB. *)
LEMMA NothingOpen ==
  ASSUME handle = [h \in Handles |-> NoMcb]
  PROVE  /\ handle \in [Handles -> McbIds \cup {NoMcb}] /\ OpenHandles = {}
         /\ \A m \in McbIds : On(m) = {}
BY CacheAssumption DEF OpenHandles, On

(* It holds when the volume is mounted. *)
LEMMA InitInv ==
  ASSUME Init
  PROVE  IInv
<1>1. /\ mcb = OnlyTheRoot /\ McbList = <<>> /\ McbAllocated = 1 /\ others = 0
      /\ handle = [h \in Handles |-> NoMcb] /\ Live = {RootMcb}
  BY RootAlone DEF Init, Live
<1>2. HandlesCount
  BY <1>1, RootAlone, NothingOpen, CacheAssumption, FS_EmptySet DEF HandlesCount
<1>3. AllocatedCount
  BY <1>1, RootAlone, CacheAssumption DEF AllocatedCount
<1>4. CacheInv
  BY <1>1, <1>2, <1>3, RootAlone DEF CacheInv, Sound
<1>. QED BY <1>4 DEF IInv, LookInv, Init

(* A create that is completed leaves nothing to say of its lookup. *)
LEMMA CompleteStep ==
  ASSUME CacheInv', Complete
  PROVE  IInv'
BY DEF Complete, IInv, LookInv

(* A name relative to an open file starts at an MCB that its FCB pins. *)
LEMMA CreateFileStep ==
  ASSUME IInv, NEW r \in Requests, CreateFile(r)
  PROVE  IInv'
<1>1. CacheInv'
  BY CacheStays DEF IInv, CreateFile
<1>2. /\ r \in Request /\ r.path \in Paths /\ r.path \in Seq(Names) /\ r.from \in Origins /\ r.from \in Live
      /\ Origins' = Origins /\ Live' = Live /\ mcb' = mcb /\ handle' = handle
      /\ handle[r.to] = NoMcb /\ (r.path = <<>> => (r.slash <=> r.from = RootMcb))
      /\ request' = r /\ hindered' = hindered /\ r.slash \in BOOLEAN
  <2>1. Origins \subseteq Live /\ Live \subseteq McbIds
    BY LiveFacts
  <2>2. r.path \in Seq(Names) /\ r.want \in {"any", "directory", "file", "new"}
    BY DiskAssumption, CacheAssumption DEF Requests
  <2>3. r \in Request
    BY <2>1, <2>2 DEF Requests, Request
  <2>. QED BY <2>1, <2>2, <2>3 DEF Requests, CreateFile, Origins, Live, cacheVars
<1>3. Prefix(0)' = mcb[r.from].inode
  BY <1>2, AlongIs DEF Prefix
<1>4. r.from \in McbIds /\ r.from # NoMcb /\ RootMcb \in McbIds /\ RootMcb # NoMcb /\ Len(r.path) \in Nat
  BY <1>2, LiveFacts
<1>5. CASE r.path = <<>>
  <2>1. /\ pc' = "looked" /\ look'.parent = r.from /\ look'.success = r.slash /\ look'.k = 1
        /\ look'.last = 0 /\ look'.dissecting = FALSE
        /\ look'.found = IF r.slash THEN RootMcb ELSE NoMcb
        /\ look' \in Look
    <3> DEFINE l == [parent |-> r.from, found |-> IF r.slash THEN RootMcb ELSE NoMcb, k |-> 1,
                     last |-> 0, success |-> r.slash, dissecting |-> FALSE]
    <3>1. pc' = "looked" /\ look' = l
      BY <1>2, <1>5 DEF CreateFile, Start
    <3>2. l \in Look
      BY <1>2, <1>4 DEF Look
    <3>. QED BY <3>1, <3>2
  <2>2. RequestIsFair'
    BY <1>2, <1>5, <2>1 DEF RequestIsFair
  <2>3. Len(r.path) = 0
    BY <1>5
  <2>4. ~r.slash => Excused'
    <3>1. ~r.slash => Lookup!NoIno \in Lookup!Answers(Asked')
      BY <1>2, <1>5 DEF Asked, Lookup!Answers
    <3>. QED BY <3>1 DEF Excused, NoIno, Lookup!NoIno
  <2>5. Forward'
    BY <1>2, <1>3, <1>4, <1>5, <2>1, <2>3, <2>4 DEF Forward
  <2>6. Backward'
    BY <2>1 DEF Backward
  <2>. QED BY <1>1, <1>2, <2>1, <2>2, <2>5, <2>6 DEF IInv, LookInv
<1>6. CASE r.path # <<>>
  <2>1. /\ pc' = "search" /\ look'.parent = r.from /\ look'.success = FALSE /\ look'.k = 1
        /\ look'.last = Len(r.path) /\ look'.dissecting = FALSE /\ look'.found = NoMcb
        /\ look' \in Look
    <3> DEFINE l == [parent |-> r.from, found |-> NoMcb, k |-> 1, last |-> Len(r.path),
                     success |-> FALSE, dissecting |-> FALSE]
    <3>1. pc' = "search" /\ look' = l
      BY <1>2, <1>6 DEF CreateFile, Start
    <3>2. l \in Look
      BY <1>2, <1>4 DEF Look
    <3>. QED BY <3>1, <3>2
  <2>2. RequestIsFair'
    BY <1>2, <1>6, <2>1 DEF RequestIsFair
  <2>3. Forward'
    BY <1>2, <1>3, <1>4, <1>6, <2>1 DEF Forward
  <2>4. Backward'
    BY <2>1 DEF Backward
  <2>. QED BY <1>1, <1>2, <2>1, <2>2, <2>3, <2>4 DEF IInv, LookInv
<1>. QED BY <1>5, <1>6

(* A lookup that gives up, in a cache where everything that is held stays *)
LEMMA GiveUpStep ==
  ASSUME IInv, pc = "search", NEW hinder \in BOOLEAN, GiveUp(hinder), hinder \/ Excused, CacheInv',
         UNCHANGED <<handle, request>>, look.parent \in Live', Origins' = Origins,
         mcb'[request.from].inode = mcb[request.from].inode, look.k <= look.last
  PROVE  IInv'
<1>1. /\ RequestIsFair /\ Forward /\ Backward /\ pc' = "looked" /\ look \in Look /\ hindered \in BOOLEAN
  BY DEF IInv, LookInv, RequestIsFair, GiveUp
<1>2. /\ look'.parent = look.parent /\ look'.found = look.found /\ look'.k = look.k
      /\ look'.last = look.last /\ look'.success = FALSE /\ look'.dissecting = look.dissecting
      /\ look' \in Look
  BY <1>1 DEF GiveUp, Look
<1>3. Asked' = Asked
  BY AskedStays
<1>4. Excused'
  BY <1>1, <1>3 DEF Excused, GiveUp
<1>5. RequestIsFair'
  BY <1>1, <1>2 DEF RequestIsFair
<1>6. Forward' /\ Backward'
  BY <1>1, <1>2, <1>4 DEF Forward, Backward
<1>7. hindered' \in BOOLEAN
  BY <1>1 DEF GiveUp
<1>. QED BY <1>1, <1>5, <1>6, <1>7 DEF IInv, LookInv

(* The locals of the lookup, one by one *)
LookBecomes(parent, found, k, last, success, dissecting) ==
  /\ look' \in Look
  /\ look'.parent = parent /\ look'.found = found /\ look'.k = k /\ look'.last = last
  /\ look'.success = success /\ look'.dissecting = dissecting

(* The lookup is one component further. *)
LEMMA LookGoesOn ==
  ASSUME look \in Look, NEW c \in McbIds, NEW s \in BOOLEAN,
         look' = [look EXCEPT !.parent = c, !.found = c, !.k = @ + 1, !.success = s]
  PROVE  LookBecomes(c, c, look.k + 1, look.last, s, look.dissecting)
<1>1. look'.parent = c /\ look'.found = c /\ look'.success = s
  BY DEF Look
<1>2. look'.k = look.k + 1 /\ look'.last = look.last /\ look'.dissecting = look.dissecting
  BY DEF Look
<1>3. look' \in Look
  <2>1. look' = [parent |-> c, found |-> c, k |-> look.k + 1, last |-> look.last,
                 success |-> s, dissecting |-> look.dissecting]
    BY DEF Look
  <2>2. look.k + 1 \in Nat /\ look.last \in Nat /\ look.dissecting \in BOOLEAN
    BY DEF Look
  <2>. QED BY <2>1, <2>2 DEF Look
<1>. QED BY <1>1, <1>2, <1>3 DEF LookBecomes

(* The next component is found: by a hit, or in the directory. *)
LEMMA ComponentStep ==
  ASSUME IInv, pc = "search", look.k <= look.last, NEW c, c \in Live', c \in McbIds,
         CacheInv', UNCHANGED <<handle, request, hindered>>, Origins' = Origins,
         mcb'[request.from].inode = mcb[request.from].inode,
         IsDir(mcb[look.parent].inode), mcb'[c].inode = OnDisk,
         NEW s \in BOOLEAN, LookBecomes(c, c, look.k + 1, look.last, s, look.dissecting),
         \/ pc' = "search" /\ s
         \/ pc' = "looked" /\ (s <=> ~More) /\ ~IsDir(OnDisk)
  PROVE  IInv'
<1>1. /\ RequestIsFair /\ Forward /\ Backward /\ look \in Look /\ hindered \in BOOLEAN /\ request \in Request
      /\ c # NoMcb /\ request.path \in Seq(Names) /\ Len(request.path) \in Nat
  BY CacheAssumption DEF IInv, LookInv, RequestIsFair, Request
<1>2. /\ look'.parent = c /\ look'.found = c /\ look'.k = look.k + 1 /\ look.k \in Nat
      /\ look'.last = look.last /\ look'.success = s /\ look'.dissecting = look.dissecting
      /\ look' \in Look /\ look.last \in Nat /\ look.dissecting \in BOOLEAN
  BY <1>1 DEF Look, LookBecomes
<1>3. Asked' = Asked /\ \A j : Prefix(j)' = Prefix(j)
  BY AskedStays
<1>4. Excused' = Excused
  BY <1>3 DEF Excused
<1>5. RequestIsFair'
  BY <1>1, <1>2 DEF RequestIsFair
<1>6. Backward'
  <2>1. look.dissecting => ~More /\ look.k = look.last /\ Excused
    BY <1>1, <1>2 DEF Backward, More
  <2>. QED BY <1>1, <1>2, <1>4, <2>1 DEF Backward
<1>7. ASSUME ~look.dissecting PROVE Forward'
  <2>1. /\ look.last = Len(request.path) /\ look.k \in 1 .. Len(request.path)
        /\ mcb[look.parent].inode = Prefix(look.k - 1)
    BY <1>1, <1>2, <1>7 DEF Forward
  <2>2. Prefix(look.k) = OnDisk
    <3> DEFINE k == look.k
               start == mcb[request.from].inode
               path == request.path
    <3>1. /\ path \in Seq(Names) /\ k \in 1 .. Len(path) /\ IsDir(Along(start, path, k - 1))
          /\ OnDisk = Find(Along(start, path, k - 1), path[k]) /\ Prefix(look.k) = Along(start, path, k)
      BY <1>1, <2>1 DEF Prefix, OnDisk, Component
    <3> HIDE DEF k, start, path
    <3>. QED BY <3>1, AlongIs
  <2>3. look.k + 1 > 1 /\ (look.k + 1) - 1 = look.k /\ look.k + 1 \in 1 .. Len(request.path) + 1
    BY <2>1
  <2>4. request.path # <<>>
    BY <2>1
  <2>5. CASE pc' = "search" /\ s
    BY <1>2, <1>3, <1>7, <2>1, <2>2, <2>3, <2>4, <2>5 DEF Forward
  <2>6. CASE pc' = "looked" /\ (s <=> ~More) /\ ~IsDir(OnDisk)
    <3>1. CASE s
      <4>1. ~request.slash /\ look.k = Len(request.path)
        BY <1>7, <2>1, <2>6, <3>1 DEF More
      <4>. QED BY <1>1, <1>2, <1>3, <1>7, <2>1, <2>2, <2>4, <2>6, <3>1, <4>1 DEF Forward
    <3>2. CASE ~s
      <4>1. look.k < look.last \/ request.slash
        BY <2>6, <3>2 DEF More
      <4>2. CASE look.k < look.last
        <5>1. look.k \in 0 .. Len(request.path) - 1
          BY <2>1, <4>2
        <5>2. ~IsDir(Along(mcb[request.from].inode, request.path, look.k))
          BY <2>2, <2>6 DEF Prefix
        <5>3. Resolve(mcb[request.from].inode, request.path) = NoIno
          BY <1>1, <5>1, <5>2, NothingBelow
        <5>4. Excused
          BY <5>3, AnswersAre
        <5>. QED BY <1>2, <1>4, <1>7, <2>1, <2>6, <3>2, <5>4 DEF Forward
      <4>3. CASE ~ (look.k < look.last) /\ request.slash
        <5>1. Prefix(Len(request.path)) = OnDisk
          BY <2>1, <2>2, <4>3
        <5>2. Excused
          BY <2>6, <4>3, <5>1, AnswersAre
        <5>. QED BY <1>2, <1>4, <1>7, <2>1, <2>6, <3>2, <5>2 DEF Forward
      <4>. QED BY <4>1, <4>2, <4>3
    <3>. QED BY <3>1, <3>2
  <2>. QED BY <2>5, <2>6
<1>8. ASSUME look.dissecting PROVE Forward'
  BY <1>2, <1>8 DEF Forward
<1>. QED BY <1>1, <1>5, <1>6, <1>7, <1>8 DEF IInv, LookInv


(* What the cache knows of a name is what the directory on the disk says. *)
LEMMA CachedIs ==
  ASSUME IInv, pc = "search", NEW c \in Cached(look.parent, Component)
  PROVE  /\ c \in Live /\ c # RootMcb /\ mcb[c].parent = look.parent
         /\ IsDir(mcb[look.parent].inode) /\ mcb[c].inode = OnDisk
         /\ mcb[c].isDir = IsDir(mcb[c].inode)
<1>1. /\ look.parent \in Live /\ c \in ToSet(mcb[look.parent].child)
      /\ SameName(mcb[c].name, Component)
  BY DEF IInv, LookInv, RequestIsFair, Cached
<1>2. c \in Live /\ mcb[c].parent = look.parent
  BY <1>1 DEF IInv, CacheInv, IsTree, Live
<1>3. c # RootMcb
  BY <1>1, <1>2, LiveFacts DEF IInv, CacheInv, IsTree
<1>4. /\ IsDir(mcb[look.parent].inode) /\ mcb[c].inode = Find(mcb[look.parent].inode, mcb[c].name)
      /\ mcb[c].isDir = IsDir(mcb[c].inode)
  BY <1>2, <1>3 DEF IInv, CacheInv, IsOnDisk, Live
<1>5. mcb[c].inode = OnDisk
  BY <1>1, <1>4, FindSame DEF OnDisk
<1>. QED BY <1>2, <1>3, <1>4, <1>5

LEMMA SearchHitStep ==
  ASSUME IInv, SearchHit
  PROVE  IInv'
<1>1. PICK c \in Cached(look.parent, Component) :
        /\ McbList' = Refreshed(McbList, c)
        /\ look' = [look EXCEPT !.parent = c, !.found = c, !.k = @ + 1,
                                !.success = mcb[c].isDir \/ ~More]
        /\ pc' = IF mcb[c].isDir THEN "search" ELSE "looked"
  BY DEF SearchHit
<1>2. /\ pc = "search" /\ look.k <= look.last
      /\ UNCHANGED <<mcb, McbAllocated, others, handle, request, hindered>>
  BY DEF SearchHit
<1>3. /\ c \in Live /\ c # RootMcb /\ IsDir(mcb[look.parent].inode) /\ mcb[c].inode = OnDisk
      /\ mcb[c].isDir = IsDir(OnDisk)
  BY <1>2, CachedIs
<1>4. Live' = Live /\ Origins' = Origins /\ c \in McbIds /\ look \in Look
  BY <1>2, <1>3, LiveFacts DEF Live, Origins, IInv, LookInv, RequestIsFair
<1>5. /\ McbList \in Seq(McbIds) /\ IsInjective(McbList) /\ c \in ToSet(McbList)
      /\ ToSet(McbList) = DOMAIN mcb \ {RootMcb} /\ Len(McbList) = Cardinality(DOMAIN mcb) - 1
      /\ Len(McbList) \in Nat
  BY <1>3 DEF IInv, CacheInv, IsTree, Live
<1>6. CacheInv'
  <2> DEFINE r == RemoveFirst(McbList, c)
  <2>1. r \in Seq(McbIds) /\ IsInjective(r) /\ ToSet(r) = ToSet(McbList) \ {c} /\ Len(r) = Len(McbList) - 1
    BY <1>5, Removed
  <2> HIDE DEF r
  <2>2. /\ Append(r, c) \in Seq(McbIds) /\ IsInjective(Append(r, c))
        /\ ToSet(Append(r, c)) = ToSet(r) \cup {c} /\ Len(Append(r, c)) = Len(r) + 1
    BY <1>4, <2>1, Appended
  <2>3. McbList' = Append(r, c)
    BY <1>1 DEF Refreshed, r
  <2>4. /\ McbList' \in Seq(McbIds) /\ IsInjective(McbList') /\ ToSet(McbList') = ToSet(McbList)
        /\ Len(McbList') = Len(McbList)
    BY <1>5, <2>1, <2>2, <2>3
  <2>5. IsTree(mcb, McbList)'
    BY <1>2, <1>5, <2>4 DEF IInv, CacheInv, IsTree
  <2>6. HandlesCount' /\ AllocatedCount' /\ Rooted(mcb)' /\ IsOnDisk(mcb)'
    BY <1>2 DEF IInv, CacheInv, HandlesCount, OpenHandles, On, Live, AllocatedCount
  <2>. QED BY <2>5, <2>6 DEF CacheInv
<1>7. CASE IsDir(OnDisk)
  <2>1. look' = [look EXCEPT !.parent = c, !.found = c, !.k = @ + 1, !.success = TRUE]
    BY <1>1, <1>3, <1>7
  <2>2. LookBecomes(c, c, look.k + 1, look.last, TRUE, look.dissecting)
    BY <1>4, <2>1, LookGoesOn
  <2>3. pc' = "search"
    BY <1>1, <1>3, <1>7
  <2>. QED BY <1>2, <1>3, <1>4, <1>6, <2>2, <2>3, ComponentStep
<1>8. CASE ~IsDir(OnDisk)
  <2> DEFINE s == ~More
  <2>0. s \in BOOLEAN
    OBVIOUS
  <2>1. look' = [look EXCEPT !.parent = c, !.found = c, !.k = @ + 1, !.success = s]
    <3>1. mcb[c].isDir = FALSE
      BY <1>3, <1>8
    <3>2. (mcb[c].isDir \/ ~More) = ~More
      BY <3>1
    <3>. QED BY <1>1, <3>2
  <2>2. s <=> ~More
    OBVIOUS
  <2> HIDE DEF s
  <2>3. LookBecomes(c, c, look.k + 1, look.last, s, look.dissecting)
    BY <1>4, <2>0, <2>1, LookGoesOn
  <2>4. pc' = "looked"
    BY <1>1, <1>3, <1>8
  <2>. QED BY <1>2, <1>3, <1>4, <1>6, <1>8, <2>0, <2>2, <2>3, <2>4, ComponentStep
<1>. QED BY <1>7, <1>8

(* A step of the create that leaves the cache alone *)
LEMMA QuietStep ==
  ASSUME IInv, UNCHANGED <<cacheVars, handle, request>>
  PROVE  /\ CacheInv' /\ Live' = Live /\ Origins' = Origins /\ Asked' = Asked
         /\ \A j : Prefix(j)' = Prefix(j)
<1>1. CacheInv'
  BY CacheStays DEF IInv
<1>2. mcb' = mcb /\ handle' = handle /\ request' = request
  BY DEF cacheVars
<1>. QED BY <1>1, <1>2, AskedStays DEF Live, Origins

LEMMA EndOfPathStep ==
  ASSUME IInv, EndOfPath
  PROVE  IInv'
<1>1. /\ pc = "search" /\ look.k > look.last /\ pc' = "looked"
      /\ UNCHANGED <<cacheVars, handle, request, look, hindered>> /\ mcb' = mcb /\ handle' = handle
  BY DEF EndOfPath, cacheVars
<1>2. CacheInv' /\ Live' = Live /\ Origins' = Origins /\ Asked' = Asked /\ \A j : Prefix(j)' = Prefix(j)
  BY <1>1, QuietStep
<1>3. /\ RequestIsFair /\ Forward /\ Backward /\ look \in Look /\ look.parent # NoMcb
      /\ hindered \in BOOLEAN /\ request.path \in Seq(Names) /\ Len(request.path) \in Nat
  BY <1>1, LiveFacts DEF IInv, LookInv, RequestIsFair, Request
<1>4. RequestIsFair'
  BY <1>1, <1>2, <1>3 DEF RequestIsFair
<1>5. Excused' = Excused
  BY <1>1, <1>2 DEF Excused
<1>6. Forward'
  <2> SUFFICES ASSUME ~look.dissecting PROVE Forward'
    BY <1>1 DEF Forward
  <2>1. /\ look.last = Len(request.path) /\ request.path # <<>> /\ look.k \in 1 .. Len(request.path) + 1
        /\ mcb[look.parent].inode = Prefix(look.k - 1) /\ (look.success <=> look.k > 1)
        /\ (look.success => look.found = look.parent)
    BY <1>1, <1>3 DEF Forward
  <2>2. look.k - 1 = Len(request.path) /\ look.k > 1
    <3>1. Len(request.path) # 0
      BY <1>3, <2>1
    <3>. QED BY <1>1, <1>3, <2>1, <3>1
  <2>. QED BY <1>1, <1>2, <1>3, <2>1, <2>2 DEF Forward
<1>7. Backward'
  BY <1>1, <1>3, <1>5 DEF Backward
<1>. QED BY <1>1, <1>2, <1>3, <1>4, <1>6, <1>7 DEF IInv, LookInv

LEMMA ScanFileStep ==
  ASSUME IInv, ScanFile
  PROVE  IInv'
<1>1. /\ pc = "search" /\ look.k <= look.last /\ ~IsDir(mcb[look.parent].inode)
      /\ UNCHANGED <<cacheVars, handle, request>> /\ mcb' = mcb /\ handle' = handle
  BY DEF ScanFile, Missed, cacheVars
<1>2. CacheInv' /\ Live' = Live /\ Origins' = Origins /\ Asked' = Asked /\ \A j : Prefix(j)' = Prefix(j)
  BY <1>1, QuietStep
<1>3. /\ RequestIsFair /\ Forward /\ Backward /\ look \in Look /\ look.parent \in Live
      /\ hindered \in BOOLEAN /\ request.path \in Seq(Names) /\ Len(request.path) \in Nat
  BY <1>1 DEF IInv, LookInv, RequestIsFair, Request
<1>4. CASE GiveUp(TRUE)
  BY <1>1, <1>2, <1>3, <1>4, GiveUpStep
<1>5. CASE /\ pc' = "looked" /\ UNCHANGED hindered
           /\ look' = [look EXCEPT !.found = NoMcb, !.success = @ /\ ~More]
  <2>1. LookBecomes(look.parent, NoMcb, look.k, look.last, look.success /\ ~More, look.dissecting)
    BY <1>3, <1>5 DEF Look, LookBecomes
  <2>2. RequestIsFair'
    BY <1>1, <1>2, <1>3, <2>1 DEF RequestIsFair, LookBecomes
  <2>3. Excused' = Excused
    BY <1>2, <1>5 DEF Excused
  <2>4. Backward'
    <3>1. look.dissecting => ~look.success /\ Excused
      BY <1>1, <1>3 DEF Backward, Look
    <3>. QED BY <1>1, <1>3, <1>5, <2>1, <2>3, <3>1 DEF Backward, LookBecomes
  <2>5. ASSUME ~look.dissecting PROVE Forward'
    <3>1. /\ look.last = Len(request.path) /\ request.path # <<>> /\ look.k \in 1 .. Len(request.path)
          /\ mcb[look.parent].inode = Prefix(look.k - 1) /\ (look.success <=> look.k > 1)
      BY <1>1, <1>3, <2>5 DEF Forward
    <3>2. look.success /\ ~More => /\ look.k = Len(request.path) /\ Len(request.path) > 1
                                   /\ ~request.slash
      BY <2>5, <3>1 DEF More
    <3>3. mcb[look.parent].inode # NoIno
      BY <1>3, LiveFacts
    <3>4. Excused
      BY <1>1, <2>5, Lost
    <3>. QED BY <1>1, <1>2, <1>5, <2>1, <2>3, <3>1, <3>2, <3>3, <3>4 DEF Forward, LookBecomes
  <2>6. Forward'
    <3>1. ASSUME look.dissecting PROVE Forward'
      BY <2>1, <3>1 DEF Forward, LookBecomes
    <3>. QED BY <2>5, <3>1
  <2>. QED BY <1>2, <1>3, <1>5, <2>2, <2>4, <2>6 DEF IInv, LookInv
<1>. QED BY <1>4, <1>5 DEF ScanFile

LEMMA ScanMissStep ==
  ASSUME IInv, ScanMiss
  PROVE  IInv'
<1>1. /\ pc = "search" /\ look.k <= look.last
      /\ UNCHANGED <<cacheVars, handle, request>> /\ mcb' = mcb /\ handle' = handle
  BY DEF ScanMiss, Missed, cacheVars
<1>2. CacheInv' /\ Live' = Live /\ Origins' = Origins
  BY <1>1, QuietStep
<1>3. Backward /\ look.parent \in Live
  BY <1>1 DEF IInv, LookInv, RequestIsFair
<1>4. CASE GiveUp(TRUE)
  BY <1>1, <1>2, <1>3, <1>4, GiveUpStep
<1>5. CASE OnDisk = NoIno /\ GiveUp(FALSE)
  <2>1. Excused
    <3>1. CASE look.dissecting
      BY <1>3, <3>1 DEF Backward
    <3>2. CASE ~look.dissecting
      BY <1>1, <1>5, <3>2, Lost
    <3>. QED BY <3>1, <3>2
  <2>. QED BY <1>1, <1>2, <1>3, <1>5, <2>1, GiveUpStep
<1>. QED BY <1>4, <1>5 DEF ScanMiss

(* The cache after the walk, and with a new MCB or without *)
LEMMA AfterReaping ==
  ASSUME IInv, pc = "search"
  PROVE  /\ Sound(Reaped.tree, Reaped.list)
         /\ DOMAIN Reaped.tree \subseteq Live /\ SameMcbs(Reaped.tree, mcb)
         /\ look.parent \in DOMAIN Reaped.tree
         /\ request.from \in DOMAIN Reaped.tree
         /\ \A h \in OpenHandles : handle[h] \in DOMAIN Reaped.tree
         /\ IsFiniteSet(DOMAIN Reaped.tree) /\ Cardinality(DOMAIN Reaped.tree) \in Nat
         /\ McbAllocated - Freed = Cardinality(DOMAIN Reaped.tree) + others
<1>1. /\ Sound(Reaped.tree, Reaped.list) /\ LeftOf(Reaped.tree) /\ Freed \in Nat
      /\ Freed = Cardinality(Live) - Cardinality(DOMAIN Reaped.tree)
  BY ReapedIs
<1>2. look.parent \in Live /\ request.from \in Origins
  BY DEF IInv, LookInv, RequestIsFair
<1>3. IsFiniteSet(DOMAIN Reaped.tree) /\ Cardinality(DOMAIN Reaped.tree) \in Nat
  BY <1>1, LiveIsFinite DEF Sound
<1>4. IsFiniteSet(Live) /\ Cardinality(Live) \in Nat
  BY LiveIsFinite DEF IInv, CacheInv, Live
<1>5. McbAllocated = Cardinality(Live) + others /\ others \in Nat
  BY CacheAssumption DEF IInv, CacheInv, AllocatedCount
<1>6. request.from \in DOMAIN Reaped.tree
  <2>1. request.from \in Live /\ (request.from = RootMcb \/ mcb[request.from].hasFcb)
    BY <1>2, LiveFacts
  <2>2. mcb[RootMcb].inode = RootIno
    BY DEF IInv, CacheInv, IsOnDisk
  <2>. QED BY <1>1, <2>1, <2>2 DEF LeftOf
<1>7. \A h \in OpenHandles : handle[h] \in DOMAIN Reaped.tree
  BY <1>1 DEF LeftOf, IInv, CacheInv, HandlesCount
<1>8. look.parent \in DOMAIN Reaped.tree
  BY <1>1, <1>2 DEF LeftOf
<1>. QED BY <1>1, <1>3, <1>4, <1>5, <1>6, <1>7, <1>8 DEF LeftOf

LEMMA ScanFoundStep ==
  ASSUME IInv, ScanFound
  PROVE  IInv'
<1> DEFINE tree == Reaped.tree
           p == look.parent
<1>1. /\ pc = "search" /\ look.k <= look.last /\ Cached(p, Component) = {}
      /\ IsDir(mcb[p].inode) /\ OnDisk # NoIno /\ UNCHANGED <<others, handle, request>>
  BY DEF ScanFound, Missed
<1>2. /\ Sound(tree, Reaped.list) /\ DOMAIN tree \subseteq Live /\ SameMcbs(tree, mcb)
      /\ p \in DOMAIN tree /\ request.from \in DOMAIN tree
      /\ \A h \in OpenHandles : handle[h] \in DOMAIN tree
      /\ IsFiniteSet(DOMAIN tree) /\ Cardinality(DOMAIN tree) \in Nat
      /\ McbAllocated - Freed = Cardinality(DOMAIN tree) + others
  BY <1>1, AfterReaping
<1>3. Origins' = Origins /\ OpenHandles' = OpenHandles /\ \A m : On(m)' = On(m)
  BY <1>1 DEF Origins, OpenHandles, On
<1>4. /\ look \in Look /\ request.path \in Seq(Names) /\ look.k \in 1 .. Len(request.path)
  <2>1. /\ look \in Look /\ request.path \in Seq(Names) /\ Len(request.path) \in Nat
        /\ Forward /\ Backward /\ look.k \in Nat /\ look.last \in Nat
    BY <1>1 DEF IInv, LookInv, RequestIsFair, Request, Look
  <2>2. CASE look.dissecting
    BY <1>1, <2>1, <2>2 DEF Backward
  <2>3. CASE ~look.dissecting
    BY <1>1, <2>1, <2>3 DEF Forward
  <2>. QED BY <2>1, <2>2, <2>3
<1>5. Component \in Names
  BY <1>4 DEF Component
<1>6. others \in 0 .. MaxOthers /\ McbAllocated \in Nat
  BY DEF IInv, CacheInv, AllocatedCount
<1>7. /\ handle \in [Handles -> McbIds \cup {NoMcb}] /\ IsFiniteSet(OpenHandles)
      /\ \A h \in OpenHandles : handle[h] \in Live /\ mcb[handle[h]].hasFcb
      /\ \A m \in Live : mcb[m].refs = Cardinality(On(m))
  BY DEF IInv, CacheInv, HandlesCount
<1> HIDE DEF tree
<1>8. ASSUME NEW new \in McbIds \ DOMAIN tree,
             mcb' = Added(tree, p, new, Component, OnDisk), McbList' = Append(Reaped.list, new),
             McbAllocated' = McbAllocated - Freed + 1,
             look' = [look EXCEPT !.parent = new, !.found = new, !.k = @ + 1, !.success = TRUE],
             UNCHANGED <<pc, hindered>>
      PROVE  IInv'
  <2>1. tree[p].inode = mcb[p].inode /\ OnDisk = Find(tree[p].inode, Component)
    BY <1>2 DEF SameMcbs, OnDisk
  <2>2. \A c \in ToSet(tree[p].child) : ~SameName(tree[c].name, Component)
    <3> TAKE c \in ToSet(tree[p].child)
    <3>1. c \in DOMAIN tree /\ c \in ToSet(mcb[p].child)
      BY <1>2 DEF Sound, IsTree, SameMcbs
    <3>2. tree[c].name = mcb[c].name
      BY <1>2, <3>1 DEF SameMcbs
    <3>. QED BY <1>1, <3>1, <3>2 DEF Cached
  <2>3. Sound(mcb', McbList')
    BY <1>1, <1>2, <1>5, <1>8, <2>1, <2>2, AddedIsSound
  <2>4. /\ DOMAIN mcb' = DOMAIN tree \cup {new} /\ mcb'[new].inode = OnDisk /\ mcb'[new].refs = 0
        /\ \A x \in DOMAIN tree : /\ mcb'[x].inode = mcb[x].inode /\ mcb'[x].hasFcb = mcb[x].hasFcb
                                  /\ mcb'[x].refs = mcb[x].refs
    <3>1. /\ DOMAIN mcb' = DOMAIN tree \cup {new} /\ mcb'[new].inode = OnDisk /\ mcb'[new].refs = 0
          /\ \A x \in DOMAIN tree : mcb'[x] = IF x = p THEN [tree[x] EXCEPT !.child = Append(@, new)]
                                              ELSE tree[x]
      BY <1>8 DEF Added
    <3>2. \A x \in DOMAIN tree : tree[x] \in Node
      BY <1>2 DEF Sound, IsTree
    <3>3. \A x \in DOMAIN tree : /\ mcb'[x].inode = tree[x].inode /\ mcb'[x].hasFcb = tree[x].hasFcb
                                 /\ mcb'[x].refs = tree[x].refs
      BY <3>1, <3>2 DEF Node
    <3>. QED BY <1>2, <3>1, <3>3 DEF SameMcbs
  <2>5. HandlesCount'
    <3>1. \A h \in OpenHandles' : handle'[h] \in Live' /\ mcb'[handle'[h]].hasFcb
      BY <1>1, <1>2, <1>3, <1>7, <2>4 DEF Live
    <3>2. \A m \in DOMAIN tree : mcb'[m].refs = Cardinality(On(m)')
      BY <1>2, <1>3, <1>7, <2>4
    <3>3. On(new) = {}
      BY <1>2, <1>8, CacheAssumption DEF On, OpenHandles
    <3>4. mcb'[new].refs = Cardinality(On(new)')
      BY <1>3, <2>4, <3>3, FS_EmptySet
    <3>5. Live' = DOMAIN tree \cup {new}
      BY <2>4 DEF Live
    <3>6. \A m \in Live' : mcb'[m].refs = Cardinality(On(m)')
      BY <3>2, <3>4, <3>5
    <3>. QED BY <1>1, <1>3, <1>7, <3>1, <3>6 DEF HandlesCount
  <2>6. AllocatedCount'
    <3>1. Cardinality(DOMAIN tree \cup {new}) = Cardinality(DOMAIN tree) + 1
      BY <1>2, <1>8, FS_AddElement
    <3>2. Live' = DOMAIN tree \cup {new}
      BY <2>4 DEF Live
    <3>. QED BY <1>1, <1>2, <1>6, <1>8, <3>1, <3>2, CacheAssumption DEF AllocatedCount
  <2>7. CacheInv'
    BY <2>3, <2>5, <2>6 DEF CacheInv, Sound
  <2>8. LookBecomes(new, new, look.k + 1, look.last, TRUE, look.dissecting)
    BY <1>4, <1>8, LookGoesOn
  <2>9. /\ new \in Live' /\ new \in McbIds /\ mcb'[request.from].inode = mcb[request.from].inode
        /\ pc' = "search" /\ TRUE \in BOOLEAN
    BY <1>1, <1>2, <1>8, <2>4 DEF Live
  <2>. QED BY <1>1, <1>3, <1>8, <2>4, <2>7, <2>8, <2>9, ComponentStep
<1>9. ASSUME mcb' = tree, McbList' = Reaped.list, McbAllocated' = McbAllocated - Freed, GiveUp(TRUE)
      PROVE  IInv'
  <2>1. /\ DOMAIN mcb' = DOMAIN tree /\ Live' = DOMAIN tree
        /\ \A x \in DOMAIN tree : /\ mcb'[x].inode = mcb[x].inode /\ mcb'[x].hasFcb = mcb[x].hasFcb
                                  /\ mcb'[x].refs = mcb[x].refs
    BY <1>2, <1>9 DEF SameMcbs, Live
  <2>2. HandlesCount'
    BY <1>1, <1>2, <1>3, <1>7, <2>1 DEF HandlesCount
  <2>3. AllocatedCount'
    BY <1>1, <1>2, <1>6, <1>9, <2>1, CacheAssumption DEF AllocatedCount
  <2>4. CacheInv'
    BY <1>2, <1>9, <2>2, <2>3 DEF CacheInv, Sound
  <2>5. look.parent \in Live' /\ mcb'[request.from].inode = mcb[request.from].inode
    BY <1>2, <2>1
  <2>. QED BY <1>1, <1>3, <1>9, <2>4, <2>5, GiveUpStep
<1>. QED BY <1>8, <1>9 DEF ScanFound, tree


LEMMA NullMcbStep ==
  ASSUME IInv, NullMcb
  PROVE  IInv'
<1>1. /\ mcb' = OnlyTheRoot /\ McbList' = <<>> /\ McbAllocated' = 1 /\ others' = 0
      /\ handle' = [h \in Handles |-> NoMcb] /\ Live' = {RootMcb} /\ Complete
  BY RootAlone DEF NullMcb, Live
<1>2. OpenHandles' = {} /\ \A m \in McbIds : On(m)' = {}
  BY <1>1, CacheAssumption DEF OpenHandles, On
<1>3. HandlesCount'
  BY <1>1, <1>2, RootAlone, CacheAssumption, FS_EmptySet DEF HandlesCount
<1>4. AllocatedCount'
  BY <1>1, RootAlone, CacheAssumption DEF AllocatedCount
<1>5. CacheInv'
  BY <1>1, <1>3, <1>4, RootAlone DEF CacheInv, Sound
<1>. QED BY <1>1, <1>5, CompleteStep

LEMMA LoadFailsStep ==
  ASSUME IInv, LoadFails
  PROVE  IInv'
<1>1. /\ pc = "looked" /\ pc' = "looked" /\ look' = [look EXCEPT !.success = FALSE] /\ hindered' = TRUE
      /\ UNCHANGED <<cacheVars, handle, request>> /\ mcb' = mcb /\ handle' = handle
  BY DEF LoadFails, cacheVars
<1>2. CacheInv' /\ Live' = Live /\ Origins' = Origins
  BY <1>1, QuietStep
<1>3. RequestIsFair /\ Forward /\ Backward /\ look \in Look
  BY <1>1 DEF IInv, LookInv, RequestIsFair
<1>4. LookBecomes(look.parent, look.found, look.k, look.last, FALSE, look.dissecting)
  BY <1>1, <1>3 DEF Look, LookBecomes
<1>5. RequestIsFair'
  BY <1>1, <1>2, <1>3, <1>4 DEF RequestIsFair, LookBecomes
<1>6. Excused'
  BY <1>1 DEF Excused
<1>7. Forward'
  BY <1>1, <1>3, <1>4, <1>6 DEF Forward, LookBecomes
<1>8. Backward'
  BY <1>1, <1>3, <1>4, <1>6 DEF Backward, LookBecomes
<1>. QED BY <1>1, <1>2, <1>5, <1>7, <1>8 DEF IInv, LookInv

(* What the second round begins with, and every component of it *)
LEMMA StartStep ==
  ASSUME IInv, pc # "idle", UNCHANGED <<cacheVars, handle, request, hindered>>, Excused,
         NEW p \in Live, NEW k \in Nat, look' = Start(p, k, k, TRUE),
         \/ pc' = "parent"
         \/ pc' = "search" /\ k \in 1 .. Len(request.path) - 1
  PROVE  IInv'
<1>1. /\ CacheInv' /\ Live' = Live /\ Origins' = Origins /\ Asked' = Asked /\ handle' = handle
      /\ mcb' = mcb /\ request' = request /\ hindered' = hindered
  BY QuietStep DEF cacheVars
<1>2. p \in McbIds
  BY LiveFacts
<1>3. LookBecomes(p, NoMcb, k, k, FALSE, TRUE)
  BY <1>2 DEF Start, Look, LookBecomes
<1>4. Excused'
  BY <1>1 DEF Excused
<1>5. RequestIsFair'
  BY <1>1, <1>3 DEF IInv, LookInv, RequestIsFair, LookBecomes
<1>6. Forward'
  BY <1>3 DEF Forward, LookBecomes
<1>7. Backward'
  <2>1. /\ look'.dissecting = TRUE /\ look'.last = k /\ look'.k = k /\ look'.success = FALSE
    BY <1>3 DEF LookBecomes
  <2>2. CASE pc' = "parent"
    BY <1>4, <2>1, <2>2 DEF Backward
  <2>3. CASE pc' = "search" /\ k \in 1 .. Len(request.path) - 1
    BY <1>1, <1>4, <2>1, <2>3, k \in k .. k + 1, ~(k > k) DEF Backward
  <2>. QED BY <2>2, <2>3
<1>. QED BY <1>1, <1>5, <1>6, <1>7 DEF IInv, LookInv

LEMMA DissectStep ==
  ASSUME IInv, Dissect
  PROVE  IInv'
<1>1. /\ pc = "looked" /\ ~look.success /\ ~look.dissecting /\ UNCHANGED <<cacheVars, handle>>
  BY DEF Dissect, NotFound
<1>2. CASE Complete
  BY <1>1, <1>2, CacheStays, CompleteStep DEF IInv
<1>3. CASE ~Complete
  <2>1. /\ pc' = IF Len(request.path) <= 1 THEN "parent" ELSE "search"
        /\ look' = Start(request.from, 1, 1, TRUE) /\ UNCHANGED request /\ UNCHANGED hindered
    BY <1>3 DEF Dissect
  <2>2. /\ Excused /\ request.from \in Live /\ Len(request.path) \in Nat
    BY <1>1, LiveFacts DEF IInv, LookInv, RequestIsFair, Forward, Request
  <2>3. pc' = "parent" \/ (pc' = "search" /\ 1 \in 1 .. Len(request.path) - 1)
    <3>1. CASE Len(request.path) <= 1
      BY <2>1, <3>1
    <3>2. CASE ~(Len(request.path) <= 1)
      <4>1. 1 \in 1 .. Len(request.path) - 1
        BY <2>2, <3>2
      <4>. QED BY <2>1, <3>2, <4>1
    <3>. QED BY <3>1, <3>2
  <2>. QED BY <1>1, <2>1, <2>2, <2>3, StartStep
<1>. QED BY <1>2, <1>3

LEMMA DissectNextStep ==
  ASSUME IInv, DissectNext
  PROVE  IInv'
<1>1. /\ pc = "looked" /\ look.dissecting /\ UNCHANGED <<cacheVars, handle>>
  BY DEF DissectNext
<1>2. CASE ~look.success
  BY <1>1, <1>2, CacheStays, CompleteStep DEF IInv, DissectNext
<1>3. CASE look.success
  <2> DEFINE k == look.last + 1
  <2>1. /\ pc' = IF k = Len(request.path) THEN "parent" ELSE "search"
        /\ look' = Start(look.found, k, k, TRUE) /\ UNCHANGED request /\ UNCHANGED hindered
    BY <1>3 DEF DissectNext
  <2>2. /\ Excused /\ look.found \in Live /\ Len(request.path) \in Nat
        /\ look.last \in 1 .. Len(request.path) - 1
    BY <1>1, <1>3 DEF IInv, LookInv, RequestIsFair, Backward, Request
  <2>3. k \in Nat /\ (pc' = "parent" \/ (pc' = "search" /\ k \in 1 .. Len(request.path) - 1))
    <3>1. CASE k = Len(request.path)
      BY <2>1, <2>2, <3>1
    <3>2. CASE k # Len(request.path)
      <4>1. k \in 1 .. Len(request.path) - 1
        BY <2>2, <3>2
      <4>. QED BY <2>1, <3>2, <4>1
    <3>. QED BY <3>1, <3>2
  <2> HIDE DEF k
  <2>. QED BY <1>1, <2>1, <2>2, <2>3, StartStep
<1>. QED BY <1>2, <1>3

LEMMA RefuseStep ==
  ASSUME IInv, Refuse \/ NoParentFcb
  PROVE  IInv'
BY CacheStays, CompleteStep DEF IInv, Refuse, NoParentFcb

LEMMA CreateRefusedStep ==
  ASSUME IInv, CreateRefused
  PROVE  IInv'
<1> DEFINE p == look.parent
<1>1. pc = "parent" /\ Complete /\ UNCHANGED <<McbList, McbAllocated, others, handle>>
  BY DEF CreateRefused
<1>2. CASE mcb' = mcb
  BY <1>1, <1>2, CacheStays, CompleteStep DEF IInv, cacheVars
<1>3. CASE mcb' = ParentFcb
  <2>1. p \in Live /\ mcb \in [Live -> Node] /\ CacheInv
    BY <1>1, LiveFacts DEF IInv, LookInv, RequestIsFair
  <2>2. mcb[p].refs \in Nat
    BY <2>1 DEF Node
  <2>3. mcb' = [mcb EXCEPT ![p].hasFcb = TRUE, ![p].refs = mcb[p].refs]
    BY <1>3, <2>1 DEF ParentFcb, Node
  <2> HIDE DEF p
  <2>4. /\ IsTree(mcb, McbList)' /\ Rooted(mcb)' /\ IsOnDisk(mcb)'
        /\ Live' = Live /\ mcb'[p].hasFcb = TRUE /\ mcb'[p].refs = mcb[p].refs
        /\ \A x \in Live \ {p} : mcb'[x] = mcb[x]
    BY <1>1, <2>1, <2>2, <2>3, FcbChanges
  <2>5. HandlesCount'
    BY <1>1, <2>1, <2>4 DEF CacheInv, HandlesCount, OpenHandles, On
  <2>6. AllocatedCount'
    BY <1>1, <2>1, <2>4 DEF CacheInv, AllocatedCount
  <2>7. CacheInv'
    BY <2>4, <2>5, <2>6 DEF CacheInv
  <2>. QED BY <1>1, <2>7, CompleteStep
<1>. QED BY <1>2, <1>3 DEF CreateRefused

LEMMA OpenStep ==
  ASSUME IInv, Open
  PROVE  IInv'
<1>0. PICK f, t : f = look.found /\ t = request.to
  OBVIOUS
<1>1. /\ pc = "looked" /\ look.found # NoMcb /\ Complete /\ UNCHANGED <<McbList, McbAllocated, others>>
      /\ mcb' = [mcb EXCEPT ![f].hasFcb = TRUE, ![f].refs = @ + 1]
      /\ handle' = [handle EXCEPT ![t] = f]
  BY <1>0 DEF Open, Found
<1>2. /\ f \in Live /\ t \in Handles /\ handle[t] = NoMcb /\ CacheInv /\ mcb \in [Live -> Node]
      /\ Live \subseteq McbIds /\ NoMcb \notin Live
  BY <1>0, <1>1, LiveFacts DEF IInv, LookInv, RequestIsFair, Request
<1>3. mcb[f].refs \in Nat /\ mcb[f].refs + 1 \in Nat
  BY <1>2 DEF Node
<1>4. mcb' = [mcb EXCEPT ![f].hasFcb = TRUE, ![f].refs = mcb[f].refs + 1]
  BY <1>1, <1>2 DEF Node
<1>5. /\ IsTree(mcb, McbList)' /\ Rooted(mcb)' /\ IsOnDisk(mcb)'
      /\ Live' = Live /\ mcb'[f].hasFcb = TRUE /\ mcb'[f].refs = mcb[f].refs + 1
      /\ \A x \in Live \ {f} : mcb'[x] = mcb[x]
  BY <1>1, <1>2, <1>3, <1>4, FcbChanges
<1>6. /\ handle \in [Handles -> McbIds \cup {NoMcb}] /\ IsFiniteSet(OpenHandles)
      /\ \A h \in OpenHandles : handle[h] \in Live /\ mcb[handle[h]].hasFcb
      /\ \A m \in Live : mcb[m].refs = Cardinality(On(m))
  BY <1>2 DEF CacheInv, HandlesCount
<1>7. /\ OpenHandles' = OpenHandles \cup {t} /\ On(f)' = On(f) \cup {t} /\ t \notin On(f)
      /\ \A m \in Live \ {f} : On(m)' = On(m)
  <2>1. /\ handle'[t] = f /\ f # NoMcb
        /\ \A h \in Handles \ {t} : handle'[h] = handle[h]
    BY <1>1, <1>2, <1>6
  <2>2. OpenHandles' = OpenHandles \cup {t}
    BY <1>2, <2>1 DEF OpenHandles
  <2>3. On(f)' = On(f) \cup {t} /\ t \notin On(f)
    BY <1>2, <2>1 DEF On
  <2>4. ASSUME NEW m \in Live \ {f} PROVE On(m)' = On(m)
    BY <1>2, <2>1 DEF On
  <2>. QED BY <2>2, <2>3, <2>4
<1>8. HandlesCount'
  <2>1. IsFiniteSet(On(f)) /\ IsFiniteSet(OpenHandles')
    <3>1. On(f) \subseteq OpenHandles
      BY <1>2 DEF On, OpenHandles
    <3>. QED BY <1>6, <1>7, <3>1, FS_Subset, FS_AddElement
  <2>2. Cardinality(On(f)') = Cardinality(On(f)) + 1
    BY <1>7, <2>1, FS_AddElement
  <2>3. \A m \in Live' : mcb'[m].refs = Cardinality(On(m)')
    <3> TAKE m \in Live'
    <3>1. CASE m = f
      BY <1>2, <1>5, <1>6, <2>2, <3>1
    <3>2. CASE m # f
      BY <1>5, <1>6, <1>7, <3>2
    <3>. QED BY <3>1, <3>2
  <2>4. handle' \in [Handles -> McbIds \cup {NoMcb}]
    BY <1>1, <1>2, <1>6
  <2>5. \A h \in OpenHandles' : handle'[h] \in Live' /\ mcb'[handle'[h]].hasFcb
    <3> TAKE h \in OpenHandles'
    <3>1. CASE h = t
      BY <1>1, <1>2, <1>5, <1>6, <3>1
    <3>2. CASE h # t
      <4>1. h \in OpenHandles /\ handle'[h] = handle[h]
        BY <1>1, <1>6, <1>7, <3>2
      <4>. QED BY <1>5, <1>6, <4>1
    <3>. QED BY <3>1, <3>2
  <2>. QED BY <2>1, <2>3, <2>4, <2>5 DEF HandlesCount
<1>9. AllocatedCount'
  BY <1>1, <1>2, <1>5 DEF CacheInv, AllocatedCount
<1>10. CacheInv'
  BY <1>5, <1>8, <1>9 DEF CacheInv
<1>. QED BY <1>1, <1>10, CompleteStep

LEMMA OpenHinderedStep ==
  ASSUME IInv, OpenHindered
  PROVE  IInv'
<1>1. CASE Complete /\ UNCHANGED <<cacheVars, handle>>
  BY <1>1, CacheStays, CompleteStep DEF IInv
<1>2. CASE hindered' = TRUE /\ UNCHANGED <<cacheVars, handle, pc, request, look>>
  <2>1. CacheInv' /\ Live' = Live /\ Origins' = Origins /\ Asked' = Asked /\ \A j : Prefix(j)' = Prefix(j)
    BY <1>2, QuietStep
  <2>2. mcb' = mcb /\ handle' = handle /\ request' = request /\ look' = look /\ pc' = pc
    BY <1>2 DEF cacheVars
  <2>3. Excused'
    BY <1>2 DEF Excused
  <2>4. LookInv'
    BY <2>1, <2>2, <2>3 DEF IInv, LookInv, RequestIsFair, Forward, Backward
  <2>. QED BY <1>2, <2>1, <2>2, <2>4 DEF IInv
<1>. QED BY <1>1, <1>2 DEF OpenHindered

LEMMA CloseStep ==
  ASSUME IInv, NEW h \in Handles, Close(h)
  PROVE  IInv'
<1>0. PICK m, n, b : m = handle[h] /\ n = mcb[m].refs /\ b = (n > 1)
  OBVIOUS
<1>1. /\ pc = "idle" /\ m # NoMcb /\ UNCHANGED <<McbList, McbAllocated, others, pc, request, look, hindered>>
      /\ mcb' = [mcb EXCEPT ![m].refs = @ - 1, ![m].hasFcb = n > 1]
      /\ handle' = [handle EXCEPT ![h] = NoMcb]
  BY <1>0 DEF Close
<1>2. /\ handle \in [Handles -> McbIds \cup {NoMcb}] /\ IsFiniteSet(OpenHandles)
      /\ \A g \in OpenHandles : handle[g] \in Live /\ mcb[handle[g]].hasFcb
      /\ \A x \in Live : mcb[x].refs = Cardinality(On(x))
  BY DEF IInv, CacheInv, HandlesCount
<1>3. /\ m \in Live /\ h \in On(m) /\ CacheInv /\ mcb \in [Live -> Node]
      /\ Live \subseteq McbIds /\ NoMcb \notin Live
  BY <1>0, <1>1, <1>2, LiveFacts DEF IInv, OpenHandles, On
<1>4. /\ n = Cardinality(On(m)) /\ n \in Nat /\ IsFiniteSet(On(m))
      /\ Cardinality(On(m) \ {h}) = n - 1 /\ n - 1 \in Nat
  <2>1. On(m) \subseteq OpenHandles
    BY <1>1, <1>3 DEF On, OpenHandles
  <2>2. IsFiniteSet(On(m)) /\ IsFiniteSet(On(m) \ {h}) /\ Cardinality(On(m) \ {h}) = Cardinality(On(m)) - 1
    BY <1>2, <1>3, <2>1, FS_Subset, FS_RemoveElement
  <2>. QED BY <1>0, <1>2, <1>3, <2>2, FS_CardinalityType
<1>5. mcb' = [mcb EXCEPT ![m].hasFcb = n > 1, ![m].refs = n - 1]
  BY <1>0, <1>1, <1>3 DEF Node
<1>6. b \in BOOLEAN
  BY <1>0
<1>7. b <=> n > 1
  BY <1>0
<1>8. mcb' = [mcb EXCEPT ![m].hasFcb = b, ![m].refs = n - 1]
  BY <1>0, <1>5
<1>9. /\ IsTree(mcb, McbList)' /\ Rooted(mcb)' /\ IsOnDisk(mcb)'
      /\ Live' = Live /\ mcb'[m].hasFcb = b /\ mcb'[m].refs = n - 1
      /\ \A x \in Live \ {m} : mcb'[x] = mcb[x]
  BY <1>1, <1>3, <1>4, <1>6, <1>8, FcbChanges
<1>10. /\ OpenHandles' = OpenHandles \ {h} /\ On(m)' = On(m) \ {h}
       /\ \A x \in Live \ {m} : On(x)' = On(x)
  <2>1. h \in Handles /\ handle[h] = m
    BY <1>0
  <2>2. handle'[h] = NoMcb /\ \A g \in Handles \ {h} : handle'[g] = handle[g]
    BY <1>1, <1>2
  <2>3. OpenHandles' = OpenHandles \ {h}
    BY <2>1, <2>2 DEF OpenHandles
  <2>4. On(m)' = On(m) \ {h}
    BY <1>3, <2>1, <2>2 DEF On
  <2>5. ASSUME NEW x \in Live \ {m} PROVE On(x)' = On(x)
    BY <1>3, <2>1, <2>2 DEF On
  <2>. QED BY <2>3, <2>4, <2>5
<1>11. HandlesCount'
  <2>1. IsFiniteSet(OpenHandles') /\ handle' \in [Handles -> McbIds \cup {NoMcb}]
    BY <1>1, <1>2, <1>10, FS_Subset
  <2>2. \A x \in Live' : mcb'[x].refs = Cardinality(On(x)')
    <3> TAKE x \in Live'
    <3>1. CASE x = m
      BY <1>4, <1>9, <1>10, <3>1
    <3>2. CASE x # m
      BY <1>2, <1>9, <1>10, <3>2
    <3>. QED BY <3>1, <3>2
  <2>3. \A g \in OpenHandles' : handle'[g] \in Live' /\ mcb'[handle'[g]].hasFcb
    <3> TAKE g \in OpenHandles'
    <3>1. g \in OpenHandles /\ g # h /\ handle'[g] = handle[g]
      BY <1>1, <1>2, <1>10
    <3>2. CASE handle[g] # m
      BY <1>2, <1>9, <3>1, <3>2
    <3>3. CASE handle[g] = m
      <4>1. g \in On(m) \ {h} /\ IsFiniteSet(On(m) \ {h})
        BY <1>4, <3>1, <3>3, FS_RemoveElement DEF On, OpenHandles
      <4>2. n - 1 # 0
        BY <1>4, <4>1, FS_EmptySet
      <4>3. b
        BY <1>4, <1>7, <4>2
      <4>. QED BY <1>3, <1>9, <3>1, <3>3, <4>3
    <3>. QED BY <3>2, <3>3
  <2>. QED BY <2>1, <2>2, <2>3 DEF HandlesCount
<1>12. AllocatedCount'
  BY <1>1, <1>3, <1>9 DEF CacheInv, AllocatedCount
<1>13. CacheInv'
  BY <1>9, <1>11, <1>12 DEF CacheInv
<1>. QED BY <1>1, <1>13 DEF IInv, LookInv

LEMMA OtherVolumeStep ==
  ASSUME IInv, OtherVolume
  PROVE  IInv'
<1>1. /\ others' \in 0 .. MaxOthers /\ McbAllocated' = McbAllocated - others + others'
      /\ mcb' = mcb /\ McbList' = McbList /\ handle' = handle /\ pc' = pc /\ request' = request
      /\ look' = look /\ hindered' = hindered
  BY DEF OtherVolume
<1>2. AllocatedCount'
  <2>1. McbAllocated = Cardinality(Live) + others /\ Cardinality(Live) \in Nat /\ others \in Nat
        /\ others' \in Nat
    BY <1>1, LiveIsFinite, CacheAssumption DEF IInv, CacheInv, AllocatedCount, Live
  <2>2. Live' = Live
    BY <1>1 DEF Live
  <2>. QED BY <1>1, <2>1, <2>2 DEF AllocatedCount
<1>3. CacheInv'
  BY <1>1, <1>2 DEF IInv, CacheInv, HandlesCount, OpenHandles, On, Live
<1>4. Asked' = Asked /\ \A j : Prefix(j)' = Prefix(j)
  BY <1>1, AskedStays
<1>5. LookInv'
  BY <1>1, <1>4 DEF IInv, LookInv, RequestIsFair, Forward, Backward, Origins, Live, Excused
<1>. QED BY <1>1, <1>3, <1>5 DEF IInv

-----------------------------------------------------------------------------
(* Theorems *)

(* The inductive invariant holds: the tree, the counts and the create under *)
(* way stand together in every state.                                      *)
THEOREM Invariance == Spec => []IInv
<1>1. Init => IInv
  BY InitInv
<1>2. IInv /\ [Next]_vars => IInv'
  <2> SUFFICES ASSUME IInv, [Next]_vars PROVE IInv'
    OBVIOUS
  <2>1. CASE \E r \in Requests : CreateFile(r)
    BY <2>1, CreateFileStep
  <2>2. CASE SearchHit
    BY <2>2, SearchHitStep
  <2>3. CASE EndOfPath
    BY <2>3, EndOfPathStep
  <2>4. CASE ScanFile
    BY <2>4, ScanFileStep
  <2>5. CASE ScanMiss
    BY <2>5, ScanMissStep
  <2>6. CASE ScanFound
    BY <2>6, ScanFoundStep
  <2>7. CASE NullMcb
    BY <2>7, NullMcbStep
  <2>8. CASE LoadFails
    BY <2>8, LoadFailsStep
  <2>9. CASE Refuse \/ NoParentFcb
    BY <2>9, RefuseStep
  <2>10. CASE Open
    BY <2>10, OpenStep
  <2>11. CASE OpenHindered
    BY <2>11, OpenHinderedStep
  <2>12. CASE Dissect
    BY <2>12, DissectStep
  <2>13. CASE DissectNext
    BY <2>13, DissectNextStep
  <2>14. CASE CreateRefused
    BY <2>14, CreateRefusedStep
  <2>15. CASE \E h \in Handles : Close(h)
    BY <2>15, CloseStep
  <2>16. CASE OtherVolume
    BY <2>16, OtherVolumeStep
  <2>17. CASE UNCHANGED vars
    <3>1. UNCHANGED <<cacheVars, handle, request, look, pc, hindered>>
      BY <2>17 DEF vars, cacheVars
    <3>2. CASE pc = "idle"
      BY <3>1, <3>2, CacheStays DEF IInv, LookInv
    <3>3. CASE pc # "idle"
      <4>1. CacheInv' /\ Live' = Live /\ Origins' = Origins /\ Asked' = Asked /\ \A j : Prefix(j)' = Prefix(j)
        BY <3>1, <3>3, QuietStep
      <4>2. /\ mcb' = mcb /\ handle' = handle /\ request' = request
            /\ look' = look /\ pc' = pc /\ hindered' = hindered
        BY <3>1 DEF cacheVars
      <4>. QED BY <4>1, <4>2 DEF IInv, LookInv, RequestIsFair, Forward, Backward, Excused
    <3>. QED BY <3>2, <3>3
  <2>. QED BY <2>1, <2>2, <2>3, <2>4, <2>5, <2>6, <2>7, <2>8, <2>9, <2>10, <2>11, <2>12, <2>13,
              <2>14, <2>15, <2>16, <2>17 DEF Next
<1>. QED BY <1>1, <1>2, PTL DEF Spec

(* Every variable keeps its type. *)
THEOREM TypeCorrect == Spec => []TypeOK
<1>1. IInv => TypeOK
  BY LiveFacts DEF IInv, CacheInv, IsTree, AllocatedCount, HandlesCount, LookInv, RequestIsFair, TypeOK, Live
<1>. QED BY <1>1, Invariance, PTL

(* The list and the tree hold the same MCBs, each once, whatever lookups,   *)
(* reaping and failures there were.                                        *)
THEOREM TreeIsList == Spec => []ListIsTree
<1>1. IInv => ListIsTree
  BY DEF IInv, CacheInv, IsTree, ListIsTree, Live
<1>. QED BY <1>1, Invariance, PTL

(* An MCB with an open file, or that a create has reached, is never freed, *)
(* nor is any MCB above it.                                                *)
THEOREM NothingHeldIsFreed == Spec => []HeldIsKept
<1>1. IInv => HeldIsKept
  <2> SUFFICES ASSUME IInv, NEW m \in Held PROVE Ancestors(m) \subseteq Live
    BY DEF HeldIsKept
  <2>1. m \in Live
    <3>1. \A h \in Handles : handle[h] # NoMcb => handle[h] \in Live
      BY DEF IInv, CacheInv, HandlesCount, OpenHandles
    <3>2. pc # "idle" => look.parent \in Live /\ look.found \in Live \cup {NoMcb}
      BY DEF IInv, LookInv, RequestIsFair
    <3>. QED BY <3>1, <3>2 DEF Held
  <2>2. Live \in SUBSET McbIds
    BY LiveFacts
  <2>3. HasItsParents(Live)
    BY DEF HasItsParents, IInv, CacheInv, IsTree, Live
  <2>. QED BY <2>1, <2>2, <2>3 DEF Ancestors
<1>. QED BY <1>1, Invariance, PTL

(* McbAllocated and the counts of the FCBs are what there is. *)
THEOREM CountsAreRight == Spec => []CountsAgree
<1>1. IInv => CountsAgree
  BY DEF IInv, CacheInv, AllocatedCount, HandlesCount, On, CountsAgree
<1>. QED BY <1>1, Invariance, PTL

(* The full name of an MCB: the name of its parent, found with one step     *)
(* less, and its own behind it.                                             *)
LEMMA NameIs ==
  ASSUME IInv
  PROVE  \E name :
           /\ \A k \in 0 .. Cardinality(McbIds) : name[k] \in [Live -> Seq(Names)]
           /\ \A k \in 0 .. Cardinality(McbIds), x \in Live :
                name[k][x] = IF mcb[x].inode = RootIno \/ mcb[x].parent \notin Live \/ k = 0 THEN <<>>
                             ELSE Append(name[k - 1][mcb[x].parent], mcb[x].name)
           /\ \A m \in Live : FullFileName(m) = name[Cardinality(McbIds)][m]
<1> DEFINE n == Cardinality(McbIds)
           U == [Live -> Seq(Names)]
           Top(x) == mcb[x].inode = RootIno \/ mcb[x].parent \notin Live
           up(f) == [x \in Live |-> IF Top(x) THEN <<>> ELSE Append(f[mcb[x].parent], mcb[x].name)]
           a == [x \in Live |-> <<>>]
           step == [k \in 1 .. n |-> [f \in U |-> up(f)]]
           T == [k \in 0 .. n |-> U]
           name == CHOOSE name : name = [k \in 0 .. n |-> [x \in Live |->
                     IF mcb[x].inode = RootIno \/ mcb[x].parent \notin Live \/ k = 0 THEN <<>>
                     ELSE Append(name[k - 1][mcb[x].parent], mcb[x].name)]]
<1>1. n \in Nat
  BY CacheAssumption, FS_CardinalityType
<1>2. a \in U
  OBVIOUS
<1>3. \A f \in U : up(f) \in U
  <2> TAKE f \in U
  <2>1. \A x \in Live : mcb[x].name \in Names
    BY LiveFacts DEF Node
  <2>. QED BY <2>1
<1> HIDE DEF n
<1>4. \A k \in 1 .. n : step[k] \in [T[k - 1] -> T[k]]
  <2> TAKE k \in 1 .. n
  <2>1. T[k] = U /\ T[k - 1] = U
    BY <1>1
  <2>2. step[k] = [f \in U |-> up(f)]
    OBVIOUS
  <2> HIDE DEF T, U, up, step
  <2>. QED BY <1>3, <2>1, <2>2
<1>5. PICK g : StepByStep(g, n, a, step) /\ \A k \in 0 .. n : g[k] \in T[k]
  <2>1. a \in T[0]
    BY <1>1, <1>2
  <2> HIDE DEF T, U, step, a
  <2>. QED BY <1>1, <1>4, <2>1, Recursion
<1>6. \A k \in 0 .. n : g[k] \in U
  BY <1>5
<1>7. g = [k \in 0 .. n |-> [x \in Live |->
             IF mcb[x].inode = RootIno \/ mcb[x].parent \notin Live \/ k = 0 THEN <<>>
             ELSE Append(g[k - 1][mcb[x].parent], mcb[x].name)]]
  <2>1. ASSUME NEW k \in 0 .. n
        PROVE  (IF k = 0 THEN a ELSE step[k][g[k - 1]]) =
                 [x \in Live |-> IF mcb[x].inode = RootIno \/ mcb[x].parent \notin Live \/ k = 0 THEN <<>>
                                 ELSE Append(g[k - 1][mcb[x].parent], mcb[x].name)]
    <3>1. CASE k = 0
      BY <3>1
    <3>2. CASE k # 0
      <4>1. k \in 1 .. n /\ k - 1 \in 0 .. n
        BY <1>1, <3>2
      <4>2. g[k - 1] \in U
        BY <1>6, <4>1
      <4>3. step[k][g[k - 1]] = up(g[k - 1])
        <5> HIDE DEF up, U
        <5>. QED BY <4>1, <4>2
      <4>. QED BY <3>2, <4>3
    <3>. QED BY <3>1, <3>2
  <2> HIDE DEF step, a, T
  <2>. QED BY <1>5, <2>1 DEF StepByStep
<1>8. name = [k \in 0 .. n |-> [x \in Live |->
                IF mcb[x].inode = RootIno \/ mcb[x].parent \notin Live \/ k = 0 THEN <<>>
                ELSE Append(name[k - 1][mcb[x].parent], mcb[x].name)]]
  BY <1>7
<1>9. \A m \in Live : FullFileName(m) = name[n][m]
  BY DEF FullFileName, n
<1> HIDE DEF name, step, T, a
<1>10. \A k \in 0 .. n, x \in Live :
         name[k][x] = IF mcb[x].inode = RootIno \/ mcb[x].parent \notin Live \/ k = 0 THEN <<>>
                      ELSE Append(name[k - 1][mcb[x].parent], mcb[x].name)
  <2> TAKE k \in 0 .. n
  <2>1. name[k] = [x \in Live |->
                     IF mcb[x].inode = RootIno \/ mcb[x].parent \notin Live \/ k = 0 THEN <<>>
                     ELSE Append(name[k - 1][mcb[x].parent], mcb[x].name)]
    BY <1>8
  <2>. QED BY <2>1
<1>11. \A k \in 0 .. n : name[k] \in U
  <2> DEFINE D == { k \in 0 .. n : name[k] \in U }
  <2>1. 0 \in D
    BY <1>1, <1>8
  <2>2. ASSUME NEW k \in 0 .. n, k \in D, k < n PROVE k + 1 \in D
    <3>1. k + 1 \in 0 .. n /\ k + 1 # 0 /\ (k + 1) - 1 = k
      BY <1>1, <2>2
    <3>2. name[k + 1] = up(name[k])
      <4>1. PICK j : j = k + 1
        OBVIOUS
      <4>2. j \in 0 .. n /\ j # 0 /\ j - 1 = k
        BY <3>1, <4>1
      <4>3. name[j] = [x \in Live |->
                         IF mcb[x].inode = RootIno \/ mcb[x].parent \notin Live \/ j = 0 THEN <<>>
                         ELSE Append(name[j - 1][mcb[x].parent], mcb[x].name)]
        BY <1>8, <4>2
      <4>. QED BY <4>1, <4>2, <4>3
    <3>3. name[k] \in U
      BY <2>2
    <3> HIDE DEF up, U
    <3>. QED BY <1>3, <3>1, <3>2, <3>3
  <2> HIDE DEF D
  <2>3. 0 .. n \subseteq D
    BY <1>1, <2>1, <2>2, Ascent
  <2>. QED BY <2>3 DEF D
<1>. QED BY <1>9, <1>10, <1>11 DEF n

(* The full name of an MCB leads on the disk to the inode it caches,        *)
(* whatever spelling its names have and however often a .. is among them.   *)
THEOREM FullNamesAreRight == Spec => []FullFileNameIsOnDisk
<1>1. IInv => FullFileNameIsOnDisk
  <2> SUFFICES ASSUME IInv
               PROVE  \A m \in Live : Resolve(RootIno, FullFileName(m)) = mcb[m].inode
    BY DEF FullFileNameIsOnDisk
  <2> DEFINE n == Cardinality(McbIds)
  <2>1. PICK name :
          /\ \A k \in 0 .. n : name[k] \in [Live -> Seq(Names)]
          /\ \A k \in 0 .. n, x \in Live :
               name[k][x] = IF mcb[x].inode = RootIno \/ mcb[x].parent \notin Live \/ k = 0 THEN <<>>
                            ELSE Append(name[k - 1][mcb[x].parent], mcb[x].name)
          /\ \A m \in Live : FullFileName(m) = name[n][m]
    BY NameIs
  <2>2. n \in Nat /\ IsFiniteSet(McbIds)
    BY CacheAssumption, FS_CardinalityType
  <2>3. /\ Live \subseteq McbIds /\ RootMcb \in Live /\ Rooted(mcb) /\ mcb[RootMcb].inode = RootIno
        /\ \A x \in Live : mcb[x].name \in Names
        /\ \A x \in Live \ {RootMcb} :
             /\ mcb[x].parent \in Live /\ IsDir(mcb[mcb[x].parent].inode)
             /\ mcb[x].inode = Find(mcb[mcb[x].parent].inode, mcb[x].name)
    BY LiveFacts DEF IInv, CacheInv, IsTree, IsOnDisk, Live, Node
  <2> HIDE DEF n
  <2> DEFINE Right(k, x) == \A j \in k .. n : Resolve(RootIno, name[j][x]) = mcb[x].inode
             Known(k, A) == /\ RootMcb \in A /\ (A = Live \/ Cardinality(A) >= k + 1)
                            /\ \A x \in A : Right(k, x)
             D == { k \in 0 .. n : \E A \in SUBSET Live : Known(k, A) }
  <2>4. Resolve(RootIno, <<>>) = RootIno
    <3>1. <<>> \in Seq(Names) /\ Len(<<>>) = 0
      OBVIOUS
    <3>. QED BY <3>1, AlongIs
  <2>5. \A j \in 0 .. n, x \in Live : mcb[x].inode = RootIno => Resolve(RootIno, name[j][x]) = mcb[x].inode
    BY <2>1, <2>4
  <2>6. 0 \in D
    <3>1. Right(0, RootMcb)
      BY <2>3, <2>5
    <3>2. Cardinality({RootMcb}) = 1
      BY FS_Singleton
    <3>3. Known(0, {RootMcb})
      BY <3>1, <3>2
    <3>. QED BY <2>2, <2>3, <3>3
  <2>7. ASSUME NEW k \in 0 .. n, k \in D, k < n PROVE k + 1 \in D
    <3>1. PICK A \in SUBSET Live : Known(k, A)
      BY <2>7
    <3>2. k + 1 \in 0 .. n /\ k + 1 .. n \subseteq k .. n /\ k + 1 .. n \subseteq 0 .. n
      BY <2>2, <2>7
    <3>3. CASE A = Live
      <4>1. Known(k + 1, Live)
        BY <3>1, <3>2, <3>3
      <4>. QED BY <3>2, <4>1
    <3>4. CASE A # Live
      <4>1. PICK x \in Live \ A : mcb[x].parent \in A
        <5>1. Live \ A \in SUBSET (DOMAIN mcb \ {RootMcb}) /\ Live \ A # {}
          BY <3>1, <3>4 DEF Live
        <5>2. PICK x \in Live \ A : mcb[x].parent \notin Live \ A
          BY <2>3, <5>1 DEF Rooted
        <5>. QED BY <2>3, <3>1, <5>2
      <4>2. ASSUME NEW j \in k + 1 .. n PROVE Resolve(RootIno, name[j][x]) = mcb[x].inode
        <5> DEFINE u == mcb[x].parent
        <5>1. j \in 0 .. n /\ j # 0 /\ j - 1 \in 0 .. n /\ j - 1 \in k .. n
          BY <2>2, <4>2
        <5>2. CASE mcb[x].inode = RootIno
          BY <2>5, <5>1, <5>2
        <5>3. CASE mcb[x].inode # RootIno
          <6>1. /\ x \in Live \ {RootMcb} /\ u \in Live /\ IsDir(mcb[u].inode)
                /\ mcb[x].inode = Find(mcb[u].inode, mcb[x].name) /\ mcb[x].name \in Names
            BY <2>3, <3>1, <4>1
          <6>2. name[j][x] = Append(name[j - 1][u], mcb[x].name)
            BY <2>1, <5>1, <5>3, <6>1
          <6>3. name[j - 1][u] \in Seq(Names)
            BY <2>1, <5>1, <6>1
          <6>4. Resolve(RootIno, name[j - 1][u]) = mcb[u].inode
            BY <3>1, <4>1, <5>1
          <6> HIDE DEF u
          <6>. QED BY <6>1, <6>2, <6>3, <6>4, ResolveAppend
        <5>. QED BY <5>2, <5>3
      <4>3. Cardinality(A \cup {x}) = Cardinality(A) + 1 /\ Cardinality(A) \in Nat
        <5>1. IsFiniteSet(A)
          BY <2>2, <2>3, FS_Subset
        <5>. QED BY <4>1, <5>1, FS_AddElement, FS_CardinalityType
      <4>4. \A y \in A \cup {x} : Right(k + 1, y)
        BY <3>1, <3>2, <4>2
      <4>5. Cardinality(A \cup {x}) >= (k + 1) + 1
        BY <3>1, <3>4, <4>3
      <4> HIDE DEF Right
      <4>6. Known(k + 1, A \cup {x}) /\ A \cup {x} \in SUBSET Live
        BY <3>1, <4>1, <4>4, <4>5
      <4>. QED BY <3>2, <4>6
    <3>. QED BY <3>3, <3>4
  <2>8. n \in D
    <3> HIDE DEF D
    <3>1. 0 .. n \subseteq D
      BY <2>2, <2>6, <2>7, Ascent
    <3>. QED BY <2>2, <3>1
  <2>9. PICK A \in SUBSET Live : Known(n, A)
    BY <2>8
  <2>10. A = Live
    <3>1. A \subseteq McbIds
      BY <2>3
    <3>2. Cardinality(A) <= n /\ Cardinality(A) \in Nat
      BY <2>2, <3>1, FS_Subset, FS_CardinalityType DEF n
    <3>. QED BY <2>2, <2>9, <3>2
  <2>. QED BY <2>1, <2>2, <2>9, <2>10
<1>. QED BY <1>1, Invariance, PTL

(* An allocation above the limit frees at least as much as it takes, unless *)
(* everything is in use, in itself or below.                                *)
THEOREM CacheIsBounded == Spec => ReapingMakesRoom
<1>1. IInv /\ [Next]_vars =>
        [(McbAllocated > Limit /\ others' = others /\ Live \ Pinned # {}) =>
           McbAllocated' <= McbAllocated]_vars
  <2> SUFFICES ASSUME IInv, Next, McbAllocated > Limit, others' = others, Live \ Pinned # {}
               PROVE  McbAllocated' <= McbAllocated
    OBVIOUS
  <2>1. McbAllocated \in Nat /\ McbAllocated >= 1
    BY LiveIsFinite, CacheAssumption DEF IInv, CacheInv, AllocatedCount, Live
  <2>2. CASE ScanFound
    <3>1. Freed \in Nat /\ Freed > 0
      BY <2>2, ReapedIs DEF ScanFound, Missed
    <3>2. McbAllocated' = McbAllocated - Freed + 1 \/ McbAllocated' = McbAllocated - Freed
      BY <2>2 DEF ScanFound
    <3>. QED BY <2>1, <3>1, <3>2
  <2>3. CASE NullMcb
    BY <2>1, <2>3 DEF NullMcb
  <2>4. CASE OtherVolume
    BY <2>4 DEF OtherVolume
  <2>5. CASE McbAllocated' = McbAllocated
    BY <2>1, <2>5
  <2>6. ASSUME NEW r \in Requests, CreateFile(r) PROVE McbAllocated' = McbAllocated
    BY <2>6 DEF CreateFile, cacheVars
  <2>7. ASSUME SearchHit \/ EndOfPath \/ ScanFile \/ ScanMiss PROVE McbAllocated' = McbAllocated
    BY <2>7 DEF SearchHit, EndOfPath, ScanFile, ScanMiss, cacheVars
  <2>8. ASSUME LoadFails \/ Refuse \/ Open \/ OpenHindered PROVE McbAllocated' = McbAllocated
    BY <2>8 DEF LoadFails, Refuse, Open, OpenHindered, cacheVars
  <2>9. ASSUME Dissect \/ DissectNext \/ CreateRefused \/ NoParentFcb PROVE McbAllocated' = McbAllocated
    BY <2>9 DEF Dissect, DissectNext, CreateRefused, NoParentFcb, cacheVars
  <2>10. ASSUME NEW h \in Handles, Close(h) PROVE McbAllocated' = McbAllocated
    BY <2>10 DEF Close
  <2>. QED BY <2>2, <2>3, <2>4, <2>5, <2>6, <2>7, <2>8, <2>9, <2>10 DEF Next
<1>. QED BY <1>1, Invariance, PTL DEF Spec, ReapingMakesRoom

-----------------------------------------------------------------------------
(* The refinement *)

(* What FFSPathLookup sees of the state *)
Question == IF pc = "idle" THEN NoRequest ELSE Asked
Opened == [h \in Handles |-> IF handle[h] = NoMcb THEN NoIno ELSE mcb[handle[h]].inode]

(* The actions of FFSPathLookup, in these terms *)
LEMMA LookupIs ==
  /\ Lookup!Init <=> Question = NoRequest /\ hindered = FALSE /\ Opened = [h \in Handles |-> NoIno]
  /\ \A q : Lookup!Ask(q) <=>
       /\ Question = NoRequest /\ Opened[q.to] = NoIno
       /\ q.start = RootIno \/ \E h \in Handles : q.start = Opened[h]
       /\ Question' = q /\ hindered' = hindered /\ Opened' = Opened
  /\ Lookup!Hinder <=>
       Question # NoRequest /\ hindered' = TRUE /\ Question' = Question /\ Opened' = Opened
  /\ Lookup!Answer <=>
       /\ Question # NoRequest
       /\ \E ino \in Lookup!Answers(Question) \cup (IF hindered THEN {NoIno} ELSE {}) :
            Opened' = [Opened EXCEPT ![Question.to] = ino]
       /\ Question' = NoRequest /\ hindered' = FALSE
  /\ \A h : Lookup!Close(h) <=>
       /\ Question = NoRequest /\ Opened[h] # NoIno
       /\ Opened' = [Opened EXCEPT ![h] = NoIno]
       /\ Question' = Question /\ hindered' = hindered
  /\ Lookup!Fault <=>
       /\ Question # NoRequest /\ Lookup!BelowAFile(Question) /\ ~Question.slash
       /\ Question' = NoRequest /\ hindered' = FALSE /\ Opened' = [h \in Handles |-> NoIno]
  /\ UNCHANGED Lookup!vars <=> Question' = Question /\ hindered' = hindered /\ Opened' = Opened
<1>1. Lookup!Init <=> Question = NoRequest /\ hindered = FALSE /\ Opened = [h \in Handles |-> NoIno]
  BY DEF Lookup!Init, Question, Asked, Opened, NoIno, Lookup!NoIno
<1>2. ASSUME NEW q
      PROVE  Lookup!Ask(q) <=>
               /\ Question = NoRequest /\ Opened[q.to] = NoIno
               /\ q.start = RootIno \/ \E h \in Handles : q.start = Opened[h]
               /\ Question' = q /\ hindered' = hindered /\ Opened' = Opened
  BY DEF Lookup!Ask, Question, Asked, Opened, NoIno, Lookup!NoIno
<1>3. Lookup!Hinder <=>
        Question # NoRequest /\ hindered' = TRUE /\ Question' = Question /\ Opened' = Opened
  BY DEF Lookup!Hinder, Question, Asked, Opened, NoIno, Lookup!NoIno
<1>4. Lookup!Answer <=>
        /\ Question # NoRequest
        /\ \E ino \in Lookup!Answers(Question) \cup (IF hindered THEN {NoIno} ELSE {}) :
             Opened' = [Opened EXCEPT ![Question.to] = ino]
        /\ Question' = NoRequest /\ hindered' = FALSE
  BY DEF Lookup!Answer, Question, Asked, Opened, NoIno, Lookup!NoIno
<1>5. ASSUME NEW h
      PROVE  Lookup!Close(h) <=>
               /\ Question = NoRequest /\ Opened[h] # NoIno
               /\ Opened' = [Opened EXCEPT ![h] = NoIno]
               /\ Question' = Question /\ hindered' = hindered
  BY DEF Lookup!Close, Question, Asked, Opened, NoIno, Lookup!NoIno
<1>6. Lookup!Fault <=>
        /\ Question # NoRequest /\ Lookup!BelowAFile(Question) /\ ~Question.slash
        /\ Question' = NoRequest /\ hindered' = FALSE /\ Opened' = [h \in Handles |-> NoIno]
  BY DEF Lookup!Fault, Question, Asked, Opened, NoIno, Lookup!NoIno
<1>7. UNCHANGED Lookup!vars <=> Question' = Question /\ hindered' = hindered /\ Opened' = Opened
  BY DEF Lookup!vars, Question, Asked, Opened, NoIno, Lookup!NoIno
<1>. QED BY <1>1, <1>2, <1>3, <1>4, <1>5, <1>6, <1>7

(* A step of FFSPathLookup, or none *)
LookupStep == Lookup!Next \/ UNCHANGED Lookup!vars

(* The create under way is a question of FFSPathLookup. *)
LEMMA AskedIs ==
  ASSUME IInv, pc # "idle"
  PROVE  /\ Question = Asked /\ Asked \in Lookup!Question /\ Asked # NoRequest
         /\ request.to \in Handles /\ Opened[request.to] = NoIno
<1>1. RequestIsFair /\ request \in Request
  BY DEF IInv, LookInv, RequestIsFair
<1>2. request.from \in Live /\ mcb[request.from].inode \in Inodes
  BY <1>1, LiveFacts DEF RequestIsFair
<1>3. Asked \in [to : Handles, start : Inodes, path : Paths, slash : BOOLEAN,
                 want : {"any", "directory", "file", "new"}]
  BY <1>1, <1>2 DEF RequestIsFair, Request, Asked
<1>4. Lookup!Question = [to : Handles, start : Inodes, path : Paths, slash : BOOLEAN,
                         want : {"any", "directory", "file", "new"}]
  BY DEF Lookup!Question, Lookup!Inodes, Inodes
<1>5. request.to \in Handles /\ handle[request.to] = NoMcb
  BY <1>1 DEF RequestIsFair, Request
<1>. QED BY <1>3, <1>4, <1>5, CacheAssumption DEF Question, Opened

(* What is open does not change with the handles and the inodes below them. *)
LEMMA OpenedStays ==
  ASSUME HandlesCount, handle' = handle,
         \A h \in OpenHandles : mcb'[handle[h]].inode = mcb[handle[h]].inode
  PROVE  Opened' = Opened
BY DEF Opened, OpenHandles

(* A step of the lookup that nothing hinders, or that something does *)
LEMMA GoesOn ==
  ASSUME IInv, pc # "idle", pc' # "idle", UNCHANGED <<handle, request>>,
         \A h \in OpenHandles : mcb'[handle[h]].inode = mcb[handle[h]].inode,
         mcb'[request.from].inode = mcb[request.from].inode,
         hindered' = hindered \/ hindered' = TRUE
  PROVE  LookupStep
<1>1. Opened' = Opened
  BY OpenedStays DEF IInv, CacheInv
<1>2. Question' = Question /\ Question # NoRequest
  BY AskedIs, AskedStays DEF Question
<1>. QED BY <1>1, <1>2, LookupIs DEF LookupStep, Lookup!Next

(* The create is completed, and nothing was opened. *)
LEMMA GivesUp ==
  ASSUME IInv, pc # "idle", Complete, Excused, Opened' = Opened
  PROVE  LookupStep
<1>1. Question = Asked /\ Asked # NoRequest /\ request.to \in Handles /\ Opened[request.to] = NoIno
  BY AskedIs
<1>2. Opened' = [Opened EXCEPT ![Asked.to] = NoIno]
  <2>1. Opened = [h \in Handles |-> Opened[h]]
    BY DEF Opened
  <2>. QED BY <1>1, <2>1 DEF Asked
<1>3. NoIno \in Lookup!Answers(Asked) \cup (IF hindered THEN {NoIno} ELSE {})
  BY DEF Excused
<1>4. Question' = NoRequest /\ hindered' = FALSE
  BY DEF Complete, Question
<1>. QED BY <1>1, <1>2, <1>3, <1>4, LookupIs DEF LookupStep, Lookup!Next

(* A create begins: Ask. *)
LEMMA AskMaps ==
  ASSUME IInv, NEW r \in Requests, CreateFile(r)
  PROVE  LookupStep
<1>1. /\ pc = "idle" /\ pc' # "idle" /\ handle[r.to] = NoMcb /\ r.from \in Origins /\ r.to \in Handles
      /\ request' = r /\ mcb' = mcb /\ handle' = handle /\ hindered' = hindered
  BY DEF CreateFile, cacheVars, Requests
<1>3. Question = NoRequest
  BY <1>1 DEF Question
<1>4. Opened' = Opened /\ Opened[r.to] = NoIno
  BY <1>1 DEF Opened
<1>5. PICK q : q = Asked'
  OBVIOUS
<1>6. Question' = q /\ q \in Lookup!Question
  <2>1. r.from \in Live /\ mcb[r.from].inode \in Inodes
    BY <1>1, LiveFacts
  <2>2. q = [to |-> r.to, start |-> mcb[r.from].inode, path |-> r.path, slash |-> r.slash,
             want |-> r.want]
    BY <1>1, <1>5 DEF Asked
  <2>3. q \in Lookup!Question
    BY <2>1, <2>2, CacheAssumption DEF Requests, Lookup!Question, Lookup!Inodes, Inodes
  <2>. QED BY <1>1, <1>5, <2>3 DEF Question
<1>7. q.to = r.to /\ q.start = mcb[r.from].inode
  BY <1>1, <1>5 DEF Asked
<1>8. q.start = RootIno \/ \E h \in Handles : q.start = Opened[h]
  <2>1. mcb[RootMcb].inode = RootIno
    BY DEF IInv, CacheInv, IsOnDisk
  <2>. QED BY <1>1, <1>7, <2>1 DEF Origins, Opened
<1>9. Lookup!Ask(q)
  BY <1>1, <1>3, <1>4, <1>6, <1>7, <1>8, LookupIs
<1>. QED BY <1>6, <1>9 DEF LookupStep, Lookup!Next

(* The lookup goes on with nothing done to the tree: no step, or Hinder. *)
LEMMA LookingMaps ==
  ASSUME IInv, SearchHit \/ EndOfPath \/ ScanFile \/ ScanMiss \/ LoadFails
  PROVE  LookupStep
<1>1. /\ pc \in {"search", "looked"} /\ pc' # "idle" /\ UNCHANGED <<handle, request>> /\ mcb' = mcb
      /\ hindered' = hindered \/ hindered' = TRUE
  BY DEF IInv, SearchHit, EndOfPath, ScanFile, ScanMiss, Missed, LoadFails, GiveUp, cacheVars
<1>. QED BY <1>1, GoesOn

(* An MCB is added and others are reaped: no step, or Hinder. *)
LEMMA ScanFoundMaps ==
  ASSUME IInv, ScanFound
  PROVE  LookupStep
<1> DEFINE tree == Reaped.tree
<1>1. /\ pc = "search" /\ UNCHANGED <<handle, request>> /\ hindered \in BOOLEAN
  BY DEF IInv, ScanFound, Missed
<1>2. /\ SameMcbs(tree, mcb) /\ request.from \in DOMAIN tree
      /\ \A h \in OpenHandles : handle[h] \in DOMAIN tree
      /\ \A x \in DOMAIN tree : tree[x] \in Node
  BY <1>1, AfterReaping DEF Sound, IsTree
<1>3. pc' # "idle" /\ (hindered' = hindered \/ hindered' = TRUE)
  BY <1>1 DEF ScanFound, GiveUp
<1>4. \A x \in DOMAIN tree : mcb'[x].inode = mcb[x].inode
  <2> TAKE x \in DOMAIN tree
  <2>1. tree[x].inode = mcb[x].inode /\ tree[x] \in Node
    BY <1>2 DEF SameMcbs
  <2>2. CASE mcb' = tree
    BY <2>1, <2>2
  <2>3. ASSUME NEW m \in McbIds \ DOMAIN tree, mcb' = Added(tree, look.parent, m, Component, OnDisk)
        PROVE  mcb'[x].inode = mcb[x].inode
    <3>1. mcb'[x] = IF x = look.parent THEN [tree[x] EXCEPT !.child = Append(@, m)] ELSE tree[x]
      <4> HIDE DEF tree
      <4>. QED BY <2>3 DEF Added
    <3> HIDE DEF tree
    <3>. QED BY <2>1, <3>1 DEF Node
  <2>. QED BY <2>2, <2>3 DEF ScanFound
<1> HIDE DEF tree
<1>. QED BY <1>1, <1>2, <1>3, <1>4, GoesOn

(* Nothing is open after the step, or on the inode it was before. *)
LEMMA SameFiles ==
  ASSUME IInv, UNCHANGED <<cacheVars, handle>>
  PROVE  Opened' = Opened
BY DEF Opened, cacheVars

(* The null pointer is followed below a file only: Fault. *)
LEMMA NullMcbMaps ==
  ASSUME IInv, NullMcb
  PROVE  LookupStep
<1>1. /\ pc = "looked" /\ look.success /\ look.found = NoMcb /\ Complete
      /\ handle' = [h \in Handles |-> NoMcb]
  BY DEF NullMcb
<1>2. Question = Asked /\ Asked # NoRequest
  BY <1>1, AskedIs
<1>3. RequestIsFair /\ Forward /\ Backward /\ look.parent # NoMcb /\ request.path \in Seq(Names)
  BY <1>1, LiveFacts DEF IInv, LookInv, RequestIsFair, Request
<1>4. ~look.dissecting
  BY <1>1, <1>3 DEF Backward
<1>5. /\ ~request.slash /\ Len(request.path) > 1
      /\ Prefix(Len(request.path) - 1) # NoIno /\ ~IsDir(Prefix(Len(request.path) - 1))
  BY <1>1, <1>3, <1>4 DEF Forward
<1>6. Lookup!BelowAFile(Asked) /\ ~Asked.slash
  <2> DEFINE path == request.path
  <2>1. Lookup!Resolve(Asked.start, Lookup!Front(path)) = Prefix(Len(path) - 1)
    <3>1. Lookup!Front(path) = SubSeq(path, 1, Len(path) - 1)
      BY DEF Lookup!Front
    <3>2. Asked.start = mcb[request.from].inode
      BY DEF Asked
    <3>. QED BY <3>1, <3>2, SameResolve DEF Prefix, Along
  <2>2. Asked.path = path /\ Asked.slash = request.slash
    BY DEF Asked
  <2>3. Len(path) > 1 /\ Prefix(Len(path) - 1) # NoIno /\ ~IsDir(Prefix(Len(path) - 1))
    BY <1>5
  <2> HIDE DEF path
  <2>. QED BY <1>5, <2>3, <2>1, <2>2 DEF Lookup!BelowAFile, Lookup!IsDir, IsDir, NoIno, Lookup!NoIno
<1>7. Opened' = [h \in Handles |-> NoIno]
  BY <1>1 DEF Opened
<1>8. Question' = NoRequest /\ hindered' = FALSE
  BY <1>1 DEF Complete, Question
<1>. QED BY <1>2, <1>6, <1>7, <1>8, LookupIs DEF LookupStep, Lookup!Next

(* What Refuse, Open and OpenHindered start from *)
LEMMA FoundIs ==
  ASSUME IInv, Found
  PROVE  LET ino == Prefix(Len(request.path)) IN
         /\ look.found \in Live /\ mcb[look.found].inode = ino
         /\ mcb[look.found].isDir = IsDir(ino)
         /\ request.path = <<>> => request.slash
<1>1. RequestIsFair /\ Forward /\ look.found # NoMcb /\ pc = "looked" /\ look.success /\ ~look.dissecting
  BY DEF Found, IInv, LookInv
<1>2. look.found \in Live /\ mcb[look.found].isDir = IsDir(mcb[look.found].inode)
  BY <1>1 DEF RequestIsFair, IInv, CacheInv, IsOnDisk, Live
<1>. QED BY <1>1, <1>2 DEF Forward

(* Refuse and Open give one of the answers. *)
LEMMA RefuseMaps ==
  ASSUME IInv, Refuse
  PROVE  LookupStep
<1>1. Found /\ Collides /\ Complete /\ UNCHANGED <<cacheVars, handle>> /\ pc # "idle"
  BY DEF Refuse, Found
<1>2. Excused
  BY <1>1, FoundIs, AnswersAre DEF Collides
<1>. QED BY <1>1, <1>2, SameFiles, GivesUp

LEMMA OpenMaps ==
  ASSUME IInv, Open
  PROVE  LookupStep
<1>0. PICK f, t : f = look.found /\ t = request.to
  OBVIOUS
<1>1. /\ Found /\ ~Collides /\ Complete /\ pc # "idle"
      /\ mcb' = [mcb EXCEPT ![f].hasFcb = TRUE, ![f].refs = @ + 1]
      /\ handle' = [handle EXCEPT ![t] = f]
  BY <1>0 DEF Open, Found
<1>2. /\ f \in Live /\ mcb[f].inode = Prefix(Len(request.path)) /\ mcb \in [Live -> Node]
      /\ NoMcb \notin Live
  BY <1>0, <1>1, FoundIs, LiveFacts
<1>3. mcb[f].inode \in Lookup!Answers(Asked)
  BY <1>0, <1>1, <1>2, FoundIs, AnswersAre DEF Collides
<1>4. Question = Asked /\ Asked # NoRequest /\ t \in Handles /\ Asked.to = t
  BY <1>0, <1>1, AskedIs DEF Asked
<1>5. /\ handle \in [Handles -> McbIds \cup {NoMcb}]
      /\ \A h \in Handles : handle[h] # NoMcb => handle[h] \in Live
  BY DEF IInv, CacheInv, HandlesCount, OpenHandles
<1>6. \A x \in Live : mcb'[x].inode = mcb[x].inode
  BY <1>1, <1>2 DEF Node
<1>7. Opened' = [Opened EXCEPT ![t] = mcb[f].inode]
  <2>1. /\ handle'[t] = f /\ f # NoMcb /\ \A h \in Handles \ {t} : handle'[h] = handle[h]
    BY <1>1, <1>2, <1>4, <1>5
  <2>2. Opened'[t] = mcb[f].inode
    BY <1>2, <1>4, <1>6, <2>1 DEF Opened
  <2>3. ASSUME NEW h \in Handles \ {t} PROVE Opened'[h] = Opened[h]
    BY <1>5, <1>6, <2>1 DEF Opened
  <2>4. Opened = [h \in Handles |-> Opened[h]] /\ Opened' = [h \in Handles |-> Opened'[h]]
    BY DEF Opened
  <2>. QED BY <1>4, <2>2, <2>3, <2>4
<1>8. Question' = NoRequest /\ hindered' = FALSE
  BY <1>1 DEF Complete, Question
<1>. QED BY <1>3, <1>4, <1>7, <1>8, LookupIs DEF LookupStep, Lookup!Next

(* What hinders the open excuses the answer. *)
LEMMA OpenHinderedMaps ==
  ASSUME IInv, OpenHindered
  PROVE  LookupStep
<1>1. pc = "looked"
  BY DEF OpenHindered, Found
<1>2. CASE hindered
  <2>1. Complete /\ UNCHANGED <<cacheVars, handle>> /\ Excused
    BY <1>2 DEF OpenHindered, Excused
  <2>. QED BY <1>1, <2>1, SameFiles, GivesUp
<1>3. CASE ~hindered
  <2>1. hindered' = TRUE /\ UNCHANGED <<handle, pc, request>> /\ mcb' = mcb
    BY <1>3 DEF OpenHindered, cacheVars
  <2>. QED BY <1>1, <2>1, GoesOn
<1>. QED BY <1>2, <1>3

(* The second round opens nothing, and its end is an answer. *)
LEMMA DissectMaps ==
  ASSUME IInv, Dissect \/ DissectNext
  PROVE  LookupStep
<1>1. pc = "looked" /\ UNCHANGED <<cacheVars, handle>> /\ mcb' = mcb
  BY DEF Dissect, DissectNext, NotFound, cacheVars
<1>2. Excused
  BY <1>1 DEF Dissect, DissectNext, NotFound, IInv, LookInv, Forward, Backward
<1>3. CASE Complete
  BY <1>1, <1>2, <1>3, SameFiles, GivesUp
<1>4. CASE ~Complete
  <2>1. pc' # "idle" /\ UNCHANGED <<handle, request, hindered>>
    BY <1>4 DEF Dissect, DissectNext
  <2>. QED BY <1>1, <2>1, GoesOn
<1>. QED BY <1>3, <1>4

(* Neither does the refusal to create. *)
LEMMA CreateMaps ==
  ASSUME IInv, CreateRefused \/ NoParentFcb
  PROVE  LookupStep
<1>1. pc = "parent" /\ Complete /\ handle' = handle
  BY DEF CreateRefused, NoParentFcb
<1>2. Excused /\ look.parent \in Live
  BY <1>1 DEF IInv, LookInv, RequestIsFair, Forward, Backward
<1>3. Opened' = Opened
  <2>1. mcb \in [Live -> Node] /\ HandlesCount
    BY LiveFacts DEF IInv, CacheInv
  <2>2. \A x \in Live : mcb'[x].inode = mcb[x].inode
    <3>1. mcb' = mcb \/ mcb' = ParentFcb
      BY DEF CreateRefused, NoParentFcb, cacheVars
    <3>2. CASE mcb' = mcb
      BY <3>2
    <3>3. CASE mcb' = ParentFcb
      BY <1>2, <2>1, <3>3 DEF ParentFcb, Node
    <3>. QED BY <3>1, <3>2, <3>3
  <2>3. \A h \in OpenHandles : mcb'[handle[h]].inode = mcb[handle[h]].inode
    BY <2>1, <2>2 DEF HandlesCount
  <2>. QED BY <1>1, <2>1, <2>3, OpenedStays
<1>. QED BY <1>1, <1>2, <1>3, GivesUp

(* Close is Close. *)
LEMMA CloseMaps ==
  ASSUME IInv, NEW h \in Handles, Close(h)
  PROVE  LookupStep
<1>0. PICK m, n : m = handle[h] /\ n = (mcb[m].refs > 1)
  OBVIOUS
<1>1. /\ pc = "idle" /\ pc' = "idle" /\ m # NoMcb /\ hindered' = hindered
      /\ mcb' = [mcb EXCEPT ![m].refs = @ - 1, ![m].hasFcb = n]
      /\ handle' = [handle EXCEPT ![h] = NoMcb]
  BY <1>0 DEF Close
<1>2. /\ handle \in [Handles -> McbIds \cup {NoMcb}]
      /\ \A g \in Handles : handle[g] # NoMcb => handle[g] \in Live
  BY DEF IInv, CacheInv, HandlesCount, OpenHandles
<1>3. m \in Live /\ mcb \in [Live -> Node] /\ mcb[m].inode # NoIno
  BY <1>0, <1>1, <1>2, LiveFacts
<1>4. \A x \in Live : mcb'[x].inode = mcb[x].inode
  BY <1>1, <1>3 DEF Node
<1>5. Opened' = [Opened EXCEPT ![h] = NoIno]
  <2>1. handle'[h] = NoMcb /\ \A g \in Handles \ {h} : handle'[g] = handle[g]
    BY <1>1, <1>2
  <2>. QED BY <1>2, <1>4, <2>1 DEF Opened
<1>6. Opened[h] # NoIno
  BY <1>0, <1>1, <1>3 DEF Opened
<1>7. Question = NoRequest /\ Question' = NoRequest
  BY <1>1 DEF Question
<1>. QED BY <1>1, <1>5, <1>6, <1>7, LookupIs DEF LookupStep, Lookup!Next

(* What FFSPathLookup does not see *)
LEMMA NothingMaps ==
  ASSUME UNCHANGED <<mcb, handle, pc, request, hindered>>
  PROVE  LookupStep
<1>1. Question' = Question /\ Opened' = Opened
  BY DEF Question, Asked, Opened
<1>. QED BY <1>1, LookupIs DEF LookupStep

(* The cache cannot be seen: every behaviour of the cache and its lookups is *)
(* one of FFSPathLookup, in which there is no cache, and a create opens the  *)
(* file that the directories on the disk lead to.                            *)
THEOREM CacheIsInvisible == Spec => OpensWhatIsOnDisk
<1>1. Init => Lookup!Init
  <2> SUFFICES ASSUME Init PROVE Lookup!Init
    OBVIOUS
  <2>1. Question = NoRequest /\ Opened = [h \in Handles |-> NoIno] /\ hindered = FALSE
    BY DEF Init, Question, Opened
  <2>. QED BY <2>1, LookupIs
<1>2. IInv /\ [Next]_vars => [Lookup!Next]_(Lookup!vars)
  <2> SUFFICES ASSUME IInv, [Next]_vars PROVE LookupStep
    BY DEF LookupStep
  <2>1. CASE \E r \in Requests : CreateFile(r)
    BY <2>1, AskMaps
  <2>2. CASE SearchHit \/ EndOfPath \/ ScanFile \/ ScanMiss \/ LoadFails
    BY <2>2, LookingMaps
  <2>3. CASE ScanFound
    BY <2>3, ScanFoundMaps
  <2>4. CASE NullMcb
    BY <2>4, NullMcbMaps
  <2>5. CASE Refuse
    BY <2>5, RefuseMaps
  <2>6. CASE Open
    BY <2>6, OpenMaps
  <2>7. CASE OpenHindered
    BY <2>7, OpenHinderedMaps
  <2>8. CASE Dissect \/ DissectNext
    BY <2>8, DissectMaps
  <2>9. CASE CreateRefused \/ NoParentFcb
    BY <2>9, CreateMaps
  <2>10. CASE \E h \in Handles : Close(h)
    BY <2>10, CloseMaps
  <2>11. CASE OtherVolume
    BY <2>11, NothingMaps DEF OtherVolume
  <2>12. CASE UNCHANGED vars
    BY <2>12, NothingMaps DEF vars, cacheVars
  <2>. QED BY <2>1, <2>2, <2>3, <2>4, <2>5, <2>6, <2>7, <2>8, <2>9, <2>10, <2>11, <2>12 DEF Next
<1>. QED BY <1>1, <1>2, Invariance, PTL DEF Spec, OpensWhatIsOnDisk, Lookup!Spec
=============================================================================
