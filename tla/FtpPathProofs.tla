--------------------------- MODULE FtpPathProofs ---------------------------
(* For any names, any root and any arguments: client->cwd and what resolve()   *)
(* returns are normalised paths, and both loops compute the place a walk leads *)
(* to, resolve() for names that do not climb and have no backslash.            *)
EXTENDS FtpPath, Integers, FiniteSetTheorems, FunctionTheorems, SequenceTheorems,
        WellFoundedInduction, TLAPS

(* Where either loop starts from.                                              *)
LEMMA BelowIsPath ==
  ASSUME TypeOK, NEW arg \in Args
  PROVE  /\ arg.absolute \in BOOLEAN /\ arg.segments \in Seq(Segments)
         /\ Below(arg) \in Seq(Segments) /\ Base \o Below(arg) \in Seq(Segments)
         /\ walked \o arg.segments \in Seq(Segments)
<1>1. arg.absolute \in BOOLEAN
  BY ArgAssumption
<1>2. arg.segments \in Seq(Segments)
  BY ArgAssumption
<1>3. cwd \in Seq(Segments) /\ Base \in Seq(Segments)
  BY BaseAssumption DEF TypeOK, Segments
<1>4. Below(arg) \in Seq(Segments)
  BY <1>2, <1>3 DEF Below
<1>5. Base \o Below(arg) \in Seq(Segments)
  BY <1>3, <1>4
<1>6. walked \o arg.segments \in Seq(Segments)
  BY <1>2 DEF TypeOK
<1> QED BY <1>1, <1>2, <1>4, <1>5, <1>6

(* One turn of a loop leaves names only.                                       *)
LEMMA TurnIsTyped ==
  ASSUME TypeOK, NextSegment
  PROVE  /\ todo' \in Seq(Segments) /\ parts' \in Seq(Names)
         /\ at' \in {"cwd", "resolve", "done"} /\ result' \in {result, Refused}
         /\ at' = "done" => result' = Refused
<1> USE DEF TypeOK
<1>1. todo \in Seq(Segments) /\ todo # <<>> /\ parts \in Seq(Names)
  BY DEF NextSegment
<1>2. Head(todo) \in Segments /\ todo' \in Seq(Segments)
  BY <1>1 DEF NextSegment
<1>3. parts # <<>> => AllButLast(parts) \in Seq(Names)
  BY <1>1 DEF AllButLast
<1>4. Head(todo) # Up /\ ~Ignored(Head(todo)) => Append(parts, Head(todo)) \in Seq(Names)
  <2>1. Head(todo) # Up /\ ~Ignored(Head(todo)) => Head(todo) \in Names
    BY <1>2 DEF Ignored, Segments
  <2> QED BY <1>1, <2>1
<1>5. parts' \in Seq(Names)
  BY <1>1, <1>3, <1>4 DEF NextSegment
<1>6. /\ at' \in {"cwd", "resolve", "done"} /\ result' \in {result, Refused}
      /\ at' = "done" => result' = Refused
  BY DEF NextSegment
<1> QED BY <1>2, <1>5, <1>6

(* Every step keeps the types.                                                 *)
LEMMA NextTypeOK == TypeOK /\ [Next]_vars => TypeOK'
<1> SUFFICES ASSUME TypeOK, [Next]_vars PROVE TypeOK'
  OBVIOUS
<1> USE DEF TypeOK
<1>1. ASSUME NEW arg \in Args, BeginCwd(arg) PROVE TypeOK'
  <2>1. cwds' \in 0..MaxCwds
    BY <1>1, BoundAssumption DEF BeginCwd
  <2>2. walked' \in Seq(Segments) /\ parts' \in Seq(Names)
    BY <1>1, BelowIsPath DEF BeginCwd
  <2>3. at' \in {"idle", "cwd"} /\ todo' \in Seq(Segments) /\ cwd' \in Seq(Names)
    BY <1>1, BelowIsPath DEF BeginCwd
  <2>4. UNCHANGED <<result, target>>
    BY <1>1 DEF BeginCwd
  <2> QED BY <2>1, <2>2, <2>3, <2>4
<1>2. ASSUME NEW arg \in Args, BeginResolve(arg) PROVE TypeOK'
  <2>1. todo' \in Seq(Segments) /\ parts' \in Seq(Names)
    BY <1>2, BelowIsPath DEF BeginResolve
  <2> QED BY <1>2, <2>1 DEF BeginResolve
<1>3. CASE NextSegment
  <2>1. UNCHANGED <<cwd, walked, target, cwds>>
    BY <1>3 DEF NextSegment
  <2> QED BY <1>3, <2>1, TurnIsTyped
<1>4. CASE EndCwd
  BY <1>4 DEF EndCwd
<1>5. CASE EndResolve
  <2>1. result' \in Seq(Names) \union {Refused}
    BY <1>5, BaseAssumption DEF EndResolve
  <2> QED BY <1>5, <2>1 DEF EndResolve
<1>6. CASE UNCHANGED vars
  BY <1>6 DEF vars
<1>7. CASE CutName
  <2>1. Slashed[Head(todo)] \in Seq(Segments) /\ Tail(todo) \in Seq(Segments)
    BY <1>7, SlashAssumption DEF CutName, Whole
  <2> QED BY <1>7, <2>1 DEF CutName
<1> QED BY <1>1, <1>2, <1>3, <1>4, <1>5, <1>6, <1>7 DEF Next

(* The initial state is well typed.                                            *)
LEMMA InitTypeOK == Init => TypeOK
<1> SUFFICES ASSUME Init PROVE TypeOK
  OBVIOUS
<1>1. cwds \in 0..MaxCwds
  BY BoundAssumption DEF Init
<1>2. /\ cwd \in Seq(Names) /\ parts \in Seq(Names) /\ result \in Seq(Names)
      /\ todo \in Seq(Segments) /\ walked \in Seq(Segments)
  BY DEF Init
<1> QED BY <1>1, <1>2 DEF Init, TypeOK

(* client->cwd and what resolve() returns are sequences of names: no "..", "." *)
(* or empty segment is left in them.                                           *)
THEOREM TypeInvariance == Spec => []TypeOK
BY InitTypeOK, NextTypeOK, PTL DEF Spec

-----------------------------------------------------------------------------
(* A set of numbers has a smallest one.                                        *)
LEMMA SmallestNumber ==
  ASSUME NEW S \in SUBSET Nat, S # {}
  PROVE  \E m \in S : \A k \in S : m <= k
<1>1. PICK m \in S : \A k \in S : ~(<<k, m>> \in OpToRel(<, Nat))
  BY NatLessThanWellFounded, WFMin, Zenon
<1>2. ASSUME NEW k \in S, k < m PROVE FALSE
  <2>1. <<k, m>> \in Nat \X Nat /\ <<k, m>>[1] < <<k, m>>[2]
    BY <1>2
  <2>2. <<k, m>> \in OpToRel(<, Nat)
    BY <2>1, Zenon DEF OpToRel
  <2> QED BY <1>1, <2>2, Zenon
<1> QED BY <1>2

(* A bounded set of numbers has a largest one.                                 *)
LEMMA LargestNumber ==
  ASSUME NEW n \in Nat, NEW S \in SUBSET (0..n), S # {}
  PROVE  \E m \in S : \A k \in S : k <= m
<1> DEFINE R == {n - k : k \in S}
<1>1. R \in SUBSET Nat /\ R # {}
  <2>1. \A k \in S : k \in Int /\ n - k \in Nat
    OBVIOUS
  <2> QED BY <2>1
<1>2. PICK r \in R : \A k \in R : r <= k
  <2> HIDE DEF R
  <2> QED BY <1>1, SmallestNumber
<1>3. PICK m \in S : r = n - m
  OBVIOUS
<1>4. ASSUME NEW k \in S PROVE k <= m
  <2>1. n - k \in R
    OBVIOUS
  <2>2. n - m <= n - k
    BY <1>2, <1>3, <2>1
  <2> QED BY <2>2
<1> QED BY <1>4

-----------------------------------------------------------------------------
(* Counting in a part of a path.                                               *)

(* A count is a number, of a finite set.                                       *)
LEMMA CountType ==
  ASSUME NEW s, NEW a \in Nat, NEW b \in Nat, NEW S
  PROVE  /\ IsFiniteSet({k \in a..b : s[k] \in S})
         /\ Count(s, a, b, S) \in Nat
<1>1. IsFiniteSet(a..b)
  BY FS_Interval
<1>2. IsFiniteSet({k \in a..b : s[k] \in S})
  BY <1>1, FS_Subset
<1> QED BY <1>2, FS_CardinalityType DEF Count

(* In no part there is nothing to count.                                       *)
LEMMA CountNone ==
  ASSUME NEW s, NEW a \in Nat, NEW b \in Nat, b < a, NEW S
  PROVE  Count(s, a, b, S) = 0
<1>1. {k \in a..b : s[k] \in S} = {}
  OBVIOUS
<1> QED BY <1>1, FS_EmptySet DEF Count

(* One segment counts once or not.                                             *)
LEMMA CountOne ==
  ASSUME NEW s, NEW a \in Nat, NEW S
  PROVE  Count(s, a, a, S) = IF s[a] \in S THEN 1 ELSE 0
<1>1. {k \in a..a : s[k] \in S} = IF s[a] \in S THEN {a} ELSE {}
  OBVIOUS
<1> QED BY <1>1, FS_EmptySet, FS_Singleton DEF Count

(* The counts of two parts add up.                                             *)
LEMMA CountSplits ==
  ASSUME NEW s, NEW a \in Nat, NEW m \in Nat, NEW b \in Nat, a <= m + 1, m <= b, NEW S
  PROVE  Count(s, a, b, S) = Count(s, a, m, S) + Count(s, m + 1, b, S)
<1> DEFINE X == {k \in a..m : s[k] \in S}
           Y == {k \in (m + 1)..b : s[k] \in S}
<1>1. IsFiniteSet(X) /\ IsFiniteSet(Y) /\ Cardinality(X) \in Nat /\ Cardinality(Y) \in Nat
  <2>1. m + 1 \in Nat
    OBVIOUS
  <2>2. IsFiniteSet(X)
    BY CountType
  <2>3. IsFiniteSet(Y)
    BY <2>1, CountType
  <2> HIDE DEF X, Y
  <2> QED BY <2>2, <2>3, FS_CardinalityType
<1>2. {k \in a..b : s[k] \in S} = X \cup Y
  OBVIOUS
<1>3. X \cap Y = {}
  OBVIOUS
<1>4. Cardinality(X \cup Y) = Cardinality(X) + Cardinality(Y)
  <2> HIDE DEF X, Y
  <2>1. Cardinality(X \cap Y) = 0
    BY <1>3, FS_EmptySet
  <2>2. Cardinality(X \cup Y) = Cardinality(X) + Cardinality(Y) - Cardinality(X \cap Y)
    BY <1>1, FS_Union
  <2> QED BY <1>1, <2>1, <2>2
<1> QED BY <1>2, <1>4 DEF Count

(* A count depends only on the part that is counted.                           *)
LEMMA CountIsOf ==
  ASSUME NEW s, NEW t, NEW a \in Nat, NEW b \in Nat, NEW S, \A k \in a..b : s[k] = t[k]
  PROVE  Count(s, a, b, S) = Count(t, a, b, S)
<1>1. {k \in a..b : s[k] \in S} = {k \in a..b : t[k] \in S}
  OBVIOUS
<1> QED BY <1>1 DEF Count

-----------------------------------------------------------------------------
(* What a segment more does to the names that stay.                            *)

(* A count in a longer path.                                                   *)
LEMMA CountAppend ==
  ASSUME NEW s \in Seq(Segments), NEW x \in Segments, NEW a \in Nat \ {0}, NEW S
  PROVE  /\ \A b \in 0..Len(s) : Count(Append(s, x), a, b, S) = Count(s, a, b, S)
         /\ a <= Len(s) + 1 =>
              Count(Append(s, x), a, Len(s) + 1, S)
                = Count(s, a, Len(s), S) + (IF x \in S THEN 1 ELSE 0)
<1> DEFINE t == Append(s, x)
           n == Len(s)
<1>1. n \in Nat /\ t[n + 1] = x /\ \A k \in 1..n : t[k] = s[k]
  OBVIOUS
<1> HIDE DEF t, n
<1>2. ASSUME NEW b \in 0..n PROVE Count(t, a, b, S) = Count(s, a, b, S)
  <2>1. b \in Nat /\ \A k \in a..b : t[k] = s[k]
    BY <1>1
  <2> QED BY <2>1, CountIsOf
<1>3. ASSUME a <= n + 1
      PROVE  Count(t, a, n + 1, S) = Count(s, a, n, S) + (IF x \in S THEN 1 ELSE 0)
  <2>1. n + 1 \in Nat /\ n <= n + 1
    BY <1>1
  <2>2. Count(t, a, n + 1, S) = Count(t, a, n, S) + Count(t, n + 1, n + 1, S)
    BY <1>1, <1>3, <2>1, CountSplits
  <2>3. Count(t, n + 1, n + 1, S) = IF x \in S THEN 1 ELSE 0
    BY <1>1, <2>1, CountOne
  <2>4. Count(t, a, n, S) = Count(s, a, n, S)
    BY <1>1, <1>2
  <2> QED BY <2>2, <2>3, <2>4
<1> QED BY <1>2, <1>3 DEF t, n

(* The balance of names over ".." behind a position.                           *)
Ahead(s, k) == Count(s, k + 1, Len(s), Names) - Count(s, k + 1, Len(s), {Up})

(* The balance is a number, nothing at the end, and not negative behind a name *)
(* that stays.                                                                 *)
LEMMA AheadType ==
  ASSUME NEW s \in Seq(Segments), NEW k \in 0..Len(s)
  PROVE  /\ Ahead(s, k) \in Int
         /\ Ahead(s, Len(s)) = 0
         /\ Survives(s, k) => Ahead(s, k) >= 0
<1>1. Len(s) \in Nat /\ k + 1 \in Nat /\ Len(s) + 1 \in Nat
  OBVIOUS
<1>2. /\ Count(s, k + 1, Len(s), Names) \in Nat /\ Count(s, k + 1, Len(s), {Up}) \in Nat
      /\ Count(s, Len(s) + 1, Len(s), Names) = 0 /\ Count(s, Len(s) + 1, Len(s), {Up}) = 0
  <2>1. \A S : Count(s, k + 1, Len(s), S) \in Nat
    BY <1>1, CountType
  <2>2. \A S : Count(s, Len(s) + 1, Len(s), S) = 0
    <3>1. Len(s) < Len(s) + 1
      BY <1>1
    <3> QED BY <1>1, <3>1, CountNone
  <2> QED BY <2>1, <2>2
<1>3. Ahead(s, Len(s)) = 0
  BY <1>2 DEF Ahead
<1>4. ASSUME Survives(s, k), k < Len(s) PROVE Ahead(s, k) >= 0
  <2>1. Len(s) \in (k + 1)..Len(s)
    BY <1>1, <1>4
  <2>2. Count(s, k + 1, Len(s), Names) >= Count(s, k + 1, Len(s), {Up})
    BY <1>4, <2>1, Zenon DEF Survives
  <2> QED BY <1>2, <2>2 DEF Ahead
<1> QED BY <1>2, <1>3, <1>4 DEF Ahead

(* The part between two positions.                                             *)
LEMMA AheadSplits ==
  ASSUME NEW s \in Seq(Segments), NEW k \in 0..Len(s), NEW m \in k..Len(s)
  PROVE  Ahead(s, k) = Count(s, k + 1, m, Names) - Count(s, k + 1, m, {Up}) + Ahead(s, m)
<1>1. k + 1 \in Nat /\ m \in Nat /\ Len(s) \in Nat /\ m + 1 \in Nat /\ k + 1 <= m + 1
  OBVIOUS
<1>2. \A S : Count(s, k + 1, Len(s), S) = Count(s, k + 1, m, S) + Count(s, m + 1, Len(s), S)
  BY <1>1, CountSplits
<1>3. \A S : /\ Count(s, k + 1, m, S) \in Nat /\ Count(s, m + 1, Len(s), S) \in Nat
  BY <1>1, CountType
<1>4. /\ Count(s, k + 1, Len(s), Names)
           = Count(s, k + 1, m, Names) + Count(s, m + 1, Len(s), Names)
      /\ Count(s, k + 1, Len(s), {Up})
           = Count(s, k + 1, m, {Up}) + Count(s, m + 1, Len(s), {Up})
  BY <1>2
<1>5. /\ Count(s, k + 1, m, Names) \in Nat /\ Count(s, m + 1, Len(s), Names) \in Nat
      /\ Count(s, k + 1, m, {Up}) \in Nat /\ Count(s, m + 1, Len(s), {Up}) \in Nat
  BY <1>3
<1> QED BY <1>4, <1>5 DEF Ahead

(* One segment.                                                                *)
LEMMA AheadStep ==
  ASSUME NEW s \in Seq(Segments), NEW k \in 1..Len(s)
  PROVE  Ahead(s, k - 1) = Ahead(s, k) + (IF s[k] \in Names THEN 1 ELSE
                                          IF s[k] = Up THEN -1 ELSE 0)
<1>1. k - 1 \in 0..Len(s) /\ k \in (k - 1)..Len(s) /\ k \in Nat /\ (k - 1) + 1 = k
  OBVIOUS
<1>2. Ahead(s, k - 1) = Count(s, k, k, Names) - Count(s, k, k, {Up}) + Ahead(s, k)
  BY <1>1, AheadSplits
<1>3. Count(s, k, k, Names) = (IF s[k] \in Names THEN 1 ELSE 0)
  BY <1>1, CountOne
<1>4. Count(s, k, k, {Up}) = (IF s[k] = Up THEN 1 ELSE 0)
  <2>1. Count(s, k, k, {Up}) = IF s[k] \in {Up} THEN 1 ELSE 0
    BY <1>1, CountOne
  <2> QED BY <2>1
<1>5. ~(s[k] \in Names /\ s[k] = Up) /\ Ahead(s, k) \in Int
  BY NameAssumption, AheadType
<1> QED BY <1>2, <1>3, <1>4, <1>5

(* A position before the new segment survives if it did and, when the new      *)
(* segment is "..", there was more than nothing ahead of it.                   *)
LEMMA SurvivesAppend ==
  ASSUME NEW s \in Seq(Segments), NEW x \in Segments
  PROVE  /\ \A k \in 1..Len(s) :
              Survives(Append(s, x), k) <=> Survives(s, k) /\ (x = Up => Ahead(s, k) > 0)
         /\ Survives(Append(s, x), Len(s) + 1) <=> x \in Names
<1> DEFINE t == Append(s, x)
           n == Len(s)
<1>1. n \in Nat /\ t[n + 1] = x /\ Len(t) = n + 1 /\ \A k \in 1..n : t[k] = s[k]
  OBVIOUS
<1>2. Survives(t, n + 1) <=> x \in Names
  <2>1. ((n + 1) + 1)..Len(t) = {}
    BY <1>1
  <2> HIDE DEF t, n
  <2> QED BY <1>1, <2>1 DEF Survives
<1>3. ASSUME NEW k \in 1..n
      PROVE  Survives(t, k) <=> Survives(s, k) /\ (x = Up => Ahead(s, k) > 0)
  <2>1. k + 1 \in Nat \ {0} /\ k + 1 <= n + 1
    BY <1>1
  <2>2. ASSUME NEW j \in (k + 1)..n, NEW S PROVE Count(t, k + 1, j, S) = Count(s, k + 1, j, S)
    <3>1. j \in 0..n
      BY <2>1
    <3> QED BY <2>1, <3>1, CountAppend
  <2>3. /\ Count(t, k + 1, n + 1, Names)
             = Count(s, k + 1, n, Names) + (IF x \in Names THEN 1 ELSE 0)
        /\ Count(t, k + 1, n + 1, {Up})
             = Count(s, k + 1, n, {Up}) + (IF x \in {Up} THEN 1 ELSE 0)
    BY <2>1, CountAppend
  <2>4. Count(s, k + 1, n, Names) \in Nat /\ Count(s, k + 1, n, {Up}) \in Nat
    BY <1>1, <2>1, CountType
  <2>5. (k + 1)..Len(t) = (k + 1)..n \cup {n + 1}
    BY <1>1
  <2>6. Ahead(s, k) = Count(s, k + 1, n, Names) - Count(s, k + 1, n, {Up})
    BY DEF Ahead
  <2>7. Survives(s, k) => Ahead(s, k) >= 0
    BY AheadType
  <2>8. t[k] = s[k] /\ x \notin Names \cap {Up}
    BY <1>1, NameAssumption
  <2> HIDE DEF t, n
  <2>9. Survives(t, k) <=>
          /\ s[k] \in Names
          /\ \A j \in (k + 1)..n : Count(s, k + 1, j, Names) >= Count(s, k + 1, j, {Up})
          /\ Count(t, k + 1, n + 1, Names) >= Count(t, k + 1, n + 1, {Up})
    BY <2>2, <2>5, <2>8 DEF Survives
  <2>10. Survives(s, k) <=>
          /\ s[k] \in Names
          /\ \A j \in (k + 1)..n : Count(s, k + 1, j, Names) >= Count(s, k + 1, j, {Up})
    BY DEF Survives, n
  <2>11. Survives(s, k) =>
           (Count(t, k + 1, n + 1, Names) >= Count(t, k + 1, n + 1, {Up})
              <=> (x = Up => Ahead(s, k) > 0))
    BY <2>3, <2>4, <2>6, <2>7, <2>8
  <2> QED BY <2>9, <2>10, <2>11
<1> HIDE DEF t
<1> QED BY <1>2, <1>3 DEF t

(* Behind the last name that stays, as many names were taken away again as     *)
(* there were "..": one more of them takes this name.                          *)
LEMMA NothingAheadOfLast ==
  ASSUME NEW s \in Seq(Segments), NEW m \in Kept(s), \A k \in Kept(s) : k <= m
  PROVE  Ahead(s, m) = 0
<1> DEFINE n == Len(s)
<1>1. n \in Nat /\ m \in 1..n /\ Survives(s, m)
  BY DEF Kept
<1>2. Ahead(s, m) \in Int /\ Ahead(s, m) >= 0 /\ Ahead(s, n) = 0
  BY <1>1, AheadType
<1> SUFFICES ASSUME Ahead(s, m) > 0 PROVE FALSE
  BY <1>2
<1> DEFINE D == {k \in m..n : Ahead(s, k) > 0}
<1>3. D \in SUBSET (0..n) /\ m \in D
  BY <1>1
<1>4. PICK h \in D : \A k \in D : k <= h
  <2> HIDE DEF D, n
  <2> QED BY <1>1, <1>3, LargestNumber
<1>5. h \in m..n /\ h # n /\ Ahead(s, h) > 0
  BY <1>2, <1>4
<1>6. h + 1 \in 1..n /\ h + 1 > m /\ (h + 1) - 1 = h
  BY <1>1, <1>5
<1>7. ASSUME NEW j \in (h + 1)..n PROVE Ahead(s, j) \in Int /\ Ahead(s, j) <= 0
  <2>1. j \in m..n /\ ~(j <= h) /\ j \in 0..n
    BY <1>1, <1>5
  <2>2. j \notin D
    BY <1>4, <2>1
  <2>3. Ahead(s, j) \in Int
    BY <2>1, AheadType
  <2> QED BY <2>1, <2>2, <2>3
<1> HIDE DEF D
<1>8. Ahead(s, h) = Ahead(s, h + 1) + (IF s[h + 1] \in Names THEN 1 ELSE
                                       IF s[h + 1] = Up THEN -1 ELSE 0)
  BY <1>6, AheadStep
<1>9. Ahead(s, h + 1) \in Int /\ Ahead(s, h + 1) <= 0
  <2>1. h + 1 \in (h + 1)..n
    BY <1>6
  <2> QED BY <1>7, <2>1
<1>10. s[h + 1] \in Names /\ Ahead(s, h + 1) = 0
  BY <1>5, <1>8, <1>9
<1>11. ASSUME NEW j \in ((h + 1) + 1)..n
       PROVE  Count(s, (h + 1) + 1, j, Names) >= Count(s, (h + 1) + 1, j, {Up})
  <2>1. j \in (h + 1)..n /\ h + 1 \in 0..n /\ (h + 1) + 1 \in Nat /\ j \in Nat
    BY <1>1, <1>6
  <2>2. Ahead(s, h + 1) = Count(s, (h + 1) + 1, j, Names)
                            - Count(s, (h + 1) + 1, j, {Up}) + Ahead(s, j)
    BY <2>1, AheadSplits
  <2>3. Count(s, (h + 1) + 1, j, Names) \in Nat /\ Count(s, (h + 1) + 1, j, {Up}) \in Nat
    BY <2>1, CountType
  <2>4. Ahead(s, j) \in Int /\ Ahead(s, j) <= 0
    BY <1>7, <2>1
  <2> QED BY <1>10, <2>2, <2>3, <2>4
<1>12. h + 1 \in Kept(s)
  BY <1>6, <1>10, <1>11 DEF Kept, Survives
<1> QED BY <1>1, <1>5, <1>6, <1>12

(* Before it, they all have a name ahead of them.                              *)
LEMMA SomethingAheadOfOthers ==
  ASSUME NEW s \in Seq(Segments), NEW m \in Kept(s), NEW k \in Kept(s), k < m
  PROVE  Ahead(s, k) > 0
<1>1. /\ Len(s) \in Nat /\ m \in 1..Len(s) /\ k \in 1..Len(s)
      /\ Survives(s, m) /\ Survives(s, k)
  BY DEF Kept
<1>2. /\ m - 1 \in k..Len(s) /\ m - 1 \in Nat /\ k + 1 \in Nat
      /\ k \in 0..Len(s) /\ m \in 0..Len(s)
  BY <1>1
<1>3. Ahead(s, k) = Count(s, k + 1, m - 1, Names) - Count(s, k + 1, m - 1, {Up})
                      + Ahead(s, m - 1)
  BY <1>2, AheadSplits
<1>4. Count(s, k + 1, m - 1, Names) \in Nat /\ Count(s, k + 1, m - 1, {Up}) \in Nat
  BY <1>2, CountType
<1>5. Count(s, k + 1, m - 1, Names) >= Count(s, k + 1, m - 1, {Up})
  <2>1. CASE m - 1 \in (k + 1)..Len(s)
    BY <1>1, <2>1, Zenon DEF Survives
  <2>2. CASE m - 1 < k + 1
    <3>1. Count(s, k + 1, m - 1, Names) = 0 /\ Count(s, k + 1, m - 1, {Up}) = 0
      BY <1>2, <2>2, CountNone
    <3> QED BY <3>1
  <2> QED BY <1>2, <2>1, <2>2
<1>6. Ahead(s, m - 1) = Ahead(s, m) + 1
  <2>1. s[m] \in Names
    BY <1>1 DEF Survives
  <2> QED BY <1>1, <2>1, AheadStep
<1>7. Ahead(s, m) \in Int /\ Ahead(s, m) >= 0
  BY <1>1, <1>2, AheadType
<1> QED BY <1>3, <1>4, <1>5, <1>6, <1>7

(* What stays when the walk goes one segment on.                               *)
LEMMA KeptAppend ==
  ASSUME NEW s \in Seq(Segments), NEW x \in Segments
  PROVE  /\ x \in Names => Kept(Append(s, x)) = Kept(s) \cup {Len(s) + 1}
         /\ Ignored(x) => Kept(Append(s, x)) = Kept(s)
         /\ x = Up /\ Kept(s) = {} => Kept(Append(s, x)) = {}
         /\ x = Up => \A m \in Kept(s) : (\A k \in Kept(s) : k <= m) =>
                        Kept(Append(s, x)) = Kept(s) \ {m}
<1> DEFINE t == Append(s, x)
           n == Len(s)
<1>1. n \in Nat /\ Len(t) = n + 1 /\ 1..(n + 1) = 1..n \cup {n + 1} /\ n + 1 \notin 1..n
  OBVIOUS
<1>2. /\ \A k \in 1..n : Survives(t, k) <=> Survives(s, k) /\ (x = Up => Ahead(s, k) > 0)
      /\ Survives(t, n + 1) <=> x \in Names
  BY SurvivesAppend
<1>3. (x \in Names => x # Up) /\ (Ignored(x) => x # Up /\ x \notin Names)
  BY NameAssumption DEF Ignored
<1>4. \A k : k \in Kept(t) <=>
        \/ k \in 1..n /\ Survives(s, k) /\ (x = Up => Ahead(s, k) > 0)
        \/ k = n + 1 /\ x \in Names
  <2> HIDE DEF t, n
  <2> QED BY <1>1, <1>2 DEF Kept
<1>5. \A k : k \in Kept(s) <=> k \in 1..n /\ Survives(s, k)
  BY DEF Kept
<1> HIDE DEF t, n
<1>6. x \in Names => Kept(t) = Kept(s) \cup {n + 1}
  BY <1>3, <1>4, <1>5
<1>7. Ignored(x) => Kept(t) = Kept(s)
  BY <1>3, <1>4, <1>5
<1>8. x = Up /\ Kept(s) = {} => Kept(t) = {}
  BY <1>3, <1>4, <1>5
<1>9. ASSUME x = Up, NEW m \in Kept(s), \A k \in Kept(s) : k <= m
      PROVE  Kept(t) = Kept(s) \ {m}
  <2>1. \A k \in Kept(s) : k # m => k < m
    BY <1>1, <1>5, <1>9
  <2>2. \A k \in Kept(s) : Ahead(s, k) > 0 <=> k # m
    <3>1. \A k \in Kept(s) : k # m => Ahead(s, k) > 0
      BY <2>1, SomethingAheadOfOthers
    <3>2. ~(Ahead(s, m) > 0)
      BY <1>9, NothingAheadOfLast
    <3> QED BY <3>1, <3>2
  <2> QED BY <1>3, <1>4, <1>5, <1>9, <2>2
<1> QED BY <1>6, <1>7, <1>8, <1>9 DEF t, n

-----------------------------------------------------------------------------
(* Paths as the names that stay, in order.                                     *)

(* f goes through the positions of s that stay, in their order, and p has the  *)
(* names there.                                                                *)
Lists(f, s, p) ==
  /\ \A i \in 1..Len(p) : f[i] \in Kept(s) /\ p[i] = s[f[i]]
  /\ \A i, j \in 1..Len(p) : i < j => f[i] < f[j]
  /\ \A k \in Kept(s) : \E i \in 1..Len(p) : f[i] = k

(* The walk along s ends at p.                                                 *)
Leads(s, p) == \E f \in [1..Len(p) -> Nat] : Lists(f, s, p)

(* Whoever has listed the names that stay has the place.                       *)
LEMMA LeadsToPlace ==
  ASSUME NEW s \in Seq(Segments), NEW p \in Seq(Names), Leads(s, p)
  PROVE  Place(s) = p
<1> DEFINE n == Len(p)
           K == Kept(s)
           UpTo(k) == {j \in K : j <= k}
<1>1. n \in Nat /\ p = [i \in 1..n |-> p[i]]
  OBVIOUS
<1>2. PICK f \in [1..n -> Nat] : Lists(f, s, p)
  BY DEF Leads
<1>3. /\ \A i \in 1..n : f[i] \in K /\ p[i] = s[f[i]]
      /\ \A i, j \in 1..n : i < j => f[i] < f[j]
      /\ \A k \in K : \E i \in 1..n : f[i] = k
  BY <1>2 DEF Lists
<1> HIDE DEF n, K
<1>4. \A i, j \in 1..n : f[i] \in Nat /\ (f[i] <= f[j] <=> i <= j) /\ (f[i] = f[j] <=> i = j)
  BY <1>1, <1>3
<1>5. ASSUME NEW i \in 1..n PROVE Cardinality(UpTo(f[i])) = i
  <2> DEFINE g == [j \in 1..i |-> f[j]]
  <2>1. i \in Nat /\ \A j \in 1..i : j \in 1..n /\ j <= i
    BY <1>1
  <2>2. \A j \in 1..i : g[j] \in UpTo(f[i])
    BY <1>3, <1>4, <2>1
  <2>3. \A j, k \in 1..i : g[j] = g[k] => j = k
    BY <1>4, <2>1
  <2>4. \A k \in UpTo(f[i]) : \E j \in 1..i : g[j] = k
    <3> SUFFICES ASSUME NEW k \in K, k <= f[i] PROVE \E j \in 1..i : g[j] = k
      OBVIOUS
    <3>1. PICK j \in 1..n : f[j] = k
      BY <1>3
    <3>2. j <= i /\ j \in 1..i
      BY <1>1, <1>4, <3>1
    <3> QED BY <3>1, <3>2
  <2>5. g \in [1..i -> UpTo(f[i])]
    BY <2>2
  <2> HIDE DEF g, UpTo
  <2>6. g \in Bijection(1..i, UpTo(f[i]))
    BY <2>3, <2>4, <2>5, Fun_IsBij
  <2>7. ExistsBijection(1..i, UpTo(f[i]))
    BY <2>6 DEF ExistsBijection
  <2> QED BY <2>1, <2>7, FS_CountingElements
<1>6. Cardinality(K) = n
  <2>1. f \in [1..n -> K]
    BY <1>3
  <2>2. f \in Bijection(1..n, K)
    BY <1>3, <1>4, <2>1, Fun_IsBij
  <2>3. ExistsBijection(1..n, K)
    BY <2>2 DEF ExistsBijection
  <2> QED BY <1>1, <2>3, FS_CountingElements
<1>7. ASSUME NEW i \in 1..n
      PROVE  s[CHOOSE k \in K : Cardinality(UpTo(k)) = i] = p[i]
  <2> HIDE DEF UpTo
  <2>1. \A k \in K : Cardinality(UpTo(k)) = i => k = f[i]
    <3> SUFFICES ASSUME NEW k \in K, Cardinality(UpTo(k)) = i PROVE k = f[i]
      OBVIOUS
    <3>1. PICK j \in 1..n : f[j] = k
      BY <1>3
    <3>2. j = i
      BY <1>5, <3>1
    <3> QED BY <3>1, <3>2
  <2>2. f[i] \in K /\ Cardinality(UpTo(f[i])) = i
    BY <1>3, <1>5
  <2>3. (CHOOSE k \in K : Cardinality(UpTo(k)) = i) = f[i]
    BY <2>1, <2>2
  <2> QED BY <1>3, <2>3
<1>8. Place(s) = [i \in 1..n |-> s[CHOOSE k \in K : Cardinality(UpTo(k)) = i]]
  BY <1>6, Zenon DEF Place, K
<1>9. Place(s) = [i \in 1..n |-> p[i]]
  BY <1>7, <1>8
<1> QED BY <1>1, <1>9

(* A path without its last name.                                               *)
LEMMA AllButLastIs ==
  ASSUME NEW p \in Seq(Names), p # <<>>
  PROVE  /\ AllButLast(p) \in Seq(Names) /\ Len(AllButLast(p)) = Len(p) - 1
         /\ \A i \in 1..(Len(p) - 1) : AllButLast(p)[i] = p[i]
<1> DEFINE m == Len(p) - 1
<1>1. m \in Nat /\ 1 \in Int /\ \A i \in 1..m : p[i] \in Names
  OBVIOUS
<1>2. AllButLast(p) = SubSeq(p, 1, m)
  BY DEF AllButLast
<1> HIDE DEF m
<1>3. /\ SubSeq(p, 1, m) \in Seq(Names)
      /\ Len(SubSeq(p, 1, m)) = IF 1 <= m THEN m - 1 + 1 ELSE 0
      /\ \A i \in 1..(m - 1 + 1) : SubSeq(p, 1, m)[i] = p[1 + i - 1]
  BY <1>1, SubSeqProperties
<1>4. m - 1 + 1 = m /\ \A i \in 1..m : 1 + i - 1 = i
  BY <1>1
<1> QED BY <1>1, <1>2, <1>3, <1>4 DEF m

(* Nothing leads nowhere.                                                      *)
LEMMA LeadsNowhere == Leads(<<>>, <<>>)
<1>1. Kept(<<>>) = {} /\ 1..Len(<<>>) = {}
  BY DEF Kept
<1>2. \A f : Lists(f, <<>>, <<>>)
  BY <1>1 DEF Lists
<1>3. [i \in 1..Len(<<>>) |-> 0] \in [1..Len(<<>>) -> Nat]
  OBVIOUS
<1> QED BY <1>2, <1>3 DEF Leads

(* The last of the names that stay is at the last of their positions.          *)
LEMMA LastIsListed ==
  ASSUME NEW s \in Seq(Segments), NEW p \in Seq(Names), NEW f \in [1..Len(p) -> Nat],
         Lists(f, s, p)
  PROVE  /\ p = <<>> => Kept(s) = {}
         /\ p # <<>> => f[Len(p)] \in Kept(s) /\ \A k \in Kept(s) : k <= f[Len(p)]
<1>1. Len(p) \in Nat /\ (p # <<>> => Len(p) \in 1..Len(p)) /\ (p = <<>> => 1..Len(p) = {})
  OBVIOUS
<1>2. /\ \A i \in 1..Len(p) : f[i] \in Kept(s) /\ f[i] \in Nat
      /\ \A i, j \in 1..Len(p) : i < j => f[i] < f[j]
      /\ \A k \in Kept(s) : \E i \in 1..Len(p) : f[i] = k
  BY DEF Lists
<1>3. ASSUME p # <<>>, NEW k \in Kept(s) PROVE k <= f[Len(p)]
  <2>1. PICK i \in 1..Len(p) : f[i] = k
    BY <1>2
  <2>2. i = Len(p) \/ i < Len(p)
    BY <1>1
  <2> QED BY <1>1, <1>2, <1>3, <2>1, <2>2
<1> QED BY <1>1, <1>2, <1>3

(* One segment more.                                                           *)
LEMMA LeadsOn ==
  ASSUME NEW s \in Seq(Segments), NEW p \in Seq(Names), NEW x \in Segments, Leads(s, p)
  PROVE  /\ x \in Names => Leads(Append(s, x), Append(p, x))
         /\ Ignored(x) => Leads(Append(s, x), p)
         /\ x = Up /\ p = <<>> => Leads(Append(s, x), p)
         /\ x = Up /\ p # <<>> => Leads(Append(s, x), AllButLast(p))
<1> DEFINE t == Append(s, x)
           n == Len(p)
<1>1. PICK f \in [1..n -> Nat] : Lists(f, s, p)
  BY DEF Leads
<1>2. /\ \A i \in 1..n : f[i] \in Kept(s) /\ p[i] = s[f[i]] /\ f[i] \in Nat
      /\ \A i, j \in 1..n : i < j => f[i] < f[j]
      /\ \A k \in Kept(s) : \E i \in 1..n : f[i] = k
  BY <1>1 DEF Lists
<1>3. n \in Nat /\ Len(s) \in Nat /\ t[Len(s) + 1] = x
      /\ \A k \in Kept(s) : k \in 1..Len(s) /\ t[k] = s[k]
  BY DEF Kept
<1> HIDE DEF t
<1>4. ASSUME x \in Names PROVE Leads(t, Append(p, x))
  <2> DEFINE q == Append(p, x)
             g == [i \in 1..(n + 1) |-> IF i = n + 1 THEN Len(s) + 1 ELSE f[i]]
  <2>1. Kept(t) = Kept(s) \cup {Len(s) + 1}
    BY <1>4, KeptAppend DEF t
  <2>2. Len(q) = n + 1 /\ q[n + 1] = x /\ \A i \in 1..n : q[i] = p[i]
    BY <1>4
  <2>3. 1..(n + 1) = 1..n \cup {n + 1} /\ n + 1 \notin 1..n
    BY <1>3
  <2>4. g[n + 1] = Len(s) + 1 /\ \A i \in 1..n : g[i] = f[i]
    BY <2>3
  <2>5. g \in [1..(n + 1) -> Nat]
    BY <1>2, <1>3, <2>3
  <2> HIDE DEF q, g
  <2>6. ASSUME NEW i \in 1..(n + 1) PROVE g[i] \in Kept(t) /\ q[i] = t[g[i]]
    <3>1. CASE i \in 1..n
      BY <1>2, <1>3, <2>1, <2>2, <2>4, <3>1
    <3>2. CASE i = n + 1
      BY <1>3, <2>1, <2>2, <2>4, <3>2
    <3> QED BY <2>3, <3>1, <3>2
  <2>7. ASSUME NEW i \in 1..(n + 1), NEW j \in 1..(n + 1), i < j PROVE g[i] < g[j]
    <3>1. i \in 1..n
      BY <1>3, <2>7
    <3>2. CASE j \in 1..n
      BY <1>2, <2>4, <2>7, <3>1, <3>2
    <3>3. CASE j = n + 1
      <4>1. g[i] \in 1..Len(s)
        BY <1>2, <1>3, <2>4, <3>1
      <4> QED BY <1>3, <2>4, <3>3, <4>1
    <3> QED BY <2>3, <3>2, <3>3
  <2>8. ASSUME NEW k \in Kept(t) PROVE \E i \in 1..(n + 1) : g[i] = k
    <3>1. CASE k \in Kept(s)
      BY <1>2, <2>3, <2>4, <3>1
    <3>2. CASE k = Len(s) + 1
      BY <2>3, <2>4, <3>2
    <3> QED BY <2>1, <3>1, <3>2
  <2>9. Lists(g, t, q)
    BY <2>2, <2>6, <2>7, <2>8 DEF Lists
  <2> QED BY <2>2, <2>5, <2>9 DEF Leads, q
<1>5. ASSUME Kept(t) = Kept(s) PROVE Leads(t, p)
  <2>1. Lists(f, t, p)
    BY <1>2, <1>3, <1>5 DEF Lists
  <2> QED BY <2>1 DEF Leads
<1>6. Ignored(x) => Leads(t, p)
  BY <1>5, KeptAppend DEF t
<1>7. x = Up /\ p = <<>> => Leads(t, p)
  <2> SUFFICES ASSUME x = Up, p = <<>> PROVE Kept(t) = Kept(s)
    BY <1>5
  <2>1. Kept(s) = {}
    BY <1>2
  <2> QED BY <2>1, KeptAppend DEF t
<1>8. ASSUME x = Up, p # <<>> PROVE Leads(t, AllButLast(p))
  <2> DEFINE q == AllButLast(p)
             g == [i \in 1..(n - 1) |-> f[i]]
  <2>1. n - 1 \in Nat /\ n \in 1..n /\ 1..n = 1..(n - 1) \cup {n} /\ n \notin 1..(n - 1)
    BY <1>3, <1>8
  <2>2. Len(q) = n - 1 /\ \A i \in 1..(n - 1) : q[i] = p[i]
    BY <1>8, AllButLastIs
  <2>3. Kept(t) = Kept(s) \ {f[n]}
    <3>1. f[n] \in Kept(s) /\ \A k \in Kept(s) : k <= f[n]
      BY <1>1, <1>8, LastIsListed
    <3> HIDE DEF n
    <3> QED BY <1>8, <3>1, KeptAppend DEF t
  <2>4. g \in [1..(n - 1) -> Nat] /\ \A i \in 1..(n - 1) : g[i] = f[i]
    BY <1>2, <2>1
  <2> HIDE DEF q, g
  <2>5. \A i \in 1..(n - 1) : f[i] # f[n]
    <3>1. \A i \in 1..(n - 1) : i < n /\ i \in 1..n
      BY <2>1
    <3>2. \A i \in 1..(n - 1) : f[i] < f[n] /\ f[i] \in Nat /\ f[n] \in Nat
      BY <1>2, <2>1, <3>1
    <3> QED BY <3>2
  <2>6. \A i \in 1..(n - 1) : g[i] \in Kept(t) /\ q[i] = t[g[i]]
    BY <1>2, <1>3, <2>1, <2>2, <2>3, <2>4, <2>5
  <2>7. \A i, j \in 1..(n - 1) : i < j => g[i] < g[j]
    BY <1>2, <2>1, <2>4
  <2>8. \A k \in Kept(t) : \E i \in 1..(n - 1) : g[i] = k
    BY <1>2, <2>1, <2>3, <2>4
  <2>9. Lists(g, t, q)
    BY <2>2, <2>6, <2>7, <2>8 DEF Lists
  <2> QED BY <2>2, <2>4, <2>9 DEF Leads, q
<1> QED BY <1>4, <1>6, <1>7, <1>8 DEF t

-----------------------------------------------------------------------------
(* What the loops do with the segments.                                        *)

(* A segment at the end of the second of two paths.                            *)
LEMMA AppendJoined ==
  ASSUME NEW S, NEW a \in Seq(S), NEW b \in Seq(S), NEW x \in S
  PROVE  Append(b, x) \in Seq(S) /\ a \o Append(b, x) = Append(a \o b, x)
<1>1. Append(b, x) \in Seq(S) /\ Append(b, x) = b \o <<x>> /\ <<x>> \in Seq(S)
  BY AppendIsConcat
<1>2. a \o b \in Seq(S)
  BY ConcatProperties
<1>3. Append(a \o b, x) = (a \o b) \o <<x>>
  BY <1>2, AppendIsConcat
<1>4. (a \o b) \o <<x>> = a \o (b \o <<x>>)
  BY <1>1, ConcatAssociative
<1> QED BY <1>1, <1>3, <1>4

(* The same for names below the root.                                          *)
LEMMA NamesBelowBase ==
  \A p \in Seq(Names), y \in Names :
    Append(p, y) \in Seq(Names) /\ Base \o Append(p, y) = Append(Base \o p, y)
<1> SUFFICES ASSUME NEW p \in Seq(Names), NEW y \in Names
             PROVE  Append(p, y) \in Seq(Names) /\ Base \o Append(p, y) = Append(Base \o p, y)
  OBVIOUS
<1>1. Base \in Seq(Names)
  BY BaseAssumption
<1> QED BY <1>1, AppendJoined

(* The first segment of the second of two paths goes over to the first.        *)
LEMMA HeadGoesOver ==
  ASSUME NEW S, NEW a \in Seq(S), NEW b \in Seq(S), b # <<>>
  PROVE  Append(a, Head(b)) \o Tail(b) = a \o b
<1>1. Head(b) \in S /\ Tail(b) \in Seq(S) /\ <<Head(b)>> \in Seq(S)
  OBVIOUS
<1>2. Append(a, Head(b)) = a \o <<Head(b)>>
  BY <1>1, AppendIsConcat
<1>3. (a \o <<Head(b)>>) \o Tail(b) = a \o (<<Head(b)>> \o Tail(b))
  BY <1>1, ConcatAssociative
<1>4. <<Head(b)>> \o Tail(b) = b
  BY <1>1
<1> QED BY <1>2, <1>3, <1>4

(* The last name of two paths is that of the second.                           *)
LEMMA AllButLastJoined ==
  ASSUME NEW a \in Seq(Names), NEW b \in Seq(Names), b # <<>>
  PROVE  a \o AllButLast(b) = AllButLast(a \o b)
<1>1. PICK c \in Seq(Names), x \in Names : b = Append(c, x)
  BY SequenceEmptyOrAppend
<1>2. \A d \in Seq(Names) : AllButLast(Append(d, x)) = d
  <2> SUFFICES ASSUME NEW d \in Seq(Names) PROVE AllButLast(Append(d, x)) = d
    OBVIOUS
  <2> DEFINE e == Append(d, x)
  <2>1. /\ e \in Seq(Names) /\ e # <<>> /\ Len(e) = Len(d) + 1 /\ Len(d) \in Nat
        /\ \A i \in 1..Len(d) : e[i] = d[i]
    BY AppendProperties
  <2> HIDE DEF e
  <2>2. /\ AllButLast(e) \in Seq(Names) /\ Len(AllButLast(e)) = Len(d)
        /\ \A i \in 1..Len(d) : AllButLast(e)[i] = d[i]
    <3>1. /\ AllButLast(e) \in Seq(Names) /\ Len(AllButLast(e)) = Len(e) - 1
          /\ \A i \in 1..(Len(e) - 1) : AllButLast(e)[i] = e[i]
      BY <2>1, AllButLastIs
    <3>2. Len(e) - 1 = Len(d)
      BY <2>1
    <3> QED BY <2>1, <3>1, <3>2
  <2>3. AllButLast(e) = d
    BY <2>2, SeqEqual
  <2> QED BY <2>3 DEF e
<1>3. a \o b = Append(a \o c, x) /\ a \o c \in Seq(Names)
  BY <1>1, AppendJoined, ConcatProperties
<1> QED BY <1>1, <1>2, <1>3

(* A segment goes over from what is left of a walk to what is done.            *)
LEMMA OneOver ==
  ASSUME NEW w \in Seq(Segments), NEW segs \in Seq(Segments), segs # <<>>
  PROVE  /\ Head(segs) \in Segments /\ Tail(segs) \in Seq(Segments)
         /\ Append(w, Head(segs)) \in Seq(Segments)
         /\ w \o segs = Append(w, Head(segs)) \o Tail(segs)
<1>1. Head(segs) \in Segments /\ Tail(segs) \in Seq(Segments)
  OBVIOUS
<1>2. Append(w, Head(segs)) \in Seq(Segments)
  BY <1>1
<1>3. w \o segs = Append(w, Head(segs)) \o Tail(segs)
  BY HeadGoesOver
<1> QED BY <1>1, <1>2, <1>3

(* A path of names is a path.                                                  *)
LEMMA NamesAreSegments == \A p \in Seq(Names) : p \in Seq(Segments)
BY DEF Segments

(* The loops take names over as they are.                                      *)
LEMMA TurnOnNames ==
  ASSUME TypeOK, NextSegment, NEW segs \in Seq(Segments), NEW rest \in Seq(Names),
         todo = rest \o segs, rest # <<>>
  PROVE  /\ Tail(rest) \in Seq(Names) /\ todo' = Tail(rest) \o segs
         /\ parts' \o Tail(rest) = parts \o rest /\ at' = at
<1>1. Head(rest) \in Names /\ Tail(rest) \in Seq(Names)
  OBVIOUS
<1>2. Head(todo) = Head(rest) /\ Tail(todo) = Tail(rest) \o segs
  <2>1. rest \in Seq(Segments)
    BY NamesAreSegments
  <2> QED BY <2>1
<1>3. Head(todo) # Up /\ ~Ignored(Head(todo))
  BY <1>1, <1>2, NameAssumption DEF Ignored
<1>4. todo' = Tail(todo) /\ parts' = Append(parts, Head(rest)) /\ at' = at
  BY <1>2, <1>3 DEF NextSegment
<1>5. Append(parts, Head(rest)) \o Tail(rest) = parts \o rest
  <2>1. parts \in Seq(Names)
    BY DEF TypeOK
  <2> QED BY <2>1, HeadGoesOver
<1> QED BY <1>1, <1>2, <1>4, <1>5

(* The balance of a longer path.                                               *)
LEMMA BalanceAppend ==
  ASSUME NEW d \in Seq(Segments), NEW x \in Segments
  PROVE  /\ x \in Names => Ahead(Append(d, x), 0) = Ahead(d, 0) + 1
         /\ Ignored(x) => Ahead(Append(d, x), 0) = Ahead(d, 0)
         /\ x = Up => Ahead(Append(d, x), 0) = Ahead(d, 0) - 1
<1>1. /\ Count(d, 1, Len(d), Names) \in Nat /\ Count(d, 1, Len(d), {Up}) \in Nat
      /\ Len(d) \in Nat /\ Len(Append(d, x)) = Len(d) + 1 /\ 1 <= Len(d) + 1
  <2>1. Len(d) \in Nat /\ 1 \in Nat /\ Len(Append(d, x)) = Len(d) + 1
    OBVIOUS
  <2>2. \A S : Count(d, 1, Len(d), S) \in Nat
    BY <2>1, CountType
  <2> QED BY <2>1, <2>2
<1>2. /\ Count(Append(d, x), 1, Len(d) + 1, Names)
           = Count(d, 1, Len(d), Names) + (IF x \in Names THEN 1 ELSE 0)
      /\ Count(Append(d, x), 1, Len(d) + 1, {Up})
           = Count(d, 1, Len(d), {Up}) + (IF x \in {Up} THEN 1 ELSE 0)
  BY <1>1, CountAppend
<1>3. (x \in Names => x # Up) /\ (Ignored(x) => x # Up /\ x \notin Names)
      /\ (x = Up => x \notin Names)
  BY NameAssumption DEF Ignored
<1>4. 0 + 1 = 1
  OBVIOUS
<1>5. /\ Ahead(d, 0) = Count(d, 1, Len(d), Names) - Count(d, 1, Len(d), {Up})
      /\ Ahead(Append(d, x), 0) = Count(Append(d, x), 1, Len(d) + 1, Names)
                                    - Count(Append(d, x), 1, Len(d) + 1, {Up})
  BY <1>1, <1>4 DEF Ahead
<1> QED BY <1>1, <1>2, <1>3, <1>5

(* Names alone are all ahead.                                                  *)
LEMMA BalanceOfNames ==
  ASSUME NEW p \in Seq(Names)
  PROVE  Ahead(p, 0) = Len(p)
<1>1. Len(p) \in Nat /\ 0 + 1 = 1
  OBVIOUS
<1>2. {k \in 1..Len(p) : p[k] \in Names} = 1..Len(p)
  OBVIOUS
<1>3. {k \in 1..Len(p) : p[k] \in {Up}} = {}
  BY NameAssumption
<1>4. Cardinality(1..Len(p)) = Len(p)
  <2>1. Cardinality(1..Len(p)) = IF 1 > Len(p) THEN 0 ELSE Len(p) - 1 + 1
    BY <1>1, FS_Interval
  <2> QED BY <1>1, <2>1
<1>5. Count(p, 1, Len(p), Names) = Len(p) /\ Count(p, 1, Len(p), {Up}) = 0
  BY <1>2, <1>3, <1>4, FS_EmptySet DEF Count
<1> QED BY <1>1, <1>5 DEF Ahead

(* A ".." when nothing is left to take away climbs.                            *)
LEMMA UpClimbs ==
  ASSUME NEW d \in Seq(Segments), NEW segs \in Seq(Segments), segs # <<>>,
         Head(segs) = Up, Ahead(d, 0) = 0
  PROVE  Climbs(d \o segs)
<1> DEFINE b == d \o segs
           e == Append(d, Up)
           n == Len(d) + 1
<1>1. e \in Seq(Segments) /\ b = e \o Tail(segs) /\ Tail(segs) \in Seq(Segments)
  BY OneOver
<1>2. Len(e) = n /\ n \in Nat /\ n \in 1..Len(b) /\ \A k \in 1..n : e[k] = b[k]
  <2>1. Len(e) = n /\ n \in Nat /\ n >= 1
    BY DEF Segments
  <2>2. n \in 1..Len(b) /\ \A k \in 1..n : e[k] = b[k]
    <3> HIDE DEF e, n, b
    <3> QED BY <1>1, <2>1
  <2> QED BY <2>1, <2>2
<1> HIDE DEF b, n
<1>3. Ahead(e, 0) = -1
  BY BalanceAppend DEF Segments
<1> HIDE DEF e
<1>4. Ahead(e, 0) = Count(e, 1, n, Names) - Count(e, 1, n, {Up})
  <2>1. 0 + 1 = 1
    OBVIOUS
  <2> QED BY <1>2, <2>1 DEF Ahead
<1>5. \A S : Count(b, 1, n, S) = Count(e, 1, n, S) /\ Count(e, 1, n, S) \in Nat
  <2>1. \A S : Count(e, 1, n, S) \in Nat
    BY <1>2, CountType
  <2>2. \A S : Count(b, 1, n, S) = Count(e, 1, n, S)
    BY <1>2, CountIsOf
  <2> QED BY <2>1, <2>2
<1>6. Count(b, 1, n, Names) < Count(b, 1, n, {Up})
  <2>1. /\ Count(b, 1, n, Names) = Count(e, 1, n, Names) /\ Count(e, 1, n, Names) \in Nat
        /\ Count(b, 1, n, {Up}) = Count(e, 1, n, {Up}) /\ Count(e, 1, n, {Up}) \in Nat
    BY <1>5
  <2> QED BY <1>3, <1>4, <2>1
<1> QED BY <1>2, <1>6 DEF Climbs, b

(* All segments a name that is resolved stands for.                            *)
Meant == IF target.absolute THEN target.segments ELSE walked \o target.segments

(* The names both loops agree on: without a backslash, and below the root all  *)
(* the way.                                                                    *)
Straight == ~Climbs(Below(target)) /\ AllWhole(Below(target))

(* In the loop of cwd_cmd(): what was walked is w and then segs.  The names in *)
(* rest are what is left of the old cwd; with them, parts is where w leads.    *)
CwdLoop ==
  at = "cwd" =>
    \E w, segs \in Seq(Segments), rest \in Seq(Names) :
      walked = w \o segs /\ todo = rest \o segs /\ Leads(w, parts \o rest)

(* In the loop of resolve(), for a straight name: the same, below the root.  d *)
(* is the part of the argument behind the root that is done; its balance is    *)
(* the number of names that can be taken away.                                 *)
ResolveLoop ==
  at = "resolve" /\ Straight =>
    \E w, d, segs \in Seq(Segments), rest, place \in Seq(Names) :
      /\ Meant = w \o segs /\ Below(target) = d \o segs /\ todo = rest \o segs
      /\ Leads(w, place) /\ Base \o place = parts \o rest
      /\ Ahead(d, 0) = Len(place)

(* What both loops keep, and what they leave: a cwd where the walk has led, and *)
(* a result below the root.                                                    *)
WalkInv ==
  /\ at = "idle" => Leads(walked, cwd)
  /\ CwdLoop
  /\ ResolveLoop
  /\ at = "resolve" /\ Straight => AllWhole(todo)
  /\ at = "done" /\ Straight => \E place \in Seq(Names) :
       Leads(Meant, place) /\ result = Base \o place

(* What a name stands for is a path.                                           *)
LEMMA MeantIsPath == TypeOK => Meant \in Seq(Segments) /\ Below(target) \in Seq(Segments)
                               /\ target.segments \in Seq(Segments)
<1> SUFFICES ASSUME TypeOK PROVE Meant \in Seq(Segments) /\ Below(target) \in Seq(Segments)
                                 /\ target.segments \in Seq(Segments)
  OBVIOUS
<1>1. target.segments \in Seq(Segments)
  <2>1. CASE target \in Args
    BY <2>1, ArgAssumption
  <2>2. CASE target = NoTarget
    <3>1. target.segments = <<>>
      BY <2>2 DEF NoTarget
    <3> QED BY <3>1
  <2> QED BY <2>1, <2>2 DEF TypeOK
<1>2. walked \in Seq(Segments) /\ cwd \in Seq(Segments)
  BY NamesAreSegments DEF TypeOK
<1> QED BY <1>1, <1>2 DEF Meant, Below

(* One turn in the loop of cwd_cmd().                                          *)
LEMMA CwdTurn ==
  ASSUME TypeOK, CwdLoop, at = "cwd", NextSegment
  PROVE  at' = "cwd" /\ CwdLoop'
<1>1. at' = "cwd" /\ UNCHANGED walked
  BY DEF NextSegment
<1>2. PICK w \in Seq(Segments), segs \in Seq(Segments), rest \in Seq(Names) :
        walked = w \o segs /\ todo = rest \o segs /\ Leads(w, parts \o rest)
  BY DEF CwdLoop
<1>3. CASE rest # <<>>
  <2>1. /\ Tail(rest) \in Seq(Names) /\ todo' = Tail(rest) \o segs
        /\ parts' \o Tail(rest) = parts \o rest
    BY <1>2, <1>3, TurnOnNames
  <2>2. walked' = w \o segs /\ todo' = Tail(rest) \o segs /\ Leads(w, parts' \o Tail(rest))
    BY <1>1, <1>2, <2>1
  <2> QED BY <1>1, <2>1, <2>2, Zenon DEF CwdLoop
<1>4. CASE rest = <<>>
  <2>1. parts \in Seq(Names) /\ parts \o rest = parts /\ todo = segs /\ segs # <<>>
    BY <1>2, <1>4 DEF TypeOK, NextSegment
  <2> DEFINE x == Head(segs)
  <2>2. /\ x \in Segments /\ Tail(segs) \in Seq(Segments) /\ Append(w, x) \in Seq(Segments)
        /\ walked = Append(w, x) \o Tail(segs)
    BY <1>2, <2>1, OneOver
  <2>3. todo' = Tail(segs)
    BY <2>1 DEF NextSegment
  <2>4. Leads(w, parts)
    BY <1>2, <2>1
  <2>5. parts' \in Seq(Names)
    BY TurnIsTyped
  <2>6. Leads(Append(w, x), parts')
    <3>1. /\ x \in Names => Leads(Append(w, x), Append(parts, x))
          /\ Ignored(x) => Leads(Append(w, x), parts)
          /\ x = Up /\ parts = <<>> => Leads(Append(w, x), parts)
          /\ x = Up /\ parts # <<>> => Leads(Append(w, x), AllButLast(parts))
      BY <2>1, <2>2, <2>4, LeadsOn
    <3>2. x \in Names \/ Ignored(x) \/ x = Up
      BY <2>2 DEF Segments, Ignored
    <3>3. /\ x \in Names => parts' = Append(parts, x)
          /\ Ignored(x) => parts' = parts
          /\ x = Up /\ parts = <<>> => parts' = parts
          /\ x = Up /\ parts # <<>> => parts' = AllButLast(parts)
      BY <2>1, NameAssumption DEF NextSegment, Ignored
    <3> QED BY <3>1, <3>2, <3>3
  <2>7. /\ <<>> \in Seq(Names) /\ parts' \o <<>> = parts' /\ <<>> \o Tail(segs) = Tail(segs)
    BY <2>2, <2>5
  <2>8. /\ walked' = Append(w, x) \o Tail(segs) /\ todo' = <<>> \o Tail(segs)
        /\ Leads(Append(w, x), parts' \o <<>>)
    BY <1>1, <2>2, <2>3, <2>6, <2>7
  <2> QED BY <1>1, <2>2, <2>7, <2>8, Zenon DEF CwdLoop
<1> QED BY <1>3, <1>4

(* One turn in the loop of resolve(), for a name that does not climb.          *)
LEMMA ResolveTurn ==
  ASSUME TypeOK, ResolveLoop, at = "resolve", Straight, NextSegment
  PROVE  at' = "resolve" /\ ResolveLoop'
<1>1. UNCHANGED <<walked, cwd, target>>
  BY DEF NextSegment
<1>2. Meant' = Meant /\ Below(target)' = Below(target)
  BY <1>1 DEF Meant, Below
<1>3. PICK w \in Seq(Segments), d \in Seq(Segments), segs \in Seq(Segments),
           rest \in Seq(Names), place \in Seq(Names) :
        /\ Meant = w \o segs /\ Below(target) = d \o segs /\ todo = rest \o segs
        /\ Leads(w, place) /\ Base \o place = parts \o rest
        /\ Ahead(d, 0) = Len(place)
  BY DEF ResolveLoop
<1>4. CASE rest # <<>>
  <2>1. /\ Tail(rest) \in Seq(Names) /\ todo' = Tail(rest) \o segs
        /\ parts' \o Tail(rest) = parts \o rest /\ at' = at
    BY <1>3, <1>4, TurnOnNames
  <2>2. /\ Meant' = w \o segs /\ Below(target)' = d \o segs /\ todo' = Tail(rest) \o segs
        /\ Leads(w, place) /\ Base \o place = parts' \o Tail(rest)
        /\ Ahead(d, 0) = Len(place)
    BY <1>2, <1>3, <2>1
  <2> QED BY <2>1, <2>2, Zenon DEF ResolveLoop
<1>5. CASE rest = <<>>
  <2>1. /\ parts \in Seq(Names) /\ parts \o rest = parts /\ todo = segs /\ segs # <<>>
        /\ parts = Base \o place /\ Base \in Seq(Names) /\ Base # <<>> /\ parts # <<>>
    BY <1>3, <1>5, BaseAssumption DEF TypeOK, NextSegment
  <2> DEFINE x == Head(segs)
  <2>2. /\ x \in Segments /\ Tail(segs) \in Seq(Segments)
        /\ Append(w, x) \in Seq(Segments) /\ Append(d, x) \in Seq(Segments)
        /\ Meant = Append(w, x) \o Tail(segs) /\ Below(target) = Append(d, x) \o Tail(segs)
    BY <1>3, <2>1, OneOver
  <2>3. todo' = Tail(segs) /\ todo' = <<>> \o Tail(segs) /\ at' = "resolve"
    BY <2>1, <2>2 DEF NextSegment
  <2>4. x \in Names \/ Ignored(x) \/ x = Up
    BY <2>2 DEF Segments, Ignored
  <2>5. x = Up => place # <<>>
    <3> SUFFICES ASSUME x = Up, place = <<>> PROVE FALSE
      OBVIOUS
    <3>1. Ahead(d, 0) = 0
      BY <1>3
    <3> QED BY <1>3, <2>1, <3>1, UpClimbs DEF Straight
  <2>6. /\ x \in Names => parts' = Append(parts, x)
        /\ Ignored(x) => parts' = parts
        /\ x = Up => parts' = AllButLast(parts)
    BY <2>1, NameAssumption DEF NextSegment, Ignored
  <2> DEFINE on == IF x \in Names THEN Append(place, x)
                   ELSE IF x = Up THEN AllButLast(place) ELSE place
  <2>7. on \in Seq(Names) /\ Base \o on = parts'
    <3>1. CASE x \in Names
      <4>1. /\ Append(place, x) \in Seq(Names)
            /\ Base \o Append(place, x) = Append(Base \o place, x)
        BY <3>1, NamesBelowBase, Zenon
      <4> QED BY <2>1, <2>6, <3>1, <4>1
    <3>2. CASE Ignored(x)
      BY <2>1, <2>6, <3>2, NameAssumption DEF Ignored
    <3>3. CASE x = Up
      <4>1. place # <<>> /\ x \notin Names
        BY <2>5, <3>3, NameAssumption
      <4>2. AllButLast(place) \in Seq(Names)
        BY <4>1, AllButLastIs
      <4>3. Base \o AllButLast(place) = AllButLast(Base \o place)
        BY <2>1, <4>1, AllButLastJoined
      <4> QED BY <2>1, <2>6, <3>3, <4>1, <4>2, <4>3
    <3> QED BY <2>4, <3>1, <3>2, <3>3
  <2>8. Leads(Append(w, x), on)
    <3>1. /\ x \in Names => Leads(Append(w, x), Append(place, x))
          /\ Ignored(x) => Leads(Append(w, x), place)
          /\ x = Up /\ place # <<>> => Leads(Append(w, x), AllButLast(place))
      BY <1>3, <2>2, LeadsOn
    <3> QED BY <2>4, <2>5, <3>1, NameAssumption DEF Ignored
  <2>9. Ahead(Append(d, x), 0) = Len(on)
    <3>1. /\ x \in Names => Ahead(Append(d, x), 0) = Ahead(d, 0) + 1
          /\ Ignored(x) => Ahead(Append(d, x), 0) = Ahead(d, 0)
          /\ x = Up => Ahead(Append(d, x), 0) = Ahead(d, 0) - 1
      BY <1>3, <2>2, BalanceAppend
    <3>2. /\ x \in Names => Len(Append(place, x)) = Len(place) + 1
          /\ x = Up => Len(AllButLast(place)) = Len(place) - 1
      BY <2>5, AllButLastIs
    <3> QED BY <1>3, <2>4, <3>1, <3>2, NameAssumption DEF Ignored
  <2> DEFINE over == Append(w, x)
             dOver == Append(d, x)
             left == Tail(segs)
  <2>10. <<>> \in Seq(Names) /\ parts' \o <<>> = parts'
    BY TurnIsTyped
  <2>11. /\ Meant' = over \o left /\ Below(target)' = dOver \o left
         /\ todo' = <<>> \o left
         /\ Leads(over, on) /\ Base \o on = parts' \o <<>>
         /\ Ahead(dOver, 0) = Len(on)
    BY <1>2, <2>2, <2>3, <2>7, <2>8, <2>9, <2>10
  <2>12. /\ over \in Seq(Segments) /\ dOver \in Seq(Segments) /\ left \in Seq(Segments)
         /\ on \in Seq(Names)
    BY <2>2, <2>7
  <2> HIDE DEF on, over, dOver, left
  <2> QED BY <2>3, <2>10, <2>11, <2>12, Zenon DEF ResolveLoop
<1> QED BY <1>4, <1>5

-----------------------------------------------------------------------------
(* The steps.                                                                  *)

(* CWD starts its loop, or goes to the root.                                   *)
LEMMA CwdBegins ==
  ASSUME TypeOK, WalkInv, NEW arg \in Args, BeginCwd(arg)
  PROVE  WalkInv'
<1>1. at = "idle" /\ Leads(walked, cwd)
  BY DEF BeginCwd, WalkInv
<1>2. arg.segments \in Seq(Segments) /\ <<>> \in Seq(Segments) /\ <<>> \in Seq(Names)
  BY BelowIsPath
<1>3. CASE arg.segments = <<>>
  <2>1. at' = "idle" /\ walked' = <<>> /\ cwd' = <<>>
    BY <1>1, <1>3 DEF BeginCwd
  <2> QED BY <2>1, LeadsNowhere DEF WalkInv, CwdLoop, ResolveLoop
<1>4. CASE arg.segments # <<>>
  <2>1. at' = "cwd" /\ todo' = Below(arg) /\ parts' = <<>>
        /\ walked' = IF arg.absolute THEN arg.segments ELSE walked \o arg.segments
    BY <1>4 DEF BeginCwd
  <2>2. CASE arg.absolute
    <3>1. /\ walked' = <<>> \o arg.segments /\ todo' = <<>> \o arg.segments
          /\ Leads(<<>>, parts' \o <<>>)
      BY <1>2, <2>1, <2>2, LeadsNowhere DEF Below
    <3> QED BY <1>2, <2>1, <3>1, Zenon DEF WalkInv, CwdLoop, ResolveLoop
  <2>3. CASE ~arg.absolute
    <3>1. walked \in Seq(Segments) /\ cwd \in Seq(Names)
      BY DEF TypeOK
    <3>2. /\ walked' = walked \o arg.segments /\ todo' = cwd \o arg.segments
          /\ parts' \o cwd = cwd
      BY <2>1, <2>3, <3>1 DEF Below
    <3>3. Leads(walked, parts' \o cwd)
      BY <1>1, <3>2
    <3> QED BY <1>2, <2>1, <3>1, <3>2, <3>3, Zenon DEF WalkInv, CwdLoop, ResolveLoop
  <2> QED BY <2>2, <2>3
<1> QED BY <1>3, <1>4

(* Where paths are joined first does not matter.                               *)
LEMMA PathsAssociate ==
  \A a, b, c \in Seq(Segments) : a \o (b \o c) = (a \o b) \o c
<1> TAKE a, b, c \in Seq(Segments)
<1>1. (a \o b) \o c = a \o (b \o c)
  BY ConcatAssociative
<1> QED BY <1>1

(* Two paths without a backslash have none together.                           *)
LEMMA WholeJoined ==
  ASSUME NEW a \in Seq(Segments), NEW b \in Seq(Segments), AllWhole(a), AllWhole(b)
  PROVE  AllWhole(a \o b)
<1>1. ASSUME NEW k \in DOMAIN (a \o b)
      PROVE  \/ k \in DOMAIN a /\ (a \o b)[k] = a[k]
             \/ k - Len(a) \in DOMAIN b /\ (a \o b)[k] = b[k - Len(a)]
  OBVIOUS
<1> QED BY <1>1 DEF AllWhole

(* resolve() starts its loop, below the root.                                  *)
LEMMA ResolveBegins ==
  ASSUME TypeOK, WalkInv, NEW arg \in Args, BeginResolve(arg)
  PROVE  WalkInv'
<1>1. at = "idle" /\ Leads(walked, cwd)
  BY DEF BeginResolve, WalkInv
<1>2. /\ at' = "resolve" /\ target' = arg /\ todo' = Base \o Below(arg) /\ parts' = <<>>
      /\ walked' = walked /\ cwd' = cwd
  BY DEF BeginResolve
<1>3. /\ arg.segments \in Seq(Segments) /\ walked \in Seq(Segments) /\ cwd \in Seq(Names)
      /\ cwd \in Seq(Segments) /\ Base \in Seq(Names) /\ Base \in Seq(Segments)
      /\ <<>> \in Seq(Segments) /\ <<>> \in Seq(Names)
  BY BelowIsPath, BaseAssumption, NamesAreSegments DEF TypeOK
<1>4. Below(target)' = Below(arg)
  BY <1>2 DEF Below
<1>5. /\ Meant' = IF arg.absolute THEN arg.segments ELSE walked \o arg.segments
      /\ Below(arg) = IF arg.absolute THEN arg.segments ELSE cwd \o arg.segments
  BY <1>2 DEF Meant, Below
<1>6. Straight' => AllWhole(todo)'
  <2>1. Straight' => AllWhole(Below(arg))
    BY <1>4 DEF Straight, AllWhole, Whole
  <2> QED BY <1>2, <1>3, <2>1, BelowIsPath, WholeJoined, BaseAssumption DEF AllWhole, Whole
<1>7. CASE arg.absolute
  <2>1. /\ Meant' = <<>> \o arg.segments /\ Below(target)' = <<>> \o arg.segments
        /\ todo' = Base \o arg.segments
    BY <1>2, <1>3, <1>4, <1>5, <1>7
  <2>2. Base \o <<>> = parts' \o Base /\ Leads(<<>>, <<>>)
    BY <1>2, <1>3, LeadsNowhere
  <2>3. Ahead(<<>>, 0) = Len(<<>>)
    BY <1>3, BalanceOfNames
  <2>4. ResolveLoop'
    BY <1>2, <1>3, <2>1, <2>2, <2>3, Zenon DEF ResolveLoop
  <2> QED BY <1>2, <1>6, <2>4 DEF WalkInv, CwdLoop
<1>8. CASE ~arg.absolute
  <2> DEFINE from == Base \o cwd
  <2>1. /\ Meant' = walked \o arg.segments /\ Below(target)' = cwd \o arg.segments
        /\ todo' = from \o arg.segments
    <3>1. Base \o (cwd \o arg.segments) = from \o arg.segments
      BY <1>3, PathsAssociate
    <3> QED BY <1>2, <1>4, <1>5, <1>8, <3>1
  <2>2. from \in Seq(Names) /\ Base \o cwd = parts' \o from
    BY <1>2, <1>3
  <2>3. Ahead(cwd, 0) = Len(cwd)
    BY <1>3, BalanceOfNames
  <2> HIDE DEF from
  <2>4. ResolveLoop'
    BY <1>1, <1>3, <2>1, <2>2, <2>3, Zenon DEF ResolveLoop
  <2> QED BY <1>2, <1>6, <2>4 DEF WalkInv, CwdLoop
<1> QED BY <1>7, <1>8

(* The end of the loop of cwd_cmd(): client->cwd is where it was walked to.    *)
LEMMA CwdEnds ==
  ASSUME TypeOK, WalkInv, EndCwd
  PROVE  WalkInv'
<1>1. at = "cwd" /\ todo = <<>> /\ at' = "idle" /\ cwd' = parts /\ walked' = walked
  BY DEF EndCwd
<1>2. PICK w \in Seq(Segments), segs \in Seq(Segments), rest \in Seq(Names) :
        walked = w \o segs /\ todo = rest \o segs /\ Leads(w, parts \o rest)
  BY <1>1 DEF WalkInv, CwdLoop
<1>3. rest = <<>> /\ segs = <<>>
  <2>1. rest \in Seq(Segments)
    BY NamesAreSegments
  <2> QED BY <1>1, <1>2, <2>1, ConcatSimplifications!concIsEmpty
<1>4. walked = w /\ parts \o rest = parts
  BY <1>2, <1>3 DEF TypeOK
<1> QED BY <1>1, <1>2, <1>4 DEF WalkInv, CwdLoop, ResolveLoop

(* The end of the loop of resolve(): the path starts with the root.            *)
LEMMA ResolveEnds ==
  ASSUME TypeOK, WalkInv, EndResolve
  PROVE  WalkInv'
<1>1. /\ at = "resolve" /\ todo = <<>> /\ at' = "done"
      /\ UNCHANGED <<cwd, walked, target>>
  BY DEF EndResolve
<1>2. Meant' = Meant /\ Below(target)' = Below(target)
  BY <1>1 DEF Meant, Below
<1>3. ASSUME Straight
      PROVE  \E place \in Seq(Names) : Leads(Meant, place) /\ result' = Base \o place
  <2>1. PICK w \in Seq(Segments), d \in Seq(Segments), segs \in Seq(Segments),
             rest \in Seq(Names), place \in Seq(Names) :
          /\ Meant = w \o segs /\ Below(target) = d \o segs /\ todo = rest \o segs
          /\ Leads(w, place) /\ Base \o place = parts \o rest
          /\ Ahead(d, 0) = Len(place)
    BY <1>1, <1>3 DEF WalkInv, ResolveLoop
  <2>2. rest = <<>> /\ segs = <<>>
    <3>1. rest \in Seq(Segments)
      BY NamesAreSegments
    <3> QED BY <1>1, <2>1, <3>1, ConcatSimplifications!concIsEmpty
  <2>3. Meant = w /\ parts = Base \o place
    BY <2>1, <2>2 DEF TypeOK
  <2>4. parts # <<>> /\ StartsWithBase(parts)
    <3>1. /\ Len(Base) \in Nat \ {0} /\ Len(place) \in Nat
          /\ Len(parts) = Len(Base) + Len(place)
          /\ \A k \in 1..Len(Base) : parts[k] = Base[k]
      <4>1. Base \in Seq(Names) /\ Base # <<>>
        BY BaseAssumption
      <4>2. /\ Len(Base \o place) = Len(Base) + Len(place)
            /\ \A k \in 1..Len(Base) : (Base \o place)[k] = Base[k]
        BY <4>1
      <4> QED BY <2>3, <4>1, <4>2
    <3> QED BY <3>1 DEF StartsWithBase
  <2>5. result' = Base \o place
    BY <2>3, <2>4 DEF EndResolve
  <2> QED BY <2>1, <2>3, <2>5
<1>4. Straight' = Straight
  BY <1>2 DEF Straight
<1> QED BY <1>1, <1>2, <1>3, <1>4 DEF WalkInv, CwdLoop, ResolveLoop

(* WalkInv is inductive, with the types.                                       *)
LEMMA NextWalkInv ==
  ASSUME TypeOK, WalkInv, [Next]_vars
  PROVE  WalkInv'
<1>1. CASE NextSegment
  <2>1. Below(target)' = Below(target) /\ at \in {"cwd", "resolve"}
    BY <1>1 DEF NextSegment, Below
  <2>2. CASE at = "cwd"
    BY <1>1, <2>2, CwdTurn DEF WalkInv, ResolveLoop
  <2>3. CASE at = "resolve" /\ Straight
    <3>1. at' = "resolve" /\ ResolveLoop'
      BY <1>1, <2>3, ResolveTurn DEF WalkInv
    <3>2. AllWhole(todo)'
      <4>1. todo \in Seq(Segments) /\ todo # <<>> /\ todo' = Tail(todo) /\ AllWhole(todo)
        BY <1>1, <2>3 DEF NextSegment, TypeOK, WalkInv
      <4>2. \A k \in DOMAIN Tail(todo) : k + 1 \in DOMAIN todo /\ Tail(todo)[k] = todo[k + 1]
        BY <4>1
      <4> QED BY <4>1, <4>2 DEF AllWhole
    <3> QED BY <3>1, <3>2 DEF WalkInv, CwdLoop
  <2>4. CASE at = "resolve" /\ ~Straight
    <3>1. at' \in {"resolve", "done"} /\ ~Straight'
      BY <1>1, <2>1, <2>4 DEF NextSegment, Straight
    <3> QED BY <3>1 DEF WalkInv, CwdLoop, ResolveLoop
  <2> QED BY <2>1, <2>2, <2>3, <2>4
<1>2. CASE UNCHANGED vars
  <2>1. UNCHANGED <<at, cwd, todo, parts, result, walked, target>>
    BY <1>2 DEF vars
  <2>2. Meant' = Meant /\ Below(target)' = Below(target)
    BY <2>1 DEF Meant, Below
  <2>3. CwdLoop'
    BY <2>1 DEF WalkInv, CwdLoop
  <2>4. Straight' = Straight
    BY <2>2 DEF Straight
  <2>5. ResolveLoop'
    BY <2>1, <2>2, <2>4 DEF WalkInv, ResolveLoop
  <2> QED BY <2>1, <2>2, <2>3, <2>4, <2>5 DEF WalkInv
<1>3. CASE CutName
  <2>1. /\ at = "resolve" /\ at' = "resolve" /\ todo # <<>> /\ ~Whole(Head(todo))
        /\ Below(target)' = Below(target)
    BY <1>3 DEF CutName, Below
  <2>2. ~AllWhole(todo)
    <3>1. 1 \in DOMAIN todo /\ Head(todo) = todo[1]
      BY <2>1 DEF TypeOK
    <3> QED BY <2>1, <3>1 DEF AllWhole
  <2>3. ~Straight'
    BY <2>1, <2>2 DEF WalkInv, Straight
  <2> QED BY <2>1, <2>3 DEF WalkInv, CwdLoop, ResolveLoop
<1> QED BY <1>1, <1>2, <1>3, CwdBegins, ResolveBegins, CwdEnds, ResolveEnds DEF Next

(* Both loops are where the walk has led at every turn, for paths of any       *)
(* length: cwd_cmd() always, resolve() for straight names.                     *)
THEOREM LoopsFollowTheWalk == Spec => []WalkInv
<1>1. Init => WalkInv
  BY LeadsNowhere DEF Init, WalkInv, CwdLoop, ResolveLoop
<1> QED BY <1>1, NextWalkInv, TypeInvariance, PTL DEF Spec

(* After any sequence of CWDs client->cwd is the place they lead to one after  *)
(* the other, for any names and arguments of any length.                       *)
THEOREM CwdIsThePlaceWalkedTo == Spec => []CwdIsWhereOneWalked
<1>1. TypeOK /\ WalkInv => CwdIsWhereOneWalked
  BY LeadsToPlace DEF TypeOK, WalkInv, CwdIsWhereOneWalked
<1> QED BY <1>1, LoopsFollowTheWalk, TypeInvariance, PTL

(* A name that does not climb resolves to the place the CWDs and the name lead *)
(* to, below the root, however they are mixed with ".", ".." and doubled       *)
(* slashes, if neither client->cwd nor the name has a backslash: with one,     *)
(* cwd_cmd() and resolve() disagree.                                           *)
THEOREM NamesResolveAsWalked == Spec => []ResolvedAsWalked
<1>1. TypeOK /\ WalkInv => ResolvedAsWalked
  <2> SUFFICES ASSUME TypeOK, WalkInv, at = "done", Straight
               PROVE  result = Base \o Place(Meant)
    BY DEF ResolvedAsWalked, Meant, Straight
  <2>1. PICK place \in Seq(Names) : Leads(Meant, place) /\ result = Base \o place
    BY DEF WalkInv
  <2>2. Place(Meant) = place
    BY <2>1, MeantIsPath, LeadsToPlace
  <2> QED BY <2>1, <2>2
<1> QED BY <1>1, LoopsFollowTheWalk, TypeInvariance, PTL
=============================================================================
