--------------------------- MODULE FailuresProofs ---------------------------
(***************************************************************************)
(* Proofs about Failures: what the dict of dedupe_failures holds after any *)
(* rows, and that the panel is that of the failures there are.             *)
(***************************************************************************)
EXTENDS Failures, RowsProofs

-----------------------------------------------------------------------------
\* The dict.

\* Of the rows at some places a dict has each key once, with the row of its first
\* place, and the keys in the order in which their last places come, from the end.
Collapsed(dict, rows, places) ==
  /\ \A m, n \in DOMAIN dict : Key(dict[m]) = Key(dict[n]) => m = n
  /\ \A n \in DOMAIN dict : \E i \in places :
       dict[n] = rows[i] /\ \A j \in places : Key(rows[j]) = Key(rows[i]) => i <= j
  /\ \A i \in places : \E n \in DOMAIN dict : Key(dict[n]) = Key(rows[i])
  /\ \A m, n \in DOMAIN dict : m < n =>
       \E i \in places : /\ Key(rows[i]) = Key(dict[m])
                         /\ \A j \in places : Key(rows[j]) = Key(dict[n]) => j < i

\* A write of a row that comes before the others: it is the one kept of its key.
LEMMA PutCollapses ==
  ASSUME NEW R, NEW dict \in Seq(R), NEW rows, NEW places \in SUBSET Nat, NEW first \in places,
         \A j \in places : first <= j, rows[first] \in R, Collapsed(dict, rows, places \ {first})
  PROVE  Put(rows[first], dict) \in Seq(R) /\ Collapsed(Put(rows[first], dict), rows, places)
<1> DEFINE row == rows[first]
           others == places \ {first}
           after == Put(row, dict)
           n == Len(dict)
<1>1. n \in Nat /\ DOMAIN dict = 1..n /\ \A k \in 1..n : dict[k] \in R
  OBVIOUS
<1>2. \A j \in others : first < j
  OBVIOUS
<1>3. \A j \in places : j = first \/ j \in others
  OBVIOUS
<1>4. /\ \A m, k \in DOMAIN dict : Key(dict[m]) = Key(dict[k]) => m = k
      /\ \A k \in DOMAIN dict : \E i \in others :
           dict[k] = rows[i] /\ \A j \in others : Key(rows[j]) = Key(rows[i]) => i <= j
      /\ \A i \in others : \E k \in DOMAIN dict : Key(dict[k]) = Key(rows[i])
      /\ \A m, k \in DOMAIN dict : m < k =>
           \E i \in others : /\ Key(rows[i]) = Key(dict[m])
                             /\ \A j \in others : Key(rows[j]) = Key(dict[k]) => j < i
  BY DEF Collapsed
<1>5. CASE \E k \in DOMAIN dict : Key(dict[k]) = Key(row)
  <2>1. after = [k \in 1..n |-> IF Key(dict[k]) = Key(row) THEN row ELSE dict[k]]
    BY <1>1, <1>5 DEF Put
  <2>2. DOMAIN after = 1..n /\ \A k \in 1..n : after[k] \in R /\ Key(after[k]) = Key(dict[k])
    BY <1>1, <2>1
  <2>3. after \in Seq(R)
    <3> HIDE DEF after, n
    <3>1. after = [k \in 1..n |-> after[k]]
      BY <2>1
    <3> QED BY <1>1, <2>2, <3>1
  <2>4. \A m, k \in DOMAIN after : Key(after[m]) = Key(after[k]) => m = k
    BY <1>1, <1>4, <2>2
  <2>5. ASSUME NEW k \in DOMAIN after
        PROVE  \E i \in places :
                 after[k] = rows[i] /\ \A j \in places : Key(rows[j]) = Key(rows[i]) => i <= j
    <3>1. CASE Key(dict[k]) = Key(row)
      <4>1. after[k] = rows[first]
        BY <2>1, <2>2, <3>1
      <4> QED BY <4>1
    <3>2. CASE Key(dict[k]) # Key(row)
      <4>1. after[k] = dict[k]
        BY <2>1, <2>2, <3>2
      <4>2. PICK i \in others :
              dict[k] = rows[i] /\ \A j \in others : Key(rows[j]) = Key(rows[i]) => i <= j
        BY <1>1, <1>4, <2>2
      <4>3. \A j \in places : Key(rows[j]) = Key(rows[i]) => i <= j
        BY <1>3, <3>2, <4>2
      <4> QED BY <4>1, <4>2, <4>3
    <3> QED BY <3>1, <3>2
  <2>6. \A i \in places : \E k \in DOMAIN after : Key(after[k]) = Key(rows[i])
    BY <1>1, <1>3, <1>4, <1>5, <2>2
  <2>7. ASSUME NEW m \in DOMAIN after, NEW k \in DOMAIN after, m < k
        PROVE  \E i \in places : /\ Key(rows[i]) = Key(after[m])
                                 /\ \A j \in places : Key(rows[j]) = Key(after[k]) => j < i
    <3>1. PICK i \in others : /\ Key(rows[i]) = Key(dict[m])
                              /\ \A j \in others : Key(rows[j]) = Key(dict[k]) => j < i
      BY <1>1, <1>4, <2>2, <2>7
    <3>2. \A j \in places : Key(rows[j]) = Key(dict[k]) => j < i
      BY <1>2, <1>3, <3>1
    <3> QED BY <2>2, <3>1, <3>2
  <2> HIDE DEF after
  <2>8. Collapsed(after, rows, places)
    BY <2>4, <2>5, <2>6, <2>7 DEF Collapsed
  <2> QED BY <2>3, <2>8 DEF after
<1>6. CASE ~\E k \in DOMAIN dict : Key(dict[k]) = Key(row)
  <2>1. after = Append(dict, row)
    BY <1>6 DEF Put
  <2>2. after \in Seq(R) /\ DOMAIN after = 1..(n + 1) /\ after[n + 1] = row /\ \A k \in 1..n : after[k] = dict[k]
    BY <1>1, <2>1
  <2> HIDE DEF after
  <2>3. \A k \in DOMAIN after : k \in 1..n \/ k = n + 1
    BY <1>1, <2>2
  <2>4. \A j \in others : Key(rows[j]) # Key(row)
    BY <1>4, <1>6
  <2>5. \A m, k \in DOMAIN after : Key(after[m]) = Key(after[k]) => m = k
    BY <1>1, <1>4, <1>6, <2>2, <2>3
  <2>6. ASSUME NEW k \in DOMAIN after
        PROVE  \E i \in places :
                 after[k] = rows[i] /\ \A j \in places : Key(rows[j]) = Key(rows[i]) => i <= j
    <3>1. CASE k = n + 1
      BY <2>2, <3>1
    <3>2. CASE k \in 1..n
      <4>1. PICK i \in others :
              dict[k] = rows[i] /\ \A j \in others : Key(rows[j]) = Key(rows[i]) => i <= j
        BY <1>1, <1>4, <3>2
      <4>2. \A j \in places : Key(rows[j]) = Key(rows[i]) => i <= j
        BY <1>3, <2>4, <4>1
      <4> QED BY <2>2, <3>2, <4>1, <4>2
    <3> QED BY <2>3, <3>1, <3>2
  <2>7. ASSUME NEW i \in places PROVE \E k \in DOMAIN after : Key(after[k]) = Key(rows[i])
    <3>1. CASE i = first
      BY <1>1, <2>2, <3>1
    <3>2. CASE i \in others
      <4>1. PICK k \in 1..n : Key(dict[k]) = Key(rows[i])
        BY <1>1, <1>4, <3>2
      <4>2. k \in DOMAIN after /\ after[k] = dict[k]
        BY <1>1, <2>2
      <4> QED BY <4>1, <4>2
    <3> QED BY <1>3, <3>1, <3>2
  <2>8. ASSUME NEW m \in DOMAIN after, NEW k \in DOMAIN after, m < k
        PROVE  \E i \in places : /\ Key(rows[i]) = Key(after[m])
                                 /\ \A j \in places : Key(rows[j]) = Key(after[k]) => j < i
    <3>1. m \in 1..n /\ after[m] = dict[m]
      BY <1>1, <2>2, <2>8
    <3>2. CASE k = n + 1
      <4>1. PICK i \in others : dict[m] = rows[i]
        BY <1>1, <1>4, <3>1
      <4>2. \A j \in places : Key(rows[j]) = Key(after[k]) => j < i
        BY <1>2, <1>3, <2>2, <2>4, <3>2
      <4> QED BY <3>1, <4>1, <4>2
    <3>3. CASE k \in 1..n
      <4>1. after[k] = dict[k]
        BY <2>2, <3>3
      <4>2. PICK i \in others : /\ Key(rows[i]) = Key(dict[m])
                                /\ \A j \in others : Key(rows[j]) = Key(dict[k]) => j < i
        BY <1>1, <1>4, <2>8, <3>1, <3>3
      <4>3. \A j \in places : Key(rows[j]) = Key(after[k]) => j < i
        BY <1>3, <1>6, <1>1, <3>3, <4>1, <4>2
      <4> QED BY <3>1, <4>2, <4>3
    <3> QED BY <2>3, <3>2, <3>3
  <2>9. Collapsed(after, rows, places)
    BY <2>5, <2>6, <2>7, <2>8 DEF Collapsed
  <2> QED BY <2>2, <2>9 DEF after
<1> QED BY <1>5, <1>6

\* The fold is over the places, from the last to the first.
IsDict(fold, rows) ==
  fold = [s \in SUBSET DOMAIN rows |-> IF s = {} THEN <<>> ELSE Put(rows[Min(s)], fold[s \ {Min(s)}])]

LEMMA DictExists ==
  ASSUME NEW n \in Nat, NEW rows, DOMAIN rows \subseteq 1..n
  PROVE  \E fold : IsDict(fold, rows)
<1> DEFINE S == DOMAIN rows
           R == {rows[i] : i \in S}
           T == Seq(R)
           pick == [s \in SUBSET S |-> Min(s)]
           step == [i \in S |-> [dict \in T |-> Put(rows[i], dict)]]
<1>1. IsFiniteSet(S)
  <2>1. IsFiniteSet(1..n)
    BY FS_Interval
  <2> QED BY <2>1, FS_Subset
<1>2. Picks(pick, S)
  <2>1. ASSUME NEW s \in SUBSET S, s # {} PROVE Min(s) \in s
    <3>1. s \in SUBSET (1..n)
      OBVIOUS
    <3> QED BY <2>1, <3>1, MinIsOne
  <2> QED BY <2>1 DEF Picks
<1>3. Combines(step, S, T)
  <2>1. ASSUME NEW i \in S, NEW dict \in T PROVE Put(rows[i], dict) \in T
    <3>1. rows[i] \in R /\ dict = [k \in 1..Len(dict) |-> dict[k]] /\ Len(dict) \in Nat
      OBVIOUS
    <3>2. CASE \E k \in DOMAIN dict : Key(dict[k]) = Key(rows[i])
      <4>1. Put(rows[i], dict) = [k \in DOMAIN dict |-> IF Key(dict[k]) = Key(rows[i]) THEN rows[i] ELSE dict[k]]
        BY <3>2 DEF Put
      <4> HIDE DEF R
      <4> QED BY <3>1, <4>1
    <3>3. CASE ~\E k \in DOMAIN dict : Key(dict[k]) = Key(rows[i])
      <4>1. Put(rows[i], dict) = Append(dict, rows[i])
        BY <3>3 DEF Put
      <4> HIDE DEF R
      <4> QED BY <3>1, <4>1
    <3> QED BY <3>2, <3>3
  <2> HIDE DEF T
  <2> QED BY <2>1 DEF Combines
<1>4. <<>> \in T
  OBVIOUS
<1>5. PICK fold : IsFold(fold, S, T, <<>>, step, pick)
  <2> HIDE DEF S, T, pick, step
  <2> QED BY <1>1, <1>2, <1>3, <1>4, FoldExists
<1>6. \A s \in SUBSET S : fold[s] = IF s = {} THEN <<>> ELSE Put(rows[Min(s)], fold[s \ {Min(s)}])
  <2> TAKE s \in SUBSET S
  <2>1. CASE s = {}
    BY <1>5, <2>1 DEF IsFold
  <2>2. CASE s # {}
    <3>1. pick[s] = Min(s) /\ Min(s) \in S /\ s \ {Min(s)} \in SUBSET S
      BY <1>2, <2>2 DEF Picks
    <3> HIDE DEF pick, T, S
    <3>2. fold[s \ {Min(s)}] \in T
      BY <1>5, <3>1 DEF IsFold
    <3>3. fold[s] = step[Min(s)][fold[s \ {Min(s)}]]
      BY <1>5, <2>2, <3>1 DEF IsFold
    <3> QED BY <2>2, <3>1, <3>2, <3>3
  <2> QED BY <2>1, <2>2
<1>7. fold = [s \in SUBSET S |-> fold[s]]
  BY <1>5 DEF IsFold
<1> HIDE DEF T, pick, step
<1>8. IsDict(fold, rows)
  BY <1>6, <1>7 DEF IsDict
<1> QED BY <1>8

\* What is left of any rows.
LEMMA FoldCollapses ==
  ASSUME NEW n \in Nat, NEW rows, DOMAIN rows \subseteq 1..n
  PROVE  LET newest == FoldRight(Put, rows, <<>>) IN
         newest \in Seq({rows[i] : i \in DOMAIN rows}) /\ Collapsed(newest, rows, DOMAIN rows)
<1> DEFINE S == DOMAIN rows
           R == {rows[i] : i \in S}
           dict == CHOOSE fold : IsDict(fold, rows)
           Good == {s \in SUBSET S : dict[s] \in Seq(R) /\ Collapsed(dict[s], rows, s)}
<1>1. FoldRight(Put, rows, <<>>) = dict[S]
  BY DEF FoldRight, MapThenFoldSet, IsDict
<1>2. IsDict(dict, rows)
  BY DictExists
<1> HIDE DEF dict
<1>3. \A s \in SUBSET S : dict[s] = IF s = {} THEN <<>> ELSE Put(rows[Min(s)], dict[s \ {Min(s)}])
  BY <1>2 DEF IsDict
<1>4. {} \in Good
  <2>1. dict[{}] = <<>>
    BY <1>3
  <2>2. DOMAIN dict[{}] = {} /\ dict[{}] \in Seq(R)
    <3> HIDE DEF R
    <3> QED BY <2>1
  <2>3. Collapsed(dict[{}], rows, {})
    BY <2>2 DEF Collapsed
  <2> HIDE DEF R
  <2> QED BY <2>2, <2>3
<1>5. ASSUME NEW s \in SUBSET S, s # {}, \A i \in s : s \ {i} \in Good
      PROVE  s \in Good
  <2> DEFINE first == Min(s)
  <2>1. first \in s /\ \A j \in s : first <= j
    <3>1. s \in SUBSET (1..n)
      OBVIOUS
    <3> QED BY <1>5, <3>1, MinIsOne
  <2>2. dict[s] = Put(rows[first], dict[s \ {first}])
    BY <1>3, <1>5
  <2> HIDE DEF first
  <2>3. dict[s \ {first}] \in Seq(R) /\ Collapsed(dict[s \ {first}], rows, s \ {first})
    BY <1>5, <2>1
  <2>4. rows[first] \in R /\ s \in SUBSET Nat
    BY <2>1
  <2> HIDE DEF R
  <2>5. dict[s] \in Seq(R) /\ Collapsed(dict[s], rows, s)
    BY <2>1, <2>2, <2>3, <2>4, PutCollapses
  <2> QED BY <2>5
<1>6. IsFiniteSet(S)
  <2>1. IsFiniteSet(1..n)
    BY FS_Interval
  <2> QED BY <2>1, FS_Subset
<1>7. \A s \in SUBSET S : s \in Good
  <2> HIDE DEF Good, S
  <2> QED BY <1>4, <1>5, <1>6, PartByPart
<1>8. S \in Good
  BY <1>7
<1> QED BY <1>1, <1>8

\* Of each key of some rows one is shown, that of its first place, counted with
\* all of that key, and the keys in the order of their last places.
Deduped(shown, rows) ==
  /\ \A m, k \in DOMAIN shown : Key(shown[m]) = Key(shown[k]) => m = k
  /\ \A k \in DOMAIN shown : \E i \in DOMAIN rows :
       /\ shown[k].process = rows[i].process /\ Key(shown[k]) = Key(rows[i])
       /\ \A j \in DOMAIN rows : Key(rows[j]) = Key(rows[i]) => i <= j
       /\ shown[k].occurrences = Occurrences(rows, Key(rows[i]))
  /\ \A i \in DOMAIN rows : \E k \in DOMAIN shown : Key(shown[k]) = Key(rows[i])
  /\ \A m, k \in DOMAIN shown : m < k =>
       \E i \in DOMAIN rows : /\ Key(rows[i]) = Key(shown[k])
                               /\ \A j \in DOMAIN rows : Key(rows[j]) = Key(shown[m]) => j < i

LEMMA DedupeRight ==
  ASSUME NEW n \in Nat, NEW rows, DOMAIN rows \subseteq 1..n
  PROVE  Deduped(DedupeFailures(rows), rows)
<1> DEFINE dict == FoldRight(Put, rows, <<>>)
           newest == Reverse(dict)
           shown == DedupeFailures(rows)
           S == DOMAIN rows
           len == Len(dict)
           R == {rows[i] : i \in S}
<1>1. dict \in Seq(R) /\ Collapsed(dict, rows, S)
  BY FoldCollapses
<1>2. len \in Nat /\ DOMAIN dict = 1..len
  <2> HIDE DEF dict, R
  <2> QED BY <1>1
<1>3. newest = [k \in 1..len |-> dict[(len - k) + 1]]
  BY DEF Reverse
<1>4. DOMAIN shown = 1..len
  BY <1>3 DEF DedupeFailures
<1>5. \A k \in 1..len : /\ shown[k].process = dict[(len - k) + 1].process
                         /\ Key(shown[k]) = Key(dict[(len - k) + 1])
                         /\ shown[k].occurrences = Occurrences(rows, Key(dict[(len - k) + 1]))
  BY <1>3 DEF DedupeFailures, Key
<1> HIDE DEF dict, shown, newest, S, len
<1>6. \A k \in 1..len : (len - k) + 1 \in 1..len
  BY <1>2
<1>7. ASSUME NEW m \in 1..len, NEW k \in 1..len, Key(shown[m]) = Key(shown[k]) PROVE m = k
  <2> DEFINE p == (len - m) + 1
             q == (len - k) + 1
  <2>1. p \in DOMAIN dict /\ q \in DOMAIN dict /\ Key(dict[p]) = Key(dict[q])
    BY <1>2, <1>5, <1>6, <1>7
  <2>2. p = q
    <3> HIDE DEF p, q
    <3> QED BY <1>1, <2>1 DEF Collapsed
  <2> QED BY <1>2, <2>2
<1>8. ASSUME NEW k \in 1..len
      PROVE  \E i \in S : /\ shown[k].process = rows[i].process /\ Key(shown[k]) = Key(rows[i])
                          /\ \A j \in S : Key(rows[j]) = Key(rows[i]) => i <= j
                          /\ shown[k].occurrences = Occurrences(rows, Key(rows[i]))
  <2>1. (len - k) + 1 \in DOMAIN dict
    BY <1>2, <1>6
  <2>2. PICK i \in S : dict[(len - k) + 1] = rows[i] /\ \A j \in S : Key(rows[j]) = Key(rows[i]) => i <= j
    BY <1>1, <2>1 DEF Collapsed
  <2> QED BY <1>5, <2>2
<1>9. ASSUME NEW i \in S PROVE \E k \in 1..len : Key(shown[k]) = Key(rows[i])
  <2>1. PICK p \in 1..len : Key(dict[p]) = Key(rows[i])
    BY <1>1, <1>2 DEF Collapsed
  <2>2. (len - p) + 1 \in 1..len /\ (len - ((len - p) + 1)) + 1 = p
    BY <1>2
  <2>3. Key(shown[(len - p) + 1]) = Key(dict[p])
    BY <1>5, <2>2
  <2> QED BY <2>1, <2>2, <2>3
<1>10. ASSUME NEW m \in 1..len, NEW k \in 1..len, m < k
       PROVE  \E i \in S : /\ Key(rows[i]) = Key(shown[k])
                           /\ \A j \in S : Key(rows[j]) = Key(shown[m]) => j < i
  <2> DEFINE p == (len - k) + 1
             q == (len - m) + 1
  <2>1. p \in DOMAIN dict /\ q \in DOMAIN dict /\ p < q
    BY <1>2, <1>10
  <2>2. Key(shown[k]) = Key(dict[p]) /\ Key(shown[m]) = Key(dict[q])
    BY <1>5
  <2> HIDE DEF p, q
  <2>3. PICK i \in S : /\ Key(rows[i]) = Key(dict[p])
                      /\ \A j \in S : Key(rows[j]) = Key(dict[q]) => j < i
    BY <1>1, <2>1 DEF Collapsed
  <2> QED BY <2>2, <2>3
<1> QED BY <1>4, <1>7, <1>8, <1>9, <1>10 DEF S, shown, Deduped

-----------------------------------------------------------------------------
\* The page.

\* Places counted from the other end are as many.
LEMMA FromTheEnd ==
  ASSUME NEW n \in Nat, NEW S \in SUBSET (1..n), NEW T, T = {(n + 1) - i : i \in S}
  PROVE  IsFiniteSet(S) /\ Cardinality(S) = Cardinality(T)
<1> DEFINE f == [i \in S |-> (n + 1) - i]
<1>1. IsFiniteSet(S)
  <2>1. IsFiniteSet(1..n)
    BY FS_Interval
  <2> QED BY <2>1, FS_Subset
<1>2. f \in Bijection(S, T)
  <2>1. f \in [S -> T] /\ \A t \in T : \E i \in S : f[i] = t
    OBVIOUS
  <2>2. ASSUME NEW i \in S, NEW j \in S, f[i] = f[j] PROVE i = j
    <3>1. i \in Int /\ j \in Int /\ (n + 1) - i = (n + 1) - j
      BY <2>2
    <3> QED BY <3>1
  <2> HIDE DEF f
  <2>3. DOMAIN f = S
    BY <2>1
  <2> QED BY <2>1, <2>2, <2>3 DEF Bijection, Injection, Surjection, IsInjective
<1>3. ExistsBijection(S, T)
  BY <1>2 DEF ExistsBijection
<1> QED BY <1>1, <1>3, FS_Bijection

Process == [workflow : Workflow, subscription : Subscription \cup {NoSubscription},
            status : {"running", "failed", "completed"}]
TypeOK ==
  /\ processes \in Seq(Process)
  /\ panel.shown \in BOOLEAN

\* The places on the page whose row stays.
RowPlaces == DOMAIN RestrictValues(FailuresPage, OfLiveSubscription)
PanelRows == [n \in RowPlaces |-> ValidationFailureRow((Len(processes) + 1) - n)]

\* They are the failures there are to report.
LEMMA PageRight ==
  ASSUME TypeOK
  PROVE  /\ FetchValidationFailures = DedupeFailures(PanelRows)
         /\ RowPlaces \subseteq 1..Len(processes)
         /\ Relevant \subseteq 1..Len(processes)
         /\ \A n \in 1..Len(processes) : n \in RowPlaces <=> (Len(processes) + 1) - n \in Relevant
<1> DEFINE len == Len(processes)
<1>1. len \in Nat /\ DOMAIN processes = 1..len
  BY DEF TypeOK
<1>2. /\ DOMAIN FailedNewestFirst = {n \in 1..len : (len + 1) - n \in Failed}
      /\ \A n \in DOMAIN FailedNewestFirst : FailedNewestFirst[n] = (len + 1) - n
  <2>1. \A n \in 1..len : (len + 1) - n \in 1..len
    BY <1>1
  <2>2. DOMAIN FailedNewestFirst = {n \in 1..len : HasFailed((len + 1) - n)}
    BY <1>1 DEF FailedNewestFirst, RestrictValues, Restrict
  <2>3. \A n \in DOMAIN FailedNewestFirst : FailedNewestFirst[n] = (len + 1) - n
    BY <1>1, <2>2 DEF FailedNewestFirst, RestrictValues, Restrict
  <2> QED BY <1>1, <2>1, <2>2, <2>3 DEF HasFailed, Failed
<1>3. /\ DOMAIN FailuresPage = {n \in DOMAIN FailedNewestFirst :
                                Cardinality({m \in DOMAIN FailedNewestFirst : m < n}) < PageLimit}
      /\ \A n \in DOMAIN FailuresPage : FailuresPage[n] = (len + 1) - n
  BY <1>2 DEF FailuresPage, RestrictDomain, Restrict
<1>4. ASSUME NEW n \in 1..len
      PROVE  n \in DOMAIN FailuresPage <=> (len + 1) - n \in Reported
  <2> DEFINE before == {m \in DOMAIN FailedNewestFirst : m < n}
             after == {j \in Failed : j > (len + 1) - n}
  <2>1. before \in SUBSET (1..len)
    BY <1>2
  <2>2. after = {(len + 1) - m : m \in before}
    <3>1. \A m \in before : (len + 1) - m \in after
      BY <1>1, <1>2
    <3>2. ASSUME NEW j \in after PROVE (len + 1) - j \in before /\ (len + 1) - ((len + 1) - j) = j
      <4>1. j \in 1..len
        BY <1>1 DEF Failed
      <4>2. (len + 1) - j \in 1..len /\ (len + 1) - ((len + 1) - j) = j /\ (len + 1) - j < n
        BY <1>1, <4>1
      <4> QED BY <1>2, <4>2
    <3> QED BY <3>1, <3>2
  <2>3. Cardinality(before) = Cardinality(after)
    <3> HIDE DEF before, after
    <3> QED BY <1>1, <2>1, <2>2, FromTheEnd
  <2> QED BY <1>2, <1>3, <2>3 DEF Reported
<1>5. RowPlaces = {n \in DOMAIN FailuresPage : OfLiveSubscription((len + 1) - n)}
  BY <1>3 DEF RowPlaces, RestrictValues, Restrict
<1>6. ASSUME NEW n \in 1..len PROVE n \in RowPlaces <=> (len + 1) - n \in Relevant
  BY <1>4, <1>5 DEF Relevant, OfLiveSubscription
<1>7. RowPlaces \subseteq 1..len
  BY <1>2, <1>3, <1>5
<1>8. FetchValidationFailures = DedupeFailures(PanelRows)
  <2> DEFINE rows == RestrictValues(FailuresPage, OfLiveSubscription)
  <2>1. \A n \in DOMAIN rows : rows[n] = (len + 1) - n
    BY <1>3 DEF RestrictValues, Restrict
  <2>2. DOMAIN rows = RowPlaces
    BY DEF RowPlaces
  <2>3. FetchValidationFailures = DedupeFailures([n \in DOMAIN rows |-> ValidationFailureRow(rows[n])])
    BY DEF FetchValidationFailures
  <2> HIDE DEF rows
  <2>4. [n \in DOMAIN rows |-> ValidationFailureRow(rows[n])] = PanelRows
    BY <2>1, <2>2 DEF PanelRows
  <2> QED BY <2>3, <2>4
<1>9. Relevant \subseteq 1..len
  BY <1>1 DEF Relevant, Reported, Failed
<1> QED BY <1>6, <1>7, <1>8, <1>9

\* What the rows shown are, in terms of the processes.
Report(rows) ==
  /\ \A m, k \in DOMAIN rows : Key(rows[m]) = Key(rows[k]) => m = k
  /\ \A k \in DOMAIN rows : \E i \in Relevant :
       /\ rows[k].process = i /\ Key(rows[k]) = Key(processes[i])
       /\ \A j \in Relevant : Key(processes[j]) = Key(processes[i]) => j <= i
       /\ rows[k].occurrences = Cardinality({j \in Relevant : Key(processes[j]) = Key(processes[i])})
  /\ \A i \in Relevant : \E k \in DOMAIN rows : Key(rows[k]) = Key(processes[i])
  /\ \A m, k \in DOMAIN rows : m < k =>
       \E i \in Relevant : /\ Key(processes[i]) = Key(rows[k])
                           /\ \A j \in Relevant : Key(processes[j]) = Key(rows[m]) => i < j

LEMMA RowsShown ==
  ASSUME TypeOK, NEW rows, rows = FetchValidationFailures
  PROVE  Report(rows)
<1> DEFINE len == Len(processes)
           P(i) == (len + 1) - i
           S == RowPlaces
<1>1. len \in Nat
  BY DEF TypeOK
<1>2. /\ S \subseteq 1..len /\ Relevant \subseteq 1..len
      /\ \A n \in 1..len : n \in S <=> P(n) \in Relevant
      /\ rows = DedupeFailures(PanelRows)
  BY PageRight
<1>3. \A n \in 1..len : P(n) \in 1..len /\ P(P(n)) = n
  BY <1>1
<1>4. DOMAIN PanelRows = S /\ \A n \in S : PanelRows[n].process = P(n) /\ Key(PanelRows[n]) = Key(processes[P(n)])
  BY DEF PanelRows, ValidationFailureRow, Key
<1>5. \A i, j \in 1..len : (i <= j <=> P(j) <= P(i)) /\ (i < j <=> P(j) < P(i))
  BY <1>1
<1> HIDE DEF P, S
<1>6. \A n \in S : P(n) \in Relevant
  BY <1>2
<1>7. \A i \in Relevant : P(i) \in S /\ Key(PanelRows[P(i)]) = Key(processes[i]) /\ P(P(i)) = i
  BY <1>2, <1>3, <1>4
<1>8. /\ \A m, k \in DOMAIN rows : Key(rows[m]) = Key(rows[k]) => m = k
      /\ \A k \in DOMAIN rows : \E i \in S :
           /\ rows[k].process = PanelRows[i].process /\ Key(rows[k]) = Key(PanelRows[i])
           /\ \A j \in S : Key(PanelRows[j]) = Key(PanelRows[i]) => i <= j
           /\ rows[k].occurrences = Occurrences(PanelRows, Key(PanelRows[i]))
      /\ \A i \in S : \E k \in DOMAIN rows : Key(rows[k]) = Key(PanelRows[i])
      /\ \A m, k \in DOMAIN rows : m < k =>
           \E i \in S : /\ Key(PanelRows[i]) = Key(rows[k])
                        /\ \A j \in S : Key(PanelRows[j]) = Key(rows[m]) => j < i
  <2> HIDE DEF len
  <2>1. DOMAIN PanelRows \subseteq 1..len
    BY <1>2, <1>4
  <2>2. Deduped(rows, PanelRows)
    BY <1>1, <1>2, <2>1, DedupeRight
  <2> QED BY <1>4, <2>2 DEF Deduped
<1>9. ASSUME NEW k \in DOMAIN rows
      PROVE  \E i \in Relevant :
               /\ rows[k].process = i /\ Key(rows[k]) = Key(processes[i])
               /\ \A j \in Relevant : Key(processes[j]) = Key(processes[i]) => j <= i
               /\ rows[k].occurrences = Cardinality({j \in Relevant : Key(processes[j]) = Key(processes[i])})
  <2>1. PICK i \in S : /\ rows[k].process = PanelRows[i].process /\ Key(rows[k]) = Key(PanelRows[i])
                      /\ \A j \in S : Key(PanelRows[j]) = Key(PanelRows[i]) => i <= j
                      /\ rows[k].occurrences = Occurrences(PanelRows, Key(PanelRows[i]))
    BY <1>8
  <2>2. P(i) \in Relevant /\ rows[k].process = P(i) /\ Key(rows[k]) = Key(processes[P(i)])
    BY <1>4, <1>6, <2>1
  <2>3. ASSUME NEW j \in Relevant, Key(processes[j]) = Key(processes[P(i)]) PROVE j <= P(i)
    <3>1. P(j) \in S /\ Key(PanelRows[P(j)]) = Key(PanelRows[i]) /\ P(P(j)) = j
      BY <1>4, <1>7, <2>3
    <3>2. i <= P(j) /\ i \in 1..len /\ P(j) \in 1..len
      BY <1>2, <2>1, <3>1
    <3>3. P(P(j)) <= P(i)
      BY <1>5, <3>2
    <3> QED BY <3>1, <3>3
  <2>4. Occurrences(PanelRows, Key(PanelRows[i]))
          = Cardinality({j \in Relevant : Key(processes[j]) = Key(processes[P(i)])})
    <3> DEFINE there == {p \in S : Key(PanelRows[p]) = Key(PanelRows[i])}
               same == {j \in Relevant : Key(processes[j]) = Key(processes[P(i)])}
    <3>1. \A p \in there : P(p) \in same
      BY <1>4, <1>6
    <3>2. \A j \in same : P(j) \in there /\ P(P(j)) = j
      BY <1>4, <1>7
    <3>3. same = {P(p) : p \in there}
      <4> HIDE DEF same, there
      <4> QED BY <3>1, <3>2
    <3>4. there \in SUBSET (1..len)
      BY <1>2
    <3>5. Cardinality(there) = Cardinality(same)
      <4> HIDE DEF same, there
      <4> QED BY <1>1, <3>3, <3>4, FromTheEnd DEF P
    <3>6. Occurrences(PanelRows, Key(PanelRows[i])) = Cardinality(there)
      BY <1>4 DEF Occurrences
    <3> QED BY <3>5, <3>6
  <2> QED BY <2>1, <2>2, <2>3, <2>4
<1>10. ASSUME NEW i \in Relevant PROVE \E k \in DOMAIN rows : Key(rows[k]) = Key(processes[i])
  BY <1>7, <1>8
<1>11. ASSUME NEW m \in DOMAIN rows, NEW k \in DOMAIN rows, m < k
       PROVE  \E i \in Relevant : /\ Key(processes[i]) = Key(rows[k])
                                  /\ \A j \in Relevant : Key(processes[j]) = Key(rows[m]) => i < j
  <2>1. PICK i \in S : /\ Key(PanelRows[i]) = Key(rows[k])
                      /\ \A j \in S : Key(PanelRows[j]) = Key(rows[m]) => j < i
    BY <1>8, <1>11
  <2>2. P(i) \in Relevant /\ Key(processes[P(i)]) = Key(rows[k])
    BY <1>4, <1>6, <2>1
  <2>3. ASSUME NEW j \in Relevant, Key(processes[j]) = Key(rows[m]) PROVE P(i) < j
    <3>1. P(j) < i /\ P(P(j)) = j /\ P(j) \in S
      BY <1>7, <2>1, <2>3
    <3>2. i \in 1..len /\ P(j) \in 1..len
      BY <1>2, <3>1
    <3>3. P(i) < P(P(j))
      BY <1>5, <3>1, <3>2
    <3> QED BY <3>1, <3>3
  <2> QED BY <2>2, <2>3
<1> QED BY <1>8, <1>9, <1>10, <1>11 DEF Report

-----------------------------------------------------------------------------
\* The panel.

\* It shows what is to be reported now.
IInv ==
  /\ TypeOK
  /\ IF panel.shown THEN panel.rows = FetchValidationFailures ELSE panel = NoPanel

LEMMA IInvInit == Init => IInv
BY DEF Init, IInv, TypeOK, NoPanel

LEMMA IInvNext == IInv /\ [Next]_vars => IInv'
<1> SUFFICES ASSUME IInv, [Next]_vars PROVE IInv'
  OBVIOUS
<1>1. processes \in Seq(Process) /\ panel.shown \in BOOLEAN
  BY DEF IInv, TypeOK
<1>2. ASSUME processes' \in Seq(Process), panel' = NoPanel PROVE IInv'
  BY <1>2 DEF IInv, TypeOK, NoPanel
<1>3. ASSUME UNCHANGED <<processes, terminated>> PROVE FetchValidationFailures' = FetchValidationFailures
  BY <1>3 DEF FetchValidationFailures, FailuresPage, FailedNewestFirst, HasFailed, OfLiveSubscription,
                  ValidationFailureRow, RestrictValues, RestrictDomain, Restrict
<1>4. CASE UNCHANGED vars
  BY <1>1, <1>3, <1>4 DEF vars, IInv, TypeOK
<1>5. ASSUME NEW w \in Workflow, NEW s \in Subscription \cup {NoSubscription}, Start(w, s) PROVE IInv'
  <2>1. [workflow |-> w, subscription |-> s, status |-> "running"] \in Process
    BY DEF Process
  <2>2. processes' \in Seq(Process)
    BY <1>1, <1>5, <2>1 DEF Start
  <2> QED BY <1>2, <1>5, <2>2 DEF Start
<1>6. ASSUME NEW i \in DOMAIN processes, NEW status \in {"running", "failed", "completed"},
             processes' = [processes EXCEPT ![i].status = status]
      PROVE  processes' \in Seq(Process)
  <2>1. processes[i] \in Process
    BY <1>1
  <2>2. [processes[i] EXCEPT !.status = status] \in Process
    BY <2>1 DEF Process
  <2> QED BY <1>1, <1>6, <2>2
<1>7. ASSUME NEW i \in DOMAIN processes, Finish(i, "failed") \/ Finish(i, "completed") \/ Resume(i) PROVE IInv'
  BY <1>2, <1>6, <1>7 DEF Finish, Resume
<1>8. ASSUME NEW s \in Subscription, Terminate(s) PROVE IInv'
  BY <1>1, <1>2, <1>8 DEF Terminate
<1>9. CASE ShowPanel
  BY <1>1, <1>3, <1>9 DEF ShowPanel, IInv, TypeOK
<1> QED BY <1>4, <1>5, <1>7, <1>8, <1>9 DEF Next

\* Each problem there is has its one row, whatever came between its failures:
\* dedupe_failures on the rows fetch_validation_failures leaves.
THEOREM OneRowEachProblem == Spec => []OneRowPerProblem
<1>1. ASSUME IInv, panel.shown PROVE OneRowPerProblem
  <2> DEFINE rows == panel.rows
             Same(i) == {j \in Relevant : Key(processes[j]) = Key(processes[i])}
  <2>1. /\ \A m, k \in DOMAIN rows : Key(rows[m]) = Key(rows[k]) => m = k
        /\ \A k \in DOMAIN rows : \E i \in Relevant :
             /\ rows[k].process = i /\ Key(rows[k]) = Key(processes[i])
             /\ \A j \in Relevant : Key(processes[j]) = Key(processes[i]) => j <= i
             /\ rows[k].occurrences = Cardinality(Same(i))
        /\ \A i \in Relevant : \E k \in DOMAIN rows : Key(rows[k]) = Key(processes[i])
    BY <1>1, RowsShown DEF IInv, Report
  <2>2. ASSUME NEW i \in Relevant
        PROVE  \E n \in DOMAIN rows :
                 /\ {m \in DOMAIN rows : Key(rows[m]) = Key(processes[i])} = {n}
                 /\ rows[n].process \in Same(i) /\ \A j \in Same(i) : j <= rows[n].process
                 /\ rows[n].occurrences = Cardinality(Same(i))
    <3>1. PICK n \in DOMAIN rows : Key(rows[n]) = Key(processes[i])
      BY <2>1
    <3>2. PICK newest \in Relevant :
            /\ rows[n].process = newest /\ Key(rows[n]) = Key(processes[newest])
            /\ \A j \in Relevant : Key(processes[j]) = Key(processes[newest]) => j <= newest
            /\ rows[n].occurrences = Cardinality(Same(newest))
      BY <2>1
    <3>3. Same(newest) = Same(i) /\ newest \in Same(i) /\ \A j \in Same(i) : j <= newest
      BY <3>1, <3>2
    <3>4. {m \in DOMAIN rows : Key(rows[m]) = Key(processes[i])} = {n}
      BY <2>1, <3>1
    <3> HIDE DEF Same, rows
    <3> QED BY <3>2, <3>3, <3>4
  <2>3. \A n \in DOMAIN rows : rows[n].process \in Relevant
    BY <2>1
  <2> QED BY <2>2, <2>3 DEF OneRowPerProblem
<1>2. ASSUME IInv, ~panel.shown PROVE OneRowPerProblem
  BY <1>2 DEF OneRowPerProblem
<1>3. IInv => OneRowPerProblem
  BY <1>1, <1>2
<1> QED BY <1>3, IInvInit, IInvNext, PTL DEF Spec

\* A failure is off the panel only if PageLimit later ones are there: the limit in
\* VALIDATION_FAILURES_QUERY, before the filter in fetch_validation_failures.
THEOREM FailuresSurface == Spec => []NewFailuresSurface
<1>1. ASSUME IInv, panel.shown PROVE NewFailuresSurface
  <2>1. ASSUME NEW i \in Failed,
               processes[i].subscription \notin terminated,
               ~(Cardinality({j \in Failed : j > i}) >= PageLimit)
        PROVE  \E n \in DOMAIN panel.rows : Key(panel.rows[n]) = Key(processes[i])
    <3> DEFINE later == {j \in Failed : j > i}
    <3>1. IsFiniteSet(later)
      <4>1. Len(processes) \in Nat /\ later \subseteq 1..Len(processes)
        BY <1>1 DEF IInv, TypeOK, Failed
      <4>2. IsFiniteSet(1..Len(processes))
        BY <4>1, FS_Interval
      <4> QED BY <4>1, <4>2, FS_Subset
    <3>2. Cardinality(later) \in Nat
      BY <3>1, FS_CardinalityType
    <3>3. i \in Relevant
      BY <2>1, <3>2, FailuresAssumption DEF Relevant, Reported
    <3> QED BY <1>1, <3>3, RowsShown DEF IInv, Report
  <2> QED BY <2>1 DEF NewFailuresSurface
<1>2. ASSUME IInv, ~panel.shown PROVE NewFailuresSurface
  BY <1>2 DEF NewFailuresSurface
<1>3. IInv => NewFailuresSurface
  BY <1>1, <1>2
<1> QED BY <1>3, IInvInit, IInvNext, PTL DEF Spec

\* What has just broken stands above what was failing before: an entry of the dict
\* is newer than every entry before it was when that was first written, and the
\* reversal turns that about.
THEOREM NewFailuresAbove == Spec => []NewProblemsAbove
<1>1. ASSUME IInv, panel.shown PROVE NewProblemsAbove
  <2> DEFINE rows == panel.rows
  <2>1. Report(rows)
    BY <1>1, RowsShown DEF IInv
  <2>2. \A k \in DOMAIN rows : \E i \in Relevant : rows[k].process = i /\ Key(rows[k]) = Key(processes[i])
    BY <2>1 DEF Report
  <2>3. \A m, k \in DOMAIN rows : m < k =>
          \E i \in Relevant : /\ Key(processes[i]) = Key(rows[k])
                              /\ \A j \in Relevant : Key(processes[j]) = Key(rows[m]) => i < j
    BY <2>1 DEF Report
  <2>4. \A m, k \in DOMAIN rows : m < k =>
          \E i \in Relevant : Key(processes[i]) = Key(rows[k]) /\ i < rows[m].process
    <3> HIDE DEF rows
    <3> QED BY <2>2, <2>3
  <2> QED BY <2>4 DEF NewProblemsAbove
<1>2. ASSUME IInv, ~panel.shown PROVE NewProblemsAbove
  BY <1>2 DEF NewProblemsAbove
<1>3. IInv => NewProblemsAbove
  BY <1>1, <1>2
<1> QED BY <1>3, IInvInit, IInvNext, PTL DEF Spec

\* No check of one subscription has failed twice on the page.
NoRepeats == \A i, j \in Relevant : Key(processes[i]) = Key(processes[j]) => i = j

\* The docstring of dedupe_failures is right of a page on which no problem repeats:
\* the rows are newest first, and a repeated problem is the only way to another order.
THEOREM NewestFirstUnlessRepeated == Spec => [](NoRepeats => NewestFirst)
<1>1. ASSUME IInv, panel.shown, NoRepeats PROVE NewestFirst
  <2> DEFINE rows == panel.rows
  <2>1. Report(rows)
    BY <1>1, RowsShown DEF IInv
  <2>2. \A k \in DOMAIN rows : \E i \in Relevant : rows[k].process = i /\ Key(rows[k]) = Key(processes[i])
    BY <2>1 DEF Report
  <2>3. \A m, k \in DOMAIN rows : m < k =>
          \E i \in Relevant : /\ Key(processes[i]) = Key(rows[k])
                              /\ \A j \in Relevant : Key(processes[j]) = Key(rows[m]) => i < j
    BY <2>1 DEF Report
  <2>4. Relevant \subseteq Int
    BY <1>1, DOMAIN processes = 1..Len(processes) DEF Relevant, Reported, Failed, IInv, TypeOK
  <2>5. ASSUME NEW m \in DOMAIN rows, NEW n \in DOMAIN rows, m < n
        PROVE  rows[m].process > rows[n].process
    <3>1. PICK i \in Relevant : /\ Key(processes[i]) = Key(rows[n])
                               /\ \A j \in Relevant : Key(processes[j]) = Key(rows[m]) => i < j
      BY <2>3, <2>5
    <3>2. rows[m].process \in Relevant /\ Key(processes[rows[m].process]) = Key(rows[m])
      BY <2>2
    <3>3. rows[n].process = i
      BY <1>1, <2>2, <3>1 DEF NoRepeats
    <3> HIDE DEF rows
    <3> QED BY <2>4, <3>1, <3>2, <3>3
  <2> QED BY <2>5 DEF NewestFirst
<1>2. ASSUME IInv, ~panel.shown PROVE NewestFirst
  BY <1>2 DEF IInv, NoPanel, NewestFirst
<1>3. IInv => (NoRepeats => NewestFirst)
  BY <1>1, <1>2
<1> QED BY <1>3, IInvInit, IInvNext, PTL DEF Spec
=============================================================================
