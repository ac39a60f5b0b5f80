------------------------ MODULE ApiService_proofs ------------------------
(***************************************************************************)
(* Proofs about ApiService, for any requests, processes, inputs and        *)
(* matchings.                                                              *)
(*                                                                         *)
(* Matching first: that every answer of the algorithms is what IsBest and  *)
(* IsGrouping ask for, whatever the scores, headings, tables and rows.  A  *)
(* fold over the rows is followed with the least row at which it would     *)
(* fail to group them (Least).                                             *)
(*                                                                         *)
(* Then the service.  Control says how far a request can be and that those *)
(* that ended stay as they are.  RowsInv says of a save what SavesAreWhole *)
(* says, from its commit on, and that every row, and every row somebody    *)
(* has read, was made by a request that got past its INSERT: so no INSERT  *)
(* brings back what was edited or deleted.  NamesKept says of an edit,     *)
(* from its commit on, that its rows show its name, or another edit that   *)
(* is not earlier has committed one.  SessionsKept says of a session what  *)
(* LostSessionHasCause says, before anybody misses it.                     *)
(***************************************************************************)
EXTENDS Integers, ApiService, WellFoundedInduction, TLAPS

-----------------------------------------------------------------------------
(* Least and greatest *)

LEMMA Least ==
    ASSUME NEW S \in SUBSET Nat, S # {}
    PROVE  \E x \in S: \A y \in S: x <= y
<1> DEFINE R == OpToRel(<, Nat)
<1>1. IsWellFoundedOn(R, Nat)
  BY NatLessThanWellFounded
<1>2. \A x, y \in S: <<y, x>> \in R <=> y < x
  BY DEF OpToRel
<1> HIDE DEF R
<1>3. PICK x \in S: \A y \in S: ~(<<y, x>> \in R)
  BY <1>1, WFMin
<1>4. \A y \in S: ~(y < x)
  BY <1>2, <1>3
<1> QED
  BY <1>4

LEMMA Greatest ==
    ASSUME NEW n \in Nat, NEW S \in SUBSET (0 .. n), S # {}
    PROVE  \E x \in S: \A y \in S: y <= x
<1> DEFINE D == {n - y: y \in S}
<1>1. D \in SUBSET Nat /\ D # {}
  <2>1. \A y \in S: n - y \in Nat
    OBVIOUS
  <2> QED
    BY <2>1
<1>2. PICK d \in D: \A e \in D: d <= e
  <2> HIDE DEF D
  <2> QED
    BY <1>1, Least
<1>3. PICK x \in S: d = n - x
  OBVIOUS
<1>4. ASSUME NEW y \in S PROVE y <= x
  <2>1. d <= n - y
    BY <1>2
  <2> QED
    BY <1>3, <2>1
<1> QED
  BY <1>4

LEMMA MinIs ==
    ASSUME NEW S \in SUBSET Nat, S # {}
    PROVE  Min(S) \in S /\ \A y \in S: Min(S) <= y
BY Least DEF Min

-----------------------------------------------------------------------------
(* The best match *)

LEMMA FirstExactIs ==
    ASSUME NEW s \in Seq(BOOLEAN)
    PROVE  /\ FirstExact(s) = NoMatch => \A i \in DOMAIN s: ~s[i]
           /\ FirstExact(s) # NoMatch => FirstExact(s) \in DOMAIN s /\ s[FirstExact(s)]
<1> DEFINE I == {i \in 1 .. Len(s): s[i]}
<1>1. FirstExact(s) = IF I # {} THEN Min(I) ELSE 0
  BY DEF SelectInSeq, FirstExact
<1>2. I \in SUBSET Nat /\ 0 \notin I
  OBVIOUS
<1>3. CASE I = {}
  BY <1>1, <1>3 DEF NoMatch
<1>4. CASE I # {}
  <2>1. Min(I) \in I
    BY <1>2, <1>4, MinIs
  <2> QED
    BY <1>1, <1>2, <1>4, <2>1 DEF NoMatch
<1> QED
  BY <1>3, <1>4

LEMMA ItemIn ==
    ASSUME NEW S, NEW s \in Seq(S), NEW i \in DOMAIN s
    PROVE  s[i] \in S
OBVIOUS

LEMMA ScoreIs ==
    ASSUME NEW scores \in Seq(0 .. 100), NEW i \in DOMAIN scores
    PROVE  scores[i] \in 0 .. 100 /\ scores[i] \in Nat
<1>1. scores[i] \in 0 .. 100
  BY ItemIn
<1>2. \A x \in 0 .. 100: x \in Nat
  OBVIOUS
<1> QED
  BY <1>1, <1>2, Zenon

LEMMA ExtractOneIs ==
    ASSUME NEW scores \in Seq(0 .. 100), NEW cutoff \in Nat
    PROVE  LET n == ExtractOne(scores, cutoff)
           IN  /\ n = NoMatch => \A i \in DOMAIN scores: scores[i] < cutoff
               /\ n # NoMatch => /\ n \in DOMAIN scores /\ scores[n] >= cutoff
                                 /\ \A i \in DOMAIN scores: scores[i] <= scores[n]
<1> DEFINE best == {i \in DOMAIN scores:
                        /\ scores[i] >= cutoff
                        /\ \A j \in DOMAIN scores: scores[i] >= scores[j]}
<1>1. ExtractOne(scores, cutoff) = IF best = {} THEN NoMatch ELSE Min(best)
  BY DEF ExtractOne
<1>2. best \in SUBSET Nat /\ NoMatch \notin best
  BY DEF NoMatch
<1>3. CASE best = {}
  <2>1. ASSUME NEW i \in DOMAIN scores, scores[i] >= cutoff PROVE FALSE
    <3> DEFINE S == {scores[j]: j \in DOMAIN scores}
    <3>1. S \in SUBSET (0 .. 100) /\ S # {}
      BY <2>1, ScoreIs
    <3>2. PICK x \in S: \A y \in S: y <= x
      <4> HIDE DEF S
      <4> QED
        BY <3>1, Greatest
    <3>3. PICK k \in DOMAIN scores: x = scores[k]
      OBVIOUS
    <3>4. \A j \in DOMAIN scores: scores[j] <= scores[k]
      BY <3>2, <3>3
    <3>5. scores[k] >= cutoff
      BY <2>1, <3>4, ScoreIs
    <3>6. k \in best
      BY <3>4, <3>5, ScoreIs
    <3> QED
      BY <3>6, <1>3
  <2> QED
    BY <1>1, <1>3, <2>1, ScoreIs
<1>4. CASE best # {}
  <2>1. Min(best) \in best
    BY <1>2, <1>4, MinIs
  <2> HIDE DEF best
  <2>2. ExtractOne(scores, cutoff) = Min(best) /\ Min(best) # NoMatch
    BY <1>1, <1>2, <1>4, <2>1
  <2> QED
    BY <2>1, <2>2 DEF best
<1> QED
  BY <1>3, <1>4

LEMMA FuzzyIsBest ==
    ASSUME NEW column, NEW cutoff \in Nat,
           column.name \in Seq(0 .. 100), column.id \in Seq(0 .. 100),
           \A i \in DOMAIN column.exact: ~column.exact[i]
    PROVE  IsBest(column, cutoff, Fuzzy(column, cutoff))
<1> DEFINE n == ExtractOne(column.name, cutoff)
           d == ExtractOne(column.id, cutoff)
           a == Fuzzy(column, cutoff)
           scores == {<<i, column.name[i]>>: i \in DOMAIN column.name}
                         \union {<<i, column.id[i]>>: i \in DOMAIN column.id}
<1>1. /\ n = NoMatch => \A i \in DOMAIN column.name: column.name[i] < cutoff
      /\ n # NoMatch => /\ n \in DOMAIN column.name /\ column.name[n] >= cutoff
                        /\ \A i \in DOMAIN column.name: column.name[i] <= column.name[n]
  BY ExtractOneIs
<1>2. /\ d = NoMatch => \A i \in DOMAIN column.id: column.id[i] < cutoff
      /\ d # NoMatch => /\ d \in DOMAIN column.id /\ column.id[d] >= cutoff
                        /\ \A i \in DOMAIN column.id: column.id[i] <= column.id[d]
  BY ExtractOneIs
<1>3. a = IF n # NoMatch /\ (d = NoMatch \/ column.name[n] >= column.id[d])
              THEN Answer(n, column.name[n], "fuzzy")
          ELSE IF d # NoMatch THEN Answer(d, column.id[d], "fuzzy")
          ELSE Unmatched
  BY DEF Fuzzy
<1>4. /\ \A i \in DOMAIN column.name: column.name[i] \in Nat
      /\ \A i \in DOMAIN column.id: column.id[i] \in Nat
  BY ScoreIs
<1>5. /\ a.method # "exact"
      /\ a.method = "fuzzy" => /\ <<a.field, a.confidence>> \in scores
                               /\ a.confidence >= cutoff
                               /\ \A s \in scores: s[2] <= a.confidence
      /\ a.method # "fuzzy" => \A s \in scores: s[2] < cutoff
  <2> HIDE DEF n, d, a
  <2>1. CASE n # NoMatch /\ (d = NoMatch \/ column.name[n] >= column.id[d])
    <3>1. a.field = n /\ a.confidence = column.name[n] /\ a.method = "fuzzy"
      BY <1>3, <2>1 DEF Answer
    <3>2. \A i \in DOMAIN column.id: column.id[i] <= column.name[n]
      BY <1>1, <1>2, <1>4, <2>1
    <3>3. \A s \in scores: s[2] <= column.name[n]
      BY <1>1, <2>1, <3>2
    <3> QED
      BY <1>1, <2>1, <3>1, <3>3
  <2>2. CASE ~(n # NoMatch /\ (d = NoMatch \/ column.name[n] >= column.id[d])) /\ d # NoMatch
    <3>1. a.field = d /\ a.confidence = column.id[d] /\ a.method = "fuzzy"
      BY <1>3, <2>2 DEF Answer
    <3>2. \A i \in DOMAIN column.name: column.name[i] <= column.id[d]
      BY <1>1, <1>2, <1>4, <2>2
    <3>3. \A s \in scores: s[2] <= column.id[d]
      BY <1>2, <2>2, <3>2
    <3> QED
      BY <1>2, <2>2, <3>1, <3>3
  <2>3. CASE n = NoMatch /\ d = NoMatch
    <3>1. a.method = "unmatched"
      BY <1>3, <2>3 DEF Answer, Unmatched
    <3> QED
      BY <1>1, <1>2, <2>3, <3>1
  <2> QED
    BY <2>1, <2>2, <2>3
<1> HIDE DEF a, scores
<1> QED
  BY <1>5 DEF IsBest, a, scores

\* fuzzy_match_columns answers with the best match, for any column and threshold.
THEOREM MatchColumnIsBest ==
    ASSUME NEW column, NEW cutoff \in Nat,
           column.name \in Seq(0 .. 100), column.id \in Seq(0 .. 100),
           column.exact \in Seq(BOOLEAN)
    PROVE  IsBest(column, cutoff, MatchColumn(column, cutoff))
<1>1. CASE FirstExact(column.exact) = NoMatch
  BY <1>1, FirstExactIs, FuzzyIsBest DEF MatchColumn
<1>2. CASE FirstExact(column.exact) # NoMatch
  BY <1>2, FirstExactIs DEF MatchColumn, Answer, IsBest
<1> QED
  BY <1>1, <1>2

\* find_best_target_name does so too, among names only; an empty one it leaves alone.
THEOREM BestTargetNameIsBest ==
    ASSUME NEW column, NEW cutoff \in Nat,
           column.name \in Seq(0 .. 100), column.id = <<>>, column.exact \in Seq(BOOLEAN),
           column.empty \in BOOLEAN
    PROVE  IsBestName(column, cutoff, BestTargetName(column, cutoff))
<1>1. ExtractOne(column.id, cutoff) = NoMatch
  BY DEF ExtractOne
<1>2. CASE column.empty
  BY <1>2 DEF BestTargetName, IsBestName, Unmatched, Answer
<1>3. CASE ~column.empty
  <2>1. BestTargetName(column, cutoff) = MatchColumn(column, cutoff)
    BY <1>1, <1>3 DEF BestTargetName, MatchColumn, Fuzzy
  <2>2. column.id \in Seq(0 .. 100)
    OBVIOUS
  <2> QED
    BY <1>3, <2>1, <2>2, MatchColumnIsBest DEF IsBestName
<1> QED
  BY <1>2, <1>3


-----------------------------------------------------------------------------
(* Grouping *)

\* What the proofs call the type and the suggestion of row n.
Kind(in, n) == TypeOf(in.headings, in.rows[n])
Target(in, n) == SuggestType(Kind(in, n), in.table, in.scores)
NRows(in) == Len(in.rows)

\* groups is how the grouping stands after each of the first k rows.
IsRun(in, k, groups) ==
    groups = [n \in 0 .. k |->
                IF n = 0 THEN <<>> ELSE AddRow(groups[n - 1], Kind(in, n), n, Target(in, n))]

LEMMA RunExists ==
    ASSUME NEW in, NEW k \in Nat
    PROVE  \E groups: IsRun(in, k, groups)
<1> DEFINE Bad == {n \in Nat: ~ \E groups: IsRun(in, n, groups)}
<1> SUFFICES ASSUME Bad # {} PROVE FALSE
  OBVIOUS
<1>1. PICK n \in Bad: \A m \in Bad: n <= m
  <2>1. Bad \in SUBSET Nat
    OBVIOUS
  <2> HIDE DEF Bad
  <2> QED
    BY <2>1, Least
<1>2. n # 0
  <2>1. IsRun(in, 0, [i \in 0 .. 0 |-> <<>>])
    BY DEF IsRun
  <2> QED
    BY <2>1
<1>3. n - 1 \in Nat /\ n - 1 \notin Bad
  BY <1>1, <1>2
<1>4. PICK g: IsRun(in, n - 1, g)
  BY <1>3
<1> DEFINE h == [i \in 0 .. n |-> IF i < n THEN g[i]
                                  ELSE AddRow(g[n - 1], Kind(in, n), n, Target(in, n))]
<1>5. ASSUME NEW i \in 0 .. n
      PROVE  h[i] = IF i = 0 THEN <<>> ELSE AddRow(h[i - 1], Kind(in, i), i, Target(in, i))
  <2>1. CASE i = n
    <3>1. h[n] = AddRow(g[n - 1], Kind(in, n), n, Target(in, n)) /\ h[n - 1] = g[n - 1]
      BY <1>2, <1>3
    <3> QED
      BY <2>1, <3>1, <1>2
  <2>2. CASE i # n
    <3>1. i \in 0 .. n - 1
      BY <2>2, <1>3
    <3>2. g[i] = IF i = 0 THEN <<>> ELSE AddRow(g[i - 1], Kind(in, i), i, Target(in, i))
      BY <3>1, <1>4 DEF IsRun
    <3>3. h[i] = g[i] /\ (i # 0 => h[i - 1] = g[i - 1])
      BY <3>1, <1>3
    <3> QED
      BY <3>2, <3>3
  <2> QED
    BY <2>1, <2>2
<1>6. IsRun(in, n, h)
  <2> DEFINE e == [i \in 0 .. n |-> IF i = 0 THEN <<>>
                                    ELSE AddRow(h[i - 1], Kind(in, i), i, Target(in, i))]
  <2>1. \A i \in 0 .. n: h[i] = e[i]
    BY <1>5
  <2>2. h = [i \in 0 .. n |-> h[i]] /\ e = [i \in 0 .. n |-> e[i]]
    OBVIOUS
  <2> HIDE DEF h, e
  <2>3. h = e
    BY <2>1, <2>2
  <2> QED
    BY <2>3 DEF IsRun, e
<1> QED
  BY <1>6

\* The recursive function of GroupRows is such a run.
LEMMA GroupRowsRuns ==
    ASSUME NEW in
    PROVE  NRows(in) \in Nat =>
               \E groups: IsRun(in, NRows(in), groups) /\ GroupRows(in) = groups[NRows(in)]
<1> SUFFICES ASSUME NRows(in) \in Nat
             PROVE  \E groups: /\ IsRun(in, NRows(in), groups)
                               /\ GroupRows(in) = groups[NRows(in)]
  OBVIOUS
<1> DEFINE g == CHOOSE groups: IsRun(in, NRows(in), groups)
<1>1. IsRun(in, NRows(in), g)
  BY RunExists
<1>2. GroupRows(in) = g[NRows(in)]
  BY DEF GroupRows, IsRun, Kind, Target, NRows
<1> QED
  BY <1>1, <1>2


Group(in) == [source: {Kind(in, n): n \in 1 .. NRows(in)},
              target: {Target(in, n): n \in 1 .. NRows(in)}, accounts: Seq(Nat)]

\* The accounts of a group are the rows of its type among the first k.
Holds(in, k, g) ==
    /\ \A n \in 1 .. k: Kind(in, n) = g.source => \E i \in DOMAIN g.accounts: g.accounts[i] = n
    /\ \A i \in DOMAIN g.accounts: g.accounts[i] \in 1 .. k /\ Kind(in, g.accounts[i]) = g.source
    /\ \A i, j \in DOMAIN g.accounts: i < j => g.accounts[i] < g.accounts[j]
    /\ g.accounts # <<>>
    /\ g.source \in DOMAIN in.table => g.target.field = in.table[g.source]

\* What the grouping is after k rows.
Grouped(in, k, groups) ==
    /\ groups \in Seq(Group(in))
    /\ \A n \in 1 .. k: \E g \in DOMAIN groups: groups[g].source = Kind(in, n)
    /\ \A g, h \in DOMAIN groups: g < h =>
            /\ groups[g].source # groups[h].source
            /\ groups[g].accounts[1] < groups[h].accounts[1]
    /\ \A g \in DOMAIN groups: Holds(in, k, groups[g])

LEMMA FirstOf ==
    ASSUME NEW S, NEW groups \in Seq(S), NEW type
    PROVE  LET here == SelectInSeq(groups, LAMBDA g: g.source = type)
           IN  /\ here = 0 => \A g \in DOMAIN groups: groups[g].source # type
               /\ here # 0 => here \in DOMAIN groups /\ groups[here].source = type
<1> DEFINE I == {i \in 1 .. Len(groups): groups[i].source = type}
           here == SelectInSeq(groups, LAMBDA g: g.source = type)
<1>1. here = IF I # {} THEN Min(I) ELSE 0
  BY DEF SelectInSeq
<1>2. I \in SUBSET Nat /\ 0 \notin I
  OBVIOUS
<1>3. I # {} => Min(I) \in I
  BY <1>2, MinIs
<1> HIDE DEF here
<1>4. /\ here = 0 => \A g \in DOMAIN groups: groups[g].source # type
      /\ here # 0 => here \in DOMAIN groups /\ groups[here].source = type
  BY <1>1, <1>2, <1>3
<1> QED
  BY <1>4 DEF here

LEMMA Appended ==
    ASSUME NEW S, NEW s \in Seq(S), NEW x \in S
    PROVE  /\ Append(s, x) \in Seq(S)
           /\ DOMAIN Append(s, x) = 1 .. Len(s) + 1
           /\ DOMAIN s = 1 .. Len(s) /\ Len(s) \in Nat
           /\ \A i \in DOMAIN s: Append(s, x)[i] = s[i]
           /\ Append(s, x)[Len(s) + 1] = x
OBVIOUS

LEMMA Replaced ==
    ASSUME NEW S, NEW s \in Seq(S), NEW i \in DOMAIN s, NEW x \in S
    PROVE  [s EXCEPT ![i] = x] \in Seq(S)
OBVIOUS

LEMMA TargetIs ==
    ASSUME NEW in, NEW n
    PROVE  Kind(in, n) \in DOMAIN in.table => Target(in, n).field = in.table[Kind(in, n)]
BY DEF Target, SuggestType, Answer

LEMMA RowGrouped ==
    ASSUME NEW in, NEW k \in Nat, k < NRows(in), NRows(in) \in Nat,
           NEW groups, Grouped(in, k, groups)
    PROVE  Grouped(in, k + 1, AddRow(groups, Kind(in, k + 1), k + 1, Target(in, k + 1)))
<1> DEFINE type == Kind(in, k + 1)
           target == Target(in, k + 1)
           here == SelectInSeq(groups, LAMBDA g: g.source = type)
           next == AddRow(groups, type, k + 1, target)
<1>1. k + 1 \in 1 .. NRows(in) /\ \A n \in 1 .. k + 1: n \in 1 .. k \/ n = k + 1
  OBVIOUS
<1>2. groups \in Seq(Group(in)) /\ DOMAIN groups = 1 .. Len(groups) /\ Len(groups) \in Nat
  BY DEF Grouped
<1>3. /\ here = 0 => \A g \in DOMAIN groups: groups[g].source # type
      /\ here # 0 => here \in DOMAIN groups /\ groups[here].source = type
  BY <1>2, FirstOf
<1>4. \A g \in DOMAIN groups: /\ groups[g] \in Group(in) /\ groups[g].accounts \in Seq(Nat)
                              /\ 1 \in DOMAIN groups[g].accounts
                              /\ Holds(in, k, groups[g])
                              /\ groups[g].accounts[1] \in 1 .. k
  <2> TAKE g \in DOMAIN groups
  <2>1. groups[g] \in Group(in) /\ Holds(in, k, groups[g])
    BY <1>2, ItemIn DEF Grouped
  <2>2. groups[g].accounts \in Seq(Nat) /\ groups[g].accounts # <<>>
    BY <2>1 DEF Group, Holds
  <2>3. 1 \in DOMAIN groups[g].accounts
    BY <2>2
  <2> QED
    BY <2>1, <2>2, <2>3 DEF Holds
<1>5. type \in DOMAIN in.table => target.field = in.table[type]
  BY TargetIs
<1>6. /\ type \in {Kind(in, n): n \in 1 .. NRows(in)}
      /\ target \in {Target(in, n): n \in 1 .. NRows(in)}
  BY <1>1
<1>7. \A g \in DOMAIN groups: groups[g].source # type => Holds(in, k + 1, groups[g])
  BY <1>1, <1>4 DEF Holds
<1> HIDE DEF type, target
<1>8. CASE here = 0
  <2> DEFINE new == [source |-> type, target |-> target, accounts |-> <<k + 1>>]
  <2>1. next = Append(groups, new)
    BY <1>8 DEF AddRow
  <2>2. new \in Group(in)
    BY <1>6 DEF Group
  <2>3. /\ next \in Seq(Group(in))
        /\ DOMAIN next = 1 .. Len(groups) + 1
        /\ \A i \in DOMAIN groups: next[i] = groups[i]
        /\ next[Len(groups) + 1] = new
    <3> HIDE DEF new, next
    <3>1. groups \in Seq(Group(in))
      BY <1>2
    <3> QED
      BY <2>1, <2>2, <3>1, Appended
  <2>4. Holds(in, k + 1, new)
    <3>1. \A n \in 1 .. k: Kind(in, n) # type
      BY <1>3, <1>8 DEF Grouped
    <3>2. DOMAIN new.accounts = {1} /\ new.accounts[1] = k + 1 /\ new.accounts # <<>>
      OBVIOUS
    <3>3. new.source = type /\ new.target = target /\ Kind(in, k + 1) = type
      BY DEF type
    <3> HIDE DEF new
    <3> QED
      BY <1>1, <1>5, <3>1, <3>2, <3>3 DEF Holds
  <2>5. \A g \in DOMAIN next: g \in DOMAIN groups \/ g = Len(groups) + 1
    BY <1>2, <2>3
  <2>6. Len(groups) + 1 \in DOMAIN next /\ DOMAIN groups \subseteq DOMAIN next
    BY <1>2, <2>3
  <2>7. new.source = type /\ new.accounts[1] = k + 1
    OBVIOUS
  <2> HIDE DEF new, next, here
  <2>8. \A n \in 1 .. k + 1: \E g \in DOMAIN next: next[g].source = Kind(in, n)
    BY <1>1, <2>3, <2>6, <2>7 DEF Grouped, type
  <2>9. ASSUME NEW g \in DOMAIN next, NEW h \in DOMAIN next, g < h
        PROVE  next[g].source # next[h].source /\ next[g].accounts[1] < next[h].accounts[1]
    <3>1. g \in DOMAIN groups
      BY <1>2, <2>3, <2>9
    <3>2. CASE h \in DOMAIN groups
      BY <2>3, <2>9, <3>1, <3>2 DEF Grouped
    <3>3. CASE h = Len(groups) + 1
      BY <1>3, <1>4, <1>8, <2>3, <2>7, <3>1, <3>3
    <3> QED
      BY <2>5, <3>2, <3>3
  <2>10. \A g \in DOMAIN next: Holds(in, k + 1, next[g])
    BY <1>3, <1>7, <1>8, <2>3, <2>4, <2>5
  <2> QED
    BY <2>3, <2>8, <2>9, <2>10 DEF Grouped, next, type, target
<1>9. CASE here # 0
  <2> DEFINE old == groups[here]
             new == [old EXCEPT !.accounts = Append(@, k + 1)]
  <2>1. next = [groups EXCEPT ![here] = new]
    BY <1>9 DEF AddRow
  <2>2. here \in DOMAIN groups /\ old \in Group(in) /\ old.source = type
        /\ old.accounts \in Seq(Nat) /\ Holds(in, k, old)
    BY <1>3, <1>4, <1>9
  <2>3. /\ new.source = old.source /\ new.target = old.target
        /\ new.accounts = Append(old.accounts, k + 1) /\ new \in Group(in)
    <3> HIDE DEF old
    <3>1. Append(old.accounts, k + 1) \in Seq(Nat)
      BY <2>2
    <3>2. \A a \in Seq(Nat): LET g == [old EXCEPT !.accounts = a]
                             IN  /\ g.source = old.source /\ g.target = old.target
                                 /\ g.accounts = a /\ g \in Group(in)
      BY <2>2 DEF Group
    <3> QED
      BY <3>1, <3>2
  <2>4. /\ new.accounts \in Seq(Nat)
        /\ DOMAIN new.accounts = 1 .. Len(old.accounts) + 1
        /\ DOMAIN old.accounts = 1 .. Len(old.accounts) /\ Len(old.accounts) \in Nat
        /\ \A i \in DOMAIN old.accounts: new.accounts[i] = old.accounts[i]
        /\ new.accounts[Len(old.accounts) + 1] = k + 1
    <3> HIDE DEF old, new
    <3>1. old.accounts \in Seq(Nat) /\ k + 1 \in Nat /\ new.accounts = Append(old.accounts, k + 1)
      BY <2>2, <2>3
    <3> QED
      BY <3>1, Appended
  <2>5. next \in Seq(Group(in)) /\ DOMAIN next = DOMAIN groups
    <3> HIDE DEF new, next
    <3>1. groups \in Seq(Group(in)) /\ here \in DOMAIN groups /\ new \in Group(in)
      BY <1>2, <2>2, <2>3
    <3> HIDE DEF here
    <3>2. [groups EXCEPT ![here] = new] \in Seq(Group(in))
      BY <3>1, Replaced
    <3> QED
      BY <2>1, <3>2
  <2>6. next[here] = new /\ \A g \in DOMAIN groups: g # here => next[g] = groups[g]
    BY <2>1, <2>2
  <2> HIDE DEF new, next, here
  <2>7. \A g \in DOMAIN groups: /\ next[g].source = groups[g].source
                                /\ next[g].accounts[1] = groups[g].accounts[1]
    <3> TAKE g \in DOMAIN groups
    <3>1. CASE g = here
      BY <1>4, <2>3, <2>4, <2>6, <3>1
    <3>2. CASE g # here
      BY <2>6, <3>2
    <3> QED
      BY <3>1, <3>2
  <2>8. \A n \in 1 .. k + 1: \E g \in DOMAIN next: next[g].source = Kind(in, n)
    BY <1>1, <2>2, <2>5, <2>7, ZenonT(40) DEF Grouped, type
  <2>9. \A g, h \in DOMAIN next: g < h => /\ next[g].source # next[h].source
                                          /\ next[g].accounts[1] < next[h].accounts[1]
    BY <2>5, <2>7 DEF Grouped
  <2>10. Holds(in, k + 1, new)
    <3>1. \A i \in DOMAIN new.accounts: i \in DOMAIN old.accounts \/ i = Len(old.accounts) + 1
      BY <2>4
    <3>2. \A n \in 1 .. k + 1: Kind(in, n) = new.source
              => \E i \in DOMAIN new.accounts: new.accounts[i] = n
      <4> SUFFICES ASSUME NEW n \in 1 .. k + 1, Kind(in, n) = new.source
                   PROVE  \E i \in DOMAIN new.accounts: new.accounts[i] = n
        OBVIOUS
      <4>1. CASE n = k + 1
        <5>1. Len(old.accounts) + 1 \in DOMAIN new.accounts
          BY <2>4
        <5> QED
          BY <2>4, <4>1, <5>1
      <4>2. CASE n \in 1 .. k
        <5>1. PICK i \in DOMAIN old.accounts: old.accounts[i] = n
          BY <2>2, <2>3, <4>2 DEF Holds
        <5>2. i \in DOMAIN new.accounts
          BY <2>4
        <5> QED
          BY <2>4, <5>1, <5>2
      <4> QED
        BY <1>1, <4>1, <4>2
    <3>3. \A i \in DOMAIN new.accounts: /\ new.accounts[i] \in 1 .. k + 1
                                        /\ Kind(in, new.accounts[i]) = new.source
      BY <1>1, <2>2, <2>3, <2>4, <3>1 DEF Holds, type
    <3>4. ASSUME NEW i \in DOMAIN new.accounts, NEW j \in DOMAIN new.accounts, i < j
          PROVE  new.accounts[i] < new.accounts[j]
      <4>1. i \in DOMAIN old.accounts
        BY <2>4, <3>4
      <4>2. CASE j \in DOMAIN old.accounts
        BY <2>2, <2>4, <3>4, <4>1, <4>2 DEF Holds
      <4>3. CASE j = Len(old.accounts) + 1
        <5> HIDE DEF old
        <5>1. old.accounts[i] \in 1 .. k
          BY <2>2, <4>1 DEF Holds
        <5>2. new.accounts[i] = old.accounts[i]
          BY <2>4, <4>1
        <5>3. new.accounts[j] = k + 1
          BY <2>4, <4>3
        <5> QED
          BY <5>1, <5>2, <5>3
      <4> QED
        BY <3>1, <4>2, <4>3
    <3>5. new.accounts # <<>>
      BY <2>4
    <3>6. new.source \in DOMAIN in.table => new.target.field = in.table[new.source]
      BY <2>2, <2>3 DEF Holds
    <3> QED
      BY <3>2, <3>3, <3>4, <3>5, <3>6 DEF Holds
  <2>11. \A g \in DOMAIN next: Holds(in, k + 1, next[g])
    <3> TAKE g \in DOMAIN next
    <3>1. CASE g = here
      BY <2>6, <2>10, <3>1
    <3>2. CASE g # here
      <4>1. groups[g].source # type
        BY <1>2, <2>2, <2>5, <3>2 DEF Grouped
      <4> QED
        BY <1>7, <2>5, <2>6, <3>2, <4>1
    <3> QED
      BY <3>1, <3>2
  <2> QED
    BY <2>5, <2>8, <2>9, <2>11 DEF Grouped, next, type, target
<1> QED
  BY <1>8, <1>9


LEMMA RunIsGrouped ==
    ASSUME NEW in, NRows(in) \in Nat, NEW run, IsRun(in, NRows(in), run)
    PROVE  Grouped(in, NRows(in), run[NRows(in)])
<1> DEFINE N == NRows(in)
           Bad == {k \in 0 .. N: ~Grouped(in, k, run[k])}
<1> SUFFICES ASSUME Bad # {} PROVE FALSE
  OBVIOUS
<1>1. PICK k \in Bad: \A m \in Bad: k <= m
  <2>1. Bad \in SUBSET Nat
    OBVIOUS
  <2> HIDE DEF Bad
  <2> QED
    BY <2>1, Least
<1>2. k \in 0 .. N /\ ~Grouped(in, k, run[k])
  OBVIOUS
<1>3. k # 0
  <2>1. run[0] = <<>>
    BY DEF IsRun
  <2>2. Grouped(in, 0, <<>>)
    BY DEF Grouped
  <2> QED
    BY <1>2, <2>1, <2>2
<1>4. k - 1 \in Nat /\ k - 1 < N /\ k - 1 \in 0 .. N /\ (k - 1) + 1 = k
  BY <1>2, <1>3
<1>5. Grouped(in, k - 1, run[k - 1])
  BY <1>1, <1>4
<1>6. run[k] = AddRow(run[k - 1], Kind(in, k), k, Target(in, k))
  BY <1>2, <1>3 DEF IsRun
<1> HIDE DEF Bad, N
<1>7. Grouped(in, (k - 1) + 1, AddRow(run[k - 1], Kind(in, (k - 1) + 1), (k - 1) + 1,
                                     Target(in, (k - 1) + 1)))
  BY <1>4, <1>5, RowGrouped DEF N
<1> QED
  BY <1>2, <1>4, <1>6, <1>7

LEMMA GroupedIsGrouping ==
    ASSUME NEW in, in.rows \in Seq(Range(in.rows)), NEW groups, Grouped(in, NRows(in), groups)
    PROVE  IsGrouping(in, groups)
<1> DEFINE type(n) == TypeOf(in.headings, in.rows[n])
<1>1. DOMAIN in.rows = 1 .. NRows(in) /\ NRows(in) \in Nat
  BY DEF NRows
<1>2. \A n: type(n) = Kind(in, n)
  BY DEF Kind
<1>3. \A g \in DOMAIN groups: groups[g] \in Group(in)
  BY ItemIn DEF Grouped
<1> HIDE DEF type
<1>4. {groups[g].source: g \in DOMAIN groups} = {type(n): n \in DOMAIN in.rows}
  <2>1. \A g \in DOMAIN groups: \E n \in DOMAIN in.rows: groups[g].source = type(n)
    BY <1>1, <1>2, <1>3 DEF Group
  <2>2. \A n \in DOMAIN in.rows: \E g \in DOMAIN groups: groups[g].source = type(n)
    BY <1>1, <1>2 DEF Grouped
  <2> QED
    BY <2>1, <2>2
<1>5. ASSUME NEW g \in DOMAIN groups
      PROVE  Range(groups[g].accounts) = {n \in DOMAIN in.rows: type(n) = groups[g].source}
  <2>1. Holds(in, NRows(in), groups[g])
    BY DEF Grouped
  <2>2. \A n \in DOMAIN in.rows: type(n) = groups[g].source
            => \E i \in DOMAIN groups[g].accounts: groups[g].accounts[i] = n
    BY <1>1, <1>2, <2>1 DEF Holds
  <2>3. \A i \in DOMAIN groups[g].accounts: /\ groups[g].accounts[i] \in DOMAIN in.rows
                                            /\ type(groups[g].accounts[i]) = groups[g].source
    BY <1>1, <1>2, <2>1 DEF Holds
  <2> QED
    BY <2>2, <2>3 DEF Range
<1> QED
  BY <1>4, <1>5 DEF IsGrouping, Grouped, Holds, type

\* create_hierarchical_mapping makes such a grouping of the rows.
THEOREM GroupRowsIsGrouping ==
    ASSUME NEW in, in.rows \in Seq(Range(in.rows))
    PROVE  IsGrouping(in, GroupRows(in))
<1>1. NRows(in) \in Nat
  BY DEF NRows
<1>2. PICK run: IsRun(in, NRows(in), run) /\ GroupRows(in) = run[NRows(in)]
  BY <1>1, GroupRowsRuns
<1> QED
  BY <1>1, <1>2, RunIsGrouped, GroupedIsGrouping


-----------------------------------------------------------------------------
(* What a step of the service can be *)

Places == {"idle", "project", "check", "insert", "refresh", "load", "write",
           "ok", "not found", "failed"}
OnMatching == {"column", "name", "group"}
OnLoaded == Edits \union {"delete", "delproject"}
Written == {"refresh", "ok", "failed"}

\* Where a request that waits for the database can begin, or end at once.
Begins(in, place) ==
    \/ in.op \in {"newproject", "upload"} /\ place = "project"
    \/ in.op \in Writes /\ place = "check"
    \/ in.op = "upload" /\ place = "failed"
    \/ in.op = "mappings" /\ in.projects = <<>> /\ place = "ok"
    \/ in.op \in OnLoaded /\ place = "load"
    \/ in.op = "bulkedit" /\ place = "ok"

Opening(r, p) ==
    \E in: in.op = "open" /\ SessionAt(r, p, in, "ok",
        [s \in DOMAIN sessions[p] \union {r} |-> IF s = r THEN "pending" ELSE sessions[p][s]])

\* s is the session the request names.
Naming(r, p, s, in, outcome, status) ==
    /\ pc[s] = "ok" /\ req[s].op = "open"
    /\ in.op \in OnSessions /\ in.session = s
    /\ SessionAt(r, p, in, outcome, status)
    /\ outcome = IF s \in DOMAIN sessions[p] THEN "ok" ELSE "not found"
    /\ s \notin DOMAIN sessions[p] => status = sessions[p]
    /\ s \in DOMAIN sessions[p] /\ in.op # "drop" => DOMAIN status = DOMAIN sessions[p]
    /\ in.op = "drop" => DOMAIN status = DOMAIN sessions[p] \ {s}

LEMMA EditedInput ==
    ASSUME NEW i, NEW f, NEW v, "op" \in DOMAIN i, f \in DOMAIN i, f # "op"
    PROVE  LET in == [i EXCEPT ![f] = v] IN in.op = i.op /\ in[f] = v
OBVIOUS

LEMMA NextIs ==
    ASSUME Next
    PROVE  \/ \E r \in Reqs, p \in Replicas: \E in, place:
                  Start(r, p, in, place) /\ Begins(in, place)
           \/ \E r \in Reqs, p \in Replicas: Opening(r, p)
           \/ \E r, s \in Reqs, p \in Replicas: \E in, outcome, status:
                  Naming(r, p, s, in, outcome, status)
           \/ \E r \in Reqs, p \in Replicas, i \in Matchings: AnswerMatch(r, p, i)
           \/ \E r \in Reqs:
                \/ InsertProject(r) \/ FindProject(r) \/ InsertRows(r) \/ Refresh(r) \/ Load(r)
                \/ WriteRows(r) \/ DeleteRow(r) \/ Cascade(r) \/ DatabaseFails(r)
           \/ \E p \in Replicas: Restart(p)
<1>1. ASSUME NEW r \in Reqs, NEW p \in Replicas, NEW i \in Inputs,
             \/ CreateProject(r, p, i) \/ CreateJob(r, p, i) \/ CreateMappings(r, p, i)
             \/ UploadFile(r, p, i) \/ DeleteProject(r, p, i)
      PROVE  \E in, place: Start(r, p, in, place) /\ Begins(in, place)
  <2>1. CASE CreateProject(r, p, i)
    BY <2>1 DEF CreateProject, Begins
  <2>2. CASE CreateJob(r, p, i)
    BY <2>2 DEF CreateJob, Begins, Writes
  <2>3. CASE CreateMappings(r, p, i)
    <3>1. i.projects = <<>> => Start(r, p, i, "ok") /\ Begins(i, "ok")
      BY <2>3 DEF CreateMappings, Begins
    <3>2. i.projects # <<>> => Start(r, p, i, "check") /\ Begins(i, "check")
      BY <2>3 DEF CreateMappings, Begins, Writes
    <3> QED
      BY <3>1, <3>2
  <2>4. CASE UploadFile(r, p, i)
    <3>1. i.op = "upload" /\ \E place \in {"project", "check", "failed"}: Start(r, p, i, place)
      BY <2>4 DEF UploadFile
    <3>2. \A place \in {"project", "check", "failed"}: Begins(i, place)
      BY <3>1 DEF Begins, Writes
    <3> QED
      BY <3>1, <3>2
  <2>5. CASE DeleteProject(r, p, i)
    BY <2>5 DEF DeleteProject, Begins, OnLoaded
  <2> QED
    BY <1>1, <2>1, <2>2, <2>3, <2>4, <2>5
<1>2. ASSUME NEW r \in Reqs, NEW p \in Replicas, NEW i \in Inputs, OnRows(r, p, i)
      PROVE  \E in, place: Start(r, p, in, place) /\ Begins(in, place)
  <2>1. PICK ids: Start(r, p, [i EXCEPT !.ids = ids],
                        IF i.op = "bulkedit" /\ ids = {} THEN "ok" ELSE "load")
    BY <1>2 DEF OnRows
  <2> DEFINE in == [i EXCEPT !.ids = ids]
  <2>2. i.op \in Edits \union {"delete"} /\ in.op = i.op
    <3>1. i.op \in Edits \union {"delete"} /\ "op" \in DOMAIN i /\ "ids" \in DOMAIN i
      BY <1>2, InputsAssumption DEF OnRows
    <3> QED
      BY <3>1, EditedInput
  <2>3. Begins(in, IF i.op = "bulkedit" /\ ids = {} THEN "ok" ELSE "load")
    <3> HIDE DEF in
    <3> QED
      BY <2>2 DEF Begins, OnLoaded, Edits
  <2> QED
    BY <2>1, <2>3
<1>3. ASSUME NEW r \in Reqs, NEW p \in Replicas, NEW i \in Inputs, OpenSession(r, p, i)
      PROVE  Opening(r, p)
  BY <1>3 DEF OpenSession, Opening
<1>4. ASSUME NEW r \in Reqs, NEW p \in Replicas, NEW i \in Inputs, OnSession(r, p, i)
      PROVE  \E s \in Reqs: \E in, outcome, status: Naming(r, p, s, in, outcome, status)
  <2> DEFINE known == sessions[p]
             in(s) == [i EXCEPT !.session = s]
  <2>1. PICK s \in {q \in Reqs: pc[q] = "ok" /\ req[q].op = "open"}:
            IF s \notin DOMAIN known THEN SessionAt(r, p, in(s), "not found", known)
            ELSE SessionAt(r, p, in(s), "ok",
                CASE i.op = "save" -> [known EXCEPT ![s] = "mapped"]
                  [] i.op = "export" -> [known EXCEPT ![s] = "exported"]
                  [] OTHER -> [t \in DOMAIN known \ {s} |-> known[t]])
    BY <1>4 DEF OnSession
  <2>2. i.op \in OnSessions /\ in(s).op = i.op /\ in(s).session = s
    <3>1. i.op \in OnSessions /\ "op" \in DOMAIN i /\ "session" \in DOMAIN i
      BY <1>4, InputsAssumption DEF OnSession
    <3> QED
      BY <3>1, EditedInput
  <2> HIDE DEF in
  <2>3. CASE s \notin DOMAIN known
    <3>1. Naming(r, p, s, in(s), "not found", known)
      BY <2>1, <2>2, <2>3 DEF Naming
    <3> QED
      BY <3>1
  <2>4. CASE s \in DOMAIN known
    <3> DEFINE status == CASE i.op = "save" -> [known EXCEPT ![s] = "mapped"]
                           [] i.op = "export" -> [known EXCEPT ![s] = "exported"]
                           [] OTHER -> [t \in DOMAIN known \ {s} |-> known[t]]
    <3>1. /\ i.op # "drop" => DOMAIN status = DOMAIN known
          /\ i.op = "drop" => DOMAIN status = DOMAIN known \ {s}
      BY <2>2 DEF OnSessions
    <3>2. SessionAt(r, p, in(s), "ok", status)
      BY <2>1, <2>4
    <3> HIDE DEF status
    <3>3. Naming(r, p, s, in(s), "ok", status)
      BY <2>1, <2>2, <2>4, <3>1, <3>2 DEF Naming
    <3> QED
      BY <3>3
  <2> QED
    BY <2>3, <2>4
<1> QED
  BY <1>1, <1>2, <1>3, <1>4 DEF Next


-----------------------------------------------------------------------------
(* Control *)

Domains ==
    /\ DOMAIN req = Reqs /\ DOMAIN at = Reqs /\ DOMAIN pc = Reqs
    /\ DOMAIN loaded = Reqs /\ DOMAIN answer = Reqs /\ DOMAIN before = Reqs
    /\ DOMAIN same = Reqs /\ DOMAIN wrote = Reqs
    /\ DOMAIN sessions = Replicas

\* How far a request can be, by what it asks for.
Controlled(r) ==
    /\ pc[r] \in Places
    /\ pc[r] = "idle" <=> req[r].op = "none"
    /\ pc[r] \in {"idle", "load"} => loaded[r] = {} /\ same[r] = {}
    /\ pc[r] \notin Written => wrote[r] = {}
    /\ pc[r] = "project" => req[r].op \in {"newproject", "upload"}
    /\ pc[r] \in {"check", "insert"} => req[r].op \in Writes
    /\ pc[r] = "refresh" => req[r].op \in Writes \union OnLoaded \union {"newproject"}
    /\ pc[r] \in {"load", "write"} => req[r].op \in OnLoaded
    /\ req[r].op \in OnSessions \union OnMatching \union {"open"} => Ended(r)
    /\ \A q \in before[r]: q \in Reqs /\ Ended(q)

Control == Domains /\ \A r \in Reqs: Controlled(r)

\* What no step takes from a request.
Kept(q) ==
    /\ pc[q] # "idle" => /\ req'[q] = req[q] /\ at'[q] = at[q] /\ before'[q] = before[q]
                         /\ answer'[q] = answer[q] /\ pc'[q] # "idle"
    /\ Ended(q) => pc'[q] = pc[q] /\ loaded'[q] = loaded[q]
    /\ pc[q] \in Written => wrote'[q] = wrote[q] /\ pc'[q] \in Written

\* A step of request r alone, which is at place.
Steps(r, place) ==
    /\ pc[r] = place /\ ~Ended(r) /\ place # "idle"
    /\ \E to \in Places \ {"idle"}:
            /\ pc' = [pc EXCEPT ![r] = to]
            /\ place = "refresh" => to \in Written
            /\ wrote' = wrote \/ /\ place = "write" /\ to = "refresh"
                                 /\ \E ids: wrote' = [wrote EXCEPT ![r] = ids]
    /\ loaded' = loaded \/ \E ids: loaded' = [loaded EXCEPT ![r] = ids]
    /\ same' = same \/ \E ids: same' = [same EXCEPT ![r] = ids]
    /\ UNCHANGED <<sessions, req, at, answer, restarted, before>>

LEMMA ActionSteps ==
    ASSUME NEW r \in Reqs,
           \/ InsertProject(r) \/ FindProject(r) \/ InsertRows(r) \/ Refresh(r) \/ Load(r)
           \/ WriteRows(r) \/ DeleteRow(r) \/ Cascade(r) \/ DatabaseFails(r)
    PROVE  \E place: Steps(r, place)
<1>1. CASE InsertProject(r)
  <2>1. Steps(r, "project")
    BY <1>1 DEF InsertProject, Steps, Goto, Ended, Places, Written
  <2> QED
    BY <2>1
<1>2. CASE FindProject(r)
  <2>1. Steps(r, "check")
    BY <1>2 DEF FindProject, Steps, Goto, Ended, Places, Written
  <2> QED
    BY <2>1
<1>3. CASE InsertRows(r)
  <2>1. Steps(r, "insert")
    BY <1>3 DEF InsertRows, Steps, Goto, Ended, Places, Written
  <2> QED
    BY <2>1
<1>4. CASE Refresh(r)
  <2>1. Steps(r, "refresh")
    BY <1>4 DEF Refresh, Steps, Goto, Ended, Places, Written
  <2> QED
    BY <2>1
<1>5. CASE Load(r)
  <2>1. Steps(r, "load")
    BY <1>5 DEF Load, Steps, Goto, Ended, Places, Written
  <2> QED
    BY <2>1
<1>6. CASE WriteRows(r)
  <2>1. Steps(r, "write")
    BY <1>6 DEF WriteRows, Steps, Goto, Ended, Places, Written
  <2> QED
    BY <2>1
<1>7. CASE DeleteRow(r)
  <2>1. Steps(r, "write")
    BY <1>7 DEF DeleteRow, Steps, Goto, Ended, Places, Written
  <2> QED
    BY <2>1
<1>8. CASE Cascade(r)
  <2>1. Steps(r, "write")
    BY <1>8 DEF Cascade, Steps, Goto, Ended, Places, Written
  <2> QED
    BY <2>1
<1>9. CASE DatabaseFails(r)
  <2>1. Steps(r, pc[r])
    BY <1>9 DEF DatabaseFails, Steps, Goto, Ended, Places, Written
  <2> QED
    BY <2>1
<1> QED
  BY <1>1, <1>2, <1>3, <1>4, <1>5, <1>6, <1>7, <1>8, <1>9

\* What the beginning of request r leaves alone.
LEMMA BeginKeeps ==
    ASSUME Domains, NEW r \in Reqs, NEW p, NEW in, NEW place, Begin(r, p, in, place)
    PROVE  /\ pc[r] = "idle" /\ pc'[r] = place /\ req'[r] = in /\ at'[r] = p
           /\ before'[r] = {q \in Reqs: Ended(q)}
           /\ \A q \in Reqs \ {r}: /\ pc'[q] = pc[q] /\ req'[q] = req[q] /\ at'[q] = at[q]
                                   /\ before'[q] = before[q]
           /\ DOMAIN req' = Reqs /\ DOMAIN at' = Reqs /\ DOMAIN pc' = Reqs /\ DOMAIN before' = Reqs
BY DEF Begin, Domains, Goto

\* What the matching endpoints are asked and answer.
Answered(in, a) ==
    a = CASE in.op = "column" -> MatchColumn(in.column, in.cutoff)
          [] in.op = "name" -> BestTargetName(in.column, in.cutoff)
          [] OTHER -> GroupRows(in)

\* The kinds of step as far as control goes.
Beginning(r, p, in, place) ==
    /\ Begin(r, p, in, place)
    /\ \/ Begins(in, place)
       \/ in.op = "open" /\ place = "ok"
       \/ in.op \in OnSessions /\ place \in {"ok", "not found"}
       \/ in.op \in OnMatching /\ place = "ok"
    /\ sessions' = sessions \/ \E status: sessions' = [sessions EXCEPT ![p] = status]
    /\ IF in.op \in OnMatching
       THEN \E a: answer' = [answer EXCEPT ![r] = a] /\ Answered(in, a) /\ in \in Matchings
       ELSE answer' = answer
    /\ UNCHANGED <<loaded, same, wrote, restarted>>

LEMMA MatchingBegins ==
    ASSUME NEW r \in Reqs, NEW p \in Replicas, NEW i \in Matchings, AnswerMatch(r, p, i)
    PROVE  Beginning(r, p, i, "ok")
<1> DEFINE a == CASE i.op = "column" -> MatchColumn(i.column, i.cutoff)
                  [] i.op = "name" -> BestTargetName(i.column, i.cutoff)
                  [] OTHER -> GroupRows(i)
<1>1. answer' = [answer EXCEPT ![r] = a]
  BY DEF AnswerMatch
<1>2. Answered(i, a)
  BY DEF Answered
<1>3. i.op \in OnMatching
  BY MatchingsAssumption DEF OnMatching
<1> HIDE DEF a
<1> QED
  BY <1>1, <1>2, <1>3 DEF AnswerMatch, Beginning

LEMMA NextControls ==
    ASSUME Next
    PROVE  \/ \E r \in Reqs, p \in Replicas: \E in, place: Beginning(r, p, in, place)
           \/ \E r \in Reqs:
                \/ InsertProject(r) \/ FindProject(r) \/ InsertRows(r) \/ Refresh(r) \/ Load(r)
                \/ WriteRows(r) \/ DeleteRow(r) \/ Cascade(r) \/ DatabaseFails(r)
           \/ \E p \in Replicas: Restart(p)
<1>1. ASSUME NEW r \in Reqs, NEW p \in Replicas, NEW in, NEW place,
             Start(r, p, in, place), Begins(in, place)
      PROVE  Beginning(r, p, in, place)
  BY <1>1 DEF Start, Beginning, Begins, OnMatching, Writes, OnLoaded, Edits
<1>2. ASSUME NEW r \in Reqs, NEW p \in Replicas, Opening(r, p)
      PROVE  \E in, place: Beginning(r, p, in, place)
  <2>1. PICK in: in.op = "open" /\ SessionAt(r, p, in, "ok",
            [s \in DOMAIN sessions[p] \union {r} |-> IF s = r THEN "pending" ELSE sessions[p][s]])
    BY <1>2 DEF Opening
  <2>2. Beginning(r, p, in, "ok")
    BY <2>1 DEF SessionAt, Beginning, OnMatching
  <2> QED
    BY <2>2
<1>3. ASSUME NEW r \in Reqs, NEW p \in Replicas, NEW s, NEW in, NEW outcome, NEW status,
             Naming(r, p, s, in, outcome, status)
      PROVE  Beginning(r, p, in, outcome)
  BY <1>3 DEF Naming, SessionAt, Beginning, OnMatching, OnSessions
<1> QED
  BY <1>1, <1>2, <1>3, MatchingBegins, NextIs

LEMMA Frame ==
    ASSUME Control, [Next]_vars
    PROVE  (\A q \in Reqs: Kept(q)) /\ restarted \subseteq restarted'
<1>1. ASSUME NEW r \in Reqs, NEW p \in Replicas, NEW in, NEW place, Beginning(r, p, in, place)
      PROVE  (\A q \in Reqs: Kept(q)) /\ restarted \subseteq restarted'
  <2>1. Domains /\ Begin(r, p, in, place)
    BY <1>1 DEF Beginning, Control
  <2>2. ASSUME NEW q \in Reqs \ {r} PROVE answer'[q] = answer[q]
    BY <1>1, <2>1 DEF Beginning, Domains
  <2>3. UNCHANGED <<restarted, loaded, wrote>>
    BY <1>1 DEF Beginning
  <2>4. /\ pc[r] = "idle"
        /\ \A q \in Reqs \ {r}: /\ pc'[q] = pc[q] /\ req'[q] = req[q] /\ at'[q] = at[q]
                                /\ before'[q] = before[q]
    BY <2>1, BeginKeeps
  <2>5. Kept(r)
    BY <2>4 DEF Kept, Ended, Written
  <2>6. ASSUME NEW q \in Reqs \ {r} PROVE Kept(q)
    BY <2>2, <2>3, <2>4 DEF Kept
  <2> QED
    BY <2>3, <2>5, <2>6
<1>2. ASSUME NEW r \in Reqs, NEW place, Steps(r, place)
      PROVE  (\A q \in Reqs: Kept(q)) /\ restarted \subseteq restarted'
  BY <1>2 DEF Steps, Kept, Ended, Control, Domains, Places, Written
<1>3. ASSUME NEW p \in Replicas, Restart(p)
      PROVE  (\A q \in Reqs: Kept(q)) /\ restarted \subseteq restarted'
  BY <1>3 DEF Restart, Kept, Ended, Written
<1>4. CASE UNCHANGED vars
  BY <1>4 DEF vars, Kept, Ended
<1> QED
  BY <1>1, <1>2, <1>3, <1>4, NextControls, ActionSteps


LEMMA ControlInit == Init => Control
BY DEF Init, Control, Controlled, Domains, Places, NoInput, OnSessions, OnMatching

LEMMA ControlStep ==
    ASSUME Control, [Next]_vars
    PROVE  Control'
<1>1. \A q \in Reqs: Kept(q)
  BY Frame
<1>2. ASSUME NEW q \in Reqs,
             UNCHANGED <<pc[q], req[q], loaded[q], same[q], wrote[q], before[q]>>
      PROVE  Controlled(q)'
  <2>1. Controlled(q)
    BY DEF Control
  <2>2. \A b \in before[q]: b \in Reqs /\ Ended(b)'
    BY <1>1, <2>1 DEF Controlled, Kept, Ended
  <2> QED
    BY <1>2, <2>1, <2>2 DEF Controlled, Ended
<1>3. ASSUME NEW r \in Reqs, NEW p \in Replicas, NEW in, NEW place, Beginning(r, p, in, place)
      PROVE  Control'
  <2>1. Domains /\ Begin(r, p, in, place) /\ Controlled(r)
    BY <1>3 DEF Beginning, Control
  <2>2. /\ pc[r] = "idle" /\ pc'[r] = place /\ req'[r] = in
        /\ before'[r] = {q \in Reqs: Ended(q)}
        /\ \A q \in Reqs \ {r}: /\ pc'[q] = pc[q] /\ req'[q] = req[q] /\ before'[q] = before[q]
        /\ DOMAIN req' = Reqs /\ DOMAIN at' = Reqs /\ DOMAIN pc' = Reqs /\ DOMAIN before' = Reqs
    BY <2>1, BeginKeeps
  <2>3. Domains'
    BY <1>3, <2>1, <2>2 DEF Beginning, Domains
  <2>4. UNCHANGED <<loaded, same, wrote>>
    BY <1>3 DEF Beginning
  <2>5. Controlled(r)'
    <3>1. \A b \in before'[r]: b \in Reqs /\ Ended(b)'
      BY <1>1, <2>2 DEF Kept, Ended
    <3>2. loaded'[r] = {} /\ same'[r] = {} /\ wrote'[r] = {}
      BY <2>1, <2>2, <2>4 DEF Controlled, Written
    <3>3. /\ place \in Places \ {"idle"} /\ in.op # "none"
          /\ place = "project" => in.op \in {"newproject", "upload"}
          /\ place \in {"check", "insert"} => in.op \in Writes
          /\ place # "refresh"
          /\ place \in {"load", "write"} => in.op \in OnLoaded
          /\ in.op \in OnSessions \union OnMatching \union {"open"}
                => place \in {"ok", "not found", "failed"}
      BY <1>3 DEF Beginning, Begins, Places, Writes, Edits, OnLoaded, OnSessions, OnMatching
    <3> QED
      BY <2>2, <3>1, <3>2, <3>3 DEF Controlled, Ended
  <2>6. ASSUME NEW q \in Reqs \ {r} PROVE Controlled(q)'
    BY <1>2, <2>2, <2>4
  <2> QED
    BY <2>3, <2>5, <2>6 DEF Control
<1>4. ASSUME NEW r \in Reqs, NEW place, Steps(r, place),
             /\ pc'[r] \in Places \ {"idle"}
             /\ pc'[r] # "load"
             /\ pc'[r] = "project" => req[r].op \in {"newproject", "upload"}
             /\ pc'[r] \in {"check", "insert"} => req[r].op \in Writes
             /\ pc'[r] = "refresh" => req[r].op \in Writes \union OnLoaded \union {"newproject"}
             /\ pc'[r] \in {"load", "write"} => req[r].op \in OnLoaded
      PROVE  Control'
  <2>1. Domains /\ Controlled(r)
    BY DEF Control
  <2>2. Domains'
    BY <1>4, <2>1 DEF Steps, Domains
  <2>3. \A q \in Reqs \ {r}: UNCHANGED <<pc[q], req[q], loaded[q], same[q], wrote[q], before[q]>>
    BY <1>4, <2>1 DEF Steps, Domains
  <2>4. pc'[r] \notin Written => wrote'[r] = {}
    <3>1. PICK to \in Places \ {"idle"}:
            /\ pc' = [pc EXCEPT ![r] = to]
            /\ place = "refresh" => to \in Written
            /\ wrote' = wrote \/ /\ place = "write" /\ to = "refresh"
                                 /\ \E ids: wrote' = [wrote EXCEPT ![r] = ids]
      BY <1>4, Zenon DEF Steps
    <3>2. pc'[r] = to
      BY <2>1, <3>1 DEF Domains
    <3>3. CASE to \in Written
      BY <3>2, <3>3
    <3>4. CASE to \notin Written
      <4>1. wrote' = wrote
        BY <3>1, <3>4 DEF Written
      <4>2. pc[r] \notin Written
        BY <1>4, <3>1, <3>4 DEF Steps, Ended, Written
      <4> QED
        BY <2>1, <4>1, <4>2 DEF Controlled
    <3> QED
      BY <3>3, <3>4
  <2>5. Controlled(r)'
    <3>1. \A b \in before'[r]: b \in Reqs /\ Ended(b)'
      BY <1>1, <1>4, <2>1 DEF Controlled, Kept, Ended, Steps
    <3>2. req[r].op \notin OnSessions \union OnMatching \union {"open"}
      BY <1>4, <2>1 DEF Controlled, Steps
    <3>3. req' = req /\ pc[r] # "idle"
      BY <1>4 DEF Steps
    <3> QED
      BY <1>4, <2>1, <2>4, <3>1, <3>2, <3>3 DEF Controlled
  <2>6. \A q \in Reqs \ {r}: Controlled(q)'
    BY <1>2, <2>3
  <2> QED
    BY <2>2, <2>5, <2>6 DEF Control
<1>5. ASSUME NEW r \in Reqs,
             \/ InsertProject(r) \/ FindProject(r) \/ InsertRows(r) \/ Refresh(r) \/ Load(r)
             \/ WriteRows(r) \/ DeleteRow(r) \/ Cascade(r) \/ DatabaseFails(r)
      PROVE  Control'
  <2>1. PICK place: Steps(r, place)
    BY <1>5, ActionSteps
  <2>2. Controlled(r) /\ DOMAIN pc = Reqs
    BY DEF Control, Domains
  <2>3. /\ pc'[r] \in Places \ {"idle"}
        /\ pc'[r] \notin {"load", "project", "check"}
        /\ pc'[r] = "insert" => \/ pc[r] = "check"
                                \/ pc[r] = "project" /\ req[r].op = "upload"
        /\ pc'[r] = "refresh" => \/ pc[r] \in {"insert", "write"}
                                 \/ pc[r] = "project" /\ req[r].op # "upload"
        /\ pc'[r] = "write" => pc[r] = "load"
    <3>1. CASE InsertProject(r)
      BY <2>2, <3>1 DEF InsertProject, Goto, Places
    <3>2. CASE FindProject(r)
      <4>1. pc[r] = "check" /\ pc'[r] \in {"insert", "failed", "not found"}
        BY <2>2, <3>2 DEF FindProject, Goto
      <4> QED
        BY <4>1 DEF Places
    <3>3. CASE InsertRows(r)
      BY <2>2, <3>3 DEF InsertRows, Goto, Places
    <3>4. CASE Refresh(r)
      BY <2>2, <3>4 DEF Refresh, Goto, Places
    <3>5. CASE Load(r)
      BY <2>2, <3>5 DEF Load, Goto, Places
    <3>6. CASE WriteRows(r)
      BY <2>2, <3>6 DEF WriteRows, Goto, Places
    <3>7. CASE DeleteRow(r)
      BY <2>2, <3>7 DEF DeleteRow, Goto, Places
    <3>8. CASE Cascade(r)
      BY <2>2, <3>8 DEF Cascade, Goto, Places
    <3>9. CASE DatabaseFails(r)
      BY <2>2, <3>9 DEF DatabaseFails, Goto, Places
    <3> QED
      BY <1>5, <3>1, <3>2, <3>3, <3>4, <3>5, <3>6, <3>7, <3>8, <3>9
  <2>4. /\ pc'[r] = "insert" => req[r].op \in Writes
        /\ pc'[r] = "refresh" => req[r].op \in Writes \union OnLoaded \union {"newproject"}
        /\ pc'[r] = "write" => req[r].op \in OnLoaded
    BY <2>2, <2>3 DEF Controlled, Writes
  <2> QED
    BY <1>4, <2>1, <2>3, <2>4
<1>6. ASSUME NEW p \in Replicas, Restart(p)
      PROVE  Control'
  <2>1. Domains'
    BY <1>6 DEF Restart, Control, Domains
  <2>2. ASSUME NEW q \in Reqs PROVE Controlled(q)'
    <3>1. UNCHANGED <<req[q], loaded[q], same[q], wrote[q], before[q]>>
      BY <1>6 DEF Restart
    <3>2. pc'[q] = pc[q] \/ (pc'[q] = "failed" /\ pc[q] # "idle")
      <4>1. pc'[q] = IF at[q] = p /\ ~Ended(q) /\ pc[q] # "idle" THEN "failed" ELSE pc[q]
        BY <1>6 DEF Restart
      <4> QED
        BY <4>1 DEF Ended
    <3>3. CASE pc'[q] = pc[q]
      BY <1>2, <3>1, <3>3
    <3>4. CASE pc'[q] = "failed" /\ pc[q] # "idle"
      <4>1. Controlled(q)
        BY DEF Control
      <4>2. \A b \in before[q]: b \in Reqs /\ Ended(b)'
        BY <1>1, <4>1 DEF Controlled, Kept, Ended
      <4> QED
        BY <3>1, <3>4, <4>1, <4>2 DEF Controlled, Ended, Places, Written
    <3> QED
      BY <3>2, <3>3, <3>4
  <2> QED
    BY <2>1, <2>2 DEF Control
<1>7. CASE UNCHANGED vars
  BY <1>7 DEF vars, Control, Controlled, Domains, Ended
<1>8. CASE Next
  BY <1>3, <1>5, <1>6, <1>8, NextControls
<1> QED
  BY <1>7, <1>8


-----------------------------------------------------------------------------
(* Answers *)

LEMMA AnswersInit == Init => AnswersAreBest
BY DEF Init, AnswersAreBest, Matches, NoInput

LEMMA AnsweredIsBest ==
    ASSUME NEW in \in Matchings, NEW a, Answered(in, a)
    PROVE  IsBestAnswer(in, a)
<1>1. CASE in.op = "column"
  <2>1. a = MatchColumn(in.column, in.cutoff)
    BY <1>1 DEF Answered
  <2> QED
    BY <1>1, <2>1, MatchingsAssumption, MatchColumnIsBest DEF IsBestAnswer
<1>2. CASE in.op = "name"
  <2>1. a = BestTargetName(in.column, in.cutoff)
    BY <1>2 DEF Answered
  <2> QED
    BY <1>2, <2>1, MatchingsAssumption, BestTargetNameIsBest DEF IsBestAnswer
<1>3. CASE in.op = "group"
  <2>1. a = GroupRows(in)
    BY <1>3 DEF Answered
  <2> QED
    BY <1>3, <2>1, MatchingsAssumption, GroupRowsIsGrouping DEF IsBestAnswer
<1> QED
  BY <1>1, <1>2, <1>3, MatchingsAssumption

LEMMA AnswersStep ==
    ASSUME Control, AnswersAreBest, [Next]_vars
    PROVE  AnswersAreBest'
<1> DEFINE Best(r, in, a) == in.op \in OnMatching => IsBestAnswer(in, a)
<1>1. \A r \in Reqs: Best(r, req[r], answer[r])
  BY DEF AnswersAreBest, Matches, OnMatching
<1> SUFFICES \A r \in Reqs: Best(r, req'[r], answer'[r])
  BY DEF AnswersAreBest, Matches, OnMatching
<1>2. ASSUME NEW r \in Reqs, NEW p \in Replicas, NEW in, NEW place, Beginning(r, p, in, place)
      PROVE  \A q \in Reqs: Best(q, req'[q], answer'[q])
  <2>1. Domains /\ Begin(r, p, in, place)
    BY <1>2 DEF Beginning, Control
  <2>2. req'[r] = in /\ \A q \in Reqs \ {r}: req'[q] = req[q]
    BY <2>1, BeginKeeps
  <2>3. \A q \in Reqs \ {r}: answer'[q] = answer[q]
    BY <1>2, <2>1 DEF Beginning, Domains
  <2>4. in.op \in OnMatching => in \in Matchings /\ Answered(in, answer'[r])
    BY <1>2, <2>1 DEF Beginning, Domains
  <2>5. Best(r, in, answer'[r])
    BY <2>4, AnsweredIsBest
  <2> HIDE DEF Best
  <2> QED
    BY <1>1, <2>2, <2>3, <2>5
<1>3. ASSUME UNCHANGED <<req, answer>> PROVE \A q \in Reqs: Best(q, req'[q], answer'[q])
  BY <1>1, <1>3
<1> HIDE DEF Best
<1>4. ASSUME NEW r \in Reqs, NEW place, Steps(r, place) PROVE UNCHANGED <<req, answer>>
  BY <1>4 DEF Steps
<1>5. ASSUME NEW p \in Replicas, Restart(p) PROVE UNCHANGED <<req, answer>>
  BY <1>5 DEF Restart
<1>6. CASE UNCHANGED vars
  BY <1>3, <1>6 DEF vars
<1>7. CASE Next
  BY <1>2, <1>3, <1>4, <1>5, <1>7, NextControls, ActionSteps
<1> QED
  BY <1>6, <1>7

-----------------------------------------------------------------------------
(* Sessions *)

IsOpen(s) == pc[s] = "ok" /\ req[s].op = "open"
Dropped(s) == \E q \in Reqs: req[q].op = "drop" /\ req[q].session = s /\ pc[q] = "ok"

\* A session a client was told of is where it was opened, unless that has
\* restarted or it was dropped; and clients only name such sessions.
SessionsKept ==
    /\ \A s \in Reqs: IsOpen(s) =>
            /\ at[s] \in Replicas
            /\ s \in DOMAIN sessions[at[s]] \/ at[s] \in restarted \/ Dropped(s)
    /\ \A r \in Reqs: req[r].op \in OnSessions => req[r].session \in Reqs /\ IsOpen(req[r].session)

LEMMA SessionsInit == Init => SessionsKept /\ LostSessionHasCause
BY DEF Init, SessionsKept, LostSessionHasCause, IsOpen, NoInput, OnSessions

\* What stays, stays so.
LEMMA SessionFacts ==
    ASSUME Control, [Next]_vars
    PROVE  /\ \A s \in Reqs: IsOpen(s) => IsOpen(s)' /\ at'[s] = at[s]
           /\ \A s \in Reqs: Dropped(s) => Dropped(s)'
           /\ \A r \in Reqs: req[r].op \in OnSessions =>
                  /\ req'[r] = req[r] /\ at'[r] = at[r] /\ pc'[r] = pc[r] /\ before'[r] = before[r]
                  /\ \A q \in before[r]: q \in Reqs /\ Ended(q) /\ req'[q] = req[q] /\ pc'[q] = pc[q]
           /\ restarted \subseteq restarted'
<1>1. (\A q \in Reqs: Kept(q)) /\ restarted \subseteq restarted'
  BY Frame
<1>2. \A q \in Reqs: Controlled(q)
  BY DEF Control
<1>3. \A q \in Reqs: Ended(q) => /\ req'[q] = req[q] /\ at'[q] = at[q] /\ pc'[q] = pc[q]
                                 /\ before'[q] = before[q]
  BY <1>1 DEF Kept, Ended
<1>4. \A s \in Reqs: IsOpen(s) => IsOpen(s)' /\ at'[s] = at[s]
  BY <1>3 DEF IsOpen, Ended
<1>5. \A s \in Reqs: Dropped(s) => Dropped(s)'
  BY <1>3 DEF Dropped, Ended
<1>6. \A r \in Reqs: req[r].op \in OnSessions => Ended(r)
  BY <1>2 DEF Controlled
<1>7. \A r \in Reqs: \A q \in before[r]: q \in Reqs /\ Ended(q)
  BY <1>2 DEF Controlled
<1> QED
  BY <1>1, <1>3, <1>4, <1>5, <1>6, <1>7

\* What names a session afresh names an open one, and is told that it is not
\* found only for a cause.
Names(r) ==
    LET s == req'[r].session
    IN  /\ s \in Reqs /\ IsOpen(s)
        /\ pc'[r] = "not found" =>
            \/ at'[r] # at[s] \/ at[s] \in restarted
            \/ \E q \in before'[r]: req'[q].op = "drop" /\ req'[q].session = s /\ pc'[q] = "ok"

LEMMA SessionsFrame ==
    ASSUME Control, SessionsKept, LostSessionHasCause, [Next]_vars,
           \A s \in Reqs: IsOpen(s)' =>
                \/ IsOpen(s)
                \/ at'[s] \in Replicas /\ s \in DOMAIN sessions'[at'[s]],
           \A s \in Reqs: IsOpen(s) /\ s \in DOMAIN sessions[at[s]] =>
                \/ s \in DOMAIN sessions'[at[s]] \/ at[s] \in restarted' \/ Dropped(s)',
           \A r \in Reqs: req'[r].op \in OnSessions => req[r].op \in OnSessions \/ Names(r)
    PROVE  SessionsKept' /\ LostSessionHasCause'
<1>1. /\ \A s \in Reqs: IsOpen(s) => IsOpen(s)' /\ at'[s] = at[s]
      /\ \A s \in Reqs: Dropped(s) => Dropped(s)'
      /\ restarted \subseteq restarted'
  BY SessionFacts
<1>2. \A q \in Reqs: req[q].op \in OnSessions =>
          /\ req'[q] = req[q] /\ at'[q] = at[q] /\ pc'[q] = pc[q] /\ before'[q] = before[q]
          /\ \A b \in before[q]: b \in Reqs /\ Ended(b) /\ req'[b] = req[b] /\ pc'[b] = pc[b]
  BY SessionFacts
<1>3. ASSUME NEW s \in Reqs, IsOpen(s)'
      PROVE  /\ at'[s] \in Replicas
             /\ s \in DOMAIN sessions'[at'[s]] \/ at'[s] \in restarted' \/ Dropped(s)'
  <2>1. CASE IsOpen(s)
    BY <1>1, <2>1 DEF SessionsKept
  <2>2. CASE ~IsOpen(s)
    BY <1>3, <2>2
  <2> QED
    BY <2>1, <2>2
<1>4. ASSUME NEW q \in Reqs, req'[q].op \in OnSessions PROVE Names(q)
  <2>1. CASE req[q].op \in OnSessions
    <3>1. req[q].session \in Reqs /\ IsOpen(req[q].session)
      BY <2>1 DEF SessionsKept
    <3>2. pc[q] = "not found" =>
              LET s == req[q].session
              IN  \/ at[q] # at[s] \/ at[s] \in restarted
                  \/ \E b \in before[q]: req[b].op = "drop" /\ req[b].session = s /\ pc[b] = "ok"
      BY <2>1 DEF LostSessionHasCause
    <3> QED
      BY <1>2, <2>1, <3>1, <3>2, ZenonT(40) DEF Names
  <2>2. CASE req[q].op \notin OnSessions
    BY <1>4, <2>2
  <2> QED
    BY <2>1, <2>2
<1>5. SessionsKept'
  <2>1. ASSUME NEW q \in Reqs, req'[q].op \in OnSessions
        PROVE  LET s == req'[q].session IN s \in Reqs /\ pc'[s] = "ok" /\ req'[s].op = "open"
    <3>1. \E s \in Reqs: s = req'[q].session /\ IsOpen(s)'
      BY <1>1, <1>4, <2>1 DEF Names
    <3> QED
      BY <3>1 DEF IsOpen
  <2> QED
    BY <1>3, <2>1 DEF SessionsKept, IsOpen
<1>6. LostSessionHasCause'
  <2> SUFFICES ASSUME NEW q \in Reqs, pc'[q] = "not found", req'[q].op \in OnSessions
               PROVE  LET s == req'[q].session
                      IN  \/ at'[q] # at'[s] \/ at'[s] \in restarted'
                          \/ \E b \in before'[q]: /\ req'[b].op = "drop" /\ req'[b].session = s
                                                  /\ pc'[b] = "ok"
    BY DEF LostSessionHasCause
  <2> QED
    BY <1>1, <1>4 DEF Names
<1> QED
  BY <1>5, <1>6


LEMMA SessionsStep ==
    ASSUME Control, SessionsKept, LostSessionHasCause, [Next]_vars
    PROVE  SessionsKept' /\ LostSessionHasCause'
<1> DEFINE Opened(s) == IsOpen(s)' =>
                \/ IsOpen(s)
                \/ at'[s] \in Replicas /\ s \in DOMAIN sessions'[at'[s]]
           Held(s) == IsOpen(s) /\ s \in DOMAIN sessions[at[s]] =>
                \/ s \in DOMAIN sessions'[at[s]] \/ at[s] \in restarted' \/ Dropped(s)'
           Named(r) == req'[r].op \in OnSessions => req[r].op \in OnSessions \/ Names(r)
<1>1. Domains /\ \A q \in Reqs: Controlled(q)
  BY DEF Control
<1>2. \A s \in Reqs: UNCHANGED <<pc[s], req[s]>> => Opened(s) /\ Named(s)
  BY DEF IsOpen
<1>3. \A s \in Reqs: UNCHANGED sessions => Held(s)
  OBVIOUS
<1>4. ASSUME \A s \in Reqs: Opened(s) /\ Held(s) /\ Named(s)
      PROVE  SessionsKept' /\ LostSessionHasCause'
  BY <1>4, SessionsFrame
<1>5. ASSUME NEW r \in Reqs, NEW p \in Replicas, NEW in, NEW place,
             Begin(r, p, in, place), Opened(r), Named(r), \A s \in Reqs: Held(s)
      PROVE  SessionsKept' /\ LostSessionHasCause'
  <2>1. \A q \in Reqs \ {r}: UNCHANGED <<pc[q], req[q]>>
    BY <1>1, <1>5, BeginKeeps
  <2> HIDE DEF Opened, Held, Named
  <2> QED
    BY <1>2, <1>4, <1>5, <2>1
<1>6. ASSUME NEW r \in Reqs, NEW p \in Replicas, NEW in, NEW place,
             Start(r, p, in, place), Begins(in, place)
      PROVE  SessionsKept' /\ LostSessionHasCause'
  <2>1. Begin(r, p, in, place) /\ UNCHANGED sessions
    BY <1>6 DEF Start
  <2>2. req'[r] = in
    BY <1>1, <2>1, BeginKeeps
  <2>3. in.op \notin OnSessions \union {"open"}
    BY <1>6 DEF Begins, Writes, Edits, OnLoaded, OnSessions
  <2>4. Opened(r) /\ Named(r)
    BY <2>2, <2>3 DEF IsOpen
  <2> HIDE DEF Opened, Held, Named
  <2> QED
    BY <1>3, <1>5, <2>1, <2>4
<1>7. ASSUME NEW r \in Reqs, NEW p \in Replicas, Opening(r, p)
      PROVE  SessionsKept' /\ LostSessionHasCause'
  <2> DEFINE status == [s \in DOMAIN sessions[p] \union {r} |->
                            IF s = r THEN "pending" ELSE sessions[p][s]]
  <2>1. PICK in: in.op = "open" /\ SessionAt(r, p, in, "ok", status)
    BY <1>7 DEF Opening
  <2>2. Begin(r, p, in, "ok") /\ sessions' = [sessions EXCEPT ![p] = status]
    BY <2>1 DEF SessionAt
  <2>3. req'[r] = in /\ at'[r] = p
    BY <1>1, <2>2, BeginKeeps
  <2>4. DOMAIN status = DOMAIN sessions[p] \union {r}
    OBVIOUS
  <2> HIDE DEF status
  <2>5. sessions'[p] = status /\ \A q \in Replicas \ {p}: sessions'[q] = sessions[q]
    BY <1>1, <2>2 DEF Domains
  <2>6. Opened(r) /\ Named(r)
    BY <2>1, <2>3, <2>4, <2>5 DEF OnSessions
  <2>7. ASSUME NEW s \in Reqs PROVE Held(s)
    <3>1. IsOpen(s) => at[s] \in Replicas
      BY DEF SessionsKept
    <3> QED
      BY <2>4, <2>5, <3>1
  <2> HIDE DEF Opened, Held, Named
  <2> QED
    BY <1>5, <2>2, <2>6, <2>7
<1>8. ASSUME NEW r \in Reqs, NEW s \in Reqs, NEW p \in Replicas, NEW in, NEW outcome, NEW status,
             Naming(r, p, s, in, outcome, status)
      PROVE  SessionsKept' /\ LostSessionHasCause'
  <2>1. Begin(r, p, in, outcome) /\ sessions' = [sessions EXCEPT ![p] = status]
    BY <1>8 DEF Naming, SessionAt
  <2>2. /\ req'[r] = in /\ at'[r] = p /\ pc'[r] = outcome /\ pc[r] = "idle"
        /\ before'[r] = {q \in Reqs: Ended(q)}
        /\ \A q \in Reqs \ {r}: pc'[q] = pc[q] /\ req'[q] = req[q]
    BY <1>1, <2>1, BeginKeeps
  <2>3. sessions'[p] = status /\ \A q \in Replicas \ {p}: sessions'[q] = sessions[q]
    BY <1>1, <2>1 DEF Domains
  <2>4. /\ in.op \in OnSessions /\ in.session = s /\ IsOpen(s)
        /\ outcome = IF s \in DOMAIN sessions[p] THEN "ok" ELSE "not found"
        /\ s \notin DOMAIN sessions[p] => status = sessions[p]
        /\ s \in DOMAIN sessions[p] /\ in.op # "drop" => DOMAIN status = DOMAIN sessions[p]
        /\ in.op = "drop" => DOMAIN status = DOMAIN sessions[p] \ {s}
    BY <1>8 DEF Naming, IsOpen
  <2>5. ASSUME NEW t \in Reqs PROVE Held(t)
    <3> SUFFICES ASSUME IsOpen(t), t \in DOMAIN sessions[at[t]],
                        t \notin DOMAIN sessions'[at[t]]
                 PROVE  Dropped(t)'
      OBVIOUS
    <3>1. at[t] = p
      BY <2>3 DEF SessionsKept
    <3>2. in.op = "drop" /\ t = s /\ outcome = "ok"
      BY <2>3, <2>4, <3>1
    <3> QED
      BY <2>2, <2>4, <3>2 DEF Dropped
  <2>6. Opened(r)
    BY <2>2, <2>4 DEF IsOpen, OnSessions
  <2>7. Names(r)
    <3>1. CASE outcome = "not found" /\ at[s] = p /\ at[s] \notin restarted
      <4>1. Dropped(s)
        BY <2>4, <3>1 DEF SessionsKept
      <4>2. PICK q \in Reqs: req[q].op = "drop" /\ req[q].session = s /\ pc[q] = "ok"
        BY <4>1 DEF Dropped
      <4>3. q # r /\ q \in before'[r]
        BY <2>2, <4>2 DEF Ended
      <4>4. pc'[q] = pc[q] /\ req'[q] = req[q]
        BY <2>2, <4>3
      <4> QED
        BY <2>2, <2>4, <4>2, <4>3, <4>4 DEF Names
    <3>2. CASE ~(outcome = "not found" /\ at[s] = p /\ at[s] \notin restarted)
      BY <2>2, <2>4, <3>2 DEF Names
    <3> QED
      BY <3>1, <3>2
  <2>8. Named(r)
    BY <2>7
  <2> HIDE DEF Opened, Held, Named
  <2> QED
    BY <1>5, <2>1, <2>5, <2>6, <2>8
<1>9. ASSUME NEW r \in Reqs, NEW p \in Replicas, NEW i \in Matchings, AnswerMatch(r, p, i)
      PROVE  SessionsKept' /\ LostSessionHasCause'
  <2>1. Begin(r, p, i, "ok") /\ UNCHANGED sessions
    BY <1>9 DEF AnswerMatch
  <2>2. req'[r] = i
    BY <1>1, <2>1, BeginKeeps
  <2>3. i.op \notin OnSessions \union {"open"}
    BY MatchingsAssumption DEF OnSessions
  <2>4. Opened(r) /\ Named(r)
    BY <2>2, <2>3 DEF IsOpen
  <2> HIDE DEF Opened, Held, Named
  <2> QED
    BY <1>3, <1>5, <2>1, <2>4
<1>10. ASSUME NEW r \in Reqs, NEW place, Steps(r, place)
       PROVE  SessionsKept' /\ LostSessionHasCause'
  <2>1. UNCHANGED <<sessions, req>> /\ \A q \in Reqs \ {r}: pc'[q] = pc[q]
    BY <1>1, <1>10 DEF Steps, Domains
  <2>2. req[r].op # "open"
    BY <1>1, <1>10 DEF Steps, Controlled
  <2>3. Opened(r) /\ Named(r)
    BY <2>1, <2>2 DEF IsOpen
  <2>4. \A q \in Reqs \ {r}: Opened(q) /\ Named(q)
    BY <1>2, <2>1
  <2> HIDE DEF Opened, Held, Named
  <2> QED
    BY <1>3, <1>4, <2>1, <2>3, <2>4
<1>11. ASSUME NEW p \in Replicas, Restart(p)
       PROVE  SessionsKept' /\ LostSessionHasCause'
  <2>1. /\ req' = req /\ at' = at /\ restarted' = restarted \union {p}
        /\ sessions' = [sessions EXCEPT ![p] = [s \in {} |-> ""]]
    BY <1>11 DEF Restart
  <2>2. \A q \in Replicas \ {p}: sessions'[q] = sessions[q]
    BY <1>1, <2>1 DEF Domains
  <2>3. ASSUME NEW s \in Reqs PROVE Opened(s) /\ Held(s) /\ Named(s)
    <3>1. pc'[s] = IF at[s] = p /\ ~Ended(s) /\ pc[s] # "idle" THEN "failed" ELSE pc[s]
      BY <1>11 DEF Restart
    <3>2. Opened(s) /\ Named(s)
      BY <2>1, <3>1 DEF IsOpen
    <3>3. IsOpen(s) => at[s] \in Replicas
      BY DEF SessionsKept
    <3>4. Held(s)
      BY <2>1, <2>2, <3>3
    <3> QED
      BY <3>2, <3>4
  <2> HIDE DEF Opened, Held, Named
  <2> QED
    BY <1>4, <2>3
<1>12. CASE UNCHANGED vars
  <2>1. UNCHANGED <<pc, req, sessions>>
    BY <1>12 DEF vars
  <2> HIDE DEF Opened, Held, Named
  <2> QED
    BY <1>2, <1>3, <1>4, <2>1
<1>13. CASE Next
  <2> HIDE DEF Opened, Held, Named
  <2> QED
    BY <1>6, <1>7, <1>8, <1>9, <1>10, <1>11, <1>13, NextIs, ActionSteps
<1> QED
  BY <1>12, <1>13


-----------------------------------------------------------------------------
(* Rows *)

Fields == {"kind", "project", "name", "remark", "status"}

\* A row was made by a request that got past its INSERT, for a project there is.
MadeRows ==
    \A id \in DOMAIN rows:
        /\ DOMAIN rows[id] = Fields
        /\ id[1] \in Reqs /\ id \in IdsOf(id[1]) /\ pc[id[1]] \in Written
        /\ rows[id].project = ProjectsOf(id[1])[id[2]]
        /\ rows[id].project \in projects

\* And so was every row somebody has read.
MadeLoaded ==
    \A r \in Reqs: req[r].op \in Edits \union {"delete"} =>
        \A id \in loaded[r]: id[1] \in Reqs /\ pc[id[1]] \in Written

\* What an edit has committed, or has found done, is shown unless it was renamed since;
\* and that is all it has read once it has committed.
NamesKept ==
    \A r \in Reqs: req[r].op \in Edits =>
        /\ same[r] \union wrote[r] \subseteq loaded[r]
        /\ pc[r] \in {"refresh", "ok"} => loaded[r] \subseteq same[r] \union wrote[r]
        /\ \A id \in same[r] \union wrote[r]:
                id \in DOMAIN rows => rows[id].name = req[r].name \/ Renamed(r, id)

\* SavesAreWhole holds from the commit on, not only from the answer.
WholeFromCommit ==
    \A r \in Reqs: pc[r] \in {"refresh", "ok"} \/ IdsOf(r) \intersect DOMAIN rows # {} =>
        \A id \in IdsOf(r): id \in DOMAIN rows \/ Removed(id, ProjectsOf(r)[id[2]])

RowsInv == MadeRows /\ MadeLoaded /\ WholeFromCommit

LEMMA RowsImplySaves == RowsInv => SavesAreWhole
BY DEF RowsInv, MadeRows, WholeFromCommit, SavesAreWhole

LEMMA NamesImplyEdits == NamesKept => EditedNamesStay
BY DEF NamesKept, EditedNamesStay

LEMMA RowsInit == Init => RowsInv /\ NamesKept
BY DEF Init, RowsInv, MadeRows, MadeLoaded, WholeFromCommit, NamesKept, NoInput, Edits,
       IdsOf, ProjectsOf, Writes

LEMMA RowFacts ==
    ASSUME Control, [Next]_vars
    PROVE  /\ \A q \in Reqs: pc[q] # "idle" =>
                  /\ req'[q] = req[q] /\ before'[q] = before[q]
                  /\ ProjectsOf(q)' = ProjectsOf(q) /\ IdsOf(q)' = IdsOf(q)
           /\ \A q \in Reqs: Ended(q) => pc'[q] = pc[q] /\ loaded'[q] = loaded[q]
           /\ \A q \in Reqs: \A id \in wrote[q]: id \in wrote'[q] /\ pc[q] # "idle"
           /\ \A id, project: Removed(id, project) => Removed(id, project)'
           /\ \A q \in Reqs: pc[q] \in Written => pc'[q] \in Written
<1>1. \A q \in Reqs: Kept(q)
  BY Frame
<1>2. \A q \in Reqs: pc[q] # "idle" =>
          /\ req'[q] = req[q] /\ before'[q] = before[q]
          /\ ProjectsOf(q)' = ProjectsOf(q) /\ IdsOf(q)' = IdsOf(q)
  BY <1>1 DEF Kept, ProjectsOf, IdsOf
<1>3. \A q \in Reqs: Ended(q) => pc'[q] = pc[q] /\ loaded'[q] = loaded[q]
  BY <1>1 DEF Kept
<1>4. \A q \in Reqs: \A id \in wrote[q]: id \in wrote'[q] /\ pc[q] # "idle"
  BY <1>1 DEF Kept, Control, Controlled, Written
<1>5. ASSUME NEW id, NEW project, Removed(id, project) PROVE Removed(id, project)'
  <2>1. PICK q \in Reqs: \/ req[q].op = "delete" /\ id \in wrote[q]
                         \/ req[q].op = "delproject" /\ project \in wrote[q]
    BY <1>5 DEF Removed
  <2>2. req'[q] = req[q] /\ wrote[q] \subseteq wrote'[q]
    BY <1>2, <1>4, <2>1
  <2> QED
    BY <2>1, <2>2 DEF Removed
<1>6. \A q \in Reqs: pc[q] \in Written => pc'[q] \in Written
  BY <1>1 DEF Kept
<1> QED
  BY <1>2, <1>3, <1>4, <1>5, <1>6

\* A step that makes no row.
LEMMA RowsFrame ==
    ASSUME Control, RowsInv, [Next]_vars,
           DOMAIN rows' \subseteq DOMAIN rows,
           \A id \in DOMAIN rows': /\ DOMAIN rows'[id] = DOMAIN rows[id]
                                   /\ rows'[id].project = rows[id].project
                                   /\ rows'[id].project \in projects',
           \A id \in DOMAIN rows \ DOMAIN rows': \A project:
                project = rows[id].project => Removed(id, project)',
           \A q \in Reqs: pc'[q] \in {"refresh", "ok"}
                => pc[q] \in {"refresh", "ok"} \/ IdsOf(q)' \subseteq DOMAIN rows',
           \A q \in Reqs: req'[q].op \in Edits \union {"delete"}
                => loaded'[q] \subseteq loaded[q] \union DOMAIN rows
    PROVE  RowsInv'
<1>1. /\ \A q \in Reqs: pc[q] # "idle" =>
             req'[q] = req[q] /\ ProjectsOf(q)' = ProjectsOf(q) /\ IdsOf(q)' = IdsOf(q)
      /\ \A id, project: Removed(id, project) => Removed(id, project)'
      /\ \A q \in Reqs: pc[q] \in Written => pc'[q] \in Written
  BY RowFacts
<1>2. "idle" \notin Written
  BY DEF Written
<1>3. MadeRows'
  <2> SUFFICES ASSUME NEW id \in DOMAIN rows'
               PROVE  /\ DOMAIN rows'[id] = Fields
                      /\ id[1] \in Reqs /\ id \in IdsOf(id[1])' /\ pc'[id[1]] \in Written
                      /\ rows'[id].project = ProjectsOf(id[1])'[id[2]]
                      /\ rows'[id].project \in projects'
    BY DEF MadeRows
  <2>1. /\ DOMAIN rows[id] = Fields
        /\ id[1] \in Reqs /\ id \in IdsOf(id[1]) /\ pc[id[1]] \in Written
        /\ rows[id].project = ProjectsOf(id[1])[id[2]]
    BY DEF RowsInv, MadeRows
  <2> QED
    BY <1>1, <1>2, <2>1
<1>4. MadeLoaded'
  <2> SUFFICES ASSUME NEW r \in Reqs, req'[r].op \in Edits \union {"delete"}, NEW id \in loaded'[r]
               PROVE  id[1] \in Reqs /\ pc'[id[1]] \in Written
    BY DEF MadeLoaded
  <2>1. CASE id \in DOMAIN rows
    BY <1>1, <2>1 DEF RowsInv, MadeRows
  <2>2. CASE id \in loaded[r]
    <3>1. pc[r] # "idle"
      BY <2>2 DEF Control, Controlled
    <3> QED
      BY <1>1, <2>2, <3>1 DEF RowsInv, MadeLoaded
  <2> QED
    BY <2>1, <2>2
<1>5. WholeFromCommit'
  <2> SUFFICES ASSUME NEW r \in Reqs,
                      pc'[r] \in {"refresh", "ok"} \/ IdsOf(r)' \intersect DOMAIN rows' # {},
                      NEW id \in IdsOf(r)', id \notin DOMAIN rows'
               PROVE  Removed(id, ProjectsOf(r)[id[2]])'
    BY DEF WholeFromCommit
  <2>1. /\ pc[r] \in {"refresh", "ok"} \/ IdsOf(r) \intersect DOMAIN rows # {}
        /\ pc[r] # "idle"
    <3>1. CASE pc'[r] \in {"refresh", "ok"}
      BY <3>1
    <3>2. CASE IdsOf(r)' \intersect DOMAIN rows' # {}
      <4>1. PICK other \in IdsOf(r)': other \in DOMAIN rows'
        BY <3>2
      <4>2. other[1] = r
        BY <4>1 DEF IdsOf
      <4>3. other \in DOMAIN rows /\ other \in IdsOf(r) /\ pc[r] \in Written
        BY <4>1, <4>2 DEF RowsInv, MadeRows
      <4> QED
        BY <1>2, <4>3
    <3> QED
      BY <3>1, <3>2
  <2>2. id \in IdsOf(r) /\ ProjectsOf(r)' = ProjectsOf(r)
    BY <1>1, <2>1
  <2>3. id \in DOMAIN rows \/ Removed(id, ProjectsOf(r)[id[2]])
    BY <2>1, <2>2 DEF RowsInv, WholeFromCommit
  <2>4. CASE id \in DOMAIN rows
    <3>1. id[1] = r
      BY <2>2 DEF IdsOf
    <3>2. PICK project: project = rows[id].project
      OBVIOUS
    <3>3. project = ProjectsOf(r)[id[2]] /\ Removed(id, project)'
      BY <2>4, <3>1, <3>2 DEF RowsInv, MadeRows
    <3> QED
      BY <2>2, <3>3 DEF Removed
  <2>5. CASE Removed(id, ProjectsOf(r)[id[2]])
    BY <1>1, <2>2, <2>5 DEF Removed
  <2> QED
    BY <2>3, <2>4, <2>5
<1> QED
  BY <1>3, <1>4, <1>5 DEF RowsInv


LEMMA StaysRenamed ==
    ASSUME Control, [Next]_vars, NEW r \in Reqs, NEW id, pc[r] # "idle", Renamed(r, id)
    PROVE  Renamed(r, id)'
<1>1. PICK q \in Reqs \ {r}: req[q].op \in Edits /\ id \in wrote[q] /\ q \notin before[r]
  BY DEF Renamed, Later
<1>2. req'[q] = req[q] /\ id \in wrote'[q] /\ before'[r] = before[r]
  BY <1>1, RowFacts
<1> QED
  BY <1>1, <1>2 DEF Renamed, Later

\* A step that changes no name and in which no edit reads or commits.
LEMMA NamesFrame ==
    ASSUME Control, NamesKept, [Next]_vars,
           DOMAIN rows' \subseteq DOMAIN rows,
           \A id \in DOMAIN rows': rows'[id].name = rows[id].name,
           UNCHANGED <<loaded, same>>,
           \A q \in Reqs: req[q].op \in Edits \/ pc[q] = "idle" => wrote'[q] = wrote[q],
           \A q \in Reqs: pc'[q] \in {"refresh", "ok"} /\ req'[q].op \in Edits
                => pc[q] \in {"refresh", "ok"} \/ loaded[q] = {}
    PROVE  NamesKept'
<1> SUFFICES ASSUME NEW r \in Reqs, req'[r].op \in Edits
             PROVE  /\ same'[r] \union wrote'[r] \subseteq loaded'[r]
                    /\ pc'[r] \in {"refresh", "ok"} => loaded'[r] \subseteq same'[r] \union wrote'[r]
                    /\ \A id \in same'[r] \union wrote'[r]:
                        id \in DOMAIN rows' => rows'[id].name = req'[r].name \/ Renamed(r, id)'
  BY DEF NamesKept
<1>1. CASE pc[r] = "idle"
  <2>1. same'[r] = {} /\ wrote'[r] = {} /\ loaded'[r] = {}
    BY <1>1 DEF Control, Controlled, Written
  <2> QED
    BY <2>1
<1>2. CASE pc[r] # "idle"
  <2>1. req'[r] = req[r] /\ wrote'[r] = wrote[r]
    BY <1>2, RowFacts
  <2>2. \A id \in same[r] \union wrote[r]: Renamed(r, id) => Renamed(r, id)'
    BY <1>2, StaysRenamed
  <2> QED
    BY <2>1, <2>2 DEF NamesKept
<1> QED
  BY <1>1, <1>2

\* A step that touches no row and in which nobody reads or commits.
LEMMA QuietRows ==
    ASSUME Control, RowsInv, NamesKept, [Next]_vars,
           rows' = rows, projects \subseteq projects', UNCHANGED <<loaded, same, wrote>>,
           \A q \in Reqs: pc'[q] \in {"refresh", "ok"}
                => \/ pc[q] \in {"refresh", "ok"}
                   \/ IdsOf(q)' = {} /\ (req'[q].op \in Edits => loaded[q] = {})
    PROVE  RowsInv' /\ NamesKept'
<1>1. \A id \in DOMAIN rows': rows'[id].project \in projects'
  BY DEF RowsInv, MadeRows
<1>2. RowsInv'
  BY <1>1, RowsFrame
<1>3. NamesKept'
  BY NamesFrame
<1> QED
  BY <1>2, <1>3

LEMMA RowsBeginning ==
    ASSUME Control, RowsInv, NamesKept, [Next]_vars, rows' = rows, projects' = projects,
           NEW r \in Reqs, NEW p \in Replicas, NEW in, NEW place, Beginning(r, p, in, place)
    PROVE  RowsInv' /\ NamesKept'
<1>1. Domains /\ Begin(r, p, in, place) /\ Controlled(r) /\ UNCHANGED <<loaded, same, wrote>>
  BY DEF Beginning, Control
<1>2. /\ pc[r] = "idle" /\ pc'[r] = place /\ req'[r] = in
      /\ \A q \in Reqs \ {r}: pc'[q] = pc[q] /\ req'[q] = req[q]
  BY <1>1, BeginKeeps
<1>3. place # "refresh" /\ (place = "ok" => IdsOf(r)' = {})
  <2>1. CASE in.op \notin Writes
    <3>1. ProjectsOf(r)' = <<>>
      BY <1>2, <2>1 DEF ProjectsOf, Writes
    <3>2. IdsOf(r)' = {}
      BY <3>1 DEF IdsOf
    <3>3. place # "refresh"
      BY DEF Beginning, Begins
    <3> QED
      BY <3>2, <3>3
  <2>2. CASE in.op \in Writes
    <3>1. \/ place \in {"project", "check", "failed"}
          \/ in.op = "mappings" /\ in.projects = <<>> /\ place = "ok"
      BY <2>2 DEF Beginning, Begins, Writes, OnSessions, OnMatching, OnLoaded, Edits
    <3>2. in.op = "mappings" /\ in.projects = <<>> => ProjectsOf(r)' = <<>>
      BY <1>2 DEF ProjectsOf, Writes
    <3> QED
      BY <3>1, <3>2 DEF IdsOf
  <2> QED
    BY <2>1, <2>2
<1>4. loaded[r] = {}
  BY <1>1, <1>2 DEF Controlled
<1> QED
  BY <1>1, <1>2, <1>3, <1>4, QuietRows

LEMMA RowsQuietSteps ==
    ASSUME Control, RowsInv, NamesKept, [Next]_vars,
           NEW r \in Reqs, InsertProject(r) \/ FindProject(r) \/ DatabaseFails(r)
    PROVE  RowsInv' /\ NamesKept'
<1>1. Domains /\ Controlled(r)
  BY DEF Control
<1>2. rows' = rows /\ req' = req /\ projects \subseteq projects' /\ UNCHANGED <<loaded, same, wrote>>
  BY DEF InsertProject, FindProject, DatabaseFails
<1>3. \A q \in Reqs \ {r}: pc'[q] = pc[q]
  BY <1>1 DEF InsertProject, FindProject, DatabaseFails, Domains, Goto
<1>4. pc'[r] # "ok" /\ (pc'[r] = "refresh" => pc[r] = "project" /\ req[r].op # "upload")
  <2>1. CASE InsertProject(r)
    BY <1>1, <2>1 DEF InsertProject, Domains, Goto
  <2>2. CASE FindProject(r)
    BY <1>1, <2>2 DEF FindProject, Domains, Goto
  <2>3. CASE DatabaseFails(r)
    BY <1>1, <2>3 DEF DatabaseFails, Domains, Goto
  <2> QED
    BY <2>1, <2>2, <2>3
<1>5. pc'[r] = "refresh" => req[r].op = "newproject"
  BY <1>1, <1>4 DEF Controlled
<1>6. req[r].op = "newproject" => IdsOf(r)' = {} /\ req[r].op \notin Edits
  <2>1. req[r].op = "newproject" => ProjectsOf(r)' = <<>>
    BY <1>2 DEF ProjectsOf, Writes
  <2> QED
    BY <2>1 DEF IdsOf, Edits
<1> QED
  BY <1>2, <1>3, <1>4, <1>5, <1>6, QuietRows

LEMMA RowsLoad ==
    ASSUME Control, RowsInv, NamesKept, [Next]_vars, NEW r \in Reqs, Load(r)
    PROVE  RowsInv' /\ NamesKept'
<1>1. Domains /\ Controlled(r)
  BY DEF Control
<1>2. /\ pc[r] = "load" /\ pc'[r] \in {"write", "not found"} /\ UNCHANGED <<rows, projects, req, wrote>>
      /\ before' = before
      /\ \A q \in Reqs \ {r}: pc'[q] = pc[q] /\ loaded'[q] = loaded[q] /\ same'[q] = same[q]
  BY <1>1 DEF Load, Goto, Domains
<1>3. req[r].op \in Edits \union {"delete"} => loaded'[r] \subseteq DOMAIN rows
  BY <1>1 DEF Load, Domains, Edits
<1>4. \A id \in DOMAIN rows: rows[id].project \in projects
  BY DEF RowsInv, MadeRows
<1>5. RowsInv'
  BY <1>2, <1>3, <1>4, RowsFrame
<1>6. NamesKept'
  <2> SUFFICES ASSUME NEW q \in Reqs, req[q].op \in Edits
               PROVE  /\ same'[q] \union wrote[q] \subseteq loaded'[q]
                      /\ pc'[q] \in {"refresh", "ok"} => loaded'[q] \subseteq same'[q] \union wrote[q]
                      /\ \A id \in same'[q] \union wrote[q]:
                        id \in DOMAIN rows => rows[id].name = req[q].name \/ Renamed(q, id)'
    BY <1>2 DEF NamesKept
  <2>1. CASE q # r
    <3>1. Renamed(q, 0)' = Renamed(q, 0) /\ \A id: Renamed(q, id) => Renamed(q, id)'
      BY <1>2 DEF Renamed, Later
    <3> QED
      BY <1>2, <2>1, <3>1 DEF NamesKept
  <2>2. CASE q = r
    <3>1. wrote[r] = {}
      BY <1>1, <1>2 DEF Controlled, Written
    <3>2. same'[r] = {id \in loaded'[r]: rows[id].name = req[r].name}
      BY <1>1, <2>2 DEF Load, Domains
    <3> QED
      BY <1>2, <2>2, <3>1, <3>2
  <2> QED
    BY <2>1, <2>2
<1> QED
  BY <1>5, <1>6

LEMMA RowsInsert ==
    ASSUME Control, RowsInv, NamesKept, [Next]_vars, NEW r \in Reqs, InsertRows(r)
    PROVE  RowsInv' /\ NamesKept'
<1>1. Domains /\ Controlled(r)
  BY DEF Control
<1>2. /\ pc[r] = "insert" /\ UNCHANGED <<projects, req, loaded, same, wrote, before>>
      /\ \A q \in Reqs \ {r}: pc'[q] = pc[q]
  BY <1>1 DEF InsertRows, Goto, Domains
<1>3. CASE UNCHANGED rows /\ Goto(r, "failed")
  <2>1. pc'[r] = "failed"
    BY <1>1, <1>3 DEF Goto, Domains
  <2> QED
    BY <1>2, <1>3, <2>1, QuietRows
<1>4. CASE /\ \A id \in IdsOf(r): ProjectsOf(r)[id[2]] \in projects
           /\ rows' = Added(r, IdsOf(r)) /\ Goto(r, "refresh")
  <2>1. pc'[r] = "refresh"
    BY <1>1, <1>4 DEF Goto, Domains
  <2>2. \A q \in Reqs: ProjectsOf(q)' = ProjectsOf(q) /\ IdsOf(q)' = IdsOf(q)
    BY <1>2 DEF ProjectsOf, IdsOf
  <2>3. \A id \in IdsOf(r): id[1] = r /\ id \notin DOMAIN rows
    <3>1. \A id \in IdsOf(r): id[1] = r
      BY DEF IdsOf
    <3> QED
      BY <1>2, <3>1 DEF RowsInv, MadeRows, Written
  <2>4. /\ DOMAIN rows' = DOMAIN rows \union IdsOf(r)
        /\ \A id \in IdsOf(r): rows'[id] = NewRow(r, id[2])
        /\ \A id \in DOMAIN rows: rows'[id] = rows[id]
    BY <1>4, <2>3 DEF Added
  <2>5. \A n: DOMAIN NewRow(r, n) = Fields /\ NewRow(r, n).project = ProjectsOf(r)[n]
    BY DEF NewRow, Fields
  <2>6. /\ \A id, project: Removed(id, project) => Removed(id, project)'
        /\ \A q \in Reqs: pc[q] \in Written => pc'[q] \in Written
    BY RowFacts
  <2>7. MadeRows'
    <3> SUFFICES ASSUME NEW id \in DOMAIN rows'
                 PROVE  /\ DOMAIN rows'[id] = Fields
                        /\ id[1] \in Reqs /\ id \in IdsOf(id[1])' /\ pc'[id[1]] \in Written
                        /\ rows'[id].project = ProjectsOf(id[1])'[id[2]]
                        /\ rows'[id].project \in projects'
      BY DEF MadeRows
    <3>1. CASE id \in DOMAIN rows
      <4>1. /\ DOMAIN rows[id] = Fields
            /\ id[1] \in Reqs /\ id \in IdsOf(id[1]) /\ pc[id[1]] \in Written
            /\ rows[id].project = ProjectsOf(id[1])[id[2]]
            /\ rows[id].project \in projects
        BY <3>1 DEF RowsInv, MadeRows
      <4> QED
        BY <1>2, <2>2, <2>4, <2>6, <3>1, <4>1
    <3>2. CASE id \in IdsOf(r)
      <4>1. id[1] = r /\ rows'[id] = NewRow(r, id[2]) /\ ProjectsOf(r)[id[2]] \in projects
        BY <1>4, <2>3, <2>4, <3>2
      <4> QED
        BY <1>2, <2>1, <2>2, <2>5, <3>2, <4>1 DEF Written
    <3> QED
      BY <2>4, <3>1, <3>2
  <2>8. MadeLoaded'
    BY <1>2, <2>6 DEF RowsInv, MadeLoaded
  <2>9. WholeFromCommit'
    <3> SUFFICES ASSUME NEW q \in Reqs,
                        pc'[q] \in {"refresh", "ok"} \/ IdsOf(q) \intersect DOMAIN rows' # {},
                        NEW id \in IdsOf(q), id \notin DOMAIN rows'
                 PROVE  Removed(id, ProjectsOf(q)[id[2]])
      <4>1. \A q \in Reqs: \A id:
                Removed(id, ProjectsOf(q)[id[2]]) => Removed(id, ProjectsOf(q)[id[2]])'
        BY <2>2, <2>6 DEF Removed
      <4> QED
        BY <2>2, <4>1 DEF WholeFromCommit
    <3>1. q # r
      BY <2>4
    <3>2. pc[q] \in {"refresh", "ok"} \/ IdsOf(q) \intersect DOMAIN rows # {}
      BY <1>2, <2>3, <2>4, <3>1 DEF IdsOf
    <3> QED
      BY <2>4, <3>2 DEF RowsInv, WholeFromCommit
  <2>10. NamesKept'
    <3> SUFFICES ASSUME NEW q \in Reqs, req[q].op \in Edits
                 PROVE  /\ same[q] \union wrote[q] \subseteq loaded[q]
                        /\ pc'[q] \in {"refresh", "ok"} => loaded[q] \subseteq same[q] \union wrote[q]
                        /\ \A id \in same[q] \union wrote[q]:
                            id \in DOMAIN rows' => rows'[id].name = req[q].name \/ Renamed(q, id)'
      BY <1>2 DEF NamesKept
    <3>1. q # r
      BY <1>1, <1>2 DEF Controlled, Writes, Edits
    <3>2. ASSUME NEW id \in same[q] \union wrote[q], id \in DOMAIN rows'
          PROVE  rows'[id].name = req[q].name \/ Renamed(q, id)'
      <4>1. pc[id[1]] \in Written
        BY <3>2 DEF RowsInv, MadeLoaded, NamesKept
      <4>2. id \in DOMAIN rows /\ rows'[id] = rows[id]
        BY <1>2, <2>3, <2>4, <3>2, <4>1 DEF Written
      <4>3. Renamed(q, id) => Renamed(q, id)'
        BY <1>2 DEF Renamed, Later
      <4> QED
        BY <3>2, <4>2, <4>3 DEF NamesKept
    <3> QED
      BY <1>2, <3>1, <3>2 DEF NamesKept
  <2> QED
    BY <2>7, <2>8, <2>9, <2>10 DEF RowsInv
<1> QED
  BY <1>3, <1>4 DEF InsertRows


LEMMA RowsRefresh ==
    ASSUME Control, RowsInv, NamesKept, [Next]_vars, NEW r \in Reqs, Refresh(r)
    PROVE  RowsInv' /\ NamesKept'
<1>1. Domains /\ Controlled(r)
  BY DEF Control
<1>2. /\ pc[r] = "refresh" /\ UNCHANGED <<projects, req, loaded, same, wrote>>
      /\ \A q \in Reqs \ {r}: pc'[q] = pc[q]
  BY <1>1 DEF Refresh, Goto, Domains
<1>3. DOMAIN rows' = DOMAIN rows /\ \A id \in DOMAIN rows: rows'[id] = rows[id]
  BY DEF Refresh, Queued, Connected
<1>4. \A id \in DOMAIN rows': rows'[id].project \in projects'
  BY <1>2, <1>3 DEF RowsInv, MadeRows
<1>5. RowsInv'
  BY <1>2, <1>3, <1>4, RowsFrame
<1>6. NamesKept'
  BY <1>2, <1>3, NamesFrame
<1> QED
  BY <1>5, <1>6

LEMMA RowsWrite ==
    ASSUME Control, RowsInv, NamesKept, [Next]_vars, NEW r \in Reqs, WriteRows(r)
    PROVE  RowsInv' /\ NamesKept'
<1> DEFINE changed == loaded[r] \ same[r]
<1>1. Domains /\ Controlled(r)
  BY DEF Control
<1>2. /\ pc[r] = "write" /\ req[r].op \in Edits
      /\ UNCHANGED <<projects, req, loaded, same, before>>
      /\ \A q \in Reqs \ {r}: pc'[q] = pc[q]
  BY <1>1 DEF WriteRows, Goto, Domains
<1>3. IdsOf(r)' = {}
  <2>1. ProjectsOf(r)' = <<>>
    BY <1>2 DEF ProjectsOf, Writes, Edits
  <2> QED
    BY <2>1 DEF IdsOf
<1>4. CASE UNCHANGED <<rows, wrote>> /\ Goto(r, "failed")
  <2>1. pc'[r] = "failed"
    BY <1>1, <1>4 DEF Goto, Domains
  <2> QED
    BY <1>2, <1>4, <2>1, QuietRows
<1>5. CASE /\ rows' = [id \in DOMAIN rows |->
                IF id \notin loaded[r] THEN rows[id]
                ELSE [rows[id] EXCEPT !.name = IF id \in changed THEN req[r].name ELSE @,
                                      !.remark = IF req[r].op = "edit" THEN "user" ELSE @]]
           /\ wrote' = [wrote EXCEPT ![r] = changed]
           /\ Goto(r, "refresh")
  <2> HIDE DEF changed
  <2>1. /\ pc'[r] = "refresh" /\ wrote'[r] = changed
        /\ \A q \in Reqs \ {r}: wrote'[q] = wrote[q]
    BY <1>1, <1>5 DEF Goto, Domains
  <2>2. DOMAIN rows' = DOMAIN rows /\ \A id \in DOMAIN rows \ loaded[r]: rows'[id] = rows[id]
    BY <1>5
  <2>3. ASSUME NEW id \in DOMAIN rows, id \in loaded[r]
        PROVE  /\ rows'[id].name = IF id \in changed THEN req[r].name ELSE rows[id].name
               /\ rows'[id].project = rows[id].project
               /\ DOMAIN rows'[id] = DOMAIN rows[id]
    <3>1. DOMAIN rows[id] = Fields
      BY DEF RowsInv, MadeRows
    <3>2. rows'[id] = [rows[id] EXCEPT !.name = IF id \in changed THEN req[r].name ELSE @,
                                       !.remark = IF req[r].op = "edit" THEN "user" ELSE @]
      BY <1>5, <2>3
    <3> QED
      BY <3>1, <3>2 DEF Fields
  <2>4. \A id \in DOMAIN rows': rows'[id].project \in projects'
    BY <1>2, <2>2, <2>3 DEF RowsInv, MadeRows
  <2>5. \A id \in DOMAIN rows': /\ DOMAIN rows'[id] = DOMAIN rows[id]
                                /\ rows'[id].project = rows[id].project
    BY <2>2, <2>3
  <2>6. RowsInv'
    BY <1>2, <1>3, <2>2, <2>4, <2>5, RowsFrame
  <2>7. \A id \in DOMAIN rows:
            rows'[id].name = IF id \in changed THEN req[r].name ELSE rows[id].name
    BY <2>2, <2>3 DEF changed
  <2>8. NamesKept'
    <3> SUFFICES ASSUME NEW q \in Reqs, req[q].op \in Edits
                 PROVE  /\ same[q] \union wrote'[q] \subseteq loaded[q]
                        /\ pc'[q] \in {"refresh", "ok"} => loaded[q] \subseteq same[q] \union wrote'[q]
                        /\ \A id \in same[q] \union wrote'[q]:
                            id \in DOMAIN rows' => rows'[id].name = req[q].name \/ Renamed(q, id)'
      BY <1>2 DEF NamesKept
    <3>1. same[q] \union wrote[q] \subseteq loaded[q]
      BY DEF NamesKept
    <3>2. same[q] \union wrote'[q] \subseteq loaded[q]
      BY <2>1, <3>1 DEF changed
    <3>3. pc'[q] \in {"refresh", "ok"} => loaded[q] \subseteq same[q] \union wrote'[q]
      BY <1>2, <2>1 DEF changed, NamesKept
    <3>4. ASSUME NEW id \in same[q] \union wrote'[q], id \in DOMAIN rows
          PROVE  rows'[id].name = req[q].name \/ Renamed(q, id)'
      <4>1. CASE q = r /\ id \in changed
        BY <2>7, <3>4, <4>1
      <4>2. CASE q # r /\ id \in changed
        <5>1. r \notin before[q]
          BY <1>2 DEF Control, Controlled, Ended
        <5> QED
          BY <1>2, <2>1, <4>2, <5>1 DEF Renamed, Later
      <4>3. CASE id \notin changed
        <5>1. id \in same[q] \union wrote[q] /\ rows'[id].name = rows[id].name
          BY <2>1, <2>7, <3>4, <4>3
        <5>2. pc[q] # "idle"
          BY <5>1 DEF Control, Controlled, Written
        <5>3. Renamed(q, id) => Renamed(q, id)'
          BY <5>2, StaysRenamed
        <5> QED
          BY <3>4, <5>1, <5>3 DEF NamesKept
      <4> QED
        BY <4>1, <4>2, <4>3
    <3> QED
      BY <2>2, <3>2, <3>3, <3>4
  <2> QED
    BY <2>6, <2>8
<1> QED
  BY <1>4, <1>5 DEF WriteRows

LEMMA RowsDelete ==
    ASSUME Control, RowsInv, NamesKept, [Next]_vars, NEW r \in Reqs,
           DeleteRow(r) \/ Cascade(r)
    PROVE  RowsInv' /\ NamesKept'
<1>1. Domains /\ Controlled(r)
  BY DEF Control
<1>2. /\ pc[r] = "write" /\ pc'[r] = "refresh" /\ req[r].op \in {"delete", "delproject"}
      /\ UNCHANGED <<req, loaded, same>> /\ wrote'[r] = loaded[r]
      /\ \A q \in Reqs \ {r}: pc'[q] = pc[q] /\ wrote'[q] = wrote[q]
  BY <1>1 DEF DeleteRow, Cascade, Goto, Domains
<1>3. IdsOf(r)' = {} /\ req[r].op \notin Edits
  <2>1. ProjectsOf(r)' = <<>>
    BY <1>2 DEF ProjectsOf, Writes
  <2> QED
    BY <1>2, <2>1 DEF IdsOf, Edits
<1>4. /\ DOMAIN rows' \subseteq DOMAIN rows
      /\ \A id \in DOMAIN rows': rows'[id] = rows[id] /\ rows[id].project \in projects'
      /\ \A id \in DOMAIN rows \ DOMAIN rows': \A project:
            project = rows[id].project => Removed(id, project)'
  <2>1. CASE DeleteRow(r)
    <3>1. /\ req[r].op = "delete" /\ DOMAIN rows' = DOMAIN rows \ loaded[r] /\ projects' = projects
          /\ \A id \in DOMAIN rows': rows'[id] = rows[id]
      BY <2>1 DEF DeleteRow
    <3>2. \A id \in loaded[r]: \A project: Removed(id, project)'
      BY <1>2, <3>1 DEF Removed
    <3> QED
      BY <3>1, <3>2 DEF RowsInv, MadeRows
  <2>2. CASE Cascade(r)
    <3>1. /\ req[r].op = "delproject" /\ projects' = projects \ loaded[r]
          /\ DOMAIN rows' = DOMAIN rows \ UNION {RowsOf(p): p \in loaded[r]}
          /\ \A id \in DOMAIN rows': rows'[id] = rows[id]
      BY <2>2 DEF Cascade
    <3>2. \A id \in DOMAIN rows: id \in DOMAIN rows' <=> rows[id].project \notin loaded[r]
      BY <3>1 DEF RowsOf
    <3>3. \A id: \A project \in loaded[r]: Removed(id, project)'
      BY <1>2, <3>1 DEF Removed
    <3> QED
      BY <3>1, <3>2, <3>3 DEF RowsInv, MadeRows
  <2> QED
    BY <2>1, <2>2
<1>5. RowsInv'
  BY <1>2, <1>3, <1>4, RowsFrame
<1>6. NamesKept'
  BY <1>2, <1>3, <1>4, NamesFrame
<1> QED
  BY <1>5, <1>6

LEMMA RowsStep ==
    ASSUME Control, RowsInv, NamesKept, [Next]_vars
    PROVE  RowsInv' /\ NamesKept'
<1>1. ASSUME NEW r \in Reqs, NEW p \in Replicas, NEW in, NEW place,
             Beginning(r, p, in, place), rows' = rows, projects' = projects
      PROVE  RowsInv' /\ NamesKept'
  BY <1>1, RowsBeginning
<1>2. ASSUME NEW p \in Replicas, Restart(p)
      PROVE  RowsInv' /\ NamesKept'
  <2>1. UNCHANGED <<projects, rows, req, loaded, same, wrote>>
    BY <1>2 DEF Restart
  <2>2. \A q \in Reqs: pc'[q] \in {"refresh", "ok"} => pc'[q] = pc[q]
    <3> TAKE q \in Reqs
    <3>1. pc'[q] = IF at[q] = p /\ ~Ended(q) /\ pc[q] # "idle" THEN "failed" ELSE pc[q]
      BY <1>2 DEF Restart
    <3> QED
      BY <3>1
  <2> QED
    BY <2>1, <2>2, QuietRows
<1>3. CASE UNCHANGED vars
  BY <1>3, QuietRows DEF vars
<1>4. ASSUME NEW r \in Reqs, NEW p \in Replicas, NEW in, NEW place,
             Start(r, p, in, place), Begins(in, place)
      PROVE  RowsInv' /\ NamesKept'
  <2>1. Beginning(r, p, in, place) /\ rows' = rows /\ projects' = projects
    BY <1>4 DEF Start, Beginning, Begins, OnMatching, Writes, OnLoaded, Edits
  <2> QED
    BY <1>1, <2>1
<1>5. ASSUME NEW r \in Reqs, NEW p \in Replicas, Opening(r, p)
      PROVE  RowsInv' /\ NamesKept'
  <2>1. PICK in: in.op = "open" /\ SessionAt(r, p, in, "ok",
            [s \in DOMAIN sessions[p] \union {r} |-> IF s = r THEN "pending" ELSE sessions[p][s]])
    BY <1>5 DEF Opening
  <2>2. Beginning(r, p, in, "ok") /\ rows' = rows /\ projects' = projects
    BY <2>1 DEF SessionAt, Beginning, OnMatching
  <2> QED
    BY <1>1, <2>2
<1>6. ASSUME NEW r \in Reqs, NEW s \in Reqs, NEW p \in Replicas, NEW in, NEW outcome, NEW status,
             Naming(r, p, s, in, outcome, status)
      PROVE  RowsInv' /\ NamesKept'
  <2>1. Beginning(r, p, in, outcome) /\ rows' = rows /\ projects' = projects
    BY <1>6 DEF Naming, SessionAt, Beginning, OnMatching, OnSessions
  <2> QED
    BY <1>1, <2>1
<1>7. ASSUME NEW r \in Reqs, NEW p \in Replicas, NEW i \in Matchings, AnswerMatch(r, p, i)
      PROVE  RowsInv' /\ NamesKept'
  <2>1. Beginning(r, p, i, "ok")
    BY <1>7, MatchingBegins
  <2>2. rows' = rows /\ projects' = projects
    BY <1>7 DEF AnswerMatch
  <2> QED
    BY <1>1, <2>1, <2>2
<1>8. ASSUME NEW r \in Reqs,
             \/ InsertProject(r) \/ FindProject(r) \/ InsertRows(r) \/ Refresh(r) \/ Load(r)
             \/ WriteRows(r) \/ DeleteRow(r) \/ Cascade(r) \/ DatabaseFails(r)
      PROVE  RowsInv' /\ NamesKept'
  BY <1>8, RowsQuietSteps, RowsLoad, RowsInsert, RowsRefresh, RowsWrite, RowsDelete
<1> QED
  BY <1>2, <1>3, <1>4, <1>5, <1>6, <1>7, <1>8, NextIs

-----------------------------------------------------------------------------
(* The invariants of the service *)

ServiceInv == /\ Control /\ AnswersAreBest
              /\ SessionsKept /\ LostSessionHasCause
              /\ RowsInv /\ NamesKept

LEMMA ServiceAlways == Spec => []ServiceInv
<1>1. Init => ServiceInv
  BY ControlInit, AnswersInit, SessionsInit, RowsInit DEF ServiceInv
<1>2. ServiceInv /\ [Next]_vars => ServiceInv'
  BY ControlStep, AnswersStep, SessionsStep, RowsStep DEF ServiceInv
<1> QED
  BY <1>1, <1>2, PTL DEF Spec

\* What the service answered was saved, rows or names, stays until a deletion or an
\* edit that is not earlier takes it, answered or not.
THEOREM AnsweredStaysHolds == Spec => []AnsweredStays
<1>1. ServiceInv => AnsweredStays
  BY RowsImplySaves, NamesImplyEdits DEF ServiceInv, AnsweredStays
<1> QED
  BY <1>1, ServiceAlways, PTL

\* A session is lost only by a drop, a restart, or a request to another process.
THEOREM LostSessionHasCauseHolds == Spec => []LostSessionHasCause
<1>1. ServiceInv => LostSessionHasCause
  BY DEF ServiceInv
<1> QED
  BY <1>1, ServiceAlways, PTL

\* Every matching request is answered with a best match, or with the groups of
\* its rows.
THEOREM AnswersAreBestHolds == Spec => []AnswersAreBest
<1>1. ServiceInv => AnswersAreBest
  BY DEF ServiceInv
<1> QED
  BY <1>1, ServiceAlways, PTL
=============================================================================
