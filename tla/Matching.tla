------------------------------ MODULE Matching -------------------------------
(***************************************************************************)
(* The matching algorithms, which keep no state: columns of a file against *)
(* the fields of an ERP system, and rows of a chart of accounts grouped by *)
(* account type with a suggested type and name for each.                   *)
(*                                                                         *)
(* A text is not spelled out: what matters of it is how it scores against  *)
(* each candidate, and whether it equals it but for case and separators.   *)
(* The two are independent, since scores are case-sensitive.               *)
(*                                                                         *)
(* Source: src/src/modules/mappings/matching.py and, the same code and     *)
(* the grouping, src/legacy/services/api-service/app/services/.            *)
(***************************************************************************)
EXTENDS Naturals, SequencesExt

NoMatch == 0

\* rapidfuzz: the first candidate with the highest score, from the cutoff on.
ExtractOne(scores, cutoff) ==
    LET best == {i \in DOMAIN scores:
                    /\ scores[i] >= cutoff
                    /\ \A j \in DOMAIN scores: scores[i] >= scores[j]}
    IN  IF best = {} THEN NoMatch ELSE Min(best)

FirstExact(exact) == SelectInSeq(exact, LAMBDA e: e)

Answer(field, score, method) == [field |-> field, confidence |-> score, method |-> method]
Unmatched == Answer(NoMatch, 0, "unmatched")

\* A column is scored against the names of the fields and against their ids;
\* the name wins a tie.
Fuzzy(column, cutoff) ==
    LET n == ExtractOne(column.name, cutoff)
        d == ExtractOne(column.id, cutoff)
    IN  IF n # NoMatch /\ (d = NoMatch \/ column.name[n] >= column.id[d])
            THEN Answer(n, column.name[n], "fuzzy")
        ELSE IF d # NoMatch THEN Answer(d, column.id[d], "fuzzy")
        ELSE Unmatched

\* fuzzy_match_columns, for one column: equality overrides every score.
MatchColumn(column, cutoff) ==
    LET e == FirstExact(column.exact)
    IN  IF e # NoMatch THEN Answer(e, 100, "exact") ELSE Fuzzy(column, cutoff)

\* find_best_target_name; a name without a match stands for itself, and so does an
\* empty one, though a candidate of spaces only equals it.
BestTargetName(name, cutoff) ==
    LET e == FirstExact(name.exact)
        n == ExtractOne(name.name, cutoff)
    IN  IF name.empty THEN Unmatched
        ELSE IF e # NoMatch THEN Answer(e, 100, "exact")
        ELSE IF n # NoMatch THEN Answer(n, name.name[n], "fuzzy")
        ELSE Unmatched

\* Headings: each is the set of roles its wording allows.  The last heading
\* that allows a role has it.
DetectColumn(headings, role) == SelectLastInSeq(headings, LAMBDA h: role \in h)

\* The type of a row, if there is a type column.
TypeOf(headings, cells) ==
    LET c == DetectColumn(headings, "type") IN IF c = 0 THEN "Unknown" ELSE cells[c]

\* The suggestion for a type: by the table of the two systems, else by score.
SuggestType(type, table, scores) ==
    IF type \in DOMAIN table THEN Answer(table[type], 100, "table")
    ELSE LET t == ExtractOne(IF type \in DOMAIN scores THEN scores[type] ELSE <<>>, 50)
         IN  IF t = NoMatch THEN Unmatched ELSE Answer(t, scores[type][t], "fuzzy")

\* Not the code: a row joins the last group if its type is like the one before.
AddRowToLast(groups, type, account, target) ==
    IF groups # <<>> /\ Last(groups).source = type
    THEN [groups EXCEPT ![Len(groups)].accounts = Append(@, account)]
    ELSE Append(groups, [source |-> type, target |-> target, accounts |-> <<account>>])

\* create_hierarchical_mapping: one pass over the rows, each appended to the
\* group of its type, which the first of them opens.
AddRow(groups, type, account, target) ==
    LET at == SelectInSeq(groups, LAMBDA g: g.source = type)
    IN  IF at = 0
        THEN Append(groups, [source |-> type, target |-> target, accounts |-> <<account>>])
        ELSE [groups EXCEPT ![at].accounts = Append(@, account)]

GroupRows(in) ==
    LET groups[n \in 0 .. Len(in.rows)] ==
            IF n = 0 THEN <<>>
            ELSE LET type == TypeOf(in.headings, in.rows[n])
                 IN  AddRow(groups[n - 1], type, n, SuggestType(type, in.table, in.scores))
    IN  groups[Len(in.rows)]
-----------------------------------------------------------------------------
(***************************************************************************)
(* What the answers have to be.                                            *)
(***************************************************************************)
IsBest(column, cutoff, a) ==
    LET scores == {<<i, column.name[i]>>: i \in DOMAIN column.name}
                    \union {<<i, column.id[i]>>: i \in DOMAIN column.id}
    IN  CASE a.method = "exact" -> column.exact[a.field]
          [] a.method = "fuzzy" ->
                /\ \A i \in DOMAIN column.exact: ~column.exact[i]
                /\ <<a.field, a.confidence>> \in scores
                /\ a.confidence >= cutoff
                /\ \A s \in scores: s[2] <= a.confidence
          [] OTHER -> /\ \A i \in DOMAIN column.exact: ~column.exact[i]
                      /\ \A s \in scores: s[2] < cutoff

\* An empty name matches nothing.
IsBestName(name, cutoff, a) ==
    IF name.empty THEN a.method = "unmatched" ELSE IsBest(name, cutoff, a)

\* The groups are the types, each once and in the order of their first rows;
\* a group has the rows of its type, in their order, and the table's suggestion
\* if there is one.
IsGrouping(in, groups) ==
    LET type(n) == TypeOf(in.headings, in.rows[n])
    IN  /\ {groups[g].source: g \in DOMAIN groups} = {type(n): n \in DOMAIN in.rows}
        /\ \A g, h \in DOMAIN groups: g < h =>
                /\ groups[g].source # groups[h].source
                /\ groups[g].accounts[1] < groups[h].accounts[1]
        /\ \A g \in DOMAIN groups:
            /\ Range(groups[g].accounts) = {n \in DOMAIN in.rows: type(n) = groups[g].source}
            /\ \A i, j \in DOMAIN groups[g].accounts: i < j =>
                    groups[g].accounts[i] < groups[g].accounts[j]
            /\ groups[g].source \in DOMAIN in.table
                    => groups[g].target.field = in.table[groups[g].source]
=============================================================================
