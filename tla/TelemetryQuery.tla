--------------------------- MODULE TelemetryQuery ---------------------------
(***************************************************************************)
(* Telemetry queries of the Telemetry UI: from the parameters of a URL to  *)
(* a validated request, from the request to a ClickHouse statement with    *)
(* bound arguments, and the mock store that answers the same requests      *)
(* without SQL.  A statement is a sequence of tests and one flat sequence  *)
(* of arguments that its placeholders consume from left to right.          *)
(*                                                                         *)
(* A row is [id, time, keys, scope, env, trace, service, text, severity,   *)
(* error, duration, server, resource, attributes, body]: text is the span  *)
(* name or the log body as searched, body the text parsed as JSON,         *)
(* resource and attributes map keys to texts, keys the columns ORDER BY    *)
(* compares besides the time to their ranks; id tells rows apart that      *)
(* agree in every column.  Times are in ticks; texts are opaque.           *)
(***************************************************************************)
EXTENDS Integers, FiniteSets, Sequences, SequencesExt

CONSTANTS Minute, DefaultRange, MaxRange,   \* ticks: 1 minute, 30 minutes, 24 hours
          MaxLimit, MaxOffset,              \* 500 and 5000
          MaxDuration,                      \* one day, as a minimal duration
          MaxServices, MaxKeys,             \* services listed (500), keys listed (50)
          Alphabet,     \* every service and attribute key, in order
          Within,       \* <<term, text>>: text contains term, whatever the case
          Number,       \* texts that both stores read as numbers -> the number
          TraceOf,      \* search texts that look like a trace id -> the trace
          Parsed        \* texts that both stores take for JSON -> the document

ASSUME QueryAssumption ==
  /\ {Minute, DefaultRange, MaxRange, MaxLimit, MaxServices, MaxKeys} \subseteq Nat \ {0}
  /\ {MaxOffset, MaxDuration} \subseteq Nat /\ MaxLimit >= MaxKeys
  /\ \A text \in DOMAIN Number : Number[text] \in Int
  /\ \A text \in DOMAIN TraceOf : TraceOf[text] \in STRING

\* The empty text: a parameter that is not there, a value that is not stored.
Unset == ""

Bands == <<"unspecified", "trace", "debug", "info", "warn", "error", "fatal">>
SeverityRange(band) ==
  LET i == CHOOSE j \in DOMAIN Bands : Bands[j] = band
  IN  IF i = 1 THEN <<0, 0>> ELSE <<4 * i - 7, 4 * i - 4>>

\* severitySQL: the strongest band a number reaches.
Band(n) == IF n < 1 THEN "unspecified" ELSE IF n >= 21 THEN "fatal" ELSE Bands[(n + 7) \div 4]

Has(text, term) == term = Unset \/ <<term, text>> \in Within
Floor(t, unit) == t - (t % unit)
If(condition, s) == IF condition THEN s ELSE <<>>

\* The values of s without repetition.
Unique(s) ==
  LET kept[i \in 0 .. Len(s)] ==
        IF i = 0 THEN <<>>
        ELSE IF s[i] \in ToSet(kept[i - 1]) THEN kept[i - 1] ELSE Append(kept[i - 1], s[i])
  IN  kept[Len(s)]
-----------------------------------------------------------------------------
(* Parameters to request.  A parameter that is not there is 0, Unset or    *)
(* <<>>; to, env, limit, offset and discovery are given after their        *)
(* defaults.                                                               *)

\* parseFilter for one repeated parameter: at most max, no empty one among several.
ValidList(values, max, allowed) ==
  /\ Len(values) <= max
  /\ Unset \in ToSet(values) => Len(values) = 1
  /\ ToSet(values) \subseteq allowed \cup {Unset}
Values(values) == IF values = <<Unset>> THEN <<>> ELSE Unique(values)

\* JSON paths: a segment is [name, index, atoi]; index is -1 unless it is all
\* digits, atoi what strconv.Atoi reads, -1 when it fails or is negative: it takes
\* a sign too, so that "+1" has atoi 1 and index -1.
PathOf(c) == IF c.scope = "body" THEN c.key ELSE c.path
ValidPath(path) == Len(path) <= 8

\* AttributeFilter.validate; a condition is [scope, key, op, value, path].
ValidCondition(c) ==
  /\ c.scope \in {"resource", "span", "log", "body"}
  /\ IF c.scope = "body" THEN c.path = <<>> /\ c.key # <<>> ELSE c.key # Unset
  /\ ValidPath(PathOf(c))
  /\ \/ c.op \in {"eq", "neq"}
     \/ c.op = "contains" /\ c.value # Unset
     \/ c.op \in {"exists", "missing"} /\ c.value = Unset
     \/ c.op \in {"gt", "gte", "lt", "lte"} /\ c.value \in DOMAIN Number

\* The attribute scope of a signal that the other one does not have.
ScopeFits(c, signal) ==
  IF signal = "logs" THEN c.scope # "span" ELSE c.scope \notin {"log", "body"}

From(p) == IF p.from = 0 THEN p.to - DefaultRange ELSE p.from

ValidParameters(p) ==
  /\ Len(p.attributes) <= 8 /\ \A c \in ToSet(p.attributes) : ValidCondition(c)
  /\ From(p) < p.to /\ p.to - From(p) <= MaxRange
  /\ ValidList(p.service, 20, ToSet(p.service))
  /\ ValidList(p.severity, 7, ToSet(Bands))
  /\ ValidList(p.status, 2, {"ok", "error"})
  /\ p.limit \in 1 .. MaxLimit /\ p.offset \in 0 .. MaxOffset
  /\ p.minDuration \in 0 .. MaxDuration

\* parseFilter and ParseRequest: what the operation leaves of the parameters.
Parse(p, scope) ==
  LET keys == p.operation = "attributes"
  IN  [signal |-> p.signal, operation |-> p.operation, scope |-> scope,
       from |-> From(p), to |-> p.to, env |-> p.env, trace |-> p.trace,
       search |-> IF keys THEN Unset ELSE p.q,
       attributes |-> IF keys \/ p.operation = "services" THEN <<>> ELSE p.attributes,
       services |-> Values(p.service), severities |-> Values(p.severity),
       statuses |-> Values(p.status), minDuration |-> p.minDuration,
       limit |-> IF keys THEN MaxKeys ELSE p.limit,
       offset |-> IF keys THEN 0 ELSE p.offset,
       discovery |-> IF keys THEN p.discovery ELSE Unset,
       keySearch |-> IF keys THEN p.keySearch ELSE Unset]

Operations(signal) ==
  {"records", "metrics", "attributes", "services"} \cup (IF signal = "traces" THEN {"detail"} ELSE {})
OwnScope(signal) == IF signal = "logs" THEN "log" ELSE "span"
Listed(r) == r.operation \in {"records", "detail", "attributes"}
ServerOnly(r) == r.signal = "traces" /\ r.operation \in {"records", "metrics", "attributes"}

\* Request.Validate and Filter.ValidateScope.
ValidRequest(r) ==
  /\ r.operation \in Operations(r.signal) /\ r.scope # Unset
  /\ r.operation = "attributes" => r.discovery \in {"resource", OwnScope(r.signal)}
  /\ Len(r.attributes) <= 8
  /\ \A c \in ToSet(r.attributes) : ScopeFits(c, r.signal) /\ ValidCondition(c)
  /\ Listed(r) => r.limit \in 0 .. MaxLimit /\ r.offset \in 0 .. MaxOffset

Accepted(p, scope) == ValidParameters(p) /\ ValidRequest(Parse(p, scope))

\* ServiceFilter: discovery ignores the filters of single records.
Discovering(r) ==
  IF r.operation # "services" THEN r
  ELSE [r EXCEPT !.search = Unset, !.attributes = <<>>, !.severities = <<>>,
                 !.statuses = <<>>, !.minDuration = 0]
-----------------------------------------------------------------------------
(* Request to statement.                                                   *)

Test(kind) == [kind |-> kind, column |-> Unset, op |-> Unset, segments |-> 0]
Part(test, args) == <<[test |-> test, args |-> args]>>

\* Slip: an index is passed on as it is written.
SegmentsAsWritten(path) ==
  [i \in DOMAIN path |-> [name |-> IF path[i].index >= 0 THEN Unset ELSE path[i].name,
                          index |-> path[i].index]]

\* jsonPath: array indexes are one-based in SQL, everything else is a name.
Segments(path) ==
  [i \in DOMAIN path |-> IF path[i].index >= 0 THEN [name |-> Unset, index |-> path[i].index + 1]
                         ELSE [name |-> path[i].name, index |-> -1]]

\* AttributeFilter.sql and jsonSQL: the arguments in the order of the placeholders.
AttributePart(c) ==
  LET json == c.scope = "body" \/ c.path # <<>>
      own == If(c.scope # "body", <<c.key>>)
      extract == own \o Segments(PathOf(c))
      value == IF c.op \in {"gt", "gte", "lt", "lte"} THEN Number[c.value] ELSE c.value
      test == [kind |-> IF json THEN "json" ELSE "map", column |-> c.scope, op |-> c.op,
               segments |-> Len(PathOf(c))]
  IN  Part(test,
           IF c.op \in {"exists", "missing"} THEN IF json THEN own \o extract ELSE <<c.key>>
           ELSE IF json THEN own \o extract \o extract \o extract \o extract \o <<value>>
           ELSE <<c.key, c.key, value>>)

\* Filter.baseWhere.
BaseWhere(r) ==
  Part(Test("from"), <<r.from>>) \o Part(Test("to"), <<r.to>>) \o Part(Test("scope"), <<r.scope>>)
  \o If(r.env # Unset, Part(Test("environment"), <<r.env>>))
  \o If(r.trace # Unset, Part(Test("trace"), <<r.trace>>))
  \o If(r.services # <<>>, Part(Test("service"), r.services))
  \o If(r.signal = "logs" /\ r.severities # <<>>,
        Part(Test("severity"),
             FlattenSeq([i \in DOMAIN r.severities |-> SeverityRange(r.severities[i])])))
  \o If(r.signal = "traces" /\ Len(r.statuses) = 1, Part(Test(r.statuses[1]), <<>>))
  \o If(r.signal = "traces" /\ r.minDuration > 0, Part(Test("duration"), <<r.minDuration>>))
  \o If(r.search \in DOMAIN TraceOf, Part(Test("trace"), <<TraceOf[r.search]>>))

\* Filter.lateWhere.
LateWhere(r) ==
  If(r.search # Unset /\ r.search \notin DOMAIN TraceOf,
     Part(Test("search"), <<r.search, r.search, r.search>>))
  \o FlattenSeq([i \in DOMAIN r.attributes |-> AttributePart(r.attributes[i])])

\* The five-minute buckets of the log table's sorting key; To is exclusive.
LogBuckets(r) == Part(Test("buckets"), <<r.from, r.to - 1>>)

\* Slip: the scope is left to the filters of the client.
PreWhereUnscoped(r) ==
  SelectSeq(BaseWhere(r), LAMBDA part : part.test.kind # "scope")
  \o If(r.signal = "logs", LogBuckets(r)) \o If(ServerOnly(r), Part(Test("server"), <<>>))

\* Filter.conditions: PREWHERE and WHERE, their parts in the order of the text.
PreWhere(r) ==
  BaseWhere(r) \o If(r.signal = "logs", LogBuckets(r)) \o If(ServerOnly(r), Part(Test("server"), <<>>))

Tests(parts) == [i \in DOMAIN parts |-> [test |-> parts[i].test, arity |-> Len(parts[i].args)]]
Args(parts) == FlattenSeq([i \in DOMAIN parts |-> parts[i].args])

\* compile: gorm collects the arguments clause by clause.
BoundArgs(pre, where) == Args(pre) \o Args(where)

\* selectionFor: what follows the time in ORDER BY, for lists of rows.
OrderBy(r) ==
  [oldestFirst |-> r.operation = "detail",
   columns |-> IF r.operation = "detail" THEN <<"span">>
               ELSE IF r.signal = "logs" THEN <<"trace", "span", "body">> ELSE <<"trace", "span">>]

Select(r, what) ==
  [select |-> what, order |-> OrderBy(r), tests |-> Tests(PreWhere(r)) \o Tests(LateWhere(r)),
   args |-> BoundArgs(PreWhere(r), LateWhere(r)), discovery |-> r.discovery,
   key |-> r.keySearch, limit |-> 0, offset |-> 0]

\* Compile: one statement, and for the RED metrics a second one over the whole range.
Compile(request) ==
  LET r == Discovering(request)
      main == Select(r, r.operation)
  IN  CASE r.operation = "attributes" -> <<[main EXCEPT !.limit = MaxKeys + 1]>>
        [] r.operation = "services" -> <<[main EXCEPT !.limit = MaxServices]>>
        [] r.operation \in {"records", "detail"} ->
             <<[main EXCEPT !.limit = r.limit + 1, !.offset = r.offset]>>
        [] OTHER -> <<main>> \o If(r.signal = "traces", <<Select(r, "summary")>>)
-----------------------------------------------------------------------------
(* What ClickHouse does with a statement.                                  *)

Compare(op, a, b) ==
  CASE op = "gt" -> a > b [] op = "gte" -> a >= b [] op = "lt" -> a < b [] op = "lte" -> a <= b

\* A comparison of a text with a bound value; a text that is no number has none.
Satisfies(op, text, value) ==
  CASE op = "eq" -> text = value
    [] op = "neq" -> text # value
    [] op = "contains" -> Has(text, value)
    [] OTHER -> text \in DOMAIN Number /\ Compare(op, Number[text], value)

MapOf(column, row) == IF column = "resource" THEN row.resource ELSE row.attributes

MapHolds(test, a, row) ==
  LET m == MapOf(test.column, row)
  IN  CASE test.op = "exists" -> a[1] \in DOMAIN m
        [] test.op = "missing" -> a[1] \notin DOMAIN m
        [] OTHER -> a[1] \in DOMAIN m /\ Satisfies(test.op, m[a[2]], a[3])

\* JSONExtractRaw: a document is [kind, raw, text, members], a member is [name,
\* value]; an index counts the members of an array or an object from one.  raw is
\* the node as ClickHouse writes it, text a string's content or the node as Go
\* encodes it, with the keys of objects sorted and numbers rounded to 64 bits.
Nothing == [kind |-> "nothing", raw |-> Unset, text |-> Unset, members |-> <<>>]
Child(node, segment) ==
  LET named == {i \in DOMAIN node.members : node.kind = "object" /\ node.members[i].name = segment.name}
      counted == segment.index > 0 /\ node.kind \in {"array", "object"} /\ segment.index \in DOMAIN node.members
  IN  CASE counted -> node.members[segment.index].value
        [] segment.index < 0 /\ named # {} -> node.members[CHOOSE i \in named : TRUE].value
        [] OTHER -> Nothing
Extract(document, segments) ==
  LET node[i \in 0 .. Len(segments)] ==
        IF i = 0 THEN document ELSE Child(node[i - 1], segments[i])
  IN  node[Len(segments)]

JsonHolds(test, a, row) ==
  LET own == IF test.column = "body" THEN 0 ELSE 1
      width == own + test.segments
      m == MapOf(test.column, row)
      source(k) == IF own = 0 THEN row.body ELSE IF a[k] \in DOMAIN m THEN m[a[k]] ELSE Unset
      group(i) == own + (i - 1) * width
      extracted(i) == Extract(Parsed[source(group(i) + 1)], SubSeq(a, group(i) + own + 1, group(i + 1)))
      exists == extracted(1) # Nothing
  IN  /\ source(1) \in DOMAIN Parsed
      /\ CASE test.op = "exists" -> exists
           [] test.op = "missing" -> ~exists
           [] OTHER -> exists /\ Satisfies(test.op, IF extracted(2).kind = "string" THEN extracted(3).text
                                                    ELSE extracted(4).raw, a[Len(a)])

Holds(test, a, row) ==
  CASE test.kind = "from" -> row.time >= a[1]
    [] test.kind = "to" -> row.time < a[1]
    [] test.kind = "scope" -> row.scope = a[1]
    [] test.kind = "environment" -> row.env = a[1]
    [] test.kind = "trace" -> row.trace = a[1]
    [] test.kind = "service" -> row.service \in ToSet(a)
    [] test.kind = "severity" -> \E i \in 1 .. Len(a) \div 2 : row.severity \in a[2 * i - 1] .. a[2 * i]
    [] test.kind = "error" -> row.error
    [] test.kind = "ok" -> ~row.error
    [] test.kind = "duration" -> row.duration >= a[1]
    [] test.kind = "buckets" -> Floor(row.time, 5 * Minute) \in
                                  Floor(a[1], 5 * Minute) .. Floor(a[2], 5 * Minute)
    [] test.kind = "server" -> row.server
    [] test.kind = "search" -> Has(row.text, a[1]) \/ Has(row.service, a[2]) \/ Has(row.trace, a[3])
    [] test.kind = "map" -> MapHolds(test, a, row)
    [] test.kind = "json" -> JsonHolds(test, a, row)

\* A row passes the part of the statement that a condition adds.
SqlAttribute(row, c) ==
  LET part == AttributePart(c)[1] IN Holds(part.test, part.args, row)

\* Placeholders take the arguments from left to right: taken[i] by the first i tests.
Taken(tests) ==
  LET taken[i \in 0 .. Len(tests)] == IF i = 0 THEN 0 ELSE taken[i - 1] + tests[i].arity
  IN  taken
Chosen(statement, row) ==
  LET taken == Taken(statement.tests)
  IN  \A i \in DOMAIN statement.tests :
        Holds(statement.tests[i].test, SubSeq(statement.args, taken[i - 1] + 1, taken[i]), row)

\* ORDER BY: the time, then the columns one after the other.
KeyLess(a, b, columns) ==
  \E i \in DOMAIN columns :
    /\ a.keys[columns[i]] < b.keys[columns[i]]
    /\ \A j \in 1 .. i - 1 : a.keys[columns[j]] = b.keys[columns[j]]
SameKeys(a, b, columns) == \A i \in DOMAIN columns : a.keys[columns[i]] = b.keys[columns[i]]

\* Two rows that ORDER BY does not tell apart.
Tied(a, b, order) == a # b /\ a.time = b.time /\ SameKeys(a, b, order.columns)

\* Rows that are tied come in any order: place is the one of this execution.
Precedes(a, b, order, place) ==
  \/ IF order.oldestFirst THEN a.time < b.time ELSE a.time > b.time
  \/ /\ a.time = b.time
     /\ \/ KeyLess(a, b, order.columns)
        \/ SameKeys(a, b, order.columns) /\ place[a] < place[b]
Before(row, rows, order, place) == {a \in rows : Precedes(a, row, order, place)}
Ordered(rows, order, place) ==
  [n \in 1 .. Cardinality(rows) |->
     CHOOSE row \in rows : Cardinality(Before(row, rows, order, place)) = n - 1]
AtMost(a, b) == IF a <= b THEN a ELSE b
Page(s, limit, offset) == SubSeq(s, offset + 1, AtMost(offset + limit, Len(s)))
InOrder(S) == SelectSeq(Alphabet, LAMBDA x : x \in S)
Count(rows) == [requests |-> Cardinality(rows), errors |-> Cardinality({r \in rows : r.error})]
Group(rows, logs) ==
  {[bucket |-> Floor(r.time, Minute), severity |-> IF logs THEN Band(r.severity) ELSE Unset] : r \in rows}
InGroup(rows, g, logs) == {r \in rows : Group({r}, logs) = {g}}
Grouped(rows, logs) == {[key |-> g, count |-> Count(InGroup(rows, g, logs))] : g \in Group(rows, logs)}
Keys(rows, scope) == UNION {DOMAIN MapOf(scope, r) : r \in rows}

Run(statement, rows, logs, place) ==
  LET found == {r \in rows : Chosen(statement, r)}
  IN  CASE statement.select \in {"records", "detail"} ->
             Page(Ordered(found, statement.order, place), statement.limit, statement.offset)
        [] statement.select = "attributes" ->
             Page(InOrder({k \in Keys(found, statement.discovery) : Has(k, statement.key)}),
                  statement.limit, 0)
        [] statement.select = "services" -> Page(InOrder({r.service : r \in found}), statement.limit, 0)
        [] statement.select = "metrics" -> Grouped(found, logs)
        [] statement.select = "summary" -> Count(found)
-----------------------------------------------------------------------------
(* The mock store.                                                         *)

\* jsonChild: in arrays an index that counts from zero, in objects always a name.
MockChild(node, segment) ==
  LET named == {i \in DOMAIN node.members : node.members[i].name = segment.name}
  IN  CASE node.kind = "array" /\ segment.atoi >= 0 /\ segment.atoi + 1 \in DOMAIN node.members ->
             node.members[segment.atoi + 1].value
        [] node.kind = "object" /\ named # {} -> node.members[CHOOSE i \in named : TRUE].value
        [] OTHER -> Nothing

\* The nodes on the way, the document first.
MockNodes(document, path) ==
  LET node[i \in 0 .. Len(path)] == IF i = 0 THEN document ELSE MockChild(node[i - 1], path[i])
  IN  node

\* The text a condition is about.
SourceOf(row, c) ==
  LET m == MapOf(c.scope, row)
  IN  IF c.scope = "body" THEN row.body ELSE IF c.key \in DOMAIN m THEN m[c.key] ELSE Unset

MockAttribute(row, c) ==
  LET json == c.scope = "body" \/ c.path # <<>>
      stored == c.scope # "body" /\ c.key \in DOMAIN MapOf(c.scope, row)
      source == SourceOf(row, c)
      node == MockNodes(Parsed[source], PathOf(c))[Len(PathOf(c))]
      exists == IF json THEN node # Nothing ELSE stored
      text == IF json THEN node.text ELSE source
  IN  /\ json => source \in DOMAIN Parsed
      /\ CASE c.op = "exists" -> exists
           [] c.op = "missing" -> ~exists
           [] c.op \in {"eq", "neq", "contains"} -> exists /\ Satisfies(c.op, text, c.value)
           [] OTHER -> exists /\ text \in DOMAIN Number /\ Compare(c.op, Number[text], Number[c.value])

Includes(values, x) == values = <<>> \/ x \in ToSet(values)

Fits(row, r) ==
  /\ row.scope = r.scope /\ row.time >= r.from /\ row.time < r.to
  /\ r.env # Unset => row.env = r.env
  /\ r.trace # Unset => row.trace = r.trace
  /\ Includes(r.services, row.service)
  /\ ServerOnly(r) => row.server
  /\ IF r.signal = "logs" THEN Includes(r.severities, Band(row.severity))
     ELSE Includes(r.statuses, IF row.error THEN "error" ELSE "ok") /\ row.duration >= r.minDuration
  /\ IF r.search \in DOMAIN TraceOf THEN row.trace = TraceOf[r.search]
     ELSE Has(row.text, r.search) \/ Has(row.service, r.search) \/ Has(row.trace, r.search)

Matches(row, r) == Fits(row, r) /\ \A c \in ToSet(r.attributes) : MockAttribute(row, c)

\* page sorts by the time alone and leaves rows of one time as they were generated.
ByTime(r) == [oldestFirst |-> r.operation = "detail", columns |-> <<>>]

\* Store.Execute: the data, and the summary of trace metrics.
MockExecute(request, rows, generated) ==
  LET r == Discovering(request)
      found == {row \in rows : Matches(row, r)}
      sorted == Ordered(found, ByTime(r), generated)
      start == AtMost(r.offset, Len(sorted))
      end == AtMost(start + r.limit + 1, Len(sorted))
  IN  CASE r.operation \in {"records", "detail"} -> <<SubSeq(sorted, start + 1, end)>>
        [] r.operation = "attributes" ->
             <<Page(InOrder({k \in Keys(found, r.discovery) : Has(k, r.keySearch)}), MaxKeys + 1, 0)>>
        [] r.operation = "services" -> <<Page(InOrder({row.service : row \in found}), MaxServices, 0)>>
        [] r.operation = "metrics" -> <<Grouped(found, r.signal = "logs")>>
                                      \o If(r.signal = "traces", <<Count(found)>>)
-----------------------------------------------------------------------------
(* What is asked, and of what.                                             *)

RowOK(row) ==
  /\ row.id \in Nat /\ row.time \in Int /\ row.duration \in Nat
  /\ row.keys \in [{"trace", "span", "body"} -> Nat]
  /\ row.severity \in 0 .. 24 /\ {row.error, row.server} \subseteq BOOLEAN

ConditionOK(c) ==
  /\ c.value \in STRING /\ (c.scope # "body" => c.key \in STRING)
  /\ PathOf(c) \in Seq([name : STRING, index : Int, atoi : Int])
  /\ \A i \in DOMAIN PathOf(c) :
       /\ PathOf(c)[i].index >= -1 /\ PathOf(c)[i].atoi >= -1
       /\ PathOf(c)[i].index >= 0 => PathOf(c)[i].atoi = PathOf(c)[i].index

QuestionOK(p) ==
  /\ p \in [signal : {"logs", "traces"}, operation : STRING, from : Int, to : Int, q : STRING,
            attributes : Seq(ToSet(p.attributes)), service : Seq(STRING), severity : Seq(STRING),
            status : Seq(STRING), env : STRING, trace : STRING, limit : Int, offset : Int,
            minDuration : Int, discovery : STRING, keySearch : STRING]
  /\ \A c \in ToSet(p.attributes) : ConditionOK(c)
=============================================================================
