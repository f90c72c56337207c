---------------------------- MODULE QueryService ----------------------------
(***************************************************************************)
(* A client of the telemetry endpoints: a question is parsed, compiled,    *)
(* executed statement by statement and answered, and the next page is      *)
(* asked for, while the collector goes on storing rows.  With MOCK the     *)
(* same question is answered from a fixed set of rows.                     *)
(***************************************************************************)
EXTENDS TelemetryQuery

CONSTANTS Rows,        \* rows that may be stored
          Questions,   \* parameters a client may send
          Scope,       \* the organization's scope, from the principal
          Places,      \* orders in which ClickHouse may return rows that are tied
          Generated    \* the order of the mock store's rows

ASSUME ServiceAssumption ==
  /\ IsFiniteSet(Rows) /\ \A row \in Rows : RowOK(row)
  /\ \A a, b \in Rows : a.id = b.id => a = b
  /\ Scope \in STRING /\ \A p \in Questions : QuestionOK(p)
  /\ \A place \in Places \cup {Generated} :
       place \in [Rows -> Nat] /\ \A a, b \in Rows : place[a] = place[b] => a = b

VARIABLES mock,     \* MOCK
          stored,   \* the rows of the table
          phase,    \* idle, refused, executing, answered
          ask,      \* the parameters of the question
          result,   \* results of the statements executed so far
          answer,   \* the response: [data, truncated, next, summary]
          first,    \* history: the rows stored when a walk from offset 0 began
          given     \* history: the rows of the pages so far

walk == <<first, given>>
vars == <<mock, stored, phase, ask, result, answer, walk>>

Logs(r) == r.signal = "logs"
Request == Parse(ask, Scope)
Statements == Compile(Request)
NoQuestion == [limit |-> 0, offset |-> 0]
NoAnswer == [data |-> <<>>, truncated |-> FALSE, next |-> 0, summary |-> <<>>]

Init ==
  /\ mock \in BOOLEAN /\ stored = IF mock THEN Rows ELSE {}
  /\ phase = "idle" /\ ask = NoQuestion /\ result = <<>> /\ answer = NoAnswer
  /\ first = {} /\ given = {}
-----------------------------------------------------------------------------
\* The collector inserts a row, at any time of the past.
Insert(row) ==
  /\ ~mock /\ row \notin stored /\ stored' = stored \cup {row}
  /\ UNCHANGED <<mock, phase, ask, result, answer, walk>>

(* ParseRequest: 400, or a request that executes.                          *)
Ask(p) ==
  /\ phase = "idle" /\ ask' = p
  /\ phase' = IF Accepted(p, Scope) THEN "executing" ELSE "refused"
  /\ first' = IF p.offset = 0 THEN stored ELSE {}
  /\ given' = {}
  /\ UNCHANGED <<mock, stored, result, answer>>

(* QueryHandler: one statement after the other, each on its own snapshot   *)
(* and with its own order of the rows that ORDER BY does not tell apart.   *)
Execute ==
  /\ phase = "executing" /\ ~mock /\ Len(result) < Len(Statements)
  /\ \E place \in Places :
       result' = Append(result, Run(Statements[Len(result) + 1], stored, Logs(Request), place))
  /\ UNCHANGED <<mock, stored, phase, ask, answer, walk>>

\* Handler: the mock store answers in one go.
ExecuteMock ==
  /\ phase = "executing" /\ mock /\ result = <<>>
  /\ result' = MockExecute(Request, stored, Generated)
  /\ UNCHANGED <<mock, stored, phase, ask, answer, walk>>

\* Slip: From is not truncated, so an unaligned window loses its first minute.
BucketsFromNext(r) == {b \in r.from .. r.to - 1 : b % Minute = 0}

Buckets(r) == {b \in Floor(r.from, Minute) .. r.to - 1 : b % Minute = 0}
BandsOf(r) == IF Logs(r) THEN ToSet(Bands) ELSE {Unset}

(* FillBuckets: a row for every minute and band, partial at both ends.     *)
FillBuckets(data, r) ==
  [k \in [bucket : Buckets(r), severity : BandsOf(r)] |->
     [count |-> IF \E d \in data : d.key = k THEN (CHOOSE d \in data : d.key = k).count
                ELSE [requests |-> 0, errors |-> 0],
      partial |-> k.bucket < r.from \/ k.bucket + Minute > r.to]]

\* Slip: the next page begins after the extra row, which was never shown.
ResponseSkippingExtra(r, data, summary) ==
  LET truncated == Listed(r) /\ Len(data) > r.limit
  IN  [data |-> IF truncated THEN SubSeq(data, 1, r.limit)
                ELSE IF r.operation = "metrics" THEN FillBuckets(data, r) ELSE data,
       truncated |-> truncated, summary |-> summary,
       next |-> IF truncated /\ r.offset + r.limit <= MaxOffset /\ r.operation # "attributes"
                THEN r.offset + r.limit + 1 ELSE 0]

(* WriteResponse: the extra row of a list only says that there is more.    *)
Response(r, data, summary) ==
  LET truncated == Listed(r) /\ Len(data) > r.limit
  IN  [data |-> IF truncated THEN SubSeq(data, 1, r.limit)
                ELSE IF r.operation = "metrics" THEN FillBuckets(data, r) ELSE data,
       truncated |-> truncated, summary |-> summary,
       next |-> IF truncated /\ r.offset + r.limit <= MaxOffset /\ r.operation # "attributes"
                THEN r.offset + r.limit ELSE 0]

Paged(r) == r.operation \in {"records", "detail"}

Respond ==
  LET r == Request
      response == Response(r, result[1], Tail(result))
  IN  /\ phase = "executing" /\ Len(result) = Len(Statements)
      /\ phase' = "answered" /\ answer' = response /\ result' = <<>>
      /\ given' = IF Paged(r) THEN given \cup ToSet(response.data) ELSE given
      /\ UNCHANGED <<mock, stored, ask, first>>

\* The client follows nextOffset with the same window.
Follow ==
  /\ phase = "answered" /\ answer.next > 0
  /\ LET p == [ask EXCEPT !.offset = answer.next]
     IN  ask' = p /\ phase' = IF Accepted(p, Scope) THEN "executing" ELSE "refused"
  /\ answer' = NoAnswer
  /\ UNCHANGED <<mock, stored, result, walk>>

\* A statement fails (503), or the client leaves the page.
Leave ==
  /\ phase # "idle" /\ phase' = "idle" /\ ask' = NoQuestion
  /\ result' = <<>> /\ answer' = NoAnswer /\ first' = {} /\ given' = {}
  /\ UNCHANGED <<mock, stored>>

Next ==
  \/ \E row \in Rows : Insert(row)
  \/ \E p \in Questions : Ask(p)
  \/ Execute \/ ExecuteMock \/ Respond \/ Follow \/ Leave

Spec == Init /\ [][Next]_vars
-----------------------------------------------------------------------------
(* Both stores follow a path through a document alike: digits address      *)
(* arrays and nothing else does, and what is found is written alike.       *)
ReadAlike(document, path) ==
  LET node == MockNodes(document, path)
      last == node[Len(path)]
  IN  /\ \A i \in DOMAIN path :
           /\ node[i - 1].kind = "array" => path[i].atoi = path[i].index
           /\ node[i - 1].kind = "object" => path[i].index < 0
      /\ last.kind = "string" \/ last.raw = last.text
Readable(row, c) ==
  (c.scope = "body" \/ c.path # <<>>) /\ SourceOf(row, c) \in DOMAIN Parsed =>
    ReadAlike(Parsed[SourceOf(row, c)], PathOf(c))

\* The mock store's rows of one time are in the order of the statement.
GeneratedInOrder ==
  \A a, b \in stored : a.time = b.time /\ KeyLess(a, b, OrderBy(Request).columns) => Generated[a] < Generated[b]

\* Over the stored rows the statements yield what the mock store answers.
SameAnswer ==
  [i \in DOMAIN Statements |-> Run(Statements[i], stored, Logs(Request), Generated)]
    = MockExecute(Request, stored, Generated)

(***************************************************************************)
(* The mock store and the SQL compiler, two implementations of one         *)
(* request, agree: over the same rows the statements, with their arguments *)
(* bound by position, yield what the mock store answers.  Where they do    *)
(* not is named in the premise: documents they read in two ways, and rows  *)
(* of one time that the mock store keeps as they were generated.           *)
(***************************************************************************)
MockAgreesWithDatabase ==
  /\ phase = "executing" /\ result = <<>>
  /\ \A row \in stored, c \in ToSet(Request.attributes) : Readable(row, c)
  /\ GeneratedInOrder
  => SameAnswer

(***************************************************************************)
(* Isolation: no filter of a client widens the scope; the rows of every    *)
(* page belong to the organization and lie in the window asked for.        *)
(***************************************************************************)
AnswersStayInScope ==
  \A row \in given : row.scope = Scope /\ row.time \in From(ask) .. ask.to - 1

\* All that the buckets of an answer count.
Counted(data) == Cardinality(UNION {{k} \X (1 .. data[k].count.requests) : k \in DOMAIN data})

\* The rows that match, each condition read as the store that answers reads it.
Selected(row, r, fake) ==
  /\ Fits(row, r)
  /\ \A c \in ToSet(r.attributes) : IF fake THEN MockAttribute(row, c) ELSE SqlAttribute(row, c)
Matching(rows) == {row \in rows : Selected(row, Request, mock)}

(***************************************************************************)
(* The minutes and bands of a chart account for every row that matches:    *)
(* none falls between two bands, out of the window's first or last minute  *)
(* or into two buckets, and the summary, read later, has at least as many. *)
(***************************************************************************)
CountsComplete ==
  phase = "answered" /\ Request.operation = "metrics" /\ ask.offset = 0 =>
    /\ Counted(answer.data) >= Cardinality(Matching(first))
    /\ Counted(answer.data) <= Cardinality(Matching(stored))
    /\ answer.summary # <<>> => answer.summary[1].requests >= Counted(answer.data)

(***************************************************************************)
(* API.md:68-69: a client that follows nextOffset to an answer that is not *)
(* truncated has seen every matching row that was there when it began,     *)
(* whatever was stored meanwhile; in the database except for rows that     *)
(* ORDER BY does not tell from another matching row, whose order may       *)
(* change from one page to the next.                                       *)
(***************************************************************************)
PagesMissNothing ==
  phase = "answered" /\ Paged(Request) /\ ~answer.truncated =>
    \A row \in Matching(first) :
      \/ row \in given
      \/ ~mock /\ \E twin \in Matching(stored) : Tied(row, twin, OrderBy(Request))
=============================================================================
