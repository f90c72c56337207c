---------------------------- MODULE MCQueryService ----------------------------
(* Instances of QueryService for TLC: a minute is 2 ticks.  The window of   *)
(* most questions is [8, 18): it begins and ends inside five-minute buckets *)
(* of the log table, which are 10 ticks; [10, 20) is aligned with them.     *)
EXTENDS QueryService

None == [k \in {} |-> ""]
Leaf(kind, text) == [kind |-> kind, raw |-> text, text |-> text, members |-> <<>>]
Member(name, value) == [name |-> name, value |-> value]
Object(members) == [kind |-> "object", raw |-> "{b,a}", text |-> "{a,b}", members |-> members]
Array(values) == [kind |-> "array", raw |-> "[]", text |-> "[]",
                  members |-> [i \in DOMAIN values |-> Member("", values[i])]]

Documents ==
  [order |-> Object(<<Member("order", Object(<<Member("id", Leaf("string", "first order")),
                                              Member("total", Leaf("number", "40"))>>)),
                      Member("items", Array(<<Leaf("number", "7"), Leaf("string", "40")>>)),
                      Member("7", Leaf("number", "40"))>>),
   empty |-> Object(<<Member("order", Leaf("null", "null"))>>)]
Json == Documents @@ ("40" :> Leaf("number", "40")) @@ ("7" :> Leaf("number", "7"))
Numbers == ("40" :> 40) @@ ("7" :> 7) @@ ("-1" :> -1)
Contained ==
  {<<"check", "checkout">>, <<"CHECK", "checkout">>, <<"checkout", "checkout">>,
   <<"ace", "trace1">>, <<"ace", "trace2">>, <<"order", "first order">>, <<"order", "order">>,
   <<"4", "40">>, <<"st", "first order">>, <<"k", "k">>, <<"ost", "host">>}
Traces == [trace1 |-> "trace1", TRACE1 |-> "trace1"]
Names == <<"api", "checkout", "host", "k", "tenant.id">>

\* The tenant is an attribute of the resource too.
Record(id, time, scope) ==
  [id |-> id, time |-> time, keys |-> [trace |-> 1, span |-> id, body |-> 1], scope |-> scope,
   env |-> "local", trace |-> "trace1", service |-> "api", text |-> "plain", severity |-> 9,
   error |-> FALSE, duration |-> 3, server |-> TRUE, resource |-> ("tenant.id" :> scope), attributes |-> None, body |-> "plain"]

\* On both edges of the windows, in both scopes, of every kind; ORDER BY does
\* not tell the second row from the sixth.
Collected ==
  {[Record(1, 8, "ours") EXCEPT !.attributes = ("k" :> "40"), !.severity = 0, !.text = "40", !.body = "40",
      !.keys = [@ EXCEPT !.body = 3]],
   [Record(2, 10, "ours") EXCEPT !.service = "checkout", !.text = "order", !.body = "order",
      !.keys = [@ EXCEPT !.body = 2], !.error = TRUE, !.severity = 17, !.attributes = ("k" :> "order")],
   [Record(3, 17, "ours") EXCEPT !.trace = "trace2", !.keys = [@ EXCEPT !.trace = 2, !.body = 0], !.env = "prod",
      !.server = FALSE, !.text = "empty", !.body = "empty", !.severity = 24, !.duration = 9,
      !.attributes = ("host" :> "checkout"), !.resource = ("tenant.id" :> "ours") @@ ("host" :> "7")],
   [Record(4, 18, "ours") EXCEPT !.severity = 13],
   Record(5, 12, "theirs"),
   [Record(6, 10, "ours") EXCEPT !.keys = [@ EXCEPT !.span = 2, !.body = 2], !.server = FALSE, !.text = "order",
      !.body = "order", !.attributes = ("k" :> "7")]}

\* As they were generated, or the other way round.
InOrderOfRows == [row \in Collected |-> row.id]
BothWays == {InOrderOfRows, [row \in Collected |-> 10 - row.id]}

Plain ==
  [signal |-> "logs", operation |-> "records", from |-> 8, to |-> 18, q |-> "", attributes |-> <<>>,
   service |-> <<>>, severity |-> <<>>, status |-> <<>>, env |-> "", trace |-> "",
   limit |-> 3, offset |-> 0, minDuration |-> 0, discovery |-> "log", keySearch |-> ""]
Spans(operation) == [Plain EXCEPT !.signal = "traces", !.operation = operation, !.discovery = "span"]

Step(name) == [name |-> name, index |-> -1, atoi |-> -1]
Nth(i) == [name |-> IF i = 7 THEN "7" ELSE "", index |-> i, atoi |-> i]
PlusOne == [name |-> "+1", index |-> -1, atoi |-> 1]
Condition(scope, key, op, value, path) ==
  [scope |-> scope, key |-> key, op |-> op, value |-> value, path |-> path]
InBody(path, op, value) == Condition("body", path, op, value, <<>>)
With(c) == [Plain EXCEPT !.attributes = <<c>>]

Pages ==
  {[Plain EXCEPT !.limit = 1], [Plain EXCEPT !.limit = 2, !.from = 0, !.to = 19],
   [Spans("detail") EXCEPT !.limit = 1, !.trace = "trace1", !.from = 5, !.to = 20],
   [Plain EXCEPT !.limit = 1, !.offset = 1], [Spans("records") EXCEPT !.limit = 2]}

Charts ==
  {[Plain EXCEPT !.operation = "metrics"], [Plain EXCEPT !.operation = "metrics", !.from = 7, !.to = 19],
   [Plain EXCEPT !.operation = "metrics", !.from = 17, !.to = 19], Spans("metrics"), [Spans("metrics") EXCEPT !.from = 0, !.status = <<"error">>],
   [Plain EXCEPT !.operation = "metrics", !.from = 10, !.to = 20,
      !.severity = <<"error", "fatal", "error", "unspecified">>]}

Lists ==
  {[Plain EXCEPT !.operation = "services", !.q = "none", !.severity = <<"warn">>],
   [Spans("services") EXCEPT !.service = <<"checkout">>],
   [Plain EXCEPT !.operation = "attributes", !.limit = 1, !.q = "none"],
   [Plain EXCEPT !.operation = "attributes", !.discovery = "resource"],
   [Spans("attributes") EXCEPT !.keySearch = "ost"], [Plain EXCEPT !.operation = "attributes", !.keySearch = "ost"]}

Filtered ==
  {[Plain EXCEPT !.service = <<"checkout", "api">>, !.env = "prod"], [Plain EXCEPT !.service = <<"">>],
   [Plain EXCEPT !.severity = <<"fatal", "unspecified">>], [Plain EXCEPT !.status = <<"error">>],
   [Spans("detail") EXCEPT !.status = <<"ok", "error">>, !.minDuration = 4],
   [Spans("records") EXCEPT !.status = <<"ok">>], [Plain EXCEPT !.q = "CHECK"], [Plain EXCEPT !.q = "ace"],
   [Plain EXCEPT !.q = "TRACE1"], [Spans("detail") EXCEPT !.q = "order"]}

Attributed ==
  {With(Condition("log", "k", "exists", "", <<>>)), With(Condition("resource", "host", "missing", "", <<>>)),
   With(Condition("log", "k", "neq", "40", <<>>)), With(Condition("log", "k", "gte", "7", <<>>)),
   With(Condition("resource", "host", "lt", "40", <<>>)), With(Condition("log", "k", "contains", "4", <<>>)),
   With(Condition("log", "k", "eq", "first order", <<Step("order"), Step("id")>>)),
   With(Condition("log", "k", "missing", "", <<Step("order")>>)),
   With(InBody(<<Step("items"), Nth(0)>>, "lt", "40")), With(InBody(<<Step("items"), Nth(1)>>, "eq", "40")),
   With(InBody(<<Step("items"), Nth(2)>>, "missing", "")), With(InBody(<<Step("order")>>, "exists", "")),
   With(InBody(<<Step("order"), Step("id")>>, "contains", "st")),
   [With(InBody(<<Step("order"), Step("total")>>, "gt", "7")) EXCEPT
      !.attributes = @ \o <<Condition("resource", "tenant.id", "neq", "theirs", <<>>)>>, !.q = "order"],
   With(Condition("resource", "tenant.id", "eq", "theirs", <<>>))}

\* A path or a value that the two stores do not read alike.
Misread ==
  {With(InBody(<<Step("items"), PlusOne>>, "eq", "40")), With(InBody(<<Nth(7)>>, "exists", "")),
   With(InBody(<<Step("order")>>, "eq", "{a,b}"))}

Refused ==
  {[Plain EXCEPT !.from = 18], [Plain EXCEPT !.from = 5, !.to = 30], [Plain EXCEPT !.limit = 4],
   [Plain EXCEPT !.offset = 3], [Spans("records") EXCEPT !.minDuration = 10], [Plain EXCEPT !.severity = <<"", "warn">>], [Plain EXCEPT !.operation = "detail"],
   [Plain EXCEPT !.status = <<"ok", "ok", "ok">>], [Plain EXCEPT !.operation = "attributes", !.discovery = "span"],
   [Spans("records") EXCEPT !.attributes = <<InBody(<<Step("order")>>, "exists", "")>>],
   With(Condition("log", "k", "gt", "many", <<>>)), With(Condition("log", "k", "exists", "7", <<>>))}

Asked == Pages \cup Charts \cup Lists \cup Filtered \cup Attributed \cup Misread \cup Refused
===============================================================================
