--------------------------- MODULE SimulatedTools ---------------------------
(***************************************************************************)
(* The six in-memory tools and their registry (tools/simulated_tools.py).  *)
(* Tools share no state, and the registry hands a request to one of them;  *)
(* one action is one request.  Each approved request is run on a registry  *)
(* of its own (execute_approved of the server); NewRegistry is that.       *)
(*                                                                         *)
(* A row is an object: tables hold references into heap, and so do the     *)
(* results that INSERT and SELECT return.  Numbers stand for ids.          *)
(***************************************************************************)
EXTENDS Integers, Sequences, FiniteSets

CONSTANTS
  Paths, Addresses, Endpoints, Tables,   \* the values parameters have
  MaxCalls,                              \* bound: requests
  MaxLives                               \* bound: registries

VARIABLES
  tool,         \* bound: the one tool that the requests of a behaviour name
  life,         \* how many registries there were before this one
  calls,        \* how many requests were executed
  files,        \* FileTool._files
  sentEmails,   \* EmailTool._sent_emails
  callLog,      \* APITool._call_log
  ledger, paymentCounter,      \* PaymentTool
  tables, rowCounter, heap,    \* DatabaseTool, and the rows it made
  scanResults, scanCounter,    \* SecurityScanTool
  last,         \* the last ToolResult
  renumbered,   \* history: the rows whose "_id" was written by an UPDATE
  issued        \* history: what the ids answered by this registry named

fileVars == files
emailVars == sentEmails
apiVars == callLog
payVars == <<ledger, paymentCounter>>
dbVars == <<tables, rowCounter, heap, renumbered>>
scanVars == <<scanResults, scanCounter>>
vars == <<tool, life, calls, fileVars, emailVars, apiVars, payVars, dbVars, scanVars,
          last, issued>>

-----------------------------------------------------------------------------
(* What a request asks for.                                                *)

\* The words an operation is searched for, in the order of each execute.
Words == [
    file          |-> <<"read", "write", "delete", "append">>,
    email         |-> <<"send">>,
    api           |-> <<"get", "post", "put", "delete", "patch">>,
    payment       |-> <<"transfer", "refund">>,
    database      |-> <<"select", "insert", "update", "drop", "delete">>,
    security_scan |-> <<"scan", "results", "access">>]

ToolNames == DOMAIN Words

\* An operation is the set of the words it contains; the first of them decides.
Method(t, operation) ==
    LET found == {i \in DOMAIN Words[t] : Words[t][i] \in operation}
    IN  IF found = {} THEN "unknown"
        ELSE Words[t][CHOOSE i \in found : \A j \in found : i <= j]

\* One word, none, or (as in "scan_results") several.
OperationsOf(t) ==
    LET words == {Words[t][i] : i \in DOMAIN Words[t]}
    IN  {{w} : w \in words} \cup {{}, words}

Missing == ""   \* a parameter that is absent or empty

\* A name is not empty, and a table is not called like another kind of id.
ASSUME NamesAssumption ==
    /\ Missing \notin Paths \cup Addresses \cup Tables
    /\ Tables \cap {"payment", "refund", "scan"} = {}

\* Contents; data and conditions of one column, which may be the one that holds the
\* row's id, or none.
Contents == {<<>>, <<"x">>, <<"y">>}
Columns == {[k |-> v] : v \in {1, 2}}
Nothing == [c \in {} |-> 0]
Conditions == Columns \cup {Nothing} \cup {[_id |-> v] : v \in {1, 2}}
Data == Conditions

-----------------------------------------------------------------------------
(* ToolResult.                                                             *)

Result(operation, success, result, metadata) ==
    [operation |-> operation, success |-> success, result |-> result,
     metadata |-> metadata]
Failed(operation) == last' = Result(operation, FALSE, {}, {})
Succeeded(operation, result, metadata) ==
    last' = Result(operation, TRUE, result, metadata)

\* validate_params of an empty dictionary, and an operation without a known word.
NoParameters == Failed("missing parameters")
UnknownOperation == Failed("unknown operation")

-----------------------------------------------------------------------------
(* FileTool.                                                               *)

Write(path, content) ==
    /\ files' = [p \in DOMAIN files \cup {path} |-> IF p = path THEN content ELSE files[p]]
    /\ Succeeded("file_write", {}, [path |-> path, size |-> Len(content)])

Read(path) ==
    /\ IF path \notin DOMAIN files THEN Failed("file_read")
       ELSE Succeeded("file_read", files[path], [path |-> path, size |-> Len(files[path])])
    /\ UNCHANGED files

Delete(path) ==
    IF path \notin DOMAIN files THEN Failed("file_delete") /\ UNCHANGED files
    ELSE /\ files' = [p \in DOMAIN files \ {path} |-> files[p]]
         /\ Succeeded("file_delete", {}, [path |-> path])

\* A missing file is made first.
AppendTo(path, content) ==
    LET old == IF path \in DOMAIN files THEN files[path] ELSE <<>>
        new == old \o content
    IN  /\ files' = [p \in DOMAIN files \cup {path} |-> IF p = path THEN new ELSE files[p]]
        /\ Succeeded("file_append", {}, [path |-> path, new_size |-> Len(new)])

FileExecute(operation) ==
    /\ \/ NoParameters /\ UNCHANGED files
       \/ \E path \in Paths \cup {Missing}, content \in Contents :
             LET method == Method("file", operation) IN
             \/ path = Missing /\ Failed("missing path") /\ UNCHANGED files
             \/ path # Missing /\ method = "read" /\ Read(path)
             \/ path # Missing /\ method = "write" /\ Write(path, content)
             \/ path # Missing /\ method = "delete" /\ Delete(path)
             \/ path # Missing /\ method = "append" /\ AppendTo(path, content)
             \/ path # Missing /\ method = "unknown" /\ UnknownOperation /\ UNCHANGED files
    /\ UNCHANGED <<emailVars, apiVars, payVars, dbVars, scanVars, issued>>

-----------------------------------------------------------------------------
(* EmailTool and APITool.                                                  *)

Send(to) ==
    IF to = Missing THEN Failed("email_send") /\ UNCHANGED sentEmails
    ELSE /\ sentEmails' = Append(sentEmails, [to |-> to])
         /\ Succeeded("email_send", {}, [to |-> to, sent_count |-> Len(sentEmails')])

EmailExecute(operation) ==
    /\ \/ NoParameters /\ UNCHANGED sentEmails
       \/ Method("email", operation) = "send"
            /\ \E to \in Addresses \cup {Missing} : Send(to)
       \/ Method("email", operation) = "unknown" /\ UnknownOperation /\ UNCHANGED sentEmails
    /\ UNCHANGED <<fileVars, apiVars, payVars, dbVars, scanVars, issued>>

Status == [get |-> 200, post |-> 201, put |-> 200, delete |-> 204, patch |-> 200]

\* Every method logs the call and answers from the mock data.
Request(method, endpoint) ==
    /\ callLog' = Append(callLog, [method |-> method, endpoint |-> endpoint])
    /\ Succeeded("api", {}, [method |-> method, endpoint |-> endpoint,
                             status_code |-> Status[method]])

\* A missing endpoint is the root.
APIExecute(operation) ==
    /\ \/ NoParameters /\ UNCHANGED callLog
       \/ /\ Method("api", operation) \in DOMAIN Status
          /\ \E endpoint \in Endpoints \cup {"/"} :
                Request(Method("api", operation), endpoint)
       \/ Method("api", operation) = "unknown" /\ UnknownOperation /\ UNCHANGED callLog
    /\ UNCHANGED <<fileVars, emailVars, payVars, dbVars, scanVars, issued>>

-----------------------------------------------------------------------------
(* PaymentTool.  Payments and refunds draw their numbers from one counter. *)

Issue(kind, id, what) == issued' = issued \cup {[kind |-> kind, id |-> id, what |-> what]}

\* Mutant: the number is drawn before the accounts are looked at.
TransferCountsFirst(amount, accounts) ==
    LET id == paymentCounter + 1 IN
    /\ paymentCounter' = id
    /\ IF amount <= 0 \/ ~accounts
         THEN Failed("payment_transfer") /\ UNCHANGED <<ledger, issued>>
       ELSE /\ ledger' = Append(ledger, [type |-> "transfer", id |-> id, of |-> 0,
                                         amount |-> amount])
            /\ Succeeded("payment_transfer", id,
                         [amount |-> amount, ledger_size |-> Len(ledger')])
            /\ Issue("payment", id, amount)

\* Accounts are given or not.
Transfer(amount, accounts) ==
    IF amount <= 0 \/ ~accounts
      THEN Failed("payment_transfer") /\ UNCHANGED <<payVars, issued>>
    ELSE LET id == paymentCounter + 1 IN
         /\ paymentCounter' = id
         /\ ledger' = Append(ledger, [type |-> "transfer", id |-> id, of |-> 0,
                                      amount |-> amount])
         /\ Succeeded("payment_transfer", id,
                      [amount |-> amount, ledger_size |-> Len(ledger')])
         /\ Issue("payment", id, amount)

\* Refunds have no "payment_id" of their own: only transfers are found.
Original(id) ==
    CHOOSE i \in DOMAIN ledger :
        /\ ledger[i].type = "transfer" /\ ledger[i].id = id
        /\ \A j \in 1 .. i - 1 : ledger[j].type # "transfer" \/ ledger[j].id # id

IsPaid(id) == \E i \in DOMAIN ledger : ledger[i].type = "transfer" /\ ledger[i].id = id

\* Any number of refunds of one payment: the ledger is not asked for earlier ones.
Refund(id) ==
    IF id = 0 \/ ~IsPaid(id) THEN Failed("payment_refund") /\ UNCHANGED <<payVars, issued>>
    ELSE LET refund == paymentCounter + 1
             amount == ledger[Original(id)].amount
         IN  /\ paymentCounter' = refund
             /\ ledger' = Append(ledger, [type |-> "refund", id |-> refund, of |-> id,
                                          amount |-> amount])
             /\ Succeeded("payment_refund", refund,
                          [amount |-> amount, ledger_size |-> Len(ledger')])
             /\ Issue("refund", refund, amount)

PaymentExecute(operation) ==
    /\ \/ NoParameters /\ UNCHANGED <<payVars, issued>>
       \/ /\ Method("payment", operation) = "transfer"
          /\ \E amount \in {0, 100, 200}, accounts \in BOOLEAN : Transfer(amount, accounts)
       \/ /\ Method("payment", operation) = "refund"
          /\ \E id \in 0 .. paymentCounter + 1 : Refund(id)
       \/ /\ Method("payment", operation) = "unknown"
          /\ UnknownOperation /\ UNCHANGED <<payVars, issued>>
    /\ UNCHANGED <<fileVars, emailVars, apiVars, dbVars, scanVars>>

-----------------------------------------------------------------------------
(* DatabaseTool.                                                           *)

Rows(t) == IF t \in DOMAIN tables THEN tables[t] ELSE Nothing

\* _get_table makes a table that is missing.
GetTable(t) ==
    rowCounter' = [u \in DOMAIN rowCounter \cup {t} |->
                     IF u \in DOMAIN rowCounter THEN rowCounter[u] ELSE 0]
SetRows(t, rows) ==
    tables' = [u \in DOMAIN tables \cup {t} |-> IF u = t THEN rows ELSE tables[u]]

Matches(row, where) == \A c \in DOMAIN where : row[c] = where[c]
Matching(t, where) == {id \in DOMAIN Rows(t) : Matches(heap[Rows(t)[id]], where)}

Select(t, where) ==
    IF t = Missing THEN Failed("db_select") /\ UNCHANGED dbVars
    ELSE /\ GetTable(t) /\ SetRows(t, Rows(t))
         /\ Succeeded("db_select", {Rows(t)[id] : id \in Matching(t, where)},
                      [table |-> t, row_count |-> Cardinality(Matching(t, where))])
         /\ UNCHANGED <<heap, renumbered>>

\* Mutant: the id is taken from the number of rows.
NextIdBySize(t) == Cardinality(DOMAIN Rows(t)) + 1

NextId(t) == IF t \in DOMAIN rowCounter THEN rowCounter[t] + 1 ELSE 1

\* The row is a copy of the data, but for its id; the other column may be missing (0).
Insert(t, data) ==
    IF t = Missing \/ data = Nothing THEN Failed("db_insert") /\ UNCHANGED <<dbVars, issued>>
    ELSE LET id == NextId(t)
             ref == Len(heap) + 1
             rows == [i \in DOMAIN Rows(t) \cup {id} |-> IF i = id THEN ref ELSE Rows(t)[i]]
         IN  /\ heap' = Append(heap, [k |-> IF "k" \in DOMAIN data THEN data.k ELSE 0, _id |-> id])
             /\ SetRows(t, rows)
             /\ rowCounter' = [u \in DOMAIN rowCounter \cup {t} |->
                                 IF u = t THEN id ELSE rowCounter[u]]
             /\ Succeeded("db_insert", {ref},
                          [table |-> t, row_id |-> id,
                           table_size |-> Cardinality(DOMAIN rows)])
             /\ Issue(t, id, ref)
             /\ UNCHANGED renumbered

Overwritten(row, data) ==
    [c \in {"k", "_id"} |-> IF c \in DOMAIN data THEN data[c] ELSE row[c]]

\* Without a condition every row is updated; the rows are changed in place, and what
\* the data says of "_id" is written like any other column.
Update(t, data, where) ==
    IF t = Missing THEN Failed("db_update") /\ UNCHANGED dbVars
    ELSE LET hit == {Rows(t)[id] : id \in Matching(t, where)} IN
         /\ GetTable(t) /\ SetRows(t, Rows(t))
         /\ heap' = [r \in DOMAIN heap |->
                       IF r \in hit THEN Overwritten(heap[r], data) ELSE heap[r]]
         /\ renumbered' = IF "_id" \in DOMAIN data THEN renumbered \cup hit ELSE renumbered
         /\ Succeeded("db_update", {},
                      [table |-> t, updated_count |-> Cardinality(hit)])

\* Mutant: no condition is needed.
DeleteRowAnyway(t, where) ==
    IF t = Missing THEN Failed("db_delete") /\ UNCHANGED dbVars
    ELSE LET gone == Matching(t, where) IN
         /\ GetTable(t)
         /\ SetRows(t, [id \in DOMAIN Rows(t) \ gone |-> Rows(t)[id]])
         /\ Succeeded("db_delete", {}, [table |-> t, where |-> where,
                                        deleted_count |-> Cardinality(gone)])
         /\ UNCHANGED <<heap, renumbered>>

\* A missing table is made before the condition is asked for.
DeleteRow(t, where) ==
    IF t = Missing THEN Failed("db_delete") /\ UNCHANGED dbVars
    ELSE LET gone == IF where = Nothing THEN {} ELSE Matching(t, where) IN
         /\ GetTable(t)
         /\ SetRows(t, [id \in DOMAIN Rows(t) \ gone |-> Rows(t)[id]])
         /\ IF where = Nothing THEN Failed("db_delete")
            ELSE Succeeded("db_delete", {}, [table |-> t, where |-> where,
                                             deleted_count |-> Cardinality(gone)])
         /\ UNCHANGED <<heap, renumbered>>

\* Mutant: the counter outlives its table.
DropRows(t) ==
    IF t = Missing THEN Failed("db_drop") /\ UNCHANGED <<dbVars, issued>>
    ELSE /\ tables' = [u \in DOMAIN tables \ {t} |-> tables[u]]
         /\ Succeeded("db_drop", {}, [table |-> t,
                                      dropped_rows |-> Cardinality(DOMAIN Rows(t))])
         /\ issued' = {x \in issued : x.kind # t}
         /\ UNCHANGED <<rowCounter, heap, renumbered>>

\* The counter goes with the table: ids start again when the table is made again.
Drop(t) ==
    IF t = Missing THEN Failed("db_drop") /\ UNCHANGED <<dbVars, issued>>
    ELSE /\ tables' = [u \in DOMAIN tables \ {t} |-> tables[u]]
         /\ rowCounter' = [u \in DOMAIN rowCounter \ {t} |-> rowCounter[u]]
         /\ Succeeded("db_drop", {}, [table |-> t,
                                      dropped_rows |-> Cardinality(DOMAIN Rows(t))])
         /\ issued' = {x \in issued : x.kind # t}
         /\ UNCHANGED <<heap, renumbered>>

DatabaseExecute(operation) ==
    /\ \/ NoParameters /\ UNCHANGED <<dbVars, issued>>
       \/ \E t \in Tables \cup {Missing}, where \in Conditions, data \in Data :
             LET method == Method("database", operation) IN
             \/ method = "select" /\ Select(t, where) /\ UNCHANGED issued
             \/ method = "insert" /\ Insert(t, data)
             \/ method = "update" /\ Update(t, data, where) /\ UNCHANGED issued
             \/ method = "drop" /\ Drop(t)
             \/ method = "delete" /\ DeleteRow(t, where) /\ UNCHANGED issued
             \/ method = "unknown" /\ UnknownOperation /\ UNCHANGED <<dbVars, issued>>
    /\ UNCHANGED <<fileVars, emailVars, apiVars, payVars, scanVars>>

-----------------------------------------------------------------------------
(* SecurityScanTool.                                                       *)

\* A full scan reports one vulnerability more.
RunScan(target, kind) ==
    LET id == scanCounter + 1
        found == [scan_id |-> id, target |-> target, scan_type |-> kind,
                  total |-> IF kind = "full" THEN 3 ELSE 2]
    IN  /\ scanCounter' = id
        /\ scanResults' = [i \in DOMAIN scanResults \cup {id} |->
                             IF i = id THEN found ELSE scanResults[i]]
        /\ Succeeded("security_scan", found, [vulnerability_count |-> found.total])
        /\ Issue("scan", id, found)

AccessResults(id) ==
    /\ IF id \notin DOMAIN scanResults THEN Failed("access_results")
       ELSE Succeeded("access_results", scanResults[id], [scan_id |-> id, cached |-> TRUE])
    /\ UNCHANGED <<scanVars, issued>>

ScanExecute(operation) ==
    /\ \/ NoParameters /\ UNCHANGED <<scanVars, issued>>
       \/ /\ Method("security_scan", operation) = "scan"
          /\ \E target \in Addresses, kind \in {"full", "quick"} : RunScan(target, kind)
       \/ /\ Method("security_scan", operation) \in {"results", "access"}
          /\ \E id \in 0 .. scanCounter + 1 : AccessResults(id)
       \/ /\ Method("security_scan", operation) = "unknown"
          /\ UnknownOperation /\ UNCHANGED <<scanVars, issued>>
    /\ UNCHANGED <<fileVars, emailVars, apiVars, payVars, dbVars>>

-----------------------------------------------------------------------------
(* ToolRegistry.                                                           *)

toolVars == <<fileVars, emailVars, apiVars, payVars, dbVars, scanVars, issued>>

Init ==
    /\ files = Nothing /\ sentEmails = <<>> /\ callLog = <<>>
    /\ ledger = <<>> /\ paymentCounter = 0
    /\ tables = Nothing /\ rowCounter = Nothing /\ heap = <<>> /\ renumbered = {}
    /\ scanResults = Nothing /\ scanCounter = 0 /\ issued = {}
    /\ tool \in ToolNames \cup {"other"} /\ life = 0 /\ calls = 0
    /\ last = Result("none", TRUE, {}, {})

\* create_default_registry
NewRegistry ==
    /\ life < MaxLives /\ life' = life + 1
    /\ files' = Nothing /\ sentEmails' = <<>> /\ callLog' = <<>>
    /\ ledger' = <<>> /\ paymentCounter' = 0
    /\ tables' = Nothing /\ rowCounter' = Nothing /\ heap' = <<>> /\ renumbered' = {}
    /\ scanResults' = Nothing /\ scanCounter' = 0 /\ issued' = {}
    /\ UNCHANGED <<tool, calls, last>>

\* A request without a tool name, or with one that is not registered, fails.
Execute ==
    /\ calls < MaxCalls /\ calls' = calls + 1
    /\ UNCHANGED <<tool, life>>
    /\ IF tool = "other" THEN Failed("tool not found") /\ UNCHANGED toolVars
       ELSE \E operation \in OperationsOf(tool) :
              CASE tool = "file" -> FileExecute(operation)
                [] tool = "email" -> EmailExecute(operation)
                [] tool = "api" -> APIExecute(operation)
                [] tool = "payment" -> PaymentExecute(operation)
                [] tool = "database" -> DatabaseExecute(operation)
                [] tool = "security_scan" -> ScanExecute(operation)

Next == Execute \/ NewRegistry

Spec == Init /\ [][Next]_vars

-----------------------------------------------------------------------------
(* Properties.                                                             *)

\* Every variable holds a value of its type, and tables and counters go together.
TypeOK ==
    /\ \A p \in DOMAIN files : p \in Paths /\ files[p] \in Seq({"x", "y"})
    /\ sentEmails \in Seq([to : Addresses])
    /\ callLog \in Seq([method : DOMAIN Status, endpoint : Endpoints \cup {"/"}])
    /\ ledger \in Seq([type : {"transfer", "refund"}, id : Nat \ {0}, of : Nat,
                       amount : Nat \ {0}])
    /\ DOMAIN tables = DOMAIN rowCounter
    /\ \A t \in DOMAIN tables : \A id \in DOMAIN tables[t] :
          id \in 1 .. rowCounter[t] /\ tables[t][id] \in DOMAIN heap
    /\ renumbered \subseteq DOMAIN heap
    /\ DOMAIN scanResults = 1 .. scanCounter

\* The rows of the table are found by the ids they were given: no UPDATE has written
\* another "_id" into one of them.
AsNumbered(t) == \A id \in DOMAIN Rows(t) : Rows(t)[id] \notin renumbered

\* An id that was answered names the same thing as long as its registry (for a row,
\* its table) lives, or nothing any more: the payment with its amount, the scan, the
\* row; whatever was refunded, updated, deleted and inserted in between.  No id is
\* answered for two things, a refund pays back what its payment took, and asking a
\* table for an id finds that row alone, unless an UPDATE wrote the column "_id".
IdsKeepTheirMeaning ==
    /\ \A x, y \in issued : x.kind = y.kind /\ x.id = y.id => x = y
    /\ \A x \in issued :
          /\ x.kind = "payment" => IsPaid(x.id) /\ ledger[Original(x.id)].amount = x.what
          /\ x.kind = "scan" => scanResults[x.id] = x.what
          /\ x.kind \in DOMAIN tables /\ x.id \in DOMAIN tables[x.kind]
                => tables[x.kind][x.id] = x.what
          /\ x.kind \in DOMAIN tables /\ AsNumbered(x.kind)
                => Matching(x.kind, [_id |-> x.id]) = {x.id} \cap DOMAIN tables[x.kind]
    /\ \A i \in DOMAIN ledger : ledger[i].type = "refund" =>
          \E j \in 1 .. i - 1 : /\ ledger[j].type = "transfer" /\ ledger[j].id = ledger[i].of
                                /\ ledger[j].amount = ledger[i].amount

\* A request that is answered with success = False changed nothing a later request
\* could see, but that an empty table may exist.
Visible == <<files, sentEmails, callLog, ledger, paymentCounter, heap, scanResults,
             [t \in Tables |-> Rows(t)], [t \in Tables |-> NextId(t)]>>

FailureChangesNothing ==
    [][calls' # calls /\ ~last'.success => UNCHANGED Visible]_vars

\* Rows leave a table by DROP of the table, or by DELETE with a condition that they
\* fulfil; and the number that is reported is the number that left.
RowsLeaveOnlyWhenAsked ==
    [][\A t \in Tables :
          LET gone == DOMAIN Rows(t) \ DOMAIN (Rows(t)')
          IN  calls' # calls /\ gone # {} =>
                /\ last'.metadata.table = t
                /\ \/ /\ last'.operation = "db_drop"
                      /\ last'.metadata.dropped_rows = Cardinality(gone)
                   \/ /\ last'.operation = "db_delete"
                      /\ last'.metadata.where # Nothing
                      /\ \A id \in gone : Matches(heap[Rows(t)[id]], last'.metadata.where)
                      /\ last'.metadata.deleted_count = Cardinality(gone)]_vars
=============================================================================
