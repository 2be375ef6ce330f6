------------------------ MODULE SimulatedToolsProofs ------------------------
(***************************************************************************)
(* Theorems about SimulatedTools, for every set of paths, addresses,       *)
(* endpoints and tables and any number of requests.                        *)
(***************************************************************************)
EXTENDS SimulatedTools, SequenceTheorems, TLAPS

USE NamesAssumption DEF Missing

\* The requests of a behaviour name one tool, or none that is registered.
ToolOK == tool \in ToolNames \cup {"other"}

\* A request changes the state of its own tool only.
LEMMA OneToolAtATime ==
    ASSUME ToolOK, Execute
    PROVE  \/ UNCHANGED toolVars /\ ~last'.success
           \/ \E operation \in OperationsOf(tool) :
                 \/ FileExecute(operation) \/ EmailExecute(operation)
                 \/ APIExecute(operation) \/ PaymentExecute(operation)
                 \/ DatabaseExecute(operation) \/ ScanExecute(operation)
<1>1. CASE tool = "other"
  <2>1. last' = [operation |-> "tool not found", success |-> FALSE, result |-> {},
                 metadata |-> {}]
        BY <1>1 DEF Execute, Failed, Result
  <2> QED BY <1>1, <2>1 DEF Execute
<1>2. CASE tool # "other"
  <2>1. tool \in {"file", "email", "api", "payment", "database", "security_scan"}
        BY <1>2 DEF ToolOK, ToolNames, Words
  <2>2. PICK operation \in OperationsOf(tool) :
              CASE tool = "file" -> FileExecute(operation)
                [] tool = "email" -> EmailExecute(operation)
                [] tool = "api" -> APIExecute(operation)
                [] tool = "payment" -> PaymentExecute(operation)
                [] tool = "database" -> DatabaseExecute(operation)
                [] tool = "security_scan" -> ScanExecute(operation)
        BY <1>2 DEF Execute
  <2> QED BY <2>1, <2>2, Zenon
<1> QED BY <1>1, <1>2

\* The rows of a table after its entry in tables was written.
LEMMA RowsSet ==
    ASSUME NEW t, NEW rows, SetRows(t, rows)
    PROVE  \A u : Rows(u)' = IF u = t THEN rows ELSE Rows(u)
BY DEF SetRows, Rows

\* The requests after which a table holds less than before.
LEMMA DatabaseRows ==
    ASSUME NEW operation, DatabaseExecute(operation), NEW t,
           DOMAIN Rows(t) \ DOMAIN (Rows(t)') # {}
    PROVE  /\ t # Missing
           /\ \/ Drop(t) /\ DOMAIN (Rows(t)') = {}
              \/ \E where \in Conditions \ {Nothing} :
                    /\ DeleteRow(t, where)
                    /\ DOMAIN (Rows(t)') = DOMAIN Rows(t) \ Matching(t, where)
<1>1. tables' # tables
      BY DEF Rows
<1>2. PICK u \in Tables \cup {Missing}, where \in Conditions,
           data \in Data :
            \/ Select(u, where) \/ Insert(u, data) \/ Update(u, data, where)
            \/ Drop(u) \/ DeleteRow(u, where)
  <2>1. ~UNCHANGED <<dbVars, issued>> /\ ~UNCHANGED dbVars
        BY <1>1 DEF dbVars
  <2> HIDE DEF Missing
  <2> QED BY <2>1 DEF DatabaseExecute
<1>3. u # Missing
      BY <1>1, <1>2 DEF dbVars, Select, Insert, Update, Drop, DeleteRow
<1>4. ASSUME Select(u, where) \/ Update(u, data, where)
      PROVE  FALSE
  <2>1. SetRows(u, Rows(u))
        BY <1>1, <1>3, <1>4 DEF Select, Update, dbVars
  <2> QED BY <2>1, RowsSet
<1>5. ASSUME Insert(u, data)
      PROVE  FALSE
  <2>1. SetRows(u, [i \in DOMAIN Rows(u) \cup {NextId(u)} |->
                       IF i = NextId(u) THEN Len(heap) + 1 ELSE Rows(u)[i]])
        BY <1>1, <1>5 DEF Insert, dbVars
  <2>2. DOMAIN (Rows(u)') = DOMAIN Rows(u) \cup {NextId(u)}
        /\ \A v : v # u => Rows(v)' = Rows(v)
        BY <2>1 DEF SetRows, Rows
  <2> QED BY <2>2
<1>6. ASSUME Drop(u)
      PROVE  u = t /\ DOMAIN (Rows(t)') = {}
      BY <1>3, <1>6 DEF Drop, Rows, Nothing
<1>7. ASSUME DeleteRow(u, where)
      PROVE  /\ u = t /\ where # Nothing
             /\ DOMAIN (Rows(t)') = DOMAIN Rows(t) \ Matching(t, where)
  <2> DEFINE gone == IF where = Nothing THEN {} ELSE Matching(u, where)
  <2>1. SetRows(u, [id \in DOMAIN Rows(u) \ gone |-> Rows(u)[id]])
        BY <1>3, <1>7 DEF DeleteRow
  <2>2. \A v : Rows(v)' = IF v = u THEN [id \in DOMAIN Rows(u) \ gone |-> Rows(u)[id]]
                                   ELSE Rows(v)
        BY <2>1, RowsSet
  <2>3. u = t /\ DOMAIN (Rows(t)') = DOMAIN Rows(t) \ gone
        BY <2>2
  <2> QED BY <2>3
<1> QED BY <1>2, <1>3, <1>4, <1>5, <1>6, <1>7

\* The bound of the module: requests name one tool.
THEOREM ToolInvariant == Spec => []ToolOK
<1>1. Init => ToolOK
      BY DEF Init, ToolOK
<1>2. ToolOK /\ [Next]_vars => ToolOK'
      BY DEF ToolOK, Next, Execute, NewRegistry, vars
<1> QED BY <1>1, <1>2, PTL DEF Spec

\* Rows leave a table only when that is asked for: the property of the same name,
\* for every table and any contents.
THEOREM RowsLeaveOnlyWhenAskedAlways == Spec => RowsLeaveOnlyWhenAsked
<1> DEFINE Gone(t) == DOMAIN Rows(t) \ DOMAIN (Rows(t)')
           Asked(t) ==
                /\ last'.metadata.table = t
                /\ \/ /\ last'.operation = "db_drop"
                      /\ last'.metadata.dropped_rows = Cardinality(Gone(t))
                   \/ /\ last'.operation = "db_delete"
                      /\ last'.metadata.where # Nothing
                      /\ \A id \in Gone(t) : Matches(heap[Rows(t)[id]], last'.metadata.where)
                      /\ last'.metadata.deleted_count = Cardinality(Gone(t))
<1>1. ASSUME ToolOK, [Next]_vars, NEW t \in Tables, calls' # calls, Gone(t) # {}
      PROVE  Asked(t)
  <2>1. Execute
        BY <1>1 DEF Next, NewRegistry, vars
  <2>2. tables' # tables
        BY <1>1 DEF Rows
  <2>3. PICK operation : DatabaseExecute(operation)
        BY <1>1, <2>1, <2>2, OneToolAtATime DEF toolVars, dbVars, FileExecute,
           EmailExecute, APIExecute, PaymentExecute, ScanExecute
  <2>4. CASE Drop(t) /\ DOMAIN (Rows(t)') = {}
    <3>1. Gone(t) = DOMAIN Rows(t)
          BY <2>4
    <3>2. last' = [operation |-> "db_drop", success |-> TRUE, result |-> {},
                   metadata |-> [table |-> t,
                                 dropped_rows |-> Cardinality(DOMAIN Rows(t))]]
          BY <1>1, <2>4 DEF Drop, Succeeded, Result
    <3> QED BY <3>1, <3>2
  <2>5. ASSUME NEW where \in Conditions \ {Nothing}, DeleteRow(t, where),
               DOMAIN (Rows(t)') = DOMAIN Rows(t) \ Matching(t, where)
        PROVE  Asked(t)
    <3>1. Matching(t, where) \subseteq DOMAIN Rows(t)
          BY DEF Matching
    <3>2. Gone(t) = Matching(t, where)
          BY <2>5, <3>1
    <3>3. last' = [operation |-> "db_delete", success |-> TRUE, result |-> {},
                   metadata |-> [table |-> t, where |-> where,
                                 deleted_count |-> Cardinality(Matching(t, where))]]
          BY <1>1, <2>5 DEF DeleteRow, Succeeded, Result
    <3>4. \A id \in Matching(t, where) : Matches(heap[Rows(t)[id]], where)
          BY DEF Matching
    <3> HIDE DEF Gone
    <3> QED BY <2>5, <3>2, <3>3, <3>4
  <2> QED BY <1>1, <2>3, <2>4, <2>5, DatabaseRows
<1>2. ToolOK /\ [Next]_vars =>
        [\A t \in Tables :
          LET gone == DOMAIN Rows(t) \ DOMAIN (Rows(t)')
          IN  calls' # calls /\ gone # {} =>
                /\ last'.metadata.table = t
                /\ \/ /\ last'.operation = "db_drop"
                      /\ last'.metadata.dropped_rows = Cardinality(gone)
                   \/ /\ last'.operation = "db_delete"
                      /\ last'.metadata.where # Nothing
                      /\ \A id \in gone : Matches(heap[Rows(t)[id]], last'.metadata.where)
                      /\ last'.metadata.deleted_count = Cardinality(gone)]_vars
      BY <1>1
<1> QED BY <1>2, ToolInvariant, PTL DEF Spec, RowsLeaveOnlyWhenAsked

-----------------------------------------------------------------------------
(* What every request preserves.                                           *)

HIDE NamesAssumption DEF Missing

\* Files, mails and calls are well formed.
OutboxOK ==
    /\ \A p \in DOMAIN files : p \in Paths /\ files[p] \in Seq({"x", "y"})
    /\ sentEmails \in Seq([to : Addresses])
    /\ callLog \in Seq([method : DOMAIN Status, endpoint : Endpoints \cup {"/"}])

Entry == [type : {"transfer", "refund"}, id : Nat \ {0}, of : Nat, amount : Nat \ {0}]

\* Numbers in the ledger are drawn from the counter, and a refund has its payment.
LedgerOK ==
    /\ paymentCounter \in Nat
    /\ ledger \in Seq(Entry)
    /\ \A i \in DOMAIN ledger : ledger[i].id <= paymentCounter
    /\ \A i, j \in DOMAIN ledger : ledger[i].id = ledger[j].id => i = j
    /\ \A i \in DOMAIN ledger : ledger[i].type = "refund" =>
          \E j \in 1 .. i - 1 : /\ ledger[j].type = "transfer" /\ ledger[j].id = ledger[i].of
                                /\ ledger[j].amount = ledger[i].amount

ScansOK == scanCounter \in Nat /\ DOMAIN scanResults = 1 .. scanCounter

RowType == [k : {0, 1, 2}, _id : Nat]

\* Tables and counters go together, and a row id is below its counter.
TablesOK ==
    /\ DOMAIN tables \subseteq Tables /\ DOMAIN tables = DOMAIN rowCounter
    /\ tables = [t \in DOMAIN tables |-> tables[t]]
    /\ rowCounter = [t \in DOMAIN tables |-> rowCounter[t]]
    /\ heap \in Seq(RowType)
    /\ \A t \in DOMAIN tables :
          /\ rowCounter[t] \in Nat
          /\ tables[t] = [id \in DOMAIN tables[t] |-> tables[t][id]]
          /\ \A id \in DOMAIN tables[t] :
                id \in 1 .. rowCounter[t] /\ tables[t][id] \in DOMAIN heap

\* What an id that was answered names; the kind of a row is its table.
Names(x) ==
    /\ x.kind \in {"payment", "refund"} => x.id \in 1 .. paymentCounter
    /\ x.kind = "payment" => \E i \in DOMAIN ledger :
          ledger[i].type = "transfer" /\ ledger[i].id = x.id /\ ledger[i].amount = x.what
    /\ x.kind = "scan" => x.id \in 1 .. scanCounter /\ scanResults[x.id] = x.what
    /\ x.kind \notin {"payment", "refund", "scan"} =>
          /\ x.kind \in DOMAIN tables /\ x.id \in 1 .. rowCounter[x.kind]
          /\ x.id \in DOMAIN tables[x.kind] => tables[x.kind][x.id] = x.what

IssuedOK ==
    /\ \A x \in issued : Names(x)
    /\ \A x, y \in issued : x.kind = y.kind /\ x.id = y.id => x = y

\* A row bears the id it was given, unless an UPDATE wrote another one into it.
NumbersOK ==
    /\ renumbered \subseteq DOMAIN heap
    /\ \A t \in DOMAIN tables : \A id \in DOMAIN tables[t] :
          tables[t][id] \in renumbered \/ heap[tables[t][id]]._id = id

StateOK == OutboxOK /\ LedgerOK /\ ScansOK /\ TablesOK /\ IssuedOK /\ NumbersOK

\* A sequence after something was appended to it.
LEMMA Appended ==
    ASSUME NEW S, NEW s \in Seq(S), NEW x \in S, NEW t, t = Append(s, x)
    PROVE  /\ Len(s) \in Nat /\ DOMAIN s = 1 .. Len(s)
           /\ t \in Seq(S) /\ DOMAIN t = 1 .. Len(s) + 1
           /\ \A i \in DOMAIN s : s[i] \in S /\ t[i] = s[i]
           /\ t[Len(s) + 1] = x
OBVIOUS
\* Files, mails and calls stay well formed.
LEMMA OutboxStep ==
    ASSUME OutboxOK, NEW operation,
           FileExecute(operation) \/ EmailExecute(operation) \/ APIExecute(operation)
    PROVE  OutboxOK'
<1>1. CASE FileExecute(operation)
  <2>1. UNCHANGED <<sentEmails, callLog>>
        BY <1>1 DEF FileExecute, emailVars, apiVars
  <2>2. ASSUME NEW path \in Paths, NEW new \in Seq({"x", "y"}),
               files' = [p \in DOMAIN files \cup {path} |->
                           IF p = path THEN new ELSE files[p]]
        PROVE  OutboxOK'
        BY <2>1, <2>2 DEF OutboxOK
  <2>3. ASSUME NEW path \in Paths, NEW content \in Contents,
               Write(path, content) \/ AppendTo(path, content)
        PROVE  OutboxOK'
    <3> DEFINE old == IF path \in DOMAIN files THEN files[path] ELSE <<>>
    <3>1. <<>> \in Seq({"x", "y"}) /\ <<"x">> \in Seq({"x", "y"})
          /\ <<"y">> \in Seq({"x", "y"})
          OBVIOUS
    <3>2. old \in Seq({"x", "y"}) /\ content \in Seq({"x", "y"})
          BY <3>1 DEF Contents, OutboxOK
    <3>3. old \o content \in Seq({"x", "y"})
          BY <3>2, ConcatProperties
    <3> QED BY <2>2, <2>3, <3>2, <3>3 DEF Write, AppendTo
  <2>4. ASSUME NEW path \in Paths, Delete(path)
        PROVE  OutboxOK'
        BY <2>1, <2>4 DEF Delete, OutboxOK
  <2>5. CASE files' = files
        BY <2>1, <2>5 DEF OutboxOK
  <2>6. \/ files' = files
        \/ \E path \in Paths, content \in Contents :
              Write(path, content) \/ AppendTo(path, content) \/ Delete(path)
    <3> QED BY <1>1 DEF FileExecute, Read, fileVars
  <2> QED BY <2>3, <2>4, <2>5, <2>6
<1>2. CASE EmailExecute(operation)
  <2>1. UNCHANGED <<files, callLog>>
        BY <1>2 DEF EmailExecute, fileVars, apiVars
  <2>2. \/ sentEmails' = sentEmails
        \/ \E to \in Addresses : sentEmails' = Append(sentEmails, [to |-> to])
        BY <1>2 DEF EmailExecute, Send
  <2>3. ASSUME NEW to \in Addresses, sentEmails' = Append(sentEmails, [to |-> to])
        PROVE  sentEmails' \in Seq([to : Addresses])
    <3>1. sentEmails \in Seq([to : Addresses]) /\ [to |-> to] \in [to : Addresses]
          BY DEF OutboxOK
    <3> QED BY <2>3, <3>1, Appended
  <2> QED BY <2>1, <2>2, <2>3 DEF OutboxOK
<1>3. CASE APIExecute(operation)
  <2>1. UNCHANGED <<files, sentEmails>>
        BY <1>3 DEF APIExecute, fileVars, emailVars
  <2>2. \/ callLog' = callLog
        \/ \E method \in DOMAIN Status, endpoint \in Endpoints \cup {"/"} :
              callLog' = Append(callLog, [method |-> method, endpoint |-> endpoint])
        BY <1>3 DEF APIExecute, Request
  <2>3. ASSUME NEW method \in DOMAIN Status, NEW endpoint \in Endpoints \cup {"/"},
               callLog' = Append(callLog, [method |-> method, endpoint |-> endpoint])
        PROVE  callLog' \in Seq([method : DOMAIN Status, endpoint : Endpoints \cup {"/"}])
    <3>1. /\ callLog \in Seq([method : DOMAIN Status, endpoint : Endpoints \cup {"/"}])
          /\ [method |-> method, endpoint |-> endpoint]
                \in [method : DOMAIN Status, endpoint : Endpoints \cup {"/"}]
          BY DEF OutboxOK
    <3> QED BY <2>3, <3>1, Appended
  <2> QED BY <2>1, <2>2, <2>3 DEF OutboxOK
<1> QED BY <1>1, <1>2, <1>3

\* Transfers and refunds draw fresh numbers, and a refund pays what its payment took.
LEMMA PaymentStep ==
    ASSUME LedgerOK, ScansOK, TablesOK, IssuedOK, NEW operation, PaymentExecute(operation)
    PROVE  LedgerOK' /\ IssuedOK'
<1>0. UNCHANGED <<tables, rowCounter, heap, scanResults, scanCounter>>
      BY DEF PaymentExecute, dbVars, scanVars
<1>1. ASSUME NEW e \in Entry, NEW kind \in {"payment", "refund"},
             e.id = paymentCounter + 1, paymentCounter' = paymentCounter + 1,
             ledger' = Append(ledger, e), Issue(kind, e.id, e.amount),
             kind = "payment" => e.type = "transfer",
             e.type = "refund" => \E j \in DOMAIN ledger :
                /\ ledger[j].type = "transfer" /\ ledger[j].id = e.of
                /\ ledger[j].amount = e.amount
      PROVE  LedgerOK' /\ IssuedOK'
  <2> DEFINE L == Len(ledger)
  <2>1. /\ L \in Nat /\ DOMAIN ledger = 1 .. L
        /\ ledger' \in Seq(Entry) /\ DOMAIN ledger' = 1 .. L + 1
        /\ \A i \in 1 .. L : ledger'[i] = ledger[i]
        /\ ledger'[L + 1] = e
    <3>1. ledger \in Seq(Entry)
          BY DEF LedgerOK
    <3>2. /\ ledger' \in Seq(Entry) /\ Len(ledger') = L + 1
          /\ \A i \in 1 .. L : ledger'[i] = ledger[i]
          /\ ledger'[L + 1] = e
          BY <1>1, <3>1, AppendProperties
    <3> QED BY <3>1, <3>2, LenProperties
  <2>2. /\ paymentCounter \in Nat
        /\ \A i \in 1 .. L : ledger[i] \in Entry /\ ledger[i].id <= paymentCounter
    <3>1. \A i \in 1 .. L : ledger[i] \in Entry
          BY ElementOfSeq DEF LedgerOK
    <3> QED BY <2>1, <3>1 DEF LedgerOK
  <2>3. LedgerOK'
    <3>1. \A i \in DOMAIN ledger' : ledger'[i].id <= paymentCounter'
          BY <1>1, <2>1, <2>2 DEF Entry
    <3>2. \A i, j \in DOMAIN ledger' : ledger'[i].id = ledger'[j].id => i = j
          BY <1>1, <2>1, <2>2 DEF Entry, LedgerOK
    <3>3. ASSUME NEW i \in DOMAIN ledger', ledger'[i].type = "refund"
          PROVE  \E j \in 1 .. i - 1 :
                    /\ ledger'[j].type = "transfer" /\ ledger'[j].id = ledger'[i].of
                    /\ ledger'[j].amount = ledger'[i].amount
      <4>1. CASE i = L + 1
            BY <1>1, <2>1, <3>3, <4>1
      <4>2. CASE i \in 1 .. L
        <5>1. PICK j \in 1 .. i - 1 :
                    /\ ledger[j].type = "transfer" /\ ledger[j].id = ledger[i].of
                    /\ ledger[j].amount = ledger[i].amount
              BY <2>1, <3>3, <4>2 DEF LedgerOK
        <5>2. ledger'[j] = ledger[j] /\ ledger'[i] = ledger[i]
              BY <2>1, <4>2
        <5> QED BY <5>1, <5>2
      <4> QED BY <2>1, <3>3, <4>1, <4>2
    <3>4. paymentCounter' \in Nat
          BY <1>1, <2>2
    <3> QED BY <2>1, <3>1, <3>2, <3>3, <3>4 DEF LedgerOK
  <2> DEFINE n == [kind |-> kind, id |-> e.id, what |-> e.amount]
  <2>4. issued' = issued \cup {n} /\ n.kind = kind /\ n.id = e.id /\ n.what = e.amount
        BY <1>1 DEF Issue
  <2> HIDE DEF n
  <2>5. ASSUME NEW x \in issued
        PROVE  Names(x)'
    <3>1. Names(x)
          BY DEF IssuedOK
    <3>2. x.kind \in {"payment", "refund"} => x.id \in 1 .. paymentCounter'
          BY <1>1, <2>2, <3>1 DEF Names
    <3>3. x.kind = "payment" => \E i \in DOMAIN ledger' :
             /\ ledger'[i].type = "transfer" /\ ledger'[i].id = x.id
             /\ ledger'[i].amount = x.what
      <4>1. ASSUME x.kind = "payment", NEW i \in DOMAIN ledger,
                   ledger[i].type = "transfer", ledger[i].id = x.id,
                   ledger[i].amount = x.what
            PROVE  i \in DOMAIN ledger' /\ ledger'[i] = ledger[i]
            BY <2>1, <4>1
      <4> QED BY <3>1, <4>1 DEF Names
    <3> QED BY <1>0, <3>1, <3>2, <3>3 DEF Names
  <2>6. Names(n)'
    <3>1. e.id \in 1 .. paymentCounter'
          BY <1>1, <2>2
    <3>2. kind = "payment" => \E i \in DOMAIN ledger' :
             /\ ledger'[i].type = "transfer" /\ ledger'[i].id = n.id
             /\ ledger'[i].amount = n.what
          BY <1>1, <2>1, <2>4
    <3> QED BY <2>4, <3>1, <3>2 DEF Names
  <2>7. ASSUME NEW x \in issued, x.kind = n.kind, x.id = n.id
        PROVE  FALSE
        BY <1>1, <2>2, <2>4, <2>7 DEF IssuedOK, Names
  <2> QED BY <2>3, <2>4, <2>5, <2>6, <2>7 DEF IssuedOK
<1>2. CASE UNCHANGED <<payVars, issued>>
      BY <1>0, <1>2 DEF payVars, LedgerOK, IssuedOK, Names
<1>3. ASSUME NEW amount \in {0, 100, 200}, NEW accounts \in BOOLEAN,
             Transfer(amount, accounts)
      PROVE  LedgerOK' /\ IssuedOK'
  <2>1. CASE UNCHANGED <<payVars, issued>>
        BY <1>2, <2>1
  <2>2. CASE amount > 0 /\ accounts
    <3> DEFINE e == [type |-> "transfer", id |-> paymentCounter + 1, of |-> 0,
                     amount |-> amount]
    <3>1. e \in Entry /\ e.id = paymentCounter + 1 /\ e.type = "transfer"
          /\ e.amount = amount
          BY <2>2 DEF LedgerOK, Entry
    <3>2. /\ paymentCounter' = paymentCounter + 1 /\ ledger' = Append(ledger, e)
          /\ Issue("payment", paymentCounter + 1, amount)
          BY <1>3, <2>2 DEF Transfer
    <3> HIDE DEF e
    <3> QED BY <1>1, <3>1, <3>2
  <2> QED BY <1>3, <2>1, <2>2 DEF Transfer
<1>4. ASSUME NEW id \in 0 .. paymentCounter + 1, Refund(id)
      PROVE  LedgerOK' /\ IssuedOK'
  <2>1. CASE UNCHANGED <<payVars, issued>>
        BY <1>2, <2>1
  <2>2. CASE id # 0 /\ IsPaid(id)
    <3> DEFINE paid == ledger[Original(id)]
               e == [type |-> "refund", id |-> paymentCounter + 1, of |-> id,
                     amount |-> paid.amount]
    <3>1. /\ Original(id) \in DOMAIN ledger
          /\ paid.type = "transfer" /\ paid.id = id
      <4>1. \E i \in DOMAIN ledger :
                /\ ledger[i].type = "transfer" /\ ledger[i].id = id
                /\ \A j \in 1 .. i - 1 : ledger[j].type # "transfer" \/ ledger[j].id # id
            BY <2>2 DEF IsPaid, LedgerOK
      <4> QED BY <4>1 DEF Original
    <3>2. e \in Entry /\ e.id = paymentCounter + 1 /\ e.type = "refund" /\ e.of = id
          /\ e.amount = paid.amount
      <4>1. paid \in Entry
            BY <3>1, Appended DEF LedgerOK
      <4>2. paymentCounter \in Nat
            BY DEF LedgerOK
      <4> HIDE DEF paid
      <4> QED BY <4>1, <4>2 DEF Entry
    <3>3. /\ paymentCounter' = paymentCounter + 1 /\ ledger' = Append(ledger, e)
          /\ Issue("refund", paymentCounter + 1, paid.amount)
          BY <1>4, <2>2 DEF Refund
    <3> HIDE DEF e
    <3> QED BY <1>1, <3>1, <3>2, <3>3
  <2> QED BY <1>4, <2>1, <2>2 DEF Refund
<1> QED BY <1>2, <1>3, <1>4 DEF PaymentExecute

\* Writing back fewer rows, or all of them, keeps tables and ids.
LEMMA FewerRows ==
    ASSUME TablesOK, IssuedOK, NEW t \in Tables, NEW rows, SetRows(t, rows), GetTable(t),
           rows = [id \in DOMAIN rows |-> rows[id]],
           \A id \in DOMAIN rows : id \in DOMAIN Rows(t) /\ rows[id] = Rows(t)[id],
           heap' \in Seq(RowType), DOMAIN heap' = DOMAIN heap,
           UNCHANGED <<ledger, paymentCounter, scanResults, scanCounter, issued>>
    PROVE  TablesOK' /\ IssuedOK'
<1>1. /\ DOMAIN tables' = DOMAIN tables \cup {t}
      /\ \A u \in DOMAIN tables' : tables'[u] = IF u = t THEN rows ELSE tables[u]
      BY DEF SetRows
<1>2. /\ DOMAIN rowCounter' = DOMAIN rowCounter \cup {t}
      /\ \A u \in DOMAIN rowCounter' :
            rowCounter'[u] = IF u \in DOMAIN rowCounter THEN rowCounter[u] ELSE 0
      BY DEF GetTable
<1>3. \A id \in DOMAIN rows : t \in DOMAIN tables /\ id \in DOMAIN tables[t]
                              /\ rows[id] = tables[t][id]
      BY DEF Rows, Nothing
<1>4. TablesOK'
  <2>1. tables' = [u \in DOMAIN tables' |-> tables'[u]]
        BY DEF SetRows
  <2>2. rowCounter' = [u \in DOMAIN tables' |-> rowCounter'[u]]
        BY <1>1 DEF GetTable, TablesOK
  <2>3. ASSUME NEW u \in DOMAIN tables'
        PROVE  /\ rowCounter'[u] \in Nat
               /\ tables'[u] = [id \in DOMAIN tables'[u] |-> tables'[u][id]]
               /\ \A id \in DOMAIN tables'[u] :
                     id \in 1 .. rowCounter'[u] /\ tables'[u][id] \in DOMAIN heap'
    <3>1. rowCounter'[u] \in Nat
          BY <1>1, <1>2 DEF TablesOK
    <3>2. CASE u = t
          BY <1>1, <1>2, <1>3, <3>1, <3>2 DEF TablesOK
    <3>3. CASE u # t
          BY <1>1, <1>2, <3>1, <3>3 DEF TablesOK
    <3> QED BY <3>2, <3>3
  <2> QED BY <1>1, <1>2, <2>1, <2>2, <2>3 DEF TablesOK
<1>5. ASSUME NEW x \in issued
      PROVE  Names(x)'
  <2>1. Names(x)
        BY DEF IssuedOK
  <2>2. CASE x.kind \notin {"payment", "refund", "scan"}
    <3>1. /\ x.kind \in DOMAIN tables /\ x.id \in 1 .. rowCounter[x.kind]
          /\ x.id \in DOMAIN tables[x.kind] => tables[x.kind][x.id] = x.what
          BY <2>1, <2>2 DEF Names
    <3>2. x.kind \in DOMAIN tables' /\ rowCounter'[x.kind] = rowCounter[x.kind]
          BY <1>1, <1>2, <3>1 DEF TablesOK
    <3>3. x.id \in DOMAIN tables'[x.kind] => tables'[x.kind][x.id] = x.what
          BY <1>1, <1>3, <3>1, <3>2
    <3> QED BY <2>2, <3>1, <3>2, <3>3 DEF Names
  <2>3. CASE x.kind \in {"payment", "refund", "scan"}
        BY <2>1, <2>3 DEF Names
  <2> QED BY <2>2, <2>3
<1> QED BY <1>4, <1>5 DEF IssuedOK

\* The rows of a table, present or not, are a function.
LEMMA RowsAreFunctions ==
    ASSUME TablesOK, NEW t
    PROVE  Rows(t) = [id \in DOMAIN Rows(t) |-> Rows(t)[id]]
BY DEF TablesOK, Rows, Nothing

\* A row that is inserted has an id that its table never answered.
LEMMA InsertStep ==
    ASSUME TablesOK, IssuedOK, NEW t \in Tables, NEW data \in Data, data # Nothing, Insert(t, data),
           t \notin {Missing, "payment", "refund", "scan"},
           UNCHANGED <<ledger, paymentCounter, scanResults, scanCounter>>
    PROVE  TablesOK' /\ IssuedOK'
<1> DEFINE id == NextId(t)
           ref == Len(heap) + 1
<1>0. PICK new : new = [kind |-> t, id |-> id, what |-> ref]
      OBVIOUS
<1> DEFINE kept == IF "k" \in DOMAIN data THEN data.k ELSE 0
<1>1. kept \in {0, 1, 2}
      BY DEF Data, Conditions, Columns, Nothing
<1>2. /\ heap' = Append(heap, [k |-> kept, _id |-> id])
      /\ SetRows(t, [i \in DOMAIN Rows(t) \cup {id} |-> IF i = id THEN ref ELSE Rows(t)[i]])
      /\ rowCounter' = [u \in DOMAIN rowCounter \cup {t} |->
                          IF u = t THEN id ELSE rowCounter[u]]
      /\ issued' = issued \cup {new}
      BY <1>0 DEF Insert, Issue
<1>3. /\ id \in Nat \ {0}
      /\ t \in DOMAIN tables => id = rowCounter[t] + 1
      BY DEF NextId, TablesOK
<1>4. /\ heap' \in Seq(RowType) /\ Len(heap) \in Nat
      /\ DOMAIN heap = 1 .. Len(heap) /\ DOMAIN heap' = 1 .. Len(heap) + 1
  <2>1. [k |-> kept, _id |-> id] \in RowType
        BY <1>1, <1>3 DEF RowType
  <2>2. heap \in Seq(RowType)
        BY DEF TablesOK
  <2> HIDE DEF id, kept
  <2> QED BY <1>2, <2>1, <2>2, Appended
<1>5. /\ DOMAIN tables' = DOMAIN tables \cup {t}
      /\ \A u \in DOMAIN tables : u # t => tables'[u] = tables[u]
      /\ tables'[t] = [i \in DOMAIN Rows(t) \cup {id} |-> IF i = id THEN ref ELSE Rows(t)[i]]
      /\ tables' = [u \in DOMAIN tables' |-> tables'[u]]
      BY <1>2 DEF SetRows
<1>6. /\ \A i \in DOMAIN Rows(t) : t \in DOMAIN tables /\ i \in DOMAIN tables[t]
                                   /\ Rows(t)[i] = tables[t][i]
      BY DEF Rows, Nothing
<1>7. /\ DOMAIN rowCounter' = DOMAIN tables' /\ rowCounter'[t] = id
      /\ \A u \in DOMAIN tables : u # t => rowCounter'[u] = rowCounter[u]
      /\ rowCounter' = [u \in DOMAIN tables' |-> rowCounter'[u]]
      BY <1>2, <1>5 DEF TablesOK
<1> HIDE DEF id, ref
<1>8. TablesOK'
  <2>1. ASSUME NEW u \in DOMAIN tables'
        PROVE  /\ rowCounter'[u] \in Nat
               /\ tables'[u] = [i \in DOMAIN tables'[u] |-> tables'[u][i]]
               /\ \A i \in DOMAIN tables'[u] :
                     i \in 1 .. rowCounter'[u] /\ tables'[u][i] \in DOMAIN heap'
    <3>1. CASE u # t
          BY <1>4, <1>5, <1>7, <3>1 DEF TablesOK
    <3>2. CASE u = t
      <4>1. rowCounter'[t] = id /\ id \in Nat
            BY <1>3, <1>7
      <4>2. ASSUME NEW i \in DOMAIN tables'[t]
            PROVE  i \in 1 .. id /\ tables'[t][i] \in DOMAIN heap'
        <5>1. CASE i = id
              BY <1>3, <1>4, <1>5, <5>1 DEF ref
        <5>2. CASE i # id
          <6>1. /\ i \in DOMAIN Rows(t) /\ tables'[t][i] = Rows(t)[i]
                BY <1>5, <5>2
          <6>2. t \in DOMAIN tables /\ i \in DOMAIN tables[t]
                /\ tables'[t][i] = tables[t][i]
                BY <1>6, <6>1
          <6>3. rowCounter[t] \in Nat /\ i \in 1 .. rowCounter[t]
                /\ tables[t][i] \in DOMAIN heap
                BY <6>2 DEF TablesOK
          <6> QED BY <1>3, <1>4, <6>2, <6>3
        <5> QED BY <5>1, <5>2
      <4>3. tables'[t] = [i \in DOMAIN tables'[t] |-> tables'[t][i]]
            BY <1>5
      <4> QED BY <3>2, <4>1, <4>2, <4>3
    <3> QED BY <3>1, <3>2
  <2>2. DOMAIN tables' \subseteq Tables
        BY <1>5 DEF TablesOK
  <2> QED BY <1>4, <1>5, <1>7, <2>1, <2>2 DEF TablesOK
<1>9. ASSUME NEW x \in issued
      PROVE  Names(x)' /\ ~(x.kind = t /\ x.id = id)
  <2>1. Names(x)
        BY DEF IssuedOK
  <2>2. CASE x.kind \in {"payment", "refund", "scan"}
        BY <2>1, <2>2 DEF Names
  <2>3. CASE x.kind \notin {"payment", "refund", "scan"}
    <3>1. /\ x.kind \in DOMAIN tables /\ x.id \in 1 .. rowCounter[x.kind]
          /\ rowCounter[x.kind] \in Nat
          /\ x.id \in DOMAIN tables[x.kind] => tables[x.kind][x.id] = x.what
          BY <2>1, <2>3 DEF Names, TablesOK
    <3>2. CASE x.kind # t
          BY <1>5, <1>7, <2>3, <3>1, <3>2 DEF Names
    <3>3. CASE x.kind = t
      <4>1. x.id # id /\ x.id \in 1 .. rowCounter'[t]
            BY <1>3, <1>7, <3>1, <3>3
      <4>2. x.id \in DOMAIN tables'[t] => tables'[t][x.id] = x.what
            BY <1>5, <1>6, <3>1, <3>3, <4>1
      <4> QED BY <1>5, <2>3, <3>3, <4>1, <4>2 DEF Names
    <3> QED BY <3>2, <3>3
  <2> QED BY <2>2, <2>3
<1>10. Names(new)' /\ new.kind = t /\ new.id = id
  <2>1. new.kind = t /\ new.id = id /\ new.what = ref
        BY <1>0
  <2>2. t \in DOMAIN tables' /\ id \in 1 .. rowCounter'[t] /\ tables'[t][id] = ref
        BY <1>3, <1>5, <1>7
  <2> QED BY <2>1, <2>2 DEF Names
<1> QED BY <1>2, <1>8, <1>9, <1>10 DEF IssuedOK

\* A row stays one when columns of it are written, and keeps its id unless that is one.
LEMMA OverwrittenRow ==
    ASSUME NEW x \in RowType, NEW data \in Data
    PROVE  /\ Overwritten(x, data) \in RowType
           /\ "_id" \notin DOMAIN data => Overwritten(x, data)._id = x._id
BY DEF Overwritten, RowType, Data, Conditions, Columns, Nothing

\* SELECT, UPDATE and DELETE write back what they found, or less of it.
LEMMA RewriteStep ==
    ASSUME TablesOK, IssuedOK, NEW t \in Tables, NEW where \in Conditions,
           NEW data \in Data, t # Missing,
           Select(t, where) \/ Update(t, data, where) \/ DeleteRow(t, where),
           UNCHANGED <<ledger, paymentCounter, scanResults, scanCounter, issued>>
    PROVE  TablesOK' /\ IssuedOK'
<1>1. heap \in Seq(RowType)
      BY DEF TablesOK
<1>2. CASE Select(t, where)
  <2>1. GetTable(t) /\ SetRows(t, Rows(t)) /\ heap' = heap
        BY <1>2 DEF Select
  <2>2. Rows(t) = [id \in DOMAIN Rows(t) |-> Rows(t)[id]]
        BY RowsAreFunctions
  <2> QED BY <1>1, <2>1, <2>2, FewerRows
<1>3. CASE Update(t, data, where)
  <2> DEFINE hit == {Rows(t)[id] : id \in Matching(t, where)}
  <2>1. /\ GetTable(t) /\ SetRows(t, Rows(t))
        /\ heap' = [r \in DOMAIN heap |->
                      IF r \in hit THEN Overwritten(heap[r], data) ELSE heap[r]]
        BY <1>3 DEF Update
  <2> HIDE DEF hit
  <2>2. \A x \in RowType : Overwritten(x, data) \in RowType
        BY OverwrittenRow
  <2>3. \A r \in DOMAIN heap : heap[r] \in RowType
        BY <1>1
  <2>4. \A r \in DOMAIN heap : heap'[r] \in RowType
        BY <2>1, <2>2, <2>3
  <2>5. DOMAIN heap' = DOMAIN heap /\ heap' = [r \in DOMAIN heap |-> heap'[r]]
        BY <2>1
  <2>6. Len(heap) \in Nat /\ DOMAIN heap = 1 .. Len(heap)
        BY <1>1
  <2>7. heap' \in Seq(RowType)
        BY <2>4, <2>5, <2>6, IsASeq
  <2>8. Rows(t) = [id \in DOMAIN Rows(t) |-> Rows(t)[id]]
        BY RowsAreFunctions
  <2> QED BY <2>1, <2>5, <2>7, <2>8, FewerRows
<1>4. CASE DeleteRow(t, where)
  <2> DEFINE gone == IF where = Nothing THEN {} ELSE Matching(t, where)
             rows == [id \in DOMAIN Rows(t) \ gone |-> Rows(t)[id]]
  <2>1. GetTable(t) /\ SetRows(t, rows) /\ heap' = heap
        BY <1>4 DEF DeleteRow
  <2>2. /\ rows = [id \in DOMAIN rows |-> rows[id]]
        /\ \A id \in DOMAIN rows : id \in DOMAIN Rows(t) /\ rows[id] = Rows(t)[id]
        OBVIOUS
  <2> HIDE DEF rows
  <2> QED BY <1>1, <2>1, <2>2, FewerRows
<1> QED BY <1>2, <1>3, <1>4

\* A table takes its counter and its ids along.
LEMMA DropStep ==
    ASSUME TablesOK, IssuedOK, NEW t \in Tables, t # Missing, Drop(t),
           t \notin {"payment", "refund", "scan"},
           UNCHANGED <<ledger, paymentCounter, scanResults, scanCounter>>
    PROVE  TablesOK' /\ IssuedOK'
<1>1. /\ tables' = [u \in DOMAIN tables \ {t} |-> tables[u]]
      /\ rowCounter' = [u \in DOMAIN rowCounter \ {t} |-> rowCounter[u]]
      /\ issued' = {x \in issued : x.kind # t}
      /\ heap' = heap
      BY DEF Drop
<1>2. TablesOK'
  <2>1. /\ DOMAIN tables' = DOMAIN tables \ {t} /\ DOMAIN rowCounter' = DOMAIN tables'
        /\ tables' = [u \in DOMAIN tables' |-> tables'[u]]
        /\ rowCounter' = [u \in DOMAIN tables' |-> rowCounter'[u]]
        /\ \A u \in DOMAIN tables' : tables'[u] = tables[u] /\ rowCounter'[u] = rowCounter[u]
        BY <1>1 DEF TablesOK
  <2> QED BY <1>1, <2>1 DEF TablesOK
<1>3. ASSUME NEW x \in issued'
      PROVE  Names(x)'
  <2>1. Names(x) /\ x.kind # t
        BY <1>1 DEF IssuedOK
  <2> QED BY <1>1, <2>1 DEF Names, TablesOK
<1> QED BY <1>1, <1>2, <1>3 DEF IssuedOK

\* Every request to the database keeps tables and ids.
LEMMA DatabaseStep ==
    ASSUME TablesOK, IssuedOK, NEW operation, DatabaseExecute(operation)
    PROVE  TablesOK' /\ IssuedOK'
<1>1. UNCHANGED <<ledger, paymentCounter, scanResults, scanCounter>>
      BY DEF DatabaseExecute, payVars, scanVars
<1>2. CASE UNCHANGED <<dbVars, issued>>
      BY <1>1, <1>2 DEF dbVars, TablesOK, IssuedOK, Names
<1>3. ASSUME NEW t \in Tables \cup {Missing}, NEW where \in Conditions,
             NEW data \in Data,
             \/ Select(t, where) /\ UNCHANGED issued
             \/ Insert(t, data)
             \/ Update(t, data, where) /\ UNCHANGED issued
             \/ Drop(t)
             \/ DeleteRow(t, where) /\ UNCHANGED issued
      PROVE  TablesOK' /\ IssuedOK'
  <2>1. CASE t = Missing
        BY <1>2, <1>3, <2>1 DEF Select, Insert, Update, Drop, DeleteRow
  <2>2. CASE t # Missing
    <3>1. t \in Tables /\ t \notin {Missing, "payment", "refund", "scan"}
          BY <2>2, NamesAssumption
    <3>2. CASE Insert(t, data)
      <4>1. CASE data = Nothing
            BY <1>2, <3>2, <4>1 DEF Insert
      <4>2. CASE data # Nothing
            BY <1>1, <3>1, <3>2, <4>2, InsertStep
      <4> QED BY <4>1, <4>2
    <3>3. CASE Drop(t)
          BY <1>1, <2>2, <3>1, <3>3, DropStep
    <3> QED BY <1>1, <1>3, <2>2, <3>1, <3>2, <3>3, RewriteStep
  <2> QED BY <2>1, <2>2
<1> QED BY <1>2, <1>3 DEF DatabaseExecute

\* Rows bear the ids they were given, unless an UPDATE writes "_id".
LEMMA NumbersStep ==
    ASSUME TablesOK, NumbersOK, NEW operation, DatabaseExecute(operation)
    PROVE  NumbersOK'
<1>1. CASE UNCHANGED dbVars
      BY <1>1 DEF dbVars, NumbersOK
<1>2. ASSUME UNCHANGED <<heap, renumbered>>, NEW t,
             \A u \in DOMAIN tables' : \A id \in DOMAIN tables'[u] :
                u \in DOMAIN tables /\ id \in DOMAIN tables[u] /\ tables'[u][id] = tables[u][id]
      PROVE  NumbersOK'
      BY <1>2 DEF NumbersOK
<1>3. ASSUME NEW t, NEW rows, SetRows(t, rows),
             \A id \in DOMAIN rows : id \in DOMAIN Rows(t) /\ rows[id] = Rows(t)[id]
      PROVE  \A u \in DOMAIN tables' : \A id \in DOMAIN tables'[u] :
                u \in DOMAIN tables /\ id \in DOMAIN tables[u] /\ tables'[u][id] = tables[u][id]
      BY <1>3 DEF SetRows, Rows, Nothing
<1>4. ASSUME NEW t, NEW where, Select(t, where) \/ DeleteRow(t, where)
      PROVE  NumbersOK'
  <2>1. \/ UNCHANGED dbVars
        \/ /\ UNCHANGED <<heap, renumbered>>
           /\ \E gone : SetRows(t, [id \in DOMAIN Rows(t) \ gone |-> Rows(t)[id]])
    <3>1. CASE t = Missing
          BY <1>4, <3>1 DEF Select, DeleteRow
    <3>2. CASE t # Missing /\ Select(t, where)
      <4>1. Rows(t) = [id \in DOMAIN Rows(t) \ {} |-> Rows(t)[id]]
            BY RowsAreFunctions
      <4> QED BY <3>2, <4>1 DEF Select
    <3>3. CASE t # Missing /\ DeleteRow(t, where)
          BY <3>3 DEF DeleteRow
    <3> QED BY <1>4, <3>1, <3>2, <3>3
  <2> QED BY <1>1, <1>2, <1>3, <2>1
<1>5. ASSUME NEW t, Drop(t)
      PROVE  NumbersOK'
      BY <1>1, <1>5 DEF Drop, NumbersOK
<1>6. ASSUME NEW t, NEW data, t # Missing, data # Nothing, Insert(t, data)
      PROVE  NumbersOK'
  <2> DEFINE id == NextId(t)
             ref == Len(heap) + 1
             new == [k |-> IF "k" \in DOMAIN data THEN data.k ELSE 0, _id |-> id]
  <2>1. /\ heap' = Append(heap, new) /\ renumbered' = renumbered /\ new._id = id
        /\ SetRows(t, [i \in DOMAIN Rows(t) \cup {id} |-> IF i = id THEN ref ELSE Rows(t)[i]])
        BY <1>6 DEF Insert
  <2>2. heap \in Seq(RowType) /\ Len(heap) \in Nat /\ DOMAIN heap = 1 .. Len(heap)
        BY DEF TablesOK
  <2> HIDE DEF id, new
  <2>3. /\ DOMAIN heap' = 1 .. ref /\ heap'[ref] = new
        /\ \A r \in DOMAIN heap : heap'[r] = heap[r]
        BY <2>1, <2>2
  <2>4. ASSUME NEW u \in DOMAIN tables', NEW i \in DOMAIN tables'[u]
        PROVE  tables'[u][i] \in renumbered \/ heap'[tables'[u][i]]._id = i
    <3>1. CASE u = t /\ i = id
          BY <2>1, <2>3, <3>1 DEF SetRows
    <3>2. CASE ~(u = t /\ i = id)
      <4>1. u \in DOMAIN tables /\ i \in DOMAIN tables[u] /\ tables'[u][i] = tables[u][i]
            BY <2>1, <3>2 DEF SetRows, Rows, Nothing
      <4>2. tables[u][i] \in DOMAIN heap
            BY <4>1 DEF TablesOK
      <4> QED BY <2>3, <4>1, <4>2 DEF NumbersOK
    <3> QED BY <3>1, <3>2
  <2>5. renumbered' \subseteq DOMAIN heap'
        BY <2>1, <2>2, <2>3 DEF NumbersOK
  <2> QED BY <2>1, <2>4, <2>5 DEF NumbersOK
<1>7. ASSUME NEW t, NEW data \in Data, NEW where, t # Missing, Update(t, data, where)
      PROVE  NumbersOK'
  <2> DEFINE hit == {Rows(t)[id] : id \in Matching(t, where)}
  <2>1. /\ SetRows(t, Rows(t))
        /\ heap' = [r \in DOMAIN heap |->
                      IF r \in hit THEN Overwritten(heap[r], data) ELSE heap[r]]
        /\ renumbered' = IF "_id" \in DOMAIN data THEN renumbered \cup hit ELSE renumbered
        BY <1>7 DEF Update
  <2>2. hit \subseteq DOMAIN heap
        BY DEF Matching, Rows, Nothing, TablesOK
  <2> HIDE DEF hit
  <2>3. \A r \in DOMAIN heap : heap[r] \in RowType
        BY DEF TablesOK
  <2>4. \A r \in DOMAIN heap : r \in renumbered' \/ heap'[r]._id = heap[r]._id
        BY <2>1, <2>3, OverwrittenRow
  <2>5. \A u \in DOMAIN tables' : \A id \in DOMAIN tables'[u] :
           u \in DOMAIN tables /\ id \in DOMAIN tables[u] /\ tables'[u][id] = tables[u][id]
        BY <1>3, <2>1
  <2>6. \A u \in DOMAIN tables : \A id \in DOMAIN tables[u] : tables[u][id] \in DOMAIN heap
        BY DEF TablesOK
  <2>7. renumbered \subseteq renumbered' /\ renumbered' \subseteq renumbered \cup hit
        BY <2>1
  <2> QED BY <2>1, <2>2, <2>4, <2>5, <2>6, <2>7 DEF NumbersOK
<1>8. ASSUME NEW t, NEW data, NEW where,
             \/ t = Missing /\ (Insert(t, data) \/ Update(t, data, where))
             \/ data = Nothing /\ Insert(t, data)
      PROVE  NumbersOK'
      BY <1>1, <1>8 DEF Insert, Update
<1> QED BY <1>1, <1>4, <1>5, <1>6, <1>7, <1>8 DEF DatabaseExecute

\* A scan has a fresh number, and its results stay.
LEMMA ScanStep ==
    ASSUME ScansOK, IssuedOK, NEW operation, ScanExecute(operation)
    PROVE  ScansOK' /\ IssuedOK'
<1>1. UNCHANGED <<ledger, paymentCounter, tables, rowCounter>>
      BY DEF ScanExecute, payVars, dbVars
<1>2. CASE UNCHANGED <<scanVars, issued>>
      BY <1>1, <1>2 DEF scanVars, ScansOK, IssuedOK, Names
<1>3. ASSUME NEW target \in Addresses, NEW kind \in {"full", "quick"}, RunScan(target, kind)
      PROVE  ScansOK' /\ IssuedOK'
  <2>1. PICK id, found, new :
            /\ id = scanCounter + 1 /\ scanCounter' = id
            /\ scanResults' = [i \in DOMAIN scanResults \cup {id} |->
                                 IF i = id THEN found ELSE scanResults[i]]
            /\ new = [kind |-> "scan", id |-> id, what |-> found]
            /\ issued' = issued \cup {new}
    <3> DEFINE id == scanCounter + 1
               found == [scan_id |-> id, target |-> target, scan_type |-> kind,
                         total |-> IF kind = "full" THEN 3 ELSE 2]
               new == [kind |-> "scan", id |-> id, what |-> found]
    <3>1. /\ id = scanCounter + 1 /\ scanCounter' = id
          /\ scanResults' = [i \in DOMAIN scanResults \cup {id} |->
                               IF i = id THEN found ELSE scanResults[i]]
          /\ new = [kind |-> "scan", id |-> id, what |-> found]
          /\ issued' = issued \cup {new}
          BY <1>3 DEF RunScan, Issue
    <3> HIDE DEF id, found, new
    <3> QED BY <3>1
  <2>2. ScansOK'
        BY <2>1 DEF ScansOK
  <2>3. ASSUME NEW x \in issued
        PROVE  Names(x)' /\ ~(x.kind = new.kind /\ x.id = new.id)
    <3>1. Names(x)
          BY DEF IssuedOK
    <3>2. x.kind = "scan" => /\ x.id \in 1 .. scanCounter' /\ x.id # id
                             /\ scanResults'[x.id] = x.what
          BY <2>1, <3>1 DEF Names, ScansOK
    <3> QED BY <1>1, <2>1, <3>1, <3>2 DEF Names
  <2>4. Names(new)'
    <3>1. new.kind = "scan" /\ new.id \in 1 .. scanCounter' /\ scanResults'[new.id] = new.what
          BY <2>1 DEF ScansOK
    <3> QED BY <3>1 DEF Names
  <2> QED BY <2>1, <2>2, <2>3, <2>4 DEF IssuedOK
<1> QED BY <1>2, <1>3 DEF ScanExecute, AccessResults

-----------------------------------------------------------------------------
(* The theorems.                                                           *)

\* A new registry.
LEMMA Fresh ==
    ASSUME files = Nothing, sentEmails = <<>>, callLog = <<>>, ledger = <<>>,
           paymentCounter = 0, tables = Nothing, rowCounter = Nothing, heap = <<>>,
           scanResults = Nothing, scanCounter = 0, issued = {}, renumbered = {}
    PROVE  StateOK
<1>1. DOMAIN Nothing = {} /\ Nothing = [c \in DOMAIN Nothing |-> Nothing[c]]
      BY DEF Nothing
<1>2. \A S : <<>> \in Seq(S) /\ DOMAIN <<>> = {}
      OBVIOUS
<1>3. OutboxOK
      BY <1>1, <1>2 DEF OutboxOK
<1>4. LedgerOK
      BY <1>2 DEF LedgerOK
<1>5. ScansOK
      BY <1>1 DEF ScansOK
<1>6. TablesOK
      BY <1>1, <1>2 DEF TablesOK
<1> QED BY <1>1, <1>3, <1>4, <1>5, <1>6 DEF StateOK, IssuedOK, NumbersOK

\* Every request to any tool keeps the whole of it.
LEMMA RequestKeepsState ==
    ASSUME ToolOK, StateOK, Execute
    PROVE  StateOK'
<1> USE DEF StateOK
<1>1. CASE UNCHANGED toolVars
      BY <1>1 DEF toolVars, fileVars, emailVars, apiVars, payVars, dbVars, scanVars,
                  OutboxOK, LedgerOK, ScansOK, TablesOK, IssuedOK, Names, NumbersOK
<1>2. ASSUME NEW operation,
             FileExecute(operation) \/ EmailExecute(operation) \/ APIExecute(operation)
      PROVE  StateOK'
  <2>1. UNCHANGED <<ledger, paymentCounter, tables, rowCounter, heap, renumbered, scanResults,
                    scanCounter, issued>>
        BY <1>2 DEF FileExecute, EmailExecute, APIExecute, payVars, dbVars, scanVars
  <2>2. LedgerOK' /\ ScansOK' /\ TablesOK' /\ IssuedOK' /\ NumbersOK'
        BY <2>1 DEF LedgerOK, ScansOK, TablesOK, IssuedOK, Names, NumbersOK, NumbersOK
  <2> QED BY <1>2, <2>2, OutboxStep
<1>3. ASSUME NEW operation, PaymentExecute(operation)
      PROVE  StateOK'
  <2>1. UNCHANGED <<files, sentEmails, callLog, tables, rowCounter, heap, renumbered, scanResults,
                    scanCounter>>
        BY <1>3 DEF PaymentExecute, fileVars, emailVars, apiVars, dbVars, scanVars
  <2>2. OutboxOK' /\ ScansOK' /\ TablesOK' /\ NumbersOK'
        BY <2>1 DEF OutboxOK, ScansOK, TablesOK, NumbersOK
  <2> QED BY <1>3, <2>2, PaymentStep
<1>4. ASSUME NEW operation, DatabaseExecute(operation)
      PROVE  StateOK'
  <2>1. UNCHANGED <<files, sentEmails, callLog, ledger, paymentCounter, scanResults,
                    scanCounter>>
        BY <1>4 DEF DatabaseExecute, fileVars, emailVars, apiVars, payVars, scanVars
  <2>2. OutboxOK' /\ LedgerOK' /\ ScansOK'
        BY <2>1 DEF OutboxOK, LedgerOK, ScansOK
  <2> QED BY <1>4, <2>2, DatabaseStep, NumbersStep
<1>5. ASSUME NEW operation, ScanExecute(operation)
      PROVE  StateOK'
  <2>1. UNCHANGED <<files, sentEmails, callLog, ledger, paymentCounter, tables,
                    rowCounter, heap, renumbered>>
        BY <1>5 DEF ScanExecute, fileVars, emailVars, apiVars, payVars, dbVars
  <2>2. OutboxOK' /\ LedgerOK' /\ TablesOK' /\ NumbersOK'
        BY <2>1 DEF OutboxOK, LedgerOK, TablesOK, NumbersOK
  <2> QED BY <1>5, <2>2, ScanStep
<1> HIDE DEF StateOK
<1> QED BY <1>1, <1>2, <1>3, <1>4, <1>5, OneToolAtATime

\* The inductive invariant of the tools.
THEOREM StateInvariant == Spec => []StateOK
<1>1. Init => StateOK
      BY Fresh DEF Init
<1>2. ToolOK /\ StateOK /\ [Next]_vars => StateOK'
  <2> SUFFICES ASSUME ToolOK, StateOK, [Next]_vars PROVE StateOK'
      OBVIOUS
  <2>1. CASE Execute
        BY <2>1, RequestKeepsState
  <2>2. CASE NewRegistry
    <3>1. OutboxOK' /\ ScansOK' /\ LedgerOK' /\ TablesOK' /\ IssuedOK' /\ NumbersOK'
      <4>1. DOMAIN Nothing = {} /\ Nothing = [c \in DOMAIN Nothing |-> Nothing[c]]
            BY DEF Nothing
      <4>2. \A S : <<>> \in Seq(S) /\ DOMAIN <<>> = {}
            OBVIOUS
      <4>3. OutboxOK'
            BY <2>2, <4>1, <4>2 DEF OutboxOK, NewRegistry
      <4>4. LedgerOK'
            BY <2>2, <4>2 DEF LedgerOK, NewRegistry
      <4>5. ScansOK'
            BY <2>2, <4>1 DEF ScansOK, NewRegistry
      <4>6. TablesOK'
            BY <2>2, <4>1, <4>2 DEF TablesOK, NewRegistry
      <4>7. IssuedOK'
            BY <2>2 DEF IssuedOK, NewRegistry
      <4>8. NumbersOK'
            BY <2>2, <4>1 DEF NumbersOK, NewRegistry
      <4> QED BY <4>3, <4>4, <4>5, <4>6, <4>7, <4>8
    <3> QED BY <3>1 DEF StateOK
  <2>3. CASE UNCHANGED vars
        BY <2>3 DEF vars, fileVars, emailVars, apiVars, payVars, dbVars, scanVars,
           StateOK, OutboxOK, LedgerOK, ScansOK, TablesOK, IssuedOK, Names, NumbersOK
  <2> QED BY <2>1, <2>2, <2>3 DEF Next
<1> QED BY <1>1, <1>2, ToolInvariant, PTL DEF Spec

\* Every variable of the tools keeps its type, and tables and counters go together.
THEOREM TypeCorrect == Spec => []TypeOK
<1>1. StateOK => TypeOK
      BY DEF StateOK, TypeOK, OutboxOK, LedgerOK, Entry, ScansOK, TablesOK, NumbersOK
<1> QED BY <1>1, StateInvariant, PTL

\* An id that was answered keeps its meaning: the property of the same name, for any
\* number of requests.
THEOREM IdsKeepTheirMeaningAlways == Spec => []IdsKeepTheirMeaning
<1>1. ASSUME LedgerOK, NEW i \in DOMAIN ledger, ledger[i].type = "transfer"
      PROVE  Original(ledger[i].id) = i
  <2> DEFINE First(k) == /\ ledger[k].type = "transfer" /\ ledger[k].id = ledger[i].id
                         /\ \A j \in 1 .. k - 1 : \/ ledger[j].type # "transfer"
                                                  \/ ledger[j].id # ledger[i].id
  <2>1. Len(ledger) \in Nat /\ DOMAIN ledger = 1 .. Len(ledger)
        BY <1>1, LenProperties DEF LedgerOK
  <2>2. \A j, k \in DOMAIN ledger : ledger[j].id = ledger[k].id => j = k
        BY <1>1 DEF LedgerOK
  <2>3. First(i)
        BY <1>1, <2>1, <2>2
  <2>4. \A k \in DOMAIN ledger : First(k) => k = i
        BY <1>1, <2>2
  <2>5. Original(ledger[i].id) = CHOOSE k \in DOMAIN ledger : First(k)
        BY DEF Original
  <2> HIDE DEF First
  <2> QED BY <1>1, <2>3, <2>4, <2>5
<1>2. ASSUME StateOK
      PROVE  IdsKeepTheirMeaning
  <2> USE <1>2 DEF StateOK
  <2>1. ASSUME NEW x \in issued
        PROVE  /\ x.kind = "payment" => IsPaid(x.id) /\ ledger[Original(x.id)].amount = x.what
               /\ x.kind = "scan" => scanResults[x.id] = x.what
               /\ x.kind \in DOMAIN tables /\ x.id \in DOMAIN tables[x.kind]
                     => tables[x.kind][x.id] = x.what
               /\ x.kind \in DOMAIN tables /\ AsNumbered(x.kind)
                     => Matching(x.kind, [_id |-> x.id]) = {x.id} \cap DOMAIN tables[x.kind]
    <3>1. Names(x)
          BY DEF IssuedOK
    <3>2. ASSUME x.kind = "payment"
          PROVE  IsPaid(x.id) /\ ledger[Original(x.id)].amount = x.what
      <4>1. PICK i \in DOMAIN ledger : /\ ledger[i].type = "transfer" /\ ledger[i].id = x.id
                                       /\ ledger[i].amount = x.what
            BY <3>1, <3>2 DEF Names
      <4>2. Original(x.id) = i
            BY <1>1, <4>1
      <4> QED BY <4>1, <4>2 DEF IsPaid
    <3>3. x.kind \in DOMAIN tables => x.kind \notin {"payment", "refund", "scan"}
          BY NamesAssumption DEF TablesOK
    <3>4. ASSUME x.kind \in DOMAIN tables, AsNumbered(x.kind)
          PROVE  Matching(x.kind, [_id |-> x.id]) = {x.id} \cap DOMAIN tables[x.kind]
      <4>1. Rows(x.kind) = tables[x.kind]
            BY <3>4 DEF Rows
      <4>2. \A id \in DOMAIN tables[x.kind] : heap[tables[x.kind][id]]._id = id
            BY <3>4, <4>1 DEF AsNumbered, NumbersOK
      <4>3. \A row : Matches(row, [_id |-> x.id]) <=> row._id = x.id
            BY DEF Matches
      <4> QED BY <4>1, <4>2, <4>3 DEF Matching
    <3> QED BY <3>1, <3>2, <3>3, <3>4 DEF Names
  <2> QED BY <2>1 DEF IdsKeepTheirMeaning, IssuedOK, LedgerOK
<1> QED BY <1>2, StateInvariant, PTL

\* A request that fails changes nothing visible: the property of the same name, for
\* every tool, operation and contents.
THEOREM FailureChangesNothingAlways == Spec => FailureChangesNothing
<1>1. ASSUME UNCHANGED <<files, sentEmails, callLog, ledger, paymentCounter, tables,
                         rowCounter, heap, scanResults>>
      PROVE  UNCHANGED Visible
      BY <1>1 DEF Visible, Rows, NextId
<1>2. ASSUME NEW operation, NEW result, NEW metadata,
             Succeeded(operation, result, metadata), ~last'.success
      PROVE  FALSE
      BY <1>2 DEF Succeeded, Result
<1>3. ASSUME NEW operation, ~last'.success,
             \/ FileExecute(operation) \/ EmailExecute(operation) \/ APIExecute(operation)
             \/ PaymentExecute(operation) \/ ScanExecute(operation)
      PROVE  UNCHANGED Visible
  <2>1. UNCHANGED <<tables, rowCounter, heap>>
        BY <1>3 DEF FileExecute, EmailExecute, APIExecute, PaymentExecute, ScanExecute,
           dbVars
  <2>2. CASE FileExecute(operation)
    <3>1. UNCHANGED <<sentEmails, callLog, ledger, paymentCounter, scanResults>>
          BY <2>2 DEF FileExecute, emailVars, apiVars, payVars, scanVars
    <3>2. files' = files
          BY <1>2, <1>3, <2>2 DEF FileExecute, Read, Write, Delete, AppendTo
    <3> QED BY <1>1, <2>1, <3>1, <3>2
  <2>3. CASE EmailExecute(operation)
    <3>1. UNCHANGED <<files, callLog, ledger, paymentCounter, scanResults>>
          BY <2>3 DEF EmailExecute, fileVars, apiVars, payVars, scanVars
    <3>2. sentEmails' = sentEmails
          BY <1>2, <1>3, <2>3 DEF EmailExecute, Send
    <3> QED BY <1>1, <2>1, <3>1, <3>2
  <2>4. CASE APIExecute(operation)
    <3>1. UNCHANGED <<files, sentEmails, ledger, paymentCounter, scanResults>>
          BY <2>4 DEF APIExecute, fileVars, emailVars, payVars, scanVars
    <3>2. callLog' = callLog
          BY <1>2, <1>3, <2>4 DEF APIExecute, Request
    <3> QED BY <1>1, <2>1, <3>1, <3>2
  <2>5. CASE PaymentExecute(operation)
    <3>1. UNCHANGED <<files, sentEmails, callLog, scanResults>>
          BY <2>5 DEF PaymentExecute, fileVars, emailVars, apiVars, scanVars
    <3>2. ASSUME NEW amount, NEW accounts, Transfer(amount, accounts)
          PROVE  UNCHANGED payVars
          BY <1>2, <1>3, <3>2 DEF Transfer
    <3>3. ASSUME NEW id, Refund(id)
          PROVE  UNCHANGED payVars
          BY <1>2, <1>3, <3>3 DEF Refund
    <3>4. UNCHANGED payVars
          BY <2>5, <3>2, <3>3 DEF PaymentExecute
    <3>5. UNCHANGED <<ledger, paymentCounter>>
          BY <3>4 DEF payVars
    <3> QED BY <1>1, <2>1, <3>1, <3>5
  <2>6. CASE ScanExecute(operation)
    <3>1. UNCHANGED <<files, sentEmails, callLog, ledger, paymentCounter>>
          BY <2>6 DEF ScanExecute, fileVars, emailVars, apiVars, payVars
    <3>2. scanResults' = scanResults
          BY <1>2, <1>3, <2>6 DEF ScanExecute, RunScan, AccessResults, scanVars
    <3> QED BY <1>1, <2>1, <3>1, <3>2
  <2> QED BY <1>3, <2>2, <2>3, <2>4, <2>5, <2>6
<1>4. ASSUME TablesOK, NEW operation, ~last'.success, DatabaseExecute(operation)
      PROVE  UNCHANGED Visible
  <2>1. UNCHANGED <<files, sentEmails, callLog, ledger, paymentCounter, scanResults>>
        BY <1>4 DEF DatabaseExecute, fileVars, emailVars, apiVars, payVars, scanVars
  <2>2. CASE UNCHANGED dbVars
        BY <1>1, <2>1, <2>2 DEF dbVars
  <2>3. ASSUME NEW t \in Tables \cup {Missing}, DeleteRow(t, Nothing), t # Missing
        PROVE  UNCHANGED Visible
    <3>1. /\ GetTable(t) /\ heap' = heap
          /\ SetRows(t, [id \in DOMAIN Rows(t) |-> Rows(t)[id]])
          BY <2>3 DEF DeleteRow
    <3>2. SetRows(t, Rows(t))
          BY <1>4, <3>1, RowsAreFunctions
    <3>3. \A u : Rows(u)' = Rows(u)
          BY <3>2, RowsSet
    <3>4. \A u : NextId(u)' = NextId(u)
          BY <3>1 DEF GetTable, NextId
    <3> QED BY <2>1, <3>1, <3>3, <3>4 DEF Visible
  <2>4. ASSUME NEW t \in Tables \cup {Missing}, NEW where \in Conditions,
               NEW data \in Data,
               \/ Select(t, where) \/ Insert(t, data) \/ Update(t, data, where)
               \/ Drop(t) \/ DeleteRow(t, where)
        PROVE  UNCHANGED dbVars \/ (t # Missing /\ DeleteRow(t, Nothing))
        BY <1>2, <1>4, <2>4 DEF Select, Insert, Update, Drop, DeleteRow
  <2> QED BY <1>4, <2>2, <2>3, <2>4 DEF DatabaseExecute
<1>5. ASSUME ToolOK, StateOK, [Next]_vars, calls' # calls, ~last'.success
      PROVE  UNCHANGED Visible
  <2>1. Execute
        BY <1>5 DEF Next, NewRegistry, vars
  <2>2. CASE UNCHANGED toolVars
        BY <1>1, <2>2 DEF toolVars, fileVars, emailVars, apiVars, payVars, dbVars, scanVars
  <2> QED BY <1>3, <1>4, <1>5, <2>1, <2>2, OneToolAtATime DEF StateOK
<1>6. ToolOK /\ StateOK /\ [Next]_vars
        => [calls' # calls /\ ~last'.success => UNCHANGED Visible]_vars
      BY <1>5
<1> QED BY <1>6, ToolInvariant, StateInvariant, PTL DEF Spec, FailureChangesNothing
=============================================================================
