------------------------------- MODULE Database -------------------------------
(* Utils::DataBase::SQLiteWrapper and Model (DataBase/src/): wrappers, each   *)
(* used by one thread, that share a file with one table. A statement takes    *)
(* the locks of the file as SQLite does with a rollback journal and no busy   *)
(* handler: it is refused while another connection holds what excludes them.  *)
(* A condition is a conjunction of equalities, given as a set of pairs.       *)
EXTENDS Naturals, FiniteSets, SequencesExt

CONSTANTS
    Wrappers,
    Columns,          \* names a table may have, numbered in alphabetical order:
                      \* a std::map brings them to CREATE TABLE, so it is also
                      \* the order of the columns
    Values,           \* texts that are stored, "" not among them
    Conditions,       \* what WHERE clauses may ask
    NULL,             \* of a row that was inserted without the column
    NoWrapper,
    MaxRows           \* bound

ASSUME DatabaseAssumption ==
    /\ {NULL, ""} \cap Values = {} /\ NoWrapper \notin Wrappers
    /\ Columns \subseteq Nat /\ IsFiniteSet(Columns)
    /\ Conditions \subseteq SUBSET (Columns \X Values)

VARIABLES
    columns_,         \* of the table, {} when there is none
    rows,
    readers,          \* connections with a SHARED lock
    writer,           \* the connection with the RESERVED lock
    call,             \* of each wrapper: "none", "query", "write"
    asked,            \* the columns and the condition of its query; for SELECT *,
                      \* `all`, the columns when it was prepared
    result,           \* the rows its query has collected
    abandoned         \* wrappers with a statement that is never finalized

dataVars == <<columns_, rows>>
queryVars == <<asked, result>>
databaseVars == <<dataVars, readers, writer, call, queryVars, abandoned>>

NoQuery == [all |-> FALSE, select |-> {}, where |-> {}]

DatabaseInit == /\ columns_ = {} /\ rows = <<>>
                /\ readers = {} /\ writer = NoWrapper
                /\ call = [w \in Wrappers |-> "none"]
                /\ asked = [w \in Wrappers |-> NoQuery]
                /\ result = [w \in Wrappers |-> <<>>]
                /\ abandoned = {}

Calls(w, what) == call' = [call EXCEPT ![w] = what]

-------------------------------------------------------------------------------
(* The statements. *)

Names(condition) == {pair[1] : pair \in condition}
Matches(row, condition) == \A pair \in condition : row[pair[1]] = pair[2]

\* The rows of a table with these numbers, in their order.
Picked(table, numbers) ==
    LET picked[n \in 0..Len(table)] ==
            IF n = 0 THEN <<>>
            ELSE IF n \in numbers THEN Append(picked[n - 1], table[n])
            ELSE picked[n - 1]
    IN picked[Len(table)]

Where(table, condition) ==
    Picked(table, {n \in DOMAIN table : Matches(table[n], condition)})
WhereNot(table, condition) ==
    Picked(table, {n \in DOMAIN table : ~Matches(table[n], condition)})

Known(names) == columns_ # {} /\ names \subseteq columns_

\* CREATE TABLE IF NOT EXISTS, an error without columns
CreateTable(columns) ==
    IF columns_ = {} THEN columns_' = columns /\ rows' = <<>> ELSE UNCHANGED dataVars

\* DROP TABLE IF EXISTS, an error while a statement of this connection is open
DeleteTable(w) == /\ columns_ = {} \/ w \notin readers
                  /\ columns_' = {} /\ rows' = <<>>

NewRow(data) == [c \in columns_ |-> IF c \in DOMAIN data THEN data[c] ELSE NULL]

\* Data is never empty: Insert() and Update() throw before they reach SQLite.
InsertData(data) ==
    /\ Known(DOMAIN data) /\ Len(rows) < MaxRows
    /\ rows' = Append(rows, NewRow(data))
    /\ UNCHANGED columns_

UpdateData(data, condition) ==
    /\ Known(DOMAIN data \cup Names(condition))
    /\ rows' = [i \in DOMAIN rows |->
                   IF Matches(rows[i], condition)
                   THEN [c \in columns_ |-> IF c \in DOMAIN data THEN data[c] ELSE rows[i][c]]
                   ELSE rows[i]]
    /\ UNCHANGED columns_

DeleteData(condition) ==
    /\ Known(Names(condition))
    /\ rows' = WhereNot(rows, condition)
    /\ UNCHANGED columns_

Data == UNION {[names -> Values] : names \in SUBSET Columns \ {{}}}

Change(w) ==
    \/ \E columns \in SUBSET Columns \ {{}} : CreateTable(columns)
    \/ DeleteTable(w)
    \/ \E data \in Data : InsertData(data) \/ \E where \in Conditions : UpdateData(data, where)
    \/ \E where \in Conditions : DeleteData(where)

-------------------------------------------------------------------------------
(* sqlite3_exec(): one connection at a time has the RESERVED lock. It commits *)
(* unless there is an error or another connection reads: then sqlite3_exec()  *)
(* returns an error, as it does to one that does not get the lock.            *)

Free(w) == call[w] = "none"

Execute(w) ==
    /\ Free(w) /\ writer = NoWrapper
    /\ writer' = w
    /\ Calls(w, "write")
    /\ UNCHANGED <<dataVars, readers, queryVars, abandoned>>

Committed(w) ==
    /\ call[w] = "write"
    /\ (readers \subseteq {w} /\ Change(w)) \/ UNCHANGED dataVars
    /\ writer' = NoWrapper
    /\ Calls(w, "none")
    /\ UNCHANGED <<readers, queryVars, abandoned>>

-------------------------------------------------------------------------------
(* ExecuteQuery(): a statement that cannot be prepared throws, and changes    *)
(* nothing.                                                                   *)

TextOf(row, select) == [c \in select |-> IF row[c] = NULL THEN "" ELSE row[c]]

ColumnsOf(query, columns) == IF query.all THEN columns ELSE query.select

\* What the query asks for.
Selected(query) ==
    LET found == Where(rows, query.where)
    IN [i \in DOMAIN found |-> TextOf(found[i], ColumnsOf(query, columns_))]

Answerable(query) == Known(ColumnsOf(query, columns_) \cup Names(query.where))

Prepare(w, query) ==
    /\ Free(w) /\ Answerable(query)
    /\ query.select # {} /\ (query.all => query.select = columns_)
    /\ asked' = [asked EXCEPT ![w] = query]
    /\ Calls(w, "query")
    /\ UNCHANGED <<dataVars, readers, writer, result, abandoned>>

\* The table of the query may be gone or another one by the first step: SQLite
\* prepares the statement again, and the loop goes on with the columns it counted.
Counted(w) == Cardinality(asked[w].select)
FewerColumns(w) == asked[w].all /\ Cardinality(columns_) < Counted(w)
MoreColumns(w) == asked[w].all /\ Cardinality(columns_) > Counted(w)

Leading(columns, n) == {c \in columns : Cardinality({d \in columns : d < c}) < n}

\* What the loop takes of each row.
ColumnsRead(w) == IF asked[w].all THEN Leading(columns_, Counted(w)) ELSE asked[w].select

RowRead(w, n) == [c \in ColumnsRead(w) |-> Selected(asked[w])[n][c]]

\* There is a next row. Rows come under a SHARED lock.
SkipFirst(w) == Len(result[w]) + 2
NextRow(w) == Len(result[w]) + 1

RowComes(w) == /\ call[w] = "query"
               /\ Answerable(asked[w]) /\ NextRow(w) <= Len(Selected(asked[w]))
               /\ readers' = readers \cup {w}
               /\ UNCHANGED <<dataVars, writer>>

StepRow(w) ==
    /\ RowComes(w) /\ ~FewerColumns(w)
    /\ result' = [result EXCEPT ![w] = Append(@, RowRead(w, NextRow(w)))]
    /\ UNCHANGED <<call, asked, abandoned>>

EndQuery(w) == /\ Calls(w, "none")
               /\ asked' = [asked EXCEPT ![w] = NoQuery]
               /\ result' = [result EXCEPT ![w] = <<>>]

\* A column that is not there has no name, and row[nullptr] throws (libstdc++)
\* before sqlite3_finalize(): the statement stays open, with its lock.
StepThrows(w) ==
    /\ RowComes(w) /\ FewerColumns(w)
    /\ abandoned' = abandoned \cup {w}
    /\ EndQuery(w)

\* No row is left, or the step failed, at the first step also because another
\* connection commits: the loop ends alike, the rows go to the caller, and
\* sqlite3_finalize() gives the lock back, unless another statement has it.
LeftOpen(w) == readers
Finalized(w) == readers \ ({w} \ abandoned)

StepEnds(w) ==
    /\ call[w] = "query"
    /\ readers' = Finalized(w)
    /\ EndQuery(w)
    /\ UNCHANGED <<dataVars, writer, abandoned>>

DatabaseNext ==
    \E w \in Wrappers :
        \/ Execute(w) \/ Committed(w) \/ StepRow(w) \/ StepThrows(w) \/ StepEnds(w)
        \/ \E all \in BOOLEAN, select \in SUBSET Columns, where \in Conditions :
               Prepare(w, [all |-> all, select |-> select, where |-> where])

DatabaseSpec == DatabaseInit /\ [][DatabaseNext]_databaseVars

-------------------------------------------------------------------------------
\* Between two calls of a wrapper the file is locked by it only if one of its
\* queries left the loop by the exception: every other way out gives the lock back,
\* and after this one it is never given back.
LocksInCalls ==
    /\ readers \subseteq {w \in Wrappers : call[w] = "query"} \cup abandoned
    /\ abandoned \subseteq readers
    /\ writer # NoWrapper => call[writer] = "write"

\* The variables keep their types: every row has the table's columns.
DatabaseTypeOK ==
    /\ columns_ \subseteq Columns
    /\ rows \in Seq([columns_ -> Values \cup {NULL}])
    /\ columns_ = {} => rows = <<>>
    /\ call \in [Wrappers -> {"none", "query", "write"}]
    /\ asked \in [Wrappers -> [all : BOOLEAN, select : SUBSET Columns,
                                where : Conditions \cup {{}}]]
    /\ abandoned \subseteq Wrappers
    /\ LocksInCalls

\* What a query has collected are the first rows of what it selects from the table
\* as it is while the query steps: nobody changes the table under it. Each row is
\* whole, unless SELECT * found more columns than when it was prepared: then it
\* has the first of them only. (There may be fewer rows than the selection has when
\* a step fails, and the caller is not told of either.)
QueryIsPrefix ==
    \A w \in Wrappers :
        call[w] = "query" /\ result[w] # <<>>
            => /\ Answerable(asked[w]) /\ ~FewerColumns(w)
               /\ Len(result[w]) <= Len(Selected(asked[w]))
               /\ \A i \in 1..Len(result[w]) :
                     \/ result[w][i] = Selected(asked[w])[i]
                     \/ MoreColumns(w) /\ result[w][i] = RowRead(w, i)
===============================================================================
