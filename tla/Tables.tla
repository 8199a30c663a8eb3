------------------------------- MODULE Tables -------------------------------
(***************************************************************************)
(* The embedded database (picomint-redb): typed tables over tables of     *)
(* bytes, one writer at a time, commits that are flushed to the disk or    *)
(* left for a later one to flush, and the waiters of a table.              *)
(*                                                                         *)
(* A table of bytes is a function from keys to values; redb, which is      *)
(* external, keeps it in the lexicographic order of the keys and gives a   *)
(* reader the rows of the last commit.  Values are not decoded.  All       *)
(* tables have keys of one type, a tuple.                                  *)
(***************************************************************************)
EXTENDS Encoding, FiniteSets, SequencesExt, Functions

CONSTANTS Table,     \* the names of the tables
          KeyTypes,  \* the types of the elements of a key
          Key,       \* the keys that are used
          Stored,    \* the values
          Awaited,    \* [table, key] of the row somebody waits for
          MaxTx,     \* how many transactions there are
          MaxOps,    \* operations of each
          MaxPowerCuts

ASSUME TablesAssumption ==
  /\ MaxTx \in Nat /\ MaxOps \in Nat /\ MaxPowerCuts \in Nat
  /\ Awaited.table \in Table /\ Awaited.key \in Key

VARIABLES committed,  \* what a new reader sees: table -> rows
          durable,    \* what a crash leaves
          writer,     \* [open, id, tables, touched, relaxed, ops]: the write transaction
          leaving,    \* [id, touched]: committed, but nobody was notified yet
          waiter,     \* [at, tick]: in wait_table_check for Awaited
          ticks,      \* table -> how often its waiters were notified
          announced,  \* the transactions whose callback has run
          finished,   \* the transactions whose commit has gone through
          begun,      \* how many transactions there were
          powerCuts

tablesVars == <<committed, durable, writer, leaving, waiter, ticks, announced,
                finished, begun, powerCuts>>

(***************************************************************************)
(* Keys and their ranges, in bytes                                         *)
(***************************************************************************)

KeyType == Tuple(KeyTypes)

KeyBytes == [k \in Key |-> Encode(KeyType, k)]

EncodeKey(k) == KeyBytes[k]

\* The type and encoding of a Prefix: the first n elements of a key.
EncodePrefix(p) == Encode(Tuple(SubSeq(KeyTypes, 1, Len(p))), p)

ProperPrefix == {SubSeq(k, 1, n) : k \in Key, n \in 1 .. Len(KeyTypes) - 1}

BytesLess(a, b) ==
  \E i \in DOMAIN b :
    /\ i \notin DOMAIN a \/ a[i] < b[i]
    /\ \A j \in 1 .. i - 1 : j \in DOMAIN a /\ a[j] = b[j]

Included(x) == [k |-> "included", at |-> x]
Excluded(x) == [k |-> "excluded", at |-> x]
Unbounded == [k |-> "unbounded"]

Bounds(K) == {Included(k) : k \in K} \cup {Excluded(k) : k \in K} \cup {Unbounded}

EncodeBound(bound) ==
  IF bound = Unbounded THEN Unbounded ELSE [bound EXCEPT !.at = EncodeKey(bound.at)]

\* encoded_bounds
EncodedBounds(range) == <<EncodeBound(range[1]), EncodeBound(range[2])>>

\* A bug: a prefix that ends with the greatest byte has no bound.
MutPrefixUpperBound(prefix) ==
  LET n == Len(prefix)
  IN IF prefix[n] = ByteBase - 1 THEN Unbounded
     ELSE Excluded([prefix EXCEPT ![n] = @ + 1])

\* prefix_upper_bound, a bound: the bytes up to the last one that can be
\* incremented, with that one incremented.
PrefixUpperBound(prefix) ==
  LET can == {i \in DOMAIN prefix : prefix[i] < ByteBase - 1}
  IN IF can = {} THEN Unbounded
     ELSE LET last == CHOOSE i \in can : \A j \in can : j <= i
          IN Excluded([SubSeq(prefix, 1, last) EXCEPT ![last] = @ + 1])

\* prefix_bounds
PrefixBounds(prefix) == <<Included(prefix), PrefixUpperBound(prefix)>>

Everything == <<Unbounded, Unbounded>>

WithinBounds(bytes, bounds) ==
  /\ CASE bounds[1].k = "included" -> ~ BytesLess(bytes, bounds[1].at)
       [] bounds[1].k = "excluded" -> BytesLess(bounds[1].at, bytes)
       [] OTHER -> TRUE
  /\ CASE bounds[2].k = "included" -> ~ BytesLess(bounds[2].at, bytes)
       [] bounds[2].k = "excluded" -> BytesLess(bytes, bounds[2].at)
       [] OTHER -> TRUE

(***************************************************************************)
(* What a transaction reads                                                *)
(***************************************************************************)

EmptyTable == [b \in {} |-> 0]

\* with_table: a table that was never created has no rows.
Rows(tables, t) == IF t \in DOMAIN tables THEN tables[t] ELSE EmptyTable

KeyOf == [bytes \in {EncodeKey(k) : k \in Key} |-> CHOOSE k \in Decode(KeyType, bytes) : TRUE]

DecodeKey(bytes) == KeyOf[bytes]

\* scan: the decoded keys of the rows within the bounds, as redb orders them.
Scan(rows, bounds, rev) ==
  LET found == SetToSortSeq({b \in DOMAIN rows : WithinBounds(b, bounds)}, BytesLess)
      keys == [i \in DOMAIN found |-> DecodeKey(found[i])]
  IN IF rev THEN Reverse(keys) ELSE keys

Get(tables, t, k) ==
  LET rows == Rows(tables, t)
  IN IF EncodeKey(k) \in DOMAIN rows THEN {rows[EncodeKey(k)]} ELSE {}

Iter(rows) == Scan(rows, Everything, FALSE)
IterRev(rows) == Scan(rows, Everything, TRUE)
PrefixScan(rows, p) == Scan(rows, PrefixBounds(EncodePrefix(p)), FALSE)
PrefixRev(rows, p) == Scan(rows, PrefixBounds(EncodePrefix(p)), TRUE)
RangeScan(rows, range) == Scan(rows, EncodedBounds(range), FALSE)

(***************************************************************************)
(* Transactions                                                            *)
(***************************************************************************)

NoWriter == [open |-> FALSE, id |-> 0, tables |-> [t \in {} |-> EmptyTable], touched |-> {},
             relaxed |-> FALSE, ops |-> 0]

SomeRows == UNION {[B -> Stored] : B \in SUBSET {EncodeKey(k) : k \in Key}}

\* A database that has been in use: some rows are in each table that exists.
TablesInit ==
  /\ committed \in UNION {[exist -> SomeRows] : exist \in SUBSET Table}
  /\ durable = committed /\ writer = NoWriter
  /\ leaving = {} /\ waiter = [at |-> "arm", tick |-> 0] /\ ticks = [t \in Table |-> 0]
  /\ announced = {} /\ finished = {} /\ begun = 0 /\ powerCuts = 0

\* begin_write and begin_write_relaxed: redb lets one in at a time.
BeginWrite(relaxed) ==
  /\ ~ writer.open /\ begun < MaxTx
  /\ begun' = begun + 1
  /\ writer' = [NoWriter EXCEPT !.open = TRUE, !.id = begun', !.tables = committed,
                                !.relaxed = relaxed]
  /\ UNCHANGED <<committed, durable, leaving, waiter, ticks, announced, finished,
                 powerCuts>>

\* An operation of the write transaction: it opens the table, which creates it.
Write(t, rows, touched) ==
  /\ writer.open /\ writer.ops < MaxOps
  /\ writer' = [writer EXCEPT !.tables = (t :> rows) @@ @, !.touched = @ \cup touched,
                              !.ops = @ + 1]
  /\ UNCHANGED <<committed, durable, leaving, waiter, ticks, announced, finished,
                 begun, powerCuts>>

InsertRow(t, k, v) == Write(t, (EncodeKey(k) :> v) @@ Rows(writer.tables, t), {t})

\* Dropping the transaction rolls it back: an early return, or a panic.
Drop ==
  /\ writer.open /\ writer' = NoWriter
  /\ UNCHANGED <<committed, durable, leaving, waiter, ticks, announced, finished,
                 begun, powerCuts>>

\* insert_new: a row that is there already is a panic.
InsertNew(t, k, v) == IF Get(writer.tables, t, k) = {} THEN InsertRow(t, k, v) ELSE Drop

RemoveRow(t, k) ==
  Write(t, Restrict(Rows(writer.tables, t), DOMAIN Rows(writer.tables, t) \ {EncodeKey(k)}), {t})

RemovePrefix(t, p) ==
  LET rows == Rows(writer.tables, t)
  IN Write(t, Restrict(rows, {b \in DOMAIN rows : ~ WithinBounds(b, PrefixBounds(EncodePrefix(p)))}), {t})

\* A read in a write transaction opens the table as well.
ReadInWrite(t) == Write(t, Rows(writer.tables, t), {})

ClearTable(t) ==
  /\ writer.open /\ writer.ops < MaxOps
  /\ writer' = [writer EXCEPT !.tables = Restrict(@, DOMAIN @ \ {t}), !.touched = @ \cup {t},
                              !.ops = @ + 1]
  /\ UNCHANGED <<committed, durable, leaving, waiter, ticks, announced, finished,
                 begun, powerCuts>>

\* commit, up to the notification: another writer may begin before that.
CommitTx ==
  /\ writer.open
  /\ committed' = writer.tables
  /\ durable' = IF writer.relaxed THEN durable ELSE writer.tables
  /\ leaving' = leaving \cup {[id |-> writer.id, touched |-> writer.touched]}
  /\ finished' = finished \cup {writer.id} /\ writer' = NoWriter
  /\ UNCHANGED <<waiter, ticks, announced, begun, powerCuts>>

\* commit, the rest of it: notify_waiters of every table, then on_commit's callback.
Notify ==
  \E c \in leaving :
    /\ leaving' = leaving \ {c}
    /\ ticks' = [t \in Table |-> IF t \in c.touched THEN ticks[t] + 1 ELSE ticks[t]]
    /\ announced' = announced \cup {c.id}
    /\ UNCHANGED <<committed, durable, writer, waiter, finished, begun, powerCuts>>

\* wait_table_check: `notified` is made first, then the check, then the wait.
WaiterStep ==
  /\ waiter' =
       CASE waiter.at = "arm" -> [at |-> "check", tick |-> ticks[Awaited.table]]
         [] waiter.at = "check" ->
              [waiter EXCEPT !.at = IF Get(committed, Awaited.table, Awaited.key) # {}
                                    THEN "found" ELSE "await"]
         [] waiter.at = "await" /\ ticks[Awaited.table] # waiter.tick ->
              [waiter EXCEPT !.at = "arm"]
         [] OTHER -> waiter
  /\ waiter' # waiter
  /\ UNCHANGED <<committed, durable, writer, leaving, ticks, announced, finished, begun,
                 powerCuts>>

\* A crash rolls back to the last durable commit, and the program starts again.
Crash ==
  /\ powerCuts < MaxPowerCuts /\ powerCuts' = powerCuts + 1
  /\ committed' = durable /\ writer' = NoWriter
  /\ leaving' = {} /\ waiter' = [at |-> "arm", tick |-> 0] /\ ticks' = [t \in Table |-> 0]
  /\ announced' = {} /\ finished' = {}
  /\ UNCHANGED <<durable, begun>>

TablesStep ==
  \/ \E relaxed \in BOOLEAN : BeginWrite(relaxed)
  \/ \E t \in Table :
       \/ \E k \in Key :
            \/ RemoveRow(t, k)
            \/ \E v \in Stored : InsertRow(t, k, v) \/ InsertNew(t, k, v)
       \/ \E p \in ProperPrefix : RemovePrefix(t, p)
       \/ ReadInWrite(t) \/ ClearTable(t)
  \/ Drop \/ CommitTx \/ Notify
  \/ WaiterStep \/ Crash

TablesSpec == TablesInit /\ [][TablesStep]_tablesVars /\ WF_tablesVars(Notify \/ WaiterStep)

(***************************************************************************)
(* Properties                                                              *)
(***************************************************************************)

RowsOK(tables) ==
  /\ DOMAIN tables \subseteq Table
  /\ \A t \in DOMAIN tables : Range(tables[t]) \subseteq Stored

TablesTypeOK ==
  /\ RowsOK(committed) /\ RowsOK(durable) /\ RowsOK(writer.tables)
  /\ writer.touched \subseteq Table
  /\ waiter.at \in {"arm", "check", "await", "found"} /\ ticks \in [Table -> 0 .. MaxTx]
  /\ begun \in 0 .. MaxTx /\ powerCuts \in 0 .. MaxPowerCuts

\* The keys that satisfy P in the order of their elements.
Sorted(keys) == SetToSortSeq(keys, LAMBDA j, k : Less(KeyType, j, k))

Between(k, range) ==
  /\ CASE range[1].k = "included" -> ~ Less(KeyType, k, range[1].at)
       [] range[1].k = "excluded" -> Less(KeyType, range[1].at, k)
       [] OTHER -> TRUE
  /\ CASE range[2].k = "included" -> ~ Less(KeyType, range[2].at, k)
       [] range[2].k = "excluded" -> Less(KeyType, k, range[2].at)
       [] OTHER -> TRUE

ProperRange ==
  {range \in Bounds(Key) \X Bounds(Key) :
     Unbounded \in {range[1], range[2]} \/ Less(KeyType, range[1].at, range[2].at)}

ExactOn(rows) ==
  LET keys == {k \in Key : EncodeKey(k) \in DOMAIN rows}
  IN /\ Iter(rows) = Sorted(keys) /\ IterRev(rows) = Reverse(Sorted(keys))
     /\ \A p \in ProperPrefix :
          LET under == Sorted({k \in keys : SubSeq(k, 1, Len(p)) = p})
          IN PrefixScan(rows, p) = under /\ PrefixRev(rows, p) = Reverse(under)
     /\ \A range \in ProperRange : RangeScan(rows, range) = Sorted({k \in keys : Between(k, range)})

\* The rows that are read as they should be.
ExactRows ==
  {rows \in UNION {[{EncodeKey(k) : k \in keys} -> Stored] : keys \in SUBSET Key} : ExactOn(rows)}

\* "Iteration, prefix and range order therefore equal element-wise tuple order":
\* a scan of bytes finds the keys that a scan of tuples would, in their order,
\* where elements are at the limit of their width too.
ScansExact ==
  ~ writer.open => \A t \in DOMAIN committed : committed[t] \in ExactRows

\* Whoever waits for a row that is there was notified or is going to be: "any
\* commit that lands between the check and the await will still wake the waiter".
NoLostWakeup ==
  waiter.at = "await" /\ Get(committed, Awaited.table, Awaited.key) # {} =>
    \/ ticks[Awaited.table] # waiter.tick
    \/ \E c \in leaving : Awaited.table \in c.touched

\* The callback of a transaction runs when the transaction is committed, and only
\* then: for one that is dropped it "never runs".
CallbacksSound == announced \cup {c.id : c \in leaving} = finished

\* All of the above.
StoreExact == TablesTypeOK /\ ScansExact /\ NoLostWakeup /\ CallbacksSound

\* If the row is there for good, whoever waits for it finds it.
WaiterServed == waiter.at = "found" \/ Get(committed, Awaited.table, Awaited.key) = {}
=============================================================================
