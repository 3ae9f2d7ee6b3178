------------------------------- MODULE PgRow -------------------------------
(***************************************************************************)
(* One row of a PostgreSQL table, as the statements of concurrent          *)
(* READ COMMITTED transactions see it (the isolation level that            *)
(* internal/shared/db/postgres_transactor.go gets from pool.Begin).        *)
(*                                                                         *)
(* A row has its committed value, the transaction that holds its row lock  *)
(* (None when nobody does), and that transaction's own, uncommitted, value.*)
(* An unlocked row keeps new = val.  A row not yet inserted has val = None.*)
(* The database is not part of the repository: these operators say what    *)
(* the repository's statements rely on.                                    *)
(***************************************************************************)
CONSTANT None    \* no transaction, no value: SQL NULL or an absent row

\* A row nobody has locked.
Unlocked(v) == [val |-> v, lock |-> None, new |-> v]

\* What a SELECT of transaction p returns: its own write, else the committed value.
Seen(row, p) == IF row.lock = p THEN row.new ELSE row.val

\* An UPDATE or a SELECT ... FOR UPDATE of p need not wait for another transaction.
Lockable(row, p) == row.lock \in {None, p}

\* The row after transaction p has locked it and given it the value v.
Written(row, p, v) == [val |-> row.val, lock |-> p, new |-> v]

\* COMMIT and ROLLBACK of p publish or drop what p wrote, and unlock.
Committed(row, p)  == IF row.lock = p THEN Unlocked(row.new) ELSE row
RolledBack(row, p) == IF row.lock = p THEN Unlocked(row.val) ELSE row

\* Rows over a set of values, held by transactions of procs.
RowOf(values, procs) == [val: values, lock: procs \cup {None}, new: values]
=============================================================================
