----------------------------- MODULE OrmSession -----------------------------
(***************************************************************************)
(* What every service relies on from a SQLAlchemy session with             *)
(* expire_on_commit=False on a READ COMMITTED database: rows are loaded    *)
(* once, changed in memory, and a flush sends an UPDATE with only the      *)
(* attributes whose value differs from the last loaded or flushed one.  No *)
(* row is locked between load and flush, and no version is compared.       *)
(***************************************************************************)

\* The database row after flushing the in-memory row mem, whose attributes
\* had the values base when they were last in step with the database.
Flush(db, mem, base) ==
  [f \in DOMAIN db |-> IF mem[f] = base[f] THEN db[f] ELSE mem[f]]
=============================================================================
