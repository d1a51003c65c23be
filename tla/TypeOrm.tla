------------------------------- MODULE TypeOrm -------------------------------
(***************************************************************************)
(* What Repository.save and Repository.remove of TypeORM (a dependency,    *)
(* not part of this repository) do to the rows and to the rows of a join   *)
(* table, as the services under src/src/modules use them.                  *)
(*                                                                         *)
(* A save first LOADS what the database holds for the entity, compares it  *)
(* with the entity in memory, and then executes the difference in one      *)
(* transaction.  Between the load and the transaction other requests run,  *)
(* so the operators take the loaded and the current value apart:           *)
(*    links   the join table when the transaction executes                 *)
(*    have    the entity's links found by the load                         *)
(*    want    the links the entity in memory says it has                   *)
(* The transaction is one step: its statements commit or fail together.    *)
(* No foreign key guards the join tables                                   *)
(* (src/src/modules/access/migrations/1700000000000-InitialSchema.ts:324-351).   *)
(***************************************************************************)

\* The join table after the difference between `want` and `have` is executed.
LinksAfterSave(links, have, want) ==
    (links \ (have \ want)) \cup (want \ have)

\* The INSERT of a link that is there already breaks the table's primary key.
DuplicateLink(links, have, want) ==
    (want \ have) \cap links # {}

\* An entity whose row the load did not find is INSERTed; an entity whose row
\* was found is UPDATEd, which changes no row when it is gone by then.
RowsAfterSave(rows, found, ids) == rows \cup (ids \ found)

\* The columns of a row after an UPDATE of those the entity changed.
ColumnsAfterSave(row, have, want) ==
    [c \in DOMAIN row |-> IF want[c] # have[c] THEN want[c] ELSE row[c]]

\* The INSERT of a row that another save inserted meanwhile.
DuplicateRow(rows, found, ids) == (ids \ found) \cap rows # {}

=============================================================================
