------------------------------ MODULE Catalog ------------------------------
(***************************************************************************)
(* What PostgreSQL knows about a VideoForge database: tables with their    *)
(* columns, foreign keys, unique constraints and checks, the append-only   *)
(* triggers, the enum types and the views.  Column types, defaults and     *)
(* indexes that constrain nothing are left out.                            *)
(***************************************************************************)
EXTENDS Functions

Fk(column, to, action) == [column |-> column, to |-> to, action |-> action]

(* A unique constraint: over which rows, and whether NULLs are equal.      *)
Unique(columns) == [columns |-> columns, among |-> "all", nulls |-> "differ"]
UniqueNulls(columns) == [Unique(columns) EXCEPT !.nulls = "equal"]
UniqueAmong(which, columns) == [Unique(columns) EXCEPT !.among = which]

Table(columns, nullable, fks, uniques, checks) ==
    [columns |-> columns, nullable |-> nullable, fks |-> fks,
     uniques |-> uniques, checks |-> checks]

(* columns.py: the columns every table, and every mutable table, carries.  *)
Kept == {"id", "created_at"}
Mutable == Kept \cup {"updated_at"}

Empty ==
    [table |-> << >>, trigger |-> {}, type |-> << >>, view |-> {}]

(* The entries of `new', and those of `old' under other names.             *)
Over(new, old) ==
    [x \in DOMAIN new \cup DOMAIN old |-> IF x \in DOMAIN new THEN new[x] ELSE old[x]]

CreateTables(c, tables) == [c EXCEPT !.table = Over(tables, @)]
DropTables(c, names) == [c EXCEPT !.table = Restrict(@, DOMAIN @ \ names)]

(* ALTER TABLE: the entry of one table is another one.                     *)
Alter(c, t, entry) == [c EXCEPT !.table[t] = entry]

AddColumns(c, t, columns, nullable) ==
    Alter(c, t, [c.table[t] EXCEPT !.columns = @ \cup columns, !.nullable = @ \cup nullable])
DropColumns(c, t, columns) ==
    Alter(c, t, [c.table[t] EXCEPT !.columns = @ \ columns, !.nullable = @ \ columns])
SetNotNull(c, t, columns) == Alter(c, t, [c.table[t] EXCEPT !.nullable = @ \ columns])

FksWithout(fks, columns) == {f \in fks : f.column \notin columns}

AddFks(c, t, fks) == Alter(c, t, [c.table[t] EXCEPT !.fks = @ \cup fks])
DropFks(c, t, columns) == Alter(c, t, [c.table[t] EXCEPT !.fks = FksWithout(@, columns)])

SetUniques(c, t, uniques) == Alter(c, t, [c.table[t] EXCEPT !.uniques = uniques])
AddChecks(c, t, checks) == Alter(c, t, [c.table[t] EXCEPT !.checks = @ \cup checks])
DropChecks(c, t, checks) == Alter(c, t, [c.table[t] EXCEPT !.checks = @ \ checks])

Guard(c, tables) == [c EXCEPT !.trigger = @ \cup tables]
Unguard(c, tables) == [c EXCEPT !.trigger = @ \ tables]

CreateTypes(c, types) == [c EXCEPT !.type = Over(types, @)]
DropTypes(c, names) == [c EXCEPT !.type = Restrict(@, DOMAIN @ \ names)]
AddLabels(c, name, labels) == [c EXCEPT !.type[name] = @ \cup labels]
=============================================================================
