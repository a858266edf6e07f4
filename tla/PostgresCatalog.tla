-------------------------- MODULE PostgresCatalog --------------------------
(* The part of PostgreSQL the database swaps rely on: database names, their*)
(* OIDs, and the two statements that change them, each of them atomic.     *)
EXTENDS Functions

CONSTANT Absent        \* no database bears the name

VARIABLE db            \* [name -> OID, or Absent]

Exists(n) == db[n] # Absent
Databases == Range(db) \ {Absent}

(* ALTER DATABASE from RENAME TO to: refused unless from exists and to is  *)
(* free.                                                                   *)
CanRename(from, to) == Exists(from) /\ ~Exists(to)
Renamed(from, to) == [db EXCEPT ![to] = db[from], ![from] = Absent]

(* DROP DATABASE IF EXISTS.                                                *)
Dropped(n) == [db EXCEPT ![n] = Absent]
=============================================================================
