---------------------------- MODULE MCPageTables ----------------------------
(* Small instances of PageTables. *)
EXTENDS PageTables

(* Pages in one table, in two of one, and in two of the first level. *)
FourPages == {<<0, 0, 0>>, <<0, 0, 1>>, <<0, 2, 1>>, <<1, 2, 1>>}
=============================================================================
