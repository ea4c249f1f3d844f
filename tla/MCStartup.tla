------------------------------ MODULE MCStartup ------------------------------
(***************************************************************************)
(* The databases the programs of Startup may find: none, tables of the     *)
(* versions of the program before each column that init_db adds, and       *)
(* current ones.                                                           *)
(***************************************************************************)
EXTENDS Startup

MCOldAlerts == {Null, {}, {"feedback"}, ColumnNames}

\* The tables with which the index on expires_at can be created.
MCOldBlocked == {Null, NewBlocked}

\* A blocklist from before temporary blocks.
MCOldestBlocked == {{}}
=============================================================================
