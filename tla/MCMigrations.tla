--------------------------- MODULE MCMigrations ---------------------------
(***************************************************************************)
(* Three runs of two releases: the first binary knows one migration, the   *)
(* others know two.                                                        *)
(***************************************************************************)
EXTENDS Migrations

CONSTANTS old, new1, new2

MCProcess == {old, new1, new2}
MCKnown == [p \in MCProcess |-> IF p = old THEN 1 ELSE 2]
MCArg == {Nil, 1, 2}
=============================================================================
