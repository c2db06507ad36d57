---------------------------- MODULE MCMigrations -----------------------------
(***************************************************************************)
(* Small instances of Migrations.                                          *)
(***************************************************************************)
EXTENDS Migrations

CONSTANTS r1, r2, gift, guest

=============================================================================
