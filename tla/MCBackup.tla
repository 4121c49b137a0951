------------------------------ MODULE MCBackup ------------------------------
(***************************************************************************)
(* Backup for two processes whose requests have labels that are equal once *)
(* they are sanitized, and one label more.                                 *)
(***************************************************************************)
EXTENDS Backup

Symmetry == Permutations(Proc)

MCRequests ==
  [backend : {"sqlite"}, dir : {<<"backups">>},
   label : {<<"a">>, <<"/", ".", "a", " ">>, <<"b", "-", "/", "a">>}]
  \cup {[backend |-> "sqlite", dir |-> <<"backups", "..">>, label |-> <<"a">>],
        [backend |-> "postgres", dir |-> <<"backups">>, label |-> <<"a">>]}

=============================================================================
