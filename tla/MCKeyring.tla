----------------------------- MODULE MCKeyring ------------------------------
(* Small instances of Keyring for TLC. *)
EXTENDS Keyring, TLC

(* One id that is generated in two directories, and another. *)
MCDirs == {"ana", "rui"}
MCKeygens == {<<"ana", 1>>, <<"rui", 1>>, <<"rui", 2>>}

(* Each key in the role that is asked for, one under another's id, and one
   in a role nobody asked for. *)
MCSignings == {<<"ana", 1, 1, "uat">>, <<"rui", 2, 2, "uat">>, <<"ana", 1, 2, "uat">>,
               <<"rui", 2, 2, "legal">>}

MCRoles == {"uat", "legal"}

Symmetry == Permutations(Procs)
=============================================================================
