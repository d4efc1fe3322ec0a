--------------------------- MODULE MCImportSpace ---------------------------
(* An import and a Space made by hand, which the owner gives the same name. *)
EXTENDS ImportSpace

MCNameOf(s) == "name"

=============================================================================
