------------------------------- MODULE Paging -------------------------------
(***************************************************************************)
(* The numbers of pages that the lists of internal/session/repository.go   *)
(* have in common.                                                         *)
(***************************************************************************)
EXTENDS Integers

Pages(total, size) == (total + size - 1) \div size

\* Mutant: the page after the last one is empty.
NoClamp(page, size, total) == page

\* clampListSessionsPage
ClampListSessionsPage(page, size, total) ==
    IF total = 0 THEN page
    ELSE IF page > Pages(total, size) THEN Pages(total, size) ELSE page
=============================================================================
