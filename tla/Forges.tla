------------------------------- MODULE Forges -------------------------------
(***************************************************************************)
(* What the calls of a forge and the mirror of its issues share: the forge *)
(* a repository is at, which picks the publisher and the issue provider,   *)
(* and the size of the pages of its listings.                              *)
(***************************************************************************)
EXTENDS Naturals

CONSTANT PER_PAGE  \* items on a page (100 in the code)

ASSUME PageAssumption == PER_PAGE \in Nat \ {0}

VARIABLE provider  \* "github" or "gitcode"
=============================================================================
