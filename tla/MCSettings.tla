------------------------------ MODULE MCSettings ------------------------------
(***************************************************************************)
(* Texts for Settings: two that dotenv leaves as they are, one of them in  *)
(* quotes as well, and one with a variable the environment does not have.  *)
(***************************************************************************)
EXTENDS Settings

CONSTANTS old, new, quotedNew, unknownVariable

MCTexts == {old, new, quotedNew, unknownVariable}

MCResolve ==
  [t \in MCTexts \union {Empty} |->
     CASE t = quotedNew -> new
       [] t = unknownVariable -> Unset
       [] OTHER -> t]
=============================================================================
