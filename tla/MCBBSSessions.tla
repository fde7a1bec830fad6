--------------------------- MODULE MCBBSSessions ----------------------------
(* BBSSessions on small instances: the partners in the order of BBSChain. *)
EXTENDS BBSSessions

CONSTANT P

OnePartner == << P >>
=============================================================================
