--------------------------- MODULE MCOrgMembership ---------------------------
(* A small organization: instances of OrgMembership for TLC.               *)
EXTENDS OrgMembership, TLC

MCSymmetry == Permutations(Users) \cup Permutations(Invites)
=============================================================================
