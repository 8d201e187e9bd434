---------------------------- MODULE MCCaseLineage ----------------------------
(* One logical case and the sessions that work on it at once.              *)
EXTENDS CaseLineage, TLC

MCSymmetry == Permutations(Sessions)
MCAllServices == {"edit", "author", "resolve", "review"}
MCReview == {"review"}
MCAllSources == {"modeB", "modeC", "csv"}
MCModes == {"modeB", "modeC"}
=============================================================================
