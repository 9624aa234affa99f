----------------------------- MODULE MCReports -----------------------------
(* Reports with one DID that has a state: the shortest way to a buffered      *)
(* report that nothing shows.                                                *)
EXTENDS Reports
=============================================================================
