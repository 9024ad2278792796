----------------------------- MODULE MCInPlace -----------------------------
EXTENDS InPlace

(* The behaviours in which a worker is updated, or the extension not found,  *)
(* next to one change of the control plane's version; there are two changes  *)
(* in the others.  Nobody has to change it, so these are behaviours of       *)
(* FairSpec.                                                                 *)
OneEditLess == history' \cap {"worker", "fallback"} # {} => edits' > 0

RunSpec == Init /\ [][Next /\ OneEditLess]_vars /\ Fairness
============================================================================
