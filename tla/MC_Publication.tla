----------------------------- MODULE MC_Publication -----------------------------
(* The two halves of publication side by side: the branch that rival commands *)
(* commit to, and the records from the rights review to the publication gate. *)
(* The initial state picks the one that acts; they share no state.            *)
EXTENDS MC_HubPublication, PublicationGate

VARIABLE focus    \* the half that acts

\* A review and an authorization may be renewed.
MCMaxOfAKind ==
  [reviews |-> 2, sightings |-> 1, duties |-> 1, manifests |-> 1, releases |-> 1,
   permits |-> 2, uploads |-> 1]

HalvesInit == focus \in {"branch", "records"} /\ Init /\ PublicationInit

Halted(half, state) == focus = half \/ (focus # half /\ UNCHANGED state)

HalvesNext ==
  /\ UNCHANGED focus
  /\ \/ focus = "branch" /\ Next
     \/ focus = "records" /\ PublicationNext
  /\ Halted("branch", vars)
  /\ Halted("records", publicationVars)

HalvesSpec == HalvesInit /\ [][HalvesNext]_<<focus, vars, publicationVars>>
=================================================================================
