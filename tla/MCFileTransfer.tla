--------------------------- MODULE MCFileTransfer ---------------------------
(***************************************************************************)
(* FileTransfer for TLC.                                                   *)
(***************************************************************************)
EXTENDS FileTransfer, TLC

\* Connections and FILE addresses are interchangeable, and so are users.
Symmetry ==
    Permutations(Conns) \cup Permutations(Users) \cup Permutations(Addresses)
\* All variables but sent, on which no step and none of the invariants checked
\* under this view depends.
StoreView == <<dirVars, storeVars, histVars>>

=============================================================================
