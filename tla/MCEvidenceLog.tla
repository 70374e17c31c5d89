--------------------------- MODULE MCEvidenceLog ----------------------------
(* Small instances of EvidenceLog for TLC. *)
EXTENDS EvidenceLog, TLC

At(kind, key, role, trusted) ==
  [kind |-> kind, key |-> key, role |-> role, trusted |-> trusted]

(* An attestation of each key, and a record that does not count. *)
MCEntries ==
  {At("attestation", k, "uat", TRUE) : k \in Keys} \cup
  {At("note", NoKey, "", FALSE)}

MCSymmetry == Permutations(Recorders) \cup Permutations(Keys)

=============================================================================
