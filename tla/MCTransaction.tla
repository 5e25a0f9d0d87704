--------------------------- MODULE MCTransaction ---------------------------
(* Small instances of Transaction for TLC.                                  *)
EXTENDS Transaction, TLC

\* Web workers are interchangeable; for runs without liveness properties.
WorkerSymmetry == Permutations(Workers)

\* One configuration has a ruleset that does not parse, and its access points do not
\* come up either.
OneRejected == {CHOOSE t \in Tx : TRUE} \X {"hostapd", "nftables"}
=============================================================================
