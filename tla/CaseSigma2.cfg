\* Sigma2 retransmissions with a deterministic signer (RFC 6979 ECDSA).
CONSTANTS
  DeterministicSign = TRUE
  MaxTx = 3
SPECIFICATION Spec
INVARIANT TypeOK TranscriptsAgree
\* The handshake ends: established, failed, or the initiator gave up.
CHECK_DEADLOCK FALSE
