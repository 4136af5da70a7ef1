\* Sigma2 retransmissions with a signer that draws a fresh nonce per call.
CONSTANTS
  DeterministicSign = FALSE
  MaxTx = 3
SPECIFICATION Spec
INVARIANT TranscriptsAgree
CHECK_DEADLOCK FALSE
