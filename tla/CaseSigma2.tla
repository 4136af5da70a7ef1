------------------------------ MODULE CaseSigma2 ------------------------------
(***************************************************************************)
(* The Sigma2 leg of the CASE responder (sc/case.rs, handle_casesigma1 and *)
(* the Sigma3 key of handle_casesigma3) against one initiator, over a      *)
(* network that loses messages.                                            *)
(*                                                                         *)
(* Sigma2 is built by the send_with closure, which the exchange runs again *)
(* for each retransmission: each run looks the fabric up, signs, encrypts  *)
(* and encodes anew, and the closure adds the encoding to the transcript   *)
(* hash only on its first run (hash_updated). Both sides derive the Sigma3 *)
(* key from their transcript, so Sigma3 decrypts only if the transcripts   *)
(* agree. A transcript is the sequence of encodings hashed; an encoding is *)
(* a record naming its signature, since the random, the keys and the       *)
(* resumption id are fixed before the closure and the AEAD nonce is fixed. *)
(*                                                                         *)
(* Sigma3 carries the initiator's credentials, abstracted to what          *)
(* validate_certs and validate_sigma3_sign read of them: the fabric id of  *)
(* the NOC and of an ICAC ("match", "other", or "unparseable"), whether    *)
(* the chain verifies up to the fabric's root CA, and whether the          *)
(* signature verifies under the NOC's key. The initiator may be anyone.    *)
(***************************************************************************)
EXTENDS Naturals, Sequences

CONSTANTS
  DeterministicSign,  \* Fabric::sign_msg yields the same bytes on every call
  MaxTx               \* bound: transmissions of Sigma2 (MRP_MAX_TRANSMISSIONS)

ASSUME DeterministicSign \in BOOLEAN /\ MaxTx \in Nat \ {0}

VARIABLES
  fabricLive,   \* the fabric matched at Sigma1 is still in the fabric table
  runs,         \* runs of the send_with closure so far
  hashUpdated,  \* the closure's hash_updated flag
  respTT,       \* the responder's transcript (case_session.tt_hash)
  respPhase,    \* "sigma2", "await3", "established", "failed"
  acked,        \* the responder's Sigma2 has been acknowledged
  initTT,       \* the initiator's transcript
  initPhase,    \* "await2", "sent3", "aborted"
  net           \* messages in flight

vars == <<fabricLive, runs, hashUpdated, respTT, respPhase, acked, initTT, initPhase, net>>

FabIdOutcomes == {"match", "other", "unparseable"}
Cred == [noc : FabIdOutcomes, icac : FabIdOutcomes \cup {"absent"},
         chain : BOOLEAN, sig : BOOLEAN]

Sigma1 == [type |-> "Sigma1", sig |-> 0]
Status == [type |-> "Status", sig |-> 0]
Ack == [type |-> "Ack", sig |-> 0]
Encoding == [type : {"Sigma1", "Sigma2"}, sig : 0..MaxTx] \cup [type : {"Sigma3"}, cred : Cred]
Msg == {Status, Ack} \cup [type : {"Sigma2"}, sig : 0..MaxTx]
       \cup [type : {"Sigma3"}, tt : Seq(Encoding), cred : Cred]

TypeOK ==
  /\ fabricLive \in BOOLEAN /\ hashUpdated \in BOOLEAN /\ acked \in BOOLEAN
  /\ runs \in 0..MaxTx
  /\ respPhase \in {"sigma2", "await3", "established", "rejected", "failed"}
  /\ initPhase \in {"await2", "sent3", "aborted"}
  /\ respTT \in Seq(Encoding) /\ initTT \in Seq(Encoding)
  /\ net \subseteq Msg

\* Sigma1 has been hashed by both sides and matched a fabric.
Init ==
  /\ fabricLive = TRUE
  /\ runs = 0
  /\ hashUpdated = FALSE
  /\ respTT = <<Sigma1>>
  /\ respPhase = "sigma2"
  /\ acked = FALSE
  /\ initTT = <<Sigma1>>
  /\ initPhase = "await2"
  /\ net = {}

-----------------------------------------------------------------------------
(* The responder *)

\* get_sigma2_sign then get_sigma2_encryption: the n-th signature, which is
\* the first one again when signing is deterministic.
Sigma2Encoding(n) == [type |-> "Sigma2", sig |-> IF DeterministicSign THEN 0 ELSE n]

\* Mutant: the transcript is updated on every run of the closure.
HashOnRunAlways(tt, enc, updated) == Append(tt, enc)

\* The closure adds its encoding to the transcript on its first run only.
HashOnRun(tt, enc, updated) == IF updated THEN tt ELSE Append(tt, enc)

\* Mutant: one transmission more than the limit.
MayTransmitOneMore(n) == n <= MaxTx

\* RetransEntry::pre_send: a message is transmitted at most MaxTx times.
MayTransmit(n) == n < MaxTx

\* One run of the send_with closure, and the transmission of what it
\* wrote: the fabric is looked up again; without it the message is a
\* NoSharedTrustRoots status report and the transcript is left alone. A
\* signing or encryption error ends the handshake through `?`.
ClosureRun ==
  /\ MayTransmit(runs)
  /\ runs' = runs + 1
  /\ \/ /\ ~fabricLive
        /\ net' = net \cup {Status}
        /\ respPhase' = "await3"
        /\ UNCHANGED <<hashUpdated, respTT>>
     \/ /\ fabricLive
        /\ net' = net \cup {Sigma2Encoding(runs)}
        /\ respTT' = HashOnRun(respTT, Sigma2Encoding(runs), hashUpdated)
        /\ hashUpdated' = TRUE
        /\ respPhase' = "await3"
     \/ /\ fabricLive
        /\ net' = net
        /\ respPhase' = "failed"
        /\ UNCHANGED <<hashUpdated, respTT>>

\* handle_casesigma1 sends Sigma2; then recv_fetch waits for Sigma3.
SendSigma2 ==
  /\ respPhase = "sigma2"
  /\ ClosureRun
  /\ UNCHANGED <<fabricLive, acked, initTT, initPhase>>

\* The exchange retransmits the unacknowledged Sigma2 while the task waits.
Retransmit ==
  /\ respPhase = "await3" /\ ~acked
  /\ ClosureRun
  /\ UNCHANGED <<fabricLive, acked, initTT, initPhase>>

\* An acknowledgment of Sigma2 stops the retransmissions.
RecvAck ==
  /\ Ack \in net
  /\ acked' = TRUE
  /\ net' = net \ {Ack}
  /\ UNCHANGED <<fabricLive, runs, hashUpdated, respTT, respPhase, initTT, initPhase>>

\* Case::get_sigma3_decryption under get_sigma3_key: the key comes from the
\* responder's transcript, and decrypt_in_place fails under any other.
Sigma3Decrypts(m) == m.tt = respTT

\* Case::validate_certs: the NOC's fabric id must be readable and the
\* fabric's; an ICAC's fabric id, when readable, must be the fabric's too;
\* the chain NOC (, ICAC), root CA must verify.
ValidateCerts(c) == c.noc = "match" /\ c.icac # "other" /\ c.chain

\* Case::validate_sigma3_sign: the signature over the initiator's NOC,
\* ICAC and both public keys verifies under the NOC's public key.
ValidateSigma3Sign(c) == c.sig

\* handle_casesigma3, with the fabric looked up again and its status
\* report sent by complete_with_status. Sigma3 also acknowledges Sigma2.
\* Without the fabric: NoSharedTrustRoots. Decryption under the key of the
\* responder's transcript (get_sigma3_key) or the TLV parsing can fail
\* through `?`. Failed validation: InvalidParameter. Otherwise Sigma3
\* enters the transcript, and the CAT ids, the session keys and
\* ReservedSession::update either succeed, establishing the session, or
\* fail through `?` after the hash.
RecvSigma3(m) ==
  /\ respPhase = "await3" /\ m.type = "Sigma3"
  /\ acked' = TRUE
  /\ net' = net \ {m}
  /\ \/ /\ ~fabricLive
        /\ respPhase' = "rejected"
        /\ UNCHANGED respTT
     \/ /\ fabricLive
        /\ respPhase' = "failed"
        /\ UNCHANGED respTT
     \/ /\ fabricLive /\ Sigma3Decrypts(m)
        /\ ~(ValidateCerts(m.cred) /\ ValidateSigma3Sign(m.cred))
        /\ respPhase' = "rejected"
        /\ UNCHANGED respTT
     \/ /\ fabricLive /\ Sigma3Decrypts(m)
        /\ ValidateCerts(m.cred) /\ ValidateSigma3Sign(m.cred)
        /\ respTT' = Append(respTT, [type |-> "Sigma3", cred |-> m.cred])
        /\ respPhase' \in {"established", "failed"}
  /\ UNCHANGED <<fabricLive, runs, hashUpdated, initTT, initPhase>>

\* The fabric is removed while the handshake runs.
FabricRemoved ==
  /\ fabricLive
  /\ fabricLive' = FALSE
  /\ UNCHANGED <<runs, hashUpdated, respTT, respPhase, acked, initTT, initPhase, net>>

-----------------------------------------------------------------------------
(* The initiator and the network *)

\* The first Sigma2 to arrive is hashed as received and answered by a
\* Sigma3 under the key of the initiator's transcript, carrying whatever
\* credentials the initiator holds.
InitRecvSigma2(m) ==
  /\ initPhase = "await2" /\ m.type = "Sigma2"
  /\ initTT' = Append(initTT, m)
  /\ initPhase' = "sent3"
  /\ \E c \in Cred :
       net' = (net \ {m}) \cup {[type |-> "Sigma3", tt |-> initTT', cred |-> c]}
  /\ UNCHANGED <<fabricLive, runs, hashUpdated, respTT, respPhase, acked>>

\* A status report instead of Sigma2 ends the initiator's attempt.
InitRecvStatus ==
  /\ initPhase = "await2" /\ Status \in net
  /\ initPhase' = "aborted"
  /\ net' = (net \ {Status}) \cup {Ack}
  /\ UNCHANGED <<fabricLive, runs, hashUpdated, respTT, respPhase, acked, initTT>>

\* A retransmission after the first is dropped as a duplicate and acked.
InitRecvDuplicate(m) ==
  /\ initPhase # "await2" /\ m.type \in {"Sigma2", "Status"}
  /\ net' = (net \ {m}) \cup {Ack}
  /\ UNCHANGED <<fabricLive, runs, hashUpdated, respTT, respPhase, acked, initTT, initPhase>>

Lose(m) ==
  /\ net' = net \ {m}
  /\ UNCHANGED <<fabricLive, runs, hashUpdated, respTT, respPhase, acked, initTT, initPhase>>

Next ==
  \/ SendSigma2 \/ Retransmit \/ RecvAck \/ FabricRemoved \/ InitRecvStatus
  \/ \E m \in net :
       \/ RecvSigma3(m)
       \/ InitRecvSigma2(m) \/ InitRecvDuplicate(m) \/ Lose(m)

Spec == Init /\ [][Next]_vars

-----------------------------------------------------------------------------
(* Properties *)

\* Spec 4.3: Sigma2 enters the transcript hash "with the exact bytes
\* transmitted, exactly once, regardless of retransmission". Whichever
\* transmission of Sigma2 the initiator accepts, its transcript is the
\* responder's up to Sigma3, so both derive the same Sigma3 key.
Sigma2Transcript(tt) == SelectSeq(tt, LAMBDA e : e.type # "Sigma3")
TranscriptsAgree ==
  initPhase = "sent3" => initTT = Sigma2Transcript(respTT)

=============================================================================
