--------------------------- MODULE ReliableMessage ---------------------------
(***************************************************************************)
(* The Message Reliability Protocol (MRP) of one exchange, run by the two  *)
(* peers of a session over an unreliable network.                          *)
(*                                                                         *)
(* Each peer keeps the per-exchange ReliableMessage state of               *)
(* src/rs-matter/src/transport/mrp.rs (one RetransEntry, one AckEntry, the *)
(* received_at_ms mark) and, from its Session (transport/session.rs), the  *)
(* outgoing message counter and the duplicate-detection state that         *)
(* Session::post_recv consults before handing a message to the exchange.   *)
(*                                                                         *)
(* The network may lose a message, deliver it more than once and deliver   *)
(* messages in any order: a delivered message stays in `net`.              *)
(***************************************************************************)
EXTENDS Naturals, FiniteSets

CONSTANTS
  Node,                  \* the two peers of the exchange
  None,                  \* model value: an absent Option
  MaxMsgCtr,             \* bound: a session hands out counters 1..MaxMsgCtr-1
  MRP_MAX_TRANSMISSIONS, \* mrp.rs: retransmissions before giving up
  NetCapacity,           \* bound: messages on the network at once
  Lossy                  \* whether the network may lose messages

ASSUME Cardinality(Node) = 2
ASSUME MaxMsgCtr \in Nat \ {0, 1}
ASSUME MRP_MAX_TRANSMISSIONS \in Nat \ {0}
ASSUME NetCapacity \in Nat \ {0}
ASSUME Lossy \in BOOLEAN

VARIABLES
  msgCtr,      \* Session.msg_ctr of each peer's session
  retrans,     \* ReliableMessage.retrans: None or a RetransEntry
  ack,         \* ReliableMessage.ack: None or an AckEntry
  receivedAt,  \* ReliableMessage.received_at_ms is Some(_)
  rxSeen,      \* Session.rx_ctr_state: counters already accepted
  net,         \* messages on the network
  sentRel,     \* history: counters each peer has sent as reliable messages
  processed,   \* history: counters whose message reached the exchange
  gaveUp       \* history: counters each peer stopped retransmitting

vars == <<msgCtr, retrans, ack, receivedAt, rxSeen, net,
          sentRel, processed, gaveUp>>

Ctr == 1..MaxMsgCtr
Peer(n) == CHOOSE p \in Node : p # n

RetransEntry == [msg_ctr : Ctr, counter : 0..MRP_MAX_TRANSMISSIONS]
AckEntry == [msg_ctr : Ctr, acknowledged : BOOLEAN]
Message == [src : Node, ctr : Ctr, rel : BOOLEAN, ack : Ctr \cup {None}]

TypeOK ==
  /\ msgCtr \in [Node -> Ctr]
  /\ retrans \in [Node -> RetransEntry \cup {None}]
  /\ ack \in [Node -> AckEntry \cup {None}]
  /\ receivedAt \in [Node -> BOOLEAN]
  /\ rxSeen \in [Node -> SUBSET Ctr]
  /\ net \subseteq Message
  /\ sentRel \in [Node -> SUBSET Ctr]
  /\ processed \in [Node -> SUBSET Ctr]
  /\ gaveUp \in [Node -> SUBSET Ctr]

(***************************************************************************)
(* The counter is seeded at random (Session::rand_msg_ctr); its value only *)
(* matters relative to later counters, so both sessions start at 1.        *)
(***************************************************************************)
Init ==
  /\ msgCtr = [n \in Node |-> 1]
  /\ retrans = [n \in Node |-> None]
  /\ ack = [n \in Node |-> None]
  /\ receivedAt = [n \in Node |-> FALSE]
  /\ rxSeen = [n \in Node |-> {}]
  /\ net = {}
  /\ sentRel = [n \in Node |-> {}]
  /\ processed = [n \in Node |-> {}]
  /\ gaveUp = [n \in Node |-> {}]

-----------------------------------------------------------------------------
(***************************************************************************)
(* Sending: Session::pre_send picks the counter, ReliableMessage::pre_send *)
(* updates the exchange, and the caller transmits the message.             *)
(***************************************************************************)

\* Session::pre_send: a pending retransmission keeps its counter, any other
\* message takes the next one from the session.
IsRetransmission(n) == retrans[n] # None
TxCtr(n) == IF IsRetransmission(n) THEN retrans[n].msg_ctr ELSE msgCtr[n]

\* Mutant: off by one, one retransmission too many.
RetransExhaustedLate(e) == e.counter > MRP_MAX_TRANSMISSIONS

\* RetransEntry::pre_send fails once the retry counter reached the maximum.
RetransExhausted(e) == e.counter >= MRP_MAX_TRANSMISSIONS

\* Mutant: give-up forgets to drop the RetransEntry.
NextRetransKeep(n, reliable) ==
  CASE ~reliable -> retrans[n]
    [] retrans[n] = None -> [msg_ctr |-> TxCtr(n), counter |-> 0]
    [] RetransExhausted(retrans[n]) -> retrans[n]
    [] OTHER -> [retrans[n] EXCEPT !.counter = @ + 1]

\* ReliableMessage::pre_send, retransmission part: start an entry on the
\* first send, count a retransmission, or give up and drop the entry.
NextRetrans(n, reliable) ==
  CASE ~reliable -> retrans[n]
    [] retrans[n] = None -> [msg_ctr |-> TxCtr(n), counter |-> 0]
    [] RetransExhausted(retrans[n]) -> None
    [] OTHER -> [retrans[n] EXCEPT !.counter = @ + 1]

GivesUp(n, reliable) ==
  reliable /\ retrans[n] # None /\ RetransExhausted(retrans[n])

\* ReliableMessage::pre_send, ack part: piggy-back a pending ack and mark it
\* sent; the entry stays until a matching ack arrives, or is dropped on
\* give-up.
NextAck(n, reliable) ==
  IF ack[n] = None \/ GivesUp(n, reliable) THEN None
  ELSE [ack[n] EXCEPT !.acknowledged = TRUE]

AckField(n) == IF ack[n] = None THEN None ELSE ack[n].msg_ctr

\* A lossy network that already holds NetCapacity messages drops a new one.
Transmit(m) == IF Cardinality(net) < NetCapacity THEN net \cup {m} ELSE net

\* One transmission on the exchange; `reliable` is the R flag after
\* ProtoHdr::adjust_reliability. pre_send returns Ok on give-up too, so the
\* caller still transmits.
PreSend(n, reliable) ==
  /\ IsRetransmission(n) \/ msgCtr[n] < MaxMsgCtr
  /\ Lossy \/ Cardinality(net) < NetCapacity
  /\ msgCtr' = [msgCtr EXCEPT ![n] = IF IsRetransmission(n) THEN @ ELSE @ + 1]
  /\ retrans' = [retrans EXCEPT ![n] = NextRetrans(n, reliable)]
  /\ ack' = [ack EXCEPT ![n] = NextAck(n, reliable)]
  /\ receivedAt' = [receivedAt EXCEPT ![n] = FALSE]
  /\ net' = Transmit([src |-> n, ctr |-> TxCtr(n), rel |-> reliable,
                       ack |-> AckField(n)])
  /\ sentRel' = IF reliable THEN [sentRel EXCEPT ![n] = @ \cup {TxCtr(n)}]
                ELSE sentRel
  /\ gaveUp' = IF GivesUp(n, reliable)
               THEN [gaveUp EXCEPT ![n] = @ \cup {TxCtr(n)}] ELSE gaveUp
  /\ UNCHANGED <<rxSeen, processed>>

\* The exchange layer's retransmission timer firing.
Retransmit(n) == IsRetransmission(n) /\ PreSend(n, TRUE)

\* The exchange layer sends a reliable message, or, while an ack is owed
\* and not yet sent, a standalone ack (the only unreliable message it sends).
Send(n) == PreSend(n, TRUE)
StandaloneAck(n) ==
  /\ ack[n] # None /\ ~ack[n].acknowledged
  /\ PreSend(n, FALSE)

-----------------------------------------------------------------------------
(***************************************************************************)
(* Receiving: Session::post_recv checks the duplicate-detection state,     *)
(* then ReliableMessage::post_recv processes the ack and R flags.          *)
(***************************************************************************)

\* Mutant: an ack clears the pending retransmission whatever it acknowledges.
AckMatchesAny(n, m) == TRUE

\* ReliableMessage::post_recv: the ack must name the pending counter.
AckMatches(n, m) == retrans[n].msg_ctr = m.ack

StaleAck(n, m) ==
  m.ack # None /\ retrans[n] # None /\ ~AckMatches(n, m)

ClearsRetrans(n, m) ==
  m.ack # None /\ retrans[n] # None /\ AckMatches(n, m)

\* The ack names another counter: the message is dropped as a Duplicate
\* and nothing of the exchange changes.
RejectStaleAck(n, m) ==
  /\ StaleAck(n, m)
  /\ UNCHANGED <<retrans, ack, receivedAt, processed>>

\* The message is handed to the exchange: a matching ack clears both
\* entries, an R flag records a new AckEntry (overwriting any previous one).
AcceptMessage(n, m) ==
  /\ ~StaleAck(n, m)
  /\ retrans' = [retrans EXCEPT ![n] = IF ClearsRetrans(n, m) THEN None ELSE @]
  /\ ack' = [ack EXCEPT ![n] =
               IF m.rel THEN [msg_ctr |-> m.ctr, acknowledged |-> FALSE]
               ELSE IF ClearsRetrans(n, m) THEN None ELSE @]
  /\ receivedAt' = [receivedAt EXCEPT ![n] = TRUE]
  /\ processed' = [processed EXCEPT ![n] = @ \cup {m.ctr}]

\* RxCtrState::post_recv accepts a counter once; a repeated counter makes
\* Session::post_recv fail with Duplicate and leaves every variable as it
\* is, so that delivery is a stuttering step and is not written out.
IsDuplicate(n, m) == m.ctr \in rxSeen[n]

PostRecv(n, m) ==
  /\ m \in net
  /\ m.src = Peer(n)
  /\ ~IsDuplicate(n, m)
  /\ rxSeen' = [rxSeen EXCEPT ![n] = @ \cup {m.ctr}]
  /\ RejectStaleAck(n, m) \/ AcceptMessage(n, m)
  /\ UNCHANGED <<msgCtr, net, sentRel, gaveUp>>

\* The network loses a message.
Lose(m) ==
  /\ Lossy
  /\ m \in net
  /\ net' = net \ {m}
  /\ UNCHANGED <<msgCtr, retrans, ack, receivedAt, rxSeen,
                 sentRel, processed, gaveUp>>

Next ==
  \/ \E n \in Node : Send(n) \/ StandaloneAck(n)
  \/ \E n \in Node, m \in net : PostRecv(n, m)
  \/ \E m \in net : Lose(m)

\* The retransmission timer of a pending entry always fires eventually.
Fairness == \A n \in Node : WF_vars(Retransmit(n))

Spec == Init /\ [][Next]_vars /\ Fairness

-----------------------------------------------------------------------------
(***************************************************************************)
(* Properties                                                              *)
(***************************************************************************)

\* The MRP contract (post_recv's counter check against stale acks): a
\* reliable message its sender no longer tracks was handed to the peer's
\* exchange, or the sender explicitly gave up on it.
DeliveredOrGaveUp ==
  \A n \in Node : \A c \in sentRel[n] :
    (retrans[n] = None \/ retrans[n].msg_ctr # c)
      => c \in processed[Peer(n)] \/ c \in gaveUp[n]

\* Every pending retransmission ends, by a matching ack or by pre_send
\* giving up after MRP_MAX_TRANSMISSIONS retries, however many messages the
\* network loses.
RetransResolves ==
  \A n \in Node : retrans[n] # None ~> retrans[n] = None

\* Spec 7(c): a duplicate or stale message is dropped "since retransmission
\* by the peer will eventually reconcile". So a reliable message whose
\* counter the receiving session has accepted (and will reject as a
\* duplicate from now on) must have reached the exchange.
NoReliableMessageSwallowed ==
  \A n \in Node : \A c \in rxSeen[n] \cap sentRel[Peer(n)] :
    c \in processed[n]

=============================================================================
