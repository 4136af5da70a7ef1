-------------------------- MODULE SessionExchanges --------------------------
(***************************************************************************)
(* The exchange tables of the sessions of src/rs-matter/src/transport/     *)
(* session.rs: each Session's Vec of optional ExchangeStates, how          *)
(* Session::post_recv routes a message to an exchange or opens a responder *)
(* exchange for it, how a local exchange is opened on a session found by   *)
(* get_for_node with an id from get_next_exch_id, Session::pre_send, and   *)
(* Session::remove_exch, which keeps an exchange with MRP work pending as  *)
(* "dropped" instead of freeing its slot.                                  *)
(*                                                                         *)
(* Of each exchange's ReliableMessage (mrp.rs) only what remove_exch reads *)
(* is kept: whether a retransmission and whether an ack are pending.       *)
(* ReliableMessage models the counters and the network. Duplicate          *)
(* detection runs before post_recv looks at exchanges and is not repeated  *)
(* here; an error path that changes nothing is a stuttering step.          *)
(***************************************************************************)
EXTENDS Naturals, Sequences, SequencesExt, FiniteSets

CONSTANTS
  Sessions,       \* the sessions in the table
  MAX_EXCHANGES,  \* session.rs: capacity of a session's exchange Vec
  PeerExchIds,    \* exchange ids the peer picks for the exchanges it opens
  None,           \* model value: an empty slot (Option::None)
  MaxExchId       \* bound: local exchange ids handed out are 1..MaxExchId

ASSUME MAX_EXCHANGES \in Nat \ {0}
ASSUME PeerExchIds \subseteq 1..65535 /\ MaxExchId \in 1..65535

VARIABLES
  exchanges,   \* Session.exchanges of each session, in Vec order
  expired,     \* Session.expired of each session
  nextExchId   \* SessionMgr.next_exch_id

vars == <<exchanges, expired, nextExchId>>

ExchIds == PeerExchIds \cup 1..MaxExchId
Roles == {"Initiator", "Responder"}
\* ExchangeState: its id and Role (with the dropped sub-state), and the
\* two facts of its ReliableMessage that remove_exch reads:
\* is_retrans_pending, and is_ack_pending (an AckEntry not yet
\* piggy-backed; one already sent counts as none).
Exchange ==
  [id : ExchIds, role : Roles, dropped : BOOLEAN,
   retrans : BOOLEAN, ack : BOOLEAN]

TypeOK ==
  /\ exchanges \in [Sessions -> Seq(Exchange \cup {None})]
  /\ \A s \in Sessions : Len(exchanges[s]) <= MAX_EXCHANGES
  /\ expired \in [Sessions -> BOOLEAN]
  /\ nextExchId \in 1..65535

\* SessionMgr::new and Session::init: no exchanges, next_exch_id 1.
Init ==
  /\ exchanges = [s \in Sessions |-> <<>>]
  /\ expired = [s \in Sessions |-> FALSE]
  /\ nextExchId = 1

-----------------------------------------------------------------------------
(* Helpers *)

Slots(s) == 1..Len(exchanges[s])
Live(s) == {k \in Slots(s) : exchanges[s][k] # None}

\* The ExchangeState add_exch builds: a fresh ReliableMessage.
NewExchange(id, role) ==
  [id |-> id, role |-> role, dropped |-> FALSE, retrans |-> FALSE, ack |-> FALSE]

\* ExchangeState::is_for_rx (exchange.rs, from spec 2): the message names
\* the exchange's id, and the peer is the initiator exactly when this side
\* is the responder. A dropped exchange still matches.
IsForRx(x, eid, peerInit) ==
  x # None /\ x.id = eid /\ (x.role = "Responder") = peerInit

\* Mutant: the lookup skips dropped exchanges.
ExchForRxLive(s, eid, peerInit) ==
  SelectInSeq(exchanges[s], LAMBDA x : IsForRx(x, eid, peerInit) /\ ~x.dropped)

\* Session::get_exch_for_rx: the first exchange the message is for, or 0.
ExchForRx(s, eid, peerInit) ==
  SelectInSeq(exchanges[s], LAMBDA x : IsForRx(x, eid, peerInit))

\* Mutant: the Vec is pushed onto up to one past its capacity.
AddSlotOverfull(xs) ==
  IF Len(xs) <= MAX_EXCHANGES THEN Len(xs) + 1
  ELSE SelectInSeq(xs, LAMBDA x : x = None)

\* Session::add_exch, the slot: push while the Vec has room, else the first
\* empty slot; 0 when there is none (NoSpaceExchanges).
AddSlot(xs) ==
  IF Len(xs) < MAX_EXCHANGES THEN Len(xs) + 1
  ELSE SelectInSeq(xs, LAMBDA x : x = None)

PutSlot(xs, k, x) == IF k = Len(xs) + 1 THEN Append(xs, x) ELSE [xs EXCEPT ![k] = x]

\* ReliableMessage::post_recv: an ack of another counter than the pending
\* retransmission's makes the message a duplicate (Err).
MrpAccepts(x, ackField) == ~(ackField = "other" /\ x.retrans)

\* ReliableMessage::post_recv when it accepts: the ack of the pending
\* retransmission clears both entries; a reliable message leaves an ack
\* to send (replacing any earlier one).
MrpRecv(x, ackField, reliable) ==
  LET y == IF ackField = "ours" /\ x.retrans
           THEN [x EXCEPT !.retrans = FALSE, !.ack = FALSE] ELSE x
  IN IF reliable THEN [y EXCEPT !.ack = TRUE] ELSE y

\* ReliableMessage::pre_send: a pending ack is piggy-backed; a reliable
\* message starts a retransmission entry, or, when it is a retransmission
\* past the limit, both entries are dropped.
MrpSend(x, reliable, giveUp) ==
  LET y == [x EXCEPT !.ack = FALSE]
  IN IF ~reliable THEN y
     ELSE IF ~y.retrans THEN [y EXCEPT !.retrans = TRUE]
     ELSE IF giveUp THEN [y EXCEPT !.retrans = FALSE]
     ELSE y

\* SessionMgr::get_next_exch_id: take the counter (wrapping past 0 to 1)
\* until it is not the id of a responder exchange of any session.
\* Returns <<id, new next_exch_id>>.
RECURSIVE NextExchId(_, _)
NextExchId(next, used) ==
  LET succ == IF next = 65535 THEN 1 ELSE next + 1
  IN IF next \notin used THEN <<next, succ>> ELSE NextExchId(succ, used)

ResponderIds ==
  UNION {{exchanges[s][k].id : k \in {j \in Live(s) : exchanges[s][j].role = "Responder"}}
           : s \in Sessions}

-----------------------------------------------------------------------------
(* Operations *)

\* Session::post_recv on the session get_for_rx found, for a message with
\* exchange id eid and the peer's initiator flag: it goes to the exchange
\* it is for; otherwise, if the peer initiates and the message may open an
\* exchange, a responder exchange is added for it and takes the message.
\* NoExchange, NoSpaceExchanges and a duplicate ack change nothing.
RxMsg(s, eid, peerInit, newExch, reliable, ackField) ==
  LET xs == exchanges[s]
      k == ExchForRx(s, eid, peerInit)
  IN /\ \/ /\ k # 0
           /\ MrpAccepts(xs[k], ackField)
           /\ exchanges' = [exchanges EXCEPT ![s][k] = MrpRecv(@, ackField, reliable)]
        \/ /\ k = 0 /\ peerInit /\ newExch
           /\ AddSlot(xs) # 0
           /\ exchanges' =
                [exchanges EXCEPT ![s] =
                   PutSlot(xs, AddSlot(xs),
                           MrpRecv(NewExchange(eid, "Responder"), ackField, reliable))]
     /\ UNCHANGED <<expired, nextExchId>>

\* A local exchange is opened on a session get_for_node finds, which skips
\* expired ones: get_next_exch_id, then add_exch with the initiator role.
\* The id is consumed even when the session has no free slot.
Open(s) ==
  LET r == NextExchId(nextExchId, ResponderIds)
      xs == exchanges[s]
  IN /\ ~expired[s]
     /\ r[1] <= MaxExchId
     /\ nextExchId' = r[2]
     /\ exchanges' = IF AddSlot(xs) = 0 THEN exchanges
                     ELSE [exchanges EXCEPT ![s] =
                             PutSlot(xs, AddSlot(xs), NewExchange(r[1], "Initiator"))]
     /\ UNCHANGED expired

\* Session::pre_send for exchange k: ReliableMessage::pre_send; a give-up
\* happens only on a retransmission past the limit.
Send(s, k, reliable, giveUp) ==
  /\ k \in Live(s)
  /\ giveUp => reliable /\ exchanges[s][k].retrans
  /\ exchanges' = [exchanges EXCEPT ![s][k] = MrpSend(@, reliable, giveUp)]
  /\ UNCHANGED <<expired, nextExchId>>

\* Mutant: an exchange with only an ack pending is freed.
RemoveExchNoAckCheck(s, k) ==
  /\ k \in Live(s)
  /\ exchanges' =
       IF exchanges[s][k].retrans
       THEN [exchanges EXCEPT ![s][k].dropped = TRUE]
       ELSE [exchanges EXCEPT ![s][k] = None]
  /\ UNCHANGED <<expired, nextExchId>>

\* Session::remove_exch: with a retransmission or an unsent ack pending the
\* exchange is only marked dropped; otherwise its slot is freed.
RemoveExch(s, k) ==
  /\ k \in Live(s)
  /\ exchanges' =
       IF exchanges[s][k].retrans \/ exchanges[s][k].ack
       THEN [exchanges EXCEPT ![s][k].dropped = TRUE]
       ELSE [exchanges EXCEPT ![s][k] = None]
  /\ UNCHANGED <<expired, nextExchId>>

\* SessionMgr::remove_for_fabric with the session the removal came in on:
\* that session is marked expired and keeps its exchanges.
Expire(s) ==
  /\ ~expired[s]
  /\ expired' = [expired EXCEPT ![s] = TRUE]
  /\ UNCHANGED <<exchanges, nextExchId>>

Next ==
  \E s \in Sessions :
    \/ \E eid \in ExchIds, peerInit, newExch, reliable \in BOOLEAN,
          ackField \in {"none", "ours", "other"} :
         RxMsg(s, eid, peerInit, newExch, reliable, ackField)
    \/ Open(s)
    \/ \E k \in Live(s), reliable, giveUp \in BOOLEAN : Send(s, k, reliable, giveUp)
    \/ \E k \in Live(s) : RemoveExch(s, k)
    \/ Expire(s)

Spec == Init /\ [][Next]_vars

-----------------------------------------------------------------------------
(* Properties *)

Key(x) == <<x.id, x.role>>

\* Spec 3 (Exchange): an exchange is the correlation of an id and a role,
\* and Session::get_exch_for_rx hands a message to the first exchange it
\* is for, so no two live exchanges of a session share an id and a role:
\* a peer reopening an exchange whose responder was dropped, local opens
\* whose ids skip only responder ids, and slot reuse must keep them apart.
ExchangeRouting ==
  \A s \in Sessions : \A i, j \in Live(s) :
    i # j => Key(exchanges[s][i]) # Key(exchanges[s][j])

\* Spec 5 (Cancellation): Session::remove_exch marks an exchange dropped
\* rather than delete state the peer still expects to see acknowledged. An
\* exchange with a retransmission pending or an ack not yet sent keeps its
\* slot, id and role in every step: removal, add_exch's slot reuse and the
\* receive path never free or overwrite it.
PendingWorkKept ==
  [][\A s \in Sessions : \A k \in Live(s) :
       LET x == exchanges[s][k] IN
       (x.retrans \/ x.ack) =>
          /\ k \in Live(s)'
          /\ Key(exchanges'[s][k]) = Key(x)]_vars

=============================================================================
