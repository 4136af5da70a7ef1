----------------------------- MODULE SessionMgr -----------------------------
(***************************************************************************)
(* The session table of src/rs-matter/src/transport/session.rs: SessionMgr *)
(* with its bounded Vec of Sessions, the id allocators, LRU eviction,      *)
(* fabric removal, and the ReservedSession guard that keeps a half-built   *)
(* session out of every lookup until it is completed.                      *)
(*                                                                         *)
(* The table is a sequence in Vec order: lookups take the first match and *)
(* removal is Vec::swap_remove, so the order is part of the state.         *)
(* Peer addresses, node ids and keys are abstracted to what the properties *)
(* tell apart: the fabric a session belongs to, and whether its keys have  *)
(* been installed (`keyed`).                                               *)
(***************************************************************************)
EXTENDS Naturals, Sequences, SequencesExt, FiniteSets, TLC

CONSTANTS
  MAX_SESSIONS,   \* session.rs: capacity of the session table
  MAX_EXCHANGES,  \* session.rs: capacity of a session's exchange table
  Fabrics,        \* fabric indices (NonZeroU8) that may exist
  None,           \* model value: an absent Option
  MaxUid,         \* bound: sessions created in one behaviour
  MaxTime         \* bound: ticks of the epoch clock

ASSUME MAX_SESSIONS \in Nat \ {0}
ASSUME MAX_EXCHANGES \in Nat \ {0}
ASSUME Fabrics \subseteq Nat \ {0}
ASSUME MaxUid \in Nat /\ MaxTime \in Nat

VARIABLES
  sessions,     \* SessionMgr.sessions, in Vec order
  nextUid,      \* SessionMgr.next_sess_unique_id
  nextSessId,   \* SessionMgr.next_sess_id
  now,          \* the epoch clock
  guards        \* ids held by live ReservedSession guards

mgrVars == <<sessions, nextUid, nextSessId, now, guards>>

Modes == {"PlainText", "Pase", "Case"}

Session ==
  [id : 0..MaxUid, lsid : Nat, mode : Modes, fab : {0} \cup Fabrics,
   reserved : BOOLEAN, expired : BOOLEAN, keyed : BOOLEAN,
   lastUse : 0..MaxTime, exch : 0..MAX_EXCHANGES]

MgrTypeOK ==
  /\ sessions \in Seq(Session) /\ Len(sessions) <= MAX_SESSIONS
  /\ nextUid \in 0..MaxUid
  /\ nextSessId \in Nat \ {0}
  /\ now \in 0..MaxTime
  /\ guards \subseteq 0..MaxUid

MgrInit ==
  /\ sessions = <<>>
  /\ nextUid = 0
  /\ nextSessId = 1
  /\ now = 0
  /\ guards = {}

-----------------------------------------------------------------------------
(* Helpers over the table. *)

Ids == {sessions[i].id : i \in 1..Len(sessions)}
IndexOf(id) == SelectInSeq(sessions, LAMBDA s : s.id = id)

\* Vec::swap_remove: the last session takes the place of the removed one.
SwapRemove(s, i) == Front(ReplaceAt(s, i, Last(s)))

\* SessionMode::fab_idx: a plain-text session has fabric index 0.
FabIdx(s) == IF s.mode = "PlainText" THEN 0 ELSE s.fab

\* Session::update_last_used through SessionMgr::get, get_for_rx,
\* get_for_node and get_exch.
Touch(s, i) == [s EXCEPT ![i].lastUse = now]

-----------------------------------------------------------------------------
(***************************************************************************)
(* Pure parts of SessionMgr                                                *)
(***************************************************************************)

\* SessionMgr::get_next_sess_id: take the next counter value (wrapping past
\* 0 to 1) until it differs from every session's local session id.
\* Returns <<id, new next_sess_id>>.
RECURSIVE NextSessId(_, _)
NextSessId(next, used) ==
  LET succ == IF next = 65535 THEN 1 ELSE next + 1
  IN IF next \notin used THEN <<next, succ>> ELSE NextSessId(succ, used)

\* Mutant: an expired session does not end the scan.
RECURSIVE EvictScanNoBreak(_, _, _, _)
EvictScanNoBreak(s, i, best, ts) ==
  IF i > Len(s) THEN best
  ELSE IF (s[i].expired \/ s[i].lastUse < ts)
          /\ ~s[i].reserved /\ s[i].exch = 0
       THEN EvictScanNoBreak(s, i + 1, i, s[i].lastUse)
       ELSE EvictScanNoBreak(s, i + 1, best, ts)

\* Mutant: the scan never lowers lru_ts to the candidate's last use.
RECURSIVE EvictScanStaleTs(_, _, _, _)
EvictScanStaleTs(s, i, best, ts) ==
  IF i > Len(s) THEN best
  ELSE IF (s[i].expired \/ s[i].lastUse < ts)
          /\ ~s[i].reserved /\ s[i].exch = 0
       THEN IF s[i].expired THEN i
            ELSE EvictScanStaleTs(s, i + 1, i, ts)
       ELSE EvictScanStaleTs(s, i + 1, best, ts)

\* Mutant: the scan forgets to skip reserved sessions.
RECURSIVE EvictScanReserved(_, _, _, _)
EvictScanReserved(s, i, best, ts) ==
  IF i > Len(s) THEN best
  ELSE IF (s[i].expired \/ s[i].lastUse < ts) /\ s[i].exch = 0
       THEN IF s[i].expired THEN i
            ELSE EvictScanReserved(s, i + 1, i, s[i].lastUse)
       ELSE EvictScanReserved(s, i + 1, best, ts)

\* SessionMgr::get_session_for_eviction: among sessions that are not
\* reserved and have no exchange, the first expired one, else the first
\* one used strictly before every other candidate and before now.
\* Returns its index, or 0.
RECURSIVE EvictScan(_, _, _, _)
EvictScan(s, i, best, ts) ==
  IF i > Len(s) THEN best
  ELSE IF (s[i].expired \/ s[i].lastUse < ts)
          /\ ~s[i].reserved /\ s[i].exch = 0
       THEN IF s[i].expired THEN i
            ELSE EvictScan(s, i + 1, i, s[i].lastUse)
       ELSE EvictScan(s, i + 1, best, ts)

SessionForEviction == EvictScan(sessions, 1, 0, now)

\* SessionMgr::remove_for_fabric, first loop: swap_remove every session of
\* the fabric except the one to expire, looking from the front each time.
RECURSIVE DropFabric(_, _, _)
DropFabric(s, f, keep) ==
  LET i == SelectInSeq(s, LAMBDA x : FabIdx(x) = f /\ x.id # keep)
  IN IF i = 0 THEN s ELSE DropFabric(SwapRemove(s, i), f, keep)

-----------------------------------------------------------------------------
(***************************************************************************)
(* Operations. Each is an action over the manager's variables; callers     *)
(* (the transport, the handshakes) compose them.                           *)
(***************************************************************************)

\* Session::init: a zeroed plain-text session, last used now.
NewSession(id, reserved) ==
  [id |-> id, lsid |-> 0, mode |-> "PlainText", fab |-> 0,
   reserved |-> reserved, expired |-> FALSE, keyed |-> FALSE,
   lastUse |-> now, exch |-> 0]

\* SessionMgr::add: the unique id is consumed even when the table is full.
CanAdd == Len(sessions) < MAX_SESSIONS

\* Mutant: add pushes without checking the capacity.
AddNoCheck(reserved) ==
  /\ nextUid < MaxUid
  /\ nextUid' = nextUid + 1
  /\ sessions' = Append(sessions, NewSession(nextUid, reserved))

Add(reserved) ==
  /\ nextUid < MaxUid
  /\ nextUid' = nextUid + 1
  /\ sessions' = IF CanAdd
                 THEN Append(sessions, NewSession(nextUid, reserved))
                 ELSE sessions

\* SessionMgr::remove.
RemoveSession(id) ==
  sessions' = IF IndexOf(id) = 0 THEN sessions
              ELSE SwapRemove(sessions, IndexOf(id))

\* SessionMgr::remove_for_fabric(fabric_idx, expire_sess_id).
RemoveForFabric(f, keep) ==
  LET s == DropFabric(sessions, f, keep)
      k == SelectInSeq(s, LAMBDA x : x.id = keep)
  IN sessions' = IF k = 0 THEN s ELSE [s EXCEPT ![k].expired = TRUE]

\* SessionMgr::get_next_sess_id: the id it returns, and the step that
\* advances next_sess_id past it.
LocalIds == {sessions[i].lsid : i \in 1..Len(sessions)}
AllocatedSessId == NextSessId(nextSessId, LocalIds)[1]
\* Mutant: the advanced counter is not stored back.
AllocSessIdLost == nextSessId' = nextSessId

AllocSessId == nextSessId' = NextSessId(nextSessId, LocalIds)[2]

\* ReservedSession::reserve_now: add a reserved session; the guard holds it.
ReserveNow(ok) ==
  /\ Add(TRUE)
  /\ ok = CanAdd
  /\ guards' = IF CanAdd THEN guards \cup {nextUid} ELSE guards
  /\ UNCHANGED <<nextSessId, now>>

\* ReservedSession::update on table s: install ids, mode and keys through
\* SessionMgr::get, which refreshes last use.
UpdateSession(s, id, mode, f, lsid) ==
  LET i == SelectInSeq(s, LAMBDA x : x.id = id)
  IN [s EXCEPT ![i].mode = mode, ![i].fab = f, ![i].lsid = lsid,
               ![i].keyed = TRUE, ![i].lastUse = now]

\* Drop of a completed ReservedSession on table s: unwrap!(get(id)), which
\* refreshes last use, and clear `reserved`.
CompleteSession(s, id) ==
  LET i == SelectInSeq(s, LAMBDA x : x.id = id)
  IN [s EXCEPT ![i].reserved = FALSE, ![i].lastUse = now]

\* ReservedSession::update followed by complete(), which drops the guard:
\* both run without an await in between. update fails with NoSession when
\* the session is gone (the caller then abandons the guard).
Establish(id, mode, f, lsid) ==
  /\ IndexOf(id) # 0
  /\ sessions' = CompleteSession(UpdateSession(sessions, id, mode, f, lsid), id)
  /\ guards' = guards \ {id}

\* Mutant: the drop forgets to remove the session.
AbandonKeep(id) ==
  /\ UNCHANGED sessions
  /\ guards' = guards \ {id}

\* Mutant: the drop publishes the session whether or not it was completed.
AbandonPublish(id) ==
  /\ sessions' = IF IndexOf(id) = 0 THEN sessions ELSE CompleteSession(sessions, id)
  /\ guards' = guards \ {id}

\* Drop of a ReservedSession that was not completed: remove the session.
Abandon(id) ==
  /\ RemoveSession(id)
  /\ guards' = guards \ {id}

\* Transport evict_some_session (spec 5): close the session
\* get_session_for_eviction picks; fails when there is none.
Evict(ok) ==
  /\ ok = (SessionForEviction # 0)
  /\ sessions' = IF ok THEN SwapRemove(sessions, SessionForEviction)
                 ELSE sessions


\* Session::upgrade_fabric_idx: only a PASE session without a fabric.
UpgradeFabricIdx(i, f, ok) ==
  /\ ok = (sessions[i].mode = "Pase" /\ sessions[i].fab = 0)
  /\ sessions' = IF ok THEN [sessions EXCEPT ![i].fab = f] ELSE sessions

\* SessionMgr::reset: the unique-id counter is kept.
Reset ==
  /\ sessions' = <<>>
  /\ nextSessId' = 1

-----------------------------------------------------------------------------
(***************************************************************************)
(* The transport's calls into the table (spec 4.1), as steps of their own. *)
(***************************************************************************)

\* A packet from an unknown peer: SessionMgr::add of a plain-text session.
RxNewSession ==
  /\ Add(FALSE)
  /\ UNCHANGED <<nextSessId, now, guards>>

\* Session::is_for_rx: of its criteria only `!reserved` is kept; the node
\* id, session id, address and encryption matches are the choice of i.
ForRx(i) == ~sessions[i].reserved

\* SessionMgr::get_for_rx: the session found is refreshed as last used.
GetForRx(i) == Touch(sessions, i)

\* get_for_rx finds a session, then Session::post_recv opens a responder
\* exchange when the packet starts one (fails with NoSpaceExchanges when
\* the exchange table is full).
RxNewExchange(i) ==
  /\ ForRx(i)
  /\ sessions' = [GetForRx(i) EXCEPT
                    ![i].exch = IF @ < MAX_EXCHANGES THEN @ + 1 ELSE @]
  /\ UNCHANGED <<nextUid, nextSessId, now, guards>>

\* Session::remove_exch on an exchange whose MRP state is clear.
CloseExchange(i) ==
  /\ sessions[i].exch > 0
  /\ sessions' = [sessions EXCEPT ![i].exch = @ - 1]
  /\ UNCHANGED <<nextUid, nextSessId, now, guards>>

\* The transport closes a visible session: SessionMgr::remove.
CloseSession(i) ==
  /\ ~sessions[i].reserved
  /\ RemoveSession(sessions[i].id)
  /\ UNCHANGED <<nextUid, nextSessId, now, guards>>

\* A fabric is removed: SessionMgr::remove_for_fabric, keeping the session
\* the removal arrived on (if any) as expired.
FabricRemoved(f, keep) ==
  /\ RemoveForFabric(f, keep)
  /\ UNCHANGED <<nextUid, nextSessId, now, guards>>

\* Making room for a new session.
EvictSome ==
  /\ Evict(TRUE)
  /\ UNCHANGED <<nextUid, nextSessId, now, guards>>

Tick ==
  /\ now < MaxTime
  /\ now' = now + 1
  /\ UNCHANGED <<sessions, nextUid, nextSessId, guards>>

\* A PASE exchange upgrades its session when a NOC is added.
AddNoc(i, f) ==
  /\ \E ok \in BOOLEAN : UpgradeFabricIdx(i, f, ok)
  /\ UNCHANGED <<nextUid, nextSessId, now, guards>>

MgrEnv ==
  \/ RxNewSession
  \/ \E i \in 1..Len(sessions) :
        RxNewExchange(i) \/ CloseExchange(i) \/ CloseSession(i)
  \/ \E f \in Fabrics, keep \in Ids \cup {None} : FabricRemoved(f, keep)
  \/ EvictSome
  \/ Tick

-----------------------------------------------------------------------------
(***************************************************************************)
(* Standalone specification: the transport's calls, plus PASE handshakes   *)
(* that reserve a session, fill it in as a PASE session and publish or     *)
(* abandon it (pase.rs is not part of this source; its use of the guard is *)
(* taken from spec 3 and 4.1).                                             *)
(***************************************************************************)

PaseReserve ==
  /\ \E ok \in BOOLEAN : ReserveNow(ok)

\* The PASE exchange succeeds: a new local session id, then update and
\* complete.
PaseEstablish(id) ==
  /\ AllocSessId
  /\ Establish(id, "Pase", 0, AllocatedSessId)
  /\ UNCHANGED <<nextUid, now>>

\* The PASE exchange fails, or its session vanished under it.
PaseAbandon(id) ==
  /\ Abandon(id)
  /\ UNCHANGED <<nextUid, nextSessId, now>>

MgrReset ==
  /\ Reset
  /\ UNCHANGED <<nextUid, now, guards>>

MgrNext ==
  \/ MgrEnv
  \/ \E i \in 1..Len(sessions), f \in Fabrics : AddNoc(i, f)
  \/ MgrReset
  \/ PaseReserve
  \/ \E id \in guards : PaseEstablish(id) \/ PaseAbandon(id)

MgrSpec == MgrInit /\ [][MgrNext]_mgrVars

-----------------------------------------------------------------------------
(***************************************************************************)
(* Properties                                                              *)
(***************************************************************************)

\* get_session_for_eviction (spec 8): the session evicted is idle (not
\* reserved, no exchange); it is an expired one whenever an idle expired
\* session exists, and otherwise one used no later than any other idle
\* session and before now.
Idle(s) == ~s.reserved /\ s.exch = 0
Evicted == {sessions[i] : i \in 1..Len(sessions)} \
             {sessions'[i] : i \in 1..Len(sessions')}
EvictionChoice ==
  [][EvictSome =>
       \A x \in Evicted :
         /\ Idle(x)
         /\ (\E j \in 1..Len(sessions) :
               Idle(sessions[j]) /\ sessions[j].expired) => x.expired
         /\ ~x.expired =>
              /\ x.lastUse < now
              /\ \A j \in 1..Len(sessions) :
                   Idle(sessions[j]) => x.lastUse <= sessions[j].lastUse
  ]_mgrVars

\* ReservedSession (spec 3): a session stays reserved, hidden from every
\* lookup and from eviction, only while a live guard holds it; once the
\* guard is gone (completed, or dropped and removed) no reserved session
\* of it is left, through resets, fabric removal and eviction.
NoLeakedReservation ==
  \A i \in 1..Len(sessions) : sessions[i].reserved => sessions[i].id \in guards

-----------------------------------------------------------------------------
(***************************************************************************)
(* Refinement: the table implements SessionTable. A session is "reserved"  *)
(* while its flag is set, "secure" once visible with keys, else "plain".   *)
(***************************************************************************)

LiveMap ==
  [id \in Ids |->
     LET s == sessions[IndexOf(id)]
     IN IF s.reserved THEN "reserved" ELSE IF s.keyed THEN "secure" ELSE "plain"]

Table == INSTANCE SessionTable WITH live <- LiveMap, issued <- nextUid, held <- guards

\* ReservedSession (spec 3) and SessionManager (spec 4.1): every step of the
\* table is a step of SessionTable. A reservation is published only with
\* its keys and only as its guard completes, an unfinished one is removed
\* with its guard, ids are never reused, and only visible sessions are
\* evicted, closed or dropped with their fabric.
ImplementsSessionTable == Table!TableSpec

=============================================================================
