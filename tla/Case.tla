-------------------------------- MODULE Case --------------------------------
(***************************************************************************)
(* CASE responders (src/rs-matter/src/sc/case.rs) running as cooperative   *)
(* tasks over the session table of SessionMgr, while the fabric table      *)
(* changes and the transport adds, uses, evicts and closes sessions.       *)
(*                                                                         *)
(* A task runs Case::handle once: it reserves a session (evicting one when *)
(* the table is full), handles Sigma1, waits for Sigma3, handles it and    *)
(* sends the final status. Every step between two awaits is one action;    *)
(* the awaits (eviction, sending a status, recv_fetch) are where other     *)
(* tasks and the environment interleave. Cryptography and TLV parsing are  *)
(* abstracted to their outcome: succeeds, fails with an error, or yields a *)
(* validation failure.                                                     *)
(***************************************************************************)
EXTENDS SessionMgr

CONSTANTS
  Tasks          \* the exchanges running a CASE responder

VARIABLES
  phase,         \* where each task's Case::handle is suspended
  sid,           \* id of the session its ReservedSession guard holds
  cs,            \* its CaseSession: local_fabric_idx and local_sessid
  fabrics,       \* fabric indices present in the fabric manager
  evicted,       \* history: the task's evict_some_session succeeded
  status         \* the status report the task sends or has sent

caseVars == <<phase, sid, cs, fabrics, evicted, status>>
vars == <<mgrVars, caseVars>>

Phases == {"Idle", "Evicting", "Retry", "Sigma1", "Nstr1", "AwaitSigma3",
           "Status3", "Done", "Rejected"}
StatusCodes == {"NoSharedTrustRoots", "InvalidParameter",
                "SessionEstablishmentSuccess"}

CaseTypeOK ==
  /\ MgrTypeOK
  /\ phase \in [Tasks -> Phases]
  /\ sid \in [Tasks -> 0..MaxUid \cup {None}]
  /\ cs \in [Tasks -> [fab : {0} \cup Fabrics, lsid : Nat]]
  /\ fabrics \subseteq Fabrics
  /\ evicted \in [Tasks -> BOOLEAN]
  /\ status \in [Tasks -> StatusCodes \cup {None}]

\* CaseSession::new: local_fabric_idx and local_sessid are 0.
Init ==
  /\ MgrInit
  /\ phase = [t \in Tasks |-> "Idle"]
  /\ sid = [t \in Tasks |-> None]
  /\ cs = [t \in Tasks |-> [fab |-> 0, lsid |-> 0]]
  /\ fabrics \in SUBSET Fabrics
  /\ evicted = [t \in Tasks |-> FALSE]
  /\ status = [t \in Tasks |-> None]

-----------------------------------------------------------------------------
(***************************************************************************)
(* Reserving: ReservedSession::reserve                                     *)
(***************************************************************************)

\* reserve_now, and on failure evict_some_session before retrying.
Reserve(t) ==
  /\ phase[t] = "Idle"
  /\ \E ok \in BOOLEAN :
       /\ ReserveNow(ok)
       /\ phase' = [phase EXCEPT ![t] = IF ok THEN "Sigma1" ELSE "Evicting"]
       /\ sid' = [sid EXCEPT ![t] = IF ok THEN nextUid ELSE None]
  /\ UNCHANGED <<cs, fabrics, evicted, status>>

\* evict_some_session (transport, spec 5): evict the session
\* get_session_for_eviction picks, or fail with NoSpaceSessions; the
\* task then awaits the eviction.
EvictForReserve(t) ==
  /\ phase[t] = "Evicting"
  /\ \E ok \in BOOLEAN :
       /\ Evict(ok)
       /\ phase' = [phase EXCEPT ![t] = IF ok THEN "Retry" ELSE "Rejected"]
       /\ evicted' = [evicted EXCEPT ![t] = ok]
  /\ UNCHANGED <<nextUid, nextSessId, now, guards, sid, cs, fabrics, status>>

\* The second reserve_now, after the eviction's await; its error ends
\* handle.
RetryReserve(t) ==
  /\ phase[t] = "Retry"
  /\ \E ok \in BOOLEAN :
       /\ ReserveNow(ok)
       /\ phase' = [phase EXCEPT ![t] = IF ok THEN "Sigma1" ELSE "Rejected"]
       /\ sid' = [sid EXCEPT ![t] = IF ok THEN nextUid ELSE None]
  /\ UNCHANGED <<cs, fabrics, evicted, status>>

\* handle returns while the guard is held: its Drop removes the
\* uncompleted session.
DropGuard(t) ==
  /\ Abandon(sid[t])
  /\ sid' = [sid EXCEPT ![t] = None]
  /\ phase' = [phase EXCEPT ![t] = "Done"]

-----------------------------------------------------------------------------
(***************************************************************************)
(* Case::handle_casesigma1                                                 *)
(***************************************************************************)

\* check_opcode or Sigma1Req::from_tlv fails: `?` returns the error.
Sigma1Error(t) ==
  /\ phase[t] = "Sigma1"
  /\ DropGuard(t)
  /\ UNCHANGED <<nextUid, nextSessId, now, cs, fabrics, evicted, status>>

\* get_by_dest_id finds no fabric: send NoSharedTrustRoots and return Ok.
Sigma1NoFabric(t) ==
  /\ phase[t] = "Sigma1"
  /\ phase' = [phase EXCEPT ![t] = "Nstr1"]
  /\ status' = [status EXCEPT ![t] = "NoSharedTrustRoots"]
  /\ UNCHANGED <<mgrVars, sid, cs, fabrics, evicted>>

\* The destination id matches fabric f: allocate the local session id,
\* record it and the fabric in the CaseSession, then check the public key
\* length, derive the secret and sign Sigma2 (`ok` is whether all of these
\* succeed); send_with then awaits the transmission of Sigma2.
Sigma1Match(t, f) ==
  /\ phase[t] = "Sigma1"
  /\ f \in fabrics
  /\ AllocSessId
  /\ cs' = [cs EXCEPT ![t] = [fab |-> f, lsid |-> AllocatedSessId]]
  /\ \E ok \in BOOLEAN :
       IF ok THEN /\ phase' = [phase EXCEPT ![t] = "AwaitSigma3"]
                  /\ UNCHANGED <<sessions, guards, sid>>
             ELSE DropGuard(t)
  /\ UNCHANGED <<nextUid, now, fabrics, evicted, status>>

\* complete_with_status(NoSharedTrustRoots) returns; handle goes on to
\* exchange.recv_fetch, still holding the reservation.
Nstr1Sent(t) ==
  /\ phase[t] = "Nstr1"
  /\ phase' = [phase EXCEPT ![t] = "AwaitSigma3"]
  /\ UNCHANGED <<mgrVars, sid, cs, fabrics, evicted, status>>

-----------------------------------------------------------------------------
(***************************************************************************)
(* Case::handle_casesigma3, on the message recv_fetch returns              *)
(***************************************************************************)

\* Mutant: the fabric index kept since Sigma1 is trusted without a lookup.
FabricLiveStale(t) == cs[t].fab # 0

\* The fabric of the CaseSession is looked up again.
FabricLive(t) == cs[t].fab # 0 /\ cs[t].fab \in fabrics

SendStatus(t, code) ==
  /\ phase' = [phase EXCEPT ![t] = "Status3"]
  /\ status' = [status EXCEPT ![t] = code]

\* The fabric is gone (or was never found): NoSharedTrustRoots.
Sigma3NoFabric(t) ==
  /\ phase[t] = "AwaitSigma3"
  /\ ~FabricLive(t)
  /\ SendStatus(t, "NoSharedTrustRoots")
  /\ UNCHANGED <<mgrVars, sid, cs, fabrics, evicted>>

\* recv_fetch fails (the exchange is closed or times out), or
\* check_opcode, the size check, decryption, Sigma3Decrypt parsing, the
\* cat ids, the hash update or get_session_keys fail: `?` returns the
\* error without a status, and the guard removes the session.
Sigma3Error(t) ==
  /\ phase[t] = "AwaitSigma3"
  /\ DropGuard(t)
  /\ UNCHANGED <<nextUid, nextSessId, now, cs, fabrics, evicted, status>>

\* validate_certs or validate_sigma3_sign fails: InvalidParameter.
Sigma3Invalid(t) ==
  /\ phase[t] = "AwaitSigma3"
  /\ FabricLive(t)
  /\ SendStatus(t, "InvalidParameter")
  /\ UNCHANGED <<mgrVars, sid, cs, fabrics, evicted>>

\* Validation succeeds: session.update fills in the Case session and
\* complete() publishes it, before the success status is sent. update
\* fails with NoSession when the reserved session has gone (SessionMgr
\* reset), and `?` returns with the guard dropped.
Sigma3Valid(t) ==
  /\ phase[t] = "AwaitSigma3"
  /\ FabricLive(t)
  /\ IF IndexOf(sid[t]) # 0
     THEN /\ Establish(sid[t], "Case", cs[t].fab, cs[t].lsid)
          /\ sid' = [sid EXCEPT ![t] = None]
          /\ SendStatus(t, "SessionEstablishmentSuccess")
     ELSE /\ DropGuard(t)
          /\ UNCHANGED status
  /\ UNCHANGED <<nextUid, nextSessId, now, cs, fabrics, evicted>>

\* complete_with_status returns, handle_casesigma3 returns and drops the
\* guard (removing an uncompleted session), handle acknowledges.
Status3Sent(t) ==
  /\ phase[t] = "Status3"
  /\ IF sid[t] # None
     THEN DropGuard(t)
     ELSE /\ phase' = [phase EXCEPT ![t] = "Done"]
          /\ UNCHANGED <<sessions, guards, sid>>
  /\ UNCHANGED <<nextUid, nextSessId, now, cs, fabrics, evicted, status>>

\* The send of the Sigma1 NoSharedTrustRoots fails: the error returns from
\* handle and drops the guard. (A failing send of the Sigma3 status ends
\* handle like Status3Sent.)
AwaitFails(t) ==
  /\ phase[t] = "Nstr1"
  /\ DropGuard(t)
  /\ UNCHANGED <<nextUid, nextSessId, now, cs, fabrics, evicted, status>>

-----------------------------------------------------------------------------
(***************************************************************************)
(* The fabric manager and the transport                                    *)
(***************************************************************************)

\* A fabric is added (AddNOC commissioning).
FabricAdded(f) ==
  /\ f \notin fabrics
  /\ fabrics' = fabrics \cup {f}
  /\ UNCHANGED <<mgrVars, phase, sid, cs, evicted, status>>

\* RemoveFabric over session `keep`: the fabric goes, and
\* SessionMgr::remove_for_fabric drops its sessions, keeping `keep` as an
\* expired session.
FabricRemovedCase(f, keep) ==
  /\ f \in fabrics
  /\ fabrics' = fabrics \ {f}
  /\ RemoveForFabric(f, keep)
  /\ UNCHANGED <<nextUid, nextSessId, now, guards,
                 phase, sid, cs, evicted, status>>

\* The transport's calls into the session table. Its exchanges only make
\* a session ineligible for eviction, which SessionMgr checks; here the
\* transport's sessions stay idle.
Transport ==
  /\ \/ RxNewSession
     \/ \E i \in 1..Len(sessions) : CloseSession(i)
     \/ EvictSome
     \/ Tick
     \/ MgrReset
  /\ UNCHANGED caseVars

TaskStep(t) ==
  \/ Reserve(t) \/ EvictForReserve(t) \/ RetryReserve(t)
  \/ Sigma1Error(t) \/ Sigma1NoFabric(t) \/ \E f \in Fabrics : Sigma1Match(t, f)
  \/ Nstr1Sent(t)
  \/ Sigma3NoFabric(t) \/ Sigma3Error(t) \/ Sigma3Invalid(t) \/ Sigma3Valid(t)
  \/ Status3Sent(t) \/ AwaitFails(t)

Next ==
  \/ \E t \in Tasks : TaskStep(t)
  \/ \E f \in Fabrics : FabricAdded(f)
  \/ \E f \in Fabrics, keep \in Ids \cup {None} : FabricRemovedCase(f, keep)
  \/ Transport

Spec == Init /\ [][Next]_vars

-----------------------------------------------------------------------------
(***************************************************************************)
(* Properties                                                              *)
(***************************************************************************)

\* ReservedSession (spec 3): every reserved session in the table is held by
\* the guard of a task still inside Case::handle; no exit path of handle,
\* under eviction, resets and fabric removal, leaves one behind.
CaseNoLeakedReservation ==
  \A i \in 1..Len(sessions) :
    sessions[i].reserved => \E t \in Tasks : sid[t] = sessions[i].id

\* handle_casesigma3 looks the fabric up again: a published, unexpired CASE
\* session always belongs to a fabric that is present, even when the
\* fabric was removed (and its sessions dropped by remove_for_fabric)
\* while the handshake waited for Sigma3.
PublishedCaseFabricLive ==
  \A i \in 1..Len(sessions) :
    sessions[i].mode = "Case" /\ ~sessions[i].reserved /\ ~sessions[i].expired
      => sessions[i].fab \in fabrics

\* Spec 8: get_next_sess_id never returns an id a live session uses. The
\* id is allocated at Sigma1 but recorded in the session only at Sigma3,
\* so while two handshakes overlap only the counter keeps them apart: no
\* two published secure sessions share a local session id, which
\* get_for_rx matches incoming packets on.
PublishedLocalIdsUnique ==
  \A i, j \in 1..Len(sessions) :
    /\ i # j
    /\ ~sessions[i].reserved /\ ~sessions[j].reserved
    /\ sessions[i].mode # "PlainText" /\ sessions[j].mode # "PlainText"
    => sessions[i].lsid # sessions[j].lsid

\* Spec 4.3 step 1: on no matching fabric the responder sends
\* NoSharedTrustRoots "and terminate[s]". So once a task has sent a status
\* report, it no longer holds a reserved slot of the session table.
NoReservationAfterStatus ==
  \A t \in Tasks :
    status[t] # None /\ phase[t] \notin {"Nstr1", "Status3"} => sid[t] = None

\* Spec 5 (backpressure): a reservation attempt first evicts and then
\* retries, and "if no evictable session exists, reservation fails". So a
\* task whose eviction succeeded is not rejected.
RejectedOnlyWhenNothingEvictable ==
  \A t \in Tasks : phase[t] = "Rejected" => ~evicted[t]

=============================================================================
