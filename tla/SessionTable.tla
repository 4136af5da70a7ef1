----------------------------- MODULE SessionTable -----------------------------
(***************************************************************************)
(* What the session table promises its users (spec 3, ReservedSession and *)
(* SessionManager), stated without the Vec, the lookups or the allocators. *)
(*                                                                         *)
(* Each live session id is in one of three states:                         *)
(*   "reserved" - held by a guard, invisible to every lookup;              *)
(*   "plain"    - visible, without keys (a plain-text session);            *)
(*   "secure"   - visible, with its keys installed.                        *)
(* A reservation becomes visible only as a secure session, in the same     *)
(* step that its guard is released; an unfinished reservation is removed  *)
(* when its guard goes. Ids are issued once and never reused, and only     *)
(* visible sessions are closed one by one (a reset clears everything).     *)
(***************************************************************************)
EXTENDS Naturals, FiniteSets, Functions, TLC

CONSTANTS
  MAX_SESSIONS,   \* capacity of the table
  MaxUid          \* bound: ids issued in one behaviour

VARIABLES
  live,     \* session id -> "reserved" | "plain" | "secure"
  issued,   \* ids 0..issued-1 have been handed out
  held      \* ids of live guards

tableVars == <<live, issued, held>>

States == {"reserved", "plain", "secure"}

TableTypeOK ==
  /\ DOMAIN live \subseteq 0..MaxUid /\ \A id \in DOMAIN live : live[id] \in States
  /\ issued \in 0..MaxUid
  /\ held \subseteq 0..MaxUid

TableInit ==
  /\ live = [id \in {} |-> "plain"]
  /\ issued = 0
  /\ held = {}

Visible == {id \in DOMAIN live : live[id] # "reserved"}
HasRoom == Cardinality(DOMAIN live) < MAX_SESSIONS

\* A fresh id is issued; if there is room it becomes a plain session, or a
\* reservation held by a new guard. A full table only consumes the id.
Open(kind) ==
  /\ issued < MaxUid
  /\ issued' = issued + 1
  /\ live' = IF HasRoom THEN (issued :> kind) @@ live ELSE live
  /\ held' = IF HasRoom /\ kind = "reserved" THEN held \cup {issued} ELSE held

\* The guard completes: its reservation is published, keyed, at once.
Publish(id) ==
  /\ id \in held /\ id \in DOMAIN live /\ live[id] = "reserved"
  /\ live' = [live EXCEPT ![id] = "secure"]
  /\ held' = held \ {id}
  /\ UNCHANGED issued

\* The guard goes without completing: whatever it still holds is removed.
Discard(id) ==
  /\ id \in held
  /\ live' = Restrict(live, DOMAIN live \ {id})
  /\ held' = held \ {id}
  /\ UNCHANGED issued

\* Visible sessions are closed: by the transport, by eviction, or when
\* their fabric is removed.
Close(S) ==
  /\ S # {} /\ S \subseteq Visible
  /\ live' = Restrict(live, DOMAIN live \ S)
  /\ UNCHANGED <<issued, held>>

\* The table is reset under whatever guards are alive.
Clear ==
  /\ live' = [id \in {} |-> "plain"]
  /\ UNCHANGED <<issued, held>>

TableNext ==
  \/ Open("plain") \/ Open("reserved")
  \/ \E id \in held : Publish(id) \/ Discard(id)
  \/ \E S \in SUBSET Visible : Close(S)
  \/ Clear

TableSpec == TableInit /\ [][TableNext]_tableVars

=============================================================================
