-------------------------- MODULE ZeroconfResponder --------------------------
(***************************************************************************)
(* The mDNS responder of src/rs-matter/src/transport/network/mdns/         *)
(* zeroconf.rs. An async task waits for the Matter instance to announce a  *)
(* change of its mDNS services and reconciles its map of registered        *)
(* services (update_services); each registered service runs in an OS      *)
(* thread of its own (SendableZeroconfMdnsService::run) that registers     *)
(* the service and polls until its MdnsEntry is dropped.                   *)
(*                                                                         *)
(* update_services has no await, so it is one step; the worker threads     *)
(* run concurrently with it and with each other. Service names, types and  *)
(* TXT records are abstracted to the service identity; whether             *)
(* SendableZeroconfMdnsService::new accepts them is a fixed fact of each   *)
(* service (Unencodable), since it depends on nothing else.                *)
(***************************************************************************)
EXTENDS Naturals, Sequences, SequencesExt, FiniteSets

CONSTANTS
  Service,      \* the Matter mDNS services that may be announced
  Unencodable,  \* services whose ServiceType or TXT record `new` rejects
  None,         \* model value: no entry for a service
  MaxChanges,   \* bound: changes of the announced set
  MaxWorkers    \* bound: worker threads spawned in one behaviour

VARIABLES
  wanted,       \* the services Matter::mdns_services currently yields
  notified,     \* Matter's mDNS notification is pending (wait_mdns)
  entries,      \* ZeroconfMdnsResponder.services: service -> worker
  workers,      \* spawned threads: service, state, stop signalled
  changes,      \* number of changes so far
  running       \* ZeroconfMdnsResponder::run has not returned

vars == <<wanted, notified, entries, workers, changes, running>>

ASSUME Unencodable \subseteq Service

WorkerStates == {"spawned", "registered", "exited"}
Worker == [svc : Service, st : WorkerStates, stop : BOOLEAN]
WorkerIds == 1..Len(workers)

TypeOK ==
  /\ wanted \subseteq Service
  /\ notified \in BOOLEAN
  /\ entries \in [Service -> WorkerIds \cup {None}]
  /\ workers \in Seq(Worker) /\ Len(workers) <= MaxWorkers
  /\ changes \in 0..MaxChanges
  /\ running \in BOOLEAN

\* ZeroconfMdnsResponder::new: an empty map, before any notification.
Init ==
  /\ wanted = {}
  /\ notified = FALSE
  /\ entries = [s \in Service |-> None]
  /\ workers = <<>>
  /\ changes = 0
  /\ running = TRUE

-----------------------------------------------------------------------------
(* The responder task *)

\* update_services, first loop: a service without an entry gets a worker
\* thread and an entry holding the sender of its channel.
Missing == {s \in wanted : entries[s] = None}

\* Mutant: the entry holds the channel of the thread spawned after its own.
EntryIndexNext(base, i) == base + i + 1

\* The entry inserted for the i-th spawned thread holds that thread's
\* channel.
EntryIndex(base, i) == base + i

\* The spawned workers, one per missing service, in some order.
Spawned(order) ==
  [i \in 1..Len(order) |-> [svc |-> order[i], st |-> "spawned", stop |-> FALSE]]

\* Mutant: the removal loop stops after the first stale entry.
StaleRemovedFirstOnly(stale) ==
  IF stale = {} THEN {} ELSE {CHOOSE s \in stale : TRUE}

\* update_services, second loop: find an entry whose service is no longer
\* announced and remove it, until there is none.
StaleRemoved(stale) == stale

\* Mutant: a removed entry is leaked instead of dropped; its sender stays
\* alive and nothing is sent.
MdnsEntryLeak(ws, ids) == ws

\* Mutant: the stop is lost for a thread that has not registered yet, as
\* with a channel without a buffer slot.
MdnsEntryDropUnbuffered(ws, ids) ==
  [i \in 1..Len(ws) |-> IF i \in ids /\ ws[i].st = "registered"
                        THEN [ws[i] EXCEPT !.stop = TRUE] ELSE ws[i]]

\* Dropping an MdnsEntry sends () into the channel's one buffer slot; the
\* message waits there until the worker's try_recv takes it. (A
\* disconnection alone would not end the loop at zeroconf.rs:170, but the
\* send always comes first.)
MdnsEntryDrop(ws, ids) ==
  [i \in 1..Len(ws) |-> IF i \in ids THEN [ws[i] EXCEPT !.stop = TRUE]
                        ELSE ws[i]]

\* SendableZeroconfMdnsService::new for the services update_services
\* visits, in that order: the position of the first it fails for, or 0.
NewFails(order) == SelectInSeq(order, LAMBDA s : s \in Unencodable)

\* ZeroconfMdnsResponder::run, one iteration after wait_mdns returns: take
\* the announced services and run update_services. When `new` fails for a
\* service, `?` returns from update_services with the services visited
\* before it registered and the removal loop not run, and from run.
Update ==
  /\ running
  /\ notified
  /\ Len(workers) + Cardinality(Missing) <= MaxWorkers
  /\ \E order \in [1..Cardinality(Missing) -> Missing] :
       /\ \A i, j \in DOMAIN order : i # j => order[i] # order[j]
       /\ LET bad == NewFails(order)
              done == IF bad = 0 THEN order ELSE SubSeq(order, 1, bad - 1)
              spawned == workers \o Spawned(done)
              added == [s \in Service |->
                          IF \E i \in DOMAIN done : done[i] = s
                          THEN EntryIndex(Len(workers),
                                          CHOOSE i \in DOMAIN done : done[i] = s)
                          ELSE entries[s]]
              stale == IF bad = 0
                       THEN StaleRemoved({s \in Service : added[s] # None /\ s \notin wanted})
                       ELSE {}
          IN /\ entries' = [s \in Service |-> IF s \in stale THEN None ELSE added[s]]
             /\ workers' = MdnsEntryDrop(spawned, {added[s] : s \in stale})
             /\ running' = (bad = 0)
  /\ notified' = FALSE
  /\ UNCHANGED <<wanted, changes>>

-----------------------------------------------------------------------------
(* The worker threads: SendableZeroconfMdnsService::run *)

\* Building the TXT record and register() either succeed or return the
\* error, which ends the thread.
WorkerRegister(w) ==
  /\ workers[w].st = "spawned"
  /\ \E ok \in BOOLEAN :
       workers' = [workers EXCEPT ![w].st = IF ok THEN "registered" ELSE "exited"]
  /\ UNCHANGED <<wanted, notified, entries, changes, running>>

\* event_loop.poll fails (before or after a stop was sent): `?` ends the
\* thread, and its entry, if still in the map, stays there.
WorkerPollFails(w) ==
  /\ workers[w].st = "registered"
  /\ workers' = [workers EXCEPT ![w].st = "exited"]
  /\ UNCHANGED <<wanted, notified, entries, changes, running>>

\* try_recv returns the stop message: the loop ends and
\* the service is unregistered with the thread.
WorkerStop(w) ==
  /\ workers[w].st = "registered"
  /\ workers[w].stop
  /\ workers' = [workers EXCEPT ![w].st = "exited"]
  /\ UNCHANGED <<wanted, notified, entries, changes, running>>

-----------------------------------------------------------------------------
(* The Matter instance changes the services it announces and notifies. *)

\* Matter changes its services (commissioning window, fabrics) and
\* signals wait_mdns; the responder reads the whole set when it wakes.
Announce(S) ==
  /\ changes < MaxChanges
  /\ S # wanted
  /\ wanted' = S
  /\ notified' = TRUE
  /\ changes' = changes + 1
  /\ UNCHANGED <<entries, workers, running>>

\* Matter::mdns_services fails: `?` returns from run before
\* update_services, leaving the map as it is.
MdnsServicesFails ==
  /\ running
  /\ notified
  /\ running' = FALSE
  /\ notified' = FALSE
  /\ UNCHANGED <<wanted, entries, workers, changes>>

Next ==
  \/ Update
  \/ MdnsServicesFails
  \/ \E w \in WorkerIds : WorkerRegister(w) \/ WorkerPollFails(w) \/ WorkerStop(w)
  \/ \E S \in SUBSET Service : Announce(S)

\* The responder task runs whenever it is notified, and the OS runs every
\* worker thread.
Fairness ==
  /\ WF_vars(Update)
  /\ \A w \in 1..MaxWorkers :
       WF_vars(w \in WorkerIds /\ (WorkerRegister(w) \/ WorkerStop(w)))

Spec == Init /\ [][Next]_vars /\ Fairness

-----------------------------------------------------------------------------
(* Properties *)

\* A service Matter stops announcing is eventually advertised by no
\* thread, as long as run keeps going: the next update_services removes
\* its entry however many changes came between, MdnsEntry::drop leaves the
\* stop in the channel even for a thread that has not registered yet, and
\* the thread's next try_recv ends its loop (zeroconf.rs:85-97, 170, 184).
Unregistered(s) ==
  \A w \in WorkerIds : workers[w].svc = s => workers[w].st = "exited"
WithdrawnUnregistered ==
  \A s \in Service :
    <>[](s \notin wanted /\ running) => <>[]Unregistered(s)

\* Once the responder has handled the last notification, its map holds
\* an entry for exactly the announced services (while run has not
\* returned: after a failing `new` the map keeps what it had).
EntriesMatchAnnounced ==
  running /\ ~notified => {s \in Service : entries[s] # None} = wanted

\* The map is the only handle on a thread: every thread that has not been
\* told to stop is the one its service's entry holds. So an update that
\* fails part-way (zeroconf.rs:71) leaves no thread out of reach, and a
\* service withdrawn and announced again before its old thread polls
\* (zeroconf.rs:93) has a single thread that is not on its way out.
LiveWorkerHasEntry ==
  \A w \in WorkerIds :
    workers[w].st # "exited" /\ ~workers[w].stop => entries[workers[w].svc] = w

=============================================================================
