----------------------------- MODULE MRPBackoff -----------------------------
(***************************************************************************)
(* The retransmission back-off of RetransEntry (transport/mrp.rs): the     *)
(* integer computation of delay_ms_counter and max_delay_ms, followed over *)
(* the life of one entry. The entry is created with the session's active   *)
(* interval (or the default), each RetransEntry::pre_send counts a         *)
(* retransmission, and each wait uses delay_ms with a fresh jitter byte.   *)
(* All arithmetic is u64 with truncating division; with a u16 base and at  *)
(* most 10 retries no intermediate value comes near 2^64, so Nat is exact, *)
(* but TLC evaluates integers in 32 bits: the intervals checked keep the   *)
(* largest intermediate, d x 255 x 25 at ten retries, below 2^31.          *)
(***************************************************************************)
EXTENDS Naturals

CONSTANTS
  None,                   \* model value: no session active interval
  Intervals,              \* session_active_interval_ms values (u16)
  MRP_MAX_TRANSMISSIONS   \* mrp.rs: 10

ASSUME Intervals \subseteq 0..65535

MRP_BASE_RETRY_INTERVAL_MS == 300
MRP_BACKOFF_THRESHOLD == 1
MRP_BACKOFF_BASE == <<16, 10>>
MRP_BACKOFF_JITTER == <<25, 100>>
MRP_BACKOFF_MARGIN == <<11, 10>>
MRP_JITTER_RAND_MAX == 255

JitterRand == 0..255

VARIABLES
  entry,   \* the RetransEntry: base_delay_interval_ms and counter
  jitter,  \* the jitter byte drawn for the current wait
  delay    \* the current wait, delay_ms(jitter)

vars == <<entry, jitter, delay>>

-----------------------------------------------------------------------------
(* delay_ms_counter *)

\* Mutant: the back-off ratio with its terms swapped (x 10/16).
RECURSIVE BackoffSwapped(_, _)
BackoffSwapped(d, times) ==
  IF times = 0 THEN d
  ELSE BackoffSwapped((d * MRP_BACKOFF_BASE[2]) \div MRP_BACKOFF_BASE[1], times - 1)

\* The back-off loop: `times` multiplications by 1.6, each truncated.
RECURSIVE Backoff(_, _)
Backoff(d, times) ==
  IF times = 0 THEN d
  ELSE Backoff((d * MRP_BACKOFF_BASE[1]) \div MRP_BACKOFF_BASE[2], times - 1)

\* RetransEntry::delay_ms_counter: the margin, then one back-off step per
\* retry beyond the threshold, then up to 25% of jitter.
DelayMsCounter(base, counter, jitterRand) ==
  LET d0 == (base * MRP_BACKOFF_MARGIN[1]) \div MRP_BACKOFF_MARGIN[2]
      d == IF counter > MRP_BACKOFF_THRESHOLD
           THEN Backoff(d0, counter - MRP_BACKOFF_THRESHOLD) ELSE d0
  IN d + (d * jitterRand * MRP_BACKOFF_JITTER[1])
           \div (255 * MRP_BACKOFF_JITTER[2])

\* RetransEntry::delay_ms.
DelayMs(e, jitterRand) == DelayMsCounter(e.base, e.counter, jitterRand)

\* Mutant: the maximum is taken one retry short.
MaxDelayMsShort(e) ==
  DelayMsCounter(e.base, MRP_MAX_TRANSMISSIONS - 1, MRP_JITTER_RAND_MAX)

\* RetransEntry::max_delay_ms.
MaxDelayMs(e) ==
  DelayMsCounter(e.base, MRP_MAX_TRANSMISSIONS, MRP_JITTER_RAND_MAX)

-----------------------------------------------------------------------------
(* The life of one RetransEntry *)

\* RetransEntry::new, and the first wait.
Init ==
  /\ \E interval \in Intervals \cup {None} :
       entry = [base |-> IF interval = None THEN MRP_BASE_RETRY_INTERVAL_MS
                         ELSE interval,
                counter |-> 0]
  /\ jitter \in JitterRand
  /\ delay = DelayMs(entry, jitter)

\* Mutant: pre_send counts past the maximum.
PreSendUnbounded ==
  /\ entry' = [entry EXCEPT !.counter = @ + 1]
  /\ jitter' \in JitterRand
  /\ delay' = DelayMs(entry', jitter')

\* RetransEntry::pre_send on a retransmission, then the next wait. At the
\* maximum pre_send fails and the entry is given up: nothing follows.
PreSend ==
  /\ entry.counter < MRP_MAX_TRANSMISSIONS
  /\ entry' = [entry EXCEPT !.counter = @ + 1]
  /\ jitter' \in JitterRand
  /\ delay' = DelayMs(entry', jitter')

Spec == Init /\ [][PreSend]_vars

-----------------------------------------------------------------------------
(* Properties *)

TypeOK ==
  /\ entry \in [base : 0..65535, counter : 0..MRP_MAX_TRANSMISSIONS]
  /\ jitter \in JitterRand
  /\ delay \in Nat

\* Spec 4.2/8: for any jitter byte, delay_ms does not decrease as the retry
\* counter of the entry increases (every byte is the current one in some
\* state, so comparing at the current byte covers them all).
DelayNonDecreasing ==
  [][DelayMs(entry', jitter) >= DelayMs(entry, jitter)]_vars

\* Spec 4.2: max_delay_ms, the value at the maximum retry count with the
\* maximum jitter, bounds every wait of the entry.
WithinMaxDelay == delay <= MaxDelayMs(entry)

=============================================================================
