---------------------------- MODULE EvictionQueue ----------------------------
(***************************************************************************)
(* The eviction queue of src/pow.rs: a heap of (key, expires_at) entries   *)
(* behind a mutex, the atomic `next_wakeup_millis`, the channel on which a *)
(* request tells the background task that it should wake up earlier, and   *)
(* the background task itself.                                             *)
(*                                                                         *)
(* The module gives the queue's operations as actions on its own variables *)
(* only.  Module Pow composes them with the challenge set and the HTTP     *)
(* requests.  One action is one access to shared state: the mutex, the     *)
(* atomic or the channel.                                                  *)
(***************************************************************************)
EXTENDS Integers, Sequences

CONSTANTS
  Key,            \* the keys (ip, chain) of the challenge set
  Never,          \* the "10000 years from now" of the task; also u64::MAX
  TicksPerMilli   \* instants that fall into the same millisecond

ASSUME NeverAssumption == Never \in Nat
ASSUME TicksPerMilliAssumption == TicksPerMilli \in Nat \ {0}

VARIABLES
  now,                 \* Instant::now(), in ticks since EvictionQueue.start
  heap,                \* EvictionQueue.q
  next_wakeup_millis,  \* EvictionQueue.next_wakeup_millis
  wakeups,             \* the channel i_changed_the_wakeup
  evictor,             \* what the background task does
  next_wakeup,         \* its local next_wakeup, the deadline of honk_shoo
  to_expire,           \* entries remove_expired has popped and not removed yet
  wakeup_time          \* what remove_expired is going to return

queueVars == <<heap, next_wakeup_millis, wakeups, evictor, next_wakeup,
               to_expire, wakeup_time>>

Instant == 0..Never
EvictionEntry == [key : Key, expires_at : Instant]

\* as_millis() of the time since `start`: truncating.
Millis(t) == t \div TicksPerMilli

\* The entries a pop or a peek of the min-heap may yield (ties are arbitrary).
Earliest(entries) ==
  {e \in entries : \A f \in entries : e.expires_at <= f.expires_at}

\* remove_expired owns the guard of q from the call to the return.
HeapLocked == evictor = "remove_expired"

QueueTypeOK ==
  /\ heap \subseteq EvictionEntry
  /\ next_wakeup_millis \in Instant
  /\ wakeups \in Seq(Instant)
  /\ evictor \in {"select", "remove_expired", "store"}
  /\ next_wakeup \in Instant
  /\ to_expire \subseteq EvictionEntry
  /\ wakeup_time \in Instant

QueueInit ==
  /\ heap = {}
  /\ next_wakeup_millis = Never
  /\ wakeups = <<>>
  /\ evictor = "select"
  /\ next_wakeup = Never
  /\ to_expire = {}
  /\ wakeup_time = Never

-----------------------------------------------------------------------------
(* The three accesses of add_challenge, made by the request's thread.      *)

Push(e) ==
  /\ ~HeapLocked
  /\ heap' = heap \cup {e}
  /\ UNCHANGED <<next_wakeup_millis, wakeups, evictor, next_wakeup,
                 to_expire, wakeup_time>>

\* Whether the loaded next_wakeup_millis makes the caller notify the task.
WakesTooLate(expires_at) == Millis(expires_at) < next_wakeup_millis

SendWakeup(expires_at) ==
  /\ wakeups' = Append(wakeups, expires_at)
  /\ UNCHANGED <<heap, next_wakeup_millis, evictor, next_wakeup,
                 to_expire, wakeup_time>>

-----------------------------------------------------------------------------
(* The background task.                                                    *)

\* Mutant: the published time is in microseconds, say.
RearmFinerUnit(t) ==
  /\ next_wakeup' = t
  /\ next_wakeup_millis' = t * TicksPerMilli

\* next_wakeup, honk_shoo and the published next_wakeup_millis move together.
Rearm(t) ==
  /\ next_wakeup' = t
  /\ next_wakeup_millis' = Millis(t)

\* Mutant: the comparison is the wrong way round.
RecvWakeupLater ==
  /\ evictor = "select"
  /\ wakeups # <<>>
  /\ wakeups' = Tail(wakeups)
  /\ IF Head(wakeups) > next_wakeup
       THEN Rearm(Head(wakeups))
       ELSE UNCHANGED <<next_wakeup, next_wakeup_millis>>
  /\ UNCHANGED <<heap, evictor, to_expire, wakeup_time>>

RecvWakeup ==
  /\ evictor = "select"
  /\ wakeups # <<>>
  /\ wakeups' = Tail(wakeups)
  /\ IF Head(wakeups) < next_wakeup
       THEN Rearm(Head(wakeups))
       ELSE UNCHANGED <<next_wakeup, next_wakeup_millis>>
  /\ UNCHANGED <<heap, evictor, to_expire, wakeup_time>>

\* Mutant: expiries are compared in milliseconds, as next_wakeup_millis is.
PopExpiredMillis ==
  /\ evictor = "select"
  /\ next_wakeup <= now
  /\ to_expire' = {e \in heap : Millis(e.expires_at) <= Millis(now)}
  /\ heap' = heap \ to_expire'
  /\ IF heap' = {}
       THEN wakeup_time' = Never
       ELSE \E e \in Earliest(heap') : wakeup_time' = e.expires_at
  /\ evictor' = "remove_expired"
  /\ UNCHANGED <<next_wakeup_millis, wakeups, next_wakeup>>

\* honk_shoo elapses: remove_expired locks q, pops what has expired and peeks
\* at the first entry that has not.
PopExpired ==
  /\ evictor = "select"
  /\ next_wakeup <= now
  /\ to_expire' = {e \in heap : e.expires_at <= now}
  /\ heap' = heap \ to_expire'
  /\ IF heap' = {}
       THEN wakeup_time' = Never
       ELSE \E e \in Earliest(heap') : wakeup_time' = e.expires_at
  /\ evictor' = "remove_expired"
  /\ UNCHANGED <<next_wakeup_millis, wakeups, next_wakeup>>

\* One turn of the loop that removes the popped keys from the challenge set.
TakeExpired(e) ==
  /\ evictor = "remove_expired"
  /\ e \in Earliest(to_expire)
  /\ to_expire' = to_expire \ {e}
  /\ UNCHANGED <<heap, next_wakeup_millis, wakeups, evictor, next_wakeup,
                 wakeup_time>>

\* Mutant: the loop does not leave off at an empty heap.
ReturnWakeupUnlessEmpty ==
  /\ evictor = "remove_expired"
  /\ to_expire = {}
  /\ wakeup_time # Never
  /\ evictor' = "store"
  /\ UNCHANGED <<heap, next_wakeup_millis, wakeups, next_wakeup, to_expire,
                 wakeup_time>>

\* remove_expired returns, which drops the guard of q.
ReturnWakeup ==
  /\ evictor = "remove_expired"
  /\ to_expire = {}
  /\ evictor' = "store"
  /\ UNCHANGED <<heap, next_wakeup_millis, wakeups, next_wakeup, to_expire,
                 wakeup_time>>

\* Both arms of the `if let`: None has become Never.
StoreWakeup ==
  /\ evictor = "store"
  /\ Rearm(wakeup_time)
  /\ evictor' = "select"
  /\ UNCHANGED <<heap, wakeups, to_expire, wakeup_time>>
=============================================================================
