--------------------------- MODULE MessageCounter ---------------------------
(***************************************************************************)
(* The counters that number outgoing messages                              *)
(* (packages/matter.js/src/protocol/MessageCounter.ts): MessageCounter and *)
(* PersistedMessageCounter, which writes every value to storage before it  *)
(* is handed out, with crashes of the process at any point.                *)
(*                                                                         *)
(* getIncrementedCounter is asynchronous: it increments at once and, when  *)
(* persisted, writes later, so that several calls can be under way.  The   *)
(* storage is synchronous (StorageBackendDisk): the writes happen in the   *)
(* order of the calls.                                                     *)
(***************************************************************************)
EXTENDS Integers, Sequences

CONSTANTS
  MaxCounter,              \* MAX_COUNTER_VALUE_32BIT
  InitialCounters,         \* the random initial values (28 bits in the code)
  RolloverInfoDifference,  \* messages before a rollover that the callback is called
  MaxCalls                 \* bound: calls under way at the same time

ASSUME MessageCounterAssumption ==
  /\ MaxCounter \in Nat
  /\ RolloverInfoDifference \in 0 .. MaxCounter
  /\ InitialCounters \subseteq 1 .. MaxCounter - RolloverInfoDifference - 1
  /\ MaxCalls \in Nat \ {0}

VARIABLES
  persisted,        \* the object is a PersistedMessageCounter
  hasCallback,      \* aboutToRolloverCallback was given
  messageCounter,   \* the field; NoValue while the process is down
  stored,           \* the value in storage; NoValue if there is none
  calls,            \* values of the calls that wait to be persisted
  used,             \* history: values handed out before the first rollover
  reused,           \* history: a value was handed out twice before a rollover
  rolled,           \* history: the counter went back to 0
  informed,         \* the callback was called since the last start or rollover
  uninformed        \* history: a rollover happened without the callback

object == <<persisted, hasCallback>>
vars == <<object, messageCounter, stored, calls, used, reused, rolled, informed, uninformed>>

NoValue == -1

Flags ==
  /\ persisted \in BOOLEAN
  /\ hasCallback \in BOOLEAN
  /\ reused \in BOOLEAN
  /\ rolled \in BOOLEAN
  /\ informed \in BOOLEAN
  /\ uninformed \in BOOLEAN

\* Types of the fields: no value above the maximum is handed out or stored.
\* The counter may stand one above its maximum after a call that was refused.
TypeOK ==
  /\ messageCounter \in {NoValue} \cup (0 .. MaxCounter + 1)
  /\ stored \in {NoValue} \cup (0 .. MaxCounter)
  /\ calls \in Seq(0 .. MaxCounter)
  /\ Len(calls) <= MaxCalls
  /\ used \subseteq 0 .. MaxCounter
  /\ Flags

Init ==
  /\ persisted \in BOOLEAN
  /\ hasCallback \in BOOLEAN
  /\ messageCounter \in InitialCounters
  /\ stored = NoValue
  /\ calls = <<>>
  /\ used = {}
  /\ reused = FALSE
  /\ rolled = FALSE
  /\ informed = FALSE
  /\ uninformed = FALSE

Running == messageCounter # NoValue

-----------------------------------------------------------------------------

\* The value is returned to the caller, who puts it into a message.
HandOut(value) ==
  /\ used' = IF rolled THEN used ELSE used \cup {value}
  /\ reused' = (reused \/ (~ rolled /\ value \in used))

\* Mutant: the caller gets the value before it is written.
Deliver_Early(value) ==
  /\ HandOut(value)
  /\ calls' = IF persisted THEN Append(calls, value) ELSE calls

\* Where a fresh value goes: to the caller, or first to the storage.
Deliver(value) ==
  IF persisted
    THEN /\ calls' = Append(calls, value)
         /\ UNCHANGED <<used, reused>>
    ELSE /\ HandOut(value)
         /\ UNCHANGED calls

CanCall == Running /\ Len(calls) < MaxCalls

Increment ==
  /\ CanCall
  /\ messageCounter < MaxCounter
  /\ messageCounter' = messageCounter + 1
  /\ informed' = (informed \/ (hasCallback /\ messageCounter' = MaxCounter - RolloverInfoDifference))
  /\ Deliver(messageCounter')
  /\ UNCHANGED <<object, stored, rolled, uninformed>>

Rollover ==
  /\ CanCall
  /\ hasCallback
  /\ messageCounter = MaxCounter
  /\ messageCounter' = 0
  /\ uninformed' = (uninformed \/ ~ informed)
  /\ informed' = FALSE
  /\ rolled' = TRUE
  /\ calls' = IF persisted THEN Append(calls, 0) ELSE calls
  /\ UNCHANGED <<object, stored, used, reused>>

\* The increment is kept although the call throws.
RolloverRefused ==
  /\ CanCall
  /\ ~ hasCallback
  /\ messageCounter >= MaxCounter
  /\ messageCounter' = MaxCounter + 1
  /\ UNCHANGED <<object, stored, calls, used, reused, rolled, informed, uninformed>>

Persist ==
  /\ Running
  /\ calls # <<>>
  /\ stored' = Head(calls)
  /\ calls' = Tail(calls)
  /\ HandOut(Head(calls))
  /\ UNCHANGED <<object, messageCounter, rolled, informed, uninformed>>

Crash ==
  /\ Running
  /\ persisted
  /\ messageCounter' = NoValue
  /\ calls' = <<>>
  /\ informed' = FALSE
  /\ UNCHANGED <<object, stored, used, reused, rolled, uninformed>>

\* Mutant: the callback is called on the exact value only, as in getIncrementedCounter.
Load_Exact ==
  IF stored = NoValue
    THEN messageCounter' \in InitialCounters /\ informed' = FALSE
    ELSE /\ messageCounter' = stored
         /\ informed' = (hasCallback /\ stored = MaxCounter - RolloverInfoDifference)

Load ==
  IF stored = NoValue
    THEN messageCounter' \in InitialCounters /\ informed' = FALSE
    ELSE /\ messageCounter' = stored
         /\ informed' = (hasCallback /\ stored >= MaxCounter - RolloverInfoDifference)

Restart ==
  /\ ~ Running
  /\ Load
  /\ UNCHANGED <<object, stored, calls, used, reused, rolled, uninformed>>

Next ==
  \/ Increment
  \/ Rollover
  \/ RolloverRefused
  \/ Persist
  \/ Crash
  \/ Restart

Spec == Init /\ [][Next]_vars

-----------------------------------------------------------------------------
(* Properties *)

\* As long as the counter has not rolled over, no value is handed out twice, by
\* whatever crashes and restarts between the increment, the write and the return
\* (PersistedMessageCounter.getIncrementedCounter).
NeverReused == ~ reused

\* The callback is called between the last start and a rollover, also when the
\* process starts again with a stored value close to the limit.
AnnouncedBeforeRollover == ~ uninformed

=============================================================================
