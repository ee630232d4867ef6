------------------------ MODULE MessageCounterProofs ------------------------
(***************************************************************************)
(* Proofs about MessageCounter, for every maximum, every set of initial    *)
(* values and any number of calls under way.  What was handed out lies     *)
(* below what still waits to be written, and that below the counter; a     *)
(* crash forgets the upper part only.                                      *)
(***************************************************************************)
EXTENDS MessageCounter, SequenceTheorems, TLAPS

\* Values that were handed out are behind everything that may still be: the calls
\* under way, in their order, the counter itself and the value a restart reads.
Ahead ==
  /\ \A i \in 1 .. Len(calls) : \A u \in used : u < calls[i]
  /\ \A i, j \in 1 .. Len(calls) : i < j => calls[i] < calls[j]
  /\ Running => /\ \A u \in used : u <= messageCounter
                /\ \A i \in 1 .. Len(calls) : calls[i] <= messageCounter
  /\ persisted => \A u \in used : u <= stored

\* Only a persisted counter has calls waiting or is ever down.
Modes ==
  /\ ~ Running => calls = <<>>
  /\ ~ persisted => Running /\ calls = <<>>

\* The callback was called if the counter is within reach of the rollover.  The
\* first conjunct is known once there is an initial value.
Announced ==
  /\ RolloverInfoDifference < MaxCounter
  /\ hasCallback /\ messageCounter >= MaxCounter - RolloverInfoDifference => informed

\* The inductive invariant.
CounterInv ==
  /\ TypeOK
  /\ Modes
  /\ ~ rolled => Ahead
  /\ Announced
  /\ ~ reused
  /\ ~ uninformed

-----------------------------------------------------------------------------

LEMMA CounterInit == Init => CounterInv
<1> SUFFICES ASSUME Init PROVE CounterInv
  OBVIOUS
<1> USE MessageCounterAssumption DEF MessageCounterAssumption
<1>1. Flags
  BY Zenon DEF Init, Flags
<1>2. TypeOK
  BY <1>1 DEF Init, TypeOK, NoValue
<1>3. ~ reused /\ ~ uninformed /\ ~ informed
  BY <1>1 DEF Init, Flags
<1>4. messageCounter \in 1 .. MaxCounter - RolloverInfoDifference - 1
  BY DEF Init
<1>5. Announced
  BY <1>4 DEF Announced
<1>6. Modes
  BY <1>2, <1>4 DEF Init, TypeOK, Flags, Modes, Running, NoValue
<1>7. Ahead
  BY <1>2, <1>4 DEF Init, TypeOK, Flags, Ahead, Running, NoValue
<1>8. QED
  BY <1>2, <1>3, <1>5, <1>6, <1>7 DEF CounterInv

\* What an append to the calls under way does.
LEMMA AppendCall ==
  ASSUME NEW s \in Seq(0 .. MaxCounter), NEW v \in 0 .. MaxCounter
  PROVE  /\ Append(s, v) \in Seq(0 .. MaxCounter)
         /\ Len(Append(s, v)) = Len(s) + 1
         /\ \A i \in 1 .. Len(s) : Append(s, v)[i] = s[i]
         /\ Append(s, v)[Len(s) + 1] = v
OBVIOUS

\* What the end of the oldest call does.
LEMMA FirstCall ==
  ASSUME NEW s \in Seq(0 .. MaxCounter), s # <<>>
  PROVE  /\ Head(s) = s[1] /\ Head(s) \in 0 .. MaxCounter
         /\ 1 \in 1 .. Len(s)
         /\ Tail(s) \in Seq(0 .. MaxCounter)
         /\ Len(Tail(s)) = Len(s) - 1
         /\ \A i \in 1 .. Len(Tail(s)) : Tail(s)[i] = s[i + 1] /\ i + 1 \in 1 .. Len(s)
<1>1. Len(s) \in Nat /\ Len(s) > 0 /\ Head(s) = s[1]
  OBVIOUS
<1>2. /\ Head(s) \in 0 .. MaxCounter
      /\ Tail(s) \in Seq(0 .. MaxCounter)
      /\ Len(Tail(s)) = Len(s) - 1
  BY HeadTailProperties
<1>3. \A i \in 1 .. Len(Tail(s)) : Tail(s)[i] = s[i + 1] /\ i + 1 \in 1 .. Len(s)
  OBVIOUS
<1>4. QED
  BY <1>1, <1>2, <1>3

LEMMA CounterStep == CounterInv /\ [Next]_vars => CounterInv'
<1> SUFFICES ASSUME CounterInv, [Next]_vars PROVE CounterInv'
  OBVIOUS
<1> USE MessageCounterAssumption DEF MessageCounterAssumption
<1> USE DEF NoValue, Running, object
<1>1. Flags /\ Flags'
  <2>1. Flags
    BY DEF CounterInv, TypeOK
  <2>2. QED
    BY <2>1, Zenon DEF Next, vars, Flags, Increment, Rollover, RolloverRefused, Persist,
                       Crash, Restart, Load, Deliver, HandOut
<1>2. CASE Increment
  <2>1. /\ messageCounter \in 0 .. MaxCounter - 1
        /\ messageCounter' = messageCounter + 1
        /\ messageCounter' \in 0 .. MaxCounter
    BY <1>1, <1>2 DEF Increment, CanCall, CounterInv, TypeOK
  <2>2. /\ used \cup {messageCounter'} \subseteq 0 .. MaxCounter
        /\ calls \in Seq(0 .. MaxCounter)
        /\ Len(calls) + 1 <= MaxCalls
    BY <1>2, <2>1 DEF Increment, CanCall, CounterInv, TypeOK
  <2>3. calls' \in Seq(0 .. MaxCounter) /\ Len(calls') <= MaxCalls
    <3>1. calls' = Append(calls, messageCounter') \/ calls' = calls
      BY <1>2 DEF Increment, Deliver
    <3>2. QED
      BY <2>1, <2>2, <3>1, AppendCall, SMTT(30)
  <2>4. used' \subseteq 0 .. MaxCounter
    BY <1>1, <1>2, <2>2 DEF Increment, Deliver, HandOut, Flags, CounterInv, TypeOK
  <2>5. TypeOK'
    BY <1>1, <1>2, <2>1, <2>3, <2>4 DEF Increment, CounterInv, TypeOK
  <2>6. Modes'
    BY <1>1, <1>2, <2>1, <2>5 DEF Increment, Deliver, CounterInv, Modes, TypeOK, Flags
  <2>7. Announced'
    BY <1>1, <1>2, <2>1, <2>5 DEF Increment, CounterInv, Announced, TypeOK, Flags
  <2>8. ~ reused'
    BY <1>1, <1>2, <2>1, <2>5 DEF Increment, Deliver, HandOut, CounterInv, Ahead, TypeOK, Flags
  <2>9. ASSUME ~ rolled' PROVE Ahead'
    <3>1. Ahead
      BY <1>1, <1>2, <2>9 DEF Increment, CounterInv
    <3>2. CASE persisted
      <4>1. /\ calls' = Append(calls, messageCounter')
            /\ UNCHANGED <<used, persisted, stored>>
        BY <1>1, <1>2, <3>2 DEF Increment, Deliver, Flags
      <4>2. /\ Len(calls) \in Nat
            /\ Len(calls') = Len(calls) + 1
            /\ \A i \in 1 .. Len(calls) : calls'[i] = calls[i]
            /\ calls'[Len(calls) + 1] = messageCounter'
        BY <2>1, <2>2, <4>1, AppendCall
      <4>3. \A i \in 1 .. Len(calls) : calls[i] \in 0 .. MaxCounter
        BY <2>2
      <4>4. \A u \in used : u <= messageCounter /\ u \in 0 .. MaxCounter
        BY <2>1, <2>2, <3>1 DEF Ahead
      <4>5. \A i \in 1 .. Len(calls) : calls[i] <= messageCounter
        BY <2>1, <3>1 DEF Ahead
      <4>6. QED
        BY <2>1, <3>1, <4>1, <4>2, <4>3, <4>4, <4>5 DEF Ahead
    <3>3. CASE ~ persisted
      BY <1>1, <1>2, <2>1, <2>5, <3>1, <3>3, <2>9
         DEF Increment, Deliver, HandOut, CounterInv, Ahead, Modes, TypeOK, Flags
    <3>4. QED
      BY <3>2, <3>3
  <2>10. QED
    BY <1>1, <1>2, <2>5, <2>6, <2>8, <2>9, <2>7 DEF Increment, CounterInv
<1>3. CASE Rollover
  <2>1. TypeOK'
    <3>1. 0 \in 0 .. MaxCounter /\ calls \in Seq(0 .. MaxCounter) /\ Len(calls) + 1 <= MaxCalls
      BY <1>3 DEF Rollover, CanCall, CounterInv, TypeOK
    <3>2. calls' \in Seq(0 .. MaxCounter) /\ Len(calls') <= MaxCalls
      <4>1. calls' = Append(calls, 0) \/ calls' = calls
        BY <1>3 DEF Rollover
      <4>2. QED
        BY <3>1, <4>1, AppendCall
    <3>3. QED
      BY <1>1, <1>3, <3>1, <3>2 DEF Rollover, CounterInv, TypeOK
  <2>2. ~ uninformed'
    BY <1>1, <1>3, <2>1 DEF Rollover, CounterInv, Announced, TypeOK, Flags
  <2>3. Modes' /\ Announced'
    BY <1>1, <1>3, <2>1 DEF Rollover, CounterInv, Announced, Modes, TypeOK, Flags
  <2>4. QED
    BY <1>1, <1>3, <2>1, <2>2, <2>3 DEF Rollover, CounterInv, TypeOK
<1>4. CASE RolloverRefused
  <2>1. TypeOK'
    BY <1>1, <1>4 DEF RolloverRefused, CanCall, CounterInv, TypeOK
  <2>2. QED
    BY <1>1, <1>4, <2>1 DEF RolloverRefused, CanCall, CounterInv, TypeOK, Flags, Modes, Ahead, Announced
<1>5. CASE Persist
  <2>1. TypeOK'
    <3>1. /\ Head(calls) \in 0 .. MaxCounter
          /\ calls' \in Seq(0 .. MaxCounter)
          /\ Len(calls') <= MaxCalls
      BY <1>5, FirstCall DEF Persist, CounterInv, TypeOK
    <3>2. used' \subseteq 0 .. MaxCounter
      BY <1>1, <1>5, <3>1 DEF Persist, HandOut, CounterInv, TypeOK, Flags
    <3>3. QED
      BY <1>1, <1>5, <3>1, <3>2 DEF Persist, CounterInv, TypeOK
  <2>2. Modes' /\ Announced' /\ ~ uninformed'
    BY <1>1, <1>5, <2>1 DEF Persist, CounterInv, TypeOK, Flags, Modes, Announced
  <2>3. ~ reused'
    BY <1>1, <1>5, <2>1, FirstCall DEF Persist, HandOut, CounterInv, Ahead, TypeOK, Flags
  <2>4. ASSUME ~ rolled' PROVE Ahead'
    <3>1. Ahead /\ used' = used \cup {calls[1]}
      BY <1>1, <1>5, <2>4, FirstCall DEF Persist, HandOut, CounterInv, TypeOK
    <3>2. QED
      BY <1>1, <1>5, <2>1, <3>1, FirstCall, SMTT(30) DEF Persist, CounterInv, Ahead, TypeOK, Flags
  <2>5. QED
    BY <2>1, <2>2, <2>3, <2>4 DEF CounterInv
<1>6. CASE Crash
  <2>1. TypeOK'
    BY <1>1, <1>6 DEF Crash, CounterInv, TypeOK
  <2>2. QED
    BY <1>1, <1>6, <2>1 DEF Crash, CounterInv, TypeOK, Flags, Modes, Ahead, Announced
<1>7. CASE Restart
  <2>1. TypeOK'
    <3>1. messageCounter' \in 0 .. MaxCounter
      <4>1. messageCounter' \in InitialCounters \/ (stored # NoValue /\ messageCounter' = stored)
        BY <1>7, Zenon DEF Restart, Load
      <4>2. CASE messageCounter' \in InitialCounters
        BY <4>2
      <4>3. CASE stored # NoValue /\ messageCounter' = stored
        BY <4>3 DEF CounterInv, TypeOK
      <4>4. QED
        BY <4>1, <4>2, <4>3
    <3>2. QED
      BY <1>1, <1>7, <3>1 DEF Restart, CounterInv, TypeOK
  <2>2. QED
    BY <1>1, <1>7, <2>1 DEF Restart, Load, CounterInv, TypeOK, Flags, Modes, Ahead, Announced
<1>8. CASE UNCHANGED vars
  BY <1>8 DEF vars, CounterInv, TypeOK, Flags, Modes, Ahead, Announced
<1>9. QED
  BY <1>2, <1>3, <1>4, <1>5, <1>6, <1>7, <1>8 DEF Next

\* The inductive invariant holds.
THEOREM CounterInvariant == Spec => []CounterInv
BY CounterInit, CounterStep, PTL DEF Spec

\* The fields keep their types: a value that is stored, waits or was handed out is a
\* counter value, whatever the refused calls do to the field.
THEOREM TypeCorrect == Spec => []TypeOK
<1>1. CounterInv => TypeOK
  BY DEF CounterInv
<1>2. QED
  BY <1>1, CounterInvariant, PTL

\* PersistedMessageCounter never hands out a value twice before its rollover, for every
\* interleaving of calls, writes, crashes and restarts.
THEOREM ValuesAreFresh == Spec => []NeverReused
<1>1. CounterInv => NeverReused
  BY DEF CounterInv, NeverReused
<1>2. QED
  BY <1>1, CounterInvariant, PTL

\* No rollover happens unannounced: getIncrementedCounter calls aboutToRolloverCallback on
\* the way, or the constructor does after a restart close to the limit.
THEOREM RolloverIsAnnounced == Spec => []AnnouncedBeforeRollover
<1>1. CounterInv => AnnouncedBeforeRollover
  BY DEF CounterInv, AnnouncedBeforeRollover
<1>2. QED
  BY <1>1, CounterInvariant, PTL

=============================================================================
