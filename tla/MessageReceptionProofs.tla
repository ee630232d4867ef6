----------------------- MODULE MessageReceptionProofs -----------------------
(***************************************************************************)
(* Proofs about the duplicate detection, for every window size and every   *)
(* maximum of the counter.                                                 *)
(***************************************************************************)
EXTENDS MessageReceptionState, TLAPS

\* What the bitmap must know for a repeated counter to be refused: every counter
\* that was processed is the maximum, is behind the window, or has its bit set.
Recorded(c) ==
  \/ c = maximumMessageCounter
  \/ maximumMessageCounter - c > WindowSize
  \/ (maximumMessageCounter - c - 1) \in messageCounterBitmap

\* What the class without rollover remembers of the counters it has processed.
Complete ==
  /\ maximumMessageCounter = Undefined => accepted = {}
  /\ \A c \in accepted : c <= maximumMessageCounter /\ Recorded(c)
  /\ ~ again

\* Until the maximum moves by exactly the width of the word, a bit of the class without
\* rollover stands for a counter that was processed, or belongs to the unbroken rest of
\* the ones the bitmap was filled with, older than all that was processed.
Exact ==
  /\ maximumMessageCounter # Undefined => maximumMessageCounter \in accepted
  /\ \A b \in messageCounterBitmap :
       \/ (maximumMessageCounter - 1 - b) \in accepted
       \/ /\ Unknown(maximumMessageCounter - 1 - b)
          /\ \A i \in Bits : i >= b => i \in messageCounterBitmap

\* A counter of the window is the maximum or has its bit set, on the circle of the counters.
Recalled(x) ==
  \/ Behind(maximumMessageCounter, x) = 0
  \/ /\ Behind(maximumMessageCounter, x) <= WindowSize
     /\ (Behind(maximumMessageCounter, x) - 1) \in messageCounterBitmap

\* The classes with rollover, as long as calculateDiff is right.
DiffIsRight ==
  \/ mode = EncryptedWithRollover
  \/ mode = UnencryptedWithRollover /\ ~ rolledOver

Remembered ==
  /\ maximumMessageCounter = Undefined => seen = {}
  /\ \A x \in seen : Recalled(x)

\* The inductive invariant.
Invariant ==
  /\ TypeOK
  /\ mode = EncryptedWithoutRollover => Complete /\ (fullShift \/ Exact)
  /\ DiffIsRight => Remembered
  /\ RepeatOnlyAfterRollover

\* A shift by less than the width of the bitmap is not reduced.
LEMMA SmallShift ==
  ASSUME NEW d \in 1 .. WindowSize - 1
  PROVE  d % WindowSize = d
BY ReceptionAssumption, Z3

\* The initial state satisfies the invariant (the field initialisers).
LEMMA InitEstablishes == Init => Invariant
<1> SUFFICES ASSUME Init PROVE Invariant
  OBVIOUS
<1>1. outcome \in [counter : {Undefined} \cup Counters, result : Results]
  BY DEF Init, Results
<1>2. TypeOK
  BY <1>1 DEF Init, TypeOK
<1>3. QED
  BY <1>2 DEF Init, Invariant, Complete, Exact, Unknown, Remembered, RepeatOnlyAfterRollover

\* The bitmap that calculateMessageCounterBitmap returns has only bits of the word.
LEMMA BitmapType ==
  ASSUME NEW b \in SUBSET Bits, NEW d \in Int, d >= -WindowSize
  PROVE  CalculateMessageCounterBitmap(b, d) \subseteq Bits
<1> USE ReceptionAssumption DEF Bits
<1>1. ShiftLeft(b, d) \subseteq Bits
  BY DEF ShiftLeft
<1>2. CASE d < 0
  <2>1. -d - 1 \in Bits
    BY <1>2
  <2>2. CalculateMessageCounterBitmap(b, d) = b \cup {-d - 1}
    BY <1>2 DEF CalculateMessageCounterBitmap
  <2>3. QED
    BY <2>1, <2>2
<1>3. CASE d > 0 /\ d <= WindowSize
  <2>1. d - 1 \in Bits
    BY <1>3
  <2>2. CalculateMessageCounterBitmap(b, d) = ShiftLeft(b, d) \cup {d - 1}
    BY <1>3 DEF CalculateMessageCounterBitmap
  <2>3. QED
    BY <1>1, <2>1, <2>2
<1>4. CASE d = 0 \/ d > WindowSize
  <2>1. CalculateMessageCounterBitmap(b, d) \in {{}, b}
    BY <1>4 DEF CalculateMessageCounterBitmap
  <2>2. QED
    BY <2>1
<1>5. QED
  BY <1>2, <1>3, <1>4

\* Every call of updateMessageCounter, of any class, keeps the fields in their types.
LEMMA TypePreserved == TypeOK /\ [Next]_vars => TypeOK'
<1> SUFFICES ASSUME TypeOK, [Next]_vars PROVE TypeOK'
  OBVIOUS
<1> USE ReceptionAssumption DEF Undefined, Counters, Results
<1>1. CASE UNCHANGED vars
  BY <1>1 DEF TypeOK, vars, historyVars
<1>2. ASSUME NEW c \in Counters, InvalidCounter(c)
      PROVE  TypeOK'
  BY <1>2 DEF TypeOK, InvalidCounter, Ends, historyVars
<1>3. ASSUME NEW c \in Counters, FirstCounter(c)
      PROVE  TypeOK'
  <2>1. /\ mode' = mode
        /\ maximumMessageCounter' = c
        /\ c \in 0 .. MaxCounter
        /\ messageCounterBitmap' = Bits
        /\ outcome' = [counter |-> c, result |-> "new"]
    BY <1>3 DEF FirstCounter, Ends
  <2>2. /\ accepted' = accepted \cup {c}
        /\ seen' \subseteq seen \cup {c}
    BY <1>3 DEF FirstCounter, Remember
  <2>3. {again', seenAgain', fullShift', rolledOver'} \subseteq BOOLEAN
    BY <1>3 DEF FirstCounter, Remember, TypeOK
  <2>4. QED
    BY <2>1, <2>2, <2>3 DEF TypeOK
<1>4. ASSUME NEW c \in Counters, DuplicateCounter(c)
      PROVE  TypeOK'
  BY <1>4 DEF TypeOK, DuplicateCounter, Ends, historyVars
<1>5. ASSUME NEW c \in Counters, NewCounter(c)
      PROVE  TypeOK'
  <2>1. /\ mode' = mode
        /\ maximumMessageCounter' \in {c, maximumMessageCounter}
        /\ c \in 0 .. MaxCounter
        /\ outcome' = [counter |-> c, result |-> "new"]
    BY <1>5 DEF NewCounter, Ends
  <2>2. /\ accepted' = accepted \cup {c}
        /\ seen' \subseteq seen \cup {c}
    BY <1>5 DEF NewCounter, Remember
  <2>3. {again', seenAgain', fullShift', rolledOver'} \subseteq BOOLEAN
    BY <1>5 DEF NewCounter, Remember, TypeOK
  <2>4. messageCounterBitmap' \subseteq Bits
    <3>1. CalculateDiff(c) \in Int
      BY <1>5 DEF CalculateDiff, DiffEncrypted, DiffUnencrypted, PlainDiff, NewCounter, TypeOK
    <3>2. CalculateDiff(c) >= -WindowSize
      BY <1>5, <3>1 DEF NewCounter, IsDuplicate
    <3>3. QED
      BY <1>5, <3>1, <3>2, BitmapType DEF NewCounter, TypeOK
  <2>5. QED
    BY <2>1, <2>2, <2>3, <2>4 DEF TypeOK
<1>6. QED
  BY <1>1, <1>2, <1>3, <1>4, <1>5 DEF Next, UpdateMessageCounter

\* Every call of updateMessageCounter without rollover preserves the invariant.
LEMMA CompletePreserved ==
  ASSUME mode = EncryptedWithoutRollover, TypeOK, Complete, [Next]_vars
  PROVE  Complete'
<1> USE ReceptionAssumption DEF Undefined, Bits, Counters, Results
<1>1. CASE UNCHANGED vars
  BY <1>1 DEF Complete, vars, historyVars, Recorded
<1>2. ASSUME NEW c \in Counters, InvalidCounter(c)
      PROVE  Complete'
  BY <1>2 DEF Complete, InvalidCounter, historyVars, Recorded
<1>3. ASSUME NEW c \in Counters, FirstCounter(c)
      PROVE  Complete'
  <2>1. accepted = {} /\ c \in 0 .. MaxCounter
    BY <1>3 DEF FirstCounter, Complete, TypeOK
  <2>2. /\ accepted' = {c}
        /\ maximumMessageCounter' = c
        /\ messageCounterBitmap' = Bits
    BY <1>3, <2>1 DEF FirstCounter, Remember
  <2>3. again' = FALSE
    <3>1. c \notin accepted
      BY <2>1
    <3>2. ~ again
      BY DEF Complete
    <3>3. QED
      BY ONLY <1>3, <3>1, <3>2, Zenon DEF FirstCounter, Remember
  <2>4. \A a \in accepted' : a <= maximumMessageCounter' /\ Recorded(a)'
    BY <2>1, <2>2 DEF Recorded
  <2>5. maximumMessageCounter' # Undefined
    BY <2>1, <2>2
  <2>6. QED
    BY <2>3, <2>4, <2>5 DEF Complete
<1>4. ASSUME NEW c \in Counters, DuplicateCounter(c)
      PROVE  Complete'
  BY <1>4 DEF Complete, DuplicateCounter, historyVars, Recorded
<1>5. ASSUME NEW c \in Counters, NewCounter(c)
      PROVE  Complete'
  <2> DEFINE d == c - maximumMessageCounter
             m == maximumMessageCounter
             b == messageCounterBitmap
  <2>1. /\ CalculateDiff(c) = d
        /\ m \in 0 .. MaxCounter
        /\ c \in 0 .. MaxCounter
        /\ d \in Int
        /\ b \subseteq 0 .. WindowSize - 1
    BY <1>5 DEF CalculateDiff, PlainDiff, NewCounter, Complete, TypeOK,
         EncryptedWithoutRollover, EncryptedWithRollover, UnencryptedWithRollover
  <2>2. /\ d # 0
        /\ d >= -WindowSize
        /\ d < 0 => (-d - 1) \notin b
    BY <1>5, <2>1 DEF NewCounter, IsDuplicate, IsCounterKnownInBitmap
  <2>3. /\ messageCounterBitmap' = CalculateMessageCounterBitmap(b, d)
        /\ maximumMessageCounter' = IF d > 0 THEN c ELSE m
    BY <1>5, <2>1, <2>2 DEF NewCounter
  <2>4. /\ accepted' = accepted \cup {c}
        /\ again' = (again \/ c \in accepted)
    BY <1>5 DEF NewCounter, Remember
  <2>5. c \notin accepted
    BY <2>1, <2>2 DEF Complete, Recorded, TypeOK
  <2>6. TypeOK'
    BY TypePreserved
  <2>7. ASSUME NEW a \in accepted'
        PROVE  a <= maximumMessageCounter' /\ Recorded(a)'
    <3>1. a \in 0 .. MaxCounter
      BY <2>6 DEF TypeOK
    <3>2. CASE d < 0
      <4>1. messageCounterBitmap' = b \cup {-d - 1} /\ maximumMessageCounter' = m
        BY <2>1, <2>3, <3>2 DEF CalculateMessageCounterBitmap
      <4>2. CASE a = c
        BY <2>1, <2>2, <3>2, <4>1, <4>2 DEF Recorded
      <4>3. CASE a \in accepted
        BY <4>1, <4>3 DEF Recorded, Complete
      <4>4. QED
        BY <2>4, <4>2, <4>3
    <3>3. CASE d > 0
      <4>1. maximumMessageCounter' = c
        BY <2>3, <3>3
      <4>2. CASE a = c
        BY <2>1, <4>1, <4>2 DEF Recorded
      <4>3. CASE a \in accepted
        <5>1. /\ a <= m
              /\ a = m \/ m - a > WindowSize \/ (m - a - 1) \in b
          BY <4>3 DEF Complete, Recorded
        <5>2. CASE c - a > WindowSize
          BY <2>1, <3>1, <3>3, <4>1, <5>1, <5>2 DEF Recorded
        <5>3. CASE c - a <= WindowSize
          <6>1. d <= WindowSize
            BY <2>1, <3>1, <5>1, <5>3
          <6>2. messageCounterBitmap' = ShiftLeft(b, d) \cup {d - 1}
            BY <2>1, <2>3, <3>3, <6>1 DEF CalculateMessageCounterBitmap
          <6>3. CASE a = m
            BY <4>1, <2>1, <3>3, <6>2, <6>3 DEF Recorded
          <6>4. CASE a # m
            <7>1. d \in 1 .. WindowSize - 1 /\ (m - a - 1) \in b
              BY <2>1, <3>1, <3>3, <5>1, <5>3, <6>4
            <7>2. d % WindowSize = d
              BY <7>1, SmallShift
            <7>3. c - a - 1 = (m - a - 1) + d /\ c - a - 1 \in 0 .. WindowSize - 1
              BY <2>1, <3>1, <5>1, <5>3, <6>4, <7>1
            <7>4. (c - a - 1) \in ShiftLeft(b, d)
              BY <7>1, <7>2, <7>3 DEF ShiftLeft
            <7>5. QED
              BY <2>1, <3>1, <3>3, <4>1, <5>1, <6>2, <7>4 DEF Recorded
          <6>5. QED
            BY <6>3, <6>4
        <5>4. QED
          BY <2>1, <3>1, <5>2, <5>3
      <4>4. QED
        BY <2>4, <4>2, <4>3
    <3>4. QED
      BY <2>1, <2>2, <3>2, <3>3
  <2>8. maximumMessageCounter' # Undefined
    BY <2>1, <2>3
  <2>9. again' = FALSE
    <3>1. ~ again
      BY DEF Complete
    <3>2. QED
      BY ONLY <2>4, <2>5, <3>1, Zenon
  <2>10. QED
    BY <2>7, <2>8, <2>9 DEF Complete
<1>6. QED
  BY <1>1, <1>2, <1>3, <1>4, <1>5 DEF Next, UpdateMessageCounter

-----------------------------------------------------------------------------
(* No false duplicates *)

\* The bitmap stays exact: a move by less than the width shifts every bit to the place of
\* the same counter, and a new counter behind the maximum cannot be older than an unknown one.
LEMMA ExactPreserved ==
  ASSUME mode = EncryptedWithoutRollover, TypeOK, Complete, fullShift \/ Exact, [Next]_vars
  PROVE  (fullShift \/ Exact)'
<1> USE ReceptionAssumption DEF Undefined, Bits, Counters
<1>1. CASE UNCHANGED vars
  BY <1>1 DEF Exact, vars, historyVars, Unknown
<1>2. ASSUME NEW c \in Counters, InvalidCounter(c) \/ DuplicateCounter(c)
      PROVE  (fullShift \/ Exact)'
  BY <1>2 DEF Exact, Unknown, InvalidCounter, DuplicateCounter, historyVars
<1>3. ASSUME NEW c \in Counters, FirstCounter(c)
      PROVE  (fullShift \/ Exact)'
  <2>1. /\ accepted' = {c} /\ c \in 0 .. MaxCounter
        /\ maximumMessageCounter' = c /\ messageCounterBitmap' = Bits
    BY <1>3 DEF FirstCounter, Complete, Remember
  <2>2. QED
    BY <2>1 DEF Exact, Unknown
<1>4. ASSUME NEW c \in Counters, NewCounter(c)
      PROVE  (fullShift \/ Exact)'
  <2> DEFINE m == maximumMessageCounter
             d == c - m
             b == messageCounterBitmap
  <2>1. /\ CalculateDiff(c) = d
        /\ m \in 0 .. MaxCounter /\ c \in 0 .. MaxCounter /\ d \in Int
        /\ b \subseteq Bits
    BY <1>4 DEF CalculateDiff, PlainDiff, NewCounter, TypeOK,
         EncryptedWithoutRollover, EncryptedWithRollover, UnencryptedWithRollover
  <2>2. /\ d # 0 /\ d >= -WindowSize
        /\ d < 0 => (-d - 1) \notin b
    BY <1>4, <2>1 DEF NewCounter, IsDuplicate, IsCounterKnownInBitmap
  <2>3. /\ messageCounterBitmap' = CalculateMessageCounterBitmap(b, d)
        /\ maximumMessageCounter' = IF d > 0 THEN c ELSE m
        /\ accepted' = accepted \cup {c}
        /\ fullShift' = (fullShift \/ d = WindowSize)
    BY <1>4, <2>1, <2>2 DEF NewCounter, Remember
  <2>4. CASE fullShift \/ d = WindowSize
    BY <2>3, <2>4
  <2>5. CASE ~fullShift /\ d # WindowSize
    <3>1. Exact /\ m \in accepted /\ \A a \in accepted : a \in 0 .. m
      BY <2>1, <2>5 DEF Exact, Complete, TypeOK
    <3>2. CASE d < 0
      <4>1. messageCounterBitmap' = b \cup {-d - 1} /\ maximumMessageCounter' = m
        BY <2>1, <2>3, <3>2 DEF CalculateMessageCounterBitmap
      <4>2. -d - 1 \in Bits
        BY <2>1, <2>2, <3>2
      <4>3. ASSUME NEW i \in b, (m - 1 - i) \notin accepted
            PROVE  Unknown(m - 1 - i)' /\ \A j \in Bits : j >= i => j \in b
        <5>1. Unknown(m - 1 - i) /\ \A j \in Bits : j >= i => j \in b
          BY <3>1, <4>3 DEF Exact
        <5>2. m - 1 - i < c
          BY <2>1, <2>2, <3>2, <4>2, <5>1
        <5>3. QED
          BY <2>3, <4>1, <5>1, <5>2 DEF Unknown
      <4>4. m - 1 - (-d - 1) = c
        BY <2>1
      <4>5. QED
        BY <2>3, <3>1, <4>1, <4>3, <4>4 DEF Exact
    <3>3. CASE d > WindowSize
      <4>1. messageCounterBitmap' = {} /\ maximumMessageCounter' = c
        BY <2>1, <2>3, <3>3 DEF CalculateMessageCounterBitmap
      <4>2. QED
        BY <2>3, <4>1 DEF Exact
    <3>4. CASE d \in 1 .. WindowSize - 1
      <4>1. messageCounterBitmap' = ShiftLeft(b, d) \cup {d - 1} /\ maximumMessageCounter' = c
        BY <2>1, <2>3, <3>4 DEF CalculateMessageCounterBitmap
      <4>2. ShiftLeft(b, d) = {i \in Bits : \E j \in b : i = j + d}
        BY <3>4, SmallShift DEF ShiftLeft
      <4>3. ASSUME NEW i \in ShiftLeft(b, d), (c - 1 - i) \notin accepted
            PROVE  /\ \A a \in accepted' : c - 1 - i < a
                   /\ \A k \in Bits : k >= i => k \in ShiftLeft(b, d)
        <5>1. PICK j \in b : i = j + d
          BY <4>2
        <5>2. c - 1 - i = m - 1 - j /\ j \in Bits
          BY <2>1, <5>1
        <5>3. Unknown(m - 1 - j) /\ \A k \in Bits : k >= j => k \in b
          BY <3>1, <4>3, <5>2 DEF Exact
        <5>4. \A a \in accepted' : c - 1 - i < a
          BY <2>1, <2>3, <3>4, <5>2, <5>3 DEF Unknown
        <5>5. ASSUME NEW k \in Bits, k >= i
              PROVE  k \in ShiftLeft(b, d)
          <6>1. k - d \in Bits /\ k - d >= j /\ k = (k - d) + d
            BY <3>4, <5>1, <5>2, <5>5
          <6>2. k - d \in b
            BY <5>3, <6>1
          <6>3. QED
            BY <4>2, <6>1, <6>2
        <5>6. QED
          BY <5>4, <5>5
      <4>4. c - 1 - (d - 1) = m
        BY <2>1
      <4>5. QED
        BY <2>3, <3>1, <4>1, <4>3, <4>4 DEF Exact, Unknown
    <3>5. QED
      BY <2>1, <2>2, <2>5, <3>2, <3>3, <3>4
  <2>6. QED
    BY <2>4, <2>5
<1>5. QED
  BY <1>1, <1>2, <1>3, <1>4 DEF Next, UpdateMessageCounter

-----------------------------------------------------------------------------
(* The circle of the counters *)

LEMMA RemainderOfSmall ==
  ASSUME NEW n \in Nat \ {0}, NEW a \in Int, a >= 0, a < n
  PROVE  a % n = a
BY Z3

LEMMA RemainderOfNegative ==
  ASSUME NEW n \in Nat \ {0}, NEW a \in Int, a < 0, a > -n
  PROVE  a % n = a + n
BY Z3

\* How far one counter is behind another, without a remainder.
LEMMA BehindIs ==
  ASSUME NEW m \in 0 .. MaxCounter, NEW c \in 0 .. MaxCounter
  PROVE  Behind(m, c) = IF c <= m THEN m - c ELSE m - c + MaxCounter + 1
<1> USE ReceptionAssumption
<1>1. MaxCounter + 1 \in Nat \ {0} /\ m - c \in Int
  OBVIOUS
<1>2. CASE c <= m
  <2>1. m - c >= 0 /\ m - c < MaxCounter + 1
    BY <1>2
  <2>2. QED
    BY <1>1, <1>2, <2>1, RemainderOfSmall DEF Behind
<1>3. CASE c > m
  <2>1. m - c < 0 /\ m - c > -(MaxCounter + 1)
    BY <1>3
  <2>2. (m - c) % (MaxCounter + 1) = m - c + (MaxCounter + 1)
    BY <1>1, <2>1, RemainderOfNegative
  <2>3. QED
    BY <1>3, <2>2 DEF Behind
<1>4. QED
  BY <1>2, <1>3

\* calculateDiff of a counter in the window is its distance from the maximum ...
LEMMA DiffInWindow ==
  ASSUME mode \in {EncryptedWithRollover, UnencryptedWithRollover},
         maximumMessageCounter \in 0 .. MaxCounter, NEW c \in 0 .. MaxCounter,
         Behind(maximumMessageCounter, c) \in 1 .. WindowSize
  PROVE  CalculateDiff(c) = -Behind(maximumMessageCounter, c)
<1> DEFINE k == Behind(maximumMessageCounter, c)
<1>1. k = IF c <= maximumMessageCounter THEN maximumMessageCounter - c
          ELSE maximumMessageCounter - c + MaxCounter + 1
  BY BehindIs
<1>2. k \in 1 .. WindowSize
  OBVIOUS
<1> HIDE DEF k
<1>3. CalculateDiff(c) = -k
  BY <1>1, <1>2, ReceptionAssumption, HalfRangeAssumption
     DEF CalculateDiff, DiffEncrypted, DiffUnencrypted, PlainDiff, EncryptedWithRollover,
         UnencryptedWithRollover
<1>4. QED
  BY <1>3 DEF k

\* ... and the other way around.
LEMMA NegativeDiff ==
  ASSUME mode \in {EncryptedWithRollover, UnencryptedWithRollover},
         maximumMessageCounter \in 0 .. MaxCounter, NEW c \in 0 .. MaxCounter,
         CalculateDiff(c) < 0
  PROVE  Behind(maximumMessageCounter, c) = -CalculateDiff(c)
BY BehindIs, ReceptionAssumption, HalfRangeAssumption
   DEF CalculateDiff, DiffEncrypted, DiffUnencrypted, PlainDiff, EncryptedWithRollover,
       UnencryptedWithRollover

\* A new maximum is ahead of the window by its diff, or the window is left behind; the
\* exception is the diff of the unencrypted class after a rollover, which is one too small.
LEMMA PositiveDiff ==
  ASSUME mode \in {EncryptedWithRollover, UnencryptedWithRollover},
         maximumMessageCounter \in 0 .. MaxCounter, NEW c \in 0 .. MaxCounter,
         CalculateDiff(c) > 0,
         mode = UnencryptedWithRollover =>
           ~(c < maximumMessageCounter /\ CalculateDiff(c) \in 0 .. WindowSize),
         NEW x \in 0 .. MaxCounter, Behind(maximumMessageCounter, x) <= WindowSize
  PROVE  \/ Behind(c, x) = Behind(maximumMessageCounter, x) + CalculateDiff(c)
         \/ CalculateDiff(c) > WindowSize /\ Behind(c, x) > WindowSize
<1>1. /\ Behind(c, x) = IF x <= c THEN c - x ELSE c - x + MaxCounter + 1
      /\ Behind(maximumMessageCounter, x) =
           IF x <= maximumMessageCounter THEN maximumMessageCounter - x
           ELSE maximumMessageCounter - x + MaxCounter + 1
  BY BehindIs
<1>2. CASE mode = EncryptedWithRollover
  BY <1>1, <1>2, ReceptionAssumption, HalfRangeAssumption
     DEF CalculateDiff, DiffEncrypted, PlainDiff
<1>3. CASE mode = UnencryptedWithRollover
  BY <1>1, <1>3, ReceptionAssumption, HalfRangeAssumption
     DEF CalculateDiff, DiffUnencrypted, PlainDiff, EncryptedWithRollover, UnencryptedWithRollover
<1>4. QED
  BY <1>2, <1>3

\* Only the maximum itself has no distance, but for the same exception.
LEMMA ZeroDiff ==
  ASSUME mode \in {EncryptedWithRollover, UnencryptedWithRollover},
         maximumMessageCounter \in 0 .. MaxCounter, NEW c \in 0 .. MaxCounter,
         CalculateDiff(c) = 0
  PROVE  \/ c = maximumMessageCounter
         \/ mode = UnencryptedWithRollover /\ c < maximumMessageCounter
BY ReceptionAssumption, HalfRangeAssumption
   DEF CalculateDiff, DiffEncrypted, DiffUnencrypted, PlainDiff, EncryptedWithRollover,
       UnencryptedWithRollover

\* A counter that is still remembered is refused.
LEMMA RecalledIsDuplicate ==
  ASSUME mode \in {EncryptedWithRollover, UnencryptedWithRollover},
         maximumMessageCounter \in 0 .. MaxCounter, NEW c \in 0 .. MaxCounter,
         messageCounterBitmap \subseteq Bits, Recalled(c)
  PROVE  IsDuplicate(c)
<1> DEFINE k == Behind(maximumMessageCounter, c)
<1>1. k = IF c <= maximumMessageCounter THEN maximumMessageCounter - c
          ELSE maximumMessageCounter - c + MaxCounter + 1
  BY BehindIs
<1>2. CASE k = 0
  BY <1>1, <1>2, ReceptionAssumption DEF IsDuplicate
<1>3. CASE k # 0
  <2>1. k \in 1 .. WindowSize /\ (k - 1) \in messageCounterBitmap
    BY <1>1, <1>3, ReceptionAssumption DEF Recalled
  <2>2. CalculateDiff(c) = -k
    BY <2>1, DiffInWindow
  <2>3. -(-k) - 1 = k - 1 /\ -k < 0
    BY <2>1, ReceptionAssumption
  <2>4. QED
    BY <2>1, <2>2, <2>3 DEF IsDuplicate, IsCounterKnownInBitmap
<1>4. QED
  BY <1>2, <1>3

\* The window moves: what is remembered keeps its place.
LEMMA RememberedPreserved ==
  ASSUME TypeOK, mode \in {EncryptedWithRollover, UnencryptedWithRollover},
         DiffIsRight => Remembered, [Next]_vars
  PROVE  (DiffIsRight => Remembered)'
<1> USE ReceptionAssumption DEF Undefined, Bits, Counters
<1>1. CASE UNCHANGED vars
  BY <1>1 DEF DiffIsRight, Remembered, Recalled, vars, historyVars
<1>2. ASSUME NEW c \in Counters, InvalidCounter(c) \/ DuplicateCounter(c)
      PROVE  (DiffIsRight => Remembered)'
  BY <1>2 DEF DiffIsRight, Remembered, Recalled, InvalidCounter, DuplicateCounter, historyVars
<1>3. ASSUME NEW c \in Counters, FirstCounter(c), DiffIsRight'
      PROVE  Remembered'
  <2>1. DiffIsRight /\ seen = {} /\ c \in 0 .. MaxCounter
    BY <1>3 DEF FirstCounter, DiffIsRight, Remembered
  <2>2. seen' \subseteq {c} /\ maximumMessageCounter' = c
    BY <1>3, <2>1 DEF FirstCounter, Remember
  <2>3. Behind(c, c) = 0
    BY <2>1, BehindIs
  <2>4. QED
    BY <2>1, <2>2, <2>3 DEF Remembered, Recalled
<1>4. ASSUME NEW c \in Counters, NewCounter(c), DiffIsRight'
      PROVE  Remembered'
  <2> DEFINE m == maximumMessageCounter
             d == CalculateDiff(c)
             b == messageCounterBitmap
  <2>1. /\ m \in 0 .. MaxCounter /\ c \in 0 .. MaxCounter
        /\ b \subseteq Bits /\ seen \subseteq 0 .. MaxCounter
    BY <1>4 DEF NewCounter, TypeOK
  <2>2. d \in Int
    BY <2>1 DEF CalculateDiff, DiffEncrypted, DiffUnencrypted, PlainDiff
  <2>3. c # m /\ d >= -WindowSize
    BY <1>4, <2>2 DEF NewCounter, IsDuplicate
  <2>4. /\ b' = CalculateMessageCounterBitmap(b, d)
        /\ m' = IF d > 0 THEN c ELSE m
        /\ seen' = {x \in seen \cup {c} : Behind(m', x) <= WindowSize}
    BY <1>4, <2>2, <2>3 DEF NewCounter, Remember
  <2>5. DiffIsRight
    BY <1>4 DEF NewCounter, DiffIsRight
  <2>6. \A x \in seen : Recalled(x)
    BY <2>5 DEF Remembered
  <2>7. mode = UnencryptedWithRollover => ~(c < m /\ d \in 0 .. WindowSize)
    BY <1>4 DEF NewCounter, DiffIsRight, EncryptedWithRollover, UnencryptedWithRollover
  <2>8. ASSUME NEW x \in seen'
        PROVE  Recalled(x)'
    <3>1. x \in 0 .. MaxCounter /\ Behind(m', x) <= WindowSize /\ (x = c \/ x \in seen)
      BY <2>1, <2>4
    <3>2. CASE d < 0
      <4>1. b' = b \cup {-d - 1} /\ m' = m
        BY <2>2, <2>4, <3>2 DEF CalculateMessageCounterBitmap
      <4>2. CASE x = c
        <5>1. Behind(m, c) = -d
          BY <2>1, <3>2, NegativeDiff
        <5>2. QED
          BY <2>2, <3>1, <4>1, <4>2, <5>1 DEF Recalled
      <4>3. CASE x \in seen
        BY <2>6, <4>1, <4>3 DEF Recalled
      <4>4. QED
        BY <3>1, <4>2, <4>3
    <3>3. CASE d > 0
      <4>1. m' = c
        BY <2>4, <3>3
      <4>2. CASE x = c
        <5>1. Behind(c, c) = 0
          BY <2>1, BehindIs
        <5>2. QED
          BY <4>1, <4>2, <5>1 DEF Recalled
      <4>3. CASE x \in seen
        <5> DEFINE k == Behind(m, x)
                   n == Behind(c, x)
        <5>1. k \in 0 .. MaxCounter /\ n \in 0 .. MaxCounter
          BY <2>1, <3>1, BehindIs, SMTT(30)
        <5>2. k = 0 \/ (k <= WindowSize /\ (k - 1) \in b)
          BY <2>6, <4>3 DEF Recalled
        <5>3. k <= WindowSize
          BY <5>2
        <5>4. n = k + d \/ (d > WindowSize /\ n > WindowSize)
          BY <2>1, <2>7, <3>1, <3>3, <5>3, PositiveDiff
        <5>5. n <= WindowSize
          BY <3>1, <4>1
        <5> HIDE DEF k, n, d
        <5>6. n = k + d /\ d <= WindowSize
          BY <2>2, <5>1, <5>4, <5>5
        <5>7. b' = ShiftLeft(b, d) \cup {d - 1}
          BY <2>2, <2>4, <3>3, <5>6 DEF CalculateMessageCounterBitmap
        <5>8. (n - 1) \in b'
          <6>1. CASE k = 0
            BY <2>2, <5>6, <5>7, <6>1
          <6>2. CASE k # 0
            <7>1. d \in 1 .. WindowSize - 1 /\ (k - 1) \in b
              BY <2>2, <3>3, <5>1, <5>2, <5>5, <5>6, <6>2
            <7>2. d % WindowSize = d
              BY <7>1, SmallShift
            <7>3. n - 1 = (k - 1) + d /\ n - 1 \in Bits
              BY <3>3, <5>1, <5>5, <5>6, <6>2, <7>1
            <7>4. (n - 1) \in ShiftLeft(b, d)
              BY <7>1, <7>2, <7>3 DEF ShiftLeft
            <7>5. QED
              BY <5>7, <7>4
          <6>3. QED
            BY <6>1, <6>2
        <5>9. QED
          BY <4>1, <5>5, <5>8 DEF Recalled, n
      <4>4. QED
        BY <3>1, <4>2, <4>3
    <3>4. CASE d = 0
      BY <2>1, <2>3, <2>7, <3>4, ZeroDiff
    <3>5. QED
      BY <2>2, <3>2, <3>3, <3>4
  <2>9. m' # Undefined
    BY <2>1, <2>4
  <2>10. QED
    BY <2>8, <2>9 DEF Remembered
<1>5. QED
  BY <1>1, <1>2, <1>3, <1>4 DEF Next, UpdateMessageCounter

\* Nothing that is remembered is found new.
LEMMA RepeatPreserved ==
  ASSUME Invariant, [Next]_vars
  PROVE  RepeatOnlyAfterRollover'
<1> USE ReceptionAssumption DEF Undefined, Counters
<1>1. TypeOK /\ RepeatOnlyAfterRollover /\ (DiffIsRight => Remembered)
  BY DEF Invariant
<1>2. CASE UNCHANGED vars
  BY <1>1, <1>2 DEF RepeatOnlyAfterRollover, vars, historyVars
<1>3. ASSUME NEW c \in Counters, InvalidCounter(c) \/ DuplicateCounter(c)
      PROVE  RepeatOnlyAfterRollover'
  BY <1>1, <1>3 DEF RepeatOnlyAfterRollover, InvalidCounter, DuplicateCounter, historyVars
<1>4. ASSUME NEW c \in Counters, FirstCounter(c) \/ NewCounter(c)
      PROVE  RepeatOnlyAfterRollover'
  <2>1. /\ c \in 0 .. MaxCounter /\ mode' = mode
        /\ seenAgain' = (seenAgain \/ c \in seen)
    BY <1>4 DEF FirstCounter, NewCounter, Remember
  <2>2. CASE mode = UnencryptedWithRollover /\ rolledOver
    <3>1. rolledOver'
      <4>1. CASE FirstCounter(c)
        BY <2>2, <4>1 DEF FirstCounter
      <4>2. CASE NewCounter(c)
        BY ONLY <2>2, <4>2, Zenon DEF NewCounter
      <4>3. QED
        BY <1>4, <4>1, <4>2
    <3>2. QED
      BY <2>1, <2>2, <3>1 DEF RepeatOnlyAfterRollover
  <2>3. CASE mode = EncryptedWithoutRollover
    <3>1. Complete
      BY <2>3 DEF Invariant
    <3>2. Complete'
      BY <1>1, <2>3, <3>1, CompletePreserved
    <3>3. again' = (again \/ c \in accepted)
      BY <1>4 DEF FirstCounter, NewCounter, Remember
    <3>4. c \notin seen
      BY <1>1, <3>2, <3>3 DEF Complete, TypeOK
    <3>5. ~seenAgain
      BY <1>1, <2>3 DEF RepeatOnlyAfterRollover, EncryptedWithoutRollover, UnencryptedWithRollover
    <3>6. QED
      BY <2>1, <3>4, <3>5 DEF RepeatOnlyAfterRollover
  <2>4. CASE DiffIsRight
    <3>1. c \notin seen
      <4>1. CASE FirstCounter(c)
        BY <1>1, <2>4, <4>1 DEF FirstCounter, Remembered
      <4>2. CASE NewCounter(c)
        <5>1. maximumMessageCounter \in 0 .. MaxCounter /\ ~IsDuplicate(c)
          BY <1>1, <4>2 DEF NewCounter, TypeOK
        <5>2. ~Recalled(c)
          BY <1>1, <2>1, <2>4, <5>1, RecalledIsDuplicate DEF DiffIsRight, TypeOK
        <5>3. QED
          BY <1>1, <2>4, <5>2 DEF Remembered
      <4>3. QED
        BY <1>4, <4>1, <4>2
    <3>2. ~seenAgain
      BY <1>1, <2>4 DEF RepeatOnlyAfterRollover, DiffIsRight, EncryptedWithRollover,
                        UnencryptedWithRollover
    <3>3. QED
      BY <2>1, <3>1, <3>2 DEF RepeatOnlyAfterRollover
  <2>5. QED
    BY <1>1, <2>2, <2>3, <2>4 DEF DiffIsRight, TypeOK
<1>5. QED
  BY <1>2, <1>3, <1>4 DEF Next, UpdateMessageCounter

\* The inductive invariant holds of an object of any class.
THEOREM InvariantHolds == Spec => []Invariant
<1>1. ASSUME Invariant, [Next]_vars
      PROVE  Invariant'
  <2>1. mode' = mode
    BY <1>1 DEF Next, UpdateMessageCounter, InvalidCounter, FirstCounter, DuplicateCounter,
         NewCounter, vars
  <2>2. TypeOK'
    BY <1>1, TypePreserved DEF Invariant
  <2>3. (mode = EncryptedWithoutRollover => Complete /\ (fullShift \/ Exact))'
    BY <1>1, <2>1, CompletePreserved, ExactPreserved DEF Invariant
  <2>4. (DiffIsRight => Remembered)'
    <3>1. CASE mode = EncryptedWithoutRollover
      BY <2>1, <3>1 DEF DiffIsRight, EncryptedWithoutRollover, EncryptedWithRollover,
                        UnencryptedWithRollover
    <3>2. CASE mode \in {EncryptedWithRollover, UnencryptedWithRollover}
      BY <1>1, <3>2, RememberedPreserved DEF Invariant
    <3>3. QED
      BY <1>1, <3>1, <3>2, ReceptionAssumption DEF Invariant, TypeOK
  <2>5. RepeatOnlyAfterRollover'
    BY <1>1, RepeatPreserved
  <2>6. QED
    BY <2>2, <2>3, <2>4, <2>5 DEF Invariant
<1>2. QED
  BY <1>1, InitEstablishes, PTL DEF Spec

\* The fields keep their types in all classes, and the bitmap its width: no call of
\* updateMessageCounter reaches a bit that is not there.
THEOREM TypeCorrect == Spec => []TypeOK
<1>1. Invariant => TypeOK
  BY DEF Invariant
<1>2. QED
  BY <1>1, InvariantHolds, PTL

\* No message counter is processed twice by a secure session, for any window size,
\* any maximum and any order of delivery
\* (MessageReceptionStateEncryptedWithoutRollover.updateMessageCounter).
THEOREM ProcessedOnce == Spec => []NoReplay
<1>1. Invariant => NoReplay
  BY DEF Invariant, Complete, NoReplay
<1>2. QED
  BY <1>1, InvariantHolds, PTL

\* Of all classes only the unencrypted one finds a counter new that is still in its window,
\* and only once its counter has gone over the limit.
THEOREM RepeatsExplained == Spec => []RepeatOnlyAfterRollover
<1>1. Invariant => RepeatOnlyAfterRollover
  BY DEF Invariant
<1>2. QED
  BY <1>1, InvariantHolds, PTL

\* Without rollover no new counter of the window is refused, but for counters older than all
\* that were received, and after an advance by exactly the width of the bitmap.
THEOREM FalseDuplicatesExplained == Spec => []FalseDuplicateOnlyAfterFullShift
<1>1. Invariant => FalseDuplicateOnlyAfterFullShift
  <2> SUFFICES ASSUME Invariant, mode = EncryptedWithoutRollover, ~fullShift,
                      NEW c \in TakenAsReceived
               PROVE  c \in accepted \/ Unknown(c)
    BY DEF FalseDuplicateOnlyAfterFullShift
  <2> DEFINE m == maximumMessageCounter
  <2>1. Exact /\ m \in {Undefined} \cup (0 .. MaxCounter)
    BY DEF Invariant, TypeOK
  <2>2. c \in 0 .. m /\ (c = m \/ (m - 1 - c) \in messageCounterBitmap)
    BY DEF TakenAsReceived
  <2>3. m # Undefined /\ m \in Nat
    BY <2>1, <2>2, ReceptionAssumption DEF Undefined
  <2>4. m - 1 - (m - 1 - c) = c
    BY <2>2, <2>3
  <2>5. QED
    BY <2>1, <2>2, <2>3, <2>4 DEF Exact
<1>2. QED
  BY <1>1, InvariantHolds, PTL

=============================================================================
