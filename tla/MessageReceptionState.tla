------------------------ MODULE MessageReceptionState ------------------------
(***************************************************************************)
(* The duplicate detection of a session                                    *)
(* (packages/matter.js/src/protocol/MessageReceptionState.ts).             *)
(*                                                                         *)
(* One object per session tracks the highest message counter received and  *)
(* a bitmap of the WindowSize counters below it.  The bitmap is modelled   *)
(* as the set of the positions of its one bits: position i stands for the  *)
(* counter maximumMessageCounter - 1 - i.  The network delivers counters   *)
(* in any order and any number of times, so the environment calls          *)
(* updateMessageCounter with any 32 bit value at any time.                 *)
(*                                                                         *)
(* mode is the class of the object: the base class is used by              *)
(* SecureSession, the unencrypted one by InsecureSession.                  *)
(***************************************************************************)
EXTENDS Integers

CONSTANTS
  WindowSize,    \* MSG_COUNTER_WINDOW_SIZE, 32 in the code
  MaxCounter,    \* MAX_COUNTER_VALUE_32BIT, 2^32 - 2 in the code
  HalfRange,     \* MAX_COUNTER_INCREASE_2POW31, 2^31 in the code
  Modes          \* the classes under consideration

EncryptedWithoutRollover == "EncryptedWithoutRollover"
EncryptedWithRollover    == "EncryptedWithRollover"
UnencryptedWithRollover  == "UnencryptedWithRollover"

ASSUME ReceptionAssumption ==
  /\ WindowSize \in Nat \ {0}
  /\ MaxCounter \in Nat
  /\ HalfRange \in Nat
  /\ Modes \subseteq {EncryptedWithoutRollover, EncryptedWithRollover, UnencryptedWithRollover}

\* The window fits into either half of the circle of the counters.
ASSUME HalfRangeAssumption ==
  /\ WindowSize <= HalfRange
  /\ WindowSize + HalfRange <= MaxCounter + 1

VARIABLES
  mode,                   \* the subclass of MessageReceptionState
  maximumMessageCounter,  \* undefined until the first message
  messageCounterBitmap,   \* the positions of the bits that are one
  outcome,                \* the last call: its argument and how it ended
  accepted,               \* history: every counter that was found new
  seen,                   \* history: those that never left the window since
  again,                  \* history: some counter was found new a second time
  seenAgain,              \* history: one was found new while still in seen
  fullShift,              \* history: the maximum once moved by exactly WindowSize
  rolledOver              \* history: a small counter once followed a large one

historyVars == <<accepted, seen, again, seenAgain, fullShift, rolledOver>>
vars == <<mode, maximumMessageCounter, messageCounterBitmap, outcome, historyVars>>

Undefined == -1
Bits      == 0 .. WindowSize - 1

\* What a 32 bit packet header can carry: one value more than MaxCounter.
Counters  == 0 .. MaxCounter + 1

\* The ways a call ends: normally, by DuplicateMessageError, by InternalError.
Results   == {"none", "new", "duplicate", "error"}

\* Types of the fields; the maximum is never a counter the check on entry refuses.
TypeOK ==
  /\ mode \in Modes
  /\ maximumMessageCounter \in {Undefined} \cup (0 .. MaxCounter)
  /\ messageCounterBitmap \subseteq Bits
  /\ outcome \in [counter : {Undefined} \cup Counters, result : Results]
  /\ accepted \subseteq 0 .. MaxCounter
  /\ seen \subseteq accepted
  /\ again \in BOOLEAN
  /\ seenAgain \in BOOLEAN
  /\ fullShift \in BOOLEAN
  /\ rolledOver \in BOOLEAN

Init ==
  /\ mode \in Modes
  /\ maximumMessageCounter = Undefined
  /\ messageCounterBitmap = Bits
  /\ outcome = [counter |-> Undefined, result |-> "none"]
  /\ accepted = {}
  /\ seen = {}
  /\ again = FALSE
  /\ seenAgain = FALSE
  /\ fullShift = FALSE
  /\ rolledOver = FALSE

-----------------------------------------------------------------------------
(* calculateDiff of the three classes *)

PlainDiff(c) == c - maximumMessageCounter

\* Mutant: the circle of the counters is taken one too short.
DiffEncrypted_OffByOne(c) ==
  LET diff == PlainDiff(c)
  IN  IF diff >= HalfRange THEN diff - MaxCounter
      ELSE IF diff < -HalfRange THEN diff + MaxCounter
      ELSE diff

DiffEncrypted(c) ==
  LET diff == PlainDiff(c)
  IN  IF diff >= HalfRange THEN diff - MaxCounter - 1
      ELSE IF diff < -HalfRange THEN diff + MaxCounter + 1
      ELSE diff

DiffUnencrypted(c) ==
  LET diff == PlainDiff(c)
  IN  IF diff > 0 /\ MaxCounter - diff < WindowSize THEN diff - MaxCounter - 1
      ELSE IF diff < -WindowSize THEN MaxCounter + diff
      ELSE diff

CalculateDiff(c) ==
  IF mode = EncryptedWithRollover THEN DiffEncrypted(c)
  ELSE IF mode = UnencryptedWithRollover THEN DiffUnencrypted(c)
  ELSE PlainDiff(c)

-----------------------------------------------------------------------------
(* The bitmap *)

\* bitmap << diff on 32 bits: the language takes the shift count modulo the
\* width of the word, so a shift by the full width moves nothing.
ShiftLeft(bitmap, diff) ==
  {i \in Bits : \E j \in bitmap : i = j + (diff % WindowSize)}

\* Mutant: the bit of the previous maximum is forgotten when the window moves.
CalculateMessageCounterBitmap_NoMax(bitmap, diff) ==
  IF diff < 0 THEN bitmap \cup {-diff - 1}
  ELSE IF diff > 0 /\ diff <= WindowSize THEN ShiftLeft(bitmap, diff)
  ELSE IF diff > WindowSize THEN {}
  ELSE bitmap

\* Mutant: a jump beyond the window keeps the old bits.
CalculateMessageCounterBitmap_Stale(bitmap, diff) ==
  IF diff < 0 THEN bitmap \cup {-diff - 1}
  ELSE IF diff > 0 /\ diff <= WindowSize THEN ShiftLeft(bitmap, diff) \cup {diff - 1}
  ELSE bitmap

\* Mutant: the bit position is taken one too high.
CalculateMessageCounterBitmap_OffByOne(bitmap, diff) ==
  IF diff < 0 THEN bitmap \cup {-diff}
  ELSE IF diff > 0 /\ diff <= WindowSize THEN ShiftLeft(bitmap, diff) \cup {diff}
  ELSE IF diff > WindowSize THEN {}
  ELSE bitmap

CalculateMessageCounterBitmap(bitmap, diff) ==
  IF diff < 0 THEN bitmap \cup {-diff - 1}
  ELSE IF diff > 0 /\ diff <= WindowSize THEN ShiftLeft(bitmap, diff) \cup {diff - 1}
  ELSE IF diff > WindowSize THEN {}
  ELSE bitmap

IsCounterKnownInBitmap(diff) == (-diff - 1) \in messageCounterBitmap

-----------------------------------------------------------------------------
(* updateMessageCounter, one action per way it ends *)

Ends(c, result) == outcome' = [counter |-> c, result |-> result]

\* How far the counter c is behind m on the circle of the counters.
Behind(m, c) == (m - c) % (MaxCounter + 1)

\* History: what a receiver must still remember once its maximum is m.
Remember(m, c) ==
  /\ accepted' = accepted \cup {c}
  /\ seen' = {x \in seen \cup {c} : Behind(m, x) <= WindowSize}
  /\ again' = (again \/ c \in accepted)
  /\ seenAgain' = (seenAgain \/ c \in seen)

InvalidCounter(c) ==
  /\ c > MaxCounter
  /\ Ends(c, "error")
  /\ UNCHANGED <<mode, maximumMessageCounter, messageCounterBitmap, historyVars>>

FirstCounter(c) ==
  /\ c <= MaxCounter
  /\ maximumMessageCounter = Undefined
  /\ maximumMessageCounter' = c
  /\ messageCounterBitmap' = Bits
  /\ Ends(c, "new")
  /\ Remember(c, c)
  /\ UNCHANGED <<mode, fullShift, rolledOver>>

IsDuplicate(c) ==
  LET diff == CalculateDiff(c)
  IN  \/ c = maximumMessageCounter
      \/ diff < -WindowSize
      \/ diff < 0 /\ IsCounterKnownInBitmap(diff)

DuplicateCounter(c) ==
  /\ c <= MaxCounter
  /\ maximumMessageCounter # Undefined
  /\ IsDuplicate(c)
  /\ Ends(c, "duplicate")
  /\ UNCHANGED <<mode, maximumMessageCounter, messageCounterBitmap, historyVars>>

NewCounter(c) ==
  LET diff == CalculateDiff(c)
  IN  /\ c <= MaxCounter
      /\ maximumMessageCounter # Undefined
      /\ ~ IsDuplicate(c)
      /\ messageCounterBitmap' = CalculateMessageCounterBitmap(messageCounterBitmap, diff)
      /\ maximumMessageCounter' = IF diff > 0 \/ diff < -WindowSize THEN c ELSE maximumMessageCounter
      /\ Ends(c, "new")
      /\ Remember(maximumMessageCounter', c)
      /\ fullShift' = (fullShift \/ diff = WindowSize)
      /\ rolledOver' = (rolledOver \/ (c < maximumMessageCounter /\ diff \in 0 .. WindowSize))
      /\ UNCHANGED mode

UpdateMessageCounter(c) ==
  \/ InvalidCounter(c)
  \/ FirstCounter(c)
  \/ DuplicateCounter(c)
  \/ NewCounter(c)

Next == \E c \in Counters : UpdateMessageCounter(c)

Spec == Init /\ [][Next]_vars

-----------------------------------------------------------------------------
(* Properties *)

\* A counter that a secure session has processed is never processed again,
\* in whatever order and however often the network delivers it
\* (updateMessageCounter without rollover).
NoReplay == mode = EncryptedWithoutRollover => ~ again

\* The claim of the class comments, that a counter which was received and has not
\* left the window since is not processed again, as far as it holds in all classes:
\* only the unencrypted class does it, once its counter went over the limit
\* (calculateDiff of MessageReceptionStateUnencryptedWithRollover); reboots of the
\* peer, which move the window back, do no harm.
RepeatOnlyAfterRollover == seenAgain => mode = UnencryptedWithRollover /\ rolledOver

\* The counters at or below the maximum that the receiver would call duplicates.
TakenAsReceived ==
  {c \in 0 .. maximumMessageCounter :
     \/ c = maximumMessageCounter
     \/ (maximumMessageCounter - 1 - c) \in messageCounterBitmap}

\* The counters that the window of the very first message hides on purpose.
\* (All bits are set to 1 in initialize.)
Unknown(c) == \A a \in accepted : c < a

\* In the window of a secure session a counter is taken for a duplicate only if it
\* was received, or is older than all that was received, or the maximum once
\* advanced by exactly the width of the bitmap: bitmap << 32 in
\* calculateMessageCounterBitmap shifts by nothing.
FalseDuplicateOnlyAfterFullShift ==
  mode = EncryptedWithoutRollover =>
    fullShift \/ \A c \in TakenAsReceived : c \in accepted \/ Unknown(c)

=============================================================================
