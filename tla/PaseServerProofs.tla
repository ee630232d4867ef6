-------------------------- MODULE PaseServerProofs --------------------------
(***************************************************************************)
(* Proofs about PaseServer, for any set of commissioners and any limit of  *)
(* errors.  Sessions are created one at a time because an attempt that is  *)
(* not exposed is the one that the timer of the window's server watches,   *)
(* and it was admitted when no session was open.                           *)
(***************************************************************************)
EXTENDS PaseServer, FiniteSetTheorems, TLAPS

\* An attempt that may create a session and is not exposed is watched by the server of
\* the window, and the sessions open beside it are those of exposed attempts.
Guarded ==
  /\ \A p \in Peer : Pairing(p) /\ p \notin exposed => /\ attempt[p].server = current
                                                     /\ pairingTimer[current] = p
                                                     /\ sessions \subseteq exposed
  /\ \A p, q \in sessions \ exposed : p = q

\* The inductive invariant.
PaseInv == TypeOK /\ TimerWatchesItsAttempt /\ ErrorsEndTheWindow /\ Guarded

-----------------------------------------------------------------------------

LEMMA Records ==
  /\ \A i \in Server : [stage |-> "response", server |-> i] \in Attempt
  /\ \A i \in Server : [stage |-> "failing", server |-> i] \in Attempt
  /\ \A a \in Attempt, t \in {"pake1", "pake2", "pake3", "creating", "finishing", "hung"} :
        [a EXCEPT !.stage = t] \in Attempt
BY DEF Attempt, Sending, Reading

LEMMA IdleIsApart == Idle \notin Attempt /\ Idle.stage = "idle" /\ Idle.server = 0 /\ 0 \notin Server
BY PaseAssumption DEF Idle, Attempt, Server

\* An attempt that is not idle names a server.
LEMMA Busied ==
  ASSUME TypeOK, NEW p \in Peer, attempt[p].stage # "idle"
  PROVE  attempt[p] \in Attempt /\ attempt[p].server \in Server
BY IdleIsApart DEF TypeOK, Attempt

\* No timer watches a peer that is free for another attempt.
LEMMA FreeIsUnwatched ==
  ASSUME TypeOK, TimerWatchesItsAttempt, NEW p \in Peer, Free(p)
  PROVE  /\ \A j \in Server : pairingTimer[j] # p
         /\ ~Pairing(p)
         /\ attempt[p].stage # "failing"
<1> USE PaseAssumption DEF PaseAssumption
<1>1. CASE attempt[p] = Idle
  BY <1>1, IdleIsApart DEF TimerWatchesItsAttempt, Pairing
<1>2. CASE attempt[p].stage = "hung" /\ \A i \in Server : pairingTimer[i] # p
  BY <1>2 DEF Pairing
<1>3. QED
  BY <1>1, <1>2 DEF Free

LEMMA PaseInit == Init => PaseInv
<1> SUFFICES ASSUME Init PROVE PaseInv
  OBVIOUS
<1> USE PaseAssumption DEF PaseAssumption
<1>1. unreported \in [Server -> BOOLEAN]
  BY Zenon DEF Init
<1>2. TypeOK
  BY <1>1 DEF Init, TypeOK, Server
<1>3. TimerWatchesItsAttempt
  BY DEF Init, TimerWatchesItsAttempt
<1>4. ErrorsEndTheWindow
  BY DEF Init, ErrorsEndTheWindow, Server
<1>5. Guarded
  BY DEF Init, Guarded, Pairing, Idle
<1>6. QED
  BY <1>2, <1>3, <1>4, <1>5 DEF PaseInv

\* The history variables keep their types.
LEMMA HistoryType ==
  TypeOK /\ [Next]_vars => exposed' \subseteq Peer /\ unreported' \in [Server -> BOOLEAN]
<1> SUFFICES ASSUME TypeOK, [Next]_vars
             PROVE  exposed' \subseteq Peer /\ unreported' \in [Server -> BOOLEAN]
  OBVIOUS
<1>1. ASSUME Expose PROVE exposed' \subseteq Peer
  BY <1>1 DEF Expose, TypeOK
<1>2. exposed' \subseteq Peer
  <2>1. Expose \/ exposed' = exposed \/ \E p \in Peer : exposed' = exposed \ {p}
    BY DEF Next, vars, OpenWindow, WindowEnds, Admit, Refuse, Proceed, Created, Finish, Fail,
          ReadTimesOut, SendFails, FailEnds, ReportLost, Hang, SessionCloses, TimerFires,
          Catch, SkipCheck
  <2>2. QED
    BY <1>1, <2>1 DEF TypeOK
<1>3. ASSUME NEW i, NEW b \in BOOLEAN, unreported' = [unreported EXCEPT ![i] = b]
      PROVE  unreported' \in [Server -> BOOLEAN]
  BY <1>3, Zenon DEF TypeOK
<1>4. ASSUME NEW p \in Peer, NEW i, SkipCheck(p, i)
      PROVE  unreported' \in [Server -> BOOLEAN]
  <2>1. \/ UNCHANGED unreported
        \/ unreported' = [unreported EXCEPT ![i] = pairingErrors'[i] >= MaxErrors]
        \/ unreported' = [unreported EXCEPT ![i] = TRUE]
    BY <1>4 DEF SkipCheck, TypeOK
  <2>2. (pairingErrors'[i] >= MaxErrors) \in BOOLEAN
    OBVIOUS
  <2>3. QED
    BY <1>3, <2>1, <2>2 DEF TypeOK
<1>5. ASSUME NEW p \in Peer, Hang(p)
      PROVE  unreported' \in [Server -> BOOLEAN]
  BY <1>5, Zenon DEF Hang, TypeOK
<1>6. ASSUME UNCHANGED unreported PROVE unreported' \in [Server -> BOOLEAN]
  BY <1>6 DEF TypeOK
<1>7. \/ UNCHANGED unreported
      \/ \E i \in Server : unreported' = [unreported EXCEPT ![i] = FALSE]
      \/ \E p \in Peer : FailEnds(p) \/ SendFails(p) \/ ReportLost(p) \/ Hang(p)
  BY DEF Next, vars, OpenWindow, WindowEnds, Admit, Refuse, Proceed, Created, Finish, Fail,
        ReadTimesOut, SessionCloses, TimerFires, Catch
<1>8. QED
  BY <1>2, <1>3, <1>4, <1>5, <1>6, <1>7 DEF FailEnds, SendFails, ReportLost

LEMMA PaseType == TypeOK /\ TimerWatchesItsAttempt /\ [Next]_vars => TypeOK'
<1> SUFFICES ASSUME TypeOK, TimerWatchesItsAttempt, [Next]_vars PROVE TypeOK'
  OBVIOUS
<1> USE PaseAssumption DEF PaseAssumption
<1>1. /\ exposed' \subseteq Peer /\ unreported' \in [Server -> BOOLEAN]
      /\ hasFabrics' \in BOOLEAN
  <2>1. hasFabrics' = hasFabrics
    BY DEF Next, vars, OpenWindow, WindowEnds, Admit, Refuse, Proceed, Created, Finish, Fail,
          ReadTimesOut, SendFails, FailEnds, ReportLost, Hang, SessionCloses, TimerFires,
          Catch, SkipCheck
  <2>2. QED
    BY <2>1, HistoryType, Zenon DEF TypeOK
<1>2. ASSUME NEW m \in {"basic", "enhanced"}, NEW i \in Server, OpenWindow(m, i) PROVE TypeOK'
  BY <1>1, <1>2 DEF OpenWindow, TypeOK, Server
<1>3. CASE WindowEnds
  BY <1>1, <1>3 DEF WindowEnds, EndCommissioning, TypeOK
<1>4. ASSUME NEW p \in Peer, Admit(p) PROVE TypeOK'
  <2>1. current \in Server
    BY <1>4 DEF Admit, TypeOK, Server
  <2>2. QED
    BY <1>1, <1>4, <2>1, Records DEF Admit, TypeOK
<1>5. ASSUME NEW i \in Server, CountError(i)
      PROVE  /\ pairingErrors' \in [Server -> 0 .. MaxErrors]
             /\ pairingTimer' \in [Server -> Peer \cup {NoPeer}]
  BY <1>5 DEF CountError, TypeOK
<1>6. ASSUME NEW p \in Peer, NEW i \in Server, Catch(p, i) PROVE TypeOK'
  <2>1. attempt' \in [Peer -> {Idle} \cup Attempt]
    BY <1>6, Records DEF Catch, TypeOK
  <2>2. QED
    BY <1>1, <1>5, <1>6, <2>1 DEF Catch, TypeOK
<1>7. ASSUME NEW p \in Peer, Refuse(p) PROVE TypeOK'
  <2>1. current \in Server /\ Catch(p, current)
    BY <1>7 DEF Refuse, TypeOK, Server
  <2>2. QED
    BY <1>6, <2>1
<1>8. ASSUME NEW p \in Peer, Proceed(p) \/ Created(p) \/ Hang(p) PROVE TypeOK'
  <2>1. attempt[p] \in Attempt
    BY <1>8, Busied DEF Proceed, Created, Hang, Pairing, Sending
  <2>2. PICK t \in {"pake1", "pake2", "pake3", "creating", "finishing", "hung"} :
             attempt' = [attempt EXCEPT ![p].stage = t]
    BY <1>8 DEF Proceed, Created, Hang, TypeOK
  <2>3. attempt' \in [Peer -> {Idle} \cup Attempt]
    BY <2>1, <2>2, Records DEF TypeOK
  <2>4. sessions' \subseteq Peer /\ UNCHANGED <<current, mode, pairingTimer, pairingErrors>>
    BY <1>8 DEF Proceed, Created, Hang, TypeOK
  <2>5. QED
    BY <1>1, <2>3, <2>4 DEF TypeOK
<1>9. ASSUME NEW p \in Peer, Finish(p) PROVE TypeOK'
  BY <1>1, <1>9 DEF Finish, TypeOK
<1>10. ASSUME NEW p \in Peer, Fail(p) \/ ReadTimesOut(p) PROVE TypeOK'
  <2>1. attempt[p].server \in Server /\ Catch(p, attempt[p].server)
    BY <1>10, Busied DEF Fail, ReadTimesOut, Reading
  <2>2. QED
    BY <1>6, <2>1
<1>11. ASSUME NEW p \in Peer, SendFails(p) PROVE TypeOK'
  <2>1. attempt[p].server \in Server
    BY <1>11, Busied DEF SendFails, Sending
  <2>2. QED
    BY <1>1, <1>5, <1>11, <2>1 DEF SendFails, SkipCheck, TypeOK
<1>12. ASSUME NEW p \in Peer, ReportLost(p) PROVE TypeOK'
  BY <1>1, <1>12 DEF ReportLost, SkipCheck, TypeOK
<1>13. ASSUME NEW p \in Peer, FailEnds(p) PROVE TypeOK'
  BY <1>1, <1>13 DEF FailEnds, EndCommissioning, TypeOK
<1>14. ASSUME NEW p \in Peer, SessionCloses(p) PROVE TypeOK'
  BY <1>1, <1>14 DEF SessionCloses, TypeOK
<1>15. ASSUME NEW i \in Server, TimerFires(i) PROVE TypeOK'
  BY <1>1, <1>15 DEF TimerFires, TypeOK
<1>16. CASE UNCHANGED vars
  BY <1>1, <1>16 DEF vars, TypeOK
<1>17. QED
  BY <1>2, <1>3, <1>4, <1>7, <1>8, <1>9, <1>10, <1>11, <1>12, <1>13, <1>14, <1>15, <1>16 DEF Next

\* A step that ends the attempt of p, or moves it to the catch, leaves the timers to the
\* others: p is watched by no timer that is left.
LEMMA OthersKeepTimers ==
  ASSUME TypeOK, TimerWatchesItsAttempt, NEW p \in Peer,
         \A q \in Peer : q # p => attempt'[q] = attempt[q],
         \A j \in Server : /\ pairingTimer'[j] \in {NoPeer, pairingTimer[j]}
                          /\ pairingTimer'[j] # p
  PROVE  TimerWatchesItsAttempt'
<1> SUFFICES ASSUME NEW j \in Server, pairingTimer'[j] # NoPeer
             PROVE  /\ attempt'[pairingTimer'[j]].server = j
                    /\ attempt'[pairingTimer'[j]].stage
                         \in {"response", "pake1", "pake2", "pake3", "creating", "finishing", "hung"}
  BY DEF TimerWatchesItsAttempt, Pairing
<1>1. pairingTimer'[j] = pairingTimer[j] /\ pairingTimer[j] \in Peer /\ pairingTimer[j] # p
  BY DEF TypeOK
<1>2. attempt'[pairingTimer[j]] = attempt[pairingTimer[j]]
  BY <1>1
<1>3. QED
  BY <1>1, <1>2 DEF TimerWatchesItsAttempt, Pairing

\* The timers of an attempt's server when it is stopped: no other server watches it.
LEMMA StoppedTimers ==
  ASSUME TypeOK, TimerWatchesItsAttempt, NEW p \in Peer, NEW i \in Server,
         Free(p) \/ attempt[p].server = i,
         pairingTimer' = [pairingTimer EXCEPT ![i] = NoPeer]
  PROVE  \A j \in Server : /\ pairingTimer'[j] \in {NoPeer, pairingTimer[j]}
                          /\ pairingTimer'[j] # p
<1> USE PaseAssumption DEF PaseAssumption
<1>1. CASE Free(p)
  BY <1>1, FreeIsUnwatched DEF TypeOK
<1>2. CASE attempt[p].server = i
  BY <1>2 DEF TypeOK, TimerWatchesItsAttempt
<1>3. QED
  BY <1>1, <1>2

LEMMA PaseTimers == TypeOK /\ TimerWatchesItsAttempt /\ [Next]_vars => TimerWatchesItsAttempt'
<1> SUFFICES ASSUME TypeOK, TimerWatchesItsAttempt, [Next]_vars PROVE TimerWatchesItsAttempt'
  OBVIOUS
<1> USE PaseAssumption DEF PaseAssumption
<1>1. ASSUME UNCHANGED <<pairingTimer, attempt>> PROVE TimerWatchesItsAttempt'
  BY <1>1 DEF TimerWatchesItsAttempt, Pairing
<1>2. ASSUME NEW m \in {"basic", "enhanced"}, NEW i \in Server, OpenWindow(m, i)
      PROVE  UNCHANGED <<pairingTimer, attempt>>
  BY <1>2 DEF OpenWindow
<1>3. ASSUME WindowEnds \/ (\E p \in Peer : SessionCloses(p)) \/ UNCHANGED vars
      PROVE  UNCHANGED <<pairingTimer, attempt>>
  BY <1>3 DEF WindowEnds, SessionCloses, vars
<1>4. ASSUME NEW p \in Peer, Admit(p) PROVE TimerWatchesItsAttempt'
  <2>1. current \in Server
    BY <1>4 DEF Admit, Server, TypeOK
  <2>2. \A j \in Server : pairingTimer[j] # p
    BY <1>4, FreeIsUnwatched DEF Admit
  <2>3. QED
    BY <1>4, <2>1, <2>2 DEF Admit, TimerWatchesItsAttempt, Pairing, TypeOK
<1>5. ASSUME NEW p \in Peer, NEW i \in Server, Catch(p, i), Free(p) \/ attempt[p].server = i
      PROVE  TimerWatchesItsAttempt'
  <2>1. \A q \in Peer : q # p => attempt'[q] = attempt[q]
    BY <1>5 DEF Catch, TypeOK
  <2>2. pairingTimer' = [pairingTimer EXCEPT ![i] = NoPeer]
    BY <1>5 DEF Catch, CountError
  <2>3. QED
    BY <1>5, <2>1, <2>2, StoppedTimers, OthersKeepTimers
<1>6. ASSUME NEW p \in Peer, Refuse(p) PROVE TimerWatchesItsAttempt'
  <2>1. current \in Server /\ Catch(p, current) /\ Free(p)
    BY <1>6 DEF Refuse, Server, TypeOK
  <2>2. QED
    BY <1>5, <2>1
<1>7. ASSUME NEW p \in Peer, Fail(p) \/ ReadTimesOut(p) PROVE TimerWatchesItsAttempt'
  <2>1. attempt[p].server \in Server /\ Catch(p, attempt[p].server)
    BY <1>7, Busied DEF Fail, ReadTimesOut, Reading
  <2>2. QED
    BY <1>5, <2>1
<1>8. ASSUME NEW p \in Peer, Finish(p) \/ SendFails(p) PROVE TimerWatchesItsAttempt'
  <2>1. attempt[p].server \in Server
    BY <1>8, Busied DEF Finish, SendFails, Sending
  <2>2. \A q \in Peer : q # p => attempt'[q] = attempt[q]
    BY <1>8 DEF Finish, SendFails, SkipCheck, TypeOK
  <2>3. pairingTimer' = [pairingTimer EXCEPT ![attempt[p].server] = NoPeer]
    BY <1>8 DEF Finish, SendFails, CountError
  <2>4. QED
    BY <2>1, <2>2, <2>3, StoppedTimers, OthersKeepTimers
<1>9. ASSUME NEW p \in Peer, Proceed(p) \/ Created(p) \/ Hang(p) PROVE TimerWatchesItsAttempt'
  <2>1. attempt[p] \in Attempt
    BY <1>9, Busied DEF Proceed, Created, Hang, Pairing, Sending
  <2>2. PICK t \in {"pake1", "pake2", "pake3", "creating", "finishing", "hung"} :
             attempt' = [attempt EXCEPT ![p].stage = t]
    BY <1>9 DEF Proceed, Created, Hang, TypeOK
  <2>3. /\ pairingTimer' = pairingTimer
        /\ \A q \in Peer : attempt'[q].server = attempt[q].server
        /\ \A q \in Peer : q # p => attempt'[q] = attempt[q]
        /\ attempt'[p].stage \in {"pake1", "pake2", "pake3", "creating", "finishing", "hung"}
    BY <1>9, <2>1, <2>2 DEF Proceed, Created, Hang, Attempt, TypeOK
  <2>4. QED
    BY <2>3 DEF TimerWatchesItsAttempt, Pairing, TypeOK
<1>10. ASSUME NEW p \in Peer, FailEnds(p) \/ ReportLost(p) PROVE TimerWatchesItsAttempt'
  <2>1. \A j \in Server : pairingTimer'[j] = pairingTimer[j] /\ pairingTimer[j] # p
    BY <1>10 DEF FailEnds, ReportLost, TimerWatchesItsAttempt, Pairing
  <2>2. \A q \in Peer : q # p => attempt'[q] = attempt[q]
    BY <1>10 DEF FailEnds, ReportLost, SkipCheck, TypeOK
  <2>3. QED
    BY <2>1, <2>2, OthersKeepTimers
<1>11. ASSUME NEW i \in Server, TimerFires(i) PROVE TimerWatchesItsAttempt'
  BY <1>11 DEF TimerFires, TimerWatchesItsAttempt, Pairing, TypeOK
<1>12. QED
  BY <1>1, <1>2, <1>3, <1>4, <1>6, <1>7, <1>8, <1>9, <1>10, <1>11 DEF Next

\* Steps that leave the errors alone and only move the window to no server.
LEMMA ErrorsStay ==
  ASSUME TypeOK, ErrorsEndTheWindow, hasFabrics' = hasFabrics, pairingErrors' = pairingErrors,
         unreported' = unreported, current' \in {0, current},
         \A p \in Peer : attempt[p].stage = "failing" =>
            attempt'[p].stage = "failing" /\ attempt'[p].server = attempt[p].server
  PROVE  ErrorsEndTheWindow'
BY IdleIsApart DEF ErrorsEndTheWindow, TypeOK

\* Steps of the attempt of p that count, report or check the errors of server i: what
\* holds of the other servers goes on to hold.
LEMMA ErrorsAtOne ==
  ASSUME TypeOK, ErrorsEndTheWindow, hasFabrics' = hasFabrics, current' \in {0, current},
         NEW p \in Peer, NEW i \in Server,
         attempt[p].stage = "failing" => attempt[p].server = i,
         \A q \in Peer : q # p => attempt'[q] = attempt[q],
         \A j \in Server : j # i => /\ pairingErrors'[j] = pairingErrors[j]
                                    /\ unreported'[j] = unreported[j],
         \/ attempt'[p].stage = "failing" /\ attempt'[p].server = i
         \/ unreported'[i]
         \/ ~(pairingErrors'[i] >= MaxErrors)
         \/ hasFabrics => current' = 0
  PROVE  ErrorsEndTheWindow'
<1> SUFFICES ASSUME NEW j \in Server, hasFabrics, pairingErrors'[j] >= MaxErrors, current' = j,
                    \A q \in Peer : ~(attempt'[q].stage = "failing" /\ attempt'[q].server = j)
             PROVE  unreported'[j]
  BY DEF ErrorsEndTheWindow
<1>1. CASE j = i
  BY <1>1, IdleIsApart
<1>2. CASE j # i
  <2>1. \A q \in Peer : ~(attempt[q].stage = "failing" /\ attempt[q].server = j)
    BY <1>2
  <2>2. current = j
    BY IdleIsApart
  <2>3. QED
    BY <1>2, <2>1, <2>2 DEF ErrorsEndTheWindow
<1>3. QED
  BY <1>1, <1>2

LEMMA PaseErrors ==
  TypeOK /\ TimerWatchesItsAttempt /\ ErrorsEndTheWindow /\ [Next]_vars => ErrorsEndTheWindow'
<1> SUFFICES ASSUME TypeOK, TimerWatchesItsAttempt, ErrorsEndTheWindow, [Next]_vars
             PROVE  ErrorsEndTheWindow'
  OBVIOUS
<1> USE PaseAssumption DEF PaseAssumption
<1>1. ASSUME NEW m \in {"basic", "enhanced"}, NEW i \in Server, OpenWindow(m, i)
      PROVE  ErrorsEndTheWindow'
  <2>1. current' = i /\ pairingErrors'[i] = 0
    BY <1>1 DEF OpenWindow, TypeOK
  <2>2. QED
    BY <2>1 DEF ErrorsEndTheWindow
<1>2. CASE WindowEnds
  BY <1>2, ErrorsStay DEF WindowEnds, EndCommissioning
<1>3. ASSUME NEW p \in Peer, Admit(p)
      PROVE  ErrorsEndTheWindow'
  <2>1. \A q \in Peer : attempt[q].stage = "failing" => attempt'[q] = attempt[q]
    BY <1>3, FreeIsUnwatched DEF Admit, TypeOK
  <2>2. QED
    BY <1>3, <2>1, ErrorsStay DEF Admit
<1>4. ASSUME NEW p \in Peer, NEW i \in Server, Catch(p, i), attempt[p].stage # "failing"
      PROVE  ErrorsEndTheWindow'
  <2>1. attempt'[p] = [stage |-> "failing", server |-> i]
    BY <1>4 DEF Catch, TypeOK
  <2>2. /\ \A q \in Peer : q # p => attempt'[q] = attempt[q]
        /\ current' = current /\ hasFabrics' = hasFabrics
        /\ \A j \in Server : j # i => /\ pairingErrors'[j] = pairingErrors[j]
                                      /\ unreported'[j] = unreported[j]
    BY <1>4 DEF Catch, CountError, TypeOK
  <2>3. QED
    BY <1>4, <2>1, <2>2, ErrorsAtOne
<1>5. ASSUME NEW p \in Peer, Refuse(p)
      PROVE  ErrorsEndTheWindow'
  <2>1. current \in Server /\ Catch(p, current) /\ attempt[p].stage # "failing"
    BY <1>5, FreeIsUnwatched DEF Refuse, Server, TypeOK
  <2>2. QED
    BY <1>4, <2>1
<1>6. ASSUME NEW p \in Peer, Fail(p) \/ ReadTimesOut(p)
      PROVE  ErrorsEndTheWindow'
  <2>1. attempt[p].server \in Server /\ Catch(p, attempt[p].server) /\ attempt[p].stage # "failing"
    BY <1>6, Busied DEF Fail, ReadTimesOut, Reading
  <2>2. QED
    BY <1>4, <2>1
<1>7. ASSUME NEW p \in Peer,
             Proceed(p) \/ Created(p) \/ Finish(p) \/ (Hang(p) /\ attempt[p].stage # "failing")
      PROVE  ErrorsEndTheWindow'
  <2>1. \A q \in Peer : attempt[q].stage = "failing" => attempt'[q] = attempt[q]
    BY <1>7 DEF Proceed, Created, Finish, Hang, Pairing, TypeOK
  <2>2. UNCHANGED <<current, hasFabrics, pairingErrors>>
    BY <1>7 DEF Proceed, Created, Finish, Hang
  <2>3. unreported' = unreported
    <3>1. CASE Hang(p) /\ attempt[p].stage # "failing"
      <4>1. attempt[p].server \in Server
        BY <3>1, Busied DEF Hang, Sending
      <4>2. unreported' \in [Server -> BOOLEAN]
        BY <1>7, HistoryType DEF Next
      <4>3. \A j \in Server : unreported'[j] = unreported[j]
        BY <3>1, <4>1 DEF Hang, TypeOK
      <4>4. QED
        BY <4>2, <4>3 DEF TypeOK
    <3>2. QED
      BY <1>7, <3>1 DEF Proceed, Created, Finish
  <2>4. QED
    BY <2>1, <2>2, <2>3, ErrorsStay
<1>8. ASSUME NEW p \in Peer, NEW i \in Server, SkipCheck(p, i),
             \A j \in Server : j # i => pairingErrors'[j] = pairingErrors[j],
             attempt[p].stage = "failing" => attempt[p].server = i
      PROVE  ErrorsEndTheWindow'
  <2>1. /\ \A q \in Peer : q # p => attempt'[q] = attempt[q]
        /\ current' = current /\ hasFabrics' = hasFabrics
        /\ \A j \in Server : j # i => unreported'[j] = unreported[j]
    BY <1>8 DEF SkipCheck, TypeOK
  <2>2. pairingErrors'[i] >= MaxErrors => unreported'[i]
    BY <1>8 DEF SkipCheck, TypeOK
  <2>3. QED
    BY <1>8, <2>1, <2>2, ErrorsAtOne
<1>9. ASSUME NEW p \in Peer, SendFails(p) \/ ReportLost(p)
      PROVE  ErrorsEndTheWindow'
  <2> DEFINE i == attempt[p].server
  <2>1. i \in Server /\ SkipCheck(p, i)
    BY <1>9, Busied DEF SendFails, ReportLost, Sending
  <2>2. \A j \in Server : j # i => pairingErrors'[j] = pairingErrors[j]
    BY <1>9 DEF SendFails, ReportLost, CountError, TypeOK
  <2>3. QED
    BY <1>8, <2>1, <2>2
<1>10. ASSUME NEW p \in Peer, Hang(p), attempt[p].stage = "failing"
       PROVE  ErrorsEndTheWindow'
  <2> DEFINE i == attempt[p].server
  <2>1. i \in Server
    BY <1>10, Busied
  <2>2. /\ \A q \in Peer : q # p => attempt'[q] = attempt[q]
        /\ current' = current /\ hasFabrics' = hasFabrics /\ pairingErrors' = pairingErrors
        /\ \A j \in Server : j # i => unreported'[j] = unreported[j]
    BY <1>10 DEF Hang, TypeOK
  <2>3. pairingErrors[i] >= MaxErrors => unreported'[i]
    BY <1>10, <2>1 DEF Hang, TypeOK
  <2>4. QED
    BY <1>10, <2>1, <2>2, <2>3, ErrorsAtOne
<1>11. ASSUME NEW p \in Peer, FailEnds(p)
       PROVE  ErrorsEndTheWindow'
  <2> DEFINE i == attempt[p].server
  <2>1. i \in Server
    BY <1>11, Busied DEF FailEnds
  <2>2. /\ \A q \in Peer : q # p => attempt'[q] = attempt[q]
        /\ hasFabrics' = hasFabrics /\ pairingErrors' = pairingErrors
        /\ \A j \in Server : j # i => unreported'[j] = unreported[j]
    BY <1>11 DEF FailEnds, TypeOK
  <2>3. /\ current' \in {0, current}
        /\ pairingErrors[i] >= MaxErrors /\ hasFabrics => current' = 0
    BY <1>11 DEF FailEnds, EndCommissioning
  <2>4. QED
    BY <2>1, <2>2, <2>3, ErrorsAtOne
<1>12. ASSUME NEW i \in Server, TimerFires(i)
       PROVE  ErrorsEndTheWindow'
  BY <1>12, ErrorsStay DEF TimerFires
<1>13. ASSUME (\E p \in Peer : SessionCloses(p)) \/ UNCHANGED vars
       PROVE  ErrorsEndTheWindow'
  BY <1>13, ErrorsStay DEF SessionCloses, vars
<1>14. QED
  BY <1>1, <1>2, <1>3, <1>5, <1>6, <1>7, <1>9, <1>10, <1>11, <1>12, <1>13 DEF Next

\* Steps that record who is exposed create no session and let no attempt go further.
LEMMA ExposureIsSeen ==
  ASSUME TypeOK, Guarded, Expose, sessions' = sessions,
         \A p \in Peer : Pairing(p)' => Pairing(p)
  PROVE  Guarded'
<1>1. exposed \subseteq exposed' /\ \A p \in Peer : Exposed(p)' => p \in exposed'
  BY DEF Expose
<1>2. ASSUME NEW p \in Peer, Pairing(p)', p \notin exposed'
      PROVE  /\ attempt'[p].server = current' /\ pairingTimer'[current'] = p
             /\ sessions' \subseteq exposed'
  <2>1. sessions \subseteq exposed
    BY <1>1, <1>2 DEF Guarded
  <2>2. attempt'[p].server = current' /\ pairingTimer'[attempt'[p].server] = p
    BY <1>1, <1>2 DEF Exposed
  <2>3. QED
    BY <1>1, <2>1, <2>2
<1>3. \A p, q \in sessions' \ exposed' : p = q
  BY <1>1 DEF Guarded
<1>4. QED
  BY <1>2, <1>3 DEF Guarded

LEMMA PaseGuarded == TypeOK /\ TimerWatchesItsAttempt /\ Guarded /\ [Next]_vars => Guarded'
<1> SUFFICES ASSUME TypeOK, TimerWatchesItsAttempt, Guarded, [Next]_vars PROVE Guarded'
  OBVIOUS
<1> USE PaseAssumption DEF PaseAssumption
<1>1. ASSUME Expose, sessions' = sessions, attempt' = attempt
      PROVE  Guarded'
  <2>1. \A p \in Peer : Pairing(p)' => Pairing(p)
    BY <1>1 DEF Pairing
  <2>2. QED
    BY <1>1, <2>1, ExposureIsSeen
<1>2. ASSUME NEW m \in {"basic", "enhanced"}, NEW i \in Server, OpenWindow(m, i)
      PROVE  Guarded'
  BY <1>1, <1>2 DEF OpenWindow
<1>3. CASE WindowEnds
  BY <1>1, <1>3 DEF WindowEnds
<1>4. ASSUME NEW i \in Server, TimerFires(i)
      PROVE  Guarded'
  BY <1>1, <1>4 DEF TimerFires
<1>5. ASSUME NEW p \in Peer, Admit(p)
      PROVE  Guarded'
  <2>1. /\ current \in Server /\ current' = current
        /\ sessions = {} /\ sessions' = {} /\ exposed' = exposed \ {p}
        /\ pairingTimer[current] = NoPeer
    BY <1>5 DEF Admit, TypeOK, Server, Busy
  <2>2. \A q \in Peer : Pairing(q) => q \in exposed
    BY <2>1 DEF Guarded
  <2>3. \A q \in Peer : q # p /\ Pairing(q)' => Pairing(q)
    BY <1>5 DEF Admit, TypeOK, Pairing
  <2>4. attempt'[p].server = current /\ pairingTimer'[current] = p
    BY <1>5, <2>1 DEF Admit, TypeOK
  <2>5. QED
    BY <2>1, <2>2, <2>3, <2>4 DEF Guarded
<1>6. ASSUME NEW p \in Peer, Proceed(p) \/ Created(p)
      PROVE  Guarded'
  <2>1. attempt[p] \in Attempt /\ Pairing(p)
    BY <1>6, Busied DEF Proceed, Created, Pairing
  <2>2. UNCHANGED <<current, pairingTimer, exposed>>
    BY <1>6 DEF Proceed, Created
  <2>3. PICK t \in {"pake1", "pake2", "pake3", "creating", "finishing"} :
             /\ attempt' = [attempt EXCEPT ![p].stage = t]
             /\ \/ sessions' = sessions
                \/ sessions' = sessions \cup {p} /\ t = "finishing"
    BY <1>6 DEF Proceed, Created, TypeOK
  <2>4. /\ \A q \in Peer : attempt'[q].server = attempt[q].server
        /\ \A q \in Peer : q # p => attempt'[q] = attempt[q]
        /\ attempt'[p].stage = t
    BY <2>1, <2>3 DEF TypeOK, Attempt
  <2>5. \A q \in Peer : Pairing(q)' => Pairing(q)
    BY <2>1, <2>4 DEF Pairing
  <2>6. CASE sessions' = sessions
    BY <2>2, <2>4, <2>5, <2>6 DEF Guarded
  <2>7. CASE sessions' = sessions \cup {p} /\ t = "finishing"
    <3>1. CASE p \in exposed
      BY <2>2, <2>4, <2>5, <2>7, <3>1 DEF Guarded
    <3>2. CASE p \notin exposed
      <4>1. sessions \subseteq exposed /\ pairingTimer[current] = p
        BY <2>1, <3>2 DEF Guarded
      <4>2. \A q \in Peer : Pairing(q)' => q \in exposed
        <5>1. ~Pairing(p)'
          BY <2>4, <2>7 DEF Pairing
        <5>2. QED
          BY <2>5, <4>1, <5>1 DEF Guarded
      <4>3. QED
        BY <2>2, <2>7, <4>1, <4>2 DEF Guarded
    <3>3. QED
      BY <3>1, <3>2
  <2>8. QED
    BY <2>3, <2>6, <2>7
<1>7. ASSUME NEW p \in Peer, Expose, sessions' = sessions,
             \A q \in Peer : q # p => attempt'[q] = attempt[q], ~Pairing(p)'
      PROVE  Guarded'
  <2>1. \A q \in Peer : Pairing(q)' => Pairing(q)
    BY <1>7 DEF Pairing
  <2>2. QED
    BY <1>7, <2>1, ExposureIsSeen
<1>8. ASSUME NEW p \in Peer, NEW i, Catch(p, i)
      PROVE  Guarded'
  BY <1>7, <1>8 DEF Catch, TypeOK, Pairing
<1>9. ASSUME NEW p \in Peer, NEW i, SkipCheck(p, i)
      PROVE  Guarded'
  BY <1>7, <1>9, IdleIsApart DEF SkipCheck, TypeOK, Pairing
<1>10. ASSUME NEW p \in Peer, Finish(p) \/ FailEnds(p)
       PROVE  Guarded'
  BY <1>7, <1>10, IdleIsApart DEF Finish, FailEnds, TypeOK, Pairing
<1>11. ASSUME NEW p \in Peer, Hang(p)
       PROVE  Guarded'
  <2>1. attempt[p] \in Attempt
    BY <1>11, Busied DEF Hang, Sending
  <2>2. ~Pairing(p)'
    BY <1>11, <2>1 DEF Hang, TypeOK, Attempt, Pairing
  <2>3. QED
    BY <1>7, <1>11, <2>2 DEF Hang, TypeOK
<1>12. ASSUME NEW p \in Peer, SessionCloses(p)
       PROVE  Guarded'
  BY <1>12 DEF SessionCloses, Guarded, Pairing
<1>13. CASE UNCHANGED vars
  BY <1>13 DEF vars, Guarded, Pairing
<1>14. QED
  BY <1>2, <1>3, <1>4, <1>5, <1>6, <1>8, <1>9, <1>10, <1>11, <1>12, <1>13
  DEF Next, Refuse, Fail, ReadTimesOut, SendFails, ReportLost

\* The inductive invariant holds.
THEOREM PaseInvariant == Spec => []PaseInv
<1>1. PaseInv /\ [Next]_vars => PaseInv'
  BY PaseType, PaseTimers, PaseErrors, PaseGuarded DEF PaseInv
<1>2. QED
  BY <1>1, PaseInit, PTL DEF Spec

\* The fields keep their types: a timer always watches a commissioner's attempt.
THEOREM TypeCorrect == Spec => []TypeOK
<1>1. PaseInv => TypeOK
  BY DEF PaseInv
<1>2. QED
  BY <1>1, PaseInvariant, PTL

\* A late timer of PaseServer never closes the attempt of another server, or one that
\* has ended.
THEOREM TimersAreTheirs == Spec => []TimerWatchesItsAttempt
<1>1. PaseInv => TimerWatchesItsAttempt
  BY DEF PaseInv
<1>2. QED
  BY <1>1, PaseInvariant, PTL

\* After PASE_COMMISSIONING_MAX_ERRORS errors a commissioned node stops answering
\* through the server that counted them, for any number of attempts at a time, unless the
\* report of the last of them was lost and onNewExchange() skipped its check of the limit.
THEOREM ErrorsAreFinal == Spec => []ErrorsEndTheWindow
<1>1. PaseInv => ErrorsEndTheWindow
  BY DEF PaseInv
<1>2. QED
  BY <1>1, PaseInvariant, PTL

\* Of the sessions and the attempts that may create one (handlePairingRequest), no two
\* belong to commissioners of which the server has not lost sight.
THEOREM OneSession == Spec => []OnePaseSession
<1>1. ASSUME PaseInv PROVE OnePaseSession
  <2> DEFINE S == (sessions \cup {p \in Peer : Pairing(p)}) \ exposed
  <2> USE <1>1 DEF PaseInv
  <2>1. \A p, q \in S : p = q
    <3>1. ASSUME NEW p \in S, NEW q \in S PROVE p = q
      <4>1. CASE p \in sessions /\ q \in sessions
        BY <4>1 DEF Guarded
      <4>2. CASE p \notin sessions
        <5>1. Pairing(p) /\ p \in Peer
          BY <4>2
        <5>2. sessions \subseteq exposed /\ pairingTimer[current] = p
          BY <5>1 DEF Guarded
        <5>3. QED
          BY <5>2 DEF Guarded
      <4>3. CASE q \notin sessions
        <5>1. Pairing(q) /\ q \in Peer
          BY <4>3
        <5>2. sessions \subseteq exposed /\ pairingTimer[current] = q
          BY <5>1 DEF Guarded
        <5>3. QED
          BY <5>2 DEF Guarded
      <4>4. QED
        BY <4>1, <4>2, <4>3
    <3>2. QED
      BY <3>1
  <2>2. CASE S = {}
    BY <2>2, FS_EmptySet DEF OnePaseSession
  <2>3. CASE \E p \in S : S = {p}
    <3>1. Cardinality(S) = 1
      BY <2>3, FS_Singleton
    <3>2. QED
      BY <3>1 DEF OnePaseSession
  <2>4. QED
    BY <2>1, <2>2, <2>3
<1>2. QED
  BY <1>1, PaseInvariant, PTL

=============================================================================
