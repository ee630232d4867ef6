----------------------------- MODULE PaseServer -----------------------------
(***************************************************************************)
(* The device's side of PASE: SecureChannelProtocol hands a pairing request *)
(* to the PaseServer of the commissioning window, which admits one attempt *)
(* at a time, watches it with a timer, counts errors and, at their limit,  *)
(* has MatterDevice end the window.                                        *)
(*                                                                         *)
(* Every window has a PaseServer of its own; attempts under way keep the   *)
(* one that admitted them.  handlePairingRequest() is split at its awaits, *)
(* where other attempts and the timer run.  An awaited send() settles with *)
(* an answer, rejects, or never settles; MessageExchange is its model.     *)
(***************************************************************************)
EXTENDS Naturals, FiniteSets

CONSTANTS
  Peer,        \* commissioners
  NoPeer,
  MaxErrors,   \* PASE_COMMISSIONING_MAX_ERRORS
  MaxServers   \* bound: servers with attempts under way at one time

ASSUME PaseAssumption ==
  /\ NoPeer \notin Peer
  /\ MaxErrors \in Nat \ {0}
  /\ MaxServers \in Nat \ {0}

VARIABLES
  current,        \* paseCommissioner: the server of the window, 0 for none
  mode,           \* MatterDevice.activeCommissioningMode
  hasFabrics,     \* MatterDevice.isCommissioned()
  pairingTimer,   \* per server: the attempt its running timer watches
  pairingErrors,  \* per server, not counted beyond MaxErrors
  attempt,        \* per peer: its pairing attempt
  sessions,       \* open PASE sessions, by peer
  exposed,        \* history: peers whose attempt no server guards any more
  unreported      \* history, per server: an error skipped the check of the limit

vars == <<current, mode, hasFabrics, pairingTimer, pairingErrors,
          attempt, sessions, exposed, unreported>>

Server == 1 .. MaxServers

Idle == [stage |-> "idle", server |-> 0]

(* Where handlePairingRequest() awaits: it sends the response, reads Pake1,*)
(* sends Pake2, reads Pake3, creates the session and sends the success.    *)
(* "failing" is the catch of onNewExchange(), which sends an error report; *)
(* "hung" is a send() that never settles.                                  *)
Sending == {"response", "pake2", "finishing"}

Reading == {"pake1", "pake3"}

Attempt ==
  [stage : Sending \cup Reading \cup {"creating", "failing", "hung"},
   server : Server]

Init ==
  /\ current = 0
  /\ mode = "none"
  /\ hasFabrics \in BOOLEAN
  /\ pairingTimer = [i \in Server |-> NoPeer]
  /\ pairingErrors = [i \in Server |-> 0]
  /\ attempt = [p \in Peer |-> Idle]
  /\ sessions = {}
  /\ exposed = {}
  /\ unreported = [i \in Server |-> FALSE]

(* An attempt that may still create a session.                             *)
Pairing(p) == attempt[p].stage \in {"response", "pake1", "pake2", "pake3", "creating"}

(* No attempt of p is under way, or one that hangs and has no timer.       *)
Free(p) ==
  \/ attempt[p] = Idle
  \/ attempt[p].stage = "hung" /\ \A i \in Server : pairingTimer[i] # p

(* Its server would let another one in.                                    *)
Exposed(p) ==
  /\ Pairing(p)
  /\ \/ pairingTimer[attempt[p].server] # p
     \/ attempt[p].server # current

Expose == exposed' = exposed \cup {p \in Peer : Exposed(p)'}

-----------------------------------------------------------------------------
(* allowBasicCommissioning, allowEnhancedCommissioning: a new server.  A   *)
(* node without fabrics opens the basic window by itself; announced again, *)
(* it replaces the server before announceAsCommissionable() finds the      *)
(* window open.  The name i of the new server is one no attempt uses.      *)
OpenWindow(m, i) ==
  /\ mode = "none" \/ (mode = "basic" /\ m = "basic" /\ ~hasFabrics)
  /\ m = "enhanced" => hasFabrics
  /\ \A p \in Peer : attempt[p].server = i => Free(p)
  /\ current' = i
  /\ mode' = m
  /\ pairingErrors' = [pairingErrors EXCEPT ![i] = 0]
  /\ unreported' = [unreported EXCEPT ![i] = FALSE]
  /\ UNCHANGED <<hasFabrics, pairingTimer, attempt, sessions>>
  /\ Expose

(* endCommissioning()                                                      *)
EndCommissioning ==
  /\ current' = IF mode = "enhanced" \/ hasFabrics THEN 0 ELSE current
  /\ mode' = "none"

(* The window is revoked, times out, or commissioning is complete.         *)
WindowEnds ==
  /\ mode # "none"
  /\ EndCommissioning
  /\ UNCHANGED <<hasFabrics, pairingTimer, pairingErrors, attempt, sessions, unreported>>
  /\ Expose

-----------------------------------------------------------------------------
(* The checks of handlePairingRequest().                                   *)
Busy_TimerOnly == pairingTimer[current] # NoPeer

Busy == sessions # {} \/ pairingTimer[current] # NoPeer

(* A PbkdfParamRequest is admitted; what follows is an attempt anew.       *)
Admit(p) ==
  /\ Free(p)
  /\ current # 0
  /\ ~Busy
  /\ pairingTimer' = [pairingTimer EXCEPT ![current] = p]
  /\ attempt' = [attempt EXCEPT ![p] = [stage |-> "response", server |-> current]]
  /\ exposed' = exposed \ {p}
  /\ UNCHANGED <<current, mode, hasFabrics, pairingErrors, sessions, unreported>>

(* The catch of onNewExchange() up to its await: the error is counted, and *)
(* cancelPairing() stops the timer of the server, whichever attempt it     *)
(* watches.                                                                *)
CountError(i) ==
  /\ pairingErrors' = [pairingErrors EXCEPT ![i] = IF @ < MaxErrors THEN @ + 1 ELSE @]
  /\ pairingTimer' = [pairingTimer EXCEPT ![i] = NoPeer]

Catch(p, i) ==
  /\ CountError(i)
  /\ attempt' = [attempt EXCEPT ![p] = [stage |-> "failing", server |-> i]]
  /\ UNCHANGED <<current, mode, hasFabrics, sessions, unreported>>
  /\ Expose

(* A request while the server is busy is an error like any other.          *)
Refuse(p) ==
  /\ Free(p)
  /\ current # 0
  /\ Busy
  /\ Catch(p, current)

(* A send is answered, a message read; a correct Pake3 creates the session.*)
Proceed(p) ==
  /\ Pairing(p) /\ attempt[p].stage # "creating"
  /\ attempt' = [attempt EXCEPT ![p].stage = CASE @ = "response" -> "pake1"
                                               [] @ = "pake1" -> "pake2"
                                               [] @ = "pake2" -> "pake3"
                                               [] OTHER -> "creating"]
  /\ UNCHANGED <<current, mode, hasFabrics, pairingTimer, pairingErrors,
                 sessions, exposed, unreported>>

(* createSecureSession() has derived the keys and registers the session.   *)
Created(p) ==
  /\ attempt[p].stage = "creating"
  /\ sessions' = sessions \cup {p}
  /\ attempt' = [attempt EXCEPT ![p].stage = "finishing"]
  /\ UNCHANGED <<current, mode, hasFabrics, pairingTimer, pairingErrors,
                 exposed, unreported>>

(* The success was acked, and the timer of the server is stopped.          *)
Finish_TimerRuns(p) ==
  /\ attempt[p].stage = "finishing"
  /\ attempt' = [attempt EXCEPT ![p] = Idle]
  /\ UNCHANGED <<current, mode, hasFabrics, pairingTimer, pairingErrors, sessions, unreported>>
  /\ Expose

Finish(p) ==
  /\ attempt[p].stage = "finishing"
  /\ pairingTimer' = [pairingTimer EXCEPT ![attempt[p].server] = NoPeer]
  /\ attempt' = [attempt EXCEPT ![p] = Idle]
  /\ UNCHANGED <<current, mode, hasFabrics, pairingErrors, sessions, unreported>>
  /\ Expose

(* A wrong message or verifier, a status report, an exchange that the      *)
(* timer's cancelPairing() has closed.                                     *)
Fail(p) ==
  /\ attempt[p].stage \in Reading \cup {"response"}
  /\ Catch(p, attempt[p].server)

(* nextMessage() waits for a limited time.                                 *)
ReadTimesOut_Never(p) == FALSE /\ Catch(p, attempt[p].server)

ReadTimesOut(p) ==
  /\ attempt[p].stage \in Reading
  /\ Catch(p, attempt[p].server)

(* A rejected report leaves onNewExchange() before the check of the limit. *)
SkipCheck(p, i) ==
  /\ attempt' = [attempt EXCEPT ![p] = Idle]
  /\ unreported' = [unreported EXCEPT ![i] = @ \/ pairingErrors'[i] >= MaxErrors]
  /\ UNCHANGED <<current, mode, hasFabrics, sessions>>
  /\ Expose

(* A send is not acked: the exchange refuses to send the error report,     *)
(* because the previous message has not been acked yet.                    *)
SendFails(p) ==
  /\ attempt[p].stage \in Sending
  /\ CountError(attempt[p].server)
  /\ SkipCheck(p, attempt[p].server)

(* The error report is not acked.                                          *)
ReportLost(p) ==
  /\ attempt[p].stage = "failing"
  /\ UNCHANGED <<pairingTimer, pairingErrors>>
  /\ SkipCheck(p, attempt[p].server)

(* A retransmission that cannot be sent is not repeated, and closing the   *)
(* exchange leaves a waiting send() alone: it settles no more.             *)
Hang(p) ==
  /\ attempt[p].stage \in Sending \cup {"failing"}
  /\ attempt' = [attempt EXCEPT ![p].stage = "hung"]
  /\ unreported' = [unreported EXCEPT ![attempt[p].server] =
                      \/ @
                      \/ attempt[p].stage = "failing"
                         /\ pairingErrors[attempt[p].server] >= MaxErrors]
  /\ UNCHANGED <<current, mode, hasFabrics, pairingTimer, pairingErrors, sessions>>
  /\ Expose

(* The timer's cancelPairing().  The error it sends and the exchange it    *)
(* closes show in the attempt as a read that fails or a send that hangs.   *)
TimerFires(i) ==
  /\ pairingTimer[i] # NoPeer
  /\ pairingTimer' = [pairingTimer EXCEPT ![i] = NoPeer]
  /\ UNCHANGED <<current, mode, hasFabrics, pairingErrors, attempt, sessions, unreported>>
  /\ Expose

(* The rest of the catch, once the report is acked or when none is needed: *)
(* at the limit the window is ended, the current one, whichever server     *)
(* counted the errors.                                                     *)
FailEnds_Half(p) ==
  /\ attempt[p].stage = "failing"
  /\ attempt' = [attempt EXCEPT ![p].stage = "idle"]
  /\ unreported' = [unreported EXCEPT ![attempt[p].server] = FALSE]
  /\ IF pairingErrors[attempt[p].server] >= MaxErrors
     THEN EndCommissioning ELSE UNCHANGED <<current, mode>>
  /\ UNCHANGED <<hasFabrics, pairingTimer, pairingErrors, sessions>>
  /\ Expose

FailEnds_AboveLimit(p) ==
  /\ attempt[p].stage = "failing"
  /\ attempt' = [attempt EXCEPT ![p] = Idle]
  /\ unreported' = [unreported EXCEPT ![attempt[p].server] = FALSE]
  /\ IF pairingErrors[attempt[p].server] > MaxErrors
     THEN EndCommissioning ELSE UNCHANGED <<current, mode>>
  /\ UNCHANGED <<hasFabrics, pairingTimer, pairingErrors, sessions>>
  /\ Expose

FailEnds(p) ==
  /\ attempt[p].stage = "failing"
  /\ attempt' = [attempt EXCEPT ![p] = Idle]
  /\ unreported' = [unreported EXCEPT ![attempt[p].server] = FALSE]
  /\ IF pairingErrors[attempt[p].server] >= MaxErrors
     THEN EndCommissioning ELSE UNCHANGED <<current, mode>>
  /\ UNCHANGED <<hasFabrics, pairingTimer, pairingErrors, sessions>>
  /\ Expose

(* The commissioner, or the end of the fail-safe, closes a session.        *)
SessionCloses(p) ==
  /\ p \in sessions
  /\ sessions' = sessions \ {p}
  /\ UNCHANGED <<current, mode, hasFabrics, pairingTimer, pairingErrors,
                 attempt, exposed, unreported>>

Next ==
  \/ \E m \in {"basic", "enhanced"}, i \in Server : OpenWindow(m, i)
  \/ WindowEnds
  \/ \E p \in Peer :
       \/ Admit(p) \/ Refuse(p) \/ Proceed(p) \/ Created(p) \/ Finish(p)
       \/ Fail(p) \/ ReadTimesOut(p) \/ SendFails(p) \/ FailEnds(p)
       \/ ReportLost(p) \/ Hang(p) \/ SessionCloses(p)
  \/ \E i \in Server : TimerFires(i)

(* Timers fire, keys are derived, and a read times out.  A send settles, by*)
(* an answer or when its retransmissions run out, or it hangs.  Nothing is *)
(* assumed of the commissioners.                                           *)
SendSettles(p) ==
  /\ attempt[p].stage \in Sending
  /\ Proceed(p) \/ Finish(p) \/ SendFails(p)

Fairness ==
  /\ \A i \in Server : WF_vars(TimerFires(i))
  /\ \A p \in Peer : /\ WF_vars(Created(p))
                     /\ WF_vars(SendSettles(p))
                     /\ WF_vars(ReadTimesOut(p))
                     /\ WF_vars(FailEnds(p) \/ ReportLost(p))

Spec == Init /\ [][Next]_vars /\ Fairness

-----------------------------------------------------------------------------
(* Every variable has its type: a timer watches an attempt, and an attempt *)
(* names the server that admitted it.                                      *)
TypeOK ==
  /\ current \in 0 .. MaxServers
  /\ mode \in {"none", "basic", "enhanced"}
  /\ hasFabrics \in BOOLEAN
  /\ pairingTimer \in [Server -> Peer \cup {NoPeer}]
  /\ pairingErrors \in [Server -> 0 .. MaxErrors]
  /\ attempt \in [Peer -> {Idle} \cup Attempt]
  /\ sessions \subseteq Peer
  /\ exposed \subseteq Peer
  /\ unreported \in [Server -> BOOLEAN]

(* One commissioner at a time: of the attempts that may still create a     *)
(* session and the sessions that are open, one at most belongs to a        *)
(* commissioner whose attempt its server has not lost sight of.            *)
OnePaseSession ==
  Cardinality((sessions \cup {p \in Peer : Pairing(p)}) \ exposed) <= 1

(* A timer in a server watches an attempt that server has admitted and     *)
(* that has not ended: a late timer never closes the attempt of another.   *)
TimerWatchesItsAttempt ==
  \A i \in Server : pairingTimer[i] # NoPeer =>
    /\ attempt[pairingTimer[i]].server = i
    /\ \/ Pairing(pairingTimer[i])
       \/ attempt[pairingTimer[i]].stage \in {"finishing", "hung"}

(* A commissioned node stops answering after MaxErrors errors: once the    *)
(* errors have been handled, the server that counted them is not the one   *)
(* of the window, unless the report of an error at the limit was not acked *)
(* and no later error has been reported.                                   *)
ErrorsEndTheWindow ==
  \A i \in Server :
    /\ hasFabrics
    /\ pairingErrors[i] >= MaxErrors
    /\ \A p \in Peer : ~(attempt[p].stage = "failing" /\ attempt[p].server = i)
    /\ current = i
    => unreported[i]

(* An attempt ends with its error handled, whatever its commissioner does  *)
(* and even when another one has stopped the timer that watched it; or it  *)
(* hangs in a send, and then no timer keeps the other commissioners out.   *)
AttemptEnds ==
  \A p \in Peer : attempt[p] # Idle ~> Free(p)

=============================================================================
