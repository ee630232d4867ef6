--------------------------- MODULE MCSubscription ---------------------------
(* Two subscriptions of one session. *)
EXTENDS Subscription

Used == {s \in Subscriptions : phase[s] # "none"}
Busy ==
  {s \in Subscriptions :
     \/ handler[s].sendUpdateErrorCounter # 0
     \/ handler[s].outstanding # NoData
     \/ handler[s].sendNextUpdateImmediately}

\* One subscription meets everything.  Two meet everything but changes and events (the
\* structure still changes), and only one of the two at a time has data waiting or errors.
Small ==
  Cardinality(Used) <= 1 \/ (version = 1 /\ eventNumber = 0 /\ Cardinality(Busy) <= 1)
=============================================================================
