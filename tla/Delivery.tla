------------------------------- MODULE Delivery -------------------------------
(***************************************************************************)
(* What MQTT_Publish promises for QoS 1 and 2: an accepted message stays    *)
(* pending until the broker has it.  Messages reach the broker one at a     *)
(* time in the order they were accepted, and each of them at least once.    *)
(* A message is the number of its call, so that the older of two is the     *)
(* smaller one.  MqttClient implements it.                                  *)
(***************************************************************************)
EXTENDS Naturals, Sequences

CONSTANTS Message, Crashes   \* the messages; whether the device may restart

VARIABLES
  pending,    \* the messages accepted and not acknowledged
  delivered   \* what the broker has handed to subscribers

vars == <<pending, delivered>>

Init == pending = {} /\ delivered = <<>>

Delivered == {delivered[i] : i \in 1..Len(delivered)}

\* A new message is accepted: no message before it is accepted after it.
Accept(m) ==
  /\ \A n \in pending \cup Delivered : n < m
  /\ pending' = pending \cup {m} /\ UNCHANGED delivered

Oldest(m) == m \in pending /\ \A n \in pending : m <= n

\* The oldest message reaches the broker, possibly not for the first time.
Deliver(m) ==
  /\ Oldest(m)
  /\ delivered' = Append(delivered, m) /\ UNCHANGED pending

\* The oldest message is acknowledged: the broker has it.
Done(m) ==
  /\ Oldest(m) /\ m \in Delivered
  /\ pending' = pending \ {m} /\ UNCHANGED delivered

\* The device restarts and forgets what was pending.
Crash == Crashes /\ pending' = {} /\ UNCHANGED delivered

Next == (\E m \in Message : Accept(m) \/ Deliver(m) \/ Done(m)) \/ Crash

Spec == Init /\ [][Next]_vars
=============================================================================
