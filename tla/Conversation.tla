---------------------------- MODULE Conversation ----------------------------
(***************************************************************************)
(* What session sync promises of the sessions nobody deletes: replicas of  *)
(* append-only conversations.  A device's history of a conversation only   *)
(* grows, by a message its own user writes or by messages that some device *)
(* holds already; nothing is forgotten and nothing is invented.            *)
(***************************************************************************)
CONSTANTS
  Device,   \* the replicas
  Item,     \* the conversations
  Message   \* message contents, each written once

VARIABLE held   \* held[d][i]: the messages of conversation i on device d

TypeOK == held \in [Device -> [Item -> SUBSET Message]]

Init == held = [d \in Device |-> [i \in Item |-> {}]]

\* The messages of conversation i that exist somewhere.
Known(i) == UNION {held[d][i] : d \in Device}

\* The histories once conversation i of device d has gained some messages.
Gain(d, i, news) ==
  [e \in Device |-> [j \in Item |->
     IF e = d /\ j = i THEN held[e][j] \cup news ELSE held[e][j]]]

\* The user of device d says something nobody has said before.
Write(d, i, m) ==
  /\ \A j \in Item : m \notin Known(j)
  /\ held' = Gain(d, i, {m})

\* Device d learns messages that others hold.
Learn(d, i, news) ==
  /\ news \subseteq Known(i)
  /\ held' = Gain(d, i, news)

Next ==
  \E d \in Device, i \in Item :
    \/ \E m \in Message : Write(d, i, m)
    \/ \E news \in SUBSET Message : Learn(d, i, news)

Spec == Init /\ [][Next]_held
=============================================================================
