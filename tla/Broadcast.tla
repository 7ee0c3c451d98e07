----------------------------- MODULE Broadcast -----------------------------
(* What notify() promises: who is in the audience of its topic from its    *)
(* start to its end gets the notification, and nobody gets it twice; but   *)
(* each departure from the registry may cost each notification that is     *)
(* under way one recipient.                                                *)
CONSTANTS Conns, Topics, Notifiers, None

VARIABLES
  members,   \* who is in the registry
  audience,  \* audience[t]: the members who can get a notification on t
  topic,     \* topic[n]: the topic of notification n, None if it is over
  got,       \* got[n]: who got it
  awaited,   \* awaited[n]: who has been in its audience since its start
  missed     \* missed[n]: who a departure has cost it

broadcastVars == <<members, audience, topic, got, awaited, missed>>

Init ==
  /\ members = {} /\ audience = [t \in Topics |-> {}]
  /\ topic = [n \in Notifiers |-> None]
  /\ got = [n \in Notifiers |-> {}]
  /\ awaited = [n \in Notifiers |-> {}]
  /\ missed = [n \in Notifiers |-> {}]

Joins(c) == members' = members \cup {c} /\ UNCHANGED missed

Departs(c) ==
  /\ members' = members \ {c}
  /\ missed' \in [Notifiers -> SUBSET Conns]
  /\ \A n \in Notifiers :
       \/ missed'[n] = missed[n]
       \/ /\ topic'[n] # None
          /\ \E x \in members' \ got'[n] : missed'[n] = missed[n] \cup {x}

(* Clients come and go, lose their connections, subscribe and unsubscribe. *)
(* Who drops out of an audience is not awaited any more.                   *)
Change ==
  /\ \/ UNCHANGED <<members, missed>>
     \/ \E c \in Conns \ members : Joins(c)
     \/ \E c \in members : Departs(c)
  /\ audience' \in [Topics -> SUBSET members']
  /\ awaited' =
       [n \in Notifiers |-> {c \in awaited[n] : c \in audience'[topic[n]]}]
  /\ UNCHANGED <<topic, got>>

(* A notification starts, and gets to somebody, or prunes somebody else.   *)
Start(n, t) ==
  /\ topic[n] = None
  /\ topic' = [topic EXCEPT ![n] = t]
  /\ awaited' = [awaited EXCEPT ![n] = audience[t]]
  /\ \/ /\ \E c \in audience[t] : got' = [got EXCEPT ![n] = {c}]
        /\ UNCHANGED <<members, missed>>
     \/ /\ \E c \in members \ audience[t] : Departs(c)
        /\ UNCHANGED got
  /\ UNCHANGED audience

Deliver(n, c) ==
  /\ topic[n] # None
  /\ c \in audience[topic[n]] \ (got[n] \cup missed[n])
  /\ got' = [got EXCEPT ![n] = @ \cup {c}]
  /\ UNCHANGED <<members, audience, topic, awaited, missed>>

Return(n) ==
  /\ topic[n] # None
  /\ awaited[n] \subseteq got[n] \cup missed[n]
  /\ topic' = [topic EXCEPT ![n] = None]
  /\ got' = [got EXCEPT ![n] = {}]
  /\ awaited' = [awaited EXCEPT ![n] = {}]
  /\ missed' = [missed EXCEPT ![n] = {}]
  /\ UNCHANGED <<members, audience>>

Next ==
  \/ Change
  \/ \E n \in Notifiers :
       \/ \E t \in Topics : Start(n, t)
       \/ \E c \in Conns : Deliver(n, c)
       \/ Return(n)

Spec == Init /\ [][Next]_broadcastVars
=============================================================================
