---------------------------- MODULE PubSubProofs ----------------------------
(* Theorems about PubSub for every value of its constants, and the lemmas  *)
(* they rest on.                                                           *)
EXTENDS PubSub, SequenceTheorems, WellFoundedInduction, TLAPS

(* Every non-empty set of natural numbers has the minimum Min names.       *)
LEMMA MinProperties ==
  ASSUME NEW I \in SUBSET Nat, I # {}
  PROVE  Min(I) \in I /\ \A j \in I : Min(I) <= j
<1>1. \E x \in I : \A y \in I : ~ (<<y, x>> \in OpToRel(<, Nat))
  BY NatLessThanWellFounded, WFMin
<1>2. \A x, y \in Nat : y < x => <<y, x>> \in OpToRel(<, Nat)
  BY DEF OpToRel
<1>3. \E x \in I : \A y \in I : x <= y
  <2>1. PICK x \in I : \A y \in I : ~ (<<y, x>> \in OpToRel(<, Nat))
    BY <1>1
  <2>2. ASSUME NEW y \in I, ~ (x <= y) PROVE FALSE
    <3>1. y < x /\ x \in Nat /\ y \in Nat
      BY <2>2
    <3> QED
      BY <1>2, <2>1, <3>1
  <2> QED
    BY <2>2
<1> QED
  BY <1>3 DEF Min

(* What list.remove does to a list that holds the value: the entries in    *)
(* front of its first occurrence stay, those behind it move up by one.     *)
LEMMA RemoveFirstProperties ==
  ASSUME NEW S, NEW s \in Seq(S), NEW e, Contains(s, e)
  PROVE  /\ RemoveFirst(s, e) \in Seq(S)
         /\ Len(RemoveFirst(s, e)) = Len(s) - 1
         /\ \E p \in 1..Len(s) :
              /\ s[p] = e
              /\ \A q \in 1..(p - 1) : s[q] # e
              /\ \A q \in 1..Len(RemoveFirst(s, e)) :
                   RemoveFirst(s, e)[q] = IF q < p THEN s[q] ELSE s[q + 1]
<1> DEFINE I == {i \in 1..Len(s) : s[i] = e}
           p == Min(I)
<1>1. Len(s) \in Nat /\ I \subseteq Nat /\ I # {}
  BY DEF Contains
<1>2. p \in I /\ \A j \in I : p <= j
  BY <1>1, MinProperties
<1> HIDE DEF p
<1>3. p \in 1..Len(s) /\ s[p] = e /\ \A q \in 1..(p - 1) : s[q] # e
  BY <1>1, <1>2
<1>4. RemoveFirst(s, e) = SubSeq(s, 1, p - 1) \o SubSeq(s, p + 1, Len(s))
  <2>1. SelectInSeq(s, LAMBDA v : v = e) = p
    BY <1>1 DEF SelectInSeq, p
  <2> QED
    BY <1>1, <2>1 DEF RemoveFirst, RemoveAt
<1> DEFINE a == SubSeq(s, 1, p - 1)
           b == SubSeq(s, p + 1, Len(s))
<1>5. /\ a \in Seq(S) /\ Len(a) = p - 1
      /\ \A i \in 1..(p - 1) : a[i] = s[i]
  <2>1. \A i \in 1..(p - 1) : s[i] \in S
    BY <1>1, <1>3, ElementOfSeq
  <2>2. 1 \in Int /\ p - 1 \in Int
    BY <1>1, <1>3
  <2> QED
    BY <1>1, <1>3, <2>1, <2>2, SubSeqProperties
<1>6. /\ b \in Seq(S) /\ Len(b) = Len(s) - p
      /\ \A i \in 1..(Len(s) - p) : b[i] = s[p + i]
  <2>1. \A i \in (p + 1)..Len(s) : s[i] \in S
    BY <1>1, <1>3, ElementOfSeq
  <2>2. p + 1 \in Int /\ Len(s) \in Int
    BY <1>1, <1>3
  <2> QED
    BY <1>1, <1>3, <2>1, <2>2, SubSeqProperties
<1> HIDE DEF a, b
<1>7. /\ a \o b \in Seq(S) /\ Len(a \o b) = Len(s) - 1
      /\ \A i \in 1..(Len(s) - 1) :
           (a \o b)[i] = IF i <= p - 1 THEN a[i] ELSE b[i - (p - 1)]
  <2>1. /\ a \o b \in Seq(S) /\ Len(a \o b) = Len(a) + Len(b)
        /\ \A i \in 1..(Len(a) + Len(b)) :
             (a \o b)[i] = IF i <= Len(a) THEN a[i] ELSE b[i - Len(a)]
    BY <1>5, <1>6, ConcatProperties, Zenon
  <2>2. Len(a) + Len(b) = Len(s) - 1
    BY <1>1, <1>3, <1>5, <1>6
  <2> QED
    BY <1>5, <2>1, <2>2, Zenon
<1> DEFINE r == a \o b
<1> HIDE DEF r
<1>8. \A q \in 1..(Len(s) - 1) : r[q] = IF q < p THEN s[q] ELSE s[q + 1]
  <2>1. \A i \in 1..(Len(s) - 1) :
           r[i] = IF i <= p - 1 THEN a[i] ELSE b[i - (p - 1)]
    BY <1>7 DEF r
  <2> SUFFICES ASSUME NEW q \in 1..(Len(s) - 1)
               PROVE  r[q] = IF q < p THEN s[q] ELSE s[q + 1]
    OBVIOUS
  <2>2. CASE q < p
    BY <1>1, <1>3, <1>5, <2>1, <2>2
  <2>3. CASE ~ (q < p)
    <3>1. q - (p - 1) \in 1..(Len(s) - p) /\ p + (q - (p - 1)) = q + 1
      BY <1>1, <1>3, <2>3
    <3>2. r[q] = b[q - (p - 1)]
      BY <1>1, <1>3, <2>1, <2>3
    <3> QED
      BY <1>6, <2>3, <3>1, <3>2
  <2> QED
    BY <2>2, <2>3
<1>9. RemoveFirst(s, e) = r
  BY <1>4 DEF a, b, r
<1>10. r \in Seq(S) /\ Len(r) = Len(s) - 1
  BY <1>7 DEF r
<1> QED
  BY <1>3, <1>8, <1>9, <1>10

-----------------------------------------------------------------------------
(* Typing.                                                                 *)

Typed == TypeOK /\ Wiring

(* list.remove leaves a list of clients, whoever it is asked to remove.    *)
LEMMA UnregisterTyped ==
  ASSUME Typed, NEW c \in Conns,
         NEW idx \in [Notifiers -> Nat \ {0}], NEW topic,
         \A n \in Notifiers : idx[n] # 1 => topic[n] \in Topics,
         Unregister(c, idx, topic)
  PROVE  /\ clients' \in Seq(Conns)
         /\ skipped' \in [Notifiers -> SUBSET Conns]
         /\ excused' \in [Conns -> SUBSET Topics]
<1>1. /\ clients \in Seq(Conns) /\ Len(clients) \in Nat
      /\ skipped \in [Notifiers -> SUBSET Conns]
      /\ excused \in [Conns -> SUBSET Topics]
  BY DEF Typed, TypeOK
<1>2. clients' \in Seq(Conns)
  <2>1. CASE Contains(clients, c)
    BY <1>1, <2>1, RemoveFirstProperties DEF Unregister
  <2>2. CASE ~ Contains(clients, c)
    BY <1>1, <2>2 DEF Unregister, RemoveFirst, Contains
  <2> QED
    BY <2>1, <2>2
<1> DEFINE over == [n \in Notifiers |-> Overrun(n, c, idx)]
<1>3. /\ over \in [Notifiers -> SUBSET Conns]
      /\ \A n \in Notifiers : over[n] # {} => topic[n] \in Topics
  <2> SUFFICES ASSUME NEW n \in Notifiers
               PROVE  /\ Overrun(n, c, idx) \subseteq Conns
                      /\ Overrun(n, c, idx) # {} => topic[n] \in Topics
    BY DEF Overrun
  <2>1. idx[n] \in Nat \ {0}
    OBVIOUS
  <2>2. idx[n] <= Len(clients) => clients[idx[n]] \in Conns
    BY <1>1, <2>1, ElementOfSeq
  <2>3. idx[n] = 1 => Overrun(n, c, idx) = {}
    BY DEF Overrun
  <2> QED
    BY <2>2, <2>3 DEF Overrun
<1>4. /\ skipped' = [n \in Notifiers |-> skipped[n] \cup over[n]]
      /\ excused' = [x \in Conns |-> excused[x] \cup
           {topic[n] : n \in {n \in Notifiers : x \in over[n]}}]
  BY DEF Unregister, Overrun
<1> HIDE DEF over
<1>5. skipped' \in [Notifiers -> SUBSET Conns]
  BY <1>1, <1>3, <1>4
<1>6. excused' \in [Conns -> SUBSET Topics]
  <2> DEFINE late(x) == {topic[n] : n \in {n \in Notifiers : x \in over[n]}}
  <2>1. \A x \in Conns : late(x) \subseteq Topics
    BY <1>3
  <2>2. excused' = [x \in Conns |-> excused[x] \cup late(x)]
    BY <1>4
  <2> QED
    BY <1>1, <2>1, <2>2
<1> QED
  BY <1>2, <1>5, <1>6

(* The reply of a task keeps the types and leaves the task a connection.   *)
LEMMA SendReplyTyped ==
  ASSUME Typed, NEW k \in Tasks, tconn[k] \in Conns, SendReply(k)
  PROVE  /\ clients' \in Seq(Conns)
         /\ skipped' \in [Notifiers -> SUBSET Conns]
         /\ excused' \in [Conns -> SUBSET Topics]
         /\ tpc' \in [Tasks -> {"free", "ready", "running", "sending",
                                "replying", "closing"}]
         /\ tconn' \in [Tasks -> Conns \cup {None}]
         /\ tmethod' \in [Tasks -> {"subscribe", "unsubscribe", "call",
                                    "reject", None}]
         /\ todo' \in [Tasks -> Seq(Topics)]
         /\ \A h \in Tasks : tpc'[h] # "free" => tconn'[h] \in Conns
<1> DEFINE TasksTyped ==
      /\ tpc \in [Tasks -> {"free", "ready", "running", "sending", "replying",
                            "closing"}]
      /\ tconn \in [Tasks -> Conns \cup {None}]
      /\ tmethod \in [Tasks -> {"subscribe", "unsubscribe", "call", "reject",
                                None}]
      /\ todo \in [Tasks -> Seq(Topics)]
      /\ \A h \in Tasks : tpc[h] # "free" => tconn[h] \in Conns
<1>0. TasksTyped /\ <<>> \in Seq(Topics)
  BY DEF Typed, TypeOK, Wiring
<1>1. FreeTask(k) => TasksTyped'
  BY <1>0 DEF FreeTask
<1>2. (\E pc \in {"closing", "replying"} : TaskAt(k, pc)) => TasksTyped'
  BY <1>0 DEF TaskAt
<1>3. /\ clients' \in Seq(Conns)
      /\ skipped' \in [Notifiers -> SUBSET Conns]
      /\ excused' \in [Conns -> SUBSET Topics]
  <2>1. CASE Unregister(tconn[k], nidx, ntopic)
    BY <2>1, UnregisterTyped DEF Typed, TypeOK, Wiring
  <2>2. CASE UNCHANGED <<clients, skipped, excused>>
    BY <2>2 DEF Typed, TypeOK
  <2> QED
    BY <2>1, <2>2 DEF SendReply
<1>4. FreeTask(k) \/ \E pc \in {"closing", "replying"} : TaskAt(k, pc)
  BY DEF SendReply
<1> QED
  BY <1>1, <1>2, <1>3, <1>4

(* Positions of notify() give it a client, and its frame keeps the types.  *)
LEMMA VisitTyped ==
  ASSUME Typed, NEW n \in Notifiers, NEW t \in Topics, NEW d \in 0..MaxSerial,
         NEW i \in Nat \ {0}, NEW audience \in SUBSET Conns,
         Visit(n, t, d, i, audience)
  PROVE  /\ clients' \in Seq(Conns)
         /\ npc' \in [Notifiers -> {"idle", "draining", "closing"}]
         /\ ntopic' \in [Notifiers -> Topics \cup {None}]
         /\ ndata' \in [Notifiers -> 0..MaxSerial]
         /\ nidx' \in [Notifiers -> Nat \ {0}]
         /\ at' \in [Notifiers -> Conns \cup {None}]
         /\ sent' \in [Notifiers -> Seq(Conns)]
         /\ due' \in [Notifiers -> SUBSET Conns]
         /\ skipped' \in [Notifiers -> SUBSET Conns]
         /\ seen' \in [Conns -> [Topics -> 0..MaxSerial]]
         /\ excused' \in [Conns -> SUBSET Topics]
         /\ \A m \in Notifiers :
              IF npc'[m] = "idle"
              THEN nidx'[m] = 1 /\ sent'[m] = <<>>
              ELSE ntopic'[m] \in Topics /\ at'[m] \in Conns
<1>0. TypeOK /\ Wiring
  BY DEF Typed
<1>1. PICK j \in i..Len(clients) :
        LET c == clients[j] IN
        /\ nidx' = [nidx EXCEPT ![n] = ResumesAt(j)]
        /\ at' = [at EXCEPT ![n] = c]
        /\ ntopic' = [ntopic EXCEPT ![n] = t]
        /\ ndata' = [ndata EXCEPT ![n] = d]
        /\ due' = [due EXCEPT ![n] = audience]
        /\ \/ /\ npc' = [npc EXCEPT ![n] = "closing"]
              /\ Unregister(c, nidx', ntopic')
              /\ UNCHANGED <<sent, seen>>
           \/ /\ npc' = [npc EXCEPT ![n] = "draining"]
              /\ sent' = [sent EXCEPT ![n] = Append(@, c)]
              /\ Written(c, t, d)
              /\ UNCHANGED <<clients, skipped>>
  BY DEF Visit
<1> DEFINE c == clients[j]
<1>2. /\ clients \in Seq(Conns) /\ Len(clients) \in Nat
      /\ j \in 1..Len(clients) /\ c \in Conns
  BY <1>0, ElementOfSeq DEF TypeOK
<1> HIDE DEF c
<1>3. /\ nidx' \in [Notifiers -> Nat \ {0}]
      /\ at' \in [Notifiers -> Conns \cup {None}]
      /\ ntopic' \in [Notifiers -> Topics \cup {None}]
      /\ ndata' \in [Notifiers -> 0..MaxSerial]
      /\ due' \in [Notifiers -> SUBSET Conns]
      /\ npc' \in [Notifiers -> {"idle", "draining", "closing"}]
  <2>1. j + 1 \in Nat \ {0} /\ nidx' = [nidx EXCEPT ![n] = j + 1]
    BY <1>1, <1>2 DEF ResumesAt
  <2>2. nidx' \in [Notifiers -> Nat \ {0}]
    BY <1>0, <2>1 DEF TypeOK
  <2>3. at' = [at EXCEPT ![n] = c]
    BY <1>1 DEF c
  <2>4. at' \in [Notifiers -> Conns \cup {None}]
    BY <1>0, <1>2, <2>3 DEF TypeOK
  <2>5. ntopic' \in [Notifiers -> Topics \cup {None}]
    BY <1>0, <1>1 DEF TypeOK
  <2>6. ndata' \in [Notifiers -> 0..MaxSerial]
    BY <1>0, <1>1 DEF TypeOK
  <2>7. due' \in [Notifiers -> SUBSET Conns]
    BY <1>0, <1>1 DEF TypeOK
  <2>8. npc' \in [Notifiers -> {"idle", "draining", "closing"}]
    BY <1>0, <1>1 DEF TypeOK
  <2> QED
    BY <2>2, <2>4, <2>5, <2>6, <2>7, <2>8
<1>4. \A m \in Notifiers :
        IF npc'[m] = "idle" THEN nidx'[m] = 1 /\ sent'[m] = <<>>
                            ELSE ntopic'[m] \in Topics /\ at'[m] \in Conns
  <2> SUFFICES ASSUME NEW m \in Notifiers
               PROVE  IF npc'[m] = "idle"
                      THEN nidx'[m] = 1 /\ sent'[m] = <<>>
                      ELSE ntopic'[m] \in Topics /\ at'[m] \in Conns
    OBVIOUS
  <2>1. CASE m = n
    BY <1>0, <1>1, <1>2, <2>1 DEF TypeOK, c
  <2>2. CASE m # n
    BY <1>0, <1>1, <2>2 DEF TypeOK, Wiring
  <2> QED
    BY <2>1, <2>2
<1>5. CASE Unregister(c, nidx', ntopic') /\ UNCHANGED <<sent, seen>>
  <2>1. \A m \in Notifiers : nidx'[m] # 1 => ntopic'[m] \in Topics
    BY <1>0, <1>1 DEF TypeOK, Wiring
  <2>2. /\ clients' \in Seq(Conns)
        /\ skipped' \in [Notifiers -> SUBSET Conns]
        /\ excused' \in [Conns -> SUBSET Topics]
    BY <1>2, <1>3, <1>5, <2>1, UnregisterTyped
  <2> QED
    BY <1>0, <1>3, <1>4, <1>5, <2>2 DEF TypeOK
<1>6. CASE /\ sent' = [sent EXCEPT ![n] = Append(@, c)]
           /\ Written(c, t, d)
           /\ UNCHANGED <<clients, skipped>>
  <2>1. seen' \in [Conns -> [Topics -> 0..MaxSerial]]
    BY <1>0, <1>2, <1>6 DEF TypeOK, Written
  <2>2. excused' \in [Conns -> SUBSET Topics]
    BY <1>0, <1>2, <1>6 DEF TypeOK, Written
  <2>3. sent' \in [Notifiers -> Seq(Conns)]
    BY <1>0, <1>2, <1>6 DEF TypeOK
  <2>4. clients' \in Seq(Conns) /\ skipped' \in [Notifiers -> SUBSET Conns]
    BY <1>0, <1>6 DEF TypeOK
  <2> QED
    BY <1>3, <1>4, <2>1, <2>2, <2>3, <2>4
<1> QED
  BY <1>1, <1>5, <1>6 DEF c

(* A notify() that returns keeps the types.                                *)
LEMMA ExhaustedTyped ==
  ASSUME Typed, NEW n \in Notifiers, NEW t, NEW i, Exhausted(n, t, i)
  PROVE  /\ clients' \in Seq(Conns)
         /\ npc' \in [Notifiers -> {"idle", "draining", "closing"}]
         /\ ntopic' \in [Notifiers -> Topics \cup {None}]
         /\ ndata' \in [Notifiers -> 0..MaxSerial]
         /\ nidx' \in [Notifiers -> Nat \ {0}]
         /\ at' \in [Notifiers -> Conns \cup {None}]
         /\ sent' \in [Notifiers -> Seq(Conns)]
         /\ due' \in [Notifiers -> SUBSET Conns]
         /\ skipped' \in [Notifiers -> SUBSET Conns]
         /\ seen' \in [Conns -> [Topics -> 0..MaxSerial]]
         /\ excused' \in [Conns -> SUBSET Topics]
         /\ \A m \in Notifiers :
              IF npc'[m] = "idle"
              THEN nidx'[m] = 1 /\ sent'[m] = <<>>
              ELSE ntopic'[m] \in Topics /\ at'[m] \in Conns
<1>1. TypeOK /\ Wiring /\ <<>> \in Seq(Conns) /\ 0 \in 0..MaxSerial
  BY PubSubAssumption DEF Typed
<1>2. \A m \in Notifiers :
        IF npc'[m] = "idle"
        THEN nidx'[m] = 1 /\ sent'[m] = <<>>
        ELSE ntopic'[m] \in Topics /\ at'[m] \in Conns
  BY <1>1 DEF Exhausted, TypeOK, Wiring
<1>3. /\ npc' \in [Notifiers -> {"idle", "draining", "closing"}]
      /\ ntopic' \in [Notifiers -> Topics \cup {None}]
      /\ ndata' \in [Notifiers -> 0..MaxSerial]
      /\ nidx' \in [Notifiers -> Nat \ {0}]
      /\ at' \in [Notifiers -> Conns \cup {None}]
  BY <1>1 DEF Exhausted, TypeOK
<1> QED
  BY <1>1, <1>2, <1>3 DEF Exhausted, TypeOK, viewVars

(* The initial state has the types.                                        *)
LEMMA TypedInit == Init => Typed
<1> SUFFICES ASSUME Init PROVE Typed
  OBVIOUS
<1>1. TypeOK
  BY PubSubAssumption, EmptySeq DEF Init, TypeOK
<1>2. Wiring
  BY DEF Init, Wiring
<1> QED
  BY <1>1, <1>2 DEF Typed

(* Every step keeps the types.                                             *)
LEMMA TypedNext == Typed /\ [Next]_vars => Typed'
<1> SUFFICES ASSUME Typed, [Next]_vars
             PROVE  Typed'
  OBVIOUS
<1>0. TypeOK /\ Wiring
  BY DEF Typed
<1> USE PubSubAssumption DEF Typed, connVars, notifyVars, taskVars, viewVars,
                            wishVars
<1>1. ASSUME NEW t \in Topics, AddTopic(t) PROVE Typed'
  BY <1>0, <1>1 DEF AddTopic, TypeOK, Wiring
<1>2. ASSUME NEW c \in Conns, ConnStep(c) PROVE Typed'
  <2>1. CASE Prepare(c)
    BY <1>0, <2>1 DEF Prepare, TypeOK, Wiring
  <2>2. CASE Register(c)
    BY <1>0, <2>2 DEF Register, Enlisted, TypeOK, Wiring
  <2>3. CASE TransportLost(c)
    BY <1>0, <2>3 DEF TransportLost, TypeOK, Wiring
  <2>4. CASE ReceiveClose(c)
    BY <1>0, <2>4 DEF ReceiveClose, TypeOK, Wiring
  <2>5. CASE LoopExit(c)
    <3>1. /\ clients' \in Seq(Conns)
          /\ skipped' \in [Notifiers -> SUBSET Conns]
          /\ excused' \in [Conns -> SUBSET Topics]
      BY <1>0, <2>5, UnregisterTyped DEF LoopExit, TypeOK, Wiring
    <3> QED
      BY <1>0, <2>5, <3>1 DEF LoopExit, TypeOK, Wiring
  <2>6. CASE CancelLoop(c)
    BY <1>0, <2>6 DEF CancelLoop, TypeOK, Wiring
  <2> QED
    BY <1>2, <2>1, <2>2, <2>3, <2>4, <2>5, <2>6 DEF ConnStep
<1>3. ASSUME NEW k \in Tasks, NEW c \in Conns, NEW m \in Methods,
             NEW p \in Params, Receive(k, c, m, p)
      PROVE  Typed'
  <2>1. TypeOK'
    <3>1. queue' \in Seq(Tasks) /\ todo' \in [Tasks -> Seq(Topics)]
      BY <1>0, <1>3 DEF Receive, TypeOK
    <3>2. wanted' \in [Conns -> SUBSET Topics]
      BY <1>0, <1>3 DEF Receive, TypeOK
    <3>3. /\ tpc' \in [Tasks -> {"free", "ready", "running", "sending",
                                 "replying", "closing"}]
          /\ tconn' \in [Tasks -> Conns \cup {None}]
          /\ tmethod' \in [Tasks -> {"subscribe", "unsubscribe", "call",
                                     "reject", None}]
      BY <1>0, <1>3 DEF Receive, TypeOK
    <3> QED
      BY <1>0, <1>3, <3>1, <3>2, <3>3 DEF Receive, TypeOK
  <2>2. Wiring'
    BY <1>0, <1>3 DEF Receive, TypeOK, Wiring
  <2> QED
    BY <2>1, <2>2
<1>4. ASSUME NEW k \in Tasks, TaskStep(k) PROVE Typed'
  <2>1. CASE Reject(k)
    <3>1. SendReply(k) /\ tconn[k] \in Conns
      BY <1>0, <2>1 DEF Reject, Starts, Wiring
    <3>2. queue' \in Seq(Tasks)
      BY <1>0, <2>1 DEF Reject, Starts, TypeOK
    <3> QED
      BY <1>0, <2>1, <3>1, <3>2, SendReplyTyped DEF Reject, TypeOK, Wiring
  <2>2. CASE CallMethod(k)
    <3>1. /\ queue' \in Seq(Tasks)
          /\ tpc' \in [Tasks -> {"free", "ready", "running", "sending",
                                 "replying", "closing"}]
      BY <1>0, <2>2 DEF CallMethod, Starts, TypeOK
    <3>2. TypeOK'
      BY <1>0, <2>2, <3>1 DEF CallMethod, TypeOK
    <3>3. Wiring'
      BY <1>0, <2>2 DEF CallMethod, Starts, TypeOK, Wiring
    <3> QED
      BY <3>2, <3>3
  <2>3. CASE MethodReturns(k)
    BY <1>0, <2>3, SendReplyTyped DEF MethodReturns, TypeOK, Wiring
  <2>4. CASE RunUnsubscribe(k)
    <3>1. SendReply(k) /\ tconn[k] \in Conns
      BY <1>0, <2>4 DEF RunUnsubscribe, Starts, Wiring
    <3>2. subs' \in [Conns -> SUBSET Topics]
      BY <1>0, <2>4 DEF RunUnsubscribe, TypeOK
    <3>3. due' \in [Notifiers -> SUBSET Conns]
      BY <1>0, <2>4 DEF RunUnsubscribe, TypeOK
    <3>4. revived' \in [Conns -> SUBSET Topics]
      <4>1. ToSet(todo[k]) \subseteq Topics
        BY <1>0, ElementOfSeq, LenProperties DEF TypeOK, ToSet
      <4> QED
        BY <1>0, <2>4, <4>1 DEF RunUnsubscribe, TypeOK
    <3>5. queue' \in Seq(Tasks)
      BY <1>0, <2>4 DEF RunUnsubscribe, Starts, TypeOK
    <3> QED
      BY <1>0, <2>4, <3>1, <3>2, <3>3, <3>4, <3>5, SendReplyTyped
         DEF RunUnsubscribe, TypeOK, Wiring
  <2>5. CASE SubscribeReturns(k)
    <3>1. SendReply(k) /\ tconn[k] \in Conns
      BY <1>0, <2>5 DEF SubscribeReturns, Subscribing, Starts, Wiring
    <3>2. subs' \in [Conns -> SUBSET Topics]
      BY <1>0, <2>5 DEF SubscribeReturns, SubscribeTo, TypeOK
    <3>3. queue' \in Seq(Tasks)
      <4>1. Starts(k) \/ queue' = queue
        BY <2>5 DEF SubscribeReturns, Subscribing
      <4>2. Starts(k) => queue' \in Seq(Tasks)
        BY <1>0 DEF Starts, TypeOK
      <4> QED
        BY <1>0, <4>1, <4>2 DEF TypeOK
    <3> QED
      BY <1>0, <2>5, <3>1, <3>2, <3>3, SendReplyTyped
         DEF SubscribeReturns, TypeOK, Wiring
  <2>6. ASSUME NEW j \in DOMAIN todo[k], ReplayState(k, j) PROVE Typed'
    <3>1. tconn[k] \in Conns
      BY <1>0, <2>6 DEF ReplayState, Subscribing, Starts, Wiring
    <3>2. subs' \in [Conns -> SUBSET Topics]
      BY <1>0, <2>6 DEF ReplayState, SubscribeTo, TypeOK
    <3>3. queue' \in Seq(Tasks)
      <4>1. Starts(k) \/ queue' = queue
        BY <2>6 DEF ReplayState, Subscribing
      <4>2. Starts(k) => queue' \in Seq(Tasks)
        BY <1>0 DEF Starts, TypeOK
      <4> QED
        BY <1>0, <4>1, <4>2 DEF TypeOK
    <3>4. CASE SendReply(k) /\ UNCHANGED seen
      BY <1>0, <2>6, <3>1, <3>2, <3>3, <3>4, SendReplyTyped
         DEF ReplayState, TypeOK, Wiring
    <3>5. CASE /\ tpc' = [tpc EXCEPT ![k] = "sending"]
               /\ todo' = [todo EXCEPT ![k] = SubSeq(@, j + 1, Len(@))]
               /\ Written(tconn[k], todo[k][j], state[todo[k][j]])
               /\ UNCHANGED <<tconn, tmethod, clients, skipped>>
      <4>1. /\ todo[k] \in Seq(Topics) /\ Len(todo[k]) \in Nat
            /\ j \in 1..Len(todo[k])
        BY <1>0 DEF TypeOK
      <4>2. todo[k][j] \in Topics
        BY <4>1, ElementOfSeq
      <4>3. SubSeq(todo[k], j + 1, Len(todo[k])) \in Seq(Topics)
        <5>1. \A i \in (j + 1)..Len(todo[k]) : todo[k][i] \in Topics
          BY <4>1, ElementOfSeq
        <5>2. j + 1 \in Int /\ Len(todo[k]) \in Int
          BY <4>1
        <5> QED
          BY <5>1, <5>2, SubSeqProperties
      <4>4. todo' \in [Tasks -> Seq(Topics)]
        BY <1>0, <3>5, <4>3 DEF TypeOK
      <4>5. seen' \in [Conns -> [Topics -> 0..MaxSerial]]
        BY <1>0, <3>1, <3>5, <4>2 DEF TypeOK, Written
      <4>6. excused' \in [Conns -> SUBSET Topics]
        BY <1>0, <3>1, <3>5, <4>2 DEF TypeOK, Written
      <4> QED
        BY <1>0, <2>6, <3>1, <3>2, <3>3, <3>5, <4>4, <4>5, <4>6
           DEF ReplayState, TypeOK, Wiring
    <3> QED
      BY <2>6, <3>4, <3>5 DEF ReplayState
  <2>7. CASE DrainFails(k)
    BY <1>0, <2>7, SendReplyTyped DEF DrainFails, TypeOK, Wiring
  <2>8. CASE TaskReplied(k)
    BY <1>0, <2>8, EmptySeq DEF TaskReplied, FreeTask, TypeOK, Wiring
  <2>9. CASE TaskClosed(k)
    BY <1>0, <2>9, EmptySeq DEF TaskClosed, FreeTask, TypeOK, Wiring
  <2> QED
    BY <1>4, <2>1, <2>2, <2>3, <2>4, <2>5, <2>6, <2>7, <2>8, <2>9 DEF TaskStep
<1>5. ASSUME NEW n \in Notifiers, NEW t \in Topics, NEW s \in BOOLEAN,
             StartNotify(n, t, s)
      PROVE  Typed'
  <2>1. serial' \in 0..MaxSerial /\ state' \in [Topics -> 0..MaxSerial]
    BY <1>0, <1>5 DEF StartNotify, TypeOK
  <2>2. CASE Visit(n, t, serial', 1, Subscribers(t))
    <3>1. Subscribers(t) \subseteq Conns
      BY DEF Subscribers
    <3> QED
      BY <1>0, <1>5, <2>1, <2>2, <3>1, VisitTyped
         DEF StartNotify, TypeOK, Wiring
  <2>3. CASE Exhausted(n, t, 1)
    BY <1>0, <1>5, <2>1, <2>3, ExhaustedTyped DEF StartNotify, TypeOK, Wiring
  <2> QED
    BY <1>5, <2>2, <2>3 DEF StartNotify
<1>6. ASSUME NEW n \in Notifiers, NotifierStep(n) PROVE Typed'
  <2>1. CASE ResumeNotify(n)
    <3>1. /\ ntopic[n] \in Topics /\ ndata[n] \in 0..MaxSerial
          /\ nidx[n] \in Nat \ {0} /\ due[n] \subseteq Conns
      BY <1>0, <2>1 DEF ResumeNotify, TypeOK, Wiring
    <3>2. CASE Visit(n, ntopic[n], ndata[n], nidx[n], due[n])
      BY <1>0, <2>1, <3>1, <3>2, VisitTyped DEF ResumeNotify, TypeOK, Wiring
    <3>3. CASE Exhausted(n, ntopic[n], nidx[n])
      BY <1>0, <2>1, <3>3, ExhaustedTyped DEF ResumeNotify, TypeOK, Wiring
    <3> QED
      BY <2>1, <3>2, <3>3 DEF ResumeNotify
  <2>2. CASE NotifyClosed(n)
    BY <1>0, <2>2 DEF NotifyClosed, TypeOK, Wiring
  <2> QED
    BY <1>6, <2>1, <2>2 DEF NotifierStep
<1>7. CASE UNCHANGED vars
  BY <1>0, <1>7 DEF vars, TypeOK, Wiring
<1> QED
  BY <1>1, <1>2, <1>3, <1>4, <1>5, <1>6, <1>7 DEF Next

(* The typing invariant holds in every instance of the model.              *)
THEOREM TypeCorrect == Spec => []TypeOK
<1>1. Typed => TypeOK
  BY DEF Typed
<1> QED
  BY TypedInit, TypedNext, <1>1, PTL DEF Spec

-----------------------------------------------------------------------------
(* The registry.                                                           *)

(* Removing an entry from a list without repetitions removes that client   *)
(* and no other.                                                           *)
LEMMA RemovalEffect ==
  ASSUME Typed, IsInjective(clients), NEW c \in Conns, Member(c),
         clients' = RemoveFirst(clients, c)
  PROVE  /\ IsInjective(clients')
         /\ \A x \in Conns : Member(x)' <=> Member(x) /\ x # c
         /\ Len(clients') = Len(clients) - 1
         /\ \E p \in 1..Len(clients) :
              /\ clients[p] = c
              /\ \A q \in 1..Len(clients') :
                   clients'[q] = IF q < p THEN clients[q] ELSE clients[q + 1]
<1>1. clients \in Seq(Conns) /\ Len(clients) \in Nat
  BY DEF Typed, TypeOK
<1>2. /\ clients' \in Seq(Conns) /\ Len(clients') = Len(clients) - 1
      /\ \E p \in 1..Len(clients) :
           /\ clients[p] = c
           /\ \A q \in 1..Len(clients') :
                clients'[q] = IF q < p THEN clients[q] ELSE clients[q + 1]
  <2>1. PICK r : r = RemoveFirst(clients, c)
    OBVIOUS
  <2>2. /\ r \in Seq(Conns) /\ Len(r) = Len(clients) - 1
        /\ \E p \in 1..Len(clients) :
             /\ clients[p] = c
             /\ \A q \in 1..Len(r) :
                  r[q] = IF q < p THEN clients[q] ELSE clients[q + 1]
    BY <1>1, <2>1, RemoveFirstProperties DEF Member
  <2> QED
    BY <2>1, <2>2
<1>3. PICK p \in 1..Len(clients) :
        /\ clients[p] = c
        /\ \A q \in 1..Len(clients') :
             clients'[q] = IF q < p THEN clients[q] ELSE clients[q + 1]
  BY <1>2
<1>4. \A a, b \in 1..Len(clients) : clients[a] = clients[b] => a = b
  BY <1>1, LenProperties DEF IsInjective
<1>5. ASSUME NEW a \in 1..Len(clients'), NEW b \in 1..Len(clients'),
             clients'[a] = clients'[b]
      PROVE  a = b
  <2>1. PICK x, y : /\ x = IF a < p THEN a ELSE a + 1
                    /\ y = IF b < p THEN b ELSE b + 1
    OBVIOUS
  <2>2. /\ x \in 1..Len(clients) /\ clients'[a] = clients[x]
        /\ y \in 1..Len(clients) /\ clients'[b] = clients[y]
    BY <1>1, <1>2, <1>3, <2>1
  <2>3. x = y
    BY <1>4, <1>5, <2>2
  <2> QED
    BY <1>1, <1>2, <2>1, <2>3
<1>6. IsInjective(clients')
  BY <1>2, <1>5, LenProperties DEF IsInjective
<1>7. ASSUME NEW x \in Conns PROVE Member(x)' <=> Member(x) /\ x # c
  <2>1. ASSUME Member(x)' PROVE Member(x) /\ x # c
    <3>1. PICK q \in 1..Len(clients') : clients'[q] = x
      BY <2>1 DEF Member, Contains
    <3>2. CASE q < p
      BY <1>1, <1>2, <1>3, <1>4, <3>1, <3>2 DEF Member, Contains
    <3>3. CASE ~ (q < p)
      BY <1>1, <1>2, <1>3, <1>4, <3>1, <3>3 DEF Member, Contains
    <3> QED
      BY <3>2, <3>3
  <2>2. ASSUME Member(x), x # c PROVE Member(x)'
    <3>1. PICK q \in 1..Len(clients) : clients[q] = x
      BY <2>2 DEF Member, Contains
    <3>2. CASE q < p
      <4>1. q \in 1..Len(clients') /\ clients'[q] = x
        BY <1>1, <1>2, <1>3, <3>1, <3>2
      <4> QED
        BY <4>1 DEF Member, Contains
    <3>3. CASE q > p
      <4>1. q - 1 \in 1..Len(clients') /\ clients'[q - 1] = x
        BY <1>1, <1>2, <1>3, <3>1, <3>3
      <4> QED
        BY <4>1 DEF Member, Contains
    <3> QED
      BY <1>3, <2>2, <3>1, <3>2, <3>3
  <2> QED
    BY <2>1, <2>2
<1> QED
  BY <1>2, <1>6, <1>7

(* A reply or a notification prunes only a client whose transport closes.  *)
Prunes ==
  \/ clients' = clients
  \/ \E c \in Conns : /\ closing[c] /\ Member(c)
                     /\ clients' = RemoveFirst(clients, c)

(* Tasks prune nothing else, and keep off receive loops and transports.    *)
LEMMA TaskPrunes ==
  ASSUME Typed, NEW k \in Tasks, TaskStep(k)
  PROVE  Prunes /\ UNCHANGED <<loop, closing>>
<1>1. ASSUME tconn[k] \in Conns, SendReply(k) PROVE Prunes
  BY <1>1 DEF SendReply, Dead, Unregister, Prunes
<1>2. tpc[k] # "free" => tconn[k] \in Conns
  BY DEF Typed, Wiring
<1> USE DEF connVars
<1>3. CASE Reject(k)
  BY <1>1, <1>2, <1>3 DEF Reject, Starts
<1>4. CASE CallMethod(k)
  BY <1>4 DEF CallMethod, Prunes
<1>5. CASE MethodReturns(k)
  BY <1>1, <1>2, <1>5 DEF MethodReturns
<1>6. CASE RunUnsubscribe(k)
  BY <1>1, <1>2, <1>6 DEF RunUnsubscribe, Starts
<1>7. CASE SubscribeReturns(k)
  BY <1>1, <1>2, <1>7 DEF SubscribeReturns, Subscribing, Starts
<1>8. CASE \E j \in DOMAIN todo[k] : ReplayState(k, j)
  BY <1>1, <1>2, <1>8 DEF ReplayState, Subscribing, Starts, Prunes
<1>9. CASE DrainFails(k)
  BY <1>1, <1>2, <1>9 DEF DrainFails
<1>10. CASE TaskReplied(k)
  BY <1>10 DEF TaskReplied, Prunes
<1>11. CASE TaskClosed(k)
  BY <1>11 DEF TaskClosed, Prunes
<1> QED
  BY <1>3, <1>4, <1>5, <1>6, <1>7, <1>8, <1>9, <1>10, <1>11 DEF TaskStep

(* The step of an iterator prunes at most the dead client it visits.       *)
LEMMA VisitPrunes ==
  ASSUME Typed, NEW n, NEW t, NEW d, NEW i \in Nat \ {0}, NEW audience,
         Visit(n, t, d, i, audience) \/ Exhausted(n, t, i)
  PROVE  Prunes
<1>1. CASE Exhausted(n, t, i)
  BY <1>1 DEF Exhausted, Prunes
<1>2. CASE Visit(n, t, d, i, audience)
  <2>1. PICK j \in i..Len(clients) :
          \/ /\ closing[clients[j]]
             /\ clients' = RemoveFirst(clients, clients[j])
          \/ clients' = clients
    BY <1>2 DEF Visit, Dead, Unregister
  <2>2. /\ clients \in Seq(Conns) /\ j \in 1..Len(clients)
        /\ clients[j] \in Conns
    BY ElementOfSeq DEF Typed, TypeOK
  <2>3. Member(clients[j])
    BY <2>2 DEF Member, Contains
  <2> QED
    BY <2>1, <2>2, <2>3 DEF Prunes
<1> QED
  BY <1>1, <1>2

(* So does every step of notify().                                         *)
LEMMA NotifyPrunes ==
  ASSUME Typed, NEW n \in Notifiers,
         \/ \E t \in Topics, s \in BOOLEAN : StartNotify(n, t, s)
         \/ NotifierStep(n)
  PROVE  Prunes /\ UNCHANGED <<loop, closing>>
<1> USE DEF connVars
<1>1. CASE \E t \in Topics, s \in BOOLEAN : StartNotify(n, t, s)
  BY <1>1, VisitPrunes DEF StartNotify
<1>2. CASE ResumeNotify(n)
  BY <1>2, VisitPrunes DEF ResumeNotify, Typed, TypeOK
<1>3. CASE NotifyClosed(n)
  BY <1>3 DEF NotifyClosed, Prunes
<1> QED
  BY <1>1, <1>2, <1>3 DEF NotifierStep

(* Every step that prunes or leaves the registry alone keeps it sound.     *)
LEMMA PruneKeepsRegistry ==
  ASSUME Typed, RegistrySound, Prunes, UNCHANGED <<loop, closing>>
  PROVE  RegistrySound'
<1>1. CASE clients' = clients
  BY <1>1 DEF RegistrySound, Member
<1>2. ASSUME NEW c \in Conns, closing[c], Member(c),
             clients' = RemoveFirst(clients, c)
      PROVE  RegistrySound'
  <2>1. /\ IsInjective(clients')
        /\ \A x \in Conns : Member(x)' <=> Member(x) /\ x # c
    BY <1>2, RemovalEffect DEF RegistrySound
  <2> QED
    BY <1>2, <2>1 DEF RegistrySound
<1> QED
  BY <1>1, <1>2 DEF Prunes

(* Every step keeps the registry sound.                                    *)
LEMMA RegistryNext == Typed /\ RegistrySound /\ [Next]_vars => RegistrySound'
<1> SUFFICES ASSUME Typed, RegistrySound, [Next]_vars
             PROVE  RegistrySound'
  OBVIOUS
<1>0. /\ loop \in [Conns -> {"new", "preparing", "receiving", "returned",
                            "raised", "cancelled"}]
      /\ closing \in [Conns -> BOOLEAN]
      /\ clients \in Seq(Conns)
  BY DEF Typed, TypeOK
<1> USE DEF connVars
<1>1. ASSUME UNCHANGED <<loop, closing, clients>> PROVE RegistrySound'
  BY <1>1, PruneKeepsRegistry DEF Prunes
<1>2. ASSUME NEW t \in Topics, AddTopic(t) PROVE RegistrySound'
  BY <1>1, <1>2 DEF AddTopic
<1>3. ASSUME NEW c \in Conns, ConnStep(c) PROVE RegistrySound'
  <2>1. CASE Prepare(c)
    BY <1>0, <2>1 DEF Prepare, RegistrySound, Member
  <2>2. CASE Register(c)
    <3>1. /\ clients' = Append(clients, c) /\ ~Member(c)
          /\ loop' = [loop EXCEPT ![c] = "receiving"] /\ closing' = closing
      BY <1>0, <2>2 DEF Register, Enlisted, RegistrySound
    <3>2. /\ Len(clients) \in Nat /\ Len(clients') = Len(clients) + 1
          /\ \A i \in 1..Len(clients) : clients'[i] = clients[i]
          /\ clients'[Len(clients) + 1] = c
      BY <1>0, <3>1
    <3>3. /\ DOMAIN clients = 1..Len(clients)
          /\ DOMAIN clients' = 1..Len(clients')
      BY <1>0, <3>1
    <3>4. IsInjective(clients')
      BY <3>1, <3>2, <3>3 DEF IsInjective, RegistrySound, Member, Contains
    <3>5. \A x \in Conns : Member(x)' <=> Member(x) \/ x = c
      BY <3>2 DEF Member, Contains
    <3> QED
      BY <1>0, <3>1, <3>4, <3>5 DEF RegistrySound
  <2>3. CASE TransportLost(c)
    BY <1>0, <2>3 DEF TransportLost, RegistrySound, Member
  <2>4. CASE ReceiveClose(c)
    BY <1>1, <2>4 DEF ReceiveClose
  <2>5. CASE LoopExit(c)
    <3>1. /\ clients' = RemoveFirst(clients, c) /\ closing' = closing
          /\ loop' = [loop EXCEPT ![c] = IF Member(c) THEN "returned"
                                                     ELSE "raised"]
          /\ loop[c] = "receiving"
      BY <2>5 DEF LoopExit, Unregister
    <3>2. CASE Member(c)
      <4>1. /\ IsInjective(clients')
            /\ \A x \in Conns : Member(x)' <=> Member(x) /\ x # c
        BY <3>1, <3>2, RemovalEffect DEF RegistrySound
      <4> QED
        BY <1>0, <3>1, <3>2, <4>1 DEF RegistrySound
    <3>3. CASE ~ Member(c)
      <4>1. clients' = clients
        BY <3>1, <3>3 DEF RemoveFirst, Member, Contains
      <4> QED
        BY <1>0, <3>1, <3>3, <4>1 DEF RegistrySound, Member
    <3> QED
      BY <3>2, <3>3
  <2>6. CASE CancelLoop(c)
    BY <1>0, <2>6 DEF CancelLoop, RegistrySound, Member
  <2> QED
    BY <1>3, <2>1, <2>2, <2>3, <2>4, <2>5, <2>6 DEF ConnStep
<1>4. ASSUME NEW k \in Tasks, NEW c \in Conns, NEW m, NEW p,
             Receive(k, c, m, p)
      PROVE  RegistrySound'
  BY <1>1, <1>4 DEF Receive
<1>5. ASSUME NEW k \in Tasks, TaskStep(k) PROVE RegistrySound'
  BY <1>5, TaskPrunes, PruneKeepsRegistry
<1>6. ASSUME NEW n \in Notifiers,
             \/ \E t \in Topics, s \in BOOLEAN : StartNotify(n, t, s)
             \/ NotifierStep(n)
      PROVE  RegistrySound'
  BY <1>6, NotifyPrunes, PruneKeepsRegistry
<1>7. CASE UNCHANGED vars
  BY <1>1, <1>7 DEF vars
<1> QED
  BY <1>2, <1>3, <1>4, <1>5, <1>6, <1>7 DEF Next

(* The empty registry is sound.                                            *)
LEMMA RegistryInit == Init => RegistrySound
BY DEF Init, RegistrySound, IsInjective, Member, Contains

(* A usable connection is never dropped from the registry, none is listed  *)
(* twice, and what is left behind is dead.                                 *)
THEOREM RegistryCorrect == Spec => []RegistrySound
BY TypedInit, TypedNext, RegistryInit, RegistryNext, PTL DEF Spec

-----------------------------------------------------------------------------
(* notify() writes to a client at most once.                               *)

SentOnce == SentBehind /\ NotifyAtMostOnce

(* Nobody returns to the handshake.                                        *)
LoopForward ==
  \A c \in Conns : loop[c] \notin {"new", "preparing"}
                   => loop'[c] \notin {"new", "preparing"}

(* A removal moves nobody in front of an iterator that is past it.         *)
LEMMA RemovalKeepsSent ==
  ASSUME Typed, RegistrySound, SentOnce, LoopForward, UNCHANGED <<nidx, sent>>,
         \/ clients' = clients
         \/ \E c \in Conns : Member(c) /\ clients' = RemoveFirst(clients, c)
  PROVE  SentOnce'
<1>0. /\ clients \in Seq(Conns) /\ sent \in [Notifiers -> Seq(Conns)]
      /\ nidx \in [Notifiers -> Nat \ {0}]
  BY DEF Typed, TypeOK
<1>1. NotifyAtMostOnce'
  BY DEF SentOnce, NotifyAtMostOnce
<1>2. ASSUME NEW n \in Notifiers, NEW i \in 1..Len(sent'[n])
      PROVE  loop'[sent'[n][i]] \notin {"new", "preparing"}
  <2>1. sent[n][i] \in Conns
    BY <1>0, <1>2, ElementOfSeq
  <2> QED
    BY <1>2, <2>1 DEF SentOnce, SentBehind, LoopForward
<1>3. ASSUME NEW n \in Notifiers, NEW i \in 1..Len(sent'[n]),
             NEW j \in 1..Len(clients'), clients'[j] = sent'[n][i]
      PROVE  j < nidx'[n]
  <2>1. CASE clients' = clients
    BY <1>3, <2>1 DEF SentOnce, SentBehind
  <2>2. ASSUME NEW c \in Conns, Member(c), clients' = RemoveFirst(clients, c)
        PROVE  j < nidx'[n]
    <3>1. PICK p \in 1..Len(clients) :
            /\ Len(clients') = Len(clients) - 1
            /\ \A q \in 1..Len(clients') :
                 clients'[q] = IF q < p THEN clients[q] ELSE clients[q + 1]
      BY <2>2, RemovalEffect DEF RegistrySound
    <3>2. Len(clients) \in Nat /\ nidx[n] \in Nat
      BY <1>0
    <3>3. j \in 1..Len(clients) /\ j + 1 \in 1..Len(clients)
      BY <3>1, <3>2
    <3>4. CASE clients[j] = sent[n][i]
      BY <1>3, <3>2, <3>3, <3>4 DEF SentOnce, SentBehind
    <3>5. CASE clients[j + 1] = sent[n][i]
      <4>1. j + 1 < nidx[n]
        BY <1>3, <3>3, <3>5 DEF SentOnce, SentBehind
      <4> QED
        BY <3>2, <3>3, <4>1
    <3> QED
      BY <1>3, <3>1, <3>4, <3>5
  <2> QED
    BY <2>1, <2>2
<1> QED
  BY <1>1, <1>2, <1>3 DEF SentOnce, SentBehind

(* A client registers behind every iterator that could meet it again.      *)
LEMMA RegisterKeepsSent ==
  ASSUME Typed, RegistrySound, SentOnce, NEW c \in Conns, Register(c)
  PROVE  SentOnce'
<1>0. /\ clients \in Seq(Conns) /\ sent \in [Notifiers -> Seq(Conns)]
      /\ loop \in [Conns -> {"new", "preparing", "receiving", "returned",
                             "raised", "cancelled"}]
  BY DEF Typed, TypeOK
<1>1. /\ clients' = Append(clients, c) /\ loop[c] = "preparing"
      /\ loop' = [loop EXCEPT ![c] = "receiving"]
      /\ nidx' = nidx /\ sent' = sent
  BY DEF Register, Enlisted, notifyVars
<1>2. /\ Len(clients) \in Nat /\ Len(clients') = Len(clients) + 1
      /\ \A i \in 1..Len(clients) : clients'[i] = clients[i]
      /\ clients'[Len(clients) + 1] = c
  BY <1>0, <1>1
<1>3. NotifyAtMostOnce'
  BY <1>1 DEF SentOnce, NotifyAtMostOnce
<1>4. ASSUME NEW n \in Notifiers, NEW i \in 1..Len(sent[n])
      PROVE  /\ loop'[sent[n][i]] \notin {"new", "preparing"}
             /\ \A j \in 1..Len(clients') :
                  clients'[j] = sent[n][i] => j < nidx[n]
  <2>1. sent[n][i] \in Conns /\ loop[sent[n][i]] \notin {"new", "preparing"}
    BY <1>0, <1>4, ElementOfSeq DEF SentOnce, SentBehind
  <2>2. sent[n][i] # c
    BY <1>1, <2>1
  <2> QED
    BY <1>0, <1>1, <1>2, <1>4, <2>1, <2>2 DEF SentOnce, SentBehind
<1> QED
  BY <1>1, <1>3, <1>4 DEF SentOnce, SentBehind

(* The next client is at or behind the iterator, so it was not written to. *)
LEMMA VisitKeepsSent ==
  ASSUME Typed, RegistrySound, SentOnce, UNCHANGED loop, NEW n \in Notifiers,
         NEW t \in Topics, NEW d, NEW audience,
         Visit(n, t, d, nidx[n], audience)
  PROVE  SentOnce'
<1>0. /\ clients \in Seq(Conns) /\ sent \in [Notifiers -> Seq(Conns)]
      /\ nidx \in [Notifiers -> Nat \ {0}]
      /\ loop \in [Conns -> {"new", "preparing", "receiving", "returned",
                             "raised", "cancelled"}]
      /\ Len(clients) \in Nat
  BY DEF Typed, TypeOK
<1>1. PICK j \in nidx[n]..Len(clients) :
        /\ nidx' = [nidx EXCEPT ![n] = j + 1]
        /\ \/ clients' = RemoveFirst(clients, clients[j]) /\ sent' = sent
           \/ /\ clients' = clients
              /\ sent' = [sent EXCEPT ![n] = Append(@, clients[j])]
  BY DEF Visit, ResumesAt, Unregister
<1> DEFINE c == clients[j]
<1>2. j \in 1..Len(clients) /\ c \in Conns /\ Member(c)
  BY <1>0, ElementOfSeq DEF Member, Contains
<1>3. \A a, b \in 1..Len(clients) : clients[a] = clients[b] => a = b
  BY <1>0, LenProperties DEF RegistrySound, IsInjective
<1>4. /\ \A m \in Notifiers : nidx'[m] \in Nat /\ nidx[m] <= nidx'[m]
      /\ nidx'[n] = j + 1
  BY <1>0, <1>1, <1>2
<1>5. CASE clients' = RemoveFirst(clients, c) /\ sent' = sent
  <2>1. PICK p \in 1..Len(clients) :
          /\ Len(clients') = Len(clients) - 1
          /\ \A q \in 1..Len(clients') :
               clients'[q] = IF q < p THEN clients[q] ELSE clients[q + 1]
    BY <1>2, <1>5, RemovalEffect DEF RegistrySound
  <2>2. ASSUME NEW m \in Notifiers, NEW i \in 1..Len(sent[m]),
               NEW q \in 1..Len(clients'), clients'[q] = sent[m][i]
        PROVE  q < nidx'[m]
    <3>1. q \in 1..Len(clients) /\ q + 1 \in 1..Len(clients)
      BY <1>0, <2>1
    <3>2. CASE clients[q] = sent[m][i]
      <4>1. q < nidx[m]
        BY <2>2, <3>1, <3>2 DEF SentOnce, SentBehind
      <4> QED
        BY <1>0, <1>4, <3>1, <4>1
    <3>3. CASE clients[q + 1] = sent[m][i]
      <4>1. q + 1 < nidx[m]
        BY <2>2, <3>1, <3>3 DEF SentOnce, SentBehind
      <4> QED
        BY <1>0, <1>4, <3>1, <4>1
    <3> QED
      BY <2>1, <2>2, <3>2, <3>3
  <2> QED
    BY <1>5, <2>2 DEF SentOnce, SentBehind, NotifyAtMostOnce
<1>6. CASE /\ clients' = clients
           /\ sent' = [sent EXCEPT ![n] = Append(@, c)]
  <2>1. \A m \in Notifiers \ {n} : sent'[m] = sent[m]
    BY <1>0, <1>6
  <2>2. sent'[n] = Append(sent[n], c) /\ sent[n] \in Seq(Conns)
    BY <1>0, <1>6
  <2>3. /\ Len(sent[n]) \in Nat /\ Len(sent'[n]) = Len(sent[n]) + 1
        /\ \A i \in 1..Len(sent[n]) : sent'[n][i] = sent[n][i]
        /\ sent'[n][Len(sent[n]) + 1] = c
        /\ DOMAIN sent[n] = 1..Len(sent[n])
        /\ DOMAIN sent'[n] = 1..Len(sent'[n])
    <3> DEFINE s == sent[n]
    <3>1. s \in Seq(Conns)
      BY <2>2
    <3> HIDE DEF s
    <3>2. /\ Len(s) \in Nat /\ Len(Append(s, c)) = Len(s) + 1
          /\ \A i \in 1..Len(s) : Append(s, c)[i] = s[i]
          /\ Append(s, c)[Len(s) + 1] = c
          /\ DOMAIN s = 1..Len(s)
          /\ DOMAIN Append(s, c) = 1..Len(Append(s, c))
      BY <1>2, <3>1
    <3> QED
      BY <2>2, <3>2 DEF s
  <2>4. \A i \in 1..Len(sent[n]) : sent[n][i] # c
    BY <1>0, <1>2 DEF SentOnce, SentBehind
  <2>5. loop[c] \notin {"new", "preparing"}
    BY <1>0, <1>2 DEF RegistrySound
  <2>6. NotifyAtMostOnce'
    <3>1. IsInjective(sent'[n])
      <4>1. \A a, b \in 1..Len(sent[n]) : sent[n][a] = sent[n][b] => a = b
        BY <2>3 DEF SentOnce, NotifyAtMostOnce, IsInjective
      <4> DEFINE s == sent[n]
                 r == sent'[n]
      <4>2. /\ Len(s) \in Nat /\ DOMAIN r = 1..(Len(s) + 1)
            /\ \A i \in 1..Len(s) : r[i] = s[i] /\ s[i] # c
            /\ r[Len(s) + 1] = c
            /\ \A a, b \in 1..Len(s) : s[a] = s[b] => a = b
        BY <2>3, <2>4, <4>1
      <4> HIDE DEF s, r, c
      <4>3. \A a, b \in 1..(Len(s) + 1) : r[a] = r[b] => a = b
        <5> SUFFICES ASSUME NEW a \in 1..(Len(s) + 1),
                            NEW b \in 1..(Len(s) + 1), r[a] = r[b]
                     PROVE  a = b
          OBVIOUS
        <5>1. CASE a = Len(s) + 1
          BY <4>2, <5>1
        <5>2. CASE b = Len(s) + 1
          BY <4>2, <5>2
        <5>3. CASE a # Len(s) + 1 /\ b # Len(s) + 1
          <6>1. a \in 1..Len(s) /\ b \in 1..Len(s)
            BY <4>2, <5>3
          <6> QED
            BY <4>2, <6>1
        <5> QED
          BY <5>1, <5>2, <5>3
      <4>4. IsInjective(r)
        BY <4>2, <4>3 DEF IsInjective
      <4> QED
        BY <4>4 DEF r
    <3> QED
      BY <2>1, <3>1 DEF SentOnce, NotifyAtMostOnce
  <2>7. ASSUME NEW m \in Notifiers, NEW i \in 1..Len(sent'[m])
        PROVE  /\ loop[sent'[m][i]] \notin {"new", "preparing"}
               /\ \A q \in 1..Len(clients) :
                    clients[q] = sent'[m][i] => q < nidx'[m]
    <3>1. CASE i \in 1..Len(sent[m]) /\ sent'[m][i] = sent[m][i]
      BY <1>0, <1>4, <3>1 DEF SentOnce, SentBehind
    <3>2. CASE m = n /\ i = Len(sent[n]) + 1
      BY <1>0, <1>2, <1>3, <1>4, <2>3, <2>5, <3>2
    <3>3. CASE m # n
      BY <2>1, <2>7, <3>1, <3>3
    <3>4. CASE m = n
      BY <2>3, <2>7, <3>1, <3>2, <3>4
    <3> QED
      BY <3>3, <3>4
  <2> QED
    BY <1>6, <2>6, <2>7 DEF SentOnce, SentBehind
<1> QED
  BY <1>1, <1>5, <1>6

(* A notify() that returns forgets whom it wrote to.                       *)
LEMMA ExhaustedKeepsSent ==
  ASSUME Typed, SentOnce, UNCHANGED loop, NEW n \in Notifiers, NEW t, NEW i,
         Exhausted(n, t, i)
  PROVE  SentOnce'
<1>1. /\ \A m \in Notifiers \ {n} : sent'[m] = sent[m] /\ nidx'[m] = nidx[m]
      /\ sent'[n] = <<>> /\ clients' = clients
  BY DEF Exhausted, Typed, TypeOK
<1>2. IsInjective(sent'[n]) /\ Len(sent'[n]) = 0
  BY <1>1 DEF IsInjective
<1> QED
  BY <1>1, <1>2 DEF SentOnce, SentBehind, NotifyAtMostOnce

(* Tasks leave every notify() where it is.                                 *)
LEMMA TaskKeepsNotify ==
  ASSUME NEW k \in Tasks, TaskStep(k)
  PROVE  UNCHANGED notifyVars
BY DEF TaskStep, Reject, CallMethod, MethodReturns, RunUnsubscribe,
       SubscribeReturns, ReplayState, DrainFails, TaskReplied, TaskClosed

(* Every step keeps whom a notify() wrote to behind its iterator.          *)
LEMMA SentNext ==
  Typed /\ RegistrySound /\ SentOnce /\ [Next]_vars => SentOnce'
<1> SUFFICES ASSUME Typed, RegistrySound, SentOnce, [Next]_vars
             PROVE  SentOnce'
  OBVIOUS
<1>0. loop \in [Conns -> {"new", "preparing", "receiving", "returned",
                          "raised", "cancelled"}]
  BY DEF Typed, TypeOK
<1> USE DEF connVars, notifyVars
<1>1. ASSUME LoopForward, UNCHANGED <<nidx, sent>>, Prunes PROVE SentOnce'
  BY <1>1, RemovalKeepsSent DEF Prunes
<1>2. ASSUME UNCHANGED <<loop, clients, nidx, sent>> PROVE SentOnce'
  BY <1>1, <1>2 DEF LoopForward, Prunes
<1>3. ASSUME NEW t \in Topics, AddTopic(t) PROVE SentOnce'
  BY <1>2, <1>3 DEF AddTopic
<1>4. ASSUME NEW c \in Conns, ConnStep(c) PROVE SentOnce'
  <2>1. CASE Prepare(c)
    BY <1>0, <1>1, <2>1 DEF Prepare, LoopForward, Prunes
  <2>2. CASE Register(c)
    BY <2>2, RegisterKeepsSent
  <2>3. CASE TransportLost(c) \/ ReceiveClose(c)
    BY <1>2, <2>3 DEF TransportLost, ReceiveClose
  <2>4. CASE LoopExit(c)
    <3>1. /\ LoopForward /\ UNCHANGED <<nidx, sent>>
          /\ clients' = RemoveFirst(clients, c)
      BY <1>0, <2>4 DEF LoopExit, LoopForward, Unregister
    <3>2. Member(c) \/ clients' = clients
      BY <3>1 DEF RemoveFirst, Member, Contains
    <3> QED
      BY <3>1, <3>2, RemovalKeepsSent
  <2>5. CASE CancelLoop(c)
    BY <1>0, <1>1, <2>5 DEF CancelLoop, LoopForward, Prunes
  <2> QED
    BY <1>4, <2>1, <2>2, <2>3, <2>4, <2>5 DEF ConnStep
<1>5. ASSUME NEW k \in Tasks, NEW c \in Conns, NEW m, NEW p,
             Receive(k, c, m, p)
      PROVE  SentOnce'
  BY <1>2, <1>5 DEF Receive
<1>6. ASSUME NEW k \in Tasks, TaskStep(k) PROVE SentOnce'
  <2>1. UNCHANGED <<loop, nidx, sent>> /\ Prunes
    BY <1>6, TaskKeepsNotify, TaskPrunes
  <2> QED
    BY <1>1, <2>1 DEF LoopForward
<1>7. ASSUME NEW n \in Notifiers, NEW t \in Topics, NEW s \in BOOLEAN,
             StartNotify(n, t, s)
      PROVE  SentOnce'
  <2>1. nidx[n] = 1 /\ UNCHANGED loop
    BY <1>7 DEF StartNotify, Typed, Wiring
  <2> QED
    BY <1>7, <2>1, VisitKeepsSent, ExhaustedKeepsSent DEF StartNotify
<1>8. ASSUME NEW n \in Notifiers, NotifierStep(n) PROVE SentOnce'
  <2>1. CASE ResumeNotify(n)
    <3>1. ntopic[n] \in Topics /\ UNCHANGED loop
      BY <2>1 DEF ResumeNotify, Typed, Wiring
    <3> QED
      BY <2>1, <3>1, VisitKeepsSent, ExhaustedKeepsSent DEF ResumeNotify
  <2>2. CASE NotifyClosed(n)
    BY <1>2, <2>2 DEF NotifyClosed
  <2> QED
    BY <1>8, <2>1, <2>2 DEF NotifierStep
<1>9. CASE UNCHANGED vars
  BY <1>2, <1>9 DEF vars
<1> QED
  BY <1>3, <1>4, <1>5, <1>6, <1>7, <1>8, <1>9 DEF Next

(* Nobody has been written to at first.                                    *)
LEMMA SentInit == Init => SentOnce
BY DEF Init, SentOnce, SentBehind, NotifyAtMostOnce, IsInjective

(* No call of notify() writes twice to a client, whoever connects,         *)
(* disconnects, subscribes or is pruned while it is suspended.             *)
THEOREM AtMostOnce == Spec => []NotifyAtMostOnce
<1>1. SentOnce => NotifyAtMostOnce
  BY DEF SentOnce
<1> QED
  BY TypedInit, TypedNext, RegistryInit, RegistryNext, SentInit, SentNext,
     <1>1, PTL DEF Spec

-----------------------------------------------------------------------------
(* notify() writes to everybody it owes a notification: the invariant      *)
(* DueAhead and the theorem Complete.                                      *)

(* Whoever is in D[n], usable and in front of position idx[n] was written  *)
(* to or skipped; DueAhead says so of the iterators and of due.            *)
Behind(idx, D) ==
  \A n \in Notifiers : \A j \in 1..Len(clients) :
    j < idx[n] /\ clients[j] \in D[n] /\ ~closing[clients[j]]
      /\ ~closed[clients[j]] => clients[j] \in ToSet(sent[n]) \cup skipped[n]

DueSubscribed ==
  \A n \in Notifiers : \A c \in due[n] :
    ntopic[n] \in subs[c] /\ loop[c] \notin {"new", "preparing"}

DueOK == DueSubscribed /\ Behind(nidx, due)

(* Lost and closed connections stay so.                                    *)
Deader ==
  \A c \in Conns : (closing[c] => closing'[c]) /\ (closed[c] => closed'[c])

(* The two forms of the invariant are the same.                            *)
LEMMA DueForms == Typed => (DueOK <=> DueAhead)
<1> SUFFICES ASSUME Typed PROVE DueOK <=> DueAhead
  OBVIOUS
<1>1. \A j \in 1..Len(clients) : Member(clients[j])
  BY LenProperties DEF Member, Contains, Typed, TypeOK
<1>2. Behind(nidx, due) <=>
        \A n \in Notifiers : \A j \in 1..Len(clients) :
          j < nidx[n] /\ clients[j] \in due[n] /\ Live(clients[j]) =>
            clients[j] \in ToSet(sent[n]) \cup skipped[n]
  BY <1>1 DEF Behind, Live
<1> QED
  BY <1>2 DEF DueOK, DueSubscribed, DueAhead

(* A removal moves somebody behind an iterator only by recording the skip. *)
LEMMA RemovalKeepsBehind ==
  ASSUME Typed, RegistrySound, Deader, UNCHANGED sent,
         NEW idx \in [Notifiers -> Nat \ {0}],
         NEW D \in [Notifiers -> SUBSET Conns],
         Behind(idx, D),
         NEW c \in Conns, Member(c), NEW topic, Unregister(c, idx, topic)
  PROVE  Behind(idx, D)'
<1>0. /\ clients \in Seq(Conns) /\ Len(clients) \in Nat
      /\ skipped \in [Notifiers -> SUBSET Conns]
  BY DEF Typed, TypeOK
<1>1. /\ clients' = RemoveFirst(clients, c)
      /\ \A n \in Notifiers : skipped'[n] = skipped[n] \cup
           IF idx[n] <= Len(clients)
                /\ \E i \in 1..(idx[n] - 1) : clients[i] = c
           THEN {clients[idx[n]]} ELSE {}
  BY DEF Unregister, Overrun
<1>2. PICK p \in 1..Len(clients) :
        /\ clients[p] = c /\ Len(clients') = Len(clients) - 1
        /\ \A q \in 1..Len(clients') :
             clients'[q] = IF q < p THEN clients[q] ELSE clients[q + 1]
  <2>1. IsInjective(clients)
    BY DEF RegistrySound
  <2> QED
    BY <1>1, <2>1, RemovalEffect
<1> SUFFICES ASSUME NEW n \in Notifiers, NEW j \in 1..Len(clients'),
                    j < idx[n], clients'[j] \in D[n],
                    ~closing'[clients'[j]], ~closed'[clients'[j]]
             PROVE  clients'[j] \in ToSet(sent[n]) \cup skipped'[n]
  BY DEF Behind
<1> DEFINE x == clients'[j]
<1>3. x \in Conns /\ ~closing[x] /\ ~closed[x]
  BY DEF Deader
<1>4. j \in 1..Len(clients) /\ j + 1 \in 1..Len(clients)
      /\ idx[n] \in Nat /\ idx[n] # 0
  BY <1>0, <1>2
<1>5. skipped[n] \subseteq skipped'[n]
  BY <1>1
<1>6. ASSUME NEW q \in 1..Len(clients), clients[q] = x, q < idx[n]
      PROVE  x \in ToSet(sent[n]) \cup skipped'[n]
  BY <1>3, <1>5, <1>6 DEF Behind
<1>7. CASE j < p
  BY <1>2, <1>4, <1>6, <1>7
<1>8. CASE ~ (j < p) /\ j + 1 < idx[n]
  BY <1>2, <1>4, <1>6, <1>8
<1>9. CASE ~ (j < p) /\ j + 1 = idx[n]
  <2>1. idx[n] <= Len(clients) /\ p \in 1..(idx[n] - 1)
    BY <1>0, <1>2, <1>4, <1>9
  <2>2. x = clients[idx[n]]
    BY <1>2, <1>9
  <2> QED
    BY <1>1, <1>2, <2>1, <2>2
<1> QED
  BY <1>4, <1>7, <1>8, <1>9
(* Steps that leave the registry, the iterators and the histories alone.   *)
LEMMA StandstillKeepsBehind ==
  ASSUME Typed, Deader, UNCHANGED <<clients, sent, skipped>>,
         NEW idx \in [Notifiers -> Nat \ {0}],
         NEW D \in [Notifiers -> SUBSET Conns],
         Behind(idx, D)
  PROVE  Behind(idx, D)'
<1>1. \A j \in 1..Len(clients) : clients[j] \in Conns
  BY ElementOfSeq DEF Typed, TypeOK
<1> QED
  BY <1>1 DEF Behind, Deader

(* A client registers behind every iterator or is not due.                 *)
LEMMA RegisterKeepsDue ==
  ASSUME Typed, DueOK, NEW c \in Conns, Register(c)
  PROVE  DueOK'
<1>0. /\ clients \in Seq(Conns) /\ due \in [Notifiers -> SUBSET Conns]
      /\ loop \in [Conns -> {"new", "preparing", "receiving", "returned",
                             "raised", "cancelled"}]
  BY DEF Typed, TypeOK
<1>1. /\ clients' = Append(clients, c) /\ loop[c] = "preparing"
      /\ loop' = [loop EXCEPT ![c] = "receiving"]
      /\ UNCHANGED <<nidx, sent, due, skipped, closing, closed, subs, ntopic>>
  BY DEF Register, Enlisted, notifyVars
<1>2. /\ Len(clients) \in Nat /\ Len(clients') = Len(clients) + 1
      /\ \A i \in 1..Len(clients) : clients'[i] = clients[i]
      /\ clients'[Len(clients) + 1] = c
  BY <1>0, <1>1
<1>3. DueSubscribed'
  BY <1>0, <1>1 DEF DueOK, DueSubscribed
<1>4. \A n \in Notifiers : c \notin due[n]
  BY <1>1 DEF DueOK, DueSubscribed
<1>5. Behind(nidx, due)'
  <2> SUFFICES ASSUME NEW n \in Notifiers, NEW j \in 1..Len(clients'),
                      j < nidx[n], clients'[j] \in due[n],
                      ~closing[clients'[j]], ~closed[clients'[j]]
               PROVE  clients'[j] \in ToSet(sent[n]) \cup skipped[n]
    BY <1>1 DEF Behind
  <2>1. j \in 1..Len(clients) /\ clients'[j] = clients[j]
    BY <1>2, <1>4
  <2> QED
    BY <2>1 DEF DueOK, Behind
<1> QED
  BY <1>3, <1>5 DEF DueOK

(* Everybody the iterator passes was closed, left, or is written to.       *)
LEMMA VisitKeepsBehind ==
  ASSUME Typed, RegistrySound, UNCHANGED <<closing, closed>>,
         NEW n \in Notifiers, NEW t \in Topics, NEW d, NEW i \in Nat \ {0},
         NEW audience \in SUBSET Conns,
         \A c \in audience : t \in subs[c],
         Behind([nidx EXCEPT ![n] = i], [due EXCEPT ![n] = audience]),
         Visit(n, t, d, i, audience)
  PROVE  Behind(nidx, due)'
<1>0. /\ clients \in Seq(Conns) /\ Len(clients) \in Nat
      /\ nidx \in [Notifiers -> Nat \ {0}]
      /\ due \in [Notifiers -> SUBSET Conns]
      /\ sent \in [Notifiers -> Seq(Conns)]
  BY DEF Typed, TypeOK
<1>1. PICK j \in i..Len(clients) :
        /\ \A h \in i..(j - 1) : ~Yields(h, t)
        /\ nidx' = [nidx EXCEPT ![n] = j + 1]
        /\ due' = [due EXCEPT ![n] = audience]
        /\ \/ /\ closing[clients[j]]
              /\ Unregister(clients[j], nidx', ntopic')
              /\ sent' = sent
           \/ /\ sent' = [sent EXCEPT ![n] = Append(@, clients[j])]
              /\ UNCHANGED <<clients, skipped>>
  BY DEF Visit, Dead, ResumesAt
<1> DEFINE c == clients[j]
<1>2. j \in 1..Len(clients) /\ c \in Conns /\ Member(c)
  BY <1>0, ElementOfSeq DEF Member, Contains
<1>3. /\ nidx' \in [Notifiers -> Nat \ {0}]
      /\ due' \in [Notifiers -> SUBSET Conns]
      /\ nidx'[n] = j + 1 /\ due'[n] = audience
      /\ \A m \in Notifiers \ {n} : nidx'[m] = nidx[m] /\ due'[m] = due[m]
  BY <1>0, <1>1, <1>2
<1>4. ASSUME NEW m \in Notifiers, NEW q \in 1..Len(clients), q < nidx'[m],
             clients[q] \in due'[m], ~closing[clients[q]], ~closed[clients[q]]
      PROVE  \/ clients[q] \in ToSet(sent[m]) \cup skipped[m]
             \/ m = n /\ q = j
  <2>1. CASE m # n
    BY <1>0, <1>3, <1>4, <2>1 DEF Behind
  <2>2. CASE m = n /\ q < i
    BY <1>0, <1>3, <1>4, <2>2 DEF Behind
  <2>3. CASE m = n /\ q \in i..(j - 1)
    BY <1>1, <1>3, <1>4, <2>3 DEF Yields
  <2>4. m = n => q < i \/ q \in i..(j - 1) \/ q = j
    BY <1>2, <1>3, <1>4
  <2> QED
    BY <2>1, <2>2, <2>3, <2>4
<1>5. CASE /\ closing[c] /\ Unregister(c, nidx', ntopic') /\ sent' = sent
  <2>1. Deader
    BY DEF Deader
  <2>2. PICK idx \in [Notifiers -> Nat \ {0}],
             D \in [Notifiers -> SUBSET Conns] : idx = nidx' /\ D = due'
    BY <1>3
  <2>3. Behind(idx, D)
    BY <1>2, <1>4, <1>5, <2>2 DEF Behind
  <2>4. Behind(idx, D)'
    <3>1. PICK topic : topic = ntopic'
      OBVIOUS
    <3> QED
      BY <1>2, <1>5, <2>1, <2>2, <2>3, <3>1, RemovalKeepsBehind
  <2> QED
    BY <2>2, <2>4 DEF Behind
<1>6. CASE /\ sent' = [sent EXCEPT ![n] = Append(@, c)]
           /\ UNCHANGED <<clients, skipped>>
  <2>1. /\ \A m \in Notifiers : ToSet(sent[m]) \subseteq ToSet(sent'[m])
        /\ c \in ToSet(sent'[n])
    <3>1. ASSUME NEW s \in Seq(Conns)
          PROVE  ToSet(s) \subseteq ToSet(Append(s, c))
                 /\ c \in ToSet(Append(s, c))
      <4>1. /\ Len(s) \in Nat /\ DOMAIN s = 1..Len(s)
            /\ DOMAIN Append(s, c) = 1..(Len(s) + 1)
            /\ \A q \in 1..Len(s) : Append(s, c)[q] = s[q]
            /\ Append(s, c)[Len(s) + 1] = c
        BY <1>2, <3>1
      <4> DEFINE r == Append(s, c)
      <4> HIDE DEF r
      <4>2. /\ \A q \in DOMAIN s : q \in DOMAIN r /\ r[q] = s[q]
            /\ Len(s) + 1 \in DOMAIN r /\ r[Len(s) + 1] = c
        BY <4>1 DEF r
      <4>3. ToSet(s) \subseteq ToSet(r) /\ c \in ToSet(r)
        BY <4>2 DEF ToSet
      <4> QED
        BY <4>3 DEF r
    <3> QED
      BY <1>0, <1>6, <3>1
  <2> QED
    BY <1>4, <1>6, <2>1 DEF Behind
<1> QED
  BY <1>1, <1>5, <1>6
(* A call of notify() that begins or goes on keeps what is owed in order.  *)
LEMMA NotifyKeepsDue ==
  ASSUME Typed, RegistrySound, DueOK, UNCHANGED <<loop, closing, closed, subs>>,
         NEW n \in Notifiers, NEW t \in Topics, NEW d, NEW i \in Nat \ {0},
         NEW audience \in SUBSET Conns,
         \A c \in audience :
           t \in subs[c] /\ loop[c] \notin {"new", "preparing"},
         Behind([nidx EXCEPT ![n] = i], [due EXCEPT ![n] = audience]),
         Visit(n, t, d, i, audience) \/ Exhausted(n, t, i)
  PROVE  DueOK'
<1>0. TypeOK
  BY DEF Typed
<1>1. CASE Visit(n, t, d, i, audience)
  <2>1. /\ ntopic' = [ntopic EXCEPT ![n] = t]
        /\ due' = [due EXCEPT ![n] = audience]
    BY <1>1 DEF Visit
  <2>2. DueSubscribed'
    <3> SUFFICES ASSUME NEW m \in Notifiers, NEW c \in due'[m]
                 PROVE  /\ ntopic'[m] \in subs[c]
                        /\ loop[c] \notin {"new", "preparing"}
      BY DEF DueSubscribed
    <3>1. CASE m = n
      BY <1>0, <2>1, <3>1 DEF TypeOK
    <3>2. CASE m # n
      <4>1. ntopic'[m] = ntopic[m] /\ due'[m] = due[m]
        BY <1>0, <2>1, <3>2 DEF TypeOK
      <4> QED
        BY <4>1 DEF DueOK, DueSubscribed
    <3> QED
      BY <3>1, <3>2
  <2> QED
    BY <1>1, <2>2, VisitKeepsBehind DEF DueOK
<1>2. CASE Exhausted(n, t, i)
  <2>1. /\ \A m \in Notifiers \ {n} :
             /\ due'[m] = due[m] /\ sent'[m] = sent[m] /\ nidx'[m] = nidx[m]
             /\ skipped'[m] = skipped[m] /\ ntopic'[m] = ntopic[m]
        /\ due'[n] = {} /\ clients' = clients
    BY <1>0, <1>2 DEF Exhausted, TypeOK
  <2>2. DueSubscribed'
    BY <2>1 DEF DueOK, DueSubscribed
  <2>3. Behind(nidx, due)'
    BY <2>1 DEF DueOK, Behind
  <2> QED
    BY <2>2, <2>3 DEF DueOK
<1> QED
  BY <1>1, <1>2

(* A step outside notify() that prunes or not, and takes nobody who is     *)
(* still subscribed off the list.                                          *)
LEMMA OthersKeepDue ==
  ASSUME Typed, RegistrySound, DueOK, Deader,
         UNCHANGED <<nidx, ntopic, sent>>, LoopForward,
         \A n \in Notifiers : \A c \in due'[n] :
           c \in due[n] /\ (ntopic[n] \in subs[c] => ntopic[n] \in subs'[c]),
         \/ UNCHANGED <<clients, skipped>>
         \/ \E c \in Conns : Member(c) /\ Unregister(c, nidx, ntopic)
  PROVE  DueOK'
<1>0. /\ nidx \in [Notifiers -> Nat \ {0}]
      /\ due \in [Notifiers -> SUBSET Conns]
  BY DEF Typed, TypeOK
<1>1. DueSubscribed'
  BY <1>0 DEF DueOK, DueSubscribed, LoopForward
<1>2. PICK idx \in [Notifiers -> Nat \ {0}],
           D \in [Notifiers -> SUBSET Conns] : idx = nidx /\ D = due
  BY <1>0
<1>3. Behind(idx, D)
  BY <1>2 DEF DueOK
<1>4. Behind(idx, D)'
  <2>1. CASE UNCHANGED <<clients, skipped>>
    BY <1>3, <2>1, StandstillKeepsBehind
  <2>2. CASE \E c \in Conns : Member(c) /\ Unregister(c, nidx, ntopic)
    <3>1. PICK topic : topic = ntopic
      OBVIOUS
    <3> QED
      BY <1>2, <1>3, <2>2, <3>1, RemovalKeepsBehind
  <2> QED
    BY <2>1, <2>2
<1>5. Behind(nidx, due)'
  BY <1>2, <1>4 DEF Behind
<1> QED
  BY <1>1, <1>5 DEF DueOK
(* What the task of a message may do to the registry and to what is due.   *)
LEMMA TaskKeepsDue ==
  ASSUME Typed, RegistrySound, DueOK, NEW k \in Tasks, TaskStep(k)
  PROVE  DueOK'
<1>0. TypeOK /\ (tpc[k] # "free" => tconn[k] \in Conns)
  BY DEF Typed, Wiring
<1> DEFINE Replies ==
      \/ UNCHANGED <<clients, skipped>>
      \/ \E c \in Conns : Member(c) /\ Unregister(c, nidx, ntopic)
<1>1. ASSUME tconn[k] \in Conns, SendReply(k) PROVE Replies
  BY <1>1 DEF SendReply
<1>2. UNCHANGED <<nidx, ntopic, sent>> /\ UNCHANGED <<loop, closing>>
  BY TaskKeepsNotify, TaskPrunes DEF notifyVars
<1>3. LoopForward
  BY <1>2 DEF LoopForward
<1>4. Deader
  <2>1. closed' = closed \/ TaskClosed(k)
    BY DEF TaskStep, Reject, CallMethod, MethodReturns, RunUnsubscribe,
           SubscribeReturns, ReplayState, DrainFails, TaskReplied, connVars
  <2>2. TaskClosed(k) => \A c \in Conns : closed[c] => closed'[c]
    BY <1>0 DEF TaskClosed, TypeOK
  <2> QED
    BY <1>2, <2>1, <2>2 DEF Deader
<1>5. ASSUME Replies, due' = due,
             \A c \in Conns : subs[c] \subseteq subs'[c]
      PROVE  DueOK'
  <2>1. \A n \in Notifiers : \A c \in due'[n] :
          c \in due[n] /\ (ntopic[n] \in subs[c] => ntopic[n] \in subs'[c])
    BY <1>0, <1>5 DEF TypeOK
  <2> QED
    BY <1>2, <1>3, <1>4, <1>5, <2>1, OthersKeepDue
<1> HIDE DEF Replies
<1>6. CASE Reject(k)
  BY <1>0, <1>1, <1>5, <1>6 DEF Reject, Starts
<1>7. CASE CallMethod(k)
  BY <1>5, <1>7 DEF CallMethod, Replies
<1>8. CASE MethodReturns(k)
  BY <1>0, <1>1, <1>5, <1>8 DEF MethodReturns
<1>9. CASE RunUnsubscribe(k)
  <2>1. Replies
    BY <1>0, <1>1, <1>9 DEF RunUnsubscribe, Starts
  <2>2. \A n \in Notifiers : \A c \in due'[n] :
          c \in due[n] /\ (ntopic[n] \in subs[c] => ntopic[n] \in subs'[c])
    <3> SUFFICES ASSUME NEW n \in Notifiers, NEW c \in due'[n]
                 PROVE  /\ c \in due[n]
                        /\ ntopic[n] \in subs[c] => ntopic[n] \in subs'[c]
      OBVIOUS
    <3>1. /\ due'[n] = IF ntopic[n] \in ToSet(todo[k])
                       THEN due[n] \ {tconn[k]} ELSE due[n]
          /\ subs' = [subs EXCEPT ![tconn[k]] = @ \ ToSet(todo[k])]
      BY <1>9 DEF RunUnsubscribe
    <3>2. c \in due[n] /\ c \in Conns
      BY <1>0, <3>1 DEF TypeOK
    <3>3. CASE c = tconn[k]
      BY <1>0, <3>1, <3>2, <3>3 DEF TypeOK
    <3>4. CASE c # tconn[k]
      BY <1>0, <3>1, <3>2, <3>4 DEF TypeOK
    <3> QED
      BY <3>3, <3>4
  <2> QED
    BY <1>2, <1>3, <1>4, <2>1, <2>2, OthersKeepDue DEF Replies
<1>10. ASSUME NEW upto, SubscribeTo(k, upto)
       PROVE  \A c \in Conns : subs[c] \subseteq subs'[c]
  BY <1>0, <1>10 DEF SubscribeTo, TypeOK
<1>11. CASE SubscribeReturns(k)
  BY <1>0, <1>1, <1>5, <1>10, <1>11 DEF SubscribeReturns, Subscribing, Starts
<1>12. ASSUME NEW j \in DOMAIN todo[k], ReplayState(k, j) PROVE DueOK'
  <2>1. tconn[k] \in Conns /\ due' = due /\ SubscribeTo(k, j)
    BY <1>0, <1>12 DEF ReplayState, Subscribing, Starts
  <2>2. Replies
    BY <1>1, <1>12, <2>1 DEF ReplayState, Replies
  <2> QED
    BY <1>5, <1>10, <2>1, <2>2
<1>13. CASE DrainFails(k)
  BY <1>0, <1>1, <1>5, <1>13 DEF DrainFails
<1>14. CASE TaskReplied(k)
  BY <1>5, <1>14 DEF TaskReplied, Replies
<1>15. CASE TaskClosed(k)
  BY <1>5, <1>15 DEF TaskClosed, Replies
<1> QED
  BY <1>6, <1>7, <1>8, <1>9, <1>11, <1>12, <1>13, <1>14, <1>15 DEF TaskStep

(* Every step keeps what is owed in order.                                 *)
LEMMA DueNext == Typed /\ RegistrySound /\ DueOK /\ [Next]_vars => DueOK'
<1> SUFFICES ASSUME Typed, RegistrySound, DueOK, [Next]_vars
             PROVE  DueOK'
  OBVIOUS
<1>0. TypeOK
  BY DEF Typed
<1> USE DEF connVars, notifyVars
<1>1. ASSUME Deader, UNCHANGED <<nidx, ntopic, sent, due, subs>>, LoopForward,
             \/ UNCHANGED <<clients, skipped>>
             \/ \E c \in Conns : Member(c) /\ Unregister(c, nidx, ntopic)
      PROVE  DueOK'
  BY <1>1, OthersKeepDue
<1>2. ASSUME NEW t \in Topics, AddTopic(t) PROVE DueOK'
  BY <1>1, <1>2 DEF AddTopic, Deader, LoopForward
<1>3. ASSUME NEW c \in Conns, ConnStep(c) PROVE DueOK'
  <2>1. CASE Prepare(c)
    BY <1>0, <1>1, <2>1 DEF Prepare, Deader, LoopForward, TypeOK
  <2>2. CASE Register(c)
    BY <2>2, RegisterKeepsDue
  <2>3. CASE TransportLost(c) \/ ReceiveClose(c)
    <3>1. Deader
      BY <1>0, <2>3 DEF TransportLost, ReceiveClose, Deader, TypeOK
    <3> QED
      BY <1>1, <2>3, <3>1 DEF TransportLost, ReceiveClose, LoopForward
  <2>4. CASE LoopExit(c)
    <3>1. LoopForward /\ Deader
      BY <1>0, <2>4 DEF LoopExit, LoopForward, Deader, TypeOK
    <3>2. CASE Member(c)
      BY <1>1, <2>4, <3>1, <3>2 DEF LoopExit
    <3>3. CASE ~ Member(c)
      <4>1. clients' = clients
        BY <2>4, <3>3 DEF LoopExit, Unregister, RemoveFirst, Member, Contains
      <4>2. skipped' = skipped
        <5>1. \A q \in 1..Len(clients) : clients[q] # c
          BY <3>3 DEF Member, Contains
        <5>2. \A n \in Notifiers :
                ~ (/\ nidx[n] <= Len(clients)
                   /\ \E i \in 1..(nidx[n] - 1) : clients[i] = c)
          BY <1>0, <5>1 DEF TypeOK
        <5>3. skipped' = [n \in Notifiers |-> skipped[n] \cup {}]
          BY <2>4, <5>2 DEF LoopExit, Unregister, Overrun
        <5> QED
          BY <1>0, <5>3 DEF TypeOK
      <4> QED
        BY <1>1, <2>4, <3>1, <4>1, <4>2 DEF LoopExit
    <3> QED
      BY <3>2, <3>3
  <2>5. CASE CancelLoop(c)
    BY <1>0, <1>1, <2>5 DEF CancelLoop, Deader, LoopForward, TypeOK
  <2> QED
    BY <1>3, <2>1, <2>2, <2>3, <2>4, <2>5 DEF ConnStep
<1>4. ASSUME NEW k \in Tasks, NEW c \in Conns, NEW m, NEW p,
             Receive(k, c, m, p)
      PROVE  DueOK'
  BY <1>1, <1>4 DEF Receive, Deader, LoopForward
<1>5. ASSUME NEW k \in Tasks, TaskStep(k) PROVE DueOK'
  BY <1>5, TaskKeepsDue
<1>6. ASSUME NEW n \in Notifiers, NEW t \in Topics, NEW s \in BOOLEAN,
             StartNotify(n, t, s)
      PROVE  DueOK'
  <2>1. UNCHANGED <<loop, closing, closed, subs>>
    BY <1>6 DEF StartNotify
  <2>2. /\ Subscribers(t) \subseteq Conns
        /\ \A c \in Subscribers(t) :
             t \in subs[c] /\ loop[c] \notin {"new", "preparing"}
    BY DEF Subscribers, Live, RegistrySound
  <2>3. Behind([nidx EXCEPT ![n] = 1], [due EXCEPT ![n] = Subscribers(t)])
    BY <1>0 DEF DueOK, Behind, TypeOK
  <2> QED
    BY <1>6, <2>1, <2>2, <2>3, NotifyKeepsDue DEF StartNotify
<1>7. ASSUME NEW n \in Notifiers, NotifierStep(n) PROVE DueOK'
  <2>1. CASE ResumeNotify(n)
    <3>1. UNCHANGED <<loop, closing, closed, subs>> /\ ntopic[n] \in Topics
      BY <2>1 DEF ResumeNotify, Typed, Wiring
    <3>2. /\ due[n] \subseteq Conns /\ nidx[n] \in Nat \ {0}
          /\ \A c \in due[n] :
               ntopic[n] \in subs[c] /\ loop[c] \notin {"new", "preparing"}
      BY <1>0 DEF TypeOK, DueOK, DueSubscribed
    <3>3. Behind([nidx EXCEPT ![n] = nidx[n]], [due EXCEPT ![n] = due[n]])
      BY <1>0 DEF DueOK, Behind, TypeOK
    <3> QED
      BY <2>1, <3>1, <3>2, <3>3, NotifyKeepsDue DEF ResumeNotify
  <2>2. CASE NotifyClosed(n)
    <3>1. Deader
      BY <1>0, <2>2 DEF NotifyClosed, Deader, TypeOK
    <3> QED
      BY <1>1, <2>2, <3>1 DEF NotifyClosed, LoopForward
  <2> QED
    BY <1>7, <2>1, <2>2 DEF NotifierStep
<1>8. CASE UNCHANGED vars
  BY <1>1, <1>8 DEF vars, Deader, LoopForward
<1> QED
  BY <1>2, <1>3, <1>4, <1>5, <1>6, <1>7, <1>8 DEF Next

(* Nothing is owed before the first call.                                  *)
LEMMA DueInit == Init => DueOK
BY DEF Init, DueOK, DueSubscribed, Behind
(* An iterator that is exhausted has passed every client that is due.      *)
LEMMA FinishedNotify ==
  ASSUME Typed, DueAhead, [Next]_vars,
         NEW n \in Notifiers, npc[n] # "idle", npc'[n] = "idle",
         NEW c \in due[n], Live(c)
  PROVE  c \in ToSet(sent[n]) \cup skipped[n]
<1>0. TypeOK
  BY DEF Typed
<1>1. NoneLeft(ntopic[n], nidx[n])
  <2>1. npc' # npc
    OBVIOUS
  <2>2. PICK m \in Notifiers :
          \/ \E t \in Topics, s \in BOOLEAN : StartNotify(m, t, s)
          \/ NotifierStep(m)
    <3>1. (\E t \in Topics : AddTopic(t)) \/ (\E x \in Conns : ConnStep(x))
            \/ (\E k \in Tasks, x \in Conns :
                  \E m \in Methods, p \in Params : Receive(k, x, m, p))
            => npc' = npc
      BY DEF AddTopic, Receive, notifyVars, ConnStep, Prepare, Register,
             TransportLost, ReceiveClose, LoopExit, CancelLoop
    <3>2. (\E k \in Tasks : TaskStep(k)) => npc' = npc
      BY TaskKeepsNotify DEF notifyVars
    <3>3. UNCHANGED vars => npc' = npc
      BY DEF vars, notifyVars
    <3> QED
      BY <2>1, <3>1, <3>2, <3>3 DEF Next
  <2>3. CASE \E t \in Topics, s \in BOOLEAN : StartNotify(m, t, s)
    <3>1. npc[m] = "idle" /\ (npc' = [npc EXCEPT ![m] = "idle"]
             \/ npc' = [npc EXCEPT ![m] = "closing"]
             \/ npc' = [npc EXCEPT ![m] = "draining"])
      BY <2>3 DEF StartNotify, Visit, Exhausted
    <3> QED
      BY <1>0, <3>1 DEF TypeOK
  <2>4. CASE NotifyClosed(m)
    BY <1>0, <2>4 DEF NotifyClosed, TypeOK
  <2>5. CASE ResumeNotify(m)
    <3>1. CASE Exhausted(m, ntopic[m], nidx[m])
      BY <1>0, <3>1 DEF Exhausted, TypeOK
    <3>2. CASE Visit(m, ntopic[m], ndata[m], nidx[m], due[m])
      BY <1>0, <3>2 DEF Visit, TypeOK
    <3> QED
      BY <2>5, <3>1, <3>2 DEF ResumeNotify
  <2> QED
    BY <2>2, <2>3, <2>4, <2>5 DEF NotifierStep
<1>2. PICK j \in 1..Len(clients) : clients[j] = c
  BY DEF Live, Member, Contains
<1>3. ntopic[n] \in subs[c] /\ ~closed[c]
  BY DEF DueAhead, Live
<1>4. j < nidx[n]
  <2>1. j \notin nidx[n]..Len(clients)
    BY <1>1, <1>2, <1>3 DEF NoneLeft, Yields
  <2> QED
    BY <1>0, <2>1, LenProperties DEF TypeOK
<1> QED
  BY <1>2, <1>4 DEF DueAhead

(* When notify() returns, everybody who was subscribed when it was called, *)
(* and has been usable and subscribed since, was written to, except for    *)
(* those a removal moved behind its iterator.                              *)
THEOREM Complete == Spec => NotifyComplete
<1> DEFINE Finish ==
      \A n \in Notifiers :
        npc[n] # "idle" /\ npc'[n] = "idle" =>
          \A c \in due[n] :
            Live(c) => c \in ToSet(sent[n]) \cup skipped[n]
<1>1. Typed /\ DueAhead /\ [Next]_vars => [Finish]_vars
  BY FinishedNotify
<1>2. Typed => (DueOK <=> DueAhead)
  BY DueForms
<1>3. NotifyComplete <=> [][Finish]_vars
  BY DEF NotifyComplete
<1> HIDE DEF Finish
<1> QED
  BY TypedInit, TypedNext, RegistryInit, RegistryNext, DueInit, DueNext,
     <1>1, <1>2, <1>3, PTL DEF Spec

-----------------------------------------------------------------------------
(* The iteration over the live list implements Broadcast.                  *)

(* An idle notify() has no topic, and nobody waits for it.                 *)
Resting ==
  \A n \in Notifiers :
    npc[n] = "idle" => ntopic[n] = None /\ due[n] = {} /\ skipped[n] = {}

(* Who was skipped is behind the iterator and cannot come back.            *)
Past(idx) ==
  \A n \in Notifiers : \A c \in skipped[n] :
    /\ loop[c] \notin {"new", "preparing"}
    /\ \A j \in 1..Len(clients) : clients[j] = c => j < idx[n]

(* What a step outside notify() may do to the registry, and to who is due. *)
Joined(c) ==
  /\ loop[c] = "preparing" /\ loop' = [loop EXCEPT ![c] = "receiving"]
  /\ clients' = Append(clients, c) /\ skipped' = skipped
Left(c) == Member(c) /\ Unregister(c, nidx, ntopic)
DueShrinks ==
  \A n \in Notifiers :
    due'[n] \subseteq due[n]
      /\ \A c \in due[n] : ntopic[n] \in subs'[c] => c \in due'[n]

Outside ==
  /\ UNCHANGED <<ntopic, nidx, sent>>
  /\ \A n \in Notifiers : npc'[n] = "idle" <=> npc[n] = "idle"
  /\ LoopForward /\ Deader /\ DueShrinks
  /\ \/ UNCHANGED <<clients, skipped>>
     \/ \E c \in Conns : Joined(c) \/ Left(c)

(* A step of a notify() that starts or goes on.                            *)
Turn(n, t, d, i, audience) ==
  /\ UNCHANGED <<loop, closing, closed, subs>>
  /\ Visit(n, t, d, i, audience) \/ Exhausted(n, t, i)
Starting(n, t) ==
  npc[n] = "idle" /\ \E d \in Nat : Turn(n, t, d, 1, Subscribers(t))
Resuming(n) ==
  npc[n] = "draining" /\ Turn(n, ntopic[n], ndata[n], nidx[n], due[n])

(* The task of a message is outside.                                       *)
LEMMA TaskOutside ==
  ASSUME Typed, NEW k \in Tasks, TaskStep(k)
  PROVE  Outside
<1>0. TypeOK /\ (tpc[k] # "free" => tconn[k] \in Conns)
  BY DEF Typed, Wiring
<1> DEFINE Replies ==
      \/ UNCHANGED <<clients, skipped>>
      \/ \E c \in Conns : Member(c) /\ Unregister(c, nidx, ntopic)
<1>1. ASSUME tconn[k] \in Conns, SendReply(k) PROVE Replies
  BY <1>1 DEF SendReply
<1>2. UNCHANGED <<npc, nidx, ntopic, sent>> /\ UNCHANGED <<loop, closing>>
  BY TaskKeepsNotify, TaskPrunes DEF notifyVars
<1>3. LoopForward
  BY <1>2 DEF LoopForward
<1>4. Deader
  <2>1. closed' = closed \/ TaskClosed(k)
    BY DEF TaskStep, Reject, CallMethod, MethodReturns, RunUnsubscribe,
           SubscribeReturns, ReplayState, DrainFails, TaskReplied, connVars
  <2>2. TaskClosed(k) => \A c \in Conns : closed[c] => closed'[c]
    BY <1>0 DEF TaskClosed, TypeOK
  <2> QED
    BY <1>2, <2>1, <2>2 DEF Deader
<1>5. Replies
  <2> HIDE DEF Replies
  <2>1. CASE Reject(k) \/ MethodReturns(k) \/ RunUnsubscribe(k)
             \/ SubscribeReturns(k) \/ DrainFails(k)
    <3>1. tconn[k] \in Conns
      BY <1>0, <2>1 DEF Reject, MethodReturns, RunUnsubscribe, Starts,
                        SubscribeReturns, Subscribing, DrainFails
    <3>2. SendReply(k)
      BY <2>1 DEF Reject, MethodReturns, RunUnsubscribe, SubscribeReturns,
                  DrainFails
    <3> QED
      BY <1>1, <3>1, <3>2
  <2>2. CASE CallMethod(k) \/ TaskReplied(k) \/ TaskClosed(k)
    BY <2>2 DEF CallMethod, TaskReplied, TaskClosed, Replies
  <2>3. CASE \E j \in DOMAIN todo[k] : ReplayState(k, j)
    <3>1. PICK j \in DOMAIN todo[k] : ReplayState(k, j)
      BY <2>3
    <3>2. tconn[k] \in Conns
      BY <1>0, <3>1 DEF ReplayState, Subscribing, Starts
    <3>3. SendReply(k) \/ UNCHANGED <<clients, skipped>>
      BY <3>1 DEF ReplayState
    <3> QED
      BY <1>1, <3>2, <3>3 DEF Replies
  <2> QED
    BY <2>1, <2>2, <2>3 DEF TaskStep
<1>6. DueShrinks
  <2>1. due' = due \/ RunUnsubscribe(k)
    BY DEF TaskStep, Reject, CallMethod, MethodReturns, SubscribeReturns,
           ReplayState, DrainFails, TaskReplied, TaskClosed
  <2>2. ASSUME RunUnsubscribe(k), NEW n \in Notifiers
        PROVE  /\ due'[n] \subseteq due[n]
               /\ \A c \in due[n] : ntopic[n] \in subs'[c] => c \in due'[n]
    <3>1. /\ due'[n] = IF ntopic[n] \in ToSet(todo[k])
                       THEN due[n] \ {tconn[k]} ELSE due[n]
          /\ subs' = [subs EXCEPT ![tconn[k]] = @ \ ToSet(todo[k])]
          /\ tconn[k] \in Conns
      BY <1>0, <2>2 DEF RunUnsubscribe, Starts
    <3>2. subs'[tconn[k]] = subs[tconn[k]] \ ToSet(todo[k])
      BY <1>0, <3>1 DEF TypeOK
    <3> QED
      BY <3>1, <3>2
  <2> QED
    BY <2>1, <2>2 DEF DueShrinks
<1> QED
  BY <1>2, <1>3, <1>4, <1>5, <1>6 DEF Outside, Left

(* Every step is a turn of a notify() or outside.                          *)
LEMMA StepKinds ==
  ASSUME Typed, [Next]_vars
  PROVE  \/ Outside
         \/ \E n \in Notifiers :
              Resuming(n) \/ \E t \in Topics : Starting(n, t)
<1>0. TypeOK
  BY DEF Typed
<1> USE DEF connVars, notifyVars
<1>1. ASSUME UNCHANGED <<npc, ntopic, nidx, sent, due>>, LoopForward, Deader,
             \/ UNCHANGED <<clients, skipped>>
             \/ \E c \in Conns : Joined(c) \/ Left(c)
      PROVE  Outside
  BY <1>1 DEF Outside, DueShrinks
<1>2. ASSUME NEW t \in Topics, AddTopic(t) PROVE Outside
  BY <1>1, <1>2 DEF AddTopic, Deader, LoopForward
<1>3. ASSUME NEW c \in Conns, ConnStep(c) PROVE Outside
  <2>1. CASE Prepare(c)
    BY <1>0, <1>1, <2>1 DEF Prepare, Deader, LoopForward, TypeOK
  <2>2. CASE Register(c)
    <3>1. LoopForward /\ Deader
      BY <1>0, <2>2 DEF Register, LoopForward, Deader, TypeOK
    <3>2. Joined(c)
      BY <2>2 DEF Register, Enlisted, Joined
    <3> QED
      BY <1>1, <2>2, <3>1, <3>2 DEF Register
  <2>3. CASE TransportLost(c) \/ ReceiveClose(c)
    <3>1. Deader
      BY <1>0, <2>3 DEF TransportLost, ReceiveClose, Deader, TypeOK
    <3> QED
      BY <1>1, <2>3, <3>1 DEF TransportLost, ReceiveClose, LoopForward
  <2>4. CASE LoopExit(c)
    <3>1. LoopForward /\ Deader
      BY <1>0, <2>4 DEF LoopExit, LoopForward, Deader, TypeOK
    <3>2. CASE Member(c)
      <4>1. Left(c)
        BY <2>4, <3>2 DEF LoopExit, Left
      <4> QED
        BY <1>1, <2>4, <3>1, <4>1 DEF LoopExit
    <3>3. CASE ~ Member(c)
      <4>1. clients' = clients
        BY <2>4, <3>3 DEF LoopExit, Unregister, RemoveFirst, Member, Contains
      <4>2. skipped' = skipped
        <5>1. \A q \in 1..Len(clients) : clients[q] # c
          BY <3>3 DEF Member, Contains
        <5>2. \A n \in Notifiers :
                ~ (/\ nidx[n] <= Len(clients)
                   /\ \E i \in 1..(nidx[n] - 1) : clients[i] = c)
          BY <1>0, <5>1 DEF TypeOK
        <5>3. skipped' = [n \in Notifiers |-> skipped[n] \cup {}]
          BY <2>4, <5>2 DEF LoopExit, Unregister, Overrun
        <5> QED
          BY <1>0, <5>3 DEF TypeOK
      <4> QED
        BY <1>1, <2>4, <3>1, <4>1, <4>2 DEF LoopExit
    <3> QED
      BY <3>2, <3>3
  <2>5. CASE CancelLoop(c)
    BY <1>0, <1>1, <2>5 DEF CancelLoop, Deader, LoopForward, TypeOK
  <2> QED
    BY <1>3, <2>1, <2>2, <2>3, <2>4, <2>5 DEF ConnStep
<1>4. ASSUME NEW k \in Tasks, NEW c \in Conns, NEW m, NEW p,
             Receive(k, c, m, p)
      PROVE  Outside
  BY <1>1, <1>4 DEF Receive, Deader, LoopForward
<1>5. ASSUME NEW k \in Tasks, TaskStep(k) PROVE Outside
  BY <1>5, TaskOutside
<1>6. ASSUME NEW n \in Notifiers, NEW t \in Topics, NEW s \in BOOLEAN,
             StartNotify(n, t, s)
      PROVE  Starting(n, t)
  <2>1. serial' \in Nat /\ serial' = serial + 1
    BY <1>0, <1>6 DEF StartNotify, TypeOK
  <2>2. PICK d \in Nat : d = serial'
    BY <2>1
  <2>3. Turn(n, t, d, 1, Subscribers(t))
    BY <1>6, <2>2 DEF StartNotify, Turn
  <2> QED
    BY <1>6, <2>3 DEF StartNotify, Starting
<1>7. ASSUME NEW n \in Notifiers, ResumeNotify(n) PROVE Resuming(n)
  BY <1>7 DEF ResumeNotify, Resuming, Turn
<1>8. ASSUME NEW n \in Notifiers, NotifyClosed(n) PROVE Outside
  <2>1. Deader /\ LoopForward
    BY <1>0, <1>8 DEF NotifyClosed, Deader, LoopForward, TypeOK
  <2>2. \A m \in Notifiers : npc'[m] = "idle" <=> npc[m] = "idle"
    BY <1>0, <1>8 DEF NotifyClosed, TypeOK
  <2>3. UNCHANGED <<ntopic, nidx, sent, due, clients, skipped>>
    BY <1>8 DEF NotifyClosed
  <2> QED
    BY <2>1, <2>2, <2>3 DEF Outside, DueShrinks
<1>9. CASE UNCHANGED vars
  BY <1>1, <1>9 DEF vars, Deader, LoopForward
<1> QED
  BY <1>2, <1>3, <1>4, <1>5, <1>6, <1>7, <1>8, <1>9 DEF Next, NotifierStep

(* An idle notify() has nothing of its own, whatever happens.              *)
LEMMA RestingNext ==
  ASSUME Typed, Resting, [Next]_vars
  PROVE  Resting'
<1>0. TypeOK
  BY DEF Typed
<1>1. ASSUME NEW n \in Notifiers, npc[n] = "idle",
             NEW idx, NEW topic, NEW c, idx[n] = 1,
             Unregister(c, idx, topic)
      PROVE  skipped'[n] = skipped[n]
  BY <1>1 DEF Unregister, Overrun
<1>2. CASE Outside
  <2> SUFFICES ASSUME NEW n \in Notifiers, npc'[n] = "idle"
               PROVE  ntopic'[n] = None /\ due'[n] = {} /\ skipped'[n] = {}
    BY DEF Resting
  <2>1. npc[n] = "idle" /\ ntopic[n] = None /\ due[n] = {} /\ skipped[n] = {}
    BY <1>2 DEF Outside, Resting
  <2>2. nidx[n] = 1
    BY <2>1 DEF Typed, Wiring
  <2>3. skipped'[n] = skipped[n]
    BY <1>1, <1>2, <2>1, <2>2 DEF Outside, Joined, Left
  <2> QED
    BY <1>2, <2>1, <2>3 DEF Outside, DueShrinks
<1>3. ASSUME NEW n \in Notifiers, NEW t, NEW i, Exhausted(n, t, i)
      PROVE  Resting'
  BY <1>0, <1>3 DEF Exhausted, Resting, TypeOK
<1>4. ASSUME NEW n \in Notifiers, NEW t, NEW d, NEW i, NEW audience,
             Visit(n, t, d, i, audience)
      PROVE  Resting'
  <2> SUFFICES ASSUME NEW m \in Notifiers, npc'[m] = "idle"
               PROVE  ntopic'[m] = None /\ due'[m] = {} /\ skipped'[m] = {}
    BY DEF Resting
  <2>1. m # n
    BY <1>0, <1>4 DEF Visit, TypeOK
  <2>2. /\ npc'[m] = npc[m] /\ ntopic'[m] = ntopic[m] /\ due'[m] = due[m]
        /\ nidx'[m] = nidx[m]
    BY <1>0, <1>4, <2>1 DEF Visit, TypeOK
  <2>3. ntopic[m] = None /\ due[m] = {} /\ skipped[m] = {} /\ nidx'[m] = 1
    BY <2>2 DEF Resting, Typed, Wiring
  <2>4. skipped'[m] = skipped[m]
    <3>1. skipped' = skipped \/ \E c : Unregister(c, nidx', ntopic')
      BY <1>4 DEF Visit
    <3>2. PICK idx, topic : idx = nidx' /\ topic = ntopic'
      OBVIOUS
    <3>3. \A c : Unregister(c, nidx', ntopic') => Unregister(c, idx, topic)
      BY <3>2
    <3>4. npc[m] = "idle" /\ idx[m] = 1
      BY <2>2, <2>3, <3>2
    <3> QED
      BY <1>1, <3>1, <3>3, <3>4
  <2> QED
    BY <2>2, <2>3, <2>4
<1> QED
  BY <1>2, <1>3, <1>4, StepKinds DEF Starting, Resuming, Turn

(* A removal records the client that it moves behind an iterator, and      *)
(* moves nobody else there.                                                *)
LEMMA RemovalKeepsPast ==
  ASSUME Typed, RegistrySound, LoopForward,
         NEW idx \in [Notifiers -> Nat \ {0}], Past(idx),
         NEW c \in Conns, Member(c), NEW topic, Unregister(c, idx, topic)
  PROVE  Past(idx)'
<1>0. /\ clients \in Seq(Conns) /\ Len(clients) \in Nat
      /\ skipped \in [Notifiers -> SUBSET Conns]
      /\ \A a, b \in 1..Len(clients) : clients[a] = clients[b] => a = b
  BY LenProperties DEF Typed, TypeOK, RegistrySound, IsInjective
<1>1. /\ clients' = RemoveFirst(clients, c)
      /\ \A n \in Notifiers : skipped'[n] = skipped[n] \cup
           IF idx[n] <= Len(clients)
                /\ \E i \in 1..(idx[n] - 1) : clients[i] = c
           THEN {clients[idx[n]]} ELSE {}
  BY DEF Unregister, Overrun
<1>2. PICK p \in 1..Len(clients) :
        /\ clients[p] = c /\ Len(clients') = Len(clients) - 1
        /\ \A q \in 1..Len(clients') :
             clients'[q] = IF q < p THEN clients[q] ELSE clients[q + 1]
  <2>1. IsInjective(clients)
    BY DEF RegistrySound
  <2> QED
    BY <1>1, <2>1, RemovalEffect
<1> SUFFICES ASSUME NEW n \in Notifiers, NEW x \in skipped'[n]
             PROVE  /\ loop'[x] \notin {"new", "preparing"}
                    /\ \A j \in 1..Len(clients') :
                         clients'[j] = x => j < idx[n]
  BY DEF Past
<1>3. idx[n] \in Nat /\ idx[n] # 0
  OBVIOUS
<1>4. CASE x \in skipped[n]
  <2>1. x \in Conns /\ loop[x] \notin {"new", "preparing"}
    BY <1>0, <1>4 DEF Past
  <2>2. ASSUME NEW j \in 1..Len(clients'), clients'[j] = x PROVE j < idx[n]
    <3>1. /\ j \in 1..Len(clients) /\ j + 1 \in 1..Len(clients)
          /\ clients[j] = x \/ clients[j + 1] = x
      BY <1>0, <1>2, <2>2
    <3>2. \A q \in 1..Len(clients) : clients[q] = x => q < idx[n]
      BY <1>4 DEF Past
    <3> QED
      BY <1>3, <3>1, <3>2
  <2> QED
    BY <2>1, <2>2 DEF LoopForward
<1>5. CASE x \notin skipped[n]
  <2>1. /\ idx[n] \in 1..Len(clients) /\ x = clients[idx[n]]
        /\ \E i \in 1..(idx[n] - 1) : clients[i] = c
    BY <1>0, <1>1, <1>3, <1>5
  <2>2. p < idx[n]
    <3>1. PICK i \in 1..(idx[n] - 1) : clients[i] = c
      BY <2>1
    <3>2. i \in 1..Len(clients) /\ i < idx[n]
      BY <1>0, <1>3, <2>1, <3>1
    <3>3. i = p
      BY <1>0, <1>2, <3>1, <3>2
    <3> QED
      BY <3>2, <3>3
  <2>3. x \in Conns /\ loop[x] \notin {"new", "preparing"}
    <3>1. x \in Conns /\ Member(x)
      BY <1>0, <2>1, ElementOfSeq DEF Member, Contains
    <3> QED
      BY <3>1 DEF RegistrySound
  <2>4. ASSUME NEW j \in 1..Len(clients'), clients'[j] = x PROVE j < idx[n]
    <3>1. CASE j < p
      BY <1>2, <1>3, <2>2, <3>1
    <3>2. CASE ~ (j < p)
      <4>1. j + 1 \in 1..Len(clients) /\ clients[j + 1] = x
        BY <1>0, <1>2, <2>4, <3>2
      <4>2. j + 1 = idx[n]
        BY <1>0, <2>1, <4>1
      <4> QED
        BY <1>3, <4>2
    <3> QED
      BY <3>1, <3>2
  <2> QED
    BY <2>3, <2>4 DEF LoopForward
<1> QED
  BY <1>4, <1>5

(* Every step keeps those who were skipped behind the iterators.           *)
LEMMA PastNext ==
  ASSUME Typed, Typed', RegistrySound, Past(nidx), [Next]_vars
  PROVE  Past(nidx)'
<1>0. TypeOK
  BY DEF Typed
<1>1. CASE Outside
  <2>1. LoopForward /\ nidx' = nidx
    BY <1>1 DEF Outside
  <2>2. CASE UNCHANGED <<clients, skipped>>
    BY <1>0, <2>1, <2>2 DEF Past, LoopForward, TypeOK
  <2>3. ASSUME NEW c \in Conns, Joined(c) PROVE Past(nidx)'
    <3>1. /\ Len(clients) \in Nat /\ Len(clients') = Len(clients) + 1
          /\ \A i \in 1..Len(clients) : clients'[i] = clients[i]
          /\ clients'[Len(clients) + 1] = c
      BY <1>0, <2>3 DEF Joined, TypeOK
    <3>2. \A n \in Notifiers : c \notin skipped[n]
      BY <2>3 DEF Joined, Past
    <3> SUFFICES ASSUME NEW n \in Notifiers, NEW x \in skipped[n]
                 PROVE  /\ loop'[x] \notin {"new", "preparing"}
                        /\ \A j \in 1..Len(clients') :
                             clients'[j] = x => j < nidx[n]
      BY <2>1, <2>3 DEF Past, Joined
    <3>3. x \in Conns /\ x # c /\ loop[x] \notin {"new", "preparing"}
      BY <1>0, <3>2 DEF TypeOK, Past
    <3>4. \A j \in 1..Len(clients) : clients[j] = x => j < nidx[n]
      BY DEF Past
    <3>5. ASSUME NEW j \in 1..Len(clients'), clients'[j] = x PROVE j < nidx[n]
      BY <3>1, <3>3, <3>4, <3>5
    <3> QED
      BY <2>1, <3>3, <3>5 DEF LoopForward
  <2>4. ASSUME NEW c \in Conns, Left(c) PROVE Past(nidx)'
    <3>1. PICK idx \in [Notifiers -> Nat \ {0}] : idx = nidx
      BY <1>0 DEF TypeOK
    <3>2. PICK topic : topic = ntopic
      OBVIOUS
    <3>3. Past(idx) /\ Unregister(c, idx, topic)
      BY <2>4, <3>1, <3>2 DEF Left
    <3>4. Past(idx)'
      BY <2>1, <2>4, <3>3, RemovalKeepsPast DEF Left
    <3> QED
      BY <2>1, <3>1, <3>4 DEF Past
  <2> QED
    BY <1>1, <2>2, <2>3, <2>4 DEF Outside
<1>2. ASSUME NEW n \in Notifiers, NEW t, NEW i, Exhausted(n, t, i),
             loop' = loop
      PROVE  Past(nidx)'
  <2>1. /\ \A m \in Notifiers \ {n} :
             nidx'[m] = nidx[m] /\ skipped'[m] = skipped[m]
        /\ skipped'[n] = {} /\ clients' = clients
    BY <1>0, <1>2 DEF Exhausted, TypeOK
  <2> QED
    BY <1>2, <2>1 DEF Past
<1>3. ASSUME NEW n \in Notifiers, NEW t, NEW d, NEW i, NEW audience,
             i = nidx[n], Visit(n, t, d, i, audience), loop' = loop
      PROVE  Past(nidx)'
  <2>1. PICK j \in i..Len(clients) :
          /\ nidx' = [nidx EXCEPT ![n] = j + 1]
          /\ \/ Unregister(clients[j], nidx', ntopic')
             \/ UNCHANGED <<clients, skipped>>
    BY <1>3 DEF Visit, ResumesAt
  <2>2. /\ nidx[n] \in Nat \ {0} /\ j \in 1..Len(clients)
        /\ clients[j] \in Conns /\ Member(clients[j])
    BY <1>0, <1>3, ElementOfSeq DEF TypeOK, Member, Contains
  <2>3. PICK idx \in [Notifiers -> Nat \ {0}] : idx = nidx'
    BY DEF Typed, TypeOK
  <2>4. PICK topic : topic = ntopic'
    OBVIOUS
  <2>5. Past(idx)
    <3> SUFFICES ASSUME NEW m \in Notifiers, NEW x \in skipped[m]
                 PROVE  /\ loop[x] \notin {"new", "preparing"}
                        /\ \A q \in 1..Len(clients) :
                             clients[q] = x => q < idx[m]
      BY DEF Past
    <3>1. /\ loop[x] \notin {"new", "preparing"}
          /\ \A q \in 1..Len(clients) : clients[q] = x => q < nidx[m]
      BY DEF Past
    <3>2. nidx[m] \in Nat /\ idx[m] \in Nat /\ nidx[m] <= idx[m]
      <4>1. CASE m = n
        BY <1>0, <1>3, <2>1, <2>2, <2>3, <4>1 DEF TypeOK
      <4>2. CASE m # n
        BY <1>0, <2>1, <2>3, <4>2 DEF TypeOK
      <4> QED
        BY <4>1, <4>2
    <3> QED
      BY <3>1, <3>2
  <2>6. LoopForward
    BY <1>3 DEF LoopForward
  <2>7. CASE Unregister(clients[j], nidx', ntopic')
    <3>1. Unregister(clients[j], idx, topic)
      BY <2>3, <2>4, <2>7
    <3>2. Past(idx)'
      BY <2>2, <2>5, <2>6, <3>1, RemovalKeepsPast
    <3> QED
      BY <2>3, <3>2 DEF Past
  <2>8. CASE UNCHANGED <<clients, skipped>>
    BY <1>3, <2>3, <2>5, <2>8 DEF Past
  <2> QED
    BY <2>1, <2>7, <2>8
<1>4. \A n \in Notifiers : npc[n] = "idle" => nidx[n] = 1
  BY DEF Typed, Wiring
<1>5. ASSUME NEW n \in Notifiers, NEW t \in Topics, Starting(n, t)
      PROVE  Past(nidx)'
  BY <1>2, <1>3, <1>4, <1>5 DEF Starting, Turn
<1>6. ASSUME NEW n \in Notifiers, Resuming(n) PROVE Past(nidx)'
  BY <1>2, <1>3, <1>6 DEF Resuming, Turn
<1> QED
  BY <1>1, <1>5, <1>6, StepKinds

(* The registry as a set.                                                  *)
MembersMatch ==
  Members \subseteq Conns /\ \A c \in Conns : c \in Members <=> Member(c)

(* It holds the clients that are in the list.                              *)
LEMMA MembersAre == TypeOK => MembersMatch
<1> SUFFICES ASSUME TypeOK PROVE MembersMatch
  OBVIOUS
<1>1. /\ clients \in Seq(Conns) /\ DOMAIN clients = 1..Len(clients)
      /\ \A i \in 1..Len(clients) : clients[i] \in Conns
  BY ElementOfSeq, LenProperties DEF TypeOK
<1> QED
  BY <1>1 DEF MembersMatch, Members, ToSet, Member, Contains

(* An audience consists of members.                                        *)
LEMMA AudienceTyped == TypeOK => Audience \in [Topics -> SUBSET Members]
BY MembersAre DEF MembersMatch, Audience, Subscribers, Live

(* A removal takes one client out of the registry, and costs each notify() *)
(* that is under way at most one client, who is in the registry and has not*)
(* been written to.                                                        *)
LEMMA RemovalCosts ==
  ASSUME Typed, Typed', RegistrySound, SentBehind,
         NEW idx \in [Notifiers -> Nat \ {0}],
         \A n \in Notifiers : nidx[n] <= idx[n],
         NEW c \in Conns, Member(c), NEW topic, Unregister(c, idx, topic)
  PROVE  /\ Members' = Members \ {c} /\ c \in Members
         /\ \A x \in Conns : Member(x)' <=> Member(x) /\ x # c
         /\ \A n \in Notifiers :
              \/ skipped'[n] = skipped[n]
              \/ /\ idx[n] # 1
                 /\ \E x \in Members' \ ToSet(sent[n]) :
                      skipped'[n] = skipped[n] \cup {x}
<1>0. /\ clients \in Seq(Conns) /\ Len(clients) \in Nat
      /\ nidx \in [Notifiers -> Nat \ {0}]
      /\ sent \in [Notifiers -> Seq(Conns)]
      /\ \A a, b \in 1..Len(clients) : clients[a] = clients[b] => a = b
  BY LenProperties DEF Typed, TypeOK, RegistrySound, IsInjective
<1>1. \A x \in Conns : Member(x)' <=> Member(x) /\ x # c
  BY RemovalEffect DEF RegistrySound, Unregister
<1>2. /\ Members \subseteq Conns /\ \A x \in Conns : x \in Members <=> Member(x)
      /\ Members' \subseteq Conns
      /\ \A x \in Conns : x \in Members' <=> Member(x)'
  <2>1. MembersMatch
    BY MembersAre DEF Typed
  <2>2. (TypeOK => MembersMatch)'
    BY MembersAre, PTL
  <2> QED
    BY <2>1, <2>2 DEF MembersMatch, Typed
<1>3. Members' = Members \ {c} /\ c \in Members
  BY <1>1, <1>2
<1>4. ASSUME NEW n \in Notifiers, skipped'[n] # skipped[n]
      PROVE  /\ idx[n] # 1
             /\ \E x \in Members' \ ToSet(sent[n]) :
                  skipped'[n] = skipped[n] \cup {x}
  <2>1. /\ idx[n] <= Len(clients)
        /\ \E i \in 1..(idx[n] - 1) : clients[i] = c
        /\ skipped'[n] = skipped[n] \cup {clients[idx[n]]}
    BY <1>4 DEF Unregister, Overrun
  <2>2. idx[n] \in 1..Len(clients) /\ idx[n] # 1 /\ nidx[n] \in Nat
    BY <1>0, <2>1
  <2>3. clients[idx[n]] \in Conns /\ Member(clients[idx[n]])
    BY <1>0, <2>2, ElementOfSeq DEF Member, Contains
  <2>4. clients[idx[n]] # c
    BY <1>0, <2>1, <2>2
  <2>5. clients[idx[n]] \notin ToSet(sent[n])
    <3>1. \A i \in 1..Len(sent[n]) : sent[n][i] # clients[idx[n]]
      BY <2>2 DEF SentBehind
    <3> QED
      BY <1>0, <3>1, LenProperties DEF ToSet
  <2> QED
    BY <1>1, <1>2, <2>1, <2>2, <2>3, <2>4, <2>5
<1> QED
  BY <1>1, <1>3, <1>4

(* So a removal is a departure.                                            *)
LEMMA RemovalDeparts ==
  ASSUME Typed, Typed', RegistrySound, SentBehind, UNCHANGED sent,
         NEW idx \in [Notifiers -> Nat \ {0}],
         \A n \in Notifiers : nidx[n] <= idx[n],
         \A n \in Notifiers : idx[n] # 1 => ntopic'[n] # None,
         NEW c \in Conns, Member(c), NEW topic, Unregister(c, idx, topic)
  PROVE  c \in Members /\ Abstract!Departs(c)
<1>1. /\ Members' = Members \ {c} /\ c \in Members
      /\ \A n \in Notifiers :
           \/ skipped'[n] = skipped[n]
           \/ /\ idx[n] # 1
              /\ \E x \in Members' \ ToSet(sent[n]) :
                   skipped'[n] = skipped[n] \cup {x}
  BY RemovalCosts
<1>2. \A n \in Notifiers : Got'[n] = ToSet(sent[n])
  BY DEF Got
<1>3. skipped' \in [Notifiers -> SUBSET Conns]
  BY DEF Typed, TypeOK
<1>4. \A n \in Notifiers :
        \/ skipped'[n] = skipped[n]
        \/ /\ ntopic'[n] # None
           /\ \E x \in Members' \ Got'[n] : skipped'[n] = skipped[n] \cup {x}
  BY <1>1, <1>2
<1> QED
  BY <1>1, <1>3, <1>4 DEF Abstract!Departs

(* What happens outside notify() is a change of the registry and of who is *)
(* usable and subscribed, and no more.                                     *)
LEMMA OutsideChanges ==
  ASSUME Typed, Typed', RegistrySound, SentBehind, DueSubscribed,
         DueSubscribed', Resting, Outside
  PROVE  Abstract!Change
<1>0. /\ TypeOK /\ clients \in Seq(Conns) /\ Len(clients) \in Nat
      /\ due \in [Notifiers -> SUBSET Conns]
      /\ due' \in [Notifiers -> SUBSET Conns]
      /\ ntopic \in [Notifiers -> Topics \cup {None}]
  BY LenProperties DEF Typed, TypeOK
<1>1. /\ UNCHANGED <<ntopic, nidx, sent>> /\ LoopForward /\ Deader
      /\ DueShrinks
  BY DEF Outside
<1>2. MembersMatch /\ MembersMatch'
  <2>1. (TypeOK => MembersMatch)'
    BY MembersAre, PTL
  <2> QED
    BY <2>1, MembersAre DEF Typed
<1>3. Audience' \in [Topics -> SUBSET Members']
  <2>1. (TypeOK => Audience \in [Topics -> SUBSET Members])'
    BY AudienceTyped, PTL
  <2> QED
    BY <2>1 DEF Typed
<1>4. ASSUME NEW c \in Conns, Joined(c)
      PROVE  /\ c \in Conns \ Members /\ Members' = Members \cup {c}
             /\ skipped' = skipped
             /\ \A x \in Conns : Member(x)' <=> Member(x) \/ x = c
  <2>1. ~ Member(c)
    BY <1>4 DEF Joined, RegistrySound
  <2>2. /\ Len(clients') = Len(clients) + 1
        /\ \A i \in 1..Len(clients) : clients'[i] = clients[i]
        /\ clients'[Len(clients) + 1] = c
    BY <1>0, <1>4 DEF Joined
  <2>3. \A x \in Conns : Member(x)' <=> Member(x) \/ x = c
    <3>1. ASSUME NEW x \in Conns, Member(x)' PROVE Member(x) \/ x = c
      <4>1. PICK i \in 1..Len(clients') : clients'[i] = x
        BY <3>1 DEF Member, Contains
      <4> QED
        BY <1>0, <2>2, <4>1 DEF Member, Contains
    <3>2. ASSUME NEW x \in Conns, Member(x) PROVE Member(x)'
      <4>1. PICK i \in 1..Len(clients) : clients[i] = x
        BY <3>2 DEF Member, Contains
      <4>2. i \in 1..Len(clients') /\ clients'[i] = x
        BY <1>0, <2>2, <4>1
      <4> QED
        BY <4>2 DEF Member, Contains
    <3>3. Member(c)'
      <4>1. Len(clients) + 1 \in 1..Len(clients')
        BY <1>0, <2>2
      <4> QED
        BY <2>2, <4>1 DEF Member, Contains
    <3> QED
      BY <3>1, <3>2, <3>3
  <2> QED
    BY <1>2, <1>4, <2>1, <2>3 DEF MembersMatch, Joined
<1>5. ASSUME NEW c \in Conns, Left(c)
      PROVE  /\ c \in Members /\ Abstract!Departs(c)
             /\ \A x \in Conns : Member(x)' => Member(x)
  <2>1. PICK idx \in [Notifiers -> Nat \ {0}] : idx = nidx
    BY <1>0 DEF TypeOK
  <2>2. PICK topic : topic = ntopic
    OBVIOUS
  <2>3. Unregister(c, idx, topic) /\ Member(c)
    BY <1>5, <2>1, <2>2 DEF Left
  <2>4. \A n \in Notifiers : nidx[n] <= idx[n]
    BY <1>0, <2>1 DEF TypeOK
  <2>5. \A n \in Notifiers : idx[n] # 1 => ntopic'[n] # None
    <3>1. \A n \in Notifiers : nidx[n] # 1 => ntopic[n] \in Topics
      BY DEF Typed, Wiring
    <3> QED
      BY <1>1, <2>1, <3>1, PubSubAssumption
  <2>6. \A x \in Conns : Member(x)' => Member(x)
    BY <1>1, <2>3, <2>4, RemovalCosts
  <2> QED
    BY <1>1, <2>3, <2>4, <2>5, <2>6, RemovalDeparts
<1>6. \/ UNCHANGED <<Members, skipped>>
      \/ \E c \in Conns \ Members : Abstract!Joins(c)
      \/ \E c \in Members : Abstract!Departs(c)
  BY <1>4, <1>5 DEF Outside, Members, Abstract!Joins
<1>7. \A x \in Conns : Member(x)' /\ loop[x] \notin {"new", "preparing"}
                       => Member(x)
  BY <1>4, <1>5 DEF Outside, Member, Joined
<1>8. \A x \in Conns :
        Live(x)' /\ loop[x] \notin {"new", "preparing"} => Live(x)
  BY <1>1, <1>7 DEF Live, Deader
<1>9. ASSUME NEW n \in Notifiers
      PROVE  {c \in due'[n] : Live(c)'} =
               {c \in {c \in due[n] : Live(c)} : c \in Audience'[ntopic[n]]}
  <2>1. CASE npc[n] = "idle"
    BY <1>1, <2>1 DEF Resting, DueShrinks
  <2>2. CASE npc[n] # "idle"
    <3>1. ntopic[n] \in Topics
      BY <2>2 DEF Typed, Wiring
    <3>2. PICK t \in Topics : t = ntopic[n]
      BY <3>1
    <3>3. Audience'[t] = {c \in Conns : Live(c)' /\ t \in subs'[c]}
      BY DEF Audience, Subscribers
    <3>4. /\ due'[n] \subseteq due[n] /\ due[n] \subseteq Conns
          /\ \A c \in due[n] : t \in subs'[c] => c \in due'[n]
      BY <1>0, <1>1, <3>2 DEF DueShrinks
    <3>5. \A c \in due[n] : loop[c] \notin {"new", "preparing"}
      BY DEF DueSubscribed
    <3>6. \A c \in due'[n] : t \in subs'[c]
      BY <1>1, <3>2 DEF DueSubscribed
    <3> QED
      BY <1>8, <3>2, <3>3, <3>4, <3>5, <3>6
  <2> QED
    BY <2>1, <2>2
<1>10. Awaited' = [n \in Notifiers |->
                     {c \in Awaited[n] : c \in Audience'[ntopic[n]]}]
  BY <1>9 DEF Awaited
<1>11. UNCHANGED <<ntopic, Got>>
  BY <1>1 DEF Got
<1> QED
  BY <1>3, <1>6, <1>10, <1>11 DEF Abstract!Change

(* How a visit of c by notify() n on topic t shows: as a delivery, or as a *)
(* departure.                                                              *)
Visited(n, t, c) ==
  /\ c \in Members /\ t \in subs[c]
  /\ \/ /\ Live(c) /\ c \notin Got[n] \cup skipped[n]
        /\ Got' = [Got EXCEPT ![n] = @ \cup {c}]
        /\ UNCHANGED <<Members, skipped>>
     \/ /\ ~ Live(c) /\ Abstract!Departs(c)
        /\ UNCHANGED Got

(* Every visit shows like that, and changes nobody's being usable.         *)
LEMMA VisitShows ==
  ASSUME Typed, Typed', RegistrySound, SentBehind, Past(nidx),
         NEW n \in Notifiers, NEW t \in Topics, NEW d, NEW audience,
         UNCHANGED <<loop, closing, closed, subs>>,
         Visit(n, t, d, nidx[n], audience)
  PROVE  /\ \E c \in Conns : Visited(n, t, c)
         /\ \A x \in Conns : Live(x)' <=> Live(x)
<1>0. /\ TypeOK /\ clients \in Seq(Conns) /\ Len(clients) \in Nat
      /\ nidx \in [Notifiers -> Nat \ {0}]
      /\ sent \in [Notifiers -> Seq(Conns)]
  BY LenProperties DEF Typed, TypeOK
<1>1. PICK j \in nidx[n]..Len(clients) :
        /\ Yields(j, t)
        /\ nidx' = [nidx EXCEPT ![n] = j + 1]
        /\ ntopic' = [ntopic EXCEPT ![n] = t]
        /\ \/ /\ Dead(clients[j]) /\ Unregister(clients[j], nidx', ntopic')
              /\ UNCHANGED sent
           \/ /\ ~ Dead(clients[j])
              /\ sent' = [sent EXCEPT ![n] = Append(@, clients[j])]
              /\ UNCHANGED <<clients, skipped>>
  BY DEF Visit, ResumesAt
<1>2. PICK c \in Conns : c = clients[j]
  BY <1>0, ElementOfSeq
<1>3. j \in 1..Len(clients) /\ nidx[n] \in Nat /\ ~ (j < nidx[n])
  BY <1>0
<1>4. Member(c) /\ c \in Members /\ t \in subs[c] /\ ~ closed[c]
  <2>1. MembersMatch /\ Member(c)
    BY <1>0, <1>2, <1>3, MembersAre DEF Member, Contains
  <2> QED
    BY <1>1, <1>2, <2>1 DEF MembersMatch, Yields
<1>5. CASE ~ Dead(c)
  <2>1. Live(c)
    BY <1>4, <1>5 DEF Live, Dead
  <2>2. c \notin ToSet(sent[n])
    <3>1. \A i \in 1..Len(sent[n]) : sent[n][i] # c
      BY <1>2, <1>3 DEF SentBehind
    <3> QED
      BY <1>0, <3>1, LenProperties DEF ToSet
  <2>3. c \notin skipped[n]
    BY <1>2, <1>3 DEF Past
  <2>4. Got' = [Got EXCEPT ![n] = @ \cup {c}]
    <3>1. sent' = [sent EXCEPT ![n] = Append(@, c)]
      BY <1>1, <1>2, <1>5
    <3>2. ToSet(Append(sent[n], c)) = ToSet(sent[n]) \cup {c}
      <4>1. /\ sent[n] \in Seq(Conns) /\ Len(sent[n]) \in Nat
            /\ DOMAIN sent[n] = 1..Len(sent[n])
        BY <1>0, LenProperties
      <4>2. /\ DOMAIN Append(sent[n], c) = 1..(Len(sent[n]) + 1)
            /\ \A i \in 1..Len(sent[n]) : Append(sent[n], c)[i] = sent[n][i]
            /\ Append(sent[n], c)[Len(sent[n]) + 1] = c
        BY <4>1, AppendProperties, LenProperties
      <4> QED
        BY <4>1, <4>2 DEF ToSet
    <3>3. \A m \in Notifiers :
            ToSet(sent'[m]) = IF m = n THEN ToSet(sent[n]) \cup {c}
                                       ELSE ToSet(sent[m])
      BY <1>0, <3>1, <3>2
    <3> QED
      BY <3>3 DEF Got
  <2>5. UNCHANGED <<clients, skipped>>
    BY <1>1, <1>2, <1>5
  <2>6. UNCHANGED Members /\ \A x \in Conns : Live(x)' <=> Live(x)
    BY <2>5 DEF Members, Live, Member
  <2>7. Visited(n, t, c)
    BY <1>4, <2>1, <2>2, <2>3, <2>4, <2>5, <2>6 DEF Visited, Got
  <2> QED
    BY <2>6, <2>7
<1>6. CASE Dead(c)
  <2>1. PICK idx \in [Notifiers -> Nat \ {0}] : idx = nidx'
    BY DEF Typed, TypeOK
  <2>2. PICK topic : topic = ntopic'
    OBVIOUS
  <2>3. Unregister(c, idx, topic) /\ UNCHANGED sent
    BY <1>1, <1>2, <1>6, <2>1, <2>2
  <2>4. \A m \in Notifiers : nidx[m] <= idx[m]
    <3> SUFFICES ASSUME NEW m \in Notifiers PROVE nidx[m] <= idx[m]
      OBVIOUS
    <3>1. CASE m = n
      BY <1>0, <1>1, <1>3, <2>1, <3>1
    <3>2. CASE m # n
      BY <1>0, <1>1, <2>1, <3>2
    <3> QED
      BY <3>1, <3>2
  <2>5. \A m \in Notifiers : idx[m] # 1 => ntopic'[m] # None
    <3>1. \A m \in Notifiers : nidx'[m] # 1 => ntopic'[m] \in Topics
      BY DEF Typed, Wiring
    <3> QED
      BY <2>1, <3>1, PubSubAssumption
  <2>6. Abstract!Departs(c)
    BY <1>4, <2>3, <2>4, <2>5, RemovalDeparts
  <2>7. \A x \in Conns : Member(x)' <=> Member(x) /\ x # c
    BY <1>4, <2>3, <2>4, RemovalCosts
  <2>8. \A x \in Conns : Live(x)' <=> Live(x)
    BY <1>6, <2>7 DEF Live, Dead
  <2>9. UNCHANGED Got /\ ~ Live(c)
    BY <1>6, <2>3 DEF Got, Live, Dead
  <2> QED
    BY <1>4, <2>6, <2>8, <2>9 DEF Visited
<1> QED
  BY <1>5, <1>6

(* Nobody's being usable and subscribed changes: audiences stay.           *)
LEMMA AudienceStays ==
  ASSUME UNCHANGED subs, \A x \in Conns : Live(x)' <=> Live(x)
  PROVE  UNCHANGED Audience
BY DEF Audience, Subscribers

(* A notify() that starts writes to somebody, prunes somebody or ends.     *)
LEMMA StartShows ==
  ASSUME Typed, Typed', RegistrySound, SentBehind, Past(nidx), Resting,
         NEW n \in Notifiers, NEW t \in Topics, Starting(n, t)
  PROVE  Abstract!Start(n, t) \/ UNCHANGED Abstract!broadcastVars
<1>0. /\ TypeOK /\ due \in [Notifiers -> SUBSET Conns]
      /\ ntopic \in [Notifiers -> Topics \cup {None}]
      /\ sent \in [Notifiers -> Seq(Conns)]
      /\ skipped \in [Notifiers -> SUBSET Conns]
  BY DEF Typed, TypeOK
<1>1. PICK d \in Nat : Turn(n, t, d, 1, Subscribers(t))
  BY DEF Starting
<1>2. /\ npc[n] = "idle" /\ ntopic[n] = None /\ due[n] = {}
      /\ skipped[n] = {} /\ nidx[n] = 1 /\ sent[n] = <<>>
  BY DEF Starting, Resting, Typed, Wiring
<1>3. UNCHANGED <<loop, closing, closed, subs>>
  BY <1>1 DEF Turn
<1>4. CASE Exhausted(n, t, 1)
  <2>1. UNCHANGED <<clients, ntopic, sent, due, skipped>>
    BY <1>0, <1>2, <1>4 DEF Exhausted
  <2>2. UNCHANGED Members /\ \A x \in Conns : Live(x)' <=> Live(x)
    BY <1>3, <2>1 DEF Members, Live, Member
  <2>3. UNCHANGED <<Audience, Got, Awaited>>
    BY <1>0, <1>3, <2>1, <2>2, AudienceStays DEF Got, Awaited
  <2> QED
    BY <2>1, <2>2, <2>3 DEF Abstract!broadcastVars
<1>5. CASE Visit(n, t, d, 1, Subscribers(t))
  <2>1. /\ ntopic' = [ntopic EXCEPT ![n] = t]
        /\ due' = [due EXCEPT ![n] = Subscribers(t)]
    BY <1>5 DEF Visit
  <2>2. /\ \E c \in Conns : Visited(n, t, c)
        /\ \A x \in Conns : Live(x)' <=> Live(x)
    <3>1. Visit(n, t, d, nidx[n], Subscribers(t))
      BY <1>2, <1>5
    <3> QED
      BY <1>3, <3>1, VisitShows
  <2>3. UNCHANGED Audience
    BY <1>3, <2>2, AudienceStays
  <2>4. Audience[t] = Subscribers(t) /\ Subscribers(t) \subseteq Conns
    BY DEF Audience, Subscribers
  <2>5. Awaited' = [Awaited EXCEPT ![n] = Audience[t]]
    <3> SUFFICES ASSUME NEW m \in Notifiers
                 PROVE  {c \in due'[m] : Live(c)'} =
                          IF m = n THEN Subscribers(t)
                                   ELSE {c \in due[m] : Live(c)}
      BY <2>4 DEF Awaited
    <3>1. CASE m = n
      <4>1. due'[n] = Subscribers(t)
        BY <1>0, <2>1
      <4>2. \A c \in Subscribers(t) : Live(c)'
        BY <2>2 DEF Subscribers
      <4> QED
        BY <3>1, <4>1, <4>2
    <3>2. CASE m # n
      <4>1. due'[m] = due[m] /\ due[m] \subseteq Conns
        BY <1>0, <2>1, <3>2
      <4> QED
        BY <2>2, <3>2, <4>1
    <3> QED
      BY <3>1, <3>2
  <2>6. Got[n] = {}
    BY <1>2, LenProperties DEF Got, ToSet
  <2>7. PICK c \in Conns : Visited(n, t, c)
    BY <2>2
  <2>8. \/ /\ \E x \in Audience[t] : Got' = [Got EXCEPT ![n] = {x}]
           /\ UNCHANGED <<Members, skipped>>
        \/ /\ \E x \in Members \ Audience[t] : Abstract!Departs(x)
           /\ UNCHANGED Got
    <3>1. Live(c) <=> c \in Audience[t]
      BY <2>4, <2>7 DEF Visited, Subscribers
    <3>2. CASE Live(c)
      <4>1. Got' = [Got EXCEPT ![n] = @ \cup {c}]
        BY <2>7, <3>2 DEF Visited
      <4>2. Got' = [Got EXCEPT ![n] = {c}]
        BY <2>6, <4>1
      <4> QED
        BY <2>7, <3>1, <3>2, <4>2 DEF Visited
    <3>3. CASE ~ Live(c)
      BY <2>7, <3>1, <3>3 DEF Visited
    <3> QED
      BY <3>2, <3>3
  <2> QED
    BY <1>2, <2>1, <2>3, <2>5, <2>8 DEF Abstract!Start
<1> QED
  BY <1>1, <1>4, <1>5 DEF Turn

(* A notify() that goes on writes to somebody, prunes somebody or returns. *)
LEMMA ResumeShows ==
  ASSUME Typed, Typed', RegistrySound, SentBehind, DueSubscribed,
         Behind(nidx, due), Past(nidx), Resting,
         NEW n \in Notifiers, Resuming(n)
  PROVE  \/ Abstract!Change
         \/ \E c \in Conns : Abstract!Deliver(n, c)
         \/ Abstract!Return(n)
<1>0. /\ TypeOK /\ due \in [Notifiers -> SUBSET Conns]
      /\ clients \in Seq(Conns) /\ Len(clients) \in Nat
      /\ ntopic \in [Notifiers -> Topics \cup {None}]
      /\ nidx \in [Notifiers -> Nat \ {0}]
      /\ sent \in [Notifiers -> Seq(Conns)]
      /\ skipped \in [Notifiers -> SUBSET Conns]
  BY LenProperties DEF Typed, TypeOK
<1>1. /\ npc[n] = "draining"
      /\ UNCHANGED <<loop, closing, closed, subs>>
      /\ \/ Visit(n, ntopic[n], ndata[n], nidx[n], due[n])
         \/ Exhausted(n, ntopic[n], nidx[n])
  BY DEF Resuming, Turn
<1>2. ntopic[n] \in Topics /\ ntopic[n] # None
  BY <1>1, PubSubAssumption DEF Typed, Wiring
<1>3. PICK t \in Topics : t = ntopic[n]
  BY <1>2
<1>4. Audience[t] = {x \in Conns : Live(x) /\ t \in subs[x]}
  BY DEF Audience, Subscribers
<1>5. CASE Exhausted(n, ntopic[n], nidx[n])
  <2>1. /\ clients' = clients
        /\ ntopic' = [ntopic EXCEPT ![n] = None]
        /\ sent' = [sent EXCEPT ![n] = <<>>]
        /\ due' = [due EXCEPT ![n] = {}]
        /\ skipped' = [skipped EXCEPT ![n] = {}]
    BY <1>5 DEF Exhausted
  <2>2. UNCHANGED Members /\ \A x \in Conns : Live(x)' <=> Live(x)
    BY <1>1, <2>1 DEF Members, Live, Member
  <2>3. UNCHANGED Audience
    BY <1>1, <2>2, AudienceStays
  <2>4. Got' = [Got EXCEPT ![n] = {}]
    <3>1. ToSet(<<>>) = {}
      BY LenProperties DEF ToSet
    <3> QED
      BY <1>0, <2>1, <3>1 DEF Got
  <2>5. Awaited' = [Awaited EXCEPT ![n] = {}]
    <3> SUFFICES ASSUME NEW m \in Notifiers
                 PROVE  {c \in due'[m] : Live(c)'} =
                          IF m = n THEN {} ELSE {c \in due[m] : Live(c)}
      BY DEF Awaited
    <3>1. CASE m = n
      BY <1>0, <2>1, <3>1
    <3>2. CASE m # n
      <4>1. due'[m] = due[m] /\ due[m] \subseteq Conns
        BY <1>0, <2>1, <3>2
      <4> QED
        BY <2>2, <3>2, <4>1
    <3> QED
      BY <3>1, <3>2
  <2>6. Awaited[n] \subseteq Got[n] \cup skipped[n]
    <3> SUFFICES ASSUME NEW c \in due[n], Live(c)
                 PROVE  c \in ToSet(sent[n]) \cup skipped[n]
      BY DEF Awaited, Got
    <3>1. PICK j \in 1..Len(clients) : clients[j] = c
      BY DEF Live, Member, Contains
    <3>2. Yields(j, ntopic[n])
      BY <3>1 DEF Yields, Live, DueSubscribed
    <3>3. j < nidx[n]
      <4>1. j \notin nidx[n]..Len(clients)
        BY <1>5, <3>2 DEF Exhausted, NoneLeft
      <4> QED
        BY <1>0, <4>1
    <3> QED
      BY <3>1, <3>3 DEF Behind, Live
  <2> QED
    BY <1>2, <2>1, <2>2, <2>3, <2>4, <2>5, <2>6 DEF Abstract!Return
<1>6. CASE Visit(n, ntopic[n], ndata[n], nidx[n], due[n])
  <2>1. UNCHANGED <<ntopic, due>>
    <3>1. /\ ntopic' = [ntopic EXCEPT ![n] = ntopic[n]]
          /\ due' = [due EXCEPT ![n] = due[n]]
      BY <1>6 DEF Visit
    <3> QED
      BY <1>0, <3>1
  <2>2. /\ \E c \in Conns : Visited(n, t, c)
        /\ \A x \in Conns : Live(x)' <=> Live(x)
    <3>1. Visit(n, t, ndata[n], nidx[n], due[n])
      BY <1>3, <1>6
    <3> QED
      BY <1>1, <3>1, VisitShows
  <2>3. UNCHANGED Audience
    BY <1>1, <2>2, AudienceStays
  <2>4. UNCHANGED Awaited
    BY <1>0, <2>1, <2>2 DEF Awaited
  <2>5. PICK c \in Conns : Visited(n, t, c)
    BY <2>2
  <2>6. CASE Live(c)
    <3>1. /\ c \notin Got[n] \cup skipped[n] /\ t \in subs[c]
          /\ Got' = [Got EXCEPT ![n] = @ \cup {c}]
          /\ UNCHANGED <<Members, skipped>>
      BY <2>5, <2>6 DEF Visited
    <3>2. c \in Audience[ntopic[n]] \ (Got[n] \cup skipped[n])
      BY <1>3, <1>4, <2>6, <3>1
    <3>3. Abstract!Deliver(n, c)
      BY <1>2, <2>1, <2>3, <2>4, <3>1, <3>2 DEF Abstract!Deliver
    <3> QED
      BY <3>3
  <2>7. CASE ~ Live(c)
    <3>1. c \in Members /\ Abstract!Departs(c) /\ UNCHANGED Got
      BY <2>5, <2>7 DEF Visited
    <3>2. Audience' \in [Topics -> SUBSET Members']
      <4>1. (TypeOK => Audience \in [Topics -> SUBSET Members])'
        BY AudienceTyped, PTL
      <4> QED
        BY <4>1 DEF Typed
    <3>3. \A m \in Notifiers :
            Awaited[m] = {x \in Awaited[m] : x \in Audience'[ntopic[m]]}
      <4> SUFFICES ASSUME NEW m \in Notifiers, NEW x \in due[m], Live(x)
                   PROVE  x \in Audience[ntopic[m]]
        BY <2>3 DEF Awaited
      <4>1. npc[m] # "idle"
        BY DEF Resting
      <4>2. ntopic[m] \in Topics
        BY <4>1 DEF Typed, Wiring
      <4>3. x \in Conns /\ ntopic[m] \in subs[x]
        BY <1>0 DEF DueSubscribed
      <4> QED
        BY <4>2, <4>3 DEF Audience, Subscribers
    <3>4. Awaited' = [m \in Notifiers |->
                        {x \in Awaited[m] : x \in Audience'[ntopic[m]]}]
      <4>1. Awaited = [m \in Notifiers |-> Awaited[m]]
        BY DEF Awaited
      <4> QED
        BY <2>4, <3>3, <4>1
    <3>5. Abstract!Change
      BY <2>1, <3>1, <3>2, <3>4 DEF Abstract!Change
    <3> QED
      BY <3>5
  <2> QED
    BY <2>6, <2>7
<1> QED
  BY <1>1, <1>5, <1>6

(* Every step shows as a step of Broadcast, or not at all.                 *)
LEMMA BroadcastNext ==
  ASSUME Typed, Typed', RegistrySound, SentOnce, DueOK, DueOK', Past(nidx),
         Resting, [Next]_vars
  PROVE  [Abstract!Next]_Abstract!broadcastVars
<1>1. CASE Outside
  BY <1>1, OutsideChanges DEF SentOnce, DueOK, Abstract!Next
<1>2. ASSUME NEW n \in Notifiers, NEW t \in Topics, Starting(n, t)
      PROVE  [Abstract!Next]_Abstract!broadcastVars
  BY <1>2, StartShows DEF SentOnce, Abstract!Next
<1>3. ASSUME NEW n \in Notifiers, Resuming(n)
      PROVE  Abstract!Next
  BY <1>3, ResumeShows DEF SentOnce, DueOK, Abstract!Next
<1> QED
  BY <1>1, <1>2, <1>3, StepKinds

(* At first the registry is empty and nothing is under way.                *)
LEMMA BroadcastInit ==
  Init => Abstract!Init /\ Resting /\ Past(nidx)
<1> SUFFICES ASSUME Init PROVE Abstract!Init /\ Resting /\ Past(nidx)
  OBVIOUS
<1>1. ToSet(<<>>) = {}
  BY LenProperties DEF ToSet
<1>2. Members = {}
  BY <1>1 DEF Init, Members
<1>3. \A x \in Conns : ~ Live(x)
  BY LenProperties DEF Init, Live, Member, Contains
<1>4. Audience = [t \in Topics |-> {}]
  BY <1>3 DEF Audience, Subscribers
<1>5. Got = [n \in Notifiers |-> {}] /\ Awaited = [n \in Notifiers |-> {}]
  BY <1>1 DEF Init, Got, Awaited
<1>6. Resting /\ Past(nidx)
  BY DEF Init, Resting, Past
<1> QED
  BY <1>2, <1>4, <1>5, <1>6 DEF Init, Abstract!Init

(* The iteration over the live list implements Broadcast: whoever joins,   *)
(* leaves, subscribes or is pruned while calls of notify() are suspended,  *)
(* each call reaches those it has to reach and nobody twice, except one    *)
(* client at most for each removal from the registry.                      *)
THEOREM Broadcasting == Spec => Broadcasts
<1>1. Init => Abstract!Init /\ Resting /\ Past(nidx)
  BY BroadcastInit
<1>2. Typed /\ Resting /\ [Next]_vars => Resting'
  BY RestingNext
<1>3. Typed /\ Typed' /\ RegistrySound /\ Past(nidx) /\ [Next]_vars
        => Past(nidx)'
  BY PastNext
<1>4. Typed /\ Typed' /\ RegistrySound /\ SentOnce /\ DueOK /\ DueOK'
        /\ Past(nidx) /\ Resting /\ [Next]_vars
        => [Abstract!Next]_Abstract!broadcastVars
  BY BroadcastNext
<1> QED
  BY TypedInit, TypedNext, RegistryInit, RegistryNext, SentInit, SentNext,
     DueInit, DueNext, <1>1, <1>2, <1>3, <1>4, PTL
     DEF Spec, Broadcasts, Abstract!Spec
=============================================================================
