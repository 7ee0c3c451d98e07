------------------------- MODULE PubSubStateProofs --------------------------
(* What subscribers end up with, for every value of the constants: the     *)
(* latest state (SubscribersUpToDate) and the subscriptions that they asked*)
(* for (RequestsTakeEffect).                                               *)
EXTENDS PubSubProofs

-----------------------------------------------------------------------------
(* The tasks of messages and the order in which they start.                *)

(* The queue holds each task that has yet to start, and nothing else.      *)
QueueSound ==
  /\ IsInjective(queue)
  /\ \A k \in Tasks : tpc[k] = "ready" <=> \E i \in 1..Len(queue) : queue[i] = k

(* A task belongs to a connection that has registered; one that has yet to *)
(* visit a topic is about to run subscribe() or unsubscribe(), or is       *)
(* subscribe() at an await.                                                *)
TaskSound(k) ==
  /\ tpc[k] = "free" => tconn[k] = None /\ todo[k] = <<>>
  /\ tpc[k] # "free" => loop[tconn[k]] \notin {"new", "preparing"}
  /\ tpc[k] = "ready" /\ todo[k] # <<>> =>
       tmethod[k] \in {"subscribe", "unsubscribe"}
  /\ tpc[k] = "sending" => tmethod[k] = "subscribe"
  /\ tpc[k] \in {"running", "replying", "closing"} => todo[k] = <<>>

(* A client subscribes to topics that it may use, once it has registered.  *)
Granted(c) ==
  /\ subs[c] \subseteq topics[c] /\ wanted[c] \subseteq topics[c]
  /\ loop[c] \in {"new", "preparing"} => subs[c] = {} /\ wanted[c] = {}

Tasked ==
  /\ QueueSound
  /\ \A k \in Tasks : TaskSound(k)
  /\ \A c \in Conns : Granted(c)

(* The elements of a sequence, by position.                                *)
LEMMA ToSetProperties ==
  ASSUME NEW S, NEW s \in Seq(S)
  PROVE  /\ \A x : x \in ToSet(s) <=> \E i \in 1..Len(s) : s[i] = x
         /\ ToSet(s) \subseteq S
         /\ s = <<>> <=> ToSet(s) = {}
<1>1. DOMAIN s = 1..Len(s) /\ Len(s) \in Nat /\ \A i \in 1..Len(s) : s[i] \in S
  BY ElementOfSeq, LenProperties
<1>2. \A x : x \in ToSet(s) <=> \E i \in 1..Len(s) : s[i] = x
  BY <1>1 DEF ToSet
<1>3. s = <<>> => ToSet(s) = {}
  BY <1>1, <1>2
<1>4. s # <<>> => s[1] \in ToSet(s)
  <2>1. s # <<>> => Len(s) # 0
    BY EmptySeq
  <2> QED
    BY <1>1, <1>2, <2>1
<1> QED
  BY <1>1, <1>2, <1>3, <1>4

(* What a step of task k does to the tasks.                                *)
TaskMoves(k) ==
  /\ \/ Starts(k)
     \/ tpc[k] \notin {"free", "ready"} /\ UNCHANGED queue
  /\ \A h \in Tasks \ {k} :
       /\ tpc'[h] = tpc[h] /\ tconn'[h] = tconn[h]
       /\ tmethod'[h] = tmethod[h] /\ todo'[h] = todo[h]
  /\ tpc'[k] # "ready"
  /\ tpc'[k] = "free" => tconn'[k] = None /\ todo'[k] = <<>>
  /\ tpc'[k] # "free" => tconn'[k] = tconn[k]
  /\ tpc'[k] = "sending" => tmethod'[k] = "subscribe"
  /\ tpc'[k] \in {"running", "replying", "closing"} => todo'[k] = <<>>

(* A reply ends the visits of a task.                                      *)
Settles(k) ==
  /\ tpc'[k] \in {"free", "replying", "closing"} /\ todo'[k] = <<>>
  /\ tconn'[k] = IF tpc'[k] = "free" THEN None ELSE tconn[k]
  /\ \A h \in Tasks \ {k} :
       /\ tpc'[h] = tpc[h] /\ tconn'[h] = tconn[h]
       /\ tmethod'[h] = tmethod[h] /\ todo'[h] = todo[h]

(* A task that ends has no visits left.                                    *)
LEMMA FreeTaskSettles ==
  ASSUME TypeOK, NEW k \in Tasks, FreeTask(k) PROVE Settles(k)
BY DEF FreeTask, Settles, TypeOK

(* Nor has one that waits for the end of its reply.                        *)
LEMMA TaskAtSettles ==
  ASSUME TypeOK, NEW k \in Tasks, NEW pc \in {"replying", "closing"},
         TaskAt(k, pc)
  PROVE  Settles(k)
BY DEF TaskAt, Settles, TypeOK

(* So a task that replies ends its visits, whichever way the send goes.    *)
LEMMA ReplySettles ==
  ASSUME TypeOK, NEW k \in Tasks, SendReply(k) PROVE Settles(k)
BY FreeTaskSettles, TaskAtSettles DEF SendReply

(* Every step of a task moves it on, and no other.                         *)
LEMMA TaskEffect ==
  ASSUME Typed, \A h \in Tasks : TaskSound(h), NEW k \in Tasks, TaskStep(k)
  PROVE  TaskMoves(k)
<1>0. TypeOK
  BY DEF Typed
<1>1. ASSUME Settles(k),
             Starts(k) \/ (tpc[k] \notin {"free", "ready"} /\ UNCHANGED queue)
      PROVE  TaskMoves(k)
  BY <1>1 DEF Settles, TaskMoves
<1>2. CASE Reject(k)
  BY <1>0, <1>1, <1>2, ReplySettles DEF Reject
<1>3. CASE CallMethod(k)
  <2>1. todo[k] = <<>>
    BY <1>3 DEF CallMethod, Starts, TaskSound
  <2> QED
    BY <1>0, <1>3, <2>1 DEF CallMethod, TaskMoves, TypeOK
<1>4. CASE MethodReturns(k)
  BY <1>0, <1>1, <1>4, ReplySettles DEF MethodReturns
<1>5. CASE RunUnsubscribe(k)
  BY <1>0, <1>1, <1>5, ReplySettles DEF RunUnsubscribe
<1>6. CASE SubscribeReturns(k)
  BY <1>0, <1>1, <1>6, ReplySettles DEF SubscribeReturns, Subscribing
<1>7. ASSUME NEW j \in DOMAIN todo[k], ReplayState(k, j) PROVE TaskMoves(k)
  <2>1. /\ tmethod[k] = "subscribe"
        /\ Starts(k) \/ (tpc[k] \notin {"free", "ready"} /\ UNCHANGED queue)
    BY <1>7 DEF ReplayState, Subscribing
  <2>2. CASE SendReply(k)
    BY <1>0, <1>1, <2>1, <2>2, ReplySettles
  <2>3. CASE /\ tpc' = [tpc EXCEPT ![k] = "sending"]
             /\ todo' = [todo EXCEPT ![k] = SubSeq(@, j + 1, Len(@))]
             /\ UNCHANGED <<tconn, tmethod>>
    BY <1>0, <2>1, <2>3 DEF TaskMoves, TypeOK
  <2> QED
    BY <1>7, <2>2, <2>3 DEF ReplayState
<1>8. CASE DrainFails(k)
  BY <1>0, <1>1, <1>8, ReplySettles DEF DrainFails
<1>9. CASE TaskReplied(k)
  BY <1>0, <1>1, <1>9, FreeTaskSettles DEF TaskReplied
<1>10. CASE TaskClosed(k)
  BY <1>0, <1>1, <1>10, FreeTaskSettles DEF TaskClosed
<1> QED
  BY <1>2, <1>3, <1>4, <1>5, <1>6, <1>7, <1>8, <1>9, <1>10 DEF TaskStep

(* The queue, the tasks and the subscriptions at the start.                *)
LEMMA TaskedInit == Init => Tasked
BY EmptySeq
   DEF Init, Tasked, QueueSound, TaskSound, Granted, IsInjective

(* A task that starts leaves the queue in order.                           *)
LEMMA StartsAdvances ==
  ASSUME Typed, QueueSound, NEW k \in Tasks, Starts(k)
  PROVE  /\ Len(queue) \in Nat \ {0} /\ queue[1] = k
         /\ Len(queue') = Len(queue) - 1
         /\ \A i \in 1..Len(queue') : queue'[i] = queue[i + 1]
         /\ \A i \in 2..Len(queue) : queue[i] # k
<1>1. queue \in Seq(Tasks) /\ queue # <<>> /\ Head(queue) = k
      /\ queue' = Tail(queue)
  BY DEF Typed, TypeOK, Starts
<1>2. /\ Len(queue) \in Nat \ {0} /\ queue[1] = k
      /\ Len(queue') = Len(queue) - 1
      /\ \A i \in 1..Len(queue') : queue'[i] = queue[i + 1]
  BY <1>1, EmptySeq, HeadTailProperties
<1>3. \A i \in 2..Len(queue) : queue[i] # k
  BY <1>1, <1>2, LenProperties DEF QueueSound, IsInjective
<1> QED
  BY <1>2, <1>3

(* The queue stays sound when a task moves on.                             *)
LEMMA MovesKeepQueue ==
  ASSUME Typed, QueueSound, NEW k \in Tasks, TaskMoves(k)
  PROVE  QueueSound'
<1>0. /\ queue \in Seq(Tasks) /\ DOMAIN queue = 1..Len(queue)
      /\ Len(queue) \in Nat
  BY LenProperties DEF Typed, TypeOK
<1>1. CASE Starts(k)
  <2>1. /\ Len(queue) \in Nat \ {0} /\ queue[1] = k
        /\ Len(queue') = Len(queue) - 1
        /\ \A i \in 1..Len(queue') : queue'[i] = queue[i + 1]
        /\ \A i \in 2..Len(queue) : queue[i] # k
    BY <1>1, StartsAdvances
  <2>2. DOMAIN queue' = 1..Len(queue')
    <3>1. queue' \in Seq(Tasks)
      BY <1>0, <1>1 DEF Starts
    <3> QED
      BY <3>1, LenProperties
  <2>3. IsInjective(queue')
    <3> SUFFICES ASSUME NEW i \in 1..Len(queue'), NEW j \in 1..Len(queue'),
                        queue'[i] = queue'[j]
                 PROVE  i = j
      BY <2>2 DEF IsInjective
    <3>1. queue[i + 1] = queue[j + 1] /\ i + 1 \in 1..Len(queue)
          /\ j + 1 \in 1..Len(queue)
      BY <2>1
    <3>2. i + 1 = j + 1
      BY <1>0, <3>1 DEF QueueSound, IsInjective
    <3> QED
      BY <3>2
  <2>4. ASSUME NEW h \in Tasks
        PROVE  tpc'[h] = "ready" <=> \E i \in 1..Len(queue') : queue'[i] = h
    <3>1. ASSUME NEW i \in 1..Len(queue'), queue'[i] = h
          PROVE  tpc'[h] = "ready"
      <4>1. i + 1 \in 2..Len(queue) /\ i + 1 \in 1..Len(queue)
            /\ queue[i + 1] = h /\ h # k
        BY <2>1, <3>1
      <4>2. tpc[h] = "ready"
        BY <4>1 DEF QueueSound
      <4> QED
        BY <4>1, <4>2 DEF TaskMoves
    <3>2. ASSUME tpc'[h] = "ready"
          PROVE  \E i \in 1..Len(queue') : queue'[i] = h
      <4>1. h # k /\ tpc[h] = "ready"
        BY <3>2 DEF TaskMoves
      <4>2. PICK i \in 1..Len(queue) : queue[i] = h
        BY <4>1 DEF QueueSound
      <4>3. i - 1 \in 1..Len(queue') /\ queue'[i - 1] = h
        BY <2>1, <4>1, <4>2
      <4> QED
        BY <4>3
    <3> QED
      BY <3>1, <3>2
  <2> QED
    BY <2>3, <2>4 DEF QueueSound
<1>2. CASE tpc[k] \notin {"free", "ready"} /\ UNCHANGED queue
  <2>1. \A h \in Tasks : tpc'[h] = "ready" <=> tpc[h] = "ready"
    BY <1>2 DEF TaskMoves
  <2> QED
    BY <1>2, <2>1 DEF QueueSound
<1> QED
  BY <1>1, <1>2 DEF TaskMoves

(* A task keeps what it knows, and the connection of another keeps too.    *)
LEMMA MovesKeepTasks ==
  ASSUME Typed, \A h \in Tasks : TaskSound(h), LoopForward,
         NEW k \in Tasks, TaskMoves(k)
  PROVE  \A h \in Tasks : TaskSound(h)'
<1> SUFFICES ASSUME NEW h \in Tasks PROVE TaskSound(h)'
  OBVIOUS
<1>0. \A x \in Tasks : tpc[x] # "free" => tconn[x] \in Conns
  BY DEF Typed, Wiring
<1>1. CASE h # k
  <2>1. /\ tpc'[h] = tpc[h] /\ tconn'[h] = tconn[h]
        /\ tmethod'[h] = tmethod[h] /\ todo'[h] = todo[h]
    BY <1>1 DEF TaskMoves
  <2> QED
    BY <1>0, <2>1 DEF TaskSound, LoopForward
<1>2. CASE h = k
  <2>1. tpc[k] # "free"
    BY DEF TaskMoves, Starts
  <2> QED
    BY <1>0, <1>2, <2>1 DEF TaskSound, LoopForward, TaskMoves
<1> QED
  BY <1>1, <1>2

(* A task changes subscriptions of its own client only, and grants what is *)
(* granted.                                                                *)
LEMMA TaskGrants ==
  ASSUME Typed, Tasked, NEW k \in Tasks, TaskStep(k)
  PROVE  /\ UNCHANGED <<topics, wanted, loop>>
         /\ \A c \in Conns : Granted(c)'
<1>0. /\ TypeOK /\ \A c \in Conns : Granted(c)
      /\ tpc[k] # "free" =>
           tconn[k] \in Conns /\ loop[tconn[k]] \notin {"new", "preparing"}
  BY DEF Typed, Wiring, Tasked, TaskSound
<1> USE DEF connVars, wishVars
<1>1. UNCHANGED <<topics, wanted, loop>>
  BY DEF TaskStep, Reject, CallMethod, MethodReturns, RunUnsubscribe,
         SubscribeReturns, ReplayState, DrainFails, TaskReplied, TaskClosed
<1>2. CASE UNCHANGED subs
  BY <1>0, <1>1, <1>2 DEF Granted
<1>3. CASE RunUnsubscribe(k)
  <2>1. /\ tconn[k] \in Conns
        /\ subs' = [subs EXCEPT ![tconn[k]] = @ \ ToSet(todo[k])]
    BY <1>0, <1>3 DEF RunUnsubscribe, Starts
  <2>2. \A c \in Conns : subs'[c] \subseteq subs[c]
    BY <1>0, <2>1 DEF TypeOK
  <2> QED
    BY <1>0, <1>1, <2>2 DEF Granted
<1>4. ASSUME NEW upto, SubscribeTo(k, upto), Subscribing(k)
      PROVE  \A c \in Conns : Granted(c)'
  <2>1. /\ tconn[k] \in Conns /\ loop[tconn[k]] \notin {"new", "preparing"}
    BY <1>0, <1>4 DEF Subscribing, Starts
  <2>2. /\ \A c \in Conns \ {tconn[k]} : subs'[c] = subs[c]
        /\ subs'[tconn[k]] \subseteq subs[tconn[k]] \cup topics[tconn[k]]
    BY <1>0, <1>4, <2>1 DEF TypeOK, SubscribeTo
  <2> QED
    BY <1>0, <1>1, <2>1, <2>2 DEF Granted
<1>5. \/ UNCHANGED subs \/ RunUnsubscribe(k)
      \/ \E upto : SubscribeTo(k, upto) /\ Subscribing(k)
  BY DEF TaskStep, Reject, CallMethod, MethodReturns, SubscribeReturns,
         ReplayState, DrainFails, TaskReplied, TaskClosed
<1> QED
  BY <1>1, <1>2, <1>3, <1>4, <1>5

(* A message that arrives waits at the end of the queue.                   *)
LEMMA ReceiveKeepsTasked ==
  ASSUME Typed, RegistrySound, Tasked, NEW k \in Tasks, NEW c \in Conns,
         NEW m \in Methods, NEW p \in Params, Receive(k, c, m, p)
  PROVE  Tasked'
<1>0. /\ TypeOK /\ queue \in Seq(Tasks) /\ DOMAIN queue = 1..Len(queue)
      /\ Len(queue) \in Nat
  BY LenProperties DEF Typed, TypeOK
<1>1. /\ queue' = Append(queue, k) /\ tpc[k] = "free"
      /\ tpc' = [tpc EXCEPT ![k] = "ready"]
      /\ tconn' = [tconn EXCEPT ![k] = c]
      /\ tmethod' = [tmethod EXCEPT ![k] = m]
      /\ todo' = [todo EXCEPT ![k] =
                   IF m \in {"subscribe", "unsubscribe"} THEN p ELSE <<>>]
      /\ loop[c] = "receiving" /\ UNCHANGED <<loop, topics, subs>>
      /\ wanted' = [wanted EXCEPT ![c] =
                   CASE m = "subscribe" -> @ \cup (ToSet(p) \cap topics[c])
                     [] m = "unsubscribe" -> @ \ ToSet(p)
                     [] OTHER -> @]
  BY DEF Receive, connVars
<1>2. /\ Len(queue') = Len(queue) + 1 /\ DOMAIN queue' = 1..Len(queue')
      /\ \A i \in 1..Len(queue) : queue'[i] = queue[i]
      /\ queue'[Len(queue) + 1] = k
  BY <1>0, <1>1
<1>3. \A i \in 1..Len(queue) : queue[i] # k
  BY <1>1 DEF Tasked, QueueSound
<1>4. QueueSound'
  <2>1. IsInjective(queue')
    BY <1>0, <1>2, <1>3 DEF Tasked, QueueSound, IsInjective
  <2>2. \A h \in Tasks :
          tpc'[h] = "ready" <=> \E i \in 1..Len(queue') : queue'[i] = h
    <3> SUFFICES ASSUME NEW h \in Tasks
                 PROVE  tpc'[h] = "ready" <=>
                          \E i \in 1..Len(queue') : queue'[i] = h
      OBVIOUS
    <3>1. tpc'[h] = "ready" <=> h = k \/ tpc[h] = "ready"
      BY <1>0, <1>1 DEF TypeOK
    <3>2. (\E i \in 1..Len(queue') : queue'[i] = h) <=>
             h = k \/ \E i \in 1..Len(queue) : queue[i] = h
      BY <1>0, <1>2
    <3> QED
      BY <3>1, <3>2 DEF Tasked, QueueSound
  <2> QED
    BY <2>1, <2>2 DEF QueueSound
<1>5. ASSUME NEW h \in Tasks PROVE TaskSound(h)'
  <2>1. CASE h = k
    <3>1. /\ tpc'[h] = "ready" /\ tconn'[h] = c
          /\ tmethod'[h] \in {"subscribe", "unsubscribe"} \/ todo'[h] = <<>>
      BY <1>0, <1>1, <2>1 DEF TypeOK
    <3> QED
      BY <1>1, <3>1 DEF TaskSound
  <2>2. CASE h # k
    <3>1. /\ tpc'[h] = tpc[h] /\ tconn'[h] = tconn[h]
          /\ tmethod'[h] = tmethod[h] /\ todo'[h] = todo[h] /\ loop' = loop
      BY <1>0, <1>1, <2>2 DEF TypeOK
    <3> QED
      BY <3>1 DEF TaskSound, Tasked
  <2> QED
    BY <2>1, <2>2
<1>6. ASSUME NEW x \in Conns PROVE Granted(x)'
  <2>1. wanted'[x] \subseteq wanted[x] \cup topics[x]
        /\ (x # c => wanted'[x] = wanted[x])
    BY <1>0, <1>1 DEF TypeOK
  <2>2. Granted(x)
    BY DEF Tasked
  <2> QED
    BY <1>1, <2>1, <2>2 DEF Granted
<1> QED
  BY <1>4, <1>5, <1>6 DEF Tasked

(* Every step keeps it.                                                    *)
LEMMA TaskedNext ==
  Typed /\ RegistrySound /\ Tasked /\ [Next]_vars => Tasked'
<1> SUFFICES ASSUME Typed, RegistrySound, Tasked, [Next]_vars
             PROVE  Tasked'
  OBVIOUS
<1>0. TypeOK /\ \A k \in Tasks : tpc[k] # "free" => tconn[k] \in Conns
  BY DEF Typed, Wiring
<1> USE DEF connVars, notifyVars, taskVars, wishVars
<1>1. ASSUME UNCHANGED <<taskVars, subs, wanted>>, LoopForward,
             \A c \in Conns : topics'[c] = topics[c] \/ loop[c] = "new"
      PROVE  Tasked'
  <2>1. QueueSound'
    BY <1>1 DEF Tasked, QueueSound
  <2>2. \A k \in Tasks : TaskSound(k)'
    BY <1>0, <1>1 DEF Tasked, TaskSound, LoopForward
  <2>3. \A c \in Conns : Granted(c)'
    BY <1>1 DEF Tasked, Granted, LoopForward
  <2> QED
    BY <2>1, <2>2, <2>3 DEF Tasked
<1>2. ASSUME NEW t \in Topics, AddTopic(t) PROVE Tasked'
  BY <1>1, <1>2 DEF AddTopic, LoopForward
<1>3. ASSUME NEW c \in Conns, ConnStep(c) PROVE Tasked'
  <2>1. CASE Prepare(c)
    BY <1>0, <1>1, <2>1 DEF Prepare, LoopForward, TypeOK
  <2>2. CASE Register(c) \/ LoopExit(c) \/ CancelLoop(c)
    <3>1. UNCHANGED <<taskVars, subs, wanted, topics>>
      BY <2>2 DEF Register, LoopExit, CancelLoop
    <3>2. LoopForward
      BY <1>0, <2>2 DEF Register, LoopExit, CancelLoop, LoopForward, TypeOK
    <3> QED
      BY <1>1, <3>1, <3>2
  <2>3. CASE TransportLost(c) \/ ReceiveClose(c)
    BY <1>1, <2>3 DEF TransportLost, ReceiveClose, LoopForward
  <2> QED
    BY <1>3, <2>1, <2>2, <2>3 DEF ConnStep
<1>4. ASSUME NEW k \in Tasks, NEW c \in Conns, NEW m \in Methods,
             NEW p \in Params, Receive(k, c, m, p)
      PROVE  Tasked'
  BY <1>4, ReceiveKeepsTasked
<1>5. ASSUME NEW k \in Tasks, TaskStep(k) PROVE Tasked'
  <2>1. TaskMoves(k)
    BY <1>5, TaskEffect DEF Tasked
  <2>2. (\A c \in Conns : Granted(c)') /\ LoopForward
    BY <1>5, TaskGrants DEF LoopForward
  <2> QED
    BY <2>1, <2>2, MovesKeepQueue, MovesKeepTasks DEF Tasked
<1>6. ASSUME NEW n \in Notifiers, NEW t \in Topics, NEW s \in BOOLEAN,
             StartNotify(n, t, s)
      PROVE  Tasked'
  BY <1>1, <1>6 DEF StartNotify, LoopForward
<1>7. ASSUME NEW n \in Notifiers, NotifierStep(n) PROVE Tasked'
  BY <1>1, <1>7 DEF NotifierStep, ResumeNotify, NotifyClosed, LoopForward
<1>8. CASE UNCHANGED vars
  BY <1>1, <1>8 DEF vars, LoopForward
<1> QED
  BY <1>2, <1>3, <1>4, <1>5, <1>6, <1>7, <1>8 DEF Next

-----------------------------------------------------------------------------
(* Requests take effect in the order of their arrival.                     *)

(* Task k has yet to visit topic t for client c, for the first time or     *)
(* after an await.                                                         *)
Visits(k, c, t) == tconn[k] = c /\ t \in ToSet(todo[k])
Waits(c, t) == \E i \in 1..Len(queue) : Visits(queue[i], c, t)
Resumes(c, t) == \E k \in Tasks : tpc[k] = "sending" /\ Visits(k, c, t)

(* The last request in the queue that names a topic decides on it.         *)
LastCounts(c, t) ==
  \A i \in 1..Len(queue) :
    /\ Visits(queue[i], c, t)
    /\ \A j \in (i + 1)..Len(queue) : ~Visits(queue[j], c, t)
    => (t \in wanted[c] <=> tmethod[queue[i]] = "subscribe" /\ t \in topics[c])

(* When none in the queue does, the subscription is as it should be, or a  *)
(* suspended subscribe() will see to it, or an unsubscribe overtook one.   *)
Settled(c, t) ==
  /\ t \in wanted[c] => t \in subs[c] \/ Resumes(c, t)
  /\ t \in subs[c] \/ (t \in topics[c] /\ Resumes(c, t))
       => t \in wanted[c] \cup revived[c]

Ordered(c, t) == LastCounts(c, t) /\ (~Waits(c, t) => Settled(c, t))
InOrder == \A c \in Conns, t \in Topics : Live(c) => Ordered(c, t)

(* Nothing is in order but what nobody has asked for.                      *)
LEMMA NewcomersInOrder ==
  ASSUME Typed, Tasked, NEW c \in Conns, loop[c] \in {"new", "preparing"},
         NEW t
  PROVE  Ordered(c, t)
<1>1. subs[c] = {} /\ wanted[c] = {}
  BY DEF Tasked, Granted
<1>2. \A k \in Tasks : ~Visits(k, c, t)
  <2> SUFFICES ASSUME NEW k \in Tasks, Visits(k, c, t) PROVE FALSE
    OBVIOUS
  <2>1. tpc[k] = "free"
    BY DEF Visits, Tasked, TaskSound
  <2>2. tconn[k] = None
    BY <2>1 DEF Tasked, TaskSound
  <2> QED
    BY <2>2, PubSubAssumption DEF Visits
<1>3. \A i \in 1..Len(queue) : queue[i] \in Tasks
  BY ElementOfSeq DEF Typed, TypeOK
<1> QED
  BY <1>1, <1>2, <1>3 DEF Ordered, LastCounts, Settled, Resumes

(* What a step leaves alone for a client stays in order.                   *)
LEMMA OthersKeepOrder ==
  ASSUME Typed, NEW c \in Conns, NEW t, Ordered(c, t),
         queue' = queue,
         \A k \in Tasks :
           /\ Visits(k, c, t)' <=> Visits(k, c, t)
           /\ Visits(k, c, t) => tmethod'[k] = tmethod[k]
           /\ Visits(k, c, t) => (tpc'[k] = "sending" <=> tpc[k] = "sending"),
         t \in subs'[c] <=> t \in subs[c],
         t \in wanted'[c] <=> t \in wanted[c],
         t \in topics'[c] <=> t \in topics[c],
         t \in revived[c] => t \in revived'[c]
  PROVE  Ordered(c, t)'
<1>1. \A i \in 1..Len(queue) : queue[i] \in Tasks
  BY ElementOfSeq DEF Typed, TypeOK
<1>2. \A i \in 1..Len(queue) :
        /\ Visits(queue[i], c, t)' <=> Visits(queue[i], c, t)
        /\ Visits(queue[i], c, t) => tmethod'[queue[i]] = tmethod[queue[i]]
  BY <1>1
<1>3. Resumes(c, t)' <=> Resumes(c, t)
  BY DEF Resumes
<1>4. Waits(c, t)' <=> Waits(c, t)
  BY <1>2 DEF Waits
<1>5. LastCounts(c, t)'
  <2> SUFFICES ASSUME NEW i \in 1..Len(queue'), Visits(queue[i], c, t)',
                      \A j \in (i + 1)..Len(queue') :
                         ~Visits(queue[j], c, t)'
               PROVE  t \in wanted'[c] <=>
                        tmethod'[queue'[i]] = "subscribe" /\ t \in topics'[c]
    BY DEF LastCounts
  <2>1. i \in 1..Len(queue) /\ Visits(queue[i], c, t)
    BY <1>2
  <2>2. \A j \in (i + 1)..Len(queue) : ~Visits(queue[j], c, t)
    <3> SUFFICES ASSUME NEW j \in (i + 1)..Len(queue)
                 PROVE  ~Visits(queue[j], c, t)
      OBVIOUS
    <3>1. j \in 1..Len(queue)
      BY <2>1
    <3> QED
      BY <1>2, <3>1
  <2>3. t \in wanted[c] <=>
          tmethod[queue[i]] = "subscribe" /\ t \in topics[c]
    BY <2>1, <2>2 DEF Ordered, LastCounts
  <2> QED
    BY <1>2, <2>1, <2>3
<1> QED
  BY <1>3, <1>4, <1>5 DEF Ordered, Settled

(* When task k starts or goes on, the requests behind it keep the last say;*)
(* if there is none that names t, it was k's, or all is settled.           *)
LEMMA LastSay ==
  ASSUME Typed, Tasked, NEW k \in Tasks, TaskMoves(k),
         NEW c \in Conns, NEW t, Ordered(c, t),
         t \in wanted'[c] <=> t \in wanted[c],
         t \in topics'[c] <=> t \in topics[c]
  PROVE  /\ LastCounts(c, t)'
         /\ ~Waits(c, t)' =>
              \/ Settled(c, t) /\ ~(Starts(k) /\ Visits(k, c, t))
              \/ /\ Visits(k, c, t) /\ Starts(k)
                 /\ t \in wanted[c] <=>
                      tmethod[k] = "subscribe" /\ t \in topics[c]
<1>0. /\ queue \in Seq(Tasks) /\ Len(queue) \in Nat
      /\ \A i \in 1..Len(queue) : queue[i] \in Tasks
  BY ElementOfSeq, LenProperties DEF Typed, TypeOK
<1>1. \A h \in Tasks \ {k} :
        /\ Visits(h, c, t)' <=> Visits(h, c, t)
        /\ tmethod'[h] = tmethod[h]
  BY DEF TaskMoves, Visits
<1>2. CASE Starts(k)
  <2>1. /\ Len(queue) \in Nat \ {0} /\ queue[1] = k
        /\ Len(queue') = Len(queue) - 1
        /\ \A i \in 1..Len(queue') : queue'[i] = queue[i + 1]
        /\ \A i \in 2..Len(queue) : queue[i] # k
    BY <1>2, StartsAdvances DEF Tasked
  <2>2. \A i \in 2..Len(queue) :
          /\ queue'[i - 1] = queue[i] /\ i - 1 \in 1..Len(queue')
          /\ queue[i] \in Tasks \ {k}
    BY <1>0, <2>1
  <2>3. \A i \in 2..Len(queue) :
          /\ Visits(queue[i - 1], c, t)' <=> Visits(queue[i], c, t)
          /\ tmethod'[queue'[i - 1]] = tmethod[queue[i]]
    BY <1>1, <2>2 DEF Visits
  <2>4. LastCounts(c, t)'
    <3> SUFFICES ASSUME NEW i \in 1..Len(queue'), Visits(queue[i], c, t)',
                        \A j \in (i + 1)..Len(queue') :
                           ~Visits(queue[j], c, t)'
                 PROVE  t \in wanted'[c] <=>
                          tmethod'[queue'[i]] = "subscribe" /\ t \in topics'[c]
      BY DEF LastCounts
    <3>1. /\ i + 1 \in 2..Len(queue) /\ (i + 1) - 1 = i
          /\ i + 1 \in 1..Len(queue)
      BY <2>1
    <3>2. /\ Visits(queue[i + 1], c, t)
          /\ tmethod'[queue'[i]] = tmethod[queue[i + 1]]
      BY <2>3, <3>1
    <3>3. \A j \in ((i + 1) + 1)..Len(queue) : ~Visits(queue[j], c, t)
      <4> SUFFICES ASSUME NEW j \in ((i + 1) + 1)..Len(queue)
                   PROVE  ~Visits(queue[j], c, t)
        OBVIOUS
      <4>1. j \in 2..Len(queue) /\ j - 1 \in (i + 1)..Len(queue')
        BY <2>1
      <4> QED
        BY <2>3, <4>1
    <3>4. t \in wanted[c] <=>
            tmethod[queue[i + 1]] = "subscribe" /\ t \in topics[c]
      BY <3>1, <3>2, <3>3 DEF Ordered, LastCounts
    <3> QED
      BY <3>2, <3>4
  <2>5. ASSUME ~Waits(c, t)'
        PROVE  \A i \in 2..Len(queue) : ~Visits(queue[i], c, t)
    BY <2>2, <2>3, <2>5 DEF Waits
  <2>6. ASSUME ~Waits(c, t)', Visits(k, c, t)
        PROVE  t \in wanted[c] <=> tmethod[k] = "subscribe" /\ t \in topics[c]
    <3>1. 1 \in 1..Len(queue) /\ (1 + 1)..Len(queue) = 2..Len(queue)
      BY <2>1
    <3> QED
      BY <2>1, <2>5, <2>6, <3>1 DEF Ordered, LastCounts
  <2>7. ASSUME ~Waits(c, t)', ~Visits(k, c, t) PROVE Settled(c, t)
    <3>1. \A i \in 1..Len(queue) : ~Visits(queue[i], c, t)
      <4> SUFFICES ASSUME NEW i \in 1..Len(queue)
                   PROVE  ~Visits(queue[i], c, t)
        OBVIOUS
      <4>1. i = 1 \/ i \in 2..Len(queue)
        OBVIOUS
      <4> QED
        BY <2>1, <2>5, <2>7, <4>1
    <3> QED
      BY <3>1 DEF Ordered, Waits
  <2> QED
    BY <1>2, <2>4, <2>6, <2>7
<1>3. CASE tpc[k] \notin {"free", "ready"} /\ UNCHANGED queue
  <2>1. \A i \in 1..Len(queue) : queue[i] \in Tasks \ {k}
    BY <1>0, <1>3 DEF Tasked, QueueSound
  <2>2. \A i \in 1..Len(queue) :
          /\ Visits(queue[i], c, t)' <=> Visits(queue[i], c, t)
          /\ tmethod'[queue'[i]] = tmethod[queue[i]]
    BY <1>1, <1>3, <2>1
  <2>3. LastCounts(c, t)'
    <3> SUFFICES ASSUME NEW i \in 1..Len(queue'), Visits(queue[i], c, t)',
                        \A j \in (i + 1)..Len(queue') :
                           ~Visits(queue[j], c, t)'
                 PROVE  t \in wanted'[c] <=>
                          tmethod'[queue'[i]] = "subscribe" /\ t \in topics'[c]
      BY DEF LastCounts
    <3>1. /\ i \in 1..Len(queue) /\ Visits(queue[i], c, t)
          /\ tmethod'[queue'[i]] = tmethod[queue[i]]
      BY <1>3, <2>2
    <3>2. \A j \in (i + 1)..Len(queue) : ~Visits(queue[j], c, t)
      <4> SUFFICES ASSUME NEW j \in (i + 1)..Len(queue)
                   PROVE  ~Visits(queue[j], c, t)
        OBVIOUS
      <4>1. j \in 1..Len(queue) /\ j \in (i + 1)..Len(queue')
        BY <1>3, <3>1
      <4> QED
        BY <2>2, <4>1
    <3>3. t \in wanted[c] <=>
            tmethod[queue[i]] = "subscribe" /\ t \in topics[c]
      BY <3>1, <3>2 DEF Ordered, LastCounts
    <3> QED
      BY <3>1, <3>3
  <2>4. ~Waits(c, t)' => Settled(c, t)
    BY <1>3, <2>2 DEF Waits, Ordered
  <2>5. ~Starts(k)
    BY <1>3 DEF Starts
  <2> QED
    BY <2>3, <2>4, <2>5
<1> QED
  BY <1>2, <1>3 DEF TaskMoves

(* Other tasks of the client go on visiting what they did.                 *)
LEMMA OthersResume ==
  ASSUME NEW k \in Tasks, TaskMoves(k), NEW c, NEW t
  PROVE  /\ Resumes(c, t) =>
              \/ tpc[k] = "sending" /\ Visits(k, c, t)
              \/ Resumes(c, t)'
         /\ Resumes(c, t)' =>
              \/ tpc'[k] = "sending" /\ Visits(k, c, t)'
              \/ Resumes(c, t)
         /\ tpc'[k] = "sending" /\ Visits(k, c, t)' => Resumes(c, t)'
<1>1. \A h \in Tasks \ {k} :
        /\ Visits(h, c, t)' <=> Visits(h, c, t)
        /\ tpc'[h] = "sending" <=> tpc[h] = "sending"
  BY DEF TaskMoves, Visits
<1>2. Resumes(c, t)' <=>
        \E h \in Tasks : tpc'[h] = "sending" /\ Visits(h, c, t)'
  BY DEF Resumes
<1>3. Resumes(c, t) <=> \E h \in Tasks : tpc[h] = "sending" /\ Visits(h, c, t)
  BY DEF Resumes
<1> QED
  BY <1>1, <1>2, <1>3

(* subscribe() adds what it visits and has the rest ahead; a step that     *)
(* visits nothing is a special case.                                       *)
LEMMA VisitKeepsOrder ==
  ASSUME Typed, Typed', Tasked, NEW k \in Tasks, TaskMoves(k),
         NEW c \in Conns, NEW t, Ordered(c, t),
         Visits(k, c, t) => tmethod[k] = "subscribe",
         Visits(k, c, t)' => Visits(k, c, t),
         t \in subs[c] => t \in subs'[c],
         t \in subs'[c] =>
           t \in subs[c] \/ (t \in topics[c] /\ Visits(k, c, t)),
         Visits(k, c, t) /\ t \in topics[c] =>
           t \in subs'[c] \/ Visits(k, c, t)',
         t \in wanted'[c] <=> t \in wanted[c],
         t \in topics'[c] <=> t \in topics[c],
         t \in revived'[c] <=> t \in revived[c]
  PROVE  Ordered(c, t)'
<1>1. LastCounts(c, t)'
  BY LastSay
<1>2. ASSUME ~Waits(c, t)'
      PROVE  \/ Settled(c, t) /\ ~(Starts(k) /\ Visits(k, c, t))
             \/ /\ Visits(k, c, t)
                /\ t \in wanted[c] <=> t \in topics[c]
  BY <1>2, LastSay
<1>3. t \in wanted[c] => t \in topics[c]
  BY DEF Tasked, Granted
<1>4. Visits(k, c, t)' => tpc'[k] = "sending"
  <2>1. ASSUME Visits(k, c, t)', tpc'[k] # "sending" PROVE FALSE
    <3>1. todo'[k] = <<>>
      <4>1. tpc'[k] \in {"free", "ready", "running", "sending", "replying",
                         "closing"}
        BY DEF Typed, TypeOK
      <4> QED
        BY <2>1, <4>1 DEF TaskMoves
    <3>2. ToSet(<<>>) = {}
      BY EmptySeq, ToSetProperties
    <3> QED
      BY <2>1, <3>1, <3>2 DEF Visits
  <2> QED
    BY <2>1
<1>5. Visits(k, c, t) /\ ~Starts(k) => tpc[k] = "sending"
  <2>1. ASSUME Visits(k, c, t), ~Starts(k), tpc[k] # "sending" PROVE FALSE
    <3>1. tpc[k] \notin {"free", "ready"} /\ todo[k] = <<>>
      BY <2>1 DEF TaskMoves, Tasked, TaskSound, Typed, TypeOK
    <3>2. ToSet(<<>>) = {}
      BY EmptySeq, ToSetProperties
    <3> QED
      BY <2>1, <3>1, <3>2 DEF Visits
  <2> QED
    BY <2>1
<1>6. ASSUME ~Waits(c, t)' PROVE Settled(c, t)'
  <2>1. ASSUME t \in wanted'[c] PROVE t \in subs'[c] \/ Resumes(c, t)'
    <3>1. t \in topics[c]
      BY <1>3, <2>1
    <3>2. CASE Visits(k, c, t)
      BY <1>4, <3>1, <3>2, OthersResume
    <3>3. CASE ~Visits(k, c, t)
      <4>1. t \in subs[c] \/ Resumes(c, t)
        BY <1>2, <1>6, <2>1, <3>3 DEF Settled
      <4> QED
        BY <3>3, <4>1, OthersResume
    <3> QED
      BY <3>2, <3>3
  <2>2. ASSUME t \in subs'[c] \/ (t \in topics'[c] /\ Resumes(c, t)')
        PROVE  t \in wanted'[c] \cup revived'[c]
    <3>1. \/ t \in subs[c]
          \/ t \in topics[c] /\ (Visits(k, c, t) \/ Resumes(c, t))
      BY <2>2, OthersResume
    <3>2. CASE Settled(c, t) /\ ~(Starts(k) /\ Visits(k, c, t))
      <4>1. Visits(k, c, t) => Resumes(c, t)
        BY <1>5, <3>2 DEF Resumes
      <4> QED
        BY <3>1, <3>2, <4>1 DEF Settled
    <3>3. CASE /\ Visits(k, c, t)
               /\ t \in wanted[c] <=> t \in topics[c]
      <4>1. t \in subs[c] => t \in topics[c]
        BY DEF Tasked, Granted
      <4> QED
        BY <3>1, <3>3, <4>1
    <3> QED
      BY <1>2, <1>6, <3>2, <3>3
  <2> QED
    BY <2>1, <2>2 DEF Settled
<1> QED
  BY <1>1, <1>6 DEF Ordered

(* unsubscribe() drops what it visits, and notes whom it overtakes.        *)
LEMMA UnsubscribeKeepsOrder ==
  ASSUME Typed, Tasked, NEW k \in Tasks, RunUnsubscribe(k), TaskMoves(k),
         NEW c \in Conns, NEW t, Ordered(c, t)
  PROVE  Ordered(c, t)'
<1>0. TypeOK /\ tconn[k] \in Conns /\ Starts(k) /\ tmethod[k] = "unsubscribe"
  BY DEF Typed, Wiring, RunUnsubscribe, Starts
<1>1. /\ subs' = [subs EXCEPT ![tconn[k]] = @ \ ToSet(todo[k])]
      /\ revived' = [revived EXCEPT ![tconn[k]] = @ \cup
           {x \in ToSet(todo[k]) :
              \E h \in Tasks : /\ tpc[h] = "sending" /\ tconn[h] = tconn[k]
                              /\ x \in ToSet(todo[h])}]
      /\ UNCHANGED <<topics, wanted>>
  BY DEF RunUnsubscribe, connVars
<1>2. /\ LastCounts(c, t)'
      /\ ~Waits(c, t)' =>
           \/ Settled(c, t) /\ ~Visits(k, c, t)
           \/ Visits(k, c, t) /\ t \notin wanted[c]
  BY <1>0, <1>1, LastSay
<1>3. Settles(k)
  BY <1>0, ReplySettles DEF RunUnsubscribe
<1>4. ~(tpc'[k] = "sending") /\ ~(tpc[k] = "sending")
  BY <1>0, <1>3 DEF Settles, Starts
<1>5. Resumes(c, t)' <=> Resumes(c, t)
  BY <1>4, OthersResume
<1>6. CASE Visits(k, c, t)
  <2>1. t \notin subs'[c]
    BY <1>0, <1>1, <1>6 DEF Visits, TypeOK
  <2>2. Resumes(c, t) => t \in revived'[c]
    BY <1>0, <1>1, <1>6 DEF Visits, Resumes, TypeOK
  <2>3. ~Waits(c, t)' => Settled(c, t)'
    BY <1>1, <1>2, <1>5, <1>6, <2>1, <2>2 DEF Settled
  <2> QED
    BY <1>2, <2>3 DEF Ordered
<1>7. CASE ~Visits(k, c, t)
  <2>1. /\ t \in subs'[c] <=> t \in subs[c]
        /\ t \in revived'[c] <=> t \in revived[c]
    BY <1>0, <1>1, <1>7 DEF Visits, TypeOK
  <2>2. ~Waits(c, t)' => Settled(c, t)'
    BY <1>1, <1>2, <1>5, <1>7, <2>1 DEF Settled
  <2> QED
    BY <1>2, <2>2 DEF Ordered
<1> QED
  BY <1>6, <1>7

(* What subscribe() has done when it added the first of its topics.        *)
Added(k, upto, t) ==
  /\ \A x \in Conns \ {tconn[k]} : subs'[x] = subs[x]
  /\ t \in subs'[tconn[k]] <=>
       \/ t \in subs[tconn[k]]
       \/ t \in topics[tconn[k]] /\ \E i \in 1..upto : todo[k][i] = t

(* The visits of subscribe(), by way of the topics that it adds.           *)
LEMMA SubscribeToAdds ==
  ASSUME TypeOK, NEW k \in Tasks, tconn[k] \in Conns,
         NEW upto \in 0..Len(todo[k]), SubscribeTo(k, upto), NEW t
  PROVE  Added(k, upto, t)
<1> DEFINE first == SubSeq(todo[k], 1, upto)
<1>1. /\ todo[k] \in Seq(Topics) /\ Len(todo[k]) \in Nat
  BY LenProperties DEF TypeOK
<1>2. /\ first \in Seq(Topics) /\ Len(first) = upto
      /\ \A i \in 1..upto : first[i] = todo[k][i]
  BY <1>1, SubSeqProperties
<1>3. subs' = [subs EXCEPT ![tconn[k]] =
                 @ \cup (ToSet(first) \cap topics[tconn[k]])]
  BY DEF SubscribeTo
<1> HIDE DEF first
<1>4. t \in ToSet(first) <=> \E i \in 1..Len(first) : first[i] = t
  BY <1>2, ToSetProperties
<1>5. t \in ToSet(first) <=> \E i \in 1..upto : todo[k][i] = t
  BY <1>2, <1>4
<1> QED
  BY <1>3, <1>5 DEF Added, TypeOK

(* The topics of the rest of a list.                                       *)
LEMMA RestOf ==
  ASSUME NEW S, NEW s \in Seq(S), NEW j \in 1..Len(s), NEW t
  PROVE  t \in ToSet(SubSeq(s, j + 1, Len(s))) <=>
           \E i \in (j + 1)..Len(s) : s[i] = t
<1> DEFINE rest == SubSeq(s, j + 1, Len(s))
<1>1. Len(s) \in Nat
  BY LenProperties
<1>2. /\ rest \in Seq(S) /\ Len(rest) = Len(s) - j
      /\ \A i \in 1..(Len(s) - j) : rest[i] = s[j + i]
  BY <1>1
<1> HIDE DEF rest
<1>3. t \in ToSet(rest) <=> \E i \in 1..Len(rest) : rest[i] = t
  BY <1>2, ToSetProperties
<1>4. ASSUME NEW i \in 1..Len(rest), rest[i] = t
      PROVE  \E h \in (j + 1)..Len(s) : s[h] = t
  <2>1. j + i \in (j + 1)..Len(s) /\ s[j + i] = t
    BY <1>1, <1>2, <1>4
  <2> QED
    BY <2>1
<1>5. ASSUME NEW h \in (j + 1)..Len(s), s[h] = t
      PROVE  \E i \in 1..Len(rest) : rest[i] = t
  <2>1. h - j \in 1..Len(rest) /\ rest[h - j] = t
    BY <1>1, <1>2, <1>5
  <2> QED
    BY <2>1
<1> QED
  BY <1>3, <1>4, <1>5 DEF rest

(* A step of a task keeps what the requests of usable clients ask for.     *)
LEMMA TaskKeepsOrder ==
  ASSUME Typed, Typed', Tasked, InOrder, NEW k \in Tasks, TaskStep(k)
  PROVE  InOrder'
<1> SUFFICES ASSUME NEW c \in Conns, NEW t \in Topics, Live(c)'
             PROVE  Ordered(c, t)'
  BY DEF InOrder
<1>0. TypeOK /\ TaskMoves(k) /\ UNCHANGED <<topics, wanted, loop>>
  BY TaskEffect, TaskGrants DEF Typed, Tasked
<1>1. tconn[k] \in Conns /\ tpc[k] # "free"
  BY <1>0 DEF TaskMoves, Starts, Typed, Wiring
<1>2. Live(c) /\ ~closing[c] /\ ~closed'[c] /\ Ordered(c, t)
  <2>1. ~closing'[c] /\ ~closed'[c] /\ Member(c)'
    BY DEF Live
  <2>2. closing' = closing /\ (closed[c] => closed'[c])
    <3>1. closed' = closed \/ TaskClosed(k)
      BY DEF TaskStep, Reject, CallMethod, MethodReturns, RunUnsubscribe,
             SubscribeReturns, ReplayState, DrainFails, TaskReplied, connVars
    <3>2. TaskClosed(k) => \A x \in Conns : closed[x] => closed'[x]
      BY <1>0 DEF TaskClosed, TypeOK
    <3> QED
      BY <3>1, <3>2, TaskPrunes
  <2>3. Member(c)
    <3>1. Prunes
      BY TaskPrunes
    <3>2. CASE clients' = clients
      BY <2>1, <3>2 DEF Member
    <3>3. ASSUME NEW x \in Conns, Member(x),
                 clients' = RemoveFirst(clients, x)
          PROVE  Member(c)
      <4>1. clients \in Seq(Conns) /\ Len(clients) \in Nat
        BY <1>0 DEF TypeOK
      <4>2. /\ Len(clients') = Len(clients) - 1
            /\ \E p \in 1..Len(clients) :
                 \A q \in 1..Len(clients') :
                   clients'[q] = IF q < p THEN clients[q] ELSE clients[q + 1]
        BY <3>3, <4>1, RemoveFirstProperties DEF Member
      <4>3. PICK q \in 1..Len(clients') : clients'[q] = c
        BY <2>1 DEF Member, Contains
      <4>4. \E q2 \in 1..Len(clients) : clients[q2] = c
        <5>1. q \in 1..Len(clients) /\ q + 1 \in 1..Len(clients)
          BY <4>1, <4>2
        <5>2. clients'[q] = clients[q] \/ clients'[q] = clients[q + 1]
          BY <4>2
        <5> QED
          BY <4>3, <5>1, <5>2
      <4> QED
        BY <4>4 DEF Member, Contains
    <3> QED
      BY <3>1, <3>2, <3>3 DEF Prunes
  <2> QED
    BY <2>1, <2>2, <2>3 DEF Live, InOrder
<1>3. CASE RunUnsubscribe(k)
  BY <1>0, <1>2, <1>3, UnsubscribeKeepsOrder
<1>4. ASSUME Visits(k, c, t) => tmethod[k] = "subscribe",
             Visits(k, c, t)' => Visits(k, c, t),
             t \in subs[c] => t \in subs'[c],
             t \in subs'[c] =>
           t \in subs[c] \/ (t \in topics[c] /\ Visits(k, c, t)),
             Visits(k, c, t) /\ t \in topics[c] =>
           t \in subs'[c] \/ Visits(k, c, t)',
             revived' = revived
      PROVE  Ordered(c, t)'
  BY <1>0, <1>2, <1>4, VisitKeepsOrder
<1>5. todo[k] \in Seq(Topics) /\ Len(todo[k]) \in Nat
      /\ (t \in ToSet(todo[k]) <=> \E i \in 1..Len(todo[k]) : todo[k][i] = t)
  BY <1>0, ToSetProperties, LenProperties DEF TypeOK
<1>6. ToSet(<<>>) = {}
  BY EmptySeq, ToSetProperties
<1>7. ASSUME todo[k] = <<>>, todo'[k] = <<>>, subs' = subs, revived' = revived
      PROVE  Ordered(c, t)'
  BY <1>4, <1>6, <1>7 DEF Visits
<1>8. ASSUME todo[k] = <<>>, Settles(k), subs' = subs, revived' = revived
      PROVE  Ordered(c, t)'
  BY <1>7, <1>8 DEF Settles
<1> USE DEF wishVars
<1>9. CASE Reject(k)
  <2>1. todo[k] = <<>>
    BY <1>9 DEF Reject, Starts, Tasked, TaskSound
  <2> QED
    BY <1>0, <1>8, <1>9, <2>1, ReplySettles DEF Reject
<1>10. CASE CallMethod(k)
  <2>1. todo[k] = <<>>
    BY <1>10 DEF CallMethod, Starts, Tasked, TaskSound
  <2> QED
    BY <1>7, <1>10, <2>1 DEF CallMethod
<1>11. CASE MethodReturns(k)
  <2>1. todo[k] = <<>>
    BY <1>11 DEF MethodReturns, Tasked, TaskSound
  <2> QED
    BY <1>0, <1>8, <1>11, <2>1, ReplySettles DEF MethodReturns
<1>12. CASE SubscribeReturns(k)
  <2>1. /\ tmethod[k] = "subscribe" /\ SubscribeTo(k, Len(todo[k]))
        /\ todo'[k] = <<>> /\ revived' = revived
    BY <1>0, <1>12, ReplySettles DEF SubscribeReturns, Subscribing, Settles
  <2>2. /\ \A x \in Conns \ {tconn[k]} : subs'[x] = subs[x]
        /\ t \in subs'[tconn[k]] <=>
              \/ t \in subs[tconn[k]]
              \/ t \in topics[tconn[k]] /\ t \in ToSet(todo[k])
    <3>1. Len(todo[k]) \in 0..Len(todo[k])
      BY <1>5
    <3>2. Added(k, Len(todo[k]), t)
      BY <1>0, <1>1, <2>1, <3>1, SubscribeToAdds
    <3> QED
      BY <1>5, <3>2 DEF Added
  <2>3. Visits(k, c, t) <=> tconn[k] = c /\ t \in ToSet(todo[k])
    BY DEF Visits
  <2>4. ~Visits(k, c, t)'
    BY <1>6, <2>1 DEF Visits
  <2> QED
    BY <1>4, <2>1, <2>2, <2>3, <2>4
<1>13. ASSUME NEW j \in DOMAIN todo[k], ReplayState(k, j)
       PROVE  Ordered(c, t)'
  <2>1. /\ tmethod[k] = "subscribe" /\ SubscribeTo(k, j)
        /\ revived' = revived /\ j \in 1..Len(todo[k])
    BY <1>5, <1>13, LenProperties DEF ReplayState, Subscribing
  <2>2. /\ \A x \in Conns \ {tconn[k]} : subs'[x] = subs[x]
        /\ t \in subs'[tconn[k]] <=>
              \/ t \in subs[tconn[k]]
              \/ /\ t \in topics[tconn[k]]
                 /\ \E i \in 1..j : todo[k][i] = t
    <3>1. j \in 0..Len(todo[k])
      BY <1>5, <2>1
    <3>2. Added(k, j, t)
      BY <1>0, <1>1, <2>1, <3>1, SubscribeToAdds
    <3> QED
      BY <3>2 DEF Added
  <2>3. Visits(k, c, t) <=> tconn[k] = c /\ t \in ToSet(todo[k])
    BY DEF Visits
  <2>4. CASE closing[tconn[k]] \/ closed[tconn[k]]
    <3>1. tconn[k] # c
      BY <1>2, <2>4 DEF Live
    <3>2. ~Visits(k, c, t)'
      <4>1. tconn'[k] # c
        BY <1>0, <3>1, PubSubAssumption DEF TaskMoves
      <4> QED
        BY <4>1 DEF Visits
    <3> QED
      BY <1>4, <2>1, <2>2, <2>3, <3>1, <3>2
  <2>5. CASE ~(closing[tconn[k]] \/ closed[tconn[k]])
    <3>1. /\ todo'[k] = SubSeq(todo[k], j + 1, Len(todo[k]))
          /\ tconn'[k] = tconn[k]
      BY <1>0, <1>13, <2>5 DEF ReplayState, TypeOK
    <3>2. t \in ToSet(todo'[k]) <=>
            \E i \in (j + 1)..Len(todo[k]) : todo[k][i] = t
      <4>1. todo[k] \in Seq(Topics) /\ j \in 1..Len(todo[k])
        BY <1>5, <2>1
      <4>2. t \in ToSet(SubSeq(todo[k], j + 1, Len(todo[k]))) <=>
              \E i \in (j + 1)..Len(todo[k]) : todo[k][i] = t
        BY <4>1, RestOf
      <4> QED
        BY <3>1, <4>2, Zenon
    <3>3. Visits(k, c, t)' <=> tconn[k] = c /\ t \in ToSet(todo'[k])
      BY <3>1 DEF Visits
    <3>4. (\E i \in 1..Len(todo[k]) : todo[k][i] = t) <=>
             \/ \E i \in 1..j : todo[k][i] = t
             \/ \E i \in (j + 1)..Len(todo[k]) : todo[k][i] = t
      BY <1>5, <2>1
    <3> QED
      BY <1>4, <1>5, <2>1, <2>2, <2>3, <3>2, <3>3, <3>4
  <2> QED
    BY <2>4, <2>5
<1>14. CASE DrainFails(k)
  <2>1. tconn[k] # c
    BY <1>2, <1>14 DEF DrainFails
  <2>2. ~Visits(k, c, t)' /\ ~Visits(k, c, t)
    BY <1>0, <2>1, PubSubAssumption DEF TaskMoves, Visits
  <2> QED
    BY <1>4, <1>14, <2>2 DEF DrainFails
<1>15. CASE TaskReplied(k)
  <2>1. todo[k] = <<>>
    BY <1>15 DEF TaskReplied, Tasked, TaskSound
  <2> QED
    BY <1>0, <1>8, <1>15, <2>1, FreeTaskSettles DEF TaskReplied
<1>16. CASE TaskClosed(k)
  <2>1. todo[k] = <<>>
    BY <1>16 DEF TaskClosed, Tasked, TaskSound
  <2> QED
    BY <1>0, <1>8, <1>16, <2>1, FreeTaskSettles DEF TaskClosed
<1> QED
  BY <1>3, <1>9, <1>10, <1>11, <1>12, <1>13, <1>14, <1>15, <1>16
  DEF TaskStep

(* A message that arrives has the last say on what it names.               *)
LEMMA ReceiveKeepsOrder ==
  ASSUME Typed, Tasked, InOrder, NEW k \in Tasks, NEW x \in Conns,
         NEW m \in Methods, NEW p \in Params, Receive(k, x, m, p)
  PROVE  InOrder'
<1> SUFFICES ASSUME NEW c \in Conns, NEW t \in Topics, Live(c)'
             PROVE  Ordered(c, t)'
  BY DEF InOrder
<1>0. /\ TypeOK /\ queue \in Seq(Tasks) /\ Len(queue) \in Nat
      /\ \A i \in 1..Len(queue) : queue[i] \in Tasks
  BY ElementOfSeq, LenProperties DEF Typed, TypeOK
<1>1. /\ queue' = Append(queue, k) /\ tpc[k] = "free"
      /\ tpc' = [tpc EXCEPT ![k] = "ready"]
      /\ tconn' = [tconn EXCEPT ![k] = x]
      /\ tmethod' = [tmethod EXCEPT ![k] = m]
      /\ todo' = [todo EXCEPT ![k] =
                   IF m \in {"subscribe", "unsubscribe"} THEN p ELSE <<>>]
      /\ UNCHANGED <<topics, subs, revived, closing, closed, clients>>
      /\ wanted' = [wanted EXCEPT ![x] =
                   CASE m = "subscribe" -> @ \cup (ToSet(p) \cap topics[x])
                     [] m = "unsubscribe" -> @ \ ToSet(p)
                     [] OTHER -> @]
  BY DEF Receive, connVars
<1>2. Ordered(c, t)
  BY <1>1 DEF InOrder, Live, Member
<1>3. /\ Len(queue') = Len(queue) + 1
      /\ \A i \in 1..Len(queue) : queue'[i] = queue[i] /\ queue[i] # k
      /\ queue'[Len(queue) + 1] = k
  <2>1. /\ Len(queue') = Len(queue) + 1
        /\ \A i \in 1..Len(queue) : queue'[i] = queue[i]
        /\ queue'[Len(queue) + 1] = k
    BY <1>0, <1>1
  <2>2. \A i \in 1..Len(queue) : queue[i] # k
    BY <1>1 DEF Tasked, QueueSound
  <2> QED
    BY <2>1, <2>2
<1>4. \A h \in Tasks \ {k} :
        /\ Visits(h, c, t)' <=> Visits(h, c, t)
        /\ tmethod'[h] = tmethod[h] /\ tpc'[h] = tpc[h]
  BY <1>0, <1>1 DEF Visits, TypeOK
<1>5. \A i \in 1..Len(queue) :
        /\ Visits(queue[i], c, t)' <=> Visits(queue[i], c, t)
        /\ tmethod'[queue'[i]] = tmethod[queue[i]]
  BY <1>0, <1>3, <1>4 DEF Visits
<1>6. ToSet(<<>>) = {}
  BY EmptySeq, ToSetProperties
<1>7. Resumes(c, t)' <=> Resumes(c, t)
  <2>1. tpc'[k] # "sending" /\ tpc[k] # "sending"
    BY <1>0, <1>1 DEF TypeOK
  <2>2. \A h \in Tasks : tpc'[h] = "sending" /\ Visits(h, c, t)' <=>
                         tpc[h] = "sending" /\ Visits(h, c, t)
    BY <1>4, <2>1
  <2> QED
    BY <2>2 DEF Resumes
<1>8. CASE Visits(k, c, t)'
  <2>1. x = c /\ m \in {"subscribe", "unsubscribe"} /\ t \in ToSet(p)
        /\ tmethod'[k] = m
    BY <1>0, <1>1, <1>6, <1>8 DEF Visits, TypeOK
  <2>2. t \in wanted'[c] <=> m = "subscribe" /\ t \in topics'[c]
    <3>1. t \in wanted[c] => t \in topics[c]
      BY DEF Tasked, Granted
    <3>2. CASE m = "subscribe"
      <4>1. wanted'[c] = wanted[c] \cup (ToSet(p) \cap topics[c])
        BY <1>0, <1>1, <2>1, <3>2 DEF TypeOK
      <4> QED
        BY <1>1, <2>1, <3>1, <3>2, <4>1
    <3>3. CASE m = "unsubscribe"
      <4>1. wanted'[c] = wanted[c] \ ToSet(p)
        BY <1>0, <1>1, <2>1, <3>3 DEF TypeOK
      <4> QED
        BY <2>1, <3>3, <4>1
    <3> QED
      BY <2>1, <3>2, <3>3
  <2>3. Waits(c, t)'
    BY <1>0, <1>3, <1>8 DEF Visits, Waits
  <2>4. LastCounts(c, t)'
    <3> SUFFICES ASSUME NEW i \in 1..Len(queue'), Visits(queue[i], c, t)',
                        \A j \in (i + 1)..Len(queue') :
                           ~Visits(queue[j], c, t)'
                 PROVE  t \in wanted'[c] <=>
                          tmethod'[queue'[i]] = "subscribe" /\ t \in topics'[c]
      BY DEF LastCounts
    <3>1. i = Len(queue) + 1
      <4>1. CASE i \in 1..Len(queue)
        <5>1. \A j \in (i + 1)..Len(queue') : ~(queue'[j] = k)
          BY <1>8 DEF Visits
        <5>2. Len(queue) + 1 \in (i + 1)..Len(queue')
          BY <1>0, <1>3, <4>1
        <5> QED
          BY <1>3, <5>1, <5>2
      <4> QED
        BY <1>0, <1>3, <4>1
    <3> QED
      BY <1>3, <2>1, <2>2, <3>1
  <2> QED
    BY <2>3, <2>4 DEF Ordered
<1>9. CASE ~Visits(k, c, t)'
  <2>1. t \in wanted'[c] <=> t \in wanted[c]
    <3>1. CASE x # c
      BY <1>0, <1>1, <3>1 DEF TypeOK
    <3>2. CASE x = c /\ m \notin {"subscribe", "unsubscribe"}
      BY <1>0, <1>1, <3>2 DEF TypeOK
    <3>3. CASE x = c /\ m \in {"subscribe", "unsubscribe"}
      <4>1. t \notin ToSet(p)
        BY <1>0, <1>1, <1>9, <3>3 DEF Visits, TypeOK
      <4>2. CASE m = "subscribe"
        <5>1. wanted'[c] = wanted[c] \cup (ToSet(p) \cap topics[c])
          BY <1>0, <1>1, <3>3, <4>2 DEF TypeOK
        <5> QED
          BY <4>1, <5>1
      <4>3. CASE m = "unsubscribe"
        <5>1. wanted'[c] = wanted[c] \ ToSet(p)
          BY <1>0, <1>1, <3>3, <4>3 DEF TypeOK
        <5> QED
          BY <4>1, <5>1
      <4> QED
        BY <3>3, <4>2, <4>3
    <3> QED
      BY <3>1, <3>2, <3>3
  <2>2. \A i \in 1..Len(queue') : Visits(queue[i], c, t)' => i \in 1..Len(queue)
    <3> SUFFICES ASSUME NEW i \in 1..Len(queue'), i \notin 1..Len(queue)
                 PROVE  ~Visits(queue[i], c, t)'
      OBVIOUS
    <3>1. queue'[i] = k
      BY <1>0, <1>3
    <3> QED
      BY <1>9, <3>1 DEF Visits
  <2>3. LastCounts(c, t)'
    <3> SUFFICES ASSUME NEW i \in 1..Len(queue'), Visits(queue[i], c, t)',
                        \A j \in (i + 1)..Len(queue') :
                           ~Visits(queue[j], c, t)'
                 PROVE  t \in wanted'[c] <=>
                          tmethod'[queue'[i]] = "subscribe" /\ t \in topics'[c]
      BY DEF LastCounts
    <3>1. i \in 1..Len(queue) /\ Visits(queue[i], c, t)
      BY <1>5, <2>2
    <3>2. \A j \in (i + 1)..Len(queue) : ~Visits(queue[j], c, t)
      <4> SUFFICES ASSUME NEW j \in (i + 1)..Len(queue)
                   PROVE  ~Visits(queue[j], c, t)
        OBVIOUS
      <4>1. j \in 1..Len(queue) /\ j \in (i + 1)..Len(queue')
        BY <1>0, <1>3, <3>1
      <4> QED
        BY <1>5, <4>1
    <3>3. t \in wanted[c] <=>
            tmethod[queue[i]] = "subscribe" /\ t \in topics[c]
      BY <1>2, <3>1, <3>2 DEF Ordered, LastCounts
    <3> QED
      BY <1>1, <1>5, <2>1, <3>1, <3>3
  <2>4. Waits(c, t) => Waits(c, t)'
    <3> SUFFICES ASSUME NEW i \in 1..Len(queue), Visits(queue[i], c, t)
                 PROVE  Waits(c, t)'
      BY DEF Waits
    <3>1. i \in 1..Len(queue') /\ Visits(queue[i], c, t)'
      BY <1>0, <1>3, <1>5
    <3> QED
      BY <3>1 DEF Waits
  <2> QED
    BY <1>1, <1>2, <1>7, <2>1, <2>3, <2>4 DEF Ordered, Settled
<1> QED
  BY <1>8, <1>9

(* Every step keeps what the requests of usable clients ask for.           *)
LEMMA InOrderNext ==
  Typed /\ Typed' /\ RegistrySound /\ RegistrySound' /\ Tasked /\ InOrder
    /\ Tasked' /\ [Next]_vars => InOrder'
<1> SUFFICES ASSUME Typed, Typed', RegistrySound, RegistrySound', Tasked,
                    Tasked', InOrder, [Next]_vars
             PROVE  InOrder'
  OBVIOUS
<1>0. TypeOK
  BY DEF Typed
<1> USE DEF connVars, notifyVars, taskVars, wishVars
<1>1. ASSUME UNCHANGED <<taskVars, subs, wanted, revived>>,
             \A c \in Conns :
               Live(c)' => \/ Live(c) /\ topics'[c] = topics[c]
                           \/ loop'[c] \in {"new", "preparing"}
                           \/ loop[c] \in {"new", "preparing"}
                                /\ topics'[c] = topics[c]
      PROVE  InOrder'
  <2> SUFFICES ASSUME NEW c \in Conns, NEW t \in Topics, Live(c)'
               PROVE  Ordered(c, t)'
    BY DEF InOrder
  <2>1. CASE loop'[c] \in {"new", "preparing"}
    BY <2>1 DEF RegistrySound, Live
  <2>2. CASE loop'[c] \notin {"new", "preparing"}
    <3>1. Ordered(c, t) /\ topics'[c] = topics[c]
      BY <1>1, <2>2, NewcomersInOrder DEF InOrder
    <3>2. \A k \in Tasks : Visits(k, c, t)' <=> Visits(k, c, t)
      BY <1>1 DEF Visits
    <3> QED
      BY <1>1, <3>1, <3>2, OthersKeepOrder
  <2> QED
    BY <2>1, <2>2
<1>2. ASSUME UNCHANGED <<taskVars, subs, wanted, revived, topics>>, Deader,
             \A c \in Conns : Member(c)' => Member(c)
      PROVE  InOrder'
  <2>1. \A c \in Conns : Live(c)' => Live(c)
    BY <1>2 DEF Live, Deader
  <2> QED
    BY <1>1, <1>2, <2>1
<1>3. ASSUME Prunes PROVE \A c \in Conns : Member(c)' => Member(c)
  BY <1>3, RemovalEffect DEF Prunes, RegistrySound, Member
<1>4. ASSUME NEW t \in Topics, AddTopic(t) PROVE InOrder'
  BY <1>2, <1>4 DEF AddTopic, Deader, Member
<1>5. ASSUME NEW c \in Conns, ConnStep(c) PROVE InOrder'
  <2>1. CASE Prepare(c)
    <3>1. /\ UNCHANGED <<taskVars, subs, wanted, revived, clients, closing,
                         closed>>
          /\ loop'[c] = "preparing"
          /\ \A x \in Conns \ {c} : topics'[x] = topics[x]
      BY <1>0, <2>1 DEF Prepare, TypeOK
    <3>2. \A x \in Conns : Live(x)' => Live(x)
      BY <3>1 DEF Live, Member
    <3> QED
      BY <1>1, <3>1, <3>2
  <2>2. CASE Register(c)
    <3>1. /\ UNCHANGED <<taskVars, subs, wanted, revived, topics, closing,
                         closed>>
          /\ loop[c] = "preparing" /\ clients' = Append(clients, c)
      BY <2>2 DEF Register, Enlisted
    <3>2. \A x \in Conns : Member(x)' => Member(x) \/ x = c
      <4>1. /\ clients \in Seq(Conns) /\ Len(clients) \in Nat
        BY <1>0 DEF TypeOK
      <4>2. /\ Len(clients') = Len(clients) + 1
            /\ \A i \in 1..Len(clients) : clients'[i] = clients[i]
            /\ clients'[Len(clients) + 1] = c
        BY <3>1, <4>1
      <4> QED
        BY <4>1, <4>2 DEF Member, Contains
    <3>3. \A x \in Conns : Live(x)' => Live(x) \/ x = c
      BY <3>1, <3>2 DEF Live
    <3> QED
      BY <1>1, <3>1, <3>3
  <2>3. CASE TransportLost(c) \/ ReceiveClose(c)
    <3>1. Deader
      BY <1>0, <2>3 DEF TransportLost, ReceiveClose, Deader, TypeOK
    <3> QED
      BY <1>2, <2>3, <3>1 DEF TransportLost, ReceiveClose, Member
  <2>4. CASE LoopExit(c)
    <3>1. \A x \in Conns : Member(x)' => Member(x)
      <4>1. CASE Member(c)
        <5>1. clients' = RemoveFirst(clients, c)
          BY <2>4 DEF LoopExit, Unregister
        <5> QED
          BY <4>1, <5>1, RemovalEffect DEF RegistrySound
      <4>2. CASE ~Member(c)
        BY <2>4, <4>2
        DEF LoopExit, Unregister, RemoveFirst, Member, Contains
      <4> QED
        BY <4>1, <4>2
    <3> QED
      BY <1>2, <2>4, <3>1 DEF LoopExit, Deader
  <2>5. CASE CancelLoop(c)
    BY <1>2, <2>5 DEF CancelLoop, Deader, Member
  <2> QED
    BY <1>5, <2>1, <2>2, <2>3, <2>4, <2>5 DEF ConnStep
<1>6. ASSUME NEW k \in Tasks, NEW c \in Conns, NEW m \in Methods,
             NEW p \in Params, Receive(k, c, m, p)
      PROVE  InOrder'
  BY <1>6, ReceiveKeepsOrder
<1>7. ASSUME NEW k \in Tasks, TaskStep(k) PROVE InOrder'
  BY <1>7, TaskKeepsOrder
<1>8. ASSUME NEW n \in Notifiers, NEW t \in Topics, NEW s \in BOOLEAN,
             StartNotify(n, t, s)
      PROVE  InOrder'
  <2>1. Prunes
    BY <1>8, NotifyPrunes
  <2> QED
    BY <1>2, <1>3, <1>8, <2>1 DEF StartNotify, Deader
<1>9. ASSUME NEW n \in Notifiers, NotifierStep(n) PROVE InOrder'
  <2>1. Prunes
    BY <1>9, NotifyPrunes
  <2>2. CASE ResumeNotify(n)
    BY <1>2, <1>3, <2>1, <2>2 DEF ResumeNotify, Deader
  <2>3. CASE NotifyClosed(n)
    <3>1. Deader
      BY <1>0, <2>3 DEF NotifyClosed, Deader, TypeOK
    <3> QED
      BY <1>2, <1>3, <2>1, <2>3, <3>1 DEF NotifyClosed
  <2> QED
    BY <1>9, <2>2, <2>3 DEF NotifierStep
<1>10. CASE UNCHANGED vars
  BY <1>2, <1>10 DEF vars, Deader, Member
<1> QED
  BY <1>4, <1>5, <1>6, <1>7, <1>8, <1>9, <1>10 DEF Next

(* Nobody has asked for anything yet.                                      *)
LEMMA InOrderInit == Init => InOrder
BY DEF Init, InOrder, Live, Member, Contains

(* What requests ask for is what a client with no request under way has.   *)
LEMMA OrderTakesEffect == Typed /\ InOrder => RequestsTakeEffect
<1> SUFFICES ASSUME Typed, InOrder, NEW c \in Conns, Live(c),
                    \A k \in Tasks : tconn[k] = c => todo[k] = <<>>
             PROVE  /\ wanted[c] \subseteq subs[c]
                    /\ subs[c] \subseteq wanted[c] \cup revived[c]
  BY DEF RequestsTakeEffect
<1>1. ToSet(<<>>) = {}
  BY EmptySeq, ToSetProperties
<1>2. \A t : ~Waits(c, t) /\ ~Resumes(c, t)
  <2>1. \A i \in 1..Len(queue) : queue[i] \in Tasks
    BY ElementOfSeq DEF Typed, TypeOK
  <2> QED
    BY <1>1, <2>1 DEF Waits, Resumes, Visits
<1>3. \A t \in Topics : Settled(c, t)
  BY <1>2 DEF InOrder, Ordered
<1>4. wanted[c] \subseteq Topics /\ subs[c] \subseteq Topics
  BY DEF Typed, TypeOK
<1> QED
  BY <1>2, <1>3, <1>4 DEF Settled

(* A usable client whose requests have been handled is subscribed to what  *)
(* they ask for in the order of their arrival, although each runs in a task*)
(* of its own and a subscribe() may be suspended again and again; except   *)
(* for what an unsubscribe dropped during such a suspension.               *)
THEOREM RequestsHaveEffect == Spec => []RequestsTakeEffect
<1>1. Init => Typed /\ RegistrySound /\ Tasked /\ InOrder
  BY TypedInit, RegistryInit, TaskedInit, InOrderInit
<1>2. Typed /\ RegistrySound /\ Tasked /\ InOrder /\ [Next]_vars
        => (Typed /\ RegistrySound /\ Tasked /\ InOrder)'
  BY TypedNext, RegistryNext, TaskedNext, InOrderNext
<1> QED
  BY <1>1, <1>2, OrderTakesEffect, PTL DEF Spec

-----------------------------------------------------------------------------
(* Subscribers get the latest state.                                       *)

(* Client x is ahead of the iterator of n, if that is at position idx[n].  *)
Ahead(idx, n, x) == \E j \in idx[n]..Len(clients) : clients[j] = x

(* The notify() that stored the state of t has still to come to x.         *)
Awaits(x, t) ==
  \E n \in Notifiers : /\ npc[n] # "idle" /\ ntopic[n] = t
                       /\ ndata[n] = state[t] /\ Ahead(nidx, n, x)
Current(x, t) ==
  seen[x][t] >= state[t] \/ t \in excused[x] \/ Awaits(x, t)

(* The invariant, client by client.                                        *)
LEMMA CurrentForm ==
  SubscribersUpToDate <=>
    \A t \in Topics : \A x \in Conns :
      Live(x) /\ t \in subs[x] => Current(x, t)
BY DEF SubscribersUpToDate, Subscribers, Current, Awaits, Ahead

(* A removal moves somebody behind an iterator only by excusing him.       *)
LEMMA RemovalKeepsAhead ==
  ASSUME Typed, RegistrySound, NEW c \in Conns, NEW topic,
         NEW idx \in [Notifiers -> Nat \ {0}],
         \A n \in Notifiers : idx[n] # 1 => topic[n] \in Topics,
         Unregister(c, idx, topic), NEW x \in Conns
  PROVE  /\ excused[x] \subseteq excused'[x]
         /\ Member(x)' => Member(x) /\ x # c
         /\ \A n \in Notifiers : Ahead(idx, n, x) /\ x # c =>
              Ahead(idx, n, x)' \/ topic[n] \in excused'[x]
<1>0. /\ clients \in Seq(Conns) /\ Len(clients) \in Nat
      /\ excused \in [Conns -> SUBSET Topics]
      /\ \A a, b \in 1..Len(clients) : clients[a] = clients[b] => a = b
  BY LenProperties DEF Typed, TypeOK, RegistrySound, IsInjective
<1>1. /\ clients' = RemoveFirst(clients, c)
      /\ excused'[x] = excused[x] \cup
           {topic[n] : n \in {n \in Notifiers : x \in Overrun(n, c, idx)}}
  BY DEF Unregister
<1>2. CASE ~Member(c)
  <2>1. clients' = clients
    BY <1>1, <1>2 DEF RemoveFirst, Member, Contains
  <2> QED
    BY <1>1, <1>2, <2>1 DEF Member, Ahead
<1>3. CASE Member(c)
  <2>1. PICK p \in 1..Len(clients) :
          /\ clients[p] = c /\ Len(clients') = Len(clients) - 1
          /\ \A q \in 1..Len(clients') :
               clients'[q] = IF q < p THEN clients[q] ELSE clients[q + 1]
    BY <1>1, <1>3, RemovalEffect DEF RegistrySound
  <2>2. Member(x)' => Member(x) /\ x # c
    BY <1>1, <1>3, RemovalEffect DEF RegistrySound
  <2>3. ASSUME NEW n \in Notifiers, Ahead(idx, n, x), x # c
        PROVE  Ahead(idx, n, x)' \/ topic[n] \in excused'[x]
    <3>1. PICK j \in idx[n]..Len(clients) : clients[j] = x
      BY <2>3 DEF Ahead
    <3>2. /\ idx[n] \in Nat /\ idx[n] # 0 /\ j \in 1..Len(clients)
          /\ j # p
      BY <1>0, <2>1, <2>3, <3>1
    <3>3. CASE j < p
      <4>1. j \in idx[n]..Len(clients') /\ clients'[j] = x
        BY <1>0, <2>1, <3>1, <3>2, <3>3
      <4> QED
        BY <4>1 DEF Ahead
    <3>4. CASE j > p /\ idx[n] <= j - 1
      <4>1. j - 1 \in idx[n]..Len(clients') /\ clients'[j - 1] = x
        BY <1>0, <2>1, <3>1, <3>2, <3>4
      <4> QED
        BY <4>1 DEF Ahead
    <3>5. CASE j > p /\ idx[n] > j - 1
      <4>1. j = idx[n] /\ p \in 1..(idx[n] - 1)
        BY <1>0, <2>1, <3>1, <3>2, <3>5
      <4>2. x \in Overrun(n, c, idx)
        BY <2>1, <3>1, <4>1 DEF Overrun
      <4> QED
        BY <1>1, <4>2
    <3> QED
      BY <1>0, <2>1, <3>2, <3>3, <3>4, <3>5
  <2> QED
    BY <1>1, <2>2, <2>3
<1> QED
  BY <1>2, <1>3

(* Steps that send no frame and store no state, and add only subscriptions *)
(* to topics without a state, keep subscribers up to date.                 *)
LEMMA QuietKeepsCurrent ==
  ASSUME Typed, RegistrySound, SubscribersUpToDate,
         UNCHANGED <<seen, state, ntopic, ndata, nidx>>, Deader,
         \A n \in Notifiers : npc[n] # "idle" => npc'[n] # "idle",
         \/ UNCHANGED <<clients, excused>>
         \/ \E c \in Conns : Unregister(c, nidx, ntopic),
         \A x \in Conns, t \in Topics : Live(x)' /\ t \in subs'[x] =>
           t \in subs[x] \/ state[t] = 0
  PROVE  SubscribersUpToDate'
<1> SUFFICES ASSUME NEW t \in Topics, NEW x \in Conns, Live(x)', t \in subs'[x]
             PROVE  Current(x, t)'
  BY DEF SubscribersUpToDate, Subscribers, Current, Awaits, Ahead
<1>0. /\ TypeOK /\ nidx \in [Notifiers -> Nat \ {0}]
      /\ \A n \in Notifiers : nidx[n] # 1 => ntopic[n] \in Topics
  BY DEF Typed, Wiring, TypeOK
<1>1. /\ Live(x) /\ excused[x] \subseteq excused'[x]
      /\ \A n \in Notifiers : Ahead(nidx, n, x) =>
           Ahead(nidx, n, x)' \/ ntopic[n] \in excused'[x]
  <2>1. CASE UNCHANGED <<clients, excused>>
    BY <2>1 DEF Live, Member, Deader, Ahead
  <2>2. ASSUME NEW c \in Conns, Unregister(c, nidx, ntopic)
        PROVE  /\ Live(x) /\ excused[x] \subseteq excused'[x]
               /\ \A n \in Notifiers : Ahead(nidx, n, x) =>
                    Ahead(nidx, n, x)' \/ ntopic[n] \in excused'[x]
    <3>1. PICK idx, topic :
            /\ idx = nidx /\ topic = ntopic
            /\ idx \in [Notifiers -> Nat \ {0}]
      BY <1>0
    <3>2. /\ excused[x] \subseteq excused'[x]
          /\ Member(x)' => Member(x) /\ x # c
          /\ \A n \in Notifiers : Ahead(idx, n, x) /\ x # c =>
               Ahead(idx, n, x)' \/ topic[n] \in excused'[x]
      BY <1>0, <2>2, <3>1, RemovalKeepsAhead
    <3>3. Live(x) /\ x # c
      BY <3>2 DEF Live, Deader
    <3> QED
      BY <3>1, <3>2, <3>3 DEF Ahead
  <2> QED
    BY <2>1, <2>2
<1>2. CASE t \in subs[x]
  <2>1. Current(x, t)
    BY <1>1, <1>2, CurrentForm
  <2>2. CASE seen[x][t] >= state[t] \/ t \in excused[x]
    BY <1>1, <2>2 DEF Current
  <2>3. CASE Awaits(x, t)
    <3>1. PICK n \in Notifiers : /\ npc[n] # "idle" /\ ntopic[n] = t
                                /\ ndata[n] = state[t] /\ Ahead(nidx, n, x)
      BY <2>3 DEF Awaits
    <3>2. Ahead(nidx, n, x)' \/ t \in excused'[x]
      BY <1>1, <3>1
    <3> QED
      BY <3>1, <3>2 DEF Current, Awaits
  <2> QED
    BY <2>1, <2>2, <2>3 DEF Current
<1>3. CASE state[t] = 0
  BY <1>0, <1>3 DEF Current, TypeOK
<1> QED
  BY <1>2, <1>3

(* What a subscriber x of topic u has when notify(t, d) is about to go on  *)
(* at position i, n being its iterator, and st is the state from then on:  *)
(* the state, a promise of it by another notify(), or a place ahead of n,  *)
(* which has it.                                                           *)
Promised(n, t, d, i, st, x, u) ==
  \/ seen[x][u] >= st[u]
  \/ u \in excused[x]
  \/ \E m \in Notifiers \ {n} : /\ npc[m] # "idle" /\ ntopic[m] = u
                               /\ ndata[m] = st[u] /\ Ahead(nidx, m, x)
  \/ u = t /\ d = st[u] /\ \E j \in i..Len(clients) : clients[j] = x

(* A notify() that visits a client writes to him or finds him dead.        *)
LEMMA VisitKeepsCurrent ==
  ASSUME Typed, RegistrySound, NEW n \in Notifiers, NEW t \in Topics,
         NEW d \in Nat, NEW i \in Nat \ {0}, NEW audience,
         NEW st \in [Topics -> Nat], state' = st,
         st[t] = state[t] \/ st[t] = d,
         Visit(n, t, d, i, audience), UNCHANGED <<closing, closed, subs>>,
         \A x \in Conns, u \in Topics :
           Live(x) /\ u \in subs[x] => Promised(n, t, d, i, st, x, u)
  PROVE  SubscribersUpToDate'
<1> SUFFICES ASSUME NEW u \in Topics, NEW x \in Conns, Live(x)', u \in subs'[x]
             PROVE  Current(x, u)'
  BY DEF SubscribersUpToDate, Subscribers, Current, Awaits, Ahead
<1>0. /\ TypeOK /\ nidx \in [Notifiers -> Nat \ {0}]
      /\ seen \in [Conns -> [Topics -> 0..MaxSerial]]
      /\ excused \in [Conns -> SUBSET Topics]
      /\ state[t] \in Nat /\ st[t] \in Nat
      /\ \A m \in Notifiers : nidx[m] # 1 => ntopic[m] \in Topics
  <2>1. \A m \in Notifiers : nidx[m] # 1 => ntopic[m] \in Topics
    BY DEF Typed, Wiring
  <2>2. 0..MaxSerial \subseteq Nat
    BY PubSubAssumption
  <2> QED
    BY <2>1, <2>2 DEF Typed, TypeOK
<1>1. PICK j \in i..Len(clients) :
        LET c == clients[j] IN
        /\ Yields(j, t) /\ \A h \in i..(j - 1) : ~Yields(h, t)
        /\ nidx' = [nidx EXCEPT ![n] = ResumesAt(j)]
        /\ ntopic' = [ntopic EXCEPT ![n] = t]
        /\ ndata' = [ndata EXCEPT ![n] = d]
        /\ IF Dead(c)
           THEN /\ npc' = [npc EXCEPT ![n] = "closing"]
                /\ Unregister(c, nidx', ntopic')
                /\ UNCHANGED seen
           ELSE /\ npc' = [npc EXCEPT ![n] = "draining"]
                /\ Written(c, t, d)
                /\ UNCHANGED clients
  BY DEF Visit
<1> DEFINE c == clients[j]
<1>2. /\ j \in 1..Len(clients) /\ c \in Conns /\ Len(clients) \in Nat
  BY <1>0, <1>1, ElementOfSeq, LenProperties DEF TypeOK
<1>3. PICK idx, topic, data : idx = nidx' /\ topic = ntopic' /\ data = ndata'
  OBVIOUS
<1>4. /\ idx \in [Notifiers -> Nat \ {0}]
      /\ idx[n] = j + 1 /\ topic[n] = t /\ data[n] = d
      /\ \A m \in Notifiers \ {n} :
           idx[m] = nidx[m] /\ topic[m] = ntopic[m] /\ data[m] = ndata[m]
      /\ \A m \in Notifiers : npc[m] # "idle" \/ m = n => npc'[m] # "idle"
      /\ \A m \in Notifiers : idx[m] # 1 => topic[m] \in Topics
  <2>1. idx = [nidx EXCEPT ![n] = j + 1]
    BY <1>1, <1>3 DEF ResumesAt
  <2>2. topic = [ntopic EXCEPT ![n] = t] /\ data = [ndata EXCEPT ![n] = d]
    BY <1>1, <1>3
  <2>3. npc' \in [Notifiers -> {"idle", "draining", "closing"}]
        /\ (npc'[n] = "draining" \/ npc'[n] = "closing")
        /\ \A m \in Notifiers \ {n} : npc'[m] = npc[m]
    BY <1>0, <1>1 DEF TypeOK
  <2>4. /\ idx \in [Notifiers -> Nat \ {0}] /\ idx[n] = j + 1
        /\ \A m \in Notifiers \ {n} : idx[m] = nidx[m]
    <3>1. nidx \in [Notifiers -> Nat \ {0}]
      BY <1>0
    <3>2. j + 1 \in Nat \ {0}
      BY <1>2
    <3> QED
      BY <2>1, <3>1, <3>2
  <2>5. /\ topic[n] = t /\ data[n] = d
        /\ \A m \in Notifiers \ {n} : topic[m] = ntopic[m] /\ data[m] = ndata[m]
    BY <1>0, <2>2 DEF TypeOK
  <2> QED
    BY <1>0, <2>3, <2>4, <2>5
<1>5. ASSUME NEW h \in i..Len(clients), clients[h] = x, u = t PROVE h >= j
  <2>1. SUFFICES ASSUME h < j PROVE FALSE
    BY <1>2
  <2>2. h \in i..(j - 1)
    BY <1>2, <2>1
  <2>3. ~Yields(h, t)
    BY <1>1, <2>2
  <2> QED
    BY <1>5, <2>3 DEF Yields, Live
<1>6. ASSUME Live(x), x # c \/ u # t,
             seen'[x][u] = seen[x][u],
             u \in excused[x] => u \in excused'[x],
             \A m \in Notifiers : Ahead(idx, m, x) =>
               Ahead(idx, m, x)' \/ topic[m] \in excused'[x]
      PROVE  Current(x, u)'
  <2>1. CASE seen[x][u] >= st[u] \/ u \in excused[x]
    BY <1>6, <2>1 DEF Current
  <2>2. ASSUME NEW m \in Notifiers, npc'[m] # "idle", topic[m] = u,
               data[m] = st[u], Ahead(idx, m, x)
        PROVE  Current(x, u)'
    <3>1. Ahead(idx, m, x)' \/ u \in excused'[x]
      BY <1>6, <2>2
    <3> QED
      BY <1>3, <2>2, <3>1 DEF Current, Awaits, Ahead
  <2>3. ASSUME NEW m \in Notifiers \ {n}, npc[m] # "idle", ntopic[m] = u,
               ndata[m] = st[u], Ahead(nidx, m, x)
        PROVE  Current(x, u)'
    BY <1>4, <2>2, <2>3 DEF Ahead
  <2>4. ASSUME u = t, d = st[u], NEW h \in i..Len(clients), clients[h] = x
        PROVE  Current(x, u)'
    <3>1. h >= j /\ h # j
      BY <1>5, <1>6, <2>4
    <3>2. h \in idx[n]..Len(clients)
      BY <1>2, <1>4, <3>1
    <3>3. Ahead(idx, n, x)
      BY <2>4, <3>2 DEF Ahead
    <3> QED
      BY <1>4, <2>2, <2>4, <3>3
  <2>5. Promised(n, t, d, i, st, x, u)
    BY <1>6
  <2> QED
    BY <2>1, <2>3, <2>4, <2>5 DEF Promised
<1>7. CASE Dead(c)
  <2>1. Unregister(c, idx, topic) /\ seen' = seen
    BY <1>1, <1>3, <1>7
  <2>2. /\ excused[x] \subseteq excused'[x]
        /\ Member(x)' => Member(x) /\ x # c
        /\ \A m \in Notifiers : Ahead(idx, m, x) /\ x # c =>
             Ahead(idx, m, x)' \/ topic[m] \in excused'[x]
    BY <1>2, <1>4, <2>1, RemovalKeepsAhead
  <2>3. Live(x) /\ x # c
    BY <2>2 DEF Live
  <2> QED
    BY <1>6, <2>1, <2>2, <2>3
<1>8. CASE ~Dead(c)
  <2>1. Written(c, t, d) /\ clients' = clients
    BY <1>1, <1>8
  <2>2. Live(x) /\ \A m \in Notifiers : Ahead(idx, m, x) => Ahead(idx, m, x)'
    BY <2>1 DEF Live, Member, Ahead
  <2>3. CASE x = c /\ u = t
    <3>1. /\ seen'[x][u] = d
          /\ d < state[t] => u \in excused'[x]
      BY <1>0, <1>2, <2>1, <2>3 DEF Written
    <3> QED
      BY <1>0, <3>1, <2>3 DEF Current
  <2>4. CASE x # c \/ u # t
    <3>1. /\ seen'[x][u] = seen[x][u]
          /\ u \in excused[x] => u \in excused'[x]
      BY <1>0, <1>2, <2>1, <2>4 DEF Written
    <3> QED
      BY <1>6, <2>2, <2>4, <3>1
  <2> QED
    BY <2>3, <2>4
<1> QED
  BY <1>7, <1>8

(* A notify() that ends leaves nobody ahead who waits for it.              *)
LEMMA ExhaustedKeepsCurrent ==
  ASSUME Typed, NEW n \in Notifiers, NEW t \in Topics,
         NEW d \in Nat, NEW i \in Nat \ {0},
         NEW st \in [Topics -> Nat], state' = st,
         Exhausted(n, t, i), UNCHANGED <<closing, closed, subs>>,
         \A x \in Conns, u \in Topics :
           Live(x) /\ u \in subs[x] => Promised(n, t, d, i, st, x, u)
  PROVE  SubscribersUpToDate'
<1> SUFFICES ASSUME NEW u \in Topics, NEW x \in Conns, Live(x)', u \in subs'[x]
             PROVE  Current(x, u)'
  BY DEF SubscribersUpToDate, Subscribers, Current, Awaits, Ahead
<1>1. /\ UNCHANGED <<clients, seen, excused>> /\ NoneLeft(t, i)
      /\ \A m \in Notifiers \ {n} :
           /\ npc'[m] = npc[m] /\ ntopic'[m] = ntopic[m]
           /\ ndata'[m] = ndata[m] /\ nidx'[m] = nidx[m]
  BY DEF Exhausted, viewVars, Typed, TypeOK
<1>2. Live(x) /\ u \in subs[x]
  BY <1>1 DEF Live, Member
<1>3. ASSUME u = t, NEW h \in i..Len(clients), clients[h] = x PROVE FALSE
  BY <1>1, <1>2, <1>3 DEF NoneLeft, Yields, Live
<1>4. ASSUME NEW m \in Notifiers \ {n}, npc[m] # "idle", ntopic[m] = u,
             ndata[m] = st[u], Ahead(nidx, m, x)
      PROVE  Current(x, u)'
  BY <1>1, <1>4 DEF Current, Awaits, Ahead
<1>5. CASE seen[x][u] >= st[u] \/ u \in excused[x]
  BY <1>1, <1>5 DEF Current
<1> QED
  BY <1>2, <1>3, <1>4, <1>5 DEF Promised

(* The steps of notify() keep subscribers up to date.                      *)
LEMMA NotifyKeepsCurrent ==
  ASSUME Typed, Typed', RegistrySound, SubscribersUpToDate,
         NEW n \in Notifiers,
         \/ \E t \in Topics, s \in BOOLEAN : StartNotify(n, t, s)
         \/ NotifierStep(n)
  PROVE  SubscribersUpToDate'
<1>0. /\ TypeOK /\ state \in [Topics -> Nat] /\ serial \in Nat
      /\ ndata[n] \in Nat /\ nidx[n] \in Nat \ {0}
  <2>1. 0..MaxSerial \subseteq Nat
    BY PubSubAssumption
  <2>2. TypeOK
    BY DEF Typed
  <2>3. state \in [Topics -> 0..MaxSerial] /\ serial \in 0..MaxSerial
    BY <2>2 DEF TypeOK
  <2>4. ndata[n] \in 0..MaxSerial /\ nidx[n] \in Nat \ {0}
    BY <2>2 DEF TypeOK
  <2> QED
    BY <2>1, <2>2, <2>3, <2>4
<1>1. \A x \in Conns, u \in Topics : Live(x) /\ u \in subs[x] => Current(x, u)
  BY CurrentForm
<1> USE DEF connVars, taskVars
<1>2. ASSUME NEW t \in Topics, NEW s \in BOOLEAN, StartNotify(n, t, s)
      PROVE  SubscribersUpToDate'
  <2>1. PICK st, d : st = state' /\ d = serial'
    OBVIOUS
  <2>2. /\ d \in Nat /\ st \in [Topics -> Nat]
        /\ st = state \/ st = [state EXCEPT ![t] = d]
    BY <1>0, <1>2, <2>1 DEF StartNotify
  <2>3. /\ npc[n] = "idle" /\ UNCHANGED <<closing, closed, subs>>
        /\ Visit(n, t, d, 1, Subscribers(t)) \/ Exhausted(n, t, 1)
    BY <1>2, <2>1 DEF StartNotify
  <2>4. ASSUME NEW x \in Conns, NEW u \in Topics, Live(x), u \in subs[x]
        PROVE  Promised(n, t, d, 1, st, x, u)
    <3>1. CASE st[u] = state[u]
      <4>1. CASE Awaits(x, u)
        BY <2>3, <3>1, <4>1 DEF Awaits, Promised
      <4>2. CASE seen[x][u] >= state[u] \/ u \in excused[x]
        BY <3>1, <4>2 DEF Promised
      <4> QED
        BY <1>1, <2>4, <4>1, <4>2 DEF Current
    <3>2. CASE u = t /\ st[u] = d
      <4>1. \E j \in 1..Len(clients) : clients[j] = x
        BY <2>4 DEF Live, Member, Contains
      <4> QED
        BY <3>2, <4>1 DEF Promised
    <3> QED
      BY <1>0, <2>2, <3>1, <3>2
  <2>5. st[t] = state[t] \/ st[t] = d
    BY <1>0, <2>2
  <2>6. CASE Visit(n, t, d, 1, Subscribers(t))
    BY <2>1, <2>2, <2>3, <2>4, <2>5, <2>6, VisitKeepsCurrent
  <2>7. CASE Exhausted(n, t, 1)
    BY <2>1, <2>2, <2>3, <2>4, <2>7, ExhaustedKeepsCurrent
  <2> QED
    BY <2>3, <2>6, <2>7
<1>3. CASE ResumeNotify(n)
  <2>1. /\ npc[n] = "draining" /\ UNCHANGED <<closing, closed, subs, state>>
        /\ \/ Visit(n, ntopic[n], ndata[n], nidx[n], due[n])
           \/ Exhausted(n, ntopic[n], nidx[n])
    BY <1>3 DEF ResumeNotify
  <2>2. ntopic[n] \in Topics
    BY <2>1 DEF Typed, Wiring
  <2>3. ASSUME NEW x \in Conns, NEW u \in Topics, Live(x), u \in subs[x]
        PROVE  Promised(n, ntopic[n], ndata[n], nidx[n], state, x, u)
    <3>1. CASE seen[x][u] >= state[u] \/ u \in excused[x]
      BY <3>1 DEF Promised
    <3>2. ASSUME NEW m \in Notifiers, npc[m] # "idle", ntopic[m] = u,
                 ndata[m] = state[u], Ahead(nidx, m, x)
          PROVE  Promised(n, ntopic[n], ndata[n], nidx[n], state, x, u)
      BY <3>2 DEF Promised, Ahead
    <3> QED
      BY <1>1, <2>3, <3>1, <3>2 DEF Current, Awaits
  <2>4. PICK t, d, i, audience, st :
          /\ t \in Topics /\ d \in Nat /\ i \in Nat \ {0}
          /\ t = ntopic[n] /\ d = ndata[n] /\ i = nidx[n]
          /\ audience = due[n] /\ st = state
    BY <1>0, <2>2
  <2>5. \A x \in Conns, u \in Topics :
          Live(x) /\ u \in subs[x] => Promised(n, t, d, i, st, x, u)
    BY <2>3, <2>4
  <2>6. /\ Visit(n, t, d, i, audience) \/ Exhausted(n, t, i)
        /\ st \in [Topics -> Nat] /\ state' = st /\ st[t] = state[t]
    BY <1>0, <2>1, <2>4
  <2>7. CASE Visit(n, t, d, i, audience)
    BY <2>1, <2>4, <2>5, <2>6, <2>7, VisitKeepsCurrent
  <2>8. CASE Exhausted(n, t, i)
    BY <2>1, <2>4, <2>5, <2>6, <2>8, ExhaustedKeepsCurrent
  <2> QED
    BY <2>6, <2>7, <2>8
<1>4. CASE NotifyClosed(n)
  <2>1. /\ Deader
        /\ \A m \in Notifiers : npc[m] # "idle" => npc'[m] # "idle"
    BY <1>0, <1>4 DEF NotifyClosed, Deader, TypeOK
  <2>2. \A x \in Conns, t \in Topics : Live(x)' /\ t \in subs'[x] =>
          t \in subs[x] \/ state[t] = 0
    BY <1>4 DEF NotifyClosed
  <2> QED
    BY <1>4, <2>1, <2>2, QuietKeepsCurrent DEF NotifyClosed, viewVars
<1> QED
  BY <1>2, <1>3, <1>4 DEF NotifierStep

(* A subscribe() that goes on adds the topics up to j; those before j that *)
(* are new have no state yet.                                              *)
LEMMA NothingMissed ==
  ASSUME TypeOK, NEW k \in Tasks, tconn[k] \in Conns,
         NEW upto \in 0..Len(todo[k]), SubscribeTo(k, upto),
         NEW j \in Nat, \A i \in 1..(j - 1) : ~Replayed(k, i), upto <= j,
         NEW x \in Conns, NEW t \in Topics, t \in subs'[x]
  PROVE  t \in subs[x] \/ state[t] = 0
           \/ (x = tconn[k] /\ upto = j /\ j # 0 /\ t = todo[k][j])
<1>1. /\ \A y \in Conns \ {tconn[k]} : subs'[y] = subs[y]
      /\ t \in subs'[tconn[k]] <=>
           \/ t \in subs[tconn[k]]
           \/ /\ t \in topics[tconn[k]]
              /\ \E i \in 1..upto : todo[k][i] = t
  <2>1. Added(k, upto, t)
    BY SubscribeToAdds
  <2> QED
    BY <2>1 DEF Added
<1>2. SUFFICES ASSUME x = tconn[k], t \in topics[x],
                      NEW i \in 1..upto, todo[k][i] = t
               PROVE  state[t] = 0 \/ (upto = j /\ j # 0 /\ t = todo[k][j])
  BY <1>1
<1>3. Len(todo[k]) \in Nat
  BY LenProperties DEF TypeOK
<1>4. CASE i = j
  BY <1>2, <1>3, <1>4
<1>5. CASE i < j
  <2>1. i \in 1..(j - 1)
    BY <1>2, <1>3, <1>5
  <2> QED
    BY <1>2, <2>1 DEF Replayed
<1> QED
  BY <1>2, <1>3, <1>4, <1>5

(* The steps of tasks keep subscribers up to date: a new one is sent the   *)
(* state, or there is none.                                                *)
LEMMA TaskKeepsCurrent ==
  ASSUME Typed, Typed', RegistrySound, SubscribersUpToDate,
         NEW k \in Tasks, TaskStep(k)
  PROVE  SubscribersUpToDate'
<1>0. /\ TypeOK
      /\ tpc[k] # "free" => tconn[k] \in Conns
  BY DEF Typed, Wiring
<1> USE DEF connVars, notifyVars, taskVars, viewVars
<1>1. ASSUME UNCHANGED <<seen, state, notifyVars>>, Deader,
             \/ UNCHANGED <<clients, excused>>
             \/ tconn[k] \in Conns /\ SendReply(k),
             \A x \in Conns, t \in Topics : Live(x)' /\ t \in subs'[x] =>
               t \in subs[x] \/ state[t] = 0
      PROVE  SubscribersUpToDate'
  <2>1. \/ UNCHANGED <<clients, excused>>
        \/ \E c \in Conns : Unregister(c, nidx, ntopic)
    BY <1>1 DEF SendReply
  <2> QED
    BY <1>1, <2>1, QuietKeepsCurrent
<1>2. ASSUME UNCHANGED <<closing, closed>> PROVE Deader
  BY <1>2 DEF Deader
<1>3. CASE Reject(k)
  BY <1>0, <1>1, <1>2, <1>3 DEF Reject, Starts
<1>4. CASE CallMethod(k)
  BY <1>1, <1>2, <1>4 DEF CallMethod
<1>5. CASE MethodReturns(k)
  BY <1>0, <1>1, <1>2, <1>5 DEF MethodReturns
<1>6. CASE RunUnsubscribe(k)
  <2>1. \A x \in Conns : subs'[x] \subseteq subs[x]
    BY <1>0, <1>6 DEF RunUnsubscribe, Starts, TypeOK
  <2> QED
    BY <1>0, <1>1, <1>2, <1>6, <2>1 DEF RunUnsubscribe, Starts
<1>7. CASE SubscribeReturns(k)
  <2>1. /\ tconn[k] \in Conns /\ SendReply(k) /\ SubscribeTo(k, Len(todo[k]))
        /\ \A i \in DOMAIN todo[k] : ~Replayed(k, i)
        /\ UNCHANGED <<closing, closed, seen, state, notifyVars>>
    BY <1>0, <1>7 DEF SubscribeReturns, Subscribing, Starts
  <2>2. PICK j \in Nat : j = Len(todo[k]) + 1
    BY <1>0, LenProperties DEF TypeOK
  <2>3. /\ Len(todo[k]) \in 0..Len(todo[k]) /\ Len(todo[k]) <= j
        /\ Len(todo[k]) # j
        /\ \A i \in 1..(j - 1) : ~Replayed(k, i)
    BY <1>0, <2>1, <2>2, LenProperties DEF TypeOK
  <2>4. \A x \in Conns, t \in Topics : t \in subs'[x] =>
          t \in subs[x] \/ state[t] = 0
    BY <1>0, <2>1, <2>3, NothingMissed
  <2> QED
    BY <1>1, <1>2, <2>1, <2>4
<1>8. ASSUME NEW j \in DOMAIN todo[k], ReplayState(k, j)
      PROVE  SubscribersUpToDate'
  <2>1. /\ tconn[k] \in Conns /\ SubscribeTo(k, j)
        /\ \A i \in 1..(j - 1) : ~Replayed(k, i)
        /\ UNCHANGED <<closing, closed, state, notifyVars>>
    BY <1>0, <1>8 DEF ReplayState, Subscribing, Starts
  <2>2. j \in Nat /\ j \in 0..Len(todo[k]) /\ j # 0 /\ todo[k][j] \in Topics
    BY <1>0, ElementOfSeq, LenProperties DEF TypeOK
  <2>3. \A x \in Conns, t \in Topics : t \in subs'[x] =>
          \/ t \in subs[x] \/ state[t] = 0
          \/ x = tconn[k] /\ t = todo[k][j]
    BY <1>0, <2>1, <2>2, NothingMissed
  <2>4. CASE closing[tconn[k]] \/ closed[tconn[k]]
    <3>1. SendReply(k) /\ seen' = seen
      BY <1>8, <2>4 DEF ReplayState
    <3>2. \A x \in Conns : Live(x)' => x # tconn[k]
      BY <2>1, <2>4 DEF Live
    <3> QED
      BY <1>1, <1>2, <2>1, <2>3, <3>1, <3>2
  <2>5. CASE ~(closing[tconn[k]] \/ closed[tconn[k]])
    <3>1. /\ Written(tconn[k], todo[k][j], state[todo[k][j]])
          /\ clients' = clients
      BY <1>8, <2>5 DEF ReplayState
    <3> SUFFICES ASSUME NEW t \in Topics, NEW x \in Conns, Live(x)',
                        t \in subs'[x]
                 PROVE  Current(x, t)'
      BY DEF SubscribersUpToDate, Subscribers, Current, Awaits, Ahead
    <3>2. Live(x)
      BY <2>1, <3>1 DEF Live, Member
    <3>3. CASE x = tconn[k] /\ t = todo[k][j]
      <4>1. seen'[x][t] = state'[t] /\ state[t] \in Nat
        BY <1>0, <2>1, <3>1, <3>3, PubSubAssumption DEF Written, TypeOK
      <4> QED
        BY <2>1, <4>1 DEF Current
    <3>4. CASE x # tconn[k] \/ t # todo[k][j]
      <4>1. /\ seen'[x][t] = seen[x][t]
            /\ t \in excused[x] => t \in excused'[x]
        BY <1>0, <2>1, <2>2, <3>1, <3>4 DEF Written, TypeOK
      <4>2. CASE state[t] = 0
        <5>1. seen[x][t] >= 0
          BY <1>0, PubSubAssumption DEF TypeOK
        <5> QED
          BY <2>1, <4>1, <4>2, <5>1 DEF Current
      <4>3. CASE t \in subs[x]
        <5>1. Current(x, t)
          BY <3>2, <4>3, CurrentForm
        <5>2. Awaits(x, t) => Awaits(x, t)'
          BY <2>1, <3>1 DEF Awaits, Ahead
        <5> QED
          BY <2>1, <4>1, <5>1, <5>2 DEF Current
      <4> QED
        BY <2>3, <3>4, <4>2, <4>3
    <3> QED
      BY <3>3, <3>4
  <2> QED
    BY <2>4, <2>5
<1>9. CASE DrainFails(k)
  BY <1>0, <1>1, <1>2, <1>9 DEF DrainFails
<1>10. CASE TaskReplied(k)
  BY <1>1, <1>2, <1>10 DEF TaskReplied
<1>11. CASE TaskClosed(k)
  <2>1. Deader
    BY <1>0, <1>11 DEF TaskClosed, Deader, TypeOK
  <2> QED
    BY <1>1, <1>11, <2>1 DEF TaskClosed
<1> QED
  BY <1>3, <1>4, <1>5, <1>6, <1>7, <1>8, <1>9, <1>10, <1>11 DEF TaskStep

(* Every step keeps subscribers up to date.                                *)
LEMMA CurrentNext ==
  Typed /\ Typed' /\ RegistrySound /\ Tasked /\ SubscribersUpToDate
    /\ [Next]_vars => SubscribersUpToDate'
<1> SUFFICES ASSUME Typed, Typed', RegistrySound, Tasked,
                    SubscribersUpToDate, [Next]_vars
             PROVE  SubscribersUpToDate'
  OBVIOUS
<1>0. TypeOK
  BY DEF Typed
<1> USE DEF connVars, notifyVars, viewVars
<1>1. ASSUME UNCHANGED <<seen, state, notifyVars, subs>>, Deader,
             \/ UNCHANGED <<clients, excused>>
             \/ \E c \in Conns : Unregister(c, nidx, ntopic)
      PROVE  SubscribersUpToDate'
  BY <1>1, QuietKeepsCurrent
<1>2. ASSUME UNCHANGED <<closing, closed>> PROVE Deader
  BY <1>2 DEF Deader
<1>3. ASSUME NEW t \in Topics, AddTopic(t) PROVE SubscribersUpToDate'
  BY <1>1, <1>2, <1>3 DEF AddTopic
<1>4. ASSUME NEW c \in Conns, ConnStep(c) PROVE SubscribersUpToDate'
  <2>1. CASE Prepare(c)
    BY <1>1, <1>2, <2>1 DEF Prepare
  <2>2. CASE Register(c)
    <3>1. /\ UNCHANGED <<closing, closed, subs, seen, state, notifyVars,
                         excused>>
          /\ loop[c] = "preparing" /\ clients' = Append(clients, c)
      BY <2>2 DEF Register, Enlisted
    <3>2. /\ clients \in Seq(Conns) /\ Len(clients) \in Nat
          /\ nidx \in [Notifiers -> Nat \ {0}]
          /\ Len(clients') = Len(clients) + 1
          /\ \A i \in 1..Len(clients) : clients'[i] = clients[i]
          /\ clients'[Len(clients) + 1] = c
      BY <1>0, <3>1, LenProperties DEF TypeOK
    <3>3. subs[c] = {}
      BY <3>1 DEF Tasked, Granted
    <3> SUFFICES ASSUME NEW t \in Topics, NEW x \in Conns, Live(x)',
                        t \in subs'[x]
                 PROVE  Current(x, t)'
      BY DEF SubscribersUpToDate, Subscribers, Current, Awaits, Ahead
    <3>4. x # c
      BY <3>1, <3>3
    <3>5. Member(x)
      BY <3>2, <3>4 DEF Live, Member, Contains
    <3>6. Current(x, t)
      BY <3>1, <3>5, CurrentForm DEF Live
    <3>7. Awaits(x, t) => Awaits(x, t)'
      <4> SUFFICES ASSUME NEW n \in Notifiers, npc[n] # "idle",
                          ntopic[n] = t, ndata[n] = state[t],
                          NEW j \in nidx[n]..Len(clients), clients[j] = x
                   PROVE  Awaits(x, t)'
        BY DEF Awaits, Ahead
      <4>1. nidx[n] \in Nat \ {0}
        BY <3>2
      <4>2. j \in nidx[n]..Len(clients') /\ clients'[j] = x
        BY <3>2, <4>1
      <4> QED
        BY <3>1, <4>2 DEF Awaits, Ahead
    <3> QED
      BY <3>1, <3>6, <3>7 DEF Current
  <2>3. CASE TransportLost(c) \/ ReceiveClose(c)
    <3>1. Deader
      BY <1>0, <2>3 DEF TransportLost, ReceiveClose, Deader, TypeOK
    <3> QED
      BY <1>1, <2>3, <3>1 DEF TransportLost, ReceiveClose
  <2>4. CASE LoopExit(c)
    BY <1>1, <1>2, <2>4 DEF LoopExit
  <2>5. CASE CancelLoop(c)
    BY <1>1, <1>2, <2>5 DEF CancelLoop
  <2> QED
    BY <1>4, <2>1, <2>2, <2>3, <2>4, <2>5 DEF ConnStep
<1>5. ASSUME NEW k \in Tasks, NEW c \in Conns, NEW m \in Methods,
             NEW p \in Params, Receive(k, c, m, p)
      PROVE  SubscribersUpToDate'
  BY <1>1, <1>2, <1>5 DEF Receive
<1>6. ASSUME NEW k \in Tasks, TaskStep(k) PROVE SubscribersUpToDate'
  BY <1>6, TaskKeepsCurrent
<1>7. ASSUME NEW n \in Notifiers, NEW t \in Topics, NEW s \in BOOLEAN,
             StartNotify(n, t, s)
      PROVE  SubscribersUpToDate'
  BY <1>7, NotifyKeepsCurrent
<1>8. ASSUME NEW n \in Notifiers, NotifierStep(n) PROVE SubscribersUpToDate'
  BY <1>8, NotifyKeepsCurrent
<1>9. CASE UNCHANGED vars
  BY <1>1, <1>2, <1>9 DEF vars
<1> QED
  BY <1>3, <1>4, <1>5, <1>6, <1>7, <1>8, <1>9 DEF Next

(* The last frame a usable subscriber got for a topic is as new as its     *)
(* stored state, unless the notify() that stored that has still to come to *)
(* him, or he was skipped by a removal or an older notify() wrote last:    *)
(* whoever joins, leaves, subscribes or notifies in the meantime.          *)
THEOREM SubscribersGetState == Spec => []SubscribersUpToDate
<1>1. Init => Typed /\ RegistrySound /\ Tasked /\ SubscribersUpToDate
  <2>1. Init => SubscribersUpToDate
    BY DEF Init, SubscribersUpToDate, Subscribers, Live, Member, Contains
  <2> QED
    BY <2>1, TypedInit, RegistryInit, TaskedInit
<1>2. Typed /\ RegistrySound /\ Tasked /\ SubscribersUpToDate /\ [Next]_vars
        => (Typed /\ RegistrySound /\ Tasked /\ SubscribersUpToDate)'
  BY TypedNext, RegistryNext, TaskedNext, CurrentNext
<1> QED
  BY <1>1, <1>2, PTL DEF Spec
=============================================================================
