------------------------------- MODULE PubSub -------------------------------
(***************************************************************************)
(* The publish/subscribe core of aiohttp_json_rpc.JsonRpc (rpc.py): the    *)
(* registry of connected clients, the receive loop of each connection, the *)
(* tasks that answer its messages, and notify(), which iterates over the   *)
(* live registry while other coroutines change it.                         *)
(*                                                                         *)
(* Everything runs on one event loop, so a step is what a coroutine does   *)
(* between two suspensions (an `await' that really waits).  A send that    *)
(* does not have to wait is a send whose next step follows at once.        *)
(*                                                                         *)
(* aiohttp is external and enters through two facts per connection:        *)
(* closing[c], transport.is_closing(), and closed[c], ws.closed.           *)
(***************************************************************************)
EXTENDS SequencesExt, Integers

CONSTANTS
  Conns,               \* requests; each is one connection, used once
  Topics,              \* names of topics
  Notifiers,           \* concurrent callers of notify()
  Tasks,               \* slots for the tasks running _handle_rpc_msg
  EarlyTopics,         \* topics added before the first connection
  Methods,             \* the kinds of message clients send
  Params,              \* the params a client sends to (un)subscribe
  MaxSerial,           \* bound: calls of notify() in a behaviour
  CancelOnDisconnect,  \* aiohttp < 3.7 cancels the handler on a disconnect
  None

ASSUME PubSubAssumption ==
  /\ EarlyTopics \subseteq Topics
  /\ Methods \subseteq {"subscribe", "unsubscribe", "call", "reject"}
  /\ Params \subseteq Seq(Topics)
  /\ MaxSerial \in Nat
  /\ CancelOnDisconnect \in BOOLEAN
  /\ None \notin Conns \cup Topics

VARIABLES
  loop,       \* loop[c]: where handle_websocket_request(c) is
  clients,    \* rpc.clients, the list notify() iterates over
  closing,    \* closing[c]: the transport of c is closing or lost
  closed,     \* closed[c]: c.ws.closed
  rpcTopics,  \* the keys of rpc.topics
  topics,     \* topics[c]: c.topics, copied from rpc.topics on connect
  subs,       \* subs[c]: c.subscriptions
  state,      \* state[t]: serial of the data in rpc.state, 0 if absent
  serial,     \* serial number of the data of the latest notify()
  npc, ntopic, ndata,  \* notify() n: where it is, its topic and its data
  nidx,       \* nidx[n]: position at which its iterator over clients resumes
  at,         \* at[n]: the client it is suspended on
  queue,      \* tasks that have yet to start, in the order of create_task
  tpc, tconn, tmethod, \* task k: where it is, its connection, the method
  todo,       \* todo[k]: params that (un)subscribe() has yet to visit
  sent,       \* history: sent[n], the clients notify() n wrote to, in order
  due,        \* history: due[n], who was subscribed at its start and still is
  skipped,    \* history: skipped[n], who a removal moved behind its iterator
  seen,       \* history: seen[c][t], serial of the last frame written to c
  excused,    \* history: excused[c], topics c was skipped for or got too late
  wanted,     \* history: wanted[c], what c's requests ask for, in their order
  revived     \* history: revived[c], whose unsubscribe overtook a subscribe

connVars == <<loop, closing, closed, topics>>
notifyVars == <<npc, ntopic, ndata, nidx, at, sent>>
taskVars == <<queue, tpc, tconn, tmethod, todo>>
viewVars == <<seen, excused>>
wishVars == <<wanted, revived>>
vars == <<connVars, clients, rpcTopics, subs, state, serial, notifyVars,
          taskVars, due, skipped, viewVars, wishVars>>

Member(c) == Contains(clients, c)
Live(c) == Member(c) /\ ~closing[c] /\ ~closed[c]
Subscribers(t) == {c \in Conns : Live(c) /\ t \in subs[c]}

Init ==
  /\ loop = [c \in Conns |-> "new"]
  /\ clients = <<>>
  /\ closing = [c \in Conns |-> FALSE]
  /\ closed = [c \in Conns |-> FALSE]
  /\ rpcTopics = EarlyTopics
  /\ topics = [c \in Conns |-> {}]
  /\ subs = [c \in Conns |-> {}]
  /\ state = [t \in Topics |-> 0]
  /\ serial = 0
  /\ npc = [n \in Notifiers |-> "idle"]
  /\ ntopic = [n \in Notifiers |-> None]
  /\ ndata = [n \in Notifiers |-> 0]
  /\ nidx = [n \in Notifiers |-> 1]
  /\ at = [n \in Notifiers |-> None]
  /\ queue = <<>>
  /\ tpc = [k \in Tasks |-> "free"]
  /\ tconn = [k \in Tasks |-> None]
  /\ tmethod = [k \in Tasks |-> None]
  /\ todo = [k \in Tasks |-> <<>>]
  /\ sent = [n \in Notifiers |-> <<>>]
  /\ due = [n \in Notifiers |-> {}]
  /\ skipped = [n \in Notifiers |-> {}]
  /\ seen = [c \in Conns |-> [t \in Topics |-> 0]]
  /\ excused = [c \in Conns |-> {}]
  /\ wanted = [c \in Conns |-> {}]
  /\ revived = [c \in Conns |-> {}]

-----------------------------------------------------------------------------
(* Effects shared by several handlers.                                     *)

(* clients.remove(c): the entries behind c move up by one, so an iterator  *)
(* that is past c steps over the entry it was about to visit.  idx gives   *)
(* are the iterators' positions and topics at the moment of the removal.  *)
Overrun(n, c, idx) ==
  IF idx[n] <= Len(clients) /\ \E i \in 1..(idx[n] - 1) : clients[i] = c
  THEN {clients[idx[n]]} ELSE {}

Unregister(c, idx, topic) ==
  /\ clients' = RemoveFirst(clients, c)
  /\ skipped' = [n \in Notifiers |-> skipped[n] \cup Overrun(n, c, idx)]
  /\ excused' = [x \in Conns |-> excused[x] \cup
       {topic[n] : n \in {n \in Notifiers : x \in Overrun(n, c, idx)}}]

(* A notification frame with data d on topic t reaches the wire of c.      *)
Written(c, t, d) ==
  /\ seen' = [seen EXCEPT ![c][t] = d]
  /\ excused' = [excused EXCEPT ![c] =
                    IF d < state[t] THEN @ \cup {t} ELSE @ \ {t}]

FreeTask(k) ==
  /\ tpc' = [tpc EXCEPT ![k] = "free"]
  /\ tconn' = [tconn EXCEPT ![k] = None]
  /\ tmethod' = [tmethod EXCEPT ![k] = None]
  /\ todo' = [todo EXCEPT ![k] = <<>>]

TaskAt(k, pc) ==
  /\ tpc' = [tpc EXCEPT ![k] = pc]
  /\ todo' = [todo EXCEPT ![k] = <<>>]
  /\ UNCHANGED <<tconn, tmethod>>

(* Mutant: ws.closed instead of transport.is_closing().                    *)
DeadIfClosed(c) == closed[c]

(* The test of _ws_send_str that makes it prune a client.                  *)
Dead(c) == closing[c]

(* _ws_send_str for the reply of task k, up to its first suspension, with  *)
(* the except clauses around it: whatever they send after a failed send    *)
(* fails the same way, so the task ends.                                   *)
SendReply(k) ==
  LET c == tconn[k] IN
  \/ /\ Dead(c) /\ Member(c)
     /\ Unregister(c, nidx, ntopic)
     /\ IF closed[c] THEN FreeTask(k) ELSE TaskAt(k, "closing")
  \/ /\ ~closing[c] /\ ~closed[c]
     /\ TaskAt(k, "replying")
     /\ UNCHANGED <<clients, skipped, excused>>
  \/ /\ closing[c] \/ closed[c]
     /\ ~(Dead(c) /\ Member(c))
     /\ FreeTask(k)
     /\ UNCHANGED <<clients, skipped, excused>>

-----------------------------------------------------------------------------
(* Connections.                                                            *)

AddTopic(t) ==
  /\ t \notin rpcTopics
  /\ rpcTopics' = rpcTopics \cup {t}
  /\ UNCHANGED <<connVars, clients, subs, state, serial, notifyVars, taskVars,
                 due, skipped, viewVars, wishVars>>

(* handle_request with DummyAuthBackend.prepare_request, up to ws.prepare  *)
Prepare(c) ==
  /\ loop[c] = "new"
  /\ loop' = [loop EXCEPT ![c] = "preparing"]
  /\ topics' = [topics EXCEPT ![c] = rpcTopics]
  /\ UNCHANGED <<clients, closing, closed, rpcTopics, subs, state, serial,
                 notifyVars, taskVars, due, skipped, viewVars, wishVars>>

(* Mutant: a new entry goes to the front of the registry.                  *)
EnlistedFirst(c) == <<c>> \o clients

Enlisted(c) == Append(clients, c)

Register(c) ==
  /\ loop[c] = "preparing"
  /\ loop' = [loop EXCEPT ![c] = "receiving"]
  /\ clients' = Enlisted(c)
  /\ UNCHANGED <<closing, closed, topics, rpcTopics, subs, state, serial,
                 notifyVars, taskVars, due, skipped, viewVars, wishVars>>

(* The peer or the network drops the connection.                           *)
TransportLost(c) ==
  /\ loop[c] # "new" /\ ~closing[c]
  /\ closing' = [closing EXCEPT ![c] = TRUE]
  /\ UNCHANGED <<loop, closed, topics, clients, rpcTopics, subs, state,
                 serial, notifyVars, taskVars, due, skipped, viewVars,
                 wishVars>>

(* ws.receive() gets a CLOSE frame, or the end of a lost connection.       *)
ReceiveClose(c) ==
  /\ loop[c] = "receiving" /\ ~closed[c]
  /\ closed' = [closed EXCEPT ![c] = TRUE]
  /\ UNCHANGED <<loop, closing, topics, clients, rpcTopics, subs, state,
                 serial, notifyVars, taskVars, due, skipped, viewVars,
                 wishVars>>

(* Mutant: the handler returns without removing its entry.                 *)
LoopExitKeepsEntry(c) ==
  /\ loop[c] = "receiving" /\ closed[c]
  /\ loop' = [loop EXCEPT ![c] = "returned"]
  /\ UNCHANGED <<closing, closed, topics, clients, rpcTopics, subs, state,
                 serial, notifyVars, taskVars, due, skipped, viewVars,
                 wishVars>>

(* The loop sees ws.closed and removes the entry; list.remove raises       *)
(* ValueError when a sender has removed it already.                        *)
LoopExit(c) ==
  /\ loop[c] = "receiving" /\ closed[c]
  /\ loop' = [loop EXCEPT ![c] = IF Member(c) THEN "returned" ELSE "raised"]
  /\ Unregister(c, nidx, ntopic)
  /\ UNCHANGED <<closing, closed, topics, rpcTopics, subs, state, serial,
                 notifyVars, taskVars, due, seen, wishVars>>

(* CancelledError at an await of the handler: nothing removes the entry.   *)
CancelLoop(c) ==
  /\ CancelOnDisconnect
  /\ closing[c] /\ loop[c] \in {"preparing", "receiving"}
  /\ loop' = [loop EXCEPT ![c] = "cancelled"]
  /\ UNCHANGED <<closing, closed, topics, clients, rpcTopics, subs, state,
                 serial, notifyVars, taskVars, due, skipped, viewVars,
                 wishVars>>

-----------------------------------------------------------------------------
(* Messages of a client.  "call" is any other method that is found,        *)
(* "reject" a message answered by an error outside the try statement.  The *)
(* event loop starts tasks in the order in which they were created.        *)

Receive(k, c, m, p) ==
  /\ loop[c] = "receiving" /\ ~closed[c]
  /\ tpc[k] = "free"
  /\ queue' = Append(queue, k)
  /\ tpc' = [tpc EXCEPT ![k] = "ready"]
  /\ tconn' = [tconn EXCEPT ![k] = c]
  /\ tmethod' = [tmethod EXCEPT ![k] = m]
  /\ todo' = [todo EXCEPT ![k] =
                 IF m \in {"subscribe", "unsubscribe"} THEN p ELSE <<>>]
  /\ wanted' = [wanted EXCEPT ![c] =
                   CASE m = "subscribe" -> @ \cup (ToSet(p) \cap topics[c])
                     [] m = "unsubscribe" -> @ \ ToSet(p)
                     [] OTHER -> @]
  /\ UNCHANGED <<connVars, clients, rpcTopics, subs, state, serial,
                 notifyVars, due, skipped, viewVars, revived>>

(* Mutant: tasks start in any order, as threads of a pool would.           *)
StartsInAnyOrder(k) == tpc[k] = "ready" /\ queue' = RemoveFirst(queue, k)

Starts(k) ==
  /\ tpc[k] = "ready"
  /\ queue # <<>> /\ Head(queue) = k
  /\ queue' = Tail(queue)

Reject(k) ==
  /\ Starts(k) /\ tmethod[k] = "reject"
  /\ SendReply(k)
  /\ UNCHANGED <<connVars, rpcTopics, subs, state, serial, notifyVars, due,
                 seen, wishVars>>

CallMethod(k) ==
  /\ Starts(k) /\ tmethod[k] = "call"
  /\ tpc' = [tpc EXCEPT ![k] = "running"]
  /\ UNCHANGED <<connVars, clients, rpcTopics, subs, state, serial,
                 notifyVars, tconn, tmethod, todo, due, skipped, viewVars,
                 wishVars>>

MethodReturns(k) ==
  /\ tpc[k] = "running"
  /\ SendReply(k)
  /\ UNCHANGED <<connVars, rpcTopics, subs, state, serial, notifyVars, queue,
                 due, seen, wishVars>>

RunUnsubscribe(k) ==
  /\ Starts(k) /\ tmethod[k] = "unsubscribe"
  /\ subs' = [subs EXCEPT ![tconn[k]] = @ \ ToSet(todo[k])]
  /\ due' = [n \in Notifiers |->
               IF ntopic[n] \in ToSet(todo[k]) THEN due[n] \ {tconn[k]}
                                               ELSE due[n]]
  /\ revived' = [revived EXCEPT ![tconn[k]] = @ \cup
       {t \in ToSet(todo[k]) :
          \E h \in Tasks : /\ tpc[h] = "sending" /\ tconn[h] = tconn[k]
                          /\ t \in ToSet(todo[h])}]
  /\ SendReply(k)
  /\ UNCHANGED <<connVars, rpcTopics, state, serial, notifyVars, seen,
                 wanted>>

(* Mutant: subscribe() sends no stored state.                              *)
NeverReplayed(k, j) == FALSE

(* subscribe() from its start, or from the await of a state notification,  *)
(* to the next one.  It sends by ws.send_str, without _ws_send_str's test. *)
Replayed(k, j) == todo[k][j] \in topics[tconn[k]] /\ state[todo[k][j]] # 0

Subscribing(k) ==
  /\ tmethod[k] = "subscribe"
  /\ \/ Starts(k)
     \/ tpc[k] = "sending" /\ UNCHANGED queue

(* Mutant: the list of topics is added instead of the topics in it.        *)
SubscribeToList(k, upto) ==
  subs' = [subs EXCEPT ![tconn[k]] = @ \cup {todo[k]}]

SubscribeTo(k, upto) ==
  subs' = [subs EXCEPT ![tconn[k]] =
             @ \cup (ToSet(SubSeq(todo[k], 1, upto)) \cap topics[tconn[k]])]

ReplayState(k, j) ==
  LET c == tconn[k] IN
  /\ Subscribing(k)
  /\ Replayed(k, j) /\ \A i \in 1..(j - 1) : ~Replayed(k, i)
  /\ SubscribeTo(k, j)
  /\ IF closing[c] \/ closed[c]
     THEN SendReply(k) /\ UNCHANGED seen
     ELSE /\ tpc' = [tpc EXCEPT ![k] = "sending"]
          /\ todo' = [todo EXCEPT ![k] = SubSeq(@, j + 1, Len(@))]
          /\ Written(c, todo[k][j], state[todo[k][j]])
          /\ UNCHANGED <<tconn, tmethod, clients, skipped>>
  /\ UNCHANGED <<connVars, rpcTopics, state, serial, notifyVars, due,
                 wishVars>>

SubscribeReturns(k) ==
  /\ Subscribing(k)
  /\ \A i \in DOMAIN todo[k] : ~Replayed(k, i)
  /\ SubscribeTo(k, Len(todo[k]))
  /\ SendReply(k)
  /\ UNCHANGED <<connVars, rpcTopics, state, serial, notifyVars, due, seen,
                 wishVars>>

(* The wait for a drain may end in an exception once the connection is     *)
(* lost: inside the try statement it leads to an error reply.              *)
DrainFails(k) ==
  /\ \/ tpc[k] = "sending"
     \/ tpc[k] = "replying" /\ tmethod[k] # "reject"
  /\ closing[tconn[k]]
  /\ SendReply(k)
  /\ UNCHANGED <<connVars, rpcTopics, subs, state, serial, notifyVars, queue,
                 due, seen, wishVars>>

TaskReplied(k) ==
  /\ tpc[k] = "replying"
  /\ FreeTask(k)
  /\ UNCHANGED <<queue, connVars, clients, rpcTopics, subs, state, serial,
                 notifyVars, due, skipped, viewVars, wishVars>>

(* Mutant: the task closes the connection for ever.                        *)
TaskClosedAgain(k) ==
  /\ tpc[k] = "closing"
  /\ closed' = [closed EXCEPT ![tconn[k]] = TRUE]
  /\ UNCHANGED <<loop, closing, topics, clients, rpcTopics, subs, state,
                 serial, notifyVars, taskVars, due, skipped, viewVars,
                 wishVars>>

TaskClosed(k) ==
  /\ tpc[k] = "closing"
  /\ closed' = [closed EXCEPT ![tconn[k]] = TRUE]
  /\ FreeTask(k)
  /\ UNCHANGED <<queue, loop, closing, topics, clients, rpcTopics, subs,
                 state, serial, notifyVars, due, skipped, viewVars, wishVars>>

-----------------------------------------------------------------------------
(* notify() and filter().                                                  *)

Yields(j, t) == ~closed[clients[j]] /\ t \in subs[clients[j]]

(* Mutant: filter() returns at a closed client instead of passing it.      *)
NoneLeftOrClosed(t, i) ==
  \/ \A j \in i..Len(clients) : ~Yields(j, t)
  \/ i <= Len(clients) /\ closed[clients[i]]

NoneLeft(t, i) == \A j \in i..Len(clients) : ~Yields(j, t)

(* Mutant: the iterator resumes an entry too far.                          *)
OneTooFar(j) == j + 2

(* A list iterator that has yielded position j resumes at the next one.    *)
ResumesAt(j) == j + 1

(* notify() n, resumed with its iterator at position i: filter() yields    *)
(* the next subscribed client whose ws is not closed, and _ws_send_str     *)
(* runs up to its first suspension; or the iterator is exhausted.          *)
Visit(n, t, d, i, audience) ==
  \E j \in i..Len(clients) :
    LET c == clients[j] IN
    /\ Yields(j, t) /\ \A h \in i..(j - 1) : ~Yields(h, t)
    /\ nidx' = [nidx EXCEPT ![n] = ResumesAt(j)]
    /\ at' = [at EXCEPT ![n] = c]
    /\ ntopic' = [ntopic EXCEPT ![n] = t]
    /\ ndata' = [ndata EXCEPT ![n] = d]
    /\ due' = [due EXCEPT ![n] = audience]
    /\ IF Dead(c)
       THEN /\ npc' = [npc EXCEPT ![n] = "closing"]
            /\ Unregister(c, nidx', ntopic')
            /\ UNCHANGED <<sent, seen>>
       ELSE /\ npc' = [npc EXCEPT ![n] = "draining"]
            /\ sent' = [sent EXCEPT ![n] = Append(@, c)]
            /\ Written(c, t, d)
            /\ UNCHANGED <<clients, skipped>>

Exhausted(n, t, i) ==
  /\ NoneLeft(t, i)
  /\ npc' = [npc EXCEPT ![n] = "idle"]
  /\ ntopic' = [ntopic EXCEPT ![n] = None]
  /\ ndata' = [ndata EXCEPT ![n] = 0]
  /\ nidx' = [nidx EXCEPT ![n] = 1]
  /\ at' = [at EXCEPT ![n] = None]
  /\ sent' = [sent EXCEPT ![n] = <<>>]
  /\ due' = [due EXCEPT ![n] = {}]
  /\ skipped' = [skipped EXCEPT ![n] = {}]
  /\ UNCHANGED <<clients, viewVars>>

(* notify(t, data, state=TRUE or FALSE)                                    *)
StartNotify(n, t, stateful) ==
  /\ npc[n] = "idle" /\ serial < MaxSerial
  /\ serial' = serial + 1
  /\ state' = IF stateful THEN [state EXCEPT ![t] = serial'] ELSE state
  /\ \/ Visit(n, t, serial', 1, Subscribers(t))
     \/ Exhausted(n, t, 1)
  /\ UNCHANGED <<connVars, rpcTopics, subs, taskVars, wishVars>>

(* The await of _ws_send_str returns or raises; notify() logs and goes on. *)
ResumeNotify(n) ==
  /\ npc[n] = "draining"
  /\ \/ Visit(n, ntopic[n], ndata[n], nidx[n], due[n])
     \/ Exhausted(n, ntopic[n], nidx[n])
  /\ UNCHANGED <<connVars, rpcTopics, subs, state, serial, taskVars,
                 wishVars>>

(* Mutant: notify() closes the client for ever.                            *)
NotifyClosedAgain(n) ==
  /\ npc[n] = "closing"
  /\ closed' = [closed EXCEPT ![at[n]] = TRUE]
  /\ UNCHANGED <<loop, closing, topics, clients, rpcTopics, subs, state,
                 serial, notifyVars, taskVars, due, skipped, viewVars,
                 wishVars>>

(* ws.close() of a client that _ws_send_str found dead sets ws.closed.     *)
NotifyClosed(n) ==
  /\ npc[n] = "closing"
  /\ closed' = [closed EXCEPT ![at[n]] = TRUE]
  /\ npc' = [npc EXCEPT ![n] = "draining"]
  /\ UNCHANGED <<loop, closing, topics, clients, rpcTopics, subs, state,
                 serial, ntopic, ndata, nidx, at, sent, taskVars, due,
                 skipped, viewVars, wishVars>>

-----------------------------------------------------------------------------
ConnStep(c) ==
  \/ Prepare(c) \/ Register(c) \/ TransportLost(c) \/ ReceiveClose(c)
  \/ LoopExit(c) \/ CancelLoop(c)

TaskStep(k) ==
  \/ Reject(k) \/ CallMethod(k) \/ MethodReturns(k) \/ RunUnsubscribe(k)
  \/ SubscribeReturns(k) \/ \E j \in DOMAIN todo[k] : ReplayState(k, j)
  \/ DrainFails(k) \/ TaskReplied(k) \/ TaskClosed(k)

NotifierStep(n) == ResumeNotify(n) \/ NotifyClosed(n)

Next ==
  \/ \E t \in Topics : AddTopic(t)
  \/ \E c \in Conns : ConnStep(c)
  \/ \E k \in Tasks, c \in Conns :
       \E m \in Methods, p \in Params : Receive(k, c, m, p)
  \/ \E k \in Tasks : TaskStep(k)
  \/ \E n \in Notifiers, t \in Topics, s \in BOOLEAN : StartNotify(n, t, s)
  \/ \E n \in Notifiers : NotifierStep(n)

Spec == Init /\ [][Next]_vars

(* A send to a client waits as long as the client does not read and its    *)
(* connection holds: no heartbeat and no timeout ends it.                  *)
NotifyHeldBy(n, c) == npc[n] = "draining" /\ at[n] = c /\ ~closing[c]

TaskHeldBy(k, c) ==
  tpc[k] \in {"sending", "replying"} /\ tconn[k] = c /\ ~closing[c]

NotifyHeld(n) == \E c \in Conns : NotifyHeldBy(n, c)
TaskHeld(k) == \E c \in Conns : TaskHeldBy(k, c)

(* The event loop runs every coroutine that can run.  ws.close() and the   *)
(* methods come back; a send need not while its connection holds, and      *)
(* connection_lost() ends the sends that wait.  The end of a lost          *)
(* connection reaches ws.receive().                                        *)
Fairness ==
  /\ \A c \in Conns : WF_vars(LoopExit(c))
                     /\ WF_vars(closing[c] /\ ReceiveClose(c))
  /\ \A k \in Tasks : WF_vars(~TaskHeld(k) /\ TaskStep(k))
  /\ \A n \in Notifiers : WF_vars(~NotifyHeld(n) /\ NotifierStep(n))

FairSpec == Spec /\ Fairness

-----------------------------------------------------------------------------
(* Every variable holds the kind of value the program gives it.            *)
TypeOK ==
  /\ loop \in [Conns -> {"new", "preparing", "receiving", "returned",
                         "raised", "cancelled"}]
  /\ clients \in Seq(Conns)
  /\ closing \in [Conns -> BOOLEAN] /\ closed \in [Conns -> BOOLEAN]
  /\ rpcTopics \in SUBSET Topics
  /\ topics \in [Conns -> SUBSET Topics] /\ subs \in [Conns -> SUBSET Topics]
  /\ serial \in 0..MaxSerial /\ state \in [Topics -> 0..MaxSerial]
  /\ npc \in [Notifiers -> {"idle", "draining", "closing"}]
  /\ ntopic \in [Notifiers -> Topics \cup {None}]
  /\ ndata \in [Notifiers -> 0..MaxSerial]
  /\ nidx \in [Notifiers -> Nat \ {0}]
  /\ at \in [Notifiers -> Conns \cup {None}]
  /\ queue \in Seq(Tasks)
  /\ tpc \in [Tasks -> {"free", "ready", "running", "sending", "replying",
                        "closing"}]
  /\ tconn \in [Tasks -> Conns \cup {None}]
  /\ tmethod \in [Tasks -> {"subscribe", "unsubscribe", "call", "reject",
                            None}]
  /\ todo \in [Tasks -> Seq(Topics)]
  /\ sent \in [Notifiers -> Seq(Conns)]
  /\ due \in [Notifiers -> SUBSET Conns]
  /\ skipped \in [Notifiers -> SUBSET Conns]
  /\ seen \in [Conns -> [Topics -> 0..MaxSerial]]
  /\ excused \in [Conns -> SUBSET Topics]
  /\ wanted \in [Conns -> SUBSET Topics]
  /\ revived \in [Conns -> SUBSET Topics]

(* The registry lists exactly the connections whose receive loop runs,     *)
(* except those a sender pruned and, after a cancellation, entries of lost *)
(* connections: a connection that is usable is never dropped from it, none *)
(* is listed twice, and a loop that ends by itself raises only when its    *)
(* entry was pruned as dead (rpc.py:276-281, 357-378).                     *)
RegistrySound ==
  /\ IsInjective(clients)
  /\ \A c \in Conns :
       /\ loop[c] = "receiving" /\ ~closing[c] => Member(c)
       /\ Member(c) /\ loop[c] # "receiving"
            => loop[c] = "cancelled" /\ closing[c]
       /\ loop[c] = "raised" => closing[c]

(* One call of notify() never writes to the same client twice and never    *)
(* to one that registered and subscribed in front of its iterator:         *)
(* whatever joins or leaves while it is suspended (rpc.py:418, 434).       *)
NotifyAtMostOnce == \A n \in Notifiers : IsInjective(sent[n])

(* When notify() returns, it has written to every client that was          *)
(* subscribed when it was called and has been usable and subscribed since, *)
(* except those that a removal from clients moved behind its iterator.     *)
NotifyComplete ==
  [][\A n \in Notifiers :
       npc[n] # "idle" /\ npc'[n] = "idle" =>
         \A c \in due[n] :
           Live(c) => c \in ToSet(sent[n]) \cup skipped[n]]_vars

(* README.rst:346 promises it without exception: "Send RPC notification to *)
(* all connected clients subscribed to given topic."                       *)
NotifyReachesAllSubscribers ==
  [][\A n \in Notifiers :
       npc[n] # "idle" /\ npc'[n] = "idle" =>
         \A c \in due[n] : Live(c) => c \in ToSet(sent[n])]_vars

(* The last frame a usable subscriber got for a topic is as new as the     *)
(* stored state of the topic, unless the notify() that stored it has still *)
(* to visit it, or it was skipped, or an older notify() was overtaken and  *)
(* wrote last (rpc.py:394-398, 429-438).                                   *)
SubscribersUpToDate ==
  \A t \in Topics : \A c \in Subscribers(t) :
    \/ seen[c][t] >= state[t]
    \/ t \in excused[c]
    \/ \E n \in Notifiers :
         /\ npc[n] # "idle" /\ ntopic[n] = t /\ ndata[n] = state[t]
         /\ \E j \in nidx[n]..Len(clients) : clients[j] = c

(* Once the requests of a usable client are handled, it is subscribed to   *)
(* what they ask for, taken in the order of arrival, although each runs in *)
(* a task of its own; but an unsubscribe that runs while a subscribe is    *)
(* suspended on a replay is undone when that resumes (rpc.py:375, 389-410).*)
RequestsTakeEffect ==
  \A c \in Conns :
    Live(c) /\ (\A k \in Tasks : tconn[k] = c => todo[k] = <<>>) =>
      /\ wanted[c] \subseteq subs[c]
      /\ subs[c] \subseteq wanted[c] \cup revived[c]

(* notify() returns, although clients go, are pruned or are closed while it*)
(* is suspended, unless one client that keeps its connection and does not  *)
(* read holds it in the send to it for ever (rpc.py:276-281, 425-440).     *)
NotifyEnds ==
  \A n \in Notifiers :
    []<>(npc[n] = "idle") \/ \E c \in Conns : <>[]NotifyHeldBy(n, c)

(* The task of a message ends, so its request is answered or given up, also*)
(* when the send after a pruning raises; unless its own client, connected, *)
(* does not read and holds it in a send for ever (rpc.py:276-341).         *)
TaskEnds ==
  \A k \in Tasks :
    []<>(tpc[k] = "free") \/ \E c \in Conns : <>[]TaskHeldBy(k, c)

(* The entry of a lost connection leaves the registry (rpc.py:278, 377).   *)
DeadEntryRemoved ==
  \A c \in Conns : closing[c] /\ Member(c) ~> ~Member(c)

-----------------------------------------------------------------------------
(* The view of Broadcast.                                                  *)

Members == ToSet(clients)
Audience == [t \in Topics |-> Subscribers(t)]
Got == [n \in Notifiers |-> ToSet(sent[n])]
Awaited == [n \in Notifiers |-> {c \in due[n] : Live(c)}]

Abstract == INSTANCE Broadcast
  WITH members <- Members, audience <- Audience, topic <- ntopic,
       got <- Got, awaited <- Awaited, missed <- skipped

(* The iteration over the live list implements Broadcast: a removal costs  *)
(* each call of notify() at most one recipient, whoever removes whom and   *)
(* however many calls overlap; nothing else costs one (rpc.py:223-248, 277,*)
(* 376, 418-440).                                                          *)
Broadcasts == Abstract!Spec

-----------------------------------------------------------------------------
(* What makes the invariants above inductive.                              *)

(* A task in flight has a connection; an active notify() has a topic and a *)
(* client; an idle one has no position.                                    *)
Wiring ==
  /\ \A k \in Tasks : tpc[k] # "free" => tconn[k] \in Conns
  /\ \A n \in Notifiers :
       IF npc[n] = "idle" THEN nidx[n] = 1 /\ sent[n] = <<>>
                          ELSE ntopic[n] \in Topics /\ at[n] \in Conns

(* Who has been written to is behind the iterator and cannot come back.    *)
SentBehind ==
  \A n \in Notifiers :
    \A i \in 1..Len(sent[n]) :
      /\ loop[sent[n][i]] \notin {"new", "preparing"}
      /\ \A j \in 1..Len(clients) : clients[j] = sent[n][i] => j < nidx[n]

(* Whoever is still due, usable and behind the iterator was written to or  *)
(* skipped.                                                                *)
DueAhead ==
  \A n \in Notifiers :
    /\ \A c \in due[n] : /\ ntopic[n] \in subs[c]
                        /\ loop[c] \notin {"new", "preparing"}
    /\ \A j \in 1..Len(clients) :
         j < nidx[n] /\ clients[j] \in due[n] /\ Live(clients[j]) =>
           clients[j] \in ToSet(sent[n]) \cup skipped[n]

Inductive ==
  /\ TypeOK /\ Wiring
  /\ RegistrySound
  /\ SentBehind /\ NotifyAtMostOnce
  /\ DueAhead
=============================================================================
