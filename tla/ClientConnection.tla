-------------------------- MODULE ClientConnection --------------------------
(***************************************************************************)
(* The connection of a JsonRpcClient (client.py:64-202): several tasks of  *)
(* an application connect, call and disconnect one client, whose worker    *)
(* reads the websocket.  All of them look the websocket up in the attribute*)
(* _ws each time they need it, and it may change at every await.           *)
(*                                                                         *)
(* connect_url() makes a session and a websocket; both are one member of   *)
(* Sockets, and so is the worker that it starts.  A step is what a task    *)
(* does between two awaits.                                                *)
(***************************************************************************)
EXTENDS FiniteSets, Naturals

CONSTANTS
  Apps,      \* tasks of the application
  Sockets,   \* bound: the connections that are tried in a behaviour
  Null,      \* the value None
  Absent     \* there is no such attribute

ASSUME ConnectionAssumption ==
  Null # Absent /\ {Null, Absent} \cap Sockets = {}

VARIABLES
  ws,        \* self._ws
  session,   \* self._session
  sock,      \* sock[s]: "fresh", "connecting", "open", "lost", "closed"
  sess,      \* the sessions that are open
  worker,    \* worker[s]: where the worker is, and the socket it read from
  app,       \* app[a]: what a waits for, and for which socket
  hung,      \* the event loop runs one task for ever
  failed,    \* history: the last connect to end has failed
  careless,  \* history: the application called connect() beside a worker or
             \* another connect, or disconnect() beside a disconnect()
  replaced,  \* history: the open sessions that a connect() put aside
  outlived,  \* history: a disconnect() ended while a method of the worker ran
  astray     \* history: an answer went to another socket than its request

attributes == <<ws, session>>
sockets == <<sock, sess>>
history == <<failed, careless, replaced, outlived, astray>>
vars == <<attributes, sockets, worker, app, hung, history>>

-----------------------------------------------------------------------------

Idle == [at |-> "idle", op |-> "none", sock |-> Absent]
NoWorker == [at |-> "none", sock |-> Absent]
Busy(w) == worker[w].at \in {"method", "draining"}
Running(w) == worker[w].at \in {"starting", "receiving"} \/ Busy(w)
Receives(w, s) == worker[w] = [at |-> "receiving", sock |-> s]
Connecting(a) == app[a].at \in {"connecting", "cleaning"}
Disconnecting(a) == app[a].at \in {"closing", "closingSession"}

Init ==
  /\ ws = Absent /\ session = Absent
  /\ sock = [s \in Sockets |-> "fresh"] /\ sess = {}
  /\ worker = [s \in Sockets |-> NoWorker]
  /\ app = [a \in Apps |-> Idle]
  /\ hung = FALSE
  /\ failed = FALSE /\ careless = FALSE /\ replaced = {}
  /\ outlived = FALSE /\ astray = FALSE

-----------------------------------------------------------------------------
(* The application.                                                        *)

Awaits(a, at, op, s) ==
  app' = [app EXCEPT ![a] = [at |-> at, op |-> op, sock |-> s]]
Rests(a) == app' = [app EXCEPT ![a] = Idle]

(* connect_url() up to the await of ws_connect().                          *)
StartConnect(a, op) ==
  \E s \in Sockets :
    /\ sock[s] = "fresh"
    /\ session' = s /\ ws' = Null
    /\ sock' = [sock EXCEPT ![s] = "connecting"] /\ sess' = sess \cup {s}
    /\ replaced' = replaced \cup ({session} \cap sess)
    /\ Awaits(a, "connecting", op, s)
    /\ UNCHANGED <<worker, hung, failed, outlived, astray>>

(* connect(), called by the application.                                   *)
Connect(a) ==
  /\ app[a] = Idle /\ StartConnect(a, "connect")
  /\ careless' = \/ careless \/ \E w \in Sockets : Running(w)
                 \/ \E b \in Apps : Connecting(b) \/ Disconnecting(b)

(* A call sends its request; on a lost connection send_str() raises or the *)
(* frame is dropped.                                                       *)
Sends(a, s) ==
  \/ sock'[s] \in {"open", "lost"} /\ Awaits(a, "answer", "call", s)
  \/ sock'[s] \in {"lost", "closed"} /\ Rests(a)

(* Mutant: auto_connect() takes a websocket that is None for none.         *)
CallConnectsOnNone(a) ==
  /\ app[a] = Idle
  /\ \/ /\ ws \in {Absent, Null} /\ StartConnect(a, "call")
        /\ UNCHANGED careless
     \/ /\ ws \in Sockets /\ UNCHANGED sock /\ Sends(a, ws)
        /\ UNCHANGED <<attributes, sess, worker, hung, history>>

(* call(), which connects when there is no websocket yet.  When _ws is None*)
(* it raises, and nothing changes.                                         *)
Call(a) ==
  /\ app[a] = Idle
  /\ \/ /\ ws = Absent /\ StartConnect(a, "call")
        /\ UNCHANGED careless
     \/ /\ ws \in Sockets /\ UNCHANGED sock /\ Sends(a, ws)
        /\ UNCHANGED <<attributes, sess, worker, hung, history>>

(* ws_connect() returns; it cannot when its session was closed meanwhile,  *)
(* nor before a worker runs that is ready to start.  A call goes on without*)
(* an await.                                                               *)
Connected(a) ==
  LET s == app[a].sock IN
  /\ app[a].at = "connecting" /\ s \in sess
  /\ \A w \in Sockets : worker[w].at # "starting"
  /\ ws' = s /\ sock' = [sock EXCEPT ![s] = "open"]
  /\ worker' = [worker EXCEPT ![s].at = "starting"]
  /\ IF app[a].op = "call" THEN Sends(a, s) ELSE Rests(a)
  /\ failed' = FALSE
  /\ UNCHANGED <<session, sess, hung, careless, replaced, outlived, astray>>

(* Mutant: nothing is cleaned up.                                          *)
ConnectFailsOnly(a) ==
  LET s == app[a].sock IN
  /\ app[a].at = "connecting"
  /\ sock' = [sock EXCEPT ![s] = "closed"] /\ failed' = TRUE
  /\ Rests(a)
  /\ UNCHANGED <<attributes, sess, worker, hung, careless, replaced, outlived,
                 astray>>

(* ws_connect() raises.  Then whatever session the attribute holds is      *)
(* closed, if _ws is still None; an attribute that is gone raises, too.    *)
ConnectFails(a) ==
  LET s == app[a].sock IN
  /\ app[a].at = "connecting"
  /\ sock' = [sock EXCEPT ![s] = "closed"] /\ failed' = TRUE
  /\ IF ws = Null /\ session # Absent
     THEN sess' = sess \ {session} /\ Awaits(a, "cleaning", app[a].op, s)
     ELSE Rests(a) /\ UNCHANGED sess
  /\ UNCHANGED <<attributes, worker, hung, careless, replaced, outlived,
                 astray>>

(* The session is closed and the exception raised; or a call timed out.    *)
GivesUp(a) ==
  /\ app[a].at \in {"cleaning", "answer"} /\ Rests(a)
  /\ UNCHANGED <<attributes, sockets, worker, hung, history>>

(* disconnect() raises at once without a websocket.                        *)
Disconnect(a) ==
  /\ app[a] = Idle /\ ws \in Sockets
  /\ sock' = [sock EXCEPT ![ws] = "closed"]
  /\ Awaits(a, "closing", "disconnect", ws)
  /\ careless' = (careless \/ \E b \in Apps : Disconnecting(b))
  /\ UNCHANGED <<attributes, sess, worker, hung, failed, replaced, outlived,
                 astray>>

(* Mutant: disconnect() does not wait for the worker.                      *)
CloseAtOnce(a) ==
  /\ app[a].at = "closing"
  /\ IF session = Absent
     THEN Rests(a) /\ UNCHANGED sess
     ELSE sess' = sess \ {session}
          /\ Awaits(a, "closingSession", "disconnect", app[a].sock)
  /\ UNCHANGED <<attributes, sock, worker, hung, history>>

(* ws.close() wakes the worker that receives, and waits for it.  Then the  *)
(* session that the attribute holds by now is closed.                      *)
CloseSession(a) ==
  /\ app[a].at = "closing"
  /\ \A w \in Sockets : ~Receives(w, app[a].sock)
  /\ IF session = Absent
     THEN Rests(a) /\ UNCHANGED sess
     ELSE sess' = sess \ {session}
          /\ Awaits(a, "closingSession", "disconnect", app[a].sock)
  /\ UNCHANGED <<attributes, sock, worker, hung, history>>

(* Mutant: the attributes are reset to None.                               *)
DeleteResets(a) ==
  /\ app[a].at = "closingSession" /\ Rests(a)
  /\ ws' = Null /\ session' = Absent
  /\ UNCHANGED <<sockets, worker, hung, history>>

(* Mutant: the session is kept for the next connection.                    *)
DeleteSocketOnly(a) ==
  /\ app[a].at = "closingSession" /\ Rests(a)
  /\ ws' = Absent
  /\ outlived' = (outlived \/ \E w \in Sockets : Busy(w))
  /\ UNCHANGED <<session, sockets, worker, hung, failed, careless, replaced,
                 astray>>

(* del self._ws, and del self._session unless the former raises.           *)
Delete(a) ==
  /\ app[a].at = "closingSession" /\ Rests(a)
  /\ ws' = Absent
  /\ session' = IF ws = Absent THEN session ELSE Absent
  /\ outlived' = (outlived \/ \E w \in Sockets : Busy(w))
  /\ UNCHANGED <<sockets, worker, hung, failed, careless, replaced, astray>>

-----------------------------------------------------------------------------
(* The worker.                                                             *)

Goes(w, at, s) == worker' = [worker EXCEPT ![w] = [at |-> at, sock |-> s]]

(* The head of the loop: it raises when there is no websocket.  A second   *)
(* receive() on one websocket raises at once, and the loop goes round and  *)
(* round without an await.                                                 *)
Loops(w) ==
  LET live == ws \in Sockets /\ sock'[ws] # "closed"
      taken == \E v \in Sockets \ {w} : Receives(v, ws) IN
  \/ ~live /\ Goes(w, "ended", Absent) /\ UNCHANGED hung
  \/ live /\ ~taken /\ Goes(w, "receiving", ws) /\ UNCHANGED hung
  \/ live /\ taken /\ hung' = TRUE /\ UNCHANGED worker

(* The worker starts, or goes on after it waited for the drain of an answer*)
WorkerLoops(w) ==
  /\ worker[w].at \in {"starting", "draining"}
  /\ UNCHANGED sock /\ Loops(w)
  /\ UNCHANGED <<attributes, sess, app, history>>

(* An answer arrives on the socket of the call.                            *)
ReceivesAnswer(w) ==
  \E a \in Apps :
    /\ worker[w].at = "receiving" /\ sock[worker[w].sock] = "open"
    /\ app[a].at = "answer" /\ app[a].sock = worker[w].sock
    /\ Rests(a) /\ UNCHANGED sock /\ Loops(w)
    /\ UNCHANGED <<attributes, sess, history>>

(* A request of the server: its method, or the handler of a topic, runs.   *)
ReceivesRequest(w) ==
  /\ worker[w].at = "receiving" /\ sock[worker[w].sock] = "open"
  /\ Goes(w, "method", worker[w].sock)
  /\ UNCHANGED <<attributes, sockets, app, hung, history>>

(* The answer goes to the current websocket, if there is one.              *)
MethodEnds(w) ==
  LET sent == ws \in Sockets /\ sock[ws] = "open" IN
  /\ worker[w].at = "method" /\ UNCHANGED sock
  /\ \/ Loops(w)
     \/ sent /\ Goes(w, "draining", Absent) /\ UNCHANGED hung
  /\ astray' = (astray \/ (sent /\ ws # worker[w].sock))
  /\ UNCHANGED <<attributes, sess, app, failed, careless, replaced, outlived>>

(* receive() reads that the connection is at its end.                      *)
ReceivesClose(w) ==
  LET s == worker[w].sock IN
  /\ worker[w].at = "receiving" /\ sock[s] \in {"lost", "closed"}
  /\ sock' = [sock EXCEPT ![s] = "closed"] /\ Loops(w)
  /\ UNCHANGED <<attributes, sess, app, history>>

(* The server closes the connection, or it breaks.                         *)
Lose(s) ==
  /\ sock[s] = "open" /\ sock' = [sock EXCEPT ![s] = "lost"]
  /\ UNCHANGED <<attributes, sess, worker, app, hung, history>>

AppStep(a) ==
  \/ Connect(a) \/ Call(a) \/ Connected(a) \/ ConnectFails(a) \/ GivesUp(a)
  \/ Disconnect(a) \/ CloseSession(a) \/ Delete(a)
WorkerStep(w) ==
  \/ WorkerLoops(w) \/ ReceivesAnswer(w) \/ ReceivesRequest(w)
  \/ MethodEnds(w) \/ ReceivesClose(w)

Next ==
  /\ ~hung
  /\ \/ \E a \in Apps : AppStep(a)
     \/ \E s \in Sockets : WorkerStep(s) \/ Lose(s)

Spec == Init /\ [][Next]_vars

-----------------------------------------------------------------------------
(* What is true of it.                                                     *)

(* Every variable has its type; both attributes exist, or none of them,    *)
(* unless calls of disconnect() overlapped.                                *)
TypeOK ==
  /\ ws \in Sockets \cup {Null, Absent} /\ session \in Sockets \cup {Absent}
  /\ careless \/ (ws = Absent <=> session = Absent)
  /\ sock \in [Sockets -> {"fresh", "connecting", "open", "lost", "closed"}]
  /\ sess \subseteq Sockets
  /\ worker \in [Sockets -> [at : {"none", "starting", "receiving", "method",
                                   "draining", "ended"},
                             sock : Sockets \cup {Absent}]]
  /\ app \in [Apps -> [at : {"idle", "connecting", "cleaning", "answer",
                             "closing", "closingSession"},
                       op : {"none", "connect", "call", "disconnect"},
                       sock : Sockets \cup {Absent}]]
  /\ replaced \subseteq Sockets
  /\ {hung, failed, careless, outlived, astray} \subseteq BOOLEAN

(* The event loop is never blocked by two workers on one websocket, unless *)
(* the application connects beside a running worker or another connect, or *)
(* a disconnect() leaves behind a worker that runs a method: when the      *)
(* method is through after the next connect, or the next call that connects*)
(* by itself, the worker reads the new websocket (client.py:67-70, 157).   *)
LoopAlive == hung => careless \/ outlived

(* Calls that connect by themselves do not connect twice (client.py:146).  *)
AutoConnectsAlone ==
  ~careless => Cardinality({a \in Apps : Connecting(a)}) <= 1

(* The worker answers a request of the server on the connection it came    *)
(* from, with the same exceptions (client.py:62).                          *)
AnswerOnItsConnection == astray => careless \/ outlived

(* Calls find None in place of a websocket only while somebody connects,   *)
(* and after a connect has failed: from then on calls do not connect by    *)
(* themselves any more (client.py:123, 145-148, 171).                      *)
NoneMeansTrouble == ws = Null => failed \/ \E a \in Apps : Connecting(a)

(* When nobody connects or disconnects, every session is closed but that of*)
(* the current websocket and those that a connect() without a disconnect() *)
(* put aside, also after a connect that failed, and so is every websocket  *)
(* that has no session left (client.py:126-129, 154-158).                  *)
NothingLeaks ==
  ~careless /\ (\A a \in Apps : ~Connecting(a) /\ ~Disconnecting(a)) =>
    /\ sess \subseteq {ws} \cup replaced
    /\ \A s \in Sockets : sock[s] = "open" => s \in sess
=============================================================================
