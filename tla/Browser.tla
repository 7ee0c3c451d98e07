------------------------------ MODULE Browser ------------------------------
(***************************************************************************)
(* The client for browsers (django/static/rpc.js): objects made by RPC()   *)
(* in one page, the websockets they open one after the other, and a server *)
(* at the other end (rpc.py:283-440), whose tasks answer in any order.     *)
(*                                                                         *)
(* What the page does between two events is one step.  What the handlers   *)
(* of the application do, and the server with answers, is left out.        *)
(***************************************************************************)
EXTENDS SequencesExt, Naturals

CONSTANTS
  Objects,   \* the objects that RPC() makes
  Globals,   \* values of the variable `rpc' of the page, or None
  Sockets,   \* bound: the websockets of a behaviour
  Topics,    \* the topics of the server
  Strange,   \* a topic that the server does not have
  MaxCalls,  \* bound: calls of the page
  MaxDown,   \* bound: messages of the server that wait on one websocket
  None

(* What an instance has to satisfy.                                        *)
BrowserAssumption ==
  /\ Globals \subseteq Objects \cup {None}
  /\ None \notin Objects \cup Sockets \cup Topics /\ None # Strange
  /\ Strange \notin Topics /\ MaxCalls \in Nat /\ MaxDown \in Nat

VARIABLES
  global,    \* the variable `rpc' of the page
  current,   \* current[o]: o._ws, or None
  nextId,    \* nextId[o]: o._message_id
  pending,   \* pending[o]: o._pending, id -> the call whose handlers wait
  handler,   \* handler[o]: the topics in o._topic_handler
  calls,     \* the calls made: their websocket, their topic and whether they
             \* were given a handler for it, if they subscribe to one, and
             \* what became of them
  sock,      \* sock[s]: "fresh", "connecting", "open", "closed"
  owner,     \* owner[s]: s._rpc
  up, down,  \* up[s], down[s]: the messages on their way; a request that the
             \* server has in hand stays in up[s]
  subs,      \* subs[s]: the subscriptions of the connection at the server
  stored,    \* the topics that have a state at the server
  renewed,   \* history: objects that connected beside a websocket in use
  astray     \* history: handlers that got the answer to another call or one
             \* more, and answers written to another websocket than the one
             \* the request came from: "call", "socket"

page == <<global, current, nextId, pending, handler, calls>>
wires == <<sock, owner, up, down>>
server == <<subs, stored>>
history == <<renewed, astray>>
vars == <<page, wires, server, history>>

Init ==
  /\ global \in Globals
  /\ current = [o \in Objects |-> None] /\ nextId = [o \in Objects |-> 1]
  /\ pending = [o \in Objects |-> <<>>] /\ handler = [o \in Objects |-> {}]
  /\ calls = <<>>
  /\ sock = [s \in Sockets |-> "fresh"] /\ owner = [s \in Sockets |-> None]
  /\ up = [s \in Sockets |-> <<>>] /\ down = [s \in Sockets |-> <<>>]
  /\ subs = [s \in Sockets |-> {}] /\ stored = {}
  /\ renewed = {} /\ astray = {}

IsOpen(s) == s # None /\ sock[s] = "open"
InUse(s) == s # None /\ sock[s] # "closed"

-----------------------------------------------------------------------------
(* The page.                                                               *)

(* Mutant: a new connection counts from 1 again.                           *)
ConnectRestarts(o) ==
  \E s \in Sockets :
    /\ sock[s] = "fresh" /\ sock' = [sock EXCEPT ![s] = "connecting"]
    /\ owner' = [owner EXCEPT ![s] = o] /\ current' = [current EXCEPT ![o] = s]
    /\ renewed' = IF InUse(current[o]) THEN renewed \cup {o} ELSE renewed
    /\ nextId' = [nextId EXCEPT ![o] = 1]
    /\ UNCHANGED <<global, pending, handler, calls, up, down, server, astray>>

(* Mutant: a new connection forgets the handlers of topics.                *)
ConnectForgets(o) ==
  \E s \in Sockets :
    /\ sock[s] = "fresh" /\ sock' = [sock EXCEPT ![s] = "connecting"]
    /\ owner' = [owner EXCEPT ![s] = o] /\ current' = [current EXCEPT ![o] = s]
    /\ renewed' = IF InUse(current[o]) THEN renewed \cup {o} ELSE renewed
    /\ handler' = [handler EXCEPT ![o] = {}]
    /\ UNCHANGED <<global, nextId, pending, calls, up, down, server, astray>>

(* connect(); the websocket of before, if any, stays as it is.             *)
Connect(o) ==
  \E s \in Sockets :
    /\ sock[s] = "fresh" /\ sock' = [sock EXCEPT ![s] = "connecting"]
    /\ owner' = [owner EXCEPT ![s] = o] /\ current' = [current EXCEPT ![o] = s]
    /\ renewed' = IF InUse(current[o]) THEN renewed \cup {o} ELSE renewed
    /\ UNCHANGED <<global, nextId, pending, handler, calls, up, down, server,
                   astray>>

Opens(s) ==
  /\ sock[s] = "connecting" /\ sock' = [sock EXCEPT ![s] = "open"]
  /\ UNCHANGED <<page, owner, up, down, server, history>>

(* disconnect(), the server or the network ends a connection.  From then on*)
(* no message reaches the page, and the pending calls are left alone.      *)
Closes(s) ==
  /\ sock[s] \in {"connecting", "open"}
  /\ sock' = [sock EXCEPT ![s] = "closed"]
  /\ up' = [up EXCEPT ![s] = <<>>] /\ down' = [down EXCEPT ![s] = <<>>]
  /\ UNCHANGED <<page, owner, server, history>>

(* call(), of subscribe() for a topic t, with a handler or without, or of  *)
(* another method.  The entry of pending is made before send(), which      *)
(* raises without a websocket and while it connects, and drops what is sent*)
(* after the end.                                                          *)
Call(o, t, given) ==
  LET s == current[o] c == Len(calls) + 1 id == nextId[o] IN
  /\ c <= MaxCalls
  /\ nextId' = [nextId EXCEPT ![o] = id + 1]
  /\ pending' = [pending EXCEPT ![o] = [i \in DOMAIN @ \cup {id} |->
                                          IF i = id THEN c ELSE @[i]]]
  /\ calls' = Append(calls, [sock |-> s, topic |-> t, given |-> given,
                       end |-> IF IsOpen(s) THEN "waits" ELSE "unsent"])
  /\ up' = IF IsOpen(s)
           THEN [up EXCEPT ![s] = Append(@,
                   [type |-> "request", of |-> c, id |-> id, topic |-> t])]
           ELSE up
  /\ UNCHANGED <<global, current, handler, sock, owner, down, server, history>>

-----------------------------------------------------------------------------
(* The server.                                                             *)

Notice(t) == [type |-> "notice", topic |-> t]
Room(s) == Len(down[s]) < MaxDown
Delivers(s, m) == down' = [down EXCEPT ![s] = Append(@, m)]

(* subscribe() up to the reply, with the replay of a state.                *)
Subscribe(s, i) ==
  LET m == up[s][i] IN
  /\ m.type = "request" /\ m.topic # None /\ Room(s)
  /\ up' = [up EXCEPT ![s][i].type = "replies"]
  /\ IF m.topic \in Topics
     THEN subs' = [subs EXCEPT ![s] = @ \cup {m.topic}] ELSE UNCHANGED subs
  /\ IF m.topic \in stored THEN Delivers(s, Notice(m.topic))
                           ELSE UNCHANGED down
  /\ UNCHANGED <<page, sock, owner, stored, history>>

(* A subscribe() ends, any other method does, or the request is refused.   *)
Reply(s, i) ==
  LET m == up[s][i]
      types == IF m.type = "replies" THEN {"result"}
               ELSE IF m.topic = None THEN {"result", "error"} ELSE {"error"} IN
  /\ Room(s) /\ up' = [up EXCEPT ![s] = RemoveAt(@, i)]
  /\ \E type \in types :
       Delivers(s, [type |-> type, of |-> m.of, id |-> m.id,
                    topics |-> subs[s]])
  /\ UNCHANGED <<page, sock, owner, server, history>>

(* notify(), with or without a state, writes to every subscriber.          *)
Notify(t) ==
  LET to == {s \in Sockets : IsOpen(s) /\ t \in subs[s]} IN
  /\ \A s \in to : Room(s)
  /\ down' = [s \in Sockets |-> IF s \in to THEN Append(down[s], Notice(t))
                                            ELSE down[s]]
  /\ stored' \in {stored, stored \cup {t}}
  /\ UNCHANGED <<page, sock, owner, up, subs, history>>

(* The server calls a method that the page has or has not.                 *)
ServerCalls(s) ==
  /\ IsOpen(s) /\ Room(s)
  /\ \E method \in {"known", "unknown"} :
       Delivers(s, [type |-> "request", method |-> method])
  /\ UNCHANGED <<page, sock, owner, up, server, history>>

-----------------------------------------------------------------------------
(* Messages reach the page.                                                *)

Takes(s, type) ==
  /\ IsOpen(s) /\ down[s] # <<>> /\ Head(down[s]).type = type
  /\ down' = [down EXCEPT ![s] = Tail(@)]
  /\ UNCHANGED <<global, current, nextId, sock, owner, up, server, renewed>>

(* A method the page lacks gets no answer.  The answer goes to the current *)
(* websocket of the object.                                                *)
TakesRequest(s) ==
  LET to == current[owner[s]] IN
  /\ Takes(s, "request")
  /\ astray' = IF Head(down[s]).method = "known" /\ IsOpen(to) /\ to # s
               THEN astray \cup {"socket"} ELSE astray
  /\ UNCHANGED <<pending, handler, calls>>

(* A notification without a handler is dropped.                            *)
TakesNotice(s) ==
  Takes(s, "notice") /\ UNCHANGED <<pending, handler, calls, astray>>

(* An id that is not pending is ignored.  The handler of subscribe() raises*)
(* when the topic is not in the result, when subscribe() was given no      *)
(* handler for it, or when there is no variable `rpc' in the page; then the*)
(* entry stays.                                                            *)
Raises(call, m) ==
  /\ m.type = "result" /\ call.topic # None
  /\ call.topic \notin m.topics \/ ~call.given \/ global = None

(* Mutant: the entry stays after an error.                                 *)
TakesAnswerKeeps(s, type) ==
  LET m == Head(down[s]) o == owner[s] IN
  /\ Takes(s, type)
  /\ IF m.id \notin DOMAIN pending[o]
     THEN UNCHANGED <<pending, handler, calls, astray>>
     ELSE LET c == pending[o][m.id] call == calls[c] IN
          /\ astray' = IF m.of # c \/ call.end \in {"done", "raised"}
                       THEN astray \cup {"call"} ELSE astray
          /\ calls' = [calls EXCEPT ![c].end =
                         IF Raises(call, m) THEN "raised" ELSE "done"]
          /\ handler' =
               IF type = "result" /\ call.topic # None /\ ~Raises(call, m)
               THEN [handler EXCEPT ![global] = @ \cup {call.topic}]
               ELSE handler
          /\ pending' = IF Raises(call, m) \/ type = "error" THEN pending ELSE
               [pending EXCEPT ![o] = Restrict(@, DOMAIN @ \ {m.id})]

TakesAnswer(s, type) ==
  LET m == Head(down[s]) o == owner[s] IN
  /\ Takes(s, type)
  /\ IF m.id \notin DOMAIN pending[o]
     THEN UNCHANGED <<pending, handler, calls, astray>>
     ELSE LET c == pending[o][m.id] call == calls[c] IN
          /\ astray' = IF m.of # c \/ call.end \in {"done", "raised"}
                       THEN astray \cup {"call"} ELSE astray
          /\ calls' = [calls EXCEPT ![c].end =
                         IF Raises(call, m) THEN "raised" ELSE "done"]
          /\ handler' =
               IF type = "result" /\ call.topic # None /\ ~Raises(call, m)
               THEN [handler EXCEPT ![global] = @ \cup {call.topic}]
               ELSE handler
          /\ pending' = IF Raises(call, m) THEN pending ELSE
               [pending EXCEPT ![o] = Restrict(@, DOMAIN @ \ {m.id})]

(* Whether there is a handler makes a difference only for a topic of the   *)
(* server and in a page with the variable `rpc'.                           *)
Next ==
  \/ \E o \in Objects : Connect(o)
  \/ \E o \in Objects, t \in Topics \cup {Strange, None}, given \in BOOLEAN :
       (t \notin Topics \/ global = None => given) /\ Call(o, t, given)
  \/ \E s \in Sockets :
       \/ Opens(s) \/ Closes(s) \/ ServerCalls(s)
       \/ \E i \in DOMAIN up[s] : Subscribe(s, i) \/ Reply(s, i)
       \/ TakesRequest(s) \/ TakesNotice(s)
       \/ \E type \in {"result", "error"} : TakesAnswer(s, type)
  \/ \E t \in Topics : Notify(t)

Spec == Init /\ [][Next]_vars

-----------------------------------------------------------------------------
(* What is true of it.                                                     *)

(* Handlers get the answer to their own call, and one, although a page that*)
(* connects again has two websockets that deliver to one table of pending  *)
(* calls; and an answer of the page goes back on the websocket the request *)
(* came from, unless the page connected beside it (rpc.js:15-21, 62-73).   *)
AnswersFindTheirCall ==
  /\ "call" \notin astray
  /\ "socket" \in astray => renewed # {}

(* The object that the variable `rpc' holds drops a notification only when *)
(* a subscribe() to its topic on the same websocket still waits for its    *)
(* reply, so that the replay of a state is lost, and what is sent before   *)
(* the reply; or when one without a handler has raised, which leaves the   *)
(* connection subscribed, so that everything is dropped from then on.      *)
(* Nothing else is (rpc.js:56-58, 140-148; rpc.py:393-400).                *)
DropsExplained ==
  [][\A s \in Sockets :
       LET t == Head(down[s]).topic IN
       IsOpen(s) /\ owner[s] = global /\ global # None
         /\ down[s] # <<>> /\ Head(down[s]).type = "notice"
         /\ sock'[s] = "open" /\ down'[s] = Tail(down[s])
         /\ t \notin handler[global]
       => \E id \in DOMAIN pending[global] :
            LET c == calls[pending[global][id]] IN
            /\ c.topic = t /\ c.sock = s
            /\ \/ c.end = "waits"
               \/ c.end = "raised" /\ ~c.given]_vars

(* An entry of pending stays only as long as its request, or the answer to *)
(* it, is on its way; and for ever if the connection ended, if it was not  *)
(* open when the call was made, or if the handler of subscribe() raised,   *)
(* for a topic that the server does not have, without a handler for the    *)
(* topic, or in a page without the variable `rpc' (rpc.js:38, 72, 97-148). *)
EntriesExplained ==
  \A o \in Objects : \A id \in DOMAIN pending[o] :
    LET c == pending[o][id] call == calls[c] IN
    \/ call.end = "unsent"
    \/ /\ call.end = "raised"
       /\ call.topic = Strange \/ ~call.given \/ global = None
    \/ /\ call.end = "waits"
       /\ \/ sock[call.sock] = "closed"
          \/ \E i \in DOMAIN up[call.sock] : up[call.sock][i].of = c
          \/ \E i \in DOMAIN down[call.sock] :
               /\ down[call.sock][i].type \in {"result", "error"}
               /\ down[call.sock][i].of = c
=============================================================================
