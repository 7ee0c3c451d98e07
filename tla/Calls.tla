------------------------------- MODULE Calls -------------------------------
(***************************************************************************)
(* Calls in both directions of one connection: JsonRpcRequest.call on the  *)
(* server (communicaton.py), JsonRpcClient.call on the client (client.py), *)
(* and what the two ends do with the messages they receive (_handle_rpc_msg*)
(* in rpc.py, the worker _handle_msgs in client.py).                       *)
(*                                                                         *)
(* A call is written to the wire by send_str, which may wait, and its      *)
(* future is looked up in `pending' by the id before and after the wait    *)
(* for the answer.  A call stands for its future, and a message carries,   *)
(* beside its id, the call it belongs to, which nobody but the properties  *)
(* looks at.                                                               *)
(***************************************************************************)
EXTENDS Sequences, Integers

CONSTANTS
  ServerCalls,   \* calls that methods of the server make to the client
  ClientCalls,   \* calls that the client makes to the server
  Timed,         \* the calls with a timeout
  Nested,        \* client calls made by a method that a server call runs
  ExplicitIds,   \* ids that callers of the client choose themselves
  MaxId,         \* bound: the counters of ids stop there
  ClientErrors,  \* the server may call methods that the client lacks
  None

Calls == ServerCalls \cup ClientCalls
Sides == {"server", "client"}
Ids == 0..MaxId

ASSUME CallsAssumption ==
  /\ ServerCalls \cap ClientCalls = {}
  /\ Timed \subseteq Calls /\ Nested \subseteq ClientCalls
  /\ MaxId \in Nat /\ ExplicitIds \subseteq Ids
  /\ ClientErrors \in BOOLEAN
  /\ None \notin Calls \cup Ids /\ None \notin {"result", "error", "stopped"}
  /\ "stopped" \notin Calls

VARIABLES
  open,     \* the connection has not been lost
  inbox,    \* inbox[s]: messages on their way to side s
  nextId,   \* nextId[s]: http_request.msg_id or client._msg_id
  pending,  \* pending[s][i]: the call whose future is pending[i], or None
  fut,      \* fut[k]: state of the future made for call k
  got,      \* got[k]: the call to which its result or error belongs
  pc,       \* pc[k]: where the caller of k is
  cid,      \* cid[k]: the id of call k
  wait,     \* wait[k]: the call on whose future k waits
  outcome,  \* outcome[k]: how call k ended
  from,     \* from[k]: the call whose answer it ended with
  running,  \* client calls whose methods run on the server
  worker,   \* the call whose method the client's worker awaits, or None,
            \* or "stopped"
  answer    \* history: answer[k], what the other side answered to k

callerVars == <<nextId, cid, wait, outcome, from>>
methodVars == <<running, worker, answer>>
vars == <<open, inbox, pending, fut, got, pc, callerVars, methodVars>>

Side(k) == IF k \in ServerCalls THEN "server" ELSE "client"
Peer(k) == IF k \in ServerCalls THEN "client" ELSE "server"
Message(kind, i, k) == [kind |-> kind, id |-> i, of |-> k]

Init ==
  /\ open = TRUE
  /\ inbox = [s \in Sides |-> <<>>]
  /\ nextId = [s \in Sides |-> 0]
  /\ pending = [s \in Sides |-> [i \in Ids |-> None]]
  /\ fut = [k \in Calls |-> "none"]
  /\ got = [k \in Calls |-> None]
  /\ pc = [k \in Calls |-> "idle"]
  /\ cid = [k \in Calls |-> None]
  /\ wait = [k \in Calls |-> None]
  /\ outcome = [k \in Calls |-> "none"]
  /\ from = [k \in Calls |-> None]
  /\ running = {}
  /\ worker = None
  /\ answer = [k \in Calls |-> None]

-----------------------------------------------------------------------------
(* The caller.                                                             *)

Send(s, m) ==
  IF open THEN inbox' = [inbox EXCEPT ![s] = Append(@, m)]
          ELSE UNCHANGED inbox

Ends(k, how, whose) ==
  /\ pc' = [pc EXCEPT ![k] = "done"]
  /\ outcome' = [outcome EXCEPT ![k] = how]
  /\ from' = [from EXCEPT ![k] = whose]

(* Mutant: the counter is not advanced.                                    *)
SameIdAgain(k, x) ==
  /\ x = None /\ nextId[Side(k)] <= MaxId
  /\ cid' = [cid EXCEPT ![k] = nextId[Side(k)]]
  /\ UNCHANGED nextId

(* Mutant: `if id is None', so that an explicit 0 is taken as it is.       *)
ZeroIsAnId(k, x) ==
  \/ /\ x # None
     /\ cid' = [cid EXCEPT ![k] = x]
     /\ UNCHANGED nextId
  \/ /\ x = None
     /\ nextId[Side(k)] <= MaxId
     /\ cid' = [cid EXCEPT ![k] = nextId[Side(k)]]
     /\ nextId' = [nextId EXCEPT ![Side(k)] = @ + 1]

(* `if not id': an explicit 0 counts as no id.                             *)
AssignId(k, x) ==
  \/ /\ x \notin {None, 0}
     /\ cid' = [cid EXCEPT ![k] = x]
     /\ UNCHANGED nextId
  \/ /\ x \in {None, 0}
     /\ nextId[Side(k)] <= MaxId
     /\ cid' = [cid EXCEPT ![k] = nextId[Side(k)]]
     /\ nextId' = [nextId EXCEPT ![Side(k)] = @ + 1]

(* Mutant: the future is registered after the request was sent.            *)
NotYetPending(k) == UNCHANGED pending

Register(k) == pending' = [pending EXCEPT ![Side(k)][cid'[k]] = k]

(* call() up to its first suspension.  On a lost connection send_str       *)
(* raises, or, in older versions of aiohttp, writes nothing.               *)
Call(k, x) ==
  /\ pc[k] = "idle"
  /\ x # None => k \in ClientCalls
  /\ k \in Nested => worker \in ServerCalls
  /\ AssignId(k, x)
  /\ Register(k)
  /\ fut' = [fut EXCEPT ![k] = "pending"]
  /\ \/ /\ pc' = [pc EXCEPT ![k] = "sending"]
        /\ Send(Peer(k), Message("request", cid'[k], k))
        /\ UNCHANGED <<outcome, from>>
     \/ /\ ~open
        /\ Ends(k, "lost", None)
        /\ UNCHANGED inbox
  /\ UNCHANGED <<open, got, wait, methodVars>>

(* The await of future f is over: the caller looks the future up again,    *)
(* and drops the entry if that gives it a result.                          *)
Return(k, f) ==
  LET g == IF fut[f] = "result" THEN pending[Side(k)][cid[k]] ELSE f IN
  \/ /\ g = None \/ fut[g] = "pending"
     /\ Ends(k, "broken", None)
     /\ UNCHANGED pending
  \/ /\ g # None /\ fut[g] # "pending"
     /\ Ends(k, fut[g], got[g])
     /\ pending' = IF fut[g] = "result"
                   THEN [pending EXCEPT ![Side(k)][cid[k]] = None]
                   ELSE pending

(* send_str returns; the call waits for the future under its id.  Some     *)
(* versions of asyncio.wait_for suspend even if the future is done.        *)
Sent(k) ==
  LET f == pending[Side(k)][cid[k]] IN
  /\ pc[k] = "sending"
  /\ \/ /\ f # None /\ (fut[f] = "pending" \/ k \in Timed)
        /\ pc' = [pc EXCEPT ![k] = "waiting"]
        /\ wait' = [wait EXCEPT ![k] = f]
        /\ UNCHANGED <<pending, outcome, from>>
     \/ /\ f # None /\ fut[f] # "pending"
        /\ Return(k, f)
        /\ UNCHANGED wait
     \/ /\ f = None
        /\ Ends(k, "broken", None)
        /\ UNCHANGED <<pending, wait>>
  /\ UNCHANGED <<open, inbox, fut, got, nextId, cid, methodVars>>

SendFails(k) ==
  /\ pc[k] = "sending" /\ ~open
  /\ Ends(k, "lost", None)
  /\ UNCHANGED <<open, inbox, pending, fut, got, nextId, cid, wait,
                 methodVars>>

WakeUp(k) ==
  /\ pc[k] = "waiting" /\ fut[wait[k]] # "pending"
  /\ Return(k, wait[k])
  /\ UNCHANGED <<open, inbox, fut, got, nextId, cid, wait, methodVars>>

(* Mutant: the timeout is checked only while the connection is up.         *)
TimeoutIfOpen(k) ==
  /\ k \in Timed /\ open
  /\ pc[k] = "waiting" /\ fut[wait[k]] = "pending"
  /\ fut' = [fut EXCEPT ![wait[k]] = "cancelled"]
  /\ Ends(k, "timeout", None)
  /\ UNCHANGED <<open, inbox, pending, got, nextId, cid, wait, methodVars>>

(* asyncio.wait_for cancels the future it gives up on.                     *)
Timeout(k) ==
  /\ k \in Timed
  /\ pc[k] = "waiting" /\ fut[wait[k]] = "pending"
  /\ fut' = [fut EXCEPT ![wait[k]] = "cancelled"]
  /\ Ends(k, "timeout", None)
  /\ UNCHANGED <<open, inbox, pending, got, nextId, cid, wait, methodVars>>

-----------------------------------------------------------------------------
(* The receiver.                                                           *)

Taken(s) ==
  /\ inbox[s] # <<>>
  /\ inbox' = [inbox EXCEPT ![s] = Tail(@)]

(* A result or an error resolves the future under its id.  If there is     *)
(* none, or it is done already, the receiver drops it, raising or not.     *)
Resolve(s, m) ==
  LET f == pending[s][m.id] IN
  IF f # None /\ fut[f] = "pending"
  THEN /\ fut' = [fut EXCEPT ![f] = m.kind]
       /\ got' = [got EXCEPT ![f] = m.of]
  ELSE UNCHANGED <<fut, got>>

(* The task of a request starts its method.                                *)
ServerGetsRequest ==
  LET m == Head(inbox["server"]) IN
  /\ Taken("server") /\ m.kind = "request"
  /\ running' = running \cup {m.of}
  /\ UNCHANGED <<open, pending, fut, got, pc, callerVars, worker, answer>>

ServerGetsResult ==
  LET m == Head(inbox["server"]) IN
  /\ Taken("server") /\ m.kind = "result"
  /\ Resolve("server", m)
  /\ UNCHANGED <<open, pending, pc, callerVars, methodVars>>

(* An error is no supported message: it is answered by an error that       *)
(* belongs to no call but has its id.                                      *)
ServerGetsError ==
  LET m == Head(inbox["server"]) IN
  /\ inbox["server"] # <<>> /\ m.kind = "error"
  /\ inbox' = [inbox EXCEPT !["server"] = Tail(@),
                  !["client"] = Append(@, Message("error", m.id, None))]
  /\ UNCHANGED <<open, pending, fut, got, pc, callerVars, methodVars>>

(* Methods of the server overlap and may return in any order.              *)
ServerReplies(k, a) ==
  /\ k \in running
  /\ running' = running \ {k}
  /\ answer' = [answer EXCEPT ![k] = a]
  /\ Send("client", Message(a, cid[k], k))
  /\ UNCHANGED <<open, pending, fut, got, pc, callerVars, worker>>

(* The client's worker reads nothing while it awaits a method.             *)
ClientGetsRequest ==
  LET m == Head(inbox["client"]) IN
  /\ worker = None
  /\ Taken("client") /\ m.kind = "request"
  /\ worker' = m.of
  /\ UNCHANGED <<open, pending, fut, got, pc, callerVars, running, answer>>

ClientRejects ==
  LET m == Head(inbox["client"]) IN
  /\ ClientErrors /\ worker = None
  /\ inbox["client"] # <<>> /\ m.kind = "request"
  /\ inbox' = [inbox EXCEPT !["client"] = Tail(@),
                  !["server"] = Append(@, Message("error", m.id, m.of))]
  /\ answer' = [answer EXCEPT ![m.of] = "error"]
  /\ UNCHANGED <<open, pending, fut, got, pc, callerVars, running, worker>>

(* Mutant: what has the id of a pending call is taken for its answer.      *)
AnswerByIdAlone ==
  LET m == Head(inbox["client"]) IN
  /\ worker = None
  /\ Taken("client")
  /\ Resolve("client", m)
  /\ UNCHANGED <<open, pending, pc, callerVars, methodVars>>

ClientGetsAnswer ==
  LET m == Head(inbox["client"]) IN
  /\ worker = None
  /\ Taken("client") /\ m.kind # "request"
  /\ Resolve("client", m)
  /\ UNCHANGED <<open, pending, pc, callerVars, methodVars>>

(* Mutant: an exception of the method ends the worker.                     *)
RaisesInWorker ==
  /\ worker \in ServerCalls
  /\ \A k \in Nested : pc[k] \in {"idle", "done"}
  /\ \/ /\ worker' = None
        /\ answer' = [answer EXCEPT ![worker] = "result"]
        /\ Send("server", Message("result", cid[worker], worker))
     \/ /\ worker' = "stopped"
        /\ UNCHANGED <<answer, inbox>>
  /\ UNCHANGED <<open, pending, fut, got, pc, callerVars, running>>

(* The method that the worker awaits returns, or raises, which is logged.  *)
MethodEnds ==
  /\ worker \in ServerCalls
  /\ \A k \in Nested : pc[k] \in {"idle", "done"}
  /\ worker' = None
  /\ \/ /\ answer' = [answer EXCEPT ![worker] = "result"]
        /\ Send("server", Message("result", cid[worker], worker))
     \/ UNCHANGED <<answer, inbox>>
  /\ UNCHANGED <<open, pending, fut, got, pc, callerVars, running>>

(* The worker treats a CancelledError of the method as its own, although   *)
(* it may be that of a future which another call gave up.                  *)
WorkerStops ==
  /\ worker \in ServerCalls
  /\ \A k \in Nested : pc[k] \in {"idle", "done"}
  /\ \E k \in Nested : outcome[k] = "cancelled"
  /\ worker' = "stopped"
  /\ UNCHANGED <<open, inbox, pending, fut, got, pc, callerVars, running,
                 answer>>

(* The connection breaks; what is on the way is lost.                      *)
Lose ==
  /\ open
  /\ open' = FALSE
  /\ inbox' = [s \in Sides |-> <<>>]
  /\ UNCHANGED <<pending, fut, got, pc, callerVars, methodVars>>

-----------------------------------------------------------------------------
CallerStep(k) == Sent(k) \/ SendFails(k) \/ WakeUp(k) \/ Timeout(k)

ReceiverStep ==
  \/ ServerGetsRequest \/ ServerGetsResult \/ ServerGetsError
  \/ ClientGetsRequest \/ ClientRejects \/ ClientGetsAnswer
  \/ MethodEnds \/ WorkerStops

Next ==
  \/ \E k \in Calls, x \in ExplicitIds \cup {None} : Call(k, x)
  \/ \E k \in Calls : CallerStep(k)
  \/ ReceiverStep
  \/ \E k \in ClientCalls, a \in {"result", "error"} : ServerReplies(k, a)
  \/ Lose

Spec == Init /\ [][Next]_vars

(* send_str may wait as long as the other end does not read.               *)
Held(k) == pc[k] = "sending" /\ open

(* Both event loops run what can run, each end takes what arrives, methods *)
(* end, with the write of their answer, and a timeout that nothing         *)
(* forestalls expires.  A send of a call need not return before the        *)
(* connection is lost.                                                     *)
Fairness ==
  /\ \A k \in Calls : WF_vars(~Held(k) /\ CallerStep(k))
  /\ WF_vars(ServerGetsRequest \/ ServerGetsResult \/ ServerGetsError)
  /\ WF_vars(ClientGetsRequest \/ ClientRejects \/ ClientGetsAnswer
               \/ MethodEnds \/ WorkerStops)
  /\ \A k \in ClientCalls :
       WF_vars(\E a \in {"result", "error"} : ServerReplies(k, a))

FairSpec == Spec /\ Fairness

-----------------------------------------------------------------------------
Messages(kinds, calls) == [kind : kinds, id : Ids, of : calls]

AnyMessage == Messages({"request", "result", "error"}, Calls \cup {None})

(* Every variable holds the kind of value the program gives it.            *)
TypeOK ==
  /\ open \in BOOLEAN
  /\ inbox \in [Sides -> Seq(AnyMessage)]
  /\ nextId \in [Sides -> 0..(MaxId + 1)]
  /\ pending \in [Sides -> [Ids -> Calls \cup {None}]]
  /\ fut \in [Calls -> {"none", "pending", "result", "error", "cancelled"}]
  /\ got \in [Calls -> Calls \cup {None}]
  /\ pc \in [Calls -> {"idle", "sending", "waiting", "done"}]
  /\ cid \in [Calls -> Ids \cup {None}]
  /\ wait \in [Calls -> Calls \cup {None}]
  /\ outcome \in [Calls -> {"result", "error", "cancelled", "timeout", "lost",
                            "broken", "none"}]
  /\ from \in [Calls -> Calls \cup {None}]
  /\ running \in SUBSET ClientCalls
  /\ worker \in ServerCalls \cup {None, "stopped"}
  /\ answer \in [Calls -> {"result", "error", None}]

(* Callers of the client that choose ids may choose one that is in use. No *)
(* other ids may coincide.                                                 *)
Clash(k) ==
  /\ k \in ClientCalls /\ cid[k] \in ExplicitIds \ {0}
  /\ \E h \in ClientCalls \ {k} : cid[h] = cid[k]

(* A call that returns a result returns the result of its own request,     *)
(* never that of a call that timed out before or of one of the other side, *)
(* unless its caller reused an id (client.py:97-101, rpc.py:347).          *)
OwnResult ==
  \A k \in Calls : outcome[k] = "result" => from[k] = k \/ Clash(k)

(* A call that raises an RPC error raises one that answers its request, as *)
(* README.rst:12 promises by "Implements JSON-RPC 2.0 Specification", where*)
(* a response carries the id of the request it answers.                    *)
OwnError ==
  \A k \in Calls : outcome[k] = "error" => from[k] = k \/ Clash(k)

(* The result of a call in flight is not lost, although it may come while  *)
(* send_str still waits: the call has it, or its receiver has yet to read  *)
(* it, or an error that answers no request came before it                  *)
(* (communicaton.py:60-73, client.py:167-179).                             *)
NoAnswerLost ==
  \A k \in Calls :
    open /\ pc[k] \in {"sending", "waiting"} /\ answer[k] = "result" =>
      \/ fut[k] = "result"
      \/ fut[k] = "error" /\ got[k] = None
      \/ \E j \in 1..Len(inbox[Side(k)]) :
           inbox[Side(k)][j] = Message("result", cid[k], k)
      \/ Clash(k)

(* An entry stays in pending only while its call is in flight or after it  *)
(* failed; a call that fails keeps its entry (communicaton.py:74).         *)
EntryOfCall ==
  \A k \in Calls : pc[k] # "idle" /\ ~Clash(k) =>
    (pending[Side(k)][cid[k]] = k <=> outcome[k] # "result")

-----------------------------------------------------------------------------
(* Why a call gets its own result: what the inductive invariant adds.      *)
Started(k) == pc[k] # "idle"

(* Ids of one side coincide only if a caller chose them.                   *)
Chosen(k) == k \in ClientCalls /\ cid[k] \in ExplicitIds \ {0}

IdsBelow ==
  \A k \in Calls : Started(k) =>
    cid[k] \in Ids /\ (cid[k] < nextId[Side(k)] \/ Chosen(k))

Alike(h, k) == Started(h) /\ Side(h) = Side(k) /\ cid[h] = cid[k]

IdsUnique ==
  \A h, k \in Calls : Started(k) /\ Alike(h, k) => h = k \/ Chosen(k)

(* Where a call is recorded it is known by the id it was given.            *)
PendingOwn ==
  \A s \in Sides : \A i \in Ids : \A k \in Calls :
    pending[s][i] = k => Started(k) /\ Side(k) = s /\ cid[k] = i

Authentic(s, m) ==
  /\ m.of # None => Started(m.of) /\ cid[m.of] = m.id
  /\ m.kind = "request" => m.of # None /\ Peer(m.of) = s
  /\ m.kind = "result" => m.of # None /\ Side(m.of) = s

MessagesOwn ==
  \A s \in Sides : \A j \in 1..Len(inbox[s]) : Authentic(s, inbox[s][j])

MethodsStarted == \A k \in running \cup {worker} : k \in Calls => Started(k)

FuturesOwn ==
  \A k \in Calls :
    /\ fut[k] = "none" <=> ~Started(k)
    /\ pc[k] = "waiting" => wait[k] \in Calls /\ Started(wait[k])
    /\ fut[k] = "result" => got[k] \in Calls /\ Alike(got[k], k)
    /\ outcome[k] = "result" =>
         Started(k) /\ from[k] \in Calls /\ Alike(from[k], k)

Inductive ==
  /\ TypeOK /\ IdsBelow /\ IdsUnique /\ PendingOwn
  /\ MessagesOwn /\ MethodsStarted /\ FuturesOwn

-----------------------------------------------------------------------------
(* A call with a timeout ends, whether it is answered, the answer is lost  *)
(* or the connection breaks; but the timeout starts when send_str has      *)
(* returned, so a peer that keeps the connection and does not read can hold*)
(* the call in it for ever (communicaton.py:64-68, client.py:171-174).     *)
TimedCallEnds ==
  \A k \in Timed : []<>(pc[k] \in {"idle", "done"}) \/ <>[]Held(k)

(* A call whose method returned a result ends, unless the connection       *)
(* breaks, its id is reused, or send_str never returns to it or to the call*)
(* that the worker waits for: no reader is stuck in front of the answer for*)
(* ever (client.py:61-108, rpc.py:344-348).                                *)
ResultArrives ==
  \A k \in Calls :
    \/ pc[k] # "idle" /\ answer[k] = "result"
         ~> pc[k] = "done" \/ ~open \/ Clash(k)
    \/ \E h \in Nested \cup {k} : <>[]Held(h)

-----------------------------------------------------------------------------
(* How a call looks to its caller.                                         *)
Status ==
  [k \in Calls |->
    IF pc[k] # "done" THEN IF pc[k] = "idle" THEN "idle" ELSE "asked"
    ELSE IF outcome[k] \in {"result", "error"} THEN outcome[k] ELSE "failed"]

Promise == INSTANCE RpcCall WITH status <- Status

(* Calls keep what RpcCall promises.                                       *)
KeepsPromise == Promise!Spec
=============================================================================
