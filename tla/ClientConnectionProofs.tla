----------------------- MODULE ClientConnectionProofs -----------------------
(* Theorems about ClientConnection for every value of its constants, and   *)
(* the lemmas they rest on.                                                *)
EXTENDS ClientConnection, FiniteSetTheorems, TLAPS

(* Workers that have read something from a websocket, and read again.      *)
Reads(w) == worker[w].at = "receiving" \/ Busy(w)

(* The socket of a task that connects or disconnects is one.               *)
SocksNamed ==
  \A a \in Apps : Connecting(a) \/ Disconnecting(a) => app[a].sock \in Sockets

(* _ws is None from the start of a connect until it ends; a failed one is  *)
(* remembered.                                                             *)
NoneExplained ==
  ws = Null => failed \/ \E a \in Apps : app[a].at = "connecting"

(* One task at most connects or disconnects, with the websocket and the    *)
(* session that the attributes hold.                                       *)
Orderly ==
  /\ \A a \in Apps : Connecting(a) => ws = Null /\ session = app[a].sock
  /\ \A a \in Apps : Disconnecting(a) =>
       ws \in Sockets /\ app[a].sock = ws /\ sock[ws] = "closed"
  /\ \A a, b \in Apps : Connecting(a) /\ Connecting(b) => a = b
  /\ \A a, b \in Apps : Disconnecting(a) /\ Disconnecting(b) => a = b

(* Where the sessions and the websockets are that are not closed.          *)
Accounted ==
  /\ ws \in Sockets => session = ws
  /\ sess \subseteq {session} \cup replaced
  /\ ws = Null /\ (\A a \in Apps : app[a].at # "connecting")
       => session \notin sess
  /\ \A a \in Apps : app[a].at = "closingSession" => session \notin sess
  /\ \A s \in Sockets : sock[s] = "open" => s \in sess

(* One worker at most runs, and what it has read came from the websocket   *)
(* that the attribute holds.                                               *)
OneWorker ==
  /\ ~hung /\ ~astray
  /\ \A v, w \in Sockets : Running(v) /\ Running(w) => v = w
  /\ \A w \in Sockets : Reads(w) => ws \in Sockets
  /\ \A w \in Sockets :
       worker[w].at \in {"receiving", "method"} => worker[w].sock = ws
  /\ \A a \in Apps, w \in Sockets :
       app[a].at = "closingSession" => worker[w].at # "receiving"

(* What the record of a worker may be.                                     *)
Records ==
  [at : {"none", "starting", "receiving", "method", "draining", "ended"},
   sock : Sockets \cup {Absent}]

(* The inductive invariant.                                                *)
Inductive ==
  /\ TypeOK
  /\ SocksNamed
  /\ NoneExplained
  /\ ~careless => Orderly
  /\ ~careless => Accounted
  /\ ~careless /\ ~outlived => OneWorker

(* A worker that goes somewhere stays typed, and the others stay.          *)
LEMMA GoesTyped ==
  ASSUME TypeOK, NEW w \in Sockets, NEW s \in Sockets \cup {Absent},
         NEW at \in {"none", "starting", "receiving", "method", "draining",
                     "ended"},
         Goes(w, at, s)
  PROVE  /\ worker' \in [Sockets -> Records]
         /\ worker'[w] = [at |-> at, sock |-> s]
         /\ \A v \in Sockets \ {w} : worker'[v] = worker[v]
<1>1. [at |-> at, sock |-> s] \in Records
  BY DEF Records
<1>2. worker \in [Sockets -> Records]
  BY DEF TypeOK, Records
<1> QED
  BY <1>1, <1>2 DEF Goes

(* At the head of its loop a worker ends, reads the websocket of the       *)
(* attribute, or blocks the event loop.                                    *)
LEMMA LoopsEffect ==
  ASSUME TypeOK, NEW w \in Sockets, Loops(w)
  PROVE  /\ worker' \in [Sockets -> Records]
         /\ hung' \in BOOLEAN
         /\ \A v \in Sockets \ {w} : worker'[v] = worker[v]
         /\ \/ hung' = hung /\ worker'[w] = [at |-> "ended", sock |-> Absent]
            \/ /\ hung' = hung /\ ws \in Sockets /\ sock'[ws] # "closed"
               /\ worker'[w] = [at |-> "receiving", sock |-> ws]
            \/ /\ worker' = worker
               /\ \E v \in Sockets \ {w} : Receives(v, ws)
<1>1. CASE Goes(w, "ended", Absent) /\ UNCHANGED hung
  BY <1>1, GoesTyped DEF TypeOK
<1>2. CASE /\ ws \in Sockets /\ sock'[ws] # "closed"
           /\ Goes(w, "receiving", ws) /\ UNCHANGED hung
  BY <1>2, GoesTyped DEF TypeOK
<1>3. CASE /\ \E v \in Sockets \ {w} : Receives(v, ws)
           /\ hung' = TRUE /\ UNCHANGED worker
  BY <1>3 DEF TypeOK, Records
<1> QED
  BY <1>1, <1>2, <1>3 DEF Loops

(* A step keeps the types.                                                 *)
LEMMA TypeKeeps ==
  ASSUME Inductive, Next
  PROVE  TypeOK' /\ SocksNamed'
<1> USE ConnectionAssumption
      DEF Inductive, TypeOK, Records, SocksNamed, Orderly, Accounted, Idle,
         Connecting, Disconnecting, attributes, sockets, history
<1>1. ASSUME NEW a \in Apps, Connect(a) PROVE TypeOK' /\ SocksNamed'
  BY <1>1 DEF Connect, StartConnect, Awaits
<1>2. ASSUME NEW a \in Apps, Call(a) PROVE TypeOK' /\ SocksNamed'
  BY <1>2 DEF Call, StartConnect, Awaits, Sends, Rests
<1>3. ASSUME NEW a \in Apps, Connected(a) PROVE TypeOK' /\ SocksNamed'
  <2> DEFINE s == app[a].sock
  <2>1. s \in Sockets
    BY <1>3 DEF Connected
  <2>2. worker' \in [Sockets -> Records]
    <3>1. [worker[s] EXCEPT !.at = "starting"] \in Records
      BY <2>1
    <3> QED
      BY <1>3, <2>1, <3>1 DEF Connected
  <2>3. app' \in [Apps -> [at : {"idle", "connecting", "cleaning", "answer",
                                 "closing", "closingSession"},
                           op : {"none", "connect", "call", "disconnect"},
                           sock : Sockets \cup {Absent}]]
    BY <1>3, <2>1 DEF Connected, Sends, Awaits, Rests
  <2>4. careless' \/ (ws' = Absent <=> session' = Absent)
    BY <1>3, <2>1 DEF Connected
  <2>5. SocksNamed'
    BY <1>3, <2>1 DEF Connected, Sends, Awaits, Rests
  <2> QED
    BY <1>3, <2>1, <2>2, <2>3, <2>4, <2>5 DEF Connected
<1>4. ASSUME NEW a \in Apps, ConnectFails(a) PROVE TypeOK' /\ SocksNamed'
  BY <1>4 DEF ConnectFails, Awaits, Rests
<1>5. ASSUME NEW a \in Apps, GivesUp(a) PROVE TypeOK' /\ SocksNamed'
  BY <1>5 DEF GivesUp, Rests
<1>6. ASSUME NEW a \in Apps, Disconnect(a) PROVE TypeOK' /\ SocksNamed'
  BY <1>6 DEF Disconnect, Awaits
<1>7. ASSUME NEW a \in Apps, CloseSession(a) PROVE TypeOK' /\ SocksNamed'
  BY <1>7 DEF CloseSession, Awaits, Rests
<1>8. ASSUME NEW a \in Apps, Delete(a) PROVE TypeOK' /\ SocksNamed'
  BY <1>8 DEF Delete, Rests
<1>9. ASSUME NEW w \in Sockets, WorkerLoops(w) PROVE TypeOK' /\ SocksNamed'
  <2>1. worker' \in [Sockets -> Records] /\ hung' \in BOOLEAN
    BY <1>9, LoopsEffect DEF WorkerLoops
  <2> QED
    BY <1>9, <2>1 DEF WorkerLoops
<1>10. ASSUME NEW w \in Sockets, ReceivesAnswer(w) PROVE TypeOK' /\ SocksNamed'
  <2>1. worker' \in [Sockets -> Records] /\ hung' \in BOOLEAN
    BY <1>10, LoopsEffect DEF ReceivesAnswer
  <2> QED
    BY <1>10, <2>1 DEF ReceivesAnswer, Rests
<1>11. ASSUME NEW w \in Sockets, ReceivesRequest(w) PROVE TypeOK' /\
   SocksNamed'
  BY <1>11 DEF ReceivesRequest, Goes
<1>12. ASSUME NEW w \in Sockets, MethodEnds(w) PROVE TypeOK' /\ SocksNamed'
  <2>1. worker' \in [Sockets -> Records] /\ hung' \in BOOLEAN
    <3>1. CASE Loops(w)
      BY <3>1, LoopsEffect
    <3>2. CASE Goes(w, "draining", Absent) /\ UNCHANGED hung
      BY <3>2, GoesTyped
    <3> QED
      BY <1>12, <3>1, <3>2 DEF MethodEnds
  <2> QED
    BY <1>12, <2>1 DEF MethodEnds
<1>13. ASSUME NEW w \in Sockets, ReceivesClose(w) PROVE TypeOK' /\ SocksNamed'
  <2>1. worker' \in [Sockets -> Records] /\ hung' \in BOOLEAN
    BY <1>13, LoopsEffect DEF ReceivesClose
  <2> QED
    BY <1>13, <2>1 DEF ReceivesClose
<1>14. ASSUME NEW w \in Sockets, Lose(w) PROVE TypeOK' /\ SocksNamed'
  BY <1>14 DEF Lose
<1> QED
  BY <1>1, <1>2, <1>3, <1>4, <1>5, <1>6, <1>7, <1>8, <1>9, <1>10, <1>11, <1>12,
     <1>13, <1>14 DEF Next, AppStep, WorkerStep

(* None in the attribute stays explained: a connect puts it there, and     *)
(* ends by replacing it or by failing.                                     *)
LEMMA NoneKeeps ==
  ASSUME Inductive, Next
  PROVE  NoneExplained'
<1> USE ConnectionAssumption
      DEF Inductive, TypeOK, SocksNamed, NoneExplained, Idle, Connecting,
         Disconnecting, attributes, sockets, history
<1>1. ASSUME NEW a \in Apps, Connect(a) PROVE NoneExplained'
  BY <1>1 DEF Connect, StartConnect, Awaits
<1>2. ASSUME NEW a \in Apps, Call(a) PROVE NoneExplained'
  BY <1>2 DEF Call, StartConnect, Awaits, Sends, Rests
<1>3. ASSUME NEW a \in Apps, Connected(a) PROVE NoneExplained'
  BY <1>3 DEF Connected, Sends, Awaits, Rests
<1>4. ASSUME NEW a \in Apps, ConnectFails(a) PROVE NoneExplained'
  BY <1>4 DEF ConnectFails, Awaits, Rests
<1>5. ASSUME NEW a \in Apps, GivesUp(a) PROVE NoneExplained'
  BY <1>5 DEF GivesUp, Rests
<1>6. ASSUME NEW a \in Apps, Disconnect(a) PROVE NoneExplained'
  BY <1>6 DEF Disconnect, Awaits
<1>7. ASSUME NEW a \in Apps, CloseSession(a) PROVE NoneExplained'
  BY <1>7 DEF CloseSession, Awaits, Rests
<1>8. ASSUME NEW a \in Apps, Delete(a) PROVE NoneExplained'
  BY <1>8 DEF Delete, Rests
<1>9. ASSUME NEW w \in Sockets, WorkerLoops(w) PROVE NoneExplained'
  <2>1. UNCHANGED <<ws, app, failed>>
    BY <1>9 DEF WorkerLoops
  <2> QED
    BY <2>1
<1>10. ASSUME NEW w \in Sockets, ReceivesAnswer(w) PROVE NoneExplained'
  <2>1. UNCHANGED <<ws, failed>>
    BY <1>10 DEF ReceivesAnswer
  <2>2. PICK a \in Apps : app[a].at = "answer" /\ Rests(a)
    BY <1>10 DEF ReceivesAnswer
  <2> QED
    BY <2>1, <2>2 DEF Rests
<1>11. ASSUME NEW w \in Sockets, ReceivesRequest(w) PROVE NoneExplained'
  BY <1>11 DEF ReceivesRequest, Goes
<1>12. ASSUME NEW w \in Sockets, MethodEnds(w) PROVE NoneExplained'
  <2>1. UNCHANGED <<ws, app, failed>>
    BY <1>12 DEF MethodEnds
  <2> QED
    BY <2>1
<1>13. ASSUME NEW w \in Sockets, ReceivesClose(w) PROVE NoneExplained'
  <2>1. UNCHANGED <<ws, app, failed>>
    BY <1>13 DEF ReceivesClose
  <2> QED
    BY <2>1
<1>14. ASSUME NEW w \in Sockets, Lose(w) PROVE NoneExplained'
  BY <1>14 DEF Lose
<1> QED
  BY <1>1, <1>2, <1>3, <1>4, <1>5, <1>6, <1>7, <1>8, <1>9, <1>10, <1>11, <1>12,
     <1>13, <1>14 DEF Next, AppStep, WorkerStep

(* Unless the application is careless, one task at a time has to do with   *)
(* the websocket.                                                          *)
LEMMA OrderlyKeeps ==
  ASSUME Inductive, Next, ~careless'
  PROVE  Orderly'
<1> USE ConnectionAssumption
      DEF Inductive, TypeOK, SocksNamed, Orderly, Idle, Connecting,
         Disconnecting, attributes, sockets, history
<1>1. ASSUME NEW a \in Apps, Connect(a) PROVE Orderly'
  BY <1>1 DEF Connect, StartConnect, Awaits
<1>2. ASSUME NEW a \in Apps, Call(a) PROVE Orderly'
  BY <1>2 DEF Call, StartConnect, Awaits, Sends, Rests
<1>3. ASSUME NEW a \in Apps, Connected(a) PROVE Orderly'
  <2>1. \A b \in Apps : ~Disconnecting(b) /\ (Connecting(b) => b = a)
    BY <1>3 DEF Connected
  <2>2. /\ app'[a].at \notin {"connecting", "cleaning", "closing",
                              "closingSession"}
        /\ \A b \in Apps \ {a} : app'[b] = app[b]
    BY <1>3 DEF Connected, Sends, Awaits, Rests
  <2>3. \A b \in Apps : ~Connecting(b)' /\ ~Disconnecting(b)'
    BY <2>1, <2>2
  <2> QED
    BY <2>3
<1>4. ASSUME NEW a \in Apps, ConnectFails(a) PROVE Orderly'
  BY <1>4 DEF ConnectFails, Awaits, Rests
<1>5. ASSUME NEW a \in Apps, GivesUp(a) PROVE Orderly'
  BY <1>5 DEF GivesUp, Rests
<1>6. ASSUME NEW a \in Apps, Disconnect(a) PROVE Orderly'
  <2>1. \A b \in Apps : ~Connecting(b) /\ ~Disconnecting(b)
    BY <1>6 DEF Disconnect
  <2> QED
    BY <1>6, <2>1 DEF Disconnect, Awaits
<1>7. ASSUME NEW a \in Apps, CloseSession(a) PROVE Orderly'
  BY <1>7 DEF CloseSession, Awaits, Rests
<1>8. ASSUME NEW a \in Apps, Delete(a) PROVE Orderly'
  BY <1>8 DEF Delete, Rests
<1>9. ASSUME NEW w \in Sockets, WorkerLoops(w) PROVE Orderly'
  BY <1>9 DEF WorkerLoops, Loops, Goes
<1>10. ASSUME NEW w \in Sockets, ReceivesAnswer(w) PROVE Orderly'
  BY <1>10 DEF ReceivesAnswer, Loops, Goes, Rests
<1>11. ASSUME NEW w \in Sockets, ReceivesRequest(w) PROVE Orderly'
  BY <1>11 DEF ReceivesRequest, Goes
<1>12. ASSUME NEW w \in Sockets, MethodEnds(w) PROVE Orderly'
  BY <1>12 DEF MethodEnds, Loops, Goes
<1>13. ASSUME NEW w \in Sockets, ReceivesClose(w) PROVE Orderly'
  BY <1>13 DEF ReceivesClose, Loops, Goes
<1>14. ASSUME NEW w \in Sockets, Lose(w) PROVE Orderly'
  BY <1>14 DEF Lose
<1> QED
  BY <1>1, <1>2, <1>3, <1>4, <1>5, <1>6, <1>7, <1>8, <1>9, <1>10, <1>11, <1>12,
     <1>13, <1>14 DEF Next, AppStep, WorkerStep

(* Unless the application is careless, sessions and websockets stay        *)
(* accounted for.                                                          *)
LEMMA AccountedKeeps ==
  ASSUME Inductive, Next, ~careless'
  PROVE  Accounted'
<1> USE ConnectionAssumption
      DEF Inductive, TypeOK, SocksNamed, Orderly, Accounted, Idle, Connecting,
         Disconnecting, attributes, sockets, history
<1>1. ASSUME NEW a \in Apps, Connect(a) PROVE Accounted'
  BY <1>1 DEF Connect, StartConnect, Awaits
<1>2. ASSUME NEW a \in Apps, Call(a) PROVE Accounted'
  BY <1>2 DEF Call, StartConnect, Awaits, Sends, Rests
<1>3. ASSUME NEW a \in Apps, Connected(a) PROVE Accounted'
  BY <1>3 DEF Connected, Sends, Awaits, Rests
<1>4. ASSUME NEW a \in Apps, ConnectFails(a) PROVE Accounted'
  BY <1>4 DEF ConnectFails, Awaits, Rests
<1>5. ASSUME NEW a \in Apps, GivesUp(a) PROVE Accounted'
  BY <1>5 DEF GivesUp, Rests
<1>6. ASSUME NEW a \in Apps, Disconnect(a) PROVE Accounted'
  BY <1>6 DEF Disconnect, Awaits
<1>7. ASSUME NEW a \in Apps, CloseSession(a) PROVE Accounted'
  BY <1>7 DEF CloseSession, Awaits, Rests
<1>8. ASSUME NEW a \in Apps, Delete(a) PROVE Accounted'
  BY <1>8 DEF Delete, Rests
<1>9. ASSUME NEW w \in Sockets, WorkerLoops(w) PROVE Accounted'
  BY <1>9 DEF WorkerLoops, Loops, Goes
<1>10. ASSUME NEW w \in Sockets, ReceivesAnswer(w) PROVE Accounted'
  BY <1>10 DEF ReceivesAnswer, Loops, Goes, Rests
<1>11. ASSUME NEW w \in Sockets, ReceivesRequest(w) PROVE Accounted'
  BY <1>11 DEF ReceivesRequest, Goes
<1>12. ASSUME NEW w \in Sockets, MethodEnds(w) PROVE Accounted'
  BY <1>12 DEF MethodEnds, Loops, Goes
<1>13. ASSUME NEW w \in Sockets, ReceivesClose(w) PROVE Accounted'
  BY <1>13 DEF ReceivesClose, Loops, Goes
<1>14. ASSUME NEW w \in Sockets, Lose(w) PROVE Accounted'
  BY <1>14 DEF Lose
<1> QED
  BY <1>1, <1>2, <1>3, <1>4, <1>5, <1>6, <1>7, <1>8, <1>9, <1>10, <1>11, <1>12,
     <1>13, <1>14 DEF Next, AppStep, WorkerStep

(* The one worker that runs goes somewhere, and the others stay where they *)
(* are.                                                                    *)
LEMMA WorkerMoves ==
  ASSUME OneWorker, NEW w \in Sockets, Running(w),
         ~hung', ~astray', UNCHANGED <<ws, app>>,
         \A v \in Sockets \ {w} : worker'[v] = worker[v],
         Reads(w)' => ws \in Sockets,
         worker'[w].at # "method",
         worker'[w].at = "receiving" =>
           worker'[w].sock = ws /\ \A a \in Apps : app[a].at # "closingSession"
  PROVE  OneWorker'
<1>1. \A v \in Sockets \ {w} :
        ~Running(v) /\ (Running(v)' <=> Running(v)) /\ (Reads(v)' <=> Reads(v))
  BY DEF OneWorker, Running, Busy, Reads
<1>2. \A u, v \in Sockets : Running(u)' /\ Running(v)' => u = v
  BY <1>1
<1>3. \A v \in Sockets : Reads(v)' => ws' \in Sockets
  BY <1>1 DEF OneWorker
<1>4. \A v \in Sockets : worker'[v].at \in {"receiving", "method"}
                          => worker'[v].sock = ws'
  BY DEF OneWorker
<1>5. \A a \in Apps, v \in Sockets :
        app'[a].at = "closingSession" => worker'[v].at # "receiving"
  BY DEF OneWorker
<1> QED
  BY <1>2, <1>3, <1>4, <1>5 DEF OneWorker

(* A second worker starts only when the first has ended, or beside one     *)
(* that a careless application or a disconnect() left.                     *)
LEMMA OneWorkerKeeps ==
  ASSUME Inductive, Next, ~careless', ~outlived'
  PROVE  OneWorker'
<1> USE ConnectionAssumption
      DEF Inductive, TypeOK, SocksNamed, Orderly, Accounted, OneWorker, Reads,
         Running, Busy, Receives, Idle, Connecting, Disconnecting, attributes,
         sockets, history
<1>1. ASSUME NEW a \in Apps, Connect(a) PROVE OneWorker'
  BY <1>1 DEF Connect, StartConnect, Awaits
<1>2. ASSUME NEW a \in Apps, Call(a) PROVE OneWorker'
  BY <1>2 DEF Call, StartConnect, Awaits, Sends, Rests
<1>3. ASSUME NEW a \in Apps, Connected(a) PROVE OneWorker'
  BY <1>3 DEF Connected, Sends, Awaits, Rests
<1>4. ASSUME NEW a \in Apps, ConnectFails(a) PROVE OneWorker'
  BY <1>4 DEF ConnectFails, Awaits, Rests
<1>5. ASSUME NEW a \in Apps, GivesUp(a) PROVE OneWorker'
  BY <1>5 DEF GivesUp, Rests
<1>6. ASSUME NEW a \in Apps, Disconnect(a) PROVE OneWorker'
  BY <1>6 DEF Disconnect, Awaits
<1>7. ASSUME NEW a \in Apps, CloseSession(a) PROVE OneWorker'
  BY <1>7 DEF CloseSession, Awaits, Rests
<1>8. ASSUME NEW a \in Apps, Delete(a) PROVE OneWorker'
  <2>1. \A w \in Sockets : ~Busy(w) /\ worker[w].at # "receiving"
    BY <1>8 DEF Delete
  <2>2. /\ UNCHANGED worker /\ ~hung' /\ ~astray'
        /\ \A v, w \in Sockets : Running(v) /\ Running(w) => v = w
    BY <1>8 DEF Delete
  <2> QED
    BY <2>1, <2>2
<1>9. ASSUME NEW w \in Sockets, WorkerLoops(w) PROVE OneWorker'
  <2>1. Running(w)
    BY <1>9 DEF WorkerLoops
  <2>2. /\ ~hung /\ ~astray' /\ ~careless' /\ ~outlived'
        /\ UNCHANGED <<attributes, sock, sess, app>>
    BY <1>9 DEF WorkerLoops
  <2>3. /\ \A v \in Sockets \ {w} : worker'[v] = worker[v]
        /\ \/ hung' = hung /\ worker'[w] = [at |-> "ended", sock |-> Absent]
           \/ /\ hung' = hung /\ ws \in Sockets /\ sock'[ws] # "closed"
              /\ worker'[w] = [at |-> "receiving", sock |-> ws]
           \/ \E v \in Sockets \ {w} : Receives(v, ws)
    BY <1>9, LoopsEffect DEF WorkerLoops
  <2>4. ~ \E v \in Sockets \ {w} : Receives(v, ws)
    BY <1>9, <2>1 DEF WorkerLoops
  <2>5. worker'[w].at = "receiving" =>
          worker'[w].sock = ws /\ \A a \in Apps : app[a].at # "closingSession"
    BY <1>9, <2>2, <2>3, <2>4 DEF WorkerLoops
  <2>6. /\ ~hung' /\ (Reads(w)' => ws \in Sockets) /\ worker'[w].at # "method"
        /\ \A v \in Sockets \ {w} : worker'[v] = worker[v]
    BY <2>2, <2>3, <2>4
  <2>7. OneWorker
    BY <1>9 DEF WorkerLoops
  <2> QED
    BY <2>1, <2>2, <2>5, <2>6, <2>7, WorkerMoves
<1>10. ASSUME NEW w \in Sockets, ReceivesAnswer(w) PROVE OneWorker'
  BY <1>10 DEF ReceivesAnswer, Loops, Goes, Rests
<1>11. ASSUME NEW w \in Sockets, ReceivesRequest(w) PROVE OneWorker'
  BY <1>11 DEF ReceivesRequest, Goes
<1>12. ASSUME NEW w \in Sockets, MethodEnds(w) PROVE OneWorker'
  <2>1. Running(w) /\ ws \in Sockets /\ ~careless /\ ~outlived
    BY <1>12 DEF MethodEnds
  <2>2. /\ ~astray' /\ ~careless' /\ ~outlived'
        /\ UNCHANGED <<attributes, sock, sess, app>>
    BY <1>12, <2>1 DEF MethodEnds
  <2>3. ASSUME \A v \in Sockets \ {w} : worker'[v] = worker[v], ~hung',
               \/ worker'[w].at = "ended"
               \/ worker'[w].at = "draining"
               \/ /\ ws \in Sockets /\ sock'[ws] # "closed"
                  /\ worker'[w] = [at |-> "receiving", sock |-> ws]
        PROVE  OneWorker'
    <3>1. worker'[w].at = "receiving" =>
            worker'[w].sock = ws /\ \A a \in Apps : app[a].at # "closingSession"
      BY <2>1, <2>2, <2>3
    <3>2. Reads(w)' => ws \in Sockets
      BY <2>1
    <3>3. worker'[w].at # "method"
      BY <2>3
    <3> QED
      BY <2>1, <2>2, <2>3, <3>1, <3>2, <3>3, WorkerMoves
  <2>4. CASE Loops(w)
    <3>1. /\ \A v \in Sockets \ {w} : worker'[v] = worker[v]
          /\ \/ hung' = hung /\ worker'[w] = [at |-> "ended", sock |-> Absent]
             \/ /\ hung' = hung /\ ws \in Sockets /\ sock'[ws] # "closed"
                /\ worker'[w] = [at |-> "receiving", sock |-> ws]
             \/ \E v \in Sockets \ {w} : Receives(v, ws)
      BY <2>4, LoopsEffect
    <3>2. ~hung /\ ~ \E v \in Sockets \ {w} : Receives(v, ws)
      BY <2>1
    <3> QED
      BY <2>3, <3>1, <3>2
  <2>5. CASE Goes(w, "draining", Absent) /\ UNCHANGED hung
    <3>1. /\ \A v \in Sockets \ {w} : worker'[v] = worker[v]
          /\ worker'[w].at = "draining"
      BY <2>5 DEF Goes
    <3> QED
      BY <2>1, <2>3, <2>5, <3>1
  <2> QED
    BY <1>12, <2>4, <2>5 DEF MethodEnds
<1>13. ASSUME NEW w \in Sockets, ReceivesClose(w) PROVE OneWorker'
  BY <1>13 DEF ReceivesClose, Loops, Goes
<1>14. ASSUME NEW w \in Sockets, Lose(w) PROVE OneWorker'
  BY <1>14 DEF Lose
<1> QED
  BY <1>1, <1>2, <1>3, <1>4, <1>5, <1>6, <1>7, <1>8, <1>9, <1>10, <1>11, <1>12,
     <1>13, <1>14 DEF Next, AppStep, WorkerStep

(* Nothing is connected, and nothing runs, in the initial state.           *)
LEMMA InductiveInit ==
  ASSUME Init
  PROVE  Inductive
<1> USE ConnectionAssumption
    DEF Init, Idle, NoWorker, Connecting, Disconnecting
<1>1. TypeOK
  BY DEF TypeOK
<1>2. SocksNamed /\ NoneExplained
  BY DEF SocksNamed, NoneExplained
<1>3. Orderly /\ Accounted
  BY DEF Orderly, Accounted
<1>4. OneWorker
  BY DEF OneWorker, Reads, Running, Busy
<1> QED
  BY <1>1, <1>2, <1>3, <1>4 DEF Inductive

(* A step that changes nothing keeps the invariant.                        *)
LEMMA InductiveStutters ==
  ASSUME Inductive, UNCHANGED vars
  PROVE  Inductive'
  BY DEF Inductive, vars, attributes, sockets, history, TypeOK, SocksNamed,
         NoneExplained, Orderly, Accounted, OneWorker, Reads, Running, Busy,
         Connecting, Disconnecting

(* The invariant holds in every reachable state.                           *)
LEMMA InductiveAlways == Spec => []Inductive
<1>1. Init => Inductive
  BY InductiveInit
<1>2. Inductive /\ [Next]_vars => Inductive'
  <2>1. ASSUME Inductive, Next PROVE Inductive'
    BY <2>1, TypeKeeps, NoneKeeps, OrderlyKeeps, AccountedKeeps,
       OneWorkerKeeps DEF Inductive
  <2> QED
    BY <2>1, InductiveStutters
<1> QED
  BY <1>1, <1>2, PTL DEF Spec

(* Every variable has its type, and the two attributes come and go         *)
(* together.                                                               *)
THEOREM TypeCorrect == Spec => []TypeOK
<1>1. Inductive => TypeOK
  BY DEF Inductive
<1> QED
  BY <1>1, InductiveAlways, PTL

(* Calls find None in place of a websocket only while somebody connects,   *)
(* and after a connect has failed (client.py:123, 145-148, 171).           *)
THEOREM NoneIsExplained == Spec => []NoneMeansTrouble
<1>1. Inductive => NoneMeansTrouble
  BY DEF Inductive, NoneExplained, NoneMeansTrouble, Connecting
<1> QED
  BY <1>1, InductiveAlways, PTL

(* Any number of tasks that call at once lead to one connect               *)
(* (client.py:141-152).                                                    *)
THEOREM ConnectsAlone == Spec => []AutoConnectsAlone
<1>1. ASSUME Inductive, ~careless
      PROVE  Cardinality({a \in Apps : Connecting(a)}) <= 1
  <2> DEFINE C == {a \in Apps : Connecting(a)}
  <2>1. \A a, b \in C : a = b
    BY <1>1 DEF Inductive, Orderly
  <2>2. CASE C = {}
    BY <2>2, FS_EmptySet
  <2>3. CASE C # {}
    <3>1. PICK a : C = {a}
      BY <2>1, <2>3
    <3>2. Cardinality(C) = 1
      BY <3>1, FS_Singleton
    <3> QED
      BY <3>2
  <2> QED
    BY <2>2, <2>3
<1>2. Inductive => AutoConnectsAlone
  BY <1>1 DEF AutoConnectsAlone
<1> QED
  BY <1>2, InductiveAlways, PTL

(* The event loop is blocked by two workers on one websocket only if the   *)
(* application connects beside a worker or another connect, or a           *)
(* disconnect() leaves a worker behind that runs a method                  *)
(* (client.py:67-70, 139, 154-158).                                        *)
THEOREM LoopStaysAlive == Spec => []LoopAlive
<1>1. Inductive => LoopAlive
  BY DEF Inductive, OneWorker, LoopAlive
<1> QED
  BY <1>1, InductiveAlways, PTL

(* With the same exceptions the worker answers a request of the server on  *)
(* the connection it came from (client.py:62).                             *)
THEOREM AnswersStay == Spec => []AnswerOnItsConnection
<1>1. Inductive => AnswerOnItsConnection
  BY DEF Inductive, OneWorker, AnswerOnItsConnection
<1> QED
  BY <1>1, InductiveAlways, PTL

(* A client at rest holds open the session of its websocket, and those     *)
(* that a connect() without a disconnect() put aside (client.py:126-129,   *)
(* 154-158).                                                               *)
THEOREM NoLeaks == Spec => []NothingLeaks
<1>1. ASSUME Inductive, ~careless,
             \A a \in Apps : ~Connecting(a) /\ ~Disconnecting(a)
      PROVE  sess \subseteq {ws} \cup replaced
  <2>1. Accounted /\ TypeOK
    BY <1>1 DEF Inductive
  <2>2. CASE ws \in Sockets
    BY <2>1, <2>2 DEF Accounted
  <2>3. CASE ws = Null
    BY <1>1, <2>1, <2>3 DEF Accounted, Connecting
  <2>4. CASE ws = Absent
    BY <1>1, <2>1, <2>4, ConnectionAssumption DEF Accounted, TypeOK
  <2> QED
    BY <2>1, <2>2, <2>3, <2>4 DEF TypeOK
<1>2. Inductive => NothingLeaks
  BY <1>1 DEF NothingLeaks, Inductive, Accounted
<1> QED
  BY <1>2, InductiveAlways, PTL
=============================================================================
