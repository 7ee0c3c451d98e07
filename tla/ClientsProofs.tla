---------------------------- MODULE ClientsProofs ----------------------------
(* What BrowserProofs proves of a page holds of the page in MCClients,     *)
(* which moves when the Python client rests.                               *)
EXTENDS MCClients, TLAPS

Proved == INSTANCE BrowserProofs
  WITH Sockets <- PageSockets, sock <- pageSock, astray <- strayed,
       None <- Null

(* What MCClients assumes is what BrowserProofs asks for.                  *)
LEMMA PageAssumption == Proved!BrowserAssumption
BY ClientsAssumption DEF Page!BrowserAssumption, Proved!BrowserAssumption

(* A behaviour of the two clients is one of the page, which may rest.      *)
LEMMA PageMoves == ClientsSpec => Proved!Spec
<1>1. ClientsInit => Proved!Init
  BY DEF ClientsInit, Page!Init, Proved!Init
<1>2. ASSUME [ClientsNext]_<<moves, vars, pageVars>>
      PROVE  [Proved!Next]_(Proved!vars)
  <2>1. pageVars' = pageVars => Proved!vars' = Proved!vars
    BY DEF pageVars, Proved!vars, Proved!page, Proved!wires, Proved!server,
           Proved!history
  <2> USE DEF Page!page, Page!wires, Page!server, Page!history,
              Proved!page, Proved!wires, Proved!server, Proved!history
  <2>2. \A o \in Objects : Page!Connect(o) => Proved!Connect(o)
    BY DEF Page!Connect, Page!InUse, Proved!Connect, Proved!InUse
  <2>3. \A o \in Objects, t \in Topics \cup {Strange, Null},
            given \in BOOLEAN :
         Page!Call(o, t, given) => Proved!Call(o, t, given)
    BY DEF Page!Call, Page!IsOpen, Proved!Call, Proved!IsOpen
  <2>4. \A s \in PageSockets : Page!Opens(s) => Proved!Opens(s)
    BY DEF Page!Opens, Proved!Opens
  <2>5. \A s \in PageSockets : Page!Closes(s) => Proved!Closes(s)
    BY DEF Page!Closes, Proved!Closes
  <2>6. \A s \in PageSockets : Page!ServerCalls(s) => Proved!ServerCalls(s)
    BY DEF Page!ServerCalls, Page!IsOpen, Page!Room, Page!Delivers,
           Proved!ServerCalls, Proved!IsOpen, Proved!Room, Proved!Delivers
  <2>7. \A s \in PageSockets : \A i \in DOMAIN up[s] :
         Page!Subscribe(s, i) => Proved!Subscribe(s, i)
    BY DEF Page!Subscribe, Page!Room, Page!Delivers, Page!Notice,
           Proved!Subscribe, Proved!Room, Proved!Delivers, Proved!Notice
  <2>8. \A s \in PageSockets : \A i \in DOMAIN up[s] :
         Page!Reply(s, i) => Proved!Reply(s, i)
    BY DEF Page!Reply, Page!Room, Page!Delivers, Page!RemoveAt,
           Proved!Reply, Proved!Room, Proved!Delivers, Proved!RemoveAt
  <2>9. \A s \in PageSockets : Page!TakesRequest(s) => Proved!TakesRequest(s)
    BY DEF Page!TakesRequest, Page!Takes, Page!IsOpen,
           Proved!TakesRequest, Proved!Takes, Proved!IsOpen
  <2>10. \A s \in PageSockets : Page!TakesNotice(s) => Proved!TakesNotice(s)
    BY DEF Page!TakesNotice, Page!Takes, Page!IsOpen,
           Proved!TakesNotice, Proved!Takes, Proved!IsOpen
  <2>11. \A s \in PageSockets, type \in {"result", "error"} :
         Page!TakesAnswer(s, type) => Proved!TakesAnswer(s, type)
    BY ZenonT(60)
    DEF Page!TakesAnswer, Page!Takes, Page!IsOpen, Page!Raises,
           Page!Restrict, Proved!TakesAnswer, Proved!Takes, Proved!IsOpen,
           Proved!Raises, Proved!Restrict
  <2>12. \A t \in Topics : Page!Notify(t) => Proved!Notify(t)
    BY DEF Page!Notify, Page!IsOpen, Page!Room, Page!Notice,
           Proved!Notify, Proved!IsOpen, Proved!Room, Proved!Notice
  <2>13. Page!Next => Proved!Next
    BY <2>2, <2>3, <2>4, <2>5, <2>6, <2>7, <2>8, <2>9, <2>10,
       <2>11, <2>12 DEF Page!Next, Proved!Next
  <2> QED
    BY <1>2, <2>1, <2>13 DEF ClientsNext
<1> QED
  BY <1>1, <1>2, PTL DEF ClientsSpec, Proved!Spec

(* The handlers of the page get the answer to their own call, and one, also*)
(* over an old websocket (rpc.js:15-21, 62-73).                            *)
THEOREM FindsTheirCall == ClientsSpec => []AnswersFindTheirCall
<1>1. Proved!Spec => []Proved!AnswersFindTheirCall
  BY PageAssumption, Proved!FindsTheirCall
<1>2. Proved!AnswersFindTheirCall => AnswersFindTheirCall
  BY DEF AnswersFindTheirCall, Page!AnswersFindTheirCall,
         Proved!AnswersFindTheirCall
<1> QED
  BY <1>1, <1>2, PageMoves, PTL

(* Entries of pending stay for the reasons that Browser names              *)
(* (rpc.js:38, 72, 97-148).                                                *)
THEOREM EntriesHaveReasons == ClientsSpec => []EntriesExplained
<1>1. Proved!Spec => []Proved!EntriesExplained
  BY PageAssumption, Proved!EntriesHaveReasons
<1>2. Proved!EntriesExplained => EntriesExplained
  BY DEF EntriesExplained, Page!EntriesExplained, Proved!EntriesExplained
<1> QED
  BY <1>1, <1>2, PageMoves, PTL

(* A page drops no notification once its subscription is confirmed, if it  *)
(* gave a handler for it (rpc.js:56-58, 140-148).                          *)
THEOREM DropsHaveReasons == ClientsSpec => DropsExplained
<1>1. Proved!Spec => Proved!DropsExplained
  BY PageAssumption, Proved!DropsHaveReasons
<1>2. Proved!DropsExplained => DropsExplained
  BY DEF DropsExplained, Page!DropsExplained, Proved!DropsExplained,
         Page!IsOpen, Page!vars, Page!page, Page!wires, Page!server,
         Page!history, Proved!IsOpen, Proved!vars, Proved!page, Proved!wires,
         Proved!server, Proved!history
<1> QED
  BY <1>1, <1>2, PageMoves, PTL
=============================================================================
