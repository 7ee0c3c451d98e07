----------------------------- MODULE MCClients -----------------------------
(* Instances of ClientConnection and of Browser for TLC.  The two clients  *)
(* share nothing: in a behaviour one of them moves and the other rests, so *)
(* that the states of the two add up and do not multiply.                  *)
EXTENDS ClientConnection, TLC

CONSTANTS
  Objects, Globals, PageSockets, Topics, Strange, MaxCalls, MaxDown

VARIABLES
  moves,  \* the client that moves
  global, current, nextId, pending, handler, calls,
  pageSock, owner, up, down, subs, stored, renewed, strayed

Page == INSTANCE Browser
  WITH Sockets <- PageSockets, sock <- pageSock, astray <- strayed,
       None <- Null

ASSUME ClientsAssumption == Page!BrowserAssumption

pageVars ==
  <<global, current, nextId, pending, handler, calls, pageSock, owner, up, down,
    subs, stored, renewed, strayed>>

ClientsInit ==
  /\ Init /\ Page!Init
  /\ \/ moves = "page"
     \/ moves = "python" /\ global = Null

ClientsNext ==
  \/ moves = "python" /\ Next /\ UNCHANGED <<moves, pageVars>>
  \/ moves = "page" /\ Page!Next /\ UNCHANGED <<moves, vars>>

ClientsSpec == ClientsInit /\ [][ClientsNext]_<<moves, vars, pageVars>>

(* The handlers of a page get the answer to their own call, and one        *)
(* (rpc.js:15-21, 62-73).                                                  *)
AnswersFindTheirCall == Page!AnswersFindTheirCall

(* A page drops no notification once its subscription is confirmed, if it  *)
(* gave a handler for it (rpc.js:56-58, 140-148).                          *)
DropsExplained == Page!DropsExplained

(* Entries of pending stay for the reasons that Browser names              *)
(* (rpc.js:38, 72, 97-148).                                                *)
EntriesExplained == Page!EntriesExplained

(* The websockets of the page are named like some of the Python client's,  *)
(* which share nothing with them, so that few permutations do for both.    *)
Symmetry == Permutations(PageSockets)
=============================================================================
