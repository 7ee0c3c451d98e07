------------------------------ MODULE RpcCall ------------------------------
(* What a remote call promises its caller: the other side answers it at    *)
(* most once, and it ends with that answer, or without one.                *)
CONSTANTS Calls, None

VARIABLES
  status,  \* status[k]: how the caller of k sees it
  answer   \* answer[k]: what the other side has answered

callVars == <<status, answer>>

Init ==
  /\ status = [k \in Calls |-> "idle"]
  /\ answer = [k \in Calls |-> None]

Ask(k) ==
  /\ status[k] = "idle"
  /\ \E s \in {"asked", "failed"} : status' = [status EXCEPT ![k] = s]
  /\ UNCHANGED answer

Answer(k) ==
  /\ status[k] # "idle" /\ answer[k] = None
  /\ \E a \in {"result", "error"} : answer' = [answer EXCEPT ![k] = a]
  /\ UNCHANGED status

Conclude(k) ==
  /\ status[k] = "asked" /\ answer[k] # None
  /\ status' = [status EXCEPT ![k] = answer[k]]
  /\ UNCHANGED answer

GiveUp(k) ==
  /\ status[k] = "asked"
  /\ status' = [status EXCEPT ![k] = "failed"]
  /\ UNCHANGED answer

Next == \E k \in Calls : Ask(k) \/ Answer(k) \/ Conclude(k) \/ GiveUp(k)

Spec == Init /\ [][Next]_callVars
=============================================================================
