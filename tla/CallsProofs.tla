----------------------------- MODULE CallsProofs -----------------------------
(* Theorems about Calls for every value of its constants, and the lemmas   *)
(* they rest on.                                                           *)
EXTENDS Calls, SequenceTheorems, TLAPS

USE CallsAssumption DEF Calls

(* Every call has a side and a peer.                                       *)
LEMMA SideOfCall ==
  \A k \in Calls : Side(k) \in Sides /\ Peer(k) \in Sides
BY DEF Side, Peer, Sides

(* What a step leaves alone that neither makes a call nor forgets one.     *)
Steady ==
  /\ UNCHANGED <<nextId, cid>>
  /\ \A k \in Calls : Started(k)' <=> Started(k)

(* Such a step changes nothing about ids and about who a message is from.  *)
LEMMA SteadyKeeps ==
  ASSUME Steady
  PROVE  /\ IdsBelow => IdsBelow'
         /\ IdsUnique => IdsUnique'
         /\ \A h, k \in Calls : Alike(h, k) <=> Alike(h, k)'
         /\ \A s \in Sides : \A m \in AnyMessage :
              Authentic(s, m) => Authentic(s, m)'
<1>1. /\ nextId' = nextId /\ cid' = cid
      /\ \A k \in Calls : Started(k)' <=> Started(k)
  BY DEF Steady
<1>2. \A h, k \in Calls : Alike(h, k) <=> Alike(h, k)'
  BY <1>1 DEF Alike
<1>3. IdsBelow => IdsBelow'
  BY <1>1 DEF IdsBelow, Chosen
<1>4. IdsUnique => IdsUnique'
  BY <1>1, <1>2 DEF IdsUnique, Chosen
<1>5. ASSUME NEW s \in Sides, NEW m \in AnyMessage, Authentic(s, m)
      PROVE  Authentic(s, m)'
  BY <1>1, <1>5 DEF Authentic, AnyMessage, Messages
<1> QED
  BY <1>2, <1>3, <1>4, <1>5

(* Messages stay authentic when an inbox loses messages at its front, or   *)
(* gets an authentic one.                                                  *)
LEMMA InboxKeeps ==
  ASSUME TypeOK, MessagesOwn,
         \A s \in Sides : \A m \in AnyMessage :
           Authentic(s, m) => Authentic(s, m)',
         inbox' = [s \in Sides |-> inbox'[s]],
         \A s \in Sides :
           \/ inbox'[s] = inbox[s] \/ inbox'[s] = <<>>
           \/ inbox[s] # <<>> /\ inbox'[s] = Tail(inbox[s])
           \/ \E m \in AnyMessage :
                Authentic(s, m)' /\ inbox'[s] = Append(inbox[s], m)
  PROVE  inbox' \in [Sides -> Seq(AnyMessage)] /\ MessagesOwn'
<1> SUFFICES ASSUME NEW s \in Sides
             PROVE  /\ inbox'[s] \in Seq(AnyMessage)
                    /\ \A j \in 1..Len(inbox'[s]) : Authentic(s, inbox[s][j])'
  BY DEF MessagesOwn, Authentic
<1>1. PICK q : q = inbox[s]
  OBVIOUS
<1>2. PICK r : r = inbox'[s]
  OBVIOUS
<1>3. /\ q \in Seq(AnyMessage) /\ Len(q) \in Nat
      /\ \A j \in 1..Len(q) : q[j] \in AnyMessage /\ Authentic(s, q[j])'
  <2>1. q \in Seq(AnyMessage)
    BY <1>1 DEF TypeOK
  <2>2. \A j \in 1..Len(q) : q[j] \in AnyMessage
    BY <2>1
  <2>3. \A j \in 1..Len(q) : Authentic(s, q[j])
    BY <1>1 DEF MessagesOwn
  <2> QED
    BY <2>1, <2>2, <2>3
<1>4. \/ r = q \/ r = <<>> \/ (q # <<>> /\ r = Tail(q))
      \/ \E m \in AnyMessage : Authentic(s, m)' /\ r = Append(q, m)
  BY <1>1, <1>2
<1>5. /\ r \in Seq(AnyMessage)
      /\ \A j \in 1..Len(r) : r[j] \in AnyMessage /\ Authentic(s, r[j])'
  <2>1. CASE r = q
    BY <2>1, <1>3
  <2>2. CASE r = <<>>
    BY <2>2
  <2>3. CASE q # <<>> /\ r = Tail(q)
    <3>1. r \in Seq(AnyMessage) /\ Len(r) = Len(q) - 1
      BY <2>3, <1>3, HeadTailProperties
    <3>2. \A j \in 1..Len(r) : j + 1 \in 1..Len(q) /\ r[j] = q[j + 1]
      BY <2>3, <3>1, <1>3, HeadTailProperties
    <3> QED
      BY <3>1, <3>2, <1>3
  <2>4. CASE \E m \in AnyMessage : Authentic(s, m)' /\ r = Append(q, m)
    <3>1. PICK m \in AnyMessage : Authentic(s, m)' /\ r = Append(q, m)
      BY <2>4
    <3>2. /\ r \in Seq(AnyMessage) /\ Len(r) = Len(q) + 1
          /\ \A j \in 1..Len(q) : r[j] = q[j]
          /\ r[Len(q) + 1] = m
      BY <3>1, <1>3, AppendProperties
    <3>3. \A j \in 1..Len(r) : j \in 1..Len(q) \/ j = Len(q) + 1
      BY <3>2, <1>3
    <3> QED
      BY <3>1, <3>2, <3>3, <1>3
  <2> QED
    BY <1>4, <2>1, <2>2, <2>3, <2>4
<1> QED
  BY <1>2, <1>5 DEF Authentic

(* The message at the front of an inbox is typed and authentic.            *)
LEMMA FrontMessage ==
  ASSUME TypeOK, MessagesOwn, NEW s \in Sides, inbox[s] # <<>>
  PROVE  Head(inbox[s]) \in AnyMessage /\ Authentic(s, Head(inbox[s]))
<1>1. inbox[s] \in Seq(AnyMessage) /\ Len(inbox[s]) \in Nat
  BY DEF TypeOK
<1>2. 1 \in 1..Len(inbox[s]) /\ Head(inbox[s]) = inbox[s][1]
  BY <1>1, HeadTailProperties, EmptySeq
<1> QED
  BY <1>1, <1>2 DEF MessagesOwn, Authentic

(* If nothing is sent or read, all messages stay authentic.                *)
LEMMA InboxUntouched ==
  ASSUME TypeOK, MessagesOwn, Steady, UNCHANGED inbox
  PROVE  inbox' \in [Sides -> Seq(AnyMessage)] /\ MessagesOwn'
<1>1. \A s \in Sides : \A m \in AnyMessage :
        Authentic(s, m) => Authentic(s, m)'
  BY SteadyKeeps
<1>2. inbox' = [s \in Sides |-> inbox'[s]]
  BY DEF TypeOK
<1> QED
  BY <1>1, <1>2, InboxKeeps

(* The end of a wait: the call is done, and if it has a result that is one *)
(* of a call with its side and id; pending loses at most an entry.         *)
LEMMA ReturnEffect ==
  ASSUME Inductive, NEW k \in Calls, Started(k),
         NEW f \in Calls, Started(f), Return(k, f)
  PROVE  \E how \in {"result", "error", "cancelled", "broken"},
            whose \in Calls \cup {None} :
           /\ Ends(k, how, whose)
           /\ how = "result" => whose \in Calls /\ Alike(whose, k)
           /\ pending' \in [Sides -> [Ids -> Calls \cup {None}]]
           /\ \A s \in Sides : \A i \in Ids :
                pending'[s][i] = pending[s][i] \/ pending'[s][i] = None
<1>1. Side(k) \in Sides /\ cid[k] \in Ids
  BY SideOfCall DEF Inductive, IdsBelow
<1>2. pending \in [Sides -> [Ids -> Calls \cup {None}]]
  BY DEF Inductive, TypeOK
<1>3. PICK g : g = IF fut[f] = "result" THEN pending[Side(k)][cid[k]] ELSE f
  OBVIOUS
<1>4. g \in Calls \cup {None}
  BY <1>1, <1>2, <1>3
<1>5. g \in Calls => Started(g)
  BY <1>1, <1>3 DEF Inductive, PendingOwn
<1>6. g \in Calls => /\ fut[g] \in {"pending", "result", "error", "cancelled"}
                     /\ got[g] \in Calls \cup {None}
  BY <1>5 DEF Inductive, TypeOK, FuturesOwn
<1>7. ASSUME g \in Calls, fut[g] = "result"
      PROVE  got[g] \in Calls /\ Alike(got[g], k)
  <2>1. fut[f] = "result" /\ g = pending[Side(k)][cid[k]]
    BY <1>3, <1>7
  <2>2. Side(g) = Side(k) /\ cid[g] = cid[k]
    BY <1>1, <1>7, <2>1 DEF Inductive, PendingOwn
  <2>3. got[g] \in Calls /\ Alike(got[g], g)
    BY <1>7 DEF Inductive, FuturesOwn
  <2> QED
    BY <2>2, <2>3 DEF Alike
<1>8. CASE Ends(k, "broken", None) /\ UNCHANGED pending
  BY <1>2, <1>8
<1>9. CASE /\ g # None /\ fut[g] # "pending"
           /\ Ends(k, fut[g], got[g])
           /\ pending' = IF fut[g] = "result"
                         THEN [pending EXCEPT ![Side(k)][cid[k]] = None]
                         ELSE pending
  <2>1. g \in Calls
    BY <1>4, <1>9
  <2>2. PICK how, whose : how = fut[g] /\ whose = got[g]
    OBVIOUS
  <2>3. how \in {"result", "error", "cancelled"} /\ whose \in Calls \cup {None}
    BY <1>6, <1>9, <2>1, <2>2
  <2>4. Ends(k, how, whose)
    BY <1>9, <2>2
  <2>5. how = "result" => whose \in Calls /\ Alike(whose, k)
    BY <1>7, <2>1, <2>2
  <2>6. /\ pending' \in [Sides -> [Ids -> Calls \cup {None}]]
        /\ \A s \in Sides : \A i \in Ids :
             pending'[s][i] = pending[s][i] \/ pending'[s][i] = None
    <3>1. CASE pending' = pending
      BY <1>2, <3>1
    <3>2. CASE pending' = [pending EXCEPT ![Side(k)][cid[k]] = None]
      BY <1>1, <1>2, <3>2
    <3> QED
      BY <1>9, <3>1, <3>2
  <2> QED
    BY <2>3, <2>4, <2>5, <2>6
<1> QED
  BY <1>3, <1>8, <1>9 DEF Return

(* A call that ends without a result of another keeps the invariant, if at *)
(* most an entry of pending is lost with it and a future is cancelled.     *)
LEMMA EndingKeeps ==
  ASSUME Inductive, NEW k \in Calls, Started(k),
         NEW how \in {"result", "error", "cancelled", "timeout", "lost",
                      "broken"},
         NEW whose \in Calls \cup {None},
         Ends(k, how, whose),
         how = "result" => whose \in Calls /\ Alike(whose, k),
         pending' \in [Sides -> [Ids -> Calls \cup {None}]],
         \A s \in Sides : \A i \in Ids :
           pending'[s][i] = pending[s][i] \/ pending'[s][i] = None,
         \/ fut' = fut
         \/ \E f \in Calls :
              Started(f) /\ fut' = [fut EXCEPT ![f] = "cancelled"],
         UNCHANGED <<open, inbox, got, nextId, cid, wait, methodVars>>
  PROVE  Inductive'
<1>1. /\ pc' = [pc EXCEPT ![k] = "done"]
      /\ outcome' = [outcome EXCEPT ![k] = how]
      /\ from' = [from EXCEPT ![k] = whose]
  BY DEF Ends
<1>2. TypeOK
  BY DEF Inductive
<1>3. \A h \in Calls : Started(h)' <=> Started(h)
  BY <1>1, <1>2 DEF Started, TypeOK
<1>4. Steady
  BY <1>3 DEF Steady
<1>5. /\ IdsBelow' /\ IdsUnique'
      /\ \A h, j \in Calls : Alike(h, j) <=> Alike(h, j)'
  BY <1>4, SteadyKeeps DEF Inductive
<1>6. inbox' \in [Sides -> Seq(AnyMessage)] /\ MessagesOwn'
  BY <1>4, InboxUntouched DEF Inductive
<1>7. /\ fut' \in [Calls -> {"none", "pending", "result", "error", "cancelled"}]
      /\ \A h \in Calls :
           fut'[h] = fut[h] \/ (fut'[h] = "cancelled" /\ Started(h))
  BY <1>2 DEF TypeOK
<1>8. TypeOK'
  BY <1>1, <1>2, <1>6, <1>7 DEF TypeOK, methodVars
<1>9. PendingOwn'
  BY <1>2, <1>3, <1>5 DEF Inductive, PendingOwn, Side
<1>10. MethodsStarted'
  BY <1>3 DEF Inductive, MethodsStarted, methodVars
<1>11. FuturesOwn'
  <2> SUFFICES ASSUME NEW h \in Calls
      PROVE  /\ fut'[h] = "none" <=> ~Started(h)'
             /\ pc'[h] = "waiting" => wait'[h] \in Calls /\ Started(wait[h])'
             /\ fut'[h] = "result" => got'[h] \in Calls /\ Alike(got[h], h)'
             /\ outcome'[h] = "result" =>
                  Started(h)' /\ from'[h] \in Calls /\ Alike(from[h], h)'
    BY DEF FuturesOwn
  <2>1. /\ fut[h] = "none" <=> ~Started(h)
        /\ pc[h] = "waiting" => wait[h] \in Calls /\ Started(wait[h])
        /\ fut[h] = "result" => got[h] \in Calls /\ Alike(got[h], h)
        /\ outcome[h] = "result" =>
             Started(h) /\ from[h] \in Calls /\ Alike(from[h], h)
    BY DEF Inductive, FuturesOwn
  <2>2. fut'[h] = "none" <=> ~Started(h)'
    BY <1>3, <1>7, <2>1
  <2>3. pc'[h] = "waiting" => wait'[h] \in Calls /\ Started(wait[h])'
    BY <1>1, <1>2, <1>3, <2>1 DEF TypeOK, Started
  <2>4. fut'[h] = "result" => got'[h] \in Calls /\ Alike(got[h], h)'
    BY <1>5, <1>7, <2>1 DEF Alike, Started
  <2>5. outcome'[h] = "result" =>
          Started(h)' /\ from'[h] \in Calls /\ Alike(from[h], h)'
    BY <1>1, <1>2, <1>3, <1>5, <2>1 DEF TypeOK, Alike, Started
  <2> QED
    BY <2>2, <2>3, <2>4, <2>5
<1> QED
  BY <1>5, <1>6, <1>8, <1>9, <1>10, <1>11 DEF Inductive

(* A caller that wakes up, and gets its result or an error or neither.     *)
LEMMA ReturnKeeps ==
  ASSUME Inductive, NEW k \in Calls, Started(k),
         NEW f \in Calls, Started(f), Return(k, f),
         UNCHANGED <<open, inbox, fut, got, nextId, cid, wait, methodVars>>
  PROVE  Inductive'
<1>1. PICK how \in {"result", "error", "cancelled", "broken"},
           whose \in Calls \cup {None} :
        /\ Ends(k, how, whose)
        /\ how = "result" => whose \in Calls /\ Alike(whose, k)
        /\ pending' \in [Sides -> [Ids -> Calls \cup {None}]]
        /\ \A s \in Sides : \A i \in Ids :
             pending'[s][i] = pending[s][i] \/ pending'[s][i] = None
  BY ReturnEffect
<1> QED
  BY <1>1, EndingKeeps

(* send_str returned: the call waits, or has its answer, or finds nothing. *)
LEMMA SentKeeps ==
  ASSUME Inductive, NEW k \in Calls, Sent(k)
  PROVE  Inductive'
<1>1. TypeOK /\ Started(k) /\ Side(k) \in Sides /\ cid[k] \in Ids
  BY SideOfCall DEF Inductive, Sent, Started, IdsBelow
<1>2. PICK f : f = pending[Side(k)][cid[k]]
  OBVIOUS
<1>3. f \in Calls \cup {None} /\ (f \in Calls => Started(f))
  BY <1>1, <1>2 DEF Inductive, TypeOK, PendingOwn
<1>4. UNCHANGED <<open, inbox, fut, got, nextId, cid, methodVars>>
  BY DEF Sent
<1>5. CASE /\ f # None
           /\ pc' = [pc EXCEPT ![k] = "waiting"]
           /\ wait' = [wait EXCEPT ![k] = f]
           /\ UNCHANGED <<pending, outcome, from>>
  <2>1. f \in Calls /\ Started(f)
    BY <1>3, <1>5
  <2>2. \A h \in Calls : Started(h)' <=> Started(h)
    BY <1>1, <1>5 DEF Started, TypeOK
  <2>3. Steady
    BY <1>4, <2>2 DEF Steady
  <2>4. /\ IdsBelow' /\ IdsUnique'
        /\ \A h, j \in Calls : Alike(h, j) <=> Alike(h, j)'
    BY <2>3, SteadyKeeps DEF Inductive
  <2>5. inbox' \in [Sides -> Seq(AnyMessage)] /\ MessagesOwn'
    BY <1>4, <2>3, InboxUntouched DEF Inductive
  <2>6. TypeOK'
    BY <1>1, <1>4, <1>5, <2>1, <2>5 DEF TypeOK, methodVars
  <2>7. PendingOwn'
    BY <1>4, <1>5, <2>2 DEF Inductive, PendingOwn, Side
  <2>8. MethodsStarted'
    BY <1>4, <2>2 DEF Inductive, MethodsStarted, methodVars
  <2>9. \A h \in Calls : pc'[h] = "waiting" =>
          wait'[h] \in Calls /\ Started(wait[h])'
    BY <1>1, <1>5, <2>1, <2>2 DEF Inductive, FuturesOwn, TypeOK, Started
  <2>10. FuturesOwn'
    BY <1>4, <1>5, <2>2, <2>4, <2>9 DEF Inductive, FuturesOwn, Alike, Started
  <2> QED
    BY <2>4, <2>5, <2>6, <2>7, <2>8, <2>10 DEF Inductive
<1>6. CASE /\ f # None /\ fut[f] # "pending"
           /\ Return(k, f) /\ UNCHANGED wait
  BY <1>1, <1>3, <1>4, <1>6, ReturnKeeps
<1>7. CASE Ends(k, "broken", None) /\ UNCHANGED <<pending, wait>>
  BY <1>1, <1>4, <1>7, EndingKeeps DEF TypeOK
<1> QED
  BY <1>2, <1>5, <1>6, <1>7 DEF Sent

(* A caller whose send fails.                                              *)
LEMMA SendFailsKeeps ==
  ASSUME Inductive, NEW k \in Calls, SendFails(k)
  PROVE  Inductive'
<1>1. TypeOK /\ Started(k)
  BY DEF Inductive, SendFails, Started
<1> QED
  BY <1>1, EndingKeeps DEF SendFails, TypeOK

(* A caller whose future is done.                                          *)
LEMMA WakeUpKeeps ==
  ASSUME Inductive, NEW k \in Calls, WakeUp(k)
  PROVE  Inductive'
<1>1. Started(k) /\ wait[k] \in Calls /\ Started(wait[k])
  BY DEF Inductive, WakeUp, Started, FuturesOwn
<1>2. PICK f : f = wait[k]
  OBVIOUS
<1>3. Return(k, f)
  BY <1>2 DEF WakeUp
<1> QED
  BY <1>1, <1>2, <1>3, ReturnKeeps DEF WakeUp

(* A caller whose time is up.                                              *)
LEMMA TimeoutKeeps ==
  ASSUME Inductive, NEW k \in Calls, Timeout(k)
  PROVE  Inductive'
<1>1. TypeOK /\ Started(k) /\ wait[k] \in Calls /\ Started(wait[k])
  BY DEF Inductive, Timeout, Started, FuturesOwn
<1>2. \E f \in Calls : Started(f) /\ fut' = [fut EXCEPT ![f] = "cancelled"]
  BY <1>1 DEF Timeout
<1> QED
  BY <1>1, <1>2, EndingKeeps DEF Timeout, TypeOK

(* What the steps other than those of callers may do: lose, read or send   *)
(* an authentic message at each side,                                      *)
InboxStep ==
  /\ inbox' = [s \in Sides |-> inbox'[s]]
  /\ \A s \in Sides :
       \/ inbox'[s] = inbox[s] \/ inbox'[s] = <<>>
       \/ inbox[s] # <<>> /\ inbox'[s] = Tail(inbox[s])
       \/ \E m \in AnyMessage :
            Authentic(s, m) /\ inbox'[s] = Append(inbox[s], m)

(* resolve a future by what belongs to its call,                           *)
FutureStep ==
  \/ UNCHANGED <<fut, got>>
  \/ \E f \in Calls, a \in {"result", "error"}, whose \in Calls \cup {None} :
       /\ Started(f)
       /\ fut' = [fut EXCEPT ![f] = a]
       /\ got' = [got EXCEPT ![f] = whose]
       /\ a = "result" => whose \in Calls /\ Alike(whose, f)

(* and start and end methods of calls that were made.                      *)
MethodStep ==
  /\ open' \in BOOLEAN
  /\ running' \subseteq ClientCalls
  /\ worker' \in ServerCalls \cup {None, "stopped"}
  /\ \A k \in Calls : k \in running' \/ k = worker' => Started(k)
  /\ answer' \in [Calls -> {"result", "error", None}]

(* Such steps keep the invariant.                                          *)
LEMMA ReceivingKeeps ==
  ASSUME Inductive, UNCHANGED <<pending, pc, callerVars>>,
         InboxStep, FutureStep, MethodStep
  PROVE  Inductive'
<1>1. TypeOK
  BY DEF Inductive
<1>2. /\ nextId' = nextId /\ cid' = cid /\ wait' = wait
      /\ outcome' = outcome /\ from' = from /\ pc' = pc /\ pending' = pending
  BY DEF callerVars
<1>3. \A k \in Calls : Started(k)' <=> Started(k)
  BY <1>2 DEF Started
<1>4. Steady
  BY <1>2, <1>3 DEF Steady
<1>5. /\ IdsBelow' /\ IdsUnique'
      /\ \A h, j \in Calls : Alike(h, j) <=> Alike(h, j)'
      /\ \A s \in Sides : \A m \in AnyMessage :
           Authentic(s, m) => Authentic(s, m)'
  BY <1>4, SteadyKeeps DEF Inductive
<1>6. inbox' \in [Sides -> Seq(AnyMessage)] /\ MessagesOwn'
  <2>1. \A s \in Sides :
          \/ inbox'[s] = inbox[s] \/ inbox'[s] = <<>>
          \/ inbox[s] # <<>> /\ inbox'[s] = Tail(inbox[s])
          \/ \E m \in AnyMessage :
               Authentic(s, m)' /\ inbox'[s] = Append(inbox[s], m)
    BY <1>5 DEF InboxStep
  <2> QED
    BY <1>5, <2>1, InboxKeeps DEF Inductive, InboxStep
<1>7. /\ fut' \in [Calls -> {"none", "pending", "result", "error", "cancelled"}]
      /\ got' \in [Calls -> Calls \cup {None}]
      /\ \A h \in Calls : (fut'[h] = "none") <=> (fut[h] = "none")
      /\ \A h \in Calls : fut'[h] = "result" =>
           got'[h] \in Calls /\ \A g \in Calls : g = got'[h] => Alike(g, h)
  <2>1. CASE UNCHANGED <<fut, got>>
    BY <1>1, <2>1 DEF Inductive, TypeOK, FuturesOwn
  <2>2. CASE ~UNCHANGED <<fut, got>>
    <3>1. PICK f \in Calls, a \in {"result", "error"},
               whose \in Calls \cup {None} :
            /\ Started(f)
            /\ fut' = [fut EXCEPT ![f] = a]
            /\ got' = [got EXCEPT ![f] = whose]
            /\ a = "result" => whose \in Calls /\ Alike(whose, f)
      BY <2>2 DEF FutureStep
    <3>2. fut[f] # "none"
      BY <3>1 DEF Inductive, FuturesOwn
    <3> QED
      BY <1>1, <3>1, <3>2 DEF Inductive, TypeOK, FuturesOwn
  <2> QED
    BY <2>1, <2>2
<1>8. TypeOK'
  BY <1>1, <1>2, <1>6, <1>7 DEF TypeOK, MethodStep
<1>9. PendingOwn'
  BY <1>2, <1>3 DEF Inductive, PendingOwn
<1>10. MethodsStarted'
  BY <1>2 DEF MethodsStarted, MethodStep, Started
<1>11. FuturesOwn'
  BY <1>2, <1>3, <1>5, <1>7 DEF Inductive, FuturesOwn, Alike, Started
<1> QED
  BY <1>5, <1>6, <1>8, <1>9, <1>10, <1>11 DEF Inductive

(* The message that a result or an error resolves a future with belongs to *)
(* the call whose future it is.                                            *)
LEMMA ResolveEffect ==
  ASSUME Inductive, NEW s \in Sides, NEW m \in AnyMessage, Authentic(s, m),
         m.kind # "request", Resolve(s, m)
  PROVE  FutureStep
<1>1. /\ m.id \in Ids /\ m.of \in Calls \cup {None}
      /\ m.kind \in {"result", "error"}
  BY DEF AnyMessage, Messages
<1>2. PICK f : f = pending[s][m.id]
  OBVIOUS
<1>3. f \in Calls \cup {None}
  BY <1>1, <1>2 DEF Inductive, TypeOK
<1>4. CASE /\ f # None /\ fut[f] = "pending"
           /\ fut' = [fut EXCEPT ![f] = m.kind]
           /\ got' = [got EXCEPT ![f] = m.of]
  <2>1. f \in Calls /\ Started(f) /\ Side(f) = s /\ cid[f] = m.id
    BY <1>1, <1>2, <1>3, <1>4 DEF Inductive, PendingOwn
  <2>2. m.kind = "result" => m.of \in Calls /\ Alike(m.of, f)
    BY <1>1, <2>1 DEF Authentic, Alike
  <2>3. PICK a, whose : a = m.kind /\ whose = m.of
    OBVIOUS
  <2> QED
    BY <1>1, <1>4, <2>1, <2>2, <2>3 DEF FutureStep
<1> QED
  BY <1>2, <1>4 DEF Resolve, FutureStep

(* A message that is read is typed and authentic.                          *)
LEMMA TakenEffect ==
  ASSUME Inductive, NEW s \in Sides, Taken(s)
  PROVE  /\ InboxStep
         /\ Head(inbox[s]) \in AnyMessage /\ Authentic(s, Head(inbox[s]))
<1>1. Head(inbox[s]) \in AnyMessage /\ Authentic(s, Head(inbox[s]))
  BY FrontMessage DEF Inductive, Taken
<1>2. /\ inbox' = [inbox EXCEPT ![s] = Tail(@)] /\ inbox[s] # <<>>
      /\ inbox = [t \in Sides |-> inbox[t]]
  BY DEF Inductive, TypeOK, Taken
<1>3. InboxStep
  BY <1>2 DEF InboxStep
<1> QED
  BY <1>1, <1>3

(* An authentic message is sent, if the connection is up.                  *)
LEMMA SendEffect ==
  ASSUME TypeOK, NEW s \in Sides, NEW m \in AnyMessage, Authentic(s, m),
         Send(s, m)
  PROVE  InboxStep
<1>1. inbox = [t \in Sides |-> inbox[t]]
  BY DEF TypeOK
<1>2. inbox' = inbox \/ inbox' = [inbox EXCEPT ![s] = Append(@, m)]
  BY DEF Send
<1>3. /\ inbox' = [t \in Sides |-> inbox'[t]]
      /\ \A t \in Sides : \/ inbox'[t] = inbox[t]
                          \/ t = s /\ inbox'[t] = Append(inbox[t], m)
  BY <1>1, <1>2
<1> QED
  BY <1>3 DEF InboxStep

(* A side reads one message and writes an authentic one to the other.      *)
LEMMA ReplyEffect ==
  ASSUME TypeOK, NEW s \in Sides, NEW t \in Sides, s # t, inbox[s] # <<>>,
         NEW m \in AnyMessage, Authentic(t, m),
         inbox' = [inbox EXCEPT ![s] = Tail(@), ![t] = Append(@, m)]
  PROVE  InboxStep
<1>1. inbox = [u \in Sides |-> inbox[u]]
  BY DEF TypeOK
<1>2. /\ inbox' = [u \in Sides |-> inbox'[u]]
      /\ \A u \in Sides : \/ inbox'[u] = inbox[u]
                          \/ u = s /\ inbox'[u] = Tail(inbox[u])
                          \/ u = t /\ inbox'[u] = Append(inbox[u], m)
  BY <1>1
<1> QED
  BY <1>2 DEF InboxStep

(* A step that leaves the methods alone.                                   *)
LEMMA MethodsUntouched ==
  ASSUME Inductive, UNCHANGED <<open, methodVars>>
  PROVE  MethodStep
BY DEF Inductive, TypeOK, MethodsStarted, MethodStep, methodVars

(* The server starts the method of a request.                              *)
LEMMA ServerGetsRequestKeeps ==
  ASSUME Inductive, ServerGetsRequest
  PROVE  Inductive'
<1> "server" \in Sides
  BY DEF Sides
<1>1. PICK m : m = Head(inbox["server"])
  OBVIOUS
<1>2. /\ Taken("server") /\ m.kind = "request"
      /\ running' = running \cup {m.of}
      /\ UNCHANGED <<open, pending, fut, got, pc, callerVars, worker, answer>>
  BY <1>1 DEF ServerGetsRequest
<1>3. InboxStep /\ m \in AnyMessage /\ Authentic("server", m)
  BY <1>1, <1>2, TakenEffect
<1>4. m.of \in ClientCalls /\ Started(m.of)
  BY <1>2, <1>3 DEF AnyMessage, Messages, Authentic, Peer
<1>5. MethodStep
  BY <1>2, <1>4 DEF Inductive, TypeOK, MethodsStarted, MethodStep
<1>6. FutureStep
  BY <1>2 DEF FutureStep
<1> QED
  BY <1>2, <1>3, <1>5, <1>6, ReceivingKeeps

(* The server resolves a call by its result.                               *)
LEMMA ServerGetsResultKeeps ==
  ASSUME Inductive, ServerGetsResult
  PROVE  Inductive'
<1> "server" \in Sides
  BY DEF Sides
<1>1. PICK m : m = Head(inbox["server"])
  OBVIOUS
<1>2. /\ Taken("server") /\ m.kind = "result" /\ Resolve("server", m)
      /\ UNCHANGED <<open, pending, pc, callerVars, methodVars>>
  BY <1>1 DEF ServerGetsResult
<1>3. InboxStep /\ m \in AnyMessage /\ Authentic("server", m)
  BY <1>1, <1>2, TakenEffect
<1>4. FutureStep
  BY <1>2, <1>3, ResolveEffect
<1>5. MethodStep
  BY <1>2, MethodsUntouched
<1> QED
  BY <1>2, <1>3, <1>4, <1>5, ReceivingKeeps

(* The server answers an error by an error of nobody's.                    *)
LEMMA ServerGetsErrorKeeps ==
  ASSUME Inductive, ServerGetsError
  PROVE  Inductive'
<1> "server" \in Sides /\ "client" \in Sides /\ "server" # "client" /\ TypeOK
  BY DEF Sides, Inductive
<1>1. PICK m : m = Message("error", Head(inbox["server"]).id, None)
  OBVIOUS
<1>2. /\ inbox["server"] # <<>>
      /\ inbox' = [inbox EXCEPT !["server"] = Tail(@),
                                  !["client"] = Append(@, m)]
      /\ UNCHANGED <<open, pending, fut, got, pc, callerVars, methodVars>>
  BY <1>1 DEF ServerGetsError
<1>3. m \in AnyMessage /\ Authentic("client", m)
  <2>1. Head(inbox["server"]) \in AnyMessage
    BY <1>2, FrontMessage DEF Inductive
  <2> QED
    BY <1>1, <2>1 DEF AnyMessage, Messages, Message, Authentic
<1>4. InboxStep
  BY <1>2, <1>3, ReplyEffect
<1>5. FutureStep /\ MethodStep
  BY <1>2, MethodsUntouched DEF FutureStep
<1> QED
  BY <1>2, <1>4, <1>5, ReceivingKeeps

(* A method of the server ends and its answer is sent.                     *)
LEMMA ServerRepliesKeeps ==
  ASSUME Inductive, NEW k \in ClientCalls, NEW a \in {"result", "error"},
         ServerReplies(k, a)
  PROVE  Inductive'
<1> "client" \in Sides /\ TypeOK
  BY DEF Sides, Inductive
<1>1. PICK m : m = Message(a, cid[k], k)
  OBVIOUS
<1>2. /\ k \in running /\ running' = running \ {k}
      /\ answer' = [answer EXCEPT ![k] = a]
      /\ Send("client", m)
      /\ UNCHANGED <<open, pending, fut, got, pc, callerVars, worker>>
  BY <1>1 DEF ServerReplies
<1>3. Started(k) /\ cid[k] \in Ids /\ Side(k) = "client"
  BY <1>2 DEF Inductive, MethodsStarted, IdsBelow, Side
<1>4. m \in AnyMessage /\ Authentic("client", m)
  BY <1>1, <1>3 DEF AnyMessage, Messages, Message, Authentic
<1>5. InboxStep
  BY <1>2, <1>4, SendEffect
<1>6. FutureStep /\ MethodStep
  BY <1>2 DEF FutureStep, MethodStep, Inductive, TypeOK, MethodsStarted
<1> QED
  BY <1>2, <1>5, <1>6, ReceivingKeeps

(* The client's worker starts the method of a request.                     *)
LEMMA ClientGetsRequestKeeps ==
  ASSUME Inductive, ClientGetsRequest
  PROVE  Inductive'
<1> "client" \in Sides
  BY DEF Sides
<1>1. PICK m : m = Head(inbox["client"])
  OBVIOUS
<1>2. /\ Taken("client") /\ m.kind = "request" /\ worker' = m.of
      /\ UNCHANGED <<open, pending, fut, got, pc, callerVars, running, answer>>
  BY <1>1 DEF ClientGetsRequest
<1>3. InboxStep /\ m \in AnyMessage /\ Authentic("client", m)
  BY <1>1, <1>2, TakenEffect
<1>4. m.of \in ServerCalls /\ Started(m.of)
  BY <1>2, <1>3 DEF AnyMessage, Messages, Authentic, Peer
<1>5. FutureStep /\ MethodStep
  BY <1>2, <1>4 DEF FutureStep, MethodStep, Inductive, TypeOK, MethodsStarted
<1> QED
  BY <1>2, <1>3, <1>5, ReceivingKeeps

(* The client rejects a request.                                           *)
LEMMA ClientRejectsKeeps ==
  ASSUME Inductive, ClientRejects
  PROVE  Inductive'
<1> "server" \in Sides /\ "client" \in Sides /\ "server" # "client" /\ TypeOK
  BY DEF Sides, Inductive
<1>1. PICK q : q = Head(inbox["client"])
  OBVIOUS
<1>2. PICK m : m = Message("error", q.id, q.of)
  OBVIOUS
<1>3. /\ inbox["client"] # <<>> /\ q.kind = "request"
      /\ inbox' = [inbox EXCEPT !["client"] = Tail(@),
                                  !["server"] = Append(@, m)]
      /\ answer' = [answer EXCEPT ![q.of] = "error"]
      /\ UNCHANGED <<open, pending, fut, got, pc, callerVars, running, worker>>
  BY <1>1, <1>2 DEF ClientRejects
<1>4. q \in AnyMessage /\ Authentic("client", q)
  BY <1>1, <1>3, FrontMessage DEF Inductive
<1>5. m \in AnyMessage /\ Authentic("server", m)
  BY <1>2, <1>4 DEF AnyMessage, Messages, Message, Authentic
<1>6. InboxStep
  BY <1>3, <1>5, ReplyEffect
<1>7. FutureStep /\ MethodStep
  BY <1>3 DEF FutureStep, MethodStep, Inductive, TypeOK, MethodsStarted
<1> QED
  BY <1>3, <1>6, <1>7, ReceivingKeeps

(* The client resolves a call by its answer.                               *)
LEMMA ClientGetsAnswerKeeps ==
  ASSUME Inductive, ClientGetsAnswer
  PROVE  Inductive'
<1> "client" \in Sides
  BY DEF Sides
<1>1. PICK m : m = Head(inbox["client"])
  OBVIOUS
<1>2. /\ Taken("client") /\ m.kind # "request" /\ Resolve("client", m)
      /\ UNCHANGED <<open, pending, pc, callerVars, methodVars>>
  BY <1>1 DEF ClientGetsAnswer
<1>3. InboxStep /\ m \in AnyMessage /\ Authentic("client", m)
  BY <1>1, <1>2, TakenEffect
<1>4. FutureStep /\ MethodStep
  BY <1>2, <1>3, ResolveEffect, MethodsUntouched
<1> QED
  BY <1>2, <1>3, <1>4, ReceivingKeeps

(* The method that the worker awaits ends, with a result or without.       *)
LEMMA MethodEndsKeeps ==
  ASSUME Inductive, MethodEnds
  PROVE  Inductive'
<1> "server" \in Sides /\ TypeOK
  BY DEF Sides, Inductive
<1>1. /\ worker \in ServerCalls /\ worker' = None
      /\ UNCHANGED <<open, pending, fut, got, pc, callerVars, running>>
  BY DEF MethodEnds
<1>2. Started(worker) /\ cid[worker] \in Ids /\ Side(worker) = "server"
  BY <1>1 DEF Inductive, MethodsStarted, IdsBelow, Side
<1>3. PICK m : m = Message("result", cid[worker], worker)
  OBVIOUS
<1>4. m \in AnyMessage /\ Authentic("server", m)
  BY <1>1, <1>2, <1>3 DEF AnyMessage, Messages, Message, Authentic
<1>5. CASE /\ answer' = [answer EXCEPT ![worker] = "result"]
           /\ Send("server", m)
  <2>1. InboxStep
    BY <1>4, <1>5, SendEffect
  <2>2. FutureStep /\ MethodStep
    BY <1>1, <1>5 DEF FutureStep, MethodStep, Inductive, TypeOK, MethodsStarted
  <2> QED
    BY <1>1, <2>1, <2>2, ReceivingKeeps
<1>6. CASE UNCHANGED <<answer, inbox>>
  <2>1. InboxStep /\ FutureStep
    BY <1>1, <1>6 DEF InboxStep, FutureStep, TypeOK
  <2>2. MethodStep
    BY <1>1, <1>6 DEF MethodStep, Inductive, TypeOK, MethodsStarted
  <2> QED
    BY <1>1, <2>1, <2>2, ReceivingKeeps
<1> QED
  BY <1>3, <1>5, <1>6 DEF MethodEnds

(* The worker stops.                                                       *)
LEMMA WorkerStopsKeeps ==
  ASSUME Inductive, WorkerStops
  PROVE  Inductive'
<1>1. InboxStep /\ FutureStep
  BY DEF WorkerStops, InboxStep, FutureStep, Inductive, TypeOK
<1>2. MethodStep
  BY DEF WorkerStops, MethodStep, Inductive, TypeOK, MethodsStarted
<1> QED
  BY <1>1, <1>2, ReceivingKeeps DEF WorkerStops

(* The connection breaks.                                                  *)
LEMMA LoseKeeps ==
  ASSUME Inductive, Lose
  PROVE  Inductive'
<1>1. InboxStep /\ FutureStep
  BY DEF Lose, InboxStep, FutureStep
<1>2. MethodStep
  BY DEF Lose, MethodStep, Inductive, TypeOK, MethodsStarted, methodVars
<1> QED
  BY <1>1, <1>2, ReceivingKeeps DEF Lose

(* The id of a new call is its own, or was chosen by its caller.           *)
LEMMA AssignIdEffect ==
  ASSUME Inductive, NEW k \in Calls, NEW x \in ExplicitIds \cup {None},
         x # None => k \in ClientCalls, AssignId(k, x)
  PROVE  \E i \in Ids :
           /\ cid' = [cid EXCEPT ![k] = i]
           /\ nextId' \in [Sides -> 0..(MaxId + 1)]
           /\ \A s \in Sides : nextId[s] <= nextId'[s]
           /\ \/ i = nextId[Side(k)] /\ i < nextId'[Side(k)]
              \/ k \in ClientCalls /\ i \in ExplicitIds \ {0}
<1>1. nextId \in [Sides -> 0..(MaxId + 1)] /\ MaxId \in Nat /\ Side(k) \in Sides
  BY SideOfCall DEF Inductive, TypeOK
<1>2. CASE /\ x \notin {None, 0}
           /\ cid' = [cid EXCEPT ![k] = x]
           /\ UNCHANGED nextId
  <2>1. x \in ExplicitIds \ {0} /\ x \in Ids /\ k \in ClientCalls
    BY <1>2
  <2>2. \A s \in Sides : nextId[s] <= nextId'[s]
    BY <1>1, <1>2
  <2> QED
    BY <1>1, <1>2, <2>1, <2>2
<1>3. CASE /\ nextId[Side(k)] <= MaxId
           /\ cid' = [cid EXCEPT ![k] = nextId[Side(k)]]
           /\ nextId' = [nextId EXCEPT ![Side(k)] = @ + 1]
  <2>1. PICK i : i = nextId[Side(k)]
    OBVIOUS
  <2>2. /\ i \in Ids
        /\ nextId' = [nextId EXCEPT ![Side(k)] = i + 1]
    BY <1>1, <1>3, <2>1 DEF Ids
  <2>3. /\ nextId' \in [Sides -> 0..(MaxId + 1)]
        /\ \A s \in Sides : nextId[s] <= nextId'[s]
        /\ i < nextId'[Side(k)]
    BY <1>1, <1>3, <2>1, <2>2 DEF Ids
  <2> QED
    BY <1>3, <2>1, <2>2, <2>3
<1> QED
  BY <1>2, <1>3 DEF AssignId

(* A call is made.                                                         *)
LEMMA CallKeeps ==
  ASSUME Inductive, NEW k \in Calls, NEW x \in ExplicitIds \cup {None},
         Call(k, x)
  PROVE  Inductive'
<1>1. TypeOK /\ ~Started(k) /\ Side(k) \in Sides /\ Peer(k) \in Sides
  BY SideOfCall DEF Inductive, Call, Started
<1>2. PICK i \in Ids :
        /\ cid' = [cid EXCEPT ![k] = i]
        /\ nextId' \in [Sides -> 0..(MaxId + 1)]
        /\ \A s \in Sides : nextId[s] <= nextId'[s]
        /\ \/ i = nextId[Side(k)] /\ i < nextId'[Side(k)]
           \/ k \in ClientCalls /\ i \in ExplicitIds \ {0}
  BY AssignIdEffect DEF Call
<1>3. cid'[k] = i /\ \A h \in Calls \ {k} : cid'[h] = cid[h]
  BY <1>1, <1>2 DEF TypeOK
<1>4. /\ pending' = [pending EXCEPT ![Side(k)][i] = k]
      /\ fut' = [fut EXCEPT ![k] = "pending"]
      /\ UNCHANGED <<open, got, wait, methodVars>>
  BY <1>3 DEF Call, Register
<1>5. \/ /\ pc' = [pc EXCEPT ![k] = "sending"]
         /\ Send(Peer(k), Message("request", i, k))
         /\ UNCHANGED <<outcome, from>>
      \/ /\ pc' = [pc EXCEPT ![k] = "done"]
         /\ outcome' = [outcome EXCEPT ![k] = "lost"]
         /\ from' = [from EXCEPT ![k] = None]
         /\ UNCHANGED inbox
  BY <1>3 DEF Call, Ends
<1>6. Started(k)' /\ \A h \in Calls \ {k} : Started(h)' <=> Started(h)
  BY <1>1, <1>5 DEF Started, TypeOK
<1>7. \A h, j \in Calls \ {k} : Alike(h, j)' <=> Alike(h, j)
  BY <1>3, <1>6 DEF Alike
<1>8. \A s \in Sides : \A m \in AnyMessage :
        Authentic(s, m) => Authentic(s, m)'
  <2> SUFFICES ASSUME NEW s \in Sides, NEW m \in AnyMessage, Authentic(s, m)
               PROVE  Authentic(s, m)'
    OBVIOUS
  <2>1. m.of \in Calls \cup {None}
    BY DEF AnyMessage, Messages
  <2>2. m.of # None => m.of # k
    BY <1>1 DEF Authentic
  <2> QED
    BY <1>3, <1>6, <2>1, <2>2 DEF Authentic
<1>9. inbox' \in [Sides -> Seq(AnyMessage)] /\ MessagesOwn'
  <2>1. PICK m : m = Message("request", i, k)
    OBVIOUS
  <2>2. m \in AnyMessage
    BY <2>1 DEF AnyMessage, Messages, Message
  <2>3. Authentic(Peer(k), m)'
    BY <1>3, <1>6, <2>1 DEF Authentic, Message
  <2>4. inbox = [s \in Sides |-> inbox[s]]
    BY <1>1 DEF TypeOK
  <2>5. inbox' = inbox \/ inbox' = [inbox EXCEPT ![Peer(k)] = Append(@, m)]
    BY <1>5, <2>1 DEF Send
  <2>6. /\ inbox' = [s \in Sides |-> inbox'[s]]
        /\ \A s \in Sides :
             \/ inbox'[s] = inbox[s]
             \/ s = Peer(k) /\ inbox'[s] = Append(inbox[s], m)
    BY <2>4, <2>5
  <2>7. \A s \in Sides :
          \/ inbox'[s] = inbox[s]
          \/ \E n \in AnyMessage :
               Authentic(s, n)' /\ inbox'[s] = Append(inbox[s], n)
    BY <2>2, <2>3, <2>6 DEF Authentic
  <2> QED
    BY <1>1, <1>8, <2>6, <2>7, InboxKeeps DEF Inductive
<1>10. TypeOK'
  <2>1. pending' \in [Sides -> [Ids -> Calls \cup {None}]]
    BY <1>1, <1>4 DEF TypeOK
  <2>2. /\ pc' \in [Calls -> {"idle", "sending", "waiting", "done"}]
        /\ outcome' \in [Calls -> {"result", "error", "cancelled", "timeout",
                                   "lost", "broken", "none"}]
        /\ from' \in [Calls -> Calls \cup {None}]
    <3>1. /\ pc \in [Calls -> {"idle", "sending", "waiting", "done"}]
          /\ outcome \in [Calls -> {"result", "error", "cancelled", "timeout",
                                    "lost", "broken", "none"}]
          /\ from \in [Calls -> Calls \cup {None}]
      BY <1>1 DEF TypeOK
    <3>2. CASE /\ pc' = [pc EXCEPT ![k] = "sending"]
               /\ UNCHANGED <<outcome, from>>
      BY <3>1, <3>2
    <3>3. CASE /\ pc' = [pc EXCEPT ![k] = "done"]
               /\ outcome' = [outcome EXCEPT ![k] = "lost"]
               /\ from' = [from EXCEPT ![k] = None]
      BY <3>1, <3>3
    <3> QED
      BY <1>5, <3>2, <3>3
  <2>3. cid' \in [Calls -> Ids \cup {None}]
    BY <1>1, <1>2 DEF TypeOK
  <2>4. fut' \in [Calls -> {"none", "pending", "result", "error", "cancelled"}]
    BY <1>1, <1>4 DEF TypeOK
  <2>5. /\ open' = open /\ got' = got /\ wait' = wait
        /\ running' = running /\ worker' = worker /\ answer' = answer
    BY <1>4 DEF methodVars
  <2> QED
    BY <1>1, <1>2, <1>9, <2>1, <2>2, <2>3, <2>4, <2>5 DEF TypeOK
<1>11. IdsBelow'
  <2>1. ASSUME NEW h \in Calls \ {k}, Started(h)
        PROVE  cid'[h] \in Ids /\ (cid'[h] < nextId'[Side(h)] \/ Chosen(h)')
    <3>1. /\ cid[h] \in Ids /\ cid'[h] = cid[h]
          /\ cid[h] < nextId[Side(h)] \/ Chosen(h)
      BY <1>3, <2>1 DEF Inductive, IdsBelow
    <3>2. nextId[Side(h)] <= nextId'[Side(h)] /\ Side(h) \in Sides
      BY <1>2, SideOfCall
    <3>3. /\ nextId[Side(h)] \in Int /\ nextId'[Side(h)] \in Int
          /\ cid[h] \in Int
      BY <1>1, <1>2, <3>1, <3>2 DEF TypeOK, Ids
    <3> QED
      BY <3>1, <3>2, <3>3 DEF Chosen
  <2>2. cid'[k] \in Ids /\ (cid'[k] < nextId'[Side(k)] \/ Chosen(k)')
    BY <1>2, <1>3 DEF Chosen
  <2> QED
    BY <1>6, <2>1, <2>2 DEF IdsBelow, Side
<1>12. IdsUnique'
  <2>1. ASSUME NEW h \in Calls \ {k}, Started(h), Side(h) = Side(k), cid[h] = i
        PROVE  h \in ClientCalls /\ k \in ClientCalls /\ i \in ExplicitIds \ {0}
    <3>1. h \in ClientCalls <=> k \in ClientCalls
      BY <2>1 DEF Side
    <3>2. cid[h] < nextId[Side(h)] \/ Chosen(h)
      BY <2>1 DEF Inductive, IdsBelow
    <3>3. nextId[Side(k)] \in Int
      BY <1>1 DEF TypeOK
    <3> QED
      BY <1>2, <2>1, <3>1, <3>2, <3>3 DEF Chosen
  <2>2. ASSUME NEW h \in Calls, NEW j \in Calls, h # j,
               Started(j)', Alike(h, j)'
        PROVE  Chosen(j)'
    <3>1. CASE h # k /\ j # k
      BY <1>3, <1>6, <1>7, <2>2, <3>1 DEF Inductive, IdsUnique, Chosen
    <3>2. CASE j = k
      BY <1>3, <1>6, <2>1, <2>2, <3>2 DEF Alike, Chosen
    <3>3. CASE h = k
      BY <1>3, <1>6, <2>1, <2>2, <3>3 DEF Alike, Chosen
    <3> QED
      BY <3>1, <3>2, <3>3
  <2> QED
    BY <2>2 DEF IdsUnique
<1>13. PendingOwn'
  <2> SUFFICES ASSUME NEW s \in Sides, NEW j \in Ids, NEW h \in Calls,
                      pending'[s][j] = h
               PROVE  Started(h)' /\ Side(h) = s /\ cid'[h] = j
    BY DEF PendingOwn, Side
  <2>1. CASE s = Side(k) /\ j = i
    BY <1>1, <1>3, <1>4, <1>6, <2>1 DEF TypeOK
  <2>2. CASE ~(s = Side(k) /\ j = i)
    <3>1. pending[s][j] = h
      BY <1>1, <1>4, <2>2 DEF TypeOK
    <3>2. Started(h) /\ Side(h) = s /\ cid[h] = j
      BY <3>1 DEF Inductive, PendingOwn
    <3> QED
      BY <1>1, <1>3, <1>6, <3>2
  <2> QED
    BY <2>1, <2>2
<1>14. MethodsStarted'
  BY <1>4, <1>6 DEF Inductive, MethodsStarted, methodVars
<1>15. FuturesOwn'
  <2>1. ASSUME NEW h \in Calls \ {k}
        PROVE  /\ fut'[h] = "none" <=> ~Started(h)'
               /\ pc'[h] = "waiting" => wait'[h] \in Calls /\ Started(wait[h])'
               /\ fut'[h] = "result" => got'[h] \in Calls /\ Alike(got[h], h)'
               /\ outcome'[h] = "result" =>
                    Started(h)' /\ from'[h] \in Calls /\ Alike(from[h], h)'
    <3>1. /\ fut[h] = "none" <=> ~Started(h)
          /\ pc[h] = "waiting" => wait[h] \in Calls /\ Started(wait[h])
          /\ fut[h] = "result" => got[h] \in Calls /\ Alike(got[h], h)
          /\ outcome[h] = "result" =>
               Started(h) /\ from[h] \in Calls /\ Alike(from[h], h)
      BY DEF Inductive, FuturesOwn
    <3>2. /\ fut'[h] = fut[h] /\ pc'[h] = pc[h] /\ wait' = wait /\ got' = got
          /\ outcome'[h] = outcome[h] /\ from'[h] = from[h]
      BY <1>1, <1>4, <1>5 DEF TypeOK
    <3>3. \A g \in Calls : Started(g) => g # k
      BY <1>1
    <3>4. fut'[h] = "none" <=> ~Started(h)'
      BY <1>6, <3>1, <3>2
    <3>5. pc'[h] = "waiting" => wait'[h] \in Calls /\ Started(wait[h])'
      BY <1>6, <3>1, <3>2, <3>3 DEF Started
    <3>6. fut'[h] = "result" => got'[h] \in Calls /\ Alike(got[h], h)'
      BY <1>3, <1>6, <3>1, <3>2, <3>3 DEF Alike, Started
    <3>7. outcome'[h] = "result" =>
            Started(h)' /\ from'[h] \in Calls /\ Alike(from[h], h)'
      BY <1>3, <1>6, <3>1, <3>2, <3>3 DEF Alike, Started
    <3> QED
      BY <3>4, <3>5, <3>6, <3>7
  <2>2. fut'[k] = "pending" /\ pc'[k] # "waiting" /\ outcome'[k] # "result"
    BY <1>1, <1>4, <1>5 DEF Inductive, FuturesOwn, TypeOK
  <2> QED
    BY <1>6, <2>1, <2>2 DEF FuturesOwn, Alike, Started
<1> QED
  BY <1>9, <1>10, <1>11, <1>12, <1>13, <1>14, <1>15 DEF Inductive

-----------------------------------------------------------------------------
(* Every step keeps the invariant.                                         *)
LEMMA InductiveNext ==
  ASSUME Inductive, [Next]_vars
  PROVE  Inductive'
<1>1. ASSUME NEW k \in Calls, NEW x \in ExplicitIds \cup {None}, Call(k, x)
      PROVE  Inductive'
  BY <1>1, CallKeeps
<1>2. ASSUME NEW k \in Calls, CallerStep(k)
      PROVE  Inductive'
  BY <1>2, SentKeeps, SendFailsKeeps, WakeUpKeeps, TimeoutKeeps DEF CallerStep
<1>3. CASE ReceiverStep
  BY <1>3, ServerGetsRequestKeeps, ServerGetsResultKeeps, ServerGetsErrorKeeps,
     ClientGetsRequestKeeps, ClientRejectsKeeps, ClientGetsAnswerKeeps,
     MethodEndsKeeps, WorkerStopsKeeps DEF ReceiverStep
<1>4. ASSUME NEW k \in ClientCalls, NEW a \in {"result", "error"},
             ServerReplies(k, a)
      PROVE  Inductive'
  BY <1>4, ServerRepliesKeeps
<1>5. CASE Lose
  BY <1>5, LoseKeeps
<1>6. CASE UNCHANGED vars
  <2>1. /\ InboxStep /\ FutureStep /\ MethodStep
        /\ UNCHANGED <<pending, pc, callerVars>>
    BY <1>6, MethodsUntouched
    DEF vars, methodVars, InboxStep, FutureStep, Inductive, TypeOK
  <2> QED
    BY <2>1, ReceivingKeeps
<1> QED
  BY <1>1, <1>2, <1>3, <1>4, <1>5, <1>6 DEF Next

(* It holds when nothing was called yet.                                   *)
LEMMA InductiveInit ==
  ASSUME Init
  PROVE  Inductive
<1>1. /\ 0 \in 0..(MaxId + 1)
      /\ <<>> \in Seq(AnyMessage)
      /\ Len(<<>>) = 0
  OBVIOUS
<1>2. TypeOK
  BY <1>1 DEF Init, TypeOK
<1>3. \A k \in Calls : ~Started(k)
  BY DEF Init, Started
<1>4. IdsBelow /\ IdsUnique
  BY <1>3 DEF IdsBelow, IdsUnique
<1>5. PendingOwn
  BY DEF Init, PendingOwn
<1>6. MessagesOwn
  BY <1>1 DEF Init, MessagesOwn
<1>7. MethodsStarted
  BY DEF Init, MethodsStarted
<1>8. FuturesOwn
  BY <1>3 DEF Init, FuturesOwn, Started
<1> QED
  BY <1>2, <1>4, <1>5, <1>6, <1>7, <1>8 DEF Inductive

(* The invariant holds in every reachable state.                           *)
LEMMA InductiveAlways == Spec => []Inductive
<1>1. Init => Inductive
  BY InductiveInit
<1>2. Inductive /\ [Next]_vars => Inductive'
  BY InductiveNext
<1> QED
  BY <1>1, <1>2, PTL DEF Spec

(* Every variable holds the kind of value the program gives it.            *)
THEOREM TypeCorrect == Spec => []TypeOK
<1>1. Inductive => TypeOK
  BY DEF Inductive
<1> QED
  BY <1>1, InductiveAlways, PTL

(* A call that returns a result returns the result of its own request: an  *)
(* answer finds the future of the call whose id it carries (client.py:98,  *)
(* rpc.py:347), and no two calls of a side have an id in common unless a   *)
(* caller chose it (client.py:163-165, communicaton.py:58-59).             *)
THEOREM ResultsAreOwn == Spec => []OwnResult
<1>1. ASSUME Inductive, NEW k \in Calls, outcome[k] = "result"
      PROVE  from[k] = k \/ Clash(k)
  <2>1. PICK h : h = from[k]
    OBVIOUS
  <2>2. h \in Calls /\ Started(k) /\ Alike(h, k)
    BY <1>1, <2>1 DEF Inductive, FuturesOwn
  <2>3. h = k \/ Chosen(k)
    BY <1>1, <2>2 DEF Inductive, IdsUnique
  <2>4. Chosen(k) => h \in ClientCalls /\ cid[h] = cid[k]
    BY <2>2 DEF Chosen, Alike, Side
  <2> QED
    BY <2>1, <2>3, <2>4 DEF Clash, Chosen
<1>2. Inductive => OwnResult
  BY <1>1 DEF OwnResult
<1> QED
  BY <1>2, InductiveAlways, PTL

-----------------------------------------------------------------------------
(* A request is answered once, its answer is not lost, entries of pending  *)
(* stay as long as they should, errors belong to their calls, and Calls    *)
(* implements RpcCall.                                                     *)

(* What a sequence of messages holds, and that it holds no request twice.  *)
Has(q, m) == \E j \in 1..Len(q) : q[j] = m
Once(q) ==
  \A i, j \in 1..Len(q) :
    q[i].kind = "request" /\ q[j].kind = "request" /\ q[i].of = q[j].of
      => i = j

(* What a message under way says of its call.                              *)
Truthful(s, m) ==
  /\ m.kind = "request" =>
       answer[m.of] = None /\ m.of \notin running /\ m.of # worker
  /\ m.kind = "result" => answer[m.of] = "result"
  /\ m.kind = "error" /\ m.of # None =>
       answer[m.of] = "error" /\ Side(m.of) = s

(* A request is read once, by a method that answers once.                  *)
AnswersOnce ==
  /\ \A s \in Sides : Once(inbox[s])
  /\ \A s \in Sides : \A m \in AnyMessage :
       Has(inbox[s], m) => Truthful(s, m)
  /\ \A k \in Calls : k \in running \/ k = worker => answer[k] = None
  /\ \A k \in Calls : answer[k] # None => Started(k)

(* What resolved a future was an answer to a call with this id, or an error*)
(* that answers no call.                                                   *)
FuturesTrue ==
  \A k \in Calls :
    /\ fut[k] = "result" => answer[got[k]] = "result"
    /\ fut[k] = "error" =>
         \/ got[k] = None
         \/ got[k] \in Calls /\ Alike(got[k], k) /\ answer[got[k]] = "error"

(* Callers wait for their own future, and nobody else gives it up.         *)
CallersTrue ==
  \A k \in Calls :
    /\ pc[k] = "idle" => cid[k] = None
    /\ pc[k] # "done" => outcome[k] = "none"
    /\ pc[k] = "waiting" => wait[k] \in Calls /\ Alike(wait[k], k)
    /\ fut[k] = "cancelled" => pc[k] = "done" \/ Clash(k)
    /\ outcome[k] = "error" =>
         \/ from[k] = None
         \/ from[k] \in Calls /\ Alike(from[k], k)

(* The inductive invariant.                                                *)
Answering ==
  /\ Inductive /\ AnswersOnce /\ FuturesTrue /\ CallersTrue
  /\ EntryOfCall /\ NoAnswerLost

(* Without errors of the client no error is without a call.                *)
NoStrays ==
  /\ \A s \in Sides : \A m \in AnyMessage : Has(inbox[s], m) =>
       m.of # None /\ (m.kind = "error" => s = "client")
  /\ \A k \in Calls : fut[k] = "error" => got[k] # None
  /\ \A k \in Calls : outcome[k] = "error" => from[k] # None

-----------------------------------------------------------------------------
(* Reading the first message of a sequence, and writing one behind it.     *)
LEMMA TailHas ==
  ASSUME NEW q \in Seq(AnyMessage), q # <<>>
  PROVE  /\ Head(q) \in AnyMessage /\ Has(q, Head(q))
         /\ \A n \in AnyMessage :
              /\ Has(Tail(q), n) => Has(q, n)
              /\ Has(q, n) => n = Head(q) \/ Has(Tail(q), n)
         /\ Once(q) => Once(Tail(q))
         /\ Once(q) /\ Head(q).kind = "request" =>
              \A n \in AnyMessage : Has(Tail(q), n) /\ n.kind = "request"
                => n.of # Head(q).of
<1>1. /\ Len(q) \in Nat /\ Len(q) > 0 /\ Head(q) = q[1] /\ 1 \in 1..Len(q)
      /\ Head(q) \in AnyMessage /\ Tail(q) \in Seq(AnyMessage)
      /\ Len(Tail(q)) = Len(q) - 1
      /\ \A j \in 1..Len(Tail(q)) : Tail(q)[j] = q[j + 1]
  BY HeadTailProperties, EmptySeq
<1>2. \A j \in 1..Len(Tail(q)) :
        j + 1 \in 1..Len(q) /\ j + 1 # 1 /\ Tail(q)[j] = q[j + 1]
  BY <1>1
<1>3. \A j \in 1..Len(q) :
        j = 1 \/ (j - 1 \in 1..Len(Tail(q)) /\ Tail(q)[j - 1] = q[j])
  BY <1>1
<1>4. Has(q, Head(q))
  BY <1>1 DEF Has
<1>5. \A n \in AnyMessage : Has(Tail(q), n) => Has(q, n)
  BY <1>2 DEF Has
<1>6. \A n \in AnyMessage : Has(q, n) => n = Head(q) \/ Has(Tail(q), n)
  BY <1>1, <1>3 DEF Has
<1>7. Once(q) => Once(Tail(q))
  BY <1>1, <1>2 DEF Once
<1>8. Once(q) /\ Head(q).kind = "request" =>
        \A n \in AnyMessage : Has(Tail(q), n) /\ n.kind = "request"
          => n.of # Head(q).of
  BY <1>1, <1>2 DEF Once, Has
<1> QED
  BY <1>1, <1>4, <1>5, <1>6, <1>7, <1>8

(* A message that is appended is there, and once if it was not there.      *)
LEMMA AppendHas ==
  ASSUME NEW q \in Seq(AnyMessage), NEW m \in AnyMessage
  PROVE  /\ \A n \in AnyMessage :
              Has(Append(q, m), n) <=> Has(q, n) \/ n = m
         /\ Once(q) /\ (m.kind = "request" =>
              \A n \in AnyMessage :
                Has(q, n) /\ n.kind = "request" => n.of # m.of)
            => Once(Append(q, m))
<1>1. /\ Len(q) \in Nat /\ Len(Append(q, m)) = Len(q) + 1
      /\ \A j \in 1..Len(q) : Append(q, m)[j] = q[j] /\ q[j] \in AnyMessage
      /\ Append(q, m)[Len(q) + 1] = m
  BY AppendProperties, ElementOfSeq
<1>2. \A j \in 1..(Len(q) + 1) : j \in 1..Len(q) \/ j = Len(q) + 1
  BY <1>1
<1>3. \A j \in 1..Len(q) : j \in 1..(Len(q) + 1)
  BY <1>1
<1>4. Len(q) + 1 \in 1..(Len(q) + 1)
  BY <1>1
<1>5. \A n \in AnyMessage : Has(Append(q, m), n) <=> Has(q, n) \/ n = m
  BY <1>1, <1>2, <1>3, <1>4 DEF Has
<1>6. ASSUME Once(q), m.kind = "request" => \A n \in AnyMessage :
               Has(q, n) /\ n.kind = "request" => n.of # m.of
      PROVE  Once(Append(q, m))
  <2>1. \A j \in 1..Len(q) : Has(q, q[j])
    BY DEF Has
  <2>2. \A j \in 1..Len(q) : ~(/\ m.kind = "request" /\ q[j].kind = "request"
                               /\ q[j].of = m.of)
    BY <1>1, <1>6, <2>1
  <2> QED
    BY <1>1, <1>2, <1>6, <2>2 DEF Once
<1> QED
  BY <1>5, <1>6

(* A side reads a message.                                                 *)
LEMMA MessageRead ==
  ASSUME Inductive, AnswersOnce, NEW s \in Sides, Taken(s)
  PROVE  LET m == Head(inbox[s]) IN
         /\ m \in AnyMessage /\ Authentic(s, m) /\ Truthful(s, m)
         /\ Has(inbox[s], m)
         /\ \A t \in Sides : Once(inbox'[t])
         /\ \A t \in Sides : \A n \in AnyMessage :
              /\ Has(inbox'[t], n) => Has(inbox[t], n)
              /\ Has(inbox[t], n) => Has(inbox'[t], n) \/ (t = s /\ n = m)
         /\ m.kind = "request" => \A t \in Sides : \A n \in AnyMessage :
              Has(inbox'[t], n) /\ n.kind = "request" => n.of # m.of
<1> DEFINE m == Head(inbox[s])
<1>1. /\ inbox \in [Sides -> Seq(AnyMessage)] /\ inbox[s] \in Seq(AnyMessage)
      /\ inbox[s] # <<>>
      /\ inbox'[s] = Tail(inbox[s])
      /\ \A t \in Sides : t # s => inbox'[t] = inbox[t]
  BY DEF Inductive, TypeOK, Taken
<1>2. m \in AnyMessage /\ Authentic(s, m)
  BY <1>1, FrontMessage DEF Inductive
<1> HIDE DEF m
<1>3. /\ Has(inbox[s], m)
      /\ \A n \in AnyMessage :
           /\ Has(inbox'[s], n) => Has(inbox[s], n)
           /\ Has(inbox[s], n) => n = m \/ Has(inbox'[s], n)
      /\ Once(inbox'[s])
      /\ m.kind = "request" => \A n \in AnyMessage :
           Has(inbox'[s], n) /\ n.kind = "request" => n.of # m.of
  BY <1>1, TailHas DEF AnswersOnce, m
<1>4. Truthful(s, m)
  BY <1>2, <1>3 DEF AnswersOnce
<1>5. \A t \in Sides : Once(inbox'[t])
  BY <1>1, <1>3 DEF AnswersOnce
<1>6. ASSUME NEW t \in Sides, NEW n \in AnyMessage
      PROVE  /\ Has(inbox'[t], n) => Has(inbox[t], n)
             /\ Has(inbox[t], n) => Has(inbox'[t], n) \/ (t = s /\ n = m)
  <2>1. CASE t = s
    BY <1>3, <2>1
  <2>2. CASE t # s
    <3>1. inbox'[t] = inbox[t]
      BY <1>1, <2>2
    <3> QED
      BY <3>1
  <2> QED
    BY <2>1, <2>2
<1>7. ASSUME m.kind = "request", NEW t \in Sides, NEW n \in AnyMessage,
             Has(inbox'[t], n), n.kind = "request"
      PROVE  n.of # m.of
  <2>1. CASE t = s
    BY <1>3, <1>7, <2>1
  <2>2. CASE t # s
    <3>1. Authentic(t, n)
      BY <1>6, <1>7 DEF Inductive, MessagesOwn, Has
    <3> QED
      BY <1>2, <1>7, <2>2, <3>1 DEF Authentic
  <2> QED
    BY <2>1, <2>2
<1> QED
  BY <1>2, <1>3, <1>4, <1>5, <1>6, <1>7 DEF m

(* A side is sent a message, which is no request.                          *)
LEMMA MessageSent ==
  ASSUME Inductive, AnswersOnce, NEW s \in Sides, NEW m \in AnyMessage,
         m.kind # "request", Send(s, m)
  PROVE  /\ \A t \in Sides : Once(inbox'[t])
         /\ \A t \in Sides : \A n \in AnyMessage :
              /\ Has(inbox'[t], n) => Has(inbox[t], n) \/ (t = s /\ n = m)
              /\ Has(inbox[t], n) => Has(inbox'[t], n)
         /\ open => Has(inbox'[s], m)
<1>1. inbox \in [Sides -> Seq(AnyMessage)] /\ inbox[s] \in Seq(AnyMessage)
  BY DEF Inductive, TypeOK
<1>2. CASE ~open
  <2>1. inbox' = inbox
    BY <1>2 DEF Send
  <2> QED
    BY <1>2, <2>1 DEF AnswersOnce
<1>3. CASE open
  <2>1. /\ inbox'[s] = Append(inbox[s], m)
        /\ \A t \in Sides : t # s => inbox'[t] = inbox[t]
    BY <1>1, <1>3 DEF Send
  <2>2. /\ Once(inbox'[s])
        /\ \A n \in AnyMessage : Has(inbox'[s], n) <=> Has(inbox[s], n) \/ n = m
    BY <1>1, <2>1, AppendHas DEF AnswersOnce
  <2>3. \A t \in Sides : Once(inbox'[t])
    BY <2>1, <2>2 DEF AnswersOnce
  <2>4. ASSUME NEW t \in Sides, NEW n \in AnyMessage
        PROVE  Has(inbox'[t], n) <=> Has(inbox[t], n) \/ (t = s /\ n = m)
    <3>1. CASE t = s
      BY <2>2, <3>1
    <3>2. CASE t # s
      <4>1. inbox'[t] = inbox[t]
        BY <2>1, <3>2
      <4> QED
        BY <3>2, <4>1
    <3> QED
      BY <3>1, <3>2
  <2> QED
    BY <2>3, <2>4
<1> QED
  BY <1>2, <1>3

(* A side reads a message, and the other is sent one that is no request.   *)
LEMMA MessageAnswered ==
  ASSUME Inductive, AnswersOnce, NEW s \in Sides, NEW u \in Sides, s # u,
         inbox[s] # <<>>, NEW m, m = Head(inbox[s]), NEW a \in AnyMessage,
           a.kind # "request",
         inbox'[s] = Tail(inbox[s]), inbox'[u] = Append(inbox[u], a)
  PROVE  /\ m \in AnyMessage /\ Authentic(s, m) /\ Truthful(s, m)
         /\ \A t \in Sides : Once(inbox'[t])
         /\ \A t \in Sides : \A n \in AnyMessage :
              /\ Has(inbox'[t], n) => Has(inbox[t], n) \/ (t = u /\ n = a)
              /\ Has(inbox[t], n) => Has(inbox'[t], n) \/ (t = s /\ n = m)
         /\ m.kind = "request" => \A t \in Sides : \A n \in AnyMessage :
              Has(inbox'[t], n) /\ n.kind = "request" => n.of # m.of
<1>1. /\ inbox \in [Sides -> Seq(AnyMessage)]
      /\ inbox[s] \in Seq(AnyMessage) /\ inbox[u] \in Seq(AnyMessage)
      /\ inbox'[s] = Tail(inbox[s]) /\ inbox'[u] = Append(inbox[u], a)
      /\ \A t \in Sides : t = s \/ t = u
  BY DEF Inductive, TypeOK, Sides
<1>2. m \in AnyMessage /\ Authentic(s, m)
  BY <1>1, FrontMessage DEF Inductive
<1>3. /\ Has(inbox[s], m)
      /\ \A n \in AnyMessage :
           /\ Has(inbox'[s], n) => Has(inbox[s], n)
           /\ Has(inbox[s], n) => n = m \/ Has(inbox'[s], n)
      /\ Once(inbox'[s])
      /\ m.kind = "request" => \A n \in AnyMessage :
           Has(inbox'[s], n) /\ n.kind = "request" => n.of # m.of
  BY <1>1, TailHas DEF AnswersOnce
<1>4. /\ Once(inbox'[u])
      /\ \A n \in AnyMessage : Has(inbox'[u], n) <=> Has(inbox[u], n) \/ n = a
  BY <1>1, AppendHas DEF AnswersOnce
<1>5. Truthful(s, m)
  BY <1>2, <1>3 DEF AnswersOnce
<1>6. \A t \in Sides : Once(inbox'[t])
  BY <1>1, <1>3, <1>4 DEF AnswersOnce
<1>7. ASSUME NEW t \in Sides, NEW n \in AnyMessage
      PROVE  /\ Has(inbox'[t], n) => Has(inbox[t], n) \/ (t = u /\ n = a)
             /\ Has(inbox[t], n) => Has(inbox'[t], n) \/ (t = s /\ n = m)
  <2>1. CASE t = s
    BY <1>3, <2>1
  <2>2. CASE t = u
    BY <1>4, <2>2
  <2> QED
    BY <1>1, <2>1, <2>2
<1>8. ASSUME m.kind = "request", NEW t \in Sides, NEW n \in AnyMessage,
             Has(inbox'[t], n), n.kind = "request"
      PROVE  n.of # m.of
  <2>1. CASE t = s
    BY <1>3, <1>8, <2>1
  <2>2. CASE t # s
    <3>1. Authentic(t, n)
      BY <1>7, <1>8, <2>2 DEF Inductive, MessagesOwn, Has
    <3> QED
      BY <1>2, <1>8, <2>2, <3>1 DEF Authentic
  <2> QED
    BY <2>1, <2>2
<1> QED
  BY <1>2, <1>3, <1>5, <1>6, <1>7, <1>8
-----------------------------------------------------------------------------
(* The answer to a call, on its way to the caller.                         *)
ResultOf(k) == Message("result", cid[k], k)

(* Calls of a side with the same id are one, or their callers chose it.    *)
LEMMA AlikeClash ==
  ASSUME IdsUnique, NEW h \in Calls, NEW k \in Calls, Started(k), Alike(h, k)
  PROVE  h = k \/ (Clash(h) /\ Clash(k))
<1>1. h = k \/ Chosen(k)
  BY DEF IdsUnique
<1>2. cid[h] = cid[k] /\ Side(h) = Side(k)
  BY DEF Alike
<1>3. Chosen(k) => h \in ClientCalls
  BY <1>2 DEF Chosen, Side
<1> QED
  BY <1>1, <1>2, <1>3 DEF Chosen, Clash

(* The result of a call is a message, or nothing yet.                       *)
LEMMA ResultTyped ==
  ASSUME Inductive, NEW k \in Calls
  PROVE  /\ Side(k) \in Sides /\ ResultOf(k).kind = "result"
         /\ Started(k) => ResultOf(k) \in AnyMessage
         /\ \A s \in Sides : Has(inbox[s], ResultOf(k)) =>
              ResultOf(k) \in AnyMessage
<1>1. Side(k) \in Sides /\ ResultOf(k).kind = "result"
  BY SideOfCall DEF ResultOf, Message
<1>2. Started(k) => ResultOf(k) \in AnyMessage
  BY DEF ResultOf, Message, AnyMessage, Messages, Inductive, IdsBelow
<1>3. \A s \in Sides : Has(inbox[s], ResultOf(k)) => ResultOf(k) \in AnyMessage
  BY ElementOfSeq DEF Has, Inductive, TypeOK
<1> QED
  BY <1>1, <1>2, <1>3

(* What receivers do to a call besides resolving its future: its answer    *)
(* does not change once given, and a result is written when it is given    *)
(* and stays on its way.                                                   *)
Delivery ==
  /\ open' => open
  /\ \A k \in Calls : answer[k] # None => answer'[k] = answer[k]
  /\ \A k \in Calls : open' /\ answer'[k] = "result" /\ answer[k] # "result"
       => Has(inbox'[Side(k)], ResultOf(k))
  /\ \A k \in Calls : open' /\ Has(inbox[Side(k)], ResultOf(k))
       => Has(inbox'[Side(k)], ResultOf(k))

(* Such a step keeps the invariant.                                        *)
LEMMA DeliveryKeeps ==
  ASSUME Answering, Inductive', AnswersOnce', Delivery,
         UNCHANGED <<pending, fut, got, pc, callerVars>>
  PROVE  Answering'
<1>1. /\ cid' = cid /\ wait' = wait /\ outcome' = outcome /\ from' = from
      /\ pc' = pc /\ pending' = pending /\ fut' = fut /\ got' = got
  BY DEF callerVars
<1>2. \A k \in Calls : Clash(k)' <=> Clash(k)
  BY <1>1 DEF Clash
<1>3. \A h, k \in Calls : Alike(h, k)' <=> Alike(h, k)
  BY <1>1 DEF Alike, Started
<1>4. FuturesTrue'
  <2> SUFFICES ASSUME NEW k \in Calls
      PROVE  /\ fut[k] = "result" => answer'[got[k]] = "result"
             /\ fut[k] = "error" =>
                  \/ got[k] = None
                  \/ /\ got[k] \in Calls /\ Alike(got[k], k)
                     /\ answer'[got[k]] = "error"
    BY <1>1 DEF FuturesTrue, Alike, Started
  <2>1. \A g \in Calls : answer[g] \in {"result", "error"} =>
          answer'[g] = answer[g]
    BY DEF Delivery, Answering, Inductive, TypeOK
  <2>2. fut[k] = "result" => got[k] \in Calls
    BY DEF Answering, Inductive, FuturesOwn
  <2> QED
    BY <2>1, <2>2 DEF Answering, FuturesTrue
<1>5. CallersTrue'
  BY <1>1, <1>2, <1>3 DEF Answering, CallersTrue, Alike, Started
<1>6. EntryOfCall'
  BY <1>1, <1>2 DEF Answering, EntryOfCall
<1>7. NoAnswerLost'
  <2> SUFFICES ASSUME NEW k \in Calls, open', pc[k] \in {"sending", "waiting"},
                      answer'[k] = "result"
      PROVE  \/ fut[k] = "result"
             \/ fut[k] = "error" /\ got[k] = None
             \/ Has(inbox'[Side(k)], ResultOf(k))
             \/ Clash(k)
    BY <1>1, <1>2 DEF NoAnswerLost, Has, ResultOf
  <2>1. CASE answer[k] # "result"
    BY <2>1 DEF Delivery
  <2>2. CASE answer[k] = "result"
    <3>1. \/ fut[k] = "result"
          \/ fut[k] = "error" /\ got[k] = None
          \/ Has(inbox[Side(k)], ResultOf(k))
          \/ Clash(k)
      BY <2>2 DEF Answering, NoAnswerLost, Has, ResultOf, Delivery
    <3> QED
      BY <3>1 DEF Delivery
  <2> QED
    BY <2>1, <2>2
<1> QED
  BY <1>4, <1>5, <1>6, <1>7 DEF Answering

(* The server starts the method of a request, which no message but this    *)
(* one asked for.                                                          *)
LEMMA ServerGetsRequestAnswers ==
  ASSUME Answering, ServerGetsRequest
  PROVE  Answering'
<1> "server" \in Sides /\ Inductive /\ AnswersOnce
  BY DEF Sides, Answering
<1>1. PICK m : m = Head(inbox["server"])
  OBVIOUS
<1>2. /\ Taken("server") /\ m.kind = "request"
      /\ running' = running \cup {m.of}
      /\ UNCHANGED <<open, pending, fut, got, pc, callerVars, worker, answer>>
  BY <1>1 DEF ServerGetsRequest
<1>3. /\ m \in AnyMessage /\ Truthful("server", m)
      /\ \A t \in Sides : Once(inbox'[t])
      /\ \A t \in Sides : \A n \in AnyMessage :
           /\ Has(inbox'[t], n) => Has(inbox[t], n)
           /\ Has(inbox[t], n) => Has(inbox'[t], n) \/ n = m
           /\ Has(inbox'[t], n) /\ n.kind = "request" => n.of # m.of
  BY <1>1, <1>2, MessageRead
<1>4. ASSUME NEW t \in Sides, NEW n \in AnyMessage, Has(inbox'[t], n)
      PROVE  Truthful(t, n)'
  <2>1. Truthful(t, n) /\ (n.kind = "request" => n.of # m.of)
    BY <1>3, <1>4 DEF AnswersOnce
  <2> QED
    BY <1>2, <2>1 DEF Truthful, Side
<1>5. AnswersOnce'
  <2>1. \A k \in Calls : k \in running' \/ k = worker' => answer'[k] = None
    BY <1>2, <1>3 DEF AnswersOnce, Truthful
  <2>2. \A k \in Calls : answer'[k] # None => Started(k)'
    BY <1>2 DEF AnswersOnce, Started
  <2> QED
    BY <1>3, <1>4, <2>1, <2>2 DEF AnswersOnce
<1>6. Delivery
  <2>1. \A k \in Calls :
          Has(inbox[Side(k)], ResultOf(k)) => Has(inbox'[Side(k)], ResultOf(k))
    BY <1>2, <1>3, ResultTyped
  <2> QED
    BY <1>2, <2>1 DEF Delivery
<1> QED
  BY <1>2, <1>5, <1>6, ServerGetsRequestKeeps, DeliveryKeeps

(* The worker of the client starts the method of a request.                *)
LEMMA ClientGetsRequestAnswers ==
  ASSUME Answering, ClientGetsRequest
  PROVE  Answering'
<1> "client" \in Sides /\ Inductive /\ AnswersOnce
  BY DEF Sides, Answering
<1>1. PICK m : m = Head(inbox["client"])
  OBVIOUS
<1>2. /\ Taken("client") /\ m.kind = "request" /\ worker' = m.of
      /\ UNCHANGED <<open, pending, fut, got, pc, callerVars, running, answer>>
  BY <1>1 DEF ClientGetsRequest
<1>3. /\ m \in AnyMessage /\ Truthful("client", m)
      /\ \A t \in Sides : Once(inbox'[t])
      /\ \A t \in Sides : \A n \in AnyMessage :
           /\ Has(inbox'[t], n) => Has(inbox[t], n)
           /\ Has(inbox[t], n) => Has(inbox'[t], n) \/ n = m
           /\ Has(inbox'[t], n) /\ n.kind = "request" => n.of # m.of
  BY <1>1, <1>2, MessageRead
<1>4. ASSUME NEW t \in Sides, NEW n \in AnyMessage, Has(inbox'[t], n)
      PROVE  Truthful(t, n)'
  <2>1. Truthful(t, n) /\ (n.kind = "request" => n.of # m.of)
    BY <1>3, <1>4 DEF AnswersOnce
  <2> QED
    BY <1>2, <2>1 DEF Truthful, Side
<1>5. AnswersOnce'
  <2>1. \A k \in Calls : k \in running' \/ k = worker' => answer'[k] = None
    BY <1>2, <1>3 DEF AnswersOnce, Truthful
  <2>2. \A k \in Calls : answer'[k] # None => Started(k)'
    BY <1>2 DEF AnswersOnce, Started
  <2> QED
    BY <1>3, <1>4, <2>1, <2>2 DEF AnswersOnce
<1>6. Delivery
  <2>1. \A k \in Calls :
          Has(inbox[Side(k)], ResultOf(k)) => Has(inbox'[Side(k)], ResultOf(k))
    BY <1>2, <1>3, ResultTyped
  <2> QED
    BY <1>2, <2>1 DEF Delivery
<1> QED
  BY <1>2, <1>5, <1>6, ClientGetsRequestKeeps, DeliveryKeeps

(* The server answers an error: no result is lost, no call is answered.    *)
LEMMA ServerGetsErrorAnswers ==
  ASSUME Answering, ServerGetsError
  PROVE  Answering'
<1> /\ "server" \in Sides /\ "client" \in Sides /\ "server" # "client"
    /\ Inductive /\ AnswersOnce
  BY DEF Sides, Answering
<1>1. PICK m, a : /\ m = Head(inbox["server"])
                  /\ a = Message("error", m.id, None)
  OBVIOUS
<1>2. /\ inbox["server"] # <<>> /\ m.kind = "error"
      /\ inbox' = [inbox EXCEPT !["server"] = Tail(@),
                                  !["client"] = Append(@, a)]
      /\ UNCHANGED <<open, pending, fut, got, pc, callerVars, methodVars>>
  BY <1>1 DEF ServerGetsError
<1>3. a \in AnyMessage /\ a.kind = "error" /\ a.of = None
  <2>1. m \in AnyMessage
    BY <1>1, <1>2, FrontMessage DEF Inductive
  <2> QED
    BY <1>1, <2>1 DEF AnyMessage, Messages, Message
<1>4. /\ \A t \in Sides : Once(inbox'[t])
      /\ \A t \in Sides : \A n \in AnyMessage :
           /\ Has(inbox'[t], n) => Has(inbox[t], n) \/ n = a
           /\ Has(inbox[t], n) => Has(inbox'[t], n) \/ n = m
  <2>1. a \in AnyMessage /\ a.kind # "request"
    BY <1>3
  <2>2. /\ inbox'["server"] = Tail(inbox["server"])
        /\ inbox'["client"] = Append(inbox["client"], a)
    BY <1>2 DEF Inductive, TypeOK
  <2>3. m = Head(inbox["server"]) /\ inbox["server"] # <<>>
    BY <1>1, <1>2
  <2>4. \A t \in Sides : Once(inbox'[t])
    BY <2>1, <2>2, <2>3, MessageAnswered
  <2>5. \A t \in Sides : \A n \in AnyMessage :
          Has(inbox'[t], n) => Has(inbox[t], n) \/ n = a
    BY <2>1, <2>2, <2>3, MessageAnswered
  <2>6. \A t \in Sides : \A n \in AnyMessage :
          Has(inbox[t], n) => Has(inbox'[t], n) \/ n = m
    BY <2>1, <2>2, <2>3, MessageAnswered
  <2> QED
    BY <2>4, <2>5, <2>6
<1>5. ASSUME NEW t \in Sides, NEW n \in AnyMessage, Has(inbox'[t], n)
      PROVE  Truthful(t, n)'
  <2>1. Truthful(t, n) \/ n = a
    BY <1>4, <1>5 DEF AnswersOnce
  <2> QED
    BY <1>2, <1>3, <2>1 DEF Truthful, Side, methodVars
<1>6. AnswersOnce'
  BY <1>2, <1>4, <1>5 DEF AnswersOnce, Started, methodVars
<1>7. Delivery
  <2>1. \A k \in Calls :
          Has(inbox[Side(k)], ResultOf(k)) => Has(inbox'[Side(k)], ResultOf(k))
    BY <1>2, <1>4, ResultTyped
  <2> QED
    BY <1>2, <2>1 DEF Delivery, methodVars
<1> QED
  BY <1>2, <1>6, <1>7, ServerGetsErrorKeeps, DeliveryKeeps

(* A method of the server answers its call, for the first time.            *)
LEMMA ServerRepliesAnswers ==
  ASSUME Answering, NEW k \in ClientCalls, NEW a \in {"result", "error"},
         ServerReplies(k, a)
  PROVE  Answering'
<1> /\ "client" \in Sides /\ k \in Calls /\ Inductive /\ AnswersOnce
    /\ Side(k) = "client"
  BY DEF Sides, Answering, Side
<1>1. PICK m : m = Message(a, cid[k], k)
  OBVIOUS
<1>2. /\ k \in running /\ running' = running \ {k}
      /\ answer' = [answer EXCEPT ![k] = a]
      /\ Send("client", m)
      /\ UNCHANGED <<open, pending, fut, got, pc, callerVars, worker>>
  BY <1>1 DEF ServerReplies
<1>3. /\ Started(k) /\ answer[k] = None
      /\ answer \in [Calls -> {"result", "error", None}]
  BY <1>2 DEF Inductive, MethodsStarted, AnswersOnce, TypeOK
<1>4. m \in AnyMessage /\ m.kind = a /\ m.of = k /\ m.kind # "request"
  BY <1>1, <1>3 DEF AnyMessage, Messages, Message, Inductive, IdsBelow
<1>5. answer'[k] = a /\ \A h \in Calls \ {k} : answer'[h] = answer[h]
  BY <1>2, <1>3
<1>6. /\ \A t \in Sides : Once(inbox'[t])
      /\ \A t \in Sides : \A n \in AnyMessage :
           /\ Has(inbox'[t], n) => Has(inbox[t], n) \/ (t = "client" /\ n = m)
           /\ Has(inbox[t], n) => Has(inbox'[t], n)
      /\ open => Has(inbox'["client"], m)
  BY <1>2, <1>4, MessageSent
<1>7. ASSUME NEW t \in Sides, NEW n \in AnyMessage, Has(inbox'[t], n)
      PROVE  Truthful(t, n)'
  <2>1. CASE t = "client" /\ n = m
    BY <1>4, <1>5, <2>1 DEF Truthful, Side
  <2>2. CASE Has(inbox[t], n)
    <3>1. Truthful(t, n)
      BY <2>2 DEF AnswersOnce
    <3>2. n.of = k => n.kind # "request" /\ n.kind # "result"
            /\ n.kind # "error"
      BY <1>2, <1>3, <3>1 DEF Truthful
    <3>3. n.of # k
      BY <3>2 DEF AnyMessage, Messages
    <3>4. n.of \in Calls \cup {None}
      BY DEF AnyMessage, Messages
    <3>5. n.kind = "request" => n.of \in Calls
      BY <2>2, <3>4 DEF Inductive, MessagesOwn, Authentic, Has
    <3>6. n.kind = "result" => n.of \in Calls
      BY <2>2, <3>4 DEF Inductive, MessagesOwn, Authentic, Has
    <3> QED
      BY <1>2, <1>5, <3>1, <3>3, <3>4, <3>5, <3>6 DEF Truthful, Side
  <2> QED
    BY <1>6, <1>7, <2>1, <2>2
<1>8. AnswersOnce'
  <2>1. \A h \in Calls : h \in running' \/ h = worker' => answer'[h] = None
    <3>1. worker # k
      BY DEF Inductive, TypeOK
    <3> QED
      BY <1>2, <1>5, <3>1 DEF AnswersOnce
  <2>2. \A h \in Calls : answer'[h] # None => Started(h)'
    BY <1>2, <1>3, <1>5 DEF AnswersOnce, Started
  <2> QED
    BY <1>6, <1>7, <2>1, <2>2 DEF AnswersOnce
<1>9. Delivery
  <2>1. m = Message(a, cid[k], k) /\ open' = open
    BY <1>1, <1>2
  <2> QED
    BY <1>3, <1>5, <1>6, <2>1, ResultTyped DEF Delivery, ResultOf
<1> QED
  BY <1>2, <1>8, <1>9, ServerRepliesKeeps, DeliveryKeeps

(* The client rejects a request: its call is answered by an error.         *)
LEMMA ClientRejectsAnswers ==
  ASSUME Answering, ClientRejects
  PROVE  Answering'
<1> /\ "server" \in Sides /\ "client" \in Sides /\ "server" # "client"
    /\ Inductive /\ AnswersOnce
  BY DEF Sides, Answering
<1>1. PICK m, a : /\ m = Head(inbox["client"])
                  /\ a = Message("error", m.id, m.of)
  OBVIOUS
<1>2. /\ inbox["client"] # <<>> /\ m.kind = "request"
      /\ inbox' = [inbox EXCEPT !["client"] = Tail(@),
                                  !["server"] = Append(@, a)]
      /\ answer' = [answer EXCEPT ![m.of] = "error"]
      /\ UNCHANGED <<open, pending, fut, got, pc, callerVars, running, worker>>
  BY <1>1 DEF ClientRejects
<1>3. m \in AnyMessage /\ Authentic("client", m)
  BY <1>1, <1>2, FrontMessage DEF Inductive
<1>4. /\ a \in AnyMessage /\ a.kind = "error" /\ a.of = m.of
      /\ m.of \in Calls /\ Started(m.of) /\ Side(m.of) = "server"
  BY <1>1, <1>2, <1>3
  DEF AnyMessage, Messages, Message, Authentic, Peer, Side
<1>5. /\ inbox'["client"] = Tail(inbox["client"])
      /\ inbox'["server"] = Append(inbox["server"], a)
      /\ inbox["client"] # <<>> /\ m = Head(inbox["client"])
      /\ m.kind = "request"
      /\ a \in AnyMessage /\ a.kind # "request"
  BY <1>1, <1>2, <1>4 DEF Inductive, TypeOK
<1>6. Truthful("client", m) /\ \A t \in Sides : Once(inbox'[t])
  BY <1>5, MessageAnswered
<1>7. \A t \in Sides : \A n \in AnyMessage :
        Has(inbox'[t], n) => Has(inbox[t], n) \/ (t = "server" /\ n = a)
  BY <1>5, MessageAnswered
<1>8. \A t \in Sides : \A n \in AnyMessage :
        Has(inbox[t], n) => Has(inbox'[t], n) \/ n = m
  BY <1>5, MessageAnswered
<1>9. m.kind = "request" => \A t \in Sides : \A n \in AnyMessage :
        Has(inbox'[t], n) /\ n.kind = "request" => n.of # m.of
  BY <1>5, MessageAnswered
<1>10. answer[m.of] = None /\ m.of \notin running /\ m.of # worker
  BY <1>2, <1>6 DEF Truthful
<1>11. /\ answer'[m.of] = "error"
       /\ \A h \in Calls : h # m.of => answer'[h] = answer[h]
  BY <1>2, <1>4 DEF Inductive, TypeOK
<1>12. ASSUME NEW t \in Sides, NEW n \in AnyMessage, Has(inbox'[t], n)
       PROVE  Truthful(t, n)'
  <2>1. CASE t = "server" /\ n = a
    BY <1>4, <1>11, <2>1 DEF Truthful, Side
  <2>2. CASE Has(inbox[t], n)
    <3>1. Truthful(t, n) /\ (n.kind = "request" => n.of # m.of)
      BY <1>2, <1>9, <1>12, <2>2 DEF AnswersOnce
    <3>2. n.kind \in {"result", "error"} /\ n.of # None => answer[n.of] # None
      BY <3>1 DEF Truthful
    <3>3. n.of # m.of
      BY <1>4, <1>10, <3>1, <3>2 DEF AnyMessage, Messages
    <3>4. n.of \in Calls \cup {None} /\ (n.kind # "error" => n.of # None)
      BY <2>2 DEF AnyMessage, Messages, Inductive, MessagesOwn, Authentic, Has
    <3> QED
      BY <1>2, <1>11, <3>1, <3>3, <3>4 DEF Truthful, Side
  <2> QED
    BY <1>7, <1>12, <2>1, <2>2
<1>13. AnswersOnce'
  <2>1. \A h \in Calls : h \in running' \/ h = worker' => answer'[h] = None
    BY <1>2, <1>10, <1>11 DEF AnswersOnce
  <2>2. \A h \in Calls : answer'[h] # None => Started(h)'
    BY <1>2, <1>4, <1>11 DEF AnswersOnce, Started
  <2> QED
    BY <1>6, <1>12, <2>1, <2>2 DEF AnswersOnce
<1>14. Delivery
  <2>1. \A k \in Calls :
          Has(inbox[Side(k)], ResultOf(k)) => Has(inbox'[Side(k)], ResultOf(k))
    BY <1>2, <1>8, ResultTyped
  <2>2. \A k \in Calls : answer[k] # None => answer'[k] = answer[k]
    BY <1>10, <1>11
  <2>3. \A k \in Calls : answer'[k] = "result" => answer[k] = "result"
    BY <1>11
  <2> QED
    BY <1>2, <2>1, <2>2, <2>3 DEF Delivery
<1> QED
  BY <1>2, <1>13, <1>14, ClientRejectsKeeps, DeliveryKeeps

(* The method that the worker awaited answers its call, or does not.       *)
LEMMA MethodEndsAnswers ==
  ASSUME Answering, MethodEnds
  PROVE  Answering'
<1> "server" \in Sides /\ Inductive /\ AnswersOnce
  BY DEF Sides, Answering
<1>1. PICK k, m : k = worker /\ m = Message("result", cid[k], k)
  OBVIOUS
<1>2. /\ k \in ServerCalls /\ worker' = None
      /\ UNCHANGED <<open, pending, fut, got, pc, callerVars, running>>
  BY <1>1 DEF MethodEnds
<1>3. /\ k \in Calls /\ Started(k) /\ answer[k] = None /\ k \notin running
      /\ Side(k) = "server" /\ answer \in [Calls -> {"result", "error", None}]
  BY <1>1, <1>2 DEF Inductive, MethodsStarted, AnswersOnce, TypeOK, Side
<1>4. CASE answer' = [answer EXCEPT ![k] = "result"] /\ Send("server", m)
  <2>1. m \in AnyMessage /\ m.kind = "result" /\ m.of = k /\ m.kind # "request"
    BY <1>1, <1>3 DEF AnyMessage, Messages, Message, Inductive, IdsBelow
  <2>2. answer'[k] = "result" /\ \A h \in Calls \ {k} : answer'[h] = answer[h]
    BY <1>3, <1>4
  <2>3. /\ \A t \in Sides : Once(inbox'[t])
        /\ \A t \in Sides : \A n \in AnyMessage :
             /\ Has(inbox'[t], n) => Has(inbox[t], n) \/ (t = "server" /\ n = m)
             /\ Has(inbox[t], n) => Has(inbox'[t], n)
        /\ open => Has(inbox'["server"], m)
    BY <1>4, <2>1, MessageSent
  <2>4. ASSUME NEW t \in Sides, NEW n \in AnyMessage, Has(inbox'[t], n)
        PROVE  Truthful(t, n)'
    <3>1. CASE t = "server" /\ n = m
      BY <2>1, <2>2, <3>1 DEF Truthful
    <3>2. CASE Has(inbox[t], n)
      <4>1. Truthful(t, n)
        BY <3>2 DEF AnswersOnce
      <4>2. n.of # k
        BY <1>1, <1>3, <4>1 DEF Truthful, AnyMessage, Messages
      <4>3. n.of \in Calls \cup {None} /\ (n.kind # "error" => n.of # None)
        BY <3>2 DEF AnyMessage, Messages, Inductive, MessagesOwn, Authentic, Has
      <4> QED
        BY <1>2, <2>2, <4>1, <4>2, <4>3 DEF Truthful, Side
    <3> QED
      BY <2>3, <2>4, <3>1, <3>2
  <2>5. AnswersOnce'
    <3>1. \A h \in Calls : h \in running' \/ h = worker' => answer'[h] = None
      BY <1>2, <1>3, <2>2 DEF AnswersOnce
    <3>2. \A h \in Calls : answer'[h] # None => Started(h)'
      BY <1>2, <1>3, <2>2 DEF AnswersOnce, Started
    <3> QED
      BY <2>3, <2>4, <3>1, <3>2 DEF AnswersOnce
  <2>6. Delivery
    <3>1. m = Message("result", cid[k], k) /\ open' = open
      BY <1>1, <1>2
    <3> QED
      BY <1>3, <2>2, <2>3, <3>1, ResultTyped DEF Delivery, ResultOf
  <2> QED
    BY <1>2, <2>5, <2>6, MethodEndsKeeps, DeliveryKeeps
<1>5. CASE UNCHANGED <<answer, inbox>>
  <2>1. AnswersOnce'
    <3>1. \A t \in Sides : \A n \in AnyMessage :
            Has(inbox[t], n) => Truthful(t, n)'
      <4> SUFFICES ASSUME NEW t \in Sides, NEW n \in AnyMessage,
                          Has(inbox[t], n)
                   PROVE  Truthful(t, n)'
        OBVIOUS
      <4>1. Truthful(t, n)
        BY DEF AnswersOnce
      <4>2. n.kind = "request" => n.of \in Calls
        BY DEF AnyMessage, Messages, Inductive, MessagesOwn, Authentic, Has
      <4> QED
        BY <1>2, <1>5, <4>1, <4>2 DEF Truthful, Side
    <3> QED
      BY <1>2, <1>5, <3>1 DEF AnswersOnce, Started
  <2>2. Delivery
    BY <1>2, <1>5 DEF Delivery
  <2> QED
    BY <1>2, <2>1, <2>2, MethodEndsKeeps, DeliveryKeeps
<1> QED
  BY <1>1, <1>4, <1>5 DEF MethodEnds

(* The worker stops: its method answers no more.                           *)
LEMMA WorkerStopsAnswers ==
  ASSUME Answering, WorkerStops
  PROVE  Answering'
<1> Inductive /\ AnswersOnce
  BY DEF Answering
<1>1. /\ worker' = "stopped"
      /\ UNCHANGED <<open, inbox, pending, fut, got, pc, callerVars, running,
                     answer>>
  BY DEF WorkerStops
<1>2. \A t \in Sides : \A n \in AnyMessage : Has(inbox[t], n) => Truthful(t, n)'
  <2> SUFFICES ASSUME NEW t \in Sides, NEW n \in AnyMessage, Has(inbox[t], n)
               PROVE  Truthful(t, n)'
    OBVIOUS
  <2>1. Truthful(t, n)
    BY DEF AnswersOnce
  <2>2. n.kind = "request" => n.of \in Calls
    BY DEF AnyMessage, Messages, Inductive, MessagesOwn, Authentic, Has
  <2> QED
    BY <1>1, <2>1, <2>2 DEF Truthful, Side
<1>3. AnswersOnce'
  BY <1>1, <1>2 DEF AnswersOnce, Started
<1>4. Delivery
  BY <1>1 DEF Delivery
<1> QED
  BY <1>1, <1>3, <1>4, WorkerStopsKeeps, DeliveryKeeps

(* The connection breaks: nothing is on its way any more.                  *)
LEMMA LoseAnswers ==
  ASSUME Answering, Lose
  PROVE  Answering'
<1> AnswersOnce
  BY DEF Answering
<1>1. /\ open' = FALSE /\ inbox' = [s \in Sides |-> <<>>]
      /\ UNCHANGED <<pending, fut, got, pc, callerVars, methodVars>>
  BY DEF Lose
<1>2. Len(<<>>) = 0
  OBVIOUS
<1>3. \A t \in Sides : /\ Once(inbox'[t])
                      /\ \A n \in AnyMessage : ~Has(inbox'[t], n)
  BY <1>1, <1>2 DEF Once, Has
<1>4. AnswersOnce'
  BY <1>1, <1>3 DEF AnswersOnce, Started, methodVars
<1>5. Delivery
  BY <1>1 DEF Delivery, methodVars
<1> QED
  BY <1>1, <1>4, <1>5, LoseKeeps, DeliveryKeeps DEF Answering

(* A side reads an answer, and resolves with it the future that has its id.*)
LEMMA ResolveAnswers ==
  ASSUME Answering, Inductive', NEW s \in Sides, NEW m,
         m = Head(inbox[s]), m.kind # "request", Taken(s), Resolve(s, m),
         UNCHANGED <<open, pending, pc, callerVars, methodVars>>
  PROVE  Answering'
<1> Inductive /\ AnswersOnce
  BY DEF Answering
<1>1. /\ cid' = cid /\ wait' = wait /\ outcome' = outcome /\ from' = from
      /\ pc' = pc /\ pending' = pending /\ answer' = answer
      /\ running' = running /\ worker' = worker /\ open' = open
  BY DEF callerVars, methodVars
<1>2. /\ m \in AnyMessage /\ Authentic(s, m) /\ Truthful(s, m)
      /\ \A t \in Sides : Once(inbox'[t])
      /\ \A t \in Sides : \A n \in AnyMessage :
           /\ Has(inbox'[t], n) => Has(inbox[t], n)
           /\ Has(inbox[t], n) => Has(inbox'[t], n) \/ (t = s /\ n = m)
  BY MessageRead
<1>3. PICK f : f = pending[s][m.id]
  OBVIOUS
<1>4. /\ m.id \in Ids /\ m.of \in Calls \cup {None}
      /\ m.kind \in {"result", "error"} /\ f \in Calls \cup {None}
  BY <1>2, <1>3 DEF AnyMessage, Messages, Inductive, TypeOK
<1>5. f \in Calls => Started(f) /\ Side(f) = s /\ cid[f] = m.id
  BY <1>3, <1>4 DEF Inductive, PendingOwn
<1>6. \A h \in Calls :
        \/ /\ fut'[h] = fut[h] /\ got'[h] = got[h]
           /\ ~(h = f /\ fut[h] = "pending")
        \/ /\ h = f /\ fut[h] = "pending"
           /\ fut'[h] = m.kind /\ got'[h] = m.of
  BY <1>3, <1>4 DEF Resolve, Inductive, TypeOK
<1>7. \A k \in Calls : Clash(k)' <=> Clash(k)
  BY <1>1 DEF Clash
<1>8. \A h, k \in Calls : Alike(h, k)' <=> Alike(h, k)
  BY <1>1 DEF Alike, Started
<1>9. AnswersOnce'
  <2>1. \A t \in Sides : \A n \in AnyMessage :
          Has(inbox'[t], n) => Truthful(t, n)'
    BY <1>1, <1>2 DEF AnswersOnce, Truthful, Side
  <2> QED
    BY <1>1, <1>2, <2>1 DEF AnswersOnce, Started
<1>10. FuturesTrue'
  <2> SUFFICES ASSUME NEW k \in Calls
      PROVE  /\ fut'[k] = "result" => answer[got'[k]] = "result"
             /\ fut'[k] = "error" =>
                  \/ got'[k] = None
                  \/ /\ got'[k] \in Calls /\ answer[got'[k]] = "error"
                     /\ \A g \in Calls : g = got'[k] => Alike(g, k)
    BY <1>1, <1>8 DEF FuturesTrue, Alike, Started
  <2>1. CASE fut'[k] = fut[k] /\ got'[k] = got[k]
    BY <2>1 DEF Answering, FuturesTrue
  <2>2. CASE k = f /\ fut'[k] = m.kind /\ got'[k] = m.of
    <3>1. m.of # None => Started(m.of) /\ cid[m.of] = cid[k]
      BY <1>2, <1>5, <2>2 DEF Authentic
    <3>2. m.kind = "error" /\ m.of # None => Alike(m.of, k)
      BY <1>2, <1>5, <2>2, <3>1 DEF Alike, Truthful
    <3> QED
      BY <1>2, <1>4, <2>2, <3>2 DEF Truthful
  <2> QED
    BY <1>6, <2>1, <2>2
<1>11. CallersTrue'
  <2>1. \A k \in Calls : fut'[k] = "cancelled" => fut[k] = "cancelled"
    BY <1>4, <1>6
  <2> QED
    BY <1>1, <1>7, <1>8, <2>1 DEF Answering, CallersTrue, Alike, Started
<1>12. EntryOfCall'
  BY <1>1, <1>7 DEF Answering, EntryOfCall
<1>13. NoAnswerLost'
  <2> SUFFICES ASSUME NEW k \in Calls, open, pc[k] \in {"sending", "waiting"},
                      answer[k] = "result", ~Clash(k)
      PROVE  \/ fut'[k] = "result"
             \/ fut'[k] = "error" /\ got'[k] = None
             \/ Has(inbox'[Side(k)], ResultOf(k))
    BY <1>1, <1>7 DEF NoAnswerLost, Has, ResultOf
  <2>1. \/ fut[k] = "result"
        \/ fut[k] = "error" /\ got[k] = None
        \/ Has(inbox[Side(k)], ResultOf(k))
    BY DEF Answering, NoAnswerLost, Has, ResultOf
  <2>2. CASE fut[k] = "result"
    BY <1>6, <2>2
  <2>3. CASE fut[k] = "error" /\ got[k] = None
    BY <1>6, <2>3
  <2>4. CASE Has(inbox[Side(k)], ResultOf(k)) /\ ~(Side(k) = s
               /\ ResultOf(k) = m)
    BY <1>2, <2>4, ResultTyped
  <2>5. CASE Side(k) = s /\ ResultOf(k) = m
    <3>1. m.id = cid[k] /\ m.kind = "result" /\ m.of = k
      BY <2>5 DEF ResultOf, Message
    <3>2. f = k
      <4>1. outcome[k] # "result" /\ pc[k] # "idle"
        BY DEF Answering, CallersTrue
      <4> QED
        BY <1>3, <2>5, <3>1, <4>1 DEF Answering, EntryOfCall
    <3>3. fut[k] \in {"pending", "result", "error", "cancelled"}
      BY DEF Inductive, TypeOK, FuturesOwn, Started
    <3>4. CASE fut[k] = "pending"
      BY <1>6, <3>1, <3>2, <3>4
    <3>5. CASE fut[k] = "error"
      <4>1. PICK g : g = got[k]
        OBVIOUS
      <4>2. g \in Calls /\ Alike(g, k) => g = k
        BY AlikeClash DEF Inductive, Started
      <4>3. g = None \/ (g \in Calls /\ Alike(g, k) /\ answer[g] = "error")
        BY <3>5, <4>1 DEF Answering, FuturesTrue
      <4>4. g = None
        BY <4>2, <4>3
      <4> QED
        BY <1>6, <3>5, <4>1, <4>4
    <3>6. fut[k] # "cancelled"
      BY DEF Answering, CallersTrue
    <3> QED
      BY <2>2, <3>3, <3>4, <3>5, <3>6
  <2> QED
    BY <2>1, <2>2, <2>3, <2>4, <2>5
<1> QED
  BY <1>9, <1>10, <1>11, <1>12, <1>13 DEF Answering

(* The server reads a result.                                              *)
LEMMA ServerGetsResultAnswers ==
  ASSUME Answering, ServerGetsResult
  PROVE  Answering'
<1>1. Inductive' /\ "server" \in Sides
  BY ServerGetsResultKeeps DEF Answering, Sides
<1>2. PICK m : m = Head(inbox["server"])
  OBVIOUS
<1>3. /\ Taken("server") /\ m.kind # "request" /\ Resolve("server", m)
      /\ UNCHANGED <<open, pending, pc, callerVars, methodVars>>
  BY <1>2 DEF ServerGetsResult
<1> QED
  BY <1>1, <1>2, <1>3, ResolveAnswers

(* The client reads a result or an error.                                  *)
LEMMA ClientGetsAnswerAnswers ==
  ASSUME Answering, ClientGetsAnswer
  PROVE  Answering'
<1>1. Inductive' /\ "client" \in Sides
  BY ClientGetsAnswerKeeps DEF Answering, Sides
<1>2. PICK m : m = Head(inbox["client"])
  OBVIOUS
<1>3. /\ Taken("client") /\ m.kind # "request" /\ Resolve("client", m)
      /\ UNCHANGED <<open, pending, pc, callerVars, methodVars>>
  BY <1>2 DEF ClientGetsAnswer
<1> QED
  BY <1>1, <1>2, <1>3, ResolveAnswers

-----------------------------------------------------------------------------
(* A call that ends leaves the others alone: it drops no entry but its own,*)
(* and cancels no future but its own, unless ids clash.                    *)
LEMMA EndingAnswers ==
  ASSUME Answering, Inductive', NEW k \in Calls,
         Started(k), pc[k] # "done",
         NEW how, NEW whose, Ends(k, how, whose),
         how = "error" => whose = None \/ (whose \in Calls /\ Alike(whose, k)),
         how = "result" =>
           pending' = [pending EXCEPT ![Side(k)][cid[k]] = None],
         how # "result" => pending' = pending,
         \/ fut' = fut
         \/ \E f \in Calls : /\ Alike(f, k)
                             /\ fut' = [fut EXCEPT ![f] = "cancelled"],
         UNCHANGED <<open, inbox, got, nextId, cid, wait, methodVars>>
  PROVE  Answering'
<1> Inductive /\ AnswersOnce /\ TypeOK /\ IdsUnique
  BY DEF Answering, Inductive
<1>1. /\ cid' = cid /\ wait' = wait /\ got' = got /\ answer' = answer
      /\ running' = running /\ worker' = worker /\ open' = open
      /\ inbox' = inbox
  BY DEF methodVars
<1>2. /\ pc'[k] = "done" /\ outcome'[k] = how /\ from'[k] = whose
      /\ \A h \in Calls : h # k =>
           pc'[h] = pc[h] /\ outcome'[h] = outcome[h] /\ from'[h] = from[h]
  BY DEF Ends, TypeOK
<1>3. \A h \in Calls : Started(h)' <=> Started(h)
  BY <1>2 DEF Started
<1>4. \A h \in Calls : Clash(h)' <=> Clash(h)
  BY <1>1 DEF Clash
<1>5. \A h, j \in Calls : Alike(h, j)' <=> Alike(h, j)
  BY <1>1, <1>3 DEF Alike
<1>6. \A h \in Calls :
        fut'[h] = fut[h] \/ (fut'[h] = "cancelled" /\ (h = k \/ Clash(h)))
  <2>1. \A f \in Calls : Alike(f, k) => f = k \/ Clash(f)
    BY AlikeClash
  <2> QED
    BY <2>1 DEF TypeOK
<1>7. AnswersOnce'
  BY <1>1, <1>3 DEF AnswersOnce, Truthful, Side
<1>8. FuturesTrue'
  BY <1>1, <1>5, <1>6 DEF Answering, FuturesTrue, Alike, Started
<1>9. CallersTrue'
  <2> SUFFICES ASSUME NEW h \in Calls
      PROVE  /\ pc'[h] = "idle" => cid[h] = None
             /\ pc'[h] # "done" => outcome'[h] = "none"
             /\ pc'[h] = "waiting" => wait[h] \in Calls /\ Alike(wait[h], h)
             /\ fut'[h] = "cancelled" => pc'[h] = "done" \/ Clash(h)
             /\ outcome'[h] = "error" =>
                  \/ from'[h] = None
                  \/ /\ from'[h] \in Calls
                     /\ \A g \in Calls : g = from'[h] => Alike(g, h)
    BY <1>1, <1>4, <1>5 DEF CallersTrue, Alike, Started
  <2>1. CASE h = k
    BY <1>2, <2>1
  <2>2. CASE h # k
    BY <1>2, <1>6, <2>2 DEF Answering, CallersTrue
  <2> QED
    BY <2>1, <2>2
<1>10. EntryOfCall'
  <2> SUFFICES ASSUME NEW h \in Calls, Started(h), ~Clash(h)
      PROVE  pending'[Side(h)][cid[h]] = h <=> outcome'[h] # "result"
    BY <1>1, <1>3, <1>4 DEF EntryOfCall, Started
  <2>1. /\ Side(h) \in Sides /\ cid[h] \in Ids
        /\ Side(k) \in Sides /\ cid[k] \in Ids
    BY SideOfCall DEF Inductive, IdsBelow
  <2>2. pending[Side(h)][cid[h]] = h <=> outcome[h] # "result"
    BY DEF Answering, EntryOfCall, Started
  <2>3. CASE h # k
    <3>1. ~(Side(h) = Side(k) /\ cid[h] = cid[k])
      BY <2>3, AlikeClash DEF Alike
    <3>2. pending'[Side(h)][cid[h]] = pending[Side(h)][cid[h]]
      BY <2>1, <3>1 DEF TypeOK
    <3> QED
      BY <1>2, <2>2, <2>3, <3>2
  <2>4. CASE h = k /\ how = "result"
    <3>1. pending'[Side(h)][cid[h]] = None
      BY <2>1, <2>4 DEF TypeOK
    <3> QED
      BY <1>2, <2>4, <3>1
  <2>5. CASE h = k /\ how # "result"
    BY <1>2, <2>2, <2>5 DEF Answering, CallersTrue
  <2> QED
    BY <2>3, <2>4, <2>5
<1>11. NoAnswerLost'
  BY <1>1, <1>2, <1>4, <1>6 DEF Answering, NoAnswerLost, Message
<1> QED
  BY <1>7, <1>8, <1>9, <1>10, <1>11 DEF Answering

(* The end of a wait for a future of the call's side and id: only a result *)
(* drops the entry, and an error is one that resolved such a future.       *)
LEMMA ReturnAnswers ==
  ASSUME Answering, Inductive', NEW k \in Calls, Started(k), pc[k] # "done",
         NEW f \in Calls, Alike(f, k), Return(k, f),
         UNCHANGED <<open, inbox, fut, got, nextId, cid, wait, methodVars>>
  PROVE  Answering'
<1> Inductive
  BY DEF Answering
<1>1. Side(k) \in Sides /\ cid[k] \in Ids
  BY SideOfCall DEF Inductive, IdsBelow
<1>2. PICK g : g = IF fut[f] = "result" THEN pending[Side(k)][cid[k]] ELSE f
  OBVIOUS
<1>3. g \in Calls \cup {None}
  BY <1>1, <1>2 DEF Inductive, TypeOK
<1>4. g \in Calls => Alike(g, k)
  BY <1>1, <1>2 DEF Inductive, PendingOwn, Alike
<1>5. CASE Ends(k, "broken", None) /\ UNCHANGED pending
  BY <1>5, EndingAnswers
<1>6. CASE /\ g # None /\ fut[g] # "pending"
           /\ Ends(k, fut[g], got[g])
           /\ pending' = IF fut[g] = "result"
                         THEN [pending EXCEPT ![Side(k)][cid[k]] = None]
                         ELSE pending
  <2>1. PICK how, whose : how = fut[g] /\ whose = got[g]
    OBVIOUS
  <2>2. how = "error" => whose = None \/ (whose \in Calls /\ Alike(whose, k))
    <3>1. whose \in Calls /\ Alike(whose, g) => Alike(whose, k)
      BY <1>3, <1>4, <1>6 DEF Alike
    <3> QED
      BY <1>3, <1>6, <2>1, <3>1 DEF Answering, FuturesTrue
  <2>3. /\ Ends(k, how, whose)
        /\ how = "result" =>
             pending' = [pending EXCEPT ![Side(k)][cid[k]] = None]
        /\ how # "result" => pending' = pending
    BY <1>6, <2>1
  <2> QED
    BY <2>2, <2>3, EndingAnswers
<1> QED
  BY <1>2, <1>5, <1>6 DEF Return

(* send_str returned.                                                      *)
LEMMA SentAnswers ==
  ASSUME Answering, NEW k \in Calls, Sent(k)
  PROVE  Answering'
<1> Inductive /\ TypeOK /\ AnswersOnce
  BY DEF Answering, Inductive
<1>1. /\ Inductive' /\ pc[k] = "sending" /\ Started(k)
      /\ Side(k) \in Sides /\ cid[k] \in Ids
      /\ UNCHANGED <<open, inbox, fut, got, nextId, cid, methodVars>>
  BY SentKeeps, SideOfCall DEF Sent, Started, Inductive, IdsBelow
<1>2. PICK f : f = pending[Side(k)][cid[k]]
  OBVIOUS
<1>3. f \in Calls \cup {None} /\ (f \in Calls => Alike(f, k))
  BY <1>1, <1>2 DEF Inductive, TypeOK, PendingOwn, Alike
<1>4. CASE /\ f # None
           /\ pc' = [pc EXCEPT ![k] = "waiting"]
           /\ wait' = [wait EXCEPT ![k] = f]
           /\ UNCHANGED <<pending, outcome, from>>
  <2>1. /\ cid' = cid /\ outcome' = outcome /\ from' = from /\ fut' = fut
        /\ got' = got /\ pending' = pending /\ answer' = answer
        /\ running' = running /\ worker' = worker /\ open' = open
        /\ inbox' = inbox
    BY <1>1, <1>4 DEF methodVars
  <2>2. /\ pc'[k] = "waiting" /\ wait'[k] = f
        /\ \A h \in Calls : h # k => pc'[h] = pc[h] /\ wait'[h] = wait[h]
    BY <1>4 DEF TypeOK
  <2>3. \A h \in Calls : Started(h)' <=> Started(h)
    BY <1>1, <2>2 DEF Started
  <2>4. \A h, j \in Calls : Alike(h, j)' <=> Alike(h, j)
    BY <2>1, <2>3 DEF Alike
  <2>5. \A h \in Calls : Clash(h)' <=> Clash(h)
    BY <2>1 DEF Clash
  <2>6. AnswersOnce'
    BY <2>1, <2>3 DEF AnswersOnce, Truthful, Side
  <2>7. FuturesTrue'
    BY <2>1, <2>4 DEF Answering, FuturesTrue, Alike, Started
  <2>8. CallersTrue'
    <3> SUFFICES ASSUME NEW h \in Calls
        PROVE  /\ pc'[h] = "idle" => cid[h] = None
               /\ pc'[h] # "done" => outcome[h] = "none"
               /\ pc'[h] = "waiting" =>
                    /\ wait'[h] \in Calls
                    /\ \A g \in Calls : g = wait'[h] => Alike(g, h)
               /\ fut[h] = "cancelled" => pc'[h] = "done" \/ Clash(h)
               /\ outcome[h] = "error" =>
                    \/ from[h] = None
                    \/ from[h] \in Calls /\ Alike(from[h], h)
      BY <2>1, <2>4, <2>5 DEF CallersTrue, Alike, Started
    <3> QED
      BY <1>1, <1>3, <1>4, <2>2 DEF Answering, CallersTrue
  <2>9. EntryOfCall'
    BY <2>1, <2>3, <2>5 DEF Answering, EntryOfCall, Started
  <2>10. NoAnswerLost'
    BY <1>1, <2>1, <2>2, <2>5 DEF Answering, NoAnswerLost, Message
  <2> QED
    BY <1>1, <2>6, <2>7, <2>8, <2>9, <2>10 DEF Answering
<1>5. CASE f # None /\ Return(k, f) /\ UNCHANGED wait
  BY <1>1, <1>3, <1>5, ReturnAnswers
<1>6. CASE Ends(k, "broken", None) /\ UNCHANGED <<pending, wait>>
  BY <1>1, <1>6, EndingAnswers
<1> QED
  BY <1>2, <1>4, <1>5, <1>6 DEF Sent

(* A send fails.                                                           *)
LEMMA SendFailsAnswers ==
  ASSUME Answering, NEW k \in Calls, SendFails(k)
  PROVE  Answering'
<1>1. /\ Inductive' /\ Started(k) /\ pc[k] # "done"
      /\ Ends(k, "lost", None)
      /\ UNCHANGED <<open, inbox, pending, fut, got, nextId, cid, wait,
                     methodVars>>
  BY SendFailsKeeps DEF SendFails, Started, Answering
<1> QED
  BY <1>1, EndingAnswers

(* A caller finds its future done.                                         *)
LEMMA WakeUpAnswers ==
  ASSUME Answering, NEW k \in Calls, WakeUp(k)
  PROVE  Answering'
<1>1. PICK f : f = wait[k]
  OBVIOUS
<1>2. /\ Inductive' /\ Started(k) /\ pc[k] # "done"
      /\ f \in Calls /\ Alike(f, k) /\ Return(k, f)
      /\ UNCHANGED <<open, inbox, fut, got, nextId, cid, wait, methodVars>>
  BY <1>1, WakeUpKeeps DEF WakeUp, Started, Answering, CallersTrue
<1> QED
  BY <1>2, ReturnAnswers

(* A caller gives up the future it waits for.                              *)
LEMMA TimeoutAnswers ==
  ASSUME Answering, NEW k \in Calls, Timeout(k)
  PROVE  Answering'
<1>1. /\ Inductive' /\ Started(k) /\ pc[k] # "done"
      /\ Ends(k, "timeout", None)
      /\ UNCHANGED <<open, inbox, pending, got, nextId, cid, wait, methodVars>>
  BY TimeoutKeeps DEF Timeout, Started, Answering
<1>2. \E f \in Calls : Alike(f, k) /\ fut' = [fut EXCEPT ![f] = "cancelled"]
  BY DEF Timeout, Answering, CallersTrue
<1> QED
  BY <1>1, <1>2, EndingAnswers

-----------------------------------------------------------------------------
(* A call is made: it registers its future, and writes over nobody's entry *)
(* but that of a call with which it clashes.                               *)
LEMMA CallAnswers ==
  ASSUME Answering, NEW k \in Calls, NEW x \in ExplicitIds \cup {None},
         Call(k, x)
  PROVE  Answering'
<1> Inductive /\ TypeOK /\ AnswersOnce /\ Inductive'
  BY CallKeeps DEF Answering, Inductive
<1>1. /\ ~Started(k) /\ pc[k] = "idle" /\ cid[k] = None
      /\ Side(k) \in Sides /\ Peer(k) \in Sides
  BY SideOfCall DEF Call, Started, Answering, CallersTrue
<1>2. PICK i \in Ids : cid' = [cid EXCEPT ![k] = i]
  BY AssignIdEffect DEF Call
<1>3. cid'[k] = i /\ \A h \in Calls \ {k} : cid'[h] = cid[h]
  BY <1>2 DEF TypeOK
<1>4. PICK m : m = Message("request", i, k)
  OBVIOUS
<1>5. /\ pending' = [pending EXCEPT ![Side(k)][i] = k]
      /\ fut' = [fut EXCEPT ![k] = "pending"]
      /\ got' = got /\ wait' = wait /\ open' = open
      /\ running' = running /\ worker' = worker /\ answer' = answer
  BY <1>3 DEF Call, Register, methodVars
<1>6. \/ /\ pc' = [pc EXCEPT ![k] = "sending"]
         /\ Send(Peer(k), m)
         /\ outcome' = outcome /\ from' = from
      \/ /\ pc' = [pc EXCEPT ![k] = "done"]
         /\ outcome' = [outcome EXCEPT ![k] = "lost"]
         /\ from' = [from EXCEPT ![k] = None]
         /\ inbox' = inbox
  BY <1>3, <1>4 DEF Call, Ends
<1>7. /\ pc'[k] \in {"sending", "done"}
      /\ pc'[k] = "sending" => outcome'[k] = outcome[k]
      /\ outcome'[k] \in {outcome[k], "lost"}
      /\ \A h \in Calls \ {k} :
           /\ pc'[h] = pc[h] /\ outcome'[h] = outcome[h] /\ from'[h] = from[h]
           /\ fut'[h] = fut[h]
      /\ fut'[k] = "pending"
  BY <1>5, <1>6 DEF TypeOK
<1>8. Started(k)' /\ \A h \in Calls \ {k} : Started(h)' <=> Started(h)
  BY <1>7 DEF Started
<1>9. \A h, j \in Calls : Alike(h, j) /\ Started(j) => Alike(h, j)'
  BY <1>1, <1>3, <1>8 DEF Alike
<1>10. \A h \in Calls : Started(h) /\ Clash(h) => Clash(h)'
  <2> SUFFICES ASSUME NEW h \in Calls, Started(h), Clash(h)
               PROVE  Clash(h)'
    OBVIOUS
  <2>1. PICK j \in ClientCalls \ {h} : cid[j] = cid[h]
    BY DEF Clash
  <2>2. cid[h] \in ExplicitIds \ {0} /\ cid[h] # None
    BY DEF Clash
  <2>3. h # k /\ j # k
    BY <1>1, <2>1, <2>2
  <2>4. cid'[j] = cid[j] /\ cid'[h] = cid[h]
    BY <1>3, <2>3
  <2> QED
    BY <2>1, <2>2, <2>4 DEF Clash
<1>11. /\ \A t \in Sides : \A n \in AnyMessage :
            Has(inbox[t], n) => n.of # k
       /\ m \in AnyMessage /\ m.kind = "request" /\ m.of = k
  BY <1>1, <1>4
  DEF Inductive, MessagesOwn, Authentic, Has, AnyMessage, Messages, Message
<1>12. /\ \A t \in Sides : Once(inbox'[t])
       /\ \A t \in Sides : \A n \in AnyMessage :
            /\ Has(inbox'[t], n) => Has(inbox[t], n) \/ n = m
            /\ Has(inbox[t], n) => Has(inbox'[t], n)
  <2>1. CASE inbox' = inbox
    BY <2>1 DEF AnswersOnce
  <2>2. CASE inbox' = [inbox EXCEPT ![Peer(k)] = Append(@, m)]
    <3>1. /\ inbox[Peer(k)] \in Seq(AnyMessage)
          /\ inbox'[Peer(k)] = Append(inbox[Peer(k)], m)
          /\ \A t \in Sides : t # Peer(k) => inbox'[t] = inbox[t]
      BY <1>1, <2>2 DEF TypeOK
    <3>2. PICK q : q = inbox[Peer(k)]
      OBVIOUS
    <3>3. Once(q) /\ \A n \in AnyMessage : Has(q, n) => n.of # m.of
      BY <1>1, <1>11, <3>2 DEF AnswersOnce
    <3>4. /\ Once(Append(q, m))
          /\ \A n \in AnyMessage : Has(Append(q, m), n) <=> Has(q, n) \/ n = m
      BY <1>11, <3>1, <3>2, <3>3, AppendHas
    <3>5. \A t \in Sides : Once(inbox'[t])
      BY <3>1, <3>2, <3>4 DEF AnswersOnce
    <3>6. ASSUME NEW t \in Sides, NEW n \in AnyMessage
          PROVE  /\ Has(inbox'[t], n) => Has(inbox[t], n) \/ n = m
                 /\ Has(inbox[t], n) => Has(inbox'[t], n)
      <4>1. CASE t = Peer(k)
        BY <3>1, <3>2, <3>4, <4>1
      <4>2. CASE t # Peer(k)
        <5>1. inbox'[t] = inbox[t]
          BY <3>1, <4>2
        <5> QED
          BY <5>1
      <4> QED
        BY <4>1, <4>2
    <3> QED
      BY <3>5, <3>6
  <2> QED
    BY <1>6, <2>1, <2>2 DEF Send
<1>13. answer[k] = None /\ k \notin running /\ k # worker
  BY <1>1 DEF AnswersOnce, Inductive, MethodsStarted
<1>14. AnswersOnce'
  <2>1. ASSUME NEW t \in Sides, NEW n \in AnyMessage, Has(inbox'[t], n)
        PROVE  Truthful(t, n)'
    <3>1. CASE Has(inbox[t], n)
      BY <1>5, <3>1 DEF AnswersOnce, Truthful, Side
    <3>2. CASE n = m
      BY <1>5, <1>11, <1>13, <3>2 DEF Truthful
    <3> QED
      BY <1>12, <2>1, <3>1, <3>2
  <2> QED
    BY <1>5, <1>8, <1>12, <2>1 DEF AnswersOnce
<1>15. FuturesTrue'
  <2> SUFFICES ASSUME NEW h \in Calls
      PROVE  /\ fut'[h] = "result" => answer[got[h]] = "result"
             /\ fut'[h] = "error" =>
                  \/ got[h] = None
                  \/ /\ got[h] \in Calls /\ answer[got[h]] = "error"
                     /\ \A g \in Calls : g = got[h] => Alike(g, h)'
    BY <1>5 DEF FuturesTrue, Alike, Started
  <2>1. CASE h = k
    BY <1>7, <2>1
  <2>2. CASE h # k
    <3>1. fut[h] = "error" => Started(h)
      BY DEF Inductive, FuturesOwn
    <3> QED
      BY <1>7, <1>9, <2>2, <3>1 DEF Answering, FuturesTrue
  <2> QED
    BY <2>1, <2>2
<1>16. CallersTrue'
  <2> SUFFICES ASSUME NEW h \in Calls
      PROVE  /\ pc'[h] = "idle" => cid'[h] = None
             /\ pc'[h] # "done" => outcome'[h] = "none"
             /\ pc'[h] = "waiting" =>
                  /\ wait[h] \in Calls
                  /\ \A g \in Calls : g = wait[h] => Alike(g, h)'
             /\ fut'[h] = "cancelled" => pc'[h] = "done" \/ Clash(h)'
             /\ outcome'[h] = "error" =>
                  \/ from'[h] = None
                  \/ /\ from'[h] \in Calls
                     /\ \A g \in Calls : g = from'[h] => Alike(g, h)'
    BY <1>5 DEF CallersTrue, Alike, Started
  <2>1. CASE h = k
    <3>1. outcome[k] = "none"
      BY <1>1 DEF Answering, CallersTrue
    <3> QED
      BY <1>7, <2>1, <3>1
  <2>2. CASE h # k
    <3>1. /\ pc'[h] = pc[h] /\ outcome'[h] = outcome[h] /\ from'[h] = from[h]
          /\ fut'[h] = fut[h] /\ cid'[h] = cid[h]
      BY <1>3, <1>7, <2>2
    <3>2. /\ pc[h] = "idle" => cid[h] = None
          /\ pc[h] # "done" => outcome[h] = "none"
          /\ pc[h] = "waiting" => wait[h] \in Calls /\ Alike(wait[h], h)
          /\ fut[h] = "cancelled" => pc[h] = "done" \/ Clash(h)
          /\ outcome[h] = "error" =>
               \/ from[h] = None
               \/ from[h] \in Calls /\ Alike(from[h], h)
      BY DEF Answering, CallersTrue
    <3>3. /\ pc[h] = "waiting" => Started(h)
          /\ fut[h] = "cancelled" => Started(h)
          /\ outcome[h] = "error" => Started(h)
      BY <3>2 DEF Started, Inductive, FuturesOwn
    <3> QED
      BY <1>9, <1>10, <3>1, <3>2, <3>3
  <2> QED
    BY <2>1, <2>2
<1>17. EntryOfCall'
  <2> SUFFICES ASSUME NEW h \in Calls, Started(h)', ~Clash(h)'
      PROVE  pending'[Side(h)][cid'[h]] = h <=> outcome'[h] # "result"
    BY DEF EntryOfCall, Started, Side
  <2>1. CASE h = k
    <3>1. outcome[k] = "none"
      BY <1>1 DEF Answering, CallersTrue
    <3>2. pending'[Side(k)][i] = k
      BY <1>1, <1>5 DEF TypeOK
    <3> QED
      BY <1>3, <1>7, <2>1, <3>1, <3>2
  <2>2. CASE h # k
    <3>1. /\ Started(h) /\ cid'[h] = cid[h] /\ ~Clash(h)
          /\ Side(h) \in Sides /\ cid[h] \in Ids
      BY <1>3, <1>8, <1>10, <2>2, SideOfCall DEF Inductive, IdsBelow
    <3>2. ~(Side(h) = Side(k) /\ cid[h] = i)
      <4> SUFFICES ASSUME Side(h) = Side(k), cid[h] = i
                   PROVE  FALSE
        OBVIOUS
      <4>1. Alike(k, h)'
        BY <1>3, <1>8, <3>1 DEF Alike, Side
      <4>2. Chosen(h)'
        BY <2>2, <4>1 DEF Inductive, IdsUnique
      <4>3. k \in ClientCalls
        BY <4>2 DEF Chosen, Side
      <4> QED
        BY <1>3, <2>2, <3>1, <4>2, <4>3 DEF Chosen, Clash
    <3>3. pending'[Side(h)][cid[h]] = pending[Side(h)][cid[h]]
      BY <1>1, <1>5, <3>1, <3>2 DEF TypeOK
    <3> QED
      BY <1>7, <2>2, <3>1, <3>3 DEF Answering, EntryOfCall, Started
  <2> QED
    BY <2>1, <2>2
<1>18. NoAnswerLost'
  <2> SUFFICES ASSUME NEW h \in Calls, open, pc'[h] \in {"sending", "waiting"},
                      answer[h] = "result", ~Clash(h)'
      PROVE  \/ fut'[h] = "result"
             \/ fut'[h] = "error" /\ got[h] = None
             \/ Has(inbox'[Side(h)], Message("result", cid'[h], h))
    BY <1>5 DEF NoAnswerLost, Has, Side
  <2>1. h # k
    BY <1>13
  <2>2. /\ pc[h] \in {"sending", "waiting"} /\ Started(h) /\ ~Clash(h)
        /\ cid'[h] = cid[h] /\ fut'[h] = fut[h]
    BY <1>3, <1>7, <1>10, <2>1 DEF Started
  <2>3. \/ fut[h] = "result"
        \/ fut[h] = "error" /\ got[h] = None
        \/ Has(inbox[Side(h)], ResultOf(h))
    BY <2>2 DEF Answering, NoAnswerLost, Has, ResultOf
  <2>4. Has(inbox[Side(h)], ResultOf(h)) => Has(inbox'[Side(h)], ResultOf(h))
    BY <1>12, ResultTyped
  <2> QED
    BY <2>2, <2>3, <2>4 DEF ResultOf
<1> QED
  BY <1>14, <1>15, <1>16, <1>17, <1>18 DEF Answering

(* Every step keeps the invariant.                                         *)
LEMMA AnsweringNext ==
  ASSUME Answering, [Next]_vars
  PROVE  Answering'
<1>1. ASSUME NEW k \in Calls, NEW x \in ExplicitIds \cup {None}, Call(k, x)
      PROVE  Answering'
  BY <1>1, CallAnswers
<1>2. ASSUME NEW k \in Calls, CallerStep(k)
      PROVE  Answering'
  BY <1>2, SentAnswers, SendFailsAnswers, WakeUpAnswers, TimeoutAnswers
  DEF CallerStep
<1>3. CASE ReceiverStep
  BY <1>3, ServerGetsRequestAnswers, ServerGetsResultAnswers,
     ServerGetsErrorAnswers, ClientGetsRequestAnswers, ClientRejectsAnswers,
     ClientGetsAnswerAnswers, MethodEndsAnswers, WorkerStopsAnswers
  DEF ReceiverStep
<1>4. ASSUME NEW k \in ClientCalls, NEW a \in {"result", "error"},
             ServerReplies(k, a)
      PROVE  Answering'
  BY <1>4, ServerRepliesAnswers
<1>5. CASE Lose
  BY <1>5, LoseAnswers
<1>6. CASE UNCHANGED vars
  <2>1. UNCHANGED <<open, inbox, pending, fut, got, pc, callerVars, methodVars>>
    BY <1>6 DEF vars
  <2>2. Inductive'
    BY <1>6, InductiveNext DEF Answering
  <2>3. AnswersOnce'
    BY <2>1 DEF Answering, AnswersOnce, Truthful, Started, Side, methodVars
  <2>4. Delivery
    BY <2>1 DEF Delivery, methodVars
  <2> QED
    BY <2>1, <2>2, <2>3, <2>4, DeliveryKeeps
<1> QED
  BY <1>1, <1>2, <1>3, <1>4, <1>5, <1>6 DEF Next

(* It holds when nothing was called yet.                                   *)
LEMMA AnsweringInit ==
  ASSUME Init
  PROVE  Answering
<1>1. Len(<<>>) = 0
  OBVIOUS
<1>2. \A s \in Sides : Once(inbox[s]) /\ \A m \in AnyMessage : ~Has(inbox[s], m)
  BY <1>1 DEF Init, Once, Has
<1>3. AnswersOnce
  BY <1>2 DEF Init, AnswersOnce
<1>4. FuturesTrue /\ CallersTrue /\ EntryOfCall /\ NoAnswerLost
  BY DEF Init, FuturesTrue, CallersTrue, EntryOfCall, NoAnswerLost
<1> QED
  BY <1>3, <1>4, InductiveInit DEF Answering

(* The invariant holds in every reachable state.                           *)
LEMMA AnsweringAlways == Spec => []Answering
<1>1. Init => Answering
  BY AnsweringInit
<1>2. Answering /\ [Next]_vars => Answering'
  BY AnsweringNext
<1> QED
  BY <1>1, <1>2, PTL DEF Spec

(* The result of a call in flight is not lost, although it may arrive while*)
(* send_str still waits (communicaton.py:60-73, client.py:167-179).        *)
THEOREM ResultsAreKept == Spec => []NoAnswerLost
<1>1. Answering => NoAnswerLost
  BY DEF Answering
<1> QED
  BY <1>1, AnsweringAlways, PTL

(* A call drops its own entry of pending, when it returns a result and not *)
(* before, and no other (communicaton.py:70-76, client.py:179-182).        *)
THEOREM EntriesAreOwn == Spec => []EntryOfCall
<1>1. Answering => EntryOfCall
  BY DEF Answering
<1> QED
  BY <1>1, AnsweringAlways, PTL

-----------------------------------------------------------------------------
(* A message that is sent is the only one that is new.                     *)
LEMMA SentHas ==
  ASSUME TypeOK, NEW s \in Sides, NEW m \in AnyMessage, Send(s, m),
         NEW t \in Sides, NEW n \in AnyMessage, Has(inbox'[t], n)
  PROVE  Has(inbox[t], n) \/ (t = s /\ n = m)
<1>1. inbox \in [Sides -> Seq(AnyMessage)] /\ inbox[s] \in Seq(AnyMessage)
  BY DEF TypeOK
<1>2. CASE inbox'[t] = inbox[t]
  BY <1>2
<1>3. CASE t = s /\ inbox'[t] = Append(inbox[s], m)
  BY <1>1, <1>3, AppendHas
<1> QED
  BY <1>1, <1>2, <1>3 DEF Send

(* A message that is read was there, and nothing is new.                   *)
LEMMA TakenHas ==
  ASSUME TypeOK, NEW s \in Sides, Taken(s)
  PROVE  /\ Head(inbox[s]) \in AnyMessage /\ Has(inbox[s], Head(inbox[s]))
         /\ \A t \in Sides : \A n \in AnyMessage :
              Has(inbox'[t], n) => Has(inbox[t], n)
<1>1. /\ inbox[s] \in Seq(AnyMessage) /\ inbox[s] # <<>>
      /\ inbox'[s] = Tail(inbox[s])
      /\ \A t \in Sides : t # s => inbox'[t] = inbox[t]
  BY DEF TypeOK, Taken
<1>2. /\ Head(inbox[s]) \in AnyMessage /\ Has(inbox[s], Head(inbox[s]))
      /\ \A n \in AnyMessage : Has(inbox'[s], n) => Has(inbox[s], n)
  BY <1>1, TailHas
<1>3. ASSUME NEW t \in Sides, NEW n \in AnyMessage, Has(inbox'[t], n)
      PROVE  Has(inbox[t], n)
  <2>1. CASE t = s
    BY <1>2, <1>3, <2>1
  <2>2. CASE t # s
    <3>1. inbox'[t] = inbox[t]
      BY <1>1, <2>2
    <3> QED
      BY <1>3, <3>1
  <2> QED
    BY <2>1, <2>2
<1> QED
  BY <1>2, <1>3

(* What a step leaves alone that only changes messages and methods.        *)
LEMMA NoStraysSent ==
  ASSUME NoStrays, UNCHANGED <<fut, got, outcome, from>>,
         \A t \in Sides : \A n \in AnyMessage : Has(inbox'[t], n) =>
           \/ Has(inbox[t], n)
           \/ n.of # None /\ (n.kind = "error" => t = "client")
  PROVE  NoStrays'
BY DEF NoStrays

(* A future is resolved by a message of a call.                            *)
LEMMA NoStraysResolved ==
  ASSUME Inductive, NoStrays, NEW s \in Sides, NEW m,
         m = Head(inbox[s]), m.kind # "request", Taken(s), Resolve(s, m),
         UNCHANGED <<outcome, from>>
  PROVE  NoStrays'
<1>1. /\ m \in AnyMessage /\ Has(inbox[s], m)
      /\ \A t \in Sides : \A n \in AnyMessage :
           Has(inbox'[t], n) => Has(inbox[t], n)
  BY TakenHas DEF Inductive
<1>2. m.of # None
  BY <1>1 DEF NoStrays
<1>3. \A k \in Calls : \/ fut'[k] = fut[k] /\ got'[k] = got[k]
                       \/ got'[k] = m.of
  BY DEF Resolve, Inductive, TypeOK
<1> QED
  BY <1>1, <1>2, <1>3 DEF NoStrays

(* A call that ends with an error ends with one of a call.                 *)
LEMMA NoStraysReturned ==
  ASSUME Inductive, NoStrays, NEW k \in Calls, Started(k), NEW f \in Calls,
         Return(k, f), UNCHANGED <<inbox, fut, got>>
  PROVE  NoStrays'
<1>1. Side(k) \in Sides /\ cid[k] \in Ids
  BY SideOfCall DEF Inductive, IdsBelow
<1>2. PICK g : g = IF fut[f] = "result" THEN pending[Side(k)][cid[k]] ELSE f
  OBVIOUS
<1>3. g \in Calls \cup {None}
  BY <1>1, <1>2 DEF Inductive, TypeOK
<1>4. \/ Ends(k, "broken", None)
      \/ g # None /\ Ends(k, fut[g], got[g])
  BY <1>2 DEF Return
<1>5. \A h \in Calls : outcome'[h] = "error" => from'[h] # None
  BY <1>3, <1>4 DEF Ends, NoStrays, Inductive, TypeOK
<1> QED
  BY <1>5 DEF NoStrays

(* If the client rejects nothing, no error is without its call.            *)
LEMMA NoStraysNext ==
  ASSUME ~ClientErrors, Answering, NoStrays, [Next]_vars
  PROVE  NoStrays'
<1> /\ Inductive /\ TypeOK /\ "server" \in Sides /\ "client" \in Sides
    /\ "server" # "client"
  BY DEF Answering, Inductive, Sides
<1>1. ASSUME NEW k \in Calls, NEW x \in ExplicitIds \cup {None}, Call(k, x)
      PROVE  NoStrays'
  <2>1. PICK i \in Ids : cid' = [cid EXCEPT ![k] = i]
    BY <1>1, AssignIdEffect DEF Call
  <2>2. PICK m : m = Message("request", i, k)
    OBVIOUS
  <2>3. cid'[k] = i /\ Peer(k) \in Sides
    BY <2>1, SideOfCall DEF TypeOK
  <2>4. m \in AnyMessage /\ m.kind = "request" /\ m.of # None
    BY <2>2 DEF Message, Messages, AnyMessage
  <2>5. \A t \in Sides : \A n \in AnyMessage :
          Has(inbox'[t], n) => Has(inbox[t], n) \/ n = m
    BY <1>1, <2>2, <2>3, <2>4, SentHas DEF Call
  <2>6. /\ got' = got
        /\ \A h \in Calls : fut'[h] = "error" => fut[h] = "error"
        /\ \A h \in Calls : outcome'[h] = "error" =>
             outcome[h] = "error" /\ from'[h] = from[h]
    BY <1>1 DEF Call, Ends, TypeOK
  <2> QED
    BY <2>4, <2>5, <2>6 DEF NoStrays
<1>2. ASSUME NEW k \in Calls, Sent(k)
      PROVE  NoStrays'
  <2>1. PICK f : f = pending[Side(k)][cid[k]]
    OBVIOUS
  <2>2. Started(k) /\ f \in Calls \cup {None} /\ UNCHANGED <<inbox, fut, got>>
    BY <1>2, <2>1, SideOfCall DEF Sent, Started, Inductive, TypeOK, IdsBelow
  <2>3. CASE f # None /\ Return(k, f)
    BY <2>2, <2>3, NoStraysReturned
  <2>4. CASE UNCHANGED <<outcome, from>>
    BY <2>2, <2>4 DEF NoStrays
  <2>5. CASE Ends(k, "broken", None)
    BY <2>2, <2>5 DEF NoStrays, Ends, TypeOK
  <2> QED
    BY <1>2, <2>1, <2>3, <2>4, <2>5 DEF Sent
<1>3. ASSUME NEW k \in Calls, SendFails(k)
      PROVE  NoStrays'
  BY <1>3 DEF SendFails, Ends, NoStrays, TypeOK
<1>4. ASSUME NEW k \in Calls, WakeUp(k)
      PROVE  NoStrays'
  <2>1. PICK f : f = wait[k]
    OBVIOUS
  <2>2. /\ f \in Calls /\ Started(k) /\ Return(k, f)
        /\ UNCHANGED <<inbox, fut, got>>
    BY <1>4, <2>1 DEF WakeUp, Started, Inductive, FuturesOwn
  <2> QED
    BY <2>2, NoStraysReturned
<1>5. ASSUME NEW k \in Calls, Timeout(k)
      PROVE  NoStrays'
  BY <1>5 DEF Timeout, Ends, NoStrays, TypeOK
<1>6. CASE ServerGetsRequest \/ ClientGetsRequest
  BY <1>6, TakenHas, NoStraysSent
  DEF ServerGetsRequest, ClientGetsRequest, callerVars
<1>7. CASE ServerGetsResult
  <2>1. PICK m : m = Head(inbox["server"])
    OBVIOUS
  <2>2. /\ Taken("server") /\ m.kind # "request" /\ Resolve("server", m)
        /\ UNCHANGED <<outcome, from>>
    BY <1>7, <2>1 DEF ServerGetsResult, callerVars
  <2> QED
    BY <2>1, <2>2, NoStraysResolved
<1>8. CASE ClientGetsAnswer
  <2>1. PICK m : m = Head(inbox["client"])
    OBVIOUS
  <2>2. /\ Taken("client") /\ m.kind # "request" /\ Resolve("client", m)
        /\ UNCHANGED <<outcome, from>>
    BY <1>8, <2>1 DEF ClientGetsAnswer, callerVars
  <2> QED
    BY <2>1, <2>2, NoStraysResolved
<1>9. ~ServerGetsError /\ ~ClientRejects
  <2>1. ASSUME inbox["server"] # <<>>
        PROVE  Head(inbox["server"]).kind # "error"
    <3>1. /\ Head(inbox["server"]) \in AnyMessage
          /\ Has(inbox["server"], Head(inbox["server"]))
      BY <2>1, TailHas DEF TypeOK
    <3> QED
      BY <3>1 DEF NoStrays
  <2> QED
    BY <2>1 DEF ServerGetsError, ClientRejects
<1>10. CASE MethodEnds
  <2>1. PICK k, m : k = worker /\ m = Message("result", cid[k], k)
    OBVIOUS
  <2>2. /\ k \in ServerCalls /\ k # None /\ Started(k)
        /\ UNCHANGED <<fut, got, outcome, from>>
    BY <1>10, <2>1 DEF MethodEnds, Inductive, MethodsStarted, callerVars
  <2>3. m \in AnyMessage /\ m.kind = "result" /\ m.of # None
    BY <2>1, <2>2 DEF Message, Messages, AnyMessage, Inductive, IdsBelow
  <2>4. Send("server", m) \/ inbox' = inbox
    BY <1>10, <2>1 DEF MethodEnds
  <2>5. \A t \in Sides : \A n \in AnyMessage :
          Has(inbox'[t], n) => Has(inbox[t], n) \/ n = m
    BY <2>3, <2>4, SentHas
  <2> QED
    BY <2>2, <2>3, <2>5, NoStraysSent
<1>11. ASSUME NEW k \in ClientCalls, NEW a \in {"result", "error"},
              ServerReplies(k, a)
       PROVE  NoStrays'
  <2>1. PICK m : m = Message(a, cid[k], k)
    OBVIOUS
  <2>2. /\ k # None /\ Started(k) /\ Send("client", m)
        /\ UNCHANGED <<fut, got, outcome, from>>
    BY <1>11, <2>1 DEF ServerReplies, Inductive, MethodsStarted, callerVars
  <2>3. m \in AnyMessage /\ m.of # None
    BY <2>1, <2>2 DEF Message, Messages, AnyMessage, Inductive, IdsBelow
  <2>4. \A t \in Sides : \A n \in AnyMessage :
          Has(inbox'[t], n) => Has(inbox[t], n) \/ (t = "client" /\ n = m)
    BY <2>2, <2>3, SentHas
  <2> QED
    BY <2>2, <2>3, <2>4, NoStraysSent
<1>12. CASE Lose
  <2>1. Len(<<>>) = 0 /\ UNCHANGED <<fut, got, outcome, from>>
    BY <1>12 DEF Lose, callerVars
  <2>2. \A t \in Sides : \A n \in AnyMessage : ~Has(inbox'[t], n)
    BY <1>12, <2>1 DEF Lose, Has
  <2> QED
    BY <2>1, <2>2, NoStraysSent
<1>13. CASE WorkerStops \/ UNCHANGED vars
  BY <1>13, NoStraysSent DEF WorkerStops, vars, callerVars
<1> QED
  BY <1>1, <1>2, <1>3, <1>4, <1>5, <1>6, <1>7, <1>8, <1>9, <1>10, <1>11, <1>12,
     <1>13 DEF Next, CallerStep, ReceiverStep

(* An error is without its call only where a client rejects a request.     *)
LEMMA NoStraysAlways ==
  ASSUME ~ClientErrors
  PROVE  Spec => []NoStrays
<1>1. Init => NoStrays
  <2>1. Len(<<>>) = 0
    OBVIOUS
  <2> QED
    BY <2>1 DEF Init, NoStrays, Has
<1>2. NoStrays /\ Answering /\ [Next]_vars => NoStrays'
  BY NoStraysNext
<1> QED
  BY <1>1, <1>2, AnsweringAlways, PTL DEF Spec

(* Where the server calls only methods the client has, a call that raises  *)
(* an RPC error raises the one that answers its own request, unless its    *)
(* caller reused an id.  Without that condition it does not: an error the  *)
(* server answers by an error (rpc.py:350-355) has the id of another call. *)
THEOREM ErrorsAreOwn ==
  ASSUME ~ClientErrors
  PROVE  Spec => []OwnError
<1>1. ASSUME Answering, NoStrays, NEW k \in Calls, outcome[k] = "error"
      PROVE  from[k] = k \/ Clash(k)
  <2>1. PICK h : h = from[k]
    OBVIOUS
  <2>2. h \in Calls /\ Alike(h, k)
    BY <1>1, <2>1 DEF Answering, CallersTrue, NoStrays
  <2>3. Started(k)
    BY <1>1 DEF Answering, CallersTrue, Started
  <2> QED
    BY <1>1, <2>1, <2>2, <2>3, AlikeClash DEF Answering, Inductive
<1>2. Answering /\ NoStrays => OwnError
  BY <1>1 DEF OwnError
<1> QED
  BY <1>2, AnsweringAlways, NoStraysAlways, PTL

OwnOrNobodys ==
  \A k \in Calls : outcome[k] = "error" => from[k] \in {k, None} \/ Clash(k)

(* In any case an error that a call raises is its own or nobody's, the     *)
(* answer to an error (rpc.py:350-355), unless its caller reused an id.    *)
THEOREM ErrorsAreOwnOrNobodys == Spec => []OwnOrNobodys
<1>1. ASSUME Answering, NEW k \in Calls, outcome[k] = "error"
      PROVE  from[k] \in {k, None} \/ Clash(k)
  <2>1. PICK h : h = from[k]
    OBVIOUS
  <2>2. h = None \/ (h \in Calls /\ Alike(h, k))
    BY <1>1, <2>1 DEF Answering, CallersTrue
  <2>3. Started(k)
    BY <1>1 DEF Answering, CallersTrue, Started
  <2> QED
    BY <1>1, <2>1, <2>2, <2>3, AlikeClash DEF Answering, Inductive
<1>2. Answering => OwnOrNobodys
  BY <1>1 DEF OwnOrNobodys
<1> QED
  BY <1>2, AnsweringAlways, PTL

-----------------------------------------------------------------------------
(* Calls implements RpcCall where ids are the client's and the server calls*)
(* what the client has: no two calls of a side are alike, and the error of *)
(* a call is its own.                                                      *)
NoClash == \A h, k \in Calls : Started(k) /\ Alike(h, k) => h = k

(* Ids that are all different ones of the client make no calls alike.      *)
LEMMA NoClashThere ==
  ASSUME ExplicitIds \subseteq {0}, IdsUnique
  PROVE  NoClash
BY DEF NoClash, IdsUnique, Chosen

(* How one call looks to its caller.                                       *)
LEMMA StatusOf ==
  /\ Status = [k \in Calls |-> Status[k]]
  /\ \A k \in Calls :
       /\ pc[k] = "idle" => Status[k] = "idle"
       /\ pc[k] \notin {"idle", "done"} => Status[k] = "asked"
       /\ pc[k] = "done" =>
            Status[k] = IF outcome[k] \in {"result", "error"} THEN outcome[k]
                        ELSE "failed"
BY DEF Status

(* Nothing that callers see changes.                                       *)
LEMMA StatusStays ==
  ASSUME UNCHANGED <<pc, outcome>>
  PROVE  Status' = Status
BY DEF Status

(* The end of a call is an end that RpcCall allows.                        *)
LEMMA EndImplements ==
  ASSUME TypeOK, NEW k \in Calls, pc[k] \notin {"idle", "done"},
         NEW how, NEW whose, Ends(k, how, whose),
         how \in {"result", "error"} => answer[k] = how,
         UNCHANGED answer
  PROVE  Promise!Next
<1>1. Status[k] = "asked" /\ Status = [h \in Calls |-> Status[h]]
  BY StatusOf
<1>2. Status' = [Status EXCEPT ![k] = IF how \in {"result", "error"} THEN how
                                      ELSE "failed"]
  BY DEF Status, Ends, TypeOK
<1>3. CASE how \in {"result", "error"}
  <2>1. answer[k] = how /\ answer[k] # None
    BY <1>3
  <2>2. Status' = [Status EXCEPT ![k] = answer[k]]
    BY <1>2, <1>3, <2>1
  <2>3. Promise!Conclude(k)
    BY <1>1, <2>1, <2>2 DEF Promise!Conclude
  <2> QED
    BY <2>3 DEF Promise!Next
<1>4. CASE how \notin {"result", "error"}
  <2>1. Promise!GiveUp(k)
    BY <1>1, <1>2, <1>4 DEF Promise!GiveUp
  <2> QED
    BY <2>1 DEF Promise!Next
<1> QED
  BY <1>3, <1>4

(* The end of a wait: a call gets what answered it, or gives up.           *)
LEMMA ReturnImplements ==
  ASSUME Answering, NoStrays, NoClash,
         NEW k \in Calls, pc[k] \notin {"idle", "done"},
         NEW f \in Calls, Alike(f, k), Return(k, f), UNCHANGED answer
  PROVE  Promise!Next
<1> Inductive /\ TypeOK /\ Started(k)
  BY DEF Answering, Inductive, Started
<1>1. Side(k) \in Sides /\ cid[k] \in Ids
  BY SideOfCall DEF Inductive, IdsBelow
<1>2. PICK g : g = IF fut[f] = "result" THEN pending[Side(k)][cid[k]] ELSE f
  OBVIOUS
<1>3. g \in Calls \cup {None}
  BY <1>1, <1>2 DEF TypeOK
<1>4. g \in Calls => g = k
  BY <1>1, <1>2 DEF Inductive, PendingOwn, Alike, NoClash
<1>5. CASE Ends(k, "broken", None)
  BY <1>5, EndImplements
<1>6. CASE g # None /\ Ends(k, fut[g], got[g])
  <2>1. g = k
    BY <1>3, <1>4, <1>6
  <2>2. PICK how, whose : how = fut[k] /\ whose = got[k]
    OBVIOUS
  <2>3. how = "result" => answer[k] = "result"
    <3>1. how = "result" => whose \in Calls /\ Alike(whose, k)
      BY <2>2 DEF Inductive, FuturesOwn
    <3>2. how = "result" => whose = k
      BY <3>1 DEF NoClash
    <3> QED
      BY <2>2, <3>2 DEF Answering, FuturesTrue
  <2>4. how = "error" => answer[k] = "error"
    <3>1. how = "error" =>
            whose \in Calls /\ Alike(whose, k) /\ answer[whose] = "error"
      BY <2>2 DEF Answering, FuturesTrue, NoStrays
    <3> QED
      BY <3>1 DEF NoClash
  <2>5. Ends(k, how, whose)
    BY <1>6, <2>1, <2>2
  <2> QED
    BY <2>3, <2>4, <2>5, EndImplements
<1> QED
  BY <1>2, <1>5, <1>6 DEF Return

(* Every step of Calls is a step of RpcCall, or changes nothing it shows.  *)
LEMMA StepImplements ==
  ASSUME ~ClientErrors, Answering, NoStrays, NoClash, [Next]_vars
  PROVE  [Promise!Next]_(Promise!callVars)
<1> Inductive /\ TypeOK /\ AnswersOnce
  BY DEF Answering, Inductive
<1> DEFINE Shown == Status' = Status /\ answer' = answer
<1>1. ASSUME NEW k \in Calls, NEW x \in ExplicitIds \cup {None}, Call(k, x)
      PROVE  Promise!Next
  <2>1. Status[k] = "idle" /\ answer' = answer
    BY <1>1, StatusOf DEF Call, methodVars
  <2>2. \E s \in {"asked", "failed"} : Status' = [Status EXCEPT ![k] = s]
    <3>1. CASE pc' = [pc EXCEPT ![k] = "sending"] /\ UNCHANGED <<outcome, from>>
      <4>1. Status' = [Status EXCEPT ![k] = "asked"]
        BY <3>1 DEF Status, TypeOK
      <4> QED
        BY <4>1
    <3>2. CASE Ends(k, "lost", None)
      <4>1. Status' = [Status EXCEPT ![k] = "failed"]
        BY <3>2 DEF Status, Ends, TypeOK
      <4> QED
        BY <4>1
    <3> QED
      BY <1>1, <3>1, <3>2 DEF Call
  <2>3. Promise!Ask(k)
    BY <2>1, <2>2 DEF Promise!Ask
  <2> QED
    BY <2>3 DEF Promise!Next
<1>2. ASSUME NEW k \in Calls, Sent(k)
      PROVE  Promise!Next \/ Shown
  <2>1. PICK f : f = pending[Side(k)][cid[k]]
    OBVIOUS
  <2>2. /\ pc[k] = "sending" /\ Started(k) /\ answer' = answer
        /\ f \in Calls \cup {None} /\ (f \in Calls => Alike(f, k))
    <3>1. pc[k] = "sending" /\ Started(k) /\ answer' = answer
      BY <1>2 DEF Sent, Started, methodVars
    <3>2. Side(k) \in Sides /\ cid[k] \in Ids
      BY <3>1, SideOfCall DEF Inductive, IdsBelow
    <3> QED
      BY <2>1, <3>1, <3>2 DEF TypeOK, Inductive, PendingOwn, Alike
  <2>3. CASE f # None /\ Return(k, f)
    BY <2>2, <2>3, ReturnImplements
  <2>4. CASE pc' = [pc EXCEPT ![k] = "waiting"] /\ UNCHANGED <<outcome, from>>
    <3>1. Status' = Status
      BY <2>2, <2>4 DEF Status, TypeOK
    <3> QED
      BY <2>2, <3>1
  <2>5. CASE Ends(k, "broken", None)
    BY <2>2, <2>5, EndImplements
  <2> QED
    BY <1>2, <2>1, <2>3, <2>4, <2>5 DEF Sent
<1>3. ASSUME NEW k \in Calls, SendFails(k) \/ Timeout(k)
      PROVE  Promise!Next
  <2>1. /\ pc[k] \notin {"idle", "done"} /\ answer' = answer
        /\ Ends(k, "lost", None) \/ Ends(k, "timeout", None)
    BY <1>3 DEF SendFails, Timeout, methodVars
  <2> QED
    BY <2>1, EndImplements
<1>4. ASSUME NEW k \in Calls, WakeUp(k)
      PROVE  Promise!Next
  <2>1. PICK f : f = wait[k]
    OBVIOUS
  <2>2. /\ pc[k] \notin {"idle", "done"} /\ answer' = answer
        /\ f \in Calls /\ Alike(f, k) /\ Return(k, f)
    BY <1>4, <2>1 DEF WakeUp, Answering, CallersTrue, methodVars
  <2> QED
    BY <2>2, ReturnImplements
<1>5. ASSUME NEW k \in Calls, NEW a \in {"result", "error"}, Started(k),
             answer[k] = None, answer' = [answer EXCEPT ![k] = a],
             UNCHANGED <<pc, outcome>>
      PROVE  Promise!Next
  <2>1. Status[k] # "idle" /\ Status' = Status
    BY <1>5, StatusOf, StatusStays DEF Started, TypeOK
  <2>2. Promise!Answer(k)
    BY <1>5, <2>1 DEF Promise!Answer
  <2> QED
    BY <2>2 DEF Promise!Next
<1>6. ASSUME MethodEnds
      PROVE  Promise!Next \/ Shown
  <2>1. PICK k : k = worker
    OBVIOUS
  <2>2. /\ k \in Calls /\ Started(k) /\ answer[k] = None
        /\ UNCHANGED <<pc, outcome>>
        /\ answer' = [answer EXCEPT ![k] = "result"] \/ answer' = answer
    BY <1>6, <2>1
    DEF MethodEnds, Inductive, MethodsStarted, AnswersOnce, callerVars
  <2> QED
    BY <1>5, <2>2, StatusStays
<1>7. ASSUME NEW k \in ClientCalls, NEW a \in {"result", "error"},
             ServerReplies(k, a)
      PROVE  Promise!Next
  <2>1. /\ k \in Calls /\ Started(k) /\ answer[k] = None
        /\ UNCHANGED <<pc, outcome>>
        /\ answer' = [answer EXCEPT ![k] = a]
    BY <1>7 DEF ServerReplies, Inductive, MethodsStarted, AnswersOnce,
      callerVars
  <2> QED
    BY <1>5, <2>1
<1>8. ~ClientRejects
  BY DEF ClientRejects
<1>9. ASSUME \/ ServerGetsRequest \/ ServerGetsResult \/ ServerGetsError
             \/ ClientGetsRequest \/ ClientGetsAnswer
             \/ WorkerStops \/ Lose \/ UNCHANGED vars
      PROVE  Shown
  <2>1. UNCHANGED <<pc, outcome, answer>>
    BY <1>9
    DEF ServerGetsRequest, ServerGetsResult, ServerGetsError,
        ClientGetsRequest, ClientGetsAnswer, WorkerStops, Lose, vars,
        callerVars, methodVars
  <2> QED
    BY <2>1, StatusStays
<1>10. Promise!Next \/ Shown
  BY <1>1, <1>2, <1>3, <1>4, <1>6, <1>7, <1>8, <1>9
  DEF Next, CallerStep, ReceiverStep
<1> QED
  BY <1>10 DEF Promise!callVars

(* A call shows its caller what RpcCall promises: it ends with the one     *)
(* answer that the other side gave it, or without (client.py:154-187,      *)
(* communicaton.py:53-76, rpc.py:293-355).                                 *)
THEOREM CallsKeepPromise ==
  ASSUME ExplicitIds \subseteq {0}, ~ClientErrors
  PROVE  Spec => KeepsPromise
<1>1. Init => Promise!Init
  BY DEF Init, Promise!Init, Status
<1>2. Answering => NoClash
  BY NoClashThere DEF Answering, Inductive
<1>3. Answering /\ NoStrays /\ NoClash /\ [Next]_vars
        => [Promise!Next]_(Promise!callVars)
  BY StepImplements
<1> QED
  BY <1>1, <1>2, <1>3, AnsweringAlways, NoStraysAlways, PTL
  DEF Spec, KeepsPromise, Promise!Spec
=============================================================================
