---------------------------- MODULE BrowserProofs ----------------------------
(* What Browser promises, for any number of objects, websockets, topics,   *)
(* calls and messages.                                                     *)
EXTENDS Browser, SequenceTheorems, TLAPS

-----------------------------------------------------------------------------
(* The types.                                                              *)

Asked == Topics \cup {Strange, None}
CallRecords == [sock : Sockets \cup {None}, topic : Asked, given : BOOLEAN,
                end : {"waits", "unsent", "done", "raised"}]
Requests == [type : {"request", "replies"}, of : Nat, id : Nat, topic : Asked]
Answers ==
  [type : {"result", "error"}, of : Nat, id : Nat, topics : SUBSET Topics]
Notices == [type : {"notice"}, topic : Topics]
Questions == [type : {"request"}, method : {"known", "unknown"}]
Arrivals == Answers \cup Notices \cup Questions

IsAnswer(m) == m.type \in {"result", "error"}

PageTyped ==
  /\ global \in Objects \cup {None}
  /\ current \in [Objects -> Sockets \cup {None}]
  /\ nextId \in [Objects -> Nat]
  /\ DOMAIN pending = Objects
  /\ \A o \in Objects : \A id \in DOMAIN pending[o] :
       id \in Nat /\ pending[o][id] \in 1..Len(calls)
  /\ handler \in [Objects -> SUBSET Topics]
  /\ calls \in Seq(CallRecords)

WiresTyped ==
  /\ sock \in [Sockets -> {"fresh", "connecting", "open", "closed"}]
  /\ owner \in [Sockets -> Objects \cup {None}]
  /\ up \in [Sockets -> Seq(Requests)] /\ down \in [Sockets -> Seq(Arrivals)]
  /\ subs \in [Sockets -> SUBSET Topics] /\ stored \subseteq Topics

Typed == BrowserAssumption /\ PageTyped /\ WiresTyped

-----------------------------------------------------------------------------
(* The inductive invariant.                                                *)

(* Who has used a websocket owns it; one that is not open carries nothing. *)
Idle(s) ==
  /\ sock[s] # "fresh" => owner[s] \in Objects
  /\ sock[s] # "open" => up[s] = <<>> /\ down[s] = <<>>
  /\ sock[s] \in {"fresh", "connecting"} => subs[s] = {}

(* An object has its own websocket, and no other that is in use, unless it *)
(* connected beside one.                                                   *)
Owned ==
  /\ \A o \in Objects : current[o] # None =>
       sock[current[o]] # "fresh" /\ owner[current[o]] = o
  /\ renewed = {} => \A s \in Sockets :
       sock[s] \in {"connecting", "open"} => current[owner[s]] = s

(* A message about a call finds the call waiting in the table of its object*)
OfCall(s, m) ==
  /\ m.of \in 1..Len(calls)
  /\ calls[m.of].sock = s /\ calls[m.of].end = "waits"
  /\ m.id \in DOMAIN pending[owner[s]] /\ pending[owner[s]][m.id] = m.of

UpTrue(s, u, b) ==
  \A i \in 1..Len(u) :
    /\ OfCall(s, u[i]) /\ u[i].topic = calls[u[i].of].topic
    /\ u[i].type = "replies" /\ u[i].topic \in Topics => u[i].topic \in b

(* A confirmation names the topic that was asked for.                      *)
Confirms(m) ==
  m.type = "result" /\ calls[m.of].topic \in Topics =>
    calls[m.of].topic \in m.topics

DownTrue(s, d, b) ==
  \A i \in 1..Len(d) :
    /\ IsAnswer(d[i]) => OfCall(s, d[i]) /\ Confirms(d[i])
    /\ d[i].type = "notice" => d[i].topic \in b

(* A call is asked or answered once.                                       *)
Once(u, d) ==
  /\ \A i, j \in 1..Len(u) : u[i].of = u[j].of => i = j
  /\ \A i, j \in 1..Len(d) :
       IsAnswer(d[i]) /\ IsAnswer(d[j]) /\ d[i].of = d[j].of => i = j
  /\ \A i \in 1..Len(u), j \in 1..Len(d) :
       IsAnswer(d[j]) => u[i].of # d[j].of

(* A subscription that has no handler in the page waits for its reply, or  *)
(* was made without one.                                                   *)
Awaited(u, d, t) ==
  \/ \E i \in 1..Len(u) : u[i].type = "replies" /\ u[i].topic = t
  \/ \E i \in 1..Len(d) : d[i].type = "result" /\ calls[d[i].of].topic = t

Unheard(s, t) ==
  \E id \in DOMAIN pending[global] :
    LET c == calls[pending[global][id]] IN
    c.topic = t /\ c.sock = s /\ c.end = "raised" /\ ~c.given

Handled(s, u, d, b) ==
  owner[s] = global /\ global # None =>
    \A t \in b \ handler[global] : Awaited(u, d, t) \/ Unheard(s, t)

OpenWire(s, u, d, b) ==
  UpTrue(s, u, b) /\ DownTrue(s, d, b) /\ Once(u, d) /\ Handled(s, u, d, b)

Wire(s) == Idle(s) /\ (sock[s] = "open" => OpenWire(s, up[s], down[s], subs[s]))

(* An entry has an id that was given out, and a call of its own.           *)
EntriesOwn ==
  \A o \in Objects : \A id \in DOMAIN pending[o] :
    /\ id < nextId[o]
    /\ calls[pending[o][id]].end = "waits" =>
         calls[pending[o][id]].sock \in Sockets
    /\ \A p \in Objects : \A x \in DOMAIN pending[p] :
         pending[o][id] = pending[p][x] => o = p /\ id = x

(* A request of call c, or an answer to it, is on its way.                 *)
InWires(c, u, d) ==
  \/ \E i \in 1..Len(u) : u[i].of = c
  \/ \E i \in 1..Len(d) : IsAnswer(d[i]) /\ d[i].of = c

(* What EntriesExplained says, on the places of messages.                  *)
Explained ==
  \A o \in Objects : \A id \in DOMAIN pending[o] :
    LET c == pending[o][id] IN
    \/ calls[c].end = "unsent"
    \/ /\ calls[c].end = "raised"
       /\ calls[c].topic = Strange \/ ~calls[c].given \/ global = None
    \/ /\ calls[c].end = "waits"
       /\ \/ sock[calls[c].sock] = "closed"
          \/ InWires(c, up[calls[c].sock], down[calls[c].sock])

Inv ==
  /\ Typed /\ Owned /\ EntriesOwn /\ Explained /\ AnswersFindTheirCall
  /\ \A s \in Sockets : Wire(s)

-----------------------------------------------------------------------------
(* Sequences of messages.                                                  *)

(* q2 is q without its element i.                                          *)
Place(j, i) == IF j < i THEN j ELSE j + 1
Dropped(q2, q, i) ==
  /\ Len(q) \in Nat /\ i \in 1..Len(q) /\ Len(q2) = Len(q) - 1
  /\ \A j \in 1..Len(q2) : q2[j] = q[Place(j, i)]

(* Each of its elements is one of q, at a place of its own, and only i is  *)
(* missing.                                                                *)
Lacks(q2, q, i) ==
  /\ \A j \in 1..Len(q2) :
       Place(j, i) \in 1..Len(q) \ {i} /\ q2[j] = q[Place(j, i)]
  /\ \A j, k \in 1..Len(q2) : Place(j, i) = Place(k, i) => j = k
  /\ \A k \in 1..Len(q) \ {i} : \E j \in 1..Len(q2) : q2[j] = q[k]

(* That is what dropping one does.                                         *)
LEMMA DroppedElements ==
  ASSUME NEW q2, NEW q, NEW i, Dropped(q2, q, i)
  PROVE  Lacks(q2, q, i)
<1>1. /\ Len(q) \in Nat /\ i \in 1..Len(q) /\ Len(q2) = Len(q) - 1
      /\ \A j \in 1..Len(q2) : q2[j] = q[Place(j, i)]
  BY DEF Dropped
<1>2. \A j \in 1..Len(q2) : Place(j, i) \in 1..Len(q) \ {i}
  BY <1>1 DEF Place
<1>3. \A j, k \in 1..Len(q2) : Place(j, i) = Place(k, i) => j = k
  BY <1>1 DEF Place
<1>4. ASSUME NEW k \in 1..Len(q) \ {i}
      PROVE  \E j \in 1..Len(q2) : q2[j] = q[k]
  <2>1. CASE k < i
    <3>1. k \in 1..Len(q2) /\ Place(k, i) = k
      BY <1>1, <2>1 DEF Place
    <3> QED
      BY <1>1, <3>1
  <2>2. CASE k > i
    <3>1. k - 1 \in 1..Len(q2) /\ Place(k - 1, i) = k
      BY <1>1, <2>2 DEF Place
    <3> QED
      BY <1>1, <3>1
  <2> QED
    BY <1>1, <2>1, <2>2
<1> QED
  BY <1>1, <1>2, <1>3, <1>4 DEF Lacks

(* Reading the first message drops it.                                     *)
LEMMA TailDrops ==
  ASSUME NEW S, NEW q \in Seq(S), q # <<>>
  PROVE  /\ Tail(q) \in Seq(S) /\ Head(q) = q[1] /\ Head(q) \in S
         /\ Dropped(Tail(q), q, 1)
<1>1. /\ Len(q) \in Nat \ {0} /\ Head(q) = q[1] /\ Head(q) \in S
      /\ Tail(q) \in Seq(S) /\ Len(Tail(q)) = Len(q) - 1
      /\ \A j \in 1..Len(Tail(q)) : Tail(q)[j] = q[j + 1]
  BY HeadTailProperties, EmptySeq
<1> QED
  BY <1>1 DEF Dropped, Place

(* So does taking one out of the middle.                                   *)
LEMMA RemoveAtDrops ==
  ASSUME NEW S, NEW q \in Seq(S), NEW i \in 1..Len(q)
  PROVE  RemoveAt(q, i) \in Seq(S) /\ Dropped(RemoveAt(q, i), q, i)
<1>1. Len(q) \in Nat /\ \A j \in 1..Len(q) : q[j] \in S
  BY LenProperties, ElementOfSeq
<1> DEFINE a == SubSeq(q, 1, i - 1)
           b == SubSeq(q, i + 1, Len(q))
<1>2. /\ a \in Seq(S) /\ Len(a) = i - 1
      /\ \A j \in 1..(i - 1) : a[j] = q[j]
  <2>1. \A j \in 1..(i - 1) : q[j] \in S
    BY <1>1
  <2>2. i - 1 \in Int /\ 1 \in Int
    BY <1>1
  <2>3. /\ a \in Seq(S)
        /\ Len(a) = IF 1 <= i - 1 THEN i - 1 - 1 + 1 ELSE 0
        /\ \A j \in 1..(i - 1 - 1 + 1) : a[j] = q[1 + j - 1]
    BY <2>1, <2>2, SubSeqProperties
  <2> QED
    BY <1>1, <2>3
<1>3. /\ b \in Seq(S) /\ Len(b) = Len(q) - i
      /\ \A j \in 1..(Len(q) - i) : b[j] = q[i + j]
  <2>1. \A j \in (i + 1)..Len(q) : q[j] \in S
    BY <1>1
  <2>2. i + 1 \in Int /\ Len(q) \in Int
    BY <1>1
  <2>3. /\ b \in Seq(S)
        /\ Len(b) = IF i + 1 <= Len(q) THEN Len(q) - (i + 1) + 1 ELSE 0
        /\ \A j \in 1..(Len(q) - (i + 1) + 1) : b[j] = q[i + 1 + j - 1]
    BY <2>1, <2>2, SubSeqProperties
  <2> QED
    BY <1>1, <2>3
<1> HIDE DEF a, b
<1>4. /\ a \o b \in Seq(S) /\ Len(a \o b) = Len(a) + Len(b)
      /\ \A j \in 1..(Len(a) + Len(b)) :
           (a \o b)[j] = IF j <= Len(a) THEN a[j] ELSE b[j - Len(a)]
  BY <1>2, <1>3, ConcatProperties
<1>5. Len(a \o b) = Len(q) - 1
  BY <1>1, <1>2, <1>3, <1>4
<1>6. ASSUME NEW j \in 1..(Len(q) - 1) PROVE (a \o b)[j] = q[Place(j, i)]
  <2>1. CASE j < i
    <3>1. j \in 1..(i - 1) /\ j <= Len(a) /\ j \in 1..(Len(a) + Len(b))
      BY <1>1, <1>2, <1>3, <2>1
    <3> QED
      BY <1>2, <1>4, <2>1, <3>1 DEF Place
  <2>2. CASE ~(j < i)
    <3>1. /\ j - Len(a) \in 1..(Len(q) - i) /\ ~(j <= Len(a))
          /\ j \in 1..(Len(a) + Len(b)) /\ i + (j - Len(a)) = j + 1
      BY <1>1, <1>2, <1>3, <2>2
    <3>2. b[j - Len(a)] = q[j + 1]
      BY <1>3, <3>1
    <3> QED
      BY <1>4, <2>2, <3>1, <3>2 DEF Place
  <2> QED
    BY <2>1, <2>2
<1>7. RemoveAt(q, i) = a \o b
  BY DEF RemoveAt, a, b
<1> QED
  BY <1>1, <1>4, <1>5, <1>6, <1>7 DEF Dropped

(* A message goes to the end.                                              *)
LEMMA AppendAdds ==
  ASSUME NEW S, NEW q \in Seq(S), NEW m \in S
  PROVE  /\ Append(q, m) \in Seq(S) /\ Len(q) \in Nat
         /\ Len(Append(q, m)) = Len(q) + 1
         /\ \A j \in 1..Len(q) :
              j \in 1..Len(Append(q, m)) /\ Append(q, m)[j] = q[j]
         /\ Len(Append(q, m)) \in 1..Len(Append(q, m))
         /\ Append(q, m)[Len(Append(q, m))] = m
         /\ \A j \in 1..Len(Append(q, m)) :
              j \in 1..Len(q) \/ j = Len(Append(q, m))
<1>1. /\ Append(q, m) \in Seq(S) /\ Len(q) \in Nat
      /\ Len(Append(q, m)) = Len(q) + 1
      /\ \A j \in 1..Len(q) : Append(q, m)[j] = q[j]
      /\ Append(q, m)[Len(q) + 1] = m
  BY AppendProperties, LenProperties
<1> QED
  BY <1>1

-----------------------------------------------------------------------------
(* What becomes of a websocket when messages come and go.                  *)

(* The page reads the first message.                                       *)
LEMMA TailWire ==
  ASSUME NEW s, NEW u, NEW d \in Seq(Arrivals), NEW b, d # <<>>,
         OpenWire(s, u, d, b)
  PROVE  /\ Tail(d) \in Seq(Arrivals) /\ Head(d) \in Arrivals
         /\ IsAnswer(Head(d)) => OfCall(s, Head(d)) /\ Confirms(Head(d))
         /\ Head(d).type = "notice" => Head(d).topic \in b
         /\ UpTrue(s, u, b) /\ DownTrue(s, Tail(d), b) /\ Once(u, Tail(d))
         /\ \A t : Awaited(u, d, t) =>
              \/ Awaited(u, Tail(d), t)
              \/ Head(d).type = "result" /\ calls[Head(d).of].topic = t
         /\ IsAnswer(Head(d)) => ~InWires(Head(d).of, u, Tail(d))
         /\ \A c : InWires(c, u, d) =>
              InWires(c, u, Tail(d)) \/ (IsAnswer(Head(d)) /\ Head(d).of = c)
<1>1. PICK d2, h : d2 = Tail(d) /\ h = Head(d)
  OBVIOUS
<1>2. /\ d2 \in Seq(Arrivals) /\ h = d[1] /\ h \in Arrivals
      /\ Dropped(d2, d, 1)
  BY <1>1, TailDrops
<1>3. /\ \A j \in 1..Len(d2) :
           Place(j, 1) \in 1..Len(d) \ {1} /\ d2[j] = d[Place(j, 1)]
      /\ \A j, k \in 1..Len(d2) : Place(j, 1) = Place(k, 1) => j = k
      /\ \A k \in 1..Len(d) \ {1} : \E j \in 1..Len(d2) : d2[j] = d[k]
  <2>1. Lacks(d2, d, 1)
    BY <1>2, DroppedElements
  <2> QED
    BY <2>1 DEF Lacks
<1>4. 1 \in 1..Len(d)
  BY <1>2 DEF Dropped
<1>5. UpTrue(s, u, b) /\ DownTrue(s, d, b) /\ Once(u, d)
  BY DEF OpenWire
<1>6. /\ IsAnswer(h) => OfCall(s, h) /\ Confirms(h)
      /\ h.type = "notice" => h.topic \in b
  BY <1>2, <1>4, <1>5 DEF DownTrue
<1>7. DownTrue(s, d2, b)
  BY <1>3, <1>5 DEF DownTrue
<1>8. Once(u, d2)
  <2>1. ASSUME NEW i \in 1..Len(d2), NEW j \in 1..Len(d2),
               IsAnswer(d2[i]), IsAnswer(d2[j]), d2[i].of = d2[j].of
        PROVE  i = j
    <3>1. PICK k, l : k = Place(i, 1) /\ l = Place(j, 1)
      OBVIOUS
    <3>2. /\ k \in 1..Len(d) /\ d2[i] = d[k] /\ l \in 1..Len(d) /\ d2[j] = d[l]
          /\ k = l => i = j
      BY <1>3, <3>1
    <3>3. IsAnswer(d[k]) /\ IsAnswer(d[l]) /\ d[k].of = d[l].of
      BY <2>1, <3>2
    <3>4. k = l
      BY <1>5, <3>2, <3>3 DEF Once
    <3> QED
      BY <3>2, <3>4
  <2>2. ASSUME NEW i \in 1..Len(u), NEW j \in 1..Len(d2), IsAnswer(d2[j])
        PROVE  u[i].of # d2[j].of
    <3>1. PICK l : l \in 1..Len(d) /\ d2[j] = d[l]
      BY <1>3
    <3> QED
      BY <1>5, <2>2, <3>1 DEF Once
  <2> QED
    BY <1>5, <2>1, <2>2 DEF Once
<1>9. \A t : Awaited(u, d, t) =>
        Awaited(u, d2, t) \/ (h.type = "result" /\ calls[h.of].topic = t)
  BY <1>2, <1>3 DEF Awaited
<1>10. IsAnswer(h) => ~InWires(h.of, u, d2)
  BY <1>2, <1>3, <1>4, <1>5 DEF Once, InWires
<1>11. \A c : InWires(c, u, d) =>
         InWires(c, u, d2) \/ (IsAnswer(h) /\ h.of = c)
  BY <1>2, <1>3 DEF InWires
<1> QED
  BY <1>1, <1>2, <1>5, <1>6, <1>7, <1>8, <1>9, <1>10, <1>11

(* A message that answers nothing arrives behind the others.               *)
LEMMA AppendWire ==
  ASSUME NEW s, NEW u, NEW d \in Seq(Arrivals), NEW b, NEW m \in Arrivals,
         ~IsAnswer(m), m.type = "notice" => m.topic \in b,
         OpenWire(s, u, d, b)
  PROVE  /\ Append(d, m) \in Seq(Arrivals) /\ OpenWire(s, u, Append(d, m), b)
         /\ \A c : InWires(c, u, d) => InWires(c, u, Append(d, m))
<1>1. PICK d2 : d2 = Append(d, m)
  OBVIOUS
<1>2. /\ d2 \in Seq(Arrivals)
      /\ \A j \in 1..Len(d) : j \in 1..Len(d2) /\ d2[j] = d[j]
      /\ d2[Len(d2)] = m
      /\ \A j \in 1..Len(d2) : j \in 1..Len(d) \/ j = Len(d2)
  BY <1>1, AppendAdds
<1>3. /\ UpTrue(s, u, b) /\ DownTrue(s, d, b) /\ Once(u, d)
      /\ Handled(s, u, d, b)
  BY DEF OpenWire
<1>4. DownTrue(s, d2, b)
  BY <1>2, <1>3 DEF DownTrue
<1>5. Once(u, d2)
  BY <1>2, <1>3 DEF Once
<1>6. Handled(s, u, d2, b)
  <2>1. \A t : Awaited(u, d, t) => Awaited(u, d2, t)
    BY <1>2 DEF Awaited
  <2> QED
    BY <1>3, <2>1 DEF Handled
<1>7. \A c : InWires(c, u, d) => InWires(c, u, d2)
  BY <1>2 DEF InWires
<1> QED
  BY <1>1, <1>2, <1>3, <1>4, <1>5, <1>6, <1>7 DEF OpenWire

(* The server subscribes a connection, and will reply.                     *)
Replying(u, i) == [u EXCEPT ![i].type = "replies"]
With(b, t) == b \cup ({t} \cap Topics)

(* Then the reply is awaited.                                              *)
LEMMA SubscribeWire ==
  ASSUME NEW s, NEW u \in Seq(Requests), NEW d, NEW b, NEW i \in 1..Len(u),
         NEW u2, u2 = Replying(u, i), NEW b2, b2 = With(b, u[i].topic),
         OpenWire(s, u, d, b)
  PROVE  /\ u2 \in Seq(Requests) /\ OpenWire(s, u2, d, b2)
         /\ \A c : InWires(c, u, d) => InWires(c, u2, d)
<1>1. /\ Len(u) \in Nat /\ DOMAIN u = 1..Len(u) /\ u \in [1..Len(u) -> Requests]
      /\ \A j \in 1..Len(u) : u[j] \in Requests
  BY LenProperties, ElementOfSeq
<1>2. /\ DOMAIN u2 = 1..Len(u)
      /\ \A j \in 1..Len(u) :
           u2[j] = IF j = i THEN [u[j] EXCEPT !.type = "replies"] ELSE u[j]
  BY <1>1 DEF Replying
<1>3. \A j \in 1..Len(u) :
        /\ u2[j] \in Requests
        /\ u2[j].of = u[j].of /\ u2[j].id = u[j].id /\ u2[j].topic = u[j].topic
        /\ u2[j].type = IF j = i THEN "replies" ELSE u[j].type
  BY <1>1, <1>2 DEF Requests
<1>4. u2 \in [1..Len(u) -> Requests]
  BY <1>1, <1>3 DEF Replying
<1>5. u2 \in Seq(Requests) /\ Len(u2) = Len(u)
  <2>1. u2 \in Seq(Requests)
    BY <1>1, <1>4, IsASeq
  <2>2. DOMAIN u2 = 1..Len(u2) /\ Len(u2) \in Nat
    BY <2>1, LenProperties
  <2> QED
    BY <1>1, <1>2, <2>1, <2>2
<1>6. UpTrue(s, u, b) /\ DownTrue(s, d, b) /\ Once(u, d) /\ Handled(s, u, d, b)
  BY DEF OpenWire
<1>7. UpTrue(s, u2, b2)
  <2> SUFFICES ASSUME NEW j \in 1..Len(u)
               PROVE  /\ OfCall(s, u2[j])
                      /\ u2[j].topic = calls[u2[j].of].topic
                      /\ u2[j].type = "replies" /\ u2[j].topic \in Topics
                           => u2[j].topic \in b2
    BY <1>5 DEF UpTrue
  <2>1. /\ OfCall(s, u[j]) /\ u[j].topic = calls[u[j].of].topic
        /\ u[j].type = "replies" /\ u[j].topic \in Topics => u[j].topic \in b
    BY <1>6 DEF UpTrue
  <2>2. OfCall(s, u2[j]) /\ u2[j].topic = calls[u2[j].of].topic
    BY <1>3, <2>1 DEF OfCall
  <2>3. u2[j].type = "replies" /\ u2[j].topic \in Topics => u2[j].topic \in b2
    BY <1>3, <2>1 DEF With
  <2> QED
    BY <2>2, <2>3
<1>8. DownTrue(s, d, b2)
  BY <1>6 DEF DownTrue, With
<1>9. Once(u2, d)
  BY <1>3, <1>5, <1>6 DEF Once
<1>10. Handled(s, u2, d, b2)
  <2>1. \A t : Awaited(u, d, t) => Awaited(u2, d, t)
    BY <1>3, <1>5 DEF Awaited
  <2>2. Awaited(u2, d, u[i].topic)
    BY <1>3, <1>5 DEF Awaited
  <2> QED
    BY <1>6, <2>1, <2>2 DEF Handled, With
<1>11. \A c : InWires(c, u, d) => InWires(c, u2, d)
  BY <1>3, <1>5 DEF InWires
<1> QED
  BY <1>5, <1>7, <1>8, <1>9, <1>10, <1>11 DEF OpenWire

(* The server answers a request.                                           *)
LEMMA ReplyWire ==
  ASSUME NEW s, NEW u \in Seq(Requests), NEW d \in Seq(Arrivals),
         NEW b, NEW i \in 1..Len(u), NEW a \in Answers,
         NEW u2, u2 = RemoveAt(u, i),
         a.of = u[i].of, a.id = u[i].id, a.topics = b, None \notin Topics,
         a.type = "result" => u[i].type = "replies" \/ u[i].topic = None,
         u[i].type = "replies" => a.type = "result",
         OpenWire(s, u, d, b)
  PROVE  /\ u2 \in Seq(Requests) /\ Append(d, a) \in Seq(Arrivals)
         /\ OpenWire(s, u2, Append(d, a), b)
         /\ \A c : InWires(c, u, d) => InWires(c, u2, Append(d, a))
<1>1. PICK d2 : d2 = Append(d, a)
  OBVIOUS
<1>2. a \in Arrivals /\ IsAnswer(a) /\ a.type # "notice"
  BY DEF Arrivals, Answers, IsAnswer
<1>3. /\ d2 \in Seq(Arrivals)
      /\ \A j \in 1..Len(d) : j \in 1..Len(d2) /\ d2[j] = d[j]
      /\ Len(d2) \in 1..Len(d2) /\ d2[Len(d2)] = a
      /\ \A j \in 1..Len(d2) : j \in 1..Len(d) \/ j = Len(d2)
  BY <1>1, <1>2, AppendAdds
<1>4. u2 \in Seq(Requests) /\ Dropped(u2, u, i)
  BY RemoveAtDrops
<1>5. /\ \A j \in 1..Len(u2) :
           Place(j, i) \in 1..Len(u) \ {i} /\ u2[j] = u[Place(j, i)]
      /\ \A j, k \in 1..Len(u2) : Place(j, i) = Place(k, i) => j = k
      /\ \A k \in 1..Len(u) \ {i} : \E j \in 1..Len(u2) : u2[j] = u[k]
  <2>1. Lacks(u2, u, i)
    BY <1>4, DroppedElements
  <2> QED
    BY <2>1 DEF Lacks
<1>6. /\ UpTrue(s, u, b) /\ DownTrue(s, d, b) /\ Once(u, d)
      /\ Handled(s, u, d, b)
  BY DEF OpenWire
<1>7. /\ OfCall(s, u[i]) /\ u[i].topic = calls[u[i].of].topic
      /\ u[i].type = "replies" /\ u[i].topic \in Topics => u[i].topic \in b
  BY <1>6 DEF UpTrue
<1>8. OfCall(s, a) /\ Confirms(a)
  <2>1. OfCall(s, a)
    BY <1>7 DEF OfCall
  <2>2. Confirms(a)
    BY <1>7 DEF Confirms
  <2> QED
    BY <2>1, <2>2
<1>9. UpTrue(s, u2, b)
  <2> SUFFICES ASSUME NEW j \in 1..Len(u2)
               PROVE  /\ OfCall(s, u2[j])
                      /\ u2[j].topic = calls[u2[j].of].topic
                      /\ u2[j].type = "replies" /\ u2[j].topic \in Topics
                           => u2[j].topic \in b
    BY DEF UpTrue
  <2>1. PICK k \in 1..Len(u) : u2[j] = u[k]
    BY <1>5
  <2> QED
    BY <1>6, <2>1 DEF UpTrue
<1>10. DownTrue(s, d2, b)
  <2> SUFFICES ASSUME NEW j \in 1..Len(d2)
               PROVE  /\ IsAnswer(d2[j]) => OfCall(s, d2[j]) /\ Confirms(d2[j])
                      /\ d2[j].type = "notice" => d2[j].topic \in b
    BY DEF DownTrue
  <2>1. CASE j \in 1..Len(d)
    BY <1>3, <1>6, <2>1 DEF DownTrue
  <2>2. CASE j = Len(d2)
    BY <1>2, <1>3, <1>8, <2>2
  <2> QED
    BY <1>3, <2>1, <2>2
<1>11. Once(u2, d2)
  <2>1. ASSUME NEW k \in 1..Len(u2), NEW l \in 1..Len(u2), u2[k].of = u2[l].of
        PROVE  k = l
    <3>1. PICK x, y : x = Place(k, i) /\ y = Place(l, i)
      OBVIOUS
    <3>2. /\ x \in 1..Len(u) /\ u2[k] = u[x] /\ y \in 1..Len(u) /\ u2[l] = u[y]
          /\ x = y => k = l
      BY <1>5, <3>1
    <3>3. x = y
      BY <1>6, <2>1, <3>2 DEF Once
    <3> QED
      BY <3>2, <3>3
  <2>2. \A j \in 1..Len(d) : IsAnswer(d[j]) => d[j].of # a.of
    BY <1>6 DEF Once
  <2>3. \A j \in 1..Len(u2) : u2[j].of # a.of
    <3> SUFFICES ASSUME NEW j \in 1..Len(u2) PROVE u2[j].of # a.of
      OBVIOUS
    <3>1. PICK k : k \in 1..Len(u) /\ k # i /\ u2[j] = u[k]
      BY <1>5
    <3> QED
      BY <1>6, <3>1 DEF Once
  <2>4. \A k, l \in 1..Len(d2) :
          IsAnswer(d2[k]) /\ IsAnswer(d2[l]) /\ d2[k].of = d2[l].of => k = l
    BY <1>3, <1>6, <2>2 DEF Once
  <2>5. ASSUME NEW k \in 1..Len(u2), NEW l \in 1..Len(d2), IsAnswer(d2[l])
        PROVE  u2[k].of # d2[l].of
    <3>1. CASE l = Len(d2)
      BY <1>3, <2>3, <3>1
    <3>2. CASE l \in 1..Len(d)
      <4>1. PICK x : x \in 1..Len(u) /\ u2[k] = u[x]
        BY <1>5
      <4> QED
        BY <1>3, <1>6, <2>5, <3>2, <4>1 DEF Once
    <3> QED
      BY <1>3, <3>1, <3>2
  <2> QED
    BY <2>1, <2>4, <2>5 DEF Once
<1>12. Handled(s, u2, d2, b)
  <2>1. ASSUME NEW t, Awaited(u, d, t) PROVE Awaited(u2, d2, t)
    <3>1. CASE u[i].type = "replies" /\ u[i].topic = t
      <4>1. d2[Len(d2)].type = "result" /\ calls[d2[Len(d2)].of].topic = t
        BY <1>3, <1>7, <3>1
      <4> QED
        BY <1>3, <4>1 DEF Awaited
    <3>2. CASE \E k \in 1..Len(u) \ {i} :
                 u[k].type = "replies" /\ u[k].topic = t
      <4>1. PICK k \in 1..Len(u) \ {i} :
              u[k].type = "replies" /\ u[k].topic = t
        BY <3>2
      <4>2. PICK l \in 1..Len(u2) : u2[l] = u[k]
        BY <1>5
      <4>3. \E j \in 1..Len(u2) : u2[j].type = "replies" /\ u2[j].topic = t
        BY <4>1, <4>2
      <4> QED
        BY <4>3 DEF Awaited
    <3>3. CASE \E j \in 1..Len(d) :
                 d[j].type = "result" /\ calls[d[j].of].topic = t
      BY <1>3, <3>3 DEF Awaited
    <3> QED
      BY <2>1, <3>1, <3>2, <3>3 DEF Awaited
  <2> QED
    BY <1>6, <2>1 DEF Handled
<1>13. ASSUME NEW c, InWires(c, u, d) PROVE InWires(c, u2, d2)
  <2>1. CASE u[i].of = c
    BY <1>2, <1>3, <2>1 DEF InWires
  <2>2. CASE \E k \in 1..Len(u) \ {i} : u[k].of = c
    <3>1. \E j \in 1..Len(u2) : u2[j].of = c
      BY <1>5, <2>2
    <3> QED
      BY <3>1 DEF InWires
  <2>3. CASE \E j \in 1..Len(d) : IsAnswer(d[j]) /\ d[j].of = c
    BY <1>3, <2>3 DEF InWires
  <2> QED
    BY <1>13, <2>1, <2>2, <2>3 DEF InWires
<1> QED
  BY <1>1, <1>3, <1>4, <1>9, <1>10, <1>11, <1>12, <1>13 DEF OpenWire

-----------------------------------------------------------------------------
(* What becomes of a websocket when the page changes around it.            *)

(* Call c stays as it is, and in the table of the object of websocket s.   *)
CallStays(s, c) ==
  /\ c \in 1..Len(calls')
  /\ calls'[c].sock = calls[c].sock /\ calls'[c].topic = calls[c].topic
  /\ calls'[c].end = calls[c].end
  /\ \A id \in DOMAIN pending[owner[s]] : pending[owner[s]][id] = c =>
       id \in DOMAIN pending'[owner'[s]] /\ pending'[owner'[s]][id] = c

(* It stays true of the messages whose calls stay as they are.             *)
LEMMA MessagesStay ==
  ASSUME NEW s, NEW u, NEW d, NEW b,
         UpTrue(s, u, b), DownTrue(s, d, b), Once(u, d), owner'[s] = owner[s],
         \A c \in 1..Len(calls) : InWires(c, u, d) => CallStays(s, c)
  PROVE  /\ UpTrue(s, u, b)' /\ DownTrue(s, d, b)' /\ Once(u, d)'
         /\ \A t : Awaited(u, d, t) => Awaited(u, d, t)'
<1>1. UpTrue(s, u, b) /\ DownTrue(s, d, b) /\ Once(u, d)
  OBVIOUS
<1>2. UpTrue(s, u, b)'
  <2> SUFFICES ASSUME NEW i \in 1..Len(u)
               PROVE  /\ OfCall(s, u[i])' /\ u[i].topic = calls'[u[i].of].topic
                      /\ u[i].type = "replies" /\ u[i].topic \in Topics
                           => u[i].topic \in b
    BY DEF UpTrue
  <2>1. /\ OfCall(s, u[i]) /\ u[i].topic = calls[u[i].of].topic
        /\ u[i].type = "replies" /\ u[i].topic \in Topics => u[i].topic \in b
    BY <1>1 DEF UpTrue
  <2>2. CallStays(s, u[i].of)
    BY <2>1 DEF InWires, OfCall
  <2>3. OfCall(s, u[i])' /\ u[i].topic = calls'[u[i].of].topic
    BY <2>1, <2>2 DEF OfCall, CallStays
  <2> QED
    BY <2>1, <2>3
<1>3. ASSUME NEW i \in 1..Len(d), IsAnswer(d[i])
      PROVE  /\ OfCall(s, d[i])' /\ Confirms(d[i])'
             /\ calls'[d[i].of].topic = calls[d[i].of].topic
  <2>1. OfCall(s, d[i]) /\ Confirms(d[i])
    BY <1>1, <1>3 DEF DownTrue
  <2>2. CallStays(s, d[i].of)
    BY <1>3, <2>1 DEF InWires, OfCall
  <2>3. OfCall(s, d[i])' /\ calls'[d[i].of].topic = calls[d[i].of].topic
    BY <2>1, <2>2 DEF OfCall, CallStays
  <2>4. Confirms(d[i])'
    BY <2>1, <2>3 DEF Confirms
  <2> QED
    BY <2>3, <2>4
<1>4. DownTrue(s, d, b)'
  BY <1>1, <1>3 DEF DownTrue, IsAnswer
<1>5. Once(u, d)'
  BY <1>1 DEF Once, IsAnswer
<1>6. ASSUME NEW t, Awaited(u, d, t) PROVE Awaited(u, d, t)'
  <2>1. ASSUME NEW i \in 1..Len(d), d[i].type = "result"
        PROVE  calls'[d[i].of].topic = calls[d[i].of].topic
    BY <1>3, <2>1 DEF IsAnswer
  <2> QED
    BY <1>6, <2>1 DEF Awaited
<1> QED
  BY <1>2, <1>4, <1>5, <1>6

(* So does what a handler waits for, while the handlers stay.              *)
LEMMA OpenWireStays ==
  ASSUME NEW s, NEW u, NEW d, NEW b, OpenWire(s, u, d, b),
         owner'[s] = owner[s], global' = global,
         owner[s] = global /\ global # None =>
           /\ handler[global] \subseteq handler'[global]
           /\ \A t : Unheard(s, t) => Unheard(s, t)',
         \A c \in 1..Len(calls) : InWires(c, u, d) => CallStays(s, c)
  PROVE  OpenWire(s, u, d, b)'
<1>1. /\ UpTrue(s, u, b) /\ DownTrue(s, d, b) /\ Once(u, d)
      /\ Handled(s, u, d, b)
  BY DEF OpenWire
<1>2. /\ UpTrue(s, u, b)' /\ DownTrue(s, d, b)' /\ Once(u, d)'
      /\ \A t : Awaited(u, d, t) => Awaited(u, d, t)'
  BY <1>1, MessagesStay
<1>3. Handled(s, u, d, b)'
  <2> SUFFICES ASSUME owner[s] = global, global # None,
                      NEW t \in b \ handler'[global]
               PROVE  Awaited(u, d, t)' \/ Unheard(s, t)'
    BY DEF Handled
  <2>1. Awaited(u, d, t) \/ Unheard(s, t)
    BY <1>1 DEF Handled
  <2> QED
    BY <1>2, <2>1
<1> QED
  BY <1>2, <1>3 DEF OpenWire

(* A step that leaves the calls alone leaves every call where it is.       *)
LEMMA CallsStay ==
  ASSUME calls' = calls, pending' = pending, NEW s, owner'[s] = owner[s],
         NEW c \in 1..Len(calls)
  PROVE  CallStays(s, c)
BY DEF CallStays

(* And a websocket that it leaves alone too is as it was.                  *)
LEMMA WireStays ==
  ASSUME Typed, NEW s \in Sockets, Wire(s),
         sock'[s] = sock[s], up'[s] = up[s], down'[s] = down[s],
         subs'[s] = subs[s], owner'[s] = owner[s], global' = global,
         owner[s] = global /\ global # None =>
           /\ handler[global] \subseteq handler'[global]
           /\ \A t : Unheard(s, t) => Unheard(s, t)',
         \A c \in 1..Len(calls) :
           sock[s] = "open" /\ InWires(c, up[s], down[s]) => CallStays(s, c)
  PROVE  Wire(s)'
<1>1. PICK u, d, b : u = up[s] /\ d = down[s] /\ b = subs[s]
  OBVIOUS
<1>2. u = up'[s] /\ d = down'[s] /\ b = subs'[s]
  BY <1>1
<1>3. ASSUME sock[s] = "open" PROVE OpenWire(s, u, d, b)'
  <2>1. OpenWire(s, u, d, b)
    BY <1>1, <1>3 DEF Wire
  <2>2. \A c \in 1..Len(calls) : InWires(c, u, d) => CallStays(s, c)
    BY <1>1, <1>3
  <2> QED
    BY <2>1, <2>2, OpenWireStays
<1>4. Idle(s)'
  BY DEF Wire, Idle
<1>5. sock'[s] = "open" => OpenWire(s, up[s], down[s], subs[s])'
  BY <1>2, <1>3
<1> QED
  BY <1>4, <1>5 DEF Wire

(* So it is when the page stays as it is.                                  *)
LEMMA QuietWire ==
  ASSUME Typed, UNCHANGED page, NEW s \in Sockets, Wire(s),
         sock'[s] = sock[s], up'[s] = up[s], down'[s] = down[s],
         subs'[s] = subs[s], owner'[s] = owner[s]
  PROVE  Wire(s)'
<1>1. /\ global' = global /\ handler' = handler
      /\ \A t : Unheard(s, t) => Unheard(s, t)'
  BY DEF page, Unheard
<1>2. \A c \in 1..Len(calls) : CallStays(s, c)
  BY CallsStay DEF page
<1> QED
  BY <1>1, <1>2, WireStays

(* A step that changes one websocket, and what it carries.                 *)
LEMMA ChangedWire ==
  ASSUME Typed, UNCHANGED page, NEW s \in Sockets, owner' = owner,
         sock' = sock, sock[s] = "open",
         NEW u, u = up'[s], NEW d, d = down'[s], NEW b, b = subs'[s],
         OpenWire(s, u, d, b), Wire(s)
  PROVE  Wire(s)'
<1>1. /\ global' = global /\ handler' = handler
      /\ \A t : Unheard(s, t) => Unheard(s, t)'
  BY DEF page, Unheard
<1>2. \A c \in 1..Len(calls) : CallStays(s, c)
  BY CallsStay DEF page
<1>3. OpenWire(s, u, d, b)'
  BY <1>1, <1>2, OpenWireStays
<1>4. Idle(s)'
  BY DEF Wire, Idle
<1> QED
  BY <1>3, <1>4 DEF Wire

(* What the next state has to show.                                        *)
LEMMA ExplainedNext ==
  ASSUME ASSUME NEW o \in Objects, NEW id \in DOMAIN pending'[o],
                NEW c, c = pending'[o][id]
         PROVE  \/ calls'[c].end = "unsent"
                \/ /\ calls'[c].end = "raised"
                   /\ \/ calls'[c].topic = Strange \/ ~calls'[c].given
                      \/ global' = None
                \/ /\ calls'[c].end = "waits"
                   /\ \/ sock'[calls'[c].sock] = "closed"
                      \/ InWires(c, up'[calls'[c].sock],
                                 down'[calls'[c].sock])
  PROVE  Explained'
BY Zenon DEF Explained

(* An entry stays explained as long as no message of an open websocket is  *)
(* lost.                                                                   *)
LEMMA ExplainedStays ==
  ASSUME EntriesOwn, Explained,
         calls' = calls, pending' = pending, global' = global,
         \A s \in Sockets : \/ sock'[s] = "closed"
                            \/ /\ sock[s] # "closed"
                               /\ \A c : InWires(c, up[s], down[s]) =>
                                    InWires(c, up'[s], down'[s])
  PROVE  Explained'
<1> DEFINE
      Reason(c) ==
        \/ calls[c].end = "unsent"
        \/ /\ calls[c].end = "raised"
           /\ calls[c].topic = Strange \/ ~calls[c].given \/ global = None
        \/ /\ calls[c].end = "waits"
           /\ \/ sock[calls[c].sock] = "closed"
              \/ InWires(c, up[calls[c].sock], down[calls[c].sock])
<1>1. ASSUME NEW o \in Objects, NEW id \in DOMAIN pending[o]
      PROVE  Reason(pending[o][id])'
  <2>1. PICK c, z : c = pending[o][id] /\ z = calls[c].sock
    OBVIOUS
  <2>2. Reason(c)
    BY <2>1, Zenon DEF Explained
  <2>3. CASE calls[c].end # "waits"
    BY <2>1, <2>2, <2>3
  <2>4. CASE calls[c].end = "waits"
    <3>1. z \in Sockets
      BY <2>1, <2>4 DEF EntriesOwn
    <3>2. sock[z] = "closed" \/ InWires(c, up[z], down[z])
      BY <2>1, <2>2, <2>4
    <3>3. sock'[z] = "closed" \/ InWires(c, up'[z], down'[z])
      BY <3>1, <3>2
    <3> QED
      BY <2>1, <2>4, <3>3
  <2> QED
    BY <2>3, <2>4
<1>2. \A o \in Objects : \A id \in DOMAIN pending'[o] : Reason(pending[o][id])'
  BY <1>1
<1> QED
  BY <1>2, Zenon DEF Explained

-----------------------------------------------------------------------------
(* The steps that leave the page alone.                                    *)

(* What they have to show.                                                 *)
LEMMA QuietSteps ==
  ASSUME Inv, UNCHANGED <<page, renewed>>, WiresTyped', Owned',
         AnswersFindTheirCall',
         \A s \in Sockets : \/ sock'[s] = "closed"
                            \/ /\ sock[s] # "closed"
                               /\ \A c : InWires(c, up[s], down[s]) =>
                                    InWires(c, up'[s], down'[s]),
         \A s \in Sockets : Wire(s)'
  PROVE  Inv'
<1>1. /\ global' = global /\ current' = current /\ nextId' = nextId
      /\ pending' = pending /\ handler' = handler /\ calls' = calls
      /\ renewed' = renewed
  BY DEF page
<1>2. Typed'
  BY <1>1 DEF Inv, Typed, PageTyped, BrowserAssumption
<1>3. EntriesOwn'
  BY <1>1 DEF Inv, EntriesOwn
<1>4. Explained'
  BY <1>1, ExplainedStays DEF Inv
<1> QED
  BY <1>2, <1>3, <1>4 DEF Inv

(* Most of them leave the history alone.                                   *)
LEMMA HistoryStays ==
  ASSUME Inv, UNCHANGED history
  PROVE  UNCHANGED renewed /\ AnswersFindTheirCall'
BY DEF Inv, AnswersFindTheirCall, history

(* A websocket opens.                                                      *)
LEMMA OpensStep ==
  ASSUME Inv, NEW s \in Sockets, Opens(s)
  PROVE  Inv'
<1>1. /\ sock[s] = "connecting" /\ sock' = [sock EXCEPT ![s] = "open"]
      /\ UNCHANGED page /\ owner' = owner /\ up' = up /\ down' = down
      /\ subs' = subs /\ stored' = stored /\ UNCHANGED history
  BY DEF Opens, server
<1>2. /\ Typed /\ Owned
      /\ sock \in [Sockets -> {"fresh", "connecting", "open", "closed"}]
  BY DEF Inv, Typed, WiresTyped
<1>3. /\ sock' \in [Sockets -> {"fresh", "connecting", "open", "closed"}]
      /\ sock'[s] = "open"
      /\ \A z \in Sockets : z # s => sock'[z] = sock[z]
  BY <1>1, <1>2
<1>4. WiresTyped'
  BY <1>1, <1>2, <1>3 DEF Typed, WiresTyped
<1>5. Owned'
  <2>1. current' = current /\ renewed' = renewed
    BY <1>1 DEF page, history
  <2>2. \A o \in Objects : current'[o] # None => sock'[current'[o]] # "fresh"
    BY <1>1, <1>2, <1>3, <2>1 DEF Owned, Typed, PageTyped
  <2> QED
    BY <1>1, <1>2, <1>3, <2>1, <2>2 DEF Owned
<1>6. ASSUME NEW z \in Sockets PROVE Wire(z)'
  <2>1. Wire(z)
    BY DEF Inv
  <2>2. CASE z # s
    BY <1>1, <1>2, <1>3, <2>1, <2>2, QuietWire
  <2>3. CASE z = s
    <3>1. up[s] = <<>> /\ down[s] = <<>> /\ subs[s] = {} /\ owner[s] \in Objects
      BY <1>1, <2>1, <2>3 DEF Wire, Idle
    <3>2. Idle(s)'
      BY <1>1, <1>3, <3>1 DEF Idle
    <3>3. Len(up'[s]) = 0 /\ Len(down'[s]) = 0 /\ subs'[s] = {}
      BY <1>1, <3>1
    <3>4. /\ UpTrue(s, up[s], subs[s])' /\ DownTrue(s, down[s], subs[s])'
          /\ Once(up[s], down[s])' /\ Handled(s, up[s], down[s], subs[s])'
      BY <3>3 DEF UpTrue, DownTrue, Once, Handled
    <3> QED
      BY <2>3, <3>2, <3>4 DEF Wire, OpenWire
  <2> QED
    BY <2>2, <2>3
<1>7. \A z \in Sockets : \/ sock'[z] = "closed"
                         \/ /\ sock[z] # "closed"
                            /\ \A c : InWires(c, up[z], down[z]) =>
                                 InWires(c, up'[z], down'[z])
  BY <1>1, <1>2, <1>3
<1> QED
  BY <1>1, <1>4, <1>5, <1>6, <1>7, QuietSteps, HistoryStays

(* A websocket ends, with what it carries.                                 *)
LEMMA ClosesStep ==
  ASSUME Inv, NEW s \in Sockets, Closes(s)
  PROVE  Inv'
<1>1. /\ sock[s] \in {"connecting", "open"}
      /\ sock' = [sock EXCEPT ![s] = "closed"]
      /\ up' = [up EXCEPT ![s] = <<>>] /\ down' = [down EXCEPT ![s] = <<>>]
      /\ UNCHANGED page /\ owner' = owner
      /\ subs' = subs /\ stored' = stored /\ UNCHANGED history
  BY DEF Closes, server
<1>2. /\ Typed /\ Owned
      /\ sock \in [Sockets -> {"fresh", "connecting", "open", "closed"}]
      /\ up \in [Sockets -> Seq(Requests)]
      /\ down \in [Sockets -> Seq(Arrivals)]
  BY DEF Inv, Typed, WiresTyped
<1>3. /\ sock' \in [Sockets -> {"fresh", "connecting", "open", "closed"}]
      /\ sock'[s] = "closed"
      /\ \A z \in Sockets : z # s => sock'[z] = sock[z]
  BY <1>1, <1>2
<1>4. /\ up' \in [Sockets -> Seq(Requests)] /\ up'[s] = <<>>
      /\ \A z \in Sockets : z # s => up'[z] = up[z]
  BY <1>1, <1>2
<1>5. /\ down' \in [Sockets -> Seq(Arrivals)] /\ down'[s] = <<>>
      /\ \A z \in Sockets : z # s => down'[z] = down[z]
  BY <1>1, <1>2
<1>6. WiresTyped'
  BY <1>1, <1>2, <1>3, <1>4, <1>5 DEF Typed, WiresTyped
<1>7. Owned'
  <2>1. current' = current /\ renewed' = renewed
    BY <1>1 DEF page, history
  <2>2. \A o \in Objects : current'[o] # None => sock'[current'[o]] # "fresh"
    BY <1>1, <1>2, <1>3, <2>1 DEF Owned, Typed, PageTyped
  <2>3. \A z \in Sockets : sock'[z] \in {"connecting", "open"} =>
          sock[z] \in {"connecting", "open"}
    BY <1>1, <1>2, <1>3
  <2> QED
    BY <1>1, <1>2, <2>1, <2>2, <2>3 DEF Owned
<1>8. ASSUME NEW z \in Sockets PROVE Wire(z)'
  <2>1. Wire(z)
    BY DEF Inv
  <2>2. CASE z # s
    BY <1>1, <1>2, <1>3, <1>4, <1>5, <2>1, <2>2, QuietWire
  <2>3. CASE z = s
    BY <1>1, <1>3, <1>4, <1>5, <2>1, <2>3 DEF Wire, Idle
  <2> QED
    BY <2>2, <2>3
<1>9. \A z \in Sockets : \/ sock'[z] = "closed"
                         \/ /\ sock[z] # "closed"
                            /\ \A c : InWires(c, up[z], down[z]) =>
                                 InWires(c, up'[z], down'[z])
  <2> SUFFICES ASSUME NEW z \in Sockets, z # s, sock[z] # "closed", NEW c,
                      InWires(c, up[z], down[z])
               PROVE  InWires(c, up'[z], down'[z])
    BY <1>1, <1>2, <1>3
  <2> QED
    BY <1>4, <1>5
<1> QED
  BY <1>1, <1>6, <1>7, <1>8, <1>9, QuietSteps, HistoryStays

(* A step on one open websocket.                                           *)
LEMMA WireStep ==
  ASSUME Inv, NEW s \in Sockets, sock[s] = "open",
         UNCHANGED <<page, sock, owner, renewed>>, AnswersFindTheirCall',
         WiresTyped',
         \A z \in Sockets \ {s} :
           up'[z] = up[z] /\ down'[z] = down[z] /\ subs'[z] = subs[z],
         NEW u, u = up'[s], NEW d, d = down'[s], NEW b, b = subs'[s],
         OpenWire(s, u, d, b),
         \A c : InWires(c, up[s], down[s]) => InWires(c, u, d)
  PROVE  Inv'
<1>1. /\ sock' = sock /\ owner' = owner /\ current' = current
      /\ renewed' = renewed /\ UNCHANGED page /\ Typed /\ Owned
  BY DEF page, Inv
<1>2. Owned'
  BY <1>1 DEF Owned
<1>3. ASSUME NEW z \in Sockets PROVE Wire(z)'
  <2>1. Wire(z)
    BY DEF Inv
  <2>2. CASE z # s
    BY <1>1, <2>1, <2>2, QuietWire
  <2>3. CASE z = s
    BY <1>1, <2>1, <2>3, ChangedWire
  <2> QED
    BY <2>2, <2>3
<1>4. \A z \in Sockets : \/ sock'[z] = "closed"
                         \/ /\ sock[z] # "closed"
                            /\ \A c : InWires(c, up[z], down[z]) =>
                                 InWires(c, up'[z], down'[z])
  BY <1>1
<1> QED
  BY <1>2, <1>3, <1>4, QuietSteps

(* What carries messages is open, and what it carries is in order.         *)
LEMMA UsedWire ==
  ASSUME Inv, NEW s \in Sockets,
         sock[s] = "open" \/ up[s] # <<>> \/ down[s] # <<>>
  PROVE  sock[s] = "open" /\ OpenWire(s, up[s], down[s], subs[s])
<1>1. Wire(s)
  BY DEF Inv
<1> QED
  BY <1>1 DEF Wire, Idle

(* The server subscribes.                                                  *)
LEMMA SubscribeStep ==
  ASSUME Inv, NEW s \in Sockets, NEW i \in DOMAIN up[s], Subscribe(s, i)
  PROVE  Inv'
<1>1. PICK m, u, d, b : /\ m = up[s][i] /\ u = up[s] /\ d = down[s]
                        /\ b = subs[s]
  OBVIOUS
<1>2. PICK u2, b2 : u2 = Replying(u, i) /\ b2 = With(b, m.topic)
  OBVIOUS
<1>3. /\ Typed /\ u \in Seq(Requests) /\ d \in Seq(Arrivals)
      /\ b \in SUBSET Topics /\ stored \subseteq Topics
      /\ up \in [Sockets -> Seq(Requests)]
      /\ down \in [Sockets -> Seq(Arrivals)]
      /\ subs \in [Sockets -> SUBSET Topics]
  BY <1>1 DEF Inv, Typed, WiresTyped
<1>4. i \in 1..Len(u) /\ up[s] # <<>>
  BY <1>1, <1>3, LenProperties
<1>5. sock[s] = "open" /\ OpenWire(s, u, d, b)
  BY <1>1, <1>4, UsedWire
<1>6. /\ u2 \in Seq(Requests) /\ OpenWire(s, u2, d, b2)
      /\ \A c : InWires(c, u, d) => InWires(c, u2, d)
  <2>1. b2 = With(b, u[i].topic)
    BY <1>1, <1>2
  <2> QED
    BY <1>2, <1>3, <1>4, <1>5, <2>1, SubscribeWire
<1>7. /\ up' \in [Sockets -> Seq(Requests)] /\ up'[s] = u2
      /\ \A z \in Sockets \ {s} : up'[z] = up[z]
  <2>1. up' = [up EXCEPT ![s] = u2]
    BY <1>1, <1>2 DEF Subscribe, Replying
  <2> QED
    BY <1>3, <1>6, <2>1
<1>8. /\ subs' \in [Sockets -> SUBSET Topics] /\ subs'[s] = b2
      /\ \A z \in Sockets \ {s} : subs'[z] = subs[z]
  <2>1. CASE m.topic \in Topics
    <3>1. subs' = [subs EXCEPT ![s] = @ \cup {m.topic}]
      BY <1>1, <2>1 DEF Subscribe
    <3> QED
      BY <1>1, <1>2, <1>3, <2>1, <3>1 DEF With
  <2>2. CASE m.topic \notin Topics
    <3>1. subs' = subs
      BY <1>1, <2>2 DEF Subscribe
    <3> QED
      BY <1>1, <1>2, <1>3, <2>2, <3>1 DEF With
  <2> QED
    BY <2>1, <2>2
<1>9. UNCHANGED <<page, sock, owner, history>> /\ stored' = stored
  BY DEF Subscribe
<1>10. PICK n : n = Notice(m.topic)
  OBVIOUS
<1>11. CASE m.topic \in stored
  <2>1. n \in Arrivals /\ ~IsAnswer(n) /\ n.topic \in b2
    BY <1>2, <1>3, <1>10, <1>11 DEF Notice, Arrivals, Notices, IsAnswer, With
  <2>2. /\ Append(d, n) \in Seq(Arrivals) /\ OpenWire(s, u2, Append(d, n), b2)
        /\ \A c : InWires(c, u2, d) => InWires(c, u2, Append(d, n))
    BY <1>3, <1>6, <2>1, AppendWire
  <2>3. down' = [down EXCEPT ![s] = Append(d, n)]
    BY <1>1, <1>10, <1>11 DEF Subscribe, Delivers
  <2>4. /\ down' \in [Sockets -> Seq(Arrivals)] /\ down'[s] = Append(d, n)
        /\ \A z \in Sockets \ {s} : down'[z] = down[z]
    BY <1>3, <2>2, <2>3
  <2>5. WiresTyped'
    BY <1>3, <1>7, <1>8, <1>9, <2>4 DEF Typed, WiresTyped
  <2>6. PICK d2 : d2 = Append(d, n)
    OBVIOUS
  <2>7. \A c : InWires(c, up[s], down[s]) => InWires(c, u2, d2)
    BY <1>1, <1>6, <2>2, <2>6
  <2> QED
    BY <1>5, <1>7, <1>8, <1>9, <2>2, <2>4, <2>5, <2>6, <2>7, WireStep,
       HistoryStays
<1>12. CASE m.topic \notin stored
  <2>1. down' = down
    BY <1>1, <1>12 DEF Subscribe
  <2>2. WiresTyped'
    BY <1>3, <1>7, <1>8, <1>9, <2>1 DEF Typed, WiresTyped
  <2>3. d = down'[s] /\ \A z \in Sockets \ {s} : down'[z] = down[z]
    BY <1>1, <2>1
  <2>4. \A c : InWires(c, up[s], down[s]) => InWires(c, u2, d)
    BY <1>1, <1>6
  <2> QED
    BY <1>5, <1>6, <1>7, <1>8, <1>9, <2>2, <2>3, <2>4, WireStep, HistoryStays
<1> QED
  BY <1>11, <1>12

(* The server answers.                                                     *)
LEMMA ReplyStep ==
  ASSUME Inv, NEW s \in Sockets, NEW i \in DOMAIN up[s], Reply(s, i)
  PROVE  Inv'
<1>1. PICK m, u, d, b : /\ m = up[s][i] /\ u = up[s] /\ d = down[s]
                        /\ b = subs[s]
  OBVIOUS
<1>2. /\ Typed /\ u \in Seq(Requests) /\ d \in Seq(Arrivals)
      /\ b \in SUBSET Topics /\ None \notin Topics
      /\ up \in [Sockets -> Seq(Requests)]
      /\ down \in [Sockets -> Seq(Arrivals)]
  BY <1>1 DEF Inv, Typed, WiresTyped, BrowserAssumption
<1>3. i \in 1..Len(u) /\ up[s] # <<>>
  BY <1>1, <1>2, LenProperties
<1>4. m \in Requests
  BY <1>1, <1>2, <1>3, ElementOfSeq
<1>5. sock[s] = "open" /\ OpenWire(s, u, d, b)
  BY <1>1, <1>3, UsedWire
<1>6. PICK type :
        /\ type \in IF m.type = "replies" THEN {"result"}
                    ELSE IF m.topic = None THEN {"result", "error"}
                    ELSE {"error"}
        /\ down' = [down EXCEPT ![s] = Append(@,
              [type |-> type, of |-> m.of, id |-> m.id, topics |-> subs[s]])]
  BY <1>1 DEF Reply, Delivers
<1>7. PICK a : a = [type |-> type, of |-> m.of, id |-> m.id, topics |-> b]
  OBVIOUS
<1>8. /\ a \in Answers /\ a.of = u[i].of /\ a.id = u[i].id /\ a.topics = b
      /\ a.type = "result" => u[i].type = "replies" \/ u[i].topic = None
      /\ u[i].type = "replies" => a.type = "result"
  BY <1>1, <1>2, <1>4, <1>6, <1>7 DEF Answers, Requests
<1>9. PICK u2 : u2 = RemoveAt(u, i)
  OBVIOUS
<1>10. PICK d2 : d2 = Append(d, a)
  OBVIOUS
<1>11. /\ u2 \in Seq(Requests) /\ d2 \in Seq(Arrivals) /\ OpenWire(s, u2, d2, b)
       /\ \A c : InWires(c, u, d) => InWires(c, u2, d2)
  BY <1>2, <1>3, <1>5, <1>8, <1>9, <1>10, ReplyWire
<1>12. /\ up' \in [Sockets -> Seq(Requests)] /\ up'[s] = u2
       /\ \A z \in Sockets \ {s} : up'[z] = up[z]
  <2>1. up' = [up EXCEPT ![s] = u2]
    BY <1>1, <1>9 DEF Reply
  <2> QED
    BY <1>2, <1>11, <2>1
<1>13. /\ down' \in [Sockets -> Seq(Arrivals)] /\ down'[s] = d2
       /\ \A z \in Sockets \ {s} : down'[z] = down[z]
  <2>1. down' = [down EXCEPT ![s] = d2]
    BY <1>1, <1>6, <1>7, <1>10
  <2> QED
    BY <1>2, <1>11, <2>1
<1>14. UNCHANGED <<page, sock, owner, history>> /\ subs' = subs
       /\ stored' = stored
  BY DEF Reply, server
<1>15. WiresTyped'
  BY <1>2, <1>12, <1>13, <1>14 DEF Typed, WiresTyped
<1>16. \A c : InWires(c, up[s], down[s]) => InWires(c, u2, d2)
  BY <1>1, <1>11
<1>17. b = subs'[s] /\ \A z \in Sockets \ {s} : subs'[z] = subs[z]
  BY <1>1, <1>14
<1> QED
  BY <1>5, <1>11, <1>12, <1>13, <1>14, <1>15, <1>16, <1>17, WireStep,
     HistoryStays

(* The server calls a method of the page.                                  *)
LEMMA ServerCallsStep ==
  ASSUME Inv, NEW s \in Sockets, ServerCalls(s)
  PROVE  Inv'
<1>1. PICK u, d, b : u = up[s] /\ d = down[s] /\ b = subs[s]
  OBVIOUS
<1>2. /\ Typed /\ d \in Seq(Arrivals) /\ down \in [Sockets -> Seq(Arrivals)]
  BY <1>1 DEF Inv, Typed, WiresTyped
<1>3. PICK method \in {"known", "unknown"} :
        down' = [down EXCEPT ![s] = Append(@,
                   [type |-> "request", method |-> method])]
  BY DEF ServerCalls, Delivers
<1>4. PICK m : m = [type |-> "request", method |-> method]
  OBVIOUS
<1>5. m \in Arrivals /\ ~IsAnswer(m) /\ m.type # "notice"
  BY <1>4 DEF Arrivals, Questions, IsAnswer
<1>6. sock[s] = "open" /\ OpenWire(s, u, d, b)
  BY <1>1, UsedWire DEF ServerCalls, IsOpen
<1>7. PICK d2 : d2 = Append(d, m)
  OBVIOUS
<1>8. /\ d2 \in Seq(Arrivals) /\ OpenWire(s, u, d2, b)
      /\ \A c : InWires(c, u, d) => InWires(c, u, d2)
  BY <1>2, <1>5, <1>6, <1>7, AppendWire
<1>9. /\ down' \in [Sockets -> Seq(Arrivals)] /\ down'[s] = d2
      /\ \A z \in Sockets \ {s} : down'[z] = down[z]
  <2>1. down' = [down EXCEPT ![s] = d2]
    BY <1>1, <1>3, <1>4, <1>7
  <2> QED
    BY <1>2, <1>8, <2>1
<1>10. /\ UNCHANGED <<page, sock, owner, history>> /\ up' = up /\ subs' = subs
       /\ stored' = stored
  BY DEF ServerCalls, server
<1>11. WiresTyped'
  BY <1>2, <1>9, <1>10 DEF Typed, WiresTyped
<1>12. \A c : InWires(c, up[s], down[s]) => InWires(c, u, d2)
  BY <1>1, <1>8
<1>13. /\ u = up'[s] /\ b = subs'[s]
       /\ \A z \in Sockets \ {s} : up'[z] = up[z] /\ subs'[z] = subs[z]
  BY <1>1, <1>10
<1> QED
  BY <1>6, <1>8, <1>9, <1>10, <1>11, <1>12, <1>13, WireStep, HistoryStays

(* notify() writes to all at once.                                         *)
LEMMA NotifyStep ==
  ASSUME Inv, NEW t \in Topics, Notify(t)
  PROVE  Inv'
<1>1. PICK to : to = {s \in Sockets : IsOpen(s) /\ t \in subs[s]}
  OBVIOUS
<1>2. /\ down' = [s \in Sockets |-> IF s \in to THEN Append(down[s], Notice(t))
                                                ELSE down[s]]
      /\ stored' \in {stored, stored \cup {t}}
      /\ UNCHANGED page /\ UNCHANGED history
      /\ sock' = sock /\ owner' = owner /\ up' = up /\ subs' = subs
  BY <1>1 DEF Notify
<1>3. /\ Typed /\ Owned /\ stored \subseteq Topics
      /\ down \in [Sockets -> Seq(Arrivals)]
  BY DEF Inv, Typed, WiresTyped
<1>4. PICK n : n = Notice(t)
  OBVIOUS
<1>5. n \in Arrivals /\ ~IsAnswer(n) /\ n.topic = t
  BY <1>4 DEF Notice, Arrivals, Notices, IsAnswer
<1>6. ASSUME NEW s \in to
      PROVE  /\ s \in Sockets /\ sock[s] = "open"
             /\ down'[s] \in Seq(Arrivals) /\ Wire(s)'
             /\ \A c : InWires(c, up[s], down[s]) => InWires(c, up[s], down'[s])
  <2>1. s \in Sockets /\ sock[s] = "open" /\ t \in subs[s]
    BY <1>1 DEF IsOpen
  <2>2. PICK u, d, b : u = up[s] /\ d = down[s] /\ b = subs[s]
    OBVIOUS
  <2>3. d \in Seq(Arrivals) /\ OpenWire(s, u, d, b)
    BY <1>3, <2>1, <2>2, UsedWire
  <2>4. PICK d2 : d2 = Append(d, n)
    OBVIOUS
  <2>5. /\ d2 \in Seq(Arrivals) /\ OpenWire(s, u, d2, b)
        /\ \A c : InWires(c, u, d) => InWires(c, u, d2)
    BY <1>5, <2>1, <2>2, <2>3, <2>4, AppendWire
  <2>6. down'[s] = d2
    BY <1>2, <1>4, <2>1, <2>2, <2>4
  <2>7. u = up'[s] /\ b = subs'[s]
    BY <1>2, <2>2
  <2>8. Wire(s)
    BY <2>1 DEF Inv
  <2>9. Wire(s)'
    BY <1>2, <1>3, <2>1, <2>5, <2>6, <2>7, <2>8, ChangedWire
  <2> QED
    BY <2>1, <2>2, <2>5, <2>6, <2>9
<1>7. ASSUME NEW s \in Sockets, s \notin to
      PROVE  down'[s] = down[s] /\ Wire(s)'
  <2>1. down'[s] = down[s] /\ up'[s] = up[s] /\ subs'[s] = subs[s]
        /\ sock'[s] = sock[s] /\ owner'[s] = owner[s]
    BY <1>2, <1>7
  <2>2. Wire(s)
    BY DEF Inv
  <2> QED
    BY <1>2, <1>3, <2>1, <2>2, QuietWire
<1>8. \A s \in Sockets : Wire(s)'
  BY <1>6, <1>7
<1>9. WiresTyped'
  <2>1. \A s \in Sockets : down'[s] \in Seq(Arrivals)
    BY <1>3, <1>6, <1>7
  <2>2. down' \in [Sockets -> Seq(Arrivals)]
    BY <1>2, <2>1
  <2> QED
    BY <1>2, <1>3, <2>2 DEF Typed, WiresTyped
<1>10. Owned'
  BY <1>2, <1>3 DEF Owned, page, history
<1>11. \A s \in Sockets : \/ sock'[s] = "closed"
                          \/ /\ sock[s] # "closed"
                             /\ \A c : InWires(c, up[s], down[s]) =>
                                  InWires(c, up'[s], down'[s])
  <2> SUFFICES ASSUME NEW s \in Sockets, sock[s] # "closed", NEW c,
                      InWires(c, up[s], down[s])
               PROVE  InWires(c, up'[s], down'[s])
    BY <1>2
  <2>1. CASE s \in to
    BY <1>2, <1>6, <2>1
  <2>2. CASE s \notin to
    BY <1>2, <1>7, <2>2
  <2> QED
    BY <2>1, <2>2
<1> QED
  BY <1>2, <1>8, <1>9, <1>10, <1>11, QuietSteps, HistoryStays

-----------------------------------------------------------------------------
(* The steps of the page.                                                  *)

(* connect().                                                              *)
LEMMA ConnectStep ==
  ASSUME Inv, NEW o \in Objects, Connect(o)
  PROVE  Inv'
<1>1. PICK s \in Sockets :
        /\ sock[s] = "fresh" /\ sock' = [sock EXCEPT ![s] = "connecting"]
        /\ owner' = [owner EXCEPT ![s] = o]
        /\ current' = [current EXCEPT ![o] = s]
        /\ renewed' = IF InUse(current[o]) THEN renewed \cup {o} ELSE renewed
        /\ UNCHANGED <<global, nextId, pending, handler, calls, up, down,
                       server, astray>>
  BY DEF Connect
<1>2. /\ global' = global /\ nextId' = nextId /\ pending' = pending
      /\ handler' = handler /\ calls' = calls /\ up' = up /\ down' = down
      /\ subs' = subs /\ stored' = stored /\ astray' = astray
  BY <1>1 DEF server
<1>3. /\ Typed /\ Owned /\ EntriesOwn /\ Explained
      /\ sock \in [Sockets -> {"fresh", "connecting", "open", "closed"}]
      /\ owner \in [Sockets -> Objects \cup {None}]
      /\ current \in [Objects -> Sockets \cup {None}]
      /\ None \notin Objects \cup Sockets
  BY DEF Inv, Typed, WiresTyped, PageTyped, BrowserAssumption
<1>4. /\ sock' \in [Sockets -> {"fresh", "connecting", "open", "closed"}]
      /\ sock'[s] = "connecting"
      /\ \A z \in Sockets : z # s => sock'[z] = sock[z]
  BY <1>1, <1>3
<1>5. /\ owner' \in [Sockets -> Objects \cup {None}] /\ owner'[s] = o
      /\ \A z \in Sockets : z # s => owner'[z] = owner[z]
  BY <1>1, <1>3
<1>6. /\ current' \in [Objects -> Sockets \cup {None}] /\ current'[o] = s
      /\ \A p \in Objects : p # o => current'[p] = current[p]
  BY <1>1, <1>3
<1>7. \A z \in Sockets : Wire(z)
  BY DEF Inv
<1>8. Typed'
  BY <1>2, <1>3, <1>4, <1>5, <1>6
     DEF Typed, PageTyped, WiresTyped, BrowserAssumption
<1>9. Owned'
  <2>1. ASSUME NEW p \in Objects, current'[p] # None
        PROVE  sock'[current'[p]] # "fresh" /\ owner'[current'[p]] = p
    <3>1. CASE p = o
      BY <1>4, <1>5, <1>6, <3>1
    <3>2. CASE p # o
      <4>1. PICK z : z = current[p]
        OBVIOUS
      <4>2. /\ current'[p] = z /\ z \in Sockets /\ sock[z] # "fresh"
            /\ owner[z] = p
        BY <1>3, <1>6, <2>1, <3>2, <4>1 DEF Owned
      <4> QED
        BY <1>1, <1>4, <1>5, <4>2
    <3> QED
      BY <3>1, <3>2
  <2>2. ASSUME renewed' = {}, NEW z \in Sockets,
               sock'[z] \in {"connecting", "open"}
        PROVE  current'[owner'[z]] = z
    <3>1. renewed = {} /\ ~InUse(current[o])
      BY <1>1, <2>2
    <3>2. CASE z = s
      BY <1>5, <1>6, <3>2
    <3>3. CASE z # s
      <4>1. sock[z] \in {"connecting", "open"} /\ owner'[z] = owner[z]
        BY <1>4, <1>5, <2>2, <3>3
      <4>2. current[owner[z]] = z /\ owner[z] \in Objects
        BY <1>3, <1>7, <3>1, <4>1 DEF Owned, Wire, Idle
      <4>3. owner[z] # o
        BY <1>3, <3>1, <4>1, <4>2 DEF InUse
      <4> QED
        BY <1>6, <4>1, <4>2, <4>3
    <3> QED
      BY <3>2, <3>3
  <2> QED
    BY <2>1, <2>2 DEF Owned
<1>10. EntriesOwn'
  BY <1>2, <1>3 DEF EntriesOwn
<1>11. Explained'
  <2>1. \A z \in Sockets : \/ sock'[z] = "closed"
                           \/ /\ sock[z] # "closed"
                              /\ \A c : InWires(c, up[z], down[z]) =>
                                   InWires(c, up'[z], down'[z])
    BY <1>1, <1>2, <1>3, <1>4
  <2> QED
    BY <1>2, <1>3, <2>1, ExplainedStays
<1>12. AnswersFindTheirCall'
  BY <1>1, <1>2 DEF Inv, AnswersFindTheirCall
<1>13. ASSUME NEW z \in Sockets PROVE Wire(z)'
  <2>1. CASE z = s
    <3>1. Idle(s)
      BY <1>7 DEF Wire
    <3>2. up'[s] = <<>> /\ down'[s] = <<>> /\ subs'[s] = {}
      BY <1>1, <1>2, <3>1 DEF Idle
    <3> QED
      BY <1>4, <1>5, <2>1, <3>2 DEF Wire, Idle
  <2>2. CASE z # s
    <3>1. owner'[z] = owner[z] /\ sock'[z] = sock[z] /\ up'[z] = up[z]
          /\ down'[z] = down[z] /\ subs'[z] = subs[z]
      BY <1>2, <1>4, <1>5, <2>2
    <3>2. \A c \in 1..Len(calls) : CallStays(z, c)
      BY <1>2, <3>1, CallsStay
    <3> QED
      BY <1>2, <1>3, <1>7, <3>1, <3>2, WireStays DEF Unheard
  <2> QED
    BY <2>1, <2>2
<1> QED
  BY <1>8, <1>9, <1>10, <1>11, <1>12, <1>13 DEF Inv

(* A request goes on its way, after the call is in the table.              *)
LEMMA AskWire ==
  ASSUME NEW s, NEW u \in Seq(Requests), NEW d, NEW b, NEW m \in Requests,
         NEW u2, u2 = Append(u, m), OpenWire(s, u, d, b)', OfCall(s, m)',
         m.type = "request", m.topic = calls'[m.of].topic,
         ~InWires(m.of, u, d)
  PROVE  /\ u2 \in Seq(Requests) /\ OpenWire(s, u2, d, b)'
         /\ InWires(m.of, u2, d)
         /\ \A c : InWires(c, u, d) => InWires(c, u2, d)
<1>1. /\ u2 \in Seq(Requests)
      /\ \A j \in 1..Len(u) : j \in 1..Len(u2) /\ u2[j] = u[j]
      /\ Len(u2) \in 1..Len(u2) /\ u2[Len(u2)] = m
      /\ \A j \in 1..Len(u2) : j \in 1..Len(u) \/ j = Len(u2)
  BY AppendAdds
<1>2. /\ UpTrue(s, u, b)' /\ DownTrue(s, d, b)' /\ Once(u, d)'
      /\ Handled(s, u, d, b)'
  BY DEF OpenWire
<1>3. UpTrue(s, u2, b)'
  <2> SUFFICES ASSUME NEW j \in 1..Len(u2)
               PROVE  /\ OfCall(s, u2[j])'
                      /\ u2[j].topic = calls'[u2[j].of].topic
                      /\ u2[j].type = "replies" /\ u2[j].topic \in Topics
                           => u2[j].topic \in b
    BY DEF UpTrue
  <2>1. CASE j \in 1..Len(u)
    <3>1. /\ OfCall(s, u[j])' /\ u[j].topic = calls'[u[j].of].topic
          /\ u[j].type = "replies" /\ u[j].topic \in Topics => u[j].topic \in b
      BY <1>2, <2>1 DEF UpTrue
    <3> QED
      BY <1>1, <2>1, <3>1
  <2>2. CASE j = Len(u2)
    BY <1>1, <2>2
  <2> QED
    BY <1>1, <2>1, <2>2
<1>4. Once(u2, d)'
  <2>1. Once(u, d)
    BY <1>2 DEF Once, IsAnswer
  <2>2. /\ \A i \in 1..Len(u) : u[i].of # m.of
        /\ \A i \in 1..Len(d) : IsAnswer(d[i]) => d[i].of # m.of
    BY DEF InWires
  <2>3. \A i, j \in 1..Len(u2) : u2[i].of = u2[j].of => i = j
    BY <1>1, <2>1, <2>2 DEF Once
  <2>4. \A i \in 1..Len(u2), j \in 1..Len(d) :
          IsAnswer(d[j]) => u2[i].of # d[j].of
    BY <1>1, <2>1, <2>2 DEF Once
  <2> QED
    BY <2>1, <2>3, <2>4 DEF Once, IsAnswer
<1>5. Handled(s, u2, d, b)'
  <2>1. \A t : Awaited(u, d, t)' => Awaited(u2, d, t)'
    BY <1>1 DEF Awaited
  <2> QED
    BY <1>2, <2>1 DEF Handled
<1>6. InWires(m.of, u2, d) /\ \A c : InWires(c, u, d) => InWires(c, u2, d)
  BY <1>1 DEF InWires
<1> QED
  BY <1>1, <1>2, <1>3, <1>4, <1>5, <1>6 DEF OpenWire

(* A new entry has an id and a call of its own.                            *)
LEMMA CallEntries ==
  ASSUME Inv, NEW o \in Objects, NEW t \in Asked, NEW given \in BOOLEAN,
         Call(o, t, given),
         NEW c, c = Len(calls) + 1, NEW id, id = nextId[o]
  PROVE  /\ c \in Nat /\ id \in Nat /\ Len(calls') = c
         /\ calls' \in Seq(CallRecords)
         /\ \A k \in 1..Len(calls) : calls'[k] = calls[k]
         /\ calls'[c] = [sock |-> current[o], topic |-> t, given |-> given,
                end |-> IF IsOpen(current[o]) THEN "waits" ELSE "unsent"]
         /\ nextId' \in [Objects -> Nat] /\ nextId'[o] = id + 1
         /\ DOMAIN pending' = Objects /\ id \notin DOMAIN pending[o]
         /\ DOMAIN pending'[o] = DOMAIN pending[o] \cup {id}
         /\ pending'[o][id] = c
         /\ \A x \in DOMAIN pending[o] : pending'[o][x] = pending[o][x]
         /\ \A p \in Objects \ {o} :
              nextId'[p] = nextId[p] /\ pending'[p] = pending[p]
<1>1. /\ nextId \in [Objects -> Nat] /\ DOMAIN pending = Objects
      /\ calls \in Seq(CallRecords) /\ current[o] \in Sockets \cup {None}
      /\ EntriesOwn
  BY DEF Inv, Typed, PageTyped
<1>2. /\ nextId' = [nextId EXCEPT ![o] = nextId[o] + 1]
      /\ pending' = [pending EXCEPT ![o] =
           [i \in DOMAIN pending[o] \cup {nextId[o]} |->
              IF i = nextId[o] THEN Len(calls) + 1 ELSE pending[o][i]]]
      /\ calls' = Append(calls,
           [sock |-> current[o], topic |-> t, given |-> given,
                end |-> IF IsOpen(current[o]) THEN "waits" ELSE "unsent"])
  BY DEF Call
<1>3. PICK r : r = [sock |-> current[o], topic |-> t, given |-> given,
                end |-> IF IsOpen(current[o]) THEN "waits" ELSE "unsent"]
  OBVIOUS
<1>4. r \in CallRecords
  BY <1>1, <1>3 DEF CallRecords
<1>5. calls' = Append(calls, r)
  BY <1>2, <1>3
<1>6. /\ calls' \in Seq(CallRecords) /\ Len(calls) \in Nat
      /\ Len(calls') = Len(calls) + 1 /\ calls'[Len(calls) + 1] = r
      /\ \A k \in 1..Len(calls) : calls'[k] = calls[k]
  <2>1. PICK q : q = calls
    OBVIOUS
  <2>2. q \in Seq(CallRecords)
    BY <1>1, <2>1
  <2>3. /\ Append(q, r) \in Seq(CallRecords) /\ Len(q) \in Nat
        /\ Len(Append(q, r)) = Len(q) + 1 /\ Append(q, r)[Len(q) + 1] = r
        /\ \A k \in 1..Len(q) : Append(q, r)[k] = q[k]
    BY <1>4, <2>2, AppendProperties, LenProperties
  <2> QED
    BY <1>5, <2>1, <2>3
<1>7. /\ nextId' \in [Objects -> Nat] /\ nextId'[o] = id + 1 /\ id \in Nat
      /\ \A p \in Objects \ {o} : nextId'[p] = nextId[p]
  BY <1>1, <1>2
<1>8. id \notin DOMAIN pending[o]
  BY <1>1, <1>7 DEF EntriesOwn
<1>9. pending'[o] = [i \in DOMAIN pending[o] \cup {id} |->
                       IF i = id THEN c ELSE pending[o][i]]
  BY <1>1, <1>2
<1>10. DOMAIN pending' = Objects
       /\ \A p \in Objects \ {o} : pending'[p] = pending[p]
  BY <1>1, <1>2
<1> QED
  BY <1>3, <1>6, <1>7, <1>8, <1>9, <1>10

(* call().                                                                 *)
LEMMA CallStep ==
  ASSUME Inv, NEW o \in Objects, NEW t \in Asked, NEW given \in BOOLEAN,
         Call(o, t, given)
  PROVE  Inv'
<1>1. PICK c, id, s : c = Len(calls) + 1 /\ id = nextId[o] /\ s = current[o]
  OBVIOUS
<1>2. PICK waits : waits = IF IsOpen(s) THEN "waits" ELSE "unsent"
  OBVIOUS
<1>3. /\ c \in Nat /\ id \in Nat /\ Len(calls') = c
      /\ calls' \in Seq(CallRecords)
      /\ \A k \in 1..Len(calls) : calls'[k] = calls[k]
      /\ calls'[c] =
           [sock |-> s, topic |-> t, given |-> given, end |-> waits]
      /\ nextId' \in [Objects -> Nat] /\ nextId'[o] = id + 1
      /\ DOMAIN pending' = Objects /\ id \notin DOMAIN pending[o]
      /\ DOMAIN pending'[o] = DOMAIN pending[o] \cup {id}
      /\ pending'[o][id] = c
      /\ \A x \in DOMAIN pending[o] : pending'[o][x] = pending[o][x]
      /\ \A p \in Objects \ {o} :
           nextId'[p] = nextId[p] /\ pending'[p] = pending[p]
  BY <1>1, <1>2, CallEntries
<1>4. /\ calls'[c].sock = s /\ calls'[c].topic = t /\ calls'[c].end = waits
  BY <1>3
<1>5. /\ Typed /\ Owned /\ EntriesOwn /\ Explained /\ PageTyped
      /\ up \in [Sockets -> Seq(Requests)] /\ s \in Sockets \cup {None}
      /\ Len(calls) \in Nat /\ None \notin Sockets
  <2>1. calls \in Seq(CallRecords)
    BY DEF Inv, Typed, PageTyped
  <2> QED
    BY <1>1, <2>1, LenProperties
       DEF Inv, Typed, PageTyped, WiresTyped, BrowserAssumption
<1>6. \A p \in Objects : \A x \in DOMAIN pending[p] :
        /\ x \in Nat /\ pending[p][x] \in 1..Len(calls) /\ pending[p][x] # c
        /\ x \in DOMAIN pending'[p] /\ pending'[p][x] = pending[p][x]
        /\ calls'[pending[p][x]] = calls[pending[p][x]]
        /\ x < nextId'[p]
  <2> SUFFICES ASSUME NEW p \in Objects, NEW x \in DOMAIN pending[p]
               PROVE  /\ x \in Nat /\ pending[p][x] \in 1..Len(calls)
                      /\ pending[p][x] # c
                      /\ x \in DOMAIN pending'[p]
                      /\ pending'[p][x] = pending[p][x]
                      /\ calls'[pending[p][x]] = calls[pending[p][x]]
                      /\ x < nextId'[p]
    OBVIOUS
  <2>1. x \in Nat /\ pending[p][x] \in 1..Len(calls) /\ x < nextId[p]
    BY <1>5 DEF PageTyped, EntriesOwn
  <2>2. x \in DOMAIN pending'[p] /\ pending'[p][x] = pending[p][x]
    BY <1>3
  <2>3. x < nextId'[p]
    BY <1>1, <1>3, <2>1
  <2> QED
    BY <1>1, <1>3, <1>5, <2>1, <2>2, <2>3
<1>7. \A p \in Objects : \A x \in DOMAIN pending'[p] :
        x \in DOMAIN pending[p] \/ (p = o /\ x = id)
  BY <1>3
<1>8. /\ global' = global /\ current' = current /\ handler' = handler
      /\ sock' = sock /\ owner' = owner /\ down' = down /\ subs' = subs
      /\ stored' = stored /\ renewed' = renewed /\ astray' = astray
  BY DEF Call, server, history
<1>9. ASSUME NEW z \in Sockets, sock[z] = "open", NEW k \in 1..Len(calls)
      PROVE  CallStays(z, k)
  <2>1. owner[z] \in Objects /\ owner'[z] = owner[z]
    BY <1>8, <1>9 DEF Inv, Wire, Idle
  <2> QED
    BY <1>1, <1>3, <1>5, <1>6, <2>1 DEF CallStays
<1>10. PageTyped'
  <2>1. ASSUME NEW p \in Objects, NEW x \in DOMAIN pending'[p]
        PROVE  x \in Nat /\ pending'[p][x] \in 1..Len(calls')
    BY <1>1, <1>3, <1>5, <1>6, <1>7, <2>1
  <2> QED
    BY <1>3, <1>5, <1>8, <2>1 DEF PageTyped
<1>11. EntriesOwn'
  <2>1. ASSUME NEW p \in Objects, NEW x \in DOMAIN pending'[p]
        PROVE  /\ x < nextId'[p]
               /\ calls'[pending'[p][x]].end = "waits" =>
                    calls'[pending'[p][x]].sock \in Sockets
    <3>1. CASE x \in DOMAIN pending[p]
      BY <1>5, <1>6, <3>1 DEF EntriesOwn
    <3>2. CASE p = o /\ x = id
      BY <1>2, <1>3, <1>4, <1>5, <3>2 DEF IsOpen
    <3> QED
      BY <1>7, <3>1, <3>2
  <2>2. ASSUME NEW p \in Objects, NEW x \in DOMAIN pending'[p],
               NEW q \in Objects, NEW y \in DOMAIN pending'[q],
               pending'[p][x] = pending'[q][y]
        PROVE  p = q /\ x = y
    <3>1. CASE x \in DOMAIN pending[p] /\ y \in DOMAIN pending[q]
      BY <1>5, <1>6, <2>2, <3>1 DEF EntriesOwn
    <3>2. CASE ~(x \in DOMAIN pending[p] /\ y \in DOMAIN pending[q])
      BY <1>3, <1>6, <1>7, <2>2, <3>2
    <3> QED
      BY <3>1, <3>2
  <2> QED
    BY <2>1, <2>2 DEF EntriesOwn
<1>12. AnswersFindTheirCall'
  BY <1>8 DEF Inv, AnswersFindTheirCall
<1>13. Owned'
  BY <1>5, <1>8 DEF Owned
<1>14. \A z \in Sockets : Wire(z)
  BY DEF Inv
<1>15. \A z, x : global \in Objects /\ Unheard(z, x) => Unheard(z, x)'
  <2> SUFFICES ASSUME NEW z, NEW x, global \in Objects, Unheard(z, x)
               PROVE  Unheard(z, x)'
    OBVIOUS
  <2>1. PICK y, k :
          /\ y \in DOMAIN pending[global] /\ k = pending[global][y]
          /\ calls[k].topic = x /\ calls[k].sock = z
          /\ calls[k].end = "raised" /\ ~calls[k].given
    BY DEF Unheard
  <2>2. /\ y \in DOMAIN pending'[global] /\ pending'[global][y] = k
        /\ calls'[k] = calls[k]
    BY <1>6, <2>1
  <2> QED
    BY <1>8, <2>1, <2>2 DEF Unheard
<1>16. /\ up' \in [Sockets -> Seq(Requests)]
       /\ Explained'
       /\ \A z \in Sockets : Wire(z)'
  <2>1. CASE ~IsOpen(s)
    <3>1. up' = up /\ calls'[c].end = "unsent"
      BY <1>1, <1>2, <1>4, <2>1 DEF Call
    <3>2. Explained'
      <4> SUFFICES ASSUME NEW p \in Objects, NEW x \in DOMAIN pending'[p],
                          NEW k, k = pending'[p][x]
                   PROVE  \/ calls'[k].end = "unsent"
                          \/ /\ calls'[k].end = "raised"
                             /\ \/ calls'[k].topic = Strange \/ ~calls'[k].given
                                \/ global' = None
                          \/ /\ calls'[k].end = "waits"
                             /\ \/ sock'[calls'[k].sock] = "closed"
                                \/ InWires(k, up'[calls'[k].sock],
                                           down'[calls'[k].sock])
        BY ExplainedNext, Zenon
      <4> SUFFICES \/ calls'[k].end = "unsent"
                   \/ /\ calls'[k].end = "raised"
                      /\ \/ calls'[k].topic = Strange \/ ~calls'[k].given
                         \/ global = None
                   \/ /\ calls'[k].end = "waits"
                      /\ \/ sock[calls'[k].sock] = "closed"
                         \/ InWires(k, up[calls'[k].sock],
                                    down[calls'[k].sock])
        BY <1>8, <3>1
      <4>1. CASE x \in DOMAIN pending[p]
        BY <1>5, <1>6, <4>1 DEF Explained
      <4>2. CASE p = o /\ x = id
        BY <1>3, <3>1, <4>2
      <4> QED
        BY <1>7, <4>1, <4>2
    <3>3. \A z \in Sockets : Wire(z)'
      BY <1>5, <1>8, <1>9, <1>14, <1>15, <3>1, WireStays DEF PageTyped
    <3> QED
      BY <1>5, <3>1, <3>2, <3>3
  <2>2. CASE IsOpen(s)
    <3>1. s \in Sockets /\ sock[s] = "open" /\ owner[s] = o
          /\ calls'[c].end = "waits"
      BY <1>1, <1>2, <1>4, <1>5, <2>2 DEF IsOpen, Owned
    <3>2. PICK u, d, b, m :
            /\ u = up[s] /\ d = down[s] /\ b = subs[s]
            /\ m = [type |-> "request", of |-> c, id |-> id, topic |-> t]
      OBVIOUS
    <3>3. m \in Requests /\ m.of = c /\ m.id = id /\ m.topic = t
          /\ m.type = "request"
      BY <1>3, <3>2 DEF Requests
    <3>4. PICK u2 : u2 = Append(u, m)
      OBVIOUS
    <3>5. OpenWire(s, u, d, b)
      BY <3>1, <3>2, UsedWire
    <3>6. OpenWire(s, u, d, b)'
      <4>1. owner'[s] = owner[s] /\ global' = global /\ handler' = handler
        BY <1>8
      <4>2. \A k \in 1..Len(calls) : CallStays(s, k)
        BY <1>9, <3>1
      <4> QED
        BY <1>5, <1>15, <3>5, <4>1, <4>2, OpenWireStays DEF PageTyped
    <3>7. OfCall(s, m)' /\ m.topic = calls'[m.of].topic
      <4>1. c \in 1..Len(calls')
        BY <1>1, <1>3, <1>5
      <4> QED
        BY <1>3, <1>4, <1>8, <3>1, <3>3, <4>1 DEF OfCall
    <3>8. ~InWires(m.of, u, d)
      <4>1. c \notin 1..Len(calls)
        BY <1>1, <1>5
      <4>2. /\ \A i \in 1..Len(u) : u[i].of \in 1..Len(calls)
            /\ \A i \in 1..Len(d) : IsAnswer(d[i]) => d[i].of \in 1..Len(calls)
        BY <3>5 DEF OpenWire, UpTrue, DownTrue, OfCall
      <4> QED
        BY <3>3, <4>1, <4>2 DEF InWires
    <3>9. /\ u2 \in Seq(Requests) /\ OpenWire(s, u2, d, b)'
          /\ InWires(m.of, u2, d)
          /\ \A k : InWires(k, u, d) => InWires(k, u2, d)
      <4>1. u \in Seq(Requests)
        BY <1>5, <3>1, <3>2
      <4> QED
        BY <3>3, <3>4, <3>6, <3>7, <3>8, <4>1, AskWire
    <3>10. /\ up' \in [Sockets -> Seq(Requests)] /\ up'[s] = u2
           /\ \A z \in Sockets \ {s} : up'[z] = up[z]
      <4>1. up' = [up EXCEPT ![s] = u2]
        BY <1>1, <2>2, <3>2, <3>4 DEF Call
      <4> QED
        BY <1>5, <3>1, <3>9, <4>1
    <3>11. Explained'
      <4> SUFFICES ASSUME NEW p \in Objects, NEW x \in DOMAIN pending'[p],
                          NEW k, k = pending'[p][x]
                   PROVE  \/ calls'[k].end = "unsent"
                          \/ /\ calls'[k].end = "raised"
                             /\ \/ calls'[k].topic = Strange \/ ~calls'[k].given
                                \/ global' = None
                          \/ /\ calls'[k].end = "waits"
                             /\ \/ sock'[calls'[k].sock] = "closed"
                                \/ InWires(k, up'[calls'[k].sock],
                                           down'[calls'[k].sock])
        BY ExplainedNext, Zenon
      <4> SUFFICES \/ calls'[k].end = "unsent"
                   \/ /\ calls'[k].end = "raised"
                      /\ \/ calls'[k].topic = Strange \/ ~calls'[k].given
                         \/ global = None
                   \/ /\ calls'[k].end = "waits"
                      /\ \/ sock[calls'[k].sock] = "closed"
                         \/ InWires(k, up'[calls'[k].sock],
                                    down[calls'[k].sock])
        BY <1>8
      <4>1. CASE x \in DOMAIN pending[p]
        <5>1. k = pending[p][x] /\ calls'[k] = calls[k]
          BY <1>6, <4>1
        <5>2. \/ calls[k].end = "unsent"
              \/ /\ calls[k].end = "raised"
                 /\ calls[k].topic = Strange \/ ~calls[k].given \/ global = None
              \/ /\ calls[k].end = "waits"
                 /\ \/ sock[calls[k].sock] = "closed"
                    \/ InWires(k, up[calls[k].sock], down[calls[k].sock])
          BY <1>5, <4>1, <5>1 DEF Explained
        <5>3. ASSUME calls[k].end = "waits",
                     InWires(k, up[calls[k].sock], down[calls[k].sock])
              PROVE  InWires(k, up'[calls[k].sock], down[calls[k].sock])
          <6>1. PICK z : z = calls[k].sock
            OBVIOUS
          <6>2. z \in Sockets
            BY <1>5, <4>1, <5>1, <5>3, <6>1 DEF EntriesOwn
          <6>3. CASE z = s
            BY <3>2, <3>9, <3>10, <5>3, <6>1, <6>3
          <6>4. CASE z # s
            BY <3>10, <5>3, <6>1, <6>2, <6>4
          <6> QED
            BY <6>3, <6>4
        <5> QED
          BY <5>1, <5>2, <5>3
      <4>2. CASE p = o /\ x = id
        BY <1>3, <1>4, <3>1, <3>2, <3>3, <3>9, <3>10, <4>2
      <4> QED
        BY <1>7, <4>1, <4>2
    <3>12. ASSUME NEW z \in Sockets PROVE Wire(z)'
      <4>1. CASE z = s
        <5>1. Idle(s)'
          BY <1>8, <1>14, <3>1 DEF Wire, Idle
        <5>2. d = down'[s] /\ b = subs'[s] /\ u2 = up'[s]
          BY <1>8, <3>2, <3>10
        <5> QED
          BY <3>9, <4>1, <5>1, <5>2 DEF Wire
      <4>2. CASE z # s
        BY <1>5, <1>8, <1>9, <1>14, <1>15, <3>10, <4>2, WireStays
        DEF PageTyped
      <4> QED
        BY <4>1, <4>2
    <3> QED
      BY <3>10, <3>11, <3>12
  <2> QED
    BY <2>1, <2>2
<1>17. Typed'
  BY <1>5, <1>8, <1>10, <1>16 DEF Typed, WiresTyped, BrowserAssumption
<1> QED
  BY <1>11, <1>12, <1>13, <1>16, <1>17 DEF Inv

-----------------------------------------------------------------------------
(* Messages reach the page.                                                *)

(* What holds whenever the page reads a message.                           *)
LEMMA Taken ==
  ASSUME Inv, NEW s \in Sockets, NEW type, Takes(s, type)
  PROVE  /\ sock[s] = "open" /\ down[s] # <<>> /\ owner[s] \in Objects
         /\ Head(down[s]).type = type
         /\ OpenWire(s, up[s], down[s], subs[s])
         /\ down' \in [Sockets -> Seq(Arrivals)] /\ down'[s] = Tail(down[s])
         /\ \A z \in Sockets \ {s} : down'[z] = down[z]
         /\ global' = global /\ current' = current /\ nextId' = nextId
         /\ sock' = sock /\ owner' = owner /\ up' = up /\ subs' = subs
         /\ stored' = stored /\ renewed' = renewed
<1>1. /\ sock[s] = "open" /\ down[s] # <<>> /\ Head(down[s]).type = type
      /\ down' = [down EXCEPT ![s] = Tail(down[s])]
      /\ global' = global /\ current' = current /\ nextId' = nextId
      /\ sock' = sock /\ owner' = owner /\ up' = up /\ subs' = subs
      /\ stored' = stored /\ renewed' = renewed
  BY DEF Takes, IsOpen, server
<1>2. down \in [Sockets -> Seq(Arrivals)]
  BY DEF Inv, Typed, WiresTyped
<1>3. owner[s] \in Objects /\ OpenWire(s, up[s], down[s], subs[s])
  BY <1>1 DEF Inv, Wire, Idle
<1>4. PICK q : q = down[s]
  OBVIOUS
<1>5. Tail(q) \in Seq(Arrivals)
  BY <1>1, <1>2, <1>4, TailDrops
<1>6. down' = [down EXCEPT ![s] = Tail(q)]
  BY <1>1, <1>4
<1>7. down' \in [Sockets -> Seq(Arrivals)] /\ down'[s] = Tail(q)
      /\ \A z \in Sockets \ {s} : down'[z] = down[z]
  BY <1>2, <1>5, <1>6
<1> QED
  BY <1>1, <1>3, <1>4, <1>7

(* The page reads what is no answer to a call.                             *)
LEMMA ReadStep ==
  ASSUME Inv, NEW s \in Sockets, NEW type, type \notin {"result", "error"},
         Takes(s, type), UNCHANGED <<pending, handler, calls>>,
         AnswersFindTheirCall'
  PROVE  Inv'
<1>1. /\ sock[s] = "open" /\ down[s] # <<>> /\ Head(down[s]).type = type
      /\ OpenWire(s, up[s], down[s], subs[s])
      /\ down' \in [Sockets -> Seq(Arrivals)] /\ down'[s] = Tail(down[s])
      /\ \A z \in Sockets \ {s} : down'[z] = down[z]
      /\ global' = global /\ current' = current /\ nextId' = nextId
      /\ sock' = sock /\ owner' = owner /\ up' = up /\ subs' = subs
      /\ stored' = stored /\ renewed' = renewed
  BY Taken
<1>2. Typed /\ down \in [Sockets -> Seq(Arrivals)]
  BY DEF Inv, Typed, WiresTyped
<1>3. PICK u, d, b : u = up[s] /\ d = down[s] /\ b = subs[s]
  OBVIOUS
<1>4. PICK d2, h : d2 = Tail(d) /\ h = Head(d)
  OBVIOUS
<1>5. d \in Seq(Arrivals) /\ d # <<>> /\ OpenWire(s, u, d, b)
  BY <1>1, <1>2, <1>3
<1>6. ~IsAnswer(h)
  BY <1>1, <1>3, <1>4 DEF IsAnswer
<1>7. /\ UpTrue(s, u, b) /\ DownTrue(s, Tail(d), b) /\ Once(u, Tail(d))
      /\ \A t : Awaited(u, d, t) =>
           \/ Awaited(u, Tail(d), t)
           \/ Head(d).type = "result" /\ calls[Head(d).of].topic = t
      /\ \A c : InWires(c, u, d) =>
           InWires(c, u, Tail(d)) \/ (IsAnswer(Head(d)) /\ Head(d).of = c)
  BY <1>5, TailWire
<1>8. /\ UpTrue(s, u, b) /\ DownTrue(s, d2, b) /\ Once(u, d2)
      /\ \A t : Awaited(u, d, t) => Awaited(u, d2, t)
      /\ \A c : InWires(c, u, d) => InWires(c, u, d2)
  BY <1>4, <1>6, <1>7 DEF IsAnswer
<1>9. Handled(s, u, d2, b)
  BY <1>5, <1>8 DEF OpenWire, Handled
<1>10. OpenWire(s, u, d2, b)
  BY <1>8, <1>9 DEF OpenWire
<1>11. WiresTyped'
  BY <1>1, <1>2 DEF Typed, WiresTyped
<1>12. UNCHANGED <<page, sock, owner, renewed>>
  BY <1>1 DEF page
<1>13. /\ u = up'[s] /\ d2 = down'[s] /\ b = subs'[s]
       /\ \A z \in Sockets \ {s} :
            up'[z] = up[z] /\ down'[z] = down[z] /\ subs'[z] = subs[z]
  BY <1>1, <1>3, <1>4
<1>14. \A c : InWires(c, up[s], down[s]) => InWires(c, u, d2)
  BY <1>3, <1>8
<1> QED
  BY <1>1, <1>10, <1>11, <1>12, <1>13, <1>14, WireStep

(* It reads a notification, or a request of the server.                    *)
LEMMA TakesNoticeStep ==
  ASSUME Inv, NEW s \in Sockets, TakesNotice(s)
  PROVE  Inv'
<1>1. Takes(s, "notice") /\ UNCHANGED <<pending, handler, calls, astray>>
  BY DEF TakesNotice
<1>2. renewed' = renewed
  BY <1>1 DEF Takes
<1>3. AnswersFindTheirCall'
  BY <1>1, <1>2 DEF Inv, AnswersFindTheirCall
<1> QED
  BY <1>1, <1>3, ReadStep

(* It answers on the websocket it uses now: another one than the request   *)
(* came on only if it connected beside that one.                           *)
LEMMA TakesRequestStep ==
  ASSUME Inv, NEW s \in Sockets, TakesRequest(s)
  PROVE  Inv'
<1>1. Takes(s, "request") /\ UNCHANGED <<pending, handler, calls>>
  BY DEF TakesRequest
<1>2. renewed' = renewed /\ sock[s] = "open"
  BY <1>1 DEF Takes, IsOpen
<1>3. astray' = astray \/ (astray' = astray \cup {"socket"}
                           /\ current[owner[s]] # s)
  BY DEF TakesRequest
<1>4. AnswersFindTheirCall'
  <2>1. AnswersFindTheirCall /\ Owned
    BY DEF Inv
  <2>2. CASE astray' = astray
    BY <1>2, <2>1, <2>2 DEF AnswersFindTheirCall
  <2>3. CASE astray' = astray \cup {"socket"} /\ current[owner[s]] # s
    BY <1>2, <2>1, <2>3 DEF AnswersFindTheirCall, Owned
  <2> QED
    BY <1>3, <2>2, <2>3
<1> QED
  BY <1>1, <1>4, ReadStep

(* It reads the answer to a call: to one that waits, on this websocket, and*)
(* in the table of the object.                                             *)
LEMMA TakesAnswerStep ==
  ASSUME Inv, NEW s \in Sockets, NEW type \in {"result", "error"},
         TakesAnswer(s, type)
  PROVE  Inv'
<1>1. PICK m, o, c, t : /\ m = Head(down[s]) /\ o = owner[s] /\ c = m.of
                        /\ t = calls[c].topic
  BY Zenon
<1>2. Takes(s, type)
  BY DEF TakesAnswer
<1>3. /\ sock[s] = "open" /\ down[s] # <<>> /\ Head(down[s]).type = type
      /\ OpenWire(s, up[s], down[s], subs[s]) /\ owner[s] \in Objects
      /\ down' \in [Sockets -> Seq(Arrivals)] /\ down'[s] = Tail(down[s])
      /\ \A z \in Sockets \ {s} : down'[z] = down[z]
      /\ global' = global /\ current' = current /\ nextId' = nextId
      /\ sock' = sock /\ owner' = owner /\ up' = up /\ subs' = subs
      /\ stored' = stored /\ renewed' = renewed
  BY <1>2, Taken
<1>4. PICK u, d, b, d2 : /\ u = up[s] /\ d = down[s] /\ b = subs[s]
                         /\ d2 = Tail(d)
  OBVIOUS
<1>5. /\ Typed /\ PageTyped /\ Owned /\ EntriesOwn /\ Explained
      /\ d \in Seq(Arrivals) /\ b \in SUBSET Topics
      /\ None \notin Topics /\ None \notin Objects /\ None # Strange
  BY <1>4 DEF Inv, Typed, WiresTyped, BrowserAssumption
<1>6. IsAnswer(m) /\ m.type = type /\ m = Head(d)
  BY <1>1, <1>3, <1>4 DEF IsAnswer
<1>7. /\ m \in Arrivals /\ OfCall(s, m) /\ Confirms(m)
      /\ UpTrue(s, u, b) /\ DownTrue(s, d2, b) /\ Once(u, d2)
      /\ ~InWires(c, u, d2)
      /\ \A k : InWires(k, u, d) => InWires(k, u, d2) \/ k = c
      /\ \A x : Awaited(u, d, x) =>
           Awaited(u, d2, x) \/ (m.type = "result" /\ t = x)
  <2>1. d # <<>> /\ OpenWire(s, u, d, b)
    BY <1>3, <1>4
  <2>2. /\ Tail(d) \in Seq(Arrivals) /\ Head(d) \in Arrivals
        /\ IsAnswer(Head(d)) => OfCall(s, Head(d)) /\ Confirms(Head(d))
        /\ UpTrue(s, u, b) /\ DownTrue(s, Tail(d), b) /\ Once(u, Tail(d))
        /\ \A x : Awaited(u, d, x) =>
             \/ Awaited(u, Tail(d), x)
             \/ Head(d).type = "result" /\ calls[Head(d).of].topic = x
        /\ IsAnswer(Head(d)) => ~InWires(Head(d).of, u, Tail(d))
        /\ \A k : InWires(k, u, d) =>
             InWires(k, u, Tail(d)) \/ (IsAnswer(Head(d)) /\ Head(d).of = k)
    BY <1>5, <2>1, TailWire
  <2> QED
    BY <1>1, <1>4, <1>6, <2>2
<1>8. /\ c \in 1..Len(calls) /\ calls[c].sock = s /\ calls[c].end = "waits"
      /\ m.id \in DOMAIN pending[o] /\ pending[o][m.id] = c
  BY <1>1, <1>7 DEF OfCall
<1>9. /\ m \in Answers
      /\ t \in Asked /\ calls \in Seq(CallRecords) /\ calls[c] \in CallRecords
  <2>1. m \in Answers
    BY <1>6, <1>7 DEF Arrivals, Notices, Questions, IsAnswer
  <2>2. calls \in Seq(CallRecords)
    BY <1>5 DEF PageTyped
  <2>3. calls[c] \in CallRecords
    BY <1>8, <2>2, ElementOfSeq
  <2> QED
    BY <1>1, <2>1, <2>2, <2>3 DEF CallRecords
<1>10. /\ astray' = astray
       /\ calls' = [calls EXCEPT ![c].end =
                      IF Raises(calls[c], m) THEN "raised" ELSE "done"]
       /\ handler' = IF type = "result" /\ t # None /\ ~Raises(calls[c], m)
                     THEN [handler EXCEPT ![global] = @ \cup {t}] ELSE handler
       /\ pending' = IF Raises(calls[c], m) THEN pending ELSE
            [pending EXCEPT ![o] = Restrict(@, DOMAIN @ \ {m.id})]
  <2>1. PICK k : k = pending[o][m.id]
    OBVIOUS
  <2>2. k = c
    BY <1>8, <2>1
  <2>3. m.id \in DOMAIN pending[o]
    BY <1>8, Zenon
  <2>4. /\ astray' = IF m.of # k \/ calls[k].end \in {"done", "raised"}
                     THEN astray \cup {"call"} ELSE astray
        /\ calls' = [calls EXCEPT ![k].end =
                       IF Raises(calls[k], m) THEN "raised" ELSE "done"]
        /\ handler' = IF type = "result" /\ calls[k].topic # None
                           /\ ~Raises(calls[k], m)
                      THEN [handler EXCEPT ![global] = @ \cup {calls[k].topic}]
                      ELSE handler
        /\ pending' = IF Raises(calls[k], m) THEN pending ELSE
             [pending EXCEPT ![o] = Restrict(@, DOMAIN @ \ {m.id})]
    BY <1>1, <2>1, <2>3 DEF TakesAnswer
  <2> QED
    BY <1>1, <1>8, <2>2, <2>4
<1>11. /\ DOMAIN pending' = Objects
       /\ \A p \in Objects : \A x \in DOMAIN pending'[p] :
            x \in DOMAIN pending[p] /\ pending'[p][x] = pending[p][x]
       /\ \A p \in Objects : \A x \in DOMAIN pending[p] :
            x \in DOMAIN pending'[p] \/ (p = o /\ x = m.id)
       /\ ~Raises(calls[c], m) => m.id \notin DOMAIN pending'[o]
  <2>1. DOMAIN pending = Objects /\ o \in Objects
    BY <1>1, <1>3, <1>5 DEF PageTyped
  <2>2. CASE Raises(calls[c], m)
    <3>1. pending' = pending
      BY <1>10, <2>2
    <3> QED
      BY <2>1, <2>2, <3>1
  <2>3. CASE ~Raises(calls[c], m)
    <3>1. PICK r : r = [x \in DOMAIN pending[o] \ {m.id} |-> pending[o][x]]
      OBVIOUS
    <3>2. pending' = [pending EXCEPT ![o] = r]
      BY <1>10, <2>3, <3>1 DEF Restrict
    <3>3. /\ DOMAIN pending' = Objects /\ pending'[o] = r
          /\ \A p \in Objects : p # o => pending'[p] = pending[p]
      BY <2>1, <3>2
    <3>4. /\ DOMAIN r = DOMAIN pending[o] \ {m.id}
          /\ \A x \in DOMAIN r : r[x] = pending[o][x]
      BY <3>1
    <3> QED
      BY <2>1, <3>3, <3>4
  <2> QED
    BY <2>2, <2>3
<1>12. /\ calls' \in Seq(CallRecords) /\ Len(calls') = Len(calls)
       /\ \A k \in 1..Len(calls) : k # c => calls'[k] = calls[k]
       /\ calls'[c].sock = s /\ calls'[c].topic = t
       /\ calls'[c].given = calls[c].given
       /\ calls'[c].end = IF Raises(calls[c], m) THEN "raised" ELSE "done"
  <2>1. PICK e : e = IF Raises(calls[c], m) THEN "raised" ELSE "done"
    OBVIOUS
  <2>2. PICK r : r = [calls[c] EXCEPT !.end = e]
    OBVIOUS
  <2>3. /\ r \in CallRecords /\ r.sock = s /\ r.topic = t /\ r.end = e
        /\ r.given = calls[c].given
    BY <1>1, <1>8, <1>9, <2>1, <2>2 DEF CallRecords
  <2>4. calls' = [calls EXCEPT ![c] = r]
    BY <1>10, <2>1, <2>2
  <2>5. calls' \in Seq(CallRecords) /\ Len(calls') = Len(calls)
        /\ calls'[c] = r
        /\ \A k \in 1..Len(calls) : k # c => calls'[k] = calls[k]
    BY <1>8, <1>9, <2>3, <2>4, ExceptSeq
  <2> QED
    BY <2>1, <2>3, <2>5
<1>13. /\ handler' \in [Objects -> SUBSET Topics]
       /\ \A p \in Objects : handler[p] \subseteq handler'[p]
       /\ type = "result" /\ t # None /\ ~Raises(calls[c], m) =>
            t \in handler'[global]
  <2>1. handler \in [Objects -> SUBSET Topics] /\ global \in Objects \cup {None}
    BY <1>5 DEF PageTyped
  <2>2. CASE type = "result" /\ t # None /\ ~Raises(calls[c], m)
    <3>1. handler' = [handler EXCEPT ![global] = @ \cup {t}]
      BY <1>10, <2>2
    <3>2. t \in m.topics /\ global \in Objects
      BY <1>1, <1>6, <2>1, <2>2 DEF Raises
    <3>3. t \in Topics
      BY <1>9, <3>2 DEF Answers
    <3> QED
      BY <2>1, <3>1, <3>2, <3>3
  <2>3. CASE ~(type = "result" /\ t # None /\ ~Raises(calls[c], m))
    BY <1>10, <2>1, <2>3
  <2> QED
    BY <2>2, <2>3
<1>14. Raises(calls[c], m) => t = Strange \/ ~calls[c].given \/ global = None
  BY <1>1, <1>7, <1>9 DEF Raises, Confirms, Asked
<1>15. PageTyped'
  <2>1. ASSUME NEW p \in Objects, NEW x \in DOMAIN pending'[p]
        PROVE  x \in Nat /\ pending'[p][x] \in 1..Len(calls')
    BY <1>5, <1>11, <1>12 DEF PageTyped
  <2> QED
    BY <1>3, <1>5, <1>11, <1>12, <1>13, <2>1 DEF PageTyped
<1>16. Typed'
  BY <1>3, <1>5, <1>15 DEF Typed, WiresTyped, BrowserAssumption
<1>17. Owned' /\ AnswersFindTheirCall'
  BY <1>3, <1>5, <1>10 DEF Inv, Owned, AnswersFindTheirCall
<1>18. ASSUME NEW p \in Objects, NEW x \in DOMAIN pending'[p]
       PROVE  /\ x \in DOMAIN pending[p] /\ pending'[p][x] = pending[p][x]
              /\ pending[p][x] \in 1..Len(calls)
              /\ pending[p][x] = c => p = o /\ x = m.id /\ Raises(calls[c], m)
              /\ pending[p][x] # c =>
                   calls'[pending[p][x]] = calls[pending[p][x]]
  <2>1. x \in DOMAIN pending[p] /\ pending'[p][x] = pending[p][x]
        /\ pending[p][x] \in 1..Len(calls)
    BY <1>5, <1>11 DEF PageTyped
  <2>2. pending[p][x] = c => p = o /\ x = m.id
    BY <1>1, <1>3, <1>5, <1>8, <2>1 DEF EntriesOwn
  <2> QED
    BY <1>11, <1>12, <1>18, <2>1, <2>2
<1>19. EntriesOwn'
  <2>1. ASSUME NEW p \in Objects, NEW x \in DOMAIN pending'[p]
        PROVE  /\ x < nextId'[p]
               /\ calls'[pending'[p][x]].end = "waits" =>
                    calls'[pending'[p][x]].sock \in Sockets
    <3>1. PICK k : k = pending[p][x]
      OBVIOUS
    <3>2. x < nextId[p] /\ (calls[k].end = "waits" => calls[k].sock \in Sockets)
      BY <1>5, <1>18, <3>1 DEF EntriesOwn
    <3> QED
      BY <1>3, <1>12, <1>18, <3>1, <3>2
  <2>2. ASSUME NEW p \in Objects, NEW x \in DOMAIN pending'[p],
               NEW q \in Objects, NEW y \in DOMAIN pending'[q],
               pending'[p][x] = pending'[q][y]
        PROVE  p = q /\ x = y
    BY <1>5, <1>18, <2>2 DEF EntriesOwn
  <2> QED
    BY <2>1, <2>2 DEF EntriesOwn
<1>20. Explained'
  <2>0. global' = global /\ sock' = sock /\ up' = up
    BY <1>3
  <2> SUFFICES ASSUME NEW p \in Objects, NEW x \in DOMAIN pending'[p],
                      NEW k, k = pending'[p][x]
               PROVE  \/ calls'[k].end = "unsent"
                      \/ /\ calls'[k].end = "raised"
                         /\ \/ calls'[k].topic = Strange \/ ~calls'[k].given
                            \/ global' = None
                      \/ /\ calls'[k].end = "waits"
                         /\ \/ sock'[calls'[k].sock] = "closed"
                            \/ InWires(k, up'[calls'[k].sock],
                                       down'[calls'[k].sock])
    BY ExplainedNext, Zenon
  <2> SUFFICES \/ calls'[k].end = "unsent"
               \/ /\ calls'[k].end = "raised"
                  /\ \/ calls'[k].topic = Strange \/ ~calls'[k].given
                     \/ global = None
               \/ /\ calls'[k].end = "waits"
                  /\ \/ sock[calls'[k].sock] = "closed"
                     \/ InWires(k, up[calls'[k].sock],
                                down'[calls'[k].sock])
    BY <2>0
  <2>1. CASE k = c
    <3>1. Raises(calls[c], m)
      BY <1>18, <2>1
    <3> QED
      BY <1>12, <1>14, <2>1, <3>1
  <2>2. CASE k # c
    <3>1. k = pending[p][x] /\ x \in DOMAIN pending[p] /\ calls'[k] = calls[k]
      BY <1>18, <2>2
    <3>2. \/ calls[k].end = "unsent"
          \/ /\ calls[k].end = "raised"
             /\ calls[k].topic = Strange \/ ~calls[k].given \/ global = None
          \/ /\ calls[k].end = "waits"
             /\ \/ sock[calls[k].sock] = "closed"
                \/ InWires(k, up[calls[k].sock], down[calls[k].sock])
      BY <1>5, <3>1 DEF Explained
    <3>3. ASSUME calls[k].end = "waits",
                 InWires(k, up[calls[k].sock], down[calls[k].sock])
          PROVE  InWires(k, up[calls[k].sock], down'[calls[k].sock])
      <4>1. PICK z : z = calls[k].sock
        OBVIOUS
      <4>2. z \in Sockets
        BY <1>5, <3>1, <3>3, <4>1 DEF EntriesOwn
      <4>3. CASE z = s
        BY <1>3, <1>4, <1>7, <2>2, <3>3, <4>1, <4>3
      <4>4. CASE z # s
        BY <1>3, <3>3, <4>1, <4>2, <4>4
      <4> QED
        BY <4>3, <4>4
    <3> QED
      BY <3>1, <3>2, <3>3
  <2> QED
    BY <2>1, <2>2
<1>21. ASSUME NEW z \in Sockets, owner[z] \in Objects,
              NEW k \in 1..Len(calls), k # c
       PROVE  CallStays(z, k)
  <2>1. owner'[z] = owner[z] /\ calls'[k] = calls[k] /\ k \in 1..Len(calls')
    BY <1>3, <1>12, <1>21
  <2>2. ASSUME NEW x \in DOMAIN pending[owner[z]], pending[owner[z]][x] = k
        PROVE  x \in DOMAIN pending'[owner[z]] /\ pending'[owner[z]][x] = k
    <3>1. PICK p : p = owner[z]
      OBVIOUS
    <3>2. ~(p = o /\ x = m.id)
      BY <1>8, <1>21, <2>2, <3>1
    <3> QED
      BY <1>11, <1>21, <2>2, <3>1, <3>2
  <2> QED
    BY <2>1, <2>2 DEF CallStays
<1>22. ASSUME global \in Objects, NEW z, NEW x, Unheard(z, x)
       PROVE  Unheard(z, x)'
  <2>1. PICK id \in DOMAIN pending[global] :
          LET k == calls[pending[global][id]] IN
          k.topic = x /\ k.sock = z /\ k.end = "raised" /\ ~k.given
    BY <1>22 DEF Unheard
  <2>2. PICK k : k = pending[global][id]
    OBVIOUS
  <2>3. k # c /\ k \in 1..Len(calls)
    BY <1>5, <1>8, <1>22, <2>1, <2>2 DEF PageTyped
  <2>4. id \in DOMAIN pending'[global] /\ pending'[global][id] = k
    BY <1>8, <1>11, <1>22, <2>2, <2>3
  <2> QED
    BY <1>3, <1>12, <2>1, <2>2, <2>3, <2>4 DEF Unheard
<1>23. ASSUME NEW z \in Sockets PROVE Wire(z)'
  <2>1. Wire(z)
    BY DEF Inv
  <2>2. CASE z # s
    <3>1. ASSUME NEW k \in 1..Len(calls), sock[z] = "open",
                 InWires(k, up[z], down[z])
          PROVE  CallStays(z, k)
      <4>1. OpenWire(z, up[z], down[z], subs[z]) /\ owner[z] \in Objects
        BY <2>1, <3>1 DEF Wire, Idle
      <4>2. calls[k].sock = z
        BY <3>1, <4>1 DEF InWires, OpenWire, UpTrue, DownTrue, OfCall
      <4> QED
        BY <1>8, <1>21, <2>2, <4>1, <4>2
    <3>2. /\ sock'[z] = sock[z] /\ up'[z] = up[z] /\ down'[z] = down[z]
          /\ subs'[z] = subs[z] /\ owner'[z] = owner[z] /\ global' = global
      BY <1>3, <2>2
    <3>3. owner[z] = global /\ global # None =>
            /\ handler[global] \subseteq handler'[global]
            /\ \A x : Unheard(z, x) => Unheard(z, x)'
      BY <1>5, <1>13, <1>22 DEF PageTyped
    <3> QED
      BY <1>5, <2>1, <3>1, <3>2, <3>3, WireStays
  <2>3. CASE z = s
    <3>1. \A k \in 1..Len(calls) : InWires(k, u, d2) => CallStays(s, k)
      BY <1>3, <1>7, <1>21
    <3>2. /\ UpTrue(s, u, b)' /\ DownTrue(s, d2, b)' /\ Once(u, d2)'
          /\ \A x : Awaited(u, d2, x) => Awaited(u, d2, x)'
      BY <1>3, <1>7, <3>1, MessagesStay
    <3>3. Handled(s, u, d2, b)'
      <4> SUFFICES ASSUME owner[s] = global, global # None,
                          NEW x \in b \ handler'[global]
                   PROVE  Awaited(u, d2, x)' \/ Unheard(s, x)'
        BY <1>3 DEF Handled
      <4>1. global \in Objects /\ x \in Topics /\ x \notin handler[global]
        BY <1>1, <1>3, <1>5, <1>13
      <4>2. Handled(s, u, d, b)
        BY <1>3, <1>4 DEF OpenWire
      <4>3. \/ Awaited(u, d2, x) \/ Unheard(s, x)
            \/ m.type = "result" /\ t = x
        BY <1>7, <4>1, <4>2 DEF Handled
      <4>4. ASSUME m.type = "result", t = x PROVE Unheard(s, x)'
        <5>1. t # None /\ t \in m.topics
          BY <1>1, <1>5, <1>7, <4>1, <4>4 DEF Confirms
        <5>2. Raises(calls[c], m)
          BY <1>6, <1>13, <4>4, <5>1
        <5>3. ~calls[c].given
          BY <1>1, <4>1, <5>1, <5>2 DEF Raises
        <5>4. m.id \in DOMAIN pending'[o] /\ pending'[o][m.id] = c
          BY <1>8, <1>10, <5>2
        <5> QED
          BY <1>1, <1>3, <1>12, <4>4, <5>2, <5>3, <5>4 DEF Unheard
      <4> QED
        BY <1>22, <3>2, <4>1, <4>3, <4>4
    <3>4. OpenWire(s, u, d2, b)'
      BY <3>2, <3>3 DEF OpenWire
    <3>5. u = up'[s] /\ d2 = down'[s] /\ b = subs'[s]
      BY <1>3, <1>4
    <3>6. Idle(s)'
      BY <1>3, <2>1, <2>3 DEF Wire, Idle
    <3> QED
      BY <2>3, <3>4, <3>5, <3>6 DEF Wire
  <2> QED
    BY <2>2, <2>3
<1> QED
  BY <1>16, <1>17, <1>19, <1>20, <1>23 DEF Inv

-----------------------------------------------------------------------------
(* The theorems.                                                           *)

(* The invariant holds at the start.                                       *)
LEMMA InvInit ==
  ASSUME BrowserAssumption, Init
  PROVE  Inv
<1>1. /\ global \in Objects \cup {None}
      /\ current = [o \in Objects |-> None] /\ nextId = [o \in Objects |-> 1]
      /\ pending = [o \in Objects |-> <<>>] /\ handler = [o \in Objects |-> {}]
      /\ calls = <<>>
      /\ sock = [s \in Sockets |-> "fresh"] /\ owner = [s \in Sockets |-> None]
      /\ up = [s \in Sockets |-> <<>>] /\ down = [s \in Sockets |-> <<>>]
      /\ subs = [s \in Sockets |-> {}] /\ stored = {}
      /\ renewed = {} /\ astray = {}
  BY DEF Init, BrowserAssumption
<1>2. /\ calls \in Seq(CallRecords) /\ <<>> \in Seq(Requests)
      /\ <<>> \in Seq(Arrivals)
  BY <1>1, EmptySeq
<1>3. \A o \in Objects : DOMAIN pending[o] = {}
  BY <1>1
<1>4. Typed
  BY <1>1, <1>2, <1>3 DEF Typed, PageTyped, WiresTyped
<1>5. Owned
  BY <1>1 DEF Owned
<1>6. EntriesOwn /\ Explained
  BY <1>3 DEF EntriesOwn, Explained
<1>7. AnswersFindTheirCall
  BY <1>1 DEF AnswersFindTheirCall
<1>8. \A s \in Sockets : Wire(s)
  BY <1>1 DEF Wire, Idle
<1> QED
  BY <1>4, <1>5, <1>6, <1>7, <1>8 DEF Inv

(* Every step keeps it.                                                    *)
LEMMA InvNext ==
  ASSUME Inv, [Next]_vars
  PROVE  Inv'
<1>1. CASE \E o \in Objects : Connect(o)
  BY <1>1, ConnectStep
<1>2. ASSUME NEW o \in Objects, NEW t \in Topics \cup {Strange, None},
             NEW given \in BOOLEAN, Call(o, t, given)
      PROVE  Inv'
  BY <1>2, CallStep DEF Asked
<1>3. ASSUME NEW s \in Sockets, Opens(s) \/ Closes(s) \/ ServerCalls(s)
      PROVE  Inv'
  BY <1>3, OpensStep, ClosesStep, ServerCallsStep
<1>4. ASSUME NEW s \in Sockets, NEW i \in DOMAIN up[s],
             Subscribe(s, i) \/ Reply(s, i)
      PROVE  Inv'
  BY <1>4, SubscribeStep, ReplyStep
<1>5. ASSUME NEW s \in Sockets, TakesRequest(s) \/ TakesNotice(s)
      PROVE  Inv'
  BY <1>5, TakesRequestStep, TakesNoticeStep
<1>6. ASSUME NEW s \in Sockets, NEW type \in {"result", "error"},
             TakesAnswer(s, type)
      PROVE  Inv'
  BY <1>6, TakesAnswerStep
<1>7. CASE \E t \in Topics : Notify(t)
  BY <1>7, NotifyStep
<1>8. CASE UNCHANGED vars
  <2>1. UNCHANGED <<page, history, sock, owner, up, down, subs, stored>>
    BY <1>8 DEF vars, wires, server
  <2>2. Typed /\ Owned
    BY DEF Inv
  <2>3. \A s \in Sockets : Wire(s)'
    <3> SUFFICES ASSUME NEW s \in Sockets PROVE Wire(s)'
      OBVIOUS
    <3>1. Wire(s)
      BY DEF Inv
    <3> QED
      BY <2>1, <2>2, <3>1, QuietWire
  <2>4. WiresTyped'
    BY <2>1, <2>2 DEF Typed, WiresTyped
  <2>5. Owned'
    BY <2>1, <2>2 DEF Owned, page, history
  <2>6. \A s \in Sockets : \/ sock'[s] = "closed"
                           \/ /\ sock[s] # "closed"
                              /\ \A c : InWires(c, up[s], down[s]) =>
                                   InWires(c, up'[s], down'[s])
    BY <2>1
  <2> QED
    BY <2>1, <2>3, <2>4, <2>5, <2>6, QuietSteps, HistoryStays
<1> QED
  BY <1>1, <1>2, <1>3, <1>4, <1>5, <1>6, <1>7, <1>8 DEF Next

(* Whatever the page does between two messages, and in whatever order the  *)
(* server answers, this holds of it.                                       *)
THEOREM InvHolds ==
  ASSUME BrowserAssumption
  PROVE  Spec => []Inv
<1>1. Init => Inv
  BY InvInit
<1>2. Inv /\ [Next]_vars => Inv'
  BY InvNext
<1> QED
  BY <1>1, <1>2, PTL DEF Spec

(* Handlers get the answer to their own call, and once (rpc.js:62-73); the *)
(* page answers on the websocket that asked, unless it connected beside it *)
(* (rpc.js:15-21).                                                         *)
THEOREM FindsTheirCall ==
  ASSUME BrowserAssumption
  PROVE  Spec => []AnswersFindTheirCall
<1>1. Inv => AnswersFindTheirCall
  BY DEF Inv
<1> QED
  BY <1>1, InvHolds, PTL

(* An entry of the table of calls outlives its request and the answer only *)
(* if the connection ended, or was not open when the call was made, or if  *)
(* the handler of subscribe() raised, for a topic the server lacks, without*)
(* a handler for it, or without `rpc' (rpc.js:38, 72, 97-148).             *)
THEOREM EntriesHaveReasons ==
  ASSUME BrowserAssumption
  PROVE  Spec => []EntriesExplained
<1>1. ASSUME Inv PROVE EntriesExplained
  <2> DEFINE
        Reason(c) ==
          \/ calls[c].end = "unsent"
          \/ /\ calls[c].end = "raised"
             /\ calls[c].topic = Strange \/ ~calls[c].given \/ global = None
          \/ /\ calls[c].end = "waits"
             /\ \/ sock[calls[c].sock] = "closed"
                \/ \E i \in DOMAIN up[calls[c].sock] :
                     up[calls[c].sock][i].of = c
                \/ \E i \in DOMAIN down[calls[c].sock] :
                     /\ down[calls[c].sock][i].type \in {"result", "error"}
                     /\ down[calls[c].sock][i].of = c
  <2>0. (\A o \in Objects : \A id \in DOMAIN pending[o] :
           Reason(pending[o][id])) => EntriesExplained
    BY Zenon DEF EntriesExplained
  <2> SUFFICES ASSUME NEW o \in Objects, NEW id \in DOMAIN pending[o],
                      NEW c, c = pending[o][id]
               PROVE  Reason(c)
    <3> HIDE DEF Reason
    <3> QED
      BY <2>0
  <2>1. \/ calls[c].end = "unsent"
        \/ /\ calls[c].end = "raised"
           /\ calls[c].topic = Strange \/ ~calls[c].given \/ global = None
        \/ /\ calls[c].end = "waits"
           /\ \/ sock[calls[c].sock] = "closed"
              \/ InWires(c, up[calls[c].sock], down[calls[c].sock])
    BY <1>1, Zenon DEF Inv, Explained
  <2>2. ASSUME calls[c].end = "waits",
               InWires(c, up[calls[c].sock], down[calls[c].sock])
        PROVE  \/ \E i \in DOMAIN up[calls[c].sock] :
                    up[calls[c].sock][i].of = c
               \/ \E i \in DOMAIN down[calls[c].sock] :
                    /\ down[calls[c].sock][i].type \in {"result", "error"}
                    /\ down[calls[c].sock][i].of = c
    <3>1. PICK z, u, d : z = calls[c].sock /\ u = up[z] /\ d = down[z]
      OBVIOUS
    <3>2. z \in Sockets
      BY <1>1, <2>2, <3>1 DEF Inv, EntriesOwn
    <3>3. u \in Seq(Requests) /\ d \in Seq(Arrivals)
      BY <1>1, <3>1, <3>2 DEF Inv, Typed, WiresTyped
    <3>4. DOMAIN u = 1..Len(u) /\ DOMAIN d = 1..Len(d)
      BY <3>3, LenProperties
    <3> QED
      BY <2>2, <3>1, <3>4 DEF InWires, IsAnswer
  <2> QED
    BY <2>1, <2>2
<1> QED
  BY <1>1, InvHolds, PTL

(* The object in the variable `rpc' drops a notification only while a      *)
(* subscription to its topic on that websocket waits for the reply, or     *)
(* after one that was made without a handler: one that was given a handler *)
(* has it when its reply was read (rpc.js:140-148).                        *)
THEOREM DropsHaveReasons ==
  ASSUME BrowserAssumption
  PROVE  Spec => DropsExplained
<1>1. ASSUME Inv, NEW s \in Sockets, NEW t, t = Head(down[s]).topic,
             IsOpen(s), owner[s] = global, global # None, down[s] # <<>>,
             Head(down[s]).type = "notice", t \notin handler[global]
      PROVE  \E id \in DOMAIN pending[global] :
               LET c == calls[pending[global][id]] IN
               /\ c.topic = t /\ c.sock = s
               /\ \/ c.end = "waits"
                  \/ c.end = "raised" /\ ~c.given
  <2>1. PICK u, d, b : u = up[s] /\ d = down[s] /\ b = subs[s]
    OBVIOUS
  <2>2. OpenWire(s, u, d, b) /\ d \in Seq(Arrivals) /\ d # <<>>
    BY <1>1, <2>1, UsedWire DEF IsOpen, Inv, Typed, WiresTyped
  <2>3. t \in b
    BY <1>1, <2>1, <2>2, TailWire
  <2>4. Awaited(u, d, t) \/ Unheard(s, t)
    BY <1>1, <2>2, <2>3 DEF OpenWire, Handled
  <2>5. ASSUME Awaited(u, d, t)
        PROVE  \E m : OfCall(s, m) /\ calls[m.of].topic = t
    <3>1. CASE \E i \in 1..Len(u) : u[i].type = "replies" /\ u[i].topic = t
      BY <2>2, <3>1 DEF OpenWire, UpTrue
    <3>2. CASE \E i \in 1..Len(d) :
                 d[i].type = "result" /\ calls[d[i].of].topic = t
      BY <2>2, <3>2 DEF OpenWire, DownTrue, IsAnswer
    <3> QED
      BY <2>5, <3>1, <3>2 DEF Awaited
  <2>6. CASE Awaited(u, d, t)
    <3>1. PICK m : OfCall(s, m) /\ calls[m.of].topic = t
      BY <2>5, <2>6
    <3> QED
      BY <1>1, <3>1 DEF OfCall
  <2>7. CASE Unheard(s, t)
    BY <2>7 DEF Unheard
  <2> QED
    BY <2>4, <2>6, <2>7
<1>2. Inv => \A s \in Sockets :
        LET t == Head(down[s]).topic IN
        IsOpen(s) /\ owner[s] = global /\ global # None
          /\ down[s] # <<>> /\ Head(down[s]).type = "notice"
          /\ sock'[s] = "open" /\ down'[s] = Tail(down[s])
          /\ t \notin handler[global]
        => \E id \in DOMAIN pending[global] :
             LET c == calls[pending[global][id]] IN
             /\ c.topic = t /\ c.sock = s
             /\ \/ c.end = "waits"
                \/ c.end = "raised" /\ ~c.given
  BY <1>1
<1> QED
  BY <1>2, InvHolds, PTL DEF DropsExplained
=============================================================================
