--------------------------- MODULE DispatchProofs ---------------------------
(* What Dispatch promises, for any texts, methods and number of messages.  *)
EXTENDS Dispatch, FiniteSetTheorems, SequenceTheorems,
        WellFoundedInduction, TLAPS

-----------------------------------------------------------------------------
(* What decode_msg makes of texts.                                         *)

(* The id by which a client knows its message, as Decode finds it.         *)
KnownId(m) ==
  IF m.json # "object" \/ m.id = Missing \/ m.method = NotString THEN Null
                                                                 ELSE m.id

(* The markers are different things.                                       *)
LEMMA Markers ==
  /\ Missing # Null /\ Missing # NotString /\ Null # NotString
  /\ Missing # NotDict /\ Missing # Unhashable /\ Null # Unhashable
  /\ Null # NotDict
<1>1. ASSUME NEW a, NEW b, NEW c, NEW d
      PROVE  Cardinality({a, b, c, d}) # 5
  <2>0. IsFiniteSet({}) /\ Cardinality({}) = 0
    BY FS_EmptySet
  <2>1. IsFiniteSet({a}) /\ Cardinality({a}) \in 0..1
    <3>1. IsFiniteSet({a}) /\ Cardinality({a}) = 1
      BY FS_Singleton, Zenon
    <3> QED
      BY <3>1
  <2>2. IsFiniteSet({a} \cup {b}) /\ Cardinality({a} \cup {b}) \in 0..2
    BY <2>1, FS_AddElement
  <2>3. /\ IsFiniteSet(({a} \cup {b}) \cup {c})
        /\ Cardinality(({a} \cup {b}) \cup {c}) \in 0..3
    BY <2>2, FS_AddElement
  <2>4. Cardinality((({a} \cup {b}) \cup {c}) \cup {d}) \in 0..4
    BY <2>3, FS_AddElement
  <2>5. {a, b, c, d} = ((({a} \cup {b}) \cup {c}) \cup {d})
    OBVIOUS
  <2> QED
    BY <2>4, <2>5
<1>3. ASSUME NEW x, NEW y, NEW a, NEW b, NEW c, x = y,
             {Missing, Null, NotString, NotDict, Unhashable} = {x, y, a, b, c}
      PROVE  FALSE
  <2>1. {Missing, Null, NotString, NotDict, Unhashable} = {x, a, b, c}
    BY <1>3
  <2> QED
    BY <1>1, <2>1, ProtocolAssumption
<1>4. Missing # Null
  BY <1>3
<1>5. Missing # NotString
  BY <1>3
<1>6. Null # NotString
  BY <1>3
<1>7. Missing # NotDict
  BY <1>3
<1>8. Missing # Unhashable
  BY <1>3
<1>9. Null # Unhashable
  BY <1>3
<1>10. Null # NotDict
  BY <1>3
<1> QED
  BY <1>4, <1>5, <1>6, <1>7, <1>8, <1>9, <1>10

(* What Decode can return; the id is the message's own or nobody's.        *)
LEMMA DecodeOutcome ==
  ASSUME NEW m, m.json \in {"object", "garbage", "scalar"}
  PROVE  LET d == Decode(m) IN
         /\ d.type \in {"raises", "notification", "request", "result", "error"}
         /\ d.type = "raises" =>
              d.class \in {"RpcParseError", "RpcInvalidRequestError",
                           "TypeError"}
         /\ d.type # "raises" => d.class = "none"
         /\ d.id # Missing /\ d.id \in {m.id, Null}
         /\ d.class # "TypeError" => d.id = KnownId(m) \/ KnownId(m) = Null
         /\ d.type = "request" =>
              d.id = m.id /\ d.id # Null /\ KnownId(m) = m.id
<1> DEFINE id == IF m.id = Missing THEN Null ELSE m.id
           Fine(d) ==
             /\ d.type \in {"raises", "notification", "request", "result",
                            "error"}
             /\ d.type = "raises" =>
                  d.class \in {"RpcParseError", "RpcInvalidRequestError",
                               "TypeError"}
             /\ d.type # "raises" => d.class = "none"
             /\ d.id # Missing /\ d.id \in {m.id, Null}
             /\ d.class # "TypeError" =>
                  d.id = KnownId(m) \/ KnownId(m) = Null
             /\ d.type = "request" =>
                  d.id = m.id /\ d.id # Null /\ KnownId(m) = m.id
<1>1. ASSUME NEW class \in {"RpcParseError", "RpcInvalidRequestError",
                            "TypeError"},
             NEW x \in {m.id, Null}, x # Missing,
             class # "TypeError" => x = KnownId(m) \/ KnownId(m) = Null
      PROVE  Fine(Raises(class, x))
  BY <1>1 DEF Raises
<1>2. /\ id # Missing /\ id \in {m.id, Null}
      /\ id = KnownId(m) \/ KnownId(m) = Null
  BY Markers DEF KnownId
<1>3. CASE m.json # "object"
  <2>1. KnownId(m) = Null
    BY <1>3 DEF KnownId
  <2>2. Fine(Raises("RpcParseError", Null)) /\ Fine(Raises("TypeError", Null))
    BY <1>1, <2>1, Markers
  <2>3. \/ Decode(m) = Raises("RpcParseError", Null)
        \/ Decode(m) = Raises("TypeError", Null)
    BY <1>3 DEF Decode
  <2> QED
    BY <2>2, <2>3
<1>4. CASE m.json = "object" /\ IllFormed(m)
  <2>1. Decode(m) = Raises("RpcInvalidRequestError", id)
    BY <1>4 DEF Decode
  <2>2. Fine(Raises("RpcInvalidRequestError", id))
    BY <1>1, <1>2
  <2> QED
    BY <2>1, <2>2
<1>5. CASE m.json = "object" /\ ~IllFormed(m) /\ "method" \in Kinds(m)
  <2>1. CASE m.method = NotString
    <3>1. Decode(m) = Raises("RpcInvalidRequestError", Null)
      BY <1>5, <2>1 DEF Decode
    <3>2. KnownId(m) = Null
      BY <2>1 DEF KnownId
    <3>3. Fine(Raises("RpcInvalidRequestError", Null))
      BY <1>1, <3>2, Markers
    <3> QED
      BY <3>1, <3>3
  <2>2. CASE m.method # NotString
    <3>1. Decode(m) = Decoded(IF id = Null THEN "notification"
                                            ELSE "request", m)
      BY <1>5, <2>2 DEF Decode
    <3>2. KnownId(m) = id
      BY <1>5, <2>2 DEF KnownId
    <3>3. /\ Decode(m).type = IF id = Null THEN "notification" ELSE "request"
          /\ Decode(m).id = id /\ Decode(m).class = "none"
      BY <3>1 DEF Decoded
    <3> QED
      BY <1>2, <3>2, <3>3
  <2> QED
    BY <2>1, <2>2
<1>6. CASE m.json = "object" /\ ~IllFormed(m) /\ "method" \notin Kinds(m)
  <2>1. m.id # Missing /\ m.method = Missing
    BY <1>6 DEF IllFormed, Kinds
  <2>2. KnownId(m) = m.id
    BY <1>6, <2>1, Markers DEF KnownId
  <2>3. ASSUME NEW type \in {"result", "error"} PROVE Fine(Decoded(type, m))
    BY <2>1, <2>2 DEF Decoded
  <2>4. \/ Decode(m) = Decoded("result", m) \/ Decode(m) = Decoded("error", m)
        \/ Decode(m) = Raises("TypeError", Null)
        \/ Decode(m) = Raises("RpcInvalidRequestError", id)
    BY <1>6 DEF Decode
  <2>5. /\ Fine(Raises("RpcInvalidRequestError", id))
        /\ Fine(Raises("TypeError", Null))
    BY <1>1, <1>2, Markers
  <2> QED
    BY <2>3, <2>4, <2>5
<1> QED
  BY <1>3, <1>4, <1>5, <1>6

(* The codes are numbers, and so none of the markers.                      *)
LEMMA CodesAreNumbers ==
  /\ Codes \subseteq Int
  /\ \A class \in DOMAIN Standard : Standard[class] \in Codes
  /\ \A c \in Codes : c # Missing /\ c # Null /\ c # Unhashable /\ c # -1
  /\ \A c \in SentCodes : c # Missing /\ c # Unhashable
  /\ \A c \in SentCodes : c \notin Codes <=> c \in {Null, -1}
  /\ -32001 \in Codes /\ -32050 \in Codes /\ -32002 \in Codes
<1>1. DOMAIN Standard = {"RpcInvalidRequestError", "RpcMethodNotFoundError",
                         "RpcInvalidParamsError", "RpcInternalError",
                         "RpcParseError"}
  BY DEF Standard
<1>2. /\ Standard.RpcInvalidRequestError = -32600
      /\ Standard.RpcMethodNotFoundError = -32601
      /\ Standard.RpcInvalidParamsError = -32602
      /\ Standard.RpcInternalError = -32603
      /\ Standard.RpcParseError = -32700
  BY DEF Standard
<1>3. \A class \in DOMAIN Standard : Standard[class] \in Int
  BY <1>1, <1>2
<1>4. Codes \subseteq Int
  BY <1>3 DEF Codes, ServerDefined
<1>5. Missing \notin Int /\ Null \notin Int /\ Unhashable \notin Int
  BY TextsAssumption
<1>6. -32001 \in Codes /\ -32050 \in Codes /\ -32002 \in Codes
  BY DEF Codes, ServerDefined
<1>7. \A class \in DOMAIN Standard : Standard[class] \in Codes
  BY DEF Codes
<1>8. -1 \notin Codes
  <2>1. \A class \in DOMAIN Standard : Standard[class] # -1
    BY <1>1, <1>2
  <2>2. -1 \notin ServerDefined
    BY DEF ServerDefined
  <2> QED
    BY <2>1, <2>2 DEF Codes
<1>9. \A c \in SentCodes : c \in Codes \/ c = Null \/ c = -1
  BY DEF SentCodes
<1>10. \A c \in Codes : c # Missing /\ c # Null /\ c # Unhashable /\ c # -1
  BY <1>4, <1>5, <1>8
<1>11. \A c \in SentCodes : c # Missing /\ c # Unhashable
  BY <1>5, <1>9, <1>10, Markers
<1>12. \A c \in SentCodes : c \notin Codes <=> c \in {Null, -1}
  BY <1>9, <1>10
<1> QED
  BY <1>4, <1>6, <1>7, <1>10, <1>11, <1>12

(* The text of an error, member by member.                                 *)
LEMMA ErrorText ==
  ASSUME NEW class, NEW c, NEW x, NEW id, NEW r,
         r = EncodeError([class |-> class, code |-> c, data |-> Null,
                          msg_id |-> x], id)
  PROVE  r = [json |-> "object", jsonrpc |-> "2.0",
              id |-> IfNone(IfNone(id, x), Missing), method |-> Missing,
              params |-> Missing, result |-> Missing,
              error |-> [code |-> c, message |-> "text", data |-> Missing]]
BY DEF EncodeError, Object, IfNone

(* An error is understood if it has an id and a code that exists.          *)
LEMMA ErrorDecodes ==
  ASSUME NEW class, NEW c \in SentCodes, NEW x, NEW id, NEW r,
         r = EncodeError([class |-> class, code |-> c, data |-> Null,
                          msg_id |-> x], id)
  PROVE  LET y == IfNone(IfNone(id, x), Missing) IN
         /\ r.error.code = c
         /\ y = Missing \/ c \notin Codes => Decode(r).type = "raises"
         /\ y # Missing /\ c \in Codes =>
              Decode(r).type = "error" /\ Decode(r).id = y
<1> DEFINE y == IfNone(IfNone(id, x), Missing)
           e == [code |-> c, message |-> "text", data |-> Missing]
<1>1. /\ r.json = "object" /\ r.jsonrpc = "2.0" /\ r.id = y
      /\ r.method = Missing /\ r.result = Missing /\ r.error = e
  BY ErrorText
<1> HIDE DEF y
<1>2. /\ e # Missing /\ e # NotDict /\ e.code = c /\ e.message # Missing
      /\ c # Unhashable /\ c # Missing
  <2>1. e \in ErrorObjects
    BY DEF ErrorObjects
  <2>2. /\ e # Missing /\ e # NotDict /\ "text" # Missing
    BY <2>1, TextsAssumption
  <2> QED
    BY <2>2, CodesAreNumbers, Markers
<1>3. Kinds(r) = {"error"}
  BY <1>1, <1>2 DEF Kinds
<1>4. Cardinality(Kinds(r)) = 1 /\ "method" \notin Kinds(r)
      /\ "result" \notin Kinds(r)
  BY <1>3, FS_Singleton
<1>5. IllFormed(r) <=> y = Missing
  BY <1>1, <1>4 DEF IllFormed
<1>6. IllFormedError(r) <=> c \notin Codes
  BY <1>1, <1>2 DEF IllFormedError
<1>7. CASE y = Missing
  BY <1>1, <1>2, <1>5, <1>7 DEF Decode, Raises, y
<1>8. CASE y # Missing /\ c \notin Codes
  <2>1. Decode(r) = Raises("RpcInvalidRequestError", y)
    BY <1>1, <1>2, <1>4, <1>5, <1>6, <1>8 DEF Decode
  <2> QED
    BY <1>1, <1>2, <1>8, <2>1 DEF Raises, y
<1>9. CASE y # Missing /\ c \in Codes
  <2>1. Decode(r) = Decoded("error", r)
    BY <1>1, <1>2, <1>4, <1>5, <1>6, <1>9 DEF Decode
  <2> QED
    BY <1>1, <1>2, <1>9, <2>1 DEF Decoded, y
<1> QED
  BY <1>7, <1>8, <1>9

(* A result is understood.                                                 *)
LEMMA ResultDecodes ==
  ASSUME NEW id, id # Missing, NEW r, r = EncodeResult(id, "value")
  PROVE  Decode(r).type = "result" /\ Decode(r).id = id
<1>1. /\ r.json = "object" /\ r.jsonrpc = "2.0" /\ r.id = id
      /\ r.method = Missing /\ r.result = "value" /\ r.error = Missing
  BY DEF EncodeResult, Object
<1>2. "value" # Missing
  BY TextsAssumption
<1>3. Kinds(r) = {"result"}
  BY <1>1, <1>2 DEF Kinds
<1>4. Cardinality(Kinds(r)) = 1 /\ "method" \notin Kinds(r)
  BY <1>3, FS_Singleton
<1>5. ~IllFormed(r)
  BY <1>1, <1>4 DEF IllFormed
<1>6. Decode(r) = Decoded("result", r)
  BY <1>1, <1>3, <1>4, <1>5 DEF Decode
<1> QED
  BY <1>1, <1>6 DEF Decoded

(* What is sent is a text.                                                 *)
LEMMA RepliesAreTexts ==
  ASSUME NEW i \in Tasks, NEW m \in Texts(i), NEW r,
         \/ r = EncodeResult(m.id, "value")
         \/ r \in RawTexts(i)
         \/ \E class, x, id : \E c \in SentCodes :
              /\ x \in {m.id, Null} /\ id \in {m.id, Null}
              /\ r = EncodeError([class |-> class, code |-> c, data |-> Null,
                                  msg_id |-> x], id)
  PROVE  r # Missing
<1>1. CASE r = EncodeResult(m.id, "value")
  <2>1. r = [json |-> "object", jsonrpc |-> "2.0", id |-> m.id,
             method |-> Missing, params |-> Missing, result |-> "value",
             error |-> Missing]
    BY <1>1 DEF EncodeResult, Object
  <2>2. r \in Replies(i)
    BY <2>1 DEF Replies
  <2> QED
    BY <2>2, TextsAssumption
<1>2. ASSUME NEW class, NEW x \in {m.id, Null}, NEW id \in {m.id, Null},
             NEW c \in SentCodes,
             r = EncodeError([class |-> class, code |-> c, data |-> Null,
                              msg_id |-> x], id)
      PROVE  r # Missing
  <2> DEFINE y == IfNone(IfNone(id, x), Missing)
  <2>1. r = [json |-> "object", jsonrpc |-> "2.0", id |-> y,
             method |-> Missing, params |-> Missing, result |-> Missing,
             error |-> [code |-> c, message |-> "text", data |-> Missing]]
    BY <1>2, ErrorText
  <2>2. y \in {Missing} \cup {mm.id : mm \in Texts(i)}
    BY DEF IfNone
  <2> HIDE DEF y
  <2>3. r \in Replies(i)
    BY <2>1, <2>2 DEF Replies, ErrorObjects
  <2> QED
    BY <2>3, TextsAssumption
<1>3. CASE r \in RawTexts(i)
  BY <1>3, TextsAssumption
<1> QED
  BY <1>1, <1>2, <1>3

-----------------------------------------------------------------------------
(* The errors that a method can raise.                                     *)

(* A code of the protocol belongs to its own class, or to the one that the *)
(* application has registered for it.                                      *)
LEMMA ClassOfStandard ==
  \A class \in DOMAIN Standard :
    ClassOf(Standard[class]) =
      IF Standard[class] \in AppErrors THEN "AppError" ELSE class
<1>1. DOMAIN Standard = {"RpcInvalidRequestError", "RpcMethodNotFoundError",
                         "RpcInvalidParamsError", "RpcInternalError",
                         "RpcParseError"}
  BY DEF Standard
<1>2. /\ Standard.RpcInvalidRequestError = -32600
      /\ Standard.RpcMethodNotFoundError = -32601
      /\ Standard.RpcInvalidParamsError = -32602
      /\ Standard.RpcInternalError = -32603
      /\ Standard.RpcParseError = -32700
  BY DEF Standard
<1>3. \A a, b \in DOMAIN Standard : Standard[a] = Standard[b] => a = b
  BY <1>1, <1>2
<1> SUFFICES ASSUME NEW class \in DOMAIN Standard
             PROVE  ClassOf(Standard[class]) =
                      IF Standard[class] \in AppErrors THEN "AppError"
                                                       ELSE class
  OBVIOUS
<1>4. Standard[class] \notin ServerDefined
  BY <1>1, <1>2 DEF ServerDefined
<1>5. (CHOOSE c \in DOMAIN Standard : Standard[c] = Standard[class]) = class
  BY <1>3
<1> QED
  BY <1>4, <1>5 DEF ClassOf

(* An error of the protocol, as it is sent and as it arrives.              *)
LEMMA StandardErrors ==
  ASSUME NEW class \in DOMAIN Standard, NEW id
  PROVE  LET error == StandardError(class, id) IN
         /\ error = [class |-> class, code |-> Standard[class],
                     data |-> Null, msg_id |-> id]
         /\ error.code \in Codes
         /\ ClassOf(error.code) = ArrivesAs(error)
<1> DEFINE error == StandardError(class, id)
<1>1. error = [class |-> class, code |-> Standard[class],
               data |-> Null, msg_id |-> id]
  BY DEF StandardError
<1>2. error.class = class /\ error.code = Standard[class]
  BY <1>1
<1>3. class # "Derived"
  BY DEF Standard
<1>4. ArrivesAs(error) =
        IF Standard[class] \in AppErrors THEN "AppError" ELSE class
  BY <1>2, <1>3 DEF ArrivesAs
<1>5. Standard[class] \in Codes
  BY CodesAreNumbers
<1> QED
  BY <1>1, <1>2, <1>4, <1>5, ClassOfStandard

(* So it is with an internal error.                                        *)
LEMMA InternalError ==
  LET error == StandardError("RpcInternalError", Null) IN
  /\ "RpcInternalError" \in DOMAIN Standard
  /\ Standard["RpcInternalError"] \in Codes
  /\ ClassOf(Standard["RpcInternalError"]) = ArrivesAs(error)
<1>1. PICK class : class = "RpcInternalError"
  OBVIOUS
<1>2. class \in DOMAIN Standard
  BY <1>1 DEF Standard
<1>3. /\ Standard[class] \in Codes
      /\ StandardError(class, Null).code = Standard[class]
      /\ ClassOf(Standard[class]) = ArrivesAs(StandardError(class, Null))
  BY <1>2, StandardErrors
<1> QED
  BY <1>1, <1>2, <1>3

(* What the first except clause encodes, and what the caller makes of it.  *)
LEMMA HandledErrors ==
  /\ DOMAIN Handled = {"RpcInvalidParamsError", "RpcInvalidRequestError",
                       "server", "shared", "derived", "noCode", "badCode"}
  /\ \A how \in DOMAIN Handled :
       /\ Handled[how].code \in SentCodes
       /\ Handled[how].code \notin Codes <=> how \in {"noCode", "badCode"}
       /\ how \notin {"noCode", "badCode"} =>
            ClassOf(Handled[how].code) = ArrivesAs(Handled[how])
       /\ Handled[how] = [class |-> Handled[how].class,
                          code |-> Handled[how].code, data |-> Null,
                          msg_id |-> Null]
<1>1. /\ DOMAIN Handled = {"RpcInvalidParamsError", "RpcInvalidRequestError",
                           "server", "shared", "derived", "noCode", "badCode"}
      /\ Handled["RpcInvalidParamsError"] =
           StandardError("RpcInvalidParamsError", Null)
      /\ Handled["RpcInvalidRequestError"] =
           StandardError("RpcInvalidRequestError", Null)
      /\ Handled["server"] = Error(Generic, -32050, Null)
      /\ Handled["shared"] = Error(Generic, -32001, Null)
      /\ Handled["derived"] = Error("Derived", -32002, Null)
      /\ Handled["noCode"] = Error(Generic, Null, Null)
      /\ Handled["badCode"] = Error("Derived", -1, Null)
  BY DEF Handled
<1> DEFINE
      Fine(how, error) ==
        /\ error.code \in SentCodes
        /\ error.code \notin Codes <=> how \in {"noCode", "badCode"}
        /\ how \notin {"noCode", "badCode"} =>
             ClassOf(error.code) = ArrivesAs(error)
        /\ error = [class |-> error.class, code |-> error.code,
                    data |-> Null, msg_id |-> Null]
<1>2. ASSUME NEW class \in DOMAIN Standard, class \notin {"noCode", "badCode"}
      PROVE  Fine(class, StandardError(class, Null))
  <2>1. PICK e : e = StandardError(class, Null)
    OBVIOUS
  <2>2. /\ e = [class |-> class, code |-> Standard[class], data |-> Null,
                msg_id |-> Null]
        /\ e.code \in Codes /\ ClassOf(e.code) = ArrivesAs(e)
    BY <2>1, StandardErrors
  <2>3. e.code \in SentCodes
    BY <2>2 DEF SentCodes
  <2>4. e = [class |-> e.class, code |-> e.code, data |-> Null,
             msg_id |-> Null]
    BY <2>2
  <2> QED
    BY <1>2, <2>1, <2>2, <2>3, <2>4
<1>3. ASSUME NEW class \in {Generic, "Derived"}, NEW c \in ServerDefined,
             NEW how, how \notin {"noCode", "badCode"}
      PROVE  Fine(how, Error(class, c, Null))
  <2>1. PICK e : e = [class |-> class, code |-> c, data |-> Null,
                      msg_id |-> Null]
    OBVIOUS
  <2>2. e = Error(class, c, Null) /\ e.class = class /\ e.code = c
        /\ e = [class |-> e.class, code |-> e.code, data |-> Null,
                msg_id |-> Null]
    BY <2>1 DEF Error
  <2>3. c \in Codes /\ c \in SentCodes
    BY DEF Codes, SentCodes
  <2>4. ClassOf(c) = IF c \in AppErrors THEN "AppError" ELSE Generic
    BY DEF ClassOf
  <2>5. ArrivesAs(e) = IF c \in AppErrors THEN "AppError" ELSE Generic
    BY <2>2 DEF ArrivesAs
  <2> QED
    BY <1>3, <2>2, <2>3, <2>4, <2>5
<1>4. ASSUME NEW class, NEW c \in {Null, -1}, NEW how \in {"noCode", "badCode"}
      PROVE  Fine(how, Error(class, c, Null))
  <2>1. PICK e : e = [class |-> class, code |-> c, data |-> Null,
                      msg_id |-> Null]
    OBVIOUS
  <2>2. e = Error(class, c, Null) /\ e.code = c
        /\ e = [class |-> e.class, code |-> e.code, data |-> Null,
                msg_id |-> Null]
    BY <2>1 DEF Error
  <2>3. c \in SentCodes
    BY DEF SentCodes
  <2>4. c \notin Codes
    BY <2>3, CodesAreNumbers
  <2> QED
    BY <2>2, <2>3, <2>4
<1>5. /\ -32050 \in ServerDefined /\ -32001 \in ServerDefined
      /\ -32002 \in ServerDefined
  BY DEF ServerDefined
<1>6. /\ "RpcInvalidParamsError" \in DOMAIN Standard
      /\ "RpcInvalidRequestError" \in DOMAIN Standard
  BY DEF Standard
<1> HIDE DEF Fine
<1>7. ASSUME NEW how \in DOMAIN Handled PROVE Fine(how, Handled[how])
  <2>1. CASE how \in {"RpcInvalidParamsError", "RpcInvalidRequestError"}
    BY <1>1, <1>2, <1>6, <2>1
  <2>2. CASE how \in {"server", "shared", "derived"}
    BY <1>1, <1>3, <1>5, <2>2
  <2>3. CASE how \in {"noCode", "badCode"}
    BY <1>1, <1>4, <2>3
  <2> QED
    BY <1>1, <2>1, <2>2, <2>3
<1> QED
  BY <1>1, <1>7 DEF Fine

-----------------------------------------------------------------------------
(* The inductive invariant.                                                *)

Requested(m) == Decode(m).type = "request" /\ m.method \in DOMAIN Methods

(* The exceptions that no error of the protocol stands for.                *)
Others == {"KeyError", "exception", "StopIteration", "app"}

(* How a message can end: it is no call, or a call that a reply fits.      *)
Unheard(i) ==
  /\ task[i].ended = "no call" /\ reply[i] = Missing
  /\ \/ Decode(task[i].msg).type = "result"
     \/ Decode(task[i].msg).class = "TypeError"
Refused(i) ==
  /\ task[i].ended = "no call" /\ Decode(task[i].msg).class # "TypeError"
  /\ \E class \in DOMAIN Standard :
       reply[i] = EncodeError(StandardError(class, Decode(task[i].msg).id),
                              Null)
Replied(i, how) ==
  LET m == task[i].msg IN
  /\ task[i].ended = how /\ Requested(m)
  /\ \/ /\ how = "value" /\ Methods[m.method].raw
        /\ reply[i] \in RawTexts(i)
     \/ /\ how = "value" /\ ~Methods[m.method].raw
        /\ reply[i] = EncodeResult(m.id, "value")
     \/ how = "badData" /\ reply[i] = Missing
     \/ how \in DOMAIN Handled /\ reply[i] = EncodeError(Handled[how], m.id)
     \/ /\ how \in Others
        /\ reply[i] =
             EncodeError(StandardError("RpcInternalError", m.id), Null)
Outcome(i) == Unheard(i) \/ Refused(i) \/ \E how \in Endings : Replied(i, how)

TaskOK(i) ==
  /\ task[i].at \in {"none", "new", "running", "queued", "thread", "asking",
                     "stuck", "resolved", "lost", "done"}
  /\ task[i].ended \in Endings \cup {"not", "no call"}
  /\ task[i].at # "none" => task[i].msg \in Texts(i)
  /\ task[i].at \notin {"none", "new", "done"} => Requested(task[i].msg)
  /\ task[i].at = "resolved" => task[i].ended \in Endings
  /\ task[i].at = "done" => Outcome(i)
  /\ task[i].at # "done" => reply[i] = Missing

(* Each job that waits is in the queue once; the threads hold their jobs.  *)
QueueOK ==
  /\ queue \in Seq(Tasks)
  /\ \A a, b \in 1..Len(queue) : queue[a] = queue[b] => a = b
  /\ Elements(queue) = {i \in Tasks : At(i, "queued")}
PoolOK ==
  /\ workers \in PoolSizes /\ hung \in BOOLEAN
  /\ IsFiniteSet({i \in Tasks : InThread(i)}) /\ Busy <= workers

Shaped ==
  /\ DOMAIN task = Tasks /\ DOMAIN reply = Tasks
  /\ \A i \in Tasks : DOMAIN task[i] = {"at", "msg", "bound", "ended"}

Inv == Shaped /\ (\A i \in Tasks : TaskOK(i)) /\ QueueOK /\ PoolOK

(* Nothing has arrived at the start.                                       *)
LEMMA InvInit == Init => Inv
<1> SUFFICES ASSUME Init PROVE Inv
  OBVIOUS
<1>1. Shaped
  BY DEF Init, Shaped
<1>2. \A i \in Tasks : TaskOK(i)
  BY DEF Init, TaskOK
<1>3. QueueOK
  BY DEF Init, QueueOK, Elements, At
<1>4. PoolOK
  <2>1. {i \in Tasks : InThread(i)} = {}
    BY DEF Init, InThread
  <2>2. workers \in PoolSizes /\ workers \in Nat /\ hung \in BOOLEAN
    BY DispatchAssumption DEF Init
  <2> QED
    BY <2>1, <2>2, FS_EmptySet DEF PoolOK, Busy
<1> QED
  BY <1>1, <1>2, <1>3, <1>4 DEF Inv

(* A task that a step leaves alone stays as it is.                         *)
LEMMA OthersKeep ==
  ASSUME NEW i \in Tasks, TaskOK(i), task'[i] = task[i], reply'[i] = reply[i]
  PROVE  TaskOK(i)'
BY DEF TaskOK, Outcome, Unheard, Refused, Replied

(* The except clauses send the reply that fits the end of the method.      *)
LEMMA AnswersFit ==
  ASSUME Shaped, NEW i \in Tasks, NEW how \in Endings,
         Requested(task[i].msg), reply[i] = Missing, Answers(i, how)
  PROVE  /\ DOMAIN reply' = Tasks
         /\ \A j \in Tasks \ {i} : reply'[j] = reply[j]
         /\ task'[i].msg = task[i].msg /\ task'[i].ended = how =>
              Replied(i, how)'
<1> DEFINE m == task[i].msg
<1>1. DOMAIN reply = Tasks
  BY DEF Shaped
<1>2. CASE how = "badData"
  <2>1. UNCHANGED reply
    BY <1>2, HandledErrors DEF Answers
  <2> QED
    BY <1>1, <1>2, <2>1 DEF Replied, Requested
<1>3. ASSUME NEW text, Sends(i, text)
      PROVE  /\ DOMAIN reply' = Tasks
             /\ \A j \in Tasks \ {i} : reply'[j] = reply[j]
             /\ reply'[i] = text
  BY <1>1, <1>3 DEF Sends
<1>4. CASE how = "value"
  <2>1. SendsValue(i)
    BY <1>4, HandledErrors DEF Answers
  <2>2. CASE Methods[m.method].raw
    <3>1. PICK text \in RawTexts(i) : Sends(i, text)
      BY <2>1, <2>2 DEF SendsValue, Method
    <3> QED
      BY <1>3, <1>4, <2>2, <3>1 DEF Replied, Requested
  <2>3. CASE ~Methods[m.method].raw
    <3>1. Sends(i, EncodeResult(m.id, "value"))
      BY <2>1, <2>3 DEF SendsValue, Method
    <3> QED
      BY <1>3, <1>4, <2>3, <3>1 DEF Replied, Requested
  <2> QED
    BY <2>2, <2>3
<1>5. CASE how \in DOMAIN Handled
  <2>1. Sends(i, EncodeError(Handled[how], m.id))
    BY <1>5, HandledErrors DEF Answers, SendsHandled
  <2> QED
    BY <1>3, <1>5, <2>1 DEF Replied, Requested
<1>6. CASE how \in Others
  <2>1. Sends(i, EncodeError(StandardError("RpcInternalError", m.id), Null))
    BY <1>6, HandledErrors DEF Answers, SendsError, Others
  <2> QED
    BY <1>3, <1>6, <2>1 DEF Replied, Requested
<1> QED
  BY <1>2, <1>4, <1>5, <1>6 DEF Endings, Others

(* A step that takes nobody to a thread leaves the pool within its size.   *)
LEMMA PoolKeeps ==
  ASSUME PoolOK, workers' = workers, hung' \in BOOLEAN,
         \A i \in Tasks : InThread(i)' => InThread(i)
  PROVE  PoolOK'
<1> DEFINE S == {i \in Tasks : InThread(i)}
           T == {i \in Tasks : InThread(i)'}
<1>1. T \subseteq S /\ IsFiniteSet(S) /\ Cardinality(S) <= workers
      /\ workers \in Nat
  BY DispatchAssumption DEF PoolOK, Busy
<1>2. /\ IsFiniteSet(T) /\ Cardinality(T) <= Cardinality(S)
      /\ Cardinality(S) \in Nat /\ Cardinality(T) \in Nat
  BY <1>1, FS_Subset, FS_CardinalityType
<1>3. Busy' = Cardinality(T) /\ {i \in Tasks : InThread(i)}' = T
  BY DEF Busy
<1> HIDE DEF S, T
<1> QED
  BY <1>1, <1>2, <1>3 DEF PoolOK

(* Nor does it matter to the queue, if nobody enters or leaves it.         *)
LEMMA QueueKeeps ==
  ASSUME QueueOK, queue' = queue,
         \A i \in Tasks : At(i, "queued")' <=> At(i, "queued")
  PROVE  QueueOK'
BY DEF QueueOK, Elements

(* What becomes of a task whose fields at and ended change.                *)
LEMMA TaskMoves ==
  ASSUME Shaped, NEW i \in Tasks, NEW at, NEW how,
         \/ task' = [task EXCEPT ![i].at = at] /\ how = task[i].ended
         \/ task' = [task EXCEPT ![i].at = at, ![i].ended = how]
         \/ task' = [task EXCEPT ![i].ended = how, ![i].at = at]
         \/ /\ \E b : task' = [task EXCEPT ![i].at = at, ![i].bound = b]
            /\ how = task[i].ended
  PROVE  /\ task'[i].at = at /\ task'[i].ended = how
         /\ task'[i].msg = task[i].msg
         /\ \A j \in Tasks \ {i} : task'[j] = task[j]
         /\ DOMAIN reply' = Tasks => Shaped'
<1> USE DEF Shaped
<1>1. CASE task' = [task EXCEPT ![i].at = at] /\ how = task[i].ended
  BY <1>1
<1>2. CASE task' = [task EXCEPT ![i].at = at, ![i].ended = how]
  BY <1>2
<1>3. CASE task' = [task EXCEPT ![i].ended = how, ![i].at = at]
  BY <1>3
<1>4. ASSUME NEW b, task' = [task EXCEPT ![i].at = at, ![i].bound = b],
             how = task[i].ended
      PROVE  /\ task'[i].at = at /\ task'[i].ended = how
             /\ task'[i].msg = task[i].msg
             /\ \A j \in Tasks \ {i} : task'[j] = task[j]
             /\ DOMAIN reply' = Tasks => Shaped'
  BY <1>4
<1> QED
  BY <1>1, <1>2, <1>3, <1>4

(* How the step of a task i that is neither in the queue nor in a thread   *)
(* before and after keeps everything.                                      *)
LEMMA LoopKeeps ==
  ASSUME Inv, NEW i \in Tasks, Shaped', TaskOK(i)',
         \A j \in Tasks \ {i} : task'[j] = task[j] /\ reply'[j] = reply[j],
         task[i].at \notin {"queued", "thread", "asking", "stuck"},
         task'[i].at \notin {"queued", "thread", "asking", "stuck"},
         UNCHANGED <<workers, queue>>, hung' \in BOOLEAN
  PROVE  Inv'
<1>1. \A j \in Tasks : TaskOK(j)'
  <2> SUFFICES ASSUME NEW j \in Tasks, j # i PROVE TaskOK(j)'
    OBVIOUS
  <2>1. TaskOK(j) /\ task'[j] = task[j] /\ reply'[j] = reply[j]
    BY DEF Inv
  <2> QED
    BY <2>1, OthersKeep
<1>2. \A j \in Tasks : InThread(j)' => InThread(j)
  BY DEF InThread
<1>3. \A j \in Tasks : At(j, "queued")' <=> At(j, "queued")
  BY DEF At
<1>4. PoolOK /\ QueueOK
  BY DEF Inv
<1>5. PoolOK'
  BY <1>2, <1>4, PoolKeeps
<1>6. QueueOK'
  BY <1>3, <1>4, QueueKeeps
<1> QED
  BY <1>1, <1>5, <1>6 DEF Inv

(* A text that arrives is one that the model allows.                       *)
LEMMA ArriveKeeps ==
  ASSUME Inv, NEW i \in Tasks, Arrive(i) PROVE Inv'
<1>1. PICK m \in Texts(i) : task' = [task EXCEPT ![i].at = "new", ![i].msg = m]
  BY DEF Arrive
<1>2. /\ task[i].at = "none" /\ UNCHANGED <<workers, reply, queue, hung>>
      /\ Shaped /\ TaskOK(i) /\ hung \in BOOLEAN
  BY DEF Arrive, At, Inv, PoolOK
<1>3. /\ task'[i].at = "new" /\ task'[i].msg = m
      /\ task'[i].ended = task[i].ended
      /\ \A j \in Tasks \ {i} : task'[j] = task[j] /\ reply'[j] = reply[j]
      /\ Shaped'
  BY <1>1, <1>2 DEF Shaped
<1>4. TaskOK(i)'
  BY <1>2, <1>3 DEF TaskOK
<1> QED
  BY <1>2, <1>3, <1>4, LoopKeeps

(* A message that calls nothing is refused, or nobody hears of it.         *)
LEMMA RejectKeeps ==
  ASSUME Inv, NEW i \in Tasks, Reject(i) PROVE Inv'
<1> DEFINE m == task[i].msg
           d == Decode(m)
<1>1. /\ task[i].at = "new" /\ UNCHANGED <<workers, queue, hung>>
      /\ task' = [task EXCEPT ![i].at = "done", ![i].ended = "no call"]
      /\ Shaped /\ TaskOK(i) /\ hung \in BOOLEAN /\ DOMAIN reply = Tasks
  BY DEF Reject, Ends, At, Inv, PoolOK, Shaped
<1>2. m \in Texts(i) /\ reply[i] = Missing
  BY <1>1 DEF TaskOK
<1>3. m.json \in {"object", "garbage", "scalar"}
  BY <1>2, TextsAssumption
<1>4. \/ /\ UNCHANGED reply
         /\ d.type = "result" \/ d.class = "TypeError"
      \/ \E class \in DOMAIN Standard :
           /\ d.class # "TypeError"
           /\ Sends(i, EncodeError(StandardError(class, d.id), Null))
  <2>1. DOMAIN Standard = {"RpcInvalidRequestError", "RpcMethodNotFoundError",
                           "RpcInvalidParamsError", "RpcInternalError",
                           "RpcParseError"}
    BY DEF Standard
  <2>2. /\ d.type = "raises" => d.class \in DOMAIN Standard \cup {"TypeError"}
        /\ d.type # "raises" => d.class = "none"
    BY <1>3, <2>1, DecodeOutcome
  <2>3. CASE d.type = "raises" /\ d.class \in DOMAIN Standard
               /\ SendsError(i, d.class, d.id)
    BY <2>1, <2>3 DEF SendsError
  <2>4. CASE /\ \/ d.type = "raises" /\ d.class \notin DOMAIN Standard
                \/ d.type = "result"
             /\ UNCHANGED reply
    BY <2>2, <2>4
  <2>5. CASE d.type = "request" /\ SendsError(i, "RpcMethodNotFoundError", d.id)
    BY <2>1, <2>2, <2>5 DEF SendsError
  <2>6. CASE d.type \in {"notification", "error"}
               /\ SendsError(i, "RpcInvalidRequestError", d.id)
    BY <2>1, <2>2, <2>6 DEF SendsError
  <2> QED
    BY <2>3, <2>4, <2>5, <2>6 DEF Reject
<1> HIDE DEF d
<1>5. /\ DOMAIN reply' = Tasks
      /\ \A j \in Tasks \ {i} : reply'[j] = reply[j]
  BY <1>1, <1>4 DEF Sends
<1>6. /\ task'[i].at = "done" /\ task'[i].ended = "no call"
      /\ task'[i].msg = m /\ Shaped'
      /\ \A j \in Tasks \ {i} : task'[j] = task[j]
  <2>1. PICK at, how : at = "done" /\ how = "no call"
    OBVIOUS
  <2>2. Shaped /\ task' = [task EXCEPT ![i].at = at, ![i].ended = how]
    BY <1>1, <2>1
  <2>3. /\ task'[i].at = at /\ task'[i].ended = how
        /\ task'[i].msg = task[i].msg
        /\ \A j \in Tasks \ {i} : task'[j] = task[j]
        /\ DOMAIN reply' = Tasks => Shaped'
    BY <2>2, TaskMoves
  <2> QED
    BY <1>5, <2>1, <2>3
<1>7. Outcome(i)'
  <2>1. CASE UNCHANGED reply /\ (d.type = "result" \/ d.class = "TypeError")
    BY <1>2, <1>6, <2>1 DEF Outcome, Unheard, d
  <2>2. ASSUME NEW class \in DOMAIN Standard, d.class # "TypeError",
               Sends(i, EncodeError(StandardError(class, d.id), Null))
        PROVE  Outcome(i)'
    <3>1. reply'[i] = EncodeError(StandardError(class, d.id), Null)
      BY <1>1, <2>2 DEF Sends
    <3> QED
      BY <1>6, <2>2, <3>1 DEF Outcome, Refused, d
  <2> QED
    BY <1>4, <2>1, <2>2
<1>8. TaskOK(i)'
  BY <1>2, <1>6, <1>7 DEF TaskOK
<1> QED
  BY <1>1, <1>5, <1>6, <1>8, LoopKeeps

(* A task that answers and ends keeps everything.                          *)
LEMMA EndingKeeps ==
  ASSUME Inv, NEW i \in Tasks, NEW how \in Endings, Answers(i, how),
         \/ task' = [task EXCEPT ![i].at = "done"] /\ how = task[i].ended
         \/ task' = [task EXCEPT ![i].at = "done", ![i].ended = how],
         Requested(task[i].msg), task[i].at \in {"new", "running", "resolved"},
         UNCHANGED <<workers, queue, hung>>
  PROVE  Inv'
<1>1. /\ Shaped /\ TaskOK(i) /\ hung \in BOOLEAN
      /\ task[i].msg \in Texts(i) /\ reply[i] = Missing
  BY DEF Inv, PoolOK, TaskOK
<1>2. /\ DOMAIN reply' = Tasks
      /\ \A j \in Tasks \ {i} : reply'[j] = reply[j]
      /\ task'[i].msg = task[i].msg /\ task'[i].ended = how =>
           Replied(i, how)'
  BY <1>1, AnswersFit
<1>3. /\ task'[i].at = "done" /\ task'[i].ended = how
      /\ task'[i].msg = task[i].msg /\ Shaped'
      /\ \A j \in Tasks \ {i} : task'[j] = task[j]
  <2>0. Shaped /\ DOMAIN reply' = Tasks
    BY <1>1, <1>2
  <2>1. CASE task' = [task EXCEPT ![i].at = "done"] /\ how = task[i].ended
    BY <2>0, <2>1 DEF Shaped
  <2>2. CASE task' = [task EXCEPT ![i].at = "done", ![i].ended = how]
    <3>1. PICK at : at = "done"
      OBVIOUS
    <3>2. task' = [task EXCEPT ![i].at = at, ![i].ended = how]
      BY <2>2, <3>1
    <3>3. /\ task'[i].at = at /\ task'[i].ended = how
          /\ task'[i].msg = task[i].msg
          /\ \A j \in Tasks \ {i} : task'[j] = task[j]
          /\ DOMAIN reply' = Tasks => Shaped'
      BY <2>0, <3>2, TaskMoves
    <3> QED
      BY <2>0, <3>1, <3>3
  <2> QED
    BY <2>1, <2>2
<1>4. TaskOK(i)'
  BY <1>1, <1>2, <1>3 DEF TaskOK, Outcome
<1> QED
  BY <1>1, <1>2, <1>3, <1>4, LoopKeeps

(* So a call that its arguments do not fit, a method that ends on the loop *)
(* and a task that gets the result of a thread keep everything.            *)
LEMMA AnsweringKeeps ==
  ASSUME Inv, NEW i \in Tasks, BindingFails(i) \/ MethodEnds(i) \/ Resume(i)
  PROVE  Inv'
<1>1. TaskOK(i)
  BY DEF Inv
<1>2. CASE BindingFails(i)
  <2>1. PICK how :
          /\ how = Binding(Method(i), ParamsOf(task[i].msg)) /\ how # "runs"
          /\ Ends(i, how) /\ Answers(i, how)
    BY <1>2 DEF BindingFails
  <2>2. how \in {"RpcInvalidParamsError", "KeyError"}
    BY <2>1 DEF Binding
  <2>3. how \in Endings
    BY <2>2, HandledErrors DEF Endings
  <2> QED
    BY <1>2, <2>1, <2>3, EndingKeeps
    DEF BindingFails, Called, Requested, Ends, At
<1>3. CASE MethodEnds(i)
  <2>1. PICK how \in Method(i).ends : Ends(i, how) /\ Answers(i, how)
    BY <1>3 DEF MethodEnds
  <2>2. task[i].at = "running" /\ Requested(task[i].msg)
    BY <1>1, <1>3 DEF MethodEnds, At, TaskOK
  <2>3. how \in Endings
    BY <2>1, <2>2, MethodsAssumption DEF Method, Requested
  <2> QED
    BY <1>3, <2>1, <2>2, <2>3, EndingKeeps DEF MethodEnds, Ends
<1>4. CASE Resume(i)
  <2>1. /\ task[i].at = "resolved" /\ Requested(task[i].msg)
        /\ task[i].ended \in Endings
    BY <1>1, <1>4 DEF Resume, At, TaskOK
  <2> QED
    BY <1>4, <2>1, EndingKeeps DEF Resume, Goes
<1> QED
  BY <1>2, <1>3, <1>4

(* A method that is called runs, or waits at the end of the queue, or      *)
(* blocks the loop.                                                        *)
LEMMA CallKeeps ==
  ASSUME Inv, NEW i \in Tasks, Call(i) PROVE Inv'
<1>1. /\ task[i].at = "new" /\ Requested(task[i].msg)
      /\ UNCHANGED <<workers, reply>>
  BY DEF Call, Called, At, Requested
<1>2. /\ Shaped /\ TaskOK(i) /\ hung \in BOOLEAN /\ QueueOK /\ PoolOK
      /\ DOMAIN reply' = Tasks
  BY <1>1 DEF Inv, PoolOK, Shaped
<1>3. PICK b : b = Bound(Method(i), Given(Method(i), ParamsOf(task[i].msg)))
  OBVIOUS
<1>4. \/ /\ task' = [task EXCEPT ![i].at = "running", ![i].bound = b]
         /\ UNCHANGED <<queue, hung>>
      \/ /\ task' = [task EXCEPT ![i].at = "queued", ![i].bound = b]
         /\ queue' = Append(queue, i) /\ UNCHANGED hung
      \/ hung' = TRUE /\ UNCHANGED <<task, queue>>
  BY <1>3 DEF Call
<1>5. ASSUME NEW at \in {"running", "queued"},
             task' = [task EXCEPT ![i].at = at, ![i].bound = b]
      PROVE  /\ task'[i].at = at /\ TaskOK(i)' /\ Shaped'
             /\ \A j \in Tasks \ {i} : task'[j] = task[j]
  <2>1. /\ task'[i].at = at /\ task'[i].ended = task[i].ended
        /\ task'[i].msg = task[i].msg /\ Shaped'
        /\ \A j \in Tasks \ {i} : task'[j] = task[j]
    BY <1>2, <1>5 DEF Shaped
  <2> QED
    BY <1>1, <1>2, <2>1 DEF TaskOK
<1>6. CASE /\ task' = [task EXCEPT ![i].at = "running", ![i].bound = b]
           /\ UNCHANGED <<queue, hung>>
  BY <1>1, <1>2, <1>5, <1>6, LoopKeeps
<1>7. CASE /\ task' = [task EXCEPT ![i].at = "queued", ![i].bound = b]
           /\ queue' = Append(queue, i) /\ UNCHANGED hung
  <2>1. /\ task'[i].at = "queued" /\ TaskOK(i)' /\ Shaped'
        /\ \A j \in Tasks \ {i} : task'[j] = task[j]
    BY <1>5, <1>7
  <2>2. \A j \in Tasks : TaskOK(j)'
    <3> SUFFICES ASSUME NEW j \in Tasks, j # i PROVE TaskOK(j)'
      BY <2>1
    <3>1. TaskOK(j) /\ task'[j] = task[j] /\ reply'[j] = reply[j]
      BY <1>1, <2>1 DEF Inv
    <3> QED
      BY <3>1, OthersKeep
  <2>3. \A j \in Tasks : InThread(j)' => InThread(j)
    BY <2>1 DEF InThread
  <2>4. PoolOK'
    BY <1>1, <1>2, <1>7, <2>3, PoolKeeps
  <2>5. /\ queue \in Seq(Tasks) /\ Len(queue) \in Nat
        /\ DOMAIN queue = 1..Len(queue)
        /\ \A a \in 1..Len(queue) : queue[a] \in Tasks
        /\ \A a, c \in 1..Len(queue) : queue[a] = queue[c] => a = c
        /\ Elements(queue) = {j \in Tasks : At(j, "queued")}
    BY <1>2, LenProperties, ElementOfSeq DEF QueueOK
  <2>6. \A a \in 1..Len(queue) : queue[a] # i
    <3>1. \A a \in 1..Len(queue) : At(queue[a], "queued")
      BY <2>5 DEF Elements
    <3> QED
      BY <1>1, <3>1 DEF At
  <2>7. /\ queue' \in Seq(Tasks) /\ Len(queue') = Len(queue) + 1
        /\ DOMAIN queue' = 1..Len(queue')
        /\ \A a \in 1..Len(queue) : queue'[a] = queue[a]
        /\ queue'[Len(queue) + 1] = i
    BY <1>7, <2>5
  <2>8. \A a, c \in 1..Len(queue') : queue'[a] = queue'[c] => a = c
    BY <2>5, <2>6, <2>7
  <2>9. Elements(queue)' = Elements(queue) \cup {i}
    <3>1. Elements(queue)' = {queue'[a] : a \in 1..Len(queue')}
      BY <2>7 DEF Elements
    <3>2. Elements(queue) = {queue[a] : a \in 1..Len(queue)}
      BY <2>5 DEF Elements
    <3>3. 1..Len(queue') = 1..Len(queue) \cup {Len(queue) + 1}
      BY <2>5, <2>7
    <3> QED
      BY <2>7, <3>1, <3>2, <3>3
  <2>10. Elements(queue)' = {j \in Tasks : At(j, "queued")'}
    BY <2>1, <2>5, <2>9 DEF At
  <2>11. QueueOK'
    BY <2>7, <2>8, <2>10 DEF QueueOK
  <2> QED
    BY <2>1, <2>2, <2>4, <2>11 DEF Inv
<1>8. CASE hung' = TRUE /\ UNCHANGED <<task, queue>>
  <2>1. /\ Shaped' /\ TaskOK(i)'
        /\ \A j \in Tasks \ {i} : task'[j] = task[j] /\ reply'[j] = reply[j]
    BY <1>1, <1>2, <1>8, OthersKeep DEF Shaped
  <2> QED
    BY <1>1, <1>8, <2>1, LoopKeeps
<1> QED
  BY <1>4, <1>6, <1>7, <1>8

(* A thread that is free takes the first job of the queue.                 *)
LEMMA TakeKeeps ==
  ASSUME Inv, NEW i \in Tasks, Take(i) PROVE Inv'
<1>1. /\ queue # <<>> /\ Head(queue) = i /\ Busy < workers
      /\ queue' = Tail(queue) /\ UNCHANGED <<workers, reply, hung>>
      /\ \E at \in {"thread", "asking", "stuck"} :
           task' = [task EXCEPT ![i].at = at]
  BY DEF Take, Goes
<1>2. /\ Shaped /\ TaskOK(i) /\ QueueOK /\ PoolOK /\ DOMAIN reply' = Tasks
  BY <1>1 DEF Inv, Shaped
<1>3. /\ queue \in Seq(Tasks) /\ Len(queue) \in Nat
      /\ DOMAIN queue = 1..Len(queue)
      /\ \A a \in 1..Len(queue) : queue[a] \in Tasks
      /\ \A a, c \in 1..Len(queue) : queue[a] = queue[c] => a = c
      /\ Elements(queue) = {j \in Tasks : At(j, "queued")}
  BY <1>2, LenProperties, ElementOfSeq DEF QueueOK
<1>4. /\ queue' \in Seq(Tasks) /\ Len(queue') = Len(queue) - 1
      /\ Len(queue) # 0 /\ DOMAIN queue' = 1..Len(queue')
      /\ queue[1] = i
      /\ \A a \in 1..Len(queue') : queue'[a] = queue[a + 1]
  BY <1>1, <1>3, EmptySeq, HeadTailProperties, LenProperties
<1>5. task[i].at = "queued"
  <2>1. i \in Elements(queue)
    BY <1>3, <1>4 DEF Elements
  <2> QED
    BY <1>3, <2>1 DEF At
<1>6. /\ task'[i].at \in {"thread", "asking", "stuck"}
      /\ task'[i].ended = task[i].ended
      /\ task'[i].msg = task[i].msg /\ Shaped'
      /\ \A j \in Tasks \ {i} : task'[j] = task[j]
  BY <1>1, <1>2 DEF Shaped
<1>7. TaskOK(i)'
  BY <1>1, <1>2, <1>5, <1>6 DEF TaskOK
<1>8. \A j \in Tasks : TaskOK(j)'
  <2> SUFFICES ASSUME NEW j \in Tasks, j # i PROVE TaskOK(j)'
    BY <1>7
  <2>1. TaskOK(j) /\ task'[j] = task[j] /\ reply'[j] = reply[j]
    BY <1>1, <1>6 DEF Inv
  <2> QED
    BY <2>1, OthersKeep
<1>9. PoolOK'
  <2> DEFINE S == {j \in Tasks : InThread(j)}
             T == {j \in Tasks : InThread(j)'}
  <2>1. T = S \cup {i} /\ i \notin S
    BY <1>5, <1>6 DEF InThread
  <2>2. /\ IsFiniteSet(S) /\ Cardinality(S) < workers /\ workers \in Nat
        /\ hung \in BOOLEAN /\ workers \in PoolSizes
    BY <1>1, <1>2, DispatchAssumption DEF PoolOK, Busy
  <2>3. Busy' = Cardinality(T) /\ {j \in Tasks : InThread(j)}' = T
    BY DEF Busy
  <2> HIDE DEF S, T
  <2>4. IsFiniteSet(T) /\ Cardinality(T) <= workers
    <3>1. IsFiniteSet(T) /\ Cardinality(T) = Cardinality(S) + 1
      BY <2>1, <2>2, FS_AddElement
    <3>2. Cardinality(S) \in Nat
      BY <2>2, FS_CardinalityType
    <3> QED
      BY <2>2, <3>1, <3>2
  <2> QED
    BY <1>1, <2>2, <2>3, <2>4 DEF PoolOK
<1>10. QueueOK'
  <2>1. \A a, c \in 1..Len(queue') : queue'[a] = queue'[c] => a = c
    BY <1>3, <1>4
  <2>2. Elements(queue)' = Elements(queue) \ {i}
    <3>1. Elements(queue)' = {queue'[a] : a \in 1..Len(queue')}
      BY <1>4 DEF Elements
    <3>2. Elements(queue) = {queue[a] : a \in 1..Len(queue)}
      BY <1>3 DEF Elements
    <3>3. \A a \in 1..Len(queue') :
            queue'[a] \in Elements(queue) /\ queue'[a] # i
      BY <1>3, <1>4, <3>2
    <3>4. ASSUME NEW a \in 1..Len(queue), queue[a] # i
          PROVE  queue[a] \in Elements(queue)'
      <4>1. a - 1 \in 1..Len(queue') /\ queue'[a - 1] = queue[a]
        BY <1>3, <1>4, <3>4
      <4> QED
        BY <3>1, <4>1
    <3> QED
      BY <3>1, <3>2, <3>3, <3>4
  <2>3. Elements(queue)' = {j \in Tasks : At(j, "queued")'}
    BY <1>3, <1>6, <2>2 DEF At
  <2> QED
    BY <1>4, <2>1, <2>3 DEF QueueOK
<1> QED
  BY <1>6, <1>8, <1>9, <1>10 DEF Inv

(* A thread that gets its answer goes on, one whose method ends is free.   *)
LEMMA ThreadKeeps ==
  ASSUME Inv, NEW i \in Tasks, ClientAnswers(i) \/ ThreadEnds(i)
  PROVE  Inv'
<1>1. /\ Shaped /\ TaskOK(i) /\ QueueOK /\ PoolOK /\ hung \in BOOLEAN
      /\ UNCHANGED <<workers, reply, queue, hung>>
  BY DEF ClientAnswers, ThreadEnds, Inv, PoolOK
<1>2. /\ task[i].at \in {"thread", "asking"}
      /\ task'[i].at \in {"thread", "resolved", "lost"}
      /\ task'[i].at = "thread" => task'[i].ended = task[i].ended
      /\ task'[i].at # "thread" => task'[i].ended \in Endings
      /\ task'[i].msg = task[i].msg /\ Shaped'
      /\ \A j \in Tasks \ {i} : task'[j] = task[j]
  <2>1. CASE ClientAnswers(i)
    BY <1>1, <2>1 DEF ClientAnswers, At, Goes, Shaped
  <2>2. CASE ThreadEnds(i)
    <3>1. PICK how \in Method(i).ends :
            task' = [task EXCEPT ![i].ended = how,
                       ![i].at = IF how = "StopIteration" THEN "lost"
                                                          ELSE "resolved"]
      BY <2>2 DEF ThreadEnds
    <3>2. task[i].at = "thread" /\ Requested(task[i].msg)
      BY <1>1, <2>2 DEF ThreadEnds, At, TaskOK
    <3>3. how \in Endings
      BY <3>1, <3>2, MethodsAssumption DEF Method, Requested
    <3> QED
      BY <1>1, <3>1, <3>2, <3>3 DEF Shaped
  <2> QED
    BY <2>1, <2>2
<1>3. TaskOK(i)'
  BY <1>1, <1>2 DEF TaskOK
<1>4. \A j \in Tasks : TaskOK(j)'
  <2> SUFFICES ASSUME NEW j \in Tasks, j # i PROVE TaskOK(j)'
    BY <1>3
  <2>1. TaskOK(j) /\ task'[j] = task[j] /\ reply'[j] = reply[j]
    BY <1>1, <1>2 DEF Inv
  <2> QED
    BY <2>1, OthersKeep
<1>5. \A j \in Tasks : InThread(j)' => InThread(j)
  BY <1>2 DEF InThread
<1>6. \A j \in Tasks : At(j, "queued")' <=> At(j, "queued")
  BY <1>2 DEF At
<1>7. PoolOK'
  BY <1>1, <1>5, PoolKeeps
<1>8. QueueOK'
  BY <1>1, <1>6, QueueKeeps
<1> QED
  BY <1>2, <1>4, <1>7, <1>8 DEF Inv

(* Every step keeps the invariant.                                         *)
LEMMA InvNext == Inv /\ [Next]_vars => Inv'
<1> SUFFICES ASSUME Inv, [Next]_vars PROVE Inv'
  OBVIOUS
<1>1. ASSUME NEW i \in Tasks, Arrive(i) PROVE Inv'
  BY <1>1, ArriveKeeps
<1>2. ASSUME NEW i \in Tasks, Loop(i) PROVE Inv'
  BY <1>2, RejectKeeps, AnsweringKeeps, CallKeeps DEF Loop
<1>3. ASSUME NEW i \in Tasks, Pool(i) PROVE Inv'
  BY <1>3, TakeKeeps, ThreadKeeps DEF Pool
<1>4. CASE UNCHANGED vars
  <2>1. UNCHANGED <<workers, task, reply, queue, hung>>
    BY <1>4 DEF vars
  <2>2. Shaped' /\ \A i \in Tasks : TaskOK(i)'
    BY <2>1, OthersKeep DEF Inv, Shaped
  <2>3. QueueOK' /\ PoolOK'
    BY <2>1 DEF Inv, QueueOK, Elements, At, PoolOK, Busy, InThread
  <2> QED
    BY <2>2, <2>3 DEF Inv
<1> QED
  BY <1>1, <1>2, <1>3, <1>4 DEF Next

-----------------------------------------------------------------------------
(* The properties.                                                         *)

(* The invariant lasts.                                                    *)
LEMMA InvLasts == Spec => []Inv
BY InvInit, InvNext, PTL DEF Spec

(* A reply comes from a refusal or from a call that has ended.             *)
LEMMA RepliesHaveReasons ==
  ASSUME Inv, NEW i \in Tasks, reply[i] # Missing
  PROVE  /\ task[i].msg \in Texts(i)
         /\ Refused(i) \/ Replied(i, task[i].ended)
         /\ task[i].ended \in Endings \cup {"no call"}
BY DEF Inv, TaskOK, Outcome, Unheard, Refused, Replied

(* Variables have their types, a thread has one job, and the jobs that wait*)
(* are those in the queue, for any size of the pool.                       *)
THEOREM TypeCorrect == Spec => []TypeOK
<1>1. ASSUME Inv PROVE TypeOK
  <2>1. \A i \in Tasks :
          /\ task[i].at \in {"none", "new", "running", "queued", "thread",
                             "asking", "stuck", "resolved", "lost", "done"}
          /\ task[i].ended \in Endings \cup {"not", "no call"}
          /\ reply[i] # Missing => At(i, "done")
    BY <1>1 DEF Inv, TaskOK, At
  <2> QED
    BY <1>1, <2>1 DEF Inv, PoolOK, QueueOK, TypeOK
<1> QED
  BY <1>1, InvLasts, PTL

(* The client understands each reply that the server encodes as one to its *)
(* message, unless the message has no id that can be read, or the error no *)
(* code of the table; whatever texts clients send and however methods end. *)
(* Of what a method with a raw response returns this says nothing.         *)
THEOREM RepliesUnderstood == Spec => []AnswersUnderstood
<1>1. ASSUME Inv PROVE AnswersUnderstood
  <2> SUFFICES ASSUME NEW i \in Tasks, reply[i] # Missing,
                      ~RawResponse(i)
               PROVE  LET d == Decode(reply[i]) IN
                      d.type \in {"result", "error"} /\ d.id = IdOf(i)
                        <=> /\ IdOf(i) # Null
                            /\ task[i].ended \notin {"noCode", "badCode"}
    BY DEF AnswersUnderstood
  <2> DEFINE m == task[i].msg
             r == reply[i]
             Uncoded == task[i].ended \in {"noCode", "badCode"}
  <2>1. /\ m \in Texts(i)
        /\ Refused(i) \/ Replied(i, task[i].ended)
    BY <1>1, RepliesHaveReasons
  <2>2. m.json \in {"object", "garbage", "scalar"}
    BY <2>1, TextsAssumption
  <2>3. IdOf(i) = KnownId(m)
    BY DEF IdOf, KnownId
  <2>4. CASE Refused(i)
    <3>1. PICK class, id :
            /\ class \in DOMAIN Standard /\ id = Decode(m).id
            /\ r = EncodeError([class |-> class, code |-> Standard[class],
                                data |-> Null, msg_id |-> id], Null)
      BY <2>4 DEF Refused, StandardError
    <3>2. /\ id # Missing /\ (id = KnownId(m) \/ KnownId(m) = Null)
          /\ task[i].ended = "no call"
      <4>1. /\ Decode(m).class # "TypeError" /\ task[i].ended = "no call"
        BY <2>4 DEF Refused
      <4>2. /\ Decode(m).id # Missing
            /\ Decode(m).class # "TypeError" =>
                 Decode(m).id = KnownId(m) \/ KnownId(m) = Null
        BY <2>2, DecodeOutcome
      <4> QED
        BY <3>1, <4>1, <4>2
    <3>3. IfNone(IfNone(Null, id), Missing) = IF id = Null THEN Missing ELSE id
      BY DEF IfNone
    <3>4. Standard[class] \in Codes /\ Standard[class] \in SentCodes
      BY <3>1, CodesAreNumbers DEF SentCodes
    <3>5. /\ id = Null => Decode(r).type = "raises"
          /\ id # Null => Decode(r).type = "error" /\ Decode(r).id = id
      <4>1. PICK c, y : /\ c = Standard[class]
                        /\ y = IfNone(IfNone(Null, id), Missing)
        OBVIOUS
      <4>2. PICK rt : rt = r
        OBVIOUS
      <4>3. /\ y = Missing \/ c \notin Codes => Decode(rt).type = "raises"
            /\ y # Missing /\ c \in Codes =>
                 Decode(rt).type = "error" /\ Decode(rt).id = y
        BY <3>1, <3>4, <4>1, <4>2, ErrorDecodes
      <4> QED
        BY <3>2, <3>3, <3>4, <4>1, <4>2, <4>3
    <3> QED
      BY <2>3, <3>2, <3>5
  <2>5. ASSUME Requested(m)
        PROVE  /\ m.id # Null /\ m.id # Missing /\ KnownId(m) = m.id
    BY <2>2, <2>5, DecodeOutcome DEF Requested
  <2>6. ASSUME Requested(m), NEW class, NEW c \in SentCodes,
               NEW x, NEW id, IfNone(IfNone(id, x), Missing) = m.id,
               c \notin Codes <=> Uncoded,
               r = EncodeError([class |-> class, code |-> c, data |-> Null,
                                msg_id |-> x], id)
        PROVE  LET d == Decode(r) IN
               d.type \in {"result", "error"} /\ d.id = IdOf(i)
                 <=> IdOf(i) # Null /\ ~Uncoded
    <3>1. /\ c \notin Codes => Decode(r).type = "raises"
          /\ c \in Codes => Decode(r).type = "error" /\ Decode(r).id = m.id
      BY <2>5, <2>6, ErrorDecodes
    <3> QED
      BY <2>3, <2>5, <2>6, <3>1
  <2>7. ASSUME NEW how, Replied(i, how)
        PROVE  LET d == Decode(r) IN
               d.type \in {"result", "error"} /\ d.id = IdOf(i)
                 <=> IdOf(i) # Null /\ ~Uncoded
    <3>1. Requested(m) /\ task[i].ended = how /\ m.id # Null
      BY <2>5, <2>7 DEF Replied
    <3>2. CASE how = "value" /\ r = EncodeResult(m.id, "value")
      <4>1. Decode(r).type = "result" /\ Decode(r).id = m.id
        BY <2>5, <3>1, <3>2, ResultDecodes
      <4> QED
        BY <2>3, <2>5, <3>1, <3>2, <4>1
    <3>3. ~(how = "value" /\ Methods[m.method].raw)
      BY <3>1 DEF RawResponse, Method
    <3>4. CASE how \in DOMAIN Handled /\ r = EncodeError(Handled[how], m.id)
      <4>1. IfNone(IfNone(m.id, Null), Missing) = m.id
        BY <3>1 DEF IfNone
      <4>2. PICK class, c :
              class = Handled[how].class /\ c = Handled[how].code
        OBVIOUS
      <4>3. /\ c \in SentCodes
            /\ c \notin Codes <=> how \in {"noCode", "badCode"}
            /\ Handled[how] = [class |-> class, code |-> c, data |-> Null,
                               msg_id |-> Null]
        BY <3>4, <4>2, HandledErrors
      <4>4. r = EncodeError([class |-> class, code |-> c, data |-> Null,
                             msg_id |-> Null], m.id)
        BY <3>4, <4>3
      <4> QED
        BY <2>6, <3>1, <4>1, <4>3, <4>4
    <3>5. CASE /\ how \in Others
               /\ r = EncodeError(StandardError("RpcInternalError", m.id),
                                  Null)
      <4>1. IfNone(IfNone(Null, m.id), Missing) = m.id
        BY <3>1 DEF IfNone
      <4>2. PICK c : c = Standard["RpcInternalError"]
        OBVIOUS
      <4>3. c \in Codes /\ c \in SentCodes
        BY <4>2, InternalError DEF SentCodes
      <4>4. r = EncodeError([class |-> "RpcInternalError", code |-> c,
                             data |-> Null, msg_id |-> m.id], Null)
        BY <3>5, <4>2 DEF StandardError
      <4>5. c \notin Codes <=> Uncoded
        BY <3>1, <3>5, <4>3 DEF Others
      <4>6. Requested(m) /\ c \in SentCodes
        BY <3>1, <4>3
      <4> QED
        BY <2>6, <4>1, <4>4, <4>5, <4>6
    <3>6. how # "badData"
      <4>1. "badData" \notin DOMAIN Handled /\ "badData" \notin Others
        BY HandledErrors DEF Others
      <4> QED
        BY <2>7, <4>1 DEF Replied
    <3> QED
      BY <2>7, <3>2, <3>3, <3>4, <3>5, <3>6 DEF Replied
  <2> QED
    BY <2>1, <2>4, <2>7
<1> QED
  BY <1>1, InvLasts, PTL

(* The caller gets the error that the method raised, if it is of the three *)
(* classes that are passed on, and an internal error for any other; an     *)
(* error of a class derived from one of the three arrives as the generic   *)
(* one, and one whose code the application has registered, whatever codes  *)
(* these are, as the application's.                                        *)
THEOREM ErrorsArrive == Spec => []ErrorsReachCaller
<1>1. ASSUME Inv PROVE ErrorsReachCaller
  <2> SUFFICES ASSUME NEW i \in Tasks, reply[i] # Missing,
                      task[i].ended \notin {"value", "noCode", "badCode",
                                              "no call"}
               PROVE  ClassOf(reply[i].error.code) =
                        ArrivesAs(Raised(task[i].ended))
    BY DEF ErrorsReachCaller
  <2> DEFINE m == task[i].msg
             how == task[i].ended
  <2>1. Replied(i, how)
    BY <1>1, RepliesHaveReasons DEF Refused
  <2>2. PICK r : r = reply[i]
    OBVIOUS
  <2>3. ASSUME NEW class, NEW c \in SentCodes, NEW x, NEW id,
               r = EncodeError([class |-> class, code |-> c, data |-> Null,
                                msg_id |-> x], id)
        PROVE  r.error.code = c
    <3> DEFINE e == [code |-> c, message |-> "text", data |-> Missing]
    <3>1. r = [json |-> "object", jsonrpc |-> "2.0",
               id |-> IfNone(IfNone(id, x), Missing), method |-> Missing,
               params |-> Missing, result |-> Missing, error |-> e]
      BY <2>3 DEF EncodeError, Object, IfNone
    <3>2. r.error = e
      BY <3>1
    <3>3. e.code = c
      OBVIOUS
    <3> QED
      BY <3>2, <3>3
  <2>4. CASE how \in DOMAIN Handled
               /\ reply[i] = EncodeError(Handled[how], m.id)
    <3>1. PICK class, c :
            class = Handled[how].class /\ c = Handled[how].code
      OBVIOUS
    <3>2. /\ c \in SentCodes
          /\ how \notin {"noCode", "badCode"} =>
               ClassOf(c) = ArrivesAs(Handled[how])
          /\ Handled[how] = [class |-> class, code |-> c, data |-> Null,
                             msg_id |-> Null]
      BY <2>4, <3>1, HandledErrors
    <3>3. PICK id : id = m.id
      OBVIOUS
    <3>4. r = EncodeError([class |-> class, code |-> c, data |-> Null,
                           msg_id |-> Null], id)
      BY <2>2, <2>4, <3>2, <3>3
    <3>5. r.error.code = c
      BY <3>2, <3>4, <2>3
    <3>6. reply[i].error.code = c
      BY <2>2, <3>5
    <3> QED
      BY <2>4, <3>1, <3>2, <3>6 DEF Raised
  <2>5. CASE /\ how \in Others
             /\ reply[i] =
                  EncodeError(StandardError("RpcInternalError", m.id), Null)
    <3>1. PICK c : c = Standard["RpcInternalError"]
      OBVIOUS
    <3>2. reply[i].error.code = c
      <4>1. PICK id : id = m.id
        OBVIOUS
      <4>2. r = EncodeError([class |-> "RpcInternalError", code |-> c,
                             data |-> Null, msg_id |-> id], Null)
        BY <2>2, <2>5, <3>1, <4>1 DEF StandardError
      <4>3. r.error.code = c
        BY <3>1, <4>2, InternalError, <2>3 DEF SentCodes
      <4> QED
        BY <2>2, <4>3
    <3>3. how \notin DOMAIN Handled
      BY <2>5, HandledErrors DEF Others
    <3> QED
      BY <3>1, <3>2, <3>3, InternalError DEF Raised
  <2> QED
    BY <2>1, <2>4, <2>5 DEF Replied
<1> QED
  BY <1>1, InvLasts, PTL

(* A message gets no reply only if it is no object, a result nobody waits  *)
(* for, or an error with a code that has no hash; or if its method raised  *)
(* an error with data that cannot be encoded, or a StopIteration in a      *)
(* thread.                                                                 *)
THEOREM SilenceHasReasons == Spec => []SilenceExplained
<1>1. ASSUME Inv PROVE SilenceExplained
  <2> SUFFICES ASSUME NEW i \in Tasks, task[i].at = "done",
                      reply[i] = Missing
               PROVE  \/ Decode(task[i].msg).type = "result"
                      \/ Decode(task[i].msg).class = "TypeError"
                      \/ task[i].ended = "badData"
    BY DEF SilenceExplained, At
  <2> DEFINE m == task[i].msg
  <2>1. Outcome(i) /\ m \in Texts(i)
    BY <1>1 DEF Inv, TaskOK
  <2>2. m.json \in {"object", "garbage", "scalar"}
    BY <2>1, TextsAssumption
  <2>3. \A r : r = reply[i] =>
          ~\E class, x, id : \E c \in SentCodes :
             /\ x \in {m.id, Null} /\ id \in {m.id, Null}
             /\ r = EncodeError([class |-> class, code |-> c, data |-> Null,
                                 msg_id |-> x], id)
    BY <2>1, RepliesAreTexts
  <2>4. reply[i] # EncodeResult(m.id, "value") /\ reply[i] \notin RawTexts(i)
    BY <2>1, RepliesAreTexts
  <2>5. CASE Unheard(i)
    BY <2>5 DEF Unheard
  <2>6. ~Refused(i)
    <3>1. Decode(m).id \in {m.id, Null}
      BY <2>2, DecodeOutcome
    <3>2. \A class \in DOMAIN Standard : Standard[class] \in SentCodes
      BY CodesAreNumbers DEF SentCodes
    <3> QED
      BY <2>3, <3>1, <3>2 DEF Refused, StandardError
  <2>7. ASSUME NEW how \in Endings, Replied(i, how) PROVE how = "badData"
    <3>1. ~(how \in DOMAIN Handled
              /\ reply[i] = EncodeError(Handled[how], m.id))
      <4> SUFFICES ASSUME how \in DOMAIN Handled,
                          reply[i] = EncodeError(Handled[how], m.id)
                   PROVE  FALSE
        OBVIOUS
      <4>1. PICK class, c :
              class = Handled[how].class /\ c = Handled[how].code
        OBVIOUS
      <4>2. /\ c \in SentCodes
            /\ Handled[how] = [class |-> class, code |-> c, data |-> Null,
                               msg_id |-> Null]
        BY <4>1, HandledErrors
      <4> QED
        BY <2>3, <4>2
    <3>2. reply[i] # EncodeError(StandardError("RpcInternalError", m.id), Null)
      BY <2>3, InternalError DEF StandardError, SentCodes
    <3> QED
      BY <2>4, <2>7, <3>1, <3>2 DEF Replied
  <2> QED
    BY <2>1, <2>5, <2>6, <2>7 DEF Outcome, Replied
<1> QED
  BY <1>1, InvLasts, PTL

-----------------------------------------------------------------------------
(* The arguments of a method.                                              *)

(* A set of natural numbers that is not empty has a least element.         *)
LEMMA LeastOf ==
  ASSUME NEW I \in SUBSET Nat, I # {}
  PROVE  \E x \in I : \A y \in I : x <= y
<1>1. \E x \in I : \A y \in I : ~ (<<y, x>> \in OpToRel(<, Nat))
  BY NatLessThanWellFounded, WFMin
<1>2. \A x, y \in Nat : y < x => <<y, x>> \in OpToRel(<, Nat)
  BY DEF OpToRel
<1>3. PICK x \in I : \A y \in I : ~ (<<y, x>> \in OpToRel(<, Nat))
  BY <1>1
<1>4. ASSUME NEW y \in I, ~ (x <= y) PROVE FALSE
  <2>1. y < x /\ x \in Nat /\ y \in Nat
    BY <1>4
  <2> QED
    BY <1>2, <1>3, <2>1
<1> QED
  BY <1>3, <1>4

(* What becomes of the arguments up to n when the hidden ones are dropped, *)
(* one by one.                                                             *)
Following(args, i, q) == IF args[i] \in Hidden THEN q ELSE Append(q, args[i])
Keeps(kept, args, n) ==
  kept = [i \in 0..n |-> IF i = 0 THEN <<>>
                         ELSE IF args[i] \in Hidden THEN kept[i - 1]
                         ELSE Append(kept[i - 1], args[i])]

(* The recursion defines a function.                                       *)
LEMMA KeptExists ==
  ASSUME NEW args, NEW n \in Nat
  PROVE  \E kept : Keeps(kept, args, n)
<1> SUFFICES ASSUME \A kept : ~Keeps(kept, args, n) PROVE FALSE
  OBVIOUS
<1> DEFINE Bad == {k \in Nat : \A kept : ~Keeps(kept, args, k)}
<1>1. n \in Bad /\ Bad \in SUBSET Nat
  OBVIOUS
<1>2. PICK k \in Bad : \A y \in Bad : k <= y
  BY <1>1, LeastOf
<1>3. k \in Nat /\ \A kept : ~Keeps(kept, args, k)
  BY <1>2
<1>4. CASE k = 0
  <2>1. PICK f : f = [i \in 0..0 |-> <<>>]
    OBVIOUS
  <2>2. f = [i \in 0..0 |-> IF i = 0 THEN <<>>
                            ELSE IF args[i] \in Hidden THEN f[i - 1]
                            ELSE Append(f[i - 1], args[i])]
    BY <2>1
  <2>3. Keeps(f, args, 0)
    BY <2>2 DEF Keeps
  <2> QED
    BY <1>3, <1>4, <2>3
<1>5. CASE k # 0
  <2>1. k - 1 \in Nat /\ k - 1 \notin Bad
    BY <1>2, <1>3, <1>5
  <2>2. PICK f : Keeps(f, args, k - 1)
    BY <2>1
  <2> DEFINE last == Following(args, k, f[k - 1])
             g == [i \in 0..k |-> IF i = k THEN last ELSE f[i]]
             r == [i \in 0..k |-> IF i = 0 THEN <<>>
                                  ELSE IF args[i] \in Hidden THEN g[i - 1]
                                  ELSE Append(g[i - 1], args[i])]
  <2>3. ASSUME NEW i \in 0..k PROVE g[i] = r[i]
    <3>1. CASE i = k
      <4>1. i # 0 /\ i - 1 \in 0..k /\ i - 1 # k
        BY <1>3, <1>5, <3>1
      <4>2. g[i - 1] = f[k - 1]
        BY <3>1, <4>1
      <4>3. g[i] = last
        BY <3>1
      <4>4. r[i] = Following(args, k, f[k - 1])
        BY <3>1, <4>1, <4>2 DEF Following
      <4> QED
        BY <4>3, <4>4
    <3>2. CASE i # k
      <4>1. i \in 0..(k - 1)
        BY <1>3, <3>2
      <4>2. f[i] = IF i = 0 THEN <<>>
                   ELSE IF args[i] \in Hidden THEN f[i - 1]
                   ELSE Append(f[i - 1], args[i])
        BY <2>2, <4>1 DEF Keeps
      <4>3. i # 0 => i - 1 \in 0..k /\ i - 1 # k
        BY <1>3, <4>1
      <4>4. i # 0 => g[i - 1] = f[i - 1]
        BY <4>3
      <4> QED
        BY <3>2, <4>2, <4>4
    <3> QED
      BY <3>1, <3>2
  <2>4. g = r
    BY <2>3
  <2>5. Keeps(g, args, k)
    BY <2>4 DEF Keeps
  <2> QED
    BY <1>3, <2>5
<1> QED
  BY <1>4, <1>5

(* What it comes to, argument by argument.                                 *)
LEMMA ArgsAreKept ==
  ASSUME NEW sig, IsSignature(sig)
  PROVE  \E kept :
           /\ Args(sig) = kept[Len(sig.args)] /\ kept[0] = <<>>
           /\ \A i \in 1..Len(sig.args) :
                kept[i] = Following(sig.args, i, kept[i - 1])
<1>1. sig.args \in Seq(STRING) /\ Len(sig.args) \in Nat
  BY LenProperties DEF IsSignature
<1>2. \E kept : Keeps(kept, sig.args, Len(sig.args))
  BY <1>1, KeptExists
<1>3. PICK K : K = CHOOSE kept : Keeps(kept, sig.args, Len(sig.args))
  OBVIOUS
<1>4. Keeps(K, sig.args, Len(sig.args))
  BY <1>2, <1>3
<1>5. Args(sig) = K[Len(sig.args)]
  BY <1>3 DEF Args, Keeps
<1>6. K[0] = <<>>
  BY <1>1, <1>4 DEF Keeps
<1>7. ASSUME NEW i \in 1..Len(sig.args)
      PROVE  K[i] = Following(sig.args, i, K[i - 1])
  <2>1. i \in 0..Len(sig.args) /\ i # 0
    BY <1>1
  <2>2. PICK n, args : n = Len(sig.args) /\ args = sig.args
    OBVIOUS
  <2>3. K = [j \in 0..n |-> IF j = 0 THEN <<>>
                            ELSE IF args[j] \in Hidden THEN K[j - 1]
                            ELSE Append(K[j - 1], args[j])]
    BY <1>4, <2>2 DEF Keeps
  <2>4. K[i] = IF i = 0 THEN <<>>
               ELSE IF args[i] \in Hidden THEN K[i - 1]
               ELSE Append(K[i - 1], args[i])
    BY <2>1, <2>2, <2>3, Zenon
  <2> QED
    BY <2>1, <2>2, <2>4 DEF Following
<1> QED
  BY <1>5, <1>6, <1>7

(* They are names, in their order.                                         *)
LEMMA KeptNames ==
  ASSUME NEW kept, NEW args \in Seq(STRING), kept[0] = <<>>,
         \A i \in 1..Len(args) : kept[i] = Following(args, i, kept[i - 1])
  PROVE  \A n \in 0..Len(args) : kept[n] \in Seq(STRING)
<1> DEFINE Bad == {n \in 0..Len(args) : kept[n] \notin Seq(STRING)}
<1>1. Len(args) \in Nat /\ \A i \in 1..Len(args) : args[i] \in STRING
  BY LenProperties, ElementOfSeq
<1> SUFFICES ASSUME Bad # {} PROVE FALSE
  OBVIOUS
<1>2. Bad \in SUBSET Nat
  BY <1>1
<1>3. PICK n \in Bad : \A k \in Bad : n <= k
  BY <1>2, LeastOf
<1>4. n # 0
  BY <1>3, EmptySeq
<1>5. n \in 1..Len(args) /\ n - 1 \in 0..Len(args) /\ n - 1 \notin Bad
  BY <1>1, <1>3, <1>4
<1>6. kept[n - 1] \in Seq(STRING) /\ args[n] \in STRING
  BY <1>1, <1>5
<1>7. Append(kept[n - 1], args[n]) \in Seq(STRING)
  BY <1>6, AppendProperties
<1>8. kept[n] \in Seq(STRING)
  BY <1>5, <1>6, <1>7 DEF Following
<1> QED
  BY <1>3, <1>8

(* From an argument on after which none is hidden, all are there.          *)
LEMMA KeptEnd ==
  ASSUME NEW kept, NEW args \in Seq(STRING), NEW first \in 0..Len(args),
         \A n \in 0..Len(args) : kept[n] \in Seq(STRING),
         \A i \in 1..Len(args) : kept[i] = Following(args, i, kept[i - 1]),
         \A i \in (first + 1)..Len(args) : args[i] \notin Hidden
  PROVE  \A e \in 0..(Len(args) - first) :
           /\ Len(kept[first + e]) = Len(kept[first]) + e
           /\ \A i \in 1..e :
                kept[first + e][Len(kept[first]) + i] = args[first + i]
<1> DEFINE Fine(e) ==
             /\ Len(kept[first + e]) = Len(kept[first]) + e
             /\ \A i \in 1..e :
                  kept[first + e][Len(kept[first]) + i] = args[first + i]
           Bad == {e \in 0..(Len(args) - first) : ~Fine(e)}
<1>1. /\ Len(args) \in Nat /\ first \in Nat /\ first <= Len(args)
      /\ kept[first] \in Seq(STRING) /\ Len(kept[first]) \in Nat
      /\ \A i \in 1..Len(args) : args[i] \in STRING
  <2>1. Len(args) \in Nat /\ \A i \in 1..Len(args) : args[i] \in STRING
    BY LenProperties, ElementOfSeq
  <2>2. kept[first] \in Seq(STRING)
    OBVIOUS
  <2>3. Len(kept[first]) \in Nat
    BY <2>2, LenProperties
  <2> QED
    BY <2>1, <2>2, <2>3
<1> SUFFICES ASSUME Bad # {} PROVE FALSE
  OBVIOUS
<1>2. Bad \in SUBSET Nat
  BY <1>1
<1>3. PICK e \in Bad : \A k \in Bad : e <= k
  BY <1>2, LeastOf
<1>4. e # 0
  <2>1. first + 0 = first
    BY <1>1
  <2>2. Fine(0)
    BY <1>1, <2>1
  <2> QED
    BY <1>3, <2>2
<1>5. /\ e - 1 \in 0..(Len(args) - first) /\ e - 1 \notin Bad
      /\ first + e \in (first + 1)..Len(args) /\ first + e \in 1..Len(args)
      /\ (first + e) - 1 = first + (e - 1) /\ e \in Nat
      /\ first + (e - 1) \in 0..Len(args)
  <2>1. e \in 0..(Len(args) - first)
    BY <1>3
  <2>2. /\ e - 1 \in 0..(Len(args) - first) /\ e \in Nat /\ ~(e <= e - 1)
        /\ first + e \in (first + 1)..Len(args) /\ first + e \in 1..Len(args)
        /\ (first + e) - 1 = first + (e - 1)
        /\ first + (e - 1) \in 0..Len(args)
    BY <1>1, <1>4, <2>1
  <2>3. e - 1 \notin Bad
    BY <1>3, <2>2
  <2> QED
    BY <2>2, <2>3
<1>6. Fine(e - 1)
  BY <1>5
<1> DEFINE m == Len(kept[first])
<1>7. PICK q, r, a : /\ q = kept[first + (e - 1)] /\ r = kept[first + e]
                     /\ a = args[first + e]
  OBVIOUS
<1>8. q \in Seq(STRING) /\ a \in STRING /\ r = Append(q, a) /\ m \in Nat
  BY <1>1, <1>5, <1>7 DEF Following
<1>9. Len(q) = m + (e - 1)
      /\ \A i \in 1..(e - 1) : q[m + i] = args[first + i]
  BY <1>6, <1>7
<1> HIDE DEF m
<1>10. /\ Len(r) = Len(q) + 1 /\ r[Len(q) + 1] = a
       /\ \A i \in 1..Len(q) : r[i] = q[i]
  <2>1. PICK S : S = STRING
    OBVIOUS
  <2>3. q \in Seq(S) /\ a \in S
    BY <1>8, <2>1
  <2>2. /\ Len(Append(q, a)) = Len(q) + 1 /\ Append(q, a)[Len(q) + 1] = a
        /\ \A i \in 1..Len(q) : Append(q, a)[i] = q[i]
    BY <2>3, AppendProperties
  <2> QED
    BY <1>8, <2>2
<1>11. Len(r) = m + e
  BY <1>5, <1>8, <1>9, <1>10
<1>12. ASSUME NEW i \in 1..e PROVE r[m + i] = args[first + i]
  <2>1. CASE i = e
    <3>1. m + i = Len(q) + 1
      BY <1>5, <1>8, <1>9, <2>1
    <3> QED
      BY <1>7, <1>10, <2>1, <3>1
  <2>2. CASE i # e
    <3>1. i \in 1..(e - 1) /\ m + i \in 1..Len(q)
      BY <1>5, <1>8, <1>9, <2>2
    <3> QED
      BY <1>9, <1>10, <3>1
  <2> QED
    BY <2>1, <2>2
<1>13. Fine(e)
  BY <1>7, <1>11, <1>12 DEF m
<1> QED
  BY <1>3, <1>13

(* The last d arguments are among those that a caller gives, and the last. *)
NoneHidden(args, d) ==
  \A i \in (Len(args) - d + 1)..Len(args) : args[i] \notin Hidden
SameEnd(a, args, d) ==
  /\ a \in Seq(STRING) /\ d \in 0..Len(a)
  /\ \A i \in 1..d : a[Len(a) - d + i] = args[Len(args) - d + i]

(* The first implies the second.                                           *)
LEMMA ArgsEnd ==
  ASSUME NEW sig, IsSignature(sig), NoneHidden(sig.args, Len(sig.defaults))
  PROVE  SameEnd(Args(sig), sig.args, Len(sig.defaults))
<1>0. PICK d, l : d = Len(sig.defaults) /\ l = Len(sig.args)
  OBVIOUS
<1>1. PICK kept : /\ Args(sig) = kept[l] /\ kept[0] = <<>>
                  /\ \A i \in 1..l :
                       kept[i] = Following(sig.args, i, kept[i - 1])
  BY <1>0, ArgsAreKept
<1>2. PICK args, first : args = sig.args /\ first = l - d
  OBVIOUS
<1>3. /\ args \in Seq(STRING) /\ l = Len(args) /\ l \in Nat /\ d \in 0..l
      /\ first \in 0..l /\ l - first = d /\ first + d = l
  <2>1. args \in Seq(STRING) /\ l = Len(args) /\ d \in 0..l
    BY <1>0, <1>2 DEF IsSignature
  <2>2. l \in Nat
    BY <2>1, LenProperties
  <2>3. first = l - d
    BY <1>2
  <2>4. first \in 0..l /\ l - first = d /\ first + d = l
    BY <2>1, <2>2, <2>3
  <2> QED
    BY <2>1, <2>2, <2>4
<1>4. \A i \in 1..Len(args) : kept[i] = Following(args, i, kept[i - 1])
  BY <1>1, <1>2, <1>3
<1>5. \A n \in 0..Len(args) : kept[n] \in Seq(STRING)
  BY <1>1, <1>3, <1>4, KeptNames
<1>6. /\ \A i \in (first + 1)..Len(args) : args[i] \notin Hidden
      /\ first \in 0..Len(args)
  BY <1>0, <1>2, <1>3 DEF NoneHidden
<1>7. \A e \in 0..(Len(args) - first) :
        /\ Len(kept[first + e]) = Len(kept[first]) + e
        /\ \A i \in 1..e :
             kept[first + e][Len(kept[first]) + i] = args[first + i]
  BY <1>3, <1>4, <1>5, <1>6, KeptEnd
<1>8. /\ Len(kept[l]) = Len(kept[first]) + d
      /\ \A i \in 1..d : kept[l][Len(kept[first]) + i] = args[first + i]
  <2>1. d \in 0..(Len(args) - first)
    BY <1>3
  <2>2. /\ Len(kept[first + d]) = Len(kept[first]) + d
        /\ \A i \in 1..d :
             kept[first + d][Len(kept[first]) + i] = args[first + i]
    BY <1>7, <2>1
  <2> QED
    BY <1>3, <2>2
<1>9. kept[l] \in Seq(STRING) /\ Len(kept[first]) \in Nat
  <2>1. kept[l] \in Seq(STRING) /\ kept[first] \in Seq(STRING)
    BY <1>3, <1>5
  <2> QED
    BY <2>1, LenProperties
<1>10. Len(kept[l]) - d = Len(kept[first]) /\ d \in 0..Len(kept[l])
  <2>1. PICK x, y : x = Len(kept[l]) /\ y = Len(kept[first])
    OBVIOUS
  <2>2. x = y + d /\ y \in Nat /\ d \in Nat
    BY <1>3, <1>8, <1>9, <2>1
  <2>3. \A i, j \in Nat : (i + j) - j = i /\ j \in 0..(i + j)
    OBVIOUS
  <2>4. (y + d) - d = y /\ d \in 0..(y + d)
    BY <2>2, <2>3, Zenon
  <2>5. x - d = y /\ d \in 0..x
    BY <2>2, <2>4, Zenon
  <2> QED
    BY <2>1, <2>5, Zenon
<1>11. PICK a : a = kept[l]
  OBVIOUS
<1>12. SameEnd(a, args, d)
  BY <1>2, <1>3, <1>8, <1>9, <1>10, <1>11 DEF SameEnd
<1> QED
  BY <1>0, <1>1, <1>2, <1>11, <1>12

(* From takes the elements after the first i.                              *)
LEMMA FromTakes ==
  ASSUME NEW q, NEW S, q \in Seq(S), NEW i \in 0..Len(q)
  PROVE  /\ DOMAIN From(q, i) = 1..(Len(q) - i)
         /\ \A j \in 1..(Len(q) - i) : From(q, i)[j] = q[i + j]
<1>1. Len(q) \in Nat /\ \A j \in 1..Len(q) : q[j] \in S
  BY LenProperties, ElementOfSeq
<1>2. From(q, i) = SubSeq(q, i + 1, Len(q))
  BY <1>1 DEF From
<1>3. PICK r : r = SubSeq(q, i + 1, Len(q))
  OBVIOUS
<1>4. /\ r \in Seq(S)
      /\ Len(r) = IF i + 1 <= Len(q) THEN Len(q) - (i + 1) + 1 ELSE 0
      /\ \A j \in 1..(Len(q) - (i + 1) + 1) : r[j] = q[i + 1 + j - 1]
  <2>1. i + 1 \in Int /\ Len(q) \in Int
    BY <1>1
  <2>2. \A j \in (i + 1)..Len(q) : q[j] \in S
    BY <1>1
  <2> QED
    BY <1>3, <2>1, <2>2, SubSeqProperties
<1>5. DOMAIN r = 1..Len(r)
  BY <1>4, LenProperties
<1>6. Len(r) = Len(q) - i
  BY <1>1, <1>4
<1>7. ASSUME NEW j \in 1..(Len(q) - i) PROVE r[j] = q[i + j]
  BY <1>1, <1>4
<1> QED
  BY <1>2, <1>3, <1>5, <1>6, <1>7

(* The first elements of a sequence, and the last d.                       *)
Parts(a, d, r, o) ==
  /\ DOMAIN o = 1..d /\ \A i \in 1..d : o[i] = a[Len(a) - d + i]
  /\ Elements(r) \cup Elements(o) = Elements(a)

(* They are what SubSeq and From take.                                     *)
LEMMA Shares ==
  ASSUME NEW S, NEW a \in Seq(S), NEW d \in 0..Len(a),
         NEW k, k = Len(a) - d, NEW r, r = SubSeq(a, 1, k),
         NEW o, o = From(a, k)
  PROVE  Parts(a, d, r, o)
<1>1. /\ Len(a) \in Nat /\ DOMAIN a = 1..Len(a)
      /\ \A i \in 1..Len(a) : a[i] \in S
  BY LenProperties, ElementOfSeq
<1>2. k \in 0..Len(a) /\ Len(a) - k = d /\ k \in Int /\ d \in Nat
  BY <1>1
<1>3. DOMAIN r = 1..k /\ \A i \in 1..k : r[i] = a[i]
  <2>1. \A i \in 1..k : a[i] \in S
    BY <1>1, <1>2
  <2>2. /\ r \in Seq(S) /\ Len(r) = IF 1 <= k THEN k - 1 + 1 ELSE 0
        /\ \A i \in 1..(k - 1 + 1) : r[i] = a[1 + i - 1]
    BY <1>2, <2>1, SubSeqProperties
  <2>3. DOMAIN r = 1..Len(r) /\ Len(r) = k
    BY <1>2, <2>2, LenProperties
  <2> QED
    BY <1>2, <2>2, <2>3
<1>4. DOMAIN o = 1..d /\ \A i \in 1..d : o[i] = a[k + i]
  <2>1. /\ DOMAIN From(a, k) = 1..(Len(a) - k)
        /\ \A i \in 1..(Len(a) - k) : From(a, k)[i] = a[k + i]
    BY <1>2, FromTakes
  <2> QED
    BY <1>2, <2>1
<1>5. /\ Elements(o) = {a[k + i] : i \in 1..d}
      /\ Elements(r) = {a[i] : i \in 1..k}
      /\ Elements(a) = {a[i] : i \in 1..Len(a)}
  <2>1. Elements(o) = {a[k + i] : i \in 1..d}
    <3>1. Elements(o) = {o[i] : i \in 1..d}
      BY <1>4 DEF Elements
    <3>2. {o[i] : i \in 1..d} = {a[k + i] : i \in 1..d}
      BY <1>4
    <3> QED
      BY <3>1, <3>2
  <2>2. Elements(r) = {a[i] : i \in 1..k}
    <3>1. Elements(r) = {r[i] : i \in 1..k}
      BY <1>3 DEF Elements
    <3>2. {r[i] : i \in 1..k} = {a[i] : i \in 1..k}
      BY <1>3
    <3> QED
      BY <3>1, <3>2
  <2>3. Elements(a) = {a[i] : i \in 1..Len(a)}
    BY <1>1 DEF Elements
  <2> QED
    BY <2>1, <2>2, <2>3
<1>6. \A i \in 1..Len(a) : i \in 1..k \/ (i - k \in 1..d /\ k + (i - k) = i)
  BY <1>1, <1>2
<1>7. (\A i \in 1..k : i \in 1..Len(a)) /\ (\A i \in 1..d : k + i \in 1..Len(a))
  BY <1>1, <1>2
<1>8. ASSUME NEW x \in Elements(a) PROVE x \in Elements(r) \cup Elements(o)
  <2>1. PICK i \in 1..Len(a) : x = a[i]
    BY <1>5
  <2>2. CASE i \in 1..k
    <3>1. x \in Elements(r)
      BY <1>5, <2>1, <2>2
    <3> QED
      BY <3>1
  <2>3. CASE i - k \in 1..d /\ k + (i - k) = i
    <3>1. PICK h \in 1..d : k + h = i
      BY <2>3
    <3>2. x \in Elements(o)
      BY <1>5, <2>1, <3>1
    <3> QED
      BY <3>2
  <2> QED
    BY <1>6, <2>2, <2>3
<1>9. ASSUME NEW x \in Elements(r) \cup Elements(o) PROVE x \in Elements(a)
  <2>1. CASE x \in Elements(r)
    <3>1. PICK i \in 1..k : x = a[i]
      BY <1>5, <2>1
    <3> QED
      BY <1>5, <1>7, <3>1
  <2>2. CASE x \in Elements(o)
    <3>1. PICK i \in 1..d : x = a[k + i]
      BY <1>5, <2>2
    <3> QED
      BY <1>5, <1>7, <3>1
  <2> QED
    BY <2>1, <2>2
<1> QED
  BY <1>4, <1>8, <1>9 DEF Parts

(* What a method gets is what Python would bind.                           *)
LEMMA BindingFits ==
  ASSUME NEW sig, IsSignature(sig), NEW given,
         Elements(From(sig.args, Len(sig.args) - Len(sig.defaults)))
           \cap Hidden = {},
         Elements(Required(sig)) \subseteq DOMAIN given
  PROVE  Bound(sig, given) = PythonBinds(sig, given)
<1>1. PICK a, d, args, l : /\ a = Args(sig) /\ d = Len(sig.defaults)
                           /\ args = sig.args /\ l = Len(args)
  OBVIOUS
<1>2. /\ args \in Seq(STRING) /\ d \in 0..l
      /\ \A i, j \in DOMAIN args : args[i] = args[j] => i = j
  BY <1>1 DEF IsSignature
<1>3. l \in Nat /\ DOMAIN args = 1..l
  BY <1>1, <1>2, LenProperties
<1>4. PICK k : k = l - d
  OBVIOUS
<1>5. k \in 0..l /\ l - k = d /\ k \in Nat /\ d \in Nat
  BY <1>2, <1>3, <1>4
<1>6. \A i \in (k + 1)..l : args[i] \notin Hidden
  <2>1. /\ DOMAIN From(args, k) = 1..(Len(args) - k)
        /\ \A j \in 1..(Len(args) - k) : From(args, k)[j] = args[k + j]
    BY <1>1, <1>2, <1>5, FromTakes
  <2>2. ASSUME NEW i \in (k + 1)..l PROVE args[i] \notin Hidden
    <3>1. i - k \in 1..(Len(args) - k) /\ k + (i - k) = i
      BY <1>1, <1>3, <1>5
    <3>2. From(args, k)[i - k] = args[i]
      BY <2>1, <3>1
    <3>3. args[i] \in Elements(From(args, k))
      BY <2>1, <3>1, <3>2 DEF Elements
    <3> QED
      BY <1>1, <1>4, <3>3
  <2> QED
    BY <2>2
<1>7. /\ a \in Seq(STRING) /\ d \in 0..Len(a)
      /\ \A i \in 1..d : a[Len(a) - d + i] = args[k + i]
  <2>1. NoneHidden(args, d)
    BY <1>1, <1>4, <1>6 DEF NoneHidden
  <2>2. SameEnd(Args(sig), sig.args, Len(sig.defaults))
    BY <1>1, <2>1, ArgsEnd
  <2>3. SameEnd(a, args, d)
    BY <1>1, <2>2
  <2> QED
    BY <1>1, <1>4, <2>3 DEF SameEnd
<1>8. PICK optional, required : /\ optional = Optional(sig)
                                /\ required = Elements(Required(sig))
  OBVIOUS
<1>9. /\ DOMAIN optional = 1..d
      /\ \A i \in 1..d : optional[i] = args[k + i]
      /\ required \cup Elements(optional) = Elements(a)
  <2>1. PICK S, r, c : S = STRING /\ r = Required(sig) /\ c = Len(a) - d
    OBVIOUS
  <2>2. r = SubSeq(a, 1, c) /\ optional = From(a, c)
    BY <1>1, <1>8, <2>1 DEF Required, Optional
  <2>3. a \in Seq(S) /\ d \in 0..Len(a)
    BY <1>7, <2>1
  <2>4. Parts(a, d, r, optional)
    BY <2>1, <2>2, <2>3, Shares
  <2> QED
    BY <1>7, <1>8, <2>1, <2>4 DEF Parts
<1>10. \A i \in 1..d : k + i \in 1..l /\ k + i > k /\ (k + i) - k = i
  BY <1>3, <1>5
<1>11. \A i, j \in 1..d : optional[i] = optional[j] => i = j
  <2> SUFFICES ASSUME NEW i \in 1..d, NEW j \in 1..d, optional[i] = optional[j]
               PROVE  i = j
    OBVIOUS
  <2>1. k + i = k + j
    BY <1>2, <1>3, <1>9, <1>10
  <2> QED
    BY <1>5, <2>1
<1>12. ASSUME NEW n \in Elements(a), n \notin DOMAIN given
       PROVE  sig.defaults[CHOOSE i \in DOMAIN optional : optional[i] = n]
                = OwnDefault(sig, n)
  <2>1. PICK i \in 1..d : optional[i] = n
    BY <1>8, <1>9, <1>12 DEF Elements
  <2>2. PICK i2 : i2 = CHOOSE j \in DOMAIN optional : optional[j] = n
    OBVIOUS
  <2>3. i2 = i
    BY <1>9, <1>11, <2>1, <2>2
  <2>4. PICK j2 : j2 = CHOOSE j \in DOMAIN args : args[j] = n
    OBVIOUS
  <2>5. j2 = k + i
    <3>1. k + i \in DOMAIN args /\ args[k + i] = n
      BY <1>3, <1>9, <1>10, <2>1
    <3>2. j2 \in DOMAIN args /\ args[j2] = n
      BY <2>4, <3>1
    <3> QED
      BY <1>2, <3>1, <3>2
  <2>6. OwnDefault(sig, n) = IF j2 > k THEN sig.defaults[j2 - k] ELSE Missing
    BY <1>1, <1>4, <2>4 DEF OwnDefault
  <2>7. OwnDefault(sig, n) = sig.defaults[i]
    BY <1>10, <2>5, <2>6
  <2> QED
    BY <2>2, <2>3, <2>7
<1>13. Bound(sig, given) =
         [n \in required \cup Elements(optional) |->
            IF n \in DOMAIN given THEN given[n]
            ELSE sig.defaults[CHOOSE i \in DOMAIN optional : optional[i] = n]]
  BY <1>8 DEF Bound
<1>14. PythonBinds(sig, given) =
         [n \in Elements(a) |-> IF n \in DOMAIN given THEN given[n]
                                ELSE OwnDefault(sig, n)]
  BY <1>1 DEF PythonBinds
<1> QED
  BY <1>9, <1>12, <1>13, <1>14

(* The arguments of a method that was called.                              *)
BoundOK(i) ==
  task[i].bound # Missing =>
    LET m == task[i].msg sig == Methods[m.method] IN
    /\ m.method \in DOMAIN Methods /\ task[i].at # "none"
    /\ Elements(Required(sig)) \subseteq DOMAIN Given(sig, ParamsOf(m))
    /\ task[i].bound = Bound(sig, Given(sig, ParamsOf(m)))

(* Every step leaves them as they are, or calls the method.                *)
LEMMA BoundKeeps ==
  ASSUME Shaped, \A i \in Tasks : BoundOK(i), [Next]_vars
  PROVE  \A i \in Tasks : BoundOK(i)'
<1>1. ASSUME NEW i \in Tasks, \A j \in Tasks \ {i} : task'[j] = task[j],
             BoundOK(i)'
      PROVE  \A j \in Tasks : BoundOK(j)'
  BY <1>1 DEF BoundOK
<1>2. ASSUME NEW i \in Tasks, NEW at, NEW how, at # "none",
             \/ task' = [task EXCEPT ![i].at = at]
             \/ task' = [task EXCEPT ![i].at = at, ![i].ended = how]
             \/ task' = [task EXCEPT ![i].ended = how, ![i].at = at]
      PROVE  \A j \in Tasks : BoundOK(j)'
  <2>1. /\ task'[i].bound = task[i].bound /\ task'[i].msg = task[i].msg
        /\ task'[i].at = at /\ \A j \in Tasks \ {i} : task'[j] = task[j]
    BY <1>2 DEF Shaped
  <2>2. BoundOK(i)'
    BY <1>2, <2>1 DEF BoundOK
  <2> QED
    BY <1>1, <2>1, <2>2
<1>3. ASSUME NEW i \in Tasks, Arrive(i) PROVE \A j \in Tasks : BoundOK(j)'
  <2>1. PICK m : task' = [task EXCEPT ![i].at = "new", ![i].msg = m]
    BY <1>3 DEF Arrive
  <2>2. task[i].bound = Missing
    BY <1>3 DEF Arrive, At, BoundOK
  <2>3. /\ task'[i].bound = task[i].bound
        /\ \A j \in Tasks \ {i} : task'[j] = task[j]
    BY <2>1 DEF Shaped
  <2>4. BoundOK(i)'
    BY <2>2, <2>3 DEF BoundOK
  <2> QED
    BY <1>1, <2>3, <2>4
<1>4. ASSUME NEW i \in Tasks, Call(i) PROVE \A j \in Tasks : BoundOK(j)'
  <2>1. PICK m, sig : m = task[i].msg /\ sig = Method(i)
    OBVIOUS
  <2>2. PICK given : given = Given(sig, ParamsOf(m))
    OBVIOUS
  <2>3. /\ m.method \in DOMAIN Methods /\ sig = Methods[m.method]
        /\ Elements(Required(sig)) \subseteq DOMAIN given
    BY <1>4, <2>1, <2>2 DEF Call, Called, Method, Binding
  <2>4. PICK b : b = Bound(sig, given)
    OBVIOUS
  <2>5. \/ \E at \in {"running", "queued"} :
             task' = [task EXCEPT ![i].at = at, ![i].bound = b]
        \/ task' = task
    BY <1>4, <2>1, <2>2, <2>4 DEF Call
  <2>6. CASE task' = task
    BY <2>6 DEF BoundOK
  <2>7. ASSUME NEW at \in {"running", "queued"},
               task' = [task EXCEPT ![i].at = at, ![i].bound = b]
        PROVE  \A j \in Tasks : BoundOK(j)'
    <3>1. /\ task'[i].bound = b /\ task'[i].msg = m /\ task'[i].at # "none"
          /\ \A j \in Tasks \ {i} : task'[j] = task[j]
      BY <2>1, <2>7 DEF Shaped
    <3>2. BoundOK(i)'
      BY <2>2, <2>3, <2>4, <3>1 DEF BoundOK, ParamsOf
    <3> QED
      BY <1>1, <3>1, <3>2
  <2> QED
    BY <2>5, <2>6, <2>7
<1>5. ASSUME NEW i \in Tasks, Loop(i) \/ Pool(i), ~Call(i)
      PROVE  \A j \in Tasks : BoundOK(j)'
  <2>1. \E at, how :
          /\ at # "none"
          /\ \/ task' = [task EXCEPT ![i].at = at]
             \/ task' = [task EXCEPT ![i].at = at, ![i].ended = how]
             \/ task' = [task EXCEPT ![i].ended = how, ![i].at = at]
    <3>1. CASE Reject(i)
      BY <3>1 DEF Reject, Ends
    <3>2. CASE BindingFails(i)
      BY <3>2 DEF BindingFails, Ends
    <3>3. CASE MethodEnds(i)
      BY <3>3 DEF MethodEnds, Ends
    <3>4. CASE Resume(i)
      BY <3>4 DEF Resume, Goes
    <3>5. CASE Take(i)
      BY <3>5 DEF Take, Goes
    <3>6. CASE ClientAnswers(i)
      BY <3>6 DEF ClientAnswers, Goes
    <3>7. CASE ThreadEnds(i)
      <4>1. PICK how, at :
              /\ at = IF how = "StopIteration" THEN "lost" ELSE "resolved"
              /\ task' = [task EXCEPT ![i].ended = how, ![i].at = at]
        BY <3>7, Zenon DEF ThreadEnds
      <4>2. at # "none"
        BY <4>1
      <4> QED
        BY <4>1, <4>2, Zenon
    <3> QED
      BY <1>5, <3>1, <3>2, <3>3, <3>4, <3>5, <3>6, <3>7 DEF Loop, Pool
  <2> QED
    BY <1>2, <2>1
<1>6. CASE UNCHANGED vars
  <2>1. task' = task
    BY <1>6 DEF vars
  <2> QED
    BY <2>1 DEF BoundOK
<1> QED
  BY <1>3, <1>4, <1>5, <1>6 DEF Next

(* A method gets the arguments that Python would bind, whatever the method *)
(* and whatever the caller sends, when no argument that the caller cannot  *)
(* give has a default (rpc.py:46-65, 95-114).                              *)
THEOREM BindsAsPython == Spec => []BindsLikePython
<1> DEFINE AllBound == \A i \in Tasks : BoundOK(i)
<1>1. Init => AllBound
  BY DEF Init, BoundOK
<1>2. Inv /\ AllBound /\ [Next]_vars => AllBound'
  BY BoundKeeps DEF Inv
<1>3. ASSUME AllBound PROVE BindsLikePython
  <2> SUFFICES ASSUME NEW i \in Tasks, task[i].bound # Missing,
                      NEW sig, sig = Method(i),
                      NEW given, given = Given(sig, ParamsOf(task[i].msg)),
                      Elements(From(sig.args, Len(sig.args) -
                                              Len(sig.defaults)))
                        \cap Hidden = {}
               PROVE  task[i].bound = PythonBinds(sig, given)
    BY DEF BindsLikePython
  <2>1. /\ task[i].msg.method \in DOMAIN Methods
        /\ Elements(Required(sig)) \subseteq DOMAIN given
        /\ task[i].bound = Bound(sig, given)
    BY <1>3 DEF BoundOK, Method
  <2>2. IsSignature(sig)
    BY <2>1, MethodsAssumption DEF Method
  <2> QED
    BY <2>1, <2>2, BindingFits
<1> HIDE DEF AllBound
<1> QED
  BY <1>1, <1>2, <1>3, InvLasts, PTL DEF Spec
=============================================================================
