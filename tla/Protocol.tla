------------------------------ MODULE Protocol ------------------------------
(***************************************************************************)
(* The wire format (protocol.py) and the errors that travel in it          *)
(* (exceptions.py).                                                        *)
(*                                                                         *)
(* A text is a record: what json.loads() makes of it and, for an object,   *)
(* the members that the code looks at.                                     *)
(***************************************************************************)
EXTENDS FiniteSets, Integers

CONSTANTS
  Missing,     \* the object has no such member
  Null,        \* JSON's null, Python's None
  NotString,   \* a method that is not a string
  NotDict,     \* an error that is not an object
  Unhashable,  \* an error code that is a list or an object
  AppErrors    \* codes of the direct subclasses of RpcError that the
               \* application had defined when the table was made

(* The table of codes (exceptions.py:36-63).  The constructor of an error  *)
(* takes no other code, but a class can have one (exceptions.py:28).       *)
Standard ==
  [RpcInvalidRequestError |-> -32600, RpcMethodNotFoundError |-> -32601,
   RpcInvalidParamsError |-> -32602, RpcInternalError |-> -32603,
   RpcParseError |-> -32700]
Generic == "RpcGenericServerDefinedError"
ServerDefined == (-32099)..(-32000)
Codes == {Standard[c] : c \in DOMAIN Standard} \cup ServerDefined

ASSUME ProtocolAssumption ==
  /\ AppErrors \subseteq Codes
  /\ Cardinality({Missing, Null, NotString, NotDict, Unhashable}) = 5

(* error_code_to_exception(): the class comes from the code alone.  It is  *)
(* the application's if that has registered the code, and the generic one  *)
(* for the rest of the server's range, the codes of classes that derive    *)
(* from the generic one included.                                          *)
ClassOf(code) ==
  IF code \in AppErrors THEN "AppError"
  ELSE IF code \in ServerDefined THEN Generic
  ELSE CHOOSE c \in DOMAIN Standard : Standard[c] = code

(* An exception, as raised with its arguments.                             *)
Error(class, code, data) ==
  [class |-> class, code |-> code, data |-> data, msg_id |-> Null]
StandardError(class, id) ==
  [class |-> class, code |-> Standard[class], data |-> Null, msg_id |-> id]

(* Texts.                                                                  *)
Object ==
  [json |-> "object", jsonrpc |-> "2.0", id |-> Missing, method |-> Missing,
   params |-> Missing, result |-> Missing, error |-> Missing]
Garbage == [Object EXCEPT !.json = "garbage"]
Scalar == [Object EXCEPT !.json = "scalar"]

IfNone(x, y) == IF x = Null THEN y ELSE x

EncodeRequest(method, id, params) ==
  [Object EXCEPT !.method = method, !.id = IfNone(id, Missing),
                 !.params = IfNone(params, Missing)]
EncodeResult(id, result) == [Object EXCEPT !.id = id, !.result = result]

(* Mutant: the id of the error itself counts, not the one of the caller.   *)
EncodeErrorOwnId(error, id) ==
  [Object EXCEPT
     !.error = [code |-> error.code, message |-> "text",
                data |-> IfNone(error.data, Missing)],
     !.id = IfNone(error.msg_id, Missing)]

(* Without an id the member is left out.                                   *)
EncodeError(error, id) ==
  [Object EXCEPT
     !.error = [code |-> error.code, message |-> "text",
                data |-> IfNone(error.data, Missing)],
     !.id = IfNone(IfNone(id, error.msg_id), Missing)]

Raises(class, id) == [type |-> "raises", class |-> class, id |-> id]
Decoded(type, m) ==
  [type |-> type, class |-> "none",
   id |-> IF m.id = Missing THEN Null ELSE m.id]

(* The members that tell the type of a message.                            *)
Kinds(m) == {f \in {"error", "result", "method"} : m[f] # Missing}

IllFormed(m) ==
  \/ m.jsonrpc # "2.0" \/ Cardinality(Kinds(m)) # 1
  \/ "method" \notin Kinds(m) /\ m.id = Missing
IllFormedError(m) ==
  \/ m.error = NotDict
  \/ Missing \in {m.error.code, m.error.message} \/ m.error.code \notin Codes

(* decode_msg().  What is no object raises an exception of Python; a method*)
(* that is no string raises an error without the id.                       *)
Decode(m) ==
  LET id == IF m.id = Missing THEN Null ELSE m.id IN
  CASE m.json = "garbage" -> Raises("RpcParseError", Null)
    [] m.json = "scalar" -> Raises("TypeError", Null)
    [] m.json = "object" /\ IllFormed(m) -> Raises("RpcInvalidRequestError", id)
    [] m.json = "object" /\ ~IllFormed(m) ->
         IF "method" \in Kinds(m)
         THEN IF m.method = NotString
              THEN Raises("RpcInvalidRequestError", Null)
              ELSE Decoded(IF id = Null THEN "notification" ELSE "request", m)
         ELSE IF "result" \in Kinds(m) THEN Decoded("result", m)
         ELSE IF m.error # NotDict /\ m.error.code = Unhashable
                 /\ m.error.message # Missing
         THEN Raises("TypeError", Null)
         ELSE IF IllFormedError(m) THEN Raises("RpcInvalidRequestError", id)
         ELSE Decoded("error", m)
=============================================================================
