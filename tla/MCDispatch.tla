----------------------------- MODULE MCDispatch -----------------------------
(* Instances of Dispatch for TLC.                                          *)
EXTENDS Dispatch

MCAppErrors == {-32001}

Method_(args, defaults, checked, coroutine, asks, ends) ==
  [args |-> args, defaults |-> defaults, checked |-> checked,
   coroutine |-> coroutine, asks |-> asks, raw |-> FALSE, ends |-> ends]

AllEndings ==
  {"value", "exception", "badData", "server", "shared", "derived", "app",
   "noCode", "badCode", "RpcInvalidParamsError", "RpcInvalidRequestError",
   "StopIteration"}
SomeEndings == {"value", "StopIteration"}

MCMethods ==
  [plain |-> Method_(<<"request">>, <<>>, Null, TRUE, FALSE, AllEndings),
   args |-> Method_(<<"self", "request", "a", "b">>, <<"d">>, "a", TRUE, FALSE,
                    {"value"}),
   odd |-> Method_(<<"a", "b", "request">>, <<"d", "e", "f">>, Null, TRUE,
                   FALSE, {"value"}),
   checked |-> Method_(<<"request", "a">>, <<"d">>, "request", TRUE, FALSE,
                       {"value"}),
   sync |-> Method_(<<"a">>, <<"d">>, "a", FALSE, FALSE, AllEndings),
   ask |-> Method_(<<"request">>, <<>>, Null, FALSE, TRUE, SomeEndings),
   raw |-> [Method_(<<"request">>, <<>>, Null, TRUE, FALSE,
                    {"value", "exception", "server"}) EXCEPT !.raw = TRUE]]

(* With the id and without, as a result, an error and no message at all.   *)
MCRawTexts(i) ==
  {EncodeResult(i, "value"), EncodeError(Error(Generic, -32050, Null), i),
   [Object EXCEPT !.result = "value"], Garbage}

List(values) ==
  Params("list", [i \in DOMAIN values |-> <<Null, values[i]>>])

Arguments ==
  {Missing, List(<<"x">>), List(<<"x", "y">>), List(<<"y", "x", "x">>),
   Params("object", <<<<"b", "y">>, <<"a", "x">>>>),
   Params("object", <<<<"b", "y">>, <<"c", "x">>>>)}

WrongError == [code |-> -32603, message |-> "text", data |-> Missing]
MCTexts(i) ==
  LET request(m, p) == EncodeRequest(m, i, p)
      error(e) == [Object EXCEPT !.id = i, !.error = e] IN
  {request(m, p) : m \in {"args", "odd", "checked"}, p \in Arguments}
  \cup {request(m, Null) :
           m \in {"plain", "sync", "ask", "raw", "hidden", NotString}}
  \cup {Garbage, Scalar, EncodeRequest("plain", Null, Null),
        EncodeRequest(NotString, Null, Null),
        [EncodeRequest("plain", i, Null) EXCEPT !.jsonrpc = "1.0"],
        [EncodeRequest("plain", i, Null) EXCEPT !.result = "value"],
        [EncodeRequest("plain", i, Null) EXCEPT !.method = Missing],
        EncodeResult(i, "value"), [Object EXCEPT !.result = "value"],
        error(NotDict), error(WrongError),
        error([WrongError EXCEPT !.message = Missing]),
        error([WrongError EXCEPT !.code = -1]),
        error([WrongError EXCEPT !.code = Unhashable])}
=============================================================================
