------------------------------ MODULE Dispatch ------------------------------
(***************************************************************************)
(* What becomes of a message that a client sends (JsonRpc._handle_rpc_msg, *)
(* rpc.py:283-355), from its text to the text of the reply: decoding, the  *)
(* look-up of the method, its arguments, and its run on the event loop or  *)
(* in a thread of the worker pool (threading.py).                          *)
(*                                                                         *)
(* The handling of a message is a task.  How tasks send, and what becomes  *)
(* of the results for calls of the server, is modelled in PubSub and Calls.*)
(***************************************************************************)
EXTENDS MethodArgs

CONSTANTS
  Tasks,      \* bound: the messages of a behaviour, which are their own ids
  Texts(_),   \* the texts that the message may be
  Methods,    \* http_request.methods: name -> signature, whether it is a
              \* coroutine, whether a synchronous one calls its client,
              \* whether its response is raw, and how it may end
  RawTexts(_), \* the texts that a raw response may be
  PoolSizes   \* values of max_workers

ASSUME DispatchAssumption == PoolSizes \subseteq Nat

VARIABLES
  workers,  \* max_workers
  task,     \* task[i]: where the task is, its message, the arguments of its
            \* method and how the method ended
  reply,    \* reply[i]: the text that was sent, or Missing
  queue,    \* the jobs that wait for a thread
  hung      \* the event loop waits for itself

vars == <<workers, task, reply, queue, hung>>

Init ==
  /\ workers \in PoolSizes
  /\ task = [i \in Tasks |-> [at |-> "none", msg |-> Missing,
                              bound |-> Missing, ended |-> "not"]]
  /\ reply = [i \in Tasks |-> Missing]
  /\ queue = <<>> /\ hung = FALSE

-----------------------------------------------------------------------------

At(i, at) == task[i].at = at
Method(i) == Methods[task[i].msg.method]
ParamsOf(m) == IF m.params = Missing THEN Params("list", <<>>) ELSE m.params
InThread(i) == task[i].at \in {"thread", "asking", "stuck"}
Busy == Cardinality({i \in Tasks : InThread(i)})

Goes(i, at) == task' = [task EXCEPT ![i].at = at]
Ends(i, how) == task' = [task EXCEPT ![i].at = "done", ![i].ended = how]
Sends(i, text) == reply' = [reply EXCEPT ![i] = text]
SendsError(i, class, id) ==
  Sends(i, EncodeError(StandardError(class, id), Null))

(* The endings of a method that the first except clause handles: errors of *)
(* three classes, raised with their own code or another, and of classes    *)
(* that derive from them, which may have a code that the table lacks.  A   *)
(* direct subclass of RpcError is none of them ("app").                    *)
Handled ==
  [RpcInvalidParamsError |-> StandardError("RpcInvalidParamsError", Null),
   RpcInvalidRequestError |-> StandardError("RpcInvalidRequestError", Null),
   server |-> Error(Generic, -32050, Null),
   shared |-> Error(Generic, -32001, Null),
   derived |-> Error("Derived", -32002, Null),
   noCode |-> Error(Generic, Null, Null),
   badCode |-> Error("Derived", -1, Null)]

Endings == DOMAIN Handled \cup
  {"value", "badData", "KeyError", "exception", "StopIteration", "app"}

(* Methods end in these ways.                                              *)
ASSUME MethodsAssumption ==
  \A name \in DOMAIN Methods :
    Methods[name].ends \subseteq Endings /\ IsSignature(Methods[name])

(* What is encoded and sent; the markers of Protocol are none of it.       *)
SentCodes == Codes \cup {Null, -1}
ErrorObjects == [code : SentCodes, message : {"text"}, data : {Missing}]
Replies(i) ==
  [json : {"object"}, jsonrpc : {"2.0"}, method : {Missing},
   id : {Missing} \cup {m.id : m \in Texts(i)}, params : {Missing},
   result : {Missing, "value"}, error : {Missing} \cup ErrorObjects]

ASSUME TextsAssumption ==
  /\ \A i \in Tasks :
       /\ \A m \in Texts(i) : m.json \in {"object", "garbage", "scalar"}
       /\ Missing \notin Replies(i) \cup RawTexts(i)
  /\ \A marker \in {Missing, Null, NotString, NotDict, Unhashable} :
       marker \notin Int /\ marker \notin {"value", "text"}
         /\ marker \notin ErrorObjects

(* A raw response is sent as it is; any other result is encoded with the   *)
(* id of the request.                                                      *)
SendsValue(i) ==
  \/ Method(i).raw /\ \E text \in RawTexts(i) : Sends(i, text)
  \/ ~Method(i).raw /\ Sends(i, EncodeResult(task[i].msg.id, "value"))

SendsHandled(i, how) == Sends(i, EncodeError(Handled[how], task[i].msg.id))

(* Mutant: the first except clause is for invalid params only.             *)
AnswersParamsOnly(i, how) ==
  \/ how = "value" /\ SendsValue(i)
  \/ how = "badData" /\ UNCHANGED reply
  \/ how = "RpcInvalidParamsError" /\ SendsHandled(i, how)
  \/ /\ how \notin {"value", "badData", "RpcInvalidParamsError"}
     /\ SendsError(i, "RpcInternalError", task[i].msg.id)

(* Mutant: an exception that is not handled ends the task.                 *)
AnswersHandled(i, how) ==
  \/ how = "value" /\ SendsValue(i)
  \/ how \in DOMAIN Handled /\ SendsHandled(i, how)
  \/ how \notin {"value"} \cup DOMAIN Handled /\ UNCHANGED reply

(* The try statement.  Any other exception, one of encode_result() or of   *)
(* send_str() included, becomes an internal error; one of encode_error(),  *)
(* raised while an exception is handled, ends the task.                    *)
Answers(i, how) ==
  \/ how = "value" /\ SendsValue(i)
  \/ how = "badData" /\ UNCHANGED reply
  \/ how \in DOMAIN Handled /\ SendsHandled(i, how)
  \/ /\ how \notin {"value", "badData"} \cup DOMAIN Handled
     /\ SendsError(i, "RpcInternalError", task[i].msg.id)

-----------------------------------------------------------------------------

Arrive(i) ==
  /\ At(i, "none")
  /\ \E m \in Texts(i) :
       task' = [task EXCEPT ![i].at = "new", ![i].msg = m]
  /\ UNCHANGED <<workers, reply, queue, hung>>

(* No method is called.  A result that belongs to no call raises a         *)
(* KeyError, and an exception outside the try statement ends the task.     *)
Reject(i) ==
  LET d == Decode(task[i].msg) IN
  /\ At(i, "new")
  /\ \/ /\ d.type = "raises" /\ d.class \in DOMAIN Standard
        /\ SendsError(i, d.class, d.id)
     \/ /\ \/ d.type = "raises" /\ d.class \notin DOMAIN Standard
           \/ d.type = "result"
        /\ UNCHANGED reply
     \/ /\ d.type = "request" /\ task[i].msg.method \notin DOMAIN Methods
        /\ SendsError(i, "RpcMethodNotFoundError", d.id)
     \/ /\ d.type \in {"notification", "error"}
        /\ SendsError(i, "RpcInvalidRequestError", d.id)
  /\ Ends(i, "no call") /\ UNCHANGED <<workers, queue, hung>>

Called(i) ==
  At(i, "new") /\ Decode(task[i].msg).type = "request"
    /\ task[i].msg.method \in DOMAIN Methods

BindingFails(i) ==
  /\ Called(i)
  /\ LET how == Binding(Method(i), ParamsOf(task[i].msg)) IN
       how # "runs" /\ Ends(i, how) /\ Answers(i, how)
  /\ UNCHANGED <<workers, queue, hung>>

(* The call: a coroutine runs on the event loop, and so does a synchronous *)
(* method when there is no executor.  If that calls its client, it waits   *)
(* for the very loop that it blocks.                                       *)
Call(i) ==
  LET sig == Method(i) params == ParamsOf(task[i].msg) IN
  /\ Called(i) /\ Binding(sig, params) = "runs"
  /\ \/ /\ sig.coroutine \/ (workers = 0 /\ ~sig.asks)
        /\ task' = [task EXCEPT ![i].at = "running",
                      ![i].bound = Bound(sig, Given(sig, params))]
        /\ UNCHANGED <<queue, hung>>
     \/ /\ ~sig.coroutine /\ workers > 0
        /\ task' = [task EXCEPT ![i].at = "queued",
                      ![i].bound = Bound(sig, Given(sig, params))]
        /\ queue' = Append(queue, i) /\ UNCHANGED hung
     \/ /\ ~sig.coroutine /\ workers = 0 /\ sig.asks
        /\ hung' = TRUE /\ UNCHANGED <<task, queue>>
  /\ UNCHANGED <<workers, reply>>

(* The method ends on the event loop.                                      *)
MethodEnds(i) ==
  /\ At(i, "running")
  /\ \E how \in Method(i).ends : Ends(i, how) /\ Answers(i, how)
  /\ UNCHANGED <<workers, queue, hung>>

(* Mutant: a job is started although no thread is free.                    *)
TakeAtOnce(i) ==
  /\ queue # <<>> /\ Head(queue) = i
  /\ queue' = Tail(queue)
  /\ \E at \in IF Method(i).asks THEN {"asking", "stuck"} ELSE {"thread"} :
       Goes(i, at)
  /\ UNCHANGED <<workers, reply, hung>>

(* Mutant: the last thread is kept for jobs that do not block.             *)
TakeKeepsOne(i) ==
  /\ queue # <<>> /\ Head(queue) = i /\ Busy < workers
  /\ Method(i).asks => Busy + 1 < workers
  /\ queue' = Tail(queue)
  /\ \E at \in IF Method(i).asks THEN {"asking", "stuck"} ELSE {"thread"} :
       Goes(i, at)
  /\ UNCHANGED <<workers, reply, hung>>

(* A thread takes a job.  A call of the client blocks it without a timeout:*)
(* it is stuck when the client never answers, which answers by an error or *)
(* has gone.                                                               *)
Take(i) ==
  /\ queue # <<>> /\ Head(queue) = i /\ Busy < workers
  /\ queue' = Tail(queue)
  /\ \E at \in IF Method(i).asks THEN {"asking", "stuck"} ELSE {"thread"} :
       Goes(i, at)
  /\ UNCHANGED <<workers, reply, hung>>

ClientAnswers(i) ==
  /\ At(i, "asking") /\ Goes(i, "thread")
  /\ UNCHANGED <<workers, reply, queue, hung>>

(* _run() in the thread: the future gets the result or the exception.  It  *)
(* does not take StopIteration; then the waiting task never goes on.       *)
ThreadEnds(i) ==
  /\ At(i, "thread")
  /\ \E how \in Method(i).ends :
       task' = [task EXCEPT ![i].ended = how,
                  ![i].at = IF how = "StopIteration" THEN "lost"
                                                     ELSE "resolved"]
  /\ UNCHANGED <<workers, reply, queue, hung>>

Resume(i) ==
  /\ At(i, "resolved") /\ Goes(i, "done") /\ Answers(i, task[i].ended)
  /\ UNCHANGED <<workers, queue, hung>>

Loop(i) == Reject(i) \/ BindingFails(i) \/ Call(i) \/ MethodEnds(i) \/ Resume(i)
Pool(i) == Take(i) \/ ClientAnswers(i) \/ ThreadEnds(i)

Next == ~hung /\ \E i \in Tasks : Arrive(i) \/ Loop(i) \/ Pool(i)

(* The event loop runs every task that is ready, the executor every thread;*)
(* methods end, and the clients that answer do so in the end.              *)
Fairness ==
  \A i \in Tasks : WF_vars(~hung /\ Loop(i)) /\ WF_vars(~hung /\ Pool(i))

Spec == Init /\ [][Next]_vars /\ Fairness

-----------------------------------------------------------------------------
(* What is true of it.                                                     *)

(* Every variable has its type, a thread has one job, and those that wait  *)
(* are in the queue.                                                       *)
TypeOK ==
  /\ workers \in PoolSizes /\ Busy <= workers /\ hung \in BOOLEAN
  /\ \A i \in Tasks :
       /\ task[i].at \in {"none", "new", "running", "queued", "thread",
                          "asking", "stuck", "resolved", "lost", "done"}
       /\ task[i].ended \in Endings \cup {"not", "no call"}
       /\ reply[i] # Missing => At(i, "done")
  /\ Elements(queue) = {i \in Tasks : At(i, "queued")}

IdOf(i) ==
  LET m == task[i].msg IN
  IF m.json # "object" \/ m.id = Missing \/ m.method = NotString THEN Null
                                                                 ELSE m.id

(* The client understands each reply that the server encodes as one to its *)
(* message, unless the message has no id that can be read, or the error no *)
(* code of the table (protocol.py:69-74, 94-95, 124-125, 178-182;          *)
(* exceptions.py:28).  A raw response is the method's own affair: the      *)
(* server sends it whatever it is (rpc.py:309-313, 322-325).               *)
RawResponse(i) == task[i].ended = "value" /\ Method(i).raw
AnswersUnderstood ==
  \A i \in Tasks : reply[i] # Missing /\ ~RawResponse(i) =>
    LET d == Decode(reply[i]) IN
    d.type \in {"result", "error"} /\ d.id = IdOf(i)
      <=> IdOf(i) # Null /\ task[i].ended \notin {"noCode", "badCode"}

(* The caller gets the error that the method raised, if it is of the three *)
(* classes that are passed on, and an internal error for any other, one of *)
(* the application's own included.  There are two exceptions: an error of  *)
(* a class that derives from one of the three arrives as the generic one,  *)
(* and any error whose code the application has registered arrives as the  *)
(* application's (rpc.py:327-341, protocol.py:190-200, exceptions.py:53-63).*)
Raised(how) ==
  IF how \in DOMAIN Handled THEN Handled[how]
                            ELSE StandardError("RpcInternalError", Null)
ArrivesAs(error) ==
  IF error.code \in AppErrors THEN "AppError"
  ELSE IF error.class = "Derived" THEN Generic ELSE error.class
ErrorsReachCaller ==
  \A i \in Tasks :
    reply[i] # Missing
      /\ task[i].ended \notin {"value", "noCode", "badCode", "no call"} =>
         ClassOf(reply[i].error.code) = ArrivesAs(Raised(task[i].ended))

(* A method gets the arguments that Python would bind, what is left over   *)
(* aside, when no argument that the caller cannot give has a default       *)
(* (rpc.py:46-65, 95-114).                                                 *)
BindsLikePython ==
  \A i \in Tasks : task[i].bound # Missing =>
    LET sig == Method(i)
        given == Given(sig, ParamsOf(task[i].msg))
        withDefault == Elements(From(sig.args, Len(sig.args) -
                                               Len(sig.defaults)))
    IN  withDefault \cap Hidden = {} =>
          task[i].bound = PythonBinds(sig, given)

(* A message gets no reply only if it is no object, a result nobody waits  *)
(* for, or an error with a code that has no hash; or if its method raised  *)
(* an error with data that cannot be encoded, or a StopIteration in a      *)
(* thread (rpc.py:284-291, 327-334; threading.py:27-28).                   *)
SilenceExplained ==
  \A i \in Tasks : task[i].at \in {"done", "lost"} /\ reply[i] = Missing =>
    \/ Decode(task[i].msg).type = "result"
    \/ Decode(task[i].msg).class = "TypeError"
    \/ task[i].ended = "badData" \/ At(i, "lost")

(* Every request is answered in the end, with these exceptions, and unless *)
(* clients that do not answer block every thread, or a synchronous method  *)
(* without an executor the loop (threading.py:16-44).                      *)
EveryRequestAnswered ==
  \A i \in Tasks :
    At(i, "new") /\ Decode(task[i].msg).type = "request" ~>
      \/ reply[i] # Missing \/ task[i].ended = "badData" \/ At(i, "lost")
      \/ Cardinality({j \in Tasks : At(j, "stuck")}) = workers /\ workers > 0
      \/ At(i, "stuck") \/ hung

(* README.rst:191-193: every exception of a method is caught, and the      *)
(* caller gets a server error.                                             *)
ServerErrorSent ==
  \A i \in Tasks :
    task[i].at \in {"done", "lost"}
      /\ task[i].ended \in {"exception", "StopIteration"} =>
         reply[i] # Missing /\ reply[i].error.code = -32603
=============================================================================
