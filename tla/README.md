# A TLA+ model of aiohttp-json-rpc

This directory models aiohttp-json-rpc, a JSON-RPC 2.0 server and client over
websockets. The modules are translated from the Python source under
`aiohttp_json_rpc/`; line numbers below refer to it. TLC checks them on small
instances, and TLAPS proves the main safety properties for every value of the
constants.

## The system

| component | state | operations | hard behaviour | what makes it correct |
|---|---|---|---|---|
| client registry and receive loop (`rpc.py:250-281, 357-378`) | `rpc.clients`; per connection the websocket, its transport, `topics`, `subscriptions` | connect, receive, close, remove at the end of the loop, prune in `_ws_send_str` | removed by two parties; a cancelled handler removes nothing | lists each usable connection once; what is left behind is dead and gets pruned |
| publish/subscribe (`rpc.py:223-248, 389-440`, `communicaton.py:82-83`) | `rpc.topics`, `rpc.state`, subscriptions | `add_topics`, `subscribe`, `unsubscribe`, `filter`, `notify` | `notify` iterates over a live list across its awaits; overlapping notifications; a replay races with them | everybody gets a notification once; subscribers end up with the latest state |
| message dispatch (`rpc.py:283-355`) | a task per message | decode, look up, call, reply or error | requests of one client overlap; exceptions inside except clauses | each request is answered, by a reply that the client can match to it |
| server-side calls (`communicaton.py:57-79`, `rpc.py:344-355`) | `msg_id`, `pending` per connection | `call`, `confirm`, resolution by a result | timeouts, late and repeated answers, error answers, two id spaces that meet | an answer resolves the call it answers, no entry is left |
| Python client (`client.py`) | `_pending`, `_msg_id`, `_handler`, `_ws`, the worker | connect, `auto_connect`, disconnect, `call`, `subscribe`, the worker loop | one worker does everything in turn; reconnects beside an old worker; explicit ids | as above; a call never waits for itself; one worker per connection |
| wire protocol (`protocol.py`, `exceptions.py`) | the table of error codes | `decode_msg`, `encode_*`, `decode_error` | malformed messages of every kind | accepts what JSON-RPC 2.0 allows, answers the rest by an error |
| argument binding (`rpc.py:31-149`, `decorators.py`) | per method its argument lists and validators | introspection, the call | defaults counted after arguments were dropped | binds like a Python call |
| worker pool (`threading.py`) | executor, futures | `run`, `run_sync` | threads against the event loop, which wait for each other | every result or exception reaches its waiter |
| password file (`auth/passwd.py`) | user table, file, per connection user and permissions | login, logout, create, delete, set password, read, write | threads of the executor on one table and one file, without a lock; crashes | what was acknowledged holds; the table and the file agree; nobody is locked out |
| Django (`auth/django.py`, `django/`) | Django's | session look-up, ORM methods | database threads | Django's own |
| browser client (`django/static/rpc.js`) | `_ws`, pending calls, topic handlers | connect, disconnect, call, subscribe, what arrives | a state arrives before the reply that installs its handler; old websockets beside new ones; handlers that raise | answers reach their call; a confirmed subscription gets its notifications |

How they interact. aiohttp calls `handle_request` for every connection. The
authentication backend gives the request its methods and topics. The receive
loop reads messages and starts a task for each. The tasks and the application's
calls of `notify` share `rpc.clients`, `rpc.state` and the subscriptions, with
no lock: what protects them is that everything runs on one event loop and can
be interrupted only at an `await`. The server may in turn call its clients, and
resolves these calls by results that the receive loop reads. Methods that are not
coroutines run in the worker pool.

## Modules

| module | what it models |
|---|---|
| `Broadcast` | what `notify` promises, as seen from the registry and its audiences |
| `PubSub` | registry, receive loops, the tasks of messages, subscribe, unsubscribe, notify |
| `MCPubSub` | its instances for TLC |
| `PubSubProofs` | type correctness, `RegistrySound`, `NotifyAtMostOnce`, `NotifyComplete`; `PubSub` implements `Broadcast` |
| `PubSubStateProofs` | `RequestsTakeEffect`, `SubscribersUpToDate` |
| `RpcCall` | what a remote call promises its caller |
| `Calls` | calls in both directions of one connection |
| `MCCalls` | its instances for TLC |
| `CallsProofs` | type correctness, `OwnResult`, `NoAnswerLost`, `EntryOfCall`, `OwnError`; `Calls` implements `RpcCall` |
| `ClientConnection` | connect, disconnect and the worker of the Python client |
| `ClientConnectionProofs` | type correctness and the five invariants of `ClientConnection` |
| `Browser` | the client for browsers and the server it talks to |
| `BrowserProofs` | the three properties of `Browser` |
| `MCClients` | instances of the two clients for TLC |
| `ClientsProofs` | the theorems of `BrowserProofs` for the page in `MCClients` |
| `Protocol` | the wire format and the error codes, as operators |
| `MethodArgs` | which arguments a method gets, as operators; extends `Protocol` |
| `Dispatch` | what becomes of a message, with the worker pool; extends `MethodArgs` |
| `MCDispatch` | its instances for TLC: the texts and the methods |
| `DispatchProofs` | type correctness and the other safety properties of `Dispatch` |
| `PasswdAuth` | the table of users, its file, and the rights of a connection |
| `MCPasswdAuth` | its instance for TLC |
| `PasswdProofs` | type correctness and the other properties of `PasswdAuth` |

They meet in the code as follows. `Dispatch` refines the box "task" of `PubSub`,
which knows only whether a message is rejected, called or replied to, and hands
results for calls of the server to `Calls`. `Calls` has one connection of
`ClientConnection`, which has the reconnects and leaves out ids. `PasswdAuth`
computes the `methods` in which `Dispatch` looks a method up.

### PubSub

A step is what a coroutine does between two suspensions. Every handler is cut at
the awaits that may really wait, and nowhere else:

| code | actions |
|---|---|
| `handle_request`, `handle_websocket_request` | `Prepare` up to `ws.prepare`, `Register`, `Receive` for each message, `LoopExit`, `CancelLoop` |
| `_handle_rpc_msg` | `Reject`, `CallMethod` and `MethodReturns`, `RunUnsubscribe`, `SubscribeReturns`, `ReplayState`; ends with `TaskReplied`, `DrainFails` or `TaskClosed` |
| `subscribe` | `ReplayState` for each state that it sends, `SubscribeReturns` after the last |
| `notify`, `filter` | `StartNotify` and `ResumeNotify`, each a `Visit` of the next client or `Exhausted`; `NotifyClosed` |
| `_ws_send_str` | inside these: `Dead` is its test, `Unregister` the removal, "closing" its wait for `ws.close()`, "replying" and "draining" its wait for the send |
| `add_topics` | `AddTopic` |

The list iterator of `filter` is the position `nidx[n]` at which it resumes:
CPython's list iterator is an index, so a removal in front of it makes it step
over an entry (`Overrun`). The data of a notification is its serial number.
`sent`, `due`, `skipped`, `seen`, `excused`, `wanted` and `revived` are history
variables, which no action reads except to update them.

External behaviour, modelled from how `rpc.py` uses aiohttp:

  - `closing[c]` is `transport.is_closing()`, `closed[c]` is `ws.closed`; both
    stay TRUE. `ws.receive()` sets `closed` on a CLOSE frame or the end of the
    connection (`ReceiveClose`), `ws.close()` sets it when it returns;
  - `send_str` hands the frame to the transport at once and may then wait for
    a drain. It raises on a closed websocket or a closing transport, and the
    wait may raise when the connection is lost meanwhile (`DrainFails`);
  - before version 3.7 aiohttp cancels the handler of a lost connection,
    later versions do not: `CancelOnDisconnect`;
  - the event loop starts tasks in the order of `create_task` (`queue`).

Methods other than subscribe and unsubscribe are one kind, "call": they wait
once. "reject" stands for the messages that are answered by an error outside
the try statement. The authentication backend is `DummyAuthBackend`.

`Broadcast` has no list, no iterator and no tasks, but a set of members, an audience
for each topic, and the notifications under way. The audience may change at any
time. A notification starts by looking at who is in its audience, gets to one
recipient after the other, and may return only when everybody who has been in the
audience since its start has got it. The price of the live list is in `Departs`: when a
client leaves the registry, whoever removes it, each notification under way may lose
one recipient who has not got it yet. In `PubSub` the members are the entries of
`clients` as a set, an audience is `Subscribers(t)`, and the lost recipients are
`skipped`.

### Calls

One connection with the calls of both ends. A call stands for its future, so
`pending[s][i]` is the call whose future is stored under `i`; a message carries,
beside its id, the call it belongs to, which only the properties look at.

| code | actions |
|---|---|
| `JsonRpcRequest.call`, `JsonRpcClient.call` | `Call` up to the wait of `send_str`, `Sent` or `SendFails`, then `WakeUp` or `Timeout`. Every look-up of `pending[id]` in the code is one in the model |
| `_handle_rpc_msg` | `ServerGetsRequest`, `ServerReplies`, `ServerGetsResult`, `ServerGetsError` |
| the worker `_handle_msgs` | `ClientGetsRequest` and `MethodEnds`, or `ClientRejects`; `ClientGetsAnswer`; `WorkerStops` |

The server handles each message in a task of its own, so its methods overlap
and answer in any order; the client has one worker, which reads nothing while it
awaits a method. `Nested` are the calls that such a method makes back to the
server. A late answer finds no entry, or a cancelled future, and is dropped,
with an exception or without; both leave the same state. `asyncio.wait_for`
cancels the future it gives up on, so that another call that waits for the same
future, because its caller chose the same id, gets a `CancelledError`; if a
method of the worker lets it pass, the worker stops (`client.py:110-111`).

External, modelled from their use: `send_str` on a lost connection raises, or in
older versions of aiohttp drops the frame (`Send`, `SendFails`); a lost
connection loses the frames that are on their way (`Lose`). Left out: the
cancellation of a caller by its application, and reconnects (see
`ClientConnection`).

`RpcCall` is the view of a caller: the other side answers a call at most once,
and the call ends with that answer or without one. `Calls` implements it when
no id is chosen by hand, except 0, which counts as none, and when no error has to
travel from the client to the server.

### ClientConnection

Several tasks of an application use one `JsonRpcClient`. All of them, and each
worker that a connect started, look `self._ws` and `self._session` up whenever
they need them, and the attributes may change at every await; they may even be
absent, since `disconnect` deletes them, and `auto_connect` tests for that.

| code | actions |
|---|---|
| `connect_url` | `StartConnect` up to the await of `ws_connect` (`Connect`, or `Call` by way of `auto_connect`), then `Connected` or `ConnectFails`; `GivesUp` after the close of the session |
| `disconnect` | `Disconnect`, `CloseSession`, `Delete`: one step up to each await |
| `call` | `Call`, `ReceivesAnswer` or `GivesUp`; ids and results are in `Calls` |
| `_handle_msgs`, `_handle_request` | `WorkerLoops`, `ReceivesAnswer`, `ReceivesRequest`, `MethodEnds`, `ReceivesClose` |

A websocket, its session and its worker are one member of `Sockets`. External:
`ws.close()` wakes the task that receives on this websocket and waits for it; a
second `receive()` on a websocket raises at once, which the worker logs before it
goes round again without an await: `hung`. `failed`, `careless`, `replaced`,
`outlived` and `astray` are history variables. `careless` marks what the
application has to avoid: to connect beside a running worker or another connect,
or to disconnect twice at the same time.

### Browser

Objects of one page, each with the websockets it opened; a websocket knows its
object (`this._ws._rpc`), an object only its last websocket. `_handle_request`,
`call` and the handlers of events run to their end, so each is one step.

| code | actions |
|---|---|
| `connect`, `onopen`, `onclose`, `disconnect` | `Connect`, `Opens`, `Closes` |
| `call`, `subscribe` | `Call` without and with a topic |
| `onmessage` | `TakesRequest`, `TakesNotice`, `TakesAnswer` |
| the server (`rpc.py:293-341, 389-440`) | `Subscribe` and `Reply` for each request, in any order; `Notify`, `ServerCalls` |

`subscribe` stores its handler in the variable `rpc` of the page, not in `this`;
`global` is the object this variable holds, or `None`. Left out: what callbacks of
the application do, `DEBUG`, `unsubscribe` (which the page can only `call`), and the
use the server makes of answers (see `Calls`). `given` says whether `subscribe` was
given a handler. Without one it raises when the reply comes, although the server has
entered the topic (`rpc.js:142`).

### Protocol, MethodArgs and Dispatch

`Protocol` has texts as records of the members that `decode_msg` looks at, with
markers for what JSON allows and the code does not expect (`NotString`,
`NotDict`, `Unhashable`). `Decode` goes through the tests in the order of the code,
because it decides which error wins and whether it carries the id. The encoders
are defined beside it, so that replies can be decoded again.

`MethodArgs` follows `JsonRpcMethod`: the names `request`, `worker_pool` and
`self` are taken out of the list of arguments, the defaults are not cut down with
it, and the optional arguments are the last `Len(defaults)` of what is left, with
Python's slices (`From`). `PythonBinds` is the reference: each argument with the
default that Python gives it.

In `Dispatch` a message is a task: `Arrive`, then `Reject` or `BindingFails` or
`Call`; a method ends on the event loop (`MethodEnds`) or goes through the queue of
the executor (`Take`, `ClientAnswers`, `ThreadEnds`, `Resume`). `Answers` is the try
statement of `rpc.py:315-341`. How a method may end is an attribute of the method:
a value, data that cannot be encoded, one of the three errors that are passed on
(`Handled`), with the code of the server, a code that the application has registered
for an error of its own, no code or one that is in no table, or as an error of a class
derived from them; any other exception, "app" for the application's own direct
subclass of `RpcError`; `StopIteration`. `AppErrors` are the codes of such
subclasses: `exceptions.py:53` enters direct subclasses only, so an error of a derived
class decodes as the generic one (`ClassOf`). A method may also be `raw`
(`raw_response`); then the server sends what it returns as it is, one of `RawTexts`.
A method of a thread may call its
client, which answers or does not; without an executor this blocks the event
loop (`hung`). `set_result` is called from a thread; the end of the executor's job
wakes the loop, so that the task goes on (asyncio's debug mode, which refuses such
calls, is left out).

### PasswdAuth

A step of a thread goes from one access of the table or the file to the next,
because the interpreter may switch threads there:

| code | actions |
|---|---|
| `login`, `create_user`, ... | `Start` hands the operation to a thread, `Resume` goes on after the await; `Logout` |
| `_login` | `LoginTest`, `Compare` after the slow hash, and once more for the permissions |
| `_create_user`, `_delete_user` | `Test`, then `Insert` after the slow hash, or `Pop` |
| `_set_password` | `LoginTest` and `Compare` for an old password, `Assign` for hash and for salt |
| `write` | `Open` truncates the file, `WriteLine` for each entry of the dict, `Close` |
| the process ends and starts again | `Restart`, which reads the file |

`LoginTest` takes three accesses to the entry of the user (`passwd.py:111-114`), for the
test, the salt and the rounds, as one. What another thread does between them can as
well be placed before them or after them: a new password is placed before, and
a deletion after, since the comparison then raises the same `KeyError` as the access to
the salt would.

The dict is iterated while other threads change it: `slots` is its order with the
gaps that deletions leave, and the iterator raises when the number of entries has
changed. Two files opened by overlapping calls of `write` are flushed when they are
closed, each over what is there (`Overlay`, with lines of equal length). Left
out: the number of rounds, names with a colon, topics. The last for a reason:
`_is_authorized` reads `method.method`, which the plain functions in `rpc.topics`
do not have, so that with this backend a server that has topics refuses every
connection by an `AttributeError`.

`promised`, `doubtful` and `spoilt` are history variables. They name what the code
does not protect against. `promised[u]` is the password last acknowledged, or
"open" if the latest change failed; `doubtful` are the users of whom two changes
overlapped, or a change and a crash. `spoilt` is "yes" after overlapping calls of
`write`, unless all of them create; after a deletion during a `write`; after a crash
during a `write`, or after one that raised. It is "partial" after a `write` that
raised, until one ends that has written as many lines as there are users by then.
The deletion and the number of lines matter only with three threads, one more than
the run has; the proof needs both. A creation and a deletion while another creation
writes leave the dict as long as it was, and the iterator does not notice. And a
`write` that began before a user was added may be the last to end.

### Properties of PubSub

  - `RegistrySound`: the registry lists each usable connection exactly once;
    what stays behind is a lost connection whose handler was cancelled; a
    handler fails in `list.remove` only when a sender pruned its entry.
  - `NotifyAtMostOnce`: one call of `notify` writes at most once to a client.
  - `NotifyComplete`: a returning `notify` has written to everybody who was
    subscribed at its start and stayed usable and subscribed, except for those a
    removal moved behind its iterator.
  - `Broadcasts`: `PubSub` implements `Broadcast`. Beyond `NotifyAtMostOnce` and
    `NotifyComplete` it says who can be left out, and how many: a removal costs
    each call of `notify` one client at most, who is in the registry and has not got
    the notification, and nothing but a removal costs it any.
  - `SubscribersUpToDate`: the last frame of a usable subscriber is as new as the
    stored state, or the `notify` that stored it has still to come to this
    client, or the client was skipped or written to by an overtaken `notify`.
  - `RequestsTakeEffect`: when no request of a client is under way, its
    subscriptions are what its requests ask for, in the order of their arrival,
    except for an unsubscribe that ran while a subscribe was suspended.
  - `NotifyEnds`, `TaskEnds`, `DeadEntryRemoved`: liveness. A `notify`, or the task of a
    message, ends unless one client keeps its connection and does not read, and so
    holds it in the send to this client for ever; the clients behind it in the list
    then get no notification either.

`NotifyReachesAllSubscribers` is `NotifyComplete` without the exception: the
README of the repository promises it (`README.rst:346`), and TLC finds the
counterexample. Two clients are subscribed and `notify` waits for the first; the
first closes its connection and its receive loop removes it; the iterator, at
position 2, finds the list at an end, and the second client is never visited.

### Properties of Calls

  - `OwnResult`: a call returns the result of its own request, unless its caller
    chose an id that another call has.
  - `OwnError`: the same for errors.
  - `NoAnswerLost`: the result of a call in flight is in its future or on its
    way, also when it comes before the caller waits for it.
  - `EntryOfCall`: the entry of a call stays in `pending` until the call has its
    result; a call that fails keeps it for ever (`communicaton.py:74`).
  - `KeepsPromise`: `Calls` implements `RpcCall`.
  - `TimedCallEnds`, `ResultArrives`: liveness. A timed call ends unless its send never
    does, since the timeout starts only after it (`client.py:171-174`,
    `communicaton.py:64-68`). `ResultArrives` excuses a
    connection that breaks: an untimed call then waits for ever, at either end.
    It holds only if the calls of a client's methods are timed (`Nested` within
    `Timed`, as by default): the worker cannot read their answers.

TLC finds `OwnError` violated as soon as the server calls a method that the
client lacks. `_handle_rpc_msg` has no branch for errors (`rpc.py:350-355`), so the
client's error is answered by an invalid-request error with the same id. That id
is one of the server's numbering, and the client raises the error from its own
call with this number; the server's call is never resolved.

### Properties of ClientConnection

  - `LoopAlive`: no two workers read one websocket, which would block the loop,
    unless the application was careless or a `disconnect` left a worker behind
    that was inside a method (`outlived`); this last is the code's own doing.
  - `AnswerOnItsConnection`: a worker answers a request on the connection it came
    from, with the same exceptions.
  - `AutoConnectsAlone`: calls that connect by themselves never connect twice.
  - `NoneMeansTrouble`: `_ws` is None only while somebody connects and after a
    connect has failed; from then on `auto_connect` does not connect any more.
  - `NothingLeaks`: sessions and websockets that nobody refers to are closed,
    except the sessions that a second `connect` without a `disconnect` put aside.

### Properties of Browser

  - `AnswersFindTheirCall`: handlers get the answer to their own call, and one; an
    answer of the page goes back on the websocket of the request unless the page
    connected beside it.
  - `DropsExplained`: a notification without a handler is dropped only while a
    subscription to its topic waits for its reply, or after a `subscribe` that was given
    no handler; then all of them are dropped. The replay of a state always
    comes before the reply, so the first subscription to a topic never gets it.
  - `EntriesExplained`: an entry of `_pending` outlives its call only if the
    connection was not open or ended, or the reply to a `subscribe` raised: one without
    a handler, of a topic the server does not know, or on a page without `rpc`.

### Properties of Dispatch

  - `AnswersUnderstood`: what the server encodes as a reply is a message that `decode_msg`
    accepts and that carries the id of the request, unless the request's id could
    not be read or the error has no code of the table. Raw responses are exempt.
  - `ErrorsReachCaller`: the client raises the error that the method raised if that is
    one of the three classes that `rpc.py:327-329` passes on, and an internal error
    for any other, the application's own subclass of `RpcError` included. A class derived
    from the three arrives as the generic one, a registered code as the
    application's error.
  - `BindsLikePython`: a method gets what a Python call would give it. It holds
    only for signatures whose `request`, `worker_pool` or `self` has no default:
    with one, defaults go to the wrong argument (`rpc.py:54-65`). That `self` is
    among these names came out of the proof; no sample of TLC has such a default.
  - `SilenceExplained`: which messages get no reply at all.
  - `EveryRequestAnswered` (liveness): nothing else is left unanswered, except when
    clients that do not answer block every thread, or a method the loop.

Notifications to the server are answered by an error, although JSON-RPC 2.0
forbids a reply; this is what `rpc.py:350-355` does, and the model follows it.

`ServerErrorSent` is the promise of `README.rst:191-193`, that every exception of a
method ends in a reply. TLC finds it violated by a method that raises
`StopIteration` in a thread: a future does not take this exception
(`threading.py:28`), and the task waits for ever.

### Properties of PasswdAuth

  - `AcknowledgedHolds`: a user has the password that was last acknowledged, also
    after a restart.
  - `NobodyLockedOut`: the stored hash belongs to the stored salt, except while
    `_set_password` is between the two assignments.
  - `FileUpToDate`: when nobody writes, the file holds what the table holds.
  - `LoginDecided`: a login during which its user is not changed succeeds if and
    only if the password is right.
  - `PasswordKept`: only `set_password` changes the password of a user who stays.
  - `NeverTrapped`: a connection can always log in, and log out when it is logged
    in, even if the discovery of its methods raised half-way (the permissions of
    new users are a list until the file is read again, `passwd.py:69, 128`).

### Runs

| run | instance | distinct states | shows |
|---|---|---|---|
| `clients` | 3 clients, 1 notify, 1 task, subscribe only, cancellation | 2.5 million | `TypeOK`, `RegistrySound`, `NotifyAtMostOnce`, `NotifyComplete` |
| `overlap` | 2 clients, 2 overlapping notifies, subscribe and unsubscribe, cancellation | 2.5 million | `SubscribersUpToDate`, `Broadcasts` |
| `requests` | 1 client, 2 topics (one added late), 2 tasks, all kinds of message | 0.5 million | `RequestsTakeEffect` |
| `liveness` | 2 clients, 1 notify called twice, 1 task, `FairSpec` | 0.1 million | `NotifyEnds`, `TaskEnds`, `DeadEntryRemoved` |
| `readme` | 2 clients, 1 notify, cancellation | to the violation | `NotifyReachesAllSubscribers` is violated |
| `calls` | 2 calls in each direction, chosen ids 0 and 1, a nested call, missing methods | 1.2 million | `TypeOK`, `OwnResult`, `NoAnswerLost`, `EntryOfCall` |
| `promise` | 1 call of the server, 2 of the client, chosen id 0, a nested call, `FairSpec` | 8 thousand | `OwnError`, `KeepsPromise`, `TimedCallEnds`, `ResultArrives` |
| `crosstalk` | 1 call in each direction, a missing method | to the violation | `OwnError` is violated |
| `connection` | Python: 2 tasks, 3 websockets; browser: 2 objects, 2 websockets (symmetric), 2 calls, 1 topic, with and without a handler | 5.9 million | `TypeOK` of `ClientConnection` and the properties of both clients |
| `passwd` | 1 connection, 2 threads, 2 users, 2 passwords, 4 operations, 1 restart | 2.7 million | the properties of `PasswdAuth` |
| `dispatch` | 2 messages out of 37 texts, 7 methods, one of them raw, 0 to 2 threads | 49 thousand | the properties of `Dispatch` |
| `servererror` | 1 message, 0 or 1 thread | to the violation | `ServerErrorSent` is violated |

Bounds. `MaxSerial` bounds the calls of `notify`, each connection is used once,
and at most `Cardinality(Tasks)` messages are under way. Three clients are the
fewest with an entry before, at and behind an iterator; two notifies the fewest
that overtake each other; two tasks the fewest that interleave in one client. A
slot of `Tasks` is used again when its task has ended, so the number of messages
is not bounded. When the connections and serials are used up the system stops,
so deadlock is not checked; `NotifyEnds` and `TaskEnds` say that nothing stops
half-way. The symmetry of clients, notifiers and tasks is used in the safety
runs only.

For `Calls`, two calls of a side are the fewest that can have an id in common,
and two directions the fewest that can mix up their numberings; `MaxId` bounds the
counters of ids, and lets each run make all of its calls. Each call is made once,
so the runs stop, and deadlock is not checked. In `calls` every call is timed,
since without fairness a timeout need not expire; in `promise` one is not.

In `connection` a Python client or a page moves, never both (`moves`): they share
nothing. Two tasks are the fewest that race for one attribute; three websockets let
a client connect, be replaced, and connect again beside an old worker. Two objects
of a page are the fewest of which one is not `rpc`, two websockets the fewest with
an old one beside a new one. In `passwd` two threads are the fewest that overlap,
and four operations suffice for two that overlap on one user, a third that shows
the damage, and a login; a second user makes files with more than one line. One
restart shows what a crash leaves behind. In `dispatch` two tasks are the fewest
that compete for a thread, and the texts have each malformation that `decode_msg`
tests for. All of these bounds end behaviours, so deadlock is not checked there.

Fairness. `FairSpec` of `PubSub` demands that a task and a `notify` that can take a step
take one: the event loop runs every ready coroutine, `ws.close()` returns within its
timeout, methods return, and the end of a connection (`connection_lost`) ends the
sends that wait. It demands nothing of a send to a client whose connection holds
(`NotifyHeldBy`, `TaskHeldBy`): such a client may stop reading, and neither a
heartbeat nor a timeout ends the wait. A receive loop that has
to end ends, and the end of a *lost* connection reaches `ws.receive()`. Nothing
makes clients connect, send, or close, nothing makes the application call
`notify`. `liveness` runs without cancellation: a cancelled handler leaves its
entry to the next sender, whom nothing forces to come, so `DeadEntryRemoved`
holds only for the versions of aiohttp that do not cancel.

`FairSpec` of `Calls` demands that a caller whose send has returned or failed or
whose future is done goes on; that a send returns or fails only once the connection is
lost (`Held`), for the same reason; that the server and the worker get their own answers
written; that a timeout that nothing forestalls expires, that
each end reads what arrives, and that methods end. It does not demand that the
connection holds, that calls are made, or which way a choice goes.

`Spec` of `Dispatch` demands that the event loop runs a task that can go on, and the
executor a job for which a thread is free, that methods end, and that a client that
answers at all does so in the end. It does not demand that clients answer.

### What is proved

Each theorem holds for all values of the constants that satisfy the assumptions of
its module. `PubSubAssumption`, `CallsAssumption`, `ConnectionAssumption`,
`PasswdAssumption`, `ProtocolAssumption`, `DispatchAssumption` and
`BrowserAssumption` type the
constants and say that `None` and the other markers are none of the things they
stand beside; `PasswdAssumption` adds that there are finitely many users, one of
the passwords is the first, and that the methods of the backend and of the
application have different names. `MethodsAssumption` says in which ways methods
end, that their signatures are such as Python accepts (`IsSignature`: the names of
arguments are distinct, and no more defaults than arguments). `ProtocolAssumption` lets the
application register any of the codes for its own errors. `TextsAssumption` says that
the markers are not among what is sent, raw texts included.
The numbers of clients, connections, calls, tasks, threads, users, messages and
methods are arbitrary.

| theorem | statement | inductive invariant |
|---|---|---|
| `TypeCorrect` | `Spec => []TypeOK` | `Typed`, which adds `Wiring`: an active task has a connection, an active notify a topic and a client |
| `RegistryCorrect` | `Spec => []RegistrySound` | `Typed /\ RegistrySound` |
| `AtMostOnce` | `Spec => []NotifyAtMostOnce` | with `SentBehind`: who was written to is behind the iterator, and past the handshake, so that it cannot register again at the end |
| `Complete` | `Spec => NotifyComplete` | with `DueAhead`: who is due and usable and yet behind the iterator was written to or recorded as skipped |
| `Broadcasting` | `Spec => Broadcasts` | the above, with `Resting` and `Past` |
| `CallsProofs!TypeCorrect` | `Spec => []TypeOK` | `Inductive` of `Calls` |
| `ResultsAreOwn` | `Spec => []OwnResult` | `Inductive` of `Calls` |
| `ClientConnectionProofs!TypeCorrect` | `Spec => []TypeOK` | `Inductive` of `ClientConnection` |
| `NoneIsExplained` | `Spec => []NoneMeansTrouble` | with `NoneExplained`, which asks for a task that waits for `ws_connect` itself |
| `ConnectsAlone` | `Spec => []AutoConnectsAlone` | with `Orderly` |
| `LoopStaysAlive`, `AnswersStay` | `Spec => []LoopAlive`, `Spec => []AnswerOnItsConnection` | with `OneWorker` |
| `NoLeaks` | `Spec => []NothingLeaks` | with `Accounted` |
| `RequestsHaveEffect` | `Spec => []RequestsTakeEffect` | `Typed /\ Tasked /\ InOrder` |
| `SubscribersGetState` | `Spec => []SubscribersUpToDate` | with `RegistrySound` and `Tasked` |
| `ResultsAreKept`, `EntriesAreOwn` | `Spec => []NoAnswerLost`, `Spec => []EntryOfCall` | `Answering` |
| `ErrorsAreOwn` | `Spec => []OwnError`, if not `ClientErrors` | `Answering` with `NoStrays` |
| `ErrorsAreOwnOrNobodys` | an error that a call raises is its own or answers no call | `Answering` |
| `CallsKeepPromise` | `Spec => Promise!Spec` (`KeepsPromise`), if not `ClientErrors` and `ExplicitIds` is within `{0}` | the above, for the step simulation |
| `PasswdProofs!TypeCorrect` | `Spec => []TypeOK` | `Inv` of `PasswdProofs` |
| `PasswordsKept`, `LockedOut`, `ConnectionsFree` | `Spec => PasswordKept`, `[]NobodyLockedOut`, `[]NeverTrapped` | `Inv` |
| `ChangesHold`, `LoginsDecided`, `FileHolds` | `Spec => []AcknowledgedHolds`, `[]LoginDecided`, `[]FileUpToDate` | `Inv` |
| `DispatchProofs!TypeCorrect` | `Spec => []TypeOK` | `Inv` of `DispatchProofs` |
| `RepliesUnderstood`, `ErrorsArrive`, `SilenceHasReasons` | `Spec => []AnswersUnderstood`, `[]ErrorsReachCaller`, `[]SilenceExplained` | `Inv` |
| `BindsAsPython` | `Spec => []BindsLikePython` | with `BoundOK`: what a task's method got is the `Bound` of its message |
| `InvHolds` | `Spec => []Inv` for `Browser` | `Inv` of `BrowserProofs` |
| `FindsTheirCall`, `EntriesHaveReasons`, `DropsHaveReasons` | `ClientsSpec => []AnswersFindTheirCall`, `[]EntriesExplained`, `DropsExplained` | the same |

`Inductive` in `PubSub` is the conjunction of the first four. The common lemma is
`RemoveFirstProperties`, what `list.remove` does to a list, with its
consequence `RemovalEffect` for a list without repetitions: removals are the only
steps that move entries, and by one place only, which is why an entry can be
stepped over but never visited twice. `RemovalKeepsBehind` shows that a skip does
not go unrecorded, `VisitKeepsBehind` that the iterator passes nobody else.

For `Broadcasting` every step is either one of `notify` or `Outside` (`StepKinds`):
outside, the registry gains an entry, loses one or stays (`Joined`, `Left`), and who
is due drops out only by unsubscribing (`DueShrinks`). A removal is a departure
(`RemovalDeparts`), since the client that an iterator steps over is one at or behind its
position, and by `SentBehind` those were not written to. That a visit writes to nobody
who was skipped before takes `Past`: who was skipped is behind the iterator and cannot
come back. `OutsideChanges`, `StartShows` and `ResumeShows` map the steps;
`DueAhead` is what lets an exhausted `notify` return. `Resting` says that an idle
`notify` shows as a notification that is over.

`CallsProofs` assumes `CallsAssumption`: the calls of the two sides differ, and
`None` and the marker of a stopped worker are neither calls nor ids. `OwnResult` is
not inductive: it takes that ids below the counter belong to one call only
(`IdsBelow`, `IdsUnique`), that an entry, a message and a result in a future are
recorded under the id of their call (`PendingOwn`, `MessagesOwn`, `FuturesOwn`), and
that methods run only for calls that were made (`MethodsStarted`). The steps fall in
three kinds with a lemma each: a new call (`CallKeeps`), the end of one
(`EndingKeeps`), and what receivers do (`ReceivingKeeps`).

`ClientConnectionProofs` assumes `ConnectionAssumption`: `None` and the absence of
an attribute differ, and neither is a websocket. None of the
five invariants is inductive by itself. `Orderly` says what a careful application
gets: whoever connects finds None in the attribute
and its own session beside it, whoever disconnects the websocket it closes, and at
most one task does either. From this follow `Accounted`, which tells where an open
session or websocket may be, and `OneWorker`: at most one worker runs, a worker
that has read something read it from the current websocket, and when the session is
being closed no worker receives any more, so that only one inside a method can
outlive the `disconnect`. Each part has a lemma with a step per action
(`OrderlyKeeps`, `AccountedKeeps`, `OneWorkerKeeps`); `LoopsEffect` says what the
head of the worker's loop can lead to.

`PubSubStateProofs` first shows `Tasked`: which tasks are in the queue, what is left
of `todo` at each await, and that nobody is subscribed beyond his topics.
`RequestsTakeEffect` says nothing while requests are under way, so its proof needs
what happens meanwhile. By `InOrder`, the last request in the queue that names a
topic asks for what is wanted. If none in the queue names it, the subscription is
as wanted already, or a suspended `subscribe` will still get to it, or an
unsubscribe overtook one (`Settled`). `SubscribersUpToDate` is inductive, given
`Typed`, `RegistrySound` and `Tasked`, since it
excuses a client for as long as the `notify` with the latest data is before it. A
removal that moves a client behind the iterator makes it skipped
(`RemovalKeepsAhead`); a visit writes to the client, or finds it dead
(`VisitKeepsCurrent`); and whoever subscribes later is sent the state in the step
that subscribes him, or there is none (`NothingMissed`).

The second half of `CallsProofs` shows that a request is read and answered once (`AnswersOnce`),
what a future was resolved by (`FuturesTrue`), and what callers rest on
(`CallersTrue`); with `NoAnswerLost` and `EntryOfCall` this is `Answering`. Whether
an error belongs to the call that raises it depends on `NoStrays`, that no error
is under way that answers nobody, and this is where `~ClientErrors` enters: without
it, the run `crosstalk` is the counterexample, and `ErrorsAreOwnOrNobodys` says
that there is no other kind. For `CallsKeepPromise` each action is shown to be a
step of `RpcCall` or to change nothing that a caller sees.

`PasswdProofs` has one invariant for everything. Who is not doubtful is changed by
one thread at a time (`Exclusive`), so that thread knows how far it has come
(`ChangesTrue`, `ChangesSettled`), and a login in which nobody changes its user
compares what it read (`CalmTrue`, `LoginsTrue`). The file is the hard part.
`WritersTrue` says that the file and the buffer of each thread that writes are a
beginning of the dict: line p is about its p-th user (`Copies`, by the rank of a
slot among those in use), and tells what the table does unless the user is doubtful
or about to be written again. Overlapping creations keep this, because they only
append to the dict. And the file is complete, or a thread that writes will
complete it, or those whose lines lack are about to be written (`Completed`,
`Covers`). When the last one closes the file, `FileTrue` follows, and lasts until
the next one opens it. `FileTrue` in turn makes a restart harmless.

`DispatchProofs` follows each task: `TaskOK` says what its message was if it calls a
method, and, by `Outcome`, that it ends as one that nobody hears of (`Unheard`),
as one that was refused (`Refused`), or as one with the reply that fits the end of
its method (`Replied`). The three properties are then about the operators of
`Protocol`: what `Decode` makes of a refused message (`DecodeOutcome`) and of an
encoded error or result (`ErrorDecodes`, `ResultDecodes`). `QueueOK` and `PoolOK`
are for `TypeOK`, that no more jobs run than there are threads.

`BindsAsPython` compares two ways to count arguments, in lists of any length.
Python counts the defaults from the end of `argspec.args`, the code from the end
of what is left of it without the `Hidden` names. What is left is computed by a
recursive function (`kept` in `Args`). The library's induction theorems cannot be
used here, but that a set of naturals has a least element can (`LeastOf`): the
first list that breaks a claim has a predecessor that does not. This gives
`KeptNames`, that the names left over are distinct, and `KeptEnd`: as far as no
name is taken out, the two lists end alike. Hence `ArgsEnd`: if no name with a
default is hidden, the two lists have the same last `Len(defaults)` names, and
`BindingFits`.

`BrowserProofs` has one invariant. Its parts are about a websocket and the two
queues of messages of it (`Wire`). By `OfCall`, a message about a call finds the
call waiting, under its id, in the table of the object that owns the websocket, be
it an old websocket or the current one; by `Once`, no second message is about the
same call. From these follows `AnswersFindTheirCall`; `EntriesOwn` says in addition
that no two entries are of one call, and `Explained` is `EntriesExplained`, which
is inductive beside the others. For `DropsExplained`, `Handled` says that a topic
that the server has entered for the websocket, and that the page has no handler for,
is `Awaited`: the reply that confirms it is still to be sent or to be read, and
names it (`Confirms`); or it is `Unheard`: its `subscribe` had no handler and has raised. The server may answer in any order, so messages leave the
middle of a queue; `Lacks` tells what stays. A websocket that opens or closes, a
new call, a message that is read, and a message that is sent have a lemma each for
`Wire`. The theorems have `BrowserAssumption` as a hypothesis, since `MCClients`
uses `Browser` by INSTANCE, and assumes it there. `ClientsProofs` carries them over to
`ClientsSpec`: what the two clients do is, for the page, a behaviour of `Browser`
(`PageMoves`).

Only model-checked is liveness, since fairness and ENABLED are out of the prover's
reach: `NotifyEnds`, `TaskEnds`, `DeadEntryRemoved`, `TimedCallEnds`,
`ResultArrives` and `EveryRequestAnswered`. All other properties that the passing
runs check are theorems.

No module with theorems, and none that it uses, has a recursive operator.

## Plan

 1. Done: all modules above.
 2. Theorems: done for every safety property of the passing runs.
 3. Done: the abstract `Broadcast` that `PubSub` implements, and its proof.

## Not modelled

  - `auth/django.py`: the ORM methods and `authenticate` are single calls into
    Django on the event loop. What is its own, the discovery of methods for a user,
    has no step between two awaits and the shape of `Found` in `PasswdAuth`. Rights
    that change later take effect with the next connection.
  - `django/__init__.py`, `apps.py`, `utils.py`: a thread-local of Django replaced by
    a task-local, permissions made after migrations, and a call of `notify` through
    `run_sync`; the state is Django's.
  - `JsonRpcMethod`, `RawJsonRpcMethod` and `JsonRpcClientContext` of `client.py`: they
    hand their arguments to `call`, `connect_url` and `disconnect`.
  - `_handler` of the Python client: `subscribe` stores the handler before it sends
    the request and `unsubscribe` removes it first, both without an await in
    between; a handler that runs is a method in `ClientConnection`.
  - `add_methods` by object or by the name of a module: it runs before the server.
  - In `MethodArgs`: keyword-only and variable arguments, callables without a
    signature, the printed form.
  - Data that `notify` cannot encode (`rpc.py:430`): it stays stored and makes the
    replay of every later `subscribe` to the topic raise.
  - The regeneration of the table of error codes when the application defines
    subclasses later (`exceptions.py:65-74`): `AppErrors` are those that existed when the
    table was made.
  - What a raw response says: its text is the application's.
  - `auto_connect` waits for the handshake without a timeout, also in a timed call
    (`client.py:161`): `ClientConnection` has the wait and no liveness property; `Calls`
    begins with a connection.
  - The pytest fixtures, the examples and the settings of the example projects.
