----------------------------- MODULE MethodArgs -----------------------------
(***************************************************************************)
(* What arguments a method gets (JsonRpcMethod, rpc.py:31-149).            *)
(*                                                                         *)
(* A signature is what getfullargspec() finds: `args', the names of all    *)
(* arguments; `defaults', the values of the last of them; and `checked',   *)
(* the name that @validate has a validator for, or Null.  Params are the   *)
(* values in their order, with their names if they came in an object.      *)
(***************************************************************************)
EXTENDS Protocol, Sequences

CONSTANT Valid  \* the values that the validator accepts

(* What Python sees to: names are distinct, and defaults have arguments.   *)
IsSignature(sig) ==
  /\ sig.args \in Seq(STRING)
  /\ \A i, j \in DOMAIN sig.args : sig.args[i] = sig.args[j] => i = j
  /\ Len(sig.defaults) \in 0..Len(sig.args)

Credentials == {"request", "worker_pool"}
Hidden == Credentials \cup {"self"}

Params(kind, items) == [kind |-> kind, items |-> items]

(* self.args; the defaults are not cut down along with them.               *)
Args(sig) ==
  LET kept[i \in 0..Len(sig.args)] ==
        IF i = 0 THEN <<>>
        ELSE IF sig.args[i] \in Hidden THEN kept[i - 1]
        ELSE Append(kept[i - 1], sig.args[i])
  IN  kept[Len(sig.args)]

(* Python's s[i:] for an i that may be negative.                           *)
From(s, i) ==
  LET first == IF i >= 0 THEN i ELSE IF Len(s) + i >= 0 THEN Len(s) + i ELSE 0
  IN  SubSeq(s, first + 1, Len(s))
Elements(s) == {s[i] : i \in DOMAIN s}

Required(sig) == SubSeq(Args(sig), 1, Len(Args(sig)) - Len(sig.defaults))

(* Mutant: the first arguments are taken for the optional ones.            *)
OptionalFirst(sig) == SubSeq(Args(sig), 1, Len(sig.defaults))

Optional(sig) == From(Args(sig), Len(Args(sig)) - Len(sig.defaults))

(* Lists are matched with the names in order, and what is left over is     *)
(* dropped; a value that is neither list nor object is a list of one.      *)
Given(sig, params) ==
  LET names == Args(sig) items == params.items IN
  IF params.kind = "object"
  THEN [n \in {p[1] : p \in Elements(items)} |->
          (CHOOSE p \in Elements(items) : p[1] = n)[2]]
  ELSE [n \in {names[i] : i \in DOMAIN names \cap DOMAIN items} |->
          items[CHOOSE i \in DOMAIN names : names[i] = n][2]]

(* method_params without the credentials.                                  *)
Bound(sig, given) ==
  LET optional == Optional(sig) required == Elements(Required(sig)) IN
  [n \in required \cup Elements(optional) |->
     IF n \in DOMAIN given THEN given[n]
     ELSE sig.defaults[CHOOSE i \in DOMAIN optional : optional[i] = n]]

(* "runs", or the exception; a validator for an argument that the method   *)
(* does not get from the caller raises a KeyError.                         *)
Binding(sig, params) ==
  LET given == Given(sig, params) bound == Bound(sig, given) IN
  IF ~(Elements(Required(sig)) \subseteq DOMAIN given)
  THEN "RpcInvalidParamsError"
  ELSE IF sig.checked # Null /\ sig.checked \notin DOMAIN bound THEN "KeyError"
  ELSE IF sig.checked # Null /\ bound[sig.checked] \notin Valid
  THEN "RpcInvalidParamsError"
  ELSE "runs"

(* What Python itself binds: each argument has its own default, if any.    *)
OwnDefault(sig, n) ==
  LET i == CHOOSE j \in DOMAIN sig.args : sig.args[j] = n
      skipped == Len(sig.args) - Len(sig.defaults)
  IN  IF i > skipped THEN sig.defaults[i - skipped] ELSE Missing
PythonBinds(sig, given) ==
  [n \in Elements(Args(sig)) |->
     IF n \in DOMAIN given THEN given[n] ELSE OwnDefault(sig, n)]
=============================================================================
