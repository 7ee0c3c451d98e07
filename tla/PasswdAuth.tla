----------------------------- MODULE PasswdAuth -----------------------------
(***************************************************************************)
(* PasswdAuthBackend (auth/passwd.py): a table of users that threads of    *)
(* the executor read and change without a lock, the file it is written to, *)
(* and what a connection may call after login and logout.                  *)
(*                                                                         *)
(* A step of a thread goes from one access to the table or the file to the *)
(* next; the slow hash lies between two of them.  The tasks of a connection*)
(* run on the event loop and hand each operation to a thread.              *)
(***************************************************************************)
EXTENDS SequencesExt, Integers

CONSTANTS
  Conns,        \* connections
  Threads,      \* threads of the executor
  Users,        \* names of users
  Passwords,
  Founders,     \* the users of the file at the first start
  Initial,      \* their password
  RpcMethods,   \* the names in rpc.methods, in their order
  Restricted,   \* those that require a permission, which Founders have
  MaxJobs,      \* bound: operations that are started in a behaviour
  MaxCrashes,   \* bound: restarts of the server
  None

(* The methods of the backend itself.                                      *)
Own == <<"login", "logout", "create_user", "delete_user", "set_password">>

Changes == {"create_user", "delete_user", "set_password"}
Permissions == {"list", "none", "granted"}
Outcomes == Permissions \cup {None, "done", "refused", "raised"}

Salts == 0..MaxJobs
Hashes == [password : Passwords, salt : Salts]
Entries == [hash : Hashes, salt : Salts, perms : Permissions]

ASSUME PasswdAssumption ==
  /\ IsFiniteSet(Users) /\ Founders \subseteq Users /\ Initial \in Passwords
  /\ RpcMethods \in Seq(STRING) /\ Restricted \subseteq ToSet(RpcMethods)
  /\ ToSet(RpcMethods) \cap ToSet(Own) = {}   \* or dict(**methods) raises
  /\ MaxJobs \in Nat /\ MaxCrashes \in Nat
  /\ None \notin Users /\ None \notin Passwords /\ None \notin Entries
  /\ None \notin Changes \cup {"login", "done", "refused", "raised"}
  /\ None \notin Permissions

VARIABLES
  entry,     \* entry[u]: self.user[u], or None
  slots,     \* the entries of that dict in the order of insertion; None where
             \* one was deleted, or a line named a user once more
  file,      \* the lines of the password file
  thread,    \* thread[t]: the operation that t runs and where it is
  conn,      \* conn[c]: user, permissions and methods of the request
  jobs,      \* the number of operations started; the salt that one draws
  crashes,   \* the number of restarts
  promised,  \* history: promised[u], the password last acknowledged for u,
             \* or "open" if the latest change of u failed
  doubtful,  \* history: users of whom two changes overlapped, or one a crash
  spoilt     \* history: "partial" after a write() that raised until one has
             \* written as many users as there are; "yes" once a crash hit a
             \* write() or such a file, or a user was deleted during a write(),
             \* or two calls overlapped that create_user() did not both make

tableVars == <<entry, slots>>
bounds == <<jobs, crashes>>
vars == <<tableVars, file, thread, conn, bounds, promised, doubtful, spoilt>>

-----------------------------------------------------------------------------
(* What a connection may call.                                             *)

LoginRequired == {"logout", "create_user", "delete_user", "set_password"}

(* _is_authorized().  `request.permissions & ...' raises for a list, which *)
(* is what users have who were created since the start of the server.      *)
Raises(p, m) == p = "list" /\ m \in Restricted
Authorized(u, p, m) ==
  (m \in LoginRequired => u # None) /\ (m \in Restricted => p = "granted")

(* prepare_request() looks through a pool of methods until it is through or*)
(* raises.                                                                 *)
Found(pool, u, p) ==
  {pool[i] : i \in {j \in DOMAIN pool :
     Authorized(u, p, pool[j]) /\ \A k \in 1..j : ~Raises(p, pool[k])}}

(* Mutant: the methods of the application come first.                      *)
SessionAppFirst(u, p) ==
  [user |-> u, perms |-> p, methods |-> Found(RpcMethods \o Own, u, p)]

Session(u, p) ==
  [user |-> u, perms |-> p, methods |-> Found(Own \o RpcMethods, u, p)]

-----------------------------------------------------------------------------
(* The table and the file.                                                 *)

Hash(p, s) == [password |-> p, salt |-> s]
Present(u) == entry[u] # None
Without(u) == [i \in DOMAIN slots |-> IF slots[i] = u THEN None ELSE slots[i]]
Size == Cardinality({u \in Users : Present(u)})
PasswordOf(e) == IF e = None THEN None ELSE e.hash.password

(* A line; `','.join([])' is read back as a set.                           *)
Line(u) ==
  [name |-> u, hash |-> entry[u].hash, salt |-> entry[u].salt,
   perms |-> IF entry[u].perms = "list" THEN "none" ELSE entry[u].perms]

(* read(): of two lines with one name the latter counts, in the place of   *)
(* the former.                                                             *)
ReadEntry(f, u) ==
  LET is == {i \in DOMAIN f : f[i].name = u} IN
  IF is = {} THEN None
  ELSE LET l == f[Max(is)]
       IN  [hash |-> l.hash, salt |-> l.salt, perms |-> l.perms]

ReadSlots(f) ==
  [i \in DOMAIN f |->
    IF \A j \in 1..(i - 1) : f[j].name # f[i].name THEN f[i].name ELSE None]

(* A file is flushed when it is closed, over what is there.                *)
Overlay(new, old) == new \o SubSeq(old, Len(new) + 1, Len(old))

Idle ==
  [at |-> "idle", conn |-> None, op |-> None, user |-> None, password |-> None,
   old |-> None, new |-> 0, salt |-> 0, size |-> 0, next |-> 0,
   buf |-> <<>>, result |-> None, calm |-> FALSE]
Writing(t) == thread[t].at \in {"iterate", "close"}
Changing(t, u) == thread[t].op \in Changes /\ thread[t].user = u

Founded ==
  LET us == SetToSeq(Founders)
  IN  [i \in DOMAIN us |->
        [name |-> us[i], hash |-> Hash(Initial, 0), salt |-> 0,
         perms |-> "granted"]]

Init ==
  /\ entry = [u \in Users |-> ReadEntry(Founded, u)]
  /\ slots = ReadSlots(Founded)
  /\ file = Founded
  /\ thread = [t \in Threads |-> Idle]
  /\ conn = [c \in Conns |-> Session(None, "none")]
  /\ jobs = 0 /\ crashes = 0
  /\ promised = [u \in Users |-> IF u \in Founders THEN Initial ELSE None]
  /\ doubtful = {} /\ spoilt = "no"

-----------------------------------------------------------------------------
(* Steps of a thread.                                                      *)

At(t, step) == thread[t].at = step

Goes(t, step) ==
  /\ thread' = [thread EXCEPT ![t].at = step]
  /\ UNCHANGED promised

(* The operation ends with r: "done" is True, "refused" False, "raised" a  *)
(* KeyError or a RuntimeError; a login returns the permissions, or None.   *)
Ends(t, r) ==
  LET job == thread[t] IN
  /\ thread' = [thread EXCEPT ![t] =
       [Idle EXCEPT !.at = "resume", !.conn = job.conn, !.op = job.op,
                    !.user = job.user, !.password = job.password,
                    !.calm = job.calm, !.result = r]]
  /\ promised' =
       IF job.op \in Changes /\ r \in {"done", "raised"}
       THEN [promised EXCEPT ![job.user] =
               IF r = "raised" THEN "open" ELSE job.password]
       ELSE promised

Elsewhere == UNCHANGED <<conn, bounds, doubtful>>
TableOnly == Elsewhere /\ UNCHANGED <<file, spoilt>>
ReadOnly == TableOnly /\ UNCHANGED tableVars

(* _login(): as an operation, or in _set_password() with the old password. *)
(* The test for the user and the accesses to salt and rounds are one step: *)
(* what else happens between them could as well happen before or after, as *)
(* a user who is deleted there makes the comparison raise too.             *)
Secret(t) ==
  IF thread[t].op = "login" THEN thread[t].password ELSE thread[t].old
NoLogin(t) == Ends(t, IF thread[t].op = "login" THEN None ELSE "refused")

LoginTest(t) ==
  LET u == thread[t].user IN
  /\ At(t, "login")
  /\ \/ ~Present(u) /\ NoLogin(t)
     \/ /\ Present(u)
        /\ thread' = [thread EXCEPT ![t].at = "compare",
                                    ![t].salt = entry[u].salt]
        /\ UNCHANGED promised
  /\ ReadOnly

(* After the slow hash; the access to the permissions looks the entry up   *)
(* again.                                                                  *)
Compare(t) ==
  LET u == thread[t].user
      right == Hash(Secret(t), thread[t].salt)
      next == IF thread[t].op = "login" THEN "permissions" ELSE "setHash" IN
  /\ At(t, "compare") \/ At(t, "permissions")
  /\ \/ ~Present(u) /\ Ends(t, "raised")
     \/ Present(u) /\ At(t, "compare") /\ entry[u].hash # right /\ NoLogin(t)
     \/ /\ Present(u) /\ At(t, "compare") /\ entry[u].hash = right
        /\ Goes(t, next)
     \/ Present(u) /\ At(t, "permissions") /\ Ends(t, entry[u].perms)
  /\ ReadOnly

(* Mutant: create_user() does not test for the user.                       *)
TestDelete(t) ==
  LET u == thread[t].user IN
  /\ \/ At(t, "create") /\ Goes(t, "insert")
     \/ At(t, "delete") /\ Present(u) /\ Goes(t, "pop")
     \/ At(t, "delete") /\ ~Present(u) /\ Ends(t, "refused")
  /\ ReadOnly

Test(t) ==
  LET u == thread[t].user IN
  /\ \/ At(t, "create") /\ ~Present(u) /\ Goes(t, "insert")
     \/ At(t, "create") /\ Present(u) /\ Ends(t, "refused")
     \/ At(t, "delete") /\ Present(u) /\ Goes(t, "pop")
     \/ At(t, "delete") /\ ~Present(u) /\ Ends(t, "refused")
  /\ ReadOnly

(* Mutant: a name that exists is inserted once more.                       *)
InsertTwice(t) ==
  LET u == thread[t].user new == thread[t].new IN
  /\ At(t, "insert")
  /\ entry' = [entry EXCEPT ![u] =
       [hash |-> Hash(thread[t].password, new), salt |-> new,
        perms |-> "list"]]
  /\ slots' = Append(slots, u)
  /\ Goes(t, "open") /\ TableOnly

(* After the slow hash, whether or not the user exists meanwhile.          *)
Insert(t) ==
  LET u == thread[t].user new == thread[t].new IN
  /\ At(t, "insert")
  /\ entry' = [entry EXCEPT ![u] =
       [hash |-> Hash(thread[t].password, new), salt |-> new,
        perms |-> "list"]]
  /\ slots' = IF Present(u) THEN slots ELSE Append(slots, u)
  /\ Goes(t, "open") /\ TableOnly

(* Mutant: a deleted user stays in the file.                               *)
PopUnwritten(t) ==
  LET u == thread[t].user IN
  /\ At(t, "pop") /\ Present(u)
  /\ entry' = [entry EXCEPT ![u] = None]
  /\ slots' = Without(u)
  /\ Ends(t, "done") /\ TableOnly

Pop(t) ==
  LET u == thread[t].user IN
  /\ At(t, "pop")
  /\ \/ ~Present(u) /\ Ends(t, "raised") /\ UNCHANGED tableVars
     \/ /\ Present(u)
        /\ entry' = [entry EXCEPT ![u] = None]
        /\ slots' = Without(u)
        /\ Goes(t, "open")
  /\ spoilt' = IF Present(u) /\ \E s \in Threads : Writing(s) THEN "yes"
                                                            ELSE spoilt
  /\ Elsewhere /\ UNCHANGED file

(* Mutant: the old salt is kept.                                           *)
AssignHash(t) ==
  LET u == thread[t].user IN
  /\ At(t, "setHash") /\ Present(u)
  /\ entry' = [entry EXCEPT ![u].hash =
                 Hash(thread[t].password, thread[t].new)]
  /\ Goes(t, "open") /\ TableOnly /\ UNCHANGED slots

(* After the slow hash, one assignment after the other.                    *)
Assign(t) ==
  LET u == thread[t].user new == thread[t].new IN
  /\ At(t, "setHash") \/ At(t, "setSalt")
  /\ \/ ~Present(u) /\ Ends(t, "raised") /\ UNCHANGED entry
     \/ /\ Present(u) /\ At(t, "setHash")
        /\ entry' = [entry EXCEPT ![u].hash = Hash(thread[t].password, new)]
        /\ Goes(t, "setSalt")
     \/ /\ Present(u) /\ At(t, "setSalt")
        /\ entry' = [entry EXCEPT ![u].salt = new]
        /\ Goes(t, "open")
  /\ TableOnly /\ UNCHANGED slots

(* write(): open() truncates the file, and the iteration begins.           *)
Open(t) ==
  LET others == {s \in Threads \ {t} : Writing(s)} IN
  /\ At(t, "open")
  /\ file' = <<>>
  /\ thread' = [thread EXCEPT ![t].at = "iterate", ![t].size = Size,
                              ![t].next = 1, ![t].buf = <<>>]
  /\ spoilt' =
       IF others # {} /\ \E s \in others \cup {t} : thread[s].op # "create_user"
       THEN "yes" ELSE spoilt
  /\ Elsewhere /\ UNCHANGED <<tableVars, promised>>

WriteLine(t) ==
  LET next == thread[t].next IN
  /\ At(t, "iterate") /\ Size = thread[t].size
  /\ IF next > Len(slots)
     THEN thread' = [thread EXCEPT ![t].at = "close"]
     ELSE thread' = [thread EXCEPT ![t].next = next + 1, ![t].buf =
            IF slots[next] = None THEN @ ELSE Append(@, Line(slots[next]))]
  /\ ReadOnly /\ UNCHANGED promised

(* The iterator raises when the number of entries has changed; the file is *)
(* closed in any case.                                                     *)
Close(t) ==
  /\ file' = Overlay(thread[t].buf, file)
  /\ \/ /\ At(t, "close") /\ Ends(t, "done")
        /\ spoilt' = IF spoilt = "partial" /\ Size = thread[t].size
                     THEN "no" ELSE spoilt
     \/ /\ At(t, "iterate") /\ Size # thread[t].size /\ Ends(t, "raised")
        /\ spoilt' = IF spoilt = "no" THEN "partial" ELSE spoilt
  /\ Elsewhere /\ UNCHANGED tableVars

-----------------------------------------------------------------------------
(* The event loop.                                                         *)

FirstStep ==
  [login |-> "login", create_user |-> "create", delete_user |-> "delete",
   set_password |-> "setHash"]

(* The method of a request hands its operation to a thread.                *)
Start(t, c, op, u, p, old) ==
  LET others == {s \in Threads : Changing(s, u)} IN
  /\ At(t, "idle") /\ op \in conn[c].methods
  /\ (p = None) <=> (op = "delete_user")
  /\ old # None => op = "set_password"
  /\ jobs < MaxJobs /\ jobs' = jobs + 1
  /\ doubtful' = IF op \in Changes /\ others # {} THEN doubtful \cup {u}
                                                  ELSE doubtful
  /\ thread' =
       LET job == [Idle EXCEPT
             !.at = IF old = None THEN FirstStep[op] ELSE "login",
             !.conn = c, !.op = op, !.user = u, !.password = p, !.old = old,
             !.new = jobs', !.calm = others = {}]
       IN  [s \in Threads |->
             IF s = t THEN job
             ELSE IF op \in Changes /\ thread[s].user = u
             THEN [thread[s] EXCEPT !.calm = FALSE] ELSE thread[s]]
  /\ UNCHANGED <<tableVars, file, conn, crashes, promised, spoilt>>

(* The await is over; a login replaces the user, also if it was refused.   *)
Resume(t) ==
  LET job == thread[t]
      session == IF job.result = None THEN Session(None, "none")
                                      ELSE Session(job.user, job.result) IN
  /\ At(t, "resume")
  /\ thread' = [thread EXCEPT ![t] = Idle]
  /\ conn' = IF job.op = "login" /\ job.result # "raised"
             THEN [conn EXCEPT ![job.conn] = session] ELSE conn
  /\ UNCHANGED <<tableVars, file, bounds, promised, doubtful, spoilt>>

Logout(c) ==
  /\ "logout" \in conn[c].methods
  /\ conn' = [conn EXCEPT ![c] = Session(None, "none")]
  /\ UNCHANGED <<tableVars, file, thread, bounds, promised, doubtful, spoilt>>

(* Mutant: the users of the file are not read again.                       *)
RestartEmpty ==
  /\ crashes < MaxCrashes /\ crashes' = crashes + 1
  /\ entry' = [u \in Users |-> None] /\ slots' = <<>>
  /\ thread' = [t \in Threads |-> Idle]
  /\ conn' = [c \in Conns |-> Session(None, "none")]
  /\ UNCHANGED <<file, jobs, promised, doubtful, spoilt>>

(* The process ends at any point and is started again.                     *)
Restart ==
  LET hit == {u \in Users : \E t \in Threads : Changing(t, u)} IN
  /\ crashes < MaxCrashes /\ crashes' = crashes + 1
  /\ entry' = [u \in Users |-> ReadEntry(file, u)]
  /\ slots' = ReadSlots(file)
  /\ thread' = [t \in Threads |-> Idle]
  /\ conn' = [c \in Conns |-> Session(None, "none")]
  /\ promised' = [u \in Users |-> IF u \in hit THEN "open" ELSE promised[u]]
  /\ doubtful' = doubtful \cup hit
  /\ spoilt' = IF spoilt = "partial" \/ \E t \in Threads : Writing(t)
               THEN "yes" ELSE spoilt
  /\ UNCHANGED <<file, jobs>>

Work(t) ==
  \/ LoginTest(t) \/ Compare(t) \/ Test(t) \/ Insert(t) \/ Pop(t)
  \/ Assign(t) \/ Open(t) \/ WriteLine(t) \/ Close(t) \/ Resume(t)

Next ==
  \/ \E t \in Threads : Work(t)
  \/ \E t \in Threads, c \in Conns, op \in Changes \cup {"login"}, u \in Users,
        p \in Passwords \cup {None}, old \in Passwords \cup {None} :
       Start(t, c, op, u, p, old)
  \/ \E c \in Conns : Logout(c)
  \/ Restart

Spec == Init /\ [][Next]_vars

-----------------------------------------------------------------------------
(* What is true of it.                                                     *)

Lines == [name : Users, hash : Hashes, salt : Salts, perms : Permissions]
Steps == {"idle", "login", "compare", "permissions", "create", "insert",
          "delete", "pop", "setHash", "setSalt", "open", "iterate", "close",
          "resume"}
Jobs ==
  [at : Steps, conn : Conns \cup {None}, op : Changes \cup {"login", None},
   user : Users \cup {None}, password : Passwords \cup {None},
   old : Passwords \cup {None}, new : Salts, salt : Salts, size : Nat,
   next : Nat, buf : Seq(Lines), calm : BOOLEAN, result : Outcomes]
Sessions ==
  [user : Users \cup {None}, perms : Permissions,
   methods : SUBSET (ToSet(Own) \cup ToSet(RpcMethods))]

(* Every variable has its type, and the dict lists each present user once. *)
TypeOK ==
  /\ entry \in [Users -> Entries \cup {None}]
  /\ slots \in Seq(Users \cup {None}) /\ file \in Seq(Lines)
  /\ \A u \in Users : Cardinality({i \in DOMAIN slots : slots[i] = u}) =
                        IF Present(u) THEN 1 ELSE 0
  /\ thread \in [Threads -> Jobs]
  /\ conn \in [Conns -> Sessions]
  /\ jobs \in Salts /\ crashes \in 0..MaxCrashes
  /\ promised \in [Users -> Passwords \cup {None, "open"}]
  /\ doubtful \subseteq Users /\ spoilt \in {"no", "partial", "yes"}

AtRest(u) == ~\E t \in Threads : Changing(t, u)

(* The stored hash of a user belongs to the stored salt, so that somebody  *)
(* can log in, except while set_password() is between the two, after two   *)
(* changes of one user overlapped or a crash interrupted one, and when the *)
(* file was spoilt, in which a write() for another user may have left a    *)
(* user between the two (passwd.py:99-101).                                *)
NobodyLockedOut ==
  spoilt # "yes" => \A u \in Users : Present(u) /\ u \notin doubtful =>
    \/ entry[u].hash.salt = entry[u].salt
    \/ \E t \in Threads : At(t, "setSalt") /\ thread[t].user = u

(* When nobody writes or is about to, the file holds each user who is not  *)
(* being changed as the table does, unless changes of the user overlapped, *)
(* calls of write() that were not all made by create_user(), or a deletion *)
(* with a write(): creations of different users, while the table only      *)
(* grows, do each other no harm (passwd.py:40-50).                         *)
FileUpToDate ==
  spoilt # "yes" /\ ~(\E t \in Threads : Writing(t) \/ At(t, "open"))
  => \A u \in Users \ doubtful : AtRest(u) =>
       IF Present(u) THEN Line(u) \in ToSet(file)
                     ELSE \A i \in DOMAIN file : file[i].name # u

(* What was acknowledged holds, also after a restart: a user has the       *)
(* password that the last successful change gave, unless overlapping       *)
(* changes, overlapping writes, a deletion or a crash within a write spoilt*)
(* it (passwd.py:52-105, 16-38).                                           *)
AcknowledgedHolds ==
  spoilt # "yes" => \A u \in Users \ doubtful : AtRest(u) =>
    promised[u] \in {"open", PasswordOf(entry[u])}

(* A login during which nobody changed its user is decided by the password:*)
(* the right one is accepted and a wrong one refused, also when the table  *)
(* was read from a file that is not spoilt (passwd.py:107-119).            *)
LoginDecided ==
  spoilt # "yes" => \A t \in Threads :
    LET job == thread[t] IN
    job.op = "login" /\ job.at = "resume" /\ job.calm
      /\ job.user \notin doubtful
    => /\ job.result # "raised"
       /\ job.result # None <=> PasswordOf(entry[job.user]) = job.password

(* The password of a user who stays is changed by set_password() only, not *)
(* by a second creation, unless changes of the user overlapped; a restart  *)
(* may bring an old one back (passwd.py:55, 65).                           *)
PasswordKept ==
  [][\A u \in Users \ doubtful' :
       entry[u] # None /\ entry'[u] # None
         /\ PasswordOf(entry[u]) # PasswordOf(entry'[u]) =>
           \/ crashes' # crashes
           \/ \E t \in Threads : At(t, "setHash") /\ thread[t].user = u]_vars

(* A connection can always log in, and log out if it is logged in, even if *)
(* the discovery of its methods failed half-way; without a user it can call*)
(* nothing that requires one (passwd.py:144-155, 179-194).                 *)
NeverTrapped ==
  \A c \in Conns :
    /\ "login" \in conn[c].methods
    /\ conn[c].user # None <=> "logout" \in conn[c].methods
    /\ conn[c].user = None => conn[c].methods \cap LoginRequired = {}
=============================================================================
