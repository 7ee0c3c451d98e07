---------------------------- MODULE PasswdProofs ----------------------------
(* Theorems about PasswdAuth for every value of its constants, and the     *)
(* inductive invariant and the lemmas they rest on.                        *)
EXTENDS PasswdAuth, SequenceTheorems, FiniteSetTheorems, WellFoundedInduction,
        TLAPS

-----------------------------------------------------------------------------
(* The types, and how far a job can be.                                    *)

(* The operations that have a step, and what they end with.                *)
StepOf(at, op) ==
  /\ at \in {"login", "compare"} => op \in {"login", "set_password"}
  /\ at = "permissions" => op = "login"
  /\ at \in {"create", "insert"} => op = "create_user"
  /\ at \in {"delete", "pop"} => op = "delete_user"
  /\ at \in {"setHash", "setSalt"} => op = "set_password"
  /\ at \in {"open", "iterate", "close"} => op \in Changes

ResultOf(op, r) ==
  IF op = "login" THEN r \in Permissions \cup {None, "raised"}
                  ELSE r \in {"done", "refused", "raised"}

(* A thread runs an operation that has the step that it is at.             *)
JobOK(job) ==
  /\ job \in Jobs
  /\ job.at = "idle" <=> job.op = None
  /\ job.at # "idle" => job.conn \in Conns /\ job.user \in Users
  /\ job.op = "delete_user" => job.password = None
  /\ job.op \in {"login", "create_user", "set_password"} =>
       job.password \in Passwords
  /\ StepOf(job.at, job.op)
  /\ job.at = "iterate" => job.next >= 1
  /\ job.at = "resume" => ResultOf(job.op, job.result)

JobsOK == \A t \in Threads : JobOK(thread[t])

(* slots lists each user once who is present, and nobody else.             *)
Listed ==
  /\ \A i, j \in DOMAIN slots : slots[i] = slots[j] /\ slots[i] # None => i = j
  /\ \A u \in Users : Present(u) <=> \E i \in DOMAIN slots : slots[i] = u

TableOK ==
  /\ entry \in [Users -> Entries \cup {None}]
  /\ slots \in Seq(Users \cup {None})
  /\ Listed

ConnsOK ==
  /\ conn \in [Conns -> Sessions]
  /\ \A c \in Conns : \E u \in Users \cup {None}, p \in Permissions :
       conn[c] = Session(u, p)

HistoryOK ==
  /\ jobs \in Salts /\ crashes \in 0..MaxCrashes
  /\ promised \in [Users -> Passwords \cup {None, "open"}]
  /\ doubtful \subseteq Users /\ spoilt \in {"no", "partial", "yes"}

Typed ==
  /\ TableOK /\ file \in Seq(Lines) /\ ConnsOK /\ HistoryOK
  /\ thread \in [Threads -> Jobs] /\ JobsOK

-----------------------------------------------------------------------------
(* What the jobs know of the user that they change.                        *)

Settled(u) == promised[u] \in {"open", PasswordOf(entry[u])}

(* One thread at a time changes a user who is not doubtful.                *)
Exclusive ==
  \A u \in Users \ doubtful, s, t \in Threads :
    Changing(s, u) /\ Changing(t, u) => s = t

(* How far the change of such a user is.                                   *)
ChangesTrue ==
  \A t \in Threads : thread[t].op \in Changes /\ thread[t].user \notin doubtful
  => LET job == thread[t] u == job.user IN
       /\ job.at = "insert" => ~Present(u)
       /\ job.at = "setSalt" =>
            Present(u) /\ entry[u].hash = Hash(job.password, job.new)
       /\ job.at \in {"setSalt", "open", "iterate", "close"} =>
            PasswordOf(entry[u]) = job.password

(* Until then, and after it, the user has the password last acknowledged.  *)
ChangesSettled ==
  spoilt # "yes" => \A u \in Users \ doubtful :
    (\A t \in Threads : Changing(t, u) =>
       thread[t].at \notin {"setSalt", "open", "iterate", "close"})
    => Settled(u)

(* Nobody changes the user of a calm login, and what it read is still so.  *)
Calm(t) ==
  thread[t].op = "login" /\ thread[t].calm /\ thread[t].user \notin doubtful

CalmTrue ==
  \A t \in Threads : Calm(t) => ~\E s \in Threads : Changing(s, thread[t].user)

LoginsTrue ==
  spoilt # "yes" => \A t \in Threads : Calm(t) =>
    /\ At(t, "compare") =>
         Present(thread[t].user) /\ thread[t].salt = entry[thread[t].user].salt
    /\ At(t, "permissions") =>
         /\ Present(thread[t].user)
         /\ PasswordOf(entry[thread[t].user]) = thread[t].password
    /\ At(t, "resume") =>
         /\ thread[t].result # "raised"
         /\ thread[t].result # None <=>
              PasswordOf(entry[thread[t].user]) = thread[t].password

-----------------------------------------------------------------------------
(* What the file and the buffers hold.                                     *)

(* A thread is about to write an entry that it has changed.                *)
Reset(u) ==
  \E s \in Threads : /\ thread[s].op = "set_password" /\ thread[s].user = u
                     /\ thread[s].at \in {"setSalt", "open"}
AtOpen(u) == \E s \in Threads : Changing(s, u) /\ At(s, "open")

(* The users whose line may be wrong, and those who are about to be written*)
(* by the thread that inserted, changed or deleted them.                   *)
Loose == doubtful \cup {u \in Users : Reset(u)}
Due == {u \in Users : AtOpen(u)}

(* The place of slot i of s among those that are not empty.                *)
RankIn(s, i) == Cardinality({j \in 1..i : s[j] # None})
Rank(i) == RankIn(slots, i)
Placed(p, u, s) == \E j \in DOMAIN s : s[j] = u /\ RankIn(s, j) = p

(* The lines of f are those of the first users of the dict s, and tell what*)
(* the table e does, but for the loose users R.                            *)
LineIn(u, e) ==
  [name |-> u, hash |-> e[u].hash, salt |-> e[u].salt,
   perms |-> IF e[u].perms = "list" THEN "none" ELSE e[u].perms]
Copies(f, e, s, R) ==
  \A p \in DOMAIN f :
    /\ Placed(p, f[p].name, s)
    /\ f[p].name \in R \/ f[p] = LineIn(f[p].name, e)

(* The users behind the first k of the dict s are due.                     *)
Covers(k, s, D) ==
  \A j \in DOMAIN s : s[j] # None /\ RankIn(s, j) > k => s[j] \in D

Agrees(u) ==
  IF Present(u)
  THEN /\ \E i \in DOMAIN file : file[i].name = u
       /\ \A i \in DOMAIN file : file[i].name = u => file[i] = Line(u)
  ELSE \A i \in DOMAIN file : file[i].name # u

(* What a thread has buffered that writes.                                 *)
Buffered(job, e, s, R) ==
  /\ Copies(job.buf, e, s, R)
  /\ job.next \in 1..(Len(s) + 1)
  /\ Len(job.buf) = RankIn(s, job.next - 1)
  /\ job.size <= RankIn(s, Len(s))
  /\ job.at = "close" => Len(job.buf) = job.size

Writer == \E t \in Threads : Writing(t)
Retried == spoilt = "partial" /\ \E t \in Threads : At(t, "open")

(* While somebody writes, the file and the buffers begin as the dict does, *)
(* and the file is complete or somebody will complete it.                  *)
Completed ==
  \/ Retried
  \/ Covers(Len(file), slots, Due)
  \/ \E t \in Threads : Writing(t) /\ Covers(thread[t].size, slots, Due)

WritersTrue ==
  spoilt # "yes" /\ Writer =>
    /\ Copies(file, entry, slots, Loose)
    /\ \A t \in Threads :
         Writing(t) => Buffered(thread[t], entry, slots, Loose)
    /\ Completed

(* While nobody does, it is complete but for those who are about to.       *)
FileTrue ==
  spoilt # "yes" /\ ~Writer =>
    \/ Retried
    \/ \A u \in Users \ doubtful : Reset(u) \/ AtOpen(u) \/ Agrees(u)

Inv ==
  /\ Typed /\ Exclusive /\ ChangesTrue /\ ChangesSettled /\ NobodyLockedOut
  /\ CalmTrue /\ LoginsTrue /\ WritersTrue /\ FileTrue

-----------------------------------------------------------------------------
(* Sets of numbers, and ranks.                                             *)

(* A set of natural numbers that is not empty has a least element.         *)
LEMMA LeastOf ==
  ASSUME NEW I \in SUBSET Nat, I # {}
  PROVE  \E x \in I : \A y \in I : x <= y
<1>1. \E x \in I : \A y \in I : ~ (<<y, x>> \in OpToRel(<, Nat))
  BY NatLessThanWellFounded, WFMin
<1>2. \A x, y \in Nat : y < x => <<y, x>> \in OpToRel(<, Nat)
  BY DEF OpToRel
<1>3. PICK x \in I : \A y \in I : ~ (<<y, x>> \in OpToRel(<, Nat))
  BY <1>1
<1>4. ASSUME NEW y \in I, ~ (x <= y) PROVE FALSE
  <2>1. y < x /\ x \in Nat /\ y \in Nat
    BY <1>4
  <2> QED
    BY <1>2, <1>3, <2>1
<1> QED
  BY <1>3, <1>4

(* Max is the greatest of some numbers up to n.                            *)
LEMMA MaxOf ==
  ASSUME NEW n \in Nat, NEW I \in SUBSET (1..n), I # {}
  PROVE  Max(I) \in I /\ \A j \in I : j <= Max(I)
<1> DEFINE J == {k \in Nat : n - k \in I}
<1>1. J # {}
  <2>1. PICK i \in I : TRUE
    OBVIOUS
  <2>2. n - i \in Nat /\ n - (n - i) = i
    BY <2>1
  <2> QED
    BY <2>1, <2>2
<1>2. PICK k \in J : \A y \in J : k <= y
  BY <1>1, LeastOf
<1>3. ASSUME NEW j \in I PROVE j <= n - k
  <2>1. n - j \in J
    <3>1. n - j \in Nat /\ n - (n - j) = j
      OBVIOUS
    <3> QED
      BY <3>1
  <2> QED
    BY <1>2, <2>1
<1>4. n - k \in I /\ k \in Nat
  BY <1>2
<1>5. \A j \in I : n - k >= j
  BY <1>3, <1>4
<1> DEFINE m == n - k
<1>6. m \in I /\ (\A j \in I : m >= j) /\ I \subseteq Nat
  BY <1>4, <1>5
<1> HIDE DEF m
<1>7. Max(I) \in I /\ \A j \in I : Max(I) >= j
  BY <1>6 DEF Max
<1> QED
  BY <1>6, <1>7

(* Ranks are numbers, and grow by one at each slot that is not empty.      *)
LEMMA RankSteps ==
  ASSUME NEW s
  PROVE  /\ RankIn(s, 0) = 0
         /\ \A i \in Nat : RankIn(s, i) \in Nat
         /\ \A i \in Nat \ {0} :
              RankIn(s, i) = IF s[i] = None THEN RankIn(s, i - 1)
                                            ELSE RankIn(s, i - 1) + 1
<1> DEFINE Upto(i) == {j \in 1..i : s[j] # None}
<1>1. \A i \in Nat : IsFiniteSet(Upto(i)) /\ Cardinality(Upto(i)) \in Nat
  <2>1. ASSUME NEW i \in Nat
        PROVE  IsFiniteSet(Upto(i)) /\ Cardinality(Upto(i)) \in Nat
    <3>1. IsFiniteSet(1..i)
      BY FS_Interval
    <3>2. Upto(i) \subseteq 1..i
      OBVIOUS
    <3> QED
      BY <3>1, <3>2, FS_Subset, FS_CardinalityType
  <2> QED
    BY <2>1
<1>2. Upto(0) = {}
  OBVIOUS
<1>3. ASSUME NEW i \in Nat \ {0}
      PROVE  Upto(i) = IF s[i] = None THEN Upto(i - 1) ELSE Upto(i - 1) \cup {i}
  <2>1. i - 1 \in Nat /\ 1..i = (1..(i - 1)) \cup {i}
    OBVIOUS
  <2> QED
    BY <2>1
<1>4. \A i \in Nat \ {0} : i - 1 \in Nat /\ i \notin Upto(i - 1)
  OBVIOUS
<1>5. ASSUME NEW i \in Nat \ {0}
      PROVE  Cardinality(Upto(i)) =
               IF s[i] = None THEN Cardinality(Upto(i - 1))
                              ELSE Cardinality(Upto(i - 1)) + 1
  <2>1. CASE s[i] = None
    BY <1>3, <2>1
  <2>2. CASE s[i] # None
    <3>1. Upto(i) = Upto(i - 1) \cup {i}
      BY <1>3, <2>2
    <3>2. IsFiniteSet(Upto(i - 1)) /\ i \notin Upto(i - 1)
      BY <1>1, <1>4
    <3> HIDE DEF Upto
    <3> QED
      BY <2>2, <3>1, <3>2, FS_AddElement
  <2> QED
    BY <2>1, <2>2
<1>6. \A i \in Nat : RankIn(s, i) = Cardinality(Upto(i))
  BY DEF RankIn
<1>7. Cardinality(Upto(0)) = 0
  BY <1>2, FS_EmptySet
<1> HIDE DEF Upto
<1> QED
  BY <1>1, <1>4, <1>5, <1>6, <1>7

(* Ranks grow, over a slot that is not empty strictly.                     *)
LEMMA RankGrows ==
  ASSUME NEW s, NEW i \in Nat, NEW j \in Nat, i <= j
  PROVE  /\ RankIn(s, i) <= RankIn(s, j)
         /\ i < j /\ s[j] # None => RankIn(s, i) < RankIn(s, j)
<1> DEFINE In(k) == {m \in 1..k : s[m] # None}
<1>1. ASSUME NEW k \in Nat, NEW m \in Nat, k <= m
      PROVE  RankIn(s, k) <= RankIn(s, m)
  <2>1. IsFiniteSet(1..m)
    BY FS_Interval
  <2>2. In(m) \subseteq 1..m /\ In(k) \subseteq In(m)
    BY <1>1
  <2>3. IsFiniteSet(In(m))
    BY <2>1, <2>2, FS_Subset
  <2>4. Cardinality(In(k)) <= Cardinality(In(m))
    BY <2>2, <2>3, FS_Subset
  <2> QED
    BY <2>4 DEF RankIn
<1>2. ASSUME i < j, s[j] # None PROVE RankIn(s, i) < RankIn(s, j)
  <2>1. j \in Nat \ {0} /\ j - 1 \in Nat /\ i <= j - 1
    BY <1>2
  <2>2. RankIn(s, j) = RankIn(s, j - 1) + 1
    BY <1>2, <2>1, RankSteps
  <2>3. RankIn(s, i) <= RankIn(s, j - 1)
    BY <1>1, <2>1
  <2>4. RankIn(s, i) \in Nat /\ RankIn(s, j - 1) \in Nat
    BY <2>1, RankSteps
  <2> QED
    BY <2>2, <2>3, <2>4
<1> QED
  BY <1>1, <1>2

(* Two slots that are not empty have different ranks.                      *)
LEMMA RankOnce ==
  ASSUME NEW s, NEW i \in Nat, NEW j \in Nat, s[i] # None, s[j] # None,
         RankIn(s, i) = RankIn(s, j)
  PROVE  i = j
<1>1. RankIn(s, i) \in Nat /\ RankIn(s, j) \in Nat
  BY RankSteps
<1>2. CASE i < j
  BY <1>1, <1>2, RankGrows
<1>3. CASE j < i
  BY <1>1, <1>3, RankGrows
<1> QED
  BY <1>2, <1>3

(* Each number up to the rank of slot n is the rank of a slot.             *)
LEMMA RankTaken ==
  ASSUME NEW s, NEW n \in Nat, NEW k \in Nat, k < RankIn(s, n)
  PROVE  \E j \in 1..n : s[j] # None /\ RankIn(s, j) = k + 1
<1> DEFINE I == {i \in 1..n : k < RankIn(s, i)}
<1>1. RankIn(s, 0) = 0 /\ \A i \in Nat : RankIn(s, i) \in Nat
  BY RankSteps
<1>2. n \in I /\ I \subseteq Nat
  BY <1>1
<1>3. PICK j \in I : \A i \in I : j <= i
  BY <1>2, LeastOf
<1>4. j \in 1..n /\ k < RankIn(s, j) /\ j - 1 \in Nat /\ j \in Nat \ {0}
  BY <1>3
<1>5. RankIn(s, j - 1) <= k
  <2>1. CASE j = 1
    BY <1>1, <2>1
  <2>2. CASE j # 1
    <3>1. j - 1 \in 1..n /\ j - 1 \notin I
      BY <1>3, <1>4, <2>2
    <3> QED
      BY <1>1, <1>4, <3>1
  <2> QED
    BY <2>1, <2>2
<1>6. RankIn(s, j) = IF s[j] = None THEN RankIn(s, j - 1)
                                    ELSE RankIn(s, j - 1) + 1
  BY <1>4, RankSteps
<1>7. s[j] # None /\ RankIn(s, j) = k + 1
  BY <1>1, <1>4, <1>5, <1>6
<1> QED
  BY <1>4, <1>7

(* The ranks of a list stay when it is prolonged.                          *)
LEMMA RankAppended ==
  ASSUME NEW S, NEW s \in Seq(S), NEW e, NEW i \in 0..Len(s)
  PROVE  RankIn(Append(s, e), i) = RankIn(s, i)
<1>1. \A j \in 1..i : Append(s, e)[j] = s[j]
  OBVIOUS
<1>2. {j \in 1..i : Append(s, e)[j] # None} = {j \in 1..i : s[j] # None}
  BY <1>1
<1> QED
  BY <1>2 DEF RankIn

-----------------------------------------------------------------------------
(* The operators of the table and the file.                                *)

(* The users who are present are as many as the slots that are not empty.  *)
LEMMA SizeIsRank ==
  ASSUME slots \in Seq(Users \cup {None}), Listed
  PROVE  Size = Rank(Len(slots)) /\ Size \in Nat
<1> DEFINE I == {j \in 1..Len(slots) : slots[j] # None}
           U == {u \in Users : Present(u)}
           f == [j \in I |-> slots[j]]
<1>1. DOMAIN slots = 1..Len(slots) /\ Len(slots) \in Nat
  OBVIOUS
<1>2. \A j \in I : j \in DOMAIN slots /\ slots[j] \in Users
  BY <1>1
<1>3. f \in [I -> U]
  BY <1>2 DEF Listed
<1>4. \A i, j \in I : f[i] = f[j] => i = j
  BY <1>2 DEF Listed
<1>5. \A u \in U : \E j \in I : f[j] = u
  BY <1>1, PasswdAssumption DEF Listed
<1>6. f \in Bijection(I, U)
  <2> HIDE DEF f, I, U
  <2> QED
    BY <1>3, <1>4, <1>5 DEF Bijection, Injection, Surjection, IsInjective
<1>7. IsFiniteSet(1..Len(slots)) /\ I \subseteq 1..Len(slots)
  BY <1>1, FS_Interval
<1>8. IsFiniteSet(I)
  BY <1>7, FS_Subset
<1>9. Cardinality(U) = Cardinality(I) /\ Cardinality(I) \in Nat
  <2>1. ExistsBijection(I, U)
    BY <1>6 DEF ExistsBijection
  <2> HIDE DEF I, U
  <2> QED
    BY <1>8, <2>1, FS_Bijection, FS_CardinalityType
<1> QED
  BY <1>9 DEF Size, Rank, RankIn

(* A line of a user who is present is one that can be read back.           *)
LEMMA LineTyped ==
  ASSUME NEW u \in Users, Present(u), entry \in [Users -> Entries \cup {None}]
  PROVE  /\ Line(u) \in Lines /\ Line(u).name = u /\ Line(u).perms # "list"
         /\ Line(u).hash = entry[u].hash /\ Line(u).salt = entry[u].salt
<1>1. entry[u] \in Entries
  BY Zenon DEF Present
<1> QED
  BY <1>1 DEF Line, Lines, Entries, Permissions

(* Of two overlapping texts the longer one shows its end.                  *)
LEMMA OverlayOf ==
  ASSUME NEW new \in Seq(Lines), NEW old \in Seq(Lines)
  PROVE  /\ Overlay(new, old) \in Seq(Lines)
         /\ Len(Overlay(new, old)) =
              IF Len(new) < Len(old) THEN Len(old) ELSE Len(new)
         /\ \A p \in DOMAIN Overlay(new, old) :
              \/ p \in DOMAIN new /\ Overlay(new, old)[p] = new[p]
              \/ p \in DOMAIN old /\ Overlay(new, old)[p] = old[p]
<1> DEFINE n == Len(new) m == Len(old) s == SubSeq(old, n + 1, m)
<1>1. n \in Nat /\ m \in Nat /\ DOMAIN new = 1..n /\ DOMAIN old = 1..m
  OBVIOUS
<1>2. \A i \in (n + 1)..m : old[i] \in Lines
  BY <1>1, ElementOfSeq
<1>3. /\ s \in Seq(Lines) /\ Len(s) = IF n + 1 <= m THEN m - n ELSE 0
      /\ \A i \in 1..(m - n) : s[i] = old[n + i]
  <2>1. n + 1 \in Int /\ m \in Int
    BY <1>1
  <2> HIDE DEF n, m
  <2>2. /\ s \in Seq(Lines)
        /\ Len(s) = IF n + 1 <= m THEN m - (n + 1) + 1 ELSE 0
        /\ \A i \in 1..(m - (n + 1) + 1) : s[i] = old[n + 1 + i - 1]
    BY <1>2, <2>1, SubSeqProperties
  <2>3. m - (n + 1) + 1 = m - n
    BY <1>1
  <2>4. \A i \in 1..(m - n) : n + 1 + i - 1 = n + i
    BY <1>1
  <2> QED
    BY <2>2, <2>3, <2>4
<1> HIDE DEF s
<1> DEFINE o == new \o s
<1>4. /\ o \in Seq(Lines) /\ Len(o) = n + Len(s)
      /\ \A i \in 1..(n + Len(s)) : o[i] = IF i <= n THEN new[i] ELSE s[i - n]
  BY <1>3, ConcatProperties
<1>5. DOMAIN o = 1..Len(o)
  BY <1>4
<1>6. Overlay(new, old) = o
  BY DEF Overlay, s
<1> HIDE DEF o, n, m
<1>7. Len(o) = IF n < m THEN m ELSE n
  BY <1>1, <1>3, <1>4
<1>8. ASSUME NEW p \in 1..Len(o)
      PROVE  \/ p \in 1..n /\ o[p] = new[p]
             \/ p \in 1..m /\ o[p] = old[p]
  <2>1. CASE p <= n
    BY <1>1, <1>3, <1>4, <2>1
  <2>2. CASE ~(p <= n)
    <3>1. n < m /\ p \in 1..m /\ p - n \in 1..(m - n) /\ n + (p - n) = p
      BY <1>1, <1>7, <2>2
    <3>2. o[p] = s[p - n]
      BY <1>1, <1>3, <1>4, <2>2
    <3> QED
      BY <1>3, <3>1, <3>2
  <2> QED
    BY <2>1, <2>2
<1> QED
  BY <1>1, <1>4, <1>5, <1>6, <1>7, <1>8 DEF n, m

(* read() takes an entry from a line of the user, if there is one.         *)
LEMMA ReadEntryOf ==
  ASSUME NEW f \in Seq(Lines), NEW u \in Users
  PROVE  /\ ReadEntry(f, u) \in Entries \cup {None}
         /\ ReadEntry(f, u) = None <=> \A i \in DOMAIN f : f[i].name # u
         /\ ReadEntry(f, u) # None =>
              \E i \in DOMAIN f :
                /\ f[i].name = u
                /\ ReadEntry(f, u) = [hash |-> f[i].hash, salt |-> f[i].salt,
                                      perms |-> f[i].perms]
<1> DEFINE is == {i \in DOMAIN f : f[i].name = u}
           l == f[Max(is)]
           e == [hash |-> l.hash, salt |-> l.salt, perms |-> l.perms]
<1>1. DOMAIN f = 1..Len(f) /\ Len(f) \in Nat
  OBVIOUS
<1>2. ReadEntry(f, u) = IF is = {} THEN None ELSE e
  BY DEF ReadEntry
<1>3. CASE is = {}
  BY <1>2, <1>3
<1>4. CASE is # {}
  <2>1. Max(is) \in is
    <3>1. is \in SUBSET (1..Len(f))
      BY <1>1
    <3> HIDE DEF is
    <3> QED
      BY <1>1, <1>4, <3>1, MaxOf
  <2>2. l \in Lines /\ l.name = u /\ Max(is) \in DOMAIN f
    BY <1>1, <2>1, ElementOfSeq
  <2>3. e \in Entries
    BY <2>2 DEF Lines, Entries
  <2>4. e # None
    BY <2>3, PasswdAssumption
  <2> HIDE DEF e
  <2>5. ReadEntry(f, u) = e
    BY <1>2, <1>4
  <2> QED
    BY <1>4, <2>2, <2>3, <2>4, <2>5 DEF e
<1> QED
  BY <1>3, <1>4

(* Its dict lists each user of a line once.                                *)
LEMMA ReadSlotsOf ==
  ASSUME NEW f \in Seq(Lines)
  PROVE  /\ ReadSlots(f) \in Seq(Users \cup {None})
         /\ DOMAIN ReadSlots(f) = DOMAIN f
         /\ \A i, j \in DOMAIN f :
              ReadSlots(f)[i] = ReadSlots(f)[j] /\ ReadSlots(f)[i] # None
              => i = j
         /\ \A u \in Users : (\E i \in DOMAIN f : f[i].name = u) <=>
              \E i \in DOMAIN f : ReadSlots(f)[i] = u
<1> DEFINE First(i) == \A j \in 1..(i - 1) : f[j].name # f[i].name
           s == ReadSlots(f)
<1>1. DOMAIN f = 1..Len(f) /\ Len(f) \in Nat
  OBVIOUS
<1>2. \A i \in 1..Len(f) : f[i].name \in Users
  <2>1. \A i \in 1..Len(f) : f[i] \in Lines
    BY ElementOfSeq
  <2> QED
    BY <2>1 DEF Lines
<1>3. s = [i \in 1..Len(f) |-> IF First(i) THEN f[i].name ELSE None]
  BY <1>1 DEF ReadSlots
<1>4. s \in Seq(Users \cup {None}) /\ DOMAIN s = DOMAIN f
  <2>1. \A i \in 1..Len(f) :
          (IF First(i) THEN f[i].name ELSE None) \in Users \cup {None}
    BY <1>2
  <2> QED
    BY <1>1, <1>3, <2>1
<1>5. \A i \in 1..Len(f) : s[i] # None <=> First(i)
  BY <1>2, <1>3, PasswdAssumption
<1>6. \A i \in 1..Len(f) : s[i] # None => s[i] = f[i].name
  BY <1>3
<1> HIDE DEF s
<1>7. ASSUME NEW i \in 1..Len(f), NEW j \in 1..Len(f), s[i] = s[j],
             s[i] # None
      PROVE  i = j
  <2>1. First(i) /\ First(j) /\ f[i].name = f[j].name
    BY <1>5, <1>6, <1>7
  <2>2. ~(i < j) /\ ~(j < i)
    BY <1>1, <2>1
  <2> QED
    BY <1>1, <2>2
<1>8. ASSUME NEW u \in Users, NEW k \in 1..Len(f), f[k].name = u
      PROVE  \E i \in 1..Len(f) : s[i] = u
  <2> DEFINE I == {i \in 1..Len(f) : f[i].name = u}
  <2>1. PICK i \in I : \A j \in I : i <= j
    <3>1. I \subseteq Nat /\ I # {}
      BY <1>8
    <3> QED
      BY <3>1, LeastOf
  <2>2. i \in 1..Len(f) /\ f[i].name = u
    BY <2>1
  <2>3. First(i)
    BY <1>1, <2>1, <2>2
  <2> QED
    BY <1>5, <1>6, <2>2, <2>3
<1>9. ASSUME NEW u \in Users, NEW i \in 1..Len(f), s[i] = u
      PROVE  f[i].name = u
  BY <1>6, <1>9, PasswdAssumption
<1> QED
  BY <1>1, <1>4, <1>7, <1>8, <1>9 DEF s

-----------------------------------------------------------------------------
(* The types are kept.                                                     *)

(* The number of users is one.                                             *)
LEMMA SizeTyped == Size \in Nat
<1>1. {u \in Users : Present(u)} \subseteq Users
  OBVIOUS
<1> QED
  BY <1>1, PasswdAssumption, FS_Subset, FS_CardinalityType DEF Size

(* Only t moves, and still runs what it ran.                               *)
OnlyJob(t) ==
  /\ \A s \in Threads \ {t} : thread'[s] = thread[s]
  /\ thread'[t].op = thread[t].op /\ thread'[t].user = thread[t].user
  /\ thread'[t].password = thread[t].password
  /\ thread'[t].calm = thread[t].calm

(* An operation may go on to a step of its own.                            *)
LEMMA MovesTyped ==
  ASSUME thread \in [Threads -> Jobs], JobsOK, NEW t \in Threads,
         thread[t].at # "idle", NEW new \in Jobs,
         new.at \in Steps \ {"idle", "resume"}, StepOf(new.at, new.op),
         new.at = "iterate" => new.next >= 1,
         new.conn = thread[t].conn, new.op = thread[t].op,
         new.user = thread[t].user, new.password = thread[t].password,
         new.calm = thread[t].calm, thread' = [thread EXCEPT ![t] = new]
  PROVE  /\ thread' \in [Threads -> Jobs] /\ JobsOK'
         /\ OnlyJob(t) /\ thread'[t] = new
<1>1. JobOK(thread[t])
  BY DEF JobsOK
<1>2. JobOK(new)
  BY <1>1 DEF JobOK
<1>3. thread'[t] = new /\ \A s \in Threads \ {t} : thread'[s] = thread[s]
  OBVIOUS
<1> QED
  BY <1>2, <1>3 DEF JobsOK, OnlyJob

(* A step that changes nothing but where the job is.                       *)
LEMMA GoesTyped ==
  ASSUME thread \in [Threads -> Jobs], JobsOK, NEW t \in Threads,
         thread[t].at # "idle",
         NEW step \in Steps \ {"idle", "iterate", "resume"},
         StepOf(step, thread[t].op),
         thread' = [thread EXCEPT ![t].at = step]
  PROVE  /\ thread' \in [Threads -> Jobs] /\ JobsOK'
         /\ OnlyJob(t) /\ thread'[t] = [thread[t] EXCEPT !.at = step]
         /\ thread'[t].at = step /\ thread'[t].new = thread[t].new
<1> DEFINE job == thread[t] new == [job EXCEPT !.at = step]
<1>1. job \in Jobs
  OBVIOUS
<1>2. new \in Jobs
  BY <1>1 DEF Jobs
<1>3. /\ new.at = step /\ new.op = job.op /\ new.conn = job.conn
      /\ new.user = job.user /\ new.password = job.password
      /\ new.calm = job.calm /\ new.new = job.new
  BY <1>1 DEF Jobs
<1>4. thread' = [thread EXCEPT ![t] = new]
  OBVIOUS
<1> HIDE DEF new
<1>5. /\ thread' \in [Threads -> Jobs] /\ JobsOK'
      /\ OnlyJob(t) /\ thread'[t] = new
  BY <1>2, <1>3, <1>4, MovesTyped
<1> QED
  BY <1>3, <1>5 DEF new

(* An operation that runs may end with a result of its own.                *)
LEMMA EndsTyped ==
  ASSUME thread \in [Threads -> Jobs], JobsOK, HistoryOK, NEW t \in Threads,
         thread[t].at # "idle", NEW r, ResultOf(thread[t].op, r), Ends(t, r)
  PROVE  /\ thread' \in [Threads -> Jobs] /\ JobsOK' /\ OnlyJob(t)
         /\ thread'[t].at = "resume" /\ thread'[t].result = r
         /\ promised' \in [Users -> Passwords \cup {None, "open"}]
<1> DEFINE job == thread[t]
           new == [Idle EXCEPT !.at = "resume", !.conn = job.conn,
                     !.op = job.op, !.user = job.user,
                     !.password = job.password, !.calm = job.calm,
                     !.result = r]
<1>1. JobOK(job) /\ job \in Jobs
  BY DEF JobsOK
<1>2. job.password \in Passwords \cup {None} /\ Idle \in Jobs
  <2>1. 0 \in Salts /\ <<>> \in Seq(Lines) /\ 0 \in Nat
    BY PasswdAssumption DEF Salts
  <2> QED
    BY <1>1, <2>1 DEF Idle, Jobs, Steps, Outcomes
<1>3. thread' = [thread EXCEPT ![t] = new]
  BY DEF Ends
<1>4. r \in Outcomes
  BY DEF ResultOf, Outcomes
<1>5. new \in Jobs
  BY <1>1, <1>2, <1>4 DEF Jobs, Steps
<1>6. /\ new.at = "resume" /\ new.op = job.op /\ new.conn = job.conn
      /\ new.user = job.user /\ new.password = job.password
      /\ new.result = r /\ new.calm = job.calm
  BY <1>2 DEF Jobs
<1> HIDE DEF new
<1>7. JobOK(new)
  BY <1>1, <1>5, <1>6 DEF JobOK, StepOf
<1>8. thread' \in [Threads -> Jobs] /\ JobsOK'
  BY <1>3, <1>5, <1>7 DEF JobsOK
<1>9. thread'[t] = new /\ \A s \in Threads \ {t} : thread'[s] = thread[s]
  BY <1>3
<1>10. OnlyJob(t) /\ thread'[t].at = "resume" /\ thread'[t].result = r
  BY <1>6, <1>9 DEF OnlyJob
<1>11. promised' \in [Users -> Passwords \cup {None, "open"}]
  BY <1>2 DEF Ends, HistoryOK
<1> QED
  BY <1>8, <1>10, <1>11

(* What a step of an operation leaves of the types of the jobs.            *)
Moved(t) ==
  /\ thread' \in [Threads -> Jobs] /\ JobsOK' /\ OnlyJob(t)
  /\ promised' \in [Users -> Passwords \cup {None, "open"}]

(* A thread at a step of an operation has a user.                          *)
LEMMA JobTyped ==
  ASSUME Typed, NEW t \in Threads, thread[t].at # "idle"
  PROVE  /\ thread[t] \in Jobs /\ thread[t].user \in Users
         /\ thread[t].op \in Changes \cup {"login"}
         /\ StepOf(thread[t].at, thread[t].op)
         /\ At(t, "iterate") => thread[t].next \in Nat \ {0}
<1>1. JobOK(thread[t]) /\ thread[t] \in Jobs
  BY DEF Typed, JobsOK
<1> QED
  BY <1>1 DEF JobOK, Jobs, At

(* _login() moves its thread only, and to a step of its operation.         *)
LEMMA LoginMoves ==
  ASSUME Typed, NEW t \in Threads, LoginTest(t) \/ Compare(t)
  PROVE  Moved(t)
<1> DEFINE job == thread[t] u == job.user
<1>1. job.at \in {"login", "compare", "permissions"} /\ job.at # "idle"
  BY DEF LoginTest, Compare, At
<1>2. /\ job \in Jobs /\ u \in Users /\ StepOf(job.at, job.op)
      /\ job.op \in {"login", "set_password"}
  BY <1>1, JobTyped DEF StepOf
<1>3. /\ thread \in [Threads -> Jobs] /\ JobsOK /\ HistoryOK
      /\ entry \in [Users -> Entries \cup {None}]
      /\ promised \in [Users -> Passwords \cup {None, "open"}]
  BY DEF Typed, TableOK, HistoryOK
<1>4. ASSUME NEW r, ResultOf(job.op, r), Ends(t, r) PROVE Moved(t)
  BY <1>1, <1>3, <1>4, EndsTyped DEF Moved
<1>5. CASE NoLogin(t)
  <2>1. CASE job.op = "login"
    <3>1. ResultOf(job.op, None) /\ Ends(t, None)
      BY <1>5, <2>1 DEF NoLogin, ResultOf
    <3> QED
      BY <1>4, <3>1
  <2>2. CASE job.op # "login"
    <3>1. ResultOf(job.op, "refused") /\ Ends(t, "refused")
      BY <1>5, <2>2 DEF NoLogin, ResultOf
    <3> QED
      BY <1>4, <3>1
  <2> QED
    BY <2>1, <2>2
<1>6. CASE Ends(t, "raised")
  BY <1>4, <1>6 DEF ResultOf
<1>7. CASE /\ Present(u) /\ At(t, "login") /\ UNCHANGED promised
           /\ thread' = [thread EXCEPT ![t].at = "compare",
                                       ![t].salt = entry[u].salt]
  <2> DEFINE new == [job EXCEPT !.at = "compare", !.salt = entry[u].salt]
  <2>1. entry[u].salt \in Salts
    BY <1>2, <1>3, <1>7 DEF Present, Entries
  <2>2. new \in Jobs /\ new.at = "compare"
    BY <1>2, <2>1 DEF Jobs, Steps
  <2>3. /\ new.conn = job.conn /\ new.op = job.op /\ new.user = job.user
        /\ new.password = job.password /\ new.calm = job.calm
    BY <1>2 DEF Jobs
  <2>4. thread' = [thread EXCEPT ![t] = new]
    BY <1>7
  <2> HIDE DEF new
  <2>5. StepOf(new.at, new.op) /\ new.at \in Steps \ {"idle", "resume"}
    BY <1>2, <2>2, <2>3 DEF StepOf, Steps
  <2> QED
    BY <1>1, <1>3, <1>7, <2>2, <2>3, <2>4, <2>5, MovesTyped DEF Moved
<1>8. CASE Present(u) /\ At(t, "permissions") /\ Ends(t, entry[u].perms)
  <2>1. job.op = "login"
    BY <1>2, <1>8 DEF StepOf, At
  <2>2. ResultOf(job.op, entry[u].perms)
    BY <1>2, <1>3, <1>8, <2>1 DEF ResultOf, Present, Entries
  <2> QED
    BY <1>4, <1>8, <2>2
<1>9. CASE \E next : /\ next = IF job.op = "login" THEN "permissions"
                                              ELSE "setHash"
                    /\ Goes(t, next)
  <2> PICK next : /\ next = IF job.op = "login" THEN "permissions"
                                                ELSE "setHash"
                  /\ Goes(t, next)
    BY <1>9
  <2>1. /\ StepOf(next, job.op)
        /\ next \in Steps \ {"idle", "iterate", "resume"}
    BY <1>2 DEF StepOf, Steps
  <2> QED
    BY <1>1, <1>3, <2>1, GoesTyped DEF Goes, Moved
<1> QED
  BY <1>5, <1>6, <1>7, <1>8, <1>9 DEF LoginTest, Compare

(* Where Goes leads is typed.                                              *)
LEMMA GoesMoves ==
  ASSUME Typed, NEW t \in Threads, thread[t].at # "idle",
         NEW step \in Steps \ {"idle", "iterate", "resume"},
         StepOf(step, thread[t].op),
         Goes(t, step)
  PROVE  /\ Moved(t) /\ thread'[t] = [thread[t] EXCEPT !.at = step]
         /\ thread'[t].at = step /\ thread'[t].new = thread[t].new
<1>1. /\ thread \in [Threads -> Jobs] /\ JobsOK
      /\ promised \in [Users -> Passwords \cup {None, "open"}]
  BY DEF Typed, HistoryOK
<1>2. promised' = promised /\ thread' = [thread EXCEPT ![t].at = step]
  BY DEF Goes
<1> QED
  BY <1>1, <1>2, GoesTyped DEF Moved

(* Where Ends leads is typed.                                              *)
LEMMA EndsMoves ==
  ASSUME Typed, NEW t \in Threads, thread[t].at # "idle",
         NEW r, ResultOf(thread[t].op, r), Ends(t, r)
  PROVE  Moved(t) /\ thread'[t].at = "resume" /\ thread'[t].result = r
<1>1. thread \in [Threads -> Jobs] /\ JobsOK /\ HistoryOK
  BY DEF Typed
<1> QED
  BY <1>1, EndsTyped DEF Moved

(* So do the steps at the table.                                           *)
LEMMA TableMoves ==
  ASSUME Typed, NEW t \in Threads,
         Test(t) \/ Insert(t) \/ Pop(t) \/ Assign(t)
  PROVE  Moved(t)
<1> DEFINE job == thread[t]
<1>1. /\ job.at \in {"create", "delete", "insert", "pop", "setHash", "setSalt"}
      /\ job.at # "idle"
  BY DEF Test, Insert, Pop, Assign, At
<1>2. StepOf(job.at, job.op)
  BY <1>1, JobTyped
<1>3. job.op \in Changes
  BY <1>1, <1>2 DEF StepOf, Changes
<1>4. \A r \in {"done", "refused", "raised"} : Ends(t, r) => Moved(t)
  <2>1. \A r \in {"done", "refused", "raised"} : ResultOf(job.op, r)
    BY <1>3 DEF ResultOf, Changes
  <2> QED
    BY <1>1, <2>1, EndsMoves
<1>5. \A step \in {"insert", "pop", "setSalt", "open"} :
        Goes(t, step) /\ StepOf(step, job.op) => Moved(t)
  <2>1. {"insert", "pop", "setSalt", "open"} \subseteq
          Steps \ {"idle", "iterate", "resume"}
    BY DEF Steps
  <2> QED
    BY <1>1, <2>1, GoesMoves
<1>6. CASE Test(t)
  BY <1>2, <1>4, <1>5, <1>6 DEF Test, At, StepOf
<1>7. CASE Insert(t)
  BY <1>2, <1>3, <1>5, <1>7 DEF Insert, At, StepOf
<1>8. CASE Pop(t)
  BY <1>2, <1>3, <1>4, <1>5, <1>8 DEF Pop, At, StepOf
<1>9. CASE Assign(t)
  BY <1>2, <1>3, <1>4, <1>5, <1>9 DEF Assign, At, StepOf
<1> QED
  BY <1>6, <1>7, <1>8, <1>9

(* What a thread that writes does to its job.                              *)
LEMMA OpenMoves ==
  ASSUME Typed, NEW t \in Threads, Open(t)
  PROVE  /\ Moved(t) /\ At(t, "iterate")'
         /\ thread'[t].size = Size /\ thread'[t].next = 1
         /\ thread'[t].buf = <<>>
<1> DEFINE job == thread[t]
           new == [job EXCEPT !.at = "iterate", !.size = Size, !.next = 1,
                              !.buf = <<>>]
<1>1. job.at = "open" /\ job.at # "idle"
  BY DEF Open, At
<1>2. job \in Jobs /\ StepOf(job.at, job.op)
  BY <1>1, JobTyped
<1>3. /\ thread \in [Threads -> Jobs] /\ JobsOK
      /\ promised \in [Users -> Passwords \cup {None, "open"}]
  BY DEF Typed, HistoryOK
<1>4. Size \in Nat /\ 1 \in Nat /\ <<>> \in Seq(Lines)
  BY SizeTyped
<1>5. new \in Jobs
  BY <1>2, <1>4 DEF Jobs, Steps
<1>6. /\ new.conn = job.conn /\ new.op = job.op /\ new.user = job.user
      /\ new.password = job.password /\ new.calm = job.calm
      /\ new.at = "iterate" /\ new.size = Size /\ new.next = 1
      /\ new.buf = <<>> /\ new.next >= 1
  BY <1>2 DEF Jobs
<1>7. thread' = [thread EXCEPT ![t] = new] /\ promised' = promised
  BY DEF Open
<1> HIDE DEF new
<1>8. StepOf(new.at, new.op) /\ new.at \in Steps \ {"idle", "resume"}
  BY <1>1, <1>2, <1>6 DEF StepOf, Steps
<1>9. /\ thread' \in [Threads -> Jobs] /\ JobsOK'
      /\ OnlyJob(t) /\ thread'[t] = new
  BY <1>1, <1>3, <1>5, <1>6, <1>7, <1>8, MovesTyped
<1> QED
  BY <1>3, <1>6, <1>7, <1>9 DEF Moved, At

(* The iteration goes on by a slot, or is through.                         *)
LEMMA WriteMoves ==
  ASSUME Typed, NEW t \in Threads, WriteLine(t)
  PROVE  LET job == thread[t] next == job.next new == thread'[t] IN
         /\ Moved(t) /\ new.size = job.size /\ job.size = Size
         /\ \/ /\ next > Len(slots) /\ new.at = "close"
               /\ new.next = next /\ new.buf = job.buf
            \/ /\ next \in 1..Len(slots) /\ new.at = "iterate"
               /\ new.next = next + 1
               /\ new.buf = IF slots[next] = None THEN job.buf
                            ELSE Append(job.buf, Line(slots[next]))
<1> DEFINE job == thread[t] next == job.next
           buf == IF slots[next] = None THEN job.buf
                  ELSE Append(job.buf, Line(slots[next]))
<1>1. job.at = "iterate" /\ job.at # "idle" /\ job.size = Size
  BY DEF WriteLine, At
<1>2. job \in Jobs /\ StepOf(job.at, job.op) /\ next \in Nat \ {0}
  BY <1>1, JobTyped DEF At
<1>3. /\ thread \in [Threads -> Jobs] /\ JobsOK
      /\ promised \in [Users -> Passwords \cup {None, "open"}]
      /\ slots \in Seq(Users \cup {None})
  BY DEF Typed, HistoryOK, TableOK
<1>4. promised' = promised
  BY DEF WriteLine
<1>5. CASE next > Len(slots)
  <2> DEFINE new == [job EXCEPT !.at = "close"]
  <2>1. thread' = [thread EXCEPT ![t] = new]
    BY <1>5 DEF WriteLine
  <2>2. new \in Jobs
    BY <1>2 DEF Jobs, Steps
  <2>3. /\ new.conn = job.conn /\ new.op = job.op /\ new.user = job.user
        /\ new.password = job.password /\ new.calm = job.calm
        /\ new.at = "close" /\ new.size = job.size /\ new.next = next
        /\ new.buf = job.buf
    BY <1>2 DEF Jobs
  <2> HIDE DEF new
  <2>4. StepOf(new.at, new.op) /\ new.at \in Steps \ {"idle", "resume"}
    BY <1>1, <1>2, <2>3 DEF StepOf, Steps
  <2>5. /\ thread' \in [Threads -> Jobs] /\ JobsOK'
        /\ OnlyJob(t) /\ thread'[t] = new
    BY <1>1, <1>3, <2>1, <2>2, <2>3, <2>4, MovesTyped
  <2> QED
    BY <1>1, <1>3, <1>4, <1>5, <2>3, <2>5 DEF Moved
<1>6. CASE ~(next > Len(slots))
  <2> DEFINE new == [job EXCEPT !.next = next + 1, !.buf = buf]
  <2>1. thread' = [thread EXCEPT ![t] = new]
    BY <1>6 DEF WriteLine
  <2>2. next \in Nat /\ Len(slots) \in Nat /\ next \in 1..Len(slots)
    BY <1>1, <1>2, <1>3, <1>6 DEF Jobs
  <2>3. buf \in Seq(Lines)
    <3>1. job.buf \in Seq(Lines)
      BY <1>2 DEF Jobs
    <3>2. CASE slots[next] # None /\ next \in 1..Len(slots)
      <4>1. slots[next] \in Users
        BY <1>3, <3>2, ElementOfSeq
      <4>2. next \in DOMAIN slots
        BY <1>3, <3>2
      <4>3. Present(slots[next]) /\ entry \in [Users -> Entries \cup {None}]
        BY <4>1, <4>2 DEF Typed, TableOK, Listed
      <4>4. Line(slots[next]) \in Lines
        BY <4>1, <4>3, LineTyped
      <4> QED
        BY <3>1, <4>4
    <3> QED
      BY <3>1, <3>2, <2>2
  <2> HIDE DEF buf
  <2>4. new \in Jobs
    <3>1. next + 1 \in Nat
      BY <2>2
    <3> HIDE DEF next
    <3>2. job \in Jobs
      BY <1>2
    <3> QED
      BY <2>3, <3>1, <3>2 DEF Jobs
  <2>5. /\ new.conn = job.conn /\ new.op = job.op /\ new.user = job.user
        /\ new.password = job.password /\ new.calm = job.calm
        /\ new.at = "iterate" /\ new.size = job.size /\ new.next = next + 1
        /\ new.buf = buf /\ new.next >= 1
    BY <1>1, <1>2, <2>2 DEF Jobs
  <2> HIDE DEF new
  <2>6. StepOf(new.at, new.op) /\ new.at \in Steps \ {"idle", "resume"}
    BY <1>1, <1>2, <2>5 DEF StepOf, Steps
  <2>7. /\ thread' \in [Threads -> Jobs] /\ JobsOK'
        /\ OnlyJob(t) /\ thread'[t] = new
    BY <1>1, <1>3, <2>1, <2>4, <2>5, <2>6, MovesTyped
  <2> QED
    BY <1>1, <1>3, <1>4, <2>2, <2>5, <2>7 DEF Moved, buf
<1> QED
  BY <1>5, <1>6

(* write() ends with a result of a change.                                 *)
LEMMA CloseMoves ==
  ASSUME Typed, NEW t \in Threads, Close(t)
  PROVE  Moved(t) /\ At(t, "resume")' /\ thread[t].op \in Changes
<1>1. thread[t].at \in {"iterate", "close"} /\ thread[t].at # "idle"
  BY DEF Close, At
<1>2. thread[t].op \in Changes
  BY <1>1, JobTyped DEF StepOf
<1>3. PICK r \in {"done", "raised"} : Ends(t, r)
  BY DEF Close
<1>4. ResultOf(thread[t].op, r)
  BY <1>2 DEF ResultOf, Changes
<1> QED
  BY <1>1, <1>2, <1>3, <1>4, EndsMoves DEF At

(* A job that starts.                                                      *)
LEMMA StartMoves ==
  ASSUME Typed, NEW t \in Threads, NEW c \in Conns,
         NEW op \in Changes \cup {"login"}, NEW u \in Users,
         NEW p \in Passwords \cup {None}, NEW old \in Passwords \cup {None},
         Start(t, c, op, u, p, old)
  PROVE  /\ thread' \in [Threads -> Jobs] /\ JobsOK'
         /\ thread'[t].op = op /\ thread'[t].user = u
         /\ thread'[t].password = p
         /\ thread'[t].at \in {"login", "create", "delete", "setHash"}
         /\ thread'[t].calm <=> ~\E s \in Threads : Changing(s, u)
         /\ \A s \in Threads \ {t} :
              /\ thread'[s].calm =>
                   thread[s].calm /\ ~(op \in Changes /\ thread[s].user = u)
              /\ \A k \in DOMAIN thread[s] \ {"calm"} :
                   thread'[s][k] = thread[s][k]
<1> DEFINE others == {s \in Threads : Changing(s, u)}
           at == IF old = None THEN FirstStep[op] ELSE "login"
           job == [Idle EXCEPT !.at = at, !.conn = c, !.op = op, !.user = u,
                     !.password = p, !.old = old, !.new = jobs + 1,
                     !.calm = others = {}]
           moved(s) == IF op \in Changes /\ thread[s].user = u
                       THEN [thread[s] EXCEPT !.calm = FALSE] ELSE thread[s]
<1>1. /\ (p = None) <=> (op = "delete_user")
      /\ old # None => op = "set_password"
      /\ jobs < MaxJobs /\ jobs' = jobs + 1
      /\ thread' = [s \in Threads |-> IF s = t THEN job ELSE moved(s)]
  BY DEF Start
<1>2. thread \in [Threads -> Jobs] /\ JobsOK /\ jobs \in Salts
  BY DEF Typed, HistoryOK
<1>3. Idle \in Jobs
  <2>1. 0 \in Salts /\ <<>> \in Seq(Lines) /\ 0 \in Nat
    BY PasswdAssumption DEF Salts
  <2> QED
    BY <2>1 DEF Idle, Jobs, Steps, Outcomes
<1>4. jobs + 1 \in Salts
  <2>1. MaxJobs \in Nat
    BY PasswdAssumption
  <2>2. jobs \in 0..MaxJobs /\ jobs < MaxJobs
    BY <1>1, <1>2 DEF Salts
  <2> QED
    BY <2>1, <2>2 DEF Salts
<1>5. /\ at \in Steps \ {"idle", "resume", "iterate"} /\ StepOf(at, op)
      /\ at \in {"login", "create", "delete", "setHash"}
  <2>1. /\ op = "login" => FirstStep[op] = "login"
        /\ op = "create_user" => FirstStep[op] = "create"
        /\ op = "delete_user" => FirstStep[op] = "delete"
        /\ op = "set_password" => FirstStep[op] = "setHash"
    BY DEF FirstStep
  <2>2. op \in {"login", "create_user", "delete_user", "set_password"}
    BY DEF Changes
  <2>3. /\ at \in Steps \ {"idle", "resume", "iterate"}
        /\ at \in {"login", "create", "delete", "setHash"}
    BY <2>1, <2>2 DEF Steps
  <2> QED
    BY <1>1, <2>1, <2>2, <2>3 DEF StepOf
<1> HIDE DEF at
<1>6. job \in Jobs
  <2>1. PICK calm \in BOOLEAN : calm = (others = {})
    OBVIOUS
  <2>2. \A j \in Jobs : \A a \in Steps, n \in Salts :
          [j EXCEPT !.at = a, !.conn = c, !.op = op, !.user = u,
                    !.password = p, !.old = old, !.new = n, !.calm = calm]
            \in Jobs
    BY ZenonT(60) DEF Jobs
  <2>3. [Idle EXCEPT !.at = at, !.conn = c, !.op = op, !.user = u,
                     !.password = p, !.old = old, !.new = jobs + 1,
                     !.calm = calm] \in Jobs
    <3>1. at \in Steps
      BY <1>5
    <3> QED
      BY <1>3, <1>4, <2>2, <3>1
  <2> QED
    BY <2>1, <2>3
<1>7. /\ job.at = at /\ job.conn = c /\ job.op = op /\ job.user = u
      /\ job.password = p /\ job.calm = (others = {})
  BY <1>3 DEF Jobs
<1> HIDE DEF job
<1>8. JobOK(job)
  <2>1. op # None /\ job.at \notin {"idle", "resume", "iterate"}
    BY <1>5, <1>7, PasswdAssumption
  <2> QED
    BY <1>1, <1>5, <1>6, <1>7, <2>1 DEF JobOK, Changes
<1>9. ASSUME NEW s \in Threads
      PROVE  /\ moved(s) \in Jobs /\ JobOK(moved(s))
             /\ moved(s).calm = IF op \in Changes /\ thread[s].user = u
                                THEN FALSE ELSE thread[s].calm
             /\ \A k \in DOMAIN thread[s] \ {"calm"} :
                  moved(s)[k] = thread[s][k]
  <2>1. thread[s] \in Jobs /\ JobOK(thread[s])
    BY <1>2 DEF JobsOK
  <2>2. CASE op \in Changes /\ thread[s].user = u
    <3> DEFINE new == [thread[s] EXCEPT !.calm = FALSE]
    <3>1. new \in Jobs /\ new.calm = FALSE
      BY <2>1 DEF Jobs
    <3>2. \A k \in DOMAIN thread[s] \ {"calm"} : new[k] = thread[s][k]
      OBVIOUS
    <3>3. /\ new.at = thread[s].at /\ new.op = thread[s].op
          /\ new.conn = thread[s].conn /\ new.user = thread[s].user
          /\ new.password = thread[s].password /\ new.next = thread[s].next
          /\ new.result = thread[s].result
      BY <2>1 DEF Jobs
    <3>4. moved(s) = new
      BY <2>2
    <3> HIDE DEF new
    <3>5. JobOK(new)
      BY <2>1, <3>1, <3>3 DEF JobOK
    <3> QED
      BY <2>2, <3>1, <3>2, <3>4, <3>5
  <2>3. CASE ~(op \in Changes /\ thread[s].user = u)
    <3>1. moved(s) = thread[s]
      BY <2>3
    <3> QED
      BY <2>1, <2>3, <3>1
  <2> QED
    BY <2>2, <2>3
<1> HIDE DEF moved
<1>10. thread' \in [Threads -> Jobs] /\ JobsOK' /\ thread'[t] = job
  BY <1>1, <1>6, <1>8, <1>9 DEF JobsOK
<1>11. \A s \in Threads \ {t} : thread'[s] = moved(s)
  BY <1>1
<1>12. job.calm <=> ~\E s \in Threads : Changing(s, u)
  BY <1>7
<1>13. \A s \in Threads \ {t} :
         /\ thread'[s].calm =>
              thread[s].calm /\ ~(op \in Changes /\ thread[s].user = u)
         /\ \A k \in DOMAIN thread[s] \ {"calm"} : thread'[s][k] = thread[s][k]
  BY <1>9, <1>11
<1> QED
  BY <1>5, <1>7, <1>10, <1>12, <1>13

(* A thread may be idle.                                                   *)
LEMMA IdleTyped == Idle \in Jobs /\ JobOK(Idle)
<1>1. 0 \in Salts /\ <<>> \in Seq(Lines) /\ 0 \in Nat
  BY PasswdAssumption DEF Salts
<1>2. Idle \in Jobs
  BY <1>1 DEF Idle, Jobs, Steps, Outcomes
<1>3. Idle.at = "idle" /\ Idle.op = None
  BY DEF Idle
<1> QED
  BY <1>2, <1>3, PasswdAssumption DEF JobOK, StepOf, Changes

(* A hash and its salt make an entry.                                      *)
LEMMA HashTyped ==
  ASSUME NEW p \in Passwords, NEW s \in Salts
  PROVE  /\ Hash(p, s) \in Hashes /\ Hash(p, s).salt = s
         /\ Hash(p, s).password = p
BY DEF Hash, Hashes

(* What Insert does: the user is present, as the last of the dict if new.  *)
LEMMA InsertTable ==
  ASSUME Typed, NEW t \in Threads, Insert(t)
  PROVE  LET job == thread[t] u == job.user IN
         /\ TableOK' /\ u \in Users
         /\ job.op = "create_user" /\ job.password \in Passwords
         /\ entry'[u] \in Entries /\ entry'[u] # None
         /\ entry'[u].hash = Hash(job.password, job.new)
         /\ entry'[u].salt = job.new /\ entry'[u].perms = "list"
         /\ \A v \in Users \ {u} : entry'[v] = entry[v]
         /\ IF Present(u) THEN slots' = slots
            ELSE /\ slots' = Append(slots, u) /\ Len(slots') = Len(slots) + 1
                 /\ \A i \in 1..Len(slots) : slots'[i] = slots[i]
                 /\ slots'[Len(slots) + 1] = u
<1> DEFINE job == thread[t] u == job.user
           e == [hash |-> Hash(job.password, job.new), salt |-> job.new,
                 perms |-> "list"]
<1>1. job.at = "insert" /\ job.at # "idle"
  BY DEF Insert, At
<1>2. job \in Jobs /\ u \in Users /\ job.op = "create_user"
  BY <1>1, JobTyped DEF StepOf
<1>3. job.password \in Passwords /\ job.new \in Salts
  BY <1>2 DEF Typed, JobsOK, JobOK, Jobs
<1>4. e \in Entries /\ e # None
  <2>1. e \in Entries
    BY <1>3, HashTyped DEF Entries, Permissions
  <2> QED
    BY <2>1, PasswdAssumption
<1>5. /\ entry \in [Users -> Entries \cup {None}]
      /\ slots \in Seq(Users \cup {None}) /\ Listed
  BY DEF Typed, TableOK
<1>6. /\ entry' = [entry EXCEPT ![u] = e]
      /\ slots' = IF Present(u) THEN slots ELSE Append(slots, u)
  BY DEF Insert
<1> HIDE DEF e
<1>7. /\ entry' \in [Users -> Entries \cup {None}] /\ entry'[u] = e
      /\ \A v \in Users \ {u} : entry'[v] = entry[v]
  BY <1>2, <1>4, <1>5, <1>6
<1>8. ~Present(u) =>
        /\ slots' = Append(slots, u) /\ Len(slots') = Len(slots) + 1
        /\ \A i \in 1..Len(slots) : slots'[i] = slots[i]
        /\ slots'[Len(slots) + 1] = u
  BY <1>2, <1>5, <1>6, AppendProperties
<1>9. slots' \in Seq(Users \cup {None})
  BY <1>2, <1>5, <1>6
<1>10. DOMAIN slots = 1..Len(slots) /\ DOMAIN slots' = 1..Len(slots')
       /\ Len(slots) \in Nat
  BY <1>5, <1>9
<1>11. Listed'
  <2>1. CASE Present(u)
    <3>1. slots' = slots
      BY <1>6, <2>1
    <3>2. \A v \in Users : Present(v)' <=> Present(v)
      BY <1>4, <1>7, <2>1 DEF Present
    <3> QED
      BY <1>5, <3>1, <3>2 DEF Listed
  <2>2. CASE ~Present(u)
    <3> DEFINE n == Len(slots)
    <3>1. /\ \A i \in 1..n : slots'[i] = slots[i]
          /\ slots'[n + 1] = u /\ n \in Nat /\ DOMAIN slots = 1..n
          /\ DOMAIN slots' = 1..(n + 1)
      BY <1>8, <1>10, <2>2
    <3> HIDE DEF n
    <3>2. \A i \in 1..n : slots[i] # u
      BY <1>2, <1>5, <2>2, <3>1 DEF Listed
    <3>3. \A i \in 1..(n + 1) : i \in 1..n \/ i = n + 1
      BY <3>1
    <3>4. ASSUME NEW i \in 1..(n + 1), NEW j \in 1..(n + 1),
                 slots'[i] = slots'[j], slots'[i] # None
          PROVE  i = j
      BY <1>5, <3>1, <3>2, <3>3, <3>4 DEF Listed
    <3>5. ASSUME NEW v \in Users \ {u}
          PROVE  Present(v)' <=> \E i \in 1..(n + 1) : slots'[i] = v
      <4>1. Present(v)' <=> Present(v)
        BY <1>7 DEF Present
      <4>2. Present(v) <=> \E i \in 1..n : slots[i] = v
        BY <1>5, <3>1 DEF Listed
      <4>3. 1..n \subseteq 1..(n + 1)
        BY <3>1
      <4> QED
        BY <3>1, <3>3, <4>1, <4>2, <4>3
    <3>6. entry'[u] # None /\ n + 1 \in 1..(n + 1)
      BY <1>4, <1>7, <3>1
    <3>7. ASSUME NEW v \in Users
          PROVE  Present(v)' <=> \E i \in 1..(n + 1) : slots'[i] = v
      <4>1. CASE v = u
        BY <3>1, <3>6, <4>1 DEF Present
      <4>2. CASE v # u
        BY <3>5, <4>2
      <4> QED
        BY <4>1, <4>2
    <3> QED
      BY <3>1, <3>4, <3>7 DEF Listed
  <2> QED
    BY <2>1, <2>2
<1>12. /\ e.hash = Hash(job.password, job.new) /\ e.salt = job.new
       /\ e.perms = "list"
  BY DEF e
<1> QED
  BY <1>2, <1>3, <1>4, <1>6, <1>7, <1>8, <1>9, <1>11, <1>12 DEF TableOK

(* What Pop does to a user who is present: the slot is empty.              *)
LEMMA PopTable ==
  ASSUME Typed, NEW t \in Threads, Pop(t), Present(thread[t].user)
  PROVE  LET u == thread[t].user IN
         /\ TableOK' /\ u \in Users /\ thread[t].op = "delete_user"
         /\ entry'[u] = None
         /\ \A v \in Users \ {u} : entry'[v] = entry[v]
<1> DEFINE u == thread[t].user
<1>1. thread[t].at = "pop" /\ thread[t].at # "idle"
  BY DEF Pop, At
<1>2. u \in Users /\ thread[t].op = "delete_user"
  BY <1>1, JobTyped DEF StepOf
<1>3. /\ entry \in [Users -> Entries \cup {None}]
      /\ slots \in Seq(Users \cup {None}) /\ Listed
  BY DEF Typed, TableOK
<1>4. entry' = [entry EXCEPT ![u] = None] /\ slots' = Without(u)
  BY DEF Pop
<1>5. /\ entry' \in [Users -> Entries \cup {None}] /\ entry'[u] = None
      /\ \A v \in Users \ {u} : entry'[v] = entry[v]
  BY <1>2, <1>3, <1>4
<1>6. /\ slots' \in Seq(Users \cup {None}) /\ DOMAIN slots' = DOMAIN slots
      /\ \A i \in DOMAIN slots :
           slots'[i] = IF slots[i] = u THEN None ELSE slots[i]
  <2>1. DOMAIN slots = 1..Len(slots) /\ Len(slots) \in Nat
    BY <1>3
  <2>2. \A i \in 1..Len(slots) : slots[i] \in Users \cup {None}
    BY <1>3, ElementOfSeq
  <2>3. slots' = [i \in 1..Len(slots) |->
                    IF slots[i] = u THEN None ELSE slots[i]]
    BY <1>4, <2>1 DEF Without
  <2>4. \A i \in 1..Len(slots) :
          (IF slots[i] = u THEN None ELSE slots[i]) \in Users \cup {None}
    BY <2>2
  <2> QED
    BY <2>1, <2>3, <2>4
<1>7. \A i \in DOMAIN slots :
        slots'[i] # None => slots'[i] = slots[i] /\ slots[i] # u
  BY <1>6
<1>8. \A i, j \in DOMAIN slots' :
        slots'[i] = slots'[j] /\ slots'[i] # None => i = j
  BY <1>3, <1>6, <1>7 DEF Listed
<1>9. ASSUME NEW v \in Users
      PROVE  Present(v)' <=> \E i \in DOMAIN slots' : slots'[i] = v
  <2>1. v # None
    BY PasswdAssumption
  <2>2. CASE v = u
    BY <1>5, <1>6, <2>1, <2>2 DEF Present
  <2>3. CASE v # u
    <3>1. Present(v)' <=> Present(v)
      BY <1>5, <2>3 DEF Present
    <3>2. \A i \in DOMAIN slots : slots'[i] = v <=> slots[i] = v
      BY <1>6, <2>1, <2>3
    <3> QED
      BY <1>3, <1>6, <3>1, <3>2 DEF Listed
  <2> QED
    BY <2>2, <2>3
<1> QED
  BY <1>2, <1>5, <1>6, <1>8, <1>9 DEF TableOK, Listed

(* What an assignment does to an entry.                                    *)
LEMMA AssignTable ==
  ASSUME Typed, NEW t \in Threads, Assign(t)
  PROVE  LET job == thread[t] u == job.user IN
         /\ TableOK' /\ u \in Users /\ slots' = slots
         /\ job.op = "set_password" /\ job.password \in Passwords
         /\ \A v \in Users \ {u} : entry'[v] = entry[v]
         /\ \A v \in Users : Present(v)' <=> Present(v)
         /\ ~Present(u) => entry' = entry
         /\ Present(u) =>
              /\ entry'[u].perms = entry[u].perms
              /\ entry'[u].hash = IF At(t, "setHash")
                                  THEN Hash(job.password, job.new)
                                  ELSE entry[u].hash
              /\ entry'[u].salt = IF At(t, "setHash") THEN entry[u].salt
                                                      ELSE job.new
<1> DEFINE job == thread[t] u == job.user
<1>1. job.at \in {"setHash", "setSalt"} /\ job.at # "idle"
  BY DEF Assign, At
<1>2. job \in Jobs /\ u \in Users /\ job.op = "set_password"
  BY <1>1, JobTyped DEF StepOf
<1>3. job.password \in Passwords /\ job.new \in Salts
  BY <1>2 DEF Typed, JobsOK, JobOK, Jobs
<1>4. /\ entry \in [Users -> Entries \cup {None}]
      /\ slots \in Seq(Users \cup {None}) /\ Listed
  BY DEF Typed, TableOK
<1>5. slots' = slots
  BY DEF Assign
<1>6. CASE ~Present(u)
  <2>1. entry' = entry
    BY <1>6 DEF Assign
  <2>2. \A v \in Users : Present(v)' <=> Present(v)
    BY <2>1 DEF Present
  <2>3. TableOK'
    BY <1>4, <1>5, <2>1, <2>2 DEF TableOK, Listed
  <2>4. \A v \in Users \ {u} : entry'[v] = entry[v]
    BY <2>1
  <2> QED
    BY <1>2, <1>3, <1>5, <1>6, <2>1, <2>2, <2>3, <2>4
<1>7. CASE Present(u)
  <2>1. entry[u] \in Entries
    BY <1>2, <1>4, <1>7 DEF Present
  <2>2. PICK e \in Entries :
          /\ entry' = [entry EXCEPT ![u] = e]
          /\ e.perms = entry[u].perms
          /\ e.hash = IF At(t, "setHash") THEN Hash(job.password, job.new)
                                          ELSE entry[u].hash
          /\ e.salt = IF At(t, "setHash") THEN entry[u].salt ELSE job.new
    <3>1. CASE At(t, "setHash")
      <4> DEFINE e == [entry[u] EXCEPT !.hash = Hash(job.password, job.new)]
      <4>1. ~At(t, "setSalt")
        BY <3>1 DEF At
      <4>2. entry' = [entry EXCEPT ![u] = e]
        BY <1>7, <4>1 DEF Assign
      <4>3. Hash(job.password, job.new) \in Hashes
        BY <1>3, HashTyped
      <4>4. /\ e \in Entries /\ e.perms = entry[u].perms
            /\ e.hash = Hash(job.password, job.new) /\ e.salt = entry[u].salt
        BY <2>1, <4>3 DEF Entries
      <4> HIDE DEF e
      <4> QED
        BY <3>1, <4>2, <4>4
    <3>2. CASE ~At(t, "setHash")
      <4> DEFINE e == [entry[u] EXCEPT !.salt = job.new]
      <4>1. entry' = [entry EXCEPT ![u] = e]
        BY <1>7, <3>2 DEF Assign
      <4>2. /\ e \in Entries /\ e.perms = entry[u].perms
            /\ e.hash = entry[u].hash /\ e.salt = job.new
        BY <1>3, <2>1 DEF Entries
      <4> HIDE DEF e
      <4> QED
        BY <3>2, <4>1, <4>2
    <3> QED
      BY <3>1, <3>2
  <2>3. e # None
    BY PasswdAssumption
  <2>4. /\ entry' \in [Users -> Entries \cup {None}] /\ entry'[u] = e
        /\ \A v \in Users \ {u} : entry'[v] = entry[v]
    BY <1>2, <1>4, <2>2
  <2>5. \A v \in Users : Present(v)' <=> Present(v)
    BY <1>7, <2>3, <2>4 DEF Present
  <2>6. TableOK'
    BY <1>4, <1>5, <2>4, <2>5 DEF TableOK, Listed
  <2>7. /\ entry'[u].perms = entry[u].perms
        /\ entry'[u].hash = IF At(t, "setHash")
                            THEN Hash(job.password, job.new)
                            ELSE entry[u].hash
        /\ entry'[u].salt = IF At(t, "setHash") THEN entry[u].salt
                                                ELSE job.new
    BY <2>2, <2>4
  <2> HIDE DEF job, u
  <2>8. /\ TableOK' /\ u \in Users /\ slots' = slots
        /\ job.op = "set_password" /\ job.password \in Passwords
        /\ \A v \in Users \ {u} : entry'[v] = entry[v]
    BY <1>2, <1>3, <1>5, <2>4, <2>6
  <2> QED
    BY <1>7, <2>5, <2>7, <2>8 DEF job, u
<1> QED
  BY <1>6, <1>7

(* The methods that prepare_request() looks through: those of the backend, *)
(* then those of the application.                                          *)
LEMMA PoolOf ==
  LET pool == Own \o RpcMethods IN
  /\ DOMAIN pool = 1..(5 + Len(RpcMethods)) /\ Len(RpcMethods) \in Nat
  /\ \A i \in DOMAIN pool : pool[i] \in ToSet(Own) \cup ToSet(RpcMethods)
  /\ \A i \in 1..5 : pool[i] = Own[i]
  /\ \A i \in DOMAIN pool : i > 5 => pool[i] \in ToSet(RpcMethods)
<1> DEFINE pool == Own \o RpcMethods
<1> DEFINE Names == ToSet(Own) \cup ToSet(RpcMethods)
<1>1. Own \in Seq(Names) /\ Len(Own) = 5 /\ RpcMethods \in Seq(Names)
  <2>1. RpcMethods \in Seq(STRING)
    BY PasswdAssumption
  <2>2. /\ Len(RpcMethods) \in Nat /\ DOMAIN RpcMethods = 1..Len(RpcMethods)
        /\ RpcMethods = [i \in 1..Len(RpcMethods) |-> RpcMethods[i]]
    BY <2>1
  <2>3. \A i \in 1..Len(RpcMethods) : RpcMethods[i] \in Names
    BY <2>2 DEF ToSet
  <2>4. Len(Own) = 5 /\ DOMAIN Own = 1..5 /\ Own = [i \in 1..5 |-> Own[i]]
    BY DEF Own
  <2>5. \A i \in 1..5 : Own[i] \in Names
    BY <2>4 DEF ToSet
  <2> HIDE DEF Names
  <2>6. [i \in 1..Len(RpcMethods) |-> RpcMethods[i]] \in Seq(Names)
    BY <2>2, <2>3
  <2>7. [i \in 1..5 |-> Own[i]] \in Seq(Names)
    BY <2>5
  <2> QED
    BY <2>2, <2>4, <2>6, <2>7
<1> HIDE DEF Names
<1>2. /\ pool \in Seq(Names) /\ Len(pool) = 5 + Len(RpcMethods)
      /\ \A i \in 1..(5 + Len(RpcMethods)) :
           pool[i] = IF i <= 5 THEN Own[i] ELSE RpcMethods[i - 5]
  <2>1. /\ pool \in Seq(Names) /\ Len(pool) = Len(Own) + Len(RpcMethods)
        /\ \A i \in 1..(Len(Own) + Len(RpcMethods)) :
             pool[i] = IF i <= Len(Own) THEN Own[i]
                                        ELSE RpcMethods[i - Len(Own)]
    BY <1>1, ConcatProperties
  <2> HIDE DEF pool
  <2> QED
    BY <1>1, <2>1
<1>3. /\ DOMAIN pool = 1..(5 + Len(RpcMethods)) /\ Len(RpcMethods) \in Nat
      /\ DOMAIN Own = 1..5 /\ DOMAIN RpcMethods = 1..Len(RpcMethods)
  BY <1>1, <1>2
<1> HIDE DEF pool
<1>4. ASSUME NEW i \in DOMAIN pool
      PROVE  /\ i <= 5 => i \in 1..5 /\ pool[i] = Own[i]
             /\ i > 5 => pool[i] \in ToSet(RpcMethods)
  <2>1. CASE i <= 5
    BY <1>2, <1>3, <2>1
  <2>2. CASE i > 5
    <3>1. i - 5 \in DOMAIN RpcMethods /\ pool[i] = RpcMethods[i - 5]
      BY <1>2, <1>3, <2>2
    <3>2. pool[i] \in ToSet(RpcMethods)
      BY <3>1 DEF ToSet
    <3>3. ~(i <= 5)
      BY <1>3, <2>2
    <3> QED
      BY <3>2, <3>3
  <2> QED
    BY <1>3, <2>1, <2>2
<1>5. \A i \in 1..5 : Own[i] \in ToSet(Own)
  BY <1>3 DEF ToSet
<1>6. \A i \in 1..5 : i \in DOMAIN pool
  BY <1>3
<1>7. \A i \in DOMAIN pool : pool[i] \in ToSet(Own) \cup ToSet(RpcMethods)
  BY <1>3, <1>4, <1>5
<1> QED
  BY <1>3, <1>4, <1>6, <1>7 DEF pool

(* What a connection may call are methods that there are.                  *)
LEMMA SessionTyped ==
  ASSUME NEW u \in Users \cup {None}, NEW p \in Permissions
  PROVE  Session(u, p) \in Sessions
<1>1. Found(Own \o RpcMethods, u, p) \subseteq ToSet(Own) \cup ToSet(RpcMethods)
  BY PoolOf DEF Found
<1> QED
  BY <1>1 DEF Session, Sessions

(* The file at the first start.                                            *)
LEMMA FoundedOf ==
  /\ Founded \in Seq(Lines)
  /\ \A u \in Users : u \in Founders <=>
       \E i \in DOMAIN Founded : Founded[i].name = u
  /\ \A i \in DOMAIN Founded :
       Founded[i] = [name |-> Founded[i].name, hash |-> Hash(Initial, 0),
                     salt |-> 0, perms |-> "granted"]
<1> DEFINE us == SetToSeq(Founders) n == Cardinality(Founders)
           line(i) == [name |-> us[i], hash |-> Hash(Initial, 0), salt |-> 0,
                       perms |-> "granted"]
<1>1. IsFiniteSet(Founders)
  BY PasswdAssumption, FS_Subset
<1>2. n \in Nat /\ \E f \in Bijection(1..n, Founders) : TRUE
  BY <1>1, FS_CardinalityType DEF ExistsBijection
<1>3. \E f \in [1..n -> Founders] : IsInjective(f)
  BY <1>2 DEF Bijection, Injection
<1>4. us \in [1..n -> Founders] /\ IsInjective(us)
  BY <1>3 DEF SetToSeq
<1>5. \A u \in Founders : \E i \in 1..n : us[i] = u
  <2>1. us \in Injection(1..n, Founders)
    BY <1>4 DEF Injection
  <2>2. Cardinality(1..n) = n /\ IsFiniteSet(1..n)
    BY <1>2, FS_Interval
  <2> HIDE DEF us
  <2>3. us \in Surjection(1..n, Founders)
    BY <1>1, <2>1, <2>2, FS_Injection
  <2> QED
    BY <2>3 DEF Surjection
<1>6. Founded = [i \in 1..n |-> line(i)]
  BY <1>4 DEF Founded
<1> HIDE DEF us, n
<1>7. \A i \in 1..n : us[i] \in Founders /\ us[i] \in Users
  BY <1>4, PasswdAssumption
<1>8. Hash(Initial, 0) \in Hashes /\ 0 \in Salts
  <2>1. 0 \in Salts /\ Initial \in Passwords
    BY PasswdAssumption DEF Salts
  <2> QED
    BY <2>1, HashTyped
<1>9. \A i \in 1..n : line(i) \in Lines
  BY <1>7, <1>8 DEF Lines, Permissions
<1>10. DOMAIN Founded = 1..n /\ \A i \in 1..n : Founded[i] = line(i)
  BY <1>6
<1>11. Founded \in Seq(Lines)
  BY <1>2, <1>6, <1>9
<1>12. \A i \in 1..n : line(i).name = us[i] /\ line(i).perms = "granted"
  OBVIOUS
<1>13. \A u \in Users : u \in Founders <=> \E i \in 1..n : line(i).name = u
  BY <1>5, <1>7, <1>12
<1> QED
  BY <1>10, <1>11, <1>12, <1>13

(* A table that is read from a file.                                       *)
LEMMA ReadTable ==
  ASSUME NEW f \in Seq(Lines)
  PROVE  LET e == [u \in Users |-> ReadEntry(f, u)] s == ReadSlots(f) IN
         /\ e \in [Users -> Entries \cup {None}]
         /\ s \in Seq(Users \cup {None})
         /\ \A i, j \in DOMAIN s : s[i] = s[j] /\ s[i] # None => i = j
         /\ \A u \in Users : e[u] # None <=> \E i \in DOMAIN s : s[i] = u
<1> DEFINE e == [u \in Users |-> ReadEntry(f, u)] s == ReadSlots(f)
<1>1. e \in [Users -> Entries \cup {None}]
  BY ReadEntryOf
<1>2. /\ s \in Seq(Users \cup {None}) /\ DOMAIN s = DOMAIN f
      /\ \A i, j \in DOMAIN f : s[i] = s[j] /\ s[i] # None => i = j
      /\ \A u \in Users : (\E i \in DOMAIN f : f[i].name = u) <=>
                           \E i \in DOMAIN f : s[i] = u
  BY ReadSlotsOf
<1>3. \A u \in Users : e[u] = ReadEntry(f, u)
  OBVIOUS
<1>4. \A u \in Users : e[u] # None <=> \E i \in DOMAIN f : f[i].name = u
  BY <1>3, ReadEntryOf
<1> HIDE DEF e, s
<1> QED
  BY <1>1, <1>2, <1>4 DEF e, s

(* login and logout come first and need no permission.                     *)
LEMMA SessionFree ==
  ASSUME NEW u, NEW p
  PROVE  LET s == Session(u, p) IN
         /\ "login" \in s.methods
         /\ u # None <=> "logout" \in s.methods
         /\ u = None => s.methods \cap LoginRequired = {}
<1> DEFINE pool == Own \o RpcMethods ms == Found(pool, u, p)
<1>1. /\ 1 \in DOMAIN pool /\ 2 \in DOMAIN pool
      /\ pool[1] = "login" /\ pool[2] = "logout"
  <2>1. DOMAIN pool = 1..(5 + Len(RpcMethods)) /\ Len(RpcMethods) \in Nat
    BY PoolOf
  <2>2. \A i \in 1..5 : pool[i] = Own[i]
    BY PoolOf
  <2>3. Own[1] = "login" /\ Own[2] = "logout"
    BY DEF Own
  <2> HIDE DEF pool
  <2> QED
    BY <2>1, <2>2, <2>3
<1>2. "login" \notin Restricted /\ "logout" \notin Restricted
  <2>1. DOMAIN Own = 1..5 /\ Own[1] = "login" /\ Own[2] = "logout"
    BY DEF Own
  <2>2. "login" \in ToSet(Own) /\ "logout" \in ToSet(Own)
    BY <2>1 DEF ToSet
  <2> QED
    BY <2>2, PasswdAssumption
<1> HIDE DEF pool
<1>3. \A k \in 1..2 : ~Raises(p, pool[k])
  <2>1. \A k \in 1..2 : k = 1 \/ k = 2
    OBVIOUS
  <2> QED
    BY <1>1, <1>2, <2>1 DEF Raises
<1>4. "login" \in ms
  <2>1. Authorized(u, p, pool[1])
    BY <1>1, <1>2 DEF Authorized, LoginRequired
  <2>2. \A k \in 1..1 : ~Raises(p, pool[k])
    BY <1>3
  <2> QED
    BY <1>1, <2>1, <2>2 DEF Found
<1>5. u # None => "logout" \in ms
  <2>1. u # None => Authorized(u, p, pool[2])
    BY <1>1, <1>2 DEF Authorized, LoginRequired
  <2> QED
    BY <1>1, <1>3, <2>1 DEF Found
<1>6. u = None => ms \cap LoginRequired = {}
  BY DEF Found, Authorized
<1>7. u = None => "logout" \notin ms
  BY <1>6 DEF LoginRequired
<1> QED
  BY <1>4, <1>5, <1>6, <1>7 DEF Session, pool

(* The initial state has the types.                                        *)
LEMMA TypedInit == Init => Typed
<1> SUFFICES ASSUME Init PROVE Typed
  OBVIOUS
<1>1. TableOK
  <2>1. /\ entry = [u \in Users |-> ReadEntry(Founded, u)]
        /\ slots = ReadSlots(Founded) /\ Founded \in Seq(Lines)
    BY FoundedOf DEF Init
  <2> QED
    BY <2>1, ReadTable DEF TableOK, Listed, Present
<1>2. file \in Seq(Lines)
  BY FoundedOf DEF Init
<1>3. ConnsOK
  <2>1. Session(None, "none") \in Sessions /\ "none" \in Permissions
    BY SessionTyped DEF Permissions
  <2>2. conn = [c \in Conns |-> Session(None, "none")]
    BY DEF Init
  <2> QED
    BY <2>1, <2>2 DEF ConnsOK
<1>4. HistoryOK
  BY PasswdAssumption DEF Init, HistoryOK, Salts
<1>5. thread \in [Threads -> Jobs] /\ JobsOK
  BY IdleTyped DEF Init, JobsOK
<1> QED
  BY <1>1, <1>2, <1>3, <1>4, <1>5 DEF Typed

(* The steps of a thread that end neither in the loop nor with a crash.    *)
Operates(t) ==
  \/ LoginTest(t) \/ Compare(t) \/ Test(t) \/ Insert(t) \/ Pop(t)
  \/ Assign(t) \/ Open(t) \/ WriteLine(t) \/ Close(t)

(* Each of them moves its thread only, and no connection.                  *)
LEMMA OperatesMoves ==
  ASSUME Typed, NEW t \in Threads, Operates(t)
  PROVE  Moved(t) /\ Elsewhere /\ thread[t].at \notin {"idle", "resume"}
<1>1. Moved(t)
  BY LoginMoves, TableMoves, OpenMoves, WriteMoves, CloseMoves DEF Operates
<1>2. Elsewhere
  BY DEF Operates, LoginTest, Compare, Test, Insert, Pop, Assign, Open,
         WriteLine, Close, ReadOnly, TableOnly
<1>3. thread[t].at \notin {"idle", "resume"}
  BY DEF Operates, LoginTest, Compare, Test, Insert, Pop, Assign, Open,
         WriteLine, Close, At
<1> QED
  BY <1>1, <1>2, <1>3

(* Only four steps change the table.                                       *)
LEMMA OperatesTable ==
  ASSUME Typed, NEW t \in Threads, Operates(t)
  PROVE  /\ TableOK'
         /\ \/ Insert(t) \/ Assign(t) \/ UNCHANGED tableVars
            \/ Pop(t) /\ Present(thread[t].user)
<1>1. CASE Insert(t)
  BY <1>1, InsertTable
<1>2. CASE Assign(t)
  BY <1>2, AssignTable
<1>3. CASE Pop(t) /\ Present(thread[t].user)
  BY <1>3, PopTable
<1>4. CASE UNCHANGED tableVars
  <2>1. entry' = entry /\ slots' = slots
    BY <1>4 DEF tableVars
  <2>2. \A v \in Users : Present(v)' <=> Present(v)
    BY <2>1 DEF Present
  <2> QED
    BY <1>4, <2>1, <2>2 DEF Typed, TableOK, Listed
<1>5. \/ Insert(t) \/ Assign(t) \/ UNCHANGED tableVars
      \/ Pop(t) /\ Present(thread[t].user)
  BY DEF Operates, LoginTest, Compare, Test, Pop, Open, WriteLine, Close,
         ReadOnly, tableVars
<1> QED
  BY <1>1, <1>2, <1>3, <1>4, <1>5

(* Only two change the file.                                               *)
LEMMA OperatesFile ==
  ASSUME Typed, NEW t \in Threads, Operates(t)
  PROVE  /\ file' \in Seq(Lines) /\ spoilt' \in {"no", "partial", "yes"}
         /\ \/ Open(t) /\ file' = <<>>
            \/ Close(t) /\ file' = Overlay(thread[t].buf, file)
            \/ UNCHANGED file
<1>1. file \in Seq(Lines) /\ spoilt \in {"no", "partial", "yes"}
  BY DEF Typed, HistoryOK
<1>2. thread[t].buf \in Seq(Lines)
  BY DEF Typed, Jobs
<1>3. \/ Open(t) /\ file' = <<>>
      \/ Close(t) /\ file' = Overlay(thread[t].buf, file)
      \/ UNCHANGED file
  BY DEF Operates, LoginTest, Compare, Test, Insert, Pop, Assign, Open,
         WriteLine, Close, ReadOnly, TableOnly
<1>4. file' \in Seq(Lines)
  <2>1. Overlay(thread[t].buf, file) \in Seq(Lines) /\ <<>> \in Seq(Lines)
    BY <1>1, <1>2, OverlayOf
  <2> QED
    BY <1>1, <1>3, <2>1
<1>5. spoilt' \in {"no", "partial", "yes"}
  BY <1>1 DEF Operates, LoginTest, Compare, Test, Insert, Pop, Assign, Open,
              WriteLine, Close, ReadOnly, TableOnly
<1> QED
  BY <1>3, <1>4, <1>5

(* Every step keeps the types.                                             *)
LEMMA TypedStep == Typed /\ [Next]_vars => Typed'
<1> SUFFICES ASSUME Typed, [Next]_vars PROVE Typed'
  OBVIOUS
<1>1. ASSUME NEW t \in Threads, Operates(t) PROVE Typed'
  <2>1. Moved(t) /\ Elsewhere
    BY <1>1, OperatesMoves
  <2>2. TableOK' /\ file' \in Seq(Lines) /\ spoilt' \in {"no", "partial", "yes"}
    BY <1>1, OperatesTable, OperatesFile
  <2>3. ConnsOK'
    BY <2>1 DEF Elsewhere, Typed, ConnsOK
  <2>4. HistoryOK'
    BY <2>1, <2>2 DEF Elsewhere, Typed, HistoryOK, Moved, bounds
  <2> QED
    BY <2>1, <2>2, <2>3, <2>4 DEF Typed, Moved
<1>2. ASSUME NEW t \in Threads, Resume(t) PROVE Typed'
  <2> DEFINE job == thread[t]
  <2>1. thread' = [thread EXCEPT ![t] = Idle]
    BY <1>2 DEF Resume
  <2>2. thread' \in [Threads -> Jobs] /\ JobsOK'
    BY <2>1, IdleTyped DEF Typed, JobsOK
  <2>3. job.at = "resume" /\ JobOK(job) /\ job \in Jobs
    BY <1>2 DEF Resume, At, Typed, JobsOK
  <2>4. PICK u \in Users \cup {None}, p \in Permissions :
          conn' = IF job.op = "login" /\ job.result # "raised"
                  THEN [conn EXCEPT ![job.conn] = Session(u, p)] ELSE conn
    <3>1. CASE job.op = "login" /\ job.result \notin {None, "raised"}
      <4>1. job.user \in Users /\ job.result \in Permissions
        BY <2>3, <3>1 DEF JobOK, ResultOf
      <4>2. conn' = [conn EXCEPT ![job.conn] = Session(job.user, job.result)]
        BY <1>2, <3>1 DEF Resume
      <4> QED
        BY <3>1, <4>1, <4>2
    <3>2. CASE ~(job.op = "login" /\ job.result \notin {None, "raised"})
      <4>1. conn' = IF job.op = "login" /\ job.result # "raised"
                    THEN [conn EXCEPT ![job.conn] = Session(None, "none")]
                    ELSE conn
        BY <1>2, <3>2 DEF Resume
      <4>2. "none" \in Permissions
        BY DEF Permissions
      <4> QED
        BY <4>1, <4>2
    <3> QED
      BY <3>1, <3>2
  <2>5. ConnsOK'
    BY <2>4, SessionTyped DEF Typed, ConnsOK
  <2>6. TableOK' /\ HistoryOK' /\ file' \in Seq(Lines)
    <3>1. /\ entry' = entry /\ slots' = slots /\ file' = file
          /\ UNCHANGED <<bounds, promised, doubtful, spoilt>>
      BY <1>2 DEF Resume, tableVars
    <3>2. \A v \in Users : Present(v)' <=> Present(v)
      BY <3>1 DEF Present
    <3> QED
      BY <3>1, <3>2 DEF Typed, TableOK, Listed, HistoryOK, bounds
  <2> QED
    BY <2>2, <2>5, <2>6 DEF Typed
<1>3. ASSUME NEW t \in Threads, NEW c \in Conns,
             NEW op \in Changes \cup {"login"}, NEW u \in Users,
             NEW p \in Passwords \cup {None}, NEW old \in Passwords \cup {None},
             Start(t, c, op, u, p, old)
      PROVE  Typed'
  <2>1. thread' \in [Threads -> Jobs] /\ JobsOK'
    BY <1>3, StartMoves
  <2>2. /\ entry' = entry /\ slots' = slots /\ file' = file /\ conn' = conn
        /\ UNCHANGED <<crashes, promised, spoilt>>
        /\ jobs < MaxJobs /\ jobs' = jobs + 1
        /\ doubtful' \in {doubtful, doubtful \cup {u}}
    BY <1>3 DEF Start, tableVars
  <2>3. \A v \in Users : Present(v)' <=> Present(v)
    BY <2>2 DEF Present
  <2>4. TableOK' /\ file' \in Seq(Lines)
    BY <2>2, <2>3 DEF Typed, TableOK, Listed
  <2>5. ConnsOK'
    BY <2>2 DEF Typed, ConnsOK
  <2>6. HistoryOK'
    <3>1. jobs \in 0..MaxJobs /\ MaxJobs \in Nat
      BY PasswdAssumption DEF Typed, HistoryOK, Salts
    <3>2. jobs' \in 0..MaxJobs
      BY <2>2, <3>1
    <3> QED
      BY <2>2, <3>2 DEF Typed, HistoryOK, Salts
  <2> QED
    BY <2>1, <2>4, <2>5, <2>6 DEF Typed
<1>4. ASSUME NEW c \in Conns, Logout(c) PROVE Typed'
  <2>1. /\ entry' = entry /\ slots' = slots /\ file' = file
        /\ UNCHANGED <<thread, bounds, promised, doubtful, spoilt>>
        /\ conn' = [conn EXCEPT ![c] = Session(None, "none")]
    BY <1>4 DEF Logout, tableVars
  <2>2. \A v \in Users : Present(v)' <=> Present(v)
    BY <2>1 DEF Present
  <2>3. TableOK' /\ file' \in Seq(Lines) /\ HistoryOK'
    BY <2>1, <2>2 DEF Typed, TableOK, Listed, HistoryOK, bounds
  <2>4. Session(None, "none") \in Sessions /\ "none" \in Permissions
    BY SessionTyped DEF Permissions
  <2>5. ConnsOK'
    BY <2>1, <2>4 DEF Typed, ConnsOK
  <2> QED
    BY <2>1, <2>3, <2>5 DEF Typed, JobsOK
<1>5. CASE Restart
  <2>1. TableOK'
    <3>1. /\ entry' = [u \in Users |-> ReadEntry(file, u)]
          /\ slots' = ReadSlots(file) /\ file \in Seq(Lines)
      BY <1>5 DEF Restart, Typed
    <3> QED
      BY <3>1, ReadTable DEF TableOK, Listed, Present
  <2>2. ConnsOK'
    <3>1. Session(None, "none") \in Sessions /\ "none" \in Permissions
      BY SessionTyped DEF Permissions
    <3>2. conn' = [c \in Conns |-> Session(None, "none")]
      BY <1>5 DEF Restart
    <3> QED
      BY <3>1, <3>2 DEF ConnsOK
  <2>3. HistoryOK'
    <3>1. crashes \in 0..MaxCrashes /\ MaxCrashes \in Nat
      BY PasswdAssumption DEF Typed, HistoryOK
    <3>2. crashes' \in 0..MaxCrashes
      BY <1>5, <3>1 DEF Restart
    <3> QED
      BY <1>5, <3>2 DEF Restart, Typed, HistoryOK
  <2>4. thread' \in [Threads -> Jobs] /\ JobsOK'
    BY <1>5, IdleTyped DEF Restart, JobsOK
  <2> QED
    BY <1>5, <2>1, <2>2, <2>3, <2>4 DEF Restart, Typed
<1>6. CASE UNCHANGED vars
  <2>1. /\ entry' = entry /\ slots' = slots /\ file' = file /\ conn' = conn
        /\ UNCHANGED <<thread, bounds, promised, doubtful, spoilt>>
    BY <1>6 DEF vars, tableVars
  <2>2. \A v \in Users : Present(v)' <=> Present(v)
    BY <2>1 DEF Present
  <2> QED
    BY <2>1, <2>2 DEF Typed, TableOK, Listed, ConnsOK, HistoryOK, bounds,
                      JobsOK
<1> QED
  BY <1>1, <1>2, <1>3, <1>4, <1>5, <1>6 DEF Next, Work, Operates

(* The types hold always.                                                  *)
LEMMA TypedAlways == Spec => []Typed
BY TypedInit, TypedStep, PTL DEF Spec

(* They say what the type invariant of the runs does.                      *)
LEMMA TypedIsTypeOK == Typed => TypeOK
<1> SUFFICES ASSUME Typed PROVE TypeOK
  OBVIOUS
<1>1. ASSUME NEW u \in Users
      PROVE  Cardinality({i \in DOMAIN slots : slots[i] = u}) =
               IF Present(u) THEN 1 ELSE 0
  <2> DEFINE I == {i \in DOMAIN slots : slots[i] = u}
  <2>1. u # None /\ Listed
    BY PasswdAssumption DEF Typed, TableOK
  <2>2. CASE Present(u)
    <3>1. PICK i \in DOMAIN slots : slots[i] = u
      BY <2>1, <2>2 DEF Listed
    <3>2. I = {i}
      BY <2>1, <3>1 DEF Listed
    <3> QED
      BY <2>2, <3>2, FS_Singleton
  <2>3. CASE ~Present(u)
    <3>1. I = {}
      BY <2>1, <2>3 DEF Listed
    <3> QED
      BY <2>3, <3>1, FS_EmptySet
  <2> QED
    BY <2>2, <2>3
<1> QED
  BY <1>1 DEF Typed, TypeOK, TableOK, ConnsOK, HistoryOK

(* Every variable of the password backend has its type, and the dict lists *)
(* each user who is present once, whatever the threads do.                 *)
THEOREM TypeCorrect == Spec => []TypeOK
BY TypedAlways, TypedIsTypeOK, PTL

(* A connection can always log in, can log out exactly when it is logged   *)
(* in, and without a user can call nothing that requires one.              *)
THEOREM ConnectionsFree == Spec => []NeverTrapped
<1>1. Typed => NeverTrapped
  <2> SUFFICES ASSUME Typed, NEW c \in Conns
               PROVE  /\ "login" \in conn[c].methods
                      /\ conn[c].user # None <=> "logout" \in conn[c].methods
                      /\ conn[c].user = None =>
                           conn[c].methods \cap LoginRequired = {}
    BY DEF NeverTrapped
  <2>1. PICK u \in Users \cup {None}, p \in Permissions :
          conn[c] = Session(u, p)
    BY DEF Typed, ConnsOK
  <2>2. conn[c].user = u
    BY <2>1 DEF Session
  <2>3. LET s == Session(u, p) IN
        /\ "login" \in s.methods
        /\ u # None <=> "logout" \in s.methods
        /\ u = None => s.methods \cap LoginRequired = {}
    BY SessionFree
  <2> QED
    BY <2>1, <2>2, <2>3
<1> QED
  BY <1>1, TypedAlways, PTL

-----------------------------------------------------------------------------
(* Who changes whom.                                                       *)

(* A step of an operation changes nobody's operation.                      *)
LEMMA OperatesKeeps ==
  ASSUME Typed, NEW t \in Threads, Operates(t)
  PROVE  /\ doubtful' = doubtful
         /\ \A s \in Threads :
              /\ thread'[s].op = thread[s].op
              /\ thread'[s].user = thread[s].user
              /\ thread'[s].password = thread[s].password
              /\ thread'[s].calm = thread[s].calm
         /\ \A s \in Threads : \A u : Changing(s, u)' <=> Changing(s, u)
         /\ \A s \in Threads \ {t} : thread'[s] = thread[s]
<1>1. OnlyJob(t) /\ doubtful' = doubtful
  BY OperatesMoves DEF Moved, Elsewhere
<1>2. ASSUME NEW s \in Threads
      PROVE  /\ thread'[s].op = thread[s].op
             /\ thread'[s].user = thread[s].user
             /\ thread'[s].password = thread[s].password
             /\ thread'[s].calm = thread[s].calm
  <2>1. CASE s = t
    BY <1>1, <2>1 DEF OnlyJob
  <2>2. CASE s # t
    BY <1>1, <2>2 DEF OnlyJob
  <2> QED
    BY <2>1, <2>2
<1>3. \A s \in Threads : \A u : Changing(s, u)' <=> Changing(s, u)
  BY <1>2 DEF Changing
<1> QED
  BY <1>1, <1>2, <1>3 DEF OnlyJob

(* An idle thread changes nobody and logs nobody in.                       *)
LEMMA IdleChangesNobody ==
  ASSUME NEW t \in Threads
  PROVE  /\ thread'[t] = Idle => ~Calm(t)' /\ \A u : ~Changing(t, u)'
         /\ thread[t] = Idle => ~Calm(t) /\ \A u : ~Changing(t, u)
<1>1. Idle.op = None /\ None \notin Changes /\ None # "login"
  BY PasswdAssumption DEF Idle
<1> QED
  BY <1>1 DEF Calm, Changing

(* What Start does to who changes whom.                                    *)
LEMMA StartKeeps ==
  ASSUME Typed, NEW t \in Threads, NEW c \in Conns,
         NEW op \in Changes \cup {"login"}, NEW u \in Users,
         NEW p \in Passwords \cup {None}, NEW old \in Passwords \cup {None},
         Start(t, c, op, u, p, old)
  PROVE  /\ thread[t].op = None /\ thread'[t].op = op /\ thread'[t].user = u
         /\ thread'[t].password = p
         /\ thread'[t].calm <=> ~\E s \in Threads : Changing(s, u)
         /\ thread'[t].at \in {"login", "create", "delete", "setHash"}
         /\ doubtful' = IF op \in Changes /\ \E s \in Threads : Changing(s, u)
                        THEN doubtful \cup {u} ELSE doubtful
         /\ \A s \in Threads \ {t} :
              /\ thread'[s].at = thread[s].at /\ thread'[s].op = thread[s].op
              /\ thread'[s].user = thread[s].user
              /\ thread'[s].password = thread[s].password
              /\ thread'[s].new = thread[s].new
              /\ thread'[s].salt = thread[s].salt
              /\ thread'[s].result = thread[s].result
              /\ thread'[s].size = thread[s].size
              /\ thread'[s].next = thread[s].next
              /\ thread'[s].buf = thread[s].buf
              /\ thread'[s].calm =>
                   thread[s].calm /\ ~(op \in Changes /\ thread[s].user = u)
<1>1. thread[t].op = None
  <2>1. thread[t].at = "idle"
    BY DEF Start, At
  <2> QED
    BY <2>1 DEF Typed, JobsOK, JobOK
<1>2. /\ thread'[t].op = op /\ thread'[t].user = u /\ thread'[t].password = p
      /\ thread'[t].calm <=> ~\E s \in Threads : Changing(s, u)
  BY StartMoves
<1>3. thread'[t].at \in {"login", "create", "delete", "setHash"}
  BY StartMoves
<1>4. doubtful' = IF op \in Changes /\ \E s \in Threads : Changing(s, u)
                  THEN doubtful \cup {u} ELSE doubtful
  BY DEF Start
<1>5. ASSUME NEW s \in Threads \ {t}
      PROVE  /\ thread'[s].at = thread[s].at /\ thread'[s].op = thread[s].op
             /\ thread'[s].user = thread[s].user
             /\ thread'[s].password = thread[s].password
             /\ thread'[s].new = thread[s].new
             /\ thread'[s].salt = thread[s].salt
             /\ thread'[s].result = thread[s].result
             /\ thread'[s].size = thread[s].size
             /\ thread'[s].next = thread[s].next
             /\ thread'[s].buf = thread[s].buf
             /\ thread'[s].calm =>
                  thread[s].calm /\ ~(op \in Changes /\ thread[s].user = u)
  <2>1. \A k \in DOMAIN thread[s] \ {"calm"} : thread'[s][k] = thread[s][k]
    BY StartMoves
  <2>2. thread[s] \in Jobs
    BY DEF Typed
  <2>3. {"at", "op", "user", "password", "new", "salt", "result", "size",
         "next", "buf"} \subseteq DOMAIN thread[s] \ {"calm"}
    BY <2>2 DEF Jobs
  <2>4. thread'[s].calm =>
          thread[s].calm /\ ~(op \in Changes /\ thread[s].user = u)
    BY StartMoves
  <2> QED
    BY <2>1, <2>3, <2>4
<1> QED
  BY <1>1, <1>2, <1>3, <1>4, <1>5

(* It leaves the table and the file alone.                                 *)
LEMMA StartLeaves ==
  ASSUME NEW t \in Threads, NEW c \in Conns,
         NEW op \in Changes \cup {"login"}, NEW u \in Users,
         NEW p \in Passwords \cup {None}, NEW old \in Passwords \cup {None},
         Start(t, c, op, u, p, old)
  PROVE  /\ entry' = entry /\ slots' = slots /\ file' = file
         /\ promised' = promised /\ spoilt' = spoilt
<1>1. UNCHANGED <<tableVars, file, conn, crashes, promised, spoilt>>
  BY ZenonT(30) DEF Start
<1> QED
  BY <1>1 DEF tableVars

(* At the first start nobody changes anybody.                              *)
LEMMA OwnersInit == Init => Exclusive /\ CalmTrue
<1> SUFFICES ASSUME Init PROVE Exclusive /\ CalmTrue
  OBVIOUS
<1>1. \A t \in Threads : thread[t] = Idle
  BY DEF Init
<1>2. \A t \in Threads : ~Calm(t) /\ \A u : ~Changing(t, u)
  BY <1>1, IdleChangesNobody
<1> QED
  BY <1>2 DEF Exclusive, CalmTrue

(* One thread at a time changes a user who is not doubtful, and none one   *)
(* whose login is calm.                                                    *)
LEMMA OwnersStep ==
  Typed /\ Exclusive /\ CalmTrue /\ [Next]_vars => Exclusive' /\ CalmTrue'
<1> SUFFICES ASSUME Typed, Exclusive, CalmTrue, [Next]_vars
             PROVE  Exclusive' /\ CalmTrue'
  OBVIOUS
<1>1. ASSUME doubtful' = doubtful,
             \A s \in Threads : \A u : Changing(s, u)' => Changing(s, u),
             \A s \in Threads : Calm(s)' =>
               Calm(s) /\ thread'[s].user = thread[s].user
      PROVE  Exclusive' /\ CalmTrue'
  BY <1>1 DEF Exclusive, CalmTrue
<1>2. ASSUME NEW t \in Threads, Operates(t) PROVE Exclusive' /\ CalmTrue'
  <2>1. \A s \in Threads : Calm(s)' <=> Calm(s)
    BY <1>2, OperatesKeeps DEF Calm
  <2> QED
    BY <1>1, <1>2, <2>1, OperatesKeeps
<1>3. ASSUME NEW t \in Threads, Resume(t) PROVE Exclusive' /\ CalmTrue'
  <2>1. thread' = [thread EXCEPT ![t] = Idle] /\ doubtful' = doubtful
    BY <1>3 DEF Resume
  <2>2. thread'[t] = Idle /\ \A s \in Threads \ {t} : thread'[s] = thread[s]
    BY <2>1 DEF Typed
  <2>3. ~Calm(t)' /\ \A u : ~Changing(t, u)'
    BY <2>2, IdleChangesNobody
  <2>4. \A s \in Threads \ {t} :
          /\ Calm(s)' <=> Calm(s)
          /\ \A u : Changing(s, u)' <=> Changing(s, u)
    BY <2>1, <2>2 DEF Calm, Changing
  <2> QED
    BY <1>1, <2>1, <2>2, <2>3, <2>4
<1>4. ASSUME NEW t \in Threads, NEW c \in Conns,
             NEW op \in Changes \cup {"login"}, NEW u \in Users,
             NEW p \in Passwords \cup {None}, NEW old \in Passwords \cup {None},
             Start(t, c, op, u, p, old)
      PROVE  Exclusive' /\ CalmTrue'
  <2>1. \A s \in Threads \ {t} :
          /\ \A v : Changing(s, v)' <=> Changing(s, v)
          /\ thread'[s].user = thread[s].user /\ thread'[s].op = thread[s].op
          /\ thread'[s].calm =>
               thread[s].calm /\ ~(op \in Changes /\ thread[s].user = u)
    <3>1. \A s \in Threads \ {t} :
            /\ thread'[s].user = thread[s].user /\ thread'[s].op = thread[s].op
            /\ thread'[s].calm =>
                 thread[s].calm /\ ~(op \in Changes /\ thread[s].user = u)
      BY <1>4, StartKeeps
    <3> QED
      BY <3>1 DEF Changing
  <2>2. /\ thread[t].op = None /\ thread'[t].op = op /\ thread'[t].user = u
        /\ thread'[t].calm => ~\E s \in Threads : Changing(s, u)
        /\ doubtful' = IF op \in Changes /\ \E s \in Threads : Changing(s, u)
                       THEN doubtful \cup {u} ELSE doubtful
    BY <1>4, StartKeeps
  <2>3. doubtful \subseteq doubtful'
    BY <2>2
  <2>4. \A v : ~Changing(t, v)
    BY <2>2, PasswdAssumption DEF Changing
  <2>5. \A v : Changing(t, v)' <=> v = u /\ op \in Changes
    BY <2>2 DEF Changing
  <2>6. Exclusive'
    <3> SUFFICES ASSUME NEW v \in Users \ doubtful', NEW r \in Threads,
                        NEW s \in Threads, Changing(r, v)', Changing(s, v)'
                 PROVE  r = s
      BY DEF Exclusive
    <3>1. CASE r # t /\ s # t
      BY <2>1, <2>3, <3>1 DEF Exclusive
    <3>2. ASSUME NEW q \in Threads \ {t}, Changing(q, v)', Changing(t, v)'
          PROVE  FALSE
      <4>1. v = u /\ op \in Changes /\ Changing(q, u)
        BY <2>1, <2>5, <3>2
      <4> QED
        BY <2>2, <4>1
    <3> QED
      BY <3>1, <3>2
  <2>7. CalmTrue'
    <3> SUFFICES ASSUME NEW r \in Threads, Calm(r)', NEW s \in Threads,
                        NEW v, v = thread'[r].user, Changing(s, v)'
                 PROVE  FALSE
      BY DEF CalmTrue, Changing
    <3>1. CASE r = t
      <4>1. op = "login" /\ v = u /\ ~Changing(s, u)
        BY <2>2, <3>1 DEF Calm
      <4>2. op \notin Changes
        BY <4>1 DEF Changes
      <4> QED
        BY <2>1, <2>5, <4>1, <4>2
    <3>2. CASE r # t
      <4>1. Calm(r) /\ ~(op \in Changes /\ thread[r].user = u)
        BY <2>1, <2>3, <3>2 DEF Calm
      <4>2. ~Changing(s, v) /\ v = thread[r].user
        BY <2>1, <3>2, <4>1 DEF CalmTrue
      <4> QED
        BY <2>1, <2>5, <4>1, <4>2
    <3> QED
      BY <3>1, <3>2
  <2> QED
    BY <2>6, <2>7
<1>5. CASE Restart
  <2>1. \A t \in Threads : thread'[t] = Idle
    BY <1>5 DEF Restart
  <2>2. \A t \in Threads : ~Calm(t)' /\ \A u : ~Changing(t, u)'
    BY <2>1, IdleChangesNobody
  <2> QED
    BY <2>2 DEF Exclusive, CalmTrue
<1>6. CASE UNCHANGED <<thread, doubtful>>
  BY <1>1, <1>6 DEF Calm, Changing
<1> QED
  BY <1>2, <1>3, <1>4, <1>5, <1>6 DEF Next, Work, Operates, Logout, vars

-----------------------------------------------------------------------------
(* How far a change is.                                                    *)

(* Where Goes and Ends lead.                                               *)
LEMMA GoesTo ==
  ASSUME Typed, NEW t \in Threads, NEW step, Goes(t, step)
  PROVE  /\ thread'[t].at = step /\ thread'[t].new = thread[t].new
         /\ promised' = promised
BY DEF Typed, Goes, Jobs

(* An operation that ends is resumed with its result.                      *)
LEMMA EndsTo ==
  ASSUME Typed, NEW t \in Threads, NEW r, Ends(t, r)
  PROVE  thread'[t].at = "resume" /\ thread'[t].result = r
<1> DEFINE job == thread[t]
           new == [Idle EXCEPT !.at = "resume", !.conn = job.conn,
                     !.op = job.op, !.user = job.user,
                     !.password = job.password, !.calm = job.calm,
                     !.result = r]
<1>1. thread'[t] = new
  BY DEF Typed, Ends
<1>2. new.at = "resume" /\ new.result = r
  BY DEF Idle
<1> QED
  BY <1>1, <1>2

(* A step of an operation leaves the other users alone.                    *)
LEMMA EntryKept ==
  ASSUME Typed, NEW t \in Threads, Operates(t), NEW u \in Users,
         ~Changing(t, u)
  PROVE  entry'[u] = entry[u] /\ promised'[u] = promised[u]
<1> DEFINE job == thread[t]
<1>1. ~(job.op \in Changes /\ job.user = u)
  BY DEF Changing
<1>2. entry'[u] = entry[u]
  <2>1. CASE Insert(t)
    <3>1. /\ job.op \in Changes
          /\ \A v \in Users \ {job.user} : entry'[v] = entry[v]
      BY <2>1, InsertTable DEF Changes
    <3> QED
      BY <1>1, <3>1
  <2>2. CASE Assign(t)
    <3>1. /\ job.op \in Changes
          /\ \A v \in Users \ {job.user} : entry'[v] = entry[v]
      BY <2>2, AssignTable DEF Changes
    <3> QED
      BY <1>1, <3>1
  <2>3. CASE Pop(t) /\ Present(job.user)
    <3>1. /\ job.op \in Changes
          /\ \A v \in Users \ {job.user} : entry'[v] = entry[v]
      BY <2>3, PopTable DEF Changes
    <3> QED
      BY <1>1, <3>1
  <2>4. CASE UNCHANGED tableVars
    BY <2>4 DEF tableVars
  <2> QED
    BY <2>1, <2>2, <2>3, <2>4, OperatesTable
<1>3. promised'[u] = promised[u]
  <2>1. promised' = promised \/ \E r : Ends(t, r)
    BY DEF Operates, LoginTest, Compare, Test, Insert, Pop, Assign, Open,
           WriteLine, Close, ReadOnly, NoLogin, Goes
  <2>2. ASSUME NEW r, Ends(t, r) PROVE promised'[u] = promised[u]
    <3>1. promised' = IF job.op \in Changes /\ r \in {"done", "raised"}
                      THEN [promised EXCEPT ![job.user] =
                              IF r = "raised" THEN "open" ELSE job.password]
                      ELSE promised
      BY <2>2 DEF Ends
    <3> QED
      BY <1>1, <3>1 DEF Typed, HistoryOK
  <2> QED
    BY <2>1, <2>2
<1> QED
  BY <1>2, <1>3

(* What has been spoilt stays so.                                          *)
LEMMA SpoiltStays == spoilt = "yes" /\ [Next]_vars => spoilt' = "yes"
<1> SUFFICES ASSUME spoilt = "yes", [Next]_vars PROVE spoilt' = "yes"
  OBVIOUS
<1>1. \A t \in Threads : Operates(t) => spoilt' = "yes"
  BY DEF Operates, LoginTest, Compare, Test, Insert, Pop, Assign, Open,
         WriteLine, Close, ReadOnly, TableOnly
<1>2. spoilt' = spoilt \/ Restart \/ \E t \in Threads : Operates(t)
  <2>1. \A t \in Threads : Work(t) => Operates(t) \/ Resume(t)
    BY DEF Work, Operates
  <2>2. \A t \in Threads : Resume(t) => spoilt' = spoilt
    BY DEF Resume
  <2>3. ASSUME NEW t \in Threads, NEW c, NEW op, NEW u, NEW p, NEW old,
               Start(t, c, op, u, p, old)
        PROVE  spoilt' = spoilt
    BY <2>3 DEF Start
  <2>4. \A c \in Conns : Logout(c) => spoilt' = spoilt
    BY DEF Logout
  <2>5. UNCHANGED vars => spoilt' = spoilt
    BY DEF vars
  <2> QED
    BY <2>1, <2>2, <2>3, <2>4, <2>5 DEF Next
<1>3. Restart => spoilt' = "yes"
  BY DEF Restart
<1> QED
  BY <1>1, <1>2, <1>3

(* Nor is any change under way.                                            *)
LEMMA ChangesInit == Init => ChangesTrue
<1> SUFFICES ASSUME Init, NEW t \in Threads PROVE thread[t].op \notin Changes
  BY DEF ChangesTrue
<1> QED
  BY PasswdAssumption DEF Init, Idle

(* An entry that others leave alone is as far as its change.               *)
ChangeTrue(job, e) ==
  /\ job.at = "insert" => e = None
  /\ job.at = "setSalt" => e # None /\ e.hash = Hash(job.password, job.new)
  /\ job.at \in {"setSalt", "open", "iterate", "close"} =>
       PasswordOf(e) = job.password

(* ChangesTrue says so of each thread that changes a user.                 *)
LEMMA ChangesTrueIs ==
  ChangesTrue <=> \A t \in Threads :
    thread[t].op \in Changes /\ thread[t].user \notin doubtful =>
      ChangeTrue(thread[t], entry[thread[t].user])
BY DEF ChangesTrue, ChangeTrue, Present

(* What a step of a change makes of its own user.                          *)
LEMMA OwnChange ==
  ASSUME Typed, ChangesTrue, NEW t \in Threads, Operates(t),
         thread[t].op \in Changes, thread[t].user \notin doubtful
  PROVE  ChangeTrue(thread'[t], entry'[thread[t].user])
<1> DEFINE job == thread[t] u == job.user new == thread'[t] e == entry[u]
           e2 == entry'[u]
<1>1. ChangeTrue(job, e)
  BY ChangesTrueIs
<1>2. u \in Users /\ job \in Jobs
  BY OperatesMoves, JobTyped
<1>3. new.password = job.password
  BY OperatesKeeps
<1>4. CASE Insert(t)
  <2>1. new.at = "open"
    BY <1>4, GoesTo DEF Insert
  <2>2. e2.hash = Hash(job.password, job.new) /\ e2 # None
    BY <1>4, InsertTable
  <2> QED
    BY <1>3, <2>1, <2>2 DEF ChangeTrue, PasswordOf, Hash
<1>5. CASE Assign(t)
  <2>1. CASE ~Present(u)
    <3>1. new.at = "resume"
      BY <1>5, <2>1, EndsTo DEF Assign
    <3> QED
      BY <3>1 DEF ChangeTrue
  <2>2. CASE Present(u) /\ At(t, "setHash")
    <3>1. new.at = "setSalt" /\ new.new = job.new
      BY <1>5, <2>2, GoesTo DEF Assign, At
    <3>2. e2.hash = Hash(job.password, job.new) /\ e2 # None
      BY <1>2, <1>5, <2>2, AssignTable DEF Present
    <3> QED
      BY <1>3, <3>1, <3>2 DEF ChangeTrue, PasswordOf, Hash
  <2>3. CASE Present(u) /\ ~At(t, "setHash")
    <3>1. new.at = "open" /\ job.at = "setSalt"
      BY <1>5, <2>3, GoesTo DEF Assign, At
    <3>2. e2.hash = e.hash /\ e2 # None
      BY <1>2, <1>5, <2>3, AssignTable DEF Present
    <3> QED
      BY <1>1, <1>3, <3>1, <3>2 DEF ChangeTrue, PasswordOf
  <2> QED
    BY <2>1, <2>2, <2>3
<1>6. CASE Pop(t)
  <2>1. CASE ~Present(u)
    <3>1. new.at = "resume"
      BY <1>6, <2>1, EndsTo DEF Pop
    <3> QED
      BY <3>1 DEF ChangeTrue
  <2>2. CASE Present(u)
    <3>1. new.at = "open"
      BY <1>6, <2>2, GoesTo DEF Pop
    <3>2. e2 = None /\ job.op = "delete_user"
      BY <1>6, <2>2, PopTable
    <3>3. job.password = None
      BY <3>2 DEF Typed, JobsOK, JobOK
    <3> QED
      BY <1>3, <3>1, <3>2, <3>3 DEF ChangeTrue, PasswordOf
  <2> QED
    BY <2>1, <2>2
<1>7. CASE Test(t)
  <2>1. e2 = e
    BY <1>7 DEF Test, ReadOnly, tableVars
  <2>2. new.at = "resume" \/ new.at = "pop" \/ (new.at = "insert" /\ e = None)
    BY <1>7, GoesTo, EndsTo DEF Test, Present
  <2> QED
    BY <2>1, <2>2 DEF ChangeTrue
<1>8. CASE LoginTest(t) \/ Compare(t)
  <2>1. new.at \in {"compare", "permissions", "resume", "setHash"}
    <3>1. CASE \E step \in {"permissions", "setHash"} : Goes(t, step)
      BY <3>1, GoesTo
    <3>2. CASE \E r : Ends(t, r)
      BY <3>2, EndsTo
    <3>3. CASE thread' = [thread EXCEPT ![t].at = "compare",
                                        ![t].salt = entry[u].salt]
      BY <1>2, <3>3 DEF Typed, Jobs
    <3> QED
      BY <1>8, <3>1, <3>2, <3>3 DEF LoginTest, Compare, NoLogin
  <2> QED
    BY <2>1 DEF ChangeTrue
<1>9. CASE Open(t) \/ WriteLine(t)
  <2>1. e2 = e
    BY <1>9, Zenon DEF Open, WriteLine, ReadOnly, tableVars
  <2>2. new.at \in {"iterate", "close"} /\ job.at \in {"open", "iterate"}
    BY <1>9, OpenMoves, WriteMoves DEF At, Open, WriteLine
  <2> QED
    BY <1>1, <1>3, <2>1, <2>2 DEF ChangeTrue
<1>10. CASE Close(t)
  <2>1. new.at = "resume"
    BY <1>10, CloseMoves DEF At
  <2> QED
    BY <2>1 DEF ChangeTrue
<1> QED
  BY <1>4, <1>5, <1>6, <1>7, <1>8, <1>9, <1>10 DEF Operates

(* A step keeps what is true of the changes under way.                     *)
LEMMA ChangesStep ==
  Typed /\ Exclusive /\ ChangesTrue /\ [Next]_vars => ChangesTrue'
<1> SUFFICES ASSUME Typed, Exclusive, ChangesTrue, [Next]_vars
             PROVE  ChangesTrue'
  OBVIOUS
<1> DEFINE Holds(s) ==
      thread'[s].op \in Changes /\ thread'[s].user \notin doubtful' =>
        ChangeTrue(thread'[s], entry'[thread'[s].user])
<1>1. (\A s \in Threads : Holds(s)) => ChangesTrue'
  BY DEF ChangesTrue, ChangeTrue, Present
<1>2. ASSUME NEW s \in Threads, thread'[s].op \in Changes,
             thread[s].op \in Changes, thread[s].user \notin doubtful,
             thread'[s].at = thread[s].at, thread'[s].user = thread[s].user,
             thread'[s].password = thread[s].password,
             thread'[s].new = thread[s].new,
             entry'[thread[s].user] = entry[thread[s].user]
      PROVE  Holds(s)
  BY <1>2, ChangesTrueIs DEF ChangeTrue
<1>3. ASSUME NEW t \in Threads, Operates(t), NEW s \in Threads PROVE Holds(s)
  <2> SUFFICES ASSUME thread'[s].op \in Changes,
                      thread'[s].user \notin doubtful'
               PROVE  Holds(s)
    OBVIOUS
  <2>1. /\ thread[s].op \in Changes /\ thread[s].user \notin doubtful
        /\ thread'[s].user = thread[s].user
    BY <1>3, OperatesKeeps
  <2>2. CASE s = t
    BY <1>3, <2>1, <2>2, OwnChange
  <2>3. CASE s # t
    <3>1. thread'[s] = thread[s] /\ thread[s].user \in Users
      <4>1. thread[s].at # "idle"
        BY <2>1, PasswdAssumption DEF Typed, JobsOK, JobOK
      <4> QED
        BY <1>3, <2>3, <4>1, JobTyped, OperatesKeeps
    <3>2. ~Changing(t, thread[s].user)
      BY <2>1, <2>3, <3>1 DEF Exclusive, Changing
    <3>3. entry'[thread[s].user] = entry[thread[s].user]
      BY <1>3, <3>1, <3>2, EntryKept
    <3> QED
      BY <1>2, <2>1, <3>1, <3>3
  <2> QED
    BY <2>2, <2>3
<1>4. ASSUME NEW t \in Threads, Resume(t), NEW s \in Threads PROVE Holds(s)
  <2>1. /\ thread' = [thread EXCEPT ![t] = Idle] /\ doubtful' = doubtful
        /\ entry' = entry
    BY <1>4 DEF Resume, tableVars
  <2>2. CASE s = t
    <3>1. thread'[s].op \notin Changes
      BY <2>1, <2>2, PasswdAssumption DEF Typed, Idle
    <3> QED
      BY <3>1
  <2>3. CASE s # t
    BY <1>2, <2>1, <2>3
  <2> QED
    BY <2>2, <2>3
<1>5. ASSUME NEW t \in Threads, NEW c \in Conns,
             NEW op \in Changes \cup {"login"}, NEW u \in Users,
             NEW p \in Passwords \cup {None}, NEW old \in Passwords \cup {None},
             Start(t, c, op, u, p, old), NEW s \in Threads
      PROVE  Holds(s)
  <2>1. CASE s = t
    <3>1. thread'[s].at \in {"login", "create", "delete", "setHash"}
      BY <1>5, <2>1, StartKeeps
    <3> QED
      BY <3>1 DEF ChangeTrue
  <2>2. CASE s # t
    <3>1. /\ thread'[s].at = thread[s].at /\ thread'[s].op = thread[s].op
          /\ thread'[s].user = thread[s].user
          /\ thread'[s].password = thread[s].password
          /\ thread'[s].new = thread[s].new
      BY <1>5, <2>2, StartKeeps
    <3>2. entry' = entry /\ doubtful \subseteq doubtful'
      BY <1>5 DEF Start, tableVars
    <3> QED
      BY <1>2, <3>1, <3>2
  <2> QED
    BY <2>1, <2>2
<1>6. ASSUME Restart, NEW s \in Threads PROVE Holds(s)
  <2>1. thread'[s].op \notin Changes
    BY <1>6, PasswdAssumption DEF Restart, Idle
  <2> QED
    BY <2>1
<1>7. ASSUME UNCHANGED <<thread, entry, doubtful>>, NEW s \in Threads
      PROVE  Holds(s)
  BY <1>2, <1>7
<1> QED
  BY <1>1, <1>3, <1>4, <1>5, <1>6, <1>7
  DEF Next, Work, Operates, Logout, vars, tableVars

(* The first part of the invariant, which the history of the file does not *)
(* touch.                                                                  *)
Basics == Typed /\ Exclusive /\ CalmTrue /\ ChangesTrue

(* It holds always.                                                        *)
LEMMA BasicsAlways == Spec => []Basics
<1>1. Init => Basics
  BY TypedInit, OwnersInit, ChangesInit DEF Basics
<1>2. Basics /\ [Next]_vars => Basics'
  BY TypedStep, OwnersStep, ChangesStep DEF Basics
<1> QED
  BY <1>1, <1>2, PTL DEF Spec

(* The password of a user who stays is changed by set_password() only, not *)
(* by a second creation, unless changes of the user overlapped or the      *)
(* server was started again.                                               *)
THEOREM PasswordsKept == Spec => PasswordKept
<1> DEFINE Keeps ==
      \A u \in Users \ doubtful' :
        entry[u] # None /\ entry'[u] # None
          /\ PasswordOf(entry[u]) # PasswordOf(entry'[u]) =>
            \/ crashes' # crashes
            \/ \E t \in Threads : At(t, "setHash") /\ thread[t].user = u
<1>1. Basics /\ [Next]_vars => Keeps
  <2> SUFFICES ASSUME Basics, [Next]_vars, NEW u \in Users \ doubtful',
                      entry[u] # None, entry'[u] # None,
                      PasswordOf(entry[u]) # PasswordOf(entry'[u]),
                      crashes' = crashes
               PROVE  \E t \in Threads : At(t, "setHash") /\ thread[t].user = u
    OBVIOUS
  <2>1. Typed
    BY DEF Basics
  <2>2. entry'[u] # entry[u]
    OBVIOUS
  <2>3. ~Restart
    <3>1. crashes \in Int
      BY <2>1 DEF Typed, HistoryOK
    <3> QED
      BY <3>1 DEF Restart
  <2>4. PICK t \in Threads : Operates(t)
    <3>1. \A t \in Threads : Work(t) => Operates(t) \/ Resume(t)
      BY DEF Work, Operates
    <3>2. \A t \in Threads : Resume(t) => entry' = entry
      BY DEF Resume, tableVars
    <3>3. ASSUME NEW t \in Threads, NEW c, NEW op, NEW v, NEW p, NEW old,
                 Start(t, c, op, v, p, old)
          PROVE  entry' = entry
      BY <3>3 DEF Start, tableVars
    <3>4. \A c \in Conns : Logout(c) => entry' = entry
      BY DEF Logout, tableVars
    <3>5. UNCHANGED vars => entry' = entry
      BY DEF vars, tableVars
    <3>6. \E t \in Threads : Operates(t)
      BY <2>2, <2>3, <3>1, <3>2, <3>3, <3>4, <3>5 DEF Next
    <3> QED
      BY <3>6
  <2>5. Changing(t, u)
    BY <2>1, <2>2, <2>4, EntryKept
  <2>6. thread[t].user = u /\ u \notin doubtful /\ thread[t].op \in Changes
    BY <2>1, <2>4, <2>5, OperatesKeeps DEF Changing
  <2>7. CASE Insert(t)
    BY <2>6, <2>7 DEF Basics, ChangesTrue, Insert, At, Present
  <2>8. CASE Pop(t) /\ Present(thread[t].user)
    BY <2>1, <2>6, <2>8, PopTable
  <2>9. CASE Assign(t)
    <3>1. CASE At(t, "setHash")
      BY <2>6, <3>1
    <3>2. CASE ~At(t, "setHash")
      <4>1. entry'[u].hash = entry[u].hash
        BY <2>1, <2>6, <2>9, <3>2, AssignTable DEF Present
      <4> QED
        BY <4>1 DEF PasswordOf
    <3> QED
      BY <3>1, <3>2
  <2> QED
    BY <2>1, <2>2, <2>4, <2>7, <2>8, <2>9, OperatesTable DEF tableVars
<1>2. PasswordKept <=> [][Keeps]_vars
  BY DEF PasswordKept
<1> QED
  BY <1>1, <1>2, BasicsAlways, PTL DEF Spec

-----------------------------------------------------------------------------
(* What the table says of a user, also after a restart.                    *)

(* A start after which nothing is spoilt reads what the table said of the  *)
(* users whom nobody was changing.                                         *)
LEMMA RestartReads ==
  ASSUME Basics, FileTrue, Restart, spoilt' # "yes",
         NEW u \in Users, u \notin doubtful'
  PROVE  /\ u \notin doubtful /\ spoilt = "no" /\ spoilt' = "no" /\ ~Writer
         /\ \A t \in Threads : ~Changing(t, u)
         /\ Agrees(u) /\ promised'[u] = promised[u]
         /\ Present(u)' <=> Present(u)
         /\ Present(u) => /\ entry'[u].hash = entry[u].hash
                          /\ entry'[u].salt = entry[u].salt
                          /\ entry'[u].perms = Line(u).perms
         /\ PasswordOf(entry'[u]) = PasswordOf(entry[u])
<1> DEFINE hit == {v \in Users : \E t \in Threads : Changing(t, v)}
<1>1. /\ Typed /\ file \in Seq(Lines)
      /\ entry \in [Users -> Entries \cup {None}]
      /\ promised \in [Users -> Passwords \cup {None, "open"}]
      /\ spoilt \in {"no", "partial", "yes"}
  BY DEF Basics, Typed, TableOK, HistoryOK
<1>2. /\ entry' = [v \in Users |-> ReadEntry(file, v)]
      /\ promised' = [v \in Users |-> IF v \in hit THEN "open"
                                                   ELSE promised[v]]
      /\ doubtful' = doubtful \cup hit
      /\ spoilt' = IF spoilt = "partial" \/ \E t \in Threads : Writing(t)
                   THEN "yes" ELSE spoilt
  BY DEF Restart
<1>3. spoilt = "no" /\ spoilt' = "no" /\ ~Writer
  BY <1>1, <1>2 DEF Writer
<1>4. u \notin doubtful /\ u \notin hit /\ promised'[u] = promised[u]
  BY <1>2
<1>5. \A t \in Threads : ~Changing(t, u)
  BY <1>4
<1>6. Agrees(u)
  <2>1. ~Retried /\ ~Reset(u) /\ ~AtOpen(u)
    BY <1>3, <1>5 DEF Retried, Reset, AtOpen, Changing, Changes
  <2> QED
    BY <1>3, <1>4, <2>1 DEF FileTrue
<1>7. entry'[u] = ReadEntry(file, u)
  BY <1>2
<1>8. CASE Present(u)
  <2>1. ReadEntry(file, u) # None
    BY <1>1, <1>6, <1>8, ReadEntryOf DEF Agrees
  <2>2. PICK i \in DOMAIN file :
          /\ file[i].name = u
          /\ ReadEntry(file, u) = [hash |-> file[i].hash,
               salt |-> file[i].salt, perms |-> file[i].perms]
    BY <1>1, <2>1, ReadEntryOf
  <2>3. file[i] = Line(u)
    BY <1>6, <1>8, <2>2 DEF Agrees
  <2>4. Line(u).hash = entry[u].hash /\ Line(u).salt = entry[u].salt
    BY <1>1, <1>8, LineTyped
  <2>5. /\ entry'[u].hash = entry[u].hash /\ entry'[u].salt = entry[u].salt
        /\ entry'[u].perms = Line(u).perms /\ entry'[u] # None
    BY <1>7, <2>1, <2>2, <2>3, <2>4
  <2>6. PasswordOf(entry'[u]) = PasswordOf(entry[u])
    BY <1>8, <2>5 DEF PasswordOf, Present
  <2> QED
    BY <1>3, <1>4, <1>5, <1>6, <1>8, <2>5, <2>6 DEF Present
<1>9. CASE ~Present(u)
  <2>1. ReadEntry(file, u) = None
    BY <1>1, <1>6, <1>9, ReadEntryOf DEF Agrees
  <2> QED
    BY <1>3, <1>4, <1>5, <1>6, <1>7, <1>9, <2>1 DEF Present
<1> QED
  BY <1>8, <1>9

(* At rest, and until a change is made, a user has the password that was   *)
(* last acknowledged.                                                      *)
LEMMA SettledStep ==
  Basics /\ FileTrue /\ ChangesSettled /\ [Next]_vars => ChangesSettled'
<1> SUFFICES ASSUME Basics, FileTrue, ChangesSettled, [Next]_vars,
                    spoilt' # "yes", NEW u \in Users \ doubtful',
                    \A t \in Threads : Changing(t, u)' => thread'[t].at \notin
                      {"setSalt", "open", "iterate", "close"}
             PROVE  promised'[u] \in {"open", PasswordOf(entry'[u])}
  BY DEF ChangesSettled, Settled
<1>1. spoilt # "yes" /\ Typed /\ Exclusive
  BY SpoiltStays DEF Basics
<1> DEFINE Early == \A t \in Threads : Changing(t, u) => thread[t].at \notin
                      {"setSalt", "open", "iterate", "close"}
<1>2. Early /\ u \notin doubtful =>
        promised[u] \in {"open", PasswordOf(entry[u])}
  BY <1>1 DEF ChangesSettled, Settled
<1>3. ASSUME NEW t \in Threads, Operates(t)
      PROVE  promised'[u] \in {"open", PasswordOf(entry'[u])}
  <2>1. /\ u \notin doubtful
        /\ \A s \in Threads : Changing(s, u)' <=> Changing(s, u)
        /\ \A s \in Threads \ {t} : thread'[s] = thread[s]
    BY <1>1, <1>3, OperatesKeeps
  <2>2. CASE ~Changing(t, u)
    <3>1. Early
      BY <2>1, <2>2
    <3>2. entry'[u] = entry[u] /\ promised'[u] = promised[u]
      BY <1>1, <1>3, <2>2, EntryKept
    <3> QED
      BY <1>2, <2>1, <3>1, <3>2
  <2>3. CASE Changing(t, u)
    <3> DEFINE job == thread[t]
    <3>1. /\ job.user = u /\ job.op \in Changes
          /\ thread'[t].at \notin {"setSalt", "open", "iterate", "close"}
      BY <2>1, <2>3 DEF Changing
    <3>2. job.at \notin {"setSalt", "open", "iterate", "close"} => Early
      BY <1>1, <2>1, <2>3 DEF Exclusive
    <3>3. ASSUME NEW r, Ends(t, r)
          PROVE  promised'[u] = IF r = "raised" THEN "open"
                                ELSE IF r = "done" THEN job.password
                                ELSE promised[u]
      <4>1. promised' = IF r \in {"done", "raised"}
                        THEN [promised EXCEPT ![u] =
                               IF r = "raised" THEN "open" ELSE job.password]
                        ELSE promised
        BY <3>1, <3>3 DEF Ends
      <4>2. promised \in [Users -> Passwords \cup {None, "open"}]
        BY <1>1 DEF Typed, HistoryOK
      <4> QED
        BY <4>1, <4>2
    <3>4. CASE Ends(t, "raised")
      BY <3>3, <3>4
    <3>5. CASE /\ entry' = entry /\ Early
               /\ (Ends(t, "refused") \/ promised' = promised)
      BY <1>2, <2>1, <3>3, <3>5
    <3>6. CASE At(t, "close") /\ Ends(t, "done") /\ entry' = entry
      <4>1. PasswordOf(entry[u]) = job.password
        BY <2>1, <3>1, <3>6 DEF Basics, ChangesTrue, At
      <4>2. promised'[u] = job.password
        BY <3>3, <3>6
      <4> QED
        BY <3>6, <4>1, <4>2
    <3>7. CASE LoginTest(t) \/ Compare(t)
      <4>1. job.at \in {"login", "compare", "permissions"} /\ entry' = entry
        BY <3>7 DEF LoginTest, Compare, At, ReadOnly, tableVars
      <4>2. job.op # "login"
        BY <3>1 DEF Changes
      <4>3. ~At(t, "permissions")
        BY <1>1, <3>1, <4>2 DEF Basics, Typed, JobsOK, JobOK, StepOf, At
      <4>4. \/ Ends(t, "raised") \/ Ends(t, "refused") \/ promised' = promised
        BY <3>7, <4>2, <4>3 DEF LoginTest, Compare, NoLogin, Goes
      <4> QED
        BY <3>2, <3>4, <3>5, <4>1, <4>4
    <3>8. CASE Test(t)
      <4>1. job.at \in {"create", "delete"} /\ entry' = entry
        BY <3>8 DEF Test, At, ReadOnly, tableVars
      <4>2. Ends(t, "refused") \/ promised' = promised
        BY <3>8 DEF Test, Goes
      <4> QED
        BY <3>2, <3>5, <4>1, <4>2
    <3>9. CASE Insert(t)
      BY <1>1, <3>1, <3>9, GoesTo DEF Insert
    <3>10. CASE Pop(t)
      BY <1>1, <3>1, <3>4, <3>10, GoesTo DEF Pop
    <3>11. CASE Assign(t)
      BY <1>1, <3>1, <3>4, <3>11, GoesTo DEF Assign
    <3>12. CASE Open(t)
      BY <1>1, <3>1, <3>12, OpenMoves DEF At
    <3>13. CASE WriteLine(t)
      BY <1>1, <3>1, <3>13, WriteMoves
    <3>14. CASE Close(t)
      BY <3>4, <3>6, <3>14 DEF Close, tableVars
    <3> QED
      BY <1>3, <3>7, <3>8, <3>9, <3>10, <3>11, <3>12, <3>13, <3>14
      DEF Operates
  <2> QED
    BY <2>2, <2>3
<1>4. ASSUME NEW t \in Threads, Resume(t)
      PROVE  promised'[u] \in {"open", PasswordOf(entry'[u])}
  <2>1. /\ thread' = [thread EXCEPT ![t] = Idle] /\ doubtful' = doubtful
        /\ entry' = entry /\ promised' = promised /\ thread[t].at = "resume"
    BY <1>4 DEF Resume, tableVars, At
  <2>2. \A s \in Threads \ {t} : thread'[s] = thread[s]
    BY <2>1
  <2>3. Early
    BY <2>1, <2>2 DEF Changing
  <2> QED
    BY <1>2, <2>1, <2>3
<1>5. ASSUME NEW t \in Threads, NEW c \in Conns,
             NEW op \in Changes \cup {"login"}, NEW v \in Users,
             NEW p \in Passwords \cup {None}, NEW old \in Passwords \cup {None},
             Start(t, c, op, v, p, old)
      PROVE  promised'[u] \in {"open", PasswordOf(entry'[u])}
  <2>1. \A s \in Threads \ {t} :
          /\ thread'[s].at = thread[s].at /\ thread'[s].op = thread[s].op
          /\ thread'[s].user = thread[s].user
    BY <1>1, <1>5, StartKeeps
  <2>2. thread[t].op \notin Changes
    <3>1. thread[t].op = None
      BY <1>1, <1>5, StartKeeps
    <3> QED
      BY <3>1, PasswdAssumption
  <2>3. Early
    BY <2>1, <2>2 DEF Changing
  <2>4. /\ entry' = entry /\ promised' = promised
        /\ doubtful \subseteq doubtful'
    BY <1>5 DEF Start, tableVars
  <2> QED
    BY <1>2, <2>3, <2>4
<1>6. CASE Restart
  <2>1. /\ u \notin doubtful /\ \A t \in Threads : ~Changing(t, u)
        /\ promised'[u] = promised[u]
        /\ PasswordOf(entry'[u]) = PasswordOf(entry[u])
    BY <1>6, RestartReads
  <2> QED
    BY <1>2, <2>1
<1>7. CASE UNCHANGED <<thread, entry, promised, doubtful>>
  BY <1>2, <1>7 DEF Changing
<1> QED
  BY <1>3, <1>4, <1>5, <1>6, <1>7
  DEF Next, Work, Operates, Logout, vars, tableVars

(* Nobody is locked out by a step.                                         *)
LEMMA LockedStep ==
  Basics /\ FileTrue /\ NobodyLockedOut /\ [Next]_vars => NobodyLockedOut'
<1> DEFINE Fits(u) == entry[u].hash.salt = entry[u].salt
           Between(u) == \E t \in Threads :
                           At(t, "setSalt") /\ thread[t].user = u
           Good(u) ==
             \/ entry'[u].hash.salt = entry'[u].salt
             \/ \E t \in Threads : thread'[t].at = "setSalt"
                                     /\ thread'[t].user = u
<1> SUFFICES ASSUME Basics, FileTrue, NobodyLockedOut, [Next]_vars,
                    spoilt' # "yes", NEW u \in Users, u \notin doubtful',
                    entry'[u] # None
             PROVE  Good(u)
  BY DEF NobodyLockedOut, Present, At
<1>1. spoilt # "yes" /\ Typed /\ Exclusive /\ ChangesTrue
  BY SpoiltStays DEF Basics
<1>2. u \notin doubtful /\ Present(u) => Fits(u) \/ Between(u)
  BY <1>1 DEF NobodyLockedOut
<1>3. ASSUME u \notin doubtful, entry'[u] = entry[u],
             \A s \in Threads : At(s, "setSalt") /\ thread[s].user = u =>
               thread'[s].at = "setSalt" /\ thread'[s].user = u
      PROVE  Good(u)
  <2>1. Fits(u) \/ Between(u)
    BY <1>2, <1>3 DEF Present
  <2>2. CASE Fits(u)
    BY <1>3, <2>2
  <2>3. CASE Between(u)
    BY <1>3, <2>3
  <2> QED
    BY <2>1, <2>2, <2>3
<1>4. ASSUME NEW t \in Threads, Operates(t) PROVE Good(u)
  <2>1. /\ u \notin doubtful
        /\ \A s \in Threads : thread'[s].user = thread[s].user
        /\ \A s \in Threads \ {t} : thread'[s] = thread[s]
    BY <1>1, <1>4, OperatesKeeps
  <2>2. \A s \in Threads : At(s, "setSalt") => thread[s].op \in Changes
    BY <1>1, JobTyped DEF At, StepOf, Changes
  <2>3. CASE ~Changing(t, u)
    <3>1. entry'[u] = entry[u]
      BY <1>1, <1>4, <2>3, EntryKept
    <3>2. \A s \in Threads : At(s, "setSalt") /\ thread[s].user = u => s # t
      BY <2>2, <2>3 DEF Changing
    <3> QED
      BY <1>3, <2>1, <3>1, <3>2 DEF At
  <2>4. CASE Changing(t, u)
    <3>1. thread[t].user = u
      BY <2>4 DEF Changing
    <3>2. \A s \in Threads : At(s, "setSalt") /\ thread[s].user = u => s = t
      BY <1>1, <2>1, <2>2, <2>4 DEF Exclusive, Changing
    <3>3. CASE entry' = entry /\ ~At(t, "setSalt")
      BY <1>3, <2>1, <3>2, <3>3
    <3>4. CASE Insert(t)
      <4>1. /\ entry'[u].hash = Hash(thread[t].password, thread[t].new)
            /\ entry'[u].salt = thread[t].new
        BY <1>1, <3>1, <3>4, InsertTable
      <4> QED
        BY <4>1 DEF Hash
    <3>5. CASE Pop(t) /\ Present(u)
      BY <1>1, <3>1, <3>5, PopTable
    <3>6. CASE Assign(t)
      <4>1. Present(u) /\ u \in Users
        BY <1>1, <3>1, <3>6, AssignTable DEF Present
      <4>2. CASE At(t, "setHash")
        <5>1. thread'[t].at = "setSalt"
          BY <1>1, <3>1, <3>6, <4>1, <4>2, GoesTo DEF Assign, At
        <5> QED
          BY <2>1, <3>1, <5>1
      <4>3. CASE At(t, "setSalt") /\ ~At(t, "setHash")
        <5>1. entry[u].hash = Hash(thread[t].password, thread[t].new)
          BY <1>1, <2>1, <2>4, <3>1, <4>3 DEF ChangesTrue, Changing, At
        <5>2. /\ entry'[u].hash = entry[u].hash
              /\ entry'[u].salt = thread[t].new
          BY <1>1, <3>1, <3>6, <4>1, <4>3, AssignTable
        <5> QED
          BY <5>1, <5>2 DEF Hash
      <4> QED
        BY <3>6, <4>2, <4>3 DEF Assign
    <3>7. \/ Insert(t) \/ Assign(t)
          \/ Pop(t) /\ Present(u)
          \/ entry' = entry /\ ~At(t, "setSalt")
      <4>1. At(t, "setSalt") => Assign(t)
        BY <1>4 DEF Operates, LoginTest, Compare, Test, Insert, Pop, Open,
                    WriteLine, Close, At
      <4>2. \/ Insert(t) \/ Assign(t) \/ UNCHANGED tableVars
            \/ Pop(t) /\ Present(thread[t].user)
        BY <1>1, <1>4, OperatesTable
      <4>3. UNCHANGED tableVars => entry' = entry
        BY DEF tableVars
      <4> QED
        BY <3>1, <4>1, <4>2, <4>3
    <3> QED
      BY <3>3, <3>4, <3>5, <3>6, <3>7
  <2> QED
    BY <2>3, <2>4
<1>5. ASSUME NEW t \in Threads, Resume(t) PROVE Good(u)
  <2>1. /\ thread' = [thread EXCEPT ![t] = Idle] /\ doubtful' = doubtful
        /\ entry' = entry /\ thread[t].at = "resume"
    BY <1>5 DEF Resume, tableVars, At
  <2> QED
    BY <1>3, <2>1 DEF At
<1>6. ASSUME NEW t \in Threads, NEW c \in Conns,
             NEW op \in Changes \cup {"login"}, NEW v \in Users,
             NEW p \in Passwords \cup {None}, NEW old \in Passwords \cup {None},
             Start(t, c, op, v, p, old)
      PROVE  Good(u)
  <2>1. \A s \in Threads \ {t} :
          thread'[s].at = thread[s].at /\ thread'[s].user = thread[s].user
    BY <1>1, <1>6, StartKeeps
  <2>2. entry' = entry /\ At(t, "idle")
    <3>1. entry' = entry
      BY <1>6, StartLeaves
    <3>2. thread[t].op = None
      BY <1>1, <1>6, StartKeeps
    <3>3. thread[t].at = "idle"
      BY <1>1, <3>2 DEF Typed, JobsOK, JobOK
    <3> QED
      BY <3>1, <3>3 DEF At
  <2>3. doubtful \subseteq doubtful'
    BY <1>1, <1>6, StartKeeps
  <2> QED
    BY <1>3, <2>1, <2>2, <2>3 DEF At
<1>7. CASE Restart
  <2>1. /\ u \notin doubtful /\ \A t \in Threads : ~Changing(t, u)
        /\ Present(u)' <=> Present(u)
        /\ Present(u) => /\ entry'[u].hash = entry[u].hash
                         /\ entry'[u].salt = entry[u].salt
    BY <1>7, RestartReads
  <2>2. \A s \in Threads : At(s, "setSalt") => thread[s].op \in Changes
    BY <1>1, JobTyped DEF At, StepOf, Changes
  <2>3. Present(u) /\ ~Between(u)
    BY <2>1, <2>2 DEF Present, Changing
  <2> QED
    BY <1>2, <2>1, <2>3
<1>8. CASE UNCHANGED <<thread, entry, doubtful>>
  BY <1>3, <1>8 DEF At
<1> QED
  BY <1>4, <1>5, <1>6, <1>7, <1>8
  DEF Next, Work, Operates, Logout, vars, tableVars

(* A login compares what it was given with what the table says.            *)
LoginTrue(job, e) ==
  /\ job.at = "compare" => e # None /\ job.salt = e.salt
  /\ job.at = "permissions" => e # None /\ PasswordOf(e) = job.password
  /\ job.at = "resume" => /\ job.result # "raised"
                          /\ job.result # None <=> PasswordOf(e) = job.password

(* A step of a calm login itself.                                          *)
LEMMA OwnLogin ==
  ASSUME Basics, NobodyLockedOut, spoilt # "yes", NEW t \in Threads, Calm(t),
         Operates(t), LoginTrue(thread[t], entry[thread[t].user])
  PROVE  LoginTrue(thread'[t], entry'[thread[t].user])
<1> DEFINE job == thread[t] u == job.user new == thread'[t] e == entry[u]
<1>1. Typed /\ CalmTrue
  BY DEF Basics
<1>2. job \in Jobs /\ u \in Users /\ job.op = "login" /\ StepOf(job.at, job.op)
  BY <1>1, OperatesMoves, JobTyped DEF Calm
<1>3. job.password \in Passwords /\ job.password # None
  BY <1>1, <1>2, PasswdAssumption DEF Typed, JobsOK, JobOK
<1>4. new.password = job.password
  BY <1>1, OperatesKeeps
<1>5. job.at \in {"login", "compare", "permissions"}
  <2>1. job.at \in Steps /\ job.at \notin {"idle", "resume"}
    BY <1>1, <1>2, OperatesMoves DEF Jobs
  <2> QED
    BY <1>2, <2>1 DEF StepOf, Changes, Steps
<1>6. LoginTest(t) \/ Compare(t)
  BY <1>5 DEF Operates, Test, Insert, Pop, Assign, Open, WriteLine, Close, At
<1>7. entry' = entry
  BY <1>6 DEF LoginTest, Compare, ReadOnly, tableVars
<1>8. e # None => e \in Entries
  BY <1>1, <1>2 DEF Typed, TableOK
<1>9. CASE LoginTest(t)
  <2>1. CASE ~Present(u)
    <3>1. Ends(t, None)
      BY <1>2, <1>9, <2>1 DEF LoginTest, NoLogin
    <3>2. new.at = "resume" /\ new.result = None
      BY <1>1, <3>1, EndsTo
    <3>3. PasswordOf(e) = None
      BY <2>1 DEF Present, PasswordOf
    <3> QED
      BY <1>3, <1>4, <1>7, <3>2, <3>3, PasswdAssumption DEF LoginTrue
  <2>2. CASE Present(u)
    <3>1. thread' = [thread EXCEPT ![t].at = "compare", ![t].salt = e.salt]
      BY <1>9, <2>2 DEF LoginTest
    <3>2. new.at = "compare" /\ new.salt = e.salt
      BY <1>1, <1>2, <3>1 DEF Typed, Jobs
    <3> QED
      BY <1>7, <2>2, <3>2 DEF LoginTrue, Present
  <2> QED
    BY <2>1, <2>2
<1>10. CASE Compare(t) /\ At(t, "compare")
  <2>1. e # None /\ job.salt = e.salt /\ e \in Entries
    BY <1>8, <1>10 DEF At, LoginTrue
  <2>2. e.hash \in Hashes /\ e.perms \in Permissions
    BY <2>1 DEF Entries
  <2>3. e.hash = Hash(e.hash.password, e.hash.salt)
    BY <2>2 DEF Hash, Hashes
  <2>4. e.hash.salt = e.salt
    <3>1. \A s \in Threads : At(s, "setSalt") => thread[s].op \in Changes
      BY <1>1, JobTyped DEF At, StepOf, Changes
    <3>2. ~\E s \in Threads : At(s, "setSalt") /\ thread[s].user = u
      BY <1>1, <3>1 DEF CalmTrue, Changing
    <3> QED
      BY <1>2, <2>1, <3>2 DEF NobodyLockedOut, Present, Calm
  <2>5. Secret(t) = job.password
    BY <1>2 DEF Secret
  <2>6. CASE e.hash # Hash(job.password, job.salt)
    <3>1. Ends(t, None)
      BY <1>2, <1>10, <2>1, <2>5, <2>6 DEF Compare, NoLogin, Present, At
    <3>2. new.at = "resume" /\ new.result = None
      BY <1>1, <3>1, EndsTo
    <3>3. e.hash.password # job.password
      BY <2>1, <2>3, <2>4, <2>6
    <3>4. PasswordOf(e) # job.password
      BY <2>1, <3>3 DEF PasswordOf
    <3> QED
      BY <1>4, <1>7, <3>2, <3>4, PasswdAssumption DEF LoginTrue
  <2>7. CASE e.hash = Hash(job.password, job.salt)
    <3>1. Goes(t, "permissions")
      BY <1>2, <1>10, <2>1, <2>5, <2>7 DEF Compare, Present, At
    <3>2. new.at = "permissions"
      BY <1>1, <3>1, GoesTo
    <3>3. PasswordOf(e) = job.password
      BY <2>1, <2>7 DEF PasswordOf, Hash
    <3> QED
      BY <1>4, <1>7, <2>1, <3>2, <3>3 DEF LoginTrue
  <2> QED
    BY <2>6, <2>7
<1>11. CASE Compare(t) /\ At(t, "permissions")
  <2>1. e # None /\ PasswordOf(e) = job.password /\ e \in Entries
    BY <1>8, <1>11 DEF At, LoginTrue
  <2>2. Ends(t, e.perms)
    BY <1>11, <2>1 DEF Compare, Present, At
  <2>3. new.at = "resume" /\ new.result = e.perms
    BY <1>1, <2>2, EndsTo
  <2>4. e.perms # "raised" /\ e.perms # None
    BY <2>1, PasswdAssumption DEF Entries, Permissions
  <2> QED
    BY <1>4, <1>7, <2>1, <2>3, <2>4 DEF LoginTrue
<1>12. Compare(t) => At(t, "compare") \/ At(t, "permissions")
  BY DEF Compare
<1> QED
  BY <1>6, <1>9, <1>10, <1>11, <1>12

(* What calm logins know stays true.                                       *)
LEMMA LoginsStep ==
  Basics /\ NobodyLockedOut /\ LoginsTrue /\ [Next]_vars => LoginsTrue'
<1> DEFINE Was(s) == LoginTrue(thread[s], entry[thread[s].user])
           Is(s) == LoginTrue(thread'[s], entry'[thread'[s].user])
<1> SUFFICES ASSUME Basics, NobodyLockedOut, LoginsTrue, [Next]_vars,
                    spoilt' # "yes", NEW s \in Threads, Calm(s)'
             PROVE  Is(s)
  BY DEF LoginsTrue, LoginTrue, At, Present
<1>1. spoilt # "yes" /\ Typed /\ CalmTrue
  BY SpoiltStays DEF Basics
<1>2. Calm(s) => Was(s)
  BY <1>1 DEF LoginsTrue, LoginTrue, At, Present
<1>3. /\ thread'[s].op = "login" /\ thread'[s].calm
      /\ thread'[s].user \notin doubtful'
  BY DEF Calm
<1>4. ASSUME Calm(s), entry'[thread[s].user] = entry[thread[s].user],
             thread'[s].at = thread[s].at, thread'[s].user = thread[s].user,
             thread'[s].password = thread[s].password,
             thread'[s].salt = thread[s].salt,
             thread'[s].result = thread[s].result
      PROVE  Is(s)
  BY <1>2, <1>4 DEF LoginTrue
<1>5. ASSUME NEW t \in Threads, Operates(t) PROVE Is(s)
  <2>1. Calm(s) /\ thread'[s].user = thread[s].user
    BY <1>1, <1>3, <1>5, OperatesKeeps DEF Calm
  <2>2. CASE s = t
    BY <1>1, <1>2, <1>5, <2>1, <2>2, OwnLogin
  <2>3. CASE s # t
    <3>1. thread'[s] = thread[s]
      BY <1>1, <1>5, <2>3, OperatesKeeps
    <3>2. thread[s].user \in Users
      <4>1. thread[s].at # "idle"
        BY <1>1, <2>1, PasswdAssumption DEF Calm, Typed, JobsOK, JobOK
      <4> QED
        BY <1>1, <4>1, JobTyped
    <3>3. entry'[thread[s].user] = entry[thread[s].user]
      BY <1>1, <1>5, <2>1, <3>2, EntryKept DEF CalmTrue
    <3> QED
      BY <1>4, <2>1, <3>1, <3>3
  <2> QED
    BY <2>2, <2>3
<1>6. ASSUME NEW t \in Threads, Resume(t) PROVE Is(s)
  <2>1. /\ thread' = [thread EXCEPT ![t] = Idle] /\ doubtful' = doubtful
        /\ entry' = entry
    BY <1>6 DEF Resume, tableVars
  <2>2. s # t
    <3>1. thread'[t] = Idle
      BY <1>1, <2>1 DEF Typed
    <3> QED
      BY <3>1, IdleChangesNobody
  <2>3. thread'[s] = thread[s]
    BY <2>1, <2>2
  <2> QED
    BY <1>3, <1>4, <2>1, <2>3 DEF Calm
<1>7. ASSUME NEW t \in Threads, NEW c \in Conns,
             NEW op \in Changes \cup {"login"}, NEW v \in Users,
             NEW p \in Passwords \cup {None}, NEW old \in Passwords \cup {None},
             Start(t, c, op, v, p, old)
      PROVE  Is(s)
  <2>1. entry' = entry
    BY <1>7, StartLeaves
  <2>2. doubtful \subseteq doubtful'
    <3>1. doubtful' = IF op \in Changes /\ \E r \in Threads : Changing(r, v)
                      THEN doubtful \cup {v} ELSE doubtful
      BY <1>1, <1>7, StartKeeps
    <3> QED
      BY <3>1
  <2>3. CASE s = t
    <3>1. thread'[s].at \in {"login", "create", "delete", "setHash"}
      BY <1>1, <1>7, <2>3, StartKeeps
    <3> QED
      BY <3>1 DEF LoginTrue
  <2>4. CASE s # t
    <3>1. /\ thread'[s].at = thread[s].at /\ thread'[s].op = thread[s].op
          /\ thread'[s].user = thread[s].user
          /\ thread'[s].password = thread[s].password
          /\ thread'[s].salt = thread[s].salt
          /\ thread'[s].result = thread[s].result
      BY <1>1, <1>7, <2>4, StartKeeps
    <3>2. thread[s].calm
      BY <1>1, <1>3, <1>7, <2>4, StartKeeps
    <3>3. Calm(s)
      BY <1>3, <2>2, <3>1, <3>2 DEF Calm
    <3> QED
      BY <1>4, <2>1, <3>1, <3>3
  <2> QED
    BY <2>3, <2>4
<1>8. CASE Restart
  <2>1. thread'[s] = Idle
    BY <1>8 DEF Restart
  <2> QED
    BY <2>1, IdleChangesNobody
<1>9. CASE UNCHANGED <<thread, entry, doubtful>>
  BY <1>3, <1>4, <1>9 DEF Calm
<1> QED
  BY <1>5, <1>6, <1>7, <1>8, <1>9
  DEF Next, Work, Operates, Logout, vars, tableVars

-----------------------------------------------------------------------------
(* What writers keep.                                                      *)

(* The last slot has the greatest rank.                                    *)
LEMMA CoversAll ==
  ASSUME NEW S, NEW s \in Seq(S), NEW D, NEW k \in Nat,
         RankIn(s, Len(s)) <= k
  PROVE  Covers(k, s, D)
<1> SUFFICES ASSUME NEW j \in DOMAIN s, RankIn(s, j) > k PROVE FALSE
  BY DEF Covers
<1>1. j \in Nat /\ Len(s) \in Nat /\ j <= Len(s)
  OBVIOUS
<1>2. /\ RankIn(s, j) <= RankIn(s, Len(s)) /\ RankIn(s, j) \in Nat
      /\ RankIn(s, Len(s)) \in Nat
  BY <1>1, RankGrows, RankSteps
<1> QED
  BY <1>2

(* More lines and more due users cover no less.                            *)
LEMMA CoversMore ==
  ASSUME NEW s, NEW S, s \in Seq(S), NEW D, NEW E, D \subseteq E,
         NEW k \in Nat, NEW m \in Nat, k <= m, Covers(k, s, D)
  PROVE  Covers(m, s, E)
<1> SUFFICES ASSUME NEW j \in DOMAIN s, s[j] # None, RankIn(s, j) > m
             PROVE  s[j] \in E
  BY DEF Covers
<1>1. j \in Nat
  OBVIOUS
<1>2. RankIn(s, j) \in Nat
  BY <1>1, RankSteps
<1>3. RankIn(s, j) > k
  BY <1>2
<1> QED
  BY <1>3 DEF Covers

(* A slot that is appended for a due user is covered.                      *)
LEMMA CoversAppended ==
  ASSUME NEW S, NEW s \in Seq(S), NEW D, NEW x \in D, NEW k, Covers(k, s, D)
  PROVE  Covers(k, Append(s, x), D)
<1> SUFFICES ASSUME NEW j \in DOMAIN Append(s, x), Append(s, x)[j] # None,
                    RankIn(Append(s, x), j) > k
             PROVE  Append(s, x)[j] \in D
  BY DEF Covers
<1>1. j \in 1..(Len(s) + 1) /\ Len(s) \in Nat
  OBVIOUS
<1>2. CASE j = Len(s) + 1
  BY <1>2
<1>3. CASE j # Len(s) + 1
  <2>1. j \in DOMAIN s /\ Append(s, x)[j] = s[j] /\ j \in 0..Len(s)
    BY <1>1, <1>3
  <2>2. RankIn(Append(s, x), j) = RankIn(s, j)
    BY <2>1, RankAppended
  <2> QED
    BY <2>1, <2>2 DEF Covers
<1> QED
  BY <1>2, <1>3

(* It moves nobody.                                                        *)
LEMMA PlacedAppended ==
  ASSUME NEW S, NEW s \in Seq(S), NEW x, NEW p, NEW u, Placed(p, u, s)
  PROVE  Placed(p, u, Append(s, x))
<1>1. PICK j \in DOMAIN s : s[j] = u /\ RankIn(s, j) = p
  BY DEF Placed
<1>2. j \in 0..Len(s) /\ j \in DOMAIN Append(s, x) /\ Append(s, x)[j] = s[j]
  BY <1>1
<1>3. RankIn(Append(s, x), j) = RankIn(s, j)
  BY <1>2, RankAppended
<1> QED
  BY <1>1, <1>2, <1>3 DEF Placed

(* Lines stay copies while their users stay where they are, and have the   *)
(* entry that they had or become loose.                                    *)
LEMMA CopiesKept ==
  ASSUME NEW f, NEW e, NEW s, NEW R, NEW e2, NEW s2, NEW R2,
         Copies(f, e, s, R), R \subseteq R2,
         \A p \in DOMAIN f : Placed(p, f[p].name, s) =>
           /\ Placed(p, f[p].name, s2)
           /\ f[p].name \in R2 \/ e2[f[p].name] = e[f[p].name]
  PROVE  Copies(f, e2, s2, R2)
<1> SUFFICES ASSUME NEW p \in DOMAIN f
             PROVE  /\ Placed(p, f[p].name, s2)
                    /\ f[p].name \in R2 \/ f[p] = LineIn(f[p].name, e2)
  BY DEF Copies
<1>1. /\ Placed(p, f[p].name, s)
      /\ f[p].name \in R \/ f[p] = LineIn(f[p].name, e)
  BY DEF Copies
<1>2. Placed(p, f[p].name, s2)
  BY <1>1
<1>3. CASE f[p].name \in R2
  BY <1>2, <1>3
<1>4. CASE f[p].name \notin R2
  <2>1. f[p] = LineIn(f[p].name, e) /\ e2[f[p].name] = e[f[p].name]
    BY <1>1, <1>4
  <2>2. LineIn(f[p].name, e2) = LineIn(f[p].name, e)
    BY <2>1 DEF LineIn
  <2> QED
    BY <1>2, <2>1, <2>2
<1> QED
  BY <1>3, <1>4

(* So do those of a text that shows lines of two.                          *)
LEMMA CopiesOverlaid ==
  ASSUME NEW f \in Seq(Lines), NEW g \in Seq(Lines), NEW e, NEW s, NEW R,
         Copies(f, e, s, R), Copies(g, e, s, R)
  PROVE  Copies(Overlay(f, g), e, s, R)
BY OverlayOf DEF Copies

(* The last rank does not shrink when a list is prolonged.                 *)
LEMMA RankLast ==
  ASSUME NEW S, NEW s \in Seq(S), NEW x \in S
  PROVE  RankIn(s, Len(s)) <= RankIn(Append(s, x), Len(Append(s, x)))
<1>1. Len(s) \in Nat /\ Len(Append(s, x)) = Len(s) + 1
  OBVIOUS
<1>2. RankIn(Append(s, x), Len(s)) = RankIn(s, Len(s))
  BY <1>1, RankAppended
<1>3. RankIn(Append(s, x), Len(s)) <= RankIn(Append(s, x), Len(s) + 1)
  BY <1>1, RankGrows
<1> QED
  BY <1>1, <1>2, <1>3

(* The users of a placed line are present.                                 *)
LEMMA PlacedPresent ==
  ASSUME Typed, NEW u \in Users, NEW p, Placed(p, u, slots)
  PROVE  Present(u)
BY DEF Placed, Typed, TableOK, Listed

(* What writers and the file tell is kept by a step that writes nothing and*)
(* after which each user whose entry it changed is loose, or new and due.  *)
LEMMA TableKeeps ==
  ASSUME Typed, WritersTrue, FileTrue,
         spoilt' = spoilt, file' = file, doubtful \subseteq doubtful',
         Loose \subseteq Loose', Due \subseteq Due',
         \A u \in Users : \/ entry'[u] = entry[u] \/ u \in Loose'
                          \/ u \in Due' /\ ~Present(u),
         \/ slots' = slots
         \/ \E x \in Due' : slots' = Append(slots, x),
         \A t \in Threads : /\ Writing(t)' <=> Writing(t)
                            /\ At(t, "open") => At(t, "open")',
         \A t \in Threads : Writing(t) =>
           /\ thread'[t].at = thread[t].at /\ thread'[t].size = thread[t].size
           /\ thread'[t].next = thread[t].next
           /\ thread'[t].buf = thread[t].buf
  PROVE  WritersTrue' /\ FileTrue'
<1>1. /\ slots \in Seq(Users \cup {None}) /\ Len(slots) \in Nat
      /\ DOMAIN slots = 1..Len(slots) /\ file \in Seq(Lines)
      /\ \A t \in Threads : thread[t] \in Jobs
  BY DEF Typed, TableOK
<1>2. Writer' <=> Writer
  BY DEF Writer
<1>3. Retried => Retried'
  BY DEF Retried
<1>4. \A p, u : Placed(p, u, slots) => Placed(p, u, slots')
  BY <1>1, PlacedAppended
<1>5. ASSUME NEW f, f \in Seq(Lines), Copies(f, entry, slots, Loose)
      PROVE  Copies(f, entry', slots', Loose')
  <2>1. ASSUME NEW p \in DOMAIN f, Placed(p, f[p].name, slots)
        PROVE  /\ Placed(p, f[p].name, slots')
               /\ f[p].name \in Loose' \/ entry'[f[p].name] = entry[f[p].name]
    <3>1. f[p].name \in Users
      <4>1. f[p] \in Lines
        BY <1>5
      <4> QED
        BY <4>1 DEF Lines
    <3>2. Present(f[p].name)
      BY <2>1, <3>1, PlacedPresent
    <3> QED
      BY <1>4, <2>1, <3>1, <3>2
  <2> QED
    BY <1>5, <2>1, CopiesKept
<1>6. RankIn(slots, Len(slots)) <= RankIn(slots', Len(slots'))
  <2>1. CASE slots' = slots
    <3>1. RankIn(slots, Len(slots)) \in Nat
      BY <1>1, RankSteps
    <3> QED
      BY <2>1, <3>1
  <2>2. CASE \E x \in Due' : slots' = Append(slots, x)
    <3>1. PICK x \in Users : slots' = Append(slots, x)
      BY <2>2 DEF Due
    <3>2. RankIn(slots, Len(slots)) <=
            RankIn(Append(slots, x), Len(Append(slots, x)))
      BY <1>1, RankLast
    <3> QED
      BY <3>1, <3>2
  <2> QED
    BY <2>1, <2>2
<1>7. Len(slots) <= Len(slots') /\ Len(slots') \in Nat
  BY <1>1
<1>8. \A i \in 0..Len(slots) : RankIn(slots', i) = RankIn(slots, i)
  BY <1>1, RankAppended
<1>9. \A k \in Nat : Covers(k, slots, Due) => Covers(k, slots', Due')
  <2> SUFFICES ASSUME NEW k \in Nat, Covers(k, slots, Due)
               PROVE  Covers(k, slots', Due')
    OBVIOUS
  <2>1. Covers(k, slots, Due')
    BY <1>1, CoversMore
  <2> QED
    BY <1>1, <2>1, CoversAppended
<1>10. ASSUME NEW t \in Threads, Writing(t), WritersTrue, spoilt # "yes", Writer
       PROVE  Buffered(thread'[t], entry', slots', Loose')
  <2> DEFINE job == thread[t] new == thread'[t]
  <2>1. /\ new.at = job.at /\ new.size = job.size /\ new.next = job.next
        /\ new.buf = job.buf
    BY <1>10
  <2>2. Buffered(job, entry, slots, Loose)
    BY <1>10 DEF WritersTrue
  <2>3. job.buf \in Seq(Lines) /\ job.size \in Nat
    BY <1>1 DEF Jobs
  <2>4. Copies(job.buf, entry', slots', Loose')
    BY <1>5, <2>2, <2>3 DEF Buffered
  <2>5. /\ job.next \in 1..(Len(slots) + 1)
        /\ Len(job.buf) = RankIn(slots, job.next - 1)
        /\ job.size <= RankIn(slots, Len(slots))
        /\ job.at = "close" => Len(job.buf) = job.size
    BY <2>2 DEF Buffered
  <2>6. job.next \in 1..(Len(slots') + 1) /\ job.next - 1 \in 0..Len(slots)
    BY <1>1, <1>7, <2>5
  <2>7. Len(job.buf) = RankIn(slots', job.next - 1)
    BY <1>8, <2>5, <2>6
  <2>8. job.size <= RankIn(slots', Len(slots'))
    <3>1. /\ RankIn(slots, Len(slots)) \in Nat
          /\ RankIn(slots', Len(slots')) \in Nat
      BY <1>1, <1>7, RankSteps
    <3> QED
      BY <1>6, <2>3, <2>5, <3>1
  <2> QED
    BY <2>1, <2>4, <2>5, <2>6, <2>7, <2>8 DEF Buffered
<1>11. ASSUME Completed PROVE Completed'
  <2>1. CASE Retried
    BY <1>3, <2>1 DEF Completed
  <2>2. CASE Covers(Len(file), slots, Due)
    <3>1. Covers(Len(file), slots', Due')
      BY <1>1, <1>9, <2>2
    <3> QED
      BY <3>1 DEF Completed
  <2>3. CASE \E t \in Threads : Writing(t) /\ Covers(thread[t].size, slots, Due)
    <3>1. PICK t \in Threads : Writing(t) /\ Covers(thread[t].size, slots, Due)
      BY <2>3
    <3>2. thread[t].size \in Nat /\ thread'[t].size = thread[t].size
      BY <1>1, <3>1 DEF Jobs
    <3>3. Writing(t)' /\ Covers(thread'[t].size, slots', Due')
      BY <1>9, <3>1, <3>2
    <3> QED
      BY <3>3 DEF Completed
  <2> QED
    BY <1>11, <2>1, <2>2, <2>3 DEF Completed
<1>12. WritersTrue'
  <2> SUFFICES ASSUME spoilt' # "yes", Writer'
               PROVE  /\ Copies(file', entry', slots', Loose')
                      /\ \A t \in Threads : Writing(t)' =>
                           Buffered(thread'[t], entry', slots', Loose')
                      /\ Completed'
    BY DEF WritersTrue
  <2>1. Copies(file, entry, slots, Loose) /\ Completed
    BY <1>2 DEF WritersTrue
  <2> QED
    BY <1>1, <1>2, <1>5, <1>10, <1>11, <2>1
<1>13. FileTrue'
  <2> SUFFICES ASSUME spoilt' # "yes", ~Writer', ~Retried',
                      NEW u \in Users, u \notin doubtful', ~Reset(u)',
                      ~AtOpen(u)'
               PROVE  Agrees(u)'
    BY DEF FileTrue
  <2>1. u \notin Loose' /\ u \notin Due'
    BY DEF Loose, Due
  <2>2. u \notin doubtful /\ ~Reset(u) /\ ~AtOpen(u)
    BY <2>1 DEF Loose, Due
  <2>3. Agrees(u)
    BY <1>2, <1>3, <2>2 DEF FileTrue
  <2>4. entry'[u] = entry[u]
    BY <2>1
  <2> QED
    BY <2>3, <2>4 DEF Agrees, Present, Line
<1> QED
  BY <1>12, <1>13

(* A thread that is not about to write marks nobody less when it moves.    *)
LEMMA MarksKept ==
  ASSUME NEW t \in Threads, doubtful \subseteq doubtful',
         thread[t].at \notin {"setSalt", "open"},
         \A s \in Threads \ {t} :
           /\ thread'[s].at = thread[s].at /\ thread'[s].op = thread[s].op
           /\ thread'[s].user = thread[s].user
  PROVE  Loose \subseteq Loose' /\ Due \subseteq Due'
<1>1. \A u \in Users : Reset(u) => Reset(u)'
  BY DEF Reset
<1>2. \A u \in Users : AtOpen(u) => AtOpen(u)'
  BY DEF AtOpen, Changing, At
<1> QED
  BY <1>1, <1>2 DEF Loose, Due

(* A step before or after write() that leaves the table alone.             *)
LEMMA QuietKeeps ==
  ASSUME Typed, WritersTrue, FileTrue, NEW t \in Threads,
         entry' = entry, slots' = slots, file' = file, spoilt' = spoilt,
         doubtful \subseteq doubtful',
         thread[t].at \notin {"setSalt", "open", "iterate", "close"},
         thread'[t].at \notin {"iterate", "close"},
         \A s \in Threads \ {t} :
           /\ thread'[s].at = thread[s].at /\ thread'[s].op = thread[s].op
           /\ thread'[s].user = thread[s].user
           /\ thread'[s].size = thread[s].size
           /\ thread'[s].next = thread[s].next
           /\ thread'[s].buf = thread[s].buf
  PROVE  WritersTrue' /\ FileTrue'
<1>1. Loose \subseteq Loose' /\ Due \subseteq Due'
  BY MarksKept
<1>2. \A s \in Threads : /\ Writing(s)' <=> Writing(s)
                         /\ At(s, "open") => At(s, "open")'
  BY DEF Writing, At
<1>3. \A s \in Threads : Writing(s) =>
        /\ thread'[s].at = thread[s].at /\ thread'[s].size = thread[s].size
        /\ thread'[s].next = thread[s].next /\ thread'[s].buf = thread[s].buf
  BY DEF Writing
<1> QED
  BY <1>1, <1>2, <1>3, TableKeeps

(* Logins and tests are such steps.                                        *)
LEMMA TestKeepsFile ==
  ASSUME Typed, WritersTrue, FileTrue, NEW t \in Threads,
         LoginTest(t) \/ Compare(t) \/ Test(t)
  PROVE  WritersTrue' /\ FileTrue'
<1>1. /\ entry' = entry /\ slots' = slots /\ file' = file /\ spoilt' = spoilt
      /\ thread[t].at \in {"login", "compare", "permissions", "create",
                           "delete"}
  BY DEF LoginTest, Compare, Test, ReadOnly, TableOnly, tableVars, At
<1>2. Operates(t)
  BY DEF Operates
<1>3. doubtful' = doubtful /\ \A s \in Threads \ {t} : thread'[s] = thread[s]
  BY <1>2, OperatesKeeps
<1>4. thread'[t].at \in {"compare", "permissions", "resume", "setHash",
                         "insert", "pop"}
  <2>1. CASE \E step \in {"permissions", "setHash", "insert", "pop"} :
               Goes(t, step)
    BY <2>1, GoesTo
  <2>2. CASE \E r : Ends(t, r)
    BY <2>2, EndsTo
  <2>3. CASE thread' = [thread EXCEPT ![t].at = "compare",
                                      ![t].salt = entry[thread[t].user].salt]
    BY <2>3 DEF Typed, Jobs
  <2> QED
    BY <2>1, <2>2, <2>3 DEF LoginTest, Compare, Test, NoLogin
<1> QED
  BY <1>1, <1>3, <1>4, QuietKeeps

(* A creation: a user who is not doubtful is new, and due.                 *)
LEMMA InsertKeepsFile ==
  ASSUME Typed, ChangesTrue, WritersTrue, FileTrue, NEW t \in Threads,
         Insert(t)
  PROVE  WritersTrue' /\ FileTrue'
<1> DEFINE u == thread[t].user
<1>1. Operates(t) /\ thread[t].at = "insert"
  BY DEF Operates, Insert, At
<1>2. /\ file' = file /\ spoilt' = spoilt /\ doubtful' = doubtful
      /\ \A s \in Threads \ {t} : thread'[s] = thread[s]
      /\ thread'[t].op = thread[t].op /\ thread'[t].user = u
  BY <1>1, OperatesKeeps DEF Insert, TableOnly
<1>3. /\ thread'[t].at = "open" /\ u \in Users
      /\ thread[t].op = "create_user"
      /\ \A v \in Users \ {u} : entry'[v] = entry[v]
      /\ IF Present(u) THEN slots' = slots ELSE slots' = Append(slots, u)
  BY InsertTable, GoesTo DEF Insert
<1>4. Loose \subseteq Loose' /\ Due \subseteq Due'
  BY <1>1, <1>2, MarksKept
<1>5. u \in Due'
  <2>1. \A v \in Users : v = u => AtOpen(v)'
    BY <1>2, <1>3 DEF AtOpen, Changing, At, Changes
  <2> QED
    BY <1>3, <2>1 DEF Due
<1>6. \A v \in Users : \/ entry'[v] = entry[v] \/ v \in Loose'
                       \/ v \in Due' /\ ~Present(v)
  <2>1. u \in doubtful \/ ~Present(u)
    BY <1>1, <1>3 DEF ChangesTrue, Changes
  <2>2. doubtful \subseteq Loose'
    BY <1>2 DEF Loose
  <2> QED
    BY <1>3, <1>5, <2>1, <2>2
<1>7. slots' = slots \/ \E x \in Due' : slots' = Append(slots, x)
  BY <1>3, <1>5
<1>8. \A s \in Threads : /\ Writing(s)' <=> Writing(s)
                         /\ At(s, "open") => At(s, "open")'
  BY <1>1, <1>2, <1>3 DEF Writing, At
<1>9. \A s \in Threads : Writing(s) =>
        /\ thread'[s].at = thread[s].at /\ thread'[s].size = thread[s].size
        /\ thread'[s].next = thread[s].next /\ thread'[s].buf = thread[s].buf
  BY <1>1, <1>2 DEF Writing
<1> QED
  BY <1>2, <1>4, <1>6, <1>7, <1>8, <1>9, TableKeeps

(* An assignment: its user is loose until the thread writes.               *)
LEMMA AssignKeepsFile ==
  ASSUME Typed, ChangesTrue, WritersTrue, FileTrue, NEW t \in Threads,
         Assign(t)
  PROVE  WritersTrue' /\ FileTrue'
<1> DEFINE u == thread[t].user
<1>1. Operates(t) /\ thread[t].at \in {"setHash", "setSalt"}
  BY DEF Operates, Assign, At
<1>2. /\ file' = file /\ spoilt' = spoilt /\ doubtful' = doubtful
      /\ \A s \in Threads \ {t} : thread'[s] = thread[s]
      /\ thread'[t].op = thread[t].op /\ thread'[t].user = u
  BY <1>1, OperatesKeeps DEF Assign, TableOnly
<1>3. /\ u \in Users /\ slots' = slots /\ thread[t].op = "set_password"
      /\ \A v \in Users \ {u} : entry'[v] = entry[v]
      /\ ~Present(u) => entry' = entry
  BY AssignTable
<1>4. /\ Present(u) => thread'[t].at \in {"setSalt", "open"}
      /\ ~Present(u) => thread'[t].at = "resume"
  BY GoesTo, EndsTo DEF Assign
<1>5. \A v \in Users : v # u => (Reset(v) => Reset(v)')
  BY <1>2 DEF Reset
<1>6. Present(u) => \A v \in Users : v = u => Reset(v)'
  BY <1>2, <1>3, <1>4 DEF Reset
<1>7. ~Present(u) /\ u \notin doubtful => \A v \in Users : v = u =>
        (Reset(v) => Reset(v)')
  <2> SUFFICES ASSUME ~Present(u), u \notin doubtful, NEW v \in Users, v = u,
                      Reset(v)
               PROVE  Reset(v)'
    OBVIOUS
  <2>1. PICK s \in Threads : /\ thread[s].op = "set_password"
                             /\ thread[s].user = v
                             /\ thread[s].at \in {"setSalt", "open"}
    BY DEF Reset
  <2>2. s # t
    <3>1. thread[t].at # "setSalt"
      BY <1>3 DEF ChangesTrue, Changes
    <3> QED
      BY <1>1, <2>1, <3>1
  <2> QED
    BY <1>2, <2>1, <2>2 DEF Reset
<1>8. Loose \subseteq Loose'
  BY <1>2, <1>3, <1>5, <1>6, <1>7 DEF Loose
<1>9. Due \subseteq Due'
  <2>1. \A v \in Users : AtOpen(v) => AtOpen(v)'
    BY <1>1, <1>2 DEF AtOpen, Changing, At
  <2> QED
    BY <2>1 DEF Due
<1>10. \A v \in Users : entry'[v] = entry[v] \/ v \in Loose'
  BY <1>3, <1>6 DEF Loose
<1>11. \A s \in Threads : /\ Writing(s)' <=> Writing(s)
                          /\ At(s, "open") => At(s, "open")'
  BY <1>1, <1>2, <1>4 DEF Writing, At
<1>12. \A s \in Threads : Writing(s) =>
        /\ thread'[s].at = thread[s].at /\ thread'[s].size = thread[s].size
        /\ thread'[s].next = thread[s].next /\ thread'[s].buf = thread[s].buf
  BY <1>1, <1>2 DEF Writing
<1> QED
  BY <1>2, <1>3, <1>8, <1>9, <1>10, <1>11, <1>12, TableKeeps

(* A deletion: nobody writes, or the file is spoilt, and the user is due.  *)
LEMMA PopKeepsFile ==
  ASSUME Typed, WritersTrue, FileTrue, NEW t \in Threads, Pop(t)
  PROVE  WritersTrue' /\ FileTrue'
<1> DEFINE u == thread[t].user
<1>1. Operates(t) /\ thread[t].at = "pop"
  BY DEF Operates, Pop, At
<1>2. /\ file' = file /\ doubtful' = doubtful
      /\ \A s \in Threads \ {t} : thread'[s] = thread[s]
      /\ thread'[t].op = thread[t].op /\ thread'[t].user = u
  BY <1>1, OperatesKeeps DEF Pop
<1>3. CASE ~Present(u)
  <2>1. /\ entry' = entry /\ slots' = slots /\ spoilt' = spoilt
        /\ Ends(t, "raised")
    BY <1>3 DEF Pop, tableVars
  <2>2. thread'[t].at = "resume"
    BY <2>1, EndsTo
  <2> QED
    BY <1>1, <1>2, <2>1, <2>2, QuietKeeps
<1>4. CASE Present(u)
  <2>1. /\ u \in Users /\ thread[t].op = "delete_user"
        /\ \A v \in Users \ {u} : entry'[v] = entry[v]
    BY <1>4, PopTable
  <2>2. thread'[t].at = "open"
    BY <1>4, GoesTo DEF Pop
  <2>3. spoilt' = IF Writer THEN "yes" ELSE spoilt
    BY <1>4 DEF Pop, Writer
  <2>4. Writer' <=> Writer
    BY <1>1, <1>2, <2>2 DEF Writer, Writing
  <2>5. WritersTrue'
    BY <2>3, <2>4 DEF WritersTrue
  <2>6. FileTrue'
    <3> SUFFICES ASSUME spoilt' # "yes", ~Writer', ~Retried',
                        NEW v \in Users, v \notin doubtful', ~Reset(v)',
                        ~AtOpen(v)'
                 PROVE  Agrees(v)'
      BY DEF FileTrue
    <3>1. spoilt # "yes" /\ ~Writer /\ spoilt' = spoilt
      BY <2>3, <2>4
    <3>2. ~Retried
      BY <1>1, <1>2, <3>1 DEF Retried, At
    <3>3. v # u
      BY <1>2, <2>1, <2>2 DEF AtOpen, Changing, Changes, At
    <3>4. ~Reset(v) /\ ~AtOpen(v)
      BY <1>1, <1>2 DEF Reset, AtOpen, Changing, At
    <3>5. Agrees(v)
      BY <1>2, <3>1, <3>2, <3>4 DEF FileTrue
    <3>6. entry'[v] = entry[v]
      BY <2>1, <3>3
    <3> QED
      BY <1>2, <3>5, <3>6 DEF Agrees, Present, Line
  <2> QED
    BY <2>5, <2>6
<1> QED
  BY <1>3, <1>4

(* An open(): a new writer will write everybody, and only creations may    *)
(* overlap, so that no line becomes wrong.                                 *)
LEMMA OpenKeepsFile ==
  ASSUME Typed, WritersTrue, NEW t \in Threads, Open(t)
  PROVE  WritersTrue' /\ FileTrue'
<1>1. Operates(t) /\ thread[t].at = "open"
  BY DEF Operates, Open, At
<1>2. /\ file' = <<>> /\ doubtful' = doubtful
      /\ \A s \in Threads \ {t} : thread'[s] = thread[s]
      /\ thread'[t].op = thread[t].op
  BY <1>1, OperatesKeeps DEF Open
<1>3. entry' = entry /\ slots' = slots
  BY DEF Open, tableVars
<1>4. /\ thread'[t].at = "iterate" /\ thread'[t].size = Size
      /\ thread'[t].next = 1 /\ thread'[t].buf = <<>>
  BY OpenMoves DEF At
<1>5. Writer'
  BY <1>4 DEF Writer, Writing
<1>6. /\ slots \in Seq(Users \cup {None}) /\ Len(slots) \in Nat
      /\ Size = RankIn(slots, Len(slots)) /\ Size \in Nat
      /\ RankIn(slots, 0) = 0
  BY SizeIsRank, RankSteps DEF Typed, TableOK, Rank
<1> SUFFICES ASSUME spoilt' # "yes" PROVE WritersTrue'
  BY <1>5 DEF FileTrue, WritersTrue
<1>7. spoilt # "yes"
  BY DEF Open
<1>8. ASSUME NEW s \in Threads, s # t, Writing(s)'
      PROVE  /\ Buffered(thread'[s], entry, slots, Loose)
             /\ thread[t].op = "create_user"
  <2>1. thread'[s] = thread[s] /\ Writing(s)
    BY <1>2, <1>8 DEF Writing
  <2>2. Writer
    BY <2>1 DEF Writer
  <2>3. thread[t].op = "create_user"
    BY <1>8, <2>1 DEF Open
  <2> QED
    BY <1>7, <2>1, <2>2, <2>3 DEF WritersTrue
<1>9. ASSUME thread[t].op = "create_user" PROVE Loose \subseteq Loose'
  <2>1. \A u \in Users : Reset(u) => Reset(u)'
    BY <1>2, <1>9 DEF Reset
  <2> QED
    BY <1>2, <2>1 DEF Loose
<1>10. ASSUME NEW s \in Threads, s # t, Writing(s)'
       PROVE  Buffered(thread'[s], entry', slots', Loose')
  <2> DEFINE buf == thread'[s].buf
  <2>1. Buffered(thread'[s], entry, slots, Loose) /\ Loose \subseteq Loose'
    BY <1>8, <1>9, <1>10
  <2>2. Copies(buf, entry', slots', Loose')
    <3>1. Copies(buf, entry, slots, Loose)
      BY <2>1 DEF Buffered
    <3> QED
      BY <1>3, <2>1, <3>1, CopiesKept
  <2> QED
    BY <1>3, <2>1, <2>2 DEF Buffered
<1>11. Buffered(thread'[t], entry', slots', Loose')
  <2>1. Copies(<<>>, entry', slots', Loose')
    BY DEF Copies
  <2>2. Size <= RankIn(slots, Len(slots)) /\ 1 \in 1..(Len(slots) + 1)
    BY <1>6
  <2>3. Len(<<>>) = RankIn(slots, 1 - 1)
    BY <1>6
  <2> QED
    BY <1>3, <1>4, <2>1, <2>2, <2>3 DEF Buffered
<1>12. Completed'
  <2>1. Covers(Size, slots, Due')
    BY <1>6, CoversAll
  <2>2. Writing(t)' /\ Covers(thread'[t].size, slots', Due')
    BY <1>3, <1>4, <2>1 DEF Writing
  <2> QED
    BY <2>2 DEF Completed
<1>13. Copies(file', entry', slots', Loose')
  BY <1>2 DEF Copies
<1> QED
  BY <1>10, <1>11, <1>12, <1>13 DEF WritersTrue

(* The next line: it is the one of the next user of the dict.              *)
LEMMA LineKeepsFile ==
  ASSUME Typed, WritersTrue, NEW t \in Threads, WriteLine(t)
  PROVE  WritersTrue' /\ FileTrue'
<1> DEFINE job == thread[t] next == job.next new == thread'[t]
<1>1. Operates(t) /\ job.at = "iterate"
  BY DEF Operates, WriteLine, At
<1>2. /\ doubtful' = doubtful /\ file' = file /\ spoilt' = spoilt
      /\ \A s \in Threads \ {t} : thread'[s] = thread[s]
  BY <1>1, OperatesKeeps DEF WriteLine, ReadOnly, TableOnly
<1>3. entry' = entry /\ slots' = slots
  BY DEF WriteLine, ReadOnly, tableVars
<1>4. /\ new.size = job.size /\ job.size = Size
      /\ \/ /\ next > Len(slots) /\ new.at = "close"
            /\ new.next = next /\ new.buf = job.buf
         \/ /\ next \in 1..Len(slots) /\ new.at = "iterate"
            /\ new.next = next + 1
            /\ new.buf = IF slots[next] = None THEN job.buf
                         ELSE Append(job.buf, Line(slots[next]))
  BY WriteMoves
<1>5. \A s \in Threads : Writing(s)' <=> Writing(s)
  BY <1>1, <1>2, <1>4 DEF Writing
<1>6. Writer' /\ Writer
  BY <1>1, <1>5 DEF Writer, Writing
<1>7. /\ slots \in Seq(Users \cup {None}) /\ Len(slots) \in Nat
      /\ Size = RankIn(slots, Len(slots)) /\ Size \in Nat
      /\ job \in Jobs /\ entry \in [Users -> Entries \cup {None}] /\ Listed
  BY SizeIsRank DEF Typed, TableOK, Rank
<1> SUFFICES ASSUME spoilt' # "yes" PROVE WritersTrue'
  BY <1>6 DEF FileTrue, WritersTrue
<1>8. Loose \subseteq Loose' /\ Due \subseteq Due'
  BY <1>1, <1>2, MarksKept
<1>9. ASSUME NEW f, Copies(f, entry, slots, Loose)
      PROVE  Copies(f, entry', slots', Loose')
  BY <1>3, <1>8, <1>9, CopiesKept
<1>10. /\ Copies(file, entry, slots, Loose) /\ Completed
       /\ \A s \in Threads : Writing(s) =>
            Buffered(thread[s], entry, slots, Loose)
  BY <1>2, <1>6 DEF WritersTrue
<1>11. ASSUME NEW s \in Threads, s # t, Writing(s)
       PROVE  Buffered(thread'[s], entry', slots', Loose')
  BY <1>2, <1>3, <1>9, <1>10, <1>11 DEF Buffered
<1>12. Buffered(job, entry, slots, Loose)
  BY <1>1, <1>10 DEF Writing
<1>13. /\ Copies(job.buf, entry', slots', Loose')
       /\ next \in 1..(Len(slots) + 1)
       /\ Len(job.buf) = RankIn(slots, next - 1)
       /\ job.size <= RankIn(slots, Len(slots))
       /\ job.buf \in Seq(Lines)
  BY <1>7, <1>9, <1>12 DEF Buffered, Jobs
<1>14. Buffered(new, entry', slots', Loose')
  <2>1. CASE next > Len(slots) /\ new.at = "close"
                /\ new.next = next /\ new.buf = job.buf
    <3>1. next = Len(slots) + 1 /\ next - 1 = Len(slots)
      BY <1>7, <1>13, <2>1
    <3> QED
      BY <1>3, <1>4, <1>7, <1>13, <2>1, <3>1 DEF Buffered
  <2>2. CASE next \in 1..Len(slots) /\ new.at = "iterate"
                /\ new.next = next + 1 /\ slots[next] = None
                /\ new.buf = job.buf
    <3>1. /\ next \in Nat \ {0} /\ next + 1 \in 1..(Len(slots) + 1)
          /\ (next + 1) - 1 = next
      BY <1>7, <2>2
    <3>2. RankIn(slots, next) = RankIn(slots, next - 1)
      BY <2>2, <3>1, RankSteps
    <3> QED
      BY <1>3, <1>4, <1>13, <2>2, <3>1, <3>2 DEF Buffered
  <2>3. CASE next \in 1..Len(slots) /\ new.at = "iterate"
                /\ new.next = next + 1 /\ slots[next] # None
                /\ new.buf = Append(job.buf, Line(slots[next]))
    <3> DEFINE u == slots[next] l == Line(u) n == Len(job.buf)
    <3>1. /\ next \in Nat \ {0} /\ next + 1 \in 1..(Len(slots) + 1)
          /\ (next + 1) - 1 = next /\ next \in DOMAIN slots
      BY <1>7, <2>3
    <3>2. RankIn(slots, next) = n + 1
      BY <1>13, <2>3, <3>1, RankSteps
    <3>3. u \in Users /\ Present(u)
      BY <1>7, <2>3, <3>1 DEF Listed
    <3>4. l \in Lines /\ l.name = u /\ l = LineIn(u, entry)
      BY <1>7, <3>3, LineTyped DEF Line, LineIn
    <3> HIDE DEF l
    <3>5. Placed(n + 1, u, slots)
      BY <3>1, <3>2 DEF Placed
    <3>6. /\ DOMAIN Append(job.buf, l) = 1..(n + 1) /\ n \in Nat
          /\ Len(Append(job.buf, l)) = n + 1 /\ DOMAIN job.buf = 1..n
          /\ Append(job.buf, l)[n + 1] = l
          /\ \A p \in 1..n : Append(job.buf, l)[p] = job.buf[p]
      BY <1>13, <3>4
    <3> HIDE DEF u
    <3>7. Copies(Append(job.buf, l), entry, slots, Loose)
      <4> DEFINE b == Append(job.buf, l)
      <4>1. Copies(job.buf, entry, slots, Loose)
        BY <1>12 DEF Buffered
      <4>2. b[n + 1].name = u /\ b[n + 1] = LineIn(b[n + 1].name, entry)
        BY <3>4, <3>6
      <4>3. \A p \in 1..(n + 1) : p \in 1..n \/ p = n + 1
        BY <3>6
      <4>4. ASSUME NEW p \in 1..n
            PROVE  /\ Placed(p, b[p].name, slots)
                   /\ b[p].name \in Loose \/ b[p] = LineIn(b[p].name, entry)
        <5>1. b[p] = job.buf[p] /\ p \in DOMAIN job.buf
          BY <3>6
        <5> QED
          BY <4>1, <5>1 DEF Copies
      <4>5. DOMAIN b = 1..(n + 1)
        BY <3>6
      <4> HIDE DEF b
      <4>6. ASSUME NEW p \in DOMAIN b
            PROVE  /\ Placed(p, b[p].name, slots)
                   /\ b[p].name \in Loose \/ b[p] = LineIn(b[p].name, entry)
        BY <3>5, <4>2, <4>3, <4>4, <4>5
      <4> QED
        BY <4>6 DEF Copies, b
    <3>8. Copies(new.buf, entry', slots', Loose')
      BY <1>9, <2>3, <3>7 DEF l, u
    <3>9. Len(new.buf) = RankIn(slots, next)
      BY <2>3, <3>2, <3>6 DEF l, u
    <3> QED
      BY <1>3, <1>4, <1>13, <2>3, <3>1, <3>8, <3>9 DEF Buffered
  <2> QED
    BY <1>4, <2>1, <2>2, <2>3
<1>15. Completed'
  <2>1. \A k \in Nat : Covers(k, slots, Due) => Covers(k, slots', Due')
    BY <1>3, <1>7, <1>8, CoversMore
  <2>2. CASE Retried
    <3>1. Retried'
      BY <1>1, <1>2, <2>2 DEF Retried, At
    <3> QED
      BY <3>1 DEF Completed
  <2>3. CASE Covers(Len(file), slots, Due)
    <3>1. Len(file) \in Nat
      BY DEF Typed
    <3> QED
      BY <1>2, <2>1, <2>3, <3>1 DEF Completed
  <2>4. CASE \E s \in Threads : Writing(s) /\ Covers(thread[s].size, slots, Due)
    <3>1. PICK s \in Threads : Writing(s) /\ Covers(thread[s].size, slots, Due)
      BY <2>4
    <3>2. thread[s].size \in Nat
      BY DEF Typed, Jobs
    <3>3. thread'[s].size = thread[s].size
      BY <1>2, <1>4
    <3>4. Writing(s)' /\ Covers(thread'[s].size, slots', Due')
      BY <1>5, <2>1, <3>1, <3>2, <3>3
    <3> QED
      BY <3>4 DEF Completed
  <2> QED
    BY <1>10, <2>2, <2>3, <2>4 DEF Completed
<1>16. Copies(file', entry', slots', Loose')
  BY <1>2, <1>9, <1>10
<1>17. \A s \in Threads : Writing(s)' =>
         Buffered(thread'[s], entry', slots', Loose')
  BY <1>5, <1>11, <1>14
<1> QED
  BY <1>15, <1>16, <1>17 DEF WritersTrue

(* When nobody writes any more and the rest is due, the file agrees with   *)
(* the dict on everybody who is neither loose nor due.                     *)
LEMMA CompleteAgrees ==
  ASSUME NEW f \in Seq(Lines), NEW s \in Seq(Users \cup {None}), NEW e, NEW R,
         NEW D, Copies(f, e, s, R), Covers(Len(f), s, D),
         \A u \in Users : e[u] # None <=> \E i \in DOMAIN s : s[i] = u,
         NEW u \in Users, u \notin R, u \notin D
  PROVE  /\ e[u] # None => \E i \in DOMAIN f : f[i].name = u
         /\ \A i \in DOMAIN f : f[i].name = u =>
              e[u] # None /\ f[i] = LineIn(u, e)
<1>1. /\ DOMAIN s = 1..Len(s) /\ DOMAIN f = 1..Len(f)
      /\ Len(s) \in Nat /\ Len(f) \in Nat /\ u # None
  BY PasswdAssumption
<1>2. ASSUME NEW i \in DOMAIN f, f[i].name = u
      PROVE  e[u] # None /\ f[i] = LineIn(u, e)
  <2>1. Placed(i, u, s) /\ f[i] = LineIn(u, e)
    BY <1>2 DEF Copies
  <2> QED
    BY <2>1 DEF Placed
<1>3. ASSUME e[u] # None PROVE \E i \in DOMAIN f : f[i].name = u
  <2>1. PICK j \in DOMAIN s : s[j] = u
    BY <1>3
  <2> DEFINE p == RankIn(s, j)
  <2>2. j \in Nat \ {0} /\ j - 1 \in Nat
    BY <1>1
  <2>3. p \in Nat /\ RankIn(s, j - 1) \in Nat /\ p = RankIn(s, j - 1) + 1
    BY <1>1, <2>1, <2>2, RankSteps
  <2>4. p <= Len(f)
    <3>1. ~(p > Len(f))
      BY <1>1, <2>1 DEF Covers
    <3> QED
      BY <1>1, <2>3, <3>1
  <2>5. p \in DOMAIN f
    BY <1>1, <2>3, <2>4
  <2>6. PICK k \in DOMAIN s : s[k] = f[p].name /\ RankIn(s, k) = p
    BY <2>5 DEF Copies, Placed
  <2>7. s[k] # None
    <3>1. f[p] \in Lines
      BY <1>1, <2>5
    <3> QED
      BY <2>6, <3>1, PasswdAssumption DEF Lines
  <2>8. k = j
    <3>1. k \in Nat /\ j \in Nat /\ RankIn(s, k) = RankIn(s, j)
      BY <1>1, <2>6
    <3> QED
      BY <1>1, <2>1, <2>7, <3>1, RankOnce
  <2> QED
    BY <2>1, <2>5, <2>6, <2>8
<1> QED
  BY <1>2, <1>3

(* The end of a write(): what it did not write is due, or it raised and    *)
(* the thread whose insertion made it raise will write.                    *)
LEMMA CloseKeepsFile ==
  ASSUME Typed, Typed', WritersTrue, NEW t \in Threads, Close(t)
  PROVE  WritersTrue' /\ FileTrue'
<1> DEFINE job == thread[t] size == job.size
<1>1. Operates(t) /\ job.at \in {"iterate", "close"}
  BY DEF Operates, Close, At
<1>2. /\ doubtful' = doubtful /\ file' = Overlay(job.buf, file)
      /\ \A s \in Threads \ {t} : thread'[s] = thread[s]
  BY <1>1, OperatesKeeps DEF Close
<1>3. entry' = entry /\ slots' = slots /\ thread'[t].at = "resume"
  BY CloseMoves DEF Close, tableVars, At
<1>4. /\ slots \in Seq(Users \cup {None}) /\ Len(slots) \in Nat
      /\ Size = RankIn(slots, Len(slots)) /\ Size \in Nat
      /\ file \in Seq(Lines) /\ job.buf \in Seq(Lines) /\ size \in Nat
      /\ spoilt \in {"no", "partial", "yes"}
      /\ Len(file) \in Nat /\ Len(job.buf) \in Nat
  BY SizeIsRank DEF Typed, TableOK, HistoryOK, Rank, Jobs
<1>5. /\ Len(file') = IF Len(job.buf) < Len(file) THEN Len(file)
                                                  ELSE Len(job.buf)
      /\ Len(file') \in Nat
  BY <1>2, <1>4, OverlayOf
<1> SUFFICES ASSUME spoilt' # "yes" PROVE WritersTrue' /\ FileTrue'
  BY DEF WritersTrue, FileTrue
<1>6. spoilt # "yes" /\ Writer
  BY <1>1 DEF Close, Writer, Writing
<1>7. /\ Copies(file, entry, slots, Loose) /\ Completed
      /\ \A s \in Threads : Writing(s) =>
           Buffered(thread[s], entry, slots, Loose)
  BY <1>6 DEF WritersTrue
<1>8. Buffered(job, entry, slots, Loose)
  BY <1>1, <1>7 DEF Writing
<1>9. Loose \subseteq Loose' /\ Due \subseteq Due'
  BY <1>1, <1>2, MarksKept
<1>10. ASSUME NEW f, Copies(f, entry, slots, Loose)
       PROVE  Copies(f, entry', slots', Loose')
  BY <1>3, <1>9, <1>10, CopiesKept
<1>11. Copies(file', entry', slots', Loose')
  <2>1. Copies(job.buf, entry, slots, Loose)
    BY <1>8 DEF Buffered
  <2>2. Copies(Overlay(job.buf, file), entry, slots, Loose)
    BY <1>4, <1>7, <2>1, CopiesOverlaid
  <2> QED
    BY <1>2, <1>10, <2>2
<1>12. \A s \in Threads : Writing(s)' => s # t /\ Writing(s)
  BY <1>2, <1>3 DEF Writing
<1>13. ASSUME NEW s \in Threads, s # t, Writing(s)
       PROVE  Buffered(thread'[s], entry', slots', Loose')
  BY <1>2, <1>3, <1>7, <1>10, <1>13 DEF Buffered
<1>14. \A k, m \in Nat : k <= m /\ Covers(k, slots, Due) =>
         Covers(m, slots', Due')
  BY <1>3, <1>4, <1>9, CoversMore
<1>15. ASSUME job.at = "close", size = Size PROVE Completed'
  <2>1. Len(job.buf) = size /\ Size <= Len(file')
    BY <1>4, <1>5, <1>8, <1>15 DEF Buffered
  <2>2. Covers(Len(file'), slots, Due')
    BY <1>4, <1>5, <2>1, CoversAll
  <2> QED
    BY <1>3, <2>2 DEF Completed
<1>16. ASSUME ~(job.at = "close" /\ size = Size) PROVE Completed'
  <2>1. /\ spoilt' = "partial" \/ spoilt' = spoilt
        /\ spoilt = "partial" => spoilt' = "partial"
    BY <1>16 DEF Close, At
  <2>2. CASE Retried
    <3>1. Retried'
      BY <1>1, <1>2, <2>1, <2>2 DEF Retried, At
    <3> QED
      BY <3>1 DEF Completed
  <2>3. CASE Covers(Len(file), slots, Due)
    <3>1. Len(file) <= Len(file')
      BY <1>4, <1>5
    <3> QED
      BY <1>4, <1>5, <1>14, <2>3, <3>1 DEF Completed
  <2>4. CASE \E s \in Threads \ {t} :
               Writing(s) /\ Covers(thread[s].size, slots, Due)
    <3>1. PICK s \in Threads \ {t} :
            Writing(s) /\ Covers(thread[s].size, slots, Due)
      BY <2>4
    <3>2. thread[s].size \in Nat /\ thread'[s] = thread[s]
      BY <1>2 DEF Typed, Jobs
    <3>3. Writing(s)' /\ Covers(thread'[s].size, slots', Due')
      BY <1>14, <3>1, <3>2 DEF Writing
    <3> QED
      BY <3>3 DEF Completed
  <2>5. CASE Covers(size, slots, Due)
    <3>1. CASE job.at = "close"
      <4>1. Len(job.buf) = size /\ size <= Len(file')
        BY <1>4, <1>5, <1>8, <3>1 DEF Buffered
      <4> QED
        BY <1>4, <1>5, <1>14, <2>5, <4>1 DEF Completed
    <3>2. CASE job.at = "iterate"
      <4>1. spoilt' = "partial" /\ size # Size
        BY <1>4, <1>6, <3>2 DEF Close, At
      <4>2. size < RankIn(slots, Len(slots))
        BY <1>4, <1>8, <4>1 DEF Buffered
      <4>3. PICK j \in 1..Len(slots) :
              slots[j] # None /\ RankIn(slots, j) = size + 1
        BY <1>4, <4>2, RankTaken
      <4>4. RankIn(slots, j) > size /\ j \in DOMAIN slots
        BY <1>4, <4>3
      <4>5. slots[j] \in Due
        BY <2>5, <4>3, <4>4 DEF Covers
      <4>6. PICK s \in Threads : At(s, "open")
        BY <4>5 DEF Due, AtOpen
      <4>7. s # t /\ At(s, "open")'
        BY <1>1, <1>2, <4>6 DEF At
      <4>8. Retried'
        BY <4>1, <4>7 DEF Retried
      <4> QED
        BY <4>8 DEF Completed
    <3> QED
      BY <1>1, <3>1, <3>2
  <2> QED
    BY <1>7, <2>2, <2>3, <2>4, <2>5 DEF Completed
<1>17. Completed'
  BY <1>15, <1>16
<1>18. WritersTrue'
  <2>1. \A s \in Threads : Writing(s)' =>
          Buffered(thread'[s], entry', slots', Loose')
    BY <1>12, <1>13
  <2> QED
    BY <1>11, <1>17, <2>1 DEF WritersTrue
<1>19. FileTrue'
  <2> SUFFICES ASSUME ~Writer', ~Retried', NEW u \in Users,
                      u \notin doubtful', ~Reset(u)', ~AtOpen(u)'
               PROVE  Agrees(u)'
    BY DEF FileTrue
  <2>1. Covers(Len(file'), slots', Due')
    BY <1>17 DEF Writer, Completed
  <2>2. u \notin Loose' /\ u \notin Due'
    BY DEF Loose, Due
  <2>3. /\ slots' \in Seq(Users \cup {None}) /\ file' \in Seq(Lines)
        /\ \A v \in Users : entry'[v] # None <=>
             \E i \in DOMAIN slots' : slots'[i] = v
    BY DEF Typed, TableOK, Listed, Present
  <2>4. /\ entry'[u] # None => \E i \in DOMAIN file' : file'[i].name = u
        /\ \A i \in DOMAIN file' : file'[i].name = u =>
             entry'[u] # None /\ file'[i] = LineIn(u, entry')
    BY <1>11, <2>1, <2>2, <2>3, CompleteAgrees
  <2> QED
    BY <2>4 DEF Agrees, Present, Line, LineIn
<1> QED
  BY <1>18, <1>19

(* Every step keeps what writers and the file tell.                        *)
LEMMA FileStep ==
  Basics /\ WritersTrue /\ FileTrue /\ [Next]_vars => WritersTrue' /\ FileTrue'
<1> SUFFICES ASSUME Basics, WritersTrue, FileTrue, [Next]_vars
             PROVE  WritersTrue' /\ FileTrue'
  OBVIOUS
<1>1. Typed /\ Typed' /\ ChangesTrue
  BY TypedStep DEF Basics
<1>2. ASSUME NEW t \in Threads, Operates(t) PROVE WritersTrue' /\ FileTrue'
  BY <1>1, <1>2, TestKeepsFile, InsertKeepsFile, PopKeepsFile,
     AssignKeepsFile, OpenKeepsFile, LineKeepsFile, CloseKeepsFile
  DEF Operates
<1>3. ASSUME NEW t \in Threads, Resume(t) PROVE WritersTrue' /\ FileTrue'
  <2>1. /\ entry' = entry /\ slots' = slots /\ file' = file
        /\ spoilt' = spoilt /\ doubtful' = doubtful
        /\ thread' = [thread EXCEPT ![t] = Idle] /\ thread[t].at = "resume"
    BY <1>3 DEF Resume, tableVars, At
  <2>2. /\ thread'[t].at = "idle"
        /\ \A s \in Threads \ {t} : thread'[s] = thread[s]
    BY <1>1, <2>1 DEF Typed, Idle
  <2> QED
    BY <1>1, <2>1, <2>2, QuietKeeps
<1>4. ASSUME NEW t \in Threads, NEW c \in Conns,
             NEW op \in Changes \cup {"login"}, NEW v \in Users,
             NEW p \in Passwords \cup {None}, NEW old \in Passwords \cup {None},
             Start(t, c, op, v, p, old)
      PROVE  WritersTrue' /\ FileTrue'
  <2>1. entry' = entry /\ slots' = slots /\ file' = file /\ spoilt' = spoilt
    BY <1>4, StartLeaves
  <2>2. thread'[t].at \in {"login", "create", "delete", "setHash"}
    BY <1>1, <1>4, StartKeeps
  <2>3. thread[t].at = "idle"
    <3>1. thread[t].op = None
      BY <1>1, <1>4, StartKeeps
    <3> QED
      BY <1>1, <3>1 DEF Typed, JobsOK, JobOK
  <2>4. doubtful \subseteq doubtful'
    <3>1. doubtful' = IF op \in Changes /\ \E r \in Threads : Changing(r, v)
                      THEN doubtful \cup {v} ELSE doubtful
      BY <1>1, <1>4, StartKeeps
    <3> QED
      BY <3>1
  <2>5. \A s \in Threads \ {t} :
          /\ thread'[s].at = thread[s].at /\ thread'[s].op = thread[s].op
          /\ thread'[s].user = thread[s].user
          /\ thread'[s].size = thread[s].size
          /\ thread'[s].next = thread[s].next
          /\ thread'[s].buf = thread[s].buf
    BY <1>1, <1>4, StartKeeps
  <2> QED
    BY <1>1, <2>1, <2>2, <2>3, <2>4, <2>5, QuietKeeps
<1>5. CASE Restart
  <2>1. ~Writer'
    <3>1. \A t \in Threads : thread'[t].at = "idle"
      BY <1>5 DEF Restart, Idle
    <3> QED
      BY <3>1 DEF Writer, Writing
  <2>2. FileTrue'
    <3> SUFFICES ASSUME spoilt' # "yes", NEW u \in Users, u \notin doubtful'
                 PROVE  Agrees(u)'
      BY DEF FileTrue
    <3>1. /\ Agrees(u) /\ (Present(u)' <=> Present(u))
          /\ Present(u) => /\ entry'[u].hash = entry[u].hash
                           /\ entry'[u].salt = entry[u].salt
                           /\ entry'[u].perms = Line(u).perms
      BY <1>5, RestartReads
    <3>2. file' = file
      BY <1>5 DEF Restart
    <3>3. CASE ~Present(u)
      BY <3>1, <3>2, <3>3 DEF Agrees
    <3>4. CASE Present(u)
      <4>1. Line(u).perms # "list"
        BY <1>1, <3>4, LineTyped DEF Typed, TableOK
      <4>2. Line(u)' = Line(u)
        BY <3>1, <3>4, <4>1 DEF Line
      <4> QED
        BY <3>1, <3>2, <3>4, <4>2 DEF Agrees
    <3> QED
      BY <3>3, <3>4
  <2> QED
    BY <2>1, <2>2 DEF WritersTrue
<1>6. ASSUME UNCHANGED <<thread, entry, slots, file, spoilt, doubtful>>
      PROVE  WritersTrue' /\ FileTrue'
  <2>1. WritersTrue'
    BY <1>6 DEF WritersTrue, Writer, Writing, Retried, Completed, Loose, Due,
                Reset, AtOpen, Changing, At, Agrees, Present, Line
  <2>2. FileTrue'
    BY <1>6 DEF FileTrue, Writer, Writing, Retried, Completed, Loose, Due,
                Reset, AtOpen, Changing, At, Agrees, Present, Line
  <2> QED
    BY <2>1, <2>2
<1> QED
  BY <1>2, <1>3, <1>4, <1>5, <1>6
  DEF Next, Work, Operates, Logout, vars, tableVars

(* At the first start everybody is as the file of the founders tells.      *)
LEMMA FileInit ==
  Init => /\ ChangesSettled /\ NobodyLockedOut /\ LoginsTrue
          /\ WritersTrue /\ FileTrue
<1> SUFFICES ASSUME Init
             PROVE  /\ ChangesSettled /\ NobodyLockedOut /\ LoginsTrue
                    /\ WritersTrue /\ FileTrue
  OBVIOUS
<1>1. \A t \in Threads : thread[t] = Idle /\ thread[t].at = "idle"
  BY DEF Init, Idle
<1>2. /\ entry = [u \in Users |-> ReadEntry(Founded, u)] /\ file = Founded
      /\ promised = [u \in Users |-> IF u \in Founders THEN Initial ELSE None]
  BY DEF Init
<1>3. ~Writer /\ \A t \in Threads : ~Calm(t)
  BY <1>1, IdleChangesNobody DEF Writer, Writing
<1>4. ASSUME NEW u \in Users
      PROVE  /\ Present(u) <=> u \in Founders
             /\ Present(u) => /\ entry[u].hash = Hash(Initial, 0)
                              /\ entry[u].salt = 0
                              /\ entry[u].perms = "granted"
  <2>1. /\ entry[u] = ReadEntry(Founded, u) /\ Founded \in Seq(Lines)
        /\ u \in Founders <=> \E i \in DOMAIN Founded : Founded[i].name = u
    BY <1>2, FoundedOf
  <2>2. Present(u) <=> u \in Founders
    BY <2>1, ReadEntryOf DEF Present
  <2>3. ASSUME Present(u)
        PROVE  /\ entry[u].hash = Hash(Initial, 0) /\ entry[u].salt = 0
               /\ entry[u].perms = "granted"
    <3>1. PICK i \in DOMAIN Founded :
            entry[u] = [hash |-> Founded[i].hash, salt |-> Founded[i].salt,
                        perms |-> Founded[i].perms]
      BY <2>1, <2>3, ReadEntryOf DEF Present
    <3>2. Founded[i] = [name |-> Founded[i].name, hash |-> Hash(Initial, 0),
                        salt |-> 0, perms |-> "granted"]
      BY FoundedOf
    <3>3. /\ Founded[i].hash = Hash(Initial, 0) /\ Founded[i].salt = 0
          /\ Founded[i].perms = "granted"
      BY <3>2
    <3> QED
      BY <3>1, <3>3
  <2> QED
    BY <2>2, <2>3
<1>5. ASSUME NEW u \in Users PROVE Agrees(u)
  <2>1. Founded \in Seq(Lines) /\ file = Founded
    BY <1>2, FoundedOf
  <2>2. u \in Founders <=> \E i \in DOMAIN Founded : Founded[i].name = u
    BY FoundedOf
  <2>3. CASE ~Present(u)
    BY <1>4, <2>1, <2>2, <2>3 DEF Agrees
  <2>4. CASE Present(u)
    <3>1. ASSUME NEW i \in DOMAIN Founded, Founded[i].name = u
          PROVE  Founded[i] = Line(u)
      <4>1. Founded[i] = [name |-> u, hash |-> Hash(Initial, 0), salt |-> 0,
                          perms |-> "granted"]
        BY <3>1, FoundedOf
      <4>2. Line(u) = [name |-> u, hash |-> Hash(Initial, 0), salt |-> 0,
                       perms |-> "granted"]
        BY <1>4, <2>4 DEF Line
      <4> QED
        BY <4>1, <4>2
    <3> QED
      BY <1>4, <2>1, <2>2, <2>4, <3>1 DEF Agrees
  <2> QED
    BY <2>3, <2>4
<1>6. ChangesSettled
  <2>1. ASSUME NEW u \in Users PROVE Settled(u)
    <3>1. CASE Present(u)
      BY <1>2, <1>4, <3>1 DEF Settled, PasswordOf, Hash, Present
    <3>2. CASE ~Present(u)
      BY <1>2, <1>4, <3>2 DEF Settled, PasswordOf, Present
    <3> QED
      BY <3>1, <3>2
  <2> QED
    BY <2>1 DEF ChangesSettled
<1>7. NobodyLockedOut
  BY <1>4 DEF NobodyLockedOut, Hash
<1>8. LoginsTrue /\ WritersTrue /\ FileTrue
  BY <1>3, <1>5 DEF LoginsTrue, WritersTrue, FileTrue
<1> QED
  BY <1>6, <1>7, <1>8

(* The inductive invariant.                                                *)
LEMMA InvAlways == Spec => []Inv
<1>1. Init => Inv
  BY TypedInit, OwnersInit, ChangesInit, FileInit DEF Inv
<1>2. Inv /\ [Next]_vars => Inv'
  <2> SUFFICES ASSUME Inv, [Next]_vars PROVE Inv'
    OBVIOUS
  <2>1. Basics
    BY DEF Inv, Basics
  <2>2. Typed' /\ Exclusive' /\ ChangesTrue' /\ CalmTrue'
    BY TypedStep, OwnersStep, ChangesStep DEF Inv
  <2>3. ChangesSettled' /\ NobodyLockedOut' /\ LoginsTrue'
    BY <2>1, SettledStep, LockedStep, LoginsStep DEF Inv
  <2>4. WritersTrue' /\ FileTrue'
    BY <2>1, FileStep DEF Inv
  <2> QED
    BY <2>2, <2>3, <2>4 DEF Inv
<1> QED
  BY <1>1, <1>2, PTL DEF Spec

-----------------------------------------------------------------------------
(* The promises of the backend.                                            *)

(* The stored hash of a user belongs to the stored salt, except while      *)
(* set_password() is between its two assignments, after changes of the user*)
(* that overlapped or that a crash interrupted, and when the file was      *)
(* spoilt (passwd.py:99-101).                                              *)
THEOREM LockedOut == Spec => []NobodyLockedOut
<1>1. Inv => NobodyLockedOut
  BY DEF Inv
<1> QED
  BY <1>1, InvAlways, PTL

(* When nobody writes or is about to, the file holds each user who is not  *)
(* being changed as the table does, unless the file was spoilt or changes  *)
(* of the user overlapped (passwd.py:40-50).                               *)
THEOREM FileHolds == Spec => []FileUpToDate
<1>1. Inv => FileUpToDate
  <2> SUFFICES ASSUME Inv, spoilt # "yes",
                      ~\E t \in Threads : Writing(t) \/ At(t, "open"),
                      NEW u \in Users \ doubtful, AtRest(u)
               PROVE  IF Present(u) THEN Line(u) \in ToSet(file)
                      ELSE \A i \in DOMAIN file : file[i].name # u
    BY DEF FileUpToDate
  <2>1. ~Writer /\ ~Retried /\ ~AtOpen(u)
    BY DEF Writer, Retried, AtOpen
  <2>2. ~Reset(u)
    BY DEF Reset, AtRest, Changing, Changes
  <2>3. Agrees(u)
    BY <2>1, <2>2 DEF Inv, FileTrue
  <2>4. CASE Present(u)
    <3>1. PICK i \in DOMAIN file : file[i] = Line(u)
      BY <2>3, <2>4 DEF Agrees
    <3> QED
      BY <2>4, <3>1 DEF ToSet
  <2>5. CASE ~Present(u)
    BY <2>3, <2>5 DEF Agrees
  <2> QED
    BY <2>4, <2>5
<1> QED
  BY <1>1, InvAlways, PTL

(* A user whom nobody is changing has the password that the last successful*)
(* change gave, also after a restart, unless it was spoilt                 *)
(* (passwd.py:52-105, 16-38).                                              *)
THEOREM ChangesHold == Spec => []AcknowledgedHolds
<1>1. Inv => AcknowledgedHolds
  BY DEF Inv, AcknowledgedHolds, ChangesSettled, Settled, AtRest
<1> QED
  BY <1>1, InvAlways, PTL

(* A login during which nobody changed its user is decided by the password *)
(* alone (passwd.py:107-119).                                              *)
THEOREM LoginsDecided == Spec => []LoginDecided
<1>1. Inv => LoginDecided
  BY DEF Inv, LoginDecided, LoginsTrue, Calm, At
<1> QED
  BY <1>1, InvAlways, PTL
=============================================================================
