---------------------------- MODULE FilesProofs ----------------------------
(***************************************************************************)
(* FilesConsistent and FileCallsExact for every number of descriptors,     *)
(* files, states and failures.  The inductive invariant says of every      *)
(* state's environment that its open entries name a symbolic file or an    *)
(* open descriptor of the system, and that failures injected and left add  *)
(* up; each call is shown to keep it on every return path.                 *)
(***************************************************************************)
EXTENDS PosixFiles, FiniteSetTheorems, WellFoundedInduction, TLAPS

\* The flags of an entry of the descriptor table, and the entries.
Flag == {"eOpen", "eReadable", "eWriteable", "eCloseOnExec"}
EntryType == [fd : Int, flags : SUBSET Flag, off : Nat, dfile : DFile \cup {None}]

\* An environment is a record of these fields (__exe_env, __exe_fs, n_calls).
IsEnv(e) ==
  e = [fds |-> e.fds, files |-> e.files, umask |-> e.umask, max_failures |-> e.max_failures,
       injected |-> e.injected, fail |-> e.fail, n_calls |-> e.n_calls]

\* Failures left and failures injected make up --max-fail.
Within(e) ==
  /\ e.max_failures \in Nat /\ e.injected \in Nat
  /\ e.max_failures + e.injected = MaxFailures

\* An open entry without a symbolic file names a descriptor of the system in D.
Names(fds, D) ==
  \A n \in Fds : "eOpen" \in fds[n].flags /\ fds[n].dfile = None => fds[n].fd \in D

\* What every call keeps of an environment, D being the system's open descriptors.
Valid(e, D) ==
  /\ IsEnv(e) /\ Within(e)
  /\ e.fds \in [Fds -> EntryType] /\ Names(e.fds, D)

\* The inductive invariant: it speaks of every state, not only of running ones, because a
\* fork may reuse any, and needs finitely many descriptors for the next one to be a number.
FileInv ==
  /\ running \subseteq State
  /\ env = [s \in State |-> env[s]]
  /\ IsFiniteSet(DOMAIN osoff)
  /\ \A s \in State : Valid(env[s], DOMAIN osoff)

\* A nonempty set of natural numbers has a least element: what makes Min of the free
\* descriptors one of them.
LEMMA LeastNat ==
  ASSUME NEW S, S \subseteq Nat, S # {}
  PROVE  \E x \in S : \A y \in S : x <= y
<1>1. PICK x \in S : \A y \in S : ~ (<<y, x>> \in OpToRel(<, Nat))
  BY NatLessThanWellFounded, WFMin, Zenon
<1>2. ASSUME NEW y \in S PROVE ~(y < x)
  <2>1. <<y, x>> \in Nat \X Nat
    BY Zenon
  <2>2. ~ (<<y, x>> \in OpToRel(<, Nat))
    BY <1>1, Zenon
  <2> QED BY <2>1, <2>2, Zenon DEF OpToRel
<1>3. \A y \in S : x \in Int /\ y \in Int /\ ~(y < x)
  BY <1>2, SMT
<1> QED BY <1>3, SMT

\* The descriptor that __fd_open takes is a free one.
LEMMA FirstFree ==
  ASSUME NEW e, Free(e) # {}
  PROVE  Min(Free(e)) \in Free(e)
<1>1. Free(e) \subseteq Nat
  BY FilesAssumption, SMT DEF Free, Fds
<1>2. \E x \in Free(e) : \A y \in Free(e) : x <= y
  BY <1>1, LeastNat, Zenon
<1> QED BY <1>2, Zenon DEF Min

\* f is e after a call that leaves the descriptor table alone.
Kept(e, f) == IsEnv(f) /\ Within(f) /\ f.fds = e.fds

\* A call that leaves the table alone keeps the environment valid.
LEMMA KeptIsValid ==
  ASSUME NEW e, NEW f, NEW D, Valid(e, D), Kept(e, f)
  PROVE  Valid(f, D)
BY Zenon DEF Valid, Kept

\* Counting a call (++n_calls) changes no descriptor and no failure left.
LEMMA CountedKept ==
  ASSUME NEW e, NEW k, IsEnv(e), Within(e)
  PROVE  Kept(e, Counted(e, k)) /\ Counted(e, k).max_failures = e.max_failures
                                /\ Counted(e, k).files = e.files
BY SMT DEF Kept, IsEnv, Within, Counted

\* Assigning max_failures changes nothing else.
LEMMA FailuresSet ==
  ASSUME NEW e, NEW a, IsEnv(e)
  PROVE  /\ IsEnv([e EXCEPT !.max_failures = a]) /\ [e EXCEPT !.max_failures = a].fds = e.fds
         /\ [e EXCEPT !.max_failures = a].max_failures = a
         /\ [e EXCEPT !.max_failures = a].injected = e.injected
BY SMT DEF IsEnv

\* Assigning the history of injected failures changes nothing else.
LEMMA InjectedSet ==
  ASSUME NEW e, NEW b, IsEnv(e)
  PROVE  /\ IsEnv([e EXCEPT !.injected = b]) /\ [e EXCEPT !.injected = b].fds = e.fds
         /\ [e EXCEPT !.injected = b].max_failures = e.max_failures
         /\ [e EXCEPT !.injected = b].injected = b
BY SMT DEF IsEnv

\* An injected failure is taken from the ones left (--__exe_fs.max_failures).
LEMMA InjectKept ==
  ASSUME NEW e, NEW k, IsEnv(e), Within(e), Fails(e, k)
  PROVE  Kept(e, Inject(e))
<1> DEFINE a == e.max_failures - 1
           b == e.injected + 1
           g == [e EXCEPT !.max_failures = a]
           f == [g EXCEPT !.injected = b]
<1>1. Inject(e) = f
  BY Zenon DEF Inject
<1> HIDE DEF a, b
<1>2. IsEnv(g) /\ g.fds = e.fds /\ g.max_failures = a
  BY FailuresSet, Zenon
<1> HIDE DEF g
<1>3. IsEnv(f) /\ f.fds = g.fds /\ f.max_failures = g.max_failures /\ f.injected = b
  BY <1>2, InjectedSet, Zenon
<1> HIDE DEF f
<1>4. e.max_failures \in Nat /\ e.injected \in Nat /\ e.max_failures > 0
      /\ e.max_failures + e.injected = MaxFailures
  BY Zenon DEF Within, Fails
<1>5. Within(f)
  BY <1>2, <1>3, <1>4, SMT DEF Within, a, b
<1> QED BY <1>1, <1>2, <1>3, <1>5, Zenon DEF Kept

\* Changing the symbolic files or the umask leaves descriptors and failures alone.
LEMMA FilesKept ==
  ASSUME NEW e, NEW x, NEW m, IsEnv(e), Within(e)
  PROVE  Kept(e, [e EXCEPT !.files = x]) /\ Kept(e, [e EXCEPT !.umask = m])
BY SMT DEF Kept, IsEnv, Within

\* getcwd keeps the table, whether it fails or not.
LEMMA GetcwdKept ==
  ASSUME NEW e, NEW sys, IsEnv(e), Within(e)
  PROVE  Kept(e, getcwd(e, sys).e)
<1> DEFINE c == Counted(e, "getcwd")
<1>1. Kept(e, c)
  BY CountedKept, Zenon
<1>2. Fails(c, "getcwd") => Kept(c, Inject(c))
  BY <1>1, InjectKept, Zenon DEF Kept
<1> HIDE DEF c
<1>3. getcwd(e, sys).e \in {c, Inject(c)} /\ (~Fails(c, "getcwd") => getcwd(e, sys).e = c)
  BY Zenon DEF getcwd, c, Err, Os
<1> QED BY <1>1, <1>2, <1>3, Zenon DEF Kept

\* __get_sym_file keeps the table, and finds a symbolic file or none.
LEMMA LookupKept ==
  ASSUME NEW e, NEW p, IsEnv(e), Within(e)
  PROVE  /\ Kept(e, get_sym_file(e, p).e)
         /\ get_sym_file(e, p).df \in DFile \cup {None}
<1>1. Kept(e, getcwd(e, 0).e) /\ Kept(e, e)
  BY GetcwdKept, Zenon DEF Kept
<1>2. get_sym_file(e, p).e \in {getcwd(e, 0).e, e}
  BY Zenon DEF get_sym_file, Ok
<1>3. get_sym_file(e, p).df \in Named \cup {None}
  BY Zenon DEF get_sym_file
<1> QED BY <1>1, <1>2, <1>3, Zenon DEF DFile

\* A call by path that only looks at a file keeps the table.
LEMMA PathCallKept ==
  ASSUME NEW e, NEW p, NEW err, NEW sys, IsEnv(e), Within(e)
  PROVE  Kept(e, ByPath(e, p, err, sys).e)
<1>1. ByPath(e, p, err, sys).e = get_sym_file(e, p).e
  BY Zenon DEF ByPath, Ok, Err, Os
<1> QED BY <1>1, LookupKept, Zenon

\* A call by descriptor that only looks at a file keeps the table.
LEMMA FdCallKept ==
  ASSUME NEW e, NEW fd, NEW err, NEW sys, IsEnv(e), Within(e)
  PROVE  Kept(e, ByFd(e, fd, err, sys).e)
<1>1. ByFd(e, fd, err, sys).e = e
  BY Zenon DEF ByFd, Ok, Err, Os
<1> QED BY <1>1, Zenon DEF Kept

\* Two calls in a row that keep the table keep it.
LEMMA KeptTwice ==
  ASSUME NEW e, NEW f, NEW g, Kept(e, f), Kept(f, g)
  PROVE  Kept(e, g)
BY Zenon DEF Kept

\* __df_chmod keeps the table.
LEMMA ChmodKept ==
  ASSUME NEW e, NEW df, NEW perm, IsEnv(e), Within(e)
  PROVE  Kept(e, df_chmod(e, df, perm).e)
<1> DEFINE x == [e.files EXCEPT ![df].perm = perm]
<1>1. df_chmod(e, df, perm).e \in {e, [e EXCEPT !.files[df].perm = perm]}
  BY Zenon DEF df_chmod, Ok, Err
<1>2. [e EXCEPT !.files[df].perm = perm] = [e EXCEPT !.files = x]
  BY SMT DEF IsEnv
<1>3. Kept(e, [e EXCEPT !.files = x]) /\ Kept(e, e)
  BY FilesKept, Zenon DEF Kept
<1> QED BY <1>1, <1>2, <1>3, Zenon

\* Removing a symbolic file keeps the table.
LEMMA RemovedKept ==
  ASSUME NEW e, NEW df, NEW type, NEW errs, IsEnv(e), Within(e)
  PROVE  Kept(e, Removed(e, df, type, errs).e)
<1> DEFINE x == [e.files EXCEPT ![df].ino = FALSE]
<1>1. Removed(e, df, type, errs).e \in {e, [e EXCEPT !.files[df].ino = FALSE]}
  BY Zenon DEF Removed, Ok, Err
<1>2. [e EXCEPT !.files[df].ino = FALSE] = [e EXCEPT !.files = x]
  BY SMT DEF IsEnv
<1>3. Kept(e, [e EXCEPT !.files = x]) /\ Kept(e, e)
  BY FilesKept, Zenon DEF Kept
<1> QED BY <1>1, <1>2, <1>3, Zenon

\* Assigning one entry keeps the environment valid if the entry is typed and, when open
\* and not symbolic, names a descriptor of the system.
LEMMA EntrySet ==
  ASSUME NEW e, NEW D, NEW E, NEW n \in Fds, NEW x \in EntryType, Valid(e, D), D \subseteq E,
         "eOpen" \in x.flags /\ x.dfile = None => x.fd \in E
  PROVE  /\ Valid([e EXCEPT !.fds[n] = x], E)
         /\ [e EXCEPT !.fds[n] = x].fds = [e.fds EXCEPT ![n] = x]
<1> DEFINE y == [e.fds EXCEPT ![n] = x]
           f == [e EXCEPT !.fds = y]
<1>0. IsEnv(e) /\ Within(e) /\ e.fds \in [Fds -> EntryType] /\ Names(e.fds, D)
  BY Zenon DEF Valid
<1>1. [e EXCEPT !.fds[n] = x] = f
  BY Zenon
<1>2. y \in [Fds -> EntryType] /\ Names(y, E)
  <2>1. \A k \in Fds : y[k] = IF k = n THEN x ELSE e.fds[k]
    BY <1>0, SMT
  <2>2. y \in [Fds -> EntryType]
    BY <1>0, Zenon
  <2> HIDE DEF y
  <2> QED BY <1>0, <2>1, <2>2, Zenon DEF Names
<1> HIDE DEF y
<1>3. IsEnv(f) /\ f.fds = y /\ f.max_failures = e.max_failures /\ f.injected = e.injected
  BY <1>0, SMT DEF IsEnv
<1> HIDE DEF f
<1>4. Valid(f, E)
  BY <1>0, <1>2, <1>3, Zenon DEF Valid, Within
<1> QED BY <1>1, <1>3, <1>4, Zenon DEF y

\* The entries that the runtime builds are typed.
LEMMA EntryIsTyped ==
  ASSUME NEW fd \in Int, NEW flags \in SUBSET Flag, NEW df \in DFile \cup {None}
  PROVE  /\ Entry(fd, flags, df) \in EntryType
         /\ Entry(fd, flags, df).fd = fd /\ Entry(fd, flags, df).dfile = df
         /\ Entry(fd, flags, df).flags = flags
BY SMT DEF Entry, EntryType

\* memset(f, 0) leaves an entry that is not open.
LEMMA ZeroedIsTyped ==
  ASSUME NEW df \in DFile \cup {None}
  PROVE  /\ Zeroed \in EntryType /\ [Zeroed EXCEPT !.dfile = df] \in EntryType
         /\ "eOpen" \notin Zeroed.flags /\ "eOpen" \notin [Zeroed EXCEPT !.dfile = df].flags
<1>1. /\ Entry(0, {}, None) \in EntryType /\ Entry(0, {}, None).flags = {}
  BY EntryIsTyped, SMT
<1>2. Zeroed \in EntryType /\ Zeroed.flags = {}
  BY <1>1, Zenon DEF Zeroed
<1>3. [Zeroed EXCEPT !.dfile = df] \in EntryType /\ [Zeroed EXCEPT !.dfile = df].flags = Zeroed.flags
  BY <1>2, SMT DEF EntryType
<1> QED BY <1>2, <1>3, Zenon

\* The entry that __fd_open fills names the system's descriptor or a symbolic file.
LEMMA OpenedValid ==
  ASSUME NEW e, NEW D, NEW E, NEW n \in Fds, NEW fd \in Int, NEW df \in DFile \cup {None}, NEW acc,
         Valid(e, D), D \subseteq E, df = None => fd \in E
  PROVE  Valid(Opened(e, n, fd, df, acc), E) /\ Opened(e, n, fd, df, acc).fds[n].dfile = df
<1> DEFINE flags == {"eOpen"} \cup (IF acc = "O_WRONLY" THEN {} ELSE {"eReadable"})
                              \cup (IF acc = "O_RDONLY" THEN {} ELSE {"eWriteable"})
           x == Entry(fd, flags, df)
<1>1. flags \in SUBSET Flag
  BY Zenon DEF Flag
<1>2. Opened(e, n, fd, df, acc) = [e EXCEPT !.fds[n] = x]
  BY Zenon DEF Opened
<1> HIDE DEF flags
<1>3. x \in EntryType /\ x.fd = fd /\ x.dfile = df
  BY <1>1, EntryIsTyped
<1> HIDE DEF x
<1>4. Valid([e EXCEPT !.fds[n] = x], E) /\ [e EXCEPT !.fds[n] = x].fds = [e.fds EXCEPT ![n] = x]
  <2>1. "eOpen" \in x.flags /\ x.dfile = None => x.fd \in E
    BY <1>3, Zenon
  <2> QED BY <1>3, <2>1, EntrySet, SMTT(30)
<1>5. [e.fds EXCEPT ![n] = x][n] = x
  BY Zenon DEF Valid
<1> QED BY <1>2, <1>3, <1>4, <1>5, Zenon

\* An entry opened on a file of the system is not symbolic.
LEMMA OpenedNames ==
  ASSUME NEW e, NEW D, NEW n \in Fds, NEW fd \in Int, NEW acc, Valid(e, D)
  PROVE  Opened(e, n, fd, None, acc).fds[n].dfile = None
<1> DEFINE flags == {"eOpen"} \cup (IF acc = "O_WRONLY" THEN {} ELSE {"eReadable"})
                              \cup (IF acc = "O_RDONLY" THEN {} ELSE {"eWriteable"})
           x == Entry(fd, flags, None)
<1>1. Opened(e, n, fd, None, acc) = [e EXCEPT !.fds[n] = x]
  BY Zenon DEF Opened
<1> HIDE DEF flags
<1>2. x.dfile = None
  BY SMT DEF Entry
<1> HIDE DEF x
<1>3. IsEnv(e) /\ e.fds \in [Fds -> EntryType]
  BY Zenon DEF Valid
<1>4. [e EXCEPT !.fds[n] = x].fds = [e.fds EXCEPT ![n] = x]
  BY <1>3, SMT DEF IsEnv
<1>5. [e.fds EXCEPT ![n] = x][n] = x
  BY <1>3, Zenon
<1> QED BY <1>1, <1>2, <1>4, <1>5, Zenon

\* An environment stays valid when the system opens more descriptors.
LEMMA ValidWider ==
  ASSUME NEW e, NEW D, NEW E, Valid(e, D), D \subseteq E
  PROVE  Valid(e, E)
BY Zenon DEF Valid, Names

\* __fd_open, all of its returns: a success on a file of the system uses the descriptor
\* the system gave, and every error leaves an entry that is not open.
LEMMA FdOpenValid ==
  ASSUME NEW e, NEW D, NEW E, NEW p, NEW acc, NEW creat, NEW excl, NEW mode, NEW sys \in Int,
         Valid(e, D), D \subseteq E,
         fd_open(e, p, acc, creat, excl, mode, sys).r >= 0 /\ get_sym_file(e, p).df = None /\ sys # -1
           => sys \in E
  PROVE  /\ Valid(fd_open(e, p, acc, creat, excl, mode, sys).e, E)
         /\ fd_open(e, p, acc, creat, excl, mode, sys).r >= 0 /\ get_sym_file(e, p).df = None
              => ~IsSymbolic(fd_open(e, p, acc, creat, excl, mode, sys).e,
                             fd_open(e, p, acc, creat, excl, mode, sys).r)
<1> DEFINE n == Min(Free(e))
           g == get_sym_file(e, p)
           x == [Zeroed EXCEPT !.dfile = g.df]
           e1 == [g.e EXCEPT !.fds[n] = x]
           perm == (IF creat THEN mode ELSE {}) \ e.umask
           fs == [e1.files EXCEPT ![g.df].perm = perm]
           e2 == [e1 EXCEPT !.files = fs]
           res == fd_open(e, p, acc, creat, excl, mode, sys)
<1>0. [e1 EXCEPT !.files[g.df].perm = perm] = e2
  BY Zenon
<1>1. res = IF Free(e) = {} THEN Err(e, "EMFILE")
            ELSE IF g.df = None
              THEN IF sys = -1 THEN Err(e1, "OS") ELSE Ok(Opened(e1, n, sys, None, acc), n)
            ELSE IF creat /\ excl THEN Err(e1, "EEXIST")
            ELSE IF excl \/ ~has_permission(acc, e.files[g.df].perm) THEN Err(e1, "EACCES")
            ELSE Ok(Opened(e2, n, 0, g.df, acc), n)
  BY <1>0, Zenon DEF fd_open
<1>2. Valid(g.e, D) /\ g.df \in DFile \cup {None}
  BY LookupKept, KeptIsValid, Zenon DEF Valid
<1> HIDE DEF g, perm, res
<1>3. CASE Free(e) = {}
  <2>1. res.e = e /\ res.r = -1
    BY <1>1, <1>3, Zenon DEF Err
  <2>2. ~(res.r >= 0)
    BY <2>1, SMT
  <2> QED BY <2>1, <2>2, ValidWider, Zenon DEF res, g
<1>4. CASE Free(e) # {}
  <2>1. n \in Fds /\ n >= 0
    <3>1. n \in Fds
      BY <1>4, FirstFree, Zenon DEF Free
    <3> QED BY <3>1, FilesAssumption, SMT DEF Fds
  <2>2. x \in EntryType /\ "eOpen" \notin x.flags
    BY <1>2, ZeroedIsTyped, Zenon
  <2> HIDE DEF x, n
  <2>3. Valid(e1, D)
    BY <1>2, <2>1, <2>2, EntrySet, Zenon
  <2> HIDE DEF e1
  <2>4. Valid(e2, D)
    <3> HIDE DEF fs
    <3>1. IsEnv(e1) /\ Within(e1)
      BY <2>3, Zenon DEF Valid
    <3>2. Kept(e1, e2)
      BY <3>1, FilesKept, Zenon
    <3> QED BY <2>3, <3>2, KeptIsValid, Zenon
  <2> HIDE DEF e2
  <2>5. CASE g.df = None /\ sys # -1
    <3>1. res = Ok(Opened(e1, n, sys, None, acc), n)
      BY <1>1, <1>4, <2>5, Zenon
    <3>2. res.r = n /\ res.e = Opened(e1, n, sys, None, acc)
      BY <3>1, Zenon DEF Ok
    <3>3. sys \in E
      BY <3>2, <2>1, <2>5, Zenon DEF g, res
    <3>4. Valid(Opened(e1, n, sys, None, acc), E) /\ Opened(e1, n, sys, None, acc).fds[n].dfile = None
      <4>1. None \in DFile \cup {None} /\ D \subseteq E
        OBVIOUS
      <4>2. Valid(Opened(e1, n, sys, None, acc), E)
        BY <4>1, <3>3, <2>1, <2>3, OpenedValid, Zenon
      <4> QED BY <4>2, <2>1, <2>3, OpenedNames, Zenon
    <3> QED BY <3>2, <3>4, Zenon DEF IsSymbolic, res
  <2>6. CASE g.df = None /\ sys = -1
    <3>1. res.e = e1 /\ res.r = -1
      BY <1>1, <1>4, <2>6, Zenon DEF Err
    <3>2. ~(res.r >= 0)
      BY <3>1, SMT
    <3> QED BY <3>1, <3>2, <2>3, ValidWider, Zenon DEF res
  <2>7. CASE g.df # None
    <3>1. res.e \in {e1, Opened(e2, n, 0, g.df, acc)}
      BY <1>1, <1>4, <2>7, Zenon DEF Err, Ok
    <3>2. Valid(Opened(e2, n, 0, g.df, acc), E)
      BY <1>2, <2>1, <2>4, <2>7, OpenedValid, SMT
    <3> QED BY <3>1, <3>2, <2>3, <2>7, ValidWider, Zenon DEF res, g
  <2> QED BY <2>5, <2>6, <2>7, Zenon
<1> QED BY <1>3, <1>4, Zenon

\* __fd_openat, which looks the path up a second time in __fd_open.
LEMMA FdOpenAtValid ==
  ASSUME NEW e, NEW D, NEW E, NEW base, NEW p, NEW acc, NEW creat, NEW excl, NEW mode, NEW sys \in Int,
         Valid(e, D), D \subseteq E,
         /\ fd_openat(e, base, p, acc, creat, excl, mode, sys).r >= 0
         /\ ~IsSymbolic(fd_openat(e, base, p, acc, creat, excl, mode, sys).e,
                        fd_openat(e, base, p, acc, creat, excl, mode, sys).r)
         /\ sys # -1
         => sys \in E
  PROVE  Valid(fd_openat(e, base, p, acc, creat, excl, mode, sys).e, E)
<1> DEFINE n == Min(Free(e))
           g == get_sym_file(e, p)
           z == [g.e EXCEPT !.fds[n] = Zeroed]
           o == fd_open(g.e, p, acc, creat, excl, mode, sys)
           res == fd_openat(e, base, p, acc, creat, excl, mode, sys)
<1>1. res = IF ~get_file(e, base) THEN Err(e, "EBADF")
            ELSE IF IsSymbolic(e, base) THEN Err(e, "ENOENT")
            ELSE IF g.df # None THEN o
            ELSE IF Free(e) = {} THEN Err(g.e, "EMFILE")
            ELSE IF sys = -1 THEN Err(z, "OS")
            ELSE Ok(Opened(g.e, n, sys, None, acc), n)
  BY Zenon DEF fd_openat
<1>2. Valid(g.e, D) /\ g.df \in DFile \cup {None}
  BY LookupKept, KeptIsValid, Zenon DEF Valid
<1>3. res.r >= 0 /\ ~IsSymbolic(res.e, res.r) /\ sys # -1 => sys \in E
  OBVIOUS
<1> HIDE DEF g, res
<1>4. CASE res = o
  <2> DEFINE sym == get_sym_file(g.e, p).df
  <2>1. CASE o.r >= 0 /\ sym = None
    <3>0. D \subseteq E \cup {sys} /\ sys \in E \cup {sys}
      OBVIOUS
    <3>1. Valid(o.e, E \cup {sys}) /\ ~IsSymbolic(o.e, o.r)
      BY <1>2, <3>0, <2>1, FdOpenValid, ZenonT(40)
    <3>2. sys # -1 => sys \in E
      BY <1>3, <1>4, <2>1, <3>1, Zenon
    <3> QED BY <1>2, <1>4, <3>2, FdOpenValid, Zenon DEF res
  <2>2. CASE ~(o.r >= 0 /\ sym = None)
    BY <1>2, <1>4, <2>2, FdOpenValid, Zenon DEF res
  <2> QED BY <2>1, <2>2, Zenon
<1>5. CASE Free(e) # {} /\ sys # -1 /\ res = Ok(Opened(g.e, n, sys, None, acc), n)
  <2> DEFINE q == Opened(g.e, n, sys, None, acc)
  <2>0. None \in DFile \cup {None} /\ D \subseteq E \cup {sys} /\ sys \in E \cup {sys}
    OBVIOUS
  <2>1. n \in Fds
    BY <1>5, FirstFree, Zenon DEF Free
  <2>2. n >= 0
    BY <2>1, FilesAssumption, SMT DEF Fds
  <2>3. res.r = n /\ res.e = q
    BY <1>5, Zenon DEF Ok
  <2> HIDE DEF n
  <2>4. q.fds[n].dfile = None
    BY <1>2, <2>1, OpenedNames, Zenon
  <2>5. sys \in E
    BY <1>3, <1>5, <2>2, <2>3, <2>4, Zenon DEF IsSymbolic
  <2>6. Valid(q, E)
    BY <1>2, <2>1, <2>0, <2>5, OpenedValid, Zenon
  <2> QED BY <2>3, <2>6, Zenon DEF res
<1>6. CASE Free(e) # {} /\ res.e = z
  <2>1. n \in Fds
    BY <1>6, FirstFree, Zenon DEF Free
  <2>2. Zeroed \in EntryType /\ "eOpen" \notin Zeroed.flags
    BY ZeroedIsTyped, Zenon
  <2> HIDE DEF n
  <2>3. Valid(z, E)
    BY <1>2, <2>1, <2>2, EntrySet, Zenon
  <2> QED BY <1>6, <2>3, Zenon DEF res
<1>7. CASE res.e \in {e, g.e}
  BY <1>2, <1>7, ValidWider, Zenon DEF res
<1> QED BY <1>1, <1>4, <1>5, <1>6, <1>7, Zenon DEF Err

\* Moving an offset to a natural number keeps the environment valid.
LEMMA OffsetSet ==
  ASSUME NEW e, NEW D, NEW n \in Fds, NEW k \in Nat, Valid(e, D)
  PROVE  Valid([e EXCEPT !.fds[n].off = k], D)
<1> DEFINE x == [e.fds[n] EXCEPT !.off = k]
<1>1. e.fds[n] \in EntryType /\ ("eOpen" \in e.fds[n].flags /\ e.fds[n].dfile = None => e.fds[n].fd \in D)
  BY Zenon DEF Valid, Names
<1>2. x \in EntryType /\ x.flags = e.fds[n].flags /\ x.dfile = e.fds[n].dfile /\ x.fd = e.fds[n].fd
  BY <1>1, SMT DEF EntryType
<1>3. [e EXCEPT !.fds[n].off = k] = [e EXCEPT !.fds[n] = x]
  BY Zenon
<1> HIDE DEF x
<1>4. "eOpen" \in x.flags /\ x.dfile = None => x.fd \in D
  BY <1>1, <1>2, Zenon
<1> QED BY <1>2, <1>3, <1>4, EntrySet

\* Copying an entry with other flags, open only if it was, keeps the environment valid.
LEMMA FlagsSet ==
  ASSUME NEW e, NEW D, NEW n \in Fds, NEW m \in Fds, NEW flags \in SUBSET Flag, Valid(e, D),
         "eOpen" \in flags => "eOpen" \in e.fds[n].flags
  PROVE  Valid([e EXCEPT !.fds[m] = [e.fds[n] EXCEPT !.flags = flags]], D)
<1> DEFINE x == [e.fds[n] EXCEPT !.flags = flags]
<1>1. e.fds[n] \in EntryType /\ ("eOpen" \in e.fds[n].flags /\ e.fds[n].dfile = None => e.fds[n].fd \in D)
  BY Zenon DEF Valid, Names
<1>2. x \in EntryType /\ x.flags = flags /\ x.dfile = e.fds[n].dfile /\ x.fd = e.fds[n].fd
  BY <1>1, SMT DEF EntryType
<1> HIDE DEF x
<1>4. "eOpen" \in x.flags /\ x.dfile = None => x.fd \in D
  BY <1>1, <1>2, Zenon
<1>5. Valid([e EXCEPT !.fds[m] = x], D)
  BY <1>2, <1>4, EntrySet, Zenon
<1> QED BY <1>5, Zenon DEF x

\* close, with or without an injected failure, changes no entry but its own.
LEMMA CloseValid ==
  ASSUME NEW e, NEW D, NEW n, Valid(e, D)
  PROVE  /\ Valid(close(e, n).e, D)
         /\ \A m \in Fds : m # n => close(e, n).e.fds[m] = e.fds[m]
<1> DEFINE c == Counted(e, "close")
           z == [c EXCEPT !.fds[n] = Zeroed]
           res == close(e, n)
<1>1. Kept(e, c)
  BY CountedKept, Zenon DEF Valid
<1>2. res = IF ~get_file(c, n) THEN Err(c, "EBADF")
            ELSE IF Fails(c, "close") THEN Err(Inject(c), "EIO") ELSE Ok(z, 0)
  BY Zenon DEF close
<1> HIDE DEF c, z, res
<1>3. Valid(c, D) /\ c.fds = e.fds
  BY <1>1, KeptIsValid, Zenon DEF Kept
<1>4. CASE ~get_file(c, n)
  <2>1. res.e = c
    BY <1>2, <1>4, Zenon DEF Err
  <2> QED BY <2>1, <1>3, Zenon DEF res
<1>5. CASE get_file(c, n) /\ Fails(c, "close")
  <2> DEFINE j == Inject(c)
  <2>1. res.e = j
    BY <1>2, <1>5, Zenon DEF Err
  <2>2. Kept(c, j)
    BY <1>3, <1>5, InjectKept, Zenon DEF Valid
  <2> HIDE DEF j
  <2>3. Valid(j, D) /\ j.fds = c.fds
    BY <1>3, <2>2, KeptIsValid, Zenon DEF Kept
  <2> QED BY <2>1, <2>3, <1>3, Zenon DEF res
<1>6. CASE get_file(c, n) /\ ~Fails(c, "close")
  <2>1. res.e = z
    BY <1>2, <1>6, Zenon DEF Ok
  <2>2. n \in Fds /\ Zeroed \in EntryType /\ "eOpen" \notin Zeroed.flags
    BY <1>6, ZeroedIsTyped, Zenon DEF get_file
  <2>3. Valid(z, D)
    BY <1>3, <2>2, EntrySet, Zenon DEF z
  <2>4. z.fds = [c.fds EXCEPT ![n] = Zeroed]
    BY <1>3, SMT DEF z, Valid, IsEnv
  <2>5. \A m \in Fds : m # n => [c.fds EXCEPT ![n] = Zeroed][m] = c.fds[m]
    BY <1>3, Zenon DEF Valid
  <2>6. \A m \in Fds : m # n => z.fds[m] = e.fds[m]
    BY <2>4, <2>5, <1>3, Zenon
  <2> QED BY <2>1, <2>3, <2>6, Zenon DEF res
<1> QED BY <1>4, <1>5, <1>6, Zenon

\* dup2 copies the entry as it was before close, unless it copies it over itself.
LEMMA Dup2Valid ==
  ASSUME NEW e, NEW D, NEW old, NEW new, Valid(e, D)
  PROVE  /\ Valid(dup2(e, old, new).e, D)
         /\ dup2(e, old, new).r # -1 /\ old # new =>
              /\ get_file(e, old) /\ new \in Fds
              /\ dup2(e, old, new).e.fds[new] = [e.fds[old] EXCEPT !.flags = @ \ {"eCloseOnExec"}]
<1> DEFINE d == close(e, new).e
           c == IF get_file(e, new) THEN d ELSE e
           flags == c.fds[old].flags \ {"eCloseOnExec"}
           x == [c.fds[old] EXCEPT !.flags = flags]
           z == [c EXCEPT !.fds[new] = x]
           res == dup2(e, old, new)
<1>1. res = IF ~get_file(e, old) \/ new \notin Fds THEN Err(e, "EBADF") ELSE Ok(z, new)
  BY Zenon DEF dup2
<1>2. Valid(d, D) /\ \A m \in Fds : m # new => d.fds[m] = e.fds[m]
  BY CloseValid
<1> HIDE DEF d, z, res
<1>3. Valid(c, D) /\ \A m \in Fds : m # new => c.fds[m] = e.fds[m]
  BY <1>2, Zenon
<1> HIDE DEF c
<1>4. CASE ~get_file(e, old) \/ new \notin Fds
  <2>1. res.e = e /\ res.r = -1
    BY <1>1, <1>4, Zenon DEF Err
  <2> QED BY <2>1, Zenon DEF res
<1>5. CASE get_file(e, old) /\ new \in Fds
  <2>1. res.e = z
    BY <1>1, <1>5, Zenon DEF Ok
  <2>2. old \in Fds
    BY <1>5, Zenon DEF get_file
  <2>3. flags \in SUBSET Flag /\ ("eOpen" \in flags => "eOpen" \in c.fds[old].flags)
    <3>1. c.fds[old] \in EntryType
      BY <1>3, <2>2, Zenon DEF Valid
    <3>2. c.fds[old].flags \in SUBSET Flag
      BY <3>1, SMT DEF EntryType
    <3> QED BY <3>2, Zenon
  <2>4. ASSUME old # new PROVE x = [e.fds[old] EXCEPT !.flags = @ \ {"eCloseOnExec"}]
    BY <1>3, <2>2, <2>4, Zenon
  <2> HIDE DEF flags
  <2>5. Valid(z, D)
    BY <1>3, <1>5, <2>2, <2>3, FlagsSet, Zenon DEF z
  <2> HIDE DEF x
  <2>6. z.fds[new] = x
    <3>1. IsEnv(c) /\ c.fds \in [Fds -> EntryType]
      BY <1>3, Zenon DEF Valid
    <3>2. z.fds = [c.fds EXCEPT ![new] = x]
      BY <3>1, SMT DEF IsEnv, z
    <3>3. [c.fds EXCEPT ![new] = x][new] = x
      BY <3>1, <1>5, Zenon
    <3> QED BY <3>2, <3>3, Zenon
  <2> QED BY <1>5, <2>1, <2>4, <2>5, <2>6, Zenon DEF res
<1> QED BY <1>4, <1>5, Zenon

\* dup is dup2 to the first free entry.
LEMMA DupValid ==
  ASSUME NEW e, NEW D, NEW old, Valid(e, D)
  PROVE  Valid(dup(e, old).e, D)
<1>1. dup(e, old).e = e \/ dup(e, old).e = dup2(e, old, Min(Free(e))).e
  BY Zenon DEF dup, Err
<1>2. Valid(dup2(e, old, Min(Free(e))).e, D)
  BY Dup2Valid, Zenon
<1> QED BY <1>1, <1>2, Zenon

\* Max and Min of two integers.
LEMMA ExtremeOfTwo ==
  ASSUME NEW a \in Int, NEW b \in Int
  PROVE  /\ Max({a, b}) \in {a, b} /\ Max({a, b}) >= a /\ Max({a, b}) >= b
         /\ Min({a, b}) \in {a, b}
<1>1. \E x \in {a, b} : \A y \in {a, b} : x >= y
  <2>1. CASE a >= b
    BY <2>1
  <2>2. CASE ~(a >= b)
    BY <2>2
  <2> QED BY <2>1, <2>2
<1>2. \E x \in {a, b} : \A y \in {a, b} : x <= y
  <2>1. CASE a <= b
    BY <2>1
  <2>2. CASE ~(a <= b)
    BY <2>2
  <2> QED BY <2>1, <2>2
<1>3. Max({a, b}) \in {a, b} /\ \A y \in {a, b} : Max({a, b}) >= y
  BY <1>1, Zenon DEF Max
<1>4. Min({a, b}) \in {a, b}
  BY <1>2, Zenon DEF Min
<1> QED BY <1>3, <1>4, Zenon

\* The fields of an entry of a valid environment.
LEMMA EntryOf ==
  ASSUME NEW e, NEW D, NEW n \in Fds, Valid(e, D)
  PROVE  /\ e.fds[n] \in EntryType /\ e.fds[n].off \in Nat /\ e.fds[n].fd \in Int
         /\ e.fds[n].flags \in SUBSET Flag /\ e.fds[n].dfile \in DFile \cup {None}
<1>1. e.fds[n] \in EntryType
  BY Zenon DEF Valid
<1> QED BY <1>1, SMT DEF EntryType

\* The bytes read are never negative, and those of a symbolic file lie in it (read).
LEMMA ReadCounts ==
  ASSUME NEW f, NEW count \in Nat, f.off \in Nat
  PROVE  /\ Readable(f, count) \in Nat /\ OsReadable(f, count) \in Nat
         /\ Readable(f, count) > 0 => f.off + Readable(f, count) <= FileSize
<1>1. FileSize \in Nat /\ OsSize \in Nat
  BY FilesAssumption, Zenon
<1>2. Readable(f, count) \in Nat /\ (Readable(f, count) > 0 => f.off + Readable(f, count) <= FileSize)
  BY <1>1, SMT DEF Readable
<1>3. OsReadable(f, count) \in Nat
  <2> DEFINE k == OsSize - f.off
             mx == Max({0, k})
  <2>1. k \in Int /\ 0 \in Int
    BY <1>1, SMT
  <2> HIDE DEF k
  <2>2. mx \in {0, k} /\ mx >= 0
    BY <2>1, ExtremeOfTwo, Zenon
  <2>3. OsReadable(f, count) = IF f.off + count <= OsSize THEN count ELSE mx
    BY Zenon DEF OsReadable, k
  <2> HIDE DEF mx
  <2> QED BY <2>1, <2>2, <2>3, SMT
<1> QED BY <1>2, <1>3

\* read, all of its returns.
LEMMA ReadValid ==
  ASSUME NEW e, NEW D, NEW n \in Fds, NEW count \in Nat, Valid(e, D)
  PROVE  /\ Valid(read(e, n, count).e, D)
         /\ read(e, n, count).r # -1 /\ IsSymbolic(e, n)
              => /\ read(e, n, count).r >= 0
                 /\ read(e, n, count).r > 0 => e.fds[n].off + read(e, n, count).r <= FileSize
<1> DEFINE c == Counted(e, "read")
           f == c.fds[n]
           k == IF IsSymbolic(c, n) THEN Readable(f, count) ELSE OsReadable(f, count)
           to == f.off + k
           z == [c EXCEPT !.fds[n].off = to]
           res == read(e, n, count)
<1>1. Kept(e, c)
  BY CountedKept, Zenon DEF Valid
<1>2. res = IF count = 0 THEN Ok(c, 0)
            ELSE IF ~get_file(c, n) THEN Err(c, "EBADF")
            ELSE IF Fails(c, "read") THEN Err(Inject(c), "EIO")
            ELSE IF ~IsSymbolic(c, n) /\ f.fd = 0 THEN Ok(c, 0)
            ELSE Ok(z, k)
  BY Zenon DEF read
<1> HIDE DEF c, z, res
<1>3. Valid(c, D) /\ c.fds = e.fds
  BY <1>1, KeptIsValid, Zenon DEF Kept
<1>4. f.off \in Nat
  BY <1>3, EntryOf, Zenon
<1>5. k \in Nat /\ (k > 0 /\ IsSymbolic(c, n) => f.off + k <= FileSize)
  <2> HIDE DEF f
  <2> QED BY <1>4, ReadCounts
<1> HIDE DEF k
<1>6. to \in Nat
  BY <1>4, <1>5, SMT
<1> HIDE DEF to
<1>7. Valid(z, D)
  BY <1>3, <1>6, OffsetSet, Zenon DEF z
<1>8. CASE res = Ok(z, k)
  <2>1. res.e = z /\ res.r = k
    BY <1>8, Zenon DEF Ok
  <2>2. IsSymbolic(e, n) => IsSymbolic(c, n)
    BY <1>3, Zenon DEF IsSymbolic
  <2>3. e.fds[n].off = f.off
    BY <1>3, Zenon
  <2>4. k >= 0
    BY <1>5, SMT
  <2> HIDE DEF f
  <2> QED BY <1>5, <1>7, <2>1, <2>2, <2>3, <2>4, Zenon DEF res
<1>9. CASE res.e = c /\ res.r \in {0, -1}
  BY <1>3, <1>9, SMT DEF res
<1>10. CASE Fails(c, "read") /\ res = Err(Inject(c), "EIO")
  <2>1. res.e = Inject(c) /\ res.r = -1
    BY <1>10, Zenon DEF Err
  <2>2. Valid(Inject(c), D)
    BY <1>3, <1>10, InjectKept, KeptIsValid, Zenon DEF Valid
  <2> QED BY <2>1, <2>2, Zenon DEF res
<1>11. \/ res = Ok(c, 0) \/ res = Err(c, "EBADF") \/ res = Ok(z, k)
       \/ Fails(c, "read") /\ res = Err(Inject(c), "EIO")
  BY <1>2, Zenon
<1>12. ASSUME res = Ok(c, 0) \/ res = Err(c, "EBADF") PROVE res.e = c /\ res.r \in {0, -1}
  <2>1. CASE res = Ok(c, 0)
    BY <2>1, Zenon DEF Ok
  <2>2. CASE res = Err(c, "EBADF")
    BY <2>2, Zenon DEF Err
  <2> QED BY <1>12, <2>1, <2>2, Zenon
<1> QED BY <1>8, <1>9, <1>10, <1>11, <1>12, Zenon

\* write, all of its returns.
LEMMA WriteValid ==
  ASSUME NEW e, NEW D, NEW n \in Fds, NEW count \in Nat, NEW d, Valid(e, D)
  PROVE  Valid(write_fd(e, n, count, d).e, D)
<1> DEFINE c == Counted(e, "write")
           f == c.fds[n]
           range == f.off .. f.off + Written(f, count) - 1
           put(x) == [i \in DOMAIN x |-> IF i \in range THEN d ELSE x[i]]
           to == f.off + count
           fs == [c.files EXCEPT ![f.dfile].contents = put(@)]
           w == [c EXCEPT !.files = fs]
           y == [w EXCEPT !.fds[n].off = to]
           z == [c EXCEPT !.fds[n].off = to]
           res == write_fd(e, n, count, d)
<1>1. Kept(e, c)
  BY CountedKept, Zenon DEF Valid
<1>2. Valid(c, D) /\ c.fds = e.fds
  BY <1>1, KeptIsValid, Zenon DEF Kept
<1>3. [c EXCEPT !.files[f.dfile].contents = put(@), !.fds[n].off = @ + count] = y
  <2>1. w.fds = c.fds
    <3> HIDE DEF fs, c
    <3> QED BY <1>2, SMT DEF Valid, IsEnv
  <2>2. w.fds[n].off + count = to
    BY <2>1, Zenon
  <2> HIDE DEF c, to
  <2> QED BY <2>2, Zenon
<1>4. res = IF ~get_file(c, n) THEN Err(c, "EBADF")
            ELSE IF Fails(c, "write") THEN Err(Inject(c), "EIO")
            ELSE IF IsSymbolic(c, n) THEN Ok(y, count)
            ELSE IF f.fd \in {1, 2} THEN Ok(c, count)
            ELSE Ok(z, count)
  BY <1>3, Zenon DEF write_fd
<1> HIDE DEF c, y, z, res
<1>5. to \in Nat
  <2>1. f.off \in Nat
    BY <1>2, EntryOf, Zenon
  <2> HIDE DEF f
  <2> QED BY <2>1, SMT
<1> HIDE DEF to
<1>6. Valid(z, D)
  BY <1>2, <1>5, OffsetSet, Zenon DEF z
<1>7. Valid(w, D)
  <2> HIDE DEF fs
  <2>1. IsEnv(c) /\ Within(c)
    BY <1>2, Zenon DEF Valid
  <2>2. Kept(c, w)
    BY <2>1, FilesKept, Zenon
  <2> QED BY <1>2, <2>2, KeptIsValid, Zenon
<1> HIDE DEF w
<1>8. Valid(y, D)
  BY <1>5, <1>7, OffsetSet, Zenon DEF y
<1>9. ASSUME Fails(c, "write") PROVE Valid(Inject(c), D)
  BY <1>2, <1>9, InjectKept, KeptIsValid, Zenon DEF Valid
<1>10. res.e \in {c, y, z} \/ (Fails(c, "write") /\ res.e = Inject(c))
  BY <1>4, Zenon DEF Ok, Err
<1> QED BY <1>2, <1>6, <1>8, <1>9, <1>10, Zenon DEF res

\* A relative seek that succeeds starts at the state's offset, wherever the system's
\* descriptor stands (__fd_lseek).
LEMMA SeekRelative ==
  ASSUME NEW e, NEW n, NEW offset \in Int, NEW at, e.fds[n].off \in Nat,
         fd_lseek(e, n, offset, "SEEK_CUR", at).r # -1
  PROVE  fd_lseek(e, n, offset, "SEEK_CUR", at).r = e.fds[n].off + offset
<1> DEFINE f == e.fds[n]
           cur == IF IsSymbolic(e, n) THEN f.off ELSE Positioned(f, "SEEK_CUR", at)
           to == offset + cur
           z == [e EXCEPT !.fds[n].off = to]
           res == fd_lseek(e, n, offset, "SEEK_CUR", at)
<1>1. res = IF ~get_file(e, n) THEN Err(e, "EBADF")
            ELSE IF to < 0 THEN Err(e, "EINVAL") ELSE Ok(z, to)
  <2>1. "SEEK_CUR" # "SEEK_SET" /\ "SEEK_CUR" # "SEEK_END"
    OBVIOUS
  <2> QED BY <2>1, SMT DEF fd_lseek
<1>2. cur = f.off
  BY SMT DEF Positioned
<1> HIDE DEF res, z, cur
<1>3. to = f.off + offset
  BY <1>2, SMT
<1> HIDE DEF to
<1>4. res.r \in {-1, to}
  BY <1>1, Zenon DEF Ok, Err
<1> QED BY <1>3, <1>4, Zenon DEF res

\* __fd_lseek never leaves a negative offset.
LEMMA SeekValid ==
  ASSUME NEW e, NEW D, NEW n \in Fds, NEW offset \in Int, NEW at,
         NEW whence \in {"SEEK_SET", "SEEK_CUR", "SEEK_END"}, Valid(e, D)
  PROVE  Valid(fd_lseek(e, n, offset, whence, at).e, D)
<1> DEFINE f == e.fds[n]
           cur == IF IsSymbolic(e, n) THEN f.off ELSE Positioned(f, whence, at)
           end == IF IsSymbolic(e, n) THEN FileSize ELSE OsSize
           to == CASE whence = "SEEK_SET" -> offset
                   [] whence = "SEEK_CUR" -> offset + cur
                   [] whence = "SEEK_END" -> offset + end
           z == [e EXCEPT !.fds[n].off = to]
           res == fd_lseek(e, n, offset, whence, at)
<1>1. res = IF ~get_file(e, n) THEN Err(e, "EBADF")
            ELSE IF to < 0 THEN Err(e, "EINVAL") ELSE Ok(z, to)
  BY Zenon DEF fd_lseek
<1> HIDE DEF res, z
<1>2. f.off \in Nat
  BY EntryOf, Zenon
<1>3. whence = "SEEK_CUR" => cur = f.off
  BY SMT DEF Positioned
<1>4. end \in Nat
  BY FilesAssumption, SMT
<1> HIDE DEF f, cur, end
<1>5. to \in Int
  <2>1. CASE whence = "SEEK_SET"
    BY <2>1, SMT
  <2>2. CASE whence = "SEEK_CUR"
    <3>1. to = offset + cur
      BY <2>2, SMT
    <3> QED BY <1>2, <1>3, <2>2, <3>1, SMT
  <2>3. CASE whence = "SEEK_END"
    <3>1. to = offset + end
      BY <2>3, SMT
    <3> QED BY <1>4, <3>1, SMT
  <2> QED BY <2>1, <2>2, <2>3, Zenon
<1> HIDE DEF to
<1>6. ASSUME ~(to < 0) PROVE Valid(z, D)
  <2>1. to \in Nat
    BY <1>5, <1>6, SMT
  <2> QED BY <2>1, OffsetSet, Zenon DEF z
<1>7. res.e = e \/ (~(to < 0) /\ res.e = z)
  BY <1>1, Zenon DEF Err, Ok
<1> QED BY <1>6, <1>7, Zenon DEF res

\* __fd_getdents leaves no negative offset.
LEMMA GetdentsValid ==
  ASSUME NEW e, NEW D, NEW n \in Fds, NEW count \in Nat, Valid(e, D)
  PROVE  Valid(fd_getdents(e, n, count).e, D)
<1> DEFINE f == e.fds[n]
           pad == Min({count, Jump})
           sys == Min({f.off - Jump + count, OsSize})
           last == f.off - Jump
           far == Max({sys, last}) + Jump
           y == [e EXCEPT !.fds[n].off = far]
           z == [e EXCEPT !.fds[n].off = pad]
           moved == Max({sys - (f.off - Jump), 0})
           res == fd_getdents(e, n, count)
<1>1. res = IF ~get_file(e, n) THEN Err(e, "EBADF")
            ELSE IF IsSymbolic(e, n) THEN Err(e, "EINVAL")
            ELSE IF f.off >= Jump THEN Ok(y, moved)
            ELSE IF f.off > SymFiles THEN Err(e, "EINVAL") ELSE Ok(z, pad)
  BY Zenon DEF fd_getdents
<1> HIDE DEF res, y, z, moved
<1>2. f.off \in Nat /\ Jump \in Nat /\ OsSize \in Nat
  BY EntryOf, FilesAssumption, Zenon
<1> HIDE DEF f
<1>3. pad \in Nat
  <2>1. count \in Int /\ Jump \in Int
    BY <1>2, SMT
  <2>2. pad \in {count, Jump}
    BY <2>1, ExtremeOfTwo, Zenon
  <2> HIDE DEF pad
  <2> QED BY <1>2, <2>2, SMT
<1>4. ASSUME f.off >= Jump PROVE far \in Nat
  <2> DEFINE next == f.off - Jump + count
             mx == Max({sys, last})
  <2>1. next \in Int /\ OsSize \in Int /\ last \in Nat /\ last \in Int
    BY <1>2, <1>4, SMT
  <2> HIDE DEF last
  <2>2. sys \in {next, OsSize}
    <3>1. sys = Min({next, OsSize})
      BY Zenon
    <3> HIDE DEF next, sys
    <3> QED BY <2>1, <3>1, ExtremeOfTwo, Zenon
  <2> HIDE DEF next, sys
  <2>3. sys \in Int
    BY <2>1, <2>2, Zenon
  <2>4. mx \in {sys, last} /\ mx >= last
    BY <2>1, <2>3, ExtremeOfTwo, Zenon
  <2>5. far = mx + Jump
    BY Zenon
  <2> HIDE DEF mx, far
  <2> QED BY <1>2, <2>1, <2>3, <2>4, <2>5, SMT
<1> HIDE DEF pad, far
<1>5. Valid(z, D)
  BY <1>3, OffsetSet, Zenon DEF z
<1>6. ASSUME f.off >= Jump PROVE Valid(y, D)
  BY <1>4, <1>6, OffsetSet, Zenon DEF y
<1>7. res.e \in {e, z} \/ (f.off >= Jump /\ res.e = y)
  BY <1>1, Zenon DEF Ok, Err
<1> QED BY <1>5, <1>6, <1>7, Zenon DEF res

\* F_GETFD changes nothing.
LEMMA FcntlReads ==
  ASSUME NEW e, NEW n, NEW on, NEW sys
  PROVE  fcntl(e, n, "F_GETFD", on, sys).e = e
<1> DEFINE got == fcntl(e, n, "F_GETFD", on, sys)
<1>1. got = IF ~get_file(e, n) THEN Err(e, "EBADF")
            ELSE IF ~IsSymbolic(e, n) THEN Os(e, sys)
            ELSE Ok(e, IF "eCloseOnExec" \in e.fds[n].flags THEN 1 ELSE 0)
  BY SMT DEF fcntl
<1> HIDE DEF got
<1>2. got.e = e
  BY <1>1, Zenon DEF Ok, Err, Os
<1> QED BY <1>2, Zenon DEF got

\* F_SETFD changes only the close-on-exec flag.
LEMMA FcntlValid ==
  ASSUME NEW e, NEW D, NEW n \in Fds, NEW on, NEW sys, Valid(e, D)
  PROVE  Valid(fcntl(e, n, "F_SETFD", on, sys).e, D)
<1> DEFINE old == e.fds[n].flags
           flags == IF on THEN old \cup {"eCloseOnExec"} ELSE old \ {"eCloseOnExec"}
           x == [e.fds[n] EXCEPT !.flags = flags]
           z == [e EXCEPT !.fds[n] = x]
           res == fcntl(e, n, "F_SETFD", on, sys)
<1>1. res.e \in {e, z}
  <2>1. [e EXCEPT !.fds[n].flags = IF on THEN @ \cup {"eCloseOnExec"} ELSE @ \ {"eCloseOnExec"}] = z
    BY Zenon
  <2> HIDE DEF z
  <2>2. res = IF ~get_file(e, n) THEN Err(e, "EBADF")
              ELSE IF ~IsSymbolic(e, n) THEN Os(e, sys) ELSE Ok(z, 0)
    <3>1. "F_SETFD" # "F_GETFD"
      OBVIOUS
    <3> QED BY <2>1, <3>1, Zenon DEF fcntl
  <2> HIDE DEF res
  <2> QED BY <2>2, Zenon DEF Ok, Err, Os
<1>3. flags \in SUBSET Flag /\ ("eOpen" \in flags => "eOpen" \in e.fds[n].flags)
  <2>1. old \in SUBSET Flag
    BY EntryOf, Zenon
  <2> HIDE DEF old
  <2>2. flags \in SUBSET Flag /\ ("eOpen" \in flags => "eOpen" \in old)
    BY <2>1, SMT DEF Flag
  <2> QED BY <2>2, Zenon DEF old
<1> HIDE DEF flags
<1>4. Valid(z, D)
  BY <1>3, FlagsSet, Zenon
<1> HIDE DEF z
<1> QED BY <1>1, <1>4, Zenon

\* What FileCallsExact says of one step.
CallsExact == SeeksAreRelative /\ CopiesInBounds /\ DupRefersToSame

\* A call keeps the invariant if its environment is valid for the system's descriptors
\* after it: the other states' entries stay valid because none of these is closed.
LEMMA CallKeeps ==
  ASSUME NEW s, NEW op, NEW fd, NEW arg, NEW res, FileInv, s \in running, Call(s, op, fd, arg, res),
         IsFiniteSet(DOMAIN osoff'), DOMAIN osoff \subseteq DOMAIN osoff', Valid(res.e, DOMAIN osoff')
  PROVE  FileInv'
<1>1. running' \subseteq State /\ s \in State
  BY Zenon DEF FileInv, Call
<1>2. env' = [env EXCEPT ![s] = res.e]
  BY Zenon DEF Call
<1>3. env' = [t \in State |-> IF t = s THEN res.e ELSE env[t]]
  BY <1>2, SMT DEF FileInv
<1>4. \A t \in State : env'[t] = IF t = s THEN res.e ELSE env[t]
  BY <1>3, Zenon
<1>5. \A t \in State : Valid(env[t], DOMAIN osoff')
  BY ValidWider, Zenon DEF FileInv
<1>6. \A t \in State : Valid(env'[t], DOMAIN osoff')
  BY <1>4, <1>5, Zenon
<1>7. env' = [t \in State |-> env'[t]]
  BY <1>3, SMT
<1> QED BY <1>1, <1>6, <1>7, Zenon DEF FileInv

\* A call that is not recorded leaves nothing for the step's property to speak of.
LEMMA OtherCall ==
  ASSUME NEW s, NEW op, NEW fd, NEW arg, NEW res, Call(s, op, fd, arg, res),
         op \notin {"read", "dup2", "SEEK_CUR"}
  PROVE  CallsExact
<1>1. ret' = NoCall
  BY Zenon DEF Call
<1>2. ret'.op = "none"
  BY <1>1, SMT DEF NoCall
<1>3. ret'.op \notin {"read", "dup2", "SEEK_CUR"}
  BY <1>2, SMT
<1> QED BY <1>3, Zenon DEF CallsExact, SeeksAreRelative, CopiesInBounds, DupRefersToSame

\* A call that leaves the table and the system alone.
LEMMA KeptCall ==
  ASSUME NEW s, NEW op, NEW fd, NEW arg, NEW res, FileInv, s \in running, Call(s, op, fd, arg, res),
         op \notin {"read", "dup2", "SEEK_CUR"}, UNCHANGED osoff, Kept(env[s], res.e)
  PROVE  FileInv' /\ CallsExact
<1>1. Valid(env[s], DOMAIN osoff) /\ IsFiniteSet(DOMAIN osoff)
  BY Zenon DEF FileInv
<1>2. Valid(res.e, DOMAIN osoff)
  BY <1>1, KeptIsValid, Zenon
<1>3. IsFiniteSet(DOMAIN osoff') /\ DOMAIN osoff \subseteq DOMAIN osoff' /\ Valid(res.e, DOMAIN osoff')
  BY <1>1, <1>2, Zenon
<1>4. FileInv'
  BY <1>3, CallKeeps, Zenon
<1> QED BY <1>4, OtherCall, Zenon

\* chmod to fcntl keep the invariant.
LEMMA AttributesStep ==
  ASSUME NEW s, FileInv, s \in running, Attributes(s)
  PROVE  FileInv' /\ CallsExact
<1> DEFINE e == env[s]
<1>1. Valid(e, DOMAIN osoff) /\ IsFiniteSet(DOMAIN osoff) /\ UNCHANGED osoff
  BY Zenon DEF FileInv, Attributes
<1>2. IsEnv(e) /\ Within(e) /\ Kept(e, e)
  BY <1>1, Zenon DEF Valid, Kept
<1> HIDE DEF e
<1>3. \A p \in PathNames : LET g == get_sym_file(e, p) IN Kept(e, g.e) /\ IsEnv(g.e) /\ Within(g.e)
  BY <1>2, LookupKept, Zenon DEF Kept
<1>4. ASSUME NEW p \in PathNames, NEW perm PROVE Kept(e, chmod(e, p, perm, 0).e)
  <2> DEFINE g == get_sym_file(e, p)
             c == df_chmod(g.e, g.df, perm)
  <2>1. Kept(e, g.e) /\ IsEnv(g.e) /\ Within(g.e)
    BY <1>3, Zenon
  <2>2. chmod(e, p, perm, 0).e \in {g.e, c.e}
    BY Zenon DEF chmod, Err, Os
  <2>3. Kept(g.e, c.e)
    BY <2>1, ChmodKept, Zenon
  <2> HIDE DEF g, c
  <2>4. Kept(e, c.e)
    BY <2>1, <2>3, KeptTwice, Zenon
  <2> QED BY <2>1, <2>2, <2>4, Zenon
<1>5. ASSUME NEW fd \in Fds PROVE Kept(e, fchmod(e, fd, {}, 0).e)
  <2> DEFINE c == df_chmod(e, e.fds[fd].dfile, {})
  <2>1. fchmod(e, fd, {}, 0).e \in {e, c.e}
    BY Zenon DEF fchmod, Err, Os
  <2>2. Kept(e, c.e)
    BY <1>2, ChmodKept, Zenon
  <2> HIDE DEF c
  <2> QED BY <1>2, <2>1, <2>2, Zenon
<1>6. Kept(e, umask(e, {}).e)
  <2>1. umask(e, {}).e = [e EXCEPT !.umask = {}]
    BY Zenon DEF umask, Ok
  <2>2. Kept(e, [e EXCEPT !.umask = {}])
    BY <1>2, FilesKept, Zenon
  <2> QED BY <2>1, <2>2, Zenon
<1>7. ASSUME NEW p \in PathNames
      PROVE  Kept(e, rmdir(e, p).e) /\ Kept(e, unlink(e, p).e) /\ Kept(e, unlinkat(e, 0, p).e)
  <2> DEFINE g == get_sym_file(e, p)
             a == Removed(g.e, g.df, "dir", NotDir)
             b == Removed(g.e, g.df, "reg", NotReg)
  <2>1. Kept(e, g.e) /\ IsEnv(g.e) /\ Within(g.e)
    BY <1>3, Zenon
  <2>2. Kept(g.e, a.e) /\ Kept(g.e, b.e)
    BY <2>1, RemovedKept, Zenon
  <2>3. rmdir(e, p).e \in {g.e, a.e} /\ unlink(e, p).e \in {g.e, b.e} /\ unlinkat(e, 0, p).e \in {g.e, b.e}
    BY Zenon DEF rmdir, unlink, unlinkat, Err
  <2> HIDE DEF g, a, b
  <2>4. Kept(e, a.e) /\ Kept(e, b.e)
    BY <2>1, <2>2, KeptTwice, Zenon
  <2> QED BY <2>1, <2>3, <2>4, Zenon
<1>8. ASSUME NEW fd \in Fds PROVE Kept(e, fd_ftruncate(e, fd, -1).e)
  <2> DEFINE c == Counted(e, "ftruncate")
             res == fd_ftruncate(e, fd, -1)
  <2>1. Kept(e, c)
    BY <1>2, CountedKept, Zenon
  <2>2. Fails(c, "ftruncate") => Kept(c, Inject(c))
    BY <2>1, InjectKept, Zenon DEF Kept
  <2>3. res = IF ~get_file(c, fd) THEN Err(c, "EBADF")
              ELSE IF Fails(c, "ftruncate") THEN Err(Inject(c), "EIO")
              ELSE IF IsSymbolic(c, fd) THEN Err(c, "EIO") ELSE Os(c, -1)
    BY Zenon DEF fd_ftruncate
  <2> HIDE DEF c, res
  <2>4. res.e = c \/ (Fails(c, "ftruncate") /\ res.e = Inject(c))
    BY <2>3, Zenon DEF Err, Os
  <2>5. Kept(e, res.e)
    <3>1. Fails(c, "ftruncate") => Kept(e, Inject(c))
      BY <2>1, <2>2, KeptTwice, Zenon
    <3> QED BY <2>1, <2>4, <3>1, Zenon
  <2> QED BY <2>5, Zenon DEF res
<1>9. \A sys \in OsResult : Kept(e, getcwd(e, sys).e)
  BY <1>2, GetcwdKept, Zenon
<1>10. ASSUME NEW op, NEW fd, NEW res, Call(s, op, fd, 0, res), Kept(e, res.e),
              op \notin {"read", "dup2", "SEEK_CUR"}
       PROVE  FileInv' /\ CallsExact
  BY <1>1, <1>10, KeptCall, Zenon DEF e
<1>11. ASSUME NEW fd \in Fds, NEW on, Call(s, "fcntl", fd, 0, fcntl(e, fd, "F_SETFD", on, 0))
       PROVE  FileInv' /\ CallsExact
  <2> DEFINE res == fcntl(e, fd, "F_SETFD", on, 0)
  <2>1. Valid(res.e, DOMAIN osoff)
    BY <1>1, FcntlValid, Zenon
  <2>2. Call(s, "fcntl", fd, 0, res)
    BY <1>11, Zenon
  <2> HIDE DEF res
  <2>3. IsFiniteSet(DOMAIN osoff') /\ DOMAIN osoff \subseteq DOMAIN osoff' /\ Valid(res.e, DOMAIN osoff')
    BY <1>1, <2>1, Zenon
  <2>4. "fcntl" \notin {"read", "dup2", "SEEK_CUR"}
    BY SMT
  <2> QED BY <2>2, <2>3, <2>4, CallKeeps, OtherCall, Zenon
<1>12. \A op \in {"chmod", "fchmod", "umask", "rmdir", "unlink", "unlinkat", "ftruncate", "getcwd"} :
         op \notin {"read", "dup2", "SEEK_CUR"}
  BY SMT
<1>13. \/ \E p \in PathNames, perm \in {{}, {"ur", "uw"}} : Call(s, "chmod", 0, 0, chmod(e, p, perm, 0))
       \/ \E fd \in Fds : Call(s, "fchmod", fd, 0, fchmod(e, fd, {}, 0))
       \/ Call(s, "umask", 0, 0, umask(e, {}))
       \/ \E p \in PathNames : Call(s, "rmdir", 0, 0, rmdir(e, p))
       \/ \E p \in PathNames : Call(s, "unlink", 0, 0, unlink(e, p))
       \/ \E p \in PathNames : Call(s, "unlinkat", 0, 0, unlinkat(e, 0, p))
       \/ \E fd \in Fds : Call(s, "ftruncate", fd, 0, fd_ftruncate(e, fd, -1))
       \/ \E sys \in OsResult : Call(s, "getcwd", 0, 0, getcwd(e, sys))
       \/ \E fd \in Fds, on \in BOOLEAN : Call(s, "fcntl", fd, 0, fcntl(e, fd, "F_SETFD", on, 0))
  BY Zenon DEF Attributes, e
<1>14. CASE \E p \in PathNames, perm \in {{}, {"ur", "uw"}} : Call(s, "chmod", 0, 0, chmod(e, p, perm, 0))
  BY <1>4, <1>10, <1>12, <1>14, Zenon
<1>15. CASE \E fd \in Fds : Call(s, "fchmod", fd, 0, fchmod(e, fd, {}, 0))
  BY <1>5, <1>10, <1>12, <1>15, Zenon
<1>16. CASE Call(s, "umask", 0, 0, umask(e, {}))
  BY <1>6, <1>10, <1>12, <1>16, Zenon
<1>17. CASE \E p \in PathNames : Call(s, "rmdir", 0, 0, rmdir(e, p))
  BY <1>7, <1>10, <1>12, <1>17, Zenon
<1>18. CASE \E p \in PathNames : Call(s, "unlink", 0, 0, unlink(e, p))
  BY <1>7, <1>10, <1>12, <1>18, Zenon
<1>19. CASE \E p \in PathNames : Call(s, "unlinkat", 0, 0, unlinkat(e, 0, p))
  BY <1>7, <1>10, <1>12, <1>19, Zenon
<1>20. CASE \E fd \in Fds : Call(s, "ftruncate", fd, 0, fd_ftruncate(e, fd, -1))
  BY <1>8, <1>10, <1>12, <1>20, Zenon
<1>21. CASE \E sys \in OsResult : Call(s, "getcwd", 0, 0, getcwd(e, sys))
  BY <1>9, <1>10, <1>12, <1>21, Zenon
<1>22. CASE \E fd \in Fds, on \in BOOLEAN : Call(s, "fcntl", fd, 0, fcntl(e, fd, "F_SETFD", on, 0))
  BY <1>11, <1>22, Zenon
<1> QED BY <1>13, <1>14, <1>15, <1>16, <1>17, <1>18, <1>19, <1>20, <1>21, <1>22, Zenon

\* The calls that change nothing, and the stubs, keep the invariant.
LEMMA QueryStep ==
  ASSUME NEW s, FileInv, s \in running, Query(s)
  PROVE  FileInv' /\ CallsExact
<1> DEFINE e == env[s]
<1>1. Valid(e, DOMAIN osoff) /\ UNCHANGED osoff
  BY Zenon DEF FileInv, Query
<1>2. IsEnv(e) /\ Within(e) /\ Kept(e, e)
  BY <1>1, Zenon DEF Valid, Kept
<1> HIDE DEF e
<1>3. \A p, err, sys : Kept(e, ByPath(e, p, err, sys).e)
  BY <1>2, PathCallKept, Zenon
<1>4. \A n, err, sys : Kept(e, ByFd(e, n, err, sys).e)
  BY <1>2, FdCallKept, Zenon
<1>5. \A p : Kept(e, get_sym_file(e, p).e) /\ IsEnv(get_sym_file(e, p).e) /\ Within(get_sym_file(e, p).e)
  BY <1>2, LookupKept, Zenon DEF Kept
<1>6. ASSUME NEW p, NEW sys PROVE Kept(e, readlink(e, p, 2, sys).e)
  <2>1. readlink(e, p, 2, sys).e = get_sym_file(e, p).e
    BY Zenon DEF readlink, Os, Ok, Err
  <2> QED BY <1>5, <2>1, Zenon
<1>7. ASSUME NEW p, NEW sys PROVE Kept(e, fstatat(e, 2, p, sys).e)
  <2> DEFINE b == ByPath(e, p, "none", sys)
  <2>1. fstatat(e, 2, p, sys).e \in {e, b.e}
    BY Zenon DEF fstatat, Err
  <2>2. Kept(e, b.e)
    BY <1>3, Zenon
  <2> HIDE DEF b
  <2> QED BY <1>2, <2>1, <2>2, Zenon
<1>8. ASSUME NEW p, NEW sys PROVE Kept(e, futimesat(e, 1, p, sys).e)
  <2> DEFINE g == get_sym_file(e, p)
             u == ByPath(g.e, p, "none", sys)
  <2>1. futimesat(e, 1, p, sys).e \in {e, g.e, u.e}
    BY Zenon DEF futimesat, utimes, Err, Os
  <2>2. Kept(e, g.e) /\ IsEnv(g.e) /\ Within(g.e)
    BY <1>5, Zenon
  <2> HIDE DEF g
  <2>3. Kept(g.e, u.e)
    BY <2>2, PathCallKept, Zenon
  <2> HIDE DEF u
  <2>4. Kept(e, u.e)
    BY <2>2, <2>3, KeptTwice, Zenon
  <2> QED BY <1>2, <2>1, <2>2, <2>4, Zenon
<1>9. ASSUME NEW n \in Fds, NEW sys
      PROVE  /\ fcntl(e, n, "F_GETFD", FALSE, sys).e = e
             /\ ioctl(e, n, "FIONREAD", sys).e = e
             /\ select(e, MAX_FDS, {n}, {0, 3}).e = e
  <2>1. fcntl(e, n, "F_GETFD", FALSE, sys).e = e
    BY FcntlReads, Zenon
  <2>2. ioctl(e, n, "FIONREAD", sys).e = e
    BY Zenon DEF ioctl, Err, Os, Ok
  <2>3. select(e, MAX_FDS, {n}, {0, 3}).e = e
    BY Zenon DEF select, Err, Ok
  <2> QED BY <2>1, <2>2, <2>3, Zenon
<1>10. ASSUME NEW op \in {"path", "fd", "chroot", "stub"}, NEW res, Call(s, op, 0, 0, res), Kept(e, res.e)
       PROVE  FileInv' /\ CallsExact
  <2>1. op \notin {"read", "dup2", "SEEK_CUR"}
    BY SMT
  <2> QED BY <1>1, <1>10, <2>1, KeptCall, Zenon DEF e
<1>11. PICK sys \in OsResult :
         \/ \E p \in PathNames :
              \E res \in {access(e, p, sys), fd_stat(e, p, sys), fd_lstat(e, p, sys),
                          chdir(e, p, sys), chown(e, p, sys), utimes(e, p, sys),
                          fd_statfs(e, p, sys), readlink(e, p, 2, sys),
                          fstatat(e, 2, p, sys), futimesat(e, 1, p, sys)} :
                Call(s, "path", 0, 0, res)
         \/ \E n \in Fds :
              \E res \in {fchdir(e, n, sys), fchown(e, n, sys), fd_fstat(e, n, sys),
                          fstatfs(e, n, sys), fsync(e, n, sys),
                          fcntl(e, n, "F_GETFD", FALSE, sys), ioctl(e, n, "FIONREAD", sys),
                          select(e, MAX_FDS, {n}, {0, 3})} :
                Call(s, "fd", 0, 0, res)
         \/ Call(s, "chroot", 0, 0, chroot(e, sys = 0))
         \/ \E err \in Stubs : Call(s, "stub", 0, 0, IF err = "none" THEN Ok(e, 0) ELSE Err(e, err))
  BY Zenon DEF Query, e
<1>12. CASE \E p \in PathNames :
              \E res \in {access(e, p, sys), fd_stat(e, p, sys), fd_lstat(e, p, sys),
                          chdir(e, p, sys), chown(e, p, sys), utimes(e, p, sys),
                          fd_statfs(e, p, sys), readlink(e, p, 2, sys),
                          fstatat(e, 2, p, sys), futimesat(e, 1, p, sys)} :
                Call(s, "path", 0, 0, res)
  <2>1. PICK p \in PathNames :
          \E res \in {access(e, p, sys), fd_stat(e, p, sys), fd_lstat(e, p, sys),
                      chdir(e, p, sys), chown(e, p, sys), utimes(e, p, sys),
                      fd_statfs(e, p, sys), readlink(e, p, 2, sys),
                      fstatat(e, 2, p, sys), futimesat(e, 1, p, sys)} :
            Call(s, "path", 0, 0, res)
    BY <1>12, Zenon
  <2>2. PICK res \in {access(e, p, sys), fd_stat(e, p, sys), fd_lstat(e, p, sys),
                      chdir(e, p, sys), chown(e, p, sys), utimes(e, p, sys),
                      fd_statfs(e, p, sys), readlink(e, p, 2, sys),
                      fstatat(e, 2, p, sys), futimesat(e, 1, p, sys)} :
                Call(s, "path", 0, 0, res)
    BY <2>1, Zenon
  <2>3. \/ \E err : res = ByPath(e, p, err, sys)
        \/ res \in {readlink(e, p, 2, sys), fstatat(e, 2, p, sys), futimesat(e, 1, p, sys)}
    BY <2>2, Zenon DEF access, fd_stat, fd_lstat, chdir, chown, utimes, fd_statfs
  <2>4. Kept(e, res.e)
    <3>1. CASE \E err : res = ByPath(e, p, err, sys)
      BY <1>3, <3>1, Zenon
    <3>2. CASE res \in {readlink(e, p, 2, sys), fstatat(e, 2, p, sys), futimesat(e, 1, p, sys)}
      BY <1>6, <1>7, <1>8, <3>2, Zenon
    <3> QED BY <2>3, <3>1, <3>2, Zenon
  <2> QED BY <1>10, <2>2, <2>4, Zenon
<1>13. CASE \E n \in Fds :
              \E res \in {fchdir(e, n, sys), fchown(e, n, sys), fd_fstat(e, n, sys),
                          fstatfs(e, n, sys), fsync(e, n, sys),
                          fcntl(e, n, "F_GETFD", FALSE, sys), ioctl(e, n, "FIONREAD", sys),
                          select(e, MAX_FDS, {n}, {0, 3})} :
                Call(s, "fd", 0, 0, res)
  <2>1. PICK n \in Fds :
              \E res \in {fchdir(e, n, sys), fchown(e, n, sys), fd_fstat(e, n, sys),
                          fstatfs(e, n, sys), fsync(e, n, sys),
                          fcntl(e, n, "F_GETFD", FALSE, sys), ioctl(e, n, "FIONREAD", sys),
                          select(e, MAX_FDS, {n}, {0, 3})} :
                Call(s, "fd", 0, 0, res)
    BY <1>13, Zenon
  <2>2. PICK res \in {fchdir(e, n, sys), fchown(e, n, sys), fd_fstat(e, n, sys),
                      fstatfs(e, n, sys), fsync(e, n, sys),
                      fcntl(e, n, "F_GETFD", FALSE, sys), ioctl(e, n, "FIONREAD", sys),
                      select(e, MAX_FDS, {n}, {0, 3})} :
                Call(s, "fd", 0, 0, res)
    BY <2>1, Zenon
  <2>3. \/ \E err : res = ByFd(e, n, err, sys)
        \/ res \in {fcntl(e, n, "F_GETFD", FALSE, sys), ioctl(e, n, "FIONREAD", sys),
                    select(e, MAX_FDS, {n}, {0, 3})}
    BY <2>2, Zenon DEF fchdir, fchown, fd_fstat, fstatfs, fsync
  <2>4. Kept(e, res.e)
    <3>1. CASE \E err : res = ByFd(e, n, err, sys)
      BY <1>4, <3>1, Zenon
    <3>2. CASE res \in {fcntl(e, n, "F_GETFD", FALSE, sys), ioctl(e, n, "FIONREAD", sys),
                        select(e, MAX_FDS, {n}, {0, 3})}
      <4>1. res.e = e
        BY <1>9, <3>2, Zenon
      <4> QED BY <1>2, <4>1, Zenon
    <3> QED BY <2>3, <3>1, <3>2, Zenon
  <2> QED BY <1>10, <2>2, <2>4, Zenon
<1>14. CASE Call(s, "chroot", 0, 0, chroot(e, sys = 0))
  <2>1. chroot(e, sys = 0).e = e
    BY Zenon DEF chroot, Ok, Err
  <2> QED BY <1>2, <1>10, <1>14, <2>1, Zenon
<1>15. CASE \E err \in Stubs : Call(s, "stub", 0, 0, IF err = "none" THEN Ok(e, 0) ELSE Err(e, err))
  <2>1. PICK err \in Stubs : Call(s, "stub", 0, 0, IF err = "none" THEN Ok(e, 0) ELSE Err(e, err))
    BY <1>15, Zenon
  <2> DEFINE res == IF err = "none" THEN Ok(e, 0) ELSE Err(e, err)
  <2>2. res.e = e
    BY Zenon DEF Ok, Err
  <2>3. Call(s, "stub", 0, 0, res)
    BY <2>1, Zenon
  <2> HIDE DEF res
  <2> QED BY <1>2, <1>10, <2>2, <2>3, Zenon
<1> QED BY <1>11, <1>12, <1>13, <1>14, <1>15, Zenon

\* The system's next descriptor is a number, and only adds to the open ones.
LEMMA OsGrows ==
  ASSUME FileInv, NEW sys \in NewOs, NEW used, OsOpened(IF used THEN sys ELSE -1)
  PROVE  /\ sys \in Int
         /\ IsFiniteSet(DOMAIN osoff') /\ DOMAIN osoff \subseteq DOMAIN osoff'
         /\ used /\ sys # -1 => sys \in DOMAIN osoff'
<1>1. IsFiniteSet(DOMAIN osoff)
  BY Zenon DEF FileInv
<1>2. sys \in Int
  <2>1. Cardinality(DOMAIN osoff) \in Nat
    BY <1>1, FS_CardinalityType, Zenon
  <2> QED BY <2>1, SMT DEF NewOs
<1>3. CASE used /\ sys # -1
  <2>1. osoff' = [n \in DOMAIN osoff \cup {sys} |-> IF n = sys THEN 0 ELSE osoff[n]]
    BY <1>3, Zenon DEF OsOpened
  <2>2. DOMAIN osoff' = DOMAIN osoff \cup {sys}
    BY <2>1, Zenon
  <2>3. IsFiniteSet(DOMAIN osoff \cup {sys})
    BY <1>1, FS_AddElement, Zenon
  <2> QED BY <1>2, <2>2, <2>3, Zenon
<1>4. CASE ~(used /\ sys # -1)
  <2>1. osoff' = osoff
    BY <1>4, Zenon DEF OsOpened
  <2> QED BY <1>1, <1>2, <1>4, <2>1, Zenon
<1> QED BY <1>3, <1>4, Zenon

\* open and openat keep the invariant: the descriptor the system gave is open exactly
\* when an entry uses it.
LEMMA OpenStep ==
  ASSUME NEW s, FileInv, s \in running, Open(s) \/ OpenAt(s)
  PROVE  FileInv' /\ CallsExact
<1> DEFINE e == env[s]
<1>1. Valid(e, DOMAIN osoff)
  BY Zenon DEF FileInv
<1>2. "open" \notin {"read", "dup2", "SEEK_CUR"} /\ "openat" \notin {"read", "dup2", "SEEK_CUR"}
  BY SMT
<1>3. CASE Open(s)
  <2>1. PICK p \in PathNames, acc \in {"O_RDONLY", "O_WRONLY", "O_RDWR"}, creat \in BOOLEAN,
             excl \in BOOLEAN, sys \in NewOs :
          LET res == fd_open(e, p, acc, creat, excl, {"ur", "uw", "or", "ow"}, sys)
              used == res.r >= 0 /\ get_sym_file(e, p).df = None
          IN Call(s, "open", 0, 0, res) /\ OsOpened(IF used THEN sys ELSE -1)
    BY <1>3, Zenon DEF Open
  <2> DEFINE mode == {"ur", "uw", "or", "ow"}
             res == fd_open(e, p, acc, creat, excl, mode, sys)
             used == res.r >= 0 /\ get_sym_file(e, p).df = None
  <2>2. Call(s, "open", 0, 0, res) /\ OsOpened(IF used THEN sys ELSE -1)
    BY <2>1, Zenon
  <2> HIDE DEF mode, e
  <2>4. /\ sys \in Int
        /\ IsFiniteSet(DOMAIN osoff') /\ DOMAIN osoff \subseteq DOMAIN osoff'
        /\ used /\ sys # -1 => sys \in DOMAIN osoff'
    <3> HIDE DEF used
    <3> QED BY <2>2, OsGrows, Zenon
  <2>5. Valid(res.e, DOMAIN osoff')
    BY <1>1, <2>4, FdOpenValid, Zenon
  <2> HIDE DEF res
  <2> QED BY <1>2, <2>2, <2>4, <2>5, CallKeeps, OtherCall, Zenon
<1>4. CASE OpenAt(s)
  <2>1. PICK base \in Fds, p \in PathNames, sys \in NewOs :
          LET res == fd_openat(e, base, p, "O_RDONLY", FALSE, FALSE, {}, sys)
              used == res.r >= 0 /\ ~IsSymbolic(res.e, res.r)
          IN Call(s, "openat", 0, 0, res) /\ OsOpened(IF used THEN sys ELSE -1)
    BY <1>4, Zenon DEF OpenAt
  <2> DEFINE res == fd_openat(e, base, p, "O_RDONLY", FALSE, FALSE, {}, sys)
             used == res.r >= 0 /\ ~IsSymbolic(res.e, res.r)
  <2>2. Call(s, "openat", 0, 0, res) /\ OsOpened(IF used THEN sys ELSE -1)
    BY <2>1, Zenon
  <2> HIDE DEF e
  <2>4. /\ sys \in Int
        /\ IsFiniteSet(DOMAIN osoff') /\ DOMAIN osoff \subseteq DOMAIN osoff'
        /\ used /\ sys # -1 => sys \in DOMAIN osoff'
    <3> HIDE DEF used
    <3> QED BY <2>2, OsGrows, Zenon
  <2>5. Valid(res.e, DOMAIN osoff')
    BY <1>1, <2>4, FdOpenAtValid, Zenon
  <2> HIDE DEF res
  <2> QED BY <1>2, <2>2, <2>4, <2>5, CallKeeps, OtherCall, Zenon
<1> QED BY <1>3, <1>4, Zenon

\* close keeps the invariant: the system's descriptor stays open, other states may name it.
LEMMA CloseStep ==
  ASSUME NEW s, FileInv, s \in running, Close(s)
  PROVE  FileInv' /\ CallsExact
<1>1. PICK fd \in Fds : Call(s, "close", fd, 0, close(env[s], fd))
  BY Zenon DEF Close
<1>2. osoff' = osoff
  BY Zenon DEF Close, OsClosed
<1>3. Valid(env[s], DOMAIN osoff) /\ IsFiniteSet(DOMAIN osoff)
  BY Zenon DEF FileInv
<1>4. Valid(close(env[s], fd).e, DOMAIN osoff)
  BY <1>3, CloseValid, Zenon
<1>5. IsFiniteSet(DOMAIN osoff') /\ DOMAIN osoff \subseteq DOMAIN osoff' /\ Valid(close(env[s], fd).e, DOMAIN osoff')
  BY <1>2, <1>3, <1>4, Zenon
<1>6. "close" \notin {"read", "dup2", "SEEK_CUR"}
  BY SMT
<1> QED BY <1>1, <1>5, <1>6, CallKeeps, OtherCall, Zenon

\* What the history records of a read, a dup2 or a relative seek.
LEMMA RecordedCall ==
  ASSUME NEW s, NEW op, NEW fd, NEW arg, NEW res, Call(s, op, fd, arg, res),
         op \in {"read", "dup2", "SEEK_CUR"}
  PROVE  \/ ret'.op = "none"
         \/ /\ res.r # -1 /\ ret'.op = op /\ ret'.s = s /\ ret'.fd = fd /\ ret'.arg = arg
            /\ ret'.r = res.r
<1> DEFINE recd == [op |-> op, s |-> s, fd |-> fd, arg |-> arg, r |-> res.r]
<1>1. \/ ret' = NoCall
      \/ res.r # -1 /\ ret' = recd
  BY Zenon DEF Call
<1>2. NoCall.op = "none"
  BY SMT DEF NoCall
<1>3. recd.op = op /\ recd.s = s /\ recd.fd = fd /\ recd.arg = arg /\ recd.r = res.r
  BY Zenon
<1> HIDE DEF recd
<1> QED BY <1>1, <1>2, <1>3, Zenon

\* A step that records no call has nothing to show.
LEMMA NoRecord ==
  ASSUME ret'.op = "none"
  PROVE  CallsExact
<1>1. ret'.op \notin {"read", "dup2", "SEEK_CUR"}
  BY SMT
<1> QED BY <1>1, Zenon DEF CallsExact, SeeksAreRelative, CopiesInBounds, DupRefersToSame

\* read and write keep the invariant, and a read copies bytes of the file only.
LEMMA ReadWriteStep ==
  ASSUME NEW s, FileInv, s \in running, ReadWrite(s)
  PROVE  FileInv' /\ CallsExact
<1> DEFINE e == env[s]
<1>1. Valid(e, DOMAIN osoff) /\ IsFiniteSet(DOMAIN osoff) /\ osoff' = osoff
  BY Zenon DEF FileInv, ReadWrite
<1>2. PICK fd \in Fds, count \in {0, 1, FileSize + 2} :
         \/ Call(s, "read", fd, count, read(e, fd, count))
         \/ \E d \in Data : Call(s, "write", fd, count, write_fd(e, fd, count, d))
  BY Zenon DEF ReadWrite
<1>3. count \in Nat
  BY FilesAssumption, SMT
<1>4. CASE Call(s, "read", fd, count, read(e, fd, count))
  <2> DEFINE res == read(e, fd, count)
  <2>1. Valid(res.e, DOMAIN osoff)
    BY <1>1, <1>3, ReadValid, Zenon
  <2>2. res.r # -1 /\ IsSymbolic(e, fd)
          => res.r >= 0 /\ (res.r > 0 => e.fds[fd].off + res.r <= FileSize)
    BY <1>1, <1>3, ReadValid, Zenon
  <2>3. Call(s, "read", fd, count, res)
    BY <1>4, Zenon
  <2> HIDE DEF res
  <2>4. FileInv'
    <3>1. IsFiniteSet(DOMAIN osoff') /\ DOMAIN osoff \subseteq DOMAIN osoff' /\ Valid(res.e, DOMAIN osoff')
      BY <1>1, <2>1, Zenon
    <3> QED BY <2>3, <3>1, CallKeeps, Zenon
  <2>5. \/ ret'.op = "none"
        \/ res.r # -1 /\ ret'.op = "read" /\ ret'.s = s /\ ret'.fd = fd /\ ret'.r = res.r
    BY <2>3, RecordedCall, Zenon
  <2>6. CASE ret'.op = "none"
    BY <2>4, <2>6, NoRecord, Zenon
  <2>7. CASE res.r # -1 /\ ret'.op = "read" /\ ret'.s = s /\ ret'.fd = fd /\ ret'.r = res.r
    <3>1. ret'.op # "dup2" /\ ret'.op # "SEEK_CUR"
      BY <2>7, SMT
    <3>2. SeeksAreRelative /\ DupRefersToSame
      BY <3>1, Zenon DEF SeeksAreRelative, DupRefersToSame
    <3>3. CopiesInBounds
      BY <2>2, <2>7, Zenon DEF CopiesInBounds
    <3> QED BY <2>4, <3>2, <3>3, Zenon DEF CallsExact
  <2> QED BY <2>5, <2>6, <2>7, Zenon
<1>5. CASE \E d \in Data : Call(s, "write", fd, count, write_fd(e, fd, count, d))
  <2>1. PICK d \in Data : Call(s, "write", fd, count, write_fd(e, fd, count, d))
    BY <1>5, Zenon
  <2>2. Valid(write_fd(e, fd, count, d).e, DOMAIN osoff)
    BY <1>1, <1>3, WriteValid, Zenon
  <2>3. /\ IsFiniteSet(DOMAIN osoff') /\ DOMAIN osoff \subseteq DOMAIN osoff'
        /\ Valid(write_fd(e, fd, count, d).e, DOMAIN osoff')
    BY <1>1, <2>2, Zenon
  <2>4. "write" \notin {"read", "dup2", "SEEK_CUR"}
    BY SMT
  <2> QED BY <2>1, <2>3, <2>4, CallKeeps, OtherCall, Zenon
<1> QED BY <1>2, <1>4, <1>5, Zenon

\* lseek keeps the invariant, and a relative seek starts where this state left the file.
LEMMA SeekStep ==
  ASSUME NEW s, FileInv, s \in running, Seek(s)
  PROVE  FileInv' /\ CallsExact
<1> DEFINE e == env[s]
<1>1. Valid(e, DOMAIN osoff) /\ IsFiniteSet(DOMAIN osoff)
  BY Zenon DEF FileInv
<1>2. PICK fd \in Fds, offset \in {-1, 1}, whence \in {"SEEK_SET", "SEEK_CUR", "SEEK_END"} :
        LET sys == e.fds[fd].fd
            concrete == get_file(e, fd) /\ ~IsSymbolic(e, fd)
            res == fd_lseek(e, fd, offset, whence, IF concrete THEN osoff[sys] ELSE 0)
            at == IF res.r >= 0 THEN res.r ELSE Positioned(e.fds[fd], whence, osoff[sys])
        IN /\ Call(s, whence, fd, offset, res)
           /\ osoff' = IF concrete THEN [osoff EXCEPT ![sys] = at] ELSE osoff
  BY Zenon DEF Seek
<1> DEFINE sys == e.fds[fd].fd
           concrete == get_file(e, fd) /\ ~IsSymbolic(e, fd)
           start == IF concrete THEN osoff[sys] ELSE 0
           res == fd_lseek(e, fd, offset, whence, start)
           at == IF res.r >= 0 THEN res.r ELSE Positioned(e.fds[fd], whence, osoff[sys])
<1>3. /\ Call(s, whence, fd, offset, res)
      /\ osoff' = IF concrete THEN [osoff EXCEPT ![sys] = at] ELSE osoff
  BY <1>2, Zenon
<1> HIDE DEF start
<1>4. offset \in Int
  BY SMT
<1>5. Valid(res.e, DOMAIN osoff)
  BY <1>1, <1>4, SeekValid, Zenon
<1>6. whence = "SEEK_CUR" /\ res.r # -1 => res.r = e.fds[fd].off + offset
  <2>1. ASSUME fd_lseek(e, fd, offset, "SEEK_CUR", start).r # -1
        PROVE  fd_lseek(e, fd, offset, "SEEK_CUR", start).r = e.fds[fd].off + offset
    <3>1. e.fds[fd].off \in Nat
      BY <1>1, EntryOf, Zenon
    <3> HIDE DEF e
    <3> QED BY <1>4, <2>1, <3>1, SeekRelative
  <2> QED BY <2>1, Zenon
<1> HIDE DEF res
<1>7. DOMAIN osoff' = DOMAIN osoff
  <2> HIDE DEF at, sys, concrete
  <2> QED BY <1>3, SMT
<1>8. FileInv'
  <2>1. IsFiniteSet(DOMAIN osoff') /\ DOMAIN osoff \subseteq DOMAIN osoff' /\ Valid(res.e, DOMAIN osoff')
    BY <1>1, <1>5, <1>7, Zenon
  <2> QED BY <1>3, <2>1, CallKeeps, Zenon
<1>9. CallsExact
  <2>1. CASE whence = "SEEK_CUR"
    <3>1. \/ ret'.op = "none"
          \/ /\ res.r # -1 /\ ret'.op = "SEEK_CUR" /\ ret'.s = s /\ ret'.fd = fd
             /\ ret'.arg = offset /\ ret'.r = res.r
      BY <1>3, <2>1, RecordedCall, Zenon
    <3>2. CASE ret'.op = "none"
      BY <3>2, NoRecord, Zenon
    <3>3. CASE /\ res.r # -1 /\ ret'.op = "SEEK_CUR" /\ ret'.s = s /\ ret'.fd = fd
               /\ ret'.arg = offset /\ ret'.r = res.r
      <4>1. ret'.op # "dup2" /\ ret'.op # "read"
        BY <3>3, SMT
      <4>2. CopiesInBounds /\ DupRefersToSame
        BY <4>1, Zenon DEF CopiesInBounds, DupRefersToSame
      <4>3. SeeksAreRelative
        BY <1>6, <2>1, <3>3, Zenon DEF SeeksAreRelative
      <4> QED BY <4>2, <4>3, Zenon DEF CallsExact
    <3> QED BY <3>1, <3>2, <3>3, Zenon
  <2>2. CASE whence # "SEEK_CUR"
    <3>1. whence \notin {"read", "dup2", "SEEK_CUR"}
      BY <2>2, SMT
    <3> QED BY <1>3, <3>1, OtherCall, Zenon
  <2> QED BY <2>1, <2>2, Zenon
<1> QED BY <1>8, <1>9, Zenon

\* getdents keeps the invariant.
LEMMA GetDentsStep ==
  ASSUME NEW s, FileInv, s \in running, GetDents(s)
  PROVE  FileInv' /\ CallsExact
<1> DEFINE e == env[s]
<1>1. Valid(e, DOMAIN osoff) /\ IsFiniteSet(DOMAIN osoff)
  BY Zenon DEF FileInv
<1>2. PICK fd \in Fds, count \in {SymFiles + 1, Jump} :
        LET f == e.fds[fd]
            res == fd_getdents(e, fd, count)
            moved == get_file(e, fd) /\ ~IsSymbolic(e, fd) /\ f.off >= Jump
        IN /\ Call(s, "getdents", fd, count, res)
           /\ osoff' = IF moved THEN [osoff EXCEPT ![f.fd] = res.e.fds[fd].off - Jump] ELSE osoff
  BY Zenon DEF GetDents
<1> DEFINE f == e.fds[fd]
           res == fd_getdents(e, fd, count)
           moved == get_file(e, fd) /\ ~IsSymbolic(e, fd) /\ f.off >= Jump
           at == res.e.fds[fd].off - Jump
<1>3. /\ Call(s, "getdents", fd, count, res)
      /\ osoff' = IF moved THEN [osoff EXCEPT ![f.fd] = at] ELSE osoff
  BY <1>2, Zenon
<1>4. count \in Nat
  BY FilesAssumption, SMT
<1>5. Valid(res.e, DOMAIN osoff)
  BY <1>1, <1>4, GetdentsValid, Zenon
<1>6. DOMAIN osoff' = DOMAIN osoff
  <2> HIDE DEF at, f, moved
  <2> QED BY <1>3, SMT
<1> HIDE DEF res
<1>7. IsFiniteSet(DOMAIN osoff') /\ DOMAIN osoff \subseteq DOMAIN osoff' /\ Valid(res.e, DOMAIN osoff')
  BY <1>1, <1>5, <1>6, Zenon
<1>8. "getdents" \notin {"read", "dup2", "SEEK_CUR"}
  BY SMT
<1> QED BY <1>3, <1>7, <1>8, CallKeeps, OtherCall, Zenon

\* dup and dup2 keep the invariant, and dup2's two descriptors name the same file.
LEMMA DuplicateStep ==
  ASSUME NEW s, FileInv, s \in running, Duplicate(s)
  PROVE  FileInv' /\ CallsExact
<1> DEFINE e == env[s]
<1>1. /\ Valid(e, DOMAIN osoff) /\ IsFiniteSet(DOMAIN osoff) /\ osoff' = osoff
      /\ s \in State /\ env = [t \in State |-> env[t]]
  BY Zenon DEF FileInv, Duplicate
<1>2. \/ \E old, new \in Fds : Call(s, "dup2", old, new, dup2(e, old, new))
      \/ \E old \in Fds : Call(s, "dup", old, 0, dup(e, old))
  BY Zenon DEF Duplicate
<1>3. CASE \E old, new \in Fds : Call(s, "dup2", old, new, dup2(e, old, new))
  <2>1. PICK old \in Fds, new \in Fds : Call(s, "dup2", old, new, dup2(e, old, new))
    BY <1>3, Zenon
  <2> DEFINE res == dup2(e, old, new)
  <2>2. Valid(res.e, DOMAIN osoff)
    BY <1>1, Dup2Valid, Zenon
  <2>3. res.r # -1 /\ old # new =>
          /\ get_file(e, old)
          /\ res.e.fds[new] = [e.fds[old] EXCEPT !.flags = @ \ {"eCloseOnExec"}]
    <3> HIDE DEF e
    <3> QED BY <1>1, Dup2Valid
  <2>4. Call(s, "dup2", old, new, res)
    BY <2>1, Zenon
  <2> HIDE DEF res
  <2>5. FileInv'
    <3>1. IsFiniteSet(DOMAIN osoff') /\ DOMAIN osoff \subseteq DOMAIN osoff' /\ Valid(res.e, DOMAIN osoff')
      BY <1>1, <2>2, Zenon
    <3> QED BY <2>4, <3>1, CallKeeps, Zenon
  <2>6. env'[s] = res.e
    <3>1. env' = [env EXCEPT ![s] = res.e]
      BY <2>4, Zenon DEF Call
    <3> QED BY <1>1, <3>1, SMT
  <2>7. \/ ret'.op = "none"
        \/ /\ res.r # -1 /\ ret'.op = "dup2" /\ ret'.s = s /\ ret'.fd = old
           /\ ret'.arg = new /\ ret'.r = res.r
    BY <2>4, RecordedCall, Zenon
  <2>8. CASE ret'.op = "none"
    BY <2>5, <2>8, NoRecord, Zenon
  <2>9. CASE /\ res.r # -1 /\ ret'.op = "dup2" /\ ret'.s = s /\ ret'.fd = old
             /\ ret'.arg = new /\ ret'.r = res.r
    <3>1. ret'.op # "SEEK_CUR" /\ ret'.op # "read"
      BY <2>9, SMT
    <3>2. CopiesInBounds /\ SeeksAreRelative
      BY <3>1, Zenon DEF CopiesInBounds, SeeksAreRelative
    <3>3. ASSUME old # new
          PROVE  /\ env'[s].fds[new] = [e.fds[old] EXCEPT !.flags = @ \ {"eCloseOnExec"}]
                 /\ "eOpen" \in env'[s].fds[new].flags
      <4>1. env'[s].fds[new] = [e.fds[old] EXCEPT !.flags = @ \ {"eCloseOnExec"}] /\ get_file(e, old)
        BY <2>3, <2>6, <2>9, <3>3, Zenon
      <4> DEFINE x == e.fds[old]
                 flags == x.flags \ {"eCloseOnExec"}
                 y == [x EXCEPT !.flags = flags]
      <4>2. x \in EntryType /\ "eOpen" \in x.flags
        BY <1>1, <4>1, EntryOf, Zenon DEF get_file
      <4>3. "eOpen" \in flags
        BY <4>2, SMT
      <4> HIDE DEF x, flags
      <4>4. y.flags = flags
        BY <4>2, SMT DEF EntryType
      <4>5. [x EXCEPT !.flags = @ \ {"eCloseOnExec"}] = y
        BY Zenon DEF flags
      <4> QED BY <4>1, <4>3, <4>4, <4>5, Zenon DEF x
    <3>4. DupRefersToSame
      BY <2>9, <3>3, Zenon DEF DupRefersToSame
    <3> QED BY <2>5, <3>2, <3>4, Zenon DEF CallsExact
  <2> QED BY <2>7, <2>8, <2>9, Zenon
<1>4. CASE \E old \in Fds : Call(s, "dup", old, 0, dup(e, old))
  <2>1. PICK old \in Fds : Call(s, "dup", old, 0, dup(e, old))
    BY <1>4, Zenon
  <2>2. Valid(dup(e, old).e, DOMAIN osoff)
    BY <1>1, DupValid, Zenon
  <2>3. /\ IsFiniteSet(DOMAIN osoff') /\ DOMAIN osoff \subseteq DOMAIN osoff'
        /\ Valid(dup(e, old).e, DOMAIN osoff')
    BY <1>1, <2>2, Zenon
  <2>4. "dup" \notin {"read", "dup2", "SEEK_CUR"}
    BY SMT
  <2> QED BY <2>1, <2>3, <2>4, CallKeeps, OtherCall, Zenon
<1> QED BY <1>2, <1>3, <1>4, Zenon

\* A fork copies a valid environment.
LEMMA ForkProcessStep ==
  ASSUME NEW s, FileInv, s \in running, ForkProcessState(s)
  PROVE  FileInv' /\ CallsExact
<1>1. PICK t \in State \ running : running' = running \cup {t} /\ env' = [env EXCEPT ![t] = env[s]]
  BY Zenon DEF ForkProcessState
<1>2. osoff' = osoff /\ ret' = ret
  BY Zenon DEF ForkProcessState
<1>3. env' = [u \in State |-> IF u = t THEN env[s] ELSE env[u]]
  BY <1>1, SMT DEF FileInv
<1>4. env' = [u \in State |-> env'[u]] /\ \A u \in State : env'[u] \in {env[s], env[u]}
  BY <1>3, SMT
<1>5. s \in State /\ \A u \in State : Valid(env[u], DOMAIN osoff)
  BY Zenon DEF FileInv
<1>6. \A u \in State : Valid(env'[u], DOMAIN osoff)
  BY <1>4, <1>5, Zenon
<1>7. running' \subseteq State
  BY <1>1, Zenon DEF FileInv
<1>8. FileInv'
  BY <1>2, <1>4, <1>6, <1>7, Zenon DEF FileInv
<1>9. CallsExact
  BY <1>2, Zenon DEF CallsExact, SeeksAreRelative, CopiesInBounds, DupRefersToSame
<1> QED BY <1>8, <1>9, Zenon

\* Every step keeps the invariant and does what FileCallsExact says.
LEMMA FileStep ==
  ASSUME FileInv, [FileNext]_fileVars
  PROVE  FileInv' /\ CallsExact
<1>1. CASE FileNext
  <2>1. PICK s \in running :
          \/ Open(s) \/ OpenAt(s) \/ Close(s) \/ ReadWrite(s) \/ Seek(s) \/ GetDents(s)
          \/ Duplicate(s) \/ Attributes(s) \/ Query(s) \/ ForkProcessState(s)
    BY <1>1, Zenon DEF FileNext
  <2> QED BY <2>1, OpenStep, CloseStep, ReadWriteStep, SeekStep, GetDentsStep, DuplicateStep,
             AttributesStep, QueryStep, ForkProcessStep, Zenon
<1>2. CASE UNCHANGED fileVars
  <2>1. running' = running /\ env' = env /\ osoff' = osoff /\ ret' = ret
    BY <1>2, Zenon DEF fileVars
  <2>2. FileInv'
    BY <2>1, Zenon DEF FileInv
  <2>3. CallsExact
    BY <2>1, Zenon DEF CallsExact, SeeksAreRelative, CopiesInBounds, DupRefersToSame
  <2> QED BY <2>2, <2>3, Zenon
<1> QED BY <1>1, <1>2, Zenon

\* The initial descriptors 0, 1 and 2 are open in the system (klee_init_fds).
LEMMA FileStart ==
  ASSUME FileInit
  PROVE  FileInv
<1>1. PICK i \in Starts :
        /\ running = {CHOOSE s \in State : TRUE}
        /\ env = [t \in State |-> klee_init_fds(create_new_dfile(i.type, i.perm, i.mine), i.stdin, i.stdout, i.fail)]
  BY Zenon DEF FileInit
<1>2. osoff = [n \in 0 .. 2 |-> 0]
  BY Zenon DEF FileInit
<1> DEFINE file == create_new_dfile(i.type, i.perm, i.mine)
           e == klee_init_fds(file, i.stdin, i.stdout, i.fail)
           D == DOMAIN osoff
<1>3. D = 0 .. 2
  BY <1>2, Zenon
<1>4. IsFiniteSet(D)
  <2>1. IsFiniteSet(0 .. 2)
    <3>1. 0 \in Int /\ 2 \in Int
      OBVIOUS
    <3> QED BY <3>1, FS_Interval, Zenon
  <2> QED BY <1>3, <2>1, Zenon
<1>5. /\ i.stdin \in DFile \cup {None} /\ i.stdout \in DFile \cup {None} /\ None \in DFile \cup {None}
      /\ MaxFailures \in Nat
  BY FilesAssumption, SMT DEF DFile, Named, Stdin, Stdout, None
<1>6. Valid(e, D)
  <2> DEFINE entry(n) == CASE n = 0 -> Entry(0, {"eOpen", "eReadable"}, i.stdin)
                           [] n = 1 -> Entry(1, {"eOpen", "eWriteable"}, i.stdout)
                           [] n = 2 -> Entry(2, {"eOpen", "eWriteable"}, None)
                           [] OTHER -> Zeroed
             fds == [n \in Fds |-> entry(n)]
  <2>1. /\ e.fds = fds /\ e.max_failures = MaxFailures /\ e.injected = 0 /\ IsEnv(e)
    BY Zenon DEF klee_init_fds, IsEnv
  <2>2. Within(e)
    BY <1>5, <2>1, SMT DEF Within
  <2>3. ASSUME NEW n \in Fds
        PROVE  entry(n) \in EntryType /\ ("eOpen" \in entry(n).flags => entry(n).fd \in 0 .. 2)
    <3> DEFINE x == Entry(0, {"eOpen", "eReadable"}, i.stdin)
               y == Entry(1, {"eOpen", "eWriteable"}, i.stdout)
               z == Entry(2, {"eOpen", "eWriteable"}, None)
    <3>1. /\ {"eOpen", "eReadable"} \in SUBSET Flag /\ {"eOpen", "eWriteable"} \in SUBSET Flag
          /\ 0 \in Int /\ 1 \in Int /\ 2 \in Int /\ {0, 1, 2} \subseteq 0 .. 2
      BY SMT DEF Flag
    <3>2. x \in EntryType /\ x.fd = 0
      BY <1>5, <3>1, SMT DEF Entry, EntryType
    <3>3. y \in EntryType /\ y.fd = 1
      BY <1>5, <3>1, SMT DEF Entry, EntryType
    <3>4. z \in EntryType /\ z.fd = 2
      BY <1>5, <3>1, SMT DEF Entry, EntryType
    <3>5. Zeroed \in EntryType /\ "eOpen" \notin Zeroed.flags
      BY <1>5, ZeroedIsTyped, Zenon
    <3>6. entry(n) = CASE n = 0 -> x [] n = 1 -> y [] n = 2 -> z [] OTHER -> Zeroed
      BY Zenon
    <3> HIDE DEF x, y, z, entry
    <3>7. entry(n) \in {x, y, z, Zeroed}
      BY <3>6, Zenon
    <3> QED BY <3>1, <3>2, <3>3, <3>4, <3>5, <3>7, Zenon
  <2> HIDE DEF entry, e
  <2>4. \A n \in Fds : fds[n] = entry(n)
    BY Zenon
  <2>5. fds \in [Fds -> EntryType]
    BY <2>3, Zenon
  <2> HIDE DEF fds
  <2> QED BY <1>3, <2>1, <2>2, <2>3, <2>4, <2>5, Zenon DEF Valid, Names
<1> HIDE DEF e
<1>7. env = [t \in State |-> e]
  BY <1>1, Zenon DEF e
<1>8. env = [t \in State |-> env[t]] /\ \A t \in State : env[t] = e
  BY <1>7, SMT
<1>9. running \subseteq State
  <2>1. \A s : s \in State => (CHOOSE t \in State : TRUE) \in State
    BY Zenon
  <2> QED BY <1>1, <2>1, FilesAssumption, Zenon
<1> QED BY <1>4, <1>6, <1>8, <1>9, Zenon DEF FileInv

\* The invariant implies FilesConsistent.
LEMMA FileInvConsistent ==
  ASSUME FileInv
  PROVE  FilesConsistent
<1>1. ASSUME NEW s \in running, NEW fd \in Fds, get_file(env[s], fd), ~IsSymbolic(env[s], fd)
      PROVE  env[s].fds[fd].fd \in DOMAIN osoff
  BY <1>1, Zenon DEF FileInv, Valid, Names, get_file, IsSymbolic
<1>2. ASSUME NEW s \in State PROVE env[s].injected <= MaxFailures
  <2>1. Within(env[s])
    BY Zenon DEF FileInv, Valid
  <2> QED BY <2>1, SMT DEF Within
<1> QED BY <1>1, <1>2, Zenon DEF FilesConsistent, OsDescriptorsValid, FailuresWithinLimit

\* Whatever states call, fail and fork, an open entry names a symbolic file or an open
\* descriptor of the system, and at most --max-fail failures are injected (fd.c).
THEOREM FilesStayConsistent == FileSpec => []FilesConsistent
<1>1. FileInit => FileInv
  BY FileStart
<1>2. FileInv /\ [FileNext]_fileVars => FileInv'
  BY FileStep
<1>3. FileInv => FilesConsistent
  BY FileInvConsistent
<1> QED BY <1>1, <1>2, <1>3, PTL DEF FileSpec

\* Every successful relative seek, read of a symbolic file and dup2 does what POSIX
\* promises its caller, whatever other states did to the shared descriptors (fd.c).
THEOREM FileCallsAreExact == FileSpec => FileCallsExact
<1>1. FileInit => FileInv
  BY FileStart
<1>2. FileInv /\ [FileNext]_fileVars => FileInv'
  BY FileStep
<1>3. FileInv /\ [FileNext]_fileVars => [SeeksAreRelative /\ CopiesInBounds /\ DupRefersToSame]_<<ret, env>>
  BY FileStep DEF CallsExact
<1> QED BY <1>1, <1>2, <1>3, PTL DEF FileSpec, FileCallsExact
=============================================================================
