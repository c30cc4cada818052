----------------------------- MODULE PosixFiles -----------------------------
(***************************************************************************)
(* The POSIX runtime's model of files (runtime/POSIX/fd.c, fd_init.c).     *)
(* Each execution state has its own descriptor table, offsets, symbolic    *)
(* files and failure counters; the operating system's descriptors, which   *)
(* have an offset of their own, are shared by all states of the process.   *)
(*                                                                         *)
(* A call is an operator from the state's environment to [e, r, err]: the  *)
(* environment after it, the value returned (-1 for an error) and errno.   *)
(* The argument os is what the operating system answers: -1 for an error.  *)
(***************************************************************************)
EXTENDS Integers, Sequences, FiniteSets, FiniteSetsExt

CONSTANTS State,         \* execution states
          MAX_FDS,
          SymFiles,      \* n_sym_files: file k (0..) is named by the k-th letter
          FileSize,      \* bytes of a symbolic file
          OsSize,        \* bytes of a file, or of a directory, of the system
          Data,          \* values of a byte
          Jump,          \* 4096, in directory entries
          MaxFailures,   \* --max-fail
          Starts,        \* the files, and the calls that fail, to begin with
          MaxCalls       \* bound: calls of a behaviour

ASSUME FilesAssumption ==
  /\ State # {}
  /\ {MAX_FDS, SymFiles, FileSize, OsSize, Jump, MaxFailures} \subseteq Nat
  /\ \A i \in Starts : {i.stdin, i.stdout} \subseteq -1 .. SymFiles + 1

VARIABLES running,  \* states that have not ended
          env,      \* __exe_env, __exe_fs and the static n_calls counters of a state
          osoff,    \* the offsets of the operating system's descriptors
          ret,      \* history: the last call, if a property is about it, and its result
          calls     \* calls so far

fileVars == <<running, env, osoff, ret, calls>>

Fds == 0 .. MAX_FDS - 1
Named == 0 .. SymFiles - 1
None == -1               \* no symbolic file: a descriptor of the system
Stdin == SymFiles
Stdout == SymFiles + 1
DFile == Named \cup {Stdin, Stdout}
FileOffset == 0 .. FileSize - 1
Failing == {"read", "write", "close", "ftruncate", "getcwd"}

Entry(fd, flags, dfile) == [fd |-> fd, flags |-> flags, off |-> 0, dfile |-> dfile]
Zeroed == Entry(0, {}, None)

\* __create_new_dfile: mode (type and permissions) and owner are symbolic, the inode is not 0.
create_new_dfile(type, perm, mine) ==
  [ino |-> TRUE, type |-> type, perm |-> perm, mine |-> mine,
   contents |-> [i \in FileOffset |-> CHOOSE d \in Data : TRUE]]

\* The initial __exe_env, and klee_init_fds: fail gives the call of each kind that fails.
klee_init_fds(file, stdin, stdout, fail) ==
  [fds |-> [n \in Fds |-> CASE n = 0 -> Entry(0, {"eOpen", "eReadable"}, stdin)
                            [] n = 1 -> Entry(1, {"eOpen", "eWriteable"}, stdout)
                            [] n = 2 -> Entry(2, {"eOpen", "eWriteable"}, None)
                            [] OTHER -> Zeroed],
   files |-> [f \in DFile |-> file], umask |-> {"ow"}, max_failures |-> MaxFailures,
   injected |-> 0, fail |-> fail, n_calls |-> [k \in Failing |-> 0]]

Ok(e, r) == [e |-> e, r |-> r, err |-> "none"]
Err(e, err) == [e |-> e, r |-> -1, err |-> err]
Os(e, os) == [e |-> e, r |-> os, err |-> IF os = -1 THEN "OS" ELSE "none"]

\* __get_file
get_file(e, fd) == fd \in Fds /\ "eOpen" \in e.fds[fd].flags
IsSymbolic(e, fd) == e.fds[fd].dfile # None

-----------------------------------------------------------------------------
(* Injected failures *)
Counted(e, k) == [e EXCEPT !.n_calls[k] = @ + 1]
Fails(e, k) == e.max_failures > 0 /\ e.fail[k] = e.n_calls[k]

\* injected is history.
Inject(e) == [e EXCEPT !.max_failures = @ - 1, !.injected = @ + 1]

\* getcwd
getcwd(e0, os) ==
  LET e == Counted(e0, "getcwd")
  IN IF Fails(e, "getcwd") THEN Err(Inject(e), "ERANGE") ELSE Os(e, os)

\* __get_sym_file.  A path is a letter, possibly with the working directory before it:
\* getcwd is then called, and may fail.  An unlinked file is not found.
get_sym_file(e, p) ==
  LET g == IF p.abs THEN getcwd(e, 0) ELSE Ok(e, 0)
      found == p.name \in Named /\ g.r = 0 /\ e.files[p.name].ino
  IN [e |-> g.e, df |-> IF found THEN p.name ELSE None]

\* Calls by path and by descriptor that change nothing of a symbolic file.
ByPath(e, p, err, os) ==
  LET g == get_sym_file(e, p)
  IN IF g.df = None THEN Os(g.e, os) ELSE IF err = "none" THEN Ok(g.e, 0) ELSE Err(g.e, err)
ByFd(e, fd, err, os) ==
  IF ~get_file(e, fd) THEN Err(e, "EBADF")
  ELSE IF ~IsSymbolic(e, fd) THEN Os(e, os)
  ELSE IF err = "none" THEN Ok(e, 0) ELSE Err(e, err)

access(e, p, os) == ByPath(e, p, "none", os)
fd_stat(e, p, os) == ByPath(e, p, "none", os)
fd_lstat(e, p, os) == ByPath(e, p, "none", os)
chdir(e, p, os) == ByPath(e, p, "ENOENT", os)
chown(e, p, os) == ByPath(e, p, "EPERM", os)
utimes(e, p, os) == ByPath(e, p, "none", os)
fd_statfs(e, p, os) == ByPath(e, p, "ENOENT", os)
fchdir(e, fd, os) == ByFd(e, fd, "ENOENT", os)
fchown(e, fd, os) == ByFd(e, fd, "EPERM", os)
fd_fstat(e, fd, os) == ByFd(e, fd, "none", os)
fstatfs(e, fd, os) == ByFd(e, fd, "EBADF", os)
fsync(e, fd, os) == ByFd(e, fd, "none", os)

\* Calls by a path below a directory's descriptor.
fstatat(e, fd, p, os) ==
  IF ~get_file(e, fd) THEN Err(e, "EBADF")
  ELSE IF IsSymbolic(e, fd) THEN Err(e, "ENOENT")
  ELSE ByPath(e, p, "none", os)
futimesat(e, fd, p, os) ==
  LET g == get_sym_file(e, p)
  IN IF ~get_file(e, fd) THEN Err(e, "EBADF")
     ELSE IF IsSymbolic(e, fd) THEN Err(e, "ENOENT")
     ELSE IF g.df # None THEN utimes(g.e, p, os) ELSE Os(g.e, os)

\* readlink
readlink(e, p, size, os) ==
  LET g == get_sym_file(e, p)
  IN IF g.df = None THEN Os(g.e, os)
     ELSE IF e.files[g.df].type # "lnk" THEN Err(g.e, "EINVAL")
     ELSE Ok(g.e, Min({size, 5}))

-----------------------------------------------------------------------------
(* Opening and closing *)

\* has_permission.  O_RDONLY is 0: only O_RDWR asks for read access, and it is refused
\* if the file is readable.
has_permission(acc, perm) ==
  /\ ~(acc = "O_RDWR" /\ perm \cap {"ur", "or"} # {})
  /\ acc # "O_RDONLY" => perm \cap {"uw", "ow"} # {}

Free(e) == {n \in Fds : "eOpen" \notin e.fds[n].flags}

Opened(e, n, fd, dfile, acc) ==
  [e EXCEPT !.fds[n] = Entry(fd, {"eOpen"} \cup (IF acc = "O_WRONLY" THEN {} ELSE {"eReadable"})
                                           \cup (IF acc = "O_RDONLY" THEN {} ELSE {"eWriteable"}),
                             dfile)]

\* __fd_open: an error leaves the symbolic file in the entry, which is not open.  The
\* permissions become those asked for, which are none without O_CREAT.
fd_open(e, p, acc, creat, excl, mode, os) ==
  LET n == Min(Free(e))
      g == get_sym_file(e, p)
      e1 == [g.e EXCEPT !.fds[n] = [Zeroed EXCEPT !.dfile = g.df]]
      perm == (IF creat THEN mode ELSE {}) \ e.umask
  IN IF Free(e) = {} THEN Err(e, "EMFILE")
     ELSE IF g.df = None
       THEN IF os = -1 THEN Err(e1, "OS") ELSE Ok(Opened(e1, n, os, None, acc), n)
     ELSE IF creat /\ excl THEN Err(e1, "EEXIST")
     ELSE IF excl \/ ~has_permission(acc, e.files[g.df].perm) THEN Err(e1, "EACCES")
     ELSE Ok(Opened([e1 EXCEPT !.files[g.df].perm = perm], n, 0, g.df, acc), n)

\* __fd_openat: the path is looked up again by __fd_open.
fd_openat(e, base, p, acc, creat, excl, mode, os) ==
  LET g == get_sym_file(e, p)
      n == Min(Free(e))
  IN IF ~get_file(e, base) THEN Err(e, "EBADF")
     ELSE IF IsSymbolic(e, base) THEN Err(e, "ENOENT")
     ELSE IF g.df # None THEN fd_open(g.e, p, acc, creat, excl, mode, os)
     ELSE IF Free(e) = {} THEN Err(g.e, "EMFILE")
     ELSE IF os = -1 THEN Err([g.e EXCEPT !.fds[n] = Zeroed], "OS")
     ELSE Ok(Opened(g.e, n, os, None, acc), n)

\* close: the system's descriptor stays open.
close(e0, fd) ==
  LET e == Counted(e0, "close")
  IN IF ~get_file(e, fd) THEN Err(e, "EBADF")
     ELSE IF Fails(e, "close") THEN Err(Inject(e), "EIO")
     ELSE Ok([e EXCEPT !.fds[fd] = Zeroed], 0)

\* dup2: close may fail, and the entry is copied after it; an entry copied over itself
\* has just been zeroed.
dup2(e, oldfd, newfd) ==
  LET c == IF get_file(e, newfd) THEN close(e, newfd).e ELSE e
  IN IF ~get_file(e, oldfd) \/ newfd \notin Fds THEN Err(e, "EBADF")
     ELSE Ok([c EXCEPT !.fds[newfd] = [c.fds[oldfd] EXCEPT !.flags = @ \ {"eCloseOnExec"}]], newfd)

dup(e, oldfd) ==
  IF ~get_file(e, oldfd) THEN Err(e, "EBADF")
  ELSE IF Free(e) = {} THEN Err(e, "EMFILE")
  ELSE dup2(e, oldfd, Min(Free(e)))
-----------------------------------------------------------------------------
(* Data *)

\* read: the bytes copied from a symbolic file, and the ones the system returns.
Readable(f, count) ==
  IF FileSize < f.off THEN 0 ELSE IF f.off + count > FileSize THEN FileSize - f.off ELSE count
OsReadable(f, count) ==
  IF f.off + count <= OsSize THEN count ELSE Max({0, OsSize - f.off})

\* The system's descriptor 0 is read where it stands, others at the state's offset.
read(e0, fd, count) ==
  LET e == Counted(e0, "read")
      f == e.fds[fd]
      k == IF IsSymbolic(e, fd) THEN Readable(f, count) ELSE OsReadable(f, count)
  IN IF count = 0 THEN Ok(e, 0)
     ELSE IF ~get_file(e, fd) THEN Err(e, "EBADF")
     ELSE IF Fails(e, "read") THEN Err(Inject(e), "EIO")
     ELSE IF ~IsSymbolic(e, fd) /\ f.fd = 0 THEN Ok(e, 0)
     ELSE Ok([e EXCEPT !.fds[fd].off = @ + k], k)

\* write, without --save-all-writes: what lies past the end of a symbolic file is
\* dropped, and the offset moves by all of count.
Written(f, count) ==
  IF f.off + count <= FileSize THEN count ELSE Max({0, FileSize - f.off})
write_fd(e0, fd, count, d) ==
  LET e == Counted(e0, "write")
      f == e.fds[fd]
      range == f.off .. f.off + Written(f, count) - 1
      put(c) == [i \in DOMAIN c |-> IF i \in range THEN d ELSE c[i]]
  IN IF ~get_file(e, fd) THEN Err(e, "EBADF")
     ELSE IF Fails(e, "write") THEN Err(Inject(e), "EIO")
     ELSE IF IsSymbolic(e, fd)
       THEN Ok([e EXCEPT !.files[f.dfile].contents = put(@), !.fds[fd].off = @ + count], count)
     ELSE IF f.fd \in {1, 2} THEN Ok(e, count)
     ELSE Ok([e EXCEPT !.fds[fd].off = @ + count], count)

\* Mutant: the system's descriptor is left where another state put it.
PositionedOs(f, whence, at) == at

\* __fd_lseek: before a relative seek the system's descriptor, which stands at `at', is
\* put at the state's offset.
Positioned(f, whence, at) == IF whence = "SEEK_SET" THEN at ELSE f.off
fd_lseek(e, fd, offset, whence, at) ==
  LET f == e.fds[fd]
      to == CASE whence = "SEEK_SET" -> offset
              [] whence = "SEEK_CUR" -> offset + (IF IsSymbolic(e, fd) THEN f.off
                                                  ELSE Positioned(f, whence, at))
              [] whence = "SEEK_END" -> offset + (IF IsSymbolic(e, fd) THEN FileSize ELSE OsSize)
  IN IF ~get_file(e, fd) THEN Err(e, "EBADF")
     ELSE IF to < 0 THEN Err(e, "EINVAL")
     ELSE Ok([e EXCEPT !.fds[fd].off = to], to)

\* __fd_ftruncate
fd_ftruncate(e0, fd, os) ==
  LET e == Counted(e0, "ftruncate")
  IN IF ~get_file(e, fd) THEN Err(e, "EBADF")
     ELSE IF Fails(e, "ftruncate") THEN Err(Inject(e), "EIO")
     ELSE IF IsSymbolic(e, fd) THEN Err(e, "EIO") ELSE Os(e, os)

\* __fd_getdents, in directory entries: the symbolic files come first, then a deleted entry
\* that fills the buffer, then, from offset Jump, the system's entries.
fd_getdents(e, fd, count) ==
  LET f == e.fds[fd]
      pad == Min({count, Jump})
      os == Min({f.off - Jump + count, OsSize})
  IN IF ~get_file(e, fd) THEN Err(e, "EBADF")
     ELSE IF IsSymbolic(e, fd) THEN Err(e, "EINVAL")
     ELSE IF f.off >= Jump
       THEN Ok([e EXCEPT !.fds[fd].off = Max({os, @ - Jump}) + Jump], Max({os - (f.off - Jump), 0}))
     ELSE IF f.off > SymFiles THEN Err(e, "EINVAL")
     ELSE Ok([e EXCEPT !.fds[fd].off = pad], pad)

-----------------------------------------------------------------------------
(* Attributes *)
umask(e, mask) == Ok([e EXCEPT !.umask = mask], 0)

\* __df_chmod
df_chmod(e, df, perm) ==
  IF e.files[df].mine THEN Ok([e EXCEPT !.files[df].perm = perm], 0) ELSE Err(e, "EPERM")

\* chmod, fchmod: chmod_fail and fchmod_fail are never allocated, so with failures left
\* the call reads a null pointer and ends the state.
chmod(e, p, perm, os) ==
  LET g == get_sym_file(e, p)
  IN IF g.e.max_failures > 0 THEN Err(g.e, "NULL")
     ELSE IF g.df # None THEN df_chmod(g.e, g.df, perm) ELSE Os(g.e, os)
fchmod(e, fd, perm, os) ==
  IF ~get_file(e, fd) THEN Err(e, "EBADF")
  ELSE IF e.max_failures > 0 THEN Err(e, "NULL")
  ELSE IF IsSymbolic(e, fd) THEN df_chmod(e, e.fds[fd].dfile, perm) ELSE Os(e, os)

\* ioctl: only FIONREAD returns a number of bytes.
Tty == {"TCGETS", "TCSETS", "TCSETSF", "TIOCGWINSZ", "FIONREAD", "TIOCSWINSZ"}
ioctl(e, fd, request, os) ==
  LET f == e.fds[fd]
      tty == IF request = "TCSETSW" THEN fd = 0 ELSE e.files[f.dfile].type = "chr"
  IN IF ~get_file(e, fd) THEN Err(e, "EBADF")
     ELSE IF ~IsSymbolic(e, fd) THEN Os(e, os)
     ELSE IF request \notin Tty \cup {"TCSETSW"} THEN Err(e, "EINVAL")
     ELSE IF ~tty THEN Err(e, "ENOTTY")
     ELSE IF request = "TIOCSWINSZ" THEN Err(e, "EINVAL")
     ELSE Ok(e, IF request = "FIONREAD" THEN Max({0, FileSize - f.off}) ELSE 0)

\* fcntl
fcntl(e, fd, cmd, cloexec, os) ==
  LET flags == e.fds[fd].flags
  IN IF ~get_file(e, fd) THEN Err(e, "EBADF")
     ELSE IF ~IsSymbolic(e, fd) THEN Os(e, os)
     ELSE CASE cmd = "F_GETFD" -> Ok(e, IF "eCloseOnExec" \in flags THEN 1 ELSE 0)
            [] cmd = "F_SETFD" ->
                 Ok([e EXCEPT !.fds[fd].flags = IF cloexec THEN @ \cup {"eCloseOnExec"}
                                                ELSE @ \ {"eCloseOnExec"}], 0)
            [] cmd \in {"F_GETFL", "F_GETLK", "F_SETLK"} -> Ok(e, 0)
            [] OTHER -> Err(e, "EINVAL")

\* rmdir, unlink, unlinkat: a removed file keeps its data for open descriptors.
Removed(e, df, type, errs) ==
  LET t == e.files[df].type
  IN IF t = type THEN Ok([e EXCEPT !.files[df].ino = FALSE], 0) ELSE Err(e, errs[t])
NotDir == [t \in {"reg", "chr", "lnk"} |-> "ENOTDIR"]
NotReg == [dir |-> "EISDIR", chr |-> "EPERM", lnk |-> "EPERM"]
rmdir(e, p) ==
  LET g == get_sym_file(e, p)
  IN IF g.df # None THEN Removed(g.e, g.df, "dir", NotDir) ELSE Err(g.e, "EPERM")
unlink(e, p) ==
  LET g == get_sym_file(e, p)
  IN IF g.df # None THEN Removed(g.e, g.df, "reg", NotReg) ELSE Err(g.e, "EPERM")
unlinkat(e, fd, p) ==
  LET g == get_sym_file(e, p)
  IN IF g.df # None THEN Removed(g.e, g.df, "reg", NotReg) ELSE Err(g.e, "EPERM")

\* select, of one set of descriptors: a descriptor of the system is translated back by
\* its number there, so one that shares it is reported too.
select(e, nfds, asked, ready) ==
  LET S == {n \in asked : n < nfds}
      sym == {n \in S : IsSymbolic(e, n)}
      osAsked == {e.fds[n].fd : n \in S \ sym}
      back == {n \in 0 .. nfds - 1 : /\ get_file(e, n)
                                     /\ ~IsSymbolic(e, n)
                                     /\ e.fds[n].fd \in osAsked \cap ready}
  IN IF \E n \in S : ~get_file(e, n) THEN Err(e, "EBADF")
     ELSE Ok(e, Cardinality(sym) + Cardinality(osAsked \cap ready))

\* chroot: the working directory's root only.
chroot(e, root) == IF root THEN Ok(e, 0) ELSE Err(e, "ENOENT")

\* The results of calls that are not modelled by the runtime: 0, or -1 with an errno.
SignalStubs == {"none"}
FileStubs == {"EAFNOSUPPORT", "EIO", "ENFILE", "EPERM"}
TimeStubs == {"none", "EPERM", "EBADF"}
WaitStubs == {"ECHILD"}
AclStubs == {"EPERM", "ENOENT", "EINVAL", "ENOMEM"}
PrivilegeStubs == {"none", "EPERM"}
SystemStubs == {"none", "EPERM"}
ProcessStubs == {"EPERM", "EACCES", "ENOMEM", "none"}
Stubs == UNION {SignalStubs, FileStubs, TimeStubs, WaitStubs, AclStubs, PrivilegeStubs,
                SystemStubs, ProcessStubs}

-----------------------------------------------------------------------------
(* The system: states of one process call the runtime, and fork *)
PathNames == [name : -1 .. SymFiles - 1, abs : BOOLEAN]   \* -1: a path of the system
OsResult == {-1, 0}

NoCall == [op |-> "none", s |-> CHOOSE s \in State : TRUE, fd |-> 0, arg |-> 0, r |-> 0]

FileInit ==
  /\ \E i \in Starts :
       /\ running = {CHOOSE s \in State : TRUE}
       /\ env = [t \in State |-> klee_init_fds(create_new_dfile(i.type, i.perm, i.mine), i.stdin, i.stdout, i.fail)]
  /\ osoff = [n \in 0 .. 2 |-> 0]
  /\ ret = NoCall
  /\ calls = 0

\* A call of state s: a null pointer read ends it.
Call(s, op, fd, arg, res) ==
  /\ calls' = calls + 1
  /\ env' = [env EXCEPT ![s] = res.e]
  /\ ret' = IF op \in {"read", "dup2", "SEEK_CUR"} /\ res.r # -1
              THEN [op |-> op, s |-> s, fd |-> fd, arg |-> arg, r |-> res.r] ELSE NoCall
  /\ running' = IF res.err = "NULL" THEN running \ {s} ELSE running

\* The system gives a new descriptor, or none.
NewOs == {-1, Cardinality(DOMAIN osoff)}
OsOpened(os) == osoff' = IF os = -1 THEN osoff ELSE [n \in DOMAIN osoff \cup {os} |-> IF n = os THEN 0 ELSE osoff[n]]

Open(s) ==
  \E p \in PathNames, acc \in {"O_RDONLY", "O_WRONLY", "O_RDWR"}, creat, excl \in BOOLEAN, os \in NewOs :
    LET res == fd_open(env[s], p, acc, creat, excl, {"ur", "uw", "or", "ow"}, os)
        used == res.r >= 0 /\ get_sym_file(env[s], p).df = None
    IN Call(s, "open", 0, 0, res) /\ OsOpened(IF used THEN os ELSE -1)

OpenAt(s) ==
  \E base \in Fds, p \in PathNames, os \in NewOs :
    LET res == fd_openat(env[s], base, p, "O_RDONLY", FALSE, FALSE, {}, os)
        used == res.r >= 0 /\ ~IsSymbolic(res.e, res.r)
    IN Call(s, "openat", 0, 0, res) /\ OsOpened(IF used THEN os ELSE -1)

\* Mutant: the system's descriptor is closed as well.
OsClosedToo(e, fd) == [n \in DOMAIN osoff \ {e.fds[fd].fd} |-> osoff[n]]

\* The call of the system's close is disabled.
OsClosed(e, fd) == osoff
Close(s) ==
  \E fd \in Fds :
    /\ Call(s, "close", fd, 0, close(env[s], fd))
    /\ osoff' = IF get_file(env[s], fd) /\ ~IsSymbolic(env[s], fd) THEN OsClosed(env[s], fd) ELSE osoff

ReadWrite(s) ==
  /\ \E fd \in Fds, count \in {0, 1, FileSize + 2} :
       \/ Call(s, "read", fd, count, read(env[s], fd, count))
       \/ \E d \in Data : Call(s, "write", fd, count, write_fd(env[s], fd, count, d))
  /\ UNCHANGED osoff

\* The system's descriptor is left at the offset reached.
Seek(s) ==
  \E fd \in Fds, offset \in {-1, 1}, whence \in {"SEEK_SET", "SEEK_CUR", "SEEK_END"} :
    LET e == env[s]
        os == e.fds[fd].fd
        concrete == get_file(e, fd) /\ ~IsSymbolic(e, fd)
        res == fd_lseek(e, fd, offset, whence, IF concrete THEN osoff[os] ELSE 0)
        at == IF res.r >= 0 THEN res.r ELSE Positioned(e.fds[fd], whence, osoff[os])
    IN /\ Call(s, whence, fd, offset, res)
       /\ osoff' = IF concrete THEN [osoff EXCEPT ![os] = at] ELSE osoff

\* count leaves room for the symbolic files and the deleted entry.
GetDents(s) ==
  \E fd \in Fds, count \in {SymFiles + 1, Jump} :
    LET e == env[s]
        f == e.fds[fd]
        res == fd_getdents(e, fd, count)
        moved == get_file(e, fd) /\ ~IsSymbolic(e, fd) /\ f.off >= Jump
    IN /\ Call(s, "getdents", fd, count, res)
       /\ osoff' = IF moved THEN [osoff EXCEPT ![f.fd] = res.e.fds[fd].off - Jump] ELSE osoff

Duplicate(s) ==
  /\ \/ \E old, new \in Fds : Call(s, "dup2", old, new, dup2(env[s], old, new))
     \/ \E old \in Fds : Call(s, "dup", old, 0, dup(env[s], old))
  /\ UNCHANGED osoff

Attributes(s) ==
  /\ \/ \E p \in PathNames, perm \in {{}, {"ur", "uw"}} : Call(s, "chmod", 0, 0, chmod(env[s], p, perm, 0))
     \/ \E fd \in Fds : Call(s, "fchmod", fd, 0, fchmod(env[s], fd, {}, 0))
     \/ Call(s, "umask", 0, 0, umask(env[s], {}))
     \/ \E p \in PathNames : Call(s, "rmdir", 0, 0, rmdir(env[s], p))
     \/ \E p \in PathNames : Call(s, "unlink", 0, 0, unlink(env[s], p))
     \/ \E p \in PathNames : Call(s, "unlinkat", 0, 0, unlinkat(env[s], 0, p))
     \/ \E fd \in Fds : Call(s, "ftruncate", fd, 0, fd_ftruncate(env[s], fd, -1))
     \/ \E os \in OsResult : Call(s, "getcwd", 0, 0, getcwd(env[s], os))
     \/ \E fd \in Fds, on \in BOOLEAN : Call(s, "fcntl", fd, 0, fcntl(env[s], fd, "F_SETFD", on, 0))
  /\ UNCHANGED osoff

\* Calls that change nothing but the counters of getcwd.
Query(s) ==
  /\ \E os \in OsResult :
       \/ \E p \in PathNames :
            \E res \in {access(env[s], p, os), fd_stat(env[s], p, os), fd_lstat(env[s], p, os),
                        chdir(env[s], p, os), chown(env[s], p, os), utimes(env[s], p, os),
                        fd_statfs(env[s], p, os), readlink(env[s], p, 2, os),
                        fstatat(env[s], 2, p, os), futimesat(env[s], 1, p, os)} :
              Call(s, "path", 0, 0, res)
       \/ \E fd \in Fds :
            \E res \in {fchdir(env[s], fd, os), fchown(env[s], fd, os), fd_fstat(env[s], fd, os),
                        fstatfs(env[s], fd, os), fsync(env[s], fd, os),
                        fcntl(env[s], fd, "F_GETFD", FALSE, os), ioctl(env[s], fd, "FIONREAD", os),
                        select(env[s], MAX_FDS, {fd}, {0, 3})} :
              Call(s, "fd", 0, 0, res)
       \/ Call(s, "chroot", 0, 0, chroot(env[s], os = 0))
       \/ \E err \in Stubs : Call(s, "stub", 0, 0, IF err = "none" THEN Ok(env[s], 0) ELSE Err(env[s], err))
  /\ UNCHANGED osoff

\* The executor forks a state: memory, and so the runtime's data, is copied.
ForkProcessState(s) ==
  /\ \E t \in State \ running :
       /\ running' = running \cup {t}
       /\ env' = [env EXCEPT ![t] = env[s]]
  /\ UNCHANGED <<osoff, ret, calls>>

FileNext == \E s \in running :
  \/ /\ calls < MaxCalls
     /\ \/ Open(s) \/ OpenAt(s) \/ Close(s) \/ ReadWrite(s) \/ Seek(s) \/ GetDents(s)
        \/ Duplicate(s) \/ Attributes(s) \/ Query(s)
  \/ ForkProcessState(s)

FileSpec == FileInit /\ [][FileNext]_fileVars

-----------------------------------------------------------------------------
\* An open entry that is not symbolic names an open descriptor of the system, whatever
\* states that share it have closed (close, 312-342).
OsDescriptorsValid == \A s \in running, fd \in Fds :
  get_file(env[s], fd) /\ ~IsSymbolic(env[s], fd) => env[s].fds[fd].fd \in DOMAIN osoff

\* A state sees at most --max-fail injected failures, over all kinds of call.
FailuresWithinLimit == \A s \in State : env[s].injected <= MaxFailures

\* Both, whatever calls, failures and forks come in between (fd.c).
FilesConsistent == OsDescriptorsValid /\ FailuresWithinLimit
-----------------------------------------------------------------------------
\* Every step: a seek relative to the current position starts where this state left the
\* descriptor, whatever other states did to the descriptor of the system (__fd_lseek, 488-510).
SeeksAreRelative ==
  ret' # ret /\ ret'.op = "SEEK_CUR" /\ ret'.r >= 0
    => ret'.r = env[ret'.s].fds[ret'.fd].off + ret'.arg

\* A read of a symbolic file copies bytes of the file only, wherever writes and seeks
\* have put the offset (read, 388-405).
CopiesInBounds ==
  LET e == env[ret'.s] IN
    ret' # ret /\ ret'.op = "read" /\ ret'.r # -1 /\ get_file(e, ret'.fd) /\ IsSymbolic(e, ret'.fd)
      => ret'.r >= 0 /\ (ret'.r > 0 => e.fds[ret'.fd].off + ret'.r <= FileSize)

\* After dup2 both descriptors name the same open file at the same offset, even if
\* closing the second failed (dup2, 1128-1151).
DupRefersToSame ==
  LET new == env'[ret'.s].fds[ret'.arg]
      old == env[ret'.s].fds[ret'.fd]
  IN ret' # ret /\ ret'.op = "dup2" /\ ret'.r >= 0 /\ ret'.fd # ret'.arg
       => /\ "eOpen" \in new.flags
          /\ new = [old EXCEPT !.flags = @ \ {"eCloseOnExec"}]

\* What a call promises of the descriptors it is given (__fd_lseek, read, dup2 of fd.c).
FileCallsExact == [][SeeksAreRelative /\ CopiesInBounds /\ DupRefersToSame]_<<ret, env>>
=============================================================================
