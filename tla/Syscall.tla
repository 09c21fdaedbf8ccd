------------------------------ MODULE Syscall ------------------------------
(***************************************************************************)
(* kernel/syscall.go: the table of the system calls, and what each of the  *)
(* handlers can come to: its errno, its result, and the component in whose *)
(* map it writes on the way, which panics if the map is nil.               *)
(***************************************************************************)
Component == {"fcntl", "futex", "signal"}

Errno ==
  {"0", "EACCES", "EAFNOSUPPORT", "EAGAIN", "EBADF", "EEXIST", "EFAULT", "EINTR",
   "EINVAL", "EIO", "EMFILE", "ENODEV", "ENOENT", "ENOSYS", "ENOTDIR", "ENOTTY",
   "EPERM", "ETIMEDOUT"}

Outcomes == [err : Errno, ret : {"-1", "value", "panic"}, map : Component \cup {"none"}]

Outcome(e, r, m) == [err |-> e, ret |-> r, map |-> m]

\* ctx.SetErrno(e), return -1.
Fails(errnos) == {Outcome(e, "-1", "none") : e \in errnos}

\* A result and no errno, after a write in the map of m.
Writes(m) == {Outcome("0", "value", m)}

Succeeds == Writes("none")

\* The panics of what is not implemented, which are not caught.
Panics == {Outcome("0", "panic", "none")}

\* The host's or the guest's -1 handed on, with no errno.
HandsOn == {Outcome("0", "-1", "none")}

Reject == Fails({"ENOSYS"})

Ignore == Succeeds

\* Errors of looking up a path below a directory descriptor.
PathErrors == {"ENOENT", "EBADF", "ENOTDIR"}

dup3 == Fails({"EBADF"}) \cup Writes("fcntl")

fcntl == Fails({"EBADF"}) \cup Writes("fcntl") \cup Succeeds \cup HandsOn \cup Panics

faccessat == Fails(PathErrors) \cup Succeeds

open == Fails({"ENOENT", "EEXIST"}) \cup Writes("fcntl")

openat == Fails(PathErrors \cup {"EEXIST"}) \cup Writes("fcntl")

close == Fails({"EBADF"}) \cup Succeeds

pipe2 == Fails({"EMFILE"}) \cup Writes("fcntl")

lseek == Fails({"EBADF", "EINVAL"}) \cup Succeeds

read == Fails({"EBADF", "EINTR", "EIO"}) \cup Succeeds

write == Fails({"EBADF", "EINTR", "EIO"}) \cup Succeeds

\* make panics for a negative iovcnt.
writev == Fails({"EBADF", "EINTR", "EIO"}) \cup Succeeds \cup Panics

\* Without a directory the file system itself must know links, or it panics.
readlinkat == Fails(PathErrors \cup {"EINVAL"}) \cup Succeeds \cup Panics

fstatat3264 == Fails(PathErrors) \cup Succeeds

fstatat64 == Fails(PathErrors) \cup Succeeds

fstat3264 == Fails({"EBADF", "ENOENT"}) \cup Succeeds

fstat64 == Fails({"EBADF", "ENOENT"}) \cup Succeeds

ioctl == Fails({"EBADF", "EINVAL", "ENOTTY"}) \cup Succeeds

socket == Fails({"EAFNOSUPPORT", "EACCES"}) \cup Succeeds \cup Panics

\* A wait that is not refused writes in the map, whatever it returns later; a
\* requeue panics, and so does a wake that finds its channel closed.
futex ==
  Fails({"EFAULT", "EAGAIN", "ENOSYS"}) \cup Succeeds \cup Panics
    \cup Writes("futex") \cup {Outcome(e, "-1", "futex") : e \in {"EFAULT", "ETIMEDOUT", "EPERM"}}

rt_sigaction == Fails({"EFAULT"}) \cup Writes("signal")

rt_sigprocmask == Fails({"EFAULT", "EINVAL"}) \cup Succeeds

rt_tgsigqueueinfo == Fails({"EFAULT"}) \cup Panics

clone == Fails({"EAGAIN"}) \cup Succeeds

execve == Fails({"ENOSYS"})

munmap == Fails({"EINVAL"}) \cup Succeeds

\* make panics for an offset it cannot allocate, where the file cannot seek.
mmap == Fails({"EBADF", "ENODEV", "EINVAL"}) \cup Succeeds \cup Panics

mprotect == Fails({"EINVAL"}) \cup Succeeds

sysinfo == Fails({"EINVAL"}) \cup Succeeds

clock_gettime == HandsOn \cup Succeeds

gettimeofday == Succeeds

getrandom == Fails({"EAGAIN"}) \cup Succeeds

prctl == Fails({"EINVAL"}) \cup Succeeds

getpid == Succeeds

gettid == Succeeds

getrlimit == Succeeds

setrlimit == Succeeds

exit == Panics

\* Syscall.Get: the handlers by number.  A number that is not here has none,
\* and the hook passes the interrupt on without touching anything.
Get ==
  [dup3 |-> dup3, fcntl |-> fcntl, ioctl |-> ioctl, faccessat |-> faccessat,
   open |-> open, openat |-> openat, close |-> close, pipe2 |-> pipe2,
   lseek |-> lseek, read |-> read, write |-> write, writev |-> writev,
   readlinkat |-> readlinkat, fstatat64 |-> fstatat3264 \cup fstatat64,
   fstat64 |-> fstat3264 \cup fstat64, exit |-> exit, exit_group |-> exit,
   futex |-> futex, clock_gettime |-> clock_gettime, sigaltstack |-> Ignore,
   rt_sigaction |-> rt_sigaction, rt_sigprocmask |-> rt_sigprocmask,
   getrlimit |-> getrlimit, setrlimit |-> setrlimit, prctl |-> prctl,
   gettimeofday |-> gettimeofday, getpid |-> getpid, getuid |-> Ignore,
   geteuid |-> Ignore, gettid |-> gettid, sysinfo |-> sysinfo, socket |-> socket,
   munmap |-> munmap, clone |-> clone, execve |-> execve, mmap |-> mmap,
   mmap2 |-> mmap, mprotect |-> mprotect, madvise |-> Reject,
   rt_tgsigqueueinfo |-> rt_tgsigqueueinfo, getrandom |-> getrandom,
   NR_reject |-> Reject, NR_ignore |-> Ignore]

\* The calls whose result may be -1 without an errno.
Silent == {"clock_gettime", "fcntl"}
=============================================================================
