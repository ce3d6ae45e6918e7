------------------------------- MODULE Programs -------------------------------
(***************************************************************************)
(* The programs whose threads do not wait for each other's operations: the *)
(* steps of raw_operation, which the interfering threads and the energy    *)
(* benchmark run, and of measured_operation, as the names of actions of    *)
(* SharedBench; the object that the constructor of Action makes and its    *)
(* destructor removes; and supports_energy_measurement.                    *)
(* bench-mmap-2mb is called mmap_2mb, and so on.                           *)
(***************************************************************************)
EXTENDS Sequences

Objects == {"nothing", "file", "rw", "none"}
Mapped == {"rw", "none"}   \* a mapping, with its protection

Program(raw, measured, object, energy) ==
  [raw |-> raw, measured |-> measured, object |-> object, energy |-> energy]

(* SymmetricAction: measured_operation takes the time before and after     *)
(* raw_operation.                                                          *)
Symmetric(raw, measured) == Program(raw, measured, "nothing", TRUE)

SystemCall == Symmetric(<< >>, << "start", "end" >>)
getuid == SystemCall
gettime == SystemCall
pthread_yield == SystemCall

Locking(lock) == Symmetric(<< lock, "unlock" >>, << "start", lock, "unlock", "end" >>)
pthread_mutex == Locking("lock")
pthread_mutex_adaptive == Locking("lock")
pthread_spinlock == Locking("lock")
pthread_rwlock_wr == Locking("lock")
pthread_rwlock_rd == Locking("rdlock")

(* The child takes the time of the end. *)
pthread_create ==
  Program(<< "create", "join" >>, << "start", "create", "join" >>, "nothing", TRUE)

OpenLeaking ==                     \* mutant: measured_operation does not close
  Program(<< "open", "close" >>, << "start", "open", "end" >>, "file", TRUE)
open == Program(<< "open", "close" >>, << "start", "open", "end", "close" >>, "file", TRUE)
close == Program(<< "open", "close" >>, << "open", "start", "close", "end" >>, "file", TRUE)

mprotect ==
  Program(<< "protect_none", "protect_rw" >>,
          << "start", "protect_none", "end", "protect_rw" >>, "rw", TRUE)

(* The page is never readable: the read ends in the handler of SIGSEGV. *)
pagefault_signal ==
  Program(<< "handler_time", "handler_end" >>,
          << "start", "handler_time", "handler_end" >>, "none", TRUE)

PagefaultLeaking(mmap) ==          \* mutant: measured_operation does not unmap
  Program(<< mmap, "touch", "munmap" >>, << mmap, "start", "touch", "end" >>, "nothing", TRUE)
Pagefault(mmap) ==
  Program(<< mmap, "touch", "munmap" >>,
          << mmap, "start", "touch", "end", "munmap" >>, "nothing", TRUE)
pagefault_small == Pagefault("mmap")
pagefault_large == Pagefault("mmap_huge")

(* With MAP_POPULATE or without, mmap takes all the huge pages it needs.   *)
Mmap(mmap) ==
  Program(<< mmap, "munmap" >>, << "start", mmap, "end", "munmap" >>, "nothing", FALSE)
mmap_4kb == Mmap("mmap")
mmap_2mb == Mmap("mmap_huge")
mmap_populate_4kb == Mmap("mmap")
mmap_populate_2mb == Mmap("mmap_huge")

Munmap(mmap) ==
  Program(<< mmap, "munmap" >>, << mmap, "start", "munmap", "end" >>, "nothing", FALSE)
munmap_4kb == Munmap("mmap")
munmap_2mb == Munmap("mmap_huge")
munmap_populated_4kb == Munmap("mmap")
munmap_populated_2mb == Munmap("mmap_huge")

MmapMunmap(mmap) ==
  Program(<< mmap, "munmap" >>, << "start", mmap, "munmap", "end" >>, "nothing", TRUE)
mmap_munmap_4kb == MmapMunmap("mmap")
mmap_munmap_2mb == MmapMunmap("mmap_huge")
mmap_populate_munmap_4kb == MmapMunmap("mmap")
mmap_populate_munmap_2mb == MmapMunmap("mmap_huge")

Programs ==
  [ getuid |-> getuid, gettime |-> gettime, pthread_yield |-> pthread_yield,
    pthread_mutex |-> pthread_mutex, pthread_mutex_adaptive |-> pthread_mutex_adaptive,
    pthread_spinlock |-> pthread_spinlock, pthread_rwlock_rd |-> pthread_rwlock_rd,
    pthread_rwlock_wr |-> pthread_rwlock_wr, pthread_create |-> pthread_create,
    open |-> open, close |-> close, mprotect |-> mprotect,
    pagefault_signal |-> pagefault_signal, pagefault_small |-> pagefault_small,
    pagefault_large |-> pagefault_large,
    mmap_4kb |-> mmap_4kb, mmap_2mb |-> mmap_2mb,
    mmap_populate_4kb |-> mmap_populate_4kb, mmap_populate_2mb |-> mmap_populate_2mb,
    munmap_4kb |-> munmap_4kb, munmap_2mb |-> munmap_2mb,
    munmap_populated_4kb |-> munmap_populated_4kb,
    munmap_populated_2mb |-> munmap_populated_2mb,
    mmap_munmap_4kb |-> mmap_munmap_4kb, mmap_munmap_2mb |-> mmap_munmap_2mb,
    mmap_populate_munmap_4kb |-> mmap_populate_munmap_4kb,
    mmap_populate_munmap_2mb |-> mmap_populate_munmap_2mb ]

ProgramNames == DOMAIN Programs
EnergyPrograms == { p \in ProgramNames : Programs[p].energy }
=============================================================================
