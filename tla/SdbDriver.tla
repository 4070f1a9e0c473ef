------------------------------ MODULE SdbDriver ------------------------------
(***************************************************************************)
(* The kernel module rpmsg_sdb (0_kernel_modules/rpmsg_sdb/                *)
(* stm32_rpmsg_sdb.c): a list of shared buffers that user threads fill in  *)
(* through open, ioctl, mmap and close while the rpmsg callback, which     *)
(* takes no lock, walks it to record what the coprocessor wrote.           *)
(*                                                                         *)
(* Only RPMSG_SDB_IOCTL_SET_EFD takes the mutex.  Every other operation is *)
(* split where another thread can see it half done.  The coprocessor is    *)
(* what main.c of the firmware makes of it: it accepts buffers in the      *)
(* order of their indices, never forgets one, and announces them when the  *)
(* application asks for it.                                                *)
(***************************************************************************)
EXTENDS Integers, Sequences

CONSTANTS
  Setters,     \* threads that set buffers up: SET_EFD and mmap (main of the application)
  Readers,     \* threads that ask for sizes (sdb_thread of the application)
  BufSize,     \* size a mapping gets: whole pages, here in units of a page
  Sizes,       \* sizes the coprocessor may announce
  MaxObj,      \* bound: buffer entries ever created
  MaxMem,      \* bound: DMA memory ever allocated
  MaxMsgs,     \* bound: announcements of the coprocessor
  MaxSessions, \* bound: times the device file is opened
  MayFail,     \* whether user copies, dma_alloc_wc, remap_pfn_range and rpmsg_send may fail
  FwRestarts,  \* whether the firmware is restarted between two sessions
  Handshake,   \* whether a new announcement waits until the last size was read
  ReadersWait  \* whether a thread asks for a size only after the event of its buffer

Threads == Setters \cup Readers
Nobody  == "nobody"

ASSUME SdbAssumption ==
  /\ Nobody \notin Threads
  /\ BufSize \in Nat \ {0}
  /\ Sizes \subseteq Nat
  /\ MaxObj \in Nat /\ MaxMem \in Nat /\ MaxMsgs \in Nat /\ MaxSessions \in Nat
  /\ MayFail \in BOOLEAN /\ FwRestarts \in BOOLEAN /\ Handshake \in BOOLEAN
  /\ ReadersWait \in BOOLEAN

VARIABLES
  isOpen,        \* the device file is open
  buffer_list,   \* the entries, in list order
  entry,         \* the entries ever created: what kmalloc returned
  created,       \* number of them
  LastBufferId,
  mutex,         \* its holder, or Nobody
  dma,           \* DMA memory now allocated
  memories,      \* number of allocations ever made
  thr,           \* per thread: where it is, its entry and its size
  cb,            \* the rpmsg callback: where it is, its entry and its size
  toM4,          \* buffer messages under way to the coprocessor
  m4Bufs,        \* sessions of the buffers the coprocessor accepted, in order
  fromM4,        \* announcements under way to the driver
  session,       \* history: number of opens
  announced,     \* history: number of announcements
  taken,         \* history: number of announced sizes returned to the user
  refused,       \* history: announcements of this session turned down
  badFree,       \* history: number of closes that freed memory never allocated
  overwritten    \* history: DMA memory whose address a second mmap overwrote

listVars == <<buffer_list, entry, created, LastBufferId>>
memVars  == <<dma, memories, badFree, overwritten>>
linkVars == <<toM4, m4Bufs, fromM4, announced>>
histVars == <<session, taken, refused>>
vars == <<isOpen, listVars, mutex, memVars, thr, cb, linkVars, histVars>>

None    == -1            \* writing_size when nothing was written: (size_t)-1
Garbage == -2            \* what kmalloc leaves in a field
NoMem   == 0             \* vaddr NULL
Idle    == [at |-> "idle", obj |-> 0, val |-> 0]

\* A field read before it was set: the buffer size is then anything.
FitsIn(n, size) == size = Garbage \/ n =< size
Exceeds(n, size) == size = Garbage \/ n > size

Init ==
  /\ isOpen = FALSE
  /\ buffer_list = <<>> /\ entry = <<>> /\ created = 0 /\ LastBufferId = 0
  /\ mutex = Nobody
  /\ dma = {} /\ memories = 0 /\ badFree = 0 /\ overwritten = {}
  /\ thr = [t \in Threads |-> Idle]
  /\ cb = Idle
  /\ toM4 = <<>> /\ m4Bufs = <<>> /\ fromM4 = <<>> /\ announced = 0
  /\ session = 0 /\ taken = 0 /\ refused = 0

------------------------------------------------------------------------------
(* File operations.  A thread inside one of them keeps the file open.       *)

rpmsg_sdb_open ==
  /\ ~isOpen
  /\ session < MaxSessions
  /\ FwRestarts => m4Bufs = <<>> /\ toM4 = <<>> /\ fromM4 = <<>>
  /\ isOpen' = TRUE
  /\ buffer_list' = <<>>
  /\ mutex' = Nobody
  /\ session' = session + 1
  /\ refused' = 0
  /\ UNCHANGED <<entry, created, LastBufferId, memVars, thr, cb, linkVars, taken>>

Start(t, at, obj, val) == thr' = [thr EXCEPT ![t] = [at |-> at, obj |-> obj, val |-> val]]
Finish(t) == thr' = [thr EXCEPT ![t] = Idle]
CanEnter(t) == isOpen /\ thr[t].at = "idle"
LastEntry == buffer_list[Len(buffer_list)]
Listed == {buffer_list[i] : i \in DOMAIN buffer_list}

\* Mutant: the mutex is not taken.
SetEfdUnlocked(t) ==
  /\ t \in Setters /\ CanEnter(t)
  /\ created < MaxObj
  /\ Start(t, "setefd", 0, IF buffer_list = <<>> THEN 0 ELSE entry[LastEntry].index + 1)
  /\ UNCHANGED <<isOpen, listVars, mutex, memVars, cb, linkVars, histVars>>

\* RPMSG_SDB_IOCTL_SET_EFD: the next index is computed under the mutex ...
SetEfd(t) ==
  /\ t \in Setters /\ CanEnter(t)
  /\ mutex = Nobody
  /\ created < MaxObj
  /\ mutex' = t
  /\ Start(t, "setefd", 0, IF buffer_list = <<>> THEN 0 ELSE entry[LastEntry].index + 1)
  /\ UNCHANGED <<isOpen, listVars, memVars, cb, linkVars, histVars>>

\* Mutant: the entry is numbered from one less.
SetEfdAddLess(t) ==
  /\ thr[t].at = "setefd"
  /\ entry' = Append(entry, [index |-> thr[t].val - 1, size |-> Garbage, ws |-> Garbage,
                             vaddr |-> Garbage, events |-> 0, written |-> None,
                             session |-> session, freed |-> FALSE])
  /\ created' = created + 1
  /\ buffer_list' = Append(buffer_list, created + 1)
  /\ mutex' = Nobody
  /\ Finish(t)
  /\ UNCHANGED <<isOpen, LastBufferId, memVars, cb, linkVars, histVars>>

\* ... and the entry is added; kmalloc clears nothing.
SetEfdAdd(t) ==
  /\ thr[t].at = "setefd"
  /\ entry' = Append(entry, [index |-> thr[t].val, size |-> Garbage, ws |-> Garbage,
                             vaddr |-> Garbage, events |-> 0, written |-> None,
                             session |-> session, freed |-> FALSE])
  /\ created' = created + 1
  /\ buffer_list' = Append(buffer_list, created + 1)
  /\ mutex' = Nobody
  /\ Finish(t)
  /\ UNCHANGED <<isOpen, LastBufferId, memVars, cb, linkVars, histVars>>

\* copy_from_user fails: -EFAULT, with the mutex released and nothing created.
SetEfdFault(t) ==
  /\ MayFail
  /\ thr[t].at = "setefd"
  /\ mutex' = Nobody
  /\ Finish(t)
  /\ UNCHANGED <<isOpen, listVars, memVars, cb, linkVars, histVars>>

\* The kernel lets one thread of a process map at a time.
MayMap(t) ==
  /\ t \in Setters /\ CanEnter(t)
  /\ \A u \in Threads : thr[u].at \notin {"mapped", "sent"}
  /\ buffer_list # <<>>

\* rpmsg_sdb_mmap works on the last entry, whichever thread created it.
Mmap(t) ==
  /\ MayMap(t)
  /\ memories < MaxMem
  /\ memories' = memories + 1
  /\ dma' = dma \cup {memories + 1}
  /\ overwritten' = overwritten \cup (dma \cap {entry[LastEntry].vaddr})
  /\ entry' = [entry EXCEPT ![LastEntry].size = BufSize, ![LastEntry].ws = None,
                            ![LastEntry].vaddr = memories + 1]
  /\ Start(t, "mapped", LastEntry, 0)
  /\ UNCHANGED <<isOpen, buffer_list, created, LastBufferId, mutex, cb, badFree, linkVars, histVars>>

\* dma_alloc_wc fails: -ENOMEM.
MmapNoMemory(t) ==
  /\ MayFail
  /\ MayMap(t)
  /\ overwritten' = overwritten \cup (dma \cap {entry[LastEntry].vaddr})
  /\ entry' = [entry EXCEPT ![LastEntry].size = BufSize, ![LastEntry].ws = None,
                            ![LastEntry].vaddr = NoMem]
  /\ UNCHANGED <<isOpen, buffer_list, created, LastBufferId, mutex, thr, cb, dma,
                 memories, badFree, linkVars, histVars>>

\* Mutant: the memory is freed on the way out, and the entry still points to it.
MmapNoRemapFreed(t) ==
  /\ MayFail
  /\ thr[t].at = "mapped"
  /\ dma' = dma \ {entry[thr[t].obj].vaddr}
  /\ Finish(t)
  /\ UNCHANGED <<isOpen, listVars, mutex, memories, badFree, overwritten, cb, linkVars, histVars>>

\* remap_pfn_range fails: -EAGAIN, and the coprocessor is not told.
MmapNoRemap(t) ==
  /\ MayFail
  /\ thr[t].at = "mapped"
  /\ Finish(t)
  /\ UNCHANGED <<isOpen, listVars, mutex, memVars, cb, linkVars, histVars>>

\* rpmsg_sdb_send_buf_info.
MmapSend(t) ==
  /\ thr[t].at = "mapped"
  /\ toM4' = Append(toM4, [index |-> entry[thr[t].obj].index, session |-> session])
  /\ Start(t, "sent", thr[t].obj, 0)
  /\ UNCHANGED <<isOpen, listVars, mutex, memVars, cb, m4Bufs, fromM4, announced, histVars>>

\* rpmsg_send fails: nobody looks at the result, and the mapping succeeds.
MmapSendFails(t) ==
  /\ MayFail
  /\ thr[t].at = "mapped"
  /\ Start(t, "sent", thr[t].obj, 0)
  /\ UNCHANGED <<isOpen, listVars, mutex, memVars, cb, linkVars, histVars>>

\* The counter follows the message: the answer may overtake it.
MmapCount(t) ==
  /\ thr[t].at = "sent"
  /\ LastBufferId' = LastBufferId + 1
  /\ Finish(t)
  /\ UNCHANGED <<isOpen, buffer_list, entry, created, mutex, memVars, cb, linkVars, histVars>>

\* The entry the search of GET_DATA_SIZE ends on: the match, or the last one.
Search(idx) ==
  IF \E o \in Listed : entry[o].index = idx
  THEN CHOOSE o \in Listed : entry[o].index = idx
  ELSE LastEntry

\* The application waits for the event of a buffer and clears it before it asks
\* for the size; the driver answers at any time.
Awaited(o) ==
  IF ReadersWait
  THEN entry[o].events > 0 /\ entry' = [entry EXCEPT ![o].events = 0]
  ELSE UNCHANGED entry

\* RPMSG_SDB_IOCTL_GET_DATA_SIZE.  No lock is taken.
GetDataSize(t) ==
  /\ t \in Readers /\ CanEnter(t)
  /\ \E o \in Listed : Awaited(o) /\ Start(t, "found", Search(entry[o].index), 0)
  /\ UNCHANGED <<isOpen, buffer_list, created, LastBufferId, mutex, memVars, cb, linkVars, histVars>>

GetRead(t) ==
  /\ thr[t].at = "found"
  /\ Start(t, "got", thr[t].obj, entry[thr[t].obj].ws)
  /\ UNCHANGED <<isOpen, listVars, mutex, memVars, cb, linkVars, histVars>>

\* The size has been copied to the user; only now is it reset.
GetReset(t) ==
  /\ thr[t].at = "got"
  /\ entry' = [entry EXCEPT ![thr[t].obj].ws = None]
  /\ taken' = IF thr[t].val \in {None, Garbage} THEN taken ELSE taken + 1
  /\ Finish(t)
  /\ UNCHANGED <<isOpen, buffer_list, created, LastBufferId, mutex, memVars, cb, linkVars,
                 session, refused>>

\* copy_to_user fails: -EFAULT, and the size is kept.
GetFault(t) ==
  /\ MayFail
  /\ thr[t].at = "got"
  /\ Finish(t)
  /\ UNCHANGED <<isOpen, listVars, mutex, memVars, cb, linkVars, histVars>>

\* Mutant: the memory of the first entry only is freed.
ReleasedFirst == {entry[Head(buffer_list)].vaddr : i \in DOMAIN buffer_list}

\* What close hands to dma_free_wc.
Released == {entry[o].vaddr : o \in Listed}

\* rpmsg_sdb_close, when the last reference to the file is gone.
rpmsg_sdb_close ==
  /\ isOpen
  /\ \A t \in Threads : thr[t].at = "idle"
  /\ dma' = dma \ Released
  /\ badFree' = IF Released \subseteq dma THEN badFree ELSE badFree + 1
  /\ entry' = [o \in DOMAIN entry |-> [entry[o] EXCEPT !.freed = @ \/ o \in Listed]]
  /\ isOpen' = FALSE
  /\ buffer_list' = <<>>
  /\ LastBufferId' = 0
  /\ UNCHANGED <<created, mutex, memories, overwritten, thr, cb, linkVars, histVars>>

------------------------------------------------------------------------------
(* The rpmsg callback, rpmsg_sdb_drv_cb.                                    *)

\* Mutant: the comparison is off by one.
TooHighByOne(m) == m.index >= LastBufferId

\* LastBufferId counts the buffers mapped: an index equal to it still passes.
TooHigh(m) == m.index > LastBufferId

\* The message is decoded; an index above the counter is turned down, and one
\* that no entry has is dropped silently.
CbReceive ==
  /\ cb.at = "idle"
  /\ fromM4 # <<>>
  /\ fromM4' = Tail(fromM4)
  /\ LET m == Head(fromM4)
         match == {o \in Listed : entry[o].index = m.index}
     IN /\ cb' = IF TooHigh(m) \/ match = {} THEN Idle
                 ELSE [at |-> "found", obj |-> CHOOSE o \in match : TRUE, val |-> m.size]
        /\ refused' = IF TooHigh(m) /\ isOpen /\ m.session = session
                      THEN refused + 1 ELSE refused
  /\ UNCHANGED <<isOpen, listVars, mutex, memVars, thr, toM4, m4Bufs, announced, session, taken>>

\* Mutant: the event is signalled before the size is recorded.
CbWriteAfter ==
  /\ cb.at = "found"
  /\ entry' = [entry EXCEPT ![cb.obj].events = @ + 1, ![cb.obj].written = cb.val]
  /\ cb' = [cb EXCEPT !.at = "signal"]
  /\ UNCHANGED <<isOpen, buffer_list, created, LastBufferId, mutex, memVars, thr, linkVars, histVars>>

\* The size is recorded before it is compared with that of the buffer.
CbWrite ==
  /\ cb.at = "found"
  /\ entry' = [entry EXCEPT ![cb.obj].ws = cb.val]
  /\ \/ FitsIn(cb.val, entry[cb.obj].size) /\ cb' = [cb EXCEPT !.at = "signal"]
     \/ Exceeds(cb.val, entry[cb.obj].size) /\ cb' = Idle
  /\ UNCHANGED <<isOpen, buffer_list, created, LastBufferId, mutex, memVars, thr, linkVars, histVars>>

\* Mutant: the event is not signalled.
CbSignalLost ==
  /\ cb.at = "signal"
  /\ cb' = Idle
  /\ UNCHANGED <<isOpen, listVars, mutex, memVars, thr, linkVars, histVars>>

\* eventfd_signal.
CbSignal ==
  /\ cb.at = "signal"
  /\ entry' = [entry EXCEPT ![cb.obj].events = @ + 1, ![cb.obj].written = cb.val]
  /\ cb' = Idle
  /\ UNCHANGED <<isOpen, buffer_list, created, LastBufferId, mutex, memVars, thr, linkVars, histVars>>

------------------------------------------------------------------------------
(* The coprocessor, as the firmware behaves.                                *)

\* treatSDBEvent: only the index awaited is accepted.
M4Accept ==
  /\ toM4 # <<>>
  /\ toM4' = Tail(toM4)
  /\ m4Bufs' = IF Head(toM4).index = Len(m4Bufs)
               THEN Append(m4Bufs, Head(toM4).session) ELSE m4Bufs
  /\ UNCHANGED <<isOpen, listVars, mutex, memVars, thr, cb, fromM4, announced, histVars>>

\* The application asks for the next buffer once it has the size of the last.
AllRead == /\ fromM4 = <<>> /\ cb.at = "idle"
           /\ \A o \in Listed : entry[o].events = 0
           /\ \A t \in Threads : thr[t].at \notin {"found", "got"}

M4Announce ==
  /\ announced < MaxMsgs
  /\ Handshake => AllRead
  /\ \E i \in DOMAIN m4Bufs, n \in Sizes :
       fromM4' = Append(fromM4, [index |-> i - 1, size |-> n, session |-> m4Bufs[i]])
  /\ announced' = announced + 1
  /\ UNCHANGED <<isOpen, listVars, mutex, memVars, thr, cb, toM4, m4Bufs, histVars>>

\* The firmware is stopped and started again; the channel is removed with it.
M4Restart ==
  /\ ~isOpen /\ cb.at = "idle"
  /\ m4Bufs # <<>> \/ toM4 # <<>> \/ fromM4 # <<>>
  /\ m4Bufs' = <<>> /\ toM4' = <<>> /\ fromM4' = <<>>
  /\ UNCHANGED <<isOpen, listVars, mutex, memVars, thr, cb, announced, histVars>>

------------------------------------------------------------------------------
Setup(t) == \/ SetEfd(t) \/ SetEfdAdd(t) \/ SetEfdFault(t)
            \/ Mmap(t) \/ MmapNoMemory(t) \/ MmapNoRemap(t)
            \/ MmapSend(t) \/ MmapSendFails(t) \/ MmapCount(t)
Get(t) == GetDataSize(t) \/ GetRead(t) \/ GetReset(t) \/ GetFault(t)
Callback == CbReceive \/ CbWrite \/ CbSignal

Next == \/ rpmsg_sdb_open \/ rpmsg_sdb_close
        \/ \E t \in Threads : Setup(t) \/ Get(t)
        \/ Callback
        \/ M4Accept \/ M4Announce \/ M4Restart

Spec == Init /\ [][Next]_vars

\* The callback runs on a kernel worker, and sdb_thread polls for ever.
FairSpec == Spec /\ WF_vars(Callback) /\ \A t \in Readers : WF_vars(Get(t))

------------------------------------------------------------------------------
(* Properties.                                                              *)

Entry == [index : Nat, size : {BufSize, Garbage}, ws : Sizes \cup {None, Garbage},
          vaddr : Nat \cup {Garbage}, events : Nat, written : Sizes \cup {None},
          session : Nat, freed : BOOLEAN]

TypeOK ==
  /\ isOpen \in BOOLEAN
  /\ created \in 0 .. MaxObj /\ entry \in Seq(Entry) /\ Len(entry) = created
  /\ buffer_list \in Seq(1 .. created)
  /\ LastBufferId \in Nat /\ mutex \in Threads \cup {Nobody}
  /\ memories \in 0 .. MaxMem /\ dma \subseteq 1 .. memories /\ overwritten \subseteq 1 .. memories
  /\ \A t \in Threads : /\ thr[t].at \in {"idle", "setefd", "mapped", "sent", "found", "got"}
                        /\ thr[t].obj \in 0 .. created
  /\ cb.at \in {"idle", "found", "signal"} /\ cb.obj \in 0 .. created
  /\ toM4 \in Seq([index : Nat, session : Nat]) /\ m4Bufs \in Seq(Nat)
  /\ fromM4 \in Seq([index : Nat, size : Sizes, session : Nat])
  /\ announced \in 0 .. MaxMsgs
  /\ session \in Nat /\ taken \in Nat /\ refused \in Nat /\ badFree \in Nat

\* The index of an entry is its place in the list, which is the order in which
\* the coprocessor wants them, even when threads create entries together.
IndexIsPosition == \A i \in DOMAIN buffer_list : entry[buffer_list[i]].index = i - 1

\* With one reader, which waits, and the handshake, and unless a buffer is mapped a second
\* time (rpmsg_sdb_mmap resets its size at any moment), the size returned after an event is the
\* size the coprocessor wrote, and it fits the buffer: the callback never
\* signals before the size is there, the reset never destroys a newer one.
SizeIsTheOneWritten ==
  \A t \in Threads : thr[t].at = "got" /\ overwritten = {} =>
     /\ thr[t].val = entry[thr[t].obj].written
     /\ thr[t].val \in 0 .. BufSize

\* An announcement for a buffer of this session is never turned down, though
\* LastBufferId is incremented only after the coprocessor has been told.
NeverRefused == refused = 0

\* Closing leaves no DMA memory behind, but for what a second mmap of the same
\* entry had already lost.
OnlyOverwrittenLeaks == ~isOpen => dma \subseteq overwritten

\* An announcement that passes the tests of the callback is read by the user,
\* unless the device is closed first.
EventServed == cb.at = "signal" ~> (\E t \in Readers : thr[t].at = "got") \/ ~isOpen

\* stm32_rpmsg_sdb.c:56 "mutex to protect the ioctls": a size that was written
\* once is handed out once.
SizeTakenOnce == taken =< announced

\* Close frees each DMA memory once, and no other address, through failed,
\* repeated and interleaved mmaps, as long as every entry got past its
\* dma_alloc_wc (an entry that did not is freed with what kmalloc left in it, or
\* with NULL).
OtherwiseFreedOnce ==
  [][badFree' > badFree => \E o \in Listed : entry[o].vaddr \in {Garbage, NoMem}]_vars
==============================================================================
