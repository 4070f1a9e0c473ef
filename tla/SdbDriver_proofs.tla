-------------------------- MODULE SdbDriver_proofs --------------------------
(***************************************************************************)
(* Proofs about SdbDriver: the numbering of the entries, the memory that   *)
(* close frees, the announcements and the sizes, for any number of         *)
(* threads, entries, sessions and messages.                                *)
(*                                                                         *)
(* The invariant is built in three layers, each inductive on top of the    *)
(* one before: the list and its memory (ListInv), what the coprocessor has *)
(* been told of it (CountInv, when the firmware restarts with the file),   *)
(* and the one announcement under way (TokenInv, with the handshake of the *)
(* application and one reader, which waits).                              *)
(***************************************************************************)
EXTENDS SdbDriver, TLAPS

ThrPlaces == {"idle", "setefd", "mapped", "sent", "found", "got"}
Thr == [at : ThrPlaces, obj : Nat, val : Int]
BufMsg == [index : Nat, session : Nat]
Announcement == [index : Nat, size : Sizes, session : Nat]
Cb == [at : {"idle", "found", "signal"}, obj : Nat, val : Nat]

\* A thread inside the driver keeps the file open, one that adds an entry holds
\* the mutex, and one that works on an entry works on one that was created.
ThrTyped ==
  /\ thr \in [Threads -> Thr] /\ cb \in Cb
  /\ \A t \in Threads :
       /\ thr[t].obj \in 0 .. created
       /\ thr[t].at # "idle" => isOpen
       /\ thr[t].at = "setefd" => mutex = t /\ thr[t].val \in Nat /\ created < MaxObj
       /\ thr[t].at \in {"mapped", "sent", "found", "got"} => thr[t].obj \in 1 .. created
  /\ cb.obj \in 0 .. created
  /\ cb.at # "idle" => cb.obj \in 1 .. created /\ cb.val \in Sizes

Typed == TypeOK /\ ThrTyped

------------------------------------------------------------------------------
(* Sequences seen as functions.                                             *)

LEMMA SeqFun ==
  ASSUME NEW S, NEW s, NEW n \in Nat
  PROVE  s \in Seq(S) /\ Len(s) = n <=> s \in [1 .. n -> S]
  OBVIOUS

LEMMA SeqTail ==
  ASSUME NEW S, NEW s \in Seq(S), s # <<>>
  PROVE  /\ Head(s) \in S /\ Head(s) = s[1] /\ Tail(s) \in Seq(S) /\ Len(Tail(s)) = Len(s) - 1
         /\ Len(s) \in Nat \ {0}
         /\ \A i \in 1 .. Len(s) - 1 : Tail(s)[i] = s[i + 1]
  OBVIOUS

LEMMA SeqAppend ==
  ASSUME NEW S, NEW s \in Seq(S), NEW e
  PROVE  /\ Len(Append(s, e)) = Len(s) + 1 /\ Len(s) \in Nat
         /\ Append(s, e)[Len(s) + 1] = e
         /\ \A i \in 1 .. Len(s) : Append(s, e)[i] = s[i]
         /\ DOMAIN s = 1 .. Len(s) /\ DOMAIN Append(s, e) = 1 .. (Len(s) + 1)
  OBVIOUS

LEMMA SeqDomain ==
  ASSUME NEW S, NEW s \in Seq(S)
  PROVE  Len(s) \in Nat /\ DOMAIN s = 1 .. Len(s) /\ \A i \in 1 .. Len(s) : s[i] \in S
  OBVIOUS

LEMMA EntryFun == Typed => entry \in [1 .. created -> Entry] /\ DOMAIN entry = 1 .. created
                           /\ created \in Nat
  BY SeqFun, SdbAssumption DEF Typed, TypeOK

LEMMA ListedCreated == Typed => Listed \subseteq 1 .. created
                                /\ (buffer_list # <<>> => LastEntry \in Listed)
  BY DEF Typed, TypeOK, Listed, LastEntry

\* The updates the driver makes to one entry.
LEMMA Update ==
  ASSUME NEW n \in Nat, NEW f \in [1 .. n -> Entry], NEW o \in 1 .. n
  PROVE  /\ [f EXCEPT ![o].events = 0] \in [1 .. n -> Entry]
         /\ \A v \in Sizes \cup {None} : [f EXCEPT ![o].ws = v] \in [1 .. n -> Entry]
         /\ \A v \in Sizes :
              [f EXCEPT ![o].events = @ + 1, ![o].written = v] \in [1 .. n -> Entry]
         /\ \A v \in Nat :
              [f EXCEPT ![o].size = BufSize, ![o].ws = None, ![o].vaddr = v] \in [1 .. n -> Entry]
  <1>1. [f EXCEPT ![o].events = 0] \in [1 .. n -> Entry]
    BY DEF Entry
  <1>2. ASSUME NEW v \in Sizes \cup {None} PROVE [f EXCEPT ![o].ws = v] \in [1 .. n -> Entry]
    BY DEF Entry
  <1>3. ASSUME NEW v \in Sizes
        PROVE  [f EXCEPT ![o].events = @ + 1, ![o].written = v] \in [1 .. n -> Entry]
    <2>1. [f[o] EXCEPT !.events = @ + 1, !.written = v] \in Entry
      <3>1. f[o] \in Entry /\ f[o].events + 1 \in Nat
        BY DEF Entry
      <3>2. \A e \in Entry, k \in Nat : [e EXCEPT !.events = k, !.written = v] \in Entry
        BY DEF Entry
      <3> QED
        BY <3>1, <3>2
    <2>2. [f EXCEPT ![o].events = @ + 1, ![o].written = v]
            = [f EXCEPT ![o] = [f[o] EXCEPT !.events = @ + 1, !.written = v]]
      OBVIOUS
    <2> QED
      BY <2>1, <2>2
  <1>4. ASSUME NEW v \in Nat
        PROVE  [f EXCEPT ![o].size = BufSize, ![o].ws = None, ![o].vaddr = v] \in [1 .. n -> Entry]
    <2>1. [f[o] EXCEPT !.size = BufSize, !.ws = None, !.vaddr = v] \in Entry
      BY DEF Entry
    <2>2. [f EXCEPT ![o].size = BufSize, ![o].ws = None, ![o].vaddr = v]
            = [f EXCEPT ![o] = [f[o] EXCEPT !.size = BufSize, !.ws = None, !.vaddr = v]]
      OBVIOUS
    <2> QED
      BY <2>1, <2>2
  <1> QED
    BY <1>1, <1>2, <1>3, <1>4

\* What eventfd_signal leaves alone.
LEMMA Signalled ==
  ASSUME NEW n \in Nat, NEW f \in [1 .. n -> Entry], NEW o \in 1 .. n, NEW v,
         NEW g, g = [f EXCEPT ![o].events = @ + 1, ![o].written = v]
  PROVE  /\ \A p \in 1 .. n : /\ g[p].index = f[p].index /\ g[p].vaddr = f[p].vaddr
                              /\ g[p].size = f[p].size /\ g[p].ws = f[p].ws
         /\ \A p \in (1 .. n) \ {o} : g[p] = f[p]
         /\ g[o].written = v
  <1>1. g = [f EXCEPT ![o] = [f[o] EXCEPT !.events = f[o].events + 1, !.written = v]]
    OBVIOUS
  <1>2. g[o] = [f[o] EXCEPT !.events = f[o].events + 1, !.written = v]
    BY <1>1
  <1>3. /\ g[o].index = f[o].index /\ g[o].vaddr = f[o].vaddr /\ g[o].size = f[o].size
        /\ g[o].ws = f[o].ws /\ g[o].written = v
    BY <1>2 DEF Entry
  <1>4. \A p \in (1 .. n) \ {o} : g[p] = f[p]
    BY <1>1
  <1> QED
    BY <1>3, <1>4

------------------------------------------------------------------------------
(* Types.                                                                   *)

LEMMA TypedInit == Init => Typed
  <1> SUFFICES ASSUME Init PROVE Typed
    OBVIOUS
  <1> USE SdbAssumption DEF Init
  <1>1. Idle \in Thr /\ Idle \in Cb
    BY DEF Idle, Thr, ThrPlaces, Cb
  <1>2. ThrTyped
    BY <1>1 DEF ThrTyped, Idle
  <1>3. /\ entry \in Seq(Entry) /\ Len(entry) = 0 /\ buffer_list \in Seq(1 .. created)
        /\ toM4 \in Seq(BufMsg) /\ m4Bufs \in Seq(Nat)
        /\ fromM4 \in Seq(Announcement)
    OBVIOUS
  <1>4. \A t \in Threads :
          /\ thr[t].at \in {"idle", "setefd", "mapped", "sent", "found", "got"}
          /\ thr[t].obj \in 0 .. created
    BY DEF Idle
  <1>5. cb.at \in {"idle", "found", "signal"} /\ cb.obj \in 0 .. created
    BY DEF Idle
  <1>6. created \in 0 .. MaxObj /\ memories \in 0 .. MaxMem /\ announced \in 0 .. MaxMsgs
        /\ LastBufferId \in Nat /\ session \in Nat /\ taken \in Nat /\ refused \in Nat
        /\ badFree \in Nat
    OBVIOUS
  <1>7. isOpen \in BOOLEAN /\ mutex \in Threads \cup {Nobody} /\ Len(entry) = created
    BY <1>3
  <1>8. dma \subseteq 1 .. memories /\ overwritten \subseteq 1 .. memories
    OBVIOUS
  <1> HIDE DEF Init
  <1>9. TypeOK
    BY <1>3, <1>4, <1>5, <1>6, <1>7, <1>8 DEF TypeOK, BufMsg, Announcement
  <1> QED
    BY <1>2, <1>9 DEF Typed

\* What a step may do to the entries.
EntriesTyped == entry' \in Seq(Entry) /\ Len(entry') = created' /\ created' \in 0 .. MaxObj
                /\ created =< created'

LEMMA EntriesStep == Typed /\ [Next]_vars => EntriesTyped
  <1> SUFFICES ASSUME Typed, [Next]_vars PROVE EntriesTyped
    OBVIOUS
  <1> USE SdbAssumption
  <1>a. /\ entry \in [1 .. created -> Entry] /\ created \in 0 .. MaxObj /\ created \in Nat
        /\ entry \in Seq(Entry) /\ Len(entry) = created
        /\ DOMAIN entry = 1 .. created
    BY EntryFun DEF Typed, TypeOK
  <1>b. ASSUME UNCHANGED <<entry, created>> PROVE EntriesTyped
    BY <1>a, <1>b DEF EntriesTyped
  <1>c. ASSUME created' = created, entry' \in [1 .. created -> Entry] PROVE EntriesTyped
    BY <1>a, <1>c, SeqFun DEF EntriesTyped
  <1>1. CASE rpmsg_sdb_close
    <2>1. entry' = [o \in 1 .. created |-> [entry[o] EXCEPT !.freed = @ \/ o \in Listed]]
      BY <1>1, <1>a DEF rpmsg_sdb_close
    <2>2. ASSUME NEW o \in 1 .. created
          PROVE  [entry[o] EXCEPT !.freed = @ \/ o \in Listed] \in Entry
      <3>1. entry[o] \in Entry
        BY <1>a
      <3>2. (entry[o].freed \/ o \in Listed) \in BOOLEAN
        OBVIOUS
      <3> QED
        BY <3>1, <3>2 DEF Entry
    <2> QED
      BY <2>1, <2>2, <1>1, <1>c DEF rpmsg_sdb_close
  <1>2. ASSUME NEW t \in Threads, SetEfdAdd(t) PROVE EntriesTyped
    <2> DEFINE e == [index |-> thr[t].val, size |-> Garbage, ws |-> Garbage, vaddr |-> Garbage,
                     events |-> 0, written |-> None, session |-> session, freed |-> FALSE]
    <2>1. e \in Entry
      BY <1>2 DEF SetEfdAdd, Entry, Typed, TypeOK, ThrTyped
    <2>2. entry' = Append(entry, e) /\ created' = created + 1 /\ created + 1 =< MaxObj
      BY <1>2, <1>a DEF SetEfdAdd, Typed, ThrTyped
    <2> HIDE DEF e
    <2> QED
      BY <1>a, <2>1, <2>2 DEF EntriesTyped
  <1>3. ASSUME NEW t \in Threads, Mmap(t) PROVE EntriesTyped
    <2>1. LastEntry \in 1 .. created
      BY <1>3, ListedCreated DEF Mmap, MayMap
    <2>2. entry' \in [1 .. created -> Entry]
      <3>1. memories + 1 \in Nat
        BY DEF Typed, TypeOK
      <3> QED
        BY <1>3, <1>a, <2>1, <3>1, Update DEF Mmap
    <2> QED
      BY <2>2, <1>3, <1>c DEF Mmap
  <1>4. ASSUME NEW t \in Threads, MmapNoMemory(t) PROVE EntriesTyped
    <2>1. LastEntry \in 1 .. created
      BY <1>4, ListedCreated DEF MmapNoMemory, MayMap
    <2>2. entry' \in [1 .. created -> Entry]
      <3>1. NoMem \in Nat
        BY DEF NoMem
      <3> QED
        BY <1>4, <1>a, <2>1, <3>1, Update DEF MmapNoMemory
    <2> QED
      BY <2>2, <1>4, <1>c DEF MmapNoMemory
  <1>5. ASSUME NEW t \in Threads, GetDataSize(t) PROVE EntriesTyped
    <2>1. PICK o \in 1 .. created : entry' = [entry EXCEPT ![o].events = 0] \/ UNCHANGED entry
      BY <1>5, ListedCreated DEF GetDataSize, Awaited
    <2>2. entry' \in [1 .. created -> Entry]
      <3>1. CASE UNCHANGED entry
        BY <1>a, <3>1
      <3>2. CASE entry' = [entry EXCEPT ![o].events = 0]
        BY <1>a, <3>2, Update
      <3> QED
        BY <2>1, <3>1, <3>2
    <2> QED
      BY <2>2, <1>5, <1>c DEF GetDataSize
  <1>6. ASSUME NEW t \in Threads, GetReset(t) PROVE EntriesTyped
    <2>1. thr[t].obj \in 1 .. created
      BY <1>6 DEF GetReset, Typed, ThrTyped
    <2>2. entry' \in [1 .. created -> Entry]
      BY <1>a, <1>6, <2>1, Update DEF GetReset
    <2> QED
      BY <2>2, <1>6, <1>c DEF GetReset
  <1>7. CASE CbWrite
    <2>1. cb.obj \in 1 .. created /\ cb.val \in Sizes
      BY <1>7 DEF CbWrite, Typed, ThrTyped
    <2>2. entry' \in [1 .. created -> Entry]
      BY <1>a, <1>7, <2>1, Update DEF CbWrite
    <2> QED
      BY <2>2, <1>7, <1>c DEF CbWrite
  <1>8. CASE CbSignal
    <2>1. cb.obj \in 1 .. created /\ cb.val \in Sizes
      BY <1>8 DEF CbSignal, Typed, ThrTyped
    <2>2. entry' \in [1 .. created -> Entry]
      BY <1>a, <1>8, <2>1, Update DEF CbSignal
    <2> QED
      BY <2>2, <1>8, <1>c DEF CbSignal
  <1>9. CASE rpmsg_sdb_open \/ CbReceive \/ M4Accept \/ M4Announce \/ M4Restart
    BY <1>9, <1>b DEF rpmsg_sdb_open, CbReceive, M4Accept, M4Announce, M4Restart, listVars
  <1>10. ASSUME NEW t \in Threads,
                \/ SetEfd(t) \/ SetEfdFault(t) \/ MmapNoRemap(t) \/ MmapSend(t)
                \/ MmapSendFails(t) \/ MmapCount(t) \/ GetRead(t) \/ GetFault(t)
         PROVE  EntriesTyped
    BY <1>10, <1>b DEF SetEfd, MmapNoRemap, SetEfdFault, MmapSend, MmapSendFails, MmapCount,
       GetRead, GetFault, listVars
  <1>11. CASE UNCHANGED vars
    BY <1>11, <1>b DEF vars, listVars
  <1> QED
    BY <1>1, <1>2, <1>3, <1>4, <1>5, <1>6, <1>7, <1>8, <1>9, <1>10, <1>11
    DEF Next, Setup, Get, Callback

\* Threads: every action moves at most one of them.
LEMMA ThrStep == Typed /\ [Next]_vars => ThrTyped'
  <1> SUFFICES ASSUME Typed, [Next]_vars PROVE ThrTyped'
    OBVIOUS
  <1> USE SdbAssumption
  <1>a. /\ thr \in [Threads -> Thr] /\ cb \in Cb /\ created \in Nat
        /\ created' \in Nat /\ created =< created'
    BY EntriesStep DEF Typed, TypeOK, ThrTyped, EntriesTyped
  <1>b. ASSUME UNCHANGED <<isOpen, thr, cb, mutex, created>> PROVE ThrTyped'
    BY <1>b DEF Typed, ThrTyped
  <1>1. CASE rpmsg_sdb_open
    <2>1. \A t \in Threads : thr[t].at = "idle"
      BY <1>1 DEF rpmsg_sdb_open, Typed, ThrTyped
    <2> QED
      BY <1>1, <1>a, <2>1 DEF rpmsg_sdb_open, Typed, ThrTyped
  <1>2. CASE rpmsg_sdb_close
    BY <1>2, <1>a DEF rpmsg_sdb_close, Typed, ThrTyped
  <1>3. ASSUME NEW t \in Threads, SetEfd(t) PROVE ThrTyped'
    <2>1. PICK v \in Nat : thr' = [thr EXCEPT ![t] = [at |-> "setefd", obj |-> 0, val |-> v]]
      <3>1. buffer_list # <<>> => entry[LastEntry].index + 1 \in Nat
        BY ListedCreated, EntryFun DEF Typed, Entry
      <3> QED
        BY <1>3, <3>1 DEF SetEfd, Start
    <2>2. [at |-> "setefd", obj |-> 0, val |-> v] \in Thr
      BY DEF Thr, ThrPlaces
    <2> QED
      BY <1>3, <1>a, <2>1, <2>2 DEF SetEfd, CanEnter, Typed, ThrTyped, listVars
  <1>4. ASSUME NEW t \in Threads, SetEfdAdd(t) \/ SetEfdFault(t) PROVE ThrTyped'
    <2>1. thr' = [thr EXCEPT ![t] = Idle] /\ Idle \in Thr /\ Idle.at = "idle" /\ Idle.obj = 0
      BY <1>4 DEF SetEfdAdd, SetEfdFault, Finish, Idle, Thr, ThrPlaces
    <2>2. \A u \in Threads : thr[u].at = "setefd" => u = t
      BY <1>4 DEF SetEfdAdd, SetEfdFault, Typed, ThrTyped
    <2>3. UNCHANGED <<isOpen, cb>>
      BY <1>4 DEF SetEfdAdd, SetEfdFault
    <2>4. \A u \in Threads : thr'[u] = Idle \/ (u # t /\ thr'[u] = thr[u] /\ thr[u].at # "setefd")
      BY <1>a, <2>1, <2>2
    <2>5. \A u \in Threads :
            /\ thr'[u].obj \in 0 .. created'
            /\ thr'[u].at # "idle" => isOpen
            /\ thr'[u].at # "setefd"
            /\ thr'[u].at \in {"mapped", "sent", "found", "got"} => thr'[u].obj \in 1 .. created'
      BY <1>a, <2>1, <2>4 DEF Typed, ThrTyped
    <2>6. thr' \in [Threads -> Thr] /\ cb' \in Cb /\ cb'.obj \in 0 .. created'
          /\ (cb'.at # "idle" => cb'.obj \in 1 .. created' /\ cb'.val \in Sizes)
      BY <1>a, <2>1, <2>3 DEF Typed, ThrTyped
    <2> QED
      BY <2>3, <2>5, <2>6 DEF ThrTyped
  <1>5. ASSUME NEW t \in Threads,
               Mmap(t) \/ GetDataSize(t) \/ GetRead(t) \/ MmapSend(t) \/ MmapSendFails(t)
        PROVE  ThrTyped'
    <2>1. UNCHANGED <<isOpen, cb, mutex, created>> /\ isOpen
      BY <1>5 DEF Mmap, MayMap, CanEnter, GetDataSize, GetRead, MmapSend, MmapSendFails,
         Typed, ThrTyped, listVars
    <2>2. ASSUME NEW at \in {"mapped", "sent", "found", "got"}, NEW obj \in 1 .. created,
                 NEW val \in Int, Start(t, at, obj, val)
          PROVE  ThrTyped'
      <3>1. [at |-> at, obj |-> obj, val |-> val] \in Thr
        BY <1>a DEF Thr, ThrPlaces
      <3> QED
        BY <1>a, <2>1, <2>2, <3>1 DEF Start, Typed, ThrTyped
    <2>3. CASE Mmap(t)
      BY <2>2, <2>3, ListedCreated DEF Mmap, MayMap
    <2>4. CASE GetDataSize(t)
      <3>1. PICK o \in Listed : Start(t, "found", Search(entry[o].index), 0)
        BY <2>4 DEF GetDataSize
      <3>2. Search(entry[o].index) \in 1 .. created
        BY <3>1, ListedCreated DEF Search
      <3> QED
        BY <2>2, <3>1, <3>2
    <2>5. CASE GetRead(t)
      <3>1. thr[t].obj \in 1 .. created
        BY <2>5 DEF GetRead, Typed, ThrTyped
      <3>2. entry[thr[t].obj].ws \in Sizes \cup {None, Garbage}
        BY <3>1, EntryFun DEF Entry
      <3>3. None \in Int /\ Garbage \in Int /\ \A n \in Sizes : n \in Int
        BY DEF None, Garbage
      <3>4. entry[thr[t].obj].ws \in Int
        BY <3>2, <3>3
      <3> QED
        BY <2>2, <2>5, <3>1, <3>4 DEF GetRead
    <2>6. CASE MmapSend(t) \/ MmapSendFails(t)
      <3>1. thr[t].obj \in 1 .. created
        BY <2>6 DEF MmapSend, MmapSendFails, Typed, ThrTyped
      <3> QED
        BY <2>2, <2>6, <3>1 DEF MmapSend, MmapSendFails
    <2> QED
      BY <1>5, <2>3, <2>4, <2>5, <2>6
  <1>6. ASSUME NEW t \in Threads, MmapNoRemap(t) \/ MmapCount(t) \/ GetReset(t) \/ GetFault(t)
        PROVE  ThrTyped'
    <2>1. thr' = [thr EXCEPT ![t] = Idle] /\ Idle \in Thr /\ Idle.at = "idle" /\ Idle.obj = 0
      BY <1>6 DEF MmapNoRemap, MmapCount, GetReset, GetFault, Finish, Idle, Thr, ThrPlaces
    <2>2. UNCHANGED <<isOpen, cb, mutex, created>>
      BY <1>6 DEF MmapNoRemap, MmapCount, GetReset, GetFault, listVars
    <2> QED
      BY <1>a, <2>1, <2>2 DEF Typed, ThrTyped
  <1>7. CASE CbReceive
    <2> DEFINE m == Head(fromM4)
               match == {o \in Listed : entry[o].index = m.index}
               obj == CHOOSE o \in match : TRUE
    <2>1. m.size \in Sizes
      <3>1. fromM4 \in Seq(Announcement) /\ fromM4 # <<>>
        BY <1>7 DEF CbReceive, Typed, TypeOK, Announcement
      <3>2. m \in Announcement
        BY <3>1
      <3> QED
        BY <3>2 DEF Announcement
    <2>2. cb' = Idle \/ (match # {} /\ cb' = [at |-> "found", obj |-> obj, val |-> m.size])
      BY <1>7 DEF CbReceive
    <2>3. match # {} => obj \in 1 .. created
      BY ListedCreated
    <2>4. UNCHANGED <<isOpen, thr, mutex, created>>
      BY <1>7 DEF CbReceive, listVars
    <2> HIDE DEF m, match, obj
    <2>5. /\ cb'.at # "idle" => cb'.obj \in 1 .. created /\ cb'.val \in Sizes
          /\ cb'.obj \in 0 .. created
      BY <1>a, <2>1, <2>2, <2>3 DEF Idle
    <2>6. cb' \in Cb
      <3>1. Idle \in Cb
        BY DEF Idle, Cb
      <3>2. \A o \in Nat, n \in Nat : [at |-> "found", obj |-> o, val |-> n] \in Cb
        BY DEF Cb
      <3>3. m.size \in Nat
        BY <2>1
      <3> QED
        BY <1>a, <2>2, <2>3, <3>1, <3>2, <3>3
    <2> QED
      BY <2>4, <2>5, <2>6 DEF Typed, ThrTyped
  <1>8. CASE CbWrite \/ CbSignal
    <2>1. cb' = Idle \/ (cb.at # "idle" /\ cb' = [cb EXCEPT !.at = "signal"])
      BY <1>8 DEF CbWrite, CbSignal
    <2>2. UNCHANGED <<isOpen, thr, mutex, created>>
      BY <1>8 DEF CbWrite, CbSignal
    <2> QED
      BY <1>a, <2>1, <2>2 DEF Typed, ThrTyped, Cb, Idle
  <1>9. CASE M4Accept \/ M4Announce \/ M4Restart
    BY <1>9, <1>b DEF M4Accept, M4Announce, M4Restart, listVars
  <1>10. ASSUME NEW t \in Threads, MmapNoMemory(t) PROVE ThrTyped'
    BY <1>10, <1>b DEF MmapNoMemory
  <1>11. CASE UNCHANGED vars
    BY <1>11, <1>b DEF vars, listVars
  <1> QED
    BY <1>1, <1>2, <1>3, <1>4, <1>5, <1>6, <1>7, <1>8, <1>9, <1>10, <1>11
    DEF Next, Setup, Get, Callback

\* The list, the counters, the memory and the messages.
LEMMA TypedStep == Typed /\ [Next]_vars => Typed'
  <1> SUFFICES ASSUME Typed, [Next]_vars PROVE Typed'
    OBVIOUS
  <1> USE SdbAssumption
  <1> DEFINE Counts == /\ isOpen' \in BOOLEAN /\ LastBufferId' \in Nat
                       /\ mutex' \in Threads \cup {Nobody}
                       /\ announced' \in 0 .. MaxMsgs /\ session' \in Nat /\ taken' \in Nat
                       /\ refused' \in Nat /\ badFree' \in Nat
             Memory == /\ memories' \in 0 .. MaxMem /\ dma' \subseteq 1 .. memories'
                       /\ overwritten' \subseteq 1 .. memories'
             Lists == /\ buffer_list' \in Seq(1 .. created')
                      /\ toM4' \in Seq(BufMsg) /\ m4Bufs' \in Seq(Nat)
                      /\ fromM4' \in Seq(Announcement)
  <1>1. EntriesTyped /\ ThrTyped'
    BY EntriesStep, ThrStep
  <1>2. Counts
    <2> USE DEF Typed, TypeOK, listVars, memVars, linkVars, histVars
    <2>a. /\ LastBufferId + 1 \in Nat /\ badFree + 1 \in Nat /\ refused + 1 \in Nat
          /\ session + 1 \in Nat /\ taken + 1 \in Nat
          /\ announced < MaxMsgs => announced + 1 \in 0 .. MaxMsgs
      OBVIOUS
    <2>b. Nobody \in Threads \cup {Nobody} /\ \A t \in Threads : t \in Threads \cup {Nobody}
      OBVIOUS
    <2>1. CASE rpmsg_sdb_open \/ rpmsg_sdb_close
      <3>1. CASE rpmsg_sdb_open
        BY <3>1, <2>a, <2>b DEF rpmsg_sdb_open
      <3>2. CASE rpmsg_sdb_close
        <4>1. badFree' = badFree \/ badFree' = badFree + 1
          BY <3>2 DEF rpmsg_sdb_close
        <4> QED
          BY <3>2, <4>1, <2>a DEF rpmsg_sdb_close
      <3> QED
        BY <2>1, <3>1, <3>2
    <2>2. ASSUME NEW t \in Threads, Setup(t) PROVE Counts
      <3>1. CASE SetEfd(t) \/ SetEfdAdd(t) \/ SetEfdFault(t)
        BY <3>1, <2>b DEF SetEfd, SetEfdAdd, SetEfdFault
      <3>2. CASE Mmap(t) \/ MmapNoMemory(t) \/ MmapNoRemap(t)
        BY <3>2 DEF Mmap, MmapNoMemory, MmapNoRemap
      <3>3. CASE MmapSend(t) \/ MmapSendFails(t) \/ MmapCount(t)
        BY <3>3, <2>a DEF MmapSend, MmapSendFails, MmapCount
      <3> QED
        BY <2>2, <3>1, <3>2, <3>3 DEF Setup
    <2>3. ASSUME NEW t \in Threads, Get(t) PROVE Counts
      BY <2>3, <2>a DEF Get, GetDataSize, GetRead, GetReset, GetFault
    <2>4. CASE Callback
      <3>1. CASE CbReceive
        <4>1. refused' = refused \/ refused' = refused + 1
          BY <3>1 DEF CbReceive
        <4> QED
          BY <3>1, <4>1, <2>a DEF CbReceive
      <3> QED
        BY <2>4, <3>1 DEF Callback, CbWrite, CbSignal
    <2>5. CASE M4Accept \/ M4Announce \/ M4Restart
      BY <2>5, <2>a DEF M4Accept, M4Announce, M4Restart
    <2>6. CASE UNCHANGED vars
      BY <2>6 DEF vars
    <2> QED
      BY <2>1, <2>2, <2>3, <2>4, <2>5, <2>6 DEF Next
  <1>3. Memory
    <2> USE DEF Typed, TypeOK
    <2>1. ASSUME NEW t \in Threads, Mmap(t) PROVE Memory
      <3>1. memories' = memories + 1 /\ memories + 1 \in 0 .. MaxMem /\ memories \in Nat
        <4>1. memories' = memories + 1 /\ memories < MaxMem /\ memories \in 0 .. MaxMem
          BY <2>1 DEF Mmap
        <4> QED
          BY <4>1
      <3>2. 1 .. memories \subseteq 1 .. memories' /\ memories + 1 \in 1 .. memories'
        BY <3>1
      <3>3. dma' = dma \cup {memories + 1} /\ overwritten' \subseteq overwritten \cup dma
        BY <2>1 DEF Mmap
      <3> QED
        BY <3>1, <3>2, <3>3
    <2>2. ASSUME NEW t \in Threads, MmapNoMemory(t) PROVE Memory
      BY <2>2 DEF MmapNoMemory
    <2>3. CASE rpmsg_sdb_close
      BY <2>3 DEF rpmsg_sdb_close
    <2>4. CASE UNCHANGED <<dma, memories, overwritten>>
      BY <2>4
    <2>5. CASE rpmsg_sdb_open \/ Callback \/ M4Accept \/ M4Announce \/ M4Restart
      BY <2>4, <2>5 DEF rpmsg_sdb_open, Callback, CbReceive, CbWrite, CbSignal,
         M4Accept, M4Announce, M4Restart, memVars
    <2>6. ASSUME NEW t \in Threads, Get(t) PROVE Memory
      BY <2>4, <2>6 DEF Get, GetDataSize, GetRead, GetReset, GetFault, memVars
    <2>7. ASSUME NEW t \in Threads,
                 \/ SetEfd(t) \/ SetEfdAdd(t) \/ SetEfdFault(t) \/ MmapNoRemap(t)
                 \/ MmapSend(t) \/ MmapSendFails(t) \/ MmapCount(t)
          PROVE  Memory
      BY <2>4, <2>7 DEF SetEfd, SetEfdAdd, SetEfdFault, MmapNoRemap, MmapSend, MmapSendFails,
         MmapCount, memVars
    <2>8. CASE UNCHANGED vars
      BY <2>4, <2>8 DEF vars, memVars
    <2> QED
      BY <2>1, <2>2, <2>3, <2>5, <2>6, <2>7, <2>8 DEF Next, Setup
  <1>4. Lists
    <2>a. /\ buffer_list \in Seq(1 .. created) /\ toM4 \in Seq(BufMsg)
          /\ m4Bufs \in Seq(Nat) /\ fromM4 \in Seq(Announcement)
          /\ created \in Nat /\ created' \in Nat /\ created =< created'
      BY <1>1 DEF Typed, TypeOK, BufMsg, Announcement, EntriesTyped
    <2>b. buffer_list \in Seq(1 .. created')
      BY <2>a
    <2>c. /\ <<>> \in Seq(1 .. created') /\ <<>> \in Seq(BufMsg) /\ <<>> \in Seq(Nat)
          /\ <<>> \in Seq(Announcement)
      OBVIOUS
    <2>1. CASE rpmsg_sdb_open \/ rpmsg_sdb_close
      <3>1. buffer_list' = <<>> /\ UNCHANGED <<toM4, m4Bufs, fromM4>>
        BY <2>1 DEF rpmsg_sdb_open, rpmsg_sdb_close, linkVars
      <3> QED
        BY <2>a, <2>c, <3>1
    <2>2. ASSUME NEW t \in Threads, SetEfdAdd(t) PROVE Lists
      <3>1. /\ buffer_list' = Append(buffer_list, created + 1) /\ created' = created + 1
            /\ UNCHANGED <<toM4, m4Bufs, fromM4>>
        BY <2>2 DEF SetEfdAdd, linkVars
      <3>2. created + 1 \in 1 .. created'
        BY <2>a, <3>1
      <3>3. buffer_list' \in Seq(1 .. created')
        BY <2>b, <3>1, <3>2
      <3> QED
        BY <2>a, <3>1, <3>3
    <2>3. ASSUME NEW t \in Threads, MmapSend(t) PROVE Lists
      <3> DEFINE m == [index |-> entry[thr[t].obj].index, session |-> session]
      <3>1. m \in BufMsg
        BY <2>3, EntryFun DEF MmapSend, Typed, ThrTyped, TypeOK, Entry, BufMsg
      <3>2. toM4' = Append(toM4, m) /\ UNCHANGED <<buffer_list, m4Bufs, fromM4>>
        BY <2>3 DEF MmapSend, listVars
      <3> HIDE DEF m
      <3> QED
        BY <2>a, <2>b, <3>1, <3>2
    <2>4. ASSUME NEW t \in Threads,
                 \/ SetEfd(t) \/ SetEfdFault(t) \/ Mmap(t) \/ MmapNoMemory(t) \/ MmapNoRemap(t)
                 \/ MmapSendFails(t) \/ MmapCount(t) \/ Get(t)
          PROVE  Lists
      BY <2>4, <2>a, <2>b DEF SetEfd, SetEfdFault, Mmap, MmapNoMemory, MmapNoRemap,
         MmapSendFails, MmapCount, Get, GetDataSize,
         GetRead, GetReset, GetFault, listVars, linkVars
    <2>5. CASE Callback
      <3>1. UNCHANGED <<buffer_list, toM4, m4Bufs>> /\ (UNCHANGED fromM4 \/ (fromM4 # <<>> /\ fromM4' = Tail(fromM4)))
        BY <2>5 DEF Callback, CbReceive, CbWrite, CbSignal, listVars, linkVars
      <3>2. fromM4' \in Seq(Announcement)
        BY <2>a, <3>1, SeqTail
      <3> QED
        BY <2>a, <2>b, <3>1, <3>2
    <2>6. CASE M4Accept
      <3>1. toM4 # <<>> /\ toM4' = Tail(toM4) /\ UNCHANGED <<buffer_list, fromM4>>
        BY <2>6 DEF M4Accept, listVars
      <3>2. Head(toM4) \in BufMsg /\ toM4' \in Seq(BufMsg)
        BY <2>a, <3>1, SeqTail
      <3>3. Head(toM4).session \in Nat
        BY <3>2 DEF BufMsg
      <3>4. m4Bufs' \in Seq(Nat)
        BY <2>6, <2>a, <3>3 DEF M4Accept
      <3> QED
        BY <2>a, <2>b, <3>1, <3>2, <3>4
    <2>7. CASE M4Announce
      <3>1. PICK i \in DOMAIN m4Bufs, n \in Sizes :
              fromM4' = Append(fromM4, [index |-> i - 1, size |-> n, session |-> m4Bufs[i]])
        BY <2>7 DEF M4Announce
      <3>2. [index |-> i - 1, size |-> n, session |-> m4Bufs[i]] \in Announcement
        BY <2>a DEF Announcement
      <3>3. fromM4' \in Seq(Announcement)
        BY <2>a, <3>1, <3>2
      <3> QED
        BY <2>7, <2>a, <2>b, <3>3 DEF M4Announce, listVars
    <2>8. CASE M4Restart \/ UNCHANGED vars
      <3>1. UNCHANGED buffer_list /\ (UNCHANGED <<toM4, m4Bufs, fromM4>>
                                      \/ (toM4' = <<>> /\ m4Bufs' = <<>> /\ fromM4' = <<>>))
        BY <2>8 DEF M4Restart, vars, listVars, linkVars
      <3> QED
        BY <2>a, <2>b, <2>c, <3>1
    <2> QED
      BY <2>1, <2>2, <2>3, <2>4, <2>5, <2>6, <2>7, <2>8 DEF Next, Setup
  <1>5. \A t \in Threads :
          /\ thr'[t].at \in {"idle", "setefd", "mapped", "sent", "found", "got"}
          /\ thr'[t].obj \in 0 .. created'
    BY <1>1 DEF ThrTyped, Thr, ThrPlaces
  <1>6. cb'.at \in {"idle", "found", "signal"} /\ cb'.obj \in 0 .. created'
    BY <1>1 DEF ThrTyped, Cb
  <1> HIDE DEF Counts, Memory, Lists
  <1> QED
    BY <1>1, <1>2, <1>3, <1>4, <1>5, <1>6
    DEF EntriesTyped, Typed, TypeOK, BufMsg, Announcement, Counts, Memory, Lists

LEMMA Types == Spec => []Typed
  BY TypedInit, TypedStep, PTL DEF Spec

\* Whatever the threads do, every variable keeps its type.
THEOREM TypeCorrect == Spec => []TypeOK
  <1>1. Typed => TypeOK
    BY DEF Typed
  <1> QED
    BY Types, <1>1, PTL

------------------------------------------------------------------------------
(* The list and its memory.                                                 *)

\* A closed file has no entries, and the counter starts at 0.
InFile == ~isOpen => buffer_list = <<>> /\ LastBufferId = 0

\* The index computed under the mutex is still the next place when it is used.
Numbered ==
  /\ IndexIsPosition
  /\ \A t \in Threads : thr[t].at = "setefd" => thr[t].val = Len(buffer_list)

\* Memory is reachable from a listed entry unless it was overwritten, and what
\* an entry points to is allocated unless its mmap never got so far.
Freed ==
  /\ \A a \in dma : a \in overwritten \/ \E o \in Listed : entry[o].vaddr = a
  /\ \A o \in Listed : entry[o].vaddr \in dma \cup {Garbage, NoMem}

ListInv == Typed /\ InFile /\ Numbered /\ Freed

LEMMA ListInit == Init => ListInv
  <1> SUFFICES ASSUME Init PROVE ListInv
    OBVIOUS
  <1>1. Typed
    BY TypedInit
  <1>2. InFile /\ IndexIsPosition /\ \A t \in Threads : thr[t].at # "setefd"
    BY DEF Init, InFile, IndexIsPosition, Idle
  <1>3. Freed
    BY DEF Init, Freed, Listed
  <1> QED
    BY <1>1, <1>2, <1>3 DEF ListInv, Numbered

\* What the list looks like after SetEfdAdd: the new entry comes last.
LEMMA Added ==
  ASSUME Typed, NEW t \in Threads, SetEfdAdd(t)
  PROVE  /\ Len(buffer_list') = Len(buffer_list) + 1 /\ Len(buffer_list) \in Nat
         /\ \A i \in 1 .. Len(buffer_list) : buffer_list'[i] = buffer_list[i]
         /\ buffer_list'[Len(buffer_list) + 1] = created + 1
         /\ Listed' = Listed \cup {created + 1}
         /\ created + 1 \notin Listed
         /\ \A o \in 1 .. created : entry'[o] = entry[o]
         /\ entry'[created + 1] = [index |-> thr[t].val, size |-> Garbage, ws |-> Garbage,
                                   vaddr |-> Garbage, events |-> 0, written |-> None,
                                   session |-> session, freed |-> FALSE]
  <1>1. buffer_list \in Seq(1 .. created) /\ created \in Nat /\ entry \in Seq(Entry)
        /\ Len(entry) = created
    BY SdbAssumption DEF Typed, TypeOK
  <1>2. buffer_list' = Append(buffer_list, created + 1)
    BY DEF SetEfdAdd
  <1>3. /\ Len(buffer_list') = Len(buffer_list) + 1 /\ Len(buffer_list) \in Nat
        /\ \A i \in 1 .. Len(buffer_list) : buffer_list'[i] = buffer_list[i]
        /\ buffer_list'[Len(buffer_list) + 1] = created + 1
        /\ DOMAIN buffer_list = 1 .. Len(buffer_list)
        /\ DOMAIN buffer_list' = 1 .. (Len(buffer_list) + 1)
    BY <1>1, <1>2
  <1>4. 1 .. (Len(buffer_list) + 1) = (1 .. Len(buffer_list)) \cup {Len(buffer_list) + 1}
    BY <1>3
  <1>5. Listed' = Listed \cup {created + 1}
    BY <1>3, <1>4 DEF Listed
  <1>6. created + 1 \notin Listed
    BY <1>1, ListedCreated
  <1> DEFINE e == [index |-> thr[t].val, size |-> Garbage, ws |-> Garbage, vaddr |-> Garbage,
                   events |-> 0, written |-> None, session |-> session, freed |-> FALSE]
  <1>7. entry' = Append(entry, e)
    BY DEF SetEfdAdd
  <1> HIDE DEF e
  <1>8. (\A o \in 1 .. created : entry'[o] = entry[o]) /\ entry'[created + 1] = e
    BY <1>1, <1>7, SeqAppend
  <1> QED
    BY <1>3, <1>5, <1>6, <1>8 DEF e

LEMMA ListStep == ListInv /\ [Next]_vars => ListInv'
  <1> SUFFICES ASSUME ListInv, [Next]_vars PROVE ListInv'
    OBVIOUS
  <1> USE SdbAssumption
  <1>t. Typed /\ Typed'
    BY TypedStep DEF ListInv
  <1>a. /\ entry \in [1 .. created -> Entry] /\ thr \in [Threads -> Thr]
        /\ Listed \subseteq 1 .. created /\ (buffer_list # <<>> => LastEntry \in Listed)
        /\ buffer_list \in Seq(1 .. created)
    BY <1>t, EntryFun, ListedCreated DEF Typed, TypeOK, ThrTyped
  <1>b. ASSUME UNCHANGED <<isOpen, buffer_list, dma, overwritten>>,
               ~isOpen => UNCHANGED LastBufferId,
               \A o \in Listed : entry'[o].index = entry[o].index /\ entry'[o].vaddr = entry[o].vaddr,
               \A t \in Threads : thr'[t].at = "setefd" => thr'[t] = thr[t]
        PROVE  ListInv'
    <2>1. InFile' /\ Listed' = Listed
      BY <1>b DEF ListInv, InFile, Listed
    <2>2. Numbered'
      BY <1>b DEF ListInv, Numbered, IndexIsPosition, Listed
    <2>3. Freed'
      BY <1>b, <2>1 DEF ListInv, Freed
    <2> QED
      BY <1>t, <2>1, <2>2, <2>3 DEF ListInv
  <1>1. CASE rpmsg_sdb_open
    <2>1. buffer_list = <<>> /\ buffer_list' = <<>> /\ UNCHANGED <<LastBufferId, thr, dma, entry, overwritten>>
          /\ isOpen'
      BY <1>1 DEF rpmsg_sdb_open, ListInv, InFile, listVars, memVars
    <2> QED
      BY <1>t, <2>1 DEF ListInv, InFile, Numbered, IndexIsPosition, Freed, Listed
  <1>2. CASE rpmsg_sdb_close
    <2>1. buffer_list' = <<>> /\ LastBufferId' = 0 /\ UNCHANGED <<thr, overwritten>>
          /\ \A t \in Threads : thr[t].at # "setefd"
      BY <1>2 DEF rpmsg_sdb_close
    <2>2. dma' \subseteq overwritten
      BY <1>2 DEF rpmsg_sdb_close, Released, ListInv, Freed
    <2> QED
      BY <1>t, <2>1, <2>2 DEF ListInv, InFile, Numbered, IndexIsPosition, Freed, Listed
  <1>3. ASSUME NEW t \in Threads, SetEfd(t) PROVE ListInv'
    <2>1. UNCHANGED <<isOpen, buffer_list, dma, overwritten, LastBufferId, entry>>
      BY <1>3 DEF SetEfd, listVars, memVars
    <2>2. (IF buffer_list = <<>> THEN 0 ELSE entry[LastEntry].index + 1) = Len(buffer_list)
      <3>1. CASE buffer_list = <<>>
        BY <3>1
      <3>2. CASE buffer_list # <<>>
        <4>1. Len(buffer_list) \in DOMAIN buffer_list /\ Len(buffer_list) \in Nat
          BY <1>a, <3>2
        <4> QED
          BY <3>2, <4>1 DEF LastEntry, ListInv, Numbered, IndexIsPosition
      <3> QED
        BY <3>1, <3>2
    <2>3. thr' = [thr EXCEPT ![t] = [at |-> "setefd", obj |-> 0, val |-> Len(buffer_list)]]
      BY <1>3, <2>2 DEF SetEfd, Start
    <2>4. \A u \in Threads : thr'[u].at = "setefd" => thr'[u].val = Len(buffer_list)
      BY <1>a, <2>3 DEF ListInv, Numbered
    <2> QED
      BY <1>t, <2>1, <2>4 DEF ListInv, InFile, Numbered, IndexIsPosition, Freed, Listed
  <1>4. ASSUME NEW t \in Threads, SetEfdAdd(t) PROVE ListInv'
    <2>1. /\ Len(buffer_list') = Len(buffer_list) + 1 /\ Len(buffer_list) \in Nat
          /\ \A i \in 1 .. Len(buffer_list) : buffer_list'[i] = buffer_list[i]
          /\ buffer_list'[Len(buffer_list) + 1] = created + 1
          /\ Listed' = Listed \cup {created + 1}
          /\ \A o \in 1 .. created : entry'[o] = entry[o]
          /\ entry'[created + 1].index = thr[t].val
          /\ entry'[created + 1].vaddr = Garbage
      <3>1. entry'[created + 1] = [index |-> thr[t].val, size |-> Garbage, ws |-> Garbage,
                                   vaddr |-> Garbage, events |-> 0, written |-> None,
                                   session |-> session, freed |-> FALSE]
        BY <1>t, <1>4, Added
      <3>2. /\ Len(buffer_list') = Len(buffer_list) + 1 /\ Len(buffer_list) \in Nat
            /\ \A i \in 1 .. Len(buffer_list) : buffer_list'[i] = buffer_list[i]
            /\ buffer_list'[Len(buffer_list) + 1] = created + 1
            /\ Listed' = Listed \cup {created + 1}
            /\ \A o \in 1 .. created : entry'[o] = entry[o]
        BY <1>t, <1>4, Added
      <3> QED
        BY <3>1, <3>2
    <2>2. thr[t].val = Len(buffer_list) /\ isOpen /\ UNCHANGED isOpen
      BY <1>4, <1>t DEF SetEfdAdd, Typed, ThrTyped, ListInv, Numbered
    <2>3. \A u \in Threads : thr'[u].at # "setefd"
      <3>1. \A u \in Threads : thr[u].at = "setefd" => u = t
        BY <1>4, <1>t DEF SetEfdAdd, Typed, ThrTyped
      <3> QED
        BY <1>4, <1>a, <3>1 DEF SetEfdAdd, Finish, Idle
    <2>4. DOMAIN buffer_list = 1 .. Len(buffer_list) /\ DOMAIN buffer_list' = 1 .. Len(buffer_list')
          /\ \A i \in 1 .. Len(buffer_list) : buffer_list[i] \in 1 .. created
      <3>1. buffer_list' \in Seq(1 .. created')
        BY <1>t DEF Typed, TypeOK
      <3> QED
        BY <1>a, <3>1, SeqDomain
    <2>5. IndexIsPosition'
      <3> SUFFICES ASSUME NEW i \in DOMAIN buffer_list'
                   PROVE  entry'[buffer_list'[i]].index = i - 1
        BY DEF IndexIsPosition
      <3>1. CASE i \in 1 .. Len(buffer_list)
        BY <3>1, <2>1, <2>4 DEF ListInv, Numbered, IndexIsPosition
      <3>2. CASE i = Len(buffer_list) + 1
        BY <3>2, <2>1, <2>2
      <3> QED
        BY <2>1, <2>4, <3>1, <3>2
    <2>6. Freed'
      <3>1. UNCHANGED <<dma, overwritten>>
        BY <1>4 DEF SetEfdAdd, memVars
      <3>2. \A o \in Listed : entry'[o] = entry[o] /\ o \in Listed'
        BY <1>a, <2>1
      <3> QED
        BY <2>1, <3>1, <3>2 DEF ListInv, Freed
    <2> QED
      BY <1>t, <2>2, <2>3, <2>5, <2>6 DEF ListInv, InFile, Numbered
  <1>5. ASSUME NEW t \in Threads, Mmap(t) \/ MmapNoMemory(t) PROVE ListInv'
    <2>1. /\ LastEntry \in Listed /\ isOpen
          /\ UNCHANGED <<isOpen, buffer_list, LastBufferId>>
          /\ overwritten' = overwritten \cup (dma \cap {entry[LastEntry].vaddr})
      BY <1>5, <1>a DEF Mmap, MmapNoMemory, MayMap, CanEnter
    <2>2. PICK a \in Nat : /\ entry' = [entry EXCEPT ![LastEntry].size = BufSize, ![LastEntry].ws = None,
                                                     ![LastEntry].vaddr = a]
                           /\ dma' = IF a = NoMem THEN dma ELSE dma \cup {a}
      <3>1. memories + 1 \in Nat /\ memories + 1 # NoMem /\ NoMem \in Nat
        <4>1. memories \in 0 .. MaxMem
          BY <1>t DEF Typed, TypeOK
        <4> QED
          BY <4>1 DEF NoMem
      <3> QED
        BY <1>5, <3>1 DEF Mmap, MmapNoMemory
    <2>3. /\ \A o \in Listed \ {LastEntry} : entry'[o] = entry[o]
          /\ entry'[LastEntry].vaddr = a /\ entry'[LastEntry].index = entry[LastEntry].index
      <3>1. entry[LastEntry] \in Entry /\ LastEntry \in DOMAIN entry
        BY <1>a, <2>1
      <3> QED
        BY <1>a, <2>2, <3>1 DEF Entry
    <2>4. \A u \in Threads : thr'[u].at = "setefd" => thr'[u] = thr[u]
      BY <1>5, <1>a DEF Mmap, MmapNoMemory, Start
    <2>5. Listed' = Listed
      BY <2>1 DEF Listed
    <2>6. \A o \in Listed : entry'[o].index = entry[o].index
      BY <2>3
    <2>7. Numbered'
      BY <2>1, <2>4, <2>6 DEF ListInv, Numbered, IndexIsPosition, Listed
    <2>8. Freed'
      <3>1. \A b \in dma' : b \in overwritten' \/ \E o \in Listed : entry'[o].vaddr = b
        <4> SUFFICES ASSUME NEW b \in dma' PROVE b \in overwritten' \/ \E o \in Listed : entry'[o].vaddr = b
          OBVIOUS
        <4>1. CASE b \in dma
          BY <4>1, <2>1, <2>3 DEF ListInv, Freed
        <4>2. CASE b \notin dma
          BY <4>2, <2>1, <2>2, <2>3
        <4> QED
          BY <4>1, <4>2
      <3>2. \A o \in Listed : entry'[o].vaddr \in dma' \cup {Garbage, NoMem}
        <4>1. dma \subseteq dma' /\ a \in dma' \cup {NoMem}
          BY <2>2
        <4> QED
          BY <4>1, <2>3 DEF ListInv, Freed
      <3> QED
        BY <2>5, <3>1, <3>2 DEF Freed
    <2> QED
      BY <1>t, <2>1, <2>7, <2>8 DEF ListInv, InFile
  <1>6. ASSUME NEW t \in Threads,
               \/ SetEfdFault(t) \/ MmapNoRemap(t) \/ MmapSend(t) \/ MmapSendFails(t)
               \/ MmapCount(t) \/ GetRead(t) \/ GetFault(t)
        PROVE  ListInv'
    <2>1. UNCHANGED <<isOpen, buffer_list, dma, overwritten, entry>>
      BY <1>6 DEF MmapNoRemap, SetEfdFault, MmapSend, MmapSendFails, MmapCount, GetRead, GetFault,
         listVars, memVars
    <2>2. ~isOpen => UNCHANGED LastBufferId
      BY <1>6, <1>t DEF MmapNoRemap, SetEfdFault, MmapSend, MmapSendFails, MmapCount, GetRead,
         GetFault, listVars, Typed, ThrTyped
    <2>3. \A u \in Threads : thr'[u].at = "setefd" => thr'[u] = thr[u]
      BY <1>6, <1>a DEF MmapNoRemap, SetEfdFault, MmapSend, MmapSendFails, MmapCount, GetRead,
         GetFault, Start, Finish, Idle
    <2> QED
      BY <1>b, <2>1, <2>2, <2>3
  <1>7. ASSUME NEW t \in Threads, GetDataSize(t) \/ GetReset(t) PROVE ListInv'
    <2>1. UNCHANGED <<isOpen, buffer_list, dma, overwritten, LastBufferId>>
      BY <1>7 DEF GetDataSize, GetReset, memVars
    <2>2. \A o \in Listed : entry'[o].index = entry[o].index /\ entry'[o].vaddr = entry[o].vaddr
      <3>1. CASE GetDataSize(t)
        <4>1. PICK o \in Listed : entry' = [entry EXCEPT ![o].events = 0] \/ UNCHANGED entry
          BY <3>1 DEF GetDataSize, Awaited
        <4>2. CASE UNCHANGED entry
          BY <4>2
        <4>3. CASE entry' = [entry EXCEPT ![o].events = 0]
          BY <1>a, <4>3 DEF Entry
        <4> QED
          BY <4>1, <4>2, <4>3
      <3>2. CASE GetReset(t)
        <4>1. thr[t].obj \in 1 .. created
          BY <3>2, <1>t DEF GetReset, Typed, ThrTyped
        <4> QED
          BY <1>a, <3>2, <4>1 DEF GetReset, Entry
      <3> QED
        BY <1>7, <3>1, <3>2
    <2>3. \A u \in Threads : thr'[u].at = "setefd" => thr'[u] = thr[u]
      BY <1>7, <1>a DEF GetDataSize, GetReset, Start, Finish, Idle
    <2> QED
      BY <1>b, <2>1, <2>2, <2>3
  <1>8. CASE CbWrite \/ CbSignal
    <2>1. UNCHANGED <<isOpen, buffer_list, dma, overwritten, LastBufferId, thr>>
      BY <1>8 DEF CbWrite, CbSignal, memVars
    <2>2. \A o \in Listed : entry'[o].index = entry[o].index /\ entry'[o].vaddr = entry[o].vaddr
      <3>1. cb.obj \in 1 .. created
        BY <1>8, <1>t DEF CbWrite, CbSignal, Typed, ThrTyped
      <3>2. CASE CbWrite
        BY <1>a, <3>1, <3>2 DEF CbWrite, Entry
      <3>3. CASE CbSignal
        <4>1. entry' = [entry EXCEPT ![cb.obj].events = @ + 1, ![cb.obj].written = cb.val]
          BY <3>3 DEF CbSignal
        <4> QED
          BY <1>a, <3>1, <4>1, Signalled
      <3> QED
        BY <1>8, <3>2, <3>3
    <2> QED
      BY <1>b, <2>1, <2>2
  <1>9. CASE CbReceive \/ M4Accept \/ M4Announce \/ M4Restart \/ UNCHANGED vars
    <2>1. UNCHANGED <<isOpen, buffer_list, dma, overwritten, LastBufferId, thr, entry>>
      BY <1>9 DEF CbReceive, M4Accept, M4Announce, M4Restart, vars, listVars, memVars
    <2> QED
      BY <1>b, <2>1
  <1> QED
    BY <1>1, <1>2, <1>3, <1>4, <1>5, <1>6, <1>7, <1>8, <1>9 DEF Next, Setup, Get, Callback

LEMMA ListInvariant == Spec => []ListInv
  BY ListInit, ListStep, PTL DEF Spec

\* The index of an entry is its place in the list, however many threads create
\* entries: RPMSG_SDB_IOCTL_SET_EFD computes it and adds the entry under one mutex.
THEOREM Positions == Spec => []IndexIsPosition
  <1>1. ListInv => IndexIsPosition
    BY DEF ListInv, Numbered
  <1> QED
    BY ListInvariant, <1>1, PTL

\* A closed device has lost only the memory whose address a second mmap of the
\* same entry overwrote, whatever failed on the way.
THEOREM ClosedFreesAll == Spec => []OnlyOverwrittenLeaks
  <1>1. ListInv => OnlyOverwrittenLeaks
    BY DEF ListInv, InFile, Freed, Listed, OnlyOverwrittenLeaks
  <1> QED
    BY ListInvariant, <1>1, PTL

\* rpmsg_sdb_close frees an address that is not allocated only for an entry whose
\* mmap never got memory.
THEOREM FreedOnce == Spec => OtherwiseFreedOnce
  <1>1. ListInv /\ [Next]_vars =>
          [badFree' > badFree => \E o \in Listed : entry[o].vaddr \in {Garbage, NoMem}]_vars
    <2> SUFFICES ASSUME ListInv, Next, badFree' > badFree
                 PROVE  \E o \in Listed : entry[o].vaddr \in {Garbage, NoMem}
      OBVIOUS
    <2>1. badFree \in Nat
      BY DEF ListInv, Typed, TypeOK
    <2>2. rpmsg_sdb_close \/ badFree' = badFree
      BY DEF Next, Setup, Get, Callback, rpmsg_sdb_open, SetEfd, SetEfdAdd, SetEfdFault, Mmap,
         MmapNoMemory, MmapNoRemap, MmapSend, MmapSendFails, MmapCount, GetDataSize, GetRead,
         GetReset, GetFault, CbReceive, CbWrite, CbSignal, M4Accept, M4Announce, M4Restart, memVars
    <2>3. ~(Released \subseteq dma)
      BY <2>1, <2>2 DEF rpmsg_sdb_close
    <2> QED
      BY <2>3 DEF Released, ListInv, Freed
  <1> QED
    BY ListInvariant, <1>1, PTL DEF Spec, OtherwiseFreedOnce

------------------------------------------------------------------------------
(* The announcements: the coprocessor never knows more buffers than were     *)
(* sent, and at most one of those sent is not counted yet.                   *)

AtMap(t) == thr[t].at \in {"mapped", "sent"}
OneMaps == \A t, u \in Threads : AtMap(t) /\ AtMap(u) => t = u
Sent == \E t \in Threads : thr[t].at = "sent"
NSent == IF Sent THEN LastBufferId + 1 ELSE LastBufferId

Counted ==
  /\ \A i \in 1 .. Len(fromM4) : fromM4[i].index < Len(m4Bufs)
  /\ isOpen => Len(m4Bufs) + Len(toM4) =< NSent

CountInv == OneMaps /\ Counted /\ NeverRefused

LEMMA CountInit == Init => CountInv
  <1> SUFFICES ASSUME Init PROVE CountInv
    OBVIOUS
  <1>1. \A t \in Threads : thr[t].at = "idle"
    BY DEF Init, Idle
  <1>2. Counted /\ NeverRefused
    BY DEF Init, Counted, NeverRefused
  <1> QED
    BY <1>1, <1>2 DEF CountInv, OneMaps, AtMap

LEMMA CountStep == FwRestarts /\ ListInv /\ CountInv /\ [Next]_vars => CountInv'
  <1> SUFFICES ASSUME FwRestarts, ListInv, CountInv, [Next]_vars PROVE CountInv'
    OBVIOUS
  <1>a. /\ thr \in [Threads -> Thr] /\ LastBufferId \in Nat
        /\ toM4 \in Seq(BufMsg) /\ m4Bufs \in Seq(Nat) /\ fromM4 \in Seq(Announcement)
        /\ Len(toM4) \in Nat /\ Len(m4Bufs) \in Nat /\ Len(fromM4) \in Nat
    <2>1. /\ thr \in [Threads -> Thr] /\ LastBufferId \in Nat
          /\ toM4 \in Seq(BufMsg) /\ m4Bufs \in Seq(Nat) /\ fromM4 \in Seq(Announcement)
      BY DEF ListInv, Typed, TypeOK, ThrTyped, BufMsg, Announcement
    <2> QED
      BY <2>1, SeqDomain
  \* Steps that touch neither the messages nor a thread in mmap.
  <1>b. ASSUME UNCHANGED <<LastBufferId, toM4, m4Bufs, fromM4, refused>>, isOpen' => isOpen,
               \A u \in Threads : \/ thr'[u] = thr[u]
                                  \/ ~AtMap(u) /\ thr'[u].at \notin {"mapped", "sent"}
        PROVE  CountInv'
    <2>1. \A u \in Threads : /\ AtMap(u)' <=> AtMap(u)
                             /\ thr'[u].at = "sent" <=> thr[u].at = "sent"
      BY <1>b DEF AtMap
    <2>2. (Sent' <=> Sent) /\ OneMaps'
      BY <2>1 DEF CountInv, OneMaps, Sent
    <2> QED
      BY <1>b, <2>2 DEF CountInv, Counted, NSent, NeverRefused
  <1>1. CASE rpmsg_sdb_open
    <2>1. /\ toM4' = <<>> /\ m4Bufs' = <<>> /\ fromM4' = <<>> /\ refused' = 0
          /\ UNCHANGED <<thr, LastBufferId>>
      BY <1>1 DEF rpmsg_sdb_open, linkVars
    <2>2. OneMaps' /\ NSent' \in Nat
      BY <1>a, <2>1 DEF CountInv, OneMaps, AtMap, NSent, Sent
    <2> QED
      BY <2>1, <2>2 DEF CountInv, Counted, NeverRefused
  <1>2. CASE rpmsg_sdb_close
    <2>1. UNCHANGED <<thr, toM4, m4Bufs, fromM4, refused>> /\ ~isOpen'
      BY <1>2 DEF rpmsg_sdb_close, linkVars, histVars
    <2> QED
      BY <2>1 DEF CountInv, OneMaps, AtMap, Counted, NeverRefused
  <1>3. ASSUME NEW t \in Threads,
               \/ SetEfd(t) \/ SetEfdAdd(t) \/ SetEfdFault(t) \/ MmapNoMemory(t)
               \/ GetDataSize(t) \/ GetRead(t) \/ GetReset(t) \/ GetFault(t)
        PROVE  CountInv'
    <2>1. UNCHANGED <<LastBufferId, toM4, m4Bufs, fromM4, refused, isOpen>>
      BY <1>3 DEF SetEfd, SetEfdAdd, SetEfdFault, MmapNoMemory, GetDataSize, GetRead, GetReset,
         GetFault, listVars, linkVars, histVars
    <2>2. /\ UNCHANGED thr \/ (~AtMap(t) /\ thr'[t].at \notin {"mapped", "sent"})
          /\ \A u \in Threads \ {t} : thr'[u] = thr[u]
      BY <1>a, <1>3 DEF SetEfd, SetEfdAdd, SetEfdFault, MmapNoMemory, GetDataSize, GetRead,
         GetReset, GetFault, Start, Finish, CanEnter, AtMap, Idle
    <2> QED
      BY <1>b, <2>1, <2>2
  <1>4. ASSUME NEW t \in Threads, Mmap(t) PROVE CountInv'
    <2>1. UNCHANGED <<LastBufferId, toM4, m4Bufs, fromM4, refused, isOpen>>
      BY <1>4 DEF Mmap, linkVars, histVars
    <2>2. \A u \in Threads : thr[u].at \notin {"mapped", "sent"}
      BY <1>4 DEF Mmap, MayMap
    <2>3. thr'[t].at = "mapped" /\ \A u \in Threads \ {t} : thr'[u] = thr[u]
      BY <1>a, <1>4 DEF Mmap, Start
    <2>4. OneMaps' /\ ~Sent' /\ ~Sent
      BY <2>2, <2>3 DEF OneMaps, AtMap, Sent
    <2> QED
      BY <2>1, <2>4 DEF CountInv, Counted, NSent, NeverRefused
  <1>5. ASSUME NEW t \in Threads, AtMap(t),
               MmapNoRemap(t) \/ MmapSend(t) \/ MmapSendFails(t) \/ MmapCount(t)
        PROVE  CountInv'
    <2>1. UNCHANGED <<m4Bufs, fromM4, refused, isOpen>>
      BY <1>5 DEF MmapNoRemap, MmapSend, MmapSendFails, MmapCount, linkVars, histVars
    <2>2. \A u \in Threads \ {t} : ~AtMap(u) /\ thr'[u] = thr[u]
      BY <1>a, <1>5 DEF MmapNoRemap, MmapSend, MmapSendFails, MmapCount, Start,
         Finish, CountInv, OneMaps
    <2>3. OneMaps' /\ (Sent <=> thr[t].at = "sent") /\ (Sent' <=> thr'[t].at = "sent")
      BY <2>2 DEF OneMaps, AtMap, Sent
    <2>4. CASE MmapNoRemap(t)
      <3>1. UNCHANGED <<LastBufferId, toM4>> /\ ~Sent /\ ~Sent'
        BY <1>a, <2>3, <2>4 DEF MmapNoRemap, listVars, linkVars, Finish, Idle
      <3> QED
        BY <2>1, <2>3, <3>1 DEF CountInv, Counted, NSent, NeverRefused
    <2>5. CASE MmapSend(t)
      <3>1. UNCHANGED LastBufferId /\ ~Sent /\ Sent'
        BY <1>a, <2>3, <2>5 DEF MmapSend, listVars, Start
      <3>2. Len(toM4') = Len(toM4) + 1
        BY <1>a, <2>5, SeqAppend DEF MmapSend
      <3> QED
        BY <1>a, <2>1, <2>3, <3>1, <3>2 DEF CountInv, Counted, NSent, NeverRefused
    <2>6. CASE MmapCount(t)
      <3>1. UNCHANGED toM4 /\ Sent /\ ~Sent' /\ LastBufferId' = LastBufferId + 1
        BY <1>a, <2>3, <2>6 DEF MmapCount, linkVars, Finish, Idle
      <3> QED
        BY <1>a, <2>1, <2>3, <3>1 DEF CountInv, Counted, NSent, NeverRefused
    <2>7. CASE MmapSendFails(t)
      <3>1. UNCHANGED <<LastBufferId, toM4>> /\ ~Sent /\ Sent'
        BY <1>a, <2>3, <2>7 DEF MmapSendFails, listVars, linkVars, Start
      <3> QED
        BY <1>a, <2>1, <2>3, <3>1 DEF CountInv, Counted, NSent, NeverRefused
    <2> QED
      BY <1>5, <2>4, <2>5, <2>6, <2>7
  <1>6. CASE CbReceive
    <2> DEFINE m == Head(fromM4)
    <2>1. fromM4 # <<>> /\ fromM4' = Tail(fromM4) /\ UNCHANGED <<isOpen, LastBufferId, thr, toM4, m4Bufs>>
      BY <1>6 DEF CbReceive, listVars
    <2>2. /\ m \in Announcement /\ m = fromM4[1] /\ Len(fromM4) >= 1
          /\ Len(fromM4') = Len(fromM4) - 1
          /\ \A i \in 1 .. Len(fromM4) - 1 : fromM4'[i] = fromM4[i + 1]
      BY <1>a, <2>1, SeqTail
    <2>3. m.index < Len(m4Bufs) /\ m.index \in Nat
      BY <1>a, <2>2 DEF CountInv, Counted, Announcement
    <2>4. ASSUME isOpen PROVE ~TooHigh(m)
      <3>1. Len(m4Bufs) + Len(toM4) =< LastBufferId + 1
        BY <1>a, <2>4 DEF CountInv, Counted, NSent
      <3> QED
        BY <1>a, <2>3, <3>1 DEF TooHigh
    <2>5. refused' = refused
      BY <1>6, <2>4 DEF CbReceive
    <2>6. \A i \in 1 .. Len(fromM4') : fromM4'[i].index < Len(m4Bufs)
      <3> SUFFICES ASSUME NEW i \in 1 .. Len(fromM4') PROVE fromM4'[i].index < Len(m4Bufs)
        OBVIOUS
      <3>1. i \in 1 .. Len(fromM4) - 1 /\ i + 1 \in 1 .. Len(fromM4)
        BY <1>a, <2>2
      <3> QED
        BY <2>2, <3>1 DEF CountInv, Counted
    <2>7. OneMaps' /\ NSent' = NSent
      BY <2>1 DEF CountInv, OneMaps, AtMap, NSent, Sent
    <2> QED
      BY <2>1, <2>5, <2>6, <2>7 DEF CountInv, Counted, NeverRefused
  <1>7. CASE CbWrite \/ CbSignal \/ UNCHANGED vars
    BY <1>b, <1>7 DEF CbWrite, CbSignal, vars, listVars, linkVars, histVars
  <1>8. CASE M4Accept
    <2>1. UNCHANGED <<isOpen, LastBufferId, thr, fromM4, refused>>
      BY <1>8 DEF M4Accept, listVars, histVars
    <2>2. Len(toM4') = Len(toM4) - 1 /\ Len(toM4) >= 1
      BY <1>a, <1>8, SeqTail DEF M4Accept
    <2>3. Len(m4Bufs') = Len(m4Bufs) \/ Len(m4Bufs') = Len(m4Bufs) + 1
      BY <1>a, <1>8, SeqAppend DEF M4Accept
    <2>4. OneMaps' /\ NSent' = NSent /\ NSent \in Nat
      BY <1>a, <2>1 DEF CountInv, OneMaps, AtMap, NSent, Sent
    <2>5. ASSUME NEW i \in 1 .. Len(fromM4) PROVE fromM4[i].index < Len(m4Bufs')
      <3>1. fromM4[i] \in Announcement
        BY <1>a, SeqDomain
      <3>2. fromM4[i].index \in Nat /\ fromM4[i].index < Len(m4Bufs)
        BY <3>1 DEF Announcement, CountInv, Counted
      <3> QED
        BY <1>a, <2>3, <3>2
    <2> QED
      BY <1>a, <2>1, <2>2, <2>3, <2>4, <2>5 DEF CountInv, Counted, NeverRefused
  <1>9. CASE M4Announce
    <2>1. UNCHANGED <<isOpen, LastBufferId, thr, toM4, m4Bufs, refused>>
      BY <1>9 DEF M4Announce, listVars, histVars
    <2>2. PICK i \in 1 .. Len(m4Bufs), n \in Sizes :
            fromM4' = Append(fromM4, [index |-> i - 1, size |-> n, session |-> m4Bufs[i]])
      BY <1>a, <1>9, SeqDomain DEF M4Announce
    <2> DEFINE m == [index |-> i - 1, size |-> n, session |-> m4Bufs[i]]
    <2>3. m.index < Len(m4Bufs)
      BY <1>a
    <2> HIDE DEF m
    <2>4. /\ Len(fromM4') = Len(fromM4) + 1 /\ fromM4'[Len(fromM4) + 1] = m
          /\ \A j \in 1 .. Len(fromM4) : fromM4'[j] = fromM4[j]
      BY <1>a, <2>2, SeqAppend DEF m
    <2>5. \A j \in 1 .. Len(fromM4') : fromM4'[j].index < Len(m4Bufs)
      <3>1. \A j \in 1 .. Len(fromM4) : fromM4'[j].index < Len(m4Bufs)
        BY <2>4 DEF CountInv, Counted
      <3>2. fromM4'[Len(fromM4) + 1].index < Len(m4Bufs)
        BY <2>3, <2>4
      <3>3. \A j \in 1 .. Len(fromM4') : j \in 1 .. Len(fromM4) \/ j = Len(fromM4) + 1
        BY <1>a, <2>4
      <3> QED
        BY <3>1, <3>2, <3>3
    <2>6. OneMaps' /\ NSent' = NSent
      BY <2>1 DEF CountInv, OneMaps, AtMap, NSent, Sent
    <2> QED
      BY <2>1, <2>5, <2>6 DEF CountInv, Counted, NeverRefused
  <1>10. CASE M4Restart
    <2>1. fromM4' = <<>> /\ ~isOpen' /\ UNCHANGED <<thr, refused>>
      BY <1>10 DEF M4Restart, histVars
    <2> QED
      BY <2>1 DEF CountInv, OneMaps, AtMap, Counted, NeverRefused
  <1>11. ASSUME NEW t \in Threads,
                MmapNoRemap(t) \/ MmapSend(t) \/ MmapSendFails(t) \/ MmapCount(t)
         PROVE  AtMap(t)
    BY <1>11 DEF MmapNoRemap, MmapSend, MmapSendFails, MmapCount, AtMap
  <1> QED
    BY <1>1, <1>2, <1>3, <1>4, <1>5, <1>6, <1>7, <1>8, <1>9, <1>10, <1>11
    DEF Next, Setup, Get, Callback

LEMMA CountInvariant ==
  ASSUME FwRestarts
  PROVE  Spec => [](ListInv /\ CountInv)
  <1>1. Init => CountInv
    BY CountInit
  <1>2. ListInv /\ CountInv /\ [Next]_vars => CountInv'
    BY CountStep, FwRestarts
  <1> QED
    BY ListInvariant, <1>1, <1>2, PTL DEF Spec

\* When the firmware is restarted with each session, rpmsg_sdb_drv_cb never turns
\* down an announcement of the session: LastBufferId is counted after the message
\* to the coprocessor, but the test lets the index equal to it pass.
THEOREM NoneRefused ==
  ASSUME FwRestarts
  PROVE  Spec => []NeverRefused
  <1>1. CountInv => NeverRefused
    BY DEF CountInv
  <1> QED
    BY CountInvariant, FwRestarts, <1>1, PTL

------------------------------------------------------------------------------
(* The size that was written: one announcement is under way at a time, and   *)
(* only buffers that were mapped are announced.                              *)

Mapped(o) == entry[o].size = BufSize /\ entry[o].vaddr \in dma

\* The place of a listed entry is its index, so the searches find it.
LEMMA Place ==
  ASSUME ListInv, NEW o \in Listed
  PROVE  /\ entry[o].index \in 0 .. Len(buffer_list) - 1 /\ buffer_list[entry[o].index + 1] = o
         /\ \A p \in Listed : entry[p].index = entry[o].index => p = o
         /\ Search(entry[o].index) = o
  <1>1. Len(buffer_list) \in Nat /\ DOMAIN buffer_list = 1 .. Len(buffer_list)
    BY SeqDomain DEF ListInv, Typed, TypeOK
  <1>2. \A p \in Listed : entry[p].index \in 0 .. Len(buffer_list) - 1
                          /\ buffer_list[entry[p].index + 1] = p
    <2> SUFFICES ASSUME NEW p \in Listed
                 PROVE  entry[p].index \in 0 .. Len(buffer_list) - 1
                        /\ buffer_list[entry[p].index + 1] = p
      OBVIOUS
    <2>1. PICK i \in 1 .. Len(buffer_list) : p = buffer_list[i]
      BY <1>1 DEF Listed
    <2>2. entry[p].index = i - 1
      BY <1>1, <2>1 DEF ListInv, Numbered, IndexIsPosition
    <2> QED
      BY <1>1, <2>1, <2>2
  <1>3. \A p \in Listed : entry[p].index = entry[o].index => p = o
    BY <1>2
  <1> QED
    BY <1>2, <1>3 DEF Search

LEMMA ListGrows ==
  ASSUME ListInv, [Next]_vars, ~rpmsg_sdb_close
  PROVE  /\ Len(buffer_list) =< Len(buffer_list') /\ Len(buffer_list) \in Nat
         /\ Len(buffer_list') \in Nat
         /\ \A i \in 1 .. Len(buffer_list) : buffer_list'[i] = buffer_list[i]
         /\ \A i \in 1 .. Len(buffer_list) : buffer_list[i] \in Listed
  <1>1. Len(buffer_list) \in Nat /\ Len(buffer_list') \in Nat
        /\ DOMAIN buffer_list = 1 .. Len(buffer_list)
    <2>1. buffer_list \in Seq(1 .. created) /\ buffer_list' \in Seq(1 .. created')
      BY TypedStep DEF ListInv, Typed, TypeOK
    <2> QED
      BY <2>1, SeqDomain
  <1>6. \A i \in 1 .. Len(buffer_list) : buffer_list[i] \in Listed
    BY <1>1 DEF Listed
  <1> DEFINE Goal == /\ Len(buffer_list) =< Len(buffer_list')
                     /\ \A i \in 1 .. Len(buffer_list) : buffer_list'[i] = buffer_list[i]
  <1> SUFFICES Goal
    BY <1>1, <1>6
  <1>2. CASE rpmsg_sdb_open
    BY <1>1, <1>2 DEF rpmsg_sdb_open, ListInv, InFile
  <1>3. ASSUME NEW t \in Threads, SetEfdAdd(t) PROVE Goal
    <2>1. Len(buffer_list') = Len(buffer_list) + 1
          /\ \A i \in 1 .. Len(buffer_list) : buffer_list'[i] = buffer_list[i]
      BY <1>3, Added DEF ListInv
    <2> QED
      BY <1>1, <2>1
  <1>4. CASE UNCHANGED buffer_list
    BY <1>1, <1>4
  <1>5. \/ rpmsg_sdb_open \/ UNCHANGED buffer_list \/ \E t \in Threads : SetEfdAdd(t)
    BY DEF Next, Setup, Get, Callback, SetEfd, Mmap, MmapNoMemory, MmapNoRemap, SetEfdFault,
       MmapSend, MmapSendFails, MmapCount, GetDataSize, GetRead, GetReset, GetFault, CbReceive,
       CbWrite, CbSignal, M4Accept, M4Announce, M4Restart, listVars, vars
  <1> HIDE DEF Goal
  <1> QED
    BY <1>2, <1>3, <1>4, <1>5

\* What a step leaves of a listed entry.
LEMMA Kept ==
  ASSUME ListInv, [Next]_vars, ~rpmsg_sdb_close, NEW o \in Listed
  PROVE  /\ o \in Listed'
         /\ overwritten' = {} /\ Mapped(o) =>
              /\ Mapped(o)'
              /\ \/ entry'[o].ws = entry[o].ws
                 \/ CbWrite /\ cb.obj = o
                 \/ \E t \in Threads : GetReset(t) /\ thr[t].obj = o
         /\ entry'[o].written = entry[o].written \/ (CbSignal /\ cb.obj = o)
         /\ \/ entry'[o].events = entry[o].events
            \/ CbSignal /\ cb.obj = o
            \/ (\E t \in Threads : GetDataSize(t)) /\ entry'[o].events = 0
  <1> DEFINE Goal ==
         /\ overwritten' = {} /\ Mapped(o) =>
              /\ Mapped(o)'
              /\ \/ entry'[o].ws = entry[o].ws
                 \/ CbWrite /\ cb.obj = o
                 \/ \E t \in Threads : GetReset(t) /\ thr[t].obj = o
         /\ entry'[o].written = entry[o].written \/ (CbSignal /\ cb.obj = o)
         /\ \/ entry'[o].events = entry[o].events
            \/ CbSignal /\ cb.obj = o
            \/ (\E t \in Threads : GetDataSize(t)) /\ entry'[o].events = 0
  <1>a. /\ entry \in [1 .. created -> Entry] /\ created \in Nat
        /\ Listed \subseteq 1 .. created /\ o \in 1 .. created
        /\ (buffer_list # <<>> => LastEntry \in Listed)
    BY EntryFun, ListedCreated DEF ListInv
  <1>b. ASSUME UNCHANGED dma, entry'[o] = entry[o] PROVE Goal
    BY <1>b DEF Mapped
  <1>1. o \in Listed'
    <2>1. buffer_list \in Seq(1 .. created) /\ buffer_list' \in Seq(1 .. created')
      BY TypedStep DEF ListInv, Typed, TypeOK
    <2>2. DOMAIN buffer_list = 1 .. Len(buffer_list) /\ DOMAIN buffer_list' = 1 .. Len(buffer_list')
      BY <2>1, SeqDomain
    <2>3. PICK i \in 1 .. Len(buffer_list) : o = buffer_list[i]
      BY <2>2 DEF Listed
    <2>4. i \in 1 .. Len(buffer_list') /\ buffer_list'[i] = o
      BY <2>3, ListGrows
    <2> QED
      BY <2>2, <2>4 DEF Listed
  <1> SUFFICES Goal
    BY <1>1
  <1>2. CASE rpmsg_sdb_open
    BY <1>2, <1>b DEF rpmsg_sdb_open, memVars
  <1>3. ASSUME NEW t \in Threads, SetEfdAdd(t) PROVE Goal
    BY <1>3, <1>a, <1>b, Added DEF SetEfdAdd, memVars, ListInv
  <1>4. ASSUME NEW t \in Threads, Mmap(t) \/ MmapNoMemory(t) PROVE Goal
    <2>1. /\ LastEntry \in 1 .. created /\ dma \subseteq dma'
          /\ overwritten' = overwritten \cup (dma \cap {entry[LastEntry].vaddr})
      BY <1>4, <1>a DEF Mmap, MmapNoMemory, MayMap
    <2>2. PICK a : entry' = [entry EXCEPT ![LastEntry].size = BufSize, ![LastEntry].ws = None,
                                          ![LastEntry].vaddr = a]
      BY <1>4 DEF Mmap, MmapNoMemory
    <2>3. CASE o = LastEntry
      <3>1. entry'[o].written = entry[o].written /\ entry'[o].events = entry[o].events
        BY <1>a, <2>1, <2>2, <2>3 DEF Entry
      <3>2. Mapped(o) => overwritten' # {}
        BY <2>1, <2>3 DEF Mapped
      <3> QED
        BY <3>1, <3>2
    <2>4. CASE o # LastEntry
      BY <1>a, <2>1, <2>2, <2>4 DEF Mapped
    <2> QED
      BY <2>3, <2>4
  <1>5. ASSUME NEW t \in Threads, GetDataSize(t) PROVE Goal
    <2>1. PICK p \in 1 .. created : entry' = [entry EXCEPT ![p].events = 0] \/ UNCHANGED entry
      BY <1>5, <1>a DEF GetDataSize, Awaited
    <2>2. UNCHANGED dma
      BY <1>5 DEF GetDataSize, memVars
    <2>3. CASE o = p /\ entry' = [entry EXCEPT ![p].events = 0]
      BY <1>a, <1>5, <2>2, <2>3 DEF Mapped, Entry
    <2>4. CASE o # p \/ UNCHANGED entry
      BY <1>a, <1>b, <2>1, <2>2, <2>4
    <2> QED
      BY <2>1, <2>3, <2>4
  <1>6. ASSUME NEW t \in Threads, GetReset(t) PROVE Goal
    <2>1. UNCHANGED dma /\ entry' = [entry EXCEPT ![thr[t].obj].ws = None] /\ thr[t].obj \in 1 .. created
      BY <1>6 DEF GetReset, memVars, ListInv, Typed, ThrTyped
    <2>2. CASE o = thr[t].obj
      BY <1>a, <1>6, <2>1, <2>2 DEF Mapped, Entry
    <2>3. CASE o # thr[t].obj
      BY <1>a, <1>b, <2>1, <2>3
    <2> QED
      BY <2>2, <2>3
  <1>7. CASE CbWrite
    <2>1. UNCHANGED dma /\ entry' = [entry EXCEPT ![cb.obj].ws = cb.val] /\ cb.obj \in 1 .. created
      BY <1>7 DEF CbWrite, memVars, ListInv, Typed, ThrTyped
    <2>2. CASE o = cb.obj
      BY <1>a, <1>7, <2>1, <2>2 DEF Mapped, Entry
    <2>3. CASE o # cb.obj
      BY <1>a, <1>b, <2>1, <2>3
    <2> QED
      BY <2>2, <2>3
  <1>8. CASE CbSignal
    <2>1. /\ UNCHANGED dma /\ cb.obj \in 1 .. created
          /\ entry' = [entry EXCEPT ![cb.obj].events = @ + 1, ![cb.obj].written = cb.val]
      BY <1>8 DEF CbSignal, memVars, ListInv, Typed, ThrTyped
    <2>2. /\ \A p \in 1 .. created : /\ entry'[p].vaddr = entry[p].vaddr
                                     /\ entry'[p].size = entry[p].size /\ entry'[p].ws = entry[p].ws
          /\ \A p \in (1 .. created) \ {cb.obj} : entry'[p] = entry[p]
      BY <1>a, <2>1, Signalled
    <2>3. CASE o = cb.obj
      BY <1>a, <1>8, <2>1, <2>2, <2>3 DEF Mapped
    <2>4. CASE o # cb.obj
      BY <1>a, <1>b, <2>1, <2>2, <2>4
    <2> QED
      BY <2>3, <2>4
  <1>9. CASE CbReceive \/ M4Accept \/ M4Announce \/ M4Restart \/ UNCHANGED vars
    BY <1>9, <1>b DEF CbReceive, M4Accept, M4Announce, M4Restart, vars, listVars, memVars
  <1>10. ASSUME NEW t \in Threads,
                \/ SetEfd(t) \/ SetEfdFault(t) \/ MmapNoRemap(t) \/ MmapSend(t)
                \/ MmapSendFails(t) \/ MmapCount(t) \/ GetRead(t) \/ GetFault(t)
         PROVE  Goal
    BY <1>10, <1>b DEF SetEfd, MmapNoRemap, SetEfdFault, MmapSend, MmapSendFails, MmapCount,
       GetRead, GetFault, listVars, memVars
  <1> HIDE DEF Goal
  <1> QED
    BY <1>2, <1>3, <1>4, <1>5, <1>6, <1>7, <1>8, <1>9, <1>10 DEF Next, Setup, Get, Callback

\* The coprocessor is told only of buffers that have their memory, and they keep
\* it as long as no buffer is mapped a second time.
Known(i) == i < Len(buffer_list) /\ Mapped(buffer_list[i + 1])
Told ==
  overwritten = {} =>
    /\ \A t \in Threads : AtMap(t) => thr[t].obj \in Listed /\ Mapped(thr[t].obj)
    /\ isOpen => /\ \A i \in 1 .. Len(toM4) : Known(toM4[i].index)
                 /\ \A i \in 1 .. Len(m4Bufs) : Known(i - 1)

\* Memory lost stays lost: no step empties the set of what was overwritten.
LEMMA NotOverwritten == [Next]_vars /\ overwritten' = {} => overwritten = {}
  BY DEF Next, Setup, Get, Callback, rpmsg_sdb_open, rpmsg_sdb_close, SetEfd, SetEfdAdd,
     SetEfdFault, Mmap, MmapNoMemory, MmapNoRemap, MmapSend, MmapSendFails, MmapCount, GetDataSize,
     GetRead, GetReset, GetFault, CbReceive, CbWrite, CbSignal, M4Accept, M4Announce, M4Restart,
     memVars, vars

LEMMA ToldStep == FwRestarts /\ ListInv /\ Told /\ [Next]_vars => Told'
  <1> SUFFICES ASSUME FwRestarts, ListInv, Told, [Next]_vars, overwritten' = {} PROVE Told'
    BY DEF Told
  <1>a. /\ thr \in [Threads -> Thr] /\ toM4 \in Seq(BufMsg) /\ m4Bufs \in Seq(Nat)
        /\ Len(toM4) \in Nat /\ Len(m4Bufs) \in Nat /\ entry \in [1 .. created -> Entry]
        /\ Listed \subseteq 1 .. created /\ (buffer_list # <<>> => LastEntry \in Listed)
    <2>1. thr \in [Threads -> Thr] /\ toM4 \in Seq(BufMsg) /\ m4Bufs \in Seq(Nat)
      BY DEF ListInv, Typed, TypeOK, ThrTyped, BufMsg
    <2> QED
      BY <2>1, SeqDomain, EntryFun, ListedCreated DEF ListInv
  <1>b. /\ \A t \in Threads : AtMap(t) => thr[t].obj \in Listed /\ Mapped(thr[t].obj)
        /\ isOpen => /\ \A i \in 1 .. Len(toM4) : Known(toM4[i].index)
                     /\ \A i \in 1 .. Len(m4Bufs) : Known(i - 1)
    BY NotOverwritten DEF Told
  <1>1. CASE rpmsg_sdb_close
    BY <1>1 DEF rpmsg_sdb_close, Told, AtMap
  <1> SUFFICES ASSUME ~rpmsg_sdb_close PROVE Told'
    BY <1>1
  <1> DEFINE KnownNext(i) == /\ i < Len(buffer_list')
                             /\ entry'[buffer_list'[i + 1]].size = BufSize
                             /\ entry'[buffer_list'[i + 1]].vaddr \in dma'
  <1>2. ASSUME NEW i \in Nat, Known(i) PROVE KnownNext(i)
    <2>1. i + 1 \in 1 .. Len(buffer_list)
      BY <1>2, ListGrows DEF Known
    <2>2. /\ i < Len(buffer_list') /\ buffer_list'[i + 1] = buffer_list[i + 1]
          /\ buffer_list[i + 1] \in Listed
      BY <2>1, ListGrows
    <2>3. entry'[buffer_list[i + 1]].size = BufSize /\ entry'[buffer_list[i + 1]].vaddr \in dma'
      <3> DEFINE o == buffer_list[i + 1]
      <3>1. o \in Listed /\ Mapped(o)
        BY <1>2, <2>2 DEF Known
      <3> HIDE DEF o
      <3>2. entry'[o].size = BufSize /\ entry'[o].vaddr \in dma'
        BY <3>1, Kept DEF Mapped
      <3> QED
        BY <3>2 DEF o
    <2> QED
      BY <2>2, <2>3
  <1> HIDE DEF KnownNext
  <1>3. ASSUME NEW t \in Threads, AtMap(t)' PROVE (thr[t].obj \in Listed /\ Mapped(thr[t].obj))'
    <2>1. CASE Mmap(t)
      <3>1. /\ LastEntry \in Listed /\ thr'[t].obj = LastEntry
            /\ entry' = [entry EXCEPT ![LastEntry].size = BufSize, ![LastEntry].ws = None,
                                      ![LastEntry].vaddr = memories + 1]
            /\ dma' = dma \cup {memories + 1}
        BY <1>a, <2>1 DEF Mmap, MayMap, Start
      <3>2. LastEntry \in 1 .. created
        BY <1>a, <3>1
      <3>3. entry'[LastEntry].size = BufSize /\ entry'[LastEntry].vaddr \in dma'
        BY <1>a, <3>1, <3>2 DEF Entry
      <3> QED
        BY <3>1, <3>3, Kept DEF Mapped
    <2>2. CASE AtMap(t) /\ thr'[t].obj = thr[t].obj
      <3> DEFINE o == thr[t].obj
      <3>1. o \in Listed /\ Mapped(o)
        BY <1>b, <2>2
      <3> HIDE DEF o
      <3>2. o \in Listed' /\ entry'[o].size = BufSize /\ entry'[o].vaddr \in dma'
        BY <3>1, Kept DEF Mapped
      <3> QED
        BY <2>2, <3>2 DEF o, Mapped
    <2>3. Mmap(t) \/ (AtMap(t) /\ thr'[t].obj = thr[t].obj)
      <3>1. ASSUME NEW u \in Threads, Setup(u) \/ Get(u), ~Mmap(t)
            PROVE  AtMap(t) /\ thr'[t].obj = thr[t].obj
        <4>1. CASE t # u
          <5>1. thr'[t] = thr[t]
            BY <1>a, <3>1, <4>1 DEF Setup, Get, SetEfd, SetEfdAdd, SetEfdFault, Mmap, MmapNoMemory,
               MmapNoRemap, MmapSend, MmapSendFails, MmapCount, GetDataSize, GetRead, GetReset,
               GetFault, Start, Finish
          <5> QED
            BY <1>3, <5>1 DEF AtMap
        <4>2. CASE t = u /\ ~MmapSend(t) /\ ~MmapSendFails(t) /\ ~MmapNoMemory(t)
          <5>1. thr'[t].at \in {"idle", "setefd", "found", "got"}
            BY <1>a, <3>1, <4>2 DEF Setup, Get, SetEfd, SetEfdAdd, SetEfdFault, MmapNoRemap,
               MmapCount, GetDataSize, GetRead, GetReset, GetFault, Start, Finish, Idle
          <5> QED
            BY <1>3, <5>1 DEF AtMap
        <4>3. CASE t = u /\ (MmapSend(t) \/ MmapSendFails(t) \/ MmapNoMemory(t))
          BY <1>a, <1>3, <4>3 DEF MmapSend, MmapSendFails, MmapNoMemory, Start, AtMap
        <4> QED
          BY <4>1, <4>2, <4>3
      <3>2. CASE UNCHANGED thr
        BY <1>3, <3>2 DEF AtMap
      <3> QED
        BY <3>1, <3>2 DEF Next, Callback, rpmsg_sdb_open, CbReceive, CbWrite, CbSignal, M4Accept,
           M4Announce, M4Restart, vars
    <2> QED
      BY <2>1, <2>2, <2>3
  <1>4. ASSUME isOpen'
        PROVE  /\ \A i \in 1 .. Len(toM4') : KnownNext(toM4'[i].index)
               /\ \A i \in 1 .. Len(m4Bufs') : KnownNext(i - 1)
    <2> DEFINE Goal == /\ \A i \in 1 .. Len(toM4') : KnownNext(toM4'[i].index)
                       /\ \A i \in 1 .. Len(m4Bufs') : KnownNext(i - 1)
    <2>1. CASE rpmsg_sdb_open
      BY <2>1 DEF rpmsg_sdb_open, linkVars
    <2> SUFFICES ASSUME ~rpmsg_sdb_open PROVE Goal
      BY <2>1
    <2>2. UNCHANGED isOpen /\ isOpen
      BY <1>4 DEF Next, Setup, Get, Callback, SetEfd, SetEfdAdd, SetEfdFault, Mmap, MmapNoMemory,
         MmapNoRemap, MmapSend, MmapSendFails, MmapCount, GetDataSize, GetRead, GetReset, GetFault,
         CbReceive, CbWrite, CbSignal, M4Accept, M4Announce, M4Restart, vars
    <2>3. /\ \A i \in 1 .. Len(toM4) : KnownNext(toM4[i].index)
          /\ \A i \in 1 .. Len(m4Bufs) : KnownNext(i - 1)
      <3>1. ASSUME NEW i \in 1 .. Len(toM4) PROVE toM4[i].index \in Nat
        <4>1. toM4[i] \in BufMsg
          BY <1>a, SeqDomain
        <4> QED
          BY <4>1 DEF BufMsg
      <3>2. \A i \in 1 .. Len(m4Bufs) : i - 1 \in Nat
        BY <1>a
      <3> QED
        BY <1>2, <1>b, <2>2, <3>1, <3>2
    <2>4. CASE UNCHANGED <<toM4, m4Bufs>>
      BY <2>3, <2>4
    <2>5. ASSUME NEW t \in Threads, MmapSend(t) PROVE Goal
      <3> DEFINE m == [index |-> entry[thr[t].obj].index, session |-> session]
      <3>1. thr[t].obj \in Listed /\ Mapped(thr[t].obj)
        BY <1>b, <2>5 DEF MmapSend, AtMap
      <3>2. m.index \in Nat /\ Known(m.index)
        BY <3>1, Place, ListGrows DEF Known
      <3>3. KnownNext(m.index)
        BY <1>2, <3>2
      <3> HIDE DEF m
      <3>4. toM4' = Append(toM4, m) /\ UNCHANGED m4Bufs
        BY <2>5 DEF MmapSend, m
      <3>5. /\ Len(toM4') = Len(toM4) + 1 /\ toM4'[Len(toM4) + 1] = m
            /\ \A i \in 1 .. Len(toM4) : toM4'[i] = toM4[i]
        BY <1>a, <3>4, SeqAppend
      <3>6. \A i \in 1 .. Len(toM4') : i \in 1 .. Len(toM4) \/ i = Len(toM4) + 1
        BY <1>a, <3>5
      <3> QED
        BY <2>3, <3>3, <3>4, <3>5, <3>6
    <2>6. CASE M4Accept
      <3> DEFINE h == Head(toM4)
      <3>1. toM4 # <<>> /\ toM4' = Tail(toM4)
            /\ m4Bufs' = IF h.index = Len(m4Bufs) THEN Append(m4Bufs, h.session) ELSE m4Bufs
        BY <2>6 DEF M4Accept
      <3>2. /\ h = toM4[1] /\ Len(toM4) >= 1 /\ Len(toM4') = Len(toM4) - 1
            /\ \A i \in 1 .. Len(toM4) - 1 : toM4'[i] = toM4[i + 1]
        BY <1>a, <3>1, SeqTail
      <3>3. \A i \in 1 .. Len(toM4') : i \in 1 .. Len(toM4) - 1 /\ i + 1 \in 1 .. Len(toM4)
        BY <1>a, <3>2
      <3>4. \A i \in 1 .. Len(toM4') : KnownNext(toM4'[i].index)
        BY <2>3, <3>2, <3>3
      <3>5. CASE h.index = Len(m4Bufs)
        <4>1. Len(m4Bufs') = Len(m4Bufs) + 1
          BY <1>a, <3>1, <3>5, SeqAppend
        <4>2. 1 \in 1 .. Len(toM4)
          BY <1>a, <3>2
        <4>3. KnownNext((Len(m4Bufs) + 1) - 1)
          <5>1. (Len(m4Bufs) + 1) - 1 = h.index
            BY <1>a, <3>5
          <5> QED
            BY <2>3, <3>2, <4>2, <5>1
        <4>4. \A i \in 1 .. Len(m4Bufs') : i \in 1 .. Len(m4Bufs) \/ i = Len(m4Bufs) + 1
          BY <1>a, <4>1
        <4> QED
          BY <2>3, <3>4, <4>3, <4>4
      <3>6. CASE h.index # Len(m4Bufs)
        BY <2>3, <3>1, <3>4, <3>6
      <3> QED
        BY <3>5, <3>6
    <2>7. \/ UNCHANGED <<toM4, m4Bufs>> \/ M4Accept \/ \E t \in Threads : MmapSend(t)
      BY <1>4, <2>2 DEF Next, Setup, Get, Callback, SetEfd, SetEfdAdd, SetEfdFault, Mmap,
         MmapNoMemory, MmapNoRemap, MmapSend, MmapSendFails, MmapCount, GetDataSize, GetRead,
         GetReset, GetFault, CbReceive, CbWrite, CbSignal, M4Announce, M4Restart, vars, linkVars
    <2> HIDE DEF Goal
    <2> QED
      BY <2>4, <2>5, <2>6, <2>7
  <1> QED
    BY <1>3, <1>4 DEF Told, KnownNext, Known, Mapped

\* With the handshake there is one announcement, event or read at a time.
OneReader == \A t, u \in Readers : t = u
Getting(t) == thr[t].at \in {"found", "got"}
Quiet == fromM4 = <<>> /\ cb.at = "idle"
NoEvent == \A o \in Listed : entry[o].events = 0

OneToken ==
  /\ ~Quiet => NoEvent
  /\ fromM4 # <<>> => cb.at = "idle" /\ Len(fromM4) = 1
  /\ \A t \in Threads : Getting(t) => t \in Readers /\ Quiet /\ NoEvent
  /\ \A o, p \in Listed : entry[o].events # 0 /\ entry[p].events # 0 => o = p

\* An entry is listed from the moment it is created, and no event is pending then.
LEMMA NewListed ==
  ASSUME ListInv, [Next]_vars, NEW o \in Listed'
  PROVE  /\ ~rpmsg_sdb_close
         /\ o \in Listed \/ (o = created + 1 /\ entry'[o].events = 0)
  <1>1. ~rpmsg_sdb_close /\ ~rpmsg_sdb_open
    BY DEF rpmsg_sdb_close, rpmsg_sdb_open, Listed
  <1> SUFFICES o \in Listed \/ (o = created + 1 /\ entry'[o].events = 0)
    BY <1>1
  <1>2. ASSUME NEW t \in Threads, SetEfdAdd(t)
        PROVE  o \in Listed \/ (o = created + 1 /\ entry'[o].events = 0)
    <2>1. /\ Listed' = Listed \cup {created + 1}
          /\ entry'[created + 1] = [index |-> thr[t].val, size |-> Garbage, ws |-> Garbage,
                                   vaddr |-> Garbage, events |-> 0, written |-> None,
                                   session |-> session, freed |-> FALSE]
      BY <1>2, Added DEF ListInv
    <2>2. entry'[created + 1].events = 0
      BY <2>1
    <2> QED
      BY <2>1, <2>2
  <1>3. CASE UNCHANGED buffer_list
    BY <1>3 DEF Listed
  <1>4. UNCHANGED buffer_list \/ \E t \in Threads : SetEfdAdd(t)
    BY <1>1 DEF Next, Setup, Get, Callback, SetEfd, Mmap, MmapNoMemory, MmapNoRemap, SetEfdFault,
       MmapSend, MmapSendFails, MmapCount, GetDataSize, GetRead, GetReset, GetFault, CbReceive,
       CbWrite, CbSignal, M4Accept, M4Announce, M4Restart, listVars, vars
  <1> QED
    BY <1>1, <1>2, <1>3, <1>4

LEMMA TokenStep ==
  ASSUME Handshake, ReadersWait, OneReader, ListInv, OneToken, [Next]_vars
  PROVE  OneToken'
  <1>a. thr \in [Threads -> Thr] /\ fromM4 \in Seq(Announcement) /\ Len(fromM4) \in Nat
        /\ entry \in [1 .. created -> Entry] /\ Listed \subseteq 1 .. created
    <2>1. thr \in [Threads -> Thr] /\ fromM4 \in Seq(Announcement)
      BY DEF ListInv, Typed, TypeOK, ThrTyped, Announcement
    <2> QED
      BY <2>1, SeqDomain, EntryFun, ListedCreated DEF ListInv
  <1>e. ASSUME ~CbSignal, NEW o \in Listed'
        PROVE  entry'[o].events = 0 \/ (o \in Listed /\ entry'[o].events = entry[o].events)
    BY <1>e, NewListed, Kept
  <1>f. ASSUME ~CbSignal
        PROVE  /\ NoEvent => NoEvent'
               /\ \A o, p \in Listed' : entry'[o].events # 0 /\ entry'[p].events # 0 => o = p
    BY <1>e, <1>f DEF NoEvent, OneToken
  \* Steps that move neither the announcement nor the reader.
  <1>b. ASSUME ~CbSignal, UNCHANGED <<fromM4, cb>>, \A t \in Threads : Getting(t)' => Getting(t)
        PROVE  OneToken'
    BY <1>b, <1>f DEF OneToken, Quiet
  <1>1. CASE CbSignal
    <2>1. cb.at = "signal" /\ cb' = Idle /\ UNCHANGED <<fromM4, thr, buffer_list>>
          /\ entry' = [entry EXCEPT ![cb.obj].events = @ + 1, ![cb.obj].written = cb.val]
      BY <1>1 DEF CbSignal, linkVars
    <2>2. ~Quiet /\ NoEvent /\ fromM4 = <<>> /\ \A t \in Threads : ~Getting(t)
      BY <2>1 DEF OneToken, Quiet
    <2>3. \A t \in Threads : ~Getting(t)'
      BY <2>1, <2>2 DEF Getting
    <2>4. Quiet' /\ fromM4' = <<>>
      BY <2>1, <2>2 DEF Quiet, Idle
    <2>5. \A o \in Listed' : entry'[o].events # 0 => o = cb.obj
      <3>1. Listed' = Listed
        BY <2>1 DEF Listed
      <3>2. cb.obj \in 1 .. created /\ created \in Nat
        BY <2>1, EntryFun DEF ListInv, Typed, ThrTyped
      <3>3. \A o \in (1 .. created) \ {cb.obj} : entry'[o] = entry[o]
        BY <1>a, <2>1, <3>2, Signalled
      <3> QED
        BY <1>a, <2>2, <3>1, <3>3 DEF NoEvent
    <2> QED
      BY <2>3, <2>4, <2>5 DEF OneToken
  <1>2. ASSUME NEW t \in Threads, GetDataSize(t) PROVE OneToken'
    <2>1. /\ t \in Readers /\ thr[t].at = "idle" /\ UNCHANGED <<fromM4, cb, buffer_list>>
      BY <1>2 DEF GetDataSize, CanEnter, linkVars
    <2>2. \A u \in Threads : ~Getting(u)
      BY <2>1 DEF OneToken, OneReader, Getting
    <2>3. PICK o \in Listed : entry[o].events > 0 /\ entry' = [entry EXCEPT ![o].events = 0]
                              /\ Start(t, "found", Search(entry[o].index), 0)
      BY <1>2, ReadersWait DEF GetDataSize, Awaited
    <2>4. entry[o].events # 0
      <3>1. entry[o].events > 0 /\ entry[o] \in Entry
        BY <1>a, <2>3
      <3> QED
        BY <3>1 DEF Entry
    <2>5. Quiet
      BY <2>4 DEF OneToken, NoEvent
    <2>6. NoEvent'
      <3>1. Listed' = Listed
        BY <2>1 DEF Listed
      <3>2. \A p \in Listed : entry'[p].events = 0
        BY <1>a, <2>3, <2>4 DEF OneToken, Entry
      <3> QED
        BY <3>1, <3>2 DEF NoEvent
    <2>7. Quiet'
      BY <2>1, <2>5 DEF Quiet
    <2>8. \A u \in Threads : Getting(u)' => u = t
      BY <1>a, <2>2, <2>3 DEF Getting, Start
    <2> QED
      BY <2>1, <2>6, <2>7, <2>8 DEF OneToken, NoEvent, Quiet
  <1> SUFFICES ASSUME ~CbSignal PROVE OneToken'
    BY <1>1
  <1>3. CASE CbReceive
    <2>1. fromM4 # <<>> /\ fromM4' = Tail(fromM4) /\ UNCHANGED thr
      BY <1>3 DEF CbReceive
    <2>2. ~Quiet /\ NoEvent /\ Len(fromM4) = 1 /\ \A t \in Threads : ~Getting(t)
      BY <2>1 DEF OneToken, Quiet
    <2>3. fromM4' = <<>>
      <3>1. fromM4' \in Seq(Announcement) /\ Len(fromM4') = 0
        BY <1>a, <2>1, <2>2, SeqTail
      <3> QED
        BY <3>1
    <2>4. \A t \in Threads : ~Getting(t)'
      BY <2>1, <2>2 DEF Getting
    <2> QED
      BY <1>f, <2>2, <2>3, <2>4 DEF OneToken
  <1>4. CASE CbWrite
    <2>1. cb.at = "found" /\ UNCHANGED <<fromM4, thr>>
      BY <1>4 DEF CbWrite, linkVars
    <2>2. ~Quiet /\ NoEvent /\ fromM4 = <<>> /\ \A t \in Threads : ~Getting(t)
      BY <2>1 DEF OneToken, Quiet
    <2>3. \A t \in Threads : ~Getting(t)'
      BY <2>1, <2>2 DEF Getting
    <2> QED
      BY <1>f, <2>1, <2>2, <2>3 DEF OneToken
  <1>5. CASE M4Announce
    <2>1. AllRead /\ UNCHANGED <<thr, cb>>
      BY <1>5 DEF M4Announce
    <2>2. fromM4 = <<>> /\ cb'.at = "idle" /\ NoEvent /\ \A t \in Threads : ~Getting(t)'
      BY <2>1 DEF AllRead, NoEvent, Getting
    <2>3. Len(fromM4') = 1
      <3>1. PICK m : fromM4' = Append(fromM4, m)
        BY <1>5 DEF M4Announce
      <3> QED
        BY <2>2, <3>1
    <2> QED
      BY <1>f, <2>2, <2>3 DEF OneToken
  <1>6. CASE M4Restart
    <2>1. fromM4' = <<>> /\ cb.at = "idle" /\ UNCHANGED <<thr, cb>>
      BY <1>6 DEF M4Restart
    <2>2. Quiet' /\ \A t \in Threads : Getting(t)' => Getting(t)
      BY <2>1 DEF Quiet, Getting
    <2> QED
      BY <1>f, <2>1, <2>2 DEF OneToken
  <1>7. ASSUME NEW t \in Threads, Setup(t) \/ GetRead(t) \/ GetReset(t) \/ GetFault(t)
        PROVE  OneToken'
    <2>1. UNCHANGED <<fromM4, cb>>
      BY <1>7 DEF Setup, SetEfd, SetEfdAdd, SetEfdFault, Mmap, MmapNoMemory, MmapNoRemap, MmapSend,
         MmapSendFails, MmapCount, GetRead, GetReset, GetFault, linkVars
    <2>2. \A u \in Threads \ {t} : thr'[u] = thr[u]
      BY <1>a, <1>7 DEF Setup, SetEfd, SetEfdAdd, SetEfdFault, Mmap, MmapNoMemory, MmapNoRemap,
         MmapSend, MmapSendFails, MmapCount, GetRead, GetReset, GetFault, Start, Finish
    <2>3. thr'[t] = thr[t] \/ thr'[t].at \notin {"found", "got"} \/ Getting(t)
      <3>1. CASE GetRead(t)
        BY <3>1 DEF GetRead, Getting
      <3>2. CASE Setup(t) \/ GetReset(t) \/ GetFault(t)
        BY <1>a, <3>2 DEF Setup, SetEfd, SetEfdAdd, SetEfdFault, Mmap, MmapNoMemory, MmapNoRemap,
           MmapSend, MmapSendFails, MmapCount, GetReset, GetFault, Start, Finish, Idle
      <3> QED
        BY <1>7, <3>1, <3>2
    <2>4. \A u \in Threads : Getting(u)' => Getting(u)
      BY <2>2, <2>3 DEF Getting
    <2> QED
      BY <1>b, <2>1, <2>4
  <1>8. CASE rpmsg_sdb_open \/ rpmsg_sdb_close \/ M4Accept \/ UNCHANGED vars
    <2>1. UNCHANGED <<fromM4, cb, thr>>
      BY <1>8 DEF rpmsg_sdb_open, rpmsg_sdb_close, M4Accept, vars, linkVars
    <2> QED
      BY <1>b, <2>1 DEF Getting
  <1> QED
    BY <1>2, <1>3, <1>4, <1>5, <1>6, <1>7, <1>8 DEF Next, Get, Callback

\* What the callback recorded stays in the entry until the reader has it.
Good(o, n) == Mapped(o) /\ entry[o].ws = n /\ n \in 0 .. BufSize
Values ==
  overwritten = {} =>
    /\ cb.obj \in Listed => /\ cb.at = "found" => Mapped(cb.obj)
                            /\ cb.at = "signal" => Good(cb.obj, cb.val)
    /\ \A o \in Listed : entry[o].events # 0 => Good(o, entry[o].written)
    /\ \A t \in Threads :
         /\ thr[t].at = "found" => thr[t].obj \in Listed /\ Good(thr[t].obj, entry[thr[t].obj].written)
         /\ thr[t].at = "got" => /\ thr[t].obj \in Listed /\ thr[t].val = entry[thr[t].obj].written
                                 /\ thr[t].val \in 0 .. BufSize

LEMMA ValuesStep ==
  ASSUME ReadersWait, OneReader, ListInv, CountInv, Told, OneToken, Values, [Next]_vars
  PROVE  Values'
  <1> SUFFICES ASSUME overwritten' = {} PROVE Values'
    BY DEF Values
  <1>a. overwritten = {}
    BY NotOverwritten
  <1>b. /\ thr \in [Threads -> Thr] /\ cb \in Cb /\ created \in Nat /\ cb.obj \in 0 .. created
        /\ entry \in [1 .. created -> Entry] /\ Listed \subseteq 1 .. created
    BY EntryFun, ListedCreated DEF ListInv, Typed, ThrTyped
  <1>c. /\ cb.obj \in Listed /\ cb.at = "found" => Mapped(cb.obj)
        /\ cb.obj \in Listed /\ cb.at = "signal" => Good(cb.obj, cb.val)
        /\ \A o \in Listed : entry[o].events # 0 => Good(o, entry[o].written)
        /\ \A t \in Threads :
             /\ thr[t].at = "found" => thr[t].obj \in Listed
                                       /\ Good(thr[t].obj, entry[thr[t].obj].written)
             /\ thr[t].at = "got" => /\ thr[t].obj \in Listed /\ thr[t].val = entry[thr[t].obj].written
                                     /\ thr[t].val \in 0 .. BufSize
    BY <1>a DEF Values
  <1>1. CASE rpmsg_sdb_close
    <2>1. buffer_list' = <<>> /\ \A t \in Threads : thr'[t].at = "idle"
      BY <1>1 DEF rpmsg_sdb_close
    <2>2. Listed' = {}
      BY <2>1 DEF Listed
    <2> QED
      BY <2>1, <2>2 DEF Values
  <1> SUFFICES ASSUME ~rpmsg_sdb_close PROVE Values'
    BY <1>1
  \* Whoever else is at work, the size in a good entry stays.
  <1> DEFINE GoodNext(o, n) == /\ entry'[o].size = BufSize /\ entry'[o].vaddr \in dma'
                               /\ entry'[o].ws = n /\ n \in 0 .. BufSize
  <1>2. ASSUME NEW o \in Listed, NEW n, Good(o, n), ~CbWrite, \A t \in Threads : ~GetReset(t)
        PROVE  GoodNext(o, n)
    BY <1>2, Kept DEF Good, Mapped
  <1>3. ASSUME NEW o \in Listed, Mapped(o)
        PROVE  entry'[o].size = BufSize /\ entry'[o].vaddr \in dma'
    BY <1>3, Kept DEF Mapped
  <1>4. ASSUME CbWrite \/ CbSignal PROVE ~Quiet /\ NoEvent /\ \A t \in Threads : ~Getting(t)
    <2>1. ~Quiet
      BY <1>4 DEF CbWrite, CbSignal, Quiet
    <2> QED
      BY <2>1 DEF OneToken
  <1>5. ASSUME NEW t \in Threads, GetReset(t)
        PROVE  Quiet /\ NoEvent /\ \A u \in Threads : Getting(u) => u = t
    <2>1. Getting(t)
      BY <1>5 DEF GetReset, Getting
    <2> QED
      BY <2>1 DEF OneToken, OneReader
  <1>6. /\ cb'.obj \in Listed' /\ cb'.at = "found" =>
             entry'[cb'.obj].size = BufSize /\ entry'[cb'.obj].vaddr \in dma'
        /\ cb'.obj \in Listed' /\ cb'.at = "signal" => GoodNext(cb'.obj, cb'.val)
    <2>1. CASE cb' = cb
      <3>1. cb.obj \in Listed' => cb.obj \in Listed
        BY <1>b, NewListed
      <3>2. CASE cb.obj \in Listed' /\ cb.at = "found"
        BY <1>c, <1>3, <2>1, <3>1, <3>2
      <3>3. CASE cb.obj \in Listed' /\ cb.at = "signal"
        <4>1. ~Quiet /\ ~CbWrite
          BY <3>3 DEF Quiet, CbWrite
        <4>2. \A t \in Threads : ~GetReset(t)
          BY <1>5, <4>1
        <4> QED
          BY <1>c, <1>2, <2>1, <3>1, <3>3, <4>1, <4>2
      <3> QED
        BY <2>1, <3>2, <3>3
    <2>2. CASE CbReceive
      <3> DEFINE m == Head(fromM4)
                 match == {o \in Listed : entry[o].index = m.index}
                 obj == CHOOSE o \in match : TRUE
      <3>1. /\ fromM4 # <<>>
            /\ cb' = Idle \/ (match # {} /\ cb' = [at |-> "found", obj |-> obj, val |-> m.size])
            /\ UNCHANGED <<entry, dma>>
        BY <2>2 DEF CbReceive, listVars, memVars
      <3>2. ASSUME match # {} PROVE Mapped(obj)
        <4>1. obj \in Listed /\ entry[obj].index = m.index
          BY <3>2
        <4>2. m.index < Len(m4Bufs) /\ m.index \in Nat /\ Len(m4Bufs) \in Nat
          <5>1. fromM4 \in Seq(Announcement) /\ m4Bufs \in Seq(Nat)
            BY DEF ListInv, Typed, TypeOK, Announcement
          <5>2. m \in Announcement /\ m = fromM4[1] /\ 1 \in 1 .. Len(fromM4) /\ Len(m4Bufs) \in Nat
            BY <3>1, <5>1, SeqTail, SeqDomain
          <5> QED
            BY <5>2 DEF CountInv, Counted, Announcement
        <4>3. isOpen
          BY <4>1 DEF Listed, ListInv, InFile
        <4>4. Known((m.index + 1) - 1)
          <5>1. m.index + 1 \in 1 .. Len(m4Bufs)
            BY <4>2
          <5> QED
            BY <1>a, <4>3, <5>1 DEF Told
        <4>5. buffer_list[m.index + 1] = obj
          BY <4>1, Place
        <4> QED
          <5>1. (m.index + 1) - 1 = m.index
            BY <4>2
          <5>2. Known(m.index)
            BY <4>4, <5>1
          <5> QED
            BY <4>5, <5>2 DEF Known
      <3> HIDE DEF match, obj, m
      <3> QED
        BY <3>1, <3>2 DEF Idle, Mapped
    <2>3. CASE CbWrite
      <3>1. /\ cb.at = "found" /\ entry' = [entry EXCEPT ![cb.obj].ws = cb.val]
            /\ cb' = Idle \/ (FitsIn(cb.val, entry[cb.obj].size) /\ cb' = [cb EXCEPT !.at = "signal"])
            /\ Listed' = Listed
        BY <2>3 DEF CbWrite, Listed
      <3>2. ASSUME cb.obj \in Listed, FitsIn(cb.val, entry[cb.obj].size)
            PROVE  GoodNext(cb.obj, cb.val)
        <4>1. Mapped(cb.obj) /\ cb.obj \in 1 .. created
          BY <1>b, <1>c, <3>1, <3>2
        <4>2. cb.val \in 0 .. BufSize
          <5>1. cb.val \in Nat /\ entry[cb.obj].size = BufSize /\ BufSize \in Nat
            BY <1>b, <4>1, SdbAssumption DEF Cb, Mapped
          <5> QED
            BY <3>2, <5>1 DEF FitsIn, Garbage
        <4>3. entry'[cb.obj].ws = cb.val
          BY <1>b, <3>1, <4>1 DEF Entry
        <4> QED
          BY <1>3, <3>2, <4>1, <4>2, <4>3
      <3>3. /\ cb'.at # "found"
            /\ cb'.at = "signal" => /\ FitsIn(cb.val, entry[cb.obj].size)
                                    /\ cb'.obj = cb.obj /\ cb'.val = cb.val
        BY <1>b, <3>1 DEF Idle, Cb
      <3> QED
        BY <3>1, <3>2, <3>3
    <2>4. CASE CbSignal
      BY <2>4 DEF CbSignal, Idle
    <2>5. cb' = cb \/ CbReceive \/ CbWrite \/ CbSignal
      BY DEF Next, Setup, Get, Callback, rpmsg_sdb_open, SetEfd, SetEfdAdd, SetEfdFault, Mmap,
         MmapNoMemory, MmapNoRemap, MmapSend, MmapSendFails, MmapCount, GetDataSize, GetRead,
         GetReset, GetFault, M4Accept, M4Announce, M4Restart, vars
    <2> HIDE DEF GoodNext
    <2> QED
      BY <2>1, <2>2, <2>3, <2>4, <2>5
  <1>7. ASSUME NEW o \in Listed', entry'[o].events # 0 PROVE GoodNext(o, entry'[o].written)
    <2>1. o \in Listed
      BY <1>7, NewListed
    <2>2. CASE CbSignal /\ cb.obj = o
      <3>1. cb.at = "signal" /\ Good(o, cb.val)
        BY <1>c, <2>1, <2>2 DEF CbSignal
      <3>2. ~CbWrite /\ \A t \in Threads : ~GetReset(t)
        BY <1>4, <1>5, <2>2 DEF CbSignal, CbWrite
      <3>3. entry'[o].written = cb.val
        <4>1. entry' = [entry EXCEPT ![cb.obj].events = @ + 1, ![cb.obj].written = cb.val]
          BY <2>2 DEF CbSignal
        <4> QED
          BY <1>b, <2>1, <2>2, <4>1, Signalled
      <3> QED
        BY <1>2, <2>1, <3>1, <3>2, <3>3
    <2>3. CASE ~(CbSignal /\ cb.obj = o)
      <3>1. entry'[o].events = entry[o].events /\ entry'[o].written = entry[o].written
        BY <1>7, <2>1, <2>3, Kept
      <3>2. ~NoEvent /\ Good(o, entry[o].written)
        BY <1>7, <1>c, <2>1, <3>1 DEF NoEvent
      <3>3. ~CbWrite /\ \A t \in Threads : ~GetReset(t)
        BY <1>4, <1>5, <3>2
      <3> QED
        BY <1>2, <2>1, <3>1, <3>2, <3>3
    <2> QED
      BY <2>2, <2>3
  <1>8. ASSUME NEW t \in Threads
        PROVE  /\ thr'[t].at = "found" => thr'[t].obj \in Listed'
                                          /\ GoodNext(thr'[t].obj, entry'[thr'[t].obj].written)
               /\ thr'[t].at = "got" => /\ thr'[t].obj \in Listed'
                                        /\ thr'[t].val = entry'[thr'[t].obj].written
                                        /\ thr'[t].val \in 0 .. BufSize
    <2>1. CASE thr'[t] = thr[t] /\ Getting(t)
      <3> DEFINE o == thr[t].obj
      <3>1. o \in Listed
        BY <1>c, <2>1 DEF Getting
      <3>2. ~CbWrite /\ ~CbSignal
        BY <1>4, <2>1
      <3>3. entry'[o].written = entry[o].written /\ o \in Listed'
        BY <3>1, <3>2, Kept
      <3>4. CASE thr[t].at = "found"
        <4>1. \A u \in Threads : ~GetReset(u)
          <5> SUFFICES ASSUME NEW u \in Threads, GetReset(u) PROVE FALSE
            OBVIOUS
          <5>1. u = t
            BY <1>5, <2>1
          <5> QED
            BY <3>4, <5>1 DEF GetReset
        <4>2. GoodNext(o, entry[o].written)
          BY <1>c, <1>2, <3>1, <3>2, <3>4, <4>1
        <4> HIDE DEF GoodNext
        <4> QED
          BY <2>1, <3>3, <3>4, <4>2
      <3>5. CASE thr[t].at = "got"
        BY <1>c, <2>1, <3>3, <3>5
      <3> QED
        BY <2>1, <3>4, <3>5 DEF Getting
    <2>2. CASE GetDataSize(t)
      <3>1. PICK o \in Listed : entry[o].events > 0 /\ Start(t, "found", Search(entry[o].index), 0)
        BY <2>2, ReadersWait DEF GetDataSize, Awaited
      <3>2. t \in Readers /\ thr[t].at = "idle"
        BY <2>2 DEF GetDataSize, CanEnter
      <3>3. \A u \in Threads : ~Getting(u)
        BY <3>2 DEF OneToken, OneReader, Getting
      <3>4. entry[o].events # 0
        <4>1. entry[o].events > 0 /\ entry[o] \in Entry
          BY <1>b, <3>1
        <4> QED
          BY <4>1 DEF Entry
      <3>5. thr'[t] = [at |-> "found", obj |-> o, val |-> 0]
        BY <1>b, <3>1, Place DEF Start
      <3>6. UNCHANGED cb
        BY <2>2 DEF GetDataSize
      <3>7. ~CbWrite /\ ~CbSignal /\ \A u \in Threads : ~GetReset(u)
        BY <3>3, <3>6, <1>4, <3>4, <1>5 DEF NoEvent
      <3>8. GoodNext(o, entry[o].written)
        BY <1>c, <1>2, <3>4, <3>7
      <3>9. o \in Listed' /\ entry'[o].written = entry[o].written
        BY <3>7, Kept
      <3> HIDE DEF GoodNext
      <3> QED
        BY <3>5, <3>8, <3>9
    <2>3. CASE GetRead(t)
      <3> DEFINE o == thr[t].obj
      <3>1. o \in Listed /\ entry[o].ws = entry[o].written /\ entry[o].ws \in 0 .. BufSize
        BY <1>c, <2>3 DEF GetRead, Good
      <3>2. thr'[t] = [at |-> "got", obj |-> o, val |-> entry[o].ws] /\ UNCHANGED entry
        BY <1>b, <2>3 DEF GetRead, Start, listVars
      <3>3. o \in Listed'
        BY <3>1, Kept
      <3> HIDE DEF o
      <3> QED
        BY <3>1, <3>2, <3>3
    <2>4. \/ thr'[t] = thr[t] \/ GetDataSize(t) \/ GetRead(t) \/ thr'[t].at \notin {"found", "got"}
      <3>1. ASSUME NEW u \in Threads, Setup(u) \/ Get(u), u # t PROVE thr'[t] = thr[t]
        BY <1>b, <3>1 DEF Setup, Get, SetEfd, SetEfdAdd, SetEfdFault, Mmap, MmapNoMemory,
           MmapNoRemap, MmapSend, MmapSendFails, MmapCount, GetDataSize, GetRead, GetReset,
           GetFault, Start, Finish
      <3>2. ASSUME Setup(t) \/ GetReset(t) \/ GetFault(t)
            PROVE  thr'[t] = thr[t] \/ thr'[t].at \notin {"found", "got"}
        BY <1>b, <3>2 DEF Setup, SetEfd, SetEfdAdd, SetEfdFault, Mmap, MmapNoMemory, MmapNoRemap,
           MmapSend, MmapSendFails, MmapCount, GetReset, GetFault, Start, Finish, Idle
      <3>3. \/ UNCHANGED thr \/ \E u \in Threads : Setup(u) \/ Get(u)
        BY DEF Next, Callback, rpmsg_sdb_open, CbReceive, CbWrite, CbSignal, M4Accept, M4Announce,
           M4Restart, vars
      <3> QED
        BY <3>1, <3>2, <3>3 DEF Get
    <2> HIDE DEF GoodNext
    <2> QED
      BY <2>1, <2>2, <2>3, <2>4 DEF Getting
  <1> QED
    BY <1>6, <1>7, <1>8 DEF Values, Good, Mapped

TokenInv == CountInv /\ Told /\ OneToken /\ Values

LEMMA TokenInit == Init => TokenInv
  <1> SUFFICES ASSUME Init PROVE TokenInv
    OBVIOUS
  <1>1. \A t \in Threads : thr[t].at = "idle"
    BY DEF Init, Idle
  <1>2. Listed = {} /\ isOpen = FALSE /\ fromM4 = <<>> /\ cb.at = "idle"
    BY DEF Init, Listed, Idle
  <1> QED
    BY <1>1, <1>2, CountInit DEF TokenInv, Told, AtMap, OneToken, Getting, NoEvent, Quiet, Values

LEMMA TokenInvariant ==
  ASSUME FwRestarts, Handshake, ReadersWait, OneReader
  PROVE  Spec => [](ListInv /\ TokenInv)
  <1>1. Init => TokenInv
    BY TokenInit
  <1>2. ListInv /\ TokenInv /\ [Next]_vars => TokenInv'
    BY CountStep, ToldStep, TokenStep, ValuesStep, FwRestarts, Handshake, ReadersWait,
       OneReader DEF TokenInv
  <1> QED
    BY ListInvariant, <1>1, <1>2, PTL DEF Spec

\* With one reader, which waits for the event of a buffer, the handshake of the
\* application and a firmware that restarts with each session,
\* RPMSG_SDB_IOCTL_GET_DATA_SIZE returns the size that rpmsg_sdb_drv_cb recorded, and
\* it fits the buffer, unless a second mmap of an entry came in between.
THEOREM SizeReturned ==
  ASSUME FwRestarts, Handshake, ReadersWait, OneReader
  PROVE  Spec => []SizeIsTheOneWritten
  <1>1. TokenInv => SizeIsTheOneWritten
    BY DEF TokenInv, Values, SizeIsTheOneWritten
  <1> QED
    BY TokenInvariant, FwRestarts, Handshake, ReadersWait, OneReader, <1>1, PTL
==============================================================================
