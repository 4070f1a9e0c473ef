---------------------------- MODULE Rpmsg_proofs ----------------------------
(***************************************************************************)
(* Proofs about Rpmsg, for any endpoints, vrings and numbers of ticks:     *)
(* the types, the accounting of buffers and of addresses, that the receive *)
(* callback leaves nothing behind, and who a message and a destination     *)
(* belong to.                                                              *)
(*                                                                         *)
(* CtxFlow and MainFlow say where a context can be and what it holds       *)
(* there.  Every critical section is one action, so the                    *)
(* safety proofs need the sections and not the lock around them.           *)
(***************************************************************************)
EXTENDS Rpmsg, FiniteSetTheorems, SequenceTheorems, WellFoundedInduction, TLAPS

\* What travels: announcements and data to Linux, data and name service
\* messages from it.  A channel is an address of the firmware and its endpoint.
Low == 0 .. NsAddr - 1     \* below the address of the name service
Channel == [addr : Low, of : Epts]
DataOut == [kind : {"data"}]
NsOut == [kind : {"create", "destroy"}, addr : Low, name : {Service[e] : e \in Epts}, of : Epts]
TxMsg == DataOut \cup NsOut
DataIn == [kind : {"data"}, src : Int, dst : Low, for : Epts]
NsIn == [kind : {"create", "destroy"}, dst : {NsAddr}, name : {Service[e] : e \in Epts}, addr : Int,
         for : {NS}]
RxMsg == DataIn \cup NsIn
Ept == [rdev : BOOLEAN, addr : Address, dest : Int]

CtxTyped ==
  /\ pc \in [Contexts -> Pcs] /\ back \in [Contexts -> Pcs]
  /\ snd \in [Contexts -> TxMsg \cup {NoMsg}] /\ ticks \in [Contexts -> 0 .. Ticks]
  /\ result \in [Contexts -> {"ok", "err_no_buff", "err_buff_size"}]
  /\ txHeld \in [Contexts -> BOOLEAN]

EptTyped ==
  /\ cur \in Epts \cup {NS} /\ ept \in [Epts \cup {NS} -> Ept]
  /\ endpoints \in Seq(Epts \cup {NS}) /\ bitmap \subseteq 0 .. BmpSize - 1
  /\ destroyed \in BOOLEAN

LinkTyped ==
  /\ lock \in Contexts \cup {Free}
  /\ txAvail \in Nat /\ toLinux \in Seq(TxMsg)
  /\ rx \in RxMsg \cup {NoMsg} /\ rxq \in Seq(RxMsg) /\ rxFree \in Nat /\ lost \in Nat
  /\ kick \in BOOLEAN /\ notified \in BOOLEAN /\ stranded \in {"none", "late", "unknown"}
  /\ channels \subseteq Channel
  /\ errors \in 0 .. MaxErrors /\ changes \in 0 .. MaxChanges

\* Where a context may be, and what it has in its hands there.
InSend(c) == pc[c] \in {"get", "enqueue"}
Holding == pc["main"] \in {"find", "cb", "ns", "rxnext"} \/ (InSend("main") /\ back["main"] = "rxnext")
Announcing == pc["main"] \in {"created", "unreg"}
              \/ (InSend("main") /\ back["main"] \in {"created", "unreg"})

CtxFlow ==
  /\ pc["isr"] \in {"idle", "get", "enqueue"} /\ back["isr"] = "idle"
  /\ back["main"] \in {"idle", "rxnext", "created", "unreg"}
  /\ ~InSend("main") => back["main"] = "idle"
  /\ \A c \in Contexts : /\ InSend(c) => snd[c] \in TxMsg
                         /\ txHeld[c] <=> pc[c] = "enqueue"

MainFlow ==
  /\ rx # NoMsg <=> Holding
  /\ pc["main"] = "create" => cur \in Epts \ Registered
  /\ Announcing => cur \in Epts \cap Registered
  /\ pc["main"] = "cb" => cur \in Registered /\ rx \in IF cur = NS THEN NsIn ELSE DataIn
  /\ pc["main"] = "ns" => rx \in NsIn

\* The list: the name service first, every endpoint once, each with an address
\* of its own below that of the name service, and these are the bits set.
EndpointList ==
  /\ Len(endpoints) > 0 /\ endpoints[1] = NS
  /\ \A i, j \in 1 .. Len(endpoints) : endpoints[i] = endpoints[j] => i = j
Addresses ==
  /\ ept[NS].addr = NsAddr
  /\ \A e \in Registered \ {NS} : ept[e].addr \in Low /\ ept[e].addr \in bitmap
  /\ \A a \in bitmap : \E e \in Registered \ {NS} : ept[e].addr = a
  /\ \A e, f \in Registered : ept[e].addr = ept[f].addr => e = f

Typed == CtxTyped /\ EptTyped /\ LinkTyped
Base == Typed /\ CtxFlow /\ MainFlow /\ EndpointList /\ Addresses

------------------------------------------------------------------------------
(* Sequences and numbers.                                                   *)

LEMMA SeqDomain ==
  ASSUME NEW S, NEW s \in Seq(S)
  PROVE  Len(s) \in Nat /\ DOMAIN s = 1 .. Len(s) /\ \A i \in 1 .. Len(s) : s[i] \in S
  OBVIOUS

LEMMA SeqTail ==
  ASSUME NEW S, NEW s \in Seq(S), s # <<>>
  PROVE  /\ Head(s) \in S /\ Head(s) = s[1] /\ Tail(s) \in Seq(S) /\ Len(Tail(s)) = Len(s) - 1
         /\ Len(s) \in Nat \ {0}
         /\ \A i \in 1 .. Len(s) - 1 : Tail(s)[i] = s[i + 1]
  OBVIOUS

LEMMA SeqAppend ==
  ASSUME NEW S, NEW s \in Seq(S), NEW e \in S
  PROVE  /\ Append(s, e) \in Seq(S)
         /\ Len(Append(s, e)) = Len(s) + 1 /\ Len(s) \in Nat
         /\ Append(s, e)[Len(s) + 1] = e
         /\ \A i \in 1 .. Len(s) : Append(s, e)[i] = s[i]
  OBVIOUS

\* A set of natural numbers that is not empty has a least element.
LEMMA Least ==
  ASSUME NEW S, S \subseteq Nat, S # {}
  PROVE  \E a \in S : \A b \in S : a =< b
  <1> DEFINE R == {p \in Nat \X Nat : p[1] < p[2]}
  <1>1. IsWellFoundedOn(R, Nat)
    BY NatLessThanWellFounded DEF OpToRel
  <1> HIDE DEF R
  <1>2. PICK x \in S : \A y \in S : ~(<<y, x>> \in R)
    BY <1>1, WFMin
  <1>3. ASSUME NEW y \in S PROVE x =< y
    <2>1. x \in Nat /\ y \in Nat
      OBVIOUS
    <2>2. y < x => <<y, x>> \in R
      BY <2>1 DEF R
    <2> QED
      BY <1>2, <2>1, <2>2
  <1> QED
    BY <1>3

\* What takes an element out of the list.
LEMMA Removed ==
  ASSUME NEW S, endpoints \in Seq(S), NEW e \in Registered
  PROVE  /\ Without(e) \in Seq(S) /\ Len(Without(e)) = Len(endpoints) - 1
         /\ \E k \in 1 .. Len(endpoints) :
              /\ endpoints[k] = e
              /\ \A i \in 1 .. Len(endpoints) - 1 :
                   Without(e)[i] = IF i < k THEN endpoints[i] ELSE endpoints[i + 1]
  <1>1. Len(endpoints) \in Nat /\ DOMAIN endpoints = 1 .. Len(endpoints)
    BY SeqDomain
  <1> DEFINE k == CHOOSE i \in DOMAIN endpoints : endpoints[i] = e
             left == SubSeq(endpoints, 1, k - 1)
             right == SubSeq(endpoints, k + 1, Len(endpoints))
  <1>2. k \in 1 .. Len(endpoints) /\ endpoints[k] = e
    BY <1>1 DEF Registered
  <1>3. Without(e) = left \o right
    BY DEF Without
  <1> HIDE DEF k
  <1>4. /\ left \in Seq(S) /\ Len(left) = k - 1
        /\ \A i \in 1 .. k - 1 : left[i] = endpoints[i]
    BY <1>1, <1>2
  <1>5. /\ right \in Seq(S) /\ Len(right) = Len(endpoints) - k
        /\ \A i \in 1 .. Len(endpoints) - k : right[i] = endpoints[k + i]
    <2>1. \A i \in k + 1 .. Len(endpoints) : endpoints[i] \in S
      BY <1>1, <1>2, SeqDomain
    <2>2. /\ right \in Seq(S)
          /\ Len(right) = IF k + 1 =< Len(endpoints) THEN Len(endpoints) - (k + 1) + 1 ELSE 0
          /\ \A i \in 1 .. Len(endpoints) - (k + 1) + 1 : right[i] = endpoints[(k + 1) + i - 1]
      BY <1>1, <1>2, <2>1, SubSeqProperties
    <2> HIDE DEF right
    <2>3. Len(right) = Len(endpoints) - k
      <3>1. CASE k + 1 =< Len(endpoints)
        <4>1. Len(right) = Len(endpoints) - (k + 1) + 1
          BY <2>2, <3>1
        <4> QED
          BY <1>1, <1>2, <4>1
      <3>2. CASE ~(k + 1 =< Len(endpoints))
        <4>1. Len(right) = 0
          BY <2>2, <3>2
        <4>2. k = Len(endpoints)
          <5>1. k \in Int /\ k =< Len(endpoints) /\ Len(endpoints) \in Int
            BY <1>1, <1>2
          <5> QED
            BY <3>2, <5>1
        <4> QED
          BY <1>1, <4>1, <4>2
      <3> QED
        BY <3>1, <3>2
    <2>4. ASSUME NEW i \in 1 .. Len(endpoints) - k PROVE right[i] = endpoints[k + i]
      <3>1. (k + 1) + i - 1 = k + i /\ i \in 1 .. Len(endpoints) - (k + 1) + 1
        BY <1>1, <1>2
      <3> QED
        BY <2>2, <3>1
    <2> QED
      BY <2>2, <2>3, <2>4
  <1> HIDE DEF left, right
  <1>6. /\ left \o right \in Seq(S) /\ Len(left \o right) = Len(left) + Len(right)
        /\ \A i \in 1 .. Len(left) + Len(right) :
             (left \o right)[i] = IF i =< Len(left) THEN left[i] ELSE right[i - Len(left)]
    BY <1>4, <1>5, ConcatProperties
  <1>7. ASSUME NEW i \in 1 .. Len(endpoints) - 1
        PROVE  (left \o right)[i] = IF i < k THEN endpoints[i] ELSE endpoints[i + 1]
    <2>1. CASE i < k
      BY <1>1, <1>2, <1>4, <1>5, <1>6, <2>1
    <2>2. CASE ~(i < k)
      <3>1. i - Len(left) \in 1 .. Len(endpoints) - k /\ k + (i - Len(left)) = i + 1
            /\ ~(i =< Len(left)) /\ i \in 1 .. Len(left) + Len(right)
        BY <1>1, <1>2, <1>4, <1>5, <2>2
      <3> QED
        BY <1>5, <1>6, <2>2, <3>1
    <2> QED
      BY <2>1, <2>2
  <1>8. Len(left \o right) = Len(endpoints) - 1
    BY <1>1, <1>2, <1>4, <1>5, <1>6
  <1> QED
    BY <1>2, <1>3, <1>6, <1>7, <1>8

\* The search of the bitmap returns a clear bit below every other, or none.
LEMMA ClearBit ==
  LET clear == (0 .. BmpSize - 1) \ bitmap
  IN  IF clear = {} THEN NextClearBit = Any /\ NextClearBit \in Address
      ELSE NextClearBit \in clear /\ NextClearBit \in Address /\ \A b \in clear : NextClearBit =< b
  <1> DEFINE clear == (0 .. BmpSize - 1) \ bitmap
  <1>1. CASE clear = {}
    BY <1>1 DEF NextClearBit, Address
  <1>2. CASE clear # {}
    <2>1. \E a \in clear : \A b \in clear : a =< b
      <3>1. clear \subseteq Nat
        OBVIOUS
      <3> HIDE DEF clear
      <3> QED
        BY <1>2, <3>1, Least
    <2>2. NextClearBit = CHOOSE a \in clear : \A b \in clear : a =< b
      BY <1>2 DEF NextClearBit
    <2> QED
      BY <1>2, <2>1, <2>2 DEF Address
  <1> QED
    BY <1>1, <1>2

\* How a send starts and ends leaves the contexts typed.
CtxNext ==
  /\ pc' \in [Contexts -> Pcs] /\ back' \in [Contexts -> Pcs]
  /\ snd' \in [Contexts -> TxMsg \cup {NoMsg}] /\ ticks' \in [Contexts -> 0 .. Ticks]
  /\ result' \in [Contexts -> {"ok", "err_no_buff", "err_buff_size"}]
  /\ txHeld' \in [Contexts -> BOOLEAN]

LEMMA CallTyped ==
  ASSUME CtxTyped, NEW c \in Contexts, NEW known \in BOOLEAN, NEW msg \in TxMsg, NEW ret \in Pcs,
         Call(c, known, msg, ret)
  PROVE  /\ CtxNext /\ UNCHANGED <<result, txHeld>>
         /\ \A d \in Contexts \ {c} : pc'[d] = pc[d] /\ back'[d] = back[d] /\ snd'[d] = snd[d]
         /\ known => pc'[c] = "get" /\ back'[c] = ret /\ snd'[c] = msg
         /\ ~known => pc'[c] = ret /\ UNCHANGED <<back, snd>>
  <1>1. Ticks \in 0 .. Ticks /\ "get" \in Pcs
    BY RpmsgAssumption DEF Pcs, Sections
  <1>2. CASE known
    BY <1>1, <1>2 DEF CtxTyped, Call, Goto, CtxNext
  <1>3. CASE ~known
    BY <1>3 DEF CtxTyped, Call, Goto, CtxNext
  <1> QED
    BY <1>2, <1>3

LEMMA ReturnTyped ==
  ASSUME CtxTyped, NEW c \in Contexts, NEW res \in {"ok", "err_no_buff", "err_buff_size"},
         Return(c, res), txHeld' \in [Contexts -> BOOLEAN]
  PROVE  /\ CtxNext
         /\ \A d \in Contexts \ {c} : /\ pc'[d] = pc[d] /\ back'[d] = back[d] /\ snd'[d] = snd[d]
                                      /\ result'[d] = result[d]
         /\ pc'[c] = back[c] /\ back'[c] = "idle"
         /\ result'[c] = IF back[c] = "created" THEN res ELSE "ok"
  <1>1. 0 \in 0 .. Ticks /\ "idle" \in Pcs
    BY RpmsgAssumption DEF Pcs
  <1> QED
    BY <1>1 DEF CtxTyped, Return, Goto, CtxNext

LEMMA ContextNames == "main" \in Contexts /\ "isr" \in Contexts /\ "main" # "isr"
               /\ Contexts = {"main", "isr"} /\ {"get", "enqueue", "idle", "cb", "rxget", "find", "ns", "rxnext",
                                                 "create", "created", "unreg", "ack"} = Pcs
  BY DEF Contexts, Pcs, Sections

\* There are fewer registered endpoints than addresses below the name service
\* when one is created, so the search finds one of these.
LEMMA FreshAddress ==
  ASSUME Base, cur \in Epts \ Registered
  PROVE  NextClearBit \in Low \ bitmap
  <1> USE RpmsgAssumption
  <1> DEFINE U == Registered \ {NS}
  <1>1. U \subseteq Epts \ {cur}
    <2>1. endpoints \in Seq(Epts \cup {NS})
      BY DEF Base, Typed, EptTyped
    <2>2. Registered \subseteq Epts \cup {NS}
      BY <2>1, SeqDomain DEF Registered
    <2> QED
      BY <2>2
  <1>2. IsFiniteSet(U) /\ Cardinality(U) < NsAddr
    <2>1. /\ IsFiniteSet(Epts \ {cur}) /\ Cardinality(Epts \ {cur}) = Cardinality(Epts) - 1
          /\ Cardinality(Epts) \in Nat
      BY FS_RemoveElement, FS_CardinalityType
    <2>2. IsFiniteSet(U) /\ Cardinality(U) =< Cardinality(Epts \ {cur}) /\ Cardinality(U) \in Nat
      BY <1>1, <2>1, FS_Subset, FS_CardinalityType
    <2> QED
      BY <2>1, <2>2
  <1>3. IsFiniteSet(Low) /\ Cardinality(Low) = NsAddr
    <2>1. 0 \in Int /\ NsAddr - 1 \in Int
      OBVIOUS
    <2>2. IsFiniteSet(0 .. NsAddr - 1)
          /\ Cardinality(0 .. NsAddr - 1) = IF 0 > NsAddr - 1 THEN 0 ELSE (NsAddr - 1) - 0 + 1
      BY <2>1, FS_Interval
    <2>3. Cardinality(0 .. NsAddr - 1) = NsAddr
      BY <2>2
    <2> QED
      BY <2>2, <2>3 DEF Low
  <1>4. ~(Low \subseteq bitmap)
    <2> SUFFICES ASSUME Low \subseteq bitmap PROVE FALSE
      OBVIOUS
    <2> DEFINE f == [e \in U |-> ept[e].addr]
    <2>1. f \in [U -> Low] /\ \A a \in Low : \E e \in U : f[e] = a
      BY DEF Base, Addresses
    <2>2. f \in Surjection(U, Low)
      BY <2>1 DEF Surjection
    <2> HIDE DEF f, U
    <2>3. Cardinality(Low) =< Cardinality(U)
      BY <1>2, <2>2, FS_Surjection
    <2> QED
      BY <1>2, <1>3, <2>3, FS_CardinalityType
  <1>5. PICK a \in Low : a \notin bitmap
    BY <1>4
  <1>6. a \in (0 .. BmpSize - 1) \ bitmap /\ a < NsAddr
    BY <1>5 DEF Low
  <1>7. NextClearBit \in (0 .. BmpSize - 1) \ bitmap /\ NextClearBit =< a
    BY <1>6, ClearBit
  <1> QED
    BY <1>6, <1>7 DEF Low

LEMMA CtxStep == Base /\ [Next]_vars => CtxNext
  <1> SUFFICES ASSUME Base, [Next]_vars PROVE CtxNext
    OBVIOUS
  <1> USE RpmsgAssumption, ContextNames
  <1>a. CtxTyped
    BY DEF Base, Typed
  <1>b. [kind |-> "data"] \in TxMsg
    BY DEF TxMsg, DataOut
  <1>c. ASSUME UNCHANGED ctxVars PROVE CtxNext
    BY <1>a, <1>c DEF ctxVars, CtxTyped, CtxNext
  <1>d. ASSUME NEW p \in Pcs, Goto("main", p), UNCHANGED <<back, snd, ticks, result, txHeld>>
        PROVE  CtxNext
    BY <1>a, <1>d DEF Goto, CtxTyped, CtxNext
  <1>e. ASSUME NEW e \in Epts \cap Registered PROVE ept[e].addr \in Low
    BY DEF Base, Addresses
  <1>f. \A kind \in {"create", "destroy"}, a \in Low, e \in Epts :
          [kind |-> kind, addr |-> a, name |-> Service[e], of |-> e] \in TxMsg
    BY DEF TxMsg, NsOut
  <1>1. ASSUME NEW c \in Contexts, SendGet(c) PROVE CtxNext
    <2>1. CASE MsgSize =< AvailSize
      BY <1>1, <1>a, <2>1 DEF SendGet, Goto, CtxTyped, CtxNext
    <2>2. CASE ~(MsgSize =< AvailSize) /\ (ticks[c] = 0 \/ AvailSize # 0)
      <3>1. UNCHANGED txHeld
            /\ Return(c, IF ticks[c] = 0 THEN "err_no_buff" ELSE "err_buff_size")
        BY <1>1, <2>2 DEF SendGet, NoBuffer
      <3>2. txHeld' \in [Contexts -> BOOLEAN]
        BY <1>a, <3>1 DEF CtxTyped
      <3> QED
        BY <1>a, <3>1, <3>2, ReturnTyped
    <2>3. CASE ~(MsgSize =< AvailSize) /\ ~(ticks[c] = 0 \/ AvailSize # 0)
      <3>1. /\ UNCHANGED <<pc, back, snd, result, txHeld>> /\ ticks' = [ticks EXCEPT ![c] = @ - 1]
        BY <1>1, <2>3 DEF SendGet, NoBuffer
      <3>2. ticks[c] - 1 \in 0 .. Ticks
        BY <1>a, <2>3 DEF CtxTyped
      <3> QED
        BY <1>a, <3>1, <3>2 DEF CtxTyped, CtxNext
    <2> QED
      BY <2>1, <2>2, <2>3
  <1>2. ASSUME NEW c \in Contexts, SendEnqueue(c) PROVE CtxNext
    <2>1. Return(c, "ok") /\ txHeld' \in [Contexts -> BOOLEAN]
      BY <1>2, <1>a DEF SendEnqueue, Enqueue, CtxTyped
    <2> QED
      BY <1>a, <2>1, ReturnTyped
  <1>3. CASE RxStart \/ RxClear \/ RxGet \/ RxFind \/ RxNameService \/ NsLookup \/ RxNext
    <2>1. UNCHANGED <<back, snd, ticks, result, txHeld>>
      BY <1>3 DEF RxStart, RxClear, RxGet, RxFind, RxNameService, NsLookup, RxNext, NoCall, NoSend, NoEffect
    <2>2. \E p \in {"rxget", "ack", "idle", "find", "cb", "ns", "rxnext"} : Goto("main", p)
      BY <1>3 DEF RxStart, RxClear, RxGet, RxFind, RxNameService, NsLookup, RxNext, TakeNext
    <2> QED
      BY <1>d, <2>1, <2>2
  <1>4. CASE RxDeliver
    <2> DEFINE known == [ept EXCEPT ![cur].dest = IF @ = Any THEN rx.src ELSE @]
               b == known[LogEpt].rdev /\ known[LogEpt].dest # Any
    <2>1. Call("main", b, [kind |-> "data"], "rxnext") /\ b \in BOOLEAN /\ "rxnext" \in Pcs
      BY <1>4 DEF RxDeliver, rpmsg_send
    <2> HIDE DEF b
    <2> QED
      BY <1>a, <1>b, <2>1, CallTyped
  <1>5. CASE CreateRegister
    <2>1. NextClearBit \in Low /\ cur \in Epts
      BY <1>5, FreshAddress DEF CreateRegister, Inside, MainFlow, Base
    <2> QED
      BY <1>a, <1>5, <1>f, <2>1, CallTyped DEF CreateRegister
  <1>6. CASE CreateEnd
    BY <1>a, <1>6 DEF CreateEnd, NoSend, NoEffect, Goto, CtxTyped, CtxNext
  <1>7. CASE DestroyEnd
    BY <1>d, <1>7 DEF DestroyEnd, NoCall, NoSend, NoEffect
  <1>8. ASSUME NEW e \in Epts, AppSend(e) PROVE CtxNext
    <2>1. (ept[e].rdev /\ ept[e].dest # Any) \in BOOLEAN
      OBVIOUS
    <2> QED
      BY <1>a, <1>b, <1>8, <2>1, CallTyped DEF AppSend, rpmsg_send
  <1>9. ASSUME NEW e \in Epts, Create(e) PROVE CtxNext
    BY <1>d, <1>9 DEF Create, NoEffect
  <1>10. ASSUME NEW e \in Epts, Destroy(e) PROVE CtxNext
    BY <1>a, <1>e, <1>f, <1>10, CallTyped DEF Destroy
  <1>11. CASE DmaError
    <2>1. (ept[LogEpt].rdev /\ ept[LogEpt].dest # Any) \in BOOLEAN
      OBVIOUS
    <2> QED
      BY <1>a, <1>b, <1>11, <2>1, CallTyped DEF DmaError, rpmsg_send
  <1>12. CASE Linux \/ IPCC_channel2_callback \/ UNCHANGED vars
    BY <1>c, <1>12 DEF Linux, IPCC_channel2_callback, LinuxRead, LinuxSend, LinuxNs, LinuxTransmit, vars
  <1>13. ASSUME NEW c \in Contexts, Acquire(c) PROVE CtxNext
    BY <1>a, <1>13 DEF Acquire, CtxTyped, CtxNext
  <1> QED
    BY <1>1, <1>2, <1>3, <1>4, <1>5, <1>6, <1>7, <1>8, <1>9, <1>10, <1>11, <1>12, <1>13
    DEF Next, Step, Send, Receive, Endpoint, Application

\* What rpmsg_get_endpoint finds.
LEMMA Found ==
  ASSUME Base, NEW name, NEW addr, NEW dest, Matching(name, addr, dest) # {}
  PROVE  GetEndpoint(name, addr, dest) \in Registered
         /\ Match(GetEndpoint(name, addr, dest), name, addr, dest)
  <1> DEFINE M == Matching(name, addr, dest)
  <1>1. M \subseteq Nat
    <2>1. endpoints \in Seq(Epts \cup {NS})
      BY DEF Base, Typed, EptTyped
    <2>2. DOMAIN endpoints \subseteq Nat
      BY <2>1, SeqDomain
    <2> QED
      BY <2>2 DEF Matching
  <1>2. \E i \in M : \A j \in M : i =< j
    <2> HIDE DEF M
    <2> QED
      BY <1>1, Least DEF M
  <1> DEFINE i == CHOOSE i \in M : \A j \in M : i =< j
  <1>3. i \in M
    BY <1>2
  <1>4. GetEndpoint(name, addr, dest) = endpoints[i]
    BY DEF GetEndpoint
  <1> HIDE DEF i
  <1> QED
    BY <1>3, <1>4 DEF Matching, Registered

LEMMA RegisteredTyped == Base => Registered \subseteq Epts \cup {NS} /\ NS \in Registered
  <1> SUFFICES ASSUME Base PROVE Registered \subseteq Epts \cup {NS} /\ NS \in Registered
    OBVIOUS
  <1>1. endpoints \in Seq(Epts \cup {NS})
    BY DEF Base, Typed, EptTyped
  <1>2. 1 \in DOMAIN endpoints /\ endpoints[1] = NS
    BY <1>1, SeqDomain DEF Base, EndpointList
  <1> QED
    BY <1>1, <1>2, SeqDomain DEF Registered

\* Which actions change the endpoints, and which the message in hand.
EptActions == RxDeliver \/ NsLookup \/ CreateRegister \/ CreateEnd \/ DestroyEnd
              \/ RxFind \/ RxNext \/ (\E e \in Epts : Create(e) \/ Destroy(e))

LEMMA EptFrame == [Next]_vars => EptActions \/ UNCHANGED <<cur, eptVars>>
  BY DEF EptActions, Next, Step, Send, Receive, Endpoint, Application, IPCC_channel2_callback, Linux, Acquire, SendGet,
     SendEnqueue, Enqueue, RxStart, RxClear, RxGet, RxNameService, AppSend, DmaError, LinuxRead, LinuxSend,
     LinuxNs, LinuxTransmit, vars

LEMMA EptStep == Base /\ [Next]_vars => EptTyped'
  <1> SUFFICES ASSUME Base, [Next]_vars PROVE EptTyped'
    OBVIOUS
  <1> USE RpmsgAssumption
  <1>a. EptTyped /\ Registered \subseteq Epts \cup {NS}
    BY RegisteredTyped DEF Base, Typed
  <1>b. ASSUME UNCHANGED <<cur, eptVars>> PROVE EptTyped'
    BY <1>a, <1>b DEF EptTyped, eptVars
  <1>c. ASSUME NEW e \in Epts \cup {NS}, NEW d \in Int PROVE [ept EXCEPT ![e].dest = d] \in [Epts \cup {NS} -> Ept]
    BY <1>a DEF EptTyped, Ept
  <1>1. CASE RxFind
    <2>1. cur' \in Epts \cup {NS}
      BY <1>a, <1>1, Found DEF RxFind, EptTyped
    <2> QED
      BY <1>a, <1>1, <2>1 DEF RxFind, eptVars, EptTyped
  <1>2. CASE RxDeliver
    <2>1. rx.src \in Int /\ cur \in Epts \cup {NS}
      BY <1>2, <1>a DEF RxDeliver, Base, MainFlow, DataIn, EptTyped
    <2>2. PICK d \in Int : ept' = [ept EXCEPT ![cur].dest = d]
      <3>1. ept[cur].dest \in Int
        BY <1>a, <2>1 DEF EptTyped, Ept
      <3>2. ept' = [ept EXCEPT ![cur].dest = IF ept[cur].dest = Any THEN rx.src ELSE ept[cur].dest]
        BY <1>2 DEF RxDeliver
      <3> QED
        BY <2>1, <3>1, <3>2
    <2> QED
      BY <1>a, <1>c, <1>2, <2>1, <2>2 DEF RxDeliver, EptTyped
  <1>3. CASE NsLookup
    <2> DEFINE f == GetEndpoint(rx.name, Any, rx.addr)
               d == IF rx.kind = "destroy" THEN Any ELSE rx.addr
    <2>1. d \in Int
      BY <1>3 DEF NsLookup, Inside, Base, MainFlow, NsIn, Any
    <2>2. ept' = ept \/ (f \in Epts \cup {NS} /\ ept' = [ept EXCEPT ![f].dest = d])
      BY <1>a, <1>3, Found DEF NsLookup
    <2> HIDE DEF f, d
    <2> QED
      BY <1>a, <1>c, <1>3, <2>1, <2>2 DEF NsLookup, EptTyped
  <1>4. CASE CreateRegister
    <2>1. cur \in Epts \ Registered /\ NextClearBit \in Low
      BY <1>4, FreshAddress DEF CreateRegister, Inside, Base, MainFlow
    <2>2. [rdev |-> TRUE, addr |-> NextClearBit, dest |-> Any] \in Ept /\ NextClearBit \in 0 .. BmpSize - 1
      BY <2>1 DEF Ept, Low, Address, Any
    <2>3. ept' \in [Epts \cup {NS} -> Ept] /\ bitmap' \subseteq 0 .. BmpSize - 1
      BY <1>a, <1>4, <2>2 DEF CreateRegister, EptTyped
    <2>4. endpoints' \in Seq(Epts \cup {NS})
      BY <1>a, <1>4, <2>1, SeqAppend DEF CreateRegister, EptTyped
    <2> QED
      BY <1>a, <1>4, <2>3, <2>4 DEF CreateRegister, EptTyped
  <1>5. CASE CreateEnd \/ DestroyEnd
    <2>1. cur \in Registered
      BY <1>5 DEF CreateEnd, DestroyEnd, Inside, Base, MainFlow, Announcing
    <2>2. endpoints' = endpoints \/ endpoints' = Without(cur)
      BY <1>5 DEF CreateEnd, DestroyEnd, rpmsg_unregister_endpoint
    <2>3. endpoints' \in Seq(Epts \cup {NS})
      BY <1>a, <2>1, <2>2, Removed DEF EptTyped
    <2>4. bitmap' \subseteq bitmap /\ UNCHANGED <<ept, destroyed>> /\ cur' = NS
      BY <1>5 DEF CreateEnd, DestroyEnd, rpmsg_unregister_endpoint
    <2> QED
      BY <1>a, <2>3, <2>4 DEF EptTyped
  <1>6. ASSUME NEW e \in Epts, Create(e) \/ Destroy(e) PROVE EptTyped'
    <2>1. cur' = e /\ UNCHANGED <<ept, endpoints, bitmap>> /\ destroyed' \in BOOLEAN
      BY <1>6, <1>a DEF Create, Destroy, eptVars, EptTyped
    <2> QED
      BY <1>a, <2>1 DEF EptTyped
  <1>7. CASE RxNext
    BY <1>a, <1>7 DEF RxNext, eptVars, EptTyped
  <1> QED
    BY <1>b, <1>1, <1>2, <1>3, <1>4, <1>5, <1>6, <1>7, EptFrame DEF EptActions

\* The next message of the receive vring, in the hands of the main loop.
LEMMA Taken ==
  ASSUME LinkTyped, TakeNext
  PROVE  /\ rx' \in RxMsg \cup {NoMsg} /\ rxq' \in Seq(RxMsg)
         /\ \/ rxq = <<>> /\ rxq' = rxq /\ rx' = NoMsg /\ Goto("main", "ack")
            \/ /\ rxq # <<>> /\ rx' = rxq[1] /\ rx' \in RxMsg /\ Goto("main", "find")
               /\ Len(rxq') = Len(rxq) - 1 /\ \A i \in 1 .. Len(rxq) - 1 : rxq'[i] = rxq[i + 1]
  <1>1. rxq \in Seq(RxMsg)
    BY DEF LinkTyped
  <1>2. CASE rxq = <<>>
    BY <1>1, <1>2 DEF TakeNext
  <1>3. CASE rxq # <<>>
    <2>1. rx' = Head(rxq) /\ rxq' = Tail(rxq) /\ Goto("main", "find")
      BY <1>3 DEF TakeNext
    <2> QED
      BY <1>1, <1>3, <2>1, SeqTail
  <1> QED
    BY <1>2, <1>3

\* The messages of Linux.
LEMMA FromLinux ==
  ASSUME NEW ch \in Channel
  PROVE  /\ [kind |-> "data", src |-> Peer(ch.addr), dst |-> ch.addr, for |-> ch.of] \in DataIn
         /\ \A kind \in {"create", "destroy"} :
              [kind |-> kind, dst |-> NsAddr, name |-> Service[ch.of], addr |-> Peer(ch.addr),
               for |-> NS] \in NsIn
  BY RpmsgAssumption DEF Channel, Low, Peer, DataIn, NsIn

LEMMA LinkStep == Base /\ [Next]_vars => LinkTyped'
  <1> SUFFICES ASSUME Base, [Next]_vars PROVE LinkTyped'
    OBVIOUS
  <1> USE RpmsgAssumption
  <1> DEFINE linkVars == <<txAvail, toLinux, rx, rxq, rxFree, lost, kick, notified, stranded, channels, errors,
                   changes>>
  <1>a. LinkTyped /\ \A c \in Contexts : c \in Contexts \cup {Free}
    BY DEF Base, Typed
  <1>b. ASSUME UNCHANGED linkVars, lock' \in Contexts \cup {Free} PROVE LinkTyped'
    BY <1>a, <1>b DEF LinkTyped
  <1>1. ASSUME NEW c \in Contexts, Acquire(c) PROVE LinkTyped'
    BY <1>b, <1>1 DEF Acquire, txVars, rxVars
  <1>2. ASSUME NEW c \in Contexts, SendGet(c) PROVE LinkTyped'
    <2>1. CASE MsgSize =< AvailSize
      <3>1. txAvail - 1 \in Nat
        BY <1>a, <2>1 DEF AvailSize, MsgSize, HdrSize, LinkTyped
      <3> QED
        BY <1>a, <1>2, <2>1, <3>1 DEF SendGet, rxVars, LinkTyped
    <2>2. CASE ~(MsgSize =< AvailSize)
      BY <1>a, <1>2, <2>2 DEF SendGet, rxVars, LinkTyped
    <2> QED
      BY <2>1, <2>2
  <1>3. ASSUME NEW c \in Contexts, SendEnqueue(c) PROVE LinkTyped'
    <2>1. snd[c] \in TxMsg
      BY <1>3 DEF SendEnqueue, Enqueue, Inside, Base, CtxFlow, InSend
    <2>2. toLinux' \in Seq(TxMsg)
      BY <1>a, <1>3, <2>1, SeqAppend DEF SendEnqueue, Enqueue, LinkTyped
    <2> QED
      BY <1>a, <1>3, <2>2 DEF SendEnqueue, Enqueue, rxVars, LinkTyped
  <1>4. CASE RxStart \/ RxClear \/ IPCC_channel2_callback
    BY <1>a, <1>4 DEF RxStart, RxClear, IPCC_channel2_callback, NoCall, NoSend, NoEffect, ctxVars, txVars, LinkTyped
  <1>5. CASE RxGet \/ RxNext
    <2>1. TakeNext /\ lock' = Free /\ (rxFree' = rxFree \/ rxFree' = rxFree + 1)
          /\ UNCHANGED <<txAvail, toLinux, lost, kick, notified, stranded, channels, errors, changes>>
      BY <1>5 DEF RxGet, RxNext, ReturnBuffer, NoCall, NoSend, NoEffect, txVars
    <2>2. rx' \in RxMsg \cup {NoMsg} /\ rxq' \in Seq(RxMsg)
      BY <1>a, <2>1, Taken
    <2>3. rxFree + 1 \in Nat /\ rxFree \in Nat
      BY <1>a DEF LinkTyped
    <2> QED
      BY <1>a, <2>1, <2>2, <2>3 DEF LinkTyped
  <1>6. CASE RxFind
    <2>1. lost + 1 \in Nat
      BY <1>a DEF LinkTyped
    <2> QED
      BY <1>a, <1>6, <2>1 DEF RxFind, NoCall, NoSend, NoEffect, txVars, LinkTyped
  <1>7. CASE RxDeliver \/ RxNameService \/ NsLookup \/ CreateRegister \/ CreateEnd \/ DestroyEnd
    <2>1. UNCHANGED linkVars
      BY <1>7 DEF RxDeliver, RxNameService, NsLookup, CreateRegister, CreateEnd, DestroyEnd, NoCall, NoSend,
         NoEffect, txVars, rxVars
    <2>2. lock' \in Contexts \cup {Free}
      BY <1>a, <1>7 DEF RxDeliver, RxNameService, NsLookup, CreateRegister, CreateEnd, DestroyEnd, LinkTyped
    <2> QED
      BY <1>b, <2>1, <2>2
  <1>8. ASSUME NEW e \in Epts, AppSend(e) PROVE LinkTyped'
    BY <1>a, <1>b, <1>8 DEF AppSend, txVars, rxVars, LinkTyped
  <1>9. ASSUME NEW e \in Epts, Create(e) \/ Destroy(e) PROVE LinkTyped'
    <2>1. changes + 1 \in 0 .. MaxChanges
      <3>1. changes < MaxChanges /\ changes \in 0 .. MaxChanges
        BY <1>a, <1>9 DEF Create, Destroy, LinkTyped
      <3> QED
        BY <3>1
    <2> QED
      BY <1>a, <1>9, <2>1 DEF Create, Destroy, NoEffect, txVars, rxVars, LinkTyped
  <1>10. CASE DmaError
    <2>1. errors + 1 \in 0 .. MaxErrors
      <3>1. errors < MaxErrors /\ errors \in 0 .. MaxErrors
        BY <1>a, <1>10 DEF DmaError, LinkTyped
      <3> QED
        BY <3>1
    <2> QED
      BY <1>a, <1>10, <2>1 DEF DmaError, txVars, rxVars, LinkTyped
  <1>11. CASE LinuxRead
    <2> DEFINE msg == Head(toLinux)
    <2>1. msg \in TxMsg /\ toLinux' \in Seq(TxMsg)
      BY <1>a, <1>11, SeqTail DEF LinuxRead, LinkTyped
    <2>2. channels' \subseteq Channel
      <3>1. msg.kind = "create" => [addr |-> msg.addr, of |-> msg.of] \in Channel
        BY <2>1 DEF TxMsg, DataOut, NsOut, Channel
      <3>2. \/ msg.kind = "create" /\ channels' = channels \cup {[addr |-> msg.addr, of |-> msg.of]}
            \/ channels' \subseteq channels
        BY <1>11 DEF LinuxRead
      <3> QED
        BY <1>a, <3>1, <3>2 DEF LinkTyped
    <2>3. txAvail + 1 \in Nat
      BY <1>a DEF LinkTyped
    <2> QED
      BY <1>a, <1>11, <2>1, <2>2, <2>3 DEF LinuxRead, ctxVars, rxVars, LinkTyped
  <1>12. ASSUME NEW msg \in RxMsg, LinuxTransmit(msg), channels' \subseteq channels PROVE LinkTyped'
    <2>1. rxFree - 1 \in Nat
      BY <1>a, <1>12 DEF LinuxTransmit, LinkTyped
    <2>2. rxq' \in Seq(RxMsg)
      BY <1>a, <1>12, SeqAppend DEF LinuxTransmit, LinkTyped
    <2> QED
      BY <1>a, <1>12, <2>1, <2>2 DEF LinuxTransmit, ctxVars, txVars, LinkTyped
  <1>13. ASSUME NEW ch \in channels, LinuxSend(ch) \/ \E kind \in {"create", "destroy"} : LinuxNs(ch, kind)
         PROVE  LinkTyped'
    <2>1. ch \in Channel
      BY <1>a DEF LinkTyped
    <2> QED
      BY <1>12, <1>13, <2>1, FromLinux DEF LinuxSend, LinuxNs, RxMsg
  <1>14. CASE UNCHANGED vars
    BY <1>a, <1>b, <1>14 DEF vars, ctxVars, txVars, rxVars, LinkTyped
  <1> QED
    BY <1>1, <1>2, <1>3, <1>4, <1>5, <1>6, <1>7, <1>8, <1>9, <1>10, <1>11, <1>13, <1>14
    DEF Next, Step, Send, Receive, Endpoint, Application, Linux

\* Where the contexts go.
LEMMA CtxFlowStep == Base /\ [Next]_vars => CtxFlow'
  <1> SUFFICES ASSUME Base, [Next]_vars PROVE CtxFlow'
    OBVIOUS
  <1> USE ContextNames
  <1>a. CtxFlow /\ CtxTyped
    BY DEF Base, Typed
  <1>b. [kind |-> "data"] \in TxMsg
    BY DEF TxMsg, DataOut
  <1>c. ASSUME UNCHANGED <<pc, back, snd, txHeld>> PROVE CtxFlow'
    BY <1>a, <1>c DEF CtxFlow, InSend
  <1>d. ASSUME NEW p \in Pcs \ {"get", "enqueue"}, Goto("main", p), ~InSend("main"), UNCHANGED <<back, snd, txHeld>>
        PROVE  CtxFlow'
    BY <1>a, <1>d DEF CtxFlow, CtxTyped, InSend, Goto
  <1>e. ASSUME NEW c \in Contexts, NEW known \in BOOLEAN, NEW msg \in TxMsg, ~InSend(c),
               NEW ret \in {"idle", "rxnext", "created", "unreg"}, c = "isr" => ret = "idle",
               Call(c, known, msg, ret)
        PROVE  CtxFlow'
    <2>1. /\ CtxNext /\ UNCHANGED txHeld
          /\ \A d \in Contexts \ {c} : pc'[d] = pc[d] /\ back'[d] = back[d] /\ snd'[d] = snd[d]
          /\ known => pc'[c] = "get" /\ back'[c] = ret /\ snd'[c] = msg
          /\ ~known => pc'[c] = ret /\ UNCHANGED <<back, snd>>
      BY <1>a, <1>e, CallTyped
    <2>2. CASE known
      BY <1>a, <1>e, <2>1, <2>2 DEF CtxFlow, InSend
    <2>3. CASE ~known
      BY <1>a, <1>e, <2>1, <2>3 DEF CtxFlow, InSend
    <2> QED
      BY <2>2, <2>3
  <1>f. ASSUME NEW c \in Contexts, NEW res \in {"ok", "err_no_buff", "err_buff_size"}, InSend(c), Return(c, res),
               txHeld' = [txHeld EXCEPT ![c] = FALSE]
        PROVE  CtxFlow'
    <2>1. /\ \A d \in Contexts \ {c} : /\ pc'[d] = pc[d] /\ back'[d] = back[d] /\ snd'[d] = snd[d]
                                       /\ txHeld'[d] = txHeld[d]
          /\ pc'[c] = back[c] /\ back'[c] = "idle" /\ txHeld'[c] = FALSE
      <3>1. txHeld' \in [Contexts -> BOOLEAN]
        BY <1>a, <1>f DEF CtxTyped
      <3> QED
        BY <1>a, <1>f, <3>1, ReturnTyped DEF CtxTyped
    <2> QED
      BY <1>a, <2>1 DEF CtxFlow, InSend
  <1>1. ASSUME NEW c \in Contexts, SendGet(c) PROVE CtxFlow'
    <2>1. InSend(c) /\ pc[c] = "get"
      BY <1>1 DEF SendGet, Inside, InSend
    <2>2. CASE MsgSize =< AvailSize
      <3>1. pc' = [pc EXCEPT ![c] = "enqueue"] /\ txHeld' = [txHeld EXCEPT ![c] = TRUE] /\ UNCHANGED <<back, snd>>
        BY <1>1, <2>2 DEF SendGet, Goto
      <3> QED
        BY <1>a, <2>1, <3>1 DEF CtxFlow, CtxTyped, InSend
    <2>3. CASE ~(MsgSize =< AvailSize) /\ (ticks[c] = 0 \/ AvailSize # 0)
      <3>1. UNCHANGED txHeld
            /\ Return(c, IF ticks[c] = 0 THEN "err_no_buff" ELSE "err_buff_size")
        BY <1>1, <2>3 DEF SendGet, NoBuffer
      <3>2. txHeld' = [txHeld EXCEPT ![c] = FALSE]
        BY <1>a, <2>1, <3>1 DEF CtxTyped, CtxFlow
      <3> QED
        BY <1>f, <2>1, <3>1, <3>2
    <2>4. CASE ~(MsgSize =< AvailSize) /\ ~(ticks[c] = 0 \/ AvailSize # 0)
      BY <1>1, <1>c, <2>4 DEF SendGet, NoBuffer
    <2> QED
      BY <2>2, <2>3, <2>4
  <1>2. ASSUME NEW c \in Contexts, SendEnqueue(c) PROVE CtxFlow'
    BY <1>2, <1>f DEF SendEnqueue, Enqueue, Inside, InSend
  <1>3. CASE RxStart \/ RxClear \/ RxGet \/ RxFind \/ RxNameService \/ NsLookup \/ RxNext \/ CreateEnd \/ DestroyEnd
    <2>1. UNCHANGED <<back, snd, txHeld>> /\ ~InSend("main")
      BY <1>3 DEF RxStart, RxClear, RxGet, RxFind, RxNameService, NsLookup, RxNext, CreateEnd, DestroyEnd, NoCall, NoSend,
         NoEffect, Inside, InSend
    <2>2. \E p \in {"rxget", "ack", "idle", "find", "cb", "ns", "rxnext"} : Goto("main", p)
      BY <1>3 DEF RxStart, RxClear, RxGet, RxFind, RxNameService, NsLookup, RxNext, CreateEnd, DestroyEnd, TakeNext
    <2> QED
      BY <1>d, <2>1, <2>2
  <1>4. CASE RxDeliver
    <2> DEFINE known == [ept EXCEPT ![cur].dest = IF @ = Any THEN rx.src ELSE @]
               b == known[LogEpt].rdev /\ known[LogEpt].dest # Any
    <2>1. Call("main", b, [kind |-> "data"], "rxnext") /\ b \in BOOLEAN /\ ~InSend("main")
      BY <1>4 DEF RxDeliver, rpmsg_send, InSend
    <2> HIDE DEF b
    <2> QED
      BY <1>b, <1>e, <2>1
  <1>5. CASE CreateRegister
    <2> DEFINE msg == [kind |-> "create", addr |-> NextClearBit, name |-> Service[cur], of |-> cur]
    <2>1. NextClearBit \in Low /\ cur \in Epts
      BY <1>5, FreshAddress DEF CreateRegister, Inside, MainFlow, Base
    <2>2. msg \in TxMsg
      BY <2>1 DEF TxMsg, NsOut
    <2>3. Call("main", TRUE, msg, "created") /\ ~InSend("main")
      BY <1>5 DEF CreateRegister, Inside, InSend
    <2> HIDE DEF msg
    <2> QED
      BY <1>e, <2>2, <2>3
  <1>6. ASSUME NEW e \in Epts, AppSend(e) PROVE CtxFlow'
    <2> DEFINE b == ept[e].rdev /\ ept[e].dest # Any
    <2>1. Call("main", b, [kind |-> "data"], "idle") /\ b \in BOOLEAN /\ ~InSend("main")
      BY <1>6 DEF AppSend, rpmsg_send, InSend
    <2> HIDE DEF b
    <2> QED
      BY <1>b, <1>e, <2>1
  <1>7. ASSUME NEW e \in Epts, Create(e) PROVE CtxFlow'
    BY <1>d, <1>7 DEF Create, NoEffect, InSend
  <1>8. ASSUME NEW e \in Epts, Destroy(e) PROVE CtxFlow'
    <2> DEFINE msg == [kind |-> "destroy", addr |-> ept[e].addr, name |-> Service[e], of |-> e]
    <2>1. ept[e].addr \in Low
      BY <1>8, RpmsgAssumption DEF Destroy, Base, Addresses
    <2>2. msg \in TxMsg
      BY <2>1 DEF TxMsg, NsOut
    <2>3. Call("main", TRUE, msg, "unreg") /\ ~InSend("main")
      BY <1>8 DEF Destroy, InSend
    <2> HIDE DEF msg
    <2> QED
      BY <1>e, <2>2, <2>3
  <1>9. CASE DmaError
    <2> DEFINE b == ept[LogEpt].rdev /\ ept[LogEpt].dest # Any
    <2>1. Call("isr", b, [kind |-> "data"], "idle") /\ b \in BOOLEAN /\ ~InSend("isr")
      BY <1>9 DEF DmaError, rpmsg_send, InSend
    <2> HIDE DEF b
    <2> QED
      BY <1>b, <1>e, <2>1
  <1>10. CASE Linux \/ IPCC_channel2_callback \/ UNCHANGED vars
    BY <1>c, <1>10 DEF Linux, IPCC_channel2_callback, LinuxRead, LinuxSend, LinuxNs, LinuxTransmit, vars, ctxVars
  <1>11. ASSUME NEW c \in Contexts, Acquire(c) PROVE CtxFlow'
    BY <1>c, <1>11 DEF Acquire
  <1> QED
    BY <1>1, <1>2, <1>3, <1>4, <1>5, <1>6, <1>7, <1>8, <1>9, <1>10, <1>11
    DEF Next, Step, Send, Receive, Endpoint, Application

\* The two changes of the list, as sets.
LEMMA Registers ==
  ASSUME Base, CreateRegister
  PROVE  /\ cur \in Epts \ Registered /\ Registered' = Registered \cup {cur}
         /\ Len(endpoints') = Len(endpoints) + 1 /\ endpoints'[Len(endpoints) + 1] = cur
         /\ \A i \in 1 .. Len(endpoints) : endpoints'[i] = endpoints[i]
  <1>1. cur \in Epts \ Registered
    BY DEF CreateRegister, Inside, Base, MainFlow
  <1>2. endpoints \in Seq(Epts \cup {NS}) /\ endpoints' = Append(endpoints, cur)
    BY DEF CreateRegister, Base, Typed, EptTyped
  <1>3. /\ endpoints' \in Seq(Epts \cup {NS})
        /\ Len(endpoints') = Len(endpoints) + 1 /\ Len(endpoints) \in Nat
        /\ endpoints'[Len(endpoints) + 1] = cur
        /\ \A i \in 1 .. Len(endpoints) : endpoints'[i] = endpoints[i]
    BY <1>1, <1>2, SeqAppend
  <1>4. DOMAIN endpoints = 1 .. Len(endpoints) /\ DOMAIN endpoints' = 1 .. Len(endpoints) + 1
    BY <1>2, <1>3, SeqDomain
  <1>5. Registered = {endpoints[i] : i \in 1 .. Len(endpoints)}
        /\ Registered' = {endpoints'[i] : i \in 1 .. Len(endpoints) + 1}
    BY <1>4 DEF Registered
  <1>6. Registered' = Registered \cup {cur}
    <2>1. \A i \in 1 .. Len(endpoints) + 1 : i \in 1 .. Len(endpoints) \/ i = Len(endpoints) + 1
      BY <1>3
    <2>2. Len(endpoints) + 1 \in 1 .. Len(endpoints) + 1
          /\ \A i \in 1 .. Len(endpoints) : i \in 1 .. Len(endpoints) + 1
      BY <1>3
    <2> QED
      BY <1>3, <1>5, <2>1, <2>2
  <1> QED
    BY <1>1, <1>3, <1>6

LEMMA Unregisters ==
  ASSUME Base, cur \in Epts \cap Registered, endpoints' = Without(cur)
  PROVE  EndpointList' /\ Registered' = Registered \ {cur}
  <1>1. endpoints \in Seq(Epts \cup {NS}) /\ EndpointList /\ cur # NS
    BY RpmsgAssumption DEF Base, Typed, EptTyped
  <1>2. endpoints' \in Seq(Epts \cup {NS}) /\ Len(endpoints') = Len(endpoints) - 1
    BY <1>1, Removed
  <1>3. PICK k \in 1 .. Len(endpoints) :
          /\ endpoints[k] = cur
          /\ \A i \in 1 .. Len(endpoints) - 1 :
               endpoints'[i] = IF i < k THEN endpoints[i] ELSE endpoints[i + 1]
    BY <1>1, Removed
  <1>4. /\ DOMAIN endpoints = 1 .. Len(endpoints) /\ DOMAIN endpoints' = 1 .. Len(endpoints) - 1
        /\ Len(endpoints) \in Nat
    BY <1>1, <1>2, SeqDomain
  <1> DEFINE n == Len(endpoints)
             old(i) == IF i < k THEN i ELSE i + 1
  <1>5. n \in Nat /\ k \in 1 .. n /\ k # 1
    BY <1>1, <1>3, <1>4 DEF EndpointList
  <1>6. \A i \in 1 .. n - 1 : old(i) \in 1 .. n /\ old(i) # k /\ endpoints'[i] = endpoints[old(i)]
    BY <1>3, <1>5
  <1>7. \A i, j \in 1 .. n - 1 : old(i) = old(j) => i = j
    BY <1>5
  <1>8. \A j \in 1 .. n : j # k => \E i \in 1 .. n - 1 : old(i) = j
    <2> SUFFICES ASSUME NEW j \in 1 .. n, j # k PROVE \E i \in 1 .. n - 1 : old(i) = j
      OBVIOUS
    <2>1. CASE j < k
      <3>1. j \in 1 .. n - 1 /\ old(j) = j
        BY <1>5, <2>1
      <3> QED
        BY <3>1
    <2>2. CASE ~(j < k)
      <3>1. j - 1 \in 1 .. n - 1 /\ old(j - 1) = j
        BY <1>5, <2>2
      <3> QED
        BY <3>1
    <2> QED
      BY <2>1, <2>2
  <1>9. 1 \in 1 .. n - 1 /\ old(1) = 1
    BY <1>5
  <1>10. \A i, j \in 1 .. n : endpoints[i] = endpoints[j] => i = j
    BY <1>1 DEF EndpointList
  <1>11. Registered' = {endpoints'[i] : i \in 1 .. n - 1} /\ Registered = {endpoints[i] : i \in 1 .. n}
    BY <1>4 DEF Registered
  <1>12. endpoints[1] = NS
    BY <1>1 DEF EndpointList
  <1> HIDE DEF old
  <1>13. \A i, j \in 1 .. n - 1 : endpoints'[i] = endpoints'[j] => i = j
    BY <1>6, <1>7, <1>10
  <1>14. Registered' = Registered \ {cur}
    <2>1. ASSUME NEW e \in Registered' PROVE e \in Registered /\ e # cur
      <3>1. PICK i \in 1 .. n - 1 : e = endpoints'[i]
        BY <1>11
      <3>2. e = endpoints[old(i)] /\ old(i) \in 1 .. n /\ old(i) # k
        BY <1>6, <3>1
      <3> QED
        BY <1>3, <1>10, <1>11, <3>2
    <2>2. ASSUME NEW e \in Registered, e # cur PROVE e \in Registered'
      <3>1. PICK j \in 1 .. n : e = endpoints[j]
        BY <1>11
      <3>2. PICK i \in 1 .. n - 1 : old(i) = j
        BY <1>3, <1>8, <2>2, <3>1
      <3> QED
        BY <1>6, <1>11, <3>1, <3>2
    <2> QED
      BY <2>1, <2>2
  <1>15. endpoints'[1] = NS
    BY <1>6, <1>9, <1>12
  <1>16. n - 1 > 0
    BY <1>5
  <1> QED
    BY <1>2, <1>13, <1>14, <1>15, <1>16 DEF EndpointList

\* The list stays in order.
LEMMA ListStep == Base /\ [Next]_vars => EndpointList'
  <1> SUFFICES ASSUME Base, [Next]_vars PROVE EndpointList'
    OBVIOUS
  <1>a. EndpointList /\ endpoints \in Seq(Epts \cup {NS})
    BY DEF Base, Typed, EptTyped
  <1>1. CASE CreateRegister
    <2>1. Len(endpoints) \in Nat /\ Registered = {endpoints[i] : i \in 1 .. Len(endpoints)}
      BY <1>a, SeqDomain DEF Registered
    <2>2. /\ cur \notin Registered
          /\ Len(endpoints') = Len(endpoints) + 1 /\ endpoints'[Len(endpoints) + 1] = cur
          /\ \A i \in 1 .. Len(endpoints) : endpoints'[i] = endpoints[i]
      BY <1>1, Registers
    <2>3. \A i \in 1 .. Len(endpoints) + 1 : i \in 1 .. Len(endpoints) \/ i = Len(endpoints) + 1
      BY <2>1
    <2>4. \A i \in 1 .. Len(endpoints) : endpoints[i] # cur
      BY <2>1, <2>2
    <2>5. \A i, j \in 1 .. Len(endpoints) + 1 : endpoints'[i] = endpoints'[j] => i = j
      BY <1>a, <2>2, <2>3, <2>4 DEF EndpointList
    <2>6. Len(endpoints) + 1 > 0 /\ 1 \in 1 .. Len(endpoints)
      BY <1>a, <2>1 DEF EndpointList
    <2> QED
      BY <1>a, <2>2, <2>5, <2>6 DEF EndpointList
  <1>2. CASE CreateEnd \/ DestroyEnd
    <2>1. cur \in Epts \cap Registered
      BY <1>2 DEF CreateEnd, DestroyEnd, Inside, Base, MainFlow, Announcing
    <2>2. UNCHANGED endpoints \/ endpoints' = Without(cur)
      BY <1>2 DEF CreateEnd, DestroyEnd, rpmsg_unregister_endpoint
    <2>3. UNCHANGED endpoints => EndpointList'
      BY <1>a DEF EndpointList
    <2> QED
      BY <2>1, <2>2, <2>3, Unregisters
  <1>3. CASE ~(CreateRegister \/ CreateEnd \/ DestroyEnd)
    <2>1. UNCHANGED endpoints
      BY <1>3, EptFrame DEF EptActions, eptVars, RxDeliver, NsLookup, RxFind, RxNext, Create, Destroy
    <2> QED
      BY <1>a, <2>1 DEF EndpointList
  <1> QED
    BY <1>1, <1>2, <1>3

\* Only the creation and the removal of an endpoint change an address in use.
LEMMA AddressFrame ==
  ASSUME Base, [Next]_vars, ~(CreateRegister \/ CreateEnd \/ DestroyEnd)
  PROVE  UNCHANGED <<endpoints, bitmap>> /\ \A e \in Epts \cup {NS} : ept'[e].addr = ept[e].addr
  <1> DEFINE Goal == UNCHANGED <<endpoints, bitmap>> /\ \A e \in Epts \cup {NS} : ept'[e].addr = ept[e].addr
  <1> SUFFICES Goal
    OBVIOUS
  <1>a. Registered \subseteq Epts \cup {NS} /\ ept \in [Epts \cup {NS} -> Ept] /\ cur \in Epts \cup {NS}
    BY RegisteredTyped DEF Base, Typed, EptTyped
  <1>b. ASSUME NEW e \in Epts \cup {NS}, NEW d, ept' = [ept EXCEPT ![e].dest = d], UNCHANGED <<endpoints, bitmap>>
        PROVE  Goal
    BY <1>a, <1>b DEF Ept
  <1>1. CASE RxDeliver
    <2>1. ept' = [ept EXCEPT ![cur].dest = IF ept[cur].dest = Any THEN rx.src ELSE ept[cur].dest]
      BY <1>1 DEF RxDeliver
    <2>2. \E d : ept' = [ept EXCEPT ![cur].dest = d]
      BY <2>1
    <2> QED
      BY <1>1, <1>a, <1>b, <2>2 DEF RxDeliver
  <1>2. CASE NsLookup
    <2> DEFINE f == GetEndpoint(rx.name, Any, rx.addr)
               d == IF rx.kind = "destroy" THEN Any ELSE rx.addr
    <2>1. ept' = ept \/ (f \in Epts \cup {NS} /\ ept' = [ept EXCEPT ![f].dest = d])
      BY <1>a, <1>2, Found DEF NsLookup
    <2> HIDE DEF f, d
    <2> QED
      BY <1>b, <1>2, <2>1 DEF NsLookup
  <1>3. CASE ~(RxDeliver \/ NsLookup)
    BY <1>3, EptFrame DEF EptActions, eptVars, RxFind, RxNext, Create, Destroy
  <1> QED
    BY <1>1, <1>2, <1>3

\* An address is given to one endpoint at a time.
LEMMA AddressStep == Base /\ [Next]_vars => Addresses'
  <1> SUFFICES ASSUME Base, [Next]_vars PROVE Addresses'
    OBVIOUS
  <1>a. Addresses /\ Registered \subseteq Epts \cup {NS} /\ NS \in Registered /\ NS \notin Epts
    BY RegisteredTyped, RpmsgAssumption DEF Base
  <1>b. ept \in [Epts \cup {NS} -> Ept]
    BY DEF Base, Typed, EptTyped
  <1>c. ASSUME UNCHANGED <<endpoints, bitmap>>, \A e \in Epts \cup {NS} : ept'[e].addr = ept[e].addr
        PROVE  Addresses'
    <2>1. Registered' = Registered
      BY <1>c DEF Registered
    <2> QED
      BY <1>a, <1>c, <2>1 DEF Addresses
  <1>1. CASE CreateRegister
    <2>1. cur \in Epts \ Registered /\ Registered' = Registered \cup {cur}
      BY <1>1, Registers
    <2>2. NextClearBit \in Low \ bitmap
      BY <2>1, FreshAddress
    <2>3. bitmap' = bitmap \cup {NextClearBit}
      BY <1>1, <2>2 DEF CreateRegister, Low, Any
    <2>4. ept'[cur].addr = NextClearBit /\ \A e \in Registered : ept'[e].addr = ept[e].addr
      <3>1. ept' = [ept EXCEPT ![cur] = [rdev |-> TRUE, addr |-> NextClearBit, dest |-> Any]]
        BY <1>1 DEF CreateRegister
      <3> QED
        BY <1>a, <1>b, <2>1, <3>1
    <2>5. \A e \in Registered : ept[e].addr # NextClearBit
      <3>1. NextClearBit # NsAddr
        BY <2>2, RpmsgAssumption DEF Low
      <3> QED
        BY <1>a, <2>2, <3>1 DEF Addresses
    <2> HIDE DEF Low
    <2>6. \A e \in Registered' \ {NS} : ept'[e].addr \in Low /\ ept'[e].addr \in bitmap'
      BY <1>a, <2>1, <2>2, <2>3, <2>4 DEF Addresses
    <2>7. \A a \in bitmap' : \E e \in Registered' \ {NS} : ept'[e].addr = a
      BY <1>a, <2>1, <2>2, <2>3, <2>4 DEF Addresses
    <2>8. \A e, f \in Registered' : ept'[e].addr = ept'[f].addr => e = f
      BY <1>a, <2>1, <2>4, <2>5 DEF Addresses
    <2>9. ept'[NS].addr = NsAddr
      BY <1>a, <2>4 DEF Addresses
    <2> QED
      BY <2>6, <2>7, <2>8, <2>9 DEF Addresses
  <1>2. CASE CreateEnd \/ DestroyEnd
    <2>1. cur \in Epts \cap Registered
      BY <1>2 DEF CreateEnd, DestroyEnd, Inside, Base, MainFlow, Announcing
    <2>2. UNCHANGED ept /\ (UNCHANGED <<endpoints, bitmap>> \/ rpmsg_unregister_endpoint)
      BY <1>2 DEF CreateEnd, DestroyEnd
    <2>3. CASE UNCHANGED <<endpoints, bitmap>>
      BY <1>c, <2>2, <2>3
    <2>4. CASE rpmsg_unregister_endpoint
      <3>1. Registered' = Registered \ {cur} /\ bitmap' = bitmap \ {ept[cur].addr}
        BY <2>1, <2>4, Unregisters DEF rpmsg_unregister_endpoint
      <3> QED
        BY <1>a, <2>1, <2>2, <3>1 DEF Addresses
    <2> QED
      BY <2>2, <2>3, <2>4
  <1>3. CASE ~(CreateRegister \/ CreateEnd \/ DestroyEnd)
    BY <1>3, <1>c, AddressFrame
  <1> QED
    BY <1>1, <1>2, <1>3

LEMMA NotToAny == \A m \in RxMsg : m.dst # Any
  <1>1. \A m \in RxMsg : m.dst \in Nat
    BY RpmsgAssumption DEF RxMsg, DataIn, NsIn, Low
  <1> QED
    BY <1>1 DEF Any

\* The endpoint of the address of a message.
LEMMA FoundAt ==
  ASSUME Base, rx \in RxMsg, Matching("", rx.dst, Any) # {}
  PROVE  /\ GetEndpoint("", rx.dst, Any) \in Registered
         /\ ept[GetEndpoint("", rx.dst, Any)].addr = rx.dst
  <1> DEFINE f == GetEndpoint("", rx.dst, Any)
  <1>1. f \in Registered /\ Match(f, "", rx.dst, Any)
    BY Found
  <1>2. rx.dst # Any
    BY NotToAny
  <1> HIDE DEF f
  <1>3. ept[f].addr = rx.dst
    BY <1>1, <1>2 DEF Match
  <1> QED
    BY <1>1, <1>3 DEF f

\* What the main loop holds, and which endpoint it is on.
LEMMA MainFlowStep == Base /\ [Next]_vars => MainFlow'
  <1> SUFFICES ASSUME Base, [Next]_vars PROVE MainFlow'
    OBVIOUS
  <1> USE ContextNames
  <1>a. /\ MainFlow /\ CtxFlow /\ CtxTyped /\ LinkTyped /\ cur \in Epts \cup {NS} /\ NS \notin Epts
        /\ Registered \subseteq Epts \cup {NS}
    BY RegisteredTyped, RpmsgAssumption DEF Base, Typed, EptTyped
  <1>b. NoMsg \notin RxMsg
    BY DEF NoMsg, RxMsg, DataIn, NsIn
  <1>c. ASSUME pc'["main"] = pc["main"], back'["main"] = back["main"], UNCHANGED <<rx, cur, endpoints>>
        PROVE  MainFlow'
    <2>1. Registered' = Registered
      BY <1>c DEF Registered
    <2> QED
      BY <1>a, <1>c, <2>1 DEF MainFlow, Holding, Announcing, InSend
  <1>d. ASSUME NEW p, Goto("main", p) PROVE pc'["main"] = p
    BY <1>a, <1>d DEF Goto, CtxTyped
  <1>e. ASSUME NEW c \in Contexts, NEW res \in {"ok", "err_no_buff", "err_buff_size"}, InSend(c), Return(c, res),
               txHeld' \in [Contexts -> BOOLEAN], UNCHANGED <<rx, cur, endpoints>>
        PROVE  MainFlow'
    <2>1. /\ \A d \in Contexts \ {c} : pc'[d] = pc[d] /\ back'[d] = back[d]
          /\ pc'[c] = back[c] /\ back'[c] = "idle"
      BY <1>a, <1>e, ReturnTyped
    <2>2. Registered' = Registered
      BY <1>e DEF Registered
    <2>3. CASE c = "main"
      BY <1>a, <1>e, <2>1, <2>2, <2>3 DEF MainFlow, CtxFlow, Holding, Announcing, InSend
    <2>4. CASE c = "isr"
      BY <1>c, <1>e, <2>1, <2>4
    <2> QED
      BY <2>3, <2>4
  \* A call of the main loop, before which it held what it holds after.
  <1>f. ASSUME NEW known \in BOOLEAN, NEW msg \in TxMsg, NEW ret \in {"idle", "rxnext", "created", "unreg"},
               Call("main", known, msg, ret), known \/ ret \in {"idle", "rxnext"}
        PROVE  /\ Holding' <=> ret = "rxnext"
               /\ Announcing' <=> ret \in {"created", "unreg"}
               /\ pc'["main"] \notin {"create", "cb", "ns"}
    <2>1. /\ known => pc'["main"] = "get" /\ back'["main"] = ret
          /\ ~known => pc'["main"] = ret /\ UNCHANGED back
      BY <1>a, <1>f, CallTyped
    <2> QED
      BY <1>a, <1>f, <2>1 DEF Holding, Announcing, InSend
  <1>g. [kind |-> "data"] \in TxMsg
    BY DEF TxMsg, DataOut
  <1>h. \A kind \in {"create", "destroy"}, a \in Low, e \in Epts :
          [kind |-> kind, addr |-> a, name |-> Service[e], of |-> e] \in TxMsg
    BY DEF TxMsg, NsOut
  <1>1. ASSUME NEW c \in Contexts, SendGet(c) PROVE MainFlow'
    <2>1. InSend(c) /\ UNCHANGED <<rx, cur, endpoints>>
      BY <1>1 DEF SendGet, Inside, InSend, eptVars, rxVars
    <2>2. CASE MsgSize =< AvailSize
      <3>1. pc' = [pc EXCEPT ![c] = "enqueue"] /\ UNCHANGED back /\ Registered' = Registered /\ pc[c] = "get"
        BY <1>1, <2>1, <2>2 DEF SendGet, Goto, Registered, Inside
      <3>2. pc'["main"] = pc["main"] \/ (pc["main"] = "get" /\ pc'["main"] = "enqueue")
        BY <1>a, <3>1 DEF CtxTyped
      <3>3. InSend("main")' <=> InSend("main")
        BY <3>2 DEF InSend
      <3> QED
        BY <1>a, <2>1, <3>1, <3>2, <3>3 DEF MainFlow, Holding, Announcing
    <2>3. CASE ~(MsgSize =< AvailSize) /\ (ticks[c] = 0 \/ AvailSize # 0)
      <3>1. UNCHANGED txHeld
            /\ Return(c, IF ticks[c] = 0 THEN "err_no_buff" ELSE "err_buff_size")
        BY <1>1, <2>3 DEF SendGet, NoBuffer
      <3>2. txHeld' \in [Contexts -> BOOLEAN]
        BY <1>a, <3>1 DEF CtxTyped
      <3> QED
        BY <1>e, <2>1, <3>1, <3>2
    <2>4. CASE ~(MsgSize =< AvailSize) /\ ~(ticks[c] = 0 \/ AvailSize # 0)
      BY <1>1, <1>c, <2>1, <2>4 DEF SendGet, NoBuffer
    <2> QED
      BY <2>2, <2>3, <2>4
  <1>2. ASSUME NEW c \in Contexts, SendEnqueue(c) PROVE MainFlow'
    <2>1. InSend(c) /\ UNCHANGED <<rx, cur, endpoints>> /\ Return(c, "ok") /\ txHeld' \in [Contexts -> BOOLEAN]
      BY <1>2, <1>a DEF SendEnqueue, Enqueue, Inside, InSend, eptVars, rxVars, CtxTyped
    <2> QED
      BY <1>e, <2>1
  <1>3. CASE RxStart \/ RxClear
    <2>1. /\ UNCHANGED <<back, rx>>
          /\ \/ pc["main"] = "idle" /\ pc'["main"] = "rxget"
             \/ pc["main"] = "ack" /\ pc'["main"] = "idle"
      BY <1>3, <1>d DEF RxStart, RxClear, NoCall, NoSend, NoEffect
    <2> QED
      BY <1>a, <2>1 DEF MainFlow, Holding, Announcing, InSend
  <1>4. CASE RxGet \/ RxNext
    <2>1. TakeNext /\ UNCHANGED back
      BY <1>4 DEF RxGet, RxNext, NoCall, NoSend, NoEffect
    <2>2. \/ rx' = NoMsg /\ pc'["main"] = "ack"
          \/ rx' # NoMsg /\ pc'["main"] = "find"
      BY <1>a, <1>b, <1>d, <2>1, Taken
    <2> QED
      BY <1>a, <2>1, <2>2 DEF MainFlow, Holding, Announcing, InSend
  <1>5. CASE RxFind
    <2>1. pc["main"] = "find" /\ UNCHANGED <<back, endpoints>>
      BY <1>5 DEF RxFind, Inside, NoCall, NoSend, NoEffect, eptVars
    <2>2. rx \in RxMsg
      BY <1>a, <2>1 DEF MainFlow, Holding, LinkTyped
    <2>3. CASE Matching("", rx.dst, Any) # {}
      <3>1. cur' = GetEndpoint("", rx.dst, Any) /\ UNCHANGED rx /\ pc'["main"] = "cb"
        BY <1>5, <1>d, <2>3 DEF RxFind
      <3>2. cur' \in Registered /\ ept[cur'].addr = rx.dst
        BY <2>2, <2>3, <3>1, FoundAt
      <3>3. cur' = NS => rx \in NsIn
        <4>1. ASSUME cur' = NS PROVE rx \notin DataIn
          <5>1. rx.dst = NsAddr
            BY <3>2, <4>1 DEF Base, Addresses
          <5>2. NsAddr \notin Low
            BY RpmsgAssumption DEF Low
          <5> QED
            BY <5>1, <5>2 DEF DataIn
        <4> QED
          BY <2>2, <4>1 DEF RxMsg
      <3>4. cur' # NS => rx \in DataIn
        <4>1. ASSUME cur' # NS PROVE rx \notin NsIn
          <5>1. rx.dst \in Low
            BY <3>2, <4>1 DEF Base, Addresses
          <5>2. NsAddr \notin Low
            BY RpmsgAssumption DEF Low
          <5> QED
            BY <5>1, <5>2 DEF NsIn
        <4> QED
          BY <2>2, <4>1 DEF RxMsg
      <3>5. Registered' = Registered
        BY <2>1 DEF Registered
      <3> QED
        BY <1>a, <1>b, <2>1, <2>2, <3>1, <3>2, <3>3, <3>4, <3>5 DEF MainFlow, CtxFlow, Holding, Announcing, InSend
    <2>4. CASE Matching("", rx.dst, Any) = {}
      <3>1. rx' = NoMsg /\ pc'["main"] = "ack"
        BY <1>5, <1>d, <2>4 DEF RxFind
      <3> QED
        BY <3>1 DEF MainFlow, Holding, Announcing, InSend
    <2> QED
      BY <2>3, <2>4
  <1>6. CASE RxDeliver
    <2> DEFINE known == [ept EXCEPT ![cur].dest = IF @ = Any THEN rx.src ELSE @]
               b == known[LogEpt].rdev /\ known[LogEpt].dest # Any
    <2>1. Call("main", b, [kind |-> "data"], "rxnext") /\ b \in BOOLEAN
      BY <1>6 DEF RxDeliver, rpmsg_send
    <2>2. pc["main"] = "cb" /\ UNCHANGED rx
      BY <1>6 DEF RxDeliver, rxVars
    <2> HIDE DEF b
    <2>3. Holding' /\ ~Announcing' /\ pc'["main"] \notin {"create", "cb", "ns"}
      BY <1>f, <1>g, <2>1
    <2> QED
      BY <1>a, <2>2, <2>3 DEF MainFlow, Holding
  <1>7. CASE RxNameService \/ NsLookup
    <2>1. UNCHANGED <<back, rx>>
          /\ \/ pc["main"] = "cb" /\ cur = NS /\ pc'["main"] = "ns"
             \/ pc["main"] = "ns" /\ pc'["main"] = "rxnext"
      BY <1>7, <1>d DEF RxNameService, NsLookup, Inside, NoCall, NoSend, NoEffect, rxVars
    <2> QED
      BY <1>a, <2>1 DEF MainFlow, CtxFlow, Holding, Announcing, InSend
  <1>8. CASE CreateRegister
    <2>1. cur \in Epts /\ Registered' = Registered \cup {cur} /\ NextClearBit \in Low
      BY <1>8, Registers, FreshAddress
    <2>2. UNCHANGED <<rx, cur>> /\ pc["main"] = "create"
      BY <1>8 DEF CreateRegister, Inside, rxVars
    <2>3. ~Holding' /\ Announcing' /\ pc'["main"] \notin {"create", "cb", "ns"}
      BY <1>8, <1>f, <1>h, <2>1 DEF CreateRegister
    <2> QED
      BY <1>a, <2>1, <2>2, <2>3 DEF MainFlow, Holding, InSend
  <1>9. CASE CreateEnd \/ DestroyEnd
    <2>1. pc["main"] \in {"created", "unreg"} /\ pc'["main"] = "idle" /\ UNCHANGED <<back, rx>>
      BY <1>9, <1>d DEF CreateEnd, DestroyEnd, Inside, NoCall, NoSend, NoEffect, rxVars
    <2> QED
      BY <1>a, <2>1 DEF MainFlow, Holding, Announcing, InSend
  <1>10. ASSUME NEW e \in Epts, AppSend(e) PROVE MainFlow'
    <2> DEFINE b == ept[e].rdev /\ ept[e].dest # Any
    <2>1. Call("main", b, [kind |-> "data"], "idle") /\ b \in BOOLEAN
      BY <1>10 DEF AppSend, rpmsg_send
    <2>2. pc["main"] = "idle" /\ UNCHANGED rx
      BY <1>10 DEF AppSend, rxVars
    <2> HIDE DEF b
    <2>3. ~Holding' /\ ~Announcing' /\ pc'["main"] \notin {"create", "cb", "ns"}
      BY <1>f, <1>g, <2>1
    <2> QED
      BY <1>a, <2>2, <2>3 DEF MainFlow, Holding, InSend
  <1>11. ASSUME NEW e \in Epts, Create(e) PROVE MainFlow'
    <2>1. /\ pc["main"] = "idle" /\ pc'["main"] = "create" /\ cur' = e /\ e \notin Registered
          /\ UNCHANGED <<back, rx, endpoints>>
      BY <1>11, <1>d DEF Create, NoEffect, eptVars, rxVars
    <2>2. Registered' = Registered
      BY <2>1 DEF Registered
    <2> QED
      BY <1>a, <2>1, <2>2 DEF MainFlow, Holding, Announcing, InSend
  <1>12. ASSUME NEW e \in Epts, Destroy(e) PROVE MainFlow'
    <2>1. pc["main"] = "idle" /\ UNCHANGED <<rx, endpoints>> /\ cur' = e /\ e \in Registered
      BY <1>12 DEF Destroy, rxVars
    <2>2. ept[e].addr \in Low /\ Registered' = Registered
      BY <1>a, <2>1 DEF Base, Addresses, Registered
    <2>3. ~Holding' /\ Announcing' /\ pc'["main"] \notin {"create", "cb", "ns"}
      BY <1>12, <1>f, <1>h, <2>2 DEF Destroy
    <2> QED
      BY <1>a, <2>1, <2>2, <2>3 DEF MainFlow, Holding, InSend
  <1>13. CASE DmaError
    <2> DEFINE b == ept[LogEpt].rdev /\ ept[LogEpt].dest # Any
    <2>1. Call("isr", b, [kind |-> "data"], "idle") /\ b \in BOOLEAN
      BY <1>13 DEF DmaError, rpmsg_send
    <2>2. UNCHANGED <<rx, cur, endpoints>>
      BY <1>13 DEF DmaError, rxVars, eptVars
    <2> HIDE DEF b
    <2>3. pc'["main"] = pc["main"] /\ back'["main"] = back["main"]
      BY <1>a, <1>g, <2>1, CallTyped
    <2> QED
      BY <1>c, <2>2, <2>3
  <1>14. CASE Linux \/ IPCC_channel2_callback \/ UNCHANGED vars
    BY <1>c, <1>14 DEF Linux, IPCC_channel2_callback, LinuxRead, LinuxSend, LinuxNs, LinuxTransmit, vars, ctxVars, eptVars, rxVars
  <1>15. ASSUME NEW c \in Contexts, Acquire(c) PROVE MainFlow'
    BY <1>c, <1>15 DEF Acquire, eptVars, rxVars
  <1> QED
    BY <1>1, <1>2, <1>3, <1>4, <1>5, <1>6, <1>7, <1>8, <1>9, <1>10, <1>11, <1>12, <1>13, <1>14, <1>15
    DEF Next, Step, Send, Receive, Endpoint, Application

LEMMA BaseInit == Init => Base
  <1> SUFFICES ASSUME Init PROVE Base
    OBVIOUS
  <1> USE RpmsgAssumption, ContextNames
  <1>1. CtxTyped
    <2>1. "idle" \in Pcs /\ 0 \in 0 .. Ticks
      BY DEF Pcs
    <2> QED
      BY <2>1 DEF Init, CtxTyped
  <1>2. Registered = {NS}
    BY DEF Init, Registered
  <1>3. EptTyped
    <2>1. ept \in [Epts \cup {NS} -> Ept]
      <3>1. 0 \in Address /\ NsAddr \in Address /\ 0 \in Int /\ NsAddr \in Int
        BY DEF Address
      <3>2. \A e \in Epts \cup {NS} : ept[e] \in Ept
        BY <3>1 DEF Init, Ept
      <3> QED
        BY <3>2 DEF Init
    <2>2. endpoints \in Seq(Epts \cup {NS})
      BY DEF Init
    <2> QED
      BY <2>1, <2>2 DEF Init, EptTyped
  <1>4. LinkTyped
    <2>1. <<>> \in Seq(TxMsg) /\ <<>> \in Seq(RxMsg)
      OBVIOUS
    <2>2. NoMsg \in RxMsg \cup {NoMsg}
      OBVIOUS
    <2>3. 0 \in 0 .. MaxErrors /\ 0 \in 0 .. MaxChanges /\ TxBufs \in Nat /\ RxBufs \in Nat /\ 0 \in Nat
      OBVIOUS
    <2> QED
      BY <2>1, <2>2, <2>3 DEF Init, LinkTyped
  <1>5. CtxFlow
    BY DEF Init, CtxFlow, InSend
  <1>6. MainFlow
    BY DEF Init, MainFlow, Holding, Announcing, InSend
  <1>7. EndpointList
    BY DEF Init, EndpointList
  <1>8. Addresses
    BY <1>2 DEF Init, Addresses
  <1> QED
    BY <1>1, <1>3, <1>4, <1>5, <1>6, <1>7, <1>8 DEF Base, Typed

\* The inductive invariant of types, places and addresses.
THEOREM Invariant == Spec => []Base
  <1>1. Base /\ [Next]_vars => Base'
    <2>1. CtxNext => CtxTyped'
      BY DEF CtxNext, CtxTyped
    <2> QED
      BY <2>1, CtxStep, EptStep, LinkStep, CtxFlowStep, MainFlowStep, ListStep, AddressStep DEF Base, Typed
  <1> QED
    BY <1>1, BaseInit, PTL DEF Spec

------------------------------------------------------------------------------
(* Buffers.                                                                 *)

RxHeld == IF rx = NoMsg THEN 0 ELSE 1
TxHeldBy(c) == IF txHeld[c] THEN 1 ELSE 0
RxAccounted == rxFree + Len(rxq) + RxHeld + lost = RxBufs
TxAccounted == txAvail + Len(toLinux) + TxHeldBy("main") + TxHeldBy("isr") = TxBufs

\* A message waits for the interrupt or the poll that will announce it, or for
\* the callback, unless it was left behind: that is already settled when the
\* callback has ended and the flag is still to be cleared.
Drained ==
  /\ rxq # <<>> => kick \/ notified \/ stranded # "none" \/ rx # NoMsg \/ pc["main"] = "rxget"
  /\ pc["main"] = "ack" /\ rxq # <<>> => stranded # "none"
  /\ stranded = "unknown" => lost > 0

LEMMA HeldBuffers ==
  ASSUME Base
  PROVE  Cardinality({c \in Contexts : txHeld[c]}) = TxHeldBy("main") + TxHeldBy("isr")
  <1>1. txHeld["main"] \in BOOLEAN /\ txHeld["isr"] \in BOOLEAN
    BY ContextNames DEF Base, Typed, CtxTyped
  <1> DEFINE H == {c \in Contexts : txHeld[c]}
  <1>2. CASE txHeld["main"] /\ txHeld["isr"]
    <2>1. H = {"isr"} \cup {"main"} /\ "main" \notin {"isr"}
      BY <1>2, ContextNames
    <2>2. IsFiniteSet({"isr"}) /\ Cardinality({"isr"}) = 1
      BY FS_Singleton
    <2> HIDE DEF H
    <2>3. Cardinality(H) = 2
      BY <2>1, <2>2, FS_AddElement
    <2> QED
      BY <1>2, <2>3 DEF TxHeldBy, H
  <1>3. CASE txHeld["main"] /\ ~txHeld["isr"]
    <2>1. H = {"main"}
      BY <1>3, ContextNames
    <2>2. Cardinality({"main"}) = 1
      BY FS_Singleton
    <2> QED
      BY <1>3, <2>1, <2>2 DEF TxHeldBy
  <1>4. CASE ~txHeld["main"] /\ txHeld["isr"]
    <2>1. H = {"isr"}
      BY <1>4, ContextNames
    <2> QED
      BY <1>4, <2>1, FS_Singleton DEF TxHeldBy
  <1>5. CASE ~txHeld["main"] /\ ~txHeld["isr"]
    <2>1. H = {}
      BY <1>5, ContextNames
    <2> QED
      BY <1>5, <2>1, FS_EmptySet DEF TxHeldBy
  <1> QED
    BY <1>1, <1>2, <1>3, <1>4, <1>5

\* Which actions move a receive buffer; the others leave the receive side alone.
RxActions == RxStart \/ RxClear \/ RxGet \/ RxFind \/ RxNext \/ IPCC_channel2_callback \/ \E ch \in channels :
               LinuxSend(ch) \/ \E kind \in {"create", "destroy"} : LinuxNs(ch, kind)
LEMMA RxFrame ==
  ASSUME Base, [Next]_vars, ~RxActions
  PROVE  /\ UNCHANGED rxVars /\ (pc["main"] = "rxget" => pc'["main"] = "rxget")
         /\ pc'["main"] = "ack" => pc["main"] = "ack"
  <1> USE ContextNames
  <1>1. UNCHANGED rxVars
    BY DEF RxActions, Next, Step, Send, Receive, Endpoint, Application, Linux, Acquire, SendGet,
       SendEnqueue, Enqueue, RxDeliver, RxNameService, NsLookup, CreateRegister, CreateEnd, DestroyEnd, AppSend, Create,
       Destroy, DmaError, LinuxRead, vars
  <1>2. ASSUME pc["main"] = "rxget" PROVE pc'["main"] = "rxget"
    <2>1. pc \in [Contexts -> Pcs]
      BY DEF Base, Typed, CtxTyped
    <2>2. (\E c \in Contexts : Send(c)) \/ DmaError \/ LinuxRead \/ UNCHANGED vars
      BY <1>2 DEF RxActions, Next, Step, Receive, Endpoint, Application, Linux, RxDeliver, RxNameService,
         NsLookup, CreateRegister, CreateEnd, DestroyEnd, AppSend, Create, Destroy, Inside
    <2>3. ASSUME NEW c \in Contexts, Send(c) PROVE pc'["main"] = "rxget"
      <3>1. UNCHANGED pc \/ (pc[c] \in {"get", "enqueue"} /\ \E p : pc' = [pc EXCEPT ![c] = p])
        BY <2>3 DEF Send, Acquire, SendGet, NoBuffer, SendEnqueue, Enqueue, Inside, Return, Goto
      <3> QED
        BY <1>2, <2>1, <3>1
    <2>4. ASSUME DmaError PROVE pc'["main"] = "rxget"
      <3>1. \E p : pc' = [pc EXCEPT !["isr"] = p]
        BY <2>4 DEF DmaError, rpmsg_send, Call, Goto
      <3> QED
        BY <1>2, <2>1, <3>1
    <2> QED
      BY <1>2, <2>2, <2>3, <2>4 DEF LinuxRead, vars, ctxVars
  <1>3. pc'["main"] = "ack" => pc["main"] = "ack"
    <2> DEFINE Targets == {"get", "enqueue", "rxnext", "created", "idle", "unreg", "ns", "create"}
    <2>1. /\ pc \in [Contexts -> Pcs] /\ back["main"] \in Targets
      BY DEF Base, Typed, CtxTyped, CtxFlow
    <2>2. \/ UNCHANGED pc \/ \E p : pc' = [pc EXCEPT !["isr"] = p]
          \/ \E p \in Targets : pc' = [pc EXCEPT !["main"] = p]
      <3>1. ASSUME NEW c \in Contexts, Send(c)
            PROVE  UNCHANGED pc \/ \E p \in Targets \cup {back[c]} : pc' = [pc EXCEPT ![c] = p]
        BY <3>1 DEF Send, Acquire, SendGet, NoBuffer, SendEnqueue, Enqueue, Return, Goto
      <3>2. CASE \E c \in Contexts : Send(c)
        BY <2>1, <3>1, <3>2
      <3>3. CASE DmaError
        BY <3>3 DEF DmaError, rpmsg_send, Call, Goto
      <3>4. CASE RxDeliver \/ RxNameService \/ NsLookup \/ Endpoint
        BY <3>4 DEF RxDeliver, RxNameService, NsLookup, Endpoint, CreateRegister, CreateEnd, DestroyEnd,
           rpmsg_send, Call, Goto
      <3>5. CASE Application
        BY <3>5 DEF Application, AppSend, Create, Destroy, rpmsg_send, Call, Goto
      <3>6. CASE LinuxRead \/ UNCHANGED vars
        BY <3>6 DEF LinuxRead, vars, ctxVars
      <3> QED
        BY <3>2, <3>3, <3>4, <3>5, <3>6 DEF RxActions, Next, Step, Receive, Linux
    <2> QED
      BY <2>1, <2>2
  <1> QED
    BY <1>1, <1>2, <1>3

LEMMA RxStep == Base /\ RxAccounted /\ Drained /\ [Next]_vars => RxAccounted' /\ Drained'
  <1> SUFFICES ASSUME Base, RxAccounted, Drained, [Next]_vars PROVE RxAccounted' /\ Drained'
    OBVIOUS
  <1> USE ContextNames
  <1>a. /\ LinkTyped /\ rxq \in Seq(RxMsg) /\ rxFree \in Nat /\ lost \in Nat /\ Len(rxq) \in Nat
        /\ MainFlow /\ CtxFlow /\ pc \in [Contexts -> Pcs]
    BY DEF Base, Typed, LinkTyped, CtxTyped
  <1>b. NoMsg \notin RxMsg
    BY DEF NoMsg, RxMsg, DataIn, NsIn
  <1>d. ASSUME NEW p, Goto("main", p) PROVE pc'["main"] = p
    BY <1>a, <1>d DEF Goto
  <1>1. CASE ~RxActions
    <2>1. UNCHANGED <<rx, rxq, rxFree, kick, notified, stranded, lost>>
      BY <1>1, RxFrame DEF rxVars
    <2>2. /\ pc["main"] = "rxget" => pc'["main"] = "rxget"
          /\ pc'["main"] = "ack" => pc["main"] = "ack"
      BY <1>1, RxFrame
    <2> QED
      BY <2>1, <2>2 DEF RxAccounted, Drained, RxHeld
  <1>2. CASE RxStart
    <2>1. pc'["main"] = "rxget" /\ stranded' = "none" /\ UNCHANGED <<rx, rxq, rxFree, lost>>
      BY <1>2, <1>d DEF RxStart
    <2> QED
      BY <2>1 DEF RxAccounted, Drained, RxHeld
  <1>6. CASE RxClear
    <2>1. pc["main"] = "ack" /\ pc'["main"] = "idle" /\ UNCHANGED <<rx, rxq, rxFree, kick, lost>>
      BY <1>6, <1>d DEF RxClear
    <2>2. (kick \/ stranded' = stranded) /\ (stranded' = stranded \/ stranded' = "none")
      BY <1>6 DEF RxClear
    <2> QED
      BY <2>1, <2>2 DEF RxAccounted, Drained, RxHeld
  <1>7. CASE IPCC_channel2_callback
    <2>1. notified' /\ UNCHANGED <<pc, rx, rxq, rxFree, stranded, lost>>
      BY <1>7 DEF IPCC_channel2_callback, ctxVars
    <2> QED
      BY <2>1 DEF RxAccounted, Drained, RxHeld
  <1>3. CASE RxGet \/ RxNext
    <2>1. TakeNext /\ UNCHANGED <<stranded, lost>>
      BY <1>3 DEF RxGet, RxNext
    <2>2. \/ rxq = <<>> /\ rxq' = rxq /\ rx' = NoMsg
          \/ rx' # NoMsg /\ Len(rxq') = Len(rxq) - 1 /\ pc'["main"] = "find"
      BY <1>a, <1>b, <1>d, <2>1, Taken
    <2>3. \/ RxHeld = 0 /\ rxFree' = rxFree
          \/ RxHeld = 1 /\ rxFree' = rxFree + 1
      BY <1>3, <1>a DEF RxGet, RxNext, ReturnBuffer, Inside, MainFlow, Holding, InSend, RxHeld
    <2>4. Len(rxq') + RxHeld' = Len(rxq)
      BY <1>a, <2>2 DEF RxHeld
    <2>5. Len(rxq') \in Nat /\ RxHeld' \in Nat
      BY <1>a, <2>1, Taken DEF RxHeld
    <2>6. RxAccounted'
      <3>1. rxFree' + RxHeld' + Len(rxq') + lost' = RxBufs
        <4>1. rxFree + Len(rxq) + RxHeld + lost = RxBufs /\ RxHeld \in Nat /\ lost' = lost
          BY <2>1 DEF RxAccounted, RxHeld
        <4>2. rxFree' = rxFree + RxHeld /\ RxHeld \in Nat
          BY <1>a, <2>3
        <4>3. rxFree \in Nat /\ Len(rxq) \in Nat /\ lost \in Nat
          BY <1>a
        <4> HIDE DEF RxHeld
        <4> QED
          BY <2>4, <2>5, <4>1, <4>2, <4>3
      <3> QED
        BY <1>a, <2>3, <2>5, <3>1 DEF RxAccounted
    <2> QED
      BY <2>1, <2>2, <2>6 DEF Drained
  <1>4. CASE RxFind
    <2>1. rx # NoMsg /\ UNCHANGED <<rxq, rxFree>>
      BY <1>4, <1>a DEF RxFind, Inside, MainFlow, Holding
    <2>2. CASE Matching("", rx.dst, Any) # {}
      <3>1. UNCHANGED <<rx, stranded, lost>> /\ pc'["main"] = "cb"
        BY <1>4, <1>d, <2>2 DEF RxFind
      <3> QED
        BY <2>1, <3>1 DEF RxAccounted, Drained, RxHeld
    <2>3. CASE Matching("", rx.dst, Any) = {}
      <3>1. rx' = NoMsg /\ lost' = lost + 1 /\ stranded' = IF rxq = <<>> THEN "none" ELSE "unknown"
        BY <1>4, <2>3 DEF RxFind
      <3>2. RxAccounted'
        BY <1>a, <2>1, <3>1 DEF RxAccounted, RxHeld
      <3>3. lost' > 0 /\ (rxq' # <<>> => stranded' # "none")
        BY <1>a, <2>1, <3>1
      <3> QED
        BY <3>2, <3>3 DEF Drained
    <2> QED
      BY <2>2, <2>3
  <1>5. ASSUME NEW ch \in channels, LinuxSend(ch) \/ \E kind \in {"create", "destroy"} : LinuxNs(ch, kind)
        PROVE  RxAccounted' /\ Drained'
    <2>1. ch \in Channel
      BY <1>a DEF LinkTyped
    <2>2. PICK msg \in RxMsg : LinuxTransmit(msg)
      BY <1>5, <2>1, FromLinux DEF LinuxSend, LinuxNs, RxMsg
    <2>3. Len(rxq') = Len(rxq) + 1 /\ rxFree' = rxFree - 1 /\ UNCHANGED <<rx, lost>>
      BY <1>a, <2>2, SeqAppend DEF LinuxTransmit
    <2>4. /\ kick' /\ UNCHANGED <<pc, lost>>
          /\ stranded' = IF pc["main"] = "ack" THEN "late" ELSE "none"
      BY <2>2 DEF LinuxTransmit, ctxVars
    <2>5. RxAccounted'
      BY <1>a, <2>3 DEF RxAccounted, RxHeld
    <2> QED
      BY <2>4, <2>5 DEF Drained
  <1> QED
    BY <1>1, <1>2, <1>3, <1>4, <1>5, <1>6, <1>7 DEF RxActions

LEMMA TxStep == Base /\ TxAccounted /\ [Next]_vars => TxAccounted'
  <1> SUFFICES ASSUME Base, TxAccounted, [Next]_vars PROVE TxAccounted'
    OBVIOUS
  <1> USE ContextNames
  <1>a. /\ CtxTyped /\ CtxFlow /\ toLinux \in Seq(TxMsg) /\ txAvail \in Nat /\ Len(toLinux) \in Nat
        /\ txHeld \in [Contexts -> BOOLEAN]
    BY DEF Base, Typed, LinkTyped, CtxTyped
  <1>b. ASSUME UNCHANGED <<txHeld, txVars>> PROVE TxAccounted'
    BY <1>b DEF TxAccounted, TxHeldBy, txVars
  <1>1. ASSUME NEW c \in Contexts, SendGet(c) PROVE TxAccounted'
    <2>1. CASE MsgSize =< AvailSize
      <3>1. txHeld' = [txHeld EXCEPT ![c] = TRUE] /\ ~txHeld[c] /\ txAvail' = txAvail - 1 /\ UNCHANGED toLinux
        BY <1>1, <1>a, <2>1 DEF SendGet, Inside, CtxFlow
      <3> QED
        BY <1>a, <3>1 DEF TxAccounted, TxHeldBy
    <2>2. CASE ~(MsgSize =< AvailSize)
      BY <1>1, <1>b, <2>2 DEF SendGet, txVars
    <2> QED
      BY <2>1, <2>2
  <1>2. ASSUME NEW c \in Contexts, SendEnqueue(c) PROVE TxAccounted'
    <2>1. snd[c] \in TxMsg /\ txHeld[c]
      BY <1>2, <1>a DEF SendEnqueue, Enqueue, Inside, CtxFlow, InSend
    <2>2. txHeld' = [txHeld EXCEPT ![c] = FALSE] /\ UNCHANGED txAvail /\ Len(toLinux') = Len(toLinux) + 1
      BY <1>2, <1>a, <2>1, SeqAppend DEF SendEnqueue, Enqueue
    <2> QED
      BY <1>a, <2>1, <2>2 DEF TxAccounted, TxHeldBy
  <1>3. CASE LinuxRead
    <2>1. Len(toLinux') = Len(toLinux) - 1 /\ txAvail' = txAvail + 1 /\ UNCHANGED txHeld
      BY <1>3, <1>a, SeqTail DEF LinuxRead, ctxVars
    <2> QED
      BY <1>a, <2>1 DEF TxAccounted, TxHeldBy
  <1>4. CASE ~((\E c \in Contexts : SendGet(c) \/ SendEnqueue(c)) \/ LinuxRead)
    <2>1. UNCHANGED <<txHeld, txVars>>
      BY <1>4 DEF Next, Step, Send, Receive, Endpoint, Application, IPCC_channel2_callback, Linux, Acquire, RxStart, RxClear, RxGet, RxFind,
         RxDeliver, RxNameService, NsLookup, RxNext, CreateRegister, CreateEnd, DestroyEnd, AppSend, Create,
         Destroy, DmaError, LinuxSend, LinuxNs, LinuxTransmit, NoCall, NoSend, NoEffect, rpmsg_send, Call,
         vars, ctxVars
    <2> QED
      BY <1>b, <2>1
  <1> QED
    BY <1>1, <1>2, <1>3, <1>4

\* Each buffer of the two vrings is in one place.
LEMMA Accounted == Spec => [](RxAccounted /\ TxAccounted /\ Drained)
  <1>1. Init => RxAccounted /\ TxAccounted /\ Drained
    BY RpmsgAssumption, ContextNames DEF Init, RxAccounted, TxAccounted, Drained, RxHeld, TxHeldBy
  <1> QED
    BY <1>1, RxStep, TxStep, Invariant, PTL DEF Spec

\* Types; the counts of free buffers never leave the size of their vring.
THEOREM TypeCorrect == Spec => []TypeOK
  <1>1. Base /\ RxAccounted /\ TxAccounted => TypeOK
    <2> SUFFICES ASSUME Base, RxAccounted, TxAccounted PROVE TypeOK
      OBVIOUS
    <2>1. rxFree \in 0 .. RxBufs /\ lost \in 0 .. RxBufs
      <3>1. rxFree \in Nat /\ lost \in Nat /\ Len(rxq) \in Nat
        BY SeqDomain DEF Base, Typed, LinkTyped
      <3> QED
        BY <3>1, RpmsgAssumption DEF RxAccounted, RxHeld
    <2>2. txAvail \in 0 .. TxBufs
      <3>1. txAvail \in Nat /\ Len(toLinux) \in Nat
        BY SeqDomain DEF Base, Typed, LinkTyped
      <3> QED
        BY <3>1, RpmsgAssumption DEF TxAccounted, TxHeldBy
    <2>3. Registered \subseteq Epts \cup {NS}
      BY RegisteredTyped
    <2> QED
      BY <2>1, <2>2, <2>3 DEF Base, Typed, CtxTyped, EptTyped, LinkTyped, Ept, TypeOK
  <1> QED
    BY <1>1, Invariant, Accounted, PTL

\* AddressesExact: the bits set are the addresses of the registered endpoints,
\* which differ from each other and from that of the name service.
THEOREM AddressesUnique == Spec => []AddressesExact
  <1>1. Base => AddressesExact
    <2> SUFFICES ASSUME Base PROVE AddressesExact
      OBVIOUS
    <2> DEFINE at == [i \in DOMAIN endpoints |-> ept[endpoints[i]].addr]
    <2>1. endpoints \in Seq(Epts \cup {NS}) /\ EndpointList /\ Addresses
      BY DEF Base, Typed, EptTyped
    <2>2. DOMAIN endpoints = 1 .. Len(endpoints) /\ 1 \in 1 .. Len(endpoints)
      BY <2>1, SeqDomain DEF EndpointList
    <2>3. DOMAIN at = DOMAIN endpoints /\ \A i \in DOMAIN at : at[i] = ept[endpoints[i]].addr
      OBVIOUS
    <2> HIDE DEF at
    <2>4. \A i, j \in DOMAIN at : at[i] = at[j] => i = j
      BY <2>1, <2>2, <2>3 DEF Registered, Addresses, EndpointList
    <2>5. Registered \ {NS} = {endpoints[i] : i \in DOMAIN at \ {1}}
      BY <2>1, <2>2, <2>3 DEF Registered, EndpointList
    <2>6. bitmap = {at[i] : i \in DOMAIN at \ {1}}
      BY <2>1, <2>3, <2>5 DEF Addresses
    <2> QED
      BY <2>4, <2>6 DEF AddressesExact, at
  <1> QED
    BY <1>1, Invariant, PTL

------------------------------------------------------------------------------
(* Owners: as long as no endpoint has been destroyed, whatever travels is   *)
(* about an endpoint and its own address.                                   *)

\* The endpoint being created, while its announcement is not on its way: the
\* message is still in the hands of the sender, or the send has failed.
Unsent == (InSend("main") /\ back["main"] = "created") \/ (pc["main"] = "created" /\ result["main"] # "ok")
Announced == {e \in Registered \ {NS} : ~(Unsent /\ e = cur)}
Known == {<<e, ept[e].addr>> : e \in Announced}

OutOwn(known, m) == m.kind = "data" \/ (m.kind = "create" /\ <<m.of, m.addr>> \in known)
InOwn(known, m) ==
  IF m.kind = "data" THEN <<m.for, m.dst>> \in known /\ m.src = Peer(m.dst)
  ELSE \E p \in known : m.name = Service[p[1]] /\ m.addr = Peer(p[2])

ChannelsOwned == \A ch \in channels : <<ch.of, ch.addr>> \in Known
OutOwned == \A i \in 1 .. Len(toLinux) : OutOwn(Known, toLinux[i])
InOwned == \A i \in 1 .. Len(rxq) : InOwn(Known, rxq[i])
RxOwned == rx # NoMsg => InOwn(Known, rx)
IsrSends == InSend("isr") => snd["isr"].kind = "data"
MainSends ==
  InSend("main") =>
    IF back["main"] = "created"
    THEN snd["main"].kind = "create" /\ snd["main"].of = cur /\ snd["main"].addr = ept[cur].addr
    ELSE snd["main"].kind = "data"
NotDestroying == back["main"] # "unreg" /\ pc["main"] # "unreg"

Owned ==
  ~destroyed => /\ ChannelsOwned /\ OutOwned /\ InOwned /\ RxOwned
                /\ IsrSends /\ MainSends /\ NotDestroying

LEMMA OwnGrows ==
  ASSUME NEW known, NEW more, known \subseteq more, NEW m
  PROVE  (OutOwn(known, m) => OutOwn(more, m)) /\ (InOwn(known, m) => InOwn(more, m))
  BY DEF OutOwn, InOwn

\* Only a creation begins an announcement.
LEMMA UnsentStep ==
  ASSUME Base, [Next]_vars, ~CreateRegister, Unsent'
  PROVE  Unsent /\ cur' = cur
  <1> DEFINE Goal == Unsent /\ cur' = cur
  <1> SUFFICES Goal
    OBVIOUS
  <1> USE ContextNames
  <1>a. CtxTyped /\ CtxFlow
    BY DEF Base, Typed
  <1>b. [kind |-> "data"] \in TxMsg
    BY DEF TxMsg, DataOut
  <1>c. ASSUME pc'["main"] = pc["main"], back'["main"] = back["main"], result'["main"] = result["main"], UNCHANGED cur
        PROVE  Goal
    BY <1>c DEF Unsent, InSend
  <1>d. ASSUME NEW p \in Pcs \ {"get", "enqueue", "created"}, Goto("main", p) PROVE Goal
    <2>1. pc'["main"] = p
      BY <1>a, <1>d DEF Goto, CtxTyped
    <2> QED
      BY <1>d, <2>1 DEF Unsent, InSend
  <1>e. ASSUME NEW known \in BOOLEAN, NEW msg \in TxMsg, NEW ret \in {"idle", "rxnext", "unreg"},
               Call("main", known, msg, ret)
        PROVE  Goal
    <2>1. /\ known => pc'["main"] = "get" /\ back'["main"] = ret
          /\ ~known => pc'["main"] = ret /\ UNCHANGED back
      BY <1>a, <1>e, CallTyped
    <2> QED
      BY <1>e, <2>1 DEF Unsent, InSend
  <1>1. ASSUME NEW c \in Contexts, SendGet(c) \/ SendEnqueue(c) PROVE Goal
    <2>1. UNCHANGED cur /\ InSend(c)
      BY <1>1 DEF SendGet, SendEnqueue, Enqueue, Inside, InSend
    <2>2. CASE c = "isr"
      <3>1. pc'["main"] = pc["main"] /\ back'["main"] = back["main"] /\ result'["main"] = result["main"]
        BY <1>1, <1>a, <2>2 DEF SendGet, NoBuffer, SendEnqueue, Enqueue, Return, Goto, CtxTyped
      <3> QED
        BY <1>c, <2>1, <3>1
    <2>3. CASE c = "main"
      <3>1. pc'["main"] \in {"get", "enqueue"} => back'["main"] = back["main"]
        BY <1>1, <1>a, <2>3 DEF SendGet, NoBuffer, SendEnqueue, Enqueue, Return, Goto, CtxTyped, CtxFlow
      <3>2. pc'["main"] = "created" => back["main"] = "created"
        BY <1>1, <1>a, <2>1, <2>3 DEF SendGet, NoBuffer, SendEnqueue, Enqueue, Return, Goto, CtxTyped, InSend
      <3> QED
        BY <2>1, <2>3, <3>1, <3>2 DEF Unsent, InSend
    <2> QED
      BY <2>2, <2>3
  <1>2. CASE RxStart \/ RxClear \/ RxGet \/ RxFind \/ RxNameService \/ NsLookup \/ RxNext \/ CreateEnd \/ DestroyEnd
             \/ \E e \in Epts : Create(e)
    <2>1. \E p \in {"rxget", "ack", "idle", "find", "cb", "ns", "rxnext", "create"} : Goto("main", p)
      BY <1>2 DEF RxStart, RxClear, RxGet, RxFind, RxNameService, NsLookup, RxNext, CreateEnd, DestroyEnd, TakeNext, Create
    <2> QED
      BY <1>d, <2>1
  <1>3. CASE RxDeliver
    <2> DEFINE known == [ept EXCEPT ![cur].dest = IF @ = Any THEN rx.src ELSE @]
               b == known[LogEpt].rdev /\ known[LogEpt].dest # Any
    <2>1. Call("main", b, [kind |-> "data"], "rxnext") /\ b \in BOOLEAN
      BY <1>3 DEF RxDeliver, rpmsg_send
    <2> HIDE DEF b
    <2> QED
      BY <1>b, <1>e, <2>1
  <1>4. ASSUME NEW e \in Epts, AppSend(e) PROVE Goal
    <2> DEFINE b == ept[e].rdev /\ ept[e].dest # Any
    <2>1. Call("main", b, [kind |-> "data"], "idle") /\ b \in BOOLEAN
      BY <1>4 DEF AppSend, rpmsg_send
    <2> HIDE DEF b
    <2> QED
      BY <1>b, <1>e, <2>1
  <1>5. ASSUME NEW e \in Epts, Destroy(e) PROVE Goal
    <2> DEFINE msg == [kind |-> "destroy", addr |-> ept[e].addr, name |-> Service[e], of |-> e]
    <2>1. ept[e].addr \in Low
      BY <1>5, RpmsgAssumption DEF Destroy, Base, Addresses
    <2>2. msg \in TxMsg
      BY <2>1 DEF TxMsg, NsOut
    <2>3. Call("main", TRUE, msg, "unreg")
      BY <1>5 DEF Destroy
    <2> HIDE DEF msg
    <2> QED
      BY <1>e, <2>2, <2>3
  <1>6. CASE DmaError
    <2>1. pc'["main"] = pc["main"] /\ back'["main"] = back["main"] /\ UNCHANGED <<result, cur>>
      BY <1>6, <1>a DEF DmaError, rpmsg_send, Call, Goto, CtxTyped
    <2> QED
      BY <1>c, <2>1
  <1>7. CASE Linux \/ IPCC_channel2_callback \/ UNCHANGED vars \/ \E c \in Contexts : Acquire(c)
    BY <1>c, <1>7 DEF Linux, IPCC_channel2_callback, LinuxRead, LinuxSend, LinuxNs, LinuxTransmit, Acquire, vars, ctxVars
  <1> HIDE DEF Goal
  <1> QED
    BY <1>1, <1>2, <1>3, <1>4, <1>5, <1>6, <1>7
    DEF Next, Step, Send, Receive, Endpoint, Application

\* What is known stays known: a failed creation takes away what nobody knew.
LEMMA KnownGrows ==
  ASSUME Base, [Next]_vars, Owned, ~destroyed
  PROVE  Known \subseteq Known'
  <1>a. /\ Registered \subseteq Epts \cup {NS} /\ ept \in [Epts \cup {NS} -> Ept] /\ cur \in Epts \cup {NS}
        /\ CtxFlow /\ MainFlow /\ NS \notin Epts
    BY RegisteredTyped, RpmsgAssumption DEF Base, Typed, EptTyped
  <1>b. SUFFICES ASSUME NEW e \in Announced PROVE e \in Announced' /\ ept'[e].addr = ept[e].addr
    BY <1>b DEF Known
  <1>c. e \in Registered \ {NS} /\ ~(Unsent /\ e = cur)
    BY DEF Announced
  <1>1. CASE CreateRegister
    <2>1. cur \notin Registered /\ Registered' = Registered \cup {cur} /\ cur' = cur
      BY <1>1, Registers DEF CreateRegister
    <2>2. ept' = [ept EXCEPT ![cur] = [rdev |-> TRUE, addr |-> NextClearBit, dest |-> Any]]
      BY <1>1 DEF CreateRegister
    <2>3. e # cur
      BY <1>c, <2>1
    <2> QED
      BY <1>a, <1>c, <2>1, <2>2, <2>3 DEF Announced
  <1>2. CASE CreateEnd
    <2>1. cur \in Epts \cap Registered /\ pc["main"] = "created" /\ UNCHANGED ept
      BY <1>2, <1>a DEF CreateEnd, Inside, MainFlow, Announcing
    <2>2. ~Unsent'
      <3>1. pc'["main"] = "idle"
        BY <1>2 DEF CreateEnd, Goto, Base, Typed, CtxTyped, Contexts
      <3> QED
        BY <3>1 DEF Unsent, InSend
    <2>3. e \in Registered'
      <3>1. CASE result["main"] # "ok"
        <4>1. Unsent
          BY <2>1, <3>1 DEF Unsent
        <4>2. Registered' = Registered \ {cur}
          BY <1>2, <2>1, <3>1, Unregisters DEF CreateEnd, rpmsg_unregister_endpoint
        <4> QED
          BY <1>c, <4>1, <4>2
      <3>2. CASE result["main"] = "ok"
        BY <1>2, <1>c, <3>2 DEF CreateEnd, Registered
      <3> QED
        BY <3>1, <3>2
    <2> QED
      BY <1>c, <2>1, <2>2, <2>3 DEF Announced
  <1>3. CASE DestroyEnd
    BY <1>3 DEF DestroyEnd, Inside, Owned, NotDestroying
  <1>4. CASE ~(CreateRegister \/ CreateEnd \/ DestroyEnd)
    <2>1. UNCHANGED endpoints /\ ept'[e].addr = ept[e].addr
      BY <1>4, <1>a, <1>c, AddressFrame
    <2>2. Registered' = Registered
      BY <2>1 DEF Registered
    <2>3. Unsent' => Unsent /\ cur' = cur
      BY <1>4, UnsentStep
    <2> QED
      BY <1>c, <2>1, <2>2, <2>3 DEF Announced
  <1> QED
    BY <1>1, <1>2, <1>3, <1>4

LEMMA NotYetDestroyed ==
  ASSUME [Next]_vars, ~destroyed'
  PROVE  ~destroyed /\ \A e \in Epts : ~Destroy(e)
  <1>1. \A e \in Epts : ~Destroy(e)
    BY DEF Destroy
  <1>2. EptActions => UNCHANGED destroyed
    BY <1>1 DEF EptActions, eptVars, RxDeliver, NsLookup, CreateRegister, CreateEnd, DestroyEnd, RxFind,
       RxNext, Create
  <1> QED
    BY <1>1, <1>2, EptFrame DEF eptVars

\* What the two contexts send.
LEMMA SendsStep ==
  ASSUME Base, [Next]_vars, ~destroyed', Owned
  PROVE  IsrSends' /\ MainSends' /\ NotDestroying'
  <1> DEFINE Goal == IsrSends' /\ MainSends' /\ NotDestroying'
  <1> SUFFICES Goal
    OBVIOUS
  <1> USE ContextNames
  <1>a. CtxTyped /\ CtxFlow /\ IsrSends /\ MainSends /\ NotDestroying /\ \A e \in Epts : ~Destroy(e)
    BY NotYetDestroyed DEF Base, Typed, Owned
  <1>b. [kind |-> "data"] \in TxMsg
    BY DEF TxMsg, DataOut
  <1>c. ASSUME pc'["main"] = pc["main"], back'["main"] = back["main"], snd'["main"] = snd["main"],
               UNCHANGED <<cur, ept>>
        PROVE  MainSends' /\ NotDestroying'
    BY <1>a, <1>c DEF MainSends, NotDestroying, InSend
  <1>d. ASSUME pc'["isr"] = pc["isr"], snd'["isr"] = snd["isr"]
        PROVE  IsrSends'
    BY <1>a, <1>d DEF IsrSends, InSend
  <1>e. ASSUME NEW p \in Pcs \ {"get", "enqueue", "unreg"}, Goto("main", p), UNCHANGED <<back, snd>>
        PROVE  Goal
    <2>1. pc'["main"] = p /\ pc'["isr"] = pc["isr"]
      BY <1>a, <1>e DEF Goto, CtxTyped
    <2> QED
      BY <1>a, <1>d, <1>e, <2>1 DEF MainSends, NotDestroying, InSend
  <1>f. ASSUME NEW known \in BOOLEAN, NEW ret \in {"idle", "rxnext"}, Call("main", known, [kind |-> "data"], ret)
        PROVE  Goal
    <2>1. /\ pc'["isr"] = pc["isr"] /\ snd'["isr"] = snd["isr"]
          /\ known => pc'["main"] = "get" /\ back'["main"] = ret /\ snd'["main"] = [kind |-> "data"]
          /\ ~known => pc'["main"] = ret /\ UNCHANGED back
      BY <1>a, <1>b, <1>f, CallTyped
    <2>2. MainSends' /\ NotDestroying'
      BY <1>a, <1>f, <2>1 DEF MainSends, NotDestroying, InSend
    <2> QED
      BY <1>d, <2>1, <2>2
  <1>g. ASSUME NEW c \in Contexts, NEW res \in {"ok", "err_no_buff", "err_buff_size"}, Return(c, res),
               txHeld' \in [Contexts -> BOOLEAN], UNCHANGED <<cur, ept>>
        PROVE  Goal
    <2>1. /\ \A d \in Contexts \ {c} : pc'[d] = pc[d] /\ back'[d] = back[d] /\ snd'[d] = snd[d]
          /\ pc'[c] = back[c] /\ back'[c] = "idle"
      BY <1>a, <1>g, ReturnTyped
    <2>2. CASE c = "main"
      <3>1. MainSends' /\ NotDestroying'
        BY <1>a, <2>1, <2>2 DEF CtxFlow, MainSends, NotDestroying, InSend
      <3> QED
        BY <1>d, <2>1, <2>2, <3>1
    <2>3. CASE c = "isr"
      <3>1. IsrSends'
        BY <1>a, <2>1, <2>3 DEF CtxFlow, IsrSends, InSend
      <3> QED
        BY <1>c, <1>g, <2>1, <2>3, <3>1
    <2> QED
      BY <2>2, <2>3
  <1>1. ASSUME NEW c \in Contexts, SendGet(c) PROVE Goal
    <2>1. UNCHANGED <<cur, ept>> /\ pc[c] = "get"
      BY <1>1 DEF SendGet, Inside, eptVars
    <2>2. CASE MsgSize =< AvailSize
      <3>1. pc' = [pc EXCEPT ![c] = "enqueue"] /\ UNCHANGED <<back, snd>>
        BY <1>1, <2>2 DEF SendGet, Goto
      <3>2. InSend("main")' => InSend("main")
        BY <1>a, <2>1, <3>1 DEF InSend, CtxTyped
      <3>3. InSend("isr")' => InSend("isr")
        BY <1>a, <2>1, <3>1 DEF InSend, CtxTyped
      <3>4. pc'["main"] # "unreg"
        BY <1>a, <3>1 DEF NotDestroying, CtxTyped
      <3> QED
        BY <1>a, <2>1, <3>1, <3>2, <3>3, <3>4 DEF IsrSends, MainSends, NotDestroying
    <2>3. CASE ~(MsgSize =< AvailSize) /\ (ticks[c] = 0 \/ AvailSize # 0)
      <3>1. UNCHANGED txHeld
            /\ Return(c, IF ticks[c] = 0 THEN "err_no_buff" ELSE "err_buff_size")
        BY <1>1, <2>3 DEF SendGet, NoBuffer
      <3>2. txHeld' \in [Contexts -> BOOLEAN]
        BY <1>a, <3>1 DEF CtxTyped
      <3> QED
        BY <1>g, <2>1, <3>1, <3>2
    <2>4. CASE ~(MsgSize =< AvailSize) /\ ~(ticks[c] = 0 \/ AvailSize # 0)
      BY <1>1, <1>c, <1>d, <2>1, <2>4 DEF SendGet, NoBuffer
    <2> QED
      BY <2>2, <2>3, <2>4
  <1>2. ASSUME NEW c \in Contexts, SendEnqueue(c) PROVE Goal
    <2>1. UNCHANGED <<cur, ept>> /\ Return(c, "ok") /\ txHeld' \in [Contexts -> BOOLEAN]
      BY <1>2, <1>a DEF SendEnqueue, Enqueue, eptVars, CtxTyped
    <2> QED
      BY <1>g, <2>1
  <1>3. CASE RxStart \/ RxClear \/ RxGet \/ RxFind \/ RxNameService \/ NsLookup \/ RxNext \/ CreateEnd \/ DestroyEnd
             \/ \E e \in Epts : Create(e)
    <2>1. UNCHANGED <<back, snd>>
      BY <1>3 DEF RxStart, RxClear, RxGet, RxFind, RxNameService, NsLookup, RxNext, CreateEnd, DestroyEnd, Create, NoCall,
         NoSend, NoEffect
    <2>2. \E p \in {"rxget", "ack", "idle", "find", "cb", "ns", "rxnext", "create"} : Goto("main", p)
      BY <1>3 DEF RxStart, RxClear, RxGet, RxFind, RxNameService, NsLookup, RxNext, CreateEnd, DestroyEnd, TakeNext, Create
    <2> QED
      BY <1>e, <2>1, <2>2
  <1>4. CASE RxDeliver
    <2> DEFINE known == [ept EXCEPT ![cur].dest = IF @ = Any THEN rx.src ELSE @]
               b == known[LogEpt].rdev /\ known[LogEpt].dest # Any
    <2>1. Call("main", b, [kind |-> "data"], "rxnext") /\ b \in BOOLEAN
      BY <1>4 DEF RxDeliver, rpmsg_send
    <2> HIDE DEF b
    <2> QED
      BY <1>f, <2>1
  <1>5. CASE CreateRegister
    <2> DEFINE msg == [kind |-> "create", addr |-> NextClearBit, name |-> Service[cur], of |-> cur]
    <2>1. NextClearBit \in Low /\ cur \in Epts
      BY <1>5, FreshAddress DEF CreateRegister, Inside, MainFlow, Base
    <2>2. msg \in TxMsg
      BY <2>1 DEF TxMsg, NsOut
    <2>3. Call("main", TRUE, msg, "created")
      BY <1>5 DEF CreateRegister
    <2>4. msg.kind = "create" /\ msg.of = cur /\ msg.addr = NextClearBit
      OBVIOUS
    <2>5. ept'[cur].addr = NextClearBit /\ cur' = cur
      <3>1. ept \in [Epts \cup {NS} -> Ept]
        BY DEF Base, Typed, EptTyped
      <3>2. ept' = [ept EXCEPT ![cur] = [rdev |-> TRUE, addr |-> NextClearBit, dest |-> Any]] /\ cur' = cur
        BY <1>5 DEF CreateRegister
      <3> QED
        BY <2>1, <3>1, <3>2
    <2> HIDE DEF msg
    <2>6. /\ pc'["isr"] = pc["isr"] /\ snd'["isr"] = snd["isr"]
          /\ pc'["main"] = "get" /\ back'["main"] = "created" /\ snd'["main"] = msg
      <3>1. TRUE \in BOOLEAN /\ "created" \in Pcs /\ "main" \in Contexts /\ "isr" \in Contexts \ {"main"}
        OBVIOUS
      <3>2. /\ \A d \in Contexts \ {"main"} : pc'[d] = pc[d] /\ back'[d] = back[d] /\ snd'[d] = snd[d]
            /\ TRUE => pc'["main"] = "get" /\ back'["main"] = "created" /\ snd'["main"] = msg
        BY <1>a, <2>2, <2>3, <3>1, CallTyped
      <3> QED
        BY <3>1, <3>2
    <2>7. MainSends' /\ NotDestroying'
      BY <2>4, <2>5, <2>6 DEF MainSends, NotDestroying, InSend
    <2> QED
      BY <1>d, <2>6, <2>7
  <1>6. ASSUME NEW e \in Epts, AppSend(e) PROVE Goal
    <2> DEFINE b == ept[e].rdev /\ ept[e].dest # Any
    <2>1. Call("main", b, [kind |-> "data"], "idle") /\ b \in BOOLEAN
      BY <1>6 DEF AppSend, rpmsg_send
    <2> HIDE DEF b
    <2> QED
      BY <1>f, <2>1
  <1>7. CASE DmaError
    <2> DEFINE b == ept[LogEpt].rdev /\ ept[LogEpt].dest # Any
    <2>1. Call("isr", b, [kind |-> "data"], "idle") /\ b \in BOOLEAN /\ UNCHANGED <<cur, ept>>
      BY <1>7 DEF DmaError, rpmsg_send, eptVars
    <2> HIDE DEF b
    <2>2. /\ pc'["main"] = pc["main"] /\ back'["main"] = back["main"] /\ snd'["main"] = snd["main"]
          /\ b => snd'["isr"] = [kind |-> "data"]
          /\ ~b => pc'["isr"] = "idle"
      BY <1>a, <1>b, <2>1, CallTyped
    <2>3. IsrSends'
      BY <2>1, <2>2 DEF IsrSends, InSend
    <2> QED
      BY <1>c, <2>1, <2>2, <2>3
  <1>8. CASE Linux \/ IPCC_channel2_callback \/ UNCHANGED vars \/ \E c \in Contexts : Acquire(c)
    BY <1>c, <1>d, <1>8 DEF Linux, IPCC_channel2_callback, LinuxRead, LinuxSend, LinuxNs, LinuxTransmit, Acquire, vars, ctxVars, eptVars
  <1> HIDE DEF Goal
  <1> QED
    BY <1>a, <1>1, <1>2, <1>3, <1>4, <1>5, <1>6, <1>7, <1>8
    DEF Next, Step, Send, Receive, Endpoint, Application

\* What a send puts into the vring.
LEMMA SentOwned ==
  ASSUME Base, [Next]_vars, ~destroyed', Owned, NEW c \in Contexts, SendEnqueue(c)
  PROVE  OutOwn(Known', snd[c])
  <1> USE ContextNames
  <1>a. /\ CtxTyped /\ CtxFlow /\ MainFlow /\ IsrSends /\ MainSends /\ ~destroyed
        /\ ept \in [Epts \cup {NS} -> Ept] /\ NS \notin Epts
    BY NotYetDestroyed, RpmsgAssumption DEF Base, Typed, EptTyped, Owned
  <1>1. InSend(c)
    BY DEF SendEnqueue, Enqueue, Inside, InSend
  <1>2. CASE snd[c].kind = "data"
    BY <1>2 DEF OutOwn
  <1>3. CASE snd[c].kind # "data"
    <2>1. c = "main" /\ back["main"] = "created"
      BY <1>a, <1>1, <1>3 DEF IsrSends, MainSends
    <2>2. snd[c].kind = "create" /\ snd[c].of = cur /\ snd[c].addr = ept[cur].addr
      BY <1>a, <1>1, <2>1 DEF MainSends
    <2>3. cur \in Epts \cap Registered
      BY <1>a, <1>1, <2>1 DEF MainFlow, Announcing
    <2>4. UNCHANGED <<cur, ept, endpoints>> /\ Return(c, "ok") /\ txHeld' \in [Contexts -> BOOLEAN]
      BY <1>a DEF SendEnqueue, Enqueue, eptVars, CtxTyped
    <2>5. pc'["main"] = "created" /\ result'["main"] = "ok"
      BY <1>a, <2>1, <2>4, ReturnTyped
    <2>6. ~Unsent'
      BY <2>5 DEF Unsent, InSend
    <2>7. cur \in Announced'
      BY <1>a, <2>3, <2>4, <2>6 DEF Announced, Registered
    <2>8. <<cur, ept[cur].addr>> \in Known'
      BY <2>4, <2>7 DEF Known
    <2> QED
      BY <2>2, <2>8 DEF OutOwn
  <1> QED
    BY <1>2, <1>3

\* The vring to Linux, and its channels.
LEMMA OutStep ==
  ASSUME Base, [Next]_vars, ~destroyed', Owned
  PROVE  OutOwned' /\ ChannelsOwned'
  <1> DEFINE Goal == OutOwned' /\ ChannelsOwned'
  <1> SUFFICES Goal
    OBVIOUS
  <1>a. /\ ~destroyed /\ OutOwned /\ ChannelsOwned /\ Known \subseteq Known' /\ toLinux \in Seq(TxMsg)
        /\ Len(toLinux) \in Nat
    BY NotYetDestroyed, KnownGrows, SeqDomain DEF Base, Typed, LinkTyped, Owned
  <1>b. ASSUME NEW m, OutOwn(Known, m) PROVE OutOwn(Known', m)
    BY <1>a, <1>b, OwnGrows
  <1>c. ASSUME UNCHANGED toLinux PROVE OutOwned'
    BY <1>a, <1>b, <1>c DEF OutOwned
  <1>d. ASSUME channels' \subseteq channels PROVE ChannelsOwned'
    BY <1>a, <1>d DEF ChannelsOwned
  <1>1. ASSUME NEW c \in Contexts, SendEnqueue(c) PROVE Goal
    <2>1. snd[c] \in TxMsg /\ toLinux' = Append(toLinux, snd[c]) /\ UNCHANGED channels
      BY <1>1 DEF SendEnqueue, Enqueue, Inside, Base, CtxFlow, InSend
    <2>2. OutOwn(Known', snd[c])
      BY <1>1, SentOwned
    <2>3. /\ Len(toLinux') = Len(toLinux) + 1 /\ toLinux'[Len(toLinux) + 1] = snd[c]
          /\ \A i \in 1 .. Len(toLinux) : toLinux'[i] = toLinux[i]
      BY <1>a, <2>1, SeqAppend
    <2>4. ASSUME NEW i \in 1 .. Len(toLinux) + 1 PROVE OutOwn(Known', toLinux'[i])
      <3>1. CASE i \in 1 .. Len(toLinux)
        BY <1>a, <1>b, <2>3, <3>1 DEF OutOwned
      <3>2. CASE i = Len(toLinux) + 1
        BY <2>2, <2>3, <3>2
      <3>3. i \in 1 .. Len(toLinux) \/ i = Len(toLinux) + 1
        BY <1>a
      <3> QED
        BY <3>1, <3>2, <3>3
    <2>5. OutOwned'
      BY <2>3, <2>4 DEF OutOwned
    <2> QED
      BY <1>d, <2>1, <2>5
  <1>2. CASE LinuxRead
    <2> DEFINE m == Head(toLinux)
    <2>1. /\ toLinux' = Tail(toLinux) /\ m \in TxMsg /\ m = toLinux[1] /\ Len(toLinux') = Len(toLinux) - 1
          /\ \A i \in 1 .. Len(toLinux) - 1 : toLinux'[i] = toLinux[i + 1]
          /\ Len(toLinux) \in Nat \ {0}
      BY <1>2, <1>a, SeqTail DEF LinuxRead
    <2>2. \/ m.kind = "create" /\ channels' = channels \cup {[addr |-> m.addr, of |-> m.of]}
          \/ channels' \subseteq channels
      BY <1>2 DEF LinuxRead
    <2> HIDE DEF m
    <2>3. OutOwn(Known, m)
      <3>1. 1 \in 1 .. Len(toLinux)
        BY <2>1
      <3> QED
        BY <1>a, <2>1, <3>1 DEF OutOwned
    <2>4. ASSUME m.kind = "create", channels' = channels \cup {[addr |-> m.addr, of |-> m.of]} PROVE ChannelsOwned'
      <3>1. <<m.of, m.addr>> \in Known'
        BY <1>a, <2>3, <2>4 DEF OutOwn
      <3>2. ASSUME NEW ch \in channels' PROVE <<ch.of, ch.addr>> \in Known'
        <4>1. CASE ch \in channels
          BY <1>a, <4>1 DEF ChannelsOwned
        <4>2. CASE ch = [addr |-> m.addr, of |-> m.of]
          BY <3>1, <4>2
        <4> QED
          BY <2>4, <4>1, <4>2
      <3> QED
        BY <3>2 DEF ChannelsOwned
    <2>5. ASSUME NEW i \in 1 .. Len(toLinux) - 1 PROVE OutOwn(Known', toLinux'[i])
      <3>1. i + 1 \in 1 .. Len(toLinux)
        BY <2>1
      <3> QED
        BY <1>a, <1>b, <2>1, <3>1 DEF OutOwned
    <2>6. OutOwned'
      BY <2>1, <2>5 DEF OutOwned
    <2> QED
      BY <1>d, <2>2, <2>4, <2>6
  <1>3. CASE ~((\E c \in Contexts : SendEnqueue(c)) \/ LinuxRead)
    <2>1. UNCHANGED toLinux /\ channels' \subseteq channels
      BY <1>3 DEF Next, Step, Send, Receive, Endpoint, Application, IPCC_channel2_callback, Linux, Acquire, SendGet, RxStart, RxClear, RxGet,
         RxFind, RxDeliver, RxNameService, NsLookup, RxNext, CreateRegister, CreateEnd, DestroyEnd, AppSend,
         Create, Destroy, DmaError, LinuxSend, LinuxNs, LinuxTransmit, NoCall, NoSend, NoEffect, vars, txVars
    <2> QED
      BY <1>c, <1>d, <2>1
  <1> QED
    BY <1>1, <1>2, <1>3

\* The vring from Linux, and the message the main loop holds.
LEMMA InStep ==
  ASSUME Base, [Next]_vars, ~destroyed', Owned
  PROVE  InOwned' /\ RxOwned'
  <1> DEFINE Goal == InOwned' /\ RxOwned'
  <1> SUFFICES Goal
    OBVIOUS
  <1>a. /\ ~destroyed /\ InOwned /\ RxOwned /\ ChannelsOwned /\ Known \subseteq Known' /\ rxq \in Seq(RxMsg)
        /\ LinkTyped /\ Len(rxq) \in Nat
    BY NotYetDestroyed, KnownGrows, SeqDomain DEF Base, Typed, LinkTyped, Owned
  <1>b. ASSUME NEW m, InOwn(Known, m) PROVE InOwn(Known', m)
    BY <1>a, <1>b, OwnGrows
  <1>c. ASSUME UNCHANGED rxq PROVE InOwned'
    BY <1>a, <1>b, <1>c DEF InOwned
  <1>d. ASSUME rx' = rx \/ rx' = NoMsg PROVE RxOwned'
    BY <1>a, <1>b, <1>d DEF RxOwned
  <1>1. CASE RxGet \/ RxNext
    <2>1. \/ rxq' = rxq /\ rx' = NoMsg
          \/ /\ rxq # <<>> /\ rx' = rxq[1]
             /\ Len(rxq') = Len(rxq) - 1 /\ \A i \in 1 .. Len(rxq) - 1 : rxq'[i] = rxq[i + 1]
      BY <1>1, <1>a, Taken DEF RxGet, RxNext
    <2>2. ASSUME rxq # <<>>, rx' = rxq[1], Len(rxq') = Len(rxq) - 1,
                 \A i \in 1 .. Len(rxq) - 1 : rxq'[i] = rxq[i + 1]
          PROVE  Goal
      <3>1. Len(rxq) \in Nat \ {0}
        BY <1>a, <2>2, SeqTail
      <3>2. ASSUME NEW i \in 1 .. Len(rxq) - 1 PROVE InOwn(Known', rxq'[i])
        <4>1. i + 1 \in 1 .. Len(rxq)
          BY <3>1
        <4> QED
          BY <1>a, <1>b, <2>2, <4>1 DEF InOwned
      <3>3. 1 \in 1 .. Len(rxq)
        BY <3>1
      <3>4. InOwn(Known', rx')
        BY <1>a, <1>b, <2>2, <3>3 DEF InOwned
      <3> QED
        BY <2>2, <3>2, <3>4 DEF InOwned, RxOwned
    <2> QED
      BY <1>c, <1>d, <2>1, <2>2
  <1>2. ASSUME NEW msg \in RxMsg, LinuxTransmit(msg), InOwn(Known, msg) PROVE Goal
    <2>1. rxq' = Append(rxq, msg) /\ UNCHANGED rx
      BY <1>2 DEF LinuxTransmit
    <2>2. /\ Len(rxq') = Len(rxq) + 1 /\ rxq'[Len(rxq) + 1] = msg
          /\ \A i \in 1 .. Len(rxq) : rxq'[i] = rxq[i]
      BY <1>a, <2>1, SeqAppend
    <2>3. ASSUME NEW i \in 1 .. Len(rxq) + 1 PROVE InOwn(Known', rxq'[i])
      <3>1. CASE i \in 1 .. Len(rxq)
        BY <1>a, <1>b, <2>2, <3>1 DEF InOwned
      <3>2. CASE i = Len(rxq) + 1
        BY <1>b, <1>2, <2>2, <3>2
      <3>3. i \in 1 .. Len(rxq) \/ i = Len(rxq) + 1
        BY <1>a
      <3> QED
        BY <3>1, <3>2, <3>3
    <2>4. InOwned'
      BY <2>2, <2>3 DEF InOwned
    <2> QED
      BY <1>d, <2>1, <2>4
  <1>3. ASSUME NEW ch \in channels, LinuxSend(ch) PROVE Goal
    <2> DEFINE msg == [kind |-> "data", src |-> Peer(ch.addr), dst |-> ch.addr, for |-> ch.of]
    <2>1. ch \in Channel /\ <<ch.of, ch.addr>> \in Known /\ LinuxTransmit(msg)
      BY <1>a, <1>3 DEF LinkTyped, ChannelsOwned, LinuxSend
    <2>2. InOwn(Known, msg)
      BY <2>1 DEF InOwn
    <2>3. msg \in RxMsg
      BY <2>1, FromLinux DEF RxMsg
    <2> HIDE DEF msg
    <2> QED
      BY <1>2, <2>1, <2>2, <2>3
  <1>4. ASSUME NEW ch \in channels, NEW kind \in {"create", "destroy"}, LinuxNs(ch, kind) PROVE Goal
    <2> DEFINE msg == [kind |-> kind, dst |-> NsAddr, name |-> Service[ch.of], addr |-> Peer(ch.addr), for |-> NS]
    <2>1. ch \in Channel /\ <<ch.of, ch.addr>> \in Known /\ LinuxTransmit(msg)
      BY <1>a, <1>4 DEF LinkTyped, ChannelsOwned, LinuxNs
    <2>2. InOwn(Known, msg)
      <3>1. <<ch.of, ch.addr>>[1] = ch.of /\ <<ch.of, ch.addr>>[2] = ch.addr
        OBVIOUS
      <3>2. msg.kind # "data" /\ msg.name = Service[ch.of] /\ msg.addr = Peer(ch.addr)
        OBVIOUS
      <3> HIDE DEF msg
      <3> QED
        BY <2>1, <3>1, <3>2 DEF InOwn
    <2>3. msg \in RxMsg
      BY <2>1, FromLinux DEF RxMsg
    <2> HIDE DEF msg
    <2> QED
      BY <1>2, <2>1, <2>2, <2>3
  <1>5. CASE RxStart \/ RxClear \/ RxFind \/ IPCC_channel2_callback
    <2>1. UNCHANGED rxq /\ (rx' = rx \/ rx' = NoMsg)
      BY <1>5 DEF RxStart, RxClear, RxFind, IPCC_channel2_callback
    <2> QED
      BY <1>c, <1>d, <2>1
  <1>6. CASE ~RxActions
    BY <1>6, <1>c, <1>d, RxFrame DEF rxVars
  <1> QED
    BY <1>1, <1>3, <1>4, <1>5, <1>6 DEF RxActions

\* Whatever travels has an owner.
LEMMA Ownership == Spec => []Owned
  <1>1. Init => Owned
    <2> SUFFICES ASSUME Init PROVE ChannelsOwned /\ OutOwned /\ InOwned /\ RxOwned
                                   /\ IsrSends /\ MainSends /\ NotDestroying
      BY DEF Owned
    <2>1. \A c \in Contexts : pc[c] = "idle" /\ back[c] = "idle"
      BY DEF Init
    <2>2. IsrSends /\ MainSends /\ NotDestroying
      BY <2>1, ContextNames DEF IsrSends, MainSends, NotDestroying, InSend
    <2>3. channels = {} /\ toLinux = <<>> /\ rxq = <<>> /\ rx = NoMsg
      BY DEF Init
    <2> QED
      BY <2>2, <2>3 DEF ChannelsOwned, OutOwned, InOwned, RxOwned
  <1>2. Base /\ Owned /\ [Next]_vars => Owned'
    <2> SUFFICES ASSUME Base, Owned, [Next]_vars, ~destroyed'
                 PROVE  (ChannelsOwned /\ OutOwned /\ InOwned /\ RxOwned
                         /\ IsrSends /\ MainSends /\ NotDestroying)'
      BY DEF Owned
    <2> QED
      BY SendsStep, OutStep, InStep
  <1> QED
    BY <1>1, <1>2, Invariant, PTL DEF Spec

------------------------------------------------------------------------------
(* Where a message goes.                                                    *)

\* The callback that runs is that of the address of the message.
Aimed == pc["main"] = "cb" => ept[cur].addr = rx.dst

LEMMA InCallback ==
  ASSUME Base, [Next]_vars, pc'["main"] = "cb", ~RxFind
  PROVE  /\ pc["main"] = "cb" /\ UNCHANGED <<rx, cur>>
         /\ \A e \in Epts \cup {NS} : ept'[e].addr = ept[e].addr
  <1> USE ContextNames
  <1>a. CtxTyped /\ CtxFlow
    BY DEF Base, Typed
  <1>b. ASSUME NEW p, Goto("main", p) PROVE p = "cb"
    BY <1>a, <1>b DEF Goto, CtxTyped
  <1>1. ~(RxStart \/ RxClear \/ RxGet \/ RxNameService \/ NsLookup \/ RxNext \/ CreateEnd \/ DestroyEnd
          \/ \E e \in Epts : Create(e))
    <2> SUFFICES ASSUME RxStart \/ RxClear \/ RxGet \/ RxNameService \/ NsLookup \/ RxNext \/ CreateEnd \/ DestroyEnd
                        \/ \E e \in Epts : Create(e)
                 PROVE  FALSE
      OBVIOUS
    <2>1. \E p \in {"rxget", "ack", "idle", "find", "ns", "rxnext", "create"} : Goto("main", p)
      BY DEF RxStart, RxClear, RxGet, RxNameService, NsLookup, RxNext, CreateEnd, DestroyEnd, TakeNext, Create
    <2> QED
      BY <1>b, <2>1
  <1>2. ~(RxDeliver \/ CreateRegister \/ \E e \in Epts : AppSend(e) \/ Destroy(e))
    <2> SUFFICES ASSUME RxDeliver \/ CreateRegister \/ \E e \in Epts : AppSend(e) \/ Destroy(e)
                 PROVE  FALSE
      OBVIOUS
    <2>1. \E p \in {"get", "rxnext", "created", "idle", "unreg"} : Goto("main", p)
      BY DEF RxDeliver, CreateRegister, AppSend, Destroy, rpmsg_send, Call
    <2> QED
      BY <1>b, <2>1
  <1>3. ASSUME NEW c \in Contexts, SendGet(c) \/ SendEnqueue(c) PROVE pc["main"] = "cb"
    <2>1. /\ pc[c] \in {"get", "enqueue"}
          /\ UNCHANGED pc \/ pc' = [pc EXCEPT ![c] = "enqueue"] \/ pc' = [pc EXCEPT ![c] = back[c]]
      BY <1>3 DEF SendGet, NoBuffer, SendEnqueue, Enqueue, Inside, Return, Goto
    <2> QED
      BY <1>a, <2>1 DEF CtxTyped, CtxFlow
  <1>4. ASSUME DmaError PROVE pc["main"] = "cb"
    <2>1. \E p : pc' = [pc EXCEPT !["isr"] = p]
      BY <1>4 DEF DmaError, rpmsg_send, Call, Goto
    <2> QED
      BY <1>a, <2>1 DEF CtxTyped
  <1>5. ASSUME Linux \/ IPCC_channel2_callback \/ UNCHANGED vars \/ \E c \in Contexts : Acquire(c) PROVE pc["main"] = "cb"
    BY <1>5 DEF Linux, IPCC_channel2_callback, LinuxRead, LinuxSend, LinuxNs, LinuxTransmit, Acquire, vars, ctxVars
  <1>6. (\E c \in Contexts : SendGet(c) \/ SendEnqueue(c) \/ Acquire(c)) \/ DmaError \/ Linux \/ IPCC_channel2_callback
        \/ UNCHANGED vars
    BY <1>1, <1>2 DEF Next, Step, Send, Receive, Endpoint, Application
  <1>7. UNCHANGED <<rx, cur>>
    BY <1>6 DEF SendGet, SendEnqueue, Enqueue, Acquire, DmaError, Linux, IPCC_channel2_callback, LinuxRead, LinuxSend, LinuxNs,
       LinuxTransmit, vars, rxVars
  <1>8. \A e \in Epts \cup {NS} : ept'[e].addr = ept[e].addr
    BY <1>1, <1>2, AddressFrame
  <1> QED
    BY <1>3, <1>4, <1>5, <1>6, <1>7, <1>8

LEMMA Aims == Spec => []Aimed
  <1>1. Init => Aimed
    BY ContextNames DEF Init, Aimed
  <1>2. Base /\ Aimed /\ [Next]_vars => Aimed'
    <2> SUFFICES ASSUME Base, Aimed, [Next]_vars, pc'["main"] = "cb" PROVE ept'[cur'].addr = rx'.dst
      BY DEF Aimed
    <2>1. CASE RxFind
      <3>1. pc["main"] = "find" /\ UNCHANGED ept /\ pc \in [Contexts -> Pcs]
        BY <2>1 DEF RxFind, Inside, eptVars, Base, Typed, CtxTyped
      <3>2. rx \in RxMsg
        BY <3>1 DEF Base, Typed, LinkTyped, MainFlow, Holding
      <3>3. Matching("", rx.dst, Any) # {} /\ cur' = GetEndpoint("", rx.dst, Any) /\ UNCHANGED rx
        BY <2>1, <3>1, ContextNames DEF RxFind, Goto
      <3> QED
        BY <3>1, <3>2, <3>3, FoundAt
    <2>2. CASE ~RxFind
      <3>1. cur \in Epts \cup {NS}
        BY DEF Base, Typed, EptTyped
      <3> QED
        BY <2>2, <3>1, InCallback DEF Aimed
    <2> QED
      BY <2>1, <2>2
  <1> QED
    BY <1>1, <1>2, Invariant, PTL DEF Spec

\* The endpoint of a known address is registered and has it.
LEMMA KnownAddress ==
  ASSUME Base, NEW e, NEW a, <<e, a>> \in Known
  PROVE  e \in Registered \ {NS} /\ ept[e].addr = a
  <1>1. PICK f \in Announced : <<e, a>> = <<f, ept[f].addr>>
    BY DEF Known
  <1> QED
    BY <1>1 DEF Announced

\* A message whose owner is known finds an endpoint: its own.
LEMMA OwnerFound ==
  ASSUME Base, rx \in RxMsg, InOwn(Known, rx)
  PROVE  rx.for \in Registered /\ ept[rx.for].addr = rx.dst
  <1>1. CASE rx \in DataIn
    <2>1. <<rx.for, rx.dst>> \in Known
      BY <1>1 DEF InOwn, DataIn
    <2> QED
      BY <2>1, KnownAddress
  <1>2. CASE rx \in NsIn
    BY <1>2, RegisteredTyped DEF NsIn, Base, Addresses
  <1> QED
    BY <1>1, <1>2 DEF RxMsg

\* BuffersAccounted: each buffer of the two vrings is in one place; the return
\* for an unknown address loses one, and that takes a destroyed endpoint.
THEOREM BuffersKept == Spec => []BuffersAccounted
  <1> DEFINE NoneLost == lost # 0 => destroyed
  <1>1. Init => NoneLost
    BY DEF Init
  <1>2. Base /\ Owned /\ NoneLost /\ [Next]_vars => NoneLost'
    <2> SUFFICES ASSUME Base, Owned, NoneLost, [Next]_vars, ~destroyed' PROVE lost' = 0
      OBVIOUS
    <2>1. ~destroyed /\ lost = 0
      BY NotYetDestroyed
    <2>2. CASE RxFind
      <3>1. rx \in RxMsg /\ rx # NoMsg
        BY <2>2 DEF RxFind, Inside, Base, Typed, LinkTyped, MainFlow, Holding
      <3>2. InOwn(Known, rx)
        BY <2>1, <3>1 DEF Owned, RxOwned
      <3>3. rx.for \in Registered /\ ept[rx.for].addr = rx.dst /\ rx.dst # Any
        BY <3>1, <3>2, OwnerFound, NotToAny
      <3>4. PICK i \in DOMAIN endpoints : endpoints[i] = rx.for
        BY <3>3 DEF Registered
      <3>5. Match(endpoints[i], "", rx.dst, Any)
        BY <3>3, <3>4 DEF Match
      <3>6. Matching("", rx.dst, Any) # {}
        BY <3>5 DEF Matching
      <3> QED
        BY <2>1, <2>2, <3>6 DEF RxFind
    <2>3. CASE ~RxFind
      <3>1. UNCHANGED lost
        BY <2>3, RxFrame DEF RxActions, rxVars, RxStart, RxClear, RxGet, RxNext,
           IPCC_channel2_callback, LinuxSend, LinuxNs, LinuxTransmit
      <3> QED
        BY <2>1, <3>1
    <2> QED
      BY <2>2, <2>3
  <1>3. Base /\ RxAccounted /\ TxAccounted /\ NoneLost => BuffersAccounted
    <2> SUFFICES ASSUME Base, RxAccounted, TxAccounted, NoneLost PROVE BuffersAccounted
      OBVIOUS
    <2>1. txAvail + Len(toLinux) + Cardinality({c \in Contexts : txHeld[c]}) = TxBufs
      <3>1. txAvail \in Nat /\ Len(toLinux) \in Nat
        BY SeqDomain DEF Base, Typed, LinkTyped
      <3>2. TxHeldBy("main") \in Nat /\ TxHeldBy("isr") \in Nat
        BY DEF TxHeldBy
      <3> QED
        BY <3>1, <3>2, HeldBuffers DEF TxAccounted
    <2>2. lost > 0 => destroyed
      BY DEF Base, Typed, LinkTyped
    <2> QED
      BY <2>1, <2>2 DEF BuffersAccounted, RxAccounted, RxHeld
  <1> QED
    BY <1>1, <1>2, <1>3, Invariant, Accounted, Ownership, PTL DEF Spec

\* RxDrained: a message in the receive vring is announced, unless it came between
\* the end of the callback and the clearing of the flag, or the callback returned
\* early for an unknown address, which takes a destroyed endpoint.
THEOREM Drains == Spec => []RxDrained
  <1>1. Base /\ Drained /\ BuffersAccounted => RxDrained
    <2> SUFFICES ASSUME Base, Drained, BuffersAccounted, pc["main"] = "idle", rxq # <<>>, ~kick, ~notified,
                        stranded # "late"
                 PROVE  stranded = "unknown" /\ destroyed
      BY DEF RxDrained
    <2>1. rx = NoMsg
      BY DEF Base, MainFlow, Holding, InSend
    <2>2. stranded = "unknown"
      BY <2>1 DEF Drained, Base, Typed, LinkTyped
    <2> QED
      BY <2>2 DEF Drained, BuffersAccounted
  <1> QED
    BY <1>1, Invariant, Accounted, BuffersKept, PTL

\* DeliveredToOwner: as long as no endpoint has been destroyed, a message
\* reaches the endpoint whose announcement made the channel it was sent on.
THEOREM Delivered == Spec => []DeliveredToOwner
  <1>1. Base /\ Owned /\ Aimed => DeliveredToOwner
    <2> SUFFICES ASSUME Base, Owned, Aimed, pc["main"] = "cb", ~destroyed PROVE rx.for = cur
      BY DEF DeliveredToOwner
    <2>1. rx \in RxMsg /\ rx # NoMsg /\ cur \in Registered
      BY DEF Base, Typed, LinkTyped, MainFlow, Holding
    <2>2. rx.for \in Registered /\ ept[rx.for].addr = rx.dst
      BY <2>1, OwnerFound DEF Owned, RxOwned
    <2> QED
      BY <2>1, <2>2 DEF Aimed, Base, Addresses
  <1> QED
    BY <1>1, Invariant, Ownership, Aims, PTL

\* The endpoints of a firmware have names of their own.
DistinctNames == \A e, f \in Epts : Service[e] = Service[f] => e = f

\* BoundToOwnPeer: as long as no endpoint has been destroyed, the destination
\* of an endpoint is the Linux side of its own channel, if no two endpoints
\* have the same name.
THEOREM BoundToPeer ==
  ASSUME DistinctNames
  PROVE  Spec => []BoundToOwnPeer
  <1>1. Init => BoundToOwnPeer
    BY DEF Init, BoundToOwnPeer, Registered
  <1>2. Base /\ Owned /\ Aimed /\ BoundToOwnPeer /\ [Next]_vars => BoundToOwnPeer'
    <2> SUFFICES ASSUME Base, Owned, Aimed, BoundToOwnPeer, [Next]_vars, ~destroyed',
                        NEW e \in Registered' \ {NS}
                 PROVE  ept'[e].dest \in {Any, Peer(ept'[e].addr)}
      BY DEF BoundToOwnPeer
    <2>a. /\ ~destroyed /\ Registered \subseteq Epts \cup {NS} /\ ept \in [Epts \cup {NS} -> Ept]
          /\ cur \in Epts \cup {NS} /\ CtxTyped
      BY NotYetDestroyed, RegisteredTyped DEF Base, Typed, EptTyped
    <2>b. ASSUME e \in Registered, ept'[e] = ept[e] PROVE ept'[e].dest \in {Any, Peer(ept'[e].addr)}
      BY <2>a, <2>b DEF BoundToOwnPeer
    <2>c. ASSUME NEW f \in Epts \cup {NS}, NEW d, ept' = [ept EXCEPT ![f].dest = d]
          PROVE  /\ e # f /\ e \in Registered => ept'[e] = ept[e]
                 /\ e = f => ept'[e].dest = d /\ ept'[e].addr = ept[e].addr
      BY <2>a, <2>c DEF Ept
    <2>1. CASE CreateRegister
      <3>1. Registered' = Registered \cup {cur} /\ cur \in Epts
        BY <2>1, Registers
      <3>2. ept' = [ept EXCEPT ![cur] = [rdev |-> TRUE, addr |-> NextClearBit, dest |-> Any]]
        BY <2>1 DEF CreateRegister
      <3>3. CASE e = cur
        BY <2>a, <3>1, <3>2, <3>3
      <3>4. CASE e # cur
        BY <2>a, <2>b, <3>1, <3>2, <3>4
      <3> QED
        BY <3>3, <3>4
    <2>2. CASE CreateEnd \/ DestroyEnd
      <3>1. cur \in Epts \cap Registered
        BY <2>2 DEF CreateEnd, DestroyEnd, Inside, Base, MainFlow, Announcing
      <3>2. UNCHANGED ept /\ (UNCHANGED endpoints \/ endpoints' = Without(cur))
        BY <2>2 DEF CreateEnd, DestroyEnd, rpmsg_unregister_endpoint
      <3>3. Registered' \subseteq Registered
        BY <3>1, <3>2, Unregisters DEF Registered
      <3> QED
        BY <2>b, <3>2, <3>3
    <2>3. CASE RxDeliver
      <3>1. /\ pc["main"] = "cb" /\ cur # NS /\ UNCHANGED endpoints
            /\ ept' = [ept EXCEPT ![cur].dest = IF ept[cur].dest = Any THEN rx.src ELSE ept[cur].dest]
        BY <2>3 DEF RxDeliver
      <3>2. e \in Registered
        BY <3>1 DEF Registered
      <3>3. rx \in DataIn /\ rx # NoMsg
        BY <3>1 DEF Base, MainFlow, Holding
      <3>4. rx.src = Peer(rx.dst) /\ ept[cur].addr = rx.dst
        BY <2>a, <3>1, <3>3 DEF Owned, RxOwned, InOwn, DataIn, Aimed
      <3>5. CASE e = cur
        <4>1. /\ ept'[e].dest = IF ept[cur].dest = Any THEN rx.src ELSE ept[cur].dest
              /\ ept'[e].addr = ept[cur].addr
          BY <2>a, <2>c, <3>1, <3>5
        <4>2. ept[cur].dest \in {Any, Peer(ept[cur].addr)}
          BY <2>a, <3>2, <3>5 DEF BoundToOwnPeer
        <4> QED
          BY <3>4, <4>1, <4>2
      <3>6. CASE e # cur
        BY <2>a, <2>b, <2>c, <3>1, <3>2, <3>6
      <3> QED
        BY <3>5, <3>6
    <2>4. CASE NsLookup
      <3> DEFINE f == GetEndpoint(rx.name, Any, rx.addr)
                 d == IF rx.kind = "destroy" THEN Any ELSE rx.addr
      <3>1. pc["main"] = "ns" /\ UNCHANGED endpoints
        BY <2>4 DEF NsLookup, Inside
      <3>2. e \in Registered
        BY <3>1 DEF Registered
      <3>3. rx \in NsIn /\ rx # NoMsg
        BY <3>1 DEF Base, MainFlow, Holding
      <3>4. PICK p \in Known : rx.name = Service[p[1]] /\ rx.addr = Peer(p[2])
        BY <2>a, <3>3 DEF Owned, RxOwned, InOwn, NsIn
      <3>5. PICK g \in Registered \ {NS} : rx.name = Service[g] /\ rx.addr = Peer(ept[g].addr)
        <4>1. PICK g \in Announced : p = <<g, ept[g].addr>>
          BY <3>4 DEF Known
        <4> QED
          BY <3>4, <4>1 DEF Announced
      <3>6. \/ ept' = ept
            \/ /\ f \in Registered /\ Match(f, rx.name, Any, rx.addr)
               /\ ept' = [ept EXCEPT ![f].dest = d]
        BY <2>4, Found DEF NsLookup
      <3> HIDE DEF f
      <3>7. ASSUME ept' = [ept EXCEPT ![f].dest = d], f \in Registered, Match(f, rx.name, Any, rx.addr), e = f
            PROVE  ept'[e].dest \in {Any, Peer(ept'[e].addr)}
        <4>1. f \in Epts /\ ept[f].addr # Any
          <5>1. f \in Epts /\ ept[f].addr \in Low
            BY <2>a, <3>7 DEF Base, Addresses
          <5> QED
            BY <5>1, RpmsgAssumption DEF Low, Any
        <4>2. rx.name = Service[f]
          <5>1. f # NS
            BY <3>7
          <5> QED
            BY <3>7, <4>1, <5>1 DEF Match, NameOf
        <4>3. f = g
          BY <2>a, <3>5, <4>1, <4>2 DEF DistinctNames
        <4>4. d \in {Any, Peer(ept[f].addr)}
          BY <3>5, <4>3
        <4> HIDE DEF d
        <4>5. ept'[e].dest = d /\ ept'[e].addr = ept[e].addr
          BY <2>a, <2>c, <3>7
        <4> QED
          BY <3>7, <4>4, <4>5
      <3> HIDE DEF d
      <3>8. ASSUME ept' = [ept EXCEPT ![f].dest = d], f \in Registered, e # f
            PROVE  ept'[e].dest \in {Any, Peer(ept'[e].addr)}
        BY <2>a, <2>b, <2>c, <3>2, <3>8
      <3> QED
        BY <2>b, <3>2, <3>6, <3>7, <3>8
    <2>5. CASE ~(CreateRegister \/ CreateEnd \/ DestroyEnd \/ RxDeliver \/ NsLookup)
      <3>1. UNCHANGED <<ept, endpoints>>
        BY <2>5, EptFrame DEF EptActions, eptVars, RxFind, RxNext, Create, Destroy
      <3> QED
        BY <2>b, <3>1 DEF Registered
    <2> QED
      BY <2>1, <2>2, <2>3, <2>4, <2>5
  <1> QED
    BY <1>1, <1>2, Invariant, Ownership, Aims, PTL DEF Spec
==============================================================================
