--------------------------- MODULE StorageProofs ---------------------------
(***************************************************************************)
(* Proofs about Storage, for any number of threads and keys, any sizes and *)
(* any bounds, and that Storage implements Cache when the clients use the  *)
(* operations that hold a lock from decision to effect.                    *)
(***************************************************************************)
EXTENDS StorageRefinement, TLAPS

\* A leaf that names no prover is for the SMT solver, then for Zenon, then for the
\* SMT solver again.
USE SMTT(25), ZenonT(25), SMTT(26), SMTT(27), SMTT(28)

-----------------------------------------------------------------------------
(* Type correctness.                                                       *)

\* The constants that fill unused fields have the types of these fields.
LEMMA AnyKeyType == AnyKey \in Keys
  BY StorageAssumption, ZenonT(40) DEF AnyKey

\* An absent item is an item of size 0.
LEMMA NoItemType == NoItem \in Item
  BY ZenonT(40) DEF NoItem, Item

\* A thread between two calls has a frame.
LEMMA NoFrameType == NoFrame \in Frame
  BY AnyKeyType, NoItemType, ZenonT(40) DEF NoFrame, Frame, Status

\* The arithmetic of AtomicU64 stays within a machine word.
LEMMA WrapType == \A n \in Int : Wrap(n) \in 0 .. Word - 1
  BY StorageAssumption DEF Wrap

\* The arguments of a call.
LEMMA RequestType ==
  ASSUME NEW r \in Requests
  PROVE  /\ r.op \in Ops /\ r.key \in Keys /\ r.keys \in SUBSET Keys
         /\ r.size \in Nat /\ r.ttl \in Nat /\ r.token \in Nat
  BY StorageAssumption DEF Requests

\* Every call starts at a label.
LEMMA EntryType == \A op \in Ops : Entry(op) \in Labels
  BY StorageAssumption, ZenonT(40) DEF Entry, Labels, AllOps

\* An empty storage is well typed.
LEMMA InitType == Init => TypeOK
  BY NoItemType, NoFrameType, StorageAssumption DEF Init, TypeOK, Labels

\* A call gives the thread a frame and a label.
LEMMA CallType ==
  ASSUME TypeOK, NEW t \in Threads, Call(t)
  PROVE  TypeOK'
<1>1. PICK r \in Requests :
        /\ loc' = [loc EXCEPT ![t] =
                    [NoFrame EXCEPT !.op = r.op, !.key = r.key, !.keys = r.keys,
                       !.size = r.size, !.ttl = r.ttl, !.token = r.token]]
        /\ pc' = [pc EXCEPT ![t] = Entry(r.op)]
  BY ZenonT(40) DEF Call, Goto
<1>2. [NoFrame EXCEPT !.op = r.op, !.key = r.key, !.keys = r.keys,
         !.size = r.size, !.ttl = r.ttl, !.token = r.token] \in Frame
  BY RequestType, NoFrameType, ZenonT(40) DEF Frame
<1>3. QED
  BY <1>1, <1>2, RequestType, EntryType, ZenonT(40) DEF Call, TypeOK

\* The fields of a thread's frame.
LEMMA FrameFields ==
  ASSUME TypeOK, NEW t \in Threads
  PROVE  /\ loc[t] \in Frame
         /\ loc[t].op \in Ops \cup {"none"} /\ loc[t].key \in Keys
         /\ loc[t].keys \in SUBSET Keys /\ loc[t].size \in Nat
         /\ loc[t].ttl \in Nat /\ loc[t].token \in Nat
         /\ loc[t].item \in Item /\ loc[t].seq \in Nat /\ loc[t].cur \in Keys
         /\ loc[t].stale \in SUBSET Keys
         /\ loc[t].found \in SUBSET (Keys \X Nat) /\ loc[t].status \in Status
  BY ZenonT(40) DEF TypeOK, Frame

\* A jump to another label.
LEMMA GotoType ==
  ASSUME TypeOK, NEW t \in Threads, NEW label \in Labels, Goto(t, label)
  PROVE  pc' \in [Threads -> Labels]
  BY ZenonT(40) DEF TypeOK, Goto

\* The end of a call, with its status.
LEMMA ReturnType ==
  ASSUME TypeOK, NEW t \in Threads, NEW status \in Status, Return(t, status)
  PROVE  pc' \in [Threads -> Labels] /\ loc' \in [Threads -> Frame]
<1>1. [loc[t] EXCEPT !.status = status] \in Frame
  BY FrameFields, ZenonT(40) DEF Frame
<1>2. QED
  BY <1>1, ZenonT(40) DEF TypeOK, Return, Goto, Labels

\* A call goes on after an update of access_order.
LEMMA ResumeType ==
  ASSUME TypeOK, NEW t \in Threads, NEW label \in Labels, Resume(t, label)
  PROVE  pc' \in [Threads -> Labels] /\ loc' \in [Threads -> Frame]
<1>1. [loc[t] EXCEPT !.cur = AnyKey, !.seq = 0] \in Frame
  BY FrameFields, AnyKeyType, ZenonT(40) DEF Frame
<1>2. QED
  BY <1>1, ZenonT(40) DEF TypeOK, Resume, Goto

\* access_counter is incremented, and the thread carries the number.
LEMMA TakeAccessType ==
  ASSUME TypeOK, NEW t \in Threads, NEW k \in Keys, NEW frame \in Frame,
         NEW label \in Labels, TakeAccess(t, k, frame, label)
  PROVE  /\ pc' \in [Threads -> Labels] /\ loc' \in [Threads -> Frame]
         /\ access_counter' \in Nat
<1>1. [frame EXCEPT !.seq = access_counter, !.cur = k] \in Frame
  BY ZenonT(40) DEF Frame, TypeOK
<1>2. QED
  BY <1>1 DEF TypeOK, TakeAccess, Goto

\* The number is entered into access_order.
LEMMA RecordAccessType ==
  ASSUME TypeOK, NEW t \in Threads, RecordAccess(t)
  PROVE  access_order' \in [Keys -> Nat \cup {Untracked}]
  BY FrameFields, ZenonT(40) DEF TypeOK, RecordAccess

\* Sizes of items are numbers.
LEMMA MemorySizeType ==
  ASSUME TypeOK, NEW k \in Keys
  PROVE  memory_size(k) \in Nat /\ data[k] \in Item
  BY ZenonT(40) DEF TypeOK, memory_size, Item

\* An item is removed from data and subtracted from memory_used.
LEMMA RemoveItemType ==
  ASSUME TypeOK, NEW k \in Keys, RemoveItem(k)
  PROVE  data' \in [Keys -> Item] /\ memory_used' \in 0 .. Word - 1
<1>1. memory_used - memory_size(k) \in Int
  BY MemorySizeType, StorageAssumption DEF TypeOK
<1>2. QED
  BY <1>1, WrapType, NoItemType, ZenonT(40) DEF TypeOK, RemoveItem

\* A key is removed from access_order.
LEMMA RemoveOrderType ==
  ASSUME TypeOK, NEW k \in Keys, RemoveOrder(k)
  PROVE  access_order' \in [Keys -> Nat \cup {Untracked}]
  BY ZenonT(40) DEF TypeOK, RemoveOrder

\* The item that set and cas build.
LEMMA NewItemType ==
  ASSUME TypeOK, NEW t \in Threads
  PROVE  /\ NewItem(t) \in Item
         /\ [loc[t] EXCEPT !.item = NewItem(t)] \in Frame
<1>1. NewItem(t) \in Item
  BY FrameFields, StorageAssumption
     DEF TypeOK, NewItem, calculate_expiry, Item
<1>2. QED
  BY <1>1, FrameFields, ZenonT(40) DEF Frame

\* The insertion at the end of set and cas.
LEMMA InsertItemType ==
  ASSUME TypeOK, NEW t \in Threads, InsertItem(t)
  PROVE  /\ data' \in [Keys -> Item] /\ memory_used' \in 0 .. Word - 1
         /\ pc' \in [Threads -> Labels] /\ loc' \in [Threads -> Frame]
         /\ access_counter' \in Nat
<1>1. memory_used + loc[t].item.size \in Int
  BY FrameFields, StorageAssumption DEF TypeOK, Item
<1>2. "record" \in Labels
  BY ZenonT(40) DEF Labels
<1>3. QED
  BY <1>1, <1>2, WrapType, TakeAccessType, FrameFields, ZenonT(40) DEF TypeOK, InsertItem

\* append and prepend replace the item under data.write().
LEMMA ExtendType ==
  ASSUME TypeOK, NEW t \in Threads, Extend(t)
  PROVE  /\ data' \in [Keys -> Item] /\ memory_used' \in 0 .. Word - 1
         /\ pc' \in [Threads -> Labels] /\ loc' \in [Threads -> Frame]
         /\ access_counter' \in Nat /\ cas_counter' \in Nat
<1> DEFINE k == loc[t].key
           item == [size |-> memory_size(k) + loc[t].size,
                    expires |-> data[k].expires, cas |-> cas_counter]
<1>1. memory_used + loc[t].size \in Int
  BY FrameFields, StorageAssumption DEF TypeOK
<1>2. k \in Keys /\ loc[t].size \in Nat /\ cas_counter \in Nat /\ loc[t] \in Frame
  BY FrameFields, ZenonT(40) DEF TypeOK
<1>3. data[k] \in Item /\ memory_size(k) \in Nat
  BY <1>2, MemorySizeType, ZenonT(40)
<1>4. item \in Item
  BY <1>2, <1>3 DEF Item
<1>5. /\ data' = [data EXCEPT ![k] = item]
      /\ memory_used' = Wrap(memory_used + loc[t].size)
      /\ cas_counter' = cas_counter + 1
      /\ TakeAccess(t, k, loc[t], "record")
  BY ZenonT(40) DEF Extend
<1>6. "record" \in Labels
  BY ZenonT(40) DEF Labels
<1> HIDE DEF k, item
<1>7. QED
  BY <1>1, <1>2, <1>4, <1>5, <1>6, WrapType, TakeAccessType DEF TypeOK

\* One step of a thread inside a call.
LEMMA StepType ==
  ASSUME TypeOK, NEW t \in Threads, Step(t)
  PROVE  TypeOK'
<1> USE FrameFields
<1>0. {"idle", "get", "get_next", "get_record", "sweep", "sweep_order", "check",
       "set", "ensure", "find", "scan", "evict", "evict_order", "store",
       "insert", "record", "cas", "append", "delete", "delete_order", "flush",
       "flush_order", "cleanup", "return"} \subseteq Labels
  BY ZenonT(40) DEF Labels
<1>00. {"none", "Stored", "NotStored", "NotFound", "CasMismatch", "Deleted",
        "Items", "NonNumeric", "Ok"} \subseteq Status
  BY ZenonT(40) DEF Status
<1> USE <1>0, <1>00
<1>1. CASE Delete(t)
  BY <1>1, RemoveItemType, GotoType, ReturnType, ZenonT(40) DEF Delete, TypeOK
<1>2. CASE DeleteOrder(t)
  BY <1>2, RemoveOrderType, ReturnType, ZenonT(40) DEF DeleteOrder, TypeOK
<1>a. ASSUME EndGet(t)
      PROVE  pc' \in [Threads -> Labels] /\ loc' \in [Threads -> Frame]
  BY <1>a, GotoType, ReturnType, ZenonT(40) DEF EndGet, TypeOK
<1>3. CASE Get(t)
  BY <1>3, GotoType, ZenonT(40) DEF Get, TypeOK
<1>4. CASE GetNext(t)
  <2>1. PICK k \in loc[t].keys :
          LET rest == [loc[t] EXCEPT !.keys = @ \ {k}] IN
          \/ /\ Live(k)
             /\ TakeAccess(t, k, [rest EXCEPT !.found = @ \cup {<<k, data[k].cas>>}],
                           "get_record")
          \/ /\ ~Live(k)
             /\ loc' = [loc EXCEPT ![t] =
                          [rest EXCEPT !.stale = IF Exists(k) THEN @ \cup {k} ELSE @]]
             /\ UNCHANGED <<access_counter, pc>>
    BY <1>4, ZenonT(40) DEF GetNext
  <2> DEFINE rest == [loc[t] EXCEPT !.keys = loc[t].keys \ {k}]
  <2>2. k \in Keys /\ rest \in Frame /\ data[k].cas \in Nat
    <3>1. loc[t] \in Frame /\ data \in [Keys -> Item]
      BY ZenonT(40) DEF TypeOK
    <3>2. k \in Keys /\ loc[t].keys \ {k} \in SUBSET Keys
      BY <3>1, ZenonT(40) DEF Frame
    <3>3. rest \in Frame
      BY <3>1, <3>2, ZenonT(40) DEF Frame
    <3>4. QED
      BY <3>1, <3>2, <3>3, ZenonT(40) DEF Item
  <2>3. [rest EXCEPT !.found = rest.found \cup {<<k, data[k].cas>>}] \in Frame
    <3>1. rest.found \cup {<<k, data[k].cas>>} \in SUBSET (Keys \X Nat)
      BY <2>2 DEF Frame
    <3> HIDE DEF rest
    <3>2. QED
      BY <2>2, <3>1, ZenonT(40) DEF Frame
  <2>4. [rest EXCEPT !.stale = IF Exists(k) THEN rest.stale \cup {k} ELSE rest.stale] \in Frame
    BY <2>2, ZenonT(40) DEF Frame
  <2>5. /\ UNCHANGED <<data, access_order, memory_used, cas_counter, now>>
        /\ \/ TakeAccess(t, k, [rest EXCEPT !.found = rest.found \cup {<<k, data[k].cas>>}],
                         "get_record")
           \/ /\ loc' = [loc EXCEPT ![t] =
                  [rest EXCEPT !.stale = IF Exists(k) THEN rest.stale \cup {k} ELSE rest.stale]]
              /\ UNCHANGED <<access_counter, pc>>
    BY <1>4, <2>1, ZenonT(40) DEF GetNext
  <2> HIDE DEF rest
  <2>6. QED
    BY <2>2, <2>3, <2>4, <2>5, TakeAccessType, ZenonT(40) DEF TypeOK
<1>5. CASE GetRecord(t)
  BY <1>5, RecordAccessType, ResumeType, ZenonT(40) DEF GetRecord, TypeOK
<1>6. CASE GetDrop(t)
  BY <1>6, <1>a, GotoType, ZenonT(40) DEF GetDrop, TypeOK
<1>7. CASE Sweep(t)
  <2>1. CASE loc[t].stale = {} /\ EndGet(t) /\ UNCHANGED <<data, memory_used>>
    BY <1>7, <2>1, <1>a, ZenonT(40) DEF Sweep, TypeOK
  <2>2. ASSUME NEW k \in loc[t].stale, RemoveItem(k),
               loc' = [loc EXCEPT ![t] = [loc[t] EXCEPT !.stale = loc[t].stale \ {k}, !.cur = k]],
               Goto(t, IF Exists(k) THEN "sweep_order" ELSE "sweep")
        PROVE  TypeOK'
    <3>1. k \in Keys /\ [loc[t] EXCEPT !.stale = loc[t].stale \ {k}, !.cur = k] \in Frame
      BY ZenonT(40) DEF Frame
    <3>2. QED
      BY <1>7, <2>2, <3>1, RemoveItemType, GotoType, ZenonT(40) DEF Sweep, TypeOK
  <2>3. QED
    BY <1>7, <2>1, <2>2, ZenonT(40) DEF Sweep
<1>8. CASE SweepOrder(t)
  BY <1>8, RemoveOrderType, ResumeType, ZenonT(40) DEF SweepOrder, TypeOK
<1>9. CASE CleanupExpired(t)
  <2>1. [loc[t] EXCEPT !.stale = {k \in Keys : is_expired(k)}] \in Frame
    BY ZenonT(40) DEF Frame
  <2>2. QED
    BY <1>9, <2>1, GotoType, ZenonT(40) DEF CleanupExpired, TypeOK
<1>10. CASE EnsureMemory(t)
  BY <1>10, GotoType, ZenonT(40) DEF EnsureMemory, TypeOK
<1>11. CASE FindLruOrder(t)
  BY <1>11, GotoType, ZenonT(40) DEF FindLruOrder, TypeOK
<1>12. CASE FindLruScan(t)
  <2>1. \A k \in find_lru_key : [loc[t] EXCEPT !.cur = k] \in Frame
    BY ZenonT(40) DEF Frame, find_lru_key
  <2>2. QED
    BY <1>12, <2>1, GotoType, ZenonT(40) DEF FindLruScan, TypeOK
<1>13. CASE Evict(t)
  BY <1>13, RemoveItemType, GotoType, ZenonT(40) DEF Evict, TypeOK
<1>14. CASE EvictOrder(t)
  BY <1>14, RemoveOrderType, ResumeType, ZenonT(40) DEF EvictOrder, TypeOK
<1>15. CASE Check(t)
  BY <1>15, GotoType, ReturnType, ZenonT(40) DEF Check, TypeOK
<1>16. CASE SetBuild(t)
  <2>1. cas_counter + 1 \in Nat
    BY DEF TypeOK
  <2>2. QED
    BY <1>16, <2>1, GotoType, NewItemType, ZenonT(40) DEF SetBuild, TypeOK
<1>17. CASE SetLock(t)
  <2>1. memory_used - memory_size(loc[t].key) \in Int
    BY MemorySizeType, StorageAssumption DEF TypeOK
  <2>2. QED
    BY <1>17, <2>1, WrapType, GotoType, ZenonT(40) DEF SetLock, TypeOK
<1>18. CASE SetInsert(t)
  BY <1>18, InsertItemType, ZenonT(40) DEF SetInsert, TypeOK
<1>19. CASE Record(t)
  BY <1>19, RecordAccessType, ReturnType, ZenonT(40) DEF Record, TypeOK
<1>20. CASE Cas(t)
  <2>1. memory_used - memory_size(loc[t].key) \in Int
    BY MemorySizeType, StorageAssumption DEF TypeOK
  <2>2. cas_counter + 1 \in Nat
    BY DEF TypeOK
  <2>3. CASE /\ memory_used' = Wrap(memory_used - memory_size(loc[t].key))
             /\ loc' = [loc EXCEPT ![t] = [loc[t] EXCEPT !.item = NewItem(t)]]
             /\ cas_counter' = cas_counter + 1
             /\ Goto(t, "ensure")
             /\ UNCHANGED data
    <3>1. memory_used' \in 0 .. Word - 1 /\ pc' \in [Threads -> Labels]
      BY <2>1, <2>3, WrapType, GotoType, ZenonT(40)
    <3>2. loc' \in [Threads -> Frame]
      BY <2>3, NewItemType, ZenonT(40) DEF TypeOK
    <3>3. QED
      BY <1>20, <2>2, <2>3, <3>1, <3>2, ZenonT(40) DEF Cas, TypeOK
  <2>4. QED
    BY <1>20, <2>3, ReturnType, RemoveItemType, ZenonT(40) DEF Cas, TypeOK
<1>21. CASE CasStore(t)
  BY <1>21, InsertItemType, ZenonT(40) DEF CasStore, TypeOK
<1>22. CASE AppendPrepend(t)
  BY <1>22, GotoType, ReturnType, RemoveItemType, ExtendType, ZenonT(40) DEF AppendPrepend, TypeOK
<1>23. CASE AppendStore(t)
  BY <1>23, ReturnType, ExtendType, ZenonT(40) DEF AppendStore, TypeOK
<1>24. CASE Flush(t)
  BY <1>24, GotoType, ZenonT(40) DEF Flush, TypeOK
<1>25. CASE FlushAll(t)
  BY <1>25, ReturnType, NoItemType, StorageAssumption DEF FlushAll, TypeOK
<1>26. CASE Done(t)
  BY <1>26, GotoType, NoFrameType, ZenonT(40) DEF Done, TypeOK
<1>27. QED
  BY <1>1, <1>2, <1>3, <1>4, <1>5, <1>6, <1>7, <1>8, <1>9, <1>10, <1>11, <1>12, ZenonT(40),
     <1>13, <1>14, <1>15, <1>16, <1>17, <1>18, <1>19, <1>20, <1>21, <1>22, <1>23,
     <1>24, <1>25, <1>26
     DEF Step

\* Every step keeps the types.
LEMMA TypeStep ==
  ASSUME TypeOK, [Next]_vars
  PROVE  TypeOK'
<1>1. CASE UNCHANGED vars
  BY <1>1, ZenonT(40) DEF vars, TypeOK
<1>2. CASE Tick
  BY <1>2 DEF Tick, TypeOK
<1>3. QED
  BY <1>1, <1>2, CallType, StepType, ZenonT(40) DEF Next

\* Storage's fields keep their types, memory_used stays a machine word, and
\* every frame is well formed, in every reachable state.
THEOREM TypeCorrect == Spec => []TypeOK
  BY InitType, TypeStep, PTL DEF Spec

-----------------------------------------------------------------------------
(* Mutual exclusion on `data`: a thread between data.write() and its      *)
(* release is alone, however often cas and append drop and retake it.      *)

DataExclusive ==
  \A t, u \in Threads :
    t # u /\ HoldsDataWrite(t) => ~HoldsDataWrite(u) /\ ~HoldsDataRead(u)

\* What a step does to the program counters: only its own thread moves, and a
\* thread that comes to hold `data` found it available.
LEMMA LockStep ==
  ASSUME TypeOK, NEW t \in Threads, Call(t) \/ Step(t)
  PROVE  /\ \A u \in Threads \ {t} : pc'[u] = pc[u]
         /\ HoldsDataWrite(t)' => HoldsDataWrite(t) \/ CanWriteData
         /\ HoldsDataRead(t)' => HoldsDataRead(t) \/ CanReadData
<1> USE DEF Goto, Return, Resume, TypeOK, HoldsDataWrite, HoldsDataRead
<1>1. CASE Call(t)
  <2>1. PICK r \in Requests : pc' = [pc EXCEPT ![t] = Entry(r.op)]
    BY <1>1, ZenonT(40) DEF Call
  <2>2. Entry(r.op) \notin {"insert", "record", "evict_order", "sweep_order",
                           "delete_order", "flush_order", "get_next", "get_record"}
    BY RequestType, StorageAssumption, ZenonT(40) DEF Entry, AllOps
  <2>3. QED
    BY <2>1, <2>2, ZenonT(40)
<1>2. CASE Delete(t) \/ DeleteOrder(t) \/ Evict(t) \/ EvictOrder(t)
  BY <1>2, ZenonT(40) DEF Delete, DeleteOrder, Evict, EvictOrder
<1>3. CASE Get(t) \/ GetNext(t) \/ GetRecord(t) \/ GetDrop(t)
  BY <1>3, ZenonT(40) DEF Get, GetNext, GetRecord, GetDrop, TakeAccess, EndGet
<1>4. CASE Sweep(t) \/ SweepOrder(t) \/ CleanupExpired(t)
  BY <1>4, ZenonT(40) DEF Sweep, SweepOrder, CleanupExpired, EndGet
<1>5. CASE EnsureMemory(t) \/ FindLruOrder(t) \/ FindLruScan(t)
  BY <1>5, ZenonT(40) DEF EnsureMemory, FindLruOrder, FindLruScan
<1>6. CASE Check(t) \/ SetBuild(t) \/ SetLock(t) \/ SetInsert(t) \/ Record(t)
  BY <1>6, ZenonT(40) DEF Check, SetBuild, SetLock, SetInsert, Record, InsertItem, TakeAccess
<1>7. CASE Cas(t) \/ CasStore(t)
  BY <1>7, ZenonT(40) DEF Cas, CasStore, InsertItem, TakeAccess
<1>8. CASE AppendPrepend(t) \/ AppendStore(t)
  BY <1>8, ZenonT(40) DEF AppendPrepend, AppendStore, Extend, TakeAccess
<1>9. CASE Flush(t) \/ FlushAll(t) \/ Done(t)
  BY <1>9, ZenonT(40) DEF Flush, FlushAll, Done
<1>10. QED
  BY <1>1, <1>2, <1>3, <1>4, <1>5, <1>6, <1>7, <1>8, <1>9, ZenonT(40) DEF Step

\* A step of a thread keeps writers of `data` alone.
LEMMA ExclusiveStep ==
  ASSUME TypeOK, DataExclusive, NEW t \in Threads, Call(t) \/ Step(t)
  PROVE  DataExclusive'
<1>1. \A u \in Threads \ {t} : /\ HoldsDataWrite(u)' = HoldsDataWrite(u)
                              /\ HoldsDataRead(u)' = HoldsDataRead(u)
  BY LockStep, ZenonT(40) DEF HoldsDataWrite, HoldsDataRead
<1>2. \A u \in Threads \ {t} :
        /\ HoldsDataWrite(t)' => ~HoldsDataWrite(u) /\ ~HoldsDataRead(u)
        /\ HoldsDataRead(t)' => ~HoldsDataWrite(u)
  BY LockStep, ZenonT(40) DEF DataExclusive, CanWriteData, CanReadData
<1>3. QED
  BY <1>1, <1>2, ZenonT(40) DEF DataExclusive

\* data.write() is exclusive: whatever the threads do and however many there
\* are, one that writes `data` has neither another writer nor a reader beside it.
LEMMA Exclusion == Spec => []DataExclusive
<1>1. Init => DataExclusive
  BY ZenonT(40) DEF Init, DataExclusive, HoldsDataWrite
<1>2. TypeOK /\ DataExclusive /\ [Next]_vars => DataExclusive'
  <2> SUFFICES ASSUME TypeOK, DataExclusive, [Next]_vars PROVE DataExclusive'
    BY ZenonT(40)
  <2>1. CASE UNCHANGED pc
    BY <2>1, ZenonT(40) DEF DataExclusive, HoldsDataWrite, HoldsDataRead
  <2>2. QED
    BY <2>1, ExclusiveStep, ZenonT(40) DEF Next, Tick, vars
<1>3. QED
  BY <1>1, <1>2, TypeCorrect, PTL DEF Spec

-----------------------------------------------------------------------------
(* CAS tokens.  TokensUnique needs two facts about the control: append is  *)
(* the only operation that reaches ensure_memory_available without an item *)
(* of its own, and it never reaches the insertion of set.                  *)

Control ==
  \A t \in Threads : /\ pc[t] = "append" => loc[t].op = "append"
                     /\ pc[t] = "insert" => loc[t].op # "append"

TokenInv == TypeOK /\ Control /\ cas_counter >= 1 /\ TokensUnique

\* A step of t leaves the frames of the other threads alone.
LEMMA OthersStep ==
  ASSUME TypeOK, NEW t \in Threads, Call(t) \/ Step(t)
  PROVE  \A u \in Threads \ {t} : pc'[u] = pc[u] /\ loc'[u] = loc[u]
<1> USE DEF Goto, Return, Resume, TypeOK
<1>1. CASE Delete(t) \/ DeleteOrder(t) \/ Evict(t) \/ EvictOrder(t)
  BY <1>1, ZenonT(40) DEF Delete, DeleteOrder, Evict, EvictOrder
<1>2. CASE Get(t) \/ GetNext(t) \/ GetRecord(t) \/ GetDrop(t)
  BY <1>2, ZenonT(40) DEF Get, GetNext, GetRecord, GetDrop, TakeAccess, EndGet
<1>3. CASE Sweep(t) \/ SweepOrder(t) \/ CleanupExpired(t)
  BY <1>3, ZenonT(40) DEF Sweep, SweepOrder, CleanupExpired, EndGet
<1>4. CASE EnsureMemory(t) \/ FindLruOrder(t) \/ FindLruScan(t)
  BY <1>4, ZenonT(40) DEF EnsureMemory, FindLruOrder, FindLruScan
<1>5. CASE Check(t) \/ SetBuild(t) \/ SetLock(t) \/ SetInsert(t) \/ Record(t)
  BY <1>5, ZenonT(40) DEF Check, SetBuild, SetLock, SetInsert, Record, InsertItem, TakeAccess
<1>6. CASE Cas(t) \/ CasStore(t)
  BY <1>6, ZenonT(40) DEF Cas, CasStore, InsertItem, TakeAccess
<1>7. CASE AppendPrepend(t) \/ AppendStore(t)
  BY <1>7, ZenonT(40) DEF AppendPrepend, AppendStore, Extend, TakeAccess
<1>8. CASE Flush(t) \/ FlushAll(t) \/ Done(t) \/ Call(t)
  BY <1>8, ZenonT(40) DEF Flush, FlushAll, Done, Call
<1>9. QED
  BY <1>1, <1>2, <1>3, <1>4, <1>5, <1>6, <1>7, <1>8, ZenonT(40) DEF Step

\* A step takes a thread only to labels of its own operation.
LEMMA ControlStep ==
  ASSUME TypeOK, Control, NEW t \in Threads, Call(t) \/ Step(t)
  PROVE  Control'
<1>1. \/ pc'[t] \notin {"append", "insert"}
      \/ pc'[t] = pc[t] /\ loc'[t].op = loc[t].op
      \/ pc'[t] = "append" /\ loc'[t].op = "append"
      \/ pc'[t] = "insert" /\ loc'[t].op # "append"
  <2> USE DEF Goto, Return, Resume, TypeOK
  <2>1. CASE Delete(t) \/ DeleteOrder(t) \/ Evict(t) \/ EvictOrder(t)
    BY <2>1, ZenonT(40) DEF Delete, DeleteOrder, Evict, EvictOrder
  <2>2. CASE Get(t) \/ GetNext(t) \/ GetRecord(t) \/ GetDrop(t)
    BY <2>2, ZenonT(40) DEF Get, GetNext, GetRecord, GetDrop, TakeAccess, EndGet
  <2>3. CASE Sweep(t) \/ SweepOrder(t) \/ CleanupExpired(t)
    BY <2>3, ZenonT(40) DEF Sweep, SweepOrder, CleanupExpired, EndGet
  <2>4. CASE EnsureMemory(t) \/ FindLruOrder(t) \/ FindLruScan(t)
    BY <2>4, ZenonT(40) DEF EnsureMemory, FindLruOrder, FindLruScan
  <2>5. CASE Check(t) \/ SetBuild(t) \/ SetLock(t) \/ SetInsert(t) \/ Record(t)
    BY <2>5, ZenonT(40) DEF Check, SetBuild, SetLock, SetInsert, Record, InsertItem, TakeAccess
  <2>6. CASE Cas(t) \/ CasStore(t)
    BY <2>6, ZenonT(40) DEF Cas, CasStore, InsertItem, TakeAccess
  <2>7. CASE AppendPrepend(t) \/ AppendStore(t)
    BY <2>7, ZenonT(40) DEF AppendPrepend, AppendStore, Extend, TakeAccess
  <2>8. CASE Flush(t) \/ FlushAll(t) \/ Done(t)
    BY <2>8, ZenonT(40) DEF Flush, FlushAll, Done
  <2>9. CASE Call(t)
    <3>1. PICK r \in Requests :
            /\ pc'[t] = Entry(r.op)
            /\ loc'[t] = [NoFrame EXCEPT !.op = r.op, !.key = r.key, !.keys = r.keys,
                            !.size = r.size, !.ttl = r.ttl, !.token = r.token]
      BY <2>9, ZenonT(40) DEF Call
    <3>2. loc'[t].op = r.op
      BY <3>1, ZenonT(40) DEF NoFrame
    <3>3. QED
      BY <3>1, <3>2, RequestType, StorageAssumption, ZenonT(40) DEF Entry, AllOps
  <2>10. QED
    BY <2>1, <2>2, <2>3, <2>4, <2>5, <2>6, <2>7, <2>8, <2>9, ZenonT(40) DEF Step
<1>2. QED
  BY <1>1, OthersStep, ZenonT(40) DEF Control

\* What a step does to the tokens: it issues none, it gives the next one to the
\* item that t builds, it stores the item that t built, or it stores an item
\* with the next one.
TokensKept ==
  \A u \in Threads : Pending(u)' => Pending(u) /\ loc'[u].item = loc[u].item

NoToken ==
  /\ cas_counter' = cas_counter /\ TokensKept
  /\ \A k \in Keys : data'[k] \in {data[k], NoItem}

IssueToken(t) ==
  /\ cas_counter' = cas_counter + 1
  /\ data' = data
  /\ loc'[t].item.cas = cas_counter
  /\ \A u \in Threads \ {t} : Pending(u)' => Pending(u) /\ loc'[u].item = loc[u].item

StoreToken(t) ==
  /\ Pending(t) /\ ~Pending(t)'
  /\ cas_counter' = cas_counter /\ TokensKept
  /\ data' = [data EXCEPT ![loc[t].key] = loc[t].item]

ExtendToken ==
  /\ cas_counter' = cas_counter + 1 /\ TokensKept
  /\ \E k \in Keys : /\ \A j \in Keys \ {k} : data'[j] = data[j]
                     /\ data'[k].cas = cas_counter

\* What a step does with tokens: nothing, or it draws one, stores the one that
\* the thread carries, or replaces that of an item by a new one.
LEMMA TokenEffect ==
  ASSUME TypeOK, Control, NEW t \in Threads, Call(t) \/ Step(t)
  PROVE  NoToken \/ IssueToken(t) \/ StoreToken(t) \/ ExtendToken
<1>1. \A u \in Threads \ {t} : pc'[u] = pc[u] /\ loc'[u] = loc[u]
  BY OthersStep, ZenonT(40)
<1>2. \A u \in Threads \ {t} : Pending(u)' => Pending(u) /\ loc'[u].item = loc[u].item
  BY <1>1, ZenonT(40) DEF Pending
<1>3. ASSUME Pending(t)' => Pending(t) /\ loc'[t].item = loc[t].item
      PROVE  TokensKept
  BY <1>2, <1>3, ZenonT(40) DEF TokensKept
<1> USE DEF Goto, Return, Resume, TypeOK
<1>4. CASE Delete(t) \/ DeleteOrder(t) \/ Evict(t) \/ EvictOrder(t)
  <2>1. Pending(t)' => Pending(t) /\ loc'[t].item = loc[t].item
    <3>1. CASE Delete(t) \/ DeleteOrder(t) \/ Evict(t)
      BY <3>1, ZenonT(40) DEF Delete, DeleteOrder, Evict, Pending
    <3>2. CASE EvictOrder(t)
      <4>1. [loc[t] EXCEPT !.cur = AnyKey, !.seq = 0].item = loc[t].item
        BY FrameFields, ZenonT(40) DEF Frame
      <4>2. [loc[t] EXCEPT !.cur = AnyKey, !.seq = 0].op = loc[t].op
        BY FrameFields, ZenonT(40) DEF Frame
      <4>3. QED
        BY <3>2, <4>1, <4>2, ZenonT(40) DEF EvictOrder, Pending
    <3>3. QED
      BY <1>4, <3>1, <3>2, ZenonT(40)
  <2>2. QED
    BY <1>3, <1>4, <2>1, FrameFields, ZenonT(40)
       DEF NoToken, Delete, DeleteOrder, Evict, EvictOrder, RemoveItem
<1>5. CASE Get(t) \/ GetNext(t) \/ GetRecord(t) \/ GetDrop(t)
  <2>1. ~Pending(t)'
    BY <1>5, ZenonT(40) DEF Get, GetNext, GetRecord, GetDrop, TakeAccess, EndGet, Pending
  <2>2. QED
    BY <1>3, <1>5, <2>1, ZenonT(40) DEF NoToken, Get, GetNext, GetRecord, GetDrop
<1>6. CASE Sweep(t) \/ SweepOrder(t) \/ CleanupExpired(t)
  <2>1. ~Pending(t)'
    BY <1>6, ZenonT(40) DEF Sweep, SweepOrder, CleanupExpired, EndGet, Pending
  <2>2. QED
    BY <1>3, <1>6, <2>1, FrameFields, ZenonT(40)
       DEF NoToken, Sweep, SweepOrder, CleanupExpired, RemoveItem
<1>7. CASE EnsureMemory(t) \/ FindLruOrder(t) \/ FindLruScan(t)
  <2>1. Pending(t)' => Pending(t) /\ loc'[t].item = loc[t].item
    BY <1>7, FrameFields DEF EnsureMemory, FindLruOrder, FindLruScan, Pending, Frame
  <2>2. QED
    BY <1>3, <1>7, <2>1, ZenonT(40) DEF NoToken, EnsureMemory, FindLruOrder, FindLruScan
<1>8. CASE Check(t) \/ SetLock(t) \/ Record(t)
  <2>1. Pending(t)' => Pending(t) /\ loc'[t].item = loc[t].item
    BY <1>8, ZenonT(40) DEF Check, SetLock, Record, Pending
  <2>2. QED
    BY <1>3, <1>8, <2>1, ZenonT(40) DEF NoToken, Check, SetLock, Record
<1>9. CASE SetInsert(t) \/ CasStore(t)
  <2>1. Pending(t) /\ ~Pending(t)'
    BY <1>9, ZenonT(40) DEF SetInsert, CasStore, InsertItem, TakeAccess, Pending, Control
  <2>2. QED
    BY <1>3, <1>9, <2>1, ZenonT(40) DEF StoreToken, SetInsert, CasStore, InsertItem
<1>10. CASE SetBuild(t)
  <2>1. loc'[t].item.cas = cas_counter
    BY <1>10, FrameFields, ZenonT(40) DEF SetBuild, NewItem, Frame
  <2>2. QED
    BY <1>2, <1>10, <2>1, ZenonT(40) DEF SetBuild, IssueToken
<1>11. CASE Cas(t)
  <2>1. CASE Goto(t, "return")
    <3>1. ~Pending(t)'
      BY <2>1, ZenonT(40) DEF Pending
    <3>2. QED
      BY <1>3, <1>11, <2>1, <3>1, FrameFields, ZenonT(40) DEF NoToken, Cas, RemoveItem
  <2>2. CASE /\ loc' = [loc EXCEPT ![t] = [loc[t] EXCEPT !.item = NewItem(t)]]
             /\ cas_counter' = cas_counter + 1
             /\ UNCHANGED data
    <3>1. loc'[t].item.cas = cas_counter
      BY <2>2, FrameFields, ZenonT(40) DEF NewItem, Frame
    <3>2. QED
      BY <1>2, <2>2, <3>1, ZenonT(40) DEF IssueToken
  <2>3. QED
    BY <1>11, <2>1, <2>2, ZenonT(40) DEF Cas
<1>12. CASE AppendPrepend(t) \/ AppendStore(t)
  <2>1. ASSUME Extend(t)
        PROVE  ExtendToken
    <3>1. ~Pending(t)'
      BY <2>1, ZenonT(40) DEF Extend, TakeAccess, Pending
    <3>2. QED
      BY <1>3, <2>1, <3>1, FrameFields, ZenonT(40) DEF ExtendToken, Extend
  <2>2. ASSUME ~Extend(t)
        PROVE  NoToken
    <3>1. ~Pending(t)'
      BY <1>12, <2>2, ZenonT(40) DEF AppendPrepend, AppendStore, Pending, Control
    <3>2. QED
      BY <1>3, <1>12, <2>2, <3>1, FrameFields, ZenonT(40)
         DEF NoToken, AppendPrepend, AppendStore, RemoveItem
  <2>3. QED
    BY <2>1, <2>2, ZenonT(40)
<1>13. CASE Flush(t) \/ FlushAll(t) \/ Done(t)
  <2>1. ~Pending(t)'
    BY <1>13, ZenonT(40) DEF Flush, FlushAll, Done, Pending
  <2>2. QED
    BY <1>3, <1>13, <2>1, ZenonT(40) DEF NoToken, Flush, FlushAll, Done
<1>14. CASE Call(t)
  <2>1. ~Pending(t)'
    BY <1>14, RequestType, StorageAssumption, ZenonT(40) DEF Call, Entry, AllOps, Pending
  <2>2. QED
    BY <1>3, <1>14, <2>1, ZenonT(40) DEF NoToken, Call
<1>15. QED
  BY <1>4, <1>5, <1>6, <1>7, <1>8, <1>9, <1>10, <1>11, <1>12, <1>13, <1>14, ZenonT(40) DEF Step

\* A step of a thread keeps the tokens unique.
LEMMA TokenStep ==
  ASSUME TokenInv, NEW t \in Threads, Call(t) \/ Step(t)
  PROVE  TokensUnique' /\ cas_counter' >= 1
<1> USE DEF TokenInv
<1>1. cas_counter \in Nat /\ \A k \in Keys : data[k].cas \in Nat
  BY ZenonT(40) DEF TypeOK, Item
<1>2. \A u \in Threads : loc[u].item.cas \in Nat
  BY FrameFields, ZenonT(40) DEF Item
<1>3. \A k \in Keys : data[k].cas < cas_counter
  BY <1>1 DEF TokensUnique, Exists, NoItem
<1>4. CASE NoToken
  BY <1>1, <1>2, <1>4 DEF NoToken, TokensKept, TokensUnique, Exists, NoItem
<1>5. CASE IssueToken(t)
  BY <1>1, <1>2, <1>3, <1>5 DEF IssueToken, TokensUnique, Exists
<1>6. CASE StoreToken(t)
  <2>1. \A u \in Threads \ {t} : Pending(u)' =>
          Pending(u) /\ loc'[u].item = loc[u].item
    BY <1>6, ZenonT(40) DEF StoreToken, TokensKept
  <2>2. loc[t].key \in Keys /\ ~Pending(t)' /\ Pending(t) /\ cas_counter' = cas_counter
    BY <1>6, FrameFields, ZenonT(40) DEF StoreToken
  <2>3. \A j \in Keys : data'[j] = IF j = loc[t].key THEN loc[t].item ELSE data[j]
    BY <1>6, ZenonT(40) DEF StoreToken, TypeOK
  <2>4. QED
    BY <1>1, <1>2, <2>1, <2>2, <2>3 DEF TokensUnique, Exists
<1>7. CASE ExtendToken
  <2>1. PICK k \in Keys : /\ \A j \in Keys \ {k} : data'[j] = data[j]
                         /\ data'[k].cas = cas_counter
    BY <1>7, ZenonT(40) DEF ExtendToken
  <2>2. cas_counter' = cas_counter + 1 /\ TokensKept
    BY <1>7, ZenonT(40) DEF ExtendToken
  <2>3. QED
    BY <1>1, <1>2, <1>3, <2>1, <2>2 DEF TokensKept, TokensUnique, Exists
<1>8. QED
  BY <1>4, <1>5, <1>6, <1>7, TokenEffect, ZenonT(40)

\* The invariant of the tokens holds in every reachable state.
LEMMA TokenInvariant == Spec => []TokenInv
<1>1. Init => TokenInv
  <2>1. Init => Control /\ cas_counter >= 1 /\ TokensUnique
    BY DEF Init, Control, TokensUnique, Exists, Pending
  <2>2. QED
    BY <2>1, InitType, ZenonT(40) DEF TokenInv
<1>2. TokenInv /\ [Next]_vars => TokenInv'
  <2> SUFFICES ASSUME TokenInv, [Next]_vars PROVE TokenInv'
    BY ZenonT(40)
  <2>1. TypeOK'
    BY TypeStep, ZenonT(40) DEF TokenInv
  <2>2. CASE UNCHANGED <<data, cas_counter, pc, loc>>
    BY <2>1, <2>2, ZenonT(40) DEF TokenInv, Control, TokensUnique, Exists, Pending
  <2>3. CASE \E t \in Threads : Call(t) \/ Step(t)
    BY <2>1, <2>3, ControlStep, TokenStep, ZenonT(40) DEF TokenInv
  <2>4. QED
    BY <2>2, <2>3, ZenonT(40) DEF Next, Tick, vars
<1>3. QED
  BY <1>1, <1>2, PTL DEF Spec

\* next_cas_unique never gives two writes the same token, for any number of
\* threads and keys: tokens of stored and pending items are all different.
THEOREM TokenUniqueness == Spec => []TokensUnique
  BY TokenInvariant, PTL DEF TokenInv

-----------------------------------------------------------------------------
(* The access order.  LruTracked rests on mutual exclusion, and on what a  *)
(* deletion has already done when it waits for access_order.               *)

Removing ==
  \A t \in Threads :
    /\ pc[t] = "delete_order" => ~Exists(loc[t].key)
    /\ pc[t] \in {"evict_order", "sweep_order"} => ~Exists(loc[t].cur)

LruInv == TypeOK /\ DataExclusive /\ Removing /\ LruTracked

\* Only the thread that holds data.write() changes `data`.
LEMMA DataStep ==
  ASSUME TypeOK, NEW t \in Threads, Call(t) \/ Step(t)
  PROVE  data' = data \/ CanWriteData \/ HoldsDataWrite(t)
<1>1. CASE \/ Call(t) \/ DeleteOrder(t) \/ Get(t) \/ GetNext(t) \/ GetRecord(t)
           \/ GetDrop(t) \/ SweepOrder(t) \/ CleanupExpired(t) \/ EnsureMemory(t)
           \/ FindLruOrder(t) \/ FindLruScan(t) \/ EvictOrder(t) \/ Check(t)
           \/ SetBuild(t) \/ SetLock(t) \/ Record(t) \/ Flush(t) \/ Done(t)
  BY <1>1, ZenonT(40) DEF Call, DeleteOrder, Get, GetNext, GetRecord, GetDrop, SweepOrder,
     CleanupExpired, EnsureMemory, FindLruOrder, FindLruScan, EvictOrder, Check,
     SetBuild, SetLock, Record, Flush, Done
<1>2. CASE \/ Delete(t) \/ Sweep(t) \/ Evict(t) \/ SetInsert(t) \/ Cas(t)
           \/ CasStore(t) \/ AppendPrepend(t) \/ AppendStore(t) \/ FlushAll(t)
  BY <1>2, ZenonT(40) DEF Delete, Sweep, Evict, SetInsert, Cas, CasStore, AppendPrepend,
     AppendStore, FlushAll, HoldsDataWrite
<1>3. QED
  BY <1>1, <1>2, ZenonT(40) DEF Step

\* While a thread waits to remove an access number, the key is not stored again.
LEMMA RemovingStep ==
  ASSUME LruInv, NEW t \in Threads, Call(t) \/ Step(t)
  PROVE  Removing'
<1> USE DEF LruInv
<1>1. \A u \in Threads \ {t} : pc'[u] = pc[u] /\ loc'[u] = loc[u]
  BY OthersStep, ZenonT(40)
<1>2. \A u \in Threads \ {t} : HoldsDataWrite(u) => data' = data
  BY DataStep, ZenonT(40) DEF DataExclusive, CanWriteData, CanReadData
<1>3. \A u \in Threads \ {t} :
        /\ pc'[u] = "delete_order" => ~(data'[loc'[u].key] # NoItem)
        /\ pc'[u] \in {"evict_order", "sweep_order"} => ~(data'[loc'[u].cur] # NoItem)
  BY <1>1, <1>2, ZenonT(40) DEF Removing, Exists, HoldsDataWrite
<1>4. /\ pc'[t] = "delete_order" => data'[loc'[t].key] = NoItem
      /\ pc'[t] \in {"evict_order", "sweep_order"} => data'[loc'[t].cur] = NoItem
  <2> USE DEF Goto, Return, Resume, TypeOK
  <2>1. CASE Delete(t) \/ DeleteOrder(t) \/ Evict(t) \/ EvictOrder(t)
    BY <2>1, FrameFields, ZenonT(40) DEF Delete, DeleteOrder, Evict, EvictOrder, RemoveItem
  <2>2. CASE Get(t) \/ GetNext(t) \/ GetRecord(t) \/ GetDrop(t)
    BY <2>2, ZenonT(40) DEF Get, GetNext, GetRecord, GetDrop, TakeAccess, EndGet
  <2>3. CASE Sweep(t)
    <3>1. CASE EndGet(t)
      BY <3>1, ZenonT(40) DEF EndGet
    <3>2. ASSUME NEW k \in loc[t].stale, RemoveItem(k),
                 loc' = [loc EXCEPT ![t] = [loc[t] EXCEPT !.stale = loc[t].stale \ {k}, !.cur = k]],
                 Goto(t, IF Exists(k) THEN "sweep_order" ELSE "sweep")
          PROVE  pc'[t] # "delete_order" /\ data'[loc'[t].cur] = NoItem
      <4>1. loc'[t].cur = k
        BY <3>2, FrameFields, ZenonT(40) DEF Frame
      <4>2. QED
        BY <3>2, <4>1, FrameFields, ZenonT(40) DEF RemoveItem
    <3>3. QED
      BY <2>3, <3>1, <3>2, ZenonT(40) DEF Sweep
  <2>4. CASE SweepOrder(t) \/ CleanupExpired(t)
    BY <2>4, ZenonT(40) DEF SweepOrder, CleanupExpired
  <2>5. CASE EnsureMemory(t) \/ FindLruOrder(t) \/ FindLruScan(t)
    BY <2>5, ZenonT(40) DEF EnsureMemory, FindLruOrder, FindLruScan
  <2>6. CASE Check(t) \/ SetBuild(t) \/ SetLock(t) \/ SetInsert(t) \/ Record(t)
    BY <2>6, ZenonT(40) DEF Check, SetBuild, SetLock, SetInsert, Record, InsertItem, TakeAccess
  <2>7. CASE Cas(t) \/ CasStore(t)
    BY <2>7, ZenonT(40) DEF Cas, CasStore, InsertItem, TakeAccess
  <2>8. CASE AppendPrepend(t) \/ AppendStore(t)
    BY <2>8, ZenonT(40) DEF AppendPrepend, AppendStore, Extend, TakeAccess
  <2>9. CASE Flush(t) \/ FlushAll(t) \/ Done(t)
    BY <2>9, ZenonT(40) DEF Flush, FlushAll, Done
  <2>10. CASE Call(t)
    BY <2>10, RequestType, StorageAssumption, ZenonT(40) DEF Call, Entry, AllOps
  <2>11. QED
    BY <2>1, <2>2, <2>3, <2>4, <2>5, <2>6, <2>7, <2>8, <2>9, <2>10, ZenonT(40) DEF Step
<1>5. QED
  BY <1>3, <1>4, ZenonT(40) DEF Removing, Exists

\* What a step does to the tracking: it makes no untracked item, it stores an
\* item and goes on to record its access, or it records an access.
KeepsTracking ==
  \A k \in Keys : data'[k] # NoItem /\ access_order'[k] = Untracked =>
                  data[k] # NoItem /\ access_order[k] = Untracked

TracksStored(t) ==
  /\ access_order' = access_order /\ pc'[t] = "record" /\ loc'[t].cur \in Keys
  /\ \A k \in Keys \ {loc'[t].cur} : data'[k] = data[k]

TracksAccess(t) ==
  /\ data' = data
  /\ access_order' = [access_order EXCEPT ![loc[t].cur] = loc[t].seq]

\* What a step does with access_order: nothing that a stored item needs, or it
\* stores an item that is about to be entered, or it enters one.
LEMMA TrackingEffect ==
  ASSUME TypeOK, Removing, NEW t \in Threads, Call(t) \/ Step(t)
  PROVE  \/ KeepsTracking /\ pc[t] # "record"
         \/ TracksStored(t) /\ pc[t] # "record"
         \/ TracksAccess(t)
<1>1. ASSUME RemoveOrder(loc[t].key), data' = data, pc[t] = "delete_order"
      PROVE  KeepsTracking
  BY <1>1, FrameFields, ZenonT(40) DEF RemoveOrder, KeepsTracking, Removing, Exists, TypeOK
<1>2. ASSUME RemoveOrder(loc[t].cur), data' = data, pc[t] \in {"evict_order", "sweep_order"}
      PROVE  KeepsTracking
  BY <1>2, FrameFields, ZenonT(40) DEF RemoveOrder, KeepsTracking, Removing, Exists, TypeOK
<1>3. ASSUME NEW k \in Keys, RemoveItem(k), access_order' = access_order
      PROVE  KeepsTracking
  BY <1>3, ZenonT(40) DEF RemoveItem, KeepsTracking, TypeOK
<1>4. ASSUME data' = data, access_order' = access_order
      PROVE  KeepsTracking
  BY <1>4, ZenonT(40) DEF KeepsTracking
<1>5. ASSUME NEW item, data' = [data EXCEPT ![loc[t].key] = item],
             TakeAccess(t, loc[t].key, loc[t], "record"), access_order' = access_order
      PROVE  TracksStored(t)
  <2>1. loc'[t].cur = loc[t].key
    BY <1>5, FrameFields, ZenonT(40) DEF TakeAccess, TypeOK, Frame
  <2>2. QED
    BY <1>5, <2>1, FrameFields, ZenonT(40) DEF TracksStored, TakeAccess, Goto, TypeOK
<1>6. CASE Delete(t) \/ DeleteOrder(t) \/ Evict(t) \/ EvictOrder(t) \/ SweepOrder(t)
  BY <1>1, <1>2, <1>3, <1>6, FrameFields, ZenonT(40)
     DEF Delete, DeleteOrder, Evict, EvictOrder, SweepOrder
<1>7. CASE \/ Call(t) \/ Get(t) \/ GetNext(t) \/ GetDrop(t) \/ CleanupExpired(t)
           \/ EnsureMemory(t) \/ FindLruOrder(t) \/ FindLruScan(t) \/ Check(t)
           \/ SetBuild(t) \/ SetLock(t) \/ Flush(t) \/ Done(t)
  BY <1>4, <1>7, ZenonT(40) DEF Call, Get, GetNext, GetDrop, CleanupExpired, EnsureMemory,
     FindLruOrder, FindLruScan, Check, SetBuild, SetLock, Flush, Done
<1>8. CASE Sweep(t)
  BY <1>3, <1>4, <1>8, FrameFields, ZenonT(40) DEF Sweep
<1>9. CASE GetRecord(t) \/ Record(t)
  BY <1>9, ZenonT(40) DEF GetRecord, Record, RecordAccess, TracksAccess
<1>10. CASE SetInsert(t) \/ CasStore(t)
  BY <1>5, <1>10, ZenonT(40) DEF SetInsert, CasStore, InsertItem
<1>11. CASE Cas(t)
  BY <1>3, <1>4, <1>11, FrameFields, ZenonT(40) DEF Cas
<1>12. CASE AppendPrepend(t) \/ AppendStore(t)
  BY <1>3, <1>4, <1>5, <1>12, FrameFields, ZenonT(40) DEF AppendPrepend, AppendStore, Extend
<1>13. CASE FlushAll(t)
  BY <1>13, ZenonT(40) DEF FlushAll, KeepsTracking
<1>14. QED
  BY <1>6, <1>7, <1>8, <1>9, <1>10, <1>11, <1>12, <1>13, ZenonT(40) DEF Step

\* No step leaves a stored item without an access number or a writer that is
\* about to enter it.
LEMMA TrackingStep ==
  ASSUME LruInv, NEW t \in Threads, Call(t) \/ Step(t)
  PROVE  LruTracked'
<1> USE DEF LruInv
<1>1. \A u \in Threads \ {t} : pc'[u] = pc[u] /\ loc'[u] = loc[u]
  BY OthersStep, ZenonT(40)
<1>2. CASE KeepsTracking /\ pc[t] # "record"
  BY <1>1, <1>2 DEF KeepsTracking, LruTracked, Exists
<1>3. CASE TracksStored(t) /\ pc[t] # "record"
  BY <1>1, <1>3 DEF TracksStored, LruTracked, Exists
<1>4. CASE TracksAccess(t)
  <2>1. \A k \in Keys : access_order'[k] = Untracked =>
          k # loc[t].cur /\ access_order[k] = Untracked
    BY <1>4, FrameFields DEF TracksAccess, TypeOK, Untracked
  <2>2. QED
    BY <1>1, <1>4, <2>1 DEF TracksAccess, LruTracked, Exists
<1>5. QED
  BY <1>2, <1>3, <1>4, TrackingEffect, ZenonT(40)

\* Every stored item is tracked in access_order, or its writer is about to
\* record it, for any number of threads and keys.
THEOREM Tracking == Spec => []LruTracked
<1>1. Init => LruInv
  <2>1. Init => Removing /\ LruTracked
    BY ZenonT(40) DEF Init, Removing, LruTracked, Exists
  <2>2. Init => DataExclusive
    BY ZenonT(40) DEF Init, DataExclusive, HoldsDataWrite
  <2>3. QED
    BY <2>1, <2>2, InitType, ZenonT(40) DEF LruInv
<1>2. LruInv /\ [Next]_vars => LruInv'
  <2> SUFFICES ASSUME LruInv, [Next]_vars PROVE LruInv'
    BY ZenonT(40)
  <2>1. TypeOK'
    BY TypeStep, ZenonT(40) DEF LruInv
  <2>2. CASE UNCHANGED <<data, access_order, pc, loc>>
    BY <2>1, <2>2, ZenonT(40) DEF LruInv, DataExclusive, HoldsDataWrite, HoldsDataRead, Removing,
       LruTracked, Exists
  <2>3. CASE \E t \in Threads : Call(t) \/ Step(t)
    BY <2>1, <2>3, ExclusiveStep, RemovingStep, TrackingStep, ZenonT(40) DEF LruInv
  <2>4. QED
    BY <2>2, <2>3, ZenonT(40) DEF Next, Tick, vars
<1>3. QED
  BY <1>1, <1>2, PTL DEF Spec, LruInv

-----------------------------------------------------------------------------
(* Live items.                                                             *)

\* The steps that take a live item away.
LEMMA LiveStep ==
  ASSUME TokenInv, NEW t \in Threads, Call(t) \/ Step(t),
         NEW k \in Keys, Live(k), data'[k] = NoItem
  PROVE  \/ pc[t] = "delete" /\ loc[t].key = k
         \/ pc[t] = "flush_order"
         \/ pc[t] = "evict" /\ loc[t].cur = k
         \/ pc[t] = "sweep" /\ k \in loc[t].stale
<1> USE DEF TokenInv
<1>1. data' # data
  BY ZenonT(40) DEF Live, Exists
<1>2. ASSUME NEW j \in Keys, RemoveItem(j)
      PROVE  j = k
  BY <1>1, <1>2, ZenonT(40) DEF RemoveItem, TypeOK, Live, Exists
<1>3. ASSUME NEW item, data' = [data EXCEPT ![loc[t].key] = item], item.cas # 0
      PROVE  FALSE
  BY <1>1, <1>3 DEF TypeOK, Live, Exists, NoItem
<1>4. ~Extend(t)
  <2> SUFFICES ASSUME Extend(t) PROVE FALSE
    BY ZenonT(40)
  <2> DEFINE item == [size |-> memory_size(loc[t].key) + loc[t].size,
                      expires |-> data[loc[t].key].expires, cas |-> cas_counter]
  <2>1. data' = [data EXCEPT ![loc[t].key] = item]
    BY ZenonT(40) DEF Extend
  <2>2. item.cas # 0
    BY DEF TypeOK
  <2> HIDE DEF item
  <2>3. QED
    BY <1>3, <2>1, <2>2, ZenonT(40)
<1>5. CASE Delete(t) \/ Evict(t)
  BY <1>2, <1>5, FrameFields, ZenonT(40) DEF Delete, Evict
<1>6. CASE Sweep(t)
  BY <1>1, <1>2, <1>6, FrameFields, ZenonT(40) DEF Sweep
<1>7. CASE SetInsert(t) \/ CasStore(t)
  <2>1. Pending(t) /\ data' = [data EXCEPT ![loc[t].key] = loc[t].item]
    BY <1>7, ZenonT(40) DEF SetInsert, CasStore, InsertItem, Pending, Control
  <2>2. loc[t].item.cas # 0
    BY <2>1 DEF TokensUnique, TypeOK
  <2>3. QED
    BY <1>3, <2>1, <2>2, ZenonT(40)
<1>8. CASE Cas(t)
  BY <1>1, <1>2, <1>8, FrameFields, ZenonT(40) DEF Cas, Live
<1>9. CASE AppendPrepend(t) \/ AppendStore(t)
  BY <1>1, <1>2, <1>4, <1>9, FrameFields, ZenonT(40) DEF AppendPrepend, AppendStore, Live
<1>10. CASE FlushAll(t)
  BY <1>10, ZenonT(40) DEF FlushAll
<1>11. CASE \/ Call(t) \/ DeleteOrder(t) \/ Get(t) \/ GetNext(t) \/ GetRecord(t)
            \/ GetDrop(t) \/ SweepOrder(t) \/ CleanupExpired(t) \/ EnsureMemory(t)
            \/ FindLruOrder(t) \/ FindLruScan(t) \/ EvictOrder(t) \/ Check(t)
            \/ SetBuild(t) \/ SetLock(t) \/ Record(t) \/ Flush(t) \/ Done(t)
  BY <1>1, <1>11, ZenonT(40) DEF Call, DeleteOrder, Get, GetNext, GetRecord, GetDrop, SweepOrder,
     CleanupExpired, EnsureMemory, FindLruOrder, FindLruScan, EvictOrder, Check,
     SetBuild, SetLock, Record, Flush, Done
<1>12. QED
  BY <1>5, <1>6, <1>7, <1>8, <1>9, <1>10, <1>11, ZenonT(40) DEF Step

\* A live item is removed only by a delete or flush_all, by eviction, or by a
\* sweep for that key; set, cas and append replace it and never lose it.
THEOREM LiveItems == Spec => LiveItemsKept
<1>1. TokenInv /\ [Next]_vars =>
        [\A k \in Keys : Live(k) /\ data'[k] = NoItem =>
           \E t \in Threads :
             \/ pc[t] = "delete" /\ loc[t].key = k
             \/ pc[t] = "flush_order"
             \/ pc[t] = "evict" /\ loc[t].cur = k
             \/ pc[t] = "sweep" /\ k \in loc[t].stale]_vars
  <2> SUFFICES ASSUME TokenInv, Next, NEW k \in Keys, Live(k), data'[k] = NoItem
               PROVE  \E t \in Threads :
                        \/ pc[t] = "delete" /\ loc[t].key = k
                        \/ pc[t] = "flush_order"
                        \/ pc[t] = "evict" /\ loc[t].cur = k
                        \/ pc[t] = "sweep" /\ k \in loc[t].stale
    BY ZenonT(40)
  <2>1. ~Tick
    BY ZenonT(40) DEF Tick, Live, Exists
  <2>2. QED
    BY <2>1, LiveStep, ZenonT(40) DEF Next
<1>2. QED
  BY <1>1, TokenInvariant, PTL DEF Spec, LiveItemsKept

-----------------------------------------------------------------------------
(* Access numbers.                                                         *)

Recording(t) == pc[t] \in {"record", "get_record"}

\* What a step does to the numbers: it records and takes none, it takes the
\* next one, or it records the one that t took.
NoNumber ==
  /\ access_counter' = access_counter
  /\ \A k \in Keys : access_order'[k] \in {access_order[k], Untracked}
  /\ \A u \in Threads : Recording(u)' => Recording(u) /\ loc'[u].seq = loc[u].seq

TakesNumber(t) ==
  /\ access_counter' = access_counter + 1
  /\ access_order' = access_order
  /\ loc'[t].seq = access_counter

RecordsNumber(t) ==
  /\ Recording(t) /\ ~Recording(t)'
  /\ access_counter' = access_counter
  /\ access_order' = [access_order EXCEPT ![loc[t].cur] = loc[t].seq]

\* What a step does with access numbers: nothing new, or it draws one, or it
\* records the one that the thread carries.
LEMMA NumberEffect ==
  ASSUME TypeOK, NEW t \in Threads, Call(t) \/ Step(t)
  PROVE  NoNumber \/ TakesNumber(t) \/ RecordsNumber(t)
<1>1. \A u \in Threads \ {t} : pc'[u] = pc[u] /\ loc'[u] = loc[u]
  BY OthersStep, ZenonT(40)
<1>2. ASSUME ~Recording(t)', access_counter' = access_counter,
             \A k \in Keys : access_order'[k] \in {access_order[k], Untracked}
      PROVE  NoNumber
  BY <1>1, <1>2, ZenonT(40) DEF NoNumber, Recording
<1>3. ASSUME NEW k \in Keys, NEW frame \in Frame, NEW label \in Labels,
             TakeAccess(t, k, frame, label), access_order' = access_order
      PROVE  TakesNumber(t)
  <2>1. [frame EXCEPT !.seq = access_counter, !.cur = k].seq = access_counter
    BY ZenonT(40) DEF Frame
  <2>2. QED
    BY <1>3, <2>1, ZenonT(40) DEF TakesNumber, TakeAccess, TypeOK
<1> USE DEF Goto, Return, Resume, TypeOK, Recording
<1>4. CASE \/ Delete(t) \/ DeleteOrder(t) \/ Evict(t) \/ EvictOrder(t) \/ SweepOrder(t)
           \/ FlushAll(t)
  BY <1>2, <1>4, FrameFields, ZenonT(40)
     DEF Delete, DeleteOrder, Evict, EvictOrder, SweepOrder, FlushAll, RemoveOrder
<1>5. CASE \/ Get(t) \/ CleanupExpired(t) \/ EnsureMemory(t) \/ FindLruOrder(t)
           \/ FindLruScan(t) \/ Check(t) \/ SetBuild(t) \/ SetLock(t) \/ Flush(t)
           \/ Done(t) \/ Cas(t)
  BY <1>2, <1>5, ZenonT(40) DEF Get, CleanupExpired, EnsureMemory, FindLruOrder, FindLruScan,
     Check, SetBuild, SetLock, Flush, Done, Cas
<1>6. CASE GetDrop(t) \/ Sweep(t)
  BY <1>2, <1>6, ZenonT(40) DEF GetDrop, Sweep, EndGet
<1>7. CASE GetRecord(t) \/ Record(t)
  BY <1>7, ZenonT(40) DEF GetRecord, Record, RecordAccess, RecordsNumber
<1>8. CASE SetInsert(t) \/ CasStore(t)
  BY <1>3, <1>8, FrameFields, ZenonT(40) DEF SetInsert, CasStore, InsertItem, Labels
<1>9. CASE AppendPrepend(t) \/ AppendStore(t)
  <2>1. CASE Extend(t)
    BY <1>3, <1>9, <2>1, FrameFields, ZenonT(40) DEF AppendPrepend, AppendStore, Extend, Labels
  <2>2. CASE ~Extend(t)
    BY <1>2, <1>9, <2>2, ZenonT(40) DEF AppendPrepend, AppendStore
  <2>3. QED
    BY <2>1, <2>2, ZenonT(40)
<1>10. CASE GetNext(t)
  <2>1. PICK k \in loc[t].keys :
          LET rest == [loc[t] EXCEPT !.keys = @ \ {k}] IN
          \/ /\ Live(k)
             /\ TakeAccess(t, k, [rest EXCEPT !.found = @ \cup {<<k, data[k].cas>>}],
                           "get_record")
          \/ UNCHANGED <<access_counter, pc>>
    BY <1>10, ZenonT(40) DEF GetNext
  <2> DEFINE rest == [loc[t] EXCEPT !.keys = loc[t].keys \ {k}]
             found == [rest EXCEPT !.found = rest.found \cup {<<k, data[k].cas>>}]
  <2>2. TakeAccess(t, k, found, "get_record") \/ UNCHANGED <<access_counter, pc>>
    BY <2>1, ZenonT(40)
  <2>3. ASSUME TakeAccess(t, k, found, "get_record")
        PROVE  loc'[t].seq = access_counter /\ access_counter' = access_counter + 1
    BY <2>3, FrameFields, ZenonT(40) DEF TakeAccess, Frame
  <2>4. QED
    BY <1>2, <1>10, <2>2, <2>3, ZenonT(40) DEF GetNext, TakesNumber
<1>11. CASE Call(t)
  BY <1>2, <1>11, RequestType, StorageAssumption, ZenonT(40) DEF Call, Entry, AllOps
<1>12. QED
  BY <1>4, <1>5, <1>6, <1>7, <1>8, <1>9, <1>10, <1>11, ZenonT(40) DEF Step

\* A step of a thread keeps the access numbers distinct.
LEMMA NumberStep ==
  ASSUME TypeOK, AccessNumbersDistinct, NEW t \in Threads, Call(t) \/ Step(t)
  PROVE  AccessNumbersDistinct'
<1>1. \A u \in Threads \ {t} : pc'[u] = pc[u] /\ loc'[u] = loc[u]
  BY OthersStep, ZenonT(40)
<1>2. /\ access_counter \in Nat
      /\ \A k \in Keys : access_order[k] \in Nat \cup {Untracked}
      /\ \A u \in Threads : loc[u].seq \in Nat /\ loc[u].cur \in Keys
  BY FrameFields, ZenonT(40) DEF TypeOK
<1>3. /\ \A k \in Keys : access_order[k] < access_counter
      /\ \A j, k \in Keys :
           j # k /\ access_order[j] # Untracked => access_order[j] # access_order[k]
      /\ \A u \in Threads : Recording(u) =>
           /\ loc[u].seq < access_counter
           /\ \A k \in Keys : access_order[k] # loc[u].seq
           /\ \A v \in Threads \ {u} : Recording(v) => loc[v].seq # loc[u].seq
  BY ZenonT(40) DEF AccessNumbersDistinct, Recording
<1>4. SUFFICES
        /\ \A k \in Keys : access_order'[k] < access_counter'
        /\ \A j, k \in Keys :
             j # k /\ access_order'[j] # Untracked => access_order'[j] # access_order'[k]
        /\ \A u \in Threads : Recording(u)' =>
             /\ loc'[u].seq < access_counter'
             /\ \A k \in Keys : access_order'[k] # loc'[u].seq
             /\ \A v \in Threads \ {u} : Recording(v)' => loc'[v].seq # loc'[u].seq
  BY ZenonT(40) DEF AccessNumbersDistinct, Recording
<1>5. CASE NoNumber
  BY <1>2, <1>3, <1>5 DEF NoNumber, Untracked
<1>6. CASE TakesNumber(t)
  <2>1. \A u \in Threads \ {t} : /\ Recording(u)' = Recording(u)
                                /\ loc'[u].seq = loc[u].seq
    BY <1>1, ZenonT(40) DEF Recording
  <2>2. \A k \in Keys : access_order'[k] = access_order[k]
    BY <1>6, ZenonT(40) DEF TakesNumber
  <2>3. access_counter' = access_counter + 1 /\ loc'[t].seq = access_counter
    BY <1>6, ZenonT(40) DEF TakesNumber
  <2>4. QED
    BY <1>2, <1>3, <2>1, <2>2, <2>3 DEF Untracked
<1>7. CASE RecordsNumber(t)
  <2>1. \A k \in Keys : access_order'[k] = IF k = loc[t].cur THEN loc[t].seq
                                           ELSE access_order[k]
    BY <1>7, ZenonT(40) DEF RecordsNumber, TypeOK
  <2>2. \A u \in Threads : Recording(u)' => u # t /\ Recording(u) /\ loc'[u] = loc[u]
    BY <1>1, <1>7, ZenonT(40) DEF RecordsNumber, Recording
  <2>3. Recording(t) /\ access_counter' = access_counter
    BY <1>7, ZenonT(40) DEF RecordsNumber
  <2>4. QED
    BY <1>2, <1>3, <2>1, <2>2, <2>3 DEF Untracked
<1>8. QED
  BY <1>5, <1>6, <1>7, NumberEffect, ZenonT(40)

\* access_counter gives every access a number of its own, although the number
\* is taken and stored in separate steps: recency is a strict order.
THEOREM AccessNumbers == Spec => []AccessNumbersDistinct
<1>1. Init => AccessNumbersDistinct
  <2> SUFFICES ASSUME Init PROVE AccessNumbersDistinct
    BY ZenonT(40)
  <2>1. \A t \in Threads : pc[t] = "idle"
    BY ZenonT(40) DEF Init
  <2>2. QED
    BY <2>1 DEF Init, AccessNumbersDistinct, Untracked
<1>2. TypeOK /\ AccessNumbersDistinct /\ [Next]_vars => AccessNumbersDistinct'
  <2> SUFFICES ASSUME TypeOK, AccessNumbersDistinct, [Next]_vars
               PROVE  AccessNumbersDistinct'
    BY ZenonT(40)
  <2>1. CASE UNCHANGED <<access_order, access_counter, pc, loc>>
    BY <2>1, ZenonT(40) DEF AccessNumbersDistinct
  <2>2. QED
    BY <2>1, NumberStep, ZenonT(40) DEF Next, Tick, vars
<1>3. QED
  BY <1>1, <1>2, TypeCorrect, PTL DEF Spec

-----------------------------------------------------------------------------
(* Accesses that are entered late.  A writer that is about to enter its    *)
(* number holds data.write(), so its item is stored and the number already *)
(* there is an earlier one; a get holds data.read(), so the item it found  *)
(* is the one that is stored.                                              *)

Accessing ==
  \A t \in Threads :
    /\ pc[t] = "record" =>
         Exists(loc[t].cur) /\ access_order[loc[t].cur] < loc[t].seq
    /\ pc[t] = "get_record" =>
         Exists(loc[t].cur) /\ <<loc[t].cur, data[loc[t].cur].cas>> \in loc[t].found

AccessInv == TokenInv /\ DataExclusive /\ AccessNumbersDistinct

\* The steps after which a thread carries a number.
LEMMA TakingStep ==
  ASSUME TypeOK, NEW t \in Threads, Call(t) \/ Step(t), Recording(t)'
  PROVE  \/ SetInsert(t) \/ CasStore(t) \/ GetNext(t)
         \/ Extend(t) /\ access_order' = access_order
<1> USE DEF Goto, Return, Resume, TypeOK, Recording
<1>1. ~Call(t)
  BY RequestType, StorageAssumption, ZenonT(40) DEF Call, Entry, AllOps
<1>2. ~(Delete(t) \/ DeleteOrder(t) \/ Evict(t) \/ EvictOrder(t))
  BY ZenonT(40) DEF Delete, DeleteOrder, Evict, EvictOrder
<1>3. ~(Get(t) \/ GetRecord(t) \/ GetDrop(t))
  BY ZenonT(40) DEF Get, GetRecord, GetDrop, EndGet
<1>4. ~(Sweep(t) \/ SweepOrder(t) \/ CleanupExpired(t))
  BY ZenonT(40) DEF Sweep, SweepOrder, CleanupExpired, EndGet
<1>5. ~(EnsureMemory(t) \/ FindLruOrder(t) \/ FindLruScan(t))
  BY ZenonT(40) DEF EnsureMemory, FindLruOrder, FindLruScan
<1>6. ~(Check(t) \/ SetBuild(t) \/ SetLock(t) \/ Record(t) \/ Cas(t))
  BY ZenonT(40) DEF Check, SetBuild, SetLock, Record, Cas
<1>7. ~(Flush(t) \/ FlushAll(t) \/ Done(t))
  BY ZenonT(40) DEF Flush, FlushAll, Done
<1>8. AppendPrepend(t) \/ AppendStore(t) => Extend(t) /\ access_order' = access_order
  BY ZenonT(40) DEF AppendPrepend, AppendStore
<1>9. QED
  BY <1>1, <1>2, <1>3, <1>4, <1>5, <1>6, <1>7, <1>8, ZenonT(40) DEF Step

\* A thread that comes to carry a number carries it for the item that is stored.
LEMMA TakenStep ==
  ASSUME AccessInv, NEW t \in Threads, Call(t) \/ Step(t), Recording(t)'
  PROVE  /\ loc'[t].cur \in Keys /\ data'[loc'[t].cur] # NoItem
         /\ pc'[t] = "record" => access_order'[loc'[t].cur] < loc'[t].seq
         /\ pc'[t] = "get_record" =>
              <<loc'[t].cur, data'[loc'[t].cur].cas>> \in loc'[t].found
<1> USE DEF AccessInv, TokenInv
<1>1. ASSUME NEW item, data' = [data EXCEPT ![loc[t].key] = item], item.cas # 0,
             TakeAccess(t, loc[t].key, loc[t], "record"), access_order' = access_order
      PROVE  /\ loc'[t].cur \in Keys /\ data'[loc'[t].cur] # NoItem
             /\ access_order'[loc'[t].cur] < loc'[t].seq /\ pc'[t] # "get_record"
  <2>1. loc'[t].cur = loc[t].key /\ loc'[t].seq = access_counter /\ pc'[t] = "record"
    BY <1>1, FrameFields, ZenonT(40) DEF TakeAccess, Goto, TypeOK, Frame
  <2>2. loc[t].key \in Keys
    BY FrameFields, ZenonT(40)
  <2>3. item # NoItem
    <3>1. NoItem.cas = 0
      BY ZenonT(40) DEF NoItem
    <3>2. QED
      BY <1>1, <3>1, ZenonT(40)
  <2>4. data'[loc[t].key] = item
    BY <1>1, <2>2, ZenonT(40) DEF TypeOK
  <2>5. access_order[loc[t].key] < access_counter
    BY <2>2, ZenonT(40) DEF AccessNumbersDistinct
  <2>6. QED
    BY <1>1, <2>1, <2>2, <2>3, <2>4, <2>5, ZenonT(40)
<1>2. CASE SetInsert(t) \/ CasStore(t)
  <2>1. Pending(t) /\ data' = [data EXCEPT ![loc[t].key] = loc[t].item]
    BY <1>2, ZenonT(40) DEF SetInsert, CasStore, InsertItem, Pending, Control
  <2>2. loc[t].item.cas # 0
    BY <2>1 DEF TokensUnique, TypeOK
  <2>3. TakeAccess(t, loc[t].key, loc[t], "record") /\ access_order' = access_order
    BY <1>2, ZenonT(40) DEF SetInsert, CasStore, InsertItem
  <2>4. /\ loc'[t].cur \in Keys /\ data'[loc'[t].cur] # NoItem
        /\ access_order'[loc'[t].cur] < loc'[t].seq /\ pc'[t] # "get_record"
    BY <1>1, <2>1, <2>2, <2>3, ZenonT(40)
  <2>5. QED
    BY <2>4, ZenonT(40)
<1>3. CASE Extend(t) /\ access_order' = access_order
  <2> DEFINE item == [size |-> memory_size(loc[t].key) + loc[t].size,
                      expires |-> data[loc[t].key].expires, cas |-> cas_counter]
  <2>1. /\ data' = [data EXCEPT ![loc[t].key] = item]
        /\ TakeAccess(t, loc[t].key, loc[t], "record")
    BY <1>3, ZenonT(40) DEF Extend
  <2>2. item.cas # 0
    BY DEF TypeOK
  <2> HIDE DEF item
  <2>3. /\ loc'[t].cur \in Keys /\ data'[loc'[t].cur] # NoItem
        /\ access_order'[loc'[t].cur] < loc'[t].seq /\ pc'[t] # "get_record"
    BY <1>1, <1>3, <2>1, <2>2, ZenonT(40)
  <2>4. QED
    BY <2>3, ZenonT(40)
<1>4. CASE GetNext(t)
  <2>1. pc[t] = "get_next" /\ data' = data
    BY <1>4, ZenonT(40) DEF GetNext
  <2>2. PICK k \in loc[t].keys :
          LET rest == [loc[t] EXCEPT !.keys = @ \ {k}] IN
          \/ /\ Live(k)
             /\ TakeAccess(t, k, [rest EXCEPT !.found = @ \cup {<<k, data[k].cas>>}],
                           "get_record")
          \/ UNCHANGED <<access_counter, pc>>
    BY <1>4, ZenonT(40) DEF GetNext
  <2> DEFINE rest == [loc[t] EXCEPT !.keys = loc[t].keys \ {k}]
             found == [rest EXCEPT !.found = rest.found \cup {<<k, data[k].cas>>}]
  <2>3. pc' # pc
    BY <2>1, ZenonT(40) DEF Recording
  <2>4. Live(k) /\ TakeAccess(t, k, found, "get_record")
    BY <2>2, <2>3, ZenonT(40)
  <2>5. k \in Keys /\ loc[t] \in Frame
    BY FrameFields, ZenonT(40)
  <2>6. /\ loc'[t] = [found EXCEPT !.seq = access_counter, !.cur = k]
        /\ pc'[t] = "get_record"
    BY <2>4, ZenonT(40) DEF TakeAccess, Goto, TypeOK
  <2>7. loc'[t].cur = k /\ loc'[t].found = rest.found \cup {<<k, data[k].cas>>}
    BY <2>5, <2>6, ZenonT(40) DEF Frame
  <2>8. <<k, data[k].cas>> \in loc'[t].found
    BY <2>7, ZenonT(40)
  <2>9. data[k] # NoItem
    BY <2>4, ZenonT(40) DEF Live, Exists
  <2> HIDE DEF rest, found
  <2>10. QED
    BY <2>1, <2>5, <2>6, <2>7, <2>8, <2>9, ZenonT(40)
<1>5. QED
  BY <1>2, <1>3, <1>4, TakingStep, ZenonT(40)

\* While a thread carries a number, no other changes the item; while it is a
\* writer, no other enters a number.
LEMMA AccessStep ==
  ASSUME AccessInv, Accessing, NEW t \in Threads, Call(t) \/ Step(t)
  PROVE  Accessing'
<1> USE DEF AccessInv, TokenInv
<1>1. \A u \in Threads \ {t} : pc'[u] = pc[u] /\ loc'[u] = loc[u]
  BY OthersStep, ZenonT(40)
<1>2. \A u \in Threads \ {t} : Recording(u) => data' = data
  BY DataStep, ZenonT(40) DEF DataExclusive, CanWriteData, CanReadData, HoldsDataWrite,
     HoldsDataRead, Recording
<1>3. \A u \in Threads \ {t} : pc[u] = "record" =>
        access_order'[loc[u].cur] \in {access_order[loc[u].cur], Untracked}
  <2> SUFFICES ASSUME NEW u \in Threads \ {t}, pc[u] = "record"
               PROVE  access_order'[loc[u].cur] \in {access_order[loc[u].cur], Untracked}
    BY ZenonT(40)
  <2>1. ~Recording(t)
    BY ZenonT(40) DEF DataExclusive, HoldsDataWrite, HoldsDataRead, Recording
  <2>2. NoNumber \/ TakesNumber(t)
    BY <2>1, NumberEffect, ZenonT(40) DEF RecordsNumber
  <2>3. loc[u].cur \in Keys
    BY FrameFields, ZenonT(40)
  <2>4. QED
    BY <2>2, <2>3, ZenonT(40) DEF NoNumber, TakesNumber
<1>4. \A u \in Threads \ {t} : pc[u] = "record" =>
        access_order'[loc[u].cur] < loc[u].seq
  <2> SUFFICES ASSUME NEW u \in Threads \ {t}, pc[u] = "record"
               PROVE  access_order'[loc[u].cur] < loc[u].seq
    BY ZenonT(40)
  <2>1. loc[u].seq \in Nat
    BY FrameFields, ZenonT(40)
  <2>2. Untracked < loc[u].seq
    BY <2>1 DEF Untracked
  <2>3. access_order[loc[u].cur] < loc[u].seq
    BY ZenonT(40) DEF Accessing
  <2>4. QED
    BY <1>3, <2>2, <2>3, ZenonT(40)
<1>5. \A u \in Threads \ {t} :
        /\ pc'[u] = "record" =>
             data'[loc'[u].cur] # NoItem /\ access_order'[loc'[u].cur] < loc'[u].seq
        /\ pc'[u] = "get_record" =>
             /\ data'[loc'[u].cur] # NoItem
             /\ <<loc'[u].cur, data'[loc'[u].cur].cas>> \in loc'[u].found
  BY <1>1, <1>2, <1>4, ZenonT(40) DEF Accessing, Exists, Recording
<1>6. /\ pc'[t] = "record" =>
           data'[loc'[t].cur] # NoItem /\ access_order'[loc'[t].cur] < loc'[t].seq
      /\ pc'[t] = "get_record" =>
           /\ data'[loc'[t].cur] # NoItem
           /\ <<loc'[t].cur, data'[loc'[t].cur].cas>> \in loc'[t].found
  BY TakenStep, ZenonT(40) DEF Recording
<1>7. QED
  BY <1>5, <1>6, ZenonT(40) DEF Accessing, Exists

\* The number that a step enters is that of an access to the stored item.
LEMMA EnteredStep ==
  ASSUME AccessInv, Accessing, NEW t \in Threads, Call(t) \/ Step(t), NEW k \in Keys,
         access_order'[k] \notin {access_order[k], Untracked}
  PROVE  /\ loc[t].cur = k /\ Exists(k)
         /\ \/ pc[t] = "record" /\ access_order'[k] > access_order[k]
            \/ pc[t] = "get_record" /\ <<k, data[k].cas>> \in loc[t].found
<1> USE DEF AccessInv, TokenInv
<1>1. RecordsNumber(t)
  BY NumberEffect, ZenonT(40) DEF NoNumber, TakesNumber
<1>2. loc[t].cur = k /\ access_order'[k] = loc[t].seq /\ Recording(t)
  BY <1>1, FrameFields, ZenonT(40) DEF RecordsNumber, TypeOK
<1>3. CASE pc[t] = "get_record"
  BY <1>2, <1>3, ZenonT(40) DEF Accessing
<1>4. CASE pc[t] = "record"
  <2>1. Exists(k) /\ access_order[k] < loc[t].seq
    BY <1>2, <1>4, ZenonT(40) DEF Accessing
  <2>2. access_order[k] \in Int /\ loc[t].seq \in Int
    BY FrameFields DEF TypeOK, Untracked
  <2>3. loc[t].seq > access_order[k]
    BY <2>1, <2>2
  <2>4. QED
    BY <1>2, <1>4, <2>1, <2>3, ZenonT(40)
<1>5. QED
  BY <1>2, <1>3, <1>4, ZenonT(40) DEF Recording

\* record_access enters its number in a step of its own: for any number of
\* threads and keys it is then still the number of an access to the item that is
\* stored, and that of a writer is later than the one it replaces.
THEOREM Accesses == Spec => AccessesCurrent
<1>1. Init => Accessing
  BY ZenonT(40) DEF Init, Accessing
<1>2. AccessInv /\ Accessing /\ [Next]_vars => Accessing'
  <2> SUFFICES ASSUME AccessInv, Accessing, [Next]_vars PROVE Accessing'
    BY ZenonT(40)
  <2>1. CASE UNCHANGED <<data, access_order, pc, loc>>
    BY <2>1, ZenonT(40) DEF Accessing, Exists
  <2>2. QED
    BY <2>1, AccessStep, ZenonT(40) DEF Next, Tick, vars
<1>3. AccessInv /\ Accessing /\ [Next]_vars =>
        [\A k \in Keys : access_order'[k] \notin {access_order[k], Untracked} =>
           \E t \in Threads :
             /\ loc[t].cur = k /\ Exists(k)
             /\ \/ pc[t] = "record" /\ access_order'[k] > access_order[k]
                \/ pc[t] = "get_record" /\ <<k, data[k].cas>> \in loc[t].found]_vars
  <2> SUFFICES ASSUME AccessInv, Accessing, Next, NEW k \in Keys,
                      access_order'[k] \notin {access_order[k], Untracked}
               PROVE  \E t \in Threads :
                        /\ loc[t].cur = k /\ Exists(k)
                        /\ \/ pc[t] = "record" /\ access_order'[k] > access_order[k]
                           \/ pc[t] = "get_record" /\ <<k, data[k].cas>> \in loc[t].found
    BY ZenonT(40)
  <2>1. ~Tick
    BY ZenonT(40) DEF Tick
  <2>2. QED
    BY <2>1, EnteredStep, ZenonT(40) DEF Next
<1>4. Spec => []AccessInv
  BY TokenInvariant, Exclusion, AccessNumbers, PTL DEF AccessInv
<1>5. QED
  BY <1>1, <1>2, <1>3, <1>4, PTL DEF Spec, AccessesCurrent

-----------------------------------------------------------------------------
(* Where a call can be.  The mapping reads off the label what the call has *)
(* still to do, so each label must belong to one operation.                *)

OnPath(label, frame) ==
  /\ label \in {"get", "get_next", "get_record", "sweep", "sweep_order"} =>
       frame.op = "get"
  /\ label \in {"sweep", "sweep_order"} => frame.keys = {}
  /\ label \in {"set", "insert"} => frame.op = "set"
  /\ label \in {"ensure", "find", "scan", "evict", "evict_order", "store"} =>
       frame.op \in {"set", "append"}
  /\ label \in {"append", "delete"} => frame.op = label
  /\ label \in {"flush", "flush_order"} => frame.op = "flush"
  /\ label \notin {"check", "cas", "cleanup"}

Paths == \A t \in Threads : OnPath(pc[t], loc[t])

\* The parts of a frame that the mapping and OnPath read, but for the status.
Same(f, g) ==
  /\ g.op = f.op /\ g.key = f.key /\ g.token = f.token
  /\ g.keys = f.keys /\ g.found = f.found

\* The status and the item that a call builds are not among them.
LEMMA SameFrame ==
  ASSUME NEW f \in Frame, NEW a
  PROVE  /\ Same(f, [f EXCEPT !.status = a]) /\ [f EXCEPT !.status = a].status = a
         /\ Same(f, [f EXCEPT !.item = a]) /\ [f EXCEPT !.item = a].status = f.status
  BY ZenonT(40) DEF Same, Frame

\* Every step but the lookup of a key leaves them as they are; only a return sets
\* the status.
LEMMA FrameStep ==
  ASSUME TypeOK, NEW t \in Threads, Step(t), ~Done(t), ~GetNext(t), ~CleanupExpired(t)
  PROVE  /\ Same(loc[t], loc'[t])
         /\ pc'[t] # "return" => loc'[t].status = loc[t].status
<1>1. /\ pc \in [Threads -> Labels] /\ loc \in [Threads -> Frame] /\ loc[t] \in Frame
  BY ZenonT(40) DEF TypeOK
<1>2. Same(loc[t], loc[t])
  BY ZenonT(40) DEF Same
<1>3. ASSUME NEW s, Return(t, s)
      PROVE  Same(loc[t], loc'[t]) /\ pc'[t] = "return"
  BY <1>1, <1>3, SameFrame, ZenonT(40) DEF Return, Goto
<1>4. ASSUME NEW label, Resume(t, label)
      PROVE  Same(loc[t], loc'[t]) /\ loc'[t].status = loc[t].status
  <2>1. loc'[t] = [loc[t] EXCEPT !.cur = AnyKey, !.seq = 0]
    BY <1>1, <1>4, ZenonT(40) DEF Resume
  <2> QED
    BY <1>1, <2>1, ZenonT(40) DEF Same, Frame
<1>5. ASSUME NEW label, NEW k, TakeAccess(t, k, loc[t], label)
      PROVE  Same(loc[t], loc'[t]) /\ loc'[t].status = loc[t].status
  <2>1. loc'[t] = [loc[t] EXCEPT !.seq = access_counter, !.cur = k]
    BY <1>1, <1>5, ZenonT(40) DEF TakeAccess
  <2> QED
    BY <1>1, <2>1, ZenonT(40) DEF Same, Frame
<1>6. CASE UNCHANGED loc
  BY <1>2, <1>6, ZenonT(40)
<1>7. CASE Delete(t) \/ DeleteOrder(t) \/ Evict(t) \/ EvictOrder(t)
  BY <1>3, <1>4, <1>6, <1>7, ZenonT(40) DEF Delete, DeleteOrder, Evict, EvictOrder
<1>8. CASE Get(t) \/ GetRecord(t) \/ GetDrop(t)
  BY <1>3, <1>4, <1>6, <1>8, ZenonT(40) DEF Get, GetRecord, GetDrop, EndGet
<1>9. CASE Sweep(t)
  <2>1. CASE EndGet(t)
    BY <1>3, <1>6, <2>1, ZenonT(40) DEF EndGet
  <2>2. CASE \E k \in loc[t].stale :
               loc' = [loc EXCEPT ![t] = [loc[t] EXCEPT !.stale = loc[t].stale \ {k}, !.cur = k]]
    <3>1. PICK k \in loc[t].stale :
            loc'[t] = [loc[t] EXCEPT !.stale = loc[t].stale \ {k}, !.cur = k]
      BY <1>1, <2>2, ZenonT(40)
    <3> QED
      BY <1>1, <3>1, ZenonT(40) DEF Same, Frame
  <2> QED
    BY <1>9, <2>1, <2>2, ZenonT(40) DEF Sweep
<1>10. CASE SweepOrder(t)
  BY <1>4, <1>10, ZenonT(40) DEF SweepOrder
<1>11. CASE EnsureMemory(t) \/ FindLruOrder(t)
  BY <1>6, <1>11, ZenonT(40) DEF EnsureMemory, FindLruOrder
<1>12. CASE FindLruScan(t)
  <2>1. CASE \E k \in find_lru_key : loc' = [loc EXCEPT ![t] = [loc[t] EXCEPT !.cur = k]]
    <3>1. PICK k \in find_lru_key : loc'[t] = [loc[t] EXCEPT !.cur = k]
      BY <1>1, <2>1, ZenonT(40)
    <3> QED
      BY <1>1, <3>1, ZenonT(40) DEF Same, Frame
  <2> QED
    BY <1>6, <1>12, <2>1, ZenonT(40) DEF FindLruScan
<1>13. CASE Check(t) \/ SetLock(t) \/ SetInsert(t) \/ Record(t)
  BY <1>3, <1>5, <1>6, <1>13, ZenonT(40) DEF Check, SetLock, SetInsert, Record, InsertItem
<1>14. CASE SetBuild(t)
  BY <1>1, <1>14, SameFrame, ZenonT(40) DEF SetBuild
<1>15. CASE Cas(t)
  <2>1. CASE loc' = [loc EXCEPT ![t] = [loc[t] EXCEPT !.item = NewItem(t)]]
    BY <1>1, <2>1, SameFrame, ZenonT(40)
  <2> QED
    BY <1>3, <1>15, <2>1, ZenonT(40) DEF Cas
<1>16. CASE CasStore(t) \/ AppendPrepend(t) \/ AppendStore(t)
  BY <1>3, <1>5, <1>6, <1>16, ZenonT(40) DEF CasStore, InsertItem, AppendPrepend, AppendStore, Extend
<1>17. CASE Flush(t) \/ FlushAll(t)
  BY <1>3, <1>6, <1>17, ZenonT(40) DEF Flush, FlushAll
<1> QED
  BY <1>7, <1>8, <1>9, <1>10, <1>11, <1>12, <1>13, <1>14, <1>15, <1>16, <1>17, ZenonT(40) DEF Step

\* Return changes the status and leaves the request alone.
LEMMA ReturnStep ==
  ASSUME TypeOK, NEW t \in Threads, NEW s, Return(t, s)
  PROVE  Same(loc[t], loc'[t]) /\ loc'[t].status = s /\ pc'[t] = "return"
  BY SameFrame, ZenonT(40) DEF Return, Goto, TypeOK

\* A lookup changes what is wanted and what was found.
LEMMA LookupStep ==
  ASSUME TypeOK, NEW t \in Threads, GetNext(t)
  PROVE  /\ loc'[t].op = loc[t].op /\ loc'[t].key = loc[t].key
         /\ loc'[t].token = loc[t].token /\ loc'[t].status = loc[t].status
         /\ pc[t] = "get_next" /\ pc'[t] \in {"get_next", "get_record"}
         /\ \E k \in loc[t].keys :
              /\ loc'[t].keys = loc[t].keys \ {k}
              /\ loc'[t].found = IF Live(k) THEN loc[t].found \cup {<<k, data[k].cas>>}
                                 ELSE loc[t].found
<1>1. /\ pc \in [Threads -> Labels] /\ loc \in [Threads -> Frame] /\ loc[t] \in Frame
  BY ZenonT(40) DEF TypeOK
<1> DEFINE rest(k) == [loc[t] EXCEPT !.keys = loc[t].keys \ {k}]
           add(k) == [rest(k) EXCEPT !.found = rest(k).found \cup {<<k, data[k].cas>>}]
<1>2. PICK k \in loc[t].keys :
        \/ Live(k) /\ TakeAccess(t, k, add(k), "get_record")
        \/ /\ ~Live(k) /\ pc' = pc
           /\ loc' = [loc EXCEPT ![t] =
                        [rest(k) EXCEPT !.stale = IF Exists(k) THEN rest(k).stale \cup {k}
                                                 ELSE rest(k).stale]]
  BY ZenonT(40) DEF GetNext
<1>3. pc[t] = "get_next"
  BY ZenonT(40) DEF GetNext
<1>4. CASE Live(k) /\ TakeAccess(t, k, add(k), "get_record")
  <2>1. loc'[t] = [add(k) EXCEPT !.seq = access_counter, !.cur = k] /\ pc'[t] = "get_record"
    BY <1>1, <1>4, ZenonT(40) DEF TakeAccess, Goto
  <2> QED
    BY <1>1, <1>3, <1>4, <2>1, ZenonT(40) DEF Frame
<1>5. CASE /\ ~Live(k) /\ pc' = pc
           /\ loc' = [loc EXCEPT ![t] =
                        [rest(k) EXCEPT !.stale = IF Exists(k) THEN rest(k).stale \cup {k}
                                                 ELSE rest(k).stale]]
  BY <1>1, <1>3, <1>5, ZenonT(40) DEF Frame
<1> QED
  BY <1>2, <1>4, <1>5, ZenonT(40)

\* A step of t leaves it at a label of its operation.
LEMMA PathStep ==
  ASSUME TypeOK, Paths, Ops \subseteq AtomicOps, NEW t \in Threads, Call(t) \/ Step(t)
  PROVE  OnPath(pc'[t], loc'[t])
<1> USE DEF Goto, Return, Resume, OnPath
<1>1. /\ pc \in [Threads -> Labels] /\ loc \in [Threads -> Frame]
      /\ loc[t] \in Frame /\ OnPath(pc[t], loc[t])
  BY ZenonT(40) DEF TypeOK, Paths
<1>2. CASE Call(t)
  <2>1. PICK r \in Requests :
          /\ pc' = [pc EXCEPT ![t] = Entry(r.op)]
          /\ loc' = [loc EXCEPT ![t] =
                       [NoFrame EXCEPT !.op = r.op, !.key = r.key, !.keys = r.keys,
                          !.size = r.size, !.ttl = r.ttl, !.token = r.token]]
    BY <1>2, ZenonT(40) DEF Call
  <2>2. pc'[t] = Entry(r.op) /\ loc'[t].op = r.op
    BY <1>1, <2>1, ZenonT(40) DEF NoFrame
  <2>3. r.op \in AtomicOps
    BY RequestType, ZenonT(40)
  <2> QED
    BY <2>2, <2>3, ZenonT(40) DEF Entry, AtomicOps
<1>3. CASE GetNext(t)
  BY <1>1, <1>3, LookupStep, ZenonT(40)
<1>4. CASE Done(t)
  BY <1>1, <1>4, ZenonT(40) DEF Done
<1>5. CASE CleanupExpired(t) \/ Cas(t) \/ CasStore(t) \/ Check(t)
  BY <1>1, <1>5, ZenonT(40) DEF CleanupExpired, Cas, CasStore, Check
<1>6. CASE Step(t) /\ ~GetNext(t) /\ ~Done(t) /\ ~CleanupExpired(t) /\ ~Cas(t)
           /\ ~CasStore(t) /\ ~Check(t)
  <2>1. loc'[t].op = loc[t].op /\ loc'[t].keys = loc[t].keys
    BY <1>6, FrameStep, ZenonT(40) DEF Same
  <2> USE <1>1, <2>1
  <2>2. CASE Delete(t) \/ DeleteOrder(t) \/ Evict(t) \/ EvictOrder(t)
    BY <2>2, ZenonT(40) DEF Delete, DeleteOrder, Evict, EvictOrder
  <2>3. CASE Get(t) \/ GetRecord(t) \/ GetDrop(t)
    BY <2>3, ZenonT(40) DEF Get, GetRecord, GetDrop, EndGet
  <2>4. CASE Sweep(t) \/ SweepOrder(t)
    BY <2>4, ZenonT(40) DEF Sweep, SweepOrder, EndGet
  <2>5. CASE EnsureMemory(t) \/ FindLruOrder(t) \/ FindLruScan(t)
    BY <2>5, ZenonT(40) DEF EnsureMemory, FindLruOrder, FindLruScan
  <2>6. CASE SetBuild(t) \/ SetLock(t) \/ SetInsert(t) \/ Record(t)
    BY <2>6, ZenonT(40) DEF SetBuild, SetLock, SetInsert, Record, InsertItem, TakeAccess
  <2>7. CASE AppendPrepend(t) \/ AppendStore(t)
    BY <2>7, ZenonT(40) DEF AppendPrepend, AppendStore, Extend, TakeAccess
  <2>8. CASE Flush(t) \/ FlushAll(t)
    BY <2>8, ZenonT(40) DEF Flush, FlushAll
  <2> QED
    BY <1>6, <2>2, <2>3, <2>4, <2>5, <2>6, <2>7, <2>8, ZenonT(40) DEF Step
<1> QED
  BY <1>2, <1>3, <1>4, <1>5, <1>6, ZenonT(40)

\* What the refinement rests on.
RefInv == TokenInv /\ Paths

\* The invariant holds in every reachable state.
LEMMA RefInvariant ==
  ASSUME Ops \subseteq AtomicOps
  PROVE  Spec => []RefInv
<1>1. Init => Paths
  BY ZenonT(40) DEF Init, Paths, OnPath
<1>2. TypeOK /\ Paths /\ [Next]_vars => Paths'
  <2> SUFFICES ASSUME TypeOK, Paths, [Next]_vars PROVE Paths'
    BY ZenonT(40)
  <2>1. CASE UNCHANGED <<pc, loc>>
    BY <2>1, ZenonT(40) DEF Paths
  <2>2. CASE \E t \in Threads : Call(t) \/ Step(t)
    BY <2>2, PathStep, OthersStep, ZenonT(40) DEF Paths
  <2> QED
    BY <2>1, <2>2, ZenonT(40) DEF Next, Tick, vars
<1> QED
  BY <1>1, <1>2, TypeCorrect, TokenInvariant, PTL DEF Spec, RefInv

-----------------------------------------------------------------------------
(* The abstract store.                                                     *)

\* A key is in the abstract store exactly when its item is live.
LEMMA StoreValue ==
  ASSUME TokenInv
  PROVE  \A k \in Keys : /\ Live(k) => AbstractStore[k] = data[k].cas /\ data[k].cas # 0
                         /\ ~Live(k) => AbstractStore[k] = 0
                         /\ AbstractStore[k] \in Nat /\ AbstractStore[k] < cas_counter
<1>1. \A k \in Keys : Live(k) => data[k].cas \in 1 .. cas_counter - 1
  BY ZenonT(40) DEF TokenInv, TokensUnique, Live
<1>2. cas_counter \in Nat /\ cas_counter >= 1
  BY ZenonT(40) DEF TokenInv, TypeOK
<1> QED
  BY <1>1, <1>2 DEF AbstractStore

\* The abstract store depends on data and the time only.
LEMMA StoreKept ==
  ASSUME UNCHANGED <<data, now>>
  PROVE  AbstractStore' = AbstractStore
  BY ZenonT(40) DEF AbstractStore, Live, Exists, is_expired

\* data.remove forgets the key.
LEMMA StoreRemoved ==
  ASSUME TypeOK, NEW k \in Keys, RemoveItem(k), UNCHANGED now
  PROVE  AbstractStore' = [AbstractStore EXCEPT ![k] = 0]
<1>1. \A j \in Keys : data'[j] = IF j = k THEN NoItem ELSE data[j]
  BY ZenonT(40) DEF RemoveItem, TypeOK
<1>2. ~Live(k)' /\ \A j \in Keys \ {k} : Live(j)' = Live(j) /\ data'[j] = data[j]
  BY <1>1, ZenonT(40) DEF Live, Exists, is_expired
<1> QED
  BY <1>2, ZenonT(40) DEF AbstractStore

\* An insertion changes its key only.
LEMMA StoreInserted ==
  ASSUME TypeOK, NEW k \in Keys, NEW item, data' = [data EXCEPT ![k] = item], UNCHANGED now
  PROVE  /\ AbstractStore' = [AbstractStore EXCEPT ![k] = AbstractStore'[k]]
         /\ AbstractStore'[k] \in {0, item.cas}
<1>1. \A j \in Keys : data'[j] = IF j = k THEN item ELSE data[j]
  BY ZenonT(40) DEF TypeOK
<1>2. \A j \in Keys \ {k} : Live(j)' = Live(j) /\ data'[j] = data[j]
  BY <1>1, ZenonT(40) DEF Live, Exists, is_expired
<1>3. AbstractStore'[k] \in {0, item.cas}
  BY <1>1, ZenonT(40) DEF AbstractStore
<1>4. \A j \in Keys \ {k} : AbstractStore'[j] = AbstractStore[j]
  BY <1>2 DEF AbstractStore
<1>5. /\ AbstractStore = [j \in Keys |-> AbstractStore[j]]
      /\ AbstractStore' = [j \in Keys |-> AbstractStore'[j]]
  BY DEF AbstractStore
<1> HIDE DEF AbstractStore
<1> QED
  BY <1>3, <1>4, <1>5, ZenonT(40)

\* Removal of a key, and the passing of time, are forgetting.
LEMMA RemovalForgets ==
  ASSUME NEW k \in Keys, AbstractStore' = [AbstractStore EXCEPT ![k] = 0],
         AbstractCall' = AbstractCall
  PROVE  C!Forget
<1>1. AbstractStore' = [j \in Keys |-> IF j \in {k} THEN 0 ELSE AbstractStore[j]]
  BY ZenonT(40) DEF AbstractStore
<1>2. {k} \in SUBSET Keys
  BY ZenonT(40)
<1> QED
  BY <1>1, <1>2, ZenonT(40) DEF C!Forget

\* Expiry by the passing of time forgets keys.
LEMMA TickForgets ==
  ASSUME TypeOK, Tick
  PROVE  C!Forget
<1> DEFINE S == {k \in Keys : ~Live(k)'}
<1>1. data' = data /\ now \in Nat /\ now' = now + 1
  BY ZenonT(40) DEF Tick, TypeOK
<1>2. \A k \in Keys : data[k].expires \in Nat
  BY ZenonT(40) DEF TypeOK, Item
<1>3. \A k \in Keys : Live(k)' => Live(k)
  BY <1>1, <1>2 DEF Live, Exists, is_expired
<1>4. AbstractStore' = [k \in Keys |-> IF k \in S THEN 0 ELSE AbstractStore[k]]
  BY <1>1, <1>3, ZenonT(40) DEF AbstractStore
<1>5. AbstractCall' = AbstractCall
  BY ZenonT(40) DEF Tick, AbstractCall
<1>6. S \in SUBSET Keys
  BY ZenonT(40)
<1> QED
  BY <1>4, <1>5, <1>6, ZenonT(40) DEF C!Forget

-----------------------------------------------------------------------------
(* The abstract calls.                                                     *)

\* The phase and the status of each label.
LEMMA Phases ==
  /\ PhaseOf("idle") = "idle" /\ PhaseOf("return") = "done"
  /\ PhaseOf("record") = "done" /\ PhaseOf("delete_order") = "done"
  /\ \A label \in Labels \ {"idle", "return", "record", "delete_order"} :
       PhaseOf(label) = "open"
  /\ \A s : StatusOf("record", s) = "Stored" /\ StatusOf("delete_order", s) = "Deleted"
  /\ \A s : \A label \in Labels \ {"record", "delete_order"} : StatusOf(label, s) = s
  BY ZenonT(40) DEF PhaseOf, StatusOf, Labels

\* Two labels in the middle of a call look the same from outside.
LEMMA OpenLabels ==
  ASSUME NEW a \in Labels \ {"idle", "return", "record", "delete_order"},
         NEW b \in Labels \ {"idle", "return", "record", "delete_order"}, NEW s
  PROVE  PhaseOf(a) = PhaseOf(b) /\ StatusOf(a, s) = StatusOf(b, s)
<1>1. PhaseOf(a) = PhaseOf(b)
  BY Phases, ZenonT(40)
<1>2. a \in Labels \ {"record", "delete_order"} /\ b \in Labels \ {"record", "delete_order"}
  BY ZenonT(40)
<1>3. StatusOf(a, s) = s /\ StatusOf(b, s) = s
  BY <1>2, Phases, ZenonT(40)
<1>4. QED
  BY <1>1, <1>3, ZenonT(40)

\* Only the call of t changes.
LEMMA CallStep ==
  ASSUME TypeOK, NEW t \in Threads, Call(t) \/ Step(t)
  PROVE  AbstractCall' = [AbstractCall EXCEPT ![t] = CallOf(pc'[t], loc'[t])]
<1>1. \A u \in Threads \ {t} : pc'[u] = pc[u] /\ loc'[u] = loc[u]
  BY OthersStep, ZenonT(40)
<1> QED
  BY <1>1, ZenonT(40) DEF AbstractCall

\* A step that keeps request, phase and status keeps the abstract call.
LEMMA CallKept ==
  ASSUME TypeOK, NEW t \in Threads, Step(t), Same(loc[t], loc'[t]),
         loc'[t].status = loc[t].status,
         PhaseOf(pc'[t]) = PhaseOf(pc[t]),
         StatusOf(pc'[t], loc[t].status) = StatusOf(pc[t], loc[t].status)
  PROVE  AbstractCall' = AbstractCall
<1>1. CallOf(pc'[t], loc'[t]) = CallOf(pc[t], loc[t])
  BY ZenonT(40) DEF CallOf, Same
<1>2. AbstractCall' = [AbstractCall EXCEPT ![t] = AbstractCall[t]]
  BY <1>1, CallStep, ZenonT(40) DEF AbstractCall
<1> QED
  BY <1>2, ZenonT(40) DEF AbstractCall

\* A step that gives the call its result is an answer.
LEMMA CallAnswered ==
  ASSUME TypeOK, NEW t \in Threads, Step(t), Same(loc[t], loc'[t]), NEW s,
         PhaseOf(pc'[t]) = "done", StatusOf(pc'[t], loc'[t].status) = s
  PROVE  C!Answer(t, s)
<1>1. CallOf(pc'[t], loc'[t]) = [AbstractCall[t] EXCEPT !.phase = "done", !.status = s]
  <2>1. AbstractCall[t] = CallOf(pc[t], loc[t])
    BY ZenonT(40) DEF AbstractCall
  <2> DEFINE answered ==
        [phase |-> "done", op |-> loc[t].op, key |-> loc[t].key, token |-> loc[t].token,
         want |-> loc[t].keys, found |-> loc[t].found, status |-> s]
  <2>2. [CallOf(pc[t], loc[t]) EXCEPT !.phase = "done", !.status = s] = answered
    <3> DEFINE c == CallOf(pc[t], loc[t])
               x == [c EXCEPT !.phase = "done"]
    <3>1. x = [phase |-> "done", op |-> loc[t].op, key |-> loc[t].key,
               token |-> loc[t].token, want |-> loc[t].keys, found |-> loc[t].found,
               status |-> StatusOf(pc[t], loc[t].status)]
      BY DEF CallOf
    <3>2. [c EXCEPT !.phase = "done", !.status = s] = [x EXCEPT !.status = s]
      <4> HIDE DEF c
      <4> QED
        BY ZenonT(40)
    <3> HIDE DEF x, c
    <3>3. [x EXCEPT !.status = s] = answered
      BY <3>1
    <3> QED
      BY <3>2, <3>3, ZenonT(40) DEF c
  <2>3. CallOf(pc'[t], loc'[t]) = answered
    BY ZenonT(40) DEF CallOf, Same
  <2> QED
    BY <2>1, <2>2, <2>3, ZenonT(40)
<1> QED
  BY <1>1, CallStep, ZenonT(40) DEF C!Answer

\* The call of t is open, with the operation that its label belongs to.
LEMMA OpenCall ==
  ASSUME TypeOK, NEW t \in Threads, pc[t] \notin {"idle", "return", "record", "delete_order"}
  PROVE  /\ C!Open(t, loc[t].op) /\ AbstractCall[t].key = loc[t].key
         /\ AbstractCall[t].want = loc[t].keys /\ AbstractCall[t].found = loc[t].found
<1>1. pc[t] \in Labels
  BY ZenonT(40) DEF TypeOK
<1> QED
  BY <1>1, Phases, ZenonT(40) DEF C!Open, AbstractCall, CallOf

\* A write under a token that no live item has.
LEMMA WriteStep ==
  ASSUME TypeOK, NEW t \in Threads, Step(t), Same(loc[t], loc'[t]), pc'[t] = "record",
         pc[t] \notin {"idle", "return", "record", "delete_order"},
         NEW item, data' = [data EXCEPT ![loc[t].key] = item], UNCHANGED now,
         \A k \in Keys : item.cas # AbstractStore[k]
  PROVE  C!Write(t)
<1>1. C!Answer(t, "Stored")
  BY CallAnswered, Phases
<1>2. loc[t].key \in Keys /\ AbstractCall[t].key = loc[t].key
  BY FrameFields, OpenCall, ZenonT(40)
<1>3. /\ AbstractStore' = [AbstractStore EXCEPT ![loc[t].key] = AbstractStore'[loc[t].key]]
      /\ AbstractStore'[loc[t].key] \in {0, item.cas}
  BY <1>2, StoreInserted, ZenonT(40)
<1>4. /\ AbstractStore' = [AbstractStore EXCEPT ![AbstractCall[t].key] =
                              AbstractStore'[AbstractCall[t].key]]
      /\ \/ AbstractStore'[AbstractCall[t].key] = 0
         \/ \A k \in Keys : AbstractStore'[AbstractCall[t].key] # AbstractStore[k]
  BY <1>2, <1>3, ZenonT(40)
<1> QED
  BY <1>1, <1>4, ZenonT(40) DEF C!Write

-----------------------------------------------------------------------------
(* Every step of Storage is a step of Cache or leaves its state alone.     *)

\* A call is invoked.
LEMMA CallInvokes ==
  ASSUME TypeOK, Ops \subseteq AtomicOps, NEW t \in Threads, Call(t)
  PROVE  C!Invoke(t)
<1>1. PICK r \in Requests :
        /\ pc' = [pc EXCEPT ![t] = Entry(r.op)]
        /\ loc' = [loc EXCEPT ![t] =
                     [NoFrame EXCEPT !.op = r.op, !.key = r.key, !.keys = r.keys,
                        !.size = r.size, !.ttl = r.ttl, !.token = r.token]]
  BY ZenonT(40) DEF Call, Goto
<1>2. pc'[t] = Entry(r.op) /\ loc'[t].status = "none" /\ loc'[t].found = {}
  BY <1>1, ZenonT(40) DEF NoFrame, TypeOK
<1>3. Entry(r.op) \in AtomicOps
  BY RequestType, ZenonT(40) DEF Entry, AtomicOps
<1>4. PhaseOf(pc'[t]) = "open" /\ \A s : StatusOf(pc'[t], s) = s
  BY <1>2, <1>3, Phases DEF AtomicOps, Labels
<1>5. /\ AbstractCall' = [AbstractCall EXCEPT ![t] = CallOf(pc'[t], loc'[t])]
      /\ AbstractCall'[t] = CallOf(pc'[t], loc'[t])
  BY CallStep, ZenonT(40) DEF AbstractCall
<1>6. AbstractCall'[t].phase = "open" /\ AbstractCall'[t].status = "none"
      /\ AbstractCall'[t].found = {}
  BY <1>2, <1>4, <1>5 DEF CallOf
<1>7. AbstractCall[t].phase = "idle"
  BY Phases, ZenonT(40) DEF Call, AbstractCall, CallOf
<1>8. AbstractStore' = AbstractStore
  BY StoreKept, ZenonT(40) DEF Call
<1> QED
  BY <1>5, <1>6, <1>7, <1>8, ZenonT(40) DEF C!Invoke

\* A return is the reply.
LEMMA DoneReplies ==
  ASSUME TypeOK, NEW t \in Threads, Done(t)
  PROVE  C!Reply(t)
<1>1. pc'[t] = "idle" /\ loc'[t] = NoFrame
  BY ZenonT(40) DEF Done, Goto, TypeOK
<1>2. CallOf("idle", NoFrame) = C!Idle
  BY Phases, ZenonT(40) DEF CallOf, NoFrame, C!Idle, AnyKey, Labels
<1>3. AbstractCall' = [AbstractCall EXCEPT ![t] = C!Idle]
  BY <1>1, <1>2, CallStep, ZenonT(40) DEF Step
<1>4. AbstractCall[t].phase = "done"
  BY Phases, ZenonT(40) DEF Done, AbstractCall, CallOf
<1>5. AbstractStore' = AbstractStore
  BY StoreKept, ZenonT(40) DEF Done
<1> QED
  BY <1>3, <1>4, <1>5, ZenonT(40) DEF C!Reply

\* get reads one key under the lock.
LEMMA GetNextLooksUp ==
  ASSUME RefInv, NEW t \in Threads, GetNext(t)
  PROVE  C!Lookup(t)
<1>1. TypeOK /\ TokenInv /\ OnPath(pc[t], loc[t])
  BY ZenonT(40) DEF RefInv, TokenInv, Paths
<1>2. PICK k \in loc[t].keys :
        /\ loc'[t].keys = loc[t].keys \ {k}
        /\ loc'[t].found = IF Live(k) THEN loc[t].found \cup {<<k, data[k].cas>>}
                           ELSE loc[t].found
  BY <1>1, LookupStep, ZenonT(40)
<1>3. /\ loc'[t].op = loc[t].op /\ loc'[t].key = loc[t].key
      /\ loc'[t].token = loc[t].token /\ loc'[t].status = loc[t].status
      /\ pc[t] = "get_next" /\ pc'[t] \in {"get_next", "get_record"}
  BY <1>1, LookupStep, ZenonT(40)
<1>4. k \in Keys
  BY <1>1, FrameFields, ZenonT(40)
<1> DEFINE wanted == loc[t].keys \ {k}
           found == IF AbstractStore[k] = 0 THEN loc[t].found
                    ELSE loc[t].found \cup {<<k, AbstractStore[k]>>}
           after == [phase |-> "open", op |-> loc[t].op, key |-> loc[t].key,
                     token |-> loc[t].token, want |-> wanted, found |-> found,
                     status |-> loc[t].status]
<1>5. loc'[t].found = found
  BY <1>1, <1>2, <1>4, StoreValue, ZenonT(40)
<1> HIDE DEF found, wanted
<1>6. CallOf(pc'[t], loc'[t]) = after
  <2>1. PhaseOf(pc'[t]) = "open" /\ StatusOf(pc'[t], loc'[t].status) = loc[t].status
    BY <1>3, Phases DEF Labels
  <2>2. loc'[t].keys = wanted
    BY <1>2, ZenonT(40) DEF wanted
  <2> QED
    BY <1>3, <1>5, <2>1, <2>2, ZenonT(40) DEF CallOf
<1>7. AbstractCall[t] = [phase |-> "open", op |-> loc[t].op, key |-> loc[t].key,
                         token |-> loc[t].token, want |-> loc[t].keys,
                         found |-> loc[t].found, status |-> loc[t].status]
  BY <1>3, Phases DEF AbstractCall, CallOf, Labels
<1>8. [AbstractCall[t] EXCEPT !.want = wanted, !.found = found] = after
  <2> DEFINE c == AbstractCall[t]
             x == [c EXCEPT !.want = wanted]
  <2>1. x = [phase |-> "open", op |-> loc[t].op, key |-> loc[t].key,
             token |-> loc[t].token, want |-> wanted,
             found |-> loc[t].found, status |-> loc[t].status]
    BY <1>7
  <2>2. [c EXCEPT !.want = wanted, !.found = found] = [x EXCEPT !.found = found]
    <3> HIDE DEF c
    <3> QED
      BY ZenonT(40)
  <2> HIDE DEF x, c
  <2>3. [x EXCEPT !.found = found] = after
    BY <2>1
  <2> QED
    BY <2>2, <2>3, ZenonT(40) DEF c
<1>9. /\ AbstractCall[t].want = loc[t].keys /\ AbstractCall[t].found = loc[t].found
      /\ C!Open(t, "get")
  BY <1>1, <1>3, OpenCall, ZenonT(40) DEF OnPath
<1>10. AbstractCall' = [AbstractCall EXCEPT ![t] =
                          [AbstractCall[t] EXCEPT !.want = wanted, !.found = found]]
  BY <1>1, <1>6, <1>8, CallStep, ZenonT(40) DEF Step
<1>11. AbstractStore' = AbstractStore
  BY StoreKept, ZenonT(40) DEF GetNext
<1>12. /\ wanted = AbstractCall[t].want \ {k}
       /\ found = IF AbstractStore[k] = 0 THEN AbstractCall[t].found
                  ELSE AbstractCall[t].found \cup {<<k, AbstractStore[k]>>}
  BY <1>9, ZenonT(40) DEF wanted, found
<1>13. \E j \in AbstractCall[t].want :
         AbstractCall' = [AbstractCall EXCEPT ![t] =
           [AbstractCall[t] EXCEPT !.want = AbstractCall[t].want \ {j},
              !.found = IF AbstractStore[j] = 0 THEN AbstractCall[t].found
                        ELSE AbstractCall[t].found \cup {<<j, AbstractStore[j]>>}]]
  <2>1. k \in AbstractCall[t].want
    BY <1>9, ZenonT(40)
  <2> QED
    BY <1>10, <1>12, <2>1, ZenonT(40)
<1> QED
  BY <1>9, <1>11, <1>13, ZenonT(40) DEF C!Lookup

\* Steps that neither write `data` nor give the call its result.
LEMMA InnerStutters ==
  ASSUME RefInv, NEW t \in Threads,
         \/ DeleteOrder(t) \/ Get(t) \/ GetRecord(t) \/ SweepOrder(t) \/ EnsureMemory(t)
         \/ FindLruOrder(t) \/ FindLruScan(t) \/ EvictOrder(t) \/ SetBuild(t)
         \/ SetLock(t) \/ Record(t) \/ Flush(t)
  PROVE  UNCHANGED <<AbstractStore, AbstractCall>>
<1> DEFINE opens == Labels \ {"idle", "return", "record", "delete_order"}
<1>1. TypeOK /\ Step(t) /\ pc \in [Threads -> Labels]
  BY ZenonT(40) DEF RefInv, TokenInv, TypeOK, Step
<1>2. AbstractStore' = AbstractStore
  BY StoreKept, ZenonT(40)
     DEF DeleteOrder, Get, GetRecord, SweepOrder, EnsureMemory, FindLruOrder,
         FindLruScan, EvictOrder, SetBuild, SetLock, Record, Flush
<1>3. ASSUME pc[t] \in opens, pc'[t] \in opens, ~Done(t), ~GetNext(t), ~CleanupExpired(t)
      PROVE  AbstractCall' = AbstractCall
  <2>1. Same(loc[t], loc'[t]) /\ loc'[t].status = loc[t].status
    BY <1>1, <1>3, FrameStep, ZenonT(40)
  <2>2. /\ PhaseOf(pc'[t]) = PhaseOf(pc[t])
        /\ StatusOf(pc'[t], loc[t].status) = StatusOf(pc[t], loc[t].status)
    BY <1>3, OpenLabels, ZenonT(40)
  <2> QED
    BY <1>1, <2>1, <2>2, CallKept, ZenonT(40)
<1>4. CASE Get(t) \/ GetRecord(t) \/ SweepOrder(t) \/ EnsureMemory(t)
  <2>1. pc[t] \in opens /\ pc'[t] \in opens /\ pc[t] \in {"get", "get_record", "sweep_order", "ensure"}
    BY <1>1, <1>4, ZenonT(40) DEF Get, GetRecord, SweepOrder, EnsureMemory, Resume, Goto, Labels
  <2> QED
    BY <1>2, <1>3, <2>1, ZenonT(40) DEF Done, GetNext, CleanupExpired
<1>5. CASE FindLruOrder(t) \/ FindLruScan(t) \/ EvictOrder(t)
  <2>1. pc[t] \in opens /\ pc'[t] \in opens /\ pc[t] \in {"find", "scan", "evict_order"}
    BY <1>1, <1>5, ZenonT(40) DEF FindLruOrder, FindLruScan, EvictOrder, Resume, Goto, Labels
  <2> QED
    BY <1>2, <1>3, <2>1, ZenonT(40) DEF Done, GetNext, CleanupExpired
<1>6. CASE SetBuild(t) \/ SetLock(t) \/ Flush(t)
  <2>1. pc[t] \in opens /\ pc'[t] \in opens /\ pc[t] \in {"set", "store", "flush"}
    BY <1>1, <1>6, ZenonT(40) DEF SetBuild, SetLock, Flush, Goto, Labels
  <2> QED
    BY <1>2, <1>3, <2>1, ZenonT(40) DEF Done, GetNext, CleanupExpired
<1>7. ASSUME NEW status, Return(t, status),
             \/ pc[t] = "record" /\ status = "Stored"
             \/ pc[t] = "delete_order" /\ status = "Deleted"
      PROVE  AbstractCall' = AbstractCall
  <2>1. Same(loc[t], loc'[t]) /\ loc'[t].status = status /\ pc'[t] = "return"
    BY <1>1, <1>7, ReturnStep, ZenonT(40)
  <2>2. /\ PhaseOf(pc'[t]) = PhaseOf(pc[t])
        /\ StatusOf(pc'[t], loc'[t].status) = StatusOf(pc[t], loc[t].status)
    BY <1>7, <2>1, Phases DEF Labels
  <2>3. CallOf(pc'[t], loc'[t]) = CallOf(pc[t], loc[t])
    BY <2>1, <2>2, ZenonT(40) DEF CallOf, Same
  <2>4. AbstractCall' = [AbstractCall EXCEPT ![t] = AbstractCall[t]]
    BY <1>1, <2>3, CallStep, ZenonT(40) DEF AbstractCall
  <2> QED
    BY <2>4, ZenonT(40) DEF AbstractCall
<1>8. CASE Record(t)
  <2>1. pc[t] = "record" /\ Return(t, "Stored")
    BY <1>8, ZenonT(40) DEF Record
  <2>2. AbstractCall' = AbstractCall
    BY <1>7, <2>1, ZenonT(40)
  <2> QED
    BY <1>2, <2>2, ZenonT(40)
<1>9. CASE DeleteOrder(t)
  BY <1>2, <1>7, <1>9, ZenonT(40) DEF DeleteOrder
<1> QED
  BY <1>4, <1>5, <1>6, <1>8, <1>9, ZenonT(40)

\* The end of a get.
LEMMA EndGetAnswers ==
  ASSUME RefInv, NEW t \in Threads, Step(t), EndGet(t), UNCHANGED <<data, now>>,
         pc[t] \in {"get_next", "sweep"}, loc[t].keys = {}
  PROVE  C!GetAll(t)
<1>1. TypeOK /\ loc[t].op = "get"
  BY ZenonT(40) DEF RefInv, TokenInv, Paths, OnPath
<1>2. Return(t, "Items")
  BY <1>1, ZenonT(40) DEF EndGet
<1>3. Same(loc[t], loc'[t]) /\ loc'[t].status = "Items" /\ pc'[t] = "return"
  BY <1>1, <1>2, ReturnStep, ZenonT(40)
<1>4. C!Answer(t, "Items")
  BY <1>1, <1>3, CallAnswered, Phases DEF Labels
<1>5. C!Open(t, "get") /\ AbstractCall[t].want = {}
  BY <1>1, OpenCall, ZenonT(40)
<1>6. AbstractStore' = AbstractStore
  BY StoreKept, ZenonT(40)
<1> QED
  BY <1>4, <1>5, <1>6, ZenonT(40) DEF C!GetAll, C!Refuse

\* get answers, or goes on to delete what it saw expired.
LEMMA GetDropRefines ==
  ASSUME RefInv, NEW t \in Threads, GetDrop(t)
  PROVE  C!GetAll(t) \/ UNCHANGED <<AbstractStore, AbstractCall>>
<1>1. TypeOK /\ Step(t) /\ pc[t] = "get_next" /\ loc[t].keys = {} /\ UNCHANGED <<data, now>>
      /\ pc \in [Threads -> Labels]
  BY ZenonT(40) DEF RefInv, TokenInv, TypeOK, Step, GetDrop
<1>2. CASE EndGet(t)
  BY <1>1, <1>2, EndGetAnswers, ZenonT(40)
<1>3. CASE Goto(t, "sweep") /\ UNCHANGED loc
  <2>1. Same(loc[t], loc'[t]) /\ loc'[t].status = loc[t].status /\ pc'[t] = "sweep"
    BY <1>1, <1>3, ZenonT(40) DEF Same, Goto
  <2>2. /\ PhaseOf(pc'[t]) = PhaseOf(pc[t])
        /\ StatusOf(pc'[t], loc[t].status) = StatusOf(pc[t], loc[t].status)
    BY <1>1, <2>1, Phases DEF Labels
  <2>3. AbstractCall' = AbstractCall
    BY <1>1, <2>1, <2>2, CallKept, ZenonT(40)
  <2> QED
    BY <1>1, <2>3, StoreKept, ZenonT(40)
<1> QED
  BY <1>2, <1>3, ZenonT(40) DEF GetDrop

\* The removal of an expired key, or the end of the get.
LEMMA SweepRefines ==
  ASSUME RefInv, NEW t \in Threads, Sweep(t)
  PROVE  C!GetAll(t) \/ C!Forget
<1>1. /\ TypeOK /\ Step(t) /\ pc[t] = "sweep" /\ loc[t].keys = {} /\ UNCHANGED now
      /\ pc \in [Threads -> Labels] /\ loc[t].stale \in SUBSET Keys
  BY FrameFields, ZenonT(40) DEF RefInv, TokenInv, TypeOK, Step, Sweep, Paths, OnPath
<1>2. CASE EndGet(t) /\ UNCHANGED <<data, memory_used>>
  BY <1>1, <1>2, EndGetAnswers, ZenonT(40)
<1>3. CASE \E k \in loc[t].stale :
             RemoveItem(k) /\ Goto(t, IF Exists(k) THEN "sweep_order" ELSE "sweep")
  <2>1. PICK k \in loc[t].stale :
          RemoveItem(k) /\ Goto(t, IF Exists(k) THEN "sweep_order" ELSE "sweep")
    BY <1>3, ZenonT(40)
  <2>2. pc'[t] \in {"sweep", "sweep_order"}
    BY <1>1, <2>1, ZenonT(40) DEF Goto
  <2>3. Same(loc[t], loc'[t]) /\ loc'[t].status = loc[t].status
    BY <1>1, <2>2, FrameStep, ZenonT(40) DEF Done, GetNext, CleanupExpired
  <2>4. /\ PhaseOf(pc'[t]) = PhaseOf(pc[t])
        /\ StatusOf(pc'[t], loc[t].status) = StatusOf(pc[t], loc[t].status)
    BY <1>1, <2>2, Phases DEF Labels
  <2>5. AbstractCall' = AbstractCall
    BY <1>1, <2>3, <2>4, CallKept, ZenonT(40)
  <2>6. k \in Keys /\ AbstractStore' = [AbstractStore EXCEPT ![k] = 0]
    BY <1>1, <2>1, StoreRemoved, ZenonT(40)
  <2> QED
    BY <2>5, <2>6, RemovalForgets, ZenonT(40)
<1> QED
  BY <1>2, <1>3, ZenonT(40) DEF Sweep

\* An eviction forgets a key.
LEMMA EvictForgets ==
  ASSUME RefInv, NEW t \in Threads, Evict(t)
  PROVE  C!Forget
<1>1. /\ TypeOK /\ Step(t) /\ pc[t] = "evict" /\ UNCHANGED <<now, loc>>
      /\ pc \in [Threads -> Labels] /\ loc[t].cur \in Keys /\ RemoveItem(loc[t].cur)
  BY FrameFields, ZenonT(40) DEF RefInv, TokenInv, TypeOK, Step, Evict
<1>2. pc'[t] \in {"evict_order", "ensure"}
  BY <1>1, ZenonT(40) DEF Evict, Goto
<1>3. Same(loc[t], loc'[t]) /\ loc'[t].status = loc[t].status
  BY <1>1, ZenonT(40) DEF Same
<1>4. /\ PhaseOf(pc'[t]) = PhaseOf(pc[t])
      /\ StatusOf(pc'[t], loc[t].status) = StatusOf(pc[t], loc[t].status)
  BY <1>1, <1>2, Phases DEF Labels
<1>5. AbstractCall' = AbstractCall
  BY <1>1, <1>3, <1>4, CallKept, ZenonT(40)
<1>6. AbstractStore' = [AbstractStore EXCEPT ![loc[t].cur] = 0]
  BY <1>1, StoreRemoved, ZenonT(40)
<1> QED
  BY <1>1, <1>5, <1>6, RemovalForgets, ZenonT(40)

\* delete takes effect when it removes the item.
LEMMA DeleteRefines ==
  ASSUME RefInv, NEW t \in Threads, Delete(t)
  PROVE  C!Delete(t)
<1>1. /\ TypeOK /\ TokenInv /\ Step(t) /\ pc[t] = "delete" /\ UNCHANGED now
      /\ pc \in [Threads -> Labels] /\ loc[t].key \in Keys /\ RemoveItem(loc[t].key)
      /\ loc[t].op = "delete"
  BY FrameFields, ZenonT(40) DEF RefInv, TokenInv, TypeOK, Step, Delete, Paths, OnPath
<1>2. C!Open(t, "delete") /\ AbstractCall[t].key = loc[t].key
  BY <1>1, OpenCall, ZenonT(40)
<1>3. AbstractStore' = [AbstractStore EXCEPT ![AbstractCall[t].key] = 0]
  BY <1>1, <1>2, StoreRemoved, ZenonT(40)
<1>4. CASE Goto(t, "delete_order") /\ UNCHANGED loc
  <2>1. pc'[t] = "delete_order" /\ Same(loc[t], loc'[t])
    BY <1>1, <1>4, ZenonT(40) DEF Goto, Same
  <2>2. C!Answer(t, "Deleted")
    BY <1>1, <2>1, CallAnswered, Phases
  <2> QED
    BY <1>2, <1>3, <2>2, ZenonT(40) DEF C!Delete
<1>5. CASE ~Exists(loc[t].key) /\ Return(t, "NotFound")
  <2>1. Same(loc[t], loc'[t]) /\ loc'[t].status = "NotFound" /\ pc'[t] = "return"
    BY <1>1, <1>5, ReturnStep, ZenonT(40)
  <2>2. C!Answer(t, "NotFound")
    BY <1>1, <2>1, CallAnswered, Phases, ZenonT(40) DEF Labels
  <2>3. AbstractStore[AbstractCall[t].key] = 0
    BY <1>1, <1>2, <1>5, StoreValue, ZenonT(40) DEF Live
  <2> QED
    BY <1>2, <1>3, <2>2, <2>3, ZenonT(40) DEF C!Delete
<1> QED
  BY <1>4, <1>5, ZenonT(40) DEF Delete

\* set takes effect when it inserts the item.
LEMMA SetInsertRefines ==
  ASSUME RefInv, NEW t \in Threads, SetInsert(t)
  PROVE  C!Set(t)
<1>1. /\ TypeOK /\ TokenInv /\ Step(t) /\ pc[t] = "insert" /\ UNCHANGED now
      /\ pc \in [Threads -> Labels] /\ loc[t].op = "set"
      /\ data' = [data EXCEPT ![loc[t].key] = loc[t].item]
      /\ TakeAccess(t, loc[t].key, loc[t], "record")
  BY ZenonT(40) DEF RefInv, TokenInv, TypeOK, Step, SetInsert, InsertItem, Paths, OnPath
<1>2. pc'[t] = "record"
  BY <1>1, ZenonT(40) DEF TakeAccess, Goto
<1>3. Same(loc[t], loc'[t])
  BY <1>1, <1>2, FrameStep, ZenonT(40) DEF Done, GetNext, CleanupExpired
<1>4. \A k \in Keys : loc[t].item.cas # AbstractStore[k]
  <2>1. Pending(t)
    BY <1>1, ZenonT(40) DEF Pending
  <2>2. loc[t].item.cas # 0 /\ \A k \in Keys : data[k].cas # loc[t].item.cas
    BY <1>1, <2>1 DEF TokenInv, TokensUnique
  <2> QED
    BY <1>1, <2>2, StoreValue, ZenonT(40)
<1>5. C!Write(t)
  BY <1>1, <1>2, <1>3, <1>4, WriteStep, ZenonT(40)
<1> QED
  BY <1>1, <1>5, OpenCall, ZenonT(40) DEF C!Set

\* append extends a live item, or finds that there is none.
LEMMA ExtendRefines ==
  ASSUME RefInv, NEW t \in Threads, Step(t), Extend(t), UNCHANGED now,
         pc[t] \in {"append", "store"}, loc[t].op = "append", Live(loc[t].key)
  PROVE  C!Append(t)
<1> DEFINE k == loc[t].key
           item == [size |-> memory_size(k) + loc[t].size,
                    expires |-> data[k].expires, cas |-> cas_counter]
<1>1. /\ TypeOK /\ TokenInv /\ pc \in [Threads -> Labels] /\ k \in Keys
      /\ data' = [data EXCEPT ![k] = item] /\ TakeAccess(t, k, loc[t], "record")
  BY FrameFields, ZenonT(40) DEF RefInv, TokenInv, TypeOK, Extend
<1>2. pc'[t] = "record"
  BY <1>1, ZenonT(40) DEF TakeAccess, Goto
<1>3. Same(loc[t], loc'[t])
  BY <1>1, <1>2, FrameStep, ZenonT(40) DEF Done, GetNext, CleanupExpired
<1>4. item.cas = cas_counter
  BY ZenonT(40)
<1>5. \A j \in Keys : item.cas # AbstractStore[j]
  BY <1>1, <1>4, StoreValue
<1> HIDE DEF item
<1>6. C!Write(t)
  BY <1>1, <1>2, <1>3, <1>5, WriteStep, ZenonT(40)
<1>7. AbstractStore[k] # 0
  BY <1>1, StoreValue, ZenonT(40)
<1>8. C!Open(t, "append") /\ AbstractCall[t].key = k
  BY <1>1, OpenCall, ZenonT(40)
<1> QED
  BY <1>6, <1>7, <1>8, ZenonT(40) DEF C!Append

\* append refuses when there is no live item.
LEMMA AppendRefused ==
  ASSUME RefInv, NEW t \in Threads, Step(t), Return(t, "NotStored"),
         AbstractStore' = AbstractStore,
         pc[t] \in {"append", "store"}, loc[t].op = "append", ~Live(loc[t].key)
  PROVE  C!Append(t)
<1>1. TypeOK /\ TokenInv /\ loc[t].key \in Keys
  BY FrameFields, ZenonT(40) DEF RefInv, TokenInv
<1>2. Same(loc[t], loc'[t]) /\ loc'[t].status = "NotStored" /\ pc'[t] = "return"
  BY <1>1, ReturnStep, ZenonT(40)
<1>3. C!Answer(t, "NotStored")
  BY <1>1, <1>2, CallAnswered, Phases DEF Labels
<1>4. C!Open(t, "append") /\ AbstractCall[t].key = loc[t].key
  BY <1>1, OpenCall, ZenonT(40)
<1>5. AbstractStore[AbstractCall[t].key] = 0
  BY <1>1, <1>4, StoreValue, ZenonT(40)
<1> QED
  BY <1>3, <1>4, <1>5, ZenonT(40) DEF C!Append, C!Refuse

\* append and prepend take effect when they extend the item, also after an eviction.
LEMMA AppendRefines ==
  ASSUME RefInv, NEW t \in Threads, AppendPrepend(t) \/ AppendStore(t)
  PROVE  C!Append(t) \/ UNCHANGED <<AbstractStore, AbstractCall>>
<1>1. /\ TypeOK /\ TokenInv /\ Step(t) /\ pc[t] \in {"append", "store"} /\ UNCHANGED now
      /\ pc \in [Threads -> Labels] /\ loc[t].key \in Keys /\ loc[t].op = "append"
  BY FrameFields, ZenonT(40)
     DEF RefInv, TokenInv, TypeOK, Step, AppendPrepend, AppendStore, Paths, OnPath
<1>2. CASE Live(loc[t].key) /\ Extend(t)
  BY <1>1, <1>2, ExtendRefines, ZenonT(40)
<1>3. CASE ~Live(loc[t].key) /\ Return(t, "NotStored") /\ UNCHANGED data
  BY <1>1, <1>3, StoreKept, AppendRefused, ZenonT(40)
<1>4. CASE is_expired(loc[t].key) /\ RemoveItem(loc[t].key) /\ Return(t, "NotStored")
  <2>1. ~Live(loc[t].key)
    BY <1>4, ZenonT(40) DEF Live
  <2>2. AbstractStore' = [AbstractStore EXCEPT ![loc[t].key] = 0]
    BY <1>1, <1>4, StoreRemoved, ZenonT(40)
  <2>3. AbstractStore[loc[t].key] = 0
    BY <1>1, <2>1, StoreValue, ZenonT(40)
  <2>4. AbstractStore' = AbstractStore
    BY <1>1, <2>2, <2>3, ZenonT(40) DEF AbstractStore
  <2> QED
    BY <1>1, <1>4, <2>1, <2>4, AppendRefused, ZenonT(40)
<1>5. CASE pc[t] = "append" /\ Goto(t, "ensure") /\ UNCHANGED <<data, loc>>
  <2>1. Same(loc[t], loc'[t]) /\ loc'[t].status = loc[t].status /\ pc'[t] = "ensure"
    BY <1>1, <1>5, ZenonT(40) DEF Same, Goto
  <2>2. /\ PhaseOf(pc'[t]) = PhaseOf(pc[t])
        /\ StatusOf(pc'[t], loc[t].status) = StatusOf(pc[t], loc[t].status)
    BY <1>5, <2>1, Phases DEF Labels
  <2>3. AbstractCall' = AbstractCall
    BY <1>1, <2>1, <2>2, CallKept, ZenonT(40)
  <2> QED
    BY <1>1, <1>5, <2>3, StoreKept, ZenonT(40)
<1>6. CASE AppendPrepend(t)
  BY <1>2, <1>3, <1>4, <1>5, <1>6, ZenonT(40) DEF AppendPrepend, Live
<1>7. CASE AppendStore(t)
  BY <1>2, <1>3, <1>7, ZenonT(40) DEF AppendStore
<1> QED
  BY <1>6, <1>7, ZenonT(40)

\* flush_all takes effect when it clears the data.
LEMMA FlushRefines ==
  ASSUME RefInv, NEW t \in Threads, FlushAll(t)
  PROVE  C!FlushAll(t)
<1>1. /\ TypeOK /\ Step(t) /\ pc[t] = "flush_order" /\ loc[t].op = "flush"
      /\ data' = [k \in Keys |-> NoItem] /\ Return(t, "Ok")
  BY ZenonT(40) DEF RefInv, TokenInv, Step, FlushAll, Paths, OnPath
<1>2. AbstractStore' = [k \in Keys |-> 0]
  BY <1>1, ZenonT(40) DEF AbstractStore, Live, Exists
<1>3. Same(loc[t], loc'[t]) /\ loc'[t].status = "Ok" /\ pc'[t] = "return"
  BY <1>1, ReturnStep, ZenonT(40)
<1>4. C!Answer(t, "Ok")
  BY <1>1, <1>3, CallAnswered, Phases DEF Labels
<1> QED
  BY <1>1, <1>2, <1>4, OpenCall, ZenonT(40) DEF C!FlushAll

-----------------------------------------------------------------------------
(* The refinement.                                                         *)

\* An empty storage is an empty cache.
LEMMA InitRefines == Init => C!CInit
<1> SUFFICES ASSUME Init PROVE C!CInit
  BY ZenonT(40)
<1>1. AbstractStore = [k \in Keys |-> 0]
  BY ZenonT(40) DEF Init, AbstractStore, Live, Exists
<1>2. CallOf("idle", NoFrame) = C!Idle
  BY Phases, ZenonT(40) DEF CallOf, NoFrame, C!Idle, AnyKey, Labels
<1>3. AbstractCall = [t \in Threads |-> C!Idle]
  BY <1>2, ZenonT(40) DEF Init, AbstractCall
<1> QED
  BY <1>1, <1>3, ZenonT(40) DEF C!CInit

\* Every step of the storage is a step of the cache or changes nothing there.
LEMMA StepRefines ==
  ASSUME RefInv, Ops \subseteq AtomicOps, [Next]_vars
  PROVE  [C!CNext]_(C!cvars)
<1>1. TypeOK /\ Paths
  BY ZenonT(40) DEF RefInv, TokenInv
<1>2. CASE UNCHANGED vars
  BY <1>2, ZenonT(40) DEF vars, C!cvars, AbstractStore, AbstractCall, Live, Exists, is_expired
<1>3. CASE Tick
  BY <1>1, <1>3, TickForgets, ZenonT(40) DEF C!CNext
<1>4. ASSUME NEW t \in Threads, Call(t)
      PROVE  C!CNext
  BY <1>1, <1>4, CallInvokes, ZenonT(40) DEF C!CNext
<1>5. ASSUME NEW t \in Threads, Step(t)
      PROVE  C!CNext \/ UNCHANGED C!cvars
  <2>1. CASE \/ DeleteOrder(t) \/ Get(t) \/ GetRecord(t) \/ SweepOrder(t)
             \/ EnsureMemory(t) \/ FindLruOrder(t) \/ FindLruScan(t) \/ EvictOrder(t)
             \/ SetBuild(t) \/ SetLock(t) \/ Record(t) \/ Flush(t)
    BY <2>1, InnerStutters, ZenonT(40) DEF C!cvars
  <2>2. CASE Done(t) \/ GetNext(t)
    BY <1>1, <2>2, DoneReplies, GetNextLooksUp, ZenonT(40) DEF C!CNext
  <2>3. CASE GetDrop(t) \/ Sweep(t)
    BY <2>3, GetDropRefines, SweepRefines, ZenonT(40) DEF C!CNext, C!cvars
  <2>4. CASE Evict(t) \/ Delete(t) \/ SetInsert(t)
    BY <2>4, EvictForgets, DeleteRefines, SetInsertRefines, ZenonT(40) DEF C!CNext
  <2>5. CASE AppendPrepend(t) \/ AppendStore(t)
    BY <2>5, AppendRefines, ZenonT(40) DEF C!CNext, C!cvars
  <2>6. CASE FlushAll(t)
    BY <2>6, FlushRefines, ZenonT(40) DEF C!CNext
  <2>7. CASE CleanupExpired(t) \/ Check(t) \/ Cas(t) \/ CasStore(t)
    BY <1>1, <2>7, ZenonT(40) DEF Paths, OnPath, CleanupExpired, Check, Cas, CasStore
  <2> QED
    BY <1>5, <2>1, <2>2, <2>3, <2>4, <2>5, <2>6, <2>7, ZenonT(40) DEF Step
<1> QED
  BY <1>2, <1>3, <1>4, <1>5, ZenonT(40) DEF Next

\* get, get_multi, set, append, prepend, delete and flush_all are atomic for any
\* number of threads and keys, any sizes and any limits: every behaviour of the
\* locks and atomics in storage.rs is a behaviour of Cache.
THEOREM Atomicity ==
  ASSUME Ops \subseteq AtomicOps
  PROVE  Spec => ImplementsCache
<1>1. RefInv /\ [Next]_vars => [C!CNext]_(C!cvars)
  BY StepRefines, ZenonT(40)
<1>2. Spec => []RefInv
  BY RefInvariant, ZenonT(40)
<1> QED
  BY <1>1, <1>2, InitRefines, PTL DEF Spec, ImplementsCache, C!CSpec

=============================================================================
