------------------------------ MODULE Storage ------------------------------
(***************************************************************************)
(* The shared cache of grow-a-cache (src/storage.rs), as the worker        *)
(* threads execute it.  Storage has two reader-writer locks, `data` and    *)
(* `access_order`, and three atomics.  A step of a thread runs from one    *)
(* acquisition of a lock (or one access to an atomic made outside a lock)  *)
(* to the next, so every interleaving the locks allow is a behaviour.      *)
(*                                                                         *)
(* Data abstraction.  A CacheItem is its size (memory_size() + key.len()), *)
(* its expiry and its CAS token; tokens are never reused (TokensUnique),   *)
(* so the token also names the value.  Sizes and times are numbers, flags  *)
(* and last_accessed (never read by the code) are left out.  Which locks a *)
(* thread holds is a function of its program counter.                      *)
(***************************************************************************)
EXTENDS Integers, FiniteSets, Functions

CONSTANTS
  Threads,     \* worker threads that share the Storage
  Keys,
  Ops,         \* the operations clients issue, a subset of AllOps
  Sizes,       \* sizes of new items, or of the bytes append adds
  Ttls,        \* exptime arguments, 0 meaning "use the default"
  MaxMemory,   \* max_memory
  DefaultTtl,  \* default_ttl, 0 meaning no expiry
  Word,        \* 2^64 in the code: memory_used is an AtomicU64
  MaxToken,    \* bound: no call starts once this many tokens were issued
  MaxAccess,   \* bound: no call starts once this many accesses were recorded
  MaxTime      \* bound on the clock

AllOps == {"get", "set", "add", "replace", "cas", "delete", "append", "incr",
           "flush", "cleanup"}

ASSUME StorageAssumption ==
  /\ Threads # {} /\ Keys # {}
  /\ Ops \subseteq AllOps
  /\ Sizes \subseteq Nat \ {0}
  /\ Ttls \subseteq Nat
  /\ MaxMemory \in Nat /\ DefaultTtl \in Nat /\ MaxToken \in Nat
  /\ MaxAccess \in Nat /\ MaxTime \in Nat
  /\ Word \in Nat \ {0}

VARIABLES
  data,            \* RwLock<HashMap<String, CacheItem>>
  access_order,    \* RwLock<HashMap<String, u64>>
  memory_used,     \* AtomicU64
  cas_counter,     \* AtomicU64
  access_counter,  \* AtomicU64
  now,             \* Instant::now()
  pc,              \* where each thread is
  loc              \* the arguments, local variables and result of its call

vars == <<data, access_order, memory_used, cas_counter, access_counter, now,
          pc, loc>>

-----------------------------------------------------------------------------
(* Items, frames and locks.                                                *)

\* A CacheItem; expires = 0 stands for expires_at: None (now + ttl is never 0).
Item == [size : Nat, expires : Nat, cas : Nat]

\* The absence of a key from `data`: no stored item has token 0.
NoItem == [size |-> 0, expires |-> 0, cas |-> 0]

\* The absence of a key from `access_order`.
Untracked == -1

AnyKey == CHOOSE k \in Keys : TRUE

\* StorageResult, and what get, incr and flush_all answer.
Status == {"none", "Stored", "NotStored", "NotFound", "CasMismatch", "Deleted",
           "Items", "NonNumeric", "Ok"}

NoFrame == [op |-> "none", key |-> AnyKey, keys |-> {}, size |-> 0, ttl |-> 0,
            token |-> 0, item |-> NoItem, seq |-> 0, cur |-> AnyKey,
            stale |-> {}, found |-> {}, status |-> "none"]

Frame == [op : Ops \cup {"none"}, key : Keys, keys : SUBSET Keys, size : Nat,
          ttl : Nat, token : Nat, item : Item, seq : Nat, cur : Keys,
          stale : SUBSET Keys, found : SUBSET (Keys \X Nat), status : Status]

Labels == {"idle", "get", "get_next", "get_record", "sweep", "sweep_order",
           "check", "set", "ensure", "find", "scan", "evict", "evict_order",
           "store", "insert", "record", "cas", "append", "delete",
           "delete_order", "flush", "flush_order", "cleanup", "return"}

Wrap(n) == n % Word

memory_size(k) == data[k].size

is_expired(k) == data[k].expires # 0 /\ now >= data[k].expires

Exists(k) == data[k] # NoItem

Live(k) == Exists(k) /\ ~is_expired(k)

\* Mutant: delete drops data.write() before it updates access_order.
HoldsDataWriteDropsEarly(t) ==
  pc[t] \in {"insert", "record", "evict_order", "sweep_order", "flush_order"}

\* The labels at which a thread waits for a lock while it holds `data`.
HoldsDataWrite(t) ==
  pc[t] \in {"insert", "record", "evict_order", "sweep_order", "delete_order",
             "flush_order"}

\* Mutant: get drops data.read() before it records the access.
HoldsDataReadDropsEarly(t) == pc[t] = "get_next"

HoldsDataRead(t) == pc[t] \in {"get_next", "get_record"}

\* find_lru_key holds access_order.read() while it waits for data.read().
\* access_order.write() is never held from one step to the next.
HoldsOrderRead(t) == pc[t] = "scan"

CanReadData == \A u \in Threads : ~HoldsDataWrite(u)

CanWriteData == CanReadData /\ \A u \in Threads : ~HoldsDataRead(u)

CanWriteOrder == \A u \in Threads : ~HoldsOrderRead(u)

-----------------------------------------------------------------------------
(* Calls and returns.                                                      *)

Goto(t, label) == pc' = [pc EXCEPT ![t] = label]

\* The call has its result and holds no lock.
Return(t, status) ==
  /\ Goto(t, "return")
  /\ loc' = [loc EXCEPT ![t] = [@ EXCEPT !.status = status]]

\* Go on within the call; the key and the number that an access_order update
\* was about are out of scope.
Resume(t, label) ==
  /\ Goto(t, label)
  /\ loc' = [loc EXCEPT ![t] = [@ EXCEPT !.cur = AnyKey, !.seq = 0]]

Entry(op) == CASE op \in {"get", "incr"} -> "get"
               [] op \in {"add", "replace"} -> "check"
               [] OTHER -> op

Writes == {"set", "add", "replace", "cas", "append", "incr"}

\* The requests a client can make; an argument that the operation does not take
\* has a fixed value.  incr looks its key up and stores with ttl 0.
Requests ==
  {r \in [op : Ops, key : Keys, keys : SUBSET Keys, size : Sizes \cup {0},
          ttl : Ttls \cup {0}, token : 0 .. MaxToken] :
     /\ r.op \in {"get", "flush", "cleanup"} => r.key = AnyKey
     /\ CASE r.op = "get" -> r.keys # {}
          [] r.op = "incr" -> r.keys = {r.key}
          [] OTHER -> r.keys = {}
     /\ (r.size # 0) <=> (r.op \in Writes)
     /\ r.ttl \in (IF r.op \in Writes \ {"append", "incr"} THEN Ttls ELSE {0})
     /\ (r.token # 0) <=> (r.op = "cas")}

\* A worker thread executes a request (src/request.rs dispatches it).
Call(t) ==
  /\ pc[t] = "idle"
  /\ cas_counter <= MaxToken /\ access_counter < MaxAccess
  /\ \E r \in Requests :
       /\ loc' = [loc EXCEPT ![t] =
                    [NoFrame EXCEPT !.op = r.op, !.key = r.key, !.keys = r.keys,
                       !.size = r.size, !.ttl = r.ttl, !.token = r.token]]
       /\ Goto(t, Entry(r.op))
  /\ UNCHANGED <<data, access_order, memory_used, cas_counter, access_counter, now>>

\* The result goes to the client and the frame is dropped.
Done(t) ==
  /\ pc[t] = "return"
  /\ Goto(t, "idle")
  /\ loc' = [loc EXCEPT ![t] = NoFrame]
  /\ UNCHANGED <<data, access_order, memory_used, cas_counter, access_counter, now>>

Tick ==
  /\ now < MaxTime
  /\ now' = now + 1
  /\ UNCHANGED <<data, access_order, memory_used, cas_counter, access_counter,
                 pc, loc>>

-----------------------------------------------------------------------------
(* record_access: the sequence number is taken with the atomic, and stored *)
(* under access_order.write() in a later step; `data` is held meanwhile.   *)

\* Mutant: access_counter is loaded and not incremented.
TakeAccessLoad(t, k, frame, label) ==
  /\ access_counter' = access_counter
  /\ loc' = [loc EXCEPT ![t] = [frame EXCEPT !.seq = access_counter, !.cur = k]]
  /\ Goto(t, label)

\* Take the next access number for key k and wait for access_order.
TakeAccess(t, k, frame, label) ==
  /\ access_counter' = access_counter + 1
  /\ loc' = [loc EXCEPT ![t] = [frame EXCEPT !.seq = access_counter, !.cur = k]]
  /\ Goto(t, label)

RecordAccess(t) ==
  /\ CanWriteOrder
  /\ access_order' = [access_order EXCEPT ![loc[t].cur] = loc[t].seq]

\* Mutant: the ttl is taken off the current time.
calculate_expiry_before(ttl) ==
  LET effective == IF ttl = 0 THEN DefaultTtl ELSE ttl
  IN  IF effective = 0 THEN 0 ELSE now - effective

\* calculate_expiry, at the current time.
calculate_expiry(ttl) ==
  LET effective == IF ttl = 0 THEN DefaultTtl ELSE ttl
  IN  IF effective = 0 THEN 0 ELSE now + effective

\* The item that set and cas build, with the token next_cas_unique returns.
NewItem(t) ==
  [size |-> loc[t].size, expires |-> calculate_expiry(loc[t].ttl),
   cas |-> cas_counter]

-----------------------------------------------------------------------------
(* delete, as called by clients, by eviction and for expired items: data   *)
(* is written, then access_order, under data.write() throughout.           *)

\* data.remove(k) with its size; without effect when there is no such key.
RemoveItem(k) ==
  /\ data' = [data EXCEPT ![k] = NoItem]
  /\ memory_used' = Wrap(memory_used - memory_size(k))

RemoveOrder(k) ==
  /\ CanWriteOrder
  /\ access_order' = [access_order EXCEPT ![k] = Untracked]

Delete(t) ==
  /\ pc[t] = "delete" /\ CanWriteData
  /\ RemoveItem(loc[t].key)
  /\ \/ Exists(loc[t].key) /\ Goto(t, "delete_order") /\ UNCHANGED loc
     \/ ~Exists(loc[t].key) /\ Return(t, "NotFound")
  /\ UNCHANGED <<access_order, cas_counter, access_counter, now>>

DeleteOrder(t) ==
  /\ pc[t] = "delete_order"
  /\ RemoveOrder(loc[t].key)
  /\ Return(t, "Deleted")
  /\ UNCHANGED <<data, memory_used, cas_counter, access_counter, now>>

-----------------------------------------------------------------------------
(* get, get_multi and the get half of incr/decr: the keys are looked up    *)
(* under one data.read(); expired ones are deleted once it is dropped.     *)

\* The lookups and the deletes are done.  incr and decr go on to set.
EndGet(t) ==
  \/ loc[t].op = "get" /\ Return(t, "Items")
  \/ loc[t].op = "cleanup" /\ Return(t, "Ok")
  \/ loc[t].op = "incr" /\ loc[t].found = {} /\ Return(t, "NotFound")
  \/ loc[t].op = "incr" /\ loc[t].found # {} /\ Return(t, "NonNumeric")
  \/ loc[t].op = "incr" /\ loc[t].found # {} /\ Goto(t, "set") /\ UNCHANGED loc

Get(t) ==
  /\ pc[t] = "get" /\ CanReadData
  /\ Goto(t, "get_next")
  /\ UNCHANGED <<data, access_order, memory_used, cas_counter, access_counter,
                 now, loc>>

\* Look one key up, with data.read() held.
GetNext(t) ==
  LET f == loc[t] IN
  /\ pc[t] = "get_next"
  /\ \E k \in f.keys :
       LET rest == [f EXCEPT !.keys = @ \ {k}] IN
       \/ /\ Live(k)
          /\ TakeAccess(t, k, [rest EXCEPT !.found = @ \cup {<<k, data[k].cas>>}],
                        "get_record")
       \/ /\ ~Live(k)
          /\ loc' = [loc EXCEPT ![t] =
                       [rest EXCEPT !.stale = IF Exists(k) THEN @ \cup {k} ELSE @]]
          /\ UNCHANGED <<access_counter, pc>>
  /\ UNCHANGED <<data, access_order, memory_used, cas_counter, now>>

GetRecord(t) ==
  /\ pc[t] = "get_record"
  /\ RecordAccess(t)
  /\ Resume(t, "get_next")
  /\ UNCHANGED <<data, memory_used, cas_counter, access_counter, now>>

\* drop(data), with no key left to look up.
GetDrop(t) ==
  /\ pc[t] = "get_next" /\ loc[t].keys = {}
  /\ IF loc[t].stale = {} THEN EndGet(t)
     ELSE Goto(t, "sweep") /\ UNCHANGED loc
  /\ UNCHANGED <<data, access_order, memory_used, cas_counter, access_counter, now>>

\* delete(key) for the keys seen expired: nothing is checked again.
Sweep(t) ==
  /\ pc[t] = "sweep"
  /\ \/ \E k \in loc[t].stale :
          /\ CanWriteData
          /\ RemoveItem(k)
          /\ loc' = [loc EXCEPT ![t] = [@ EXCEPT !.stale = loc[t].stale \ {k}, !.cur = k]]
          /\ Goto(t, IF Exists(k) THEN "sweep_order" ELSE "sweep")
     \/ loc[t].stale = {} /\ EndGet(t) /\ UNCHANGED <<data, memory_used>>
  /\ UNCHANGED <<access_order, cas_counter, access_counter, now>>

SweepOrder(t) ==
  /\ pc[t] = "sweep_order"
  /\ RemoveOrder(loc[t].cur)
  /\ Resume(t, "sweep")
  /\ UNCHANGED <<data, memory_used, cas_counter, access_counter, now>>

\* cleanup_expired (no caller in the program): collect under data.read(), then
\* delete as above.
CleanupExpired(t) ==
  /\ pc[t] = "cleanup" /\ CanReadData
  /\ loc' = [loc EXCEPT ![t] = [@ EXCEPT !.stale = {k \in Keys : is_expired(k)}]]
  /\ Goto(t, "sweep")
  /\ UNCHANGED <<data, access_order, memory_used, cas_counter, access_counter,
                 now>>

-----------------------------------------------------------------------------
(* ensure_memory_available, on behalf of set, cas and append.              *)

\* Mutant: the space needed for the new item is not counted.
OverLimitAlready(needed) == memory_used > MaxMemory

\* current + needed > max_memory, in the wrapping arithmetic of a release build.
OverLimit(needed) == Wrap(memory_used + needed) > MaxMemory

EnsureMemory(t) ==
  /\ pc[t] = "ensure"
  /\ Goto(t, IF OverLimit(loc[t].size) THEN "find" ELSE "store")
  /\ UNCHANGED <<data, access_order, memory_used, cas_counter, access_counter,
                 now, loc>>

\* find_lru_key takes access_order.read() first.
FindLruOrder(t) ==
  /\ pc[t] = "find"
  /\ Goto(t, "scan")
  /\ UNCHANGED <<data, access_order, memory_used, cas_counter, access_counter,
                 now, loc>>

\* The possible results of find_lru_key: the least recently used live item,
\* any item when none is live, none when the cache is empty.
find_lru_key ==
  LET tracked == {k \in Keys : Live(k) /\ access_order[k] # Untracked}
  IN  IF tracked # {}
      THEN {k \in tracked : \A j \in tracked : access_order[k] <= access_order[j]}
      ELSE {k \in Keys : Exists(k)}

\* Mutant: the eviction loop goes on when there is nothing to evict.
FindLruScanNoBreak(t) ==
  /\ pc[t] = "scan" /\ CanReadData
  /\ \/ \E k \in find_lru_key :
          /\ loc' = [loc EXCEPT ![t] = [@ EXCEPT !.cur = k]]
          /\ Goto(t, "evict")
     \/ find_lru_key = {} /\ Goto(t, "ensure") /\ UNCHANGED loc
  /\ UNCHANGED <<data, access_order, memory_used, cas_counter, access_counter,
                 now>>

\* ... and data.read() second; both are released on return.
FindLruScan(t) ==
  /\ pc[t] = "scan" /\ CanReadData
  /\ \/ \E k \in find_lru_key :
          /\ loc' = [loc EXCEPT ![t] = [@ EXCEPT !.cur = k]]
          /\ Goto(t, "evict")
     \/ find_lru_key = {} /\ Goto(t, "store") /\ UNCHANGED loc
  /\ UNCHANGED <<data, access_order, memory_used, cas_counter, access_counter,
                 now>>

Evict(t) ==
  /\ pc[t] = "evict" /\ CanWriteData
  /\ RemoveItem(loc[t].cur)
  /\ Goto(t, IF Exists(loc[t].cur) THEN "evict_order" ELSE "ensure")
  /\ UNCHANGED <<access_order, cas_counter, access_counter, now, loc>>

EvictOrder(t) ==
  /\ pc[t] = "evict_order"
  /\ RemoveOrder(loc[t].cur)
  /\ Resume(t, "ensure")
  /\ UNCHANGED <<data, memory_used, cas_counter, access_counter, now>>

-----------------------------------------------------------------------------
(* set, add and replace.                                                   *)

\* add and replace look at the key under data.read() and drop it before set.
Check(t) ==
  /\ pc[t] = "check" /\ CanReadData
  /\ IF Live(loc[t].key) = (loc[t].op = "replace")
     THEN Goto(t, "set") /\ UNCHANGED loc
     ELSE Return(t, "NotStored")
  /\ UNCHANGED <<data, access_order, memory_used, cas_counter, access_counter, now>>

\* Mutant: next_cas_unique loads the counter and does not increment it.
SetBuildLoad(t) ==
  /\ pc[t] = "set"
  /\ loc' = [loc EXCEPT ![t] = [@ EXCEPT !.item = NewItem(t)]]
  /\ Goto(t, "ensure")
  /\ UNCHANGED <<data, access_order, memory_used, cas_counter, access_counter, now>>

SetBuild(t) ==
  /\ pc[t] = "set"
  /\ loc' = [loc EXCEPT ![t] = [@ EXCEPT !.item = NewItem(t)]]
  /\ cas_counter' = cas_counter + 1
  /\ Goto(t, "ensure")
  /\ UNCHANGED <<data, access_order, memory_used, access_counter, now>>

\* Mutant: the size of the replaced item is not taken off.
SetLockKeepsSize(t) ==
  /\ pc[t] = "store" /\ loc[t].op \in {"set", "add", "replace", "incr"}
  /\ CanWriteData
  /\ Goto(t, "insert")
  /\ UNCHANGED <<data, access_order, memory_used, cas_counter, access_counter, now, loc>>

\* data.write(); the size of the item that is replaced is taken off.
SetLock(t) ==
  /\ pc[t] = "store" /\ loc[t].op \in {"set", "add", "replace", "incr"}
  /\ CanWriteData
  /\ memory_used' = Wrap(memory_used - memory_size(loc[t].key))
  /\ Goto(t, "insert")
  /\ UNCHANGED <<data, access_order, cas_counter, access_counter, now, loc>>

\* Add the new size, insert the item and take its access number.
InsertItem(t) ==
  /\ memory_used' = Wrap(memory_used + loc[t].item.size)
  /\ data' = [data EXCEPT ![loc[t].key] = loc[t].item]
  /\ TakeAccess(t, loc[t].key, loc[t], "record")

SetInsert(t) ==
  /\ pc[t] = "insert"
  /\ InsertItem(t)
  /\ UNCHANGED <<access_order, cas_counter, now>>

\* record_access, then the locks are released and the call returns.
Record(t) ==
  /\ pc[t] = "record"
  /\ RecordAccess(t)
  /\ Return(t, "Stored")
  /\ UNCHANGED <<data, memory_used, cas_counter, access_counter, now>>

-----------------------------------------------------------------------------
(* cas, append/prepend and flush_all.                                      *)

\* Mutant: a matching item is removed before the new one is inserted.
CasRemoves(t) ==
  LET k == loc[t].key IN
  /\ pc[t] = "cas" /\ CanWriteData
  /\ \/ ~Live(k) /\ Return(t, "NotFound") /\ UNCHANGED <<data, memory_used, cas_counter>>
     \/ /\ Live(k) /\ data[k].cas # loc[t].token
        /\ Return(t, "CasMismatch")
        /\ UNCHANGED <<data, memory_used, cas_counter>>
     \/ /\ Live(k) /\ data[k].cas = loc[t].token
        /\ RemoveItem(k)
        /\ loc' = [loc EXCEPT ![t] = [@ EXCEPT !.item = NewItem(t)]]
        /\ cas_counter' = cas_counter + 1
        /\ Goto(t, "ensure")
  /\ UNCHANGED <<access_order, access_counter, now>>

\* On a token match the old size is taken off and data.write() is dropped.
Cas(t) ==
  LET k == loc[t].key IN
  /\ pc[t] = "cas" /\ CanWriteData
  /\ \/ ~Exists(k) /\ Return(t, "NotFound") /\ UNCHANGED <<data, memory_used, cas_counter>>
     \/ is_expired(k) /\ RemoveItem(k) /\ Return(t, "NotFound") /\ UNCHANGED cas_counter
     \/ /\ Live(k) /\ data[k].cas # loc[t].token
        /\ Return(t, "CasMismatch")
        /\ UNCHANGED <<data, memory_used, cas_counter>>
     \/ /\ Live(k) /\ data[k].cas = loc[t].token
        /\ memory_used' = Wrap(memory_used - memory_size(k))
        /\ loc' = [loc EXCEPT ![t] = [@ EXCEPT !.item = NewItem(t)]]
        /\ cas_counter' = cas_counter + 1
        /\ Goto(t, "ensure")
        /\ UNCHANGED data
  /\ UNCHANGED <<access_order, access_counter, now>>

\* data.write() again; the item is inserted over whatever is there now.
CasStore(t) ==
  /\ pc[t] = "store" /\ loc[t].op = "cas" /\ CanWriteData
  /\ InsertItem(t)
  /\ UNCHANGED <<access_order, cas_counter, now>>

\* Extend the value in place, with a new token.
Extend(t) ==
  LET k == loc[t].key IN
  /\ data' = [data EXCEPT ![k] = [size |-> memory_size(k) + loc[t].size,
                                  expires |-> data[k].expires, cas |-> cas_counter]]
  /\ cas_counter' = cas_counter + 1
  /\ memory_used' = Wrap(memory_used + loc[t].size)
  /\ TakeAccess(t, k, loc[t], "record")

\* append and prepend differ only in the bytes of the value.
AppendPrepend(t) ==
  LET k == loc[t].key IN
  /\ pc[t] = "append" /\ CanWriteData
  /\ \/ /\ ~Exists(k) /\ Return(t, "NotStored")
        /\ UNCHANGED <<data, memory_used, cas_counter, access_counter>>
     \/ /\ is_expired(k) /\ RemoveItem(k) /\ Return(t, "NotStored")
        /\ UNCHANGED <<cas_counter, access_counter>>
     \/ /\ Live(k) /\ OverLimit(loc[t].size) /\ Goto(t, "ensure")
        /\ UNCHANGED <<data, memory_used, cas_counter, access_counter, loc>>
     \/ Live(k) /\ ~OverLimit(loc[t].size) /\ Extend(t)
  /\ UNCHANGED <<access_order, now>>

\* Mutant: the item is not looked up again after eviction.
AppendStoreBlind(t) ==
  /\ pc[t] = "store" /\ loc[t].op = "append" /\ CanWriteData
  /\ Extend(t)
  /\ UNCHANGED <<access_order, now>>

\* data.write() again, after eviction: the item is looked up once more.
AppendStore(t) ==
  /\ pc[t] = "store" /\ loc[t].op = "append" /\ CanWriteData
  /\ \/ Live(loc[t].key) /\ Extend(t)
     \/ /\ ~Live(loc[t].key) /\ Return(t, "NotStored")
        /\ UNCHANGED <<data, memory_used, cas_counter, access_counter>>
  /\ UNCHANGED <<access_order, now>>

Flush(t) ==
  /\ pc[t] = "flush" /\ CanWriteData
  /\ Goto(t, "flush_order")
  /\ UNCHANGED <<data, access_order, memory_used, cas_counter, access_counter,
                 now, loc>>

FlushAll(t) ==
  /\ pc[t] = "flush_order" /\ CanWriteOrder
  /\ data' = [k \in Keys |-> NoItem]
  /\ access_order' = [k \in Keys |-> Untracked]
  /\ memory_used' = 0
  /\ Return(t, "Ok")
  /\ UNCHANGED <<cas_counter, access_counter, now>>

-----------------------------------------------------------------------------
(* The specification.                                                      *)

Init ==
  /\ data = [k \in Keys |-> NoItem]
  /\ access_order = [k \in Keys |-> Untracked]
  /\ memory_used = 0
  /\ cas_counter = 1
  /\ access_counter = 0
  /\ now = 0
  /\ pc = [t \in Threads |-> "idle"]
  /\ loc = [t \in Threads |-> NoFrame]

Step(t) ==
  \/ Delete(t) \/ DeleteOrder(t)
  \/ Get(t) \/ GetNext(t) \/ GetRecord(t) \/ GetDrop(t)
  \/ Sweep(t) \/ SweepOrder(t) \/ CleanupExpired(t)
  \/ EnsureMemory(t) \/ FindLruOrder(t) \/ FindLruScan(t)
  \/ Evict(t) \/ EvictOrder(t)
  \/ Check(t) \/ SetBuild(t) \/ SetLock(t) \/ SetInsert(t) \/ Record(t)
  \/ Cas(t) \/ CasStore(t) \/ AppendPrepend(t) \/ AppendStore(t)
  \/ Flush(t) \/ FlushAll(t) \/ Done(t)

Next == Tick \/ \E t \in Threads : Call(t) \/ Step(t)

Spec == Init /\ [][Next]_vars

\* A thread inside a call is scheduled by the operating system; whether a
\* client issues another request, and when time passes, is up to neither.
FairSpec == Spec /\ \A t \in Threads : WF_vars(Step(t))

-----------------------------------------------------------------------------
(* Properties.                                                             *)

\* Every variable has its type: HashMap contents, atomics and the frames of
\* the threads.
TypeOK ==
  /\ data \in [Keys -> Item]
  /\ access_order \in [Keys -> Nat \cup {Untracked}]
  /\ memory_used \in 0 .. Word - 1
  /\ cas_counter \in Nat /\ access_counter \in Nat /\ now \in Nat
  /\ pc \in [Threads -> Labels]
  /\ loc \in [Threads -> Frame]

\* A thread that has built an item (set, cas) and not yet inserted it.
Pending(t) ==
  /\ pc[t] \in {"ensure", "find", "scan", "evict", "evict_order", "store", "insert"}
  /\ loc[t].op # "append"

\* next_cas_unique: a token names one write.  The tokens of the stored items
\* and of the items that threads carry into set and cas are pairwise distinct
\* and have been issued, whatever the interleaving, so a client's cas can only
\* match the very item it read.
TokensUnique ==
  /\ \A k \in Keys : Exists(k) => data[k].cas \in 1 .. cas_counter - 1
  /\ \A j, k \in Keys : j # k /\ Exists(j) => data[j].cas # data[k].cas
  /\ \A t \in Threads : Pending(t) =>
       /\ loc[t].item.cas \in 1 .. cas_counter - 1
       /\ \A k \in Keys : data[k].cas # loc[t].item.cas
       /\ \A u \in Threads \ {t} : Pending(u) => loc[u].item.cas # loc[t].item.cas

\* Every stored item has an access number, except the one whose writer still
\* holds data.write() in record_access.  So find_lru_key never falls back to
\* an arbitrary key while a live item exists.
LruTracked ==
  \A k \in Keys : Exists(k) /\ access_order[k] = Untracked =>
    \E t \in Threads : pc[t] = "record" /\ loc[t].cur = k

\* Access numbers order the accesses: no two keys share one, none is in the
\* future, and a number that a thread is about to record is nobody else's, so
\* the least recently used key is unique.
AccessNumbersDistinct ==
  LET recording == {t \in Threads : pc[t] \in {"record", "get_record"}} IN
  /\ \A k \in Keys : access_order[k] < access_counter
  /\ \A j, k \in Keys :
       j # k /\ access_order[j] # Untracked => access_order[j] # access_order[k]
  /\ \A t \in recording :
       /\ loc[t].seq < access_counter
       /\ \A k \in Keys : access_order[k] # loc[t].seq
       /\ \A u \in recording \ {t} : loc[u].seq # loc[t].seq

\* record_access draws a number and enters it later.  What is entered is still an
\* access to the item that is stored: a set, cas or append enters the number of
\* its own item, which is later than the one it replaces; only a get may enter an
\* earlier number, over that of another get, and the item it found is still the
\* one that is stored.  So no late entry makes a new item look old, and none is
\* made for a key that is gone.
AccessesCurrent ==
  [][\A k \in Keys : access_order'[k] \notin {access_order[k], Untracked} =>
       \E t \in Threads :
         /\ loc[t].cur = k /\ Exists(k)
         /\ \/ pc[t] = "record" /\ access_order'[k] > access_order[k]
            \/ pc[t] = "get_record" /\ <<k, data[k].cas>> \in loc[t].found]_vars

StoredBytes == SumFunction([k \in Keys |-> memory_size(k)])

\* memory_used is the size of what is stored, except while set has taken the
\* old item off and not yet added the new one.
MemoryExact ==
  (\A t \in Threads : pc[t] # "insert") => memory_used = StoredBytes

MaxSize == CHOOSE s \in Sizes : \A r \in Sizes : r <= s

\* The check in ensure_memory_available and the insertion are separate steps,
\* and an item larger than max_memory is stored once nothing is left to evict.
\* But each other thread can be between the two with one item only: the limit
\* is overshot by at most that much.
OvershootBounded ==
  memory_used <= (IF MaxSize > MaxMemory THEN MaxSize ELSE MaxMemory)
                   + (Cardinality(Threads) - 1) * MaxSize

\* A live item disappears only by a client's delete or flush_all, by eviction,
\* or in the sweep of a get that saw this key expired.
LiveItemsKept ==
  [][\A k \in Keys : Live(k) /\ data'[k] = NoItem =>
       \E t \in Threads :
         \/ pc[t] = "delete" /\ loc[t].key = k
         \/ pc[t] = "flush_order"
         \/ pc[t] = "evict" /\ loc[t].cur = k
         \/ pc[t] = "sweep" /\ k \in loc[t].stale]_vars

\* find_lru_key in thread u waits for `data` with access_order held, while t
\* waits for access_order with `data` held.
CircularWait(t, u) == HoldsOrderRead(u) /\ HoldsDataWrite(t) /\ pc[t] # "insert"

\* While calls are open some call returns: the eviction loop ends, even for an
\* item larger than max_memory, no thread waits for itself, and the circular
\* wait with find_lru_key is the only way for all threads to block, with locks
\* that readers share also while a writer waits.
SomeCallReturns ==
  (\E t \in Threads : pc[t] # "idle") ~>
    \/ \E t \in Threads : pc[t] = "return"
    \/ \E t, u \in Threads : CircularWait(t, u)

-----------------------------------------------------------------------------
(* What the documentation says and the code does not do.                   *)

\* "Thread-safe": no two threads wait for each other.
NoCircularWait == ~ \E t, u \in Threads : CircularWait(t, u)

\* The step in which set or cas puts its item into `data`.
Stores(t) ==
  pc[t] = (IF loc[t].op = "cas" THEN "store" ELSE "insert") /\ pc'[t] = "record"

\* "Add an item only if it doesn't exist", "only if it exists", "update only
\* if CAS token matches", "Atomic numeric operations": the condition under
\* which add, replace, cas or incr writes holds when the item is inserted.
ConditionHolds ==
  [][\A t \in Threads : LET k == loc[t].key IN Stores(t) =>
       /\ loc[t].op = "add" => ~Live(k)
       /\ loc[t].op = "replace" => Live(k)
       /\ loc[t].op = "cas" => data[k].cas = loc[t].token
       /\ loc[t].op = "incr" => <<k, data[k].cas>> \in loc[t].found]_vars

=============================================================================
