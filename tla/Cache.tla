------------------------------- MODULE Cache -------------------------------
(***************************************************************************)
(* What Storage promises to its clients: a cache whose operations take     *)
(* effect at one instant between the call and the return, and which may    *)
(* forget keys at any time (expiry, eviction).  A value is named by its    *)
(* CAS token; 0 means that the key is not there.                           *)
(***************************************************************************)
EXTENDS Naturals

CONSTANTS Threads, Keys

VARIABLES
  store,  \* the token of each key's value, or 0
  call    \* the request each thread is executing and, once known, its result

cvars == <<store, call>>

Idle == [phase |-> "idle", op |-> "none", key |-> CHOOSE k \in Keys : TRUE,
         token |-> 0, want |-> {}, found |-> {}, status |-> "none"]

CInit ==
  /\ store = [k \in Keys |-> 0]
  /\ call = [t \in Threads |-> Idle]

Open(t, op) == call[t].phase = "open" /\ call[t].op = op

\* The call of t has its result.
Answer(t, status) ==
  call' = [call EXCEPT ![t] = [@ EXCEPT !.phase = "done", !.status = status]]

Invoke(t) ==
  /\ call[t].phase = "idle"
  /\ call'[t].phase = "open" /\ call'[t].status = "none" /\ call'[t].found = {}
  /\ call' = [call EXCEPT ![t] = call'[t]]
  /\ UNCHANGED store

Reply(t) ==
  /\ call[t].phase = "done"
  /\ call' = [call EXCEPT ![t] = Idle]
  /\ UNCHANGED store

\* The key gets a new value, under a token that no stored value has; the value
\* may have expired already.
Write(t) ==
  LET v == store'[call[t].key] IN
  /\ store' = [store EXCEPT ![call[t].key] = v]
  /\ v = 0 \/ \A k \in Keys : v # store[k]
  /\ Answer(t, "Stored")

Refuse(t, status) == Answer(t, status) /\ UNCHANGED store

\* A get reads each of its keys at one instant, and answers when it has read all.
Lookup(t) ==
  /\ Open(t, "get")
  /\ \E k \in call[t].want :
       call' = [call EXCEPT ![t] =
                  [@ EXCEPT !.want = call[t].want \ {k},
                     !.found = IF store[k] = 0 THEN call[t].found
                               ELSE call[t].found \cup {<<k, store[k]>>}]]
  /\ UNCHANGED store

GetAll(t) == Open(t, "get") /\ call[t].want = {} /\ Refuse(t, "Items")

Set(t) == Open(t, "set") /\ Write(t)

Add(t) ==
  /\ Open(t, "add")
  /\ \/ store[call[t].key] = 0 /\ Write(t)
     \/ store[call[t].key] # 0 /\ Refuse(t, "NotStored")

Replace(t) ==
  /\ Open(t, "replace")
  /\ \/ store[call[t].key] # 0 /\ Write(t)
     \/ store[call[t].key] = 0 /\ Refuse(t, "NotStored")

Append(t) ==
  /\ Open(t, "append")
  /\ \/ store[call[t].key] # 0 /\ Write(t)
     \/ store[call[t].key] = 0 /\ Refuse(t, "NotStored")

Cas(t) ==
  /\ Open(t, "cas")
  /\ \/ store[call[t].key] = 0 /\ Refuse(t, "NotFound")
     \/ store[call[t].key] \notin {0, call[t].token} /\ Refuse(t, "CasMismatch")
     \/ store[call[t].key] = call[t].token /\ store[call[t].key] # 0 /\ Write(t)

\* An expired item that is still in memory may be reported as deleted.
Delete(t) ==
  /\ Open(t, "delete")
  /\ store' = [store EXCEPT ![call[t].key] = 0]
  /\ \/ Answer(t, "Deleted")
     \/ store[call[t].key] = 0 /\ Answer(t, "NotFound")

FlushAll(t) ==
  /\ Open(t, "flush")
  /\ store' = [k \in Keys |-> 0]
  /\ Answer(t, "Ok")

\* Expiry and eviction.
Forget ==
  /\ \E S \in SUBSET Keys : store' = [k \in Keys |-> IF k \in S THEN 0 ELSE store[k]]
  /\ UNCHANGED call

CNext ==
  \/ Forget
  \/ \E t \in Threads :
       \/ Invoke(t) \/ Reply(t) \/ Lookup(t) \/ GetAll(t) \/ Set(t) \/ Add(t)
       \/ Replace(t) \/ Append(t) \/ Cas(t) \/ Delete(t) \/ FlushAll(t)

CSpec == CInit /\ [][CNext]_cvars

=============================================================================
