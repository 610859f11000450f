------------------------------ MODULE TxWatcher ------------------------------
(***************************************************************************)
(* The transaction watcher of the layer 1 client                           *)
(* (layer1/transaction/backend.go and worker_pool.go).  A subscriber hands *)
(* it a transaction and waits on a shared receipt.  Once per block the     *)
(* watcher asks the Ethereum node about every monitored transaction; a     *)
(* pending one that has become stale is replaced by one with the same      *)
(* nonce and a higher fee, and all the replacements of a transaction form  *)
(* a retry group with one shared receipt.                                  *)
(*                                                                         *)
(* The state is written to the database only after a poll, and a crash     *)
(* loses the shared receipts and the subscribers with them.                *)
(*                                                                         *)
(* Heights are kept as ages: the number of blocks since, up to the largest *)
(* number a comparison in the code can tell apart.                         *)
(***************************************************************************)
EXTENDS Integers, Sequences, FiniteSetsExt, Functions

CONSTANTS
  Txns,                     \* transaction hashes
  Originals,                \* those sent by a task, and not by the watcher
  Subscribers,
  MaxStaleBlocks,           \* SubscribeOptions.MaxStaleBlocks
  TxNotFoundMaxBlocks,      \* client.GetTxNotFoundMaxBlocks
  FinalityDelay,            \* client.GetFinalityDelay
  TxReceiptCacheMaxBlocks,
  MaxFaults,                \* bound: reorganisations, crashes and polls with lost responses
  None

TxBackOffDelayStaleTxMultiplier == 2

ASSUME TxWatcherAssumption ==
  /\ IsFiniteSet(Txns)
  /\ Originals \subseteq Txns /\ None \notin Txns
  /\ {MaxStaleBlocks, TxNotFoundMaxBlocks, FinalityDelay,
      TxReceiptCacheMaxBlocks, MaxFaults} \subseteq Nat
  /\ TxNotFoundMaxBlocks > 0

VARIABLES
  status,       \* status[t]: what the Ethereum node knows of t
  nonce,        \* nonce[t]: the original that has t's nonce, None until t is sent
  conf,         \* conf[t]: confirmations of a mined transaction
  fresh,        \* the head of the chain is not lastProcessedBlock
  monitored,    \* MonitoredTxns
  groups,       \* RetryGroups
  cache,        \* ReceiptCache: the group, the blocks since and if it was recovered
  saved,        \* the database: the transactions, the group members, the receipts
  waiting,      \* waiting[s]: the group whose receipt s has asked for
  answer,       \* answer[s]: what s has read from it
  faults        \* the faults that have happened

chain   == <<status, nonce, conf>>
watcher == <<monitored, groups, cache>>
clients == <<waiting, answer>>
vars    == <<chain, fresh, watcher, saved, clients, faults>>

Empty == [x \in {} |-> x]

(* The table f with the entry v for k, a new key or an old one.            *)
Put(f, k, v) == [x \in DOMAIN f \cup {k} |-> IF x = k THEN v ELSE f[x]]

(* The longest wait before a transaction that was replaced n times is stale*)
MaxPendingBlocks(n) ==
  MaxStaleBlocks * (n + 1) * (IF n > 0 THEN TxBackOffDelayStaleTxMultiplier ELSE 1)

MaxRetries == Cardinality(Txns)

Monitored ==
  [group : Originals, age : (0 .. MaxPendingBlocks(MaxRetries)) \cup {None},
   RetryAmount : 0 .. MaxRetries, NotFoundBlocks : 0 .. TxNotFoundMaxBlocks - 1,
   EnableAutoRetry : BOOLEAN]

Group == [members : Seq(Txns), response : {"pending", "receipt", "error"}]

Cached == [age : 0 .. TxReceiptCacheMaxBlocks, recovered : BOOLEAN]

TypeOK ==
  /\ status \in [Txns -> {"unsent", "pending", "absent", "mined"}]
  /\ nonce \in [Txns -> Originals \cup {None}]
  /\ conf \in [Txns -> 0 .. FinalityDelay]
  /\ fresh \in BOOLEAN
  /\ \A m \in {monitored, saved.monitored} :
       DOMAIN m \subseteq Txns /\ \A t \in DOMAIN m : m[t] \in Monitored
  /\ DOMAIN groups \subseteq Originals /\ \A o \in DOMAIN groups : groups[o] \in Group
  /\ DOMAIN cache \subseteq Originals /\ \A o \in DOMAIN cache : cache[o] \in Cached
  /\ waiting \in [Subscribers -> Originals \cup {None}]
  /\ answer \in [Subscribers -> {"none", "receipt", "error"}]
  /\ faults \in 0 .. MaxFaults

Init ==
  /\ status = [t \in Txns |-> IF t \in Originals THEN "pending" ELSE "unsent"]
  /\ nonce = [t \in Txns |-> IF t \in Originals THEN t ELSE None]
  /\ conf = [t \in Txns |-> 0]
  /\ fresh = TRUE
  /\ monitored = Empty /\ groups = Empty /\ cache = Empty
  /\ saved = [monitored |-> Empty, members |-> Empty, receipts |-> {}]
  /\ waiting = [s \in Subscribers |-> None]
  /\ answer = [s \in Subscribers |-> "none"]
  /\ faults = 0

Fault == faults < MaxFaults /\ faults' = faults + 1

-----------------------------------------------------------------------------
(* The Ethereum chain, as the node that the watcher asks sees it.          *)

Older(age, limit) == IF age < limit THEN age + 1 ELSE age

AgedTxns(m) ==
  [t \in DOMAIN m |->
     [m[t] EXCEPT !.age =
        IF @ = None THEN None ELSE Older(@, MaxPendingBlocks(MaxRetries))]]

NewBlock ==
  /\ fresh' = TRUE
  /\ conf' = [u \in Txns |->
       IF status[u] = "mined" THEN Older(conf[u], FinalityDelay) ELSE 0]
  /\ monitored' = AgedTxns(monitored)
  /\ saved' = [saved EXCEPT !.monitored = AgedTxns(@)]
  /\ cache' = [o \in DOMAIN cache |->
       [cache[o] EXCEPT !.age = Older(@, TxReceiptCacheMaxBlocks)]]
  /\ UNCHANGED <<nonce, groups, clients, faults>>

Siblings(t) == {u \in Txns : nonce[u] = nonce[t]}

(* A block that includes t, unless one with its nonce is in the chain; the *)
(* node forgets the others with that nonce.                                *)
Mine(t) ==
  /\ nonce[t] # None
  /\ \A u \in Siblings(t) : status[u] # "mined"
  /\ status' = [u \in Txns |-> CASE u = t -> "mined"
                                 [] u \in Siblings(t) \ {t} -> "absent"
                                 [] OTHER -> status[u]]
  /\ NewBlock

EmptyBlock == NewBlock /\ UNCHANGED status

(* The block of t, not final yet, is replaced by another.                  *)
Reorg(t) ==
  /\ status[t] = "mined" /\ conf[t] < FinalityDelay
  /\ Fault
  /\ status' = [status EXCEPT ![t] = "pending"]
  /\ conf' = [conf EXCEPT ![t] = 0]
  /\ fresh' = TRUE
  /\ UNCHANGED <<nonce, watcher, saved, clients>>

(* The node drops t from its pool.                                         *)
Drop(t) ==
  /\ status[t] = "pending"
  /\ status' = [status EXCEPT ![t] = "absent"]
  /\ UNCHANGED <<nonce, conf, fresh, watcher, saved, clients, faults>>

-----------------------------------------------------------------------------
(* The shared receipts reach the subscribers that wait on them.            *)
Deliver(response) ==
  answer' = [s \in Subscribers |->
    IF answer[s] = "none" /\ waiting[s] \in DOMAIN response
    THEN IF response[waiting[s]] = "pending" THEN "none" ELSE response[waiting[s]]
    ELSE answer[s]]

(* A replacement inherits the group and the option of what it replaces.    *)
NewMonitored(g, auto) ==
  [group |-> g, age |-> None, RetryAmount |-> 0, NotFoundBlocks |-> 0, EnableAutoRetry |-> auto]

(* queue: a transaction whose receipt is cached is answered at once, one   *)
(* that is known joins the shared receipt of its group and its options,    *)
(* and only a new one is monitored, with the option of this subscriber.    *)
Subscribe(s, t, auto) ==
  /\ waiting[s] = None /\ answer[s] = "none"
  /\ IF t \in DOMAIN cache
     THEN /\ waiting' = [waiting EXCEPT ![s] = t]
          /\ answer' = [answer EXCEPT ![s] = "receipt"]
          /\ UNCHANGED <<monitored, groups>>
     ELSE LET g == IF t \in DOMAIN monitored THEN monitored[t].group ELSE t
              known == t \in DOMAIN monitored \/ t \in DOMAIN groups
          IN /\ waiting' = [waiting EXCEPT ![s] = g]
             /\ monitored' = IF known THEN monitored ELSE Put(monitored, t, NewMonitored(t, auto))
             /\ groups' = IF known THEN groups
                          ELSE Put(groups, t, [members |-> <<t>>, response |-> "pending"])
             /\ answer' = [answer EXCEPT ![s] =
                  IF groups'[g].response = "pending" THEN "none" ELSE groups'[g].response]
  /\ UNCHANGED <<chain, fresh, cache, saved, faults>>

(* A subscriber has read its answer, or its context is done before there is*)
(* one; it may ask again.                                                  *)
GetReceiptBlocking(s) ==
  /\ waiting[s] # None
  /\ waiting' = [waiting EXCEPT ![s] = None]
  /\ answer' = [answer EXCEPT ![s] = "none"]
  /\ UNCHANGED <<chain, fresh, watcher, saved, faults>>

-----------------------------------------------------------------------------
(* One poll, when there is a new block.                                    *)

(* A transaction seen for the first time is monitored from this block on.  *)
Age(t) == IF monitored[t].age = None THEN 0 ELSE monitored[t].age

getReceiptUnconfirmed(t) ==   \* mutant: the finality delay is not waited for
  CASE status[t] = "absent" -> "notfound"
    [] status[t] = "pending" /\ Age(t) >= MaxPendingBlocks(monitored[t].RetryAmount)
         -> "stale"
    [] status[t] = "mined" -> "receipt"
    [] OTHER -> "nothing"

getReceipt(t) ==
  CASE status[t] = "absent" -> "notfound"
    [] status[t] = "pending" /\ Age(t) >= MaxPendingBlocks(monitored[t].RetryAmount)
         -> "stale"
    [] status[t] = "mined" /\ conf[t] >= FinalityDelay -> "receipt"
    [] OTHER -> "nothing"

(* The answers of a worker: RetryTransaction may fail, and the worker may  *)
(* run out of time or of attempts.                                         *)
handleResponse(t) ==
  {"lost"} \cup IF getReceipt(t) = "stale" /\ monitored[t].EnableAutoRetry
                THEN {"retried", "notRetried"}
                ELSE {getReceipt(t)}

(* The entry of t after a response.  The height at which it was first seen *)
(* is forgotten when it was stale, and the wait starts again.              *)
Responded(t, out) ==
  LET m == monitored[t]
  IN [group          |-> m.group,
      age            |-> IF out \in {"retried", "notRetried"} THEN None ELSE Age(t),
      RetryAmount    |-> IF out = "retried" THEN m.RetryAmount + 1 ELSE m.RetryAmount,
      NotFoundBlocks |-> IF out = "notfound" THEN m.NotFoundBlocks + 1 ELSE m.NotFoundBlocks,
      EnableAutoRetry |-> m.EnableAutoRetry]

(* What the responses do to the tables, st.monitored and st.cache, save    *)
(* for the replacements.                                                   *)
handleWorkerResponse(out) ==
  LET mined == {monitored[t].group : t \in {u \in DOMAIN monitored : out[u] = "receipt"}}
  IN [monitored |-> [t \in DOMAIN monitored |-> Responded(t, out[t])],
      groups    |-> groups,
      cache     |-> [g \in DOMAIN cache \cup mined |->
                       IF g \in mined THEN [age |-> 0, recovered |-> FALSE] ELSE cache[g]],
      sent      |-> [g \in DOMAIN groups |-> groups[g].response]]

(* A replacement u of t is monitored and joins the group of t.             *)
addReplaced(st, t, u) ==
  LET g == monitored[t].group
  IN [monitored |-> Put(st.monitored, u, NewMonitored(g, monitored[t].EnableAutoRetry)),
      groups    |-> [st.groups EXCEPT ![g] = [members  |-> Append(@.members, u),
                                              response |-> @.response]],
      cache     |-> st.cache,
      sent      |-> st.sent]

Finished(t, out) ==
  \/ out \in {"stale", "receipt"}
  \/ out = "notfound" /\ monitored[t].NotFoundBlocks + 1 >= TxNotFoundMaxBlocks

(* The group is a copy of the one in the table: the shortened slice is     *)
(* never stored, but the slot that remove overwrites is shared with it.    *)
removeLast(g, t) ==   \* mutant: the last member is lost
  LET at == {i \in DOMAIN g : g[i] = t}
  IN IF at = {} THEN g ELSE [g EXCEPT ![Len(g)] = t]

remove(g, t) ==
  LET at == {i \in DOMAIN g : g[i] = t}
  IN IF at = {} THEN g ELSE [g EXCEPT ![Max(at)] = g[Len(g)]]

sendReceiptFirst(g, out) ==   \* mutant: whoever comes first answers for the group
  IF g.response = "pending" THEN IF out = "receipt" THEN "receipt" ELSE "error"
  ELSE g.response

sendReceiptOnly(g, out) ==   \* mutant: an error is not sent
  IF g.response = "pending" /\ out = "receipt" THEN "receipt" ELSE g.response

sendReceipt(g, out) ==
  IF g.response = "pending" /\ (Len(g.members) = 1 \/ out = "receipt")
  THEN IF out = "receipt" THEN "receipt" ELSE "error"
  ELSE g.response

(* st.sent[g] is the shared receipt of g, which outlives the group.        *)
dispatchFinishedTx(st, t, out) ==
  LET g        == st.monitored[t].group
      members  == st.groups[g].members
      response == sendReceipt(st.groups[g], out)
  IN [monitored |-> Restrict(st.monitored, DOMAIN st.monitored \ {t}),
      groups    |-> IF Len(members) = 1 THEN Restrict(st.groups, DOMAIN st.groups \ {g})
                    ELSE [st.groups EXCEPT ![g] = [members  |-> remove(members, t),
                                                   response |-> response]],
      cache     |-> st.cache,
      sent      |-> [st.sent EXCEPT ![g] = response]]

(* A recovered receipt has RetrievedAtHeight 0, and the height that the    *)
(* loop gives it stays in the loop's copy.                                 *)
cleanReceiptCache(c) ==
  Restrict(c, {o \in DOMAIN c : c[o].recovered \/ c[o].age < TxReceiptCacheMaxBlocks})

PersistState ==
  saved' = [monitored |-> monitored',
            members   |-> [g \in DOMAIN groups' |-> groups'[g].members],
            receipts  |-> DOMAIN cache']

(* The hashes of the replacements of S, as long as there are enough that   *)
(* nobody has seen; which ones they are makes no difference.               *)
NewHashes(S) ==
  LET unseen == Injection(S, {t \in Txns : status[t] = "unsent"})
  IN IF unseen = {} THEN {} ELSE {CHOOSE new \in unseen : TRUE}

(* The replacements of the transactions in S are in the node's pool.       *)
Broadcast(S, new) ==
  LET sent == {new[t] : t \in S}
  IN /\ status' = [u \in Txns |-> IF u \in sent THEN "pending" ELSE status[u]]
     /\ nonce' = [u \in Txns |-> IF u \in sent
                    THEN nonce[CHOOSE t \in S : new[t] = u] ELSE nonce[u]]
     /\ UNCHANGED conf

(* The answers to one poll.                                                *)
Outcomes ==
  LET stale == {t \in DOMAIN monitored : "retried" \in handleResponse(t)}
  IN {[t \in DOMAIN monitored |->
         CASE t \in lost -> "lost"
           [] t \in stale \ lost -> IF t \in replaced THEN "retried" ELSE "notRetried"
           [] OTHER -> getReceipt(t)] :
       lost \in SUBSET DOMAIN monitored, replaced \in SUBSET stale}

(* The orders of a finite set, each member once.                           *)
Sequenced(S) == Injection(1 .. Cardinality(S), S)

(* The responses of all workers; the order in which they come in only      *)
(* shows in the order of the replacements in their groups.                 *)
handleWorkerResponses(out, retried, new) ==
  LET st[i \in 0 .. Len(retried)] ==
        IF i = 0 THEN handleWorkerResponse(out)
        ELSE addReplaced(st[i - 1], retried[i], new[retried[i]])
  IN st[Len(retried)]

dispatchFinishedTxs(handled, order, out) ==
  LET st[i \in 0 .. Len(order)] ==
        IF i = 0 THEN handled
        ELSE dispatchFinishedTx(st[i - 1], order[i], out[order[i]])
  IN st[Len(order)]

(* collectReceipts, then PersistState: the responses are handled first and *)
(* the finished transactions dispatched after them, in any order.          *)
Poll(out) ==
  LET retried  == {t \in DOMAIN monitored : out[t] = "retried"}
      finished == {t \in DOMAIN monitored : Finished(t, out[t])}
  IN /\ fresh /\ DOMAIN monitored # {}
     /\ IF \E t \in DOMAIN monitored : out[t] = "lost" THEN Fault ELSE UNCHANGED faults
     /\ \E new \in NewHashes(retried), responses \in Sequenced(retried),
           order \in Sequenced(finished) :
          LET handled == handleWorkerResponses(out, responses, new)
              st == dispatchFinishedTxs(handled, order, out)
          IN /\ monitored' = st.monitored
             /\ groups' = st.groups
             /\ cache' = cleanReceiptCache(st.cache)
             /\ Deliver(st.sent)
             /\ Broadcast(retried, new)
     /\ fresh' = FALSE
     /\ PersistState
     /\ UNCHANGED waiting

(* A tick without a new block, or one at which the node does not answer.   *)
IdleTick ==
  /\ UNCHANGED <<chain, fresh, watcher, clients, faults>>
  /\ PersistState

(* LoadState after a restart; the tasks that waited have to ask again.     *)
LoadState ==
  /\ monitored' = saved.monitored
  /\ groups' = [g \in DOMAIN saved.members |->
                  [members |-> saved.members[g], response |-> "pending"]]
  /\ cache' = [o \in saved.receipts |-> [age |-> 0, recovered |-> TRUE]]

Restart ==
  /\ Fault
  /\ LoadState
  /\ waiting' = [s \in Subscribers |-> None]
  /\ answer' = [s \in Subscribers |-> "none"]
  /\ fresh' = TRUE
  /\ UNCHANGED saved

Crash == Restart /\ UNCHANGED chain

(* A crash in a poll, after a replacement of t was sent.                   *)
CrashInPoll(t) ==
  /\ fresh /\ "retried" \in handleResponse(t)
  /\ \E new \in NewHashes({t}) : Broadcast({t}, new)
  /\ Restart

Next ==
  \/ \E t \in Txns : Mine(t) \/ Reorg(t) \/ Drop(t)
  \/ EmptyBlock
  \/ \E s \in Subscribers, t \in Originals, auto \in BOOLEAN : Subscribe(s, t, auto)
  \/ \E s \in Subscribers : GetReceiptBlocking(s)
  \/ \E out \in Outcomes : Poll(out)
  \/ IdleTick
  \/ Crash
  \/ \E t \in DOMAIN monitored : CrashInPoll(t)

Spec == Init /\ [][Next]_vars

(* The chain grows, and Loop's timer polls again and again: fresh is set by*)
(* the next block and cleared by the poll that looks at it.                *)
FairSpec ==
  /\ Spec
  /\ WF_fresh(~fresh /\ fresh' = TRUE)
  /\ WF_fresh(fresh /\ DOMAIN monitored # {} /\ fresh' = FALSE)

-----------------------------------------------------------------------------
(* The retry group of a monitored transaction is in RetryGroups and lists  *)
(* it, whatever order dispatchFinishedTxs takes and after a recovery:      *)
(* queue and handleWorkerResponse use the group without looking.           *)
GroupHoldsMonitored ==
  TypeOK /\ \A t \in DOMAIN monitored :
    /\ monitored[t].group \in DOMAIN groups
    /\ t \in Range(groups[monitored[t].group].members)

(* A subscriber reads a receipt only when a transaction with the nonce it  *)
(* asked about is in the chain and has the finality delay behind it, after *)
(* replacements, reorganisations and a recovery of the receipt cache.      *)
ReceiptIsFinal ==
  [][\A s \in Subscribers : answer[s] = "none" /\ answer'[s] = "receipt" =>
       \E t \in Txns : /\ nonce[t] = waiting'[s]
                       /\ status[t] = "mined" /\ conf[t] = FinalityDelay]_vars

(* A subscriber reads an error only when no transaction that its group     *)
(* lists has become final: neither the order in which dispatchFinishedTxs  *)
(* takes a receipt and the errors of its siblings, nor a sibling's error in*)
(* an earlier poll or after a restart, hides a receipt.                    *)
ErrorMeansNoneFinal ==
  [][\A s \in Subscribers : answer[s] = "none" /\ answer'[s] = "error" =>
       ~\E t \in Range(groups[waiting'[s]].members) :
          status[t] = "mined" /\ conf[t] = FinalityDelay]_vars

(* Every transaction of a group that was replaced has failed: sendReceipt  *)
(* sends no error to such a group, and nothing watches it any more.        *)
Abandoned(g) ==
  /\ g \in DOMAIN groups /\ Len(groups[g].members) > 1
  /\ \A t \in DOMAIN monitored : monitored[t].group # g

(* A transaction of the group is pending and will be replaced once stale.  *)
Replaceable(g) ==
  \E t \in DOMAIN monitored :
    monitored[t].group = g /\ monitored[t].EnableAutoRetry /\ status[t] = "pending"

(* Every subscriber that waits is answered, with a receipt or an error,    *)
(* except when it is gone (its context is done, or the node has restarted),*)
(* when the network keeps transactions of its group pending for good, or   *)
(* when all of them, more than one, have failed.                           *)
AnsweredEventually ==
  \A s \in Subscribers, g \in Originals :
    [](waiting[s] = g => \/ <>(answer[s] # "none" \/ waiting[s] # g \/ Abandoned(g))
                        \/ []<>Replaceable(g))
=============================================================================
