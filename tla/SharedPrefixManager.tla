------------------------- MODULE SharedPrefixManager -------------------------
(***************************************************************************)
(* SharedPrefixManager of kv_cache/novel.py over a PagedKVCache.  A registered     *)
(* prefix owns pages until the memory budget, its time to live or its tenant takes  *)
(* it; a client that asks for it gets copies, which are the client's to free.  A    *)
(* prefix is known by the hash of its first 64 tokens; its bytes are counted in      *)
(* pages.  Time: a prefix that nobody touches for its ttl is `stale'.  The inverse   *)
(* table _hash_to_prefix is only written and the counters are statistics.           *)
(***************************************************************************)
EXTENDS PagedKVCache, Selection, SequencesExt

CONSTANTS
  Prompt,           \* token sequences: [hash |-> ..., pages |-> how many they need]
  Tenant,
  MaxPrefixes,      \* max_prefixes, the maxlen of the list _lru
  Budget            \* memory_budget

ASSUME PrefixAssumption ==
  /\ MaxPrefixes \in Nat \ {0}
  /\ Budget \in Nat
  /\ \A q \in Prompt : q.pages \in Nat

VARIABLES
  prefix,           \* _prefixes
  tenantPrefixes,   \* _tenant_prefixes
  lru,              \* _lru, the next to evict first
  memory,           \* _current_memory
  held,             \* the clients' copies
  call              \* the registration whose pages are allocated but not recorded

managerVars == <<prefix, tenantPrefixes, lru, memory, held, call>>

Registered == DOMAIN prefix
NoCall == [pages |-> <<>>]
Ready == Idle /\ call = NoCall
PagesOf(h) == Range(prefix[h].pages)

ManagerInit ==
  /\ prefix = Nothing
  /\ tenantPrefixes = [t \in Tenant |-> {}]
  /\ lru = <<>>
  /\ memory = 0
  /\ held = {}
  /\ call = NoCall

\* What is left when some prefixes are evicted or expire: their pages are freed,
\* their bytes given back and their tenants' sets shortened.
Dropped(known, gone) == [h \in DOMAIN known \ gone |-> known[h]]
Bytes(known, hs) == SumFunction([h \in hs |-> Len(known[h].pages)])
PagesIn(known, hs) == UNION {Range(known[h].pages) : h \in hs}
WithoutTenants(index, known, gone) ==
  [t \in Tenant |-> index[t] \ {h \in gone : t \in known[h].tenants}]

\* Mutant: the bytes of expired prefixes stay counted.
ExpireKeepsBytes(gone) ==
  /\ prefix' = Dropped(prefix, gone)
  /\ tenantPrefixes' = WithoutTenants(tenantPrefixes, prefix, gone)
  /\ lru' = Minus(lru, gone)
  /\ PagesFreed(PagesIn(prefix, gone))
  /\ UNCHANGED <<memory, held, call>>

ExpireAll(gone) ==
  /\ prefix' = Dropped(prefix, gone)
  /\ tenantPrefixes' = WithoutTenants(tenantPrefixes, prefix, gone)
  /\ memory' = memory - Bytes(prefix, gone)
  /\ lru' = Minus(lru, gone)
  /\ PagesFreed(PagesIn(prefix, gone))
  /\ UNCHANGED <<held, call>>

\* The prefixes _reduce_memory evicts: from the old end of the list, until the rest
\* fits; a hash that is no longer registered is popped and passed over.
Popped(known, list, used) ==
  LET oldest(n) == Range(SubSeq(list, 1, n)) \cap DOMAIN known
      over(n) == used - Bytes(known, oldest(n)) > Budget
      n == CHOOSE n \in 0..Len(list) :
             /\ n < Len(list) => ~over(n)
             /\ \A m \in 0..(n - 1) : over(m)
  IN oldest(n)

\* The list has a maxlen: appending to a full one drops its oldest member.
Appended(list, h) ==
  IF Len(list) < MaxPrefixes THEN Append(list, h) ELSE Append(Tail(list), h)

Touched(h) == [prefix EXCEPT ![h].stale = FALSE]

RegisterKnown(t, q) ==
  /\ Ready
  /\ q.hash \in Registered
  /\ prefix' = [Touched(q.hash) EXCEPT ![q.hash].tenants = @ \cup {t}]
  /\ tenantPrefixes' = [tenantPrefixes EXCEPT ![t] = @ \cup {q.hash}]
  /\ UNCHANGED <<lru, memory, held, call, pagedVars>>

\* The pages of a new prefix are allocated; a MemoryError ends the call, and the pages
\* made until then stay in the table, nobody's.
RegisterNew(t, q) ==
  /\ Ready
  /\ q.hash \notin Registered
  /\ AllocPages(q.pages)
  /\ call' = IF Made(Blank(q.pages)) < q.pages THEN NoCall
             ELSE [pages |-> [i \in 1..q.pages |-> NewPage(i)], hash |-> q.hash, tenant |-> t]
  /\ UNCHANGED <<prefix, tenantPrefixes, lru, memory, held>>

\* Then the prefix is recorded, and _reduce_memory evicts, perhaps the new one.
Record ==
  LET h == call.hash
      known == [g \in Registered \cup {h} |->
                  IF g \in Registered THEN prefix[g]
                  ELSE [pages |-> call.pages, owner |-> call.tenant,
                        tenants |-> {call.tenant}, stale |-> FALSE]]
      list == Appended(lru, h)
      used == memory + Len(call.pages)
      gone == Popped(known, list, used)
  IN
  /\ call # NoCall
  /\ prefix' = Dropped(known, gone)
  /\ lru' = Minus(list, gone)
  /\ memory' = used - Bytes(known, gone)
  /\ tenantPrefixes' =
       WithoutTenants([tenantPrefixes EXCEPT ![call.tenant] = @ \cup {h}], known, gone)
  /\ PagesFreed(PagesIn(known, gone))
  /\ call' = NoCall
  /\ UNCHANGED held

\* get_prefix_pages: lookup moves the prefix to the young end of the list if it is
\* there, then its pages are copied; a MemoryError loses the copies made so far.
Younger(h) ==
  IF h \in Range(lru) THEN Append(Minus(lru, {h}), h) ELSE lru

\* Mutant: the client is handed the pages of the prefix, not copies.
GetPrefixPagesThemselves(h) ==
  /\ Ready
  /\ h \in Registered
  /\ ~prefix[h].stale
  /\ lru' = Younger(h)
  /\ held' = held \cup PagesOf(h)
  /\ UNCHANGED <<prefix, tenantPrefixes, memory, call, pagedVars>>

GetPrefixPages(h) ==
  LET rows == [i \in DOMAIN prefix[h].pages |-> ReadPage(prefix[h].pages[i])] IN
  /\ Ready
  /\ h \in Registered
  /\ ~prefix[h].stale
  /\ next + Len(rows) <= MaxPages
  /\ lru' = Younger(h)
  /\ PagesMade(rows)
  /\ held' = held \cup IF Made(rows) < Len(rows) THEN {}
                       ELSE {NewPage(i) : i \in DOMAIN rows}
  /\ UNCHANGED <<prefix, tenantPrefixes, memory, call>>

\* A lookup of a prefix past its time expires it.
LookupStale(h) ==
  /\ Ready
  /\ h \in Registered
  /\ prefix[h].stale
  /\ ExpireAll({h})

Stale == {h \in Registered : prefix[h].stale}

CleanupExpired == Ready /\ Stale # {} /\ ExpireAll(Stale)

\* The prefixes a tenant uses go, those it shares with others too.
ExpireTenant(t) == Ready /\ tenantPrefixes[t] # {} /\ ExpireAll(tenantPrefixes[t] \cap Registered)

\* clear forgets the prefixes and frees none of their pages.
ClearPrefixes ==
  /\ Ready
  /\ Registered # {}
  /\ prefix' = Nothing
  /\ tenantPrefixes' = [t \in Tenant |-> {}]
  /\ lru' = <<>>
  /\ memory' = 0
  /\ UNCHANGED <<held, call, pagedVars>>

TimePasses(h) ==
  /\ Ready
  /\ h \in Registered
  /\ prefix' = [prefix EXCEPT ![h].stale = TRUE]
  /\ UNCHANGED <<tenantPrefixes, lru, memory, held, call, pagedVars>>

ClientFrees(p) ==
  /\ Ready
  /\ FreePages({p})
  /\ held' = held \ {p}
  /\ UNCHANGED <<prefix, tenantPrefixes, lru, memory, call>>

\* auto_defrag of the serving engine.
PoolDefragments ==
  /\ call = NoCall
  /\ Defragment \/ MovePage \/ MovesOver
  /\ UNCHANGED managerVars

ManagerNext ==
  \/ \E t \in Tenant, q \in Prompt : RegisterKnown(t, q) \/ RegisterNew(t, q)
  \/ Record
  \/ \E h \in Registered : GetPrefixPages(h) \/ LookupStale(h) \/ TimePasses(h)
  \/ CleanupExpired
  \/ \E t \in Tenant : ExpireTenant(t)
  \/ ClearPrefixes
  \/ \E p \in held : ClientFrees(p)
  \/ PoolDefragments

ManagerSpec == PagedInit /\ ManagerInit /\ [][ManagerNext]_<<pagedVars, managerVars>>

-----------------------------------------------------------------------------
ManagerTypeOK ==
  /\ \A h \in Registered :
       prefix[h].pages \in Seq(Nat) /\ prefix[h].tenants \subseteq Tenant
  /\ tenantPrefixes \in [Tenant -> SUBSET {q.hash : q \in Prompt}]
  /\ Len(lru) <= MaxPrefixes
  /\ held \subseteq Nat

\* Nobody frees, moves or reuses a page from under a prefix: the pages of a prefix are
\* in the table until it is dropped, and belong to no other prefix and no client.
PrefixPagesLive ==
  \A h \in Registered :
    /\ PagesOf(h) \subseteq Live
    /\ PagesOf(h) \cap held = {}
    /\ \A g \in Registered \ {h} : PagesOf(g) \cap PagesOf(h) = {}

\* The bytes counted are those of the registered prefixes, however they went, and
\* between calls they are within the budget, also when the list, at its maximal
\* length, has silently forgotten prefixes that can no longer be evicted.
BudgetKept ==
  /\ memory = Bytes(prefix, Registered)
  /\ memory <= Budget

\* A tenant's set names a prefix exactly when the prefix names the tenant.
TenantsAgree ==
  \A t \in Tenant : tenantPrefixes[t] = {h \in Registered : t \in prefix[h].tenants}

\* The tables kept beside the prefixes agree with them.
TablesAgree == BudgetKept /\ TenantsAgree
=============================================================================
