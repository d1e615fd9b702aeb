----------------------------- MODULE Scheduler -----------------------------
(***************************************************************************)
(* The account scheduler of backend/internal/scheduler/scheduler.go: the   *)
(* ready list, the hot set, sticky sessions, per-account lease counts and  *)
(* the goroutines that acquire, wait for and release leases.               *)
(*                                                                         *)
(* One atomic action is one critical section of Scheduler.mu.  signal()    *)
(* runs after the unlock, so it is a step of its own: "signals" counts the *)
(* goroutines between their unlock and their signal.  The channel notify   *)
(* has capacity one and delivers straight to a goroutine blocked in select *)
(* (recvq, first in first out) when there is one.                          *)
(***************************************************************************)
EXTENDS Account, ReadyLists

CONSTANTS
    Ids,            \* account ids, ordered as the strings they stand for
    Clients,        \* goroutines calling AcquireSticky
    KeyOf,          \* sticky key of each client's requests, NoKey for none
    Keys, NoKey,    \* sticky keys and the empty key
    UpsertItems,    \* lifecycle states callers publish with Upsert
    MaxActives,     \* persisted per-account concurrency limits
    Priorities,     \* persisted priorities
    ParkReasons,    \* reasons MoveUnavailable is called with
    MaxActiveCaps,  \* values ApplyMaxActive is called with
    ActiveSizes,    \* values ApplyActiveSize is called with
    Strategies,     \* strategies WithStrategy is called with
    StickyModes,    \* values WithSticky is called with
    MaxSignals,     \* bound: goroutines between unlock and signal
    RevisionMod,    \* revision is a counter of this width (2^64 in the code)
    CursorMod       \* rrCursor is a counter of this width (2^64 in the code)

NoId == 0

ASSUME SchedulerAssumption ==
    /\ Ids \subseteq Nat \ {NoId} /\ IsFiniteSet(Ids)
    /\ IsFiniteSet(Clients)
    /\ NoKey \notin Keys /\ KeyOf \in [Clients -> Keys \cup {NoKey}]
    /\ UpsertItems \subseteq Account
    /\ MaxActives \subseteq Nat \ {0} /\ MaxActives # {}
    /\ Priorities \subseteq Nat /\ Priorities # {}
    /\ ParkReasons \subseteq Reasons \ {"none"}
    /\ MaxActiveCaps \subseteq Nat \ {0} /\ MaxActiveCaps # {}
    /\ ActiveSizes \subseteq Nat /\ ActiveSizes # {}
    /\ Strategies \subseteq {"round-robin", "fill-first"} /\ Strategies # {}
    /\ StickyModes \subseteq BOOLEAN /\ StickyModes # {}
    /\ MaxSignals \in Nat \ {0}
    /\ RevisionMod \in Nat \ {0} /\ RevisionMod > Cardinality(Ids)
    /\ CursorMod \in Nat \ {0}

VARIABLES
    present,    \* keys of the accounts map
    life,       \* lifecycle fields of each account
    active,     \* Account.Active
    maxActive,  \* Account.MaxActive, after clamping
    priority,   \* Account.Priority
    ready,      \* the ready list
    hot,        \* the hot set
    sticky,     \* sticky key -> account id
    conf,       \* process-wide settings: cap, activeSize, strategy, stickyOn
    rrCursor,   \* round-robin cursor
    revision,   \* pool revision
    notify,     \* tokens buffered in the channel, of capacity one
    recvq,      \* clients blocked in select, oldest first
    signals,    \* pending signal() calls
    pc,         \* where each client is in AcquireSticky
    snap,       \* Ready field of a waiting client's saturated error
    lease       \* account each client holds a lease on

acctVars == <<present, life, active, maxActive, priority, ready, hot, revision>>
chanVars == <<notify, recvq, signals>>
vars == <<present, life, active, maxActive, priority, ready, hot, sticky, conf,
          rrCursor, revision, notify, recvq, signals, pc, snap, lease>>

Lower(m, n) == IF m <= n THEN m ELSE n

-----------------------------------------------------------------------------
(* Eligibility and the hot set.                                            *)

Eligible(id, h) ==
    \/ conf.activeSize = 0
    \/ id \in h
    \/ Cardinality(h) < conf.activeSize

\* The hot sets ensureHotLocked may leave: map order decides whom it evicts.
EnsureHot(h, id) ==
    IF conf.activeSize = 0 \/ id \in h THEN {h}
    ELSE IF Cardinality(h) < conf.activeSize THEN {h \cup {id}}
    ELSE LET idle == {x \in h : x \notin present \/ life[x].pool # "ready"
                                                  \/ active[x] = 0}
         IN  IF idle = {} THEN {h}
             ELSE {(h \ {x}) \cup {id} : x \in idle}

\* Mutant: the quota test of Account.Available forgotten.
CanServe_NoQuota(id, h) ==
    id \in present /\ life[id].pool = "ready" /\ active[id] < maxActive[id]
        /\ Eligible(id, h)

CanServe(id, h) ==
    /\ id \in present
    /\ Available(life[id], active[id], maxActive[id])
    /\ Eligible(id, h)

-----------------------------------------------------------------------------
(* pickReadyLocked.                                                        *)

\* Ready accounts with known-empty quota leave the list while it is scanned.
Exhausted == {id \in Elems(ready) : id \in present /\ KnownExhausted(life[id])}

\* The hot set once the scan has reached position i.
HotAt(i) == hot \ {ready[j] : j \in {k \in 1..(i - 1) : ready[k] \in Exhausted}}

Candidates ==
    {i \in DOMAIN ready : ready[i] \notin Exhausted /\ CanServe(ready[i], HotAt(i))}

\* Mutant: the priority tier ignored.
TopPriority_Any(C) == C

TopPriority(C) ==
    {i \in C : \A j \in C : priority[ready[j]] <= priority[ready[i]]}

LeastLoaded(C) ==
    {i \in C : \A j \in C : active[ready[i]] <= active[ready[j]]}

\* Positions the strategy chooses from, and the position it chooses.
Finalists == LeastLoaded(TopPriority(Candidates))

Chosen ==
    IF conf.strategy = "fill-first"
    THEN CHOOSE i \in Finalists : \A j \in Finalists : ready[i] <= ready[j]
    ELSE Nth(Finalists, 1 + (rrCursor % Cardinality(Finalists)))

\* Mutant: no revision bump for the accounts the scan parks.
ParkExhausted_NoBump ==
    /\ life' = [id \in Ids |-> IF id \in Exhausted THEN ParkKnownExhausted(life[id])
                               ELSE life[id]]
    /\ ready' = Without(ready, Exhausted)
    /\ UNCHANGED revision

\* The scan's effect on the accounts it parks.
ParkExhausted ==
    /\ life' = [id \in Ids |-> IF id \in Exhausted THEN ParkKnownExhausted(life[id])
                               ELSE life[id]]
    /\ ready' = Without(ready, Exhausted)
    /\ revision' = (revision + Cardinality(Exhausted)) % RevisionMod

-----------------------------------------------------------------------------
Init ==
    /\ present \in SUBSET Ids
    /\ life \in [Ids -> UpsertItems \cup {Fresh}]
    /\ \A id \in Ids \ present : life[id] = Fresh
    /\ active = [id \in Ids |-> 0]
    /\ priority \in [Ids -> Priorities]
    /\ conf \in [cap : MaxActiveCaps, activeSize : ActiveSizes,
                 strategy : Strategies, stickyOn : StickyModes]
    /\ \E m \in [Ids -> MaxActives] :
          maxActive = [id \in Ids |-> Lower(m[id], conf.cap)]
    /\ ready \in Orders({id \in present : life[id].pool = "ready"})
    /\ hot = {}
    /\ sticky = [k \in Keys |-> NoId]
    /\ rrCursor = 0
    /\ revision = 1 % RevisionMod
    /\ notify = 0 /\ recvq = <<>> /\ signals = 0
    /\ pc = [c \in Clients |-> "idle"]
    /\ snap = [c \in Clients |-> 0]
    /\ lease = [c \in Clients |-> NoId]

-----------------------------------------------------------------------------
(* AcquireSticky: one pass through the locked part of its loop.            *)

Runnable(c) == pc[c] \in {"idle", "woken"}

Entry(c) == IF conf.stickyOn /\ KeyOf[c] # NoKey THEN sticky[KeyOf[c]] ELSE NoId

\* The empty pool is reported at once.
AcquireEmpty(c) ==
    /\ Runnable(c)
    /\ ready = <<>>
    /\ pc' = [pc EXCEPT ![c] = "idle"]
    /\ UNCHANGED <<acctVars, sticky, conf, rrCursor, chanVars, snap, lease>>

\* What both ways of handing out a lease do.
Grant(c, id, h, bind) ==
    /\ active' = [active EXCEPT ![id] = @ + 1]
    /\ hot' \in EnsureHot(h, id)
    /\ sticky' = IF conf.stickyOn /\ KeyOf[c] # NoKey
                 THEN [bind EXCEPT ![KeyOf[c]] = id] ELSE bind
    /\ lease' = [lease EXCEPT ![c] = id]
    /\ pc' = [pc EXCEPT ![c] = "leased"]

\* The bound account is still usable: reuse it.
AcquireSticky(c) ==
    /\ Runnable(c)
    /\ ready # <<>>
    /\ Entry(c) # NoId
    /\ CanServe(Entry(c), hot)
    /\ Grant(c, Entry(c), hot, sticky)
    /\ UNCHANGED <<present, life, maxActive, priority, ready, conf, rrCursor,
                   revision, chanVars, snap>>

\* The binding after a miss: dropped when expired or bound to an account
\* that has left the pool, kept when the account is merely busy.
AfterMiss(c, expired) ==
    LET e == Entry(c) IN
    IF e # NoId /\ (expired \/ e \notin present \/ life[e].pool # "ready")
    THEN [sticky EXCEPT ![KeyOf[c]] = NoId] ELSE sticky

Miss(c, expired) ==
    /\ Runnable(c)
    /\ ready # <<>>
    /\ expired => Entry(c) # NoId
    /\ Entry(c) # NoId => expired \/ ~CanServe(Entry(c), hot)

AcquirePick(c) ==
    \E expired \in BOOLEAN :
        /\ Miss(c, expired)
        /\ Candidates # {}
        /\ ParkExhausted
        /\ Grant(c, ready[Chosen], hot \ Exhausted, AfterMiss(c, expired))
        /\ rrCursor' = IF conf.strategy = "fill-first" THEN rrCursor
                       ELSE (rrCursor + 1) % CursorMod
        /\ UNCHANGED <<present, maxActive, priority, conf, chanVars, snap>>

\* Nothing free: remember a saturated error and go to the select.
AcquireWait(c) ==
    \E expired \in BOOLEAN :
        /\ Miss(c, expired)
        /\ Candidates = {}
        /\ ParkExhausted
        /\ hot' = hot \ Exhausted
        /\ sticky' = AfterMiss(c, expired)
        /\ snap' = [snap EXCEPT ![c] =
               Cardinality({id \in present : life[id].pool = "ready"} \ Exhausted)]
        /\ pc' = [pc EXCEPT ![c] = "unlocked"]
        /\ UNCHANGED <<present, active, maxActive, priority, conf, rrCursor,
                       chanVars, lease>>

-----------------------------------------------------------------------------
(* The select on notify and the context, and signal().                     *)

Select(c) ==
    /\ pc[c] = "unlocked"
    /\ IF notify = 1
       THEN /\ notify' = 0
            /\ pc' = [pc EXCEPT ![c] = "woken"]
            /\ snap' = [snap EXCEPT ![c] = 0]
            /\ UNCHANGED recvq
       ELSE /\ recvq' = Append(recvq, c)
            /\ pc' = [pc EXCEPT ![c] = "parked"]
            /\ UNCHANGED <<notify, snap>>
    /\ UNCHANGED <<acctVars, sticky, conf, rrCursor, signals, lease>>

\* The deadline passes: the saturated error is returned as it was taken.
CtxDone(c) ==
    /\ pc[c] \in {"unlocked", "parked"}
    /\ recvq' = Without(recvq, {c})
    /\ pc' = [pc EXCEPT ![c] = "idle"]
    /\ snap' = [snap EXCEPT ![c] = 0]
    /\ UNCHANGED <<acctVars, sticky, conf, rrCursor, notify, signals, lease>>

Signal ==
    /\ signals > 0
    /\ signals' = signals - 1
    /\ IF recvq # <<>>
       THEN /\ recvq' = Tail(recvq)
            /\ pc' = [pc EXCEPT ![Head(recvq)] = "woken"]
            /\ snap' = [snap EXCEPT ![Head(recvq)] = 0]
            /\ UNCHANGED notify
       ELSE /\ notify' = 1
            /\ UNCHANGED <<recvq, pc, snap>>
    /\ UNCHANGED <<acctVars, sticky, conf, rrCursor, lease>>

\* An operation that signals after its unlock.
Signals == signals < MaxSignals /\ signals' = signals + 1

-----------------------------------------------------------------------------
(* Operations of a lease holder.                                           *)

\* Parking the leased account also unbinds its sticky sessions.  It does not
\* signal: Release follows.  Two deadlines ahead of now need not be equal, so
\* the code may see a change where the abstraction sees none.
MoveUnavailable(c) ==
    /\ pc[c] = "leased"
    /\ lease[c] \in present
    /\ \E reason \in ParkReasons :
          LET id     == lease[c]
              parked == MarkUnavailable(life[id], reason, "future", "other")
          IN  /\ life' = [life EXCEPT ![id] = parked]
              /\ ready' = Without(ready, {id})
              /\ hot' = hot \ {id}
              /\ sticky' = [k \in Keys |-> IF sticky[k] = id THEN NoId ELSE sticky[k]]
              /\ revision' \in (IF parked = life[id] THEN {revision} ELSE {})
                                \cup {(revision + 1) % RevisionMod}
    /\ UNCHANGED <<present, active, maxActive, priority, conf, rrCursor, chanVars,
                   pc, snap, lease>>

\* The gateway parks an account right after response headers say its quota is
\* spent, but without headers it writes back the counters it read before
\* (gateway.go 561-565), so either value may be recorded and nothing follow.
RecordUsage(c) ==
    /\ pc[c] = "leased"
    /\ lease[c] \in present
    /\ \E exhausted \in BOOLEAN :
          life' = [life EXCEPT ![lease[c]] = SetQuota(@, exhausted)]
    /\ UNCHANGED <<present, active, maxActive, priority, ready, hot, revision, sticky,
                   conf, rrCursor, chanVars, pc, snap, lease>>

\* Mutant: the count is decremented even when a re-import has reset it.
Release_NoFloor(c) ==
    /\ pc[c] = "leased"
    /\ active' = IF lease[c] \in present
                 THEN [active EXCEPT ![lease[c]] = @ - 1] ELSE active
    /\ lease' = [lease EXCEPT ![c] = NoId]
    /\ pc' = [pc EXCEPT ![c] = "idle"]
    /\ Signals
    /\ UNCHANGED <<present, life, maxActive, priority, ready, hot, revision, sticky,
                   conf, rrCursor, notify, recvq, snap>>

\* Mutant: the slot of a parked account is not given back.
Release_ReadyOnly(c) ==
    /\ pc[c] = "leased"
    /\ active' = IF lease[c] \in Elems(ready) /\ active[lease[c]] > 0
                 THEN [active EXCEPT ![lease[c]] = @ - 1] ELSE active
    /\ lease' = [lease EXCEPT ![c] = NoId]
    /\ pc' = [pc EXCEPT ![c] = "idle"]
    /\ Signals
    /\ UNCHANGED <<present, life, maxActive, priority, ready, hot, revision, sticky,
                   conf, rrCursor, notify, recvq, snap>>

\* Mutant: no signal after the release.
Release_Silent(c) ==
    /\ pc[c] = "leased"
    /\ active' = IF lease[c] \in present /\ active[lease[c]] > 0
                 THEN [active EXCEPT ![lease[c]] = @ - 1] ELSE active
    /\ lease' = [lease EXCEPT ![c] = NoId]
    /\ pc' = [pc EXCEPT ![c] = "idle"]
    /\ UNCHANGED <<present, life, maxActive, priority, ready, hot, revision, sticky,
                   conf, rrCursor, chanVars, snap>>

\* The once-guarded release; the account may be gone, or its count zero.
Release(c) ==
    /\ pc[c] = "leased"
    /\ active' = IF lease[c] \in present /\ active[lease[c]] > 0
                 THEN [active EXCEPT ![lease[c]] = @ - 1] ELSE active
    /\ lease' = [lease EXCEPT ![c] = NoId]
    /\ pc' = [pc EXCEPT ![c] = "idle"]
    /\ Signals
    /\ UNCHANGED <<present, life, maxActive, priority, ready, hot, revision, sticky,
                   conf, rrCursor, notify, recvq, snap>>

-----------------------------------------------------------------------------
(* Operations of the recovery loop and of the administrator.               *)

\* Accounts in the map whose cooldown has run out.
Due == {id \in present : CooldownDue(life[id])}

PromoteDue ==
    /\ Due # {}
    /\ life' = [id \in Ids |-> IF id \in Due THEN MarkReady(life[id]) ELSE life[id]]
    /\ \E s \in Orders(Due) : ready' = ready \o s
    /\ revision' = (revision + 1) % RevisionMod
    /\ Signals
    /\ UNCHANGED <<present, active, maxActive, priority, hot, sticky, conf, rrCursor,
                   notify, recvq, pc, snap, lease>>

\* Mutant: the account is appended without being removed first.
Upsert_NoRemove(id, item, limit, prio) ==
    /\ present' = present \cup {id}
    /\ life' = [life EXCEPT ![id] = item]
    /\ active' = IF id \in present THEN active ELSE [active EXCEPT ![id] = 0]
    /\ maxActive' = [maxActive EXCEPT ![id] = Lower(limit, conf.cap)]
    /\ priority' = [priority EXCEPT ![id] = prio]
    /\ ready' = IF item.pool = "ready" THEN Append(ready, id) ELSE ready
    /\ hot' = hot \ {id}
    /\ revision' = (revision + 1) % RevisionMod
    /\ Signals
    /\ UNCHANGED <<sticky, conf, rrCursor, notify, recvq, pc, snap, lease>>

\* Publishing an account keeps the live lease count and moves the account to
\* the end of the ready list, out of the hot set.
Upsert(id, item, limit, prio) ==
    /\ present' = present \cup {id}
    /\ life' = [life EXCEPT ![id] = item]
    /\ active' = IF id \in present THEN active ELSE [active EXCEPT ![id] = 0]
    /\ maxActive' = [maxActive EXCEPT ![id] = Lower(limit, conf.cap)]
    /\ priority' = [priority EXCEPT ![id] = prio]
    /\ ready' = IF item.pool = "ready" THEN Append(Without(ready, {id}), id)
                ELSE Without(ready, {id})
    /\ hot' = hot \ {id}
    /\ revision' = (revision + 1) % RevisionMod
    /\ Signals
    /\ UNCHANGED <<sticky, conf, rrCursor, notify, recvq, pc, snap, lease>>

Delete(id) ==
    /\ id \in present
    /\ present' = present \ {id}
    /\ life' = [life EXCEPT ![id] = Fresh]
    /\ active' = [active EXCEPT ![id] = 0]
    /\ ready' = Without(ready, {id})
    /\ hot' = hot \ {id}
    /\ revision' = (revision + 1) % RevisionMod
    /\ Signals
    /\ UNCHANGED <<maxActive, priority, sticky, conf, rrCursor, notify, recvq, pc,
                   snap, lease>>

-----------------------------------------------------------------------------
(* Runtime settings.  None of them signals.                                *)

\* The ceiling clamps; raising it does not restore a clamped limit.
ApplyMaxActive(n) ==
    /\ conf' = [conf EXCEPT !.cap = n]
    /\ maxActive' = [id \in Ids |-> IF id \in present THEN Lower(maxActive[id], n)
                                    ELSE maxActive[id]]
    /\ UNCHANGED <<present, life, active, priority, ready, hot, revision, sticky,
                   rrCursor, chanVars, pc, snap, lease>>

\* Mutant: a smaller size does not shrink the hot set.
ApplyActiveSize_NoTrim(n) ==
    /\ conf' = [conf EXCEPT !.activeSize = n]
    /\ UNCHANGED <<acctVars, sticky, rrCursor, chanVars, pc, snap, lease>>

ApplyActiveSize(n) ==
    /\ conf' = [conf EXCEPT !.activeSize = n]
    /\ \E kept \in SUBSET hot :
          /\ Cardinality(kept) = Lower(n, Cardinality(hot))
          /\ hot' = kept
    /\ UNCHANGED <<present, life, active, maxActive, priority, ready, revision, sticky,
                   rrCursor, chanVars, pc, snap, lease>>

WithStrategy(s) ==
    /\ conf' = [conf EXCEPT !.strategy = s]
    /\ UNCHANGED <<acctVars, sticky, rrCursor, chanVars, pc, snap, lease>>

WithSticky(on) ==
    /\ conf' = [conf EXCEPT !.stickyOn = on]
    /\ UNCHANGED <<acctVars, sticky, rrCursor, chanVars, pc, snap, lease>>

\* Environment: a retry deadline passes.
Elapse(id) ==
    /\ id \in present /\ life[id].retryAt = "future"
    /\ life' = [life EXCEPT ![id].retryAt = "due"]
    /\ UNCHANGED <<present, active, maxActive, priority, ready, hot, revision, sticky,
                   conf, rrCursor, chanVars, pc, snap, lease>>

-----------------------------------------------------------------------------
ClientStep(c) ==
    \/ AcquireEmpty(c) \/ AcquireSticky(c) \/ AcquirePick(c) \/ AcquireWait(c)
    \/ Select(c) \/ CtxDone(c)
    \/ MoveUnavailable(c) \/ RecordUsage(c) \/ Release(c)

PoolStep ==
    \/ PromoteDue
    \/ \E id \in Ids : Delete(id) \/ Elapse(id)
    \/ \E id \in Ids, item \in UpsertItems, limit \in MaxActives, prio \in Priorities :
          Upsert(id, item, limit, prio)

SettingsStep ==
    \/ \E n \in MaxActiveCaps : ApplyMaxActive(n)
    \/ \E n \in ActiveSizes : ApplyActiveSize(n)
    \/ \E s \in Strategies : WithStrategy(s)
    \/ \E on \in StickyModes : WithSticky(on)

Next == (\E c \in Clients : ClientStep(c)) \/ Signal \/ PoolStep \/ SettingsStep

Spec == Init /\ [][Next]_vars

-----------------------------------------------------------------------------
(* Properties.                                                             *)

PCs == {"idle", "woken", "unlocked", "parked", "leased"}

\* Type correctness of the scheduler's fields; a lease count never goes below
\* zero and the clients with a lease are exactly those in state "leased".
TypeOK ==
    /\ present \subseteq Ids
    /\ life \in [Ids -> Account]
    /\ active \in [Ids -> Nat]
    /\ maxActive \in [Ids -> Nat \ {0}]
    /\ priority \in [Ids -> Nat]
    /\ ready \in Seq(Ids)
    /\ hot \subseteq Ids
    /\ sticky \in [Keys -> Ids \cup {NoId}]
    /\ conf \in [cap : Nat \ {0}, activeSize : Nat,
                 strategy : {"round-robin", "fill-first"}, stickyOn : BOOLEAN]
    /\ rrCursor \in Nat /\ revision \in 0..(RevisionMod - 1)
    /\ notify \in 0..1 /\ recvq \in Seq(Clients) /\ signals \in Nat
    /\ pc \in [Clients -> PCs]
    /\ snap \in [Clients -> Nat]
    /\ lease \in [Clients -> Ids \cup {NoId}]
    /\ \A c \in Clients : lease[c] # NoId <=> pc[c] = "leased"

\* The ready list and the accounts map never disagree: the list names each
\* account in the ready pool exactly once and no other (New, Upsert, Delete,
\* PromoteDue, MoveUnavailable and pickReadyLocked each maintain both).
ReadyList ==
    /\ NoDuplicates(ready)
    /\ Elems(ready) = {id \in present : life[id].pool = "ready"}

\* The hot set holds only ready accounts and at most activeSize of them, even
\* when ApplyActiveSize shrinks it while leases are out (eligibleLocked,
\* ensureHotLocked, dropHotLocked).
HotBounded ==
    /\ hot \subseteq Elems(ready)
    /\ Cardinality(hot) <= conf.activeSize

Holders(id) == {c \in Clients : lease[c] = id}

\* Capacity never leaks: a slot the scheduler counts as taken is held by some
\* client, whatever Upsert, Delete or a re-import did to the account while
\* the lease was out (Lease.Release, Upsert's copy of Active).
NoLeakedSlot == \A id \in present : active[id] <= Cardinality(Holders(id))

\* A lease is granted only below the account's concurrency limit, on a ready
\* account whose quota is not known to be empty, and only on an account that
\* is hot afterwards when the hot set is limited (AcquireSticky).
GrantSound ==
    [][\A c \in Clients :
          lease'[c] # lease[c] /\ lease'[c] # NoId =>
             LET id == lease'[c] IN
             /\ active'[id] <= maxActive[id]
             /\ id \in Elems(ready) \cap Elems(ready')
             /\ ~QuotaExhausted(life[id])
             /\ conf.activeSize > 0 => id \in hot']_vars

\* A request without a usable sticky binding is never given an account while a
\* free account of a higher priority, or a less loaded one of the same
\* priority, is ready in the hot set or the hot set has room for it
\* (pickReadyLocked).
PickOrder ==
    [][\A c \in Clients, id \in Ids :
          (lease'[c] # lease[c] /\ lease'[c] # NoId /\ Entry(c) # lease'[c]
             /\ id \in Elems(ready) /\ CanServe(id, hot)) =>
             LET got == lease'[c] IN
             \/ priority[id] < priority[got]
             \/ priority[id] = priority[got] /\ active[got] <= active[id]]_vars

\* Nobody sleeps on a free pool with no one left to wake them: without a limit
\* on the hot set, while a client is blocked and an account is free, a signal
\* is pending, or a woken client or a lease holder (whose Release signals) is
\* still running (signal, Release).
WaiterNotAbandoned ==
    conf.activeSize = 0 /\ recvq # <<>> /\ Candidates # {} =>
        signals > 0 \/ \E c \in Clients : pc[c] \in {"woken", "leased"}

\* The specification of a pool of leases, and its implementation: every change
\* of the set of ready accounts moves the revision (the gateway's quota
\* circuit is dropped when the revision differs), and leases are granted on
\* ready accounts only.
Pool == INSTANCE LeasePool WITH serving <- Elems(ready), epoch <- revision,
                                holder <- lease
ImplementsLeasePool == Pool!Spec
=============================================================================
