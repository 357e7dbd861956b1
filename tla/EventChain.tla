------------------------------ MODULE EventChain ------------------------------
(***************************************************************************)
(* The tamper-evident event log of the Cloud Command Center                *)
(* (backend/models.go insertEvent and pruneEventsForDevice,                *)
(* backend/event_chain.go).                                                *)
(*                                                                         *)
(* Every event row carries the hash of its own content together with the   *)
(* hash of the tenant's previous event.  insertEvent is four SQL           *)
(* statements on a pool of ten connections, with no transaction and no     *)
(* lock: read the chain tip, INSERT, delete by age, delete by count.  Each *)
(* statement is one action here, so inserts interleave freely, and any of  *)
(* them may fail or be the last before the process dies.                   *)
(***************************************************************************)
EXTENDS Integers, FiniteSets

CONSTANTS
  Tenants,      \* tenant ids; one chain each
  Devices,      \* device ids
  TenantOf,     \* devices.tenant_id
  Writers,      \* concurrent callers of insertEvent (HTTP handlers, sweeps)
  Keep,         \* maxEventsPerDevice
  MaxEvents,    \* bound: calls of insertEvent in a behaviour
  MaxStamp,     \* bound: the clock's readings
  MaxFaults,    \* bound: statements that fail and deaths of the process
  Idle          \* a writer between calls

ASSUME KeepAssumption == Keep \in Nat \ {0}
ASSUME TenantAssumption == TenantOf \in [Devices -> Tenants]
ASSUME WriterAssumption == IsFiniteSet(Writers)
ASSUME BoundAssumption ==
  MaxEvents \in Nat /\ MaxStamp \in Nat \ {0} /\ MaxFaults \in Nat
ASSUME IdleAssumption == Idle \notin Devices

VARIABLES
  rows,     \* the events table
  nextId,   \* how many calls have begun, plus one; names a call's event
  nextSeq,  \* the sequence behind events.seq (BIGSERIAL)
  now,      \* the clock, as the rank of its RFC3339 text
  expiry,   \* created_at at or below this is older than eventRetentionDays
  pinned,   \* event ids referenced by event_notification_state or incidents
  writer,   \* writer[w]: where the call of w is, and what it holds
  faults    \* failed statements and deaths so far

(* Kept for the properties alone: what has happened, never read by a step.  *)
VARIABLES
  missed,     \* missed[d]: calls that stored a row for d and ended short of the
              \* cap's DELETE, since that DELETE last ran for d
  overtaken,  \* tenants whose tip moved between a call's read and its INSERT
  holed       \* tenants that lost a row from between two they kept

table   == <<rows, nextId, nextSeq, now, expiry, pinned, writer, faults>>
history == <<missed, overtaken, holed>>
vars    == <<table, history>>

-----------------------------------------------------------------------------
\* genesisSeed, the prev_hash of a first event.
Genesis == << >>

\* Mutant of ComputeEventHash: the message is left out of what is hashed.
HashWithoutMessage(id, tenant, dev, message, at, prevHash) ==
  <<id, tenant, dev, at, prevHash>>

\* SHA-256 over the row's fields and the previous hash.  Collision freedom is
\* the only property the log relies on, so the hash is the tuple itself.
ComputeEventHash(id, tenant, dev, message, at, prevHash) ==
  <<id, tenant, dev, message, at, prevHash>>

TenantRows(S, t) == {r \in S : r.tenant = t}
DeviceRows(S, d) == {r \in S : r.dev = d}

\* ORDER BY seq DESC LIMIT 1: the one hash the next event chains from.
IsTip(S, r) == r \in S /\ \A s \in S : s.seq <= r.seq

\* Mutant of ChainPrevHash: the oldest event instead of the newest.
PrevHashOfOldest(S, t) ==
  LET chain == TenantRows(S, t)
  IN  IF chain = {} THEN {Genesis}
      ELSE {r.hash : r \in {c \in chain : \A s \in chain : c.seq <= s.seq}}

ChainPrevHash(S, t) ==
  LET chain == TenantRows(S, t)
  IN  IF chain = {} THEN {Genesis} ELSE {r.hash : r \in {c \in chain : IsTip(chain, c)}}

\* What ORDER BY created_at DESC LIMIT n may return of S.  Rows of one sweep
\* share its time, and the order of rows that tie is the database's choice.
Newest(S, n) ==
  {K \in SUBSET S :
     /\ Cardinality(K) <= n
     /\ K # S => Cardinality(K) = n
     /\ \A k \in K, r \in S \ K : r.at <= k.at}

\* Mutant of Kept: one row too many is kept.
KeptPlusOne(S, d) == Newest(DeviceRows(S, d), Keep + 1)

\* The rows the cap leaves: all but these go (id NOT IN (...)).
Kept(S, d) == Newest(DeviceRows(S, d), Keep)

Expired(S, d) == {r \in DeviceRows(S, d) : r.at <= expiry}

-----------------------------------------------------------------------------
(* verifyEventChain: rows of the tenant in seq order, each checked against  *)
(* a recomputation of its own hash and, from the second on, against the     *)
(* hash of the row before it among those that survive.                      *)

Recomputes(r) ==
  r.hash = ComputeEventHash(r.id, r.tenant, r.dev, r.message, r.at, r.prev)

Precedes(S, p, r) ==
  /\ p.seq < r.seq
  /\ \A s \in S : ~(p.seq < s.seq /\ s.seq < r.seq)

BrokenRows(S, t) ==
  LET chain == TenantRows(S, t)
  IN  {r \in chain : \/ ~Recomputes(r)
                     \/ \E p \in chain : Precedes(chain, p, r) /\ r.prev # p.hash}

Intact(t) == BrokenRows(rows, t) = {}

-----------------------------------------------------------------------------
(* The history.  A call past its read holds a tip; Stale tenants are those  *)
(* one of whose calls holds a hash that is no longer the tip's.             *)

Stale == {t \in Tenants :
  /\ TenantRows(rows, t) # {}
  /\ \E w \in Writers :
       /\ writer[w].pc = "insert"
       /\ TenantOf[writer[w].dev] = t
       /\ writer[w].tip \notin ChainPrevHash(rows, t)}

\* Tenants from whose chain going from S to T takes a row with an older and a
\* newer one left.
Punctured(S, T) == {t \in Tenants :
  \E s \in TenantRows(S, t) \ T, p, r \in TenantRows(T, t) :
    p.seq < s.seq /\ s.seq < r.seq}

\* Calls for d that have stored their row and are still to prune.
Pruning(d) == {w \in Writers : writer[w].pc \in {"age", "count"} /\ writer[w].dev = d}

Record ==
  /\ overtaken' = overtaken \cup Stale'
  /\ holed' = holed \cup Punctured(rows, rows')

-----------------------------------------------------------------------------
NoCall == [pc |-> "idle", dev |-> Idle, id |-> 0, at |-> 0, tip |-> Genesis]

Init ==
  /\ rows = {}
  /\ nextId = 1
  /\ nextSeq = 1
  /\ now = 1
  /\ expiry = 0
  /\ pinned = {}
  /\ writer = [w \in Writers |-> NoCall]
  /\ faults = 0
  /\ missed = [d \in Devices |-> 0]
  /\ overtaken = {}
  /\ holed = {}

\* A caller enters insertEvent with an event id and a time it took before, the
\* present one or the last: a sweep takes one for all the events it inserts,
\* and RFC3339Nano text does not order the times within a second.
Begin(w, d) ==
  /\ writer[w].pc = "idle"
  /\ nextId <= MaxEvents
  /\ \E at \in {now - 1, now} :
       /\ at > expiry
       /\ writer' = [writer EXCEPT ![w] =
            [pc |-> "tip", dev |-> d, id |-> nextId, at |-> at, tip |-> Genesis]]
  /\ nextId' = nextId + 1
  /\ UNCHANGED <<rows, nextSeq, now, expiry, pinned, faults, history>>

ReadTip(w) ==
  /\ writer[w].pc = "tip"
  /\ \E h \in ChainPrevHash(rows, TenantOf[writer[w].dev]) :
       writer' = [writer EXCEPT ![w].pc = "insert", ![w].tip = h]
  /\ UNCHANGED <<rows, nextId, nextSeq, now, expiry, pinned, faults, history>>

NewRow(w) ==
  LET c == writer[w]
      t == TenantOf[c.dev]
  IN  [seq |-> nextSeq, id |-> c.id, tenant |-> t, dev |-> c.dev, at |-> c.at,
       message |-> "original", prev |-> c.tip,
       hash |-> ComputeEventHash(c.id, t, c.dev, "original", c.at, c.tip)]

\* Mutant of Insert: the row takes a sequence number without using it up.
InsertReusingSeq(w) ==
  /\ writer[w].pc = "insert"
  /\ rows' = rows \cup {NewRow(w)}
  /\ writer' = [writer EXCEPT ![w].pc = "age"]
  /\ Record
  /\ UNCHANGED <<nextId, nextSeq, now, expiry, pinned, faults, missed>>

Insert(w) ==
  /\ writer[w].pc = "insert"
  /\ rows' = rows \cup {NewRow(w)}
  /\ nextSeq' = nextSeq + 1
  /\ writer' = [writer EXCEPT ![w].pc = "age"]
  /\ Record
  /\ UNCHANGED <<nextId, now, expiry, pinned, faults, missed>>

\* insertEvent returns to its caller.
Return(w) == writer' = [writer EXCEPT ![w] = NoCall]

\* The call returns with its row stored and the cap not applied.
ReturnUnpruned(w) ==
  /\ Return(w)
  /\ missed' = [missed EXCEPT ![writer[w].dev] = @ + 1]

\* The foreign keys on events(id) have no ON DELETE clause, so a DELETE that
\* reaches a referenced row fails as a whole and insertEvent returns its error.
Refused(victims) == \E r \in victims : r.id \in pinned

PruneByAge(w) ==
  /\ writer[w].pc = "age"
  /\ LET victims == Expired(rows, writer[w].dev)
     IN  IF Refused(victims)
         THEN ReturnUnpruned(w) /\ UNCHANGED rows
         ELSE /\ rows' = rows \ victims
              /\ writer' = [writer EXCEPT ![w].pc = "count"]
              /\ UNCHANGED missed
  /\ Record
  /\ UNCHANGED <<nextId, nextSeq, now, expiry, pinned, faults>>

PruneByCount(w) ==
  /\ writer[w].pc = "count"
  /\ \E kept \in Kept(rows, writer[w].dev) :
       LET victims == DeviceRows(rows, writer[w].dev) \ kept
       IN  IF Refused(victims)
           THEN ReturnUnpruned(w) /\ UNCHANGED rows
           ELSE /\ Return(w)
                /\ rows' = rows \ victims
                /\ missed' = [missed EXCEPT ![writer[w].dev] = 0]
  /\ Record
  /\ UNCHANGED <<nextId, nextSeq, now, expiry, pinned, faults>>

-----------------------------------------------------------------------------
(* What goes wrong.  Each of the four statements may come back with an      *)
(* error, and insertEvent then returns it; the statement may have been      *)
(* carried out all the same when it is the answer that was lost.  For the   *)
(* last one that is no different from returning.                            *)

Fault == faults < MaxFaults /\ faults' = faults + 1

FailBeforeRow(w) ==
  /\ writer[w].pc \in {"tip", "insert"}
  /\ Return(w)
  /\ Fault
  /\ UNCHANGED <<rows, nextId, nextSeq, now, expiry, pinned, history>>

FailAfterRow(w) ==
  /\ writer[w].pc = "insert"
  /\ rows' = rows \cup {NewRow(w)}
  /\ nextSeq' = nextSeq + 1
  /\ ReturnUnpruned(w)
  /\ Record
  /\ Fault
  /\ UNCHANGED <<nextId, now, expiry, pinned>>

FailPruning(w) ==
  /\ writer[w].pc \in {"age", "count"}
  /\ \/ UNCHANGED rows
     \/ /\ writer[w].pc = "age"
        /\ ~Refused(Expired(rows, writer[w].dev))
        /\ rows' = rows \ Expired(rows, writer[w].dev)
  /\ ReturnUnpruned(w)
  /\ Record
  /\ Fault
  /\ UNCHANGED <<nextId, nextSeq, now, expiry, pinned>>

\* The backend's process dies and is started again: every call is gone, with
\* what its committed statements did left behind.
Crash ==
  /\ \E w \in Writers : writer[w].pc # "idle"
  /\ writer' = [w \in Writers |-> NoCall]
  /\ missed' = [d \in Devices |-> missed[d] + Cardinality(Pruning(d))]
  /\ Fault
  /\ UNCHANGED <<rows, nextId, nextSeq, now, expiry, pinned, overtaken, holed>>

-----------------------------------------------------------------------------
Tick ==
  /\ now < MaxStamp
  /\ now' = now + 1
  /\ UNCHANGED <<rows, nextId, nextSeq, expiry, pinned, writer, faults, history>>

\* Time passes until another event is older than eventRetentionDays.  A call
\* lasts seconds, so no event of a running call is that old.
Age ==
  /\ expiry + 1 < now
  /\ \A w \in Writers : writer[w].pc # "idle" => expiry + 1 < writer[w].at
  /\ expiry' = expiry + 1
  /\ UNCHANGED <<rows, nextId, nextSeq, now, pinned, writer, faults, history>>

\* An administrator reads or clears a notification, or opens an incident from
\* an event: a row that references events(id) (live.go, incidents.go).
Pin(r) ==
  /\ r.id \notin pinned
  /\ pinned' = pinned \cup {r.id}
  /\ UNCHANGED <<rows, nextId, nextSeq, now, expiry, writer, faults, history>>

\* UPDATE events SET message = ... by someone with SQL access, the case
\* event_chain_test.go simulates.
Edit(r) ==
  /\ r.message = "original"
  /\ rows' = (rows \ {r}) \cup {[r EXCEPT !.message = "edited"]}
  /\ UNCHANGED <<nextId, nextSeq, now, expiry, pinned, writer, faults, history>>

Finish(w) == ReadTip(w) \/ Insert(w) \/ PruneByAge(w) \/ PruneByCount(w)

Fail(w) == FailBeforeRow(w) \/ FailAfterRow(w) \/ FailPruning(w)

Environment == Tick \/ Age \/ (\E r \in rows : Pin(r) \/ Edit(r)) \/ Crash

Next ==
  \/ \E w \in Writers : (\E d \in Devices : Begin(w, d)) \/ Finish(w) \/ Fail(w)
  \/ Environment

Spec == Init /\ [][Next]_vars

-----------------------------------------------------------------------------
\* The types of the state.  A hash has no type to name, only structure.
TypeOK ==
  /\ nextId \in 1..(MaxEvents + 1)
  /\ nextSeq \in Nat \ {0}
  /\ now \in 1..MaxStamp
  /\ expiry \in 0..MaxStamp
  /\ faults \in 0..MaxFaults
  /\ pinned \subseteq 1..MaxEvents
  /\ missed \in [Devices -> Nat]
  /\ overtaken \subseteq Tenants
  /\ holed \subseteq Tenants
  /\ \A r \in rows :
       /\ DOMAIN r = {"seq", "id", "tenant", "dev", "at", "message", "prev", "hash"}
       /\ r.seq \in 1..(nextSeq - 1)
       /\ r.id \in 1..(nextId - 1)
       /\ r.at \in 0..MaxStamp
       /\ r.dev \in Devices
       /\ r.tenant = TenantOf[r.dev]
       /\ r.message \in {"original", "edited"}
  /\ DOMAIN writer = Writers
  /\ \A w \in Writers :
       /\ DOMAIN writer[w] = {"pc", "dev", "id", "at", "tip"}
       /\ writer[w].pc \in {"idle", "tip", "insert", "age", "count"}
       /\ writer[w].at \in 0..MaxStamp
       /\ writer[w].pc # "idle" => /\ writer[w].dev \in Devices
                                   /\ writer[w].id \in 1..(nextId - 1)

\* A row changed behind insertEvent's back is always found: verify-chain never
\* reports a tenant intact while one of its surviving rows was edited, however
\* inserts, pruning, failures and the edit interleaved.
TamperEvident ==
  \A r \in rows : r.message = "edited" => ~Intact(r.tenant)

Unedited(t) == \A r \in TenantRows(rows, t) : r.message = "original"

\* What event_chain.go says of a chain retention has shortened, that it "can
\* still be fully verified either way": a tenant nobody edited is reported
\* intact.  The code does not keep to it.  The cap is a device's and the chain a
\* tenant's, so with two devices and one insert at a time pruning one device
\* takes rows from between the other's, and what is left no longer links.
HonestHistoryVerifies == \A t \in Tenants : Unedited(t) => Intact(t)

\* What an operator may conclude from verify-chain's alarm: a row was edited,
\* or the newest row changed between some insertEvent's read of it and its
\* INSERT, or pruning took a row from between two others.  Nothing else, no
\* failed statement, death of the process, refused DELETE or tie of
\* created_at, ever raises it.
AlarmsAreExplained ==
  \A t \in Tenants :
    Unedited(t) => Intact(t) \/ t \in overtaken \/ t \in holed

\* How far retention can be missed: a device is over its cap by at most the
\* calls still on their way to the DELETE, plus those that ended short of it
\* (refused by a foreign key, failed, or cut off by the process's death) since
\* it was last carried out.  One call that completes makes up for them all.
OverCapIsOwed ==
  \A d \in Devices :
    Cardinality(DeviceRows(rows, d)) <= Keep + missed[d] + Cardinality(Pruning(d))
==============================================================================
