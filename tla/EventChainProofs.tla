--------------------------- MODULE EventChainProofs ---------------------------
(***************************************************************************)
(* What holds of EventChain for every number of tenants, devices, writers, *)
(* events and faults, and every retention cap; and, in the last part, of   *)
(* the source of the agent's own events, Collector, for all families of    *)
(* readings and every window of degradation.                               *)
(***************************************************************************)
EXTENDS EventChain, Collector, FiniteSetTheorems, TLAPS

-----------------------------------------------------------------------------
(* Type correctness. *)

LEMMA TypeInit == Init => TypeOK
  BY BoundAssumption DEF Init, TypeOK, NoCall

LEMMA HistoryTypes ==
  ASSUME TypeOK, Record
  PROVE  overtaken' \subseteq Tenants /\ holed' \subseteq Tenants
  BY DEF TypeOK, Record, Stale, Punctured

LEMMA PruningIsCounted ==
  ASSUME NEW d \in Devices
  PROVE  IsFiniteSet(Pruning(d)) /\ Cardinality(Pruning(d)) \in Nat
  BY WriterAssumption, FS_Subset, FS_CardinalityType DEF Pruning

\* A call that returns leaves its writer's record and its count well typed.
LEMMA ReturnTypes ==
  ASSUME TypeOK, NEW w \in Writers, writer[w].pc # "idle",
         Return(w), nextId' = nextId
  PROVE  /\ DOMAIN writer' = Writers
         /\ \A v \in Writers :
              /\ DOMAIN writer'[v] = {"pc", "dev", "id", "at", "tip"}
              /\ writer'[v].pc \in {"idle", "tip", "insert", "age", "count"}
              /\ writer'[v].at \in 0..MaxStamp
              /\ writer'[v].pc # "idle" => /\ writer'[v].dev \in Devices
                                           /\ writer'[v].id \in 1..(nextId' - 1)
  BY BoundAssumption DEF TypeOK, Return, NoCall

LEMMA MissedTypes ==
  ASSUME TypeOK, NEW w \in Writers, writer[w].pc # "idle", ReturnUnpruned(w)
  PROVE  missed' \in [Devices -> Nat] /\ Return(w)
  BY DEF TypeOK, ReturnUnpruned

\* A row as stored is well typed.
LEMMA NewRowTypes ==
  ASSUME TypeOK, NEW w \in Writers, writer[w].pc = "insert", nextSeq' = nextSeq + 1,
         rows' = rows \cup {NewRow(w)}, nextId' = nextId
  PROVE  /\ nextSeq' \in Nat \ {0}
         /\ \A r \in rows' :
              /\ DOMAIN r = {"seq", "id", "tenant", "dev", "at", "message", "prev", "hash"}
              /\ r.seq \in 1..(nextSeq' - 1)
              /\ r.id \in 1..(nextId' - 1)
              /\ r.at \in 0..MaxStamp
              /\ r.dev \in Devices
              /\ r.tenant = TenantOf[r.dev]
              /\ r.message \in {"original", "edited"}
  BY DEF TypeOK, NewRow

LEMMA TypeNext == TypeOK /\ [Next]_vars => TypeOK'
<1> SUFFICES ASSUME TypeOK, [Next]_vars PROVE TypeOK'
  OBVIOUS
<1> USE BoundAssumption, TenantAssumption
<1>1. ASSUME NEW w \in Writers, NEW d \in Devices, Begin(w, d) PROVE TypeOK'
  <2>1. PICK at \in {now - 1, now} : /\ at > expiry
          /\ writer' = [writer EXCEPT ![w] =
               [pc |-> "tip", dev |-> d, id |-> nextId, at |-> at, tip |-> Genesis]]
    BY <1>1 DEF Begin
  <2>2. at \in 0..MaxStamp
    BY <2>1 DEF TypeOK
  <2> QED BY <1>1, <2>1, <2>2 DEF Begin, TypeOK, history
<1>2. ASSUME NEW w \in Writers, ReadTip(w) PROVE TypeOK'
  BY <1>2 DEF ReadTip, TypeOK, history
<1>3. ASSUME NEW w \in Writers, Insert(w) PROVE TypeOK'
  <2>1. overtaken' \subseteq Tenants /\ holed' \subseteq Tenants
    BY <1>3, HistoryTypes DEF Insert
  <2>2. /\ DOMAIN writer' = Writers
        /\ writer'[w].pc = "age" /\ writer'[w].dev = writer[w].dev
        /\ writer'[w].id = writer[w].id /\ writer'[w].at = writer[w].at
        /\ DOMAIN writer'[w] = DOMAIN writer[w]
        /\ \A v \in Writers \ {w} : writer'[v] = writer[v]
    BY <1>3 DEF Insert, TypeOK
  <2>3. writer[w].pc = "insert" /\ nextId' = nextId /\ UNCHANGED <<now, expiry, faults, pinned, missed>>
    BY <1>3 DEF Insert
  <2> QED BY <1>3, <2>1, <2>2, <2>3, NewRowTypes DEF Insert, TypeOK
<1>4. ASSUME NEW w \in Writers, PruneByAge(w) PROVE TypeOK'
  <2>1. overtaken' \subseteq Tenants /\ holed' \subseteq Tenants
    BY <1>4, HistoryTypes DEF PruneByAge
  <2>2. CASE Refused(Expired(rows, writer[w].dev))
    <3>1. ReturnUnpruned(w) /\ writer[w].pc # "idle"
          /\ UNCHANGED <<rows, nextId, nextSeq, now, expiry, pinned, faults>>
      BY <1>4, <2>2 DEF PruneByAge
    <3> QED BY <2>1, <3>1, MissedTypes, ReturnTypes DEF TypeOK
  <2>3. CASE ~Refused(Expired(rows, writer[w].dev))
    <3>1. /\ rows' \subseteq rows
          /\ writer' = [writer EXCEPT ![w].pc = "count"] /\ writer[w].pc = "age"
          /\ UNCHANGED <<nextId, nextSeq, now, expiry, pinned, faults, missed>>
      BY <1>4, <2>3 DEF PruneByAge
    <3> QED BY <2>1, <3>1 DEF TypeOK
  <2> QED BY <2>2, <2>3
<1>5. ASSUME NEW w \in Writers, PruneByCount(w) PROVE TypeOK'
  <2>1. overtaken' \subseteq Tenants /\ holed' \subseteq Tenants
    BY <1>5, HistoryTypes DEF PruneByCount
  <2>2. writer[w].pc # "idle" /\ UNCHANGED <<nextId, nextSeq, now, expiry, pinned, faults>>
    BY <1>5 DEF PruneByCount
  <2>3. rows' \subseteq rows /\ Return(w) /\ missed' \in [Devices -> Nat]
    BY <1>5, <2>2, MissedTypes DEF PruneByCount, TypeOK
  <2> QED BY <2>1, <2>2, <2>3, ReturnTypes DEF TypeOK
<1>6. ASSUME NEW w \in Writers, FailBeforeRow(w) PROVE TypeOK'
  <2>1. writer[w].pc # "idle" /\ Return(w)
        /\ UNCHANGED <<rows, nextId, nextSeq, now, expiry, pinned, missed, overtaken, holed>>
        /\ faults' \in 0..MaxFaults
    BY <1>6 DEF FailBeforeRow, Fault, history, TypeOK
  <2> QED BY <2>1, ReturnTypes DEF TypeOK
<1>7. ASSUME NEW w \in Writers, FailAfterRow(w) PROVE TypeOK'
  <2>1. overtaken' \subseteq Tenants /\ holed' \subseteq Tenants
    BY <1>7, HistoryTypes DEF FailAfterRow
  <2>2. /\ writer[w].pc = "insert" /\ ReturnUnpruned(w)
        /\ rows' = rows \cup {NewRow(w)} /\ nextSeq' = nextSeq + 1
        /\ UNCHANGED <<nextId, now, expiry, pinned>>
        /\ faults' \in 0..MaxFaults
    BY <1>7 DEF FailAfterRow, Fault, TypeOK
  <2> QED BY <2>1, <2>2, MissedTypes, ReturnTypes, NewRowTypes DEF TypeOK
<1>8. ASSUME NEW w \in Writers, FailPruning(w) PROVE TypeOK'
  <2>1. overtaken' \subseteq Tenants /\ holed' \subseteq Tenants
    BY <1>8, HistoryTypes DEF FailPruning
  <2>2. /\ writer[w].pc # "idle" /\ ReturnUnpruned(w) /\ rows' \subseteq rows
        /\ UNCHANGED <<nextId, nextSeq, now, expiry, pinned>>
        /\ faults' \in 0..MaxFaults
    BY <1>8 DEF FailPruning, Fault, TypeOK
  <2> QED BY <2>1, <2>2, MissedTypes, ReturnTypes DEF TypeOK
<1>9. CASE Crash
  <2>1. missed' \in [Devices -> Nat]
    BY <1>9, PruningIsCounted DEF Crash, TypeOK
  <2> QED BY <1>9, <2>1 DEF Crash, Fault, NoCall, TypeOK
<1>10. CASE Tick
  BY <1>10 DEF Tick, TypeOK, history
<1>11. CASE Age
  BY <1>11 DEF Age, TypeOK, history
<1>12. ASSUME NEW r \in rows, Pin(r) PROVE TypeOK'
  <2>1. r.id \in 1..MaxEvents
    BY DEF TypeOK
  <2>2. pinned' \subseteq 1..MaxEvents
    BY <1>12, <2>1 DEF Pin, TypeOK
  <2> QED BY <1>12, <2>2 DEF Pin, TypeOK, history
<1>13. ASSUME NEW r \in rows, Edit(r) PROVE TypeOK'
  BY <1>13 DEF Edit, TypeOK, history
<1>14. CASE UNCHANGED vars
  BY <1>14 DEF vars, table, history, TypeOK
<1> QED
  BY <1>1, <1>2, <1>3, <1>4, <1>5, <1>6, <1>7, <1>8, <1>9, <1>10, <1>11, <1>12, <1>13, <1>14
  DEF Next, Finish, Fail, Environment

\* However inserts, pruning, failures, pins and edits interleave, the state keeps
\* its types: no event id or sequence number is used before it is handed out.
THEOREM TypeCorrect == Spec => []TypeOK
  BY TypeInit, TypeNext, PTL DEF Spec

-----------------------------------------------------------------------------
(* What a step may do to the table: leave it, store one row, take rows, or *)
(* edit one.                                                               *)

Stores(w) ==
  /\ writer[w].pc = "insert"
  /\ rows' = rows \cup {NewRow(w)}
  /\ nextSeq' = nextSeq + 1
  /\ Record

Takes == rows' \subseteq rows /\ nextSeq' = nextSeq /\ Record

\* A call's hold on its tip ends or begins afresh; nothing is stored.
Leaves ==
  /\ UNCHANGED <<rows, nextSeq, overtaken, holed>>
  /\ \A v \in Writers :
       writer'[v].pc = "insert" =>
         \/ writer'[v] = writer[v]
         \/ writer'[v].tip \in ChainPrevHash(rows, TenantOf[writer'[v].dev])

LEMMA StepsOfTheTable ==
  ASSUME TypeOK, [Next]_vars
  PROVE  \/ \E w \in Writers : Stores(w)
         \/ Takes
         \/ Leaves
         \/ \E r \in rows : Edit(r)
<1>1. ASSUME NEW w \in Writers, NEW d \in Devices, Begin(w, d) PROVE Leaves
  BY <1>1 DEF Begin, Leaves, TypeOK, history
<1>2. ASSUME NEW w \in Writers, ReadTip(w) PROVE Leaves
  <2>1. PICK h \in ChainPrevHash(rows, TenantOf[writer[w].dev]) :
          writer' = [writer EXCEPT ![w].pc = "insert", ![w].tip = h]
    BY <1>2 DEF ReadTip
  <2>2. /\ writer'[w].tip = h /\ writer'[w].dev = writer[w].dev
        /\ \A v \in Writers \ {w} : writer'[v] = writer[v]
    BY <2>1 DEF TypeOK
  <2> QED BY <1>2, <2>1, <2>2 DEF ReadTip, Leaves, history
<1>3. ASSUME NEW w \in Writers, Insert(w) \/ FailAfterRow(w) PROVE Stores(w)
  BY <1>3 DEF Insert, FailAfterRow, Stores
<1>4. ASSUME NEW w \in Writers, PruneByAge(w) \/ PruneByCount(w) \/ FailPruning(w) PROVE Takes
  BY <1>4 DEF PruneByAge, PruneByCount, FailPruning, Takes
<1>5. ASSUME NEW w \in Writers, FailBeforeRow(w) PROVE Leaves
  BY <1>5 DEF FailBeforeRow, Return, NoCall, Leaves, TypeOK, history
<1>6. Crash => Leaves
  BY DEF Crash, NoCall, Leaves
<1>7. Tick \/ Age \/ (\E r \in rows : Pin(r)) \/ UNCHANGED vars => Leaves
  BY DEF Tick, Age, Pin, vars, table, history, Leaves
<1> QED
  BY <1>1, <1>2, <1>3, <1>4, <1>5, <1>6, <1>7 DEF Next, Finish, Fail, Environment

-----------------------------------------------------------------------------
(* Tampering is evident.  The hash of a row is, and stays, the hash of the *)
(* row as it was inserted.                                                 *)

HashedAsInserted ==
  \A r \in rows :
    r.hash = ComputeEventHash(r.id, r.tenant, r.dev, "original", r.at, r.prev)

LEMMA HashedInit == Init => HashedAsInserted
  BY DEF Init, HashedAsInserted

LEMMA HashedNext == TypeOK /\ HashedAsInserted /\ [Next]_vars => HashedAsInserted'
<1> SUFFICES ASSUME TypeOK, HashedAsInserted, [Next]_vars PROVE HashedAsInserted'
  OBVIOUS
<1> USE DEF HashedAsInserted
<1>1. ASSUME NEW w \in Writers, Stores(w) PROVE HashedAsInserted'
  BY <1>1 DEF Stores, NewRow
<1>2. ASSUME NEW r \in rows, Edit(r) PROVE HashedAsInserted'
  BY <1>2 DEF Edit, TypeOK
<1>3. Takes \/ Leaves => HashedAsInserted'
  BY DEF Takes, Leaves
<1> QED BY <1>1, <1>2, <1>3, StepsOfTheTable

LEMMA EditedBreaks ==
  ASSUME TypeOK, HashedAsInserted, NEW r \in rows, r.message = "edited"
  PROVE  ~Intact(r.tenant)
<1>1. r.hash = ComputeEventHash(r.id, r.tenant, r.dev, "original", r.at, r.prev)
  BY DEF HashedAsInserted
<1>2. ~Recomputes(r)
  BY <1>1 DEF Recomputes, ComputeEventHash
<1>3. r \in BrokenRows(rows, r.tenant)
  BY <1>2 DEF BrokenRows, TenantRows
<1> QED BY <1>3 DEF Intact

\* verify-chain never passes a tenant one of whose surviving rows was edited,
\* with any number of writers inserting, pruning and failing at once.
THEOREM TamperingIsEvident == Spec => []TamperEvident
<1>1. TypeOK /\ HashedAsInserted => TamperEvident
  BY EditedBreaks DEF TamperEvident
<1> QED
  BY <1>1, TypeCorrect, HashedInit, HashedNext, PTL DEF Spec

-----------------------------------------------------------------------------
(* Alarms are explained.  A call that has read the tip of a chain still    *)
(* holds it, or the tenant is on record as overtaken; and a chain on       *)
(* neither record links row to row, because what is stored chains from the *)
(* tip and what is taken leaves neighbours neighbours.                     *)

SeqUnique == \A p, r \in rows : p.seq = r.seq => p = r

Linked(t) ==
  \A p, r \in TenantRows(rows, t) :
    Precedes(TenantRows(rows, t), p, r) => r.prev = p.hash

ChainInv ==
  /\ SeqUnique
  /\ Stale \subseteq overtaken
  /\ \A t \in Tenants : t \notin overtaken /\ t \notin holed => Linked(t)

LEMMA ChainInit == Init => ChainInv
  BY DEF Init, NoCall, ChainInv, SeqUnique, Stale, Linked, TenantRows

LEMMA LeavesKeepsChain ==
  ASSUME TypeOK, ChainInv, Leaves PROVE ChainInv'
<1>1. Stale' \subseteq Stale
  <2> SUFFICES ASSUME NEW t \in Stale' PROVE t \in Stale
    OBVIOUS
  <2>1. /\ t \in Tenants /\ TenantRows(rows, t) # {}
        /\ \E v \in Writers : /\ writer'[v].pc = "insert" /\ TenantOf[writer'[v].dev] = t
                              /\ writer'[v].tip \notin ChainPrevHash(rows, t)
    BY DEF Stale, Leaves
  <2>2. PICK v \in Writers : /\ writer'[v].pc = "insert" /\ TenantOf[writer'[v].dev] = t
                             /\ writer'[v].tip \notin ChainPrevHash(rows, t)
    BY <2>1
  <2>3. writer'[v] = writer[v]
    BY <2>2 DEF Leaves
  <2> QED BY <2>1, <2>2, <2>3 DEF Stale
<1>2. \A t : Linked(t) => Linked(t)'
  BY DEF Leaves, Linked
<1>3. SeqUnique'
  BY DEF Leaves, ChainInv, SeqUnique
<1> QED BY <1>1, <1>2, <1>3 DEF ChainInv, Leaves

LEMMA TakesKeepsChain ==
  ASSUME TypeOK, ChainInv, Takes PROVE ChainInv'
<1>1. SeqUnique'
  BY DEF Takes, ChainInv, SeqUnique
<1>2. Stale' \subseteq overtaken'
  BY DEF Takes, Record
<1>3. ASSUME NEW t \in Tenants, t \notin overtaken', t \notin holed' PROVE Linked(t)'
  <2> SUFFICES ASSUME NEW p \in TenantRows(rows', t), NEW r \in TenantRows(rows', t),
                      Precedes(TenantRows(rows', t), p, r)
               PROVE  r.prev = p.hash
    BY DEF Linked
  <2>1. t \notin overtaken /\ t \notin holed /\ t \notin Punctured(rows, rows')
    BY <1>3 DEF Takes, Record
  <2>2. p \in TenantRows(rows, t) /\ r \in TenantRows(rows, t)
    BY DEF Takes, TenantRows
  <2>3. \A s \in TenantRows(rows, t) : ~(p.seq < s.seq /\ s.seq < r.seq)
    <3> SUFFICES ASSUME NEW s \in TenantRows(rows, t), p.seq < s.seq, s.seq < r.seq PROVE FALSE
      OBVIOUS
    <3>1. s \in rows'
      BY <2>1 DEF Punctured
    <3> QED BY <3>1 DEF Precedes, TenantRows
  <2>4. Precedes(TenantRows(rows, t), p, r)
    BY <2>3 DEF Precedes
  <2> QED BY <2>1, <2>2, <2>4 DEF ChainInv, Linked
<1> QED BY <1>1, <1>2, <1>3 DEF ChainInv

LEMMA StoresKeepsChain ==
  ASSUME TypeOK, ChainInv, NEW w \in Writers, Stores(w) PROVE ChainInv'
<1> DEFINE n == NewRow(w)
           u == TenantOf[writer[w].dev]
<1>1. n.seq = nextSeq /\ n.tenant = u /\ n.prev = writer[w].tip
  BY DEF NewRow
<1>2. \A r \in rows : r.seq \in Nat /\ r.seq < nextSeq
  BY DEF TypeOK
<1>3. rows' = rows \cup {n} /\ writer[w].pc = "insert"
  BY DEF Stores
<1>n. nextSeq \in Nat
  BY DEF TypeOK
<1> HIDE DEF n
<1>4. SeqUnique'
  BY <1>1, <1>2, <1>3, <1>n DEF ChainInv, SeqUnique
<1>5. Stale' \subseteq overtaken'
  BY DEF Stores, Record
<1>6. ASSUME NEW t \in Tenants, t \notin overtaken', t \notin holed' PROVE Linked(t)'
  <2>1. t \notin overtaken /\ t \notin holed /\ t \notin Stale /\ Linked(t)
    BY <1>6 DEF Stores, Record, ChainInv
  <2> SUFFICES ASSUME NEW p \in TenantRows(rows', t), NEW r \in TenantRows(rows', t),
                      Precedes(TenantRows(rows', t), p, r)
               PROVE  r.prev = p.hash
    BY DEF Linked
  <2>2. p \in rows
    <3>1. p.seq < r.seq /\ (r \in rows \/ r = n)
      BY <1>3 DEF Precedes, TenantRows
    <3>2. r.seq \in Nat /\ r.seq <= nextSeq
      BY <1>1, <1>2, <1>n, <3>1
    <3> QED BY <1>1, <1>3, <1>n, <3>1, <3>2 DEF TenantRows
  <2>3. p \in TenantRows(rows, t)
    BY <2>2 DEF TenantRows
  <2>4. CASE r \in rows
    <3>1. r \in TenantRows(rows, t) /\ Precedes(TenantRows(rows, t), p, r)
      BY <1>3, <2>4 DEF Precedes, TenantRows
    <3> QED BY <2>1, <2>3, <3>1 DEF Linked
  <2>5. CASE r = n
    <3>1. t = u
      BY <1>1, <2>5 DEF TenantRows
    <3>2. \A s \in TenantRows(rows, t) : s.seq <= p.seq
      <4> TAKE s \in TenantRows(rows, t)
      <4>1. s \in TenantRows(rows', t) /\ s \in rows
        BY <1>3 DEF TenantRows
      <4>2. ~(p.seq < s.seq /\ s.seq < n.seq) /\ s.seq < n.seq
        BY <1>1, <1>2, <2>5, <4>1 DEF Precedes
      <4> QED BY <1>2, <2>2, <4>1, <4>2
    <3>3. IsTip(TenantRows(rows, t), p)
      BY <2>3, <3>2 DEF IsTip
    <3>4. writer[w].tip \in ChainPrevHash(rows, t)
      BY <1>3, <2>1, <2>3, <3>1 DEF Stale
    <3>5. PICK q \in TenantRows(rows, t) : IsTip(TenantRows(rows, t), q) /\ q.hash = writer[w].tip
      BY <2>3, <3>4 DEF ChainPrevHash
    <3>6. q.seq = p.seq
      BY <1>2, <2>3, <3>3, <3>5 DEF IsTip, TenantRows
    <3>7. q = p
      BY <2>3, <3>5, <3>6 DEF ChainInv, SeqUnique, TenantRows
    <3> QED BY <1>1, <2>5, <3>5, <3>7
  <2> QED BY <1>3, <2>4, <2>5 DEF TenantRows
<1> QED BY <1>4, <1>5, <1>6 DEF ChainInv

\* An edit changes neither the order of the rows nor their hashes.
LEMMA EditKeepsChain ==
  ASSUME TypeOK, ChainInv, NEW e \in rows, Edit(e) PROVE ChainInv'
<1> DEFINE n == [e EXCEPT !.message = "edited"]
           Old(r) == IF r = n THEN e ELSE r
<1>1. /\ n.seq = e.seq /\ n.tenant = e.tenant /\ n.prev = e.prev /\ n.hash = e.hash
      /\ n.message = "edited" /\ e.message = "original"
  BY DEF TypeOK, Edit
<1>2. rows' = (rows \ {e}) \cup {n}
  BY DEF Edit
<1>3. UNCHANGED <<writer, overtaken, holed>>
  BY DEF Edit, history
<1> HIDE DEF n
<1>4. /\ \A r \in rows' : /\ Old(r) \in rows /\ Old(r).seq = r.seq /\ Old(r).tenant = r.tenant
                          /\ Old(r).prev = r.prev /\ Old(r).hash = r.hash
      /\ \A r \in rows : \E s \in rows' : Old(s) = r
  <2>1. n \notin rows
    <3> SUFFICES ASSUME n \in rows PROVE FALSE
      OBVIOUS
    <3>1. n = e
      BY <1>1 DEF ChainInv, SeqUnique
    <3> QED BY <1>1, <3>1
  <2> QED BY <1>1, <1>2, <2>1
<1> HIDE DEF Old
<1>5. SeqUnique'
  <2>1. \A r, s \in rows' : Old(r) = Old(s) => r = s
    BY <1>1, <1>2 DEF Old
  <2> QED BY <1>4, <2>1 DEF ChainInv, SeqUnique
<1>6. \A t : \A r \in TenantRows(rows', t) : Old(r) \in TenantRows(rows, t)
  BY <1>4 DEF TenantRows
<1>7. \A t : \A r \in TenantRows(rows, t) : \E s \in TenantRows(rows', t) : Old(s) = r /\ s.seq = r.seq
  BY <1>4 DEF TenantRows
<1>8. Stale' \subseteq overtaken'
  <2> SUFFICES ASSUME NEW t \in Stale' PROVE t \in Stale
    BY <1>3 DEF ChainInv
  <2>1. PICK v \in Writers : /\ t \in Tenants /\ TenantRows(rows', t) # {}
                             /\ writer[v].pc = "insert" /\ TenantOf[writer[v].dev] = t
                             /\ writer[v].tip \notin ChainPrevHash(rows', t)
    BY <1>3 DEF Stale
  <2>2. TenantRows(rows, t) # {}
    BY <1>6, <2>1
  <2>3. ASSUME NEW q \in TenantRows(rows, t), IsTip(TenantRows(rows, t), q)
        PROVE  q.hash \in ChainPrevHash(rows', t)
    <3>1. PICK s \in TenantRows(rows', t) : Old(s) = q /\ s.seq = q.seq
      BY <1>7, <2>3
    <3>2. \A x \in TenantRows(rows', t) : x.seq <= s.seq
      BY <1>4, <1>6, <2>3, <3>1 DEF IsTip, TenantRows
    <3>3. IsTip(TenantRows(rows', t), s) /\ s.hash = q.hash
      BY <1>4, <3>1, <3>2 DEF IsTip, TenantRows
    <3> QED BY <2>1, <3>1, <3>3 DEF ChainPrevHash
  <2>4. writer[v].tip \notin ChainPrevHash(rows, t)
    BY <2>1, <2>2, <2>3 DEF ChainPrevHash
  <2> QED BY <2>1, <2>2, <2>4 DEF Stale
<1>9. ASSUME NEW t \in Tenants, Linked(t) PROVE Linked(t)'
  <2> SUFFICES ASSUME NEW p \in TenantRows(rows', t), NEW r \in TenantRows(rows', t),
                      Precedes(TenantRows(rows', t), p, r)
               PROVE  r.prev = p.hash
    BY DEF Linked
  <2>1. /\ Old(p).seq = p.seq /\ Old(r).seq = r.seq /\ Old(r).prev = r.prev /\ Old(p).hash = p.hash
        /\ Old(p) \in TenantRows(rows, t) /\ Old(r) \in TenantRows(rows, t)
    BY <1>4, <1>6 DEF TenantRows
  <2>2. Precedes(TenantRows(rows, t), Old(p), Old(r))
    BY <1>7, <2>1 DEF Precedes
  <2> QED BY <1>9, <2>1, <2>2 DEF Linked
<1> QED BY <1>3, <1>5, <1>8, <1>9 DEF ChainInv

LEMMA ChainNext == TypeOK /\ ChainInv /\ [Next]_vars => ChainInv'
  BY StepsOfTheTable, LeavesKeepsChain, TakesKeepsChain, StoresKeepsChain, EditKeepsChain

LEMMA ChainExplains == HashedAsInserted /\ ChainInv => AlarmsAreExplained
<1> SUFFICES ASSUME HashedAsInserted, ChainInv, NEW t \in Tenants, Unedited(t),
                    t \notin overtaken, t \notin holed
             PROVE  BrokenRows(rows, t) = {}
  BY DEF AlarmsAreExplained, Intact
<1>1. \A r \in TenantRows(rows, t) : Recomputes(r)
  BY DEF HashedAsInserted, Unedited, Recomputes, TenantRows
<1>2. Linked(t)
  BY DEF ChainInv
<1> QED BY <1>1, <1>2 DEF BrokenRows, Linked

\* verify-chain raises no false alarm but of two kinds, for any number of
\* tenants, devices to a tenant, writers at once, failures and ties of
\* created_at: a tip that moved under a call, or a row taken from between two.
THEOREM AlarmsHaveACause == Spec => []AlarmsAreExplained
  BY TypeCorrect, HashedInit, HashedNext, ChainInit, ChainNext, ChainExplains, PTL DEF Spec

-----------------------------------------------------------------------------
(* Retention.  Every stored row beyond the cap is owed by a call: one that *)
(* is still to prune, or one that ended short of it since the last DELETE. *)

CapHolds == IsFiniteSet(rows) /\ OverCapIsOwed

LEMMA CapInit == Init => CapHolds
<1> SUFFICES ASSUME Init PROVE CapHolds
  OBVIOUS
<1>1. ASSUME NEW d \in Devices
      PROVE  Cardinality(DeviceRows(rows, d)) = 0 /\ Cardinality(Pruning(d)) = 0 /\ missed[d] = 0
  BY FS_EmptySet DEF Init, NoCall, DeviceRows, Pruning
<1> QED BY <1>1, FS_EmptySet, KeepAssumption DEF Init, CapHolds, OverCapIsOwed

LEMMA RowsAreCounted ==
  ASSUME IsFiniteSet(rows), NEW d
  PROVE  IsFiniteSet(DeviceRows(rows, d)) /\ Cardinality(DeviceRows(rows, d)) \in Nat
  BY FS_Subset, FS_CardinalityType DEF DeviceRows

\* Taking rows brings no device nearer its cap while the debt stays.
LEMMA TakingKeepsCap ==
  ASSUME TypeOK, CapHolds, rows' \subseteq rows, NEW d \in Devices,
         missed'[d] \in Nat,
         missed'[d] + Cardinality(Pruning(d)') >= missed[d] + Cardinality(Pruning(d))
  PROVE  Cardinality(DeviceRows(rows', d)) <= Keep + missed'[d] + Cardinality(Pruning(d)')
<1>1. DeviceRows(rows', d) \subseteq DeviceRows(rows, d)
  BY DEF DeviceRows
<1>2. Cardinality(DeviceRows(rows', d)) <= Cardinality(DeviceRows(rows, d))
      /\ Cardinality(DeviceRows(rows', d)) \in Nat /\ Cardinality(DeviceRows(rows, d)) \in Nat
  BY <1>1, RowsAreCounted, FS_Subset, FS_CardinalityType DEF CapHolds
<1>3. Cardinality(Pruning(d)) \in Nat /\ Cardinality(Pruning(d)') \in Nat
  BY WriterAssumption, FS_Subset, FS_CardinalityType DEF Pruning
<1>4. Cardinality(DeviceRows(rows, d)) <= Keep + missed[d] + Cardinality(Pruning(d)) /\ missed[d] \in Nat
  BY DEF CapHolds, OverCapIsOwed, TypeOK
<1> QED BY <1>2, <1>3, <1>4, KeepAssumption

\* Storing a row raises the count by one, and the debt by one.
LEMMA StoringKeepsCap ==
  ASSUME TypeOK, CapHolds, NEW w \in Writers, writer[w].pc = "insert",
         rows' = rows \cup {NewRow(w)}, NEW d \in Devices, missed'[d] \in Nat,
         d # writer[w].dev =>
           missed'[d] + Cardinality(Pruning(d)') = missed[d] + Cardinality(Pruning(d)),
         d = writer[w].dev =>
           missed'[d] + Cardinality(Pruning(d)') = missed[d] + Cardinality(Pruning(d)) + 1
  PROVE  Cardinality(DeviceRows(rows', d)) <= Keep + missed'[d] + Cardinality(Pruning(d)')
<1>1. NewRow(w).dev = writer[w].dev
  BY DEF NewRow
<1>2. IsFiniteSet(DeviceRows(rows, d)) /\ Cardinality(DeviceRows(rows, d)) \in Nat
  BY RowsAreCounted DEF CapHolds
<1>3. Cardinality(Pruning(d)) \in Nat /\ Cardinality(Pruning(d)') \in Nat
  BY WriterAssumption, FS_Subset, FS_CardinalityType DEF Pruning
<1>4. Cardinality(DeviceRows(rows, d)) <= Keep + missed[d] + Cardinality(Pruning(d)) /\ missed[d] \in Nat
  BY DEF CapHolds, OverCapIsOwed, TypeOK
<1>5. CASE d # writer[w].dev
  <2>1. DeviceRows(rows', d) = DeviceRows(rows, d)
    BY <1>1, <1>5 DEF DeviceRows
  <2> QED BY <1>2, <1>3, <1>4, <1>5, <2>1, KeepAssumption
<1>6. CASE d = writer[w].dev
  <2>1. DeviceRows(rows', d) = DeviceRows(rows, d) \cup {NewRow(w)}
    BY <1>1, <1>6 DEF DeviceRows
  <2>2. Cardinality(DeviceRows(rows', d)) <= Cardinality(DeviceRows(rows, d)) + 1
        /\ Cardinality(DeviceRows(rows', d)) \in Nat
    <3> DEFINE mine == DeviceRows(rows, d)
    <3>1. IsFiniteSet(mine) /\ Cardinality(mine) \in Nat /\ DeviceRows(rows', d) = mine \cup {NewRow(w)}
      BY <1>2, <2>1
    <3> HIDE DEF mine
    <3>2. IsFiniteSet(mine \cup {NewRow(w)})
          /\ Cardinality(mine \cup {NewRow(w)}) =
               IF NewRow(w) \in mine THEN Cardinality(mine) ELSE Cardinality(mine) + 1
      BY <3>1, FS_AddElement
    <3>3. Cardinality(DeviceRows(rows', d)) <= Cardinality(mine) + 1 /\ Cardinality(DeviceRows(rows', d)) \in Nat
      BY <3>1, <3>2
    <3> QED BY <3>3 DEF mine
  <2> QED BY <1>2, <1>3, <1>4, <1>6, <2>2, KeepAssumption
<1> QED BY <1>5, <1>6

\* A call that gives up its DELETE passes its debt to missed.
LEMMA PassingTheDebt ==
  ASSUME TypeOK, NEW w \in Writers, writer[w].pc \in {"age", "count"}, ReturnUnpruned(w),
         NEW d \in Devices
  PROVE  missed'[d] \in Nat
         /\ missed'[d] + Cardinality(Pruning(d)') = missed[d] + Cardinality(Pruning(d))
<1>1. \A v \in Writers \ {w} : writer'[v] = writer[v]
  BY DEF ReturnUnpruned, Return, TypeOK
<1>2. writer'[w].pc = "idle"
  BY DEF ReturnUnpruned, Return, NoCall, TypeOK
<1>3. Pruning(d)' = Pruning(d) \ {w}
  BY <1>1, <1>2 DEF Pruning
<1>4. w \in Pruning(d) <=> d = writer[w].dev
  BY DEF Pruning
<1>5. IsFiniteSet(Pruning(d)) /\ Cardinality(Pruning(d)) \in Nat
  BY PruningIsCounted
<1>6. Cardinality(Pruning(d)') = IF d = writer[w].dev THEN Cardinality(Pruning(d)) - 1
                                 ELSE Cardinality(Pruning(d))
  BY <1>3, <1>4, <1>5, FS_RemoveElement
<1>7. missed'[d] = IF d = writer[w].dev THEN missed[d] + 1 ELSE missed[d]
  BY DEF ReturnUnpruned, TypeOK
<1>8. missed[d] \in Nat
  BY DEF TypeOK
<1> QED BY <1>5, <1>6, <1>7, <1>8

\* What the cap's DELETE leaves is within the cap.
LEMMA CapIsKept ==
  ASSUME IsFiniteSet(rows), NEW d, NEW kept \in Kept(rows, d),
         rows' = rows \ (DeviceRows(rows, d) \ kept)
  PROVE  Cardinality(DeviceRows(rows', d)) <= Keep
<1>1. kept \subseteq DeviceRows(rows, d) /\ Cardinality(kept) <= Keep
  BY DEF Kept, Newest
<1>2. DeviceRows(rows', d) = kept
  BY <1>1 DEF DeviceRows
<1> QED BY <1>1, <1>2

LEMMA CapNext == TypeOK /\ TypeOK' /\ CapHolds /\ [Next]_vars => CapHolds'
<1> SUFFICES ASSUME TypeOK, TypeOK', CapHolds, [Next]_vars PROVE CapHolds'
  OBVIOUS
<1>f. IsFiniteSet(rows')
  <2>1. \A w : IsFiniteSet(rows \cup {NewRow(w)})
    BY FS_AddElement DEF CapHolds
  <2>2. \A r : IsFiniteSet((rows \ {r}) \cup {[r EXCEPT !.message = "edited"]})
    BY FS_AddElement, FS_RemoveElement DEF CapHolds
  <2>3. rows' \subseteq rows => IsFiniteSet(rows')
    BY FS_Subset DEF CapHolds
  <2> QED BY <2>1, <2>2, <2>3, StepsOfTheTable DEF Stores, Takes, Leaves, Edit
<1> DEFINE Owed(d) == Cardinality(DeviceRows(rows', d)) <= Keep + missed'[d] + Cardinality(Pruning(d)')
<1>m. \A d \in Devices : missed[d] \in Nat /\ missed'[d] \in Nat
  BY DEF TypeOK
<1>p. \A d \in Devices : IsFiniteSet(Pruning(d)) /\ Cardinality(Pruning(d)) \in Nat
  BY PruningIsCounted
<1>1. ASSUME NEW w \in Writers, NEW d \in Devices, Insert(w) PROVE Owed(d)
  <2>1. /\ writer[w].pc = "insert" /\ writer'[w].pc = "age" /\ writer'[w].dev = writer[w].dev
        /\ \A v \in Writers \ {w} : writer'[v] = writer[v]
        /\ missed' = missed /\ rows' = rows \cup {NewRow(w)}
    BY <1>1 DEF Insert, TypeOK
  <2>2. Pruning(d)' = IF d = writer[w].dev THEN Pruning(d) \cup {w} ELSE Pruning(d)
    BY <2>1 DEF Pruning
  <2>3. w \notin Pruning(d)
    BY <2>1 DEF Pruning
  <2>4. d = writer[w].dev => Cardinality(Pruning(d)') = Cardinality(Pruning(d)) + 1
    BY <1>p, <2>2, <2>3, FS_AddElement
  <2>5. d # writer[w].dev => Pruning(d)' = Pruning(d)
    BY <2>2
  <2>6. /\ missed'[d] \in Nat
        /\ d # writer[w].dev =>
             missed'[d] + Cardinality(Pruning(d)') = missed[d] + Cardinality(Pruning(d))
        /\ d = writer[w].dev =>
             missed'[d] + Cardinality(Pruning(d)') = missed[d] + Cardinality(Pruning(d)) + 1
    BY <1>m, <1>p, <2>1, <2>4, <2>5
  <2> QED BY <2>1, <2>6, StoringKeepsCap
<1>2. ASSUME NEW w \in Writers, NEW d \in Devices, FailAfterRow(w) PROVE Owed(d)
  <2>1. /\ writer[w].pc = "insert" /\ writer'[w].pc = "idle"
        /\ \A v \in Writers \ {w} : writer'[v] = writer[v]
        /\ missed' = [missed EXCEPT ![writer[w].dev] = @ + 1]
        /\ rows' = rows \cup {NewRow(w)}
    BY <1>2 DEF FailAfterRow, ReturnUnpruned, Return, NoCall, TypeOK
  <2>2. Pruning(d)' = Pruning(d)
    BY <2>1 DEF Pruning
  <2>3. missed'[d] = IF d = writer[w].dev THEN missed[d] + 1 ELSE missed[d]
    BY <2>1 DEF TypeOK
  <2>6. /\ missed'[d] \in Nat
        /\ d # writer[w].dev =>
             missed'[d] + Cardinality(Pruning(d)') = missed[d] + Cardinality(Pruning(d))
        /\ d = writer[w].dev =>
             missed'[d] + Cardinality(Pruning(d)') = missed[d] + Cardinality(Pruning(d)) + 1
    BY <1>m, <1>p, <2>2, <2>3
  <2> QED BY <2>1, <2>6, StoringKeepsCap
<1>3. ASSUME NEW w \in Writers, NEW d \in Devices, writer[w].pc \in {"age", "count"},
             ReturnUnpruned(w), rows' \subseteq rows
      PROVE  Owed(d)
  BY <1>3, <1>m, <1>p, PassingTheDebt, TakingKeepsCap
<1>4. ASSUME NEW d \in Devices, rows' \subseteq rows, missed' = missed, Pruning(d)' = Pruning(d)
      PROVE  Owed(d)
  BY <1>4, <1>m, <1>p, TakingKeepsCap
<1>5. ASSUME NEW w \in Writers, NEW d \in Devices, PruneByAge(w) PROVE Owed(d)
  <2>1. CASE ReturnUnpruned(w) /\ UNCHANGED rows
    BY <1>3, <1>5, <2>1 DEF PruneByAge
  <2>2. CASE rows' \subseteq rows /\ writer' = [writer EXCEPT ![w].pc = "count"] /\ UNCHANGED missed
    <3>1. Pruning(d)' = Pruning(d)
      BY <1>5, <2>2 DEF PruneByAge, Pruning, TypeOK
    <3> QED BY <1>4, <2>2, <3>1
  <2> QED BY <1>5, <2>1, <2>2 DEF PruneByAge
<1>6. ASSUME NEW w \in Writers, NEW d \in Devices, PruneByCount(w) PROVE Owed(d)
  <2>1. PICK kept \in Kept(rows, writer[w].dev) :
          \/ ReturnUnpruned(w) /\ UNCHANGED rows
          \/ /\ Return(w) /\ rows' = rows \ (DeviceRows(rows, writer[w].dev) \ kept)
             /\ missed' = [missed EXCEPT ![writer[w].dev] = 0]
    BY <1>6 DEF PruneByCount
  <2>2. CASE ReturnUnpruned(w) /\ UNCHANGED rows
    BY <1>3, <1>6, <2>2 DEF PruneByCount
  <2>3. CASE /\ Return(w) /\ rows' = rows \ (DeviceRows(rows, writer[w].dev) \ kept)
             /\ missed' = [missed EXCEPT ![writer[w].dev] = 0]
    <3>1. \A v \in Writers \ {w} : writer'[v] = writer[v]
      BY <2>3 DEF Return, TypeOK
    <3>2. writer'[w].pc = "idle"
      BY <2>3 DEF Return, NoCall, TypeOK
    <3>3. IsFiniteSet(Pruning(d)') /\ Cardinality(Pruning(d)') \in Nat
      BY WriterAssumption, FS_Subset, FS_CardinalityType DEF Pruning
    <3>4. CASE d = writer[w].dev
      <4>1. Cardinality(DeviceRows(rows', d)) <= Keep
        BY <2>1, <2>3, <3>4, CapIsKept DEF CapHolds
      <4>2. Cardinality(DeviceRows(rows', d)) \in Nat
        BY <1>f, FS_Subset, FS_CardinalityType DEF DeviceRows
      <4> QED BY <1>m, <3>3, <4>1, <4>2, KeepAssumption
    <3>5. CASE d # writer[w].dev
      <4>1. Pruning(d)' = Pruning(d)
        BY <3>1, <3>2, <3>5 DEF Pruning
      <4>2. missed'[d] = missed[d]
        BY <2>3, <3>5 DEF TypeOK
      <4>3. rows' \subseteq rows
        BY <2>3
      <4> QED BY <1>m, <1>p, <4>1, <4>2, <4>3, TakingKeepsCap
    <3> QED BY <3>4, <3>5
  <2> QED BY <2>1, <2>2, <2>3
<1>7. ASSUME NEW w \in Writers, NEW d \in Devices, FailPruning(w) PROVE Owed(d)
  BY <1>3, <1>7 DEF FailPruning
<1>8. ASSUME NEW d \in Devices, Crash PROVE Owed(d)
  <2>1. Pruning(d)' = {}
    BY <1>8 DEF Crash, Pruning, NoCall
  <2>2. missed'[d] = missed[d] + Cardinality(Pruning(d)) /\ rows' = rows
    BY <1>8 DEF Crash
  <2> QED BY <1>m, <1>p, <2>1, <2>2, FS_EmptySet, TakingKeepsCap
<1>9. ASSUME NEW w \in Writers, NEW d \in Devices,
             (\E e \in Devices : Begin(w, e)) \/ ReadTip(w) \/ FailBeforeRow(w)
      PROVE  Owed(d)
  <2>1. rows' = rows /\ missed' = missed
    BY <1>9 DEF Begin, ReadTip, FailBeforeRow, history
  <2>2. /\ writer[w].pc \notin {"age", "count"} /\ writer'[w].pc \notin {"age", "count"}
        /\ \A v \in Writers \ {w} : writer'[v] = writer[v]
    BY <1>9 DEF Begin, ReadTip, FailBeforeRow, Return, NoCall, TypeOK
  <2>3. Pruning(d)' = Pruning(d)
    BY <2>2 DEF Pruning
  <2> QED BY <1>4, <2>1, <2>3
<1>10. ASSUME NEW d \in Devices, Tick \/ Age \/ (\E r \in rows : Pin(r)) \/ UNCHANGED vars
       PROVE  Owed(d)
  <2>1. rows' = rows /\ missed' = missed /\ writer' = writer
    BY <1>10 DEF Tick, Age, Pin, vars, table, history
  <2>2. Pruning(d)' = Pruning(d)
    BY <2>1 DEF Pruning
  <2> QED BY <1>4, <2>1, <2>2
<1>11. ASSUME NEW d \in Devices, NEW r \in rows, Edit(r) PROVE Owed(d)
  <2> DEFINE n == [r EXCEPT !.message = "edited"]
             mine == DeviceRows(rows, d)
  <2>1. n.dev = r.dev /\ rows' = (rows \ {r}) \cup {n} /\ missed' = missed /\ writer' = writer
    BY <1>11 DEF Edit, TypeOK, history
  <2>2. Pruning(d)' = Pruning(d)
    BY <2>1 DEF Pruning
  <2>3. IsFiniteSet(mine) /\ Cardinality(mine) \in Nat
    BY RowsAreCounted DEF CapHolds
  <2>4. Cardinality(DeviceRows(rows', d)) <= Cardinality(mine)
        /\ Cardinality(DeviceRows(rows', d)) \in Nat
    <3> HIDE DEF n
    <3>1. CASE r.dev = d
      <4>1. DeviceRows(rows', d) = (mine \ {r}) \cup {n} /\ r \in mine
        BY <2>1, <3>1 DEF DeviceRows
      <4> HIDE DEF mine
      <4>2. IsFiniteSet(mine \ {r}) /\ Cardinality(mine \ {r}) = Cardinality(mine) - 1
        BY <2>3, <4>1, FS_RemoveElement
      <4> DEFINE others == mine \ {r}
      <4>a. IsFiniteSet(others) /\ Cardinality(others) = Cardinality(mine) - 1
        BY <4>2
      <4> HIDE DEF others
      <4>b. /\ IsFiniteSet(others \cup {n})
            /\ Cardinality(others \cup {n}) =
                 IF n \in others THEN Cardinality(others) ELSE Cardinality(others) + 1
        BY <4>a, FS_AddElement
      <4>c. IsFiniteSet(others \cup {n}) /\ Cardinality(others \cup {n}) <= Cardinality(mine)
        BY <2>3, <4>a, <4>b
      <4>3. IsFiniteSet((mine \ {r}) \cup {n})
            /\ Cardinality((mine \ {r}) \cup {n}) <= Cardinality(mine)
        BY <4>c DEF others
      <4> QED BY <4>1, <4>3, FS_CardinalityType
    <3>2. CASE r.dev # d
      <4>1. DeviceRows(rows', d) = mine
        BY <2>1, <3>2 DEF DeviceRows
      <4> QED BY <2>3, <4>1
    <3> QED BY <3>1, <3>2
  <2>5. Cardinality(mine) <= Keep + missed[d] + Cardinality(Pruning(d))
    BY DEF CapHolds, OverCapIsOwed
  <2> QED BY <1>m, <1>p, <2>1, <2>2, <2>3, <2>4, <2>5, KeepAssumption
<1>12. \A d \in Devices : Owed(d)
  BY <1>1, <1>2, <1>5, <1>6, <1>7, <1>8, <1>9, <1>10, <1>11 DEF Next, Finish, Fail, Environment
<1> QED BY <1>f, <1>12 DEF CapHolds, OverCapIsOwed

\* A device is over its cap by no more than the calls still to prune it and
\* those refused, failed or cut off since its last DELETE, for every cap and
\* however inserts, pruning, failures and deaths interleave.
THEOREM RetentionHolds == Spec => []OverCapIsOwed
<1>1. CapHolds => OverCapIsOwed
  BY DEF CapHolds
<1> QED
  BY <1>1, TypeCorrect, CapInit, CapNext, PTL DEF Spec

-----------------------------------------------------------------------------
(* The collector: its readings. *)

Readable(h) == h \subseteq Sources \X (Fields \cup Marks) /\ \A r \in h : r[2] \in Printed[r[1]]

LEMMA FirstOfOne ==
  ASSUME NEW h, NEW f, NEW a
  PROVE  First(h, f, <<a>>) = IF <<a, f>> \in h THEN a ELSE Null
<1> DEFINE has == {i \in DOMAIN <<a>> : <<(<<a>>)[i], f>> \in h}
<1>1. CASE <<a, f>> \in h
  <2>1. has = {1}
    BY <1>1
  <2>2. (CHOOSE i \in has : \A j \in has : i <= j) = 1
    BY <2>1
  <2> QED
    BY <1>1, <2>1, <2>2 DEF First
<1>2. CASE <<a, f>> \notin h
  <2>1. has = {}
    BY <1>2
  <2> QED
    BY <1>2, <2>1 DEF First
<1> QED
  BY <1>1, <1>2

LEMMA FirstOfTwo ==
  ASSUME NEW h, NEW f, NEW a, NEW b
  PROVE  First(h, f, <<a, b>>) = IF <<a, f>> \in h THEN a ELSE IF <<b, f>> \in h THEN b ELSE Null
<1> DEFINE order == <<a, b>>
           has == {i \in DOMAIN order : <<order[i], f>> \in h}
<1>0. DOMAIN order = {1, 2} /\ order[1] = a /\ order[2] = b
  OBVIOUS
<1>f. First(h, f, order) = IF has = {} THEN Null ELSE order[CHOOSE i \in has : \A j \in has : i <= j]
  BY DEF First
<1> HIDE DEF order
<1>1. CASE <<a, f>> \in h
  <2>1. 1 \in has /\ \A j \in has : j \in {1, 2}
    BY <1>0, <1>1
  <2>2. \A i \in has : (\A j \in has : i <= j) <=> i = 1
    BY <2>1
  <2>3. (CHOOSE i \in has : \A j \in has : i <= j) = 1
    BY <2>1, <2>2
  <2> QED
    BY <1>0, <1>1, <1>f, <2>1, <2>3 DEF order
<1>2. CASE <<a, f>> \notin h /\ <<b, f>> \in h
  <2>1. has = {2}
    BY <1>0, <1>2
  <2>2. (CHOOSE i \in has : \A j \in has : i <= j) = 2
    BY <2>1
  <2> QED
    BY <1>0, <1>2, <1>f, <2>1, <2>2 DEF order
<1>3. CASE <<a, f>> \notin h /\ <<b, f>> \notin h
  <2>1. has = {}
    BY <1>0, <1>3
  <2> QED
    BY <1>3, <1>f, <2>1 DEF order
<1> QED
  BY <1>1, <1>2, <1>3

One(h, f, a) == IF <<a, f>> \in h THEN a ELSE Null
Two(h, f, a, b) == IF <<a, f>> \in h THEN a ELSE IF <<b, f>> \in h THEN b ELSE Null

LEMMA MergedDomain ==
  ASSUME NEW h, NEW out
  PROVE  Merged(h, out) = [f \in Fields |-> Merged(h, out)[f]]
  BY DEF Merged, Fields

LEMMA MergedValues ==
  ASSUME NEW h, NEW out
  PROVE  LET v == Merged(h, out)
         IN  /\ v["cpu"] = Two(h, "cpu", "rust", "ps")
             /\ v["secureBoot"] = Two(h, "secureBoot", "rust", "ps")
             /\ v["capacity"] = Two(h, "capacity", "rust", "ps")
             /\ v["wear"] = Two(h, "wear", "rust", "ps")
             /\ v["health"] = Or(Two(h, "capacity", "rust", "ps"),
                                 IF <<"ps", "report">> \in h THEN "ps" ELSE One(h, "health", "lhm"))
             /\ v["bitlocker"] = (IF <<"rust", "unknown">> \in h THEN "rust"
                                  ELSE Two(h, "bitlocker", "rust", "hourly"))
             /\ v["tpm"] = Two(h, "tpm", "rust", "hourly")
             /\ v["tpmVersion"] = (IF <<"rust", "tpm">> \in h THEN Null ELSE One(h, "tpmVersion", "hourly"))
             /\ v["cycles"] = (IF <<"rust", "battery">> \in h THEN One(h, "cycles", "rust")
                               ELSE One(h, "cycles", "ps"))
             /\ v["fan"] = Or(One(h, "fan", "lhm"), Two(h, "fan", "hwinfo", "wmi"))
             /\ v["board"] = Two(h, "board", "lhm", "hwinfo")
             /\ v["gpuTemp"] = One(h, "gpuTemp", "lhm")
             /\ v["batteryTemp"] = Two(h, "batteryTemp", "lhm", "rust")
<1>1. \A f, a : First(h, f, <<a>>) = One(h, f, a)
  BY FirstOfOne DEF One
<1>2. \A f, a, b : First(h, f, <<a, b>>) = Two(h, f, a, b)
  BY FirstOfTwo DEF Two
<1> QED
  BY <1>1, <1>2 DEF Merged, Refined, Health, Bitlocker, TpmVersion, Cycles, Fan, PickBestFan, Sensor

LEMMA MergedTypes ==
  ASSUME NEW h, NEW out
  PROVE  Merged(h, out) \in [Fields -> Sources \cup {Null}]
<1>1. \A f : \A a \in Sources : One(h, f, a) \in Sources \cup {Null}
  BY DEF One
<1>2. \A f : \A a, b \in Sources : Two(h, f, a, b) \in Sources \cup {Null}
  BY DEF Two
<1>3. \A f \in Fields : Merged(h, out)[f] \in Sources \cup {Null}
  BY <1>1, <1>2, MergedValues DEF Fields, Sources, Or
<1> QED
  BY <1>3, MergedDomain

\* A field that some source had and the merge has not.
LEMMA LostFields ==
  ASSUME NEW h, Readable(h), Possible(h), NEW out, NEW f \in Fields, Merged(h, out)[f] = Null,
         NEW s \in Sources, <<s, f>> \in h
  PROVE  \/ f = "cycles" /\ <<"rust", "battery">> \in h
         \/ f = "tpmVersion" /\ <<"rust", "tpm">> \in h
<1>0. f \in Printed[s] /\ \A q \in Sources : q # Null
  BY NullAssumption DEF Readable
<1>1. CASE f \in {"cpu", "secureBoot", "capacity", "wear"}
  <2>1. s \in {"ps", "rust"}
    BY <1>0, <1>1 DEF Printed, Sources
  <2>2. Two(h, f, "rust", "ps") = Null
    BY <1>1, MergedValues
  <2> QED
    BY <1>0, <2>1, <2>2 DEF Two, Sources
<1>2. CASE f = "health"
  <2>1. s = "lhm"
    BY <1>0, <1>2 DEF Printed, Sources
  <2>2. Or(Two(h, "capacity", "rust", "ps"), IF <<"ps", "report">> \in h THEN "ps" ELSE One(h, "health", "lhm")) = Null
    BY <1>2, MergedValues
  <2> QED
    BY <1>0, <1>2, <2>1, <2>2 DEF Or, One, Two, Sources
<1>3. CASE f \in {"tpm", "bitlocker"}
  <2>1. s \in {"rust", "hourly"}
    BY <1>0, <1>3 DEF Printed, Sources
  <2>2. Two(h, f, "rust", "hourly") = Null
    BY <1>0, <1>3, MergedValues DEF Sources
  <2> QED
    BY <1>0, <2>1, <2>2 DEF Two, Sources
<1>4. CASE f = "tpmVersion"
  <2>1. s = "hourly"
    BY <1>0, <1>4 DEF Printed, Sources
  <2>2. (IF <<"rust", "tpm">> \in h THEN Null ELSE One(h, "tpmVersion", "hourly")) = Null
    BY <1>4, MergedValues
  <2> QED
    BY <1>0, <1>4, <2>1, <2>2 DEF One, Sources
<1>5. CASE f = "cycles"
  <2>1. s \in {"ps", "rust"}
    BY <1>0, <1>5 DEF Printed, Sources
  <2>2. (IF <<"rust", "battery">> \in h THEN One(h, "cycles", "rust") ELSE One(h, "cycles", "ps")) = Null
    BY <1>5, MergedValues
  <2>3. <<"rust", "cycles">> \in h => <<"rust", "battery">> \in h
    BY DEF Possible
  <2> QED
    BY <1>0, <1>5, <2>1, <2>2, <2>3 DEF One, Sources
<1>6. CASE f = "fan"
  <2>1. s \in {"lhm", "hwinfo", "wmi"}
    BY <1>0, <1>6 DEF Printed, Sources
  <2>2. Or(One(h, "fan", "lhm"), Two(h, "fan", "hwinfo", "wmi")) = Null
    BY <1>6, MergedValues
  <2> QED
    BY <1>0, <1>6, <2>1, <2>2 DEF Or, One, Two, Sources
<1>7. CASE f = "board"
  <2>1. s \in {"lhm", "hwinfo"}
    BY <1>0, <1>7 DEF Printed, Sources
  <2>2. Two(h, "board", "lhm", "hwinfo") = Null
    BY <1>7, MergedValues
  <2> QED
    BY <1>0, <1>7, <2>1, <2>2 DEF Two, Sources
<1>8. CASE f = "gpuTemp"
  <2>1. s = "lhm"
    BY <1>0, <1>8 DEF Printed, Sources
  <2>2. One(h, "gpuTemp", "lhm") = Null
    BY <1>8, MergedValues
  <2> QED
    BY <1>0, <1>8, <2>1, <2>2 DEF One, Sources
<1>9. CASE f = "batteryTemp"
  <2>1. s \in {"lhm", "rust"}
    BY <1>0, <1>9 DEF Printed, Sources
  <2>2. Two(h, "batteryTemp", "lhm", "rust") = Null
    BY <1>9, MergedValues
  <2> QED
    BY <1>0, <1>9, <2>1, <2>2 DEF Two, Sources
<1> QED
  BY <1>1, <1>2, <1>3, <1>4, <1>5, <1>6, <1>7, <1>8, <1>9 DEF Fields

\* A field the merge has, its source had, and BitLocker's "unknown" counts as a value.
LEMMA FoundFields ==
  ASSUME NEW h, NEW out, NEW f \in Fields \ {"health"}, Merged(h, out)[f] # Null
  PROVE  <<Merged(h, out)[f], f>> \in h \/ (f = "bitlocker" /\ <<"rust", "unknown">> \in h)
<1>1. \A a : One(h, f, a) # Null => <<One(h, f, a), f>> \in h
  BY DEF One
<1>2. \A a, b : Two(h, f, a, b) # Null => <<Two(h, f, a, b), f>> \in h
  BY DEF Two
<1>3. CASE f \in {"cpu", "secureBoot", "capacity", "wear", "tpm"}
  BY <1>2, <1>3, MergedValues
<1>4. CASE f \in {"board", "batteryTemp", "gpuTemp"}
  BY <1>1, <1>2, <1>4, MergedValues
<1>5. CASE f = "fan"
  <2>1. Merged(h, out)[f] = Or(One(h, f, "lhm"), Two(h, f, "hwinfo", "wmi"))
    BY <1>5, MergedValues
  <2> QED
    BY <1>1, <1>2, <2>1 DEF Or
<1>6. CASE f \in {"cycles", "tpmVersion"}
  BY <1>1, <1>6, MergedValues
<1>7. CASE f = "bitlocker"
  BY <1>2, <1>7, MergedValues
<1> QED
  BY <1>3, <1>4, <1>5, <1>6, <1>7 DEF Fields

\* Health comes from two capacities, the report or LibreHardwareMonitor.
LEMMA FoundHealth ==
  ASSUME NEW h, NEW out, Merged(h, out)["health"] # Null
  PROVE  \E f \in {"capacity", "health", "report"} : <<Merged(h, out)["health"], f>> \in h
<1> DEFINE v == Merged(h, out)["health"]
           rest == IF <<"ps", "report">> \in h THEN "ps" ELSE One(h, "health", "lhm")
<1>1. v = Or(Two(h, "capacity", "rust", "ps"), rest)
  BY MergedValues
<1>2. CASE Two(h, "capacity", "rust", "ps") # Null
  <2>1. v = Two(h, "capacity", "rust", "ps") /\ <<v, "capacity">> \in h
    BY <1>1, <1>2 DEF Or, Two
  <2> QED
    BY <2>1
<1>3. CASE Two(h, "capacity", "rust", "ps") = Null
  <2>1. v = rest
    BY <1>1, <1>3 DEF Or
  <2>2. <<v, "report">> \in h \/ <<v, "health">> \in h
    BY <2>1 DEF One
  <2> QED
    BY <2>2
<1> QED
  BY <1>2, <1>3

\* What reaches the dashboard of a reading or a reason.
LEMMA LiveOf ==
  ASSUME NEW d, NEW f \in Fields
  PROVE  /\ <<"why", f>> \in Live(d) => f \in d.why
         /\ <<"value", f>> \in Live(d) => d.value[f] # Null
         /\ f \in {"board", "gpuTemp"} /\ d.value[f] # Null => <<"value", f>> \in Live(d)
         /\ f \in {"board", "gpuTemp"} /\ f \in d.why => <<"why", f>> \in Live(d)
<1>1. f # "gpu" /\ f # "security"
  BY DEF Fields
<1> QED
  BY <1>1 DEF Live, Headline, Adapter, Security, PutDetail, PutReason, Fields

LEMMA ReasonsOf ==
  ASSUME NEW h, Readable(h), Possible(h), NEW out
  PROVE  LET v == Merged(h, out)
             why == Payload(h, out).why
         IN  /\ \A f \in why : v[f] # Null => f = "wear" \/ ReadsZero(h, f, v[f])
             /\ \A f \in {"board", "gpuTemp", "fan"} : v[f] = Null => f \in why
             /\ "wear" \in why /\ v["wear"] # Null => v["wear"] = "ps" /\ <<"rust", "wearReason">> \in h
<1> DEFINE v == Merged(h, out)
           why == Payload(h, out).why
<1>1. why = WearReason(h) \cup BatteryReasons(h, v) \cup SensorReasons(h, v)
  BY DEF Payload
<1>2. v["wear"] = Two(h, "wear", "rust", "ps")
  BY MergedValues
<1> HIDE DEF v, why
<1>3. \A f \in SensorReasons(h, v) \cup BatteryReasons(h, v) :
        (v[f] = Null \/ ReadsZero(h, f, v[f])) /\ f # "wear"
  BY DEF SensorReasons, BatteryReasons
<1>4. \A f \in WearReason(h) : f = "wear"
  BY DEF WearReason
<1>5. ASSUME "wear" \in why, v["wear"] # Null
      PROVE  v["wear"] = "ps" /\ <<"rust", "wearReason">> \in h
  <2>1. "wear" \in WearReason(h)
    BY <1>1, <1>3, <1>5
  <2>2. <<"rust", "smart">> \notin h /\ \E s \in {"ps", "rust"} : <<s, "wearReason">> \in h
    BY <2>1 DEF WearReason
  <2>3. <<"rust", "wear">> \notin h
    BY <2>2 DEF Possible
  <2>4. v["wear"] = "ps" /\ <<"ps", "wear">> \in h
    BY <1>2, <1>5, <2>3 DEF Two
  <2>5. <<"ps", "wearReason">> \notin h
    BY <2>4 DEF Possible
  <2> QED
    BY <2>2, <2>4, <2>5
<1>6. \A f \in {"board", "gpuTemp", "fan"} : v[f] = Null => f \in why
  BY <1>1 DEF SensorReasons
<1>7. \A f \in why : v[f] # Null => f = "wear" \/ ReadsZero(h, f, v[f])
  BY <1>1, <1>3, <1>4
<1> QED
  BY <1>5, <1>6, <1>7 DEF v, why

-----------------------------------------------------------------------------
(* What is served. *)

ServedOf(d, h) ==
  \/ d = NoData /\ h = {}
  \/ Readable(h) /\ Possible(h) /\ \E out \in Outcomes : d = Payload(h, out)

Served == ServedOf(cache.data, got)

LEMMA PayloadTypes ==
  ASSUME NEW d, NEW h, ServedOf(d, h)
  PROVE  d \in [value : [Fields -> Sources \cup {Null}], gpu : SUBSET {"ps", "rust"},
             network : SUBSET {"ps", "rust"}, why : SUBSET Fields]
<1>1. CASE d = NoData
  BY <1>1 DEF NoData
<1>2. ASSUME NEW out, d = Payload(h, out)
      PROVE  d \in [value : [Fields -> Sources \cup {Null}], gpu : SUBSET {"ps", "rust"},
             network : SUBSET {"ps", "rust"}, why : SUBSET Fields]
  <2> DEFINE v == Merged(h, out)
  <2>1. v \in [Fields -> Sources \cup {Null}]
    BY MergedTypes
  <2>2. d = [value |-> v, gpu |-> Adapters(h), network |-> Network(h, out),
             why |-> WearReason(h) \cup BatteryReasons(h, v) \cup SensorReasons(h, v)]
    BY <1>2 DEF Payload
  <2> HIDE DEF v
  <2>3. Adapters(h) \subseteq {"ps", "rust"} /\ Network(h, out) \subseteq {"ps", "rust"}
    BY DEF Adapters, Network
  <2>4. WearReason(h) \cup BatteryReasons(h, v) \cup SensorReasons(h, v) \subseteq Fields
    BY DEF WearReason, BatteryReasons, SensorReasons, Fields
  <2> QED
    BY <2>1, <2>2, <2>3, <2>4
<1> QED
  BY <1>1, <1>2 DEF ServedOf

LEMMA ServedIsFaithful == Served => ReadingsAreFaithful
<1> SUFFICES ASSUME Served PROVE ReadingsAreFaithful
  OBVIOUS
<1>1. CASE cache.data = NoData /\ got = {}
  <2>1. (\A f \in Fields : cache.data.value[f] = Null) /\ cache.data.value["health"] = Null
    BY <1>1 DEF NoData, Fields
  <2>2. cache.data.why = {}
    BY <1>1 DEF NoData
  <2>3. NoReadingLost
    BY <1>1, <2>1 DEF NoReadingLost, Had
  <2>4. \A f \in Fields : <<"why", f>> \notin Live(cache.data)
    BY <2>2, LiveOf
  <2>5. ReasonsFitGaps
    BY <1>1, <2>2, <2>4 DEF ReasonsFitGaps, Fields
  <2> QED
    BY <2>3, <2>5 DEF ReadingsAreFaithful
<1>2. ASSUME Readable(got), Possible(got), NEW out \in Outcomes, cache.data = Payload(got, out)
      PROVE  ReadingsAreFaithful
  <2> DEFINE d == cache.data
             v == Merged(got, out)
  <2>1. d.value = v /\ d.gpu = Adapters(got) /\ d.network = Network(got, out) /\ d.why = Payload(got, out).why
    BY <1>2 DEF Payload
  <2>2. /\ \A f \in d.why : v[f] # Null => f = "wear" \/ ReadsZero(got, f, v[f])
        /\ \A f \in {"board", "gpuTemp", "fan"} : v[f] = Null => f \in d.why
        /\ "wear" \in d.why /\ v["wear"] # Null => v["wear"] = "ps" /\ <<"rust", "wearReason">> \in got
    BY <1>2, <2>1, ReasonsOf
  <2>3. \A f \in Fields : v[f] = Null /\ Had(f) =>
             \/ f = "cycles" /\ <<"rust", "battery">> \in got
             \/ f = "tpmVersion" /\ <<"rust", "tpm">> \in got
    BY <1>2, LostFields DEF Had
  <2>4. /\ \A f \in Fields \ {"health"} : v[f] # Null =>
             <<v[f], f>> \in got \/ (f = "bitlocker" /\ <<"rust", "unknown">> \in got)
        /\ v["health"] # Null => \E f \in {"capacity", "health", "report"} : <<v["health"], f>> \in got
    BY FoundFields, FoundHealth
  <2>5. /\ \A s \in {"ps", "rust"} : <<s, "gpu">> \in got => s \in d.gpu
        /\ \A s \in {"ps", "rust"} : <<s, "network">> \in got =>
             s \in d.network \/ <<"rust", "network">> \in got
    BY <2>1 DEF Adapters, Network
  <2> HIDE DEF d, v
  <2>6. NoReadingLost
    BY <2>1, <2>3, <2>4, <2>5 DEF NoReadingLost, d
  <2>7. ASSUME NEW f \in Fields, {<<"value", f>>, <<"why", f>>} \subseteq Live(d)
        PROVE  f = "wear" \/ ReadsZero(got, f, d.value[f])
    <3>1. f \in d.why /\ d.value[f] # Null
      BY <2>7, LiveOf
    <3> QED
      BY <2>1, <2>2, <3>1
  <2>8. ASSUME NEW f \in {"board", "gpuTemp"}
        PROVE  {<<"value", f>>, <<"why", f>>} \cap Live(d) # {}
    <3>1. f \in Fields
      BY <2>8 DEF Fields
    <3>2. f \in d.why \/ d.value[f] # Null
      BY <2>1, <2>2
    <3>3. <<"value", f>> \in Live(d) \/ <<"why", f>> \in Live(d)
      BY <3>1, <3>2, LiveOf
    <3> QED
      BY <3>3
  <2>9. d.value["fan"] # Null => "fan" \notin d.why
    BY <2>1, <2>2 DEF ReadsZero
  <2>w. "wear" \in d.why /\ d.value["wear"] # Null
          => d.value["wear"] = "ps" /\ <<"rust", "wearReason">> \in got
    BY <2>1, <2>2
  <2>10. ReasonsFitGaps
    BY <2>7, <2>8, <2>9, <2>w DEF ReasonsFitGaps, d
  <2> QED
    BY <2>6, <2>10 DEF ReadingsAreFaithful
<1> QED
  BY <1>1, <1>2 DEF Served, ServedOf

-----------------------------------------------------------------------------
(* The streaks of rust-collector. *)

\* Escalated means beyond the window; the first outcome of a process is not a change.
StreakHolds ==
  /\ rust.escalated <=> rust.down > Window
  /\ rust.last = "none" => raised.about = "none"
  /\ EscalatesOnce /\ OutageIsClosed

StreakTypes ==
  /\ rust \in [last : Outcomes \cup {"none"}, down : 0..Window + 1, escalated : BOOLEAN]
  /\ raised \in [about : {"none", "unavailable", "available"}, before : Outcomes \cup {"none"}, criticals : Nat]

CollectorHolds == StreakTypes /\ StreakHolds /\ Served /\ cache.error \in BOOLEAN /\ got \subseteq UNION Families
         /\ cache = [data |-> cache.data, error |-> cache.error]

LEMMA StreakNext ==
  ASSUME StreakTypes, StreakHolds, NEW out \in Outcomes, Availability(out)
  PROVE  StreakTypes' /\ StreakHolds'
<1> DEFINE criticals == IF out = "ok" THEN 0
                        ELSE raised.criticals + (IF Streak(out).down > Window /\ ~rust.escalated THEN 1 ELSE 0)
           before == IF out = rust.last THEN raised.before ELSE rust.last
<1>t. /\ rust.last \in Outcomes \cup {"none"} /\ rust.down \in 0..Window + 1 /\ rust.escalated \in BOOLEAN
      /\ raised.about \in {"none", "unavailable", "available"} /\ raised.criticals \in Nat
      /\ raised.before \in Outcomes \cup {"none"} /\ Window \in Nat
  BY WindowAssumption DEF StreakTypes
<1>1. /\ rust' = Streak(out)
      /\ raised' = [about |-> EventAbout(out), before |-> before, criticals |-> criticals]
  BY DEF Availability
<1>2. /\ EventAbout(out) \in {"none", "unavailable", "available"}
      /\ EventAbout(out) = "unavailable" /\ out = "ok" =>
           raised.about = "unavailable" /\ rust.last \in {"ok", "invalid-json", "none"}
  <2>1. CASE out = rust.last \/ rust.last = "none"
    BY <1>t, <2>1 DEF EventAbout
  <2>2. CASE ~(out = rust.last \/ rust.last = "none") /\ out = "unavailable"
    BY <2>2 DEF EventAbout
  <2>3. CASE ~(out = rust.last \/ rust.last = "none") /\ out = "ok" /\ rust.last = "unavailable"
    <3>1. EventAbout(out) = "available"
      BY <2>3 DEF EventAbout
    <3> QED
      BY <3>1
  <2>4. CASE ~(out = rust.last \/ rust.last = "none") /\ ~(out = "unavailable") /\ ~(out = "ok" /\ rust.last = "unavailable")
    <3>1. EventAbout(out) = raised.about
      BY <2>4 DEF EventAbout
    <3> QED
      BY <1>t, <2>4, <3>1 DEF Outcomes
  <2> QED
    BY <2>1, <2>2, <2>3, <2>4
<1>3. /\ Streak(out) \in [last : Outcomes \cup {"none"}, down : 0..Window + 1, escalated : BOOLEAN]
      /\ Streak(out).last = out
      /\ Streak(out).escalated <=> Streak(out).down > Window
      /\ out = "ok" => Streak(out).down = 0
      /\ out # "ok" /\ rust.escalated => Streak(out).escalated
  <2>1. CASE out = "ok"
    <3>1. Streak(out) = [last |-> out, down |-> 0, escalated |-> FALSE]
      BY <2>1 DEF Streak
    <3>2. 0 \in 0..Window + 1 /\ ~(0 > Window)
      BY WindowAssumption
    <3>3. Streak(out) \in [last : Outcomes \cup {"none"}, down : 0..Window + 1, escalated : BOOLEAN]
      BY <3>1, <3>2
    <3>4. Streak(out).last = out /\ Streak(out).down = 0 /\ Streak(out).escalated = FALSE
      BY <3>1
    <3> QED
      BY <2>1, <3>2, <3>3, <3>4
  <2>2. CASE out # "ok"
    <3> DEFINE d == IF rust.down > Window THEN rust.down ELSE rust.down + 1
               e == rust.escalated \/ d > Window
    <3>1. Streak(out) = [last |-> out, down |-> d, escalated |-> e]
      BY <2>2 DEF Streak
    <3>2. d \in 0..Window + 1 /\ (rust.down > Window => d > Window)
      BY <1>t
    <3>3. (e <=> d > Window) /\ e \in BOOLEAN
      BY <1>t, <3>2 DEF StreakHolds
    <3> HIDE DEF d
    <3>4. rust.escalated => e
      OBVIOUS
    <3> HIDE DEF e
    <3> QED
      BY <2>2, <3>1, <3>2, <3>3, <3>4
  <2> QED
    BY <2>1, <2>2
<1>4. criticals \in Nat
  BY <1>t
<1>5. criticals = IF Streak(out).down > Window THEN 1 ELSE 0
  <2>1. raised.criticals = IF rust.down > Window THEN 1 ELSE 0
    BY DEF StreakHolds, EscalatesOnce
  <2>2. rust.escalated <=> rust.down > Window
    BY DEF StreakHolds
  <2>3. CASE out = "ok"
    BY <1>t, <1>3, <2>3
  <2>4. CASE out # "ok" /\ rust.escalated
    BY <1>3, <2>1, <2>2, <2>4
  <2>5. CASE out # "ok" /\ ~rust.escalated
    BY <2>1, <2>2, <2>5
  <2> QED
    BY <2>3, <2>4, <2>5
<1>6. before \in Outcomes \cup {"none"}
  BY <1>t
<1>7. EventAbout(out) = "unavailable" /\ out = "ok" => before = "invalid-json"
  BY <1>2 DEF StreakHolds, OutageIsClosed
<1> HIDE DEF criticals, before
<1>8. StreakTypes'
  BY <1>1, <1>2, <1>3, <1>4, <1>6 DEF StreakTypes
<1>9. EscalatesOnce' /\ OutageIsClosed'
  BY <1>1, <1>3, <1>5, <1>7 DEF EscalatesOnce, OutageIsClosed
<1>10. rust'.last # "none"
  BY <1>1, <1>3 DEF Outcomes
<1> QED
  BY <1>1, <1>3, <1>8, <1>9, <1>10 DEF StreakHolds

LEMMA FreshStart ==
  ASSUME CollectorInit
  PROVE  CollectorHolds
<1>1. StreakTypes /\ StreakHolds
  BY WindowAssumption DEF CollectorInit, StreakTypes, StreakHolds, EscalatesOnce, OutageIsClosed
<1> QED
  BY <1>1 DEF CollectorInit, CollectorHolds, Served, ServedOf

LEMMA CollectorHoldsNext ==
  ASSUME CollectorHolds, [CollectorNext]_collectorVars
  PROVE  CollectorHolds'
<1>h. /\ StreakTypes /\ StreakHolds /\ Served /\ cache.error \in BOOLEAN /\ got \subseteq UNION Families
      /\ cache = [data |-> cache.data, error |-> cache.error]
  BY DEF CollectorHolds
<1>1. CASE Collect
  <2>1. PICK out \in Outcomes, up \in BOOLEAN, fam \in Families :
          \E h \in SUBSET fam :
            /\ Possible(h) /\ Availability(out)
            /\ cache' \in [data : {Payload(h, out)}, error : BOOLEAN]
            /\ got' = h
    BY <1>1 DEF Collect
  <2>2. PICK h \in SUBSET fam :
            /\ Possible(h) /\ Availability(out)
            /\ cache' \in [data : {Payload(h, out)}, error : BOOLEAN]
            /\ got' = h
    BY <2>1
  <2>3. Readable(h)
    BY FamiliesAssumption DEF Readable
  <2>4. cache'.data = Payload(h, out) /\ cache'.error \in BOOLEAN /\ cache' = [data |-> cache'.data, error |-> cache'.error]
    BY <2>2
  <2>5. StreakTypes' /\ StreakHolds'
    BY <1>h, <2>2, StreakNext
  <2>6. Served'
    BY <2>2, <2>3, <2>4 DEF Served, ServedOf
  <2>7. got' \subseteq UNION Families
    BY <2>2
  <2> QED
    BY <2>4, <2>5, <2>6, <2>7 DEF CollectorHolds
<1>2. CASE CollectFailed
  <2>1. PICK out \in Outcomes : Availability(out)
    BY <1>2 DEF CollectFailed
  <2>2. cache' = [cache EXCEPT !.error = TRUE] /\ got' = got
    BY <1>2 DEF CollectFailed
  <2>3. cache'.data = cache.data /\ cache'.error = TRUE /\ cache' = [data |-> cache'.data, error |-> cache'.error]
    BY <1>h, <2>2
  <2>4. Served'
    BY <1>h, <2>2, <2>3 DEF Served
  <2>5. StreakTypes' /\ StreakHolds'
    BY <1>h, <2>1, StreakNext
  <2> QED
    BY <1>h, <2>2, <2>3, <2>4, <2>5 DEF CollectorHolds
<1>3. CASE Restart
  <2>1. StreakTypes' /\ StreakHolds'
    BY <1>3, WindowAssumption DEF Restart, StreakTypes, StreakHolds, EscalatesOnce, OutageIsClosed
  <2> QED
    BY <1>3, <2>1 DEF Restart, CollectorHolds, Served, ServedOf
<1>4. CASE UNCHANGED collectorVars
  BY <1>h, <1>4 DEF collectorVars, CollectorHolds, StreakTypes, StreakHolds, EscalatesOnce, OutageIsClosed, Served
<1> QED
  BY <1>1, <1>2, <1>3, <1>4 DEF CollectorNext

LEMMA CollectorHoldsAlways == CollectorSpec => []CollectorHolds
  BY FreshStart, CollectorHoldsNext, PTL DEF CollectorSpec

\* The collector's state keeps its types: what is served has every field, from one of the
\* sources or empty.
THEOREM CollectorTypes == CollectorSpec => []CollectorTypeOK
<1>1. ASSUME CollectorHolds PROVE CollectorTypeOK
  <2>1. cache.data \in [value : [Fields -> Sources \cup {Null}], gpu : SUBSET {"ps", "rust"},
             network : SUBSET {"ps", "rust"}, why : SUBSET Fields]
    BY <1>1, PayloadTypes DEF CollectorHolds, Served
  <2>2. cache \in [data : [value : [Fields -> Sources \cup {Null}], gpu : SUBSET {"ps", "rust"},
                         network : SUBSET {"ps", "rust"}, why : SUBSET Fields], error : BOOLEAN]
    BY <1>1, <2>1 DEF CollectorHolds
  <2> QED
    BY <1>1, <2>2 DEF CollectorTypeOK, CollectorHolds, StreakTypes
<1> QED
  BY <1>1, CollectorHoldsAlways, PTL

\* A reading is lost, and a reason stands beside one, only in the cases NoReadingLost and
\* ReasonsFitGaps name, for every set of readings the sources can print together.
THEOREM ReadingsStayFaithful == CollectorSpec => []ReadingsAreFaithful
<1>1. CollectorHolds => ReadingsAreFaithful
  BY ServedIsFaithful DEF CollectorHolds
<1> QED
  BY <1>1, CollectorHoldsAlways, PTL

\* An outage of rust-collector escalates exactly once and is reported over, for a window
\* of any length.
THEOREM OutagesEscalateOnce == CollectorSpec => []OutagesAreReported
<1>1. CollectorHolds => OutagesAreReported
  BY DEF CollectorHolds, StreakHolds, OutagesAreReported
<1> QED
  BY <1>1, CollectorHoldsAlways, PTL
=============================================================================
