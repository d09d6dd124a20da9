-------------------------- MODULE VolumeRecordProofs --------------------------
(***************************************************************************)
(* More about VolumeLease: a redelivered or late record changes nothing,   *)
(* no body is deleted under the flush of a commit that is then admitted,   *)
(* and the records a rotated log opens with rebuild the lease table.  The  *)
(* three rest on one description of what a record does to the table: it    *)
(* rewrites one slot (Rewrites), or nothing.                               *)
(***************************************************************************)
EXTENDS VolumeLeaseProofs

\* Slot i is used and its flush is open.
Flushes(t, i) == t.entries[i].vol # NoVolume /\ t.entries[i].flushing

\* The lease generation slot i stands for.
WriterAt(t, i) == [vol |-> t.entries[i].vol, fence |-> t.entries[i].fence,
                   holder |-> t.entries[i].holder]

SameFloors(t, u) == u.fenceFloor = t.fenceFloor /\ u.stampFloor = t.stampFloor

\* u is t with slot i rewritten by a record on v stamped now: the slot that
\* names v and is older, or, v having none, the first free slot, or a slot of
\* a full table whose stamp goes into the floor.
Rewrites(t, u, i, v, now) ==
    /\ u \in Table
    /\ u.entries[i].vol = v
    /\ u.entries[i].stamp = now
    /\ \A j \in Slot : j # i => u.entries[j] = t.entries[j]
    /\ \/ /\ t.entries[i].vol = v
          /\ t.entries[i].stamp < now
          /\ SameFloors(t, u)
       \/ /\ ~Known(t, v)
          /\ t.stampFloor < now
          /\ t.entries[i].vol = NoVolume
          /\ \A j \in Slot : t.entries[j].vol = NoVolume => i <= j
          /\ SameFloors(t, u)
       \/ /\ ~Known(t, v)
          /\ t.stampFloor < now
          /\ FreeSlots(t) = {}
          /\ t.stampFloor <= u.stampFloor
          /\ t.entries[i].stamp <= u.stampFloor

\* u opens no flush: one open in u was open in t, for the same generation.
Subsides(t, u) ==
    \A i \in Slot : Flushes(u, i) => Flushes(t, i) /\ WriterAt(u, i) = WriterAt(t, i)

\* First returns the least member of its argument.
LEMMA FirstLeast ==
    ASSUME NEW S \in SUBSET Slot, S # {}
    PROVE  First(S) \in S /\ \A j \in S : First(S) <= j
<1>1. S \subseteq Nat
  BY SlotsAssumption DEF Slot
<1>2. PICK x \in S : \A y \in S : ~(<<y, x>> \in OpToRel(<, Nat))
  BY <1>1, NatLessThanWellFounded, WFMin
<1>3. ASSUME NEW y \in S PROVE x <= y
  <2>1. ~(y < x)
    BY <1>1, <1>2 DEF OpToRel
  <2>2. QED
    BY <1>1, <2>1
<1>4. QED
  BY <1>3 DEF First

\* Only one slot names a volume, and it is the one find returns.
LEMMA SlotOfIs ==
    ASSUME NEW t \in Table, Distinct(t), NEW v \in Volume, NEW i \in Slot,
           t.entries[i].vol = v
    PROVE  Known(t, v) /\ SlotOf(t, v) = i /\ Lease(t, v) = t.entries[i]
<1>1. Known(t, v)
  BY DEF Known, Naming
<1>2. SlotOf(t, v) \in Slot /\ t.entries[SlotOf(t, v)].vol = v
  BY <1>1, SlotOfNames
<1>3. SlotOf(t, v) = i
  BY <1>2, NoVolumeAssumption DEF Distinct
<1>4. QED
  BY <1>1, <1>3 DEF Lease

\* Writing a newer entry over the slot that names v.
LEMMA PutRewrites ==
    ASSUME NEW t \in Table, NEW v \in Volume, NEW i \in Slot, t.entries[i].vol = v,
           NEW now \in Nat, t.entries[i].stamp < now,
           NEW e \in Entry, e.vol = v, e.stamp = now
    PROVE  /\ Rewrites(t, Put(t, i, e), i, v, now)
           /\ (e.flushing => t.entries[i].flushing /\ e.fence = t.entries[i].fence
                             /\ e.holder = t.entries[i].holder)
                => Subsides(t, Put(t, i, e))
<1> DEFINE u == Put(t, i, e)
<1>1. u \in Table /\ SameFloors(t, u)
  BY PutTable DEF SameFloors
<1>2. \A j \in Slot : u.entries[j] = IF j = i THEN e ELSE t.entries[j]
  BY PutEntries
<1> HIDE DEF u
<1>3. Rewrites(t, u, i, v, now)
  BY <1>1, <1>2 DEF Rewrites
<1>4. ASSUME e.flushing => t.entries[i].flushing /\ e.fence = t.entries[i].fence
                             /\ e.holder = t.entries[i].holder
      PROVE  Subsides(t, u)
  BY <1>2, <1>4 DEF Subsides, Flushes, WriterAt
<1>5. QED
  BY <1>3, <1>4 DEF u

\* A lease record on a known volume, stamped later than its entry (apply).
LEMMA ApplyKnownRewrites ==
    ASSUME NEW t \in Table, NEW v \in Volume, NEW i \in Slot, t.entries[i].vol = v,
           NEW op, NEW h \in Holder, NEW now \in Nat, NEW ttl \in Nat,
           t.entries[i].stamp < now
    PROVE  LET u == ApplyKnown(t, i, op, h, now, ttl).table
           IN  Rewrites(t, u, i, v, now) /\ Subsides(t, u)
<1> DEFINE e == [t.entries[i] EXCEPT !.stamp = now]
           mine == e.live /\ e.holder = h
           held == HeldAt(e, now)
           new == [e EXCEPT !.fence = @ + 1, !.holder = h, !.live = TRUE,
                            !.flushing = FALSE, !.expires = now + ttl]
           kept == [e EXCEPT !.expires = now + ttl]
           ended == [e EXCEPT !.live = FALSE, !.flushing = FALSE]
           Fit(x) == Rewrites(t, Put(t, i, x), i, v, now) /\ Subsides(t, Put(t, i, x))
<1>1. t.entries[i] \in Entry
  BY DEF Table
<1>2. /\ e \in Entry /\ e.vol = v /\ e.stamp = now
      /\ e.fence = t.entries[i].fence /\ e.holder = t.entries[i].holder
      /\ e.flushing = t.entries[i].flushing
  BY <1>1 DEF Entry
<1>3. now + ttl \in Nat /\ e.fence + 1 \in Nat
  BY <1>2 DEF Entry
<1> HIDE DEF e
<1>4. new \in Entry /\ new.vol = v /\ new.stamp = now /\ ~new.flushing
  BY <1>2, <1>3 DEF Entry
<1>5. /\ kept \in Entry /\ kept.vol = v /\ kept.stamp = now
      /\ kept.fence = e.fence /\ kept.holder = e.holder /\ kept.flushing = e.flushing
  BY <1>2, <1>3 DEF Entry
<1>6. ended \in Entry /\ ended.vol = v /\ ended.stamp = now /\ ~ended.flushing
  BY <1>2 DEF Entry
<1>7. Fit(e)
  BY <1>2, PutRewrites
<1> HIDE DEF new, kept, ended
<1>8. Fit(new) /\ Fit(ended)
  BY <1>4, <1>6, PutRewrites
<1>9. Fit(kept)
  BY <1>2, <1>5, PutRewrites
<1>10. ApplyKnown(t, i, op, h, now, ttl) =
        CASE op = "acquire" /\ held /\ ~mine -> Standing(Put(t, i, e), e, "Held", now)
          [] op = "acquire" /\ ~held -> Granted(t, i, new)
          [] op \in {"acquire", "renew"} /\ mine /\ held -> Granted(t, i, kept)
          [] op = "release" /\ mine -> Outcome(Put(t, i, ended), "Granted", e.fence, 0)
          [] OTHER -> Standing(Put(t, i, e), e, "Lost", now)
  BY DEF ApplyKnown, e, new, kept, ended
<1>11. /\ \A s : Standing(Put(t, i, e), e, s, now).table = Put(t, i, e)
       /\ \A x : Granted(t, i, x).table = Put(t, i, x)
       /\ Outcome(Put(t, i, ended), "Granted", e.fence, 0).table = Put(t, i, ended)
  BY DEF Standing, Granted, Outcome, Bare
<1> HIDE DEF mine, held, Fit
<1>12. \E x : Fit(x) /\ ApplyKnown(t, i, op, h, now, ttl).table = Put(t, i, x)
  <2>1. CASE op = "acquire" /\ held /\ ~mine
    BY <1>7, <1>10, <1>11, <2>1
  <2>2. CASE op = "acquire" /\ ~held
    BY <1>8, <1>10, <1>11, <2>2
  <2>3. CASE op \in {"acquire", "renew"} /\ mine /\ held
    BY <1>9, <1>10, <1>11, <2>3
  <2>4. CASE op = "release" /\ mine
    BY <1>8, <1>10, <1>11, <2>4
  <2>5. CASE /\ ~(op = "acquire" /\ held /\ ~mine) /\ ~(op = "acquire" /\ ~held)
             /\ ~(op \in {"acquire", "renew"} /\ mine /\ held)
             /\ ~(op = "release" /\ mine)
    BY <1>7, <1>10, <1>11, <2>5
  <2>6. QED
    BY <2>1, <2>2, <2>3, <2>4, <2>5
<1>13. QED
  BY <1>12 DEF Fit

\* A grant to a volume with no entry takes the first free slot, or recycles one
\* of a full table (apply_absent, claim_slot).
LEMMA ApplyAbsentRewrites ==
    ASSUME NEW t \in Table, NEW op, NEW v \in Volume, ~Known(t, v),
           NEW h \in Holder, NEW now \in Nat, NEW ttl \in Nat
    PROVE  LET u == ApplyAbsent(t, op, v, h, now, ttl).table
           IN  u = t \/ \E i \in Slot : Rewrites(t, u, i, v, now) /\ Subsides(t, u)
<1> DEFINE i == First(Claimable(t, now))
           c == ClaimSlot(t, i)
           e == [vol |-> v, live |-> TRUE, holder |-> h,
                 fence |-> c.fenceFloor + 1, expires |-> now + ttl,
                 stamp |-> now, flushing |-> FALSE]
           u == Put(c, i, e)
<1>1. ApplyAbsent(t, op, v, h, now, ttl) =
        IF now <= t.stampFloor THEN Bare(t, "Stale")
        ELSE IF op # "acquire" THEN Bare(t, "Lost")
        ELSE IF Claimable(t, now) = {} THEN Bare(t, "Busy")
        ELSE Granted(c, i, e)
  BY DEF ApplyAbsent
<1>2. (\A s : Bare(t, s).table = t) /\ Granted(c, i, e).table = u
  BY DEF Bare, Granted, Outcome
<1>3. ASSUME Claimable(t, now) # {}, ~(now <= t.stampFloor)
      PROVE  i \in Slot /\ Rewrites(t, u, i, v, now) /\ Subsides(t, u)
  <2>1. Claimable(t, now) \in SUBSET Slot
    BY DEF Claimable, FreeSlots, Recyclable
  <2>2. i \in Claimable(t, now) /\ i \in Slot /\ \A j \in Claimable(t, now) : i <= j
    BY <1>3, <2>1, FirstLeast
  <2> HIDE DEF i
  <2>3. t.stampFloor \in Nat /\ t.entries \in [Slot -> Entry] /\ t.entries[i].stamp \in Nat
    BY <2>2 DEF Table, Entry
  <2>4. /\ c \in Table /\ c.fenceFloor \in Nat
        /\ \A j \in Slot : j # i => c.entries[j] = t.entries[j]
        /\ \/ /\ FreeSlots(t) = {}
              /\ t.stampFloor <= c.stampFloor /\ t.entries[i].stamp <= c.stampFloor
           \/ /\ SameFloors(t, c) /\ t.entries[i].vol = NoVolume
              /\ \A j \in Slot : t.entries[j].vol = NoVolume => i <= j
    <3>1. CASE FreeSlots(t) # {}
      <4>1. c = t /\ Claimable(t, now) = FreeSlots(t)
        BY <3>1 DEF ClaimSlot, Claimable
      <4> HIDE DEF c
      <4>2. t.fenceFloor \in Nat
        BY DEF Table
      <4>3. QED
        BY <2>2, <4>1, <4>2 DEF FreeSlots, SameFloors
    <3>2. CASE FreeSlots(t) = {}
      <4>1. c = Recycle(t, i)
        BY <3>2 DEF ClaimSlot
      <4> HIDE DEF c
      <4>2. /\ c.entries = [t.entries EXCEPT ![i] = EmptyEntry]
            /\ c.fenceFloor = AtLeast(t.fenceFloor, t.entries[i].fence)
            /\ c.stampFloor = AtLeast(t.stampFloor, t.entries[i].stamp)
        BY <4>1 DEF Recycle
      <4>3. EmptyEntry \in Entry
        BY DEF EmptyEntry, Entry
      <4>4. t.fenceFloor \in Nat /\ t.entries[i].fence \in Nat
        BY <2>2 DEF Table, Entry
      <4>5. /\ c.fenceFloor \in Nat /\ c.stampFloor \in Nat
            /\ t.stampFloor <= c.stampFloor /\ t.entries[i].stamp <= c.stampFloor
        BY <2>3, <4>2, <4>4 DEF AtLeast
      <4>6. c.entries \in [Slot -> Entry] /\ \A j \in Slot : j # i => c.entries[j] = t.entries[j]
        BY <2>3, <4>2, <4>3
      <4>7. c \in Table
        BY <4>1, <4>5, <4>6 DEF Recycle, Table
      <4>8. QED
        BY <3>2, <4>5, <4>6, <4>7
    <3>3. QED
      BY <3>1, <3>2
  <2> HIDE DEF c
  <2>5. e \in Entry /\ e.vol = v /\ e.stamp = now /\ ~e.flushing
    BY <2>4 DEF Entry
  <2> HIDE DEF e
  <2>6. u \in Table /\ SameFloors(c, u)
    BY <2>2, <2>4, <2>5, PutTable DEF SameFloors
  <2>7. \A j \in Slot : u.entries[j] = IF j = i THEN e ELSE t.entries[j]
    BY <2>2, <2>4, <2>5, PutEntries
  <2> HIDE DEF u
  <2>8. t.stampFloor < now
    BY <1>3, <2>3
  <2>9. Rewrites(t, u, i, v, now)
    BY <2>2, <2>4, <2>5, <2>6, <2>7, <2>8 DEF Rewrites, SameFloors
  <2>10. Subsides(t, u)
    BY <2>5, <2>7 DEF Subsides, Flushes, WriterAt
  <2>11. QED
    BY <2>2, <2>9, <2>10
<1> HIDE DEF i, c, e, u
<1>4. QED
  BY <1>1, <1>2, <1>3

\* A lease record leaves the table or rewrites one slot, and opens no flush.
LEMMA LeaseApplyRewrites ==
    ASSUME NEW t \in Table, NEW op, NEW v \in Volume, NEW h \in Holder,
           NEW now \in Nat, NEW ttl \in Nat
    PROVE  LET u == LeaseApply(t, op, v, h, now, ttl).table
           IN  u = t \/ \E i \in Slot : Rewrites(t, u, i, v, now) /\ Subsides(t, u)
<1>1. \A s : Bare(t, s).table = t
  BY DEF Bare, Outcome
<1>2. CASE ~Known(t, v)
  BY <1>1, <1>2, ApplyAbsentRewrites DEF LeaseApply
<1>3. CASE Known(t, v)
  <2> DEFINE i == SlotOf(t, v)
             a == ApplyKnown(t, i, op, h, now, ttl)
  <2>1. i \in Slot /\ t.entries[i].vol = v /\ t.entries[i].stamp \in Nat
    BY <1>3, SlotOfNames DEF Table, Entry
  <2>2. LeaseApply(t, op, v, h, now, ttl) =
          IF now = 0 \/ (op # "release" /\ (ttl = 0 \/ ttl > TtlMax))
          THEN Bare(t, "BadRequest")
          ELSE IF now <= t.entries[i].stamp THEN Bare(t, "Stale") ELSE a
    BY <1>3 DEF LeaseApply, Lease
  <2>3. t.entries[i].stamp < now => Rewrites(t, a.table, i, v, now) /\ Subsides(t, a.table)
    BY <2>1, ApplyKnownRewrites
  <2> HIDE DEF i, a
  <2>4. QED
    BY <1>1, <2>1, <2>2, <2>3
<1>4. QED
  BY <1>2, <1>3

\* A volume record is judged by stamping its entry (touch), and may then close
\* its flush or open it (set_flushing).
LEMMA JudgedTable ==
    ASSUME NEW t \in Table, Distinct(t), NEW v \in Volume, NEW h \in Holder,
           NEW now \in Nat, Fresh(t, v, now)
    PROVE  LET i == SlotOf(t, v)
               u == Touch(t, v, now)
               s == SetFlushing(u, v, h, FALSE)
               o == SetFlushing(u, v, h, TRUE)
           IN  /\ i \in Slot /\ t.entries[i].vol = v /\ t.entries[i].stamp < now
               /\ Rewrites(t, u, i, v, now) /\ Subsides(t, u)
               /\ Rewrites(t, s, i, v, now) /\ Subsides(t, s)
               /\ Rewrites(t, o, i, v, now)
               /\ Known(u, v) /\ Lease(u, v) = u.entries[i]
               /\ WriterAt(u, i) = WriterAt(t, i) /\ WriterAt(o, i) = WriterAt(t, i)
               /\ Flushes(u, i) <=> Flushes(t, i)
<1> DEFINE i == SlotOf(t, v)
           e == [t.entries[i] EXCEPT !.stamp = now]
           u == Touch(t, v, now)
<1>1. i \in Slot /\ t.entries[i].vol = v /\ t.entries[i].stamp < now
  BY SlotOfNames DEF Fresh, Lease
<1>2. t.entries[i] \in Entry
  BY <1>1 DEF Table
<1>3. /\ e \in Entry /\ e.vol = v /\ e.stamp = now
      /\ e.fence = t.entries[i].fence /\ e.holder = t.entries[i].holder
      /\ e.flushing = t.entries[i].flushing
  BY <1>1, <1>2 DEF Entry
<1>4. u = Put(t, i, e)
  BY DEF Touch, Lease
<1> HIDE DEF i, e, u
<1>5. Rewrites(t, u, i, v, now) /\ Subsides(t, u)
  BY <1>1, <1>3, <1>4, PutRewrites
<1>6. u \in Table /\ \A j \in Slot : u.entries[j] = IF j = i THEN e ELSE t.entries[j]
  BY <1>1, <1>3, <1>4, <1>5, PutEntries DEF Rewrites
<1>7. Distinct(u)
  BY <1>1, <1>3, <1>6 DEF Distinct
<1>8. Known(u, v) /\ SlotOf(u, v) = i /\ Lease(u, v) = u.entries[i]
  BY <1>1, <1>3, <1>6, <1>7, SlotOfIs
<1>9. WriterAt(u, i) = WriterAt(t, i) /\ (Flushes(u, i) <=> Flushes(t, i))
  BY <1>1, <1>3, <1>6 DEF WriterAt, Flushes
<1>10. ASSUME NEW open \in BOOLEAN
       PROVE  LET o == SetFlushing(u, v, h, open)
              IN  /\ Rewrites(t, o, i, v, now) /\ WriterAt(o, i) = WriterAt(t, i)
                  /\ ~open => Subsides(t, o)
  <2> DEFINE x == [e EXCEPT !.flushing = open]
             o == SetFlushing(u, v, h, open)
  <2>1. CASE e.holder = h
    <3>1. /\ x \in Entry /\ x.vol = v /\ x.stamp = now
          /\ x.fence = e.fence /\ x.holder = e.holder /\ x.flushing = open
      BY <1>3 DEF Entry
    <3>2. o = Put(u, i, x)
      BY <1>1, <1>6, <1>8, <2>1 DEF SetFlushing
    <3> HIDE DEF x, o
    <3>3. o \in Table /\ SameFloors(u, o)
      BY <1>1, <1>6, <3>1, <3>2, PutTable DEF SameFloors
    <3>4. \A j \in Slot : o.entries[j] = IF j = i THEN x ELSE t.entries[j]
      BY <1>1, <1>6, <3>1, <3>2, PutEntries
    <3>5. SameFloors(t, u)
      BY <1>1, <1>3, <1>4, PutTable DEF SameFloors
    <3>6. Rewrites(t, o, i, v, now)
      BY <1>1, <3>1, <3>3, <3>4, <3>5 DEF Rewrites, SameFloors
    <3>7. WriterAt(o, i) = WriterAt(t, i)
      BY <1>1, <1>3, <3>1, <3>4 DEF WriterAt
    <3>8. ~open => Subsides(t, o)
      BY <3>1, <3>4 DEF Subsides, Flushes, WriterAt
    <3>9. QED
      BY <3>6, <3>7, <3>8 DEF o
  <2>2. CASE e.holder # h
    <3>1. o = u
      BY <1>1, <1>6, <1>8, <2>2 DEF SetFlushing
    <3>2. QED
      BY <1>5, <1>9, <3>1
  <2>3. QED
    BY <2>1, <2>2
<1>11. QED
  BY <1>1, <1>5, <1>8, <1>9, <1>10 DEF i, u

-------------------------------------------------------------------------------
(***************************************************************************)
(* The invariant of the three properties.                                  *)
(***************************************************************************)

\* The table remembers, in the entry or in its floor, the stamp of the last
\* record that changed a volume.
Stamped(t, last) ==
    \A v \in Volume :
        /\ \A i \in Slot : t.entries[i].vol = v => last[v] <= t.entries[i].stamp
        /\ ~Known(t, v) => last[v] <= t.stampFloor

\* No open flush belongs to a writer a deletion happened under: a candidate is
\* reserved from its reservation to its deletion, and proven only while no
\* flush is open.
Guarded ==
    /\ \A i \in Slot : Flushes(leases, i) => WriterAt(leases, i) \notin exposed
    /\ sweep.at \in {"reserved", "proven"} => sweep.body \in reserved
    /\ sweep.at = "proven" => \A i \in Slot : ~Flushes(leases, i)

\* The used slots come first, the others are empty, and the floors have moved
\* only in a table that is used.
Packed(t) ==
    /\ \A i \in Slot : t.entries[i].vol = NoVolume => t.entries[i] = EmptyEntry
    /\ \A i, j \in Slot : i < j /\ t.entries[i].vol = NoVolume => t.entries[j].vol = NoVolume
    /\ t.entries[1].vol = NoVolume => t.fenceFloor = 0 /\ t.stampFloor = 0

RInv == Stamped(leases, judged) /\ Guarded /\ Packed(leases)

\* The empty table satisfies it.
LEMMA InitRInv == Init => RInv
<1> SUFFICES ASSUME Init PROVE RInv
  OBVIOUS
<1>1. leases = EmptyTable /\ judged = [v \in Volume |-> 0] /\ sweep.at = "idle"
  BY DEF Init
<1>2. /\ \A i \in Slot : leases.entries[i] = EmptyEntry
      /\ leases.fenceFloor = 0 /\ leases.stampFloor = 0
  BY <1>1 DEF EmptyTable
<1>3. EmptyEntry.vol = NoVolume /\ EmptyEntry.stamp = 0 /\ 1 \in Slot
  BY SlotsAssumption DEF EmptyEntry, Slot
<1>4. Stamped(leases, judged)
  <2>1. \A v \in Volume : judged[v] <= leases.stampFloor
    <3>1. \A v \in Volume : judged[v] = 0
      BY <1>1
    <3>2. leases.stampFloor = 0 /\ 0 <= 0
      BY <1>2
    <3>3. QED
      BY <3>1, <3>2
  <2>2. \A v \in Volume, i \in Slot : leases.entries[i].vol # v
    BY <1>2, <1>3, NoVolumeAssumption
  <2>3. QED
    BY <2>1, <2>2 DEF Stamped
<1>5. Guarded
  BY <1>1, <1>2, <1>3 DEF Guarded, Flushes
<1>6. Packed(leases)
  BY <1>2, <1>3 DEF Packed
<1>7. QED
  BY <1>4, <1>5, <1>6 DEF RInv

\* A rewritten slot is stamped later than all its volume has seen, and what it
\* held of another volume is in the floor.
LEMMA RewritesStamped ==
    ASSUME NEW t \in Table, Distinct(t), NEW last \in [Volume -> Nat], Stamped(t, last),
           NEW u, NEW i \in Slot, NEW v \in Volume, NEW now \in Nat,
           Rewrites(t, u, i, v, now)
    PROVE  last[v] < now /\ Stamped(u, [last EXCEPT ![v] = now])
<1>1. /\ t.entries[i].stamp \in Nat /\ t.stampFloor \in Nat /\ u.stampFloor \in Nat
      /\ last[v] \in Nat
  BY DEF Table, Entry, Rewrites
<1>2. /\ u.entries[i].vol = v /\ u.entries[i].stamp = now
      /\ \A j \in Slot : j # i => u.entries[j] = t.entries[j]
  BY DEF Rewrites
<1>3. last[v] < now
  <2>1. CASE t.entries[i].vol = v /\ t.entries[i].stamp < now
    BY <1>1, <2>1 DEF Stamped
  <2>2. CASE ~Known(t, v) /\ t.stampFloor < now
    BY <1>1, <2>2 DEF Stamped
  <2>3. QED
    BY <2>1, <2>2 DEF Rewrites
<1>4. \A j \in Slot : u.entries[j].vol = v => j = i
  BY <1>2, NoVolumeAssumption DEF Rewrites, Distinct, Known, Naming
<1>5. ASSUME NEW x \in Volume
      PROVE  LET n == [last EXCEPT ![v] = now]
             IN  /\ \A j \in Slot : u.entries[j].vol = x => n[x] <= u.entries[j].stamp
                 /\ ~Known(u, x) => n[x] <= u.stampFloor
  <2>1. CASE x = v
    <3>1. Known(u, v)
      BY <1>2 DEF Known, Naming
    <3>2. QED
      BY <1>2, <1>4, <2>1, <3>1
  <2>2. CASE x # v
    <3>1. [last EXCEPT ![v] = now][x] = last[x] /\ last[x] \in Nat
      BY <2>2
    <3>2. \A j \in Slot : u.entries[j].vol = x => last[x] <= u.entries[j].stamp
      BY <1>2, <2>2 DEF Stamped
    <3>3. ASSUME ~Known(u, x) PROVE last[x] <= u.stampFloor
      <4>1. CASE t.entries[i].vol = x
        <5>1. last[x] <= t.entries[i].stamp
          BY <4>1 DEF Stamped
        <5>2. t.entries[i].stamp <= u.stampFloor
          BY <2>2, <4>1, NoVolumeAssumption DEF Rewrites
        <5>3. QED
          BY <1>1, <3>1, <5>1, <5>2
      <4>2. CASE t.entries[i].vol # x
        <5>1. ~Known(t, x)
          BY <1>2, <3>3, <4>2 DEF Known, Naming
        <5>2. last[x] <= t.stampFloor
          BY <5>1 DEF Stamped
        <5>3. t.stampFloor <= u.stampFloor
          BY <1>1 DEF Rewrites, SameFloors
        <5>4. QED
          BY <1>1, <3>1, <5>2, <5>3
      <4>3. QED
        BY <4>1, <4>2
    <3>4. QED
      BY <3>1, <3>2, <3>3
  <2>3. QED
    BY <2>1, <2>2
<1>6. QED
  BY <1>3, <1>5 DEF Stamped

\* A rewritten slot leaves no gap behind it.
LEMMA RewritesPacked ==
    ASSUME NEW t \in Table, Packed(t), NEW u, NEW i \in Slot, NEW v \in Volume,
           NEW now \in Nat, Rewrites(t, u, i, v, now)
    PROVE  Packed(u)
<1>1. /\ u.entries[i].vol = v /\ v # NoVolume /\ 1 \in Slot /\ Slot \subseteq Nat
      /\ \A j \in Slot : j # i => u.entries[j] = t.entries[j]
  BY NoVolumeAssumption, SlotsAssumption DEF Rewrites, Slot
<1>2. \A j \in Slot : u.entries[j].vol = NoVolume => j # i /\ t.entries[j].vol = NoVolume
  BY <1>1
<1>3. \A j \in Slot : u.entries[j].vol = NoVolume => u.entries[j] = EmptyEntry
  BY <1>1, <1>2 DEF Packed
<1>4. ASSUME NEW j \in Slot, NEW k \in Slot, j < k, u.entries[j].vol = NoVolume
      PROVE  u.entries[k].vol = NoVolume
  <2>1. t.entries[j].vol = NoVolume /\ t.entries[k].vol = NoVolume
    BY <1>2, <1>4 DEF Packed
  <2>2. k # i
    BY <1>1, <1>4, <2>1 DEF Rewrites, FreeSlots
  <2>3. QED
    BY <1>1, <2>1, <2>2
<1>5. ASSUME u.entries[1].vol = NoVolume PROVE u.fenceFloor = 0 /\ u.stampFloor = 0
  <2>1. t.entries[1].vol = NoVolume /\ t.fenceFloor = 0 /\ t.stampFloor = 0
    BY <1>1, <1>2, <1>5 DEF Packed
  <2>2. QED
    BY <1>1, <2>1 DEF Rewrites, FreeSlots, SameFloors
<1>6. QED
  BY <1>3, <1>4, <1>5 DEF Packed

\* Ending the flushes of expired leases changes flush marks only.
LEMMA EndExpiredKeeps ==
    ASSUME NEW t \in Table, NEW now \in Nat
    PROVE  LET u == EndExpiredFlushes(t, now)
           IN  /\ SameFloors(t, u) /\ Subsides(t, u)
               /\ \A i \in Slot : /\ u.entries[i].vol = t.entries[i].vol
                                  /\ u.entries[i].stamp = t.entries[i].stamp
               /\ Packed(t) => Packed(u)
<1> DEFINE ended(i) == t.entries[i].flushing /\ HeldAt(t.entries[i], now)
           e(i) == [t.entries[i] EXCEPT !.flushing = ended(i)]
           es == [i \in Slot |-> e(i)]
           u == EndExpiredFlushes(t, now)
<1>1. CASE now = 0
  BY <1>1 DEF EndExpiredFlushes, SameFloors, Subsides
<1>2. CASE now # 0
  <2>1. u = [t EXCEPT !.entries = es]
    BY <1>2 DEF EndExpiredFlushes
  <2>2. \A i \in Slot : t.entries[i] \in Entry /\ es[i] = e(i)
    BY DEF Table
  <2>3. ASSUME NEW i \in Slot
        PROVE  /\ e(i).vol = t.entries[i].vol /\ e(i).stamp = t.entries[i].stamp
               /\ e(i).fence = t.entries[i].fence /\ e(i).holder = t.entries[i].holder
               /\ e(i).flushing => t.entries[i].flushing
               /\ t.entries[i] = EmptyEntry => e(i) = EmptyEntry
    <3>1. t.entries[i] \in Entry
      BY <2>2
    <3>2. t.entries[i] = EmptyEntry => ended(i) = FALSE
      BY DEF EmptyEntry
    <3>3. ended(i) \in BOOLEAN /\ (ended(i) => t.entries[i].flushing)
      OBVIOUS
    <3> HIDE DEF ended
    <3>4. e(i).flushing = ended(i)
      BY <3>1, <3>3 DEF Entry
    <3>5. t.entries[i] = EmptyEntry => e(i) = EmptyEntry
      <4>1. EmptyEntry \in Entry /\ EmptyEntry.flushing = FALSE
        BY DEF EmptyEntry, Entry
      <4>2. [EmptyEntry EXCEPT !.flushing = FALSE] = EmptyEntry
        BY <4>1 DEF Entry
      <4>3. QED
        BY <3>2, <4>2
    <3>6. QED
      BY <3>1, <3>3, <3>4, <3>5 DEF Entry
  <2> HIDE DEF es, e, ended
  <2>4. u.entries = es /\ SameFloors(t, u)
    BY <2>1 DEF Table, SameFloors
  <2> HIDE DEF u
  <2>5. /\ Subsides(t, u)
        /\ \A i \in Slot : /\ u.entries[i].vol = t.entries[i].vol
                           /\ u.entries[i].stamp = t.entries[i].stamp
    BY <2>2, <2>3, <2>4 DEF Subsides, Flushes, WriterAt
  <2>6. 1 \in Slot
    BY SlotsAssumption DEF Slot
  <2>7. Packed(t) => Packed(u)
    BY <2>2, <2>3, <2>4, <2>6 DEF Packed, SameFloors
  <2>8. QED
    BY <2>4, <2>5, <2>7 DEF u
<1>3. QED
  BY <1>1, <1>2

\* What any step does to the table and to the last judged stamps.
LEMMA TableStep ==
    ASSUME IInv, Next
    PROVE  \/ leases' = leases /\ judged' = judged
           \/ \E v \in Volume, now \in Nat, i \in Slot :
                 /\ Rewrites(leases, leases', i, v, now)
                 /\ judged' = [judged EXCEPT ![v] = now]
           \/ \E now \in Nat : leases' = EndExpiredFlushes(leases, now) /\ judged' = judged
<1> DEFINE Quiet == leases' = leases /\ judged' = judged
           Record == \E v \in Volume, now \in Nat, i \in Slot :
                        /\ Rewrites(leases, leases', i, v, now)
                        /\ judged' = [judged EXCEPT ![v] = now]
           Ended == \E now \in Nat :
                        leases' = EndExpiredFlushes(leases, now) /\ judged' = judged
<1>1. leases \in Table /\ Distinct(leases) /\ 0..MaxNow \subseteq Nat
      /\ 0..(TtlMax + 1) \subseteq Nat /\ judged \in [Volume -> Nat]
  BY BoundsAssumption, TtlMaxAssumption DEF IInv, TypeOK
<1>2. ASSUME NEW v \in Volume, NEW h \in Holder, NEW now \in 0..MaxNow,
             NEW op \in LeaseOps, NEW ttl \in 0..(TtlMax + 1),
             LeaseRecord(op, v, h, now, ttl)
      PROVE  Quiet \/ Record
  <2> DEFINE u == LeaseApply(leases, op, v, h, now, ttl).table
  <2>1. leases' = u /\ judged' = [judged EXCEPT ![v] = IF u = leases THEN @ ELSE now]
    BY <1>2 DEF LeaseRecord
  <2>2. u = leases \/ \E i \in Slot : Rewrites(leases, u, i, v, now)
    BY <1>1, LeaseApplyRewrites
  <2> HIDE DEF u
  <2>3. CASE u = leases
    BY <1>1, <2>1, <2>3
  <2>4. CASE u # leases
    BY <1>1, <2>1, <2>2, <2>4
  <2>5. QED
    BY <2>3, <2>4
<1>3. ASSUME NEW v \in Volume, NEW h \in Holder, NEW now \in 0..MaxNow,
             NEW f \in 1..MaxFence, Judge(v, h, f, now),
             leases' \in {Touch(leases, v, now),
                          SetFlushing(Touch(leases, v, now), v, h, FALSE),
                          SetFlushing(Touch(leases, v, now), v, h, TRUE)}
      PROVE  Record
  <2>1. Fresh(leases, v, now) /\ judged' = [judged EXCEPT ![v] = now] /\ now \in Nat
    BY <1>1, <1>3 DEF Judge
  <2>2. LET i == SlotOf(leases, v)
            u == Touch(leases, v, now)
        IN  /\ i \in Slot
            /\ Rewrites(leases, u, i, v, now)
            /\ Rewrites(leases, SetFlushing(u, v, h, FALSE), i, v, now)
            /\ Rewrites(leases, SetFlushing(u, v, h, TRUE), i, v, now)
    BY <1>1, <2>1, JudgedTable
  <2>3. QED
    BY <1>3, <2>1, <2>2
<1>4. ASSUME NEW v \in Volume, NEW h \in Holder, NEW now \in 0..MaxNow,
             NEW f \in 1..MaxFence,
             \/ VolumeBegin(v, h, f, now)
             \/ VolumeAbort(v, h, f, now)
             \/ \E expected \in 0..(MaxRev - 1), room \in BOOLEAN :
                  \/ VolumeDelete(v, h, f, now, expected, room)
                  \/ \E r \in Root : VolumeCommit(v, h, f, now, r, expected, room)
      PROVE  Record
  BY <1>3, <1>4 DEF VolumeBegin, VolumeAbort, VolumeDelete, VolumeCommit
<1>5. ASSUME NEW b \in Body, NEW now \in 0..MaxNow, SweepReserve(b, now)
      PROVE  Ended
  BY <1>1, <1>5 DEF SweepReserve
<1>6. ASSUME \/ \E v \in Volume, retain \in BOOLEAN : PlainBind(v, retain)
             \/ SweepCheck \/ SweepDelete
             \/ \E forwarded \in BOOLEAN : SweepRelease(forwarded)
      PROVE  Quiet
  BY <1>6 DEF PlainBind, SweepCheck, SweepDelete, SweepRelease
<1> HIDE DEF Quiet, Record, Ended
<1>7. Quiet \/ Record \/ Ended
  BY <1>2, <1>4, <1>5, <1>6 DEF Next
<1>8. QED
  BY <1>7 DEF Quiet, Record, Ended

\* The stamps and the order of the slots survive every step.
LEMMA NextStampedPacked ==
    ASSUME IInv, Stamped(leases, judged), Packed(leases), Next
    PROVE  Stamped(leases, judged)' /\ Packed(leases)'
<1>1. leases \in Table /\ Distinct(leases) /\ judged \in [Volume -> Nat]
  BY DEF IInv, TypeOK
<1>2. CASE leases' = leases /\ judged' = judged
  BY <1>2 DEF Stamped, Packed, Known, Naming
<1>3. CASE \E v \in Volume, now \in Nat, i \in Slot :
              /\ Rewrites(leases, leases', i, v, now)
              /\ judged' = [judged EXCEPT ![v] = now]
  <2>1. PICK v \in Volume, now \in Nat, i \in Slot :
              /\ Rewrites(leases, leases', i, v, now)
              /\ judged' = [judged EXCEPT ![v] = now]
    BY <1>3
  <2>2. Stamped(leases', [judged EXCEPT ![v] = now])
    BY <1>1, <2>1, RewritesStamped
  <2>3. Packed(leases')
    BY <1>1, <2>1, RewritesPacked
  <2>4. QED
    BY <2>1, <2>2, <2>3
<1>4. CASE \E now \in Nat : leases' = EndExpiredFlushes(leases, now) /\ judged' = judged
  <2>1. /\ leases'.stampFloor = leases.stampFloor /\ Packed(leases')
        /\ \A i \in Slot : /\ leases'.entries[i].vol = leases.entries[i].vol
                           /\ leases'.entries[i].stamp = leases.entries[i].stamp
    BY <1>1, <1>4, EndExpiredKeeps DEF SameFloors
  <2>2. Stamped(leases', judged')
    BY <1>4, <2>1 DEF Stamped, Known, Naming
  <2>3. QED
    BY <2>1, <2>2
<1>5. QED
  BY <1>2, <1>3, <1>4, TableStep


\* The part of the invariant about flushes survives a step that opens none and
\* leaves the sweep where it is.
LEMMA SubsidesGuarded ==
    ASSUME Guarded, Subsides(leases, leases'), UNCHANGED <<reserved, sweep, exposed>>
    PROVE  Guarded'
  BY DEF Guarded, Subsides, Flushes, WriterAt

\* A BEGIN opens the flush of the writer it names, which no deletion has
\* happened under since, and none while an id is reserved.
LEMMA BeginGuarded ==
    ASSUME IInv, Guarded, NEW v \in Volume, NEW h \in Holder, NEW f \in 1..MaxFence,
           NEW now \in 0..MaxNow, VolumeBegin(v, h, f, now)
    PROVE  Guarded'
<1> DEFINE t == Touch(leases, v, now)
           o == SetFlushing(t, v, h, TRUE)
           w == [vol |-> v, fence |-> f, holder |-> h]
           i == SlotOf(leases, v)
<1>1. leases \in Table /\ Distinct(leases) /\ now \in Nat /\ Fresh(leases, v, now)
      /\ UNCHANGED <<reserved, sweep>>
  BY BoundsAssumption DEF IInv, TypeOK, VolumeBegin, Judge
<1>2. /\ i \in Slot
      /\ Rewrites(leases, t, i, v, now) /\ Subsides(leases, t)
      /\ Rewrites(leases, o, i, v, now)
      /\ Known(t, v) /\ Lease(t, v) = t.entries[i]
      /\ WriterAt(t, i) = WriterAt(leases, i) /\ WriterAt(o, i) = WriterAt(leases, i)
  BY <1>1, JudgedTable
<1>3. CASE Holds(t, v, h, f, now) /\ reserved = {}
  <2>1. leases' = o /\ exposed' = exposed \ {w}
    BY <1>3 DEF VolumeBegin
  <2>2. WriterAt(t, i) = w
    BY <1>2, <1>3 DEF Holds, SameGeneration, WriterAt, Rewrites
  <2> HIDE DEF t, o, w, i
  <2>3. WriterAt(o, i) \notin exposed' /\ \A j \in Slot : j # i => o.entries[j] = leases.entries[j]
    BY <1>2, <2>1, <2>2 DEF Rewrites
  <2>4. \A j \in Slot : Flushes(leases', j) => WriterAt(leases', j) \notin exposed'
    BY <2>1, <2>3 DEF Guarded, Flushes, WriterAt
  <2>5. QED
    BY <1>1, <1>3, <2>4 DEF Guarded
<1>4. CASE ~(Holds(t, v, h, f, now) /\ reserved = {})
  <2>1. leases' = t /\ exposed' = exposed
    BY <1>4 DEF VolumeBegin
  <2>2. QED
    BY <1>1, <1>2, <2>1, SubsidesGuarded
<1>5. QED
  BY <1>3, <1>4

\* Every step keeps the sweep and the flushes apart.
LEMMA NextGuarded ==
    ASSUME IInv, Guarded, Next
    PROVE  Guarded'
<1>1. leases \in Table /\ Distinct(leases) /\ 0..MaxNow \subseteq Nat
      /\ 0..(TtlMax + 1) \subseteq Nat
  BY BoundsAssumption, TtlMaxAssumption DEF IInv, TypeOK
<1>2. Subsides(leases, leases)
  BY DEF Subsides
<1>3. ASSUME NEW v \in Volume, NEW h \in Holder, NEW now \in 0..MaxNow,
             NEW op \in LeaseOps, NEW ttl \in 0..(TtlMax + 1),
             LeaseRecord(op, v, h, now, ttl)
      PROVE  Guarded'
  <2>1. /\ leases' = LeaseApply(leases, op, v, h, now, ttl).table
        /\ UNCHANGED <<reserved, sweep, exposed>>
    BY <1>3 DEF LeaseRecord
  <2>2. now \in Nat /\ ttl \in Nat
    BY <1>1
  <2>3. Subsides(leases, leases')
    BY <1>1, <1>2, <2>1, <2>2, LeaseApplyRewrites
  <2>4. QED
    BY <2>1, <2>3, SubsidesGuarded
<1>4. ASSUME NEW v \in Volume, NEW h \in Holder, NEW now \in 0..MaxNow,
             NEW f \in 1..MaxFence,
             \/ VolumeAbort(v, h, f, now)
             \/ \E expected \in 0..(MaxRev - 1), room \in BOOLEAN :
                  \/ VolumeDelete(v, h, f, now, expected, room)
                  \/ \E r \in Root : VolumeCommit(v, h, f, now, r, expected, room)
      PROVE  Guarded'
  <2>1. /\ Judge(v, h, f, now) /\ UNCHANGED exposed
        /\ leases' \in {Touch(leases, v, now), SetFlushing(Touch(leases, v, now), v, h, FALSE)}
    BY <1>4 DEF VolumeAbort, VolumeDelete, VolumeCommit
  <2>2. Fresh(leases, v, now) /\ UNCHANGED <<reserved, sweep>> /\ now \in Nat
    BY <1>1, <2>1 DEF Judge
  <2>3. /\ Subsides(leases, Touch(leases, v, now))
        /\ Subsides(leases, SetFlushing(Touch(leases, v, now), v, h, FALSE))
    BY <1>1, <2>2, JudgedTable
  <2>4. QED
    BY <2>1, <2>2, <2>3, SubsidesGuarded
<1>5. ASSUME NEW v \in Volume, NEW retain \in BOOLEAN, PlainBind(v, retain)
      PROVE  Guarded'
  BY <1>2, <1>5, SubsidesGuarded DEF PlainBind
<1>6. ASSUME NEW b \in Body, NEW now \in 0..MaxNow, SweepReserve(b, now)
      PROVE  Guarded'
  <2>1. Subsides(leases, leases') /\ exposed' = exposed
    BY <1>1, <1>6, EndExpiredKeeps DEF SweepReserve
  <2>2. \/ sweep'.at = "reserved" /\ sweep'.body \in reserved'
        \/ sweep'.at = "idle"
    BY <1>6 DEF SweepReserve
  <2>3. QED
    BY <2>1, <2>2 DEF Guarded, Subsides
<1>7. ASSUME SweepCheck PROVE Guarded'
  <2>1. sweep \in Sweep /\ sweep.at = "reserved" /\ UNCHANGED <<leases, reserved, exposed>>
        /\ sweep' = [sweep EXCEPT !.at = IF AnyFlushing(leases) THEN "done" ELSE "proven"]
    BY <1>7 DEF IInv, TypeOK, SweepCheck
  <2>2. sweep'.body = sweep.body /\ sweep'.at = IF AnyFlushing(leases) THEN "done" ELSE "proven"
    BY <2>1 DEF Sweep
  <2>3. QED
    BY <2>1, <2>2 DEF Guarded, AnyFlushing, Flushes, WriterAt
<1>8. ASSUME SweepDelete PROVE Guarded'
  <2>1. sweep \in Sweep /\ sweep.at = "proven" /\ leases' = leases
        /\ sweep' = [sweep EXCEPT !.at = "done"]
    BY <1>8 DEF IInv, TypeOK, SweepDelete
  <2>2. sweep'.at = "done"
    BY <2>1 DEF Sweep
  <2>3. QED
    BY <2>1, <2>2 DEF Guarded, Flushes
<1>9. ASSUME NEW forwarded \in BOOLEAN, SweepRelease(forwarded) PROVE Guarded'
  <2>1. sweep'.at = "idle" /\ UNCHANGED <<leases, exposed>>
    BY <1>9 DEF SweepRelease
  <2>2. QED
    BY <2>1 DEF Guarded, Flushes, WriterAt
<1>10. QED
  BY <1>3, <1>4, <1>5, <1>6, <1>7, <1>8, <1>9, BeginGuarded DEF Next

\* The invariant holds throughout every behaviour.
THEOREM RecordsInductive == Spec => [](IInv /\ RInv)
<1>1. IInv /\ RInv /\ [Next]_vars => RInv'
  <2> SUFFICES ASSUME IInv, RInv, [Next]_vars PROVE RInv'
    OBVIOUS
  <2>1. CASE Next
    BY <2>1, NextStampedPacked, NextGuarded DEF RInv
  <2>2. CASE UNCHANGED vars
    BY <2>2 DEF vars, RInv, Stamped, Guarded, Packed, Known, Naming, Flushes, WriterAt
  <2>3. QED
    BY <2>1, <2>2
<1>2. QED
  BY InitRInv, <1>1, Inductive, PTL DEF Spec

-------------------------------------------------------------------------------
(***************************************************************************)
(* The theorems.                                                           *)
(***************************************************************************)

\* A volume's lease entry and its root move only by a record stamped later than
\* every record that moved them before, for any table size: a redelivered
\* record changes nothing, across a recycling of the entry too.
THEOREM StampsOrdered == Spec => StampOrder
<1> DEFINE Ordered(v) ==
              \/ judged'[v] > judged[v]
              \/ /\ bound'[v] = bound[v] \/ bound'[v].kind = "object"
                 /\ Known(leases', v) =>
                       /\ Known(leases, v)
                       /\ Lease(leases', v).stamp = Lease(leases, v).stamp
<1>1. IInv /\ RInv /\ IInv' /\ Next => \A v \in Volume : Ordered(v)
  <2> SUFFICES ASSUME IInv, RInv, IInv', Next, NEW v \in Volume, ~(judged'[v] > judged[v])
               PROVE  /\ bound'[v] = bound[v] \/ bound'[v].kind = "object"
                      /\ Known(leases', v) =>
                            /\ Known(leases, v)
                            /\ Lease(leases', v).stamp = Lease(leases, v).stamp
    OBVIOUS
  <2>1. /\ leases \in Table /\ Distinct(leases) /\ judged \in [Volume -> Nat]
        /\ leases' \in Table /\ Distinct(leases') /\ bound \in [Volume -> Binding]
        /\ 0..MaxNow \subseteq Nat
    BY BoundsAssumption DEF IInv, TypeOK
  <2>2. bound'[v] = bound[v] \/ bound'[v].kind = "object"
    <3>1. ASSUME NEW u \in Volume, NEW h \in Holder, NEW now \in 0..MaxNow,
                 NEW f \in 1..MaxFence, Judge(u, h, f, now)
          PROVE  u # v
      <4>1. Fresh(leases, u, now) /\ judged' = [judged EXCEPT ![u] = now] /\ now \in Nat
        BY <2>1, <3>1 DEF Judge
      <4>2. \E i \in Slot : Rewrites(leases, Touch(leases, u, now), i, u, now)
        BY <2>1, <4>1, JudgedTable
      <4>3. judged[u] < now
        BY <2>1, <4>1, <4>2, RewritesStamped DEF RInv
      <4>4. QED
        BY <2>1, <4>1, <4>3
    <3>2. ASSUME NEW u \in Volume, NEW h \in Holder, NEW now \in 0..MaxNow,
                 NEW f \in 1..MaxFence, NEW expected \in 0..(MaxRev - 1),
                 NEW room \in BOOLEAN,
                 \/ VolumeDelete(u, h, f, now, expected, room)
                 \/ \E r \in Root : VolumeCommit(u, h, f, now, r, expected, room)
          PROVE  bound'[v] = bound[v]
      <4>1. Judge(u, h, f, now)
        BY <3>2 DEF VolumeDelete, VolumeCommit
      <4>2. u # v
        BY <3>1, <4>1
      <4>3. QED
        BY <2>1, <3>2, <4>2 DEF VolumeDelete, VolumeCommit
    <3>3. ASSUME NEW u \in Volume, NEW retain \in BOOLEAN, PlainBind(u, retain)
          PROVE  bound'[v] = bound[v] \/ bound'[v].kind = "object"
      BY <2>1, <3>3 DEF PlainBind
    <3>4. \A op, u, h, now, ttl : LeaseRecord(op, u, h, now, ttl) => bound' = bound
      BY DEF LeaseRecord
    <3>5. ASSUME NEW u, NEW h, NEW f, NEW now,
                 VolumeBegin(u, h, f, now) \/ VolumeAbort(u, h, f, now)
          PROVE  bound' = bound
      BY <3>5 DEF VolumeBegin, VolumeAbort
    <3>6. \A b, now : SweepReserve(b, now) => bound' = bound
      BY DEF SweepReserve
    <3>7. SweepCheck \/ SweepDelete \/ (\E forwarded \in BOOLEAN : SweepRelease(forwarded))
             => bound' = bound
      BY DEF SweepCheck, SweepDelete, SweepRelease
    <3>8. QED
      BY <3>2, <3>3, <3>4, <3>5, <3>6, <3>7 DEF Next
  <2>3. ASSUME Known(leases', v)
        PROVE  Known(leases, v) /\ Lease(leases', v).stamp = Lease(leases, v).stamp
    <3>1. PICK i \in Slot : leases'.entries[i].vol = v
      BY <2>3 DEF Known, Naming
    <3>2. leases.entries[i].vol = v /\ leases'.entries[i].stamp = leases.entries[i].stamp
      <4>1. CASE leases' = leases
        BY <3>1, <4>1
      <4>2. CASE \E u \in Volume, now \in Nat, k \in Slot :
                    /\ Rewrites(leases, leases', k, u, now)
                    /\ judged' = [judged EXCEPT ![u] = now]
        <5>1. PICK u \in Volume, now \in Nat, k \in Slot :
                    /\ Rewrites(leases, leases', k, u, now)
                    /\ judged' = [judged EXCEPT ![u] = now]
          BY <4>2
        <5>2. judged[u] < now
          BY <2>1, <5>1, RewritesStamped DEF RInv
        <5>3. u # v
          BY <2>1, <5>1, <5>2
        <5>4. k # i
          BY <3>1, <5>1, <5>3 DEF Rewrites
        <5>5. QED
          BY <3>1, <5>1, <5>4 DEF Rewrites
      <4>3. CASE \E now \in Nat : leases' = EndExpiredFlushes(leases, now)
        BY <2>1, <3>1, <4>3, EndExpiredKeeps
      <4>4. QED
        BY <4>1, <4>2, <4>3, TableStep
    <3>3. /\ Known(leases, v) /\ Lease(leases, v) = leases.entries[i]
          /\ Lease(leases', v) = leases'.entries[i]
      BY <2>1, <3>1, <3>2, SlotOfIs
    <3>4. QED
      BY <3>2, <3>3
  <2>4. QED
    BY <2>2, <2>3
<1>2. (IInv /\ RInv) /\ (IInv /\ RInv)' /\ [Next]_vars =>
         [\A v \in Volume :
            \/ judged'[v] > judged[v]
            \/ /\ bound'[v] = bound[v] \/ bound'[v].kind = "object"
               /\ Known(leases', v) =>
                     /\ Known(leases, v)
                     /\ Lease(leases', v).stamp = Lease(leases, v).stamp]_vars
  BY <1>1
<1>3. QED
  BY <1>2, RecordsInductive, PTL DEF Spec, StampOrder

\* No commit is admitted from a writer a body was deleted under since its flush
\* was opened, whatever the clocks said and whoever held the lease between.
THEOREM FlushesGuarded == Spec => FlushGuarded
<1>1. IInv /\ RInv /\ Next =>
        \A v \in Volume : (bound'[v] # bound[v] /\ bound'[v].kind = "volume") =>
                             writer'[v] \notin exposed
  <2> SUFFICES ASSUME IInv, RInv, Next, NEW v \in Volume, bound'[v] # bound[v],
                      bound'[v].kind = "volume"
               PROVE  writer'[v] \notin exposed
    OBVIOUS
  <2>1. bound \in [Volume -> Binding] /\ leases \in Table /\ Distinct(leases)
        /\ writer \in [Volume -> Writer \cup {NoWriter}] /\ 0..MaxNow \subseteq Nat
    BY BoundsAssumption DEF IInv, TypeOK
  <2>2. PICK u \in Volume, h \in Holder, now \in 0..MaxNow, f \in 1..MaxFence,
             r \in Root, expected \in 0..(MaxRev - 1), room \in BOOLEAN :
               VolumeCommit(u, h, f, now, r, expected, room)
    BY CommitStep
  <2> DEFINE t == Touch(leases, v, now)
             w == [vol |-> v, fence |-> f, holder |-> h]
             i == SlotOf(leases, v)
  <2>3. u = v
    BY <2>1, <2>2 DEF VolumeCommit
  <2>4. /\ Fresh(leases, v, now) /\ Holds(t, v, h, f, now) /\ IsFlushing(t, v, h)
        /\ writer' = [writer EXCEPT ![v] = w]
    BY <2>2, <2>3 DEF VolumeCommit, CommitAdmitted, Judge
  <2>5. /\ i \in Slot /\ Rewrites(leases, t, i, v, now)
        /\ Lease(t, v) = t.entries[i]
        /\ WriterAt(t, i) = WriterAt(leases, i) /\ (Flushes(t, i) <=> Flushes(leases, i))
    BY <2>1, <2>4, JudgedTable
  <2>6. WriterAt(t, i) = w /\ Flushes(t, i)
    BY <2>4, <2>5, NoVolumeAssumption
       DEF Holds, SameGeneration, IsFlushing, WriterAt, Flushes, Rewrites
  <2> HIDE DEF t, w, i
  <2>7. w \notin exposed
    BY <2>5, <2>6 DEF RInv, Guarded
  <2>8. QED
    BY <2>1, <2>4, <2>7
<1>2. (IInv /\ RInv) /\ [Next]_vars =>
         [\A v \in Volume : (bound'[v] # bound[v] /\ bound'[v].kind = "volume") =>
                               writer'[v] \notin exposed]_vars
  BY <1>1
<1>3. QED
  BY <1>2, RecordsInductive, PTL DEF Spec, FlushGuarded

-------------------------------------------------------------------------------
(***************************************************************************)
(* Surviving a rotation.                                                   *)
(***************************************************************************)

\* What replaying the first n seeds of t must have built.
Seeded(t, n) ==
    [entries |-> [i \in Slot |-> IF i <= n THEN t.entries[i] ELSE EmptyEntry],
     fenceFloor |-> IF n > 0 THEN t.fenceFloor ELSE 0,
     stampFloor |-> IF n > 0 THEN t.stampFloor ELSE 0]

\* One more seed (restore): an unused slot has none, and a used one goes to the
\* slot it came from, since the slots before it are used by other volumes.
LEMMA SeedStep ==
    ASSUME NEW t \in Table, Distinct(t), Packed(t), NEW n \in 1..Slots
    PROVE  Seeded(t, n) =
              IF t.entries[n].vol = NoVolume THEN Seeded(t, n - 1)
              ELSE Restore(Seeded(t, n - 1), t.entries[n], t.fenceFloor, t.stampFloor)
<1> DEFINE b == Seeded(t, n - 1)
           e == t.entries[n]
<1>1. /\ Slots \in Nat /\ n \in Nat /\ n \in Slot /\ 1 \in Slot /\ Slot \subseteq Nat
      /\ Slot = 1..Slots /\ e \in Entry
      /\ t.fenceFloor \in Nat /\ t.stampFloor \in Nat
  BY SlotsAssumption DEF Slot, Table
<1>2. /\ \A i \in Slot : b.entries[i] = IF i <= n - 1 THEN t.entries[i] ELSE EmptyEntry
      /\ b.fenceFloor = (IF n - 1 > 0 THEN t.fenceFloor ELSE 0)
      /\ b.stampFloor = (IF n - 1 > 0 THEN t.stampFloor ELSE 0)
      /\ b.entries = [i \in Slot |-> IF i <= n - 1 THEN t.entries[i] ELSE EmptyEntry]
  BY DEF Seeded
<1>3. EmptyEntry.vol = NoVolume
  BY DEF EmptyEntry
<1>4. CASE e.vol = NoVolume
  <2>1. e = EmptyEntry
    BY <1>1, <1>4 DEF Packed
  <2>2. \A i \in Slot : (IF i <= n THEN t.entries[i] ELSE EmptyEntry)
                      = (IF i <= n - 1 THEN t.entries[i] ELSE EmptyEntry)
    BY <1>1, <2>1
  <2>3. [i \in Slot |-> IF i <= n THEN t.entries[i] ELSE EmptyEntry]
      = [i \in Slot |-> IF i <= n - 1 THEN t.entries[i] ELSE EmptyEntry]
    BY <2>2
  <2>4. n - 1 > 0 \/ (t.fenceFloor = 0 /\ t.stampFloor = 0)
    BY <1>1, <1>4 DEF Packed
  <2>5. /\ (IF n > 0 THEN t.fenceFloor ELSE 0) = (IF n - 1 > 0 THEN t.fenceFloor ELSE 0)
        /\ (IF n > 0 THEN t.stampFloor ELSE 0) = (IF n - 1 > 0 THEN t.stampFloor ELSE 0)
    BY <1>1, <2>4
  <2>6. Seeded(t, n) = b
    BY <2>3, <2>5 DEF Seeded
  <2>7. QED
    BY <1>4, <2>6
<1>5. CASE e.vol # NoVolume
  <2>1. \A i \in Slot : i <= n - 1 => t.entries[i].vol # NoVolume /\ t.entries[i].vol # e.vol
    BY <1>1, <1>5 DEF Packed, Distinct
  <2> HIDE DEF b
  <2>2. ~Known(b, e.vol)
    BY <1>1, <1>2, <1>3, <1>5, <2>1 DEF Known, Naming
  <2>3. FreeSlots(b) = {i \in Slot : ~(i <= n - 1)}
    BY <1>2, <1>3, <2>1 DEF FreeSlots
  <2>4. n \in FreeSlots(b) /\ FreeSlots(b) \in SUBSET Slot /\ \A j \in FreeSlots(b) : n <= j
    BY <1>1, <2>3
  <2>5. First(FreeSlots(b)) = n
    <3>1. First(FreeSlots(b)) \in FreeSlots(b) /\ \A j \in FreeSlots(b) : First(FreeSlots(b)) <= j
      BY <2>4, FirstLeast
    <3>2. First(FreeSlots(b)) <= n /\ n <= First(FreeSlots(b)) /\ First(FreeSlots(b)) \in Nat
      BY <1>1, <2>4, <3>1
    <3>3. QED
      BY <1>1, <3>2
  <2>6. Restore(b, e, t.fenceFloor, t.stampFloor) =
          [entries |-> [b.entries EXCEPT ![n] = e],
           fenceFloor |-> AtLeast(b.fenceFloor, t.fenceFloor),
           stampFloor |-> AtLeast(b.stampFloor, t.stampFloor)]
    BY <2>2, <2>4, <2>5 DEF Restore
  <2>7. [b.entries EXCEPT ![n] = e]
          = [i \in Slot |-> IF i <= n THEN t.entries[i] ELSE EmptyEntry]
    BY <1>1, <1>2
  <2>8. /\ AtLeast(b.fenceFloor, t.fenceFloor) = t.fenceFloor
        /\ AtLeast(b.stampFloor, t.stampFloor) = t.stampFloor
    BY <1>1, <1>2 DEF AtLeast
  <2>9. n > 0
    BY <1>1
  <2>10. Seeded(t, n) = Restore(b, e, t.fenceFloor, t.stampFloor)
    BY <2>6, <2>7, <2>8, <2>9 DEF Seeded
  <2>11. QED
    BY <1>5, <2>10 DEF b
<1>6. QED
  BY <1>4, <1>5

\* Replaying every seed of a packed table rebuilds it.  The fold is defined by
\* recursion on the slots: Seeded solves its equation, and a least slot at which
\* another solution differed would contradict SeedStep.
LEMMA ReseededIs ==
    ASSUME NEW t \in Table, Distinct(t), Packed(t)
    PROVE  Reseeded(t) = t
<1> DEFINE Step(g) ==
             [n \in 0..Slots |->
                IF n = 0 THEN EmptyTable
                ELSE IF t.entries[n].vol = NoVolume THEN g[n - 1]
                ELSE Restore(g[n - 1], t.entries[n], t.fenceFloor, t.stampFloor)]
           f == [n \in 0..Slots |-> Seeded(t, n)]
           g == CHOOSE x : x = Step(x)
<1>1. Reseeded(t) = g[Slots]
  BY DEF Reseeded
<1>2. Slots \in Nat /\ Slot = 1..Slots /\ t.entries \in [Slot -> Entry]
  BY SlotsAssumption DEF Slot, Table
<1>3. Seeded(t, 0) = EmptyTable
  <2>1. \A i \in Slot : ~(i <= 0)
    BY <1>2
  <2>2. [i \in Slot |-> IF i <= 0 THEN t.entries[i] ELSE EmptyEntry] = [i \in Slot |-> EmptyEntry]
    BY <2>1
  <2>3. ~(0 > 0)
    OBVIOUS
  <2>4. QED
    BY <2>2, <2>3 DEF Seeded, EmptyTable
<1>4. \A n \in 1..Slots : Seeded(t, n) =
              IF t.entries[n].vol = NoVolume THEN Seeded(t, n - 1)
              ELSE Restore(Seeded(t, n - 1), t.entries[n], t.fenceFloor, t.stampFloor)
  BY SeedStep
<1>5. f = Step(f)
  <2>1. \A n \in 0..Slots : n # 0 => n \in 1..Slots /\ n - 1 \in 0..Slots
    BY <1>2
  <2>2. \A n \in 0..Slots : f[n] = Step(f)[n]
    BY <1>3, <1>4, <2>1
  <2>3. QED
    BY <2>2
<1>6. g = Step(g)
  <2> HIDE DEF Step
  <2>1. QED
    BY <1>5
<1> HIDE DEF g
<1>7. \A n \in 0..Slots : g[n] = Seeded(t, n)
  <2> DEFINE Bad == {n \in 0..Slots : g[n] # Seeded(t, n)}
  <2> SUFFICES ASSUME Bad # {} PROVE FALSE
    OBVIOUS
  <2>1. Bad \subseteq Nat
    BY <1>2
  <2>2. PICK x \in Bad : \A y \in Bad : ~(<<y, x>> \in OpToRel(<, Nat))
    BY <2>1, NatLessThanWellFounded, WFMin
  <2>3. x \in 0..Slots /\ g[x] # Seeded(t, x) /\ x \in Nat
    BY <2>1, <2>2
  <2>4. x # 0
    BY <1>3, <1>6, <2>3
  <2>5. x - 1 \in 0..Slots /\ x \in 1..Slots /\ x - 1 < x /\ x - 1 \in Nat
    BY <1>2, <2>3, <2>4
  <2>6. x - 1 \notin Bad
    BY <2>2, <2>3, <2>5 DEF OpToRel
  <2>7. g[x - 1] = Seeded(t, x - 1)
    BY <2>5, <2>6
  <2>8. g[x] = IF t.entries[x].vol = NoVolume THEN g[x - 1]
               ELSE Restore(g[x - 1], t.entries[x], t.fenceFloor, t.stampFloor)
    BY <1>6, <2>3, <2>4
  <2>9. QED
    BY <1>4, <2>3, <2>5, <2>7, <2>8
<1>8. Seeded(t, Slots) = t
  <2>1. \A i \in Slot : i <= Slots
    BY <1>2
  <2>2. [i \in Slot |-> IF i <= Slots THEN t.entries[i] ELSE EmptyEntry] = t.entries
    BY <1>2, <2>1
  <2>3. Slots > 0
    BY SlotsAssumption
  <2>4. t = [entries |-> t.entries, fenceFloor |-> t.fenceFloor, stampFloor |-> t.stampFloor]
    BY DEF Table
  <2>5. QED
    BY <2>2, <2>3, <2>4 DEF Seeded
<1>9. Slots \in 0..Slots
  BY <1>2
<1>10. QED
  BY <1>1, <1>7, <1>8, <1>9

\* Replaying the records a rotated log opens with rebuilds the lease table
\* exactly, at every moment and for any number of slots.
THEOREM RotationsExact == Spec => []RotationExact
<1>1. IInv /\ RInv => RotationExact
  BY ReseededIs DEF IInv, RInv, TypeOK, RotationExact
<1>2. QED
  BY <1>1, RecordsInductive, PTL
===============================================================================
